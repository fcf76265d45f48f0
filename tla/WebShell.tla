------------------------------ MODULE WebShell ------------------------------
(***************************************************************************)
(* The web shell (web/shell/main.js): booting, choosing a BIOS and a disc, *)
(* starting the emulator, and keeping the backup memory in IndexedDB.      *)
(*                                                                         *)
(* A content of the backup memory is its version: 0 is a blank one, and a  *)
(* game that saves makes the next.  The database carries out transactions  *)
(* on its store in the order in which they are made; those of a page that  *)
(* is gone may be carried out or not.                                      *)
(***************************************************************************)
EXTENDS Integers, Sequences

CONSTANTS
    MaxVersion,     \* bound on the versions
    MaxTransactions \* bound on the transactions to the database under way

ASSUME WebShellAssumption == MaxVersion \in Nat /\ MaxTransactions \in Nat \ {0}

VARIABLES
    boot,               \* "no module", "bios", "restore", "done" or "failed"
    biosReady, discReady,
    startEnabled,       \* the Start button
    starting,           \* Start has been clicked and the audio is being set up
    emulating,
    memory,             \* the version in the emulator
    transactions,           \* to the database: the name of a read, or a version to store
    restored,           \* versions read and not yet handled
    store,              \* the database: a BIOS is stored; the version stored
    early               \* history: the page has started the emulator with its memory not restored

shellVars == <<boot, biosReady, discReady, startEnabled, starting, emulating, memory, transactions,
               restored, store, early>>

userVars == <<discReady, startEnabled, starting, early>>
dataVars == <<memory, transactions, restored, store>>

Ask(request) == Len(transactions) < MaxTransactions /\ transactions' = Append(transactions, request)

SetButtons == startEnabled' = (biosReady' /\ discReady')

Store(version) == [kind |-> "store", version |-> version]
ReadMemory == [kind |-> "read"]

-----------------------------------------------------------------------------
(* Booting. *)

\* init() makes a blank memory; until then the page can load nothing.
BootPage ==
    /\ boot = "no module"
    /\ boot' = "bios"
    /\ memory' = 0
    /\ UNCHANGED <<biosReady, userVars, emulating, transactions, restored, store>>

GotBios ==
    /\ boot = "bios"
    /\ boot' = "restore"
    /\ biosReady' = (biosReady \/ store.bios)
    /\ Ask(ReadMemory)
    /\ UNCHANGED <<userVars, emulating, memory, restored, store>>

\* The database refuses to read: booting ends there, and the page stays as it is.
BootFails ==
    /\ \/ boot = "bios" /\ UNCHANGED restored
       \/ boot = "restore" /\ restored # <<>> /\ restored' = Tail(restored)
    /\ boot' = "failed"
    /\ UNCHANGED <<biosReady, userVars, emulating, memory, transactions, store>>

\* Faulty: what is read is not put into the emulator.
RestoreBackupRAMDropped ==
    /\ boot = "restore"
    /\ restored # <<>>
    /\ boot' = "done"
    /\ restored' = Tail(restored)
    /\ UNCHANGED <<biosReady, discReady, starting, early, emulating, memory, transactions, store>>
    /\ SetButtons

\* A store in which nothing was ever saved leaves the memory as it is.
RestoreBackupRAM ==
    /\ boot = "restore"
    /\ restored # <<>>
    /\ boot' = "done"
    /\ restored' = Tail(restored)
    /\ memory' = IF Head(restored) > 0 THEN Head(restored) ELSE memory
    /\ UNCHANGED <<biosReady, discReady, starting, early, emulating, transactions, store>>
    /\ SetButtons

-----------------------------------------------------------------------------
(* The user. *)

LoadBiosFile ==
    /\ boot # "no module"
    /\ biosReady' = TRUE
    /\ store' = [store EXCEPT !.bios = TRUE]
    /\ UNCHANGED <<boot, discReady, starting, early, emulating, memory, transactions, restored>>
    /\ SetButtons

WriteRomsAndLoad ==
    /\ boot # "no module"
    /\ discReady' = TRUE
    /\ UNCHANGED <<boot, biosReady, starting, early, emulating, dataVars>>
    /\ SetButtons

\* The button looks at nothing else: the memory may not have been restored.
ClickStart ==
    /\ startEnabled
    /\ starting' = TRUE
    /\ UNCHANGED <<boot, biosReady, discReady, startEnabled, early, emulating, dataVars>>

AudioReady ==
    /\ starting
    /\ starting' = FALSE
    /\ emulating' = TRUE
    /\ early' = (early \/ boot # "done")
    /\ UNCHANGED <<boot, biosReady, discReady, dataVars>>
    /\ SetButtons

-----------------------------------------------------------------------------
(* The frame loop and the saving. *)

GameSaves ==
    /\ emulating
    /\ memory < MaxVersion
    /\ memory' = memory + 1
    /\ UNCHANGED <<boot, biosReady, userVars, emulating, transactions, restored, store>>

RunFrameFails ==
    /\ emulating
    /\ emulating' = FALSE
    /\ UNCHANGED <<boot, biosReady, discReady, starting, early, dataVars>>
    /\ SetButtons

\* Faulty: only the first content is ever saved.
SaveBackupRAMOnce ==
    /\ boot # "no module" /\ emulating
    /\ store.version = 0
    /\ Ask(Store(memory))
    /\ UNCHANGED <<boot, biosReady, userVars, emulating, memory, restored, store>>

\* By the timer, or when the page is hidden.
SaveBackupRAM ==
    /\ boot # "no module" /\ emulating
    /\ Ask(Store(memory))
    /\ UNCHANGED <<boot, biosReady, userVars, emulating, memory, restored, store>>

Transact ==
    /\ transactions # <<>>
    /\ transactions' = Tail(transactions)
    /\ LET request == Head(transactions) IN
       IF request.kind = "store"
       THEN store' = [store EXCEPT !.version = request.version] /\ UNCHANGED restored
       ELSE restored' = Append(restored, store.version) /\ UNCHANGED store
    /\ UNCHANGED <<boot, biosReady, userVars, emulating, memory>>

\* The page is left, which tries to save, and loaded again.
LeavePage ==
    \E carriedOut \in 0 .. Len(transactions) + 1 :
        LET asked == IF boot # "no module" /\ emulating THEN Append(transactions, Store(memory))
                     ELSE transactions
            done == {k \in 1 .. carriedOut : asked[k].kind = "store"}
        IN
        /\ carriedOut <= Len(asked)
        /\ \/ done = {} /\ UNCHANGED store
           \/ \E last \in done :
                 /\ \A k \in done : k <= last
                 /\ store' = [store EXCEPT !.version = asked[last].version]
        /\ boot' = "no module"
        /\ biosReady' = FALSE
        /\ discReady' = FALSE
        /\ startEnabled' = FALSE
        /\ early' = FALSE
        /\ starting' = FALSE
        /\ emulating' = FALSE
        /\ memory' = 0
        /\ transactions' = <<>>
        /\ restored' = <<>>

ShellInit ==
    /\ boot = "no module"
    /\ biosReady = FALSE
    /\ discReady = FALSE
    /\ startEnabled = FALSE
    /\ early = FALSE
    /\ starting = FALSE
    /\ emulating = FALSE
    /\ memory = 0
    /\ transactions = <<>>
    /\ restored = <<>>
    /\ store = [bios |-> FALSE, version |-> 0]

ShellNext ==
    \/ BootPage
    \/ GotBios
    \/ BootFails
    \/ RestoreBackupRAM
    \/ LoadBiosFile
    \/ WriteRomsAndLoad
    \/ ClickStart
    \/ AudioReady
    \/ GameSaves
    \/ RunFrameFails
    \/ SaveBackupRAM
    \/ Transact
    \/ LeavePage

\* The timer goes on, and the database carries out what it is asked.
ShellFairness == WF_shellVars(SaveBackupRAM) /\ WF_shellVars(Transact)

ShellSpec == ShellInit /\ [][ShellNext]_shellVars /\ ShellFairness

-----------------------------------------------------------------------------
\* What is stored goes back to an older content only where a page has started the
\* emulator before, or without, restoring it: pages that come and go while saves
\* are under way never do it (main.js 277, 283, 307).
StoredNeverOlder == [][store'.version >= store.version \/ early]_shellVars

\* "BIOS and backup RAM live in IndexedDB so reloads keep state" (main.js 3): a
\* page loaded anew never puts an older content, or a blank one, over the stored
\* one.
ReloadsKeepState == [][store'.version >= store.version]_shellVars

\* What a game saves comes to be stored while the page runs on, once the game
\* saves no more (main.js 287).
SavesAreStored == emulating /\ store.version < memory ~> ~emulating \/ store.version >= memory
=============================================================================
