----------------------------- MODULE CDSelector -----------------------------
(***************************************************************************)
(* The selector of the CD block: the filters, the connections between      *)
(* them, and the route a sector read from the disc takes through them      *)
(* into a buffer partition.                                                *)
(*                                                                         *)
(* A filter's pass output names a partition and its fail output another    *)
(* filter; the drive's output (m_cdDeviceConnection) names the filter that *)
(* sees every sector first.  The conditions of a filter (Filter::Test) are *)
(* abstracted to the set of frame addresses whose sectors it accepts.      *)
(***************************************************************************)
EXTENDS CDPartitions

CONSTANTS
    Conditions,   \* the conditions a host gives filters: sets of frame addresses
    CDConnectors,      \* the filters a host connects the drive to
    FilterConnectors   \* the connectors it names for the outputs of filters

Disconnected == 255

Filters == Partitions

Fads == 1..MaxFad

Outputs == Filters \cup {Disconnected}

\* passOutput and failOutput are stored unchecked, and routing asserts that a
\* connected output is a filter: the hosts modelled name no other number.
ASSUME SelectorAssumption ==
    /\ Conditions \subseteq SUBSET Fads
    /\ CDConnectors \subseteq Outputs
    /\ FilterConnectors \subseteq Outputs

VARIABLES
    passOut,    \* Filter::passOutput
    failOut,    \* Filter::failOutput
    accept,     \* the frame addresses Filter::Test accepts
    cdConn,     \* m_cdDeviceConnection
    lastDest    \* m_lastCDWritePartition

wires == <<passOut, failOut, cdConn>>

selectorVars == <<passOut, failOut, accept, cdConn, lastDest>>

-----------------------------------------------------------------------------
OwnPartition == [f \in Filters |-> f]

NoFailOutput == [f \in Filters |-> Disconnected]

AcceptAll == [f \in Filters |-> Fads]

InitSelector ==
    /\ passOut = OwnPartition
    /\ failOut = NoFailOutput
    /\ accept = AcceptAll
    /\ cdConn = Disconnected
    /\ lastDest = Disconnected

ResetFilters ==
    /\ passOut' = OwnPartition
    /\ failOut' = NoFailOutput
    /\ accept' = AcceptAll
    /\ cdConn' = Disconnected
    /\ lastDest' = Disconnected

-----------------------------------------------------------------------------
(***************************************************************************)
(* Connections.  DisconnectFilterInput frees the input of filter f by      *)
(* disconnecting the first fail output that feeds it, and only that one.   *)
(***************************************************************************)
FailInputs(f) == {g \in Filters : failOut[g] = f}

\* Faulty: nothing is disconnected.
FreedInputKept(f) == failOut

FreedInput(f) ==
    [g \in Filters |-> IF g \in FailInputs(f) /\ \A h \in FailInputs(f) : g <= h
                       THEN Disconnected ELSE failOut[g]]

ConnectCDDevice(c) ==
    /\ cdConn' = c
    /\ failOut' = IF c \in Filters THEN FreedInput(c) ELSE failOut

\* DisconnectCDDevice(f) and DisconnectFilterInput(f), as a put transfer does.
DetachInput(f) ==
    /\ cdConn' = IF cdConn = f THEN Disconnected ELSE cdConn
    /\ failOut' = FreedInput(f)

SetCDDeviceConnection(c) ==
    /\ ConnectCDDevice(c)
    /\ UNCHANGED <<passOut, accept, lastDest>>

\* Command 0x46: the flags choose which of the outputs are set.
SetFilterConnection(f, pass, fail, setPass, setFail) ==
    /\ passOut' = IF setPass THEN [passOut EXCEPT ![f] = pass] ELSE passOut
    /\ failOut' = IF setFail THEN [FreedInput(fail) EXCEPT ![f] = fail] ELSE failOut
    /\ UNCHANGED <<accept, cdConn, lastDest>>

\* Commands 0x40, 0x42 and 0x44 change what a filter accepts.
SetFilterConditions(f, c) ==
    /\ accept' = [accept EXCEPT ![f] = c]
    /\ UNCHANGED <<wires, lastDest>>

\* The part of command 0x48 that is about filters.
ResetFilterParts(conditions, inputs, passes, fails) ==
    /\ accept' = IF conditions THEN AcceptAll ELSE accept
    /\ cdConn' = IF inputs THEN Disconnected ELSE cdConn
    /\ passOut' = IF passes THEN OwnPartition ELSE passOut
    /\ failOut' = IF inputs \/ fails THEN NoFailOutput ELSE failOut
    /\ UNCHANGED lastDest

-----------------------------------------------------------------------------
(***************************************************************************)
(* Routing.  hop[i] is the filter the sector stands at when the loop of    *)
(* ProcessDriveStatePlay begins its i-th round.  It stays where it passed, *)
(* and the loop gives up after NumFilters rounds.                          *)
(***************************************************************************)
NextHop(f, fad) ==
    IF f = Disconnected \/ fad \in accept[f] THEN f ELSE failOut[f]

Hops(fad) ==
    LET hop[i \in 0..NumFilters] ==
            IF i = 0 THEN cdConn ELSE NextHop(hop[i - 1], fad)
    IN  hop

\* Faulty: one round too few.
DestinationEarly(fad) ==
    LET f == Hops(fad)[NumFilters - 2]
    IN  IF f \in Filters /\ fad \in accept[f] THEN passOut[f] ELSE Disconnected

\* The partition the sector is stored in; Disconnected when it is dropped.
Destination(fad) ==
    LET f == Hops(fad)[NumFilters - 1]
    IN  IF f \in Filters /\ fad \in accept[f] THEN passOut[f] ELSE Disconnected

\* A sector arrives with a buffer to spare.
Route(fad, s) ==
    \/ /\ Destination(fad) \in Partitions
       /\ InsertHead(Destination(fad), s)
       /\ lastDest' = Destination(fad)
    \/ /\ Destination(fad) = Disconnected
       /\ UNCHANGED <<poolVars, lastDest>>

-----------------------------------------------------------------------------
(***************************************************************************)
(* The selector on its own: the host's commands on filters, the cuts that  *)
(* put transfers make, and sectors stored from the disc and taken away.    *)
(***************************************************************************)
Rewire ==
    \/ \E c \in CDConnectors : SetCDDeviceConnection(c)
    \/ \E f \in Filters, pass, fail \in FilterConnectors, setPass, setFail \in BOOLEAN :
          SetFilterConnection(f, pass, fail, setPass, setFail)
    \/ \E f \in Filters, c \in Conditions : SetFilterConditions(f, c)

ResetParts == \E c, i, s, f \in BOOLEAN : ResetFilterParts(c, i, s, f)

Detach == \E f \in Filters : DetachInput(f) /\ UNCHANGED <<passOut, accept, lastDest>>

StoreSector ==
    \E fad \in Fads :
        /\ GetFreeBufferCount # 0
        /\ Route(fad, [fad |-> fad, data |-> fad, host |-> 0])
        /\ UNCHANGED <<wires, accept>>

SelectorNext ==
    \/ (Rewire \/ ResetParts \/ Detach) /\ UNCHANGED poolVars
    \/ ResetFilters /\ ResetPool
    \/ StoreSector
    \/ \E p \in Partitions : ClearPartition(p) /\ UNCHANGED selectorVars

SelectorInit == InitPool /\ InitSelector

SelectorSpec == SelectorInit /\ [][SelectorNext]_<<poolVars, selectorVars>>

-----------------------------------------------------------------------------
(***************************************************************************)
(* Properties.                                                             *)
(***************************************************************************)
SelectorTypeOK ==
    /\ passOut \in [Filters -> Outputs]
    /\ failOut \in [Filters -> Outputs]
    /\ accept \in [Filters -> SUBSET Fads]
    /\ cdConn \in Outputs
    /\ lastDest \in Outputs

\* No filter input is fed by two fail outputs: DisconnectFilterInput stops at
\* the first match, so every command that connects an output relies on this.
FailInputsUnique ==
    \A f, g \in Filters :
        failOut[f] = failOut[g] /\ failOut[f] # Disconnected => f = g

\* The filters a sector can visit from the drive, with no bound on the hops.
Visits(fad) ==
    {p \in UNION {[1..n -> Filters] : n \in 1..NumFilters} :
        /\ p[1] = cdConn
        /\ \A i \in 1..(Len(p) - 1) :
              fad \notin accept[p[i]] /\ failOut[p[i]] = p[i + 1]
        /\ \A i, j \in 1..Len(p) : i # j => p[i] # p[j]}

\* NumFilters rounds are enough: a sector that some filter on its way accepts
\* is stored where that filter's pass output points, however the host wired
\* the filters (cycles included); the others are dropped.
RoutingComplete ==
    \A fad \in Fads :
        LET passing == {p[Len(p)] : p \in {q \in Visits(fad) : fad \in accept[q[Len(q)]]}}
        IN  IF passing = {} THEN Destination(fad) = Disconnected
            ELSE \E f \in passing : passing = {f} /\ Destination(fad) = passOut[f]
=============================================================================
