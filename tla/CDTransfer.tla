----------------------------- MODULE CDTransfer -----------------------------
(***************************************************************************)
(* Sector transfers of the CD block: the host reads, deletes and writes    *)
(* sectors of the buffer partitions while the drive goes on filling them.  *)
(*                                                                         *)
(* There is one transfer at a time (m_xferType and the m_xfer... members). *)
(* A command sets it up, the host moves it on word by word through the     *)
(* data port, EndTransfer completes it.  Between any two of those steps    *)
(* the drive may store a sector, the host may send another command, and    *)
(* the emulator may save or load a state.                                  *)
(*                                                                         *)
(* HostMay lists what the host does while a transfer is pending:           *)
(*   "restart"    sets up another transfer without ending the first        *)
(*   "delete"     deletes sectors, clears partitions, resets the selector  *)
(*   "length"     changes the sector lengths                               *)
(*   "savestate"  the user saves a state                                   *)
(* With HostMay empty every transfer is ended before the next command.     *)
(***************************************************************************)
EXTENDS CDSelector

CONSTANTS
    Mode2,        \* the frame addresses of mode 2 sectors
    Form2,        \* those of form 2 among them
    Lengths,      \* the sector lengths the host can choose, in words
    SectorLength, \* the length of a sector before it chooses (2048 bytes)
    ExtLength,    \* the length of the data of a form 2 sector (2324 bytes)
    InfoLength,   \* the length of a TOC, file information or subcode transfer
    MaxCount,     \* the largest sector count the host asks for
    HostMay,
    MaxSaves      \* a bound: how many times the user saves a state

ASSUME TransferAssumption ==
    /\ Form2 \subseteq Mode2
    /\ Mode2 \subseteq Fads
    /\ Lengths \subseteq Nat \ {0}
    /\ SectorLength \in Lengths
    /\ ExtLength \in Nat
    /\ InfoLength \in Nat
    /\ MaxCount \in 0..NumBuffers
    /\ HostMay \subseteq {"restart", "delete", "length", "savestate"}
    /\ MaxSaves \in Nat

VARIABLES
    xfer,        \* the transfer in progress
    scratch,     \* m_scratchBuffers, as long as a put transfer needs them
    getLength,   \* m_getSectorLength
    putLength,   \* m_putSectorLength
    nextFad,     \* the frame address the drive reads next
    bufferFullPause,
    saved        \* the saved states

vars == <<poolVars, selectorVars, xfer, scratch, getLength, putLength,
          nextFad, bufferFullPause, saved>>

Slots == 0..NumBuffers

BytesPerWord == 2

Types == {"None", "Info", "Get", "GetThenDelete", "Put"}

Transfer ==
    [type   : Types,             \* m_xferType
     part   : Partitions,        \* m_xferPartition
     pos    : Nat,               \* m_xferPos, in words
     len    : Nat,               \* m_xferLength, in words
     buf    : Nat,               \* m_xferBufferPos, in words of the sector
     sector : Nat,               \* m_xferSectorPos
     last   : Nat,               \* m_xferSectorEnd
     getLen : Nat,               \* m_xferGetLength
     delStart : Slots,           \* m_xferDelStart
     delCount : Slots,           \* m_xferDelCount
     put    : Nat,               \* m_scratchBufferPutIndex
     target : Seq(Buffer)]       \* history: the sectors a get was set up for

NoTransfer ==
    [type |-> "None", part |-> 0, pos |-> 0, len |-> 0, buf |-> 0, sector |-> 0,
     last |-> 0, getLen |-> 0, delStart |-> 0, delCount |-> 0, put |-> 0,
     target |-> <<>>]

\* No transfer.  The other members keep their values in the code, but nothing
\* reads them before the next transfer sets them, and they are forgotten here;
\* m_xferDelStart survives because loading a state does not set it.  The scratch
\* buffers, too, are followed only during a put transfer, which prepares them.
Ended == [NoTransfer EXCEPT !.delStart = xfer.delStart]

NoScratch == [i \in Slots |-> Blank]

Getting == xfer.type \in {"Get", "GetThenDelete"}

-----------------------------------------------------------------------------
Init ==
    /\ InitPool
    /\ InitSelector
    /\ xfer = NoTransfer
    /\ scratch = NoScratch
    /\ getLength = SectorLength
    /\ putLength = SectorLength
    /\ nextFad = 1
    /\ bufferFullPause = FALSE
    /\ saved = <<>>

\* The host sends a command of kind k now.
Allowed(k) == xfer.type = "None" \/ k \in HostMay

driveVars == <<nextFad, bufferFullPause>>

-----------------------------------------------------------------------------
(***************************************************************************)
(* Setting a transfer up.                                                  *)
(***************************************************************************)

\* ReadSector: the length of the data the host gets of the current sector. Form
\* 2 sectors, and mode 2 sectors in a get-then-delete, are longer than the
\* length the transfer was set up with.  The transfer grows too, but by the
\* difference in bytes, although its length is a number of words.
Extended(s, type) ==
    s.data \in Form2 \/ (s.data \in Mode2 /\ type = "GetThenDelete")

\* Faulty: the transfer is not stretched by a long sector.
ReadSectorUnstretched(x) ==
    LET q      == part[x.part]
        longer == x.sector < Len(q) /\ Extended(q[x.sector + 1], x.type)
    IN  [x EXCEPT !.getLen = IF longer /\ ExtLength > getLength THEN ExtLength ELSE getLength]

ReadSector(x) ==
    LET q      == part[x.part]
        longer == x.sector < Len(q) /\ Extended(q[x.sector + 1], x.type)
        length == IF longer /\ ExtLength > getLength THEN ExtLength ELSE getLength
    IN  [x EXCEPT !.getLen = length, !.len = @ + BytesPerWord * (length - getLength)]

\* The sector range a command asks for, 0-based, in a partition of that size.
FirstOf(pos, size) == IF pos = Wild THEN size - 1 ELSE pos

LastOf(pos, count, size) ==
    IF count = Wild THEN size - 1 ELSE FirstOf(pos, size) + count - 1

InRange(first, last, size) == first < size /\ last < size /\ first <= last

\* SetupGetSectorTransfer.  A request that is out of range is refused after the
\* sector range of the current transfer has been overwritten.
GetSectors(p, pos, count, del) ==
    LET size  == GetBufferCount(p)
        first == FirstOf(pos, size)
        last  == LastOf(pos, count, size)
        type  == IF del THEN "GetThenDelete" ELSE "Get"
        n     == last - first + 1
        refused == IF Getting THEN [xfer EXCEPT !.sector = first, !.last = last] ELSE xfer
        started ==
            [Ended EXCEPT !.type = type, !.part = p, !.sector = first, !.last = last,
                          !.len = getLength * n,
                          !.delStart = IF del THEN first ELSE @,
                          !.delCount = IF del THEN n ELSE 0,
                          !.target = SubSeq(part[p], first + 1, last + 1)]
    IN  /\ Allowed("restart")
        /\ count # 0 /\ size # 0
        /\ IF InRange(first, last, size)
           THEN xfer' = ReadSector(started) /\ scratch' = NoScratch
           ELSE xfer' = refused /\ UNCHANGED scratch
        /\ UNCHANGED <<poolVars, selectorVars, getLength, putLength, driveVars, saved>>

\* CmdPutSectorData and SetupPutSectorTransfer: reserve the buffers, prepare as
\* many scratch buffers, cut every input of the filter of that number.
PutSectorData(p, count) ==
    /\ Allowed("restart")
    /\ CanReserve(count)
    /\ ReserveBuffers(count)
    /\ xfer' = [Ended EXCEPT !.type = "Put", !.part = p, !.len = putLength * count]
    /\ scratch' = NoScratch
    /\ DetachInput(p)
    /\ UNCHANGED <<part, free, passOut, accept, lastDest, getLength, putLength,
                   driveVars, saved>>

\* SetupTOCTransfer, SetupFileInfoTransfer and SetupSubcodeTransfer: the data
\* does not come from the partitions.
InfoTransfer ==
    /\ Allowed("restart")
    /\ xfer' = [Ended EXCEPT !.type = "Info", !.len = InfoLength]
    /\ scratch' = NoScratch
    /\ UNCHANGED <<poolVars, selectorVars, getLength, putLength, driveVars, saved>>

-----------------------------------------------------------------------------
(***************************************************************************)
(* The data port.  The host reads read transfers and writes put transfers. *)
(***************************************************************************)

\* DoReadTransfer: one word; at the end of a sector, move on to the next one,
\* unless this was the last word.
ReadPort ==
    LET x == [xfer EXCEPT !.pos = @ + 1, !.buf = @ + 1]
        next == [x EXCEPT !.sector = @ + 1, !.buf = 0]
    IN  /\ xfer.type \in {"Info", "Get", "GetThenDelete"}
        /\ xfer.pos < xfer.len
        /\ xfer' = IF xfer.type = "Info" \/ x.buf < xfer.getLen THEN x
                   ELSE IF x.pos < xfer.len THEN ReadSector(next)
                   ELSE next
        /\ UNCHANGED <<poolVars, selectorVars, scratch, getLength, putLength,
                       driveVars, saved>>

\* DoWriteTransfer: one word into the current scratch buffer.
WritePort ==
    LET x == [xfer EXCEPT !.pos = @ + 1, !.buf = @ + 1]
    IN  /\ xfer.type = "Put"
        /\ xfer.pos < xfer.len
        /\ xfer' = IF x.buf < putLength THEN x
                   ELSE [x EXCEPT !.put = @ + 1, !.buf = 0]
        /\ scratch' = IF xfer.put \in Slots /\ xfer.buf < putLength
                      THEN [scratch EXCEPT ![xfer.put].host = @ + 1] ELSE scratch
        /\ UNCHANGED <<poolVars, selectorVars, getLength, putLength, driveVars, saved>>

-----------------------------------------------------------------------------
(***************************************************************************)
(* EndTransfer: of CmdEndDataTransfer and CmdAbortFile.                    *)
(***************************************************************************)

\* The number of sectors of a put transfer is worked out again, from the length
\* of the transfer and the current put length.
PutCount == xfer.len \div putLength

PutBatch == [i \in 1..PutCount |-> scratch[i - 1]]

EndPut ==
    /\ IF CanUseReserved(PutCount) THEN InsertReserved(xfer.part, PutBatch)
       ELSE UNCHANGED poolVars
    /\ DetachInput(xfer.part)
    /\ UNCHANGED <<passOut, accept, lastDest>>

EndDataTransfer ==
    /\ xfer.type # "None"
    /\ \/ xfer.type = "Put" /\ EndPut
       \/ /\ xfer.type = "GetThenDelete"
          /\ DeleteSectors(xfer.part, xfer.delStart, xfer.delCount)
          /\ UNCHANGED selectorVars
       \/ xfer.type \in {"Get", "Info"} /\ UNCHANGED <<poolVars, selectorVars>>
    /\ xfer' = Ended
    /\ scratch' = NoScratch
    /\ UNCHANGED <<getLength, putLength, driveVars, saved>>

-----------------------------------------------------------------------------
(***************************************************************************)
(* The other commands on buffers.                                          *)
(***************************************************************************)

\* Command 0x62: refused unless the whole range is in the partition.
DeleteSectorData(p, pos, count) ==
    LET size  == GetBufferCount(p)
        first == FirstOf(pos, size)
        last  == LastOf(pos, count, size)
    IN  /\ Allowed("delete")
        /\ count # 0 /\ size # 0
        /\ InRange(first, last, size)
        /\ DeleteSectors(p, pos, count)
        /\ UNCHANGED <<selectorVars, xfer, scratch, getLength, putLength,
                       driveVars, saved>>

\* Command 0x60.
SetSectorLength(get, put) ==
    /\ Allowed("length")
    /\ getLength' = get
    /\ putLength' = put
    /\ UNCHANGED <<poolVars, selectorVars, xfer, scratch, driveVars, saved>>

\* Command 0x48 without flags: empty one partition.
ClearOnePartition(p) ==
    /\ Allowed("delete")
    /\ ClearPartition(p)
    /\ UNCHANGED <<selectorVars, xfer, scratch, getLength, putLength, driveVars, saved>>

\* Command 0x48 with flags: all partitions, and parts of the filters.
ResetSelector(buffers, conditions, inputs, passes, fails) ==
    /\ Allowed("delete")
    /\ IF buffers THEN ResetPool ELSE UNCHANGED poolVars
    /\ ResetFilterParts(conditions, inputs, passes, fails)
    /\ UNCHANGED <<xfer, scratch, getLength, putLength, driveVars, saved>>

\* Command 0x04 with the soft reset flag: it abandons the transfer as well. The
\* drive goes back to the start of the disc.
SoftReset ==
    /\ ResetPool
    /\ ResetFilters
    /\ xfer' = Ended
    /\ scratch' = NoScratch
    /\ nextFad' = 1
    /\ UNCHANGED <<getLength, putLength, bufferFullPause, saved>>

-----------------------------------------------------------------------------
(***************************************************************************)
(* The drive reads the next sector.  Every sector is read into the first   *)
(* scratch buffer, the one put transfers begin with.  Without an           *)
(* unreserved buffer playback pauses and the sector is read again later.   *)
(***************************************************************************)
DriveReads ==
    LET read == [scratch[0] EXCEPT !.data = nextFad, !.host = 0]
        done == [read EXCEPT !.fad = nextFad]
        Overwritten(s) == IF xfer.type = "Put" THEN [scratch EXCEPT ![0] = s] ELSE scratch
    IN  /\ nextFad <= MaxFad
        /\ ~(bufferFullPause /\ GetFreeBufferCount = 0)
        /\ \/ /\ GetFreeBufferCount = 0
              /\ bufferFullPause' = TRUE
              /\ scratch' = Overwritten(read)
              /\ UNCHANGED <<poolVars, lastDest, nextFad>>
           \/ /\ GetFreeBufferCount # 0
              /\ Route(nextFad, done)
              /\ scratch' = Overwritten(done)
              /\ bufferFullPause' = FALSE
              /\ nextFad' = nextFad + 1
        /\ UNCHANGED <<wires, accept, xfer, getLength, putLength, saved>>

-----------------------------------------------------------------------------
(***************************************************************************)
(* Save states.  m_xferDelStart is not stored.  The scratch buffers are    *)
(* stored in the places that the sectors and the reservation leave, so     *)
(* only the first free - reserved + 1 of them are.                         *)
(***************************************************************************)
SaveState ==
    /\ Allowed("savestate")
    /\ Len(saved) < MaxSaves
    /\ saved' = Append(saved,
                  [part |-> part, reserved |-> reserved, passOut |-> passOut,
                   failOut |-> failOut, cdConn |-> cdConn, accept |-> accept,
                   lastDest |-> lastDest, xfer |-> xfer,
                   scratch |-> scratch, slots |-> GetFreeBufferCount + 1,
                   getLength |-> getLength, putLength |-> putLength, nextFad |-> nextFad,
                   bufferFullPause |-> bufferFullPause])
    /\ UNCHANGED <<poolVars, selectorVars, xfer, scratch, getLength, putLength, driveVars>>

LoadState ==
    \E n \in 1..Len(saved) : LET s == saved[n] IN
        /\ ValidPool(s.part, s.reserved)
        /\ LoadPool(s.part, s.reserved)
        /\ passOut' = s.passOut
        /\ failOut' = s.failOut
        /\ cdConn' = s.cdConn
        /\ accept' = s.accept
        /\ lastDest' = s.lastDest
        /\ xfer' = [s.xfer EXCEPT !.delStart = xfer.delStart]
        /\ scratch' = [i \in Slots |-> IF i < s.slots THEN s.scratch[i] ELSE scratch[i]]
        /\ getLength' = s.getLength
        /\ putLength' = s.putLength
        /\ nextFad' = s.nextFad
        /\ bufferFullPause' = s.bufferFullPause
        /\ UNCHANGED saved

-----------------------------------------------------------------------------
Positions == 0..(NumBuffers - 1) \cup {Wild}

Counts == 0..MaxCount \cup {Wild}

Next ==
    \/ \E p \in Partitions, pos \in Positions, n \in Counts, del \in BOOLEAN :
          GetSectors(p, pos, n, del)
    \/ \E p \in Partitions, n \in 1..MaxCount : PutSectorData(p, n)
    \/ InfoTransfer
    \/ ReadPort
    \/ WritePort
    \/ EndDataTransfer
    \/ \E p \in Partitions, pos \in Positions, n \in Counts : DeleteSectorData(p, pos, n)
    \/ \E get, put \in Lengths : SetSectorLength(get, put)
    \/ \E p \in Partitions : ClearOnePartition(p)
    \/ \E b, c, i, s, f \in BOOLEAN : ResetSelector(b, c, i, s, f)
    \/ SoftReset
    \/ /\ Rewire
       /\ UNCHANGED <<poolVars, xfer, scratch, getLength, putLength, driveVars, saved>>
    \/ DriveReads
    \/ SaveState
    \/ LoadState

Spec == Init /\ [][Next]_vars

-----------------------------------------------------------------------------
(***************************************************************************)
(* Properties.                                                             *)
(***************************************************************************)
SavedState ==
    [part : [Partitions -> Seq(Buffer)], reserved : Nat,
     passOut : [Filters -> Outputs], failOut : [Filters -> Outputs],
     cdConn : Outputs, accept : [Filters -> SUBSET Fads], lastDest : Outputs, xfer : Transfer,
     scratch : [Slots -> Buffer], slots : Nat, getLength : Lengths,
     putLength : Lengths, nextFad : 1..(MaxFad + 1), bufferFullPause : BOOLEAN]

TypeOK ==
    /\ PoolTypeOK
    /\ SelectorTypeOK
    /\ xfer \in Transfer
    /\ scratch \in [Slots -> Buffer]
    /\ getLength \in Lengths
    /\ putLength \in Lengths
    /\ nextFad \in 1..(MaxFad + 1)
    /\ bufferFullPause \in BOOLEAN
    /\ saved \in Seq(SavedState)

\* A get-then-delete removes from the partition exactly the sectors it was set
\* up to send, which the command fixed as positions long before: the drive has
\* appended sectors since, and nobody else may have moved them.
DeletesWhatItSent ==
    [][EndDataTransfer /\ xfer.type = "GetThenDelete" =>
          LET before == part[xfer.part]
              after  == part'[xfer.part]
          IN  \E i \in 0..Len(after) :
                  before = SubSeq(after, 1, i) \o xfer.target
                           \o SubSeq(after, i + 1, Len(after))]_vars

\* The words of the transfer that are still to come, and those that are missing
\* from the sectors it was set up for (the long ones among them, which stretch
\* it, show only when their turn comes).
ToCome == xfer.len - xfer.pos

Missing ==
    IF xfer.sector > xfer.last THEN 0
    ELSE (xfer.getLen - xfer.buf) + (xfer.last - xfer.sector) * getLength

\* A read transfer never ends before the last word of its last sector: it is as
\* long as the sectors behind m_xferSectorPos, whatever long sectors ReadSector
\* has come upon so far and however many the drive appends meanwhile.
SectorsSentInFull == Getting => ToCome >= Missing

\* m_xferLength is the "total number of words to be transferred" (cdblock.hpp):
\* when the last word of the last sector is sent nothing is left to come, and
\* the host does not read on into a sector that it did not ask for.
WholeSectorsSent == Getting /\ xfer.sector > xfer.last => ToCome = 0

\* Buffers are withheld from the drive only for a put transfer in progress and
\* only as many as it will store: a reservation that outlives its transfer
\* starves the drive, one that is too small loses the host's sectors.
ReservationOwned ==
    reserved = IF xfer.type = "Put" THEN PutCount ELSE 0

\* A put transfer the host has written in full stores what the host wrote.
StoresWhatWasPut ==
    [][EndDataTransfer /\ xfer.type = "Put" /\ xfer.pos = xfer.len =>
          \A i \in 1..PutCount :
              PutBatch[i] = [fad |-> 0, data |-> 0, host |-> putLength]]_vars
=============================================================================
