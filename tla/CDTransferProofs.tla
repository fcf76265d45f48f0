-------------------------- MODULE CDTransferProofs --------------------------
(***************************************************************************)
(* Sector transfers for every number of filters, buffers and sectors.      *)
(*                                                                         *)
(* First, types, conservation of the buffers and reservations backed by    *)
(* free buffers.  The assumption is that the host does not delete sectors, *)
(* clear partitions or reset the selector while a transfer is pending      *)
(* ("delete" is not in HostMay); it may do everything else at any time:    *)
(* set transfers up over each other, change the sector lengths, save and   *)
(* load.  Without the assumption the theorems are false: see README.md.    *)
(*                                                                         *)
(* Then, for a host that does one thing after the other (Orderly): a put   *)
(* owns the reservation, a get sends its sectors in full, and, if no state *)
(* is saved during a transfer, a get-then-delete deletes what it has sent. *)
(***************************************************************************)
EXTENDS CDTransfer, CDBuffersProofs

\* A pending get-then-delete deletes something, from a partition that is not
\* empty: EndTransfer calls DeleteSectors without looking again.
DeleteReady(x, q) == x.type = "GetThenDelete" => x.delCount # 0 /\ Len(q[x.part]) # 0

\* The saved states are as sound as the states they were saved in.
UniqueInputs(out) ==
    \A f, g \in Filters : out[f] = out[g] /\ out[f] # Disconnected => f = g

SavedReady ==
    \A n \in 1..Len(saved) :
        DeleteReady(saved[n].xfer, saved[n].part) /\ UniqueInputs(saved[n].failOut)

\* The parts of TypeOK that belong neither to the pool nor to the selector.
PortTypeOK ==
    /\ xfer \in Transfer
    /\ scratch \in [Slots -> Buffer]
    /\ getLength \in Lengths
    /\ putLength \in Lengths
    /\ nextFad \in 1..(MaxFad + 1)
    /\ bufferFullPause \in BOOLEAN
    /\ saved \in Seq(SavedState)

IInv ==
    /\ PoolInv
    /\ SelectorInv
    /\ PortTypeOK
    /\ DeleteReady(xfer, part)
    /\ SavedReady

portVars == <<xfer, scratch, getLength, putLength, driveVars, saved>>

-----------------------------------------------------------------------------
(***************************************************************************)
(* Facts the steps share.                                                  *)
(***************************************************************************)
LEMMA Sizes ==
  /\ NumBuffers \in Nat /\ 1 <= NumBuffers /\ NumBuffers <= 254 /\ MaxFad \in Nat
  /\ Slots = 0..NumBuffers /\ 0 \in Slots
  /\ Lengths \subseteq Nat /\ 0 \notin Lengths /\ SectorLength \in Lengths
  /\ ExtLength \in Nat /\ InfoLength \in Nat /\ MaxCount \in Slots
BY PoolAssumption, TransferAssumption DEF Slots

LEMMA PoolKept == ASSUME PoolInv, UNCHANGED poolVars PROVE PoolInv'
BY DEF poolVars, PoolInv, PoolTypeOK, BuffersConserved, ReservationBacked, Held, Places

LEMMA SelectorKept == ASSUME SelectorInv, UNCHANGED selectorVars PROVE SelectorInv'
BY DEF selectorVars, SelectorInv, SelectorTypeOK, FailInputsUnique

LEMMA SavedKept == ASSUME SavedReady, UNCHANGED saved PROVE SavedReady'
BY DEF SavedReady

LEMMA PortKept == ASSUME PortTypeOK, UNCHANGED portVars PROVE PortTypeOK'
BY DEF portVars, driveVars, PortTypeOK

LEMMA BlankScratch == NoScratch \in [Slots -> Buffer]
BY Sizes DEF NoScratch, Blank, Buffer

\* An ended transfer, whatever transfer it was.
LEMMA EndedOK ==
  ASSUME xfer \in Transfer
  PROVE  /\ Ended \in Transfer
         /\ Ended.type = "None" /\ Ended.delCount = 0
         /\ Ended.target = <<>>
<1>1. 0 \in Partitions
  BY PoolAssumption DEF Partitions
<1>2. QED
  BY <1>1, Sizes, EmptySeq DEF Ended, NoTransfer, Transfer, Types

\* ReadSector stretches the transfer and touches nothing else.
LEMMA ReadSectorOK ==
  ASSUME NEW x \in Transfer, getLength \in Lengths
  PROVE  /\ ReadSector(x) \in Transfer
         /\ ReadSector(x).type = x.type /\ ReadSector(x).part = x.part
         /\ ReadSector(x).delCount = x.delCount
<1> DEFINE longer == x.sector < Len(part[x.part]) /\ Extended(part[x.part][x.sector + 1], x.type)
           length == IF longer /\ ExtLength > getLength THEN ExtLength ELSE getLength
<1>1. ReadSector(x) = [x EXCEPT !.getLen = length, !.len = x.len + BytesPerWord * (length - getLength)]
  BY DEF ReadSector
<1> HIDE DEF longer
<1>2. length \in Nat /\ length - getLength \in Nat
  BY Sizes
<1> HIDE DEF length
<1>3. x.len + BytesPerWord * (length - getLength) \in Nat
  BY <1>2 DEF Transfer, BytesPerWord
<1>4. QED
  BY <1>1, <1>2, <1>3 DEF Transfer

\* A word through the port, and the move to the next sector or buffer.
LEMMA WordOK ==
  ASSUME NEW x \in Transfer, NEW i \in Nat, NEW j \in Nat
  PROVE  LET y == [x EXCEPT !.pos = i, !.buf = j]
         IN  /\ y \in Transfer /\ y.type = x.type /\ y.part = x.part
             /\ y.delCount = x.delCount /\ y.sector = x.sector /\ y.put = x.put
BY DEF Transfer

LEMMA NextSectorOK ==
  ASSUME NEW x \in Transfer, NEW i \in Nat
  PROVE  LET y == [x EXCEPT !.sector = i, !.buf = 0]
             z == [x EXCEPT !.put = i, !.buf = 0]
         IN  /\ y \in Transfer /\ y.type = x.type /\ y.part = x.part
             /\ y.delCount = x.delCount /\ y.pos = x.pos /\ y.buf = 0 /\ y.sector = i
             /\ y.last = x.last /\ y.len = x.len /\ y.getLen = x.getLen
             /\ z \in Transfer /\ z.type = x.type /\ z.len = x.len
BY DEF Transfer

-----------------------------------------------------------------------------
LEMMA InitIInv == Init => IInv
<1> SUFFICES ASSUME Init PROVE IInv
  OBVIOUS
<1>1. PoolInv /\ SelectorInv
  BY InitPoolInv, InitSelectorInv DEF Init
<1>2. NoTransfer \in Transfer
  <2>1. 0 \in Partitions
    BY PoolAssumption DEF Partitions
  <2>2. QED
    BY <2>1, Sizes, EmptySeq DEF NoTransfer, Transfer, Types
<1>3. PortTypeOK
  <2>1. <<>> \in Seq(SavedState)
    BY EmptySeq
  <2>2. 1 \in 1..(MaxFad + 1)
    BY Sizes
  <2>3. QED
    BY <1>2, <2>1, <2>2, Sizes, BlankScratch DEF Init, PortTypeOK
<1>4. DeleteReady(xfer, part)
  BY DEF Init, NoTransfer, DeleteReady
<1>5. SavedReady
  <2>1. Len(saved) = 0
    BY EmptySeq DEF Init
  <2>2. QED
    BY <2>1 DEF SavedReady
<1>6. QED
  BY <1>1, <1>3, <1>4, <1>5 DEF IInv

\* The range of a request that is not refused lies inside the partition.
LEMMA RequestRange ==
  ASSUME NEW size \in 1..NumBuffers, NEW pos \in Positions, NEW count \in Counts, count # 0
  PROVE  /\ FirstOf(pos, size) \in Nat /\ LastOf(pos, count, size) \in Nat
         /\ InRange(FirstOf(pos, size), LastOf(pos, count, size), size)
              => /\ FirstOf(pos, size) \in Slots
                 /\ LastOf(pos, count, size) - FirstOf(pos, size) + 1 \in 1..NumBuffers
<1>1. pos \in Nat /\ count \in Nat /\ 1 <= count
  BY Sizes DEF Positions, Counts, Wild, Slots
<1>2. FirstOf(pos, size) \in Nat
  BY <1>1, Sizes DEF FirstOf
<1>3. LastOf(pos, count, size) \in Nat
  BY <1>1, <1>2, Sizes DEF LastOf
<1> DEFINE first == FirstOf(pos, size)
           last  == LastOf(pos, count, size)
<1> HIDE DEF first, last
<1>4. first \in Nat /\ last \in Nat
  BY <1>2, <1>3 DEF first, last
<1>5. InRange(first, last, size) => first \in Slots /\ last - first + 1 \in 1..NumBuffers
  BY <1>4, Sizes DEF InRange
<1>6. QED
  BY <1>2, <1>3, <1>5 DEF first, last

-----------------------------------------------------------------------------
(***************************************************************************)
(* The steps.                                                              *)
(***************************************************************************)

\* A step of the transfer that leaves the pool and the selector alone.
LEMMA PortStep ==
  ASSUME IInv, UNCHANGED <<poolVars, selectorVars, saved>>, PortTypeOK',
         DeleteReady(xfer', part)
  PROVE  IInv'
<1>1. PoolInv' /\ SelectorInv'
  BY PoolKept, SelectorKept DEF IInv
<1>2. SavedReady'
  BY SavedKept DEF IInv
<1>3. DeleteReady(xfer, part)'
  BY DEF poolVars, DeleteReady
<1>4. QED
  BY <1>1, <1>2, <1>3 DEF IInv

\* The transfer that GetSectors starts, before it looks at its first sector.
Started(p, first, last, del) ==
    [Ended EXCEPT !.type = IF del THEN "GetThenDelete" ELSE "Get",
                  !.part = p, !.sector = first, !.last = last,
                  !.len = getLength * (last - first + 1),
                  !.delStart = IF del THEN first ELSE Ended.delStart,
                  !.delCount = IF del THEN last - first + 1 ELSE 0,
                  !.target = SubSeq(part[p], first + 1, last + 1)]

LEMMA StartedOK ==
  ASSUME IInv, NEW p \in Partitions, NEW first \in Nat, NEW last \in Nat, NEW del \in BOOLEAN,
         InRange(first, last, Len(part[p])), first \in Slots, last - first + 1 \in 1..NumBuffers
  PROVE  LET x == Started(p, first, last, del) IN
         /\ x \in Transfer
         /\ x.type = (IF del THEN "GetThenDelete" ELSE "Get") /\ x.part = p
         /\ x.delCount # 0 <=> del
         /\ x.pos = 0 /\ x.buf = 0 /\ x.sector = first /\ x.last = last
         /\ x.len = getLength * (last - first + 1)
<1> DEFINE type == IF del THEN "GetThenDelete" ELSE "Get"
           n == last - first + 1
           deleted == IF del THEN n ELSE 0
           from == IF del THEN first ELSE Ended.delStart
           sent == SubSeq(part[p], first + 1, last + 1)
           words == getLength * n
           started == [Ended EXCEPT !.type = type, !.part = p, !.sector = first, !.last = last,
                                    !.len = words, !.delStart = from, !.delCount = deleted,
                                    !.target = sent]
<1>1. xfer \in Transfer /\ getLength \in Nat
  BY Sizes DEF IInv, PortTypeOK
<1>2. n \in Slots /\ n # 0 /\ words \in Nat
  BY <1>1, Sizes
<1>3. sent \in Seq(Buffer)
  <2>1. part[p] \in Seq(Buffer) /\ Len(part[p]) \in Nat
    BY PoolBounds, LenProperties DEF IInv
  <2>2. first + 1 \in Nat /\ last + 1 \in Nat /\ 1 <= first + 1 /\ last < Len(part[p])
    BY DEF InRange
  <2>3. \A i \in (first + 1)..(last + 1) : part[p][i] \in Buffer
    <3> SUFFICES ASSUME NEW i \in (first + 1)..(last + 1) PROVE part[p][i] \in Buffer
      OBVIOUS
    <3>1. i \in 1..Len(part[p])
      BY <2>1, <2>2
    <3>2. QED
      BY <2>1, <3>1, ElementOfSeq
  <2>4. QED
    BY <2>1, <2>2, <2>3, SubSeqProperties
<1>4. Ended \in Transfer /\ Ended.pos = 0 /\ Ended.buf = 0
  BY <1>1, EndedOK DEF Ended, NoTransfer
<1>5. type \in Types /\ deleted \in Slots /\ from \in Slots /\ (deleted # 0 <=> del)
  BY <1>2, <1>4, Sizes DEF Types, Transfer
<1>6. Started(p, first, last, del) = started
  BY DEF Started
<1> HIDE DEF type, deleted, from, sent, words, started
<1>7. /\ started \in Transfer /\ started.type = type /\ started.part = p
      /\ started.delCount = deleted /\ started.pos = 0 /\ started.buf = 0
      /\ started.sector = first /\ started.last = last /\ started.len = words
  BY <1>2, <1>3, <1>4, <1>5 DEF Transfer, started
<1>8. QED
  BY <1>5, <1>6, <1>7 DEF type, words

\* A request within the partition starts a transfer, another changes at most the
\* range of the one in progress.
LEMMA GetSectorsSplit ==
  ASSUME IInv, NEW p \in Partitions, NEW pos \in Positions, NEW count \in Counts,
         NEW del \in BOOLEAN, GetSectors(p, pos, count, del)
  PROVE  \E first, last \in Nat :
           \/ /\ InRange(first, last, Len(part[p])) /\ first \in Slots
              /\ last - first + 1 \in 1..NumBuffers
              /\ Len(part[p]) # 0
              /\ xfer' = ReadSector(Started(p, first, last, del)) /\ scratch' = NoScratch
           \/ /\ xfer' = IF Getting THEN [xfer EXCEPT !.sector = first, !.last = last] ELSE xfer
              /\ UNCHANGED scratch
<1> DEFINE size  == GetBufferCount(p)
           first == FirstOf(pos, size)
           last  == LastOf(pos, count, size)
<1>1. /\ count # 0 /\ size # 0
      /\ IF InRange(first, last, size)
         THEN xfer' = ReadSector(Started(p, first, last, del)) /\ scratch' = NoScratch
         ELSE /\ xfer' = IF Getting THEN [xfer EXCEPT !.sector = first, !.last = last] ELSE xfer
              /\ UNCHANGED scratch
  BY DEF GetSectors, Started
<1>2. size = Len(part[p]) /\ size \in 1..NumBuffers
  BY <1>1, PoolBounds, Sizes DEF GetBufferCount, IInv
<1>3. /\ first \in Nat /\ last \in Nat
      /\ InRange(first, last, size) => first \in Slots /\ last - first + 1 \in 1..NumBuffers
  BY <1>1, <1>2, RequestRange
<1> HIDE DEF size, first, last
<1>4. QED
  BY <1>1, <1>2, <1>3

LEMMA GetSectorsStep ==
  ASSUME IInv, NEW p \in Partitions, NEW pos \in Positions, NEW count \in Counts,
         NEW del \in BOOLEAN, GetSectors(p, pos, count, del)
  PROVE  IInv'
<1>1. UNCHANGED <<poolVars, selectorVars, getLength, putLength, driveVars, saved>>
  BY DEF GetSectors
<1>2. xfer \in Transfer /\ getLength \in Lengths /\ DeleteReady(xfer, part)
  BY DEF IInv, PortTypeOK
<1>3. PICK first, last \in Nat :
           \/ /\ InRange(first, last, Len(part[p])) /\ first \in Slots
              /\ last - first + 1 \in 1..NumBuffers
              /\ Len(part[p]) # 0
              /\ xfer' = ReadSector(Started(p, first, last, del)) /\ scratch' = NoScratch
           \/ /\ xfer' = IF Getting THEN [xfer EXCEPT !.sector = first, !.last = last] ELSE xfer
              /\ UNCHANGED scratch
  BY GetSectorsSplit
<1>4. CASE /\ InRange(first, last, Len(part[p])) /\ first \in Slots
           /\ last - first + 1 \in 1..NumBuffers
           /\ Len(part[p]) # 0
           /\ xfer' = ReadSector(Started(p, first, last, del)) /\ scratch' = NoScratch
  <2> DEFINE x == Started(p, first, last, del)
  <2>1. /\ x \in Transfer /\ x.part = p /\ (x.delCount # 0 <=> del)
        /\ x.type = (IF del THEN "GetThenDelete" ELSE "Get")
    BY <1>4, StartedOK
  <2> HIDE DEF x
  <2>2. xfer' \in Transfer /\ xfer'.type = x.type /\ xfer'.part = p /\ xfer'.delCount = x.delCount
    BY <1>2, <1>4, <2>1, ReadSectorOK DEF x
  <2>3. DeleteReady(xfer', part)
    BY <1>4, <2>1, <2>2 DEF DeleteReady
  <2>4. PortTypeOK'
    BY <1>1, <1>4, <2>2, BlankScratch DEF IInv, PortTypeOK, driveVars
  <2>5. QED
    BY <1>1, <2>3, <2>4, PortStep
<1>5. CASE /\ xfer' = IF Getting THEN [xfer EXCEPT !.sector = first, !.last = last] ELSE xfer
           /\ UNCHANGED scratch
  <2>1. xfer' \in Transfer /\ xfer'.type = xfer.type /\ xfer'.part = xfer.part
        /\ xfer'.delCount = xfer.delCount
    BY <1>2, <1>5 DEF Transfer
  <2>2. DeleteReady(xfer', part)
    BY <1>2, <2>1 DEF DeleteReady
  <2>3. PortTypeOK'
    BY <1>1, <1>5, <2>1 DEF IInv, PortTypeOK, driveVars
  <2>4. QED
    BY <1>1, <2>2, <2>3, PortStep
<1>6. QED
  BY <1>3, <1>4, <1>5

LEMMA PutSectorDataStep ==
  ASSUME IInv, NEW p \in Partitions, NEW count \in 1..MaxCount, PutSectorData(p, count)
  PROVE  IInv'
<1>1. count \in Nat /\ putLength \in Nat /\ xfer \in Transfer
  BY Sizes DEF IInv, PortTypeOK, Slots
<1>2. PoolInv'
  BY <1>1, ReserveInv DEF PutSectorData, IInv
<1>3. SelectorInv'
  BY DetachInputInv DEF PutSectorData, IInv, Filters
<1>4. xfer' \in Transfer /\ xfer'.type = "Put"
  <2>1. putLength * count \in Nat
    BY <1>1
  <2> DEFINE words == putLength * count
  <2> HIDE DEF words
  <2>2. xfer' = [Ended EXCEPT !.type = "Put", !.part = p, !.len = words]
    BY DEF PutSectorData, words
  <2>3. words \in Nat
    BY <2>1 DEF words
  <2>4. QED
    BY <1>1, <2>2, <2>3, EndedOK DEF Transfer, Types
<1>5. PortTypeOK'
  BY <1>4, BlankScratch DEF PutSectorData, IInv, PortTypeOK, driveVars
<1>6. DeleteReady(xfer, part)'
  BY <1>4 DEF DeleteReady
<1>7. SavedReady'
  BY SavedKept DEF PutSectorData, IInv
<1>8. QED
  BY <1>2, <1>3, <1>5, <1>6, <1>7 DEF IInv

LEMMA InfoTransferStep == ASSUME IInv, InfoTransfer PROVE IInv'
<1>1. xfer \in Transfer
  BY DEF IInv, PortTypeOK
<1>2. xfer' \in Transfer /\ xfer'.type = "Info"
  BY <1>1, EndedOK, Sizes DEF InfoTransfer, Transfer, Types
<1>3. PortTypeOK'
  BY <1>2, BlankScratch DEF InfoTransfer, IInv, PortTypeOK, driveVars
<1>4. DeleteReady(xfer', part)
  BY <1>2 DEF DeleteReady
<1>5. QED
  BY <1>3, <1>4, PortStep DEF InfoTransfer

LEMMA ReadPortStep == ASSUME IInv, ReadPort PROVE IInv'
<1> DEFINE x == [xfer EXCEPT !.pos = @ + 1, !.buf = @ + 1]
           next == [x EXCEPT !.sector = @ + 1, !.buf = 0]
<1>1. xfer \in Transfer /\ getLength \in Lengths /\ DeleteReady(xfer, part)
  BY DEF IInv, PortTypeOK
<1>2. x \in Transfer /\ x.type = xfer.type /\ x.part = xfer.part /\ x.delCount = xfer.delCount
  <2>1. xfer.pos + 1 \in Nat /\ xfer.buf + 1 \in Nat
    BY <1>1 DEF Transfer
  <2>2. QED
    BY <1>1, <2>1, WordOK
<1> HIDE DEF x
<1>3. next \in Transfer /\ next.type = xfer.type /\ next.part = xfer.part
      /\ next.delCount = xfer.delCount
  <2>1. x.sector + 1 \in Nat
    BY <1>2 DEF Transfer
  <2>2. QED
    BY <1>2, <2>1, NextSectorOK
<1>4. xfer' \in {x, next, ReadSector(next)}
  BY DEF ReadPort, x
<1> HIDE DEF next
<1>5. /\ xfer' \in Transfer /\ xfer'.type = xfer.type /\ xfer'.part = xfer.part
      /\ xfer'.delCount = xfer.delCount
  BY <1>1, <1>2, <1>3, <1>4, ReadSectorOK
<1>6. PortTypeOK'
  BY <1>5 DEF ReadPort, IInv, PortTypeOK, driveVars
<1>7. DeleteReady(xfer', part)
  BY <1>1, <1>5 DEF DeleteReady
<1>8. QED
  BY <1>6, <1>7, PortStep DEF ReadPort

LEMMA WritePortStep == ASSUME IInv, WritePort PROVE IInv'
<1> DEFINE x == [xfer EXCEPT !.pos = @ + 1, !.buf = @ + 1]
           next == [x EXCEPT !.put = @ + 1, !.buf = 0]
<1>1. xfer \in Transfer /\ scratch \in [Slots -> Buffer] /\ xfer.type = "Put"
  BY DEF IInv, PortTypeOK, WritePort
<1>2. x \in Transfer /\ x.type = "Put"
  <2>1. xfer.pos + 1 \in Nat /\ xfer.buf + 1 \in Nat
    BY <1>1 DEF Transfer
  <2>2. QED
    BY <1>1, <2>1, WordOK
<1>3. xfer' \in {x, next}
  BY DEF WritePort
<1> HIDE DEF x
<1>4. next \in Transfer /\ next.type = "Put"
  <2>1. x.put + 1 \in Nat
    BY <1>2 DEF Transfer
  <2>2. QED
    BY <1>2, <2>1, NextSectorOK
<1> HIDE DEF next
<1>5. xfer' \in Transfer /\ xfer'.type = "Put"
  BY <1>2, <1>3, <1>4
<1>6. scratch' \in [Slots -> Buffer]
  <2>1. CASE xfer.put \in Slots /\ xfer.buf < putLength
    <3>1. scratch' = [scratch EXCEPT ![xfer.put].host = @ + 1]
      BY <2>1 DEF WritePort
    <3>2. [scratch[xfer.put] EXCEPT !.host = @ + 1] \in Buffer
      BY <1>1, <2>1 DEF Buffer
    <3>3. QED
      BY <1>1, <2>1, <3>1, <3>2
  <2>2. CASE ~(xfer.put \in Slots /\ xfer.buf < putLength)
    BY <1>1, <2>2 DEF WritePort
  <2>3. QED
    BY <2>1, <2>2
<1>7. PortTypeOK'
  BY <1>5, <1>6 DEF WritePort, IInv, PortTypeOK, driveVars
<1>8. DeleteReady(xfer', part)
  BY <1>5 DEF DeleteReady
<1>9. QED
  BY <1>7, <1>8, PortStep DEF WritePort

\* The sectors a put transfer stores, when its reservation covers them.
LEMMA PutBatchOK ==
  ASSUME IInv, CanUseReserved(PutCount)
  PROVE  PutBatch \in Seq(Buffer) /\ Len(PutBatch) = PutCount
<1>1. /\ xfer \in Transfer /\ scratch \in [Slots -> Buffer]
      /\ putLength \in Nat /\ putLength # 0 /\ xfer.len \in Nat
  BY Sizes DEF IInv, PortTypeOK, Transfer
<1>2. PutCount \in Nat
  BY <1>1 DEF PutCount
<1>3. PutCount <= NumBuffers
  <2>1. free \in 0..NumBuffers /\ reserved \in 0..free
    BY PoolBounds DEF IInv
  <2>2. QED
    BY <1>2, <2>1, Sizes DEF CanUseReserved
<1> DEFINE n == PutCount
<1> HIDE DEF n
<1>4. n \in Nat /\ n <= NumBuffers /\ PutBatch = [i \in 1..n |-> scratch[i - 1]]
  BY <1>2, <1>3 DEF PutBatch, n
<1>5. \A i \in 1..n : scratch[i - 1] \in Buffer
  <2> SUFFICES ASSUME NEW i \in 1..n PROVE scratch[i - 1] \in Buffer
    OBVIOUS
  <2>1. i - 1 \in Slots
    BY <1>4, Sizes
  <2>2. QED
    BY <1>1, <2>1
<1>6. [i \in 1..n |-> scratch[i - 1]] \in Seq(Buffer) /\ Len([i \in 1..n |-> scratch[i - 1]]) = n
  BY <1>4, <1>5, IsASeq, LenProperties
<1>7. QED
  BY <1>4, <1>6 DEF n

LEMMA EndDataTransferStep == ASSUME IInv, EndDataTransfer PROVE IInv'
<1>1. /\ PoolInv /\ SelectorInv /\ xfer \in Transfer /\ DeleteReady(xfer, part)
      /\ xfer.part \in Partitions
  BY DEF IInv, PortTypeOK, Transfer
<1>2. PoolInv' /\ SelectorInv'
  <2>1. CASE xfer.type = "Put" /\ EndPut
    <3>1. SelectorInv'
      BY <1>1, <2>1, DetachInputInv DEF EndPut, Filters
    <3>2. CASE CanUseReserved(PutCount)
      <4>1. PutBatch \in Seq(Buffer) /\ Len(PutBatch) = PutCount
        BY <3>2, PutBatchOK
      <4>2. InsertReserved(xfer.part, PutBatch)
        BY <2>1, <3>2 DEF EndPut
      <4>3. CanUseReserved(Len(PutBatch))
        BY <3>2, <4>1
      <4>4. QED
        BY <1>1, <3>1, <4>1, <4>2, <4>3, InsertReservedInv
    <3>3. CASE ~CanUseReserved(PutCount)
      BY <1>1, <2>1, <3>1, <3>3, PoolKept DEF EndPut
    <3>4. QED
      BY <3>2, <3>3
  <2>2. CASE /\ xfer.type = "GetThenDelete"
             /\ DeleteSectors(xfer.part, xfer.delStart, xfer.delCount)
             /\ UNCHANGED selectorVars
    <3>1. xfer.delCount # 0 /\ Len(part[xfer.part]) # 0
      BY <1>1, <2>2 DEF DeleteReady
    <3>2. xfer.delStart \in 0..NumBuffers /\ xfer.delCount \in 0..NumBuffers
      BY <1>1 DEF Transfer, Slots
    <3>3. xfer.delCount \in 1..NumBuffers
      BY <3>1, <3>2
    <3>4. PoolInv'
      BY <1>1, <2>2, <3>1, <3>2, <3>3, DeleteSectorsInv
    <3>5. QED
      BY <1>1, <2>2, <3>4, SelectorKept
  <2>3. CASE xfer.type \in {"Get", "Info"} /\ UNCHANGED <<poolVars, selectorVars>>
    BY <1>1, <2>3, PoolKept, SelectorKept
  <2>4. QED
    BY <2>1, <2>2, <2>3 DEF EndDataTransfer
<1>3. xfer' = Ended /\ Ended \in Transfer /\ Ended.type = "None"
  BY <1>1, EndedOK DEF EndDataTransfer
<1>4. PortTypeOK'
  BY <1>3, BlankScratch DEF EndDataTransfer, IInv, PortTypeOK, driveVars
<1>5. DeleteReady(xfer, part)'
  BY <1>3 DEF DeleteReady
<1>6. SavedReady'
  BY SavedKept DEF EndDataTransfer, IInv
<1>7. QED
  BY <1>2, <1>4, <1>5, <1>6 DEF IInv

\* What the other commands on buffers do while no transfer is pending.
LEMMA IdleStep ==
  ASSUME IInv, xfer.type = "None", PoolInv', SelectorInv',
         UNCHANGED <<xfer, scratch, getLength, putLength, driveVars, saved>>
  PROVE  IInv'
<1>1. PortTypeOK'
  BY PortKept DEF IInv, portVars
<1>2. DeleteReady(xfer, part)'
  BY DEF DeleteReady
<1>3. SavedReady'
  BY SavedKept DEF IInv
<1>4. QED
  BY <1>1, <1>2, <1>3 DEF IInv

LEMMA DeleteSectorDataStep ==
  ASSUME IInv, "delete" \notin HostMay, NEW p \in Partitions, NEW pos \in Positions,
         NEW count \in Counts, DeleteSectorData(p, pos, count)
  PROVE  IInv'
<1>1. xfer.type = "None"
  BY DEF DeleteSectorData, Allowed
<1>2. Len(part[p]) # 0 /\ count # 0 /\ DeleteSectors(p, pos, count)
  BY DEF DeleteSectorData, GetBufferCount
<1>3. pos \in 0..NumBuffers \cup {Wild} /\ count \in 1..NumBuffers \cup {Wild}
  BY <1>2, Sizes DEF Positions, Counts, Slots
<1>4. PoolInv'
  BY <1>2, <1>3, DeleteSectorsInv DEF IInv
<1>5. SelectorInv'
  BY SelectorKept DEF DeleteSectorData, IInv
<1>6. QED
  BY <1>1, <1>4, <1>5, IdleStep DEF DeleteSectorData

LEMMA SetSectorLengthStep ==
  ASSUME IInv, NEW get \in Lengths, NEW put \in Lengths, SetSectorLength(get, put)
  PROVE  IInv'
<1>1. PortTypeOK'
  BY DEF SetSectorLength, IInv, PortTypeOK, driveVars
<1>2. DeleteReady(xfer', part)
  BY DEF SetSectorLength, IInv
<1>3. QED
  BY <1>1, <1>2, PortStep DEF SetSectorLength

LEMMA ClearOnePartitionStep ==
  ASSUME IInv, "delete" \notin HostMay, NEW p \in Partitions, ClearOnePartition(p)
  PROVE  IInv'
<1>1. xfer.type = "None"
  BY DEF ClearOnePartition, Allowed
<1>2. PoolInv' /\ SelectorInv'
  BY ClearPartitionInv, SelectorKept DEF ClearOnePartition, IInv
<1>3. QED
  BY <1>1, <1>2, IdleStep DEF ClearOnePartition

LEMMA ResetSelectorStep ==
  ASSUME IInv, "delete" \notin HostMay, NEW b \in BOOLEAN, NEW c \in BOOLEAN,
         NEW i \in BOOLEAN, NEW s \in BOOLEAN, NEW f \in BOOLEAN, ResetSelector(b, c, i, s, f)
  PROVE  IInv'
<1>1. xfer.type = "None"
  BY DEF ResetSelector, Allowed
<1>2. PoolInv'
  BY ResetPoolInv, PoolKept DEF ResetSelector, IInv
<1>3. SelectorInv'
  BY ResetFilterPartsInv DEF ResetSelector, IInv
<1>4. QED
  BY <1>1, <1>2, <1>3, IdleStep DEF ResetSelector

LEMMA SoftResetStep == ASSUME IInv, SoftReset PROVE IInv'
<1>1. PoolInv' /\ SelectorInv'
  BY ResetPoolInv, ResetFiltersInv DEF SoftReset
<1>2. xfer' \in Transfer /\ xfer'.type = "None"
  BY EndedOK DEF SoftReset, IInv, PortTypeOK
<1>3. 1 \in 1..(MaxFad + 1)
  BY Sizes
<1>4. PortTypeOK'
  BY <1>2, <1>3, BlankScratch DEF SoftReset, IInv, PortTypeOK
<1>5. DeleteReady(xfer, part)'
  BY <1>2 DEF DeleteReady
<1>6. SavedReady'
  BY SavedKept DEF SoftReset, IInv
<1>7. QED
  BY <1>1, <1>4, <1>5, <1>6 DEF IInv

LEMMA RewireStep ==
  ASSUME IInv, Rewire,
         UNCHANGED <<poolVars, xfer, scratch, getLength, putLength, driveVars, saved>>
  PROVE  IInv'
<1>1. PoolInv' /\ SelectorInv'
  BY PoolKept, RewireInv DEF IInv
<1>2. PortTypeOK'
  BY PortKept DEF IInv, portVars
<1>3. DeleteReady(xfer, part)'
  BY DEF DeleteReady, IInv, poolVars
<1>4. SavedReady'
  BY SavedKept DEF IInv
<1>5. QED
  BY <1>1, <1>2, <1>3, <1>4 DEF IInv

\* A sector the drive stores lengthens a queue.
LEMMA InsertLengthens ==
  ASSUME PoolInv, NEW p \in Partitions, NEW s \in Buffer, InsertHead(p, s),
         NEW o \in Partitions, Len(part[o]) # 0
  PROVE  Len(part'[o]) # 0
<1>1. part[p] \in Seq(Buffer) /\ Len(part[p]) \in Nat
  BY PoolBounds, LenProperties
<1>2. part' = [part EXCEPT ![p] = Append(part[p], s)] /\ part \in Queues
  BY PoolBounds DEF InsertHead
<1>3. Len(Append(part[p], s)) = Len(part[p]) + 1
  BY <1>1, AppendProperties
<1>4. CASE o = p
  <2>1. part'[o] = Append(part[p], s)
    BY <1>2, <1>4 DEF Queues
  <2>2. QED
    BY <1>1, <1>3, <2>1
<1>5. CASE o # p
  BY <1>2, <1>5 DEF Queues
<1>6. QED
  BY <1>4, <1>5

LEMMA DriveReadsStep == ASSUME IInv, DriveReads PROVE IInv'
<1> DEFINE read == [scratch[0] EXCEPT !.data = nextFad, !.host = 0]
           done == [read EXCEPT !.fad = nextFad]
           Overwritten(s) == IF xfer.type = "Put" THEN [scratch EXCEPT ![0] = s] ELSE scratch
<1>1. /\ PoolInv /\ SelectorInv /\ PortTypeOK /\ DeleteReady(xfer, part)
      /\ scratch \in [Slots -> Buffer] /\ xfer \in Transfer
  BY DEF IInv, PortTypeOK
<1>2. nextFad \in Fads /\ nextFad \in 0..MaxFad /\ nextFad + 1 \in 1..(MaxFad + 1)
  BY <1>1, Sizes DEF DriveReads, PortTypeOK, Fads
<1>3. scratch[0] \in Buffer
  BY <1>1, Sizes
<1>4. read \in Buffer
  BY <1>2, <1>3 DEF Buffer
<1>5. done \in Buffer
  BY <1>2, <1>3 DEF Buffer
<1>6. Overwritten(read) \in [Slots -> Buffer] /\ Overwritten(done) \in [Slots -> Buffer]
  BY <1>1, <1>4, <1>5
<1>7. UNCHANGED <<wires, accept, xfer, getLength, putLength, saved>>
  BY DEF DriveReads
<1>8. SavedReady'
  BY <1>7, SavedKept DEF IInv
<1>9. CASE /\ GetFreeBufferCount = 0
           /\ bufferFullPause' = TRUE
           /\ scratch' = Overwritten(read)
           /\ UNCHANGED <<poolVars, lastDest, nextFad>>
  <2>1. PoolInv' /\ SelectorInv'
    BY <1>1, <1>7, <1>9, PoolKept, SelectorKept DEF wires, selectorVars
  <2>2. PortTypeOK'
    BY <1>1, <1>6, <1>7, <1>9 DEF PortTypeOK
  <2>3. DeleteReady(xfer, part)'
    BY <1>1, <1>7, <1>9 DEF poolVars, DeleteReady
  <2>4. QED
    BY <1>8, <2>1, <2>2, <2>3 DEF IInv
<1>10. CASE /\ GetFreeBufferCount # 0
            /\ Route(nextFad, done)
            /\ scratch' = Overwritten(done)
            /\ bufferFullPause' = FALSE
            /\ nextFad' = nextFad + 1
  <2> HIDE DEF read, done
  <2>1. SelectorInv'
    BY <1>1, <1>2, <1>5, <1>7, <1>10, RouteInv
  <2>2. PoolInv' /\ DeleteReady(xfer, part)'
    <3>1. CASE Destination(nextFad) \in Partitions /\ InsertHead(Destination(nextFad), done)
      <4> DEFINE d == Destination(nextFad)
      <4> HIDE DEF d
      <4>1. d \in Partitions /\ InsertHead(d, done)
        BY <3>1 DEF d
      <4>2. PoolInv'
        BY <1>1, <1>5, <1>10, <4>1, InsertHeadInv
      <4>3. xfer.part \in Partitions
        BY <1>1 DEF Transfer
      <4>4. Len(part[xfer.part]) # 0 => Len(part'[xfer.part]) # 0
        BY <1>1, <1>5, <4>1, <4>3, InsertLengthens
      <4>5. QED
        BY <1>1, <1>7, <4>2, <4>4 DEF DeleteReady
    <3>2. CASE UNCHANGED <<poolVars, lastDest>>
      <4>1. PoolInv'
        BY <1>1, <3>2, PoolKept
      <4>2. QED
        BY <1>1, <1>7, <3>2, <4>1 DEF poolVars, DeleteReady
    <3>3. QED
      BY <1>10, <3>1, <3>2 DEF Route
  <2>3. PortTypeOK'
    BY <1>1, <1>2, <1>6, <1>7, <1>10 DEF PortTypeOK
  <2>4. QED
    BY <1>8, <2>1, <2>2, <2>3 DEF IInv
<1>11. QED
  BY <1>9, <1>10 DEF DriveReads

LEMMA SaveStateStep == ASSUME IInv, SaveState PROVE IInv'
<1> DEFINE record ==
      [part |-> part, reserved |-> reserved, passOut |-> passOut,
       failOut |-> failOut, cdConn |-> cdConn, accept |-> accept,
       lastDest |-> lastDest, xfer |-> xfer,
       scratch |-> scratch, slots |-> GetFreeBufferCount + 1,
       getLength |-> getLength, putLength |-> putLength, nextFad |-> nextFad,
       bufferFullPause |-> bufferFullPause]
<1>1. /\ saved' = Append(saved, record)
      /\ UNCHANGED <<poolVars, selectorVars, xfer, scratch, getLength, putLength, driveVars>>
  BY DEF SaveState
<1>2. PoolInv /\ SelectorInv /\ PortTypeOK /\ DeleteReady(xfer, part) /\ SavedReady
  BY DEF IInv
<1>3. record \in SavedState
  <2>1. GetFreeBufferCount + 1 \in Nat
    <3>1. free \in Nat /\ reserved \in 0..free
      BY <1>2, PoolBounds
    <3>2. QED
      BY <3>1 DEF GetFreeBufferCount
  <2> DEFINE slots == GetFreeBufferCount + 1
  <2> HIDE DEF slots
  <2>2. slots \in Nat
    BY <2>1 DEF slots
  <2>3. part \in [Partitions -> Seq(Buffer)] /\ reserved \in Nat
    BY <1>2 DEF PoolInv, PoolTypeOK
  <2>4. /\ passOut \in [Filters -> Outputs] /\ failOut \in [Filters -> Outputs]
        /\ accept \in [Filters -> SUBSET Fads] /\ cdConn \in Outputs /\ lastDest \in Outputs
    BY <1>2 DEF SelectorInv, SelectorTypeOK
  <2>5. record = [part |-> part, reserved |-> reserved, passOut |-> passOut,
                  failOut |-> failOut, cdConn |-> cdConn, accept |-> accept,
                  lastDest |-> lastDest, xfer |-> xfer, scratch |-> scratch, slots |-> slots,
                  getLength |-> getLength, putLength |-> putLength, nextFad |-> nextFad,
                  bufferFullPause |-> bufferFullPause]
    BY DEF slots
  <2> HIDE DEF record
  <2>6. QED
    BY <1>2, <2>2, <2>3, <2>4, <2>5 DEF PortTypeOK, SavedState
<1>4. DeleteReady(record.xfer, record.part) /\ UniqueInputs(record.failOut)
  BY <1>2 DEF SelectorInv, FailInputsUnique, UniqueInputs
<1> HIDE DEF record
<1>5. saved \in Seq(SavedState) /\ Len(saved) \in Nat
  BY <1>2, LenProperties DEF PortTypeOK
<1>6. /\ Append(saved, record) \in Seq(SavedState)
      /\ Len(Append(saved, record)) = Len(saved) + 1
      /\ \A n \in 1..Len(saved) : Append(saved, record)[n] = saved[n]
      /\ Append(saved, record)[Len(saved) + 1] = record
  BY <1>3, <1>5, AppendProperties
<1>7. SavedReady'
  <2> SUFFICES ASSUME NEW n \in 1..(Len(saved) + 1)
               PROVE  DeleteReady(saved'[n].xfer, saved'[n].part) /\ UniqueInputs(saved'[n].failOut)
    BY <1>1, <1>6 DEF SavedReady
  <2>1. CASE n = Len(saved) + 1
    BY <1>1, <1>4, <1>6, <2>1
  <2>2. CASE n # Len(saved) + 1
    <3>1. n \in 1..Len(saved)
      BY <1>5, <2>2
    <3>2. QED
      BY <1>1, <1>2, <1>6, <3>1 DEF SavedReady
  <2>3. QED
    BY <2>1, <2>2
<1>8. PoolInv' /\ SelectorInv'
  BY <1>1, <1>2, PoolKept, SelectorKept
<1>9. PortTypeOK'
  BY <1>1, <1>2, <1>6 DEF PortTypeOK, driveVars
<1>10. DeleteReady(xfer, part)'
  BY <1>1, <1>2 DEF DeleteReady, poolVars
<1>11. QED
  BY <1>7, <1>8, <1>9, <1>10 DEF IInv

LEMMA LoadStateStep == ASSUME IInv, LoadState PROVE IInv'
<1>1. PICK n \in 1..Len(saved) :
        LET s == saved[n] IN
        /\ ValidPool(s.part, s.reserved)
        /\ LoadPool(s.part, s.reserved)
        /\ passOut' = s.passOut
        /\ failOut' = s.failOut
        /\ cdConn' = s.cdConn
        /\ accept' = s.accept
        /\ lastDest' = s.lastDest
        /\ xfer' = [s.xfer EXCEPT !.delStart = xfer.delStart]
        /\ scratch' = [i \in Slots |-> IF i < s.slots THEN s.scratch[i] ELSE scratch[i]]
        /\ getLength' = s.getLength
        /\ putLength' = s.putLength
        /\ nextFad' = s.nextFad
        /\ bufferFullPause' = s.bufferFullPause
        /\ UNCHANGED saved
  BY DEF LoadState
<1> DEFINE s == saved[n]
<1>2. s \in SavedState /\ DeleteReady(s.xfer, s.part) /\ UniqueInputs(s.failOut)
  BY ElementOfSeq DEF IInv, PortTypeOK, SavedReady
<1> HIDE DEF s
<1>3. PoolInv'
  <2>1. s.part \in Queues /\ s.reserved \in Nat
    BY <1>2 DEF SavedState, Queues
  <2>2. QED
    BY <1>1, <2>1, LoadPoolInv DEF s
<1>4. SelectorInv'
  <2>1. /\ passOut' = s.passOut /\ failOut' = s.failOut /\ cdConn' = s.cdConn
        /\ accept' = s.accept /\ lastDest' = s.lastDest
    BY <1>1 DEF s
  <2>2. SelectorTypeOK'
    BY <1>2, <2>1 DEF SavedState, SelectorTypeOK
  <2>3. FailInputsUnique'
    BY <1>2, <2>1 DEF UniqueInputs, FailInputsUnique
  <2>4. QED
    BY <2>2, <2>3 DEF SelectorInv
<1>5. xfer \in Transfer /\ scratch \in [Slots -> Buffer]
  BY DEF IInv, PortTypeOK
<1>6. /\ xfer' \in Transfer /\ xfer'.type = s.xfer.type /\ xfer'.part = s.xfer.part
      /\ xfer'.delCount = s.xfer.delCount
  <2>1. xfer' = [s.xfer EXCEPT !.delStart = xfer.delStart]
    BY <1>1 DEF s
  <2>2. s.xfer \in Transfer /\ xfer.delStart \in Slots
    BY <1>2, <1>5 DEF SavedState, Transfer
  <2>3. QED
    BY <2>1, <2>2 DEF Transfer
<1>7. PortTypeOK'
  <2>1. scratch' = [i \in Slots |-> IF i < s.slots THEN s.scratch[i] ELSE scratch[i]]
    BY <1>1 DEF s
  <2>2. s.scratch \in [Slots -> Buffer]
    BY <1>2 DEF SavedState
  <2>3. scratch' \in [Slots -> Buffer]
    BY <1>5, <2>1, <2>2
  <2>4. /\ getLength' = s.getLength /\ putLength' = s.putLength /\ nextFad' = s.nextFad
        /\ bufferFullPause' = s.bufferFullPause /\ saved' = saved
    BY <1>1 DEF s
  <2>5. /\ getLength' \in Lengths /\ putLength' \in Lengths
        /\ nextFad' \in 1..(MaxFad + 1) /\ bufferFullPause' \in BOOLEAN
    BY <1>2, <2>4 DEF SavedState
  <2>6. saved' \in Seq(SavedState)
    BY <2>4 DEF IInv, PortTypeOK
  <2>7. QED
    BY <1>6, <2>3, <2>5, <2>6 DEF PortTypeOK
<1>8. DeleteReady(xfer, part)'
  <2>1. part' = s.part
    BY <1>1 DEF LoadPool, s
  <2>2. QED
    BY <1>2, <1>6, <2>1 DEF DeleteReady
<1>9. SavedReady'
  BY <1>1, SavedKept DEF IInv
<1>10. QED
  BY <1>3, <1>4, <1>7, <1>8, <1>9 DEF IInv

LEMMA NextStep == ASSUME IInv, "delete" \notin HostMay, Next PROVE IInv'
<1>1. CASE \E p \in Partitions, pos \in Positions, n \in Counts, del \in BOOLEAN :
              GetSectors(p, pos, n, del)
  BY <1>1, GetSectorsStep
<1>2. CASE \E p \in Partitions, n \in 1..MaxCount : PutSectorData(p, n)
  BY <1>2, PutSectorDataStep
<1>3. CASE InfoTransfer
  BY <1>3, InfoTransferStep
<1>4. CASE ReadPort
  BY <1>4, ReadPortStep
<1>5. CASE WritePort
  BY <1>5, WritePortStep
<1>6. CASE EndDataTransfer
  BY <1>6, EndDataTransferStep
<1>7. CASE \E p \in Partitions, pos \in Positions, n \in Counts : DeleteSectorData(p, pos, n)
  BY <1>7, DeleteSectorDataStep
<1>8. CASE \E get, put \in Lengths : SetSectorLength(get, put)
  BY <1>8, SetSectorLengthStep
<1>9. CASE \E p \in Partitions : ClearOnePartition(p)
  BY <1>9, ClearOnePartitionStep
<1>10. CASE \E b, c, i, s, f \in BOOLEAN : ResetSelector(b, c, i, s, f)
  BY <1>10, ResetSelectorStep
<1>11. CASE SoftReset
  BY <1>11, SoftResetStep
<1>12. CASE /\ Rewire
            /\ UNCHANGED <<poolVars, xfer, scratch, getLength, putLength, driveVars, saved>>
  BY <1>12, RewireStep
<1>13. CASE DriveReads
  BY <1>13, DriveReadsStep
<1>14. CASE SaveState
  BY <1>14, SaveStateStep
<1>15. CASE LoadState
  BY <1>15, LoadStateStep
<1>16. QED
  BY <1>1, <1>2, <1>3, <1>4, <1>5, <1>6, <1>7, <1>8, <1>9, <1>10, <1>11, <1>12, <1>13,
     <1>14, <1>15 DEF Next

-----------------------------------------------------------------------------
(***************************************************************************)
(* The theorems.                                                           *)
(***************************************************************************)

\* The inductive invariant holds of every behaviour.
LEMMA TransferInvariant == ASSUME "delete" \notin HostMay PROVE Spec => []IInv
<1>1. Init => IInv
  BY InitIInv
<1>2. IInv /\ [Next]_vars => IInv'
  <2> SUFFICES ASSUME IInv, [Next]_vars PROVE IInv'
    OBVIOUS
  <2>1. CASE Next
    BY <2>1, NextStep
  <2>2. CASE UNCHANGED vars
    <3>1. UNCHANGED <<poolVars, selectorVars, saved>>
      BY <2>2 DEF vars
    <3>2. PortTypeOK'
      BY <2>2, PortKept DEF vars, portVars, driveVars, IInv
    <3>3. DeleteReady(xfer', part)
      BY <2>2 DEF vars, IInv
    <3>4. QED
      BY <3>1, <3>2, <3>3, PortStep
  <2>3. QED
    BY <2>1, <2>2
<1>3. QED
  BY <1>1, <1>2, PTL DEF Spec

\* Every member of the CD block's transfer state keeps its type and range, saved
\* states included; the sectors to delete stay within the pool's size.
THEOREM TransferTypes == ASSUME "delete" \notin HostMay PROVE Spec => []TypeOK
<1>1. IInv => TypeOK
  BY DEF IInv, PoolInv, SelectorInv, PortTypeOK, TypeOK
<1>2. QED
  BY <1>1, TransferInvariant, PTL

\* The free counter of the partition manager is exact, whatever the order of
\* stored sectors, transfers set up over each other, and saved and loaded states.
THEOREM TransferConservesBuffers ==
  ASSUME "delete" \notin HostMay PROVE Spec => []BuffersConserved
<1>1. IInv => BuffersConserved
  BY DEF IInv, PoolInv
<1>2. QED
  BY <1>1, TransferInvariant, PTL

\* The reserved buffers are free buffers: GetFreeBufferCount never wraps around.
THEOREM TransferBacksReservations ==
  ASSUME "delete" \notin HostMay PROVE Spec => []ReservationBacked
<1>1. IInv => ReservationBacked
  BY DEF IInv, PoolInv
<1>2. QED
  BY <1>1, TransferInvariant, PTL

-----------------------------------------------------------------------------
(***************************************************************************)
(* A host that ends a transfer before it sets up another one or changes    *)
(* the lengths, whatever is saved and loaded: what a transfer reserves and *)
(* what it has left to send.                                               *)
(***************************************************************************)
Orderly == {"restart", "delete", "length"} \cap HostMay = {}

\* What is reserved is what a put has announced.
Owned(x, held, length) == held = IF x.type = "Put" THEN x.len \div length ELSE 0

\* The place within the sector is before its end, and the words to come cover
\* the rest of it and the sectors behind it.
Covers(x, length) ==
    x.type \in {"Get", "GetThenDelete"} =>
        /\ x.pos <= x.len
        /\ x.sector <= x.last =>
              /\ x.buf < x.getLen
              /\ (x.getLen - x.buf) + (x.last - x.sector) * length <= x.len - x.pos

SavedWhole ==
    \A n \in 1..Len(saved) :
        /\ Owned(saved[n].xfer, saved[n].reserved, saved[n].putLength)
        /\ Covers(saved[n].xfer, saved[n].getLength)

WholeInv == Owned(xfer, reserved, putLength) /\ Covers(xfer, getLength) /\ SavedWhole

LEMMA Product ==
  ASSUME NEW length \in Nat \ {0}, NEW n \in Nat
  PROVE  (length * n) \div length = n
<1>1. length * n \in Nat
  OBVIOUS
<1>2. QED
  BY <1>1

\* A transfer that is over, or moves other data.
LEMMA OtherWhole ==
  ASSUME SavedWhole, UNCHANGED saved, reserved' = 0, xfer'.type \in {"None", "Info"}
  PROVE  WholeInv'
<1>1. SavedWhole'
  BY DEF SavedWhole
<1>2. Owned(xfer, reserved, putLength)' /\ Covers(xfer, getLength)'
  BY DEF Owned, Covers
<1>3. QED
  BY <1>1, <1>2 DEF WholeInv

LEMMA KeptWhole ==
  ASSUME WholeInv, UNCHANGED <<xfer, reserved, getLength, putLength, saved>>
  PROVE  WholeInv'
BY DEF WholeInv, Owned, Covers, SavedWhole

\* A long sector stretches the transfer by more than itself.
LEMMA StretchCovers ==
  ASSUME NEW x \in Transfer, getLength \in Lengths, x.buf = 0, x.sector <= x.last,
         x.pos <= x.len, (x.last - x.sector + 1) * getLength <= x.len - x.pos
  PROVE  Covers(ReadSector(x), getLength)
<1> DEFINE longer == x.sector < Len(part[x.part]) /\ Extended(part[x.part][x.sector + 1], x.type)
           length == IF longer /\ ExtLength > getLength THEN ExtLength ELSE getLength
           y == ReadSector(x)
<1>1. y = [x EXCEPT !.getLen = length, !.len = x.len + BytesPerWord * (length - getLength)]
  BY DEF ReadSector
<1> HIDE DEF longer
<1>2. length \in Nat \ {0} /\ getLength \in Nat \ {0} /\ getLength <= length
  BY Sizes
<1>3. /\ x.len \in Nat /\ x.pos \in Nat /\ x.sector \in Nat /\ x.last \in Nat
  BY DEF Transfer
<1> HIDE DEF length, y
<1>4. /\ y.getLen = length /\ y.len = x.len + 2 * (length - getLength)
      /\ y.pos = x.pos /\ y.sector = x.sector /\ y.last = x.last /\ y.buf = 0
  BY <1>1 DEF Transfer, BytesPerWord
<1> DEFINE rest == (x.last - x.sector) * getLength
<1>5. (x.last - x.sector + 1) * getLength = rest + getLength /\ rest \in Int
  BY <1>2, <1>3
<1> HIDE DEF rest
<1>6. y.pos <= y.len /\ y.buf < y.getLen /\ (y.getLen - y.buf) + rest <= y.len - y.pos
  BY <1>2, <1>3, <1>4, <1>5
<1>7. QED
  BY <1>4, <1>6 DEF Covers, rest, y

\* Beyond the last sector, a transfer only has to stay within its length.
LEMMA BeyondCovers ==
  ASSUME NEW x \in Transfer, getLength \in Lengths, ~(x.sector <= x.last), x.pos <= x.len
  PROVE  Covers(ReadSector(x), getLength)
<1> DEFINE longer == x.sector < Len(part[x.part]) /\ Extended(part[x.part][x.sector + 1], x.type)
           length == IF longer /\ ExtLength > getLength THEN ExtLength ELSE getLength
           y == ReadSector(x)
<1>1. y = [x EXCEPT !.getLen = length, !.len = x.len + BytesPerWord * (length - getLength)]
  BY DEF ReadSector
<1> HIDE DEF longer
<1>2. length \in Nat /\ getLength \in Nat /\ getLength <= length
  BY Sizes
<1> HIDE DEF length, y
<1>3. /\ y.len = x.len + 2 * (length - getLength)
      /\ y.pos = x.pos /\ y.sector = x.sector /\ y.last = x.last
  BY <1>1 DEF Transfer, BytesPerWord
<1>4. x.len \in Nat /\ x.pos \in Nat
  BY DEF Transfer
<1>5. y.pos <= y.len /\ ~(y.sector <= y.last)
  BY <1>2, <1>3, <1>4
<1>6. QED
  BY <1>5 DEF Covers, y

LEMMA GetWhole ==
  ASSUME IInv, WholeInv, Orderly, NEW p \in Partitions, NEW pos \in Positions,
         NEW count \in Counts, NEW del \in BOOLEAN, GetSectors(p, pos, count, del)
  PROVE  WholeInv'
<1>1. xfer.type = "None" /\ ~Getting
  BY DEF GetSectors, Allowed, Orderly, Getting
<1>2. UNCHANGED <<reserved, getLength, putLength, saved>>
  BY DEF GetSectors, poolVars
<1>3. reserved' = 0 /\ SavedWhole
  BY <1>1, <1>2 DEF WholeInv, Owned
<1>4. PICK first, last \in Nat :
           \/ /\ InRange(first, last, Len(part[p])) /\ first \in Slots
              /\ last - first + 1 \in 1..NumBuffers
              /\ Len(part[p]) # 0
              /\ xfer' = ReadSector(Started(p, first, last, del)) /\ scratch' = NoScratch
           \/ /\ xfer' = IF Getting THEN [xfer EXCEPT !.sector = first, !.last = last] ELSE xfer
              /\ UNCHANGED scratch
  BY GetSectorsSplit
<1>5. CASE xfer' = xfer
  BY <1>1, <1>2, <1>3, <1>5, OtherWhole
<1>6. CASE /\ InRange(first, last, Len(part[p])) /\ first \in Slots
           /\ last - first + 1 \in 1..NumBuffers
           /\ xfer' = ReadSector(Started(p, first, last, del))
  <2> DEFINE x == Started(p, first, last, del)
             n == last - first + 1
  <2>1. /\ x \in Transfer /\ x.pos = 0 /\ x.buf = 0 /\ x.sector = first /\ x.last = last
        /\ x.len = getLength * n /\ x.type # "Put"
    BY <1>6, StartedOK
  <2>2. getLength \in Lengths /\ getLength \in Nat
    BY Sizes DEF IInv, PortTypeOK
  <2>3. n \in Nat /\ first <= last /\ n * getLength = getLength * n /\ getLength * n \in Nat
    BY <1>6, <2>2, Sizes DEF InRange
  <2> HIDE DEF x, n
  <2>4. x.sector <= x.last /\ x.pos <= x.len
    BY <2>1, <2>3
  <2>5. (x.last - x.sector + 1) * getLength <= x.len - x.pos
    BY <2>1, <2>3 DEF n
  <2>6. Covers(ReadSector(x), getLength)
    BY <2>1, <2>2, <2>4, <2>5, StretchCovers
  <2>7. xfer' = ReadSector(x) /\ xfer'.type # "Put"
    BY <1>6, <2>1, <2>2, ReadSectorOK DEF x
  <2>8. SavedWhole'
    BY <1>2, <1>3 DEF SavedWhole
  <2>9. QED
    BY <1>2, <1>3, <2>6, <2>7, <2>8 DEF WholeInv, Owned
<1>7. QED
  BY <1>1, <1>4, <1>5, <1>6

LEMMA PutWhole ==
  ASSUME IInv, WholeInv, NEW p \in Partitions, NEW count \in 1..MaxCount, PutSectorData(p, count)
  PROVE  WholeInv'
<1>1. count \in Nat /\ putLength \in Nat \ {0} /\ xfer \in Transfer
  BY Sizes DEF IInv, PortTypeOK, Slots
<1> DEFINE words == putLength * count
<1>2. words \in Nat /\ words \div putLength = count
  BY <1>1, Product
<1>3. /\ xfer' = [Ended EXCEPT !.type = "Put", !.part = p, !.len = words]
      /\ reserved' = count /\ UNCHANGED <<putLength, saved>>
  BY DEF PutSectorData, ReserveBuffers
<1> HIDE DEF words
<1>4. xfer'.type = "Put" /\ xfer'.len = words
  BY <1>1, <1>2, <1>3, EndedOK DEF Transfer
<1>5. Owned(xfer, reserved, putLength)' /\ Covers(xfer, getLength)'
  BY <1>2, <1>3, <1>4 DEF Owned, Covers
<1>6. SavedWhole'
  BY <1>3 DEF WholeInv, SavedWhole
<1>7. QED
  BY <1>5, <1>6 DEF WholeInv

\* Word by word, what is left of the sector shrinks with what is left to come.
LEMMA ReadWhole == ASSUME IInv, WholeInv, ReadPort PROVE WholeInv'
<1> DEFINE x == [xfer EXCEPT !.pos = @ + 1, !.buf = @ + 1]
           next == [x EXCEPT !.sector = @ + 1, !.buf = 0]
           length == getLength
<1>1. /\ xfer \in Transfer /\ getLength \in Lengths /\ length \in Nat \ {0}
      /\ Covers(xfer, length) /\ SavedWhole /\ Owned(xfer, reserved, putLength)
  BY Sizes DEF IInv, PortTypeOK, WholeInv
<1>2. /\ xfer.pos \in Nat /\ xfer.buf \in Nat /\ xfer.sector \in Nat /\ xfer.last \in Nat
      /\ xfer.len \in Nat /\ xfer.getLen \in Nat
  BY <1>1 DEF Transfer
<1>3. /\ UNCHANGED <<reserved, getLength, putLength, saved>>
      /\ xfer.type \in {"Info", "Get", "GetThenDelete"} /\ xfer.pos < xfer.len
      /\ xfer' = IF xfer.type = "Info" \/ x.buf < xfer.getLen THEN x
                 ELSE IF x.pos < xfer.len THEN ReadSector(next)
                 ELSE next
  BY DEF ReadPort, poolVars
<1>4. /\ x \in Transfer /\ x.type = xfer.type /\ x.pos = xfer.pos + 1 /\ x.buf = xfer.buf + 1
      /\ x.sector = xfer.sector /\ x.last = xfer.last /\ x.len = xfer.len /\ x.getLen = xfer.getLen
  <2>1. xfer.pos + 1 \in Nat /\ xfer.buf + 1 \in Nat
    BY <1>2
  <2>2. x \in Transfer /\ x.type = xfer.type /\ x.sector = xfer.sector
    BY <1>1, <2>1, WordOK
  <2>3. x = [xfer EXCEPT !.pos = xfer.pos + 1, !.buf = xfer.buf + 1]
    OBVIOUS
  <2> HIDE DEF x
  <2>4. /\ x.pos = xfer.pos + 1 /\ x.buf = xfer.buf + 1 /\ x.last = xfer.last
        /\ x.len = xfer.len /\ x.getLen = xfer.getLen
    <3>1. xfer \in Transfer
      BY <1>1
    <3>2. QED
      BY <2>1, <2>3, <3>1 DEF Transfer
  <2>5. QED
    BY <2>2, <2>4
<1> HIDE DEF x
<1>5. /\ next \in Transfer /\ next.type = xfer.type /\ next.pos = xfer.pos + 1 /\ next.buf = 0
      /\ next.sector = xfer.sector + 1 /\ next.last = xfer.last /\ next.len = xfer.len
      /\ next.getLen = xfer.getLen
  <2>1. x.sector + 1 \in Nat
    BY <1>2, <1>4
  <2>2. QED
    BY <1>4, <2>1, NextSectorOK
<1> HIDE DEF next
<1>6. xfer'.type = xfer.type
  BY <1>1, <1>3, <1>4, <1>5, ReadSectorOK
<1>7. Covers(xfer', length)
  <2>1. CASE xfer.type = "Info"
    BY <1>6, <2>1 DEF Covers
  <2>2. CASE xfer.type # "Info"
    <3> DEFINE rest == (xfer.last - xfer.sector) * length
    <3>1. /\ xfer.pos <= xfer.len
          /\ xfer.sector <= xfer.last =>
                /\ xfer.buf < xfer.getLen
                /\ (xfer.getLen - xfer.buf) + rest <= xfer.len - xfer.pos
      BY <1>1, <1>3, <2>2 DEF Covers
    <3>2. /\ rest \in Int
          /\ (xfer.last - (xfer.sector + 1)) * length = rest - length
          /\ (xfer.last - (xfer.sector + 1) + 1) * length = rest
          /\ xfer.sector < xfer.last => length <= rest
          /\ xfer.sector <= xfer.last => 0 <= rest
      <4>1. rest \in Int
        BY <1>1, <1>2
      <4>2. (xfer.last - (xfer.sector + 1)) * length = rest - length
        BY <1>1, <1>2
      <4>3. (xfer.last - (xfer.sector + 1) + 1) * length = rest
        BY <1>2
      <4>4. xfer.sector < xfer.last => length <= rest
        <5> SUFFICES ASSUME xfer.sector < xfer.last PROVE length <= rest
          OBVIOUS
        <5>1. PICK d \in Nat : xfer.last - xfer.sector = d + 1
          <6>1. xfer.last - xfer.sector - 1 \in Nat
            BY <1>2
          <6>2. QED
            BY <1>2, <6>1
        <5>2. (d + 1) * length = d * length + length /\ d * length \in Nat
          BY <1>1
        <5>3. QED
          BY <1>1, <5>1, <5>2
      <4>5. xfer.sector = xfer.last => rest = 0
        BY <1>1, <1>2
      <4>6. QED
        BY <1>1, <1>2, <4>1, <4>2, <4>3, <4>4, <4>5
    <3> HIDE DEF rest, length
    <3>3. CASE xfer' = x /\ x.buf < xfer.getLen
      <4>1. x.pos <= x.len
        BY <1>2, <1>3, <1>4
      <4>2. x.sector <= x.last => x.buf < x.getLen /\ (x.getLen - x.buf) + rest <= x.len - x.pos
        BY <1>2, <1>3, <1>4, <3>1, <3>2, <3>3
      <4>3. QED
        BY <1>4, <3>3, <4>1, <4>2 DEF Covers, rest
    <3>4. CASE xfer' = ReadSector(next) /\ x.pos < xfer.len /\ ~(x.buf < xfer.getLen)
      <4>1. CASE next.sector <= next.last
        <5>1. rest <= next.len - next.pos /\ next.pos <= next.len
          BY <1>2, <1>3, <1>4, <1>5, <3>1, <3>2, <3>4, <4>1
        <5>2. (next.last - next.sector + 1) * length <= next.len - next.pos
          BY <1>5, <3>2, <5>1
        <5>3. QED
          BY <1>1, <1>5, <3>4, <4>1, <5>1, <5>2, StretchCovers DEF length
      <4>2. CASE ~(next.sector <= next.last)
        BY <1>1, <1>2, <1>3, <1>4, <1>5, <3>4, <4>2, BeyondCovers DEF length
      <4>3. QED
        BY <4>1, <4>2
    <3>5. CASE xfer' = next /\ ~(x.pos < xfer.len) /\ ~(x.buf < xfer.getLen)
      <4>1. next.pos <= next.len
        BY <1>2, <1>3, <1>5
      <4>2. ~(next.sector <= next.last)
        BY <1>1, <1>2, <1>3, <1>4, <1>5, <3>1, <3>2, <3>5 DEF length
      <4>3. QED
        BY <3>5, <4>1, <4>2 DEF Covers
    <3>6. QED
      BY <1>3, <2>2, <3>3, <3>4, <3>5
  <2>3. QED
    BY <2>1, <2>2
<1>8. Owned(xfer, reserved, putLength)'
  BY <1>1, <1>3, <1>6 DEF Owned
<1>9. SavedWhole'
  BY <1>1, <1>3 DEF SavedWhole
<1>10. QED
  BY <1>3, <1>7, <1>8, <1>9 DEF WholeInv

LEMMA WriteWhole == ASSUME IInv, WholeInv, WritePort PROVE WholeInv'
<1> DEFINE x == [xfer EXCEPT !.pos = @ + 1, !.buf = @ + 1]
           next == [x EXCEPT !.put = @ + 1, !.buf = 0]
<1>1. xfer \in Transfer /\ xfer.type = "Put"
  BY DEF IInv, PortTypeOK, WritePort
<1>2. x \in Transfer /\ x.type = "Put" /\ x.len = xfer.len
  <2>1. xfer.pos + 1 \in Nat /\ xfer.buf + 1 \in Nat
    BY <1>1 DEF Transfer
  <2>2. x \in Transfer /\ x.type = "Put"
    BY <1>1, <2>1, WordOK
  <2>3. x.len = xfer.len
    BY <1>1 DEF Transfer
  <2>4. QED
    BY <2>2, <2>3
<1>3. xfer' \in {x, next} /\ UNCHANGED <<reserved, putLength, saved>>
  BY DEF WritePort, poolVars
<1> HIDE DEF x
<1>4. next.type = "Put" /\ next.len = xfer.len
  BY <1>2 DEF Transfer
<1> HIDE DEF next
<1>5. xfer'.type = "Put" /\ xfer'.len = xfer.len
  BY <1>2, <1>3, <1>4
<1>6. Owned(xfer, reserved, putLength)'
  BY <1>1, <1>3, <1>5 DEF WholeInv, Owned
<1>7. Covers(xfer, getLength)' /\ SavedWhole'
  BY <1>3, <1>5 DEF WholeInv, Covers, SavedWhole
<1>8. QED
  BY <1>6, <1>7 DEF WholeInv

\* A put uses up its reservation, since what it stores is what it announced.
LEMMA EndWhole == ASSUME IInv, WholeInv, EndDataTransfer PROVE WholeInv'
<1>1. xfer' = Ended /\ xfer'.type = "None" /\ UNCHANGED saved
  BY EndedOK DEF EndDataTransfer, IInv, PortTypeOK
<1>2. reserved' = 0
  <2>1. CASE xfer.type = "Put" /\ EndPut
    <3>1. reserved = PutCount /\ reserved \in Nat
      BY <2>1, PoolBounds DEF WholeInv, Owned, PutCount, IInv, PoolInv, PoolTypeOK
    <3>2. CanUseReserved(PutCount)
      BY <3>1 DEF CanUseReserved
    <3>3. Len(PutBatch) = PutCount
      BY <3>2, PutBatchOK
    <3>4. reserved' = reserved - Len(PutBatch)
      BY <2>1, <3>2 DEF EndPut, InsertReserved
    <3>5. QED
      BY <3>1, <3>3, <3>4
  <2>2. CASE xfer.type # "Put"
    <3>1. reserved = 0
      BY <2>2 DEF WholeInv, Owned
    <3>2. reserved' = reserved
      BY <2>2 DEF EndDataTransfer, DeleteSectors, poolVars
    <3>3. QED
      BY <3>1, <3>2
  <2>3. QED
    BY <2>1, <2>2 DEF EndDataTransfer
<1>3. QED
  BY <1>1, <1>2, OtherWhole DEF WholeInv

LEMMA IdleWhole ==
  ASSUME WholeInv, xfer.type = "None", reserved' \in {reserved, 0}, UNCHANGED <<xfer, saved>>
  PROVE  WholeInv'
<1>1. reserved' = 0
  BY DEF WholeInv, Owned
<1>2. QED
  BY <1>1, OtherWhole DEF WholeInv

LEMMA SaveWhole == ASSUME IInv, WholeInv, SaveState PROVE WholeInv'
<1> DEFINE record ==
      [part |-> part, reserved |-> reserved, passOut |-> passOut,
       failOut |-> failOut, cdConn |-> cdConn, accept |-> accept,
       lastDest |-> lastDest, xfer |-> xfer,
       scratch |-> scratch, slots |-> GetFreeBufferCount + 1,
       getLength |-> getLength, putLength |-> putLength, nextFad |-> nextFad,
       bufferFullPause |-> bufferFullPause]
<1>1. /\ saved' = Append(saved, record)
      /\ UNCHANGED <<reserved, xfer, getLength, putLength>>
  BY DEF SaveState, poolVars
<1>2. /\ Owned(record.xfer, record.reserved, record.putLength)
      /\ Covers(record.xfer, record.getLength)
  BY DEF WholeInv
<1> HIDE DEF record
<1>3. saved \in Seq(SavedState) /\ Len(saved) \in Nat
  BY LenProperties DEF IInv, PortTypeOK
<1>4. /\ Len(saved') = Len(saved) + 1
      /\ \A n \in 1..Len(saved) : saved'[n] = saved[n]
      /\ saved'[Len(saved) + 1] = record
  <2>1. saved' \in Seq(SavedState)
    BY SaveStateStep DEF IInv, PortTypeOK
  <2>2. QED
    BY <1>1, <1>3
<1>5. SavedWhole'
  <2> SUFFICES ASSUME NEW n \in 1..(Len(saved) + 1)
               PROVE  /\ Owned(saved'[n].xfer, saved'[n].reserved, saved'[n].putLength)
                      /\ Covers(saved'[n].xfer, saved'[n].getLength)
    BY <1>4 DEF SavedWhole
  <2>1. CASE n = Len(saved) + 1
    BY <1>2, <1>4, <2>1
  <2>2. CASE n # Len(saved) + 1
    <3>1. n \in 1..Len(saved)
      BY <1>3, <2>2
    <3>2. QED
      BY <1>4, <3>1 DEF WholeInv, SavedWhole
  <2>3. QED
    BY <2>1, <2>2
<1>6. Owned(xfer, reserved, putLength)' /\ Covers(xfer, getLength)'
  BY <1>1 DEF WholeInv, Owned, Covers
<1>7. QED
  BY <1>5, <1>6 DEF WholeInv

LEMMA LoadWhole == ASSUME IInv, WholeInv, LoadState PROVE WholeInv'
<1>1. PICK n \in 1..Len(saved) :
        /\ reserved' = saved[n].reserved
        /\ xfer' = [saved[n].xfer EXCEPT !.delStart = xfer.delStart]
        /\ getLength' = saved[n].getLength
        /\ putLength' = saved[n].putLength
        /\ UNCHANGED saved
  BY DEF LoadState, LoadPool
<1> DEFINE s == saved[n]
<1>2. s \in SavedState /\ Owned(s.xfer, s.reserved, s.putLength) /\ Covers(s.xfer, s.getLength)
  BY ElementOfSeq DEF IInv, PortTypeOK, WholeInv, SavedWhole
<1> HIDE DEF s
<1>3. s.xfer \in Transfer /\ xfer' = [s.xfer EXCEPT !.delStart = xfer.delStart]
  BY <1>1, <1>2 DEF s, SavedState
<1>4. /\ xfer'.type = s.xfer.type /\ xfer'.len = s.xfer.len /\ xfer'.pos = s.xfer.pos
      /\ xfer'.sector = s.xfer.sector /\ xfer'.last = s.xfer.last /\ xfer'.buf = s.xfer.buf
      /\ xfer'.getLen = s.xfer.getLen
  BY <1>3 DEF Transfer
<1>5. reserved' = s.reserved /\ getLength' = s.getLength /\ putLength' = s.putLength /\ saved' = saved
  BY <1>1 DEF s
<1>6. Owned(xfer, reserved, putLength)'
  BY <1>2, <1>4, <1>5 DEF Owned
<1>7. Covers(xfer, getLength)'
  BY <1>2, <1>4, <1>5 DEF Covers
<1>8. SavedWhole'
  BY <1>5 DEF WholeInv, SavedWhole
<1>9. QED
  BY <1>6, <1>7, <1>8 DEF WholeInv

LEMMA WholeStep == ASSUME IInv, WholeInv, Orderly, Next PROVE WholeInv'
<1>1. CASE \E p \in Partitions, pos \in Positions, n \in Counts, del \in BOOLEAN :
              GetSectors(p, pos, n, del)
  BY <1>1, GetWhole
<1>2. CASE \E p \in Partitions, n \in 1..MaxCount : PutSectorData(p, n)
  BY <1>2, PutWhole
<1>3. CASE InfoTransfer
  <2>1. xfer.type = "None" /\ xfer'.type = "Info" /\ reserved' = reserved /\ UNCHANGED saved
    BY <1>3, EndedOK DEF InfoTransfer, Allowed, Orderly, poolVars, IInv, PortTypeOK, Transfer
  <2>2. QED
    BY <2>1, OtherWhole DEF WholeInv, Owned
<1>4. CASE ReadPort
  BY <1>4, ReadWhole
<1>5. CASE WritePort
  BY <1>5, WriteWhole
<1>6. CASE EndDataTransfer
  BY <1>6, EndWhole
<1>7. CASE \E p \in Partitions, pos \in Positions, n \in Counts : DeleteSectorData(p, pos, n)
  BY <1>7, KeptWhole DEF DeleteSectorData, DeleteSectors
<1>8. CASE \E get, put \in Lengths : SetSectorLength(get, put)
  BY <1>8, IdleWhole DEF SetSectorLength, Allowed, Orderly, poolVars
<1>9. CASE \E p \in Partitions : ClearOnePartition(p)
  BY <1>9, KeptWhole DEF ClearOnePartition, ClearPartition
<1>10. CASE \E b, c, i, s, f \in BOOLEAN : ResetSelector(b, c, i, s, f)
  BY <1>10, IdleWhole DEF ResetSelector, ResetPool, Allowed, Orderly, poolVars
<1>11. CASE SoftReset
  BY <1>11, OtherWhole, EndedOK DEF SoftReset, ResetPool, WholeInv, IInv, PortTypeOK
<1>12. CASE /\ Rewire
            /\ UNCHANGED <<poolVars, xfer, scratch, getLength, putLength, driveVars, saved>>
  BY <1>12, KeptWhole DEF poolVars
<1>13. CASE DriveReads
  BY <1>13, KeptWhole DEF DriveReads, Route, InsertHead, poolVars
<1>14. CASE SaveState
  BY <1>14, SaveWhole
<1>15. CASE LoadState
  BY <1>15, LoadWhole
<1>16. QED
  BY <1>1, <1>2, <1>3, <1>4, <1>5, <1>6, <1>7, <1>8, <1>9, <1>10, <1>11, <1>12, <1>13,
     <1>14, <1>15 DEF Next

LEMMA WholeTransfers == ASSUME Orderly PROVE Spec => [](IInv /\ WholeInv)
<1>1. "delete" \notin HostMay
  BY DEF Orderly
<1>2. Init => WholeInv
  BY EmptySeq DEF Init, InitPool, NoTransfer, WholeInv, Owned, Covers, SavedWhole
<1>3. IInv /\ WholeInv /\ [Next]_vars => WholeInv'
  <2> SUFFICES ASSUME IInv, WholeInv, [Next]_vars PROVE WholeInv'
    OBVIOUS
  <2>1. CASE Next
    BY <2>1, WholeStep
  <2>2. CASE UNCHANGED vars
    BY <2>2, KeptWhole DEF vars, poolVars
  <2>3. QED
    BY <2>1, <2>2
<1>4. QED
  BY <1>1, <1>2, <1>3, TransferInvariant, PTL DEF Spec

\* With an orderly host, buffers are withheld from the drive for a put in
\* progress only, and as many as it will store (cdblock.cpp 1330-1357,
\* 1595-1641).
THEOREM TransferOwnsReservation == ASSUME Orderly PROVE Spec => []ReservationOwned
<1>1. WholeInv => ReservationOwned
  BY DEF WholeInv, Owned, ReservationOwned, PutCount
<1>2. QED
  BY <1>1, WholeTransfers, PTL

\* With an orderly host, no get ends before the last word of its last sector,
\* however many long sectors stretch it (cdblock.cpp 1272-1328, 1475-1562).
THEOREM TransferSendsSectors == ASSUME Orderly PROVE Spec => []SectorsSentInFull
<1>1. ASSUME IInv, WholeInv PROVE SectorsSentInFull
  <2>1. Covers(xfer, getLength) /\ xfer \in Transfer
    BY <1>1 DEF IInv, PortTypeOK, WholeInv
  <2>2. xfer.pos \in Nat /\ xfer.len \in Nat /\ xfer.sector \in Nat /\ xfer.last \in Nat
    BY <2>1 DEF Transfer
  <2> SUFFICES ASSUME Getting PROVE ToCome >= Missing
    BY DEF SectorsSentInFull
  <2>3. CASE xfer.sector > xfer.last
    BY <2>1, <2>2, <2>3 DEF Covers, Getting, ToCome, Missing
  <2>4. CASE ~(xfer.sector > xfer.last)
    <3>1. (xfer.getLen - xfer.buf) + (xfer.last - xfer.sector) * getLength <= xfer.len - xfer.pos
      BY <2>1, <2>2, <2>4 DEF Covers, Getting
    <3>2. Missing = (xfer.getLen - xfer.buf) + (xfer.last - xfer.sector) * getLength
      BY <2>4 DEF Missing
    <3>3. Missing \in Int
      BY <1>1, <2>1, <2>2, <3>2, Sizes DEF Transfer, IInv, PortTypeOK
    <3>4. QED
      BY <2>2, <3>1, <3>2, <3>3 DEF ToCome
  <2>5. QED
    BY <2>3, <2>4
<1>2. QED
  BY <1>1, WholeTransfers, PTL

-----------------------------------------------------------------------------
(***************************************************************************)
(* A get-then-delete deletes what it was set up to send.  Besides being    *)
(* orderly, the host's user saves no state during a transfer: a loaded one *)
(* would keep the start of another deletion (README.md, run load).         *)
(***************************************************************************)

\* A part of a sequence, as a function of its places.
LEMMA Slice ==
  ASSUME NEW S, NEW q \in Seq(S), NEW m \in Nat \ {0}, NEW n \in Nat, n <= Len(q)
  PROVE  /\ SubSeq(q, m, n) \in Seq(S)
         /\ Len(SubSeq(q, m, n)) = IF m <= n THEN n - m + 1 ELSE 0
         /\ \A i \in 1..(n - m + 1) : SubSeq(q, m, n)[i] = q[m + i - 1]
<1>1. Len(q) \in Nat
  BY LenProperties
<1>2. \A i \in m..n : q[i] \in S
  <2> SUFFICES ASSUME NEW i \in m..n PROVE q[i] \in S
    OBVIOUS
  <2>1. i \in 1..Len(q)
    BY <1>1
  <2>2. QED
    BY <2>1, ElementOfSeq
<1>3. m \in Int /\ n \in Int
  OBVIOUS
<1>4. QED
  BY <1>2, <1>3, SubSeqProperties

\* What is erased from a queue, put back in its place, gives the queue.
LEMMA SpliceBack ==
  ASSUME NEW S, NEW q \in Seq(S), NEW first \in Nat, NEW last \in Nat,
         first <= last, last < Len(q)
  PROVE  LET after == Without(q, first, last) IN
         /\ first \in 0..Len(after)
         /\ q = SubSeq(after, 1, first) \o SubSeq(q, first + 1, last + 1)
                   \o SubSeq(after, first + 1, Len(after))
<1> DEFINE n == Len(q)
           a == SubSeq(q, 1, first)
           b == SubSeq(q, first + 1, last + 1)
           c == SubSeq(q, last + 2, n)
           after == a \o c
<1>1. n \in Nat
  BY LenProperties
<1>2. a \in Seq(S) /\ Len(a) = first /\ \A i \in 1..first : a[i] = q[i]
  <2>1. 1 \in Nat \ {0} /\ first <= n
    BY <1>1
  <2>2. /\ a \in Seq(S) /\ Len(a) = (IF 1 <= first THEN first - 1 + 1 ELSE 0)
        /\ \A i \in 1..(first - 1 + 1) : a[i] = q[1 + i - 1]
    BY <2>1, Slice
  <2> HIDE DEF a
  <2>3. QED
    BY <2>2
<1>3. b \in Seq(S) /\ Len(b) = last - first + 1 /\ \A i \in 1..(last - first + 1) : b[i] = q[first + i]
  <2>1. first + 1 \in Nat \ {0} /\ last + 1 \in Nat /\ last + 1 <= n
    BY <1>1
  <2>2. /\ b \in Seq(S) /\ Len(b) = (IF first + 1 <= last + 1 THEN last + 1 - (first + 1) + 1 ELSE 0)
        /\ \A i \in 1..(last + 1 - (first + 1) + 1) : b[i] = q[first + 1 + i - 1]
    BY <2>1, Slice
  <2> HIDE DEF b
  <2>3. QED
    BY <2>2
<1>4. c \in Seq(S) /\ Len(c) = n - last - 1 /\ \A i \in 1..(n - last - 1) : c[i] = q[last + 1 + i]
  <2>1. last + 2 \in Nat \ {0} /\ n <= n
    BY <1>1
  <2>2. /\ c \in Seq(S) /\ Len(c) = (IF last + 2 <= n THEN n - (last + 2) + 1 ELSE 0)
        /\ \A i \in 1..(n - (last + 2) + 1) : c[i] = q[last + 2 + i - 1]
    BY <1>1, <2>1, Slice
  <2> HIDE DEF c
  <2>3. QED
    BY <1>1, <2>2
<1> HIDE DEF n, a, b, c
<1>5. /\ after \in Seq(S) /\ Len(after) = first + (n - last - 1)
      /\ \A i \in 1..(first + (n - last - 1)) : after[i] = IF i <= first THEN a[i] ELSE c[i - first]
  <2>1. /\ after \in Seq(S) /\ Len(after) = Len(a) + Len(c)
        /\ \A i \in 1..(Len(a) + Len(c)) : after[i] = IF i <= Len(a) THEN a[i] ELSE c[i - Len(a)]
    BY <1>2, <1>4, ConcatProperties
  <2> HIDE DEF after
  <2>2. QED
    BY <1>2, <1>4, <2>1
<1> DEFINE m == Len(after)
<1>6. m \in Nat /\ first <= m /\ m = first + (n - last - 1)
  BY <1>1, <1>5 DEF n
<1> HIDE DEF after, m
<1>7. SubSeq(after, 1, first) = a
  <2> DEFINE h == SubSeq(after, 1, first)
  <2>1. 1 \in Nat \ {0} /\ first <= Len(after)
    BY <1>6 DEF m
  <2>2. /\ h \in Seq(S) /\ Len(h) = (IF 1 <= first THEN first - 1 + 1 ELSE 0)
        /\ \A i \in 1..(first - 1 + 1) : h[i] = after[1 + i - 1]
    BY <1>5, <2>1, Slice
  <2> HIDE DEF h
  <2>3. Len(h) = Len(a) /\ \A i \in 1..Len(h) : h[i] = a[i]
    BY <1>2, <1>5, <1>6, <2>2
  <2>4. h = a
    BY <1>2, <2>2, <2>3, SeqEqual
  <2>5. QED
    BY <2>4 DEF h
<1>8. SubSeq(after, first + 1, m) = c
  <2> DEFINE h == SubSeq(after, first + 1, m)
  <2>1. first + 1 \in Nat \ {0} /\ m <= Len(after)
    BY <1>6 DEF m
  <2>2. /\ h \in Seq(S) /\ Len(h) = (IF first + 1 <= m THEN m - (first + 1) + 1 ELSE 0)
        /\ \A i \in 1..(m - (first + 1) + 1) : h[i] = after[first + 1 + i - 1]
    BY <1>5, <1>6, <2>1, Slice
  <2> HIDE DEF h
  <2>3. Len(h) = Len(c)
    BY <1>1, <1>4, <1>6, <2>2
  <2>4. ASSUME NEW i \in 1..Len(h) PROVE h[i] = c[i]
    <3>1. Len(h) = n - last - 1 /\ h[i] = after[first + i]
      BY <1>1, <1>4, <1>6, <2>2, <2>3
    <3>2. first + i \in 1..(first + (n - last - 1)) /\ ~(first + i <= first) /\ first + i - first = i
      BY <1>1, <3>1
    <3>3. QED
      BY <1>5, <3>1, <3>2
  <2>5. h = c
    BY <1>4, <2>2, <2>3, <2>4, SeqEqual
  <2>6. QED
    BY <2>5 DEF h
<1>9. q = (a \o b) \o c
  <2> DEFINE ab == a \o b
             whole == ab \o c
  <2>1. /\ ab \in Seq(S) /\ Len(ab) = first + (last - first + 1)
        /\ \A i \in 1..(first + (last - first + 1)) : ab[i] = IF i <= first THEN a[i] ELSE b[i - first]
    BY <1>2, <1>3, ConcatProperties
  <2> HIDE DEF ab
  <2>2. Len(ab) = last + 1
    BY <2>1
  <2>3. /\ whole \in Seq(S) /\ Len(whole) = Len(ab) + Len(c)
        /\ \A i \in 1..(Len(ab) + Len(c)) : whole[i] = IF i <= Len(ab) THEN ab[i] ELSE c[i - Len(ab)]
    BY <1>4, <2>1, ConcatProperties
  <2> HIDE DEF whole
  <2>4. Len(whole) = n
    BY <1>1, <1>4, <2>2, <2>3
  <2>5. ASSUME NEW i \in 1..n PROVE whole[i] = q[i]
    <3>1. CASE i <= first
      BY <1>1, <1>2, <2>1, <2>2, <2>3, <2>4, <3>1
    <3>2. CASE first < i /\ i <= last + 1
      <4>1. whole[i] = b[i - first] /\ i - first \in 1..(last - first + 1)
        BY <1>1, <2>1, <2>2, <2>3, <2>4, <3>2
      <4>2. b[i - first] = q[first + (i - first)] /\ first + (i - first) = i
        BY <1>1, <1>3, <4>1
      <4>3. QED
        BY <4>1, <4>2
    <3>3. CASE last + 1 < i
      <4>1. whole[i] = c[i - (last + 1)] /\ i - (last + 1) \in 1..(n - last - 1)
        BY <1>1, <2>2, <2>3, <2>4, <3>3
      <4>2. c[i - (last + 1)] = q[last + 1 + (i - (last + 1))] /\ last + 1 + (i - (last + 1)) = i
        BY <1>1, <1>4, <4>1
      <4>3. QED
        BY <4>1, <4>2
    <3>4. QED
      BY <1>1, <3>1, <3>2, <3>3
  <2>6. whole = q
    <3>1. Len(whole) = Len(q) /\ \A i \in 1..Len(whole) : whole[i] = q[i]
      BY <2>4, <2>5 DEF n
    <3>2. QED
      BY <2>3, <3>1, SeqEqual
  <2>7. QED
    BY <2>6 DEF whole, ab
<1>10. after = Without(q, first, last)
  BY DEF after, a, c, n, Without
<1>11. first \in 0..m
  BY <1>6
<1>12. QED
  BY <1>7, <1>8, <1>9, <1>10, <1>11 DEF m, b

-----------------------------------------------------------------------------
Uninterrupted == Orderly /\ "savestate" \notin HostMay

\* The sectors to delete are still where the command found them.
TargetAt(x, q) ==
    x.type = "GetThenDelete" =>
        /\ x.delCount # 0
        /\ x.delStart + x.delCount <= Len(q[x.part])
        /\ x.target = SubSeq(q[x.part], x.delStart + 1, x.delStart + x.delCount)

SavedIdle == \A n \in 1..Len(saved) : saved[n].xfer.type = "None"

TargetInv == TargetAt(xfer, part) /\ SavedIdle

\* The members of a transfer that say what it deletes.
Deletion(x) == <<x.type, x.part, x.delStart, x.delCount, x.target>>

LEMMA ReadSectorDeletes ==
  ASSUME NEW x \in Transfer, getLength \in Lengths
  PROVE  Deletion(ReadSector(x)) = Deletion(x)
<1>1. \E g, l \in Int : ReadSector(x) = [x EXCEPT !.getLen = g, !.len = l]
  <2> DEFINE longer == x.sector < Len(part[x.part]) /\ Extended(part[x.part][x.sector + 1], x.type)
             length == IF longer /\ ExtLength > getLength THEN ExtLength ELSE getLength
  <2>1. ReadSector(x) = [x EXCEPT !.getLen = length, !.len = x.len + BytesPerWord * (length - getLength)]
    BY DEF ReadSector
  <2> HIDE DEF longer
  <2>2. length \in Int /\ x.len + BytesPerWord * (length - getLength) \in Int
    BY Sizes DEF Transfer, BytesPerWord
  <2>3. QED
    BY <2>1, <2>2
<1>2. QED
  BY <1>1 DEF Deletion, Transfer

LEMMA WordDeletes ==
  ASSUME NEW x \in Transfer, NEW i, NEW j, NEW k
  PROVE  /\ Deletion([x EXCEPT !.pos = i, !.buf = j]) = Deletion(x)
         /\ Deletion([x EXCEPT !.sector = k, !.buf = j]) = Deletion(x)
BY DEF Deletion, Transfer

LEMMA NotDeleting ==
  ASSUME SavedIdle, UNCHANGED saved, xfer'.type # "GetThenDelete"
  PROVE  TargetInv'
BY DEF TargetInv, TargetAt, SavedIdle

LEMMA SameTarget ==
  ASSUME TargetInv, UNCHANGED <<part, saved>>, Deletion(xfer') = Deletion(xfer)
  PROVE  TargetInv'
<1>1. /\ xfer'.type = xfer.type /\ xfer'.part = xfer.part /\ xfer'.delStart = xfer.delStart
      /\ xfer'.delCount = xfer.delCount /\ xfer'.target = xfer.target
  BY DEF Deletion
<1>2. QED
  BY <1>1 DEF TargetInv, TargetAt, SavedIdle

\* The command fixes the positions and notes the sectors.
LEMMA GetTarget ==
  ASSUME IInv, TargetInv, Uninterrupted, NEW p \in Partitions, NEW pos \in Positions,
         NEW count \in Counts, NEW del \in BOOLEAN, GetSectors(p, pos, count, del)
  PROVE  TargetInv'
<1>1. xfer.type = "None" /\ UNCHANGED <<part, saved>>
  BY DEF GetSectors, Allowed, Uninterrupted, Orderly, poolVars
<1>2. PICK first, last \in Nat :
           \/ /\ InRange(first, last, Len(part[p])) /\ first \in Slots
              /\ last - first + 1 \in 1..NumBuffers
              /\ Len(part[p]) # 0
              /\ xfer' = ReadSector(Started(p, first, last, del)) /\ scratch' = NoScratch
           \/ /\ xfer' = IF Getting THEN [xfer EXCEPT !.sector = first, !.last = last] ELSE xfer
              /\ UNCHANGED scratch
  BY GetSectorsSplit
<1>3. CASE xfer' = xfer
  BY <1>1, <1>3, NotDeleting DEF TargetInv
<1>4. CASE /\ InRange(first, last, Len(part[p])) /\ first \in Slots
           /\ last - first + 1 \in 1..NumBuffers
           /\ xfer' = ReadSector(Started(p, first, last, del))
  <2> DEFINE x == Started(p, first, last, del)
  <2>1. x \in Transfer /\ getLength \in Lengths
    BY <1>4, StartedOK DEF IInv, PortTypeOK
  <2>2. CASE del
    <3>1. /\ x.type = "GetThenDelete" /\ x.part = p /\ x.delStart = first
          /\ x.delCount = last - first + 1 /\ x.target = SubSeq(part[p], first + 1, last + 1)
      BY <2>2, EndedOK DEF Started, IInv, PortTypeOK, Transfer
    <3> HIDE DEF x
    <3>2. Deletion(xfer') = Deletion(x)
      BY <1>4, <2>1, ReadSectorDeletes DEF x
    <3>3. /\ xfer'.type = "GetThenDelete" /\ xfer'.part = p /\ xfer'.delStart = first
          /\ xfer'.delCount = last - first + 1 /\ xfer'.target = SubSeq(part[p], first + 1, last + 1)
      BY <3>1, <3>2 DEF Deletion
    <3>4. Len(part[p]) \in Nat
      BY PoolBounds, Sizes DEF IInv
    <3>5. first + (last - first + 1) = last + 1 /\ last + 1 <= Len(part[p])
      BY <1>4, <3>4 DEF InRange
    <3>6. last - first + 1 # 0
      BY <1>4, Sizes
    <3>7. TargetAt(xfer', part)
      BY <3>3, <3>5, <3>6 DEF TargetAt
    <3>8. QED
      BY <1>1, <3>7 DEF TargetInv, TargetAt, SavedIdle
  <2>3. CASE ~del
    <3>1. x.type = "Get"
      BY <1>4, <2>3, StartedOK
    <3> HIDE DEF x
    <3>2. xfer'.type = "Get"
      BY <1>4, <2>1, <3>1, ReadSectorOK DEF x
    <3>3. QED
      BY <1>1, <3>2, NotDeleting DEF TargetInv
  <2>4. QED
    BY <2>2, <2>3
<1>5. QED
  BY <1>1, <1>2, <1>3, <1>4 DEF Getting

LEMMA ReadTarget == ASSUME IInv, TargetInv, ReadPort PROVE TargetInv'
<1> DEFINE x == [xfer EXCEPT !.pos = @ + 1, !.buf = @ + 1]
           next == [x EXCEPT !.sector = @ + 1, !.buf = 0]
<1>1. xfer \in Transfer /\ getLength \in Lengths
  BY DEF IInv, PortTypeOK
<1>2. x \in Transfer
  <2>1. xfer.pos + 1 \in Nat /\ xfer.buf + 1 \in Nat
    BY <1>1 DEF Transfer
  <2>2. QED
    BY <1>1, <2>1, WordOK
<1>3. Deletion(x) = Deletion(xfer)
  BY <1>1, WordDeletes
<1>4. xfer' \in {x, next, ReadSector(next)}
  BY DEF ReadPort
<1> HIDE DEF x
<1>5. next \in Transfer
  <2>1. x.sector + 1 \in Nat
    BY <1>2 DEF Transfer
  <2>2. QED
    BY <1>2, <2>1, NextSectorOK
<1>6. Deletion(next) = Deletion(x)
  BY <1>2, WordDeletes
<1> HIDE DEF next
<1>7. Deletion(ReadSector(next)) = Deletion(next)
  BY <1>1, <1>5, ReadSectorDeletes
<1>8. Deletion(xfer') = Deletion(xfer)
  BY <1>3, <1>4, <1>6, <1>7
<1>9. UNCHANGED <<part, saved>>
  BY DEF ReadPort, poolVars
<1>10. QED
  BY <1>8, <1>9, SameTarget

\* A sector appended to the queue, or to another one, moves none of the others.
LEMMA AppendSlice ==
  ASSUME NEW S, NEW q \in Seq(S), NEW s \in S, NEW m \in Nat \ {0}, NEW n \in Nat, n <= Len(q)
  PROVE  /\ n <= Len(Append(q, s))
         /\ SubSeq(Append(q, s), m, n) = SubSeq(q, m, n)
<1> DEFINE longer == Append(q, s)
           a == SubSeq(longer, m, n)
           b == SubSeq(q, m, n)
<1>1. Len(q) \in Nat
  BY LenProperties
<1>2. longer \in Seq(S) /\ Len(longer) = Len(q) + 1 /\ \A i \in 1..Len(q) : longer[i] = q[i]
  BY AppendProperties
<1> HIDE DEF longer
<1>3. n <= Len(longer)
  BY <1>1, <1>2
<1>4. /\ a \in Seq(S) /\ Len(a) = (IF m <= n THEN n - m + 1 ELSE 0)
      /\ \A i \in 1..(n - m + 1) : a[i] = longer[m + i - 1]
  BY <1>2, <1>3, Slice
<1>5. /\ b \in Seq(S) /\ Len(b) = (IF m <= n THEN n - m + 1 ELSE 0)
      /\ \A i \in 1..(n - m + 1) : b[i] = q[m + i - 1]
  BY Slice
<1> HIDE DEF a, b
<1>6. ASSUME NEW i \in 1..Len(a) PROVE a[i] = b[i]
  <2>1. i \in 1..(n - m + 1) /\ m + i - 1 \in 1..Len(q)
    BY <1>1, <1>4
  <2>2. QED
    BY <1>2, <1>4, <1>5, <2>1
<1>7. a = b
  BY <1>4, <1>5, <1>6, SeqEqual
<1>8. QED
  BY <1>3, <1>7 DEF a, b, longer

LEMMA InsertTarget ==
  ASSUME PoolInv, xfer \in Transfer, TargetAt(xfer, part),
         NEW p \in Partitions, NEW s \in Buffer, InsertHead(p, s)
  PROVE  TargetAt(xfer, part')
<1> SUFFICES ASSUME xfer.type = "GetThenDelete" PROVE TargetAt(xfer, part')
  BY DEF TargetAt
<1> DEFINE o == xfer.part
           q == part[o]
           m == xfer.delStart + 1
           n == xfer.delStart + xfer.delCount
<1>1. /\ o \in Partitions /\ m \in Nat \ {0} /\ n \in Nat
  BY Sizes DEF Transfer
<1>2. xfer.delCount # 0 /\ n <= Len(q) /\ xfer.target = SubSeq(q, m, n)
  BY DEF TargetAt
<1>3. part' = [part EXCEPT ![p] = Append(part[p], s)] /\ part \in Queues
  BY PoolBounds DEF InsertHead
<1>4. q \in Seq(Buffer)
  BY <1>1, PoolBounds
<1> HIDE DEF o, m, n
<1>5. n <= Len(part'[o]) /\ SubSeq(part'[o], m, n) = SubSeq(q, m, n)
  <2>1. CASE o = p
    <3>1. part'[o] = Append(q, s)
      BY <1>1, <1>3, <2>1 DEF Queues
    <3> HIDE DEF q
    <3>2. n <= Len(Append(q, s)) /\ SubSeq(Append(q, s), m, n) = SubSeq(q, m, n)
      BY <1>1, <1>2, <1>4, AppendSlice
    <3>3. QED
      BY <3>1, <3>2
  <2>2. CASE o # p
    <3>1. part'[o] = q
      BY <1>1, <1>3, <2>2 DEF Queues
    <3>2. QED
      BY <1>2, <3>1
  <2>3. QED
    BY <2>1, <2>2
<1>6. QED
  BY <1>2, <1>5 DEF TargetAt, o, m, n

LEMMA DriveTarget == ASSUME IInv, TargetInv, DriveReads PROVE TargetInv'
<1> DEFINE read == [scratch[0] EXCEPT !.data = nextFad, !.host = 0]
           done == [read EXCEPT !.fad = nextFad]
<1>1. PoolInv /\ PortTypeOK /\ xfer \in Transfer /\ scratch \in [Slots -> Buffer]
  BY DEF IInv, PortTypeOK
<1>2. UNCHANGED <<xfer, saved>>
  BY DEF DriveReads
<1>3. done \in Buffer
  <2>1. nextFad \in 0..MaxFad
    BY <1>1, Sizes DEF DriveReads, PortTypeOK
  <2>2. scratch[0] \in Buffer
    BY <1>1, Sizes
  <2>3. QED
    BY <2>1, <2>2 DEF Buffer
<1>4. \/ UNCHANGED part
      \/ Route(nextFad, done)
  BY DEF DriveReads, poolVars
<1> HIDE DEF done
<1>5. \/ UNCHANGED part
      \/ Destination(nextFad) \in Partitions /\ InsertHead(Destination(nextFad), done)
  BY <1>4 DEF Route, poolVars
<1>6. TargetAt(xfer, part')
  BY <1>1, <1>3, <1>5, InsertTarget DEF TargetInv
<1>7. QED
  BY <1>2, <1>6 DEF TargetInv, TargetAt, SavedIdle

\* A state is saved while no transfer is pending, and loads as one.
LEMMA SaveTarget ==
  ASSUME IInv, TargetInv, Uninterrupted, SaveState
  PROVE  TargetInv'
<1> DEFINE record ==
      [part |-> part, reserved |-> reserved, passOut |-> passOut,
       failOut |-> failOut, cdConn |-> cdConn, accept |-> accept,
       lastDest |-> lastDest, xfer |-> xfer,
       scratch |-> scratch, slots |-> GetFreeBufferCount + 1,
       getLength |-> getLength, putLength |-> putLength, nextFad |-> nextFad,
       bufferFullPause |-> bufferFullPause]
<1>1. xfer.type = "None" /\ xfer' = xfer
  BY DEF SaveState, Allowed, Uninterrupted
<1>2. saved' = Append(saved, record) /\ record.xfer.type = "None"
  BY <1>1 DEF SaveState
<1> HIDE DEF record
<1>3. saved \in Seq(SavedState) /\ Len(saved) \in Nat
  BY LenProperties DEF IInv, PortTypeOK
<1>4. /\ Len(saved') = Len(saved) + 1
      /\ \A n \in 1..Len(saved) : saved'[n] = saved[n]
      /\ saved'[Len(saved) + 1] = record
  <2>1. saved' \in Seq(SavedState)
    BY SaveStateStep DEF IInv, PortTypeOK
  <2>2. QED
    BY <1>2, <1>3
<1>5. SavedIdle'
  <2> SUFFICES ASSUME NEW n \in 1..(Len(saved) + 1) PROVE saved'[n].xfer.type = "None"
    BY <1>4 DEF SavedIdle
  <2>1. CASE n = Len(saved) + 1
    BY <1>2, <1>4, <2>1
  <2>2. CASE n # Len(saved) + 1
    <3>1. n \in 1..Len(saved)
      BY <1>3, <2>2
    <3>2. QED
      BY <1>4, <3>1 DEF TargetInv, SavedIdle
  <2>3. QED
    BY <2>1, <2>2
<1>6. QED
  BY <1>1, <1>5 DEF TargetInv, TargetAt

LEMMA LoadTarget == ASSUME IInv, TargetInv, LoadState PROVE TargetInv'
<1>1. PICK n \in 1..Len(saved) : /\ xfer' = [saved[n].xfer EXCEPT !.delStart = xfer.delStart]
                                 /\ UNCHANGED saved
  BY DEF LoadState
<1>2. saved[n] \in SavedState /\ saved[n].xfer.type = "None"
  BY ElementOfSeq DEF IInv, PortTypeOK, TargetInv, SavedIdle
<1>3. saved[n].xfer \in Transfer
  BY <1>2 DEF SavedState
<1>4. xfer'.type = "None"
  BY <1>1, <1>2, <1>3 DEF Transfer
<1>5. QED
  BY <1>1, <1>4, NotDeleting DEF TargetInv

LEMMA TargetStep == ASSUME IInv, TargetInv, Uninterrupted, Next PROVE TargetInv'
<1> xfer \in Transfer /\ SavedIdle
  BY DEF IInv, PortTypeOK, TargetInv
<1>1. CASE \E p \in Partitions, pos \in Positions, n \in Counts, del \in BOOLEAN :
              GetSectors(p, pos, n, del)
  BY <1>1, GetTarget
<1>2. CASE \E p \in Partitions, n \in 1..MaxCount : PutSectorData(p, n)
  <2>1. PICK n \in 1..MaxCount, p \in Partitions : PutSectorData(p, n)
    BY <1>2
  <2>2. xfer'.type = "Put" /\ UNCHANGED saved
    BY <2>1, EndedOK DEF PutSectorData, Transfer
  <2>3. QED
    BY <2>2, NotDeleting
<1>3. CASE InfoTransfer
  BY <1>3, NotDeleting, EndedOK DEF InfoTransfer, Transfer
<1>4. CASE ReadPort
  BY <1>4, ReadTarget
<1>5. CASE WritePort
  <2>1. xfer'.type = "Put" /\ UNCHANGED saved
    BY <1>5 DEF WritePort, Transfer
  <2>2. QED
    BY <2>1, NotDeleting
<1>6. CASE EndDataTransfer
  BY <1>6, NotDeleting, EndedOK DEF EndDataTransfer
<1>7. CASE \E p \in Partitions, pos \in Positions, n \in Counts : DeleteSectorData(p, pos, n)
  BY <1>7, NotDeleting DEF DeleteSectorData, Allowed, Uninterrupted, Orderly
<1>8. CASE \E get, put \in Lengths : SetSectorLength(get, put)
  BY <1>8, NotDeleting DEF SetSectorLength, Allowed, Uninterrupted, Orderly
<1>9. CASE \E p \in Partitions : ClearOnePartition(p)
  BY <1>9, NotDeleting DEF ClearOnePartition, Allowed, Uninterrupted, Orderly
<1>10. CASE \E b, c, i, s, f \in BOOLEAN : ResetSelector(b, c, i, s, f)
  BY <1>10, NotDeleting DEF ResetSelector, Allowed, Uninterrupted, Orderly
<1>11. CASE SoftReset
  BY <1>11, NotDeleting, EndedOK DEF SoftReset
<1>12. CASE /\ Rewire
            /\ UNCHANGED <<poolVars, xfer, scratch, getLength, putLength, driveVars, saved>>
  BY <1>12, SameTarget DEF poolVars, Deletion
<1>13. CASE DriveReads
  BY <1>13, DriveTarget
<1>14. CASE SaveState
  BY <1>14, SaveTarget
<1>15. CASE LoadState
  BY <1>15, LoadTarget
<1>16. QED
  BY <1>1, <1>2, <1>3, <1>4, <1>5, <1>6, <1>7, <1>8, <1>9, <1>10, <1>11, <1>12, <1>13,
     <1>14, <1>15 DEF Next

\* Within the partition, the range DeleteSectors erases is the range it is given.
LEMMA ErasesRange ==
  ASSUME PoolInv, NEW p \in Partitions, NEW pos \in Slots, NEW count \in Slots,
         count # 0, pos + count <= Len(part[p])
  PROVE  DeleteStart(p, pos) = pos /\ DeleteEnd(p, pos, count) = pos + count - 1
<1> DEFINE top == LastSector(p)
           end == pos + count - 1
<1>1. /\ NumBuffers \in Nat /\ NumBuffers <= 254
      /\ pos \in Nat /\ count \in Nat /\ 1 <= count /\ pos <= 254 /\ count <= 254
  BY Sizes
<1>2. Len(part[p]) \in Nat
  BY PoolBounds, Sizes
<1>3. Len(part[p]) # 0
  BY <1>1, <1>2
<1>4. top \in Nat /\ top = Len(part[p]) - 1
  BY <1>3, LastSectorOf
<1> HIDE DEF top
<1>5. pos <= top /\ end <= top /\ end \in Int /\ 0 <= end /\ end < 65536
  BY <1>1, <1>2, <1>4
<1>6. end % 65536 = end
  BY <1>5, Fits
<1>7. pos # Wild /\ count # Wild
  BY <1>1 DEF Wild
<1>8. DeleteStart(p, pos) = pos
  <2>1. DeleteStart(p, pos) = IF pos < top THEN pos ELSE top
    BY DEF DeleteStart, Clamp, top
  <2>2. QED
    BY <1>1, <1>4, <1>5, <2>1
<1>9. DeleteEnd(p, pos, count) = end
  <2>1. DeleteEnd(p, pos, count) = Clamp(end % 65536, p)
    BY <1>7 DEF DeleteEnd
  <2>2. Clamp(end, p) = IF end < top THEN end ELSE top
    BY DEF Clamp, top
  <2> HIDE DEF end
  <2>3. QED
    BY <1>4, <1>5, <1>6, <2>1, <2>2
<1>10. QED
  BY <1>8, <1>9

LEMMA DeletesTarget ==
  ASSUME IInv, TargetInv, EndDataTransfer, xfer.type = "GetThenDelete"
  PROVE  LET before == part[xfer.part]
             after  == part'[xfer.part]
         IN  \E i \in 0..Len(after) :
                before = SubSeq(after, 1, i) \o xfer.target \o SubSeq(after, i + 1, Len(after))
<1> DEFINE p == xfer.part
           q == part[p]
           first == xfer.delStart
           count == xfer.delCount
           last == first + count - 1
<1>1. p \in Partitions /\ first \in Slots /\ count \in Slots /\ PoolInv
  BY DEF IInv, PortTypeOK, Transfer
<1>2. count # 0 /\ first + count <= Len(q) /\ xfer.target = SubSeq(q, first + 1, first + count)
  BY DEF TargetInv, TargetAt
<1>3. DeleteSectors(p, first, count)
  BY DEF EndDataTransfer
<1> HIDE DEF p, first, count
<1>4. DeleteStart(p, first) = first /\ DeleteEnd(p, first, count) = last
  BY <1>1, <1>2, ErasesRange
<1>5. part' = IF q = <<>> THEN part ELSE [part EXCEPT ![p] = Without(part[p], first, last)]
  BY <1>3, <1>4 DEF DeleteSectors
<1>6. q \in Seq(Buffer) /\ Len(q) \in Nat /\ part \in Queues
  BY <1>1, PoolBounds, LenProperties
<1>7. /\ first \in Nat /\ last \in Nat /\ first <= last /\ last < Len(q)
      /\ last + 1 = first + count /\ Len(q) # 0
  BY <1>1, <1>2, <1>6, Sizes
<1>8. q # <<>>
  BY <1>6, <1>7, EmptySeq
<1>9. part'[p] = Without(q, first, last)
  BY <1>1, <1>5, <1>6, <1>8 DEF Queues
<1> DEFINE after == Without(q, first, last)
<1> HIDE DEF q, last
<1>10. /\ first \in 0..Len(after)
       /\ q = SubSeq(after, 1, first) \o SubSeq(q, first + 1, last + 1)
                 \o SubSeq(after, first + 1, Len(after))
  BY <1>6, <1>7, SpliceBack
<1>11. SubSeq(q, first + 1, last + 1) = xfer.target
  BY <1>2, <1>7
<1>12. QED
  BY <1>9, <1>10, <1>11 DEF p, q

\* With a host that is orderly and a user who saves no state during a transfer,
\* a get-then-delete erases the sectors it was set up to send and no others,
\* wherever the drive has stored sectors since (cdblock.cpp 1272-1298,
\* 1595-1641).
THEOREM TransferDeletesWhatItSent == ASSUME Uninterrupted PROVE Spec => DeletesWhatItSent
<1>1. Orderly /\ "delete" \notin HostMay
  BY DEF Uninterrupted, Orderly
<1>2. Init => TargetInv
  BY EmptySeq DEF Init, NoTransfer, TargetInv, TargetAt, SavedIdle
<1>3. IInv /\ TargetInv /\ [Next]_vars => TargetInv'
  <2> SUFFICES ASSUME IInv, TargetInv, [Next]_vars PROVE TargetInv'
    OBVIOUS
  <2>1. CASE Next
    BY <2>1, TargetStep
  <2>2. CASE UNCHANGED vars
    BY <2>2, SameTarget DEF vars, poolVars, Deletion
  <2>3. QED
    BY <2>1, <2>2
<1> DEFINE Deletes ==
      EndDataTransfer /\ xfer.type = "GetThenDelete" =>
          LET before == part[xfer.part]
              after  == part'[xfer.part]
          IN  \E i \in 0..Len(after) :
                  before = SubSeq(after, 1, i) \o xfer.target \o SubSeq(after, i + 1, Len(after))
<1>4. IInv /\ TargetInv => Deletes
  BY DeletesTarget
<1>5. DeletesWhatItSent <=> [][Deletes]_vars
  BY DEF DeletesWhatItSent
<1> HIDE DEF Deletes
<1>6. Spec => [](IInv /\ TargetInv)
  BY <1>1, <1>2, <1>3, TransferInvariant, PTL DEF Spec
<1>7. IInv /\ TargetInv /\ [Next]_vars => [Deletes]_vars
  BY <1>4
<1>8. QED
  BY <1>5, <1>6, <1>7, PTL DEF Spec
=============================================================================
