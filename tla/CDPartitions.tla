---------------------------- MODULE CDPartitions ----------------------------
(***************************************************************************)
(* The sector buffer pool of the CD block (CDBlock::PartitionManager).     *)
(*                                                                         *)
(* kNumBuffers sector buffers are shared by kNumPartitions partitions,     *)
(* each a queue of sectors.  The pool is not a free list: it is a counter, *)
(* m_freeBuffers, that every operation adjusts beside the queue it edits,  *)
(* and a second counter, m_reservedBuffers, that withholds buffers for a   *)
(* host-to-CD transfer that has been announced but not completed.          *)
(*                                                                         *)
(* The operators are the methods of the class, as actions on its three     *)
(* variables.  The callers are in CDSelector and CDTransfer.               *)
(***************************************************************************)
EXTENDS Integers, Sequences, FiniteSets

CONSTANTS
    NumFilters,   \* kNumFilters = kNumPartitions (24)
    NumBuffers,   \* kNumBuffers (200)
    MaxFad        \* the last frame address of the disc; addresses start at 1

ASSUME PoolAssumption ==
    /\ NumFilters \in 1..254
    /\ NumBuffers \in 1..254
    /\ MaxFad \in Nat

VARIABLES
    part,       \* m_partitions: partition -> queue of sectors
    free,       \* m_freeBuffers
    reserved    \* m_reservedBuffers

poolVars == <<part, free, reserved>>

Partitions == 0..(NumFilters - 1)

(***************************************************************************)
(* A buffer: the frame address it is labelled with (0 for a put sector),   *)
(* the disc sector its data was read from (0 for none), and how many words *)
(* of its data the host has written.                                       *)
(***************************************************************************)
Buffer == [fad : 0..MaxFad, data : 0..MaxFad, host : Nat]

Blank == [fad |-> 0, data |-> 0, host |-> 0]

\* 0xFFFF as a sector position is the last sector, as a count all that follow.
Wild == 65535

(***************************************************************************)
(* State functions.                                                        *)
(***************************************************************************)
Empty == [p \in Partitions |-> <<>>]

\* The places that hold a sector, and their number.
Places(q) == UNION { {p} \X (1..Len(q[p])) : p \in Partitions }

Held(q) == Cardinality(Places(q))

GetBufferCount(p) == Len(part[p])

GetFreeBufferCount == free - reserved

(***************************************************************************)
(* Reservations.                                                           *)
(***************************************************************************)

\* Faulty: no test against the free buffers.
CanReserveUntested(n) == n # 0

\* ReserveBuffers tests the count against the free buffers, not against the
\* unreserved ones, and replaces an earlier reservation.
CanReserve(n) == n # 0 /\ n <= free

ReserveBuffers(n) == reserved' = n

CanUseReserved(n) == n <= reserved

(***************************************************************************)
(* Edits.                                                                  *)
(***************************************************************************)
InitPool ==
    /\ part = Empty
    /\ free = NumBuffers
    /\ reserved = 0

ResetPool ==
    /\ part' = Empty
    /\ free' = NumBuffers
    /\ reserved' = 0

InsertHead(p, s) ==
    /\ part' = [part EXCEPT ![p] = Append(@, s)]
    /\ free' = free - 1
    /\ UNCHANGED reserved

\* Faulty: the buffers are taken from the reservation only.
InsertReservedUncounted(p, batch) ==
    /\ part' = [part EXCEPT ![p] = @ \o batch]
    /\ reserved' = reserved - Len(batch)
    /\ UNCHANGED free

\* Faulty: the reservation is kept.
InsertReservedKept(p, batch) ==
    /\ part' = [part EXCEPT ![p] = @ \o batch]
    /\ free' = free - Len(batch)
    /\ UNCHANGED reserved

\* UseReservedBuffers followed by one InsertHead for each sector of batch.
InsertReserved(p, batch) ==
    /\ part' = [part EXCEPT ![p] = @ \o batch]
    /\ free' = free - Len(batch)
    /\ reserved' = reserved - Len(batch)

\* The 0-based range DeleteSectors erases: 16-bit arithmetic, both ends
\* clamped to the last sector, which is 0xFFFF when the partition is empty.
LastSector(p) == (Len(part[p]) - 1) % 65536

Clamp(i, p) == IF i < LastSector(p) THEN i ELSE LastSector(p)

DeleteStart(p, pos) == Clamp(pos, p)

\* Faulty: one sector too far.
DeleteEndBeyond(p, pos, count) ==
    LET start == IF pos = Wild THEN LastSector(p) ELSE pos
    IN  IF count = Wild THEN LastSector(p) ELSE Clamp((start + count) % 65536, p)

DeleteEnd(p, pos, count) ==
    LET start == IF pos = Wild THEN LastSector(p) ELSE pos
    IN  IF count = Wild THEN LastSector(p) ELSE Clamp((start + count - 1) % 65536, p)

Without(q, first, last) ==
    SubSeq(q, 1, first) \o SubSeq(q, last + 2, Len(q))

\* On an empty partition the erased range lies outside the queue (undefined
\* behaviour); the outcome modelled is that the queue stays as it is and the
\* counter grows all the same.
DeleteSectors(p, pos, count) ==
    LET first == DeleteStart(p, pos)
        last  == DeleteEnd(p, pos, count)
    IN  /\ part' = IF part[p] = <<>> THEN part
                   ELSE [part EXCEPT ![p] = Without(@, first, last)]
        /\ free' = free + (last - first + 1)
        /\ UNCHANGED reserved

\* Faulty: the counter goes the wrong way.
ClearPartitionTaken(p) ==
    /\ part' = [part EXCEPT ![p] = <<>>]
    /\ free' = free - Len(part[p])
    /\ UNCHANGED reserved

ClearPartition(p) ==
    /\ part' = [part EXCEPT ![p] = <<>>]
    /\ free' = free + Len(part[p])
    /\ UNCHANGED reserved

\* LoadState counts the buffers it puts back; ValidateState has accepted them.
ValidPool(q, r) == r + Held(q) <= NumBuffers

\* Faulty: every buffer is taken to be free.
LoadPoolUncounted(q, r) ==
    /\ part' = q
    /\ free' = NumBuffers
    /\ reserved' = r

\* Faulty: the reservation of the running session stays.
LoadPoolReserved(q, r) ==
    /\ part' = q
    /\ free' = NumBuffers - Held(q)
    /\ UNCHANGED reserved

LoadPool(q, r) ==
    /\ part' = q
    /\ free' = NumBuffers - Held(q)
    /\ reserved' = r

(***************************************************************************)
(* Properties.                                                             *)
(***************************************************************************)

PoolTypeOK ==
    /\ part \in [Partitions -> Seq(Buffer)]
    /\ free \in Nat
    /\ reserved \in Nat

\* cdblock_partition_manager.cpp keeps the pool only as a counter: every path
\* that fills or empties a partition has to adjust it by as much, or the drive
\* stalls for good (counter too low) or the 200-buffer limit is passed.
BuffersConserved == free + Held(part) = NumBuffers

\* GetFreeBufferCount subtracts two unsigned counters: a reservation larger
\* than the free buffers would wrap around to four billion free buffers.
ReservationBacked == reserved <= free
=============================================================================
