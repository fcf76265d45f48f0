----------------------------- MODULE CDBuffersProofs -----------------------------
(***************************************************************************)
(* The sector buffer pool and the selector: how many buffers the           *)
(* partitions hold and what the edits of a partition do to that number;    *)
(* what the commands on filters keep true (the types, and that no filter   *)
(* input is fed by two fail outputs); and where the filters send a sector. *)
(***************************************************************************)
EXTENDS CDSelector, NaturalLemmas, FiniteSetTheorems, SequenceTheorems, TLAPS

Queues == [Partitions -> Seq(Buffer)]

PlacesIn(q, p) == {p} \X (1..Len(q[p]))

-----------------------------------------------------------------------------
(***************************************************************************)
(* Counting.                                                               *)
(***************************************************************************)

\* A partition holds as many buffers as its queue is long.
LEMMA PlacesInFinite ==
  ASSUME NEW q \in Queues, NEW p \in Partitions
  PROVE  /\ IsFiniteSet(PlacesIn(q, p))
         /\ Cardinality(PlacesIn(q, p)) = Len(q[p])
<1>1. q[p] \in Seq(Buffer)
  BY DEF Queues
<1>2. Len(q[p]) \in Nat
  BY <1>1, LenProperties
<1>3. IsFiniteSet(1..Len(q[p])) /\ Cardinality(1..Len(q[p])) = Len(q[p])
  BY <1>2, FS_Interval
<1>4. IsFiniteSet({p}) /\ Cardinality({p}) = 1
  BY FS_Singleton
<1>5. /\ IsFiniteSet({p} \X (1..Len(q[p])))
      /\ Cardinality({p} \X (1..Len(q[p]))) = 1 * Len(q[p])
  BY <1>3, <1>4, FS_Product
<1>6. QED
  BY <1>2, <1>5 DEF PlacesIn

\* All the partitions together hold finitely many buffers.
LEMMA PlacesFinite ==
  ASSUME NEW q \in Queues
  PROVE  IsFiniteSet(Places(q)) /\ Held(q) \in Nat
<1> DEFINE F == [p \in Partitions |-> PlacesIn(q, p)]
           T == {PlacesIn(q, p) : p \in Partitions}
<1>1. IsFiniteSet(Partitions)
  <2>1. NumFilters - 1 \in Int
    BY PoolAssumption
  <2>2. QED
    BY <2>1, FS_Interval DEF Partitions
<1>2. F \in Surjection(Partitions, T)
  BY DEF Surjection
<1>3. IsFiniteSet(T)
  BY <1>1, <1>2, FS_Surjection
<1>4. \A S \in T : IsFiniteSet(S)
  BY PlacesInFinite
<1>5. IsFiniteSet(UNION T)
  BY <1>3, <1>4, FS_UNION
<1>6. UNION T = Places(q)
  BY DEF Places, PlacesIn
<1>7. QED
  BY <1>5, <1>6, FS_CardinalityType DEF Held

\* Replacing the queue of one partition changes the number of buffers held by
\* the difference of the lengths.
LEMMA HeldExcept ==
  ASSUME NEW q \in Queues, NEW p \in Partitions, NEW s \in Seq(Buffer)
  PROVE  /\ [q EXCEPT ![p] = s] \in Queues
         /\ Held([q EXCEPT ![p] = s]) = Held(q) - Len(q[p]) + Len(s)
<1> DEFINE r == [q EXCEPT ![p] = s]
           rest == UNION {PlacesIn(q, o) : o \in Partitions \ {p}}
<1>1. r \in Queues
  BY DEF Queues
<1>2. Places(q) = rest \cup PlacesIn(q, p)
  BY DEF Places, PlacesIn
<1>3. Places(r) = rest \cup PlacesIn(r, p)
  <2>1. \A o \in Partitions \ {p} : r[o] = q[o]
    BY DEF Queues
  <2>2. rest = UNION {PlacesIn(r, o) : o \in Partitions \ {p}}
    BY <2>1 DEF PlacesIn
  <2>3. Places(r) = UNION {PlacesIn(r, o) : o \in Partitions}
    BY DEF Places, PlacesIn
  <2>4. QED
    BY <2>2, <2>3
<1>4. rest \cap PlacesIn(q, p) = {} /\ rest \cap PlacesIn(r, p) = {}
  BY DEF PlacesIn
<1>5. IsFiniteSet(rest)
  <2>1. rest \in SUBSET Places(q)
    BY <1>2
  <2>2. QED
    BY <2>1, PlacesFinite, FS_Subset
<1>6. /\ IsFiniteSet(PlacesIn(q, p)) /\ Cardinality(PlacesIn(q, p)) = Len(q[p])
      /\ IsFiniteSet(PlacesIn(r, p)) /\ Cardinality(PlacesIn(r, p)) = Len(r[p])
  BY <1>1, PlacesInFinite
<1>7. r[p] = s /\ Len(s) \in Nat /\ Len(q[p]) \in Nat /\ Cardinality(rest) \in Nat
  BY <1>5, LenProperties, FS_CardinalityType DEF Queues
<1>8. Held(q) = Cardinality(rest) + Len(q[p])
  <2>1. Cardinality(rest \cup PlacesIn(q, p))
          = Cardinality(rest) + Cardinality(PlacesIn(q, p))
            - Cardinality(rest \cap PlacesIn(q, p))
    BY <1>5, <1>6, FS_Union
  <2>2. Cardinality(rest \cap PlacesIn(q, p)) = 0
    BY <1>4, FS_EmptySet
  <2>3. Held(q) = Cardinality(rest \cup PlacesIn(q, p))
    BY <1>2 DEF Held
  <2>4. QED
    BY <2>1, <2>2, <2>3, <1>6, <1>7
<1>9. Held(r) = Cardinality(rest) + Len(r[p])
  <2>1. Cardinality(rest \cup PlacesIn(r, p))
          = Cardinality(rest) + Cardinality(PlacesIn(r, p))
            - Cardinality(rest \cap PlacesIn(r, p))
    BY <1>5, <1>6, FS_Union
  <2>2. Cardinality(rest \cap PlacesIn(r, p)) = 0
    BY <1>4, FS_EmptySet
  <2>3. Held(r) = Cardinality(rest \cup PlacesIn(r, p))
    BY <1>3 DEF Held
  <2>4. QED
    BY <2>1, <2>2, <2>3, <1>6, <1>7
<1>10. QED
  BY <1>1, <1>8, <1>9, <1>7

\* No partition holds more than all of them.
LEMMA LenHeld ==
  ASSUME NEW q \in Queues, NEW p \in Partitions
  PROVE  Len(q[p]) \in 0..Held(q)
<1>1. PlacesIn(q, p) \in SUBSET Places(q)
  BY DEF Places, PlacesIn
<1>2. Cardinality(PlacesIn(q, p)) <= Cardinality(Places(q))
  BY <1>1, PlacesFinite, FS_Subset
<1>3. q[p] \in Seq(Buffer)
  BY DEF Queues
<1>4. QED
  BY <1>2, <1>3, PlacesInFinite, PlacesFinite, LenProperties DEF Held

\* Empty partitions hold nothing.
LEMMA HeldEmpty == Empty \in Queues /\ Held(Empty) = 0
<1>1. Empty \in Queues
  BY EmptySeq DEF Empty, Queues
<1>2. \A p \in Partitions : Empty[p] = <<>>
  BY DEF Empty
<1>3. \A p \in Partitions : 1..Len(Empty[p]) = {}
  BY <1>2, EmptySeq
<1>4. Places(Empty) = {}
  BY <1>3 DEF Places
<1>5. QED
  BY <1>1, <1>4, FS_EmptySet DEF Held

-----------------------------------------------------------------------------
(***************************************************************************)
(* The invariant of the pool, and the edits that preserve it.              *)
(***************************************************************************)
PoolInv == PoolTypeOK /\ BuffersConserved /\ ReservationBacked

\* What the invariant says about the length of a queue.
LEMMA PoolBounds ==
  ASSUME PoolInv
  PROVE  /\ part \in Queues
         /\ free \in 0..NumBuffers /\ reserved \in 0..free
         /\ Held(part) = NumBuffers - free
         /\ \A p \in Partitions : part[p] \in Seq(Buffer) /\ Len(part[p]) \in 0..NumBuffers
<1>1. part \in Queues /\ free \in Nat /\ reserved \in Nat
  BY DEF PoolInv, PoolTypeOK, Queues
<1>2. NumBuffers \in Nat /\ Held(part) \in Nat
  BY <1>1, PlacesFinite, PoolAssumption
<1>3. free + Held(part) = NumBuffers /\ reserved <= free
  BY DEF PoolInv, BuffersConserved, ReservationBacked
<1>4. \A p \in Partitions : Len(part[p]) \in 0..Held(part)
  BY <1>1, LenHeld
<1>5. \A p \in Partitions : part[p] \in Seq(Buffer)
  BY <1>1 DEF Queues
<1>6. QED
  BY <1>1, <1>2, <1>3, <1>4, <1>5

\* Replacing one queue is harmless when the counters follow its length.
LEMMA PoolEdit ==
  ASSUME PoolInv, NEW p \in Partitions, NEW s \in Seq(Buffer),
         part' = [part EXCEPT ![p] = s],
         free' = free + Len(part[p]) - Len(s),
         reserved' \in Nat, reserved' <= free'
  PROVE  PoolInv'
<1>1. part \in Queues /\ free \in Nat /\ Len(part[p]) \in Nat /\ Len(s) \in Nat
  BY PoolBounds, LenProperties
<1>2. part' \in Queues /\ Held(part') = Held(part) - Len(part[p]) + Len(s)
  BY <1>1, HeldExcept
<1>3. Held(part) \in Nat /\ free + Held(part) = NumBuffers
  BY <1>1, PlacesFinite DEF PoolInv, BuffersConserved
<1>4. free' + Held(part') = NumBuffers
  BY <1>1, <1>2, <1>3
<1>5. free' \in Nat
  BY <1>1
<1>6. QED
  BY <1>2, <1>4, <1>5 DEF PoolInv, PoolTypeOK, BuffersConserved, ReservationBacked, Queues, Held

LEMMA InitPoolInv == InitPool => PoolInv
<1>1. NumBuffers \in Nat
  BY PoolAssumption
<1>2. QED
  BY <1>1, HeldEmpty
     DEF InitPool, PoolInv, PoolTypeOK, BuffersConserved, ReservationBacked, Queues

LEMMA ResetPoolInv == ResetPool => PoolInv'
<1>1. NumBuffers \in Nat
  BY PoolAssumption
<1>2. QED
  BY <1>1, HeldEmpty
     DEF ResetPool, PoolInv, PoolTypeOK, BuffersConserved, ReservationBacked, Queues, Held

LEMMA ReserveInv ==
  ASSUME PoolInv, NEW n \in Nat, CanReserve(n), ReserveBuffers(n), UNCHANGED <<part, free>>
  PROVE  PoolInv'
BY DEF PoolInv, PoolTypeOK, BuffersConserved, ReservationBacked, CanReserve, ReserveBuffers,
       Held, Places

\* A sector is stored in an unreserved buffer.
LEMMA InsertHeadInv ==
  ASSUME PoolInv, NEW p \in Partitions, NEW s \in Buffer,
         GetFreeBufferCount # 0, InsertHead(p, s)
  PROVE  PoolInv'
<1>1. part[p] \in Seq(Buffer) /\ Len(part[p]) \in Nat /\ free \in Nat /\ reserved \in 0..free
  BY PoolBounds, LenProperties
<1>2. Append(part[p], s) \in Seq(Buffer) /\ Len(Append(part[p], s)) = Len(part[p]) + 1
  BY <1>1, AppendProperties
<1>3. part' = [part EXCEPT ![p] = Append(part[p], s)]
  BY DEF InsertHead
<1>4. free' = free + Len(part[p]) - Len(Append(part[p], s)) /\ reserved' = reserved
  BY <1>1, <1>2 DEF InsertHead
<1>5. reserved' \in Nat /\ reserved' <= free'
  BY <1>1, <1>2, <1>4 DEF GetFreeBufferCount
<1>6. QED
  BY <1>2, <1>3, <1>4, <1>5, PoolEdit

\* The sectors of a put transfer are stored in the buffers reserved for them.
LEMMA InsertReservedInv ==
  ASSUME PoolInv, NEW p \in Partitions, NEW batch \in Seq(Buffer),
         CanUseReserved(Len(batch)), InsertReserved(p, batch)
  PROVE  PoolInv'
<1>1. /\ part[p] \in Seq(Buffer) /\ Len(part[p]) \in Nat /\ Len(batch) \in Nat
      /\ free \in Nat /\ reserved \in 0..free
  BY PoolBounds, LenProperties
<1>2. part[p] \o batch \in Seq(Buffer) /\ Len(part[p] \o batch) = Len(part[p]) + Len(batch)
  BY <1>1, ConcatProperties
<1>3. part' = [part EXCEPT ![p] = part[p] \o batch]
  BY DEF InsertReserved
<1>4. /\ free' = free + Len(part[p]) - Len(part[p] \o batch)
      /\ reserved' = reserved - Len(batch)
  BY <1>1, <1>2 DEF InsertReserved
<1>5. reserved' \in Nat /\ reserved' <= free'
  BY <1>1, <1>2, <1>4 DEF CanUseReserved
<1>6. QED
  BY <1>2, <1>3, <1>4, <1>5, PoolEdit

LEMMA ClearPartitionInv ==
  ASSUME PoolInv, NEW p \in Partitions, ClearPartition(p)
  PROVE  PoolInv'
<1>1. /\ Len(part[p]) \in Nat /\ free \in Nat /\ reserved \in 0..free
      /\ <<>> \in Seq(Buffer) /\ Len(<<>>) = 0
  BY PoolBounds, EmptySeq
<1>2. /\ part' = [part EXCEPT ![p] = <<>>]
      /\ free' = free + Len(part[p]) - Len(<<>>) /\ reserved' = reserved
  BY <1>1 DEF ClearPartition
<1>3. reserved' \in Nat /\ reserved' <= free'
  BY <1>1, <1>2
<1>4. QED
  BY <1>1, <1>2, <1>3, PoolEdit

\* 16-bit arithmetic changes nothing below 65536.
LEMMA Fits == ASSUME NEW n \in Int, 0 <= n, n < 65536 PROVE n % 65536 = n
OBVIOUS

\* The last sector of a partition that is not empty, as DeleteSectors finds it.
LEMMA LastSectorOf ==
  ASSUME PoolInv, NEW p \in Partitions, Len(part[p]) # 0
  PROVE  LastSector(p) \in Nat /\ LastSector(p) < 254 /\ LastSector(p) = Len(part[p]) - 1
<1>1. NumBuffers \in Nat /\ NumBuffers <= 254
  BY PoolAssumption
<1>2. Len(part[p]) \in 0..NumBuffers
  BY PoolBounds
<1>3. Len(part[p]) \in Nat /\ 1 <= Len(part[p]) /\ Len(part[p]) <= 254
  BY <1>1, <1>2
<1> DEFINE n == Len(part[p])
<1>4. LastSector(p) = (n - 1) % 65536
  BY DEF LastSector
<1> HIDE DEF n
<1>5. n \in Nat /\ 1 <= n /\ n <= 254
  BY <1>3 DEF n
<1>6. (n - 1) % 65536 = n - 1 /\ n - 1 \in Nat /\ n - 1 < 254
  <2>1. n - 1 \in Int /\ 0 <= n - 1 /\ n - 1 < 65536 /\ n - 1 \in Nat /\ n - 1 < 254
    BY <1>5
  <2>2. QED
    BY <2>1, Fits
<1>7. LastSector(p) = n - 1 /\ LastSector(p) \in Nat /\ LastSector(p) < 254
  BY <1>4, <1>6
<1>8. LastSector(p) = Len(part[p]) - 1
  BY <1>7 DEF n
<1>9. QED
  BY <1>7, <1>8

\* The range DeleteSectors erases lies inside a partition that is not empty: for
\* every position and count a command can pass, no end wraps around.
LEMMA DeleteRange ==
  ASSUME PoolInv, NEW p \in Partitions, Len(part[p]) # 0,
         NEW pos \in 0..NumBuffers \cup {Wild}, NEW count \in 1..NumBuffers \cup {Wild}
  PROVE  /\ DeleteStart(p, pos) \in 0..(Len(part[p]) - 1)
         /\ DeleteEnd(p, pos, count) \in DeleteStart(p, pos)..(Len(part[p]) - 1)
<1> DEFINE top == LastSector(p)
           start == IF pos = Wild THEN top ELSE pos
           end == start + count - 1
<1>1. top \in Nat /\ top < 254 /\ top = Len(part[p]) - 1
  BY LastSectorOf
<1>2. NumBuffers \in Nat /\ NumBuffers < 255
  BY PoolAssumption
<1>3. pos \in Nat /\ (pos # Wild => pos < 255) /\ (pos = Wild => pos = 65535)
  BY <1>2 DEF Wild
<1>4. count # Wild => count \in Nat /\ count < 255 /\ 1 <= count
  BY <1>2
<1>5. DeleteStart(p, pos) = IF pos < top THEN pos ELSE top
  BY DEF DeleteStart, Clamp
<1>6. count = Wild => DeleteEnd(p, pos, count) = top
  BY DEF DeleteEnd
<1>7. count # Wild => DeleteEnd(p, pos, count) = Clamp(end % 65536, p)
  BY DEF DeleteEnd
<1>8. start \in Nat /\ start < 255 /\ (pos # Wild => start = pos) /\ (pos = Wild => start = top)
  BY <1>1, <1>3
<1> HIDE DEF top, start
<1>9. count # Wild => end % 65536 = end
  <2>1. count # Wild => end \in Int /\ 0 <= end /\ end < 65536
    BY <1>4, <1>8
  <2>2. QED
    BY <2>1, Fits
<1>10. count # Wild => DeleteEnd(p, pos, count) = IF end < top THEN end ELSE top
  BY <1>7, <1>9 DEF Clamp, top
<1>11. DeleteStart(p, pos) \in 0..top
  BY <1>1, <1>3, <1>5
<1>12. CASE count = Wild
  BY <1>1, <1>6, <1>11, <1>12
<1>13. CASE count # Wild
  <2>1. start <= end /\ end \in Nat
    BY <1>4, <1>8, <1>13
  <2>2. DeleteStart(p, pos) = IF start < top THEN start ELSE top
    BY <1>1, <1>3, <1>5, <1>8
  <2> HIDE DEF end
  <2>3. DeleteEnd(p, pos, count) \in DeleteStart(p, pos)..top
    BY <1>1, <1>8, <1>10, <1>13, <2>1, <2>2
  <2>4. QED
    BY <1>1, <1>11, <2>3
<1>14. QED
  BY <1>12, <1>13

\* What DeleteSectors leaves of a queue.
LEMMA WithoutLen ==
  ASSUME NEW q \in Seq(Buffer), NEW first \in 0..(Len(q) - 1), NEW last \in first..(Len(q) - 1)
  PROVE  /\ Without(q, first, last) \in Seq(Buffer)
         /\ Len(Without(q, first, last)) = Len(q) - (last - first + 1)
<1>1. Len(q) \in Nat /\ \A i \in 1..Len(q) : q[i] \in Buffer
  BY LenProperties, ElementOfSeq
<1>2. SubSeq(q, 1, first) \in Seq(Buffer) /\ Len(SubSeq(q, 1, first)) = first
  <2>1. \A i \in 1..first : q[i] \in Buffer
    BY <1>1
  <2>2. /\ SubSeq(q, 1, first) \in Seq(Buffer)
        /\ Len(SubSeq(q, 1, first)) = IF 1 <= first THEN first - 1 + 1 ELSE 0
    BY <1>1, <2>1, SubSeqProperties
  <2>3. QED
    BY <1>1, <2>2
<1>3. /\ SubSeq(q, last + 2, Len(q)) \in Seq(Buffer)
      /\ Len(SubSeq(q, last + 2, Len(q))) = Len(q) - last - 1
  <2>1. \A i \in (last + 2)..Len(q) : q[i] \in Buffer
    BY <1>1
  <2>2. /\ SubSeq(q, last + 2, Len(q)) \in Seq(Buffer)
        /\ Len(SubSeq(q, last + 2, Len(q))) =
             IF last + 2 <= Len(q) THEN Len(q) - (last + 2) + 1 ELSE 0
    BY <1>1, <2>1, SubSeqProperties
  <2>3. QED
    BY <1>1, <2>2
<1> DEFINE head == SubSeq(q, 1, first)
           tail == SubSeq(q, last + 2, Len(q))
<1>4. head \o tail \in Seq(Buffer) /\ Len(head \o tail) = Len(head) + Len(tail)
  BY <1>2, <1>3, ConcatProperties
<1>5. Len(head) + Len(tail) = Len(q) - (last - first + 1)
  <2>1. Len(head) = first /\ Len(tail) = Len(q) - last - 1
    BY <1>2, <1>3
  <2> DEFINE h == Len(head)
             t == Len(tail)
  <2> HIDE DEF h, t
  <2>2. h = first /\ t = Len(q) - last - 1
    BY <2>1 DEF h, t
  <2>3. h + t = Len(q) - (last - first + 1)
    BY <1>1, <2>2
  <2>4. QED
    BY <2>3 DEF h, t
<1>6. QED
  BY <1>4, <1>5 DEF Without

LEMMA DeleteSectorsInv ==
  ASSUME PoolInv, NEW p \in Partitions, Len(part[p]) # 0,
         NEW pos \in 0..NumBuffers \cup {Wild}, NEW count \in 1..NumBuffers \cup {Wild},
         DeleteSectors(p, pos, count)
  PROVE  PoolInv'
<1> DEFINE first == DeleteStart(p, pos)
           last  == DeleteEnd(p, pos, count)
           rest  == Without(part[p], first, last)
<1>1. /\ part[p] \in Seq(Buffer) /\ Len(part[p]) \in Nat
      /\ free \in Nat /\ reserved \in 0..free
  BY PoolBounds
<1>2. first \in 0..(Len(part[p]) - 1) /\ last \in first..(Len(part[p]) - 1)
  BY DeleteRange
<1>3. rest \in Seq(Buffer) /\ Len(rest) = Len(part[p]) - (last - first + 1)
  BY <1>1, <1>2, WithoutLen
<1>4. /\ part' = [part EXCEPT ![p] = rest]
      /\ free' = free + (last - first + 1) /\ reserved' = reserved
  <2>1. part[p] # <<>>
    BY EmptySeq
  <2>2. QED
    BY <2>1 DEF DeleteSectors
<1>5. free' = free + Len(part[p]) - Len(rest)
  BY <1>1, <1>2, <1>3, <1>4
<1>6. reserved' \in Nat /\ reserved' <= free'
  BY <1>1, <1>2, <1>4
<1>7. QED
  BY <1>3, <1>4, <1>5, <1>6, PoolEdit

\* Loading a state that ValidateState accepts gives a sound pool.
LEMMA LoadPoolInv ==
  ASSUME NEW q \in Queues, NEW r \in Nat, ValidPool(q, r), LoadPool(q, r)
  PROVE  PoolInv'
<1>1. Held(q) \in Nat /\ NumBuffers \in Nat
  BY PlacesFinite, PoolAssumption
<1>2. part' = q /\ free' = NumBuffers - Held(q) /\ reserved' = r /\ r + Held(q) <= NumBuffers
  BY DEF LoadPool, ValidPool
<1>3. free' \in Nat /\ free' + Held(part') = NumBuffers /\ reserved' <= free'
  BY <1>1, <1>2
<1>4. QED
  BY <1>2, <1>3 DEF PoolInv, PoolTypeOK, BuffersConserved, ReservationBacked, Queues, Held

-----------------------------------------------------------------------------
(***************************************************************************)
(* The selector: what every command on filters preserves.                  *)
(***************************************************************************)
SelectorInv == SelectorTypeOK /\ FailInputsUnique

LEMMA FilterNumbers == Filters \subseteq Int /\ Disconnected \notin Filters
BY PoolAssumption DEF Filters, Partitions, Disconnected

\* The filters as they are after a reset.
LEMMA NewFilters ==
  /\ OwnPartition \in [Filters -> Outputs]
  /\ NoFailOutput \in [Filters -> Outputs]
  /\ AcceptAll \in [Filters -> SUBSET Fads]
  /\ Disconnected \in Outputs
BY DEF OwnPartition, NoFailOutput, AcceptAll, Outputs

LEMMA InitSelectorInv == InitSelector => SelectorInv
<1> SUFFICES ASSUME InitSelector PROVE SelectorInv
  OBVIOUS
<1>1. SelectorTypeOK
  BY NewFilters DEF InitSelector, SelectorTypeOK
<1>2. FailInputsUnique
  BY DEF InitSelector, FailInputsUnique, NoFailOutput
<1>3. QED
  BY <1>1, <1>2 DEF SelectorInv

LEMMA ResetFiltersInv == ResetFilters => SelectorInv'
<1> SUFFICES ASSUME ResetFilters PROVE SelectorInv'
  OBVIOUS
<1>1. SelectorTypeOK'
  BY NewFilters DEF ResetFilters, SelectorTypeOK
<1>2. FailInputsUnique'
  BY DEF ResetFilters, FailInputsUnique, NoFailOutput
<1>3. QED
  BY <1>1, <1>2 DEF SelectorInv

\* Where an input has one fail output at most, DisconnectFilterInput, which stops
\* at the first it finds, leaves it with none, and the others as they were.
LEMMA FreedInputFrees ==
  ASSUME SelectorInv, NEW c \in Outputs
  PROVE  /\ FreedInput(c) \in [Filters -> Outputs]
         /\ \A g \in Filters : FreedInput(c)[g] \in {failOut[g], Disconnected}
         /\ c # Disconnected => \A g \in Filters : FreedInput(c)[g] # c
<1>1. failOut \in [Filters -> Outputs]
  BY DEF SelectorInv, SelectorTypeOK
<1>2. \A g \in Filters : FreedInput(c)[g] \in {failOut[g], Disconnected}
  BY DEF FreedInput
<1>3. FreedInput(c) \in [Filters -> Outputs]
  BY <1>1 DEF FreedInput, Outputs
<1>4. ASSUME c # Disconnected, NEW g \in Filters PROVE FreedInput(c)[g] # c
  <2>1. CASE failOut[g] # c
    BY <1>2, <1>4, <2>1
  <2>2. CASE failOut[g] = c
    <3>1. \A h \in FailInputs(c) : h = g
      BY <1>4, <2>2 DEF FailInputs, SelectorInv, FailInputsUnique
    <3>2. g \in FailInputs(c) /\ \A h \in FailInputs(c) : g <= h
      BY <1>4, <2>2, <3>1, FilterNumbers DEF FailInputs
    <3>3. FreedInput(c)[g] = Disconnected
      BY <1>4, <3>2 DEF FreedInput
    <3>4. QED
      BY <1>4, <3>3
  <2>3. QED
    BY <2>1, <2>2
<1>5. QED
  BY <1>2, <1>3, <1>4

\* Cutting connections gives no input a second one.
LEMMA CutKeepsUnique ==
  ASSUME SelectorInv, \A g \in Filters : failOut'[g] \in {failOut[g], Disconnected}
  PROVE  FailInputsUnique'
BY DEF SelectorInv, FailInputsUnique

LEMMA ConnectCDDeviceInv ==
  ASSUME SelectorInv, NEW c \in Outputs, ConnectCDDevice(c), UNCHANGED <<passOut, accept, lastDest>>
  PROVE  SelectorInv'
<1>1. failOut' \in [Filters -> Outputs] /\ \A g \in Filters : failOut'[g] \in {failOut[g], Disconnected}
  BY FreedInputFrees DEF ConnectCDDevice, SelectorInv, SelectorTypeOK
<1>2. SelectorTypeOK'
  BY <1>1 DEF SelectorInv, SelectorTypeOK, ConnectCDDevice
<1>3. QED
  BY <1>1, <1>2, CutKeepsUnique DEF SelectorInv

LEMMA DetachInputInv ==
  ASSUME SelectorInv, NEW f \in Filters, DetachInput(f), UNCHANGED <<passOut, accept, lastDest>>
  PROVE  SelectorInv'
<1>1. f \in Outputs
  BY DEF Outputs
<1>2. failOut' \in [Filters -> Outputs] /\ \A g \in Filters : failOut'[g] \in {failOut[g], Disconnected}
  BY <1>1, FreedInputFrees DEF DetachInput
<1>3. SelectorTypeOK'
  BY <1>2, NewFilters DEF SelectorInv, SelectorTypeOK, DetachInput
<1>4. QED
  BY <1>2, <1>3, CutKeepsUnique DEF SelectorInv

LEMMA SetFilterConnectionInv ==
  ASSUME SelectorInv, NEW f \in Filters, NEW pass \in Outputs, NEW fail \in Outputs,
         NEW setPass \in BOOLEAN, NEW setFail \in BOOLEAN,
         SetFilterConnection(f, pass, fail, setPass, setFail)
  PROVE  SelectorInv'
<1>1. CASE ~setFail
  <2>1. failOut' = failOut
    BY <1>1 DEF SetFilterConnection
  <2>2. QED
    BY <2>1 DEF SetFilterConnection, SelectorInv, SelectorTypeOK, FailInputsUnique
<1>2. CASE setFail
  <2>1. failOut' = [FreedInput(fail) EXCEPT ![f] = fail]
    BY <1>2 DEF SetFilterConnection
  <2>2. /\ failOut' \in [Filters -> Outputs] /\ failOut'[f] = fail
        /\ \A g \in Filters \ {f} : failOut'[g] = FreedInput(fail)[g]
    BY <2>1, FreedInputFrees
  <2>3. \A g \in Filters \ {f} : /\ failOut'[g] \in {failOut[g], Disconnected}
                                 /\ fail # Disconnected => failOut'[g] # fail
    BY <2>2, FreedInputFrees
  <2>4. FailInputsUnique'
    <3> SUFFICES ASSUME NEW g \in Filters, NEW h \in Filters,
                        failOut'[g] = failOut'[h], failOut'[g] # Disconnected
                 PROVE  g = h
      BY DEF FailInputsUnique
    <3>1. CASE g # f /\ h # f
      BY <3>1, <2>3 DEF SelectorInv, FailInputsUnique
    <3>2. CASE g = f \/ h = f
      BY <3>2, <2>2, <2>3
    <3>3. QED
      BY <3>1, <3>2
  <2>5. SelectorTypeOK'
    BY <2>2 DEF SelectorInv, SelectorTypeOK, SetFilterConnection
  <2>6. QED
    BY <2>4, <2>5 DEF SelectorInv
<1>3. QED
  BY <1>1, <1>2

LEMMA SetFilterConditionsInv ==
  ASSUME SelectorInv, NEW f \in Filters, NEW c \in SUBSET Fads, SetFilterConditions(f, c)
  PROVE  SelectorInv'
BY DEF SetFilterConditions, wires, SelectorInv, SelectorTypeOK, FailInputsUnique

LEMMA ResetFilterPartsInv ==
  ASSUME SelectorInv, NEW conditions \in BOOLEAN, NEW inputs \in BOOLEAN,
         NEW passes \in BOOLEAN, NEW fails \in BOOLEAN,
         ResetFilterParts(conditions, inputs, passes, fails)
  PROVE  SelectorInv'
<1>1. SelectorTypeOK'
  BY NewFilters DEF ResetFilterParts, SelectorInv, SelectorTypeOK
<1>2. FailInputsUnique'
  <2>1. failOut' \in {failOut, NoFailOutput}
    BY DEF ResetFilterParts
  <2>2. \A g \in Filters : failOut'[g] \in {failOut[g], Disconnected}
    BY <2>1 DEF NoFailOutput
  <2>3. QED
    BY <2>2, CutKeepsUnique
<1>3. QED
  BY <1>1, <1>2 DEF SelectorInv

LEMMA RewireInv == ASSUME SelectorInv, Rewire PROVE SelectorInv'
<1>1. CASE \E c \in CDConnectors : SetCDDeviceConnection(c)
  BY <1>1, ConnectCDDeviceInv, SelectorAssumption DEF SetCDDeviceConnection
<1>2. CASE \E f \in Filters, pass, fail \in FilterConnectors, setPass, setFail \in BOOLEAN :
             SetFilterConnection(f, pass, fail, setPass, setFail)
  BY <1>2, SetFilterConnectionInv, SelectorAssumption
<1>3. CASE \E f \in Filters, c \in Conditions : SetFilterConditions(f, c)
  BY <1>3, SetFilterConditionsInv, SelectorAssumption
<1>4. QED
  BY <1>1, <1>2, <1>3 DEF Rewire

\* A sector on its way through the filters touches none of them.
LEMMA RouteInv ==
  ASSUME SelectorInv, NEW fad \in Fads, NEW s \in Buffer, Route(fad, s), UNCHANGED <<wires, accept>>
  PROVE  SelectorInv'
<1>1. lastDest' \in Outputs
  BY DEF Route, Outputs, Filters, SelectorInv, SelectorTypeOK
<1>2. QED
  BY <1>1 DEF wires, SelectorInv, SelectorTypeOK, FailInputsUnique

LEMMA SelectorStep == ASSUME SelectorInv, SelectorNext PROVE SelectorInv'
<1>1. CASE Rewire
  BY <1>1, RewireInv
<1>2. CASE ResetParts
  BY <1>2, ResetFilterPartsInv DEF ResetParts
<1>3. CASE Detach
  BY <1>3, DetachInputInv DEF Detach
<1>4. CASE ResetFilters
  BY <1>4, ResetFiltersInv
<1>5. CASE StoreSector
  <2>1. PICK fad \in Fads : Route(fad, [fad |-> fad, data |-> fad, host |-> 0])
                            /\ UNCHANGED <<wires, accept>>
    BY <1>5 DEF StoreSector
  <2>2. [fad |-> fad, data |-> fad, host |-> 0] \in Buffer
    BY PoolAssumption DEF Buffer, Fads
  <2>3. QED
    BY <2>1, <2>2, RouteInv
<1>6. CASE \E p \in Partitions : ClearPartition(p) /\ UNCHANGED selectorVars
  BY <1>6 DEF selectorVars, SelectorInv, SelectorTypeOK, FailInputsUnique
<1>7. QED
  BY <1>1, <1>2, <1>3, <1>4, <1>5, <1>6 DEF SelectorNext

LEMMA SelectorStepOrStutter ==
  ASSUME SelectorInv, [SelectorNext]_<<poolVars, selectorVars>>
  PROVE  SelectorInv'
<1>1. CASE SelectorNext
  BY <1>1, SelectorStep
<1>2. CASE UNCHANGED <<poolVars, selectorVars>>
  BY <1>2 DEF selectorVars, SelectorInv, SelectorTypeOK, FailInputsUnique
<1>3. QED
  BY <1>1, <1>2

\* However the host connects the filters, DisconnectFilterInput never meets two
\* fail outputs on one input, and stopping at the first one is enough.
THEOREM SelectorKeepsInputsUnique == SelectorSpec => []FailInputsUnique
<1>1. SelectorInit => SelectorInv
  BY InitSelectorInv DEF SelectorInit
<1>2. SelectorInv /\ [SelectorNext]_<<poolVars, selectorVars>> => SelectorInv'
  BY SelectorStepOrStutter
<1>3. SelectorInv => FailInputsUnique
  BY DEF SelectorInv
<1>4. QED
  BY <1>1, <1>2, <1>3, PTL DEF SelectorSpec, SelectorInit

-----------------------------------------------------------------------------
(***************************************************************************)
(* Routing.                                                                *)
(***************************************************************************)

\* The loop's rounds are the iteration of NextHop from the drive's connection.
LEMMA HopsIterate ==
  ASSUME SelectorTypeOK, NEW fad \in Fads
  PROVE  /\ Hops(fad) \in [0..NumFilters -> Outputs]
         /\ Hops(fad)[0] = cdConn
         /\ \A i \in 1..NumFilters : Hops(fad)[i] = NextHop(Hops(fad)[i - 1], fad)
<1> DEFINE step == [f \in Outputs |-> NextHop(f, fad)]
           Is(h) == h = [i \in 0..NumFilters |-> IF i = 0 THEN cdConn ELSE NextHop(h[i - 1], fad)]
<1>1. NumFilters \in Nat /\ cdConn \in Outputs
  BY PoolAssumption DEF SelectorTypeOK
<1>2. step \in [Outputs -> Outputs]
  BY DEF NextHop, SelectorTypeOK, Outputs
<1>3. PICK h \in [0..NumFilters -> Outputs] :
        h[0] = cdConn /\ \A i \in 1..NumFilters : h[i] = step[h[i - 1]]
  <2> HIDE DEF step
  <2>1. \E h : Iterates(h, step, cdConn, NumFilters, Outputs)
    BY <1>1, <1>2, Iteration
  <2>2. QED
    BY <2>1 DEF Iterates
<1>4. \A i \in 1..NumFilters : h[i - 1] \in Outputs /\ h[i] = NextHop(h[i - 1], fad)
  <2> SUFFICES ASSUME NEW i \in 1..NumFilters
               PROVE  h[i - 1] \in Outputs /\ h[i] = NextHop(h[i - 1], fad)
    OBVIOUS
  <2>1. i - 1 \in 0..NumFilters
    BY <1>1
  <2>2. h[i - 1] \in Outputs
    BY <1>3, <2>1
  <2>3. h[i] = step[h[i - 1]]
    BY <1>3
  <2>4. QED
    BY <2>2, <2>3
<1>5. Is(h)
  <2>1. \A i \in 0..NumFilters : h[i] = IF i = 0 THEN cdConn ELSE NextHop(h[i - 1], fad)
    BY <1>1, <1>3, <1>4
  <2>2. QED
    BY <1>3, <2>1
<1>6. Hops(fad) = CHOOSE g : Is(g)
  BY DEF Hops
<1> DEFINE c == CHOOSE g : Is(g)
<1>7. Is(c)
  BY <1>5
<1> HIDE DEF c
<1>8. \A i \in 0..NumFilters : c[i] = IF i = 0 THEN cdConn ELSE NextHop(c[i - 1], fad)
  BY <1>7
<1> HIDE DEF Is
<1>9. \A i \in 0..NumFilters : c[i] = h[i]
  <2> DEFINE S == {i \in 0..NumFilters : c[i] = h[i]}
  <2>1. 0 \in S
    BY <1>1, <1>3, <1>8
  <2>2. ASSUME NEW n \in 0..(NumFilters - 1), n \in S PROVE n + 1 \in S
    BY <1>1, <1>4, <1>8, <2>2
  <2>3. 0..NumFilters \subseteq S
    <3> HIDE DEF S
    <3>1. QED
      BY <1>1, <2>1, <2>2, SetInduction
  <2>4. QED
    BY <2>3
<1>10. DOMAIN c = 0..NumFilters /\ c = [i \in 0..NumFilters |-> c[i]]
  BY <1>7 DEF Is
<1>11. c = h
  BY <1>3, <1>9, <1>10
<1>12. QED
  BY <1>3, <1>4, <1>6, <1>11 DEF c

\* The filter at which round i of the loop finds the sector accepts it.
Accepted(i, fad) == Hops(fad)[i] \in Filters /\ fad \in accept[Hops(fad)[i]]

\* Once accepted, the sector stays where it is.
LEMMA AcceptedStays ==
  ASSUME SelectorTypeOK, NEW fad \in Fads, NEW m \in 0..NumFilters, Accepted(m, fad)
  PROVE  \A i \in m..NumFilters : Hops(fad)[i] = Hops(fad)[m]
<1> DEFINE S == {n \in 0..(NumFilters - m) : Hops(fad)[m + n] = Hops(fad)[m]}
<1>1. NumFilters - m \in Nat /\ NumFilters \in Nat
  BY PoolAssumption
<1>2. 0 \in S
  BY <1>1
<1>3. ASSUME NEW n \in 0..(NumFilters - m - 1), n \in S PROVE n + 1 \in S
  <2>1. m + n + 1 \in 1..NumFilters /\ (m + n + 1) - 1 = m + n
    BY <1>1
  <2>2. Hops(fad)[m + n + 1] = NextHop(Hops(fad)[m + n], fad)
    BY <2>1, HopsIterate
  <2>3. Hops(fad)[m + n + 1] = Hops(fad)[m]
    BY <1>3, <2>2 DEF Accepted, NextHop
  <2>4. QED
    BY <1>1, <2>3
<1>4. 0..(NumFilters - m) \subseteq S
  <2> HIDE DEF S
  <2>1. QED
    BY <1>1, <1>2, <1>3, SetInduction
<1>5. ASSUME NEW i \in m..NumFilters PROVE Hops(fad)[i] = Hops(fad)[m]
  <2>1. i - m \in S /\ m + (i - m) = i
    BY <1>1, <1>4
  <2>2. QED
    BY <2>1
<1>6. QED
  BY <1>5

\* A path from the drive is where the loop goes.
LEMMA PathsAreHops ==
  ASSUME SelectorTypeOK, NEW fad \in Fads, NEW q \in Visits(fad)
  PROVE  /\ Len(q) \in 1..NumFilters
         /\ \A i \in 1..Len(q) : q[i] \in Filters /\ q[i] = Hops(fad)[i - 1]
<1>1. PICK n \in 1..NumFilters : q \in [1..n -> Filters]
  BY DEF Visits
<1>2. n \in Nat /\ NumFilters \in Nat /\ 1 <= n /\ n <= NumFilters
  BY <1>1, PoolAssumption
<1>3. q \in Seq(Filters) /\ Len(q) = n
  BY <1>1, <1>2, SeqDef, LenProperties
<1>4. q[1] = cdConn /\ \A i \in 1..(n - 1) : fad \notin accept[q[i]] /\ failOut[q[i]] = q[i + 1]
  BY <1>3 DEF Visits
<1> DEFINE S == {i \in 0..(n - 1) : q[i + 1] = Hops(fad)[i]}
<1>5. 0 \in S
  BY <1>2, <1>4, HopsIterate
<1>6. ASSUME NEW i \in 0..(n - 1 - 1), i \in S PROVE i + 1 \in S
  <2>1. i + 1 \in 1..(n - 1) /\ i + 1 \in 1..NumFilters /\ (i + 1) - 1 = i /\ i + 1 \in 1..n
    BY <1>2
  <2>2. Hops(fad)[i + 1] = NextHop(q[i + 1], fad)
    BY <1>6, <2>1, HopsIterate
  <2>3. q[i + 1] \in Filters /\ q[i + 1] # Disconnected
    BY <1>1, <2>1, FilterNumbers
  <2>4. Hops(fad)[i + 1] = q[(i + 1) + 1]
    BY <1>4, <2>1, <2>2, <2>3 DEF NextHop
  <2>5. QED
    BY <1>2, <2>4
<1>7. 0..(n - 1) \subseteq S
  <2> HIDE DEF S
  <2>1. n - 1 \in Nat
    BY <1>2
  <2>2. QED
    BY <2>1, <1>5, <1>6, SetInduction
<1>8. ASSUME NEW i \in 1..n PROVE q[i] \in Filters /\ q[i] = Hops(fad)[i - 1]
  <2>1. i - 1 \in S /\ (i - 1) + 1 = i
    BY <1>2, <1>7
  <2>2. QED
    BY <1>1, <2>1
<1>9. QED
  BY <1>2, <1>3, <1>8

\* Until it is accepted the sector meets no filter twice: a cycle would never
\* have led to the filter that accepts it.
LEMMA NoFilterTwice ==
  ASSUME SelectorTypeOK, NEW fad \in Fads, NEW m \in 0..NumFilters, Accepted(m, fad),
         \A i \in 0..(m - 1) : ~Accepted(i, fad),
         NEW i \in 0..m, NEW j \in 0..m, i < j
  PROVE  Hops(fad)[i] # Hops(fad)[j]
<1> SUFFICES ASSUME Hops(fad)[i] = Hops(fad)[j] PROVE FALSE
  OBVIOUS
<1> DEFINE S == {k \in 0..(m - j) : Hops(fad)[i + k] = Hops(fad)[j + k]}
<1>1. NumFilters \in Nat /\ m - j \in Nat /\ m \in Nat
  BY PoolAssumption
<1>2. 0 \in S
  BY <1>1
<1>3. ASSUME NEW k \in 0..(m - j - 1), k \in S PROVE k + 1 \in S
  <2>1. /\ i + k + 1 \in 1..NumFilters /\ (i + k + 1) - 1 = i + k
        /\ j + k + 1 \in 1..NumFilters /\ (j + k + 1) - 1 = j + k
    BY <1>1
  <2>2. /\ Hops(fad)[i + k + 1] = NextHop(Hops(fad)[i + k], fad)
        /\ Hops(fad)[j + k + 1] = NextHop(Hops(fad)[j + k], fad)
    BY <2>1, HopsIterate
  <2>3. Hops(fad)[i + k] = Hops(fad)[j + k]
    BY <1>3
  <2>4. Hops(fad)[i + (k + 1)] = Hops(fad)[j + (k + 1)]
    BY <2>2, <2>3
  <2>5. QED
    BY <1>1, <2>4
<1>4. 0..(m - j) \subseteq S
  <2> HIDE DEF S
  <2>1. QED
    BY <1>1, <1>2, <1>3, SetInduction
<1>5. Hops(fad)[i + (m - j)] = Hops(fad)[m]
  <2>1. m - j \in S /\ j + (m - j) = m
    BY <1>1, <1>4
  <2>2. QED
    BY <2>1
<1>6. i + (m - j) \in 0..(m - 1)
  BY <1>1
<1>7. Accepted(i + (m - j), fad)
  BY <1>5 DEF Accepted
<1>8. QED
  BY <1>6, <1>7

\* The path to the filter that accepts the sector first.
LEMMA PathToAccepted ==
  ASSUME SelectorTypeOK, NEW fad \in Fads, NEW m \in 0..(NumFilters - 1), Accepted(m, fad),
         \A i \in 0..(m - 1) : ~Accepted(i, fad)
  PROVE  \E q \in Visits(fad) : Len(q) = m + 1 /\ q[m + 1] = Hops(fad)[m]
<1> DEFINE h == Hops(fad)
           q == [i \in 1..(m + 1) |-> h[i - 1]]
<1>1. /\ NumFilters \in Nat /\ m \in Nat /\ m + 1 \in 1..NumFilters /\ m \in 0..NumFilters
      /\ h \in [0..NumFilters -> Outputs]
  BY PoolAssumption, HopsIterate
<1>2. ASSUME NEW i \in 0..m PROVE h[i] \in Filters
  <2>1. CASE h[i] = Disconnected
    <3> DEFINE S == {k \in 0..(m - i) : h[i + k] = Disconnected}
    <3>1. 0 \in S /\ m - i \in Nat
      BY <1>1, <2>1
    <3>2. ASSUME NEW k \in 0..(m - i - 1), k \in S PROVE k + 1 \in S
      <4>1. i + k + 1 \in 1..NumFilters /\ (i + k + 1) - 1 = i + k
        BY <1>1
      <4>2. h[i + k + 1] = NextHop(Disconnected, fad)
        BY <3>2, <4>1, HopsIterate
      <4>3. h[i + (k + 1)] = Disconnected
        BY <4>2 DEF NextHop
      <4>4. QED
        BY <3>1, <4>3
    <3>3. 0..(m - i) \subseteq S
      <4> HIDE DEF S
      <4>1. QED
        BY <3>1, <3>2, SetInduction
    <3>4. m - i \in S /\ i + (m - i) = m
      BY <1>1, <3>1, <3>3
    <3>5. h[m] = Disconnected
      BY <3>4
    <3>6. QED
      BY <3>5, FilterNumbers DEF Accepted
  <2>2. CASE h[i] # Disconnected
    BY <1>1, <2>2 DEF Outputs
  <2>3. QED
    BY <2>1, <2>2
<1>3. q \in [1..(m + 1) -> Filters]
  BY <1>1, <1>2
<1>4. q \in Seq(Filters) /\ Len(q) = m + 1
  BY <1>1, <1>3, SeqDef, LenProperties
<1>5. q[1] = cdConn
  BY <1>1, HopsIterate
<1>6. ASSUME NEW i \in 1..m PROVE fad \notin accept[q[i]] /\ failOut[q[i]] = q[i + 1]
  <2>1. q[i] = h[i - 1] /\ q[i + 1] = h[i] /\ i - 1 \in 0..(m - 1) /\ i \in 1..NumFilters
    BY <1>1
  <2>2. h[i - 1] \in Filters /\ ~Accepted(i - 1, fad)
    BY <1>1, <1>2, <2>1
  <2>3. fad \notin accept[q[i]]
    BY <2>1, <2>2 DEF Accepted
  <2>4. h[i] = NextHop(h[i - 1], fad)
    BY <2>1, HopsIterate
  <2>5. QED
    BY <2>1, <2>2, <2>3, <2>4, FilterNumbers DEF NextHop
<1>7. ASSUME NEW i \in 1..(m + 1), NEW j \in 1..(m + 1), i # j PROVE q[i] # q[j]
  <2>1. q[i] = h[i - 1] /\ q[j] = h[j - 1] /\ i - 1 \in 0..m /\ j - 1 \in 0..m
    BY <1>1
  <2>2. CASE i < j
    BY <1>1, <2>1, <2>2, NoFilterTwice
  <2>3. CASE j < i
    BY <1>1, <2>1, <2>3, NoFilterTwice
  <2>4. QED
    BY <1>7, <1>1, <2>2, <2>3
<1>8. q \in Visits(fad)
  <2> HIDE DEF q
  <2>1. (m + 1) - 1 = m
    BY <1>1
  <2>2. q \in UNION {[1..n -> Filters] : n \in 1..NumFilters}
    BY <1>1, <1>3
  <2>3. QED
    BY <1>4, <1>5, <1>6, <1>7, <2>1, <2>2 DEF Visits
<1>9. q[m + 1] = h[m]
  BY <1>1
<1>10. QED
  BY <1>4, <1>8, <1>9

LEMMA RoutesWhatIsAccepted ==
  ASSUME SelectorTypeOK, NEW fad \in Fads,
         NEW passing, passing = {p[Len(p)] : p \in {q \in Visits(fad) : fad \in accept[q[Len(q)]]}}
  PROVE  IF passing = {} THEN Destination(fad) = Disconnected
         ELSE \E f \in passing : passing = {f} /\ Destination(fad) = passOut[f]
<1> DEFINE T == {i \in 0..(NumFilters - 1) : Accepted(i, fad)}
<1>1. NumFilters \in Nat /\ NumFilters - 1 \in Nat
  BY PoolAssumption
<1>2. ASSUME NEW f \in passing PROVE \E i \in T : f = Hops(fad)[i]
  <2>1. PICK q \in Visits(fad) : fad \in accept[q[Len(q)]] /\ f = q[Len(q)]
    BY <1>2
  <2>2. Len(q) \in 1..NumFilters /\ q[Len(q)] \in Filters /\ q[Len(q)] = Hops(fad)[Len(q) - 1]
    BY <1>1, PathsAreHops
  <2>3. Accepted(Len(q) - 1, fad)
    BY <2>1, <2>2 DEF Accepted
  <2>4. Len(q) - 1 \in 0..(NumFilters - 1)
    BY <1>1, <2>2
  <2>5. Len(q) - 1 \in T /\ f = Hops(fad)[Len(q) - 1]
    BY <2>1, <2>2, <2>3, <2>4
  <2>6. QED
    BY <2>5
<1>3. CASE T = {}
  <2>1. passing = {}
    BY <1>2, <1>3
  <2>2. ~Accepted(NumFilters - 1, fad)
    BY <1>1, <1>3
  <2>3. Destination(fad) = Disconnected
    BY <2>2 DEF Destination, Accepted
  <2>4. QED
    BY <2>1, <2>3
<1>4. CASE T # {}
  <2>1. PICK m \in T : \A i \in T : m <= i
    <3>1. T \in SUBSET Nat
      OBVIOUS
    <3> HIDE DEF T
    <3>2. QED
      BY <1>4, <3>1, LowestNatural
  <2>2. m \in 0..(NumFilters - 1) /\ m \in 0..NumFilters /\ Accepted(m, fad)
    BY <1>1
  <2>3. \A i \in 0..(m - 1) : ~Accepted(i, fad)
    BY <1>1, <2>1, <2>2
  <2>4. PICK q \in Visits(fad) : Len(q) = m + 1 /\ q[m + 1] = Hops(fad)[m]
    BY <2>2, <2>3, PathToAccepted
  <2>5. Hops(fad)[m] \in passing
    <3>1. q[Len(q)] = Hops(fad)[m] /\ fad \in accept[q[Len(q)]]
      BY <2>2, <2>4 DEF Accepted
    <3>2. QED
      BY <3>1
  <2>6. \A i \in m..NumFilters : Hops(fad)[i] = Hops(fad)[m]
    BY <2>2, AcceptedStays
  <2>7. \A f \in passing : f = Hops(fad)[m]
    <3> SUFFICES ASSUME NEW f \in passing PROVE f = Hops(fad)[m]
      OBVIOUS
    <3>1. PICK i \in T : f = Hops(fad)[i]
      BY <1>2
    <3>2. i \in m..NumFilters
      BY <1>1, <2>1, <2>2
    <3>3. QED
      BY <2>6, <3>1, <3>2
  <2>8. Destination(fad) = passOut[Hops(fad)[m]]
    <3>1. NumFilters - 1 \in m..NumFilters
      BY <1>1, <2>2
    <3>2. Hops(fad)[NumFilters - 1] = Hops(fad)[m]
      BY <2>6, <3>1
    <3>3. QED
      BY <2>2, <3>2 DEF Destination, Accepted
  <2>9. passing = {Hops(fad)[m]}
    BY <2>5, <2>7
  <2>10. QED
    BY <2>5, <2>8, <2>9
<1>5. QED
  BY <1>3, <1>4

LEMMA TypesRoute == SelectorTypeOK => RoutingComplete
<1> SUFFICES ASSUME SelectorTypeOK PROVE RoutingComplete
  OBVIOUS
<1> DEFINE passing(fad) == {p[Len(p)] : p \in {q \in Visits(fad) : fad \in accept[q[Len(q)]]}}
<1>1. ASSUME NEW fad \in Fads
      PROVE  IF passing(fad) = {} THEN Destination(fad) = Disconnected
             ELSE \E f \in passing(fad) : passing(fad) = {f} /\ Destination(fad) = passOut[f]
  BY RoutesWhatIsAccepted
<1>2. QED
  BY <1>1 DEF RoutingComplete

\* The loop's NumFilters rounds are enough for every wiring of any number of
\* filters, cycles included: a sector that some filter on its way accepts is
\* stored where that filter says, and no other sector is stored.
THEOREM SelectorRoutingComplete == SelectorSpec => []RoutingComplete
<1>1. SelectorInit => SelectorInv
  BY InitSelectorInv DEF SelectorInit
<1>2. SelectorInv /\ [SelectorNext]_<<poolVars, selectorVars>> => SelectorInv'
  BY SelectorStepOrStutter
<1>3. SelectorInv => RoutingComplete
  BY TypesRoute DEF SelectorInv
<1>4. QED
  BY <1>1, <1>2, <1>3, PTL DEF SelectorSpec, SelectorInit
=============================================================================
