---------------------------- MODULE CDDriveProofs ----------------------------
(***************************************************************************)
(* The drive of the CD block: its types, and that its status machine       *)
(* implements the promise of DiscStream, for every disc, every request and *)
(* every number of buffers.                                                *)
(***************************************************************************)
EXTENDS CDDrive, NaturalLemmas, SequenceTheorems

Address == 0..(Addresses - 1)

Byte == 0..255

Countdown == 0..SeekTicks

Counted == 0..(ScanPeriod - 1)

TrackAndIndex == Nat \X Nat

Flag == BOOLEAN

DriveStates ==
    [status : Statuses, fad : Address, pos : TrackAndIndex, repeat : Byte, ticks : Countdown,
     seek : Address, full : Flag, back : Flag, count : Counted]

PlayStates ==
    [start : 0..Keep, end : 0..Keep, rep : Byte, first : Address, last : Address, max : 0..15,
     file : Flag]

-----------------------------------------------------------------------------
(***************************************************************************)
(* The invariant.  Without a disc the drive neither seeks nor plays.       *)
(***************************************************************************)
DriveInv ==
    /\ drive \in DriveStates
    /\ play \in PlayStates
    /\ disc \in BOOLEAN /\ room \in 0..MaxRoom /\ out \in 0..Len(Position) /\ commands \in 0..MaxCommands
    /\ ~disc => drive.status \notin {"Seek", "Play"}

-----------------------------------------------------------------------------
(***************************************************************************)
(* The table of contents.                                                  *)
(***************************************************************************)
LEMMA LowestIn ==
  ASSUME NEW S \in SUBSET Nat, S # {}
  PROVE  Lowest(S) \in S
BY LowestNatural DEF Lowest

LEMMA HighestIn ==
  ASSUME NEW N \in Nat, NEW S \in SUBSET (0..N), S # {}
  PROVE  Highest(S) \in S /\ \A x \in S : Highest(S) >= x
BY HighestNatural DEF Highest

LEMMA Sizes ==
  /\ Keep \in Nat /\ FadFlag \in Nat /\ FadFlag < Keep
  /\ Len(Position) \in Nat /\ Len(Position) + 1 < FadFlag
  /\ Addresses \in Nat /\ Addresses > Keep + 1
  /\ DiscFads \subseteq Address /\ DiscFads \subseteq Nat /\ 0..Keep \subseteq Address
<1>1. Keep \in Nat /\ FadFlag \in Nat /\ FadFlag < Keep
  BY SMT DEF Keep, FadFlag
<1>2. Len(Position) \in Nat /\ Len(Position) + 1 < FadFlag /\ Addresses \in Nat /\ Addresses > Keep + 1
  BY DriveAssumption, LenProperties
<1>3. QED
  BY <1>1, <1>2 DEF DiscFads, Address

LEMMA Positions ==
  ASSUME NEW f \in DiscFads
  PROVE  /\ Position[f] \in (1..99) \X (0..99)
         /\ Position[f][1] \in 1..99 /\ Position[f] \in Nat \X Nat
<1>1. Position[f] \in (1..99) \X (0..99)
  BY DriveAssumption, ElementOfSeq DEF DiscFads
<1>2. QED
  BY <1>1

LEMMA TrackNumbers ==
  /\ Tracks \subseteq 1..99 /\ Tracks # {}
  /\ FirstTrack \in Tracks /\ LastTrack \in Tracks
  /\ Tracks = FirstTrack..LastTrack
<1>1. Tracks \subseteq 1..99 /\ Tracks # {}
  <2>1. PICK f \in DiscFads : TRUE
    BY DriveAssumption
  <2>2. Position[f][1] \in Tracks
    BY DEF Tracks
  <2>3. QED
    BY <2>2, Positions DEF Tracks
<1>2. FirstTrack \in Tracks
  BY <1>1, LowestIn DEF FirstTrack
<1>3. Tracks \subseteq 0..99
  BY <1>1
<1>4. LastTrack \in Tracks
  BY <1>1, <1>3, HighestIn DEF LastTrack
<1>5. QED
  BY <1>1, <1>2, <1>4, DriveAssumption DEF FirstTrack, LastTrack

LEMMA TrackBounds ==
  ASSUME NEW t \in Tracks
  PROVE  StartFad(t) \in DiscFads /\ EndFad(t) \in 0..Len(Position)
<1>1. ASSUME NEW u \in Tracks PROVE StartFad(u) \in DiscFads
  <2>1. {f \in DiscFads : Position[f] = <<u, 1>>} # {} /\ {f \in DiscFads : Position[f] = <<u, 1>>} \in SUBSET Nat
    BY Sizes, DriveAssumption DEF DiscFads
  <2>2. QED
    BY <2>1, LowestIn DEF StartFad
<1>2. EndFad(t) \in 0..Len(Position)
  <2>1. CASE t = LastTrack
    BY <2>1, Sizes DEF EndFad
  <2>2. CASE t # LastTrack
    <3>1. {u \in Tracks : u > t} # {} /\ {u \in Tracks : u > t} \in SUBSET Nat
      BY <2>2, TrackNumbers
    <3>2. StartFad(Lowest({u \in Tracks : u > t})) \in DiscFads
      BY <1>1, <3>1, LowestIn
    <3>3. QED
      BY <2>2, <3>2, Sizes DEF EndFad, DiscFads
  <2>3. QED
    BY <2>1, <2>2
<1>3. QED
  BY <1>1, <1>2

LEMMA Clamped ==
  ASSUME NEW t \in Int
  PROVE  ClampTrack(t) \in Tracks
BY TrackNumbers DEF ClampTrack

\* An address in a track is one on the disc.
LEMMA TrackAt ==
  ASSUME NEW f \in Int, TracksAt(f) # {}
  PROVE  f \in DiscFads /\ Lowest(TracksAt(f)) \in TracksAt(f) /\ TracksAt(f) \subseteq Tracks
<1>1. PICK t \in Tracks : StartFad(t) <= f /\ f < EndFad(t)
  BY DEF TracksAt
<1>2. f \in DiscFads
  BY <1>1, TrackBounds, Sizes DEF DiscFads
<1>3. TracksAt(f) \subseteq Tracks /\ TracksAt(f) \in SUBSET Nat
  BY TrackNumbers DEF TracksAt
<1>4. QED
  BY <1>2, <1>3, LowestIn

-----------------------------------------------------------------------------
(***************************************************************************)
(* The drive event.                                                        *)
(***************************************************************************)
LEMMA Fields ==
  ASSUME NEW d \in DriveStates
  PROVE  /\ d.status \in Statuses /\ d.fad \in Address /\ d.pos \in TrackAndIndex /\ d.repeat \in Byte
         /\ d.ticks \in Countdown /\ d.seek \in Address /\ d.full \in Flag /\ d.back \in Flag
         /\ d.count \in Counted
         /\ d.fad \in Nat /\ d.fad < Addresses /\ d.ticks \in Nat /\ d.repeat \in Nat
<1>1. /\ d.status \in Statuses /\ d.fad \in Address /\ d.pos \in TrackAndIndex /\ d.repeat \in Byte
      /\ d.ticks \in Countdown /\ d.seek \in Address /\ d.full \in Flag /\ d.back \in Flag
      /\ d.count \in Counted
  BY DEF DriveStates
<1>2. d.fad \in Nat /\ d.fad < Addresses
  BY <1>1, Sizes DEF Address
<1>3. d.ticks \in Nat /\ d.repeat \in Nat
  BY <1>1 DEF Countdown, Byte
<1>4. QED
  BY <1>1, <1>2, <1>3

LEMMA HaltedType ==
  ASSUME NEW d \in DriveStates, NEW s \in Statuses
  PROVE  Halted(d, s) \in DriveStates
<1>1. Keep \in Address /\ NoPosition \in TrackAndIndex /\ 15 \in Byte
  BY Sizes DEF NoPosition, TrackAndIndex, Byte
<1>2. [d EXCEPT !.status = s, !.fad = Keep, !.pos = NoPosition, !.repeat = 15] \in DriveStates
  BY <1>1 DEF DriveStates
<1>3. QED
  BY <1>2 DEF Halted

\* The sector a drive in state d is to hand on next, and what it is doing.
NextOf(d) == IF d.status = "Seek" /\ d.ticks > 1 THEN d.seek ELSE d.fad

ModeOf(d) ==
    CASE d.status \in {"Play", "Seek"} -> "running"
      [] d.status = "Scan" -> "scanning"
      [] OTHER -> "idle"

\* The countdown of a seek: it goes on to the same sector, or gives up.
LEMMA MovedDoes ==
  ASSUME NEW w \in DriveStates, NEW m, m = Moved(w)
  PROVE  /\ m \in DriveStates
         /\ \/ m.repeat = w.repeat /\ NextOf(m) = NextOf(w) /\ ModeOf(m) = ModeOf(w)
            \/ ~Running(m) /\ ModeOf(m) = "idle" /\ ModeOf(w) # "idle"
         /\ Running(m) => NextOf(m) = m.fad /\ ModeOf(m) # "idle"
         /\ ModeOf(w) = "idle" => ModeOf(m) = "idle"
         /\ m.status \in {"Seek", "Play"} => w.status \in {"Seek", "Play"}
         /\ m.status = "Scan" => ModeOf(m) = "scanning"
         /\ Running(m) /\ m.status # "Scan" => ModeOf(m) = "running"
<1>1. /\ w.status \in Statuses /\ w.ticks \in Nat /\ w.ticks <= SeekTicks /\ SeekTicks \in Nat /\ SeekTicks > 1
      /\ w.seek \in Address
  BY Fields, DriveAssumption DEF Countdown
<1>types. /\ FALSE \in Flag /\ 0 \in Countdown /\ 1 \in Countdown /\ "Play" \in Statuses /\ "Standby" \in Statuses
          /\ w.ticks > 0 => w.ticks - 1 \in Countdown
  BY <1>1 DEF Flag, Countdown, Statuses
<1>2. CASE w.status # "Seek"
  BY <1>1, <1>2 DEF Moved, NextOf, ModeOf, Running, Statuses
<1>3. CASE w.status = "Seek" /\ w.ticks > 2
  <2>1. m = [w EXCEPT !.ticks = w.ticks - 1]
    BY <1>1, <1>3 DEF Moved
  <2>2. m \in DriveStates
    BY <1>1, <1>3, <1>types, <2>1 DEF DriveStates
  <2>3. m.status = "Seek" /\ m.ticks = w.ticks - 1 /\ m.seek = w.seek /\ m.repeat = w.repeat
    BY <1>3, <2>1 DEF DriveStates
  <2>4. QED
    BY <1>1, <1>3, <2>2, <2>3 DEF NextOf, ModeOf, Running
<1>4. CASE w.status = "Seek" /\ w.ticks = 2 /\ w.seek = Keep
  <2>1. m = [Halted(w, "Standby") EXCEPT !.ticks = 1, !.full = FALSE]
    BY <1>1, <1>4 DEF Moved
  <2>2. m \in DriveStates
    BY <1>types, <2>1, HaltedType DEF DriveStates
  <2>3. m.status = "Standby"
    BY <2>1 DEF DriveStates, Halted
  <2>4. QED
    BY <1>1, <1>4, <2>2, <2>3 DEF ModeOf, Running
<1>5. CASE w.status = "Seek" /\ w.ticks = 2 /\ w.seek # Keep
  <2>1. m = [w EXCEPT !.ticks = 1, !.full = FALSE, !.fad = w.seek]
    BY <1>1, <1>5 DEF Moved
  <2>2. m \in DriveStates
    BY <1>1, <1>types, <2>1 DEF DriveStates
  <2>3. m.status = "Seek" /\ m.ticks = 1 /\ m.fad = w.seek /\ m.repeat = w.repeat
    BY <1>5, <2>1 DEF DriveStates
  <2>4. QED
    BY <1>1, <1>5, <2>2, <2>3 DEF NextOf, ModeOf, Running
<1>6. CASE w.status = "Seek" /\ w.ticks < 2
  <2>1. m = [w EXCEPT !.ticks = 0, !.full = FALSE, !.status = "Play"]
    BY <1>1, <1>6 DEF Moved
  <2>2. m \in DriveStates
    BY <1>1, <1>types, <2>1 DEF DriveStates
  <2>3. m.status = "Play" /\ m.ticks = 0 /\ m.fad = w.fad /\ m.repeat = w.repeat
    BY <1>6, <2>1 DEF DriveStates
  <2>4. QED
    BY <1>1, <1>6, <2>2, <2>3 DEF NextOf, ModeOf, Running
<1>7. QED
  BY <1>1, <1>2, <1>3, <1>4, <1>5, <1>6

LEMMA Modulo ==
  /\ \A x \in Int : x % Addresses \in Address
  /\ \A x \in Address : x % Addresses = x
<1>1. Addresses \in Nat /\ Addresses > 0
  BY Sizes
<1>2. QED
  BY <1>1 DEF Address

\* What an event that is not kept waiting makes of the drive.
LEMMA ReadDoes ==
  ASSUME DriveInv, NEW m \in DriveStates, ~Blocked(m), NEW r, r = Read(m)
  PROVE  /\ r \in DriveStates /\ r.repeat = m.repeat
         /\ ~Due(m) => r = m
         /\ Due(m) /\ ~disc => r.status = "NoDisc"
         /\ Due(m) /\ disc /\ m.fad \notin DiscFads => r.status = "Error"
         /\ r.status \notin {"NoDisc", "Error"} => r.status = m.status
         /\ (Due(m) /\ ~Readable(m)) \/ NoRoom(m) => r.fad = m.fad
         /\ NoRoom(m) => r.status = m.status /\ r.ticks = m.ticks /\ r.seek = m.seek
         /\ Readable(m) /\ ~NoRoom(m) => r.status = m.status /\ r.ticks = m.ticks /\ r.seek = m.seek
         /\ Readable(m) /\ ~NoRoom(m) /\ m.status # "Scan" => r.fad = m.fad + 1
<1>1. /\ m.status \in Statuses /\ m.fad \in Nat /\ m.fad \in Address /\ m.count \in Counted
      /\ TRUE \in Flag /\ "NoDisc" \in Statuses /\ "Error" \in Statuses
  BY Fields DEF Flag, Statuses
<1>2. CASE ~Due(m)
  BY <1>1, <1>2 DEF Read, NoRoom, Readable
<1>3. CASE Due(m) /\ ~disc
  <2>1. r = [m EXCEPT !.status = "NoDisc"]
    BY <1>3 DEF Read, NoRoom, Readable
  <2>2. r \in DriveStates
    BY <1>1, <2>1 DEF DriveStates
  <2>3. r.status = "NoDisc" /\ r.repeat = m.repeat /\ r.fad = m.fad
    BY <2>1 DEF DriveStates
  <2>4. QED
    BY <1>3, <2>2, <2>3 DEF NoRoom, Readable
<1>4. CASE Due(m) /\ disc /\ m.fad \notin DiscFads
  <2>1. r = [m EXCEPT !.status = "Error"]
    BY <1>4 DEF Read, NoRoom, Readable
  <2>2. r \in DriveStates
    BY <1>1, <2>1 DEF DriveStates
  <2>3. r.status = "Error" /\ r.repeat = m.repeat /\ r.fad = m.fad
    BY <2>1 DEF DriveStates
  <2>4. QED
    BY <1>4, <2>2, <2>3 DEF NoRoom, Readable
<1>5. CASE NoRoom(m)
  <2>1. r = [m EXCEPT !.full = TRUE]
    BY <1>5 DEF Read, NoRoom, Readable
  <2>2. r \in DriveStates
    BY <1>1, <2>1 DEF DriveStates
  <2>3. /\ r.status = m.status /\ r.repeat = m.repeat /\ r.fad = m.fad /\ r.ticks = m.ticks
        /\ r.seek = m.seek
    BY <2>1 DEF DriveStates
  <2>4. QED
    BY <1>5, <2>2, <2>3 DEF NoRoom, Readable
<1>6. CASE Readable(m) /\ ~NoRoom(m)
  <2>1. r = Advanced(m) /\ m.fad \in DiscFads
    BY <1>6 DEF Read, Readable
  <2> DEFINE skips == m.status = "Scan" /\ m.count + 1 >= ScanPeriod
             from == IF ~skips THEN m.fad
                     ELSE IF m.back THEN m.fad - (ScanSkip + ScanPeriod)
                     ELSE m.fad + (ScanSkip - ScanPeriod)
             count == IF m.status # "Scan" THEN m.count ELSE IF skips THEN 0 ELSE m.count + 1
  <2>2. r = [m EXCEPT !.fad = (from + 1) % Addresses, !.pos = Position[m.fad], !.count = count]
    BY <2>1 DEF Advanced
  <2>3. ScanPeriod \in Nat /\ ScanSkip \in Nat /\ ScanPeriod >= 1
    BY DriveAssumption
  <2>4. from + 1 \in Int /\ count \in Counted
    BY <1>1, <2>3 DEF Counted
  <2>5. (from + 1) % Addresses \in Address /\ Position[m.fad] \in TrackAndIndex
    BY <2>1, <2>4, Modulo, Positions DEF TrackAndIndex
  <2>6. m.status # "Scan" => (from + 1) % Addresses = m.fad + 1
    <3>1. m.fad + 1 \in Address
      BY <2>1, Sizes DEF DiscFads, Address
    <3>2. QED
      BY <3>1, Modulo
  <2> HIDE DEF from, count
  <2>7. r \in DriveStates
    BY <2>2, <2>4, <2>5 DEF DriveStates
  <2>8. /\ r.status = m.status /\ r.repeat = m.repeat /\ r.ticks = m.ticks /\ r.seek = m.seek
        /\ r.fad = (from + 1) % Addresses
    BY <2>2 DEF DriveStates
  <2>9. QED
    BY <1>6, <2>1, <2>6, <2>7, <2>8 DEF Readable
<1>7. QED
  BY <1>2, <1>3, <1>4, <1>5, <1>6 DEF Blocked, NoRoom, Readable

LEMMA EndedDoes ==
  ASSUME DriveInv, NEW r \in DriveStates, NEW e, e = Ended(r)
  PROVE  /\ e \in DriveStates
         /\ Repeats(r) => e.fad = play.first /\ e.repeat = (r.repeat + 1) % 256 /\ e.status = r.status
                          /\ e.ticks = r.ticks
         /\ ~Repeats(r) => e.status = "Pause" /\ e.fad = (play.last + 1) % Addresses
<1>1. /\ r.repeat \in Nat /\ play.first \in Address /\ play.last \in Int /\ FALSE \in Flag
      /\ "Pause" \in Statuses
  BY Fields, Sizes DEF DriveInv, PlayStates, Address, Flag, Statuses
<1>2. (r.repeat + 1) % 256 \in Byte /\ (play.last + 1) % Addresses \in Address
  BY <1>1, Modulo DEF Byte
<1>3. CASE Repeats(r)
  <2>1. e = [r EXCEPT !.fad = play.first, !.repeat = (r.repeat + 1) % 256]
    BY <1>3 DEF Ended
  <2>2. e \in DriveStates
    BY <1>1, <1>2, <2>1 DEF DriveStates
  <2>3. QED
    BY <1>3, <2>1, <2>2 DEF DriveStates
<1>4. CASE ~Repeats(r)
  <2>1. e = [r EXCEPT !.status = "Pause", !.fad = (play.last + 1) % Addresses, !.full = FALSE]
    BY <1>4 DEF Ended
  <2>2. e \in DriveStates
    BY <1>1, <1>2, <2>1 DEF DriveStates
  <2>3. QED
    BY <1>4, <2>1, <2>2 DEF DriveStates
<1>5. QED
  BY <1>3, <1>4

LEMMA PolledDoes ==
  ASSUME NEW d \in DriveStates, NEW report \in BOOLEAN, NEW p, p = Polled(d, report)
  PROVE  /\ p \in DriveStates
         /\ p = d \/ (~disc /\ p.status = "NoDisc")
<1>1. CASE p = [d EXCEPT !.status = "NoDisc"] /\ ~disc
  BY <1>1 DEF DriveStates, Statuses
<1>2. QED
  BY <1>1 DEF Polled

-----------------------------------------------------------------------------
(***************************************************************************)
(* What DiscStream allows, in terms of the drive.                          *)
(***************************************************************************)
Mode == ModeOf(drive)

NextSector == NextOf(drive)

Again ==
    CASE play.max = Infinite -> -1
      [] play.max # Infinite /\ drive.repeat < play.max -> play.max - drive.repeat
      [] play.max # Infinite /\ drive.repeat >= play.max -> 0

\* Another pass begins.
PassAgain ==
    /\ Again # 0
    /\ NextSector' = play.first
    /\ Again' = IF Again > 0 THEN Again - 1 ELSE Again
    /\ "PEND" \notin raised'
    /\ Mode' = Mode

\* The play is over.
PlayOver ==
    /\ Again = 0
    /\ "PEND" \in raised'
    /\ Mode' = "idle"
    /\ NextSector' = (play.last + 1) % Addresses

LEMMA StreamRequest ==
  ASSUME "CMOK" \in raised' \/ "DCHG" \in raised', "PEND" \notin raised', UNCHANGED out
  PROVE  Stream!StreamNext
BY DEF Stream!StreamNext, Stream!Control, Stream!Requested

LEMMA StreamRests ==
  ASSUME Mode = "idle", Mode' = "idle", "PEND" \notin raised', UNCHANGED out
  PROVE  Stream!StreamNext
BY DEF Stream!StreamNext, Stream!Rest, Mode, ModeOf

LEMMA StreamGivesUp ==
  ASSUME Mode # "idle", Mode' = "idle", "PEND" \notin raised', UNCHANGED <<out, play>>
  PROVE  Stream!StreamNext
BY DEF Stream!StreamNext, Stream!GiveUp, Stream!RangeKept, Mode, ModeOf

LEMMA StreamWaits ==
  ASSUME Mode' = Mode, NextSector' = NextSector, drive'.repeat = drive.repeat, "PEND" \notin raised',
         UNCHANGED <<out, play>>
  PROVE  Stream!StreamNext
BY DEF Stream!StreamNext, Stream!Wait, Mode, ModeOf, NextSector, NextOf

LEMMA StreamSamples ==
  ASSUME Mode = "scanning", NextSector <= play.last, out' = NextSector, UNCHANGED play
  PROVE  Stream!StreamNext
BY DEF Stream!StreamNext, Stream!Sample, Stream!RangeKept, Mode, ModeOf, NextSector, NextOf

LEMMA StreamHandsOn ==
  ASSUME Mode = "running", NextSector <= play.last, out' = NextSector, UNCHANGED play,
         \/ /\ NextSector' = NextSector + 1 /\ "PEND" \notin raised'
            /\ Mode' = Mode /\ drive'.repeat = drive.repeat
         \/ (IsFad(play.start) => NextSector >= play.last) /\ (PassAgain \/ PlayOver)
  PROVE  Stream!StreamNext
<1>1. CASE NextSector' = NextSector + 1 /\ "PEND" \notin raised' /\ Mode' = Mode /\ drive'.repeat = drive.repeat
  BY <1>1 DEF Stream!StreamNext, Stream!HandOn, Stream!RangeKept, Mode, ModeOf, NextSector, NextOf
<1>2. CASE (IsFad(play.start) => NextSector >= play.last) /\ PassAgain
  BY <1>2 DEF Stream!StreamNext, Stream!HandOn, Stream!RangeKept, Stream!PassOver, Stream!AnotherPass,
              PassAgain, Again, Mode, ModeOf, NextSector, NextOf
<1>3. CASE (IsFad(play.start) => NextSector >= play.last) /\ PlayOver
  BY <1>3 DEF Stream!StreamNext, Stream!HandOn, Stream!RangeKept, Stream!PassOver, Stream!PlaybackOver,
              PlayOver, Again, Mode, ModeOf, NextSector, NextOf
<1>4. QED
  BY <1>1, <1>2, <1>3

LEMMA StreamRunsOut ==
  ASSUME Mode # "idle", IsFad(play.start) => NextSector - 1 >= play.last, UNCHANGED <<out, play>>,
         PassAgain \/ PlayOver
  PROVE  Stream!StreamNext
<1>1. CASE PassAgain
  BY <1>1 DEF Stream!StreamNext, Stream!NothingLeft, Stream!RangeKept, Stream!PassOver,
              Stream!AnotherPass, PassAgain, Again, Mode, ModeOf, NextSector, NextOf
<1>2. CASE PlayOver
  BY <1>2 DEF Stream!StreamNext, Stream!NothingLeft, Stream!RangeKept, Stream!PassOver,
              Stream!PlaybackOver, PlayOver, Again, Mode, ModeOf, NextSector, NextOf
<1>3. QED
  BY <1>1, <1>2

-----------------------------------------------------------------------------
(***************************************************************************)
(* An event of the drive is a step of the stream.                          *)
(***************************************************************************)

\* A pass that is over begins again or is the last.
LEMMA PassEnds ==
  ASSUME DriveInv, NEW r \in DriveStates, r.repeat = drive.repeat, Mode # "idle",
         NEW report \in BOOLEAN, drive' = Polled(Ended(r), report), UNCHANGED play,
         "PEND" \in raised' <=> ~Repeats(r)
  PROVE  /\ ~Repeats(r) => PlayOver
         /\ /\ Repeats(r) /\ ModeOf(r) = Mode /\ (r.status # "Seek" \/ r.ticks <= 1)
            /\ drive'.status # "NoDisc"
            => PassAgain
         /\ Repeats(r) /\ (drive'.status = "NoDisc" \/ ModeOf(r) = "idle") => Mode' = "idle"
<1>1. PICK e : e = Ended(r)
  OBVIOUS
<1>2. /\ e \in DriveStates
      /\ Repeats(r) => e.fad = play.first /\ e.repeat = (r.repeat + 1) % 256 /\ e.status = r.status
                       /\ e.ticks = r.ticks
      /\ ~Repeats(r) => e.status = "Pause" /\ e.fad = (play.last + 1) % Addresses
  BY <1>1, EndedDoes
<1>3. drive' = e \/ drive'.status = "NoDisc"
  BY <1>1, <1>2, PolledDoes
<1>4. play.max \in 0..15 /\ r.repeat \in Byte /\ r.repeat \in Nat
  BY Fields DEF DriveInv, PlayStates
<1>fad. drive'.fad = e.fad
  BY <1>1, <1>2 DEF Polled, DriveStates
<1>5. ASSUME ~Repeats(r) PROVE PlayOver
  <2>1. Again = 0
    BY <1>4, <1>5 DEF Again, Repeats, Infinite
  <2>2. drive'.status \in {"Pause", "NoDisc"}
    BY <1>2, <1>3, <1>5
  <2>3. QED
    BY <1>2, <1>5, <1>fad, <2>1, <2>2 DEF PlayOver, Mode, ModeOf, NextSector, NextOf
<1>6. ASSUME Repeats(r), ModeOf(r) = Mode, r.status # "Seek" \/ r.ticks <= 1, drive'.status # "NoDisc"
      PROVE  PassAgain
  <2>1. drive' = e
    BY <1>3, <1>6
  <2>2. Mode' = Mode
    BY <1>2, <1>6, <2>1 DEF Mode, ModeOf
  <2>3. NextSector' = play.first
    BY <1>2, <1>4, <1>6, <2>1, Fields DEF NextSector, NextOf
  <2>4. Again # 0 /\ Again' = IF Again > 0 THEN Again - 1 ELSE Again
    <3>1. CASE play.max = Infinite
      BY <3>1 DEF Again
    <3>2. CASE play.max # Infinite
      <4>1. r.repeat < play.max /\ drive'.repeat = r.repeat + 1
        BY <1>2, <1>4, <1>6, <2>1, <3>2 DEF Repeats
      <4>2. QED
        BY <1>4, <3>2, <4>1 DEF Again
    <3>3. QED
      BY <3>1, <3>2
  <2>5. QED
    BY <1>6, <2>2, <2>3, <2>4 DEF PassAgain
<1>7. ASSUME Repeats(r), drive'.status = "NoDisc" \/ ModeOf(r) = "idle" PROVE Mode' = "idle"
  BY <1>2, <1>3, <1>7 DEF Mode, ModeOf
<1>8. QED
  BY <1>5, <1>6, <1>7

\* What the drive is when the event has begun.
LEMMA WokenDoes ==
  ASSUME DriveInv, NEW w, w = IF room > 0 THEN [drive EXCEPT !.full = FALSE] ELSE drive
  PROVE  /\ w \in DriveStates /\ w.repeat = drive.repeat /\ w.status = drive.status
         /\ NextOf(w) = NextSector /\ ModeOf(w) = Mode
<1>1. drive \in DriveStates /\ FALSE \in Flag
  BY DEF DriveInv, Flag
<1>2. /\ w \in DriveStates /\ w.repeat = drive.repeat /\ w.status = drive.status /\ w.fad = drive.fad
      /\ w.seek = drive.seek /\ w.ticks = drive.ticks
  BY <1>1 DEF DriveStates
<1>3. QED
  BY <1>2 DEF NextSector, NextOf, Mode, ModeOf

\* An event: the drive, woken, moves on to w and m, reads and is r, and ends a
\* pass or not.
Event(report, stored, w, m, r) ==
    /\ w = IF room > 0 THEN [drive EXCEPT !.full = FALSE] ELSE drive
    /\ m = Moved(w)
    /\ r = Read(m)
    /\ drive' = Polled(IF Running(m) /\ ~Blocked(m) THEN IF EndReached(r) THEN Ended(r) ELSE r ELSE m,
                       report)
    /\ out' = IF Delivers(m) THEN m.fad ELSE out
    /\ room' = IF Delivers(m) /\ Data(m.fad) /\ stored THEN room - 1 ELSE room
    /\ "PEND" \in raised' <=> Running(m) /\ ~Blocked(m) /\ EndReached(r) /\ ~Repeats(r)
    /\ Running(m) /\ ~Blocked(m) /\ Due(m) /\ ~disc => "DCHG" \in raised'
    /\ UNCHANGED <<play, disc, commands>>

LEMMA TickIsEvent ==
  ASSUME Tick
  PROVE  \E report, stored \in BOOLEAN : \E w, m, r : Event(report, stored, w, m, r)
<1>1. PICK report \in BOOLEAN, stored \in BOOLEAN :
        LET woken  == IF room > 0 THEN [drive EXCEPT !.full = FALSE] ELSE drive
            moved  == Moved(woken)
            read   == Read(moved)
            played == Running(moved) /\ ~Blocked(moved)
            over   == played /\ EndReached(read)
            after  == IF over THEN Ended(read) ELSE IF played THEN read ELSE moved
            keeps  == Delivers(moved) /\ Data(moved.fad) /\ stored
        IN  /\ drive' = Polled(after, report)
            /\ out' = IF Delivers(moved) THEN moved.fad ELSE out
            /\ room' = IF keeps THEN room - 1 ELSE room
            /\ raised' =
                 {f \in {"CSCT"} : keeps}
                 \cup {f \in {"BFUL"} : Running(moved) /\ NoRoom(moved)}
                 \cup {f \in {"DCHG"} : played /\ Due(moved) /\ ~disc}
                 \cup {f \in {"PEND"} : over /\ ~Repeats(read)}
                 \cup {f \in {"EFLS", "EHST"} : over /\ ~Repeats(read) /\ play.file}
                 \cup {f \in {"SCDQ"} : report}
            /\ UNCHANGED <<play, disc, commands>>
  BY DEF Tick
<1>2. PICK w : w = IF room > 0 THEN [drive EXCEPT !.full = FALSE] ELSE drive
  OBVIOUS
<1>3. PICK m : m = Moved(w)
  OBVIOUS
<1>4. PICK r : r = Read(m)
  OBVIOUS
<1>5. Event(report, stored, w, m, r)
  BY <1>1, <1>2, <1>3, <1>4 DEF Event
<1>6. QED
  BY <1>5

LEMMA EventSimulates ==
  ASSUME DriveInv, NEW report \in BOOLEAN, NEW stored, NEW w, NEW m, NEW r,
         Event(report, stored, w, m, r)
  PROVE  Stream!StreamNext
<1>1. /\ w \in DriveStates /\ w.repeat = drive.repeat /\ w.status = drive.status
      /\ NextOf(w) = NextSector /\ ModeOf(w) = Mode
  BY WokenDoes DEF Event
<1>2. /\ m \in DriveStates
      /\ \/ m.repeat = w.repeat /\ NextOf(m) = NextOf(w) /\ ModeOf(m) = ModeOf(w)
         \/ ~Running(m) /\ ModeOf(m) = "idle" /\ ModeOf(w) # "idle"
      /\ Running(m) => NextOf(m) = m.fad /\ ModeOf(m) # "idle"
      /\ ModeOf(w) = "idle" => ModeOf(m) = "idle"
      /\ m.status \in {"Seek", "Play"} => w.status \in {"Seek", "Play"}
  BY <1>1, MovedDoes DEF Event
<1>3. UNCHANGED play
  BY DEF Event
<1>4. CASE ~(Running(m) /\ ~Blocked(m))
  <2>1. "PEND" \notin raised' /\ UNCHANGED out
    BY <1>4 DEF Event, Delivers, Blocked, Readable
  <2>2. drive' = m \/ drive'.status = "NoDisc"
    BY <1>2, <1>4, PolledDoes DEF Event
  <2>3. CASE drive' = m /\ m.repeat = w.repeat /\ NextOf(m) = NextOf(w) /\ ModeOf(m) = ModeOf(w)
    <3>1. Mode' = Mode /\ NextSector' = NextSector /\ drive'.repeat = drive.repeat
      BY <1>1, <2>3 DEF Mode, ModeOf, NextSector, NextOf
    <3>2. QED
      BY <1>3, <2>1, <3>1, StreamWaits
  <2>4. CASE drive'.status = "NoDisc" \/ (drive' = m /\ ModeOf(m) = "idle")
    <3>1. Mode' = "idle"
      BY <2>4 DEF Mode, ModeOf
    <3>2. QED
      BY <1>3, <2>1, <3>1, StreamRests, StreamGivesUp
  <2>5. QED
    BY <1>2, <2>2, <2>3, <2>4
<1>5. CASE Running(m) /\ ~Blocked(m)
  <2>1. /\ m.repeat = drive.repeat /\ m.fad = NextSector /\ ModeOf(m) = Mode /\ Mode # "idle"
        /\ m.fad \in Nat /\ (m.status = "Seek" => m.ticks = 1)
    BY <1>1, <1>2, <1>5, Fields DEF Running
  <2>2. /\ r \in DriveStates /\ r.repeat = m.repeat
        /\ ~Due(m) => r = m
        /\ Due(m) /\ ~disc => r.status = "NoDisc"
        /\ Due(m) /\ disc /\ m.fad \notin DiscFads => r.status = "Error"
        /\ NoRoom(m) => r.status = m.status /\ r.ticks = m.ticks /\ r.fad = m.fad
        /\ Readable(m) /\ ~NoRoom(m) => r.status = m.status /\ r.ticks = m.ticks
        /\ Readable(m) /\ ~NoRoom(m) /\ m.status # "Scan" => r.fad = m.fad + 1
    BY <1>2, <1>5, ReadDoes DEF Event
  <2>3. /\ EndReached(r) => drive' = Polled(Ended(r), report)
        /\ ~EndReached(r) => drive' = Polled(r, report)
        /\ "PEND" \in raised' <=> EndReached(r) /\ ~Repeats(r)
        /\ Due(m) /\ ~disc => "DCHG" \in raised'
        /\ out' = IF Delivers(m) THEN m.fad ELSE out
    BY <1>5 DEF Event
  <2>4. play.last \in Nat /\ (Due(m) <=> m.fad <= play.last)
    BY Sizes DEF DriveInv, PlayStates, Address, Due
  <2>5. drive'.status = "NoDisc" /\ r.status # "NoDisc" => ~disc
    BY <2>2, <2>3, PolledDoes, EndedDoes
  <2>6. EndReached(r) =>
          /\ ~Repeats(r) => PlayOver
          /\ /\ Repeats(r) /\ ModeOf(r) = Mode /\ (r.status # "Seek" \/ r.ticks <= 1)
             /\ drive'.status # "NoDisc"
             => PassAgain
          /\ Repeats(r) /\ (drive'.status = "NoDisc" \/ ModeOf(r) = "idle") => Mode' = "idle"
    BY <1>3, <2>1, <2>2, <2>3, PassEnds
  <2>7. ~EndReached(r) => drive' = r \/ drive'.status = "NoDisc"
    BY <2>2, <2>3, PolledDoes
  \* nothing is handed on
  <2>8. ASSUME ~Delivers(m), Due(m) /\ ~disc => EndReached(r) /\ ~Repeats(r)
        PROVE  Stream!StreamNext
    <3>1. UNCHANGED out
      BY <2>3, <2>8
    <3>2. CASE EndReached(r)
      <4>1. IsFad(play.start) => m.fad - 1 >= play.last
        <5>1. IsFad(play.start) => r.fad > play.last
          BY <3>2 DEF EndReached
        <5>2. Due(m) => r.fad = m.fad
          BY <1>2, <1>5, <2>8, ReadDoes DEF Event, Delivers, Readable, NoRoom, Blocked
        <5>3. QED
          BY <2>1, <2>2, <2>4, <5>1, <5>2
      <4>2. CASE ~Repeats(r)
        BY <1>3, <2>1, <2>6, <3>1, <3>2, <4>1, <4>2, StreamRunsOut
      <4>3. CASE Repeats(r) /\ (drive'.status = "NoDisc" \/ ModeOf(r) = "idle")
        BY <1>3, <2>1, <2>3, <2>6, <3>1, <3>2, <4>3, StreamGivesUp
      <4>4. CASE Repeats(r) /\ drive'.status # "NoDisc" /\ ModeOf(r) # "idle"
        <5>1. r.status = m.status /\ r.ticks = m.ticks
          BY <1>5, <2>2, <2>8, <4>4 DEF ModeOf, Blocked, Delivers, Readable, NoRoom
        <5>2. ModeOf(r) = Mode /\ (r.status # "Seek" \/ r.ticks <= 1)
          BY <2>1, <5>1 DEF ModeOf
        <5>3. QED
          BY <1>3, <2>1, <2>6, <3>1, <3>2, <4>1, <4>4, <5>2, StreamRunsOut
      <4>5. QED
        BY <4>2, <4>3, <4>4
    <3>3. CASE ~EndReached(r)
      <4>1. "PEND" \notin raised'
        BY <2>3, <3>3
      <4>2. CASE drive'.status = "NoDisc" \/ ModeOf(r) = "idle"
        <5>1. Mode' = "idle"
          BY <2>7, <3>3, <4>2 DEF Mode, ModeOf
        <5>2. QED
          BY <1>3, <2>1, <3>1, <4>1, <5>1, StreamGivesUp
      <4>3. CASE drive' = r /\ ModeOf(r) # "idle"
        <5>1. r.status = m.status /\ r.ticks = m.ticks /\ r.fad = m.fad
          BY <1>5, <2>2, <2>8, <4>3 DEF ModeOf, Blocked, Delivers, Readable, NoRoom
        <5>2. Mode' = Mode /\ NextSector' = NextSector /\ drive'.repeat = drive.repeat
          BY <2>1, <2>2, <4>3, <5>1 DEF Mode, ModeOf, NextSector, NextOf
        <5>3. QED
          BY <1>3, <3>1, <4>1, <5>2, StreamWaits
      <4>4. QED
        BY <2>7, <3>3, <4>2, <4>3
    <3>4. QED
      BY <3>2, <3>3
  \* the disc is gone
  <2>9. CASE Due(m) /\ ~disc /\ ~(EndReached(r) /\ ~Repeats(r))
    BY <2>3, <2>9, StreamRequest DEF Delivers, Readable
  \* a sector is handed on
  <2>10. CASE Delivers(m)
    <3>1. /\ Readable(m) /\ ~NoRoom(m) /\ disc /\ m.fad <= play.last /\ out' = NextSector
          /\ r.status = m.status /\ r.ticks = m.ticks
      BY <2>1, <2>2, <2>3, <2>4, <2>10 DEF Delivers, Readable
    <3>2. CASE Mode = "scanning"
      BY <1>3, <2>1, <3>1, <3>2, StreamSamples
    <3>3. CASE Mode = "running"
      <4>1. r.fad = m.fad + 1
        BY <2>1, <2>2, <3>1, <3>3 DEF ModeOf
      <4>2. drive'.status # "NoDisc" /\ ModeOf(r) = Mode /\ (r.status # "Seek" \/ r.ticks <= 1)
        BY <2>1, <2>5, <3>1, <3>3 DEF ModeOf
      <4>3. CASE EndReached(r)
        <5>1. IsFad(play.start) => m.fad >= play.last
          BY <2>1, <2>4, <4>1, <4>3 DEF EndReached
        <5>2. PassAgain \/ PlayOver
          BY <2>6, <4>2, <4>3
        <5>3. QED
          BY <1>3, <2>1, <3>1, <3>3, <5>1, <5>2, StreamHandsOn
      <4>4. CASE ~EndReached(r)
        <5>1. drive' = r /\ "PEND" \notin raised'
          BY <2>3, <2>7, <4>2, <4>4
        <5>2. NextSector' = NextSector + 1 /\ Mode' = Mode /\ drive'.repeat = drive.repeat
          BY <2>1, <2>2, <3>1, <4>1, <5>1 DEF Mode, ModeOf, NextSector, NextOf
        <5>3. QED
          BY <1>3, <2>1, <3>1, <3>3, <5>1, <5>2, StreamHandsOn
      <4>5. QED
        BY <4>3, <4>4
    <3>4. QED
      BY <2>1, <3>2, <3>3 DEF Mode, ModeOf
  <2>11. QED
    BY <2>8, <2>9, <2>10 DEF Delivers, Readable
<1>6. QED
  BY <1>4, <1>5

\* An event keeps the invariant.
LEMMA EventKeepsInv ==
  ASSUME DriveInv, NEW report \in BOOLEAN, NEW stored, NEW w, NEW m, NEW r,
         Event(report, stored, w, m, r)
  PROVE  DriveInv'
<1>1. w \in DriveStates /\ w.status = drive.status
  BY WokenDoes DEF Event
<1>2. m \in DriveStates /\ (m.status \in {"Seek", "Play"} => drive.status \in {"Seek", "Play"})
  BY <1>1, MovedDoes DEF Event
<1>3. UNCHANGED <<play, disc, commands>>
  BY DEF Event
<1>4. drive' \in DriveStates /\ (~disc => drive'.status \notin {"Seek", "Play"})
  <2>1. ~disc => m.status \notin {"Seek", "Play"}
    BY <1>2 DEF DriveInv
  <2>2. CASE ~(Running(m) /\ ~Blocked(m))
    <3>1. drive' = Polled(m, report)
      BY <2>2 DEF Event
    <3>2. QED
      BY <1>2, <2>1, <3>1, PolledDoes
  <2>3. CASE Running(m) /\ ~Blocked(m)
    <3>1. r \in DriveStates /\ (r.status \notin {"NoDisc", "Error"} => r.status = m.status)
      BY <1>2, <2>3, ReadDoes DEF Event
    <3>2. PICK e : e = Ended(r)
      OBVIOUS
    <3>3. e \in DriveStates /\ e.status \in {r.status, "Pause"}
      BY <3>1, <3>2, EndedDoes
    <3>4. drive' = Polled(IF EndReached(r) THEN e ELSE r, report)
      BY <2>3, <3>2 DEF Event
    <3>5. CASE EndReached(r)
      <4>1. drive' = Polled(e, report)
        BY <3>4, <3>5
      <4>2. QED
        BY <2>1, <3>1, <3>3, <4>1, PolledDoes
    <3>6. CASE ~EndReached(r)
      <4>1. drive' = Polled(r, report)
        BY <3>4, <3>6
      <4>2. QED
        BY <2>1, <3>1, <4>1, PolledDoes
    <3>7. QED
      BY <3>5, <3>6
  <2>4. QED
    BY <2>2, <2>3
<1>5. out' \in 0..Len(Position)
  <2>1. Delivers(m) => m.fad \in 0..Len(Position)
    BY Sizes DEF Delivers, Readable, DiscFads
  <2>2. QED
    BY <2>1 DEF Event, DriveInv
<1>6. room' \in 0..MaxRoom
  <2>1. MaxRoom \in Nat /\ room \in 0..MaxRoom
    BY DriveAssumption DEF DriveInv
  <2>2. Delivers(m) /\ Data(m.fad) => room # 0
    BY DEF Delivers, NoRoom
  <2>3. QED
    BY <2>1, <2>2 DEF Event
<1>7. QED
  BY <1>3, <1>4, <1>5, <1>6 DEF DriveInv

-----------------------------------------------------------------------------
(***************************************************************************)
(* The commands of the host, and the tray.                                 *)
(***************************************************************************)

\* A command that leaves the drive and its parameters well formed, and neither
\* seeks nor plays without a disc, keeps the invariant.
LEMMA CommandKeepsInv ==
  ASSUME DriveInv, NEW flags, Command(flags), drive' \in DriveStates, play' \in PlayStates,
         disc' \in BOOLEAN, room' \in 0..MaxRoom,
         ~disc' => drive'.status \notin {"Seek", "Play"}
  PROVE  DriveInv'
<1>1. commands' \in 0..MaxCommands
  BY DriveAssumption DEF DriveInv, Command
<1>2. UNCHANGED out
  BY DEF Command
<1>3. QED
  BY <1>1, <1>2 DEF DriveInv

\* What a command that only changes the drive needs.
LEMMA DriveCommandKeepsInv ==
  ASSUME DriveInv, NEW flags, Command(flags), drive' \in DriveStates, UNCHANGED <<play, disc, room>>,
         ~disc => drive'.status \notin {"Seek", "Play"}
  PROVE  DriveInv'
BY CommandKeepsInv DEF DriveInv

LEMMA SoughtType ==
  ASSUME DriveInv, NEW target \in Address, NEW t \in Nat
  PROVE  Sought(target, t) \in DriveStates
<1>1. drive \in DriveStates /\ "Seek" \in Statuses /\ <<t, 1>> \in TrackAndIndex /\ 0 \in Byte
  BY DEF DriveInv, Statuses, TrackAndIndex, Byte
<1>2. SeekTicks \in Countdown
  BY DriveAssumption DEF Countdown
<1>3. QED
  BY <1>1, <1>2 DEF Sought, DriveStates

LEMMA StatusType ==
  ASSUME DriveInv, NEW s \in Statuses
  PROVE  [drive EXCEPT !.status = s] \in DriveStates
BY DEF DriveInv, DriveStates

LEMMA PlayParamsType ==
  ASSUME DriveInv, NEW s \in 0..Keep, NEW e \in 0..Keep, NEW r \in 0..255, NEW p, p = PlayParams(s, e, r)
  PROVE  /\ p \in PlayStates
         /\ p.start = (IF s = Keep THEN play.start ELSE s)
         /\ p.start \in Nat /\ p.end \in Nat /\ p.first \in Address /\ p.last \in Address
<1>1. play \in PlayStates
  BY DEF DriveInv
<1>2. play.start \in 0..Keep /\ play.end \in 0..Keep /\ play.rep \in Byte
  BY <1>1 DEF PlayStates
<1>3. r \in Byte
  BY DEF Byte
<1>4. PICK start : start = IF s = Keep THEN play.start ELSE s
  OBVIOUS
<1>5. PICK end : end = IF e = Keep THEN play.end ELSE e
  OBVIOUS
<1>6. PICK rep : rep = IF r = KeepRepeat THEN play.rep ELSE r
  OBVIOUS
<1>7. PICK max : max = (IF r = KeepRepeat THEN play.rep ELSE r) % 16
  OBVIOUS
<1>8. start \in 0..Keep /\ end \in 0..Keep /\ rep \in Byte
  BY <1>2, <1>3, <1>4, <1>5, <1>6
<1>9. max \in 0..15 /\ FALSE \in Flag
  BY <1>2, <1>3, <1>7 DEF Byte, Flag
<1>10. p = [play EXCEPT !.start = start, !.end = end, !.rep = rep, !.max = max, !.file = FALSE]
  BY <1>4, <1>5, <1>6, <1>7 DEF PlayParams
<1>11. p \in PlayStates /\ p.start = start
  BY <1>1, <1>8, <1>9, <1>10 DEF PlayStates
<1>12. p.start \in Nat /\ p.end \in Nat /\ p.first \in Address /\ p.last \in Address
  BY <1>11, Sizes DEF PlayStates
<1>13. QED
  BY <1>4, <1>11, <1>12

LEMMA PlayAddressesTypes ==
  ASSUME DriveInv, NEW p \in PlayStates, NEW e, NEW r, PlayAddresses(p, e, r)
  PROVE  drive' \in DriveStates /\ play' \in PlayStates
<1>1. p.start \in Nat /\ p.end \in Nat /\ p.last \in Address
  BY Sizes DEF PlayStates
<1>2. PICK first : first = p.start % FadFlag
  OBVIOUS
<1>3. first \in Nat /\ first \in Address
  BY <1>1, <1>2, Sizes DEF Address
<1>4. PICK last : last = IF e = Keep THEN p.last ELSE (first + (p.end % FadFlag) - 1) % Addresses
  OBVIOUS
<1>5. first + (p.end % FadFlag) - 1 \in Int
  BY <1>1, <1>3, Sizes
<1>6. last \in Address
  BY <1>1, <1>4, <1>5, Modulo
<1>7. PICK range : range = [p EXCEPT !.first = first, !.last = last]
  OBVIOUS
<1>8. range \in PlayStates /\ range.first \in Address
  BY <1>3, <1>6, <1>7 DEF PlayStates
<1>9. PICK from : from = PlayFrom(range, r)
  OBVIOUS
<1>10. from \in Address /\ from \in Int
  <2>1. drive.fad \in Address
    BY DEF DriveInv, DriveStates
  <2>2. QED
    BY <1>8, <1>9, <2>1 DEF PlayFrom, Address
<1>11. /\ play' = range
       /\ drive' = IF TracksAt(from) = {} THEN [drive EXCEPT !.status = "Pause"]
                   ELSE [Sought(from, Lowest(TracksAt(from))) EXCEPT !.fad = from]
  BY <1>2, <1>4, <1>7, <1>9 DEF PlayAddresses
<1>12. drive' \in DriveStates
  <2>1. CASE TracksAt(from) = {}
    BY <1>11, <2>1, StatusType DEF Statuses
  <2>2. CASE TracksAt(from) # {}
    <3>1. Lowest(TracksAt(from)) \in Nat
      BY <1>10, <2>2, TrackAt, TrackNumbers
    <3>2. Sought(from, Lowest(TracksAt(from))) \in DriveStates
      BY <1>10, <3>1, SoughtType
    <3>3. QED
      BY <1>10, <1>11, <2>2, <3>2 DEF DriveStates
  <2>3. QED
    BY <2>1, <2>2
<1>13. QED
  BY <1>8, <1>11, <1>12

LEMMA PlayTracksTypes ==
  ASSUME DriveInv, NEW p \in PlayStates, NEW r, PlayTracks(p, r)
  PROVE  /\ drive' \in DriveStates /\ play' \in PlayStates
<1>1. p.start \in Nat /\ p.end \in Nat
  BY Sizes DEF PlayStates
<1>2. PICK startTrack : startTrack = ClampTrack(IF p.start = 0 THEN FirstTrack ELSE (p.start \div 256) % 256)
  OBVIOUS
<1>3. PICK endTrack : endTrack = ClampTrack(IF p.end = 0 THEN LastTrack ELSE (p.end \div 256) % 256)
  OBVIOUS
<1>4. startTrack \in Tracks /\ endTrack \in Tracks
  <2>1. FirstTrack \in Int /\ LastTrack \in Int
    BY TrackNumbers
  <2>2. QED
    BY <1>1, <1>2, <1>3, <2>1, Clamped
<1>5. StartFad(startTrack) \in Address /\ EndFad(endTrack) \in Address
  <2>1. StartFad(startTrack) \in DiscFads /\ EndFad(endTrack) \in 0..Len(Position)
    BY <1>4, TrackBounds
  <2>2. 0..Len(Position) \subseteq Address
    <3>1. Len(Position) \in Nat /\ Len(Position) + 1 < FadFlag /\ FadFlag < Keep /\ Addresses > Keep + 1
          /\ FadFlag \in Nat /\ Keep \in Nat /\ Addresses \in Nat
      BY Sizes
    <3>2. Len(Position) <= Addresses - 1
      BY <3>1
    <3>3. QED
      BY <3>1, <3>2 DEF Address
  <2>3. QED
    BY <2>1, <2>2, Sizes
<1>6. PICK range : range = [p EXCEPT !.first = StartFad(startTrack), !.last = EndFad(endTrack)]
  OBVIOUS
<1>7. range \in PlayStates /\ range.first \in Address
  BY <1>5, <1>6 DEF PlayStates
<1>8. PICK from : from = PlayFrom(range, r)
  OBVIOUS
<1>9. drive.fad \in Address /\ drive \in DriveStates
  BY DEF DriveInv, DriveStates
<1>10. from \in Address /\ from \in Int
  BY <1>7, <1>8, <1>9 DEF PlayFrom, Address
<1>11. PICK startIndex : startIndex = ClampIndex(IF p.start = 0 THEN 1 ELSE p.start % 256)
  OBVIOUS
<1>12. PICK inside : inside = {f \in DiscFads : Position[f] = <<startTrack, startIndex>>}
  OBVIOUS
<1>13. PICK target : target = IF ~(r < 128 \/ drive.fad < range.first \/ drive.fad > range.last + 1)
                              THEN drive.fad
                              ELSE IF inside = {} THEN Keep ELSE Lowest(inside)
  OBVIOUS
<1>14. target \in Address
  <2>1. Keep \in Address
    BY Sizes
  <2>2. inside # {} => Lowest(inside) \in Address
    BY <1>12, LowestIn, Sizes
  <2>3. QED
    BY <1>9, <1>13, <2>1, <2>2
<1>15. /\ play' = range
       /\ drive' = IF TracksAt(from) = {} THEN [drive EXCEPT !.seek = target]
                   ELSE Sought(target, Lowest(TracksAt(from)))
  BY <1>2, <1>3, <1>6, <1>8, <1>11, <1>12, <1>13 DEF PlayTracks
<1>16. drive' \in DriveStates
  <2>1. CASE TracksAt(from) = {}
    BY <1>9, <1>14, <1>15, <2>1 DEF DriveStates
  <2>2. CASE TracksAt(from) # {}
    <3>1. Lowest(TracksAt(from)) \in Nat
      BY <1>10, <2>2, TrackAt, TrackNumbers
    <3>2. QED
      BY <1>14, <1>15, <2>2, <3>1, SoughtType
  <2>3. QED
    BY <2>1, <2>2
<1>17. QED
  BY <1>7, <1>15, <1>16

LEMMA WaitAtType ==
  ASSUME DriveInv, NEW f \in Address, NEW track \in Nat, NEW index \in Nat
  PROVE  WaitAt(f, track, index) \in DriveStates /\ WaitAt(f, track, index).status = "Pause"
<1>1. drive \in DriveStates /\ "Pause" \in Statuses /\ <<track, index>> \in TrackAndIndex
  BY DEF DriveInv, Statuses, TrackAndIndex
<1>2. QED
  BY <1>1 DEF WaitAt, DriveStates

LEMMA SeekAddressType ==
  ASSUME DriveInv, NEW target \in Nat
  PROVE  LET d == SeekAddress(Highest({1, target % FadFlag}))
         IN  d \in DriveStates /\ d.status = "Pause"
<1>1. PICK f : f = Highest({1, target % FadFlag})
  OBVIOUS
<1>2. target % FadFlag \in 0..FadFlag /\ FadFlag \in Nat /\ 1 \in 0..FadFlag
  <2>1. FadFlag \in Nat /\ FadFlag > 1
    BY SMT DEF FadFlag
  <2>2. QED
    BY <2>1
<1>3. f \in {1, target % FadFlag}
  BY <1>1, <1>2, HighestIn
<1>4. f \in 0..Keep /\ f \in Nat /\ f \in Address
  <2>1. f \in Nat /\ f <= FadFlag
    BY <1>2, <1>3
  <2>2. QED
    BY <2>1, Sizes
<1>5. CASE TracksAt(f) = {}
  <2>1. Len(Position) + 1 \in Address
    BY Sizes DEF Address
  <2>2. QED
    BY <1>1, <1>5, <2>1, WaitAtType DEF SeekAddress
<1>6. CASE TracksAt(f) # {}
  <2>1. Lowest(TracksAt(f)) \in Nat
    BY <1>4, <1>6, TrackAt, TrackNumbers
  <2>2. QED
    BY <1>1, <1>4, <1>6, <2>1, WaitAtType DEF SeekAddress
<1>7. QED
  BY <1>5, <1>6

LEMMA SeekTrackType ==
  ASSUME DriveInv, NEW track \in Nat, NEW index \in Nat
  PROVE  SeekTrack(track, index) \in DriveStates /\ SeekTrack(track, index).status = "Pause"
<1>1. PICK t : t = IF track = 0 THEN FirstTrack ELSE ClampTrack(track)
  OBVIOUS
<1>2. PICK i : i = IF track \in Tracks \cup {0} THEN index ELSE 1
  OBVIOUS
<1>3. t \in Tracks /\ t \in Nat /\ i \in Nat
  BY <1>1, <1>2, TrackNumbers, Clamped, SMTT(30)
<1>4. PICK u : u = ClampTrack(t + 1)
  OBVIOUS
<1>5. u \in Tracks /\ u \in Nat
  <2>1. t + 1 \in Int
    BY <1>3
  <2>2. u \in Tracks
    BY <1>4, <2>1, Clamped
  <2>3. QED
    BY <2>2, TrackNumbers
<1>6. StartFad(t) \in Address /\ StartFad(u) \in Address
  BY <1>3, <1>5, TrackBounds, Sizes
<1>7. ClampIndex(i) \in Nat
  BY <1>3 DEF ClampIndex
<1>8. SeekTrack(track, index) = IF i <= 99 THEN WaitAt(StartFad(t), t, ClampIndex(i)) ELSE WaitAt(StartFad(u), u, 1)
  BY <1>1, <1>2, <1>4 DEF SeekTrack
<1>9. QED
  BY <1>3, <1>5, <1>6, <1>7, <1>8, WaitAtType

\* Each command keeps the invariant.
LEMMA PlayDiscKeepsInv ==
  ASSUME DriveInv, NEW q \in Plays, PlayDisc(q[1], q[2], q[3])
  PROVE  DriveInv'
<1>1. PICK s \in 0..Keep, e \in 0..Keep, n \in 0..255 : PlayDisc(s, e, n)
  BY DriveAssumption
<1>2. PICK p : p = PlayParams(s, e, n)
  OBVIOUS
<1>3. p \in PlayStates
  BY <1>2, PlayParamsType
<1>4. Command({"CMOK"}) /\ UNCHANGED <<disc, room>>
  BY <1>1 DEF PlayDisc
<1>5. drive \in DriveStates /\ play \in PlayStates /\ disc \in BOOLEAN /\ room \in 0..MaxRoom
      /\ (~disc => drive.status \notin {"Seek", "Play"})
  BY DEF DriveInv
<1>6. \/ ~disc /\ drive' = [drive EXCEPT !.status = "NoDisc"] /\ UNCHANGED play
      \/ disc /\ drive' = [drive EXCEPT !.status = "Play"] /\ UNCHANGED play
      \/ disc /\ UNCHANGED <<drive, play>>
      \/ disc /\ PlayAddresses(p, e, n)
      \/ disc /\ PlayTracks(p, n)
  BY <1>1, <1>2 DEF PlayDisc
<1>7. /\ drive' \in DriveStates /\ play' \in PlayStates
      /\ ~disc => drive'.status \notin {"Seek", "Play"}
  <2>1. CASE ~disc /\ drive' = [drive EXCEPT !.status = "NoDisc"] /\ UNCHANGED play
    <3>1. drive' \in DriveStates
      BY <2>1, StatusType DEF Statuses
    <3>2. drive'.status = "NoDisc"
      BY <1>5, <2>1 DEF DriveStates
    <3>3. QED
      BY <1>5, <2>1, <3>1, <3>2
  <2>2. CASE disc /\ drive' = [drive EXCEPT !.status = "Play"] /\ UNCHANGED play
    BY <1>5, <2>2, StatusType DEF Statuses
  <2>3. CASE disc /\ UNCHANGED <<drive, play>>
    BY <1>5, <2>3
  <2>4. CASE disc /\ PlayAddresses(p, e, n)
    BY <1>3, <2>4, PlayAddressesTypes
  <2>5. CASE disc /\ PlayTracks(p, n)
    BY <1>3, <2>5, PlayTracksTypes
  <2>6. QED
    BY <1>6, <2>1, <2>2, <2>3, <2>4, <2>5
<1>8. QED
  BY <1>4, <1>5, <1>7, CommandKeepsInv

LEMMA ReadFileKeepsInv ==
  ASSUME DriveInv, NEW q \in Files, ReadFile(q[1], q[2], q[3])
  PROVE  DriveInv'
<1>1. q[1] \in Nat /\ q[2] \in Nat /\ q[3] \in Nat
  BY DriveAssumption
<1>2. PICK at : at = q[1] + q[3]
  OBVIOUS
<1>3. PICK last : last = (q[1] + q[2] - q[3] - 1) % Addresses
  OBVIOUS
<1>4. at \in Int /\ last \in Address
  BY <1>1, <1>2, <1>3, Modulo
<1>5. Command({"CMOK", "DRDY"}) /\ UNCHANGED <<disc, room>>
  BY DEF ReadFile
<1>6. drive \in DriveStates /\ play \in PlayStates /\ disc \in BOOLEAN /\ room \in 0..MaxRoom
      /\ (~disc => drive.status \notin {"Seek", "Play"})
  BY DEF DriveInv
<1>7. \/ ~disc /\ drive' = [drive EXCEPT !.status = "Pause"] /\ UNCHANGED play
      \/ \E t \in TracksAt(at) \ AudioTracks :
            /\ disc
            /\ play' = [play EXCEPT !.first = at, !.last = last, !.max = 0, !.file = TRUE]
            /\ drive' = Sought(at, t)
      \/ disc /\ UNCHANGED <<drive, play>>
  BY <1>2, <1>3 DEF ReadFile
<1>8. /\ drive' \in DriveStates /\ play' \in PlayStates
      /\ ~disc => drive'.status \notin {"Seek", "Play"}
  <2>1. CASE ~disc /\ drive' = [drive EXCEPT !.status = "Pause"] /\ UNCHANGED play
    <3>1. drive' \in DriveStates
      BY <2>1, StatusType DEF Statuses
    <3>2. drive'.status = "Pause"
      BY <1>6, <2>1 DEF DriveStates
    <3>3. QED
      BY <1>6, <2>1, <3>1, <3>2
  <2>2. CASE \E t \in TracksAt(at) \ AudioTracks :
               /\ disc
               /\ play' = [play EXCEPT !.first = at, !.last = last, !.max = 0, !.file = TRUE]
               /\ drive' = Sought(at, t)
    <3>1. PICK t \in TracksAt(at) : drive' = Sought(at, t)
      BY <2>2
    <3>2. at \in DiscFads /\ t \in Tracks
      BY <1>4, TrackAt
    <3>3. at \in Address /\ t \in Nat
      BY <3>2, Sizes, TrackNumbers
    <3>4. TRUE \in Flag /\ 0 \in 0..15
      BY DEF Flag
    <3>5. play' \in PlayStates
      BY <1>4, <1>6, <2>2, <3>3, <3>4 DEF PlayStates
    <3>6. QED
      BY <2>2, <3>1, <3>3, <3>5, SoughtType
  <2>3. CASE disc /\ UNCHANGED <<drive, play>>
    BY <1>6, <2>3
  <2>4. QED
    BY <1>7, <2>1, <2>2, <2>3
<1>9. QED
  BY <1>5, <1>6, <1>8, CommandKeepsInv

LEMMA StopKeepsInv ==
  ASSUME DriveInv, Pause \/ Stop \/ \E back \in BOOLEAN : ScanDisc(back)
  PROVE  DriveInv'
<1>1. drive \in DriveStates /\ FALSE \in Flag
  BY DEF DriveInv, Flag
<1>2. CASE Pause
  <2>1. drive' = [drive EXCEPT !.status = "Pause", !.full = FALSE]
    BY <1>2 DEF Pause
  <2>2. drive' \in DriveStates /\ drive'.status = "Pause"
    BY <1>1, <2>1 DEF DriveStates, Statuses
  <2>3. QED
    BY <1>2, <2>2, DriveCommandKeepsInv DEF Pause
<1>3. CASE Stop
  <2>1. drive' = Halted(drive, "Standby")
    BY <1>3 DEF Stop
  <2>2. drive' \in DriveStates
    BY <1>1, <2>1, HaltedType DEF Statuses
  <2>3. drive'.status = "Standby"
    BY <1>1, <2>1 DEF DriveStates, Halted
  <2>4. QED
    BY <1>3, <2>2, <2>3, DriveCommandKeepsInv DEF Stop
<1>4. ASSUME NEW back \in BOOLEAN, ScanDisc(back) PROVE DriveInv'
  <2>1. drive' = [drive EXCEPT !.status = "Scan", !.back = back, !.count = 0]
    BY <1>4 DEF ScanDisc
  <2>2. 0 \in Counted /\ back \in Flag /\ "Scan" \in Statuses
    BY DriveAssumption DEF Counted, Flag, Statuses
  <2>3. drive' \in DriveStates /\ drive'.status = "Scan"
    BY <1>1, <2>1, <2>2 DEF DriveStates
  <2>4. QED
    BY <1>4, <2>3, DriveCommandKeepsInv DEF ScanDisc
<1>5. QED
  BY <1>2, <1>3, <1>4

LEMMA SeekDiscKeepsInv ==
  ASSUME DriveInv, NEW target \in SeekTargets, SeekDisc(target)
  PROVE  DriveInv'
<1>1. target \in Nat /\ drive \in DriveStates
  BY DriveAssumption, Sizes DEF DriveInv
<1>2. PICK track : track = (target \div 256) % 128
  OBVIOUS
<1>3. PICK index : index = target % 128
  OBVIOUS
<1>4. track \in Nat /\ index \in Nat
  BY <1>1, <1>2, <1>3
<1>5. drive' = IF ~disc THEN Halted(drive, "NoDisc")
               ELSE IF IsFad(target) THEN SeekAddress(Highest({1, target % FadFlag}))
               ELSE SeekTrack(track, index)
  BY <1>2, <1>3 DEF SeekDisc
<1>6. drive' \in DriveStates /\ drive'.status \notin {"Seek", "Play"}
  <2>1. CASE ~disc
    <3>1. drive' \in DriveStates
      BY <1>1, <1>5, <2>1, HaltedType DEF Statuses
    <3>2. drive'.status = "NoDisc"
      BY <1>1, <1>5, <2>1 DEF DriveStates, Halted
    <3>3. QED
      BY <3>1, <3>2
  <2>2. CASE disc /\ IsFad(target)
    BY <1>1, <1>5, <2>2, SeekAddressType
  <2>3. CASE disc /\ ~IsFad(target)
    BY <1>4, <1>5, <2>3, SeekTrackType
  <2>4. QED
    BY <2>1, <2>2, <2>3
<1>7. Command({"CMOK"}) /\ UNCHANGED <<play, disc, room>>
  BY DEF SeekDisc
<1>8. QED
  BY <1>6, <1>7, DriveCommandKeepsInv

LEMMA InitializeKeepsInv ==
  ASSUME DriveInv, NEW soft \in BOOLEAN, InitializeCDSystem(soft)
  PROVE  DriveInv'
<1>1. drive \in DriveStates /\ play \in PlayStates /\ disc \in BOOLEAN /\ room \in 0..MaxRoom
      /\ (~disc => drive.status \notin {"Seek", "Play"})
  BY DEF DriveInv
<1>2. /\ 1 \in Address /\ Keep \in Address /\ Keep \in 0..Keep /\ 0 \in Byte /\ FALSE \in Flag
      /\ 0 \in 0..15
  BY Sizes DEF Address, Byte, Flag
<1>3. PICK s : s = IF disc THEN "Pause" ELSE "NoDisc"
  OBVIOUS
<1>4. drive' = IF drive.status \in {"Open", "NoDisc"} THEN drive ELSE [drive EXCEPT !.status = s, !.fad = 1]
  BY <1>3 DEF InitializeCDSystem
<1>5. s \in Statuses /\ s \notin {"Seek", "Play"}
  BY <1>3 DEF Statuses
<1>6. drive' \in DriveStates /\ (~disc => drive'.status \notin {"Seek", "Play"})
  <2>1. CASE drive.status \in {"Open", "NoDisc"}
    BY <1>1, <1>4, <2>1
  <2>2. CASE drive' = [drive EXCEPT !.status = s, !.fad = 1]
    BY <1>1, <1>2, <1>5, <2>2 DEF DriveStates
  <2>3. QED
    BY <1>4, <2>1, <2>2
<1>7. play' \in PlayStates
  <2>1. PICK fresh : fresh = [start |-> Keep, end |-> Keep, rep |-> 0, first |-> Keep, last |-> Keep,
                              max |-> 0, file |-> FALSE]
    OBVIOUS
  <2>2. fresh \in PlayStates
    BY <1>2, <2>1 DEF PlayStates
  <2>3. play' = IF soft THEN fresh ELSE play
    BY <2>1 DEF InitializeCDSystem
  <2>4. QED
    BY <1>1, <2>2, <2>3
<1>8. room' \in 0..MaxRoom /\ UNCHANGED disc /\ Command({"CMOK", "EFLS", "ECPY", "EHST", "ESEL"})
  BY <1>1, DriveAssumption DEF InitializeCDSystem
<1>9. QED
  BY <1>1, <1>6, <1>7, <1>8, CommandKeepsInv

LEMMA OpenedType ==
  ASSUME NEW d \in DriveStates
  PROVE  Opened(d) \in DriveStates /\ Opened(d).status = "Open"
BY DEF Opened, DriveStates, Statuses

LEMMA TrayKeepsInv ==
  ASSUME DriveInv, (\E byHost \in BOOLEAN : OpenTray(byHost)) \/ CloseTray \/ EjectDisc \/ LoadDisc
  PROVE  DriveInv'
<1>1. drive \in DriveStates /\ play \in PlayStates /\ disc \in BOOLEAN /\ room \in 0..MaxRoom
      /\ (~disc => drive.status \notin {"Seek", "Play"})
  BY DEF DriveInv
<1>2. ASSUME NEW byHost \in BOOLEAN, OpenTray(byHost) PROVE DriveInv'
  <2>1. PICK flags : Command(flags)
    BY <1>2 DEF OpenTray
  <2>2. drive' \in DriveStates /\ drive'.status = "Open"
    BY <1>1, <1>2, OpenedType DEF OpenTray
  <2>3. QED
    BY <1>2, <2>1, <2>2, DriveCommandKeepsInv DEF OpenTray
<1>3. CASE CloseTray
  <2>1. PICK s : s = IF disc THEN "Pause" ELSE "NoDisc"
    OBVIOUS
  <2>2. drive' = [drive EXCEPT !.status = s]
    BY <1>3, <2>1 DEF CloseTray
  <2>3. s \in Statuses /\ s \notin {"Seek", "Play"}
    BY <2>1 DEF Statuses
  <2>4. drive' \in DriveStates /\ drive'.status = s
    BY <1>1, <2>2, <2>3 DEF DriveStates
  <2>5. QED
    BY <1>3, <2>3, <2>4, DriveCommandKeepsInv DEF CloseTray
<1>4. CASE EjectDisc
  <2>1. PICK h : h = Halted(drive, drive.status)
    OBVIOUS
  <2>2. h \in DriveStates
    BY <1>1, <2>1, Fields, HaltedType
  <2>3. PICK d : d = [h EXCEPT !.seek = Keep]
    OBVIOUS
  <2>4. d \in DriveStates
    <3>1. Keep \in Address
      BY Sizes
    <3>2. QED
      BY <2>2, <2>3, <3>1 DEF DriveStates
  <2>5. drive' = Opened(d)
    BY <1>4, <2>1, <2>3 DEF EjectDisc
  <2>6. drive' \in DriveStates /\ drive'.status = "Open"
    BY <2>4, <2>5, OpenedType
  <2>7. PICK flags : Command(flags)
    BY <1>4 DEF EjectDisc
  <2>8. disc' = FALSE /\ UNCHANGED <<play, room>>
    BY <1>4 DEF EjectDisc
  <2>9. disc' \in BOOLEAN
    BY <2>8
  <2>10. QED
    BY <1>1, <2>6, <2>7, <2>8, <2>9, CommandKeepsInv
<1>5. CASE LoadDisc
  <2>1. PICK s : s = IF drive.status \in {"NoDisc", "Open", "Play", "Seek"} THEN "Pause" ELSE drive.status
    OBVIOUS
  <2>2. s \in Statuses
    BY <1>1, <2>1, Fields DEF Statuses
  <2>3. drive' = [drive EXCEPT !.seek = Keep, !.status = s]
    BY <1>5, <2>1 DEF LoadDisc
  <2>4. drive' \in DriveStates
    <3>1. Keep \in Address
      BY Sizes
    <3>2. QED
      BY <1>1, <2>2, <2>3, <3>1 DEF DriveStates
  <2>5. Command({"DCHG", "EFLS"}) /\ disc' = TRUE /\ UNCHANGED <<play, room>>
    BY <1>5 DEF LoadDisc
  <2>6. disc' \in BOOLEAN /\ disc'
    BY <2>5
  <2>7. QED
    BY <1>1, <2>4, <2>5, <2>6, CommandKeepsInv
<1>6. QED
  BY <1>2, <1>3, <1>4, <1>5

LEMMA FreeBufferKeepsInv ==
  ASSUME DriveInv, FreeBuffer
  PROVE  DriveInv'
<1>1. room' \in 0..MaxRoom
  BY DriveAssumption DEF DriveInv, FreeBuffer
<1>2. UNCHANGED <<drive, play, disc, out, commands>>
  BY DEF FreeBuffer
<1>3. QED
  BY <1>1, <1>2 DEF DriveInv

-----------------------------------------------------------------------------
(***************************************************************************)
(* The invariant, and with it the types.                                   *)
(***************************************************************************)
LEMMA DriveInvInit == Init => DriveInv
<1>1. SUFFICES ASSUME Init PROVE DriveInv
  OBVIOUS
<1>2. /\ Keep \in Address /\ 0 \in Address /\ 0 \in 0..Keep /\ NoPosition \in TrackAndIndex
      /\ 15 \in Byte /\ 0 \in Byte /\ FALSE \in Flag /\ 0 \in Counted /\ 0 \in Countdown /\ 0 \in 0..15
      /\ "Pause" \in Statuses
  BY Sizes, DriveAssumption DEF Address, NoPosition, TrackAndIndex, Byte, Flag, Counted, Countdown, Statuses
<1>3. drive \in DriveStates
  BY <1>1, <1>2 DEF Init, DriveStates
<1>4. play \in PlayStates
  BY <1>1, <1>2 DEF Init, PlayStates
<1>5. disc = TRUE
  BY <1>1 DEF Init
<1>6. disc \in BOOLEAN
  BY <1>5
<1>7. room \in 0..MaxRoom /\ out \in 0..Len(Position) /\ commands \in 0..MaxCommands
  BY <1>1, Sizes, DriveAssumption DEF Init
<1>8. QED
  BY <1>3, <1>4, <1>5, <1>6, <1>7 DEF DriveInv

LEMMA DriveInvNext == DriveInv /\ [Next]_vars => DriveInv'
<1>1. SUFFICES ASSUME DriveInv, [Next]_vars PROVE DriveInv'
  OBVIOUS
<1>2. CASE Tick
  BY <1>1, <1>2, TickIsEvent, EventKeepsInv
<1>3. CASE FreeBuffer
  BY <1>1, <1>3, FreeBufferKeepsInv
<1>4. ASSUME NEW q \in Plays, PlayDisc(q[1], q[2], q[3]) PROVE DriveInv'
  BY <1>1, <1>4, PlayDiscKeepsInv
<1>5. ASSUME NEW q \in Files, ReadFile(q[1], q[2], q[3]) PROVE DriveInv'
  BY <1>1, <1>5, ReadFileKeepsInv
<1>6. CASE Pause \/ Stop \/ \E back \in BOOLEAN : ScanDisc(back)
  BY <1>1, <1>6, StopKeepsInv
<1>7. ASSUME NEW t \in SeekTargets, SeekDisc(t) PROVE DriveInv'
  BY <1>1, <1>7, SeekDiscKeepsInv
<1>8. ASSUME NEW soft \in BOOLEAN, InitializeCDSystem(soft) PROVE DriveInv'
  BY <1>1, <1>8, InitializeKeepsInv
<1>9. CASE (\E byHost \in BOOLEAN : OpenTray(byHost)) \/ CloseTray \/ EjectDisc \/ LoadDisc
  BY <1>1, <1>9, TrayKeepsInv
<1>10. CASE UNCHANGED vars
  BY <1>1, <1>10 DEF vars, DriveInv
<1>11. QED
  BY <1>1, <1>2, <1>3, <1>4, <1>5, <1>6, <1>7, <1>8, <1>9, <1>10 DEF Next

LEMMA DriveInvTypes == DriveInv => TypeOK
<1>1. SUFFICES ASSUME DriveInv PROVE TypeOK
  OBVIOUS
<1>2. drive \in DriveStates /\ play.max \in 0..15
  BY <1>1 DEF DriveInv, PlayStates
<1>3. /\ drive.status \in Statuses /\ drive.fad \in Address /\ drive.repeat \in Byte
      /\ drive.ticks \in Countdown /\ drive.seek \in Address /\ drive.full \in Flag
      /\ drive.count \in Counted
  BY <1>2, Fields
<1>4. QED
  BY <1>1, <1>2, <1>3 DEF TypeOK, DriveInv, Address, Byte, Countdown, Flag, Counted

LEMMA DriveInvHolds == Spec => []DriveInv
BY DriveInvInit, DriveInvNext, PTL DEF Spec

\* For every disc and every sequence of commands: the status of the drive is one
\* of the eight, its addresses are addresses of 32 bits, the countdown of a seek
\* and the counter of a scan stay below their reset values, and the free buffers
\* neither go below zero nor above the pool.
THEOREM DriveTypesHold == Spec => []TypeOK
BY DriveInvHolds, DriveInvTypes, PTL

-----------------------------------------------------------------------------
(***************************************************************************)
(* The drive implements the stream.                                        *)
(***************************************************************************)

\* What the host asks for is a request; the tray, when it was open before, moves
\* nothing that was running.
LEMMA CommandSimulates ==
  ASSUME NEW flags, Command(flags), "CMOK" \in flags \/ "DCHG" \in flags, "PEND" \notin flags
  PROVE  Stream!StreamNext
BY StreamRequest DEF Command

LEMMA OpenTraySimulates ==
  ASSUME DriveInv, Command({}), drive.status = "Open", drive'.status \in {"Open", "Pause", "NoDisc"}
  PROVE  Stream!StreamNext
<1>1. Mode = "idle" /\ Mode' = "idle"
  BY DEF Mode, ModeOf
<1>2. raised' = {} /\ UNCHANGED out
  BY DEF Command
<1>3. QED
  BY <1>1, <1>2, StreamRests

LEMMA TraySimulates ==
  ASSUME DriveInv, (\E byHost \in BOOLEAN : OpenTray(byHost)) \/ CloseTray \/ EjectDisc \/ LoadDisc
  PROVE  Stream!StreamNext
<1>1. drive \in DriveStates
  BY DEF DriveInv
<1>2. ASSUME NEW byHost \in BOOLEAN, OpenTray(byHost) PROVE Stream!StreamNext
  <2>1. drive' \in DriveStates /\ drive'.status = "Open"
    BY <1>1, <1>2, OpenedType DEF OpenTray
  <2>2. Command({"CMOK", "DCHG", "EFLS"}) \/ Command({"DCHG", "EFLS"})
        \/ (Command({}) /\ drive.status = "Open")
    BY <1>2 DEF OpenTray
  <2>3. QED
    BY <2>1, <2>2, CommandSimulates, OpenTraySimulates
<1>3. CASE CloseTray
  <2>1. PICK s : s = IF disc THEN "Pause" ELSE "NoDisc"
    OBVIOUS
  <2>2. drive' = [drive EXCEPT !.status = s]
    BY <1>3, <2>1 DEF CloseTray
  <2>3. drive'.status = s
    BY <1>1, <2>2 DEF DriveStates
  <2>4. QED
    BY <1>3, <2>1, <2>3, OpenTraySimulates DEF CloseTray
<1>4. CASE EjectDisc
  <2>1. PICK h : h = Halted(drive, drive.status)
    OBVIOUS
  <2>2. h \in DriveStates
    BY <1>1, <2>1, Fields, HaltedType
  <2>3. PICK d : d = [h EXCEPT !.seek = Keep]
    OBVIOUS
  <2>4. d \in DriveStates
    <3>1. Keep \in Address
      BY Sizes
    <3>2. QED
      BY <2>2, <2>3, <3>1 DEF DriveStates
  <2>5. drive' = Opened(d)
    BY <1>4, <2>1, <2>3 DEF EjectDisc
  <2>6. drive'.status = "Open"
    BY <2>4, <2>5, OpenedType
  <2>7. Command({"DCHG", "EFLS"}) \/ (Command({}) /\ drive.status = "Open")
    BY <1>4 DEF EjectDisc
  <2>8. QED
    BY <2>6, <2>7, CommandSimulates, OpenTraySimulates
<1>5. CASE LoadDisc
  <2>1. Command({"DCHG", "EFLS"})
    BY <1>5 DEF LoadDisc
  <2>2. QED
    BY <2>1, CommandSimulates
<1>6. QED
  BY <1>2, <1>3, <1>4, <1>5

LEMMA FreeBufferSimulates ==
  ASSUME FreeBuffer
  PROVE  Stream!StreamNext
<1>1. UNCHANGED <<drive, play, out>> /\ raised' = {}
  BY DEF FreeBuffer
<1>2. Mode' = Mode /\ NextSector' = NextSector
  BY <1>1 DEF Mode, ModeOf, NextSector, NextOf
<1>3. QED
  BY <1>1, <1>2, StreamWaits

LEMMA StepSimulates == DriveInv /\ [Next]_vars => [Stream!StreamNext]_(Stream!streamVars)
<1>1. SUFFICES ASSUME DriveInv, [Next]_vars
               PROVE  Stream!StreamNext \/ UNCHANGED Stream!streamVars
  OBVIOUS
<1>2. CASE Tick
  BY <1>1, <1>2, TickIsEvent, EventSimulates
<1>3. CASE FreeBuffer
  BY <1>3, FreeBufferSimulates
<1>4. ASSUME NEW q \in Plays, PlayDisc(q[1], q[2], q[3]) PROVE Stream!StreamNext
  <2>1. Command({"CMOK"})
    BY <1>4 DEF PlayDisc
  <2>2. QED
    BY <2>1, CommandSimulates
<1>5. ASSUME NEW q \in Files, ReadFile(q[1], q[2], q[3]) PROVE Stream!StreamNext
  <2>1. Command({"CMOK", "DRDY"})
    BY <1>5 DEF ReadFile
  <2>2. QED
    BY <2>1, CommandSimulates
<1>6. CASE Pause \/ Stop \/ \E back \in BOOLEAN : ScanDisc(back)
  <2>1. Command({"CMOK"})
    BY <1>6 DEF Pause, Stop, ScanDisc
  <2>2. QED
    BY <2>1, CommandSimulates
<1>7. ASSUME NEW t \in SeekTargets, SeekDisc(t) PROVE Stream!StreamNext
  <2>1. Command({"CMOK"})
    BY <1>7 DEF SeekDisc
  <2>2. QED
    BY <2>1, CommandSimulates
<1>8. ASSUME NEW soft \in BOOLEAN, InitializeCDSystem(soft) PROVE Stream!StreamNext
  <2>1. Command({"CMOK", "EFLS", "ECPY", "EHST", "ESEL"})
    BY <1>8 DEF InitializeCDSystem
  <2>2. QED
    BY <2>1, CommandSimulates
<1>9. CASE (\E byHost \in BOOLEAN : OpenTray(byHost)) \/ CloseTray \/ EjectDisc \/ LoadDisc
  BY <1>1, <1>9, TraySimulates
<1>10. CASE UNCHANGED vars
  BY <1>10 DEF vars, Stream!streamVars
<1>11. QED
  BY <1>1, <1>2, <1>3, <1>4, <1>5, <1>6, <1>7, <1>8, <1>9, <1>10 DEF Next

\* For every disc, every request and every number of buffers: the drive hands on
\* the sectors of a request in order and once per pass, whatever its seeks, its
\* waits for a buffer and its reports do in between, and signals the end of
\* playback (PEND) after the last sector of the last pass and never before.
THEOREM DriveImplementsStream == Spec => ImplementsStream
<1>1. Init => Stream!StreamInit
  BY DEF Init, Stream!StreamInit
<1>2. QED
  BY <1>1, DriveInvHolds, StepSimulates, PTL DEF Spec, ImplementsStream, Stream!StreamSpec
=============================================================================
