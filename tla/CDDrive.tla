------------------------------- MODULE CDDrive -------------------------------
(***************************************************************************)
(* The drive side of the CD block: the status machine that seeks, plays,   *)
(* scans, repeats and ends, one scheduler event at a time                  *)
(* (ProcessDriveState), under the host's play, seek, scan and read-file    *)
(* commands and the user's hand on the tray.                               *)
(*                                                                         *)
(* The disc is a row of sectors with a track and an index each.  The       *)
(* buffer pool is reduced to the number of unreserved free buffers, and    *)
(* the selector to the choice whether a sector is stored.  The device is   *)
(* the disc image of the web build, whose seeks complete at once.          *)
(***************************************************************************)
EXTENDS Integers, Sequences, FiniteSets

CONSTANTS
    Position,     \* the sectors of the disc: a sequence of <<track, index>>
    AudioTracks,
    Plays,        \* the play requests of the host: <<start, end, repeat>>
    Files,        \* the files it reads: <<first sector, sectors, offset>>
    SeekTargets,  \* the positions it seeks to
    ScanPeriod,   \* kScanCounter (15)
    ScanSkip,     \* kScanFrameSkip (75)
    SeekTicks,    \* kSeekTicks (5)
    MaxRoom,      \* kNumBuffers (200)
    Addresses,    \* a frame address is 32 bits wide: arithmetic is modulo this
    MaxCommands   \* a bound: how many commands the host sends

Keep == 16777215          \* "no change", and no frame address: 0xFFFFFF
KeepRepeat == 255
FadFlag == 8388608        \* bit 23 of a position: a frame address
Infinite == 15

DiscFads == 1..Len(Position)

Tracks == {Position[f][1] : f \in DiscFads}

Lowest(S) == CHOOSE x \in S : \A y \in S : x <= y

Highest(S) == CHOOSE x \in S : \A y \in S : x >= y

\* A position on the disc fits below bit 23; a command has 24 bits for a position.
\* The comment at kSeekTicks: "cannot be less than 2 due to how the Seek state
\* processing is implemented".
ASSUME DriveAssumption ==
    /\ Position \in Seq((1..99) \X (0..99))
    /\ DiscFads # {} /\ Len(Position) + 1 < FadFlag
    /\ \A f, g \in DiscFads : f <= g => Position[f][1] <= Position[g][1]
    /\ Tracks = Lowest(Tracks)..Highest(Tracks)
    /\ \A t \in Tracks : <<t, 1>> \in {Position[f] : f \in DiscFads}
    /\ Plays \subseteq (0..Keep) \X (0..Keep) \X (0..255)
    /\ Files \subseteq Nat \X Nat \X Nat
    /\ SeekTargets \subseteq 0..Keep
    /\ SeekTicks \in Nat \ {0, 1}
    /\ ScanSkip \in Nat /\ ScanPeriod \in 1..ScanSkip
    /\ MaxRoom \in Nat \ {0}
    /\ Addresses \in Nat /\ Addresses > Keep + 1
    /\ MaxCommands \in Nat

VARIABLES
    drive,      \* m_status and the progress of seeking, scanning and pausing
    play,       \* the m_play... parameters
    disc,       \* m_cdif.HasDisc()
    room,       \* m_partitionManager.GetFreeBufferCount()
    raised,     \* the HIRQ flags SetInterrupt raised in the last step
    out,        \* history: the last sector handed on to the selector or the SCSP
    commands    \* how many commands the host has sent

vars == <<drive, play, disc, room, raised, out, commands>>

Statuses == {"Pause", "Standby", "Play", "Seek", "Scan", "Open", "NoDisc", "Error"}

NoPosition == <<255, 255>>

-----------------------------------------------------------------------------
(***************************************************************************)
(* The table of contents.  A track starts at its index 1 and ends before   *)
(* the start of the next one, whose index 0 belongs to it here.            *)
(***************************************************************************)
FirstTrack == Lowest(Tracks)

LastTrack == Highest(Tracks)

StartFad(t) == Lowest({f \in DiscFads : Position[f] = <<t, 1>>})

EndFad(t) == IF t = LastTrack THEN Len(Position)
             ELSE StartFad(Lowest({u \in Tracks : u > t})) - 1

\* GetTrackInfoForFAD: its upper_bound compares with the end of a track, and so
\* misses the last sector of every track.
TracksAt(f) == {t \in Tracks : StartFad(t) <= f /\ f < EndFad(t)}

ClampTrack(t) == IF t < FirstTrack THEN FirstTrack ELSE IF t > LastTrack THEN LastTrack ELSE t

ClampIndex(i) == IF i < 1 THEN 1 ELSE IF i > 99 THEN 99 ELSE i

IsFad(param) == param >= FadFlag

Data(f) == Position[f][1] \notin AudioTracks

-----------------------------------------------------------------------------
Init ==
    /\ drive = [status |-> "Pause", fad |-> Keep, pos |-> NoPosition, repeat |-> 15,
                ticks |-> 0, seek |-> Keep, full |-> FALSE, back |-> FALSE, count |-> 0]
    /\ play = [start |-> 0, end |-> 0, rep |-> 0, first |-> 0, last |-> 0,
               max |-> 0, file |-> FALSE]
    /\ disc = TRUE
    /\ room = MaxRoom
    /\ raised = {}
    /\ out = 0
    /\ commands = 0

\* Stopped: the position is forgotten.
Halted(d, status) ==
    [d EXCEPT !.status = status, !.fad = Keep, !.pos = NoPosition, !.repeat = 15]

-----------------------------------------------------------------------------
(***************************************************************************)
(* The drive event: ProcessDriveState, ProcessDriveStatePlay, CheckPlayEnd *)
(* m_playEndPending, which these set and clear within one event, is folded.*)
(***************************************************************************)

\* The countdown of a seek.  The address sought is taken over at tick 1, where
\* the first sector is read, and the status turns to Play at tick 0.
Moved(d) ==
    LET left == IF d.ticks > 0 THEN d.ticks - 1 ELSE 0
    IN  CASE d.status # "Seek" -> d
          [] d.status = "Seek" /\ left > 1 -> [d EXCEPT !.ticks = left]
          [] d.status = "Seek" /\ left = 1 /\ d.seek = Keep ->
                [Halted(d, "Standby") EXCEPT !.ticks = 1, !.full = FALSE]
          [] d.status = "Seek" /\ left = 1 /\ d.seek # Keep ->
                [d EXCEPT !.ticks = 1, !.full = FALSE, !.fad = d.seek]
          [] d.status = "Seek" /\ left = 0 ->
                [d EXCEPT !.ticks = 0, !.full = FALSE, !.status = "Play"]

Running(d) == d.status \in {"Play", "Scan"} \/ (d.status = "Seek" /\ d.ticks = 1)

\* The event has a sector to read, and no reason to wait for a buffer.
Due(d) == d.fad <= play.last

Blocked(d) == Due(d) /\ disc /\ d.full

Readable(d) == Due(d) /\ disc /\ ~d.full /\ d.fad \in DiscFads

NoRoom(d) == Readable(d) /\ Data(d.fad) /\ room = 0

Delivers(d) == Running(d) /\ Readable(d) /\ ~NoRoom(d)

\* Faulty: the scan counter is never reset.
AdvancedUncounted(d) ==
    LET skips == d.status = "Scan" /\ d.count + 1 >= ScanPeriod
        from  == IF ~skips THEN d.fad
                 ELSE IF d.back THEN d.fad - (ScanSkip + ScanPeriod)
                 ELSE d.fad + (ScanSkip - ScanPeriod)
    IN  [d EXCEPT !.fad = (from + 1) % Addresses, !.pos = Position[d.fad],
                  !.count = IF d.status = "Scan" THEN @ + 1 ELSE @]

\* The next address; a scan skips ScanSkip sectors every ScanPeriod sectors.
Advanced(d) ==
    LET skips == d.status = "Scan" /\ d.count + 1 >= ScanPeriod
        from  == IF ~skips THEN d.fad
                 ELSE IF d.back THEN d.fad - (ScanSkip + ScanPeriod)
                 ELSE d.fad + (ScanSkip - ScanPeriod)
    IN  [d EXCEPT !.fad = (from + 1) % Addresses,
                  !.pos = Position[d.fad],
                  !.count = IF d.status # "Scan" THEN @ ELSE IF skips THEN 0 ELSE @ + 1]

\* Faulty: a sector that finds no buffer is passed over.
ReadOnward(d) ==
    CASE ~Due(d) -> d
      [] Due(d) /\ ~disc -> [d EXCEPT !.status = "NoDisc"]
      [] Due(d) /\ disc /\ d.fad \notin DiscFads -> [d EXCEPT !.status = "Error"]
      [] NoRoom(d) -> [Advanced(d) EXCEPT !.full = TRUE]
      [] Readable(d) /\ ~NoRoom(d) -> Advanced(d)

Read(d) ==
    CASE ~Due(d) -> d
      [] Due(d) /\ ~disc -> [d EXCEPT !.status = "NoDisc"]
      [] Due(d) /\ disc /\ d.fad \notin DiscFads -> [d EXCEPT !.status = "Error"]
      [] NoRoom(d) -> [d EXCEPT !.full = TRUE]
      [] Readable(d) /\ ~NoRoom(d) -> Advanced(d)

\* The end of a play by address is the last address, of a play by track an index
\* beyond the last one.  The kind is that of the last PlayDisc command.
EndIndex ==
    LET t == (play.end \div 256) % 256
        i == play.end % 256
    IN  (IF t = 0 THEN LastTrack ELSE t) * 256 + (IF i = 0 THEN 99 ELSE i)

\* Faulty: the end of a play by address is one sector late.
EndReachedLate(d) ==
    IF IsFad(play.start) THEN d.fad > play.last + 1
    ELSE d.pos[1] * 256 + d.pos[2] > EndIndex

EndReached(d) ==
    IF IsFad(play.start) THEN d.fad > play.last
    ELSE d.pos[1] * 256 + d.pos[2] > EndIndex

Repeats(d) == play.max = Infinite \/ d.repeat < play.max

Ended(d) ==
    IF Repeats(d) THEN [d EXCEPT !.fad = play.first, !.repeat = (@ + 1) % 256]
    ELSE [d EXCEPT !.status = "Pause", !.fad = (play.last + 1) % Addresses, !.full = FALSE]

\* The periodic report polls the drive.
Polled(d, report) ==
    IF report /\ ~disc /\ d.status # "Open" THEN [d EXCEPT !.status = "NoDisc"] ELSE d

Tick ==
    \E report, stored \in BOOLEAN :
        LET woken  == IF room > 0 THEN [drive EXCEPT !.full = FALSE] ELSE drive
            moved  == Moved(woken)
            read   == Read(moved)
            played == Running(moved) /\ ~Blocked(moved)
            over   == played /\ EndReached(read)
            after  == IF over THEN Ended(read) ELSE IF played THEN read ELSE moved
            keeps  == Delivers(moved) /\ Data(moved.fad) /\ stored
        IN  /\ drive' = Polled(after, report)
            /\ out' = IF Delivers(moved) THEN moved.fad ELSE out
            /\ room' = IF keeps THEN room - 1 ELSE room
            /\ raised' =
                 {f \in {"CSCT"} : keeps}
                 \cup {f \in {"BFUL"} : Running(moved) /\ NoRoom(moved)}
                 \cup {f \in {"DCHG"} : played /\ Due(moved) /\ ~disc}
                 \cup {f \in {"PEND"} : over /\ ~Repeats(read)}
                 \cup {f \in {"EFLS", "EHST"} : over /\ ~Repeats(read) /\ play.file}
                 \cup {f \in {"SCDQ"} : report}
            /\ UNCHANGED <<play, disc, commands>>

-----------------------------------------------------------------------------
(***************************************************************************)
(* The host's commands.                                                    *)
(***************************************************************************)
Command(flags) ==
    /\ commands < MaxCommands
    /\ commands' = commands + 1
    /\ raised' = flags
    /\ UNCHANGED out

Sought(target, t) ==
    [drive EXCEPT !.status = "Seek", !.pos = <<t, 1>>, !.repeat = 0,
                  !.ticks = SeekTicks, !.seek = target]

\* SetupGenericPlayback with the parameters of command 0x10.
PlayParams(s, e, r) ==
    [play EXCEPT !.start = IF s = Keep THEN @ ELSE s,
                 !.end = IF e = Keep THEN @ ELSE e,
                 !.rep = IF r = KeepRepeat THEN @ ELSE r,
                 !.max = (IF r = KeepRepeat THEN play.rep ELSE r) % 16,
                 !.file = FALSE]

\* The address playback begins at: the start of the range when the request says
\* so (bit 7 of the repeat parameter clear), or when the drive is outside it.
PlayFrom(p, r) ==
    IF r < 128 \/ drive.fad < p.first \/ drive.fad > p.last + 1 THEN p.first ELSE drive.fad

PlayAddresses(p, e, r) ==
    LET first == p.start % FadFlag
        range == [p EXCEPT !.first = first,
                           !.last = IF e = Keep THEN @ ELSE (first + (p.end % FadFlag) - 1) % Addresses]
        from  == PlayFrom(range, r)
    IN  /\ play' = range
        /\ drive' = IF TracksAt(from) = {} THEN [drive EXCEPT !.status = "Pause"]
                    ELSE [Sought(from, Lowest(TracksAt(from))) EXCEPT !.fad = from]

\* By track the address is taken over only when the seek is done.
PlayTracks(p, r) ==
    LET startTrack == ClampTrack(IF p.start = 0 THEN FirstTrack ELSE (p.start \div 256) % 256)
        startIndex == ClampIndex(IF p.start = 0 THEN 1 ELSE p.start % 256)
        endTrack   == ClampTrack(IF p.end = 0 THEN LastTrack ELSE (p.end \div 256) % 256)
        range  == [p EXCEPT !.first = StartFad(startTrack), !.last = EndFad(endTrack)]
        from   == PlayFrom(range, r)
        inside == {f \in DiscFads : Position[f] = <<startTrack, startIndex>>}
        target == IF ~(r < 128 \/ drive.fad < range.first \/ drive.fad > range.last + 1)
                  THEN drive.fad
                  ELSE IF inside = {} THEN Keep ELSE Lowest(inside)
    IN  /\ play' = range
        /\ drive' = IF TracksAt(from) = {} THEN [drive EXCEPT !.seek = target]
                    ELSE Sought(target, Lowest(TracksAt(from)))

PlayDisc(s, e, r) ==
    LET p == PlayParams(s, e, r)
        resumes == s = Keep /\ e = Keep /\ r = KeepRepeat /\ IsFad(p.start) /\ IsFad(p.end)
                   /\ drive.status = "Pause"
    IN  /\ Command({"CMOK"})
        /\ \/ ~disc /\ drive' = [drive EXCEPT !.status = "NoDisc"] /\ UNCHANGED play
           \/ disc /\ resumes /\ drive' = [drive EXCEPT !.status = "Play"] /\ UNCHANGED play
           \/ disc /\ IsFad(p.start) # IsFad(p.end) /\ UNCHANGED <<drive, play>>
           \/ disc /\ ~resumes /\ IsFad(p.start) /\ IsFad(p.end) /\ PlayAddresses(p, e, r)
           \/ disc /\ ~IsFad(p.start) /\ ~IsFad(p.end) /\ PlayTracks(p, r)
        /\ UNCHANGED <<disc, room>>

\* SetupFilePlayback of command 0x74.  It sets the range, but neither the
\* parameters nor the frame address.  The directory is taken to be chosen.
ReadFile(first, sectors, offset) ==
    /\ Command({"CMOK", "DRDY"})
    /\ \/ ~disc /\ drive' = [drive EXCEPT !.status = "Pause"] /\ UNCHANGED play
       \/ \E t \in TracksAt(first + offset) \ AudioTracks :
             /\ disc
             /\ play' = [play EXCEPT !.first = first + offset,
                                     !.last = (first + sectors - offset - 1) % Addresses,
                                     !.max = 0, !.file = TRUE]
             /\ drive' = Sought(first + offset, t)
       \/ disc /\ TracksAt(first + offset) \subseteq AudioTracks /\ UNCHANGED <<drive, play>>
    /\ UNCHANGED <<disc, room>>

\* Command 0x11: pause, stop, or wait at a position.
Pause ==
    /\ Command({"CMOK"})
    /\ drive' = [drive EXCEPT !.status = "Pause", !.full = FALSE]
    /\ UNCHANGED <<play, disc, room>>

Stop ==
    /\ Command({"CMOK"})
    /\ drive' = Halted(drive, "Standby")
    /\ UNCHANGED <<play, disc, room>>

WaitAt(f, track, index) ==
    [drive EXCEPT !.status = "Pause", !.fad = f, !.pos = <<track, index>>]

SeekAddress(f) ==
    IF TracksAt(f) = {} THEN WaitAt(Len(Position) + 1, 170, 1)
    ELSE WaitAt(f, Lowest(TracksAt(f)), 1)

SeekTrack(track, index) ==
    LET t == IF track = 0 THEN FirstTrack ELSE ClampTrack(track)
        i == IF track \in Tracks \cup {0} THEN index ELSE 1
    IN  IF i <= 99 THEN WaitAt(StartFad(t), t, ClampIndex(i))
        ELSE WaitAt(StartFad(ClampTrack(t + 1)), ClampTrack(t + 1), 1)

SeekDisc(target) ==
    /\ Command({"CMOK"})
    /\ drive' = IF ~disc THEN Halted(drive, "NoDisc")
                ELSE IF IsFad(target) THEN SeekAddress(Highest({1, target % FadFlag}))
                ELSE SeekTrack((target \div 256) % 128, target % 128)
    /\ UNCHANGED <<play, disc, room>>

\* Command 0x12.
ScanDisc(back) ==
    /\ Command({"CMOK"})
    /\ drive' = [drive EXCEPT !.status = "Scan", !.back = back, !.count = 0]
    /\ UNCHANGED <<play, disc, room>>

\* Command 0x04.
InitializeCDSystem(soft) ==
    /\ Command({"CMOK", "EFLS", "ECPY", "EHST", "ESEL"})
    /\ drive' = IF drive.status \in {"Open", "NoDisc"} THEN drive
                ELSE [drive EXCEPT !.status = IF disc THEN "Pause" ELSE "NoDisc", !.fad = 1]
    /\ play' = IF soft THEN [start |-> Keep, end |-> Keep, rep |-> 0, first |-> Keep,
                             last |-> Keep, max |-> 0, file |-> FALSE]
               ELSE play
    /\ room' = IF soft THEN MaxRoom ELSE room
    /\ UNCHANGED disc

-----------------------------------------------------------------------------
(***************************************************************************)
(* The user's tray and disc, bounded with the commands.                    *)
(***************************************************************************)
Opened(d) == IF d.status = "Open" THEN d ELSE [d EXCEPT !.status = "Open"]

OpenTray(byHost) ==
    /\ Command(IF byHost THEN {"CMOK", "DCHG", "EFLS"}
               ELSE IF drive.status = "Open" THEN {} ELSE {"DCHG", "EFLS"})
    /\ drive' = Opened(drive)
    /\ UNCHANGED <<play, disc, room>>

CloseTray ==
    /\ Command({})
    /\ drive.status = "Open"
    /\ drive' = [drive EXCEPT !.status = IF disc THEN "Pause" ELSE "NoDisc"]
    /\ UNCHANGED <<play, disc, room>>

EjectDisc ==
    /\ disc
    /\ Command(IF drive.status = "Open" THEN {} ELSE {"DCHG", "EFLS"})
    /\ drive' = Opened([Halted(drive, drive.status) EXCEPT !.seek = Keep])
    /\ disc' = FALSE
    /\ UNCHANGED <<play, room>>

LoadDisc ==
    /\ Command({"DCHG", "EFLS"})
    /\ drive' = [drive EXCEPT !.seek = Keep,
                     !.status = IF @ \in {"NoDisc", "Open", "Play", "Seek"} THEN "Pause" ELSE @]
    /\ disc' = TRUE
    /\ UNCHANGED <<play, room>>

\* The host takes a stored sector out of its partition (CDTransfer).
FreeBuffer ==
    /\ room < MaxRoom
    /\ room' = room + 1
    /\ raised' = {}
    /\ UNCHANGED <<drive, play, disc, out, commands>>

-----------------------------------------------------------------------------
Next ==
    \/ Tick
    \/ FreeBuffer
    \/ \E r \in Plays : PlayDisc(r[1], r[2], r[3])
    \/ \E f \in Files : ReadFile(f[1], f[2], f[3])
    \/ Pause
    \/ Stop
    \/ \E t \in SeekTargets : SeekDisc(t)
    \/ \E back \in BOOLEAN : ScanDisc(back)
    \/ \E soft \in BOOLEAN : InitializeCDSystem(soft)
    \/ \E byHost \in BOOLEAN : OpenTray(byHost)
    \/ CloseTray
    \/ EjectDisc
    \/ LoadDisc

\* The drive event reschedules itself for ever; the host goes on taking sectors.
Fairness == WF_vars(Tick) /\ WF_vars(FreeBuffer)

Spec == Init /\ [][Next]_vars /\ Fairness

-----------------------------------------------------------------------------
(***************************************************************************)
(* Properties.                                                             *)
(***************************************************************************)
TypeOK ==
    /\ drive.status \in Statuses
    /\ drive.fad \in 0..(Addresses - 1)
    /\ drive.repeat \in 0..255
    /\ drive.ticks \in 0..SeekTicks
    /\ drive.seek \in 0..(Addresses - 1)
    /\ drive.full \in BOOLEAN
    /\ drive.count \in 0..(ScanPeriod - 1)
    /\ play.max \in 0..15
    /\ disc \in BOOLEAN
    /\ room \in 0..MaxRoom
    /\ out \in 0..Len(Position)
    /\ commands \in 0..MaxCommands

\* The status machine implements the promise of DiscStream: sectors in order,
\* none lost to a full buffer or a seek, the end signalled after the last one.
Stream == INSTANCE DiscStream WITH
    mode  <- CASE drive.status \in {"Play", "Seek"} -> "running"
               [] drive.status = "Scan" -> "scanning"
               [] OTHER -> "idle",
    next  <- IF drive.status = "Seek" /\ drive.ticks > 1 THEN drive.seek ELSE drive.fad,
    first <- play.first,
    last  <- play.last,
    again <- CASE play.max = Infinite -> -1
               [] play.max # Infinite /\ drive.repeat < play.max -> play.max - drive.repeat
               [] play.max # Infinite /\ drive.repeat >= play.max -> 0,
    exact <- IsFad(play.start)

ImplementsStream == Stream!StreamSpec

Busy == drive.status \in {"Play", "Seek", "Scan"} /\ play.max # Infinite

\* A play that is not repeated for ever comes to an end: it waits for buffers,
\* not for ever, and the host hears of the end.  Here for plays by address.
AddressPlayEnds == (Busy /\ IsFad(play.start)) ~> (~Busy \/ ~IsFad(play.start))

\* The same for every play.
PlayEnds == Busy ~> ~Busy
=============================================================================
