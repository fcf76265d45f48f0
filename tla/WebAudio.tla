------------------------------ MODULE WebAudio ------------------------------
(***************************************************************************)
(* The sound of the web front end: the emulator's frames go through a ring *)
(* of the bridge (web/bridge/ymir_web_bridge.cpp), are posted by the       *)
(* shell's frame loop (web/shell/main.js) to the audio worklet             *)
(* (web/shell/ymir-web-audio-worklet.js), and wait in a ring of its own    *)
(* for the audio hardware.                                                 *)
(*                                                                         *)
(* The frames are numbered in the order in which they are made; a place of *)
(* a ring holds a stereo frame, or 0 before the first.                     *)
(***************************************************************************)
EXTENDS Integers, Sequences

CONSTANTS
    BridgeFrames,   \* places of the bridge's ring (65536)
    RingFrames,     \* places of the worklet's ring (44100)
    FrameSamples,   \* how much sound a run of the emulator makes
    Quantum,        \* what the hardware takes at a time (128)
    BacklogLimit,   \* the shell's limit (11025)
    MaxMade         \* bound on the frames made

ASSUME WebAudioAssumption ==
    /\ BridgeFrames \in Nat /\ BridgeFrames > 1
    /\ RingFrames \in Nat \ {0} /\ Quantum \in Nat \ {0}
    /\ FrameSamples \subseteq Nat /\ BacklogLimit \in Nat /\ MaxMade \in Nat

VARIABLES
    bridge,     \* audioBuf, audioReadPos and audioWritePos
    posted,     \* messages to the worklet that are under way
    worklet,    \* its ring: readPos, writePos and count
    looping,    \* the frame loop is running
    made, heard \* the last frame made, and the last one heard

audioVars == <<bridge, posted, worklet, looping, made, heard>>

FramesFrom(ring, read, places, count) == [i \in 1 .. count |-> ring[(read + i - 1) % places]]

-----------------------------------------------------------------------------
(* The bridge. *)

OnAudioSample(ring, frame) ==
    LET next == (ring.write + 1) % BridgeFrames IN
    [buf |-> [ring.buf EXCEPT ![ring.write] = frame],
     write |-> next,
     read |-> IF next = ring.read THEN (ring.read + 1) % BridgeFrames ELSE ring.read]

AudioAvailable(ring) == (ring.write + BridgeFrames - ring.read) % BridgeFrames

\* The ring after a run that makes count frames.
RunFrame(count) ==
    LET ring[n \in 0 .. count] ==
            IF n = 0 THEN bridge ELSE OnAudioSample(ring[n - 1], made + n)
    IN  ring[count]

ReadAudio(ring) == FramesFrom(ring.buf, ring.read, BridgeFrames, AudioAvailable(ring))

\* pumpAudio posts all that there is.
PumpAudio(ring) ==
    /\ posted' = IF AudioAvailable(ring) > 0 THEN Append(posted, ReadAudio(ring)) ELSE posted
    /\ bridge' = [ring EXCEPT !.read = ring.write]

-----------------------------------------------------------------------------
(* The shell.  A test may run the emulator between two turns of the loop.  *)

\* The sound left from before is still in the rings after the reset.
StartLoop ==
    /\ ~looping
    /\ looping' = TRUE
    /\ UNCHANGED <<bridge, posted, worklet, made, heard>>

LoopTurn ==
    /\ looping
    /\ IF AudioAvailable(bridge) < BacklogLimit
       THEN \E count \in FrameSamples :
                /\ made + count <= MaxMade
                /\ made' = made + count
                /\ PumpAudio(RunFrame(count))
       ELSE PumpAudio(bridge) /\ UNCHANGED made
    /\ UNCHANGED <<worklet, looping, heard>>

\* A run that fails ends the loop before the sound is pumped.
RunFails ==
    /\ looping
    /\ AudioAvailable(bridge) < BacklogLimit
    /\ \E count \in FrameSamples :
        /\ made + count <= MaxMade
        /\ made' = made + count
        /\ bridge' = RunFrame(count)
    /\ looping' = FALSE
    /\ UNCHANGED <<posted, worklet, heard>>

TestRuns(count) ==
    /\ made + count <= MaxMade
    /\ made' = made + count
    /\ bridge' = RunFrame(count)
    /\ UNCHANGED <<posted, worklet, looping, heard>>

-----------------------------------------------------------------------------
(* The worklet. *)

\* Faulty: a full ring is written over without moving its beginning.
AddFrameOver(ring, frame) ==
    [buf |-> [ring.buf EXCEPT ![ring.writePos] = frame],
     readPos |-> ring.readPos,
     writePos |-> (ring.writePos + 1) % RingFrames,
     count |-> IF ring.count >= RingFrames THEN ring.count ELSE ring.count + 1]

AddFrame(ring, frame) ==
    LET full == ring.count >= RingFrames IN
    [buf |-> [ring.buf EXCEPT ![ring.writePos] = frame],
     readPos |-> IF full THEN (ring.readPos + 1) % RingFrames ELSE ring.readPos,
     writePos |-> (ring.writePos + 1) % RingFrames,
     count |-> IF full THEN ring.count ELSE ring.count + 1]

AddFrames(frames) ==
    LET ring[n \in 0 .. Len(frames)] ==
            IF n = 0 THEN worklet ELSE AddFrame(ring[n - 1], frames[n])
    IN  ring[Len(frames)]

OnMessage ==
    /\ posted # <<>>
    /\ worklet' = AddFrames(Head(posted))
    /\ posted' = Tail(posted)
    /\ UNCHANGED <<bridge, looping, made, heard>>

\* What the ring does not have is played as silence.
Process ==
    LET count == IF worklet.count < Quantum THEN worklet.count ELSE Quantum IN
    /\ count > 0
    /\ heard' = worklet.buf[(worklet.readPos + count - 1) % RingFrames]
    /\ worklet' = [worklet EXCEPT !.readPos = (@ + count) % RingFrames, !.count = @ - count]
    /\ UNCHANGED <<bridge, posted, looping, made>>

NewBridge == [buf |-> [i \in 0 .. BridgeFrames - 1 |-> 0], read |-> 0, write |-> 0]
NewWorklet == [buf |-> [i \in 0 .. RingFrames - 1 |-> 0], readPos |-> 0, writePos |-> 0, count |-> 0]

LoadPage ==
    /\ bridge' = NewBridge
    /\ posted' = <<>>
    /\ worklet' = NewWorklet
    /\ looping' = FALSE
    /\ made' = 0
    /\ heard' = 0

AudioInit ==
    /\ bridge = NewBridge
    /\ posted = <<>>
    /\ worklet = NewWorklet
    /\ looping = FALSE
    /\ made = 0
    /\ heard = 0

AudioNext ==
    \/ LoadPage
    \/ StartLoop
    \/ LoopTurn
    \/ RunFails
    \/ \E count \in FrameSamples : TestRuns(count)
    \/ OnMessage
    \/ Process

AudioSpec == AudioInit /\ [][AudioNext]_audioVars

-----------------------------------------------------------------------------
InWorklet == FramesFrom(worklet.buf, worklet.readPos, RingFrames, worklet.count)
InBridge == ReadAudio(bridge)

FramesOf(frames) == {frames[i] : i \in 1 .. Len(frames)}
InMessages == UNION {FramesOf(posted[k]) : k \in 1 .. Len(posted)}

SmallestRing == IF BridgeFrames - 1 < RingFrames THEN BridgeFrames - 1 ELSE RingFrames

Promise == INSTANCE AudioQueue WITH Depth <- SmallestRing,
                                    onTheWay <- FramesOf(InWorklet) \cup InMessages \cup FramesOf(InBridge)

\* Through both rings and the messages between them the sound stays in order,
\* nothing is heard twice, and only what is older than a whole ring is lost
\* (ymir_web_bridge.cpp 63, 259; ymir-web-audio-worklet.js 15, 31).
SoundInOrder == Promise!QueueSpec

\* The loop does not run the emulator while the worklet has a backlog at the
\* limit (main.js 92).
BacklogThrottled ==
    [][looping /\ made' > made /\ posted' # posted => Len(InWorklet) < BacklogLimit]_audioVars
=============================================================================
