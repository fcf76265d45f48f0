-------------------------- MODULE VdpRenderThreads --------------------------
(***************************************************************************)
(* The software renderer's threads (hw/vdp/renderer/vdp_renderer_sw.cpp):  *)
(* the emulator thread sends events to a VDP1 and a VDP2 render thread,    *)
(* each through a queue of its own, and waits for a signal where it needs  *)
(* an answer; the VDP2 thread shares its lines with a deinterlacer.  VDP1  *)
(* draws into a copy of the frame buffers that reaches the shared ones     *)
(* when a drawing ends and when the buffers are swapped.                   *)
(*                                                                         *)
(* A frame buffer's content is what was last done to it, and with which    *)
(* VRAM; the VRAM reaches VDP1's thread in order, as events.  The          *)
(* registers do not: they are sent as well, but the thread never reads its *)
(* copy; it draws and erases with the registers and the erase latches of   *)
(* the emulator as they are when it gets to it.  The events of the model   *)
(* carry those of the moment they were sent, to be compared.               *)
(*                                                                         *)
(* An event is handled in one step, except a line that waits for the       *)
(* deinterlacer.                                                           *)
(***************************************************************************)
EXTENDS Integers, Sequences

CONSTANTS
    FrameKinds,  \* what the VDP does at the end of a blanking: keys of Decisions
    VRAMValues,  \* contents of the VRAM
    RegValues,   \* contents of VDP1's registers
    MaxQueue,    \* bound on the events sent to VDP1 without an answer
    MaxLines,    \* bound on the lines sent to VDP2 that it has not begun
    MaxPending,  \* size of a batch of writes (64)
    ProgramMay   \* beyond an orderly program, see the guards: subset of
                 \* {"late erase", "early write", "hard reset", "unfinished"}

ASSUME ThreadsAssumption ==
    /\ FrameKinds \subseteq {"hold", "cycle", "manual", "vberase"}
    /\ VRAMValues \subseteq Nat /\ 0 \in VRAMValues
    /\ RegValues \subseteq Nat /\ 0 \in RegValues
    /\ MaxQueue \in Nat /\ MaxLines \in Nat /\ MaxPending \in Nat \ {0}
    /\ ProgramMay \subseteq {"late erase", "early write", "hard reset", "unfinished"}

VARIABLES
    \* emulator thread
    emulator,       \* "run", or what it waits for
    todo,           \* the rest of a call: "erase", "swap"
    inDisplay,      \* lines are being displayed
    displayErase,
    erasedSinceSwap,
    unfinished,     \* VDP1 has drawn since the last end of a drawing
    displayFB,      \* m_state.displayFB
    vram,           \* m_state.mem1
    regs,           \* m_state.regs1: what drawing and erasing read of it
    eraseLatch,     \* regs1: eraseWriteValueLatch, eraseX1Latch, ...
    pendingEvents,  \* VDP1's batch of writes
    outstanding,    \* cmdCount - cmdFence
    \* shared
    queue1, queue2, \* the event queues
    signals,        \* the events that are set
    spriteFB,       \* m_state.spriteFB
    spriteAltered,  \* buffers of it in which something was done with other registers
                    \* than those of the moment it was sent
    \* render threads
    thread1,        \* "off" or "idle"
    thread2,        \* "off", "idle", "line" or "leaving": waiting for the deinterlacer
    deinterlacer,   \* "off", "waiting" or "drawing"
    deinterlaceShutdown,
    line,           \* the line it draws: what it is to show
    rendererFB,     \* vdp1.spriteFB
    rendererAltered, \* the same of its buffers
    rendererVRAM,   \* vdp1.mem
    \* history
    ideal,          \* the frame buffers if every call had been carried out at once
    overtaken       \* buffers for which the registers changed behind something sent

threadVars == <<emulator, todo, inDisplay, displayErase, erasedSinceSwap, unfinished, displayFB, vram,
                regs, eraseLatch, pendingEvents, outstanding, queue1, queue2, signals, spriteFB,
                spriteAltered, thread1, thread2, deinterlacer, deinterlaceShutdown, line, rendererFB,
                rendererAltered, rendererVRAM, ideal, overtaken>>

frameCallVars == <<todo, inDisplay, displayErase, erasedSinceSwap>>
regVars == <<regs, eraseLatch>>
drawCallVars == <<unfinished, displayFB, vram, regVars>>
sent1Vars == <<pendingEvents, outstanding, queue1>>
fbVars == <<spriteFB, spriteAltered, rendererFB, rendererAltered, ideal, overtaken>>
thread1Vars == <<thread1, rendererVRAM>>
thread2Vars == <<thread2, deinterlacer, deinterlaceShutdown, line>>

Erased == 0
Written == 1
Drawn(v) == 2 + v

BlankFBs == [fb \in {0, 1} |-> Erased]

\* What a command and an erase read of the registers.
UsedByCommand == regs
UsedByErase == <<regs, eraseLatch>>

Display == displayFB
Draw == 1 - displayFB

\* At the end of blanking: erase within it, swap, and erase in the display period.
Decisions ==
    [hold    |-> [todo |-> <<>>, displayErase |-> FALSE],
     cycle   |-> [todo |-> <<"swap">>, displayErase |-> TRUE],
     manual  |-> [todo |-> <<"swap">>, displayErase |-> FALSE],
     vberase |-> [todo |-> <<"erase", "swap">>, displayErase |-> FALSE]]

Running == emulator = "run"
Free == Running /\ todo = <<>>

-----------------------------------------------------------------------------
(* Sending events.  Writes are batched; any other event sends the batch    *)
(* before itself.                                                          *)

SendVDP1(events) ==
    /\ queue1' = queue1 \o pendingEvents \o events
    /\ outstanding' = outstanding + Len(pendingEvents) + Len(events)
    /\ pendingEvents' = <<>>

SendWriteVDP1(event) ==
    IF Len(pendingEvents) + 1 = MaxPending
    THEN SendVDP1(<<event>>)
    ELSE pendingEvents' = Append(pendingEvents, event) /\ UNCHANGED <<queue1, outstanding>>

\* The kinds of events that VDP1's thread has not handled.
Sent == queue1 \o pendingEvents
SentKinds == {Sent[i][1] : i \in 1 .. Len(Sent)}

Room1 == Len(queue1) + Len(pendingEvents) < MaxQueue
Room2 == Len(queue2) < MaxLines

Threaded1 == thread1 # "off"
Threaded2 == thread2 # "off"

-----------------------------------------------------------------------------
(* VDP1's memory and drawing. *)

WriteVRAM(v) ==
    /\ Free
    /\ v # vram
    /\ vram' = v
    /\ IF Threaded1 THEN Room1 /\ SendWriteVDP1(<<"vram", v>>) ELSE UNCHANGED sent1Vars
    /\ UNCHANGED <<emulator, frameCallVars, unfinished, displayFB, regVars, queue2, signals, fbVars, thread1Vars,
                   thread2Vars>>

\* New registers overtake what VDP1's thread has not handled: a command into the
\* buffer that is drawn into, an erase of the one displayed.
Overtake ==
    overtaken' = overtaken \cup (IF "command" \in SentKinds THEN {Draw} ELSE {})
                           \cup (IF "erase" \in SentKinds THEN {Display} ELSE {})

WriteReg(r) ==
    /\ Free
    /\ r # regs
    /\ regs' = r
    /\ Overtake
    /\ IF Threaded1 THEN Room1 /\ SendWriteVDP1(<<"reg">>) ELSE UNCHANGED sent1Vars
    /\ UNCHANGED <<emulator, frameCallVars, unfinished, displayFB, vram, eraseLatch, queue2, signals,
                   spriteFB, spriteAltered, rendererFB, rendererAltered, ideal, thread1Vars,
                   thread2Vars>>

\* The program writes into the buffer that is drawn into; an orderly one once
\* the renderer has caught up.
WriteFB ==
    /\ Free
    /\ (outstanding = 0 /\ pendingEvents = <<>>) \/ "early write" \in ProgramMay
    /\ spriteFB' = [spriteFB EXCEPT ![Draw] = Written]
    /\ ideal' = [ideal EXCEPT ![Draw] = Written]
    /\ IF Threaded1 THEN Room1 /\ SendWriteVDP1(<<"fb">>) ELSE UNCHANGED sent1Vars
    /\ UNCHANGED <<emulator, frameCallVars, drawCallVars, queue2, signals, spriteAltered, rendererFB,
                   rendererAltered, overtaken, thread1Vars, thread2Vars>>

ExecuteCommand ==
    /\ Free
    /\ ideal' = [ideal EXCEPT ![Draw] = Drawn(vram)]
    /\ IF Threaded1
       THEN Room1 /\ SendVDP1(<<<<"command", UsedByCommand>>>>) /\ UNCHANGED spriteFB
       ELSE spriteFB' = ideal' /\ UNCHANGED sent1Vars
    /\ unfinished' = TRUE
    /\ UNCHANGED <<emulator, frameCallVars, displayFB, vram, regVars, queue2, signals, spriteAltered,
                   rendererFB, rendererAltered, overtaken, thread1Vars, thread2Vars>>

VDP1EndFrame ==
    /\ Free
    /\ unfinished
    /\ unfinished' = FALSE
    /\ IF Threaded1 THEN Room1 /\ SendVDP1(<<<<"end">>>>) ELSE UNCHANGED sent1Vars
    /\ UNCHANGED <<emulator, frameCallVars, displayFB, vram, regVars, queue2, signals, fbVars, thread1Vars,
                   thread2Vars>>

\* The program reads the buffer that is drawn into.
VDP1SyncFB ==
    /\ Free
    /\ Threaded1
    /\ SendVDP1(<<>>)
    /\ emulator' = "sync"
    /\ UNCHANGED <<frameCallVars, drawCallVars, queue2, signals, fbVars, thread1Vars, thread2Vars>>

\* Faulty: the renderer is not waited for.
ReadFBAtOnce ==
    /\ emulator = "sync"
    /\ emulator' = "run"
    /\ UNCHANGED <<frameCallVars, drawCallVars, sent1Vars, queue2, signals, fbVars, thread1Vars,
                   thread2Vars>>

ReadFB ==
    /\ emulator = "sync"
    /\ outstanding = 0
    /\ emulator' = "run"
    /\ UNCHANGED <<frameCallVars, drawCallVars, sent1Vars, queue2, signals, fbVars, thread1Vars,
                   thread2Vars>>

-----------------------------------------------------------------------------
(* The frame. *)

VDP2RenderLine ==
    /\ Free
    /\ inDisplay
    /\ Threaded2 /\ Room2
    /\ queue2' = Append(queue2, <<"line", ideal[Display]>>)
    /\ UNCHANGED <<emulator, frameCallVars, drawCallVars, sent1Vars, signals, fbVars, thread1Vars,
                   thread2Vars>>

\* The bottom of the display: VDP2 finishes, and an erase put off is due.
EndDisplay ==
    /\ Free
    /\ inDisplay
    /\ inDisplay' = FALSE
    /\ todo' = IF displayErase THEN <<"erase">> ELSE <<>>
    /\ displayErase' = FALSE
    /\ IF Threaded2
       THEN queue2' = Append(queue2, <<"frame">>) /\ emulator' = "renderFinished"
       ELSE UNCHANGED <<queue2, emulator>>
    /\ UNCHANGED <<erasedSinceSwap, drawCallVars, sent1Vars, signals, fbVars, thread1Vars, thread2Vars>>

\* An orderly program swaps before it shows a buffer that has been erased.
EndOfBlanking(kind) ==
    /\ Free
    /\ ~inDisplay
    /\ kind = "hold" => ~erasedSinceSwap \/ "late erase" \in ProgramMay
    /\ inDisplay' = TRUE
    /\ todo' = Decisions[kind].todo
    /\ displayErase' = (displayErase \/ Decisions[kind].displayErase)
    /\ UNCHANGED <<emulator, erasedSinceSwap, drawCallVars, sent1Vars, queue2, signals, fbVars,
                   thread1Vars, thread2Vars>>

\* Erasing: VDP2 must have read the buffer to the end; VDP1's thread erases it
\* in its own time.
StartErase ==
    /\ Running
    /\ todo # <<>> /\ Head(todo) = "erase"
    /\ IF Threaded2
       THEN queue2' = Append(queue2, <<"erase">>) /\ emulator' = "eraseReady"
       ELSE emulator' = "erase" /\ UNCHANGED queue2
    /\ UNCHANGED <<frameCallVars, drawCallVars, sent1Vars, signals, fbVars, thread1Vars, thread2Vars>>

Erase ==
    /\ emulator = "erase"
    /\ emulator' = "run"
    /\ todo' = Tail(todo)
    /\ erasedSinceSwap' = TRUE
    /\ ideal' = [ideal EXCEPT ![Display] = Erased]
    /\ overtaken' = IF "erase" \in SentKinds THEN overtaken ELSE overtaken \ {Display}
    /\ IF Threaded1
       THEN SendVDP1(<<<<"erase", UsedByErase>>>>) /\ UNCHANGED <<spriteFB, spriteAltered>>
       ELSE /\ spriteFB' = [spriteFB EXCEPT ![Display] = Erased]
            /\ spriteAltered' = spriteAltered \ {Display}
            /\ UNCHANGED sent1Vars
    /\ UNCHANGED <<inDisplay, displayErase, drawCallVars, queue2, signals, rendererFB, rendererAltered,
                   thread1Vars, thread2Vars>>

\* A swap begins with new erase latches, before it waits for VDP1's thread.
LatchEraseParameters ==
    /\ eraseLatch' = regs
    /\ overtaken' = IF "erase" \in SentKinds /\ regs # eraseLatch
                    THEN overtaken \cup {Display} ELSE overtaken

\* Faulty: VDP1 is told, but not waited for.
StartSwapAtOnce ==
    /\ Running
    /\ todo # <<>> /\ Head(todo) = "swap"
    /\ IF Threaded1 THEN SendVDP1(<<<<"end">>>>) ELSE UNCHANGED sent1Vars
    /\ emulator' = "swap"
    /\ LatchEraseParameters
    /\ UNCHANGED <<frameCallVars, unfinished, displayFB, vram, regs, queue2, signals, spriteFB,
                   spriteAltered, rendererFB, rendererAltered, ideal, thread1Vars, thread2Vars>>

\* Swapping: first VDP1 hands its buffer over, then VDP2 takes it.
StartSwap ==
    /\ Running
    /\ todo # <<>> /\ Head(todo) = "swap"
    /\ IF Threaded1
       THEN SendVDP1(<<<<"swap">>>>) /\ emulator' = "swapBuffers"
       ELSE emulator' = "swap" /\ UNCHANGED sent1Vars
    /\ LatchEraseParameters
    /\ UNCHANGED <<frameCallVars, unfinished, displayFB, vram, regs, queue2, signals, spriteFB,
                   spriteAltered, rendererFB, rendererAltered, ideal, thread1Vars, thread2Vars>>

SwapVDP2 ==
    /\ emulator = "swap"
    /\ IF Threaded2
       THEN queue2' = Append(queue2, <<"swap">>) /\ emulator' = "framebufferSwap"
       ELSE emulator' = "flip" /\ UNCHANGED queue2
    /\ UNCHANGED <<frameCallVars, drawCallVars, sent1Vars, signals, fbVars, thread1Vars, thread2Vars>>

Flip ==
    /\ emulator = "flip"
    /\ emulator' = "run"
    /\ todo' = Tail(todo)
    /\ displayFB' = 1 - displayFB
    /\ erasedSinceSwap' = FALSE
    /\ unfinished' = FALSE
    /\ UNCHANGED <<inDisplay, displayErase, vram, regVars, sent1Vars, queue2, signals, fbVars, thread1Vars,
                   thread2Vars>>

\* A wait ends when the signal is set; the signal is reset and the call goes on.
Then == [renderFinished |-> "run", eraseReady |-> "erase", swapBuffers |-> "swap",
         framebufferSwap |-> "flip", preSave1 |-> "preSave", preSave2 |-> "load",
         postLoad1 |-> "postLoad", postLoad2 |-> "run", postEnable1 |-> "run"]

SignalOf(wait) == IF wait = "postEnable1" THEN "postLoad1" ELSE wait

GoOn ==
    /\ emulator \in DOMAIN Then
    /\ SignalOf(emulator) \in signals
    /\ signals' = signals \ {SignalOf(emulator)}
    /\ emulator' = Then[emulator]
    /\ UNCHANGED <<frameCallVars, drawCallVars, sent1Vars, queue2, fbVars, thread1Vars, thread2Vars>>

-----------------------------------------------------------------------------
(* States, resets, and the threads switched on and off.  What VDP1 has     *)
(* drawn of an unfinished drawing is not in the shared buffers.            *)

Switchable == Free /\ (~unfinished \/ "unfinished" \in ProgramMay)

\* A state is saved, both threads at once, and loaded again.
PreSaveStateSync ==
    /\ Switchable
    /\ emulator' = IF Threaded1 THEN "preSave1" ELSE "preSave"
    /\ IF Threaded1 THEN SendVDP1(<<<<"preSave">>>>) ELSE UNCHANGED sent1Vars
    /\ queue2' = IF Threaded2 THEN Append(queue2, <<"preSave">>) ELSE queue2
    /\ UNCHANGED <<frameCallVars, drawCallVars, signals, fbVars, thread1Vars, thread2Vars>>

PreSaveVDP2 ==
    /\ emulator = "preSave"
    /\ emulator' = IF Threaded2 THEN "preSave2" ELSE "load"
    /\ UNCHANGED <<frameCallVars, drawCallVars, sent1Vars, queue2, signals, fbVars, thread1Vars,
                   thread2Vars>>

PostLoadStateSync ==
    /\ emulator = "load"
    /\ emulator' = IF Threaded1 THEN "postLoad1" ELSE "postLoad"
    /\ IF Threaded1 THEN SendVDP1(<<<<"postLoad">>>>) ELSE UNCHANGED sent1Vars
    /\ queue2' = IF Threaded2 THEN Append(queue2, <<"postLoad">>) ELSE queue2
    /\ UNCHANGED <<frameCallVars, drawCallVars, signals, fbVars, thread1Vars, thread2Vars>>

PostLoadVDP2 ==
    /\ emulator = "postLoad"
    /\ emulator' = IF Threaded2 THEN "postLoad2" ELSE "run"
    /\ UNCHANGED <<frameCallVars, drawCallVars, sent1Vars, queue2, signals, fbVars, thread1Vars,
                   thread2Vars>>

\* VDP1's thread is not told of a reset.  Some of the registers are cleared, the
\* parameters and latches of erasing are not.
ResetRenderer(hard) ==
    /\ Switchable
    /\ hard => "hard reset" \in ProgramMay
    /\ erasedSinceSwap => "late erase" \in ProgramMay
    /\ Threaded2 => Room2
    /\ queue2' = IF Threaded2 THEN Append(queue2, <<"reset">>) ELSE queue2
    /\ inDisplay' = TRUE
    /\ displayErase' = FALSE
    /\ regs' \in RegValues
    /\ IF regs' # regs THEN Overtake ELSE UNCHANGED overtaken
    /\ IF hard
       THEN /\ vram' = 0 /\ displayFB' = 0
            /\ spriteFB' = BlankFBs /\ spriteAltered' = {} /\ ideal' = BlankFBs
       ELSE UNCHANGED <<vram, displayFB, spriteFB, spriteAltered, ideal>>
    /\ UNCHANGED <<emulator, todo, erasedSinceSwap, unfinished, eraseLatch, sent1Vars, signals,
                   rendererFB, rendererAltered, thread1Vars, thread2Vars>>

EnableThreadedVDP1 ==
    /\ Switchable
    /\ thread1 = "off"
    /\ SendVDP1(<<<<"postLoad">>>>)
    /\ thread1' = "idle"
    /\ emulator' = "postEnable1"
    /\ UNCHANGED <<frameCallVars, drawCallVars, queue2, signals, fbVars, rendererVRAM, thread2Vars>>

EnableThreadedVDP2 ==
    /\ Switchable
    /\ thread2 = "off"
    /\ queue2' = Append(queue2, <<"postLoad">>)
    /\ thread2' = "idle"
    /\ deinterlacer' = "waiting"
    /\ emulator' = "postLoad2"
    /\ UNCHANGED <<frameCallVars, drawCallVars, sent1Vars, signals, fbVars, thread1Vars,
                   deinterlaceShutdown, line>>

DisableThreadedVDP1 ==
    /\ Switchable
    /\ Threaded1
    /\ SendVDP1(<<<<"shutdown">>>>)
    /\ emulator' = "join1"
    /\ UNCHANGED <<frameCallVars, drawCallVars, queue2, signals, fbVars, thread1Vars, thread2Vars>>

DisableThreadedVDP2 ==
    /\ Switchable
    /\ Threaded2
    /\ queue2' = Append(queue2, <<"shutdown">>)
    /\ emulator' = "join2"
    /\ UNCHANGED <<frameCallVars, drawCallVars, sent1Vars, signals, fbVars, thread1Vars, thread2Vars>>

\* The threads have ended; what is left in the queue is dropped.
Join ==
    /\ \/ /\ emulator = "join1" /\ thread1 = "off"
          /\ queue1' = <<>> /\ UNCHANGED queue2
       \/ /\ emulator = "join2" /\ thread2 = "off" /\ deinterlacer = "off"
          /\ queue2' = <<>> /\ UNCHANGED queue1
    /\ emulator' = "run"
    /\ UNCHANGED <<frameCallVars, drawCallVars, pendingEvents, outstanding, signals, fbVars, thread1Vars,
                   thread2Vars>>

-----------------------------------------------------------------------------
(* VDP1's render thread. *)

\* What is drawn reaches the shared buffer.
HandOver ==
    /\ spriteFB' = [spriteFB EXCEPT ![Draw] = rendererFB[Draw]]
    /\ spriteAltered' = (spriteAltered \ {Draw}) \cup (rendererAltered \cap {Draw})

\* A buffer that is erased is altered as far as the erase is.
AfterErase(altered, used) ==
    (altered \ {Display}) \cup (IF used = UsedByErase THEN {} ELSE {Display})

HandleVDP1 ==
    LET event == Head(queue1) IN
    CASE event[1] = "vram" ->
            rendererVRAM' = event[2]
            /\ UNCHANGED <<thread1, signals, spriteFB, spriteAltered, rendererFB, rendererAltered>>
      [] event[1] = "reg" ->
            UNCHANGED <<thread1Vars, signals, spriteFB, spriteAltered, rendererFB, rendererAltered>>
      [] event[1] = "fb" ->
            rendererFB' = [rendererFB EXCEPT ![Draw] = Written]
            /\ UNCHANGED <<thread1Vars, signals, spriteFB, spriteAltered, rendererAltered>>
      [] event[1] = "command" ->
            rendererFB' = [rendererFB EXCEPT ![Draw] = Drawn(rendererVRAM)]
            /\ rendererAltered' = rendererAltered \cup (IF event[2] = UsedByCommand THEN {} ELSE {Draw})
            /\ UNCHANGED <<thread1Vars, signals, spriteFB, spriteAltered>>
      [] event[1] = "end" ->
            HandOver
            /\ UNCHANGED <<thread1Vars, signals, rendererFB, rendererAltered>>
      [] event[1] = "swap" ->
            HandOver
            /\ signals' = signals \cup {"swapBuffers"}
            /\ UNCHANGED <<thread1Vars, rendererFB, rendererAltered>>
      [] event[1] = "erase" ->
            spriteFB' = [spriteFB EXCEPT ![Display] = Erased]
            /\ spriteAltered' = AfterErase(spriteAltered, event[2])
            /\ rendererFB' = [rendererFB EXCEPT ![Display] = Erased]
            /\ rendererAltered' = AfterErase(rendererAltered, event[2])
            /\ UNCHANGED <<thread1Vars, signals>>
      [] event[1] = "preSave" ->
            signals' = signals \cup {"preSave1"}
            /\ UNCHANGED <<thread1Vars, spriteFB, spriteAltered, rendererFB, rendererAltered>>
      [] event[1] = "postLoad" ->
            rendererVRAM' = vram /\ rendererFB' = spriteFB /\ rendererAltered' = spriteAltered
            /\ signals' = signals \cup {"postLoad1"}
            /\ UNCHANGED <<thread1, spriteFB, spriteAltered>>
      [] event[1] = "shutdown" ->
            \* what it leaves is overwritten before a thread reads it again
            thread1' = "off" /\ rendererVRAM' = 0 /\ rendererFB' = BlankFBs /\ rendererAltered' = {}
            /\ UNCHANGED <<signals, spriteFB, spriteAltered>>

VDP1RenderThread ==
    /\ Threaded1
    /\ queue1 # <<>>
    /\ HandleVDP1
    /\ queue1' = Tail(queue1)
    /\ outstanding' = outstanding - 1
    /\ UNCHANGED <<emulator, frameCallVars, drawCallVars, pendingEvents, queue2, thread2Vars, ideal,
                   overtaken>>

-----------------------------------------------------------------------------
(* VDP2's render thread and the deinterlacer. *)

\* Faulty: the end of a frame is not signalled to the thread that waits for it.
Answer2Crossed == [frame |-> "eraseReady", erase |-> "eraseReady", swap |-> "framebufferSwap",
                   preSave |-> "preSave2", postLoad |-> "postLoad2"]

Answer2 == [frame |-> "renderFinished", erase |-> "eraseReady", swap |-> "framebufferSwap",
            preSave |-> "preSave2", postLoad |-> "postLoad2"]

VDP2RenderThread ==
    /\ thread2 = "idle"
    /\ queue2 # <<>>
    /\ queue2' = Tail(queue2)
    /\ LET event == Head(queue2) IN
       \/ /\ event[1] \in DOMAIN Answer2
          /\ signals' = signals \cup {Answer2[event[1]]}
          /\ UNCHANGED thread2Vars
       \/ /\ event[1] = "reset"
          /\ UNCHANGED <<signals, thread2Vars>>
       \/ /\ event[1] = "line"
          /\ \/ UNCHANGED <<signals, thread2, line>>
             \/ /\ signals' = signals \cup {"deinterlaceBegin"}
                /\ thread2' = "line"
                /\ line' = event[2]
          /\ UNCHANGED <<deinterlacer, deinterlaceShutdown>>
       \/ /\ event[1] = "shutdown"
          /\ deinterlaceShutdown' = TRUE
          /\ signals' = signals \cup {"deinterlaceBegin"}
          /\ thread2' = "leaving"
          /\ UNCHANGED <<deinterlacer, line>>
    /\ UNCHANGED <<emulator, frameCallVars, drawCallVars, sent1Vars, fbVars, thread1Vars>>

VDP2ThreadGoesOn ==
    /\ thread2 \in {"line", "leaving"}
    /\ "deinterlaceEnd" \in signals
    /\ signals' = signals \ {"deinterlaceEnd"}
    /\ thread2' = IF thread2 = "line" THEN "idle" ELSE "off"
    /\ line' = Erased
    /\ UNCHANGED <<emulator, frameCallVars, drawCallVars, sent1Vars, queue2, fbVars, thread1Vars,
                   deinterlacer, deinterlaceShutdown>>

DeinterlacerBegins ==
    /\ deinterlacer = "waiting"
    /\ "deinterlaceBegin" \in signals
    /\ IF deinterlaceShutdown
       THEN /\ deinterlaceShutdown' = FALSE
            /\ deinterlacer' = "off"
            /\ signals' = (signals \ {"deinterlaceBegin"}) \cup {"deinterlaceEnd"}
       ELSE /\ deinterlacer' = "drawing"
            /\ signals' = signals \ {"deinterlaceBegin"}
            /\ UNCHANGED deinterlaceShutdown
    /\ UNCHANGED <<emulator, frameCallVars, drawCallVars, sent1Vars, queue2, fbVars, thread1Vars, thread2,
                   line>>

DeinterlacerEnds ==
    /\ deinterlacer = "drawing"
    /\ deinterlacer' = "waiting"
    /\ signals' = signals \cup {"deinterlaceEnd"}
    /\ UNCHANGED <<emulator, frameCallVars, drawCallVars, sent1Vars, queue2, fbVars, thread1Vars, thread2,
                   deinterlaceShutdown, line>>

-----------------------------------------------------------------------------
ThreadsInit ==
    /\ emulator = "run"
    /\ todo = <<>>
    /\ inDisplay = TRUE
    /\ displayErase = FALSE
    /\ erasedSinceSwap = FALSE
    /\ unfinished = FALSE
    /\ displayFB = 0
    /\ vram = 0
    /\ regs = 0
    /\ eraseLatch = 0
    /\ pendingEvents = <<>>
    /\ outstanding = 0
    /\ queue1 = <<>>
    /\ queue2 = <<>>
    /\ signals = {}
    /\ spriteFB = BlankFBs
    /\ spriteAltered = {}
    /\ thread1 = "off"
    /\ thread2 = "off"
    /\ deinterlacer = "off"
    /\ deinterlaceShutdown = FALSE
    /\ line = Erased
    /\ rendererFB = BlankFBs
    /\ rendererAltered = {}
    /\ rendererVRAM = 0
    /\ ideal = BlankFBs
    /\ overtaken = {}

\* The calls that are under way.
EmulatorGoesOn ==
    \/ ReadFB \/ StartErase \/ Erase \/ StartSwap \/ SwapVDP2 \/ Flip \/ GoOn
    \/ PreSaveVDP2 \/ PostLoadStateSync \/ PostLoadVDP2 \/ Join

ThreadsNext ==
    \/ \E v \in VRAMValues : WriteVRAM(v)
    \/ \E r \in RegValues : WriteReg(r)
    \/ WriteFB
    \/ ExecuteCommand
    \/ VDP1EndFrame
    \/ VDP1SyncFB
    \/ VDP2RenderLine
    \/ EndDisplay
    \/ \E kind \in FrameKinds : EndOfBlanking(kind)
    \/ EmulatorGoesOn
    \/ PreSaveStateSync
    \/ \E hard \in BOOLEAN : ResetRenderer(hard)
    \/ EnableThreadedVDP1 \/ EnableThreadedVDP2
    \/ DisableThreadedVDP1 \/ DisableThreadedVDP2
    \/ VDP1RenderThread
    \/ VDP2RenderThread \/ VDP2ThreadGoesOn
    \/ DeinterlacerBegins \/ DeinterlacerEnds

\* Every thread that can go on does.
ThreadsFairness ==
    /\ WF_threadVars(EmulatorGoesOn)
    /\ WF_threadVars(VDP1RenderThread)
    /\ WF_threadVars(VDP2RenderThread \/ VDP2ThreadGoesOn)
    /\ WF_threadVars(DeinterlacerBegins \/ DeinterlacerEnds)

ThreadsSpec == ThreadsInit /\ [][ThreadsNext]_threadVars /\ ThreadsFairness

-----------------------------------------------------------------------------
\* All that a shared buffer shows was drawn and erased with the registers of the
\* moment it was sent, unless they were written behind it.
AsSent(fb) == fb \in spriteAltered => fb \in overtaken

\* A line shows the frame buffer that the emulator meant when it asked for the
\* line, however late the VDP2 thread and the deinterlacer draw it and however
\* early VDP1 is with the next picture (vdp_renderer_sw.cpp 438-468).
LinesAreCurrent ==
    /\ thread2 = "idle" /\ queue2 # <<>> /\ Head(queue2)[1] = "line"
          => spriteFB[Display] = Head(queue2)[2] /\ AsSent(Display)
    /\ deinterlacer = "drawing" => spriteFB[Display] = line /\ AsSent(Display)
    /\ Free /\ inDisplay /\ ~Threaded2 => spriteFB[Display] = ideal[Display] /\ AsSent(Display)

\* The renderer has "completely finished" the swap when the selector is flipped:
\* VDP2 gets all that VDP1 was sent, drawn from the memory and, where no register
\* was written behind it, with the registers of the moment it was sent
\* (vdp_renderer_base.hpp 163-168).
SwapIsComplete ==
    [][displayFB' # displayFB /\ emulator = "flip"
          => spriteFB[Draw] = ideal[Draw] /\ AsSent(Draw)]_threadVars

\* A program that reads the frame buffer after a drawing has ended gets what was
\* drawn, with the registers of the moment it was sent where none was written
\* behind it (vdp_renderer_sw.cpp 332-344).
ReadsAreCurrent ==
    [][emulator = "sync" /\ emulator' = "run" /\ ~unfinished
          => spriteFB[Draw] = ideal[Draw] /\ AsSent(Draw)]_threadVars

\* The render threads are "thread-safe within the core" (docs/mainpage.hpp 330):
\* a picture does not depend on how late VDP1's thread draws it.
DrawnAsSent ==
    [][displayFB' # displayFB /\ emulator = "flip" => Draw \notin spriteAltered]_threadVars

\* No call into the renderer blocks for ever: no two threads wait for each
\* other, not even when threads are switched off while a line is drawn.
CallsReturn == ~Free ~> Free
=============================================================================
