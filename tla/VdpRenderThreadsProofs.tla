----------------------- MODULE VdpRenderThreadsProofs -----------------------
(***************************************************************************)
(* The software renderer's threads, for queues and batches of any size and *)
(* an orderly program (ProgramMay = {}): a line shows the picture that was    *)
(* meant, a swap hands over all that was drawn, and a program that reads   *)
(* the frame buffer after a drawing has ended gets what was drawn; and     *)
(* where no register was written behind what was sent, all of it is drawn  *)
(* and erased with the registers of the moment it was sent.                *)
(*                                                                         *)
(* The heart of the invariant is about the events VDP1's thread has not    *)
(* handled: handling them from the state the renderer is in leads to the   *)
(* state in which every call would have been carried out at once.          *)
(***************************************************************************)
EXTENDS VdpRenderThreads, NaturalLemmas, SequenceTheorems, TLAPS

FrameBuffers == [{0, 1} -> Nat]

RendererState == [fb : FrameBuffers, vram : Nat, sprite : FrameBuffers]

Now == [fb |-> rendererFB, vram |-> rendererVRAM, sprite |-> spriteFB]

PlainEvents == {"reg", "fb", "end"}

AnsweredEvents == {"swap", "preSave", "postLoad", "shutdown"}

Event1 ==
    {<<"vram", v>> : v \in Nat} \cup {<<"command", used>> : used \in Nat}
    \cup {<<"erase", used>> : used \in Nat \X Nat}
    \cup {<<k>> : k \in PlainEvents \cup AnsweredEvents}

Event2 ==
    {<<"line", content>> : content \in Nat}
    \cup {<<k>> : k \in {"frame", "erase", "swap", "preSave", "postLoad", "reset", "shutdown"}}

\* The state the renderer is in after handling e in state r, with d displayed
\* and v in VDP1's own memory.
Handled(e, r, d, v) ==
    [fb |-> IF e[1] = "fb" THEN [r.fb EXCEPT ![1 - d] = Written]
            ELSE IF e[1] = "command" THEN [r.fb EXCEPT ![1 - d] = Drawn(r.vram)]
            ELSE IF e[1] = "erase" THEN [r.fb EXCEPT ![d] = Erased]
            ELSE IF e[1] = "postLoad" THEN r.sprite
            ELSE IF e[1] = "shutdown" THEN BlankFBs
            ELSE r.fb,
     vram |-> IF e[1] = "vram" THEN e[2]
              ELSE IF e[1] = "postLoad" THEN v
              ELSE IF e[1] = "shutdown" THEN 0
              ELSE r.vram,
     sprite |-> IF e[1] \in {"end", "swap"} THEN [r.sprite EXCEPT ![1 - d] = r.fb[1 - d]]
                ELSE IF e[1] = "erase" THEN [r.sprite EXCEPT ![d] = Erased]
                ELSE r.sprite]

\* Handling the events of E one after the other leads from a to b.
Trace(st, E, a, b, d, v) ==
    /\ st \in [0..Len(E) -> RendererState]
    /\ st[0] = a /\ st[Len(E)] = b
    /\ \A i \in 1..Len(E) : st[i] = Handled(E[i], st[i - 1], d, v)

Leads(E, a, b, d, v) == \E st : Trace(st, E, a, b, d, v)

Calls == {"run", "sync", "renderFinished", "eraseReady", "erase", "swapBuffers", "swap",
          "framebufferSwap", "flip", "preSave1", "preSave", "preSave2", "load", "postLoad1",
          "postLoad", "postLoad2", "postEnable1", "join1", "join2"}

SwapCalls == {"swapBuffers", "swap", "framebufferSwap", "flip"}

SwitchCalls == {"preSave1", "preSave", "preSave2", "load", "postLoad1", "postLoad", "postLoad2",
                "postEnable1", "join1", "join2"}

\* The renderer has caught up: it has what the emulator meant.  The buffer that
\* is drawn into has reached the shared ones when a drawing or a swap has ended.
Settled(r) ==
    /\ r.sprite[Display] = ideal[Display]
    /\ ~unfinished \/ emulator \in SwapCalls => r.sprite[Draw] = ideal[Draw]
    /\ emulator # "join1" => r.fb = ideal /\ r.vram = vram

\* The calls that wait until VDP1's thread has handled an event.
Waits1(kind) ==
    CASE kind = "swap" -> {"swapBuffers"}
      [] kind = "preSave" -> {"preSave1"}
      [] kind = "postLoad" -> {"postLoad1", "postEnable1"}
      [] kind = "shutdown" -> {"join1"}

Signals1 == {"swapBuffers", "preSave1", "postLoad1"}

\* The call that waits until VDP2's thread has handled an event.
Waits2 == [erase |-> "eraseReady", swap |-> "framebufferSwap", shutdown |-> "join2"]

DeinterlacerSignals == {"deinterlaceBegin", "deinterlaceEnd"}

-----------------------------------------------------------------------------
(***************************************************************************)
(* The invariant.                                                          *)
(***************************************************************************)
ThreadsTypeOK ==
    /\ emulator \in Calls
    /\ todo \in {<<>>, <<"erase">>, <<"swap">>, <<"erase", "swap">>}
    /\ inDisplay \in BOOLEAN /\ displayErase \in BOOLEAN /\ erasedSinceSwap \in BOOLEAN
    /\ unfinished \in BOOLEAN /\ displayFB \in {0, 1} /\ vram \in Nat
    /\ regs \in Nat /\ eraseLatch \in Nat
    /\ pendingEvents \in Seq(Event1) /\ queue1 \in Seq(Event1) /\ queue2 \in Seq(Event2)
    /\ outstanding = Len(queue1)
    /\ spriteFB \in FrameBuffers /\ rendererFB \in FrameBuffers /\ ideal \in FrameBuffers
    /\ rendererVRAM \in Nat /\ line \in Nat
    /\ thread1 \in {"off", "idle"} /\ thread2 \in {"off", "idle", "line", "leaving"}
    /\ deinterlacer \in {"off", "waiting", "drawing"} /\ deinterlaceShutdown \in BOOLEAN

\* Where the emulator is in its calls.  A buffer that was erased is not shown
\* before it is swapped.
CallInv ==
    /\ emulator \in {"eraseReady", "erase"} => todo # <<>> /\ Head(todo) = "erase"
    /\ emulator \in SwapCalls => todo = <<"swap">>
    /\ emulator \in SwitchCalls \cup {"sync"} => todo = <<>>
    /\ emulator \in SwitchCalls => ~unfinished
    /\ inDisplay => todo # <<"erase">> /\ (erasedSinceSwap => todo # <<>>)
    /\ emulator = "renderFinished" => ~inDisplay

\* An event that is waited for is the last that was sent.
EventsInv ==
    \A i \in 1..Len(Sent) :
        /\ Sent[i][1] \in AnsweredEvents => i = Len(Sent) /\ emulator \in Waits1(Sent[i][1])
        /\ Sent[i][1] = "erase" => erasedSinceSwap

\* A signal is set for the call that waits for it, and nothing is left to handle.
Signals1Inv == \A s \in Signals1 \cap signals : SignalOf(emulator) = s /\ Sent = <<>>

IdleInv ==
    /\ emulator \in {"swap", "framebufferSwap", "flip"} => Sent = <<>>
    /\ emulator = "sync" => pendingEvents = <<>>
    /\ ~Threaded1 => Sent = <<>> /\ spriteFB = ideal

CaughtUpInv ==
    Threaded1 => \E r \in RendererState : Leads(Sent, Now, r, displayFB, vram) /\ Settled(r)

Sent1Inv == EventsInv /\ Signals1Inv /\ IdleInv /\ CaughtUpInv

\* Lines are asked for, and drawn, when nothing changes the buffer displayed.
LineInv ==
    /\ ~erasedSinceSwap => spriteFB[Display] = ideal[Display]
    /\ \A i \in 1..Len(queue2) :
          queue2[i][1] = "line" => ~erasedSinceSwap /\ queue2[i][2] = ideal[Display]
    /\ thread2 = "line" => ~erasedSinceSwap /\ line = ideal[Display]

\* VDP2 has nothing left to do when its answer ends a call.
Sent2Inv ==
    /\ \A i \in 1..Len(queue2) :
          queue2[i][1] \in DOMAIN Waits2 => i = Len(queue2) /\ emulator = Waits2[queue2[i][1]]
    /\ \A s \in {"eraseReady", "framebufferSwap"} \cap signals :
          emulator = s /\ queue2 = <<>> /\ thread2 = "idle"
    /\ emulator \in {"erase", "flip"} => queue2 = <<>> /\ thread2 \in {"idle", "off"}
    /\ emulator # "join2" => thread2 # "leaving" /\ (thread2 = "off" => queue2 = <<>>)

\* The deinterlacer draws only while VDP2's thread waits for it.
DeinterlacerInv ==
    /\ thread2 = "idle" => /\ DeinterlacerSignals \cap signals = {}
                           /\ deinterlacer = "waiting" /\ ~deinterlaceShutdown
    /\ thread2 = "off" => /\ DeinterlacerSignals \cap signals = {}
                          /\ deinterlacer = "off" /\ ~deinterlaceShutdown
    /\ thread2 = "line" =>
          /\ ~deinterlaceShutdown
          /\ \/ deinterlacer = "waiting" /\ DeinterlacerSignals \cap signals = {"deinterlaceBegin"}
             \/ deinterlacer = "waiting" /\ DeinterlacerSignals \cap signals = {"deinterlaceEnd"}
             \/ deinterlacer = "drawing" /\ DeinterlacerSignals \cap signals = {}
    /\ thread2 = "leaving" =>
          \/ /\ deinterlacer = "waiting" /\ deinterlaceShutdown
             /\ DeinterlacerSignals \cap signals = {"deinterlaceBegin"}
          \/ /\ deinterlacer = "off" /\ ~deinterlaceShutdown
             /\ DeinterlacerSignals \cap signals = {"deinterlaceEnd"}

ThreadsInv ==
    ThreadsTypeOK /\ CallInv /\ Sent1Inv /\ LineInv /\ Sent2Inv /\ DeinterlacerInv

-----------------------------------------------------------------------------
(***************************************************************************)
(* Events handled one after the other.                                     *)
(***************************************************************************)
LEMMA EventKinds ==
  ASSUME NEW e \in Event1
  PROVE  /\ e[1] \in {"vram", "command", "erase"} \cup PlainEvents \cup AnsweredEvents
         /\ e[1] = "vram" => e[2] \in Nat
BY DEF Event1, PlainEvents, AnsweredEvents

LEMMA HandledType ==
  ASSUME NEW e \in Event1, NEW r \in RendererState, NEW d \in {0, 1}, NEW v \in Nat
  PROVE  Handled(e, r, d, v) \in RendererState
<1>1. /\ r.fb \in FrameBuffers /\ r.vram \in Nat /\ r.sprite \in FrameBuffers
      /\ BlankFBs \in FrameBuffers
  BY DEF RendererState, FrameBuffers, BlankFBs, Erased
<1>2. 1 - d \in {0, 1} /\ r.fb[1 - d] \in Nat /\ Written \in Nat /\ Erased \in Nat /\ Drawn(r.vram) \in Nat
  BY <1>1 DEF FrameBuffers, Written, Erased, Drawn
<1>3. \A fb \in FrameBuffers, k \in {0, 1}, n \in Nat : [fb EXCEPT ![k] = n] \in FrameBuffers
  BY DEF FrameBuffers
<1>4. e[1] = "vram" => e[2] \in Nat
  BY EventKinds
<1>5. Handled(e, r, d, v).fb \in FrameBuffers
  BY <1>1, <1>2, <1>3 DEF Handled
<1>6. Handled(e, r, d, v).vram \in Nat
  BY <1>1, <1>4 DEF Handled
<1>7. Handled(e, r, d, v).sprite \in FrameBuffers
  BY <1>1, <1>2, <1>3 DEF Handled
<1>8. QED
  BY <1>5, <1>6, <1>7 DEF Handled, RendererState

\* What each kind of event does.
LEMMA HandledFields ==
  ASSUME NEW r, NEW d, NEW v, NEW u
  PROVE  /\ LET h == Handled(<<"vram", u>>, r, d, v) IN
               h.fb = r.fb /\ h.vram = u /\ h.sprite = r.sprite
         /\ LET h == Handled(<<"fb">>, r, d, v) IN
               h.fb = [r.fb EXCEPT ![1 - d] = Written] /\ h.vram = r.vram /\ h.sprite = r.sprite
         /\ LET h == Handled(<<"reg">>, r, d, v) IN
               h.fb = r.fb /\ h.vram = r.vram /\ h.sprite = r.sprite
         /\ LET h == Handled(<<"command", u>>, r, d, v) IN
               h.fb = [r.fb EXCEPT ![1 - d] = Drawn(r.vram)] /\ h.vram = r.vram /\ h.sprite = r.sprite
         /\ \A k \in {"end", "swap"} :
               LET h == Handled(<<k>>, r, d, v) IN
               /\ h.fb = r.fb /\ h.vram = r.vram
               /\ h.sprite = [r.sprite EXCEPT ![1 - d] = r.fb[1 - d]]
         /\ LET h == Handled(<<"erase", u>>, r, d, v) IN
               /\ h.fb = [r.fb EXCEPT ![d] = Erased] /\ h.vram = r.vram
               /\ h.sprite = [r.sprite EXCEPT ![d] = Erased]
         /\ LET h == Handled(<<"preSave">>, r, d, v) IN
               h.fb = r.fb /\ h.vram = r.vram /\ h.sprite = r.sprite
         /\ LET h == Handled(<<"postLoad">>, r, d, v) IN
               h.fb = r.sprite /\ h.vram = v /\ h.sprite = r.sprite
         /\ Handled(<<"shutdown">>, r, d, v).sprite = r.sprite
BY DEF Handled

LEMMA NoEvents ==
  ASSUME NEW a \in RendererState, NEW d, NEW v
  PROVE  Leads(<<>>, a, a, d, v)
<1>1. Trace([i \in 0..0 |-> a], <<>>, a, a, d, v)
  BY DEF Trace
<1>2. QED
  BY <1>1 DEF Leads

LEMMA NoEventsStay ==
  ASSUME NEW a, NEW b, NEW d, NEW v, Leads(<<>>, a, b, d, v)
  PROVE  a = b
BY DEF Leads, Trace

\* The thread handles the first event.
LEMMA FirstHandled ==
  ASSUME NEW E \in Seq(Event1), E # <<>>, NEW a, NEW b, NEW d, NEW v, Leads(E, a, b, d, v)
  PROVE  Leads(Tail(E), Handled(Head(E), a, d, v), b, d, v)
<1>1. PICK st : Trace(st, E, a, b, d, v)
  BY DEF Leads
<1>2. /\ Len(E) \in Nat /\ Len(E) >= 1 /\ Len(Tail(E)) = Len(E) - 1
      /\ \A i \in 1..Len(Tail(E)) : Tail(E)[i] = E[i + 1]
      /\ Head(E) = E[1]
  BY EmptySeq, LenProperties, HeadTailProperties
<1> DEFINE n == Len(E) - 1
           rest == [i \in 0..n |-> st[i + 1]]
<1>3. rest \in [0..n -> RendererState]
  BY <1>1, <1>2 DEF Trace
<1>4. rest[0] = Handled(Head(E), a, d, v)
  <2>1. 1 \in 1..Len(E) /\ 1 - 1 = 0
    BY <1>2
  <2>2. st[1] = Handled(E[1], st[0], d, v) /\ st[0] = a
    BY <1>1, <2>1 DEF Trace
  <2>3. rest[0] = st[1]
    BY <1>2
  <2>4. QED
    BY <1>2, <2>2, <2>3
<1>5. rest[n] = b
  BY <1>1, <1>2 DEF Trace
<1>6. ASSUME NEW i \in 1..n PROVE rest[i] = Handled(Tail(E)[i], rest[i - 1], d, v)
  <2>1. i + 1 \in 1..Len(E) /\ (i + 1) - 1 = i /\ (i - 1) + 1 = i /\ i - 1 \in 0..n /\ i \in 0..n
    BY <1>2
  <2>2. st[i + 1] = Handled(E[i + 1], st[i], d, v)
    BY <1>1, <2>1 DEF Trace
  <2>3. rest[i] = st[i + 1] /\ rest[i - 1] = st[i] /\ Tail(E)[i] = E[i + 1]
    BY <1>2, <2>1
  <2>4. QED
    BY <2>2, <2>3
<1> HIDE DEF rest
<1>7. Trace(rest, Tail(E), Handled(Head(E), a, d, v), b, d, v)
  BY <1>2, <1>3, <1>4, <1>5, <1>6 DEF Trace
<1>8. QED
  BY <1>7 DEF Leads

\* An event is sent after the others.
LEMMA OneMore ==
  ASSUME NEW E \in Seq(Event1), NEW e \in Event1, NEW a, NEW b, NEW d \in {0, 1}, NEW v \in Nat,
         Leads(E, a, b, d, v)
  PROVE  Leads(Append(E, e), a, Handled(e, b, d, v), d, v)
<1>1. PICK st : Trace(st, E, a, b, d, v)
  BY DEF Leads
<1>2. /\ Len(E) \in Nat /\ Len(Append(E, e)) = Len(E) + 1
      /\ \A i \in 1..Len(E) : Append(E, e)[i] = E[i]
      /\ Append(E, e)[Len(E) + 1] = e
  BY LenProperties, AppendProperties
<1> DEFINE n == Len(E)
           c == Handled(e, b, d, v)
           more == [i \in 0..(n + 1) |-> IF i <= n THEN st[i] ELSE c]
<1>3. b \in RendererState
  BY <1>1, <1>2 DEF Trace
<1>4. c \in RendererState
  BY <1>3, HandledType
<1> HIDE DEF c
<1>5. more \in [0..(n + 1) -> RendererState]
  BY <1>1, <1>2, <1>4 DEF Trace
<1>6. more[0] = a /\ more[n + 1] = c /\ more[n] = b
  BY <1>1, <1>2 DEF Trace
<1>7. ASSUME NEW i \in 1..(n + 1) PROVE more[i] = Handled(Append(E, e)[i], more[i - 1], d, v)
  <2>1. CASE i = n + 1
    BY <1>2, <1>6, <2>1 DEF c
  <2>2. CASE i # n + 1
    <3>1. i \in 1..n /\ i - 1 \in 0..n /\ i - 1 <= n /\ i <= n
      BY <1>2, <2>2
    <3>2. st[i] = Handled(E[i], st[i - 1], d, v)
      BY <1>1, <3>1 DEF Trace
    <3>3. more[i] = st[i] /\ more[i - 1] = st[i - 1]
      BY <1>2, <3>1
    <3>4. QED
      BY <1>2, <3>1, <3>2, <3>3
  <2>3. QED
    BY <2>1, <2>2
<1> HIDE DEF more
<1>8. Trace(more, Append(E, e), a, c, d, v)
  BY <1>2, <1>5, <1>6, <1>7 DEF Trace
<1>9. QED
  BY <1>8 DEF Leads, c

\* VDP1's own memory matters only to a state that is loaded.
LEMMA MemoryAside ==
  ASSUME NEW E \in Seq(Event1), NEW a, NEW b, NEW d, NEW v, NEW w,
         \A i \in 1..Len(E) : E[i][1] # "postLoad",
         Leads(E, a, b, d, v)
  PROVE  Leads(E, a, b, d, w)
<1>1. PICK st : Trace(st, E, a, b, d, v)
  BY DEF Leads
<1>2. ASSUME NEW i \in 1..Len(E) PROVE st[i] = Handled(E[i], st[i - 1], d, w)
  BY <1>1, <1>2 DEF Trace, Handled
<1>3. Trace(st, E, a, b, d, w)
  BY <1>1, <1>2 DEF Trace
<1>4. QED
  BY <1>3 DEF Leads
-----------------------------------------------------------------------------
(***************************************************************************)
(* What is sent, and what is handled.                                      *)
(***************************************************************************)
LEMMA SentType ==
  ASSUME ThreadsTypeOK
  PROVE  /\ Sent \in Seq(Event1) /\ Len(Sent) \in Nat /\ Len(Sent) = Len(queue1) + Len(pendingEvents)
         /\ Now \in RendererState
         /\ Sent = <<>> <=> queue1 = <<>> /\ pendingEvents = <<>>
BY ConcatProperties, LenProperties, ConcatEqualIffEmpty
   DEF ThreadsTypeOK, Sent, Now, RendererState

LEMMA SendOne ==
  ASSUME ThreadsTypeOK, NEW e \in Event1, SendVDP1(<<e>>)
  PROVE  /\ Sent' = Append(Sent, e)
         /\ queue1' \in Seq(Event1) /\ pendingEvents' \in Seq(Event1)
         /\ outstanding' = Len(queue1')
         /\ pendingEvents' = <<>>
<1>1. /\ Sent \in Seq(Event1) /\ queue1 \in Seq(Event1) /\ pendingEvents \in Seq(Event1)
      /\ Len(Sent) = Len(queue1) + Len(pendingEvents) /\ outstanding = Len(queue1)
      /\ Len(queue1) \in Nat /\ Len(pendingEvents) \in Nat
  BY SentType, LenProperties DEF ThreadsTypeOK
<1>2. queue1' = Sent \o <<e>> /\ pendingEvents' = <<>> /\ outstanding' = outstanding + Len(pendingEvents) + 1
  BY DEF SendVDP1, Sent
<1>3. queue1' = Append(Sent, e) /\ queue1' \in Seq(Event1) /\ Len(queue1') = Len(Sent) + 1
  BY <1>1, <1>2, AppendIsConcat, AppendProperties
<1>4. Sent' = queue1' \o <<>>
  BY <1>2 DEF Sent
<1>5. Sent' = queue1'
  BY <1>3, <1>4, ConcatEmptySeq
<1>6. <<>> \in Seq(Event1)
  BY EmptySeq
<1>7. QED
  BY <1>1, <1>2, <1>3, <1>5, <1>6

LEMMA SendBatch ==
  ASSUME ThreadsTypeOK, SendVDP1(<<>>)
  PROVE  /\ Sent' = Sent
         /\ queue1' \in Seq(Event1) /\ pendingEvents' \in Seq(Event1)
         /\ outstanding' = Len(queue1')
         /\ pendingEvents' = <<>>
<1>1. /\ Sent \in Seq(Event1) /\ queue1 \in Seq(Event1) /\ pendingEvents \in Seq(Event1)
      /\ Len(Sent) = Len(queue1) + Len(pendingEvents) /\ outstanding = Len(queue1)
      /\ Len(queue1) \in Nat /\ Len(pendingEvents) \in Nat
  BY SentType, LenProperties DEF ThreadsTypeOK
<1>2. queue1' = Sent \o <<>> /\ pendingEvents' = <<>> /\ outstanding' = outstanding + Len(pendingEvents) + 0
  BY DEF SendVDP1, Sent
<1>3. queue1' = Sent
  BY <1>1, <1>2, ConcatEmptySeq
<1>4. Sent' = queue1' \o <<>>
  BY <1>2 DEF Sent
<1>5. Sent' = queue1'
  BY <1>1, <1>3, <1>4, ConcatEmptySeq
<1>6. <<>> \in Seq(Event1)
  BY EmptySeq
<1>7. QED
  BY <1>1, <1>2, <1>3, <1>5, <1>6

LEMMA SendWrite ==
  ASSUME ThreadsTypeOK, NEW e \in Event1, SendWriteVDP1(e)
  PROVE  /\ Sent' = Append(Sent, e)
         /\ queue1' \in Seq(Event1) /\ pendingEvents' \in Seq(Event1)
         /\ outstanding' = Len(queue1')
<1>1. CASE SendVDP1(<<e>>)
  BY <1>1, SendOne
<1>2. CASE pendingEvents' = Append(pendingEvents, e) /\ UNCHANGED <<queue1, outstanding>>
  <2>1. /\ queue1 \in Seq(Event1) /\ pendingEvents \in Seq(Event1) /\ Sent \in Seq(Event1)
        /\ <<e>> \in Seq(Event1)
    BY SentType DEF ThreadsTypeOK
  <2>2. pendingEvents' = pendingEvents \o <<e>> /\ pendingEvents' \in Seq(Event1)
    BY <1>2, <2>1, AppendIsConcat, AppendProperties
  <2>3. Sent' = queue1 \o (pendingEvents \o <<e>>)
    BY <1>2, <2>2 DEF Sent
  <2>4. Sent' = Sent \o <<e>>
    BY <2>1, <2>3, ConcatAssociative DEF Sent
  <2>5. QED
    BY <1>2, <2>1, <2>2, <2>4, AppendIsConcat DEF ThreadsTypeOK
<1>3. QED
  BY <1>1, <1>2 DEF SendWriteVDP1

\* The event the thread handles is the first of what is sent.
LEMMA TakeOne ==
  ASSUME ThreadsTypeOK, queue1 # <<>>, queue1' = Tail(queue1), outstanding' = outstanding - 1,
         UNCHANGED pendingEvents
  PROVE  /\ Sent # <<>> /\ Head(queue1) = Head(Sent) /\ Head(queue1) \in Event1
         /\ Sent' = Tail(Sent)
         /\ queue1' \in Seq(Event1) /\ outstanding' = Len(queue1')
<1>1. queue1 \in Seq(Event1) /\ pendingEvents \in Seq(Event1) /\ outstanding = Len(queue1)
  BY DEF ThreadsTypeOK
<1>2. /\ Head(queue1) \in Event1 /\ Tail(queue1) \in Seq(Event1) /\ Len(Tail(queue1)) = Len(queue1) - 1
      /\ \A i \in 1..Len(Tail(queue1)) : Tail(queue1)[i] = queue1[i + 1]
  BY <1>1, HeadTailProperties
<1>3. Len(queue1) \in Nat /\ Len(queue1) >= 1 /\ Len(pendingEvents) \in Nat
  BY <1>1, EmptySeq, LenProperties
<1>4. Sent \in Seq(Event1) /\ Sent # <<>> /\ Len(Sent) = Len(queue1) + Len(pendingEvents)
  BY SentType
<1>5. /\ Tail(Sent) \in Seq(Event1) /\ Len(Tail(Sent)) = Len(Sent) - 1
      /\ \A i \in 1..Len(Tail(Sent)) : Tail(Sent)[i] = Sent[i + 1]
  BY <1>4, HeadTailProperties
<1>6. \A i \in 1..Len(Sent) : Sent[i] = IF i <= Len(queue1) THEN queue1[i]
                                        ELSE pendingEvents[i - Len(queue1)]
  BY <1>1, <1>4, ConcatProperties DEF Sent
<1>7. /\ Sent' = Tail(queue1) \o pendingEvents
      /\ Sent' \in Seq(Event1) /\ Len(Sent') = Len(Tail(queue1)) + Len(pendingEvents)
      /\ \A i \in 1..Len(Sent') : Sent'[i] = IF i <= Len(Tail(queue1)) THEN Tail(queue1)[i]
                                             ELSE pendingEvents[i - Len(Tail(queue1))]
  BY <1>1, <1>2, ConcatProperties DEF Sent
<1>8. Len(Sent') = Len(Tail(Sent))
  BY <1>2, <1>3, <1>4, <1>5, <1>7
<1>9. ASSUME NEW i \in 1..Len(Sent') PROVE Sent'[i] = Tail(Sent)[i]
  <2>1. Tail(Sent)[i] = Sent[i + 1] /\ i + 1 \in 1..Len(Sent)
    BY <1>3, <1>4, <1>5, <1>8
  <2>2. CASE i <= Len(Tail(queue1))
    BY <1>2, <1>3, <1>6, <1>7, <2>1, <2>2
  <2>3. CASE ~(i <= Len(Tail(queue1)))
    <3>1. i - Len(Tail(queue1)) = (i + 1) - Len(queue1) /\ ~(i + 1 <= Len(queue1))
      BY <1>2, <1>3, <2>3, <1>8
    <3>2. QED
      BY <1>6, <1>7, <2>1, <2>3, <3>1
  <2>4. QED
    BY <2>2, <2>3
<1>10. Sent' = Tail(Sent)
  BY <1>5, <1>7, <1>8, <1>9, SeqEqual
<1>11. Head(queue1) = Head(Sent)
  BY <1>3, <1>4, <1>6
<1>12. QED
  BY <1>1, <1>2, <1>4, <1>10, <1>11

LEMMA HandleVDP1Does ==
  ASSUME ThreadsTypeOK, HandleVDP1, NEW e \in Event1, e = Head(queue1), UNCHANGED <<displayFB,
                                                                                    vram>>
  PROVE  /\ Now' = Handled(e, Now, displayFB, vram)
         /\ thread1' = IF e[1] = "shutdown" THEN "off" ELSE thread1
         /\ signals' = CASE e[1] = "swap" -> signals \cup {"swapBuffers"}
                         [] e[1] = "preSave" -> signals \cup {"preSave1"}
                         [] e[1] = "postLoad" -> signals \cup {"postLoad1"}
                         [] OTHER -> signals
<1>1. e[1] \in {"vram", "command", "erase"} \cup PlainEvents \cup AnsweredEvents
  BY EventKinds
<1>2. CASE e[1] = "vram"
  BY <1>2 DEF HandleVDP1, thread1Vars, HandOver, Now, Handled
<1>3. CASE e[1] = "reg"
  BY <1>3 DEF HandleVDP1, thread1Vars, Now, Handled
<1>4. CASE e[1] = "fb"
  BY <1>4 DEF HandleVDP1, thread1Vars, HandOver, Now, Handled, Draw
<1>5. CASE e[1] = "command"
  BY <1>5 DEF HandleVDP1, thread1Vars, HandOver, Now, Handled, Draw
<1>6. CASE e[1] = "end"
  BY <1>6 DEF HandleVDP1, thread1Vars, HandOver, Now, Handled, Draw
<1>7. CASE e[1] = "erase"
  BY <1>7 DEF HandleVDP1, thread1Vars, HandOver, Now, Handled, Display
<1>8. CASE e[1] = "swap"
  BY <1>8 DEF HandleVDP1, thread1Vars, HandOver, Now, Handled, Draw
<1>9. CASE e[1] = "preSave"
  BY <1>9 DEF HandleVDP1, thread1Vars, HandOver, Now, Handled
<1>10. CASE e[1] = "postLoad"
  BY <1>10 DEF HandleVDP1, thread1Vars, HandOver, Now, Handled
<1>11. CASE e[1] = "shutdown"
  BY <1>11 DEF HandleVDP1, thread1Vars, HandOver, Now, Handled, BlankFBs
<1>12. QED
  BY <1>3, <1>1, <1>2, <1>4, <1>5, <1>6, <1>7, <1>8, <1>9, <1>10, <1>11 DEF PlainEvents, AnsweredEvents

-----------------------------------------------------------------------------
(***************************************************************************)
(* VDP1's side of the invariant.                                           *)
(***************************************************************************)

\* A call that waits for nothing has nothing sent that is waited for.
Waiting1 == {"swapBuffers", "preSave1", "postLoad1", "postEnable1", "join1"}

LEMMA WaitsAreWaiting ==
  ASSUME NEW kind \in AnsweredEvents
  PROVE  Waits1(kind) \subseteq Waiting1
BY DEF AnsweredEvents, Waits1, Waiting1

LEMMA NothingAnswered ==
  ASSUME ThreadsTypeOK, EventsInv, Signals1Inv, emulator \notin Waiting1
  PROVE  /\ \A i \in 1..Len(Sent) : Sent[i][1] \notin AnsweredEvents
         /\ Signals1 \cap signals = {}
<1>1. \A i \in 1..Len(Sent) : Sent[i][1] \notin AnsweredEvents
  BY WaitsAreWaiting DEF EventsInv
<1>2. Signals1 \cap signals = {}
  BY DEF Signals1Inv, Signals1, SignalOf, Waiting1
<1>3. QED
  BY <1>1, <1>2

\* The emulator goes on, and sends VDP1 nothing.
LEMMA SilentKeeps ==
  ASSUME ThreadsInv,
         Sent' = Sent, UNCHANGED <<thread1, rendererVRAM, spriteFB, rendererFB, ideal, unfinished,
                                   displayFB, vram>>,
         \A i \in 1..Len(Sent) : Sent[i][1] \notin AnsweredEvents,
         Signals1 \cap signals' = {},
         emulator' \in {"swap", "framebufferSwap", "flip"} => Sent = <<>>,
         emulator' = "sync" => pendingEvents' = <<>>,
         erasedSinceSwap => erasedSinceSwap',
         Threaded1 /\ emulator' \in SwapCalls => ~unfinished \/ emulator \in SwapCalls,
         Threaded1 /\ emulator' # "join1" => emulator # "join1"
  PROVE  Sent1Inv'
<1>1. EventsInv'
  <2> SUFFICES ASSUME NEW i \in 1..Len(Sent)
               PROVE  /\ Sent[i][1] \in AnsweredEvents => i = Len(Sent) /\ emulator' \in Waits1(Sent[i][1])
                      /\ Sent[i][1] = "erase" => erasedSinceSwap'
    BY DEF EventsInv
  <2>1. QED
    BY DEF ThreadsInv, Sent1Inv, EventsInv
<1>2. Signals1Inv'
  BY DEF Signals1Inv
<1>3. IdleInv'
  BY DEF ThreadsInv, Sent1Inv, IdleInv, Threaded1
<1>4. CaughtUpInv'
  <2> SUFFICES ASSUME Threaded1
               PROVE  \E r \in RendererState : Leads(Sent, Now, r, displayFB, vram) /\ Settled(r)'
    BY DEF CaughtUpInv, Threaded1, Now
  <2>1. PICK r \in RendererState : Leads(Sent, Now, r, displayFB, vram) /\ Settled(r)
    BY DEF ThreadsInv, Sent1Inv, CaughtUpInv
  <2>2. Settled(r)'
    BY <2>1 DEF Settled, Display, Draw
  <2>3. QED
    BY <2>1, <2>2
<1>5. QED
  BY <1>1, <1>2, <1>3, <1>4 DEF Sent1Inv

\* VDP2's threads go on, or the emulator tells only them something.
LEMMA AsideKeeps ==
  ASSUME ThreadsInv,
         UNCHANGED <<emulator, queue1, pendingEvents, thread1, rendererVRAM, spriteFB, rendererFB,
                     ideal, unfinished,
                     displayFB, vram, erasedSinceSwap>>,
         Signals1 \cap signals' = Signals1 \cap signals
  PROVE  Sent1Inv'
<1>1. Sent' = Sent /\ Now' = Now
  BY DEF Sent, Now
<1>2. EventsInv' /\ Signals1Inv' /\ IdleInv'
  BY <1>1 DEF ThreadsInv, Sent1Inv, EventsInv, Signals1Inv, SignalOf, IdleInv, Threaded1
<1>3. CaughtUpInv'
  <2> SUFFICES ASSUME Threaded1
               PROVE  \E r \in RendererState : Leads(Sent, Now, r, displayFB, vram) /\ Settled(r)'
    BY <1>1 DEF CaughtUpInv, Threaded1
  <2>1. PICK r \in RendererState : Leads(Sent, Now, r, displayFB, vram) /\ Settled(r)
    BY DEF ThreadsInv, Sent1Inv, CaughtUpInv
  <2>2. Settled(r)'
    BY <2>1 DEF Settled, Display, Draw
  <2>3. QED
    BY <2>1, <2>2
<1>4. QED
  BY <1>2, <1>3 DEF Sent1Inv

\* The emulator sends VDP1 an event: what was sent before leads to b, and the
\* event from b to c.
LEMMA SendKeeps ==
  ASSUME ThreadsTypeOK, EventsInv, Signals1Inv, emulator \notin Waiting1,
         NEW e \in Event1, NEW w \in Nat, NEW b \in RendererState,
         NEW c, c = Handled(e, b, displayFB, w), Settled(c)',
         vram' = w, displayFB' = displayFB, UNCHANGED signals,
         Threaded1', Sent' = Append(Sent, e), Now' \in RendererState,
         Leads(Sent, Now', b, displayFB, w),
         e[1] \in AnsweredEvents => emulator' \in Waits1(e[1]),
         e[1] = "erase" => erasedSinceSwap',
         erasedSinceSwap => erasedSinceSwap',
         emulator' \notin {"sync", "swap", "framebufferSwap", "flip"}
  PROVE  Sent1Inv'
<1>1. /\ Sent \in Seq(Event1) /\ Len(Sent) \in Nat /\ Len(Sent') = Len(Sent) + 1
      /\ \A i \in 1..Len(Sent) : Sent'[i] = Sent[i]
      /\ Sent'[Len(Sent) + 1] = e
  BY SentType, AppendProperties
<1>2. EventsInv'
  <2> SUFFICES ASSUME NEW i \in 1..Len(Sent')
               PROVE  /\ Sent'[i][1] \in AnsweredEvents => i = Len(Sent') /\ emulator' \in Waits1(Sent'[i][1])
                      /\ Sent'[i][1] = "erase" => erasedSinceSwap'
    BY DEF EventsInv
  <2>1. CASE i = Len(Sent) + 1
    BY <1>1, <2>1
  <2>2. CASE i # Len(Sent) + 1
    <3>1. i \in 1..Len(Sent)
      BY <1>1, <2>2
    <3>2. Sent'[i] = Sent[i] /\ Sent[i][1] \notin AnsweredEvents
      BY <1>1, <3>1, NothingAnswered
    <3>3. Sent[i][1] = "erase" => erasedSinceSwap
      BY <3>1 DEF EventsInv
    <3>4. QED
      BY <3>2, <3>3
  <2>3. QED
    BY <2>1, <2>2
<1>3. Signals1 \cap signals = {}
  BY NothingAnswered
<1>4. Signals1Inv'
  BY <1>3 DEF Signals1Inv
<1>5. IdleInv'
  BY DEF IdleInv
<1>6. CaughtUpInv'
  <2>1. displayFB \in {0, 1}
    BY DEF ThreadsTypeOK
  <2>2. c \in RendererState
    BY <2>1, HandledType
  <2>3. Leads(Sent', Now', c, displayFB, w)
    BY <1>1, <2>1, <2>2, OneMore
  <2>4. QED
    BY <2>2, <2>3 DEF CaughtUpInv
<1>7. QED
  BY <1>2, <1>4, <1>5, <1>6 DEF Sent1Inv

\* VDP1's thread handles an event.
LEMMA HandleKeeps ==
  ASSUME ThreadsInv, VDP1RenderThread
  PROVE  Sent1Inv'
<1>1. ThreadsTypeOK /\ CallInv /\ EventsInv /\ Signals1Inv /\ IdleInv /\ CaughtUpInv
  BY DEF ThreadsInv, Sent1Inv
<1>2. PICK e \in Event1 : /\ Sent # <<>> /\ Head(queue1) = e /\ Head(Sent) = e
                          /\ Sent' = Tail(Sent)
  BY <1>1, TakeOne DEF VDP1RenderThread
<1>3. /\ UNCHANGED <<emulator, erasedSinceSwap, unfinished, displayFB, vram, ideal, pendingEvents>>
      /\ thread1 = "idle" /\ Threaded1
  BY <1>1 DEF VDP1RenderThread, frameCallVars, drawCallVars, Threaded1, ThreadsTypeOK
<1>4. /\ Now' = Handled(e, Now, displayFB, vram)
      /\ thread1' = IF e[1] = "shutdown" THEN "off" ELSE thread1
      /\ signals' = CASE e[1] = "swap" -> signals \cup {"swapBuffers"}
                      [] e[1] = "preSave" -> signals \cup {"preSave1"}
                      [] e[1] = "postLoad" -> signals \cup {"postLoad1"}
                      [] OTHER -> signals
  BY <1>1, <1>2, <1>3, HandleVDP1Does DEF VDP1RenderThread
<1>5. /\ Sent \in Seq(Event1) /\ Len(Sent) \in Nat \ {0}
      /\ Sent' \in Seq(Event1) /\ Len(Sent') = Len(Sent) - 1
      /\ \A i \in 1..Len(Sent') : Sent'[i] = Sent[i + 1]
  BY <1>1, <1>2, SentType, HeadTailProperties, EmptySeq
<1>first. e = Sent[1]
  BY <1>2, <1>5
<1>6. e[1] \in AnsweredEvents => Sent' = <<>> /\ emulator \in Waits1(e[1])
  <2> SUFFICES ASSUME e[1] \in AnsweredEvents PROVE Sent' = <<>> /\ emulator \in Waits1(e[1])
    OBVIOUS
  <2>1. 1 = Len(Sent) /\ emulator \in Waits1(e[1])
    BY <1>1, <1>5, <1>first DEF EventsInv
  <2>2. Len(Sent') = 0
    BY <1>5, <2>1
  <2>3. QED
    BY <1>2, <1>5, <2>1, <2>2, EmptySeq
<1>7. EventsInv'
  <2> SUFFICES ASSUME NEW i \in 1..Len(Sent')
               PROVE  /\ Sent'[i][1] \in AnsweredEvents => i = Len(Sent') /\ emulator' \in Waits1(Sent'[i][1])
                      /\ Sent'[i][1] = "erase" => erasedSinceSwap'
    BY DEF EventsInv
  <2>1. i + 1 \in 1..Len(Sent) /\ Sent'[i] = Sent[i + 1] /\ (i + 1 = Len(Sent) => i = Len(Sent'))
    BY <1>5
  <2>2. QED
    BY <1>1, <1>3, <2>1 DEF EventsInv
<1>8. Signals1Inv'
  <2> SUFFICES ASSUME NEW s \in Signals1, s \in signals' PROVE SignalOf(emulator) = s /\ Sent' = <<>>
    BY <1>3 DEF Signals1Inv, SignalOf
  <2>1. s \notin signals
    BY <1>1, <1>2 DEF Signals1Inv
  <2>2. \/ e[1] = "swap" /\ s = "swapBuffers"
        \/ e[1] = "preSave" /\ s = "preSave1"
        \/ e[1] = "postLoad" /\ s = "postLoad1"
    BY <1>4, <2>1
  <2>3. QED
    BY <1>6, <2>2 DEF AnsweredEvents, Waits1, SignalOf
<1>9. PICK r \in RendererState : Leads(Sent, Now, r, displayFB, vram) /\ Settled(r)
  BY <1>1, <1>3 DEF CaughtUpInv
<1>10. Leads(Sent', Now', r, displayFB, vram)
  BY <1>2, <1>4, <1>5, <1>9, FirstHandled
<1>11. Settled(r)'
  BY <1>3, <1>9 DEF Settled, Display, Draw
<1>12. CaughtUpInv'
  BY <1>3, <1>10, <1>11 DEF CaughtUpInv
<1>13. IdleInv'
  <2>1. emulator' \in {"swap", "framebufferSwap", "flip"} => FALSE
    BY <1>1, <1>2, <1>3 DEF IdleInv
  <2>2. emulator' = "sync" => pendingEvents' = <<>>
    BY <1>1, <1>3 DEF IdleInv
  <2>3. ASSUME ~Threaded1' PROVE Sent' = <<>> /\ spriteFB' = ideal'
    <3>1. e[1] = "shutdown"
      BY <1>3, <1>4, <2>3 DEF Threaded1
    <3>2. Sent' = <<>> /\ emulator = "join1"
      BY <1>6, <3>1 DEF AnsweredEvents, Waits1
    <3>3. r = Now'
      BY <1>10, <3>2, NoEventsStay
    <3>4. ~unfinished /\ displayFB \in {0, 1}
      BY <1>1, <3>2 DEF CallInv, SwitchCalls, ThreadsTypeOK
    <3>5. r.sprite[displayFB] = ideal[displayFB] /\ r.sprite[1 - displayFB] = ideal[1 - displayFB]
      BY <1>9, <3>4 DEF Settled, Display, Draw
    <3>6. r.sprite \in FrameBuffers /\ ideal \in FrameBuffers
      BY <1>1 DEF RendererState, ThreadsTypeOK
    <3>7. r.sprite = ideal
      BY <3>4, <3>5, <3>6 DEF FrameBuffers
    <3>8. r.sprite = spriteFB'
      BY <3>3 DEF Now
    <3>9. QED
      BY <1>3, <3>2, <3>7, <3>8
  <2>4. QED
    BY <2>1, <2>2, <2>3 DEF IdleInv
<1>14. QED
  BY <1>7, <1>8, <1>12, <1>13 DEF Sent1Inv

-----------------------------------------------------------------------------
(***************************************************************************)
(* The steps.                                                              *)
(***************************************************************************)
LEMMA Send2 ==
  ASSUME ThreadsTypeOK, NEW e \in Event2, queue2' = Append(queue2, e)
  PROVE  /\ queue2' \in Seq(Event2)
         /\ \A i \in 1..Len(queue2') : \/ i \in 1..Len(queue2) /\ queue2'[i] = queue2[i]
                                       \/ i = Len(queue2') /\ queue2'[i] = e
<1>1. queue2 \in Seq(Event2) /\ Len(queue2) \in Nat
  BY LenProperties DEF ThreadsTypeOK
<1>2. /\ queue2' \in Seq(Event2) /\ Len(queue2') = Len(queue2) + 1
      /\ \A i \in 1..Len(queue2) : queue2'[i] = queue2[i]
      /\ queue2'[Len(queue2) + 1] = e
  BY <1>1, AppendProperties
<1>3. ASSUME NEW i \in 1..Len(queue2')
      PROVE  \/ i \in 1..Len(queue2) /\ queue2'[i] = queue2[i]
             \/ i = Len(queue2') /\ queue2'[i] = e
  BY <1>1, <1>2
<1>4. QED
  BY <1>2, <1>3

LEMMA Events2 ==
  ASSUME NEW k \in {"frame", "erase", "swap", "preSave", "postLoad", "reset", "shutdown"}
  PROVE  <<k>> \in Event2
BY DEF Event2

\* A call that waits for neither thread: nothing is waited for, nothing signalled.
Waiting2 == {"eraseReady", "framebufferSwap", "join2"}

LEMMA Quiet1 ==
  ASSUME ThreadsInv, emulator \notin Waiting1
  PROVE  /\ \A i \in 1..Len(Sent) : Sent[i][1] \notin AnsweredEvents
         /\ Signals1 \cap signals = {}
BY NothingAnswered DEF ThreadsInv, Sent1Inv

LEMMA Quiet2 ==
  ASSUME ThreadsInv, emulator \notin Waiting2
  PROVE  /\ \A i \in 1..Len(queue2) : queue2[i][1] \notin {"erase", "swap", "shutdown"}
         /\ {"eraseReady", "framebufferSwap"} \cap signals = {}
BY DEF ThreadsInv, Sent2Inv, Waits2, Waiting2

LEMMA ReadFBKeeps ==
  ASSUME ProgramMay = {}, ThreadsInv, ReadFB
  PROVE  ThreadsInv'
<1> USE DEF ReadFB, frameCallVars, drawCallVars, regVars, sent1Vars, fbVars, thread1Vars,
            thread2Vars
<1>1. ThreadsTypeOK /\ CallInv /\ Sent1Inv /\ LineInv /\ Sent2Inv /\ DeinterlacerInv
  BY DEF ThreadsInv
<1>2. /\ \A i \in 1..Len(Sent) : Sent[i][1] \notin AnsweredEvents
      /\ Signals1 \cap signals = {}
  BY Quiet1 DEF Waiting1
<1>3. Sent' = Sent
  BY DEF Sent
<1>type. ThreadsTypeOK'
  BY <1>1 DEF ThreadsTypeOK, Calls
<1>call. CallInv'
  BY <1>1 DEF CallInv, SwapCalls, SwitchCalls, ThreadsTypeOK
<1>sent1. Sent1Inv'
  BY <1>2, <1>3, SilentKeeps DEF SwapCalls
<1>lines. LineInv'
  BY <1>1 DEF LineInv, Display
<1>sent2. Sent2Inv'
  BY <1>1 DEF Sent2Inv, Waits2
<1>deint. DeinterlacerInv'
  BY <1>1 DEF DeinterlacerInv
<1> QED
  BY <1>type, <1>call, <1>sent1, <1>lines, <1>sent2, <1>deint DEF ThreadsInv

LEMMA VDP2RenderLineKeeps ==
  ASSUME ProgramMay = {}, ThreadsInv, VDP2RenderLine
  PROVE  ThreadsInv'
<1> USE DEF VDP2RenderLine, Free, Running, frameCallVars, drawCallVars, regVars, sent1Vars, fbVars,
            thread1Vars, thread2Vars
<1>1. ThreadsTypeOK /\ CallInv /\ Sent1Inv /\ LineInv /\ Sent2Inv /\ DeinterlacerInv
  BY DEF ThreadsInv
<1>2. <<"line", ideal[Display]>> \in Event2
  BY <1>1 DEF Event2, ThreadsTypeOK, FrameBuffers, Display
<1>3. /\ queue2' \in Seq(Event2)
      /\ \A i \in 1..Len(queue2') : \/ i \in 1..Len(queue2) /\ queue2'[i] = queue2[i]
                                    \/ i = Len(queue2') /\ queue2'[i] = <<"line", ideal[Display]>>
  BY <1>1, <1>2, Send2
<1>type. ThreadsTypeOK'
  <2>1. queue2' \in Seq(Event2)
    BY <1>1, <1>3 DEF ThreadsTypeOK
  <2>2. emulator' \in Calls
    BY <1>1 DEF ThreadsTypeOK, Calls
  <2>3. QED
    BY <1>1, <2>1, <2>2 DEF ThreadsTypeOK
<1>call. CallInv'
  BY <1>1 DEF CallInv, SwapCalls, SwitchCalls, ThreadsTypeOK
<1>sent1. Sent1Inv'
  BY AsideKeeps
<1>lines. LineInv'
  BY <1>1, <1>3 DEF LineInv, Display, CallInv
<1>sent2. Sent2Inv'
  <2>1. /\ \A i \in 1..Len(queue2) : queue2[i][1] \notin {"erase", "swap", "shutdown"}
        /\ {"eraseReady", "framebufferSwap"} \cap signals = {}
    BY Quiet2 DEF Waiting2
  <2>2. QED
    BY <1>1, <1>3, <2>1 DEF Sent2Inv, Waits2, Threaded2, ThreadsTypeOK
<1>deint. DeinterlacerInv'
  BY <1>1 DEF DeinterlacerInv
<1> QED
  BY <1>type, <1>call, <1>sent1, <1>lines, <1>sent2, <1>deint DEF ThreadsInv

LEMMA EndDisplayKeeps ==
  ASSUME ProgramMay = {}, ThreadsInv, EndDisplay
  PROVE  ThreadsInv'
<1> USE DEF EndDisplay, Free, Running, frameCallVars, drawCallVars, regVars, sent1Vars, fbVars,
            thread1Vars, thread2Vars
<1>1. ThreadsTypeOK /\ CallInv /\ Sent1Inv /\ LineInv /\ Sent2Inv /\ DeinterlacerInv
  BY DEF ThreadsInv
<1>2. /\ \A i \in 1..Len(Sent) : Sent[i][1] \notin AnsweredEvents
      /\ Signals1 \cap signals = {}
  BY Quiet1 DEF Waiting1
<1>3. Sent' = Sent
  BY DEF Sent
<1>4. <<"frame">> \in Event2
  BY Events2
<1>5. Threaded2 =>
         /\ queue2' \in Seq(Event2)
         /\ \A i \in 1..Len(queue2') : \/ i \in 1..Len(queue2) /\ queue2'[i] = queue2[i]
                                       \/ i = Len(queue2') /\ queue2'[i] = <<"frame">>
  BY <1>1, <1>4, Send2
<1>type. ThreadsTypeOK'
  <2>1. queue2' \in Seq(Event2)
    BY <1>1, <1>5 DEF ThreadsTypeOK
  <2>2. emulator' \in Calls
    BY <1>1 DEF ThreadsTypeOK, Calls
  <2>3. QED
    BY <1>1, <2>1, <2>2 DEF ThreadsTypeOK
<1>call. CallInv'
  BY <1>1 DEF CallInv, SwapCalls, SwitchCalls, ThreadsTypeOK
<1>sent1. Sent1Inv'
  BY <1>2, <1>3, SilentKeeps DEF SwapCalls
<1>lines. LineInv'
  BY <1>1, <1>5 DEF LineInv, Display
<1>sent2. Sent2Inv'
  BY <1>1, <1>5 DEF Sent2Inv, Waits2, Threaded2
<1>deint. DeinterlacerInv'
  BY <1>1 DEF DeinterlacerInv
<1> QED
  BY <1>type, <1>call, <1>sent1, <1>lines, <1>sent2, <1>deint DEF ThreadsInv

LEMMA StartEraseKeeps ==
  ASSUME ProgramMay = {}, ThreadsInv, StartErase
  PROVE  ThreadsInv'
<1> USE DEF StartErase, Running, frameCallVars, drawCallVars, regVars, sent1Vars, fbVars,
            thread1Vars, thread2Vars
<1>1. ThreadsTypeOK /\ CallInv /\ Sent1Inv /\ LineInv /\ Sent2Inv /\ DeinterlacerInv
  BY DEF ThreadsInv
<1>2. /\ \A i \in 1..Len(Sent) : Sent[i][1] \notin AnsweredEvents
      /\ Signals1 \cap signals = {}
  BY Quiet1 DEF Waiting1
<1>3. Sent' = Sent
  BY DEF Sent
<1>4. <<"erase">> \in Event2
  BY Events2
<1>5. Threaded2 =>
         /\ queue2' \in Seq(Event2)
         /\ \A i \in 1..Len(queue2') : \/ i \in 1..Len(queue2) /\ queue2'[i] = queue2[i]
                                       \/ i = Len(queue2') /\ queue2'[i] = <<"erase">>
  BY <1>1, <1>4, Send2
<1>6. /\ \A i \in 1..Len(queue2) : queue2[i][1] \notin {"erase", "swap", "shutdown"}
      /\ {"eraseReady", "framebufferSwap"} \cap signals = {}
  BY Quiet2 DEF Waiting2
<1>type. ThreadsTypeOK'
  <2>1. queue2' \in Seq(Event2)
    BY <1>1, <1>5 DEF ThreadsTypeOK
  <2>2. emulator' \in Calls
    BY <1>1 DEF ThreadsTypeOK, Calls
  <2>3. QED
    BY <1>1, <2>1, <2>2 DEF ThreadsTypeOK
<1>call. CallInv'
  BY <1>1 DEF CallInv, SwapCalls, SwitchCalls, ThreadsTypeOK
<1>sent1. Sent1Inv'
  BY <1>2, <1>3, SilentKeeps DEF SwapCalls
<1>lines. LineInv'
  BY <1>1, <1>5 DEF LineInv, Display
<1>sent2. Sent2Inv'
  BY <1>1, <1>5, <1>6 DEF Sent2Inv, Waits2, Threaded2, ThreadsTypeOK
<1>deint. DeinterlacerInv'
  BY <1>1 DEF DeinterlacerInv
<1> QED
  BY <1>type, <1>call, <1>sent1, <1>lines, <1>sent2, <1>deint DEF ThreadsInv

\* Without its thread, VDP1 draws into the shared buffers at once.
LEMMA OffKeeps ==
  ASSUME ThreadsInv, ~Threaded1, UNCHANGED <<thread1, queue1, pendingEvents>>,
         spriteFB' = ideal', Signals1 \cap signals' = {}
  PROVE  Sent1Inv'
<1>1. Sent = <<>> /\ Sent' = Sent /\ ~Threaded1'
  BY DEF ThreadsInv, Sent1Inv, IdleInv, Sent, Threaded1
<1>2. Len(Sent') = 0 /\ pendingEvents' = <<>>
  BY <1>1, SentType, EmptySeq DEF ThreadsInv
<1>3. QED
  BY <1>1, <1>2 DEF Sent1Inv, EventsInv, Signals1Inv, IdleInv, CaughtUpInv

LEMMA ExecuteCommandKeeps ==
  ASSUME ProgramMay = {}, ThreadsInv, ExecuteCommand
  PROVE  ThreadsInv'
<1> USE DEF ExecuteCommand, UsedByCommand, Free, Running, frameCallVars, drawCallVars, regVars,
            sent1Vars, fbVars, thread1Vars, thread2Vars
<1>1. ThreadsTypeOK /\ CallInv /\ Sent1Inv /\ LineInv /\ Sent2Inv /\ DeinterlacerInv
  BY DEF ThreadsInv
<1>2. Signals1 \cap signals = {}
  BY Quiet1 DEF Waiting1
<1>3. <<"command", regs>> \in Event1
  BY <1>1 DEF Event1, ThreadsTypeOK
<1>4. ideal' \in FrameBuffers
  BY <1>1 DEF ThreadsTypeOK, FrameBuffers, Draw, Drawn
<1>type. ThreadsTypeOK'
  <2>1. queue1' \in Seq(Event1) /\ pendingEvents' \in Seq(Event1) /\ outstanding' = Len(queue1')
    BY <1>1, <1>3, SendOne DEF ThreadsTypeOK
  <2>2. spriteFB' \in FrameBuffers
    BY <1>1, <1>4 DEF ThreadsTypeOK
  <2>3. QED
    BY <1>1, <1>4, <2>1, <2>2 DEF ThreadsTypeOK
<1>call. CallInv'
  BY <1>1 DEF CallInv, SwapCalls, SwitchCalls, ThreadsTypeOK
<1>sent1. Sent1Inv'
  <2>1. CASE Threaded1
    <3>2. Sent' = Append(Sent, <<"command", regs>>)
      BY <1>1, <1>3, <2>1, SendOne
    <3>3. PICK r \in RendererState : Leads(Sent, Now, r, displayFB, vram) /\ Settled(r)
      BY <1>1, <2>1 DEF Sent1Inv, CaughtUpInv
    <3>4. PICK c : c = Handled(<<"command", regs>>, r, displayFB, vram)
      OBVIOUS
    <3>8. Settled(c)'
      <4>1. /\ c.fb = [r.fb EXCEPT ![1 - displayFB] = Drawn(r.vram)]
            /\ c.vram = r.vram /\ c.sprite = r.sprite
        BY <3>4 DEF Handled
      <4>2. /\ displayFB \in {0, 1} /\ ideal \in FrameBuffers
            /\ r.fb \in FrameBuffers /\ r.sprite \in FrameBuffers
        BY <1>1 DEF ThreadsTypeOK, RendererState
      <4>3. c.sprite[Display'] = ideal'[Display']
        BY <3>3, <4>1, <4>2 DEF Settled, Display, Draw, FrameBuffers
      <4>4. ~unfinished' \/ emulator' \in SwapCalls => c.sprite[Draw'] = ideal'[Draw']
        BY <3>3, <4>1, <4>2 DEF Settled, Display, Draw, SwapCalls, FrameBuffers
      <4>5. emulator' # "join1" => c.fb = ideal' /\ c.vram = vram'
        BY <2>1, <3>3, <4>1, <4>2 DEF Settled, Display, Draw
      <4>6. QED
        BY <4>3, <4>4, <4>5 DEF Settled
    <3>5. Now' = Now /\ Now \in RendererState
      BY <1>1, <2>1, SentType DEF Now
    <3>6. vram \in Nat /\ Threaded1'
      BY <1>1, <2>1 DEF ThreadsTypeOK, Threaded1
    <3>7. QED
      BY <1>1, <1>3, <2>1, <3>2, <3>3, <3>4, <3>5, <3>6, <3>8, SendKeeps
         DEF Sent1Inv, Waiting1, Waits1, AnsweredEvents
  <2>2. CASE ~Threaded1
    BY <1>1, <1>2, <2>2, OffKeeps DEF Sent1Inv, IdleInv
  <2>3. QED
    BY <2>1, <2>2
<1>lines. LineInv'
  BY <1>1 DEF LineInv, Display, Draw, ThreadsTypeOK, FrameBuffers
<1>sent2. Sent2Inv'
  BY <1>1 DEF Sent2Inv, Waits2
<1>deint. DeinterlacerInv'
  BY <1>1 DEF DeinterlacerInv
<1> QED
  BY <1>type, <1>call, <1>sent1, <1>lines, <1>sent2, <1>deint DEF ThreadsInv

\* What a call has left to do.
LEMMA Todos ==
  /\ <<"erase">> # <<>> /\ <<"swap">> # <<>> /\ <<"erase", "swap">> # <<>>
  /\ <<"swap">> # <<"erase">> /\ <<"erase", "swap">> # <<"erase">> /\ <<"erase", "swap">> # <<"swap">>
  /\ Head(<<"erase">>) = "erase" /\ Head(<<"swap">>) = "swap" /\ Head(<<"erase", "swap">>) = "erase"
  /\ Tail(<<"erase">>) = <<>> /\ Tail(<<"swap">>) = <<>> /\ Tail(<<"erase", "swap">>) = <<"swap">>
OBVIOUS

LEMMA WriteVRAMKeeps ==
  ASSUME ProgramMay = {}, ThreadsInv, NEW v \in VRAMValues, WriteVRAM(v)
  PROVE  ThreadsInv'
<1> USE DEF WriteVRAM, Free, Running, frameCallVars, drawCallVars, regVars, sent1Vars, fbVars,
            thread1Vars, thread2Vars
<1>1. ThreadsTypeOK /\ CallInv /\ Sent1Inv /\ LineInv /\ Sent2Inv /\ DeinterlacerInv
  BY DEF ThreadsInv
<1>2. Signals1 \cap signals = {}
  BY Quiet1 DEF Waiting1
<1>3. v \in Nat
  BY ThreadsAssumption
<1>4. <<"vram", v>> \in Event1
  BY <1>3 DEF Event1
<1>type. ThreadsTypeOK'
  <2>1. queue1' \in Seq(Event1) /\ pendingEvents' \in Seq(Event1) /\ outstanding' = Len(queue1')
    BY <1>1, <1>4, SendWrite DEF ThreadsTypeOK
  <2>2. emulator' \in Calls
    BY <1>1 DEF ThreadsTypeOK, Calls
  <2>3. QED
    BY <1>1, <1>3, <2>1, <2>2 DEF ThreadsTypeOK
<1>call. CallInv'
  BY <1>1 DEF CallInv, SwapCalls, SwitchCalls, ThreadsTypeOK
<1>sent1. Sent1Inv'
  <2>1. CASE Threaded1
    <3>2. Sent' = Append(Sent, <<"vram", v>>)
      BY <1>1, <1>4, <2>1, SendWrite
    <3>3. PICK r \in RendererState : Leads(Sent, Now, r, displayFB, vram) /\ Settled(r)
      BY <1>1, <2>1 DEF Sent1Inv, CaughtUpInv
    <3>1. \A i \in 1..Len(Sent) : Sent[i][1] # "postLoad"
      BY Quiet1 DEF Waiting1, AnsweredEvents
    <3>9. Sent \in Seq(Event1)
      BY <1>1, SentType
    <3>10. Leads(Sent, Now, r, displayFB, v)
      BY <3>1, <3>3, <3>9, MemoryAside
    <3>4. PICK c : c = Handled(<<"vram", v>>, r, displayFB, v)
      OBVIOUS
    <3>8. Settled(c)'
      <4>1. c.fb = r.fb /\ c.vram = v /\ c.sprite = r.sprite
        BY <3>4 DEF Handled
      <4>2. /\ displayFB \in {0, 1} /\ ideal \in FrameBuffers
            /\ r.fb \in FrameBuffers /\ r.sprite \in FrameBuffers
        BY <1>1 DEF ThreadsTypeOK, RendererState
      <4>3. c.sprite[Display'] = ideal'[Display']
        BY <3>3, <4>1, <4>2 DEF Settled, Display, Draw, FrameBuffers
      <4>4. ~unfinished' \/ emulator' \in SwapCalls => c.sprite[Draw'] = ideal'[Draw']
        BY <3>3, <4>1, <4>2 DEF Settled, Display, Draw, SwapCalls, FrameBuffers
      <4>5. emulator' # "join1" => c.fb = ideal' /\ c.vram = vram'
        BY <2>1, <3>3, <4>1, <4>2 DEF Settled, Display, Draw
      <4>6. QED
        BY <4>3, <4>4, <4>5 DEF Settled
    <3>5. Now' = Now /\ Now \in RendererState
      BY <1>1, <2>1, SentType DEF Now
    <3>6. Threaded1'
      BY <1>1, <2>1 DEF ThreadsTypeOK, Threaded1
    <3>7. QED
      BY <1>1, <1>4, <1>3, <2>1, <3>2, <3>3, <3>4, <3>5, <3>6, <3>8, <3>10, SendKeeps
         DEF Sent1Inv, Waiting1, Waits1, AnsweredEvents
  <2>2. CASE ~Threaded1
    BY <1>1, <1>2, <2>2, OffKeeps DEF Sent1Inv, IdleInv
  <2>3. QED
    BY <2>1, <2>2
<1>lines. LineInv'
  BY <1>1 DEF LineInv, Display
<1>sent2. Sent2Inv'
  BY <1>1 DEF Sent2Inv, Waits2
<1>deint. DeinterlacerInv'
  BY <1>1 DEF DeinterlacerInv
<1> QED
  BY <1>type, <1>call, <1>sent1, <1>lines, <1>sent2, <1>deint DEF ThreadsInv

LEMMA WriteRegKeeps ==
  ASSUME ProgramMay = {}, ThreadsInv, NEW n \in RegValues, WriteReg(n)
  PROVE  ThreadsInv'
<1> USE DEF WriteReg, Free, Running, frameCallVars, drawCallVars, regVars, sent1Vars, fbVars,
            thread1Vars, thread2Vars
<1>1. ThreadsTypeOK /\ CallInv /\ Sent1Inv /\ LineInv /\ Sent2Inv /\ DeinterlacerInv
  BY DEF ThreadsInv
<1>2. Signals1 \cap signals = {}
  BY Quiet1 DEF Waiting1
<1>3. n \in Nat
  BY ThreadsAssumption
<1>4. <<"reg">> \in Event1
  BY DEF Event1, PlainEvents, AnsweredEvents
<1>type. ThreadsTypeOK'
  <2>1. queue1' \in Seq(Event1) /\ pendingEvents' \in Seq(Event1) /\ outstanding' = Len(queue1')
    BY <1>1, <1>4, SendWrite DEF ThreadsTypeOK
  <2>2. emulator' \in Calls
    BY <1>1 DEF ThreadsTypeOK, Calls
  <2>3. QED
    BY <1>1, <1>3, <2>1, <2>2 DEF ThreadsTypeOK
<1>call. CallInv'
  BY <1>1 DEF CallInv, SwapCalls, SwitchCalls, ThreadsTypeOK
<1>sent1. Sent1Inv'
  <2>1. CASE Threaded1
    <3>2. Sent' = Append(Sent, <<"reg">>)
      BY <1>1, <1>4, <2>1, SendWrite
    <3>3. PICK r \in RendererState : Leads(Sent, Now, r, displayFB, vram) /\ Settled(r)
      BY <1>1, <2>1 DEF Sent1Inv, CaughtUpInv
    <3>4. PICK c : c = Handled(<<"reg">>, r, displayFB, vram)
      OBVIOUS
    <3>8. Settled(c)'
      <4>1. c.fb = r.fb /\ c.vram = r.vram /\ c.sprite = r.sprite
        BY <3>4 DEF Handled
      <4>2. /\ displayFB \in {0, 1} /\ ideal \in FrameBuffers
            /\ r.fb \in FrameBuffers /\ r.sprite \in FrameBuffers
        BY <1>1 DEF ThreadsTypeOK, RendererState
      <4>3. c.sprite[Display'] = ideal'[Display']
        BY <3>3, <4>1, <4>2 DEF Settled, Display, Draw, FrameBuffers
      <4>4. ~unfinished' \/ emulator' \in SwapCalls => c.sprite[Draw'] = ideal'[Draw']
        BY <3>3, <4>1, <4>2 DEF Settled, Display, Draw, SwapCalls, FrameBuffers
      <4>5. emulator' # "join1" => c.fb = ideal' /\ c.vram = vram'
        BY <2>1, <3>3, <4>1, <4>2 DEF Settled, Display, Draw
      <4>6. QED
        BY <4>3, <4>4, <4>5 DEF Settled
    <3>5. Now' = Now /\ Now \in RendererState
      BY <1>1, <2>1, SentType DEF Now
    <3>6. vram \in Nat /\ Threaded1'
      BY <1>1, <2>1 DEF ThreadsTypeOK, Threaded1
    <3>7. QED
      BY <1>1, <1>4, <2>1, <3>2, <3>3, <3>4, <3>5, <3>6, <3>8, SendKeeps
         DEF Sent1Inv, Waiting1, Waits1, AnsweredEvents
  <2>2. CASE ~Threaded1
    BY <1>1, <1>2, <2>2, OffKeeps DEF Sent1Inv, IdleInv
  <2>3. QED
    BY <2>1, <2>2
<1>lines. LineInv'
  BY <1>1 DEF LineInv, Display
<1>sent2. Sent2Inv'
  BY <1>1 DEF Sent2Inv, Waits2
<1>deint. DeinterlacerInv'
  BY <1>1 DEF DeinterlacerInv
<1> QED
  BY <1>type, <1>call, <1>sent1, <1>lines, <1>sent2, <1>deint DEF ThreadsInv

LEMMA WriteFBKeeps ==
  ASSUME ProgramMay = {}, ThreadsInv, WriteFB
  PROVE  ThreadsInv'
<1> USE DEF WriteFB, Free, Running, frameCallVars, drawCallVars, regVars, sent1Vars, fbVars,
            thread1Vars, thread2Vars
<1>1. ThreadsTypeOK /\ CallInv /\ Sent1Inv /\ LineInv /\ Sent2Inv /\ DeinterlacerInv
  BY DEF ThreadsInv
<1>2. Signals1 \cap signals = {}
  BY Quiet1 DEF Waiting1
<1>3. <<"fb">> \in Event1
  BY DEF Event1, PlainEvents, AnsweredEvents
<1>4. spriteFB' \in FrameBuffers /\ ideal' \in FrameBuffers
  BY <1>1 DEF ThreadsTypeOK, FrameBuffers, Draw, Display, Written, Erased
<1>5. queue1 = <<>> /\ pendingEvents = <<>> /\ Sent = <<>>
  BY <1>1, SentType, EmptySeq DEF ThreadsTypeOK
<1>type. ThreadsTypeOK'
  <2>1. queue1' \in Seq(Event1) /\ pendingEvents' \in Seq(Event1) /\ outstanding' = Len(queue1')
    BY <1>1, <1>3, SendWrite DEF ThreadsTypeOK
  <2>2. emulator' \in Calls
    BY <1>1 DEF ThreadsTypeOK, Calls
  <2>3. QED
    BY <1>1, <1>4, <2>1, <2>2 DEF ThreadsTypeOK
<1>call. CallInv'
  BY <1>1 DEF CallInv, SwapCalls, SwitchCalls, ThreadsTypeOK
<1>sent1. Sent1Inv'
  <2>1. CASE Threaded1
    <3>2. Sent' = Append(Sent, <<"fb">>)
      BY <1>1, <1>3, <2>1, SendWrite
    <3>3. Settled(Now)
      BY <1>1, <1>5, <2>1, NoEventsStay DEF Sent1Inv, CaughtUpInv
    <3>4. PICK c : c = Handled(<<"fb">>, Now', displayFB, vram)
      OBVIOUS
    <3>8. Settled(c)'
      <4>1. /\ c.fb = [rendererFB EXCEPT ![1 - displayFB] = Written]
            /\ c.vram = rendererVRAM /\ c.sprite = [spriteFB EXCEPT ![1 - displayFB] = Written]
        BY <3>4 DEF Handled, Now, Draw
      <4>2. /\ displayFB \in {0, 1} /\ ideal \in FrameBuffers /\ spriteFB \in FrameBuffers
            /\ rendererFB \in FrameBuffers
        BY <1>1 DEF ThreadsTypeOK
      <4>3. c.sprite[Display'] = ideal'[Display']
        BY <3>3, <4>1, <4>2 DEF Settled, Display, Draw, FrameBuffers, Now
      <4>4. c.sprite[Draw'] = ideal'[Draw']
        BY <4>1, <4>2 DEF Draw, FrameBuffers
      <4>5. emulator' # "join1" => c.fb = ideal' /\ c.vram = vram'
        BY <2>1, <3>3, <4>1, <4>2 DEF Settled, Display, Draw, Now
      <4>6. QED
        BY <4>3, <4>4, <4>5 DEF Settled
    <3>5. Now' \in RendererState
      BY <1>1, <1>4 DEF Now, RendererState, ThreadsTypeOK
    <3>9. Leads(Sent, Now', Now', displayFB, vram)
      BY <1>5, <3>5, NoEvents
    <3>6. vram \in Nat /\ Threaded1'
      BY <1>1, <2>1 DEF ThreadsTypeOK, Threaded1
    <3>7. QED
      BY <1>1, <1>3, <2>1, <3>2, <3>4, <3>5, <3>6, <3>8, <3>9, SendKeeps
         DEF Sent1Inv, Waiting1, Waits1, AnsweredEvents
  <2>2. CASE ~Threaded1
    BY <1>1, <1>2, <2>2, OffKeeps DEF Sent1Inv, IdleInv
  <2>3. QED
    BY <2>1, <2>2
<1>lines. LineInv'
  BY <1>1 DEF LineInv, Display, Draw, ThreadsTypeOK, FrameBuffers
<1>sent2. Sent2Inv'
  BY <1>1 DEF Sent2Inv, Waits2
<1>deint. DeinterlacerInv'
  BY <1>1 DEF DeinterlacerInv
<1> QED
  BY <1>type, <1>call, <1>sent1, <1>lines, <1>sent2, <1>deint DEF ThreadsInv

LEMMA VDP1EndFrameKeeps ==
  ASSUME ProgramMay = {}, ThreadsInv, VDP1EndFrame
  PROVE  ThreadsInv'
<1> USE DEF VDP1EndFrame, Free, Running, frameCallVars, drawCallVars, regVars, sent1Vars, fbVars,
            thread1Vars, thread2Vars
<1>1. ThreadsTypeOK /\ CallInv /\ Sent1Inv /\ LineInv /\ Sent2Inv /\ DeinterlacerInv
  BY DEF ThreadsInv
<1>2. Signals1 \cap signals = {}
  BY Quiet1 DEF Waiting1
<1>3. <<"end">> \in Event1
  BY DEF Event1, PlainEvents, AnsweredEvents
<1>type. ThreadsTypeOK'
  <2>1. queue1' \in Seq(Event1) /\ pendingEvents' \in Seq(Event1) /\ outstanding' = Len(queue1')
    BY <1>1, <1>3, SendOne DEF ThreadsTypeOK
  <2>2. emulator' \in Calls
    BY <1>1 DEF ThreadsTypeOK, Calls
  <2>3. QED
    BY <1>1, <2>1, <2>2 DEF ThreadsTypeOK
<1>call. CallInv'
  BY <1>1 DEF CallInv, SwapCalls, SwitchCalls, ThreadsTypeOK
<1>sent1. Sent1Inv'
  <2>1. CASE Threaded1
    <3>1. <<"end">> \in Event1
      BY DEF Event1, PlainEvents, AnsweredEvents
    <3>2. Sent' = Append(Sent, <<"end">>)
      BY <1>1, <2>1, <3>1, SendOne
    <3>3. PICK r \in RendererState : Leads(Sent, Now, r, displayFB, vram) /\ Settled(r)
      BY <1>1, <2>1 DEF Sent1Inv, CaughtUpInv
    <3>4. PICK c : c = Handled(<<"end">>, r, displayFB, vram)
      OBVIOUS
    <3>8. Settled(c)'
      <4>1. /\ c.fb = r.fb /\ c.vram = r.vram
            /\ c.sprite = [r.sprite EXCEPT ![1 - displayFB] = r.fb[1 - displayFB]]
        BY <3>4 DEF Handled
      <4>2. /\ displayFB \in {0, 1} /\ ideal \in FrameBuffers
            /\ r.fb \in FrameBuffers /\ r.sprite \in FrameBuffers
        BY <1>1 DEF ThreadsTypeOK, RendererState
      <4>3. c.sprite[Display'] = ideal'[Display']
        BY <3>3, <4>1, <4>2 DEF Settled, Display, Draw, FrameBuffers
      <4>4. ~unfinished' \/ emulator' \in SwapCalls => c.sprite[Draw'] = ideal'[Draw']
        BY <3>3, <4>1, <4>2 DEF Settled, Display, Draw, SwapCalls, FrameBuffers
      <4>5. emulator' # "join1" => c.fb = ideal' /\ c.vram = vram'
        BY <2>1, <3>3, <4>1, <4>2 DEF Settled, Display, Draw
      <4>6. QED
        BY <4>3, <4>4, <4>5 DEF Settled
    <3>5. Now' = Now /\ Now \in RendererState
      BY <1>1, <2>1, SentType DEF Now
    <3>6. vram \in Nat /\ Threaded1'
      BY <1>1, <2>1 DEF ThreadsTypeOK, Threaded1
    <3>7. QED
      BY <1>1, <2>1, <3>1, <3>2, <3>3, <3>4, <3>5, <3>6, <3>8, SendKeeps
         DEF Sent1Inv, Waiting1, Waits1, AnsweredEvents
  <2>2. CASE ~Threaded1
    BY <1>1, <1>2, <2>2, OffKeeps DEF Sent1Inv, IdleInv
  <2>3. QED
    BY <2>1, <2>2
<1>lines. LineInv'
  BY <1>1 DEF LineInv, Display
<1>sent2. Sent2Inv'
  BY <1>1 DEF Sent2Inv, Waits2
<1>deint. DeinterlacerInv'
  BY <1>1 DEF DeinterlacerInv
<1> QED
  BY <1>type, <1>call, <1>sent1, <1>lines, <1>sent2, <1>deint DEF ThreadsInv

LEMMA VDP1SyncFBKeeps ==
  ASSUME ProgramMay = {}, ThreadsInv, VDP1SyncFB
  PROVE  ThreadsInv'
<1> USE DEF VDP1SyncFB, Free, Running, frameCallVars, drawCallVars, regVars, sent1Vars, fbVars,
            thread1Vars, thread2Vars
<1>1. ThreadsTypeOK /\ CallInv /\ Sent1Inv /\ LineInv /\ Sent2Inv /\ DeinterlacerInv
  BY DEF ThreadsInv
<1>2. /\ \A i \in 1..Len(Sent) : Sent[i][1] \notin AnsweredEvents
      /\ Signals1 \cap signals = {}
  BY Quiet1 DEF Waiting1
<1>3. Sent' = Sent /\ pendingEvents' = <<>>
  BY <1>1, SendBatch
<1>type. ThreadsTypeOK'
  <2>1. queue1' \in Seq(Event1) /\ pendingEvents' \in Seq(Event1) /\ outstanding' = Len(queue1')
    BY <1>1, <1>3, SendBatch DEF ThreadsTypeOK
  <2>2. emulator' \in Calls
    BY <1>1 DEF ThreadsTypeOK, Calls
  <2>3. QED
    BY <1>1, <2>1, <2>2 DEF ThreadsTypeOK
<1>call. CallInv'
  BY <1>1 DEF CallInv, SwapCalls, SwitchCalls, ThreadsTypeOK
<1>sent1. Sent1Inv'
  BY <1>2, <1>3, SilentKeeps DEF SwapCalls
<1>lines. LineInv'
  BY <1>1 DEF LineInv, Display
<1>sent2. Sent2Inv'
  BY <1>1 DEF Sent2Inv, Waits2
<1>deint. DeinterlacerInv'
  BY <1>1 DEF DeinterlacerInv
<1> QED
  BY <1>type, <1>call, <1>sent1, <1>lines, <1>sent2, <1>deint DEF ThreadsInv

LEMMA EndOfBlankingKeeps ==
  ASSUME ProgramMay = {}, ThreadsInv, NEW kind \in FrameKinds, EndOfBlanking(kind)
  PROVE  ThreadsInv'
<1> USE DEF EndOfBlanking, Free, Running, frameCallVars, drawCallVars, regVars, sent1Vars, fbVars,
            thread1Vars, thread2Vars
<1>1. ThreadsTypeOK /\ CallInv /\ Sent1Inv /\ LineInv /\ Sent2Inv /\ DeinterlacerInv
  BY DEF ThreadsInv
<1>2. /\ \A i \in 1..Len(Sent) : Sent[i][1] \notin AnsweredEvents
      /\ Signals1 \cap signals = {}
  BY Quiet1 DEF Waiting1
<1>3. Sent' = Sent
  BY DEF Sent
<1>4. /\ kind \in {"hold", "cycle", "manual", "vberase"}
      /\ todo' \in {<<>>, <<"swap">>, <<"erase", "swap">>}
      /\ kind # "hold" => todo' # <<>>
  BY ThreadsAssumption, Todos DEF Decisions
<1>5. displayErase' \in BOOLEAN
  <2>1. displayErase' = TRUE \/ displayErase' = FALSE
    OBVIOUS
  <2>2. QED
    BY <2>1
<1>type. ThreadsTypeOK'
  BY <1>1, <1>4, <1>5 DEF ThreadsTypeOK
<1>call. CallInv'
  BY <1>1, <1>4, Todos DEF CallInv, SwapCalls, SwitchCalls, ThreadsTypeOK
<1>sent1. Sent1Inv'
  BY <1>2, <1>3, SilentKeeps DEF SwapCalls
<1>lines. LineInv'
  BY <1>1 DEF LineInv, Display
<1>sent2. Sent2Inv'
  BY <1>1 DEF Sent2Inv, Waits2
<1>deint. DeinterlacerInv'
  BY <1>1 DEF DeinterlacerInv
<1> QED
  BY <1>type, <1>call, <1>sent1, <1>lines, <1>sent2, <1>deint DEF ThreadsInv

LEMMA EraseKeeps ==
  ASSUME ProgramMay = {}, ThreadsInv, Erase
  PROVE  ThreadsInv'
<1> USE DEF Erase, UsedByErase, frameCallVars, drawCallVars, regVars, sent1Vars, fbVars,
            thread1Vars, thread2Vars
<1>1. ThreadsTypeOK /\ CallInv /\ Sent1Inv /\ LineInv /\ Sent2Inv /\ DeinterlacerInv
  BY DEF ThreadsInv
<1>2. Signals1 \cap signals = {}
  BY Quiet1 DEF Waiting1
<1>3. <<"erase", <<regs, eraseLatch>>>> \in Event1
  BY <1>1 DEF Event1, ThreadsTypeOK
<1>4. spriteFB' \in FrameBuffers /\ ideal' \in FrameBuffers
  BY <1>1 DEF ThreadsTypeOK, FrameBuffers, Draw, Display, Written, Erased
<1>5. /\ todo \in {<<"erase">>, <<"erase", "swap">>}
      /\ todo' = IF todo = <<"erase">> THEN <<>> ELSE <<"swap">>
  BY <1>1, Todos DEF CallInv, ThreadsTypeOK
<1>6. queue2 = <<>> /\ Len(queue2) = 0 /\ thread2 \in {"idle", "off"}
  BY <1>1 DEF Sent2Inv
<1>type. ThreadsTypeOK'
  <2>1. queue1' \in Seq(Event1) /\ pendingEvents' \in Seq(Event1) /\ outstanding' = Len(queue1')
    BY <1>1, <1>3, SendOne DEF ThreadsTypeOK
  <2>2. emulator' \in Calls
    BY <1>1 DEF ThreadsTypeOK, Calls
  <2>3. QED
    BY <1>1, <1>4, <1>5, <2>1, <2>2 DEF ThreadsTypeOK
<1>call. CallInv'
  BY <1>1, <1>5, Todos DEF CallInv, SwapCalls, SwitchCalls, ThreadsTypeOK
<1>sent1. Sent1Inv'
  <2>1. CASE Threaded1
    <3>2. Sent' = Append(Sent, <<"erase", <<regs, eraseLatch>>>>)
      BY <1>1, <1>3, <2>1, SendOne
    <3>3. PICK r \in RendererState : Leads(Sent, Now, r, displayFB, vram) /\ Settled(r)
      BY <1>1, <2>1 DEF Sent1Inv, CaughtUpInv
    <3>4. PICK c : c = Handled(<<"erase", <<regs, eraseLatch>>>>, r, displayFB, vram)
      OBVIOUS
    <3>8. Settled(c)'
      <4>1. /\ c.fb = [r.fb EXCEPT ![displayFB] = Erased] /\ c.vram = r.vram
            /\ c.sprite = [r.sprite EXCEPT ![displayFB] = Erased]
        BY <3>4 DEF Handled
      <4>2. /\ displayFB \in {0, 1} /\ ideal \in FrameBuffers
            /\ r.fb \in FrameBuffers /\ r.sprite \in FrameBuffers
        BY <1>1 DEF ThreadsTypeOK, RendererState
      <4>3. c.sprite[Display'] = ideal'[Display']
        BY <3>3, <4>1, <4>2 DEF Settled, Display, Draw, FrameBuffers
      <4>4. ~unfinished' \/ emulator' \in SwapCalls => c.sprite[Draw'] = ideal'[Draw']
        BY <3>3, <4>1, <4>2 DEF Settled, Display, Draw, SwapCalls, FrameBuffers
      <4>5. emulator' # "join1" => c.fb = ideal' /\ c.vram = vram'
        BY <2>1, <3>3, <4>1, <4>2 DEF Settled, Display, Draw
      <4>6. QED
        BY <4>3, <4>4, <4>5 DEF Settled
    <3>5. Now' = Now /\ Now \in RendererState
      BY <1>1, <2>1, SentType DEF Now
    <3>6. vram \in Nat /\ Threaded1'
      BY <1>1, <2>1 DEF ThreadsTypeOK, Threaded1
    <3>7. QED
      BY <1>1, <1>3, <2>1, <3>2, <3>3, <3>4, <3>5, <3>6, <3>8, SendKeeps
         DEF Sent1Inv, Waiting1, Waits1, AnsweredEvents
  <2>2. CASE ~Threaded1
    BY <1>1, <1>2, <2>2, OffKeeps DEF Sent1Inv, IdleInv
  <2>3. QED
    BY <2>1, <2>2
<1>lines. LineInv'
  BY <1>6 DEF LineInv
<1>sent2. Sent2Inv'
  BY <1>1, <1>6 DEF Sent2Inv, Waits2
<1>deint. DeinterlacerInv'
  BY <1>1 DEF DeinterlacerInv
<1> QED
  BY <1>type, <1>call, <1>sent1, <1>lines, <1>sent2, <1>deint DEF ThreadsInv

LEMMA StartSwapKeeps ==
  ASSUME ProgramMay = {}, ThreadsInv, StartSwap
  PROVE  ThreadsInv'
<1> USE DEF StartSwap, LatchEraseParameters, Running, frameCallVars, drawCallVars, regVars,
            sent1Vars, fbVars, thread1Vars, thread2Vars
<1>1. ThreadsTypeOK /\ CallInv /\ Sent1Inv /\ LineInv /\ Sent2Inv /\ DeinterlacerInv
  BY DEF ThreadsInv
<1>2. Signals1 \cap signals = {}
  BY Quiet1 DEF Waiting1
<1>3. <<"swap">> \in Event1
  BY DEF Event1, PlainEvents, AnsweredEvents
<1>type. ThreadsTypeOK'
  <2>1. queue1' \in Seq(Event1) /\ pendingEvents' \in Seq(Event1) /\ outstanding' = Len(queue1')
    BY <1>1, <1>3, SendOne DEF ThreadsTypeOK
  <2>2. emulator' \in Calls
    BY <1>1 DEF ThreadsTypeOK, Calls
  <2>3. QED
    BY <1>1, <2>1, <2>2 DEF ThreadsTypeOK
<1>call. CallInv'
  BY <1>1 DEF CallInv, SwapCalls, SwitchCalls, ThreadsTypeOK
<1>sent1. Sent1Inv'
  <2>1. CASE Threaded1
    <3>1. <<"swap">> \in Event1
      BY DEF Event1, PlainEvents, AnsweredEvents
    <3>2. Sent' = Append(Sent, <<"swap">>)
      BY <1>1, <2>1, <3>1, SendOne
    <3>3. PICK r \in RendererState : Leads(Sent, Now, r, displayFB, vram) /\ Settled(r)
      BY <1>1, <2>1 DEF Sent1Inv, CaughtUpInv
    <3>4. PICK c : c = Handled(<<"swap">>, r, displayFB, vram)
      OBVIOUS
    <3>8. Settled(c)'
      <4>1. /\ c.fb = r.fb /\ c.vram = r.vram
            /\ c.sprite = [r.sprite EXCEPT ![1 - displayFB] = r.fb[1 - displayFB]]
        BY <3>4 DEF Handled
      <4>2. /\ displayFB \in {0, 1} /\ ideal \in FrameBuffers
            /\ r.fb \in FrameBuffers /\ r.sprite \in FrameBuffers
        BY <1>1 DEF ThreadsTypeOK, RendererState
      <4>3. c.sprite[Display'] = ideal'[Display']
        BY <3>3, <4>1, <4>2 DEF Settled, Display, Draw, FrameBuffers
      <4>4. ~unfinished' \/ emulator' \in SwapCalls => c.sprite[Draw'] = ideal'[Draw']
        BY <3>3, <4>1, <4>2 DEF Settled, Display, Draw, SwapCalls, FrameBuffers
      <4>5. emulator' # "join1" => c.fb = ideal' /\ c.vram = vram'
        BY <2>1, <3>3, <4>1, <4>2 DEF Settled, Display, Draw
      <4>6. QED
        BY <4>3, <4>4, <4>5 DEF Settled
    <3>5. Now' = Now /\ Now \in RendererState
      BY <1>1, <2>1, SentType DEF Now
    <3>6. vram \in Nat /\ Threaded1'
      BY <1>1, <2>1 DEF ThreadsTypeOK, Threaded1
    <3>7. QED
      BY <1>1, <2>1, <3>1, <3>2, <3>3, <3>4, <3>5, <3>6, <3>8, SendKeeps
         DEF Sent1Inv, Waiting1, Waits1, AnsweredEvents
  <2>2. CASE ~Threaded1
    BY <1>1, <1>2, <2>2, OffKeeps DEF Sent1Inv, IdleInv
  <2>3. QED
    BY <2>1, <2>2
<1>lines. LineInv'
  BY <1>1 DEF LineInv, Display
<1>sent2. Sent2Inv'
  BY <1>1 DEF Sent2Inv, Waits2
<1>deint. DeinterlacerInv'
  BY <1>1 DEF DeinterlacerInv
<1> QED
  BY <1>type, <1>call, <1>sent1, <1>lines, <1>sent2, <1>deint DEF ThreadsInv

LEMMA SwapVDP2Keeps ==
  ASSUME ProgramMay = {}, ThreadsInv, SwapVDP2
  PROVE  ThreadsInv'
<1> USE DEF SwapVDP2, frameCallVars, drawCallVars, regVars, sent1Vars, fbVars, thread1Vars,
            thread2Vars
<1>1. ThreadsTypeOK /\ CallInv /\ Sent1Inv /\ LineInv /\ Sent2Inv /\ DeinterlacerInv
  BY DEF ThreadsInv
<1>2. /\ \A i \in 1..Len(Sent) : Sent[i][1] \notin AnsweredEvents
      /\ Signals1 \cap signals = {}
  BY Quiet1 DEF Waiting1
<1>3. Sent' = Sent
  BY DEF Sent
<1>4. <<"swap">> \in Event2
  BY Events2
<1>5. Threaded2 =>
         /\ queue2' \in Seq(Event2)
         /\ \A i \in 1..Len(queue2') : \/ i \in 1..Len(queue2) /\ queue2'[i] = queue2[i]
                                       \/ i = Len(queue2') /\ queue2'[i] = <<"swap">>
  BY <1>1, <1>4, Send2
<1>6. /\ \A i \in 1..Len(queue2) : queue2[i][1] \notin {"erase", "swap", "shutdown"}
      /\ {"eraseReady", "framebufferSwap"} \cap signals = {}
  BY Quiet2 DEF Waiting2
<1>7. Sent = <<>>
  BY <1>1 DEF Sent1Inv, IdleInv
<1>type. ThreadsTypeOK'
  <2>1. queue2' \in Seq(Event2)
    BY <1>1, <1>5 DEF ThreadsTypeOK
  <2>2. emulator' \in Calls
    BY <1>1 DEF ThreadsTypeOK, Calls
  <2>3. QED
    BY <1>1, <2>1, <2>2 DEF ThreadsTypeOK
<1>call. CallInv'
  BY <1>1 DEF CallInv, SwapCalls, SwitchCalls, ThreadsTypeOK
<1>sent1. Sent1Inv'
  BY <1>2, <1>3, <1>7, SilentKeeps DEF SwapCalls
<1>lines. LineInv'
  BY <1>1, <1>5 DEF LineInv, Display
<1>sent2. Sent2Inv'
  BY <1>1, <1>5, <1>6 DEF Sent2Inv, Waits2, Threaded2, ThreadsTypeOK
<1>deint. DeinterlacerInv'
  BY <1>1 DEF DeinterlacerInv
<1> QED
  BY <1>type, <1>call, <1>sent1, <1>lines, <1>sent2, <1>deint DEF ThreadsInv

LEMMA FlipKeeps ==
  ASSUME ProgramMay = {}, ThreadsInv, Flip
  PROVE  ThreadsInv'
<1> USE DEF Flip, frameCallVars, drawCallVars, regVars, sent1Vars, fbVars, thread1Vars, thread2Vars
<1>1. ThreadsTypeOK /\ CallInv /\ Sent1Inv /\ LineInv /\ Sent2Inv /\ DeinterlacerInv
  BY DEF ThreadsInv
<1>2. /\ \A i \in 1..Len(Sent) : Sent[i][1] \notin AnsweredEvents
      /\ Signals1 \cap signals = {}
  BY Quiet1 DEF Waiting1
<1>3. Sent' = Sent
  BY DEF Sent
<1>4. Sent = <<>> /\ Len(Sent) = 0
  BY <1>1 DEF Sent1Inv, IdleInv
<1>5. queue2 = <<>> /\ Len(queue2) = 0 /\ thread2 \in {"idle", "off"} /\ todo = <<"swap">>
  BY <1>1 DEF Sent2Inv, CallInv, SwapCalls
<1>6. todo' = <<>> /\ displayFB' \in {0, 1}
  BY <1>1, <1>5, Todos DEF ThreadsTypeOK
<1>7. Threaded1 => Settled(Now)
  BY <1>1, <1>4, NoEventsStay DEF Sent1Inv, CaughtUpInv
<1>8. spriteFB[Draw] = ideal[Draw] /\ spriteFB[Display] = ideal[Display]
  BY <1>1, <1>7 DEF Settled, Now, SwapCalls, Sent1Inv, IdleInv
<1>9. Display' = Draw /\ Draw' = Display
  BY <1>1 DEF Display, Draw, ThreadsTypeOK
<1>type. ThreadsTypeOK'
  BY <1>1, <1>6 DEF ThreadsTypeOK, Calls
<1>call. CallInv'
  BY <1>6, Todos DEF CallInv, SwapCalls, SwitchCalls
<1>sent1. Sent1Inv'
  <2>1. EventsInv' /\ Signals1Inv' /\ IdleInv'
    BY <1>1, <1>2, <1>3, <1>4 DEF EventsInv, Signals1Inv, IdleInv, Sent1Inv, Threaded1
  <2>2. CASE Threaded1
    <3>1. Now' = Now /\ Now \in RendererState
      BY <1>1, SentType DEF Now
    <3>2. Leads(Sent', Now', Now, displayFB', vram')
      BY <1>3, <1>4, <3>1, NoEvents
    <3>3. Settled(Now)'
      BY <1>7, <1>8, <1>9, <2>2, <3>1 DEF Settled, Now
    <3>4. QED
      BY <2>1, <3>1, <3>2, <3>3 DEF Sent1Inv, CaughtUpInv
  <2>3. CASE ~Threaded1
    BY <2>1, <2>3 DEF Sent1Inv, CaughtUpInv, Threaded1
  <2>4. QED
    BY <2>2, <2>3
<1>lines. LineInv'
  BY <1>5, <1>8, <1>9 DEF LineInv
<1>sent2. Sent2Inv'
  BY <1>1 DEF Sent2Inv, Waits2
<1>deint. DeinterlacerInv'
  BY <1>1 DEF DeinterlacerInv
<1> QED
  BY <1>type, <1>call, <1>sent1, <1>lines, <1>sent2, <1>deint DEF ThreadsInv

LEMMA GoOnKeeps ==
  ASSUME ProgramMay = {}, ThreadsInv, GoOn
  PROVE  ThreadsInv'
<1> USE DEF GoOn, frameCallVars, drawCallVars, regVars, sent1Vars, fbVars, thread1Vars, thread2Vars
<1>1. ThreadsTypeOK /\ CallInv /\ Sent1Inv /\ LineInv /\ Sent2Inv /\ DeinterlacerInv
  BY DEF ThreadsInv
<1>2. \/ emulator = "renderFinished" /\ emulator' = "run"
      \/ emulator = "eraseReady" /\ emulator' = "erase"
      \/ emulator = "swapBuffers" /\ emulator' = "swap"
      \/ emulator = "framebufferSwap" /\ emulator' = "flip"
      \/ emulator = "preSave1" /\ emulator' = "preSave"
      \/ emulator = "preSave2" /\ emulator' = "load"
      \/ emulator = "postLoad1" /\ emulator' = "postLoad"
      \/ emulator = "postLoad2" /\ emulator' = "run"
      \/ emulator = "postEnable1" /\ emulator' = "run"
  BY DEF Then
<1>3. Sent' = Sent
  BY DEF Sent
<1>4. PICK s : s = SignalOf(emulator) /\ s \in signals /\ signals' = signals \ {s}
  OBVIOUS
<1>5. \/ Sent = <<>> /\ Len(Sent) = 0
      \/ emulator \notin Waiting1 /\ \A i \in 1..Len(Sent) : Sent[i][1] \notin AnsweredEvents
  <2>1. CASE emulator \in Waiting1
    <3>1. s \in Signals1
      BY <1>2, <1>4, <2>1 DEF Waiting1, Signals1, SignalOf
    <3>2. QED
      BY <1>1, <1>4, <3>1, EmptySeq DEF Sent1Inv, Signals1Inv
  <2>2. CASE emulator \notin Waiting1
    BY <2>2, Quiet1
  <2>3. QED
    BY <2>1, <2>2
<1>6. Signals1 \cap signals' = {}
  BY <1>1, <1>4 DEF Sent1Inv, Signals1Inv
<1>7. s \notin DeinterlacerSignals
  BY <1>2, <1>4 DEF SignalOf, DeinterlacerSignals
<1>8. emulator' \in {"swap", "framebufferSwap", "flip"} => Sent = <<>>
  BY <1>1, <1>2, <1>5 DEF Sent1Inv, IdleInv, Waiting1
<1>type. ThreadsTypeOK'
  BY <1>1, <1>2 DEF ThreadsTypeOK, Calls
<1>call. CallInv'
  BY <1>1, <1>2 DEF CallInv, SwapCalls, SwitchCalls
<1>sent1. Sent1Inv'
  <2>1. \A i \in 1..Len(Sent) : Sent[i][1] \notin AnsweredEvents
    BY <1>5
  <2>2. QED
    BY <1>2, <1>3, <1>6, <1>8, <2>1, SilentKeeps DEF SwapCalls
<1>lines. LineInv'
  BY <1>1 DEF LineInv, Display
<1>sent2. Sent2Inv'
  <2>1. CASE emulator \in {"eraseReady", "framebufferSwap"}
    <3>1. queue2 = <<>> /\ Len(queue2) = 0 /\ thread2 = "idle"
          /\ {"eraseReady", "framebufferSwap"} \cap signals' = {}
      BY <1>1, <1>4, <2>1 DEF Sent2Inv, SignalOf
    <3>2. QED
      BY <1>2, <3>1 DEF Sent2Inv
  <2>2. CASE emulator \notin {"eraseReady", "framebufferSwap"}
    <3>1. /\ \A i \in 1..Len(queue2) : queue2[i][1] \notin {"erase", "swap", "shutdown"}
          /\ {"eraseReady", "framebufferSwap"} \cap signals = {}
      BY <1>2, <2>2, Quiet2 DEF Waiting2
    <3>2. QED
      BY <1>1, <1>2, <1>4, <2>2, <3>1 DEF Sent2Inv, Waits2
  <2>3. QED
    BY <2>1, <2>2
<1>deint. DeinterlacerInv'
  <2>1. DeinterlacerSignals \cap signals' = DeinterlacerSignals \cap signals
    BY <1>4, <1>7
  <2>2. QED
    BY <1>1, <2>1 DEF DeinterlacerInv
<1> QED
  BY <1>type, <1>call, <1>sent1, <1>lines, <1>sent2, <1>deint DEF ThreadsInv

LEMMA PreSaveStateSyncKeeps ==
  ASSUME ProgramMay = {}, ThreadsInv, PreSaveStateSync
  PROVE  ThreadsInv'
<1> USE DEF PreSaveStateSync, Switchable, Free, Running, frameCallVars, drawCallVars, regVars,
            sent1Vars, fbVars, thread1Vars, thread2Vars
<1>1. ThreadsTypeOK /\ CallInv /\ Sent1Inv /\ LineInv /\ Sent2Inv /\ DeinterlacerInv
  BY DEF ThreadsInv
<1>2. Signals1 \cap signals = {}
  BY Quiet1 DEF Waiting1
<1>3. <<"preSave">> \in Event1
  BY DEF Event1, PlainEvents, AnsweredEvents
<1>4. <<"preSave">> \in Event2
  BY Events2
<1>5. Threaded2 =>
         /\ queue2' \in Seq(Event2)
         /\ \A i \in 1..Len(queue2') : \/ i \in 1..Len(queue2) /\ queue2'[i] = queue2[i]
                                       \/ i = Len(queue2') /\ queue2'[i] = <<"preSave">>
  BY <1>1, <1>4, Send2
<1>6. /\ \A i \in 1..Len(queue2) : queue2[i][1] \notin {"erase", "swap", "shutdown"}
      /\ {"eraseReady", "framebufferSwap"} \cap signals = {}
  BY Quiet2 DEF Waiting2
<1>type. ThreadsTypeOK'
  <2>1. queue1' \in Seq(Event1) /\ pendingEvents' \in Seq(Event1) /\ outstanding' = Len(queue1')
    BY <1>1, <1>3, SendOne DEF ThreadsTypeOK
  <2>2. emulator' \in Calls
    BY <1>1 DEF ThreadsTypeOK, Calls
  <2>3. queue2' \in Seq(Event2)
    BY <1>1, <1>5 DEF ThreadsTypeOK
  <2>4. QED
    BY <1>1, <2>1, <2>2, <2>3 DEF ThreadsTypeOK
<1>call. CallInv'
  BY <1>1 DEF CallInv, SwapCalls, SwitchCalls, ThreadsTypeOK
<1>sent1. Sent1Inv'
  <2>1. CASE Threaded1
    <3>1. <<"preSave">> \in Event1
      BY DEF Event1, PlainEvents, AnsweredEvents
    <3>2. Sent' = Append(Sent, <<"preSave">>)
      BY <1>1, <2>1, <3>1, SendOne
    <3>3. PICK r \in RendererState : Leads(Sent, Now, r, displayFB, vram) /\ Settled(r)
      BY <1>1, <2>1 DEF Sent1Inv, CaughtUpInv
    <3>4. PICK c : c = Handled(<<"preSave">>, r, displayFB, vram)
      OBVIOUS
    <3>8. Settled(c)'
      <4>1. c.fb = r.fb /\ c.vram = r.vram /\ c.sprite = r.sprite
        BY <3>4 DEF Handled
      <4>2. /\ displayFB \in {0, 1} /\ ideal \in FrameBuffers
            /\ r.fb \in FrameBuffers /\ r.sprite \in FrameBuffers
        BY <1>1 DEF ThreadsTypeOK, RendererState
      <4>3. c.sprite[Display'] = ideal'[Display']
        BY <3>3, <4>1, <4>2 DEF Settled, Display, Draw, FrameBuffers
      <4>4. ~unfinished' \/ emulator' \in SwapCalls => c.sprite[Draw'] = ideal'[Draw']
        BY <3>3, <4>1, <4>2 DEF Settled, Display, Draw, SwapCalls, FrameBuffers
      <4>5. emulator' # "join1" => c.fb = ideal' /\ c.vram = vram'
        BY <2>1, <3>3, <4>1, <4>2 DEF Settled, Display, Draw
      <4>6. QED
        BY <4>3, <4>4, <4>5 DEF Settled
    <3>5. Now' = Now /\ Now \in RendererState
      BY <1>1, <2>1, SentType DEF Now
    <3>6. vram \in Nat /\ Threaded1'
      BY <1>1, <2>1 DEF ThreadsTypeOK, Threaded1
    <3>7. QED
      BY <1>1, <2>1, <3>1, <3>2, <3>3, <3>4, <3>5, <3>6, <3>8, SendKeeps
         DEF Sent1Inv, Waiting1, Waits1, AnsweredEvents
  <2>2. CASE ~Threaded1
    BY <1>1, <1>2, <2>2, OffKeeps DEF Sent1Inv, IdleInv
  <2>3. QED
    BY <2>1, <2>2
<1>lines. LineInv'
  BY <1>1, <1>5 DEF LineInv, Display
<1>sent2. Sent2Inv'
  BY <1>1, <1>5, <1>6 DEF Sent2Inv, Waits2, Threaded2
<1>deint. DeinterlacerInv'
  BY <1>1 DEF DeinterlacerInv
<1> QED
  BY <1>type, <1>call, <1>sent1, <1>lines, <1>sent2, <1>deint DEF ThreadsInv

LEMMA PreSaveVDP2Keeps ==
  ASSUME ProgramMay = {}, ThreadsInv, PreSaveVDP2
  PROVE  ThreadsInv'
<1> USE DEF PreSaveVDP2, frameCallVars, drawCallVars, regVars, sent1Vars, fbVars, thread1Vars,
            thread2Vars
<1>1. ThreadsTypeOK /\ CallInv /\ Sent1Inv /\ LineInv /\ Sent2Inv /\ DeinterlacerInv
  BY DEF ThreadsInv
<1>2. /\ \A i \in 1..Len(Sent) : Sent[i][1] \notin AnsweredEvents
      /\ Signals1 \cap signals = {}
  BY Quiet1 DEF Waiting1
<1>3. Sent' = Sent
  BY DEF Sent
<1>type. ThreadsTypeOK'
  BY <1>1 DEF ThreadsTypeOK, Calls
<1>call. CallInv'
  BY <1>1 DEF CallInv, SwapCalls, SwitchCalls, ThreadsTypeOK
<1>sent1. Sent1Inv'
  BY <1>2, <1>3, SilentKeeps DEF SwapCalls
<1>lines. LineInv'
  BY <1>1 DEF LineInv, Display
<1>sent2. Sent2Inv'
  BY <1>1 DEF Sent2Inv, Waits2
<1>deint. DeinterlacerInv'
  BY <1>1 DEF DeinterlacerInv
<1> QED
  BY <1>type, <1>call, <1>sent1, <1>lines, <1>sent2, <1>deint DEF ThreadsInv

LEMMA PostLoadStateSyncKeeps ==
  ASSUME ProgramMay = {}, ThreadsInv, PostLoadStateSync
  PROVE  ThreadsInv'
<1> USE DEF PostLoadStateSync, frameCallVars, drawCallVars, regVars, sent1Vars, fbVars, thread1Vars,
            thread2Vars
<1>1. ThreadsTypeOK /\ CallInv /\ Sent1Inv /\ LineInv /\ Sent2Inv /\ DeinterlacerInv
  BY DEF ThreadsInv
<1>2. Signals1 \cap signals = {}
  BY Quiet1 DEF Waiting1
<1>3. <<"postLoad">> \in Event1
  BY DEF Event1, PlainEvents, AnsweredEvents
<1>4. <<"postLoad">> \in Event2
  BY Events2
<1>5. Threaded2 =>
         /\ queue2' \in Seq(Event2)
         /\ \A i \in 1..Len(queue2') : \/ i \in 1..Len(queue2) /\ queue2'[i] = queue2[i]
                                       \/ i = Len(queue2') /\ queue2'[i] = <<"postLoad">>
  BY <1>1, <1>4, Send2
<1>6. /\ \A i \in 1..Len(queue2) : queue2[i][1] \notin {"erase", "swap", "shutdown"}
      /\ {"eraseReady", "framebufferSwap"} \cap signals = {}
  BY Quiet2 DEF Waiting2
<1>7. ~unfinished
  BY <1>1 DEF CallInv, SwitchCalls
<1>type. ThreadsTypeOK'
  <2>1. queue1' \in Seq(Event1) /\ pendingEvents' \in Seq(Event1) /\ outstanding' = Len(queue1')
    BY <1>1, <1>3, SendOne DEF ThreadsTypeOK
  <2>2. emulator' \in Calls
    BY <1>1 DEF ThreadsTypeOK, Calls
  <2>3. queue2' \in Seq(Event2)
    BY <1>1, <1>5 DEF ThreadsTypeOK
  <2>4. QED
    BY <1>1, <2>1, <2>2, <2>3 DEF ThreadsTypeOK
<1>call. CallInv'
  BY <1>1 DEF CallInv, SwapCalls, SwitchCalls, ThreadsTypeOK
<1>sent1. Sent1Inv'
  <2>1. CASE Threaded1
    <3>1. <<"postLoad">> \in Event1
      BY DEF Event1, PlainEvents, AnsweredEvents
    <3>2. Sent' = Append(Sent, <<"postLoad">>)
      BY <1>1, <2>1, <3>1, SendOne
    <3>3. PICK r \in RendererState : Leads(Sent, Now, r, displayFB, vram) /\ Settled(r)
      BY <1>1, <2>1 DEF Sent1Inv, CaughtUpInv
    <3>4. PICK c : c = Handled(<<"postLoad">>, r, displayFB, vram)
      OBVIOUS
    <3>8. Settled(c)'
      <4>1. c.fb = r.sprite /\ c.vram = vram /\ c.sprite = r.sprite
        BY <3>4 DEF Handled
      <4>2. /\ displayFB \in {0, 1} /\ ideal \in FrameBuffers
            /\ r.fb \in FrameBuffers /\ r.sprite \in FrameBuffers
        BY <1>1 DEF ThreadsTypeOK, RendererState
      <4>3. c.sprite[Display'] = ideal'[Display']
        BY <3>3, <4>1, <4>2 DEF Settled, Display, Draw, FrameBuffers
      <4>4. ~unfinished' \/ emulator' \in SwapCalls => c.sprite[Draw'] = ideal'[Draw']
        BY <3>3, <4>1, <4>2 DEF Settled, Display, Draw, SwapCalls, FrameBuffers
      <4>5. emulator' # "join1" => c.fb = ideal' /\ c.vram = vram'
        <5>1. r.sprite[displayFB] = ideal[displayFB] /\ r.sprite[1 - displayFB] = ideal[1 - displayFB]
          BY <1>7, <3>3 DEF Settled, Display, Draw
        <5>2. r.sprite = ideal
          BY <4>2, <5>1 DEF FrameBuffers
        <5>3. QED
          BY <4>1, <5>2
      <4>6. QED
        BY <4>3, <4>4, <4>5 DEF Settled
    <3>5. Now' = Now /\ Now \in RendererState
      BY <1>1, <2>1, SentType DEF Now
    <3>6. vram \in Nat /\ Threaded1'
      BY <1>1, <2>1 DEF ThreadsTypeOK, Threaded1
    <3>7. QED
      BY <1>1, <2>1, <3>1, <3>2, <3>3, <3>4, <3>5, <3>6, <3>8, SendKeeps
         DEF Sent1Inv, Waiting1, Waits1, AnsweredEvents
  <2>2. CASE ~Threaded1
    BY <1>1, <1>2, <2>2, OffKeeps DEF Sent1Inv, IdleInv
  <2>3. QED
    BY <2>1, <2>2
<1>lines. LineInv'
  BY <1>1, <1>5 DEF LineInv, Display
<1>sent2. Sent2Inv'
  BY <1>1, <1>5, <1>6 DEF Sent2Inv, Waits2, Threaded2
<1>deint. DeinterlacerInv'
  BY <1>1 DEF DeinterlacerInv
<1> QED
  BY <1>type, <1>call, <1>sent1, <1>lines, <1>sent2, <1>deint DEF ThreadsInv

LEMMA PostLoadVDP2Keeps ==
  ASSUME ProgramMay = {}, ThreadsInv, PostLoadVDP2
  PROVE  ThreadsInv'
<1> USE DEF PostLoadVDP2, frameCallVars, drawCallVars, regVars, sent1Vars, fbVars, thread1Vars,
            thread2Vars
<1>1. ThreadsTypeOK /\ CallInv /\ Sent1Inv /\ LineInv /\ Sent2Inv /\ DeinterlacerInv
  BY DEF ThreadsInv
<1>2. /\ \A i \in 1..Len(Sent) : Sent[i][1] \notin AnsweredEvents
      /\ Signals1 \cap signals = {}
  BY Quiet1 DEF Waiting1
<1>3. Sent' = Sent
  BY DEF Sent
<1>type. ThreadsTypeOK'
  BY <1>1 DEF ThreadsTypeOK, Calls
<1>call. CallInv'
  BY <1>1 DEF CallInv, SwapCalls, SwitchCalls, ThreadsTypeOK
<1>sent1. Sent1Inv'
  BY <1>2, <1>3, SilentKeeps DEF SwapCalls
<1>lines. LineInv'
  BY <1>1 DEF LineInv, Display
<1>sent2. Sent2Inv'
  BY <1>1 DEF Sent2Inv, Waits2
<1>deint. DeinterlacerInv'
  BY <1>1 DEF DeinterlacerInv
<1> QED
  BY <1>type, <1>call, <1>sent1, <1>lines, <1>sent2, <1>deint DEF ThreadsInv

LEMMA ResetRendererKeeps ==
  ASSUME ProgramMay = {}, ThreadsInv, NEW hard \in BOOLEAN, ResetRenderer(hard)
  PROVE  ThreadsInv'
<1> USE DEF ResetRenderer, Switchable, Free, Running, frameCallVars, drawCallVars, regVars,
            sent1Vars, fbVars, thread1Vars, thread2Vars
<1>1. ThreadsTypeOK /\ CallInv /\ Sent1Inv /\ LineInv /\ Sent2Inv /\ DeinterlacerInv
  BY DEF ThreadsInv
<1>2. ~hard /\ ~erasedSinceSwap /\ UNCHANGED <<vram, displayFB, spriteFB, ideal>>
  OBVIOUS
<1>3. \A i \in 1..Len(Sent) : Sent[i][1] \notin AnsweredEvents
  BY Quiet1 DEF Waiting1
<1>4. <<"reset">> \in Event2
  BY Events2
<1>5. Threaded2 =>
         /\ queue2' \in Seq(Event2)
         /\ \A i \in 1..Len(queue2') : \/ i \in 1..Len(queue2) /\ queue2'[i] = queue2[i]
                                       \/ i = Len(queue2') /\ queue2'[i] = <<"reset">>
  BY <1>1, <1>4, Send2
<1>6. /\ \A i \in 1..Len(queue2) : queue2[i][1] \notin {"erase", "swap", "shutdown"}
      /\ {"eraseReady", "framebufferSwap"} \cap signals = {}
  BY Quiet2 DEF Waiting2
<1>type. ThreadsTypeOK'
  <2>1. queue2' \in Seq(Event2)
    BY <1>1, <1>5 DEF ThreadsTypeOK
  <2>2. regs' \in Nat
    BY ThreadsAssumption
  <2>3. QED
    BY <1>1, <1>2, <2>1, <2>2 DEF ThreadsTypeOK
<1>call. CallInv'
  BY <1>1, <1>2, Todos DEF CallInv, SwapCalls, SwitchCalls
<1>sent1. Sent1Inv'
  BY <1>2, AsideKeeps
<1>lines. LineInv'
  BY <1>1, <1>2, <1>5 DEF LineInv, Display
<1>sent2. Sent2Inv'
  BY <1>1, <1>5, <1>6 DEF Sent2Inv, Waits2, Threaded2, ThreadsTypeOK
<1>deint. DeinterlacerInv'
  BY <1>1 DEF DeinterlacerInv
<1> QED
  BY <1>type, <1>call, <1>sent1, <1>lines, <1>sent2, <1>deint DEF ThreadsInv

LEMMA EnableThreadedVDP1Keeps ==
  ASSUME ProgramMay = {}, ThreadsInv, EnableThreadedVDP1
  PROVE  ThreadsInv'
<1> USE DEF EnableThreadedVDP1, Switchable, Free, Running, frameCallVars, drawCallVars, regVars,
            sent1Vars, fbVars, thread1Vars, thread2Vars
<1>1. ThreadsTypeOK /\ CallInv /\ Sent1Inv /\ LineInv /\ Sent2Inv /\ DeinterlacerInv
  BY DEF ThreadsInv
<1>2. Signals1 \cap signals = {}
  BY Quiet1 DEF Waiting1
<1>3. <<"postLoad">> \in Event1
  BY DEF Event1, PlainEvents, AnsweredEvents
<1>4. Sent = <<>> /\ spriteFB = ideal /\ Threaded1'
  BY <1>1 DEF Sent1Inv, IdleInv, Threaded1
<1>type. ThreadsTypeOK'
  <2>1. queue1' \in Seq(Event1) /\ pendingEvents' \in Seq(Event1) /\ outstanding' = Len(queue1')
    BY <1>1, <1>3, SendOne DEF ThreadsTypeOK
  <2>2. emulator' \in Calls
    BY DEF Calls
  <2>3. QED
    BY <1>1, <2>1, <2>2 DEF ThreadsTypeOK
<1>call. CallInv'
  BY <1>1 DEF CallInv, SwapCalls, SwitchCalls, ThreadsTypeOK
<1>sent1. Sent1Inv'
  <2>1. Sent' = Append(Sent, <<"postLoad">>)
    BY <1>1, <1>3, SendOne
  <2>2. PICK c : c = Handled(<<"postLoad">>, Now, displayFB, vram)
    OBVIOUS
  <2>3. c.fb = spriteFB /\ c.vram = vram /\ c.sprite = spriteFB
    BY <2>2 DEF Handled, Now
  <2>4. Settled(c)'
    BY <1>4, <2>3 DEF Settled
  <2>5. Now' = Now /\ Now \in RendererState /\ vram \in Nat
    BY <1>1, SentType DEF Now, ThreadsTypeOK
  <2>6. Leads(Sent, Now', Now, displayFB, vram)
    BY <1>4, <2>5, NoEvents
  <2>7. QED
    BY <1>1, <1>3, <1>4, <2>1, <2>2, <2>4, <2>5, <2>6, SendKeeps
       DEF Sent1Inv, Waiting1, Waits1, AnsweredEvents
<1>lines. LineInv'
  BY <1>1 DEF LineInv, Display
<1>sent2. Sent2Inv'
  BY <1>1 DEF Sent2Inv, Waits2
<1>deint. DeinterlacerInv'
  BY <1>1 DEF DeinterlacerInv
<1> QED
  BY <1>type, <1>call, <1>sent1, <1>lines, <1>sent2, <1>deint DEF ThreadsInv

LEMMA EnableThreadedVDP2Keeps ==
  ASSUME ProgramMay = {}, ThreadsInv, EnableThreadedVDP2
  PROVE  ThreadsInv'
<1> USE DEF EnableThreadedVDP2, Switchable, Free, Running, frameCallVars, drawCallVars, regVars,
            sent1Vars, fbVars, thread1Vars, thread2Vars
<1>1. ThreadsTypeOK /\ CallInv /\ Sent1Inv /\ LineInv /\ Sent2Inv /\ DeinterlacerInv
  BY DEF ThreadsInv
<1>2. /\ \A i \in 1..Len(Sent) : Sent[i][1] \notin AnsweredEvents
      /\ Signals1 \cap signals = {}
  BY Quiet1 DEF Waiting1
<1>3. Sent' = Sent
  BY DEF Sent
<1>4. /\ \A i \in 1..Len(queue2) : queue2[i][1] \notin {"erase", "swap", "shutdown"}
      /\ {"eraseReady", "framebufferSwap"} \cap signals = {}
  BY Quiet2 DEF Waiting2
<1>5. <<"postLoad">> \in Event2
  BY Events2
<1>6. /\ queue2' \in Seq(Event2)
      /\ \A i \in 1..Len(queue2') : \/ i \in 1..Len(queue2) /\ queue2'[i] = queue2[i]
                                    \/ i = Len(queue2') /\ queue2'[i] = <<"postLoad">>
  BY <1>1, <1>5, Send2
<1>7. queue2 = <<>> /\ Len(queue2) = 0
  BY <1>1 DEF Sent2Inv
<1>type. ThreadsTypeOK'
  <2>1. queue2' \in Seq(Event2)
    BY <1>6
  <2>2. emulator' \in Calls
    BY DEF Calls
  <2>3. QED
    BY <1>1, <2>1, <2>2 DEF ThreadsTypeOK
<1>call. CallInv'
  BY <1>1 DEF CallInv, SwapCalls, SwitchCalls, ThreadsTypeOK
<1>sent1. Sent1Inv'
  BY <1>2, <1>3, SilentKeeps DEF SwapCalls
<1>lines. LineInv'
  BY <1>1, <1>6 DEF LineInv, Display
<1>sent2. Sent2Inv'
  BY <1>1, <1>4, <1>6, <1>7 DEF Sent2Inv, Waits2
<1>deint. DeinterlacerInv'
  BY <1>1 DEF DeinterlacerInv
<1> QED
  BY <1>type, <1>call, <1>sent1, <1>lines, <1>sent2, <1>deint DEF ThreadsInv

LEMMA DisableThreadedVDP1Keeps ==
  ASSUME ProgramMay = {}, ThreadsInv, DisableThreadedVDP1
  PROVE  ThreadsInv'
<1> USE DEF DisableThreadedVDP1, Switchable, Free, Running, frameCallVars, drawCallVars, regVars,
            sent1Vars, fbVars, thread1Vars, thread2Vars
<1>1. ThreadsTypeOK /\ CallInv /\ Sent1Inv /\ LineInv /\ Sent2Inv /\ DeinterlacerInv
  BY DEF ThreadsInv
<1>2. Signals1 \cap signals = {}
  BY Quiet1 DEF Waiting1
<1>3. <<"shutdown">> \in Event1
  BY DEF Event1, PlainEvents, AnsweredEvents
<1>type. ThreadsTypeOK'
  <2>1. queue1' \in Seq(Event1) /\ pendingEvents' \in Seq(Event1) /\ outstanding' = Len(queue1')
    BY <1>1, <1>3, SendOne DEF ThreadsTypeOK
  <2>2. emulator' \in Calls
    BY <1>1 DEF ThreadsTypeOK, Calls
  <2>3. QED
    BY <1>1, <2>1, <2>2 DEF ThreadsTypeOK
<1>call. CallInv'
  BY <1>1 DEF CallInv, SwapCalls, SwitchCalls, ThreadsTypeOK
<1>sent1. Sent1Inv'
  <2>1. CASE Threaded1
    <3>1. <<"shutdown">> \in Event1
      BY DEF Event1, PlainEvents, AnsweredEvents
    <3>2. Sent' = Append(Sent, <<"shutdown">>)
      BY <1>1, <2>1, <3>1, SendOne
    <3>3. PICK r \in RendererState : Leads(Sent, Now, r, displayFB, vram) /\ Settled(r)
      BY <1>1, <2>1 DEF Sent1Inv, CaughtUpInv
    <3>4. PICK c : c = Handled(<<"shutdown">>, r, displayFB, vram)
      OBVIOUS
    <3>8. Settled(c)'
      <4>1. c.sprite = r.sprite
        BY <3>4 DEF Handled
      <4>2. /\ displayFB \in {0, 1} /\ ideal \in FrameBuffers
            /\ r.fb \in FrameBuffers /\ r.sprite \in FrameBuffers
        BY <1>1 DEF ThreadsTypeOK, RendererState
      <4>3. c.sprite[Display'] = ideal'[Display']
        BY <3>3, <4>1, <4>2 DEF Settled, Display, Draw, FrameBuffers
      <4>4. ~unfinished' \/ emulator' \in SwapCalls => c.sprite[Draw'] = ideal'[Draw']
        BY <3>3, <4>1, <4>2 DEF Settled, Display, Draw, SwapCalls, FrameBuffers
      <4>5. emulator' # "join1" => c.fb = ideal' /\ c.vram = vram'
        BY <2>1, <3>3, <4>1, <4>2 DEF Settled, Display, Draw
      <4>6. QED
        BY <4>3, <4>4, <4>5 DEF Settled
    <3>5. Now' = Now /\ Now \in RendererState
      BY <1>1, <2>1, SentType DEF Now
    <3>6. vram \in Nat /\ Threaded1'
      BY <1>1, <2>1 DEF ThreadsTypeOK, Threaded1
    <3>7. QED
      BY <1>1, <2>1, <3>1, <3>2, <3>3, <3>4, <3>5, <3>6, <3>8, SendKeeps
         DEF Sent1Inv, Waiting1, Waits1, AnsweredEvents
  <2>2. CASE ~Threaded1
    BY <1>1, <1>2, <2>2, OffKeeps DEF Sent1Inv, IdleInv
  <2>3. QED
    BY <2>1, <2>2
<1>lines. LineInv'
  BY <1>1 DEF LineInv, Display
<1>sent2. Sent2Inv'
  BY <1>1 DEF Sent2Inv, Waits2
<1>deint. DeinterlacerInv'
  BY <1>1 DEF DeinterlacerInv
<1> QED
  BY <1>type, <1>call, <1>sent1, <1>lines, <1>sent2, <1>deint DEF ThreadsInv

LEMMA DisableThreadedVDP2Keeps ==
  ASSUME ProgramMay = {}, ThreadsInv, DisableThreadedVDP2
  PROVE  ThreadsInv'
<1> USE DEF DisableThreadedVDP2, Switchable, Free, Running, frameCallVars, drawCallVars, regVars,
            sent1Vars, fbVars, thread1Vars, thread2Vars
<1>1. ThreadsTypeOK /\ CallInv /\ Sent1Inv /\ LineInv /\ Sent2Inv /\ DeinterlacerInv
  BY DEF ThreadsInv
<1>2. /\ \A i \in 1..Len(Sent) : Sent[i][1] \notin AnsweredEvents
      /\ Signals1 \cap signals = {}
  BY Quiet1 DEF Waiting1
<1>3. Sent' = Sent
  BY DEF Sent
<1>4. /\ \A i \in 1..Len(queue2) : queue2[i][1] \notin {"erase", "swap", "shutdown"}
      /\ {"eraseReady", "framebufferSwap"} \cap signals = {}
  BY Quiet2 DEF Waiting2
<1>5. <<"shutdown">> \in Event2
  BY Events2
<1>6. /\ queue2' \in Seq(Event2)
      /\ \A i \in 1..Len(queue2') : \/ i \in 1..Len(queue2) /\ queue2'[i] = queue2[i]
                                    \/ i = Len(queue2') /\ queue2'[i] = <<"shutdown">>
  BY <1>1, <1>5, Send2
<1>type. ThreadsTypeOK'
  <2>1. queue2' \in Seq(Event2)
    BY <1>1, <1>6 DEF ThreadsTypeOK
  <2>2. emulator' \in Calls
    BY <1>1 DEF ThreadsTypeOK, Calls
  <2>3. QED
    BY <1>1, <2>1, <2>2 DEF ThreadsTypeOK
<1>call. CallInv'
  BY <1>1 DEF CallInv, SwapCalls, SwitchCalls, ThreadsTypeOK
<1>sent1. Sent1Inv'
  BY <1>2, <1>3, SilentKeeps DEF SwapCalls
<1>lines. LineInv'
  BY <1>1, <1>6 DEF LineInv, Display
<1>sent2. Sent2Inv'
  BY <1>1, <1>4, <1>6 DEF Sent2Inv, Waits2, Threaded2
<1>deint. DeinterlacerInv'
  BY <1>1 DEF DeinterlacerInv
<1> QED
  BY <1>type, <1>call, <1>sent1, <1>lines, <1>sent2, <1>deint DEF ThreadsInv

LEMMA JoinKeeps ==
  ASSUME ProgramMay = {}, ThreadsInv, Join
  PROVE  ThreadsInv'
<1> USE DEF Join, frameCallVars, drawCallVars, regVars, sent1Vars, fbVars, thread1Vars, thread2Vars
<1>1. ThreadsTypeOK /\ CallInv /\ Sent1Inv /\ LineInv /\ Sent2Inv /\ DeinterlacerInv
  BY DEF ThreadsInv
<1>2. Signals1 \cap signals = {}
  BY <1>1 DEF Sent1Inv, Signals1Inv, Signals1, SignalOf
<1>3. emulator = "join1" => Sent = <<>> /\ queue1 = <<>> /\ queue1' = queue1 /\ queue2' = queue2
  BY <1>1, SentType DEF Sent1Inv, IdleInv, Threaded1
<1>4. Sent' = Sent /\ queue1' = queue1
  BY <1>3 DEF Sent
<1>5. <<>> \in Seq(Event2) /\ Len(<<>>) = 0
  BY EmptySeq
<1>6. queue2' = queue2 \/ (emulator = "join2" /\ thread2 = "off" /\ queue2' = <<>>)
  BY <1>3
<1>type. ThreadsTypeOK'
  <2>1. queue2' \in Seq(Event2) /\ emulator' \in Calls
    BY <1>1, <1>5, <1>6 DEF ThreadsTypeOK, Calls
  <2>2. QED
    BY <1>1, <1>4, <2>1 DEF ThreadsTypeOK
<1>call. CallInv'
  BY <1>1 DEF CallInv, SwapCalls, SwitchCalls, ThreadsTypeOK
<1>sent1. Sent1Inv'
  <2>1. CASE emulator = "join1"
    BY <1>1, <1>2, <1>3, <2>1, OffKeeps DEF Sent1Inv, IdleInv, Threaded1
  <2>2. CASE emulator = "join2"
    <3>1. \A i \in 1..Len(Sent) : Sent[i][1] \notin AnsweredEvents
      BY <2>2, Quiet1 DEF Waiting1
    <3>2. QED
      BY <1>2, <1>4, <2>2, <3>1, SilentKeeps DEF SwapCalls
  <2>3. QED
    BY <2>1, <2>2
<1>lines. LineInv'
  BY <1>1, <1>5, <1>6 DEF LineInv, Display
<1>sent2. Sent2Inv'
  BY <1>1, <1>3, <1>5, <1>6 DEF Sent2Inv, Waits2
<1>deint. DeinterlacerInv'
  BY <1>1 DEF DeinterlacerInv
<1> QED
  BY <1>type, <1>call, <1>sent1, <1>lines, <1>sent2, <1>deint DEF ThreadsInv

LEMMA VDP1RenderThreadKeeps ==
  ASSUME ProgramMay = {}, ThreadsInv, VDP1RenderThread
  PROVE  ThreadsInv'
<1> USE DEF VDP1RenderThread, frameCallVars, drawCallVars, regVars, sent1Vars, fbVars, thread1Vars,
            thread2Vars
<1>1. ThreadsTypeOK /\ CallInv /\ Sent1Inv /\ LineInv /\ Sent2Inv /\ DeinterlacerInv
  BY DEF ThreadsInv
<1>2. PICK e \in Event1 : /\ Sent # <<>> /\ Head(queue1) = e /\ Head(Sent) = e
                          /\ queue1' \in Seq(Event1) /\ outstanding' = Len(queue1')
  BY <1>1, TakeOne
<1>3. /\ Now' = Handled(e, Now, displayFB, vram)
      /\ thread1' \in {"off", thread1}
      /\ \E s \in SUBSET Signals1 : signals' = signals \cup s
  <2>1. /\ Now' = Handled(e, Now, displayFB, vram)
        /\ thread1' = IF e[1] = "shutdown" THEN "off" ELSE thread1
        /\ signals' = CASE e[1] = "swap" -> signals \cup {"swapBuffers"}
                        [] e[1] = "preSave" -> signals \cup {"preSave1"}
                        [] e[1] = "postLoad" -> signals \cup {"postLoad1"}
                        [] OTHER -> signals
    BY <1>1, <1>2, HandleVDP1Does
  <2>2. signals' \in {signals \cup {"swapBuffers"}, signals \cup {"preSave1"}, signals \cup {"postLoad1"},
                      signals \cup {}}
    BY <2>1
  <2>3. QED
    BY <2>1, <2>2 DEF Signals1
<1>4. Now' \in RendererState
  BY <1>1, <1>3, SentType, HandledType DEF ThreadsTypeOK
<1>5. ~erasedSinceSwap => spriteFB'[displayFB] = spriteFB[displayFB]
  <2> SUFFICES ASSUME ~erasedSinceSwap PROVE spriteFB'[displayFB] = spriteFB[displayFB]
    OBVIOUS
  <2>1. 1 \in 1..Len(Sent) /\ Sent[1] = e
    BY <1>1, <1>2, SentType, EmptySeq
  <2>2. e[1] # "erase"
    BY <1>1, <2>1 DEF Sent1Inv, EventsInv
  <2>3. spriteFB' \in {[spriteFB EXCEPT ![1 - displayFB] = rendererFB[1 - displayFB]], spriteFB}
    BY <1>3, <2>2 DEF Handled, Now
  <2>4. QED
    BY <1>1, <2>3 DEF ThreadsTypeOK, FrameBuffers
<1>6. /\ {"eraseReady", "framebufferSwap"} \cap signals' = {"eraseReady", "framebufferSwap"} \cap signals
      /\ DeinterlacerSignals \cap signals' = DeinterlacerSignals \cap signals
  BY <1>3 DEF Signals1, DeinterlacerSignals
<1>type. ThreadsTypeOK'
  <2>1. spriteFB' \in FrameBuffers /\ rendererFB' \in FrameBuffers /\ rendererVRAM' \in Nat
    BY <1>4 DEF Now, RendererState
  <2>2. QED
    BY <1>1, <1>2, <1>3, <2>1 DEF ThreadsTypeOK
<1>call. CallInv'
  BY <1>1 DEF CallInv, SwapCalls, SwitchCalls, ThreadsTypeOK
<1>sent1. Sent1Inv'
  BY HandleKeeps
<1>lines. LineInv'
  BY <1>1, <1>5 DEF LineInv, Display
<1>sent2. Sent2Inv'
  BY <1>1, <1>6 DEF Sent2Inv, Waits2
<1>deint. DeinterlacerInv'
  BY <1>1, <1>6 DEF DeinterlacerInv
<1> QED
  BY <1>type, <1>call, <1>sent1, <1>lines, <1>sent2, <1>deint DEF ThreadsInv

LEMMA VDP2RenderThreadKeeps ==
  ASSUME ProgramMay = {}, ThreadsInv, VDP2RenderThread
  PROVE  ThreadsInv'
<1> USE DEF VDP2RenderThread, frameCallVars, drawCallVars, regVars, sent1Vars, fbVars, thread1Vars,
            thread2Vars
<1>1. ThreadsTypeOK /\ CallInv /\ Sent1Inv /\ LineInv /\ Sent2Inv /\ DeinterlacerInv
  BY DEF ThreadsInv
<1>2. /\ queue2 \in Seq(Event2) /\ Len(queue2) \in Nat \ {0}
      /\ queue2' \in Seq(Event2) /\ Len(queue2') = Len(queue2) - 1
      /\ Head(queue2) = queue2[1] /\ queue2[1] \in Event2
      /\ \A i \in 1..Len(queue2') : queue2'[i] = queue2[i + 1] /\ i + 1 \in 1..Len(queue2)
  BY <1>1, HeadTailProperties, EmptySeq, LenProperties DEF ThreadsTypeOK
<1>3. PICK e : e = Head(queue2) /\ e \in Event2 /\ e = queue2[1]
  BY <1>2
<1>4. Signals1 \cap signals' = Signals1 \cap signals
  BY <1>3 DEF Answer2, Signals1
<1>5. e[1] = "line" => e[2] \in Nat
  BY <1>3 DEF Event2
<1>6. thread2' \in {"idle", "line", "leaving"} /\ (thread2' # "idle" => e[1] \in {"line", "shutdown"})
  BY <1>3
<1>7. e[1] \in DOMAIN Waits2 => emulator = Waits2[e[1]] /\ queue2' = <<>>
  <2> SUFFICES ASSUME e[1] \in DOMAIN Waits2 PROVE emulator = Waits2[e[1]] /\ queue2' = <<>>
    OBVIOUS
  <2>1. emulator = Waits2[e[1]] /\ 1 = Len(queue2)
    <3>1. 1 \in 1..Len(queue2) /\ queue2[1][1] \in DOMAIN Waits2
      BY <1>2, <1>3
    <3>2. 1 = Len(queue2) /\ emulator = Waits2[queue2[1][1]]
      BY <1>1, <3>1 DEF Sent2Inv
    <3>3. QED
      BY <1>3, <3>2
  <2>2. Len(queue2') = 0
    BY <1>2, <2>1
  <2>3. QED
    BY <1>2, <2>1, <2>2, EmptySeq
<1>type. ThreadsTypeOK'
  <2>1. line' \in Nat /\ deinterlaceShutdown' \in BOOLEAN
    BY <1>1, <1>3, <1>5 DEF ThreadsTypeOK
  <2>2. QED
    BY <1>1, <1>2, <1>6, <2>1 DEF ThreadsTypeOK
<1>call. CallInv'
  BY <1>1 DEF CallInv, SwapCalls, SwitchCalls, ThreadsTypeOK
<1>sent1. Sent1Inv'
  BY <1>4, AsideKeeps
<1>lines. LineInv'
  <2>1. \A i \in 1..Len(queue2') :
           queue2'[i][1] = "line" => ~erasedSinceSwap /\ queue2'[i][2] = ideal[Display]
    BY <1>1, <1>2 DEF LineInv
  <2>2. thread2' = "line" => ~erasedSinceSwap /\ line' = ideal[Display]
    BY <1>1, <1>2, <1>3 DEF LineInv, Answer2
  <2>3. QED
    BY <1>1, <2>1, <2>2 DEF LineInv, Display
<1>sent2. Sent2Inv'
  <2>1. ASSUME NEW i \in 1..Len(queue2'), queue2'[i][1] \in DOMAIN Waits2
        PROVE  i = Len(queue2') /\ emulator = Waits2[queue2'[i][1]]
    <3>1. queue2'[i] = queue2[i + 1] /\ i + 1 \in 1..Len(queue2)
      BY <1>2
    <3>2. i + 1 = Len(queue2) /\ emulator = Waits2[queue2[i + 1][1]]
      BY <1>1, <2>1, <3>1 DEF Sent2Inv
    <3>5. Len(queue2') = Len(queue2) - 1 /\ Len(queue2) \in Nat /\ i \in Int
      BY <1>2
    <3>3. i = Len(queue2')
      BY <3>2, <3>5
    <3>4. QED
      BY <3>1, <3>2, <3>3
  <2>2. ASSUME NEW s \in {"eraseReady", "framebufferSwap"} \cap signals'
        PROVE  emulator = s /\ queue2' = <<>> /\ thread2' = "idle"
    <3>1. s \notin signals
      BY <1>1, <1>2, EmptySeq DEF Sent2Inv
    <3>2. \/ e[1] = "erase" /\ s = "eraseReady"
          \/ e[1] = "swap" /\ s = "framebufferSwap"
      BY <1>3, <2>2, <3>1 DEF Answer2
    <3>3. e[1] \in DOMAIN Waits2 /\ Waits2[e[1]] = s
      BY <3>2 DEF Waits2
    <3>4. QED
      BY <1>6, <1>7, <3>2, <3>3
  <2>3. emulator \notin {"erase", "flip"}
    BY <1>1, <1>2, EmptySeq DEF Sent2Inv
  <2>4. thread2' = "leaving" => emulator = "join2"
    BY <1>3, <1>7 DEF Waits2, Answer2
  <2>5. QED
    BY <1>6, <2>1, <2>2, <2>3, <2>4 DEF Sent2Inv
<1>deint. DeinterlacerInv'
  <2>1. CASE e[1] \in DOMAIN Answer2 \cup {"reset"}
    <3>1. DeinterlacerSignals \cap signals' = DeinterlacerSignals \cap signals /\ thread2' = "idle"
      BY <1>3, <2>1 DEF Answer2, DeinterlacerSignals
    <3>2. UNCHANGED <<deinterlacer, deinterlaceShutdown>>
      BY <1>3, <2>1 DEF Answer2
    <3>3. QED
      BY <1>1, <3>1, <3>2 DEF DeinterlacerInv
  <2>2. CASE e[1] = "line"
    BY <1>1, <1>3, <2>2 DEF DeinterlacerInv, DeinterlacerSignals, Answer2
  <2>3. CASE e[1] = "shutdown"
    BY <1>1, <1>3, <2>3 DEF DeinterlacerInv, DeinterlacerSignals, Answer2
  <2>4. QED
    BY <1>3, <2>1, <2>2, <2>3
<1> QED
  BY <1>type, <1>call, <1>sent1, <1>lines, <1>sent2, <1>deint DEF ThreadsInv

LEMMA VDP2ThreadGoesOnKeeps ==
  ASSUME ProgramMay = {}, ThreadsInv, VDP2ThreadGoesOn
  PROVE  ThreadsInv'
<1> USE DEF VDP2ThreadGoesOn, frameCallVars, drawCallVars, regVars, sent1Vars, fbVars, thread1Vars,
            thread2Vars
<1>1. ThreadsTypeOK /\ CallInv /\ Sent1Inv /\ LineInv /\ Sent2Inv /\ DeinterlacerInv
  BY DEF ThreadsInv
<1>2. /\ Signals1 \cap signals' = Signals1 \cap signals
      /\ {"eraseReady", "framebufferSwap"} \cap signals' = {"eraseReady", "framebufferSwap"} \cap signals
  BY DEF Signals1
<1>3. thread2' \in {"idle", "off"} /\ (thread2' = "off" <=> thread2 = "leaving") /\ line' \in Nat
  BY DEF Erased
<1>type. ThreadsTypeOK'
  BY <1>1, <1>3 DEF ThreadsTypeOK
<1>call. CallInv'
  BY <1>1 DEF CallInv, SwapCalls, SwitchCalls, ThreadsTypeOK
<1>sent1. Sent1Inv'
  BY <1>2, AsideKeeps
<1>lines. LineInv'
  BY <1>1, <1>3 DEF LineInv, Display
<1>sent2. Sent2Inv'
  BY <1>1, <1>2, <1>3 DEF Sent2Inv, Waits2
<1>deint. DeinterlacerInv'
  BY <1>1, <1>3 DEF DeinterlacerInv, DeinterlacerSignals
<1> QED
  BY <1>type, <1>call, <1>sent1, <1>lines, <1>sent2, <1>deint DEF ThreadsInv

LEMMA DeinterlacerBeginsKeeps ==
  ASSUME ProgramMay = {}, ThreadsInv, DeinterlacerBegins
  PROVE  ThreadsInv'
<1> USE DEF DeinterlacerBegins, frameCallVars, drawCallVars, regVars, sent1Vars, fbVars,
            thread1Vars, thread2Vars
<1>1. ThreadsTypeOK /\ CallInv /\ Sent1Inv /\ LineInv /\ Sent2Inv /\ DeinterlacerInv
  BY DEF ThreadsInv
<1>2. /\ Signals1 \cap signals' = Signals1 \cap signals
      /\ {"eraseReady", "framebufferSwap"} \cap signals' = {"eraseReady", "framebufferSwap"} \cap signals
  BY DEF Signals1
<1>3. deinterlacer' \in {"off", "drawing"} /\ deinterlaceShutdown' \in {FALSE, deinterlaceShutdown}
  OBVIOUS
<1>type. ThreadsTypeOK'
  <2>1. deinterlaceShutdown' \in BOOLEAN
    BY <1>1, <1>3 DEF ThreadsTypeOK
  <2>2. QED
    BY <1>1, <1>3, <2>1 DEF ThreadsTypeOK
<1>call. CallInv'
  BY <1>1 DEF CallInv, SwapCalls, SwitchCalls, ThreadsTypeOK
<1>sent1. Sent1Inv'
  BY <1>2, AsideKeeps
<1>lines. LineInv'
  BY <1>1 DEF LineInv, Display
<1>sent2. Sent2Inv'
  BY <1>1, <1>2 DEF Sent2Inv, Waits2
<1>deint. DeinterlacerInv'
  BY <1>1 DEF DeinterlacerInv, DeinterlacerSignals, ThreadsTypeOK
<1> QED
  BY <1>type, <1>call, <1>sent1, <1>lines, <1>sent2, <1>deint DEF ThreadsInv

LEMMA DeinterlacerEndsKeeps ==
  ASSUME ProgramMay = {}, ThreadsInv, DeinterlacerEnds
  PROVE  ThreadsInv'
<1> USE DEF DeinterlacerEnds, frameCallVars, drawCallVars, regVars, sent1Vars, fbVars, thread1Vars,
            thread2Vars
<1>1. ThreadsTypeOK /\ CallInv /\ Sent1Inv /\ LineInv /\ Sent2Inv /\ DeinterlacerInv
  BY DEF ThreadsInv
<1>2. /\ Signals1 \cap signals' = Signals1 \cap signals
      /\ {"eraseReady", "framebufferSwap"} \cap signals' = {"eraseReady", "framebufferSwap"} \cap signals
  BY DEF Signals1
<1>type. ThreadsTypeOK'
  BY <1>1 DEF ThreadsTypeOK, Calls
<1>call. CallInv'
  BY <1>1 DEF CallInv, SwapCalls, SwitchCalls, ThreadsTypeOK
<1>sent1. Sent1Inv'
  BY <1>2, AsideKeeps
<1>lines. LineInv'
  BY <1>1 DEF LineInv, Display
<1>sent2. Sent2Inv'
  BY <1>1, <1>2 DEF Sent2Inv, Waits2
<1>deint. DeinterlacerInv'
  BY <1>1 DEF DeinterlacerInv, DeinterlacerSignals, ThreadsTypeOK
<1> QED
  BY <1>type, <1>call, <1>sent1, <1>lines, <1>sent2, <1>deint DEF ThreadsInv


-----------------------------------------------------------------------------
(***************************************************************************)
(* Every step keeps the invariant.                                         *)
(***************************************************************************)
LEMMA ThreadsInitHolds ==
  ASSUME ThreadsInit
  PROVE  ThreadsInv
<1> USE DEF ThreadsInit
<1>1. BlankFBs \in FrameBuffers /\ spriteFB = BlankFBs /\ rendererFB = BlankFBs /\ ideal = BlankFBs
  BY DEF BlankFBs, FrameBuffers, Erased
<1>2. /\ queue1 \in Seq(Event1) /\ pendingEvents \in Seq(Event1) /\ queue2 \in Seq(Event2)
      /\ Len(queue1) = 0 /\ Len(queue2) = 0
  BY EmptySeq
<1>3. ThreadsTypeOK
  BY <1>1, <1>2 DEF ThreadsTypeOK, Calls, Erased
<1>4. Sent = <<>> /\ Len(Sent) = 0
  BY <1>3, SentType, EmptySeq
<1>5. CallInv
  BY Todos DEF CallInv, SwapCalls, SwitchCalls
<1>6. Sent1Inv
  BY <1>1, <1>4 DEF Sent1Inv, EventsInv, Signals1Inv, IdleInv, CaughtUpInv, Threaded1
<1>7. LineInv
  BY <1>1, <1>2 DEF LineInv
<1>8. Sent2Inv /\ DeinterlacerInv
  BY <1>2 DEF Sent2Inv, DeinterlacerInv
<1>9. QED
  BY <1>3, <1>5, <1>6, <1>7, <1>8 DEF ThreadsInv

LEMMA ThreadsNextKeeps ==
  ASSUME ProgramMay = {}, ThreadsInv, ThreadsNext
  PROVE  ThreadsInv'
<1>1. CASE \E v \in VRAMValues : WriteVRAM(v)
  BY <1>1, WriteVRAMKeeps
<1>2. CASE \E r \in RegValues : WriteReg(r)
  BY <1>2, WriteRegKeeps
<1>3. CASE WriteFB
  BY <1>3, WriteFBKeeps
<1>4. CASE ExecuteCommand
  BY <1>4, ExecuteCommandKeeps
<1>5. CASE VDP1EndFrame
  BY <1>5, VDP1EndFrameKeeps
<1>6. CASE VDP1SyncFB
  BY <1>6, VDP1SyncFBKeeps
<1>7. CASE VDP2RenderLine
  BY <1>7, VDP2RenderLineKeeps
<1>8. CASE EndDisplay
  BY <1>8, EndDisplayKeeps
<1>9. CASE \E kind \in FrameKinds : EndOfBlanking(kind)
  BY <1>9, EndOfBlankingKeeps
<1>10. CASE ReadFB
  BY <1>10, ReadFBKeeps
<1>11. CASE StartErase
  BY <1>11, StartEraseKeeps
<1>12. CASE Erase
  BY <1>12, EraseKeeps
<1>13. CASE StartSwap
  BY <1>13, StartSwapKeeps
<1>14. CASE SwapVDP2
  BY <1>14, SwapVDP2Keeps
<1>15. CASE Flip
  BY <1>15, FlipKeeps
<1>16. CASE GoOn
  BY <1>16, GoOnKeeps
<1>17. CASE PreSaveVDP2
  BY <1>17, PreSaveVDP2Keeps
<1>18. CASE PostLoadStateSync
  BY <1>18, PostLoadStateSyncKeeps
<1>19. CASE PostLoadVDP2
  BY <1>19, PostLoadVDP2Keeps
<1>20. CASE Join
  BY <1>20, JoinKeeps
<1>21. CASE PreSaveStateSync
  BY <1>21, PreSaveStateSyncKeeps
<1>22. CASE \E hard \in BOOLEAN : ResetRenderer(hard)
  BY <1>22, ResetRendererKeeps
<1>23. CASE EnableThreadedVDP1
  BY <1>23, EnableThreadedVDP1Keeps
<1>24. CASE EnableThreadedVDP2
  BY <1>24, EnableThreadedVDP2Keeps
<1>25. CASE DisableThreadedVDP1
  BY <1>25, DisableThreadedVDP1Keeps
<1>26. CASE DisableThreadedVDP2
  BY <1>26, DisableThreadedVDP2Keeps
<1>27. CASE VDP1RenderThread
  BY <1>27, VDP1RenderThreadKeeps
<1>28. CASE VDP2RenderThread
  BY <1>28, VDP2RenderThreadKeeps
<1>29. CASE VDP2ThreadGoesOn
  BY <1>29, VDP2ThreadGoesOnKeeps
<1>30. CASE DeinterlacerBegins
  BY <1>30, DeinterlacerBeginsKeeps
<1>31. CASE DeinterlacerEnds
  BY <1>31, DeinterlacerEndsKeeps
<1>32. QED
  BY <1>2, <1>1, <1>3, <1>4, <1>5, <1>6, <1>7, <1>8, <1>9, <1>10, <1>11, <1>12, <1>13, <1>14, <1>15, <1>16,
     <1>17, <1>18, <1>19, <1>20, <1>21, <1>22, <1>23, <1>24, <1>25, <1>26, <1>27, <1>28, <1>29,
     <1>30, <1>31
     DEF ThreadsNext, EmulatorGoesOn

LEMMA ThreadsStutterKeeps ==
  ASSUME ThreadsInv, UNCHANGED threadVars
  PROVE  ThreadsInv'
<1> USE DEF threadVars, regVars
<1>1. ThreadsTypeOK /\ Sent1Inv
  BY DEF ThreadsInv
<1>2. ThreadsTypeOK'
  BY <1>1 DEF ThreadsTypeOK
<1>3. Sent1Inv'
  BY AsideKeeps DEF fbVars
<1>4. CallInv' /\ LineInv' /\ Sent2Inv' /\ DeinterlacerInv'
  BY DEF ThreadsInv, CallInv, LineInv, Sent2Inv, DeinterlacerInv, Display
<1>5. QED
  BY <1>2, <1>3, <1>4 DEF ThreadsInv

-----------------------------------------------------------------------------
(***************************************************************************)
(* The registers.  VDP1's thread draws and erases with those of the moment *)
(* it gets to it.  Where nothing was overtaken they are those of the       *)
(* moment the event was sent, and an erase on its way makes good what the  *)
(* buffer displayed still shows.                                           *)
(***************************************************************************)
AllUse(kind, used) == \A i \in 1..Len(Sent) : Sent[i][1] = kind => Sent[i][2] = used

ErasePending == \E i \in 1..Len(Sent) : Sent[i][1] = "erase"

CommandsInv == Draw \notin overtaken => AllUse("command", UsedByCommand)

ErasesInv == Display \notin overtaken => AllUse("erase", UsedByErase)

AlteredInv ==
    \A fb \in {0, 1} :
        fb \notin overtaken => \/ fb \notin spriteAltered /\ fb \notin rendererAltered
                               \/ fb = Display /\ ErasePending

OffInv == ~Threaded1 => rendererAltered = {}

RegsInv == CommandsInv /\ ErasesInv /\ AlteredInv /\ OffInv

\* Nothing is drawn, and what is sent goes on using the registers it was sent with.
LEMMA SameRegsKeep ==
  ASSUME ThreadsTypeOK, RegsInv,
         UNCHANGED <<displayFB, regs, eraseLatch, spriteAltered, rendererAltered, overtaken>>,
         ~Threaded1' => ~Threaded1,
         \/ Sent' = Sent
         \/ \E e \in Event1 : /\ Sent' = Append(Sent, e)
                              /\ e[1] # "erase" /\ (e[1] = "command" => e[2] = regs)
  PROVE  RegsInv'
<1>1. Sent \in Seq(Event1) /\ Len(Sent) \in Nat
  BY SentType, LenProperties
<1>2. CASE Sent' = Sent
  BY <1>2 DEF RegsInv, CommandsInv, ErasesInv, AlteredInv, OffInv, AllUse, ErasePending, UsedByCommand,
              UsedByErase, Display, Draw
<1>3. ASSUME NEW e \in Event1, Sent' = Append(Sent, e), e[1] # "erase",
             e[1] = "command" => e[2] = regs
      PROVE  RegsInv'
  <2>1. /\ Len(Sent') = Len(Sent) + 1
        /\ \A i \in 1..Len(Sent) : Sent'[i] = Sent[i]
        /\ Sent'[Len(Sent) + 1] = e
    BY <1>1, <1>3, AppendProperties
  <2>2. \A i \in 1..Len(Sent') : (i \in 1..Len(Sent) /\ Sent'[i] = Sent[i]) \/ Sent'[i] = e
    BY <1>1, <2>1
  <2>3. CommandsInv'
    BY <1>3, <2>2 DEF RegsInv, CommandsInv, AllUse, UsedByCommand, Draw
  <2>4. ErasesInv'
    BY <1>3, <2>2 DEF RegsInv, ErasesInv, AllUse, UsedByErase, Display
  <2>5. ErasePending => ErasePending'
    BY <1>1, <2>1 DEF ErasePending
  <2>6. AlteredInv'
    BY <2>5 DEF RegsInv, AlteredInv, Display
  <2>7. QED
    BY <2>3, <2>4, <2>6 DEF RegsInv, OffInv
<1>4. QED
  BY <1>2, <1>3

\* An event other than a command or an erase is sent.
LEMMA PlainSendKeeps ==
  ASSUME ThreadsTypeOK, RegsInv,
         UNCHANGED <<displayFB, regs, eraseLatch, spriteAltered, rendererAltered, overtaken>>,
         ~Threaded1' => ~Threaded1,
         NEW e \in Event1, e[1] # "erase", e[1] # "command",
         SendVDP1(<<e>>) \/ SendWriteVDP1(e) \/ UNCHANGED <<queue1, pendingEvents>>
  PROVE  RegsInv'
<1>1. CASE SendVDP1(<<e>>) \/ SendWriteVDP1(e)
  <2>1. Sent' = Append(Sent, e)
    BY <1>1, SendOne, SendWrite
  <2>2. QED
    BY <2>1, SameRegsKeep
<1>2. CASE UNCHANGED <<queue1, pendingEvents>>
  <2>1. Sent' = Sent
    BY <1>2 DEF Sent
  <2>2. QED
    BY <2>1, SameRegsKeep
<1>3. QED
  BY <1>1, <1>2

LEMMA SomethingSent ==
  ASSUME NEW kind
  PROVE  kind \in SentKinds <=> \E i \in 1..Len(Sent) : Sent[i][1] = kind
BY DEF SentKinds

\* New registers: what they overtake is noted.
LEMMA OvertakeKeeps ==
  ASSUME RegsInv, Overtake,
         UNCHANGED <<displayFB, eraseLatch, spriteAltered, rendererAltered, queue1, pendingEvents,
                     thread1>>
  PROVE  RegsInv'
<1>1. Sent' = Sent /\ Display' = Display /\ Draw' = Draw
  BY DEF Sent, Display, Draw
<1>2. overtaken \subseteq overtaken'
  BY DEF Overtake
<1>3. CommandsInv'
  BY <1>1, SomethingSent DEF Overtake, CommandsInv, AllUse
<1>4. ErasesInv'
  BY <1>1, SomethingSent DEF Overtake, ErasesInv, AllUse
<1>5. AlteredInv'
  BY <1>1, <1>2 DEF RegsInv, AlteredInv, ErasePending
<1>6. OffInv'
  BY DEF RegsInv, OffInv, Threaded1
<1>7. QED
  BY <1>3, <1>4, <1>5, <1>6 DEF RegsInv

LEMMA WriteRegUses ==
  ASSUME ThreadsTypeOK, RegsInv, NEW r \in RegValues, WriteReg(r)
  PROVE  RegsInv'
<1> USE DEF WriteReg, sent1Vars, thread1Vars
<1>1. /\ UNCHANGED <<displayFB, eraseLatch, spriteAltered, rendererAltered, thread1>>
      /\ Display' = Display /\ Draw' = Draw /\ overtaken \subseteq overtaken'
  BY DEF Display, Draw, Overtake
<1>2. Sent \in Seq(Event1) /\ Len(Sent) \in Nat /\ <<"reg">> \in Event1
  BY SentType, LenProperties DEF Event1, PlainEvents
<1>3. CASE Threaded1
  <2>1. Sent' = Append(Sent, <<"reg">>)
    BY <1>2, <1>3, SendWrite
  <2>2. /\ Len(Sent') = Len(Sent) + 1
        /\ \A i \in 1..Len(Sent) : Sent'[i] = Sent[i]
        /\ Sent'[Len(Sent) + 1] = <<"reg">>
    BY <1>2, <2>1, AppendProperties
  <2>3. \A i \in 1..Len(Sent') : (i \in 1..Len(Sent) /\ Sent'[i] = Sent[i]) \/ Sent'[i][1] = "reg"
    BY <1>2, <2>2
  <2>4. CommandsInv'
    BY <1>1, <2>3, SomethingSent DEF Overtake, CommandsInv, AllUse
  <2>5. ErasesInv'
    BY <1>1, <2>3, SomethingSent DEF Overtake, ErasesInv, AllUse
  <2>6. ErasePending => ErasePending'
    BY <1>2, <2>2 DEF ErasePending
  <2>7. AlteredInv'
    BY <1>1, <2>6 DEF RegsInv, AlteredInv
  <2>8. OffInv'
    BY <1>1 DEF RegsInv, OffInv, Threaded1
  <2>9. QED
    BY <2>4, <2>5, <2>7, <2>8 DEF RegsInv
<1>4. CASE ~Threaded1
  BY <1>1, <1>4, OvertakeKeeps
<1>5. QED
  BY <1>3, <1>4

LEMMA ResetRendererUses ==
  ASSUME ProgramMay = {}, ThreadsTypeOK, RegsInv, NEW hard \in BOOLEAN, ResetRenderer(hard)
  PROVE  RegsInv'
<1>1. /\ UNCHANGED <<displayFB, eraseLatch, spriteAltered, rendererAltered, queue1, pendingEvents,
                     thread1>>
      /\ IF regs' # regs THEN Overtake ELSE UNCHANGED overtaken
  BY DEF ResetRenderer, sent1Vars, thread1Vars
<1>2. CASE regs' # regs
  BY <1>1, <1>2, OvertakeKeeps
<1>3. CASE regs' = regs
  <2>1. Sent' = Sent
    BY <1>1 DEF Sent
  <2>2. QED
    BY <1>1, <1>3, <2>1, SameRegsKeep DEF Threaded1
<1>4. QED
  BY <1>2, <1>3

LEMMA ExecuteCommandUses ==
  ASSUME ThreadsTypeOK, RegsInv, ExecuteCommand
  PROVE  RegsInv'
<1>1. /\ UNCHANGED <<displayFB, regs, eraseLatch, spriteAltered, rendererAltered, overtaken>>
      /\ ~Threaded1' => ~Threaded1
  BY DEF ExecuteCommand, regVars, thread1Vars, Threaded1
<1>2. <<"command", regs>> \in Event1
  BY DEF ThreadsTypeOK, Event1
<1>3. CASE Threaded1
  <2>1. Sent' = Append(Sent, <<"command", regs>>)
    BY <1>2, <1>3, SendOne DEF ExecuteCommand, UsedByCommand
  <2>2. QED
    BY <1>1, <1>2, <2>1, SameRegsKeep
<1>4. CASE ~Threaded1
  <2>1. Sent' = Sent
    BY <1>4 DEF ExecuteCommand, sent1Vars, Sent
  <2>2. QED
    BY <1>1, <2>1, SameRegsKeep
<1>5. QED
  BY <1>3, <1>4

\* An erase is sent for what the buffer displayed still shows; without a thread
\* nothing is left of it.
LEMMA EraseUses ==
  ASSUME ThreadsTypeOK, RegsInv, IdleInv, Erase
  PROVE  RegsInv'
<1>1. /\ UNCHANGED <<displayFB, regs, eraseLatch, rendererAltered, thread1>>
      /\ Display' = Display /\ Draw' = Draw /\ Draw # Display
      /\ overtaken' = IF "erase" \in SentKinds THEN overtaken ELSE overtaken \ {Display}
  BY DEF Erase, drawCallVars, regVars, thread1Vars, Display, Draw, ThreadsTypeOK
<1>2. Draw \in overtaken' <=> Draw \in overtaken
  BY <1>1
<1>3. CASE Threaded1
  <2>1. UNCHANGED spriteAltered /\ SendVDP1(<<<<"erase", UsedByErase>>>>)
    BY <1>3 DEF Erase
  <2>2. <<"erase", UsedByErase>> \in Event1
    BY DEF ThreadsTypeOK, UsedByErase, Event1
  <2>3. Sent' = Append(Sent, <<"erase", UsedByErase>>)
    BY <2>1, <2>2, SendOne
  <2>4. Sent \in Seq(Event1) /\ Len(Sent) \in Nat
    BY SentType, LenProperties
  <2>5. /\ Len(Sent') = Len(Sent) + 1
        /\ \A i \in 1..Len(Sent) : Sent'[i] = Sent[i]
        /\ Sent'[Len(Sent) + 1] = <<"erase", UsedByErase>>
    BY <2>2, <2>3, <2>4, AppendProperties
  <2>6. \A i \in 1..Len(Sent') : \/ i \in 1..Len(Sent) /\ Sent'[i] = Sent[i]
                                 \/ Sent'[i] = <<"erase", UsedByErase>>
    BY <2>4, <2>5
  <2>7. UsedByErase' = UsedByErase /\ UsedByCommand' = UsedByCommand
    BY <1>1 DEF UsedByErase, UsedByCommand
  <2>8. CommandsInv'
    BY <1>1, <1>2, <2>6, <2>7 DEF RegsInv, CommandsInv, AllUse
  <2>9. ErasesInv'
    BY <1>1, <2>6, <2>7, SomethingSent DEF RegsInv, ErasesInv, AllUse
  <2>10. ErasePending'
    BY <2>4, <2>5 DEF ErasePending
  <2>11. AlteredInv'
    BY <1>1, <2>1, <2>10 DEF RegsInv, AlteredInv
  <2>12. OffInv'
    BY <1>1 DEF RegsInv, OffInv, Threaded1
  <2>13. QED
    BY <2>8, <2>9, <2>11, <2>12 DEF RegsInv
<1>4. CASE ~Threaded1
  <2>1. UNCHANGED <<queue1, pendingEvents>> /\ spriteAltered' = spriteAltered \ {Display}
    BY <1>4 DEF Erase, sent1Vars
  <2>2. Sent = <<>> /\ Sent' = Sent /\ Len(Sent) = 0
    BY <1>4, <2>1 DEF IdleInv, Sent
  <2>3. CommandsInv' /\ ErasesInv'
    BY <2>2 DEF CommandsInv, ErasesInv, AllUse
  <2>4. OffInv' /\ rendererAltered = {}
    BY <1>1, <1>4 DEF RegsInv, OffInv, Threaded1
  <2>5. AlteredInv'
    BY <1>1, <2>1, <2>2, <2>4 DEF RegsInv, AlteredInv, ErasePending
  <2>6. QED
    BY <2>3, <2>4, <2>5 DEF RegsInv
<1>5. QED
  BY <1>3, <1>4

LEMMA StartSwapUses ==
  ASSUME ThreadsTypeOK, RegsInv, StartSwap
  PROVE  RegsInv'
<1>1. /\ UNCHANGED <<displayFB, regs, spriteAltered, rendererAltered, thread1>>
      /\ eraseLatch' = regs
      /\ overtaken' = IF "erase" \in SentKinds /\ regs # eraseLatch
                      THEN overtaken \cup {Display} ELSE overtaken
      /\ Display' = Display /\ Draw' = Draw /\ Draw # Display
      /\ UsedByCommand' = UsedByCommand
  BY DEF StartSwap, LatchEraseParameters, thread1Vars, Display, Draw, UsedByCommand, ThreadsTypeOK
<1>2. Sent \in Seq(Event1) /\ Len(Sent) \in Nat /\ <<"swap">> \in Event1
  BY SentType, LenProperties DEF Event1, AnsweredEvents
<1>3. \A i \in 1..Len(Sent') : (i \in 1..Len(Sent) /\ Sent'[i] = Sent[i]) \/ Sent'[i][1] = "swap"
  <2>1. CASE Threaded1
    <3>1. Sent' = Append(Sent, <<"swap">>)
      BY <1>2, <2>1, SendOne DEF StartSwap
    <3>2. QED
      BY <1>2, <3>1, AppendProperties
  <2>2. CASE ~Threaded1
    BY <2>2 DEF StartSwap, sent1Vars, Sent
  <2>3. QED
    BY <2>1, <2>2
<1>4. ErasePending => ErasePending'
  <2>1. CASE Threaded1
    <3>1. Sent' = Append(Sent, <<"swap">>)
      BY <1>2, <2>1, SendOne DEF StartSwap
    <3>2. Len(Sent') = Len(Sent) + 1 /\ \A i \in 1..Len(Sent) : Sent'[i] = Sent[i]
      BY <1>2, <3>1, AppendProperties
    <3>3. QED
      BY <1>2, <3>2 DEF ErasePending
  <2>2. CASE ~Threaded1
    BY <2>2 DEF StartSwap, sent1Vars, Sent, ErasePending
  <2>3. QED
    BY <2>1, <2>2
<1>5. CommandsInv'
  <2>1. Draw \in overtaken' <=> Draw \in overtaken
    BY <1>1
  <2>2. QED
    BY <1>1, <1>3, <2>1 DEF RegsInv, CommandsInv, AllUse
<1>6. ErasesInv'
  <2> SUFFICES ASSUME Display \notin overtaken', NEW i \in 1..Len(Sent), Sent[i][1] = "erase"
               PROVE  Sent[i][2] = UsedByErase'
    BY <1>1, <1>3 DEF ErasesInv, AllUse
  <2>1. regs = eraseLatch /\ Display \notin overtaken
    BY <1>1, SomethingSent
  <2>2. UsedByErase' = UsedByErase
    BY <1>1, <2>1 DEF UsedByErase
  <2>3. QED
    BY <2>1, <2>2 DEF RegsInv, ErasesInv, AllUse
<1>7. AlteredInv'
  BY <1>1, <1>4 DEF RegsInv, AlteredInv
<1>8. OffInv'
  BY <1>1 DEF RegsInv, OffInv, Threaded1
<1>9. QED
  BY <1>5, <1>6, <1>7, <1>8 DEF RegsInv

\* Nothing is on its way when the buffers are flipped.
LEMMA FlipUses ==
  ASSUME ThreadsTypeOK, RegsInv, IdleInv, Flip
  PROVE  RegsInv'
<1>1. Sent = <<>> /\ Len(Sent) = 0 /\ Sent' = Sent
  BY DEF IdleInv, Flip, sent1Vars, Sent
<1>2. UNCHANGED <<spriteAltered, rendererAltered, overtaken, thread1>>
  BY DEF Flip, fbVars, thread1Vars
<1>3. CommandsInv' /\ ErasesInv'
  BY <1>1 DEF CommandsInv, ErasesInv, AllUse
<1>4. AlteredInv'
  BY <1>1, <1>2 DEF RegsInv, AlteredInv, ErasePending
<1>5. OffInv'
  BY <1>2 DEF RegsInv, OffInv, Threaded1
<1>6. QED
  BY <1>3, <1>4, <1>5 DEF RegsInv

LEMMA JoinUses ==
  ASSUME ThreadsTypeOK, RegsInv, IdleInv, Join
  PROVE  RegsInv'
<1>1. Sent' = Sent
  <2>1. CASE queue1' = queue1
    BY <2>1 DEF Join, Sent
  <2>2. CASE ~Threaded1 /\ queue1' = <<>>
    <3>1. queue1 = <<>> /\ pendingEvents' = pendingEvents
      BY <2>2, SentType, EmptySeq DEF IdleInv, Join, ThreadsTypeOK
    <3>2. QED
      BY <2>2, <3>1 DEF Sent
  <2>3. QED
    BY <2>1, <2>2 DEF Join, Threaded1
<1>2. UNCHANGED <<displayFB, regs, eraseLatch, spriteAltered, rendererAltered, overtaken, thread1>>
  BY DEF Join, drawCallVars, regVars, fbVars, thread1Vars
<1>3. QED
  BY <1>1, <1>2, SameRegsKeep DEF Threaded1

\* VDP1's thread compares what it uses with what was sent.
LEMMA HandleUses ==
  ASSUME ThreadsTypeOK, RegsInv, VDP1RenderThread
  PROVE  RegsInv'
<1>1. PICK e \in Event1 : Sent # <<>> /\ Head(queue1) = e /\ Head(Sent) = e /\ Sent' = Tail(Sent)
  BY TakeOne DEF VDP1RenderThread
<1>2. /\ UNCHANGED <<displayFB, regs, eraseLatch, overtaken>>
      /\ Display' = Display /\ Draw' = Draw /\ Draw # Display /\ Draw \in {0, 1} /\ Display \in {0, 1}
      /\ UsedByCommand' = UsedByCommand /\ UsedByErase' = UsedByErase
  BY DEF VDP1RenderThread, drawCallVars, regVars, Display, Draw, UsedByCommand, UsedByErase,
         ThreadsTypeOK
<1>3. /\ Sent \in Seq(Event1) /\ Len(Sent) \in Nat \ {0} /\ e = Sent[1]
      /\ Len(Sent') = Len(Sent) - 1
      /\ \A i \in 1..Len(Sent') : Sent'[i] = Sent[i + 1] /\ i + 1 \in 1..Len(Sent)
      /\ \A i \in 1..Len(Sent) : i # 1 => i - 1 \in 1..Len(Sent') /\ Sent'[i - 1] = Sent[i]
  BY <1>1, SentType, HeadTailProperties, EmptySeq
<1>4. CommandsInv' /\ ErasesInv'
  <2>1. ASSUME NEW kind, NEW used, AllUse(kind, used)
        PROVE  \A i \in 1..Len(Sent') : Sent'[i][1] = kind => Sent'[i][2] = used
    BY <1>3, <2>1 DEF AllUse
  <2>2. CommandsInv'
    <3>1. CASE Draw \in overtaken
      BY <1>2, <3>1 DEF CommandsInv
    <3>2. CASE AllUse("command", UsedByCommand)
      <4>1. \A i \in 1..Len(Sent') : Sent'[i][1] = "command" => Sent'[i][2] = UsedByCommand'
        BY <1>2, <2>1, <3>2
      <4>2. QED
        BY <4>1 DEF CommandsInv, AllUse
    <3>3. QED
      BY <3>1, <3>2 DEF RegsInv, CommandsInv
  <2>3. ErasesInv'
    <3>1. CASE Display \in overtaken
      BY <1>2, <3>1 DEF ErasesInv
    <3>2. CASE AllUse("erase", UsedByErase)
      <4>1. \A i \in 1..Len(Sent') : Sent'[i][1] = "erase" => Sent'[i][2] = UsedByErase'
        BY <1>2, <2>1, <3>2
      <4>2. QED
        BY <4>1 DEF ErasesInv, AllUse
    <3>3. QED
      BY <3>1, <3>2 DEF RegsInv, ErasesInv
  <2>4. QED
    BY <2>2, <2>3
<1>5. /\ Draw \notin overtaken => (e[1] = "command" => e[2] = UsedByCommand)
      /\ Display \notin overtaken => (e[1] = "erase" => e[2] = UsedByErase)
  BY <1>3 DEF RegsInv, CommandsInv, ErasesInv, AllUse
<1>6. ErasePending => ErasePending' \/ e[1] = "erase"
  BY <1>3 DEF ErasePending
<1>7. e[1] \in {"vram", "command", "erase"} \cup PlainEvents \cup AnsweredEvents
  BY EventKinds
<1>8. AlteredInv' /\ OffInv'
  <2> USE DEF HandleVDP1, VDP1RenderThread, thread1Vars, Threaded1
  <2>1. CASE e[1] \in {"vram", "reg", "fb", "preSave"}
    <3>1. UNCHANGED <<spriteAltered, rendererAltered, thread1>>
      BY <1>1, <2>1
    <3>2. QED
      BY <1>2, <1>6, <2>1, <3>1 DEF RegsInv, AlteredInv, OffInv
  <2>2. CASE e[1] = "command"
    <3>1. /\ UNCHANGED <<spriteAltered, thread1>>
          /\ rendererAltered' = rendererAltered \cup (IF e[2] = UsedByCommand THEN {} ELSE {Draw})
      BY <1>1, <2>2
    <3>2. QED
      BY <1>2, <1>5, <1>6, <2>2, <3>1 DEF RegsInv, AlteredInv, OffInv
  <2>3. CASE e[1] \in {"end", "swap"}
    <3>1. /\ UNCHANGED <<rendererAltered, thread1>>
          /\ spriteAltered' = (spriteAltered \ {Draw}) \cup (rendererAltered \cap {Draw})
      BY <1>1, <2>3 DEF HandOver
    <3>2. QED
      BY <1>2, <1>6, <2>3, <3>1 DEF RegsInv, AlteredInv, OffInv
  <2>4. CASE e[1] = "erase"
    <3>1. /\ UNCHANGED thread1
          /\ spriteAltered' = AfterErase(spriteAltered, e[2])
          /\ rendererAltered' = AfterErase(rendererAltered, e[2])
      BY <1>1, <2>4
    <3>2. QED
      BY <1>2, <1>5, <2>4, <3>1 DEF RegsInv, AlteredInv, OffInv, AfterErase
  <2>5. CASE e[1] = "postLoad"
    <3>1. UNCHANGED <<spriteAltered, thread1>> /\ rendererAltered' = spriteAltered
      BY <1>1, <2>5
    <3>2. QED
      BY <1>2, <1>6, <2>5, <3>1 DEF RegsInv, AlteredInv, OffInv
  <2>6. CASE e[1] = "shutdown"
    <3>1. UNCHANGED spriteAltered /\ rendererAltered' = {}
      BY <1>1, <2>6
    <3>2. QED
      BY <1>2, <1>6, <2>6, <3>1 DEF RegsInv, AlteredInv, OffInv
  <2>7. QED
    BY <1>7, <2>1, <2>2, <2>3, <2>4, <2>5, <2>6 DEF PlainEvents, AnsweredEvents
<1>9. QED
  BY <1>4, <1>8 DEF RegsInv

\* What does not concern VDP1.
LEMMA AsideUses ==
  ASSUME ThreadsTypeOK, RegsInv, UNCHANGED <<drawCallVars, sent1Vars, fbVars, thread1Vars>>
  PROVE  RegsInv'
<1>1. /\ UNCHANGED <<displayFB, regs, eraseLatch, spriteAltered, rendererAltered, overtaken,
                     thread1>>
      /\ Sent' = Sent
  BY DEF drawCallVars, regVars, sent1Vars, fbVars, thread1Vars, Sent
<1>2. QED
  BY <1>1, SameRegsKeep DEF Threaded1

LEMMA SendingUses ==
  ASSUME ThreadsTypeOK, RegsInv,
         \/ \E v \in VRAMValues : WriteVRAM(v)
         \/ WriteFB \/ VDP1EndFrame \/ VDP1SyncFB \/ PreSaveStateSync \/ PostLoadStateSync
         \/ EnableThreadedVDP1 \/ DisableThreadedVDP1
  PROVE  RegsInv'
<1> USE DEF drawCallVars, regVars, fbVars, thread1Vars, sent1Vars, Threaded1
<1>1. /\ \A k \in PlainEvents \cup AnsweredEvents : <<k>> \in Event1
      /\ \A v \in VRAMValues : <<"vram", v>> \in Event1
  BY ThreadsAssumption DEF Event1
<1>2. ASSUME NEW v \in VRAMValues, WriteVRAM(v) PROVE RegsInv'
  BY <1>1, <1>2, PlainSendKeeps DEF WriteVRAM
<1>3. CASE WriteFB
  <2>1. PICK e \in Event1 : e = <<"fb">>
    BY <1>1 DEF PlainEvents
  <2>2. SendWriteVDP1(e) \/ UNCHANGED <<queue1, pendingEvents>>
    BY <1>3, <2>1 DEF WriteFB
  <2>3. e[1] # "erase" /\ e[1] # "command"
    BY <2>1
  <2>4. /\ UNCHANGED <<displayFB, regs, eraseLatch, spriteAltered, rendererAltered, overtaken>>
        /\ ~Threaded1' => ~Threaded1
    BY <1>3 DEF WriteFB
  <2>5. QED
    BY <2>2, <2>3, <2>4, PlainSendKeeps
<1>4. CASE VDP1EndFrame
  BY <1>1, <1>4, PlainSendKeeps DEF VDP1EndFrame, PlainEvents
<1>5. CASE VDP1SyncFB
  <2>1. Sent' = Sent
    BY <1>5, SendBatch DEF VDP1SyncFB
  <2>2. QED
    BY <1>5, <2>1, SameRegsKeep DEF VDP1SyncFB
<1>6. CASE PreSaveStateSync
  BY <1>1, <1>6, PlainSendKeeps DEF PreSaveStateSync, AnsweredEvents
<1>7. CASE PostLoadStateSync
  BY <1>1, <1>7, PlainSendKeeps DEF PostLoadStateSync, AnsweredEvents
<1>8. CASE EnableThreadedVDP1
  BY <1>1, <1>8, PlainSendKeeps DEF EnableThreadedVDP1, AnsweredEvents
<1>9. CASE DisableThreadedVDP1
  BY <1>1, <1>9, PlainSendKeeps DEF DisableThreadedVDP1, AnsweredEvents
<1>10. QED
  BY <1>2, <1>3, <1>4, <1>5, <1>6, <1>7, <1>8, <1>9

LEMMA RegsInitHolds ==
  ASSUME ThreadsInit
  PROVE  RegsInv
<1>1. Sent = <<>> /\ Len(Sent) = 0 /\ spriteAltered = {} /\ rendererAltered = {}
  BY SentType, ThreadsInitHolds, EmptySeq DEF ThreadsInit, ThreadsInv, Sent
<1>2. QED
  BY <1>1 DEF RegsInv, CommandsInv, ErasesInv, AlteredInv, OffInv, AllUse

LEMMA RegsNextKeeps ==
  ASSUME ProgramMay = {}, ThreadsInv, RegsInv, ThreadsNext
  PROVE  RegsInv'
<1>1. ThreadsTypeOK /\ IdleInv
  BY DEF ThreadsInv, Sent1Inv
<1>2. CASE \E r \in RegValues : WriteReg(r)
  BY <1>1, <1>2, WriteRegUses
<1>3. CASE \E hard \in BOOLEAN : ResetRenderer(hard)
  BY <1>1, <1>3, ResetRendererUses
<1>4. CASE ExecuteCommand
  BY <1>1, <1>4, ExecuteCommandUses
<1>5. CASE Erase
  BY <1>1, <1>5, EraseUses
<1>6. CASE StartSwap
  BY <1>1, <1>6, StartSwapUses
<1>7. CASE Flip
  BY <1>1, <1>7, FlipUses
<1>8. CASE Join
  BY <1>1, <1>8, JoinUses
<1>9. CASE VDP1RenderThread
  BY <1>1, <1>9, HandleUses
<1>10. CASE \/ \E v \in VRAMValues : WriteVRAM(v)
            \/ WriteFB \/ VDP1EndFrame \/ VDP1SyncFB \/ PreSaveStateSync \/ PostLoadStateSync
            \/ EnableThreadedVDP1 \/ DisableThreadedVDP1
  BY <1>1, <1>10, SendingUses
<1>11. CASE \/ VDP2RenderLine \/ EndDisplay \/ \E kind \in FrameKinds : EndOfBlanking(kind)
            \/ ReadFB \/ StartErase \/ SwapVDP2 \/ GoOn \/ PreSaveVDP2 \/ PostLoadVDP2
            \/ EnableThreadedVDP2 \/ DisableThreadedVDP2
            \/ VDP2RenderThread \/ VDP2ThreadGoesOn \/ DeinterlacerBegins \/ DeinterlacerEnds
  <2>1. UNCHANGED <<drawCallVars, sent1Vars, fbVars, thread1Vars>>
    BY <1>11
       DEF VDP2RenderLine, EndDisplay, EndOfBlanking, ReadFB, StartErase, SwapVDP2, GoOn, PreSaveVDP2,
           PostLoadVDP2, EnableThreadedVDP2, DisableThreadedVDP2, VDP2RenderThread, VDP2ThreadGoesOn,
           DeinterlacerBegins, DeinterlacerEnds
  <2>2. QED
    BY <1>1, <2>1, AsideUses
<1>12. QED
  BY <1>2, <1>3, <1>4, <1>5, <1>6, <1>7, <1>8, <1>9, <1>10, <1>11 DEF ThreadsNext, EmulatorGoesOn

LEMMA RegsStutterKeeps ==
  ASSUME ThreadsInv, RegsInv, UNCHANGED threadVars
  PROVE  RegsInv'
<1>1. UNCHANGED <<drawCallVars, sent1Vars, fbVars, thread1Vars>>
  BY DEF threadVars, drawCallVars, regVars, sent1Vars, fbVars, thread1Vars
<1>2. QED
  BY <1>1, AsideUses DEF ThreadsInv

-----------------------------------------------------------------------------
(***************************************************************************)
(* What the invariants say of an orderly program.                          *)
(***************************************************************************)
\* The renderer has everything VDP1 drew when nothing is left to handle.
LEMMA NothingSentIsSettled ==
  ASSUME ThreadsInv, Sent = <<>>, ~unfinished \/ emulator \in SwapCalls
  PROVE  spriteFB[Draw] = ideal[Draw]
<1>1. CASE Threaded1
  BY <1>1, NoEventsStay DEF ThreadsInv, Sent1Inv, CaughtUpInv, Settled, Now
<1>2. CASE ~Threaded1
  BY <1>2 DEF ThreadsInv, Sent1Inv, IdleInv
<1>3. QED
  BY <1>1, <1>2

\* Only the answer to a read ends it.
LEMMA ReadsWait ==
  ASSUME ThreadsNext, emulator = "sync", emulator' = "run"
  PROVE  outstanding = 0
<1> USE DEF Free, Running, Switchable, frameCallVars, drawCallVars, regVars, sent1Vars, fbVars,
            thread1Vars,
            thread2Vars
<1>1. CASE EmulatorGoesOn
  BY <1>1 DEF EmulatorGoesOn, ReadFB, StartErase, Erase, StartSwap, SwapVDP2, Flip, GoOn, PreSaveVDP2,
              PostLoadStateSync, PostLoadVDP2, Join, Then
<1>2. CASE \/ VDP1RenderThread \/ VDP2RenderThread \/ VDP2ThreadGoesOn \/ DeinterlacerBegins
           \/ DeinterlacerEnds
  BY <1>2 DEF VDP1RenderThread, VDP2RenderThread, VDP2ThreadGoesOn, DeinterlacerBegins, DeinterlacerEnds
<1>3. CASE ~EmulatorGoesOn /\ emulator = "run"
  BY <1>3
<1>4. QED
  BY <1>1, <1>2, <1>3
     DEF ThreadsNext, WriteVRAM, WriteReg, WriteFB, ExecuteCommand, VDP1EndFrame, VDP1SyncFB, VDP2RenderLine,
         EndDisplay, EndOfBlanking, PreSaveStateSync, ResetRenderer, EnableThreadedVDP1,
         EnableThreadedVDP2, DisableThreadedVDP1, DisableThreadedVDP2

\* The buffer that is drawn into shows what was sent, and so does the one that
\* is displayed where no erase is on its way.
LEMMA DrawAsSent ==
  ASSUME ThreadsTypeOK, RegsInv
  PROVE  AsSent(Draw)
BY DEF RegsInv, AlteredInv, AsSent, Draw, Display, ThreadsTypeOK

LEMMA DisplayAsSent ==
  ASSUME ThreadsTypeOK, EventsInv, RegsInv, ~erasedSinceSwap
  PROVE  AsSent(Display)
BY DEF EventsInv, ErasePending, RegsInv, AlteredInv, AsSent, Display, ThreadsTypeOK

LEMMA LinesFromInv ==
  ASSUME ThreadsInv, RegsInv
  PROVE  LinesAreCurrent
<1>1. ThreadsTypeOK /\ CallInv /\ EventsInv /\ LineInv /\ DeinterlacerInv
  BY DEF ThreadsInv, Sent1Inv
<1>2. ASSUME queue2 # <<>>, Head(queue2)[1] = "line"
      PROVE  spriteFB[Display] = Head(queue2)[2] /\ AsSent(Display)
  <2>1. 1 \in 1..Len(queue2) /\ Head(queue2) = queue2[1]
    BY <1>1, <1>2, EmptySeq, LenProperties DEF ThreadsTypeOK
  <2>2. ~erasedSinceSwap /\ spriteFB[Display] = Head(queue2)[2]
    BY <1>1, <1>2, <2>1 DEF LineInv
  <2>3. QED
    BY <1>1, <2>2, DisplayAsSent
<1>3. ASSUME deinterlacer = "drawing" PROVE spriteFB[Display] = line /\ AsSent(Display)
  <2>1. thread2 = "line"
    BY <1>1, <1>3 DEF DeinterlacerInv, ThreadsTypeOK
  <2>2. ~erasedSinceSwap /\ spriteFB[Display] = line
    BY <1>1, <2>1 DEF LineInv
  <2>3. QED
    BY <1>1, <2>2, DisplayAsSent
<1>4. ASSUME Free, inDisplay PROVE spriteFB[Display] = ideal[Display] /\ AsSent(Display)
  <2>1. ~erasedSinceSwap /\ spriteFB[Display] = ideal[Display]
    BY <1>1, <1>4 DEF Free, CallInv, LineInv
  <2>2. QED
    BY <1>1, <2>1, DisplayAsSent
<1>5. QED
  BY <1>2, <1>3, <1>4 DEF LinesAreCurrent

LEMMA SwapFromInv ==
  ASSUME ThreadsInv, RegsInv, emulator = "flip"
  PROVE  spriteFB[Draw] = ideal[Draw] /\ AsSent(Draw)
<1>1. Sent = <<>> /\ emulator \in SwapCalls
  BY DEF ThreadsInv, Sent1Inv, IdleInv, SwapCalls
<1>2. QED
  BY <1>1, NothingSentIsSettled, DrawAsSent DEF ThreadsInv

LEMMA ReadFromInv ==
  ASSUME ThreadsInv, RegsInv, ThreadsNext, emulator = "sync", emulator' = "run", ~unfinished
  PROVE  spriteFB[Draw] = ideal[Draw] /\ AsSent(Draw)
<1>1. outstanding = 0
  BY ReadsWait
<1>2. queue1 = <<>> /\ pendingEvents = <<>>
  BY <1>1, EmptySeq DEF ThreadsInv, ThreadsTypeOK, Sent1Inv, IdleInv
<1>3. Sent = <<>>
  BY <1>2, SentType DEF ThreadsInv
<1>4. QED
  BY <1>3, NothingSentIsSettled, DrawAsSent DEF ThreadsInv

LEMMA ThreadsInvHolds ==
  ASSUME ProgramMay = {}
  PROVE  ThreadsSpec => [](ThreadsInv /\ RegsInv)
<1>1. ThreadsInit => ThreadsInv /\ RegsInv
  BY ThreadsInitHolds, RegsInitHolds
<1>2. ThreadsInv /\ RegsInv /\ [ThreadsNext]_threadVars => ThreadsInv' /\ RegsInv'
  BY ThreadsNextKeeps, ThreadsStutterKeeps, RegsNextKeeps, RegsStutterKeeps
<1>3. QED
  BY <1>1, <1>2, PTL DEF ThreadsSpec

\* However late the VDP2 thread and the deinterlacer draw a line, and however
\* early VDP1 is with the next picture, the line shows the frame buffer that
\* was meant when it was asked for (vdp_renderer_sw.cpp 438-468), drawn with
\* the registers that were meant unless they were written behind what was sent.
THEOREM ThreadsLinesAreCurrent ==
  ASSUME ProgramMay = {}
  PROVE  ThreadsSpec => []LinesAreCurrent
<1>1. ThreadsInv /\ RegsInv => LinesAreCurrent
  BY LinesFromInv
<1>2. QED
  BY <1>1, ThreadsInvHolds, PTL

\* When the frame buffers are flipped, all that VDP1 drew has been handed over,
\* with or without a thread (vdp_renderer_base.hpp 163-168), and was drawn with
\* the registers of the moment it was sent where none was written behind it.
THEOREM ThreadsSwapIsComplete ==
  ASSUME ProgramMay = {}
  PROVE  ThreadsSpec => SwapIsComplete
<1>1. ThreadsInv /\ RegsInv /\ [ThreadsNext]_threadVars
        => [displayFB' # displayFB /\ emulator = "flip"
              => spriteFB[Draw] = ideal[Draw] /\ AsSent(Draw)]_threadVars
  BY SwapFromInv
<1>2. QED
  BY <1>1, ThreadsInvHolds, PTL DEF ThreadsSpec, SwapIsComplete

\* A program that reads the frame buffer after a drawing has ended gets what
\* was drawn, however much VDP1's thread had left (vdp_renderer_sw.cpp 332-344),
\* with the registers of the moment it was sent where none was written behind it.
THEOREM ThreadsReadsAreCurrent ==
  ASSUME ProgramMay = {}
  PROVE  ThreadsSpec => ReadsAreCurrent
<1>1. ThreadsInv /\ RegsInv /\ [ThreadsNext]_threadVars
        => [emulator = "sync" /\ emulator' = "run" /\ ~unfinished
               => spriteFB[Draw] = ideal[Draw] /\ AsSent(Draw)]_threadVars
  BY ReadFromInv
<1>2. QED
  BY <1>1, ThreadsInvHolds, PTL DEF ThreadsSpec, ReadsAreCurrent
=============================================================================
