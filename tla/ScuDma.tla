------------------------------- MODULE ScuDma -------------------------------
(***************************************************************************)
(* The SCU's DMA controller (hw/scu/scu.cpp): channels of rising priority, *)
(* started by the program or by signals of the machine, run one at a time  *)
(* to their end unless the bus makes them wait.                            *)
(*                                                                         *)
(* A transfer is counted in the pieces between which it can stall.  RunDMA *)
(* is a call: while it runs, nothing else does (a transfer into the sound  *)
(* chip that makes it request another transfer is left out).               *)
(***************************************************************************)
EXTENDS Integers, FiniteSetsExt

CONSTANTS
    Channels, \* the levels of m_dmaChannels
    Triggers, \* starting factors in use besides "Immediate"
    Kinds,    \* transfers in use, see Pieces
    Delays,   \* values of intrDelay after a transfer
    Cycles,   \* of one Advance
    MaxStops  \* bound on the force stops

ASSUME DmaAssumption ==
    /\ Channels \subseteq 0 .. 2 /\ Channels # {}
    /\ Kinds \subseteq {"direct", "list", "illegal", "illegalList"}
    /\ "Immediate" \notin Triggers
    /\ Delays \subseteq Nat \ {0}
    /\ Cycles \subseteq Nat \ {0}

VARIABLES
    dma,       \* m_dmaChannels
    activeDMAChannelLevel, \* m_activeDMAChannelLevel; NoChannel for none
    running,   \* RunDMA is executing
    unsignalled, \* history: channels whose transfer has ended without its interrupt
    stops      \* force stops so far

dmaVars == <<dma, activeDMAChannelLevel, running, unsignalled, stops>>

NoChannel == -1

\* Pieces of a transfer; one between equal or unmapped buses is illegal, in a
\* list already when it is started.
Pieces == [direct |-> 1, list |-> 2, illegal |-> 1, illegalList |-> 0]

Runnable(ch) == ch.enabled /\ (ch.active \/ ch.start)
Doomed(ch) == ~ch.active /\ ch.kind = "illegalList"

\* The highest level with something to do, once the illegal lists are dropped.
Selected(chs) ==
    LET levels == {l \in Channels : Runnable(chs[l]) /\ ~Doomed(chs[l])}
    IN  IF levels = {} THEN NoChannel ELSE Max(levels)

Started(chs) ==
    [l \in Channels |->
        IF l = Selected(chs) /\ ~chs[l].active
        THEN [chs[l] EXCEPT !.start = FALSE, !.active = TRUE, !.left = Pieces[chs[l].kind]]
        ELSE IF l > Selected(chs) /\ Runnable(chs[l]) THEN [chs[l] EXCEPT !.start = FALSE]
        ELSE chs[l]]

RecalcDMAChannel(chs) ==
    /\ activeDMAChannelLevel' = Selected(chs)
    /\ dma' = Started(chs)

Working == running /\ activeDMAChannelLevel # NoChannel
Current == dma[activeDMAChannelLevel]

-----------------------------------------------------------------------------
(* The program, and the signals of the machine. *)

\* Mode registers are set up while the channel is at rest, its interrupt seen.
WriteMode(l, trigger, kind) ==
    /\ ~running
    /\ ~dma[l].active /\ ~dma[l].start
    /\ l \notin unsignalled
    /\ dma' = [dma EXCEPT ![l].trigger = trigger, ![l].kind = kind]
    /\ UNCHANGED <<activeDMAChannelLevel, running, unsignalled, stops>>

\* The enable register; disabling does not stop a transfer, nor forget a start.
WriteEnable(l, enabled) ==
    /\ ~running
    /\ dma' = [dma EXCEPT ![l].enabled = enabled]
    /\ UNCHANGED <<activeDMAChannelLevel, running, unsignalled, stops>>

\* The enable register with the start bit, once the channel has nothing to do.
TriggerImmediateDMA(l) ==
    /\ ~running
    /\ ~dma[l].active
    /\ ~Runnable(dma[l])
    /\ l \notin unsignalled
    /\ dma[l].trigger = "Immediate"
    /\ RecalcDMAChannel([dma EXCEPT ![l].enabled = TRUE, ![l].start = TRUE])
    /\ running' = TRUE
    /\ UNCHANGED <<unsignalled, stops>>

\* A signal is lost on a channel that is still transferring.
Signalled(trigger) ==
    [l \in Channels |->
        IF dma[l].enabled /\ ~dma[l].active /\ dma[l].trigger = trigger
        THEN [dma[l] EXCEPT !.start = TRUE] ELSE dma[l]]

\* Faulty: the channel to run is not chosen anew.
TriggerDMATransferUnselected(trigger) ==
    /\ ~running
    /\ dma' = Signalled(trigger)
    /\ UNCHANGED <<activeDMAChannelLevel, running, unsignalled, stops>>

TriggerDMATransfer(trigger) ==
    /\ ~running
    /\ RecalcDMAChannel(Signalled(trigger))
    /\ UNCHANGED <<running, unsignalled, stops>>

\* Faulty: the channel stays selected.
ForceStopSelected ==
    /\ ~running
    /\ dma' = [l \in Channels |-> [dma[l] EXCEPT !.active = FALSE]]
    /\ UNCHANGED <<activeDMAChannelLevel, running, unsignalled>>
    /\ stops < MaxStops
    /\ stops' = stops + 1

\* Starts and interrupts that wait are not stopped.
ForceStop ==
    /\ ~running
    /\ dma' = [l \in Channels |-> [dma[l] EXCEPT !.active = FALSE]]
    /\ activeDMAChannelLevel' = NoChannel
    /\ UNCHANGED <<running, unsignalled>>
    /\ stops < MaxStops
    /\ stops' = stops + 1

-----------------------------------------------------------------------------
(* RunDMA. *)

\* Faulty: an interrupt due at the very end of the slice is skipped.
DelayOverBefore(l, cycles) == dma[l].intrDelay \in 1 .. cycles - 1

DelayOver(l, cycles) == dma[l].intrDelay \in 1 .. cycles

\* Interrupts whose delay is over come first.
AdvanceDMA(cycles) ==
    /\ ~running
    /\ dma' = [l \in Channels |-> [dma[l] EXCEPT !.intrDelay = IF @ > cycles THEN @ - cycles ELSE 0]]
    /\ unsignalled' = unsignalled \ {l \in Channels : DelayOver(l, cycles)}
    /\ running' = TRUE
    /\ UNCHANGED <<activeDMAChannelLevel, stops>>

\* The bus makes the transfer wait for the next call.
Stall ==
    /\ Working
    /\ running' = FALSE
    /\ UNCHANGED <<dma, activeDMAChannelLevel, unsignalled, stops>>

TransferPiece ==
    /\ Current.kind # "illegal"
    /\ Current.left > 1
    /\ dma' = [dma EXCEPT ![activeDMAChannelLevel].left = @ - 1]
    /\ UNCHANGED <<activeDMAChannelLevel, unsignalled>>

\* The interrupt of a transfer that the program started is put off.
FinishTransfer ==
    /\ Current.kind # "illegal"
    /\ Current.left <= 1
    /\ LET done == [dma EXCEPT ![activeDMAChannelLevel].active = FALSE,
                               ![activeDMAChannelLevel].left = 0]
       IN  IF Current.trigger = "Immediate"
           THEN /\ \E d \in Delays :
                       RecalcDMAChannel([done EXCEPT ![activeDMAChannelLevel].intrDelay = d])
                /\ unsignalled' = unsignalled \cup {activeDMAChannelLevel}
           ELSE /\ RecalcDMAChannel(done)
                /\ UNCHANGED unsignalled

\* Raises DMA-illegal instead of DMA end.
DropIllegal ==
    /\ Current.kind = "illegal"
    /\ RecalcDMAChannel([dma EXCEPT ![activeDMAChannelLevel].active = FALSE,
                                    ![activeDMAChannelLevel].left = 0])
    /\ UNCHANGED unsignalled

Transfer(l) ==
    /\ Working
    /\ activeDMAChannelLevel = l
    /\ TransferPiece \/ FinishTransfer \/ DropIllegal
    /\ UNCHANGED <<running, stops>>

RunDMAReturns ==
    /\ running
    /\ activeDMAChannelLevel = NoChannel
    /\ running' = FALSE
    /\ UNCHANGED <<dma, activeDMAChannelLevel, unsignalled, stops>>

DmaInit ==
    /\ dma = [l \in Channels |->
                 [enabled |-> FALSE, active |-> FALSE, start |-> FALSE, trigger |-> "Immediate",
                  kind |-> "direct", left |-> 0, intrDelay |-> 0]]
    /\ activeDMAChannelLevel = NoChannel
    /\ running = FALSE
    /\ unsignalled = {}
    /\ stops = 0

AnyAdvance == \E cycles \in Cycles : AdvanceDMA(cycles)
AnySignal == \E trigger \in Triggers : TriggerDMATransfer(trigger)

DmaNext ==
    \/ \E l \in Channels, trigger \in Triggers \cup {"Immediate"}, kind \in Kinds :
           WriteMode(l, trigger, kind)
    \/ \E l \in Channels, enabled \in BOOLEAN : WriteEnable(l, enabled)
    \/ \E l \in Channels : TriggerImmediateDMA(l)
    \/ AnySignal
    \/ ForceStop
    \/ AnyAdvance
    \/ Stall
    \/ \E l \in Channels : Transfer(l)
    \/ RunDMAReturns

\* The emulator calls Advance in every slice, blanking signals never cease, and
\* the bus does not make a channel wait for ever.
DmaFairness ==
    /\ SF_dmaVars(AnyAdvance)
    /\ SF_dmaVars(AnySignal)
    /\ \A l \in Channels : SF_dmaVars(Transfer(l))
    /\ WF_dmaVars(RunDMAReturns)

DmaSpec == DmaInit /\ [][DmaNext]_dmaVars /\ DmaFairness

-----------------------------------------------------------------------------
\* RunDMA's own assertion, assert(ch.active): the cached level never points to
\* a channel that has ended, been stopped or refused its list (scu.cpp 696).
SelectedIsActive ==
    activeDMAChannelLevel # NoChannel => Current.active /\ Current.left > 0

\* Every start is served, on every level, through stalls, suspensions by
\* higher levels and register writes: unless the channel is disabled its
\* transfer begins, and one that has begun ends.
StartsAreServed ==
    \A l \in Channels :
        /\ dma[l].enabled /\ dma[l].start /\ dma[l].kind # "illegalList"
               ~> dma[l].active \/ ~dma[l].enabled
        /\ Runnable(dma[l]) ~> ~Runnable(dma[l])

\* Every transfer that ends raises its interrupt, force stops notwithstanding.
EndsAreSignalled == \A l \in Channels : l \in unsignalled ~> l \notin unsignalled
=============================================================================
