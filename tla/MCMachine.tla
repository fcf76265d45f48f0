------------------------------ MODULE MCMachine ------------------------------
EXTENDS Scheduler, Smpc, CDHostPort, ScuDma, BackupMemory

VARIABLE part

vars == <<part, schedulerVars, smpcVars, hostPortVars, dmaVars, backupVars>>

Init ==
    /\ part \in {"scheduler", "smpc", "port", "dma", "backup"}
    /\ SchedulerInit
    /\ part # "scheduler" => \A id \in Event : events[id].num = 2
    /\ SmpcInit
    /\ HostPortInit
    /\ DmaInit
    /\ BackupInit

Next ==
    /\ UNCHANGED part
    /\ \/ part = "scheduler" /\ SchedulerNext
       \/ part # "scheduler" /\ UNCHANGED schedulerVars
    /\ \/ part = "smpc" /\ SmpcNext
       \/ part # "smpc" /\ UNCHANGED smpcVars
    /\ \/ part = "port" /\ HostPortNext
       \/ part # "port" /\ UNCHANGED hostPortVars
    /\ \/ part = "dma" /\ DmaNext
       \/ part # "dma" /\ UNCHANGED dmaVars
    /\ \/ part = "backup" /\ BackupNext
       \/ part # "backup" /\ UNCHANGED backupVars

\* What a component can do before its first step is asked only of its own part.
Fairness ==
    /\ WF_schedulerVars(ExecuteStep)
    /\ WF_smpcVars(CommandEvent)
    /\ WF_smpcVars(part = "smpc" /\ Beam)
    /\ WF_smpcVars(HostWriteCOMREG)
    /\ SF_dmaVars(part = "dma" /\ AnyAdvance)
    /\ SF_dmaVars(part = "dma" /\ AnySignal)
    /\ \A l \in Channels : SF_dmaVars(Transfer(l))
    /\ WF_dmaVars(RunDMAReturns)

Spec == Init /\ [][Next]_vars /\ Fairness

-----------------------------------------------------------------------------
\* Two clock ratios with a rounding each way.
TwoRatios == {<<2, 3>>, <<3, 2>>}

\* All interrupts unmasked with the A-Bus, and all but the A-Bus masked.
TwoMasks == {<<{}, TRUE>>, <<{0}, FALSE>>}

\* A file of two blocks and one of three.
TwoContents == {<<<<"x", 1>>>>, <<<<"y", 1>>, <<"y", 2>>>>}

\* Two files that fill the card, and a long one.
TwoCards ==
    {<<[name |-> "b", content |-> <<<<"x", 1>>>>], [name |-> "a", content |-> <<<<"x", 1>>>>]>>,
     <<[name |-> "a", content |-> <<<<"y", 1>>, <<"y", 2>>>>]>>}

CommandFlags == {{"CSCT", "SCDQ"}, {}}

=============================================================================
