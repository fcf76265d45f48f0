--------------------------- MODULE ScuInterrupts ---------------------------
(***************************************************************************)
(* The SCU's interrupt controller (hw/scu/scu.cpp) and the master SH-2's   *)
(* side of it: sources latch in a status register, one of them at a time   *)
(* is offered to the processor, and accepting it masks every internal one  *)
(* until the handler writes the mask back.  External (A-Bus) interrupts    *)
(* also wait for an acknowledgement of their own.                          *)
(***************************************************************************)
EXTENDS Integers, Sequences, FiniteSetsExt

CONSTANTS
    Internal, \* internal sources in use: bits of the status register
    Masks     \* what the program writes to IMS: <<masked sources, ABus bit>>

External == {16}
None == -1
Boot == 32

Sources == Internal \cup External

ASSUME InterruptsAssumption ==
    /\ Internal \subseteq 0 .. 13
    /\ Masks \subseteq (SUBSET Internal) \X BOOLEAN

VARIABLES
    intrStatus,          \* m_intrStatus
    intrMask,            \* m_intrMask.internal: the masked sources
    abusMask,            \* m_intrMask.ABus_ExtIntrs: external interrupts pass
    abusIntrsPendingAck, \* m_abusIntrsPendingAck
    pendingIntr,         \* m_pendingIntrIndex, or None at level 0
    handlers             \* the SH-2's handlers, the running one last

interruptVars == <<intrStatus, intrMask, abusMask, abusIntrsPendingAck, pendingIntr, handlers>>

Level == [s \in 0 .. 32 |->
    IF s <= 13 THEN <<15, 14, 13, 12, 11, 10, 9, 8, 8, 6, 6, 5, 3, 2>>[s + 1]
    ELSE IF s = Boot THEN 15 ELSE 7]

\* The interrupt level in the SH-2's status register.
ServedLevel == IF handlers = <<>> THEN 0 ELSE Level[handlers[Len(handlers)]]

InternalBits(status, mask) == (status \cap Internal) \ mask
ExternalBits(status, abus) == IF abus THEN status \cap External ELSE {}

\* The lowest bit of each kind; of the two, the internal one on equal levels.
Candidate(status, mask, abus, acks) ==
    LET internalBits == InternalBits(status, mask)
        externalBits == ExternalBits(status, abus)
        internalLevel == IF internalBits = {} THEN 0 ELSE Level[Min(internalBits)]
        externalLevel == IF externalBits = {} THEN 0 ELSE Level[Min(externalBits)]
    IN  IF internalBits = {} /\ externalBits = {} THEN None
        ELSE IF internalLevel >= externalLevel THEN Min(internalBits)
        ELSE IF Min(externalBits) \notin acks THEN Min(externalBits)
        ELSE None

\* With the registers as given: nothing is offered over a pending interrupt.
UpdateMasterInterruptLevel(status, mask, abus, acks) ==
    LET s == Candidate(status, mask, abus, acks) IN
    IF pendingIntr # None \/ s = None
    THEN /\ intrStatus' = status
         /\ abusIntrsPendingAck' = acks
         /\ UNCHANGED pendingIntr
    ELSE /\ pendingIntr' = s
         /\ intrStatus' = status \ {s}
         /\ abusIntrsPendingAck' = acks \cup ({s} \cap External)

-----------------------------------------------------------------------------
\* Blanking signals re-examine the registers even if they are latched already.
Trigger(s) ==
    /\ s \in Internal
    /\ s \in intrStatus => s <= 2
    /\ UpdateMasterInterruptLevel(intrStatus \cup {s}, intrMask, abusMask, abusIntrsPendingAck)
    /\ UNCHANGED <<intrMask, abusMask, handlers>>

\* An external interrupt is dropped until the last one is acknowledged.
TriggerExternalInterrupt0 ==
    IF 16 \in intrStatus \cup abusIntrsPendingAck
    THEN UNCHANGED <<intrStatus, abusIntrsPendingAck, pendingIntr>>
    ELSE UpdateMasterInterruptLevel(intrStatus \cup {16}, intrMask, abusMask, abusIntrsPendingAck)

\* The SH-2 takes the interrupt offered if its level is above the one it serves.
AcknowledgeExternalInterrupt ==
    /\ pendingIntr # None
    /\ Level[pendingIntr] > ServedLevel
    /\ handlers' = Append(handlers, pendingIntr)
    /\ pendingIntr' = None
    /\ intrMask' = Internal
    /\ abusMask' = TRUE
    /\ UNCHANGED <<intrStatus, abusIntrsPendingAck>>

\* Faulty: what the new mask lets through is not examined.
WriteIMSUnexamined(m) ==
    /\ intrMask' = m[1]
    /\ abusMask' = m[2]
    /\ UNCHANGED <<intrStatus, abusIntrsPendingAck, pendingIntr>>

WriteIMS(m) ==
    /\ intrMask' = m[1]
    /\ abusMask' = m[2]
    /\ UpdateMasterInterruptLevel(intrStatus, m[1], m[2], abusIntrsPendingAck)

\* Takes nothing back that is offered already.
WriteIST(s) ==
    /\ s \in intrStatus
    /\ intrStatus' = intrStatus \ {s}
    /\ UNCHANGED <<intrMask, abusMask, abusIntrsPendingAck, pendingIntr, handlers>>

WriteAIACK ==
    /\ UpdateMasterInterruptLevel(intrStatus, intrMask, abusMask, {})
    /\ UNCHANGED <<intrMask, abusMask>>

\* The end of a handler, and of the boot code: mask and return.
Leave(m) ==
    /\ WriteIMS(m)
    /\ handlers' = SubSeq(handlers, 1, Len(handlers) - 1)

\* A reset of the machine keeps what is latched.
ResetSCU ==
    /\ intrMask' = Internal
    /\ abusMask' = TRUE
    /\ abusIntrsPendingAck' = {}
    /\ pendingIntr' = None
    /\ handlers' = <<Boot>>
    /\ UNCHANGED intrStatus

InterruptsInit ==
    /\ intrStatus = {}
    /\ intrMask = Internal
    /\ abusMask = TRUE
    /\ abusIntrsPendingAck = {}
    /\ pendingIntr = None
    /\ handlers = <<Boot>>

-----------------------------------------------------------------------------
\* Once no handler is left, nothing the mask lets through waits in the status
\* register with no interrupt offered: no order of triggers, nested handlers,
\* mask writes and acknowledgements strands an interrupt (scu.cpp 576-625).
NothingLeftBehind ==
    handlers = <<>> /\ pendingIntr = None =>
        InternalBits(intrStatus, intrMask) \cup ExternalBits(intrStatus, abusMask) = {}
=============================================================================
