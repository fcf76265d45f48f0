----------------------------- MODULE CDHostPort -----------------------------
(***************************************************************************)
(* The CD block's host interface (hw/cdblock/cdblock.cpp) joined to the    *)
(* SCU's interrupts: a program on the SH-2 writes a command word by word,  *)
(* waits for CMOK and reads the response word by word, while the drive     *)
(* reports into the same registers and raises flags of HIRQ that interrupt *)
(* the program.                                                            *)
(*                                                                         *)
(* The program is orderly: it does not write a command before it has given *)
(* the last one up, and its handler clears the flags it has seen.  What a  *)
(* command does is in CDTransfer, CDSelector and CDDrive.                  *)
(***************************************************************************)
EXTENDS ScuInterrupts

CONSTANTS
    HirqMasks,       \* what the program writes to HIRQMASK
    AcknowledgeFirst \* the handler writes AIACK before it reads HIRQ

VARIABLES
    HIRQ,                    \* m_HIRQ
    HIRQMASK,                \* m_HIRQMASK
    RR,                      \* what the response registers hold
    commandDue,              \* the command event is scheduled
    processingCommand,       \* m_processingCommand
    readyForPeriodicReports, \* m_readyForPeriodicReports
    program,                 \* what the program is at, and its next word
    sent,                    \* the kind of command it has written
    stage,                   \* how far the external interrupt's handler is
    seen                     \* the flags it has read

portVars == <<HIRQ, HIRQMASK, RR, commandDue, processingCommand, readyForPeriodicReports, program,
              sent, stage, seen>>
hostPortVars == <<portVars, interruptVars>>

Flags == {"CMOK", "CSCT", "SCDQ"}
CommandKinds == {"implemented", "unknown"}

Idle == [at |-> "idle", word |-> 0]
Starting == [at |-> "boot", word |-> 0]

\* The main program runs when no handler does.
InProgram == handlers = <<>>
InCDHandler == handlers # <<>> /\ handlers[Len(handlers)] = 16

\* Faulty: only the first of several flags asks for an interrupt.
UpdateInterruptsOnEdge ==
    /\ IF HIRQ' \cap HIRQMASK' # {} /\ HIRQ \cap HIRQMASK = {}
       THEN TriggerExternalInterrupt0
       ELSE UNCHANGED <<intrStatus, abusIntrsPendingAck, pendingIntr>>
    /\ UNCHANGED <<intrMask, abusMask, handlers>>

UpdateInterrupts ==
    /\ IF HIRQ' \cap HIRQMASK' # {}
       THEN TriggerExternalInterrupt0
       ELSE UNCHANGED <<intrStatus, abusIntrsPendingAck, pendingIntr>>
    /\ UNCHANGED <<intrMask, abusMask, handlers>>

SetInterrupt(bits) ==
    /\ HIRQ' = HIRQ \cup bits
    /\ UNCHANGED HIRQMASK
    /\ UpdateInterrupts

\* Faulty: ones set flags.
WriteHIRQAssigned(value) ==
    /\ HIRQ' = value
    /\ UNCHANGED HIRQMASK
    /\ UpdateInterrupts

WriteHIRQ(value) ==
    /\ HIRQ' = HIRQ \cap value
    /\ UNCHANGED HIRQMASK
    /\ UpdateInterrupts

-----------------------------------------------------------------------------
(* The program. *)

\* Also what a program begins with.
WriteHIRQMASK(value) ==
    /\ InProgram
    /\ program.at \in {"boot", "idle"}
    /\ HIRQMASK' = value
    /\ UNCHANGED HIRQ
    /\ UpdateInterrupts
    /\ program' = Idle
    /\ UNCHANGED <<RR, commandDue, processingCommand, readyForPeriodicReports, sent, stage, seen>>

\* Clears CMOK before a command.
Prepare(kind) ==
    /\ InProgram
    /\ program = Idle
    /\ WriteHIRQ(Flags \ {"CMOK"})
    /\ program' = [at |-> "write", word |-> 0]
    /\ sent' = kind
    /\ UNCHANGED <<RR, commandDue, processingCommand, readyForPeriodicReports, stage, seen>>

\* CR0 starts a command for the periodic reports, CR3 schedules it.
WriteCR ==
    /\ InProgram
    /\ program.at = "write"
    /\ processingCommand' = (processingCommand \/ program.word = 0)
    /\ commandDue' = (commandDue \/ program.word = 3)
    /\ program' = IF program.word = 3 THEN [at |-> "wait", word |-> 0]
                  ELSE [program EXCEPT !.word = @ + 1]
    /\ UNCHANGED <<HIRQ, HIRQMASK, RR, readyForPeriodicReports, sent, stage, seen, interruptVars>>

\* With CMOK the response is there; a command that gets no answer is given up.
SeeAnswer ==
    /\ InProgram
    /\ program.at = "wait"
    /\ \/ "CMOK" \in HIRQ /\ program' = [at |-> "read", word |-> 0]
       \/ ~commandDue /\ program' = Idle
    /\ UNCHANGED <<HIRQ, HIRQMASK, RR, commandDue, processingCommand, readyForPeriodicReports, sent,
                   stage, seen, interruptVars>>

\* The status may be read at any time, without a command.
StartPoll ==
    /\ InProgram
    /\ program = Idle
    /\ program' = [at |-> "poll", word |-> 0]
    /\ UNCHANGED <<HIRQ, HIRQMASK, RR, commandDue, processingCommand, readyForPeriodicReports, sent,
                   stage, seen, interruptVars>>

\* RR3 ends the command and lets reports through.
ReadRR ==
    /\ InProgram
    /\ program.at \in {"read", "poll"}
    /\ IF program.word = 3
       THEN processingCommand' = FALSE /\ readyForPeriodicReports' = TRUE /\ program' = Idle
       ELSE /\ program' = [program EXCEPT !.word = @ + 1]
            /\ UNCHANGED <<processingCommand, readyForPeriodicReports>>
    /\ UNCHANGED <<HIRQ, HIRQMASK, RR, commandDue, sent, stage, seen, interruptVars>>

\* The handler acknowledges, reads HIRQ and clears what it has seen.
HandlerAcknowledge ==
    /\ InCDHandler
    /\ stage = IF AcknowledgeFirst THEN 0 ELSE 2
    /\ stage' = stage + 1
    /\ WriteAIACK
    /\ UNCHANGED <<HIRQ, HIRQMASK, RR, commandDue, processingCommand, readyForPeriodicReports,
                   program, sent, seen, handlers>>

HandlerRead ==
    /\ InCDHandler
    /\ stage = IF AcknowledgeFirst THEN 1 ELSE 0
    /\ stage' = stage + 1
    /\ seen' = HIRQ \cap HIRQMASK
    /\ UNCHANGED <<HIRQ, HIRQMASK, RR, commandDue, processingCommand, readyForPeriodicReports,
                   program, sent, interruptVars>>

HandlerClear ==
    /\ InCDHandler
    /\ stage = IF AcknowledgeFirst THEN 2 ELSE 1
    /\ stage' = stage + 1
    /\ WriteHIRQ(Flags \ seen)
    /\ seen' = {}
    /\ UNCHANGED <<RR, commandDue, processingCommand, readyForPeriodicReports, program, sent>>

\* Every handler, and the boot code, leaves with a mask; the boot code takes
\* longer than a command.
HandlerLeave(m) ==
    /\ handlers # <<>>
    /\ InCDHandler => stage = 3
    /\ handlers = <<Boot>> => ~commandDue
    /\ Leave(m)
    /\ stage' = IF InCDHandler THEN 0 ELSE stage
    /\ UNCHANGED <<HIRQ, HIRQMASK, RR, commandDue, processingCommand, readyForPeriodicReports,
                   program, sent, seen>>

-----------------------------------------------------------------------------
(* The CD block. *)

\* A command that is not implemented leaves no response and no CMOK.
ProcessCommand ==
    /\ commandDue
    /\ commandDue' = FALSE
    /\ IF sent = "implemented"
       THEN RR' = "response" /\ SetInterrupt({"CMOK"})
       ELSE UNCHANGED <<RR, HIRQ, HIRQMASK, interruptVars>>
    /\ UNCHANGED <<processingCommand, readyForPeriodicReports, program, sent, stage, seen>>

\* Faulty: also while a command is written or its response is read.
ReportDueAlways == readyForPeriodicReports

ReportDue == readyForPeriodicReports /\ ~processingCommand

PeriodicReport ==
    /\ ReportDue
    /\ RR' = "report"
    /\ SetInterrupt({"SCDQ"})
    /\ UNCHANGED <<commandDue, processingCommand, readyForPeriodicReports, program, sent, stage, seen>>

\* The drive's other flags stand for themselves in CSCT.
ReadSectorFlag ==
    /\ SetInterrupt({"CSCT"})
    /\ UNCHANGED <<RR, commandDue, processingCommand, readyForPeriodicReports, program, sent, stage, seen>>

\* The scheduled command survives a soft reset, as a command 0.
ResetPort(hard) ==
    /\ ResetSCU
    /\ RR' = "none"
    /\ HIRQ' = IF hard THEN {"CMOK"} ELSE HIRQ
    /\ HIRQMASK' = IF hard THEN {} ELSE HIRQMASK
    /\ commandDue' = (commandDue /\ ~hard)
    /\ processingCommand' = FALSE
    /\ readyForPeriodicReports' = FALSE
    /\ program' = Starting
    /\ sent' = "implemented"
    /\ stage' = 0
    /\ seen' = {}

HostPortInit ==
    /\ InterruptsInit
    /\ HIRQ = {"CMOK"}
    /\ HIRQMASK = {}
    /\ RR = "none"
    /\ commandDue = FALSE
    /\ processingCommand = FALSE
    /\ readyForPeriodicReports = FALSE
    /\ program = Starting
    /\ sent = "implemented"
    /\ stage = 0
    /\ seen = {}

InterruptStep ==
    /\ \/ \E s \in Internal : Trigger(s) \/ WriteIST(s)
       \/ AcknowledgeExternalInterrupt
    /\ UNCHANGED portVars

ProgramMask == InProgram /\ (\E m \in Masks : WriteIMS(m)) /\ UNCHANGED <<handlers, portVars>>

HostPortNext ==
    \/ InterruptStep
    \/ ProgramMask
    \/ \E value \in HirqMasks : WriteHIRQMASK(value)
    \/ \E kind \in CommandKinds : Prepare(kind)
    \/ WriteCR
    \/ SeeAnswer
    \/ StartPoll
    \/ ReadRR
    \/ HandlerAcknowledge
    \/ HandlerRead
    \/ HandlerClear
    \/ \E m \in Masks : HandlerLeave(m)
    \/ ProcessCommand
    \/ PeriodicReport
    \/ ReadSectorFlag
    \/ \E hard \in BOOLEAN : ResetPort(hard)

HostPortSpec == HostPortInit /\ [][HostPortNext]_hostPortVars

-----------------------------------------------------------------------------
\* A response read word by word is the answer to the program's own command:
\* no report, and no other answer, gets in between (cdblock.cpp 572, 606, 1019).
ResponseIntact == program.at = "read" => RR = "response"

\* CMOK, while the program waits for it, means that its command was processed,
\* not an earlier one and not one left over from before a reset.
AnswerIsOwn == program.at = "wait" /\ "CMOK" \in HIRQ => ~commandDue /\ sent = "implemented"

\* A flag of HIRQ that the mask lets through has an interrupt on its way, or a
\* handler that still has to look, however flags, acknowledgements and nested
\* handlers interleave (cdblock.cpp 1217-1227, scu.cpp 304-323).
FlagInterrupts ==
    HIRQ \cap HIRQMASK # {} /\ program # Starting =>
        \/ pendingIntr = 16
        \/ 16 \in intrStatus
        \/ 16 \in {handlers[i] : i \in DOMAIN handlers} /\ stage < 3
=============================================================================
