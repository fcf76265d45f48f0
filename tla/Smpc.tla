-------------------------------- MODULE Smpc --------------------------------
(***************************************************************************)
(* The SMPC's commands (hw/smpc/smpc.cpp): the host sets the flag SF,      *)
(* writes a command to COMREG and waits for SF to fall.  INTBACK reports   *)
(* in two parts: status first, and the peripherals when the host asks to   *)
(* continue; the VDP's beam triggers the optimized read and times a        *)
(* pending INTBACK out.  One scheduler event serves commands, continue     *)
(* requests and breaks.                                                    *)
(*                                                                         *)
(* All peripherals of the code fit in one report of 32 bytes.              *)
(***************************************************************************)
EXTENDS Integers

CONSTANTS
    Commands,   \* commands in use: "INTBACK", "SYSRES", and others by name
    MaxRequests \* where the count of requests saturates

ASSUME SmpcAssumption == MaxRequests \in Nat \ {0}

VARIABLES
    SF,                \* the host's busy flag
    COMREG,            \* the last command accepted; "None" after a reset
    IREG,              \* IREG[0] and IREG[1] as INTBACK reads them
    NPE,               \* SR.NPE: more peripheral data to come
    intbackInProgress, \* m_intbackInProgress
    optimize,          \* m_optimize
    getPeripheralData, \* m_getPeripheralData
    callback,          \* of the command event: "command" or "break"
    commandEvent,      \* "none", "later", or "now" (an interval of 0)
    beam,              \* where the VDP is: before or after the optimized read's line
    host,              \* what the host is doing (environment)
    wanted,            \* the command the host waits for
    executed,          \* history: it has been processed
    brokenOff,         \* history: an INTBACK has been broken off next to it
    requests           \* history: INTBACK requests less SMPC interrupts

smpcVars == <<SF, COMREG, IREG, NPE, intbackInProgress, optimize, getPeripheralData, callback,
              commandEvent, beam, host, wanted, executed, brokenOff, requests>>

intbackVars == <<NPE, intbackInProgress, optimize, getPeripheralData>>
hostVars == <<host, wanted, executed, brokenOff>>

\* getStatus, OPE = 0, PEN
Parameters == [status : BOOLEAN, optimize : BOOLEAN, peripherals : BOOLEAN]

NoParameters == [status |-> FALSE, optimize |-> TRUE, peripherals |-> FALSE]

\* An event with an interval of 0 runs before anything else happens.
Quiet == commandEvent # "now"

Asked(c) == IF c = "INTBACK" /\ requests < MaxRequests THEN requests + 1 ELSE requests

-----------------------------------------------------------------------------
(* The host: it starts a command when SF is clear and no report is pending,  *)
(* and looks at nothing but SF until the command is done.                    *)

WriteSF ==
    /\ Quiet
    /\ host = "free"
    /\ ~SF
    /\ ~intbackInProgress
    /\ SF' = TRUE
    /\ host' = "flagged"
    /\ UNCHANGED <<COMREG, IREG, intbackVars, callback, commandEvent, beam, wanted, executed,
                   brokenOff, requests>>

\* A command is ignored while the command event is scheduled.
WriteCOMREG(c, parameters) ==
    /\ Quiet
    /\ host = "flagged"
    /\ IREG' = parameters
    /\ host' = "waiting"
    /\ wanted' = c
    /\ executed' = FALSE
    /\ IF commandEvent = "none"
       THEN /\ COMREG' = c
            /\ commandEvent' = "later"
            /\ requests' = Asked(c)
       ELSE UNCHANGED <<COMREG, commandEvent, requests>>
    /\ UNCHANGED <<SF, intbackVars, callback, beam, brokenOff>>

\* No event is left over, and a continue would go on with an INTBACK.
InStep == commandEvent = "none" /\ (intbackInProgress => COMREG = "INTBACK")

\* The host finds SF clear.
SeeDone ==
    /\ Quiet
    /\ host = "waiting"
    /\ ~SF
    /\ host' = "free"
    /\ wanted' = "None"
    /\ brokenOff' = (brokenOff /\ ~InStep)
    /\ requests' = IF commandEvent = "none" THEN 0 ELSE requests
    /\ UNCHANGED <<SF, COMREG, IREG, intbackVars, callback, commandEvent, beam, executed>>

\* IREG0 bit 7: SF rises by itself; an optimized read waits for the beam.
WriteContinue ==
    /\ Quiet
    /\ host = "free"
    /\ intbackInProgress
    /\ IREG' = [IREG EXCEPT !.status = FALSE]
    /\ SF' = TRUE
    /\ commandEvent' = IF optimize THEN commandEvent ELSE "later"
    /\ host' = "waiting"
    /\ wanted' = "INTBACK"
    /\ executed' = FALSE
    /\ requests' = Asked("INTBACK")
    /\ UNCHANGED <<COMREG, intbackVars, callback, beam, brokenOff>>

\* IREG0 bit 6.
WriteBreak ==
    /\ Quiet
    /\ host = "free"
    /\ intbackInProgress
    /\ IREG' = [IREG EXCEPT !.status = FALSE]
    /\ callback' = "break"
    /\ commandEvent' = "later"
    /\ brokenOff' = TRUE
    /\ UNCHANGED <<SF, COMREG, intbackVars, beam, host, wanted, executed, requests>>

-----------------------------------------------------------------------------
(* The SMPC. *)

\* The rest of the peripherals, or all of them: the report always ends.
WritePeripheralReport ==
    /\ intbackInProgress' = FALSE
    /\ NPE' = FALSE
    /\ optimize' = FALSE
    /\ UNCHANGED getPeripheralData

BeginIntback ==
    /\ getPeripheralData' = IREG.peripherals
    /\ IF IREG.peripherals /\ ~IREG.status
       THEN intbackInProgress' = FALSE /\ NPE' = FALSE /\ optimize' = FALSE
       ELSE /\ intbackInProgress' = IREG.peripherals
            /\ NPE' = IF IREG.status THEN IREG.peripherals ELSE NPE
            /\ optimize' = IREG.optimize

ResetMembers ==
    /\ SF' = FALSE
    /\ COMREG' = "None"
    /\ IREG' = NoParameters
    /\ NPE' = FALSE
    /\ intbackInProgress' = FALSE
    /\ optimize' = FALSE
    /\ getPeripheralData' = FALSE
    /\ commandEvent' = "none"

\* One command, and the interrupt that ends an INTBACK; SYSRES resets the
\* SMPC with the system, and the host.
SMPCProcessCommand ==
    /\ commandEvent # "none"
    /\ callback = "command"
    /\ commandEvent' = "none"
    /\ IF COMREG = "SYSRES"
       THEN /\ ResetMembers
            /\ host' = "free"
            /\ wanted' = "None"
            /\ executed' = TRUE
            /\ requests' = 0
       ELSE /\ SF' = FALSE
            /\ executed' = (executed \/ wanted = COMREG)
            /\ IF COMREG = "INTBACK"
               THEN /\ IF intbackInProgress THEN WritePeripheralReport ELSE BeginIntback
                    /\ requests' = requests - 1
               ELSE UNCHANGED <<intbackVars, requests>>
            /\ UNCHANGED <<COMREG, IREG, host, wanted>>
    /\ UNCHANGED <<callback, beam, brokenOff>>

\* Faulty: SR.NPE is left.
INTBACKBreakNPE ==
    /\ intbackInProgress' = FALSE
    /\ SF' = FALSE
    /\ UNCHANGED <<NPE, optimize, getPeripheralData>>

\* Faulty: SF is left.
INTBACKBreakSF ==
    /\ intbackInProgress' = FALSE
    /\ NPE' = FALSE
    /\ UNCHANGED <<SF, optimize, getPeripheralData>>

INTBACKBreak ==
    /\ intbackInProgress' = FALSE
    /\ NPE' = FALSE
    /\ SF' = FALSE
    /\ UNCHANGED <<optimize, getPeripheralData>>

\* Faulty: the event goes on calling the break.
OnINTBACKBreakEventKept ==
    /\ commandEvent # "none"
    /\ callback = "break"
    /\ commandEvent' = "none"
    /\ INTBACKBreak
    /\ UNCHANGED <<COMREG, IREG, callback, beam, host, wanted, executed, brokenOff, requests>>

OnINTBACKBreakEvent ==
    /\ commandEvent # "none"
    /\ callback = "break"
    /\ commandEvent' = "none"
    /\ callback' = "command"
    /\ INTBACKBreak
    /\ UNCHANGED <<COMREG, IREG, beam, host, wanted, executed, brokenOff, requests>>

CommandEvent == SMPCProcessCommand \/ OnINTBACKBreakEvent

\* Faulty: the host need not have asked to continue.
OptimizedReadDueUnasked == optimize /\ intbackInProgress /\ getPeripheralData

OptimizedReadDue == optimize /\ SF /\ intbackInProgress /\ getPeripheralData

\* Sixteen lines before VBlank.
TriggerOptimizedINTBACKRead ==
    /\ Quiet
    /\ beam = "display"
    /\ beam' = "late"
    /\ optimize' = FALSE
    /\ commandEvent' = IF OptimizedReadDue THEN "now" ELSE commandEvent
    /\ UNCHANGED <<SF, COMREG, IREG, NPE, intbackInProgress, getPeripheralData, callback, hostVars, requests>>

\* An INTBACK in progress times out; its event, if any, stays scheduled.
TriggerVBlankIN ==
    /\ Quiet
    /\ beam = "late"
    /\ beam' = "display"
    /\ IF intbackInProgress
       THEN INTBACKBreak /\ brokenOff' = TRUE
       ELSE UNCHANGED <<SF, intbackVars, brokenOff>>
    /\ UNCHANGED <<COMREG, IREG, callback, commandEvent, host, wanted, executed, requests>>

\* The user's reset: the callback stays what it was.
ResetSMPC ==
    /\ Quiet
    /\ ResetMembers
    /\ host' = "free"
    /\ wanted' = "None"
    /\ requests' = 0
    /\ UNCHANGED <<callback, beam, executed, brokenOff>>

SmpcInit ==
    /\ SF = FALSE
    /\ COMREG = "None"
    /\ IREG = NoParameters
    /\ NPE = FALSE
    /\ intbackInProgress = FALSE
    /\ optimize = FALSE
    /\ getPeripheralData = FALSE
    /\ callback = "command"
    /\ commandEvent = "none"
    /\ beam = "display"
    /\ host = "free"
    /\ wanted = "None"
    /\ executed = FALSE
    /\ brokenOff = FALSE
    /\ requests = 0

Beam == TriggerOptimizedINTBACKRead \/ TriggerVBlankIN

HostWriteCOMREG == \E c \in Commands, p \in Parameters : (c # "INTBACK" => p = IREG) /\ WriteCOMREG(c, p)

SmpcNext ==
    \/ WriteSF
    \/ HostWriteCOMREG
    \/ SeeDone
    \/ WriteContinue
    \/ WriteBreak
    \/ CommandEvent
    \/ Beam
    \/ ResetSMPC

\* The scheduler fires the event, the VDP draws frame after frame, and a host
\* that has set SF writes its command.
SmpcFairness ==
    /\ WF_smpcVars(CommandEvent)
    /\ WF_smpcVars(Beam)
    /\ WF_smpcVars(HostWriteCOMREG)

SmpcSpec == SmpcInit /\ [][SmpcNext]_smpcVars /\ SmpcFairness

-----------------------------------------------------------------------------
\* SR.NPE tells the host whether there is a report left to ask for, through
\* continues, breaks, time-outs and resets (smpc.cpp 612, 717, 839).
MoreDataIsTrue == NPE <=> intbackInProgress

\* SF falls without the command processed only next to an INTBACK that was
\* broken off: by VBlank while a continue was under way, or by the host, whose
\* break event takes the place of the command's.
LostOnlyToBreak == host = "waiting" /\ ~SF => executed \/ brokenOff

\* Every SMPC interrupt answers an INTBACK or continue request of its own.
InterruptsAsked == requests >= 0

\* SF is always released: no break, time-out, ignored command or reset leaves
\* the host waiting.
FlagReleased == SF ~> ~SF
=============================================================================
