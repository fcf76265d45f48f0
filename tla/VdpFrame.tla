------------------------------ MODULE VdpFrame ------------------------------
(***************************************************************************)
(* The VDP's beam and the frame buffers of VDP1 (hw/vdp/vdp.cpp): a        *)
(* scheduler event walks through the phases of a line and of a frame; on   *)
(* fixed lines it raises the blanking signals, changes fields, and erases  *)
(* and swaps the frame buffers as the program has asked.  The program may  *)
(* write its registers at any time; the screen mode counts from the top    *)
(* border on.                                                              *)
(*                                                                         *)
(* The synchronization phase of a line, which does nothing, is part of     *)
(* the right border here.                                                  *)
(***************************************************************************)
EXTENDS Integers, Sequences

CONSTANTS
    Modes,       \* screen modes in use, the first after a reset: [timings, interlaced]
    ReadLead,    \* lines before VBlank of the optimized INTBACK read (16)
    Requests     \* what the program writes to FBCR: <<FCM, FCT>>

ASSUME FrameAssumption ==
    /\ 1 \in DOMAIN Modes
    /\ Requests \subseteq BOOLEAN \X BOOLEAN

\* What the tables of vdp.cpp have in common: the display is as long in both
\* fields, and longer than the lead; it ends above the phase that skips lines; the
\* last line is one line.
ASSUME TimingsAssumption ==
    /\ ReadLead \in Nat \ {0}
    /\ \A i \in DOMAIN Modes : \A field \in {0, 1} :
        LET ends == Modes[i].timings[field] IN
        /\ Len(ends) = 6
        /\ \A phase \in 1 .. 6 : ends[phase] \in Nat
        /\ ReadLead < ends[1] /\ ends[1] < ends[3]
        /\ ends[3] <= ends[4] /\ ends[4] <= ends[5]
        /\ ends[6] = ends[5] + 1
        /\ ends[1] = Modes[i].timings[0][1]

VARIABLES
    HPhase,          \* "Active", "RightBorder" or "LeftBorder"
    VPhase,          \* index of the vertical phase
    VCNT,            \* the line
    TVMD,            \* the mode register, an index of Modes
    TVMDDirty,
    mode,            \* the mode that m_VTimings is taken from
    ODD,             \* TVSTAT.ODD
    VTimingField,    \* m_VTimingField
    fb,              \* regs1: fbSwapMode, fbSwapTrigger, fbParamsChanged, vblankErase
    doDisplayErase, doVBlankErase,
    drawing,         \* m_VDP1CtlState.drawing
    plotOnSwap,      \* bit 1 of PTM
    clean,           \* the frame buffers' contents: nothing drawn since an erase
    lastDecision,    \* history: "cycle", "manual", or "none" since a reset
    seenLines,       \* history: optimized reads and VBlank-IN lines since VBlank OUT
    blanksAgain      \* history: since VBlank OUT a mode has come into force whose display
                     \* ends at or below the beam

frameVars == <<HPhase, VPhase, VCNT, TVMD, TVMDDirty, mode, ODD, VTimingField, fb, doDisplayErase,
               doVBlankErase, drawing, plotOnSwap, clean, lastDecision, seenLines, blanksAgain>>

beamVars == <<HPhase, VPhase, VCNT>>
modeVars == <<TVMD, TVMDDirty, mode>>
fieldVars == <<ODD, VTimingField>>
eraseVars == <<doDisplayErase, doVBlankErase>>
drawVars == <<drawing, plotOnSwap>>
frameHistory == <<lastDecision, seenLines, blanksAgain>>

Active == 1
BottomBorder == 2
BlankingAndSync == 3
VCounterSkip == 4
TopBorder == 5
LastLine == 6

\* Where each vertical phase ends, in the field given.
VTimings(m, field) == Modes[m].timings[field]

NothingSeen == [reads |-> 0, blanks |-> 0]

\* The loop of IncrementVCounter has come to its end.
Settled == VCNT < VTimings(mode, VTimingField)[VPhase]

\* The phase event: each enters the next phase of the line.
EnterHPhase(from, to) ==
    /\ Settled
    /\ HPhase = from
    /\ HPhase' = to

-----------------------------------------------------------------------------
BeginHPhaseActiveDisplay ==
    /\ EnterHPhase("LeftBorder", "Active")
    /\ seenLines' = IF VPhase = Active /\ VCNT = VTimings(mode, VTimingField)[Active] - ReadLead
                    THEN [seenLines EXCEPT !.reads = @ + 1] ELSE seenLines
    /\ UNCHANGED <<VPhase, VCNT, modeVars, fieldVars, fb, eraseVars, drawVars, clean, lastDecision,
                   blanksAgain>>

\* The line on which vertical blanking begins starts its erase and changes fields.
BeginHPhaseRightBorder ==
    /\ EnterHPhase("Active", "RightBorder")
    /\ IF VCNT = VTimings(mode, VTimingField)[Active]
       THEN /\ doVBlankErase' = fb.vblankErase
            /\ ODD' = (Modes[TVMD].interlaced => ~ODD)
            /\ VTimingField' = IF Modes[TVMD].interlaced THEN (IF ODD THEN 0 ELSE 1)
                               ELSE IF ~ODD THEN 0 ELSE VTimingField
            /\ seenLines' = [seenLines EXCEPT !.blanks = @ + 1]
       ELSE UNCHANGED <<doVBlankErase, fieldVars, seenLines>>
    /\ UNCHANGED <<VPhase, VCNT, modeVars, fb, doDisplayErase, drawVars, clean, lastDecision,
                   blanksAgain>>

\* VDP1 goes on drawing, in the other buffer, unless it is to start anew.
SwapFramebuffer(displayed) ==
    /\ clean' = [display |-> clean.draw, draw |-> displayed]
    /\ drawing' = (drawing \/ plotOnSwap)

\* Faulty: a request is taken up in manual mode only.
TakenUpManually == [fb EXCEPT !.changed = @ /\ ~fb.swapMode]

TakenUp == [fb EXCEPT !.changed = FALSE]

\* The end of the last line decides what becomes of the frame buffers; an erase
\* in vertical blanking may have had too little time to be complete.
DecideFramebuffers ==
    \E erased \in BOOLEAN :
        LET displayed == clean.display \/ (doVBlankErase /\ erased) IN
        /\ doDisplayErase' = (doDisplayErase \/ ~fb.swapMode \/ (fb.changed /\ ~fb.swapTrigger))
        /\ fb' = TakenUp
        /\ lastDecision' = IF fb.swapMode THEN "manual" ELSE "cycle"
        /\ IF ~fb.swapMode \/ (fb.changed /\ fb.swapTrigger)
           THEN SwapFramebuffer(displayed)
           ELSE clean' = [clean EXCEPT !.display = displayed] /\ UNCHANGED drawing

BeginHPhaseLeftBorder ==
    /\ EnterHPhase("RightBorder", "LeftBorder")
    /\ VCNT' = VCNT + 1
    /\ IF VPhase = LastLine THEN DecideFramebuffers
       ELSE UNCHANGED <<fb, doDisplayErase, drawing, clean, lastDecision>>
    /\ UNCHANGED <<VPhase, modeVars, fieldVars, doVBlankErase, plotOnSwap, seenLines, blanksAgain>>

-----------------------------------------------------------------------------
(* The loop of IncrementVCounter: the phases that end by the line reached. *)

EnterVPhase(from) ==
    /\ ~Settled
    /\ VPhase = from
    /\ VPhase' = IF from = LastLine THEN Active ELSE from + 1
    /\ VCNT' = IF from = LastLine THEN 0 ELSE VCNT
    /\ UNCHANGED <<HPhase, TVMD, ODD, fb, doVBlankErase, drawVars, lastDecision>>

BeginVPhaseBottomBorder ==
    /\ EnterVPhase(Active)
    /\ UNCHANGED <<TVMDDirty, mode, VTimingField, doDisplayErase, clean, seenLines, blanksAgain>>

\* Faulty: the erase put off is forgotten.
BeginVPhaseBlankingAndSyncUnerased ==
    /\ EnterVPhase(BottomBorder)
    /\ doDisplayErase' = FALSE
    /\ UNCHANGED <<TVMDDirty, mode, VTimingField, clean, seenLines, blanksAgain>>

BeginVPhaseBlankingAndSync ==
    /\ EnterVPhase(BottomBorder)
    /\ doDisplayErase' = FALSE
    /\ clean' = [clean EXCEPT !.display = @ \/ doDisplayErase]
    /\ UNCHANGED <<TVMDDirty, mode, VTimingField, seenLines, blanksAgain>>

BeginVPhaseVCounterSkip ==
    /\ EnterVPhase(BlankingAndSync)
    /\ UNCHANGED <<TVMDDirty, mode, VTimingField, doDisplayErase, clean, seenLines, blanksAgain>>

UpdateResolution ==
    /\ TVMDDirty' = FALSE
    /\ IF TVMDDirty
       THEN /\ mode' = TVMD
            /\ VTimingField' = IF Modes[TVMD].interlaced /\ ODD THEN 1 ELSE 0
       ELSE UNCHANGED <<mode, VTimingField>>

BeginVPhaseTopBorder ==
    /\ EnterVPhase(VCounterSkip)
    /\ UpdateResolution
    /\ blanksAgain' = (TVMDDirty /\ VCNT <= VTimings(TVMD, VTimingField)[Active])
    /\ UNCHANGED <<doDisplayErase, clean, seenLines>>

\* VBlank OUT.
BeginVPhaseLastLine ==
    /\ EnterVPhase(TopBorder)
    /\ seenLines' = NothingSeen
    /\ blanksAgain' = FALSE
    /\ UNCHANGED <<TVMDDirty, mode, VTimingField, doDisplayErase, clean>>

BeginVPhaseActiveDisplay ==
    /\ EnterVPhase(LastLine)
    /\ UNCHANGED <<TVMDDirty, mode, VTimingField, doDisplayErase, clean, seenLines, blanksAgain>>

-----------------------------------------------------------------------------
(* The program. *)

\* Faulty: the mode counts at once.
WriteTVMDAtOnce(m) ==
    /\ Settled
    /\ m # TVMD
    /\ TVMD' = m
    /\ mode' = m
    /\ UNCHANGED <<beamVars, TVMDDirty, fieldVars, fb, eraseVars, drawVars, clean, frameHistory>>

WriteTVMD(m) ==
    /\ Settled
    /\ m # TVMD
    /\ TVMD' = m
    /\ TVMDDirty' = TRUE
    /\ UNCHANGED <<beamVars, mode, fieldVars, fb, eraseVars, drawVars, clean, frameHistory>>

WriteFBCR(request) ==
    /\ Settled
    /\ fb' = [fb EXCEPT !.swapMode = request[1], !.swapTrigger = request[2], !.changed = TRUE]
    /\ UNCHANGED <<beamVars, modeVars, fieldVars, eraseVars, drawVars, clean, frameHistory>>

WriteTVMR(erase) ==
    /\ Settled
    /\ fb' = [fb EXCEPT !.vblankErase = erase]
    /\ UNCHANGED <<beamVars, modeVars, fieldVars, eraseVars, drawVars, clean, frameHistory>>

\* PTM = 1 draws at once.
WritePTMR(ptm) ==
    /\ Settled
    /\ plotOnSwap' = (ptm = 2)
    /\ drawing' = (drawing \/ ptm = 1)
    /\ UNCHANGED <<beamVars, modeVars, fieldVars, fb, eraseVars, clean, frameHistory>>

\* A command is drawn; the last one, or the program by ENDR, ends the drawing.
ProcessDrawing ==
    /\ Settled
    /\ drawing
    /\ \/ clean' = [clean EXCEPT !.draw = FALSE] /\ UNCHANGED drawing
       \/ drawing' = FALSE /\ UNCHANGED clean
    /\ UNCHANGED <<beamVars, modeVars, fieldVars, fb, eraseVars, plotOnSwap, frameHistory>>

\* A state loaded where it was saved: ODD is saved inverted in interlaced modes.
\* (A mode waiting for the top border would come into force in the middle of the
\* frame; states are saved without one here.)
ReloadState ==
    /\ Settled
    /\ ~TVMDDirty
    /\ ODD' = (Modes[TVMD].interlaced # ODD)
    /\ UNCHANGED <<beamVars, modeVars, VTimingField, fb, eraseVars, drawVars, clean, lastDecision,
                   seenLines, blanksAgain>>

\* A hard reset clears the frame buffers as well.
ResetVDP(hard) ==
    /\ Settled
    /\ HPhase' = "Active"
    /\ VPhase' = Active
    /\ VCNT' = 0
    /\ TVMD' = 1
    /\ TVMDDirty' = FALSE
    /\ mode' = 1
    /\ ODD' = FALSE
    /\ VTimingField' = 0
    /\ fb' = [swapMode |-> FALSE, swapTrigger |-> FALSE, changed |-> FALSE, vblankErase |-> FALSE]
    /\ doDisplayErase' = FALSE
    /\ doVBlankErase' = FALSE
    /\ drawing' = FALSE
    /\ plotOnSwap' = FALSE
    /\ clean' = IF hard THEN [display |-> TRUE, draw |-> TRUE] ELSE clean
    /\ lastDecision' = "none"
    /\ seenLines' = NothingSeen
    /\ blanksAgain' = FALSE

FrameInit ==
    /\ HPhase = "Active"
    /\ VPhase = Active
    /\ VCNT = 0
    /\ TVMD = 1
    /\ TVMDDirty = FALSE
    /\ mode = 1
    /\ ODD = FALSE
    /\ VTimingField = 0
    /\ fb = [swapMode |-> FALSE, swapTrigger |-> FALSE, changed |-> FALSE, vblankErase |-> FALSE]
    /\ doDisplayErase = FALSE
    /\ doVBlankErase = FALSE
    /\ drawing = FALSE
    /\ plotOnSwap = FALSE
    /\ clean = [display |-> TRUE, draw |-> TRUE]
    /\ lastDecision = "none"
    /\ seenLines = NothingSeen
    /\ blanksAgain = FALSE

UpdatePhase ==
    \/ BeginHPhaseActiveDisplay
    \/ BeginHPhaseRightBorder
    \/ BeginHPhaseLeftBorder
    \/ BeginVPhaseBottomBorder
    \/ BeginVPhaseBlankingAndSync
    \/ BeginVPhaseVCounterSkip
    \/ BeginVPhaseTopBorder
    \/ BeginVPhaseLastLine
    \/ BeginVPhaseActiveDisplay

FrameNext ==
    \/ UpdatePhase
    \/ \E m \in DOMAIN Modes : WriteTVMD(m)
    \/ \E request \in Requests : WriteFBCR(request)
    \/ \E erase \in BOOLEAN : WriteTVMR(erase)
    \/ \E ptm \in 0 .. 2 : WritePTMR(ptm)
    \/ ProcessDrawing
    \/ ReloadState
    \/ \E hard \in BOOLEAN : ResetVDP(hard)

\* The scheduler fires the phase event for ever.
FrameSpec == FrameInit /\ [][FrameNext]_frameVars /\ WF_frameVars(UpdatePhase)

-----------------------------------------------------------------------------
\* From one VBlank OUT to the next the optimized INTBACK read is triggered once
\* and one line begins vertical blanking: neither is missed, or done twice, when
\* the mode or the field changes under the counter (vdp.cpp 754, 779, 796).  Where
\* a mode comes into force whose display ends at or below the beam, and only there,
\* the line of vertical blanking is done a second time: in the top border, although
\* the comment there has it enter the bottom blanking (vdp.cpp 801).
OncePerFrame ==
    [][VPhase = TopBorder /\ VPhase' = LastLine
          => seenLines = [reads |-> 1, blanks |-> IF blanksAgain THEN 2 ELSE 1]]_frameVars

\* In 1-cycle mode VDP1 starts on an erased buffer in every frame after the
\* first: the erase put off to the display period is never lost, nor late for
\* the swap (vdp.cpp 835-864, 905).
DrawsOnErased ==
    [][lastDecision = "cycle" /\ ~fb.swapMode /\ VPhase = LastLine /\ HPhase' = "LeftBorder" /\ HPhase = "RightBorder"
          => clean'.draw]_frameVars

\* What the program asks of FBCR is taken up, though a change of mode in the top
\* border can take the counter past the last line.
RequestTakenUp == fb.changed ~> ~fb.changed
=============================================================================
