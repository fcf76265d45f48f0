---------------------------- MODULE ScreenProofs ----------------------------
(***************************************************************************)
(* Three components that meet in MCScreen: the frame of the VDP, the page  *)
(* that keeps the backup memory, and the sound of the page.                *)
(***************************************************************************)
EXTENDS VdpFrame, WebShell, WebAudio, NaturalLemmas, SequenceTheorems, TLAPS

-----------------------------------------------------------------------------
(***************************************************************************)
(* The frame of the VDP for every set of screen modes and whatever the     *)
(* program writes when: the lines seen from VBlank to VBlank, and the      *)
(* erased buffer that 1-cycle mode draws on.  The assumption is that of    *)
(* VdpFrame on the timing tables.                                          *)
(***************************************************************************)
Ends == VTimings(mode, VTimingField)

FrameTypeOK ==
    /\ HPhase \in {"Active", "RightBorder", "LeftBorder"}
    /\ VPhase \in 1 .. 6
    /\ VCNT \in Nat
    /\ TVMD \in DOMAIN Modes /\ mode \in DOMAIN Modes
    /\ VTimingField \in {0, 1}
    /\ fb \in [swapMode : BOOLEAN, swapTrigger : BOOLEAN, changed : BOOLEAN, vblankErase : BOOLEAN]
    /\ doDisplayErase \in BOOLEAN
    /\ clean \in [display : BOOLEAN, draw : BOOLEAN]
    /\ seenLines \in [reads : Nat, blanks : Nat]
    /\ blanksAgain \in BOOLEAN

\* The counter: the display is left at its end, in the left border, and so is each
\* phase after it below the line of vertical blanking; the last line is not reached
\* before the top border ends.
LineInv ==
    /\ VPhase = Active => VCNT <= Ends[Active]
    /\ VPhase = Active /\ VCNT = Ends[Active] => HPhase = "LeftBorder"
    /\ VPhase = VCounterSkip => VCNT > Ends[Active]
    /\ VPhase \in BottomBorder .. VCounterSkip /\ VCNT > Ends[Active] /\ VCNT >= Ends[VPhase]
          => HPhase = "LeftBorder"
    /\ VPhase = LastLine => VCNT >= Ends[TopBorder]

\* Lines of vertical blanking behind the beam: of the mode before, and of this one.
BlanksBefore == IF blanksAgain THEN 1 ELSE 0
BlanksBehind ==
    IF VCNT > Ends[Active] \/ (VCNT = Ends[Active] /\ HPhase = "RightBorder") THEN 1 ELSE 0

\* The lines seen since VBlank OUT, from where the beam is.
SeenInv ==
    /\ VPhase # TopBorder => BlanksBefore = 0
    /\ VPhase = LastLine => seenLines = NothingSeen
    /\ VPhase = Active =>
        /\ seenLines.blanks = 0
        /\ seenLines.reads = IF \/ VCNT > Ends[Active] - ReadLead
                                \/ VCNT = Ends[Active] - ReadLead /\ HPhase # "LeftBorder"
                             THEN 1 ELSE 0
    /\ VPhase \in BottomBorder .. TopBorder =>
        /\ seenLines.reads = 1
        /\ VPhase # TopBorder => VCNT >= Ends[Active]
        /\ seenLines.blanks = BlanksBefore + BlanksBehind

\* After a swap of 1-cycle mode, the buffer displayed is erased or will be at
\* the bottom of the display, which comes before the last line.
EraseInv ==
    lastDecision = "cycle" =>
        /\ clean.display \/ doDisplayErase
        /\ VPhase \in BlankingAndSync .. TopBorder => clean.display
        /\ VPhase = LastLine /\ VCNT < Ends[LastLine] => clean.display

FrameInv == FrameTypeOK /\ LineInv /\ SeenInv /\ EraseInv

-----------------------------------------------------------------------------
LEMMA Phases ==
  /\ Active = 1 /\ BottomBorder = 2 /\ BlankingAndSync = 3 /\ VCounterSkip = 4
  /\ TopBorder = 5 /\ LastLine = 6
BY DEF Active, BottomBorder, BlankingAndSync, VCounterSkip, TopBorder, LastLine

\* The timings of a mode, in either field.
LEMMA Timings ==
  ASSUME NEW m \in DOMAIN Modes, NEW f \in {0, 1}
  PROVE  LET ends == VTimings(m, f) IN
         /\ \A phase \in 1 .. 6 : ends[phase] \in Nat
         /\ ReadLead \in Nat /\ 0 < ReadLead /\ ReadLead < ends[Active]
         /\ ends[Active] < ends[BlankingAndSync] /\ ends[Active] < ends[VCounterSkip]
         /\ ends[Active] < ends[TopBorder] /\ ends[LastLine] = ends[TopBorder] + 1
         /\ ends[Active] = VTimings(m, 0)[Active]
BY TimingsAssumption, Phases DEF VTimings

LEMMA BlanksBeforeValue ==
  /\ BlanksBefore \in {0, 1}
  /\ blanksAgain => BlanksBefore = 1
  /\ ~blanksAgain => BlanksBefore = 0
BY DEF BlanksBefore

LEMMA FrameInitInv == FrameInit => FrameInv
<1> SUFFICES ASSUME FrameInit PROVE FrameInv
  OBVIOUS
<1>1. FrameTypeOK
  <2>1. VPhase \in 1 .. 6 /\ VCNT \in Nat /\ seenLines \in [reads : Nat, blanks : Nat]
    BY Phases DEF FrameInit, NothingSeen
  <2>2. /\ fb \in [swapMode : BOOLEAN, swapTrigger : BOOLEAN, changed : BOOLEAN, vblankErase : BOOLEAN]
        /\ clean \in [display : BOOLEAN, draw : BOOLEAN]
    BY DEF FrameInit
  <2>3. QED
    BY <2>1, <2>2, FrameAssumption DEF FrameInit, FrameTypeOK
<1>2. LineInv
  BY <1>1, Phases, Timings DEF FrameInit, FrameTypeOK, LineInv, Ends
<1>3. SeenInv
  <2>1. 0 < Ends[Active] - ReadLead
    BY <1>1, Phases, Timings DEF FrameTypeOK, Ends
  <2>2. VPhase = 1 /\ VCNT = 0 /\ BlanksBefore = 0 /\ seenLines.blanks = 0 /\ seenLines.reads = 0
    BY Phases DEF FrameInit, NothingSeen, BlanksBefore
  <2>3. Ends[Active] \in Nat /\ ReadLead \in Nat
    BY <1>1, Phases, Timings DEF FrameTypeOK, Ends
  <2>4. QED
    BY <2>1, <2>2, <2>3, Phases DEF SeenInv
<1>4. EraseInv
  BY DEF FrameInit, EraseInv
<1>5. QED
  BY <1>1, <1>2, <1>3, <1>4 DEF FrameInv

\* A step of the program leaves the beam alone.
LEMMA ProgramStep ==
  ASSUME FrameInv, FrameTypeOK',
         UNCHANGED <<HPhase, VPhase, VCNT, mode, VTimingField, doDisplayErase, lastDecision,
                     seenLines, blanksAgain>>,
         clean'.display = clean.display
  PROVE  FrameInv'
<1>1. Ends' = Ends
  BY DEF Ends, VTimings
<1>2. LineInv'
  BY <1>1 DEF FrameInv, LineInv
<1>3. SeenInv'
  BY <1>1 DEF FrameInv, SeenInv, BlanksBehind, BlanksBefore, NothingSeen
<1>4. EraseInv'
  BY <1>1 DEF FrameInv, EraseInv
<1>5. QED
  BY <1>2, <1>3, <1>4 DEF FrameInv

LEMMA WriteTVMDStep ==
  ASSUME FrameInv, NEW m \in DOMAIN Modes, WriteTVMD(m) PROVE FrameInv'
<1>1. FrameTypeOK'
  BY DEF FrameInv, FrameTypeOK, WriteTVMD, beamVars, fieldVars, eraseVars, frameHistory
<1>2. QED
  BY <1>1, ProgramStep DEF WriteTVMD, beamVars, fieldVars, eraseVars, frameHistory

LEMMA WriteFBCRStep ==
  ASSUME FrameInv, NEW request \in Requests, WriteFBCR(request) PROVE FrameInv'
<1>1. request[1] \in BOOLEAN /\ request[2] \in BOOLEAN
  BY FrameAssumption
<1>2. fb' \in [swapMode : BOOLEAN, swapTrigger : BOOLEAN, changed : BOOLEAN, vblankErase : BOOLEAN]
  BY <1>1 DEF FrameInv, FrameTypeOK, WriteFBCR
<1>3. FrameTypeOK'
  BY <1>2 DEF FrameInv, FrameTypeOK, WriteFBCR, beamVars, modeVars, fieldVars, eraseVars, frameHistory
<1>4. QED
  BY <1>3, ProgramStep DEF WriteFBCR, beamVars, modeVars, fieldVars, eraseVars, frameHistory

LEMMA WriteTVMRStep ==
  ASSUME FrameInv, NEW erase \in BOOLEAN, WriteTVMR(erase) PROVE FrameInv'
<1>1. fb' \in [swapMode : BOOLEAN, swapTrigger : BOOLEAN, changed : BOOLEAN, vblankErase : BOOLEAN]
  BY DEF FrameInv, FrameTypeOK, WriteTVMR
<1>2. FrameTypeOK'
  BY <1>1 DEF FrameInv, FrameTypeOK, WriteTVMR, beamVars, modeVars, fieldVars, eraseVars, frameHistory
<1>3. QED
  BY <1>2, ProgramStep DEF WriteTVMR, beamVars, modeVars, fieldVars, eraseVars, frameHistory

LEMMA WritePTMRStep ==
  ASSUME FrameInv, NEW ptm \in 0 .. 2, WritePTMR(ptm) PROVE FrameInv'
<1>1. FrameTypeOK'
  BY DEF FrameInv, FrameTypeOK, WritePTMR, beamVars, modeVars, fieldVars, eraseVars, frameHistory
<1>2. QED
  BY <1>1, ProgramStep DEF WritePTMR, beamVars, modeVars, fieldVars, eraseVars, frameHistory

LEMMA ProcessDrawingStep == ASSUME FrameInv, ProcessDrawing PROVE FrameInv'
<1>1. clean' \in [display : BOOLEAN, draw : BOOLEAN] /\ clean'.display = clean.display
  BY DEF FrameInv, FrameTypeOK, ProcessDrawing
<1>2. FrameTypeOK'
  BY <1>1 DEF FrameInv, FrameTypeOK, ProcessDrawing, beamVars, modeVars, fieldVars, eraseVars, frameHistory
<1>3. QED
  BY <1>1, <1>2, ProgramStep DEF ProcessDrawing, beamVars, modeVars, fieldVars, eraseVars, frameHistory

LEMMA ReloadStateStep == ASSUME FrameInv, ReloadState PROVE FrameInv'
<1>1. FrameTypeOK'
  BY DEF FrameInv, FrameTypeOK, ReloadState, beamVars, modeVars, eraseVars
<1>2. QED
  BY <1>1, ProgramStep DEF ReloadState, beamVars, modeVars, eraseVars

LEMMA ResetVDPStep ==
  ASSUME FrameInv, NEW hard \in BOOLEAN, ResetVDP(hard) PROVE FrameInv'
<1>1. FrameTypeOK'
  <2>1. VPhase' \in 1 .. 6 /\ VCNT' \in Nat /\ seenLines' \in [reads : Nat, blanks : Nat]
    BY Phases DEF ResetVDP, NothingSeen
  <2>2. fb' \in [swapMode : BOOLEAN, swapTrigger : BOOLEAN, changed : BOOLEAN, vblankErase : BOOLEAN]
    BY DEF ResetVDP
  <2>3. clean' \in [display : BOOLEAN, draw : BOOLEAN]
    BY DEF ResetVDP, FrameInv, FrameTypeOK
  <2>4. QED
    BY <2>1, <2>2, <2>3, FrameAssumption DEF ResetVDP, FrameTypeOK
<1>2. LineInv'
  BY <1>1, Phases, Timings DEF ResetVDP, FrameTypeOK, LineInv, Ends
<1>3. SeenInv'
  <2>1. 0 < Ends'[Active] - ReadLead /\ Ends'[Active] \in Nat /\ ReadLead \in Nat
    BY <1>1, Phases, Timings DEF FrameTypeOK, Ends
  <2>2. VPhase' = 1 /\ VCNT' = 0 /\ BlanksBefore' = 0 /\ seenLines'.blanks = 0 /\ seenLines'.reads = 0
    BY Phases DEF ResetVDP, NothingSeen, BlanksBefore
  <2>3. QED
    BY <2>1, <2>2, Phases DEF SeenInv
<1>4. EraseInv'
  BY DEF ResetVDP, EraseInv
<1>5. QED
  BY <1>1, <1>2, <1>3, <1>4 DEF FrameInv

-----------------------------------------------------------------------------
(***************************************************************************)
(* The phases of a line.                                                   *)
(***************************************************************************)
LEMMA ActiveDisplayStep == ASSUME FrameInv, BeginHPhaseActiveDisplay PROVE FrameInv'
<1>1. /\ HPhase = "LeftBorder" /\ HPhase' = "Active" /\ VCNT < Ends[VPhase]
      /\ UNCHANGED <<VPhase, VCNT, mode, VTimingField, doDisplayErase, clean, lastDecision, blanksAgain>>
      /\ seenLines' = IF VPhase = Active /\ VCNT = Ends[Active] - ReadLead
                      THEN [seenLines EXCEPT !.reads = @ + 1] ELSE seenLines
  BY DEF BeginHPhaseActiveDisplay, EnterHPhase, Settled, modeVars, fieldVars, eraseVars, Ends
<1>2. Ends' = Ends
  BY <1>1 DEF Ends, VTimings
<1>3. seenLines \in [reads : Nat, blanks : Nat] /\ VCNT \in Nat /\ VPhase \in 1 .. 6
  BY DEF FrameInv, FrameTypeOK
<1>4. /\ \A phase \in 1 .. 6 : Ends[phase] \in Nat
      /\ ReadLead \in Nat /\ 0 < ReadLead /\ ReadLead < Ends[Active]
  BY Timings DEF FrameInv, FrameTypeOK, Ends
<1>5. /\ seenLines' \in [reads : Nat, blanks : Nat] /\ seenLines'.blanks = seenLines.blanks
      /\ seenLines'.reads = IF VPhase = Active /\ VCNT = Ends[Active] - ReadLead
                            THEN seenLines.reads + 1 ELSE seenLines.reads
      /\ VPhase # Active => seenLines' = seenLines
  BY <1>1, <1>3
<1>6. FrameTypeOK'
  BY <1>1, <1>5 DEF FrameInv, FrameTypeOK, BeginHPhaseActiveDisplay, modeVars
<1>7. LineInv'
  BY <1>1, <1>2, <1>3, <1>4, Phases DEF FrameInv, LineInv
<1>8. BlanksBefore' = BlanksBefore
  BY <1>1 DEF BlanksBefore
<1>9. SeenInv'
  <2>1. CASE VPhase = LastLine
    BY <1>1, <1>5, <1>8, <2>1, Phases DEF FrameInv, SeenInv, NothingSeen
  <2>2. CASE VPhase = Active
    BY <1>1, <1>2, <1>3, <1>4, <1>5, <1>8, <2>2, Phases DEF FrameInv, SeenInv
  <2>3. CASE VPhase \in BottomBorder .. TopBorder
    BY <1>1, <1>2, <1>3, <1>4, <1>5, <1>8, BlanksBeforeValue, <2>3, Phases DEF FrameInv, SeenInv, BlanksBehind
  <2>4. QED
    BY <1>3, <2>1, <2>2, <2>3, Phases
<1>10. EraseInv'
  BY <1>1, <1>2 DEF FrameInv, EraseInv
<1>11. QED
  BY <1>6, <1>7, <1>9, <1>10 DEF FrameInv

\* The field changes on the line behind the display, which is as long in both.
LEMMA RightBorderStep == ASSUME FrameInv, BeginHPhaseRightBorder PROVE FrameInv'
<1> DEFINE blank == VCNT = Ends[Active]
<1>1. /\ HPhase = "Active" /\ HPhase' = "RightBorder" /\ VCNT < Ends[VPhase]
      /\ UNCHANGED <<VPhase, VCNT, TVMD, mode, fb, doDisplayErase, clean, lastDecision, blanksAgain>>
      /\ seenLines' = IF blank THEN [seenLines EXCEPT !.blanks = @ + 1] ELSE seenLines
      /\ ~blank => VTimingField' = VTimingField
      /\ VTimingField' \in {0, 1, VTimingField}
  BY DEF BeginHPhaseRightBorder, EnterHPhase, Settled, modeVars, fieldVars, Ends
<1>2. /\ seenLines \in [reads : Nat, blanks : Nat] /\ VCNT \in Nat /\ VPhase \in 1 .. 6
      /\ mode \in DOMAIN Modes /\ VTimingField \in {0, 1}
  BY DEF FrameInv, FrameTypeOK
<1>3. VTimingField' \in {0, 1} /\ mode' \in DOMAIN Modes
  BY <1>1, <1>2
<1>4. /\ \A phase \in 1 .. 6 : Ends[phase] \in Nat
      /\ ReadLead \in Nat /\ 0 < ReadLead /\ ReadLead < Ends[Active]
      /\ Ends[Active] < Ends[TopBorder] /\ Ends[LastLine] = Ends[TopBorder] + 1
      /\ Ends[Active] = VTimings(mode, 0)[Active]
  BY <1>2, Timings DEF Ends
<1>5. \A phase \in 1 .. 6 : Ends'[phase] \in Nat
  BY <1>3, Timings DEF Ends
<1>6. Ends'[Active] = Ends[Active]
  BY <1>1, <1>3, <1>4, Timings DEF Ends
<1>7. ~blank => Ends' = Ends
  BY <1>1 DEF Ends, VTimings
<1>8. blank => VPhase \in {BottomBorder, BlankingAndSync, TopBorder}
  BY <1>1, <1>2, <1>4, Phases DEF FrameInv, LineInv
<1> HIDE DEF blank
<1>9. /\ seenLines' \in [reads : Nat, blanks : Nat] /\ seenLines'.reads = seenLines.reads
      /\ seenLines'.blanks = IF blank THEN seenLines.blanks + 1 ELSE seenLines.blanks
      /\ ~blank => seenLines' = seenLines
  BY <1>1, <1>2
<1>10. FrameTypeOK'
  BY <1>1, <1>3, <1>9 DEF FrameInv, FrameTypeOK
<1>11. LineInv'
  <2>1. CASE blank
    <3>1. ~(VCNT' > Ends'[Active])
      BY <1>1, <1>2, <1>4, <1>6, <2>1 DEF blank
    <3>2. QED
      BY <1>1, <1>8, <2>1, <3>1, Phases DEF LineInv
  <2>2. CASE ~blank
    BY <1>1, <1>7, <2>2 DEF FrameInv, LineInv, blank
  <2>3. QED
    BY <2>1, <2>2
<1>12. BlanksBefore' = BlanksBefore
  BY <1>1 DEF BlanksBefore
<1>13. SeenInv'
  <2>1. CASE VPhase = LastLine
    BY <1>1, <1>8, <1>9, <1>12, <2>1, Phases DEF FrameInv, SeenInv, NothingSeen
  <2>2. CASE VPhase = Active
    BY <1>1, <1>2, <1>4, <1>6, <1>8, <1>9, <1>12, <2>2, Phases DEF FrameInv, SeenInv
  <2>3. CASE VPhase \in BottomBorder .. TopBorder
    <3>1. seenLines'.reads = 1 /\ (VPhase' # TopBorder => VCNT' >= Ends'[Active])
      BY <1>1, <1>6, <1>9, <2>3 DEF FrameInv, SeenInv
    <3>2. seenLines'.blanks = BlanksBefore' + BlanksBehind'
      BY <1>1, <1>2, <1>4, <1>6, <1>9, <1>12, BlanksBeforeValue, <2>3 DEF FrameInv, SeenInv, BlanksBehind, blank
    <3>3. VPhase' # TopBorder => BlanksBefore' = 0
      BY <1>1, <1>12 DEF FrameInv, SeenInv
    <3>4. QED
      BY <1>1, <2>3, <3>1, <3>2, <3>3, Phases DEF SeenInv
  <2>4. QED
    BY <1>2, <2>1, <2>2, <2>3, Phases
<1>14. EraseInv'
  <2>1. CASE blank
    BY <1>1, <1>8, <2>1, Phases DEF FrameInv, EraseInv
  <2>2. CASE ~blank
    BY <1>1, <1>7, <2>2 DEF FrameInv, EraseInv
  <2>3. QED
    BY <2>1, <2>2
<1>15. QED
  BY <1>10, <1>11, <1>13, <1>14 DEF FrameInv

\* The decision at the end of the last line: after it the counter is at its end.
LEMMA LeftBorderStep == ASSUME FrameInv, BeginHPhaseLeftBorder PROVE FrameInv'
<1>1. /\ HPhase = "RightBorder" /\ HPhase' = "LeftBorder" /\ VCNT < Ends[VPhase]
      /\ VCNT' = VCNT + 1
      /\ UNCHANGED <<VPhase, TVMD, mode, VTimingField, seenLines, blanksAgain>>
  BY DEF BeginHPhaseLeftBorder, EnterHPhase, Settled, modeVars, fieldVars, Ends
<1>2. Ends' = Ends
  BY <1>1 DEF Ends, VTimings
<1>3. VCNT \in Nat /\ VPhase \in 1 .. 6
  BY DEF FrameInv, FrameTypeOK
<1>4. /\ \A phase \in 1 .. 6 : Ends[phase] \in Nat
      /\ ReadLead \in Nat /\ 0 < ReadLead /\ ReadLead < Ends[Active]
      /\ Ends[LastLine] = Ends[TopBorder] + 1
  BY Timings DEF FrameInv, FrameTypeOK, Ends
<1>5. BlanksBefore' = BlanksBefore
  BY <1>1 DEF BlanksBefore
<1>6. CASE VPhase # LastLine
  <2>1. UNCHANGED <<fb, doDisplayErase, clean, lastDecision>>
    BY <1>6 DEF BeginHPhaseLeftBorder
  <2>2. FrameTypeOK'
    BY <1>1, <1>3, <2>1 DEF FrameInv, FrameTypeOK
  <2>3. LineInv'
    BY <1>1, <1>2, <1>3, <1>4, <1>6, Phases DEF FrameInv, LineInv
  <2>4. SeenInv'
    <3>1. CASE VPhase = Active
      BY <1>1, <1>2, <1>3, <1>4, <1>5, <3>1, Phases DEF FrameInv, SeenInv
    <3>2. CASE VPhase \in BottomBorder .. TopBorder
      BY <1>1, <1>2, <1>3, <1>4, <1>5, BlanksBeforeValue, <3>2, Phases DEF FrameInv, SeenInv, BlanksBehind
    <3>3. QED
      BY <1>3, <1>6, <3>1, <3>2, Phases
  <2>5. EraseInv'
    BY <1>1, <1>6, <2>1 DEF FrameInv, EraseInv
  <2>6. QED
    BY <2>2, <2>3, <2>4, <2>5 DEF FrameInv
<1>7. CASE VPhase = LastLine
  <2>1. DecideFramebuffers
    BY <1>7 DEF BeginHPhaseLeftBorder
  <2>2. /\ fb \in [swapMode : BOOLEAN, swapTrigger : BOOLEAN, changed : BOOLEAN, vblankErase : BOOLEAN]
        /\ doDisplayErase \in BOOLEAN /\ clean \in [display : BOOLEAN, draw : BOOLEAN]
    BY DEF FrameInv, FrameTypeOK
  <2>3. /\ fb' \in [swapMode : BOOLEAN, swapTrigger : BOOLEAN, changed : BOOLEAN, vblankErase : BOOLEAN]
        /\ doDisplayErase' \in BOOLEAN
        /\ lastDecision' = "cycle" => doDisplayErase'
    BY <2>1, <2>2 DEF DecideFramebuffers, TakenUp
  <2>4. clean' \in [display : BOOLEAN, draw : BOOLEAN]
    BY <2>1, <2>2 DEF DecideFramebuffers, SwapFramebuffer
  <2>5. FrameTypeOK'
    BY <1>1, <1>3, <2>3, <2>4 DEF FrameInv, FrameTypeOK
  <2>6. LineInv'
    BY <1>1, <1>2, <1>3, <1>4, <1>7, Phases DEF FrameInv, LineInv
  <2>7. SeenInv'
    BY <1>1, <1>7, <1>5, Phases DEF FrameInv, SeenInv, NothingSeen
  <2>8. ~(VCNT' < Ends'[LastLine])
    BY <1>1, <1>2, <1>3, <1>4, <1>7, Phases DEF FrameInv, LineInv
  <2>9. EraseInv'
    BY <1>1, <1>7, <2>3, <2>8, Phases DEF EraseInv
  <2>10. QED
    BY <2>5, <2>6, <2>7, <2>9 DEF FrameInv
<1>8. QED
  BY <1>6, <1>7

-----------------------------------------------------------------------------
(***************************************************************************)
(* The phases of a frame.                                                  *)
(***************************************************************************)
LEMMA VerticalFacts ==
  ASSUME FrameInv
  PROVE  /\ VCNT \in Nat /\ VPhase \in 1 .. 6
         /\ \A phase \in 1 .. 6 : Ends[phase] \in Nat
         /\ ReadLead \in Nat /\ 0 < ReadLead /\ ReadLead < Ends[Active]
         /\ Ends[Active] < Ends[BlankingAndSync] /\ Ends[Active] < Ends[TopBorder]
BY Timings DEF FrameInv, FrameTypeOK, Ends

LEMMA BottomBorderStep == ASSUME FrameInv, BeginVPhaseBottomBorder PROVE FrameInv'
<1>1. /\ VPhase = Active /\ VPhase' = BottomBorder /\ ~(VCNT < Ends[VPhase])
      /\ UNCHANGED <<HPhase, VCNT, TVMD, mode, VTimingField, fb, doDisplayErase, clean, lastDecision,
                     seenLines, blanksAgain>>
  BY Phases DEF BeginVPhaseBottomBorder, EnterVPhase, Settled, Ends
<1>2. Ends' = Ends
  BY <1>1 DEF Ends, VTimings
<1>3. FrameTypeOK'
  BY <1>1, Phases DEF FrameInv, FrameTypeOK
<1>4. VCNT = Ends[Active] /\ HPhase = "LeftBorder"
  BY <1>1, VerticalFacts, Phases DEF FrameInv, LineInv
<1>5. LineInv' /\ EraseInv'
  BY <1>1, <1>4, Phases DEF FrameInv, LineInv, EraseInv
<1>6. SeenInv'
  <2>1. BlanksBefore' = BlanksBefore
    BY <1>1 DEF BlanksBefore
  <2>2. QED
    BY <1>1, <1>2, <1>4, <2>1, BlanksBeforeValue, VerticalFacts, Phases DEF FrameInv, SeenInv, BlanksBehind
<1>7. QED
  BY <1>3, <1>5, <1>6 DEF FrameInv

\* Between the display and the top border.
LEMMA BlankedStep ==
  ASSUME FrameInv, FrameTypeOK', ~Settled,
         \/ VPhase = BottomBorder /\ VPhase' = BlankingAndSync
         \/ VPhase = BlankingAndSync /\ VPhase' = VCounterSkip,
         UNCHANGED <<HPhase, VCNT, mode, VTimingField, seenLines, lastDecision, blanksAgain>>,
         lastDecision = "cycle" => clean'.display
  PROVE  FrameInv'
<1>1. Ends' = Ends
  BY DEF Ends, VTimings
<1>2. VCNT >= Ends[VPhase] /\ VCNT \in Nat
  BY VerticalFacts DEF Settled, Ends
<1>3. LineInv'
  BY <1>1, <1>2, VerticalFacts, Phases DEF FrameInv, LineInv
<1>4. EraseInv'
  BY Phases DEF EraseInv
<1>5. SeenInv'
  <2>1. BlanksBefore' = BlanksBefore
    BY DEF BlanksBefore
  <2>2. QED
    BY <1>1, <1>2, <2>1, BlanksBeforeValue, VerticalFacts, Phases DEF FrameInv, SeenInv, BlanksBehind
<1>6. QED
  BY <1>3, <1>4, <1>5 DEF FrameInv

LEMMA BlankingAndSyncStep == ASSUME FrameInv, BeginVPhaseBlankingAndSync PROVE FrameInv'
<1>1. /\ VPhase = BottomBorder /\ VPhase' = BlankingAndSync /\ ~Settled
      /\ UNCHANGED <<HPhase, VCNT, TVMD, mode, VTimingField, fb, lastDecision, seenLines, blanksAgain>>
  BY Phases DEF BeginVPhaseBlankingAndSync, EnterVPhase
<1>2. clean \in [display : BOOLEAN, draw : BOOLEAN] /\ doDisplayErase' \in BOOLEAN
  BY DEF FrameInv, FrameTypeOK, BeginVPhaseBlankingAndSync
<1>3. /\ clean' \in [display : BOOLEAN, draw : BOOLEAN]
      /\ clean.display \/ doDisplayErase => clean'.display
  BY <1>2 DEF BeginVPhaseBlankingAndSync
<1>4. FrameTypeOK'
  BY <1>1, <1>2, <1>3, Phases DEF FrameInv, FrameTypeOK
<1>5. lastDecision = "cycle" => clean'.display
  BY <1>3 DEF FrameInv, EraseInv
<1>6. QED
  BY <1>1, <1>4, <1>5, BlankedStep, Phases

LEMMA VCounterSkipStep == ASSUME FrameInv, BeginVPhaseVCounterSkip PROVE FrameInv'
<1>1. /\ VPhase = BlankingAndSync /\ VPhase' = VCounterSkip /\ ~Settled
      /\ UNCHANGED <<HPhase, VCNT, TVMD, mode, VTimingField, fb, doDisplayErase, clean, lastDecision,
                     seenLines, blanksAgain>>
  BY Phases DEF BeginVPhaseVCounterSkip, EnterVPhase
<1>2. FrameTypeOK'
  BY <1>1, Phases DEF FrameInv, FrameTypeOK
<1>3. lastDecision = "cycle" => clean'.display
  BY <1>1, Phases DEF FrameInv, EraseInv
<1>4. QED
  BY <1>1, <1>2, <1>3, BlankedStep, Phases

\* The mode changes in the left border, below the line of vertical blanking: in the
\* new mode that line may be still to come.
LEMMA TopBorderStep == ASSUME FrameInv, BeginVPhaseTopBorder PROVE FrameInv'
<1> DEFINE end == VTimings(TVMD, VTimingField)[Active]
<1>1. /\ VPhase = VCounterSkip /\ VPhase' = TopBorder /\ VCNT >= Ends[VPhase]
      /\ UNCHANGED <<HPhase, VCNT, TVMD, fb, doDisplayErase, clean, lastDecision, seenLines>>
      /\ blanksAgain' = (TVMDDirty /\ VCNT <= end)
  BY VerticalFacts, Phases DEF BeginVPhaseTopBorder, EnterVPhase, Settled, Ends
<1>2. IF TVMDDirty THEN mode' = TVMD /\ VTimingField' \in {0, 1}
      ELSE UNCHANGED <<mode, VTimingField>>
  BY DEF BeginVPhaseTopBorder, UpdateResolution
<1>3. FrameTypeOK'
  BY <1>1, <1>2, Phases DEF FrameInv, FrameTypeOK
<1>4. /\ HPhase = "LeftBorder" /\ VCNT > Ends[Active] /\ VCNT \in Nat
      /\ seenLines.reads = 1 /\ seenLines.blanks = 1
  <2>1. VPhase \in BottomBorder .. VCounterSkip /\ VPhase \in BottomBorder .. TopBorder /\ VPhase # TopBorder
    BY <1>1, Phases
  <2>2. HPhase = "LeftBorder" /\ VCNT > Ends[Active] /\ VCNT \in Nat /\ Ends[Active] \in Nat
    BY <1>1, <2>1, VerticalFacts, Phases DEF FrameInv, LineInv
  <2>3. seenLines.reads = 1 /\ seenLines.blanks = BlanksBefore + BlanksBehind /\ BlanksBefore = 0
    BY <2>1 DEF FrameInv, SeenInv
  <2>4. QED
    BY <2>2, <2>3 DEF BlanksBehind
<1>5. Ends'[Active] \in Nat /\ Ends'[Active] = IF TVMDDirty THEN end ELSE Ends[Active]
  <2>1. CASE TVMDDirty
    <3>1. TVMD \in DOMAIN Modes /\ VTimingField \in {0, 1} /\ VTimingField' \in {0, 1} /\ mode' = TVMD
      BY <1>2, <2>1 DEF FrameInv, FrameTypeOK
    <3>2. /\ VTimings(TVMD, VTimingField')[Active] = VTimings(TVMD, 0)[Active]
          /\ VTimings(TVMD, VTimingField)[Active] = VTimings(TVMD, 0)[Active]
          /\ VTimings(TVMD, 0)[Active] \in Nat
      BY <3>1, Timings, Phases
    <3>3. Ends' = VTimings(TVMD, VTimingField')
      BY <3>1 DEF Ends, VTimings
    <3>4. QED
      BY <2>1, <3>2, <3>3
  <2>2. CASE ~TVMDDirty
    <3>1. Ends' = Ends
      BY <1>2, <2>2 DEF Ends, VTimings
    <3>2. QED
      BY <2>2, <3>1, VerticalFacts, Phases
  <2>3. QED
    BY <2>1, <2>2
<1> HIDE DEF end
<1>6. seenLines'.blanks = BlanksBefore' + BlanksBehind'
  <2>1. CASE TVMDDirty /\ VCNT <= end
    <3>1. BlanksBefore' = 1
      BY <1>1, <2>1 DEF BlanksBefore
    <3>2. Ends'[Active] = end /\ ~(VCNT' > end) /\ HPhase' # "RightBorder"
      BY <1>1, <1>4, <1>5, <2>1
    <3>3. QED
      BY <1>1, <1>4, <3>1, <3>2 DEF BlanksBehind
  <2>2. CASE ~(TVMDDirty /\ VCNT <= end)
    <3>1. BlanksBefore' = 0
      BY <1>1, <2>2 DEF BlanksBefore
    <3>2. VCNT' > Ends'[Active]
      BY <1>1, <1>4, <1>5, <2>2
    <3>3. QED
      BY <1>1, <1>4, <3>1, <3>2 DEF BlanksBehind
  <2>3. QED
    BY <2>1, <2>2
<1>7. SeenInv'
  BY <1>1, <1>4, <1>6, Phases DEF SeenInv
<1>8. LineInv'
  BY <1>1, Phases DEF LineInv
<1>9. EraseInv'
  <2>1. lastDecision = "cycle" => clean.display
    BY <1>1, Phases DEF FrameInv, EraseInv
  <2>2. QED
    BY <1>1, <2>1, Phases DEF EraseInv
<1>10. QED
  BY <1>3, <1>7, <1>8, <1>9 DEF FrameInv

LEMMA LastLineStep == ASSUME FrameInv, BeginVPhaseLastLine PROVE FrameInv'
<1>1. /\ VPhase = TopBorder /\ VPhase' = LastLine /\ ~(VCNT < Ends[VPhase])
      /\ UNCHANGED <<HPhase, VCNT, TVMD, mode, VTimingField, fb, doDisplayErase, clean, lastDecision>>
      /\ seenLines' = NothingSeen
  BY Phases DEF BeginVPhaseLastLine, EnterVPhase, Settled, Ends
<1>2. Ends' = Ends
  BY <1>1 DEF Ends, VTimings
<1>3. seenLines' \in [reads : Nat, blanks : Nat]
  BY <1>1 DEF NothingSeen
<1>4. blanksAgain' \in BOOLEAN /\ BlanksBefore' = 0
  BY DEF BeginVPhaseLastLine, BlanksBefore
<1>5. FrameTypeOK'
  BY <1>1, <1>3, <1>4, Phases DEF FrameInv, FrameTypeOK
<1>6. LineInv'
  BY <1>1, <1>2, VerticalFacts, Phases DEF LineInv
<1>7. SeenInv'
  BY <1>1, <1>4, Phases DEF SeenInv, NothingSeen
<1>8. EraseInv'
  BY <1>1, Phases DEF FrameInv, EraseInv
<1>9. QED
  BY <1>5, <1>6, <1>7, <1>8 DEF FrameInv

LEMMA NextFrameStep == ASSUME FrameInv, BeginVPhaseActiveDisplay PROVE FrameInv'
<1>1. /\ VPhase = LastLine /\ VPhase' = Active /\ VCNT' = 0
      /\ UNCHANGED <<HPhase, TVMD, mode, VTimingField, fb, doDisplayErase, clean, lastDecision,
                     seenLines, blanksAgain>>
  BY Phases DEF BeginVPhaseActiveDisplay, EnterVPhase
<1>2. Ends' = Ends
  BY <1>1 DEF Ends, VTimings
<1>3. FrameTypeOK'
  BY <1>1, Phases DEF FrameInv, FrameTypeOK
<1>4. LineInv'
  BY <1>1, <1>2, VerticalFacts, Phases DEF LineInv
<1>5. SeenInv'
  <2>1. seenLines'.reads = 0 /\ seenLines'.blanks = 0 /\ BlanksBefore' = 0
    BY <1>1, Phases DEF FrameInv, SeenInv, NothingSeen, BlanksBefore
  <2>2. 0 < Ends'[Active] - ReadLead
    BY <1>2, VerticalFacts, Phases
  <2>3. QED
    BY <1>1, <2>1, <2>2, VerticalFacts, <1>2, Phases DEF SeenInv
<1>6. EraseInv'
  BY <1>1, Phases DEF FrameInv, EraseInv
<1>7. QED
  BY <1>3, <1>4, <1>5, <1>6 DEF FrameInv

-----------------------------------------------------------------------------
LEMMA FrameStep == ASSUME FrameInv, FrameNext PROVE FrameInv'
<1>1. CASE UpdatePhase
  BY <1>1, ActiveDisplayStep, RightBorderStep, LeftBorderStep, BottomBorderStep,
     BlankingAndSyncStep, VCounterSkipStep, TopBorderStep, LastLineStep, NextFrameStep
     DEF UpdatePhase
<1>2. CASE \E m \in DOMAIN Modes : WriteTVMD(m)
  BY <1>2, WriteTVMDStep
<1>3. CASE \E request \in Requests : WriteFBCR(request)
  BY <1>3, WriteFBCRStep
<1>4. CASE \E erase \in BOOLEAN : WriteTVMR(erase)
  BY <1>4, WriteTVMRStep
<1>5. CASE \E ptm \in 0 .. 2 : WritePTMR(ptm)
  BY <1>5, WritePTMRStep
<1>6. CASE ProcessDrawing
  BY <1>6, ProcessDrawingStep
<1>7. CASE ReloadState
  BY <1>7, ReloadStateStep
<1>8. CASE \E hard \in BOOLEAN : ResetVDP(hard)
  BY <1>8, ResetVDPStep
<1>9. QED
  BY <1>1, <1>2, <1>3, <1>4, <1>5, <1>6, <1>7, <1>8 DEF FrameNext

\* The invariant behind both theorems on the frame (vdp.cpp 744-990).
THEOREM FrameInvariant == FrameSpec => []FrameInv
<1>1. FrameInv /\ UNCHANGED frameVars => FrameInv'
  <2> SUFFICES ASSUME FrameInv, UNCHANGED frameVars PROVE FrameInv'
    OBVIOUS
  <2>1. FrameTypeOK'
    BY DEF frameVars, FrameInv, FrameTypeOK
  <2>2. QED
    BY <2>1, ProgramStep DEF frameVars
<1>2. FrameInv /\ [FrameNext]_frameVars => FrameInv'
  BY <1>1, FrameStep
<1>3. QED
  BY <1>2, FrameInitInv, PTL DEF FrameSpec

\* With any modes, and whatever the program writes, from one VBlank OUT to the
\* next the optimized INTBACK read is triggered once; one line begins vertical
\* blanking, and two exactly when a mode comes into force whose display ends at or
\* below the beam (vdp.cpp 754, 779, 796).
THEOREM FrameSeesLinesOnce == FrameSpec => OncePerFrame
<1> DEFINE Seen == VPhase = TopBorder /\ VPhase' = LastLine
                     => seenLines = [reads |-> 1, blanks |-> IF blanksAgain THEN 2 ELSE 1]
<1>1. ASSUME FrameInv, FrameNext, VPhase = TopBorder, VPhase' = LastLine
      PROVE  seenLines = [reads |-> 1, blanks |-> IF blanksAgain THEN 2 ELSE 1]
  <2>1. ~(VCNT < Ends[TopBorder])
    BY <1>1, Phases DEF FrameNext, UpdatePhase, BeginHPhaseActiveDisplay, BeginHPhaseRightBorder,
       BeginHPhaseLeftBorder, BeginVPhaseBottomBorder, BeginVPhaseBlankingAndSync,
       BeginVPhaseVCounterSkip, BeginVPhaseTopBorder, BeginVPhaseLastLine, BeginVPhaseActiveDisplay,
       EnterVPhase, Settled, Ends, WriteTVMD, WriteFBCR, WriteTVMR, WritePTMR, ProcessDrawing,
       ReloadState, ResetVDP, beamVars
  <2>2. seenLines \in [reads : Nat, blanks : Nat]
    BY <1>1 DEF FrameInv, FrameTypeOK
  <2>3. VCNT > Ends[Active]
    BY <1>1, <2>1, VerticalFacts, Phases
  <2>4. seenLines.reads = 1 /\ seenLines.blanks = BlanksBefore + 1
    BY <1>1, <2>3, BlanksBeforeValue, Phases DEF FrameInv, SeenInv, BlanksBehind
  <2>5. BlanksBefore + 1 = IF blanksAgain THEN 2 ELSE 1
    BY DEF BlanksBefore
  <2>6. QED
    BY <2>2, <2>4, <2>5
<1>2. FrameInv /\ [FrameNext]_frameVars => [Seen]_frameVars
  BY <1>1
<1>3. OncePerFrame <=> [][Seen]_frameVars
  BY DEF OncePerFrame
<1> HIDE DEF Seen
<1>4. QED
  BY <1>2, <1>3, FrameInvariant, PTL DEF FrameSpec

\* With any modes, and whatever the program writes, VDP1 draws on an erased
\* buffer in every frame of 1-cycle mode after the first (vdp.cpp 835-864, 905).
THEOREM FrameDrawsOnErased == FrameSpec => DrawsOnErased
<1> DEFINE Fresh == lastDecision = "cycle" /\ ~fb.swapMode /\ VPhase = LastLine
                      /\ HPhase' = "LeftBorder" /\ HPhase = "RightBorder" => clean'.draw
<1>1. ASSUME FrameInv, FrameNext, lastDecision = "cycle", ~fb.swapMode, VPhase = LastLine,
             HPhase' = "LeftBorder", HPhase = "RightBorder"
      PROVE  clean'.draw
  <2>1. BeginHPhaseLeftBorder
    BY <1>1 DEF FrameNext, UpdatePhase, BeginHPhaseActiveDisplay, BeginHPhaseRightBorder,
       BeginVPhaseBottomBorder, BeginVPhaseBlankingAndSync, BeginVPhaseVCounterSkip,
       BeginVPhaseTopBorder, BeginVPhaseLastLine, BeginVPhaseActiveDisplay, EnterHPhase, EnterVPhase,
       WriteTVMD, WriteFBCR, WriteTVMR, WritePTMR, ProcessDrawing, ReloadState, ResetVDP, beamVars
  <2>2. VCNT < Ends[LastLine]
    BY <1>1, <2>1 DEF BeginHPhaseLeftBorder, EnterHPhase, Settled, Ends
  <2>3. clean.display
    BY <1>1, <2>2 DEF FrameInv, EraseInv
  <2>4. DecideFramebuffers
    BY <1>1, <2>1 DEF BeginHPhaseLeftBorder
  <2>5. PICK erased \in BOOLEAN : SwapFramebuffer(clean.display \/ (doVBlankErase /\ erased))
    BY <1>1, <2>4 DEF DecideFramebuffers
  <2>6. QED
    BY <2>3, <2>5 DEF SwapFramebuffer
<1>2. FrameInv /\ [FrameNext]_frameVars => [Fresh]_frameVars
  BY <1>1
<1>3. DrawsOnErased <=> [][Fresh]_frameVars
  BY DEF DrawsOnErased
<1> HIDE DEF Fresh
<1>4. QED
  BY <1>2, <1>3, FrameInvariant, PTL DEF FrameSpec

-----------------------------------------------------------------------------
(***************************************************************************)
(* The page: a stored memory is replaced by an older one only where a page *)
(* has started the emulator with the stored memory not restored.  In every *)
(* other page what is to be stored is in order, and not older than what is *)
(* stored.                                                                 *)
(***************************************************************************)
Transactions == {ReadMemory} \cup {Store(version) : version \in Nat}

ShellTypeOK ==
    /\ boot \in {"no module", "bios", "restore", "done", "failed"}
    /\ memory \in Nat
    /\ transactions \in Seq(Transactions)
    /\ restored \in Seq(Nat)
    /\ store \in [bios : BOOLEAN, version : Nat]

Stores(request) == request.kind = "store"

\* What is to be stored gets newer and newer, and none is newer than the memory.
SavesInOrder ==
    /\ \A i \in 1 .. Len(transactions) : Stores(transactions[i]) =>
           transactions[i].version >= store.version /\ transactions[i].version <= memory
    /\ \A i, j \in 1 .. Len(transactions) :
           i < j /\ Stores(transactions[i]) /\ Stores(transactions[j])
           => transactions[i].version <= transactions[j].version

\* Until the memory is restored nothing is saved, and what was read is what is
\* stored; from then on the memory is at least as new as the store.
RestoredFirst ==
    /\ emulating => boot = "done"
    /\ boot # "done" =>
          /\ \A i \in 1 .. Len(transactions) : ~Stores(transactions[i])
          /\ \A i \in 1 .. Len(restored) : restored[i] = store.version
    /\ boot = "done" => memory >= store.version

OrderlyInv == ShellTypeOK /\ SavesInOrder /\ RestoredFirst

ShellInv == ShellTypeOK /\ (early \/ OrderlyInv)

LEMMA RequestFields ==
  /\ ReadMemory \in Transactions /\ ~Stores(ReadMemory)
  /\ \A v \in Nat : Store(v) \in Transactions /\ Stores(Store(v)) /\ Store(v).version = v
  /\ \A r \in Transactions : Stores(r) => r.version \in Nat
<1>1. ReadMemory \in Transactions /\ ~Stores(ReadMemory)
  BY DEF Transactions, ReadMemory, Stores
<1>2. ASSUME NEW v \in Nat PROVE Store(v) \in Transactions /\ Stores(Store(v)) /\ Store(v).version = v
  <2>1. Store(v) \in Transactions
    BY DEF Transactions
  <2>2. Stores(Store(v)) /\ Store(v).version = v
    BY DEF Store, Stores
  <2>3. QED
    BY <2>1, <2>2
<1>3. ASSUME NEW r \in Transactions, Stores(r) PROVE r.version \in Nat
  <2>1. PICK v \in Nat : r = Store(v)
    BY <1>1, <1>3 DEF Transactions
  <2>2. QED
    BY <1>2, <2>1
<1>4. QED
  BY <1>1, <1>2, <1>3

\* Saving the memory puts it behind everything that is to be stored.
LEMMA AskedInOrder ==
  ASSUME OrderlyInv, emulating, NEW asked, asked = Append(transactions, Store(memory))
  PROVE  /\ asked \in Seq(Transactions) /\ Len(asked) = Len(transactions) + 1
         /\ \A i \in 1 .. Len(asked) : Stores(asked[i]) =>
                asked[i].version \in Nat /\ asked[i].version >= store.version /\ asked[i].version <= memory
         /\ \A i, j \in 1 .. Len(asked) :
                i < j /\ Stores(asked[i]) /\ Stores(asked[j]) => asked[i].version <= asked[j].version
<1>1. /\ transactions \in Seq(Transactions) /\ memory \in Nat /\ store.version \in Nat
      /\ memory >= store.version
  BY DEF OrderlyInv, ShellTypeOK, RestoredFirst
<1>2. PICK last : last = Store(memory)
  OBVIOUS
<1>3. last \in Transactions /\ Stores(last) /\ last.version = memory
  BY <1>1, <1>2, RequestFields
<1>4. /\ asked \in Seq(Transactions) /\ Len(asked) = Len(transactions) + 1
      /\ asked[Len(transactions) + 1] = last
      /\ \A i \in 1 .. Len(transactions) : asked[i] = transactions[i]
  BY <1>1, <1>2, <1>3, AppendProperties
<1>5. Len(transactions) \in Nat
  BY <1>1, LenProperties
<1>6. ASSUME NEW i \in 1 .. Len(asked), Stores(asked[i])
      PROVE  asked[i].version \in Nat /\ asked[i].version >= store.version /\ asked[i].version <= memory
  <2>1. CASE i \in 1 .. Len(transactions)
    <3>1. asked[i] = transactions[i] /\ transactions[i] \in Transactions
      BY <1>1, <1>4, <2>1, ElementOfSeq
    <3>2. QED
      BY <1>6, <2>1, <3>1, RequestFields DEF OrderlyInv, SavesInOrder
  <2>2. CASE i = Len(transactions) + 1
    BY <1>1, <1>3, <1>4, <2>2
  <2>3. QED
    BY <1>4, <1>5, <2>1, <2>2
<1>7. ASSUME NEW i \in 1 .. Len(asked), NEW j \in 1 .. Len(asked), i < j, Stores(asked[i]), Stores(asked[j])
      PROVE  asked[i].version <= asked[j].version
  <2>1. i \in 1 .. Len(transactions)
    BY <1>4, <1>5, <1>7
  <2>2. CASE j \in 1 .. Len(transactions)
    BY <1>4, <1>7, <2>1, <2>2 DEF OrderlyInv, SavesInOrder
  <2>3. CASE j = Len(transactions) + 1
    BY <1>3, <1>4, <1>6, <1>7, <2>3
  <2>4. QED
    BY <1>4, <1>5, <2>2, <2>3
<1>8. QED
  BY <1>4, <1>6, <1>7

LEMMA SaveKeepsOrder ==
  ASSUME OrderlyInv, SaveBackupRAM
  PROVE  OrderlyInv'
<1>1. /\ emulating /\ transactions' = Append(transactions, Store(memory))
      /\ UNCHANGED <<boot, emulating, memory, restored, store>>
  BY DEF SaveBackupRAM, Ask, userVars
<1>2. boot = "done"
  BY <1>1 DEF OrderlyInv, RestoredFirst
<1>3. /\ transactions' \in Seq(Transactions)
      /\ SavesInOrder'
  BY <1>1, AskedInOrder DEF SavesInOrder
<1>4. ShellTypeOK'
  BY <1>1, <1>3 DEF OrderlyInv, ShellTypeOK
<1>5. RestoredFirst'
  BY <1>1, <1>2 DEF OrderlyInv, RestoredFirst
<1>6. QED
  BY <1>3, <1>4, <1>5 DEF OrderlyInv

\* The first request is carried out.
LEMMA TransactKeepsOrder ==
  ASSUME OrderlyInv, Transact
  PROVE  OrderlyInv' /\ store'.version >= store.version
<1>1. /\ transactions \in Seq(Transactions) /\ restored \in Seq(Nat) /\ store \in [bios : BOOLEAN, version : Nat]
      /\ transactions # <<>> /\ transactions' = Tail(transactions)
      /\ UNCHANGED <<boot, emulating, memory>>
  BY DEF OrderlyInv, ShellTypeOK, Transact, userVars
<1>2. PICK request : request = Head(transactions)
  OBVIOUS
<1>3. /\ Len(transactions) \in Nat /\ Len(transactions) >= 1 /\ request = transactions[1] /\ request \in Transactions
      /\ transactions' \in Seq(Transactions) /\ Len(transactions') = Len(transactions) - 1
      /\ \A i \in 1 .. Len(transactions') : i + 1 \in 1 .. Len(transactions) /\ transactions'[i] = transactions[i + 1]
  BY <1>1, <1>2, HeadTailProperties, EmptySeq, LenProperties
<1>4. \/ Stores(request) /\ store' = [store EXCEPT !.version = request.version] /\ UNCHANGED restored
      \/ ~Stores(request) /\ restored' = Append(restored, store.version) /\ UNCHANGED store
  BY <1>2 DEF Transact, Stores
<1>5. /\ store' \in [bios : BOOLEAN, version : Nat] /\ restored' \in Seq(Nat)
      /\ store'.version >= store.version
      /\ Stores(request) => store'.version = request.version /\ request.version <= memory
                            /\ UNCHANGED restored
      /\ ~Stores(request) => UNCHANGED store /\ restored' = Append(restored, store.version)
  <2>1. CASE Stores(request)
    <3>1. 1 \in 1 .. Len(transactions)
      BY <1>3
    <3>2. request.version \in Nat /\ request.version >= store.version /\ request.version <= memory
      BY <1>3, <2>1, <3>1, RequestFields DEF OrderlyInv, SavesInOrder
    <3>3. QED
      BY <1>1, <1>4, <2>1, <3>2
  <2>2. CASE ~Stores(request)
    <3>1. store' = store /\ store.version \in Nat /\ restored' = Append(restored, store.version)
      BY <1>1, <1>4, <2>2
    <3>2. restored' \in Seq(Nat)
      BY <1>1, <3>1, AppendProperties
    <3>3. QED
      BY <1>1, <2>2, <3>1, <3>2
  <2>3. QED
    BY <2>1, <2>2
<1>6. SavesInOrder'
  <2>1. ASSUME NEW i \in 1 .. Len(transactions'), Stores(transactions'[i])
        PROVE  transactions'[i].version >= store'.version /\ transactions'[i].version <= memory'
    <3>1. i + 1 \in 1 .. Len(transactions) /\ 1 \in 1 .. Len(transactions) /\ 1 < i + 1
          /\ transactions'[i] = transactions[i + 1]
      BY <1>3
    <3>2. Stores(request) => request.version <= transactions[i + 1].version
      BY <1>3, <2>1, <3>1 DEF OrderlyInv, SavesInOrder
    <3>3. transactions[i + 1].version >= store.version /\ transactions[i + 1].version <= memory
      BY <2>1, <3>1 DEF OrderlyInv, SavesInOrder
    <3>4. transactions[i + 1].version \in Nat /\ (Stores(request) => request.version \in Nat)
      <4>1. transactions[i + 1] \in Transactions
        BY <1>1, <3>1, ElementOfSeq
      <4>2. QED
        BY <1>3, <2>1, <3>1, <4>1, RequestFields
    <3>5. QED
      BY <1>1, <1>5, <3>1, <3>2, <3>3, <3>4
  <2>2. ASSUME NEW i \in 1 .. Len(transactions'), NEW j \in 1 .. Len(transactions'), i < j,
               Stores(transactions'[i]), Stores(transactions'[j])
        PROVE  transactions'[i].version <= transactions'[j].version
    BY <1>3, <2>2 DEF OrderlyInv, SavesInOrder
  <2>3. QED
    BY <2>1, <2>2 DEF SavesInOrder
<1>7. RestoredFirst'
  <2>1. boot # "done" => /\ \A i \in 1 .. Len(transactions') : ~Stores(transactions'[i])
                         /\ ~Stores(request)
    BY <1>3 DEF OrderlyInv, RestoredFirst
  <2>2. boot # "done" => \A i \in 1 .. Len(restored') : restored'[i] = store'.version
    <3>1. ASSUME boot # "done" PROVE \A i \in 1 .. Len(restored') : restored'[i] = store'.version
      <4>1. restored' = Append(restored, store.version) /\ UNCHANGED store
        BY <1>5, <2>1, <3>1
      <4>2. \A i \in 1 .. Len(restored) : restored[i] = store.version
        BY <3>1 DEF OrderlyInv, RestoredFirst
      <4>3. store.version \in Nat
        BY <1>1
      <4>4. QED
        BY <1>1, <4>1, <4>2, <4>3, AppendProperties
    <3>2. QED
      BY <3>1
  <2>3. boot = "done" => memory >= store'.version
    BY <1>5 DEF OrderlyInv, RestoredFirst
  <2>4. QED
    BY <1>1, <2>1, <2>2, <2>3 DEF OrderlyInv, RestoredFirst
<1>8. QED
  BY <1>1, <1>3, <1>5, <1>6, <1>7 DEF OrderlyInv, ShellTypeOK

\* The page begins with a blank memory, reads the store and takes over what it
\* read, or never does.
LEMMA BootKeepsOrder ==
  ASSUME OrderlyInv, BootPage \/ GotBios \/ BootFails \/ RestoreBackupRAM
  PROVE  OrderlyInv' /\ UNCHANGED store.version
<1>1. /\ transactions \in Seq(Transactions) /\ restored \in Seq(Nat) /\ store \in [bios : BOOLEAN, version : Nat]
      /\ store.version \in Nat /\ memory \in Nat
  BY DEF OrderlyInv, ShellTypeOK
<1>2. CASE BootPage
  <2>1. /\ boot = "no module" /\ boot' = "bios" /\ memory' = 0
        /\ UNCHANGED <<emulating, transactions, restored, store>>
    BY <1>2 DEF BootPage, userVars
  <2>2. \A i \in 1 .. Len(transactions) : ~Stores(transactions[i])
    BY <2>1 DEF OrderlyInv, RestoredFirst
  <2>3. QED
    BY <1>1, <2>1, <2>2 DEF OrderlyInv, ShellTypeOK, SavesInOrder, RestoredFirst
<1>3. CASE GotBios
  <2>1. /\ boot = "bios" /\ boot' = "restore" /\ transactions' = Append(transactions, ReadMemory)
        /\ UNCHANGED <<emulating, memory, restored, store>>
    BY <1>3 DEF GotBios, Ask, userVars
  <2>2. \A i \in 1 .. Len(transactions) : ~Stores(transactions[i])
    BY <2>1 DEF OrderlyInv, RestoredFirst
  <2>3. transactions' \in Seq(Transactions) /\ Len(transactions') = Len(transactions) + 1
        /\ transactions'[Len(transactions) + 1] = ReadMemory
        /\ \A i \in 1 .. Len(transactions) : transactions'[i] = transactions[i]
    BY <1>1, <2>1, RequestFields, AppendProperties
  <2>4. \A i \in 1 .. Len(transactions') : ~Stores(transactions'[i])
    BY <1>1, <2>2, <2>3, RequestFields, LenProperties
  <2>5. SavesInOrder'
    BY <2>4 DEF SavesInOrder
  <2>6. ShellTypeOK'
    BY <2>1, <2>3 DEF OrderlyInv, ShellTypeOK
  <2>7. RestoredFirst'
    BY <2>1, <2>4 DEF OrderlyInv, RestoredFirst
  <2>8. QED
    BY <2>1, <2>5, <2>6, <2>7 DEF OrderlyInv
<1>4. CASE RestoreBackupRAM
  <2>1. /\ boot = "restore" /\ boot' = "done" /\ restored # <<>> /\ restored' = Tail(restored)
        /\ memory' = IF Head(restored) > 0 THEN Head(restored) ELSE memory
        /\ UNCHANGED <<emulating, transactions, store>>
    BY <1>4 DEF RestoreBackupRAM, userVars
  <2>2. /\ \A i \in 1 .. Len(transactions) : ~Stores(transactions[i])
        /\ \A i \in 1 .. Len(restored) : restored[i] = store.version
    BY <2>1 DEF OrderlyInv, RestoredFirst
  <2>3. 1 \in 1 .. Len(restored) /\ Head(restored) = restored[1] /\ restored' \in Seq(Nat)
    BY <1>1, <2>1, HeadTailProperties, EmptySeq, LenProperties
  <2>4. Head(restored) = store.version
    BY <2>2, <2>3
  <2>5. memory' \in Nat /\ memory' >= store.version
    BY <1>1, <2>1, <2>4
  <2>6. SavesInOrder'
    BY <2>1, <2>2 DEF SavesInOrder
  <2>7. ShellTypeOK'
    BY <1>1, <2>1, <2>3, <2>5 DEF OrderlyInv, ShellTypeOK
  <2>8. RestoredFirst'
    BY <2>1, <2>5 DEF OrderlyInv, RestoredFirst
  <2>9. QED
    BY <2>1, <2>6, <2>7, <2>8 DEF OrderlyInv
<1>5. CASE BootFails
  <2>1. /\ boot \in {"bios", "restore"} /\ boot' = "failed"
        /\ restored' = restored \/ (restored # <<>> /\ restored' = Tail(restored))
        /\ UNCHANGED <<emulating, memory, transactions, store>>
    BY <1>5 DEF BootFails, userVars
  <2>2. /\ restored' \in Seq(Nat)
        /\ \A i \in 1 .. Len(restored') : \E j \in 1 .. Len(restored) : restored'[i] = restored[j]
    <3>1. CASE restored' = restored
      BY <1>1, <3>1
    <3>2. CASE restored # <<>> /\ restored' = Tail(restored)
      <4>1. /\ restored' \in Seq(Nat) /\ Len(restored') = Len(restored) - 1 /\ Len(restored) \in Nat
            /\ \A i \in 1 .. Len(restored') : restored'[i] = restored[i + 1]
        BY <1>1, <3>2, HeadTailProperties, LenProperties
      <4>2. \A i \in 1 .. Len(restored') : i + 1 \in 1 .. Len(restored)
        BY <4>1
      <4>3. QED
        BY <4>1, <4>2
    <3>3. QED
      BY <2>1, <3>1, <3>2
  <2>3. /\ \A i \in 1 .. Len(transactions) : ~Stores(transactions[i])
        /\ \A i \in 1 .. Len(restored') : restored'[i] = store.version
    BY <2>1, <2>2 DEF OrderlyInv, RestoredFirst
  <2>4. SavesInOrder' /\ RestoredFirst'
    BY <2>1, <2>3 DEF OrderlyInv, SavesInOrder, RestoredFirst
  <2>5. ShellTypeOK'
    BY <2>1, <2>2 DEF OrderlyInv, ShellTypeOK
  <2>6. QED
    BY <2>1, <2>4, <2>5 DEF OrderlyInv
<1>6. QED
  BY <1>2, <1>3, <1>4, <1>5

\* Starting counts only where the memory has been restored.
LEMMA UserKeepsOrder ==
  ASSUME OrderlyInv, ~early', LoadBiosFile \/ WriteRomsAndLoad \/ ClickStart \/ AudioReady \/ RunFrameFails
  PROVE  OrderlyInv' /\ UNCHANGED store.version
<1>1. store \in [bios : BOOLEAN, version : Nat]
  BY DEF OrderlyInv, ShellTypeOK
<1>2. /\ UNCHANGED <<boot, memory, transactions, restored>>
      /\ store' \in [bios : BOOLEAN, version : Nat] /\ store'.version = store.version
      /\ emulating' => emulating \/ boot = "done"
  <2>1. CASE LoadBiosFile
    BY <1>1, <2>1 DEF LoadBiosFile, userVars
  <2>2. CASE WriteRomsAndLoad
    BY <1>1, <2>2 DEF WriteRomsAndLoad, dataVars
  <2>3. CASE ClickStart
    BY <1>1, <2>3 DEF ClickStart, dataVars
  <2>4. CASE AudioReady
    BY <1>1, <2>4 DEF AudioReady, dataVars
  <2>5. CASE RunFrameFails
    BY <1>1, <2>5 DEF RunFrameFails, dataVars, userVars
  <2>6. QED
    BY <2>1, <2>2, <2>3, <2>4, <2>5
<1>3. QED
  BY <1>2 DEF OrderlyInv, ShellTypeOK, SavesInOrder, RestoredFirst

LEMMA GameSavesKeepsOrder ==
  ASSUME OrderlyInv, GameSaves
  PROVE  OrderlyInv' /\ UNCHANGED store.version
<1>1. memory' = memory + 1 /\ UNCHANGED <<boot, emulating, transactions, restored, store>>
  BY DEF GameSaves, userVars
<1>2. memory \in Nat /\ store.version \in Nat /\ transactions \in Seq(Transactions)
  BY DEF OrderlyInv, ShellTypeOK
<1>3. \A i \in 1 .. Len(transactions) : Stores(transactions[i]) => transactions[i].version \in Nat
  BY <1>2, RequestFields, ElementOfSeq
<1>4. SavesInOrder'
  <2>1. \A i \in 1 .. Len(transactions) : Stores(transactions[i]) => transactions[i].version <= memory + 1
    BY <1>2, <1>3 DEF OrderlyInv, SavesInOrder
  <2>2. QED
    BY <1>1, <2>1 DEF OrderlyInv, SavesInOrder
<1>5. ShellTypeOK' /\ RestoredFirst'
  <2>1. memory' \in Nat /\ (memory >= store.version => memory' >= store.version)
    BY <1>1, <1>2
  <2>2. ShellTypeOK'
    BY <1>1, <2>1 DEF OrderlyInv, ShellTypeOK
  <2>3. RestoredFirst'
    BY <1>1, <2>1 DEF OrderlyInv, RestoredFirst
  <2>4. QED
    BY <2>2, <2>3
<1>6. QED
  BY <1>1, <1>4, <1>5 DEF OrderlyInv

\* A page that is left has nothing under way any more.
LEMMA LeavePageEmpties ==
  ASSUME ShellTypeOK, LeavePage
  PROVE  ShellTypeOK' /\ SavesInOrder' /\ RestoredFirst'
<1>1. /\ transactions \in Seq(Transactions) /\ store \in [bios : BOOLEAN, version : Nat] /\ store.version \in Nat
      /\ memory \in Nat
  BY DEF ShellTypeOK
<1>2. PICK asked : asked = IF boot # "no module" /\ emulating THEN Append(transactions, Store(memory))
                           ELSE transactions
  OBVIOUS
<1>3. PICK carriedOut \in 0 .. Len(transactions) + 1 :
        /\ carriedOut <= Len(asked)
        /\ \/ UNCHANGED store
           \/ \E last \in {k \in 1 .. carriedOut : asked[k].kind = "store"} :
                  store' = [store EXCEPT !.version = asked[last].version]
  BY <1>2 DEF LeavePage
<1>4. /\ boot' = "no module" /\ emulating' = FALSE /\ memory' = 0
      /\ transactions' = <<>> /\ restored' = <<>>
  BY DEF LeavePage
<1>5. asked \in Seq(Transactions) /\ Len(asked) \in Nat /\ carriedOut \in Nat
  <2>1. asked \in Seq(Transactions)
    BY <1>1, <1>2, RequestFields, AppendProperties
  <2>2. carriedOut \in Nat
    BY <1>1, LenProperties
  <2>3. QED
    BY <2>1, <2>2, LenProperties
<1>6. \A i \in 1 .. Len(asked) : Stores(asked[i]) => asked[i].version \in Nat
  BY <1>5, RequestFields, ElementOfSeq
<1>7. store' \in [bios : BOOLEAN, version : Nat]
  <2>1. ASSUME NEW last \in 1 .. carriedOut, asked[last].kind = "store",
               store' = [store EXCEPT !.version = asked[last].version]
        PROVE  store' \in [bios : BOOLEAN, version : Nat]
    <3>1. last \in 1 .. Len(asked)
      BY <1>3, <1>5
    <3>2. asked[last].version \in Nat
      BY <1>6, <2>1, <3>1 DEF Stores
    <3>3. QED
      BY <1>1, <2>1, <3>2
  <2>2. QED
    BY <1>1, <1>3, <2>1
<1>8. /\ transactions' \in Seq(Transactions) /\ restored' \in Seq(Nat)
      /\ 1 .. Len(transactions') = {} /\ 1 .. Len(restored') = {}
  <2>1. /\ transactions' \in Seq(Transactions) /\ restored' \in Seq(Nat)
        /\ Len(transactions') = 0 /\ Len(restored') = 0
    BY <1>4, EmptySeq
  <2>2. QED
    BY <2>1
<1>9. SavesInOrder'
  BY <1>8 DEF SavesInOrder
<1>10. RestoredFirst'
  BY <1>4, <1>8 DEF RestoredFirst
<1>11. QED
  BY <1>4, <1>7, <1>8, <1>9, <1>10 DEF ShellTypeOK

\* What is carried out of a page that is gone was asked for in order.
LEMMA LeavePageKeepsOrder ==
  ASSUME OrderlyInv, LeavePage
  PROVE  OrderlyInv' /\ store'.version >= store.version
<1>1. /\ transactions \in Seq(Transactions) /\ store \in [bios : BOOLEAN, version : Nat] /\ store.version \in Nat
      /\ memory \in Nat
  BY DEF OrderlyInv, ShellTypeOK
<1>2. PICK asked : asked = IF boot # "no module" /\ emulating THEN Append(transactions, Store(memory))
                           ELSE transactions
  OBVIOUS
<1>3. PICK carriedOut \in 0 .. Len(transactions) + 1 :
        /\ carriedOut <= Len(asked)
        /\ \/ UNCHANGED store
           \/ \E last \in {k \in 1 .. carriedOut : asked[k].kind = "store"} :
                  store' = [store EXCEPT !.version = asked[last].version]
  BY <1>2 DEF LeavePage
<1>4. \A i \in 1 .. Len(asked) : Stores(asked[i]) => asked[i].version \in Nat /\ asked[i].version >= store.version
  <2>1. CASE asked = transactions
    <3>1. \A i \in 1 .. Len(asked) : Stores(asked[i]) => asked[i].version \in Nat
      BY <1>1, <2>1, RequestFields, ElementOfSeq
    <3>2. QED
      BY <2>1, <3>1 DEF OrderlyInv, SavesInOrder
  <2>2. CASE emulating /\ asked = Append(transactions, Store(memory))
    BY <2>2, AskedInOrder
  <2>3. QED
    BY <1>2, <2>1, <2>2
<1>5. store' \in [bios : BOOLEAN, version : Nat] /\ store'.version >= store.version
  <2>1. CASE UNCHANGED store
    BY <1>1, <2>1
  <2>2. ASSUME NEW last \in 1 .. carriedOut, asked[last].kind = "store",
               store' = [store EXCEPT !.version = asked[last].version]
        PROVE  store' \in [bios : BOOLEAN, version : Nat] /\ store'.version >= store.version
    <3>1. carriedOut \in Nat /\ Len(asked) \in Nat
      <4>1. carriedOut \in Nat
        BY <1>1, LenProperties
      <4>2. asked \in Seq(Transactions)
        BY <1>1, <1>2, RequestFields, AppendProperties
      <4>3. QED
        BY <4>1, <4>2, LenProperties
    <3>2. last \in 1 .. Len(asked)
      BY <1>3, <3>1
    <3>3. asked[last].version \in Nat /\ asked[last].version >= store.version
      BY <1>4, <2>2, <3>2 DEF Stores
    <3>4. QED
      BY <1>1, <2>2, <3>3
  <2>3. QED
    BY <1>3, <2>1, <2>2
<1>6. QED
  BY <1>5, LeavePageEmpties DEF OrderlyInv

LEMMA ShellInvInit == ShellInit => ShellInv
<1>1. SUFFICES ASSUME ShellInit PROVE ShellInv
  OBVIOUS
<1>2. /\ boot = "no module" /\ emulating = FALSE /\ memory = 0
      /\ transactions = <<>> /\ restored = <<>> /\ store = [bios |-> FALSE, version |-> 0]
  BY <1>1 DEF ShellInit
<1>3. transactions \in Seq(Transactions) /\ restored \in Seq(Nat) /\ 1 .. Len(transactions) = {} /\ 1 .. Len(restored) = {}
  <2>1. transactions \in Seq(Transactions) /\ restored \in Seq(Nat) /\ Len(transactions) = 0 /\ Len(restored) = 0
    BY <1>2, EmptySeq
  <2>2. QED
    BY <2>1
<1>4. SavesInOrder /\ RestoredFirst
  BY <1>2, <1>3 DEF SavesInOrder, RestoredFirst
<1>5. ShellTypeOK
  BY <1>2, <1>3 DEF ShellTypeOK
<1>6. QED
  BY <1>4, <1>5 DEF ShellInv, OrderlyInv

\* In a page that has started the emulator early nothing is said but the types.
LEMMA ShellTypeStep ==
  ASSUME ShellTypeOK, ShellNext
  PROVE  ShellTypeOK'
<1>1. /\ boot \in {"no module", "bios", "restore", "done", "failed"} /\ memory \in Nat
      /\ transactions \in Seq(Transactions) /\ restored \in Seq(Nat)
      /\ store \in [bios : BOOLEAN, version : Nat] /\ store.version \in Nat
  BY DEF ShellTypeOK
<1>2. /\ Store(memory) \in Transactions /\ ReadMemory \in Transactions
      /\ Append(transactions, Store(memory)) \in Seq(Transactions)
      /\ Append(transactions, ReadMemory) \in Seq(Transactions)
      /\ Append(restored, store.version) \in Seq(Nat)
  BY <1>1, RequestFields, AppendProperties
<1>3. /\ transactions # <<>> => Head(transactions) \in Transactions /\ Tail(transactions) \in Seq(Transactions)
      /\ restored # <<>> => Head(restored) \in Nat /\ Tail(restored) \in Seq(Nat)
      /\ <<>> \in Seq(Transactions) /\ <<>> \in Seq(Nat)
  BY <1>1, HeadTailProperties, EmptySeq
<1>4. CASE BootPage \/ GotBios \/ BootFails
  <2>1. boot' \in {"bios", "restore", "failed"} /\ UNCHANGED store
    BY <1>4 DEF BootPage, GotBios, BootFails
  <2>2. memory' = 0 \/ memory' = memory
    BY <1>4 DEF BootPage, GotBios, BootFails
  <2>3. /\ transactions' = transactions \/ transactions' = Append(transactions, ReadMemory)
        /\ restored' = restored \/ (restored # <<>> /\ restored' = Tail(restored))
    BY <1>4 DEF BootPage, GotBios, BootFails, Ask
  <2>4. transactions' \in Seq(Transactions) /\ restored' \in Seq(Nat)
    BY <1>1, <1>2, <1>3, <2>3, Zenon
  <2>5. memory \in Nat
    BY <1>1
  <2>6. memory' \in Nat
    BY <2>2, <2>5
  <2>7. QED
    BY <1>1, <2>1, <2>4, <2>6 DEF ShellTypeOK
<1>5. CASE RestoreBackupRAM
  BY <1>1, <1>3, <1>5 DEF RestoreBackupRAM, ShellTypeOK
<1>6. CASE LoadBiosFile \/ WriteRomsAndLoad \/ ClickStart \/ AudioReady \/ RunFrameFails
  BY <1>1, <1>6 DEF LoadBiosFile, WriteRomsAndLoad, ClickStart, AudioReady, RunFrameFails, dataVars,
     ShellTypeOK
<1>7. CASE GameSaves \/ SaveBackupRAM
  <2>1. UNCHANGED <<boot, restored, store>>
    BY <1>7 DEF GameSaves, SaveBackupRAM
  <2>2. memory' = memory \/ memory' = memory + 1
    BY <1>7 DEF GameSaves, SaveBackupRAM
  <2>3. transactions' = transactions \/ transactions' = Append(transactions, Store(memory))
    BY <1>7 DEF GameSaves, SaveBackupRAM, Ask
  <2>4. transactions' \in Seq(Transactions)
    BY <1>1, <1>2, <2>3, Zenon
  <2>5. memory \in Nat
    BY <1>1
  <2>6. memory' \in Nat
    BY <2>2, <2>5
  <2>7. QED
    BY <1>1, <2>1, <2>4, <2>6 DEF ShellTypeOK
<1>8. CASE Transact
  <2>1. UNCHANGED <<boot, memory>> /\ transactions' \in Seq(Transactions)
    BY <1>3, <1>8 DEF Transact
  <2>2. \/ UNCHANGED store /\ restored' \in Seq(Nat)
        \/ UNCHANGED restored /\ Stores(Head(transactions))
           /\ store' = [store EXCEPT !.version = Head(transactions).version]
    BY <1>2, <1>8 DEF Transact, Stores
  <2>3. store' \in [bios : BOOLEAN, version : Nat] /\ restored' \in Seq(Nat)
    <3>1. transactions # <<>>
      BY <1>8 DEF Transact
    <3>2. Stores(Head(transactions)) => Head(transactions).version \in Nat
      BY <1>3, <3>1, RequestFields
    <3>3. QED
      BY <1>1, <2>2, <3>2
  <2>4. QED
    BY <1>1, <2>1, <2>3 DEF ShellTypeOK
<1>9. CASE LeavePage
  BY <1>9, LeavePageEmpties DEF ShellTypeOK
<1>10. QED
  BY <1>4, <1>5, <1>6, <1>7, <1>8, <1>9 DEF ShellNext

LEMMA ShellStep ==
  ASSUME ShellInv, [ShellNext]_shellVars
  PROVE  ShellInv' /\ (store'.version >= store.version \/ early)
<1>1. ShellTypeOK /\ store.version \in Nat
  BY DEF ShellInv, ShellTypeOK
<1>2. CASE UNCHANGED shellVars
  <2>1. UNCHANGED <<boot, emulating, memory, transactions, restored, store, early>>
    BY <1>2 DEF shellVars
  <2>2. OrderlyInv => SavesInOrder'
    BY <2>1 DEF OrderlyInv, SavesInOrder
  <2>3. ShellTypeOK' /\ (OrderlyInv => RestoredFirst')
    BY <1>1, <2>1 DEF OrderlyInv, ShellTypeOK, RestoredFirst
  <2>4. QED
    BY <1>1, <2>1, <2>2, <2>3 DEF ShellInv, OrderlyInv
<1>3. CASE ShellNext /\ early
  <2>1. early' \/ LeavePage
    BY <1>3 DEF ShellNext, BootPage, GotBios, BootFails, RestoreBackupRAM, LoadBiosFile, WriteRomsAndLoad,
       ClickStart, AudioReady, GameSaves, RunFrameFails, SaveBackupRAM, Transact, userVars
  <2>2. QED
    BY <1>1, <1>3, <2>1, ShellTypeStep, LeavePageEmpties DEF ShellInv, OrderlyInv
<1>4. CASE ShellNext /\ ~early /\ ~early'
  <2>1. OrderlyInv
    BY <1>4 DEF ShellInv
  <2>2. OrderlyInv' /\ store'.version >= store.version
    <3>1. CASE BootPage \/ GotBios \/ BootFails \/ RestoreBackupRAM
      BY <1>1, <2>1, <3>1, BootKeepsOrder
    <3>2. CASE LoadBiosFile \/ WriteRomsAndLoad \/ ClickStart \/ AudioReady \/ RunFrameFails
      BY <1>1, <1>4, <2>1, <3>2, UserKeepsOrder
    <3>3. CASE GameSaves
      BY <1>1, <2>1, <3>3, GameSavesKeepsOrder
    <3>4. CASE SaveBackupRAM
      <4>1. UNCHANGED store
        BY <3>4 DEF SaveBackupRAM
      <4>2. QED
        BY <1>1, <2>1, <3>4, <4>1, SaveKeepsOrder
    <3>5. CASE Transact
      BY <2>1, <3>5, TransactKeepsOrder
    <3>6. CASE LeavePage
      BY <2>1, <3>6, LeavePageKeepsOrder
    <3>7. QED
      BY <1>4, <3>1, <3>2, <3>3, <3>4, <3>5, <3>6 DEF ShellNext
  <2>3. QED
    BY <2>2 DEF ShellInv, OrderlyInv
\* The page starts the emulator early.
<1>5. CASE ShellNext /\ ~early /\ early'
  <2>1. AudioReady
    BY <1>5 DEF ShellNext, BootPage, GotBios, BootFails, RestoreBackupRAM, LoadBiosFile, WriteRomsAndLoad,
       ClickStart, GameSaves, RunFrameFails, SaveBackupRAM, Transact, LeavePage, userVars
  <2>2. UNCHANGED store
    BY <2>1 DEF AudioReady, dataVars
  <2>3. QED
    BY <1>1, <1>5, <2>2, ShellTypeStep DEF ShellInv
<1>6. QED
  BY <1>2, <1>3, <1>4, <1>5

\* However often the page is left and loaded again while saves are under way, and
\* whichever of those are still carried out: the stored memory only gets newer,
\* unless a page has started the emulator with the stored memory not restored.
THEOREM ShellStoresNoOlder == ShellSpec => StoredNeverOlder
<1>1. ShellInv /\ [ShellNext]_shellVars => ShellInv'
  BY ShellStep
<1>2. ShellInv /\ [ShellNext]_shellVars => [store'.version >= store.version \/ early]_shellVars
  BY ShellStep
<1>3. QED
  BY ShellInvInit, <1>1, <1>2, PTL DEF ShellSpec, StoredNeverOlder

-----------------------------------------------------------------------------
(***************************************************************************)
(* Rings.  A ring of size places holds count frames from place start on.   *)
(***************************************************************************)
LEMMA Wrap ==
  ASSUME NEW size \in Nat, size > 0, NEW place \in Nat, place < 2 * size
  PROVE  place % size = IF place < size THEN place ELSE place - size
OBVIOUS

\* at is the place after count places from start on.
Behind(size, start, count, at) == at = (start + count) % size

Put(buf, at, frame, new) == new = [buf EXCEPT ![at] = frame]

\* A new frame goes behind the others.
LEMMA RingGrows ==
  ASSUME NEW size \in Nat, NEW start \in 0 .. size - 1, NEW count \in 0 .. size - 1,
         NEW buf \in [0 .. size - 1 -> Nat], NEW frame \in Nat,
         NEW at, Behind(size, start, count, at), NEW new, Put(buf, at, frame, new)
  PROVE  /\ new \in [0 .. size - 1 -> Nat]
         /\ \A i \in 1 .. count : FramesFrom(new, start, size, count + 1)[i] = FramesFrom(buf, start, size, count)[i]
         /\ FramesFrom(new, start, size, count + 1)[count + 1] = frame
<1>1. size > 0 /\ start \in Nat /\ count \in Nat /\ start < size /\ count < size
  OBVIOUS
<1>2. at = (start + count) % size
  BY DEF Behind
<1>3. at = IF start + count < size THEN start + count ELSE start + count - size
  <2>1. PICK far \in Nat : far = start + count /\ far < 2 * size
    BY <1>1
  <2>2. far % size = IF far < size THEN far ELSE far - size
    BY <1>1, <2>1, Wrap
  <2>3. QED
    BY <1>2, <2>1, <2>2
<1>4. at \in 0 .. size - 1
  BY <1>1, <1>3
<1>5. new \in [0 .. size - 1 -> Nat] /\ new[at] = frame
      /\ \A place \in 0 .. size - 1 : place # at => new[place] = buf[place]
  BY <1>4 DEF Put
<1>6. ASSUME NEW i \in 1 .. count
      PROVE  FramesFrom(new, start, size, count + 1)[i] = FramesFrom(buf, start, size, count)[i]
  <2>1. PICK far \in Nat : far = start + i - 1 /\ far < 2 * size
    BY <1>1
  <2>2. PICK place : place = far % size
    OBVIOUS
  <2>3. place = IF far < size THEN far ELSE far - size
    BY <1>1, <2>1, <2>2, Wrap
  <2>4. place \in 0 .. size - 1 /\ place # at
    BY <1>1, <1>3, <2>1, <2>3
  <2>5. new[place] = buf[place] /\ i \in 1 .. count + 1
    BY <1>1, <1>5, <2>4
  <2>6. QED
    BY <2>1, <2>2, <2>5 DEF FramesFrom
<1>7. FramesFrom(new, start, size, count + 1)[count + 1] = frame
  <2>1. start + (count + 1) - 1 = start + count
    BY <1>1
  <2>2. QED
    BY <1>1, <1>2, <1>5, <2>1 DEF FramesFrom
<1>8. QED
  BY <1>5, <1>6, <1>7

\* A new frame takes the place of the oldest one, or the one before it when a
\* place is kept free.
LEMMA RingTurns ==
  ASSUME NEW size \in Nat, NEW start \in 0 .. size - 1, NEW count \in 1 .. size, count >= size - 1,
         NEW buf \in [0 .. size - 1 -> Nat], NEW frame \in Nat,
         NEW at, Behind(size, start, count, at), NEW next, Behind(size, start, 1, next),
         NEW new, Put(buf, at, frame, new)
  PROVE  /\ new \in [0 .. size - 1 -> Nat]
         /\ next \in 0 .. size - 1
         /\ \A i \in 1 .. count : FramesFrom(new, next, size, count)[i] =
                IF i = count THEN frame ELSE FramesFrom(buf, start, size, count)[i + 1]
<1>1. size > 0 /\ start \in Nat /\ count \in Nat /\ start < size /\ count <= size
  OBVIOUS
<1>2. at = (start + count) % size
  BY DEF Behind
<1>3. next = (start + 1) % size
  BY DEF Behind
<1>4. /\ at = IF start + count < size THEN start + count ELSE start + count - size
      /\ next = IF start + 1 < size THEN start + 1 ELSE start + 1 - size
  <2>1. PICK far \in Nat : far = start + count /\ far < 2 * size
    BY <1>1
  <2>2. PICK second \in Nat : second = start + 1 /\ second < 2 * size
    BY <1>1
  <2>3. far % size = (IF far < size THEN far ELSE far - size)
        /\ second % size = (IF second < size THEN second ELSE second - size)
    BY <1>1, <2>1, <2>2, Wrap
  <2>4. QED
    BY <1>2, <1>3, <2>1, <2>2, <2>3
<1>5. at \in 0 .. size - 1 /\ next \in 0 .. size - 1
  BY <1>1, <1>4
<1>6. new \in [0 .. size - 1 -> Nat] /\ new[at] = frame
      /\ \A place \in 0 .. size - 1 : place # at => new[place] = buf[place]
  BY <1>5 DEF Put
<1>7. ASSUME NEW i \in 1 .. count
      PROVE  FramesFrom(new, next, size, count)[i] =
                 IF i = count THEN frame ELSE FramesFrom(buf, start, size, count)[i + 1]
  <2>1. PICK far \in Nat : far = next + i - 1 /\ far < 2 * size
    BY <1>1, <1>5
  <2>2. PICK place : place = far % size
    OBVIOUS
  <2>3. place = IF far < size THEN far ELSE far - size
    BY <1>1, <2>1, <2>2, Wrap
  <2>4. FramesFrom(new, next, size, count)[i] = new[place]
    BY <2>1, <2>2 DEF FramesFrom
  <2>5. CASE i = count
    <3>1. place = at
      BY <1>1, <1>4, <2>1, <2>3, <2>5
    <3>2. QED
      BY <1>6, <2>4, <2>5, <3>1
  <2>6. CASE i # count
    <3>1. place \in 0 .. size - 1 /\ place # at
      BY <1>1, <1>4, <2>1, <2>3, <2>6
    <3>2. place = (start + (i + 1) - 1) % size
      <4>1. PICK old \in Nat : old = start + (i + 1) - 1 /\ old < 2 * size
        BY <1>1, <2>6
      <4>2. old % size = IF old < size THEN old ELSE old - size
        BY <1>1, <4>1, Wrap
      <4>3. place = old % size
        BY <1>1, <1>4, <2>1, <2>3, <2>6, <4>1, <4>2
      <4>4. QED
        BY <4>1, <4>3
    <3>3. i + 1 \in 1 .. count
      BY <1>1, <2>6
    <3>4. FramesFrom(buf, start, size, count)[i + 1] = buf[place]
      BY <3>2, <3>3 DEF FramesFrom
    <3>5. QED
      BY <1>6, <2>4, <2>6, <3>1, <3>4
  <2>7. QED
    BY <2>5, <2>6
<1>8. QED
  BY <1>3, <1>5, <1>6, <1>7

LEMMA FramesSeq ==
  ASSUME NEW size \in Nat, NEW start \in 0 .. size - 1, NEW count \in Nat, NEW buf \in [0 .. size - 1 -> Nat]
  PROVE  /\ FramesFrom(buf, start, size, count) \in Seq(Nat)
         /\ Len(FramesFrom(buf, start, size, count)) = count
<1>1. ASSUME NEW i \in 1 .. count PROVE buf[(start + i - 1) % size] \in Nat
  <2>1. PICK far \in Nat : far = start + i - 1
    OBVIOUS
  <2>2. far % size \in 0 .. size - 1
    OBVIOUS
  <2>3. QED
    BY <2>1, <2>2
<1>2. FramesFrom(buf, start, size, count) \in [1 .. count -> Nat]
  BY <1>1 DEF FramesFrom
<1>3. QED
  BY <1>2, IsASeq, LenProperties

-----------------------------------------------------------------------------
(***************************************************************************)
(* Frames in order: each is newer than those before it by at least as many *)
(* as there are between them.                                              *)
(***************************************************************************)
InOrder(frames) ==
    /\ frames \in Seq(Nat)
    /\ \A i, j \in 1 .. Len(frames) : i <= j => frames[j] - frames[i] >= j - i

\* A ring with the frames old takes another: what it loses is older than depth
\* other frames.
Takes(old, frame, new, depth) ==
    /\ InOrder(new)
    /\ FramesOf(new) \subseteq FramesOf(old) \cup {frame}
    /\ \A lost \in (FramesOf(old) \cup {frame}) \ FramesOf(new) : lost + depth <= frame

LEMMA TakesBehind ==
  ASSUME NEW old, InOrder(old), NEW frame \in Nat, \A f \in FramesOf(old) : f < frame, NEW depth,
         NEW new \in Seq(Nat), Len(new) = Len(old) + 1, \A i \in 1 .. Len(old) : new[i] = old[i],
         new[Len(old) + 1] = frame
  PROVE  Takes(old, frame, new, depth)
<1>1. old \in Seq(Nat) /\ Len(old) \in Nat /\ \A i \in 1 .. Len(old) : old[i] \in Nat /\ old[i] < frame
  BY ElementOfSeq, LenProperties DEF InOrder, FramesOf
<1>2. ASSUME NEW i \in 1 .. Len(new), NEW j \in 1 .. Len(new), i <= j
      PROVE  new[j] - new[i] >= j - i
  <2>1. CASE j \in 1 .. Len(old)
    <3>1. i \in 1 .. Len(old)
      BY <1>1, <1>2, <2>1
    <3>2. QED
      BY <1>2, <2>1, <3>1 DEF InOrder
  <2>2. CASE j = Len(old) + 1 /\ i \in 1 .. Len(old)
    <3>1. Len(old) \in 1 .. Len(old) /\ i <= Len(old)
      BY <1>1, <2>2
    <3>2. old[Len(old)] - old[i] >= Len(old) - i /\ old[Len(old)] < frame
          /\ old[i] \in Nat /\ old[Len(old)] \in Nat
      BY <1>1, <2>2, <3>1 DEF InOrder
    <3>3. new[j] = frame /\ new[i] = old[i]
      BY <2>2
    <3>4. frame - old[i] >= (Len(old) + 1) - i
      <4>1. PICK last \in Nat, first \in Nat, n \in Nat :
                last = old[Len(old)] /\ first = old[i] /\ n = Len(old)
        BY <1>1, <3>2
      <4>2. last - first >= n - i /\ last < frame /\ i \in Nat
        BY <2>2, <3>2, <4>1
      <4>3. frame - first >= (n + 1) - i
        BY <4>2
      <4>4. QED
        BY <4>1, <4>3
    <3>5. QED
      BY <2>2, <3>3, <3>4
  <2>3. CASE i = Len(old) + 1 /\ j = Len(old) + 1
    BY <1>1, <2>3
  <2>4. QED
    BY <1>1, <1>2, <2>1, <2>2, <2>3
<1>3. FramesOf(new) = FramesOf(old) \cup {frame}
  <2>1. 1 .. Len(new) = (1 .. Len(old)) \cup {Len(old) + 1}
    BY <1>1
  <2>2. QED
    BY <2>1 DEF FramesOf
<1>4. QED
  BY <1>2, <1>3 DEF Takes, InOrder

LEMMA TakesTheOldest ==
  ASSUME NEW old, InOrder(old), NEW frame \in Nat, \A f \in FramesOf(old) : f < frame,
         NEW new \in Seq(Nat), Len(new) = Len(old), Len(old) >= 1,
         \A i \in 1 .. Len(old) : new[i] = IF i = Len(old) THEN frame ELSE old[i + 1],
         NEW depth \in Nat, depth <= Len(old)
  PROVE  Takes(old, frame, new, depth)
<1>1. old \in Seq(Nat) /\ Len(old) \in Nat /\ \A i \in 1 .. Len(old) : old[i] \in Nat /\ old[i] < frame
  BY ElementOfSeq, LenProperties DEF InOrder, FramesOf
<1>2. ASSUME NEW i \in 1 .. Len(old) PROVE frame - old[i] >= Len(old) + 1 - i
  <2>1. Len(old) \in 1 .. Len(old) /\ i <= Len(old)
    BY <1>1
  <2>2. old[Len(old)] - old[i] >= Len(old) - i /\ old[Len(old)] < frame
        /\ old[i] \in Nat /\ old[Len(old)] \in Nat
    BY <1>1, <2>1 DEF InOrder
  <2>3. PICK last \in Nat, first \in Nat, n \in Nat :
            last = old[Len(old)] /\ first = old[i] /\ n = Len(old)
    BY <1>1, <2>2
  <2>4. last - first >= n - i /\ last < frame /\ i \in Nat
    BY <2>2, <2>3
  <2>5. frame - first >= n + 1 - i
    BY <2>4
  <2>6. QED
    BY <2>3, <2>5
<1>3. ASSUME NEW i \in 1 .. Len(new), NEW j \in 1 .. Len(new), i <= j
      PROVE  new[j] - new[i] >= j - i
  <2>1. CASE j # Len(old)
    <3>1. i # Len(old) /\ i + 1 \in 1 .. Len(old) /\ j + 1 \in 1 .. Len(old) /\ i + 1 <= j + 1
      BY <1>1, <1>3, <2>1, SMTT(30)
    <3>2. old[j + 1] - old[i + 1] >= (j + 1) - (i + 1)
      BY <3>1 DEF InOrder
    <3>3. QED
      BY <2>1, <3>1, <3>2
  <2>2. CASE j = Len(old) /\ i # Len(old)
    <3>1. i + 1 \in 1 .. Len(old)
      BY <1>1, <1>3, <2>2
    <3>2. frame - old[i + 1] >= Len(old) + 1 - (i + 1)
      BY <1>2, <3>1
    <3>3. i \in 1 .. Len(old) /\ new[i] = old[i + 1]
      BY <1>1, <1>3, <2>2
    <3>4. Len(old) \in 1 .. Len(old) /\ new[j] = frame
      BY <1>1, <2>2
    <3>5. Len(old) + 1 - (i + 1) = j - i
      BY <1>1, <2>2, <3>3
    <3>6. QED
      BY <3>2, <3>3, <3>4, <3>5
  <2>3. CASE j = Len(old) /\ i = Len(old)
    BY <1>1, <2>3
  <2>4. QED
    BY <2>1, <2>2, <2>3
<1>4. FramesOf(new) \subseteq FramesOf(old) \cup {frame}
  <2>1. ASSUME NEW i \in 1 .. Len(new) PROVE new[i] \in FramesOf(old) \cup {frame}
    <3>1. CASE i = Len(old)
      BY <3>1
    <3>2. CASE i # Len(old)
      <4>1. i + 1 \in 1 .. Len(old) /\ new[i] = old[i + 1]
        BY <1>1, <3>2
      <4>2. QED
        BY <4>1 DEF FramesOf
    <3>3. QED
      BY <3>1, <3>2
  <2>2. QED
    BY <2>1 DEF FramesOf
<1>5. ASSUME NEW lost \in (FramesOf(old) \cup {frame}) \ FramesOf(new) PROVE lost + depth <= frame
  <2>1. frame \in FramesOf(new)
    <3>1. Len(old) \in 1 .. Len(old) /\ Len(old) \in 1 .. Len(new)
      BY <1>1
    <3>2. new[Len(old)] = frame
      BY <3>1
    <3>3. QED
      BY <3>1, <3>2 DEF FramesOf
  <2>2. PICK i \in 1 .. Len(old) : lost = old[i]
    BY <1>5, <2>1 DEF FramesOf
  <2>3. i = 1
    <3>1. ASSUME i # 1 PROVE FALSE
      <4>1. i - 1 \in 1 .. Len(new) /\ i - 1 # Len(old) /\ i - 1 \in 1 .. Len(old) /\ (i - 1) + 1 = i
        BY <1>1, <3>1
      <4>2. new[i - 1] = old[i]
        BY <4>1
      <4>3. QED
        BY <1>5, <2>2, <4>1, <4>2 DEF FramesOf
    <3>2. QED
      BY <3>1
  <2>4. frame - old[1] >= Len(old) + 1 - 1 /\ old[1] \in Nat
    BY <1>1, <1>2, <2>2, <2>3
  <2>5. QED
    BY <1>1, <2>2, <2>3, <2>4
<1>6. QED
  BY <1>3, <1>4, <1>5 DEF Takes, InOrder

-----------------------------------------------------------------------------
(***************************************************************************)
(* The bridge's ring, and the worklet's.                                   *)
(***************************************************************************)
BridgePlaces == 0 .. BridgeFrames - 1

BridgeBuffers == [BridgePlaces -> Nat]

Bridges == [buf : BridgeBuffers, write : BridgePlaces, read : BridgePlaces]

WorkletPlaces == 0 .. RingFrames - 1

WorkletBuffers == [WorkletPlaces -> Nat]

Counts == 0 .. RingFrames

Worklets == [buf : WorkletBuffers, readPos : WorkletPlaces, writePos : WorkletPlaces, count : Counts]

WorkletHas(ring) == FramesFrom(ring.buf, ring.readPos, RingFrames, ring.count)

\* The place written next is the one behind the frames of the ring.
WorkletOK(ring) ==
    ring \in Worklets /\ ring.writePos = (ring.readPos + ring.count) % RingFrames

LEMMA RingSizes ==
  /\ BridgeFrames \in Nat /\ BridgeFrames > 1 /\ RingFrames \in Nat /\ RingFrames > 0
  /\ SmallestRing \in Nat /\ SmallestRing <= BridgeFrames - 1 /\ SmallestRing <= RingFrames
BY WebAudioAssumption DEF SmallestRing

LEMMA BridgeFill ==
  ASSUME NEW write \in BridgePlaces, NEW read \in BridgePlaces,
         NEW n, n = (write + BridgeFrames - read) % BridgeFrames
  PROVE  /\ n = IF write >= read THEN write - read ELSE write + BridgeFrames - read
         /\ n \in BridgePlaces /\ n \in Nat /\ (read + n) % BridgeFrames = write
<1>1. BridgeFrames \in Nat /\ BridgeFrames > 1 /\ write \in Nat /\ read \in Nat
      /\ write < BridgeFrames /\ read < BridgeFrames
  BY RingSizes DEF BridgePlaces
<1>2. PICK far \in Nat : far = write + BridgeFrames - read /\ far < 2 * BridgeFrames
  BY <1>1
<1>3. n = IF far < BridgeFrames THEN far ELSE far - BridgeFrames
  BY <1>1, <1>2, Wrap
<1>4. n = IF write >= read THEN write - read ELSE write + BridgeFrames - read
  BY <1>1, <1>2, <1>3
<1>5. n \in Nat /\ n \in BridgePlaces
  BY <1>1, <1>4 DEF BridgePlaces
<1>6. PICK end \in Nat : end = read + n /\ end < 2 * BridgeFrames
  BY <1>1, <1>5 DEF BridgePlaces
<1>7. end % BridgeFrames = IF end < BridgeFrames THEN end ELSE end - BridgeFrames
  BY <1>1, <1>6, Wrap
<1>8. QED
  BY <1>1, <1>4, <1>5, <1>6, <1>7

LEMMA BridgeContent ==
  ASSUME NEW ring \in Bridges
  PROVE  /\ AudioAvailable(ring) \in BridgePlaces
         /\ ReadAudio(ring) = FramesFrom(ring.buf, ring.read, BridgeFrames, AudioAvailable(ring))
         /\ ReadAudio(ring) \in Seq(Nat) /\ Len(ReadAudio(ring)) = AudioAvailable(ring)
<1>1. ring.buf \in BridgeBuffers /\ ring.write \in BridgePlaces /\ ring.read \in BridgePlaces
  BY DEF Bridges
<1>2. AudioAvailable(ring) \in BridgePlaces /\ AudioAvailable(ring) \in Nat
  BY <1>1, BridgeFill DEF AudioAvailable
<1>3. ReadAudio(ring) = FramesFrom(ring.buf, ring.read, BridgeFrames, AudioAvailable(ring))
  BY DEF ReadAudio
<1>4. QED
  <2>1. PICK buf, start, count : buf = ring.buf /\ start = ring.read /\ count = AudioAvailable(ring)
    OBVIOUS
  <2>2. buf \in [0 .. BridgeFrames - 1 -> Nat] /\ start \in 0 .. BridgeFrames - 1 /\ count \in Nat
        /\ BridgeFrames \in Nat
    BY <1>1, <1>2, <2>1, RingSizes DEF BridgeBuffers, BridgePlaces
  <2>3. FramesFrom(buf, start, BridgeFrames, count) \in Seq(Nat)
        /\ Len(FramesFrom(buf, start, BridgeFrames, count)) = count
    BY <2>2, FramesSeq
  <2>4. QED
    BY <1>2, <1>3, <2>1, <2>3

LEMMA BridgeTakes ==
  ASSUME NEW ring \in Bridges, InOrder(ReadAudio(ring)), NEW frame \in Nat,
         \A f \in FramesOf(ReadAudio(ring)) : f < frame
  PROVE  /\ OnAudioSample(ring, frame) \in Bridges
         /\ Takes(ReadAudio(ring), frame, ReadAudio(OnAudioSample(ring, frame)), SmallestRing)
<1>1. PICK buf \in BridgeBuffers, write \in BridgePlaces, read \in BridgePlaces :
        ring.buf = buf /\ ring.write = write /\ ring.read = read
  BY DEF Bridges
<1>2. BridgeFrames \in Nat /\ BridgeFrames > 1 /\ write \in Nat /\ read \in Nat
      /\ write < BridgeFrames /\ read < BridgeFrames /\ BridgePlaces = 0 .. BridgeFrames - 1
  BY RingSizes DEF BridgePlaces
<1>3. PICK n : n = AudioAvailable(ring)
  OBVIOUS
<1>4. /\ n = IF write >= read THEN write - read ELSE write + BridgeFrames - read
      /\ n \in BridgePlaces /\ n \in Nat /\ (read + n) % BridgeFrames = write
  BY <1>1, <1>3, BridgeFill DEF AudioAvailable
<1>5. PICK next : next = (write + 1) % BridgeFrames
  OBVIOUS
<1>6. next = (IF write + 1 < BridgeFrames THEN write + 1 ELSE 0) /\ next \in BridgePlaces
  <2>1. PICK far \in Nat : far = write + 1 /\ far < 2 * BridgeFrames
    BY <1>1, <1>2 DEF BridgePlaces
  <2>2. next = IF far < BridgeFrames THEN far ELSE far - BridgeFrames
    BY <1>2, <1>5, <2>1, Wrap
  <2>3. QED
    BY <1>1, <1>2, <2>1, <2>2 DEF BridgePlaces
<1>7. PICK new : new = [buf EXCEPT ![write] = frame]
  OBVIOUS
<1>8. PICK after : after = OnAudioSample(ring, frame)
  OBVIOUS
<1>9. after = [buf |-> new, write |-> next,
               read |-> IF next = read THEN (read + 1) % BridgeFrames ELSE read]
  BY <1>1, <1>4, <1>5, <1>7, <1>8 DEF OnAudioSample
<1>10. CASE next = read
  <2>1. n = BridgeFrames - 1 /\ n \in 1 .. BridgeFrames /\ n >= BridgeFrames - 1
    <3>1. n = BridgeFrames - 1
      BY <1>2, <1>4, <1>6, <1>10
    <3>2. QED
      BY <1>2, <3>1
  <2>2. PICK start : start = (read + 1) % BridgeFrames
    OBVIOUS
  <2>3. /\ new \in BridgeBuffers /\ start \in BridgePlaces
        /\ \A i \in 1 .. n : FramesFrom(new, start, BridgeFrames, n)[i] =
               IF i = n THEN frame ELSE FramesFrom(buf, read, BridgeFrames, n)[i + 1]
    <3>1. buf \in [0 .. BridgeFrames - 1 -> Nat] /\ read \in 0 .. BridgeFrames - 1
      BY <1>2 DEF BridgeBuffers
    <3>2. /\ new \in [0 .. BridgeFrames - 1 -> Nat] /\ start \in 0 .. BridgeFrames - 1
          /\ \A i \in 1 .. n : FramesFrom(new, start, BridgeFrames, n)[i] =
                 IF i = n THEN frame ELSE FramesFrom(buf, read, BridgeFrames, n)[i + 1]
      <4>1. BridgeFrames \in Nat /\ n \in 1 .. BridgeFrames /\ n >= BridgeFrames - 1
        BY <1>2, <2>1
      <4>2. /\ Behind(BridgeFrames, read, n, write) /\ Behind(BridgeFrames, read, 1, start)
            /\ Put(buf, write, frame, new)
        BY <1>4, <1>7, <2>2 DEF Behind, Put
      <4>3. QED
        BY <3>1, <4>1, <4>2, RingTurns
    <3>3. QED
      BY <1>2, <3>2 DEF BridgeBuffers
  <2>4. after = [buf |-> new, write |-> next, read |-> start]
    BY <1>9, <1>10, <2>2
  <2>5. after \in Bridges
    BY <1>6, <2>3, <2>4 DEF Bridges
  <2>6. AudioAvailable(after) = n
    <3>1. start = IF read + 1 < BridgeFrames THEN read + 1 ELSE 0
      <4>1. PICK far \in Nat : far = read + 1 /\ far < 2 * BridgeFrames
        BY <1>1, <1>2 DEF BridgePlaces
      <4>2. start = IF far < BridgeFrames THEN far ELSE far - BridgeFrames
        BY <1>2, <2>2, <4>1, Wrap
      <4>3. QED
        BY <1>1, <1>2, <4>1, <4>2 DEF BridgePlaces
    <3>2. AudioAvailable(after) = (next + BridgeFrames - start) % BridgeFrames
      BY <2>4 DEF AudioAvailable
    <3>3. PICK m : m = AudioAvailable(after) /\ m = (next + BridgeFrames - start) % BridgeFrames
      BY <3>2
    <3>4. m = IF next >= start THEN next - start ELSE next + BridgeFrames - start
      <4>1. next \in BridgePlaces /\ start \in BridgePlaces
        BY <1>6, <2>3
      <4>2. QED
        BY <3>3, <4>1, BridgeFill
    <3>5. QED
      BY <1>2, <1>10, <2>1, <3>1, <3>3, <3>4
  <2>7. ReadAudio(after) = FramesFrom(new, start, BridgeFrames, n)
        /\ ReadAudio(after) \in Seq(Nat) /\ Len(ReadAudio(after)) = n
    BY <2>4, <2>5, <2>6, BridgeContent
  <2>8. ReadAudio(ring) = FramesFrom(buf, read, BridgeFrames, n) /\ Len(ReadAudio(ring)) = n
    BY <1>1, <1>3, BridgeContent
  <2>9. \A i \in 1 .. n : ReadAudio(after)[i] = IF i = n THEN frame ELSE ReadAudio(ring)[i + 1]
    BY <2>3, <2>7, <2>8
  <2>10. SmallestRing \in Nat /\ SmallestRing <= n /\ n >= 1
    BY <2>1, RingSizes
  <2>11. Takes(ReadAudio(ring), frame, ReadAudio(after), SmallestRing)
    BY <2>7, <2>8, <2>9, <2>10, TakesTheOldest
  <2>12. QED
    BY <1>8, <2>5, <2>11
<1>11. CASE next # read
  <2>1. n + 1 \in BridgePlaces /\ n \in 0 .. BridgeFrames - 1
    BY <1>2, <1>4, <1>6, <1>11
  <2>2. /\ new \in BridgeBuffers
        /\ \A i \in 1 .. n : FramesFrom(new, read, BridgeFrames, n + 1)[i] =
                                 FramesFrom(buf, read, BridgeFrames, n)[i]
        /\ FramesFrom(new, read, BridgeFrames, n + 1)[n + 1] = frame
    <3>1. buf \in [0 .. BridgeFrames - 1 -> Nat] /\ read \in 0 .. BridgeFrames - 1
      BY <1>2 DEF BridgeBuffers
    <3>2. /\ new \in [0 .. BridgeFrames - 1 -> Nat]
          /\ \A i \in 1 .. n : FramesFrom(new, read, BridgeFrames, n + 1)[i] =
                                   FramesFrom(buf, read, BridgeFrames, n)[i]
          /\ FramesFrom(new, read, BridgeFrames, n + 1)[n + 1] = frame
      <4>1. BridgeFrames \in Nat /\ n \in 0 .. BridgeFrames - 1
        BY <1>2, <2>1
      <4>2. Behind(BridgeFrames, read, n, write) /\ Put(buf, write, frame, new)
        BY <1>4, <1>7 DEF Behind, Put
      <4>3. QED
        BY <3>1, <4>1, <4>2, RingGrows
    <3>3. QED
      BY <1>2, <3>2 DEF BridgeBuffers
  <2>3. after = [buf |-> new, write |-> next, read |-> read]
    BY <1>9, <1>11
  <2>4. after \in Bridges
    BY <1>1, <1>6, <2>2, <2>3 DEF Bridges
  <2>5. AudioAvailable(after) = n + 1
    <3>1. AudioAvailable(after) = (next + BridgeFrames - read) % BridgeFrames
      BY <2>3 DEF AudioAvailable
    <3>2. PICK m : m = AudioAvailable(after) /\ m = (next + BridgeFrames - read) % BridgeFrames
      BY <3>1
    <3>3. m = IF next >= read THEN next - read ELSE next + BridgeFrames - read
      <4>1. next \in BridgePlaces /\ read \in BridgePlaces
        BY <1>6
      <4>2. QED
        BY <3>2, <4>1, BridgeFill
    <3>4. QED
      BY <1>2, <1>4, <1>6, <1>11, <3>2, <3>3
  <2>6. ReadAudio(after) = FramesFrom(new, read, BridgeFrames, n + 1)
        /\ ReadAudio(after) \in Seq(Nat) /\ Len(ReadAudio(after)) = n + 1
    BY <2>3, <2>4, <2>5, BridgeContent
  <2>7. ReadAudio(ring) = FramesFrom(buf, read, BridgeFrames, n) /\ Len(ReadAudio(ring)) = n
    BY <1>1, <1>3, BridgeContent
  <2>8. Takes(ReadAudio(ring), frame, ReadAudio(after), SmallestRing)
    BY <2>2, <2>6, <2>7, TakesBehind
  <2>9. QED
    BY <1>8, <2>4, <2>8
<1>12. QED
  BY <1>10, <1>11

LEMMA WorkletContent ==
  ASSUME NEW ring \in Worklets
  PROVE  WorkletHas(ring) \in Seq(Nat) /\ Len(WorkletHas(ring)) = ring.count
<1>1. PICK buf \in WorkletBuffers, start \in WorkletPlaces, count \in Counts :
        ring.buf = buf /\ ring.readPos = start /\ ring.count = count
  BY DEF Worklets
<1>2. buf \in [0 .. RingFrames - 1 -> Nat] /\ start \in 0 .. RingFrames - 1 /\ count \in Nat
      /\ RingFrames \in Nat
  BY RingSizes DEF WorkletBuffers, WorkletPlaces, Counts
<1>3. FramesFrom(buf, start, RingFrames, count) \in Seq(Nat)
      /\ Len(FramesFrom(buf, start, RingFrames, count)) = count
  BY <1>2, FramesSeq
<1>4. QED
  BY <1>1, <1>3 DEF WorkletHas

\* Of the place after the one that is count places behind start.
LEMMA BehindTheNext ==
  ASSUME NEW size \in Nat, size > 0, NEW start \in 0 .. size - 1, NEW count \in 0 .. size,
         NEW at, Behind(size, start, count, at), NEW next, Behind(size, at, 1, next)
  PROVE  /\ at \in 0 .. size - 1 /\ next \in 0 .. size - 1
         /\ count < size => Behind(size, start, count + 1, next)
         /\ count = size => at = start
         /\ \A second : count = size /\ Behind(size, start, 1, second) => Behind(size, second, count, next)
<1>1. PICK far \in Nat : far = start + count /\ far < 2 * size
  OBVIOUS
<1>2. at = IF far < size THEN far ELSE far - size
  BY <1>1, Wrap DEF Behind
<1>3. at \in 0 .. size - 1 /\ at \in Nat
  BY <1>1, <1>2
<1>4. PICK after \in Nat : after = at + 1 /\ after < 2 * size
  BY <1>3
<1>5. next = IF after < size THEN after ELSE after - size
  BY <1>4, Wrap DEF Behind
<1>6. next \in 0 .. size - 1
  BY <1>3, <1>4, <1>5
<1>7. ASSUME count < size PROVE Behind(size, start, count + 1, next)
  <2>1. PICK end \in Nat : end = start + (count + 1) /\ end < 2 * size
    BY <1>7
  <2>2. end % size = IF end < size THEN end ELSE end - size
    BY <2>1, Wrap
  <2>3. next = end % size
    BY <1>1, <1>2, <1>4, <1>5, <1>7, <2>1, <2>2
  <2>4. QED
    BY <2>1, <2>3 DEF Behind
<1>8. count = size => at = start
  BY <1>1, <1>2
<1>9. ASSUME NEW second, count = size, Behind(size, start, 1, second)
      PROVE  Behind(size, second, count, next)
  <2>1. second = next
    BY <1>8, <1>9 DEF Behind
  <2>2. PICK end \in Nat : end = second + count /\ end < 2 * size
    BY <1>6, <1>9, <2>1
  <2>3. end % size = IF end < size THEN end ELSE end - size
    BY <2>2, Wrap
  <2>4. next = end % size
    BY <1>6, <1>9, <2>1, <2>2, <2>3
  <2>5. QED
    BY <2>2, <2>4 DEF Behind
<1>10. QED
  BY <1>3, <1>6, <1>7, <1>8, <1>9

LEMMA WorkletTakes ==
  ASSUME NEW ring, WorkletOK(ring), InOrder(WorkletHas(ring)), NEW frame \in Nat,
         \A f \in FramesOf(WorkletHas(ring)) : f < frame
  PROVE  /\ WorkletOK(AddFrame(ring, frame))
         /\ Takes(WorkletHas(ring), frame, WorkletHas(AddFrame(ring, frame)), SmallestRing)
<1>1. PICK buf \in WorkletBuffers, start \in WorkletPlaces, write \in WorkletPlaces, n \in Counts :
        ring.buf = buf /\ ring.readPos = start /\ ring.writePos = write /\ ring.count = n
  BY DEF Worklets, WorkletOK
<1>2. /\ RingFrames \in Nat /\ RingFrames > 0 /\ start \in 0 .. RingFrames - 1
      /\ n \in 0 .. RingFrames /\ n \in Nat /\ n <= RingFrames
      /\ WorkletPlaces = 0 .. RingFrames - 1
  BY <1>1, RingSizes DEF WorkletPlaces, Counts
<1>3. Behind(RingFrames, start, n, write)
  BY <1>1 DEF WorkletOK, Behind
<1>4. PICK next : next = (write + 1) % RingFrames
  OBVIOUS
<1>5. Behind(RingFrames, write, 1, next)
  BY <1>4 DEF Behind
<1>6. /\ next \in WorkletPlaces
      /\ n < RingFrames => Behind(RingFrames, start, n + 1, next)
      /\ \A second : n = RingFrames /\ Behind(RingFrames, start, 1, second)
                        => Behind(RingFrames, second, n, next)
  BY <1>2, <1>3, <1>5, BehindTheNext
<1>7. PICK new : new = [buf EXCEPT ![write] = frame]
  OBVIOUS
<1>8. Put(buf, write, frame, new)
  BY <1>7 DEF Put
<1>9. buf \in [0 .. RingFrames - 1 -> Nat]
  BY <1>2 DEF WorkletBuffers
<1>10. PICK after : after = AddFrame(ring, frame)
  OBVIOUS
<1>11. ring \in Worklets /\ WorkletHas(ring) = FramesFrom(buf, start, RingFrames, n)
       /\ Len(WorkletHas(ring)) = n
  BY <1>1, WorkletContent DEF WorkletHas, WorkletOK
<1>12. CASE n >= RingFrames
  <2>1. n = RingFrames /\ n \in 1 .. RingFrames /\ n >= RingFrames - 1
    BY <1>2, <1>12
  <2>2. PICK second : second = (start + 1) % RingFrames
    OBVIOUS
  <2>3. Behind(RingFrames, start, 1, second)
    BY <2>2 DEF Behind
  <2>4. /\ new \in [0 .. RingFrames - 1 -> Nat] /\ second \in 0 .. RingFrames - 1
        /\ \A i \in 1 .. n : FramesFrom(new, second, RingFrames, n)[i] =
               IF i = n THEN frame ELSE FramesFrom(buf, start, RingFrames, n)[i + 1]
    BY <1>2, <1>3, <1>8, <1>9, <2>1, <2>3, RingTurns
  <2>5. after = [buf |-> new, readPos |-> second, writePos |-> next, count |-> n]
    BY <1>1, <1>4, <1>7, <1>10, <1>12, <2>2 DEF AddFrame
  <2>6. WorkletOK(after)
    <3>1. after \in Worklets
      BY <1>2, <1>6, <2>4, <2>5 DEF Worklets, WorkletBuffers
    <3>2. Behind(RingFrames, second, n, next)
      BY <1>6, <2>1, <2>3
    <3>3. QED
      BY <2>5, <3>1, <3>2 DEF WorkletOK, Behind
  <2>7. WorkletHas(after) = FramesFrom(new, second, RingFrames, n)
        /\ WorkletHas(after) \in Seq(Nat) /\ Len(WorkletHas(after)) = n
    BY <2>5, <2>6, WorkletContent DEF WorkletHas, WorkletOK
  <2>8. \A i \in 1 .. n : WorkletHas(after)[i] = IF i = n THEN frame ELSE WorkletHas(ring)[i + 1]
    BY <1>11, <2>4, <2>7
  <2>9. SmallestRing \in Nat /\ SmallestRing <= n /\ n >= 1
    BY <1>2, <2>1, RingSizes
  <2>10. Takes(WorkletHas(ring), frame, WorkletHas(after), SmallestRing)
    BY <1>11, <2>7, <2>8, <2>9, TakesTheOldest
  <2>11. QED
    BY <1>10, <2>6, <2>10
<1>13. CASE ~(n >= RingFrames)
  <2>1. n \in 0 .. RingFrames - 1 /\ n < RingFrames /\ n + 1 \in Counts
    BY <1>2, <1>13 DEF Counts
  <2>2. /\ new \in [0 .. RingFrames - 1 -> Nat]
        /\ \A i \in 1 .. n : FramesFrom(new, start, RingFrames, n + 1)[i] =
                                 FramesFrom(buf, start, RingFrames, n)[i]
        /\ FramesFrom(new, start, RingFrames, n + 1)[n + 1] = frame
    BY <1>2, <1>3, <1>8, <1>9, <2>1, RingGrows, SMTT(30)
  <2>3. after = [buf |-> new, readPos |-> start, writePos |-> next, count |-> n + 1]
    BY <1>1, <1>4, <1>7, <1>10, <1>13 DEF AddFrame
  <2>4. WorkletOK(after)
    <3>1. after \in Worklets
      BY <1>2, <1>6, <2>1, <2>2, <2>3 DEF Worklets, WorkletBuffers
    <3>2. QED
      BY <1>6, <2>1, <2>3, <3>1 DEF WorkletOK, Behind
  <2>5. WorkletHas(after) = FramesFrom(new, start, RingFrames, n + 1)
        /\ WorkletHas(after) \in Seq(Nat) /\ Len(WorkletHas(after)) = n + 1
    BY <2>3, <2>4, WorkletContent DEF WorkletHas, WorkletOK
  <2>6. Takes(WorkletHas(ring), frame, WorkletHas(after), SmallestRing)
    BY <1>11, <2>2, <2>5, TakesBehind
  <2>7. QED
    BY <1>10, <2>4, <2>6
<1>14. QED
  BY <1>12, <1>13

LEMMA SampleStays ==
  ASSUME NEW ring \in Bridges, NEW frame \in Nat
  PROVE  OnAudioSample(ring, frame) \in Bridges
<1>1. PICK buf \in BridgeBuffers, write \in BridgePlaces, read \in BridgePlaces :
        ring.buf = buf /\ ring.write = write /\ ring.read = read
  BY DEF Bridges
<1>2. PICK new, next, second :
        /\ new = [buf EXCEPT ![write] = frame]
        /\ next = (write + 1) % BridgeFrames /\ second = (read + 1) % BridgeFrames
  OBVIOUS
<1>3. new \in BridgeBuffers
  BY <1>2 DEF BridgeBuffers
<1>4. next \in BridgePlaces /\ second \in BridgePlaces
  BY <1>2, RingSizes DEF BridgePlaces
<1>5. OnAudioSample(ring, frame) = [buf |-> new, write |-> next, read |-> IF next = read THEN second ELSE read]
  BY <1>1, <1>2 DEF OnAudioSample
<1>6. QED
  BY <1>3, <1>4, <1>5 DEF Bridges

LEMMA FrameStays ==
  ASSUME NEW ring \in Worklets, NEW frame \in Nat
  PROVE  AddFrame(ring, frame) \in Worklets
<1>1. PICK buf \in WorkletBuffers, start \in WorkletPlaces, write \in WorkletPlaces, n \in Counts :
        ring.buf = buf /\ ring.readPos = start /\ ring.writePos = write /\ ring.count = n
  BY DEF Worklets
<1>2. PICK new, next, second :
        /\ new = [buf EXCEPT ![write] = frame]
        /\ next = (write + 1) % RingFrames /\ second = (start + 1) % RingFrames
  OBVIOUS
<1>3. new \in WorkletBuffers
  BY <1>2 DEF WorkletBuffers
<1>4. next \in WorkletPlaces /\ second \in WorkletPlaces
  BY <1>2, RingSizes DEF WorkletPlaces
<1>5. AddFrame(ring, frame) =
        [buf |-> new, readPos |-> IF n >= RingFrames THEN second ELSE start, writePos |-> next,
         count |-> IF n >= RingFrames THEN n ELSE n + 1]
  BY <1>1, <1>2 DEF AddFrame
<1>6. n < RingFrames => n + 1 \in Counts
  BY RingSizes DEF Counts
<1>7. n >= RingFrames \/ n < RingFrames
  BY RingSizes DEF Counts
<1>8. QED
  BY <1>3, <1>4, <1>5, <1>6, <1>7 DEF Worklets

-----------------------------------------------------------------------------
(***************************************************************************)
(* Frame after frame, as in a run of the emulator and in a message.        *)
(***************************************************************************)
FirstOf(frames, n) == {frames[i] : i \in 1 .. n}

\* A ring with the frames old has taken the first n others, and has new.
Fed(old, frames, n, new, depth) ==
    /\ InOrder(new)
    /\ FramesOf(new) \subseteq FramesOf(old) \cup FirstOf(frames, n)
    /\ \A lost \in (FramesOf(old) \cup FirstOf(frames, n)) \ FramesOf(new) :
           n > 0 /\ lost + depth <= frames[n]

LEMMA FedNone ==
  ASSUME NEW old, InOrder(old), NEW frames, NEW depth
  PROVE  Fed(old, frames, 0, old, depth)
BY DEF Fed, FirstOf

LEMMA FedMore ==
  ASSUME NEW old, NEW frames, InOrder(frames), NEW n \in Nat, n < Len(frames), NEW mid, NEW new,
         NEW depth \in Nat, FramesOf(old) \subseteq Nat,
         \A f \in FramesOf(old), i \in 1 .. Len(frames) : f < frames[i],
         Fed(old, frames, n, mid, depth)
  PROVE  /\ \A f \in FramesOf(mid) : f < frames[n + 1]
         /\ Takes(mid, frames[n + 1], new, depth) => Fed(old, frames, n + 1, new, depth)
<1>1. frames \in Seq(Nat) /\ Len(frames) \in Nat /\ n + 1 \in 1 .. Len(frames)
      /\ \A i \in 1 .. Len(frames) : frames[i] \in Nat
  BY ElementOfSeq, LenProperties DEF InOrder
<1>2. ASSUME NEW i \in 1 .. n PROVE i \in 1 .. Len(frames) /\ frames[i] \in Nat /\ frames[i] < frames[n + 1]
  <2>1. i \in 1 .. Len(frames) /\ i <= n + 1
    BY <1>1
  <2>2. frames[n + 1] - frames[i] >= (n + 1) - i
    BY <1>1, <2>1 DEF InOrder
  <2>3. QED
    BY <1>1, <2>1, <2>2
<1>3. ASSUME NEW f \in FramesOf(mid) PROVE f < frames[n + 1]
  <2>1. f \in FramesOf(old) \/ \E i \in 1 .. n : f = frames[i]
    BY <1>3 DEF Fed, FirstOf
  <2>2. QED
    BY <1>1, <1>2, <2>1
<1>4. ASSUME Takes(mid, frames[n + 1], new, depth) PROVE Fed(old, frames, n + 1, new, depth)
  <2>1. FirstOf(frames, n + 1) = FirstOf(frames, n) \cup {frames[n + 1]}
    <3>1. 1 .. n + 1 = (1 .. n) \cup {n + 1}
      OBVIOUS
    <3>2. QED
      BY <3>1 DEF FirstOf
  <2>2. FramesOf(new) \subseteq FramesOf(old) \cup FirstOf(frames, n + 1)
    BY <1>4, <2>1 DEF Takes, Fed
  <2>3. ASSUME NEW lost \in (FramesOf(old) \cup FirstOf(frames, n + 1)) \ FramesOf(new)
        PROVE  lost + depth <= frames[n + 1]
    <3>1. CASE lost \in FramesOf(mid) \cup {frames[n + 1]}
      BY <1>4, <2>3, <3>1 DEF Takes
    <3>2. CASE lost \notin FramesOf(mid) \cup {frames[n + 1]}
      <4>1. lost \in (FramesOf(old) \cup FirstOf(frames, n)) \ FramesOf(mid)
        BY <2>1, <2>3, <3>2
      <4>2. n > 0 /\ lost + depth <= frames[n]
        BY <4>1 DEF Fed
      <4>3. lost \in Nat
        BY <1>2, <4>1 DEF FirstOf
      <4>4. n \in 1 .. n
        BY <4>2
      <4>5. frames[n] \in Nat /\ frames[n] < frames[n + 1] /\ frames[n + 1] \in Nat
        BY <1>1, <1>2, <4>4
      <4>6. QED
        BY <4>2, <4>3, <4>5
    <3>3. QED
      BY <3>1, <3>2
  <2>4. QED
    BY <1>4, <2>2, <2>3 DEF Fed, Takes
<1>5. QED
  BY <1>3, <1>4

LEMMA RunUnfolds ==
  ASSUME made \in Nat, NEW count \in Nat, bridge \in Bridges
  PROVE  \E h \in [0 .. count -> Bridges] :
            /\ h[0] = bridge /\ RunFrame(count) = h[count]
            /\ \A i \in 1 .. count : h[i] = OnAudioSample(h[i - 1], made + i)
<1> DEFINE Is(ring) == ring = [n \in 0 .. count |->
                                  IF n = 0 THEN bridge ELSE OnAudioSample(ring[n - 1], made + n)]
<1>1. \E ring : Is(ring)
  <2>1. PICK steps : steps = [i \in 1 .. count |-> [ring \in Bridges |-> OnAudioSample(ring, made + i)]]
    OBVIOUS
  <2>2. steps \in [1 .. count -> [Bridges -> Bridges]]
    <3>1. ASSUME NEW i \in 1 .. count, NEW ring \in Bridges
          PROVE  OnAudioSample(ring, made + i) \in Bridges
      BY SampleStays
    <3>2. QED
      BY <2>1, <3>1
  <2>3. PICK h : Builds(h, steps, bridge, count, Bridges)
    BY <2>2, Building
  <2>4. h \in [0 .. count -> Bridges] /\ h[0] = bridge
    BY <2>3 DEF Builds
  <2>5. ASSUME NEW i \in 1 .. count PROVE h[i] = OnAudioSample(h[i - 1], made + i)
    <3>1. h[i] = steps[i][h[i - 1]] /\ h[i - 1] \in Bridges
      BY <2>3 DEF Builds
    <3>2. QED
      BY <2>1, <3>1
  <2>6. Is(h)
    <3>1. ASSUME NEW i \in 0 .. count
          PROVE  h[i] = IF i = 0 THEN bridge ELSE OnAudioSample(h[i - 1], made + i)
      BY <2>4, <2>5
    <3>2. QED
      BY <2>4, <3>1
  <2>7. QED
    BY <2>6
<1>2. PICK h : h = CHOOSE ring : Is(ring)
  OBVIOUS
<1>3. Is(h)
  <2> HIDE DEF Is
  <2>1. QED
    BY <1>1, <1>2
<1>4. RunFrame(count) = h[count]
  BY <1>2 DEF RunFrame
<1>5. h[0] = bridge
  BY <1>3
<1>6. ASSUME NEW i \in 1 .. count PROVE h[i] = OnAudioSample(h[i - 1], made + i)
  BY <1>3
<1>7. h \in [0 .. count -> Bridges]
  <2> DEFINE S == {i \in 0 .. count : h[i] \in Bridges}
  <2>1. 0 \in S
    BY <1>5
  <2>2. ASSUME NEW i \in 0 .. (count - 1), i \in S PROVE i + 1 \in S
    <3>1. h[i + 1] = OnAudioSample(h[i], made + (i + 1))
      BY <1>6
    <3>2. made + (i + 1) \in Nat /\ h[i] \in Bridges
      BY <2>2
    <3>3. h[i + 1] \in Bridges
      BY <3>1, <3>2, SampleStays
    <3>4. QED
      BY <3>3
  <2>3. 0 .. count \subseteq S
    <3> HIDE DEF S
    <3>1. QED
      BY <2>1, <2>2, SetInduction
  <2>4. h = [i \in 0 .. count |-> h[i]]
    BY <1>3
  <2>5. QED
    BY <2>3, <2>4
<1>8. QED
  BY <1>4, <1>5, <1>6, <1>7

\* The frames a run makes.
Made(count) == [i \in 1 .. count |-> made + i]

LEMMA MadeInOrder ==
  ASSUME made \in Nat, NEW count \in Nat
  PROVE  InOrder(Made(count)) /\ Len(Made(count)) = count
<1>1. Made(count) \in [1 .. count -> Nat]
  BY DEF Made
<1>2. Made(count) \in Seq(Nat) /\ Len(Made(count)) = count
  BY <1>1, IsASeq, LenProperties DEF Made
<1>3. QED
  BY <1>2 DEF InOrder, Made

LEMMA RunFeeds ==
  ASSUME made \in Nat, NEW count \in Nat, bridge \in Bridges, InOrder(ReadAudio(bridge)),
         \A f \in FramesOf(ReadAudio(bridge)) : f \in Nat /\ f <= made
  PROVE  /\ RunFrame(count) \in Bridges
         /\ Fed(ReadAudio(bridge), Made(count), count, ReadAudio(RunFrame(count)), SmallestRing)
<1>1. PICK h \in [0 .. count -> Bridges] :
            /\ h[0] = bridge /\ RunFrame(count) = h[count]
            /\ \A i \in 1 .. count : h[i] = OnAudioSample(h[i - 1], made + i)
  BY RunUnfolds
<1> DEFINE S == {n \in 0 .. count : Fed(ReadAudio(bridge), Made(count), n, ReadAudio(h[n]), SmallestRing)}
<1>2. 0 \in S
  BY <1>1, FedNone
<1>3. ASSUME NEW n \in 0 .. (count - 1), n \in S PROVE n + 1 \in S
  <2>1. h[n] \in Bridges /\ n \in Nat /\ n < Len(Made(count)) /\ h[n + 1] = OnAudioSample(h[n], made + (n + 1))
    BY <1>1, MadeInOrder
  <2>2. PICK frame \in Nat : frame = made + (n + 1) /\ frame = Made(count)[n + 1]
    <3>1. n + 1 \in 1 .. count
      OBVIOUS
    <3>2. QED
      BY <3>1 DEF Made
  <2>3. \A f \in FramesOf(ReadAudio(bridge)), i \in 1 .. Len(Made(count)) : f < Made(count)[i]
    BY MadeInOrder DEF Made
  <2>4. Fed(ReadAudio(bridge), Made(count), n, ReadAudio(h[n]), SmallestRing)
    BY <1>3
  <2>5. /\ \A f \in FramesOf(ReadAudio(h[n])) : f < frame
        /\ Takes(ReadAudio(h[n]), frame, ReadAudio(h[n + 1]), SmallestRing)
             => Fed(ReadAudio(bridge), Made(count), n + 1, ReadAudio(h[n + 1]), SmallestRing)
    <3>1. FramesOf(ReadAudio(bridge)) \subseteq Nat
      OBVIOUS
    <3>2. InOrder(Made(count)) /\ SmallestRing \in Nat /\ n \in Nat /\ n < Len(Made(count))
      BY <2>1, RingSizes, MadeInOrder
    <3>3. /\ \A f \in FramesOf(ReadAudio(h[n])) : f < Made(count)[n + 1]
          /\ Takes(ReadAudio(h[n]), Made(count)[n + 1], ReadAudio(h[n + 1]), SmallestRing)
               => Fed(ReadAudio(bridge), Made(count), n + 1, ReadAudio(h[n + 1]), SmallestRing)
      BY <2>3, <2>4, <3>1, <3>2, FedMore
    <3>4. QED
      BY <2>2, <3>3
  <2>6. InOrder(ReadAudio(h[n]))
    BY <2>4 DEF Fed
  <2>7. Takes(ReadAudio(h[n]), frame, ReadAudio(h[n + 1]), SmallestRing)
    BY <2>1, <2>2, <2>5, <2>6, BridgeTakes
  <2>8. QED
    BY <2>5, <2>7
<1>4. count \in S
  <2> HIDE DEF S
  <2>1. 0 .. count \subseteq S
    BY <1>2, <1>3, SetInduction
  <2>2. QED
    BY <2>1
<1>5. QED
  BY <1>1, <1>4

LEMMA MessageUnfolds ==
  ASSUME worklet \in Worklets, NEW frames \in Seq(Nat)
  PROVE  \E h \in [0 .. Len(frames) -> Worklets] :
            /\ h[0] = worklet /\ AddFrames(frames) = h[Len(frames)]
            /\ \A i \in 1 .. Len(frames) : h[i] = AddFrame(h[i - 1], frames[i])
<1> DEFINE Is(ring) == ring = [n \in 0 .. Len(frames) |->
                                  IF n = 0 THEN worklet ELSE AddFrame(ring[n - 1], frames[n])]
<1>1. PICK count \in Nat : count = Len(frames)
  BY LenProperties
<1>2. \A i \in 1 .. count : frames[i] \in Nat
  BY <1>1, ElementOfSeq
<1>3. \E ring : Is(ring)
  <2>1. PICK steps : steps = [i \in 1 .. count |-> [ring \in Worklets |-> AddFrame(ring, frames[i])]]
    OBVIOUS
  <2>2. steps \in [1 .. count -> [Worklets -> Worklets]]
    <3>1. ASSUME NEW i \in 1 .. count, NEW ring \in Worklets PROVE AddFrame(ring, frames[i]) \in Worklets
      BY <1>2, FrameStays
    <3>2. QED
      BY <2>1, <3>1
  <2>3. PICK h : Builds(h, steps, worklet, count, Worklets)
    BY <2>2, Building
  <2>4. h \in [0 .. count -> Worklets] /\ h[0] = worklet
    BY <2>3 DEF Builds
  <2>5. ASSUME NEW i \in 1 .. count PROVE h[i] = AddFrame(h[i - 1], frames[i])
    <3>1. h[i] = steps[i][h[i - 1]] /\ h[i - 1] \in Worklets
      BY <2>3 DEF Builds
    <3>2. QED
      BY <2>1, <3>1
  <2>6. Is(h)
    <3>1. ASSUME NEW i \in 0 .. count
          PROVE  h[i] = IF i = 0 THEN worklet ELSE AddFrame(h[i - 1], frames[i])
      BY <2>4, <2>5
    <3>2. QED
      BY <1>1, <2>4, <3>1
  <2>7. QED
    BY <2>6
<1>4. PICK h : h = CHOOSE ring : Is(ring)
  OBVIOUS
<1>5. Is(h)
  <2> HIDE DEF Is
  <2>1. QED
    BY <1>3, <1>4
<1>6. AddFrames(frames) = h[count]
  BY <1>1, <1>4 DEF AddFrames
<1>7. h[0] = worklet
  BY <1>1, <1>5
<1>8. ASSUME NEW i \in 1 .. count PROVE h[i] = AddFrame(h[i - 1], frames[i])
  BY <1>1, <1>5
<1>9. h \in [0 .. count -> Worklets]
  <2> DEFINE S == {i \in 0 .. count : h[i] \in Worklets}
  <2>1. 0 \in S
    BY <1>7
  <2>2. ASSUME NEW i \in 0 .. (count - 1), i \in S PROVE i + 1 \in S
    <3>1. h[i + 1] = AddFrame(h[i], frames[i + 1])
      BY <1>8
    <3>2. frames[i + 1] \in Nat /\ h[i] \in Worklets
      BY <1>2, <2>2
    <3>3. h[i + 1] \in Worklets
      BY <3>1, <3>2, FrameStays
    <3>4. QED
      BY <3>3
  <2>3. 0 .. count \subseteq S
    <3> HIDE DEF S
    <3>1. QED
      BY <2>1, <2>2, SetInduction
  <2>4. h = [i \in 0 .. count |-> h[i]]
    BY <1>1, <1>5
  <2>5. QED
    BY <2>3, <2>4
<1>10. QED
  BY <1>1, <1>6, <1>7, <1>8, <1>9

LEMMA MessageFeeds ==
  ASSUME WorkletOK(worklet), InOrder(WorkletHas(worklet)), NEW frames, InOrder(frames),
         \A f \in FramesOf(WorkletHas(worklet)), i \in 1 .. Len(frames) : f < frames[i]
  PROVE  /\ WorkletOK(AddFrames(frames))
         /\ Fed(WorkletHas(worklet), frames, Len(frames), WorkletHas(AddFrames(frames)), SmallestRing)
<1>1. frames \in Seq(Nat) /\ \A i \in 1 .. Len(frames) : frames[i] \in Nat
  BY ElementOfSeq DEF InOrder
<1>2. PICK count \in Nat : count = Len(frames)
  BY <1>1, LenProperties
<1>3. PICK h \in [0 .. count -> Worklets] :
            /\ h[0] = worklet /\ AddFrames(frames) = h[count]
            /\ \A i \in 1 .. count : h[i] = AddFrame(h[i - 1], frames[i])
  BY <1>1, <1>2, MessageUnfolds DEF WorkletOK
<1> DEFINE S == {n \in 0 .. count : /\ WorkletOK(h[n])
                                    /\ Fed(WorkletHas(worklet), frames, n, WorkletHas(h[n]), SmallestRing)}
<1>4. 0 \in S
  BY <1>3, FedNone
<1>5. ASSUME NEW n \in 0 .. (count - 1), n \in S PROVE n + 1 \in S
  <2>1. WorkletOK(h[n]) /\ n \in Nat /\ n < Len(frames)
        /\ Fed(WorkletHas(worklet), frames, n, WorkletHas(h[n]), SmallestRing)
    BY <1>2, <1>5
  <2>2. PICK frame \in Nat : frame = frames[n + 1]
    BY <1>1, <1>2
  <2>3. h[n + 1] = AddFrame(h[n], frame)
    BY <1>3, <2>2
  <2>4. FramesOf(WorkletHas(worklet)) \subseteq Nat
    <3>1. WorkletHas(worklet) \in Seq(Nat)
      BY DEF InOrder
    <3>2. QED
      BY <3>1, ElementOfSeq DEF FramesOf
  <2>5. /\ \A f \in FramesOf(WorkletHas(h[n])) : f < frame
        /\ Takes(WorkletHas(h[n]), frame, WorkletHas(h[n + 1]), SmallestRing)
             => Fed(WorkletHas(worklet), frames, n + 1, WorkletHas(h[n + 1]), SmallestRing)
    BY <2>1, <2>2, <2>4, RingSizes, FedMore
  <2>6. InOrder(WorkletHas(h[n]))
    BY <2>1 DEF Fed
  <2>7. WorkletOK(h[n + 1]) /\ Takes(WorkletHas(h[n]), frame, WorkletHas(h[n + 1]), SmallestRing)
    BY <2>1, <2>3, <2>5, <2>6, WorkletTakes
  <2>8. QED
    BY <2>5, <2>7
<1>6. count \in S
  <2> HIDE DEF S
  <2>1. 0 .. count \subseteq S
    BY <1>4, <1>5, SetInduction
  <2>2. QED
    BY <2>1
<1>7. QED
  BY <1>2, <1>3, <1>6

-----------------------------------------------------------------------------
\* The first n frames are taken from a ring.
Holds(size, start, count, buf) ==
    /\ size \in Nat /\ start \in 0 .. size - 1 /\ count \in 1 .. size
    /\ buf \in [0 .. size - 1 -> Nat]

LEMMA RingDrains ==
  ASSUME NEW size, NEW start, NEW count, NEW buf, Holds(size, start, count, buf),
         NEW n \in 1 .. count, NEW write, Behind(size, start, count, write), NEW at, Behind(size, start, n, at)
  PROVE  /\ at \in 0 .. size - 1 /\ Behind(size, at, count - n, write)
         /\ \A i \in 1 .. count - n :
                FramesFrom(buf, at, size, count - n)[i] = FramesFrom(buf, start, size, count)[i + n]
<1>1. /\ size \in Nat /\ size > 0 /\ start \in Nat /\ count \in Nat /\ n \in Nat
      /\ start < size /\ n <= count /\ count <= size /\ n > 0
  BY DEF Holds
<1>2. PICK far \in Nat : far = start + n /\ far < 2 * size
  BY <1>1
<1>3. at = IF far < size THEN far ELSE far - size
  BY <1>1, <1>2, Wrap DEF Behind
<1>4. at \in 0 .. size - 1 /\ at \in Nat
  BY <1>1, <1>2, <1>3
<1>5. Behind(size, at, count - n, write)
  <2>1. PICK end \in Nat : end = start + count /\ end < 2 * size
    BY <1>1
  <2>2. write = IF end < size THEN end ELSE end - size
    BY <1>1, <2>1, Wrap DEF Behind
  <2>3. PICK last \in Nat : last = at + (count - n) /\ last < 2 * size
    BY <1>1, <1>4
  <2>4. last % size = IF last < size THEN last ELSE last - size
    BY <1>1, <2>3, Wrap
  <2>5. write = last % size
    BY <1>1, <1>2, <1>3, <2>1, <2>2, <2>3, <2>4
  <2>6. QED
    BY <2>3, <2>5 DEF Behind
<1>6. ASSUME NEW i \in 1 .. count - n
      PROVE  FramesFrom(buf, at, size, count - n)[i] = FramesFrom(buf, start, size, count)[i + n]
  <2>1. PICK new \in Nat : new = at + i - 1 /\ new < 2 * size
    BY <1>1, <1>4
  <2>2. PICK old \in Nat : old = start + (i + n) - 1 /\ old < 2 * size
    BY <1>1
  <2>3. new % size = (IF new < size THEN new ELSE new - size)
        /\ old % size = (IF old < size THEN old ELSE old - size)
    BY <1>1, <2>1, <2>2, Wrap
  <2>4. new % size = old % size
    BY <1>1, <1>2, <1>3, <2>1, <2>2, <2>3
  <2>5. i + n \in 1 .. count
    BY <1>1
  <2>6. FramesFrom(buf, at, size, count - n)[i] = buf[new % size]
    BY <2>1 DEF FramesFrom
  <2>7. FramesFrom(buf, start, size, count)[i + n] = buf[old % size]
    BY <2>2, <2>5 DEF FramesFrom
  <2>8. QED
    BY <2>4, <2>6, <2>7
<1>7. QED
  BY <1>4, <1>5, <1>6

\* What is left behind the n-th frame are the newer ones.
LEMMA RestInOrder ==
  ASSUME NEW old, InOrder(old), NEW n \in 1 .. Len(old), NEW new \in Seq(Nat), Len(new) = Len(old) - n,
         \A i \in 1 .. Len(new) : new[i] = old[i + n]
  PROVE  /\ InOrder(new) /\ old[n] \in FramesOf(old)
         /\ FramesOf(new) = {later \in FramesOf(old) : later > old[n]}
<1>1. old \in Seq(Nat) /\ Len(old) \in Nat /\ \A i \in 1 .. Len(old) : old[i] \in Nat
  BY ElementOfSeq, LenProperties DEF InOrder
<1>2. \A i \in 1 .. Len(new) : i + n \in 1 .. Len(old) /\ i \in Nat
  BY <1>1
<1>3. ASSUME NEW i \in 1 .. Len(new), NEW j \in 1 .. Len(new), i <= j
      PROVE  new[j] - new[i] >= j - i
  <2>1. i + n \in 1 .. Len(old) /\ j + n \in 1 .. Len(old) /\ i + n <= j + n
    BY <1>2, <1>3
  <2>2. old[j + n] - old[i + n] >= (j + n) - (i + n)
    BY <2>1 DEF InOrder
  <2>3. (j + n) - (i + n) = j - i
    OBVIOUS
  <2>4. QED
    BY <2>2, <2>3
<1>4. ASSUME NEW i \in 1 .. Len(new) PROVE new[i] \in FramesOf(old) /\ new[i] > old[n]
  <2>1. i + n \in 1 .. Len(old) /\ n <= i + n /\ new[i] = old[i + n] /\ (i + n) - n = i
    BY <1>2
  <2>2. old[i + n] - old[n] >= (i + n) - n
    BY <2>1 DEF InOrder
  <2>3. new[i] \in FramesOf(old)
    BY <2>1 DEF FramesOf
  <2>4. QED
    BY <1>1, <2>1, <2>2, <2>3, SMTT(30)
<1>5. ASSUME NEW later \in FramesOf(old), later > old[n] PROVE later \in FramesOf(new)
  <2>1. PICK i \in 1 .. Len(old) : later = old[i]
    BY <1>5 DEF FramesOf
  <2>2. CASE i <= n
    <3>1. old[n] - old[i] >= n - i
      BY <2>2 DEF InOrder
    <3>2. QED
      BY <1>1, <1>5, <2>1, <2>2, <3>1
  <2>3. CASE i > n
    <3>1. i - n \in 1 .. Len(new) /\ (i - n) + n = i
      BY <1>1, <2>3
    <3>2. new[i - n] = later
      BY <2>1, <3>1
    <3>3. QED
      BY <3>1, <3>2 DEF FramesOf
  <2>4. QED
    BY <1>1, <2>2, <2>3
<1>6. FramesOf(new) = {later \in FramesOf(old) : later > old[n]}
  BY <1>4, <1>5 DEF FramesOf
<1>7. old[n] \in FramesOf(old)
  BY DEF FramesOf
<1>8. QED
  BY <1>3, <1>6, <1>7 DEF InOrder

\* after is the worklet's ring without its first n frames.
Drained(n, after) == after = [worklet EXCEPT !.readPos = (@ + n) % RingFrames, !.count = @ - n]

LEMMA WorkletDrains ==
  ASSUME WorkletOK(worklet), InOrder(WorkletHas(worklet)), NEW n \in Nat, n > 0, n <= worklet.count,
         NEW after, Drained(n, after),
         NEW frame, frame = worklet.buf[(worklet.readPos + n - 1) % RingFrames]
  PROVE  /\ WorkletOK(after) /\ InOrder(WorkletHas(after)) /\ frame \in FramesOf(WorkletHas(worklet))
         /\ FramesOf(WorkletHas(after)) = {later \in FramesOf(WorkletHas(worklet)) : later > frame}
<1>1. PICK buf \in WorkletBuffers, start \in WorkletPlaces, write \in WorkletPlaces, count \in Counts :
        worklet = [buf |-> buf, readPos |-> start, writePos |-> write, count |-> count]
  BY DEF Worklets, WorkletOK
<1>2. /\ RingFrames \in Nat /\ start \in 0 .. RingFrames - 1 /\ count \in 1 .. RingFrames
      /\ n \in 1 .. count /\ count - n \in Counts /\ WorkletPlaces = 0 .. RingFrames - 1
  BY <1>1, RingSizes DEF WorkletPlaces, Counts
<1>3. Behind(RingFrames, start, count, write)
  BY <1>1 DEF WorkletOK, Behind
<1>4. PICK at : at = (start + n) % RingFrames
  OBVIOUS
<1>5. Behind(RingFrames, start, n, at)
  BY <1>4 DEF Behind
<1>6. /\ at \in WorkletPlaces /\ Behind(RingFrames, at, count - n, write)
      /\ \A i \in 1 .. count - n :
             FramesFrom(buf, at, RingFrames, count - n)[i] = FramesFrom(buf, start, RingFrames, count)[i + n]
  <2>1. buf \in [0 .. RingFrames - 1 -> Nat]
    BY <1>2 DEF WorkletBuffers
  <2>2. Holds(RingFrames, start, count, buf) /\ n \in 1 .. count
    BY <1>2, <2>1 DEF Holds
  <2>3. /\ at \in 0 .. RingFrames - 1 /\ Behind(RingFrames, at, count - n, write)
        /\ \A i \in 1 .. count - n :
               FramesFrom(buf, at, RingFrames, count - n)[i] = FramesFrom(buf, start, RingFrames, count)[i + n]
    BY <1>3, <1>5, <2>2, RingDrains
  <2>4. QED
    BY <1>2, <2>3
<1>7. after = [buf |-> buf, readPos |-> at, writePos |-> write, count |-> count - n]
  BY <1>1, <1>4 DEF Drained
<1>8. WorkletOK(after)
  <2>1. after \in Worklets
    BY <1>2, <1>6, <1>7 DEF Worklets
  <2>2. write = (at + (count - n)) % RingFrames
    BY <1>6 DEF Behind
  <2>3. QED
    BY <1>7, <2>1, <2>2 DEF WorkletOK
<1>9. WorkletHas(worklet) = FramesFrom(buf, start, RingFrames, count) /\ Len(WorkletHas(worklet)) = count
  BY <1>1, WorkletContent DEF WorkletHas, WorkletOK
<1>10. WorkletHas(after) = FramesFrom(buf, at, RingFrames, count - n)
       /\ WorkletHas(after) \in Seq(Nat) /\ Len(WorkletHas(after)) = count - n
  <2>1. after \in Worklets /\ after.count = count - n
    BY <1>7, <1>8 DEF WorkletOK
  <2>2. WorkletHas(after) = FramesFrom(buf, at, RingFrames, count - n)
    BY <1>7 DEF WorkletHas
  <2>3. QED
    BY <2>1, <2>2, WorkletContent
<1>11. frame = WorkletHas(worklet)[n]
  BY <1>1, <1>2, <1>9 DEF FramesFrom
<1>12. \A i \in 1 .. Len(WorkletHas(after)) : WorkletHas(after)[i] = WorkletHas(worklet)[i + n]
  BY <1>6, <1>9, <1>10
<1>13. n \in 1 .. Len(WorkletHas(worklet)) /\ Len(WorkletHas(after)) = Len(WorkletHas(worklet)) - n
  BY <1>2, <1>9, <1>10
<1>14. QED
  BY <1>8, <1>10, <1>11, <1>12, <1>13, RestInOrder, SMTT(30)

-----------------------------------------------------------------------------
(***************************************************************************)
(* The invariant of the sound: the frames of each ring and of each message *)
(* are in order; those of the worklet are older than those of the messages,*)
(* these than the messages behind them, and all than the bridge's.         *)
(***************************************************************************)
Before(A, B) == \A f \in A, g \in B : f < g

AudioTypes ==
    /\ bridge \in Bridges /\ WorkletOK(worklet)
    /\ posted \in Seq(Seq(Nat))
    /\ made \in Nat

EachInOrder ==
    /\ InOrder(InWorklet) /\ InOrder(InBridge)
    /\ \A k \in 1 .. Len(posted) : InOrder(posted[k])

AllInTurn ==
    /\ Before(FramesOf(InWorklet), InMessages) /\ Before(FramesOf(InWorklet), FramesOf(InBridge))
    /\ Before(InMessages, FramesOf(InBridge))
    /\ \A j, k \in 1 .. Len(posted) : j < k => Before(FramesOf(posted[j]), FramesOf(posted[k]))

OnTheWay == FramesOf(InWorklet) \cup InMessages \cup FramesOf(InBridge)

AudioInv == AudioTypes /\ EachInOrder /\ AllInTurn /\ \A f \in OnTheWay : f \in Nat /\ f <= made

LEMMA MessagesSeq ==
  ASSUME AudioTypes
  PROVE  /\ Len(posted) \in Nat
         /\ \A k \in 1 .. Len(posted) : posted[k] \in Seq(Nat) /\ FramesOf(posted[k]) \subseteq InMessages
         /\ \A f \in InMessages : \E k \in 1 .. Len(posted) : f \in FramesOf(posted[k])
<1>1. posted \in Seq(Seq(Nat))
  BY DEF AudioTypes
<1>2. Len(posted) \in Nat /\ \A k \in 1 .. Len(posted) : posted[k] \in Seq(Nat)
  BY <1>1, LenProperties, ElementOfSeq
<1>3. QED
  BY <1>2 DEF InMessages

LEMMA NoFrames ==
  ASSUME NEW frames \in Seq(Nat), Len(frames) = 0
  PROVE  InOrder(frames) /\ FramesOf(frames) = {}
BY DEF InOrder, FramesOf

\* A bridge's ring that may come of the present one, with newMade frames made.
Ran(ring, newMade) ==
    /\ ring \in Bridges /\ InOrder(ReadAudio(ring))
    /\ newMade \in Nat /\ newMade >= made
    /\ LET coming == FramesOf(InBridge) \cup (made + 1 .. newMade) IN
        /\ FramesOf(ReadAudio(ring)) \subseteq coming
        /\ \A lost \in coming \ FramesOf(ReadAudio(ring)) : lost <= newMade - SmallestRing

LEMMA RunRan ==
  ASSUME AudioInv, NEW count \in Nat
  PROVE  Ran(RunFrame(count), made + count)
<1>1. made \in Nat /\ bridge \in Bridges /\ InBridge = ReadAudio(bridge) /\ InOrder(ReadAudio(bridge))
  BY DEF AudioInv, AudioTypes, EachInOrder, InBridge
<1>2. \A f \in FramesOf(ReadAudio(bridge)) : f \in Nat /\ f <= made
  BY <1>1 DEF AudioInv, OnTheWay
<1>3. PICK ring : ring = RunFrame(count)
  OBVIOUS
<1>4. ring \in Bridges
      /\ Fed(ReadAudio(bridge), Made(count), count, ReadAudio(ring), SmallestRing)
  BY <1>1, <1>2, <1>3, RunFeeds
<1>5. FirstOf(Made(count), count) = made + 1 .. made + count
  <2>1. \A i \in 1 .. count : Made(count)[i] = made + i
    BY DEF Made
  <2>2. \A f \in made + 1 .. made + count : f - made \in 1 .. count /\ made + (f - made) = f
    BY <1>1
  <2>3. \A i \in 1 .. count : made + i \in made + 1 .. made + count
    BY <1>1
  <2>4. QED
    BY <2>1, <2>2, <2>3 DEF FirstOf
<1>6. count > 0 => Made(count)[count] = made + count
  BY DEF Made
<1>7. ASSUME NEW lost \in (FramesOf(InBridge) \cup (made + 1 .. made + count)) \ FramesOf(ReadAudio(ring))
      PROVE  lost <= made + count - SmallestRing
  <2>1. count > 0 /\ lost + SmallestRing <= Made(count)[count]
    BY <1>1, <1>4, <1>5, <1>7 DEF Fed
  <2>2. lost \in Nat
    BY <1>1, <1>2, <1>7
  <2>3. QED
    BY <1>1, <1>6, <2>1, <2>2, RingSizes
<1>8. made + count \in Nat /\ made + count >= made
  BY <1>1
<1>9. QED
  <2>1. InOrder(ReadAudio(ring))
        /\ FramesOf(ReadAudio(ring)) \subseteq FramesOf(InBridge) \cup (made + 1 .. made + count)
    BY <1>1, <1>4, <1>5 DEF Fed
  <2>2. Ran(ring, made + count)
    <3>1. PICK newMade, coming : newMade = made + count /\ coming = FramesOf(InBridge) \cup (made + 1 .. newMade)
      OBVIOUS
    <3>2. FramesOf(ReadAudio(ring)) \subseteq coming
      BY <2>1, <3>1
    <3>3. \A lost \in coming \ FramesOf(ReadAudio(ring)) : lost <= newMade - SmallestRing
      <4>1. ASSUME NEW lost \in coming \ FramesOf(ReadAudio(ring)) PROVE lost <= newMade - SmallestRing
        <5>1. lost \in (FramesOf(InBridge) \cup (made + 1 .. made + count)) \ FramesOf(ReadAudio(ring))
          BY <3>1, <4>1
        <5>2. lost <= made + count - SmallestRing
          BY <1>7, <5>1
        <5>3. QED
          BY <1>1, <3>1, <5>2, RingSizes
      <4>2. QED
        BY <4>1
    <3>4. newMade \in Nat /\ newMade >= made
      BY <1>8, <3>1
    <3>5. Ran(ring, newMade)
      BY <1>4, <2>1, <3>1, <3>2, <3>3, <3>4 DEF Ran
    <3>6. QED
      BY <3>1, <3>5
  <2>3. QED
    BY <1>3, <2>2

LEMMA NotRun ==
  ASSUME AudioInv
  PROVE  Ran(bridge, made)
BY DEF AudioInv, AudioTypes, EachInOrder, InBridge, Ran

\* The frames of a ring that ran are newer than what is before them.
LEMMA RanInTurn ==
  ASSUME AudioInv, NEW ring, NEW newMade, Ran(ring, newMade)
  PROVE  /\ Before(FramesOf(InWorklet), FramesOf(ReadAudio(ring)))
         /\ Before(InMessages, FramesOf(ReadAudio(ring)))
         /\ \A f \in FramesOf(ReadAudio(ring)) : f \in Nat /\ f <= newMade
<1>1. made \in Nat /\ newMade \in Nat /\ made <= newMade
  BY DEF AudioInv, AudioTypes, Ran
<1>2. \A f \in OnTheWay : f \in Nat /\ f <= made
  BY DEF AudioInv
<1>3. FramesOf(ReadAudio(ring)) \subseteq FramesOf(InBridge) \cup (made + 1 .. newMade)
  BY DEF Ran
<1>4. Before(FramesOf(InWorklet), FramesOf(InBridge)) /\ Before(InMessages, FramesOf(InBridge))
  BY DEF AudioInv, AllInTurn
<1>5. ASSUME NEW f \in FramesOf(ReadAudio(ring)) PROVE f \in Nat /\ f <= newMade
  <2>1. CASE f \in FramesOf(InBridge)
    <3>1. f \in Nat /\ f <= made
      BY <1>2, <2>1 DEF OnTheWay
    <3>2. QED
      BY <1>1, <3>1
  <2>2. CASE f \in made + 1 .. newMade
    BY <1>1, <2>2
  <2>3. QED
    BY <1>3, <2>1, <2>2
<1>6. ASSUME NEW A, A \subseteq OnTheWay, Before(A, FramesOf(InBridge))
      PROVE  Before(A, FramesOf(ReadAudio(ring)))
  <2>1. ASSUME NEW f \in A, NEW g \in FramesOf(ReadAudio(ring)) PROVE f < g
    <3>1. CASE g \in FramesOf(InBridge)
      BY <1>6, <3>1 DEF Before
    <3>2. CASE g \in made + 1 .. newMade
      <4>1. f \in Nat /\ f <= made
        BY <1>2, <1>6
      <4>2. QED
        BY <1>1, <3>2, <4>1
    <3>3. QED
      BY <1>3, <3>1, <3>2
  <2>2. QED
    BY <2>1 DEF Before
<1>7. FramesOf(InWorklet) \subseteq OnTheWay /\ InMessages \subseteq OnTheWay
  BY DEF OnTheWay
<1>8. QED
  BY <1>4, <1>5, <1>6, <1>7

\* All that is in the bridge is posted.
LEMMA PumpPosts ==
  ASSUME AudioTypes, NEW ring \in Bridges, InOrder(ReadAudio(ring)), PumpAudio(ring)
  PROVE  /\ bridge' \in Bridges /\ InOrder(InBridge') /\ FramesOf(InBridge') = {}
         /\ posted' \in Seq(Seq(Nat))
         /\ \/ posted' = posted /\ FramesOf(ReadAudio(ring)) = {}
            \/ /\ Len(posted') = Len(posted) + 1
               /\ \A k \in 1 .. Len(posted) : posted'[k] = posted[k]
               /\ posted'[Len(posted) + 1] = ReadAudio(ring)
<1>1. PICK buf \in BridgeBuffers, write \in BridgePlaces, read \in BridgePlaces :
        ring = [buf |-> buf, write |-> write, read |-> read]
  BY DEF Bridges
<1>2. PICK after : after = bridge'
  OBVIOUS
<1>3. after = [buf |-> buf, write |-> write, read |-> write]
  BY <1>1, <1>2 DEF PumpAudio
<1>4. after \in Bridges
  BY <1>3 DEF Bridges
<1>5. PICK n : n = (write + BridgeFrames - write) % BridgeFrames
  OBVIOUS
<1>6. n = write - write
  BY <1>5, BridgeFill, RingSizes DEF BridgePlaces
<1>7. n = 0
  BY <1>6, RingSizes DEF BridgePlaces
<1>8. AudioAvailable(after) = 0
  BY <1>3, <1>5, <1>7 DEF AudioAvailable
<1>9. InOrder(ReadAudio(after)) /\ FramesOf(ReadAudio(after)) = {}
  BY <1>4, <1>8, BridgeContent, NoFrames
<1>10. InBridge' = ReadAudio(after)
  BY <1>2 DEF InBridge, ReadAudio, AudioAvailable, FramesFrom
<1>11. AudioAvailable(ring) \in Nat /\ ReadAudio(ring) \in Seq(Nat) /\ Len(ReadAudio(ring)) = AudioAvailable(ring)
  BY BridgeContent, RingSizes DEF BridgePlaces
<1>12. posted \in Seq(Seq(Nat))
  BY DEF AudioTypes
<1>13. posted' = IF AudioAvailable(ring) > 0 THEN Append(posted, ReadAudio(ring)) ELSE posted
  BY DEF PumpAudio
<1>14. CASE AudioAvailable(ring) > 0
  <2>1. posted' = Append(posted, ReadAudio(ring))
    BY <1>13, <1>14
  <2>2. posted' \in Seq(Seq(Nat)) /\ Len(posted') = Len(posted) + 1
        /\ (\A k \in 1 .. Len(posted) : posted'[k] = posted[k])
        /\ posted'[Len(posted) + 1] = ReadAudio(ring)
    BY <1>11, <1>12, <2>1, AppendProperties
  <2>3. QED
    BY <1>2, <1>4, <1>9, <1>10, <2>2
<1>15. CASE ~(AudioAvailable(ring) > 0)
  <2>1. posted' = posted /\ FramesOf(ReadAudio(ring)) = {}
    BY <1>11, <1>13, <1>15, NoFrames
  <2>2. QED
    BY <1>2, <1>4, <1>9, <1>10, <1>12, <2>1
<1>16. QED
  BY <1>14, <1>15

LEMMA CarryIs ==
  ASSUME NEW way, way = OnTheWay, NEW way2, way2 = OnTheWay', made' >= made, heard' = heard,
         way2 \subseteq way \cup (made + 1 .. made'),
         \A lost \in (way \cup (made + 1 .. made')) \ way2 : lost <= made' - SmallestRing
  PROVE  Promise!Carry
BY DEF Promise!Carry, OnTheWay

\* A run whose sound stays in the bridge.
LEMMA RunCarries ==
  ASSUME AudioInv, NEW ring, NEW newMade, Ran(ring, newMade), bridge' = ring, made' = newMade,
         UNCHANGED <<posted, worklet, heard>>
  PROVE  AudioInv' /\ Promise!Carry
<1>1. InBridge' = ReadAudio(ring) /\ InWorklet' = InWorklet /\ InMessages' = InMessages
  BY DEF InBridge, ReadAudio, AudioAvailable, FramesFrom, InWorklet, InMessages, FramesOf
<1>2. PICK B, W, M : B = FramesOf(ReadAudio(ring)) /\ W = FramesOf(InWorklet) /\ M = InMessages
  OBVIOUS
<1>3. /\ Before(W, B) /\ Before(M, B) /\ \A f \in B : f \in Nat /\ f <= newMade
      /\ ring \in Bridges /\ InOrder(ReadAudio(ring)) /\ newMade \in Nat /\ newMade >= made
  BY <1>2, RanInTurn DEF Ran
<1>4. OnTheWay' = W \cup M \cup B
  BY <1>1, <1>2 DEF OnTheWay, FramesOf
<1>5. AudioTypes'
  BY <1>3 DEF AudioInv, AudioTypes, WorkletOK
<1>6. EachInOrder'
  BY <1>1, <1>3 DEF AudioInv, EachInOrder, InOrder
<1>7. AllInTurn'
  BY <1>1, <1>2, <1>3 DEF AudioInv, AllInTurn, Before, FramesOf
<1>8. \A f \in OnTheWay' : f \in Nat /\ f <= newMade
  BY <1>2, <1>3, <1>4 DEF AudioInv, AudioTypes, OnTheWay
<1>9. Promise!Carry
  <2>1. PICK way, way2 : way = OnTheWay /\ way2 = OnTheWay'
    OBVIOUS
  <2>2. way = W \cup M \cup FramesOf(InBridge) /\ way2 = W \cup M \cup B
    BY <1>2, <1>4, <2>1 DEF OnTheWay
  <2>3. /\ B \subseteq FramesOf(InBridge) \cup (made + 1 .. made')
        /\ \A lost \in (FramesOf(InBridge) \cup (made + 1 .. made')) \ B : lost <= made' - SmallestRing
    BY <1>2 DEF Ran
  <2>4. way2 \subseteq way \cup (made + 1 .. made')
    BY <2>2, <2>3
  <2>5. \A lost \in (way \cup (made + 1 .. made')) \ way2 : lost <= made' - SmallestRing
    BY <2>2, <2>3
  <2>6. QED
    BY <1>3, <2>1, <2>4, <2>5, CarryIs
<1>10. QED
  BY <1>5, <1>6, <1>7, <1>8, <1>9 DEF AudioInv

\* A run, or none, whose sound is posted with what the bridge still held.
LEMMA PumpCarries ==
  ASSUME AudioInv, NEW ring, NEW newMade, Ran(ring, newMade), PumpAudio(ring), made' = newMade,
         UNCHANGED <<worklet, heard>>
  PROVE  AudioInv' /\ Promise!Carry
<1>1. AudioTypes /\ made \in Nat
  BY DEF AudioInv, AudioTypes
<1>2. /\ bridge' \in Bridges /\ InOrder(InBridge') /\ FramesOf(InBridge') = {}
      /\ posted' \in Seq(Seq(Nat))
      /\ \/ posted' = posted /\ FramesOf(ReadAudio(ring)) = {}
         \/ /\ Len(posted') = Len(posted) + 1
            /\ \A k \in 1 .. Len(posted) : posted'[k] = posted[k]
            /\ posted'[Len(posted) + 1] = ReadAudio(ring)
  BY <1>1, PumpPosts DEF Ran
<1>3. PICK B, W, M : B = FramesOf(ReadAudio(ring)) /\ W = FramesOf(InWorklet) /\ M = InMessages
  OBVIOUS
<1>4. /\ Before(W, B) /\ Before(M, B) /\ \A f \in B : f \in Nat /\ f <= newMade
      /\ InOrder(ReadAudio(ring)) /\ newMade \in Nat /\ newMade >= made
  BY <1>3, RanInTurn DEF Ran
<1>5. PICK count \in Nat : count = Len(posted)
  BY <1>1, MessagesSeq
<1>6. /\ \A k \in 1 .. count : InOrder(posted[k]) /\ FramesOf(posted[k]) \subseteq M
      /\ \A f \in M : \E k \in 1 .. count : f \in FramesOf(posted[k])
      /\ \A j, k \in 1 .. count : j < k => Before(FramesOf(posted[j]), FramesOf(posted[k]))
      /\ Before(W, M)
  BY <1>1, <1>3, <1>5, MessagesSeq DEF AudioInv, EachInOrder, AllInTurn
<1>7. PICK after : after = posted'
  OBVIOUS
<1>8. /\ \A k \in 1 .. Len(after) : InOrder(after[k])
      /\ UNION {FramesOf(after[k]) : k \in 1 .. Len(after)} = M \cup B
      /\ \A j, k \in 1 .. Len(after) : j < k => Before(FramesOf(after[j]), FramesOf(after[k]))
  <2>1. CASE posted' = posted /\ FramesOf(ReadAudio(ring)) = {}
    BY <1>3, <1>5, <1>6, <1>7, <2>1 DEF InMessages
  <2>2. CASE /\ Len(posted') = Len(posted) + 1
             /\ \A k \in 1 .. Len(posted) : posted'[k] = posted[k]
             /\ posted'[Len(posted) + 1] = ReadAudio(ring)
    <3>1. Len(after) = count + 1 /\ (\A k \in 1 .. count : after[k] = posted[k])
          /\ after[count + 1] = ReadAudio(ring)
      BY <1>5, <1>7, <2>2
    <3>2. 1 .. Len(after) = (1 .. count) \cup {count + 1}
      BY <3>1
    <3>3. \A k \in 1 .. Len(after) : InOrder(after[k])
      BY <1>4, <1>6, <3>1, <3>2
    <3>4. \A k \in 1 .. count : FramesOf(after[k]) = FramesOf(posted[k])
      BY <3>1
    <3>5. FramesOf(after[count + 1]) = B
      BY <1>3, <3>1
    <3>6. UNION {FramesOf(after[k]) : k \in 1 .. Len(after)} = M \cup B
      BY <1>6, <3>2, <3>4, <3>5
    <3>7. ASSUME NEW j \in 1 .. Len(after), NEW k \in 1 .. Len(after), j < k
          PROVE  Before(FramesOf(after[j]), FramesOf(after[k]))
      <4>1. j \in 1 .. count
        BY <3>1, <3>7
      <4>2. CASE k \in 1 .. count
        BY <1>6, <3>4, <3>7, <4>1, <4>2
      <4>3. CASE k = count + 1
        <5>1. FramesOf(after[j]) \subseteq M
          BY <1>6, <3>4, <4>1
        <5>2. QED
          BY <1>4, <3>5, <4>3, <5>1 DEF Before
      <4>4. QED
        BY <3>2, <4>2, <4>3
    <3>8. QED
      BY <3>3, <3>6, <3>7
  <2>3. QED
    BY <1>2, <2>1, <2>2
<1>9. InWorklet' = InWorklet
  BY DEF InWorklet, FramesFrom
<1>10. InMessages' = M \cup B
  BY <1>7, <1>8 DEF InMessages, FramesOf
<1>11. OnTheWay' = W \cup M \cup B
  BY <1>2, <1>3, <1>9, <1>10 DEF OnTheWay, FramesOf
<1>12. AudioTypes'
  BY <1>2, <1>4 DEF AudioInv, AudioTypes, WorkletOK
<1>13. EachInOrder'
  BY <1>2, <1>7, <1>8, <1>9 DEF AudioInv, EachInOrder, InOrder
<1>14. AllInTurn'
  <2>1. Before(W, M \cup B)
    BY <1>4, <1>6 DEF Before
  <2>2. FramesOf(InWorklet)' = W /\ FramesOf(InBridge)' = {}
    BY <1>2, <1>3, <1>9 DEF FramesOf
  <2>3. /\ Before(FramesOf(InWorklet), InMessages)' /\ Before(FramesOf(InWorklet), FramesOf(InBridge))'
        /\ Before(InMessages, FramesOf(InBridge))'
    BY <1>10, <2>1, <2>2 DEF Before
  <2>4. (\A j, k \in 1 .. Len(posted) : j < k => Before(FramesOf(posted[j]), FramesOf(posted[k])))'
    BY <1>7, <1>8 DEF Before, FramesOf
  <2>5. QED
    BY <2>3, <2>4 DEF AllInTurn
<1>15. \A f \in OnTheWay' : f \in Nat /\ f <= newMade
  BY <1>1, <1>3, <1>4, <1>11 DEF AudioInv, OnTheWay
<1>16. Promise!Carry
  <2>1. PICK way, way2 : way = OnTheWay /\ way2 = OnTheWay'
    OBVIOUS
  <2>2. way = W \cup M \cup FramesOf(InBridge) /\ way2 = W \cup M \cup B
    BY <1>3, <1>11, <2>1 DEF OnTheWay
  <2>3. /\ B \subseteq FramesOf(InBridge) \cup (made + 1 .. made')
        /\ \A lost \in (FramesOf(InBridge) \cup (made + 1 .. made')) \ B : lost <= made' - SmallestRing
    BY <1>3 DEF Ran
  <2>4. way2 \subseteq way \cup (made + 1 .. made')
    BY <2>2, <2>3
  <2>5. \A lost \in (way \cup (made + 1 .. made')) \ way2 : lost <= made' - SmallestRing
    BY <2>2, <2>3
  <2>6. QED
    BY <1>4, <2>1, <2>4, <2>5, CarryIs
<1>17. QED
  BY <1>12, <1>13, <1>14, <1>15, <1>16 DEF AudioInv

\* A message goes into the worklet's ring.
LEMMA MessageCarries ==
  ASSUME AudioInv, OnMessage
  PROVE  AudioInv' /\ Promise!Carry
<1>1. AudioTypes /\ made \in Nat /\ posted \in Seq(Seq(Nat)) /\ posted # <<>>
  BY DEF AudioInv, AudioTypes, OnMessage
<1>2. PICK count \in Nat : count = Len(posted) /\ count >= 1
  BY <1>1, MessagesSeq, EmptySeq
<1>3. PICK frames : frames = posted[1]
  OBVIOUS
<1>4. worklet' = AddFrames(frames) /\ posted' = Tail(posted)
  BY <1>1, <1>3 DEF OnMessage
<1>5. PICK after : after = posted'
  OBVIOUS
<1>6. /\ after \in Seq(Seq(Nat)) /\ Len(after) = count - 1
      /\ \A k \in 1 .. Len(after) : after[k] = posted[k + 1]
  BY <1>1, <1>2, <1>4, <1>5, HeadTailProperties
<1>7. PICK B, W, M, F : B = FramesOf(InBridge) /\ W = FramesOf(InWorklet) /\ M = InMessages /\ F = FramesOf(frames)
  OBVIOUS
<1>8. /\ \A k \in 1 .. count : InOrder(posted[k]) /\ FramesOf(posted[k]) \subseteq M
      /\ \A f \in M : \E k \in 1 .. count : f \in FramesOf(posted[k])
      /\ \A j, k \in 1 .. count : j < k => Before(FramesOf(posted[j]), FramesOf(posted[k]))
      /\ Before(W, M) /\ Before(W, B) /\ Before(M, B)
  BY <1>1, <1>2, <1>7, MessagesSeq DEF AudioInv, EachInOrder, AllInTurn
<1>9. 1 \in 1 .. count /\ InOrder(frames) /\ F \subseteq M /\ frames \in Seq(Nat)
  <2>1. 1 \in 1 .. count
    BY <1>2
  <2>2. InOrder(frames) /\ F \subseteq M
    BY <1>3, <1>7, <1>8, <2>1
  <2>3. QED
    BY <2>1, <2>2 DEF InOrder
<1>10. \A f \in OnTheWay : f \in Nat /\ f <= made
  BY DEF AudioInv
<1>11. \A i \in 1 .. Len(frames) : frames[i] \in F
  BY <1>7 DEF FramesOf
<1>12. InWorklet = WorkletHas(worklet) /\ WorkletOK(worklet) /\ InOrder(WorkletHas(worklet))
  BY DEF InWorklet, WorkletHas, AudioInv, AudioTypes, EachInOrder
<1>13. \A f \in FramesOf(WorkletHas(worklet)), i \in 1 .. Len(frames) : f < frames[i]
  BY <1>7, <1>8, <1>9, <1>11, <1>12 DEF Before
<1>14. PICK ring, V : ring = AddFrames(frames) /\ V = FramesOf(WorkletHas(ring))
  OBVIOUS
<1>15. WorkletOK(ring) /\ Fed(WorkletHas(worklet), frames, Len(frames), WorkletHas(ring), SmallestRing)
  BY <1>9, <1>12, <1>13, <1>14, MessageFeeds
<1>16. FirstOf(frames, Len(frames)) = F
  BY <1>7 DEF FirstOf, FramesOf
<1>17. InOrder(WorkletHas(ring)) /\ V \subseteq W \cup F
  BY <1>7, <1>12, <1>14, <1>15, <1>16 DEF Fed
<1>18. ASSUME NEW lost \in (W \cup F) \ V PROVE lost <= made - SmallestRing
  <2>1. Len(frames) > 0 /\ lost + SmallestRing <= frames[Len(frames)]
    BY <1>7, <1>12, <1>14, <1>15, <1>16, <1>18 DEF Fed
  <2>2. Len(frames) \in Nat /\ Len(frames) \in 1 .. Len(frames)
    BY <1>9, <2>1, LenProperties
  <2>3. frames[Len(frames)] \in Nat /\ frames[Len(frames)] <= made
    BY <1>7, <1>9, <1>10, <1>11, <2>2 DEF OnTheWay
  <2>4. lost \in Nat
    BY <1>7, <1>9, <1>10, <1>18 DEF OnTheWay
  <2>5. QED
    BY <1>1, <2>1, <2>3, <2>4, RingSizes
<1>19. PICK N : N = UNION {FramesOf(after[k]) : k \in 1 .. Len(after)}
  OBVIOUS
<1>20. \A k \in 1 .. Len(after) : k + 1 \in 1 .. count /\ 1 < k + 1 /\ after[k] = posted[k + 1]
  BY <1>2, <1>6
<1>21. M = F \cup N
  <2>1. ASSUME NEW f \in M PROVE f \in F \cup N
    <3>1. PICK k \in 1 .. count : f \in FramesOf(posted[k])
      BY <1>8
    <3>2. CASE k = 1
      BY <1>3, <1>7, <3>1, <3>2
    <3>3. CASE k # 1
      <4>1. k - 1 \in 1 .. Len(after) /\ (k - 1) + 1 = k
        BY <1>2, <1>6, <3>3
      <4>2. after[k - 1] = posted[k]
        BY <1>6, <4>1
      <4>3. QED
        BY <1>19, <3>1, <4>1, <4>2
    <3>4. QED
      BY <3>2, <3>3
  <2>2. ASSUME NEW f \in N PROVE f \in M
    <3>1. PICK k \in 1 .. Len(after) : f \in FramesOf(after[k])
      BY <1>19
    <3>2. k + 1 \in 1 .. count /\ f \in FramesOf(posted[k + 1])
      BY <1>20, <3>1
    <3>3. QED
      BY <1>8, <3>2
  <2>3. QED
    BY <1>9, <2>1, <2>2
<1>22. InWorklet' = WorkletHas(ring) /\ InBridge' = InBridge /\ made' = made /\ heard' = heard
  BY <1>4, <1>14 DEF OnMessage, InWorklet, WorkletHas, FramesFrom, InBridge, ReadAudio, AudioAvailable
<1>23. InMessages' = N
  BY <1>5, <1>19 DEF InMessages, FramesOf
<1>24. FramesOf(InWorklet)' = V /\ FramesOf(InBridge)' = B
  BY <1>7, <1>14, <1>22 DEF FramesOf
<1>25. OnTheWay' = V \cup N \cup B
  BY <1>23, <1>24 DEF OnTheWay
<1>26. OnTheWay = W \cup M \cup B
  BY <1>7 DEF OnTheWay
<1>27. AudioTypes'
  BY <1>1, <1>4, <1>5, <1>6, <1>14, <1>15, <1>22 DEF AudioInv, AudioTypes, WorkletOK, OnMessage
<1>28. EachInOrder'
  <2>1. \A k \in 1 .. Len(after) : InOrder(after[k])
    BY <1>8, <1>20
  <2>2. (\A k \in 1 .. Len(posted) : InOrder(posted[k]))'
    BY <1>5, <2>1 DEF InOrder
  <2>3. InOrder(InWorklet)' /\ InOrder(InBridge)'
    BY <1>17, <1>22 DEF InOrder, AudioInv, EachInOrder
  <2>4. QED
    BY <2>2, <2>3 DEF EachInOrder
<1>29. AllInTurn'
  <2>1. Before(F, N)
    <3>1. ASSUME NEW f \in F, NEW g \in N PROVE f < g
      <4>1. PICK k \in 1 .. Len(after) : g \in FramesOf(after[k])
        BY <1>19
      <4>2. k + 1 \in 1 .. count /\ 1 < k + 1 /\ g \in FramesOf(posted[k + 1])
        BY <1>20, <4>1
      <4>3. Before(FramesOf(posted[1]), FramesOf(posted[k + 1]))
        BY <1>8, <1>9, <4>2
      <4>4. QED
        BY <1>3, <1>7, <4>2, <4>3 DEF Before
    <3>2. QED
      BY <3>1 DEF Before
  <2>2. Before(V, N) /\ Before(V, B) /\ Before(N, B)
    BY <1>8, <1>17, <1>21, <2>1 DEF Before
  <2>3. ASSUME NEW j \in 1 .. Len(after), NEW k \in 1 .. Len(after), j < k
        PROVE  Before(FramesOf(after[j]), FramesOf(after[k]))
    <3>1. j + 1 \in 1 .. count /\ k + 1 \in 1 .. count /\ j + 1 < k + 1
          /\ after[j] = posted[j + 1] /\ after[k] = posted[k + 1]
      BY <1>20, <2>3
    <3>2. QED
      BY <1>8, <3>1
  <2>4. (\A j, k \in 1 .. Len(posted) : j < k => Before(FramesOf(posted[j]), FramesOf(posted[k])))'
    BY <1>5, <2>3 DEF Before, FramesOf
  <2>5. /\ Before(FramesOf(InWorklet), InMessages)' /\ Before(FramesOf(InWorklet), FramesOf(InBridge))'
        /\ Before(InMessages, FramesOf(InBridge))'
    BY <1>23, <1>24, <2>2 DEF Before
  <2>6. QED
    BY <2>4, <2>5 DEF AllInTurn
<1>30. \A f \in OnTheWay' : f \in Nat /\ f <= made
  BY <1>10, <1>17, <1>21, <1>25, <1>26
<1>31. Promise!Carry
  <2>1. PICK way, way2 : way = OnTheWay /\ way2 = OnTheWay'
    OBVIOUS
  <2>2. way2 \subseteq way
    BY <1>17, <1>21, <1>25, <1>26, <2>1
  <2>3. made + 1 .. made' = {}
    BY <1>1, <1>22
  <2>4. \A lost \in way \ way2 : lost <= made - SmallestRing
    BY <1>18, <1>21, <1>25, <1>26, <2>1
  <2>5. \A lost \in (way \cup (made + 1 .. made')) \ way2 : lost <= made' - SmallestRing
    BY <1>22, <2>3, <2>4
  <2>6. way2 \subseteq way \cup (made + 1 .. made') /\ made' >= made
    BY <1>1, <1>22, <2>2
  <2>7. QED
    BY <1>22, <2>1, <2>5, <2>6, CarryIs
<1>32. QED
  BY <1>22, <1>27, <1>28, <1>29, <1>30, <1>31 DEF AudioInv

\* The hardware takes the oldest frames.
LEMMA ProcessHears ==
  ASSUME AudioInv, Process
  PROVE  AudioInv' /\ Promise!Hear
<1>1. AudioTypes /\ made \in Nat /\ Quantum \in Nat /\ worklet.count \in Nat
  BY WebAudioAssumption, RingSizes DEF AudioInv, AudioTypes, WorkletOK, Worklets, Counts
<1>2. PICK n : /\ n = IF worklet.count < Quantum THEN worklet.count ELSE Quantum
               /\ n > 0
               /\ heard' = worklet.buf[(worklet.readPos + n - 1) % RingFrames]
               /\ worklet' = [worklet EXCEPT !.readPos = (@ + n) % RingFrames, !.count = @ - n]
               /\ UNCHANGED <<bridge, posted, looping, made>>
  BY DEF Process
<1>3. n \in Nat /\ n > 0 /\ n <= worklet.count
  BY <1>1, <1>2
<1>4. PICK after, frame : after = worklet' /\ frame = heard'
  OBVIOUS
<1>5. Drained(n, after) /\ frame = worklet.buf[(worklet.readPos + n - 1) % RingFrames]
  BY <1>2, <1>4 DEF Drained
<1>6. InWorklet = WorkletHas(worklet) /\ WorkletOK(worklet) /\ InOrder(WorkletHas(worklet))
  BY DEF InWorklet, WorkletHas, AudioInv, AudioTypes, EachInOrder
<1>7. PICK B, W, M, V : /\ B = FramesOf(InBridge) /\ W = FramesOf(InWorklet) /\ M = InMessages
                        /\ V = FramesOf(WorkletHas(after))
  OBVIOUS
<1>8. /\ WorkletOK(after) /\ InOrder(WorkletHas(after))
      /\ frame \in W /\ V = {later \in W : later > frame}
  BY <1>3, <1>5, <1>6, <1>7, WorkletDrains
<1>9. InWorklet' = WorkletHas(after) /\ InBridge' = InBridge /\ InMessages' = InMessages /\ made' = made
  BY <1>2, <1>4 DEF InWorklet, WorkletHas, FramesFrom, InBridge, ReadAudio, AudioAvailable, InMessages, FramesOf
<1>10. FramesOf(InWorklet)' = V /\ FramesOf(InBridge)' = B
  BY <1>7, <1>9 DEF FramesOf
<1>11. OnTheWay' = V \cup M \cup B /\ OnTheWay = W \cup M \cup B
  BY <1>7, <1>9, <1>10 DEF OnTheWay
<1>12. Before(W, M) /\ Before(W, B) /\ Before(M, B)
  BY <1>7 DEF AudioInv, AllInTurn
<1>13. \A f \in OnTheWay : f \in Nat /\ f <= made
  BY DEF AudioInv
<1>14. AudioTypes'
  BY <1>2, <1>4, <1>8 DEF AudioInv, AudioTypes, WorkletOK
<1>15. EachInOrder'
  BY <1>2, <1>8, <1>9 DEF AudioInv, EachInOrder, InOrder
<1>16. AllInTurn'
  <2>1. Before(V, M) /\ Before(V, B)
    BY <1>8, <1>12 DEF Before
  <2>2. /\ Before(FramesOf(InWorklet), InMessages)' /\ Before(FramesOf(InWorklet), FramesOf(InBridge))'
        /\ Before(InMessages, FramesOf(InBridge))'
    BY <1>7, <1>9, <1>10, <1>12, <2>1 DEF Before
  <2>3. (\A j, k \in 1 .. Len(posted) : j < k => Before(FramesOf(posted[j]), FramesOf(posted[k])))'
    BY <1>2 DEF Before, FramesOf, AudioInv, AllInTurn
  <2>4. QED
    BY <2>2, <2>3 DEF AllInTurn
<1>17. \A f \in OnTheWay' : f \in Nat /\ f <= made
  BY <1>8, <1>11, <1>13
<1>18. Promise!Hear
  <2>1. PICK way, way2 : way = OnTheWay /\ way2 = OnTheWay'
    OBVIOUS
  <2>2. frame \in way
    BY <1>8, <1>11, <2>1
  <2>3. \A g \in M \cup B : frame < g /\ g \in Nat
    BY <1>8, <1>11, <1>12, <1>13 DEF Before
  <2>4. frame \in Nat
    BY <1>13, <2>1, <2>2
  <2>5. \A g \in M \cup B : g > frame
    BY <2>3, <2>4
  <2>6. way2 = {later \in way : later > frame}
    BY <1>8, <1>11, <2>1, <2>5
  <2>7. QED
    BY <1>4, <1>9, <2>1, <2>2, <2>6 DEF Promise!Hear, OnTheWay
<1>19. QED
  BY <1>9, <1>14, <1>15, <1>16, <1>17, <1>18 DEF AudioInv

\* A page that has just been loaded has no sound.
Quiet(b, p, w) == b = NewBridge /\ p = <<>> /\ w = NewWorklet

LEMMA QuietRings ==
  /\ NewBridge \in Bridges /\ ReadAudio(NewBridge) \in Seq(Nat) /\ Len(ReadAudio(NewBridge)) = 0
  /\ WorkletOK(NewWorklet) /\ WorkletHas(NewWorklet) \in Seq(Nat) /\ Len(WorkletHas(NewWorklet)) = 0
<1>1. NewBridge \in Bridges
  BY RingSizes DEF NewBridge, Bridges, BridgeBuffers, BridgePlaces
<1>2. PICK n : n = (0 + BridgeFrames - 0) % BridgeFrames
  OBVIOUS
<1>3. 0 \in BridgePlaces
  BY RingSizes DEF BridgePlaces
<1>4. n = 0 - 0
  BY <1>2, <1>3, BridgeFill
<1>5. AudioAvailable(NewBridge) = 0
  BY <1>2, <1>4 DEF AudioAvailable, NewBridge
<1>6. NewWorklet \in Worklets
  BY RingSizes DEF NewWorklet, Worklets, WorkletBuffers, WorkletPlaces, Counts
<1>7. (0 + 0) % RingFrames = 0
  <2>1. PICK far \in Nat : far = 0 + 0 /\ far < RingFrames /\ far < 2 * RingFrames /\ far = 0
    BY RingSizes
  <2>2. far % RingFrames = far
    BY <2>1, RingSizes, Wrap
  <2>3. QED
    BY <2>1, <2>2
<1>8. WorkletOK(NewWorklet)
  BY <1>6, <1>7 DEF WorkletOK, NewWorklet
<1>9. NewWorklet.count = 0
  BY DEF NewWorklet
<1>10. QED
  BY <1>1, <1>5, <1>6, <1>8, <1>9, BridgeContent, WorkletContent

LEMMA AudioInvInit ==
  AudioInit => AudioInv /\ Promise!QueueInit
<1> SUFFICES ASSUME AudioInit PROVE AudioInv /\ Promise!QueueInit
  OBVIOUS
<1>1. bridge = NewBridge /\ posted = <<>> /\ worklet = NewWorklet /\ made = 0 /\ heard = 0
  BY DEF AudioInit
<1>2. /\ InOrder(InWorklet) /\ FramesOf(InWorklet) = {}
      /\ InOrder(InBridge) /\ FramesOf(InBridge) = {}
  BY <1>1, QuietRings, NoFrames DEF InWorklet, WorkletHas, InBridge
<1>3. Len(posted) = 0 /\ posted \in Seq(Seq(Nat))
  BY <1>1
<1>4. InMessages = {} /\ \A k \in 1 .. Len(posted) : FALSE
  BY <1>3 DEF InMessages
<1>5. OnTheWay = {}
  BY <1>2, <1>4 DEF OnTheWay
<1>6. AudioInv
  BY <1>1, <1>2, <1>3, <1>4, <1>5, QuietRings DEF AudioInv, AudioTypes, EachInOrder, AllInTurn, Before
<1>7. Promise!QueueInit
  BY <1>1, <1>5 DEF Promise!QueueInit, OnTheWay
<1>8. QED
  BY <1>6, <1>7

LEMMA LoadPageRenews ==
  LoadPage => AudioInv' /\ Promise!Renew
<1> SUFFICES ASSUME LoadPage PROVE AudioInv' /\ Promise!Renew
  OBVIOUS
<1>1. bridge' = NewBridge /\ posted' = <<>> /\ worklet' = NewWorklet /\ made' = 0 /\ heard' = 0
  BY DEF LoadPage
<1>2. InWorklet' = WorkletHas(NewWorklet) /\ InBridge' = ReadAudio(NewBridge)
  BY <1>1 DEF InWorklet, WorkletHas, InBridge, ReadAudio, AudioAvailable, FramesFrom
<1>3. /\ InOrder(InWorklet)' /\ FramesOf(InWorklet)' = {}
      /\ InOrder(InBridge)' /\ FramesOf(InBridge)' = {}
  BY <1>2, QuietRings, NoFrames DEF InOrder, FramesOf
<1>4. Len(posted)' = 0 /\ posted' \in Seq(Seq(Nat))
  BY <1>1
<1>5. InMessages' = {} /\ \A k \in 1 .. Len(posted') : FALSE
  BY <1>4 DEF InMessages
<1>6. OnTheWay' = {}
  BY <1>3, <1>5 DEF OnTheWay
<1>7. AudioTypes' /\ EachInOrder'
  BY <1>1, <1>3, <1>4, <1>5, QuietRings DEF AudioTypes, EachInOrder, WorkletOK
<1>8. AllInTurn'
  BY <1>3, <1>5 DEF AllInTurn, Before
<1>9. Promise!Renew
  BY <1>1, <1>6 DEF Promise!Renew, OnTheWay
<1>10. QED
  BY <1>6, <1>7, <1>8, <1>9 DEF AudioInv

LEMMA AudioStep ==
  AudioInv /\ [AudioNext]_audioVars
    => AudioInv' /\ [Promise!Carry \/ Promise!Hear \/ Promise!Renew]_(Promise!audioQueueVars)
<1> SUFFICES ASSUME AudioInv, [AudioNext]_audioVars
             PROVE  /\ AudioInv'
                    /\ [Promise!Carry \/ Promise!Hear \/ Promise!Renew]_(Promise!audioQueueVars)
  OBVIOUS
<1>1. ASSUME NEW count \in FrameSamples PROVE count \in Nat
  BY WebAudioAssumption
<1>2. ASSUME UNCHANGED <<bridge, posted, worklet, made, heard>>
      PROVE  /\ AudioInv'
             /\ [Promise!Carry \/ Promise!Hear \/ Promise!Renew]_(Promise!audioQueueVars)
  <2>1. AudioInv'
    <3>1. InWorklet' = InWorklet /\ InBridge' = InBridge /\ InMessages' = InMessages /\ OnTheWay' = OnTheWay
      BY <1>2 DEF OnTheWay, InWorklet, InBridge, InMessages, FramesOf, FramesFrom, ReadAudio, AudioAvailable
    <3>2. AudioTypes'
      BY <1>2 DEF AudioInv, AudioTypes, WorkletOK
    <3>3. EachInOrder'
      BY <1>2, <3>1 DEF AudioInv, EachInOrder, InOrder
    <3>4. AllInTurn'
      BY <1>2, <3>1 DEF AudioInv, AllInTurn, Before, FramesOf
    <3>5. QED
      BY <1>2, <3>1, <3>2, <3>3, <3>4 DEF AudioInv
  <2>2. UNCHANGED Promise!audioQueueVars
    BY <1>2 DEF Promise!audioQueueVars, InWorklet, InBridge, InMessages,
                FramesOf, FramesFrom, ReadAudio, AudioAvailable
  <2>3. QED
    BY <2>1, <2>2
<1>3. CASE LoadPage
  BY <1>3, LoadPageRenews
<1>4. CASE StartLoop
  BY <1>2, <1>4 DEF StartLoop
<1>5. CASE LoopTurn
  <2>1. UNCHANGED <<worklet, heard>>
    BY <1>5 DEF LoopTurn
  <2>2. CASE PumpAudio(bridge) /\ UNCHANGED made
    BY <2>1, <2>2, NotRun, PumpCarries
  <2>3. ASSUME NEW count \in FrameSamples, made' = made + count, PumpAudio(RunFrame(count))
        PROVE  AudioInv' /\ Promise!Carry
    BY <1>1, <2>1, <2>3, RunRan, PumpCarries
  <2>4. QED
    BY <1>5, <2>2, <2>3 DEF LoopTurn
<1>6. ASSUME NEW count \in FrameSamples, made' = made + count, bridge' = RunFrame(count),
             UNCHANGED <<posted, worklet, heard>>
      PROVE  AudioInv' /\ Promise!Carry
  BY <1>1, <1>6, RunRan, RunCarries
<1>7. CASE RunFails
  BY <1>6, <1>7 DEF RunFails
<1>8. CASE \E count \in FrameSamples : TestRuns(count)
  BY <1>6, <1>8 DEF TestRuns
<1>9. CASE OnMessage
  BY <1>9, MessageCarries
<1>10. CASE Process
  BY <1>10, ProcessHears
<1>11. CASE UNCHANGED audioVars
  BY <1>2, <1>11 DEF audioVars
<1>12. QED
  BY <1>3, <1>4, <1>5, <1>7, <1>8, <1>9, <1>10, <1>11 DEF AudioNext

\* Whatever the sizes of the rings and of the messages, and however the run of
\* the emulator, the messages and the audio hardware interleave: the sound is
\* heard in order and nothing twice, and a frame that is lost was older than a
\* whole ring (SoundInOrder; ymir_web_bridge.cpp 63, 259;
\* ymir-web-audio-worklet.js 15, 31).
THEOREM SoundStaysInOrder == AudioSpec => SoundInOrder
<1>1. AudioInit => AudioInv /\ Promise!QueueInit
  BY AudioInvInit
<1>2. AudioInv /\ [AudioNext]_audioVars
        => AudioInv' /\ [Promise!Carry \/ Promise!Hear \/ Promise!Renew]_(Promise!audioQueueVars)
  BY AudioStep
<1>3. QED
  BY <1>1, <1>2, PTL DEF AudioSpec, SoundInOrder, Promise!QueueSpec
=============================================================================
