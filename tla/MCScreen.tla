------------------------------ MODULE MCScreen ------------------------------
EXTENDS VdpFrame, VdpRenderThreads, WebAudio, WebShell

VARIABLE part

vars == <<part, frameVars, threadVars, audioVars, shellVars>>

Init ==
    /\ part \in {"frame", "threads", "audio", "shell"}
    /\ FrameInit
    /\ ThreadsInit
    /\ AudioInit
    /\ ShellInit

Next ==
    /\ UNCHANGED part
    /\ \/ part = "frame" /\ FrameNext
       \/ part # "frame" /\ UNCHANGED frameVars
    /\ \/ part = "threads" /\ ThreadsNext
       \/ part # "threads" /\ UNCHANGED threadVars
    /\ \/ part = "audio" /\ AudioNext
       \/ part # "audio" /\ UNCHANGED audioVars
    /\ \/ part = "shell" /\ ShellNext
       \/ part # "shell" /\ UNCHANGED shellVars

\* What a component can do before its first step is asked only of its own part.
Fairness ==
    /\ WF_frameVars(part = "frame" /\ UpdatePhase)
    /\ WF_threadVars(part = "threads" /\ EmulatorGoesOn)
    /\ WF_threadVars(part = "threads" /\ VDP1RenderThread)
    /\ WF_threadVars(part = "threads" /\ (VDP2RenderThread \/ VDP2ThreadGoesOn))
    /\ WF_threadVars(part = "threads" /\ (DeinterlacerBegins \/ DeinterlacerEnds))
    /\ WF_shellVars(part = "shell" /\ SaveBackupRAM)
    /\ WF_shellVars(part = "shell" /\ Transact)

Spec == Init /\ [][Next]_vars /\ Fairness

-----------------------------------------------------------------------------
\* A mode that is not interlaced, and one that is, with longer fields, like NTSC
\* and the exclusive monitor: the display of the second ends below the line on
\* which the top border of the first begins (480 and 255), and its own top border
\* begins below the last line of the first (509 and 263).
TwoModes ==
    << [timings |-> [field \in {0, 1} |-> <<2, 2, 3, 4, 5, 6>>], interlaced |-> FALSE],
       [timings |-> [field \in {0, 1} |-> <<4, 4, 5, 6, 7 + field, 8 + field>>], interlaced |-> TRUE] >>

\* 1-cycle mode, and a swap by the program.
TwoRequests == {<<FALSE, FALSE>>, <<TRUE, TRUE>>}
=============================================================================
