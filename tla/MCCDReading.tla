----------------------------- MODULE MCCDReading -----------------------------
(* The reading side of the CD block for TLC: the drive, and the selector's  *)
(* wiring, each by itself.                                                  *)
EXTENDS MCCDDrive, CDSelector

VARIABLE side

ReadingInit ==
    /\ side \in {"drive", "selector"}
    /\ Init
    /\ SelectorInit

ReadingNext ==
    /\ UNCHANGED side
    /\ \/ side = "drive" /\ Next
       \/ side # "drive" /\ UNCHANGED vars
    /\ \/ side = "selector" /\ SelectorNext
       \/ side # "selector" /\ UNCHANGED <<poolVars, selectorVars>>

ReadingSpec ==
    /\ ReadingInit
    /\ [][ReadingNext]_<<side, vars, poolVars, selectorVars>>
    /\ WF_vars(side = "drive" /\ Tick)
    /\ WF_vars(side = "drive" /\ FreeBuffer)

\* Filters that accept nothing, everything or the first sector only.
AnyCondition == SUBSET Fads
=============================================================================
