----------------------------- MODULE AudioQueue -----------------------------
(***************************************************************************)
(* What the web front end promises of its sound: the frames that the       *)
(* emulator makes, numbered from 1, are heard in order and at most once;   *)
(* one is lost only when at least Depth newer ones have been made.         *)
(***************************************************************************)
EXTENDS Integers

CONSTANT Depth

VARIABLES
    made,       \* frames made so far
    onTheWay,   \* those neither heard nor lost
    heard       \* the last one heard

audioQueueVars == <<made, onTheWay, heard>>

QueueInit ==
    /\ made = 0
    /\ onTheWay = {}
    /\ heard = 0

\* New frames come, or old ones are lost.
Carry ==
    /\ made' >= made
    /\ LET coming == onTheWay \cup (made + 1 .. made') IN
        /\ onTheWay' \subseteq coming
        /\ \A lost \in coming \ onTheWay' : lost <= made' - Depth
    /\ UNCHANGED heard

\* Some frames are heard, the oldest first.
Hear ==
    /\ \E frame \in onTheWay :
        /\ heard' = frame
        /\ onTheWay' = {later \in onTheWay : later > frame}
    /\ UNCHANGED made

\* The page is loaded anew.
Renew == made' = 0 /\ onTheWay' = {} /\ heard' = 0

QueueSpec == QueueInit /\ [][Carry \/ Hear \/ Renew]_audioQueueVars
=============================================================================
