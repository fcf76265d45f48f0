----------------------------- MODULE DiscStream -----------------------------
(***************************************************************************)
(* What the drive of the CD block promises, whatever its status machine,   *)
(* its seek countdown and its pauses for full buffers do:                  *)
(*                                                                         *)
(*   - a play request hands on the sectors of its range in order, none     *)
(*     skipped and none twice, once per pass;                              *)
(*   - the end of playback is signalled after the last sector of the last  *)
(*     pass, and only then.                                                *)
(*                                                                         *)
(* Requests come from outside and may replace each other at any time.  A   *)
(* request by track ends where the index of the disc says, so its passes   *)
(* may be shorter than the range (exact is FALSE).                         *)
(***************************************************************************)
EXTENDS Integers

CONSTANT Addresses  \* sectors are counted modulo this

VARIABLES
    mode,      \* "idle", "running" or "scanning"
    next,      \* the sector to hand on next
    first,     \* the range of the request
    last,
    again,     \* the passes left after this one, -1 for ever
    exact,     \* the request names addresses, not tracks
    out,       \* the sector handed on last
    raised     \* the interrupt flags raised by the last step

streamVars == <<mode, next, first, last, again, exact, out, raised>>

Requested == "CMOK" \in raised' \/ "DCHG" \in raised'

\* The host, or the user's hand on the disc: anything but a sector or an end.
Control ==
    /\ Requested
    /\ "PEND" \notin raised'
    /\ out' = out

RangeKept == UNCHANGED <<first, last, exact>>

\* The pass is over when "at" was its last sector.
PassOver(at) == exact => at >= last

AnotherPass ==
    /\ again # 0
    /\ next' = first
    /\ again' = IF again > 0 THEN again - 1 ELSE again
    /\ "PEND" \notin raised'
    /\ UNCHANGED mode

PlaybackOver ==
    /\ again = 0
    /\ "PEND" \in raised'
    /\ mode' = "idle"
    /\ next' = (last + 1) % Addresses

HandOn ==
    /\ mode = "running"
    /\ next <= last
    /\ out' = next
    /\ RangeKept
    /\ \/ /\ next' = next + 1
          /\ "PEND" \notin raised'
          /\ UNCHANGED <<mode, again>>
       \/ PassOver(next) /\ (AnotherPass \/ PlaybackOver)

NothingLeft ==
    /\ mode \in {"running", "scanning"}
    /\ PassOver(next - 1)
    /\ out' = out
    /\ RangeKept
    /\ AnotherPass \/ PlaybackOver

\* The sector could not be read, or the seek found nothing.  Where the drive then
\* stands, and how many passes it had left, is of no account.
GiveUp ==
    /\ mode # "idle"
    /\ mode' = "idle"
    /\ "PEND" \notin raised'
    /\ out' = out
    /\ RangeKept

\* Scanning hands on samples of the range, forwards or backwards.
Sample ==
    /\ mode = "scanning"
    /\ next <= last
    /\ out' = next
    /\ RangeKept

\* Nothing is handed on or signalled between requests.
Rest ==
    /\ mode = "idle" /\ mode' = "idle"
    /\ "PEND" \notin raised'
    /\ out' = out

Wait ==
    /\ "PEND" \notin raised'
    /\ UNCHANGED <<mode, next, first, last, again, exact, out>>

StreamNext == Control \/ HandOn \/ NothingLeft \/ GiveUp \/ Sample \/ Rest \/ Wait

StreamInit == mode = "idle"

StreamSpec == StreamInit /\ [][StreamNext]_streamVars
=============================================================================
