------------------------------ MODULE WallClock ------------------------------
(***************************************************************************)
(* The wall clock the shared tables read (src/time.rs: SystemClock).  It   *)
(* counts ticks; an administrator or a time service may set it back.       *)
(***************************************************************************)
EXTENDS Naturals

VARIABLE now

\* Time passes by a tick, or the clock is set back; max bounds the instance.
SetClock(max) ==
    /\ now' \in 0 .. max
    /\ now' <= now + 1
=============================================================================
