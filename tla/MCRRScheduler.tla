---------------------------- MODULE MCRRScheduler ----------------------------
(***************************************************************************)
(* A ring of four threads with slices of two ticks.  The state space is    *)
(* finite without further bounds, because a thread is queued at most once. *)
(***************************************************************************)
EXTENDS RRScheduler
==============================================================================
