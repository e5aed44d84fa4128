----------------------------- MODULE MCNodeSync -----------------------------
(***************************************************************************)
(* NodeSync for TLC.  The configs of a run differ in what becomes of them: *)
(* `good` runs on the node, `bad` does not, `broken` cannot be rendered.   *)
(* Two slots are enough for a handler nobody waits for any more to overlap *)
(* the agent's next request.                                               *)
(***************************************************************************)
EXTENDS NodeSync, TLC

\* Slots are interchangeable (no liveness run uses this).
SlotSymmetry == Permutations(Slots)
=============================================================================
