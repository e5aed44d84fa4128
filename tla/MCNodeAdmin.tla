----------------------------- MODULE MCNodeAdmin -----------------------------
(***************************************************************************)
(* NodeAdmin for TLC: its requests are told apart by nothing but the slot  *)
(* they are in, and all of its properties are safety properties.           *)
(***************************************************************************)
EXTENDS NodeAdmin, TLC

SlotSymmetry == Permutations(Slots)
=============================================================================
