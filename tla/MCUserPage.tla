----------------------------- MODULE MCUserPage -----------------------------
(* UserPage on two nodes: what the other clients send. *)
EXTENDS UserPage

Access(first, second) == [n \in Nodes |-> IF n = 1 THEN first ELSE second]

\* A hidden tag is granted on either node, rows are gained and lost.
MCPayloads ==
    {Access({"out", "old"}, {"out"}), Access({"out"}, Null), Access(Null, {"old"})}
=============================================================================
