----------------------------- MODULE DriftView -----------------------------
(***************************************************************************)
(* What the plane's drift view promises, whatever the network and the node *)
(* do: the applied hash it shows is none, or the hash of a config the node *)
(* really ran.  NodeSync implements it.                                    *)
(***************************************************************************)
CONSTANTS Configs, Null

VARIABLES
    wanted,    \* the desired config, or Null
    ran,       \* the configs the node has run
    shown      \* the applied hash of the node's row, or Null

view == <<wanted, ran, shown>>

Init == wanted = Null /\ ran = {} /\ shown = Null

\* An admin edit moves the desired config anywhere.
Want ==
    /\ wanted' \in Configs \cup {Null}
    /\ UNCHANGED <<ran, shown>>

\* The node starts to run a config it was served.
Run ==
    /\ \E c \in Configs : ran' = ran \cup {c}
    /\ UNCHANGED <<wanted, shown>>

\* A heartbeat or a report moves the shown hash.
Show ==
    /\ shown' \in {[sha256 |-> c] : c \in ran} \cup {Null}
    /\ UNCHANGED <<wanted, ran>>

Next == Want \/ Run \/ Show

Spec == Init /\ [][Next]_view
=============================================================================
