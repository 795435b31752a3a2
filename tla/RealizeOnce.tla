----------------------------- MODULE RealizeOnce -----------------------------
(***************************************************************************)
(* The contract of materialize(): it returns a whole realization of the    *)
(* spec or raises, and nothing is seen of a realization in progress.       *)
(***************************************************************************)
EXTENDS Realization

VARIABLES
  state,  \* "working", "returned" or "raised"
  inputs  \* what it has returned: case -> its perturbed inputs

Init == state = "working" /\ inputs = Unrealized

Return ==
  /\ state = "working"
  /\ state' = "returned"
  /\ DOMAIN inputs' = Cases
  /\ \A c \in Cases : \E kept \in Keepable(c) : inputs'[c] \in Filled(c, kept)

Raise ==
  /\ state = "working"
  /\ state' = "raised"
  /\ UNCHANGED inputs

Next == Return \/ Raise

Ends == <>(state # "working")

Spec == Init /\ [][Next]_<<state, inputs>> /\ Ends
=============================================================================
