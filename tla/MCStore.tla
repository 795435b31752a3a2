------------------------------- MODULE MCStore -------------------------------
(***************************************************************************)
(* Two processes on one database file, and three artifacts of which two    *)
(* share a session id (as in the store contract's duplicate test).         *)
(***************************************************************************)
EXTENDS SQLiteStore

CONSTANTS p1, p2
MCProcs == {p1, p2}
MCArtifacts ==
  { [id |-> "s1", at |-> 1, cases |-> {"c1"}],
    [id |-> "s2", at |-> 2, cases |-> {"c1", "c2"}],
    [id |-> "s1", at |-> 3, cases |-> {"c2"}] }
=============================================================================
