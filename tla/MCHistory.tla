------------------------------ MODULE MCHistory ------------------------------
(***************************************************************************)
(* Two processes that run a spec of one case, of another, or of both: all  *)
(* nine verdicts, the ranked ones beside a stable or an unstable one too,  *)
(* a stable verdict with confidences that are a threshold, and less,       *)
(* apart, and invariants that are strict or permissive.                    *)
(***************************************************************************)
EXTENDS Consumers

CONSTANTS p1, p2
MCProcs == {p1, p2}

Case(v, l) == [verdict |-> v, lo |-> l]
Session(cases, score) == [cases |-> cases, score |-> score]

MCAlone ==
  { Session([c \in {"c1"} |-> case], 90) :
      case \in { Case("STABLE", 99), Case("STABLE", 90), Case("STABLE", 89),
                 Case("AMBIGUOUS", 70), Case("FRAGILE", 40),
                 Case("INSUFFICIENT", 0), Case("INVALID_EVAL", 0) } }
    \cup { Session([c \in {"c1"} |-> Case("ADVERSARIALLY_VULNERABLE", 40)], 40),
           Session([c \in {"c2"} |-> Case("STABLE", 99)], 90) }

Both(v, w) == Session([c1 |-> Case(v, 80), c2 |-> Case(w, 80)], 40)

MCOutcomes ==
  MCAlone
    \cup { Both(v, "STABLE") : v \in Verdict \ OffTheLadder }
    \cup { Both("INFORMATION_NULL", "AMBIGUOUS"), Both("AMBIGUOUS", "FRAGILE"),
           Both("INFORMATION_PRESENT", "CONSISTENTLY_WRONG") }
=============================================================================
