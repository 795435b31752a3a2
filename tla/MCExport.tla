------------------------------ MODULE MCExport ------------------------------
(***************************************************************************)
(* Two exports to one path, of a session of three cases whose payload may  *)
(* be damaged at any time, or of one that is not there.                    *)
(***************************************************************************)
EXTENDS BundleExport, TLC

CONSTANTS p1, p2, s1, x1, k1, y1, y2
MCProcs == {p1, p2}

(* A perturbation left a number, a tuple, or something json cannot write.  *)
MCInputs ==
  { [text |-> x1, params |-> v] :
      v \in { u \in Param({k1}) : u.kind \in {"plain", "tuple", "alien"} } }

Case(v, lo, mid, hi) == [verdict |-> v, lo |-> lo, mid |-> mid, hi |-> hi]
MCResults ==
  { << Case("FRAGILE", 20, 40, 60), Case("ADVERSARIALLY_VULNERABLE", 0, 33, 67),
       Case("CONSISTENTLY_WRONG", 100, 100, 100) >> }

Symmetric ==
  Permutations(MCProcs) \cup Permutations({y1, y2})
=============================================================================
