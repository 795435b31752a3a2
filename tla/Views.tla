-------------------------------- MODULE Views --------------------------------
(***************************************************************************)
(* The commands that print what a stored session holds and judge nothing   *)
(* anew: replay, inspect and matrix.  What a reader learns from them is    *)
(* the status, the run inspect singles out of a case, and the cells of the *)
(* matrix.  A session is the artifact of RunSession: its verdict and the   *)
(* results of its cases, in the order of the spec.                         *)
(***************************************************************************)
EXTENDS Resolver

(* The status of replay, and of inspect without --case. *)
cmd_replay(a) == exit_code_for(a.verdict)

-----------------------------------------------------------------------------
(* inspect *)

FailingRuns(r, among) ==
  { i \in among : ~ RunPassed(r.original, r.runs[i]) }

First(places) == CHOOSE i \in places : \A j \in places : i <= j

(* The place of the run shown for a case, if any: the first failing one of *)
(* the worst family, else the first of that family.                        *)
select_worst_perturbation(r) ==
  IF r.verdict # "FRAGILE" \/ r.runs = <<>> THEN {}
  ELSE LET candidates == Stratum(r.runs, worst_case_stratified(r.runs, r.cis))
           failing == FailingRuns(r, candidates)
       IN {First(IF failing # {} THEN failing ELSE candidates)}

-----------------------------------------------------------------------------
(* matrix *)

(* per_family_stability: the pass rate of each family, as k of n. *)
per_family_stability(r) == stratify_by_family(r.original, r.runs)

FamiliesIn(results) ==
  UNION { FamiliesOf(results[c].runs) : c \in DOMAIN results }

Exercising(results, f) ==
  { c \in DOMAIN results : f \in FamiliesOf(results[c].runs) }

(* Mutant of worst_per_family: the cell is that of the last case.          *)
worst_per_family_LastCase(results) ==
  [ f \in FamiliesIn(results) |->
      LET cs == Exercising(results, f)
      IN per_family_stability(
           results[CHOOSE c \in cs : \A d \in cs : d <= c])[f] ]

(* A cell is the least rate any case of the session has for the family.    *)
worst_per_family(results) ==
  LET rate(c, f) == per_family_stability(results[c])[f]
  IN [ f \in FamiliesIn(results) |->
         rate(CHOOSE c \in Exercising(results, f) :
                \A d \in Exercising(results, f) :
                  rate(c, f).k * rate(d, f).n <= rate(d, f).k * rate(c, f).n, f) ]

Perfect(cell) == cell.k = cell.n
=============================================================================
