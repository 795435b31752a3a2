------------------------------ MODULE Resolver ------------------------------
(***************************************************************************)
(* How the evidence of one case becomes a verdict: stratification of the   *)
(* perturbed runs by family, the stability interval of each family, the    *)
(* shape of the failure, the five oracles, the meta-oracle and the         *)
(* priority chain of verdict/resolver.py.                                  *)
(*                                                                         *)
(* An output is an opaque value; the constants below say what each judge   *)
(* sees in it.  Fractions are compared by cross-multiplication, interval   *)
(* bounds are integers in units of 1/Scale.                                *)
(***************************************************************************)
EXTENDS Integers, Sequences, FiniteSets, Domain, Verdicts

CONSTANTS
  Invariants,     \* the invariants of a case
  Passes,         \* <<inv, original, output>> for which inv.check passes
  MissesRequired, \* outputs that lack one of expected.contains
  HasForbidden,   \* outputs that hold one of expected.not_contains
  NullOutputs,    \* outputs information_null._is_null accepts
  NLI,            \* was the run given an NLI backend (--nli)?
  HasReference,   \* does the case have expected.reference?
  Relation,       \* label of classify(reference, output)
  Contradicts,    \* <<a, b>> for which classify(a, b) is CONTRADICTION
  Scale,          \* interval bounds are in 0..Scale
  StableBar,      \* verdict_config.stable_threshold
  FragileBar,     \* verdict_config.fragile_threshold
  BootstrapCI(_, _), \* the <<lo, hi>> bootstrap_stability may give k of n
  MaxRuns         \* bound on the perturbed runs of a case

NLILabel == {"ENTAILMENT", "NEUTRAL", "CONTRADICTION"}

(* An interval lies in the unit range, and collapses to the point estimate *)
(* when the trials agree (bootstrap_stability's note).                     *)
ASSUME BootstrapAssumption ==
  \A n \in 1..MaxRuns : \A k \in 0..n :
    /\ BootstrapCI(n, k) # {}
    /\ BootstrapCI(n, k) \subseteq (0..Scale) \X (0..Scale)
    /\ k = 0 => BootstrapCI(n, k) = {<<0, 0>>}
    /\ k = n => BootstrapCI(n, k) = {<<Scale, Scale>>}

ASSUME ResolverAssumption ==
  /\ Scale \in Nat \ {0}
  /\ StableBar \in 0..Scale
  /\ FragileBar \in 0..Scale
  /\ MaxRuns \in Nat
  /\ Relation \in [Outputs -> NLILabel]
  /\ IsFiniteSet(Invariants)

-----------------------------------------------------------------------------
(* verdict/stratify.py *)

RunPassed(original, run) ==
  \A inv \in Invariants : <<inv, original, run.output>> \in Passes

FamiliesOf(runs) == { runs[i].family : i \in DOMAIN runs }

Stratum(runs, f) == { i \in DOMAIN runs : runs[i].family = f }

stratify_by_family(original, runs) ==
  [ f \in FamiliesOf(runs) |->
      [ n |-> Cardinality(Stratum(runs, f)),
        k |-> Cardinality({ i \in Stratum(runs, f) :
                              RunPassed(original, runs[i]) }) ] ]

(* The intervals of a case: one draw of the bootstrap per family. *)
Intervals(original, runs) ==
  LET strata == stratify_by_family(original, runs)
      draws(f) == BootstrapCI(strata[f].n, strata[f].k)
  IN { cis \in [FamiliesOf(runs) -> UNION { draws(f) : f \in FamiliesOf(runs) }] :
         \A f \in FamiliesOf(runs) : cis[f] \in draws(f) }

Lo(cis, f) == cis[f][1]
Hi(cis, f) == cis[f][2]

(* _BROKEN_CI and _HOLDING_CI. *)
Broken(cis, f) == 2 * Lo(cis, f) < Scale
Holding(cis, f) == 5 * Lo(cis, f) >= 4 * Scale

failure_shape(cis) ==
  IF ~ \E f \in DOMAIN cis : Broken(cis, f)
  THEN "none"
  ELSE IF \E f \in DOMAIN cis : Holding(cis, f)  \* so there are two families
  THEN "targeted"
  ELSE "diffuse"

(* Mutant of WorstRun: the first family decides.                           *)
WorstRun_First(runs, cis) == 1

(* The run whose family is the worst: the lowest lower bound, and of the   *)
(* families that share it the one met first (min over an insertion-ordered *)
(* dict).                                                                  *)
WorstRun(runs, cis) ==
  CHOOSE i \in DOMAIN runs :
    \A j \in DOMAIN runs :
      \/ Lo(cis, runs[i].family) < Lo(cis, runs[j].family)
      \/ Lo(cis, runs[i].family) = Lo(cis, runs[j].family) /\ i <= j

worst_case_stratified(runs, cis) == runs[WorstRun(runs, cis)].family

-----------------------------------------------------------------------------
(* The oracles.  all_outputs is the original output, then the perturbed    *)
(* ones.  An oracle that fires says a verdict with confidence num/den; the *)
(* set of an oracle that abstains is empty.                                *)

AllOutputs(original, runs) ==
  [ i \in 1..(Len(runs) + 1) |->
      IF i = 1 THEN original ELSE runs[i - 1].output ]

Says(v, num, den) == [says |-> v, num |-> num, den |-> den]

is_consistently_wrong(outs) ==
  \/ \A i \in DOMAIN outs : outs[i] \in MissesRequired
  \/ \A i \in DOMAIN outs : outs[i] \in HasForbidden

ConsistencyOracle(outs) ==
  IF is_consistently_wrong(outs) THEN {Says("CONSISTENTLY_WRONG", 1, 1)} ELSE {}

Support(outs, label) ==
  Cardinality({ i \in DOMAIN outs : Relation[outs[i]] = label })

(* Counter(labels).most_common(1): a tie goes to the label met first. *)
majority_relation(outs) ==
  Relation[outs[CHOOSE i \in DOMAIN outs :
    \A j \in DOMAIN outs :
      LET a == Support(outs, Relation[outs[i]])
          b == Support(outs, Relation[outs[j]])
      IN a > b \/ (a = b /\ i <= j)]]

(* The majority relation to the reference is label, with support >= 0.5. *)
Related(outs, label) ==
  /\ NLI /\ HasReference
  /\ majority_relation(outs) = label
  /\ 2 * Support(outs, label) >= Len(outs)

Pairs(outs) == { p \in (1..Len(outs)) \X (1..Len(outs)) : p[1] < p[2] }

ContradictoryPairs(outs) ==
  { p \in Pairs(outs) : \/ <<outs[p[1]], outs[p[2]]>> \in Contradicts
                        \/ <<outs[p[2]], outs[p[1]]>> \in Contradicts }

SelfContradictory(outs) ==
  /\ NLI /\ Len(outs) >= 2
  /\ 2 * Cardinality(ContradictoryPairs(outs)) >= Cardinality(Pairs(outs))

ContradictionOracle(outs) ==
  IF Related(outs, "CONTRADICTION")
  THEN {Says("CONSISTENTLY_WRONG", Support(outs, "CONTRADICTION"), Len(outs))}
  ELSE IF SelfContradictory(outs)
  THEN {Says("AMBIGUOUS", Cardinality(ContradictoryPairs(outs)),
             Cardinality(Pairs(outs)))}
  ELSE {}

HallucinationOracle(outs) ==
  IF Related(outs, "CONTRADICTION")
  THEN {Says("CONSISTENTLY_WRONG", Support(outs, "CONTRADICTION"), Len(outs))}
  ELSE {}

GroundingOracle(outs) ==
  IF Related(outs, "ENTAILMENT")
  THEN {Says("INFORMATION_PRESENT", Support(outs, "ENTAILMENT"), Len(outs))}
  ELSE {}

Nulls(outs) == { i \in DOMAIN outs : outs[i] \in NullOutputs }

InformationNullOracle(outs) ==
  IF 2 * Cardinality(Nulls(outs)) >= Len(outs)
  THEN {Says("INFORMATION_NULL", Cardinality(Nulls(outs)), Len(outs))}
  ELSE {}

(* The oracles the meta-oracle weighs against each other. *)
Peers(outs) ==
  ConsistencyOracle(outs) \cup ContradictionOracle(outs)
    \cup HallucinationOracle(outs) \cup GroundingOracle(outs)

-----------------------------------------------------------------------------
(* oracles/meta.py *)

(* _HIGH_CONFIDENCE *)
Confident(v) == 5 * v.num >= 4 * v.den

detect_oracle_conflict(peers) ==
  \E a, b \in peers : Confident(a) /\ Confident(b) /\ a.says # b.says

(* Mutant of detect_invariant_degeneration: half of the outputs are enough. *)
detect_invariant_degeneration_Half(outs) ==
  \E inv \in Invariants :
    LET fails == { i \in DOMAIN outs : <<inv, outs[1], outs[i]>> \notin Passes }
    IN 2 * Cardinality(fails) > Len(outs)

(* _DEGENERATION_THRESHOLD, over the baseline row and every perturbed row. *)
detect_invariant_degeneration(outs) ==
  \E inv \in Invariants :
    LET fails == { i \in DOMAIN outs : <<inv, outs[1], outs[i]>> \notin Passes }
    IN 100 * Cardinality(fails) > 95 * Len(outs)

MetaOracle(outs) ==
  LET peers == Peers(outs)
  IN \/ detect_oracle_conflict(peers)
     \/ peers = {} /\ detect_invariant_degeneration(outs)

-----------------------------------------------------------------------------
(* verdict/resolver.py *)

(* Mutant of StableBand: the gold standard is looked for first.            *)
StableBand_GroundedFirst(contributions) ==
  IF "INFORMATION_PRESENT" \in contributions THEN "INFORMATION_PRESENT"
  ELSE IF "INFORMATION_NULL" \in contributions THEN "INFORMATION_NULL"
  ELSE "STABLE"

StableBand(contributions) ==
  IF "INFORMATION_NULL" \in contributions THEN "INFORMATION_NULL"
  ELSE IF "INFORMATION_PRESENT" \in contributions THEN "INFORMATION_PRESENT"
  ELSE "STABLE"

InstabilityBand(cis, worst) ==
  IF failure_shape(cis) = "targeted" THEN "ADVERSARIALLY_VULNERABLE"
  ELSE IF Hi(cis, worst) < FragileBar THEN "FRAGILE"
  ELSE "AMBIGUOUS"

decide_verdict(original, runs, cis) ==
  LET outs == AllOutputs(original, runs)
      contributions == { v.says : v \in Peers(outs) \cup InformationNullOracle(outs) }
      worst == worst_case_stratified(runs, cis)
  IN IF runs = <<>> \/ Invariants = {} THEN "INSUFFICIENT"
     ELSE IF MetaOracle(outs) THEN "INVALID_EVAL"
     ELSE IF "CONSISTENTLY_WRONG" \in contributions THEN "CONSISTENTLY_WRONG"
     ELSE IF Lo(cis, worst) < StableBar THEN InstabilityBand(cis, worst)
     ELSE StableBand(contributions)

(* The CaseResults resolve_case may build from the evidence of a case; the *)
(* choice is the draw of the bootstrap, which the case's seed fixes for    *)
(* each sequence of passes and failures: it resamples them by position.    *)
resolve_case(original, runs) ==
  { [ original |-> original, runs |-> runs, cis |-> cis,
      verdict |-> decide_verdict(original, runs, cis) ] :
    cis \in Intervals(original, runs) }

(* Does one failure among the trials of a family keep a case from STABLE?  *)
OneFailureBreaks ==
  \A n \in 1..MaxRuns : \A k \in 0..(n - 1) :
    \A ci \in BootstrapCI(n, k) : ci[1] < StableBar
=============================================================================
