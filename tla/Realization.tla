----------------------------- MODULE Realization -----------------------------
(***************************************************************************)
(* What materializing a spec may give: for each case, the perturbed inputs *)
(* that its perturbations ask for, in their order, less the rewrites that  *)
(* never met the validity gate.  How they come about is Materializer's; a  *)
(* session (RunSession) only depends on the outcome.                       *)
(***************************************************************************)
EXTENDS Integers, Sequences, FiniteSets, Domain

CONSTANTS
  NumCases,  \* cases of the spec
  Slots      \* case -> the samples its perturbations ask for

Cases == 1..NumCases

(* One sample: its family, the texts it may get, and whether an LLM writes *)
(* it (paraphrase), in which case it may be dropped.                       *)
Slot == [family : Families, texts : SUBSET Prompts, llm : BOOLEAN]

(* PerturbedInput: lineage.perturbation_type and text.                     *)
PerturbedInput == [family : Families, prompt : Prompts]

ASSUME RealizationAssumption ==
  /\ NumCases \in Nat \ {0}
  /\ Slots \in [Cases -> Seq(Slot)]

(* The sets of samples of a case that may survive.                         *)
Keepable(c) ==
  { DOMAIN Slots[c] \ dropped :
      dropped \in SUBSET { s \in DOMAIN Slots[c] : Slots[c][s].llm } }

Nth(kept, i) == CHOOSE s \in kept : Cardinality(kept \cap 1..s) = i

(* The inputs the samples of a case ask for, and what the kept ones may be *)
(* realized as.                                                            *)
Asked(c) ==
  UNION { { [family |-> Slots[c][s].family, prompt |-> t] : t \in Slots[c][s].texts } :
            s \in DOMAIN Slots[c] }

Filled(c, kept) ==
  { r \in [1..Cardinality(kept) -> Asked(c)] :
      \A i \in DOMAIN r : /\ r[i].family = Slots[c][Nth(kept, i)].family
                          /\ r[i].prompt \in Slots[c][Nth(kept, i)].texts }

Realizable(c) == UNION { Filled(c, kept) : kept \in Keepable(c) }

Unrealized == [c \in Cases |-> <<>>]
=============================================================================
