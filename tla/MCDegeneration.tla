--------------------------- MODULE MCDegeneration ----------------------------
(***************************************************************************)
(* A case of twenty perturbed inputs against a model that answers the      *)
(* original input well and every perturbed one badly.                      *)
(***************************************************************************)
EXTENDS RunSession

MCOutputs == {"good", "bad"}
MCPasses == { <<"contains", o, "good">> : o \in MCOutputs }
MCRelation == [o \in MCOutputs |-> "NEUTRAL"]
MCAnswers == [ask |-> {"good"}, typo |-> {"bad"}]
MCOriginal == <<"ask">>
MCSlots ==
  << [i \in 1..20 |-> [family |-> "typo_noise", texts |-> {"typo"}, llm |-> FALSE]] >>

(* Every trial of the one family fails, or none does.                      *)
MCBootstrapCI(n, k) ==
  IF k \in {0, n} THEN { <<100 * (k \div n), 100 * (k \div n)>> }
  ELSE { <<0, 100>> }

(* meta.py: "the 'including baseline' detail is load-bearing: it is what   *)
(* distinguishes a malformed invariant from a genuinely failing model".    *)
(* Where no two oracles disagree, INVALID_EVAL means that some invariant   *)
(* rejects even the unperturbed answer.                                    *)
DegenerationNeedsTheBaseline ==
  \A c \in DOMAIN results :
    /\ results[c].verdict = "INVALID_EVAL"
    /\ ~ detect_oracle_conflict(Peers(AllOutputs(results[c].original,
                                                 results[c].runs)))
    => \E inv \in Invariants :
         <<inv, results[c].original, results[c].original>> \notin Passes
=============================================================================
