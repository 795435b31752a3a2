----------------------------- MODULE MCSession ------------------------------
(***************************************************************************)
(* Whole sessions: two cases that share a family, two runs on one store, a *)
(* prompt that comes up three times, rewrites that may be dropped (all of  *)
(* them: no evidence), the cache on at temperature zero, no NLI.           *)
(***************************************************************************)
EXTENDS RunSession

MCPrompts == {"ask1", "ask1typo", "ask2", "ask2rewritten"}
MCOutputs == {"right", "wrong", "drift"}
MCFamilies == {"typo_noise", "paraphrase"}
MCInvariants == {"contains"}

(* "drift" fails the invariant without contradicting the ground truth;     *)
(* "wrong" lacks what expected.contains asks and passes nothing.           *)
MCPasses == { <<"contains", o, "right">> : o \in MCOutputs }
MCMissesRequired == {"wrong"}
MCRelation == [o \in MCOutputs |-> "NEUTRAL"]

MCAnswers == [ ask1 |-> {"right", "wrong"}, ask1typo |-> {"right", "drift", "wrong"},
               ask2 |-> {"right", "wrong"}, ask2rewritten |-> {"right", "wrong"} ]

(* A rewrite may be the input itself, or the input of another case.        *)
MCOriginal == <<"ask1", "ask2">>
MCSlots ==
  << << [family |-> "typo_noise", texts |-> {"ask1typo"}, llm |-> FALSE],
        [family |-> "paraphrase", texts |-> {"ask1"}, llm |-> TRUE] >>,
     << [family |-> "paraphrase", texts |-> {"ask2rewritten"}, llm |-> TRUE],
        [family |-> "paraphrase", texts |-> {"ask1"}, llm |-> TRUE] >> >>

(* At most two trials per family, whose exact interval is the unit one     *)
(* unless they agree.                                                      *)
MCBootstrapCI(n, k) ==
  IF k \in {0, n} THEN { <<100 * (k \div n), 100 * (k \div n)>> }
  ELSE { <<0, 100>> }
=============================================================================
