------------------------------- MODULE MCCase -------------------------------
(***************************************************************************)
(* The judgement of one case: every sequence of answers to the original    *)
(* and four perturbed inputs of two families, with the NLI oracles on and  *)
(* the intervals of the percentile bootstrap.                              *)
(***************************************************************************)
EXTENDS RunSession

MCFamilies == {"typo_noise", "paraphrase"}
MCInvariants == {"contains"}
MCPrompts == {"ask", "typo1", "typo2", "typo3", "rewritten"}

(* How the judges see an answer:                                           *)
(*   right    passes, is entailed by the reference                         *)
(*   hedge    passes, says nothing (a refusal marker), neutral             *)
(*   denial   passes, asserts the opposite of the reference                *)
(*   wrong    lacks a required text, fails the invariant, contradicts      *)
(*   drift    fails the invariant, neutral to the reference                *)
MCOutputs == {"right", "hedge", "denial", "wrong", "drift"}
MCPasses == { <<"contains", o, p>> : o \in MCOutputs,
                                     p \in {"right", "hedge", "denial"} }
MCMissesRequired == {"wrong"}
MCNullOutputs == {"hedge"}
MCRelation == [ right |-> "ENTAILMENT", hedge |-> "NEUTRAL",
                denial |-> "CONTRADICTION", wrong |-> "CONTRADICTION",
                drift |-> "NEUTRAL" ]
MCContradicts == {"right"} \X {"denial", "wrong"}

MCAnswers == [ [p \in MCPrompts |-> MCOutputs] EXCEPT
                 !["typo3"] = {"right", "drift"} ]
MCOriginal == <<"ask">>
Typo(p) == [family |-> "typo_noise", texts |-> {p}, llm |-> FALSE]
MCSlots == << << Typo("typo1"),
                 [family |-> "paraphrase", texts |-> {"rewritten"}, llm |-> TRUE],
                 Typo("typo2"), Typo("typo3") >> >>

(* bootstrap_stability with up to three trials. *)
MCScale == 2400
B == INSTANCE Bootstrap WITH Scale <- 2400, Slack <- 15
MCIntervals == [ n \in 1..4 |-> [ k \in 0..n |-> B!bootstrap_stability(n, k) ] ]
MCBootstrapCI(n, k) == MCIntervals[n][k]
=============================================================================
