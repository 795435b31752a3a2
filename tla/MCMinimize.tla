----------------------------- MODULE MCMinimize ------------------------------
(***************************************************************************)
(* Searches over levels given in any order, twice the same, or none; with  *)
(* inputs that come up at several levels and one that noise left as it     *)
(* was; and with no samples at all.                                        *)
(***************************************************************************)
EXTENDS Minimize

MCPrompts == {"ask", "w", "x", "y", "z"}
MCOutputs == {"right", "hedge", "wrong", "drift"}
MCPasses == { <<"contains", o, p>> : o \in MCOutputs, p \in {"right", "hedge"} }
MCRelation == [o \in MCOutputs |-> "NEUTRAL"]
MCAnswers == [p \in MCPrompts |-> MCOutputs]

Typos(prompts) == [i \in DOMAIN prompts |-> [family |-> "typo_noise", prompt |-> prompts[i]]]
MCInputs == << Typos(<<"ask", "w", "x">>), Typos(<<"x", "y", "ask">>), Typos(<<"y", "z", "w">>) >>
MCLevels == { <<>>, <<3, 1, 2>>, <<2, 1, 1>>, <<2, 3>>, <<1>> }
MCInvocations ==
  { [levels |-> l, inputs |-> MCInputs] : l \in MCLevels }
    \cup { [levels |-> <<2, 1>>, inputs |-> [s \in 1..3 |-> <<>>]] }

MCBootstrapCI(n, k) ==
  IF k \in {0, n} THEN { <<100 * (k \div n), 100 * (k \div n)>> }
  ELSE { <<0, 100>> }
=============================================================================
