------------------------------ MODULE MCClaims ------------------------------
(***************************************************************************)
(* What the repository says of the judgement of a case and of the exit     *)
(* status, each statement for the runs of MCCase.  The code does not keep  *)
(* them: the README's findings quote the lines.                            *)
(***************************************************************************)
EXTENDS MCCase

(* contradiction.py: "A set that disagrees with itself cannot support a    *)
(* confident verdict"; verdict/models.py promises AMBIGUOUS for an oracle  *)
(* disagreement below the bar of INVALID_EVAL.                             *)
SelfContradictionIsNotConfident ==
  \A c \in DOMAIN results :
    SelfContradictory(AllOutputs(results[c].original, results[c].runs))
      => results[c].verdict \notin Success

(* main.py: status 1 is DEGRADED, a verdict; a bad spec, a missing         *)
(* credential or a model call that fails is 3.                             *)
OneIsADegradedVerdict ==
  pc = "exited" /\ exit.code = 1 => verdict \in Degraded
=============================================================================
