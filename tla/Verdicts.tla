------------------------------ MODULE Verdicts ------------------------------
(***************************************************************************)
(* The verdict taxonomy of falsifyai, the exit code each session verdict   *)
(* gives the process, and the roll-up of case verdicts into the verdict of *)
(* a session.  Everything here is pure.                                    *)
(***************************************************************************)
EXTENDS Integers, Sequences

Verdict == { "INFORMATION_PRESENT", "STABLE", "CONSISTENTLY_WRONG",
             "ADVERSARIALLY_VULNERABLE", "FRAGILE", "INFORMATION_NULL",
             "AMBIGUOUS", "INSUFFICIENT", "INVALID_EVAL" }

(* render._EXIT_CODES, by class of verdict. *)
Success == {"INFORMATION_PRESENT", "STABLE"}
Degraded == {"FRAGILE", "AMBIGUOUS", "INFORMATION_NULL"}
Failure == {"CONSISTENTLY_WRONG", "ADVERSARIALLY_VULNERABLE", "INVALID_EVAL"}

(* Mutant of exit_code_for: a failure exits with diff's REGRESSION.        *)
exit_code_for_Regression(v) ==
  CASE v \in Success -> 0
    [] v \in Degraded -> 1
    [] v \in Failure -> 5
    [] OTHER -> 4

exit_code_for(v) ==
  CASE v \in Success -> 0
    [] v \in Degraded -> 1
    [] v \in Failure -> 2
    [] OTHER -> 4

(* errors.CLIError's default code, and the status of a Python process that *)
(* dies of an uncaught exception.                                          *)
ErrorCode == 3
TracebackCode == 1
ExitCodes == 0..4

-----------------------------------------------------------------------------
(* resolve_session: the verdicts one case of which taints the session, the *)
(* worst first; the rest need every case to agree.                         *)
TaintOrder == << "INVALID_EVAL", "CONSISTENTLY_WRONG",
                 "ADVERSARIALLY_VULNERABLE", "FRAGILE", "AMBIGUOUS",
                 "INFORMATION_NULL" >>

Taints(verdicts) ==
  { k \in 1..6 : \E i \in DOMAIN verdicts : verdicts[i] = TaintOrder[k] }

AllAre(verdicts, v) == \A i \in DOMAIN verdicts : verdicts[i] = v

(* Mutant of resolve_session: one stable case redeems the session.         *)
resolve_session_BestCase(verdicts) ==
  IF \E i \in DOMAIN verdicts : verdicts[i] = "STABLE" THEN "STABLE"
  ELSE IF Taints(verdicts) = {} THEN "INSUFFICIENT"
  ELSE TaintOrder[CHOOSE k \in Taints(verdicts) :
                    \A j \in Taints(verdicts) : k <= j]

resolve_session(verdicts) ==
  IF Taints(verdicts) # {}
  THEN TaintOrder[CHOOSE k \in Taints(verdicts) :
                    \A j \in Taints(verdicts) : k <= j]
  ELSE IF AllAre(verdicts, "INSUFFICIENT")       \* true of no cases at all too
  THEN "INSUFFICIENT"
  ELSE IF AllAre(verdicts, "INFORMATION_PRESENT")
  THEN "INFORMATION_PRESENT"
  ELSE "STABLE"
=============================================================================
