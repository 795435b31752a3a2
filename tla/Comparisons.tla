----------------------------- MODULE Comparisons -----------------------------
(***************************************************************************)
(* The commands that compare stored sessions with an exit code of their    *)
(* own: diff and timeline.  They read artifacts and change nothing, so     *)
(* they are operators that give the exit code.                             *)
(*                                                                         *)
(* An artifact is a record [id, at, cases, verdict, score]: cases is a     *)
(* function from case ids (a spec may not repeat one) to records           *)
(* [verdict, lo].  lo (stability_ci_low) and score (the falsifiability     *)
(* score) are in hundredths, as far as diff's rounding sees them.          *)
(***************************************************************************)
EXTENDS Verdicts

RegressionCode == 5
LowFalsifiabilityCode == 6

STRICT_CONFIDENCE_DROP_THRESHOLD == 10
LOW_FALSIFIABILITY_THRESHOLD == 50

-----------------------------------------------------------------------------
(* diff *)

(* The two verdicts that are not a point on the quality axis. *)
OffTheLadder == {"INVALID_EVAL", "INSUFFICIENT"}

(* Mutant of QUALITY_RANK: the two grades of instability are one.          *)
QUALITY_RANK_Coarse(v) ==
  CASE v = "INFORMATION_PRESENT" -> 0
    [] v = "STABLE" -> 1
    [] v \in {"AMBIGUOUS", "INFORMATION_NULL"} -> 2
    [] v \in {"FRAGILE", "ADVERSARIALLY_VULNERABLE", "CONSISTENTLY_WRONG"} -> 3

QUALITY_RANK(v) ==
  CASE v = "INFORMATION_PRESENT" -> 0
    [] v = "STABLE" -> 1
    [] v \in {"AMBIGUOUS", "INFORMATION_NULL"} -> 2
    [] v = "FRAGILE" -> 3
    [] v \in {"ADVERSARIALLY_VULNERABLE", "CONSISTENTLY_WRONG"} -> 4

Ranked(v) == v \notin OffTheLadder

(* Mutant of Worse: a downgrade by one rank is taken for noise.            *)
Worse_ByTwo(candidate, baseline) ==
  /\ Ranked(baseline) /\ Ranked(candidate)
  /\ QUALITY_RANK(candidate) > QUALITY_RANK(baseline) + 1

Worse(candidate, baseline) ==
  /\ Ranked(baseline) /\ Ranked(candidate)
  /\ QUALITY_RANK(candidate) > QUALITY_RANK(baseline)

classify_transition(baseline, candidate) ==
  CASE baseline = candidate -> "unchanged"
    [] Worse(candidate, baseline) -> "regressed"
    [] Worse(baseline, candidate) -> "improved"
    [] baseline = "INSUFFICIENT" /\ candidate \in Success -> "improved"
    [] OTHER -> "other_change"

Tested(a) == DOMAIN a.cases

(* What became of each case of either artifact. *)
compute_diff(baseline, candidate) ==
  [ c \in Tested(baseline) \cup Tested(candidate) |->
      CASE c \notin Tested(baseline) -> "added"
        [] c \notin Tested(candidate) -> "removed"
        [] OTHER -> classify_transition(baseline.cases[c].verdict,
                                        candidate.cases[c].verdict) ]

Regressed(report) == \E c \in DOMAIN report : report[c] = "regressed"

(* Mutant of LostConfidence: a drop at the threshold is let through.       *)
LostConfidence_Above(report, baseline, candidate) ==
  \E c \in DOMAIN report :
    /\ report[c] = "unchanged"
    /\ baseline.cases[c].lo - candidate.cases[c].lo
         > STRICT_CONFIDENCE_DROP_THRESHOLD

LostConfidence(report, baseline, candidate) ==
  \E c \in DOMAIN report :
    /\ report[c] = "unchanged"
    /\ baseline.cases[c].lo - candidate.cases[c].lo
         >= STRICT_CONFIDENCE_DROP_THRESHOLD

Fails(baseline, candidate, strict) ==
  LET report == compute_diff(baseline, candidate)
  IN \/ Regressed(report)
     \/ strict /\ LostConfidence(report, baseline, candidate)

Unconvincing(candidate, strict) ==
  strict /\ candidate.score < LOW_FALSIFIABILITY_THRESHOLD

(* Mutant of diff_exit_code: low falsifiability comes first.               *)
diff_exit_code_LowFirst(baseline, candidate, strict) ==
  IF Unconvincing(candidate, strict) THEN LowFalsifiabilityCode
  ELSE IF Fails(baseline, candidate, strict) THEN RegressionCode
  ELSE 0

diff_exit_code(baseline, candidate, strict) ==
  IF Fails(baseline, candidate, strict) THEN RegressionCode
  ELSE IF Unconvincing(candidate, strict) THEN LowFalsifiabilityCode
  ELSE 0

-----------------------------------------------------------------------------
(* timeline *)

(* The positions of a chronological list of verdicts at which it flags a   *)
(* regression.                                                             *)
compute_timeline(verdicts) ==
  { i \in 2..Len(verdicts) :
      classify_transition(verdicts[i - 1], verdicts[i]) = "regressed" }

(* Mutant of Chronological: the query's order is kept.                     *)
Chronological_NewestFirst(newest_first, c) ==
  [i \in 1..Len(newest_first) |-> newest_first[i].cases[c].verdict]

Chronological(newest_first, c) ==
  [i \in 1..Len(newest_first) |->
     newest_first[Len(newest_first) + 1 - i].cases[c].verdict]

(* The exit code, given the artifacts that query_sessions listed. *)
cmd_timeline(newest_first, c) ==
  IF newest_first = <<>> THEN ErrorCode
  ELSE IF compute_timeline(Chronological(newest_first, c)) # {}
  THEN RegressionCode
  ELSE 0
=============================================================================
