------------------------------ MODULE Integrity ------------------------------
(***************************************************************************)
(* The artifact that a run preserves, the eight checks that verify and     *)
(* export make of it, and what verify says of a store.                     *)
(***************************************************************************)
EXTENDS Verdicts, Serialize, FiniteSets

CONSTANTS
  Sessions,  \* the ids that runs give, all of them UUIDs
  Inputs     \* the realized inputs of a spec: [text, params]

One == 100

(* Equal digests mean equal contents. *)
sha256(data) == <<"sha256", data>>

(* What is hashed of a param that is not a JSON scalar is its str().       *)
jsonable(v) == IF v.kind = "plain" THEN v ELSE [kind |-> "plain", of |-> <<"str", v>>]

compute_materialized_hash(inputs) ==
  sha256([text |-> inputs.text, params |-> jsonable(inputs.params)])

count_verdict(results, v) ==
  Cardinality({ i \in DOMAIN results : results[i].verdict = v })

(* Mutant of SessionVerdict: the fragile count is that of all unstable     *)
(* cases.                                                                  *)
SessionVerdict_AllUnstable(results, score) ==
  [ verdict |-> resolve_session([i \in DOMAIN results |-> results[i].verdict]),
    case_count |-> Len(results),
    fragile_count |-> count_verdict(results, "FRAGILE")
                        + count_verdict(results, "ADVERSARIALLY_VULNERABLE"),
    consistently_wrong_count |-> count_verdict(results, "CONSISTENTLY_WRONG"),
    score |-> score ]

SessionVerdict(results, score) ==
  [ verdict |-> resolve_session([i \in DOMAIN results |-> results[i].verdict]),
    case_count |-> Len(results),
    fragile_count |-> count_verdict(results, "FRAGILE"),
    consistently_wrong_count |-> count_verdict(results, "CONSISTENTLY_WRONG"),
    score |-> score ]

(* What cmd_run saves: materialize hashed the inputs before anything was   *)
(* serialized.                                                             *)
ReplayArtifact(id, inputs, results, score) ==
  [ session_id |-> id, tz_aware |-> TRUE,
    inputs |-> inputs, hash |-> compute_materialized_hash(inputs),
    results |-> results, session |-> SessionVerdict(results, score) ]

-----------------------------------------------------------------------------
(* The checks *)

ci_bounds(r) == 0 <= r.lo /\ r.lo <= r.mid /\ r.mid <= r.hi /\ r.hi <= One

(* The checks that fail. *)
failed_checks(a) ==
  (IF a.session_id \in Sessions THEN {} ELSE {"session_id_format"})
    \cup (IF a.tz_aware THEN {} ELSE {"created_at_tz_aware"})
    \cup (IF a.hash = compute_materialized_hash(a.inputs)
          THEN {} ELSE {"materialized_hash"})
    \cup (IF a.session.case_count = Len(a.results)
          THEN {} ELSE {"case_count_consistency"})
    \cup (IF a.session.fragile_count = count_verdict(a.results, "FRAGILE")
          THEN {} ELSE {"fragile_count_consistency"})
    \cup (IF a.session.consistently_wrong_count
               = count_verdict(a.results, "CONSISTENTLY_WRONG")
          THEN {} ELSE {"consistently_wrong_count_consistency"})
    \cup (IF \A i \in DOMAIN a.results : ci_bounds(a.results[i])
          THEN {} ELSE {"ci_bounds"})
    \cup (IF a.session.score \in 0..One
          THEN {} ELSE {"falsifiability_score_range"})

all_passed(a) == failed_checks(a) = {}

INTEGRITY_FAILURE_EXIT_CODE == 7

(* cmd_verify of the artifacts with these payloads: of one session, or of  *)
(* the newest 10,000.                                                      *)
cmd_verify(payloads) ==
  IF \E d \in payloads : ~ Decodable(d) THEN TracebackCode
  ELSE IF \A d \in payloads : all_passed(artifact_from_json(d)) THEN 0
  ELSE INTEGRITY_FAILURE_EXIT_CODE
=============================================================================
