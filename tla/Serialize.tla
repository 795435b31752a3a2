----------------------------- MODULE Serialize -----------------------------
(***************************************************************************)
(* An artifact as a run builds it and as the store keeps it: a JSON        *)
(* document, in which not everything comes back as it went in.             *)
(*                                                                         *)
(* An artifact is a record                                                 *)
(*   session_id, tz_aware      its id, and whether created_at has a zone   *)
(*   inputs, hash              the realized inputs and materialized_hash   *)
(*   results                   a sequence of [verdict, lo, mid, hi]        *)
(*   session                   the session verdict, its counts, its score  *)
(* where lo, mid and hi (the interval around the stability of the worst    *)
(* family) and the score are in hundredths.  The inputs are two values:    *)
(* their texts, and what their perturbations put in lineage.params, which  *)
(* is of the perturbation's choice (a plugin's, too).                      *)
(***************************************************************************)
EXTENDS Integers, Sequences

CONSTANT Lost  \* what a payload has under a key that is not there

(* What params may hold; an object is a dataclass, a leaf an enum, a date  *)
(* or a pydantic model, and an alien anything else.                        *)
Param(contents) ==
  [ kind : {"plain", "list", "tuple", "dict", "unsorted dict", "object", "leaf",
            "alien"},
    of : contents ]

-----------------------------------------------------------------------------
(* Encoding *)

(* dataclasses.asdict, json.dumps with sorted keys, and json.loads.        *)
through(v) ==
  CASE v.kind = "tuple" -> [v EXCEPT !.kind = "list"]
    [] v.kind \in {"unsorted dict", "object"} -> [v EXCEPT !.kind = "dict"]
    [] v.kind = "leaf" -> [v EXCEPT !.kind = "plain"]
    [] OTHER -> v

IsJson(v) == through(v) = v

(* artifact_to_json raises on a naive created_at and, in _encode_leaf, on  *)
(* a value it does not know.                                               *)
Encodable(a) == a.tz_aware /\ a.inputs.params.kind # "alien"

artifact_to_json(a) == [a EXCEPT !.inputs.params = through(@)]

-----------------------------------------------------------------------------
(* Decoding *)

get(x, default) == IF x = Lost THEN default ELSE x

NoParams == [kind |-> "dict", of |-> Lost]

make_inputs(d) == [text |-> d.text, params |-> get(d.params, NoParams)]

make_case_result(d) ==
  [ verdict |-> d.verdict, lo |-> get(d.lo, 0), mid |-> get(d.mid, 0),
    hi |-> get(d.hi, 0) ]

make_session_verdict(d) ==
  [ verdict |-> d.verdict, case_count |-> d.case_count,
    fragile_count |-> d.fragile_count,
    consistently_wrong_count |-> d.consistently_wrong_count,
    score |-> get(d.score, 0) ]

(* The keys artifact_from_json must find: without one it raises            *)
(* ReplayStoreError.                                                       *)
Decodable(d) ==
  /\ d.session_id # Lost /\ d.tz_aware # Lost /\ d.hash # Lost
  /\ d.inputs.text # Lost
  /\ \A i \in DOMAIN d.results : d.results[i].verdict # Lost
  /\ d.session.verdict # Lost /\ d.session.case_count # Lost
  /\ d.session.fragile_count # Lost /\ d.session.consistently_wrong_count # Lost

artifact_from_json(d) ==
  [ session_id |-> d.session_id, tz_aware |-> d.tz_aware,
    inputs |-> make_inputs(d.inputs), hash |-> d.hash,
    results |-> [i \in DOMAIN d.results |-> make_case_result(d.results[i])],
    session |-> make_session_verdict(d.session) ]
=============================================================================
