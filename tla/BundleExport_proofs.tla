------------------------- MODULE BundleExport_proofs -------------------------
(***************************************************************************)
(* What a bundle says of itself is proved from one inductive invariant:    *)
(* what a process has prepared is the bundle of one artifact, which passed *)
(* the checks or was exported by consent; and what the file's directory    *)
(* lists is a part of what one process prepared, in which the manifest     *)
(* never comes without the evidence.                                       *)
(***************************************************************************)
EXTENDS BundleExport, Verdicts_proofs, FiniteSetTheorems

Shape ==
  /\ pc \in [Procs -> {"test_path", "load", "open", "write", "done", "killed"}]
  /\ args \in [Procs -> Args]
  /\ exit \in [Procs -> {NoExit, 0, TracebackCode, ErrorCode,
                         INTEGRITY_FAILURE_EXIT_CODE}]
  /\ made = [p \in Procs |-> made[p]]
  /\ written = [p \in Procs |-> written[p]]
  /\ mixed \subseteq Procs

Phase(p) ==
  /\ (exit[p] # NoExit) <=> (pc[p] = "done")
  /\ pc[p] \in {"open", "write"} => made[p] # NoEntries
  /\ pc[p] \in {"test_path", "load"} => made[p] = NoEntries

(* The manifest comes after the readme and the artifact. *)
InOrder(names) ==
  "manifest.json" \in names => "README.md" \in names /\ "artifact.json" \in names

Written(p) == written[p] \subseteq DOMAIN made[p] /\ InOrder(written[p])

(* The artifact of the bundle that p prepared. *)
Bundled(p) == artifact_from_json(made[p]["artifact.json"])

(* What p prepared is the bundle of the artifact in it. *)
Prepared(p) ==
  made[p] # NoEntries =>
    made[p] = all_entries(Bundled(p), args[p]) /\ ~ refused(Bundled(p), args[p])

Part(entries, p) ==
  /\ made[p] # NoEntries
  /\ \E names \in SUBSET DOMAIN made[p] :
       InOrder(names) /\ entries = Restricted(made[p], names)

FileInv ==
  \/ file.entries = NoEntries
  \/ \E p \in Procs : Part(file.entries, p)

(* What JSON gives back it gives back again. *)
IsPayload(d) ==
  /\ IsArtifact(d)
  /\ d.inputs = [text |-> d.inputs.text, params |-> d.inputs.params]
  /\ d.inputs.params = Lost \/ IsJson(d.inputs.params)

(* A payload that verifies, or one whose params JSON did not give back.    *)
IsHonest(d) ==
  \/ cmd_verify({d}) = 0
  \/ /\ cmd_verify({d}) = INTEGRITY_FAILURE_EXIT_CODE
     /\ failed_checks(artifact_from_json(d)) = {"materialized_hash"}
     /\ \E i \in Inputs : /\ d.hash = compute_materialized_hash(i)
                           /\ ~ IsJson(i.params)

StoredSound ==
  /\ DOMAIN stored \subseteq Sessions
  /\ decayed \subseteq DOMAIN stored
  /\ \A id \in DOMAIN stored : IsPayload(stored[id])
  /\ \A id \in DOMAIN stored \ decayed : IsHonest(stored[id])

Fails(id) ==
  id \in DOMAIN stored /\ cmd_verify({stored[id]}) = INTEGRITY_FAILURE_EXIT_CODE

(* Only a session that decayed, or that does not verify either, is refused *)
(* or exported under protest.                                              *)
Honest(p) ==
  /\ exit[p] = INTEGRITY_FAILURE_EXIT_CODE =>
       args[p].session \in decayed \/ Fails(args[p].session)
  /\ made[p] # NoEntries =>
       \/ args[p].session \in decayed
       \/ all_passed(Bundled(p))
       \/ Fails(args[p].session)

ExportInv ==
  /\ Shape
  /\ \A p \in Procs : Phase(p)
  /\ \A p \in Procs : Written(p)
  /\ \A p \in Procs : Prepared(p)
  /\ FileInv
  /\ StoredSound
  /\ \A p \in Procs : Honest(p)

-----------------------------------------------------------------------------
(* The contents of a bundle. *)

(* all_entries gives every name the content write_bundle prepared for it.  *)
LEMMA EntriesOfBundle ==
  ASSUME NEW a, NEW arg
  PROVE  /\ all_entries(a, arg) # NoEntries
         /\ DOMAIN all_entries(a, arg)
              = {"manifest.json", "artifact.json", "README.md"}
                  \cup (IF arg.spec = NoSpec THEN {} ELSE {"spec.yaml"})
         /\ all_entries(a, arg)["manifest.json"] = BundleManifest(a, arg)
         /\ all_entries(a, arg)["artifact.json"] = artifact_to_json(a)
         /\ all_entries(a, arg)["README.md"] = generate_readme(a, arg)
         /\ arg.spec # NoSpec => all_entries(a, arg)["spec.yaml"] = arg.spec
<1> DEFINE base == {"manifest.json", "artifact.json", "README.md"}
<1> DEFINE names == base \cup (IF arg.spec = NoSpec THEN {} ELSE {"spec.yaml"})
<1> DEFINE e == [ n \in names |-> IF n = "manifest.json" THEN BundleManifest(a, arg)
                                  ELSE Payload(a, arg, n) ]
<1>1. all_entries(a, arg) = e
  BY DEF all_entries
<1>2. "manifest.json" \in DOMAIN e
  OBVIOUS
<1>3. e # NoEntries
  <2>1. DOMAIN NoEntries = {}
    BY DEF NoEntries
  <2> QED  BY <1>2, <2>1
<1>4. e["manifest.json"] = BundleManifest(a, arg)
  OBVIOUS
<1>5. e["artifact.json"] = artifact_to_json(a) /\ e["README.md"] = generate_readme(a, arg)
  BY DEF Payload
<1>6. arg.spec # NoSpec => e["spec.yaml"] = arg.spec
  BY DEF Payload
<1> HIDE DEF e
<1>7. DOMAIN e = names
  BY DEF e
<1> QED  BY <1>1, <1>3, <1>4, <1>5, <1>6, <1>7

(* The manifest lists the digests of the other entries, and no more.       *)
LEMMA ManifestOfBundle ==
  ASSUME NEW a, NEW arg
  PROVE  LET m == BundleManifest(a, arg).manifest
             e == all_entries(a, arg)
         IN /\ DOMAIN m.files = DOMAIN e \ {"manifest.json"}
            /\ \A n \in DOMAIN m.files : m.files[n] = sha256(e[n])
            /\ m.failed_checks = failed_checks(a)
            /\ m.artifact_verified = all_passed(a)
            /\ m.exported_under_protest = under_protest(a, arg)
<1> DEFINE m == BundleManifest(a, arg).manifest
<1> DEFINE f == [ n \in files_payload(arg) |-> sha256(Payload(a, arg, n)) ]
<1>1. m = manifest_without_id(a, arg)
  BY DEF BundleManifest
<1>2. /\ m.files = f
      /\ m.failed_checks = failed_checks(a)
      /\ m.artifact_verified = all_passed(a)
      /\ m.exported_under_protest = under_protest(a, arg)
  BY <1>1 DEF manifest_without_id
<1>3. files_payload(arg) = DOMAIN all_entries(a, arg) \ {"manifest.json"}
  <2>1. DOMAIN all_entries(a, arg)
          = {"manifest.json", "artifact.json", "README.md"}
              \cup (IF arg.spec = NoSpec THEN {} ELSE {"spec.yaml"})
    BY EntriesOfBundle
  <2> QED  BY <2>1 DEF files_payload
<1>4. \A n \in files_payload(arg) : Payload(a, arg, n) = all_entries(a, arg)[n]
  BY DEF files_payload, all_entries
<1>5. DOMAIN f = files_payload(arg)
  OBVIOUS
<1>6. \A n \in files_payload(arg) : f[n] = sha256(Payload(a, arg, n))
  OBVIOUS
<1> HIDE DEF f, m
<1>7. DOMAIN m.files = DOMAIN all_entries(a, arg) \ {"manifest.json"}
  BY <1>2, <1>3, <1>5
<1>8. \A n \in DOMAIN m.files : m.files[n] = sha256(all_entries(a, arg)[n])
  BY <1>2, <1>4, <1>5, <1>6
<1> QED  BY <1>2, <1>7, <1>8 DEF m

(* Equal digests have equal contents. *)
LEMMA DigestsDetermine ==
  ASSUME NEW x, NEW y, sha256(x) = sha256(y)
  PROVE  x = y
<1>1. sha256(x)[2] = x /\ sha256(y)[2] = y
  BY DEF sha256
<1> QED  BY <1>1

-----------------------------------------------------------------------------
(* Artifacts and their payloads. *)

(* A decoded artifact is the same after one more round trip.               *)
LEMMA RoundTrip ==
  ASSUME NEW d, d.inputs.params = Lost \/ IsJson(d.inputs.params)
  PROVE  artifact_from_json(artifact_to_json(artifact_from_json(d)))
           = artifact_from_json(d)
<1> DEFINE x == [text |-> d.inputs.text, params |-> get(d.inputs.params, NoParams)]
           r == [i \in DOMAIN d.results |-> make_case_result(d.results[i])]
           s == make_session_verdict(d.session)
           a == [ session_id |-> d.session_id, tz_aware |-> d.tz_aware, inputs |-> x,
                  hash |-> d.hash, results |-> r, session |-> s ]
<1>1. artifact_from_json(d) = a
  BY DEF artifact_from_json, make_inputs
<1>2. through(x.params) = x.params
  BY DEF get, NoParams, IsJson, through
<1>3. artifact_to_json(a) = a
  <2>1. [x EXCEPT !.params = through(@)] = x
    BY <1>2
  <2>2. artifact_to_json(a) = [a EXCEPT !.inputs = [a.inputs EXCEPT !.params = through(@)]]
    BY DEF artifact_to_json
  <2> HIDE DEF x, r, s
  <2> QED  BY <2>1, <2>2
<1>4. make_inputs(x) = x
  BY DEF make_inputs, get
<1>5. [i \in DOMAIN r |-> make_case_result(r[i])] = r
  <2>1. \A c : make_case_result(make_case_result(c)) = make_case_result(c)
    BY DEF make_case_result, get
  <2>2. \A i \in DOMAIN d.results : make_case_result(r[i]) = r[i]
    BY <2>1
  <2> QED  BY <2>2
<1>6. make_session_verdict(s) = s
  BY DEF make_session_verdict, get
<1>7. artifact_from_json(a) = a
  <2> HIDE DEF x, r, s
  <2> QED  BY <1>4, <1>5, <1>6 DEF artifact_from_json
<1> HIDE DEF a
<1> QED  BY <1>1, <1>3, <1>7

(* verify of one session. *)
LEMMA VerifyOne ==
  ASSUME NEW d, Decodable(d)
  PROVE  cmd_verify({d}) = IF all_passed(artifact_from_json(d)) THEN 0
                           ELSE INTEGRITY_FAILURE_EXIT_CODE
BY DEF cmd_verify

LEMMA CountIsNat ==
  ASSUME NEW r \in Results, NEW v
  PROVE  count_verdict(r, v) \in Nat
<1>1. DOMAIN r = 1..Len(r) /\ Len(r) \in Nat
  BY BundleAssumption DEF BundleAssumption
<1>2. IsFiniteSet(1..Len(r))
  BY <1>1, FS_Interval
<1>3. IsFiniteSet({ i \in DOMAIN r : r[i].verdict = v })
  BY <1>1, <1>2, FS_Subset
<1> QED  BY <1>3, FS_CardinalityType DEF count_verdict

(* Results and session verdicts lose nothing in the payload. *)
LEMMA ResultsSurvive ==
  ASSUME NEW r \in Results, NEW s \in Scores
  PROVE  /\ [i \in DOMAIN r |-> make_case_result(r[i])] = r
         /\ \A i \in DOMAIN r : r[i].verdict # Lost
         /\ make_session_verdict(SessionVerdict(r, s)) = SessionVerdict(r, s)
         /\ SessionVerdict(r, s).verdict # Lost
         /\ SessionVerdict(r, s).case_count # Lost
         /\ SessionVerdict(r, s).fragile_count # Lost
         /\ SessionVerdict(r, s).consistently_wrong_count # Lost
<1> DEFINE T == [verdict : Verdict, lo : 0..One, mid : 0..One, hi : 0..One]
<1>1. /\ Lost \notin Int /\ Lost \notin Verdict /\ 0..One \subseteq Int
      /\ r \in Seq(T) /\ s \in 0..One
  <2>1. 0..One \subseteq Int
    BY DEF One
  <2>2. \A q \in Results : q \in Seq(T)
    BY BundleAssumption DEF BundleAssumption
  <2>3. Scores \subseteq 0..One /\ Lost \notin Int \cup Verdict
    BY BundleAssumption DEF BundleAssumption
  <2> QED  BY <2>1, <2>2, <2>3
<1>2. ASSUME NEW i \in DOMAIN r
      PROVE  make_case_result(r[i]) = r[i] /\ r[i].verdict # Lost
  <2>1. r[i] \in T
    <3> HIDE DEF T
    <3> QED  BY <1>1
  <2>2. r[i].lo # Lost /\ r[i].mid # Lost /\ r[i].hi # Lost /\ r[i].verdict # Lost
    BY <1>1, <2>1
  <2> QED  BY <2>1, <2>2 DEF make_case_result, get
<1>3. r = [i \in DOMAIN r |-> r[i]]
  BY <1>1
<1>4. s # Lost /\ Len(r) \in Int
  BY <1>1
<1>5. /\ SessionVerdict(r, s).verdict # Lost
      /\ SessionVerdict(r, s).case_count # Lost
      /\ SessionVerdict(r, s).fragile_count # Lost
      /\ SessionVerdict(r, s).consistently_wrong_count # Lost
  BY <1>1, <1>4, CountIsNat, SessionType DEF SessionVerdict
<1>6. make_session_verdict(SessionVerdict(r, s)) = SessionVerdict(r, s)
  BY <1>4 DEF SessionVerdict, make_session_verdict, get
<1> QED  BY <1>2, <1>3, <1>5, <1>6

(* What run stores decodes, and passes every check but that of the hash,   *)
(* which it fails only if JSON did not give back the params as they were.  *)
LEMMA PreservedIsHonest ==
  ASSUME NEW id \in Sessions, NEW d \in Preserved(id)
  PROVE  IsPayload(d) /\ IsHonest(d)
<1>1. PICK i \in Inputs, r \in Results, s \in Scores :
        d = artifact_to_json(ReplayArtifact(id, i, r, s))
  BY DEF Preserved
<1> DEFINE p == through(i.params)
           h == compute_materialized_hash(i)
           v == SessionVerdict(r, s)
           a == [ session_id |-> id, tz_aware |-> TRUE,
                  inputs |-> [text |-> i.text, params |-> p],
                  hash |-> h, results |-> r, session |-> v ]
<1>2. /\ i = [text |-> i.text, params |-> i.params]
      /\ i.text # Lost /\ p # Lost /\ h # Lost /\ id # Lost /\ TRUE # Lost
  BY BundleAssumption DEF BundleAssumption
<1>3. d = a
  <2>1. [i EXCEPT !.params = through(@)] = [text |-> i.text, params |-> p]
    BY <1>2
  <2> DEFINE b == [ session_id |-> id, tz_aware |-> TRUE, inputs |-> i, hash |-> h,
                    results |-> r, session |-> v ]
  <2>2. ReplayArtifact(id, i, r, s) = b
    BY DEF ReplayArtifact
  <2>3. artifact_to_json(b) = [b EXCEPT !.inputs = [b.inputs EXCEPT !.params = through(@)]]
    BY DEF artifact_to_json
  <2> HIDE DEF p, h, v
  <2>4. b.inputs = i
    OBVIOUS
  <2>5. artifact_to_json(b) = [b EXCEPT !.inputs = [text |-> i.text, params |-> p]]
    BY <2>1, <2>3, <2>4
  <2>6. [b EXCEPT !.inputs = [text |-> i.text, params |-> p]] = a
    <3>1. \A t, x, y :
            [ [ session_id |-> id, tz_aware |-> t, inputs |-> x, hash |-> h,
                results |-> r, session |-> v ] EXCEPT !.inputs = y ]
              = [ session_id |-> id, tz_aware |-> t, inputs |-> y, hash |-> h,
                  results |-> r, session |-> v ]
      OBVIOUS
    <3> QED  BY <3>1
  <2> QED  BY <1>1, <2>2, <2>5, <2>6
<1>4. IsJson(p)
  BY DEF IsJson, through
<1>5. IsPayload(d)
  <2> HIDE DEF p, h, v
  <2> QED  BY <1>3, <1>4 DEF IsPayload, IsArtifact
<1>6. artifact_from_json(a) = a
  <2>1. make_inputs(a.inputs) = a.inputs
    BY <1>2 DEF make_inputs, get
  <2>2. /\ [k \in DOMAIN a.results |-> make_case_result(a.results[k])] = a.results
        /\ make_session_verdict(a.session) = a.session
    BY ResultsSurvive
  <2> HIDE DEF p, h, v
  <2> QED  BY <2>1, <2>2 DEF artifact_from_json
<1>7. Decodable(a)
  <2>1. /\ \A k \in DOMAIN r : r[k].verdict # Lost
        /\ v.verdict # Lost /\ v.case_count # Lost /\ v.fragile_count # Lost
        /\ v.consistently_wrong_count # Lost
    BY ResultsSurvive
  <2> HIDE DEF p, h, v
  <2> QED  BY <1>2, <2>1 DEF Decodable
<1>8. failed_checks(a) = IF compute_materialized_hash(a.inputs) = h THEN {}
                         ELSE {"materialized_hash"}
  <2>1. /\ v.case_count = Len(r)
        /\ v.fragile_count = count_verdict(r, "FRAGILE")
        /\ v.consistently_wrong_count = count_verdict(r, "CONSISTENTLY_WRONG")
        /\ v.score = s
    BY DEF SessionVerdict
  <2>2. s \in 0..One /\ \A k \in DOMAIN r : ci_bounds(r[k])
    BY BundleAssumption DEF BundleAssumption
  <2> HIDE DEF p, h, v
  <2> QED  BY <2>1, <2>2 DEF failed_checks
<1>9. CASE compute_materialized_hash(a.inputs) = h
  <2> HIDE DEF a
  <2> QED  BY <1>3, <1>5, <1>6, <1>7, <1>8, <1>9, VerifyOne DEF IsHonest, all_passed
<1>10. CASE compute_materialized_hash(a.inputs) # h
  <2>1. ~ IsJson(i.params)
    <3> SUFFICES ASSUME p = i.params PROVE FALSE
      BY DEF IsJson
    <3> QED  BY <1>10 DEF compute_materialized_hash
  <2>2. a.hash = compute_materialized_hash(i)
    OBVIOUS
  <2> HIDE DEF a
  <2>3. failed_checks(a) = {"materialized_hash"}
    BY <1>8, <1>10
  <2>4. cmd_verify({a}) = INTEGRITY_FAILURE_EXIT_CODE
    BY <1>6, <1>7, <2>3, VerifyOne DEF all_passed
  <2> QED  BY <1>3, <1>5, <1>6, <2>1, <2>2, <2>3, <2>4 DEF IsHonest
<1> QED  BY <1>9, <1>10

-----------------------------------------------------------------------------
(* The invariant holds at first. *)

LEMMA InitInv == Init => ExportInv
<1> SUFFICES ASSUME Init PROVE ExportInv
  OBVIOUS
<1>1. Shape
  BY DEF Init, Shape
<1>2. \A p \in Procs : Phase(p) /\ Written(p) /\ Prepared(p)
  <2>1. \A p \in Procs : /\ pc[p] = "test_path" /\ exit[p] = NoExit
                          /\ made[p] = NoEntries /\ written[p] = {}
    BY DEF Init
  <2> QED  BY <2>1 DEF Phase, Written, InOrder, Prepared
<1>3. FileInv
  BY DEF Init, FileInv, Absent
<1>4. StoredSound
  <2>1. PICK saved \in SUBSET Sessions :
          stored \in { f \in [saved -> UNION { Preserved(id) : id \in saved }] :
                          \A id \in saved : f[id] \in Preserved(id) }
    BY DEF Init
  <2>2. DOMAIN stored = saved /\ \A id \in saved : stored[id] \in Preserved(id)
    BY <2>1
  <2>3. \A id \in DOMAIN stored : IsPayload(stored[id]) /\ IsHonest(stored[id])
    BY <2>2, PreservedIsHonest
  <2>4. decayed = {}
    BY DEF Init
  <2> QED  BY <2>2, <2>3, <2>4 DEF StoredSound
<1>5. \A p \in Procs : Honest(p)
  BY DEF Init, Honest, NoExit, INTEGRITY_FAILURE_EXIT_CODE
<1> QED  BY <1>1, <1>2, <1>3, <1>4, <1>5 DEF ExportInv

-----------------------------------------------------------------------------
(* How a step may change a process, and the file. *)

(* A step that prepares nothing new keeps every bundle as it was.          *)
LEMMA KeepPrepared ==
  ASSUME ExportInv, UNCHANGED <<made, args>>
  PROVE  /\ \A p \in Procs : Prepared(p)'
         /\ \A e, p : Part(e, p) => Part(e, p)'
  BY DEF ExportInv, Prepared, Bundled, Part

(* An exit ends only the process that exits. *)
LEMMA ExitPhases ==
  ASSUME ExportInv, NEW p \in Procs, pc[p] # "done", UNCHANGED made,
         NEW code \in {0, TracebackCode, ErrorCode, INTEGRITY_FAILURE_EXIT_CODE},
         ExitWith(p, code)
  PROVE  /\ pc' \in [Procs -> {"test_path", "load", "open", "write", "done", "killed"}]
         /\ exit' \in [Procs -> {NoExit, 0, TracebackCode, ErrorCode,
                                 INTEGRITY_FAILURE_EXIT_CODE}]
         /\ \A q \in Procs : Phase(q)'
         /\ exit'[p] = code
         /\ \A q \in Procs \ {p} : exit'[q] = exit[q]
<1>1. pc' = [pc EXCEPT ![p] = "done"] /\ exit' = [exit EXCEPT ![p] = code]
  BY DEF ExitWith
<1>2. Shape /\ \A q \in Procs : Phase(q)
  BY DEF ExportInv
<1>3. code # NoExit
  BY DEF NoExit, TracebackCode, ErrorCode, INTEGRITY_FAILURE_EXIT_CODE
<1> QED  BY <1>1, <1>2, <1>3 DEF Shape, Phase

(* A move to another step ends nothing. *)
LEMMA MovePhases ==
  ASSUME ExportInv, NEW p \in Procs, pc[p] # "done",
         NEW step \in {"load", "open", "write", "killed"},
         pc' = [pc EXCEPT ![p] = step], UNCHANGED <<exit, made>>,
         step \in {"open", "write"} => made[p] # NoEntries,
         step = "load" => made[p] = NoEntries
  PROVE  /\ pc' \in [Procs -> {"test_path", "load", "open", "write", "done", "killed"}]
         /\ \A q \in Procs : Phase(q)'
<1>1. Shape /\ \A q \in Procs : Phase(q)
  BY DEF ExportInv
<1> QED  BY <1>1 DEF Shape, Phase

(* What a process closes is a part of what it prepared, or the file as it  *)
(* was.                                                                    *)
LEMMA ClosedIsPart ==
  ASSUME ExportInv, NEW p \in Procs, made[p] # NoEntries,
         NEW f \in Closed(p) \cup {file}
  PROVE  f.entries = NoEntries \/ \E q \in Procs : Part(f.entries, q)
<1>1. FileInv /\ Written(p)
  BY DEF ExportInv
<1>2. CASE f = file
  BY <1>1, <1>2 DEF FileInv
<1>3. CASE f = Zip(Restricted(made[p], written[p]))
  <2>1. f.entries = Restricted(made[p], written[p])
    BY <1>3 DEF Zip
  <2>2. Part(f.entries, p)
    BY <1>1, <2>1 DEF Written, Part
  <2> QED  BY <2>2
<1> QED  BY <1>2, <1>3 DEF Closed

(* An export that ends and leaves the file alone. *)
LEMMA QuietExit ==
  ASSUME ExportInv, NEW p \in Procs, pc[p] # "done",
         NEW code \in {0, TracebackCode, ErrorCode, INTEGRITY_FAILURE_EXIT_CODE},
         ExitWith(p, code),
         code = INTEGRITY_FAILURE_EXIT_CODE =>
           args[p].session \in decayed \/ Fails(args[p].session),
         UNCHANGED <<store, args, made, written, mixed>>,
         FileInv'
  PROVE  ExportInv'
<1>1. Shape' /\ \A q \in Procs : Phase(q)'
  BY ExitPhases DEF ExportInv, Shape
<1>2. \A q \in Procs : Written(q)'
  BY DEF ExportInv, Written
<1>3. \A q \in Procs : Prepared(q)'
  BY KeepPrepared
<1>4. StoredSound'
  BY DEF ExportInv, StoredSound, store
<1>5. \A q \in Procs : Honest(q)'
  <2>1. \A q \in Procs : exit'[q] = exit[q] \/ (q = p /\ exit'[q] = code)
    BY ExitPhases
  <2> QED  BY <2>1 DEF ExportInv, Honest, Bundled, Fails, store
<1> QED  BY <1>1, <1>2, <1>3, <1>4, <1>5 DEF ExportInv

(* An export that goes on to its next step and prepares nothing. *)
LEMMA QuietMove ==
  ASSUME ExportInv, NEW p \in Procs, pc[p] # "done",
         NEW step \in {"load", "open", "write", "killed"},
         pc' = [pc EXCEPT ![p] = step],
         step \in {"open", "write"} => made[p] # NoEntries,
         step = "load" => made[p] = NoEntries,
         UNCHANGED <<store, args, exit, made, written>>,
         mixed' \subseteq Procs,
         FileInv'
  PROVE  ExportInv'
<1>1. Shape' /\ \A q \in Procs : Phase(q)'
  BY MovePhases DEF ExportInv, Shape
<1>2. \A q \in Procs : Written(q)'
  BY DEF ExportInv, Written
<1>3. \A q \in Procs : Prepared(q)'
  BY KeepPrepared
<1>4. StoredSound'
  BY DEF ExportInv, StoredSound, store
<1>5. \A q \in Procs : Honest(q)'
  BY DEF ExportInv, Honest, Bundled, Fails, store
<1> QED  BY <1>1, <1>2, <1>3, <1>4, <1>5 DEF ExportInv

LEMMA SameFile ==
  ASSUME ExportInv, UNCHANGED <<made, args, file>>
  PROVE  FileInv'
<1>1. \A e, p : Part(e, p) => Part(e, p)'
  BY KeepPrepared
<1>2. FileInv
  BY DEF ExportInv
<1> QED  BY <1>1, <1>2 DEF FileInv

-----------------------------------------------------------------------------
(* One lemma for each action. *)

LEMMA TestPathKeeps ==
  ASSUME ExportInv, NEW p \in Procs, TestPath(p)
  PROVE  ExportInv'
<1>1. FileInv'
  BY SameFile DEF TestPath
<1>2. pc[p] = "test_path" /\ made[p] = NoEntries
  BY DEF TestPath, ExportInv, Phase
<1>3. UNCHANGED <<store, args, made, written, mixed>> /\ mixed' \subseteq Procs
  BY DEF TestPath, ExportInv, Shape
<1>4. CASE ExitWith(p, ErrorCode)
  <2>1. ErrorCode # INTEGRITY_FAILURE_EXIT_CODE
    BY DEF ErrorCode, INTEGRITY_FAILURE_EXIT_CODE
  <2> QED  BY <1>1, <1>2, <1>3, <1>4, <2>1, QuietExit
<1>5. CASE pc' = [pc EXCEPT ![p] = "load"] /\ UNCHANGED exit
  BY <1>1, <1>2, <1>3, <1>5, QuietMove
<1> QED  BY <1>4, <1>5 DEF TestPath

LEMMA GivesUpKeeps ==
  ASSUME ExportInv, NEW p \in Procs, GivesUp(p)
  PROVE  ExportInv'
<1>1. FileInv'
  BY SameFile DEF GivesUp
<1>2. pc[p] # "done" /\ UNCHANGED <<store, args, made, written, mixed>>
  BY DEF GivesUp
<1>3. PICK code \in {ErrorCode, TracebackCode} : ExitWith(p, code)
  BY DEF GivesUp
<1>4. code # INTEGRITY_FAILURE_EXIT_CODE
  BY DEF ErrorCode, TracebackCode, INTEGRITY_FAILURE_EXIT_CODE
<1> QED  BY <1>1, <1>2, <1>3, <1>4, QuietExit

LEMMA NotFoundKeeps ==
  ASSUME ExportInv, NEW p \in Procs, NotFound(p)
  PROVE  ExportInv'
<1>1. FileInv'
  BY SameFile DEF NotFound
<1>2. /\ pc[p] # "done" /\ UNCHANGED <<store, args, made, written, mixed>>
      /\ ExitWith(p, ErrorCode)
  BY DEF NotFound
<1>3. ErrorCode # INTEGRITY_FAILURE_EXIT_CODE
  BY DEF ErrorCode, INTEGRITY_FAILURE_EXIT_CODE
<1> QED  BY <1>1, <1>2, <1>3, QuietExit

LEMMA OpenFailsKeeps ==
  ASSUME ExportInv, NEW p \in Procs, OpenFails(p)
  PROVE  ExportInv'
<1>1. FileInv'
  BY SameFile DEF OpenFails
<1>2. /\ pc[p] # "done" /\ UNCHANGED <<store, args, made, written, mixed>>
      /\ ExitWith(p, TracebackCode)
  BY DEF OpenFails
<1>3. TracebackCode # INTEGRITY_FAILURE_EXIT_CODE
  BY DEF TracebackCode, INTEGRITY_FAILURE_EXIT_CODE
<1> QED  BY <1>1, <1>2, <1>3, QuietExit

LEMMA KillKeeps ==
  ASSUME ExportInv, NEW p \in Procs, Kill(p)
  PROVE  ExportInv'
<1>1. FileInv'
  BY SameFile DEF Kill
<1>2. /\ pc[p] # "done" /\ pc' = [pc EXCEPT ![p] = "killed"]
      /\ UNCHANGED <<store, args, exit, made, written>>
      /\ mixed' \subseteq Procs
  BY DEF Kill, ExportInv, Shape
<1> QED  BY <1>1, <1>2, QuietMove

LEMMA OpenKeeps ==
  ASSUME ExportInv, NEW p \in Procs, Open(p)
  PROVE  ExportInv'
<1>1. FileInv'
  BY DEF Open, FileInv, Zip
<1>2. /\ pc[p] = "open" /\ pc' = [pc EXCEPT ![p] = "write"]
      /\ UNCHANGED <<store, args, exit, made, written>>
      /\ made[p] # NoEntries
  BY DEF Open, ExportInv, Phase
<1>3. mixed' \subseteq Procs
  BY DEF Open, ExportInv, Shape, Writers
<1> QED  BY <1>1, <1>2, <1>3, QuietMove

(* Closing, whole or after a failure, leaves a part of what was prepared.  *)
LEMMA CloseKeeps ==
  ASSUME ExportInv, NEW p \in Procs, Close(p) \/ WriteFails(p)
  PROVE  ExportInv'
<1>1. /\ pc[p] = "write" /\ made[p] # NoEntries
      /\ UNCHANGED <<store, args, made, written, mixed>>
      /\ file' \in Closed(p) \cup {file}
  BY DEF Close, WriteFails, ExportInv, Phase
<1>2. FileInv'
  <2>1. file'.entries = NoEntries \/ \E q \in Procs : Part(file'.entries, q)
    BY <1>1, ClosedIsPart
  <2>2. \A e, q : Part(e, q) => Part(e, q)'
    BY <1>1, KeepPrepared
  <2>3. CASE file'.entries = NoEntries
    BY <2>3 DEF FileInv
  <2>4. CASE \E q \in Procs : Part(file'.entries, q)
    <3>1. PICK q \in Procs : Part(file'.entries, q)
      BY <2>4
    <3>2. \E names \in SUBSET DOMAIN made[q] :
            InOrder(names) /\ file'.entries = Restricted(made[q], names)
      BY <3>1 DEF Part
    <3>3. made'[q] = made[q] /\ made[q] # NoEntries
      BY <1>1, <3>1 DEF Part
    <3>4. \E names \in SUBSET DOMAIN made'[q] :
            InOrder(names) /\ file'.entries = Restricted(made'[q], names)
      BY <3>2, <3>3
    <3> QED  BY <3>3, <3>4 DEF FileInv, Part
  <2> QED  BY <2>1, <2>3, <2>4
<1>3. PICK code \in {0, TracebackCode} : ExitWith(p, code)
  BY DEF Close, WriteFails
<1>4. code # INTEGRITY_FAILURE_EXIT_CODE
  BY DEF TracebackCode, INTEGRITY_FAILURE_EXIT_CODE
<1> QED  BY <1>1, <1>2, <1>3, <1>4, QuietExit

(* Entries are written in their order, so the manifest after the evidence. *)
LEMMA WriteEntryKeeps ==
  ASSUME ExportInv, NEW p \in Procs, WriteEntry(p)
  PROVE  ExportInv'
<1>1. /\ pc[p] = "write" /\ made[p] # NoEntries
      /\ UNCHANGED <<store, pc, args, exit, made, file, mixed>>
  BY DEF WriteEntry, ExportInv, Phase
<1>2. PICK i \in Missing(p) :
        /\ \A j \in Missing(p) : i <= j
        /\ written' = [written EXCEPT ![p] = @ \cup {SortedNames[i]}]
  BY DEF WriteEntry
<1>3. Shape /\ Shape'
  BY <1>1, <1>2 DEF ExportInv, Shape
<1>4. \A q \in Procs : Written(q)'
  <2>1. \A q \in Procs : Written(q)
    BY DEF ExportInv
  <2>2. SUFFICES Written(p)'
    BY <1>1, <1>2, <1>3, <2>1 DEF Written, Shape
  <2>3. written'[p] = written[p] \cup {SortedNames[i]}
    BY <1>2, <1>3 DEF Shape
  <2>4. {"README.md", "artifact.json"} \subseteq DOMAIN made[p]
    <3>1. made[p] = all_entries(Bundled(p), args[p])
      BY <1>1 DEF ExportInv, Prepared
    <3>2. DOMAIN all_entries(Bundled(p), args[p])
            = {"manifest.json", "artifact.json", "README.md"}
                \cup (IF args[p].spec = NoSpec THEN {} ELSE {"spec.yaml"})
      BY EntriesOfBundle
    <3> QED  BY <3>1, <3>2
  <2>5. i \in 1..4 /\ SortedNames[i] \in DOMAIN made[p]
    BY DEF Missing, SortedNames
  <2>6. ASSUME SortedNames[i] = "manifest.json"
        PROVE  {"README.md", "artifact.json"} \subseteq written[p]
    <3>1. i = 3
      BY <2>5, <2>6 DEF SortedNames
    <3>2. 1 \notin Missing(p) /\ 2 \notin Missing(p)
      BY <1>2, <3>1
    <3> QED  BY <2>4, <3>2 DEF Missing, SortedNames
  <2> QED  BY <1>1, <2>1, <2>3, <2>5, <2>6 DEF Written, InOrder
<1>5. \A q \in Procs : Prepared(q)'
  BY <1>1, KeepPrepared
<1>6. FileInv'
  BY <1>1, SameFile
<1>7. StoredSound' /\ \A q \in Procs : Phase(q)' /\ Honest(q)'
  BY <1>1 DEF ExportInv, StoredSound, Phase, Honest, Bundled, Fails, store
<1> QED  BY <1>3, <1>4, <1>5, <1>6, <1>7 DEF ExportInv

LEMMA LoadFailsKeeps ==
  ASSUME ExportInv, NEW p \in Procs, LoadFails(p)
  PROVE  ExportInv'
<1>1. FileInv'
  BY SameFile DEF LoadFails
<1>2. /\ pc[p] # "done" /\ UNCHANGED <<store, args, made, written, mixed>>
      /\ ExitWith(p, TracebackCode)
  BY DEF LoadFails
<1>3. TracebackCode # INTEGRITY_FAILURE_EXIT_CODE
  BY DEF TracebackCode, INTEGRITY_FAILURE_EXIT_CODE
<1> QED  BY <1>1, <1>2, <1>3, QuietExit

(* Loading refuses what fails the checks, raises, or prepares its bundle.  *)
LEMMA LoadKeeps ==
  ASSUME ExportInv, NEW p \in Procs, Load(p)
  PROVE  ExportInv'
<1> DEFINE d == stored[args[p].session]
           a == artifact_from_json(d)
<1>1. /\ pc[p] = "load" /\ made[p] = NoEntries
      /\ args[p].session \in DOMAIN stored /\ Decodable(d)
      /\ UNCHANGED <<store, args, written, file, mixed>>
  BY DEF Load, Loads, ExportInv, Phase
<1>2. IsPayload(d)
  BY <1>1 DEF ExportInv, StoredSound
<1>3. all_passed(a) \/ Fails(args[p].session)
  BY <1>1, VerifyOne DEF Fails
<1>4. Refuse(p, a) \/ BundleRaises(p, a) \/ Bundle(p, a)
  BY DEF Load
<1> HIDE DEF a
<1>5. CASE Refuse(p, a)
  <2>1. ExitWith(p, INTEGRITY_FAILURE_EXIT_CODE) /\ UNCHANGED made
    BY <1>5 DEF Refuse
  <2>2. Fails(args[p].session)
    BY <1>3, <1>5 DEF Refuse, refused
  <2>3. FileInv'
    BY <1>1, <2>1, SameFile
  <2> QED  BY <1>1, <2>1, <2>2, <2>3, QuietExit
<1>6. CASE BundleRaises(p, a)
  <2>1. ExitWith(p, TracebackCode) /\ UNCHANGED made
    BY <1>6 DEF BundleRaises
  <2>2. TracebackCode # INTEGRITY_FAILURE_EXIT_CODE
    BY DEF TracebackCode, INTEGRITY_FAILURE_EXIT_CODE
  <2>3. FileInv'
    BY <1>1, <2>1, SameFile
  <2> QED  BY <1>1, <2>1, <2>2, <2>3, QuietExit
<1>7. CASE Bundle(p, a)
  <2>1. /\ made' = [made EXCEPT ![p] = all_entries(a, args[p])]
        /\ pc' = [pc EXCEPT ![p] = "open"]
        /\ UNCHANGED exit
        /\ ~ refused(a, args[p])
    BY <1>7 DEF Bundle
  <2>2. Shape /\ Shape'
    BY <1>1, <2>1 DEF ExportInv, Shape
  <2>3. /\ made'[p] = all_entries(a, args[p])
        /\ \A q \in Procs \ {p} : made'[q] = made[q]
    BY <2>1, <2>2 DEF Shape
  <2>4. /\ pc'[p] = "open"
        /\ \A q \in Procs \ {p} : pc'[q] = pc[q]
    BY <2>1, <2>2 DEF Shape
  <2>5. made'[p] # NoEntries /\ Bundled(p)' = a
    <3>1. /\ all_entries(a, args[p]) # NoEntries
          /\ all_entries(a, args[p])["artifact.json"] = artifact_to_json(a)
      BY EntriesOfBundle
    <3>2. artifact_from_json(artifact_to_json(a)) = a
      BY <1>2, RoundTrip DEF a, IsPayload
    <3> QED  BY <2>3, <3>1, <3>2 DEF Bundled
  <2>6. \A q \in Procs : Phase(q)'
    BY <1>1, <2>1, <2>3, <2>4, <2>5 DEF ExportInv, Phase
  <2>7. \A q \in Procs : Written(q)'
    <3>1. written[p] = {}
      <4>1. DOMAIN NoEntries = {}
        BY DEF NoEntries
      <4> QED  BY <1>1, <4>1 DEF ExportInv, Written
    <3> QED  BY <1>1, <2>3, <3>1 DEF ExportInv, Written, InOrder
  <2>8. \A q \in Procs : Prepared(q)'
    <3>1. ASSUME NEW q \in Procs \ {p} PROVE Prepared(q)'
      BY <1>1, <2>3 DEF ExportInv, Prepared, Bundled
    <3>2. Prepared(p)'
      BY <1>1, <2>1, <2>3, <2>5 DEF Prepared
    <3> QED  BY <3>1, <3>2
  <2>9. FileInv'
    <3>1. FileInv /\ file' = file
      BY <1>1 DEF ExportInv
    <3>2. CASE file.entries = NoEntries
      BY <3>1, <3>2 DEF FileInv
    <3>3. CASE \E q \in Procs : Part(file.entries, q)
      <4>1. PICK q \in Procs : Part(file.entries, q)
        BY <3>3
      <4>2. made'[q] = made[q]
        BY <1>1, <2>3, <4>1 DEF Part
      <4>3. Part(file.entries, q)'
        BY <3>1, <4>1, <4>2 DEF Part
      <4> QED  BY <4>3 DEF FileInv
    <3> QED  BY <3>1, <3>2, <3>3 DEF FileInv
  <2>10. StoredSound'
    BY <1>1 DEF ExportInv, StoredSound, store
  <2>11. \A q \in Procs : Honest(q)'
    <3>1. ASSUME NEW q \in Procs \ {p} PROVE Honest(q)'
      BY <1>1, <2>1, <2>3 DEF ExportInv, Honest, Bundled, Fails, store
    <3>2. Honest(p)'
      <4>1. exit'[p] # INTEGRITY_FAILURE_EXIT_CODE
        BY <1>1, <2>1 DEF ExportInv, Phase, NoExit, INTEGRITY_FAILURE_EXIT_CODE
      <4>2. Fails(args[p].session)' <=> Fails(args[p].session)
        BY <1>1 DEF Fails, store
      <4>3. all_passed(Bundled(p))' <=> all_passed(a)
        BY <2>5
      <4> QED  BY <1>1, <1>3, <4>1, <4>2, <4>3 DEF Honest, store
    <3> QED  BY <3>1, <3>2
  <2> QED  BY <2>2, <2>6, <2>7, <2>8, <2>9, <2>10, <2>11 DEF ExportInv
<1> QED  BY <1>4, <1>5, <1>6, <1>7

(* Damage keeps the shape of a payload. *)
LEMMA DamagedIsPayload ==
  ASSUME NEW a, IsPayload(a), NEW d \in Damaged(a)
  PROVE  IsPayload(d)
<1> DEFINE rec(i, t, n, h, r, s) ==
      [ session_id |-> i, tz_aware |-> t, inputs |-> n, hash |-> h,
        results |-> r, session |-> s ]
<1>1. \A i, t, n, h, r, s :
        IsPayload(rec(i, t, n, h, r, s))
          <=> /\ n = [text |-> n.text, params |-> n.params]
              /\ n.params = Lost \/ IsJson(n.params)
  BY DEF IsPayload, IsArtifact
<1>2. a = rec(a.session_id, a.tz_aware, a.inputs, a.hash, a.results, a.session)
  BY DEF IsPayload, IsArtifact
<1>3. PICK i, t, n, h, r, s : a = rec(i, t, n, h, r, s)
  BY <1>2
<1>4. /\ n = [text |-> n.text, params |-> n.params]
      /\ n.params = Lost \/ IsJson(n.params)
  BY <1>1, <1>3
<1>5. ASSUME NEW x
      PROVE  /\ IsPayload([a EXCEPT !.session_id = x])
             /\ IsPayload([a EXCEPT !.tz_aware = x])
             /\ IsPayload([a EXCEPT !.hash = x])
             /\ IsPayload([a EXCEPT !.results = x])
             /\ IsPayload([a EXCEPT !.session = x])
  <2>1. /\ [a EXCEPT !.session_id = x] = rec(x, t, n, h, r, s)
        /\ [a EXCEPT !.tz_aware = x] = rec(i, x, n, h, r, s)
        /\ [a EXCEPT !.hash = x] = rec(i, t, n, x, r, s)
        /\ [a EXCEPT !.results = x] = rec(i, t, n, h, x, s)
        /\ [a EXCEPT !.session = x] = rec(i, t, n, h, r, x)
    BY <1>3
  <2> HIDE DEF rec
  <2> QED  BY <1>1, <1>4, <2>1
<1>6. ASSUME NEW y, NEW z, z = Lost \/ IsJson(z)
      PROVE  IsPayload([a EXCEPT !.inputs = [text |-> y, params |-> z]])
  <2> DEFINE x == [text |-> y, params |-> z]
  <2>1. [a EXCEPT !.inputs = x] = rec(i, t, x, h, r, s)
    BY <1>3
  <2> HIDE DEF rec
  <2> QED  BY <1>1, <1>6, <2>1
<1>7. ASSUME NEW j \in Inputs
      PROVE  IsPayload([a EXCEPT !.inputs = [j EXCEPT !.params = through(@)]])
  <2>1. [j EXCEPT !.params = through(@)] = [text |-> j.text, params |-> through(j.params)]
    BY BundleAssumption DEF BundleAssumption
  <2>2. IsJson(through(j.params))
    BY DEF IsJson, through
  <2> QED  BY <1>6, <2>1, <2>2
<1>8. IsPayload([a EXCEPT !.inputs.params = Lost])
  <2>1. [n EXCEPT !.params = Lost] = [text |-> n.text, params |-> Lost]
    BY <1>4
  <2>2. [a EXCEPT !.inputs.params = Lost] = rec(i, t, [n EXCEPT !.params = Lost], h, r, s)
    BY <1>3
  <2>3. [a EXCEPT !.inputs = [text |-> n.text, params |-> Lost]]
          = rec(i, t, [text |-> n.text, params |-> Lost], h, r, s)
    BY <1>3
  <2> HIDE DEF rec
  <2> QED  BY <1>6, <2>1, <2>2, <2>3
<1> QED  BY <1>5, <1>7, <1>8 DEF Damaged

LEMMA DecayKeeps ==
  ASSUME ExportInv, Decay
  PROVE  ExportInv'
<1>1. UNCHANGED <<pc, args, exit, made, written, file, mixed>>
  BY DEF Decay
<1>2. PICK id \in DOMAIN stored \ decayed :
        /\ decayed' = decayed \cup {id}
        /\ \E a \in Damaged(stored[id]) : stored' = [stored EXCEPT ![id] = a]
  BY DEF Decay
<1>3. PICK a \in Damaged(stored[id]) : stored' = [stored EXCEPT ![id] = a]
  BY <1>2
<1>4. StoredSound
  BY DEF ExportInv
<1>5. IsPayload(a)
  BY <1>2, <1>3, <1>4, DamagedIsPayload DEF StoredSound
<1>6. StoredSound'
  <2>1. /\ DOMAIN stored' = DOMAIN stored
        /\ stored'[id] = a
        /\ \A j \in DOMAIN stored \ {id} : stored'[j] = stored[j]
    BY <1>3
  <2> QED  BY <1>2, <1>4, <1>5, <2>1 DEF StoredSound
<1>7. Shape' /\ \A q \in Procs : Phase(q)' /\ Written(q)' /\ Prepared(q)'
  BY <1>1, KeepPrepared DEF ExportInv, Shape, Phase, Written
<1>8. FileInv'
  BY <1>1, SameFile
<1>9. \A q \in Procs : Honest(q)'
  <2>1. \A j : Fails(j) => Fails(j)' \/ j \in decayed'
    BY <1>2, <1>3 DEF Fails
  <2>2. decayed \subseteq decayed'
    BY <1>2
  <2> QED  BY <1>1, <2>1, <2>2 DEF ExportInv, Honest, Bundled
<1> QED  BY <1>6, <1>7, <1>8, <1>9 DEF ExportInv

(* The invariant holds of every execution of the exports.                  *)
THEOREM ExportIsSafe == Spec => []ExportInv
<1>1. Init => ExportInv
  BY InitInv
<1>2. ExportInv /\ [Next]_vars => ExportInv'
  <2> SUFFICES ASSUME ExportInv, [Next]_vars PROVE ExportInv'
    OBVIOUS
  <2>1. CASE Decay
    BY <2>1, DecayKeeps
  <2>2. ASSUME NEW p \in Procs, Export(p) PROVE ExportInv'
    BY <2>2, TestPathKeeps, GivesUpKeeps, NotFoundKeeps, LoadFailsKeeps, LoadKeeps, OpenKeeps,
       OpenFailsKeeps, WriteEntryKeeps, CloseKeeps, KillKeeps DEF Export
  <2>3. CASE UNCHANGED vars
    <3>1. /\ UNCHANGED <<pc, args, exit, made, written, file, mixed, store>>
          /\ UNCHANGED <<stored, decayed>>
      BY <2>3 DEF vars, store
    <3>2. FileInv' /\ \A q \in Procs : Prepared(q)'
      BY <3>1, SameFile, KeepPrepared
    <3> QED  BY <3>1, <3>2 DEF ExportInv, Shape, Phase, Written, StoredSound, Honest,
                               Bundled, Fails
  <2> QED  BY <2>1, <2>2, <2>3 DEF Next
<1> QED  BY <1>1, <1>2, PTL DEF Spec

-----------------------------------------------------------------------------
(* What follows of the file and of the bundles. *)

(* Whatever is readable is of the bundle of one process. *)
LEMMA ReadableIsPrepared ==
  ASSUME ExportInv, NEW name, Readable(name)
  PROVE  \E p \in Procs :
           LET a == Bundled(p)
               e == all_entries(a, args[p])
           IN /\ made[p] = e /\ made[p] # NoEntries /\ ~ refused(a, args[p])
              /\ DOMAIN file.entries \subseteq DOMAIN e
              /\ \A n \in DOMAIN file.entries : file.entries[n] = e[n]
              /\ InOrder(DOMAIN file.entries)
<1>1. file.entries # NoEntries
  BY DEF Readable, NoEntries
<1>2. PICK p \in Procs : Part(file.entries, p)
  BY <1>1 DEF ExportInv, FileInv
<1>3. PICK names \in SUBSET DOMAIN made[p] :
        InOrder(names) /\ file.entries = Restricted(made[p], names)
  BY <1>2 DEF Part
<1>4. /\ DOMAIN file.entries = names
      /\ \A n \in names : file.entries[n] = made[p][n]
  BY <1>3 DEF Restricted
<1>5. made[p] # NoEntries
  BY <1>2 DEF Part
<1>6. /\ made[p] = all_entries(Bundled(p), args[p])
      /\ ~ refused(Bundled(p), args[p])
  BY <1>5 DEF ExportInv, Prepared
<1> QED  BY <1>3, <1>4, <1>5, <1>6

(* Every reachable state of the exports is well typed, whatever the store  *)
(* holds and however it decays.                                            *)
THEOREM ExportTypeCorrect == Spec => []TypeOK
<1>1. ExportInv => TypeOK
  BY DEF ExportInv, Shape, Phase, Written, StoredSound, IsPayload, TypeOK
<1> QED  BY <1>1, ExportIsSafe, PTL

(* A file whose manifest can be read holds what the manifest lists, and    *)
(* the evidence with it, for any number of exports to one path.            *)
THEOREM ManifestsAreTrue == Spec => []ManifestMeansEvidence
<1>1. ExportInv => ManifestMeansEvidence
  <2> SUFFICES ASSUME ExportInv, Readable("manifest.json") PROVE ManifestMeansEvidence
    BY DEF ManifestMeansEvidence
  <2>1. PICK p \in Procs :
          LET a == Bundled(p)
              e == all_entries(a, args[p])
          IN /\ made[p] = e /\ made[p] # NoEntries /\ ~ refused(a, args[p])
             /\ DOMAIN file.entries \subseteq DOMAIN e
             /\ \A n \in DOMAIN file.entries : file.entries[n] = e[n]
             /\ InOrder(DOMAIN file.entries)
    BY ReadableIsPrepared
  <2> DEFINE a == Bundled(p)
             e == all_entries(a, args[p])
             m == BundleManifest(a, args[p]).manifest
  <2>2. DOMAIN m.files = DOMAIN e \ {"manifest.json"}
    BY ManifestOfBundle
  <2>3. \A n \in DOMAIN m.files : m.files[n] = sha256(e[n])
    BY ManifestOfBundle
  <2>4. /\ e["manifest.json"] = BundleManifest(a, args[p])
        /\ DOMAIN e = {"manifest.json", "artifact.json", "README.md"}
             \cup (IF args[p].spec = NoSpec THEN {} ELSE {"spec.yaml"})
    BY EntriesOfBundle
  <2> HIDE DEF a
  <2>5. /\ DOMAIN file.entries \subseteq DOMAIN e
        /\ \A n \in DOMAIN file.entries : file.entries[n] = e[n]
        /\ InOrder(DOMAIN file.entries)
    BY <2>1 DEF a
  <2> HIDE DEF e, m
  <2>6. Manifest = m
    BY <2>4, <2>5 DEF Manifest, Readable, m
  <2>7. "README.md" \in DOMAIN file.entries /\ "artifact.json" \in DOMAIN file.entries
    BY <2>5 DEF Readable, InOrder
  <2>8. \A n \in DOMAIN file.entries \ {"manifest.json"} :
          n \in DOMAIN Manifest.files /\ Manifest.files[n] = sha256(file.entries[n])
    BY <2>2, <2>3, <2>5, <2>6
  <2>9. DOMAIN Manifest.files \ {"spec.yaml"} \subseteq DOMAIN file.entries
    BY <2>2, <2>4, <2>6, <2>7
  <2> QED  BY <2>8, <2>9 DEF ManifestMeansEvidence
<1> QED  BY <1>1, ExportIsSafe, PTL

(* A bundle says of its artifact which checks it fails, in the manifest    *)
(* and in the readme, and says so of no other.                             *)
THEOREM ProtestIsTrue == Spec => []ProtestIsOnRecord
<1>1. ExportInv => ProtestIsOnRecord
  <2> SUFFICES ASSUME ExportInv, Readable("artifact.json") PROVE ProtestIsOnRecord
    BY DEF ProtestIsOnRecord
  <2>1. PICK p \in Procs :
          LET a == Bundled(p)
              e == all_entries(a, args[p])
          IN /\ made[p] = e /\ made[p] # NoEntries /\ ~ refused(a, args[p])
             /\ DOMAIN file.entries \subseteq DOMAIN e
             /\ \A n \in DOMAIN file.entries : file.entries[n] = e[n]
             /\ InOrder(DOMAIN file.entries)
    BY ReadableIsPrepared
  <2> DEFINE a == Bundled(p)
             e == all_entries(a, args[p])
             m == BundleManifest(a, args[p]).manifest
  <2>2. /\ m.failed_checks = failed_checks(a)
        /\ m.artifact_verified = all_passed(a)
        /\ m.exported_under_protest = under_protest(a, args[p])
    BY ManifestOfBundle
  <2>3. /\ e["manifest.json"] = BundleManifest(a, args[p])
        /\ e["artifact.json"] = artifact_to_json(a)
        /\ e["README.md"] = generate_readme(a, args[p])
    BY EntriesOfBundle
  <2> HIDE DEF a
  <2>4. /\ \A n \in DOMAIN file.entries : file.entries[n] = e[n]
        /\ ~ refused(a, args[p])
    BY <2>1 DEF a
  <2>5. generate_readme(a, args[p]).exported_under_protest = under_protest(a, args[p])
    BY DEF generate_readme
  <2> HIDE DEF e, m
  <2>6. under_protest(a, args[p]) = (failed_checks(a) # {})
    BY <2>4 DEF under_protest, refused, all_passed
  <2>7. all_passed(a) = (failed_checks(a) = {})
    BY DEF all_passed
  <2>8. artifact_from_json(file.entries["artifact.json"]) = a
    BY <2>1 DEF Readable, Bundled, a
  <2>9. Readable("manifest.json") => Manifest = m
    BY <2>3, <2>4 DEF Manifest, Readable, m
  <2>10. Readable("README.md") =>
           file.entries["README.md"].exported_under_protest = (failed_checks(a) # {})
    BY <2>3, <2>4, <2>5, <2>6 DEF Readable
  <2> QED  BY <2>2, <2>6, <2>7, <2>8, <2>9, <2>10 DEF ProtestIsOnRecord
<1> QED  BY <1>1, ExportIsSafe, PTL

(* What fails the checks reaches the file by consent only.                 *)
THEOREM ConsentIsNeeded == Spec => []CorruptionNeedsConsent
<1>1. ExportInv => CorruptionNeedsConsent
  <2> SUFFICES ASSUME ExportInv, Readable("artifact.json"),
                      ~ all_passed(artifact_from_json(file.entries["artifact.json"]))
               PROVE  \E p \in Procs :
                        /\ args[p].allow_corrupted
                        /\ made[p] # NoEntries
                        /\ made[p]["artifact.json"] = file.entries["artifact.json"]
    BY DEF CorruptionNeedsConsent
  <2>1. PICK p \in Procs :
          LET a == Bundled(p)
              e == all_entries(a, args[p])
          IN /\ made[p] = e /\ made[p] # NoEntries /\ ~ refused(a, args[p])
             /\ DOMAIN file.entries \subseteq DOMAIN e
             /\ \A n \in DOMAIN file.entries : file.entries[n] = e[n]
             /\ InOrder(DOMAIN file.entries)
    BY ReadableIsPrepared
  <2>2. made[p]["artifact.json"] = file.entries["artifact.json"]
    BY <2>1 DEF Readable
  <2>3. args[p].allow_corrupted
    BY <2>1, <2>2 DEF refused, Bundled
  <2> QED  BY <2>1, <2>2, <2>3
<1> QED  BY <1>1, ExportIsSafe, PTL

(* A session that run stored and nothing damaged verifies, and is neither  *)
(* refused nor exported under protest, unless JSON did not give back its   *)
(* params.                                                                 *)
THEOREM HonestyIsEnough == Spec => []HonestNeedsNoProtest
<1>1. ExportInv => HonestNeedsNoProtest
  <2> SUFFICES ASSUME ExportInv PROVE HonestNeedsNoProtest
    OBVIOUS
  <2>1. \A id \in DOMAIN stored \ decayed : IsHonest(stored[id])
    BY DEF ExportInv, StoredSound
  <2>2. ASSUME NEW p \in Procs,
               \/ exit[p] = INTEGRITY_FAILURE_EXIT_CODE
               \/ /\ made[p] # NoEntries
                  /\ made[p]["manifest.json"].manifest.exported_under_protest
        PROVE  args[p].session \in decayed \/ Fails(args[p].session)
    <3>1. Honest(p) /\ Prepared(p)
      BY DEF ExportInv
    <3>2. CASE exit[p] = INTEGRITY_FAILURE_EXIT_CODE
      BY <3>1, <3>2 DEF Honest
    <3>3. CASE /\ made[p] # NoEntries
               /\ made[p]["manifest.json"].manifest.exported_under_protest
      <4> DEFINE a == Bundled(p)
      <4>1. made[p] = all_entries(a, args[p])
        BY <3>1, <3>3 DEF Prepared
      <4>2. all_entries(a, args[p])["manifest.json"] = BundleManifest(a, args[p])
        <5>1. \A u, v : all_entries(u, v)["manifest.json"] = BundleManifest(u, v)
          BY DEF all_entries
        <5> QED  BY <5>1
      <4>3. BundleManifest(a, args[p]).manifest.exported_under_protest
              = under_protest(a, args[p])
        BY ManifestOfBundle
      <4> HIDE DEF a
      <4>4. ~ all_passed(a)
        <5>1. under_protest(a, args[p])
          BY <3>3, <4>1, <4>2, <4>3
        <5> QED  BY <5>1 DEF under_protest
      <4> QED  BY <3>1, <3>3, <4>4 DEF Honest, a
    <3> QED  BY <2>2, <3>2, <3>3
  <2> QED  BY <2>1, <2>2 DEF HonestNeedsNoProtest, IsHonest, Fails
<1> QED  BY <1>1, ExportIsSafe, PTL

(* Bundles with one id have the same bytes. *)
THEOREM IdsAreContents == Spec => []SameIdSameBundle
<1>1. ExportInv => SameIdSameBundle
  <2> SUFFICES ASSUME ExportInv, NEW p \in Procs, NEW q \in Procs,
                      made[p] # NoEntries, made[q] # NoEntries,
                      made[p]["manifest.json"].bundle_id
                        = made[q]["manifest.json"].bundle_id
               PROVE  made[p] = made[q]
    BY DEF SameIdSameBundle
  <2> DEFINE a == Bundled(p)
             b == Bundled(q)
             x == args[p]
             y == args[q]
             e == all_entries(a, x)
             f == all_entries(b, y)
             m == BundleManifest(a, x)
             k == BundleManifest(b, y)
  <2>1. made[p] = e /\ made[q] = f
    BY DEF ExportInv, Prepared
  <2>2. e["manifest.json"] = m /\ f["manifest.json"] = k
    <3>1. \A u, v : all_entries(u, v)["manifest.json"] = BundleManifest(u, v)
      BY DEF all_entries
    <3> QED  BY <3>1
  <2>3. /\ DOMAIN m.manifest.files = DOMAIN e \ {"manifest.json"}
        /\ \A n \in DOMAIN m.manifest.files : m.manifest.files[n] = sha256(e[n])
    BY ManifestOfBundle
  <2>4. /\ DOMAIN k.manifest.files = DOMAIN f \ {"manifest.json"}
        /\ \A n \in DOMAIN k.manifest.files : k.manifest.files[n] = sha256(f[n])
    BY ManifestOfBundle
  <2>5. "manifest.json" \in DOMAIN e /\ "manifest.json" \in DOMAIN f
    <3>1. DOMAIN e = {"manifest.json", "artifact.json", "README.md"}
                       \cup (IF x.spec = NoSpec THEN {} ELSE {"spec.yaml"})
      BY EntriesOfBundle
    <3>2. DOMAIN f = {"manifest.json", "artifact.json", "README.md"}
                       \cup (IF y.spec = NoSpec THEN {} ELSE {"spec.yaml"})
      BY EntriesOfBundle
    <3> QED  BY <3>1, <3>2
  <2>6. m = k
    <3>1. /\ m = [ bundle_id |-> sha256(manifest_without_id(a, x)),
                   manifest |-> manifest_without_id(a, x) ]
          /\ k = [ bundle_id |-> sha256(manifest_without_id(b, y)),
                   manifest |-> manifest_without_id(b, y) ]
      BY DEF BundleManifest
    <3>2. m.bundle_id = k.bundle_id
      BY <2>1, <2>2
    <3>3. manifest_without_id(a, x) = manifest_without_id(b, y)
      BY <3>1, <3>2, DigestsDetermine
    <3> QED  BY <3>1, <3>3
  <2>7. /\ e = [n \in DOMAIN e |-> e[n]]
        /\ f = [n \in DOMAIN f |-> f[n]]
    BY DEF all_entries
  <2> HIDE DEF a, b, x, y, e, f, m, k
  <2>8. DOMAIN e = DOMAIN f
    BY <2>3, <2>4, <2>5, <2>6
  <2>9. ASSUME NEW n \in DOMAIN e PROVE e[n] = f[n]
    <3>1. CASE n = "manifest.json"
      BY <2>2, <2>6, <3>1
    <3>2. CASE n # "manifest.json"
      <4>1. sha256(e[n]) = sha256(f[n])
        BY <2>3, <2>4, <2>6, <2>8, <3>2
      <4> QED  BY <4>1, DigestsDetermine
    <3> QED  BY <3>1, <3>2
  <2> QED  BY <2>1, <2>7, <2>8, <2>9
<1> QED  BY <1>1, ExportIsSafe, PTL
-----------------------------------------------------------------------------
(* Success leaves the bundle. *)

(* What one, or each, of the exports so far left, while no other opened    *)
(* the file; and an export that wrote by itself is not counted as mixed.   *)
Delivered ==
  /\ SuccessLeavesTheBundle
  /\ \A p \in Procs : (\A q \in Procs \ {p} : Unopened(q)) => p \notin mixed

(* A step that leaves the file, and opens or ends no export that did.      *)
Aside(p) ==
  /\ UNCHANGED <<file, mixed>>
  /\ Unopened(p) /\ exit[p] = NoExit /\ exit'[p] # 0
  /\ \A q \in Procs \ {p} : /\ pc'[q] = pc[q] /\ exit'[q] = exit[q]
                            /\ made'[q] = made[q]

(* Who opened the file stays one who did. *)
LEMMA OpenedStays ==
  ASSUME ExportInv, NEW p \in Procs, Export(p), NEW q \in Procs, Unopened(q)'
  PROVE  Unopened(q)
<1>1. Shape /\ Phase(p)
  BY DEF ExportInv
<1>2. CASE q # p
  <2>1. pc'[q] = pc[q] /\ exit'[q] = exit[q]
    BY <1>1, <1>2 DEF Shape, Export, TestPath, GivesUp, NotFound, LoadFails, Load, Refuse,
       BundleRaises, Bundle, Open, OpenFails, WriteEntry, Close, WriteFails, Kill, ExitWith
  <2> QED  BY <2>1 DEF Unopened
<1>3. CASE q = p /\ pc[p] = "write"
  <2>1. \/ pc'[p] = "done" /\ exit'[p] \in {0, TracebackCode}
        \/ pc'[p] \in {"write", "killed"} /\ exit'[p] = exit[p]
    BY <1>1, <1>3 DEF Shape, Export, TestPath, GivesUp, NotFound, LoadFails, Load, Loads,
       Open, OpenFails, WriteEntry, Close, WriteFails, Kill, ExitWith
  <2>2. exit[p] = NoExit
    BY <1>1, <1>3 DEF Phase
  <2> QED  BY <1>3, <2>1, <2>2 DEF Unopened, NoExit, TracebackCode, ErrorCode,
                                    INTEGRITY_FAILURE_EXIT_CODE
<1>4. CASE q = p /\ pc[p] # "write"
  BY <1>4 DEF Export, TestPath, GivesUp, NotFound, LoadFails, Load, Loads, Open, OpenFails,
     WriteEntry, Close, WriteFails, Kill, Unopened
<1> QED  BY <1>2, <1>3, <1>4

(* Until it opens the file an export stands aside.                         *)
LEMMA StandsAside ==
  ASSUME ExportInv, NEW p \in Procs,
         \/ TestPath(p) \/ GivesUp(p) \/ NotFound(p) \/ LoadFails(p) \/ Load(p)
         \/ OpenFails(p)
  PROVE  Aside(p)
<1>1. Shape /\ Phase(p)
  BY DEF ExportInv
<1>2. /\ pc[p] \in {"test_path", "load", "open"} /\ UNCHANGED <<file, mixed>>
      /\ \/ UNCHANGED exit
         \/ \E code \in {ErrorCode, TracebackCode, INTEGRITY_FAILURE_EXIT_CODE} :
              exit' = [exit EXCEPT ![p] = code]
      /\ \E step \in {"load", "open", "done"} : pc' = [pc EXCEPT ![p] = step]
  BY DEF TestPath, GivesUp, NotFound, LoadFails, Load, Loads, Refuse, BundleRaises, Bundle,
     OpenFails, ExitWith
<1>3. \/ UNCHANGED made
      \/ \E e : made' = [made EXCEPT ![p] = e]
  BY DEF TestPath, GivesUp, NotFound, LoadFails, Load, Loads, Refuse, BundleRaises, Bundle,
     OpenFails
<1>4. exit[p] = NoExit
  BY <1>1, <1>2 DEF Phase
<1> QED
  BY <1>1, <1>2, <1>3, <1>4 DEF Shape, Aside, Unopened, NoExit, ErrorCode, TracebackCode,
     INTEGRITY_FAILURE_EXIT_CODE

LEMMA AsideDelivers ==
  ASSUME ExportInv, Delivered, NEW p \in Procs, Export(p), Aside(p)
  PROVE  Delivered'
<1>1. \A q \in Procs : Unopened(q)' => Unopened(q)
  BY OpenedStays
<1>2. \A q \in Procs : exit'[q] = 0 => q # p /\ exit[q] = 0 /\ made'[q] = made[q]
  BY DEF Aside
<1>3. \A q \in Procs \ {p} : exit'[q] = exit[q] /\ made'[q] = made[q]
  BY DEF Aside
<1>4. file' = file /\ mixed' = mixed /\ Unopened(p) /\ exit[p] # 0
  BY DEF Aside, NoExit
<1>5. ASSUME NEW q \in Procs, \A r \in Procs \ {q} : Unopened(r)'
      PROVE  q \notin mixed' /\ (exit'[q] = 0 => file'.entries = made'[q])
  BY <1>1, <1>2, <1>4, <1>5 DEF Delivered, SuccessLeavesTheBundle
<1>6. ASSUME { q \in Procs : exit'[q] = 0 } # {}, mixed' = {},
             \A q \in Procs \ { r \in Procs : exit'[r] = 0 } : Unopened(q)'
      PROVE  \E q \in { r \in Procs : exit'[r] = 0 } : file'.entries = made'[q]
  <2>1. { q \in Procs : exit'[q] = 0 } = { q \in Procs : exit[q] = 0 }
    BY <1>2, <1>3, <1>4
  <2>2. \A q \in { r \in Procs : exit[r] = 0 } : made'[q] = made[q]
    BY <1>3, <1>4
  <2> QED  BY <1>1, <1>4, <1>6, <2>1, <2>2 DEF Delivered, SuccessLeavesTheBundle
<1> QED  BY <1>5, <1>6 DEF Delivered, SuccessLeavesTheBundle

(* A whole bundle has an entry for every name it was prepared with.        *)
LEMMA ClosesWhole ==
  ASSUME ExportInv, NEW p \in Procs, Close(p), p \notin mixed
  PROVE  file'.entries = made[p]
<1>1. made[p] = all_entries(Bundled(p), args[p]) /\ Written(p)
  BY DEF ExportInv, Phase, Prepared, Close
<1>2. /\ made[p] = [n \in DOMAIN made[p] |-> made[p][n]]
      /\ DOMAIN made[p] \subseteq { SortedNames[i] : i \in DOMAIN SortedNames }
  <2>1. DOMAIN made[p] \subseteq {"manifest.json", "artifact.json", "README.md", "spec.yaml"}
    <3>1. DOMAIN all_entries(Bundled(p), args[p])
            = {"manifest.json", "artifact.json", "README.md"}
                \cup (IF args[p].spec = NoSpec THEN {} ELSE {"spec.yaml"})
      BY EntriesOfBundle
    <3> QED  BY <1>1, <3>1
  <2>2. \A x, y : all_entries(x, y) = [n \in DOMAIN all_entries(x, y) |-> all_entries(x, y)[n]]
    BY DEF all_entries
  <2>3. /\ DOMAIN SortedNames = 1..4
        /\ SortedNames[1] = "README.md" /\ SortedNames[2] = "artifact.json"
        /\ SortedNames[3] = "manifest.json" /\ SortedNames[4] = "spec.yaml"
    BY DEF SortedNames
  <2> QED  BY <1>1, <2>1, <2>2, <2>3
<1>3. written[p] = DOMAIN made[p]
  BY <1>1, <1>2 DEF Close, Missing, Written
<1>4. file' = Zip(Restricted(made[p], written[p]))
  BY DEF Close, Closed
<1> QED  BY <1>2, <1>3, <1>4 DEF Zip, Restricted

(* A step of an export that has the file, or opens it.                     *)
LEMMA WritingDelivers ==
  ASSUME ExportInv, Delivered, NEW p \in Procs,
         Open(p) \/ WriteEntry(p) \/ Close(p) \/ WriteFails(p) \/ Kill(p)
  PROVE  Delivered'
<1>1. Shape /\ Phase(p)
  BY DEF ExportInv
<1>2. Export(p)
  BY DEF Export
<1>3. \A q \in Procs : Unopened(q)' => Unopened(q)
  BY <1>2, OpenedStays
<1>4. /\ UNCHANGED made
      /\ \A q \in Procs \ {p} : exit'[q] = exit[q] /\ pc'[q] = pc[q]
  BY <1>1 DEF Shape, Open, WriteEntry, Close, WriteFails, Kill, ExitWith
<1>5. ~ Unopened(p)' /\ (exit'[p] = 0 => Close(p))
  <2>1. \/ pc'[p] \in {"write", "killed"} /\ exit'[p] = exit[p]
        \/ pc'[p] = "done" /\ exit'[p] = 0 /\ Close(p)
        \/ pc'[p] = "done" /\ exit'[p] = TracebackCode
    BY <1>1 DEF Shape, Open, WriteEntry, Close, WriteFails, Kill, ExitWith
  <2>2. exit[p] = NoExit
    BY <1>1 DEF Phase, Open, WriteEntry, Close, WriteFails, Kill
  <2> QED  BY <2>1, <2>2 DEF Unopened, NoExit, TracebackCode, ErrorCode,
                              INTEGRITY_FAILURE_EXIT_CODE
<1>6. ASSUME \A r \in Procs \ {p} : Unopened(r)
      PROVE  mixed' = mixed
  <2>1. \A q \in Procs \ {p} : pc[q] # "write"
    <3>1. \A q \in Procs : Phase(q)
      BY DEF ExportInv
    <3> QED  BY <1>6, <3>1 DEF Unopened, Phase, NoExit, ErrorCode, INTEGRITY_FAILURE_EXIT_CODE
  <2>2. CASE Open(p)
    <3>1. Writers = {}
      BY <2>1, <2>2 DEF Writers, Open
    <3> QED  BY <2>2, <3>1 DEF Open
  <2> QED  BY <2>2 DEF WriteEntry, Close, WriteFails, Kill
<1>7. ASSUME NEW q \in Procs, \A r \in Procs \ {q} : Unopened(r)'
      PROVE  q \notin mixed' /\ (exit'[q] = 0 => file'.entries = made'[q])
  <2>1. q = p /\ \A r \in Procs \ {p} : Unopened(r)
    BY <1>3, <1>5, <1>7
  <2>2. p \notin mixed /\ mixed' = mixed
    BY <1>6, <2>1 DEF Delivered
  <2> QED  BY <1>4, <1>5, <2>1, <2>2, ClosesWhole
<1>8. ASSUME { q \in Procs : exit'[q] = 0 } # {}, mixed' = {},
             \A q \in Procs \ { r \in Procs : exit'[r] = 0 } : Unopened(q)'
      PROVE  \E q \in { r \in Procs : exit'[r] = 0 } : file'.entries = made'[q]
  <2>1. exit'[p] = 0 /\ Close(p)
    BY <1>5, <1>8
  <2>2. mixed = {}
    BY <1>8, <2>1 DEF Close
  <2> QED  BY <1>4, <2>1, <2>2, ClosesWhole
<1> QED  BY <1>7, <1>8 DEF Delivered, SuccessLeavesTheBundle

(* write_bundle: an export that ends with 0, alone or after others that    *)
(* did, leaves the whole bundle, for any number of exports to one path.    *)
THEOREM SuccessIsWhole == Spec => []SuccessLeavesTheBundle
<1>1. Init => Delivered
  BY DEF Init, Delivered, SuccessLeavesTheBundle, NoExit
<1>2. ExportInv /\ Delivered /\ [Next]_vars => Delivered'
  <2> SUFFICES ASSUME ExportInv, Delivered, [Next]_vars PROVE Delivered'
    OBVIOUS
  <2>1. CASE Decay \/ UNCHANGED vars
    BY <2>1 DEF Decay, vars, Delivered, SuccessLeavesTheBundle, Unopened
  <2>2. ASSUME NEW p \in Procs, Export(p) PROVE Delivered'
    BY <2>2, StandsAside, AsideDelivers, WritingDelivers DEF Export
  <2> QED  BY <2>1, <2>2 DEF Next
<1>3. Delivered => SuccessLeavesTheBundle
  BY DEF Delivered
<1> QED  BY <1>1, <1>2, <1>3, ExportIsSafe, PTL DEF Spec
=============================================================================
