---------------------------- MODULE BundleExport -----------------------------
(***************************************************************************)
(* falsifyai export: processes that load a session, check it and write it  *)
(* as a zip to one path.  The zip is written in place, entry by entry, and *)
(* can be read once its directory is written, at the close.                *)
(*                                                                         *)
(* Processes that write the file at the same time, each at its own offset, *)
(* overwrite each other's entries.  Which entries of such a file are still *)
(* intact, the zip's checksums tell; the properties of mixed files relate  *)
(* two entries and so hold of whichever those are.                         *)
(*                                                                         *)
(* A payload of the store may be damaged in place at any time, which is    *)
(* what the checks are for: some damage leaves a payload that cannot be    *)
(* decoded, and some is made good by the decoder's defaults.               *)
(***************************************************************************)
EXTENDS Integrity

CONSTANTS
  Procs,
  NotAUuid,   \* what is left of a damaged session id
  Results,    \* the case results a run may have: sequences
  SpecTexts,  \* the contents of spec files
  NoSpec,     \* no --spec-path was given
  Times,      \* what --exported-at, or the clock, may say
  Scores      \* falsifiability scores

VARIABLES
  stored,   \* the payload of each session id of the store
  decayed,  \* the sessions whose payload was damaged
  pc, args, exit,
  made,     \* the entries a process has prepared: a function of their names
  written,  \* the names of those it has written
  file,     \* what is at the output path: the entries its directory lists
  mixed     \* the processes that wrote the file while another one did

store == <<stored, decayed>>
vars == <<stored, decayed, pc, args, exit, made, written, file, mixed>>

BundleAssumption ==
  /\ NotAUuid \notin Sessions
  /\ Lost \notin Sessions \cup {NotAUuid} \cup BOOLEAN \cup Int \cup Verdict
  /\ \A i \in Inputs :
       /\ i = [text |-> i.text, params |-> i.params]
       /\ i.text # Lost /\ through(i.params) # Lost
       /\ compute_materialized_hash(i) # Lost
  /\ NoSpec \notin SpecTexts
  /\ \A r \in Results :
       /\ r # <<>>
       /\ r \in Seq([verdict : Verdict, lo : 0..One, mid : 0..One, hi : 0..One])
       /\ \A i \in DOMAIN r : ci_bounds(r[i])
  /\ Scores \subseteq 0..One
ASSUME BundleAssumption

Args == [ session : Sessions, spec : SpecTexts \cup {NoSpec}, at : Times,
          allow_corrupted : BOOLEAN, overwrite : BOOLEAN ]
NoExit == -1

-----------------------------------------------------------------------------
(* write_bundle: the contents *)

(* Mutant of under_protest: the flag alone decides.                        *)
under_protest_Flag(a, arg) == arg.allow_corrupted

under_protest(a, arg) == ~ all_passed(a) /\ arg.allow_corrupted

generate_readme(a, arg) ==
  [ exported_at |-> arg.at, session_id |-> a.session_id, hash |-> a.hash,
    passed |-> all_passed(a), exported_under_protest |-> under_protest(a, arg),
    spec_attached |-> arg.spec # NoSpec ]

(* Mutant of files_payload: the spec is attached, and not listed.          *)
files_payload_WithoutSpec(arg) == {"artifact.json", "README.md"}

files_payload(arg) ==
  {"artifact.json", "README.md"}
    \cup (IF arg.spec = NoSpec THEN {} ELSE {"spec.yaml"})

Payload(a, arg, name) ==
  CASE name = "artifact.json" -> artifact_to_json(a)
    [] name = "README.md" -> generate_readme(a, arg)
    [] name = "spec.yaml" -> arg.spec

manifest_without_id(a, arg) ==
  [ session_id |-> a.session_id, exported_at |-> arg.at,
    exported_under_protest |-> under_protest(a, arg),
    failed_checks |-> failed_checks(a), artifact_verified |-> all_passed(a),
    files |-> [ n \in files_payload(arg) |-> sha256(Payload(a, arg, n)) ] ]

BundleManifest(a, arg) ==
  [ bundle_id |-> sha256(manifest_without_id(a, arg)),
    manifest |-> manifest_without_id(a, arg) ]

all_entries(a, arg) ==
  LET names == {"manifest.json", "artifact.json", "README.md"}
                 \cup (IF arg.spec = NoSpec THEN {} ELSE {"spec.yaml"})
  IN [ n \in names |-> IF n = "manifest.json" THEN BundleManifest(a, arg)
                       ELSE Payload(a, arg, n) ]

-----------------------------------------------------------------------------
(* write_bundle: the zip *)

(* Mutant of SortedNames: the entries are written as they were collected.  *)
SortedNames_AsCollected ==
  <<"manifest.json", "artifact.json", "README.md", "spec.yaml">>

SortedNames == <<"README.md", "artifact.json", "manifest.json", "spec.yaml">>

Restricted(entries, names) == [ n \in names |-> entries[n] ]
NoEntries == [ n \in {} |-> NoSpec ]

Absent == [exists |-> FALSE, entries |-> NoEntries]
Zip(entries) == [exists |-> TRUE, entries |-> entries]

Writers == { p \in Procs : pc[p] = "write" }

(* The file after p has closed it, with the directory of what it wrote, or *)
(* with the one of another that wrote further at the same time.            *)
Closed(p) ==
  {Zip(Restricted(made[p], written[p]))} \cup (IF p \in mixed THEN {file} ELSE {})

-----------------------------------------------------------------------------
(* What save_session wrote; an artifact that has no JSON form is not saved. *)
Preserved(id) ==
  { artifact_to_json(a) :
      a \in { x \in { ReplayArtifact(id, i, r, s) :
                        i \in Inputs, r \in Results, s \in Scores } : Encodable(x) } }

Init ==
  /\ \E saved \in SUBSET Sessions :
       stored \in { f \in [saved -> UNION { Preserved(id) : id \in saved }] :
                      \A id \in saved : f[id] \in Preserved(id) }
  /\ decayed = {}
  /\ pc = [p \in Procs |-> "test_path"]
  /\ args \in [Procs -> Args]
  /\ exit = [p \in Procs |-> NoExit]
  /\ made = [p \in Procs |-> NoEntries]
  /\ written = [p \in Procs |-> {}]
  /\ file = Absent
  /\ mixed = {}

ExitWith(p, code) ==
  /\ pc' = [pc EXCEPT ![p] = "done"]
  /\ exit' = [exit EXCEPT ![p] = code]

(* The output path exists and --overwrite was not given; or it is free.    *)
TestPath(p) ==
  /\ pc[p] = "test_path"
  /\ IF file.exists /\ ~ args[p].overwrite
     THEN ExitWith(p, ErrorCode)
     ELSE pc' = [pc EXCEPT ![p] = "load"] /\ UNCHANGED exit
  /\ UNCHANGED <<store, args, made, written, file, mixed>>

(* No such directory, no such spec file, a time stamp that is not one; or  *)
(* a spec file or a store that cannot be read, which nobody catches.       *)
GivesUp(p) ==
  /\ pc[p] \in {"test_path", "load"}
  /\ \E code \in {ErrorCode, TracebackCode} : ExitWith(p, code)
  /\ UNCHANGED <<store, args, made, written, file, mixed>>

NotFound(p) ==
  /\ pc[p] = "load"
  /\ args[p].session \notin DOMAIN stored
  /\ ExitWith(p, ErrorCode)
  /\ UNCHANGED <<store, args, made, written, file, mixed>>

(* Mutant of refused: --overwrite is taken for consent.                    *)
refused_UnlessOverwrite(a, arg) ==
  ~ all_passed(a) /\ ~ arg.allow_corrupted /\ ~ arg.overwrite

refused(a, arg) == ~ all_passed(a) /\ ~ arg.allow_corrupted

(* artifact_from_json raises. *)
LoadFails(p) ==
  /\ pc[p] = "load"
  /\ args[p].session \in DOMAIN stored
  /\ ~ Decodable(stored[args[p].session])
  /\ ExitWith(p, TracebackCode)
  /\ UNCHANGED <<store, args, made, written, file, mixed>>

Loads(p) ==
  /\ pc[p] = "load"
  /\ args[p].session \in DOMAIN stored
  /\ Decodable(stored[args[p].session])
  /\ UNCHANGED <<store, args, written, file, mixed>>

(* The artifact fails a check, and nobody allowed that.                    *)
Refuse(p, a) ==
  /\ refused(a, args[p])
  /\ ExitWith(p, INTEGRITY_FAILURE_EXIT_CODE)
  /\ UNCHANGED made

(* write_bundle serializes the artifact first, and raises if it cannot.    *)
BundleRaises(p, a) ==
  /\ ~ refused(a, args[p])
  /\ ~ Encodable(a)
  /\ ExitWith(p, TracebackCode)
  /\ UNCHANGED made

(* write_bundle up to the zip. *)
Bundle(p, a) ==
  /\ ~ refused(a, args[p])
  /\ Encodable(a)
  /\ made' = [made EXCEPT ![p] = all_entries(a, args[p])]
  /\ pc' = [pc EXCEPT ![p] = "open"]
  /\ UNCHANGED exit

(* load_session, the checks, and write_bundle up to the zip: all of them   *)
(* work on the artifact that was loaded.                                   *)
Load(p) ==
  LET a == artifact_from_json(stored[args[p].session])
  IN Loads(p) /\ (Refuse(p, a) \/ BundleRaises(p, a) \/ Bundle(p, a))

(* The file is created, or truncated whoever is writing it. *)
Open(p) ==
  /\ pc[p] = "open"
  /\ pc' = [pc EXCEPT ![p] = "write"]
  /\ file' = Zip(NoEntries)
  /\ mixed' = IF Writers = {} THEN mixed ELSE mixed \cup Writers \cup {p}
  /\ UNCHANGED <<store, args, exit, made, written>>

OpenFails(p) ==
  /\ pc[p] = "open"
  /\ ExitWith(p, TracebackCode)
  /\ UNCHANGED <<store, args, made, written, file, mixed>>

(* Mutant of Missing: an entry is due whether it was prepared or not.      *)
Missing_All(p) == { i \in DOMAIN SortedNames : SortedNames[i] \notin written[p] }

Missing(p) == { i \in DOMAIN SortedNames :
                  SortedNames[i] \in DOMAIN made[p] \ written[p] }

WriteEntry(p) ==
  /\ pc[p] = "write"
  /\ \E i \in Missing(p) :
       /\ \A j \in Missing(p) : i <= j
       /\ written' = [written EXCEPT ![p] = @ \cup {SortedNames[i]}]
  /\ UNCHANGED <<store, pc, args, exit, made, file, mixed>>

(* Mutant of Close: the spec is left out.                                  *)
Close_WithoutSpec(p) ==
  /\ pc[p] = "write"
  /\ Missing(p) \subseteq {4}
  /\ file' \in Closed(p)
  /\ ExitWith(p, 0)
  /\ UNCHANGED <<store, args, made, written, mixed>>

Close(p) ==
  /\ pc[p] = "write"
  /\ Missing(p) = {}
  /\ file' \in Closed(p)
  /\ ExitWith(p, 0)
  /\ UNCHANGED <<store, args, made, written, mixed>>

(* The disk is full, or the user interrupts: the with statement closes the *)
(* zip, with a directory of the entries written so far, if it still can.   *)
(* (An entry cut short is as good as missing.)                             *)
WriteFails(p) ==
  /\ pc[p] = "write"
  /\ file' \in Closed(p) \cup {file}
  /\ ExitWith(p, TracebackCode)
  /\ UNCHANGED <<store, args, made, written, mixed>>

(* Before it opens the file, a process that is killed leaves no more than  *)
(* one that gives up.                                                      *)
Kill(p) ==
  /\ pc[p] = "write"
  /\ pc' = [pc EXCEPT ![p] = "killed"]
  /\ UNCHANGED <<store, args, exit, made, written, file, mixed>>

-----------------------------------------------------------------------------
(* One field of the payload of a session is no longer what was saved, or   *)
(* is not there.                                                           *)
Damaged(a) ==
  { [a EXCEPT !.session_id = NotAUuid], [a EXCEPT !.tz_aware = FALSE],
    [a EXCEPT !.session.score = One + 1] }
    \cup { [a EXCEPT !.inputs = [i EXCEPT !.params = through(@)]] : i \in Inputs }
    \cup { [a EXCEPT !.results = Tail(@)] }
    \cup { [a EXCEPT !.results[i].lo = One] : i \in DOMAIN a.results }
    \cup { [a EXCEPT !.session.case_count = @ + 1],
           [a EXCEPT !.session.fragile_count = @ + 1],
           [a EXCEPT !.session.consistently_wrong_count = @ + 1] }
    \cup { [a EXCEPT !.hash = Lost], [a EXCEPT !.inputs.params = Lost],
           [a EXCEPT !.session.score = Lost] }
    \cup { [a EXCEPT !.results[i].mid = Lost] : i \in DOMAIN a.results }

Decay ==
  /\ \E id \in DOMAIN stored \ decayed :
       /\ decayed' = decayed \cup {id}
       /\ \E a \in Damaged(stored[id]) : stored' = [stored EXCEPT ![id] = a]
  /\ UNCHANGED <<pc, args, exit, made, written, file, mixed>>

Export(p) ==
  \/ TestPath(p) \/ GivesUp(p) \/ NotFound(p) \/ LoadFails(p) \/ Load(p)
  \/ Open(p) \/ OpenFails(p)
  \/ WriteEntry(p) \/ Close(p) \/ WriteFails(p) \/ Kill(p)

Next == Decay \/ \E p \in Procs : Export(p)

Spec == Init /\ [][Next]_vars

-----------------------------------------------------------------------------
(* Properties *)

IsArtifact(a) ==
  a = [ session_id |-> a.session_id, tz_aware |-> a.tz_aware, inputs |-> a.inputs,
        hash |-> a.hash, results |-> a.results, session |-> a.session ]

(* A process has an exit status exactly when it has ended by itself; what  *)
(* it wrote is of what it prepared, which it prepares before it opens the  *)
(* file.                                                                   *)
TypeOK ==
  /\ DOMAIN stored \subseteq Sessions
  /\ \A id \in DOMAIN stored : IsArtifact(stored[id])
  /\ decayed \subseteq DOMAIN stored
  /\ args \in [Procs -> Args]
  /\ pc \in [Procs -> {"test_path", "load", "open", "write", "done", "killed"}]
  /\ exit \in [Procs -> {NoExit, 0, TracebackCode, ErrorCode,
                         INTEGRITY_FAILURE_EXIT_CODE}]
  /\ \A p \in Procs :
       /\ (exit[p] # NoExit) <=> (pc[p] = "done")
       /\ written[p] \subseteq DOMAIN made[p]
       /\ pc[p] \in {"open", "write"} => made[p] # NoEntries
       /\ pc[p] \in {"test_path", "load"} => made[p] = NoEntries
  /\ mixed \subseteq Procs

Readable(name) == name \in DOMAIN file.entries
Manifest == file.entries["manifest.json"].manifest

(* A file whose manifest can be read holds what the manifest lists: what   *)
(* else can be read of it has the digest the manifest gives, and, if no    *)
(* other process wrote at the same time, the evidence is there whatever    *)
(* interrupted the export; only the spec, written last, may be missing.    *)
ManifestMeansEvidence ==
  Readable("manifest.json") =>
    /\ \A n \in DOMAIN file.entries \ {"manifest.json"} :
         /\ n \in DOMAIN Manifest.files
         /\ Manifest.files[n] = sha256(file.entries[n])
    /\ mixed = {} =>
         DOMAIN Manifest.files \ {"spec.yaml"} \subseteq DOMAIN file.entries

(* A bundle that holds an artifact which fails checks says so, in its      *)
(* manifest and in its readme, and only then.                              *)
ProtestIsOnRecord ==
  Readable("artifact.json") =>
    LET failed == failed_checks(artifact_from_json(file.entries["artifact.json"]))
    IN /\ Readable("manifest.json") =>
            /\ Manifest.failed_checks = failed
            /\ Manifest.exported_under_protest = (failed # {})
            /\ Manifest.artifact_verified = (failed = {})
       /\ Readable("README.md") =>
            file.entries["README.md"].exported_under_protest = (failed # {})

(* An artifact that fails checks reaches the file only by an export that   *)
(* was given --allow-corrupted, whatever happened to the store meanwhile.  *)
CorruptionNeedsConsent ==
  Readable("artifact.json") =>
    \/ all_passed(artifact_from_json(file.entries["artifact.json"]))
    \/ \E p \in Procs : /\ args[p].allow_corrupted
                        /\ made[p] # NoEntries
                        /\ made[p]["artifact.json"] = file.entries["artifact.json"]

(* A session whose payload nobody damaged passes the checks: it verifies,  *)
(* and is neither refused nor exported under protest; but for one whose    *)
(* perturbations left a param that JSON does not give back as it was: it   *)
(* was hashed before it was stored, and fails that check alone.            *)
HonestNeedsNoProtest ==
  /\ \A id \in DOMAIN stored \ decayed :
       \/ cmd_verify({stored[id]}) = 0
       \/ /\ cmd_verify({stored[id]}) = INTEGRITY_FAILURE_EXIT_CODE
          /\ failed_checks(artifact_from_json(stored[id])) = {"materialized_hash"}
          /\ \E i \in Inputs : /\ stored[id].hash = compute_materialized_hash(i)
                                /\ ~ IsJson(i.params)
  /\ \A p \in Procs :
         \/ exit[p] = INTEGRITY_FAILURE_EXIT_CODE
         \/ /\ made[p] # NoEntries
            /\ made[p]["manifest.json"].manifest.exported_under_protest
      => \/ args[p].session \in decayed
         \/ cmd_verify({stored[args[p].session]}) = INTEGRITY_FAILURE_EXIT_CODE

(* --allow-corrupted is documented to write the bundle even when integrity *)
(* checks fail: but an artifact that lost its time zone, which is a check  *)
(* of its own, cannot be serialized.                                       *)
ConsentIsEnough ==
  \A id \in DOMAIN stored :
    LET a == artifact_from_json(stored[id])
    IN Decodable(stored[id]) /\ ~ all_passed(a) => Encodable(a)

(* The bundle id covers every byte: bundles with one id are the same.      *)
SameIdSameBundle ==
  \A p, q \in Procs :
       /\ made[p] # NoEntries
       /\ made[q] # NoEntries
       /\ made[p]["manifest.json"].bundle_id = made[q]["manifest.json"].bundle_id
    => made[p] = made[q]

(* A process that has not opened the file, and one that ended before it    *)
(* could.                                                                  *)
Unopened(q) ==
  \/ pc[q] \in {"test_path", "load", "open"}
  \/ exit[q] \in {ErrorCode, INTEGRITY_FAILURE_EXIT_CODE}

(* Status 0 means that the whole bundle can be read: that of the only      *)
(* export that opened the file, or, of exports that all succeeded and of   *)
(* which no two wrote at the same time, that of one of them.               *)
SuccessLeavesTheBundle ==
  /\ \A p \in Procs :
       exit[p] = 0 /\ (\A q \in Procs \ {p} : Unopened(q)) => file.entries = made[p]
  /\ LET succeeded == { p \in Procs : exit[p] = 0 }
     IN succeeded # {} /\ mixed = {} /\ (\A q \in Procs \ succeeded : Unopened(q)) =>
          \E p \in succeeded : file.entries = made[p]
=============================================================================
