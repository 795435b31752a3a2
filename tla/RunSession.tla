----------------------------- MODULE RunSession -----------------------------
(***************************************************************************)
(* falsifyai run (cli/run.py): load a spec, realize its perturbations,     *)
(* execute every case against the model, resolve each case, roll the       *)
(* session up, save the artifact and exit.  Runs follow one another on one *)
(* store; any of them may fail at any step or be killed.                   *)
(***************************************************************************)
EXTENDS Integers, Sequences, FiniteSets, Views, ExecutionEngine, Realization

CONSTANTS
  Original,    \* case -> the prompt of case.input.text
  MaxSessions  \* bound on the invocations of the command

ASSUME RunSessionAssumption ==
  /\ Original \in [Cases -> Prompts]
  /\ \A c \in Cases : Len(Slots[c]) <= MaxRuns
  /\ MaxSessions \in Nat

VARIABLES
  pc,        \* where cmd_run is
  sid,       \* the session_id of the run in progress
  realized,  \* materialized.cases[c].realized_perturbations
  original,  \* original_exec of the case in progress, or NoOutput
  runs,      \* perturbed_runs of the case in progress
  results,   \* case_results
  verdict,   \* session_verdict, or "none"
  store,     \* the sessions in the replay store
  exit       \* how the process ended

caseVars == <<realized, original, runs, results>>
vars == <<pc, sid, caseVars, verdict, store, exit, engineVars>>

Steps == { "load", "materialize", "execute", "rollup", "open", "save",
           "render" }
Ended == {"idle", "exited", "killed"}

(* exit: the status, and whether it is the verdict's, a CLIError's or that *)
(* of an uncaught exception.                                               *)
NoExit == [code |-> 0, why |-> "running"]
Exit == [code : ExitCodes, why : {"running", "verdict", "error", "traceback"}]

Run == [family : Families, prompt : Prompts, output : Outputs]
CI == (0..Scale) \X (0..Scale)

IsCaseResult(r) ==
  /\ r = [ original |-> r.original, runs |-> r.runs, cis |-> r.cis,
           verdict |-> r.verdict ]
  /\ r.original \in Outputs
  /\ r.runs \in Seq(Run)
  /\ r.cis \in [FamiliesOf(r.runs) -> CI]
  /\ r.verdict \in Verdict

AreResults(rs) ==
  /\ rs \in Seq({ rs[i] : i \in DOMAIN rs })
  /\ \A i \in DOMAIN rs : IsCaseResult(rs[i])

IsArtifact(a) ==
  /\ a = [ id |-> a.id, realized |-> a.realized, results |-> a.results,
           verdict |-> a.verdict ]
  /\ a.id \in Nat
  /\ a.realized \in [Cases -> Seq(PerturbedInput)]
  /\ AreResults(a.results)
  /\ a.verdict \in Verdict

-----------------------------------------------------------------------------
TypeOK ==
  /\ EngineTypeOK
  /\ pc \in Steps \cup Ended
  /\ sid \in Nat
  /\ realized \in [Cases -> Seq(PerturbedInput)]
  /\ original \in Outputs \cup {NoOutput}
  /\ runs \in Seq(Run)
  /\ AreResults(results)
  /\ verdict \in Verdict \cup {"none"}
  /\ \A a \in store : IsArtifact(a)
  /\ exit \in Exit

Init ==
  /\ EngineInit
  /\ pc = "idle"
  /\ sid = 0
  /\ realized = Unrealized
  /\ original = NoOutput
  /\ runs = <<>>
  /\ results = <<>>
  /\ verdict = "none"
  /\ store = {}
  /\ exit = NoExit

-----------------------------------------------------------------------------
Goto(step) == pc' = step /\ UNCHANGED exit

(* return, CLIError reaching main(), or an exception nothing catches. *)
ExitWith(code, why) == pc' = "exited" /\ exit' = [code |-> code, why |-> why]
ErrorExit == ExitWith(ErrorCode, "error")
Traceback == ExitWith(TracebackCode, "traceback")

(* The process starts: cmd_run's locals are fresh, the store is the one    *)
(* earlier runs left.                                                      *)
Start ==
  /\ pc \in Ended
  /\ sid < MaxSessions
  /\ pc' = "load"
  /\ sid' = sid + 1
  /\ realized' = Unrealized
  /\ original' = NoOutput
  /\ runs' = <<>>
  /\ results' = <<>>
  /\ verdict' = "none"
  /\ exit' = NoExit
  /\ EngineReset
  /\ UNCHANGED store

(* load_spec and the construction of the adapter and the NLI backend.      *)
LoadSpec ==
  /\ pc = "load"
  /\ Goto("materialize")
  /\ UNCHANGED <<sid, caseVars, verdict, store, engineVars>>

(* A SpecLoadError, or an adapter that cannot be built, becomes a CLIError; *)
(* a file that is not there does not.                                      *)
LoadSpecFails ==
  /\ pc = "load"
  /\ ErrorExit \/ Traceback
  /\ UNCHANGED <<sid, caseVars, verdict, store, engineVars>>

(* materialize, of which Materializer has the steps.  Rewrites call the    *)
(* adapter directly, past the engine and its cache.                        *)
Materialize ==
  /\ pc = "materialize"
  /\ \E r \in [Cases -> UNION { Realizable(c) : c \in Cases }] :
       /\ \A c \in Cases : r[c] \in Realizable(c)
       /\ realized' = r
  /\ Goto("execute")
  /\ UNCHANGED <<sid, original, runs, results, verdict, store, engineVars>>

(* An unknown plugin, or a model call that fails inside a rewrite: cmd_run *)
(* does not translate the exception.                                       *)
MaterializeFails ==
  /\ pc = "materialize"
  /\ Traceback
  /\ UNCHANGED <<sid, caseVars, verdict, store, engineVars>>

CaseVerdicts(rs) == [c \in DOMAIN rs |-> rs[c].verdict]

(* _run_case for the case after those resolved.                            *)
Case == Len(results) + 1
NextInput == realized[Case][Len(runs) + 1]

ExecuteOriginal ==
  /\ pc = "execute" /\ original = NoOutput
  /\ \E out \in Outputs :
       /\ execute(Original[Case], out)
       /\ original' = out
  /\ UNCHANGED <<pc, sid, realized, runs, results, verdict, store, exit>>

ExecutePerturbed ==
  /\ pc = "execute" /\ original # NoOutput
  /\ Len(runs) < Len(realized[Case])
  /\ \E out \in Outputs :
       /\ execute(NextInput.prompt, out)
       /\ runs' = Append(runs, [ family |-> NextInput.family,
                                 prompt |-> NextInput.prompt,
                                 output |-> out ])
  /\ UNCHANGED <<pc, sid, realized, original, results, verdict, store, exit>>

(* Mutants of ExecutionFails: the finished cases are saved before the      *)
(* error leaves; the case is started over until a call succeeds.           *)
ExecutionFails_SavesPartial ==
  /\ pc = "execute"
  /\ original = NoOutput /\ execute_raises(Original[Case])
  /\ store' = store \cup { [ id |-> sid, realized |-> realized,
                             results |-> results,
                             verdict |-> resolve_session(CaseVerdicts(results)) ] }
  /\ ErrorExit
  /\ UNCHANGED <<sid, caseVars, verdict>>

ExecutionFails_StartsOver ==
  /\ pc = "execute"
  /\ original # NoOutput
  /\ Len(runs) < Len(realized[Case])
  /\ ~ Cached(NextInput.prompt)
  /\ original' = NoOutput
  /\ runs' = <<>>
  /\ UNCHANGED <<pc, sid, realized, results, verdict, store, exit, engineVars>>

(* The call about to be made raises ExecutionError: InfrastructureError.   *)
ExecutionFails ==
  /\ pc = "execute"
  /\ \/ original = NoOutput /\ execute_raises(Original[Case])
     \/ /\ original # NoOutput
        /\ Len(runs) < Len(realized[Case])
        /\ execute_raises(NextInput.prompt)
  /\ ErrorExit
  /\ UNCHANGED <<sid, caseVars, verdict, store>>

(* build_invariant raises before the first call; or an embedding or NLI    *)
(* model that cannot be loaded, ImportError from the inv.check of the      *)
(* latest run or from an oracle.                                           *)
JudgeFails ==
  /\ pc = "execute"
  /\ original = NoOutput \/ runs # <<>>
  /\ Traceback
  /\ UNCHANGED <<sid, caseVars, verdict, store, engineVars>>

(* Mutant of ResolveCase: the loop over the cases stops one short.         *)
ResolveCase_StopsShort ==
  /\ pc = "execute" /\ original # NoOutput
  /\ Len(runs) = Len(realized[Case])
  /\ \E r \in resolve_case(original, runs) : results' = Append(results, r)
  /\ original' = NoOutput
  /\ runs' = <<>>
  /\ Goto(IF Case >= NumCases - 1 THEN "rollup" ELSE "execute")
  /\ UNCHANGED <<sid, realized, verdict, store, engineVars>>

ResolveCase ==
  /\ pc = "execute" /\ original # NoOutput
  /\ Len(runs) = Len(realized[Case])
  /\ \E r \in resolve_case(original, runs) : results' = Append(results, r)
  /\ original' = NoOutput
  /\ runs' = <<>>
  /\ Goto(IF Case = NumCases THEN "rollup" ELSE "execute")
  /\ UNCHANGED <<sid, realized, verdict, store, engineVars>>

RollUp ==
  /\ pc = "rollup"
  /\ verdict' = resolve_session(CaseVerdicts(results))
  /\ Goto("open")
  /\ UNCHANGED <<sid, caseVars, store, engineVars>>

(* build_store; its failures (unknown scheme, newer schema, SQLite errors) *)
(* are not CLIErrors.                                                      *)
OpenStore ==
  /\ pc = "open"
  /\ Goto("save") \/ Traceback
  /\ UNCHANGED <<sid, caseVars, verdict, store, engineVars>>

SaveSession ==
  /\ pc = "save"
  /\ store' = store \cup { [ id |-> sid, realized |-> realized,
                             results |-> results, verdict |-> verdict ] }
  /\ Goto("render")
  /\ UNCHANGED <<sid, caseVars, verdict, engineVars>>

SaveFails ==
  /\ pc = "save"
  /\ Traceback
  /\ UNCHANGED <<sid, caseVars, verdict, store, engineVars>>

Render ==
  /\ pc = "render"
  /\ ExitWith(exit_code_for(verdict), "verdict")
  /\ UNCHANGED <<sid, caseVars, verdict, store, engineVars>>

(* Writing the report fails after the session is stored.                   *)
RenderFails ==
  /\ pc = "render"
  /\ Traceback
  /\ UNCHANGED <<sid, caseVars, verdict, store, engineVars>>

Kill ==
  /\ pc \in Steps
  /\ pc' = "killed"
  /\ UNCHANGED <<sid, caseVars, verdict, store, exit, engineVars>>

Work ==
  \/ LoadSpec \/ LoadSpecFails \/ Materialize \/ MaterializeFails
  \/ ExecuteOriginal \/ ExecutePerturbed \/ ExecutionFails \/ JudgeFails
  \/ ResolveCase \/ RollUp \/ OpenStore
  \/ SaveSession \/ SaveFails \/ Render \/ RenderFails

Next == Start \/ Work \/ Kill

(* A call returns, raises or meets run.timeout_seconds, and the rest of    *)
(* the command is straight-line code: a run that is not killed goes on.    *)
Spec == Init /\ [][Next]_vars /\ WF_vars(Work)

-----------------------------------------------------------------------------
(* Properties *)

Concluded == exit.why = "verdict"

(* A case every output of which, the unperturbed one included, violates    *)
(* the ground truth: confident and consistent wrongness.                   *)
KnownWrong(r) ==
  /\ r.runs # <<>> /\ Invariants # {}
  /\ is_consistently_wrong(AllOutputs(r.original, r.runs))

(* The false positive the framework exists to exclude (consistency.py): a  *)
(* session in which some case is consistently wrong ends with the failure  *)
(* code, however stable its answers and whatever the other cases gave.     *)
KnownWrongNeverPasses ==
  Concluded /\ (\E c \in DOMAIN results : KnownWrong(results[c]))
    => exit.code = 2

(* "Worst-case stratified stability, not aggregate": when the command      *)
(* succeeds, every family of every case cleared the stable bar by itself;  *)
(* no weak family was drowned by the data of the others.                   *)
PassMeansEveryFamilyHeld ==
  Concluded /\ exit.code = 0 =>
    \A c \in DOMAIN results :
      \A f \in FamiliesOf(results[c].runs) : StableBar <= Lo(results[c].cis, f)

(* INVALID_EVAL blames the evaluation: either two confident oracles        *)
(* disagree, or some invariant rejects even the unperturbed answer (meta.py *)
(* calls the baseline load-bearing).  From twenty outputs on, 95 % of them *)
(* do not tell.                                                            *)
InvalidEvalBlamesTheEval ==
  \A c \in DOMAIN results :
    LET outs == AllOutputs(results[c].original, results[c].runs)
    IN results[c].verdict = "INVALID_EVAL" /\ Len(outs) < 20 =>
         \/ \E a, b \in Peers(outs) : a.says # b.says /\ Confident(a) /\ Confident(b)
         \/ \E inv \in Invariants :
              <<inv, results[c].original, results[c].original>> \notin Passes

(* The statuses of a success certify every single answer: each perturbed   *)
(* run passed every invariant, if no stratum is so large that a failure    *)
(* leaves its interval above the stable bar.                               *)
NoFailedRunBehindPass ==
  Concluded /\ exit.code = 0 /\ OneFailureBreaks =>
    \A c \in DOMAIN results : \A i \in DOMAIN results[c].runs :
      RunPassed(results[c].original, results[c].runs[i])

(* The gold standard never covers a set that denies the reference, or one  *)
(* that mostly says nothing: at most as many outputs contradict the        *)
(* reference as are entailed by it, and under half are refusals.           *)
GoldStandardIsGrounded ==
  \A c \in DOMAIN results :
    LET outs == AllOutputs(results[c].original, results[c].runs)
    IN results[c].verdict = "INFORMATION_PRESENT" =>
         /\ Support(outs, "CONTRADICTION") <= Support(outs, "ENTAILMENT")
         /\ 2 * Cardinality(Nulls(outs)) < Len(outs)

Orders(n) == { p \in [1..n -> 1..n] : \A i, j \in 1..n : i # j => p[i] # p[j] }

LabelTied(outs) ==
  \E a, b \in NLILabel :
    /\ a # b
    /\ Support(outs, a) = Support(outs, b)
    /\ \A d \in NLILabel : Support(outs, d) <= Support(outs, a)

WorstTied(cis) ==
  \E f, g \in DOMAIN cis : f # g /\ Lo(cis, f) = Lo(cis, g) /\ Hi(cis, f) # Hi(cis, g)

Unstable == {"ADVERSARIALLY_VULNERABLE", "FRAGILE", "AMBIGUOUS"}

(* What a verdict may come to when the same runs are listed in another     *)
(* order and the bootstrap draws again.  It draws again even for one seed: *)
(* bootstrap_stability resamples a family's passes and failures by their   *)
(* positions.  Apart from two NLI labels equally frequent, of which the    *)
(* first counts, only the bands that go by the intervals are exchanged;    *)
(* where one failure breaks a family the chance never reaches a stable     *)
(* verdict; and where the intervals come out the same, all that is left is *)
(* a tie of the worst families, between FRAGILE and AMBIGUOUS.  (Stated of *)
(* the results about to be rolled up, which do not change after.)          *)
ChanceStaysInTheBands ==
  pc = "rollup" => \A c \in DOMAIN results : \A p \in Orders(Len(results[c].runs)) :
    LET r == results[c]
        again == [i \in DOMAIN r.runs |-> r.runs[p[i]]]
    IN \A cis \in Intervals(r.original, again) :
         LET v == decide_verdict(r.original, again, cis)
         IN v # r.verdict =>
              \/ LabelTied(AllOutputs(r.original, r.runs))
              \/ /\ {v, r.verdict} \subseteq
                       Unstable \cup {"STABLE", "INFORMATION_PRESENT", "INFORMATION_NULL"}
                 /\ OneFailureBreaks => {v, r.verdict} \subseteq Unstable
                 /\ cis = r.cis => /\ WorstTied(cis)
                                   /\ {v, r.verdict} = {"FRAGILE", "AMBIGUOUS"}

(* A status that comes from a verdict is the status replay will give for   *)
(* the session stored under this run's id; a run that ends with a CLIError *)
(* has stored nothing; and however a run ended, in a traceback or a kill   *)
(* before or after the save, what is stored under its id is what it had    *)
(* concluded.                                                              *)
ExitMatchesStore ==
  /\ Concluded => \E a \in store : /\ a.id = sid
                                   /\ exit.code = cmd_replay(a)
  /\ exit.why = "error" => ~ \E a \in store : a.id = sid
  /\ \A a \in store : a.id = sid => a.verdict = verdict /\ a.results = results

(* The evidence of a result is that of the inputs realized for the case,   *)
(* all of them in their order, and its verdict is one the resolver gives   *)
(* that evidence.                                                          *)
Evident(r, inputs) ==
  /\ Len(r.runs) = Len(inputs)
  /\ \A i \in DOMAIN inputs : /\ r.runs[i].family = inputs[i].family
                             /\ r.runs[i].prompt = inputs[i].prompt
  /\ r \in resolve_case(r.original, r.runs)

(* Whatever fails or is killed, each stored session is a whole one: every  *)
(* case of the spec with all its evidence, under the verdict its cases     *)
(* roll up to, and one artifact per session id.                            *)
StoredSessionsAreWhole ==
  \A a \in store :
    /\ Len(a.results) = NumCases
    /\ \A c \in Cases : Evident(a.results[c], a.realized[c])
    /\ a.verdict = resolve_session(CaseVerdicts(a.results))
    /\ \A b \in store : a.id = b.id => a = b

(* The verdict of a case is taken from the interval of its worst family;   *)
(* matrix prints the least pass rates over all cases, and inspect one run. *)
(* They do not contradict it: a cell is perfect only if every case kept    *)
(* every invariant in that family, the cell of a family that made a case   *)
(* unstable is not, and the run shown for a FRAGILE case is one of its     *)
(* worst family that failed.                                               *)
WeaknessIsShown ==
  \A a \in store :
    LET cells == worst_per_family(a.results)
    IN \A c \in DOMAIN a.results :
         LET r == a.results[c]
             worst == worst_case_stratified(r.runs, r.cis)
         IN /\ \A i \in DOMAIN r.runs :
                 Perfect(cells[r.runs[i].family]) => RunPassed(r.original, r.runs[i])
            /\ r.verdict \in Unstable => ~ Perfect(cells[worst])
            /\ r.verdict = "FRAGILE" =>
                 \E i \in select_worst_perturbation(r) :
                   r.runs[i].family = worst /\ ~ RunPassed(r.original, r.runs[i])

(* The answers the run in progress holds for a prompt, in whatever case it *)
(* was sent.                                                               *)
AnswersTo(p) ==
  { results[c].original : c \in { d \in DOMAIN results : Original[d] = p } }
    \cup (UNION { { results[c].runs[i].output :
                      i \in { j \in DOMAIN results[c].runs :
                                results[c].runs[j].prompt = p } } :
                  c \in DOMAIN results })
    \cup { runs[i].output : i \in { j \in DOMAIN runs : runs[j].prompt = p } }
    \cup (IF original # NoOutput /\ Original[Case] = p THEN {original} ELSE {})

(* At temperature zero with the cache on, a prompt is answered once and    *)
(* for all in a run: the model is asked at most once, and every case that  *)
(* sends the prompt judges the same answer.                                *)
OneAnswerPerPrompt ==
  Caching => \A p \in Prompts : /\ calls[p] <= 1
                                /\ Cardinality(AnswersTo(p)) <= 1

(* A run that is not killed ends with a status.                            *)
EveryRunEnds == (pc = "load") ~> (pc \in {"exited", "killed"})
=============================================================================
