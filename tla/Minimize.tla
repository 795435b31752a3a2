------------------------------ MODULE Minimize -------------------------------
(***************************************************************************)
(* falsifyai minimize (cli/minimize.py): the weakest strength of a         *)
(* perturbation that turns a case from STABLE.  The baseline is executed   *)
(* once; then, level by level from the weakest, the inputs of the level    *)
(* are executed, judged and resolved, until one is not STABLE.             *)
(*                                                                         *)
(* The inputs of a level are fixed by the strength, the number of samples  *)
(* and run.seed.  The engine always has a cache (whatever run.cache says), *)
(* the resolver no NLI backend and its default fragile_threshold (whatever *)
(* the case's verdict_config says): CacheOn, NLI and FragileBar.           *)
(***************************************************************************)
EXTENDS Integers, Sequences, FiniteSets, Resolver, ExecutionEngine

CONSTANTS
  Original,    \* the prompt of case.input.text
  Strengths,   \* the values --levels may hold
  Invocations  \* the arguments: levels, and the inputs each level gives

PerturbedInput == [family : Families, prompt : Prompts]

ASSUME MinimizeAssumption ==
  /\ Original \in Prompts
  /\ Strengths \subseteq Nat
  /\ CacheOn /\ ~ NLI
  /\ \A v \in Invocations :
       /\ v = [levels |-> v.levels, inputs |-> v.inputs]
       /\ v.levels \in Seq(Strengths)
       /\ v.inputs \in [Strengths -> Seq(PerturbedInput)]
       /\ \A s \in Strengths : Len(v.inputs[s]) <= MaxRuns

VARIABLES
  pc,        \* where cmd_minimize is
  args,      \* the invocation
  sweep,     \* its levels in the order of the search
  original,  \* original_exec, or NoOutput
  runs,      \* perturbed_runs of the level in progress
  levels,    \* the levels resolved so far, each with its evidence
  exit       \* how the process ended

vars == <<pc, args, sweep, original, runs, levels, exit, engineVars>>

NoExit == [code |-> 0, why |-> "running"]

(* Mutant of Ascending: the levels are swept as they were given.           *)
Ascending_AsGiven(given) == {given}

(* sorted(strengths): each of them as often as it was given. *)
Ascending(given) ==
  { s \in [DOMAIN given -> Strengths] :
      /\ \E place \in [DOMAIN given -> DOMAIN given] :
           /\ \A i \in DOMAIN given : \E j \in DOMAIN given : place[j] = i
           /\ \A j \in DOMAIN given : s[j] = given[place[j]]
      /\ \A i, j \in DOMAIN given : i < j => s[i] <= s[j] }

(* The level in progress, and its inputs. *)
Strength == sweep[Len(levels) + 1]
Inputs == args.inputs[Strength]
NextInput == Inputs[Len(runs) + 1]

Broke(level) == level.verdict # "STABLE"

Init ==
  /\ EngineInit
  /\ pc = "load"
  /\ args \in Invocations
  /\ sweep = <<>>
  /\ original = NoOutput
  /\ runs = <<>>
  /\ levels = <<>>
  /\ exit = NoExit

Goto(step) == pc' = step /\ UNCHANGED exit
ExitWith(code, why) == pc' = "exited" /\ exit' = [code |-> code, why |-> why]
ErrorExit == ExitWith(ErrorCode, "error")
Traceback == ExitWith(TracebackCode, "traceback")

-----------------------------------------------------------------------------
(* load_spec, _select_case, the invariants and the adapter.                *)
Load ==
  /\ pc = "load"
  /\ sweep' \in Ascending(args.levels)
  /\ Goto("baseline")
  /\ UNCHANGED <<args, original, runs, levels, engineVars>>

(* An unsupported family, levels that are no numbers, a spec that does not *)
(* load, a case that is not there: CLIErrors.  A spec file or a plugin     *)
(* that is not there: not.                                                 *)
LoadFails ==
  /\ pc = "load"
  /\ ErrorExit \/ Traceback
  /\ UNCHANGED <<args, sweep, original, runs, levels, engineVars>>

Baseline ==
  /\ pc = "baseline"
  /\ \E out \in Outputs :
       /\ execute(Original, out)
       /\ original' = out
  /\ Goto(IF sweep = <<>> THEN "report" ELSE "search")
  /\ UNCHANGED <<args, sweep, runs, levels>>

ExecutePerturbed ==
  /\ pc = "search"
  /\ Len(runs) < Len(Inputs)
  /\ \E out \in Outputs :
       /\ execute(NextInput.prompt, out)
       /\ runs' = Append(runs, [ family |-> NextInput.family,
                                 prompt |-> NextInput.prompt,
                                 output |-> out ])
  /\ UNCHANGED <<pc, args, sweep, original, levels, exit>>

(* The baseline or a perturbed execution raises ExecutionError.            *)
ExecutionFails ==
  /\ \/ pc = "baseline" /\ execute_raises(Original)
     \/ /\ pc = "search" /\ Len(runs) < Len(Inputs)
        /\ execute_raises(NextInput.prompt)
  /\ ErrorExit
  /\ UNCHANGED <<args, sweep, original, runs, levels>>

(* The embedding model of an invariant cannot be loaded.                   *)
JudgeFails ==
  /\ pc = "search" /\ runs # <<>>
  /\ Traceback
  /\ UNCHANGED <<args, sweep, original, runs, levels, engineVars>>

(* resolve_case for the level, and the early stop.                         *)
ResolveLevel ==
  /\ pc = "search"
  /\ Len(runs) = Len(Inputs)
  /\ \E r \in resolve_case(original, runs) :
       LET level == [strength |-> Strength, verdict |-> r.verdict, runs |-> runs]
       IN /\ levels' = Append(levels, level)
          /\ Goto(IF Broke(level) \/ Len(levels) + 1 = Len(sweep)
                  THEN "report" ELSE "search")
  /\ runs' = <<>>
  /\ UNCHANGED <<args, sweep, original, engineVars>>

Found == \E i \in DOMAIN levels : Broke(levels[i])

(* Mutant of ReportStatus: the verdict decides, as it does for run.        *)
ReportStatus_OfVerdict ==
  IF Found THEN exit_code_for(levels[Len(levels)].verdict) ELSE 0

(* A falsifier is the expected outcome: 0 whether there is one or not.     *)
ReportStatus == 0

Report ==
  /\ pc = "report"
  /\ ExitWith(ReportStatus, "report") \/ Traceback
  /\ UNCHANGED <<args, sweep, original, runs, levels, engineVars>>

Next ==
  \/ Load \/ LoadFails \/ Baseline \/ ExecutePerturbed \/ ExecutionFails
  \/ JudgeFails \/ ResolveLevel \/ Report

Spec == Init /\ [][Next]_vars /\ WF_vars(Next)

-----------------------------------------------------------------------------
(* Properties *)

Run == [family : Families, prompt : Prompts, output : Outputs]
Level == [strength : Strengths, verdict : Verdict, runs : Seq(Run)]

TypeOK ==
  /\ EngineTypeOK
  /\ pc \in {"load", "baseline", "search", "report", "exited"}
  /\ args \in Invocations
  /\ sweep \in Seq(Strengths)
  /\ original \in Outputs \cup {NoOutput}
  /\ runs \in Seq(Run)
  /\ levels \in Seq(Level) /\ Len(levels) <= Len(sweep)
  /\ exit \in [ code : {0, ErrorCode, TracebackCode},
                why : {"running", "error", "traceback", "report"} ]

Tested == { levels[i].strength : i \in DOMAIN levels }
Sent(i) == { levels[i].runs[k].prompt : k \in DOMAIN levels[i].runs }

(* The prompts of a strength. *)
PromptsAt(s) == { args.inputs[s][k].prompt : k \in DOMAIN args.inputs[s] }

(* The level in progress, until the search is over. *)
InProgress == IF Found \/ Len(levels) = Len(sweep) THEN {} ELSE {Strength}

(* "The reported strength is genuinely minimal among the tested levels,    *)
(* and the search costs no more model calls than it must": the level that  *)
(* broke is the last, its verdict is one the resolver gives to all its     *)
(* inputs, every weaker level that was asked for was tried and is STABLE.  *)
(* No call is made for a stronger level than the one in progress, and none *)
(* twice for one prompt.  A search that ends without a falsifier has tried *)
(* all levels.                                                             *)
MinimalAmongTested ==
  /\ \A i \in DOMAIN levels :
       /\ levels[i].verdict \in { r.verdict : r \in resolve_case(original, levels[i].runs) }
       /\ [ k \in DOMAIN levels[i].runs |-> levels[i].runs[k].prompt ]
            = [ k \in DOMAIN args.inputs[levels[i].strength] |->
                  args.inputs[levels[i].strength][k].prompt ]
       /\ Broke(levels[i]) =>
            /\ i = Len(levels)
            /\ \A g \in DOMAIN args.levels :
                 args.levels[g] < levels[i].strength => args.levels[g] \in Tested
  /\ \A p \in Prompts :
       /\ calls[p] > 0 => \/ p = Original
                          \/ \E s \in Tested \cup InProgress : p \in PromptsAt(s)
       /\ Temperature = 0 => calls[p] <= 1
  /\ exit.why = "report" /\ ~ Found =>
       \A g \in DOMAIN args.levels : args.levels[g] \in Tested

(* At temperature zero what breaks a case is the perturbation and not the  *)
(* model's mood: each input that fails at the level that broke is a text   *)
(* that no weaker level sent.                                              *)
BreakIsNew ==
  Temperature = 0 /\ OneFailureBreaks =>
    \A i, j \in DOMAIN levels :
      i < j => \A k \in DOMAIN levels[j].runs :
        \/ RunPassed(original, levels[j].runs[k])
        \/ levels[j].runs[k].prompt \notin Sent(i)
=============================================================================
