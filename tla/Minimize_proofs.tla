--------------------------- MODULE Minimize_proofs ---------------------------
(***************************************************************************)
(* The search for a minimal falsifier is proved from one invariant: the    *)
(* levels resolved so far are a prefix of the sweep, each with the runs of *)
(* its inputs; all but the last are STABLE, and so is the last while the   *)
(* search goes on; a prompt was called at most once, and every run has the *)
(* answer that the cache keeps for its prompt.                             *)
(***************************************************************************)
EXTENDS Minimize, Resolver_proofs

Calling == pc \in {"load", "baseline", "search"}

Swept ==
  /\ pc = "load" => sweep = <<>>
  /\ pc \in {"baseline", "search", "report"} => sweep \in Ascending(args.levels)
  /\ levels # <<>> \/ exit.why = "report" => sweep \in Ascending(args.levels)
  /\ pc # "exited" => exit.why = "running"
  /\ pc \in {"load", "baseline"} => levels = <<>> /\ runs = <<>>
  /\ pc = "search" => Len(levels) < Len(sweep) /\ ~ Found
  /\ pc = "report" \/ exit.why = "report" => Found \/ Len(levels) = Len(sweep)

(* The inputs that a sequence of runs is the runs of. *)
RunsOf(rs, inputs) ==
  /\ Len(rs) <= Len(inputs)
  /\ \A k \in DOMAIN rs : rs[k].prompt = inputs[k].prompt

InOrder ==
  /\ Len(levels) < Len(sweep) => RunsOf(runs, Inputs)
  /\ \A i \in DOMAIN levels :
       /\ levels[i].strength = sweep[i]
       /\ levels[i].verdict
            \in { r.verdict : r \in resolve_case(original, levels[i].runs) }
       /\ RunsOf(levels[i].runs, args.inputs[sweep[i]])
       /\ Len(levels[i].runs) = Len(args.inputs[sweep[i]])
       /\ Broke(levels[i]) => i = Len(levels)

(* Where a prompt that was called comes from. *)
Known(p) ==
  p = Original \/ \E s \in Tested \cup InProgress : p \in PromptsAt(s)

Called ==
  /\ pc = "load" => \A p \in Prompts : calls[p] = 0 /\ cache[p] = NoOutput
  /\ \A p \in Prompts : calls[p] > 0 => Known(p)
  /\ Temperature = 0 =>
       \A p \in Prompts : /\ calls[p] <= 1
                          /\ Calling /\ calls[p] = 1 => cache[p] # NoOutput

Answered(rs) == \A k \in DOMAIN rs : rs[k].output = cache[rs[k].prompt]

Remembered ==
  Temperature = 0 =>
    Answered(runs) /\ \A i \in DOMAIN levels : Answered(levels[i].runs)

MinimizeInv == TypeOK /\ Swept /\ InOrder /\ Called /\ Remembered
-----------------------------------------------------------------------------
(* The data of an invocation *)

LEMMA ArgsType ==
  ASSUME args \in Invocations
  PROVE  /\ args.levels \in Seq(Strengths)
         /\ \A s \in Strengths : /\ args.inputs[s] \in Seq(PerturbedInput)
                                 /\ Len(args.inputs[s]) <= MaxRuns
BY MinimizeAssumption

(* A sweep is a sequence, in ascending order, and leaves no level out.     *)
LEMMA SweepType ==
  ASSUME args \in Invocations, NEW s \in Ascending(args.levels)
  PROVE  /\ s \in Seq(Strengths)
         /\ Len(s) = Len(args.levels)
         /\ \A i, j \in DOMAIN s : i < j => s[i] <= s[j]
         /\ \A g \in DOMAIN args.levels : \E j \in DOMAIN s : s[j] = args.levels[g]
<1> DEFINE given == args.levels
<1>1. given \in Seq(Strengths)
  BY ArgsType
<1>2. s \in [DOMAIN given -> Strengths] /\ \A i, j \in DOMAIN given : i < j => s[i] <= s[j]
  BY DEF Ascending
<1>3. PICK place \in [DOMAIN given -> DOMAIN given] :
        /\ \A i \in DOMAIN given : \E j \in DOMAIN given : place[j] = i
        /\ \A j \in DOMAIN given : s[j] = given[place[j]]
  BY DEF Ascending
<1>4. DOMAIN given = 1..Len(given) /\ Len(given) \in Nat
  BY <1>1, LenProperties
<1> HIDE DEF given
<1>5. s \in Seq(Strengths) /\ Len(s) = Len(given)
  <2>1. s \in [1..Len(given) -> Strengths]
    BY <1>2, <1>4
  <2> QED  BY <1>4, <2>1
<1>6. DOMAIN s = DOMAIN given
  BY <1>2
<1>7. \A g \in DOMAIN given : \E j \in DOMAIN s : s[j] = given[g]
  BY <1>3, <1>6
<1> QED  BY <1>2, <1>5, <1>6, <1>7 DEF given

(* The level in progress. *)
LEMMA ProgressType ==
  ASSUME MinimizeInv, pc = "search"
  PROVE  /\ sweep \in Ascending(args.levels)
         /\ Len(levels) + 1 \in DOMAIN sweep
         /\ Strength \in Strengths
         /\ Inputs \in Seq(PerturbedInput) /\ Len(Inputs) <= MaxRuns
         /\ InProgress = {Strength}
<1>1. /\ args \in Invocations /\ sweep \in Seq(Strengths)
      /\ sweep \in Ascending(args.levels)
      /\ Len(levels) < Len(sweep) /\ ~ Found
  BY DEF MinimizeInv, TypeOK, Swept
<1>2. Len(levels) \in Nat
  BY DEF MinimizeInv, TypeOK
<1>3. Len(levels) + 1 \in DOMAIN sweep
  BY <1>1, <1>2
<1>4. Strength \in Strengths
  BY <1>1, <1>3 DEF Strength
<1>5. InProgress = {Strength}
  BY <1>1, <1>2 DEF InProgress
<1> QED  BY <1>1, <1>3, <1>4, <1>5, ArgsType DEF Inputs

-----------------------------------------------------------------------------
(* One model call *)

(* A call leaves the other prompts alone, and at temperature zero it is    *)
(* answered from the cache, or by the model for the first time.            *)
LEMMA ExecuteStep ==
  ASSUME MinimizeInv, Calling, NEW p \in Prompts, NEW out \in Outputs,
         execute(p, out)
  PROVE  /\ EngineTypeOK'
         /\ \A q \in Prompts \ {p} : calls'[q] = calls[q] /\ cache'[q] = cache[q]
         /\ Temperature = 0 =>
              /\ calls'[p] <= 1
              /\ cache'[p] = out /\ out # NoOutput
              /\ cache[p] # NoOutput => cache'[p] = cache[p]
<1>1. EngineTypeOK /\ Called
  BY DEF MinimizeInv, TypeOK
<1>2. Temperature = 0 => Caching
  BY MinimizeAssumption DEF Caching
<1>3. out # NoOutput
  BY DomainAssumption
<1>4. calls[p] \in Nat
  BY <1>1 DEF EngineTypeOK
<1>5. CASE Hit(p, out)
  BY <1>1, <1>2, <1>3, <1>4, <1>5
  DEF Hit, Cached, EngineTypeOK, engineVars, Called
<1>6. CASE Miss(p, out)
  <2>1. /\ calls' = [calls EXCEPT ![p] = @ + 1]
        /\ cache' = IF Caching THEN [cache EXCEPT ![p] = out] ELSE cache
        /\ ~ Cached(p)
    BY <1>6 DEF Miss
  <2>2. EngineTypeOK'
    BY <1>1, <2>1 DEF EngineTypeOK
  <2>3. \A q \in Prompts \ {p} : calls'[q] = calls[q] /\ cache'[q] = cache[q]
    BY <1>1, <2>1 DEF EngineTypeOK
  <2>4. ASSUME Temperature = 0
        PROVE  /\ calls'[p] <= 1 /\ cache'[p] = out
               /\ cache[p] # NoOutput => cache'[p] = cache[p]
    <3>1. cache[p] = NoOutput
      BY <1>2, <2>1, <2>4 DEF Cached
    <3>2. calls[p] = 0
      BY <1>1, <1>4, <2>4, <3>1 DEF Called
    <3>3. cache'[p] = out /\ calls'[p] = 1
      BY <1>1, <1>2, <2>1, <2>4, <3>2 DEF EngineTypeOK
    <3> QED  BY <3>1, <3>3
  <2> QED  BY <1>3, <2>2, <2>3, <2>4
<1> QED  BY <1>5, <1>6 DEF execute

(* A call that raises is counted, and nothing else. *)
LEMMA RaiseStep ==
  ASSUME MinimizeInv, Calling, NEW p \in Prompts, execute_raises(p)
  PROVE  /\ EngineTypeOK' /\ UNCHANGED cache
         /\ \A q \in Prompts \ {p} : calls'[q] = calls[q]
         /\ Temperature = 0 => calls'[p] <= 1
<1>1. EngineTypeOK /\ Called
  BY DEF MinimizeInv, TypeOK
<1>2. calls[p] \in Nat
  BY <1>1 DEF EngineTypeOK
<1>3. /\ ~ Cached(p) /\ calls' = [calls EXCEPT ![p] = @ + 1] /\ UNCHANGED cache
  BY DEF execute_raises
<1>4. ASSUME Temperature = 0 PROVE calls'[p] <= 1
  <2>1. calls[p] = 0
    BY <1>1, <1>2, <1>3, <1>4, MinimizeAssumption DEF Called, Cached, Caching
  <2> QED  BY <1>1, <1>3, <2>1 DEF EngineTypeOK
<1> QED  BY <1>1, <1>3, <1>4 DEF EngineTypeOK

-----------------------------------------------------------------------------
(* One lemma for each action. *)

LEMMA InitMinimize == Init => MinimizeInv
<1> SUFFICES ASSUME Init PROVE MinimizeInv
  OBVIOUS
<1>1. TypeOK
  BY DEF Init, EngineInit, TypeOK, EngineTypeOK, NoExit
<1>2. Swept
  BY DEF Init, Swept, NoExit, Found
<1>3. InOrder
  BY DEF Init, InOrder
<1>4. Called
  BY DEF Init, EngineInit, Called
<1>5. Remembered
  BY DEF Init, Remembered, Answered
<1> QED  BY <1>1, <1>2, <1>3, <1>4, <1>5 DEF MinimizeInv

(* Steps that call nothing and resolve nothing. *)
LEMMA QuietStep ==
  ASSUME MinimizeInv, UNCHANGED <<args, original, runs, levels, engineVars>>,
         \/ UNCHANGED sweep
         \/ pc = "load" /\ sweep' \in Ascending(args.levels),
         TypeOK', Swept', pc' # "load", Calling' => Calling
  PROVE  MinimizeInv'
<1>1. InOrder'
  <2>1. CASE UNCHANGED sweep
    BY <2>1 DEF MinimizeInv, InOrder, RunsOf, Inputs, Strength
  <2>2. CASE pc = "load"
    <3>1. levels = <<>> /\ runs = <<>>
      BY <2>2 DEF MinimizeInv, Swept
    <3>2. CASE Len(levels') < Len(sweep')
      <4>1. Strength' \in Strengths
        <5>1. sweep' \in Seq(Strengths) /\ Len(levels') + 1 \in DOMAIN sweep'
          BY <3>1, <3>2 DEF TypeOK
        <5> QED  BY <5>1 DEF Strength
      <4>2. args' \in Invocations
        BY DEF TypeOK
      <4>3. Inputs' \in Seq(PerturbedInput)
        BY <4>1, <4>2, MinimizeAssumption DEF Inputs
      <4>4. RunsOf(runs, Inputs)'
        <5>1. runs' = <<>> /\ Len(runs') = 0 /\ Len(Inputs') \in Nat
          BY <3>1, <4>3
        <5> QED  BY <5>1 DEF RunsOf
      <4> QED  BY <3>1, <4>4 DEF InOrder
    <3>3. CASE ~ (Len(levels') < Len(sweep'))
      BY <3>1, <3>3 DEF InOrder
    <3> QED  BY <3>2, <3>3
  <2> QED  BY <2>1, <2>2
<1>2. Called'
  <2>1. calls' = calls /\ cache' = cache
    BY DEF engineVars
  <2>2. CASE pc = "load"
    <3>1. \A p \in Prompts : calls'[p] = 0
      BY <2>1, <2>2 DEF MinimizeInv, Called
    <3> QED  BY <3>1 DEF Called
  <2>3. CASE pc # "load"
    <3>1. sweep' = sweep
      BY <2>3
    <3>2. \A p \in Prompts : Known(p) => Known(p)'
      BY <3>1 DEF Known, Tested, InProgress, Found, Broke, PromptsAt, Strength
    <3>3. Called
      BY DEF MinimizeInv
    <3> QED  BY <2>1, <3>2, <3>3 DEF Called
  <2> QED  BY <2>2, <2>3
<1>3. Remembered'
  BY DEF MinimizeInv, Remembered, Answered, engineVars
<1> QED  BY <1>1, <1>2, <1>3 DEF MinimizeInv

LEMMA LoadKeeps == ASSUME MinimizeInv, Load PROVE MinimizeInv'
<1>1. /\ pc = "load" /\ pc' = "baseline" /\ UNCHANGED exit
      /\ sweep' \in Ascending(args.levels)
      /\ UNCHANGED <<args, original, runs, levels, engineVars>>
  BY DEF Load, Goto
<1>2. TypeOK /\ Swept
  BY DEF MinimizeInv
<1>3. sweep' \in Seq(Strengths)
  BY <1>1, <1>2, SweepType DEF TypeOK
<1>4. levels = <<>> /\ runs = <<>> /\ exit.why = "running"
  BY <1>1, <1>2 DEF Swept, Ascending, TypeOK
<1>5. TypeOK'
  BY <1>1, <1>2, <1>3, <1>4 DEF TypeOK, EngineTypeOK, engineVars
<1>6. Swept'
  BY <1>1, <1>4 DEF Swept
<1> QED  BY <1>1, <1>5, <1>6, QuietStep DEF Calling

(* A step that ends the search, or the program, by an error. *)
LEMMA ErrorKeeps ==
  ASSUME MinimizeInv, Calling, ErrorExit \/ Traceback,
         UNCHANGED <<args, sweep, original, runs, levels, engineVars>>
  PROVE  MinimizeInv'
<1>1. pc' = "exited" /\ exit'.why \in {"error", "traceback"}
  BY DEF ErrorExit, Traceback, ExitWith
<1>2. TypeOK'
  BY DEF MinimizeInv, TypeOK, EngineTypeOK, engineVars, ErrorExit, Traceback, ExitWith
<1>3. Swept'
  BY <1>1 DEF MinimizeInv, Swept, Calling
<1> QED  BY <1>1, <1>2, <1>3, QuietStep DEF Calling

LEMMA ReportKeeps == ASSUME MinimizeInv, Report PROVE MinimizeInv'
<1>1. /\ pc = "report" /\ pc' = "exited"
      /\ UNCHANGED <<args, sweep, original, runs, levels, engineVars>>
  BY DEF Report, Traceback, ExitWith
<1>2. TypeOK'
  BY DEF MinimizeInv, TypeOK, EngineTypeOK, engineVars, Report, Traceback, ExitWith,
         ReportStatus
<1>3. Swept'
  BY <1>1 DEF MinimizeInv, Swept, Found, Broke
<1> QED  BY <1>1, <1>2, <1>3, QuietStep DEF Calling

(* The prompts that may be called now. *)
LEMMA CallIsKnown ==
  ASSUME MinimizeInv, NEW p,
         \/ pc = "baseline" /\ p = Original
         \/ pc = "search" /\ Len(runs) < Len(Inputs) /\ p = NextInput.prompt
  PROVE  p \in Prompts /\ Known(p)
<1>1. CASE pc = "baseline"
  BY <1>1, MinimizeAssumption DEF Known
<1>2. CASE pc = "search"
  <2>1. Inputs \in Seq(PerturbedInput) /\ InProgress = {Strength}
    BY <1>2, ProgressType
  <2>2. Len(runs) + 1 \in DOMAIN Inputs
    BY <1>2, <2>1 DEF MinimizeInv, TypeOK
  <2>3. NextInput \in PerturbedInput
    BY <2>1, <2>2 DEF NextInput
  <2>4. p \in PromptsAt(Strength)
    BY <1>2, <2>2 DEF PromptsAt, NextInput, Inputs
  <2> QED  BY <1>2, <2>1, <2>3, <2>4 DEF Known, PerturbedInput
<1> QED  BY <1>1, <1>2

LEMMA BaselineKeeps == ASSUME MinimizeInv, Baseline PROVE MinimizeInv'
<1>1. PICK out \in Outputs : execute(Original, out) /\ original' = out
  BY DEF Baseline
<1>2. /\ pc = "baseline" /\ pc' = IF sweep = <<>> THEN "report" ELSE "search"
      /\ UNCHANGED <<args, sweep, runs, levels, exit>>
  BY DEF Baseline, Goto
<1>3. /\ TypeOK /\ Swept /\ InOrder /\ Called /\ Remembered
      /\ levels = <<>> /\ runs = <<>> /\ sweep \in Ascending(args.levels)
  BY <1>2 DEF MinimizeInv, Swept
<1>4. Original \in Prompts /\ Calling
  BY <1>2, MinimizeAssumption DEF Calling
<1>5. /\ EngineTypeOK'
      /\ \A q \in Prompts \ {Original} : calls'[q] = calls[q] /\ cache'[q] = cache[q]
      /\ Temperature = 0 => /\ calls'[Original] <= 1
                            /\ cache'[Original] = out /\ out # NoOutput
  BY <1>1, <1>4, ExecuteStep
<1>6. TypeOK'
  BY <1>1, <1>2, <1>3, <1>5 DEF TypeOK
<1>7. Swept'
  <2>1. ~ Found'
    BY <1>2, <1>3 DEF Found
  <2>2. sweep # <<>> => Len(sweep) > 0
    BY <1>3 DEF TypeOK
  <2> QED  BY <1>2, <1>3, <2>1, <2>2 DEF Swept
<1>8. InOrder'
  BY <1>2, <1>3 DEF InOrder, RunsOf, Inputs, Strength
<1>9. Called'
  <2>1. \A p \in Prompts : Known(p) => Known(p)'
    BY <1>2 DEF Known, Tested, InProgress, Found, PromptsAt, Strength
  <2>2. Known(Original)'
    BY DEF Known
  <2>3. pc' # "load"
    BY <1>2
  <2> QED  BY <1>3, <1>4, <1>5, <2>1, <2>2, <2>3 DEF Called
<1>10. Remembered'
  BY <1>2, <1>3 DEF Remembered, Answered
<1> QED  BY <1>6, <1>7, <1>8, <1>9, <1>10 DEF MinimizeInv

(* The run of a perturbed execution is the run of its input. *)
LEMMA ExecutePerturbedKeeps == ASSUME MinimizeInv, ExecutePerturbed PROVE MinimizeInv'
<1> DEFINE p == NextInput.prompt
<1>1. PICK out \in Outputs :
        /\ execute(p, out)
        /\ runs' = Append(runs, [family |-> NextInput.family, prompt |-> p, output |-> out])
  BY DEF ExecutePerturbed
<1>2. /\ pc = "search" /\ Len(runs) < Len(Inputs)
      /\ UNCHANGED <<pc, args, sweep, original, levels, exit>>
  BY DEF ExecutePerturbed
<1>3. /\ TypeOK /\ Swept /\ InOrder /\ Called /\ Remembered /\ Calling
      /\ Len(levels) < Len(sweep) /\ ~ Found
  BY <1>2 DEF MinimizeInv, Swept, Calling
<1>4. Inputs \in Seq(PerturbedInput) /\ Len(runs) + 1 \in DOMAIN Inputs
  <2>1. Inputs \in Seq(PerturbedInput)
    BY <1>2, ProgressType
  <2> QED  BY <1>2, <1>3, <2>1 DEF TypeOK
<1>5. NextInput \in PerturbedInput /\ NextInput = Inputs[Len(runs) + 1]
  BY <1>4 DEF NextInput
<1>6. p \in Prompts /\ Known(p)
  BY <1>2, CallIsKnown
<1> DEFINE run == [family |-> NextInput.family, prompt |-> p, output |-> out]
<1>7. run \in Run
  BY <1>5, <1>6 DEF Run, PerturbedInput
<1>8. /\ EngineTypeOK'
      /\ \A q \in Prompts \ {p} : calls'[q] = calls[q] /\ cache'[q] = cache[q]
      /\ Temperature = 0 => /\ calls'[p] <= 1
                            /\ cache'[p] = out /\ out # NoOutput
                            /\ cache[p] # NoOutput => cache'[p] = cache[p]
  BY <1>1, <1>3, <1>6, ExecuteStep
<1>9. /\ runs \in Seq(Run) /\ runs' \in Seq(Run) /\ Len(runs') = Len(runs) + 1
      /\ \A k \in DOMAIN runs : runs'[k] = runs[k]
      /\ runs'[Len(runs) + 1] = run
      /\ DOMAIN runs' = DOMAIN runs \cup {Len(runs) + 1}
  BY <1>1, <1>3, <1>7 DEF TypeOK
<1>10. TypeOK'
  BY <1>2, <1>3, <1>8, <1>9 DEF TypeOK
<1>11. Swept'
  BY <1>2, <1>3 DEF Swept, Found, Broke
<1>12. InOrder'
  <2>1. Inputs' = Inputs
    BY <1>2 DEF Inputs, Strength
  <2>2. RunsOf(runs, Inputs)
    BY <1>3 DEF InOrder
  <2>3. RunsOf(runs, Inputs)'
    BY <1>4, <1>5, <1>9, <2>1, <2>2 DEF RunsOf
  <2> QED  BY <1>2, <1>3, <2>3 DEF InOrder, RunsOf, Broke
<1>13. Called'
  <2>1. \A q \in Prompts : Known(q) => Known(q)'
    BY <1>2 DEF Known, Tested, InProgress, Found, Broke, PromptsAt, Strength
  <2>2. pc' # "load" /\ (Calling' => Calling)
    BY <1>2, <1>3
  <2> HIDE DEF p
  <2> QED  BY <1>3, <1>6, <1>8, <2>1, <2>2 DEF Called
<1>14. Remembered'
  <2> SUFFICES ASSUME Temperature = 0
               PROVE  Answered(runs)' /\ \A i \in DOMAIN levels' : Answered(levels[i].runs)'
    BY DEF Remembered
  <2>1. \A q \in Prompts : cache[q] # NoOutput => cache'[q] = cache[q]
    <3> HIDE DEF p
    <3> QED  BY <1>6, <1>8
  <2>2. \A rs \in Seq(Run) : Answered(rs) =>
          \A k \in DOMAIN rs : rs[k].output = cache'[rs[k].prompt]
    <3> SUFFICES ASSUME NEW rs \in Seq(Run), Answered(rs), NEW k \in DOMAIN rs
                 PROVE  rs[k].output = cache'[rs[k].prompt]
      OBVIOUS
    <3>1. rs[k] \in Run
      OBVIOUS
    <3>2. rs[k].output \in Outputs /\ rs[k].prompt \in Prompts
      BY <3>1 DEF Run
    <3>3. rs[k].output = cache[rs[k].prompt]
      BY DEF Answered
    <3>4. rs[k].output # NoOutput
      BY <3>2, DomainAssumption
    <3> QED  BY <2>1, <3>2, <3>3, <3>4
  <2>3. Answered(runs)'
    <3>1. Answered(runs)
      BY <1>3 DEF Remembered
    <3>2. \A k \in DOMAIN runs : runs[k].output = cache'[runs[k].prompt]
      BY <1>9, <2>2, <3>1
    <3>3. run.output = cache'[run.prompt]
      BY <1>8
    <3> HIDE DEF run
    <3> QED  BY <1>9, <3>2, <3>3 DEF Answered
  <2>4. ASSUME NEW i \in DOMAIN levels' PROVE Answered(levels[i].runs)'
    <3>1. levels' = levels
      BY <1>2
    <3>2. levels[i].runs \in Seq(Run)
      <4>1. levels[i] \in Level
        BY <1>3, <2>4, <3>1 DEF TypeOK
      <4> QED  BY <4>1 DEF Level
    <3>3. Answered(levels[i].runs)
      BY <1>3, <2>4, <3>1 DEF Remembered
    <3> QED  BY <2>2, <3>1, <3>2, <3>3 DEF Answered
  <2> QED  BY <2>3, <2>4
<1> QED  BY <1>10, <1>11, <1>12, <1>13, <1>14 DEF MinimizeInv

(* A call that raises ends the program. *)
LEMMA ExecutionFailsKeeps == ASSUME MinimizeInv, ExecutionFails PROVE MinimizeInv'
<1>1. PICK p : /\ \/ pc = "baseline" /\ p = Original
                  \/ pc = "search" /\ Len(runs) < Len(Inputs) /\ p = NextInput.prompt
               /\ execute_raises(p)
  BY DEF ExecutionFails
<1>2. p \in Prompts /\ Known(p)
  BY <1>1, CallIsKnown
<1>3. /\ UNCHANGED <<args, sweep, original, runs, levels>>
      /\ pc' = "exited" /\ exit' = [code |-> ErrorCode, why |-> "error"]
  BY DEF ExecutionFails, ErrorExit, ExitWith
<1>4. /\ TypeOK /\ Swept /\ InOrder /\ Called /\ Remembered /\ Calling
  BY <1>1 DEF MinimizeInv, Calling
<1>5. /\ EngineTypeOK' /\ cache' = cache
      /\ \A q \in Prompts \ {p} : calls'[q] = calls[q]
      /\ Temperature = 0 => calls'[p] <= 1
  BY <1>1, <1>2, <1>4, RaiseStep
<1>6. TypeOK'
  BY <1>3, <1>4, <1>5 DEF TypeOK
<1>7. Swept'
  BY <1>1, <1>3, <1>4 DEF Swept
<1>8. InOrder'
  BY <1>3, <1>4 DEF InOrder, RunsOf, Inputs, Strength, Broke
<1>9. Called'
  <2>1. \A q \in Prompts : Known(q) => Known(q)'
    BY <1>3 DEF Known, Tested, InProgress, Found, Broke, PromptsAt, Strength
  <2>2. pc' # "load" /\ ~ Calling'
    BY <1>3 DEF Calling
  <2> QED  BY <1>2, <1>4, <1>5, <2>1, <2>2 DEF Called
<1>10. Remembered'
  BY <1>3, <1>4, <1>5 DEF Remembered, Answered
<1> QED  BY <1>6, <1>7, <1>8, <1>9, <1>10 DEF MinimizeInv

(* A level that is resolved is the next of the sweep. *)
LEMMA ResolveLevelKeeps == ASSUME MinimizeInv, ResolveLevel PROVE MinimizeInv'
<1>1. PICK r \in resolve_case(original, runs) :
        LET level == [strength |-> Strength, verdict |-> r.verdict, runs |-> runs]
        IN /\ levels' = Append(levels, level)
           /\ Goto(IF Broke(level) \/ Len(levels) + 1 = Len(sweep)
                   THEN "report" ELSE "search")
  BY DEF ResolveLevel
<1> DEFINE level == [strength |-> Strength, verdict |-> r.verdict, runs |-> runs]
<1>2. /\ levels' = Append(levels, level)
      /\ pc' = (IF Broke(level) \/ Len(levels) + 1 = Len(sweep) THEN "report" ELSE "search")
      /\ exit' = exit
  BY <1>1 DEF Goto
<1>3. /\ pc = "search" /\ Len(runs) = Len(Inputs) /\ runs' = <<>>
      /\ UNCHANGED <<args, sweep, original, engineVars>>
  BY DEF ResolveLevel
<1>4. /\ TypeOK /\ Swept /\ InOrder /\ Called /\ Remembered /\ Calling
      /\ Len(levels) < Len(sweep) /\ ~ Found
  BY <1>3 DEF MinimizeInv, Swept, Calling
<1>5. /\ sweep \in Ascending(args.levels) /\ Len(levels) + 1 \in DOMAIN sweep
      /\ Strength \in Strengths /\ InProgress = {Strength}
      /\ Inputs \in Seq(PerturbedInput)
  BY <1>3, ProgressType
<1>6. r.verdict \in Verdict
  BY VerdictType DEF resolve_case
<1>7. level \in Level
  BY <1>4, <1>5, <1>6 DEF Level, TypeOK
<1>8. /\ levels \in Seq(Level) /\ levels' \in Seq(Level)
      /\ Len(levels) \in Nat /\ Len(levels') = Len(levels) + 1
      /\ \A i \in DOMAIN levels : levels'[i] = levels[i]
      /\ levels'[Len(levels) + 1] = level
      /\ DOMAIN levels' = DOMAIN levels \cup {Len(levels) + 1}
      /\ DOMAIN levels = 1..Len(levels)
  <2> HIDE DEF level
  <2> QED  BY <1>2, <1>4, <1>7 DEF TypeOK
<1>9. /\ level.strength = Strength /\ level.verdict = r.verdict /\ level.runs = runs
  OBVIOUS
<1> HIDE DEF level
<1>10. Found' <=> Broke(level)
  BY <1>4, <1>8 DEF Found
<1>11. TypeOK'
  <2>1. EngineTypeOK'
    BY <1>3, <1>4 DEF TypeOK, EngineTypeOK, engineVars
  <2>2. Len(sweep) \in Nat
    BY <1>4 DEF TypeOK
  <2> QED  BY <1>2, <1>3, <1>4, <1>8, <2>1, <2>2 DEF TypeOK
<1>12. Swept'
  <2>1. Len(sweep) \in Nat
    BY <1>4 DEF TypeOK
  <2>2. exit.why = "running"
    BY <1>3, <1>4 DEF Swept
  <2> QED  BY <1>2, <1>3, <1>4, <1>5, <1>8, <1>10, <2>1, <2>2 DEF Swept
<1>13. InOrder'
  <2>1. RunsOf(runs, Inputs) /\ Inputs = args.inputs[sweep[Len(levels) + 1]]
    BY <1>4 DEF InOrder, Inputs, Strength
  <2>2. ASSUME NEW i \in DOMAIN levels'
        PROVE  /\ levels'[i].strength = sweep[i]
               /\ levels'[i].verdict
                    \in { q.verdict : q \in resolve_case(original, levels'[i].runs) }
               /\ RunsOf(levels'[i].runs, args.inputs[sweep[i]])
               /\ Len(levels'[i].runs) = Len(args.inputs[sweep[i]])
               /\ Broke(levels'[i]) => i = Len(levels')
    <3>1. CASE i \in DOMAIN levels
      <4>1. levels'[i] = levels[i] /\ ~ Broke(levels[i])
        BY <1>4, <1>8, <3>1 DEF Found
      <4> QED  BY <1>4, <3>1, <4>1 DEF InOrder
    <3>2. CASE i = Len(levels) + 1
      BY <1>3, <1>8, <1>9, <2>1, <3>2 DEF Strength
    <3> QED  BY <1>8, <3>1, <3>2
  <2>3. Len(levels') < Len(sweep') => RunsOf(runs, Inputs)'
    <3> SUFFICES ASSUME Len(levels') < Len(sweep') PROVE RunsOf(runs, Inputs)'
      OBVIOUS
    <3>1. /\ sweep' \in Seq(Strengths) /\ args' \in Invocations
          /\ Len(levels') + 1 \in DOMAIN sweep'
      BY <1>8, <1>11 DEF TypeOK
    <3>2. Strength' \in Strengths
      BY <3>1 DEF Strength
    <3>3. Inputs' \in Seq(PerturbedInput)
      BY <3>1, <3>2, MinimizeAssumption DEF Inputs
    <3>4. Len(Inputs') \in Nat /\ Len(runs') = 0 /\ DOMAIN runs' = {}
      BY <1>3, <3>3
    <3> QED  BY <3>4 DEF RunsOf
  <2> QED  BY <1>3, <2>2, <2>3 DEF InOrder
<1>14. Called'
  <2>1. Tested' = Tested \cup {Strength}
    BY <1>8, <1>9 DEF Tested
  <2>2. \A q \in Prompts : Known(q) => Known(q)'
    <3>1. \A s : PromptsAt(s)' = PromptsAt(s)
      BY <1>3 DEF PromptsAt
    <3> QED  BY <1>5, <2>1, <3>1 DEF Known
  <2>3. calls' = calls /\ cache' = cache /\ pc' # "load"
    BY <1>2, <1>3 DEF engineVars
  <2> QED  BY <1>4, <2>2, <2>3 DEF Called
<1>15. Remembered'
  <2> SUFFICES ASSUME Temperature = 0
               PROVE  Answered(runs)' /\ \A i \in DOMAIN levels' : Answered(levels[i].runs)'
    BY DEF Remembered
  <2>1. cache' = cache /\ DOMAIN runs' = {}
    BY <1>3 DEF engineVars
  <2>2. Answered(runs) /\ \A i \in DOMAIN levels : Answered(levels[i].runs)
    BY <1>4 DEF Remembered
  <2>3. ASSUME NEW i \in DOMAIN levels' PROVE Answered(levels[i].runs)'
    <3>1. CASE i \in DOMAIN levels
      BY <1>8, <2>1, <2>2, <3>1 DEF Answered
    <3>2. CASE i = Len(levels) + 1
      BY <1>8, <1>9, <2>1, <2>2, <3>2 DEF Answered
    <3> QED  BY <1>8, <3>1, <3>2
  <2> QED  BY <2>1, <2>3 DEF Answered
<1> QED  BY <1>11, <1>12, <1>13, <1>14, <1>15 DEF MinimizeInv

LEMMA StutterKeeps == ASSUME MinimizeInv, UNCHANGED vars PROVE MinimizeInv'
BY DEF vars, engineVars, MinimizeInv, TypeOK, EngineTypeOK, Swept, InOrder, Called,
       Remembered, Answered, Known, Tested, InProgress, Found, Broke, PromptsAt,
       Strength, Inputs, RunsOf, Calling

LEMMA MinimizeStep == MinimizeInv /\ [Next]_vars => MinimizeInv'
<1> SUFFICES ASSUME MinimizeInv, [Next]_vars PROVE MinimizeInv'
  OBVIOUS
<1>1. CASE Load
  BY <1>1, LoadKeeps
<1>2. CASE LoadFails
  BY <1>2, ErrorKeeps DEF LoadFails, Calling
<1>3. CASE Baseline
  BY <1>3, BaselineKeeps
<1>4. CASE ExecutePerturbed
  BY <1>4, ExecutePerturbedKeeps
<1>5. CASE ExecutionFails
  BY <1>5, ExecutionFailsKeeps
<1>6. CASE JudgeFails
  BY <1>6, ErrorKeeps DEF JudgeFails, Calling
<1>7. CASE ResolveLevel
  BY <1>7, ResolveLevelKeeps
<1>8. CASE Report
  BY <1>8, ReportKeeps
<1>9. CASE UNCHANGED vars
  BY <1>9, StutterKeeps
<1> QED
  BY <1>1, <1>2, <1>3, <1>4, <1>5, <1>6, <1>7, <1>8, <1>9 DEF Next

LEMMA MinimizeInvariant == Spec => []MinimizeInv
BY InitMinimize, MinimizeStep, PTL DEF Spec
-----------------------------------------------------------------------------
(* Type correctness of the search: TypeOK, of cmd_minimize from the load   *)
(* of the spec to the report.                                              *)
THEOREM MinimizeTypeCorrect == Spec => []TypeOK
<1>1. MinimizeInv => TypeOK
  BY DEF MinimizeInv
<1> QED  BY <1>1, MinimizeInvariant, PTL

(* The levels resolved are a prefix of the sweep. *)
LEMMA PrefixOfSweep ==
  ASSUME MinimizeInv
  PROVE  /\ DOMAIN levels = 1..Len(levels) /\ Len(levels) \in Nat
         /\ DOMAIN sweep = 1..Len(sweep) /\ Len(sweep) \in Nat
         /\ DOMAIN levels \subseteq DOMAIN sweep
         /\ \A i \in DOMAIN levels :
              /\ levels[i].strength = sweep[i] /\ sweep[i] \in Strengths
              /\ levels[i].runs \in Seq(Run)
              /\ args.inputs[sweep[i]] \in Seq(PerturbedInput)
              /\ Len(levels[i].runs) <= MaxRuns
<1>1. /\ levels \in Seq(Level) /\ sweep \in Seq(Strengths) /\ args \in Invocations
      /\ Len(levels) <= Len(sweep)
  BY DEF MinimizeInv, TypeOK
<1>2. /\ DOMAIN levels = 1..Len(levels) /\ Len(levels) \in Nat
      /\ DOMAIN sweep = 1..Len(sweep) /\ Len(sweep) \in Nat
  BY <1>1
<1>3. ASSUME NEW i \in DOMAIN levels
      PROVE  /\ levels[i].strength = sweep[i] /\ sweep[i] \in Strengths
             /\ levels[i].runs \in Seq(Run)
             /\ args.inputs[sweep[i]] \in Seq(PerturbedInput)
             /\ Len(levels[i].runs) <= MaxRuns
  <2>1. levels[i] \in Level /\ sweep[i] \in Strengths
    BY <1>1, <1>2, <1>3
  <2>2. levels[i].runs \in Seq(Run)
    BY <2>1 DEF Level
  <2>3. levels[i].strength = sweep[i] /\ Len(levels[i].runs) = Len(args.inputs[sweep[i]])
    BY <1>3 DEF MinimizeInv, InOrder
  <2>4. args.inputs[sweep[i]] \in Seq(PerturbedInput) /\ Len(args.inputs[sweep[i]]) <= MaxRuns
    BY <1>1, <2>1, ArgsType
  <2> QED  BY <2>1, <2>2, <2>3, <2>4
<1> QED  BY <1>1, <1>2, <1>3

(* "The reported strength is genuinely minimal among the tested levels"    *)
(* (cli/minimize.py), and no call is made that the search does not need:   *)
(* MinimalAmongTested, for every grid, every inputs and every answers.     *)
THEOREM FalsifierIsMinimal == Spec => []MinimalAmongTested
<1>1. ASSUME MinimizeInv PROVE MinimalAmongTested
  <2>1. /\ TypeOK /\ Swept /\ InOrder /\ Called
    BY <1>1 DEF MinimizeInv
  <2>2. /\ DOMAIN levels = 1..Len(levels) /\ Len(levels) \in Nat
        /\ DOMAIN sweep = 1..Len(sweep) /\ Len(sweep) \in Nat
        /\ DOMAIN levels \subseteq DOMAIN sweep
        /\ \A i \in DOMAIN levels :
             /\ levels[i].strength = sweep[i] /\ sweep[i] \in Strengths
             /\ levels[i].runs \in Seq(Run)
             /\ args.inputs[sweep[i]] \in Seq(PerturbedInput)
    BY <1>1, PrefixOfSweep
  <2>3. ASSUME levels # <<>> \/ exit.why = "report"
        PROVE  /\ \A i, j \in DOMAIN sweep : i < j => sweep[i] <= sweep[j]
               /\ \A g \in DOMAIN args.levels :
                    \E j \in DOMAIN sweep : sweep[j] = args.levels[g]
    <3>1. sweep \in Ascending(args.levels) /\ args \in Invocations
      BY <2>1, <2>3 DEF Swept, TypeOK
    <3> QED  BY <3>1, SweepType
  <2>4. ASSUME NEW i \in DOMAIN levels
        PROVE  [ k \in DOMAIN levels[i].runs |-> levels[i].runs[k].prompt ]
                 = [ k \in DOMAIN args.inputs[levels[i].strength] |->
                       args.inputs[levels[i].strength][k].prompt ]
    <3>1. /\ RunsOf(levels[i].runs, args.inputs[sweep[i]])
          /\ Len(levels[i].runs) = Len(args.inputs[sweep[i]])
      BY <2>1, <2>4 DEF InOrder
    <3>2. DOMAIN levels[i].runs = DOMAIN args.inputs[sweep[i]]
      BY <2>2, <2>4, <3>1
    <3> QED  BY <2>2, <2>4, <3>1, <3>2 DEF RunsOf
  <2>5. ASSUME NEW i \in DOMAIN levels, Broke(levels[i]), NEW g \in DOMAIN args.levels,
               args.levels[g] < levels[i].strength
        PROVE  args.levels[g] \in Tested
    <3>1. levels # <<>>
      BY <2>2, <2>5
    <3>2. PICK j \in DOMAIN sweep : sweep[j] = args.levels[g]
      BY <2>3, <3>1
    <3>3. sweep[j] \in Nat /\ sweep[i] \in Nat /\ sweep[j] < sweep[i]
      BY <2>1, <2>2, <2>5, <3>2, MinimizeAssumption DEF TypeOK
    <3>4. i \in DOMAIN sweep /\ i # j
      BY <2>2, <3>3
    <3>5. j < i
      BY <2>2, <2>3, <3>1, <3>3, <3>4
    <3>6. j \in DOMAIN levels
      BY <2>2, <3>5
    <3> QED  BY <2>2, <3>2, <3>6 DEF Tested
  <2>6. ASSUME exit.why = "report", ~ Found, NEW g \in DOMAIN args.levels
        PROVE  args.levels[g] \in Tested
    <3>1. Len(levels) = Len(sweep)
      BY <2>1, <2>6 DEF Swept
    <3>2. PICK j \in DOMAIN sweep : sweep[j] = args.levels[g]
      BY <2>3, <2>6
    <3>3. j \in DOMAIN levels
      BY <2>2, <3>1
    <3> QED  BY <2>2, <3>2, <3>3 DEF Tested
  <2>7. \A i \in DOMAIN levels :
          /\ levels[i].verdict
               \in { r.verdict : r \in resolve_case(original, levels[i].runs) }
          /\ Broke(levels[i]) => i = Len(levels)
    BY <2>1 DEF InOrder
  <2>8. \A p \in Prompts :
          /\ calls[p] > 0 => Known(p)
          /\ Temperature = 0 => calls[p] <= 1
    BY <2>1 DEF Called
  <2> DEFINE Sends(i) ==
               [ k \in DOMAIN levels[i].runs |-> levels[i].runs[k].prompt ]
                 = [ k \in DOMAIN args.inputs[levels[i].strength] |->
                       args.inputs[levels[i].strength][k].prompt ]
             Resolved(i) ==
               /\ levels[i].verdict
                    \in { r.verdict : r \in resolve_case(original, levels[i].runs) }
               /\ Sends(i)
               /\ Broke(levels[i]) =>
                    /\ i = Len(levels)
                    /\ \A g \in DOMAIN args.levels :
                         args.levels[g] < levels[i].strength => args.levels[g] \in Tested
  <2>9. \A i \in DOMAIN levels : Sends(i)
    BY <2>4
  <2>10. ASSUME NEW i \in DOMAIN levels PROVE Resolved(i)
    <3>1. Sends(i)
      BY <2>9
    <3> HIDE DEF Sends
    <3> QED  BY <2>5, <2>7, <3>1
  <2>11. \A i \in DOMAIN levels : Resolved(i)
    BY <2>10
  <2>12. exit.why = "report" /\ ~ Found =>
           \A g \in DOMAIN args.levels : args.levels[g] \in Tested
    BY <2>6
  <2>13. \A p \in Prompts :
           /\ calls[p] > 0 => \/ p = Original
                              \/ \E s \in Tested \cup InProgress : p \in PromptsAt(s)
           /\ Temperature = 0 => calls[p] <= 1
    BY <2>8 DEF Known
  <2> QED  BY <2>11, <2>12, <2>13, Zenon DEF MinimalAmongTested
<1> QED  BY <1>1, MinimizeInvariant, PTL

-----------------------------------------------------------------------------
(* When one failure breaks, every run of a STABLE level passed. *)
LEMMA StableMeansAllPassed ==
  ASSUME OneFailureBreaks, NEW rs \in Seq(Run), Len(rs) <= MaxRuns,
         NEW r \in resolve_case(original, rs), r.verdict = "STABLE",
         NEW m \in DOMAIN rs
  PROVE  RunPassed(original, rs[m])
<1> DEFINE f == rs[m].family
           T == Stratum(rs, f)
           P == { i \in T : RunPassed(original, rs[i]) }
           s == stratify_by_family(original, rs)[f]
<1>1. PICK cis \in Intervals(original, rs) : r.verdict = decide_verdict(original, rs, cis)
  BY DEF resolve_case
<1>2. f \in FamiliesOf(rs)
  BY DEF FamiliesOf
<1>3. StableBar <= Lo(cis, f)
  <2>1. decide_verdict(original, rs, cis) \in Success \cup {"INSUFFICIENT"}
    BY <1>1 DEF Success
  <2> QED  BY <1>2, <2>1, GoodCaseHeld
<1>4. s.n \in 1..MaxRuns /\ s.k \in 0..s.n
  BY <1>2, StratumSize
<1>5. cis[f] \in BootstrapCI(s.n, s.k)
  BY <1>2 DEF Intervals
<1>6. s = [n |-> Cardinality(T), k |-> Cardinality(P)]
  BY <1>2 DEF stratify_by_family
<1>7. cis \in [FamiliesOf(rs) -> Interval]
  BY IntervalsType
<1>8. IsFiniteSet(T)
  <2>1. DOMAIN rs = 1..Len(rs) /\ Len(rs) \in Nat
    OBVIOUS
  <2>2. 1 \in Int /\ Len(rs) \in Int
    BY <2>1
  <2>3. IsFiniteSet(1..Len(rs))
    BY <2>2, FS_Interval, Zenon
  <2>4. T \subseteq 1..Len(rs)
    BY <2>1 DEF Stratum
  <2> QED  BY <2>3, <2>4, FS_Subset
<1>9. m \in T
  BY DEF Stratum
<1> HIDE DEF f, T, s
<1>10. Cardinality(P) = Cardinality(T)
  <2>1. cis[f][1] \in 0..Scale
    BY <1>2, <1>7 DEF Interval
  <2>2. ~ (cis[f][1] < StableBar)
    BY <1>3, <2>1, ResolverAssumption DEF Lo
  <2>3. ~ (s.k \in 0..(s.n - 1))
    BY <1>4, <1>5, <2>2 DEF OneFailureBreaks
  <2>4. MaxRuns \in Nat
    BY ResolverAssumption
  <2>5. s.k = s.n
    BY <1>4, <2>3, <2>4
  <2> QED  BY <1>6, <2>5
<1>11. P = T
  <2>1. P \in SUBSET T
    OBVIOUS
  <2> QED  BY <1>8, <1>10, <2>1, FS_Subset
<1> QED  BY <1>9, <1>11

(* At temperature zero an input that fails at the level that broke sends a *)
(* text that no weaker level sent (BreakIsNew): the cache gives one answer *)
(* to one prompt, and a level at which it had failed would not be STABLE.  *)
THEOREM FalsifierIsNew == Spec => []BreakIsNew
<1>1. ASSUME MinimizeInv PROVE BreakIsNew
  <2> SUFFICES ASSUME Temperature = 0, OneFailureBreaks,
                      NEW i \in DOMAIN levels, NEW j \in DOMAIN levels, i < j,
                      NEW k \in DOMAIN levels[j].runs,
                      levels[j].runs[k].prompt \in Sent(i)
               PROVE  RunPassed(original, levels[j].runs[k])
    BY DEF BreakIsNew
  <2>1. PICK m \in DOMAIN levels[i].runs :
          levels[i].runs[m].prompt = levels[j].runs[k].prompt
    BY DEF Sent
  <2>2. levels[i].runs[m].output = levels[j].runs[k].output
    <3>1. Answered(levels[i].runs) /\ Answered(levels[j].runs)
      BY <1>1 DEF MinimizeInv, Remembered
    <3> QED  BY <2>1, <3>1 DEF Answered
  <2>3. levels[i].runs \in Seq(Run) /\ Len(levels[i].runs) <= MaxRuns
    BY <1>1, PrefixOfSweep
  <2>4. levels[i].verdict = "STABLE"
    <3>1. DOMAIN levels = 1..Len(levels) /\ Len(levels) \in Nat
      BY <1>1, PrefixOfSweep
    <3>2. i # Len(levels)
      BY <3>1
    <3>3. Broke(levels[i]) => i = Len(levels)
      BY <1>1 DEF MinimizeInv, InOrder
    <3> QED  BY <3>2, <3>3 DEF Broke
  <2>5. PICK r \in resolve_case(original, levels[i].runs) : r.verdict = "STABLE"
    <3>1. levels[i].verdict \in { r.verdict : r \in resolve_case(original, levels[i].runs) }
      BY <1>1 DEF MinimizeInv, InOrder
    <3> QED  BY <2>4, <3>1
  <2>6. RunPassed(original, levels[i].runs[m])
    BY <2>3, <2>5, StableMeansAllPassed
  <2> QED  BY <2>2, <2>6 DEF RunPassed
<1> QED  BY <1>1, MinimizeInvariant, PTL
=============================================================================
