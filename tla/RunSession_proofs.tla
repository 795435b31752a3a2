-------------------------- MODULE RunSession_proofs --------------------------
(***************************************************************************)
(* Safety of falsifyai run, for every spec, model, store history and       *)
(* bootstrap that the assumptions of Resolver, ExecutionEngine and         *)
(* RunSession allow.                                                       *)
(***************************************************************************)
EXTENDS RunSession, Resolver_proofs

-----------------------------------------------------------------------------
(* What is realized *)

(* A case is realized as a list of inputs no longer than what it asks for. *)
LEMMA RealizableType ==
  ASSUME NEW c \in Cases, NEW r \in Realizable(c)
  PROVE  r \in Seq(PerturbedInput) /\ Len(r) <= MaxRuns
<1>1. /\ Slots[c] \in Seq(Slot) /\ Len(Slots[c]) <= MaxRuns
      /\ DOMAIN Slots[c] = 1..Len(Slots[c]) /\ Len(Slots[c]) \in Nat
      /\ MaxRuns \in Nat
  BY RealizationAssumption, RunSessionAssumption, ResolverAssumption, LenProperties
<1>2. PICK kept \in SUBSET (DOMAIN Slots[c]) : r \in [1..Cardinality(kept) -> Asked(c)]
  BY DEF Realizable, Keepable, Filled
<1>3. /\ Cardinality(kept) \in Nat
      /\ Cardinality(kept) <= Len(Slots[c])
  <2>1. /\ IsFiniteSet(1..Len(Slots[c]))
        /\ Cardinality(1..Len(Slots[c])) = Len(Slots[c])
    <3>1. 1 \in Int /\ Len(Slots[c]) \in Int
      BY <1>1
    <3>2. /\ IsFiniteSet(1..Len(Slots[c]))
          /\ Cardinality(1..Len(Slots[c]))
               = IF 1 > Len(Slots[c]) THEN 0 ELSE Len(Slots[c]) - 1 + 1
      BY <3>1, FS_Interval, Zenon
    <3> QED
      BY <1>1, <3>2
  <2> QED
    BY <1>1, <2>1, FS_Subset, FS_CardinalityType
<1>4. \A s \in DOMAIN Slots[c] : Slots[c][s] \in Slot
  BY <1>1, ElementOfSeq
<1>5. Asked(c) \subseteq PerturbedInput
  BY <1>4 DEF Asked, Slot, PerturbedInput
<1> QED
  BY <1>1, <1>2, <1>3, <1>5

-----------------------------------------------------------------------------
(* The results *)

(* A case result has its type and carries the evidence it was built from. *)
LEMMA ResultType ==
  ASSUME NEW out \in Outputs, NEW rs \in Seq(Run), Len(rs) <= MaxRuns,
         NEW r \in resolve_case(out, rs)
  PROVE  IsCaseResult(r) /\ r \in resolve_case(r.original, r.runs)
<1>1. PICK cis \in Intervals(out, rs) :
        r = [ original |-> out, runs |-> rs, cis |-> cis,
              verdict |-> decide_verdict(out, rs, cis) ]
  BY DEF resolve_case
<1>2. cis \in [FamiliesOf(rs) -> CI]
  BY IntervalsType DEF CI, Interval
<1>3. decide_verdict(out, rs, cis) \in Verdict
  BY VerdictType
<1> QED
  BY <1>1, <1>2, <1>3 DEF IsCaseResult

(* The results of a session after one more case. *)
LEMMA AppendResult ==
  ASSUME NEW rs, AreResults(rs), NEW r, IsCaseResult(r)
  PROVE  /\ AreResults(Append(rs, r))
         /\ DOMAIN rs = 1..Len(rs) /\ Len(rs) \in Nat
         /\ Len(Append(rs, r)) = Len(rs) + 1
         /\ DOMAIN Append(rs, r) = 1..(Len(rs) + 1)
         /\ \A i \in 1..Len(rs) : Append(rs, r)[i] = rs[i]
         /\ Append(rs, r)[Len(rs) + 1] = r
<1> DEFINE T == { rs[i] : i \in DOMAIN rs } \cup {r}
           as == Append(rs, r)
<1>1. rs \in Seq(T) /\ r \in T
  BY SeqMonotonic DEF AreResults
<1> HIDE DEF T
<1>2. /\ as \in Seq(T)
      /\ DOMAIN rs = 1..Len(rs) /\ Len(rs) \in Nat
      /\ Len(as) = Len(rs) + 1
      /\ DOMAIN as = 1..(Len(rs) + 1)
      /\ \A i \in 1..Len(rs) : as[i] = rs[i]
      /\ as[Len(rs) + 1] = r
  BY <1>1, LenProperties
<1> HIDE DEF as
<1>3. as \in Seq({ as[i] : i \in DOMAIN as })
  <2> DEFINE U == { as[i] : i \in DOMAIN as }
  <2>1. \A i \in 1..Len(as) : as[i] \in U
    BY <1>2
  <2>2. as \in [1..Len(as) -> T] /\ Len(as) \in Nat
    BY <1>2, LenProperties
  <2> HIDE DEF U
  <2>3. as \in [1..Len(as) -> U]
    BY <2>1, <2>2
  <2>4. as \in Seq(U)
    BY <2>2, <2>3, SeqDef, Zenon
  <2> QED
    BY <2>4 DEF U
<1>4. \A i \in DOMAIN as : IsCaseResult(as[i])
  <2>1. ASSUME NEW i \in 1..Len(rs) PROVE IsCaseResult(as[i])
    BY <1>2, <2>1 DEF AreResults
  <2>2. ASSUME NEW i \in DOMAIN as PROVE i \in 1..Len(rs) \/ i = Len(rs) + 1
    BY <1>2, <2>2
  <2> QED
    BY <1>2, <2>1, <2>2
<1> QED
  BY <1>2, <1>3, <1>4 DEF AreResults, as

-----------------------------------------------------------------------------
(* Types *)

(* What the types rest on: how far the loops over the cases and their      *)
(* inputs have come.                                                       *)
Progress ==
  /\ \A c \in Cases : Len(realized[c]) <= MaxRuns
  /\ pc \in {"load", "materialize"} => results = <<>> /\ runs = <<>>
  /\ pc = "execute" => /\ Len(results) < NumCases
                       /\ Len(runs) <= Len(realized[Case])
  /\ pc \in {"rollup", "open", "save", "render"} => Len(results) = NumCases
  /\ pc \in {"open", "save", "render"} => verdict \in Verdict

TypeInv == TypeOK /\ Progress

(* A call keeps the types of the cache and of the counts. *)
LEMMA EngineStep ==
  ASSUME EngineTypeOK, NEW p \in Prompts, NEW out \in Outputs,
         execute(p, out) \/ execute_raises(p)
  PROVE  EngineTypeOK'
<1>1. CASE Hit(p, out)
  BY <1>1 DEF Hit, EngineTypeOK, engineVars
<1>2. CASE Miss(p, out)
  BY <1>2 DEF Miss, EngineTypeOK
<1>3. CASE execute_raises(p)
  BY <1>3 DEF execute_raises, EngineTypeOK
<1> QED
  BY <1>1, <1>2, <1>3 DEF execute

(* The case in progress is one of the spec's, with perturbed inputs.       *)
LEMMA CaseInProgress ==
  ASSUME TypeInv, pc = "execute"
  PROVE  /\ Len(results) \in Nat /\ Case \in Cases
         /\ Len(runs) \in Nat /\ Len(runs) <= MaxRuns
         /\ realized[Case] \in Seq(PerturbedInput)
         /\ Len(realized[Case]) \in Nat /\ Len(realized[Case]) <= MaxRuns
         /\ Original[Case] \in Prompts
         /\ Len(runs) < Len(realized[Case]) => NextInput \in PerturbedInput
<1>1. Len(results) \in Nat /\ Len(runs) \in Nat
  BY LenProperties DEF TypeInv, TypeOK, AreResults
<1>2. Case \in Cases
  BY <1>1, RealizationAssumption, RunSessionAssumption DEF TypeInv, Progress, Case, Cases
<1>3. /\ realized[Case] \in Seq(PerturbedInput)
      /\ Len(realized[Case]) \in Nat /\ Len(realized[Case]) <= MaxRuns
  BY <1>2, LenProperties DEF TypeInv, TypeOK, Progress
<1>4. Len(runs) <= Len(realized[Case])
  BY DEF TypeInv, Progress
<1>5. Original[Case] \in Prompts
  BY <1>2, RealizationAssumption, RunSessionAssumption
<1>6. Len(runs) < Len(realized[Case]) => NextInput \in PerturbedInput
  BY <1>1, <1>3, ElementOfSeq DEF NextInput
<1> QED
  BY <1>1, <1>2, <1>3, <1>4, <1>5, <1>6, ResolverAssumption

(* The initial state has the types. *)
LEMMA InitTypes == Init => TypeInv
<1> SUFFICES ASSUME Init PROVE TypeInv
  OBVIOUS
<1>1. EngineTypeOK
  BY DEF Init, EngineInit, EngineTypeOK
<1>2. realized \in [Cases -> Seq(PerturbedInput)] /\ \A c \in Cases : realized[c] = <<>>
  BY DEF Init, Unrealized
<1>3. AreResults(results) /\ runs \in Seq(Run)
  BY DEF Init, AreResults
<1>4. TypeOK
  BY <1>1, <1>2, <1>3 DEF Init, TypeOK, Ended, Exit, NoExit, ExitCodes
<1>5. Progress
  BY <1>2, ResolverAssumption DEF Init, Progress
<1> QED
  BY <1>4, <1>5 DEF TypeInv

(* The roll-up of the results so far is a verdict. *)
LEMMA SessionVerdictType == resolve_session(CaseVerdicts(results)) \in Verdict
  BY SessionType

(* Every status is one of the documented codes. *)
LEMMA StatusType ==
  ASSUME NEW v
  PROVE  exit_code_for(v) \in ExitCodes
  BY DEF exit_code_for, ExitCodes

(* Every step keeps the types and the progress of the loops. *)
LEMMA StepKeepsTypes == TypeInv /\ [Next]_vars => TypeInv'
<1> SUFFICES ASSUME TypeInv, [Next]_vars PROVE TypeInv'
  OBVIOUS
<1> USE DEF Goto, ErrorExit, Traceback, ExitWith, caseVars
<1>0. CASE UNCHANGED vars
  BY <1>0 DEF vars, engineVars, TypeInv, TypeOK, EngineTypeOK, Progress, Case
<1>1. CASE Start
  <2>1. EngineTypeOK'
    BY <1>1 DEF Start, EngineReset, EngineTypeOK
  <2>2. /\ realized' \in [Cases -> Seq(PerturbedInput)] /\ \A c \in Cases : realized'[c] = <<>>
        /\ AreResults(results') /\ runs' \in Seq(Run)
        /\ results' = <<>> /\ runs' = <<>>
    BY <1>1 DEF Start, Unrealized, AreResults
  <2>3. /\ pc' = "load" /\ sid' = sid + 1 /\ original' = NoOutput
        /\ verdict' = "none" /\ exit' = NoExit /\ store' = store
    BY <1>1 DEF Start
  <2>4. TypeOK'
    BY <2>1, <2>2, <2>3 DEF TypeInv, TypeOK, Steps, Exit, NoExit, ExitCodes
  <2>5. Progress'
    BY <2>2, <2>3, ResolverAssumption DEF Progress
  <2> QED
    BY <2>4, <2>5 DEF TypeInv
<1>2. ASSUME /\ UNCHANGED <<sid, caseVars, verdict, store, engineVars>>
             /\ \/ pc' \in Ended \cup {pc} /\ exit' \in Exit
                \/ pc = "load" /\ pc' = "materialize" /\ UNCHANGED exit
                \/ pc = "open" /\ pc' = "save" /\ UNCHANGED exit
      PROVE  TypeInv'
  <2>1. TypeOK'
    BY <1>2 DEF TypeInv, TypeOK, EngineTypeOK, engineVars, Steps, Ended
  <2>2. Progress'
    BY <1>2 DEF TypeInv, Progress, Case, Ended
  <2> QED
    BY <2>1, <2>2 DEF TypeInv
<1>3. CASE LoadSpec \/ OpenStore
  BY <1>2, <1>3 DEF LoadSpec, OpenStore, Exit, ExitCodes, TracebackCode, Ended
<1>4. CASE LoadSpecFails \/ MaterializeFails \/ JudgeFails \/ SaveFails \/ RenderFails
  BY <1>2, <1>4 DEF LoadSpecFails, MaterializeFails, JudgeFails, SaveFails,
       RenderFails, Exit, ExitCodes, ErrorCode, TracebackCode, Ended
<1>5. CASE Render
  BY <1>2, <1>5, StatusType DEF Render, Exit, Ended
<1>6. CASE Kill
  <2>1. exit \in Exit
    BY DEF TypeInv, TypeOK
  <2> QED
    BY <1>2, <1>6, <2>1 DEF Kill, Ended
<1>7. CASE Materialize
  <2>1. /\ realized' \in [Cases -> Seq(PerturbedInput)]
        /\ \A c \in Cases : Len(realized'[c]) <= MaxRuns
        /\ \A c \in Cases : Len(realized'[c]) \in Nat
    BY <1>7, RealizableType, LenProperties DEF Materialize
  <2>2. TypeOK'
    BY <1>7, <2>1 DEF Materialize, TypeInv, TypeOK, EngineTypeOK, engineVars, Steps
  <2>3. pc' = "execute" /\ results' = <<>> /\ runs' = <<>>
    BY <1>7 DEF Materialize, TypeInv, Progress
  <2>4. Case' = 1 /\ 1 \in Cases
    BY <2>3, RealizationAssumption, RunSessionAssumption DEF Case, Cases
  <2>5. Progress'
    BY <2>1, <2>3, <2>4, RealizationAssumption, RunSessionAssumption DEF Progress
  <2> QED
    BY <2>2, <2>5 DEF TypeInv
<1>8. CASE ExecuteOriginal
  <2>1. EngineTypeOK'
    BY <1>8, EngineStep, CaseInProgress DEF ExecuteOriginal, TypeInv, TypeOK
  <2>2. TypeOK'
    BY <1>8, <2>1 DEF ExecuteOriginal, TypeInv, TypeOK
  <2>3. Progress'
    BY <1>8 DEF ExecuteOriginal, TypeInv, Progress, Case
  <2> QED
    BY <2>2, <2>3 DEF TypeInv
<1>9. CASE ExecutePerturbed
  <2>1. NextInput \in PerturbedInput /\ Len(runs) \in Nat /\ Len(realized[Case]) \in Nat
    BY <1>9, CaseInProgress DEF ExecutePerturbed
  <2>2. NextInput.prompt \in Prompts /\ NextInput.family \in Families
    BY <2>1 DEF PerturbedInput
  <2>3. PICK out \in Outputs :
          /\ execute(NextInput.prompt, out)
          /\ runs' = Append(runs, [ family |-> NextInput.family,
                                    prompt |-> NextInput.prompt,
                                    output |-> out ])
    BY <1>9 DEF ExecutePerturbed
  <2>4. EngineTypeOK'
    BY <2>2, <2>3, EngineStep DEF TypeInv, TypeOK
  <2>5. runs' \in Seq(Run) /\ Len(runs') = Len(runs) + 1
    <3>1. [ family |-> NextInput.family, prompt |-> NextInput.prompt,
            output |-> out ] \in Run
      BY <2>2 DEF Run
    <3>2. runs \in Seq(Run)
      BY DEF TypeInv, TypeOK
    <3> HIDE DEF Run
    <3> QED
      BY <2>3, <3>1, <3>2
  <2>6. TypeOK'
    BY <1>9, <2>4, <2>5 DEF ExecutePerturbed, TypeInv, TypeOK
  <2>7. Progress'
    BY <1>9, <2>1, <2>5 DEF ExecutePerturbed, TypeInv, Progress, Case
  <2> QED
    BY <2>6, <2>7 DEF TypeInv
<1>10. CASE ExecutionFails
  <2>1. \E p \in Prompts : execute_raises(p)
    BY <1>10, CaseInProgress DEF ExecutionFails, PerturbedInput
  <2>2. EngineTypeOK'
    BY <2>1 DEF TypeInv, TypeOK, execute_raises, EngineTypeOK
  <2>3. TypeOK'
    BY <1>10, <2>2 DEF ExecutionFails, TypeInv, TypeOK, Ended, Exit, ExitCodes,
         ErrorCode
  <2>4. Progress'
    BY <1>10 DEF ExecutionFails, TypeInv, Progress
  <2> QED
    BY <2>3, <2>4 DEF TypeInv
<1>11. CASE ResolveCase
  <2>1. PICK r \in resolve_case(original, runs) : results' = Append(results, r)
    BY <1>11 DEF ResolveCase
  <2>2. /\ original \in Outputs /\ runs \in Seq(Run) /\ Len(runs) <= MaxRuns
        /\ Case \in Cases /\ Len(results) \in Nat
    BY <1>11, CaseInProgress DEF ResolveCase, TypeInv, TypeOK
  <2>3. IsCaseResult(r)
    BY <2>2, ResultType
  <2>4. AreResults(results') /\ Len(results') = Case
    BY <2>1, <2>3, AppendResult DEF TypeInv, TypeOK, Case
  <2>5. TypeOK'
    BY <1>11, <2>4 DEF ResolveCase, TypeInv, TypeOK, EngineTypeOK, engineVars, Steps
  <2>6. /\ runs' = <<>> /\ realized' = realized
        /\ pc' = IF Case = NumCases THEN "rollup" ELSE "execute"
    BY <1>11 DEF ResolveCase
  <2>7. CASE Case # NumCases
    <3>1. Case \in Nat /\ Case < NumCases
      BY <2>2, <2>7, RealizationAssumption, RunSessionAssumption DEF Cases
    <3>2. Case' = Case + 1
      BY <2>4 DEF Case
    <3>3. Case' \in Cases
      BY <3>1, <3>2, RealizationAssumption, RunSessionAssumption DEF Cases
    <3>4. realized'[Case'] \in Seq(PerturbedInput)
      BY <2>6, <3>3 DEF TypeInv, TypeOK
    <3>5. Len(realized'[Case']) \in Nat /\ Len(runs') = 0
      BY <2>6, <3>4, LenProperties
    <3>6. Len(runs') <= Len(realized'[Case'])
      BY <3>5
    <3>7. Progress'
      BY <2>4, <2>6, <2>7, <3>1, <3>6 DEF TypeInv, Progress
    <3> QED
      BY <2>5, <3>7 DEF TypeInv
  <2>8. CASE Case = NumCases
    <3>1. Progress'
      BY <2>4, <2>6, <2>8 DEF TypeInv, Progress
    <3> QED
      BY <2>5, <3>1 DEF TypeInv
  <2> QED
    BY <2>7, <2>8
<1>12. CASE RollUp
  <2>1. verdict' \in Verdict
    BY <1>12, SessionVerdictType DEF RollUp
  <2>2. TypeOK'
    BY <1>12, <2>1 DEF RollUp, TypeInv, TypeOK, EngineTypeOK, engineVars, Steps
  <2>3. Progress'
    BY <1>12, <2>1 DEF RollUp, TypeInv, Progress
  <2> QED
    BY <2>2, <2>3 DEF TypeInv
<1>13. CASE SaveSession
  <2> DEFINE new == [ id |-> sid, realized |-> realized, results |-> results,
                      verdict |-> verdict ]
  <2>1. IsArtifact(new)
    BY <1>13 DEF SaveSession, TypeInv, TypeOK, Progress, IsArtifact
  <2>2. \A a \in store' : IsArtifact(a)
    BY <1>13, <2>1 DEF SaveSession, TypeInv, TypeOK
  <2>3. TypeOK'
    BY <1>13, <2>2 DEF SaveSession, TypeInv, TypeOK, EngineTypeOK, engineVars, Steps
  <2>4. Progress'
    BY <1>13 DEF SaveSession, TypeInv, Progress
  <2> QED
    BY <2>3, <2>4 DEF TypeInv
<1> QED
  BY <1>0, <1>1, <1>3, <1>4, <1>5, <1>6, <1>7, <1>8, <1>9, <1>10, <1>11, <1>12,
     <1>13 DEF Next, Work

(* The types and the progress of the loops hold in every reachable state. *)
THEOREM TypesHold == Spec => []TypeInv
  BY InitTypes, StepKeepsTypes, PTL DEF Spec

(* Every variable of the run has its type in every reachable state. *)
THEOREM TypeCorrect == Spec => []TypeOK
  BY TypesHold, PTL DEF TypeInv

-----------------------------------------------------------------------------
(* Evidence, verdicts and the store *)

(* What the session's results are, while it runs and after. *)
Judged ==
  /\ \A c \in DOMAIN results : Evident(results[c], realized[c])
  /\ pc = "execute" =>
       \A i \in DOMAIN runs : /\ runs[i].family = realized[Case][i].family
                              /\ runs[i].prompt = realized[Case][i].prompt

(* What the verdict and the status are, once they are there. *)
RolledUp ==
  /\ pc \in {"open", "save", "render"} \/ Concluded =>
       /\ Len(results) = NumCases
       /\ verdict = resolve_session(CaseVerdicts(results))
  /\ exit.why # "running" => pc = "exited"
  /\ Concluded => exit.code = exit_code_for(verdict)

ThisSession ==
  [id |-> sid, realized |-> realized, results |-> results, verdict |-> verdict]

(* When the session is in the store. *)
Filed ==
  /\ \A a \in store : a.id <= sid
  /\ pc \in Steps \ {"render"} \/ exit.why = "error" => \A a \in store : a.id # sid
  /\ pc = "render" \/ Concluded => ThisSession \in store
  /\ \A a \in store : a.id = sid => a = ThisSession

(* The inductive invariant. *)
SafetyInv == TypeInv /\ Judged /\ RolledUp /\ Filed /\ StoredSessionsAreWhole

(* The initial state satisfies the invariant. *)
LEMMA InitSafe == Init => SafetyInv
<1> SUFFICES ASSUME Init PROVE SafetyInv
  OBVIOUS
<1>1. TypeInv
  BY InitTypes
<1>2. Judged /\ RolledUp /\ Filed /\ StoredSessionsAreWhole
  BY DEF Init, NoExit, Judged, RolledUp, Concluded, Filed, Steps,
     StoredSessionsAreWhole
<1> QED
  BY <1>1, <1>2 DEF SafetyInv

(* A step that leaves the evidence, the verdict and the store alone keeps  *)
(* the invariant when it moves the command in one of these ways.           *)
Quiet ==
  /\ UNCHANGED <<sid, caseVars, verdict, store>>
  /\ \/ UNCHANGED <<pc, exit>>
     \/ UNCHANGED exit /\ <<pc, pc'>> \in { <<"load", "materialize">>,
                                           <<"open", "save">> }
     \/ UNCHANGED exit /\ pc \in Steps /\ pc' = "killed"
     \/ pc \in Steps /\ pc' = "exited" /\ exit'.why = "traceback"
     \/ pc \in Steps \ {"render"} /\ pc' = "exited" /\ exit'.why = "error"
     \/ /\ pc = "render" /\ pc' = "exited"
        /\ exit' = [code |-> exit_code_for(verdict), why |-> "verdict"]

(* Quiet steps keep the invariant. *)
LEMMA QuietIsSafe ==
  ASSUME SafetyInv, TypeInv', Quiet
  PROVE  SafetyInv'
<1> USE DEF caseVars
<1>1. Judged'
  BY DEF SafetyInv, Quiet, Judged, Case
<1>2. StoredSessionsAreWhole'
  BY DEF SafetyInv, Quiet, StoredSessionsAreWhole
<1>3. RolledUp'
  BY DEF SafetyInv, Quiet, RolledUp, Concluded, CaseVerdicts, Steps
<1>4. Filed'
  BY DEF SafetyInv, Quiet, Filed, ThisSession, Concluded, Steps, RolledUp
<1> QED
  BY <1>1, <1>2, <1>3, <1>4 DEF SafetyInv

(* Every step keeps the invariant. *)
LEMMA StepIsSafe == SafetyInv /\ [Next]_vars => SafetyInv'
<1> SUFFICES ASSUME SafetyInv, [Next]_vars PROVE SafetyInv'
  OBVIOUS
<1>t. TypeInv /\ TypeInv'
  BY StepKeepsTypes DEF SafetyInv
<1> USE DEF Goto, ErrorExit, Traceback, ExitWith, caseVars
<1>r. pc \in Steps => exit.why = "running"
  BY DEF SafetyInv, RolledUp, Steps
<1>0. CASE UNCHANGED vars
  BY <1>t, <1>0, QuietIsSafe DEF vars, Quiet
<1>1. CASE Start
  <2>1. /\ results' = <<>> /\ pc' = "load" /\ exit' = NoExit
        /\ sid' = sid + 1 /\ store' = store
    BY <1>1 DEF Start
  <2>2. Judged' /\ RolledUp'
    BY <2>1 DEF Judged, RolledUp, Concluded, NoExit
  <2>3. \A a \in store : a.id \in Nat /\ a.id <= sid /\ sid \in Nat
    BY DEF SafetyInv, Filed, TypeInv, TypeOK, IsArtifact
  <2>4. Filed'
    BY <2>1, <2>3 DEF Filed, Concluded, NoExit
  <2>5. StoredSessionsAreWhole'
    BY <2>1 DEF SafetyInv, StoredSessionsAreWhole
  <2> QED
    BY <1>t, <2>2, <2>4, <2>5 DEF SafetyInv
<1>2. CASE LoadSpec \/ OpenStore
  BY <1>t, <1>2, QuietIsSafe DEF LoadSpec, OpenStore, Quiet, Steps
<1>3. CASE LoadSpecFails \/ MaterializeFails \/ JudgeFails \/ SaveFails \/ RenderFails
  BY <1>t, <1>3, QuietIsSafe DEF LoadSpecFails, MaterializeFails, JudgeFails,
     SaveFails, RenderFails, Quiet, Steps
<1>4. CASE ExecutionFails
  BY <1>t, <1>4, QuietIsSafe DEF ExecutionFails, Quiet, Steps
<1>5. CASE Render
  BY <1>t, <1>5, QuietIsSafe DEF Render, Quiet
<1>6. CASE Kill
  BY <1>t, <1>6, QuietIsSafe DEF Kill, Quiet
<1>7. CASE Materialize
  <2>1. /\ results = <<>> /\ runs = <<>> /\ results' = <<>> /\ runs' = <<>>
        /\ pc = "materialize" /\ pc' = "execute" /\ exit' = exit
        /\ sid' = sid /\ store' = store /\ verdict' = verdict
    BY <1>t, <1>7 DEF Materialize, TypeInv, Progress
  <2>2. Judged'
    BY <2>1 DEF Judged
  <2>3. exit.why = "running"
    BY <1>r, <2>1 DEF Steps
  <2>4. RolledUp' /\ Filed' /\ StoredSessionsAreWhole'
    BY <2>1, <2>3 DEF SafetyInv, RolledUp, Filed, Concluded, Steps,
       StoredSessionsAreWhole
  <2> QED
    BY <1>t, <2>2, <2>4 DEF SafetyInv
<1>8. CASE ExecuteOriginal
  <2>1. Judged'
    BY <1>8 DEF ExecuteOriginal, SafetyInv, Judged, Case
  <2>2. RolledUp' /\ Filed' /\ StoredSessionsAreWhole'
    BY <1>8, <1>r DEF ExecuteOriginal, SafetyInv, RolledUp, Filed, Concluded, Steps,
       StoredSessionsAreWhole
  <2> QED
    BY <1>t, <2>1, <2>2 DEF SafetyInv
<1>9. CASE ExecutePerturbed
  <2>1. PICK out \in Outputs :
          runs' = Append(runs, [ family |-> NextInput.family,
                                 prompt |-> NextInput.prompt,
                                 output |-> out ])
    BY <1>9 DEF ExecutePerturbed
  <2>2. /\ runs \in Seq(Run) /\ runs' \in Seq(Run)
        /\ UNCHANGED <<pc, sid, realized, results, verdict, store, exit>>
        /\ pc = "execute"
    BY <1>t, <1>9 DEF ExecutePerturbed, TypeInv, TypeOK
  <2>3. ASSUME NEW i \in DOMAIN runs'
        PROVE  /\ runs'[i].family = realized[Case][i].family
               /\ runs'[i].prompt = realized[Case][i].prompt
    <3>1. DOMAIN runs = 1..Len(runs) /\ Len(runs) \in Nat
      BY <2>2, LenProperties
    <3>2. [ family |-> NextInput.family, prompt |-> NextInput.prompt,
            output |-> out ] \in Run
      BY <1>t, <1>9, CaseInProgress DEF ExecutePerturbed, PerturbedInput, Run
    <3>3. /\ DOMAIN runs' = 1..(Len(runs) + 1)
          /\ \A j \in 1..Len(runs) : runs'[j] = runs[j]
          /\ runs'[Len(runs) + 1] = [ family |-> NextInput.family,
                                      prompt |-> NextInput.prompt,
                                      output |-> out ]
      BY <2>1, <2>2, <3>1, <3>2
    <3>4. CASE i \in 1..Len(runs)
      BY <2>2, <3>1, <3>3, <3>4 DEF SafetyInv, Judged
    <3>5. CASE i = Len(runs) + 1
      BY <3>3, <3>5 DEF NextInput
    <3> QED
      BY <3>1, <3>3, <3>4, <3>5
  <2>4. Judged'
    BY <2>2, <2>3 DEF SafetyInv, Judged, Case
  <2>5. RolledUp' /\ Filed' /\ StoredSessionsAreWhole'
    BY <1>r, <2>2 DEF SafetyInv, RolledUp, Filed, Concluded, Steps,
       StoredSessionsAreWhole
  <2> QED
    BY <1>t, <2>4, <2>5 DEF SafetyInv
<1>10. CASE ResolveCase
  <2>1. PICK r \in resolve_case(original, runs) : results' = Append(results, r)
    BY <1>10 DEF ResolveCase
  <2>2. /\ original \in Outputs /\ runs \in Seq(Run) /\ Len(runs) <= MaxRuns
        /\ realized[Case] \in Seq(PerturbedInput) /\ AreResults(results)
    BY <1>t, <1>10, CaseInProgress DEF ResolveCase, TypeInv, TypeOK
  <2>3. IsCaseResult(r) /\ r \in resolve_case(r.original, r.runs)
    BY <2>2, ResultType
  <2>4. r.runs = runs
    BY DEF resolve_case
  <2>5. Evident(r, realized[Case])
    <3>1. DOMAIN realized[Case] = 1..Len(realized[Case]) /\ DOMAIN runs = 1..Len(runs)
      BY <2>2, LenProperties
    <3>2. Len(runs) = Len(realized[Case]) /\ pc = "execute"
      BY <1>10 DEF ResolveCase
    <3> QED
      BY <2>3, <2>4, <3>1, <3>2 DEF SafetyInv, Judged, Evident
  <2>6. /\ DOMAIN results = 1..Len(results) /\ Len(results) \in Nat
        /\ DOMAIN results' = 1..(Len(results) + 1)
        /\ \A c \in 1..Len(results) : results'[c] = results[c]
        /\ results'[Len(results) + 1] = r
    BY <2>1, <2>2, <2>3, AppendResult
  <2>7. realized' = realized /\ runs' = <<>>
    BY <1>10 DEF ResolveCase
  <2>8. ASSUME NEW c \in DOMAIN results' PROVE Evident(results'[c], realized'[c])
    <3>1. CASE c \in 1..Len(results)
      BY <2>6, <2>7, <3>1 DEF SafetyInv, Judged
    <3>2. CASE c = Len(results) + 1
      BY <2>5, <2>6, <2>7, <3>2 DEF Case
    <3> QED
      BY <2>6, <3>1, <3>2
  <2>9. Judged'
    BY <2>7, <2>8 DEF Judged
  <2>10. RolledUp' /\ Filed' /\ StoredSessionsAreWhole'
    BY <1>10, <1>r DEF ResolveCase, SafetyInv, RolledUp, Filed, Concluded, Steps,
       StoredSessionsAreWhole
  <2> QED
    BY <1>t, <2>9, <2>10 DEF SafetyInv
<1>11. CASE RollUp
  <2>1. Judged'
    BY <1>11 DEF RollUp, SafetyInv, Judged, Case
  <2>2. RolledUp'
    BY <1>t, <1>11, <1>r DEF RollUp, RolledUp, Concluded, Steps, CaseVerdicts, TypeInv,
       Progress
  <2>3. Filed' /\ StoredSessionsAreWhole'
    BY <1>11, <1>r DEF RollUp, SafetyInv, Filed, Concluded, Steps,
       StoredSessionsAreWhole
  <2> QED
    BY <1>t, <2>1, <2>2, <2>3 DEF SafetyInv
<1>12. CASE SaveSession
  <2>1. /\ store' = store \cup {ThisSession} /\ pc = "save" /\ pc' = "render"
        /\ UNCHANGED <<sid, realized, original, runs, results, verdict, exit>>
    BY <1>12 DEF SaveSession, ThisSession
  <2>2. exit.why = "running"
    BY <1>r, <2>1 DEF Steps
  <2>3. Judged' /\ RolledUp'
    BY <2>1, <2>2 DEF SafetyInv, Judged, RolledUp, Concluded, CaseVerdicts
  <2>4. Filed'
    <3>1. ThisSession.id = sid /\ sid \in Nat /\ ThisSession' = ThisSession
      BY <1>t, <2>1 DEF ThisSession, TypeInv, TypeOK
    <3>2. \A a \in store' : a.id <= sid
      BY <2>1, <3>1 DEF SafetyInv, Filed
    <3>3. \A a \in store' : a.id = sid => a = ThisSession
      BY <2>1 DEF SafetyInv, Filed, Steps
    <3> HIDE DEF ThisSession
    <3> QED
      BY <2>1, <2>2, <3>1, <3>2, <3>3 DEF Filed, Concluded
  <2>5. StoredSessionsAreWhole'
    <3>1. /\ ThisSession.id = sid /\ ThisSession.results = results
          /\ ThisSession.realized = realized /\ ThisSession.verdict = verdict
      BY DEF ThisSession
    <3>2. /\ Len(results) = NumCases
          /\ verdict = resolve_session(CaseVerdicts(results))
      BY <2>1 DEF SafetyInv, RolledUp
    <3>3. \A c \in Cases : Evident(results[c], realized[c])
      <4>1. results \in Seq({ results[i] : i \in DOMAIN results })
        BY <1>t DEF TypeInv, TypeOK, AreResults
      <4>2. DOMAIN results = Cases
        BY <3>2, <4>1, LenProperties DEF Cases
      <4> QED
        BY <4>2 DEF SafetyInv, Judged
    <3>4. \A a \in store : a.id # sid
      BY <2>1 DEF SafetyInv, Filed, Steps
    <3> HIDE DEF ThisSession
    <3> QED
      BY <2>1, <3>1, <3>2, <3>3, <3>4 DEF SafetyInv, StoredSessionsAreWhole
  <2> QED
    BY <1>t, <2>3, <2>4, <2>5 DEF SafetyInv
<1> QED
  BY <1>0, <1>1, <1>2, <1>3, <1>4, <1>5, <1>6, <1>7, <1>8, <1>9, <1>10, <1>11,
     <1>12 DEF Next, Work

(* The invariant holds in every reachable state. *)
THEOREM SafetyHolds == Spec => []SafetyInv
  BY InitSafe, StepIsSafe, PTL DEF Spec

-----------------------------------------------------------------------------
(* The properties *)

(* The verdict of a result is what the priority chain makes of its         *)
(* evidence.                                                               *)
LEMMA ResultIsDecided ==
  ASSUME NEW r, NEW inputs, Evident(r, inputs)
  PROVE  /\ r.verdict = decide_verdict(r.original, r.runs, r.cis)
         /\ r.cis \in Intervals(r.original, r.runs)
<1>1. PICK cis \in Intervals(r.original, r.runs) :
        r = [ original |-> r.original, runs |-> r.runs, cis |-> cis,
              verdict |-> decide_verdict(r.original, r.runs, cis) ]
  BY DEF Evident, resolve_case
<1>2. /\ r.cis = cis
      /\ r.verdict = decide_verdict(r.original, r.runs, cis)
  BY <1>1
<1> QED
  BY <1>2

(* A consistently wrong case, stable or not, fails the session. *)
LEMMA WrongSessionFails == SafetyInv => KnownWrongNeverPasses
<1> SUFFICES ASSUME SafetyInv, Concluded,
                    NEW c \in DOMAIN results, KnownWrong(results[c])
             PROVE  exit.code = 2
  BY DEF KnownWrongNeverPasses
<1>1. results[c].verdict \in {"INVALID_EVAL", "CONSISTENTLY_WRONG"}
  <2>1. Evident(results[c], realized[c])
    BY DEF SafetyInv, Judged
  <2> QED
    BY <2>1, ResultIsDecided, KnownWrongIsCaught DEF KnownWrong
<1>2. /\ c \in DOMAIN CaseVerdicts(results)
      /\ CaseVerdicts(results)[c] = results[c].verdict
  BY DEF CaseVerdicts
<1>3. verdict \in {"INVALID_EVAL", "CONSISTENTLY_WRONG"}
  <2>1. verdict = resolve_session(CaseVerdicts(results))
    BY DEF SafetyInv, RolledUp
  <2> QED
    BY <1>1, <1>2, <2>1, WrongCaseTaints
<1> QED
  BY <1>3 DEF SafetyInv, RolledUp, exit_code_for, Success, Degraded, Failure

(* Status 0 certifies every family of every case. *)
LEMMA SuccessCertifies == SafetyInv => PassMeansEveryFamilyHeld
<1> SUFFICES ASSUME SafetyInv, Concluded, exit.code = 0,
                    NEW c \in DOMAIN results,
                    NEW f \in FamiliesOf(results[c].runs)
             PROVE  StableBar <= Lo(results[c].cis, f)
  BY DEF PassMeansEveryFamilyHeld
<1>1. IsCaseResult(results[c])
  BY DEF SafetyInv, TypeInv, TypeOK, AreResults
<1>2. Evident(results[c], realized[c])
  BY DEF SafetyInv, Judged
<1>3. results[c].runs \in Seq(Run)
  BY <1>1 DEF IsCaseResult
<1>4. Len(results[c].runs) <= MaxRuns
  <2>1. Len(results) = NumCases
    BY DEF SafetyInv, RolledUp
  <2>2. results \in Seq({ results[i] : i \in DOMAIN results })
    BY DEF SafetyInv, TypeInv, TypeOK, AreResults
  <2>3. c \in Cases
    BY <2>1, <2>2, LenProperties DEF Cases
  <2> QED
    BY <1>2, <2>3 DEF Evident, SafetyInv, TypeInv, Progress
<1>5. results[c].verdict \in Success \cup {"INSUFFICIENT"}
  <2>1. resolve_session(CaseVerdicts(results)) \in Success
    <3>1. /\ exit_code_for(verdict) = 0
          /\ verdict = resolve_session(CaseVerdicts(results))
      BY DEF SafetyInv, RolledUp
    <3>2. exit_code_for(verdict) = 0 => verdict \in Success
      BY DEF exit_code_for
    <3> QED
      BY <3>1, <3>2
  <2>2. /\ c \in DOMAIN CaseVerdicts(results)
        /\ \A i \in DOMAIN CaseVerdicts(results) :
             CaseVerdicts(results)[i] = results[i].verdict
    BY DEF CaseVerdicts
  <2>3. \A i \in DOMAIN CaseVerdicts(results) : CaseVerdicts(results)[i] \in Verdict
    BY <2>2 DEF CaseVerdicts, SafetyInv, TypeInv, TypeOK, AreResults, IsCaseResult
  <2> QED
    BY <2>1, <2>2, <2>3, SuccessIsUntainted
<1> QED
  BY <1>2, <1>3, <1>4, <1>5, ResultIsDecided, GoodCaseHeld

(* A verdict's status is that of the stored session; an error's has none;  *)
(* and what is stored under the run's id is what it concluded.             *)
LEMMA StatusIsStored == SafetyInv => ExitMatchesStore
<1> SUFFICES ASSUME SafetyInv PROVE ExitMatchesStore
  OBVIOUS
<1>1. ThisSession.id = sid /\ ThisSession.verdict = verdict
  BY DEF ThisSession
<1>2. ASSUME Concluded
      PROVE  \E a \in store : a.id = sid /\ exit.code = exit_code_for(a.verdict)
  BY <1>1, <1>2, Zenon DEF SafetyInv, Filed, RolledUp
<1>3. exit.why = "error" => ~ \E a \in store : a.id = sid
  BY DEF SafetyInv, Filed
<1>4. \A a \in store : a.id = sid => a.verdict = verdict /\ a.results = results
  BY DEF SafetyInv, Filed, ThisSession
<1> QED
  BY <1>2, <1>3, <1>4 DEF ExitMatchesStore, cmd_replay

(* Known wrongness never ends with a status other than failure. *)
THEOREM WrongnessIsReported == Spec => []KnownWrongNeverPasses
  BY SafetyHolds, WrongSessionFails, PTL

(* A run that succeeds has no family below the stable bar. *)
THEOREM SuccessIsWorstCase == Spec => []PassMeansEveryFamilyHeld
  BY SafetyHolds, SuccessCertifies, PTL

(* The status of the process and the store agree. *)
THEOREM StatusAgreesWithStore == Spec => []ExitMatchesStore
  BY SafetyHolds, StatusIsStored, PTL

(* No failure or kill leaves a partial session behind. *)
THEOREM SessionsAreWhole == Spec => []StoredSessionsAreWhole
  BY SafetyHolds, PTL DEF SafetyInv

-----------------------------------------------------------------------------
(* What the readers show *)

(* No result has more runs than a case may have. *)
Sized(rs) ==
  \A c \in DOMAIN rs : rs[c].runs \in Seq(Run) /\ Len(rs[c].runs) <= MaxRuns

(* A cell of the matrix is a rate of some case, and no case has a lower    *)
(* one.                                                                    *)
LEMMA CellIsLeast ==
  ASSUME NEW rs, Sized(rs), NEW f \in FamiliesIn(rs)
  PROVE  LET cell == worst_per_family(rs)[f]
             rate(c) == per_family_stability(rs[c])[f]
         IN /\ \E c \in Exercising(rs, f) : cell = rate(c)
            /\ \A d \in Exercising(rs, f) : cell.k * rate(d).n <= rate(d).k * cell.n
<1> DEFINE rate(c) == per_family_stability(rs[c])[f]
           S == Exercising(rs, f)
           Least(c) == \A d \in S : rate(c).k * rate(d).n <= rate(d).k * rate(c).n
           num == [c \in S |-> rate(c).k]
           den == [c \in S |-> rate(c).n]
<1>1. S # {}
  BY DEF FamiliesIn, Exercising
<1>2. ASSUME NEW c \in S PROVE rate(c).n \in 1..MaxRuns /\ rate(c).k \in 0..rate(c).n
  <2>1. /\ rs[c].runs \in Seq(Run) /\ Len(rs[c].runs) <= MaxRuns
        /\ f \in FamiliesOf(rs[c].runs)
    BY DEF Sized, Exercising
  <2> QED
    BY <2>1, StratumSize DEF per_family_stability
<1>3. num \in [S -> Nat] /\ den \in [S -> 1..MaxRuns]
  BY <1>2
<1>4. \E c \in S : Least(c)
  <2> HIDE DEF S, rate
  <2>1. \E c \in S : \A d \in S : num[c] * den[d] <= num[d] * den[c]
    <3> HIDE DEF num, den
    <3> QED
      BY <1>1, <1>3, LeastRate, ResolverAssumption
  <2> QED
    BY <2>1
<1>5. worst_per_family(rs)[f] = rate(CHOOSE c \in S : Least(c))
  BY DEF worst_per_family
<1> HIDE DEF S, Least
<1>6. PICK c \in S : c = (CHOOSE d \in S : Least(d)) /\ Least(c)
  BY <1>4
<1> QED
  BY <1>5, <1>6 DEF Least, S

(* A perfect cell certifies every case that exercised the family. *)
LEMMA PerfectCell ==
  ASSUME NEW rs, Sized(rs), NEW f \in FamiliesIn(rs),
         Perfect(worst_per_family(rs)[f]), NEW d \in Exercising(rs, f)
  PROVE  per_family_stability(rs[d])[f].k = per_family_stability(rs[d])[f].n
<1> DEFINE rate(c) == per_family_stability(rs[c])[f]
           cell == worst_per_family(rs)[f]
<1>1. ASSUME NEW c \in Exercising(rs, f)
      PROVE  rate(c).n \in 1..MaxRuns /\ rate(c).k \in 0..rate(c).n
  <2>1. /\ rs[c].runs \in Seq(Run) /\ Len(rs[c].runs) <= MaxRuns
        /\ f \in FamiliesOf(rs[c].runs)
    BY DEF Sized, Exercising
  <2> QED
    BY <2>1, StratumSize DEF per_family_stability
<1>2. /\ \E c \in Exercising(rs, f) : cell = rate(c)
      /\ cell.k * rate(d).n <= rate(d).k * cell.n
  BY CellIsLeast
<1>3. cell.k = cell.n
  BY DEF Perfect
<1> HIDE DEF cell, rate
<1>4. cell.n \in Nat \ {0}
  BY <1>1, <1>2, ResolverAssumption
<1>5. rate(d).n \in Nat /\ rate(d).k \in Nat /\ rate(d).k <= rate(d).n
  BY <1>1, ResolverAssumption
<1>6. ASSUME NEW u \in Nat, NEW v \in Nat, NEW w \in Nat \ {0}, w * u <= v * w
      PROVE  u <= v
  BY <1>6
<1>7. rate(d).n <= rate(d).k
  BY <1>2, <1>3, <1>4, <1>5, <1>6
<1>8. rate(d).k = rate(d).n
  BY <1>5, <1>7
<1> QED
  BY <1>8 DEF rate

(* A FRAGILE case is shown with a failing run of its worst family. *)
LEMMA ShownRunFails ==
  ASSUME NEW r, r.runs \in Seq(Run), Len(r.runs) <= MaxRuns,
         r.verdict = "FRAGILE", r.runs # <<>>,
         NEW worst, worst = worst_case_stratified(r.runs, r.cis),
         \E i \in Stratum(r.runs, worst) : ~ RunPassed(r.original, r.runs[i])
  PROVE  \E i \in select_worst_perturbation(r) :
           r.runs[i].family = worst /\ ~ RunPassed(r.original, r.runs[i])
<1> DEFINE failing == FailingRuns(r, Stratum(r.runs, worst))
<1>1. failing # {} /\ failing \in SUBSET Nat
  BY LenProperties DEF FailingRuns, Stratum
<1>2. select_worst_perturbation(r) = {First(failing)}
  BY <1>1 DEF select_worst_perturbation
<1>3. First(failing) \in failing
  <2> HIDE DEF failing
  <2>1. \E i \in failing : \A j \in failing : i <= j
    BY <1>1, LeastNatural
  <2> QED
    BY <2>1 DEF First
<1> QED
  BY <1>2, <1>3 DEF FailingRuns, Stratum

(* No stored case has more inputs than a case may have. *)
StoredIsSized == \A a \in store : \A c \in Cases : Len(a.realized[c]) <= MaxRuns

(* It stays so: what is saved are the results of the inputs realized.      *)
LEMMA StoredStaysSized ==
  SafetyInv /\ StoredIsSized /\ [Next]_vars => StoredIsSized'
<1> SUFFICES ASSUME SafetyInv, StoredIsSized, [Next]_vars PROVE StoredIsSized'
  OBVIOUS
<1>1. CASE SaveSession
  <2>1. store' = store \cup {ThisSession}
    BY <1>1 DEF SaveSession, ThisSession
  <2>2. ThisSession.realized = realized
    BY DEF ThisSession
  <2>3. \A c \in Cases : Len(realized[c]) <= MaxRuns
    BY DEF SafetyInv, TypeInv, Progress
  <2> HIDE DEF ThisSession
  <2> QED
    BY <2>1, <2>2, <2>3 DEF StoredIsSized
<1>2. CASE UNCHANGED store
  BY <1>2 DEF StoredIsSized
<1>3. SaveSession \/ UNCHANGED store
  BY DEF Next, Work, Start, LoadSpec, LoadSpecFails, Materialize,
     MaterializeFails, ExecuteOriginal, ExecutePerturbed, ExecutionFails,
     JudgeFails, ResolveCase, RollUp, OpenStore, SaveFails, Render,
     RenderFails, Kill, vars
<1> QED
  BY <1>1, <1>2, <1>3

(* The readers agree with the verdicts of a store that is whole. *)
LEMMA ReadersAreHonest == SafetyInv /\ StoredIsSized => WeaknessIsShown
<1> SUFFICES ASSUME SafetyInv, StoredIsSized, NEW a \in store,
                    NEW c \in DOMAIN a.results
             PROVE
    LET cells == worst_per_family(a.results)
        r == a.results[c]
        worst == worst_case_stratified(r.runs, r.cis)
    IN /\ \A i \in DOMAIN r.runs :
            Perfect(cells[r.runs[i].family]) => RunPassed(r.original, r.runs[i])
       /\ r.verdict \in Unstable => ~ Perfect(cells[worst])
       /\ r.verdict = "FRAGILE" =>
            \E i \in select_worst_perturbation(r) :
              r.runs[i].family = worst /\ ~ RunPassed(r.original, r.runs[i])
  BY DEF WeaknessIsShown
<1> DEFINE rs == a.results
           cells == worst_per_family(rs)
           r == rs[c]
           worst == worst_case_stratified(r.runs, r.cis)
<1>1. \A d \in DOMAIN rs : /\ d \in Cases
                           /\ Evident(rs[d], a.realized[d])
                           /\ rs[d].runs \in Seq(Run)
                           /\ Len(rs[d].runs) <= MaxRuns
  <2>1. Len(rs) = NumCases /\ \A d \in Cases : Evident(rs[d], a.realized[d])
    BY DEF SafetyInv, StoredSessionsAreWhole
  <2>2. AreResults(rs)
    BY DEF SafetyInv, TypeInv, TypeOK, IsArtifact
  <2>3. DOMAIN rs = Cases
    BY <2>1, <2>2, LenProperties DEF AreResults, Cases
  <2>4. \A d \in DOMAIN rs : rs[d].runs \in Seq(Run)
    BY <2>2 DEF AreResults, IsCaseResult
  <2>5. \A d \in Cases : Len(rs[d].runs) <= MaxRuns
    BY <2>1 DEF StoredIsSized, Evident
  <2> QED
    BY <2>1, <2>3, <2>4, <2>5
<1>2. Sized(rs)
  BY <1>1 DEF Sized
<1>3. ASSUME NEW f \in FamiliesOf(r.runs), Perfect(cells[f])
      PROVE  \A i \in Stratum(r.runs, f) : RunPassed(r.original, r.runs[i])
  <2>1. f \in FamiliesIn(rs) /\ c \in Exercising(rs, f)
    BY DEF FamiliesIn, Exercising
  <2>2. per_family_stability(r)[f].k = per_family_stability(r)[f].n
    BY <1>2, <1>3, <2>1, PerfectCell
  <2> QED
    BY <1>1, <2>2, FullStratum DEF per_family_stability
<1>4. ASSUME NEW i \in DOMAIN r.runs, Perfect(cells[r.runs[i].family])
      PROVE  RunPassed(r.original, r.runs[i])
  BY <1>3, <1>4 DEF FamiliesOf, Stratum
<1>5. ASSUME r.verdict \in Unstable
      PROVE  /\ r.runs # <<>>
             /\ worst \in FamiliesOf(r.runs)
             /\ \E i \in Stratum(r.runs, worst) : ~ RunPassed(r.original, r.runs[i])
  <2>1. /\ r.verdict = decide_verdict(r.original, r.runs, r.cis)
        /\ r.cis \in Intervals(r.original, r.runs)
    BY <1>1, ResultIsDecided
  <2>2. /\ r.runs # <<>>
        /\ worst \in FamiliesOf(r.runs)
        /\ stratify_by_family(r.original, r.runs)[worst].k
             # stratify_by_family(r.original, r.runs)[worst].n
    BY <1>1, <1>5, <2>1, UnstableCaseFailed DEF Unstable
  <2> QED
    BY <1>1, <2>2, FullStratum
<1>6. ASSUME r.verdict \in Unstable PROVE ~ Perfect(cells[worst])
  BY <1>3, <1>5, <1>6
<1>7. ASSUME r.verdict = "FRAGILE"
      PROVE  \E i \in select_worst_perturbation(r) :
               r.runs[i].family = worst /\ ~ RunPassed(r.original, r.runs[i])
  <2>1. r.verdict \in Unstable
    BY <1>7 DEF Unstable
  <2> QED
    BY <1>1, <1>5, <1>7, <2>1, ShownRunFails
<1> QED
  BY <1>4, <1>6, <1>7

(* matrix (_worst_per_family) and inspect (_select_worst_perturbation) show *)
(* the weakness that run found, with any number of cases and families.     *)
THEOREM ReadersShowWeakness == Spec => []WeaknessIsShown
<1>1. Init => StoredIsSized
  BY DEF Init, StoredIsSized
<1> QED
  BY <1>1, SafetyHolds, StoredStaysSized, ReadersAreHonest, PTL DEF Spec
-----------------------------------------------------------------------------
(* The cache *)

(* The answers the run holds are those in the cache, and until a call      *)
(* fails a prompt that is not there has not been asked.                    *)
Heard ==
  Caching =>
    /\ \A p \in Prompts : calls[p] <= 1
    /\ pc \in {"load", "materialize", "execute"} =>
         \A p \in Prompts : cache[p] = NoOutput => calls[p] = 0
    /\ \A c \in DOMAIN results :
         /\ results[c].original = cache[Original[c]]
         /\ \A i \in DOMAIN results[c].runs :
              results[c].runs[i].output = cache[results[c].runs[i].prompt]
    /\ \A i \in DOMAIN runs : runs[i].output = cache[runs[i].prompt]
    /\ original # NoOutput => original = cache[Original[Case]]

(* A call answers from the cache or into it, and takes nothing out.        *)
LEMMA CallIsRemembered ==
  ASSUME EngineTypeOK, Caching, NEW p \in Prompts, NEW out \in Outputs,
         execute(p, out), NEW q \in Prompts,
         cache[q] = NoOutput => calls[q] = 0, calls[q] <= 1
  PROVE  /\ cache'[p] = out
         /\ cache[q] # NoOutput => cache'[q] = cache[q]
         /\ cache'[q] = NoOutput => calls'[q] = 0
         /\ calls'[q] <= 1
<1>1. CASE Hit(p, out)
  BY <1>1 DEF Hit, engineVars
<1>2. CASE Miss(p, out)
  BY <1>2, DomainAssumption DEF Miss, Cached, EngineTypeOK
<1> QED
  BY <1>1, <1>2 DEF execute

(* What the results hold was heard, from prompts. *)
LEMMA ResultsWereHeard ==
  ASSUME TypeInv, Len(results) <= NumCases, NEW c \in DOMAIN results
  PROVE  /\ Original[c] \in Prompts
         /\ results[c].original \in Outputs
         /\ \A i \in DOMAIN results[c].runs :
              /\ results[c].runs[i].prompt \in Prompts
              /\ results[c].runs[i].output \in Outputs
<1>1. IsCaseResult(results[c])
  BY DEF TypeInv, TypeOK, AreResults
<1>2. c \in Cases
  <2>1. Len(results) \in Nat /\ DOMAIN results = 1..Len(results)
    BY LenProperties DEF TypeInv, TypeOK, AreResults
  <2>2. NumCases \in Nat
    BY RealizationAssumption
  <2> QED
    BY <2>1, <2>2 DEF Cases
<1>3. \A i \in DOMAIN results[c].runs : results[c].runs[i] \in Run
  <2>1. PICK rs : rs = results[c].runs
    OBVIOUS
  <2>2. rs \in Seq(Run)
    BY <1>1, <2>1 DEF IsCaseResult
  <2>3. \A i \in DOMAIN rs : rs[i] \in Run
    BY ONLY <2>2
  <2> QED
    BY <2>1, <2>3
<1>4. Original[c] \in Prompts
  BY <1>2, RunSessionAssumption
<1>5. results[c].original \in Outputs
  BY <1>1 DEF IsCaseResult
<1>6. ASSUME NEW i \in DOMAIN results[c].runs
      PROVE  results[c].runs[i].prompt \in Prompts /\ results[c].runs[i].output \in Outputs
  BY <1>3, <1>6 DEF Run
<1> QED
  BY <1>4, <1>5, <1>6

(* The answers of a run are kept by a call of it. *)
LEMMA CallKeepsAnswers ==
  ASSUME TypeInv, pc = "execute", Heard, Caching,
         NEW p \in Prompts, NEW out \in Outputs, execute(p, out),
         results' = results
  PROVE  /\ cache'[p] = out
         /\ \A q \in Prompts : /\ calls'[q] <= 1
                               /\ cache'[q] = NoOutput => calls'[q] = 0
         /\ \A c \in DOMAIN results' :
              /\ results'[c].original = cache'[Original[c]]
              /\ \A i \in DOMAIN results'[c].runs :
                   results'[c].runs[i].output = cache'[results'[c].runs[i].prompt]
         /\ \A i \in DOMAIN runs : runs[i].output = cache'[runs[i].prompt]
         /\ original # NoOutput => original = cache'[Original[Case]]
<1>1. EngineTypeOK
  BY DEF TypeInv, TypeOK
<1>2. \A q \in Prompts : /\ cache[q] = NoOutput => calls[q] = 0
                         /\ calls[q] <= 1
  BY DEF Heard
<1>3. \A q \in Prompts : /\ cache'[p] = out
                         /\ cache[q] # NoOutput => cache'[q] = cache[q]
                         /\ cache'[q] = NoOutput => calls'[q] = 0
                         /\ calls'[q] <= 1
  BY <1>1, <1>2, CallIsRemembered
<1>4. ASSUME NEW c \in DOMAIN results
      PROVE  /\ results[c].original = cache'[Original[c]]
             /\ \A i \in DOMAIN results[c].runs :
                  results[c].runs[i].output = cache'[results[c].runs[i].prompt]
  <2>1. Len(results) <= NumCases
    BY CaseInProgress, RealizationAssumption DEF Case, Cases
  <2>2. /\ Original[c] \in Prompts /\ results[c].original \in Outputs
        /\ \A i \in DOMAIN results[c].runs :
             /\ results[c].runs[i].prompt \in Prompts
             /\ results[c].runs[i].output \in Outputs
    BY <2>1, ResultsWereHeard
  <2>3. /\ results[c].original = cache[Original[c]]
        /\ \A i \in DOMAIN results[c].runs :
             results[c].runs[i].output = cache[results[c].runs[i].prompt]
    BY DEF Heard
  <2> QED
    BY <1>3, <2>2, <2>3, DomainAssumption
<1>5. ASSUME NEW i \in DOMAIN runs PROVE runs[i].output = cache'[runs[i].prompt]
  <2>1. runs[i] \in Run
    BY ElementOfSeq, LenProperties DEF TypeInv, TypeOK
  <2>2. runs[i].prompt \in Prompts /\ runs[i].output \in Outputs
    BY <2>1 DEF Run
  <2>3. runs[i].output = cache[runs[i].prompt]
    BY DEF Heard
  <2> QED
    BY <1>3, <2>2, <2>3, DomainAssumption
<1>6. original # NoOutput => original = cache'[Original[Case]]
  BY <1>3, CaseInProgress DEF Heard
<1> QED
  BY <1>3, <1>4, <1>5, <1>6

(* Every step keeps what was heard. *)
LEMMA StepKeepsHeard == TypeInv /\ Heard /\ [Next]_vars => Heard'
<1> SUFFICES ASSUME TypeInv, Heard, Caching, [Next]_vars PROVE Heard'
  BY DEF Heard, Caching
<1> USE DEF Goto, ErrorExit, Traceback, ExitWith, caseVars, engineVars
<1>1. CASE Start
  BY <1>1 DEF Start, EngineReset, NoExit, Heard
<1>2. ASSUME UNCHANGED <<original, runs, results, engineVars>>,
             pc' \in {"load", "materialize", "execute"} =>
               pc \in {"load", "materialize", "execute"}
      PROVE  Heard'
  BY <1>2 DEF Heard, Case
<1>3. CASE \/ UNCHANGED vars \/ LoadSpec \/ LoadSpecFails \/ Materialize
           \/ MaterializeFails \/ JudgeFails \/ RollUp \/ OpenStore
           \/ SaveSession \/ SaveFails \/ Render \/ RenderFails \/ Kill
  BY <1>2, <1>3 DEF vars, LoadSpec, LoadSpecFails, Materialize, MaterializeFails,
     JudgeFails, RollUp, OpenStore, SaveSession, SaveFails, Render, RenderFails, Kill
<1>4. CASE ExecuteOriginal
  <2>1. PICK out \in Outputs : execute(Original[Case], out) /\ original' = out
    BY <1>4 DEF ExecuteOriginal
  <2>2. /\ pc = "execute" /\ pc' = pc /\ runs' = runs /\ results' = results
        /\ Original[Case] \in Prompts
    BY <1>4, CaseInProgress DEF ExecuteOriginal
  <2>3. Case' = Case
    BY <2>2 DEF Case
  <2> QED
    BY <2>1, <2>2, <2>3, CallKeepsAnswers DEF Heard
<1>5. CASE ExecutePerturbed
  <2>1. PICK out \in Outputs :
          /\ execute(NextInput.prompt, out)
          /\ runs' = Append(runs, [ family |-> NextInput.family,
                                    prompt |-> NextInput.prompt,
                                    output |-> out ])
    BY <1>5 DEF ExecutePerturbed
  <2>2. /\ pc = "execute" /\ pc' = pc /\ original' = original /\ results' = results
        /\ NextInput \in PerturbedInput
    BY <1>5, CaseInProgress DEF ExecutePerturbed
  <2>3. NextInput.prompt \in Prompts /\ NextInput.family \in Families
    BY <2>2 DEF PerturbedInput
  <2>4. ASSUME NEW i \in DOMAIN runs' PROVE runs'[i].output = cache'[runs'[i].prompt]
    <3>1. runs \in Seq(Run)
      BY DEF TypeInv, TypeOK
    <3>2. [ family |-> NextInput.family, prompt |-> NextInput.prompt,
            output |-> out ] \in Run
      BY <2>3 DEF Run
    <3>3. /\ DOMAIN runs = 1..Len(runs) /\ Len(runs) \in Nat
          /\ DOMAIN runs' = 1..(Len(runs) + 1)
          /\ \A j \in 1..Len(runs) : runs'[j] = runs[j]
          /\ runs'[Len(runs) + 1] = [ family |-> NextInput.family,
                                      prompt |-> NextInput.prompt,
                                      output |-> out ]
      BY <2>1, <3>1, <3>2, LenProperties
    <3>4. CASE i \in 1..Len(runs)
      BY <2>1, <2>2, <2>3, <3>3, <3>4, CallKeepsAnswers
    <3>5. CASE i = Len(runs) + 1
      BY <2>1, <2>2, <2>3, <3>3, <3>5, CallKeepsAnswers
    <3> QED
      BY <3>3, <3>4, <3>5
  <2>5. Case' = Case
    BY <2>2 DEF Case
  <2> QED
    BY <2>1, <2>2, <2>3, <2>4, <2>5, CallKeepsAnswers DEF Heard
<1>6. CASE ExecutionFails
  <2>1. PICK p \in Prompts : execute_raises(p)
    BY <1>6, CaseInProgress DEF ExecutionFails, PerturbedInput
  <2>2. /\ pc = "execute" /\ pc' = "exited" /\ cache' = cache
        /\ UNCHANGED <<original, runs, results>>
    BY <1>6, <2>1 DEF ExecutionFails, execute_raises
  <2>3. \A q \in Prompts : calls'[q] <= 1
    <3>1. cache[p] = NoOutput /\ calls' = [calls EXCEPT ![p] = @ + 1]
      BY <2>1 DEF execute_raises, Cached
    <3>2. calls[p] = 0
      BY <2>2, <3>1 DEF Heard
    <3> QED
      BY <3>1, <3>2 DEF Heard, TypeInv, TypeOK, EngineTypeOK
  <2> QED
    BY <2>2, <2>3 DEF Heard, Case
<1>7. CASE ResolveCase
  <2>1. PICK r \in resolve_case(original, runs) : results' = Append(results, r)
    BY <1>7 DEF ResolveCase
  <2>2. /\ pc = "execute" /\ original # NoOutput /\ original' = NoOutput /\ runs' = <<>>
        /\ cache' = cache /\ calls' = calls
    BY <1>7 DEF ResolveCase
  <2>3. /\ original \in Outputs /\ runs \in Seq(Run) /\ Len(runs) <= MaxRuns
    BY <2>2, CaseInProgress DEF TypeInv, TypeOK
  <2>4. IsCaseResult(r) /\ r.original = original /\ r.runs = runs
    BY <2>3, ResultType DEF resolve_case
  <2>5. /\ DOMAIN results' = 1..(Len(results) + 1) /\ Len(results) \in Nat
        /\ DOMAIN results = 1..Len(results)
        /\ \A c \in 1..Len(results) : results'[c] = results[c]
        /\ results'[Len(results) + 1] = r
    BY <2>1, <2>4, AppendResult DEF TypeInv, TypeOK
  <2>6. ASSUME NEW c \in DOMAIN results'
        PROVE  /\ results'[c].original = cache[Original[c]]
               /\ \A i \in DOMAIN results'[c].runs :
                    results'[c].runs[i].output = cache[results'[c].runs[i].prompt]
    <3>1. CASE c \in 1..Len(results)
      BY <2>5, <3>1 DEF Heard
    <3>2. CASE c = Len(results) + 1
      BY <2>2, <2>4, <2>5, <3>2 DEF Heard, Case
    <3> QED
      BY <2>5, <3>1, <3>2
  <2> QED
    BY <2>2, <2>6 DEF Heard
<1> QED
  BY <1>1, <1>3, <1>4, <1>5, <1>6, <1>7 DEF Next, Work

(* All answers to a prompt are the one in the cache. *)
LEMMA HeardOnce == Heard => OneAnswerPerPrompt
<1> SUFFICES ASSUME Heard, Caching, NEW p \in Prompts
             PROVE  calls[p] <= 1 /\ Cardinality(AnswersTo(p)) <= 1
  BY DEF OneAnswerPerPrompt
<1>1. AnswersTo(p) \subseteq {cache[p]}
  BY DEF AnswersTo, Heard
<1>2. Cardinality(AnswersTo(p)) <= Cardinality({cache[p]}) /\ IsFiniteSet({cache[p]})
  BY <1>1, FS_Singleton, FS_Subset
<1>3. Cardinality({cache[p]}) = 1
  BY FS_Singleton
<1> QED
  BY <1>2, <1>3 DEF Heard

(* The engine's cache (execution/engine.py) answers a prompt once and for  *)
(* all of a run, whatever cases, rewrites and failures come between.       *)
THEOREM CacheIsConsistent == Spec => []OneAnswerPerPrompt
<1>1. Init => Heard
  BY DEF Init, EngineInit, Heard
<1> QED
  BY <1>1, TypesHold, StepKeepsHeard, HeardOnce, PTL DEF Spec
-----------------------------------------------------------------------------
(* What the verdicts say of the outputs *)

(* The evidence of a result, as the lemmas about the resolver want it.     *)
LEMMA ResultEvidence ==
  ASSUME SafetyInv, NEW c \in DOMAIN results
  PROVE  /\ results[c].runs \in Seq(Run)
         /\ \A i \in DOMAIN results[c].runs : results[c].runs[i].output \in Outputs
         /\ results[c].original \in Outputs
         /\ results[c].cis \in Intervals(results[c].original, results[c].runs)
         /\ results[c].verdict
              = decide_verdict(results[c].original, results[c].runs, results[c].cis)
         /\ Len(results) = NumCases => Len(results[c].runs) <= MaxRuns
<1>1. IsCaseResult(results[c])
  BY DEF SafetyInv, TypeInv, TypeOK, AreResults
<1>2. Evident(results[c], realized[c])
  BY DEF SafetyInv, Judged
<1>3. results[c].runs \in Seq(Run) /\ results[c].original \in Outputs
  BY <1>1 DEF IsCaseResult
<1>4. \A i \in DOMAIN results[c].runs : results[c].runs[i].output \in Outputs
  <2>1. \A i \in DOMAIN results[c].runs : results[c].runs[i] \in Run
    BY <1>3, ElementOfSeq
  <2> QED
    BY <2>1 DEF Run
<1>5. ASSUME Len(results) = NumCases PROVE Len(results[c].runs) <= MaxRuns
  <2>1. results \in Seq({ results[i] : i \in DOMAIN results })
    BY DEF SafetyInv, TypeInv, TypeOK, AreResults
  <2>2. c \in Cases
    BY <1>5, <2>1, LenProperties DEF Cases
  <2> QED
    BY <1>2, <2>2 DEF Evident, SafetyInv, TypeInv, Progress
<1> QED
  BY <1>2, <1>3, <1>4, <1>5, ResultIsDecided

(* INVALID_EVAL is the judges' own fault. *)
LEMMA InvalidEvalIsExplained == SafetyInv => InvalidEvalBlamesTheEval
<1> SUFFICES ASSUME SafetyInv, NEW c \in DOMAIN results,
                    results[c].verdict = "INVALID_EVAL",
                    Len(AllOutputs(results[c].original, results[c].runs)) < 20
             PROVE  LET outs == AllOutputs(results[c].original, results[c].runs)
                    IN \/ \E a, b \in Peers(outs) :
                            a.says # b.says /\ Confident(a) /\ Confident(b)
                       \/ \E inv \in Invariants :
                            <<inv, results[c].original, results[c].original>> \notin Passes
  BY DEF InvalidEvalBlamesTheEval
<1> QED
  BY ResultEvidence, InvalidEvalHasACause

(* INFORMATION_PRESENT is grounded. *)
LEMMA GoldIsEarned == SafetyInv => GoldStandardIsGrounded
<1> SUFFICES ASSUME SafetyInv, NEW c \in DOMAIN results,
                    results[c].verdict = "INFORMATION_PRESENT"
             PROVE  LET outs == AllOutputs(results[c].original, results[c].runs)
                    IN /\ Support(outs, "CONTRADICTION") <= Support(outs, "ENTAILMENT")
                       /\ 2 * Cardinality(Nulls(outs)) < Len(outs)
  BY DEF GoldStandardIsGrounded
<1> QED
  BY ResultEvidence, GoldIsGrounded

(* Status 0 certifies every run, where one failure in a family shows.      *)
LEMMA SuccessCertifiesRuns == SafetyInv => NoFailedRunBehindPass
<1> SUFFICES ASSUME SafetyInv, Concluded, exit.code = 0, OneFailureBreaks,
                    NEW c \in DOMAIN results, NEW i \in DOMAIN results[c].runs
             PROVE  RunPassed(results[c].original, results[c].runs[i])
  BY DEF NoFailedRunBehindPass
<1> DEFINE r == results[c]
           f == r.runs[i].family
           s == stratify_by_family(r.original, r.runs)[f]
<1>1. /\ r.runs \in Seq(Run) /\ Len(r.runs) <= MaxRuns
      /\ r.cis \in Intervals(r.original, r.runs)
  BY ResultEvidence DEF SafetyInv, RolledUp
<1>2. f \in FamiliesOf(r.runs) /\ i \in Stratum(r.runs, f)
  BY DEF FamiliesOf, Stratum
<1>3. StableBar <= r.cis[f][1]
  BY <1>2, SuccessCertifies DEF PassMeansEveryFamilyHeld, Lo
<1>4. r.cis[f] \in BootstrapCI(s.n, s.k)
  BY <1>1, <1>2 DEF Intervals
<1>5. s.n \in 1..MaxRuns /\ s.k \in 0..s.n
  BY <1>1, <1>2, StratumSize
<1>6. r.cis[f][1] \in 0..Scale
  BY <1>1, <1>2, IntervalsType DEF Interval
<1>7. s.k = s.n
  <2> HIDE DEF r, f, s
  <2>1. ASSUME s.k # s.n PROVE FALSE
    <3>1. s.k \in 0..(s.n - 1)
      BY <1>5, <2>1
    <3>2. r.cis[f][1] < StableBar
      BY <1>4, <1>5, <3>1 DEF OneFailureBreaks
    <3> QED
      BY <1>3, <1>6, <3>2, ResolverAssumption
  <2> QED
    BY <2>1
<1> QED
  BY <1>1, <1>2, <1>7, FullStratum

(* Two results of the same runs differ by chance only within the bands.    *)
LEMMA ChanceHardlyMatters == SafetyInv => ChanceStaysInTheBands
<1> SUFFICES ASSUME SafetyInv, pc = "rollup", NEW c \in DOMAIN results,
                    NEW p \in Orders(Len(results[c].runs)),
                    ~ LabelTied(AllOutputs(results[c].original, results[c].runs)),
                    NEW cis2 \in Intervals(results[c].original,
                                           Shuffled(results[c].runs, p))
             PROVE  LET r == results[c]
                        v == decide_verdict(r.original, Shuffled(r.runs, p), cis2)
                    IN v # r.verdict =>
                         /\ {v, r.verdict} \subseteq
                              Unstable \cup {"STABLE", "INFORMATION_PRESENT",
                                             "INFORMATION_NULL"}
                         /\ OneFailureBreaks => {v, r.verdict} \subseteq Unstable
                         /\ cis2 = r.cis => /\ WorstTied(cis2)
                                            /\ {v, r.verdict} = {"FRAGILE", "AMBIGUOUS"}
  BY DEF ChanceStaysInTheBands, Shuffled
<1>1. PICK rs, o, cis : /\ rs = results[c].runs /\ o = results[c].original
                        /\ cis = results[c].cis
  OBVIOUS
<1> DEFINE v == decide_verdict(o, Shuffled(rs, p), cis2)
           w == decide_verdict(o, rs, cis)
           f == worst_case_stratified(rs, cis)
           g == worst_case_stratified(Shuffled(rs, p), cis)
<1>2. /\ rs \in Seq(Run) /\ Len(rs) <= MaxRuns
      /\ \A i \in DOMAIN rs : rs[i].output \in Outputs
      /\ o \in Outputs
      /\ cis \in Intervals(o, rs)
      /\ results[c].verdict = w
  BY <1>1, ResultEvidence DEF SafetyInv, TypeInv, Progress
<1>3. Reordering(p, Len(rs))
  BY <1>1 DEF Orders, Reordering
<1>4. Untied(AllOutputs(o, rs))
  BY <1>1 DEF LabelTied, Untied
<1>5. cis2 \in Intervals(o, Shuffled(rs, p))
  BY <1>1
<1>6. v # w => /\ {v, w} \subseteq Bands
               /\ OneFailureBreaks => {v, w} \subseteq Unstable
  BY <1>2, <1>3, <1>4, <1>5, DrawsStayInTheBands, SMTT(20) DEF Unstable
<1>7. v # w /\ cis2 = cis =>
        /\ {v, w} = {"FRAGILE", "AMBIGUOUS"}
        /\ f \in DOMAIN cis /\ g \in DOMAIN cis
        /\ f # g /\ Lo(cis, f) = Lo(cis, g) /\ Hi(cis, f) # Hi(cis, g)
  BY <1>2, <1>3, <1>4, OrderBreaksTiesOnly, SMTT(20)
<1> HIDE DEF v, w, f, g
<1>8. v # w /\ cis2 = cis => WorstTied(cis) /\ {v, w} = {"FRAGILE", "AMBIGUOUS"}
  BY <1>7 DEF WorstTied
<1>9. Bands = Unstable \cup {"STABLE", "INFORMATION_PRESENT", "INFORMATION_NULL"}
  BY DEF Bands, Unstable
<1> QED
  BY <1>1, <1>2, <1>6, <1>8, <1>9 DEF v

(* oracles/meta.py: an INVALID_EVAL of fewer than twenty outputs shows an  *)
(* oracle conflict or an invariant that the unperturbed answer fails.      *)
THEOREM InvalidEvalIsTheEvals == Spec => []InvalidEvalBlamesTheEval
  BY SafetyHolds, InvalidEvalIsExplained, PTL

(* verdict/resolver.py: the top verdict is never given to a case whose     *)
(* outputs mostly deny the reference or mostly refuse.                     *)
THEOREM GoldNeverDenies == Spec => []GoldStandardIsGrounded
  BY SafetyHolds, GoldIsEarned, PTL

(* A status 0 hides no failed run of any case, under a bootstrap whose     *)
(* interval one failure takes below the bar.                               *)
THEOREM SuccessHidesNoFailure == Spec => []NoFailedRunBehindPass
  BY SafetyHolds, SuccessCertifiesRuns, PTL

(* verdict/stratify.py, verdict/resolver.py: neither the order of the runs *)
(* nor the draws of the bootstrap reach past the bands that go by the      *)
(* intervals, or, where one failure breaks a family, past those of         *)
(* instability.                                                            *)
THEOREM ChanceIsContained == Spec => []ChanceStaysInTheBands
  BY SafetyHolds, ChanceHardlyMatters, PTL
=============================================================================
