------------------------------ MODULE Consumers ------------------------------
(***************************************************************************)
(* A store that runs of the command fill and that diff and timeline read:  *)
(* what the reading commands say of the history they find.                 *)
(*                                                                         *)
(* A run is reduced to what it leaves behind.  It stamps its artifact with *)
(* the time when its verdict is in hand and saves it later, so the saves   *)
(* of two processes may come in another order than the stamps.             *)
(***************************************************************************)
EXTENDS Comparisons, FiniteSets

CONSTANTS
  Procs,        \* processes that run the command
  Outcomes,     \* what a run may find: records [cases, score]
  MaxSessions,  \* how many runs reach a verdict
  Window        \* a --limit given to timeline

VARIABLES
  stored,    \* the artifacts in the store
  inflight,  \* the artifact each process has yet to save, if any: a set
  clock,     \* the time of the latest stamp
  count      \* how many artifacts were made; it gives the fresh ids

vars == <<stored, inflight, clock, count>>

IsOutcome(o) ==
  /\ o = [cases |-> o.cases, score |-> o.score]
  /\ DOMAIN o.cases # {}
  /\ \A c \in DOMAIN o.cases : o.cases[c] \in [verdict : Verdict, lo : 0..100]
  /\ o.score \in 0..100

ConsumersAssumption ==
  /\ \A o \in Outcomes : IsOutcome(o)
  /\ MaxSessions \in Nat
  /\ Window \in Nat /\ Window >= 2
ASSUME ConsumersAssumption

CaseIds == UNION { DOMAIN o.cases : o \in Outcomes }

CaseVerdicts(cases) == [c \in DOMAIN cases |-> cases[c].verdict]

ArtifactOf(o, id, at) ==
  [ id |-> id, at |-> at, cases |-> o.cases, score |-> o.score,
    verdict |-> resolve_session(CaseVerdicts(o.cases)) ]

-----------------------------------------------------------------------------
Init ==
  /\ stored = {}
  /\ inflight = [p \in Procs |-> {}]
  /\ clock = 0
  /\ count = 0

(* cmd_run up to the artifact.  The clock may not have moved since another *)
(* process read it.                                                        *)
Conclude(p) ==
  /\ inflight[p] = {}
  /\ count < MaxSessions
  /\ count' = count + 1
  /\ \E o \in Outcomes, now \in {clock, clock + 1} :
       /\ inflight' = [inflight EXCEPT ![p] = {ArtifactOf(o, count', now)}]
       /\ clock' = now
  /\ UNCHANGED stored

SaveSession(p) ==
  /\ inflight[p] # {}
  /\ stored' = stored \cup inflight[p]
  /\ inflight' = [inflight EXCEPT ![p] = {}]
  /\ UNCHANGED <<clock, count>>

(* The save fails, or the process is killed before it. *)
LoseSession(p) ==
  /\ inflight[p] # {}
  /\ inflight' = [inflight EXCEPT ![p] = {}]
  /\ UNCHANGED <<stored, clock, count>>

Next == \E p \in Procs : Conclude(p) \/ SaveSession(p) \/ LoseSession(p)

Spec == Init /\ [][Next]_vars

-----------------------------------------------------------------------------
(* What the commands find *)

(* query_sessions(case_id, limit): newest first; the store's order decides *)
(* between equal stamps.                                                   *)
Holding(c) == { a \in stored : c \in Tested(a) }

(* Mutant of Listings: the oldest sessions fill the window.                *)
Listings_OldestKept(s, limit) ==
  LET n == IF Cardinality(s) < limit THEN Cardinality(s) ELSE limit
  IN { q \in [1..n -> s] :
         /\ \A i, j \in 1..n : i < j => q[i] # q[j] /\ q[i].at >= q[j].at
         /\ \A a \in s : \/ \E i \in 1..n : q[i] = a
                         \/ \A i \in 1..n : q[i].at <= a.at }

Listings(s, limit) ==
  LET n == IF Cardinality(s) < limit THEN Cardinality(s) ELSE limit
  IN { q \in [1..n -> s] :
         /\ \A i, j \in 1..n : i < j => q[i] # q[j] /\ q[i].at >= q[j].at
         /\ \A a \in s : \/ \E i \in 1..n : q[i] = a
                         \/ \A i \in 1..n : q[i].at >= a.at }

(* --limit 0 *)
Everything(c) == Listings(Holding(c), MaxSessions)

Flagged(c) ==
  \E q \in Everything(c) : cmd_timeline(q, c) = RegressionCode

-----------------------------------------------------------------------------
(* Properties *)

(* Stored and in-flight artifacts are those of some outcome, with the      *)
(* roll-up of their cases as their verdict; no stamp is in the future.     *)
IsArtifact(a) ==
  \E o \in Outcomes, id \in 1..count, at \in 0..clock :
    a = ArtifactOf(o, id, at)

TypeOK ==
  /\ count \in 0..MaxSessions
  /\ clock \in 0..count
  /\ \A a \in stored : IsArtifact(a)
  /\ DOMAIN inflight = Procs
  /\ \A p \in Procs : \/ inflight[p] = {}
                       \/ \E a \in inflight[p] : /\ inflight[p] = {a}
                                                /\ IsArtifact(a)

AllRanked(a) == \A c \in Tested(a) : Ranked(a.cases[c].verdict)

(* The ladder of diff, the roll-up of run and the exit codes are three     *)
(* tables.  They agree: where two sessions tested the same cases and could *)
(* judge them all, the later one cannot exit worse without diff saying so, *)
(* with --strict or without, whatever it thinks of the invariants.         *)
WorseStatusIsFlagged ==
  \A a, b \in stored, strict \in BOOLEAN :
       /\ Tested(a) = Tested(b)
       /\ AllRanked(a) /\ AllRanked(b)
       /\ exit_code_for(b.verdict) > exit_code_for(a.verdict)
    => diff_exit_code(a, b, strict) = RegressionCode

(* timeline looks at neighbours only.  If it is quiet although diff of the *)
(* oldest and the newest session has the case regressed, then the case     *)
(* passed through a verdict that is off the ladder.                        *)
QuietTimelineHasAGap ==
  \A c \in CaseIds : \A q \in Everything(c) :
       /\ q # <<>>
       /\ compute_diff(q[Len(q)], q[1])[c] = "regressed"
       /\ cmd_timeline(q, c) # RegressionCode
    => \E i \in 2..(Len(q) - 1) : ~ Ranked(q[i].cases[c].verdict)

(* What timeline flags did happen: some session is worse for the case than *)
(* one stamped no later.                                                   *)
FlaggedDowngradeHappened ==
  \A c \in CaseIds : Flagged(c) =>
    \E a, b \in Holding(c) :
      /\ a.at <= b.at
      /\ Worse(b.cases[c].verdict, a.cases[c].verdict)

(* A regression of the newest session is in the window of timeline --limit *)
(* however long the history is.                                            *)
WindowSeesTheLatest ==
  \A c \in CaseIds : \A a, b \in Holding(c) :
       /\ a.at < b.at
       /\ \A x \in Holding(c) \ {a, b} : x.at < a.at
       /\ Worse(b.cases[c].verdict, a.cases[c].verdict)
    => \A q \in Listings(Holding(c), Window) :
         cmd_timeline(q, c) = RegressionCode

(* A history of one verdict each step of which passes diff --strict has    *)
(* lost less confidence than the threshold times its length.               *)
ErosionIsBounded ==
  \A c \in CaseIds : \A q \in Everything(c) :
       /\ Len(q) >= 2
       /\ \A i \in 1..(Len(q) - 1) :
            /\ diff_exit_code(q[i + 1], q[i], TRUE) # RegressionCode
            /\ q[i].cases[c].verdict = q[i + 1].cases[c].verdict
    => q[Len(q)].cases[c].lo - q[1].cases[c].lo
         < STRICT_CONFIDENCE_DROP_THRESHOLD * (Len(q) - 1)

(* A session that another process saves late may come between two others.  *)
(* It does not take back what timeline flagged, unless its own verdict is  *)
(* off the ladder.                                                         *)
RegressionStaysReported ==
  [][\A c \in CaseIds : Flagged(c) =>
       \/ Flagged(c)'
       \/ \E a \in stored' \ stored :
            c \in Tested(a) /\ ~ Ranked(a.cases[c].verdict)]_vars
=============================================================================
