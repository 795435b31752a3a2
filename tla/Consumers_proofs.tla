--------------------------- MODULE Consumers_proofs ---------------------------
(***************************************************************************)
(* What the comparing commands say of a history, for any number of         *)
(* processes, sessions and cases.                                          *)
(***************************************************************************)
EXTENDS Consumers, Verdicts_proofs, FiniteSetTheorems, SequenceTheorems

-----------------------------------------------------------------------------
(* The ladder *)

(* Every ranked verdict has a rank. *)
LEMMA RankType ==
  ASSUME NEW v \in Verdict, Ranked(v)
  PROVE  QUALITY_RANK(v) \in 0..4
BY DEF Verdict, Ranked, OffTheLadder, QUALITY_RANK

(* The rank of a ranked verdict gives the class of exit code it stands     *)
(* for.                                                                    *)
LEMMA RankClass ==
  ASSUME NEW v \in Verdict, Ranked(v)
  PROVE  /\ v \in Failure <=> QUALITY_RANK(v) = 4
         /\ v \in Degraded <=> QUALITY_RANK(v) \in {2, 3}
         /\ v \in Success <=> QUALITY_RANK(v) \in {0, 1}
BY DEF Verdict, Ranked, OffTheLadder, QUALITY_RANK, Failure, Degraded, Success

(* diff and timeline flag a change exactly when it is for the worse.       *)
LEMMA RegressedIsWorse ==
  ASSUME NEW b \in Verdict, NEW c \in Verdict
  PROVE  classify_transition(b, c) = "regressed" <=> Worse(c, b)
<1>1. CASE b = c
  BY <1>1, RankType DEF classify_transition, Worse
<1>2. CASE b # c /\ Worse(c, b)
  <2>1. ~ Worse(b, c)
    BY <1>2, RankType DEF Worse
  <2>2. b # "INSUFFICIENT"
    BY <1>2 DEF Worse, Ranked, OffTheLadder
  <2> QED
    BY <1>2, <2>1, <2>2 DEF classify_transition
<1>3. CASE b # c /\ ~ Worse(c, b)
  BY <1>3 DEF classify_transition
<1> QED
  BY <1>1, <1>2, <1>3

(* The same verdict is no change.                                          *)
LEMMA SameIsUnchanged ==
  ASSUME NEW v \in Verdict
  PROVE  classify_transition(v, v) = "unchanged"
<1>1. ~ Worse(v, v)
  BY RankType DEF Worse
<1>2. v = "INSUFFICIENT" => v \notin Success
  BY DEF Success
<1> QED
  BY <1>1, <1>2 DEF classify_transition

(* The exit code goes by the class of the verdict.                         *)
LEMMA ExitCodeOfClass ==
  ASSUME NEW v
  PROVE  /\ v \in Failure => exit_code_for(v) = 2
         /\ v \in Degraded => exit_code_for(v) = 1
         /\ v \in Success => exit_code_for(v) = 0
<1>1. v \in Failure => v \notin Success \cup Degraded
  BY DEF Failure, Success, Degraded
<1>2. v \in Degraded => v \notin Success
  BY DEF Success, Degraded
<1> QED
  BY <1>1, <1>2 DEF exit_code_for

(* The status of a session all cases of which are ranked is that of its    *)
(* worst class of cases.                                                   *)
LEMMA StatusOfRanked ==
  ASSUME NEW v, DOMAIN v # {},
         \A c \in DOMAIN v : v[c] \in Verdict /\ Ranked(v[c])
  PROVE  exit_code_for(resolve_session(v))
           = IF \E c \in DOMAIN v : v[c] \in Failure THEN 2
             ELSE IF \E c \in DOMAIN v : v[c] \in Degraded THEN 1
             ELSE 0
<1> USE DEF TaintOrder
<1>1. CASE \E c \in DOMAIN v : v[c] \in Failure
  <2>1. \E k \in {2, 3} : k \in Taints(v)
    BY <1>1 DEF Failure, Taints, Ranked, OffTheLadder
  <2>2. PICK k \in Taints(v) : /\ resolve_session(v) = TaintOrder[k]
                               /\ \A j \in Taints(v) : k <= j
    BY <2>1, TaintFirst
  <2>3. k \in {1, 2, 3}
    BY <2>1, <2>2 DEF Taints
  <2>4. resolve_session(v) \in Failure
    BY <2>2, <2>3 DEF Failure
  <2> QED
    BY <1>1, <2>4, ExitCodeOfClass
<1>2. CASE /\ \A c \in DOMAIN v : v[c] \notin Failure
           /\ \E c \in DOMAIN v : v[c] \in Degraded
  <2>1. \E k \in {4, 5, 6} : k \in Taints(v)
    BY <1>2 DEF Degraded, Taints
  <2>2. PICK k \in Taints(v) : resolve_session(v) = TaintOrder[k]
    BY <2>1, TaintFirst
  <2>3. k \in {4, 5, 6}
    BY <1>2 DEF Taints, Failure
  <2>4. resolve_session(v) \in Degraded
    BY <2>2, <2>3 DEF Degraded
  <2> QED
    BY <1>2, <2>4, ExitCodeOfClass
<1>3. CASE \A c \in DOMAIN v : v[c] \notin Failure \cup Degraded
  <2>1. Taints(v) = {}
    BY <1>3 DEF Taints, Failure, Degraded
  <2>2. ~ AllAre(v, "INSUFFICIENT")
    BY DEF AllAre, Ranked, OffTheLadder
  <2>3. resolve_session(v) \in Success
    BY <2>1, <2>2 DEF resolve_session, Success
  <2> QED
    BY <1>3, <2>3, ExitCodeOfClass
<1> QED
  BY <1>1, <1>2, <1>3

(* A session with a worse status than another of the same cases has a case *)
(* that is worse.                                                          *)
LEMMA WorseCase ==
  ASSUME NEW v, NEW w, DOMAIN v = DOMAIN w, DOMAIN v # {},
         \A c \in DOMAIN v : v[c] \in Verdict /\ Ranked(v[c]),
         \A c \in DOMAIN w : w[c] \in Verdict /\ Ranked(w[c]),
         exit_code_for(resolve_session(w)) > exit_code_for(resolve_session(v))
  PROVE  \E c \in DOMAIN v : Worse(w[c], v[c])
<1>1. CASE \E c \in DOMAIN w : w[c] \in Failure
  <2>1. PICK c \in DOMAIN w : w[c] \in Failure
    BY <1>1
  <2>2. v[c] \notin Failure
    BY <1>1, StatusOfRanked
  <2> QED
    BY <2>1, <2>2, RankClass, RankType DEF Worse
<1>2. CASE \A c \in DOMAIN w : w[c] \notin Failure
  <2>1. PICK c \in DOMAIN w : w[c] \in Degraded
    BY <1>2, StatusOfRanked
  <2>2. v[c] \notin Failure \cup Degraded
    BY <1>2, StatusOfRanked
  <2> QED
    BY <2>1, <2>2, RankClass, RankType DEF Worse
<1> QED
  BY <1>1, <1>2

-----------------------------------------------------------------------------
(* Reachable states *)

ConsumersInv ==
  /\ TypeOK
  /\ IsFiniteSet(stored)

(* Artifacts stay what they are while runs are counted and time goes on.   *)
LEMMA ArtifactsLast ==
  ASSUME count \in Nat, count' \in Nat, count <= count',
         clock \in Nat, clock' \in Nat, clock <= clock',
         NEW a, IsArtifact(a)
  PROVE  IsArtifact(a)'
<1>1. 1..count \subseteq 1..count' /\ 0..clock \subseteq 0..clock'
  OBVIOUS
<1> QED
  BY <1>1 DEF IsArtifact

(* Every step of every process keeps the invariant.                        *)
LEMMA ConsumersStep == ConsumersInv /\ [Next]_vars => ConsumersInv'
<1> SUFFICES ASSUME ConsumersInv, [Next]_vars PROVE ConsumersInv'
  OBVIOUS
<1> USE ConsumersAssumption DEF ConsumersInv
<1>t. count \in Nat /\ clock \in Nat /\ DOMAIN inflight = Procs
  BY DEF TypeOK
<1>1. ASSUME NEW p \in Procs, Conclude(p) PROVE ConsumersInv'
  <2>1. PICK o \in Outcomes, now \in {clock, clock + 1} :
          /\ inflight' = [inflight EXCEPT ![p] = {ArtifactOf(o, count', now)}]
          /\ clock' = now
    BY <1>1 DEF Conclude
  <2>2. count' = count + 1 /\ count' \in 0..MaxSessions /\ stored' = stored
    BY <1>1, <1>t DEF Conclude, ConsumersAssumption
  <2>3. clock' \in 0..count' /\ clock <= clock'
    BY <1>t, <2>1, <2>2 DEF TypeOK
  <2>4. \A a : IsArtifact(a) => IsArtifact(a)'
    BY <1>t, <2>2, <2>3, ArtifactsLast
  <2>5. ASSUME NEW a, a = ArtifactOf(o, count', now) PROVE IsArtifact(a)'
    <3>1. \E id \in 1..count', at \in 0..clock' : a = ArtifactOf(o, id, at)
      BY <1>t, <2>1, <2>2, <2>5
    <3> QED
      BY <3>1 DEF IsArtifact
  <2>6. ASSUME NEW r \in Procs
        PROVE  \/ inflight'[r] = {}
               \/ \E a \in inflight'[r] : inflight'[r] = {a} /\ IsArtifact(a)'
    <3>1. CASE r = p
      <4>1. inflight'[r] = {ArtifactOf(o, count', now)}
        BY <1>t, <2>1, <3>1
      <4> QED
        BY <2>5, <4>1
    <3>2. CASE r # p
      BY <1>t, <2>1, <2>4, <3>2 DEF TypeOK
    <3> QED
      BY <3>1, <3>2
  <2>7. DOMAIN inflight' = Procs
    BY <1>t, <2>1
  <2> QED
    BY <2>2, <2>3, <2>4, <2>6, <2>7 DEF TypeOK
<1>2. ASSUME NEW p \in Procs, SaveSession(p) PROVE ConsumersInv'
  <2>1. PICK a \in inflight[p] : inflight[p] = {a} /\ IsArtifact(a)
    BY <1>2 DEF SaveSession, TypeOK
  <2>2. stored' = stored \cup {a} /\ IsFiniteSet(stored')
    BY <1>2, <2>1, FS_AddElement DEF SaveSession
  <2>3. /\ UNCHANGED <<clock, count>>
        /\ inflight' = [inflight EXCEPT ![p] = {}]
    BY <1>2 DEF SaveSession
  <2> QED
    BY <1>t, <2>1, <2>2, <2>3 DEF TypeOK, IsArtifact
<1>3. ASSUME NEW p \in Procs, LoseSession(p) PROVE ConsumersInv'
  BY <1>t, <1>3 DEF LoseSession, TypeOK, IsArtifact
<1>4. CASE UNCHANGED vars
  BY <1>4 DEF vars, TypeOK, IsArtifact
<1> QED
  BY <1>1, <1>2, <1>3, <1>4 DEF Next

(* The invariant holds of every history, whatever the processes do.        *)
THEOREM ConsumersSafe == Spec => []ConsumersInv
<1>1. Init => ConsumersInv
  BY ConsumersAssumption, FS_EmptySet
  DEF Init, ConsumersInv, TypeOK, ConsumersAssumption
<1> QED
  BY <1>1, ConsumersStep, PTL DEF Spec

(* What is stored is an artifact of a run, and its verdict is the roll-up  *)
(* of its cases.                                                           *)
THEOREM HistoryTypeCorrect == Spec => []TypeOK
<1>1. ConsumersInv => TypeOK
  BY DEF ConsumersInv
<1> QED
  BY <1>1, ConsumersSafe, PTL

(* The cases of a stored artifact have verdicts of the taxonomy.           *)
LEMMA StoredArtifact ==
  ASSUME ConsumersInv, NEW a \in stored
  PROVE  /\ a.verdict = resolve_session(CaseVerdicts(a.cases))
         /\ a.at \in Nat
         /\ Tested(a) # {}
         /\ \A c \in Tested(a) : /\ a.cases[c].verdict \in Verdict
                                /\ a.cases[c].lo \in 0..100
<1>1. PICK o \in Outcomes, id \in 1..count, at \in 0..clock :
        a = ArtifactOf(o, id, at)
  BY DEF ConsumersInv, TypeOK, IsArtifact
<1>2. /\ a.cases = o.cases /\ a.at = at
      /\ a.verdict = resolve_session(CaseVerdicts(o.cases))
  BY <1>1 DEF ArtifactOf
<1>3. IsOutcome(o)
  BY ConsumersAssumption DEF ConsumersAssumption
<1>4. at \in Nat
  OBVIOUS
<1> QED
  BY <1>2, <1>3, <1>4 DEF IsOutcome, Tested

-----------------------------------------------------------------------------
(* diff *)

(* The three tables agree, for every pair of sessions of the same cases:   *)
(* no worse exit code of run without a regression of diff.                 *)
THEOREM DiffSeesWorseStatus == Spec => []WorseStatusIsFlagged
<1>1. ASSUME ConsumersInv PROVE WorseStatusIsFlagged
  <2> SUFFICES ASSUME NEW a \in stored, NEW b \in stored, NEW strict \in BOOLEAN,
                      Tested(a) = Tested(b), AllRanked(a), AllRanked(b),
                      exit_code_for(b.verdict) > exit_code_for(a.verdict)
               PROVE  diff_exit_code(a, b, strict) = RegressionCode
    BY DEF WorseStatusIsFlagged
  <2> DEFINE v == CaseVerdicts(a.cases)
             w == CaseVerdicts(b.cases)
  <2>1. /\ DOMAIN v = Tested(a) /\ DOMAIN w = Tested(a)
        /\ \A c \in Tested(a) : /\ v[c] = a.cases[c].verdict
                               /\ w[c] = b.cases[c].verdict
    BY DEF CaseVerdicts, Tested
  <2>2. \A c \in Tested(a) : /\ v[c] \in Verdict /\ Ranked(v[c])
                             /\ w[c] \in Verdict /\ Ranked(w[c])
    BY <1>1, <2>1, StoredArtifact DEF AllRanked
  <2>3. a.verdict = resolve_session(v) /\ b.verdict = resolve_session(w)
    BY <1>1, StoredArtifact
  <2>4. Tested(a) # {}
    BY <1>1, StoredArtifact
  <2> HIDE DEF v, w
  <2>5. PICK c \in Tested(a) : Worse(w[c], v[c])
    BY <2>1, <2>2, <2>3, <2>4, WorseCase
  <2>6. compute_diff(a, b)[c] = "regressed"
    BY <2>1, <2>2, <2>5, RegressedIsWorse DEF compute_diff
  <2>7. c \in DOMAIN compute_diff(a, b)
    BY DEF compute_diff
  <2> QED
    BY <2>6, <2>7 DEF diff_exit_code, Fails, Regressed
<1> QED
  BY <1>1, ConsumersSafe, PTL

-----------------------------------------------------------------------------
(* timeline *)

(* The sessions that hold a case are finitely many stored ones.            *)
LEMMA HoldingType ==
  ASSUME ConsumersInv, NEW c
  PROVE  Holding(c) \subseteq stored /\ IsFiniteSet(Holding(c))
BY FS_Subset DEF Holding, ConsumersInv

(* A listing is a sequence of its set, newest first, with nothing newer    *)
(* left out.                                                               *)
LEMMA ListingIsSequence ==
  ASSUME NEW s, IsFiniteSet(s), NEW limit \in Nat, NEW q \in Listings(s, limit)
  PROVE  /\ Len(q) = IF Cardinality(s) < limit THEN Cardinality(s) ELSE limit
         /\ Len(q) \in Nat
         /\ q \in [1..Len(q) -> s]
         /\ \A i, j \in 1..Len(q) : i < j => q[i] # q[j] /\ q[i].at >= q[j].at
         /\ \A a \in s : \/ \E i \in 1..Len(q) : q[i] = a
                         \/ \A i \in 1..Len(q) : q[i].at >= a.at
<1> DEFINE n == IF Cardinality(s) < limit THEN Cardinality(s) ELSE limit
<1>1. n \in Nat
  BY FS_CardinalityType
<1>2. /\ q \in [1..n -> s]
      /\ \A i, j \in 1..n : i < j => q[i] # q[j] /\ q[i].at >= q[j].at
      /\ \A a \in s : \/ \E i \in 1..n : q[i] = a
                      \/ \A i \in 1..n : q[i].at >= a.at
  BY DEF Listings
<1> HIDE DEF n
<1>3. Len(q) = n
  BY <1>1, <1>2
<1> QED
  BY <1>1, <1>2, <1>3 DEF n

(* When timeline exits with 5. *)
LEMMA TimelineOfSessions ==
  ASSUME NEW c, NEW s, \A x \in s : x.cases[c].verdict \in Verdict,
         NEW n \in Nat \ {0}, NEW q \in [1..n -> s], Len(q) = n
  PROVE  cmd_timeline(q, c) = RegressionCode
           <=> \E i \in 1..(n - 1) :
                 Worse(q[i].cases[c].verdict, q[i + 1].cases[c].verdict)
<1> DEFINE V == Chronological(q, c)
<1>1. \A i \in 1..n : q[i].cases[c].verdict \in Verdict
  OBVIOUS
<1>2. V = [i \in 1..n |-> q[n + 1 - i].cases[c].verdict] /\ Len(V) = n
  BY DEF Chronological
<1>3. cmd_timeline(q, c) = RegressionCode
        <=> \E i \in 2..n : classify_transition(V[i - 1], V[i]) = "regressed"
  <2>1. compute_timeline(V) = {}
          <=> ~ \E i \in 2..n : classify_transition(V[i - 1], V[i]) = "regressed"
    <3>1. compute_timeline(V)
            = { i \in 2..n : classify_transition(V[i - 1], V[i]) = "regressed" }
      BY <1>2 DEF compute_timeline
    <3> QED
      BY <3>1, Zenon
  <2>2. q # <<>>
    OBVIOUS
  <2>3. cmd_timeline(q, c) = RegressionCode <=> compute_timeline(V) # {}
    BY <2>2 DEF cmd_timeline, RegressionCode, ErrorCode
  <2> QED
    BY <2>1, <2>3
<1> HIDE DEF V
<1>4. ASSUME NEW i \in 2..n
      PROVE  /\ n + 1 - i \in 1..(n - 1)
             /\ classify_transition(V[i - 1], V[i]) = "regressed"
                  <=> Worse(q[n + 1 - i].cases[c].verdict,
                            q[n + 1 - i + 1].cases[c].verdict)
  <2>1. /\ n + 1 - i \in 1..n /\ n + 1 - i + 1 \in 1..n
        /\ n + 1 - (i - 1) = n + 1 - i + 1
        /\ i \in 1..n /\ i - 1 \in 1..n
    OBVIOUS
  <2>2. /\ V[i] = q[n + 1 - i].cases[c].verdict
        /\ V[i - 1] = q[n + 1 - i + 1].cases[c].verdict
    BY <1>2, <2>1
  <2>3. V[i] \in Verdict /\ V[i - 1] \in Verdict
    BY <1>1, <2>1, <2>2
  <2>4. n + 1 - i \in 1..(n - 1)
    OBVIOUS
  <2> QED
    BY <2>2, <2>3, <2>4, RegressedIsWorse
<1>5. ASSUME NEW k \in 1..(n - 1),
             Worse(q[k].cases[c].verdict, q[k + 1].cases[c].verdict)
      PROVE  \E i \in 2..n : classify_transition(V[i - 1], V[i]) = "regressed"
  <2>1. n + 1 - k \in 2..n /\ n + 1 - (n + 1 - k) = k
    OBVIOUS
  <2> QED
    BY <1>4, <1>5, <2>1
<1> QED
  BY <1>3, <1>4, <1>5

(* The verdicts of a listing of the store. *)
LEMMA TimelineOfListing ==
  ASSUME ConsumersInv, NEW c, NEW limit \in Nat,
         NEW q \in Listings(Holding(c), limit), q # <<>>
  PROVE  /\ Len(q) \in Nat \ {0}
         /\ \A i \in 1..Len(q) : /\ q[i] \in Holding(c)
                                /\ q[i].cases[c].verdict \in Verdict
         /\ cmd_timeline(q, c) = RegressionCode
              <=> \E i \in 1..(Len(q) - 1) :
                    Worse(q[i].cases[c].verdict, q[i + 1].cases[c].verdict)
<1>1. Len(q) \in Nat /\ q \in [1..Len(q) -> Holding(c)]
  BY HoldingType, ListingIsSequence
<1>2. Len(q) \in Nat \ {0}
  BY <1>1
<1>3. \A x \in Holding(c) : x.cases[c].verdict \in Verdict
  BY StoredArtifact DEF Holding
<1> QED
  BY <1>1, <1>2, <1>3, TimelineOfSessions

(* A number that rises by at most d a step has risen by at most d for each *)
(* step.                                                                   *)
LEMMA SlowRise ==
  ASSUME NEW n \in Nat \ {0}, NEW r \in [1..n -> Int], NEW d \in {0, 9},
         \A i \in 1..(n - 1) : r[i + 1] <= r[i] + d
  PROVE  \A i \in 1..n : r[i] <= r[1] + d * (i - 1)
<1> DEFINE High == { i \in 1..n : r[i] > r[1] + d * (i - 1) }
<1>1. High = {}
  <2> SUFFICES ASSUME High # {} PROVE FALSE
    OBVIOUS
  <2>1. PICK m \in High : \A k \in High : m <= k
    <3>1. High \in SUBSET Nat
      OBVIOUS
    <3> HIDE DEF High
    <3> QED
      BY <3>1, LeastNatural
  <2>2. m \in 1..n /\ m # 1 /\ m - 1 \in 1..(n - 1)
    OBVIOUS
  <2>3. m - 1 \notin High
    BY <2>1, <2>2
  <2>4. PICK k, x, y, z : k = m - 1 /\ x = r[k] /\ y = r[m] /\ z = r[1]
    OBVIOUS
  <2>5. /\ k \in Int /\ k \in 1..n /\ m = k + 1
        /\ x \in Int /\ y \in Int /\ z \in Int
    BY <2>2, <2>4
  <2>6. ~ (x > z + d * (k - 1))
    BY <2>3, <2>4, <2>5
  <2>7. y <= x + d
    <3>1. r[k + 1] <= r[k] + d
      BY <2>2, <2>4
    <3> QED
      BY ONLY <2>4, <2>5, <3>1
  <2>8. y > z + d * k
    <3>1. r[m] > r[1] + d * (m - 1)
      OBVIOUS
    <3> QED
      BY ONLY <2>4, <3>1
  <2>9. CASE d = 0
    BY ONLY <2>5, <2>6, <2>7, <2>8, <2>9
  <2>10. CASE d = 9
    BY ONLY <2>5, <2>6, <2>7, <2>8, <2>10
  <2> QED
    BY <2>9, <2>10
<1> QED
  <2>1. ASSUME NEW i \in 1..n PROVE r[i] <= r[1] + d * (i - 1)
    <3>1. r[i] \in Int /\ r[1] \in Int
      OBVIOUS
    <3> QED
      BY <1>1, <3>1
  <2> QED
    BY <2>1

(* A downgrade between the oldest and the newest session that timeline is  *)
(* quiet about has a verdict off the ladder on its way, in a history of    *)
(* any length.                                                             *)
THEOREM TimelineHasNoBlindSpot == Spec => []QuietTimelineHasAGap
<1>1. ASSUME ConsumersInv PROVE QuietTimelineHasAGap
  <2> SUFFICES ASSUME NEW c \in CaseIds, NEW q \in Everything(c), q # <<>>,
                      compute_diff(q[Len(q)], q[1])[c] = "regressed",
                      cmd_timeline(q, c) # RegressionCode,
                      \A i \in 2..(Len(q) - 1) : Ranked(q[i].cases[c].verdict)
               PROVE  FALSE
    BY DEF QuietTimelineHasAGap
  <2> DEFINE n == Len(q)
             v == [i \in 1..n |-> q[i].cases[c].verdict]
             r == [i \in 1..n |-> QUALITY_RANK(v[n + 1 - i])]
  <2>1. /\ n \in Nat \ {0}
        /\ \A i \in 1..n : q[i] \in Holding(c) /\ v[i] \in Verdict
        /\ ~ \E i \in 1..(n - 1) : Worse(v[i], v[i + 1])
    <3>1. q \in Listings(Holding(c), MaxSessions) /\ MaxSessions \in Nat
      BY ConsumersAssumption DEF Everything, ConsumersAssumption
    <3>2. /\ n \in Nat \ {0}
          /\ \A i \in 1..n : /\ q[i] \in Holding(c)
                            /\ q[i].cases[c].verdict \in Verdict
          /\ ~ \E i \in 1..(n - 1) :
                 Worse(q[i].cases[c].verdict, q[i + 1].cases[c].verdict)
      BY <1>1, <3>1, TimelineOfListing
    <3> HIDE DEF n
    <3>3. \A i \in 1..(n - 1) : i \in 1..n /\ i + 1 \in 1..n
      BY <3>2
    <3> QED
      BY <3>2, <3>3
  <2>2. Worse(v[1], v[n])
    <3>1. c \in Tested(q[1]) /\ c \in Tested(q[n])
      BY <2>1 DEF Holding
    <3>2. classify_transition(v[n], v[1]) = "regressed"
      BY <2>1, <3>1 DEF compute_diff
    <3> QED
      BY <2>1, <3>2, RegressedIsWorse
  <2>3. \A i \in 1..n : Ranked(v[i])
    <3>1. Ranked(v[1]) /\ Ranked(v[n])
      BY <2>2 DEF Worse
    <3>2. \A i \in 1..n : i = 1 \/ i = n \/ i \in 2..(n - 1)
      BY <2>1
    <3> QED
      BY <3>1, <3>2
  <2> HIDE DEF n, v
  <2>4. r \in [1..n -> Int] /\ \A i \in 1..n : r[i] = QUALITY_RANK(v[n + 1 - i])
    <3>1. \A i \in 1..n : n + 1 - i \in 1..n
      BY <2>1
    <3>2. \A i \in 1..n : QUALITY_RANK(v[n + 1 - i]) \in 0..4
      BY <2>1, <2>3, <3>1, RankType
    <3> QED
      BY <3>2
  <2>5. ASSUME NEW i \in 1..(n - 1) PROVE r[i + 1] <= r[i] + 0
    <3>1. /\ i \in 1..n /\ i + 1 \in 1..n /\ n - i \in 1..(n - 1)
          /\ n + 1 - i = n - i + 1 /\ n + 1 - (i + 1) = n - i
          /\ n - i \in 1..n /\ n - i + 1 \in 1..n
      BY <2>1
    <3>2. ~ Worse(v[n - i], v[n - i + 1])
      BY <2>1, <3>1
    <3>3. QUALITY_RANK(v[n - i]) <= QUALITY_RANK(v[n - i + 1])
      BY <2>1, <2>3, <3>1, <3>2, RankType DEF Worse
    <3>4. /\ r[i] = QUALITY_RANK(v[n - i + 1]) /\ r[i] \in Int
          /\ r[i + 1] = QUALITY_RANK(v[n - i]) /\ r[i + 1] \in Int
      BY <2>4, <3>1
    <3> QED
      BY <3>3, <3>4
  <2> HIDE DEF r
  <2>6. r[n] <= r[1] + 0 * (n - 1)
    <3>1. n \in 1..n
      BY <2>1
    <3> QED
      BY <2>1, <2>4, <2>5, <3>1, SlowRise
  <2>7. r[n] = QUALITY_RANK(v[1]) /\ r[1] = QUALITY_RANK(v[n])
    <3>1. 1 \in 1..n /\ n \in 1..n /\ n + 1 - n = 1 /\ n + 1 - 1 = n
      BY <2>1
    <3> QED
      BY <2>4, <3>1
  <2>8. r[n] \in Int /\ r[1] \in Int
    BY <2>1, <2>4
  <2> QED
    BY <2>1, <2>2, <2>6, <2>7, <2>8 DEF Worse
<1> QED
  BY <1>1, ConsumersSafe, PTL

(* timeline invents nothing: a flagged regression is a downgrade between   *)
(* two stored sessions in the order of their stamps.                       *)
THEOREM FlagsAreTrue == Spec => []FlaggedDowngradeHappened
<1>1. ASSUME ConsumersInv PROVE FlaggedDowngradeHappened
  <2> SUFFICES ASSUME NEW c \in CaseIds, NEW q \in Everything(c),
                      cmd_timeline(q, c) = RegressionCode
               PROVE  \E a, b \in Holding(c) :
                        /\ a.at <= b.at
                        /\ Worse(b.cases[c].verdict, a.cases[c].verdict)
    BY DEF FlaggedDowngradeHappened, Flagged
  <2>1. q \in Listings(Holding(c), MaxSessions) /\ MaxSessions \in Nat
    BY ConsumersAssumption DEF Everything, ConsumersAssumption
  <2>2. q # <<>>
    BY DEF cmd_timeline, RegressionCode, ErrorCode
  <2>3. PICK i \in 1..(Len(q) - 1) :
          Worse(q[i].cases[c].verdict, q[i + 1].cases[c].verdict)
    BY <1>1, <2>1, <2>2, TimelineOfListing
  <2>4. /\ Len(q) \in Nat /\ q \in [1..Len(q) -> Holding(c)]
        /\ \A j, k \in 1..Len(q) : j < k => q[j].at >= q[k].at
    BY <1>1, <2>1, HoldingType, ListingIsSequence
  <2>5. i \in 1..Len(q) /\ i + 1 \in 1..Len(q) /\ i < i + 1
    BY <2>4
  <2>6. q[i] \in Holding(c) /\ q[i + 1] \in Holding(c) /\ q[i].at >= q[i + 1].at
    BY <2>4, <2>5
  <2>7. q[i].at \in Nat /\ q[i + 1].at \in Nat
    BY <1>1, <2>6, StoredArtifact DEF Holding
  <2> QED
    BY <2>3, <2>6, <2>7
<1> QED
  BY <1>1, ConsumersSafe, PTL

(* However long the history, the regression of the newest session is found *)
(* in any window of two sessions or more.                                  *)
THEOREM LatestIsInTheWindow == Spec => []WindowSeesTheLatest
<1>1. ASSUME ConsumersInv PROVE WindowSeesTheLatest
  <2> SUFFICES ASSUME NEW c \in CaseIds, NEW a \in Holding(c), NEW b \in Holding(c),
                      a.at < b.at,
                      \A x \in Holding(c) \ {a, b} : x.at < a.at,
                      Worse(b.cases[c].verdict, a.cases[c].verdict),
                      NEW q \in Listings(Holding(c), Window)
               PROVE  cmd_timeline(q, c) = RegressionCode
    BY DEF WindowSeesTheLatest
  <2> DEFINE s == Holding(c)
             n == Len(q)
  <2>1. IsFiniteSet(s) /\ Window \in Nat /\ Window >= 2
    BY <1>1, HoldingType, ConsumersAssumption DEF ConsumersAssumption
  <2>2. \A x \in s : x.at \in Nat
    BY <1>1, HoldingType, StoredArtifact
  <2>3. a # b
    BY <2>2
  <2>4. Cardinality(s) \in Nat /\ Cardinality(s) >= 2
    <3>1. {a, b} \subseteq s
      OBVIOUS
    <3>2. Cardinality({a, b}) = 2
      <4>1. {a, b} = {a} \cup {b} /\ b \notin {a}
        BY <2>3
      <4>2. IsFiniteSet({a}) /\ Cardinality({a}) = 1
        BY FS_Singleton
      <4>3. Cardinality({a} \cup {b}) = 1 + 1
        BY <4>1, <4>2, FS_AddElement
      <4> QED
        BY <4>1, <4>3
    <3> HIDE DEF s
    <3> QED
      BY <2>1, <3>1, <3>2, FS_Subset, FS_CardinalityType
  <2>5. /\ n \in Nat /\ n >= 2
        /\ q \in [1..n -> s]
        /\ \A i, j \in 1..n : i < j => q[i] # q[j] /\ q[i].at >= q[j].at
        /\ \A x \in s : \/ \E i \in 1..n : q[i] = x
                        \/ \A i \in 1..n : q[i].at >= x.at
    <3>1. /\ n = IF Cardinality(s) < Window THEN Cardinality(s) ELSE Window
          /\ q \in [1..n -> s]
          /\ \A i, j \in 1..n : i < j => q[i] # q[j] /\ q[i].at >= q[j].at
          /\ \A x \in s : \/ \E i \in 1..n : q[i] = x
                          \/ \A i \in 1..n : q[i].at >= x.at
      BY <2>1, ListingIsSequence
    <3> HIDE DEF n, s
    <3> QED
      BY <2>1, <2>4, <3>1
  <2> HIDE DEF n
  <2>6. 1 \in 1..n /\ 2 \in 1..n /\ 1 \in 1..(n - 1)
    BY <2>5
  <2>7. q[1] = b
    <3>1. \A x \in s : x.at >= b.at => x = b
      BY <2>2
    <3>2. \A i \in 1..n : q[1].at >= q[i].at
      <4>1. \A i \in 1..n : i = 1 \/ 1 < i
        BY <2>5
      <4>2. q[1].at \in Nat
        BY <2>2, <2>5, <2>6
      <4> QED
        BY <2>5, <2>6, <4>1, <4>2
    <3>3. q[1].at >= b.at
      BY <2>5, <2>6, <3>2
    <3> QED
      BY <2>5, <2>6, <3>1, <3>3
  <2>8. q[2] = a
    <3>1. \A x \in s : x # b /\ x.at >= a.at => x = a
      BY <2>2
    <3>2. q[2] # b
      BY <2>5, <2>6, <2>7
    <3>3. q[2].at >= a.at
      <4>1. CASE \E i \in 1..n : q[i] = a
        <5>1. PICK i \in 1..n : q[i] = a
          BY <4>1
        <5>2. i # 1
          BY <2>3, <2>7, <5>1
        <5>3. i = 2 \/ 2 < i
          BY <2>5, <5>2
        <5> QED
          BY <2>2, <2>5, <2>6, <5>1, <5>3
      <4>2. CASE ~ \E i \in 1..n : q[i] = a
        BY <2>5, <2>6, <4>2
      <4> QED
        BY <4>1, <4>2
    <3> QED
      BY <2>5, <2>6, <3>1, <3>2, <3>3
  <2>9. Worse(q[1].cases[c].verdict, q[1 + 1].cases[c].verdict)
    BY <2>7, <2>8
  <2>10. q # <<>>
    BY <2>5 DEF n
  <2> QED
    BY <1>1, <2>1, <2>6, <2>9, <2>10, TimelineOfListing DEF n
<1> QED
  BY <1>1, ConsumersSafe, PTL

(* Steps that pass diff --strict one by one lose less than the threshold   *)
(* each, in a history of any length.                                       *)
THEOREM ErosionHasABound == Spec => []ErosionIsBounded
<1>1. ASSUME ConsumersInv PROVE ErosionIsBounded
  <2> SUFFICES ASSUME NEW c \in CaseIds, NEW q \in Everything(c), Len(q) >= 2,
                      \A i \in 1..(Len(q) - 1) :
                        /\ diff_exit_code(q[i + 1], q[i], TRUE) # RegressionCode
                        /\ q[i].cases[c].verdict = q[i + 1].cases[c].verdict
               PROVE  q[Len(q)].cases[c].lo - q[1].cases[c].lo
                        < STRICT_CONFIDENCE_DROP_THRESHOLD * (Len(q) - 1)
    BY DEF ErosionIsBounded
  <2> DEFINE n == Len(q)
             lo == [i \in 1..n |-> q[i].cases[c].lo]
  <2>1. n \in Nat /\ q \in [1..n -> Holding(c)]
    <3>1. q \in Listings(Holding(c), MaxSessions) /\ MaxSessions \in Nat
      BY ConsumersAssumption DEF Everything, ConsumersAssumption
    <3> QED
      BY <1>1, <3>1, HoldingType, ListingIsSequence
  <2>2. /\ lo \in [1..n -> Int]
        /\ \A i \in 1..n : /\ lo[i] = q[i].cases[c].lo
                          /\ q[i].cases[c].verdict \in Verdict
    <3>1. ASSUME NEW i \in 1..n
          PROVE  /\ q[i].cases[c].lo \in Int
                 /\ q[i].cases[c].verdict \in Verdict
      <4>1. q[i] \in stored /\ c \in Tested(q[i])
        BY <2>1 DEF Holding
      <4>2. q[i].cases[c].lo \in 0..100 /\ q[i].cases[c].verdict \in Verdict
        BY <1>1, <4>1, StoredArtifact
      <4>3. \A x \in 0..100 : x \in Int
        OBVIOUS
      <4> QED
        BY <4>2, <4>3, Zenon
    <3> HIDE DEF n
    <3> QED
      BY <3>1
  <2> HIDE DEF lo
  <2>3. ASSUME NEW i \in 1..(n - 1) PROVE lo[i + 1] - lo[i] < 10
    <3>1. i \in 1..n /\ i + 1 \in 1..n
      BY <2>1
    <3>2. c \in Tested(q[i]) /\ c \in Tested(q[i + 1])
      BY <2>1, <3>1 DEF Holding
    <3>3. /\ compute_diff(q[i + 1], q[i])[c] = "unchanged"
          /\ c \in DOMAIN compute_diff(q[i + 1], q[i])
      <4>1. /\ q[i + 1].cases[c].verdict = q[i].cases[c].verdict
            /\ q[i].cases[c].verdict \in Verdict
        BY <2>2, <3>1
      <4>2. compute_diff(q[i + 1], q[i])[c]
              = classify_transition(q[i].cases[c].verdict, q[i].cases[c].verdict)
        BY <3>2, <4>1 DEF compute_diff
      <4> QED
        BY <3>2, <4>1, <4>2, SameIsUnchanged DEF compute_diff
    <3>4. ~ LostConfidence(compute_diff(q[i + 1], q[i]), q[i + 1], q[i])
      BY DEF diff_exit_code, Fails
    <3>5. ~ (q[i + 1].cases[c].lo - q[i].cases[c].lo >= 10)
      BY <3>3, <3>4 DEF LostConfidence, STRICT_CONFIDENCE_DROP_THRESHOLD
    <3>6. lo[i] \in Int /\ lo[i + 1] \in Int
      BY <2>2, <3>1
    <3> QED
      BY <2>2, <3>1, <3>5, <3>6
  <2> HIDE DEF n
  <2>4. lo[n] \in Int /\ lo[1] \in Int /\ n \in Nat /\ n >= 2
    <3>1. 1 \in 1..n /\ n \in 1..n /\ n >= 2
      BY <2>1 DEF n
    <3> QED
      BY <2>1, <2>2, <3>1
  <2>5. lo[n] <= lo[1] + 9 * (n - 1)
    <3>1. lo \in [1..n -> Int]
      BY <2>2
    <3>2. ASSUME NEW i \in 1..(n - 1) PROVE lo[i + 1] <= lo[i] + 9
      <4>1. i \in 1..n /\ i + 1 \in 1..n
        BY <2>1
      <4>2. lo[i] \in Int /\ lo[i + 1] \in Int
        BY <2>2, <4>1
      <4> QED
        BY <2>3, <4>2
    <3>3. n \in Nat \ {0} /\ n \in 1..n
      BY <2>4
    <3> QED
      BY <3>1, <3>2, <3>3, SlowRise
  <2>6. lo[n] - lo[1] < 10 * (n - 1)
    BY <2>4, <2>5
  <2>7. lo[n] = q[n].cases[c].lo /\ lo[1] = q[1].cases[c].lo
    BY <2>2, <2>4
  <2> QED
    BY <2>6, <2>7 DEF n, STRICT_CONFIDENCE_DROP_THRESHOLD
<1> QED
  BY <1>1, ConsumersSafe, PTL
-----------------------------------------------------------------------------
(* A late save *)

(* No two artifacts have one id. *)
FreshIds ==
  /\ \A a, b \in stored : a.id = b.id => a = b
  /\ \A p \in Procs : \A a \in inflight[p] :
       /\ \A b \in stored : b.id # a.id
       /\ \A r \in Procs \ {p} : \A b \in inflight[r] : b.id # a.id

LEMMA ArtifactId ==
  ASSUME NEW a, IsArtifact(a)
  PROVE  a.id \in 1..count /\ a.at \in 0..clock
BY DEF IsArtifact, ArtifactOf

LEMMA ArtifactCases ==
  ASSUME NEW a, IsArtifact(a), NEW c \in Tested(a)
  PROVE  a.cases[c].verdict \in Verdict
<1>1. PICK o \in Outcomes, id \in 1..count, at \in 0..clock : a = ArtifactOf(o, id, at)
  BY DEF IsArtifact
<1>2. a.cases = o.cases
  BY <1>1 DEF ArtifactOf
<1>3. IsOutcome(o)
  BY ConsumersAssumption DEF ConsumersAssumption
<1> QED
  BY <1>2, <1>3 DEF IsOutcome, Tested

(* The runs take their ids from a counter that never goes back.            *)
LEMMA IdsStayFresh == ConsumersInv /\ FreshIds /\ [Next]_vars => FreshIds'
<1> SUFFICES ASSUME ConsumersInv, FreshIds, [Next]_vars PROVE FreshIds'
  OBVIOUS
<1>t. /\ count \in Nat /\ DOMAIN inflight = Procs
      /\ \A a \in stored : a.id \in 1..count
      /\ \A p \in Procs : \A a \in inflight[p] : inflight[p] = {a} /\ a.id \in 1..count
  <2>1. /\ count \in 0..MaxSessions /\ DOMAIN inflight = Procs
        /\ \A a \in stored : IsArtifact(a)
        /\ \A p \in Procs : \A a \in inflight[p] : inflight[p] = {a} /\ IsArtifact(a)
    BY DEF ConsumersInv, TypeOK
  <2>2. count \in Nat
    BY <2>1, ConsumersAssumption DEF ConsumersAssumption
  <2> QED
    BY <2>1, <2>2, ArtifactId
<1>1. ASSUME NEW p \in Procs, Conclude(p) PROVE FreshIds'
  <2>1. PICK o \in Outcomes, now \in {clock, clock + 1} :
          inflight' = [inflight EXCEPT ![p] = {ArtifactOf(o, count', now)}]
    BY <1>1 DEF Conclude
  <2>2. count' = count + 1 /\ stored' = stored
    BY <1>1 DEF Conclude
  <2>3. PICK a : a = ArtifactOf(o, count', now)
    OBVIOUS
  <2>4. a.id = count + 1 /\ count + 1 \notin 1..count
    BY <1>t, <2>2, <2>3 DEF ArtifactOf
  <2>5. /\ inflight'[p] = {a}
        /\ \A r \in Procs \ {p} : inflight'[r] = inflight[r]
    BY <1>t, <2>1, <2>3
  <2>6. ASSUME NEW r \in Procs, NEW b \in inflight'[r]
        PROVE  /\ \A d \in stored : d.id # b.id
               /\ \A s \in Procs \ {r} : \A d \in inflight'[s] : d.id # b.id
    <3>1. CASE r = p
      BY <1>t, <2>4, <2>5, <2>6, <3>1
    <3>2. CASE r # p
      BY <1>t, <2>4, <2>5, <2>6, <3>2 DEF FreshIds
    <3> QED
      BY <3>1, <3>2
  <2> QED
    BY <2>2, <2>6 DEF FreshIds
<1>2. ASSUME NEW p \in Procs, SaveSession(p) \/ LoseSession(p) PROVE FreshIds'
  <2>1. /\ inflight'[p] = {}
        /\ \A r \in Procs \ {p} : inflight'[r] = inflight[r]
        /\ stored' = stored \/ stored' = stored \cup inflight[p]
    BY <1>t, <1>2 DEF SaveSession, LoseSession
  <2>2. \A a, b \in stored \cup inflight[p] : a.id = b.id => a = b
    BY <1>t DEF FreshIds
  <2>3. ASSUME NEW r \in Procs, NEW b \in inflight'[r]
        PROVE  /\ \A d \in stored \cup inflight[p] : d.id # b.id
               /\ \A s \in Procs \ {r} : \A d \in inflight'[s] : d.id # b.id
    <3>1. r # p /\ b \in inflight[r]
      BY <2>1, <2>3
    <3> QED
      BY <2>1, <3>1 DEF FreshIds
  <2> QED
    BY <2>1, <2>2, <2>3 DEF FreshIds
<1>3. CASE UNCHANGED vars
  BY <1>3 DEF vars, FreshIds
<1> QED
  BY <1>1, <1>2, <1>3 DEF Next

(* There are no more artifacts than ids. *)
LEMMA IdsBoundSets ==
  ASSUME NEW S, NEW M \in Nat, \A a \in S : a.id \in 1..M,
         \A a, b \in S : a.id = b.id => a = b
  PROVE  IsFiniteSet(S) /\ Cardinality(S) <= M
<1> DEFINE f == [a \in S |-> a.id]
<1>1. f \in Injection(S, 1..M)
  <2>1. f \in [S -> 1..M] /\ \A a, b \in S : f[a] = f[b] => a = b
    OBVIOUS
  <2> HIDE DEF f
  <2> QED
    BY <2>1 DEF Injection, IsInjective
<1>2. IsFiniteSet(1..M) /\ Cardinality(1..M) = M
  <2>1. 1 \in Int /\ M \in Int
    OBVIOUS
  <2>2. IsFiniteSet(1..M) /\ Cardinality(1..M) = IF 1 > M THEN 0 ELSE M - 1 + 1
    BY <2>1, FS_Interval, Zenon
  <2> QED
    BY <2>2
<1> HIDE DEF f
<1> QED
  BY <1>1, <1>2, FS_Injection

(* A listing q with a as its k-th entry. *)
Inserted(q, k, a) ==
  [i \in 1..(Len(q) + 1) |-> IF i < k THEN q[i] ELSE IF i = k THEN a ELSE q[i - 1]]

(* A full listing leaves nothing out. *)
LEMMA FullListing ==
  ASSUME NEW s, IsFiniteSet(s), NEW limit \in Nat, Cardinality(s) <= limit,
         NEW q \in Listings(s, limit)
  PROVE  Len(q) = Cardinality(s) /\ \A x \in s : \E i \in 1..Len(q) : q[i] = x
<1>1. /\ Len(q) = IF Cardinality(s) < limit THEN Cardinality(s) ELSE limit
      /\ Len(q) \in Nat
      /\ q \in [1..Len(q) -> s]
      /\ \A i, j \in 1..Len(q) : i < j => q[i] # q[j]
  BY ListingIsSequence
<1>2. Len(q) = Cardinality(s)
  BY <1>1, FS_CardinalityType
<1>3. \A i, j \in 1..Len(q) : q[i] = q[j] => i = j
  <2>1. \A i, j \in 1..Len(q) : i < j \/ j < i \/ i = j
    BY <1>1
  <2> QED
    BY <1>1, <2>1
<1>4. q \in Injection(1..Len(q), s)
  BY <1>1, <1>3 DEF Injection, IsInjective
<1>5. Cardinality(1..Len(q)) = Len(q)
  <2>1. 1 \in Int /\ Len(q) \in Int
    BY <1>1
  <2>2. Cardinality(1..Len(q)) = IF 1 > Len(q) THEN 0 ELSE Len(q) - 1 + 1
    BY <2>1, FS_Interval, Zenon
  <2> QED
    BY <1>1, <2>2
<1>6. q \in Surjection(1..Len(q), s)
  BY <1>2, <1>4, <1>5, FS_Injection
<1> QED
  BY <1>2, <1>6 DEF Surjection

(* A session fits in between those stamped no earlier and no later.        *)
LEMMA InsertedIsListing ==
  ASSUME NEW s, IsFiniteSet(s), NEW limit \in Nat,
         NEW a, a \notin s, \A x \in s \cup {a} : x.at \in Nat,
         Cardinality(s) < limit, NEW q \in Listings(s, limit)
  PROVE  \E k \in 1..(Len(q) + 1) : Inserted(q, k, a) \in Listings(s \cup {a}, limit)
<1> DEFINE n == Len(q)
           Later == { i \in 1..n : q[i].at < a.at }
<1>1. /\ n \in Nat /\ n = Cardinality(s) /\ n < limit
      /\ q \in [1..n -> s]
      /\ \A i, j \in 1..n : i < j => q[i] # q[j] /\ q[i].at >= q[j].at
      /\ \A x \in s : \E i \in 1..n : q[i] = x
  BY ListingIsSequence, FullListing
<1> HIDE DEF n
<1>2. PICK k \in 1..(n + 1) : /\ \A i \in 1..n : i < k => q[i].at >= a.at
                              /\ \A i \in 1..n : i >= k => a.at >= q[i].at
  <2>0. \A i \in 1..n : q[i].at \in Nat
    BY <1>1
  <2>1. CASE Later = {}
    <3>1. n + 1 \in 1..(n + 1) /\ \A i \in 1..n : ~ (i >= n + 1) /\ q[i].at >= a.at
      BY <1>1, <2>0, <2>1
    <3> QED
      BY <3>1
  <2>2. CASE Later # {}
    <3>1. PICK m \in Later : \A i \in Later : m <= i
      <4>1. Later \in SUBSET Nat
        OBVIOUS
      <4> HIDE DEF Later
      <4> QED
        BY <2>2, <4>1, LeastNatural
    <3>2. m \in 1..n /\ q[m].at < a.at
      OBVIOUS
    <3>3. \A i \in 1..n : i < m => q[i].at >= a.at
      BY <2>0, <3>1
    <3>4. ASSUME NEW i \in 1..n, i >= m PROVE a.at >= q[i].at
      <4>1. i = m \/ m < i
        BY <3>2, <3>4
      <4>2. q[m].at >= q[i].at
        BY <1>1, <2>0, <3>2, <4>1
      <4> QED
        BY <2>0, <3>2, <4>2
    <3> QED
      BY <1>1, <3>2, <3>3, <3>4
  <2> QED
    BY <2>1, <2>2
<1> DEFINE t == s \cup {a}
           r == Inserted(q, k, a)
<1>3. Cardinality(t) = n + 1 /\ n + 1 <= limit
  <2>1. Cardinality(s \cup {a}) = Cardinality(s) + 1
    BY FS_AddElement
  <2> QED
    BY <1>1, <2>1
<1>4. r = [i \in 1..(n + 1) |-> IF i < k THEN q[i] ELSE IF i = k THEN a ELSE q[i - 1]]
  BY DEF Inserted, n
<1> HIDE DEF r
<1>5. \A i \in 1..(n + 1) :
        /\ i < k => i \in 1..n /\ r[i] = q[i]
        /\ i = k => r[i] = a
        /\ i > k => i - 1 \in 1..n /\ i - 1 >= k /\ r[i] = q[i - 1]
  BY <1>1, <1>4
<1>6. r \in [1..(n + 1) -> t]
  <2>1. \A i \in 1..(n + 1) : i < k \/ i = k \/ i > k
    BY <1>1
  <2>2. ASSUME NEW i \in 1..(n + 1) PROVE r[i] \in t
    <3>1. \A x \in 1..n : q[x] \in t
      BY <1>1
    <3> QED
      BY <1>5, <2>1, <3>1
  <2> QED
    BY <1>4, <2>2
<1>7. ASSUME NEW i \in 1..(n + 1), NEW j \in 1..(n + 1), i < j
      PROVE  r[i] # r[j] /\ r[i].at >= r[j].at
  <2>0. \A x \in 1..n : q[x] \in s /\ q[x] # a
    BY <1>1
  <2>1. CASE j < k
    BY <1>1, <1>5, <1>7, <2>1
  <2>2. CASE j = k
    BY <1>1, <1>2, <1>5, <1>7, <2>0, <2>2
  <2>3. CASE j > k /\ i < k
    <3>1. i \in 1..n /\ j - 1 \in 1..n /\ i < j - 1 /\ r[i] = q[i] /\ r[j] = q[j - 1]
      BY <1>1, <1>5, <2>3
    <3> QED
      BY <1>1, <3>1
  <2>4. CASE j > k /\ i = k
    BY <1>1, <1>2, <1>5, <2>0, <2>4
  <2>5. CASE j > k /\ i > k
    <3>1. i - 1 \in 1..n /\ j - 1 \in 1..n /\ i - 1 < j - 1
          /\ r[i] = q[i - 1] /\ r[j] = q[j - 1]
      BY <1>1, <1>5, <1>7, <2>5
    <3> QED
      BY <1>1, <3>1
  <2> QED
    BY <1>1, <1>7, <2>1, <2>2, <2>3, <2>4, <2>5
<1>8. ASSUME NEW x \in t PROVE \E i \in 1..(n + 1) : r[i] = x
  <2>1. CASE x = a
    BY <1>5, <2>1
  <2>2. CASE x # a
    <3>1. PICK i \in 1..n : q[i] = x
      BY <1>1, <2>2
    <3>2. CASE i < k
      BY <1>1, <1>5, <3>1, <3>2
    <3>3. CASE i >= k
      <4>1. i + 1 \in 1..(n + 1) /\ i + 1 > k /\ i + 1 - 1 = i
        BY <1>1, <3>3
      <4> QED
        BY <1>5, <3>1, <4>1
    <3> QED
      BY <1>1, <3>2, <3>3
  <2> QED
    BY <2>1, <2>2
<1>9. (IF Cardinality(t) < limit THEN Cardinality(t) ELSE limit) = n + 1
  BY <1>1, <1>3
<1> HIDE DEF t
<1>10. r \in Listings(t, limit)
  BY <1>6, <1>7, <1>8, <1>9 DEF Listings
<1> QED
  BY <1>10 DEF n, r, t

(* A ranked verdict between two others hides no downgrade: it is worse     *)
(* than the older or better than the newer.                                *)
LEMMA NoHiding ==
  ASSUME NEW u \in Verdict, NEW v \in Verdict, NEW w \in Verdict,
         Worse(u, w), Ranked(v)
  PROVE  Worse(u, v) \/ Worse(v, w)
BY RankType DEF Worse

(* timeline still flags the case when a ranked verdict comes in between.   *)
LEMMA InsertedIsFlagged ==
  ASSUME NEW s, NEW c, \A x \in s : x.cases[c].verdict \in Verdict,
         NEW n \in Nat, NEW q \in [1..n -> s], Len(q) = n,
         NEW a, a.cases[c].verdict \in Verdict, Ranked(a.cases[c].verdict),
         NEW i \in 1..(n - 1), Worse(q[i].cases[c].verdict, q[i + 1].cases[c].verdict),
         NEW k \in 1..(n + 1)
  PROVE  cmd_timeline(Inserted(q, k, a), c) = RegressionCode
<1> DEFINE r == Inserted(q, k, a)
           t == s \cup {a}
           m == n + 1
<1>0. SUFFICES \E j \in 1..n : Worse(r[j].cases[c].verdict, r[j + 1].cases[c].verdict)
  <2>1. r \in [1..m -> t] /\ Len(r) = m
    <3>1. r = [j \in 1..m |-> IF j < k THEN q[j] ELSE IF j = k THEN a ELSE q[j - 1]]
      BY DEF Inserted
    <3>2. ASSUME NEW j \in 1..m
          PROVE  (IF j < k THEN q[j] ELSE IF j = k THEN a ELSE q[j - 1]) \in t
      <4>1. (j < k => j \in 1..n) /\ (~ (j < k) /\ j # k => j - 1 \in 1..n)
        OBVIOUS
      <4> QED
        BY <4>1
    <3>3. m \in Nat
      OBVIOUS
    <3> HIDE DEF r, t, m
    <3>4. r \in [1..m -> t]
      BY ONLY <3>1, <3>2
    <3> QED
      BY ONLY <3>3, <3>4
  <2>2. m \in Nat \ {0} /\ m - 1 = n
    OBVIOUS
  <2>3. \A x \in t : x.cases[c].verdict \in Verdict
    OBVIOUS
  <2> HIDE DEF r, t, m
  <2>4. (\E j \in 1..(m - 1) : Worse(r[j].cases[c].verdict, r[j + 1].cases[c].verdict))
          => cmd_timeline(r, c) = RegressionCode
    BY <2>1, <2>2, <2>3, TimelineOfSessions
  <2> QED
    BY <2>2, <2>4 DEF r
<1>1. \A j \in 1..(n + 1) : r[j] = IF j < k THEN q[j] ELSE IF j = k THEN a ELSE q[j - 1]
  BY DEF Inserted
<1> HIDE DEF r
<1>2. i \in 1..n /\ i + 1 \in 1..n /\ i + 2 \in 1..(n + 1) /\ i \in 1..(n + 1)
  OBVIOUS
<1>3. CASE k > i + 1
  BY <1>1, <1>2, <1>3 DEF r
<1>4. CASE k <= i
  <2>1. r[i + 1] = q[i] /\ r[i + 1 + 1] = q[i + 1]
    BY <1>1, <1>2, <1>4
  <2> QED
    BY <1>2, <2>1 DEF r
<1>5. CASE k = i + 1
  <2>1. r[i] = q[i] /\ r[i + 1] = a /\ r[i + 1 + 1] = q[i + 1]
    BY <1>1, <1>2, <1>5
  <2>2. q[i].cases[c].verdict \in Verdict /\ q[i + 1].cases[c].verdict \in Verdict
    BY <1>2
  <2>3. \/ Worse(q[i].cases[c].verdict, a.cases[c].verdict)
        \/ Worse(a.cases[c].verdict, q[i + 1].cases[c].verdict)
    BY <2>2, NoHiding
  <2> QED
    BY <1>2, <2>1, <2>3 DEF r
<1> QED
  BY <1>2, <1>3, <1>4, <1>5
(* A save, late or not, leaves timeline what it flagged. *)
LEMMA FlagSurvives ==
  ASSUME ConsumersInv, FreshIds, NEW p \in Procs, SaveSession(p),
         NEW c, Flagged(c),
         \A a \in stored' \ stored : c \in Tested(a) => Ranked(a.cases[c].verdict)
  PROVE  Flagged(c)'
<1> DEFINE s == Holding(c)
           M == MaxSessions
<1>1. PICK a \in inflight[p] : inflight[p] = {a} /\ IsArtifact(a)
  BY DEF SaveSession, ConsumersInv, TypeOK
<1>2. stored' = stored \cup {a} /\ a \notin stored
  BY <1>1 DEF SaveSession, FreshIds
<1>3. CASE c \notin Tested(a)
  <2>1. Holding(c)' = s
    BY <1>2, <1>3 DEF Holding
  <2> QED
    BY <2>1 DEF Flagged, Everything
<1>4. CASE c \in Tested(a)
  <2>1. Holding(c)' = s \cup {a} /\ a \notin s
    BY <1>2, <1>4 DEF Holding
  <2>2. M \in Nat /\ count \in 0..M /\ clock \in Nat
    BY ConsumersAssumption DEF ConsumersInv, TypeOK, ConsumersAssumption
  <2>3. \A x \in s \cup {a} : /\ IsArtifact(x) /\ x.id \in 1..M /\ x.at \in Nat
                            /\ x.cases[c].verdict \in Verdict
    <3>1. \A x \in s \cup {a} : IsArtifact(x) /\ c \in Tested(x)
      BY <1>1, <1>4 DEF Holding, ConsumersInv, TypeOK
    <3>2. \A x \in s \cup {a} : x.id \in 1..count /\ x.at \in 0..clock
      BY <3>1, ArtifactId
    <3>3. \A x \in s \cup {a} : x.cases[c].verdict \in Verdict
      BY <3>1, ArtifactCases
    <3> HIDE DEF s
    <3> QED
      BY <2>2, <3>1, <3>2, <3>3
  <2>4. \A x, y \in s \cup {a} : x.id = y.id => x = y
    BY <1>1 DEF Holding, FreshIds
  <2>5. IsFiniteSet(s) /\ Cardinality(s) < M
    <3>1. IsFiniteSet(s \cup {a}) /\ Cardinality(s \cup {a}) <= M
      BY <2>2, <2>3, <2>4, IdsBoundSets
    <3>2. IsFiniteSet(s) /\ Cardinality(s) \in Nat
      BY HoldingType, FS_CardinalityType
    <3>3. Cardinality(s \cup {a}) = Cardinality(s) + 1
      BY <2>1, <3>2, FS_AddElement
    <3> HIDE DEF s, M
    <3> QED
      BY <2>2, <3>1, <3>2, <3>3
  <2>6. PICK q \in Listings(s, M) : cmd_timeline(q, c) = RegressionCode
    BY DEF Flagged, Everything
  <2> DEFINE n == Len(q)
  <2>7. n \in Nat \ {0} /\ q \in [1..n -> s]
    <3>1. q # <<>>
      BY <2>6 DEF cmd_timeline, RegressionCode, ErrorCode
    <3> QED
      BY <2>2, <2>5, <3>1, ListingIsSequence
  <2>8. PICK i \in 1..(n - 1) : Worse(q[i].cases[c].verdict, q[i + 1].cases[c].verdict)
    BY <2>3, <2>6, <2>7, TimelineOfSessions
  <2>9. PICK k \in 1..(n + 1) : Inserted(q, k, a) \in Listings(s \cup {a}, M)
    BY <2>1, <2>2, <2>3, <2>5, InsertedIsListing
  <2> DEFINE r == Inserted(q, k, a)
  <2>10. Ranked(a.cases[c].verdict)
    BY <1>2, <1>4
  <2> HIDE DEF s, M, n
  <2>11. cmd_timeline(r, c) = RegressionCode
    BY <2>3, <2>7, <2>8, <2>10, InsertedIsFlagged DEF n
  <2> QED
    BY <2>1, <2>9, <2>11 DEF Flagged, Everything, s, M
<1> QED
  BY <1>3, <1>4

(* What timeline has flagged it flags from then on, whoever saves late,    *)
(* unless the newcomer's verdict for the case is off the ladder.           *)
THEOREM FlagsStay == Spec => RegressionStaysReported
<1>1. Init => FreshIds
  BY DEF Init, FreshIds
<1>2. Spec => []FreshIds
  BY <1>1, IdsStayFresh, ConsumersSafe, PTL DEF Spec
<1> DEFINE Stays ==
      \A c \in CaseIds : Flagged(c) =>
        \/ Flagged(c)'
        \/ \E a \in stored' \ stored :
             c \in Tested(a) /\ ~ Ranked(a.cases[c].verdict)
<1>3. ConsumersInv /\ FreshIds /\ [Next]_vars => [Stays]_vars
  <2> SUFFICES ASSUME ConsumersInv, FreshIds, Next,
                      NEW c \in CaseIds, Flagged(c),
                      \A a \in stored' \ stored : c \in Tested(a) => Ranked(a.cases[c].verdict)
               PROVE  Flagged(c)'
    OBVIOUS
  <2>1. CASE \E p \in Procs : SaveSession(p)
    BY <2>1, FlagSurvives
  <2>2. CASE UNCHANGED stored
    BY <2>2 DEF Flagged, Everything, Holding
  <2> QED
    BY <2>1, <2>2 DEF Next, Conclude, LoseSession
<1> HIDE DEF Stays
<1>4. Spec => [][Stays]_vars
  BY <1>2, <1>3, ConsumersSafe, PTL DEF Spec
<1> QED
  BY <1>4 DEF Stays, RegressionStaysReported
=============================================================================
