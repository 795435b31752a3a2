--------------------------- MODULE Resolver_proofs ---------------------------
(***************************************************************************)
(* Lemmas about the judgement of a case, for every value of the constants. *)
(***************************************************************************)
EXTENDS Resolver, Verdicts_proofs, FiniteSetTheorems, SequenceTheorems

-----------------------------------------------------------------------------
(* The strata of a case *)

Interval == (0..Scale) \X (0..Scale)

(* A family has at least one run, and no more than the case. *)
LEMMA StratumSize ==
  ASSUME NEW R, NEW runs \in Seq(R), Len(runs) <= MaxRuns,
         NEW f \in FamiliesOf(runs), NEW original
  PROVE  LET s == stratify_by_family(original, runs)[f]
         IN /\ s.n \in 1..MaxRuns
            /\ s.k \in 0..s.n
            /\ Invariants = {} => s.k = s.n
<1> DEFINE T == Stratum(runs, f)
           P == { i \in T : RunPassed(original, runs[i]) }
<1>1. stratify_by_family(original, runs)[f]
        = [n |-> Cardinality(T), k |-> Cardinality(P)]
  BY DEF stratify_by_family
<1>2. /\ DOMAIN runs = 1..Len(runs)
      /\ Len(runs) \in Nat
      /\ MaxRuns \in Nat
  BY LenProperties, ResolverAssumption
<1>3. IsFiniteSet(1..Len(runs)) /\ Cardinality(1..Len(runs)) = Len(runs)
  <2>1. 1 \in Int /\ Len(runs) \in Int
    BY <1>2
  <2>2. /\ IsFiniteSet(1..Len(runs))
        /\ Cardinality(1..Len(runs)) = IF 1 > Len(runs) THEN 0 ELSE Len(runs) - 1 + 1
    BY <2>1, FS_Interval, Zenon
  <2> QED
    BY <1>2, <2>2
<1>4. T \in SUBSET (1..Len(runs)) /\ T # {} /\ P \in SUBSET T
  BY <1>2 DEF Stratum, FamiliesOf
<1>5. IsFiniteSet(T) /\ Cardinality(T) <= Len(runs)
  BY <1>3, <1>4, FS_Subset
<1>6. Cardinality(T) \in Nat /\ Cardinality(T) # 0
  BY <1>4, <1>5, FS_CardinalityType, FS_EmptySet
<1>7. IsFiniteSet(P) /\ Cardinality(P) <= Cardinality(T)
  BY <1>4, <1>5, FS_Subset
<1>8. Cardinality(P) \in Nat
  BY <1>7, FS_CardinalityType
<1>9. Invariants = {} => P = T
  BY DEF RunPassed
<1> HIDE DEF T, P
<1> QED
  BY <1>1, <1>2, <1>5, <1>6, <1>7, <1>8, <1>9

(* A family passed every trial exactly if each of its runs passed. *)
LEMMA FullStratum ==
  ASSUME NEW R, NEW runs \in Seq(R), NEW f, NEW original,
         f \in FamiliesOf(runs)
  PROVE  LET s == stratify_by_family(original, runs)[f]
         IN s.k = s.n <=>
              \A i \in Stratum(runs, f) : RunPassed(original, runs[i])
<1> DEFINE T == Stratum(runs, f)
           P == { i \in T : RunPassed(original, runs[i]) }
<1>1. stratify_by_family(original, runs)[f]
        = [n |-> Cardinality(T), k |-> Cardinality(P)]
  BY DEF stratify_by_family
<1>2. IsFiniteSet(T)
  <2>1. DOMAIN runs = 1..Len(runs) /\ Len(runs) \in Nat
    BY LenProperties
  <2>2. IsFiniteSet(1..Len(runs))
    BY <2>1, FS_Interval
  <2>3. T \in SUBSET (1..Len(runs))
    BY <2>1 DEF Stratum
  <2> QED
    BY <2>2, <2>3, FS_Subset
<1>3. P \in SUBSET T
  OBVIOUS
<1>4. Cardinality(T) = Cardinality(P) <=> T = P
  BY <1>2, <1>3, FS_Subset
<1>5. T = P <=> \A i \in T : RunPassed(original, runs[i])
  OBVIOUS
<1> HIDE DEF T, P
<1>6. (\A i \in T : RunPassed(original, runs[i]))
        <=> \A i \in Stratum(runs, f) : RunPassed(original, runs[i])
  BY DEF T
<1> QED
  BY <1>1, <1>4, <1>5, <1>6

(* Every family gets an interval in the unit range. *)
LEMMA IntervalsType ==
  ASSUME NEW R, NEW runs \in Seq(R), Len(runs) <= MaxRuns, NEW original,
         NEW cis \in Intervals(original, runs)
  PROVE  cis \in [FamiliesOf(runs) -> Interval]
<1>1. /\ cis \in [FamiliesOf(runs) ->
                    UNION { BootstrapCI(stratify_by_family(original, runs)[f].n,
                                        stratify_by_family(original, runs)[f].k) :
                              f \in FamiliesOf(runs) }]
      /\ \A f \in FamiliesOf(runs) :
           cis[f] \in BootstrapCI(stratify_by_family(original, runs)[f].n,
                                  stratify_by_family(original, runs)[f].k)
  BY DEF Intervals
<1>2. ASSUME NEW f \in FamiliesOf(runs) PROVE cis[f] \in Interval
  <2>1. /\ stratify_by_family(original, runs)[f].n \in 1..MaxRuns
        /\ stratify_by_family(original, runs)[f].k
             \in 0..stratify_by_family(original, runs)[f].n
    BY StratumSize
  <2> QED
    BY <1>1, <2>1, BootstrapAssumption DEF Interval
<1> QED
  BY <1>1, <1>2

-----------------------------------------------------------------------------
(* Rates *)

(* The numbers up to M have a common multiple. *)
LEMMA CommonMultiple ==
  ASSUME NEW M \in Nat
  PROVE  \E D \in Nat \ {0} : \A j \in 1..M : \E q \in Nat : D = j * q
<1> DEFINE Has(m, D) == \A j \in 1..m : \E q \in Nat : D = j * q
           Bad == { m \in Nat : ~ \E D \in Nat \ {0} : Has(m, D) }
<1>1. ASSUME Bad # {} PROVE FALSE
  <2>1. PICK m \in Bad : \A l \in Bad : m <= l
    <3>1. Bad \in SUBSET Nat
      OBVIOUS
    <3> HIDE DEF Bad
    <3> QED
      BY <1>1, <3>1, LeastNatural
  <2>2. m # 0
    <3>1. 1 \in Nat \ {0} /\ Has(0, 1)
      OBVIOUS
    <3>2. ~ \E D \in Nat \ {0} : Has(m, D)
      BY <2>1
    <3> HIDE DEF Has
    <3> QED
      BY <3>1, <3>2
  <2>3. m \in Nat /\ m - 1 \in Nat /\ m - 1 \notin Bad
    <3>1. m \in Nat
      OBVIOUS
    <3> HIDE DEF Bad
    <3> QED
      BY <2>1, <2>2, <3>1
  <2>4. PICK D \in Nat \ {0} : Has(m - 1, D)
    BY <2>3
  <2>5. D * m \in Nat \ {0}
    BY <2>2, <2>3
  <2>6. ASSUME NEW j \in 1..m PROVE \E q \in Nat : D * m = j * q
    <3>1. CASE j = m
      BY <2>3, <3>1
    <3>2. CASE j # m
      <4>1. PICK q \in Nat : D = j * q
        <5>1. j \in 1..(m - 1)
          BY <2>3, <3>2
        <5> QED
          BY <2>4, <5>1
      <4>2. q * m \in Nat /\ (j * q) * m = j * (q * m)
        BY <2>3
      <4> QED
        BY <4>1, <4>2
    <3> QED
      BY <3>1, <3>2
  <2> QED
    BY <2>1, <2>5, <2>6
<1> QED
  BY <1>1

(* Fractions brought to one denominator compare like the fractions. *)
LEMMA CrossMultiply ==
  ASSUME NEW a \in Nat, NEW b \in Nat, NEW p \in Nat,
         NEW x \in Nat, NEW y \in Nat, NEW q \in Nat,
         b * p = y * q, b * p # 0, a * p <= x * q
  PROVE  a * y <= x * b
<1> DEFINE D == b * p
<1>1. D \in Nat \ {0} /\ p # 0 /\ q # 0
  OBVIOUS
<1>2. (a * p) * D <= (x * q) * D
  <2>1. a * p \in Nat /\ x * q \in Nat
    OBVIOUS
  <2> HIDE DEF D
  <2> QED
    BY <1>1, <2>1
<1>3. (a * p) * D = (a * y) * (p * q)
  OBVIOUS
<1>4. (x * q) * D = (x * b) * (p * q)
  OBVIOUS
<1>5. p * q \in Nat \ {0} /\ a * y \in Nat /\ x * b \in Nat
  BY <1>1
<1>6. ASSUME NEW u \in Nat, NEW v \in Nat, NEW w \in Nat \ {0}, u * w <= v * w
      PROVE  u <= v
  BY <1>6
<1> QED
  BY <1>2, <1>3, <1>4, <1>5, <1>6

(* A set of rates, each a number of trials out of at most M, has a least one. *)
LEMMA LeastRate ==
  ASSUME NEW M \in Nat, NEW S, S # {},
         NEW num \in [S -> Nat], NEW den \in [S -> 1..M]
  PROVE  \E c \in S : \A d \in S : num[c] * den[d] <= num[d] * den[c]
<1>1. PICK D \in Nat \ {0} : \A j \in 1..M : \E q \in Nat : D = j * q
  BY CommonMultiple
<1> DEFINE factor(c) == CHOOSE q \in Nat : D = den[c] * q
           key(c) == num[c] * factor(c)
<1>2. ASSUME NEW c \in S
      PROVE  factor(c) \in Nat /\ D = den[c] * factor(c)
  <2>1. \E q \in Nat : D = den[c] * q
    BY <1>1
  <2> QED
    BY <2>1
<1> HIDE DEF factor
<1>3. PICK m \in { key(c) : c \in S } : \A k \in { key(c) : c \in S } : m <= k
  <2>1. ASSUME NEW c \in S PROVE key(c) \in Nat
    BY <1>2
  <2>2. { key(c) : c \in S } \in SUBSET Nat /\ { key(c) : c \in S } # {}
    BY <2>1
  <2> HIDE DEF key
  <2> QED
    BY <2>2, LeastNatural
<1>4. PICK c \in S : m = key(c)
  BY <1>3
<1>5. ASSUME NEW d \in S PROVE num[c] * den[d] <= num[d] * den[c]
  <2>1. num[c] * factor(c) <= num[d] * factor(d)
    BY <1>3, <1>4
  <2>2. /\ den[c] * factor(c) = den[d] * factor(d)
        /\ den[c] * factor(c) # 0
    BY <1>1, <1>2
  <2>3. /\ num[c] \in Nat /\ den[c] \in Nat /\ factor(c) \in Nat
        /\ num[d] \in Nat /\ den[d] \in Nat /\ factor(d) \in Nat
    BY <1>2
  <2> QED
    BY <2>1, <2>2, <2>3, CrossMultiply
<1> QED
  BY <1>5

-----------------------------------------------------------------------------
(* The worst family *)

(* No run belongs to a family whose lower bound is below the worst one's.  *)
LEMMA WorstRunIsWorst ==
  ASSUME NEW R, NEW runs \in Seq(R), runs # <<>>,
         NEW cis \in [FamiliesOf(runs) -> Interval]
  PROVE  /\ WorstRun(runs, cis) \in DOMAIN runs
         /\ \A f \in FamiliesOf(runs) :
              Lo(cis, worst_case_stratified(runs, cis)) <= Lo(cis, f)
<1> DEFINE D == DOMAIN runs
           L == [j \in D |-> Lo(cis, runs[j].family)]
<1>1. D = 1..Len(runs) /\ Len(runs) \in Nat \ {0}
  BY LenProperties, EmptySeq
<1>2. ASSUME NEW f \in FamiliesOf(runs) PROVE Lo(cis, f) \in Nat
  BY ResolverAssumption DEF Lo, Interval
<1>3. \A j \in D : L[j] \in Nat
  BY <1>2 DEF FamiliesOf
<1>4. PICK m \in { L[j] : j \in D } : \A x \in { L[j] : j \in D } : m <= x
  <2>1. { L[j] : j \in D } \in SUBSET Nat
    BY <1>3
  <2>2. { L[j] : j \in D } # {}
    <3>1. 1 \in D
      BY <1>1
    <3> QED
      BY <3>1
  <2> HIDE DEF L, D
  <2> QED
    BY <2>1, <2>2, LeastNatural
<1>5. PICK i \in { j \in D : L[j] = m } : \A j \in { k \in D : L[k] = m } : i <= j
  <2>1. { j \in D : L[j] = m } \in SUBSET Nat /\ { j \in D : L[j] = m } # {}
    BY <1>1, <1>4
  <2> HIDE DEF L, D
  <2> QED
    BY <2>1, LeastNatural
<1>6. \A j \in D : L[i] < L[j] \/ (L[i] = L[j] /\ i <= j)
  <2>1. L[i] = m /\ \A j \in D : L[j] \in Nat /\ m <= L[j]
    BY <1>3, <1>4, <1>5
  <2>2. \A j \in D : L[j] = m => i <= j
    BY <1>5
  <2> HIDE DEF L, D
  <2> QED
    BY <2>1, <2>2
<1>7. /\ WorstRun(runs, cis) \in D
      /\ \A j \in D : \/ L[WorstRun(runs, cis)] < L[j]
                      \/ /\ L[WorstRun(runs, cis)] = L[j]
                         /\ WorstRun(runs, cis) <= j
  BY <1>6 DEF WorstRun
<1>8. ASSUME NEW f \in FamiliesOf(runs)
      PROVE  Lo(cis, worst_case_stratified(runs, cis)) <= Lo(cis, f)
  <2>1. PICK j \in D : f = runs[j].family
    BY DEF FamiliesOf
  <2>2. Lo(cis, f) = L[j]
    BY <2>1
  <2>3. Lo(cis, worst_case_stratified(runs, cis)) = L[WorstRun(runs, cis)]
    BY <1>7 DEF worst_case_stratified
  <2>4. L[j] \in Int /\ L[WorstRun(runs, cis)] \in Int
    BY <1>3, <1>7, <2>1
  <2>5. L[WorstRun(runs, cis)] < L[j] \/ L[WorstRun(runs, cis)] = L[j]
    BY <1>7, <2>1
  <2> HIDE DEF L, D
  <2> QED
    BY ONLY <2>2, <2>3, <2>4, <2>5
<1> QED
  BY <1>7, <1>8

-----------------------------------------------------------------------------
(* The verdict of a case *)

(* Every branch of the priority chain ends in a verdict of the taxonomy. *)
LEMMA VerdictType ==
  ASSUME NEW original, NEW runs, NEW cis
  PROVE  decide_verdict(original, runs, cis) \in Verdict
<1>1. \A worst : InstabilityBand(cis, worst) \in Verdict
  BY DEF InstabilityBand, Verdict
<1>2. \A contributions : StableBand(contributions) \in Verdict
  BY DEF StableBand, Verdict
<1> QED
  BY <1>1, <1>2 DEF decide_verdict, Verdict

(* The oracles never let a consistently wrong case go: what the instability *)
(* and the stable bands say of it is not asked.                            *)
LEMMA KnownWrongIsCaught ==
  ASSUME NEW original, NEW runs, NEW cis, runs # <<>>, Invariants # {},
         is_consistently_wrong(AllOutputs(original, runs))
  PROVE  decide_verdict(original, runs, cis)
           \in {"INVALID_EVAL", "CONSISTENTLY_WRONG"}
<1> DEFINE outs == AllOutputs(original, runs)
<1>1. Says("CONSISTENTLY_WRONG", 1, 1) \in Peers(outs)
  BY DEF Peers, ConsistencyOracle
<1>2. Says("CONSISTENTLY_WRONG", 1, 1).says = "CONSISTENTLY_WRONG"
  BY DEF Says
<1>3. "CONSISTENTLY_WRONG"
        \in { v.says : v \in Peers(outs) \cup InformationNullOracle(outs) }
  BY <1>1, <1>2
<1> QED
  BY <1>3, Zenon DEF decide_verdict

(* A case that counts for the session as a success held in every family;   *)
(* one without evidence has no family that failed.                         *)
LEMMA GoodCaseHeld ==
  ASSUME NEW R, NEW runs \in Seq(R), Len(runs) <= MaxRuns, NEW original,
         NEW cis \in Intervals(original, runs),
         decide_verdict(original, runs, cis) \in Success \cup {"INSUFFICIENT"},
         NEW f \in FamiliesOf(runs)
  PROVE  StableBar <= Lo(cis, f)
<1>1. cis \in [FamiliesOf(runs) -> Interval]
  BY IntervalsType
<1>2. runs # <<>>
  BY DEF FamiliesOf
<1>3. CASE Invariants = {}
  <2>1. cis[f] \in BootstrapCI(stratify_by_family(original, runs)[f].n,
                               stratify_by_family(original, runs)[f].k)
    BY DEF Intervals
  <2>2. /\ stratify_by_family(original, runs)[f].n \in 1..MaxRuns
        /\ stratify_by_family(original, runs)[f].k
             = stratify_by_family(original, runs)[f].n
    BY <1>3, StratumSize
  <2>3. PICK k, n, ci : /\ ci = cis[f] /\ n = stratify_by_family(original, runs)[f].n
                        /\ k = stratify_by_family(original, runs)[f].k
    OBVIOUS
  <2>4. n \in 1..MaxRuns /\ k = n /\ ci \in BootstrapCI(n, k)
    BY ONLY <2>1, <2>2, <2>3
  <2>5. ci = <<Scale, Scale>>
    BY ONLY <2>4, BootstrapAssumption
  <2> QED
    BY <2>3, <2>5, ResolverAssumption DEF Lo
<1>4. CASE Invariants # {}
  <2> DEFINE worst == worst_case_stratified(runs, cis)
  <2>1. ~ (Lo(cis, worst) < StableBar)
    <3>1. InstabilityBand(cis, worst) \notin Success \cup {"INSUFFICIENT"}
      BY DEF InstabilityBand, Success
    <3>2. {"INVALID_EVAL", "CONSISTENTLY_WRONG"}
             \cap (Success \cup {"INSUFFICIENT"}) = {}
      BY DEF Success
    <3> QED
      BY <1>2, <1>4, <3>1, <3>2, Zenon DEF decide_verdict
  <2>2. Lo(cis, worst) <= Lo(cis, f)
    BY <1>1, <1>2, WorstRunIsWorst
  <2>3. worst \in FamiliesOf(runs)
    BY <1>1, <1>2, WorstRunIsWorst DEF worst_case_stratified, FamiliesOf
  <2>4. \A g \in FamiliesOf(runs) : Lo(cis, g) \in Nat
    BY <1>1, ResolverAssumption DEF Lo, Interval
  <2> QED
    BY <2>1, <2>2, <2>3, <2>4, ResolverAssumption
<1> QED
  BY <1>3, <1>4

(* The verdicts of instability mean that the worst family has failed runs. *)
LEMMA UnstableCaseFailed ==
  ASSUME NEW R, NEW runs \in Seq(R), Len(runs) <= MaxRuns, NEW original,
         NEW cis \in Intervals(original, runs),
         decide_verdict(original, runs, cis)
           \in {"ADVERSARIALLY_VULNERABLE", "FRAGILE", "AMBIGUOUS"}
  PROVE  LET worst == worst_case_stratified(runs, cis)
         IN /\ runs # <<>>
            /\ worst \in FamiliesOf(runs)
            /\ stratify_by_family(original, runs)[worst].k
                 # stratify_by_family(original, runs)[worst].n
<1> DEFINE worst == worst_case_stratified(runs, cis)
           s == stratify_by_family(original, runs)[worst]
<1>1. runs # <<>> /\ Lo(cis, worst) < StableBar
  <2>1. \A contributions : StableBand(contributions)
          \notin {"ADVERSARIALLY_VULNERABLE", "FRAGILE", "AMBIGUOUS"}
    BY DEF StableBand
  <2>2. {"INSUFFICIENT", "INVALID_EVAL", "CONSISTENTLY_WRONG"}
          \cap {"ADVERSARIALLY_VULNERABLE", "FRAGILE", "AMBIGUOUS"} = {}
    OBVIOUS
  <2> QED
    BY <2>1, <2>2, Zenon DEF decide_verdict
<1>2. cis \in [FamiliesOf(runs) -> Interval]
  BY IntervalsType
<1>3. worst \in FamiliesOf(runs)
  BY <1>1, <1>2, WorstRunIsWorst DEF worst_case_stratified, FamiliesOf
<1> HIDE DEF worst
<1>4. s.n \in 1..MaxRuns /\ s.k \in 0..s.n
  BY <1>3, StratumSize
<1>5. cis[worst] \in BootstrapCI(s.n, s.k)
  BY <1>3 DEF Intervals
<1>6. ASSUME s.k = s.n PROVE FALSE
  <2>1. cis[worst] = <<Scale, Scale>>
    BY <1>4, <1>5, <1>6, BootstrapAssumption, ResolverAssumption
  <2> QED
    BY <1>1, <2>1, ResolverAssumption DEF Lo
<1> QED
  BY <1>1, <1>3, <1>6 DEF worst

-----------------------------------------------------------------------------
(* The oracles *)

(* The outputs of a case: the original one, then those of its runs. *)
LEMMA OutputsType ==
  ASSUME NEW R, NEW runs \in Seq(R), \A i \in DOMAIN runs : runs[i].output \in Outputs,
         NEW original \in Outputs
  PROVE  LET outs == AllOutputs(original, runs)
         IN /\ Len(runs) \in Nat /\ DOMAIN runs = 1..Len(runs)
            /\ outs \in [1..(Len(runs) + 1) -> Outputs]
            /\ Len(outs) = Len(runs) + 1
            /\ outs[1] = original
            /\ \A i \in DOMAIN runs : outs[i + 1] = runs[i].output
<1> DEFINE outs == AllOutputs(original, runs)
           n == Len(runs) + 1
<1>1. Len(runs) \in Nat /\ DOMAIN runs = 1..Len(runs)
  BY LenProperties
<1>2. \A i \in 1..n : i # 1 => i - 1 \in DOMAIN runs
  BY <1>1
<1>3. outs \in [1..n -> Outputs]
  BY <1>2 DEF AllOutputs
<1>4. \A i \in DOMAIN runs : i + 1 \in 1..n /\ i + 1 # 1 /\ i + 1 - 1 = i
  BY <1>1
<1>5. outs[1] = original /\ \A i \in DOMAIN runs : outs[i + 1] = runs[i].output
  BY <1>1, <1>4 DEF AllOutputs
<1>6. n \in Nat
  BY <1>1
<1> HIDE DEF outs, n
<1>7. outs \in Seq(Outputs) /\ DOMAIN outs = 1..n
  BY <1>3, <1>6, SeqDef
<1>8. Len(outs) = n
  BY <1>6, <1>7, LenProperties
<1> QED
  BY <1>1, <1>3, <1>5, <1>8 DEF outs, n

(* The places of the outputs a judge picks out: some number of them.       *)
LEMMA PlacesCount ==
  ASSUME NEW n \in Nat, NEW P \in SUBSET (1..n)
  PROVE  /\ IsFiniteSet(P)
         /\ Cardinality(P) \in 0..n
         /\ Cardinality(P) = n <=> P = 1..n
         /\ Cardinality(P) = 0 <=> P = {}
<1>1. IsFiniteSet(1..n) /\ Cardinality(1..n) = n
  <2>1. 1 \in Int /\ n \in Int
    OBVIOUS
  <2>2. IsFiniteSet(1..n) /\ Cardinality(1..n) = IF 1 > n THEN 0 ELSE n - 1 + 1
    BY <2>1, FS_Interval, Zenon
  <2> QED
    BY <2>2
<1>2. /\ IsFiniteSet(P)
      /\ Cardinality(P) <= n
      /\ Cardinality(P) = n => P = 1..n
  BY <1>1, FS_Subset
<1>3. Cardinality(P) \in Nat
  BY <1>2, FS_CardinalityType
<1>4. Cardinality(P) = 0 <=> P = {}
  BY <1>2, FS_EmptySet
<1> QED
  BY <1>1, <1>2, <1>3, <1>4

(* No label has more support than the majority relation, and an output has *)
(* it.                                                                     *)
LEMMA MajorityIsMost ==
  ASSUME NEW n \in Nat \ {0}, NEW outs \in [1..n -> Outputs]
  PROVE  /\ \A a : Support(outs, a) \in 0..n
         /\ majority_relation(outs) \in NLILabel
         /\ \A a : Support(outs, a) <= Support(outs, majority_relation(outs))
<1> DEFINE S == [i \in 1..n |-> Support(outs, Relation[outs[i]])]
<1>1. ASSUME NEW a PROVE Support(outs, a) \in 0..n
  <2> DEFINE P == { i \in DOMAIN outs : Relation[outs[i]] = a }
  <2>1. P \in SUBSET (1..n) /\ Support(outs, a) = Cardinality(P)
    BY DEF Support
  <2> HIDE DEF P
  <2> QED
    BY <2>1, PlacesCount
<1>2. \A i \in 1..n : S[i] \in 0..n
  BY <1>1
<1>3. PICK m \in { n - S[i] : i \in 1..n } : \A x \in { n - S[i] : i \in 1..n } : m <= x
  <2>1. { n - S[i] : i \in 1..n } \in SUBSET Nat
    BY <1>2
  <2>2. n - S[1] \in { n - S[i] : i \in 1..n }
    OBVIOUS
  <2> HIDE DEF S
  <2> QED
    BY <2>1, <2>2, LeastNatural
<1>4. PICK i \in { j \in 1..n : n - S[j] = m } : \A j \in { k \in 1..n : n - S[k] = m } : i <= j
  <2>1. { j \in 1..n : n - S[j] = m } \in SUBSET Nat /\ { j \in 1..n : n - S[j] = m } # {}
    BY <1>3
  <2> HIDE DEF S
  <2> QED
    BY <2>1, LeastNatural
<1>5. i \in 1..n /\ \A j \in 1..n : S[i] > S[j] \/ (S[i] = S[j] /\ i <= j)
  <2>1. \A j \in 1..n : m <= n - S[j] /\ (n - S[j] = m => i <= j)
    BY <1>3, <1>4
  <2>2. i \in 1..n /\ n - S[i] = m
    BY <1>4
  <2> HIDE DEF S
  <2> QED
    BY <1>2, <2>1, <2>2
<1> DEFINE Most(k) == \A j \in DOMAIN outs :
                        LET a == Support(outs, Relation[outs[k]])
                            b == Support(outs, Relation[outs[j]])
                        IN a > b \/ (a = b /\ k <= j)
<1>6. \E k \in DOMAIN outs : Most(k)
  BY <1>5
<1>7. PICK k \in DOMAIN outs : Most(k) /\ majority_relation(outs) = Relation[outs[k]]
  <2>1. majority_relation(outs) = Relation[outs[CHOOSE k \in DOMAIN outs : Most(k)]]
    BY DEF majority_relation
  <2> HIDE DEF Most
  <2> QED
    BY <1>6, <2>1
<1>8. majority_relation(outs) \in NLILabel
  BY <1>7, ResolverAssumption
<1>9. ASSUME NEW a PROVE Support(outs, a) <= Support(outs, majority_relation(outs))
  <2>1. CASE \E j \in DOMAIN outs : Relation[outs[j]] = a
    BY <1>1, <1>7, <2>1
  <2>2. CASE ~ \E j \in DOMAIN outs : Relation[outs[j]] = a
    <3>1. { j \in DOMAIN outs : Relation[outs[j]] = a } = {}
      BY <2>2
    <3>2. Support(outs, a) = 0
      BY <3>1, FS_EmptySet DEF Support
    <3> QED
      BY <1>1, <3>2
  <2> QED
    BY <2>1, <2>2
<1> QED
  BY <1>1, <1>8, <1>9

(* INFORMATION_PRESENT is said by the grounding oracle alone, and only over *)
(* a case that is not null.                                                *)
LEMMA GroundedCase ==
  ASSUME NEW original, NEW runs, NEW cis,
         decide_verdict(original, runs, cis) = "INFORMATION_PRESENT"
  PROVE  LET outs == AllOutputs(original, runs)
         IN Related(outs, "ENTAILMENT") /\ InformationNullOracle(outs) = {}
<1> DEFINE outs == AllOutputs(original, runs)
           contributions == { v.says : v \in Peers(outs) \cup InformationNullOracle(outs) }
<1>1. \A worst : InstabilityBand(cis, worst) # "INFORMATION_PRESENT"
  BY DEF InstabilityBand
<1>2. StableBand(contributions) = "INFORMATION_PRESENT"
  <2> HIDE DEF contributions
  <2>1. decide_verdict(original, runs, cis)
          \in {"INSUFFICIENT", "INVALID_EVAL", "CONSISTENTLY_WRONG",
               InstabilityBand(cis, worst_case_stratified(runs, cis)),
               StableBand(contributions)}
    BY Zenon DEF decide_verdict, contributions
  <2> QED
    BY <1>1, <2>1
<1>3. /\ "INFORMATION_NULL" \notin contributions
      /\ "INFORMATION_PRESENT" \in contributions
  <2> HIDE DEF contributions
  <2> QED
    BY <1>2 DEF StableBand
<1>4. InformationNullOracle(outs) = {}
  <2>1. ASSUME NEW v \in InformationNullOracle(outs) PROVE v.says = "INFORMATION_NULL"
    BY DEF InformationNullOracle, Says
  <2> QED
    BY <1>3, <2>1
<1>5. PICK v \in Peers(outs) : v.says = "INFORMATION_PRESENT"
  BY <1>3, <1>4
<1>6. v \in GroundingOracle(outs)
  <2>1. \A u \in ConsistencyOracle(outs) \cup HallucinationOracle(outs) :
          u.says = "CONSISTENTLY_WRONG"
    BY DEF ConsistencyOracle, HallucinationOracle, Says
  <2>2. \A u \in ContradictionOracle(outs) : u.says \in {"CONSISTENTLY_WRONG", "AMBIGUOUS"}
    BY DEF ContradictionOracle, Says
  <2> QED
    BY <1>5, <2>1, <2>2 DEF Peers
<1> QED
  BY <1>4, <1>6 DEF GroundingOracle

(* So it is entailed by at least as many outputs as deny it, and few are   *)
(* refusals.                                                               *)
LEMMA GoldIsGrounded ==
  ASSUME NEW R, NEW runs \in Seq(R), \A i \in DOMAIN runs : runs[i].output \in Outputs,
         NEW original \in Outputs, NEW cis,
         decide_verdict(original, runs, cis) = "INFORMATION_PRESENT"
  PROVE  LET outs == AllOutputs(original, runs)
         IN /\ Support(outs, "CONTRADICTION") <= Support(outs, "ENTAILMENT")
            /\ 2 * Cardinality(Nulls(outs)) < Len(outs)
<1> DEFINE outs == AllOutputs(original, runs)
           n == Len(runs) + 1
<1>1. Related(outs, "ENTAILMENT") /\ InformationNullOracle(outs) = {}
  BY GroundedCase
<1>2. n \in Nat \ {0} /\ outs \in [1..n -> Outputs] /\ Len(outs) = n
  BY OutputsType
<1> HIDE DEF outs, n
<1>3. Support(outs, "CONTRADICTION") <= Support(outs, "ENTAILMENT")
  BY <1>1, <1>2, MajorityIsMost DEF Related
<1>4. ~ (2 * Cardinality(Nulls(outs)) >= Len(outs))
  BY <1>1 DEF InformationNullOracle
<1>5. Cardinality(Nulls(outs)) \in 0..n
  <2>1. Nulls(outs) \in SUBSET (1..n)
    BY <1>2 DEF Nulls
  <2> QED
    BY <1>2, <2>1, PlacesCount
<1>6. 2 * Cardinality(Nulls(outs)) < Len(outs)
  BY <1>2, <1>4, <1>5
<1> QED
  BY <1>3, <1>6 DEF outs

(* INVALID_EVAL is given for a conflict, or, of fewer than twenty outputs, *)
(* for an invariant that all of them fail, the original one included.      *)
LEMMA InvalidEvalHasACause ==
  ASSUME NEW R, NEW runs \in Seq(R), \A i \in DOMAIN runs : runs[i].output \in Outputs,
         NEW original \in Outputs, NEW cis,
         decide_verdict(original, runs, cis) = "INVALID_EVAL",
         Len(AllOutputs(original, runs)) < 20
  PROVE  \/ \E a, b \in Peers(AllOutputs(original, runs)) :
              a.says # b.says /\ Confident(a) /\ Confident(b)
         \/ \E inv \in Invariants : <<inv, original, original>> \notin Passes
<1> DEFINE outs == AllOutputs(original, runs)
           contributions == { v.says : v \in Peers(outs) \cup InformationNullOracle(outs) }
           n == Len(runs) + 1
<1>1. MetaOracle(outs)
  <2>1. \A worst : InstabilityBand(cis, worst) # "INVALID_EVAL"
    BY DEF InstabilityBand
  <2>2. StableBand(contributions) # "INVALID_EVAL"
    BY DEF StableBand
  <2> HIDE DEF contributions
  <2>3. \/ MetaOracle(outs)
        \/ decide_verdict(original, runs, cis)
             \in {"INSUFFICIENT", "CONSISTENTLY_WRONG",
                  InstabilityBand(cis, worst_case_stratified(runs, cis)),
                  StableBand(contributions)}
    BY Zenon DEF decide_verdict, contributions
  <2> QED
    BY <2>1, <2>2, <2>3
<1>2. /\ n \in Nat \ {0} /\ outs \in [1..n -> Outputs] /\ Len(outs) = n
      /\ outs[1] = original
  BY OutputsType
<1>3. ASSUME detect_invariant_degeneration(outs)
      PROVE  \E inv \in Invariants : <<inv, original, original>> \notin Passes
  <2> DEFINE Fails(inv) == { i \in DOMAIN outs : <<inv, outs[1], outs[i]>> \notin Passes }
  <2>1. PICK inv \in Invariants : 100 * Cardinality(Fails(inv)) > 95 * Len(outs)
    BY <1>3 DEF detect_invariant_degeneration
  <2>2. Fails(inv) \in SUBSET (1..n)
    BY <1>2
  <2>3. 1 \in Fails(inv)
    <3> HIDE DEF outs, n, Fails
    <3>1. Cardinality(Fails(inv)) \in 0..n /\ (Cardinality(Fails(inv)) = n => Fails(inv) = 1..n)
      BY <1>2, <2>2, PlacesCount
    <3>2. n < 20
      BY <1>2 DEF outs
    <3>3. Cardinality(Fails(inv)) = n
      BY <1>2, <2>1, <3>1, <3>2
    <3> QED
      BY <1>2, <3>1, <3>3
  <2> QED
    BY <1>2, <2>3
<1>4. ASSUME detect_oracle_conflict(Peers(outs))
      PROVE  \E a, b \in Peers(outs) : a.says # b.says /\ Confident(a) /\ Confident(b)
  BY <1>4 DEF detect_oracle_conflict
<1> QED
  BY <1>1, <1>3, <1>4 DEF MetaOracle

-----------------------------------------------------------------------------
(* The order of the runs *)

(* The places 1..n in another order. *)
Reordering(q, n) ==
  /\ q \in [1..n -> 1..n]
  /\ \A i, j \in 1..n : i # j => q[i] # q[j]

(* An order that repeats no place leaves none out. *)
LEMMA ReorderingIsOnto ==
  ASSUME NEW n \in Nat, NEW q, Reordering(q, n)
  PROVE  \A k \in 1..n : \E i \in 1..n : q[i] = k
<1>1. IsFiniteSet(1..n)
  BY PlacesCount
<1>2. q \in Injection(1..n, 1..n)
  BY DEF Reordering, Injection, IsInjective
<1>3. q \in Surjection(1..n, 1..n)
  BY <1>1, <1>2, FS_Injection
<1> QED
  BY <1>3 DEF Surjection

(* As many places come from P as P has. *)
LEMMA ReorderedCount ==
  ASSUME NEW n \in Nat, NEW q, Reordering(q, n), NEW P \in SUBSET (1..n)
  PROVE  Cardinality({ i \in 1..n : q[i] \in P }) = Cardinality(P)
<1> DEFINE Q == { i \in 1..n : q[i] \in P }
           f == [i \in Q |-> q[i]]
<1>1. f \in [Q -> P] /\ \A i, j \in Q : f[i] = f[j] => i = j
  BY DEF Reordering
<1>2. \A k \in P : \E i \in Q : f[i] = k
  BY ReorderingIsOnto
<1>3. IsFiniteSet(Q)
  BY PlacesCount
<1> HIDE DEF Q, f
<1>4. f \in Bijection(Q, P)
  BY <1>1, <1>2 DEF Bijection, Injection, IsInjective, Surjection
<1>5. ExistsBijection(Q, P)
  BY <1>4 DEF ExistsBijection
<1> QED
  BY <1>3, <1>5, FS_Bijection DEF Q

(* As many pairs contradict each other, in whatever order they come.       *)
LEMMA ReorderedPairs ==
  ASSUME NEW n \in Nat \ {0}, NEW q, Reordering(q, n),
         NEW outs \in [1..n -> Outputs], NEW outs2 \in [1..n -> Outputs],
         Len(outs) = n, Len(outs2) = n,
         \A i \in 1..n : outs2[i] = outs[q[i]]
  PROVE  Cardinality(ContradictoryPairs(outs2)) = Cardinality(ContradictoryPairs(outs))
<1> DEFINE S == ContradictoryPairs(outs2)
           T == ContradictoryPairs(outs)
           Contra(a, b) == <<a, b>> \in Contradicts \/ <<b, a>> \in Contradicts
           sorted(a, b) == IF a < b THEN <<a, b>> ELSE <<b, a>>
           f == [p \in S |-> sorted(q[p[1]], q[p[2]])]
<1>1. /\ \A p \in S : \E a, b \in 1..n : p = <<a, b>> /\ a < b /\ Contra(outs2[a], outs2[b])
      /\ \A a, b \in 1..n : a < b /\ Contra(outs2[a], outs2[b]) => <<a, b>> \in S
  <2>1. \A p \in (1..n) \X (1..n) : \E a, b \in 1..n : p = <<a, b>> /\ p[1] = a /\ p[2] = b
    OBVIOUS
  <2> HIDE DEF Contra
  <2>2. S = { p \in (1..n) \X (1..n) : p[1] < p[2] /\ Contra(outs2[p[1]], outs2[p[2]]) }
    BY DEF ContradictoryPairs, Pairs, Contra
  <2> HIDE DEF S
  <2> QED
    BY <2>1, <2>2
<1>2. /\ \A p \in T : \E a, b \in 1..n : p = <<a, b>> /\ a < b /\ Contra(outs[a], outs[b])
      /\ \A a, b \in 1..n : a < b /\ Contra(outs[a], outs[b]) => <<a, b>> \in T
  <2>1. \A p \in (1..n) \X (1..n) : \E a, b \in 1..n : p = <<a, b>> /\ p[1] = a /\ p[2] = b
    OBVIOUS
  <2> HIDE DEF Contra
  <2>2. T = { p \in (1..n) \X (1..n) : p[1] < p[2] /\ Contra(outs[p[1]], outs[p[2]]) }
    BY DEF ContradictoryPairs, Pairs, Contra
  <2> HIDE DEF T
  <2> QED
    BY <2>1, <2>2
<1>3. IsFiniteSet(S)
  <2>1. IsFiniteSet((1..n) \X (1..n))
    <3>1. IsFiniteSet(1..n)
      BY PlacesCount
    <3> QED
      BY <3>1, FS_Product
  <2>2. S \in SUBSET ((1..n) \X (1..n))
    BY DEF ContradictoryPairs, Pairs
  <2> QED
    BY <2>1, <2>2, FS_Subset
<1> HIDE DEF S, T
<1>s. \A a, b : Contra(a, b) <=> Contra(b, a)
  OBVIOUS
<1> HIDE DEF Contra
<1>4. \A i, j \in 1..n : i # j => q[i] # q[j] /\ q[i] \in 1..n /\ q[j] \in 1..n
  BY DEF Reordering
<1>5. ASSUME NEW p \in S PROVE f[p] \in T
  <2>1. PICK a \in 1..n, b \in 1..n : p = <<a, b>> /\ a < b /\ Contra(outs2[a], outs2[b])
    BY <1>1
  <2>2. q[a] \in 1..n /\ q[b] \in 1..n /\ q[a] # q[b] /\ f[p] = sorted(q[a], q[b])
    <3>1. p[1] = a /\ p[2] = b
      BY <2>1
    <3>2. f[p] = sorted(q[p[1]], q[p[2]])
      OBVIOUS
    <3>3. a # b
      BY <2>1
    <3> QED
      BY <1>4, <3>1, <3>2, <3>3
  <2>3. Contra(outs[q[a]], outs[q[b]]) /\ Contra(outs[q[b]], outs[q[a]])
    BY <1>s, <2>1
  <2>4. CASE q[a] < q[b]
    BY <1>2, <2>2, <2>3, <2>4
  <2>5. CASE ~ (q[a] < q[b])
    <3>1. q[b] < q[a] /\ f[p] = <<q[b], q[a]>>
      BY <2>2, <2>5
    <3> QED
      BY <1>2, <2>2, <2>3, <3>1
  <2> QED
    BY <2>4, <2>5
<1>6. ASSUME NEW p \in S, NEW r \in S, f[p] = f[r] PROVE p = r
  <2>1. PICK a \in 1..n, b \in 1..n : p = <<a, b>> /\ a < b
    BY <1>1
  <2>2. PICK c \in 1..n, d \in 1..n : r = <<c, d>> /\ c < d
    BY <1>1
  <2>3. sorted(q[a], q[b]) = sorted(q[c], q[d])
    BY <1>6, <2>1, <2>2
  <2>4. \/ q[a] = q[c] /\ q[b] = q[d]
        \/ q[a] = q[d] /\ q[b] = q[c]
    <3>1. PICK A, B, G, D : A = q[a] /\ B = q[b] /\ G = q[c] /\ D = q[d]
      OBVIOUS
    <3>2. sorted(A, B) = sorted(G, D)
      BY <2>3, <3>1
    <3>3. (A = G /\ B = D) \/ (A = D /\ B = G)
      BY ONLY <3>2
    <3> QED
      BY ONLY <3>1, <3>3
  <2>5. \/ a = c /\ b = d
        \/ a = d /\ b = c
    BY <1>4, <2>1, <2>2, <2>4, Zenon
  <2> QED
    BY <2>1, <2>2, <2>5
<1>7. ASSUME NEW t \in T PROVE \E p \in S : f[p] = t
  <2>1. PICK c \in 1..n, d \in 1..n : t = <<c, d>> /\ c < d /\ Contra(outs[c], outs[d])
    BY <1>2
  <2>2. PICK a \in 1..n, b \in 1..n : q[a] = c /\ q[b] = d
    <3>1. \A y \in 1..n : \E x \in 1..n : q[x] = y
      BY ReorderingIsOnto
    <3> QED
      BY <3>1, Zenon
  <2>3. Contra(outs2[a], outs2[b]) /\ Contra(outs2[b], outs2[a])
    BY <1>s, <2>1, <2>2
  <2>4. a # b
    BY <2>1, <2>2
  <2>5. CASE a < b
    <3>1. <<a, b>> \in S
      BY <1>1, <2>3, <2>5
    <3>2. f[<<a, b>>] = sorted(q[a], q[b])
      BY <3>1
    <3> QED
      BY <2>1, <2>2, <3>1, <3>2
  <2>6. CASE b < a
    <3>1. <<b, a>> \in S
      BY <1>1, <2>3, <2>6
    <3>2. f[<<b, a>>] = sorted(q[b], q[a])
      BY <3>1
    <3>3. sorted(q[b], q[a]) = t
      BY <2>1, <2>2
    <3> QED
      BY <3>1, <3>2, <3>3
  <2> QED
    BY <2>4, <2>5, <2>6
<1>8. f \in Bijection(S, T)
  <2>1. f \in [S -> T]
    BY <1>5
  <2> HIDE DEF f
  <2> QED
    BY <1>6, <1>7, <2>1 DEF Bijection, Injection, IsInjective, Surjection
<1>9. ExistsBijection(S, T)
  BY <1>8 DEF ExistsBijection
<1> QED
  BY <1>3, <1>9, FS_Bijection DEF S, T

(* A label with no equal: no other has as much support as any may have.    *)
Untied(outs) ==
  \A a, b \in NLILabel :
    /\ a # b
    /\ \A d \in NLILabel : Support(outs, d) <= Support(outs, a)
    => Support(outs, a) # Support(outs, b)

(* The n outputs of a case, the original first, in another order.          *)
Reordered(outs, outs2, n, q) ==
  /\ n \in Nat \ {0}
  /\ Reordering(q, n) /\ q[1] = 1
  /\ outs \in [1..n -> Outputs] /\ Len(outs) = n
  /\ outs2 \in [1..n -> Outputs] /\ Len(outs2) = n
  /\ \A i \in 1..n : outs2[i] = outs[q[i]]

(* The judges find the same in the outputs, in whatever order they come,   *)
(* unless they go by the first of two labels with equal support.           *)
LEMMA JudgedAlike ==
  ASSUME NEW outs, NEW outs2, NEW n, NEW q, Reordered(outs, outs2, n, q),
         Untied(outs)
  PROVE  /\ Peers(outs2) = Peers(outs)
         /\ InformationNullOracle(outs2) = InformationNullOracle(outs)
         /\ MetaOracle(outs2) <=> MetaOracle(outs)
<1> USE DEF Reordered
<1>1. ASSUME NEW U
      PROVE  Cardinality({ i \in DOMAIN outs2 : outs2[i] \in U })
               = Cardinality({ i \in DOMAIN outs : outs[i] \in U })
  <2> DEFINE P == { i \in DOMAIN outs : outs[i] \in U }
  <2>1. P \in SUBSET (1..n)
    OBVIOUS
  <2>2. { i \in DOMAIN outs2 : outs2[i] \in U } = { i \in 1..n : q[i] \in P }
    BY DEF Reordering
  <2> HIDE DEF P
  <2> QED
    BY <2>1, <2>2, ReorderedCount DEF P
<1>2. ASSUME NEW a PROVE Support(outs2, a) = Support(outs, a)
  <2> DEFINE U == { o \in Outputs : Relation[o] = a }
  <2>1. /\ { i \in DOMAIN outs2 : Relation[outs2[i]] = a } = { i \in DOMAIN outs2 : outs2[i] \in U }
        /\ { i \in DOMAIN outs : Relation[outs[i]] = a } = { i \in DOMAIN outs : outs[i] \in U }
    OBVIOUS
  <2> HIDE DEF U
  <2> QED
    BY <1>1, <2>1 DEF Support
<1>3. Cardinality(Nulls(outs2)) = Cardinality(Nulls(outs))
  BY <1>1 DEF Nulls
<1>4. outs2[1] = outs[1]
  OBVIOUS
<1>5. detect_invariant_degeneration(outs2) <=> detect_invariant_degeneration(outs)
  <2> DEFINE U(inv) == { o \in Outputs : <<inv, outs[1], o>> \notin Passes }
  <2>1. ASSUME NEW inv
        PROVE  Cardinality({ i \in DOMAIN outs2 : <<inv, outs2[1], outs2[i]>> \notin Passes })
                 = Cardinality({ i \in DOMAIN outs : <<inv, outs[1], outs[i]>> \notin Passes })
    <3>1. /\ { i \in DOMAIN outs2 : <<inv, outs2[1], outs2[i]>> \notin Passes }
               = { i \in DOMAIN outs2 : outs2[i] \in U(inv) }
          /\ { i \in DOMAIN outs : <<inv, outs[1], outs[i]>> \notin Passes }
               = { i \in DOMAIN outs : outs[i] \in U(inv) }
      BY <1>4
    <3> HIDE DEF U
    <3> QED
      BY <1>1, <3>1
  <2> QED
    BY <2>1 DEF detect_invariant_degeneration
<1>6. is_consistently_wrong(outs2) <=> is_consistently_wrong(outs)
  <2>1. \A i \in 1..n : \E j \in 1..n : outs2[i] = outs[j]
    BY DEF Reordering
  <2>2. \A j \in 1..n : \E i \in 1..n : outs2[i] = outs[j]
    <3> TAKE j \in 1..n
    <3>1. PICK i \in 1..n : q[i] = j
      BY ReorderingIsOnto
    <3>2. outs2[i] = outs[j]
      BY <3>1
    <3> QED
      BY <3>2
  <2>3. DOMAIN outs = 1..n /\ DOMAIN outs2 = 1..n
    OBVIOUS
  <2>4. ASSUME NEW U
        PROVE  (\A i \in 1..n : outs2[i] \in U) <=> (\A j \in 1..n : outs[j] \in U)
    BY <2>1, <2>2
  <2> QED
    BY <2>3, <2>4 DEF is_consistently_wrong
<1>7. majority_relation(outs2) = majority_relation(outs)
  BY <1>2, MajorityIsMost DEF Untied
<1>8. \A a : Related(outs2, a) <=> Related(outs, a)
  BY <1>2, <1>7 DEF Related
<1>9. /\ Cardinality(ContradictoryPairs(outs2)) = Cardinality(ContradictoryPairs(outs))
      /\ Pairs(outs2) = Pairs(outs)
  BY ReorderedPairs DEF Pairs
<1>10. SelfContradictory(outs2) <=> SelfContradictory(outs)
  BY <1>9 DEF SelfContradictory
<1>11. Peers(outs2) = Peers(outs)
  <2>1. ConsistencyOracle(outs2) = ConsistencyOracle(outs)
    BY <1>6 DEF ConsistencyOracle
  <2>2. ContradictionOracle(outs2) = ContradictionOracle(outs)
    BY <1>2, <1>8, <1>9, <1>10 DEF ContradictionOracle
  <2>3. HallucinationOracle(outs2) = HallucinationOracle(outs)
    BY <1>2, <1>8 DEF HallucinationOracle
  <2>4. GroundingOracle(outs2) = GroundingOracle(outs)
    BY <1>2, <1>8 DEF GroundingOracle
  <2> QED
    BY <2>1, <2>2, <2>3, <2>4 DEF Peers
<1>12. InformationNullOracle(outs2) = InformationNullOracle(outs)
  BY <1>3 DEF InformationNullOracle
<1> QED
  BY <1>5, <1>11, <1>12 DEF MetaOracle

(* The runs of a case in another order. *)
Shuffled(runs, p) == [i \in DOMAIN runs |-> runs[p[i]]]

(* Reordering the runs changes neither which families there are nor what   *)
(* the judges find, unless two labels tie.                                 *)
LEMMA ShuffledAlike ==
  ASSUME NEW R, NEW runs \in Seq(R), \A i \in DOMAIN runs : runs[i].output \in Outputs,
         NEW original \in Outputs,
         NEW p, Reordering(p, Len(runs)),
         Untied(AllOutputs(original, runs))
  PROVE  LET runs2 == Shuffled(runs, p)
             outs == AllOutputs(original, runs)
             outs2 == AllOutputs(original, runs2)
         IN /\ runs2 \in Seq(R) /\ Len(runs2) = Len(runs)
            /\ runs2 = <<>> <=> runs = <<>>
            /\ \A i \in DOMAIN runs : \E j \in DOMAIN runs2 : runs2[j] = runs[i]
            /\ \A j \in DOMAIN runs2 : \E i \in DOMAIN runs : runs2[j] = runs[i]
            /\ FamiliesOf(runs2) = FamiliesOf(runs)
            /\ Peers(outs2) = Peers(outs)
            /\ InformationNullOracle(outs2) = InformationNullOracle(outs)
            /\ MetaOracle(outs2) <=> MetaOracle(outs)
<1> DEFINE m == Len(runs)
           n == m + 1
           runs2 == Shuffled(runs, p)
           outs == AllOutputs(original, runs)
           outs2 == AllOutputs(original, runs2)
           q == [i \in 1..n |-> IF i = 1 THEN 1 ELSE p[i - 1] + 1]
<1> USE DEF Shuffled
<1>1. /\ m \in Nat /\ DOMAIN runs = 1..m
      /\ outs \in [1..n -> Outputs] /\ Len(outs) = n /\ outs[1] = original
      /\ \A i \in DOMAIN runs : outs[i + 1] = runs[i].output
  BY OutputsType
<1>2. runs2 \in Seq(R) /\ DOMAIN runs2 = 1..m /\ Len(runs2) = m
  <2>1. \A i \in 1..m : runs[i] \in R /\ p[i] \in 1..m
    BY <1>1, ElementOfSeq DEF Reordering
  <2>2. runs2 \in [1..m -> R]
    BY <1>1, <2>1
  <2> HIDE DEF runs2, m
  <2>3. runs2 \in Seq(R)
    BY <1>1, <2>2, SeqDef
  <2> QED
    BY <1>1, <2>2, <2>3, LenProperties
<1>3. \A i \in 1..m : p[i] \in 1..m /\ runs2[i] = runs[p[i]]
  BY <1>1 DEF Reordering
<1>4. \A i \in DOMAIN runs2 : runs2[i].output \in Outputs
  BY <1>1, <1>2, <1>3
<1>5. /\ outs2 \in [1..n -> Outputs] /\ Len(outs2) = n /\ outs2[1] = original
      /\ \A i \in 1..m : outs2[i + 1] = runs2[i].output
  <2> HIDE DEF runs2, m
  <2>1. /\ outs2 \in [1..(Len(runs2) + 1) -> Outputs] /\ Len(outs2) = Len(runs2) + 1
        /\ outs2[1] = original
        /\ \A i \in DOMAIN runs2 : outs2[i + 1] = runs2[i].output
    <3> HIDE DEF n
    <3> QED
      BY <1>2, <1>4, OutputsType
  <2> QED
    BY <1>2, <2>1
<1>6. Reordering(q, n) /\ q[1] = 1
  <2>1. \A i \in 1..n : i # 1 => i - 1 \in 1..m
    BY <1>1
  <2>2. \A i \in 1..n : q[i] \in 1..n
    BY <1>1, <1>3, <2>1
  <2>3. ASSUME NEW i \in 1..n, NEW j \in 1..n, i # j PROVE q[i] # q[j]
    <3>1. \A a, b \in 1..m : a # b => p[a] # p[b] /\ p[a] \in 1..m /\ p[b] \in 1..m
      BY <1>3 DEF Reordering
    <3>2. CASE i = 1 \/ j = 1
      <4>1. \A k \in 1..n : k # 1 => q[k] # 1
        <5>1. \A k \in 1..n : k # 1 => q[k] = p[k - 1] + 1 /\ p[k - 1] \in 1..m
          BY <1>3, <2>1
        <5> QED
          BY <1>1, <5>1
      <4>2. q[1] = 1
        BY <1>1
      <4> QED
        BY <2>3, <3>2, <4>1, <4>2
    <3>3. CASE i # 1 /\ j # 1
      <4>1. i - 1 \in 1..m /\ j - 1 \in 1..m /\ i - 1 # j - 1
        BY <1>1, <2>1, <2>3, <3>3
      <4>2. PICK a \in 1..m, b \in 1..m : a = i - 1 /\ b = j - 1
        BY <4>1
      <4>3. q[i] = p[a] + 1 /\ q[j] = p[b] + 1
        BY <3>3, <4>2
      <4>4. p[a] # p[b] /\ p[a] \in Int /\ p[b] \in Int
        BY <3>1, <4>1, <4>2
      <4> QED
        BY ONLY <4>3, <4>4
    <3> QED
      BY <3>2, <3>3
  <2> QED
    BY <1>1, <2>2, <2>3 DEF Reordering
<1>7. \A i \in 1..n : outs2[i] = outs[q[i]]
  <2>1. ASSUME NEW i \in 1..n, i # 1 PROVE outs2[i] = outs[q[i]]
    <3>1. i - 1 \in 1..m /\ i = (i - 1) + 1
      BY <1>1, <2>1
    <3>2. outs2[i] = runs[p[i - 1]].output /\ p[i - 1] \in 1..m
      BY <1>3, <1>5, <3>1
    <3>3. q[i] = p[i - 1] + 1
      BY <2>1
    <3> QED
      BY <1>1, <3>2, <3>3
  <2> QED
    BY <1>1, <1>5, <2>1
<1>8. /\ Peers(outs2) = Peers(outs)
      /\ InformationNullOracle(outs2) = InformationNullOracle(outs)
      /\ MetaOracle(outs2) <=> MetaOracle(outs)
  <2>1. n \in Nat \ {0} /\ Untied(outs)
    BY <1>1
  <2> HIDE DEF outs, outs2, q, n
  <2>2. Reordered(outs, outs2, n, q)
    BY <1>1, <1>5, <1>6, <1>7, <2>1 DEF Reordered
  <2> QED
    BY <2>1, <2>2, JudgedAlike
<1>9. runs = <<>> <=> runs2 = <<>>
  <2> HIDE DEF runs2
  <2> QED
    BY <1>1, <1>2, EmptySeq
<1>10. /\ \A i \in DOMAIN runs : \E j \in DOMAIN runs2 : runs2[j] = runs[i]
       /\ \A j \in DOMAIN runs2 : \E i \in DOMAIN runs : runs2[j] = runs[i]
  <2>1. \A k \in 1..m : \E i \in 1..m : p[i] = k
    BY <1>1, ReorderingIsOnto
  <2> HIDE DEF m
  <2>2. \A i \in DOMAIN runs : \E j \in DOMAIN runs2 : runs2[j] = runs[i]
    BY <1>1, <1>2, <1>3, <2>1
  <2>3. \A j \in DOMAIN runs2 : \E i \in DOMAIN runs : runs2[j] = runs[i]
    BY <1>1, <1>2, <1>3
  <2> QED
    BY <2>2, <2>3
<1>11. FamiliesOf(runs2) = FamiliesOf(runs)
  <2> HIDE DEF runs2
  <2> QED
    BY <1>10 DEF FamiliesOf
<1> HIDE DEF runs2, outs, outs2
<1> QED
  BY <1>2, <1>8, <1>9, <1>10, <1>11 DEF runs2, outs, outs2

(* The priority chain, the oracles having spoken: what the bands add is    *)
(* what the worst interval is.                                             *)
Chain(original, runs, low, band) ==
  LET outs == AllOutputs(original, runs)
      contributions == { u.says : u \in Peers(outs) \cup InformationNullOracle(outs) }
  IN IF runs = <<>> \/ Invariants = {} THEN "INSUFFICIENT"
     ELSE IF MetaOracle(outs) THEN "INVALID_EVAL"
     ELSE IF "CONSISTENTLY_WRONG" \in contributions THEN "CONSISTENTLY_WRONG"
     ELSE IF low < StableBar THEN band
     ELSE StableBand(contributions)

(* Of the same runs in another order the chain differs by the worst        *)
(* interval only.                                                          *)
LEMMA ShuffledChain ==
  ASSUME NEW R, NEW runs \in Seq(R), \A i \in DOMAIN runs : runs[i].output \in Outputs,
         NEW original \in Outputs,
         NEW p, Reordering(p, Len(runs)),
         Untied(AllOutputs(original, runs)), NEW cis
  PROVE  LET runs2 == Shuffled(runs, p)
             g == worst_case_stratified(runs2, cis)
         IN decide_verdict(original, runs2, cis)
              = Chain(original, runs, Lo(cis, g), InstabilityBand(cis, g))
<1> DEFINE runs2 == Shuffled(runs, p)
           outs == AllOutputs(original, runs)
           outs2 == AllOutputs(original, runs2)
<1>1. /\ runs2 = <<>> <=> runs = <<>>
      /\ Peers(outs2) = Peers(outs)
      /\ InformationNullOracle(outs2) = InformationNullOracle(outs)
      /\ MetaOracle(outs2) <=> MetaOracle(outs)
  BY ShuffledAlike
<1> HIDE DEF runs2
<1>2. decide_verdict(original, runs2, cis)
        = Chain(original, runs, Lo(cis, worst_case_stratified(runs2, cis)),
                InstabilityBand(cis, worst_case_stratified(runs2, cis)))
  BY <1>1 DEF decide_verdict, Chain
<1> QED
  BY <1>2 DEF runs2

(* The verdict of a case whose runs come in another order is the same, or  *)
(* two labels tie, or two worst families with different upper bounds do.   *)
LEMMA OrderBreaksTiesOnly ==
  ASSUME NEW R, NEW runs \in Seq(R), \A i \in DOMAIN runs : runs[i].output \in Outputs,
         Len(runs) <= MaxRuns, NEW original \in Outputs,
         NEW cis \in Intervals(original, runs),
         NEW p, Reordering(p, Len(runs)),
         Untied(AllOutputs(original, runs))
  PROVE  LET runs2 == Shuffled(runs, p)
             v == decide_verdict(original, runs, cis)
             v2 == decide_verdict(original, runs2, cis)
             f == worst_case_stratified(runs, cis)
             g == worst_case_stratified(runs2, cis)
         IN v2 # v =>
              /\ {v2, v} = {"FRAGILE", "AMBIGUOUS"}
              /\ f \in DOMAIN cis /\ g \in DOMAIN cis
              /\ f # g /\ Lo(cis, f) = Lo(cis, g) /\ Hi(cis, f) # Hi(cis, g)
<1> DEFINE runs2 == Shuffled(runs, p)
           f == worst_case_stratified(runs, cis)
           g == worst_case_stratified(runs2, cis)
<1>1. /\ runs2 \in Seq(R)
      /\ runs2 = <<>> <=> runs = <<>>
      /\ FamiliesOf(runs2) = FamiliesOf(runs)
  BY ShuffledAlike
<1>2. ASSUME runs # <<>>
       PROVE  /\ f \in DOMAIN cis /\ g \in DOMAIN cis
              /\ Lo(cis, f) = Lo(cis, g)
  <2>1. cis \in [FamiliesOf(runs) -> Interval]
    BY IntervalsType
  <2>2. FamiliesOf(runs2) = FamiliesOf(runs)
    BY <1>1
  <2> HIDE DEF runs2
  <2>3. /\ f \in FamiliesOf(runs)
        /\ \A h \in FamiliesOf(runs) : Lo(cis, f) <= Lo(cis, h)
    BY <1>2, <2>1, WorstRunIsWorst DEF worst_case_stratified, FamiliesOf
  <2>4. /\ g \in FamiliesOf(runs)
        /\ \A h \in FamiliesOf(runs) : Lo(cis, g) <= Lo(cis, h)
    <3>1. cis \in [FamiliesOf(runs2) -> Interval] /\ runs2 # <<>>
      BY <1>1, <1>2, <2>1, <2>2
    <3>2. /\ WorstRun(runs2, cis) \in DOMAIN runs2
          /\ \A h \in FamiliesOf(runs2) : Lo(cis, worst_case_stratified(runs2, cis)) <= Lo(cis, h)
      BY <1>1, <3>1, WorstRunIsWorst
    <3>3. worst_case_stratified(runs2, cis) \in FamiliesOf(runs2)
      BY <3>2 DEF worst_case_stratified, FamiliesOf
    <3> QED
      BY <2>2, <3>2, <3>3
  <2>5. \A h \in FamiliesOf(runs) : Lo(cis, h) \in Nat
    BY <2>1, ResolverAssumption DEF Lo, Interval
  <2> HIDE DEF f, g
  <2> QED
    BY <2>1, <2>3, <2>4, <2>5
<1> DEFINE v == decide_verdict(original, runs, cis)
           v2 == decide_verdict(original, runs2, cis)
<1>3. ASSUME v2 # v
       PROVE  /\ {v2, v} = {"FRAGILE", "AMBIGUOUS"}
              /\ f \in DOMAIN cis /\ g \in DOMAIN cis
              /\ f # g /\ Lo(cis, f) = Lo(cis, g) /\ Hi(cis, f) # Hi(cis, g)
  <2>1. v = Chain(original, runs, Lo(cis, f), InstabilityBand(cis, f))
    BY DEF decide_verdict, Chain
  <2>2. v2 = Chain(original, runs, Lo(cis, g), InstabilityBand(cis, g))
    BY ShuffledChain
  <2> HIDE DEF v, v2, f, g, runs2
  <2>3. runs # <<>>
    BY <1>3, <2>1, <2>2 DEF Chain
  <2>4. /\ f \in DOMAIN cis /\ g \in DOMAIN cis
        /\ Lo(cis, f) = Lo(cis, g)
    BY <1>2, <2>3
  <2>5. /\ v = InstabilityBand(cis, f) /\ v2 = InstabilityBand(cis, g)
    BY <1>3, <2>1, <2>2, <2>3, <2>4 DEF Chain
  <2>6. Hi(cis, f) # Hi(cis, g)
    BY <1>3, <2>5 DEF InstabilityBand
  <2>7. {v2, v} = {"FRAGILE", "AMBIGUOUS"}
    BY <1>3, <2>5 DEF InstabilityBand
  <2> QED
    BY <2>4, <2>6, <2>7
<1> QED
  BY <1>3

(* Where one failure breaks a family, the worst family holds exactly if    *)
(* every run passed.                                                       *)
LEMMA HeldIffPassed ==
  ASSUME NEW R, NEW runs \in Seq(R), runs # <<>>, Len(runs) <= MaxRuns,
         NEW original, NEW cis \in Intervals(original, runs), OneFailureBreaks
  PROVE  StableBar <= Lo(cis, worst_case_stratified(runs, cis))
           <=> \A i \in DOMAIN runs : RunPassed(original, runs[i])
<1> DEFINE worst == worst_case_stratified(runs, cis)
<1>1. cis \in [FamiliesOf(runs) -> Interval]
  BY IntervalsType
<1>2. /\ worst \in FamiliesOf(runs)
      /\ \A f \in FamiliesOf(runs) : Lo(cis, worst) <= Lo(cis, f)
  BY <1>1, WorstRunIsWorst DEF worst_case_stratified, FamiliesOf
<1>3. \A f \in FamiliesOf(runs) : Lo(cis, f) \in 0..Scale
  BY <1>1 DEF Lo, Interval
<1> HIDE DEF worst
<1>4. ASSUME NEW f \in FamiliesOf(runs)
      PROVE  StableBar <= Lo(cis, f)
               <=> \A i \in Stratum(runs, f) : RunPassed(original, runs[i])
  <2>1. PICK n, k : /\ n = stratify_by_family(original, runs)[f].n
                    /\ k = stratify_by_family(original, runs)[f].k
    OBVIOUS
  <2>2. n \in 1..MaxRuns /\ k \in 0..n
    BY <2>1, StratumSize
  <2>3. cis[f] \in BootstrapCI(n, k)
    BY <2>1 DEF Intervals
  <2>4. k = n => StableBar <= Lo(cis, f)
    <3>1. k = n => cis[f] = <<Scale, Scale>>
      BY <2>2, <2>3, BootstrapAssumption
    <3> QED
      BY <3>1, ResolverAssumption DEF Lo
  <2>5. k # n => ~ (StableBar <= Lo(cis, f))
    <3>1. k # n => k \in 0..(n - 1)
      BY <2>2, ResolverAssumption
    <3>2. k # n => Lo(cis, f) < StableBar
      BY <2>2, <2>3, <3>1 DEF OneFailureBreaks, Lo
    <3> QED
      BY <1>3, <3>2, ResolverAssumption
  <2>6. k = n <=> \A i \in Stratum(runs, f) : RunPassed(original, runs[i])
    BY <2>1, FullStratum
  <2> QED
    BY <2>4, <2>5, <2>6
<1>5. StableBar <= Lo(cis, worst) <=> \A f \in FamiliesOf(runs) : StableBar <= Lo(cis, f)
  BY <1>2, <1>3, ResolverAssumption
<1>6. (\A f \in FamiliesOf(runs) : \A i \in Stratum(runs, f) : RunPassed(original, runs[i]))
        <=> \A i \in DOMAIN runs : RunPassed(original, runs[i])
  BY DEF Stratum, FamiliesOf
<1> QED
  BY <1>4, <1>5, <1>6 DEF worst

Bands == { "ADVERSARIALLY_VULNERABLE", "FRAGILE", "AMBIGUOUS",
           "STABLE", "INFORMATION_PRESENT", "INFORMATION_NULL" }

(* Two draws of the bootstrap for the same runs, in whatever orders, give  *)
(* verdicts that differ only within the bands, and where one failure       *)
(* breaks a family only within those of instability.                       *)
LEMMA DrawsStayInTheBands ==
  ASSUME NEW R, NEW runs \in Seq(R), \A i \in DOMAIN runs : runs[i].output \in Outputs,
         Len(runs) <= MaxRuns, NEW original \in Outputs,
         NEW cis \in Intervals(original, runs),
         NEW p, Reordering(p, Len(runs)),
         Untied(AllOutputs(original, runs)),
         NEW cis2 \in Intervals(original, Shuffled(runs, p)),
         decide_verdict(original, Shuffled(runs, p), cis2)
           # decide_verdict(original, runs, cis)
  PROVE  LET v == decide_verdict(original, runs, cis)
             v2 == decide_verdict(original, Shuffled(runs, p), cis2)
         IN /\ {v2, v} \subseteq Bands
            /\ OneFailureBreaks =>
                 {v2, v} \subseteq {"ADVERSARIALLY_VULNERABLE", "FRAGILE", "AMBIGUOUS"}
<1> DEFINE runs2 == Shuffled(runs, p)
           v == decide_verdict(original, runs, cis)
           v2 == decide_verdict(original, runs2, cis2)
<1>1. PICK low, low2, band, band2 :
        /\ low = Lo(cis, worst_case_stratified(runs, cis))
        /\ low2 = Lo(cis2, worst_case_stratified(runs2, cis2))
        /\ band = InstabilityBand(cis, worst_case_stratified(runs, cis))
        /\ band2 = InstabilityBand(cis2, worst_case_stratified(runs2, cis2))
  OBVIOUS
<1>2. {band, band2} \subseteq {"ADVERSARIALLY_VULNERABLE", "FRAGILE", "AMBIGUOUS"}
  BY <1>1 DEF InstabilityBand
<1>3. /\ v = Chain(original, runs, low, band)
      /\ v2 = Chain(original, runs, low2, band2)
  <2>1. v = Chain(original, runs, low, band)
    BY <1>1 DEF decide_verdict, Chain
  <2>2. v2 = Chain(original, runs, low2, band2)
    BY <1>1, ShuffledChain
  <2> QED
    BY <2>1, <2>2
<1>4. v2 # v
  OBVIOUS
<1>5. PICK stable \in {"STABLE", "INFORMATION_PRESENT", "INFORMATION_NULL"} :
        \/ Chain(original, runs, low, band) = Chain(original, runs, low2, band2)
        \/ /\ runs # <<>>
           /\ Chain(original, runs, low, band) = IF low < StableBar THEN band ELSE stable
           /\ Chain(original, runs, low2, band2) = IF low2 < StableBar THEN band2 ELSE stable
  <2>1. \A contributions : StableBand(contributions)
          \in {"STABLE", "INFORMATION_PRESENT", "INFORMATION_NULL"}
    BY DEF StableBand
  <2> QED
    BY <2>1 DEF Chain
<1>6. ASSUME OneFailureBreaks, runs # <<>>
      PROVE  StableBar <= low <=> StableBar <= low2
  <2>1. /\ runs2 \in Seq(R) /\ Len(runs2) = Len(runs)
        /\ runs2 = <<>> <=> runs = <<>>
        /\ \A i \in DOMAIN runs : \E j \in DOMAIN runs2 : runs2[j] = runs[i]
        /\ \A j \in DOMAIN runs2 : \E i \in DOMAIN runs : runs2[j] = runs[i]
    <3>1. PICK shuffled : shuffled = runs2
      OBVIOUS
    <3> HIDE DEF v, v2
    <3>2. /\ shuffled \in Seq(R) /\ Len(shuffled) = Len(runs)
          /\ shuffled = <<>> <=> runs = <<>>
          /\ \A i \in DOMAIN runs : \E j \in DOMAIN shuffled : shuffled[j] = runs[i]
          /\ \A j \in DOMAIN shuffled : \E i \in DOMAIN runs : shuffled[j] = runs[i]
      BY <3>1, ShuffledAlike, SMTT(30)
    <3> QED
      BY <3>1, <3>2
  <2> HIDE DEF runs2
  <2>2. StableBar <= low <=> \A i \in DOMAIN runs : RunPassed(original, runs[i])
    BY <1>1, <1>6, HeldIffPassed
  <2>3. cis2 \in Intervals(original, runs2)
    BY DEF runs2
  <2>4. StableBar <= low2 <=> \A i \in DOMAIN runs2 : RunPassed(original, runs2[i])
    BY <1>1, <1>6, <2>1, <2>3, HeldIffPassed
  <2> QED
    BY <2>1, <2>2, <2>4
<1>7. runs # <<>> => low \in Int /\ low2 \in Int
  <2>1. ASSUME NEW rs \in Seq(R), rs # <<>>, Len(rs) <= MaxRuns,
               NEW ci \in Intervals(original, rs)
        PROVE  Lo(ci, worst_case_stratified(rs, ci)) \in Int
    <3>1. ci \in [FamiliesOf(rs) -> Interval]
      BY <2>1, IntervalsType
    <3>2. worst_case_stratified(rs, ci) \in FamiliesOf(rs)
      BY <2>1, <3>1, WorstRunIsWorst DEF worst_case_stratified, FamiliesOf
    <3> QED
      BY <3>1, <3>2, ResolverAssumption DEF Lo, Interval
  <2>2. /\ runs2 \in Seq(R) /\ Len(runs2) = Len(runs)
        /\ runs2 = <<>> <=> runs = <<>>
    BY ShuffledAlike
  <2>3. cis2 \in Intervals(original, runs2)
    OBVIOUS
  <2> HIDE DEF runs2
  <2> QED
    BY <1>1, <2>1, <2>2, <2>3
<1> HIDE DEF v, v2, runs2
<1>8. /\ runs # <<>>
      /\ v = IF low < StableBar THEN band ELSE stable
      /\ v2 = IF low2 < StableBar THEN band2 ELSE stable
  BY <1>3, <1>4, <1>5
<1>9. {v2, v} \subseteq Bands
  BY <1>2, <1>8 DEF Bands
<1>10. OneFailureBreaks =>
         {v2, v} \subseteq {"ADVERSARIALLY_VULNERABLE", "FRAGILE", "AMBIGUOUS"}
  BY <1>2, <1>4, <1>6, <1>7, <1>8, ResolverAssumption
<1> QED
  BY <1>9, <1>10 DEF v, v2, runs2
=============================================================================
