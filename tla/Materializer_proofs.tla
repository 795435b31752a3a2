------------------------- MODULE Materializer_proofs --------------------------
(***************************************************************************)
(* That the samples of a session have identities of their own, and that    *)
(* the rewrites are accounted for, from one invariant: what is realized,   *)
(* and every call that was made, belongs to a sample the loops have left   *)
(* behind or are at, and the samples behind are settled.  And that what is *)
(* returned is a realization of the spec: the inputs of a case follow the  *)
(* slots that its perturbations ask for.                                   *)
(***************************************************************************)
EXTENDS Materializer, FiniteSetTheorems, FunctionTheorems, WellFoundedInduction, TLAPS

(* The sample of x is behind. *)
Placed(c, x) ==
  \E i \in DOMAIN Perturbations[c] :
    /\ x.seed = derive_perturbation_seed(c, i)
    /\ Past(c, i, x.params.sample_index)

Identified(c) ==
  /\ \A i \in DOMAIN realized[c] : Placed(c, realized[c][i])
  /\ \A i, j \in DOMAIN realized[c] :
          /\ realized[c][i].seed = realized[c][j].seed
          /\ realized[c][i].params.sample_index = realized[c][j].params.sample_index
       => i = j

(* A call was made for a sample that is behind, or in an earlier attempt   *)
(* at this one.                                                            *)
Behind(a) ==
  \/ Past(a.case, a.index, a.sample)
  \/ /\ a.case = at.case /\ a.index = at.index /\ a.sample = at.sample
     /\ a.attempt < at.attempt

Made(call) ==
  LET a == call.at
  IN /\ a \in [case : Nat, index : Nat, sample : Nat, attempt : Nat]
     /\ a.case \in Cases /\ a.index \in Paraphrases(a.case)
     /\ a.sample < Perturbations[a.case][a.index].count
     /\ a.attempt < Perturbations[a.case][a.index].max_attempts
     /\ call.seed = per_call_seed(derive_perturbation_seed(a.case, a.index),
                                  a.sample, a.attempt,
                                  Perturbations[a.case][a.index].max_attempts)
     /\ Behind(a)

CallsMade ==
  /\ \A k \in DOMAIN calls : Made(calls[k])
  /\ \A j, k \in DOMAIN calls : calls[j].at = calls[k].at => j = k

Current ==
  pc = "working" /\ Here.type = "paraphrase" =>
    /\ Valid(at.case, at.index, at.sample) = {}
    /\ IsFiniteSet(Tries(at.case, at.index, at.sample))
    /\ Cardinality(Tries(at.case, at.index, at.sample)) = at.attempt

AllSettled ==
  \A c \in Cases : \A i \in Paraphrases(c) : \A s \in Nat :
    Past(c, i, s) /\ s < Perturbations[c][i].count => Settled(c, i, s)

MaterializerInv ==
  /\ TypeOK
  /\ \A c \in Cases : Identified(c)
  /\ CallsMade /\ Current /\ AllSettled
-----------------------------------------------------------------------------
(* Arithmetic of the calls' seeds *)

LEMMA TimesAdds ==
  ASSUME NEW m \in Nat, NEW s \in Nat, NEW t \in Nat, s < t
  PROVE  s * m + m <= t * m
<1>1. t = s + 1 + (t - s - 1) /\ t - s - 1 \in Nat
  OBVIOUS
<1> DEFINE d == t - s - 1
<1>2. d * m >= 0
  BY <1>1
<1>3. t * m = s * m + m + d * m
  BY <1>1
<1> QED  BY <1>2, <1>3

(* Numbers less than the modulus apart have different remainders.          *)
LEMMA RemaindersDiffer ==
  ASSUME NEW M \in Nat \ {0}, NEW x \in Nat, NEW y \in Nat, x < y, y < x + M
  PROVE  x % M # y % M
<1> SUFFICES ASSUME x % M = y % M PROVE FALSE
  OBVIOUS
<1> DEFINE a == x \div M
           b == y \div M
           r == x % M
<1>1. a \in Int /\ b \in Int /\ r \in Int /\ x = M * a + r /\ y = M * b + r
  OBVIOUS
<1> HIDE DEF a, b, r
<1>2. M * (b - a) = y - x
  BY <1>1
<1>3. CASE b <= a
  <2>1. M * (b - a) <= 0
    BY <1>1, <1>3
  <2> QED  BY <1>2, <2>1
<1>4. CASE b >= a + 1
  <2>1. M * (b - a) >= M
    BY <1>1, <1>4
  <2> QED  BY <1>2, <2>1
<1> QED  BY <1>1, <1>3, <1>4

(* Two attempts of one paraphrase have one seed only if they are one.      *)
LEMMA SeedsOfAttempts ==
  \A seed, count, s, t, a, b \in Nat : \A m \in Nat \ {0} :
    /\ count * m <= MaxApiSeed /\ s < count /\ t < count /\ a < m /\ b < m
    /\ per_call_seed(seed, s, a, m) = per_call_seed(seed, t, b, m)
    => s = t /\ a = b
<1> TAKE seed, count, s, t, a, b \in Nat
<1> TAKE m \in Nat \ {0}
<1> HAVE /\ count * m <= MaxApiSeed /\ s < count /\ t < count /\ a < m /\ b < m
         /\ per_call_seed(seed, s, a, m) = per_call_seed(seed, t, b, m)
<1> DEFINE u == s * m + a
           v == t * m + b
<1>1. MaxApiSeed \in Nat \ {0}
  BY MaterializerAssumption
<1>2. u \in Nat /\ v \in Nat /\ u < MaxApiSeed /\ v < MaxApiSeed
  <2>1. s * m + m <= count * m /\ t * m + m <= count * m
    BY TimesAdds
  <2>2. s * m \in Nat /\ t * m \in Nat /\ count * m \in Nat
    OBVIOUS
  <2> QED  BY <1>1, <2>1, <2>2
<1>3. (seed + u) % MaxApiSeed = (seed + v) % MaxApiSeed
  BY DEF per_call_seed
<1>4. ~ (u < v) /\ ~ (v < u)
  <2> HIDE DEF u, v
  <2>1. seed + u \in Nat /\ seed + v \in Nat
    BY <1>2
  <2>2. ASSUME u < v PROVE FALSE
    <3>1. seed + u < seed + v /\ seed + v < seed + u + MaxApiSeed
      BY <1>1, <1>2, <2>2
    <3> QED  BY <1>1, <1>3, <2>1, <3>1, RemaindersDiffer
  <2>3. ASSUME v < u PROVE FALSE
    <3>1. seed + v < seed + u /\ seed + u < seed + v + MaxApiSeed
      BY <1>1, <1>2, <2>3
    <3> QED  BY <1>1, <1>3, <2>1, <3>1, RemaindersDiffer
  <2> QED  BY <2>2, <2>3
<1>5. u = v
  BY <1>2, <1>4
<1>6. s = t
  <2>1. s * m \in Nat /\ t * m \in Nat
    OBVIOUS
  <2>2. ASSUME s < t PROVE FALSE
    <3>1. s * m + m <= t * m
      BY <2>2, TimesAdds
    <3> QED  BY <1>5, <2>1, <3>1
  <2>3. ASSUME t < s PROVE FALSE
    <3>1. t * m + m <= s * m
      BY <2>3, TimesAdds
    <3> QED  BY <1>5, <2>1, <3>1
  <2> QED  BY <2>2, <2>3
<1> QED  BY <1>5, <1>6

-----------------------------------------------------------------------------
(* Where the loops are *)

LEMMA SpecType ==
  /\ Cases = 1..Len(CaseInput) /\ Len(CaseInput) \in Nat /\ 1 \in Cases
  /\ MaxApiSeed \in Nat \ {0}
  /\ \A c \in Cases :
       /\ DOMAIN Perturbations[c] = 1..Len(Perturbations[c])
       /\ Len(Perturbations[c]) \in Nat /\ 1 \in DOMAIN Perturbations[c]
       /\ \A i \in DOMAIN Perturbations[c] :
            /\ WellFormed(Perturbations[c][i])
            /\ derive_perturbation_seed(c, i) \in Nat
<1>1. ASSUME NEW q, IsSeq(q), q # <<>>
      PROVE  DOMAIN q = 1..Len(q) /\ Len(q) \in Nat /\ 1 \in DOMAIN q
  <2> DEFINE S == { q[i] : i \in DOMAIN q }
  <2>1. q \in Seq(S)
    BY <1>1 DEF IsSeq
  <2> HIDE DEF S
  <2> QED  BY <1>1, <2>1
<1> QED  BY <1>1, MaterializerAssumption DEF Cases

LEMMA ParaphraseType ==
  ASSUME NEW c \in Cases, NEW i \in Paraphrases(c)
  PROVE  /\ i \in DOMAIN Perturbations[c]
         /\ Perturbations[c][i].count \in Nat \ {0}
         /\ Perturbations[c][i].max_attempts \in Nat \ {0}
         /\ Perturbations[c][i].count * Perturbations[c][i].max_attempts <= MaxApiSeed
BY SpecType DEF Paraphrases, WellFormed

(* Appending to a sequence, whatever its elements. *)
LEMMA AppendType ==
  ASSUME NEW q, IsSeq(q), NEW x
  PROVE  /\ IsSeq(Append(q, x))
         /\ DOMAIN q = 1..Len(q) /\ Len(q) \in Nat
         /\ Len(q) + 1 \notin DOMAIN q
         /\ DOMAIN Append(q, x) = DOMAIN q \cup {Len(q) + 1}
         /\ Append(q, x)[Len(q) + 1] = x
         /\ \A i \in DOMAIN q : Append(q, x)[i] = q[i]
<1> DEFINE S == { q[i] : i \in DOMAIN q }
           r == Append(q, x)
<1>1. q \in Seq(S)
  BY DEF IsSeq
<1>2. S \subseteq S \cup {x} /\ x \in S \cup {x}
  OBVIOUS
<1> HIDE DEF S
<1>3. q \in Seq(S \cup {x})
  BY <1>1, <1>2
<1>4. /\ DOMAIN q = 1..Len(q) /\ Len(q) \in Nat
      /\ r \in Seq(S \cup {x}) /\ Len(r) = Len(q) + 1
      /\ r[Len(q) + 1] = x /\ \A i \in DOMAIN q : r[i] = q[i]
  BY <1>2, <1>3
<1>5. DOMAIN r = 1..Len(r)
  BY <1>4
<1> HIDE DEF r
<1>6. r \in Seq({ r[i] : i \in DOMAIN r })
  BY <1>4, <1>5
<1> QED  BY <1>4, <1>5, <1>6 DEF r, IsSeq

(* What lies behind after a step: what lay behind before, and what the     *)
(* step leaves.                                                            *)
LEMMA OnwardMoves ==
  ASSUME TypeOK, pc = "working", Onward
  PROVE  /\ pc' \in {"working", "done"}
         /\ at' \in [case : Nat, index : Nat, sample : Nat, attempt : Nat]
         /\ at'.sample = 0 /\ at'.attempt = 0
         /\ pc' = "working" =>
              at'.case \in Cases /\ at'.index \in DOMAIN Perturbations[at'.case]
         /\ \A c \in Cases : \A i \in DOMAIN Perturbations[c] : \A s \in Nat :
              Past(c, i, s)' <=> Past(c, i, s) \/ (c = at.case /\ i = at.index)
<1>1. /\ at \in [case : Nat, index : Nat, sample : Nat, attempt : Nat]
      /\ at.case \in Cases /\ at.index \in DOMAIN Perturbations[at.case]
  BY DEF TypeOK
<1>2. /\ at.case \in 1..Len(CaseInput) /\ Len(CaseInput) \in Nat
      /\ Cases = 1..Len(CaseInput)
      /\ at.index \in 1..Len(Perturbations[at.case]) /\ Len(Perturbations[at.case]) \in Nat
  BY <1>1, SpecType
<1>3. CASE at.index < Len(Perturbations[at.case])
  <2>1. pc' = pc /\ at' = At(at.case, at.index + 1, 0, 0)
    BY <1>3 DEF Onward
  <2>2. /\ at'.case = at.case /\ at'.index = at.index + 1
        /\ at'.sample = 0 /\ at'.attempt = 0
        /\ at' \in [case : Nat, index : Nat, sample : Nat, attempt : Nat]
    BY <1>1, <2>1 DEF At
  <2>3. at'.index \in DOMAIN Perturbations[at'.case]
    BY <1>1, <1>2, <1>3, <2>2, SpecType
  <2>4. ASSUME NEW c \in Cases, NEW i \in DOMAIN Perturbations[c], NEW s \in Nat
        PROVE  Past(c, i, s)' <=> Past(c, i, s) \/ (c = at.case /\ i = at.index)
    <3>1. c \in Nat /\ i \in Nat
      BY SpecType
    <3> QED  BY <1>1, <2>2, <3>1 DEF Past
  <2> QED  BY <1>1, <2>1, <2>2, <2>3, <2>4
<1>4. CASE ~ (at.index < Len(Perturbations[at.case]))
  <2>1. /\ at' = At(at.case + 1, 1, 0, 0)
        /\ pc' = IF at.case = Len(CaseInput) THEN "done" ELSE pc
    BY <1>4 DEF Onward
  <2>2. /\ at'.case = at.case + 1 /\ at'.index = 1
        /\ at'.sample = 0 /\ at'.attempt = 0
        /\ at' \in [case : Nat, index : Nat, sample : Nat, attempt : Nat]
    BY <1>1, <2>1 DEF At
  <2>3. pc' = "working" =>
          at'.case \in Cases /\ at'.index \in DOMAIN Perturbations[at'.case]
    <3>1. pc' = "working" => at'.case \in Cases
      BY <1>2, <2>1, <2>2
    <3> QED  BY <2>2, <3>1, SpecType
  <2>4. ASSUME NEW c \in Cases, NEW i \in DOMAIN Perturbations[c], NEW s \in Nat
        PROVE  Past(c, i, s)' <=> Past(c, i, s) \/ (c = at.case /\ i = at.index)
    <3>1. c \in Nat /\ i \in 1..Len(Perturbations[c]) /\ Len(Perturbations[c]) \in Nat
      BY SpecType
    <3>2. c = at.case => i <= at.index
      BY <1>2, <1>4, <3>1
    <3> QED  BY <1>1, <2>2, <3>1, <3>2 DEF Past
  <2> QED  BY <2>1, <2>2, <2>3, <2>4
<1> QED  BY <1>3, <1>4

Position ==
  /\ pc \in {"working", "done", "failed"}
  /\ at \in [case : Nat, index : Nat, sample : Nat, attempt : Nat]
  /\ pc = "working" =>
       /\ at.case \in Cases
       /\ at.index \in DOMAIN Perturbations[at.case]
       /\ IF Here.type = "paraphrase"
          THEN /\ at.sample \in 0..(Here.count - 1)
               /\ at.attempt \in 0..(Here.max_attempts - 1)
          ELSE at.sample = 0 /\ at.attempt = 0

(* The sample that the loops are at. *)
Now(c, i, s) == c = at.case /\ i = at.index /\ s = at.sample

LEMMA OnwardPosition ==
  ASSUME TypeOK, pc = "working", Onward
  PROVE  Position'
<1>1. /\ pc' \in {"working", "done"}
      /\ at' \in [case : Nat, index : Nat, sample : Nat, attempt : Nat]
      /\ at'.sample = 0 /\ at'.attempt = 0
      /\ pc' = "working" =>
           at'.case \in Cases /\ at'.index \in DOMAIN Perturbations[at'.case]
  BY OnwardMoves
<1>2. ASSUME pc' = "working", Here'.type = "paraphrase"
      PROVE  Here'.count \in Nat \ {0} /\ Here'.max_attempts \in Nat \ {0}
  <2>1. at'.case \in Cases /\ at'.index \in Paraphrases(at'.case)
    BY <1>1, <1>2 DEF Paraphrases, Here
  <2> QED  BY <2>1, ParaphraseType DEF Here
<1> QED  BY <1>1, <1>2 DEF Position

(* A sample that is over, and nothing else, comes to lie behind.           *)
LEMMA SampleIsOver ==
  ASSUME TypeOK, pc = "working", Here.type = "paraphrase", NextSample
  PROVE  /\ Position' /\ at'.attempt = 0
         /\ \A c \in Cases : \A i \in DOMAIN Perturbations[c] : \A s \in Nat :
              Past(c, i, s) => Past(c, i, s)'
         /\ \A c \in Cases : \A i \in DOMAIN Perturbations[c] : \A s \in Nat :
              (i \in Paraphrases(c) => s < Perturbations[c][i].count) =>
                (Past(c, i, s)' <=> Past(c, i, s) \/ Now(c, i, s))
<1>1. /\ at \in [case : Nat, index : Nat, sample : Nat, attempt : Nat]
      /\ at.case \in Cases /\ at.index \in Paraphrases(at.case)
      /\ Here = Perturbations[at.case][at.index]
      /\ at.sample \in 0..(Here.count - 1)
  BY DEF TypeOK, Paraphrases, Here
<1>2. Here.count \in Nat \ {0} /\ Here.max_attempts \in Nat \ {0}
  BY <1>1, ParaphraseType
<1>3. CASE at.sample + 1 < Here.count
  <2>1. at' = At(at.case, at.index, at.sample + 1, 0) /\ pc' = pc
    BY <1>3 DEF NextSample
  <2>2. /\ at'.case = at.case /\ at'.index = at.index
        /\ at'.sample = at.sample + 1 /\ at'.attempt = 0
        /\ at' \in [case : Nat, index : Nat, sample : Nat, attempt : Nat]
    BY <1>1, <2>1 DEF At
  <2>3. Here' = Here
    BY <2>2 DEF Here
  <2>4. Position'
    BY <1>1, <1>2, <1>3, <2>1, <2>2, <2>3 DEF Position, Paraphrases
  <2>5. ASSUME NEW c \in Cases, NEW i \in DOMAIN Perturbations[c], NEW s \in Nat
        PROVE  Past(c, i, s)' <=> Past(c, i, s) \/ Now(c, i, s)
    <3>1. c \in Nat /\ i \in Nat
      BY SpecType
    <3> QED  BY <1>1, <2>2, <3>1 DEF Past, Now
  <2> QED  BY <2>2, <2>4, <2>5
<1>4. CASE ~ (at.sample + 1 < Here.count)
  <2>1. Onward
    BY <1>4 DEF NextSample
  <2>2. Position' /\ at'.attempt = 0
    BY <2>1, OnwardMoves, OnwardPosition
  <2>3. ASSUME NEW c \in Cases, NEW i \in DOMAIN Perturbations[c], NEW s \in Nat,
               i \in Paraphrases(c) => s < Perturbations[c][i].count
        PROVE  Past(c, i, s)' <=> Past(c, i, s) \/ Now(c, i, s)
    <3>1. Past(c, i, s)' <=> Past(c, i, s) \/ (c = at.case /\ i = at.index)
      BY <2>1, OnwardMoves
    <3>2. c = at.case /\ i = at.index => s = at.sample \/ at.sample > s
      BY <1>1, <1>2, <1>4, <2>3
    <3> QED  BY <3>1, <3>2 DEF Past, Now
  <2>4. \A c \in Cases : \A i \in DOMAIN Perturbations[c] : \A s \in Nat :
          Past(c, i, s) => Past(c, i, s)'
    BY <2>1, OnwardMoves
  <2> QED  BY <2>2, <2>3, <2>4
<1> QED  BY <1>3, <1>4

LEMMA SampleGoesOn ==
  ASSUME TypeOK, pc = "working", Here.type = "paraphrase", MoreAttempts, Retry
  PROVE  /\ Position' /\ pc' = "working" /\ Here' = Here
         /\ at'.case = at.case /\ at'.index = at.index /\ at'.sample = at.sample
         /\ at'.attempt = at.attempt + 1
         /\ \A c, i, s : Past(c, i, s)' <=> Past(c, i, s)
<1>1. /\ at \in [case : Nat, index : Nat, sample : Nat, attempt : Nat]
      /\ at.case \in Cases /\ at.index \in Paraphrases(at.case)
      /\ Here = Perturbations[at.case][at.index]
      /\ at.sample \in 0..(Here.count - 1)
  BY DEF TypeOK, Paraphrases, Here
<1>2. at' = At(at.case, at.index, at.sample, at.attempt + 1) /\ pc' = pc
  BY DEF Retry
<1>3. /\ at'.case = at.case /\ at'.index = at.index
      /\ at'.sample = at.sample /\ at'.attempt = at.attempt + 1
      /\ at' \in [case : Nat, index : Nat, sample : Nat, attempt : Nat]
  BY <1>1, <1>2 DEF At
<1>4. Here' = Here
  BY <1>3 DEF Here
<1>5. Here.max_attempts \in Nat \ {0} /\ at.attempt + 1 < Here.max_attempts
  BY <1>1, ParaphraseType DEF MoreAttempts
<1>6. Position'
  BY <1>1, <1>2, <1>3, <1>4, <1>5 DEF Position, Paraphrases
<1>7. \A c, i, s : Past(c, i, s)' <=> Past(c, i, s)
  BY <1>3 DEF Past
<1> QED  BY <1>2, <1>3, <1>4, <1>6, <1>7

-----------------------------------------------------------------------------
(* What is realized *)

Concatenation(q, r, t) ==
  /\ IsSeq(t)
  /\ DOMAIN q = 1..Len(q) /\ Len(q) \in Nat /\ DOMAIN r \subseteq Nat \ {0}
  /\ DOMAIN t = DOMAIN q \cup { Len(q) + k : k \in DOMAIN r }
  /\ \A i \in DOMAIN q : t[i] = q[i]
  /\ \A k \in DOMAIN r : t[Len(q) + k] = r[k]

LEMMA ConcatType ==
  ASSUME NEW q, NEW r, IsSeq(q), IsSeq(r)
  PROVE  Concatenation(q, r, q \o r)
<1> DEFINE S == { q[i] : i \in DOMAIN q } \cup { r[i] : i \in DOMAIN r }
           t == q \o r
<1>1. q \in Seq(S) /\ r \in Seq(S)
  <2> DEFINE Q == { q[i] : i \in DOMAIN q }
             R == { r[i] : i \in DOMAIN r }
  <2>1. q \in Seq(Q) /\ r \in Seq(R) /\ Q \subseteq S /\ R \subseteq S
    BY DEF IsSeq
  <2> HIDE DEF Q, R, S
  <2> QED  BY <2>1
<1> HIDE DEF S
<1>2. /\ DOMAIN q = 1..Len(q) /\ Len(q) \in Nat
      /\ DOMAIN r = 1..Len(r) /\ Len(r) \in Nat
      /\ t \in Seq(S) /\ Len(t) = Len(q) + Len(r) /\ DOMAIN t = 1..Len(t)
      /\ \A i \in DOMAIN q : t[i] = q[i]
      /\ \A k \in DOMAIN r : t[Len(q) + k] = r[k]
  BY <1>1
<1> HIDE DEF t
<1>3. DOMAIN t = DOMAIN q \cup { Len(q) + k : k \in DOMAIN r }
  <2>1. ASSUME NEW x \in DOMAIN t, x \notin DOMAIN q
        PROVE  x \in { Len(q) + k : k \in DOMAIN r }
    <3>1. x - Len(q) \in DOMAIN r /\ x = Len(q) + (x - Len(q))
      BY <1>2, <2>1
    <3> QED  BY <3>1
  <2> QED  BY <1>2, <2>1
<1>4. IsSeq(t)
  BY <1>2 DEF IsSeq
<1> QED  BY <1>2, <1>3, <1>4 DEF t, Concatenation

(* One identity of a case is one place in the loops. *)
LEMMA SeedsTellApart ==
  \A c, d \in Cases : \A i \in DOMAIN Perturbations[c], j \in DOMAIN Perturbations[d] :
    derive_perturbation_seed(c, i) = derive_perturbation_seed(d, j) => c = d /\ i = j
BY MaterializerAssumption

(* What the sample the loops are at adds to its case gets identities of    *)
(* its own, and changes nothing about the samples behind.                  *)
LEMMA Grows ==
  ASSUME TypeOK, \A c \in Cases : Identified(c), pc = "working",
         NEW case, NEW index, case = at.case, index = at.index,
         NEW added, IsSeq(added),
         DOMAIN realized' = Cases,
         \A c \in Cases :
           realized'[c] = IF c = case THEN realized[c] \o added ELSE realized[c],
         \A k \in DOMAIN added :
           /\ added[k].seed = Seed /\ added[k].params.sample_index \in Nat
           /\ ~ Past(case, index, added[k].params.sample_index)
           /\ Past(case, index, added[k].params.sample_index)',
         \A j, k \in DOMAIN added :
           added[j].params.sample_index = added[k].params.sample_index => j = k,
         \A c \in Cases : \A i \in DOMAIN Perturbations[c] : \A s \in Nat :
           Past(c, i, s) => Past(c, i, s)'
  PROVE  \A c \in Cases :
           /\ IsSeq(realized'[c])
           /\ \A i \in DOMAIN realized'[c] : realized'[c][i].params.sample_index \in Nat
           /\ Identified(c)'
           /\ \A x \in DOMAIN realized[c] : realized'[c][x] = realized[c][x]
           /\ \A i \in DOMAIN Perturbations[c] : \A s \in Nat :
                Past(c, i, s) => Kept(c, i, s)' = Kept(c, i, s)
<1> SUFFICES ASSUME NEW c \in Cases
             PROVE  /\ IsSeq(realized'[c])
                    /\ \A i \in DOMAIN realized'[c] :
                         realized'[c][i].params.sample_index \in Nat
                    /\ Identified(c)'
                    /\ \A x \in DOMAIN realized[c] : realized'[c][x] = realized[c][x]
                    /\ \A i \in DOMAIN Perturbations[c] : \A s \in Nat :
                         Past(c, i, s) => Kept(c, i, s)' = Kept(c, i, s)
  OBVIOUS
<1>0. PICK old : old = realized[c]
  OBVIOUS
<1> DEFINE Same(x, y) == /\ x.seed = y.seed
                         /\ x.params.sample_index = y.params.sample_index
<1>1. /\ IsSeq(old) /\ Identified(c)
      /\ \A i \in DOMAIN old : old[i].params.sample_index \in Nat
  BY <1>0 DEF TypeOK
<1>2. \A x : x.params.sample_index \in Nat /\ Placed(c, x) => Placed(c, x)'
  BY DEF Placed
<1>3. /\ \A i \in DOMAIN old : Placed(c, old[i]) /\ Placed(c, old[i])'
      /\ \A i, j \in DOMAIN old : Same(old[i], old[j]) => i = j
  BY <1>0, <1>1, <1>2 DEF Identified
<1>4. CASE c # case
  <2>1. realized'[c] = old
    BY <1>0, <1>4
  <2>2. Identified(c)'
    BY <1>0, <1>3, <2>1 DEF Identified
  <2>3. \A i, s : Kept(c, i, s)' = Kept(c, i, s)
    BY <1>0, <2>1 DEF Kept
  <2> QED  BY <1>0, <1>1, <2>1, <2>2, <2>3
<1>5. CASE c = case
  <2> DEFINE new == old \o added
  <2>1. realized'[c] = new
    BY <1>0, <1>5
  <2>2. /\ IsSeq(new) /\ DOMAIN old = 1..Len(old) /\ Len(old) \in Nat
        /\ DOMAIN added \subseteq Nat \ {0}
        /\ DOMAIN new = DOMAIN old \cup { Len(old) + k : k \in DOMAIN added }
        /\ \A i \in DOMAIN old : new[i] = old[i]
        /\ \A k \in DOMAIN added : new[Len(old) + k] = added[k]
    <3>1. Concatenation(old, added, new)
      BY <1>1, ConcatType
    <3> QED  BY <3>1, Zenon DEF Concatenation
  <2>3. index \in DOMAIN Perturbations[c] /\ Seed = derive_perturbation_seed(c, index)
    BY <1>5 DEF TypeOK, Seed
  <2> HIDE DEF new
  <2>4. \A i \in DOMAIN new : new[i].params.sample_index \in Nat
    BY <1>1, <2>2
  <2>5. ASSUME NEW i \in DOMAIN old, NEW k \in DOMAIN added
        PROVE  ~ Same(old[i], added[k])
    <3> SUFFICES ASSUME Same(old[i], added[k]) PROVE FALSE
      OBVIOUS
    <3>1. PICK j \in DOMAIN Perturbations[c] :
            /\ old[i].seed = derive_perturbation_seed(c, j)
            /\ Past(c, j, old[i].params.sample_index)
      BY <1>3 DEF Placed
    <3>2. derive_perturbation_seed(c, j) = derive_perturbation_seed(c, index)
      BY <2>3, <3>1
    <3>3. j = index
      BY <2>3, <3>2, SeedsTellApart
    <3> QED  BY <1>5, <3>1, <3>3
  <2>6. \A j, k \in DOMAIN added : Same(added[j], added[k]) => j = k
    OBVIOUS
  <2>7. \A i \in DOMAIN new : Placed(c, new[i])'
    <3>1. ASSUME NEW k \in DOMAIN added PROVE Placed(c, added[k])'
      <4>1. /\ added[k].seed = derive_perturbation_seed(c, index)
            /\ Past(c, index, added[k].params.sample_index)'
        BY <1>5, <2>3
      <4> QED  BY <2>3, <4>1 DEF Placed
    <3> QED  BY <1>3, <2>2, <3>1
  <2>8. ASSUME NEW i \in DOMAIN new, NEW j \in DOMAIN new, Same(new[i], new[j])
        PROVE  i = j
    <3> HIDE DEF Same
    <3>1. ASSUME NEW x, NEW y, Same(x, y) PROVE Same(y, x)
      BY <3>1 DEF Same
    <3>2. CASE i \in DOMAIN old /\ j \in DOMAIN old
      BY <1>3, <2>2, <2>8, <3>2
    <3>3. CASE i \notin DOMAIN old /\ j \notin DOMAIN old
      BY <2>2, <2>6, <2>8, <3>3
    <3>4. CASE i \in DOMAIN old /\ j \notin DOMAIN old
      BY <2>2, <2>5, <2>8, <3>4
    <3>5. CASE i \notin DOMAIN old /\ j \in DOMAIN old
      BY <2>2, <2>5, <2>8, <3>1, <3>5
    <3> QED  BY <3>2, <3>3, <3>4, <3>5
  <2>9. Identified(c)'
    BY <2>1, <2>7, <2>8 DEF Identified
  <2>10. ASSUME NEW i \in DOMAIN Perturbations[c], NEW s \in Nat, Past(c, i, s)
         PROVE  Kept(c, i, s)' = Kept(c, i, s)
    <3>1. ASSUME NEW k \in DOMAIN added, added[k].seed = derive_perturbation_seed(c, i),
                 added[k].params.sample_index = s
          PROVE  FALSE
      <4>1. i = index
        BY <2>3, <3>1, SeedsTellApart
      <4> QED  BY <1>5, <2>10, <3>1, <4>1
    <3> DEFINE Is(x) == /\ x.seed = derive_perturbation_seed(c, i)
                        /\ x.params.sample_index = s
    <3>2. \A k \in DOMAIN added : ~ Is(added[k])
      BY <3>1
    <3>3. /\ Kept(c, i, s) = { x \in DOMAIN old : Is(old[x]) }
          /\ Kept(c, i, s)' = { x \in DOMAIN new : Is(new[x]) }
      BY <1>0, <2>1 DEF Kept
    <3> HIDE DEF Is
    <3> QED  BY <2>2, <3>2, <3>3
  <2> QED  BY <1>0, <2>1, <2>2, <2>4, <2>9, <2>10
<1> QED  BY <1>4, <1>5

-----------------------------------------------------------------------------
(* What a settled sample depends on. *)
LEMMA StaysSettled ==
  ASSUME NEW c, NEW i, NEW s, Settled(c, i, s),
         Tries(c, i, s)' = Tries(c, i, s),
         Kept(c, i, s)' = Kept(c, i, s),
         \A k \in Tries(c, i, s) : calls'[k] = calls[k],
         \A x \in Kept(c, i, s) : realized'[c][x] = realized[c][x]
  PROVE  Settled(c, i, s)'
<1>1. Valid(c, i, s)' = Valid(c, i, s)
  BY DEF Valid
<1>2. Valid(c, i, s) \subseteq Tries(c, i, s)
  BY DEF Valid
<1> QED  BY <1>1, <1>2 DEF Settled

(* The sample that the loops are at is not behind. *)
LEMMA NotBehind ==
  ASSUME Position
  PROVE  /\ \A c, i, s : Now(c, i, s) => ~ Past(c, i, s)
         /\ ~ Behind(at)
BY DEF Position, Now, Past, Behind

(* At the first attempt at a sample, nothing was tried for it yet.         *)
LEMMA FirstAttempt ==
  ASSUME Position', CallsMade', at'.attempt = 0
  PROVE  Current'
<1>1. ASSUME NEW k \in Tries(at.case, at.index, at.sample)' PROVE FALSE
  <2> DEFINE a == calls'[k].at
  <2>1. k \in DOMAIN calls' /\ a.case = at'.case /\ a.index = at'.index /\ a.sample = at'.sample
    BY <1>1 DEF Tries, CallsOf
  <2>2. Made(calls[k])'
    BY <2>1 DEF CallsMade
  <2>3. /\ a.attempt \in Nat /\ Behind(calls[k].at)'
    BY <2>2 DEF Made
  <2> HIDE DEF a
  <2>4. a.case \in Nat /\ a.index \in Nat /\ a.sample \in Nat
    BY <2>1 DEF Position
  <2> QED  BY <2>1, <2>3, <2>4 DEF Behind, Past, a
<1>2. Tries(at.case, at.index, at.sample)' = {}
  BY <1>1
<1>3. Valid(at.case, at.index, at.sample)' = {}
  BY <1>2 DEF Valid
<1> QED  BY <1>2, <1>3, FS_EmptySet DEF Current

LEMMA InitMaterializer == Init => MaterializerInv
<1> SUFFICES ASSUME Init PROVE MaterializerInv
  OBVIOUS
<1>1. /\ pc = "working" /\ at.case = 1 /\ at.index = 1 /\ at.sample = 0 /\ at.attempt = 0
      /\ at \in [case : Nat, index : Nat, sample : Nat, attempt : Nat]
      /\ realized = [c \in Cases |-> <<>>] /\ calls = <<>>
  BY DEF Init, At
<1>2. IsSeq(<<>>) /\ DOMAIN <<>> = {}
  BY DEF IsSeq
<1>3. Here.type = "paraphrase" =>
        Here.count \in Nat \ {0} /\ Here.max_attempts \in Nat \ {0}
  <2>1. Here.type = "paraphrase" => at.index \in Paraphrases(at.case)
    BY <1>1, SpecType DEF Here, Paraphrases
  <2> QED  BY <1>1, <2>1, SpecType, ParaphraseType DEF Here
<1>4. TypeOK
  BY <1>1, <1>2, <1>3, SpecType DEF TypeOK
<1>5. \A c \in Cases : Identified(c)
  BY <1>1, <1>2 DEF Identified
<1>6. CallsMade
  BY <1>1, <1>2 DEF CallsMade
<1>7. Current
  <2>1. /\ Tries(at.case, at.index, at.sample) = {}
        /\ Valid(at.case, at.index, at.sample) = {}
    BY <1>1, <1>2 DEF Tries, Valid, CallsOf
  <2> QED  BY <1>1, <2>1, FS_EmptySet DEF Current
<1>8. AllSettled
  <2>1. \A c \in Cases : \A i \in DOMAIN Perturbations[c] : \A s \in Nat : ~ Past(c, i, s)
    BY <1>1, SpecType DEF Past
  <2> QED  BY <2>1 DEF AllSettled, Paraphrases
<1> QED  BY <1>4, <1>5, <1>6, <1>7, <1>8 DEF MaterializerInv

(* A failure, or a stuttering step. *)
LEMMA StandsStill ==
  ASSUME MaterializerInv, UNCHANGED <<at, realized, calls>>, UNCHANGED pc \/ pc' = "failed"
  PROVE  MaterializerInv'
<1>1. TypeOK'
  BY DEF MaterializerInv, TypeOK, Here
<1>2. \A c \in Cases : Identified(c)'
  BY DEF MaterializerInv, Identified, Placed, Past
<1>3. CallsMade'
  BY DEF MaterializerInv, CallsMade, Made, Behind, Past
<1>4. Current'
  BY DEF MaterializerInv, Current, Here, Valid, Tries, CallsOf
<1>5. AllSettled'
  <2>1. \A c, i, s : /\ Past(c, i, s)' <=> Past(c, i, s)
                     /\ Tries(c, i, s)' = Tries(c, i, s)
                     /\ Kept(c, i, s)' = Kept(c, i, s)
    BY DEF Past, Tries, CallsOf, Kept
  <2>2. ASSUME NEW c \in Cases, NEW i \in Paraphrases(c), NEW s \in Nat,
               Past(c, i, s)', s < Perturbations[c][i].count
        PROVE  Settled(c, i, s)'
    <3>1. Settled(c, i, s)
      BY <2>1, <2>2 DEF MaterializerInv, AllSettled
    <3> QED  BY <2>1, <3>1, StaysSettled
  <2> QED  BY <2>2 DEF AllSettled
<1> QED  BY <1>1, <1>2, <1>3, <1>4, <1>5 DEF MaterializerInv

-----------------------------------------------------------------------------
(* A local perturbation *)

LEMMA SamplesType ==
  ASSUME NEW p, WellFormed(p), p.type # "paraphrase", NEW text
  PROVE  \E n \in Nat : DOMAIN Samples(p, text) = 1..n
<1>1. CASE p.type = "typo_noise"
  <2>1. Samples(p, text)
          = [k \in 1..p.count |-> Sample("character_mutations", mutate_once(text, p.rate))]
    BY <1>1 DEF Samples
  <2> QED  BY <1>1, <2>1 DEF WellFormed
<1>2. CASE p.type = "casing"
  <2>1. DOMAIN Samples(p, text) = DOMAIN p.variants
    BY <1>2 DEF Samples
  <2>2. IsSeq(p.variants)
    BY <1>2 DEF WellFormed
  <2> DEFINE q == p.variants
             S == { q[i] : i \in DOMAIN q }
  <2>3. q \in Seq(S)
    BY <2>2 DEF IsSeq
  <2> HIDE DEF q, S
  <2>4. DOMAIN q = 1..Len(q) /\ Len(q) \in Nat
    BY <2>3
  <2> QED  BY <2>1, <2>4 DEF q
<1>3. CASE p.type = "unicode"
  <2> DEFINE q == p.methods
             S == { q[i] : i \in DOMAIN q }
  <2>1. IsSeq(q) /\ p.count \in Nat
    BY <1>3 DEF WellFormed
  <2>2. q \in Seq(S)
    BY <2>1 DEF IsSeq
  <2>3. DOMAIN Samples(p, text) = 1..(Len(q) * p.count)
    BY <1>3 DEF Samples
  <2> HIDE DEF q, S
  <2>4. Len(q) * p.count \in Nat
    BY <2>1, <2>2
  <2> QED  BY <2>3, <2>4
<1> QED  BY <1>1, <1>2, <1>3 DEF WellFormed

(* Its samples are numbered from 0, each once, and come out as they may.   *)
DrawnFrom(x, sample) ==
  /\ x.family = Here.type
  /\ \E o \in sample.outcomes : x.text = o.text /\ x.params.mutation_count = o.mutations

LEMMA LocalInputs ==
  ASSUME MaterializerInv, ApplyLocal
  PROVE  \E added :
           /\ IsSeq(added)
           /\ realized' = [realized EXCEPT ![at.case] = @ \o added]
           /\ \A k \in DOMAIN added :
                added[k].seed = Seed /\ added[k].params.sample_index \in Nat
           /\ \A j, k \in DOMAIN added :
                added[j].params.sample_index = added[k].params.sample_index => j = k
           /\ DOMAIN added = DOMAIN Samples(Here, Text)
           /\ \A k \in DOMAIN added : DrawnFrom(added[k], Samples(Here, Text)[k])
<1> DEFINE samples == Samples(Here, Text)
           Input(drawn, k) ==
             PerturbedInput(drawn[k].text, samples[k].method,
                            [ sample_index |-> sample_index(Here, k),
                              mutation_count |-> drawn[k].mutations ])
           Inputs(drawn) == [ k \in DOMAIN samples |-> Input(drawn, k) ]
<1>1. PICK drawn :
        /\ \A k \in DOMAIN samples : drawn[k] \in samples[k].outcomes
        /\ realized' = [realized EXCEPT ![at.case] = @ \o Inputs(drawn)]
  BY DEF ApplyLocal
<1>2. WellFormed(Here) /\ Here.type # "paraphrase"
  BY SpecType DEF ApplyLocal, MaterializerInv, TypeOK, Here
<1>3. PICK n \in Nat : DOMAIN samples = 1..n
  BY <1>2, SamplesType
<1>4. \A k \in DOMAIN samples :
        /\ Input(drawn, k).seed = Seed /\ Input(drawn, k).params.sample_index = k - 1
        /\ Input(drawn, k).family = Here.type /\ Input(drawn, k).text = drawn[k].text
        /\ Input(drawn, k).params.mutation_count = drawn[k].mutations
  BY DEF PerturbedInput, sample_index
<1> HIDE DEF samples, Input
<1>5. PICK added : added = Inputs(drawn)
  OBVIOUS
<1>6. IsSeq(added)
  <2>1. added \in Seq({ added[k] : k \in DOMAIN added })
    BY <1>3, <1>5
  <2> QED  BY <2>1 DEF IsSeq
<1>7. \A k \in DOMAIN added :
        /\ k \in 1..n
        /\ added[k].seed = Seed /\ added[k].params.sample_index = k - 1
  BY <1>3, <1>4, <1>5
<1>8. \A k \in DOMAIN added : added[k].params.sample_index \in Nat
  BY <1>3, <1>7
<1>9. \A j, k \in DOMAIN added :
        added[j].params.sample_index = added[k].params.sample_index => j = k
  BY <1>3, <1>7
<1>10. \A k \in DOMAIN samples : DrawnFrom(added[k], samples[k])
  BY <1>1, <1>4, <1>5 DEF DrawnFrom
<1>11. DOMAIN added = DOMAIN samples
  BY <1>5
<1> QED  BY <1>1, <1>5, <1>6, <1>7, <1>8, <1>9, <1>10, <1>11 DEF samples

LEMMA ApplyLocalKeeps == ASSUME MaterializerInv, ApplyLocal PROVE MaterializerInv'
<1>1. /\ TypeOK /\ CallsMade /\ AllSettled /\ \A c \in Cases : Identified(c)
      /\ pc = "working" /\ Here.type # "paraphrase" /\ Onward /\ UNCHANGED calls
      /\ at.sample = 0 /\ at.attempt = 0
      /\ at.case \in Cases /\ at.index \in DOMAIN Perturbations[at.case]
  BY DEF MaterializerInv, ApplyLocal, TypeOK
<1>2. PICK case, index : case = at.case /\ index = at.index
  OBVIOUS
<1>3. /\ Position' /\ at'.attempt = 0
      /\ \A c \in Cases : \A i \in DOMAIN Perturbations[c] : \A s \in Nat :
           Past(c, i, s)' <=> Past(c, i, s) \/ (c = case /\ i = index)
  <2>1. Position'
    BY <1>1, OnwardPosition
  <2>2. /\ at'.attempt = 0
        /\ \A c \in Cases : \A i \in DOMAIN Perturbations[c] : \A s \in Nat :
             Past(c, i, s)' <=> Past(c, i, s) \/ (c = at.case /\ i = at.index)
    BY <1>1, OnwardMoves
  <2> QED  BY <1>2, <2>1, <2>2
<1>4. PICK added :
        /\ IsSeq(added)
        /\ realized' = [realized EXCEPT ![at.case] = @ \o added]
        /\ \A k \in DOMAIN added :
             added[k].seed = Seed /\ added[k].params.sample_index \in Nat
        /\ \A j, k \in DOMAIN added :
             added[j].params.sample_index = added[k].params.sample_index => j = k
  BY LocalInputs
<1>5. /\ DOMAIN realized' = Cases
      /\ \A c \in Cases :
           realized'[c] = IF c = case THEN realized[c] \o added ELSE realized[c]
  BY <1>1, <1>2, <1>4 DEF TypeOK
<1>6. \A k \in DOMAIN added :
        /\ added[k].seed = Seed /\ added[k].params.sample_index \in Nat
        /\ ~ Past(case, index, added[k].params.sample_index)
        /\ Past(case, index, added[k].params.sample_index)'
  <2>1. \A s \in Nat : ~ Past(case, index, s)
    BY <1>1, <1>2, SpecType DEF Past, TypeOK
  <2> QED  BY <1>1, <1>2, <1>3, <1>4, <2>1
<1>7. \A c \in Cases :
        /\ IsSeq(realized'[c])
        /\ \A i \in DOMAIN realized'[c] : realized'[c][i].params.sample_index \in Nat
        /\ Identified(c)'
        /\ \A x \in DOMAIN realized[c] : realized'[c][x] = realized[c][x]
        /\ \A i \in DOMAIN Perturbations[c] : \A s \in Nat :
             Past(c, i, s) => Kept(c, i, s)' = Kept(c, i, s)
  <2>1. \A c \in Cases : \A i \in DOMAIN Perturbations[c] : \A s \in Nat :
          Past(c, i, s) => Past(c, i, s)'
    BY <1>3
  <2>2. TypeOK /\ pc = "working" /\ case = at.case /\ index = at.index /\ IsSeq(added)
    BY <1>1, <1>2, <1>4
  <2>3. \A c \in Cases : Identified(c)
    BY <1>1
  <2>4. DOMAIN realized' = Cases
    BY <1>5
  <2>5. \A c \in Cases :
          realized'[c] = IF c = case THEN realized[c] \o added ELSE realized[c]
    BY <1>5
  <2>6. \A j, k \in DOMAIN added :
          added[j].params.sample_index = added[k].params.sample_index => j = k
    BY <1>4
  <2> QED  BY <1>6, <2>1, <2>2, <2>3, <2>4, <2>5, <2>6, Grows
<1>8. TypeOK'
  BY <1>1, <1>3, <1>5, <1>7 DEF TypeOK, Position
<1>9. CallsMade'
  <2>1. ASSUME NEW k \in DOMAIN calls PROVE Made(calls[k])'
    <3>1. PICK a : a = calls[k].at
      OBVIOUS
    <3>2. Made(calls[k])
      BY <1>1 DEF CallsMade
    <3>3. /\ a.case \in Cases /\ a.index \in DOMAIN Perturbations[a.case] /\ a.sample \in Nat
          /\ a.attempt \in Nat /\ Behind(a)
      BY <3>1, <3>2 DEF Made, Paraphrases
    <3>4. Past(a.case, a.index, a.sample)
      BY <1>1, <3>3 DEF Behind
    <3>5. Behind(a)'
      BY <1>3, <3>3, <3>4 DEF Behind
    <3> QED  BY <1>1, <3>1, <3>2, <3>5 DEF Made
  <2> QED  BY <1>1, <2>1 DEF CallsMade
<1>10. Current'
  BY <1>3, <1>9, FirstAttempt
<1>11. AllSettled'
  <2>1. ASSUME NEW c \in Cases, NEW i \in Paraphrases(c), NEW s \in Nat,
               Past(c, i, s)', s < Perturbations[c][i].count
        PROVE  Settled(c, i, s)'
    <3>1. i \in DOMAIN Perturbations[c] /\ ~ (c = case /\ i = index)
      BY <1>1, <1>2 DEF Paraphrases, Here
    <3>2. Past(c, i, s)
      BY <1>3, <2>1, <3>1
    <3>3. Settled(c, i, s)
      BY <1>1, <2>1, <3>2 DEF AllSettled
    <3>4. Tries(c, i, s)' = Tries(c, i, s)
      BY <1>1 DEF Tries, CallsOf
    <3>5. Kept(c, i, s)' = Kept(c, i, s)
      BY <1>7, <3>1, <3>2
    <3>6. \A x \in Kept(c, i, s) : realized'[c][x] = realized[c][x]
      BY <1>7 DEF Kept
    <3> QED  BY <1>1, <3>3, <3>4, <3>5, <3>6, StaysSettled
  <2> QED  BY <2>1 DEF AllSettled
<1> QED  BY <1>7, <1>8, <1>9, <1>10, <1>11 DEF MaterializerInv

-----------------------------------------------------------------------------
(* A rewrite *)

(* A call that is made is the latest try for the sample the loops are at.  *)
LEMMA CallAdded ==
  ASSUME IsSeq(calls), NEW new, NEW valid \in BOOLEAN,
         calls' = Append(calls, new), new.at = at, valid <=> validate(Text, new.text)
  PROVE  LET n == Len(calls) + 1
         IN /\ IsSeq(calls') /\ n \notin DOMAIN calls /\ DOMAIN calls \subseteq 1..Len(calls)
            /\ Len(calls) \in Nat
            /\ DOMAIN calls' = DOMAIN calls \cup {n}
            /\ calls'[n] = new /\ \A k \in DOMAIN calls : calls'[k] = calls[k]
            /\ \A c, i, s :
                 /\ Tries(c, i, s)' = Tries(c, i, s) \cup {k \in {n} : Now(c, i, s)}
                 /\ Valid(c, i, s)' = Valid(c, i, s) \cup {k \in {n} : Now(c, i, s) /\ valid}
<1> DEFINE n == Len(calls) + 1
<1>1. /\ IsSeq(calls') /\ n \notin DOMAIN calls /\ DOMAIN calls = 1..Len(calls)
      /\ Len(calls) \in Nat
      /\ DOMAIN calls' = DOMAIN calls \cup {n}
      /\ calls'[n] = new /\ \A k \in DOMAIN calls : calls'[k] = calls[k]
  BY AppendType
<1> HIDE DEF n
<1>2. ASSUME NEW c, NEW i, NEW s
      PROVE  /\ Tries(c, i, s)' = Tries(c, i, s) \cup {k \in {n} : Now(c, i, s)}
             /\ Valid(c, i, s)' = Valid(c, i, s) \cup {k \in {n} : Now(c, i, s) /\ valid}
  <2>1. Tries(c, i, s)' = Tries(c, i, s) \cup {k \in {n} : Now(c, i, s)}
    BY <1>1 DEF Tries, CallsOf, Now
  <2>2. Now(c, i, s) => Text = CaseInput[c]
    BY DEF Now, Text
  <2>3. Tries(c, i, s) \subseteq DOMAIN calls
    BY DEF Tries, CallsOf
  <2>4. Valid(c, i, s)' = { k \in Tries(c, i, s)' : validate(CaseInput[c], calls'[k].text) }
    BY DEF Valid
  <2> QED  BY <1>1, <2>1, <2>2, <2>3, <2>4 DEF Valid
<1> QED  BY <1>1, <1>2 DEF n

(* What is realized for the sample the loops are at: nothing yet.          *)
LEMMA NothingKept ==
  ASSUME TypeOK, Position, \A c \in Cases : Identified(c), pc = "working"
  PROVE  Kept(at.case, at.index, at.sample) = {}
<1> SUFFICES ASSUME NEW x \in Kept(at.case, at.index, at.sample) PROVE FALSE
  OBVIOUS
<1>1. PICK case, index, sample : case = at.case /\ index = at.index /\ sample = at.sample
  OBVIOUS
<1>2. case \in Cases /\ index \in DOMAIN Perturbations[case]
  BY <1>1 DEF TypeOK
<1>3. /\ x \in DOMAIN realized[case]
      /\ realized[case][x].seed = derive_perturbation_seed(case, index)
      /\ realized[case][x].params.sample_index = sample
  BY <1>1 DEF Kept
<1>4. PICK j \in DOMAIN Perturbations[case] :
        /\ realized[case][x].seed = derive_perturbation_seed(case, j)
        /\ Past(case, j, sample)
  BY <1>2, <1>3 DEF Identified, Placed
<1>5. j = index
  <2>1. derive_perturbation_seed(case, j) = derive_perturbation_seed(case, index)
    BY <1>3, <1>4
  <2> QED  BY <1>2, <2>1, SeedsTellApart
<1> QED  BY <1>1, <1>4, <1>5, NotBehind DEF Now

(* The call that a rewrite makes, and what it realizes. *)
RewriteMakes(new, valid, added) ==
  /\ calls' = Append(calls, new)
  /\ new.at = at /\ (valid <=> validate(Text, new.text))
  /\ new.text \in Rewritings[at.case]
  /\ new.seed = per_call_seed(Seed, at.sample, at.attempt, Here.max_attempts)
  /\ IsSeq(added) /\ DOMAIN realized' = Cases
  /\ \A c \in Cases :
       realized'[c] = IF c = at.case THEN realized[c] \o added ELSE realized[c]
  /\ DOMAIN added = { k \in {1} : valid }
  /\ \A k \in DOMAIN added :
       /\ added[k].text = new.text /\ added[k].family = Here.type
       /\ added[k].seed = Seed
       /\ added[k].params.sample_index = at.sample
       /\ added[k].params.attempts_used = at.attempt + 1
  /\ IF MoreAttempts /\ ~ valid THEN Retry ELSE NextSample

LEMMA RewriteParts ==
  ASSUME MaterializerInv, Rewrite
  PROVE  \E new, added : \E valid \in BOOLEAN : RewriteMakes(new, valid, added)
<1>1. PICK text \in Rewritings[at.case] :
        LET valid == validate(Text, text)
            kept == PerturbedInput(text, "llm_rewrite",
                                   [ sample_index |-> at.sample,
                                     attempts_used |-> at.attempt + 1 ])
        IN /\ calls' = Append(calls,
                [ at |-> at, text |-> text,
                  seed |-> per_call_seed(Seed, at.sample, at.attempt, Here.max_attempts) ])
           /\ realized' = IF valid
                          THEN [realized EXCEPT ![at.case] = Append(@, kept)]
                          ELSE realized
           /\ AfterAttempt(valid)
  BY DEF Rewrite
<1> DEFINE isValid == validate(Text, text)
           kept == PerturbedInput(text, "llm_rewrite",
                                  [ sample_index |-> at.sample,
                                    attempts_used |-> at.attempt + 1 ])
           call == [ at |-> at, text |-> text,
                     seed |-> per_call_seed(Seed, at.sample, at.attempt, Here.max_attempts) ]
<1>2. /\ calls' = Append(calls, call)
      /\ realized' = IF isValid
                     THEN [realized EXCEPT ![at.case] = Append(@, kept)]
                     ELSE realized
      /\ IF MoreAttempts /\ ~ isValid THEN Retry ELSE NextSample
  BY <1>1 DEF AfterAttempt
<1>3. /\ call.at = at /\ call.text = text
      /\ call.seed = per_call_seed(Seed, at.sample, at.attempt, Here.max_attempts)
  OBVIOUS
<1>4. /\ kept.text = text /\ kept.family = Here.type /\ kept.seed = Seed
      /\ kept.params.sample_index = at.sample
      /\ kept.params.attempts_used = at.attempt + 1
  BY DEF PerturbedInput
<1>5. /\ DOMAIN realized = Cases /\ at.case \in Cases
      /\ \A c \in Cases : IsSeq(realized[c])
  BY DEF MaterializerInv, TypeOK, Rewrite
<1>6. isValid \in BOOLEAN
  BY DEF validate
<1> HIDE DEF isValid, kept, call
<1>7. ASSUME NEW q, IsSeq(q), NEW x
      PROVE  q \o <<>> = q /\ q \o <<x>> = Append(q, x)
  <2> DEFINE S == { q[i] : i \in DOMAIN q }
  <2>1. q \in Seq(S)
    BY <1>7 DEF IsSeq
  <2>2. S \subseteq S \cup {x} /\ x \in S \cup {x}
    OBVIOUS
  <2> HIDE DEF S
  <2>3. q \in Seq(S \cup {x}) /\ <<x>> \in Seq(S \cup {x}) /\ <<>> \in Seq(S \cup {x})
    BY <2>1, <2>2
  <2> QED  BY <2>3
<1>8. IsSeq(<<>>) /\ DOMAIN <<>> = {}
  BY DEF IsSeq
<1>9. IsSeq(<<kept>>) /\ DOMAIN <<kept>> = {1} /\ <<kept>>[1] = kept
  BY DEF IsSeq
<1>10. CASE isValid
  <2>1. /\ DOMAIN realized' = Cases
        /\ \A c \in Cases :
             realized'[c] = IF c = at.case THEN realized[c] \o <<kept>> ELSE realized[c]
    BY <1>2, <1>5, <1>7, <1>10
  <2>2. RewriteMakes(call, TRUE, <<kept>>)
    BY <1>1, <1>2, <1>3, <1>4, <1>9, <1>10, <2>1 DEF RewriteMakes, isValid
  <2> QED  BY <2>2
<1>11. CASE ~ isValid
  <2>1. /\ DOMAIN realized' = Cases
        /\ \A c \in Cases :
             realized'[c] = IF c = at.case THEN realized[c] \o <<>> ELSE realized[c]
    BY <1>2, <1>5, <1>7, <1>11
  <2>2. RewriteMakes(call, FALSE, <<>>)
    BY <1>1, <1>2, <1>3, <1>8, <1>11, <2>1 DEF RewriteMakes, isValid
  <2> QED  BY <2>2
<1> QED  BY <1>10, <1>11

LEMMA RewriteKeeps == ASSUME MaterializerInv, Rewrite PROVE MaterializerInv'
<1>1. /\ TypeOK /\ Position /\ CallsMade /\ Current /\ AllSettled
      /\ \A c \in Cases : Identified(c)
      /\ pc = "working" /\ Here.type = "paraphrase" /\ IsSeq(calls)
  BY DEF MaterializerInv, Rewrite, TypeOK, Position
<1>0. PICK new, added : \E valid \in BOOLEAN : RewriteMakes(new, valid, added)
  BY RewriteParts
<1>2. PICK valid \in BOOLEAN : RewriteMakes(new, valid, added)
  BY <1>0
<1>3. PICK case, index, sample, attempt :
        case = at.case /\ index = at.index /\ sample = at.sample /\ attempt = at.attempt
  OBVIOUS
<1>4. /\ case \in Cases /\ index \in Paraphrases(case)
      /\ index \in DOMAIN Perturbations[case]
      /\ sample \in Nat /\ attempt \in Nat
      /\ sample < Perturbations[case][index].count
      /\ attempt < Perturbations[case][index].max_attempts
      /\ Here = Perturbations[case][index]
      /\ Perturbations[case][index].max_attempts \in Nat
  <2>1. /\ case \in Cases /\ index \in Paraphrases(case)
        /\ Here = Perturbations[case][index]
    BY <1>1, <1>3 DEF TypeOK, Paraphrases, Here
  <2>2. /\ Perturbations[case][index].max_attempts \in Nat \ {0}
        /\ Perturbations[case][index].count \in Nat \ {0}
        /\ index \in DOMAIN Perturbations[case]
    BY <2>1, ParaphraseType
  <2> QED  BY <1>1, <1>3, <2>1, <2>2 DEF TypeOK
<1> DEFINE over == ~ (MoreAttempts /\ ~ valid)
           n == Len(calls) + 1
<1>5. PICK left \in BOOLEAN : left <=> over
  BY DEF MoreAttempts
<1>6. /\ left => NextSample
      /\ ~ left => MoreAttempts /\ Retry /\ ~ valid
  BY <1>2, <1>5 DEF RewriteMakes
<1>7. /\ Position'
      /\ left => at'.attempt = 0
      /\ ~ left => /\ pc' = "working" /\ at'.case = case /\ at'.index = index
                   /\ at'.sample = sample /\ at'.attempt = attempt + 1
      /\ \A c \in Cases : \A i \in DOMAIN Perturbations[c] : \A s \in Nat :
           Past(c, i, s) => Past(c, i, s)'
      /\ \A c \in Cases : \A i \in Paraphrases(c) : \A s \in Nat :
           s < Perturbations[c][i].count =>
             (Past(c, i, s)' <=>
                Past(c, i, s) \/ (left /\ c = case /\ i = index /\ s = sample))
  <2>1. CASE left
    <3>1. /\ Position' /\ at'.attempt = 0
          /\ \A c \in Cases : \A i \in DOMAIN Perturbations[c] : \A s \in Nat :
               Past(c, i, s) => Past(c, i, s)'
          /\ \A c \in Cases : \A i \in DOMAIN Perturbations[c] : \A s \in Nat :
               (i \in Paraphrases(c) => s < Perturbations[c][i].count) =>
                 (Past(c, i, s)' <=> Past(c, i, s) \/ Now(c, i, s))
      BY <1>1, <1>6, <2>1, SampleIsOver
    <3> QED  BY <1>3, <2>1, <3>1 DEF Now, Paraphrases
  <2>2. CASE ~ left
    <3>1. /\ Position' /\ pc' = "working"
          /\ at'.case = at.case /\ at'.index = at.index /\ at'.sample = at.sample
          /\ at'.attempt = at.attempt + 1
          /\ \A c, i, s : Past(c, i, s)' <=> Past(c, i, s)
      BY <1>1, <1>6, <2>2, SampleGoesOn
    <3> QED  BY <1>3, <2>2, <3>1
  <2> QED  BY <2>1, <2>2
<1>8. /\ \A s : Now(case, index, s) => ~ Past(case, index, s)
      /\ ~ Past(case, index, sample) /\ ~ Behind(at)
  BY <1>1, <1>3, NotBehind DEF Now
<1>9. /\ IsSeq(calls') /\ n \notin DOMAIN calls /\ DOMAIN calls \subseteq 1..Len(calls)
      /\ Len(calls) \in Nat
      /\ DOMAIN calls' = DOMAIN calls \cup {n}
      /\ calls'[n] = new /\ \A k \in DOMAIN calls : calls'[k] = calls[k]
      /\ \A c, i, s :
           /\ Tries(c, i, s)' = Tries(c, i, s) \cup {k \in {n} : Now(c, i, s)}
           /\ Valid(c, i, s)' = Valid(c, i, s) \cup {k \in {n} : Now(c, i, s) /\ valid}
  BY <1>1, <1>2, CallAdded DEF RewriteMakes
<1> HIDE DEF over, n
<1>10. \A c \in Cases :
        /\ IsSeq(realized'[c])
        /\ \A i \in DOMAIN realized'[c] : realized'[c][i].params.sample_index \in Nat
        /\ Identified(c)'
        /\ \A x \in DOMAIN realized[c] : realized'[c][x] = realized[c][x]
        /\ \A i \in DOMAIN Perturbations[c] : \A s \in Nat :
             Past(c, i, s) => Kept(c, i, s)' = Kept(c, i, s)
  <2>1. \A c \in Cases : \A i \in DOMAIN Perturbations[c] : \A s \in Nat :
          Past(c, i, s) => Past(c, i, s)'
    BY <1>7
  <2>2. TypeOK /\ pc = "working" /\ case = at.case /\ index = at.index /\ IsSeq(added)
    BY <1>1, <1>2, <1>3 DEF RewriteMakes
  <2>3. \A c \in Cases : Identified(c)
    BY <1>1
  <2>4. DOMAIN realized' = Cases
    BY <1>2 DEF RewriteMakes
  <2>5. \A c \in Cases :
          realized'[c] = IF c = case THEN realized[c] \o added ELSE realized[c]
    BY <1>2, <1>3 DEF RewriteMakes
  <2>6. \A j, k \in DOMAIN added :
          added[j].params.sample_index = added[k].params.sample_index => j = k
    BY <1>2 DEF RewriteMakes
  <2>7. \A k \in DOMAIN added :
          /\ added[k].seed = Seed /\ added[k].params.sample_index \in Nat
          /\ ~ Past(case, index, added[k].params.sample_index)
          /\ Past(case, index, added[k].params.sample_index)'
    <3> SUFFICES ASSUME NEW k \in DOMAIN added
                 PROVE  /\ added[k].seed = Seed /\ added[k].params.sample_index \in Nat
                        /\ ~ Past(case, index, added[k].params.sample_index)
                        /\ Past(case, index, added[k].params.sample_index)'
      OBVIOUS
    <3>1. valid /\ added[k].seed = Seed /\ added[k].params.sample_index = sample
      BY <1>2, <1>3 DEF RewriteMakes
    <3>2. left
      BY <1>5, <3>1 DEF over
    <3>3. Past(case, index, sample)'
      BY <1>4, <1>7, <3>2
    <3> QED  BY <1>4, <1>8, <3>1, <3>3
  <2> QED  BY <2>1, <2>2, <2>3, <2>4, <2>5, <2>6, <2>7, Grows
<1>11. TypeOK'
  <2>1. DOMAIN realized' = Cases
    BY <1>2 DEF RewriteMakes
  <2> QED  BY <1>7, <1>9, <1>10, <2>1 DEF TypeOK, Position
<1>12. CallsMade'
  <2>1. ASSUME NEW a, a.case \in Cases, a.index \in Paraphrases(a.case), a.sample \in Nat,
               a.sample < Perturbations[a.case][a.index].count, a.attempt \in Nat,
               Behind(a) \/ a = at
        PROVE  Behind(a)'
    <3>1. a.index \in DOMAIN Perturbations[a.case]
      BY <2>1 DEF Paraphrases
    <3>2. CASE Past(a.case, a.index, a.sample)
      BY <1>7, <2>1, <3>1, <3>2 DEF Behind
    <3>3. CASE /\ a.case = case /\ a.index = index /\ a.sample = sample
               /\ a.attempt <= attempt
      <4>1. CASE left
        BY <1>7, <2>1, <3>3, <4>1 DEF Behind
      <4>2. CASE ~ left
        BY <1>4, <1>7, <2>1, <3>3, <4>2 DEF Behind
      <4> QED  BY <4>1, <4>2
    <3>4. \/ Past(a.case, a.index, a.sample)
          \/ /\ a.case = case /\ a.index = index /\ a.sample = sample
             /\ a.attempt <= attempt
      BY <1>3, <1>4, <2>1 DEF Behind
    <3> QED  BY <3>2, <3>3, <3>4
  <2>2. ASSUME NEW k \in DOMAIN calls PROVE Made(calls[k])' /\ calls[k].at # at
    <3>1. PICK call : call = calls[k]
      OBVIOUS
    <3>2. Made(call)
      BY <1>1, <3>1 DEF CallsMade
    <3>3. Behind(call.at) /\ Behind(call.at)'
      BY <2>1, <3>2 DEF Made
    <3>4. calls'[k] = call
      BY <1>9, <3>1
    <3> QED  BY <1>8, <3>1, <3>2, <3>3, <3>4 DEF Made
  <2>3. Made(new)'
    <3>1. /\ new.at = at /\ at \in [case : Nat, index : Nat, sample : Nat, attempt : Nat]
          /\ new.seed = per_call_seed(derive_perturbation_seed(case, index), sample, attempt,
                                      Perturbations[case][index].max_attempts)
      BY <1>1, <1>2, <1>3, <1>4 DEF RewriteMakes, TypeOK, Seed
    <3>2. PICK a : a = at
      OBVIOUS
    <3>3. /\ a.case = case /\ a.index = index /\ a.sample = sample /\ a.attempt = attempt
          /\ new.at = a
      BY <1>3, <3>1, <3>2
    <3>4. Behind(a)'
      BY <1>4, <2>1, <3>2, <3>3
    <3> QED  BY <1>4, <3>1, <3>2, <3>3, <3>4 DEF Made
  <2>4. ASSUME NEW k \in DOMAIN calls' PROVE Made(calls[k])'
    BY <1>9, <2>2, <2>3, <2>4
  <2>5. \A j, k \in DOMAIN calls' : calls'[j].at = calls'[k].at => j = k
    <3>1. new.at = at
      BY <1>2 DEF RewriteMakes
    <3> QED  BY <1>1, <1>9, <2>2, <3>1 DEF CallsMade
  <2> QED  BY <2>4, <2>5 DEF CallsMade
<1>13. /\ IsFiniteSet(Tries(case, index, sample)')
       /\ Cardinality(Tries(case, index, sample)') = attempt + 1
       /\ Valid(case, index, sample)' = {k \in {n} : valid}
       /\ \A j \in Tries(case, index, sample)' : j <= n
  <2> DEFINE T == Tries(case, index, sample)
  <2>1. IsFiniteSet(T) /\ Cardinality(T) = attempt /\ Valid(case, index, sample) = {}
    BY <1>1, <1>3 DEF Current
  <2>2. T \subseteq DOMAIN calls
    BY DEF Tries, CallsOf
  <2>3. T \subseteq 1..Len(calls) /\ n \notin T
    BY <1>9, <2>2
  <2>4. Now(case, index, sample)
    BY <1>3 DEF Now
  <2>5. /\ Tries(case, index, sample)' = T \cup {n}
        /\ Valid(case, index, sample)' = {k \in {n} : valid}
    BY <1>9, <2>1, <2>4
  <2> HIDE DEF T
  <2>6. IsFiniteSet(T \cup {n}) /\ Cardinality(T \cup {n}) = attempt + 1
    BY <2>1, <2>3, FS_AddElement
  <2>7. \A j \in T \cup {n} : j <= n
    BY <1>9, <2>3 DEF n
  <2> QED  BY <2>5, <2>6, <2>7
<1>14. ASSUME left PROVE Settled(case, index, sample)'
  <2> DEFINE m == Len(realized[case]) + 1
  <2>1. Kept(case, index, sample) = {}
    BY <1>1, <1>3, NothingKept
  <2>2. /\ IsSeq(realized[case]) /\ IsSeq(added)
        /\ realized'[case] = realized[case] \o added
    BY <1>1, <1>2, <1>3, <1>4 DEF TypeOK, RewriteMakes
  <2>3. Concatenation(realized[case], added, realized'[case])
    BY <2>2, ConcatType
  <2>4. /\ DOMAIN added = { k \in {1} : valid }
        /\ \A k \in DOMAIN added :
             /\ added[k].text = new.text
             /\ added[k].seed = derive_perturbation_seed(case, index)
             /\ added[k].params.sample_index = sample
             /\ added[k].params.attempts_used = attempt + 1
    BY <1>2, <1>3 DEF RewriteMakes, Seed
  <2>5. /\ DOMAIN realized'[case] = DOMAIN realized[case] \cup { x \in {m} : valid }
        /\ \A x \in DOMAIN realized[case] : realized'[case][x] = realized[case][x]
        /\ valid => realized'[case][m] = added[1]
    BY <2>3, <2>4 DEF Concatenation
  <2>6. ASSUME valid
        PROVE  /\ added[1].text = new.text
               /\ added[1].seed = derive_perturbation_seed(case, index)
               /\ added[1].params.sample_index = sample
               /\ added[1].params.attempts_used = attempt + 1
    BY <2>4, <2>6
  <2> HIDE DEF m
  <2>7. Kept(case, index, sample)' = { x \in {m} : valid }
    <3>1. \A x \in DOMAIN realized[case] :
            ~ /\ realized[case][x].seed = derive_perturbation_seed(case, index)
              /\ realized[case][x].params.sample_index = sample
      BY <2>1 DEF Kept
    <3> QED  BY <2>5, <2>6, <3>1 DEF Kept
  <2>8. CASE valid
    <3>1. Kept(case, index, sample)' = {m} /\ Valid(case, index, sample)' = {n}
      BY <1>13, <2>7, <2>8
    <3>2. Cardinality({m}) = 1 /\ Cardinality({n}) = 1
      BY FS_Singleton
    <3>3. realized'[case][m].text = calls'[n].text
      BY <1>9, <2>5, <2>6, <2>8
    <3>4. realized'[case][m].params.attempts_used = attempt + 1
      BY <2>5, <2>6, <2>8
    <3> QED  BY <1>13, <3>1, <3>2, <3>3, <3>4 DEF Settled
  <2>9. CASE ~ valid
    <3>1. Kept(case, index, sample)' = {} /\ Valid(case, index, sample)' = {}
      BY <1>13, <2>7, <2>9
    <3>2. attempt + 1 = Perturbations[case][index].max_attempts
      BY <1>3, <1>4, <1>5, <1>14, <2>9 DEF over, MoreAttempts
    <3> QED  BY <1>13, <3>1, <3>2 DEF Settled
  <2> QED  BY <2>8, <2>9
<1>15. Current'
  <2>1. CASE left
    BY <1>7, <1>12, <2>1, FirstAttempt
  <2>2. CASE ~ left
    <3>1. /\ Tries(at.case, at.index, at.sample)' = Tries(case, index, sample)'
          /\ Valid(at.case, at.index, at.sample)' = Valid(case, index, sample)'
      BY <1>7, <2>2
    <3>2. ~ valid /\ at'.attempt = attempt + 1
      BY <1>6, <1>7, <2>2
    <3>3. Valid(case, index, sample)' = {}
      BY <1>13, <3>2
    <3> QED  BY <1>13, <3>1, <3>2, <3>3 DEF Current
  <2> QED  BY <2>1, <2>2
<1>16. AllSettled'
  <2>1. ASSUME NEW c \in Cases, NEW i \in Paraphrases(c), NEW s \in Nat,
               Past(c, i, s)', s < Perturbations[c][i].count
        PROVE  Settled(c, i, s)'
    <3>1. i \in DOMAIN Perturbations[c]
      BY DEF Paraphrases
    <3>2. CASE Past(c, i, s)
      <4>1. Settled(c, i, s)
        BY <1>1, <2>1, <3>2 DEF AllSettled
      <4>2. ~ Now(c, i, s)
        BY <1>1, <3>2, NotBehind
      <4>3. Tries(c, i, s)' = Tries(c, i, s)
        BY <1>9, <4>2
      <4>4. Kept(c, i, s)' = Kept(c, i, s)
        BY <1>10, <3>1, <3>2
      <4>5. \A x \in Kept(c, i, s) : realized'[c][x] = realized[c][x]
        BY <1>10 DEF Kept
      <4>6. \A k \in Tries(c, i, s) : calls'[k] = calls[k]
        BY <1>9 DEF Tries, CallsOf
      <4> QED  BY <4>1, <4>3, <4>4, <4>5, <4>6, StaysSettled
    <3>3. CASE ~ Past(c, i, s)
      <4>1. left /\ c = case /\ i = index /\ s = sample
        BY <1>7, <2>1, <3>3
      <4> QED  BY <1>14, <4>1
    <3> QED  BY <3>2, <3>3
  <2> QED  BY <2>1 DEF AllSettled
<1> QED  BY <1>10, <1>11, <1>12, <1>15, <1>16 DEF MaterializerInv

LEMMA MaterializerStep == MaterializerInv /\ [Next]_vars => MaterializerInv'
<1> SUFFICES ASSUME MaterializerInv, [Next]_vars PROVE MaterializerInv'
  OBVIOUS
<1>1. CASE ApplyLocal
  BY <1>1, ApplyLocalKeeps
<1>2. CASE Rewrite
  BY <1>2, RewriteKeeps
<1>3. CASE RewriteRaises
  BY <1>3, StandsStill DEF RewriteRaises
<1>4. CASE UNCHANGED vars
  BY <1>4, StandsStill DEF vars
<1> QED  BY <1>1, <1>2, <1>3, <1>4 DEF Next

LEMMA MaterializerInvariant == Spec => []MaterializerInv
BY InitMaterializer, MaterializerStep, PTL DEF Spec

-----------------------------------------------------------------------------
(* Type correctness of materialize(): TypeOK, for every spec.              *)
THEOREM MaterializerTypeCorrect == Spec => []TypeOK
<1>1. MaterializerInv => TypeOK
  BY DEF MaterializerInv
<1> QED  BY <1>1, MaterializerInvariant, PTL

(* "The seed of the lineage with the sample index" identifies a sample     *)
(* (perturbation/base.py): SampleIdentity, whatever perturbations a spec   *)
(* has and however many rewrites are dropped.                              *)
THEOREM SamplesHaveIdentity == Spec => []SampleIdentity
<1>1. ASSUME MaterializerInv PROVE SampleIdentity
  <2> SUFFICES ASSUME NEW c \in Cases, NEW d \in Cases,
                      NEW i \in DOMAIN realized[c], NEW j \in DOMAIN realized[d],
                      realized[c][i].seed = realized[d][j].seed,
                      realized[c][i].params.sample_index
                        = realized[d][j].params.sample_index
               PROVE  c = d /\ i = j
    BY DEF SampleIdentity
  <2>1. Identified(c) /\ Identified(d)
    BY <1>1 DEF MaterializerInv
  <2>2. PICK p \in DOMAIN Perturbations[c], q \in DOMAIN Perturbations[d] :
          /\ realized[c][i].seed = derive_perturbation_seed(c, p)
          /\ realized[d][j].seed = derive_perturbation_seed(d, q)
    BY <2>1 DEF Identified, Placed
  <2>3. c = d
    BY <2>2, SeedsTellApart
  <2> QED  BY <2>1, <2>3 DEF Identified
<1> QED  BY <1>1, MaterializerInvariant, PTL

(* The attempts of paraphrase.py: RewritesAreAccountedFor, for every       *)
(* number of samples and attempts, and whatever the model answers.         *)
THEOREM RewritesAccounted == Spec => []RewritesAreAccountedFor
<1>1. ASSUME MaterializerInv PROVE RewritesAreAccountedFor
  <2> SUFFICES ASSUME NEW c \in Cases, NEW i \in Paraphrases(c)
               PROVE  /\ \A j, k \in CallsOf(c, i) : calls[j].seed = calls[k].seed => j = k
                      /\ \A s \in 0..(Perturbations[c][i].count - 1) :
                           Past(c, i, s) => Settled(c, i, s)
    BY DEF RewritesAreAccountedFor
  <2>1. ASSUME NEW j \in CallsOf(c, i), NEW k \in CallsOf(c, i), calls[j].seed = calls[k].seed
        PROVE  j = k
    <3> DEFINE a == calls[j].at
               b == calls[k].at
               m == Perturbations[c][i].max_attempts
               seed == derive_perturbation_seed(c, i)
    <3>1. /\ j \in DOMAIN calls /\ k \in DOMAIN calls
          /\ a.case = c /\ a.index = i /\ b.case = c /\ b.index = i
      BY DEF CallsOf
    <3>2. Made(calls[j]) /\ Made(calls[k])
      BY <1>1, <3>1 DEF MaterializerInv, CallsMade
    <3>3. /\ a \in [case : Nat, index : Nat, sample : Nat, attempt : Nat]
          /\ b \in [case : Nat, index : Nat, sample : Nat, attempt : Nat]
          /\ a.sample < Perturbations[c][i].count /\ b.sample < Perturbations[c][i].count
          /\ a.attempt < m /\ b.attempt < m
          /\ calls[j].seed = per_call_seed(seed, a.sample, a.attempt, m)
          /\ calls[k].seed = per_call_seed(seed, b.sample, b.attempt, m)
      BY <3>1, <3>2 DEF Made
    <3>4. /\ Perturbations[c][i].count \in Nat /\ m \in Nat \ {0}
          /\ Perturbations[c][i].count * m <= MaxApiSeed /\ seed \in Nat
      BY ParaphraseType, SpecType DEF Paraphrases
    <3> HIDE DEF a, b, m, seed
    <3>5. a.sample = b.sample /\ a.attempt = b.attempt
      <4>1. per_call_seed(seed, a.sample, a.attempt, m) = per_call_seed(seed, b.sample, b.attempt, m)
        BY <2>1, <3>3
      <4>2. /\ a.sample \in Nat /\ b.sample \in Nat
            /\ a.attempt \in Nat /\ b.attempt \in Nat
        BY <3>3
      <4>3. a.attempt < m /\ b.attempt < m
        BY <3>3
      <4>4. m \in Nat \ {0} /\ seed \in Nat
        BY <3>4
      <4> QED  BY <3>3, <3>4, <4>1, <4>2, <4>3, <4>4, SeedsOfAttempts
    <3>6. a = b
      BY <3>1, <3>3, <3>5
    <3> QED  BY <1>1, <3>1, <3>6 DEF MaterializerInv, CallsMade, a, b
  <2>2. ASSUME NEW s \in 0..(Perturbations[c][i].count - 1), Past(c, i, s)
        PROVE  Settled(c, i, s)
    <3>1. Perturbations[c][i].count \in Nat
      BY ParaphraseType
    <3>2. s \in Nat /\ s < Perturbations[c][i].count
      BY <3>1
    <3> QED  BY <1>1, <2>2, <3>2 DEF MaterializerInv, AllSettled
  <2> QED  BY <2>1, <2>2
<1> QED  BY <1>1, MaterializerInvariant, PTL

-----------------------------------------------------------------------------
(* Recursion: what joining sequences comes to *)

(* Induction: a set that holds 0 and every successor holds every natural.  *)
LEMMA FromZeroOn ==
  ASSUME NEW S, 0 \in S, \A n \in Nat : n \in S => n + 1 \in S
  PROVE  Nat \subseteq S
<1> SUFFICES ASSUME Nat \ S # {} PROVE FALSE
  OBVIOUS
<1> DEFINE R == OpToRel(<, Nat)
           T == Nat \ S
<1>1. T \subseteq Nat /\ T # {} /\ IsWellFoundedOn(R, Nat)
  BY NatLessThanWellFounded
<1>2. \E m \in T : \A k \in T : <<k, m>> \notin R
  BY <1>1, WFMin, Zenon
<1>3. \A k, m \in Nat : k < m => <<k, m>> \in R
  BY DEF OpToRel
<1> HIDE DEF R
<1>4. PICK m \in T : \A k \in T : <<k, m>> \notin R
  BY <1>2
<1>5. m \in Nat /\ m # 0 /\ m \notin S
  BY <1>4
<1>6. m - 1 \in Nat /\ m - 1 < m /\ m = (m - 1) + 1
  BY <1>5
<1>7. m - 1 \in S
  BY <1>3, <1>4, <1>5, <1>6
<1> QED  BY <1>5, <1>6, <1>7

(* The sequences that joining goes through. *)
Joining(parts, upto) ==
  /\ DOMAIN upto = 0..Len(parts) /\ upto[0] = <<>>
  /\ \A i \in 1..Len(parts) : upto[i] = upto[i - 1] \o parts[i]

LEMMA JoinedSteps ==
  ASSUME NEW parts, Len(parts) \in Nat
  PROVE  \E upto : Joining(parts, upto) /\ Joined(parts) = upto[Len(parts)]
<1> DEFINE n == Len(parts)
           Step(g, i) == IF i = 0 THEN <<>> ELSE g[i - 1] \o parts[i]
           F(g, k) == [i \in 0..k |-> Step(g, i)]
           S == { k \in Nat : \E g : g = F(g, k) }
<1>1. 0 \in S
  <2> DEFINE g == [i \in 0..0 |-> <<>>]
  <2>1. g = F(g, 0)
    OBVIOUS
  <2> QED  BY <2>1
<1>2. ASSUME NEW k \in Nat, k \in S PROVE k + 1 \in S
  <2>1. PICK g : g = F(g, k)
    BY <1>2
  <2>0. \A i \in 0..k : g[i] = Step(g, i)
    <3> HIDE DEF Step
    <3> QED  BY <2>1
  <2> DEFINE h == [i \in 0..(k + 1) |-> IF i = k + 1 THEN g[k] \o parts[k + 1] ELSE g[i]]
  <2>2. ASSUME NEW i \in 0..(k + 1) PROVE h[i] = Step(h, i)
    <3>1. CASE i = k + 1
      BY <3>1
    <3>2. CASE i # k + 1
      <4>1. i \in 0..k /\ h[i] = g[i] /\ g[i] = Step(g, i)
        BY <2>0, <3>2
      <4>2. i # 0 => h[i - 1] = g[i - 1]
        BY <4>1
      <4> QED  BY <4>1, <4>2
    <3> QED  BY <3>1, <3>2
  <2>3. h = F(h, k + 1)
    <3>1. h = [i \in 0..(k + 1) |-> h[i]]
      OBVIOUS
    <3> HIDE DEF h, Step
    <3> QED  BY <2>2, <3>1
  <2> HIDE DEF h, F
  <2> QED  BY <2>3
<1>3. Nat \subseteq S
  <2> HIDE DEF S
  <2> QED  BY <1>1, <1>2, FromZeroOn
<1>4. \E g : g = F(g, n)
  BY <1>3
<1> DEFINE upto == CHOOSE g : g = F(g, n)
<1>5. upto = F(upto, n)
  <2> HIDE DEF F
  <2> QED  BY <1>4
<1>6. Joined(parts) = upto[n]
  BY DEF Joined
<1> HIDE DEF upto
<1>7. \A i \in 0..n : upto[i] = Step(upto, i)
  <2> HIDE DEF Step
  <2> QED  BY <1>5
<1>8. DOMAIN upto = 0..n
  BY <1>5
<1>9. Joining(parts, upto)
  <2>1. upto[0] = <<>>
    BY <1>7
  <2>2. ASSUME NEW i \in 1..n PROVE upto[i] = upto[i - 1] \o parts[i]
    <3>1. i \in 0..n /\ i # 0
      OBVIOUS
    <3> QED  BY <1>7, <3>1
  <2> QED  BY <1>8, <2>1, <2>2 DEF Joining
<1> QED  BY <1>6, <1>9

LEMMA ConcatLen ==
  ASSUME NEW q, NEW r, IsSeq(q), IsSeq(r)
  PROVE  /\ Len(q) \in Nat /\ Len(r) \in Nat /\ DOMAIN q = 1..Len(q) /\ DOMAIN r = 1..Len(r)
         /\ Len(q \o r) = Len(q) + Len(r)
<1> DEFINE Q == { q[i] : i \in DOMAIN q }
           R == { r[i] : i \in DOMAIN r }
<1>1. q \in Seq(Q) /\ r \in Seq(R)
  BY DEF IsSeq
<1> HIDE DEF Q, R
<1> QED  BY <1>1

(* Where each part ends in what they are joined to. *)
Ends(parts, q, end) ==
  /\ end \in [0..Len(parts) -> Nat] /\ end[0] = 0 /\ end[Len(parts)] = Len(q)
  /\ \A i \in DOMAIN parts :
       /\ end[i] = end[i - 1] + Len(parts[i])
       /\ \A k \in DOMAIN parts[i] : q[end[i - 1] + k] = parts[i][k]

PartsPlaced(parts, upto, m) ==
  /\ IsSeq(upto[m])
  /\ \A i \in 0..m : Len(upto[i]) \in Nat
  /\ \A i \in 1..m :
       /\ Len(upto[i]) = Len(upto[i - 1]) + Len(parts[i])
       /\ \A k \in DOMAIN parts[i] :
            /\ Len(upto[i - 1]) + k \in DOMAIN upto[m]
            /\ upto[m][Len(upto[i - 1]) + k] = parts[i][k]

LEMMA PartIsPlaced ==
  ASSUME NEW parts, \A i \in DOMAIN parts : IsSeq(parts[i]), NEW upto, NEW m \in Nat,
         PartsPlaced(parts, upto, m), m + 1 \in DOMAIN parts,
         upto[m + 1] = upto[m] \o parts[m + 1]
  PROVE  PartsPlaced(parts, upto, m + 1)
<1>1. PICK q, r, t : q = upto[m] /\ r = parts[m + 1] /\ t = upto[m + 1]
  OBVIOUS
<1>2. t = q \o r /\ IsSeq(q) /\ IsSeq(r)
  BY <1>1 DEF PartsPlaced
<1>3. /\ Len(q) \in Nat /\ Len(r) \in Nat /\ DOMAIN q = 1..Len(q) /\ DOMAIN r = 1..Len(r)
      /\ Len(t) = Len(q) + Len(r)
  BY <1>2, ConcatLen
<1>4. Concatenation(q, r, t)
  BY <1>2, ConcatType
<1>5. ASSUME NEW i \in 1..(m + 1)
      PROVE  /\ Len(upto[i]) = Len(upto[i - 1]) + Len(parts[i])
             /\ \A k \in DOMAIN parts[i] :
                  /\ Len(upto[i - 1]) + k \in DOMAIN t
                  /\ t[Len(upto[i - 1]) + k] = parts[i][k]
  <2>1. CASE i = m + 1
    <3>1. parts[i] = r /\ upto[i - 1] = q /\ upto[i] = t
      <4>1. i - 1 = m
        BY <2>1
      <4> QED  BY <1>1, <2>1, <4>1
    <3> QED  BY <1>3, <1>4, <3>1 DEF Concatenation
  <2>2. CASE i # m + 1
    <3>1. i \in 1..m
      BY <2>2
    <3> QED  BY <1>1, <1>4, <3>1 DEF Concatenation, PartsPlaced
  <2> QED  BY <2>1, <2>2
<1>6. \A i \in 0..(m + 1) : Len(upto[i]) \in Nat
  BY <1>1, <1>3 DEF PartsPlaced
<1> QED  BY <1>1, <1>4, <1>5, <1>6 DEF Concatenation, PartsPlaced

LEMMA JoinedEnds ==
  ASSUME NEW parts, IsSeq(parts), \A i \in DOMAIN parts : IsSeq(parts[i])
  PROVE  IsSeq(Joined(parts)) /\ \E end : Ends(parts, Joined(parts), end)
<1>1. Len(parts) \in Nat /\ DOMAIN parts = 1..Len(parts)
  BY ConcatLen
<1>2. PICK upto : Joining(parts, upto) /\ Joined(parts) = upto[Len(parts)]
  BY <1>1, JoinedSteps
<1>3. /\ DOMAIN upto = 0..Len(parts) /\ upto[0] = <<>>
      /\ \A i \in 1..Len(parts) : upto[i] = upto[i - 1] \o parts[i]
  BY <1>2 DEF Joining
<1> DEFINE S == { m \in Nat : m <= Len(parts) => PartsPlaced(parts, upto, m) }
<1>4. 0 \in S
  <2>1. IsSeq(<<>>) /\ Len(<<>>) = 0
    BY DEF IsSeq
  <2>2. PartsPlaced(parts, upto, 0)
    BY <1>3, <2>1 DEF PartsPlaced
  <2> QED  BY <2>2
<1>5. ASSUME NEW m \in Nat, m \in S PROVE m + 1 \in S
  <2>1. ASSUME m + 1 <= Len(parts) PROVE PartsPlaced(parts, upto, m + 1)
    <3>1. m <= Len(parts) /\ m + 1 \in 1..Len(parts) /\ (m + 1) - 1 = m
      BY <1>1, <2>1
    <3>2. upto[m + 1] = upto[m] \o parts[m + 1]
      BY <1>3, <3>1
    <3> QED  BY <1>1, <1>5, <3>1, <3>2, PartIsPlaced
  <2> QED  BY <2>1
<1>6. PartsPlaced(parts, upto, Len(parts))
  <2>1. Nat \subseteq S
    <3> HIDE DEF S
    <3> QED  BY <1>4, <1>5, FromZeroOn
  <2> QED  BY <1>1, <2>1
<1> DEFINE end == [i \in 0..Len(parts) |-> Len(upto[i])]
<1>7. end \in [0..Len(parts) -> Nat] /\ end[0] = 0 /\ end[Len(parts)] = Len(upto[Len(parts)])
  BY <1>1, <1>3, <1>6 DEF PartsPlaced
<1>8. ASSUME NEW i \in DOMAIN parts
      PROVE  /\ end[i] = end[i - 1] + Len(parts[i])
             /\ \A k \in DOMAIN parts[i] : Joined(parts)[end[i - 1] + k] = parts[i][k]
  <2>1. i \in 1..Len(parts) /\ end[i] = Len(upto[i]) /\ end[i - 1] = Len(upto[i - 1])
    BY <1>1
  <2> HIDE DEF end
  <2> QED  BY <1>2, <1>6, <2>1 DEF PartsPlaced
<1>9. Ends(parts, Joined(parts), end)
  <2> HIDE DEF end
  <2> QED  BY <1>2, <1>7, <1>8 DEF Ends
<1>10. IsSeq(Joined(parts))
  BY <1>2, <1>6 DEF PartsPlaced
<1> QED  BY <1>9, <1>10

-----------------------------------------------------------------------------
(* The inputs of q are what the first n of some slots ask for, in their    *)
(* order; place[i] is the slot of the i-th input.  Only slots that an LLM  *)
(* writes are left out.                                                    *)
Fits(x, slot) == x.family = slot.family /\ x.text \in slot.texts

Follows(q, slots, n, place) ==
  /\ place \in [DOMAIN q -> 1..n]
  /\ \A i, j \in DOMAIN q : i < j => place[i] < place[j]
  /\ \A s \in 1..n : slots[s].llm \/ \E i \in DOMAIN q : place[i] = s
  /\ \A i \in DOMAIN q : Fits(q[i], slots[place[i]])

LEMMA FollowedByMore ==
  ASSUME NEW q, NEW added, IsSeq(q), IsSeq(added), NEW slots, NEW n \in Nat, NEW place,
         Follows(q, slots, n, place),
         \A k \in DOMAIN added : Fits(added[k], slots[n + k])
  PROVE  \E p : Follows(q \o added, slots, n + Len(added), p)
<1>1. /\ Len(q) \in Nat /\ Len(added) \in Nat
      /\ DOMAIN q = 1..Len(q) /\ DOMAIN added = 1..Len(added)
  BY ConcatLen
<1>2. PICK t : t = q \o added
  OBVIOUS
<1>3. Concatenation(q, added, t)
  BY <1>2, ConcatType
<1>4. PICK m : m = Len(q)
  OBVIOUS
<1> DEFINE p == [i \in DOMAIN t |-> IF i \in DOMAIN q THEN place[i] ELSE n + (i - m)]
<1>5. ASSUME NEW i \in DOMAIN t
      PROVE  \/ i \in DOMAIN q /\ p[i] = place[i] /\ place[i] \in 1..n /\ t[i] = q[i]
             \/ /\ i - m \in DOMAIN added /\ i > m /\ p[i] = n + (i - m)
                /\ i \in Nat /\ t[i] = added[i - m]
  <2>1. CASE i \in DOMAIN q
    BY <1>3, <2>1 DEF Follows, Concatenation
  <2>2. CASE i \notin DOMAIN q
    <3>1. PICK k \in DOMAIN added : i = m + k
      BY <1>3, <1>4, <2>2 DEF Concatenation
    <3>2. k = i - m /\ k >= 1 /\ i \in Nat /\ i > m
      BY <1>1, <1>4, <3>1
    <3>3. t[i] = added[k]
      BY <1>3, <1>4, <3>1 DEF Concatenation
    <3> QED  BY <2>2, <3>1, <3>2, <3>3
  <2> QED  BY <2>1, <2>2
<1>6. \A i \in DOMAIN q : i \in DOMAIN t /\ p[i] = place[i] /\ i \in 1..m
  BY <1>1, <1>3, <1>4 DEF Concatenation
<1>7. \A k \in DOMAIN added : m + k \in DOMAIN t /\ p[m + k] = n + k
  <2> SUFFICES ASSUME NEW k \in DOMAIN added PROVE m + k \in DOMAIN t /\ p[m + k] = n + k
    OBVIOUS
  <2>1. m + k \in DOMAIN t /\ m + k \notin DOMAIN q /\ (m + k) - m = k
    BY <1>1, <1>3, <1>4 DEF Concatenation
  <2> QED  BY <2>1
<1>8. DOMAIN p = DOMAIN t
  OBVIOUS
<1>9. p = [i \in DOMAIN t |-> p[i]]
  OBVIOUS
<1> HIDE DEF p
<1>10. p \in [DOMAIN t -> 1..(n + Len(added))]
  <2>1. \A i \in DOMAIN t : p[i] \in 1..(n + Len(added))
    BY <1>1, <1>5
  <2> QED  BY <1>9, <2>1
<1>11. \A i, j \in DOMAIN t : i < j => p[i] < p[j]
  <2> SUFFICES ASSUME NEW i \in DOMAIN t, NEW j \in DOMAIN t, i < j PROVE p[i] < p[j]
    OBVIOUS
  <2>1. m \in Nat /\ DOMAIN q = 1..m /\ DOMAIN added = 1..Len(added)
    BY <1>1, <1>4
  <2>2. CASE i \in DOMAIN q /\ j \in DOMAIN q
    BY <1>6, <2>2 DEF Follows
  <2>3. CASE i \in DOMAIN q /\ j \notin DOMAIN q
    <3>1. p[i] = place[i] /\ place[i] \in 1..n
      BY <1>6, <2>3 DEF Follows
    <3>2. p[j] = n + (j - m) /\ j > m /\ j \in Nat
      BY <1>5, <2>3
    <3> QED  BY <2>1, <3>1, <3>2
  <2>4. CASE i \notin DOMAIN q
    <3>1. i > m /\ i \in Nat /\ p[i] = n + (i - m)
      BY <1>5, <2>4
    <3>2. j \notin DOMAIN q
      BY <2>1, <3>1
    <3>3. j \in Nat /\ p[j] = n + (j - m)
      BY <1>5, <3>2
    <3> QED  BY <2>1, <3>1, <3>3
  <2> QED  BY <2>2, <2>3, <2>4
<1>12. \A s \in 1..(n + Len(added)) : slots[s].llm \/ \E i \in DOMAIN t : p[i] = s
  <2> SUFFICES ASSUME NEW s \in 1..(n + Len(added))
               PROVE  slots[s].llm \/ \E i \in DOMAIN t : p[i] = s
    OBVIOUS
  <2>1. CASE s <= n
    BY <1>1, <1>6, <2>1 DEF Follows
  <2>2. CASE s > n
    <3>1. s - n \in DOMAIN added /\ s = n + (s - n)
      BY <1>1, <2>2
    <3> QED  BY <1>7, <3>1
  <2> QED  BY <1>1, <2>1, <2>2
<1>13. \A i \in DOMAIN t : Fits(t[i], slots[p[i]])
  <2> SUFFICES ASSUME NEW i \in DOMAIN t PROVE Fits(t[i], slots[p[i]])
    OBVIOUS
  <2> QED  BY <1>5 DEF Follows
<1>14. Follows(t, slots, n + Len(added), p)
  BY <1>10, <1>11, <1>12, <1>13 DEF Follows
<1> QED  BY <1>2, <1>14

LEMMA FollowedByNone ==
  ASSUME NEW q, NEW slots, NEW n \in Nat, NEW place,
         Follows(q, slots, n, place), slots[n + 1].llm
  PROVE  Follows(q, slots, n + 1, place)
<1>1. 1..(n + 1) = 1..n \cup {n + 1}
  OBVIOUS
<1> QED  BY <1>1 DEF Follows

LEMMA ContractCounts == \A S : Contract!Cardinality(S) = Cardinality(S)
BY Zenon DEF Contract!Cardinality, Cardinality

(* The slots that were kept, and their order. *)
KeptIn(q, slots, place, kept) ==
  /\ Cardinality(kept) = Len(q)
  /\ \A i \in DOMAIN q : place[i] \in kept /\ Contract!Nth(kept, i) = place[i]
  /\ kept \subseteq DOMAIN slots
  /\ \A s \in DOMAIN slots \ kept : slots[s].llm

LEMMA FollowedIsKept ==
  ASSUME NEW q, IsSeq(q), NEW slots, IsSeq(slots), NEW place,
         Follows(q, slots, Len(slots), place)
  PROVE  \E kept : KeptIn(q, slots, place, kept)
<1>0. PICK kept : kept = { place[i] : i \in DOMAIN q }
  OBVIOUS
<1>1. /\ DOMAIN q = 1..Len(q) /\ Len(q) \in Nat
      /\ DOMAIN slots = 1..Len(slots) /\ Len(slots) \in Nat
  BY ConcatLen
<1>2. \A i, j \in DOMAIN q : i < j => place[i] < place[j]
  BY DEF Follows
<1>3. \A i \in DOMAIN q : place[i] \in 1..Len(slots) /\ place[i] \in Nat
  BY <1>1 DEF Follows
<1>4. ASSUME NEW m \in 0..Len(q)
      PROVE  Cardinality({ place[i] : i \in 1..m }) = m
  <2> DEFINE f == [i \in 1..m |-> place[i]]
             T == { place[i] : i \in 1..m }
  <2>1. m \in Nat /\ 1..m \subseteq DOMAIN q
    BY <1>1
  <2>2. f \in Bijection(1..m, T)
    <3>1. f \in [1..m -> T] /\ \A y \in T : \E x \in 1..m : f[x] = y
      OBVIOUS
    <3>2. \A i, j \in 1..m : f[i] = f[j] => i = j
      <4> SUFFICES ASSUME NEW i \in 1..m, NEW j \in 1..m, i # j PROVE f[i] # f[j]
        OBVIOUS
      <4>1. i \in DOMAIN q /\ j \in DOMAIN q
        BY <2>1
      <4>2. i < j \/ j < i
        BY <2>1
      <4> QED  BY <1>2, <1>3, <4>1, <4>2
    <3> HIDE DEF f, T
    <3> QED  BY <3>1, <3>2, Fun_IsBij
  <2>3. IsFiniteSet(1..m) /\ Cardinality(1..m) = m
    BY <2>1, FS_Interval
  <2>4. Cardinality(T) = m
    <3> HIDE DEF f, T
    <3>1. ExistsBijection(1..m, T)
      BY <2>2 DEF ExistsBijection
    <3> QED  BY <2>3, <3>1, FS_Bijection
  <2> QED  BY <2>4
<1>5. Cardinality(kept) = Len(q)
  <2>1. Len(q) \in 0..Len(q) /\ kept = { place[i] : i \in 1..Len(q) }
    BY <1>0, <1>1
  <2> QED  BY <1>4, <2>1
<1>6. ASSUME NEW i \in DOMAIN q
      PROVE  Cardinality(kept \cap 1..place[i]) = i
  <2>1. kept \cap 1..place[i] = { place[j] : j \in 1..i }
    <3>1. ASSUME NEW j \in DOMAIN q PROVE place[j] \in 1..place[i] <=> j \in 1..i
      <4>1. i \in Nat /\ j \in Nat /\ place[i] \in Nat /\ place[j] \in Nat /\ place[j] >= 1 /\ j >= 1
        BY <1>1, <1>3
      <4>2. CASE j < i
        BY <1>2, <4>1, <4>2
      <4>3. CASE j = i
        BY <4>1, <4>3
      <4>4. CASE j > i
        BY <1>2, <4>1, <4>4
      <4> QED  BY <4>1, <4>2, <4>3, <4>4
    <3>2. \A j \in 1..i : j \in DOMAIN q
      BY <1>1
    <3> QED  BY <1>0, <3>1, <3>2
  <2>2. i \in 0..Len(q)
    BY <1>1
  <2> QED  BY <1>4, <2>1, <2>2
<1>7. ASSUME NEW i \in DOMAIN q PROVE Contract!Nth(kept, i) = place[i]
  <2>1. place[i] \in kept /\ Cardinality(kept \cap 1..place[i]) = i
    BY <1>0, <1>6
  <2>2. \A s \in kept : Cardinality(kept \cap 1..s) = i => s = place[i]
    <3> SUFFICES ASSUME NEW s \in kept, Cardinality(kept \cap 1..s) = i PROVE s = place[i]
      OBVIOUS
    <3>1. PICK j \in DOMAIN q : s = place[j]
      BY <1>0
    <3>2. j = i
      BY <1>6, <3>1
    <3> QED  BY <3>1, <3>2
  <2> QED  BY <2>1, <2>2, ContractCounts DEF Contract!Nth
<1>8. kept \subseteq DOMAIN slots
  BY <1>0, <1>1, <1>3
<1>9. \A s \in DOMAIN slots \ kept : slots[s].llm
  BY <1>0, <1>1 DEF Follows
<1> QED  BY <1>0, <1>5, <1>7, <1>8, <1>9 DEF KeptIn

-----------------------------------------------------------------------------
(* The slots of a case, part by part. *)
Parts(c) == [i \in DOMAIN Perturbations[c] |-> SlotsOf(Perturbations[c][i], c)]
EndOf(c) == CHOOSE end : Ends(Parts(c), AskedFor[c], end)

LEMMA CountedIsSeq ==
  ASSUME NEW q, NEW n \in Nat, DOMAIN q = 1..n, q = [k \in 1..n |-> q[k]]
  PROVE  IsSeq(q) /\ Len(q) = n
<1> DEFINE S == { q[k] : k \in DOMAIN q }
<1>1. \A k \in 1..n : q[k] \in S
  OBVIOUS
<1> HIDE DEF S
<1>2. q \in Seq(S)
  BY <1>1
<1> QED  BY <1>2 DEF IsSeq, S

TextsOf(sample) == { o.text : o \in sample.outcomes }
Accepted(c) == { t \in Rewritings[c] : validate(CaseInput[c], t) }

IsPartFor(c, p, part) ==
  /\ IsSeq(part)
  /\ \A k \in DOMAIN part : part[k].family = p.type
  /\ p.type = "paraphrase" =>
       /\ Len(part) = p.count
       /\ \A k \in DOMAIN part :
            /\ part[k].llm
            /\ part[k].texts = Accepted(c)
  /\ p.type # "paraphrase" =>
       /\ DOMAIN part = DOMAIN Samples(p, CaseInput[c])
       /\ \A k \in DOMAIN part :
            part[k].texts = TextsOf(Samples(p, CaseInput[c])[k])

LEMMA PartType ==
  ASSUME NEW c \in Cases, NEW i \in DOMAIN Perturbations[c],
         NEW p, p = Perturbations[c][i], NEW part, part = SlotsOf(p, c)
  PROVE  IsPartFor(c, p, part)
<1>1. p = Perturbations[c][i] /\ part = SlotsOf(p, c)
  OBVIOUS
<1>2. CASE p.type = "paraphrase"
  <2>1. p.count \in Nat
    BY <1>1, <1>2, ParaphraseType DEF Paraphrases
  <2>2. part = [ k \in 1..p.count |->
                   [ family |-> p.type, llm |-> TRUE,
                     texts |-> Accepted(c) ] ]
    BY <1>1, <1>2 DEF SlotsOf, Accepted, TextsOf
  <2>3. /\ DOMAIN part = 1..p.count /\ part = [k \in 1..p.count |-> part[k]]
        /\ \A k \in DOMAIN part :
             /\ part[k].family = p.type /\ part[k].llm
             /\ part[k].texts = Accepted(c)
    BY <2>2
  <2>4. IsSeq(part) /\ Len(part) = p.count
    BY <2>1, <2>3, CountedIsSeq
  <2> QED  BY <1>1, <1>2, <2>3, <2>4 DEF IsPartFor
<1>3. CASE p.type # "paraphrase"
  <2>1. PICK samples : samples = Samples(p, CaseInput[c])
    OBVIOUS
  <2>2. PICK n \in Nat : DOMAIN samples = 1..n
    BY <1>1, <1>3, <2>1, SamplesType, SpecType
  <2>3. part = [ k \in DOMAIN samples |->
                   [ family |-> p.type, llm |-> FALSE,
                     texts |-> TextsOf(samples[k]) ] ]
    BY <1>1, <1>3, <2>1 DEF SlotsOf, Accepted, TextsOf
  <2>4. /\ DOMAIN part = 1..n /\ part = [k \in 1..n |-> part[k]]
        /\ \A k \in DOMAIN part :
             part[k].family = p.type /\ part[k].texts = TextsOf(samples[k])
    BY <2>2, <2>3
  <2>5. IsSeq(part)
    BY <2>4, CountedIsSeq
  <2> QED  BY <1>1, <1>3, <2>1, <2>2, <2>4, <2>5 DEF IsPartFor
<1> QED  BY <1>2, <1>3

LEMMA AskedForEnds ==
  ASSUME NEW c \in Cases
  PROVE  /\ IsSeq(AskedFor[c]) /\ Ends(Parts(c), AskedFor[c], EndOf(c))
         /\ Len(Parts(c)) = Len(Perturbations[c]) /\ Len(Perturbations[c]) \in Nat
         /\ DOMAIN Parts(c) = 1..Len(Perturbations[c])
         /\ DOMAIN Parts(c) = DOMAIN Perturbations[c]
         /\ \A i \in DOMAIN Parts(c) :
              Parts(c)[i] = SlotsOf(Perturbations[c][i], c) /\ IsSeq(Parts(c)[i])
<1>1. DOMAIN Perturbations[c] = 1..Len(Perturbations[c]) /\ Len(Perturbations[c]) \in Nat
  BY SpecType
<1>2. \A i \in DOMAIN Perturbations[c] :
        Parts(c)[i] = SlotsOf(Perturbations[c][i], c) /\ IsSeq(Parts(c)[i])
  BY PartType DEF Parts, IsPartFor
<1>3. /\ DOMAIN Parts(c) = 1..Len(Perturbations[c])
      /\ Parts(c) = [i \in 1..Len(Perturbations[c]) |-> Parts(c)[i]]
  BY <1>1 DEF Parts
<1>4. IsSeq(Parts(c)) /\ Len(Parts(c)) = Len(Perturbations[c])
  BY <1>1, <1>3, CountedIsSeq
<1>5. AskedFor[c] = Joined(Parts(c))
  BY DEF AskedFor, Parts
<1>6. IsSeq(AskedFor[c]) /\ \E end : Ends(Parts(c), AskedFor[c], end)
  BY <1>1, <1>2, <1>3, <1>4, <1>5, JoinedEnds
<1>7. Ends(Parts(c), AskedFor[c], EndOf(c))
  BY <1>6 DEF EndOf
<1> QED  BY <1>1, <1>2, <1>3, <1>4, <1>6, <1>7

-----------------------------------------------------------------------------
(* The refinement *)

(* How many of the slots of a case the loops have dealt with. *)
Reached(c) ==
  IF c < at.case THEN Len(AskedFor[c])
  ELSE IF c = at.case THEN EndOf(c)[at.index - 1] + at.sample ELSE 0

Realizing ==
  /\ \A c \in Cases : \E place : Follows(realized[c], AskedFor[c], Reached(c), place)
  /\ pc = "done" => \A c \in Cases : c < at.case

LEMMA ReachedHere ==
  ASSUME TypeOK, pc = "working", NEW c, c = at.case, NEW i, i = at.index
  PROVE  /\ c \in Cases /\ i \in DOMAIN Parts(c)
         /\ EndOf(c)[i - 1] \in Nat /\ Len(Parts(c)[i]) \in Nat
         /\ DOMAIN Parts(c)[i] = 1..Len(Parts(c)[i])
         /\ EndOf(c)[i] = EndOf(c)[i - 1] + Len(Parts(c)[i])
         /\ Reached(c) = EndOf(c)[i - 1] + at.sample /\ at.sample \in Nat
         /\ \A k \in DOMAIN Parts(c)[i] :
              AskedFor[c][EndOf(c)[i - 1] + k] = Parts(c)[i][k]
<1>1. c \in Cases /\ i \in DOMAIN Perturbations[c] /\ at.sample \in Nat
  BY DEF TypeOK
<1>2. /\ Ends(Parts(c), AskedFor[c], EndOf(c))
      /\ Len(Parts(c)) = Len(Perturbations[c]) /\ Len(Perturbations[c]) \in Nat
      /\ DOMAIN Parts(c) = 1..Len(Perturbations[c])
      /\ DOMAIN Parts(c) = DOMAIN Perturbations[c]
      /\ IsSeq(Parts(c)[i])
  BY <1>1, AskedForEnds
<1>3. Len(Parts(c)[i]) \in Nat /\ DOMAIN Parts(c)[i] = 1..Len(Parts(c)[i])
  BY <1>2, ConcatLen
<1>4. i - 1 \in 0..Len(Parts(c))
  BY <1>1, <1>2
<1>5. EndOf(c)[i - 1] \in Nat
  BY <1>2, <1>4 DEF Ends
<1>6. /\ EndOf(c)[i] = EndOf(c)[i - 1] + Len(Parts(c)[i])
      /\ \A k \in DOMAIN Parts(c)[i] :
           AskedFor[c][EndOf(c)[i - 1] + k] = Parts(c)[i][k]
  <2> DEFINE ps == Parts(c)
             q == AskedFor[c]
             end == EndOf(c)
  <2>1. Ends(ps, q, end) /\ i \in DOMAIN ps /\ i \in 1..Len(ps)
    BY <1>1, <1>2
  <2> HIDE DEF ps, q, end
  <2>2. end[i] = end[i - 1] + Len(ps[i]) /\ \A k \in DOMAIN ps[i] : q[end[i - 1] + k] = ps[i][k]
    BY ONLY <2>1 DEF Ends
  <2> QED  BY ONLY <2>2 DEF ps, q, end
<1>7. ~ (c < at.case)
  <2>1. c \in Int /\ c = at.case
    BY <1>1, SpecType
  <2>2. PICK k : k = at.case
    OBVIOUS
  <2> QED  BY ONLY <2>1, <2>2
<1>8. Reached(c) = EndOf(c)[i - 1] + at.sample
  BY <1>7 DEF Reached
<1> QED  BY <1>1, <1>2, <1>3, <1>5, <1>6, <1>8

LEMMA OnwardReaches ==
  ASSUME TypeOK, pc = "working", Onward, NEW case, case = at.case, NEW index, index = at.index
  PROVE  /\ \A c \in Cases :
              Reached(c)' = IF c = case THEN EndOf(case)[index] ELSE Reached(c)
         /\ pc' = "done" => \A c \in Cases : c < at'.case
<1>1. /\ Cases = 1..Len(CaseInput) /\ Len(CaseInput) \in Nat
      /\ case \in Cases /\ index \in DOMAIN Perturbations[case]
      /\ at \in [case : Nat, index : Nat, sample : Nat, attempt : Nat]
  BY SpecType DEF TypeOK
<1>2. /\ Ends(Parts(case), AskedFor[case], EndOf(case))
      /\ Len(Parts(case)) = Len(Perturbations[case]) /\ Len(Perturbations[case]) \in Nat
      /\ DOMAIN Perturbations[case] = 1..Len(Perturbations[case])
  BY <1>1, AskedForEnds
<1>3. EndOf(case)[index] \in Nat
  BY <1>1, <1>2 DEF Ends
<1>4. CASE index < Len(Perturbations[case])
  <2>1. pc' = pc /\ at' = At(case, index + 1, 0, 0)
    BY <1>4 DEF Onward
  <2>2. at'.case = case /\ at'.index = index + 1 /\ at'.sample = 0 /\ (index + 1) - 1 = index
    BY <1>1, <1>2, <2>1 DEF At
  <2>3. ASSUME NEW c \in Cases
        PROVE  Reached(c)' = IF c = case THEN EndOf(case)[index] ELSE Reached(c)
    <3>1. CASE c = case
      <4>1. ~ (c < case)
        BY <1>1, <3>1
      <4>2. Reached(c)' = EndOf(case)[index] + 0
        BY <2>2, <3>1, <4>1 DEF Reached
      <4> QED  BY <1>3, <3>1, <4>2
    <3>2. CASE c # case
      BY <2>2, <3>2 DEF Reached
    <3> QED  BY <3>1, <3>2
  <2> QED  BY <2>1, <2>3
<1>5. CASE ~ (index < Len(Perturbations[case]))
  <2>1. at' = At(case + 1, 1, 0, 0) /\ (pc' = "done" => case = Len(CaseInput))
    BY <1>5 DEF Onward
  <2>2. at'.case = case + 1 /\ at'.index = 1 /\ at'.sample = 0
    BY <2>1 DEF At
  <2>3. index = Len(Parts(case))
    BY <1>1, <1>2, <1>5
  <2>4. ASSUME NEW c \in Cases
        PROVE  Reached(c)' = IF c = case THEN EndOf(case)[index] ELSE Reached(c)
    <3>0. c \in Nat /\ case \in Nat
      BY <1>1
    <3>1. CASE c = case
      <4>1. c < case + 1
        BY <3>0, <3>1
      <4>2. Reached(c)' = Len(AskedFor[c])
        BY <2>2, <4>1 DEF Reached
      <4>3. EndOf(case)[index] = Len(AskedFor[case])
        BY <1>2, <2>3 DEF Ends
      <4> QED  BY <3>1, <4>2, <4>3
    <3>2. CASE c < case
      BY <2>2, <3>0, <3>2 DEF Reached
    <3>3. CASE c = case + 1
      <4>1. Reached(c)' = EndOf(c)[1 - 1] + 0
        BY <2>2, <3>0, <3>3 DEF Reached
      <4>2. EndOf(c)[0] = 0
        BY AskedForEnds DEF Ends
      <4>3. Reached(c) = 0
        BY <3>0, <3>3 DEF Reached
      <4> QED  BY <3>0, <3>3, <4>1, <4>2, <4>3
    <3>4. CASE c > case + 1
      BY <2>2, <3>0, <3>4 DEF Reached
    <3> QED  BY <3>0, <3>1, <3>2, <3>3, <3>4
  <2>5. pc' = "done" => \A c \in Cases : c < at'.case
    BY <1>1, <2>1, <2>2
  <2> QED  BY <2>4, <2>5
<1> QED  BY <1>4, <1>5

LEMMA InitRealizing == Init => Realizing
<1> SUFFICES ASSUME Init PROVE Realizing
  OBVIOUS
<1>1. /\ pc = "working" /\ at.case = 1 /\ at.index = 1 /\ at.sample = 0
      /\ realized = [c \in Cases |-> <<>>]
  BY DEF Init, At
<1>2. ASSUME NEW c \in Cases PROVE Reached(c) = 0
  <2>1. c \in Nat /\ c >= 1
    BY SpecType
  <2>2. EndOf(c)[0] = 0
    BY AskedForEnds DEF Ends
  <2> QED  BY <1>1, <2>1, <2>2 DEF Reached
<1>3. ASSUME NEW c \in Cases
      PROVE  Follows(realized[c], AskedFor[c], Reached(c), [i \in {} |-> i])
  <2>1. realized[c] = <<>> /\ DOMAIN <<>> = {} /\ 1..0 = {}
    BY <1>1
  <2> QED  BY <1>2, <2>1 DEF Follows
<1> QED  BY <1>1, <1>3 DEF Realizing

LEMMA LocalRealizes ==
  ASSUME MaterializerInv, Realizing, ApplyLocal
  PROVE  Realizing'
<1>1. TypeOK /\ pc = "working" /\ Here.type # "paraphrase" /\ Onward /\ at.sample = 0
  BY DEF MaterializerInv, ApplyLocal, TypeOK
<1>2. PICK case, index : case = at.case /\ index = at.index
  OBVIOUS
<1>3. PICK added :
        /\ IsSeq(added)
        /\ realized' = [realized EXCEPT ![at.case] = @ \o added]
        /\ DOMAIN added = DOMAIN Samples(Here, Text)
        /\ \A k \in DOMAIN added : DrawnFrom(added[k], Samples(Here, Text)[k])
  BY LocalInputs
<1>4. PICK part, n : part = Parts(case)[index] /\ n = EndOf(case)[index - 1]
  OBVIOUS
<1>5. /\ case \in Cases /\ index \in DOMAIN Parts(case) /\ n \in Nat /\ Len(part) \in Nat
      /\ DOMAIN part = 1..Len(part)
      /\ EndOf(case)[index] = n + Len(part) /\ Reached(case) = n + at.sample
      /\ \A k \in DOMAIN part : AskedFor[case][n + k] = part[k]
  BY <1>1, <1>2, <1>4, ReachedHere
<1>7. Here = Perturbations[case][index] /\ Text = CaseInput[case]
  BY <1>2 DEF Here, Text
<1>6. index \in DOMAIN Perturbations[case] /\ part = SlotsOf(Here, case)
  BY <1>4, <1>5, <1>7, AskedForEnds
<1>8. /\ \A k \in DOMAIN part : part[k].family = Here.type
      /\ DOMAIN part = DOMAIN Samples(Here, Text)
      /\ \A k \in DOMAIN part :
           part[k].texts = TextsOf(Samples(Here, Text)[k])
  <2>1. PICK p, samples : p = Here /\ samples = Samples(p, CaseInput[case])
    OBVIOUS
  <2>2. /\ \A k \in DOMAIN part : part[k].family = p.type
        /\ DOMAIN part = DOMAIN samples
        /\ \A k \in DOMAIN part : part[k].texts = TextsOf(samples[k])
    <3>1. /\ case \in Cases /\ index \in DOMAIN Perturbations[case]
          /\ p = Perturbations[case][index] /\ part = SlotsOf(p, case)
          /\ p.type # "paraphrase"
      BY <1>1, <1>5, <1>6, <1>7, <2>1
    <3>2. IsPartFor(case, p, part)
      BY <3>1, PartType, Zenon
    <3> QED  BY <2>1, <3>1, <3>2 DEF IsPartFor
  <2> QED  BY <1>7, <2>1, <2>2
<1>9. DOMAIN added = 1..Len(added) /\ Len(added) \in Nat
  BY <1>3, ConcatLen
<1>10. Len(added) = Len(part)
  <2>1. 1..Len(added) = 1..Len(part) /\ Len(added) \in Nat /\ Len(part) \in Nat
    BY <1>3, <1>5, <1>8, <1>9
  <2> QED  BY <2>1
<1>11. \A k \in DOMAIN added : Fits(added[k], AskedFor[case][n + k])
  BY <1>3, <1>5, <1>8 DEF DrawnFrom, Fits, TextsOf
<1>12. PICK place : Follows(realized[case], AskedFor[case], n, place)
  BY <1>1, <1>5 DEF Realizing
<1>13. /\ IsSeq(realized[case]) /\ DOMAIN realized = Cases
       /\ \A c \in Cases :
            realized'[c] = IF c = case THEN realized[case] \o added ELSE realized[c]
  BY <1>1, <1>2, <1>3, <1>5 DEF TypeOK
<1>14. \E p : Follows(realized[case] \o added, AskedFor[case], n + Len(added), p)
  <2>1. PICK q, slots : q = realized[case] /\ slots = AskedFor[case]
    OBVIOUS
  <2> QED  BY <1>3, <1>5, <1>11, <1>12, <1>13, <2>1, FollowedByMore
<1>15. /\ \A c \in Cases :
            Reached(c)' = IF c = case THEN EndOf(case)[index] ELSE Reached(c)
       /\ pc' = "done" => \A c \in Cases : c < at'.case
  BY <1>1, <1>2, OnwardReaches
<1>16. ASSUME NEW c \in Cases
       PROVE  \E p : Follows(realized'[c], AskedFor[c], Reached(c)', p)
  <2>1. CASE c = case
    BY <1>5, <1>10, <1>13, <1>14, <1>15, <2>1
  <2>2. CASE c # case
    BY <1>13, <1>15, <2>2 DEF Realizing
  <2> QED  BY <2>1, <2>2
<1> QED  BY <1>15, <1>16 DEF Realizing

LEMMA RewriteRealizes ==
  ASSUME MaterializerInv, Realizing, Rewrite
  PROVE  Realizing'
<1>1. /\ TypeOK /\ pc = "working" /\ Here.type = "paraphrase"
  BY DEF MaterializerInv, Rewrite
<1>2. PICK case, index : case = at.case /\ index = at.index
  OBVIOUS
<1>3. PICK new, added : \E valid \in BOOLEAN : RewriteMakes(new, valid, added)
  BY RewriteParts
<1>4. PICK valid \in BOOLEAN : RewriteMakes(new, valid, added)
  BY <1>3
<1>5. PICK part, n : part = Parts(case)[index] /\ n = EndOf(case)[index - 1]
  OBVIOUS
<1>6. /\ case \in Cases /\ index \in DOMAIN Parts(case) /\ n \in Nat /\ Len(part) \in Nat
      /\ DOMAIN part = 1..Len(part)
      /\ EndOf(case)[index] = n + Len(part) /\ Reached(case) = n + at.sample /\ at.sample \in Nat
      /\ \A k \in DOMAIN part : AskedFor[case][n + k] = part[k]
  BY <1>1, <1>2, <1>5, ReachedHere
<1>8. Here = Perturbations[case][index] /\ Text = CaseInput[case]
  BY <1>2 DEF Here, Text
<1>7. index \in DOMAIN Perturbations[case] /\ part = SlotsOf(Here, case)
  BY <1>5, <1>6, <1>8, AskedForEnds
<1>9. /\ Len(part) = Here.count
      /\ \A k \in DOMAIN part :
           /\ part[k].family = Here.type /\ part[k].llm
           /\ part[k].texts = Accepted(case)
  <2>1. PICK p : p = Here
    OBVIOUS
  <2>2. /\ Len(part) = p.count
        /\ \A k \in DOMAIN part :
             /\ part[k].family = p.type /\ part[k].llm
             /\ part[k].texts = Accepted(case)
    <3>1. /\ case \in Cases /\ index \in DOMAIN Perturbations[case]
          /\ p = Perturbations[case][index] /\ part = SlotsOf(p, case)
          /\ p.type = "paraphrase"
      BY <1>1, <1>6, <1>7, <1>8, <2>1
    <3>2. IsPartFor(case, p, part)
      BY <3>1, PartType, Zenon
    <3> QED  BY <3>1, <3>2 DEF IsPartFor
  <2> QED  BY <2>1, <2>2
<1>10. at.sample \in 0..(Here.count - 1)
  BY <1>1 DEF TypeOK
<1>11. PICK m : m = n + at.sample
  OBVIOUS
<1>12. m \in Nat /\ m = Reached(case)
  BY <1>6, <1>11
<1>13. /\ AskedFor[case][m + 1].family = Here.type /\ AskedFor[case][m + 1].llm
       /\ AskedFor[case][m + 1].texts
            = Accepted(case)
  <2>1. at.sample + 1 \in DOMAIN part /\ m + 1 = n + (at.sample + 1)
    <3>1. PICK s, count : s = at.sample /\ count = Here.count
      OBVIOUS
    <3>2. s \in 0..(count - 1) /\ Len(part) = count
      BY <1>9, <1>10, <3>1
    <3>3. DOMAIN part = 1..count /\ n \in Int /\ count \in Nat
      BY <1>6, <3>2
    <3>4. s + 1 \in 1..count /\ m + 1 = n + (s + 1)
      BY ONLY <1>11, <3>1, <3>2, <3>3
    <3> QED  BY ONLY <3>1, <3>3, <3>4
  <2>2. AskedFor[case][m + 1] = part[at.sample + 1]
    BY <1>6, <2>1
  <2> QED  BY <1>9, <2>1, <2>2
<1>14. PICK place : Follows(realized[case], AskedFor[case], m, place)
  BY <1>6, <1>12 DEF Realizing
<1>15. /\ IsSeq(realized[case]) /\ IsSeq(added) /\ DOMAIN added = { k \in {1} : valid }
       /\ \A c \in Cases :
            realized'[c] = IF c = case THEN realized[case] \o added ELSE realized[c]
  BY <1>1, <1>2, <1>4, <1>6 DEF TypeOK, RewriteMakes
<1>16. DOMAIN added = 1..Len(added) /\ Len(added) \in Nat
  BY <1>15, ConcatLen
<1>17. /\ valid => Len(added) = 1 /\ DOMAIN added = {1}
       /\ ~ valid => Len(added) = 0 /\ DOMAIN added = {}
  BY <1>15, <1>16
<1>18. \A k \in DOMAIN added : Fits(added[k], AskedFor[case][m + k])
  <2> SUFFICES ASSUME NEW k \in DOMAIN added PROVE Fits(added[k], AskedFor[case][m + k])
    OBVIOUS
  <2>1. valid /\ k = 1
    BY <1>17
  <2>2. /\ added[k].text = new.text /\ added[k].family = Here.type
        /\ new.text \in Rewritings[case] /\ validate(CaseInput[case], new.text)
    BY <1>2, <1>4, <1>8, <2>1 DEF RewriteMakes
  <2> QED  BY <1>13, <2>1, <2>2 DEF Fits, Accepted
<1>19. \E p : Follows(realized[case] \o added, AskedFor[case], m + Len(added), p)
  <2>1. PICK q, slots : q = realized[case] /\ slots = AskedFor[case]
    OBVIOUS
  <2> QED  BY <1>12, <1>14, <1>15, <1>18, <2>1, FollowedByMore
<1>20. CASE MoreAttempts /\ ~ valid
  <2>1. Retry
    BY <1>4, <1>20 DEF RewriteMakes
  <2>2. /\ pc' = "working"
        /\ at'.case = at.case /\ at'.index = at.index /\ at'.sample = at.sample
    BY <1>1, <1>20, <2>1, SampleGoesOn
  <2>3. \A c \in Cases : Reached(c)' = Reached(c)
    BY <2>2 DEF Reached
  <2>4. ASSUME NEW c \in Cases
        PROVE  \E p : Follows(realized'[c], AskedFor[c], Reached(c)', p)
    <3>1. CASE c = case
      <4>1. m + Len(added) = m
        BY <1>12, <1>17, <1>20
      <4> QED  BY <1>12, <1>15, <1>19, <2>3, <3>1, <4>1
    <3>2. CASE c # case
      BY <1>15, <2>3, <3>2 DEF Realizing
    <3> QED  BY <3>1, <3>2
  <2> QED  BY <2>2, <2>4 DEF Realizing
<1>21. CASE ~ (MoreAttempts /\ ~ valid)
  <2>1. NextSample
    BY <1>4, <1>21 DEF RewriteMakes
  <2>2. /\ \A c \in Cases : Reached(c)' = IF c = case THEN m + 1 ELSE Reached(c)
        /\ pc' = "done" => \A c \in Cases : c < at'.case
    <3>1. CASE at.sample + 1 < Here.count
      <4>1. at' = At(case, index, at.sample + 1, 0) /\ pc' = pc
        BY <1>2, <2>1, <3>1 DEF NextSample
      <4>2. at'.case = case /\ at'.index = index /\ at'.sample = at.sample + 1
        BY <4>1 DEF At
      <4>3. ASSUME NEW c \in Cases
            PROVE  Reached(c)' = IF c = case THEN m + 1 ELSE Reached(c)
        <5>1. CASE c = case
          <6>1. ~ (c < case)
            BY <1>6, <5>1, SpecType
          <6>2. Reached(c)' = n + (at.sample + 1)
            BY <1>5, <4>2, <5>1, <6>1 DEF Reached
          <6>3. n + (at.sample + 1) = m + 1
            BY <1>6, <1>11
          <6> QED  BY <5>1, <6>2, <6>3
        <5>2. CASE c # case
          BY <1>2, <4>2, <5>2 DEF Reached
        <5> QED  BY <5>1, <5>2
      <4> QED  BY <1>1, <4>1, <4>3
    <3>2. CASE ~ (at.sample + 1 < Here.count)
      <4>1. Onward
        BY <2>1, <3>2 DEF NextSample
      <4>2. EndOf(case)[index] = m + 1
        BY <1>6, <1>9, <1>10, <1>11, <3>2
      <4> QED  BY <1>1, <1>2, <4>1, <4>2, OnwardReaches
    <3> QED  BY <3>1, <3>2
  <2>3. \E p : Follows(realized[case] \o added, AskedFor[case], m + 1, p)
    <3>1. CASE valid
      BY <1>17, <1>19, <3>1
    <3>2. CASE ~ valid
      <4>1. PICK p : Follows(realized[case] \o added, AskedFor[case], m, p)
        <5>1. m + Len(added) = m
          BY <1>12, <1>17, <3>2
        <5> QED  BY <1>19, <5>1
      <4> QED  BY <1>12, <1>13, <4>1, FollowedByNone
    <3> QED  BY <3>1, <3>2
  <2>4. ASSUME NEW c \in Cases
        PROVE  \E p : Follows(realized'[c], AskedFor[c], Reached(c)', p)
    <3>1. CASE c = case
      BY <1>15, <2>2, <2>3, <3>1
    <3>2. CASE c # case
      BY <1>15, <2>2, <3>2 DEF Realizing
    <3> QED  BY <3>1, <3>2
  <2> QED  BY <2>2, <2>4 DEF Realizing
<1> QED  BY <1>20, <1>21

LEMMA RealizingStep == MaterializerInv /\ Realizing /\ [Next]_vars => Realizing'
<1> SUFFICES ASSUME MaterializerInv, Realizing, [Next]_vars PROVE Realizing'
  OBVIOUS
<1>1. CASE ApplyLocal
  BY <1>1, LocalRealizes
<1>2. CASE Rewrite
  BY <1>2, RewriteRealizes
<1>3. CASE RewriteRaises
  BY <1>3 DEF RewriteRaises, Realizing, Reached
<1>4. CASE UNCHANGED vars
  BY <1>4 DEF vars, Realizing, Reached
<1> QED  BY <1>1, <1>2, <1>3, <1>4 DEF Next

LEMMA RealizingInvariant == Spec => [](MaterializerInv /\ Realizing)
<1>1. Init => MaterializerInv /\ Realizing
  BY InitMaterializer, InitRealizing
<1>2. MaterializerInv /\ Realizing /\ [Next]_vars => (MaterializerInv /\ Realizing)'
  BY MaterializerStep, RealizingStep
<1> QED  BY <1>1, <1>2, PTL DEF Spec

(* What is returned of a case fills the slots that were kept. *)
InputsOf(q) == [ i \in DOMAIN q |-> [family |-> q[i].family, prompt |-> q[i].text] ]
Fills(c, r) == \E kept \in Contract!Keepable(c) : r \in Contract!Filled(c, kept)

LEMMA FollowedIsFilled ==
  ASSUME NEW c \in Cases, NEW q, IsSeq(q), NEW place,
         Follows(q, AskedFor[c], Len(AskedFor[c]), place)
  PROVE  Fills(c, InputsOf(q))
<1>1. PICK slots, n : slots = AskedFor[c] /\ n = Len(slots)
  OBVIOUS
<1>2. IsSeq(slots) /\ DOMAIN slots = 1..n /\ n \in Nat
  BY <1>1, AskedForEnds, ConcatLen
<1>3. PICK kept : KeptIn(q, slots, place, kept)
  BY <1>1, <1>2, FollowedIsKept
<1>4. /\ Cardinality(kept) = Len(q)
      /\ \A i \in DOMAIN q : Contract!Nth(kept, i) = place[i]
      /\ kept \subseteq DOMAIN slots
      /\ \A s \in DOMAIN slots \ kept : slots[s].llm
  BY <1>3 DEF KeptIn
<1>5. DOMAIN q = 1..Len(q)
  BY ConcatLen
<1>6. kept \in Contract!Keepable(c)
  <2> DEFINE dropped == DOMAIN slots \ kept
  <2>1. dropped \in SUBSET { s \in DOMAIN slots : slots[s].llm }
    BY <1>4
  <2>2. kept = DOMAIN slots \ dropped
    BY <1>4
  <2> HIDE DEF dropped
  <2> QED  BY <1>1, <2>1, <2>2 DEF Contract!Keepable
<1> DEFINE Input(i) == [family |-> q[i].family, prompt |-> q[i].text]
           r == [ i \in DOMAIN q |-> Input(i) ]
<1>7. ASSUME NEW i \in DOMAIN q
      PROVE  /\ r[i].family = slots[Contract!Nth(kept, i)].family
             /\ r[i].prompt \in slots[Contract!Nth(kept, i)].texts
             /\ r[i] \in Contract!Asked(c)
  <2>1. r[i] = Input(i) /\ r[i].family = q[i].family /\ r[i].prompt = q[i].text
    OBVIOUS
  <2>2. q[i].family = slots[place[i]].family /\ q[i].text \in slots[place[i]].texts
    BY <1>1 DEF Follows, Fits
  <2>3. place[i] \in DOMAIN slots
    BY <1>3, <1>4 DEF KeptIn
  <2>4. Input(i) = [family |-> slots[place[i]].family, prompt |-> q[i].text]
    BY <2>2
  <2>5. Input(i) \in Contract!Asked(c)
    BY <1>1, <2>2, <2>3, <2>4 DEF Contract!Asked
  <2> QED  BY <1>4, <2>1, <2>2, <2>5
<1>8. r \in [DOMAIN q -> Contract!Asked(c)]
  BY <1>7
<1>9. DOMAIN q = 1..Contract!Cardinality(kept)
  BY <1>4, <1>5, ContractCounts
<1>10. DOMAIN r = DOMAIN q
  OBVIOUS
<1> HIDE DEF r
<1>11. r \in Contract!Filled(c, kept)
  BY <1>1, <1>7, <1>8, <1>9, <1>10 DEF Contract!Filled
<1> QED  BY <1>6, <1>11 DEF r, Fills, InputsOf

LEMMA DoneIsFilled ==
  ASSUME MaterializerInv', Realizing', pc' = "done"
  PROVE  DOMAIN Returned' = Contract!Cases /\ \A c \in Contract!Cases : Fills(c, Returned'[c])
<1>1. Cases = Contract!Cases
  BY SpecType DEF Contract!Cases
<1>2. ASSUME NEW c \in Cases PROVE Fills(c, Returned'[c])
  <2>1. Reached(c)' = Len(AskedFor[c])
    BY DEF Realizing, Reached
  <2>2. PICK q : q = realized'[c]
    OBVIOUS
  <2>3. PICK place : Follows(q, AskedFor[c], Len(AskedFor[c]), place)
    BY <2>1, <2>2 DEF Realizing
  <2>4. IsSeq(q)
    BY <2>2 DEF MaterializerInv, TypeOK
  <2>5. Returned'[c] = InputsOf(q)
    BY <2>2 DEF Returned, InputsOf
  <2> QED  BY <2>3, <2>4, <2>5, FollowedIsFilled
<1>3. DOMAIN Returned' = Cases
  BY DEF Returned
<1> QED  BY <1>1, <1>2, <1>3

(* materialize() returns at most once, and a whole realization of the spec *)
(* (the inputs its perturbations ask for, in their order, less the         *)
(* rewrites that missed the gate), or raises and shows nothing: the steps  *)
(* of ImplementsRealization, all of it but that materialize() ends.        *)
THEOREM RealizesOnce ==
  Spec => Contract!Init /\ [][Contract!Next]_<<Outcome, Returned>>
<1>1. ASSUME Init PROVE Contract!Init
  <2>1. pc = "working"
    BY <1>1 DEF Init
  <2>2. Cases = Contract!Cases
    BY SpecType DEF Contract!Cases
  <2> QED  BY <2>1, <2>2 DEF Contract!Init, Contract!Unrealized, Outcome, Returned
<1>2. ASSUME MaterializerInv, Realizing, MaterializerInv', Realizing', [Next]_vars
      PROVE  [Contract!Next]_<<Outcome, Returned>>
  <2>1. CASE UNCHANGED vars
    BY <2>1 DEF vars, Outcome, Returned
  <2>2. CASE Next
    <3>1. pc = "working"
      BY <2>2 DEF Next, ApplyLocal, Rewrite, RewriteRaises
    <3>2. Outcome = "working" /\ Returned = [c \in Cases |-> <<>>]
      BY <3>1 DEF Outcome, Returned
    <3>3. CASE pc' = "working"
      BY <3>2, <3>3 DEF Outcome, Returned
    <3>4. CASE pc' = "done"
      <4>1. /\ DOMAIN Returned' = Contract!Cases
            /\ \A c \in Contract!Cases :
                 \E kept \in Contract!Keepable(c) : Returned'[c] \in Contract!Filled(c, kept)
        BY <1>2, <3>4, DoneIsFilled DEF Fills
      <4>2. Outcome' = "returned"
        BY <3>4 DEF Outcome
      <4> QED  BY <3>2, <4>1, <4>2 DEF Contract!Next, Contract!Return
    <3>5. CASE pc' = "failed"
      <4>1. Outcome' = "raised" /\ Returned' = [c \in Cases |-> <<>>]
        BY <3>5 DEF Outcome, Returned
      <4> QED  BY <3>2, <4>1 DEF Contract!Next, Contract!Raise
    <3>6. pc' \in {"working", "done", "failed"}
      BY <1>2 DEF MaterializerInv, TypeOK
    <3> QED  BY <3>3, <3>4, <3>5, <3>6
  <2> QED  BY <1>2, <2>1, <2>2
<1> QED  BY <1>1, <1>2, RealizingInvariant, PTL DEF Spec

(* Should materialize() end, which fairness sees to (a run checks it), it  *)
(* keeps the whole of its contract.                                        *)
THEOREM EndingKeepsContract == Spec /\ Contract!Ends => ImplementsRealization
BY RealizesOnce, PTL DEF ImplementsRealization, Contract!Spec

-----------------------------------------------------------------------------
(* A pass over a text *)

(* The ways on from position i, given those from later positions.          *)
Via(e, ways) ==
  { [text |-> e.put \o r.text, mutations |-> e.cost + r.mutations] : r \in ways }

WaysFrom(edits, from, i) ==
  IF i > Len(edits)
  THEN {[text |-> <<>>, mutations |-> 0]}
  ELSE UNION { Via(e, from[i + e.uses]) : e \in edits[i] }

Rewriting(edits, from) == \A i \in 1..(Len(edits) + 1) : from[i] = WaysFrom(edits, from, i)

(* Every edit goes on, and not beyond the end.                             *)
GoesOn(edits) ==
  /\ Len(edits) \in Nat
  /\ \A i \in 1..Len(edits) : \A e \in edits[i] :
       e.uses \in Nat \ {0} /\ i + e.uses <= Len(edits) + 1

LEMMA WaysAgree ==
  ASSUME NEW edits, GoesOn(edits), NEW i \in 1..(Len(edits) + 1), NEW g, NEW h,
         \A j \in 1..(Len(edits) + 1) : j > i => g[j] = h[j]
  PROVE  WaysFrom(edits, g, i) = WaysFrom(edits, h, i)
<1>1. CASE i > Len(edits)
  BY <1>1 DEF WaysFrom
<1>2. CASE i <= Len(edits)
  <2>1. ~ (i > Len(edits)) /\ i \in 1..Len(edits)
    BY <1>2 DEF GoesOn
  <2>2. \A e \in edits[i] : g[i + e.uses] = h[i + e.uses]
    BY <2>1 DEF GoesOn
  <2> QED  BY <2>1, <2>2 DEF WaysFrom
<1> QED  BY <1>1, <1>2 DEF GoesOn

LEMMA RewritingSteps ==
  ASSUME NEW edits, GoesOn(edits)
  PROVE  \E from : Rewriting(edits, from) /\ Rewritten(edits) = from[1]
<1> DEFINE n == Len(edits)
           F(g, k) == [i \in (n + 1 - k)..(n + 1) |-> WaysFrom(edits, g, i)]
           S == { k \in Nat : k <= n => \E g : g = F(g, k) }
<1>0. n \in Nat
  BY DEF GoesOn
<1>1. 0 \in S
  <2> DEFINE g == [i \in (n + 1 - 0)..(n + 1) |-> {[text |-> <<>>, mutations |-> 0]}]
  <2>1. \A i \in (n + 1 - 0)..(n + 1) : WaysFrom(edits, g, i) = {[text |-> <<>>, mutations |-> 0]}
    <3> SUFFICES ASSUME NEW i \in (n + 1 - 0)..(n + 1)
                 PROVE  WaysFrom(edits, g, i) = {[text |-> <<>>, mutations |-> 0]}
      OBVIOUS
    <3>1. i > Len(edits)
      BY <1>0
    <3> QED  BY <3>1 DEF WaysFrom
  <2>2. g = F(g, 0)
    BY <2>1
  <2> HIDE DEF g, F
  <2> QED  BY <2>2
<1>2. ASSUME NEW k \in Nat, k \in S PROVE k + 1 \in S
  <2> SUFFICES ASSUME k + 1 <= n PROVE \E g : g = F(g, k + 1)
    OBVIOUS
  <2>1. PICK g : g = F(g, k)
    BY <1>0, <1>2
  <2>2. PICK lo : lo = n - k
    OBVIOUS
  <2>3. /\ lo \in 1..n /\ n + 1 - (k + 1) = lo /\ n + 1 - k = lo + 1
        /\ lo..(n + 1) = {lo} \cup (lo + 1)..(n + 1)
    BY <1>0, <2>2
  <2>4. \A i \in (lo + 1)..(n + 1) : g[i] = WaysFrom(edits, g, i)
    BY <2>1, <2>3
  <2> DEFINE h == [i \in lo..(n + 1) |-> IF i = lo THEN WaysFrom(edits, g, lo) ELSE g[i]]
  <2>5. h[lo] = WaysFrom(edits, g, lo) /\ \A j \in (lo + 1)..(n + 1) : h[j] = g[j]
    BY <2>3
  <2>6. h = [i \in lo..(n + 1) |-> h[i]]
    OBVIOUS
  <2> HIDE DEF h
  <2>7. ASSUME NEW i \in lo..(n + 1) PROVE h[i] = WaysFrom(edits, h, i)
    <3>1. WaysFrom(edits, h, i) = WaysFrom(edits, g, i)
      <4>1. i \in 1..(n + 1)
        BY <1>0, <2>3
      <4>2. \A j \in 1..(n + 1) : j > i => h[j] = g[j]
        BY <1>0, <2>3, <2>5
      <4> QED  BY <4>1, <4>2, WaysAgree
    <3>2. h[i] = WaysFrom(edits, g, i)
      BY <2>3, <2>4, <2>5
    <3> QED  BY <3>1, <3>2
  <2>8. h = F(h, k + 1)
    BY <2>3, <2>6, <2>7
  <2> HIDE DEF F
  <2> QED  BY <2>8
<1>3. n \in S
  <2> HIDE DEF S
  <2> QED  BY <1>0, <1>1, <1>2, FromZeroOn
<1>4. n + 1 - n = 1
  BY <1>0
<1> DEFINE G(g) == [i \in 1..(n + 1) |-> WaysFrom(edits, g, i)]
           from == CHOOSE g : g = G(g)
<1>5. \E g : g = G(g)
  BY <1>0, <1>3, <1>4
<1>6. from = G(from)
  <2> HIDE DEF G
  <2> QED  BY <1>5
<1>7. Rewritten(edits) = from[1]
  BY DEF Rewritten, WaysFrom, Via
<1> HIDE DEF from
<1>8. Rewriting(edits, from)
  BY <1>6 DEF Rewriting
<1> QED  BY <1>7, <1>8

(* What a pass may end with, by induction on the positions: T relates the  *)
(* next position to the texts that may be written by then, and to their    *)
(* mutation counts.                                                        *)
Passes(edits, C, T) ==
  /\ <<1, <<>>, 0>> \in T
  /\ \A i \in 1..Len(edits) : \A e \in edits[i] :
       \A p \in Seq(C), m \in Nat :
         <<i, p, m>> \in T => <<i + e.uses, p \o e.put, m + e.cost>> \in T

EditsOver(edits, C) ==
  \A i \in 1..Len(edits) : \A e \in edits[i] : e.put \in Seq(C) /\ e.cost \in Nat

EndsIn(T, n, C, ways, i) ==
  \A r \in ways :
    /\ r.text \in Seq(C) /\ r.mutations \in Nat
    /\ \A p \in Seq(C), m \in Nat :
         <<i, p, m>> \in T => <<n + 1, p \o r.text, m + r.mutations>> \in T

LEMMA PassGoesOn ==
  ASSUME NEW edits, GoesOn(edits), NEW C, EditsOver(edits, C), NEW T, Passes(edits, C, T),
         NEW from, Rewriting(edits, from), NEW i \in 1..Len(edits),
         \A j \in 1..(Len(edits) + 1) : j > i => EndsIn(T, Len(edits), C, from[j], j)
  PROVE  EndsIn(T, Len(edits), C, from[i], i)
<1> DEFINE n == Len(edits)
<1> SUFFICES ASSUME NEW x \in from[i]
             PROVE  /\ x.text \in Seq(C) /\ x.mutations \in Nat
                    /\ \A p \in Seq(C), m \in Nat :
                         <<i, p, m>> \in T => <<n + 1, p \o x.text, m + x.mutations>> \in T
  BY DEF EndsIn
<1>1. n \in Nat /\ i \in 1..(n + 1) /\ ~ (i > n)
  BY DEF GoesOn
<1>2. PICK e \in edits[i] : \E r \in from[i + e.uses] :
        x = [text |-> e.put \o r.text, mutations |-> e.cost + r.mutations]
  <2>1. from[i] = UNION { Via(e, from[i + e.uses]) : e \in edits[i] }
    BY <1>1 DEF Rewriting, WaysFrom
  <2>2. PICK e \in edits[i] : x \in Via(e, from[i + e.uses])
    BY <2>1
  <2> QED  BY <2>2 DEF Via
<1>3. PICK r \in from[i + e.uses] :
        x = [text |-> e.put \o r.text, mutations |-> e.cost + r.mutations]
  BY <1>2
<1>4. PICK j : j = i + e.uses
  OBVIOUS
<1>5. j \in 1..(n + 1) /\ j > i
  BY <1>1, <1>4 DEF GoesOn
<1>6. EndsIn(T, n, C, from[j], j)
  BY <1>5
<1>7. /\ r.text \in Seq(C) /\ r.mutations \in Nat
      /\ \A p \in Seq(C), m \in Nat :
           <<j, p, m>> \in T => <<n + 1, p \o r.text, m + r.mutations>> \in T
  BY <1>3, <1>4, <1>6 DEF EndsIn
<1>8. e.put \in Seq(C) /\ e.cost \in Nat
  BY DEF EditsOver
<1>9. PICK put, cost, rest, more :
        put = e.put /\ cost = e.cost /\ rest = r.text /\ more = r.mutations
  OBVIOUS
<1>10. x.text = put \o rest /\ x.mutations = cost + more
  BY <1>3, <1>9
<1>11. ASSUME NEW p \in Seq(C), NEW m \in Nat, <<i, p, m>> \in T
       PROVE  <<n + 1, p \o x.text, m + x.mutations>> \in T
  <2>1. <<j, p \o put, m + cost>> \in T
    BY <1>4, <1>9, <1>11 DEF Passes
  <2>2. p \o put \in Seq(C) /\ m + cost \in Nat
    BY <1>8, <1>9
  <2>3. <<n + 1, (p \o put) \o rest, (m + cost) + more>> \in T
    <3>1. PICK pp, mm : pp = p \o put /\ mm = m + cost
      OBVIOUS
    <3>2. pp \in Seq(C) /\ mm \in Nat /\ <<j, pp, mm>> \in T
      BY ONLY <2>1, <2>2, <3>1
    <3>3. <<n + 1, pp \o rest, mm + more>> \in T
      BY <1>7, <1>9, <3>2
    <3> QED  BY ONLY <3>1, <3>3
  <2>4. (p \o put) \o rest = p \o (put \o rest)
    <3>1. p \in Seq(C) /\ put \in Seq(C) /\ rest \in Seq(C)
      BY <1>7, <1>8, <1>9
    <3> QED  BY ONLY <3>1
  <2>5. (m + cost) + more = m + (cost + more)
    BY <1>7, <1>8, <1>9
  <2> QED  BY <1>10, <2>3, <2>4, <2>5
<1>12. x.text \in Seq(C) /\ x.mutations \in Nat
  BY <1>7, <1>8, <1>9, <1>10
<1> QED  BY <1>11, <1>12

LEMMA PassEnds ==
  ASSUME NEW edits, GoesOn(edits), NEW C, EditsOver(edits, C), NEW T, Passes(edits, C, T),
         NEW o \in Rewritten(edits)
  PROVE  /\ o.text \in Seq(C) /\ o.mutations \in Nat
         /\ <<Len(edits) + 1, o.text, o.mutations>> \in T
<1> DEFINE n == Len(edits)
<1>0. n \in Nat
  BY DEF GoesOn
<1>1. PICK from : Rewriting(edits, from) /\ Rewritten(edits) = from[1]
  BY RewritingSteps
<1> DEFINE Good(i) == EndsIn(T, n, C, from[i], i)
           S == { k \in Nat : \A i \in 1..(n + 1) : i >= n + 1 - k => Good(i) }
<1>2. 0 \in S
  <2> SUFFICES Good(n + 1)
    BY <1>0
  <2>1. from[n + 1] = {[text |-> <<>>, mutations |-> 0]}
    <3>1. n + 1 \in 1..(n + 1) /\ n + 1 > n
      BY <1>0
    <3> QED  BY <1>1, <3>1 DEF Rewriting, WaysFrom
  <2>2. ASSUME NEW r \in from[n + 1]
        PROVE  /\ r.text \in Seq(C) /\ r.mutations \in Nat
               /\ \A p \in Seq(C), m \in Nat : p \o r.text = p /\ m + r.mutations = m
    <3>1. r = [text |-> <<>>, mutations |-> 0]
      BY <2>1
    <3>2. r.text = <<>> /\ r.mutations = 0
      BY <3>1
    <3> QED  BY <3>2
  <2>3. \A r \in from[n + 1] :
          /\ r.text \in Seq(C) /\ r.mutations \in Nat
          /\ \A p \in Seq(C), m \in Nat :
               <<n + 1, p, m>> \in T => <<n + 1, p \o r.text, m + r.mutations>> \in T
    BY <2>2
  <2> QED  BY <2>3 DEF EndsIn
<1>3. ASSUME NEW k \in Nat, k \in S PROVE k + 1 \in S
  <2> SUFFICES ASSUME NEW i \in 1..(n + 1), i >= n + 1 - (k + 1) PROVE Good(i)
    OBVIOUS
  <2>1. \A j \in 1..(n + 1) : j >= n + 1 - k => Good(j)
    BY <1>3
  <2> HIDE DEF Good
  <2>2. CASE i >= n + 1 - k
    BY <2>1, <2>2
  <2>3. CASE i < n + 1 - k
    <3>1. i \in 1..n /\ \A j \in 1..(n + 1) : j > i => j >= n + 1 - k
      BY <1>0, <2>3
    <3>2. \A j \in 1..(n + 1) : j > i => Good(j)
      BY <2>1, <3>1
    <3> QED  BY <1>1, <3>1, <3>2, PassGoesOn DEF Good
  <2> QED  BY <1>0, <2>2, <2>3
<1>4. n \in S
  <2> HIDE DEF S
  <2> QED  BY <1>0, <1>2, <1>3, FromZeroOn
<1>5. EndsIn(T, n, C, from[1], 1)
  BY <1>0, <1>4
<1>6. /\ o.text \in Seq(C) /\ o.mutations \in Nat
      /\ <<n + 1, <<>> \o o.text, 0 + o.mutations>> \in T
  <2>1. o \in from[1] /\ <<>> \in Seq(C) /\ 0 \in Nat /\ <<1, <<>>, 0>> \in T
    BY <1>1 DEF Passes
  <2> QED  BY <1>5, <2>1 DEF EndsIn
<1>7. <<>> \o o.text = o.text /\ 0 + o.mutations = o.mutations
  BY <1>6
<1> QED  BY <1>6, <1>7

-----------------------------------------------------------------------------
(* The edit distance *)

(* A function on 0..n that goes from each value to the next by a step.     *)
Iterates(g, n, V, x, f) ==
  g \in [0..n -> V] /\ g[0] = x /\ \A i \in 1..n : g[i] = f[<<g[i - 1], i>>]

LEMMA Iteration ==
  ASSUME NEW n \in Nat, NEW V, NEW x \in V, NEW f \in [V \X (1..n) -> V]
  PROVE  \E g : Iterates(g, n, V, x, f)
<1> DEFINE Good(g, k) ==
             /\ g \in [0..k -> V] /\ g[0] = x
             /\ \A i \in 1..k : g[i] = f[<<g[i - 1], i>>]
           S == { k \in Nat : k <= n => \E g : Good(g, k) }
<1>1. 0 \in S
  <2> DEFINE g == [i \in 0..0 |-> x]
  <2>1. Good(g, 0)
    OBVIOUS
  <2> HIDE DEF g, Good
  <2> QED  BY <2>1
<1>2. ASSUME NEW k \in Nat, k \in S PROVE k + 1 \in S
  <2> SUFFICES ASSUME k + 1 <= n PROVE \E g : Good(g, k + 1)
    OBVIOUS
  <2>1. PICK g : Good(g, k)
    BY <1>2
  <2>2. f[<<g[k], k + 1>>] \in V
    BY <2>1
  <2> DEFINE h == [i \in 0..(k + 1) |-> IF i = k + 1 THEN f[<<g[k], k + 1>>] ELSE g[i]]
  <2>3. h[k + 1] = f[<<g[k], k + 1>>] /\ \A i \in 0..k : h[i] = g[i]
    OBVIOUS
  <2>4. h \in [0..(k + 1) -> V]
    BY <2>1, <2>2
  <2> HIDE DEF h
  <2>5. h[0] = x
    BY <2>1, <2>3
  <2>6. ASSUME NEW i \in 1..(k + 1) PROVE h[i] = f[<<h[i - 1], i>>]
    <3>1. CASE i = k + 1
      <4>1. i - 1 = k /\ k \in 0..k
        BY <3>1
      <4> QED  BY <2>3, <3>1, <4>1
    <3>2. CASE i # k + 1
      <4>1. i \in 1..k /\ i \in 0..k /\ i - 1 \in 0..k
        BY <3>2
      <4> QED  BY <2>1, <2>3, <4>1
    <3> QED  BY <3>1, <3>2
  <2>7. Good(h, k + 1)
    BY <2>4, <2>5, <2>6
  <2> HIDE DEF Good
  <2> QED  BY <2>7
<1>3. n \in S
  <2> HIDE DEF S
  <2> QED  BY <1>1, <1>2, FromZeroOn
<1> QED  BY <1>3 DEF Iterates

(* The entries of a row, and what bounds them. *)
Entry(previous, ca, b, v, j) ==
  Least(Least(previous[j] + 1, v + 1), previous[j - 1] + (IF ca = b[j] THEN 0 ELSE 1))

IsNextRow(previous, i, ca, b, row) ==
  /\ row \in [0..Len(b) -> Nat] /\ row[0] = i
  /\ \A j \in 1..Len(b) :
       /\ row[j] <= previous[j] + 1 /\ row[j] <= row[j - 1] + 1
       /\ row[j] <= previous[j - 1] + 1
       /\ ca = b[j] => row[j] <= previous[j - 1]

LEMMA NextRow ==
  ASSUME NEW b, Len(b) \in Nat, NEW previous \in [0..Len(b) -> Nat], NEW i \in Nat, NEW ca
  PROVE  IsNextRow(previous, i, ca, b, next_row(previous, i, ca, b))
<1> DEFINE m == Len(b)
           f == [x \in Nat \X (1..m) |-> Entry(previous, ca, b, x[1], x[2])]
           Step(g, j) == IF j = 0 THEN i ELSE Entry(previous, ca, b, g[j - 1], j)
           F(g) == [j \in 0..m |-> Step(g, j)]
<1>1. ASSUME NEW v \in Nat, NEW j \in 1..m
      PROVE  LET e == Entry(previous, ca, b, v, j)
             IN /\ e \in Nat /\ e <= previous[j] + 1 /\ e <= v + 1 /\ e <= previous[j - 1] + 1
                /\ ca = b[j] => e <= previous[j - 1]
  <2>1. previous[j] \in Nat /\ previous[j - 1] \in Nat
    OBVIOUS
  <2> QED  BY <2>1 DEF Entry, Least
<1>2. f \in [Nat \X (1..m) -> Nat] /\ \A v \in Nat, j \in 1..m : f[<<v, j>>] = Entry(previous, ca, b, v, j)
  <2>1. \A v \in Nat, j \in 1..m : Entry(previous, ca, b, v, j) \in Nat
    BY <1>1
  <2> HIDE DEF m
  <2>2. ASSUME NEW x \in Nat \X (1..m) PROVE Entry(previous, ca, b, x[1], x[2]) \in Nat
    BY ONLY <2>1, <2>2
  <2> QED  BY ONLY <2>2
<1> HIDE DEF f
<1>3. PICK g \in [0..m -> Nat] : g[0] = i /\ \A j \in 1..m : g[j] = f[<<g[j - 1], j>>]
  <2>1. m \in Nat /\ i \in Nat
    OBVIOUS
  <2>2. PICK g : Iterates(g, m, Nat, i, f)
    <3> HIDE DEF m
    <3> QED  BY <1>2, <2>1, Iteration
  <2> QED  BY <2>2 DEF Iterates
<1>4. g = F(g)
  <2>1. ASSUME NEW j \in 0..m PROVE g[j] = Step(g, j)
    <3>1. CASE j = 0
      BY <1>3, <3>1
    <3>2. CASE j # 0
      <4>1. j \in 1..m /\ g[j - 1] \in Nat
        BY <3>2
      <4> QED  BY <1>2, <1>3, <3>2, <4>1
    <3> QED  BY <3>1, <3>2
  <2> HIDE DEF Step
  <2> QED  BY <2>1
<1> DEFINE row == CHOOSE h : h = F(h)
<1>5. row = F(row)
  <2> HIDE DEF F
  <2> QED  BY <1>4
<1>6. next_row(previous, i, ca, b) = row
  BY DEF next_row, Entry
<1> HIDE DEF row
<1>7. /\ DOMAIN row = 0..m /\ row[0] = i /\ row = [j \in 0..m |-> row[j]]
      /\ \A j \in 1..m : row[j] = Entry(previous, ca, b, row[j - 1], j)
  <2>1. \A j \in 0..m : row[j] = Step(row, j)
    <3> HIDE DEF Step
    <3> QED  BY <1>5
  <2>2. DOMAIN row = 0..m /\ row = [j \in 0..m |-> row[j]]
    BY <1>5
  <2>3. row[0] = i
    BY <2>1
  <2>4. ASSUME NEW j \in 1..m PROVE row[j] = Entry(previous, ca, b, row[j - 1], j)
    <3>1. j \in 0..m /\ j # 0
      OBVIOUS
    <3> QED  BY <2>1, <3>1
  <2> QED  BY <2>2, <2>3, <2>4
<1>8. ASSUME NEW k \in Nat, k <= m PROVE row[k] \in Nat
  <2> DEFINE S == { l \in Nat : l <= m => row[l] \in Nat }
  <2>1. 0 \in S
    BY <1>7
  <2>2. ASSUME NEW l \in Nat, l \in S PROVE l + 1 \in S
    <3> SUFFICES ASSUME l + 1 <= m PROVE row[l + 1] \in Nat
      OBVIOUS
    <3>1. row[l] \in Nat /\ l + 1 \in 1..m /\ (l + 1) - 1 = l
      BY <2>2
    <3>2. row[l + 1] = Entry(previous, ca, b, row[l], l + 1)
      BY <1>7, <3>1
    <3> QED  BY <1>1, <3>1, <3>2
  <2>3. k \in S
    <3> HIDE DEF S
    <3> QED  BY <2>1, <2>2, FromZeroOn
  <2> QED  BY <1>8, <2>3
<1>9. row \in [0..m -> Nat]
  <2>1. \A j \in 0..m : row[j] \in Nat
    BY <1>8
  <2> QED  BY <1>7, <2>1
<1>10. ASSUME NEW j \in 1..m
       PROVE  /\ row[j] <= previous[j] + 1 /\ row[j] <= row[j - 1] + 1
              /\ row[j] <= previous[j - 1] + 1
              /\ ca = b[j] => row[j] <= previous[j - 1]
  <2>1. PICK v : v = row[j - 1] /\ v \in Nat
    BY <1>9
  <2>2. row[j] = Entry(previous, ca, b, v, j)
    BY <1>7, <2>1
  <2> QED  BY <1>1, <2>1, <2>2
<1> QED  BY <1>6, <1>7, <1>9, <1>10 DEF IsNextRow

(* The rows of a from those of b. *)
IsTable(row, a, b) ==
  /\ row \in [0..Len(a) -> [0..Len(b) -> Nat]]
  /\ row[0] = [j \in 0..Len(b) |-> j]
  /\ \A i \in 1..Len(a) : IsNextRow(row[i - 1], i, a[i], b, row[i])

LEMMA RowsAreTable ==
  ASSUME NEW a, NEW b, Len(a) \in Nat, Len(b) \in Nat
  PROVE  IsTable(rows(a, b), a, b)
<1> DEFINE n == Len(a)
           V == [0..Len(b) -> Nat]
           first == [j \in 0..Len(b) |-> j]
           f == [x \in V \X (1..n) |-> next_row(x[1], x[2], a[x[2]], b)]
           Step(g, i) == IF i = 0 THEN first ELSE next_row(g[i - 1], i, a[i], b)
           F(g) == [i \in 0..n |-> Step(g, i)]
<1>1. ASSUME NEW v \in V, NEW i \in 1..n
      PROVE  next_row(v, i, a[i], b) \in V /\ IsNextRow(v, i, a[i], b, next_row(v, i, a[i], b))
  <2>1. i \in Nat
    OBVIOUS
  <2>2. IsNextRow(v, i, a[i], b, next_row(v, i, a[i], b))
    BY <2>1, NextRow
  <2> QED  BY <2>2 DEF IsNextRow
<1>2. first \in V
  OBVIOUS
<1> HIDE DEF V, first
<1>3. f \in [V \X (1..n) -> V] /\ \A v \in V, i \in 1..n : f[<<v, i>>] = next_row(v, i, a[i], b)
  BY <1>1
<1> HIDE DEF f
<1>4. PICK g : Iterates(g, n, V, first, f)
  <2>1. n \in Nat
    OBVIOUS
  <2> HIDE DEF n
  <2> QED  BY <1>2, <1>3, <2>1, Iteration
<1>5. g = F(g)
  <2>1. ASSUME NEW i \in 0..n PROVE g[i] = Step(g, i)
    <3>1. CASE i = 0
      BY <1>4, <3>1 DEF Iterates
    <3>2. CASE i # 0
      <4>1. i \in 1..n /\ g[i - 1] \in V
        BY <1>4, <3>2 DEF Iterates
      <4> QED  BY <1>3, <1>4, <3>2, <4>1 DEF Iterates
    <3> QED  BY <3>1, <3>2
  <2> HIDE DEF Step
  <2>2. g = [i \in 0..n |-> g[i]]
    BY <1>4 DEF Iterates
  <2> QED  BY <2>1, <2>2
<1> DEFINE row == CHOOSE h : h = F(h)
<1>6. row = F(row)
  <2> HIDE DEF F
  <2> QED  BY <1>5
<1>7. rows(a, b) = row
  BY DEF rows, first
<1> HIDE DEF row
<1>8. /\ row[0] = first /\ row = [i \in 0..n |-> row[i]]
      /\ \A i \in 1..n : row[i] = next_row(row[i - 1], i, a[i], b)
  <2>1. \A i \in 0..n : row[i] = Step(row, i)
    <3> HIDE DEF Step
    <3> QED  BY <1>6
  <2>2. row = [i \in 0..n |-> row[i]]
    <3> HIDE DEF Step
    <3> QED  BY <1>6
  <2>3. row[0] = first
    BY <2>1
  <2>4. ASSUME NEW i \in 1..n PROVE row[i] = next_row(row[i - 1], i, a[i], b)
    <3>1. i \in 0..n /\ i # 0
      OBVIOUS
    <3> QED  BY <2>1, <3>1
  <2> QED  BY <2>2, <2>3, <2>4
<1> DEFINE S == { k \in Nat : k <= n => row[k] \in V }
<1>9. 0 \in S
  BY <1>2, <1>8
<1>10. ASSUME NEW k \in Nat, k \in S PROVE k + 1 \in S
  <2> SUFFICES ASSUME k + 1 <= n PROVE row[k + 1] \in V
    OBVIOUS
  <2>1. row[k] \in V /\ k + 1 \in 1..n /\ (k + 1) - 1 = k
    BY <1>10
  <2>2. row[k + 1] = next_row(row[k], k + 1, a[k + 1], b)
    BY <1>8, <2>1
  <2> QED  BY <1>1, <2>1, <2>2
<1>11. Nat \subseteq S
  <2> HIDE DEF S
  <2> QED  BY <1>9, <1>10, FromZeroOn
<1>12. \A i \in 0..n : row[i] \in V
  BY <1>11
<1>13. row \in [0..n -> V]
  BY <1>8, <1>12
<1>14. ASSUME NEW i \in 1..n PROVE IsNextRow(row[i - 1], i, a[i], b, row[i])
  <2>1. row[i - 1] \in V
    BY <1>12
  <2> QED  BY <1>1, <1>8, <2>1
<1> QED  BY <1>7, <1>8, <1>13, <1>14 DEF IsTable, V, first

(* What bounds the distances of the prefixes of a and b. *)
Distances(d, a, b) ==
  /\ d \in [(0..Len(a)) \X (0..Len(b)) -> Nat] /\ d[<<0, 0>>] = 0
  /\ \A i \in 1..Len(a), j \in 0..Len(b) : d[<<i, j>>] <= d[<<i - 1, j>>] + 1
  /\ \A i \in 0..Len(a), j \in 1..Len(b) : d[<<i, j>>] <= d[<<i, j - 1>>] + 1
  /\ \A i \in 1..Len(a), j \in 1..Len(b) :
       /\ d[<<i, j>>] <= d[<<i - 1, j - 1>>] + 1
       /\ a[i] = b[j] => d[<<i, j>>] <= d[<<i - 1, j - 1>>]

LEMMA TableBounds ==
  ASSUME NEW a, NEW b, Len(a) \in Nat, Len(b) \in Nat, NEW row, IsTable(row, a, b)
  PROVE  /\ row[0][0] = 0
         /\ \A i \in 0..Len(a), j \in 0..Len(b) : row[i][j] \in Nat
         /\ \A i \in 1..Len(a), j \in 0..Len(b) : row[i][j] <= row[i - 1][j] + 1
         /\ \A i \in 0..Len(a), j \in 1..Len(b) : row[i][j] <= row[i][j - 1] + 1
         /\ \A i \in 1..Len(a), j \in 1..Len(b) :
              /\ row[i][j] <= row[i - 1][j - 1] + 1
              /\ a[i] = b[j] => row[i][j] <= row[i - 1][j - 1]
<1>1. \A i \in 0..Len(a) : row[i] \in [0..Len(b) -> Nat]
  BY DEF IsTable
<1>2. \A j \in 0..Len(b) : row[0][j] = j
  BY DEF IsTable
<1>3. \A i \in 1..Len(a) : row[i][0] = i
  BY DEF IsTable, IsNextRow
<1>4. \A i \in 0..Len(a) : row[i][0] = i
  <2> SUFFICES ASSUME NEW i \in 0..Len(a) PROVE row[i][0] = i
    OBVIOUS
  <2>1. CASE i = 0
    BY <1>2, <2>1
  <2>2. CASE i # 0
    BY <1>3, <2>2
  <2> QED  BY <2>1, <2>2
<1>5. \A i \in 1..Len(a), j \in 1..Len(b) :
        /\ row[i][j] <= row[i - 1][j] + 1 /\ row[i][j] <= row[i][j - 1] + 1
        /\ row[i][j] <= row[i - 1][j - 1] + 1
        /\ a[i] = b[j] => row[i][j] <= row[i - 1][j - 1]
  BY DEF IsTable, IsNextRow
<1>6. ASSUME NEW i \in 1..Len(a), NEW j \in 0..Len(b) PROVE row[i][j] <= row[i - 1][j] + 1
  <2>1. CASE j = 0
    <3>1. i - 1 \in 0..Len(a) /\ i \in 0..Len(a)
      OBVIOUS
    <3>2. row[i][0] = i /\ row[i - 1][0] = i - 1
      BY <1>4, <3>1
    <3> QED  BY <2>1, <3>2
  <2>2. CASE j # 0
    BY <1>5, <2>2
  <2> QED  BY <2>1, <2>2
<1>7. ASSUME NEW i \in 0..Len(a), NEW j \in 1..Len(b) PROVE row[i][j] <= row[i][j - 1] + 1
  <2>1. CASE i = 0
    <3>1. j - 1 \in 0..Len(b) /\ j \in 0..Len(b)
      OBVIOUS
    <3>2. row[0][j] = j /\ row[0][j - 1] = j - 1
      BY <1>2, <3>1
    <3> QED  BY <2>1, <3>2
  <2>2. CASE i # 0
    BY <1>5, <2>2
  <2> QED  BY <2>1, <2>2
<1>8. row[0][0] = 0
  BY <1>2
<1> QED  BY <1>1, <1>5, <1>6, <1>7, <1>8

LEMMA LevenshteinBounded ==
  ASSUME NEW a, NEW b, Len(a) \in Nat, Len(b) \in Nat
  PROVE  \E d : Distances(d, a, b) /\ levenshtein(a, b) = d[<<Len(a), Len(b)>>]
<1> DEFINE pairs == (0..Len(a)) \X (0..Len(b))
<1>1. CASE Len(a) < Len(b)
  <2>1. PICK row : row = rows(b, a)
    OBVIOUS
  <2>2. IsTable(row, b, a)
    BY <2>1, RowsAreTable
  <2>3. /\ row[0][0] = 0
        /\ \A i \in 0..Len(b), j \in 0..Len(a) : row[i][j] \in Nat
        /\ \A i \in 1..Len(b), j \in 0..Len(a) : row[i][j] <= row[i - 1][j] + 1
        /\ \A i \in 0..Len(b), j \in 1..Len(a) : row[i][j] <= row[i][j - 1] + 1
        /\ \A i \in 1..Len(b), j \in 1..Len(a) :
             /\ row[i][j] <= row[i - 1][j - 1] + 1
             /\ b[i] = a[j] => row[i][j] <= row[i - 1][j - 1]
    BY <2>2, TableBounds
  <2> DEFINE d == [p \in pairs |-> row[p[2]][p[1]]]
  <2>4. \A i \in 0..Len(a), j \in 0..Len(b) : d[<<i, j>>] = row[j][i]
    OBVIOUS
  <2>5. d \in [pairs -> Nat]
    BY <2>3
  <2> HIDE DEF d
  <2>6. ASSUME NEW i \in 1..Len(a), NEW j \in 0..Len(b) PROVE d[<<i, j>>] <= d[<<i - 1, j>>] + 1
    <3>1. i \in 0..Len(a) /\ i - 1 \in 0..Len(a)
      OBVIOUS
    <3> QED  BY <2>3, <2>4, <3>1
  <2>7. ASSUME NEW i \in 0..Len(a), NEW j \in 1..Len(b) PROVE d[<<i, j>>] <= d[<<i, j - 1>>] + 1
    <3>1. j \in 0..Len(b) /\ j - 1 \in 0..Len(b)
      OBVIOUS
    <3> QED  BY <2>3, <2>4, <3>1
  <2>8. ASSUME NEW i \in 1..Len(a), NEW j \in 1..Len(b)
        PROVE  /\ d[<<i, j>>] <= d[<<i - 1, j - 1>>] + 1
               /\ a[i] = b[j] => d[<<i, j>>] <= d[<<i - 1, j - 1>>]
    <3>1. i \in 0..Len(a) /\ i - 1 \in 0..Len(a) /\ j \in 0..Len(b) /\ j - 1 \in 0..Len(b)
      OBVIOUS
    <3> QED  BY <2>3, <2>4, <3>1
  <2>9. d[<<0, 0>>] = 0
    BY <2>3, <2>4
  <2>10. Distances(d, a, b)
    BY <2>5, <2>6, <2>7, <2>8, <2>9 DEF Distances
  <2>11. levenshtein(a, b) = d[<<Len(a), Len(b)>>]
    BY <1>1, <2>1, <2>4 DEF levenshtein
  <2> QED  BY <2>10, <2>11
<1>2. CASE ~ (Len(a) < Len(b))
  <2>1. PICK row : row = rows(a, b)
    OBVIOUS
  <2>2. IsTable(row, a, b)
    BY <2>1, RowsAreTable
  <2>3. /\ row[0][0] = 0
        /\ \A i \in 0..Len(a), j \in 0..Len(b) : row[i][j] \in Nat
        /\ \A i \in 1..Len(a), j \in 0..Len(b) : row[i][j] <= row[i - 1][j] + 1
        /\ \A i \in 0..Len(a), j \in 1..Len(b) : row[i][j] <= row[i][j - 1] + 1
        /\ \A i \in 1..Len(a), j \in 1..Len(b) :
             /\ row[i][j] <= row[i - 1][j - 1] + 1
             /\ a[i] = b[j] => row[i][j] <= row[i - 1][j - 1]
    BY <2>2, TableBounds
  <2> DEFINE d == [p \in pairs |-> row[p[1]][p[2]]]
  <2>4. \A i \in 0..Len(a), j \in 0..Len(b) : d[<<i, j>>] = row[i][j]
    OBVIOUS
  <2>5. d \in [pairs -> Nat]
    BY <2>3
  <2> HIDE DEF d
  <2>6. ASSUME NEW i \in 1..Len(a), NEW j \in 0..Len(b) PROVE d[<<i, j>>] <= d[<<i - 1, j>>] + 1
    <3>1. i \in 0..Len(a) /\ i - 1 \in 0..Len(a)
      OBVIOUS
    <3> QED  BY <2>3, <2>4, <3>1
  <2>7. ASSUME NEW i \in 0..Len(a), NEW j \in 1..Len(b) PROVE d[<<i, j>>] <= d[<<i, j - 1>>] + 1
    <3>1. j \in 0..Len(b) /\ j - 1 \in 0..Len(b)
      OBVIOUS
    <3> QED  BY <2>3, <2>4, <3>1
  <2>8. ASSUME NEW i \in 1..Len(a), NEW j \in 1..Len(b)
        PROVE  /\ d[<<i, j>>] <= d[<<i - 1, j - 1>>] + 1
               /\ a[i] = b[j] => d[<<i, j>>] <= d[<<i - 1, j - 1>>]
    <3>1. i \in 0..Len(a) /\ i - 1 \in 0..Len(a) /\ j \in 0..Len(b) /\ j - 1 \in 0..Len(b)
      OBVIOUS
    <3> QED  BY <2>3, <2>4, <3>1
  <2>9. d[<<0, 0>>] = 0
    BY <2>3, <2>4
  <2>10. Distances(d, a, b)
    BY <2>5, <2>6, <2>7, <2>8, <2>9 DEF Distances
  <2>11. levenshtein(a, b) = d[<<Len(a), Len(b)>>]
    BY <1>2, <2>1, <2>4 DEF levenshtein
  <2> QED  BY <2>10, <2>11
<1> QED  BY <1>1, <1>2

-----------------------------------------------------------------------------
(* Typos *)

TypoEdits(text, rate) ==
  [ i \in DOMAIN text |->
      UNION { IF hit THEN Mutations(text, i) ELSE {Plain(text, i)} : hit \in Drawn(rate) } ]

IsTypo(text, i, e) ==
  \/ e = Edit(<<text[i]>>, 1, 0)
  \/ e = Edit(<<>>, 1, 1)
  \/ \E c \in InsertVocab : e = Edit(<<c, text[i]>>, 1, 1)
  \/ \E c \in InsertVocab : e = Edit(<<c>>, 1, 1)
  \/ i < Len(text) /\ e = Edit(<<text[i + 1], text[i]>>, 2, 1)

LEMMA TypoEditsAreTypos ==
  ASSUME NEW text, NEW rate, NEW i \in DOMAIN text, NEW e \in TypoEdits(text, rate)[i]
  PROVE  IsTypo(text, i, e)
<1>1. e \in UNION { IF hit THEN Mutations(text, i) ELSE {Plain(text, i)} : hit \in Drawn(rate) }
  BY DEF TypoEdits
<1>2. e \in Mutations(text, i) \/ e = Plain(text, i)
  BY <1>1
<1>3. CASE e = Plain(text, i)
  BY <1>3 DEF Plain, IsTypo
<1>4. CASE e \in Mutations(text, i)
  BY <1>4 DEF Mutations, Plain, IsTypo
<1> QED  BY <1>2, <1>3, <1>4

IsPrefixOf(p, b) ==
  /\ Len(p) \in Nat /\ Len(b) \in Nat /\ Len(p) <= Len(b)
  /\ \A k \in 1..Len(p) : b[k] = p[k]

(* What has been written by position i, with m mutations. *)
Close(text, i, p, m) ==
  /\ \A b, d : Distances(d, text, b) /\ IsPrefixOf(p, b) => d[<<i - 1, Len(p)>>] <= 2 * m
  /\ m = 0 => Len(p) = i - 1 /\ \A k \in 1..(i - 1) : p[k] = text[k]

Characters(text) == InsertVocab \cup { text[i] : i \in DOMAIN text }

CloseTexts(text) ==
  { x \in (1..(Len(text) + 1)) \X Seq(Characters(text)) \X Nat : Close(text, x[1], x[2], x[3]) }

LEMMA PrefixGrows ==
  ASSUME NEW C, NEW p \in Seq(C), NEW put \in Seq(C), NEW b, IsPrefixOf(p \o put, b)
  PROVE  /\ IsPrefixOf(p, b) /\ Len(p \o put) = Len(p) + Len(put)
         /\ Len(p) + Len(put) <= Len(b) /\ Len(b) \in Nat
         /\ \A k \in 1..Len(put) : b[Len(p) + k] = put[k]
<1>1. PICK L, M, all : L = Len(p) /\ M = Len(put) /\ all = p \o put
  OBVIOUS
<1>2. /\ L \in Nat /\ M \in Nat /\ Len(all) = L + M
      /\ \A k \in 1..L : all[k] = p[k]
      /\ \A k \in 1..M : all[L + k] = put[k]
  BY <1>1
<1>3. (\A k \in 1..M : L + k \in 1..(L + M)) /\ \A k \in 1..L : k \in 1..(L + M)
  BY <1>2
<1>4. Len(b) \in Nat /\ L + M <= Len(b) /\ \A k \in 1..(L + M) : b[k] = all[k]
  BY <1>1, <1>2 DEF IsPrefixOf
<1>5. (\A k \in 1..M : b[L + k] = put[k]) /\ \A k \in 1..L : b[k] = p[k]
  BY <1>2, <1>3, <1>4
<1>6. IsPrefixOf(p, b)
  BY <1>1, <1>2, <1>4, <1>5 DEF IsPrefixOf
<1> QED  BY <1>1, <1>2, <1>4, <1>5, <1>6

(* An edit at i that adds to every distance no more than twice its cost.   *)
AddsAtMost(text, i, L, put, uses, cost) ==
  \A b, d :
    /\ Distances(d, text, b) /\ Len(b) \in Nat /\ L + Len(put) <= Len(b)
    /\ \A k \in 1..Len(put) : b[L + k] = put[k]
    => d[<<i - 1 + uses, L + Len(put)>>] <= d[<<i - 1, L>>] + 2 * cost

Fair(text, i, e) ==
  /\ e.put \in Seq(Characters(text)) /\ e.cost \in {0, 1}
  /\ e.uses \in {1, 2} /\ i + e.uses <= Len(text) + 1
  /\ e.cost = 0 => e.uses = 1 /\ e.put = <<text[i]>>
  /\ \A L \in Nat : AddsAtMost(text, i, L, e.put, e.uses, e.cost)

LEMMA TyposAreFair ==
  ASSUME NEW text, IsSeq(text), NEW i \in 1..Len(text), NEW e, IsTypo(text, i, e)
  PROVE  Fair(text, i, e)
<1> DEFINE C == Characters(text)
           n == Len(text)
<1>1. /\ n \in Nat /\ DOMAIN text = 1..n /\ \A k \in 1..n : text[k] \in C
      /\ InsertVocab \subseteq C
  BY DEF IsSeq, Characters
<1> HIDE DEF C
<1>2. ASSUME NEW b, NEW d, Distances(d, text, b), Len(b) \in Nat
      PROVE  /\ \A x \in 0..n, y \in 0..Len(b) : d[<<x, y>>] \in Nat
             /\ \A x \in 1..n, y \in 0..Len(b) : d[<<x, y>>] <= d[<<x - 1, y>>] + 1
             /\ \A x \in 0..n, y \in 1..Len(b) : d[<<x, y>>] <= d[<<x, y - 1>>] + 1
             /\ \A x \in 1..n, y \in 1..Len(b) :
                  /\ d[<<x, y>>] <= d[<<x - 1, y - 1>>] + 1
                  /\ text[x] = b[y] => d[<<x, y>>] <= d[<<x - 1, y - 1>>]
  BY <1>2 DEF Distances
<1>3. CASE e = Edit(<<text[i]>>, 1, 0)
  <2>1. e.put = <<text[i]>> /\ e.uses = 1 /\ e.cost = 0
    BY <1>3 DEF Edit
  <2>2. ASSUME NEW L \in Nat PROVE AddsAtMost(text, i, L, <<text[i]>>, 1, 0)
    <3> SUFFICES ASSUME NEW b, NEW d, Distances(d, text, b), Len(b) \in Nat,
                        L + 1 <= Len(b), b[L + 1] = text[i]
                 PROVE  d[<<i - 1 + 1, L + 1>>] <= d[<<i - 1, L>>] + 2 * 0
      BY DEF AddsAtMost
    <3>1. /\ d[<<i, L + 1>>] <= d[<<i - 1, (L + 1) - 1>>]
          /\ d[<<i - 1, L>>] \in Nat /\ d[<<i, L + 1>>] \in Nat
      BY <1>1, <1>2
    <3>2. (L + 1) - 1 = L /\ i - 1 + 1 = i
      OBVIOUS
    <3> QED  BY ONLY <3>1, <3>2
  <2>3. <<text[i]>> \in Seq(C)
    BY <1>1
  <2> QED  BY <1>1, <2>1, <2>2, <2>3 DEF Fair, C
<1>4. CASE e = Edit(<<>>, 1, 1)
  <2>1. e.put = <<>> /\ e.uses = 1 /\ e.cost = 1
    BY <1>4 DEF Edit
  <2>2. ASSUME NEW L \in Nat PROVE AddsAtMost(text, i, L, <<>>, 1, 1)
    <3> SUFFICES ASSUME NEW b, NEW d, Distances(d, text, b), Len(b) \in Nat, L <= Len(b)
                 PROVE  d[<<i - 1 + 1, L + 0>>] <= d[<<i - 1, L>>] + 2 * 1
      BY DEF AddsAtMost
    <3>1. d[<<i, L>>] <= d[<<i - 1, L>>] + 1 /\ d[<<i - 1, L>>] \in Nat /\ d[<<i, L>>] \in Nat
      BY <1>1, <1>2
    <3>2. L + 0 = L /\ i - 1 + 1 = i
      OBVIOUS
    <3> QED  BY ONLY <3>1, <3>2
  <2> QED  BY <1>1, <2>1, <2>2 DEF Fair, C
<1>5. ASSUME NEW c \in InsertVocab, e = Edit(<<c, text[i]>>, 1, 1) PROVE Fair(text, i, e)
  <2>1. e.put = <<c, text[i]>> /\ e.uses = 1 /\ e.cost = 1
    BY <1>5 DEF Edit
  <2>2. ASSUME NEW L \in Nat PROVE AddsAtMost(text, i, L, <<c, text[i]>>, 1, 1)
    <3> SUFFICES ASSUME NEW b, NEW d, Distances(d, text, b), Len(b) \in Nat, L + 2 <= Len(b),
                        \A k \in 1..2 : b[L + k] = <<c, text[i]>>[k]
                 PROVE  d[<<i - 1 + 1, L + 2>>] <= d[<<i - 1, L>>] + 2 * 1
      BY DEF AddsAtMost
    <3>0. b[L + 2] = text[i]
      OBVIOUS
    <3>1. /\ i \in 1..n /\ i - 1 \in 0..n /\ i \in 0..n
          /\ L + 1 \in 1..Len(b) /\ L + 2 \in 1..Len(b) /\ L \in 0..Len(b)
      BY <1>1
    <3>2. d[<<i, L + 2>>] <= d[<<i - 1, (L + 2) - 1>>]
      BY <1>2, <3>0, <3>1
    <3>3. d[<<i - 1, L + 1>>] <= d[<<i - 1, (L + 1) - 1>>] + 1
      BY <1>2, <3>1
    <3>4. d[<<i - 1, L>>] \in Nat /\ d[<<i, L + 2>>] \in Nat /\ d[<<i - 1, L + 1>>] \in Nat
      BY <1>2, <3>1
    <3>5. (L + 2) - 1 = L + 1 /\ (L + 1) - 1 = L /\ i - 1 + 1 = i
      OBVIOUS
    <3> QED  BY ONLY <3>2, <3>3, <3>4, <3>5
  <2>3. <<c, text[i]>> \in Seq(C)
    BY <1>1
  <2> QED  BY <1>1, <2>1, <2>2, <2>3 DEF Fair, C
<1>6. ASSUME NEW c \in InsertVocab, e = Edit(<<c>>, 1, 1) PROVE Fair(text, i, e)
  <2>1. e.put = <<c>> /\ e.uses = 1 /\ e.cost = 1
    BY <1>6 DEF Edit
  <2>2. ASSUME NEW L \in Nat PROVE AddsAtMost(text, i, L, <<c>>, 1, 1)
    <3> SUFFICES ASSUME NEW b, NEW d, Distances(d, text, b), Len(b) \in Nat, L + 1 <= Len(b)
                 PROVE  d[<<i - 1 + 1, L + 1>>] <= d[<<i - 1, L>>] + 2 * 1
      BY DEF AddsAtMost
    <3>1. /\ d[<<i, L + 1>>] <= d[<<i - 1, (L + 1) - 1>>] + 1
          /\ d[<<i - 1, L>>] \in Nat /\ d[<<i, L + 1>>] \in Nat
      BY <1>1, <1>2
    <3>2. (L + 1) - 1 = L /\ i - 1 + 1 = i
      OBVIOUS
    <3>3. PICK x, y : x = d[<<i - 1, L>>] /\ y = d[<<i, L + 1>>]
      OBVIOUS
    <3>4. x \in Nat /\ y \in Nat /\ y <= x + 1
      BY ONLY <3>1, <3>2, <3>3
    <3>5. y <= x + 2 * 1
      BY ONLY <3>4
    <3> QED  BY ONLY <3>2, <3>3, <3>5
  <2>3. <<c>> \in Seq(C)
    BY <1>1
  <2> QED  BY <1>1, <2>1, <2>2, <2>3 DEF Fair, C
<1>7. CASE i < Len(text) /\ e = Edit(<<text[i + 1], text[i]>>, 2, 1)
  <2>1. e.put = <<text[i + 1], text[i]>> /\ e.uses = 2 /\ e.cost = 1
    BY <1>7 DEF Edit
  <2>2. ASSUME NEW L \in Nat PROVE AddsAtMost(text, i, L, <<text[i + 1], text[i]>>, 2, 1)
    <3> SUFFICES ASSUME NEW b, NEW d, Distances(d, text, b), Len(b) \in Nat, L + 2 <= Len(b)
                 PROVE  d[<<i - 1 + 2, L + 2>>] <= d[<<i - 1, L>>] + 2 * 1
      BY DEF AddsAtMost
    <3>1. /\ i \in 1..n /\ i + 1 \in 1..n /\ i - 1 \in 0..n /\ i \in 0..n /\ i + 1 \in 0..n
          /\ L + 1 \in 1..Len(b) /\ L + 2 \in 1..Len(b)
          /\ L \in 0..Len(b) /\ L + 1 \in 0..Len(b) /\ L + 2 \in 0..Len(b)
      BY <1>1, <1>7
    <3>2. d[<<i + 1, L + 2>>] <= d[<<(i + 1) - 1, (L + 2) - 1>>] + 1
      BY <1>2, <3>1
    <3>3. d[<<i, L + 1>>] <= d[<<i - 1, (L + 1) - 1>>] + 1
      BY <1>2, <3>1
    <3>4. d[<<i - 1, L>>] \in Nat /\ d[<<i + 1, L + 2>>] \in Nat /\ d[<<i, L + 1>>] \in Nat
      BY <1>2, <3>1
    <3>5. (i + 1) - 1 = i /\ (L + 2) - 1 = L + 1 /\ (L + 1) - 1 = L /\ i - 1 + 2 = i + 1
      OBVIOUS
    <3>6. PICK x, y, z : x = d[<<i - 1, L>>] /\ y = d[<<i, L + 1>>] /\ z = d[<<i + 1, L + 2>>]
      OBVIOUS
    <3>7. z <= y + 1 /\ y <= x + 1
      BY ONLY <3>2, <3>3, <3>5, <3>6
    <3>8. x \in Nat /\ y \in Nat /\ z \in Nat
      BY ONLY <3>4, <3>6
    <3>9. z <= x + 2 * 1
      BY ONLY <3>7, <3>8
    <3> QED  BY ONLY <3>5, <3>6, <3>9
  <2>3. <<text[i + 1], text[i]>> \in Seq(C) /\ i + 2 <= Len(text) + 1
    BY <1>1, <1>7
  <2> QED  BY <1>1, <2>1, <2>2, <2>3 DEF Fair, C
<1> QED  BY <1>3, <1>4, <1>5, <1>6, <1>7 DEF IsTypo

LEMMA FairKeepsClose ==
  ASSUME NEW text, IsSeq(text), NEW i \in 1..Len(text),
         NEW p \in Seq(Characters(text)), NEW m \in Nat, Close(text, i, p, m),
         NEW e, Fair(text, i, e)
  PROVE  Close(text, i + e.uses, p \o e.put, m + e.cost)
<1>1. PICK put, uses, cost : put = e.put /\ uses = e.uses /\ cost = e.cost
  OBVIOUS
<1>2. /\ put \in Seq(Characters(text)) /\ cost \in {0, 1} /\ uses \in {1, 2}
      /\ i + uses <= Len(text) + 1 /\ (cost = 0 => uses = 1 /\ put = <<text[i]>>)
      /\ AddsAtMost(text, i, Len(p), put, uses, cost)
  <2>1. Len(p) \in Nat
    OBVIOUS
  <2> QED  BY <1>1, <2>1 DEF Fair
<1>3. Len(text) \in Nat /\ text[i] \in Characters(text)
  BY DEF IsSeq, Characters
<1>4. ASSUME NEW b, NEW d, Distances(d, text, b), IsPrefixOf(p \o put, b)
      PROVE  d[<<(i + uses) - 1, Len(p \o put)>>] <= 2 * (m + cost)
  <2>1. /\ IsPrefixOf(p, b) /\ Len(p \o put) = Len(p) + Len(put)
        /\ Len(p) + Len(put) <= Len(b) /\ Len(b) \in Nat
        /\ \A k \in 1..Len(put) : b[Len(p) + k] = put[k]
    BY <1>2, <1>4, PrefixGrows
  <2>2. d[<<i - 1, Len(p)>>] <= 2 * m
    BY <1>4, <2>1 DEF Close
  <2>3. d[<<i - 1 + uses, Len(p) + Len(put)>>] <= d[<<i - 1, Len(p)>>] + 2 * cost
    BY <1>2, <1>4, <2>1 DEF AddsAtMost
  <2>4. PICK x, y, l : /\ x = d[<<i - 1, Len(p)>>] /\ y = d[<<i - 1 + uses, Len(p) + Len(put)>>]
                       /\ l = Len(p) + Len(put)
    OBVIOUS
  <2>5. x \in Nat /\ y \in Nat
    <3>1. Len(p) \in Nat /\ Len(put) \in Nat
      BY <1>2
    <3>2. /\ i - 1 \in 0..Len(text) /\ i - 1 + uses \in 0..Len(text)
          /\ Len(p) \in 0..Len(b) /\ Len(p) + Len(put) \in 0..Len(b)
      BY <1>2, <1>3, <2>1, <3>1
    <3> QED  BY <1>4, <2>4, <3>2 DEF Distances
  <2>6. y <= 2 * (m + cost)
    <3>1. x <= 2 * m /\ y <= x + 2 * cost /\ m \in Nat /\ cost \in {0, 1}
      BY <1>2, <2>2, <2>3, <2>4
    <3> QED  BY ONLY <2>5, <3>1
  <2>7. (i + uses) - 1 = i - 1 + uses
    BY <1>2
  <2> QED  BY <2>1, <2>4, <2>6, <2>7
<1>5. ASSUME m + cost = 0
      PROVE  Len(p \o put) = (i + uses) - 1 /\ \A k \in 1..((i + uses) - 1) : (p \o put)[k] = text[k]
  <2>1. m = 0 /\ cost = 0 /\ uses = 1 /\ put = <<text[i]>>
    BY <1>2, <1>5
  <2>2. Len(p) = i - 1 /\ \A k \in 1..(i - 1) : p[k] = text[k]
    BY <2>1 DEF Close
  <2>3. /\ Len(p \o <<text[i]>>) = Len(p) + 1
        /\ \A k \in 1..(Len(p) + 1) : (p \o <<text[i]>>)[k] = IF k <= Len(p) THEN p[k] ELSE text[i]
    BY <1>3
  <2> QED  BY <2>1, <2>2, <2>3
<1>6. Close(text, i + uses, p \o put, m + cost)
  BY <1>4, <1>5 DEF Close
<1> QED  BY <1>1, <1>6

LEMMA TypoIsClose ==
  ASSUME NEW text, IsSeq(text), NEW rate, NEW o \in mutate_once(text, rate)
  PROVE  /\ o.text \in Seq(Characters(text)) /\ o.mutations \in Nat
         /\ Close(text, Len(text) + 1, o.text, o.mutations)
<1> DEFINE edits == TypoEdits(text, rate)
           n == Len(text)
<1>1. n \in Nat /\ DOMAIN text = 1..n /\ DOMAIN edits = 1..n /\ Len(edits) = n
  <2>1. n \in Nat /\ DOMAIN text = 1..n
    BY DEF IsSeq
  <2>2. DOMAIN edits = DOMAIN text
    BY DEF TypoEdits
  <2>3. edits = [i \in 1..n |-> edits[i]]
    BY <2>1 DEF TypoEdits
  <2> HIDE DEF edits
  <2>4. Len(edits) = n
    BY <2>1, <2>3
  <2> QED  BY <2>1, <2>2, <2>4
<1>2. o \in Rewritten(edits)
  BY DEF mutate_once, TypoEdits
<1>3. ASSUME NEW i \in 1..n, NEW e \in edits[i] PROVE Fair(text, i, e)
  BY <1>1, <1>3, TypoEditsAreTypos, TyposAreFair
<1> HIDE DEF edits
<1>4. GoesOn(edits)
  <2>1. ASSUME NEW i \in 1..n, NEW e \in edits[i] PROVE e.uses \in Nat \ {0} /\ i + e.uses <= n + 1
    BY <1>3, <2>1 DEF Fair
  <2> QED  BY <1>1, <2>1 DEF GoesOn
<1>5. EditsOver(edits, Characters(text))
  <2>1. ASSUME NEW i \in 1..n, NEW e \in edits[i] PROVE e.put \in Seq(Characters(text)) /\ e.cost \in Nat
    BY <1>3, <2>1 DEF Fair
  <2> QED  BY <1>1, <2>1 DEF EditsOver
<1> DEFINE T == CloseTexts(text)
<1>6. Passes(edits, Characters(text), T)
  <2>1. Close(text, 1, <<>>, 0)
    <3>1. ASSUME NEW b, NEW d, Distances(d, text, b) PROVE d[<<1 - 1, 0>>] <= 2 * 0
      BY <3>1 DEF Distances
    <3> QED  BY <3>1 DEF Close
  <2>2. <<1, <<>>, 0>> \in T
    <3>1. PICK x, y, z : x = 1 /\ y = <<>> /\ z = 0
      OBVIOUS
    <3>2. x \in 1..(n + 1) /\ y \in Seq(Characters(text)) /\ z \in Nat /\ Close(text, x, y, z)
      BY <1>1, <2>1, <3>1
    <3>3. <<x, y, z>> \in T
      BY <3>2 DEF CloseTexts
    <3> QED  BY <3>1, <3>3
  <2>3. ASSUME NEW i \in 1..n, NEW e \in edits[i], NEW p \in Seq(Characters(text)), NEW m \in Nat,
               <<i, p, m>> \in T
        PROVE  <<i + e.uses, p \o e.put, m + e.cost>> \in T
    <3>1. Close(text, i, p, m) /\ Fair(text, i, e)
      BY <1>3, <2>3 DEF CloseTexts
    <3>2. Close(text, i + e.uses, p \o e.put, m + e.cost)
      BY <3>1, FairKeepsClose
    <3>3. i + e.uses \in 1..(n + 1) /\ p \o e.put \in Seq(Characters(text)) /\ m + e.cost \in Nat
      <4>1. e.put \in Seq(Characters(text)) /\ e.cost \in {0, 1} /\ e.uses \in {1, 2} /\ i + e.uses <= n + 1
        BY <3>1 DEF Fair
      <4> QED  BY <4>1, <1>1
    <3>4. PICK x, y, z : x = i + e.uses /\ y = p \o e.put /\ z = m + e.cost
      OBVIOUS
    <3>5. <<x, y, z>> \in T
      BY <3>2, <3>3, <3>4 DEF CloseTexts
    <3> QED  BY <3>4, <3>5
  <2> QED  BY <1>1, <2>2, <2>3 DEF Passes
<1>7. o.text \in Seq(Characters(text)) /\ o.mutations \in Nat /\ <<Len(edits) + 1, o.text, o.mutations>> \in T
  BY <1>2, <1>4, <1>5, <1>6, PassEnds
<1> QED  BY <1>1, <1>7 DEF CloseTexts

(* A typo's edit distance is within twice its mutation count, and no       *)
(* mutation means no change.                                               *)
LEMMA TypoIsCounted ==
  ASSUME NEW text, IsSeq(text), NEW rate, NEW o \in mutate_once(text, rate)
  PROVE  /\ levenshtein(text, o.text) <= 2 * o.mutations
         /\ o.mutations = 0 => o.text = text
<1>1. PICK p, m : p = o.text /\ m = o.mutations
  OBVIOUS
<1>2. p \in Seq(Characters(text)) /\ m \in Nat /\ Close(text, Len(text) + 1, p, m)
  BY <1>1, TypoIsClose
<1>3. text \in Seq({ text[i] : i \in DOMAIN text }) /\ Len(text) \in Nat /\ Len(p) \in Nat
  BY <1>2 DEF IsSeq
<1>4. levenshtein(text, p) <= 2 * m
  <2>1. PICK d : Distances(d, text, p) /\ levenshtein(text, p) = d[<<Len(text), Len(p)>>]
    BY <1>3, LevenshteinBounded
  <2>2. IsPrefixOf(p, p)
    BY <1>3 DEF IsPrefixOf
  <2>3. d[<<(Len(text) + 1) - 1, Len(p)>>] <= 2 * m
    BY <1>2, <2>1, <2>2 DEF Close
  <2>4. (Len(text) + 1) - 1 = Len(text)
    BY <1>3
  <2> QED  BY <2>1, <2>3, <2>4
<1>5. ASSUME m = 0 PROVE p = text
  <2>1. Len(p) = Len(text) /\ \A k \in 1..Len(text) : p[k] = text[k]
    BY <1>2, <1>3, <1>5 DEF Close
  <2> QED  BY <1>2, <1>3, <2>1
<1> QED  BY <1>1, <1>4, <1>5

-----------------------------------------------------------------------------
(* Lookalikes *)

(* The characters deperturb may leave, and those of a perturbed text.      *)
Plainest(text) ==
  ({Space} \cup DOMAIN Homoglyphs \cup { text[i] : i \in DOMAIN text }) \ Owned
Visible(text) == Owned \cup { text[i] : i \in DOMAIN text }

Sources(text) == [i \in DOMAIN text |-> Source(text[i])]

LEMMA SourceIs ==
  /\ \A c \in SpaceVariants : Source(c) = <<Space>>
  /\ \A c \in ZeroWidth : Source(c) = <<>>
  /\ \A c \in DOMAIN Homoglyphs : Source(Homoglyphs[c]) = <<c>> /\ Homoglyphs[c] \in Glyphs
  /\ \A c : c \notin Owned => Source(c) = <<c>>
<1>1. \A c \in SpaceVariants : Source(c) = <<Space>>
  BY DEF Source
<1>2. \A c \in ZeroWidth : Source(c) = <<>>
  BY CharactersAssumption DEF Source
<1>3. ASSUME NEW c \in DOMAIN Homoglyphs PROVE Source(Homoglyphs[c]) = <<c>> /\ Homoglyphs[c] \in Glyphs
  <2>1. Homoglyphs[c] \in Glyphs
    BY DEF Glyphs
  <2>2. Homoglyphs[c] \notin SpaceVariants /\ Homoglyphs[c] \notin ZeroWidth
    BY <2>1, CharactersAssumption
  <2>3. Source(Homoglyphs[c]) = <<CHOOSE l \in DOMAIN Homoglyphs : Homoglyphs[l] = Homoglyphs[c]>>
    BY <2>1, <2>2 DEF Source
  <2>4. (CHOOSE l \in DOMAIN Homoglyphs : Homoglyphs[l] = Homoglyphs[c]) = c
    BY CharactersAssumption
  <2> QED  BY <2>1, <2>3, <2>4
<1>4. \A c : c \notin Owned => Source(c) = <<c>>
  BY DEF Source, Owned
<1> QED  BY <1>1, <1>2, <1>3, <1>4

LEMMA SourcesArePlain ==
  ASSUME NEW text, NEW i \in DOMAIN text
  PROVE  Source(text[i]) \in Seq(Plainest(text))
<1>1. Space \notin Owned /\ \A c \in DOMAIN Homoglyphs : c \notin Owned
  BY CharactersAssumption
<1>2. CASE text[i] \in SpaceVariants
  <2>1. Space \in Plainest(text)
    BY <1>1 DEF Plainest
  <2> QED  BY <1>2, <2>1, SourceIs
<1>3. CASE text[i] \in ZeroWidth
  <2>1. Source(text[i]) = <<>>
    BY <1>3, SourceIs
  <2>2. \A D : <<>> \in Seq(D)
    OBVIOUS
  <2> QED  BY <2>1, <2>2
<1>4. CASE text[i] \in Glyphs
  <2>1. PICK c \in DOMAIN Homoglyphs : text[i] = Homoglyphs[c]
    BY <1>4 DEF Glyphs
  <2>2. c \in Plainest(text) /\ Source(text[i]) = <<c>>
    BY <1>1, <2>1, SourceIs DEF Plainest
  <2> QED  BY <2>2
<1>5. CASE text[i] \notin Owned
  <2>1. text[i] \in Plainest(text) /\ Source(text[i]) = <<text[i]>>
    BY <1>5, SourceIs DEF Plainest
  <2> QED  BY <2>1
<1> QED  BY <1>2, <1>3, <1>4, <1>5 DEF Owned

LEMMA JoiningAgrees ==
  ASSUME NEW q, NEW r, NEW u, NEW v, Joining(q, u), Joining(r, v),
         Len(q) \in Nat, Len(r) \in Nat, Len(q) <= Len(r),
         \A i \in 1..Len(q) : q[i] = r[i]
  PROVE  u[Len(q)] = v[Len(q)]
<1> DEFINE S == { k \in Nat : k <= Len(q) => u[k] = v[k] }
<1>1. 0 \in S
  BY DEF Joining
<1>2. ASSUME NEW k \in Nat, k \in S PROVE k + 1 \in S
  <2> SUFFICES ASSUME k + 1 <= Len(q) PROVE u[k + 1] = v[k + 1]
    OBVIOUS
  <2>1. u[k] = v[k] /\ k + 1 \in 1..Len(q) /\ k + 1 \in 1..Len(r) /\ (k + 1) - 1 = k
    BY <1>2
  <2>2. u[k + 1] = u[(k + 1) - 1] \o q[k + 1] /\ v[k + 1] = v[(k + 1) - 1] \o r[k + 1]
    BY <2>1 DEF Joining
  <2> QED  BY <2>1, <2>2
<1>3. Len(q) \in S
  <2> HIDE DEF S
  <2> QED  BY <1>1, <1>2, FromZeroOn
<1> QED  BY <1>3

LEMMA JoiningIn ==
  ASSUME NEW q, NEW u, Joining(q, u), Len(q) \in Nat, NEW D,
         \A i \in 1..Len(q) : q[i] \in Seq(D)
  PROVE  \A k \in 0..Len(q) : u[k] \in Seq(D)
<1> DEFINE S == { k \in Nat : k <= Len(q) => u[k] \in Seq(D) }
<1>1. 0 \in S
  <2>1. u[0] = <<>>
    BY DEF Joining
  <2>2. <<>> \in Seq(D)
    OBVIOUS
  <2> QED  BY <2>1, <2>2
<1>2. ASSUME NEW k \in Nat, k \in S PROVE k + 1 \in S
  <2> SUFFICES ASSUME k + 1 <= Len(q) PROVE u[k + 1] \in Seq(D)
    OBVIOUS
  <2>1. u[k] \in Seq(D) /\ k + 1 \in 1..Len(q) /\ (k + 1) - 1 = k
    BY <1>2
  <2>2. u[k + 1] = u[k] \o q[k + 1] /\ q[k + 1] \in Seq(D)
    BY <2>1 DEF Joining
  <2> QED  BY <2>1, <2>2
<1>3. Nat \subseteq S
  <2> HIDE DEF S
  <2> QED  BY <1>1, <1>2, FromZeroOn
<1> QED  BY <1>3

LEMMA SourcesLen ==
  ASSUME NEW C, NEW text \in Seq(C)
  PROVE  /\ Len(text) \in Nat /\ DOMAIN text = 1..Len(text)
         /\ Len(Sources(text)) = Len(text) /\ deperturb(text) = Joined(Sources(text))
         /\ \A i \in 1..Len(text) : Sources(text)[i] = Source(text[i])
<1>1. Len(text) \in Nat /\ DOMAIN text = 1..Len(text)
  OBVIOUS
<1>2. Sources(text) = [i \in 1..Len(text) |-> Source(text[i])]
  BY <1>1 DEF Sources
<1>3. Len(Sources(text)) = Len(text)
  <2>1. PICK n, f : n = Len(text) /\ f = Sources(text)
    OBVIOUS
  <2>2. n \in Nat /\ f = [i \in 1..n |-> f[i]]
    BY <1>1, <1>2, <2>1
  <2>3. Len(f) = n
    BY ONLY <2>2
  <2> QED  BY <2>1, <2>3
<1> QED  BY <1>1, <1>2, <1>3 DEF deperturb, Sources

(* One more character adds what it stands for. *)
LEMMA DeperturbMore ==
  ASSUME NEW C, NEW p \in Seq(C), NEW c \in C
  PROVE  deperturb(p \o <<c>>) = deperturb(p) \o Source(c)
<1>1. PICK all, n : all = p \o <<c>> /\ n = Len(p)
  OBVIOUS
<1>2. /\ all \in Seq(C) /\ n \in Nat /\ Len(all) = n + 1 /\ all[n + 1] = c
      /\ \A i \in 1..n : all[i] = p[i]
  BY <1>1
<1>3. PICK u : Joining(Sources(all), u) /\ Joined(Sources(all)) = u[Len(Sources(all))]
  <2>1. Len(Sources(all)) \in Nat
    BY <1>2, SourcesLen
  <2> QED  BY <2>1, JoinedSteps
<1>4. PICK v : Joining(Sources(p), v) /\ Joined(Sources(p)) = v[Len(Sources(p))]
  <2>1. Len(Sources(p)) \in Nat
    BY SourcesLen
  <2> QED  BY <2>1, JoinedSteps
<1>5. /\ Len(Sources(all)) = n + 1 /\ Len(Sources(p)) = n
      /\ Sources(all)[n + 1] = Source(c)
      /\ \A i \in 1..n : Sources(p)[i] = Sources(all)[i]
      /\ deperturb(all) = u[n + 1] /\ deperturb(p) = v[n]
  <2>1. /\ Len(Sources(all)) = Len(all) /\ deperturb(all) = Joined(Sources(all))
        /\ \A i \in 1..Len(all) : Sources(all)[i] = Source(all[i])
    BY <1>2, SourcesLen
  <2>2. /\ Len(Sources(p)) = n /\ deperturb(p) = Joined(Sources(p))
        /\ \A i \in 1..n : Sources(p)[i] = Source(p[i])
    BY <1>1, SourcesLen
  <2>3. n + 1 \in 1..Len(all) /\ \A i \in 1..n : i \in 1..Len(all)
    BY <1>2
  <2> QED  BY <1>2, <1>3, <1>4, <2>1, <2>2, <2>3
<1>6. v[n] = u[n]
  <2>1. Len(Sources(p)) \in Nat /\ Len(Sources(all)) \in Nat /\ Len(Sources(p)) <= Len(Sources(all))
    BY <1>2, <1>5
  <2>2. \A i \in 1..Len(Sources(p)) : Sources(p)[i] = Sources(all)[i]
    BY <1>5
  <2>3. v[Len(Sources(p))] = u[Len(Sources(p))]
    BY <1>3, <1>4, <2>1, <2>2, JoiningAgrees
  <2> QED  BY <1>5, <2>3
<1>7. u[n + 1] = u[n] \o Source(c)
  <2>1. n + 1 \in 1..Len(Sources(all)) /\ (n + 1) - 1 = n
    BY <1>2, <1>5
  <2>2. u[n + 1] = u[(n + 1) - 1] \o Sources(all)[n + 1]
    BY <1>3, <2>1 DEF Joining
  <2> QED  BY <1>5, <2>1, <2>2
<1> QED  BY <1>1, <1>5, <1>6, <1>7

(* What deperturb makes of a text holds none of the family's characters;   *)
(* so it leaves a text alone exactly if there are none.                    *)
LEMMA DeperturbLeaves ==
  ASSUME NEW text, IsSeq(text)
  PROVE  deperturb(text) = text <=> \A k \in DOMAIN text : text[k] \notin Owned
<1> DEFINE C == { text[i] : i \in DOMAIN text }
           n == Len(text)
<1>1. text \in Seq(C)
  BY DEF IsSeq
<1>2. /\ n \in Nat /\ DOMAIN text = 1..n
      /\ Len(Sources(text)) = n /\ deperturb(text) = Joined(Sources(text))
      /\ \A i \in 1..n : Sources(text)[i] = Source(text[i])
  BY <1>1, SourcesLen
<1>3. PICK u : Joining(Sources(text), u) /\ deperturb(text) = u[n]
  <2>1. PICK v : Joining(Sources(text), v) /\ Joined(Sources(text)) = v[Len(Sources(text))]
    BY <1>2, JoinedSteps
  <2> QED  BY <1>2, <2>1
<1>4. \A i \in 1..n : Sources(text)[i] \in Seq(Plainest(text))
  BY <1>2, SourcesArePlain
<1> HIDE DEF C
<1>5. ASSUME deperturb(text) = text, NEW k \in DOMAIN text PROVE text[k] \notin Owned
  <2>1. u[n] \in Seq(Plainest(text))
    <3>1. \A k_1 \in 0..n : u[k_1] \in Seq(Plainest(text))
      BY <1>2, <1>3, <1>4, JoiningIn
    <3> QED  BY <1>2, <3>1
  <2>2. text \in Seq(Plainest(text))
    BY <1>3, <1>5, <2>1
  <2>3. text[k] \in Plainest(text)
    BY <1>5, <2>2
  <2> QED  BY <2>3 DEF Plainest
<1>6. ASSUME \A k \in DOMAIN text : text[k] \notin Owned PROVE deperturb(text) = text
  <2>1. \A i \in 1..n : Sources(text)[i] = <<text[i]>>
    BY <1>2, <1>6, SourceIs
  <2> DEFINE S == { k \in Nat : k <= n => u[k] = [i \in 1..k |-> text[i]] }
  <2>2. 0 \in S
    <3>1. u[0] = <<>>
      BY <1>3 DEF Joining
    <3>2. [i \in 1..0 |-> text[i]] = <<>>
      OBVIOUS
    <3> QED  BY <3>1, <3>2
  <2>3. ASSUME NEW k \in Nat, k \in S PROVE k + 1 \in S
    <3> SUFFICES ASSUME k + 1 <= n PROVE u[k + 1] = [i \in 1..(k + 1) |-> text[i]]
      OBVIOUS
    <3>1. u[k] = [i \in 1..k |-> text[i]] /\ k + 1 \in 1..n /\ (k + 1) - 1 = k
      BY <2>3
    <3>2. u[k + 1] = u[k] \o <<text[k + 1]>>
      BY <1>2, <1>3, <2>1, <3>1 DEF Joining
    <3>3. PICK q, c : q = u[k] /\ c = text[k + 1]
      OBVIOUS
    <3>4. q \in Seq(C) /\ Len(q) = k /\ c \in C /\ \A i \in 1..k : q[i] = text[i]
      <4>1. \A i \in 1..k : text[i] \in C
        BY <1>2, <3>1 DEF C
      <4>2. q = [i \in 1..k |-> text[i]]
        BY <3>1, <3>3
      <4>3. text[k + 1] \in C
        BY <1>2, <3>1 DEF C
      <4> QED  BY <3>3, <4>1, <4>2, <4>3
    <3>5. q \o <<c>> = [i \in 1..(k + 1) |-> IF i <= k THEN q[i] ELSE c]
      BY ONLY <2>3, <3>4
    <3>6. \A i \in 1..(k + 1) : text[i] = IF i <= k THEN q[i] ELSE c
      <4>1. ASSUME NEW i \in 1..(k + 1) PROVE text[i] = IF i <= k THEN q[i] ELSE c
        <5>1. i \in 1..k \/ (i = k + 1 /\ ~ (i <= k))
          BY ONLY <2>3, <4>1
        <5> QED  BY ONLY <3>3, <3>4, <4>1, <5>1
      <4> QED  BY <4>1
    <3>7. q \o <<c>> = [i \in 1..(k + 1) |-> text[i]]
      BY ONLY <3>5, <3>6
    <3> QED  BY ONLY <3>2, <3>3, <3>7
  <2>4. n \in S
    <3> HIDE DEF S
    <3> QED  BY <1>2, <2>2, <2>3, FromZeroOn
  <2>5. text = [i \in 1..n |-> text[i]]
    BY <1>1
  <2> QED  BY <1>2, <1>3, <2>4, <2>5
<1> QED  BY <1>5, <1>6

(* An edit that stands for what it replaces.                               *)
StandsFor(text, i, e) ==
  /\ e.uses = 1 /\ e.cost \in {0, 1}
  /\ \/ \E v \in Visible(text) : e.put = <<v>> /\ Source(v) = Source(text[i])
     \/ \E z \in Visible(text) : e.put = <<text[i], z>> /\ Source(z) = <<>>

LEMMA PlainStandsFor ==
  ASSUME NEW text, NEW i \in DOMAIN text
  PROVE  StandsFor(text, i, Plain(text, i))
<1>1. text[i] \in Visible(text)
  BY DEF Visible
<1> QED  BY <1>1 DEF StandsFor, Plain, Edit

LEMMA SubstitutesStandFor ==
  ASSUME NEW text, NEW rate, NEW equivalents,
         \A c \in DOMAIN equivalents : \A v \in equivalents[c] : v \in Owned /\ Source(v) = Source(c),
         NEW i \in DOMAIN text,
         NEW e \in IF text[i] \in DOMAIN equivalents
                   THEN UNION { IF hit
                                THEN { Edit(<<v>>, 1, 1) : v \in equivalents[text[i]] }
                                ELSE {Plain(text, i)} :
                                hit \in Drawn(rate) }
                   ELSE {Plain(text, i)}
  PROVE  StandsFor(text, i, e)
<1>1. CASE e = Plain(text, i)
  BY <1>1, PlainStandsFor
<1>2. ASSUME text[i] \in DOMAIN equivalents, NEW v \in equivalents[text[i]], e = Edit(<<v>>, 1, 1)
      PROVE  StandsFor(text, i, e)
  <2>1. v \in Visible(text) /\ Source(v) = Source(text[i])
    BY <1>2 DEF Visible
  <2> QED  BY <1>2, <2>1 DEF StandsFor, Edit
<1> QED  BY <1>1, <1>2

LEMMA ZeroWidthsStandFor ==
  ASSUME NEW text, NEW rate, NEW i \in DOMAIN text,
         NEW e \in IF i < Len(text)
                   THEN UNION { IF hit
                                THEN { Edit(<<text[i], z>>, 1, 1) : z \in ZeroWidth }
                                ELSE {Plain(text, i)} :
                                hit \in Drawn(rate) }
                   ELSE {Plain(text, i)}
  PROVE  StandsFor(text, i, e)
<1>1. CASE e = Plain(text, i)
  BY <1>1, PlainStandsFor
<1>2. ASSUME NEW z \in ZeroWidth, e = Edit(<<text[i], z>>, 1, 1)
      PROVE  StandsFor(text, i, e)
  <2>1. z \in Visible(text) /\ Source(z) = <<>>
    BY SourceIs DEF Visible, Owned
  <2> QED  BY <1>2, <2>1 DEF StandsFor, Edit
<1> QED  BY <1>1, <1>2

(* A pass of such edits leaves what deperturb makes of the text alone.     *)
LEMMA StandInsReverse ==
  ASSUME NEW text, IsSeq(text), NEW edits,
         DOMAIN edits = DOMAIN text, edits = [i \in DOMAIN text |-> edits[i]],
         \A i \in DOMAIN text : \A e \in edits[i] : StandsFor(text, i, e),
         NEW o \in Rewritten(edits)
  PROVE  deperturb(o.text) = deperturb(text)
<1> DEFINE C == Visible(text)
           n == Len(text)
           D == Plainest(text)
<1>1. /\ text \in Seq(C) /\ n \in Nat /\ DOMAIN text = 1..n /\ Len(edits) = n
      /\ \A i \in 1..n : text[i] \in C
  <2>1. text \in Seq({ text[i] : i \in DOMAIN text })
    BY DEF IsSeq
  <2>2. n \in Nat /\ DOMAIN text = 1..n /\ text = [i \in 1..n |-> text[i]]
    BY <2>1
  <2>3. \A i \in 1..n : text[i] \in C
    BY <2>2 DEF Visible
  <2> HIDE DEF C
  <2>4. text \in Seq(C)
    BY <2>2, <2>3
  <2>5. edits = [i \in 1..n |-> edits[i]]
    BY <2>2
  <2>6. Len(edits) = n
    BY <2>2, <2>5
  <2> QED  BY <2>2, <2>3, <2>4, <2>6
<1>2. /\ Len(Sources(text)) = n /\ deperturb(text) = Joined(Sources(text))
      /\ \A i \in 1..n : Sources(text)[i] = Source(text[i])
  BY <1>1, SourcesLen
<1>3. PICK u : Joining(Sources(text), u) /\ deperturb(text) = u[n]
  <2>1. PICK v : Joining(Sources(text), v) /\ Joined(Sources(text)) = v[Len(Sources(text))]
    BY <1>1, <1>2, JoinedSteps
  <2> QED  BY <1>2, <2>1
<1>4. \A k \in 0..n : u[k] \in Seq(D)
  <2>1. \A i \in 1..n : Sources(text)[i] \in Seq(D)
    BY <1>1, <1>2, SourcesArePlain
  <2> HIDE DEF D
  <2> QED  BY <1>1, <1>2, <1>3, <2>1, JoiningIn
<1>5. u[0] = <<>> /\ \A i \in 1..n : u[i] = u[i - 1] \o Source(text[i])
  BY <1>2, <1>3 DEF Joining
<1>6. ASSUME NEW i \in 1..n, NEW e \in edits[i], NEW p \in Seq(C), deperturb(p) = u[i - 1]
      PROVE  e.put \in Seq(C) /\ deperturb(p \o e.put) = u[i]
  <2>1. StandsFor(text, i, e)
    BY <1>1, <1>6
  <2>2. text[i] \in C /\ i \in 0..n
    BY <1>1
  <2>3. u[i] = u[i - 1] \o Source(text[i]) /\ u[i] \in Seq(D)
    BY <1>4, <1>5, <2>2
  <2> HIDE DEF C, D
  <2>4. ASSUME NEW v \in C, e.put = <<v>>, Source(v) = Source(text[i])
        PROVE  e.put \in Seq(C) /\ deperturb(p \o e.put) = u[i]
    <3>1. deperturb(p \o <<v>>) = deperturb(p) \o Source(v)
      BY <1>6, <2>4, DeperturbMore
    <3>2. <<v>> \in Seq(C)
      BY <2>4
    <3> QED  BY <1>6, <2>3, <2>4, <3>1, <3>2
  <2>5. ASSUME NEW z \in C, e.put = <<text[i], z>>, Source(z) = <<>>
        PROVE  e.put \in Seq(C) /\ deperturb(p \o e.put) = u[i]
    <3>1. PICK c, q : c = text[i] /\ q = p \o <<c>>
      OBVIOUS
    <3>2. q \in Seq(C) /\ q \o <<z>> = p \o <<c, z>> /\ <<c, z>> \in Seq(C)
      <4>1. p \in Seq(C) /\ c \in C /\ z \in C
        BY <2>2, <2>5, <3>1
      <4> QED  BY ONLY <3>1, <4>1
    <3>3. deperturb(q) = u[i]
      <4>1. deperturb(p \o <<c>>) = deperturb(p) \o Source(c)
        BY <2>2, <3>1, DeperturbMore
      <4> QED  BY <1>6, <2>3, <3>1, <4>1
    <3>4. deperturb(q \o <<z>>) = deperturb(q) \o Source(z)
      BY <2>5, <3>2, DeperturbMore
    <3>5. u[i] \o <<>> = u[i]
      BY ONLY <2>3
    <3> QED  BY <2>5, <3>1, <3>2, <3>3, <3>4, <3>5
  <2> QED  BY <2>1, <2>4, <2>5 DEF StandsFor, C
<1> HIDE DEF C, D
<1>7. ASSUME NEW i \in 1..n, NEW e \in edits[i]
      PROVE  e.uses = 1 /\ e.cost \in {0, 1} /\ e.put \in Seq(C)
  <2>1. StandsFor(text, i, e)
    BY <1>1, <1>7
  <2>2. text[i] \in C
    BY <1>1
  <2>3. \A v \in C : <<v>> \in Seq(C) /\ <<text[i], v>> \in Seq(C)
    BY <2>2
  <2> QED  BY <2>1, <2>3 DEF StandsFor, C
<1>8. GoesOn(edits) /\ EditsOver(edits, C)
  <2>1. ASSUME NEW i \in 1..n, NEW e \in edits[i]
        PROVE  /\ e.uses \in Nat \ {0} /\ i + e.uses <= n + 1
               /\ e.put \in Seq(C) /\ e.cost \in Nat
    BY <1>1, <1>7, <2>1
  <2> QED  BY <1>1, <2>1 DEF GoesOn, EditsOver
<1> DEFINE T == { x \in (1..(n + 1)) \X Seq(C) \X Nat : deperturb(x[2]) = u[x[1] - 1] }
<1>9. ASSUME NEW i \in 1..(n + 1), NEW p \in Seq(C), NEW m \in Nat
      PROVE  <<i, p, m>> \in T <=> deperturb(p) = u[i - 1]
  OBVIOUS
<1> HIDE DEF T
<1>10. Passes(edits, C, T)
  <2>1. deperturb(<<>>) = <<>>
    <3>1. PICK e : e = <<>>
      OBVIOUS
    <3>2. e \in Seq(C) /\ Len(e) = 0
      BY <3>1
    <3>3. Len(Sources(e)) = 0 /\ deperturb(e) = Joined(Sources(e))
      BY <3>2, SourcesLen
    <3>4. PICK w : Joining(Sources(e), w) /\ Joined(Sources(e)) = w[Len(Sources(e))]
      BY <3>3, JoinedSteps
    <3> QED  BY <3>1, <3>3, <3>4 DEF Joining
  <2>2. <<1, <<>>, 0>> \in T
    <3>1. PICK x, y, z : x = 1 /\ y = <<>> /\ z = 0
      OBVIOUS
    <3>2. x \in 1..(n + 1) /\ y \in Seq(C) /\ z \in Nat /\ x - 1 = 0
      BY <1>1, <3>1
    <3>3. deperturb(y) = u[x - 1]
      BY <1>5, <2>1, <3>1, <3>2
    <3>4. <<x, y, z>> \in T
      BY <1>9, <3>2, <3>3
    <3> QED  BY <3>1, <3>4
  <2>3. ASSUME NEW i \in 1..n, NEW e \in edits[i], NEW p \in Seq(C), NEW m \in Nat,
               <<i, p, m>> \in T
        PROVE  <<i + e.uses, p \o e.put, m + e.cost>> \in T
    <3>1. i \in 1..(n + 1)
      BY <1>1
    <3>2. deperturb(p) = u[i - 1]
      BY <1>9, <2>3, <3>1
    <3>3. e.put \in Seq(C) /\ deperturb(p \o e.put) = u[i] /\ e.uses = 1 /\ e.cost \in {0, 1}
      BY <1>6, <1>7, <2>3, <3>2
    <3>4. PICK x, y, z : x = i + e.uses /\ y = p \o e.put /\ z = m + e.cost
      OBVIOUS
    <3>5. x \in 1..(n + 1) /\ y \in Seq(C) /\ z \in Nat /\ x - 1 = i
      <4>1. x \in 1..(n + 1) /\ x - 1 = i
        BY <1>1, <3>3, <3>4
      <4>2. y \in Seq(C)
        BY <3>3, <3>4
      <4>3. z \in Nat
        BY <3>3, <3>4
      <4> QED  BY <4>1, <4>2, <4>3
    <3>6. <<x, y, z>> \in T
      BY <1>9, <3>3, <3>4, <3>5
    <3> QED  BY <3>4, <3>6
  <2> QED  BY <1>1, <2>2, <2>3 DEF Passes
<1>11. o.text \in Seq(C) /\ o.mutations \in Nat /\ <<Len(edits) + 1, o.text, o.mutations>> \in T
  BY <1>8, <1>10, PassEnds
<1>12. n + 1 \in 1..(n + 1) /\ (n + 1) - 1 = n
  BY <1>1
<1> QED  BY <1>1, <1>3, <1>9, <1>11, <1>12

(* What a method of the unicode family makes of a text reverses to what    *)
(* the text itself reverses to.                                            *)
LEMMA LookalikesReverse ==
  ASSUME NEW text, IsSeq(text), NEW rate,
         NEW method \in {"invisible_space", "zero_width", "homoglyph"},
         NEW o \in apply_method(method, text, rate)
  PROVE  deperturb(o.text) = deperturb(text)
<1>1. ASSUME NEW equivalents,
             \A c \in DOMAIN equivalents : \A v \in equivalents[c] :
               v \in Owned /\ Source(v) = Source(c),
             o \in Substituted(text, rate, equivalents)
      PROVE  deperturb(o.text) = deperturb(text)
  <2>1. PICK edits : /\ edits = [ i \in DOMAIN text |->
                          IF text[i] \in DOMAIN equivalents
                          THEN UNION { IF hit
                                       THEN { Edit(<<v>>, 1, 1) : v \in equivalents[text[i]] }
                                       ELSE {Plain(text, i)} :
                                       hit \in Drawn(rate) }
                          ELSE {Plain(text, i)} ]
                     /\ o \in Rewritten(edits)
    BY <1>1 DEF Substituted
  <2>2. DOMAIN edits = DOMAIN text /\ edits = [i \in DOMAIN text |-> edits[i]]
    BY <2>1
  <2>3. ASSUME NEW i \in DOMAIN text, NEW e \in edits[i] PROVE StandsFor(text, i, e)
    <3>1. e \in IF text[i] \in DOMAIN equivalents
                THEN UNION { IF hit
                             THEN { Edit(<<v>>, 1, 1) : v \in equivalents[text[i]] }
                             ELSE {Plain(text, i)} :
                             hit \in Drawn(rate) }
                ELSE {Plain(text, i)}
      BY <2>1, <2>3
    <3> QED  BY <1>1, <3>1, SubstitutesStandFor
  <2> QED  BY <2>1, <2>2, <2>3, StandInsReverse
<1>2. CASE method = "invisible_space"
  <2>1. o \in Substituted(text, rate, [c \in {Space} |-> SpaceVariants])
    BY <1>2 DEF apply_method, substitute_spaces
  <2>2. \A v \in SpaceVariants : v \in Owned /\ Source(v) = Source(Space)
    <3>1. Source(Space) = <<Space>>
      BY CharactersAssumption, SourceIs
    <3> QED  BY <3>1, SourceIs DEF Owned
  <2>3. PICK f : f = [c \in {Space} |-> SpaceVariants]
    OBVIOUS
  <2>4. \A c \in DOMAIN f : \A v \in f[c] : v \in Owned /\ Source(v) = Source(c)
    BY <2>2, <2>3
  <2> QED  BY <1>1, <2>1, <2>3, <2>4
<1>3. CASE method = "homoglyph"
  <2>1. o \in Substituted(text, rate, [c \in DOMAIN Homoglyphs |-> {Homoglyphs[c]}])
    BY <1>3 DEF apply_method, substitute_homoglyphs
  <2>2. \A c \in DOMAIN Homoglyphs : Homoglyphs[c] \in Owned /\ Source(Homoglyphs[c]) = Source(c)
    <3>1. \A c \in DOMAIN Homoglyphs : Source(c) = <<c>>
      BY CharactersAssumption, SourceIs
    <3> QED  BY <3>1, SourceIs DEF Owned
  <2>3. PICK f : f = [c \in DOMAIN Homoglyphs |-> {Homoglyphs[c]}]
    OBVIOUS
  <2>4. \A c \in DOMAIN f : \A v \in f[c] : v \in Owned /\ Source(v) = Source(c)
    BY <2>2, <2>3
  <2> QED  BY <1>1, <2>1, <2>3, <2>4
<1>4. CASE method = "zero_width"
  <2>1. o \in insert_zero_width(text, rate)
    BY <1>4 DEF apply_method
  <2>2. PICK edits : /\ edits = [ i \in DOMAIN text |->
                          IF i < Len(text)
                          THEN UNION { IF hit
                                       THEN { Edit(<<text[i], z>>, 1, 1) : z \in ZeroWidth }
                                       ELSE {Plain(text, i)} :
                                       hit \in Drawn(rate) }
                          ELSE {Plain(text, i)} ]
                     /\ o \in Rewritten(edits)
    BY <2>1 DEF insert_zero_width
  <2>3. DOMAIN edits = DOMAIN text /\ edits = [i \in DOMAIN text |-> edits[i]]
    BY <2>2
  <2>4. ASSUME NEW i \in DOMAIN text, NEW e \in edits[i] PROVE StandsFor(text, i, e)
    <3>1. e \in IF i < Len(text)
                THEN UNION { IF hit
                             THEN { Edit(<<text[i], z>>, 1, 1) : z \in ZeroWidth }
                             ELSE {Plain(text, i)} :
                             hit \in Drawn(rate) }
                ELSE {Plain(text, i)}
      BY <2>2, <2>4
    <3> QED  BY <3>1, ZeroWidthsStandFor
  <2> QED  BY <2>2, <2>3, <2>4, StandInsReverse
<1> QED  BY <1>2, <1>3, <1>4

-----------------------------------------------------------------------------
(* Edits *)

EditAccounted(text, x) ==
  /\ x.family = "typo_noise" =>
       /\ levenshtein(text, x.text) <= 2 * x.params.mutation_count
       /\ x.params.mutation_count = 0 => x.text = text
  /\ x.family = "unicode" =>
       /\ deperturb(x.text) = deperturb(text)
       /\ Reverses(text, x.text) <=> \A k \in DOMAIN text : text[k] \notin Owned

LEMMA MethodOfSample ==
  ASSUME NEW L \in Nat, NEW count \in Nat \ {0}, NEW k \in 1..(L * count)
  PROVE  (k - 1) \div count + 1 \in 1..L
<1>1. PICK q, r \in Int : q = (k - 1) \div count /\ k - 1 = count * q + r /\ 0 <= r /\ r < count
  OBVIOUS
<1>2. q \in Nat
  <2>1. q \in Int
    BY <1>1
  <2>2. ASSUME q <= -1 PROVE FALSE
    <3>1. count * q <= - count
      BY <2>1, <2>2
    <3>2. L * count \in Nat /\ k >= 1 /\ k \in Int
      OBVIOUS
    <3> QED  BY <1>1, <2>1, <3>1, <3>2
  <2> QED  BY <2>1, <2>2
<1>3. q < L
  <2>1. ASSUME q >= L PROVE FALSE
    <3>1. L * count <= q * count /\ q * count = count * q
      BY <1>2, <2>1
    <3>2. L * count \in Nat /\ k <= L * count /\ k \in Int /\ q * count \in Nat
      BY <1>2
    <3> QED  BY <1>1, <3>1, <3>2
  <2> QED  BY <1>2, <2>1
<1> QED  BY <1>1, <1>2, <1>3

LEMMA SamplesAccounted ==
  ASSUME NEW p, WellFormed(p), p.type # "paraphrase", NEW text, IsSeq(text),
         NEW k \in DOMAIN Samples(p, text), NEW o \in Samples(p, text)[k].outcomes,
         NEW x, x.family = p.type, x.text = o.text, x.params.mutation_count = o.mutations
  PROVE  EditAccounted(text, x)
<1>1. CASE p.type = "typo_noise"
  <2>1. Samples(p, text)
          = [j \in 1..p.count |-> Sample("character_mutations", mutate_once(text, p.rate))]
    BY <1>1 DEF Samples
  <2>2. o \in mutate_once(text, p.rate)
    BY <2>1 DEF Sample
  <2>3. /\ levenshtein(text, o.text) <= 2 * o.mutations
        /\ o.mutations = 0 => o.text = text
    BY <2>2, TypoIsCounted
  <2> QED  BY <1>1, <2>3 DEF EditAccounted
<1>2. CASE p.type = "casing"
  BY <1>2 DEF EditAccounted
<1>3. CASE p.type = "unicode"
  <2>1. PICK methods, count : methods = p.methods /\ count = p.count
    OBVIOUS
  <2>2. /\ Len(methods) \in Nat /\ count \in Nat \ {0} /\ DOMAIN methods = 1..Len(methods)
        /\ \A j \in DOMAIN methods : methods[j] \in {"invisible_space", "zero_width", "homoglyph"}
    BY <1>3, <2>1, ConcatLen DEF WellFormed
  <2>3. Samples(p, text) = [j \in 1..(Len(methods) * count) |->
          Sample(methods[(j - 1) \div count + 1],
                 apply_method(methods[(j - 1) \div count + 1], text, p.rate))]
    BY <1>3, <2>1 DEF Samples
  <2>4. PICK m : m = methods[(k - 1) \div count + 1]
    OBVIOUS
  <2>5. k \in 1..(Len(methods) * count) /\ Samples(p, text)[k] = Sample(m, apply_method(m, text, p.rate))
    BY <2>3, <2>4
  <2>6. m \in {"invisible_space", "zero_width", "homoglyph"}
    <3>1. (k - 1) \div count + 1 \in 1..Len(methods)
      BY <2>2, <2>5, MethodOfSample
    <3> QED  BY <2>2, <2>4, <3>1
  <2>7. o \in apply_method(m, text, p.rate)
    BY <2>5 DEF Sample
  <2>8. deperturb(o.text) = deperturb(text)
    BY <2>6, <2>7, LookalikesReverse
  <2>9. deperturb(text) = text <=> \A j \in DOMAIN text : text[j] \notin Owned
    BY DeperturbLeaves
  <2> QED  BY <1>3, <2>8, <2>9 DEF EditAccounted, Reverses
<1> QED  BY <1>1, <1>2, <1>3 DEF WellFormed

LEMMA AddedAccounted ==
  ASSUME TypeOK, EditsAreAccountedFor, NEW added, IsSeq(added),
         \A c \in Cases :
           realized'[c] = IF c = at.case THEN realized[c] \o added ELSE realized[c],
         \A k \in DOMAIN added : EditAccounted(Text, added[k])
  PROVE  EditsAreAccountedFor'
<1>0. \A c \in Cases : \A i \in DOMAIN realized[c] : EditAccounted(CaseInput[c], realized[c][i])
  BY DEF EditsAreAccountedFor, EditAccounted
<1>1. ASSUME NEW c \in Cases, NEW i \in DOMAIN realized'[c]
      PROVE  EditAccounted(CaseInput[c], realized'[c][i])
  <2>1. CASE c = at.case
    <3>1. PICK q, t : q = realized[c] /\ t = realized'[c]
      OBVIOUS
    <3>2. Concatenation(q, added, t)
      <4>1. IsSeq(q) /\ t = q \o added
        BY <2>1, <3>1 DEF TypeOK
      <4> QED  BY <4>1, ConcatType
    <3>3. i \in DOMAIN q \/ \E k \in DOMAIN added : i = Len(q) + k
      BY <1>1, <3>1, <3>2 DEF Concatenation
    <3>4. CASE i \in DOMAIN q
      BY <1>0, <3>1, <3>2, <3>4 DEF Concatenation
    <3>5. ASSUME NEW k \in DOMAIN added, i = Len(q) + k
          PROVE  EditAccounted(CaseInput[c], realized'[c][i])
      <4>1. realized'[c][i] = added[k] /\ Text = CaseInput[c]
        BY <2>1, <3>1, <3>2, <3>5 DEF Concatenation, Text
      <4> QED  BY <4>1
    <3> QED  BY <3>3, <3>4, <3>5
  <2>2. CASE c # at.case
    <3>1. realized'[c] = realized[c]
      BY <2>2
    <3> QED  BY <1>0, <1>1, <3>1
  <2> QED  BY <2>1, <2>2
<1> QED  BY <1>1 DEF EditsAreAccountedFor, EditAccounted

LEMMA LocalAccounted ==
  ASSUME MaterializerInv, EditsAreAccountedFor, ApplyLocal
  PROVE  EditsAreAccountedFor'
<1>1. TypeOK /\ pc = "working" /\ Here.type # "paraphrase" /\ at.case \in Cases
  BY DEF MaterializerInv, ApplyLocal, TypeOK
<1>2. PICK added :
        /\ IsSeq(added)
        /\ realized' = [realized EXCEPT ![at.case] = @ \o added]
        /\ DOMAIN added = DOMAIN Samples(Here, Text)
        /\ \A k \in DOMAIN added : DrawnFrom(added[k], Samples(Here, Text)[k])
  BY LocalInputs
<1>3. WellFormed(Here) /\ IsSeq(Text)
  BY <1>1, SpecType, MaterializerAssumption DEF TypeOK, Here, Text
<1>4. ASSUME NEW k \in DOMAIN added PROVE EditAccounted(Text, added[k])
  <2>1. DrawnFrom(added[k], Samples(Here, Text)[k]) /\ k \in DOMAIN Samples(Here, Text)
    BY <1>2
  <2> QED  BY <1>1, <1>3, <2>1, SamplesAccounted DEF DrawnFrom
<1>5. \A c \in Cases :
        realized'[c] = IF c = at.case THEN realized[c] \o added ELSE realized[c]
  BY <1>1, <1>2 DEF TypeOK
<1> QED  BY <1>1, <1>2, <1>4, <1>5, AddedAccounted

LEMMA RewriteAccounted ==
  ASSUME MaterializerInv, EditsAreAccountedFor, Rewrite
  PROVE  EditsAreAccountedFor'
<1>1. TypeOK /\ Here.type = "paraphrase"
  BY DEF MaterializerInv, Rewrite
<1>2. PICK new, added : \E valid \in BOOLEAN : RewriteMakes(new, valid, added)
  BY RewriteParts
<1>3. /\ IsSeq(added) /\ \A k \in DOMAIN added : added[k].family = "paraphrase"
      /\ \A c \in Cases :
           realized'[c] = IF c = at.case THEN realized[c] \o added ELSE realized[c]
  BY <1>1, <1>2 DEF RewriteMakes
<1>4. \A k \in DOMAIN added : EditAccounted(Text, added[k])
  BY <1>3 DEF EditAccounted
<1> QED  BY <1>1, <1>3, <1>4, AddedAccounted

(* The counts that validity scores and reports rest on, for every text and *)
(* every rate: a typo's edit distance is within twice its mutation count,  *)
(* and a unicode text reverses exactly if the original held none of the    *)
(* characters the family introduces.                                       *)
THEOREM EditsAccounted == Spec => []EditsAreAccountedFor
<1>1. Init => EditsAreAccountedFor
  <2> SUFFICES ASSUME Init PROVE EditsAreAccountedFor
    OBVIOUS
  <2>1. \A c \in Cases : DOMAIN realized[c] = {}
    BY DEF Init
  <2> QED  BY <2>1 DEF EditsAreAccountedFor
<1>2. MaterializerInv /\ EditsAreAccountedFor /\ [Next]_vars => EditsAreAccountedFor'
  <2> SUFFICES ASSUME MaterializerInv, EditsAreAccountedFor, [Next]_vars
               PROVE  EditsAreAccountedFor'
    OBVIOUS
  <2>1. CASE ApplyLocal
    BY <2>1, LocalAccounted
  <2>2. CASE Rewrite
    BY <2>2, RewriteAccounted
  <2>3. CASE RewriteRaises \/ UNCHANGED vars
    <3>1. realized' = realized
      BY <2>3 DEF RewriteRaises, vars
    <3> QED  BY <3>1 DEF EditsAreAccountedFor
  <2> QED  BY <2>1, <2>2, <2>3 DEF Next
<1> QED  BY <1>1, <1>2, MaterializerInvariant, PTL DEF Spec
=============================================================================
