--------------------------- MODULE Verdicts_proofs ---------------------------
(***************************************************************************)
(* Lemmas about the roll-up of the verdicts of cases into that of a        *)
(* session, for any number of cases.                                       *)
(***************************************************************************)
EXTENDS Verdicts, TLAPS, WellFoundedInduction

(* A set of natural numbers has a least element. *)
LEMMA LeastNatural ==
  ASSUME NEW S \in SUBSET Nat, S # {}
  PROVE  \E m \in S : \A k \in S : m <= k
<1> DEFINE R == OpToRel(<, Nat)
<1>1. IsWellFoundedOn(R, Nat)
  BY NatLessThanWellFounded
<1>2. \E m \in S : \A k \in S : <<k, m>> \notin R
  BY <1>1, WFMin, Zenon
<1>3. \A k, m \in Nat : k < m => <<k, m>> \in R
  BY DEF OpToRel
<1> HIDE DEF R
<1>4. PICK m \in S : \A k \in S : <<k, m>> \notin R
  BY <1>2
<1>5. ASSUME NEW k \in S PROVE m <= k
  <2>1. k \in Nat /\ m \in Nat /\ ~ (k < m)
    BY <1>3, <1>4
  <2> QED
    BY <2>1
<1> QED
  BY <1>5

-----------------------------------------------------------------------------
(* The verdict of a session *)

(* A tainted session gets the worst of its taints. *)
LEMMA TaintFirst ==
  ASSUME NEW verdicts, Taints(verdicts) # {}
  PROVE  \E k \in Taints(verdicts) :
           /\ resolve_session(verdicts) = TaintOrder[k]
           /\ \A j \in Taints(verdicts) : k <= j
<1>1. Taints(verdicts) \in SUBSET Nat
  BY DEF Taints
<1>2. \E k \in Taints(verdicts) : \A j \in Taints(verdicts) : k <= j
  BY <1>1, LeastNatural
<1> QED
  BY <1>2 DEF resolve_session

(* The roll-up always gives a verdict of the taxonomy. *)
LEMMA SessionType ==
  ASSUME NEW verdicts
  PROVE  resolve_session(verdicts) \in Verdict
<1>1. CASE Taints(verdicts) # {}
  <2>1. \A k \in 1..6 : TaintOrder[k] \in Verdict
    BY DEF TaintOrder, Verdict
  <2> QED
    BY <1>1, <2>1, TaintFirst DEF Taints
<1>2. CASE Taints(verdicts) = {}
  BY <1>2 DEF resolve_session, Verdict
<1> QED
  BY <1>1, <1>2

(* One case that is consistently wrong, or broken, decides the session.    *)
LEMMA WrongCaseTaints ==
  ASSUME NEW verdicts, NEW i \in DOMAIN verdicts,
         verdicts[i] \in {"INVALID_EVAL", "CONSISTENTLY_WRONG"}
  PROVE  resolve_session(verdicts) \in {"INVALID_EVAL", "CONSISTENTLY_WRONG"}
<1>1. PICK w \in {1, 2} : w \in Taints(verdicts)
  BY DEF Taints, TaintOrder
<1>2. PICK k \in Taints(verdicts) : /\ resolve_session(verdicts) = TaintOrder[k]
                                    /\ \A j \in Taints(verdicts) : k <= j
  BY <1>1, TaintFirst
<1>3. k \in {1, 2}
  BY <1>1, <1>2 DEF Taints
<1> QED
  BY <1>2, <1>3 DEF TaintOrder

(* A session succeeds when no case speaks against it. *)
LEMMA SuccessIsUntainted ==
  ASSUME NEW verdicts, \A i \in DOMAIN verdicts : verdicts[i] \in Verdict,
         resolve_session(verdicts) \in Success,
         NEW i \in DOMAIN verdicts
  PROVE  verdicts[i] \in Success \cup {"INSUFFICIENT"}
<1>1. Taints(verdicts) = {}
  <2>1. \A k \in 1..6 : TaintOrder[k] \notin Success
    BY DEF TaintOrder, Success
  <2> QED
    BY <2>1, TaintFirst DEF Taints
<1>2. \A k \in 1..6 : verdicts[i] # TaintOrder[k]
  BY <1>1 DEF Taints
<1> QED
  BY <1>2 DEF TaintOrder, Verdict, Success
=============================================================================
