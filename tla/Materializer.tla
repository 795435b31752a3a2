---------------------------- MODULE Materializer -----------------------------
(***************************************************************************)
(* materialize() of spec/materializer.py, step by step: the cases of a     *)
(* spec in their order, the perturbations of each, and for paraphrase each *)
(* sample with its attempts, which call the model and gate its answer.     *)
(* A call that fails ends everything: nothing realized so far survives.    *)
(*                                                                         *)
(* A perturbation is a record with its type and                            *)
(*   typo_noise  count, rate             casing      variants              *)
(*   unicode     methods, count, rate    paraphrase  count, max_attempts   *)
(***************************************************************************)
EXTENDS TextEdits

CONSTANTS
  CaseInput,      \* the cases' input texts, in the order of the spec
  Perturbations,  \* case -> its perturbations, in their order
  Rewritings,     \* case -> what the model may answer when asked to rewrite
  Similar,        \* <<a, b>> whose cosine similarity meets the threshold
  Entails,        \* <<a, b>> with a |= b by the NLI backend, above 0.7
  NLI,            \* was the run given an NLI backend?
  Digest(_, _),   \* the 64-bit digest of "a:b", from which seeds are derived
  SessionSeed,    \* run.seed
  CaseId,         \* case -> case.id
  MaxApiSeed      \* _MAX_API_SEED

Cases == DOMAIN CaseInput

derive_case_seed(c) == Digest(SessionSeed, CaseId[c])
derive_perturbation_seed(c, index) == Digest(derive_case_seed(c), index)

(* The samples of a local perturbation: each with its method and the texts *)
(* and mutation counts it may come out with.                               *)
Sample(method, outcomes) == [method |-> method, outcomes |-> outcomes]

Samples(p, text) ==
  CASE p.type = "typo_noise" ->
         [k \in 1..p.count |-> Sample("character_mutations", mutate_once(text, p.rate))]
    [] p.type = "casing" ->
         [k \in DOMAIN p.variants |->
            Sample(p.variants[k], {[text |-> Cased(p.variants[k], text), mutations |-> 0]})]
    [] p.type = "unicode" ->
         [k \in 1..(Len(p.methods) * p.count) |->
            LET method == p.methods[(k - 1) \div p.count + 1]
            IN Sample(method, apply_method(method, text, p.rate))]

(* Mutant of sample_index: unicode counts the samples of each method.      *)
sample_index_PerMethod(p, k) ==
  IF p.type = "unicode" THEN (k - 1) % p.count ELSE k - 1

sample_index(p, k) == k - 1

(* The gate of paraphrase.py: cosine, then entailment both ways if the run *)
(* has an NLI backend.                                                     *)
validate(original, text) ==
  /\ <<original, text>> \in Similar
  /\ NLI => <<original, text>> \in Entails /\ <<text, original>> \in Entails

IsSeq(s) == s \in Seq({ s[i] : i \in DOMAIN s })

(* The bounds of PerturbationSpec (spec/models.py), and one it leaves out: *)
(* the calls of a paraphrase are no more than there are seeds for them.    *)
WellFormed(p) ==
  \/ p.type = "typo_noise" /\ p.count \in Nat \ {0}
  \/ p.type = "casing" /\ IsSeq(p.variants)
  \/ /\ p.type = "unicode" /\ p.count \in Nat \ {0} /\ IsSeq(p.methods)
     /\ \A k \in DOMAIN p.methods :
          p.methods[k] \in {"invisible_space", "zero_width", "homoglyph"}
  \/ /\ p.type = "paraphrase"
     /\ p.count \in Nat \ {0} /\ p.max_attempts \in Nat \ {0}
     /\ p.count * p.max_attempts <= MaxApiSeed

(* Digests do not collide on the seeds of a spec, whose case ids differ    *)
(* (Spec._no_duplicate_case_ids).                                         *)
ASSUME MaterializerAssumption ==
  /\ IsSeq(CaseInput) /\ CaseInput # <<>> /\ \A c \in Cases : IsSeq(CaseInput[c])
  /\ MaxApiSeed \in Nat \ {0}
  /\ \A c \in Cases :
       /\ IsSeq(Perturbations[c]) /\ Perturbations[c] # <<>>
       /\ \A i \in DOMAIN Perturbations[c] :
            /\ derive_perturbation_seed(c, i) \in Nat
            /\ WellFormed(Perturbations[c][i])
  /\ \A c, d \in Cases : \A i \in DOMAIN Perturbations[c], j \in DOMAIN Perturbations[d] :
       derive_perturbation_seed(c, i) = derive_perturbation_seed(d, j) => c = d /\ i = j

VARIABLES
  pc,        \* "working", "done", or "failed": an exception is on its way
  at,        \* the case, perturbation, sample and attempt that come next
  realized,  \* case -> the PerturbedInputs realized so far
  calls      \* the rewrites asked for so far, with their answers

vars == <<pc, at, realized, calls>>

Here == Perturbations[at.case][at.index]
Text == CaseInput[at.case]
Seed == derive_perturbation_seed(at.case, at.index)

At(case, index, sample, attempt) ==
  [case |-> case, index |-> index, sample |-> sample, attempt |-> attempt]

(* Every case has perturbations (CaseSpec's min_length). *)
Init ==
  /\ pc = "working"
  /\ at = At(1, 1, 0, 0)
  /\ realized = [c \in Cases |-> <<>>]
  /\ calls = <<>>

(* On to the next perturbation, of this case or of the next.               *)
Onward ==
  IF at.index < Len(Perturbations[at.case])
  THEN pc' = pc /\ at' = At(at.case, at.index + 1, 0, 0)
  ELSE /\ at' = At(at.case + 1, 1, 0, 0)
       /\ pc' = IF at.case = Len(CaseInput) THEN "done" ELSE pc

PerturbedInput(text, method, params) ==
  [ text |-> text, family |-> Here.type, method |-> method, seed |-> Seed,
    params |-> params ]

(* apply of a local perturbation: all its samples. *)
ApplyLocal ==
  /\ pc = "working" /\ Here.type # "paraphrase"
  /\ LET samples == Samples(Here, Text)
         draws == [ DOMAIN samples -> UNION { samples[k].outcomes : k \in DOMAIN samples } ]
     IN \E drawn \in draws :
          /\ \A k \in DOMAIN samples : drawn[k] \in samples[k].outcomes
          /\ realized' = [realized EXCEPT ![at.case] = @ \o
               [ k \in DOMAIN samples |->
                   PerturbedInput(drawn[k].text, samples[k].method,
                                  [ sample_index |-> sample_index(Here, k),
                                    mutation_count |-> drawn[k].mutations ]) ] ]
  /\ Onward
  /\ UNCHANGED calls

(* Mutant of per_call_seed: the samples' attempts overlap.                 *)
per_call_seed_Overlaps(seed, sample, attempt, max_attempts) ==
  (seed + sample + attempt) % MaxApiSeed

per_call_seed(seed, sample, attempt, max_attempts) ==
  (seed + sample * max_attempts + attempt) % MaxApiSeed

(* Mutant of NextSample: the next sample goes on counting the attempts.    *)
NextSample_KeepsCount ==
  IF at.sample + 1 < Here.count
  THEN at' = At(at.case, at.index, at.sample + 1, at.attempt) /\ UNCHANGED pc
  ELSE Onward

NextSample ==
  IF at.sample + 1 < Here.count
  THEN at' = At(at.case, at.index, at.sample + 1, 0) /\ UNCHANGED pc
  ELSE Onward

Retry == at' = At(at.case, at.index, at.sample, at.attempt + 1) /\ UNCHANGED pc

(* Mutant of MoreAttempts: the bound is taken as inclusive.                *)
MoreAttempts_Inclusive == at.attempt < Here.max_attempts

MoreAttempts == at.attempt + 1 < Here.max_attempts

(* Mutant of AfterAttempt: a valid answer does not end the attempts.       *)
AfterAttempt_NoBreak(valid) == IF MoreAttempts THEN Retry ELSE NextSample

AfterAttempt(valid) == IF MoreAttempts /\ ~ valid THEN Retry ELSE NextSample

(* One attempt: call the model, gate what it answers.  A sample whose last *)
(* attempt misses the gate is dropped.                                     *)
Rewrite ==
  /\ pc = "working" /\ Here.type = "paraphrase"
  /\ \E text \in Rewritings[at.case] :
       LET valid == validate(Text, text)
           kept == PerturbedInput(text, "llm_rewrite",
                                  [ sample_index |-> at.sample,
                                    attempts_used |-> at.attempt + 1 ])
       IN /\ calls' = Append(calls,
               [ at |-> at, text |-> text,
                 seed |-> per_call_seed(Seed, at.sample, at.attempt, Here.max_attempts) ])
          /\ realized' = IF valid
                         THEN [realized EXCEPT ![at.case] = Append(@, kept)]
                         ELSE realized
          /\ AfterAttempt(valid)

(* The adapter raises, or the embedding or NLI model cannot be loaded.     *)
RewriteRaises ==
  /\ pc = "working" /\ Here.type = "paraphrase"
  /\ pc' = "failed"
  /\ UNCHANGED <<at, realized, calls>>

Next == ApplyLocal \/ Rewrite \/ RewriteRaises

(* Every call returns or times out, and the loops are bounded.             *)
Spec == Init /\ [][Next]_vars /\ WF_vars(Next)

-----------------------------------------------------------------------------
(* Properties *)

TypeOK ==
  /\ pc \in {"working", "done", "failed"}
  /\ at \in [case : Nat, index : Nat, sample : Nat, attempt : Nat]
  /\ pc = "working" =>
       /\ at.case \in Cases
       /\ at.index \in DOMAIN Perturbations[at.case]
       /\ IF Here.type = "paraphrase"
          THEN /\ at.sample \in 0..(Here.count - 1)
               /\ at.attempt \in 0..(Here.max_attempts - 1)
          ELSE at.sample = 0 /\ at.attempt = 0
  /\ DOMAIN realized = Cases
  /\ \A c \in Cases :
       /\ IsSeq(realized[c])
       /\ \A i \in DOMAIN realized[c] : realized[c][i].params.sample_index \in Nat
  /\ IsSeq(calls)

(* base.py's reproducibility convention: the seed of the lineage with the  *)
(* sample index is the identity of a sample.  No two inputs of a session   *)
(* share it, whatever methods, samples and retries they come from.         *)
SampleIdentity ==
  \A c, d \in Cases :
    \A i \in DOMAIN realized[c], j \in DOMAIN realized[d] :
         /\ realized[c][i].seed = realized[d][j].seed
         /\ realized[c][i].params.sample_index = realized[d][j].params.sample_index
      => c = d /\ i = j

(* Is the loop past sample s of perturbation i of case c? *)
Past(c, i, s) ==
  \/ at.case > c
  \/ at.case = c /\ (at.index > i \/ (at.index = i /\ at.sample > s))

Paraphrases(c) ==
  { i \in DOMAIN Perturbations[c] : Perturbations[c][i].type = "paraphrase" }

CallsOf(c, i) ==
  { k \in DOMAIN calls : calls[k].at.case = c /\ calls[k].at.index = i }

(* The calls for a sample, those whose answer met the gate, and the inputs *)
(* realized for it.                                                        *)
Tries(c, i, s) == { k \in CallsOf(c, i) : calls[k].at.sample = s }
Valid(c, i, s) == { k \in Tries(c, i, s) : validate(CaseInput[c], calls[k].text) }
Kept(c, i, s) ==
  { x \in DOMAIN realized[c] :
      /\ realized[c][x].seed = derive_perturbation_seed(c, i)
      /\ realized[c][x].params.sample_index = s }

Settled(c, i, s) ==
  /\ Cardinality(Kept(c, i, s)) = Cardinality(Valid(c, i, s))
  /\ Valid(c, i, s) = {} => Cardinality(Tries(c, i, s)) = Perturbations[c][i].max_attempts
  /\ \A k \in Valid(c, i, s) : \A x \in Kept(c, i, s) :
       /\ \A j \in Tries(c, i, s) : j <= k
       /\ realized[c][x].text = calls[k].text
       /\ realized[c][x].params.attempts_used = Cardinality(Tries(c, i, s))

(* Each sample of a paraphrase stopped at its first valid answer, which is *)
(* what was realized, under the number of attempts it took; or it was      *)
(* dropped after max_attempts answers none of which met the gate.  "Per-   *)
(* call seed varies so adapters that honor `seed` see distinct calls": no  *)
(* two calls for one paraphrase have one seed, after the reduction to the  *)
(* range of the provider's API.                                            *)
RewritesAreAccountedFor ==
  \A c \in Cases : \A i \in Paraphrases(c) :
    /\ \A j, k \in CallsOf(c, i) : calls[j].seed = calls[k].seed => j = k
    /\ \A s \in 0..(Perturbations[c][i].count - 1) : Past(c, i, s) => Settled(c, i, s)

(* The counts that validity scores and reports rest on: a typo's edit      *)
(* distance is within twice its mutation count (a transposition is one     *)
(* mutation and two edits), and no mutation means no change; a unicode     *)
(* text reverses to what the original reverses to, so that it is judged    *)
(* valid exactly if the original held none of the characters the family    *)
(* introduces.                                                             *)
EditsAreAccountedFor ==
  \A c \in Cases : \A i \in DOMAIN realized[c] :
    LET x == realized[c][i]
    IN /\ x.family = "typo_noise" =>
            /\ levenshtein(CaseInput[c], x.text) <= 2 * x.params.mutation_count
            /\ x.params.mutation_count = 0 => x.text = CaseInput[c]
       /\ x.family = "unicode" =>
            /\ deperturb(x.text) = deperturb(CaseInput[c])
            /\ Reverses(CaseInput[c], x.text)
                 <=> \A k \in DOMAIN CaseInput[c] : CaseInput[c][k] \notin Owned

-----------------------------------------------------------------------------
(* Refinement: what a session sees of all this *)

SlotsOf(p, c) ==
  IF p.type = "paraphrase"
  THEN [ k \in 1..p.count |->
           [ family |-> p.type, llm |-> TRUE,
             texts |-> { t \in Rewritings[c] : validate(CaseInput[c], t) } ] ]
  ELSE LET samples == Samples(p, CaseInput[c])
       IN [ k \in DOMAIN samples |->
              [ family |-> p.type, llm |-> FALSE,
                texts |-> { o.text : o \in samples[k].outcomes } ] ]

AskedFor ==
  [ c \in Cases |->
      Joined([i \in DOMAIN Perturbations[c] |-> SlotsOf(Perturbations[c][i], c)]) ]

AllTexts ==
  UNION { UNION { AskedFor[c][s].texts : s \in DOMAIN AskedFor[c] } : c \in Cases }

Outcome ==
  CASE pc = "working" -> "working"
    [] pc = "done" -> "returned"
    [] pc = "failed" -> "raised"

Returned ==
  [ c \in Cases |->
      IF pc = "done"
      THEN [ i \in DOMAIN realized[c] |->
               [family |-> realized[c][i].family, prompt |-> realized[c][i].text] ]
      ELSE <<>> ]

Contract ==
  INSTANCE RealizeOnce WITH
    NumCases <- Len(CaseInput), Slots <- AskedFor, Prompts <- AllTexts,
    Families <- {"typo_noise", "casing", "unicode", "paraphrase"},
    Outputs <- {}, NoOutput <- "none", state <- Outcome, inputs <- Returned

(* materialize() keeps its contract: it returns one of the realizations    *)
(* that a session may start from, or raises, and shows nothing in between. *)
ImplementsRealization == Contract!Spec
=============================================================================
