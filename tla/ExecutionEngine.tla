-------------------------- MODULE ExecutionEngine ---------------------------
(***************************************************************************)
(* execution/engine.py and execution/cache.py: one model call, answered    *)
(* from the run's cache when the temperature is zero.  A prompt stands for *)
(* its cache key: provider, model and max_tokens are those of the spec.    *)
(***************************************************************************)
EXTENDS Integers, Domain

CONSTANTS
  Answers,     \* the outputs the provider may give to each prompt
  Temperature, \* model.temperature
  CacheOn      \* run.cache: was an InMemoryCache built?

ASSUME EngineAssumption ==
  /\ Answers \in [Prompts -> SUBSET Outputs]
  /\ Temperature \in Nat
  /\ CacheOn \in BOOLEAN

VARIABLES
  cache,  \* the InMemoryCache of the run
  calls   \* how often the adapter was called for each prompt in the run

engineVars == <<cache, calls>>

EngineTypeOK ==
  /\ cache \in [Prompts -> Outputs \cup {NoOutput}]
  /\ calls \in [Prompts -> Nat]

EngineInit ==
  /\ cache = [p \in Prompts |-> NoOutput]
  /\ calls = [p \in Prompts |-> 0]

(* A new process: cmd_run builds a fresh cache. *)
EngineReset ==
  /\ cache' = [p \in Prompts |-> NoOutput]
  /\ calls' = [p \in Prompts |-> 0]

Caching == CacheOn /\ Temperature = 0

Cached(prompt) == Caching /\ cache[prompt] # NoOutput

Hit(prompt, out) ==
  /\ Cached(prompt)
  /\ out = cache[prompt]
  /\ UNCHANGED engineVars

(* Mutant of Miss: the answer is not put in the cache.                     *)
Miss_NoPut(prompt, out) ==
  /\ ~ Cached(prompt)
  /\ out \in Answers[prompt]
  /\ calls' = [calls EXCEPT ![prompt] = @ + 1]
  /\ UNCHANGED cache

Miss(prompt, out) ==
  /\ ~ Cached(prompt)
  /\ out \in Answers[prompt]
  /\ calls' = [calls EXCEPT ![prompt] = @ + 1]
  /\ cache' = IF Caching THEN [cache EXCEPT ![prompt] = out] ELSE cache

execute(prompt, out) == Hit(prompt, out) \/ Miss(prompt, out)

(* The adapter raises: error, timeout or malformed response, never retried *)
(* and never cached.                                                       *)
execute_raises(prompt) ==
  /\ ~ Cached(prompt)
  /\ calls' = [calls EXCEPT ![prompt] = @ + 1]
  /\ UNCHANGED cache
=============================================================================
