# falsifyai in TLA+

falsifyai evaluates a language model by trying to break it. A YAML spec lists
cases (an input, what is expected of the answer, perturbations of the input,
invariants the answers must keep). `falsifyai run` realizes the perturbations,
asks the model the original and every perturbed input, judges the answers, gives
each case one of nine verdicts, rolls the cases up into a session verdict, stores
the whole as a replay artifact and exits with a status derived from the verdict.
Every other command reads stored artifacts.

This directory holds TLA+ modules for that program, the TLC configurations that
check them on small instances, and proofs checked by TLAPS. `PROJECT.json` maps
every definition to the lines it models and lists runs, mutants, findings, hazards
and theorems.

    tlc -config MCSession.cfg MCSession      # model-check one run
    tlapm RunSession_proofs.tla              # check one module's proofs

## 1. The system

| component | source (under `falsifyai/`) | state | operations |
|---|---|---|---|
| run pipeline | `cli/run.py`, `cli/main.py`, `cli/errors.py` | locals of `cmd_run`; the process's status | load, materialize, execute the cases, roll up, save, render, exit; any of them may raise or be killed |
| spec loading | `spec/loader.py`, `spec/models.py` | none | `load_spec` |
| materialization | `spec/materializer.py`, `perturbation/*` | none (seeds are derived) | `materialize`: which perturbed inputs a case gets |
| paraphrase | `perturbation/paraphrase.py`, `validity.py` | none | `apply`: ask the model for rewrites, gate them, retry, drop |
| execution | `execution/engine.py`, `cache.py`, `litellm_adapter.py` | the run's `InMemoryCache` | `execute`: hit, miss, failure |
| invariants | `invariants/*` | none | `check` |
| oracles | `oracles/*` | none | `evaluate`: consistency, contradiction, hallucination, grounding, information-null, meta |
| case resolver | `verdict/resolver.py`, `stratify.py`, `consistency.py` | none | `resolve_case`, `resolve_session` |
| verdicts and statuses | `verdict/models.py`, `cli/render.py` | none | `exit_code_for` |
| replay store | `replay/protocol.py`, `sqlite_store.py`, `in_memory_store.py`, `registry.py` | the database file | open, `save_session`, `load_session`, `query_sessions`, close |
| serialization | `replay/serialize.py` | none | artifact to and from JSON |
| comparisons | `cli/diff.py`, `timeline.py` | none (read the store) | regressions between sessions, with statuses 5 and 6 |
| integrity | `integrity/checks.py`, `cli/verify.py` | none (read the store) | checks of a stored artifact, status 7 |
| bundles | `bundle/writer.py`, `cli/export.py` | a zip file | `write_bundle` |
| minimize | `cli/minimize.py` | its own cache | search for the weakest breaking perturbation |
| views | `cli/replay.py`, `inspect.py`, `history.py`, `matrix.py` | none (read the store) | select what to show of a session or a case, and print it |
| doctor | `cli/doctor.py` | none | look at the environment and print |

How they interact: `cmd_run` is straight-line code that calls the others. The
model is reached twice, through the engine (with the cache) for the inputs and
directly (without it) for rewrites. The store is the only shared state: several
processes may have the same file open. Nothing runs in threads and nothing is
awaited; concurrency is that of processes on the SQLite file.

What is hard:

* *judgement*: nine verdicts come out of a chain whose inputs (intervals of small
  samples, majority labels with ties, oracles that abstain) interact; the framework
  must never call a confidently wrong model stable, nor let the data of a strong
  family hide a weak one;
* *failure*: any step of a run may raise; some exceptions are translated into a
  status and others are not; nothing partial may reach the store;
* *the store*: schema creation and saves are sequences of statements that other
  processes interleave with and crashes cut short;
* *reuse*: the cache answers across the cases of a run and the levels of a search;
* *retries and seeds*: a rewrite is asked for until one is valid, and every attempt
  of every sample needs a seed of its own within the range a provider accepts;
* *the round trip*: what a payload holds is not quite what was built, and may have
  decayed since.

The hazards, at their lines, are in `PROJECT.json`.

## 2. The modules

| module | models | state and actions |
|---|---|---|
| `Verdicts` | verdict taxonomy, `exit_code_for`, `resolve_session` | pure operators |
| `Domain` | the data: prompts, outputs, families | constants |
| `Resolver` | stratification, failure shape, worst family, the oracles, the meta-oracle, `_decide_verdict`, `resolve_case` | pure operators over the runs of a case |
| `Bootstrap` | `bootstrap_stability` | the set of intervals k passes of n trials may get |
| `Views` | the status of `replay`, the run `inspect` singles out, the cells of `matrix` | pure operators over a stored session |
| `TextEdits` | `typo_noise.py`, `casing_variant.py`, `unicode_chars.py`: what they make of a text and how they judge it | pure operators: the texts a seed may draw |
| `Materializer` | `spec/materializer.py` with the loop of `paraphrase.py` and the gates of `validity.py`; composes `TextEdits` | `pc`, `at` (the loop counters), `realized`, `calls`; `ApplyLocal`, `Rewrite`, `RewriteRaises` |
| `Realization`, `RealizeOnce` | the outcomes of materializing a spec, and the contract that it gives one of them or raises; `Materializer` implements it and `RunSession` starts from it | `state`, `inputs` |
| `ExecutionEngine` | engine, cache and provider | `cache`, `calls`; `Hit`, `Miss`, `execute_raises` |
| `RunSession` | `cmd_run` from start to exit, run after run on one store; composes `Resolver`, `Realization`, `ExecutionEngine` and, for those who read the store, `Views` | `pc` and the locals of `cmd_run`; one action per step and one per way a step fails |
| `Minimize` | `cli/minimize.py`; composes `Resolver` and `ExecutionEngine` | `pc` and the locals of `cmd_minimize`; one action per step and one per way a step fails |
| `ReplayStore` | the contract in `replay/protocol.py`, abstractly | `stored`, `reply` per client |
| `SQLiteStore` | `replay/sqlite_store.py`, statement by statement, and `cmd_history` on it; implements `ReplayStore` | the committed tables, the write lock, `pc` and open transaction of each process |
| `Comparisons` | `cli/diff.py`, `cli/timeline.py` | pure operators from artifacts to classifications and exit codes |
| `Consumers` | a store that processes fill while `diff` and `timeline` read it; composes `Comparisons` with what a run leaves behind | `stored`, the artifact each process has stamped and not saved, `clock`; `Conclude`, `SaveSession`, `LoseSession` |
| `Serialize` | `replay/serialize.py`: what encodes, what decodes, what comes back | pure operators over artifacts and payloads |
| `Integrity` | the artifact a run preserves, `integrity/checks.py`, `cmd_verify`; composes `Serialize` | pure operators: an artifact and the checks it fails |
| `BundleExport` | `cli/export.py` and `bundle/writer.py`, several processes on one output path; composes `Integrity` | `pc`, `made` (the entries prepared) and `written` of each process, the zip `file`, the payloads `stored`; one action per step and per way it fails, and `Decay` |
| `Verdicts_proofs`, `Resolver_proofs`, `RunSession_proofs`, `SQLiteStore_proofs`, `Consumers_proofs`, `BundleExport_proofs`, `Materializer_proofs`, `Minimize_proofs` | theorems | |
| `MC*` | instances for TLC | |

Correspondence:

* An output is opaque. What the judges see in it is given by constants of
  `Resolver`: `Passes` (which invariant accepts it), `MissesRequired` and
  `HasForbidden` (ground truth), `NullOutputs` (refusal), `Relation` (the NLI label
  against the reference), `Contradicts`. The oracles themselves, with their
  thresholds, majority vote and ties, are modelled in full.
* Rates are compared by cross-multiplication. An interval is a pair of integers in
  units of `1/Scale`. The seed of the bootstrap is a nondeterministic choice among
  the intervals `BootstrapCI(n, k)`. The proofs assume of it only that it is in the
  unit range and collapses when all trials agree; `MCCase` uses `Bootstrap`, which
  brackets the counts of 1000 resamples around the exact binomial distribution. The
  choice stands for more than the seed: `bootstrap_stability` draws *positions* with it
  (`verdict/stratify.py:53-58`), so for one seed the order of passes and failures in a
  family moves its interval, and listing the same runs in another order may change the
  verdict. `ChanceStaysInTheBands` says how far.
* `ConsistencyOracle` has an embedding path that `cmd_run` never reaches, since it
  gives `resolve_case` no embedder; it is left out.
* In `TextEdits` a text is a sequence of characters, of which the constants say what
  the families look at (spaces, vocabulary, lookalikes, case). The random generator is
  a choice: a draw against a rate, in percent, may go either way except at 0 and at
  100. The inputs of one perturbation are drawn together.
* In `Materializer` the model's answers are `Rewritings`, the two gates of
  `validity.py` are `Similar` (the embedding's threshold) and `Entails`, asked both
  ways. `Digest` stands for the hash a seed is derived with and is assumed injective
  on the seeds of one spec. `WellFormed` assumes of a spec that `count * max_attempts`
  is within the range of the API's seeds, `MaxApiSeed`; the other bounds it states are
  those of `spec/models.py`.
* `Serialize` abstracts `lineage.params`, which a perturbation fills as it likes, to the
  kinds of value the encoder, the decoder and the hash tell apart: what is written as
  it is, what comes back as something else (a tuple, an enum), what cannot be written.
* `Minimize` takes what each strength gives as inputs from its constants: they depend
  on the strength, the number of samples and `run.seed`, not on the search.
* A cell of `matrix` is the pair (k, n) and not a quotient. Spec loading rejects a
  case id that occurs twice, so `cmd_history` finds a case at most once in a session.
* `exit` in `RunSession` keeps the status and where it comes from: a verdict, a
  `CLIError`, or an exception nobody catches (status 1 from Python).
* In `SQLiteStore` a statement outside a transaction is one step. `Setup` is what an
  open does to the file before it reads the version: the journal mode, the three tables
  and the indexes of two of them, each only where it is missing (`CreateMissing`), with
  a possible end after each. The file of a newer build has a version this build can
  read and may lack anything else, so that such statements do change it before it is
  refused. A file that another build upgrades while it is open is not modelled. A
  writer that meets the lock waits, or fails
  (`RollBack`, `OpenFails`: the busy timeout). `Close` is the end of the process at
  any point, which rolls back an open transaction. A second save of a session id is
  rejected by the SELECT (`LookUp`) or, where the first was committed after that, by
  the primary key (`PrimaryKeyFails`).
* `ReplayStore` has the kinds of answer to a rejected save as its constant `Rejections`.
  The protocol names one, `ReplayStoreError`; `SQLiteStore` implements the contract with
  two (`ImplementsContract`) and not with the one (`ImplementsProtocol`, a disagreement
  below).
* `Consumers` reduces a run to its outcome (a verdict and a lower bound per case, a
  falsifiability score) and its two visible moments: the stamp (`cli/run.py:226`) and
  the save (`:238`). Any set of cases, verdicts and bounds may be an outcome. The
  session verdict is `resolve_session` of the cases. Lower bounds and scores are in
  hundredths; `diff` rounds to nine digits before it compares.
* `Listings` is `query_sessions`: all listings that `ORDER BY created_at_iso DESC
  LIMIT` permits, the order of equal stamps being SQLite's business.
* In `BundleExport` a digest is the pair of a tag and the contents (no collisions), and
  the bytes of an entry are what they are computed from: the artifact, the fields of
  the readme, the spec. A zip has the entries its central directory lists, so it is
  empty until it is closed; an exception closes it too, a kill does not. Where two
  processes write across each other, `mixed` remembers it: entries of such a file may
  fail the zip's own checksums, so of it only statements about pairs of entries are
  made, which hold of whichever are intact.
* `Decay` damages one field of a stored payload, once per session, at any time; it is
  what `verify` and `export` exist for and the only action that has no code behind it.
* The mutated operators (`WorstRun_First`, `Miss_NoPut`, ...) are not used by any
  specification. Each is a plausible bug in the definition after it, and shows that
  a property would notice.

## 3. What is checked

Passing runs:

| run | instance | shows |
|---|---|---|
| `session` (390,843 states) | two cases that share a family, two runs in a row, one prompt that comes up three times, two rewrites that may be dropped, cache on | `KnownWrongNeverPasses`: a case all of whose answers violate the ground truth makes the command end with 2, whatever the other case gave. `ExitMatchesStore`: a status from a verdict is that of the stored session, an error status stored nothing, and after a traceback or a kill too, what is stored under the run's id is what it had concluded. `StoredSessionsAreWhole`: every stored session has all its cases, each with all its evidence and a verdict that evidence supports. `OneAnswerPerPrompt`: at temperature zero a prompt is asked once and every case judges the same answer. `WeaknessIsShown`: a full cell of `matrix` certifies every run of that family in every case, the worst family of an unstable case never has one, and `inspect` shows a failing run of it for a FRAGILE case. `EveryRunEnds`. |
| `case` (45,444 states) | one case, five kinds of answer to the original and four perturbed inputs of two families, all oracles on, the percentile bootstrap | `PassMeansEveryFamilyHeld` and `NoFailedRunBehindPass`: success certifies every family, and, where one failure takes a family's interval below the bar (`OneFailureBreaks`, which holds of so few trials), every answer. `InvalidEvalBlamesTheEval`: of fewer than twenty outputs, only for a conflict of confident oracles or an invariant that rejects the unperturbed answer. `GoldStandardIsGrounded`: the gold standard needs as many outputs that the reference entails as that deny it, and fewer refusals than half. `ChanceStaysInTheBands`: the same runs in any order, with any intervals the bootstrap may then draw, get another verdict only where two labels tie or within the bands that go by the intervals; where one failure breaks a family, within the unstable ones; for equal intervals, only where worst families tie. |
| `store` (7,823 states) | two processes, three artifacts of which two share an id, a file that is absent, current or of a newer build, which may lack any part of the schema but the version | `ImplementsContract`: every behaviour is one of `ReplayStore` (safety and the end of every save), but for the exception that rejects a save. `OpenIsSound`, `IndexMatchesPayload`, `NoDanglingTransaction`. `NewerKeepsItsRows`: a newer file is never given a row or a version, though it may be given tables and indexes before it is refused. `HistoryFindsTheCase`: what the index says of a case is what the payload holds, so `history` never comes back with nothing for a session it listed. |
| `history` (659,899 states) | two processes, three sessions stamped and saved in any order, a case with verdicts on four ranks and both off the ladder, alone or beside a second one, so that all nine verdicts occur; bounds a threshold and less apart; two scores | `QuietTimelineHasAGap`: timeline misses a regression between the ends of a history only if a verdict on the way was INSUFFICIENT or INVALID_EVAL. `FlaggedDowngradeHappened`: what it flags is a downgrade in the order of the stamps. `WindowSeesTheLatest`: `--limit 2` shows a regression of the newest session. `ErosionIsBounded`: what neighbours each let through under `--strict` adds up to less than the threshold per step. `RegressionStaysReported`: a session saved late does not hide what was flagged, unless its own verdict is off the ladder. `WorseStatusIsFlagged`: where both sessions judged the same cases, the one that exits worse is a regression for `diff`, whatever `--strict` says of the invariants; the ladder, the taint order and the exit codes agree. |
| `export` (1,865,938 states up to symmetry) | two exports to one path with any flags, a session of three cases whose payload may be damaged at any moment in any field that the checks or the decoder read, or that is not there; parameters of a perturbation that json writes as they are, as something else, or not at all, two spec files | `ManifestMeansEvidence`: where the manifest can be read, what else can be read has the digests it lists, and the evidence is there wherever the export was cut short (the entries happen to be sorted so that only the spec comes after the manifest). `ProtestIsOnRecord`: manifest and readme say which checks the artifact fails. `CorruptionNeedsConsent`: without `--allow-corrupted` no damaged artifact reaches the file, whenever it was damaged (what is checked is what is written: the artifact is loaded once). `HonestNeedsNoProtest`: what `run` stored passes the eight checks once decoded, and `verify` ends with 0. `SameIdSameBundle`: the bundle id covers every entry. `SuccessLeavesTheBundle`: after status 0 the whole bundle is there, be it of the only export that opened the file or, of several that all succeeded and never wrote at the same time, of one of them. |
| `materialize` (135,196 states) | two cases with all four families, one of whose inputs already holds a no-break space; two samples of two attempts, one of three; five API seeds, so that they wrap | `SampleIdentity`: no two inputs of a session share the seed and the sample index that identify a sample, dropped rewrites or not. `RewritesAreAccountedFor`: a sample stopped at its first valid answer and says how many attempts that took, or was dropped after all of them; no two calls for one paraphrase have the same seed. `EditsAreAccountedFor`: a typo's edit distance is within twice its mutation count, no mutation means no change, and a unicode text is judged valid exactly if its original held none of the family's characters. `ImplementsRealization`: every behaviour is one of `RealizeOnce`, under the mapping `Contract`, and ends. |
| `minimize` (2,333 states) | three strengths, given in any order, twice, or not at all; inputs that come up at several levels and one that equals the original; a level without samples | `MinimalAmongTested`: the strength reported is the least of those given that breaks the case, no call is made for a stronger one and none twice for one prompt, and a search without a result has tried them all. `BreakIsNew`: an input that fails at the level that broke is one that no weaker level sent. |

Bounds, and why they are enough:

* Two cases are the least for a verdict of one case to be hidden by another and for
  the cache to serve across cases; two runs the least for one to meet what another
  stored (`MaxSessions`).
* `session` gives a family at most two trials (`MaxRuns`), `case` one to three with
  four runs in total: a weak family next to a strong one, a tie between families, a
  majority label with and without a tie, and half of the answers being refusals all
  occur. The degeneration threshold needs twenty runs, so `MCDegeneration` has
  twenty.
* The answers of `case` are the kinds the oracles tell apart; one prompt has only
  two of them to keep the run short. Its `fragile_threshold` is 0.75 rather than the
  default, because the upper bound of two or three trials with one failure may then
  fall on either side: the draws alone, without a tie, decide between FRAGILE and
  AMBIGUOUS.
* Two processes are the least for a race on the file; three artifacts give a
  duplicate id with different contents and a listing longer than one.
* Three sessions are the least for a laundered regression (down by way of a verdict
  off the ladder), for a late save between two others and for a window that leaves
  one out; the theorems of section 4 cover longer histories. `WorseStatusIsFlagged`
  is about pairs of sessions of the same cases, so all ranked verdicts come up beside a
  stable case, and some beside an unstable one.
* Two exports are the least to overwrite each other, two specs the least for a
  bundle that differs in nothing else, and the three cases have the verdicts that the
  checks count and one that they do not.
* In `materialize` a sample of two attempts and a sample after it are the least for the
  seeds of one to run into those of the other; three attempts pass the range of five
  API seeds. A model may answer with a valid rewrite, one that leaves something out
  (entailed, but not the other way), or one off the subject. Two cases tell whether
  seeds collide across cases.
* In `minimize` a prompt comes up at two levels and at the baseline, which is what the
  cache is for; three strengths are the least for a level between the one that breaks
  and one that is not tried.
* `calls` and `sid` are bounded by `MaxSessions` and the number of inputs.
* Deadlock is checked in `store`. In the others the system stops when `MaxSessions`
  runs have ended, or been concluded, when every export has ended, or when the one
  materialization or search has.

Fairness: `RunSession` has weak fairness on `Work`, the disjunction of the steps of
the command. A model call returns, raises or meets `timeout_seconds`, and the rest
is straight-line code; which of these happens is left open, and `Kill` and `Start`
are not fair. `SQLiteStore` has weak fairness on the statements of an open and of a
save: SQLite answers, raises, or gives up after its busy timeout. `Consumers` has no
fairness: its properties are about what is stored, whenever that is. Nor has
`BundleExport`: a file may be left as it is at any moment. `Materializer` and
`Minimize` have weak fairness on their steps: loops with counters around calls that
return, raise or time out.

### Disagreements between code and text

Each of these is a run that TLC finds violated.

| run | the code | the text |
|---|---|---|
| `degeneration` | `oracles/meta.py:126` compares the fail rate over all rows with 95 %: with twenty perturbed inputs a model that fails them all is an INVALID_EVAL although the baseline passes | `meta.py:14-22`: the baseline is load-bearing, it tells a malformed invariant from a failing model |
| `exit_status` | only `CLIError` is caught (`cli/main.py:365`); a missing spec file, a failed rewrite or store error ends with Python's 1 | `main.py:17,19`: 1 is a degraded verdict, infrastructure failures are 3 |
| `self_contradiction` | the AMBIGUOUS contribution of the contradiction oracle has no branch (`verdict/resolver.py:218-251`) | `oracles/contradiction.py:11`: "cannot support a confident verdict" |
| `consent` | `write_bundle` serializes first (`bundle/writer.py:340`), and the serializer refuses a `created_at` without a zone (`replay/serialize.py:72`), so that artifact is never exported | `cli/main.py:244`: `--allow-corrupted` writes "even when integrity checks fail"; `integrity/checks.py:83-84` names this very damage |
| `second_save` | a save whose id another process commits between the SELECT and the INSERT raises `sqlite3.IntegrityError` (`replay/sqlite_store.py:111-144`) | `replay/protocol.py:36-37`: a second save with the same id "raises `ReplayStoreError`" |

Others were read off the code while modelling it; the modules do what the code does
and no run is spent on them:

* `verdict/stratify.py:75` ignores severities; `invariants/base.py:28` says that LOW
  does not affect the verdict.
* `verdict/stratify.py:108` calls a family with two passes of three broken;
  `:93-94` says that it "reliably" breaks.
* Two processes that create a store both stamp it (`replay/sqlite_store.py:93-95`);
  `:11` speaks of a single-row table.
* `materialized_hash` covers parameters as they were before the JSON round trip
  (`spec/materializer.py:217-223`), and `integrity/checks.py:101-105` recomputes it
  from what came back: a plugin whose parameters do not survive the trip fails a
  check although nothing was damaged. The families of the repository are safe.
* `minimize` ignores `fragile_threshold`, NLI and `run.cache`
  (`cli/minimize.py:180-189`); `:14-16` says it judges "exactly like `run`".
* `perturbation/unicode_chars.py:24-27` has its samples pass the validity gate by
  construction; the reverse substitution also takes what the original held of the
  family's characters, so such an original has all its samples judged invalid
  (`EditsAreAccountedFor` states the exception).
* `export` documents status 3 for a store that cannot be read, which is a traceback.
* `inspect` says that no worst perturbation can be identified (`cli/inspect.py:173`)
  for verdicts other than FRAGILE although the evidence names the worst family, and
  that the baseline violates the contract for every CONSISTENTLY_WRONG, which a
  majority of contradictions can also give.

And behaviours that contradict no text, but that a user should know of: an
INSUFFICIENT case among stable ones leaves the session STABLE (`verdict/resolver.py:301`);
a case that was removed or renamed is no regression (`cli/diff.py:166`); `verify --all`
stops at 10,000 sessions (`cli/verify.py:38`); the output path of an export is tested
and then opened (`cli/export.py:84`); a candidate of `minimize` without evidence counts
as a break (`cli/minimize.py:77`); at a low rate a typo may leave the text as it was,
which is a trial like any other, and so is a rewrite identical to the original.

## 4. What is proved

For every value of the constants that satisfies the modules' assumptions
(`DomainAssumption`, `BootstrapAssumption`, `ResolverAssumption`, `EngineAssumption`,
`RunSessionAssumption`; `MaterializerAssumption` and `CharactersAssumption` for the
perturbations): any number of cases, families, prompts, outputs, runs and
sessions.

`Verdicts_proofs` has the lemmas about the roll-up (a case that is not a success
taints the session; the session verdict is the first taint present) and
`Resolver_proofs` those about the judgement, none of which needs a state:
the worst run exists and has the least lower bound; `decide_verdict` gives a
verdict; known wrongness is caught (the verdict is then one of the failures); a
verdict of success needs the worst lower bound at or above the bar, so every
family held; and the roll-up is tainted by the worst case. Three groups of lemmas are
about the oracles. The majority relation has the most support, so the grounding oracle
speaks only for outputs that are entailed at least as often as denied (`GoldIsGrounded`).
INVALID_EVAL needs a conflict, or a degeneration whose 95 % of fewer than twenty outputs
is all of them, the unperturbed one included (`InvalidEvalHasACause`). And the judges
only count: reordering the runs is a bijection of the places, which keeps the number of
refusals, of each label and of contradicting pairs (`ReorderedCount`, `ReorderedPairs`),
so with the same intervals another verdict needs a tie (`OrderBreaksTiesOnly`). With
other intervals it needs one or stays in the bands (`DrawsStayInTheBands`): what comes
before the bands in the chain of priorities does not read the intervals
(`ShuffledChain`), and where one failure breaks a family, whether the verdict is a
stable one is decided by the runs and not by the draws (`HeldIffPassed`).

`RunSession_proofs` proves of the specification:

| theorem | property |
|---|---|
| `TypeCorrect` | `TypeOK` |
| `WrongnessIsReported` | `KnownWrongNeverPasses` |
| `SuccessIsWorstCase` | `PassMeansEveryFamilyHeld` |
| `StatusAgreesWithStore` | `ExitMatchesStore` |
| `SessionsAreWhole` | `StoredSessionsAreWhole` |
| `ReadersShowWeakness` | `WeaknessIsShown` |
| `CacheIsConsistent` | `OneAnswerPerPrompt` |
| `InvalidEvalIsTheEvals` | `InvalidEvalBlamesTheEval` |
| `GoldNeverDenies` | `GoldStandardIsGrounded` |
| `SuccessHidesNoFailure` | `NoFailedRunBehindPass` |
| `ChanceIsContained` | `ChanceStaysInTheBands` |

All but `CacheIsConsistent` follow from one inductive invariant, `SafetyInv` (theorem `SafetyHolds`). None
of the properties is inductive by itself: that the status agrees with the results
needs that the verdict in hand is the roll-up of results that cover every case,
which needs that each result was resolved from the evidence of the inputs realized
for its case. So `SafetyInv` conjoins

* `TypeInv`: types, and how far `pc` says the run has come;
* `Judged`: each result, and the evidence gathered so far, is that of its inputs;
* `RolledUp`: from the roll-up on, every case has a result and the verdict is theirs;
* `Filed`: what the store may hold of the run in progress, what the status says, and
  that nothing but what the run concluded is stored under its id;
* `StoredSessionsAreWhole`.

Each action preserves each conjunct it can disturb, one step per action.

`CacheIsConsistent` needs to know where an answer came from, which `SafetyInv` does
not say. The invariant `Heard` does: the evidence in hand and that of every result is
what the cache holds for its prompt, and a prompt the cache lacks has not been asked
while calls are still made. The answers to a prompt are then at most the cache's one.

`ReadersShowWeakness` is about `StoredSessionsAreWhole` and arithmetic: the families
of a stored case have at most `MaxRuns` runs, so a cell of the matrix is the least of
fractions whose denominators have a common multiple (`CommonMultiple`, `LeastRate` in
`Resolver_proofs`), and a cell that is full is so for every case.

`SQLiteStore_proofs` proves, for any processes, artifacts and starting file allowed by
`SQLiteStore`'s assumptions:

| theorem | property |
|---|---|
| `StoreTypeCorrect` | `TypeOK` |
| `OpeningIsSound` | `OpenIsSound` |
| `IndexIsTrue` | `IndexMatchesPayload` |
| `TransactionsEnd` | `NoDanglingTransaction` |
| `NewerIsKept` | `NewerKeepsItsRows` |
| `HistoryIsComplete` | `HistoryFindsTheCase` |
| `StoreKeepsContract` | the safety half of `ImplementsContract` |

The invariant `StoreInv` (theorem `StoreIsSafe`) adds to these what they lean on: a
version this build stamped means a complete schema, a process past its version check
found a version of this build, a transaction holds the lock and its rows are those of its
artifact up to the statement it has reached, and two committed sessions never share
an id. The contract follows by step simulation: each statement is a step of
`ReplayStore` or a stutter, only `Commit` is a `Save`, and a `Reject` is what the SELECT
finds or the first INSERT meets.

`Consumers_proofs` proves of histories of any length:

| theorem | property |
|---|---|
| `HistoryTypeCorrect` | `TypeOK` |
| `DiffSeesWorseStatus` | `WorseStatusIsFlagged` |
| `TimelineHasNoBlindSpot` | `QuietTimelineHasAGap` |
| `FlagsAreTrue` | `FlaggedDowngradeHappened` |
| `LatestIsInTheWindow` | `WindowSeesTheLatest` |
| `ErosionHasABound` | `ErosionIsBounded` |
| `FlagsStay` | `RegressionStaysReported` |

The invariant `ConsumersInv` only says that `stored` is a finite set of well-formed
artifacts with the right session verdict. The work is in the lemmas about sequences.
A sequence of ranks that never rises from one position to the next does not rise
from first to last, and one that rises by less than a bound at each step rises by
less than the bound times its length (`SlowRise`); both take the least position that
breaks the claim. `FlagsStay` is about a step: the listing after a save is the listing
before with one artifact put in, so the two neighbours between which `timeline` flagged
a fall are still neighbours, or have the newcomer between them, and then one of the two
steps by way of it falls too, if its verdict has a rank. That the two listings agree on
the rest needs the invariant `FreshIds`: no two artifacts share an id, stored or not.

`Materializer_proofs` proves, for any spec, texts, answers and seeds (`WellFormed`):

| theorem | property |
|---|---|
| `MaterializerTypeCorrect` | `TypeOK` |
| `SamplesHaveIdentity` | `SampleIdentity` |
| `RewritesAccounted` | `RewritesAreAccountedFor` |
| `EditsAccounted` | `EditsAreAccountedFor` |
| `RealizesOnce` | the steps of `ImplementsRealization` |
| `EndingKeepsContract` | `ImplementsRealization`, if the materialization ends |

The invariant `MaterializerInv` says where every input and every call came from:
what is realized lies before the place of the loop and carries the seed and index of
that place (`Identified`); the calls of a sample are its attempts, each once
(`CallsMade`, `Current`); and every sample the loop has passed is settled
(`AllSettled`). That seeds differ is arithmetic modulo `MaxApiSeed`.

The rest of the module is about what recursive functions compute. The library's
induction theorems take an operator, which no installed prover can instantiate, so
induction is over a set here: one that holds 0 and every successor holds every natural
(`FromZeroOn`, from the well-foundedness of `<`). From it follow what joining sequences
comes to (`JoinedSteps`), what a pass over a text may end with (`PassEnds`) and what
bounds the rows of the edit distance (`LevenshteinBounded`).

* The contract. `Realizing` says of every case that its inputs follow, in order, the
  slots that its perturbations ask for up to the place of the loop, and that only
  slots of rewrites are passed over. When the loops end the place is the end, so what
  is returned is a realization (`DoneIsFilled`). That the loops end is liveness:
  `EndingKeepsContract` takes it as a hypothesis, and the run checks it.
* The edits. A pass is followed edit by edit with what has been written so far. For
  typos, the distance of the prefix read from the prefix written is at most twice the
  mutations, in the table of any longer text (`Close`): each of the five edits adds at
  most twice its cost (`TyposAreFair`), a transposition exactly two. For lookalikes,
  what is written reverses to what is read (`StandInsReverse`), because no character
  has two sources (`CharactersAssumption`); and what `_deperturb` returns holds none of
  the family's characters, so it returns its argument exactly if there were none
  (`DeperturbLeaves`).

`Minimize_proofs` proves, for any levels, inputs and provider:

| theorem | property |
|---|---|
| `MinimizeTypeCorrect` | `TypeOK` |
| `FalsifierIsMinimal` | `MinimalAmongTested` |
| `FalsifierIsNew` | `BreakIsNew` |

The invariant `MinimizeInv` says how far the search has come (`Swept`, `InOrder`), that
only prompts of the baseline and of the levels so far were sent (`Called`), and that
the cache answers as the runs say (`Remembered`), from which it follows that a prompt
that held at one level cannot fail at another.

`BundleExport_proofs` proves, for any number of processes, sessions and results (the
assumption `BundleAssumption` says that the intervals and scores of a run are in
range, which is what the resolver computes):

| theorem | property |
|---|---|
| `ExportTypeCorrect` | `TypeOK` |
| `ManifestsAreTrue` | `ManifestMeansEvidence` |
| `ProtestIsTrue` | `ProtestIsOnRecord` |
| `ConsentIsNeeded` | `CorruptionNeedsConsent` |
| `HonestyIsEnough` | `HonestNeedsNoProtest` |
| `IdsAreContents` | `SameIdSameBundle` |
| `SuccessIsWhole` | `SuccessLeavesTheBundle` |

But for the last, none of these speaks of how the file came about, so the invariant `ExportInv` (theorem
`ExportIsSafe`) does: what a process has prepared is the bundle of one artifact, which
it was allowed to export; what it has written follows the order of the entries; the
file lists a part of the bundle of one process, never of two; and a session that has
not decayed still passes its checks. The properties are then facts about
`all_entries`, which the first lemmas of the module state. `SuccessIsWhole` is about how
the file came about, and is inductive with one more fact (`Delivered`): an export that
had the file to itself is not counted among those that wrote across each other.

`TypeOK` of `SQLiteStore` and of `Consumers` is proved and not run.

Only model-checked is liveness: `EveryRunEnds`, that `materialize` ends, and the liveness
half of `ImplementsContract`. TLAPS has no rules for it here (`ENABLED` is out of reach).
So is the link between the bootstrap's intervals and the data: the theorems about
judgement hold for any intervals in the unit range that collapse when all trials agree,
and `NoFailedRunBehindPass` under `OneFailureBreaks`, of which `MCCase` shows that the
percentile bootstrap satisfies it for up to four trials.

## 5. What is not modelled

* Text: matching a pattern, validating a schema, embedding, classifying, hashing, YAML
  and its validation, rendering. What the rest of the program distinguishes in the
  result is a constant or a choice.
* The session's confidence, and how the falsifiability score is averaged: they change
  no verdict and no status of `run`. The score itself is compared by `diff --strict`.
* `query_sessions`' filters on columns of the session row, which are equalities on
  one row; the case filter, which goes through a second table, is modelled.
* What `replay`, `inspect`, `history` and `matrix` print, beyond what `Views` and
  `cmd_history` select; the choice of a session by `--latest`, which is a listing of
  one; the limit of `verify --all`.
* `in_memory_store.py` (tests only) and `doctor`, which looks at the environment and
  changes nothing.

## 6. Plan

1. `InMemoryStore` as a second implementation of `ReplayStore`.
2. A theorem on where `OneFailureBreaks` holds of `Bootstrap`, which is arithmetic over
   binomial coefficients.
