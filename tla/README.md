# A formal model of the novel-ralph harness

`novel` is a command-line harness that one drafting agent drives, turn after turn, to
write a novel. Its state is a directory, `working/`: `state.toml` (the record), `log.md`
(receipts), `manuscript/chapter-NN/` (drafts, plans and flags) and
`manuscript/compiled.md`. Nothing runs concurrently, but a command may be killed between
two of its writes, the agent edits drafts between two commands, and `state.toml` and the
files can then disagree. This directory holds TLA+ modules that model that protocol, TLC
configurations that check small instances of it, and proofs of what holds for every
instance.

## Inventory

| Part | State | Operations | Correct when |
|---|---|---|---|
| State document (`state/schema.py`, `phase.py`, `initial.py`, `validate.py`) | `state.toml` | `validate_state`, `build_initial_document` | the eight pure-state invariants hold of every file written |
| Disk evidence (`state/disk_evidence.py`, `_disk_*.py`, `wordcount.py`, `compile_model.py`) | reads the tree | eight predicates, strict or relaxed while drafting | `check` and `reconcile` judge a tree alike |
| Reconciliation classifier (`state/reconcile.py`, `_reconcile_precedence.py`) | none | `derive_reconciliation` | a repair leads to coherence; a contradiction is refused, never masked |
| Mutators (`commands/_state_mutators.py`, `_gate_drafting_mutators.py`, `_recount.py`, `novel_state.py`) | one document in memory | `init`, `set-cursor`, `advance-phase`, `recount`, `set-gate`, `complete-final-pass`, `set-fangirl`, `set-critic-pass`, `check` | validate before persist; a refusal writes nothing |
| `set-chapters` (`commands/_set_chapters.py`) | a turn record, directories, receipt | one turn of several writes | a kill anywhere is recoverable; the plan is written once |
| `reconcile` (`commands/_reconcile.py`) | its own turn record | intent, edit, receipt, clear | it may be killed and run again, and it never touches the agent's judgement |
| Atomic writer (`state/document.py`) | a temporary file | create, write, rename | a reader sees the old text or the new one |
| `compile` (`commands/_compile.py`) | `compiled.md` | write, `--check` | the manuscript is the drafts in order |
| `done` (`state/done_predicate.py`, `_blocker_notes.py`, `commands/_novel_done.py`) | none; reads `critic-notes.md` and `reviews/` too | six clauses, exit 0, 1, 3 or 4 | exit 0 only when all clauses hold, exit 4 only when one `compile` is missing |
| Contract and runner (`contract/`, `commands/state_sourcing.py`, `commands/novel.py`) | none | exit codes, envelope, dispatch | every ending has the code the contract names |
| `wordcount` (`commands/_wordcount.py`, `_wordcount_report.py`) | none | fresh counts, triggered gates, distance to the next | the floats decide as the exact numbers do |
| `desloppify` (`commands/_desloppify*.py`) | none | scan by a rule pack or a device ledger, of the whole or of one chapter | a fault is reported as what it is; every violation is one broken rule |
| Rule packs, device ledger (`rulepack/`, `ledger/`) | none | parse, detect | thresholds, densities and rations mean what they say |
| Loader kit (`loaderkit/`) | none | load TOML, check its shape, scan chapters | ids are unique, a fault takes the right channel |
| State parsing (`state/parse.py`, `_freeze.py`) | none | TOML table to typed record | not modelled |
| Spelling configuration (`scripts/generate_typos_config.py`, `typos_rollout.py`, `typos_rollout_cache.py`) | an untracked cache, its metadata, the tracked `typos.toml` | refresh, online, offline or from a local file; render | the cache is what the metadata says; the config follows the published dictionary |

Interaction: `check` and `reconcile` share one classifier over the state and the tree;
every mutator shares load, validate and the atomic writer; `set-chapters` and `reconcile`
leave a `[pending_turn]` record in `state.toml` that the next `reconcile` reads; `done`
and `compile --check` read what the mutators, the agent, the critic and the reviewer
left; `wordcount` computes in floats what `recount`'s validator compares; `desloppify`
loads its pack or ledger before it reads the state and the drafts. The spelling scripts
share nothing with `novel`.

What is hard: kills between the writes of a turn; a recovery that is itself killed; a
refusal after the first of two writes; several predicates broken at once and the order of
the ladder; guards of different commands that each wait for the other; values recorded in
`state.toml` gone stale against the drafts; a promise of `done` that the next command has
to keep; float comparisons at an exact threshold; a cache and its metadata written one
after the other. PROJECT.json lists each at its line.

## Modules

| Module | Models |
|---|---|
| `NovelState` | the document as a record; one operator per pure-state invariant; `ValidateState` |
| `WorkingTree` | the rest of `working/` as a record; one operator per disk-evidence predicate; `CheckDiskEvidence(doc, tree, relax)` |
| `Reconciliation` | `DeriveReconciliation`, the precedence ladder with its two scoped exceptions, and `CheckExit` |
| `Harness` | the state machine: the commands, the kills and the agent |
| `Lifecycle` | what the commands promise of one novel: begun once, planned once, its phases one at a time, one turn open; `Harness` implements it |
| `Recovery` | `reconcile` alone, from every small document and tree |
| `AtomicFile`, `AtomicWrite` | what a write promises, and `write_text_atomically` step by step with OSErrors and kills |
| `Contract` | how a body's outcome or exception becomes an exit code and an envelope |
| `Done` | `Harness` with the critic and the reviewer; the answers of `novel done` and `compile --check` |
| `BinaryFloat` | Python's `/` and `*`: rounding to the nearest float, ties to even |
| `Wordcount` | the report of `novel wordcount` |
| `LoaderKit`, `RulePack`, `DeviceLedger` | which TOML tables are packs and ledgers; the scan of the chapters; findings |
| `Desloppify` | the answers of `novel desloppify`, in the order it loads, selects and reads |
| `Checkers` | the read-only commands side by side over the states of `Done` |
| `SpellingCache` | the refresh of the dictionary, write by write, and what happens around it |
| `MCHarness`, `MCDrafting`, `MCCheckers`, `MCRecovery`, `MCAtomicWrite`, `MCSpellingCache` | values of the constants |
| `Harness_proofs`, `Turn_proofs`, `Recovery_proofs`, `Done_proofs`, `BinaryFloat_proofs`, `Checkers_proofs`, `AtomicWrite_proofs`, `SpellingCache_proofs` | the theorems |

The first three are layers of pure operators (each EXTENDS the one before); `Harness`
adds four variables:

* `toml` is `working/state.toml`, or `NoFile`;
* `tree` is the rest of `working/`;
* `proc` is the command in progress: the step it is at, the document it holds in memory,
  the repair it enacts and the directories it still has to create;
* `outcome` is how the last command ended (an exit code, or killed).

A command with a single write is one action, because nothing else happens between its
read and its write and a kill before the write leaves no trace. `init` (two writes),
`set-chapters` and `reconcile` are one action per write, in the order of the code, and
`Crash` may end them between any two. In `reconcile` the intent record is written before
the counts are validated, as in the code. Actions of the agent (`AgentWritesDraft`,
`AgentWritesPlans`, `AgentFlagsDone`) and the loss of empty directories
(`EmptyDirDropped`) stand for what happens outside the harness; they only run while no
command does.

The commands that write nothing are operators: `CheckExit`, `DoneAnswer`,
`CompileCheckAnswer`, `WordcountAnswer`, `PackAnswer` and `LedgerAnswer` give the exit code
(all but the first the envelope too) the command would end with in the current state, so a
property can compare the answers of two commands, or of one command before and after a
step. `Done` adds `notes` (the critic's file of each chapter, as the kinds of its lines)
and `reviews` (the knitting reviews that exist), with one action each. `Checkers` adds
`probe`, chosen at the start and never changed: in the states where it is `NoProbe` the
commands run; in the others it holds a target, a number of words and a page length, or the
lines of a notes file, on which the pure parts are tried.

`SpellingCache` has what the source is (`source`, `validators`, fixed), what it has
published and whether it answers (`authority`, `reachable`), the three files (`cache`,
`metadata`, `config`) and the run in progress (`proc`, with the metadata it read and the
publication it was answered with). Each file is replaced in a step of its own, in the order
of the code, and `Kill`, `Publish` and `ReachabilityChanges` may come between any two.

Abstractions: a draft is an opaque body with a number of words; a draft that is not UTF-8
is `Corrupt`; `log.md` is the kind of its last receipt; the compiled manuscript is the
function from chapters to the bodies it concatenates; novel metadata, titles, slugs of
planned chapters and finding counts, which no check reads, are left out; the drafted
ratio is compared without division. A state file that exists but does not parse is not
modelled: every command refuses it before anything else, as it does a missing one. An
undecodable `compiled.md` is not an input, since only `novel compile` writes that file. A
pattern is opaque, with a number of matches on each line of a body. A TOML value of a pack
or ledger carries its type, since the loaders tell a boolean from an integer; all content
errors of one file end the command alike, so the checks are a conjunction and their order,
which only picks the wording, is left out. A dictionary is the number of its publication.
`GiveUp` stands for both ways a refresh ends without writing: the exception that reaches
`main`, and `main`'s fallback to the tracked config. The cache is damaged only between runs.

Lines such as `MutantCleared` are deliberately wrong versions of the definition that
follows them. With one in its place the property it is paired with in PROJECT.json fails,
which shows the property speaks about that part of the code.

## Runs

| Run | Instance | Shows |
|---|---|---|
| `drafting` | up to 3 chapters, coherent and incoherent plans of one or two; target 10 words, bodies of 1 and 4 words (so the drafts pass 30, 50 and 80%); `init`, `set-chapters` and `reconcile` killed at any step; stray drafts, flags, lost directories | the types; the manifest is written once; the table keeps its keys; a torn `set-chapters` is completed and exactly the missing directories are named; receipt before clear; the state stays coherent; no knitting gate ever opens; `wordcount` foresees which drafts `recount` refuses |
| `lifecycle` | 1 chapter, every command, inputs each refuses, `set-chapters` killed at any step, drafts blank, changed, garbled | the commands implement `Lifecycle`; drafting has a plan; `check` and `reconcile` agree; a successful `reconcile` settles the tree |
| `recovery` | every coherent document and every tree over 2 chapters, every kind of turn record, `reconcile` killed at any step | it comes to rest, after three runs that are not killed at the latest; it repairs what it does not refuse, keeps what the agent recorded and never ends half-way |
| `atomic_write` | 4 texts, failures and kills at every step | the writer implements the atomic file |
| `checkers` | 2 chapters with target 0, finished, reopened, redrafted, annotated and recompiled; 24 packs and 13 ledgers, most of them refused; 62 targets, 180 pairs of words and page length, every notes file of up to 4 lines | the three readers of `compiled.md` agree; exit 4 of `done` keeps its promise; no command undoes `done`; nothing unread is done; the blocker scan and the floats agree with their definitions; every violation names one rule; what the chapters report fits what the whole manuscript reports |
| `spelling` | 4 publications, one broken, one contradicting the local words; every combination of validators; kills, outages, lost files, pulled configs | the metadata is never ahead of the cache; a run that says current is current; the config goes back only without the authority, and keeps catching up |
| `gate_remedy` | expected violation | `recount` refuses and prescribes `set-gate`; `set-gate` refuses |
| `refused_recount` | expected violation | `reconcile` exits 3 after writing its turn record |
| `reconcile_killed` | expected violation | `reconcile` killed while completing `set-chapters` leaves a tree it then refuses |
| `reconcile_fault` | expected violation | an undecodable draft ends `reconcile` with exit 1, not 3 |
| `atomic_write_leak` | expected violation | a failing write leaves its temporary file |
| `undecodable_file` | expected violation | a pack that is not UTF-8 ends `desloppify` with exit 1, not 3 |

Bounds. Two chapters show an order and a partly created set of directories; a third, in
`drafting`, is an orphan the plan does not name. Three body lengths reach each side of
every threshold. One chapter is enough in `lifecycle`, where the question is what one
chapter's files say against the record. Inputs include, for each guard, a value it
refuses. In `checkers` the target is 0, because with a positive one no knitting gate opens
(`GatesNeverOpen`) and `done` has no finished state to be compared with. `Precision` is 13
bits where CPython has 53: 3/10 and 4/5 repeat with period 4 in binary, and 13 and 53 leave
the same remainder modulo 4, so the thresholds are rounded in the same direction, while 13
bits keep every product within TLC's integers. The proofs cover every such precision up to
53 (`PrecisionAssumption`), CPython's included. Four publications let a broken and a conflicting one be overtaken by a
usable one, before and after. Deadlock is not checked where the agent may stop giving commands and nothing is
left to do; it is checked in `atomic_write` and `spelling`.

Exceptions stated in the properties are the code's own: `CheckAgreesWithReconcile` allows
the drafting subset, which ADR 009 lets `check` accept and `reconcile` refuse;
`RepairableIsRepaired` leaves out the drafting subset with a coverage gap, which
`reconcile` repairs once and then refuses. `ReconcileSettles` allows a second `reconcile` a
recount when the first completed or rolled back a turn: the ladder looks at the counts
after the turn, one repair to a run, so drafts written between the kill and the first run
are counted by the second. `Recovery` starts from trees whose recount is
coherent; the others are the subject of `refused_recount`.

`ComesToRest` counts a refusal as rest; that a recovery which is itself killed may end in one
is the subject of `reconcile_killed`. In `undecodable_file` a pack or ledger that is absent or
not TOML ends with exit 3, as documented; only the file that does not decode breaks the
property. `CatchesUp` leaves out a publication that is unusable and the case `Stuck`, described below.

Fairness. In `Recovery`, a `reconcile` in progress goes on, and the agent
runs `reconcile` again on a tree that still needs it, as the harness instructs it to at
the start of a turn. Both are weak fairness, because neither is ever disabled by anything
but its own step or a kill. `ComesToRest` assumes the kills end; `RepairableIsRepaired`
counts a run as over when it is killed. In `SpellingCache`, a run in progress goes on (weak
fairness of `Steps`), and `make spelling` is run again and again with the source asked:
strong fairness of `Start`, because offline runs may come in between, and because a local
source that is away disables it. `CatchesUp` assumes that the source stays reachable and
the kills end.

## Proofs

`Harness_proofs` proves, for every finite set of chapters, every target, every set of
bodies and every input: `TypeCorrect`, `StateIsCoherent`, `TableStaysKeyed`,
`DraftingAlwaysHasPlan`, `GatesNeverOpen` and `ManifestWrittenOnce`. They rest on the
named assumptions of `NovelState`, `WorkingTree` and `Harness` about the constants.

* `TypeInv` adds to `TypeOK` that a running `reconcile` enacts a repair that has a receipt.
* `StateCoherent` alone is not inductive: `set-chapters` and `reconcile` write, later, a
  document they hold in memory. `DocumentsSound` asks the same of that document. It asks
  four things at once (`Sound`): the validator passes, the knitting gates are closed, the
  table is keyed by the manifest, drafting has a plan. They need one another: gates stay
  closed because the validator ties a false gate to counts below its threshold, and
  `set-gate` does not change the counts.
* `ManifestWrittenOnce` adds `PlanHeld`: a command in progress over a planned tree holds
  that plan in memory, so its later writes repeat it.

`Turn_proofs` is about the commands that write more than once. Its central invariant is
`ProcessHolds`: between two writes nothing else runs, so what a process holds in memory is
exactly what it wrote last, or the edit of it that it is about to write. The properties of
turns speak about a clear or a receipt several steps after the document was read, and none
of them is inductive without it.

* `ReceiptPrecedesClear`: at the step `clear`, memory says which receipt is in the log.
* `TornPlanIsCompletable` adds `TurnDeclared`: the record of a `set-chapters` turn declares
  the manifest beside it, so the paths the ladder finds missing are the missing directories.
  The lemma `Ladder` states what each rung of `DeriveReconciliation` decides, once for all
  the proofs that need it.
* `CheckAndReconcileAgree` needs the table keyed by the manifest (`Sound`): with the keys
  in step, the coverage predicate that only `check` relaxes has nothing to report.
* `OneReconcileSettles` adds `RepairSound`: while a repair is enacted, the tree holds no
  contradiction and the directories still to be made are those that are missing.

It also proves the refinement `CommandsImplementLifecycle`. The lemma
`WhoWrites` lists the steps that change `state.toml`; each is shown to be one step of
`Lifecycle`. A plan is written from memory, two steps after the guards were checked:
`ProcessHolds` carries to that write that the document on disk has no plan yet and that the
new one is not empty.

`Recovery_proofs` proves `JudgementIsKept`. `Recovery` may start from any coherent document
and tree, so its initial states are shown to satisfy what `Spec` keeps (`AnyTreeTyped`), and
its steps to be steps of `Harness`. `RecoveryInv` is what `Spec` keeps together with the fact
that `state.toml`, found at the start, is never lost.

It also proves `EveryTreeSettles`, the safety half of the liveness of recovery: a run that
succeeds leaves the next one nothing to do, or the counts after a turn, or a drafting subset
that it refuses. A recount is therefore never followed by a recount, so that three runs that
are not killed end the recovery; what is left to fairness is that they are made.
`OneReconcileSettles` cannot be used, since it needs the table keyed by the manifest, which
a tree edited by hand may not have: there the coverage arm of the ladder opens, and a repair
may be enacted while directories are missing (`Lagging`, the second way for a repair to be
sound). That no run ends between its writes needs `CountsCoherent`, that the words of the
drafts make a coherent document, which no step changes.

`Done_proofs` builds on these. `DoneImplementsHarness` shows that the critic and the reviewer
only add stutters to `Harness`, so every invariant above holds with them. From those and the
case analysis of `done`'s exit (`DoneExit`) follow `NothingUnread`, `ReadersAgree` and
`RegenerationFinishes` (exit 4 means one `novel compile` makes it exit 0).
`NeverDoneWithTarget` draws the conclusion of `GatesNeverOpen`: with a positive target
`novel done` never exits 0 or 4, whatever is drafted and reviewed, since its knitting clause
waits for gates no command can open. `DoneIsKept` follows the fields `done` reads
(`AsFinished`: the phase, the plan, the gates that are open) through every write, the later
writes of a turn included, and uses `ProcessHolds` for those.

`Checkers_proofs` is about data of any size: notes of any length, packs and ledgers with any
number of entries, any drafts.

* `BlockerScanExact` compares a scan that carries a flag from line to line with a
  definition by positions. The invariant of the scan (`ScanFlag`) is that the flag is up
  exactly when a BLOCKER heading lies above with no heading in between. The provers take no
  induction rule that has an operator as its hypothesis, so `InductionTo`
  (`BinaryFloat_proofs`) gets induction up to a number from the least natural number outside
  a set. `BlockersAreFound` carries the result to every tree the critic leaves.
* `ViolationsAreNames`, by the same induction: the names collected from a list of findings
  are ids of entries, in order and each once, because a loaded file has unique ids.
* `RationsAlwaysAgree`: hits lie in planned chapters, and those are at least 1, which makes
  *retired after n* and *allowed in 1..n* the same window.
* `ScopesAlwaysFit`: what a scan counts in the whole is what it counts in the chapters
  (`ScansAddUp`). Hits are counted as the size of a set, so this is a lemma about unions over
  the chapters (`ChaptersAddUp`), by induction along 1..n. A density over its threshold in
  the whole, with none over it in a chapter, would make a sum larger than it is.

The rest is about floats. `BinaryFloat_proofs` looks at a float as an integer over a power of
two common to the floats compared, and proves what rounding keeps:

* `QuotientMonotone`: rounding keeps the order of two fractions;
* a rounded quotient is within one part in 2^Precision of the exact one (`QuotientNear`), so
  two fractions further apart than that keep a strict order. Fractions of small integers are
  equal or further apart, hence `QuotientsCompareExactly`, and, for an integer divided by a
  quotient, which is rounded twice, `OverQuotientKeepsSide`: it stays on its side of an
  integer bound unless it is that bound;
* `ProductCeilingIsExact`: the ceiling of a rounded threshold times an integer. Here the
  direction of rounding matters. 2^Precision is 2 modulo 5, so 0.3 is rounded down and 0.8
  up, by 2/5 of a unit; with the half unit the product may add, the result stays within the
  gap of 1/10 there is between the exact product and the next integer, and reaches an
  integer that is hit exactly. 0.5 is a float.

`Checkers_proofs` draws the conclusions about the code, for every figure small against the
precision (`TriggersAreCrossings`, `DistanceIsExact`, `DensityKeepsSide`) and with them the
invariants of the run (`TriggersAlwaysExact`, `DistanceAlwaysReaches`, `DensityAlmostExact`).
With 53 bits, small means a target below 2^46 words, and a threshold times the words of a
scan below 2^51. `RecountIsForeseen` uses the first: the report triggers the gates the
validator does. It adds that no command records a clean pass (`NoCleanPass`), so that a
recount is refused for its gates alone.

Besides the assumptions of the modules above these proofs use `ReceiptsAssumption` (an
absent `log.md` is none of the receipts), `StartAssumption` (the phases, cursors and bodies
a recovery may find are of the types the tree has), `BodiesAssumption`, `LinesAssumption` and
`FilesAssumption` (notes, lines of a body and the arrays of a TOML table are sequences), and
the bounds just given: `PrecisionAssumption`, `TargetAssumption` and `DensityAssumption`. The
code has no such bounds, but beyond them its floats do err, and no novel comes near. TLC
evaluates each in the runs.

`SpellingCache_proofs` proves `MetadataStaysBehind`, `CurrentIsCurrent` and
`OnlyStaleRunsGoBack` for any number of publications. None is inductive alone. `Inv` adds
that no file is later than the authority, and `RunSound`: what a run has read cannot have
changed since, except as the environment may change it. A run that reports *current* holds
the cache the authority answered for; one about to write the metadata records no more than
what it wrote to the cache. The local refresh needs the latter: it stats the source before
it reads it, so the publication read may be later than the one recorded, never earlier.

`AtomicWrite_proofs` proves `WriterInvariant` and the refinement `WriteIsAtomic`.

Every invariant and every action property of the passing runs is proved. Only model-checked
are the liveness properties `ComesToRest`, `RepairableIsRepaired` and `CatchesUp`, since the
prover has no rules for fairness and ENABLED. For the first two `EveryTreeSettles` and
`JudgementIsKept` prove the safety they rest on.

## Divergences without a run of their own

Met while modelling, visible in the definitions, but not checked by a run of their own:

* `parse_state` casts without checking types, so a hand-edited
  `target = "80000"` under `[word_counts]` loads, and
  `validate_state`, "total over every constructible `State`" (`validate.py:283`), raises
  `TypeError`: exit 1.
* When the metadata is kept and the cache is lost, the saved validators are still sent, an
  authority that honours them answers 304, and there is no cache to use: the run falls back
  to the tracked config or fails, and so does every later one until something new is
  published or the metadata is deleted (`Stuck`, which `CatchesUp` leaves out, so that no
  property speaks against it). The fallback is meant "only for an
  unavailable HTTPS authority" (`generate_typos_config.py:49`).
* A density exactly at its threshold may be reported as over it, since it is divided twice:
  11 hits in 220 words, at 300 words to the page, are exactly 15 to the page, and break the
  threshold 15. `DensityErrsOnlyAtThreshold` shows that nothing else goes wrong.
* Hence the scopes can disagree. At 300 words to the page and threshold 15, a chapter with 1
  hit in 20 words and one with 10 hits in 200 words are each exactly at the threshold and
  pass, and the manuscript of both, 11 in 220, is reported. `ScopesFitTogether` says that
  this, and no more, can happen.
* `done` exits 0 on trees that `check` reports: it asks for its six clauses, not for the
  checker's predicates.

## Plan

Done: the state machine, the read-only commands, the spelling cache, the abstract life of a
novel, the model of floats, and the theorems above. Left: an abstract writer of one turn
(intent, effect, receipt, clear) below `Lifecycle`, which `set-chapters` and `reconcile`
both implement; today `ReceiptPrecedesClear` and `ProcessHolds` state its parts.

## Not modelled

* State parsing: a coercion of one table into a record, field by field. `Document` is what
  comes out of it; a file that does not parse is refused by every command alike.
* `cyclopts`' parsing of the command line, and the two renderings of an envelope.
* Regular expressions and Unicode word splitting: a pattern is its matches, a body its
  number of words.
* The percentages of the reports, which nothing compares; layout of TOML; messages.
* Power loss (nothing is fsynced; the model kills processes only).
* Paths such as `chapter-1` that alias `chapter-01`: directories are numbers here, and the
  harness writes zero-padded paths only.
* In the spelling refresh: a cache or metadata write that fails with an `OSError`, which
  `_refresh_http` turns into a run from the stale cache; a response that breaks off and
  metadata that does not decode, which leave it uncaught.
* Two runs of `make spelling` at once; the rendering of `typos.toml`.
* The skill's prose, tests, documentation and workflows, which are not part of the program.
