# Ascout in TLA+

TLA+ models of Ascout (`src/src`, TypeScript, about 150 files and 60,000
lines), the TLC runs that check them and the theorems TLAPS proves about them.
Paths in this file are relative to the repository; `PROJECT.json` maps every
definition to the lines it models.

Ascout is a local command-line verifier: it takes a lock on a repository, runs
the project's own type checker, linter and tests on what changed, and writes a
receipt that says what was verified of which source state. Around that core the
repository grows engines behind a broker, a planning kernel with its assurance
graph, journals of agent runs, a quality engine, browser verification and
security evidence. Concurrency and failure are in the core, the journal, the
broker and the browser session. The rest are deterministic functions over
closed records, and what can go wrong there is that a decision rests on a
record that is old, of something else, or incomplete.

## Inventory

| Component | State it keeps | Operations | Hard behaviour | Status |
| --- | --- | --- | --- | --- |
| Run lock, `lock.ts` | `run.lock`, `run.lock.recovery` | acquire, recover a dead owner, release | several processes, crashes at any await, pid reuse, failing I/O | modelled, proved |
| Run directory, `run.ts` | `.ascout/runs/<id>`, marker, manifest, quarantine | create, complete, prune | a crash between two renames, concurrent pruning, a clock that steps back | modelled, proved |
| Process control, `process.ts` | child, group or tree, pipes, timers | run one command, stop it and all it started | timeout, abort, cap and close race; descendants detach, ignore signals, hold pipes | modelled, proved |
| Check pipeline, `check.ts`, `test-reproduction.ts`, `receipt/build.ts` | the run in progress, its receipt | admit, plan, execute, widen, rerun, conclude | source drift, partial failure, throws in `finally`, contradicting observations | partly, proved |
| Receipt, `receipt/*` | none | validate, decide completeness and exit code, render | rules that overlap and take precedence over each other | partly, in `CheckPipeline` |
| Test selection, `selection.ts` | none | widen before and after a run | which changes make narrow selection unsafe | partly, in `CheckPipeline` |
| Durable harness, `assurance/workflow/durable-harness*.ts` | a snapshot file, a lock directory | create, begin, complete, report | crash between write and rename, unknown outcomes, stale snapshots, abandoned lock | modelled, proved |
| Execution broker, `assurance/engines/execution-broker.ts` | what it read before the run | admit, check, execute, check again, decide | the binary, its configuration or the source changes while it runs | modelled, proved |
| Engine profiles and envelopes, `assurance/engines/*` | none | validate, decode | - | partly, in `ExecutionBroker` |
| Quality engine, `quality/*` | records, a worktree | propose, run, discriminate, reproduce, admit, find gaps, decide the release | a release decided from records made earlier, contradicting reruns, reports of another candidate | modelled, proved |
| Security evidence, `assurance/security/*` | none | normalize, gate, map coverage, compare revisions, retest, exchange, run Gitleaks | absence of an observation taken for absence of an issue; four pairs of rules written twice | partly, proved |
| Browser verification, `browser/*` | a session, a recovery history, artifacts, a budget | act, assert, recover, judge; retain, plan, admit proposals | overlapping calls, disposal during a call, late answers, an append-only history | partly, proved |
| Assurance kernel, `assurance/kernel/*` | none | register, observe, qualify, authorise, plan, omit | two descriptions of one choice; snapshots of an older registry | modelled, proved |
| Assurance contracts, `assurance/contracts/*` | none | validate a graph of records | checks of neighbours only; rings, gaps and lapsed evidence further away | partly, proved |
| Workflow stages, `assurance/workflow/*` | none between calls | resume, recover, reconcile, separate roles | - | not modelled |
| Publication, `assurance/publication/*` | none; the request is not sent by this code | intend, redact, gate | - | not modelled |
| Git, discovery, configuration, environment | none | read the repository | read at different moments of a run | not modelled; the moments are in `CheckPipeline` |
| Command line, redaction, exercise, tool adapters | none | parse, replace, intersect, build argument vectors | - | not modelled |
| Mobile, `assurance/engines/mobile-artemis/*` | a step counter | observe, judge, propose | - | not modelled |
| Review and test commands, fixtures, other engines' boundaries | none | assemble reports | - | not modelled |

How they interact. `cli.ts` calls `runCheck`, which holds the run lock from
before it reads anything until after the run directory is completed, calls
`createRunDirectory`, reads git, executes every task through `runProcess`,
writes the receipt into the run directory and completes it; `complete()` also
prunes older runs. The durable
harness is a separate entry with a file and a lock of its own. The execution
broker locks nothing and uses `runProcess` with `require_tree_exit`; the
security command calls it once and turns its result into an exit code. The
quality engine, the security boundaries, the browser records and the kernel
meet in values: a function takes records made before, by itself or by others,
and either throws or returns another one. All other interaction is through
awaited calls, files, child processes and, for `runProcess` and the browser,
callbacks.

What makes each correct: at most one live holder of the lock, and nobody's
record is taken away; no active run is removed and retention keeps the newest;
a command that was stopped has no process left; a clean exit code was earned by
every pass of every task; acknowledged intents and outcomes of the harness
survive every crash; an engine's answer is taken only from a run on what was
requested, and without secrets; a candidate is admitted and a release is ready
only by the runs, trials and obligations there are; an issue is called gone, and
a revision better, only where both were looked at completely under one rule; a
browser journey passes only by what was observed on its own source tree; every
engine is planned or its omission is explained, and an admitted claim stands on
records that stand on each other.

## Modules

| Module | Models | Kind |
| --- | --- | --- |
| `RunLock` | `lock.ts`, one action per awaited file-system call | detailed |
| `AbstractRunLock` | what the lock promises: a holder, an owner that dies | abstract |
| `RunDirectory` | `run.ts` | detailed |
| `ProcessControl` | `process.ts` and the operating system's processes | detailed |
| `CheckPipeline` | `runCheck` and what it calls | detailed |
| `DurableHarness` | `durable-harness-store.ts` and `durable-harness.ts` | detailed |
| `AbstractJournal` | the promise of the harness: a map of intents that gain outcomes | abstract |
| `ExecutionBroker` | `runQualifiedEngineV1` and what changes around it | detailed |
| `SecurityCommand` | the Gitleaks command; extends `ExecutionBroker` | composition |
| `QualityEvidence` | verdicts of runs, trials and claims, and the readers of records | pure |
| `QualityEngine` | the pipeline from a candidate to a release | detailed |
| `SecurityRecords` | four normalizers and the gates of their records | pure |
| `SecurityCoverage` | authority, engine state and the coverage report | pure |
| `SecurityReview` | sets of records, scans, comparison, retest, exchange | detailed |
| `BrowserEvidence` | the attempt log, recovery, verdicts and the readers | pure |
| `BrowserSession` | one session of the Playwright adapter | detailed |
| `BrowserRecords` | retention, intents, journeys, agent proposals | detailed |
| `AssuranceKernel` | registry, availability, qualification, plan and omissions | pure |
| `AssuranceGraph` | records of a case and what is asked of them together | pure |
| `AssuranceCase` | a case from registry to claim | detailed |
| `MC*` | who calls, which inputs | instances |
| `BrowserVerification` | the two browser models, one concern at a time | composition |
| `RecordVerification` | `QualityEngine`, `AssuranceCase` and `SecurityReview`, one at a time | composition |
| `ExecutionProofs` | theorems about `ProcessControl`, `ExecutionBroker`, `SecurityCommand` and the link between them | proofs |
| `BrowserProofs` | theorems about `BrowserSession` and `BrowserRecords` | proofs |
| `AssuranceProofs` | theorems about `QualityEngine` and `AssuranceCase` | proofs |
| the other `*Proofs` | theorems about the module of that name | proofs |

The detailed modules hold the state and the properties; the pure ones hold
operators that translate functions, and are extended by them. Next to an
operator there may be a mutated form of it, said to be one in its comment: what
the code must not become, kept to show that a property would notice.

### RunLock

A call is one invocation of `acquireRunLock` with the `release` of its handle.
`pc[c]` names the await the call stands at, `mainLock` and `guardFile` are the
contents of the two files (missing, invalid, or the record of a call), `seen`
is what the call read last, and `proc` says which processes are unborn, run or
are dead. A pid may belong to several processes one after another: `Process` is
mapped to `Pid`, so that `kill(pid, 0)` answers for a stranger as it does in
reality. A crash makes every call of a process stop where it stands. A bounded
number of file-system errors may hit any operation.

### RunDirectory

For each run: where its directory is (`runs`, quarantine, deleted), whether it
has the `.active` marker, what its manifest says, and the await its code stands
at. The two renames that replace a manifest, the rename into the quarantine,
the second look there, the way back and the deletion are separate steps.
Creation and pruning do not take the run lock, so several runs may be at it.
`entry` holds the run a pruner is about. A run that was found active in the
quarantine and cannot be put back stays there: the code leaves it, and so does
the model.

### ProcessControl

The request (platform, timeout, cap, abort signal, `require_tree_exit`), the
processes of the command with their group, pipes and fate, and the supervisor
with its timers and tear-down. The processes may fork, leave their group, close
pipes and exit at any time, and SIGTERM may be ignored; SIGKILL may not.

### CheckPipeline

`pc` walks through `runCheck`; `next` is the index of the loop over the tasks.
A tree version stands for the digest of the working tree and for everything
that is read from it, and `config`, `start`, `compared` record which version
the configuration, the source state and the comparison were read from. Results
of processes are choices; machine results list each test as passed or failed up
to `MaxShown` times per pass, whatever the exit code was: the code takes PASS and
FAIL from the exit code alone. `results` is a history variable: how the processes
of the normal passes ended. Every throw goes through the two `finally` blocks.
Left out: persistence and redaction of output, exercise records (a material
gap is a choice), selection counts, and the checks of the validator that
`runCheck` cannot break. A crash of the process inside `runCheck` is in
`RunLock` and `RunDirectory`.

### DurableHarness

Several handles in several processes open one run's journal. An operation is
mkdir of the lock directory, load, change, write of a temporary file, rename,
rmdir. A crash may strike between any two, a stale lock directory may be removed
by an operator, and one operation may fail. `expected` is the binding a handle
was opened with. `AbstractJournal` is a map from identities to an intent and,
later, one outcome.

### ExecutionBroker and SecurityCommand

`pc` is the await of one call. `world` is what the executable, the
configuration, the source and the engine's ignore file are now, compared with
what was requested; `before` and `after` are what the broker read of them, and
`saw` is a history variable: what each was while the engine ran. `changes`
counts how often each changed. The result of `runProcess` with
`require_tree_exit` and `stop_on_capture_limit` is a choice over the outcomes
`ProcessControl` describes: an error may come with incomplete cleanup, any other
outcome may not. That the process model gives no other answer than the broker
assumes is a theorem (`ProcessServesBroker`). The rows of `decideOutcome` are four operators in the order
the code states: errors, drift, shortfall, and the envelope. A secret in stderr
may be split by the cap, and is then not recognised; a secret in stdout may be
such that only the decoded envelope carries it. Left out: which limitations are
listed, the paths an excerpt replaces, and the text of reasons. A file is read
and hashed in one step; a change in the middle of a reading is one before or
after it.

`SecurityCommand` puts the command around that call: what makes it refuse
before the call, and `securityOutcomeFromRunV1`, which makes an exit code of the
broker's result. It never exits with 0.

### QualityEvidence and QualityEngine

`QualityEvidence` translates `evaluateStability`, `evaluateDiscrimination`,
`evaluateReproduction`, `decideAdmission` and `detectGaps`, and the readers of
their records, which state the rules a second time. `QualityEngine` is a
candidate on one source tree: the worktree it is written to, the reports made of
its runs and trials or of another candidate's, the decision, then conflicts,
obligations and their tests in any order, gaps found at any moment, and the
release. A record is a value and stays what it was when it was made; that is
the hazard, and why `gaps` and `obligations` are separate variables. The two
halves share no record before the regression of a defect, so the steps of the
evidence are taken first; this drops interleavings that commute, and nothing
else.

### SecurityRecords, SecurityCoverage and SecurityReview

The functions keep no state. `SecurityReview` keeps the repository: `issues` is
where each revision really has what the rule looks for, `strict` how the
revision defines its invariant, `scans` what the engine said of it; the
properties compare what the code makes of the last with the first. The engine
is external and assumed truthful (`Truthful`): it reports issues that are there,
and all of those in what it says it covered completely and without unknowns.
That is the least under which a retest could mean anything. The comparison of
two revisions by T10, the retest of T13, SARIF (T11) and reproduction links
(T12) are actions on any scans there are. `NormalizeSet`, `Inventory`,
`ContainLabel` and `MapCoverage` are the other two services: one or two inputs
of a boundary, or one coverage request. Exporting, linking and listing carry no
property of their own.

### BrowserEvidence, BrowserSession and BrowserRecords

In `BrowserSession` an action and a text assertion may both be awaited while
the page logs an error, the browser goes away and `dispose()` runs. A promise
settles in one step (`Settle`) and its caller goes on in another (`Answer`), as
microtasks do, so that what is read after an await may have changed. The caller
is the one of `benchmark.ts`: it logs every answer and lets an exception end
the session. `troubled` is a history variable. `BrowserRecords` is what is kept
between sessions: artifacts under a retention policy on a clock, intents and
journeys, the journeys a change selects, the proposals of an agent against its
budget. `BrowserVerification` puts them under one specification: a session, the
traces, the intents, the journeys and the agent share no state, so a behaviour is
of one of them, chosen in its initial state. `MCBrowserVerification` gives it
small sets.

### AssuranceKernel, AssuranceGraph and AssuranceCase

The kernel's functions take a registry, a snapshot of availability and a set of
qualifications; `AssuranceCase` lets them be made in any order, a snapshot of an
older registry included. The plan selects engines in one place and
`omissions.ts` explains those it leaves out in another. The graph is validated
stage by stage in the order of `validateAssuranceSemanticGraphV1`; what a caller
presents is chosen where it is read, and the first check that fails throws.
These modules are functions the repository exports and its tests call; no
command of `src/src` calls them yet, so the caller is external.

`RecordVerification` puts `QualityEngine`, `AssuranceCase` and `SecurityReview`
under one specification, as `BrowserVerification` does for the browser: they are
decisions from records, share no state, and a behaviour is of one of them. The
`MC` module of each lists its inputs; `MCRecordVerification` takes all three.

## Runs

| Run | What it shows | Bounds |
| --- | --- | --- |
| `run_lock_reuse` | exclusion, no foreign record removed, with pids that are reused | three processes of one call each, two of them of one pid; two attempts |
| `run_lock_faults` | no stale check-then-act; the protocol implements `AbstractRunLock`; every call settles; without errors no running process leaves a guard | two processes of one call each, two attempts, two file-system errors; fair |
| `run_directory` | an active run is never removed, completion is covered by the marker, retention keeps the newest and no more | two new runs and one old, retention 1, two time stamps, one crash or error |
| `process_control` | a stopped command is gone, an exit means the whole tree exited, pipes are released, errors are not masked, the call returns | three processes; fair |
| `check_pipeline` | what exit code, findings and stability of a receipt say of what happened; a check ends | lint and test, two test identities, one listing per pass, one edit; fair |
| `check_flaky` | the first finding below | as `check_pipeline`, no edit |
| `check_exit_zero` | the second finding below | as `check_flaky` |
| `durable_harness` | acknowledged facts survive, reports are honest, `AbstractJournal` is implemented, every operation ends | two handles, two bindings, two identities, call limit 1, one error; fair |
| `execution_broker` | an envelope is bound to what ran, no secret is shown, drift is not masked, and the command says so | two changes, of one thing or of two |
| `browser_verification` | a pass is earned, current and read back; retention and an agent's budget hold | two attempts, one assertion, two recoveries; three artifacts over four ticks; two journeys; three proposals |
| `record_verification` | quality: admission and release are earned, every record is read back. Assurance: every engine is accounted for, what is admitted is grounded, a claim is earned. Security: three normalizers and their gates agree, sets are whole, coverage is right about the runs there are, a supported fix is gone, comparisons are sound | three runs required and at most made, two environments, two seeded pairs, one conflict, one obligation and the regression; two engines, one in two configurations, two effects, times 0 to 3, two runs, three pieces of evidence, one finding; chosen inputs of each security boundary and pairs of them, coverage of two units and a second capability, two revisions, two paths, one rule |
| `security_omitted` | the third finding below | the security part of `record_verification` |

Why the bounds are enough. The lock needs two contenders and a dead third; a
third attempt repeats the second. Retention 1 among three runs has every
relation of a candidate to the kept ones. A root, a child and a grandchild have
every relation of group and pipe. One edit puts any two reads of the tree on
different sides of it. For the tests of a check, two identities separate the one
that reruns are spent on from the others, and one listing per pass already
reaches every sequence of up to four observations; one plain task next to the
tests stands for the three, which are handled alike. In the harness two handles
and two identities let one acknowledge what the other then loads, and a limit of
one call is met by the second identity. With two changes of the things around an
engine one can last, one can be undone, or two can last. Three runs in two
environments reach every verdict of stability, and both ties of its tests; one
conflict of each state and one obligation reach every gap, and the regression is
a second obligation. Two attempts and two recoveries reach a retry, an exhausted
budget and a history that was cut. Three artifacts of sizes up to two break the
count bound, the byte bound, and both. Two revisions and two paths put an issue
at one, the other, both or none, in and out of a scan's scope. Two
configurations of one engine are what selection and omission could disagree on;
two runs make a retry, three pieces of evidence a ring that is not a loop. The
inputs of the security boundaries and of the graph are listed in the `MC`
modules: each differs from an admitted one in what one check reads, so each
check is the one that refuses at least one of them.

`CHECK_DEADLOCK FALSE` stands in every configuration because every one of these
programs stops: a call settles, a run is done, a case is admitted or refused.

## Fairness

Weak fairness on the steps of a call (`RunLock`, `DurableHarness`), of the
supervisor (`ProcessControl`) and of `runCheck` (`CheckPipeline`): node's event
loop runs what is ready, a timer that was set fires, and an awaited file-system
operation answers. Nothing is assumed of the environment: processes of a command
need never exit, a crashed process need never restart, an operator need never
remove a lock directory. SIGKILL takes effect only where the code waits for it
with a bound. The other modules state no fairness: a caller of theirs may stop
at any time, and no promise depends on its going on.

## Findings

* `check_flaky`: a FLAKY test task whose every pass failed (one test failed in
  the related pass, another in the full pass) has as many failures as runs; the
  validator refuses that, and `runCheck` throws without a receipt. Listing one
  name twice in a single pass has the same effect.
* `check_exit_zero`: a test runner that exits with 0 and lists a failed test (Jest
  under a repository's `testFailureExitCode: 0`) makes a PASS, no finding and exit
  code 0. `check.ts:526` takes PASS from the exit code, and the machine result is
  read again only after FAIL (1313), while a rerun in which the two disagree is
  discarded (1288-1291). FR-014 says that PASS only describes successful work.
  `CleanIsEarned` and `FindingsComplete` say what is so: a clean exit code stands
  on exit codes of 0, and findings are complete for a run with a pass that failed.
* `security_omitted`: `sentrdel-coverage-mapping.ts:292` says that a requested
  capability that was not run is explicit coverage loss, never a pass. One that
  was requested and has no run at all leaves no loss in the report; the aggregate
  of the others is covered, and the gate accepts it. `CoverageEarned` asks that
  the report be right about the runs there are.

Met while modelling, and not stated as a run. They are limits a property leaves
out on purpose, or gaps that no line of the repository contradicts clearly.

* `check.ts:1478`: configuration and discovery are read before the source state
  is recorded, so a change between is not seen as drift.
* `process.ts:331`: on Windows `taskkill` may be given the pid of a root that
  has exited, when the request does not ask for `require_tree_exit`.
* `browser/recovery.ts:105-106` says that any truncation of a recovery history
  measures nonzero; a history that lost its last attempts measures zero (368),
  and nothing else counts them.
* The first boundary (T04) admits PARTIAL without unknown states and a record
  without limitations; the gate that is to assert its invariants again
  (`sentrdel-evidence-normalization.ts:1079`) refuses both. `RecordsReassert`
  leaves that gate out.
* Coverage mapping: a run with no units is NOT_COVERED without a loss, and an
  AVAILABLE run with covered units passes the mapping and is refused by the gate
  only. The static and secret boundaries accept an aggregate COVERED with a state
  of TIMEOUT or AVAILABLE.
* The retest (T13) matches rule and exact path: an issue that moved with its file
  reads as not observed again. `SupportedFixIsGone` speaks of the place.
* A SARIF log carries no revision; the import is bound to the one its caller
  names.
* `security-gitleaks.ts:150`: a launch that was aborted counts as executed. The
  command line cannot abort, so `CommandVerdict` asks nothing of that field.
* Planner: an engine with two configurations, neither of them usable, makes two
  omissions of one check, and planning throws.
* Assurance graph: a SUPPORTED assessment is admitted although it does not cite
  the omissions and contradictions there are; "No green by omission"
  (`docs/strategy/ASCOUT_UNIFIED_ASSURANCE_CONTRACT_FREEZE_2026-09-19.md:320`) is
  not enforced by this validator. A risk accepted until a time that has passed
  when the claim is assessed is not noticed, and the freshness of evidence is
  asserted as of its own observation. `ClaimEarned` asks what is enforced: what
  the claim does cite.

## Proofs

Every theorem is for all values of the constants under the assumptions named in
the modules. Each invariant that is proved inductive was checked by TLC on the
instances above before it was proved; it is stated beside the model or beside
its proof, and not repeated in a run.

`RunLockProofs`. The assumptions are that every call has a process and every
process a pid. The invariant `IInv` ties the label of a call to the contents of
the two files: whoever is in the guarded section owns the guard file, whoever
holds the lock owns `run.lock`, what a guarded call has read from `run.lock` is
still there. It is needed because exclusion alone says nothing of a call that
is about to write. From it follow type correctness, mutual exclusion, exclusive
guard, no stale check-then-act, and the two action properties; the step
lemma and a refinement mapping (the holder is the live call whose record is in
`run.lock`) give the refinement of `AbstractRunLock`.

`RunDirectoryProofs`. `IInv` has three parts: the label of a run says where its
own directory, marker and manifest are (`Phase`); what a pruner has seen of the
run it is about still holds (`Looked`), since a marker does not come back to a
completed run; and a run is in one pruner's quarantine only (`Exclusive`). From
it follow `CompletionCovered` and `ActiveNeverRemoved`. `RInv` adds that a run
somebody dooms is outranked by `Retention` newer completed runs that stay, and
remains so: a newer one could only leave if it were outranked itself, and then
by runs that outrank the first as well. That gives `NewestStay`: nothing is
deleted too early, for any number of runs that prune at once. `BInv` is the
other direction. As long as nothing failed and nobody crashed (`Smooth`) some
run is responsible for the completed runs that nothing protects (`Loose`): it
has yet to list the directories (`Unlisted`), or has listed all of them, or has
doomed all but `Retention`, or is done when no more are left (`Responsible`).
The last run to complete is such a one, since it lists after all the others
lost their marker. When all are done the bound follows. `RetentionExact` is both
halves; the second asks that there be a run besides those that were there
before, because nobody prunes otherwise.

`CheckPipelineProofs`. The invariant relates the status of each task to the set
of results of its processes (`Told`), the failures that were counted to the
status of the test task, and the receipt to both. `CleanIsEarned` alone is not
inductive: it speaks of the receipt only, while a second pass or a rerun could
still change what it stands for. From it follow that a clean exit code
stands on processes that all exited with 0, that failures and errors show in it,
and that every test seen failing is found where a pass failed and none erred, for
any tasks, tests, passes and edits. The other half of the
argument is order: `Handled` says which tasks have had their turn, so that none
is pending when the receipt is built, and `TestsCurrent` that the test task is
the current one from its first pass to its classification. `SInv` adds what a
settled receipt rests on: what has been closed by how far the end of the run has
come (`Settling`), and how many edits there must have been by which versions
differ from which (`EditsTell`). From it follows `ReceiptSettled`.

`DurableHarnessProofs`. The invariant says that a client between mkdir and rmdir
is the only one, that its view is the snapshot on disk, and that what it is
about to rename is that snapshot with its own change. From it follow the lock,
that acknowledged facts stay, that every snapshot can be decoded, and the
refinement of `AbstractJournal`, for any number of clients, crashes and repairs.
`ReportFresh` adds that what `recover()` found is what is on disk until it
returns: it writes nothing, and nobody else does while it holds the lock. From
it follows `ReportHonest`.

`ExecutionProofs` is about one stack. At the bottom, the invariant of
`ProcessControl` follows the awaits of the supervisor: that a group once empty
stays empty (nobody joins a group from outside), and for each await which cause,
which early exit and which close it has seen. From it follow `AnswerHonest` and
`ErrorsNotMasked` for any number of processes. In the middle, the invariant of
`ExecutionBroker` counts changes: a thing that was found good before the launch
and was otherwise while the engine ran has changed once, and twice if it is good
again or was found good afterwards. `EnvelopeBound` alone says nothing until the
result is there. From it follow that an envelope is bound to what ran, that no
secret is shown and that drift is not masked, for any number of changes: what is
changed and changed back while the engine runs is the one thing the broker
cannot see, and the properties say so. On top, `CInv` says what the command
knows of the launch (`LaunchTold`), every step of the command is a step of the
broker or leaves it alone (`CommandRunsBroker`), so the broker's theorems hold
inside it, and its verdict is honest (`CommandVerdict`). The link from
bottom to middle is an assumption made good: the broker model chooses the answer
of `runProcess` from a set, and `ProcessServesBroker` says that every answer
the process model gives under `require_tree_exit` is in it (`AnswerAsAssumed`).

`SecurityReviewProofs`. `ReviewInv` keeps what is left of a truthful engine in the
records the first boundary made of its answer: every record is of an issue that
is there, and of a complete scan none is missing (`ScansTruthful`). With it a
retest with no match and nothing incomplete contradicts an issue that is still
there (`SupportedFixIsGone`), and an evaluation that counts says of its revision
what is so (`ComparisonSound`). The records need no history: a lemma for each
of the structural, secret and dependency boundaries says that what its
normalizer returns passes its gate, for every input and not only those the run
lists, and sets of all four are whole (`RecordsSound`). Another counts the units
of an admitted run by their state, so that an aggregate that is covered has
units, and none of another state; and a run that produced nothing must have said
so by its own loss, which the report carries on (`CoverageEarned`).

`BrowserProofs`. `SessionInv` relates a session to the log it leaves: the bundle
is the log in its order (`BundleIsLog`), trouble is in the log or on its way
there (`TroubleTold`), the log is as its factories made it (`LogSound`). From it
follow `GreenIsEarned`, that a bundle passed only while the tree was its own
(`PassedIsCurrent`), and that what a session wrote is read back. `RecordsInv`
says of traces, journeys and proposals what each step keeps, above all that the
budget spent covers what was admitted and is never overdrawn (`BudgetOK`); from
it follow `ExplorationGrounded` and `RecordsReread`, and from lemmas about what
retention removes `RetentionHolds`. Sums over artifacts and proposals are
recursive functions, whose induction theorems the provers cannot instantiate;
each fact about them is proved from a smallest counterexample instead.

`AssuranceProofs` is about what is decided from records, in the quality engine and
in the assurance case. For the engine the assumptions are two required runs at
least, finitely many seeded pairs, and a candidate and a regression that are
there. `QualityInv` says that while the candidate is looked at each report is of the
runs or trials that are kept (`ReportsMade`), that obligations keep their links
and oracle, and that one found without a gap is verified and stays so
(`GapsMonotone`): a conflict is never reopened, evidence never detached, a test never unexecuted, and the
regression is no obligation before it is recorded. The lemmas about the gates
count runs by outcome and pick the first bad conflict by its index. From it
follow `AdmissionEarned`, `ReadyIsEarned` and `RecordsRevive`.

For the assurance case the assumptions are that effects, ceilings, attempts and
times are ordered as numbers are, and that arrays are finite. `CaseInv` is stage
by stage: what was taken in passed its checks, what was not is not there. The
work is in what the checks amount to. Whatever the first entry of an engine is,
the reasons `omissions.ts` knows cover every way of not being selected
(`PlanAccounts`). A parent run is an earlier attempt, so a set of runs in which
each leads to another would have no smallest attempt. The search for rings in the
evidence is a recursive function on the ids to visit, those being visited and
those that were: a rank that falls with each call shows that it has a value, and
by the same rank what it has visited stands on itself, so when it ends without
having met an id again there is no ring of any length (`LineageGrounds`). The
events of a finding are replayed, and their times do not go back. Together that is
`GraphGrounded`. `ClaimEarned` follows from the last stage alone.

Only model-checked: liveness (`CallsSettle`, `Returns`, `Ends`, `OperationsEnd`,
`GuardNotLeaked`), which is out of the prover's reach, as is ENABLED. Every
invariant, action property and refinement that a passing run checks is also a
theorem. What the runs show beyond the theorems is that the assumptions have
instances and the interesting cases happen.

## Not modelled, and why

Loss of power (the code does not sync directories in most places; a crash here
is the crash of a process). Reuse of a POSIX group id between the reaping of a
root and a late signal, and Windows descendants that are orphaned before the
walk of `taskkill`, a limit the repository states itself (`specs`,
E4_EXECUTION_BROKER_SPEC.md:145-148). An edit that is undone before the source
is read again.

Functions over text, with no state and nothing awaited between a decision and
its use: argument parsing, redaction, LCOV, tool adapters, discovery and
configuration, renderers, the mobile parsers, the review and test commands, and
the assembly of publication records, whose request this code never sends. The
stages of agent workflows other than the two the durable harness uses are called
by tests only. Of modelled components: the tokens and paths inside a security
record, the text matching of `locators.ts` (how many elements match is a choice;
what `resolveLocators` makes of that is modelled), structural schemas and canonical serialization, and the
classification of paths in `selection.ts`. Fixtures and pinned digests have no
behaviour.

What could come next: the stages of `assurance/workflow` as a composition with
`DurableHarness`, with the promise that an effect is applied at most once; and `selection.ts` against a reference of what is safe to leave out.
