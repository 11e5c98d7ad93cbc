# SkipHow in TLA+

SkipHow is a plugin for two coding hosts, Codex and Claude Code. Most of the
repository is text: skill policy, documentation, an evaluation corpus and
retained receipts. Around that text stands a small body of Python and workflow
code whose mistakes are expensive: a helper that edits the owner's instruction
files, a driver that starts paid model sessions and must not lose what they
produced, a validator that decides which claims the evidence supports, a
release pipeline. This directory specifies that code in TLA+, checks it with
TLC on small instances, and proves the most important results with TLAPS for
every instance.

Contents: [the system](#the-system), [plan](#plan),
[modules and their code](#modules-and-their-code),
[runs](#runs), [fairness](#fairness), [proofs](#proofs),
[what the models showed](#what-the-models-showed), [left out](#left-out),
[how to run](#how-to-run).

## The system

Paths are relative to `src/`.

### Activation helper — `plugins/skiphow/skills/skiphow/scripts/activation.py`

*State:* none of its own. It reads and edits instruction files that belong to
the owner: for Codex `AGENTS.md` and `AGENTS.override.md`, for Claude Code
`CLAUDE.md` and the files under `rules/`, or one explicit `--target`. Its only
property in them is one *activation block* between two markers, whose start line
records whether a line feed was put before it (`separator=1`) and whether
install made the file (`created=1`).

*Operations:* `resolve` finds the file the host reads; `plan` decides, per
candidate file, whether to install or remove the block, and refuses edited
markers and symbolic links; `apply` writes the changes one after the other, each
through `atomic_write` (staged file, second look at the target, `os.link` or
`os.replace`, `finally` clause); without `--apply` the plan is only printed.
SIGTERM and SIGHUP raise `SystemExit`.

*Interaction:* several runs may be alive at once and the owner's editor may save
at any time. There is no lock. The host reads the files whenever it starts.

*Correct when:* every byte that is not the block survives; the block ends up in
exactly the file the host reads; a host that reads the block never stops reading
it because an install failed half way; a run that leaves `atomic_write` takes its
staged file away; modes are kept; running install again always converges.

### Evaluation capture — `scripts/capture_eval.py`

*State:* a fixture directory (an ordinary worktree another process may be
writing), a preparation record, a capture record; records are created with
`open("x")`.

*Operations:* `materialize` copies fixture layers; `prepare` takes a manifest,
runs preflight and baseline commands between comparisons of the manifest, and
writes the preparation record; `capture` reads the fixture file by file, reads it
again for the final manifest, and writes the capture record.

*Hard:* the fixture can change between two reads; a command run by `prepare` may
itself change what was prepared; a record can be half written.

*Correct when:* a preparation record describes the fixture the session starts
from, a capture record holds only what was there in each pass and, when nobody
writes any more, one state; neither ever replaces an older record.

### Pilot run driver — `evals/receipts/host-pilot-20260905/run.py`

*State:* a private workspace (fixture, bare origin, raw trace), two flags
(`model_started`, `evidence_retained`), one session process group, three output
files beside the driver.

*Operations:* build the workspace, `prepare`, start the session, wait with a
timeout, stop it, retain the sanitized trace, `capture`, and only then interpret
the events; the `finally` clause deletes or keeps the workspace.

*Hard:* an exception, a signal or a kill at every step; a session that outlives
the wait; reruns after a failure.

*Correct when:* once a session was paid for, its evidence exists somewhere: in
the workspace, or in the finished capture record.

### Claim eligibility — `scripts/claim_eligibility.py`

*State:* none between runs. A run reads `claims.json` of a receipt directory and,
claim by claim, the records the claim names. Records are created once, by the
capture and by the operator, and may be missing, half written or malformed when a
run looks.

*Operations:* five rules, one per kind of claim, each a fixed order of checks that
ends in a reason, in `Insufficient` or in `Contradicted`; `evaluate_claim` turns
these, and four kinds of stray exception, into a row; `main` prints the rows and,
with `--check-declared`, compares them with the declared ones. `graded` runs the
probe of `scripts/grade_catalog.py` on the modules a record retains.

*Hard:* the order of checks decides what a gap hides; the same directory is judged
before and after records arrive.

*Correct when:* a row says `Observed` or `FAIL` only if the records show it;
nothing missing or malformed hides a result that is there or ends the run; a
decided row is never taken back.

### Host checks — `scripts/check_hosts.py`

*State:* a temporary host home, the list of recorded steps, the matrix rows, a
receipt file per host and day. The package in the checkout is read at some seven
different moments of one run.

*Operations:* the optional gate (`check.py` as a child process, 900 seconds), two
schema validators, and per host the install cycle (marketplace, install, list,
inspect, uninstall, list), then the row and, with `--smoke`, the receipt.
`validate_host_receipt` later binds a receipt to the committed package.

*Hard:* the host is another program: it may fail after having installed, report a
success that is none, print an inventory nobody can read. The package may be
edited and committed while it is being measured and installed.

*Correct when:* `PASS` means the plugin really was there (and is gone again), a
receipt that validation accepts is of the bytes that were installed, and the exit
code agrees with the rows.

### Host admission — `scripts/host_admission.py`

Asks an optional adapter, `agent-verify`, whether the process already holds a
grant, and if not replaces the process by the adapter, which waits for a free slot
and starts the entry point again. `check_hosts.py` may start `check.py`, which asks
for admission too. *Correct when* no work runs outside a grant, no process queues
for the slot of its own waiting parent, and the chain of processes ends.

### Release pipeline — `.github/workflows/{ci,release,pages}.yml`

Jobs `validate`, `publish-release`, `deploy-site`, and a manual repair workflow.
Several tags may be in flight; the two deploying workflows share one concurrency
group in which one deployment runs and one waits, and any job can be run again.
*Correct when* nothing unvalidated is published, versions increase, and the site is
of a release or of what a repair was told.

### Deterministic checks — `scripts/check.py`

2,253 lines, nearly all of which compare committed text with expected text. The
part that depends on a history, the choice of the release base and the comparison
with it, is modelled with the release pipeline; the entry through admission with
the host checks.

### Receipt privacy, catalog grading, content

`scripts/receipt_privacy.py` rewrites text; `scripts/grade_catalog.py` runs
fixture code and compares its output. The skill policy, the site, the corpus and
the fixtures are text and data.

## Plan

1. **Activation** (done): `OwnedBlock`, `BlockBytes`, `AtomicFiles`,
   `Activation`, `ActivationProofs`, `BlockBytesProofs`.
2. **Evaluation capture and pilot driver** (done): `EvalCapture`, used by
   `ManualRun` and by `PilotRun`; the abstract `RetainedEvidence`;
   `EvalCaptureProofs`, `ManualRunProofs`, `PilotRunProofs`.
3. **Claim eligibility** (done): `ClaimEligibility`, `ClaimProofs`.
4. **Host checks** (done): `HostAdmission`, `HostChecks`, `HostProofs`.
5. **Release pipeline** (done): `Release`, `ReleaseProofs`, with the release base
   of `check.py`.
6. **Algorithms of check.py** (partly): the release base is in `Release`. The
   reachability of skill documents and the portability of paths are left: both are
   one pass over text that does not change, without a property beyond their own
   definition.

## Modules and their code

| Module | Models | State and actions |
| --- | --- | --- |
| `OwnedBlock` | one instruction file as the helper tells its parts apart, `transform` | no state; a file is the owner's text, the state of the block (`absent`, `present`, `created`, `edited`), and whether the path is a link |
| `BlockBytes` | `locate`, `transform` on bytes | `content`, a sequence of tokens; the owner types, erases, deletes, creates; the helper runs |
| `AtomicFiles` | what the helper promises about a set of files | `fs`, `saved`, `raced`; `OwnerSaves`, `HelperTransforms`, `StaleCopyWins` |
| `Activation` | `resolve`, `plan`, `apply`, `atomic_write`, the signal handler | one program counter per run; an action per step that another process can come between |
| `BlockBytesProofs`, `ActivationProofs` | | theorems about the bytes of one file; about `Activation` |
| `EvalCapture` | `prepare` and `capture`, their helpers `files`, `manifest`, `preflight`, `write_new`; the model session | per run: `tree`, `marker`, `session`, `trace`, the records `prep` and `cap`, the step of the call (`job`) and its local variables |
| `ManualRun` | the operator of `evals/README.md` and `main` of `capture_eval.py` | `Prepare`, `Launch`, `Capture`, the end of a call's process, `CallKilled` |
| `PilotRun` | `main`, `owned_workspace`, `retain_before_enrichment` of `run.py` | `at` (the place in `main`), `workspace`, the two flags, the exit code, two more output files; `Raises`, `Kill` |
| `RetainedEvidence` | what the driver promises | `workspaces`, `bound`, `owner`; `Create`, `Bind`, `Record`, `Discard` |
| `EvalCaptureProofs`, `ManualRunProofs`, `PilotRunProofs` | | lemmas about calls; theorems about their two callers |
| `ClaimEligibility` | `claim_eligibility.py` and the decisions it takes from `grade_catalog.py` | `directory` (fixed), `whole` (the files that can be read), one run (`at`, `since`, `fresh`), the rows and the exit code of the last; `Arrive`, `StartRun`, `EvaluateClaim`, `Finish` |
| `HostAdmission` | `host_admission.py` under its two entry points, and the adapter | per process its `stage`; `holders`, the exit codes; `Enter`, `GiveSlot`, `RunChecks` |
| `HostChecks` | `check_hosts.py`, on top of `HostAdmission` | the package and the commit, the place in `main`, the host and what it installed, the recorded steps, rows, errors, receipt; an action per step |
| `Release` | `release.yml`, `pages.yml`, the release base and version checks of `check.py` | a line of commits, `main`, tags, runs with the outcome of each job, releases, the deployment group, the site |
| `ClaimProofs`, `HostProofs`, `ReleaseProofs` | | theorems about the three |
| `MCActivation`, `MCBlockBytes`, `MCManualRun`, `MCPilotRun`, `MCClaims`, `MCHosts`, `MCRelease` | | values of the constants |

**BlockBytes** keeps every decision of `locate` and `transform`: the number of
start lines, of start markers and of end markers, the exact body, the separator
before the block, `created=1`, and the joining of prefix and suffix. A token
stands for one run of bytes the code treats alike; bytes other than line breaks
and markers are one token, `text`. A start line, line feed included, is one token,
and so is the unedited rest of the block; any damage to either is `mark` or
`tail`. White space other than line breaks is text here; that an owner's text may
be blank matters to `_nonempty` only and is in `OwnedBlock`.

**OwnedBlock** is the same file as a record. `Commutes` of `BlockBytes` says that
abstracting and transforming commute and that the lines a text of the record
stands for stay the same lines (`SameLines`: the runs of text of the two contents
are one to one, in order, and two stand on one line in both or in neither), so that
`Activation` can work on the record. It is checked up to five tokens and proved
for files of any length.

**Activation** splits a run where the file system is looked at or changed:
`Resolve`, one `PlanFile` per candidate, `PlanDone`, then for each change
`CheckTarget` (line 348), `UnlinkTarget` (351), `OpenStaged` (106), `WriteStaged`
(109-112), `Recheck` (113), `Publish` (116-118), `Cleanup` and `Unwind` (119-121).
`Start` gives a process a new command line after a run ended, in whatever way.
`OSFails`, `Cancel` and `Kill` strike at any of these points. `OwnerSaves` is any
save: text, a pasted, damaged or deleted block, a link, a deletion, a chmod.
`saved`, `raced` and `modeRaced` are history: what the owner last left at a path,
and whether that save fell into a window in which a run no longer looks. `temps` has
the runs whose staged file is on disk, whether they are still inside `atomic_write`
or not, and `stray` is true when a process ended and left one. A signal
or an `OSError` strikes in `Unguarded` too, the places where the `finally` clause
does not help: before `temporary` is assigned, and in its own `unlink`.

**AtomicFiles** says the same promise without steps: the helper changes a file in
one step, into what install or remove makes of what the file holds *then*, and
never behind a link. `Activation` implements it (`AtomicPublish`).

**EvalCapture** has one action per point at which something else may change what
the call looks at. `prepare` is `PrepareCall` (its checks and first manifest),
`Preflight`, `CheckBuilt` (lines 243-247), `Baseline`, `CheckAfterBaseline` (254),
`PrepOpen` and `PrepDump` (`write_new`, so that a record can be left half written).
`capture` is `CaptureCall`, then twice `List` and one read per file, in sorted
order: `ReadArtifact` for the artifacts (300-309) and `ReadFinal` for the final
manifest (310), then `ReadMarker`, `CapOpen`, `CapDump`. A file is a text, a file
that does not decode, a link, or nothing; a path that became a link after `files`
listed it is read through. Modes and hashes are part of the content: two contents
are equal exactly if their hash and mode are. A command of `prepare` may write any file
and create the marker; a session may write anything until its leader and, if
`Orphans`, its descendants have gone. A call ends as `returned` or `raised` and its
caller takes over from there, so that the same steps serve the operator and the
driver. All runs share one capture path, the case in which they can disturb
each other; every run has a fixture directory and a preparation path of its own.

**ManualRun** is the procedure of `evals/README.md` around these calls. `seen` is
history, kept by `Observe`: what each file of the fixture held while the first and
while the second pass of a capture went on. `CaptureWasThere` compares the finished
record with it, so that descendants of the session may write at any moment.

**PilotRun** follows `main` statement by statement where state changes: the check
for existing outputs, `mkdtemp`, setup, `prepare`, `Popen`, the flag
`model_started`, the wait with its timeout, the second wait after SIGTERM, the
sidecar, `capture`, the flag `evidence_retained`, the enrichment, the destination
record, the `finally` clause. `Raises` is any exception or Ctrl-C at any of these
points and goes where Python would take it: through `except BaseException` while
waiting, through the `finally` clause otherwise, out of `main` when `rmtree`
itself is hit. `Kill` ends the driver and leaves the session running. `stopped` is
history.

**RetainedEvidence** says the promise in four actions: evidence is in a workspace,
a started run is bound to keep it, a record is written once, and a workspace is
given up only if its run is not bound or owns the record. `PilotRun` implements it
(`Retention`).

**ClaimEligibility** keeps every rule's order of checks. A record is what the rules
tell apart: whether it can be read, whether it is an object, its kind, whether its
transcript matches its hash, the events with what the rules ask of them, the two
manifests, the fields a claim names, the result of the probe. `None` is a missing
or malformed part. Reading is modelled by `record(W, n)`: what file `n` looks like
when the files of `W` are whole; `EvaluateClaim` lets each file that arrived since
the last claim have been read before or after it did (`since \cup W`). What a rule
does not check before it uses it is `Broken` and raises an exception that
`evaluate_claim` catches: artifacts that are no list of objects with texts (`Trips`,
as `catalog_files` looks into them), a probe result that is no mapping, an event
whose type cannot be looked up (`legible`). `judged` is the status or the exception
and `evaluate_claim` the row. A transcript with a lone surrogate is `Uncaught`: its
`encode` raises what no clause catches, and the run ends without rows. The second
half of the module says again, from the records and without any order of checks,
when a claim is `Supported` and when it is `Refuted`; the properties compare the
two.

**HostAdmission** gives each process a stage. `enter_host_admission` has the four
ways of the code: no adapter, inherited grant, an adapter that cannot answer or be
started, and `execv` into the adapter. `GiveSlot` is the adapter, an external
program: it holds one of `Slots` for the process and starts it from its beginning,
which makes it ask again. A grant is inherited by the processes started under it,
as the code's environment check has it.

**HostChecks** is one run of the matrix with its gate. The package is read by
`ReadPayload`, `ReadStatus`, `ReadCommit`, `ReadTree` (the four reads of
`package_identity`), `PlainMarketplace`, `VerifySource`, `Inspect`; `Edit` and
`Commit` of the maintainer may come between any two, and a read that walks over
several files may see some before and some after an edit (`Torn`). The commands of
a host are external and as bad as the code allows: they fail, time out, install
something else, keep a plugin they say they removed. A list is one of `Listings`: the
inventory, output nobody can read, or output that is a list or `null` and shows no
installed plugin (`vague`). The check after install fails on the last, and
`_inventory_absent` takes it for absence. Steps are recorded as the code
records them, and `EndCycle` derives row and receipt from them. `past` and
`returned` are history.

**Release** puts the commits on one line of which `main` is a growing prefix. A
push or a move of a tag starts a run; `Checkout` fixes the commit of the event and
the tags there are at that moment, `Validate` is what the job demands, `Publish` is
`gh release create --verify-tag`, which may be cut off after it created the release,
`RequestDeploy`, `Enter` and `EndDeploy` are the concurrency group as GitHub
documents it: one runs, the latest to come waits, what waited before is cancelled.
`Repair` starts `pages.yml` with a commit or a tag, and `Build` looks the tag up
when the job runs. `Rerun` runs a job and those that need it again. A version is a number, as its
comparison is all that matters. `places`, `validated`, `repaired` and `orderly` are
history.

## Runs

| Run | Instance | Checked |
| --- | --- | --- |
| `block_bytes` | Every sequence of edits and runs on files of up to 5 tokens of 11 kinds. | `RoundTrip`, `Commutes`, `OtherBytesKept` |
| `owner_and_two_runs` | Two overlapping runs on one target, two saves, one fault. | `TypeOK`, `OwnerKept`, `PlanStaysCurrent`, `StagedRemoved`, `ModeKept`, `AtomicPublish` |
| `codex_home` | Overlapping runs and previews of one action, two faults of any kind, every initial state of the two Codex files. | `RunsSettle`, `InstallKeepsConfigured` |
| `claude_home` | The same with `CLAUDE.md`, an unconditional and a conditional rule, and one kill. | `RunsSettle`, `InstallKeepsConfigured` |
| `rerun_install` | One helper started again and again, two saves, two faults. | `EventuallyInstalled` |
| `manual_runs` | Two manual runs with one capture path, two files, one write by a session, its descendants or a command, one fault, the wrong preparation named. | `PreparedIsStart`, `CaptureWasThere`, `RecordsStay` |
| `pilot_one` | One run of the control arm, two files, three writes, two faults, a session that may never end. | `CaptureIsFinal`, `CompletedByItself`, `RunEnds` |
| `pilot_two` | Two runs of one arm, one file, one write, one fault. | `TypeOK`, `EvidenceKept`, `OneRunsFiles`, `Retention` |
| `claims` | 863 directories, each a claim of one kind (or a ledger of several) around which one or two parts of the evidence are missing, malformed or failing; the files arrive in any order. | `RowsAreShown`, `NothingHidden`, `DecidedStands`, `NeverAborts` |
| `claims_hidden` | The same directories, two of which retain a record the grader trips over. | `FailureNeverDecays`, expected to fail |
| `hosts` | The matrix run, its gate and somebody else's check, one slot, a package of two files with two contents each, two edits or commits, every answer of a host. | `TypeOK`, `WorkIsGranted`, `NoWaitBehindParent`, `ExitAgrees`, `PassIsEarned`, `ReceiptIsTrue`, `RunEnds` |
| `release` | Every line of three commits over four versions, manifests that agree or not and two contents, with two pushes of tags; three chosen lines with deletions, reruns and repairs. | `TypeOK`, `ReleasedWasValidated`, `VersionsIncrease`, `SiteIsOfARelease` |

*Why the bounds are enough.* A race needs a run, somebody who changes the file
under it, and at most one more who changes it back; two runs and two saves give
all of these orders. Faults act on one run at a time; a second fault matters only
when the first left files half changed, so two are used wherever several files are
involved. A file has seven kinds of content at most because nothing in the code
tells more apart. Five tokens hold a whole block with its separator and an
owner's token on both sides. The proofs drop all of these bounds for the
properties they cover.

For captures: two files are needed to change one after the other was read, one
write to put the passes of `capture` at odds and a second to put them back, and
two runs for a race over the output files; a third would meet a file that is
already there. `manual_runs` has one write for both runs together, and
`MCManualRunWrites.cfg` three for one run, without faults; both pass. One fault ends a call or sends the driver to its `finally` clause,
the second hits it there. `pilot_one` is the control arm because only that arm can
record `task_completed`. In the `pilot_*` runs a model may stop for good, because
`main` returns; nothing else is ever stuck (`RunEnds`). `manual_runs` checks
for deadlock.

`pilot_one` and `pilot_two` take sessions without surviving descendants; with them
`CaptureIsFinal` does not hold (see `MCPilotRunOrphans.cfg` below). `EvidenceKept` and
`Retention` are proved for both. `manual_runs` has the descendants.

The owner does not save in `codex_home` and `claude_home`, and a behaviour there has
either installs or removes (`OneActionSpec`): what they claim of the end of a run
would be false of any program if the owner or another command could undo it the
moment before. `MCActivationStaleLayout.cfg` shows what happens otherwise.

For claims: a row depends on one claim and at most three records, so three names
are enough; each family of directories spoils one or two parts at a time because
the rules look at one or two at a time. Two claims in a ledger show that one claim
does not stop the next. `Arrive` happens once per file, so every run is followed by
at most three others that see more, and then by runs that see the same.

For hosts: two files are the least that can be torn by one edit, two edits the
least that change the package and change it back. One slot and a second check are
the least for a queue; the matrix run with its gate is the whole chain of processes
the code can make. The instances are split (`MCOption`): runs with the gate install
nothing, since what a gate does and what a cycle does meet in the rows only.

For the release: two tags in flight are enough for each to be compared with a base
that the other changes; the third commit lets one tag be between two others. One
deletion and one rerun, with a second push of the tag, come between any two jobs;
two repairs and a release give every order of a queue with one place to wait. A longer line adds commits nothing compares. `MaxVersion` is four so that a
version can be lower than, equal to and higher than the first one. The proofs drop
all of these bounds.

Deadlock is not checked in `hosts` and `release`: the matrix run ends, and a
pipeline rests when its maintainer does nothing.

## Fairness

`FairSpec` adds weak fairness of `HelperStep(h)`: a live run is a process the
operating system keeps scheduling, and no step of it waits for another run. It also
adds weak fairness of `Start(h)`: the owner runs install again after a run ended.
The messages of the helper ask for that ("changed after preview", "changed during
installation"), and without it nothing could follow a refusal. Saves and faults
are not fair and are bounded, which is needed: an owner who saves for ever, or a
disk that fails for ever, can defeat every run.

The run has one helper. With two helpers that are started again for ever and one
save that changes which file is effective, convergence is false: each may have
resolved a different effective file and undo the other's work for ever. No
document promises otherwise; two helpers without saves converge.

`FairSpec` of `PilotRun` is weak fairness of `DriverStep(r)`: the driver is a
process that keeps being scheduled, its calls to Git and to `capture` return or
raise, and its two waits end when their time is up. The session is not fair at
all: it may run for ever and ignore SIGTERM. Faults need no fairness.

`ClaimEligibility` has weak fairness of `EvaluateClaim` and `Finish`: a run that has
begun is a loop over a list. Nobody has to start one, and nothing has to arrive. No
property rests on it: that a loop over a list ends needs no check, and what could
cut it short is `NeverAborts`.

`HostChecks` has weak fairness of `main`, because every command it waits for has a
timeout, and of the steps of admission: `check.py` is scheduled, and the adapter
gives a free slot to somebody who waits. Whom it gives it to is not fair, and need
not be: whoever holds a slot frees it. The maintainer is not fair and is bounded.

`Release` has no fairness: when a job starts and ends is GitHub's affair, the
maintainer may leave everything as it is, and its properties are about what is
published whenever it is.

## Proofs

Every safety invariant and action property that a passing run checks is a theorem;
what remains with TLC is liveness.

`BlockBytesProofs` proves, for files of any length:

| Theorem | Statement |
| --- | --- |
| `BlockRoundTrip` | `Spec => []RoundTrip` |
| `OnlyTheBlockChanges` | `Spec => []OtherBytesKept` |
| `ViewIsSound` | `Spec => []Commutes` |

*Assumptions:* `TokensAssumption` (no file and an exception are not contents or
block bounds), `NoneAssumption`, `PartsAssumption` (an empty part of a file is not
a blank or written one).

*Argument.* The invariant is only that the file is a sequence of tokens; the work is
in what `locate` accepts. It accepts exactly the files without a mark and those in
which one start line followed by the body are the only marks, with a line feed
before them if the start line says so (`Located`, `Found`). `install` appends such a
pair (`InstalledBlock`) and `remove` leaves the two sides of it (`Left`), token by
token, and no mark (`NothingMarkedIsLeft`). The three properties follow for each of
the four cases (`PlainRun`, `BlockRun`). For the owner's lines the map from the
texts of a file to those of the result is written down: the identity before the
block, a shift behind it (`RestTexts`); what follows the text before the block is a
line break or nothing (`CutEndsLine`), which is what the separator is for.

`ActivationProofs` proves, for every set of processes, every number and layout of
files, every set of texts and command lines and any bounds:

| Theorem | Statement |
| --- | --- |
| `TypeCorrect` | `Spec => [](TypeOK /\ HasWork)` |
| `PlansStayCurrent` | `Spec => []PlanStaysCurrent` |
| `AtomicPublication` | `Spec => AtomicPublish`: `Activation` implements `AtomicFiles` |
| `OwnerIsKept` | `Spec => []OwnerKept` |
| `StagedFilesRemoved` | `Spec => StagedRemoved` |
| `ModesAreKept` | `Spec => ModeKept` |
| `RunsSettleFiles` | `MaxEdits = 0` gives `OneActionSpec => []RunsSettle` |
| `BlockStaysRead` | `MaxEdits = 0` gives `OneActionSpec => InstallKeepsConfigured` |

*Assumptions:* `ConstantsAssumption` (the layouts `resolve` can return, saves are
files, the private mode is a mode) and `NoneAssumption` ("no file" is not a file).
TLC evaluates both in every run.

*Argument.* `OwnerKept` is not inductive: it says nothing about what a run holds in
its hands. `Inv` adds `HasWork` (a run past planning has a change to apply) and
`Planned` (every planned change is what install or remove makes of an unlinked,
unedited original, and differs from it) and `PlanStaysCurrent` (when a run no
longer looks, the bytes it will write are what its action makes of the file as it
is now, unless the path is marked raced). Two facts about `transform` carry the
step: it keeps the owner's part, and transforming an already transformed file with
either action leaves the planned bytes the right answer
(`TransformKeepsCurrent`). Between the last look and the write only other runs can
touch the path without marking it raced; the second fact says they do no harm.
From `Inv` every step is a step of `AtomicFiles` or a stutter (`StepIsAtomic`), and
`OwnerIsKept` follows from that. For the modes, `ModeCurrent` says that the mode a
staged file was given is the mode of the file it is about to replace, but for a
file that another run created meanwhile, which no planned change of an existing
file fits (`NothingIsNotCurrent`).

The last two theorems have the hypotheses of the runs `codex_home` and
`claude_home`: nobody saves, and all commands of a behaviour are installs or all are
removes. They are what the statement needs and no artefact of the proof: an owner or
a second command may undo a finished run at once. The number of runs, the
layout of files, the faults and kills are unrestricted. `Settling` is their
invariant: the file the host reads first never changes while runs install; every
planned change does at its path what the runs do there (`Sorted`), that file comes
first in the plan and has the block before any other loses it (`Ready`), and a copy
a run has to take away is still before it (`Cleared`). Other runs keep this, because
a step brings no copy back and takes none away that stays (`Quiet`).

`ManualRunProofs` proves, for any number of manual runs that write to one capture
path, every fixture and any bounds:

| Theorem | Statement |
| --- | --- |
| `TypeCorrect` | `Spec => []CaptureTypeOK` |
| `PreparationIsStart` | `Spec => []PreparedIsStart` |
| `RecordsAreKept` | `Spec => RecordsStay` |
| `CapturesWereThere` | `Spec => CaptureWasThere` |

*Assumptions:* `CaptureAssumption`, `OperatorAssumption`.

*Argument.* `RecordInv`: between the opening and the end of a record there is one
call (`OneWriter` for captures, `Fresh` for preparations, which have a path each);
after the comparison that follows the last command of `prepare` the fixture is the
one that will be recorded (`Compared`), and no session runs yet (`Called`). `SeenInv`
adds, for every call of `capture` that has begun, that each artifact and each hash it
holds was in the fixture while its pass went on, and that it carries the preparation
of that fixture; what was seen in a pass only grows (`Remembers`, `SeesStay`), and a
file a descendant writes between two reads is seen before it is read. These lemmas
about records are in `EvalCaptureProofs` and serve the driver as well.

`PilotRunProofs` proves, for every set of runs, every number of files, every set of
texts, with or without surviving descendants, and any bounds:

| Theorem | Statement |
| --- | --- |
| `TypeCorrect` | `Spec => []TypeOK` |
| `EvidenceIsKept` | `Spec => []EvidenceKept` |
| `EvidenceIsRetained` | `Spec => Retention`: `PilotRun` implements `RetainedEvidence` |
| `FilesOfOneRun` | `Spec => []OneRunsFiles` |
| `StoppedIsNotCompleted` | `Spec => []CompletedByItself` |
| `RecordsAreKept` | `Spec => RecordsStay` |
| `CaptureHoldsFinalState` | `~Orphans` gives `Spec => []CaptureIsFinal` |

*Assumptions:* `CaptureAssumption` (bounds are naturals; "no file", "no record" and
"half a record" differ from files and records) and `DriverAssumption` (setup builds
trees; `Nobody` is no run; no file is not a file).

*Argument.* `EvidenceKept` is not inductive: a workspace may be removed because
`evidence_retained` is set, and nothing in it says that the record is then this
run's. `Inv` adds `Placed` (a call is under way only where `main` makes one),
`Housed` (while `main` is inside the `with` block its workspace is there),
`OneWriter` (a run between `CapOpen` and `CapDump` means a half-written record, and
no two runs are there at once: `open("x")` admits one) and `Owned` (a run whose
`capture` returned, up to the flag it then sets, owns the finished record).
`EvalCaptureProofs` has the types, once for all callers; `CallMoves` says what a step
of a call does to the calls and the record. From `Inv` every step is a step of `RetainedEvidence` or a
stutter (`StepRetains`).

`OneRunsFiles` rests on `Trailed`: past the point where a file is written, the run
that is there wrote the one before it and wrote it to the end. `CompletedByItself`
rests on `Told`: a run that stopped its session goes on with the exit code of that
stop or not at all. `CaptureIsFinal`
rests on `FinalInv`: when `main` is past its waits no session is left to write
(`Silent`), and `Reads` as above.

`ClaimProofs` proves, for every set of records, checks and directories:

| Theorem | Statement |
| --- | --- |
| `TypeCorrect` | `Spec => []TypeOK` |
| `DecidedRowsStand` | `Spec => DecidedStands` |
| `DecidedRowsAreShown` | `Spec => []RowsAreShown` |
| `EvidenceIsNotHidden` | `Spec => NothingHidden` |
| `RunsComeToTheirEnd` | `Spec => NeverAborts` |

*Assumption:* `ClaimsAssumption` (names differ from `None` and from `claims.json`,
`Broken` and `Uncaught` from each other and from every status, every directory has
all its records, its claims are a sequence, a transcript is a list). Nothing is
assumed of artifacts, probe results and events: they may be `Broken` anywhere.

*Argument.* A record that could be read is the same in every later view
(`RecordStays`); from it, one lemma per rule says that a decided status of the rule
stands when more files are whole, and `VerdictStays` says it of a claim. A run
gathers its rows one by one while rows of an older run stand, so the invariant
`RowsInv` speaks of both: every decided row, finished or gathered, is what
`evaluate_claim` gives for the files that are whole now (`Current`); a run under
way began when all that the last rows rest on was there, and so finds every
decided row again (`Agree`); and no row of an accepted ledger has drifted. The two
halves of `DecidedStands`, rows and exit code, follow for each step. `Breaks`, an
effect that has the grader judge a record it trips over, is the one way in which a
row can change, and is excluded throughout.

`RowsAreShown` and `NothingHidden` compare each rule with `Supported` and `Refuted`,
which say without any order of checks what the records show. One lemma per rule and
direction: a decided status is shown by the files that were read, and evidence that
is there gives the status although the checks before it may have found a gap.
`ShownInv` carries the first over the rows of a run under way; a file that arrives
only adds to what is shown. The final report is the last message of a transcript of any length;
that there is a last one comes from the well-foundedness of the naturals (`Least`,
`LastOne`), without induction.

`HostProofs` proves, for every set of processes and slots, every package, every set
of options and any number of edits:

| Theorem | Statement |
| --- | --- |
| `WorkIsAdmitted` | `Spec => []WorkIsGranted` |
| `NobodyWaitsBehindParent` | `Spec => []NoWaitBehindParent` |
| `ExitCodeAgrees` | `Spec => []ExitAgrees` |
| `PassesAreEarned` | `Spec => PassIsEarned` |
| `ReceiptsAreTrue` | `Spec => ReceiptIsTrue` |
| `TypeCorrect` | `Spec => []TypeOK` |

*Assumptions:* `AdmissionAssumption`, `HostsAssumption` (the gate is the only process
with a parent that is alive; the command line is one that `argparse` accepts; no
step or outcome is `None`).

*Argument.* Three invariants on top of each other. `Gated`: the gate is alive only
while `main` waits for it, so its parent's grant cannot end before it, which is why
an inherited grant lasts. `Rowed`: each capability has a row exactly when
`main` has passed its place, and there are errors exactly if one of the rows is
bad. `Cycled`: what a step has seen of the package was there since the cycle began
(`Watched`); the recorded steps, the failed one and what the host really has fit
the place of `main` (`Recorded`); the commit of the receipt was the package once,
and if it is the package now, and none came back, then it was the package all the
time, so the files that were inspected are its files (`Bound`). `ReceiptIsTrue`
needs the last: payload, commit and tree are three reads, and only a package that
did not return makes their agreement say something about the time between them.
`TypeOK` says more than types (no more slots are held than there are, every
capability has its row at the end, a receipt comes of a smoke whose host has its
row, a step is recorded once); it takes `Slotted` and `Placed` beside them.

`ReleaseProofs` proves, for every line of commits, every number of versions, tags,
runs, reruns and repairs:

| Theorem | Statement |
| --- | --- |
| `TypeCorrect` | `Spec => []TypeOK` |
| `ReleasesAreValidated` | `Spec => []ReleasedWasValidated` |
| `SiteIsReleased` | `Spec => []SiteIsOfARelease` |
| `OrderlyVersionsIncrease` | `Spec => []VersionsIncrease` |

*Assumption:* `ReleaseAssumption` (a plan has at least one commit, and the manifests
of the first, released one agree with its VERSION).

*Argument.* `IInv`: `Traced` (what the jobs of a run passed has left its trace: for a
tag, `OfTag`, in `validated` and `releases`, for a repair, `OfRepair`, in `repaired`),
`Placed` (a tag and a release are where the tag has been), `Grouped` (a deployment is
queued exactly if it runs or waits); `Named`, beside it, says that tags, releases and
site name commits of the line, and so does a run, but for a repair that is not
built yet (`NamedRun`). `Chain` adds
what holds while the maintainer is orderly: every tag has been in one place
(`Once`), all released tags stand, every tag that is not the last was validated
(`Earlier`), released versions increase (`Increasing`), and each checked-out run was
compared with the nearest tag before it, which is still the nearest (`Compared`).
That one comparison is enough because versions already increase up to the base.

*Model-checked only:* liveness (`EventuallyInstalled`, `PilotRun.RunEnds`,
`HostChecks.RunEnds`), as neither fairness nor `ENABLED` is in the prover's reach. The
type invariants of `ManualRun` and `ClaimEligibility` are proved and no run repeats
them. The theorem schemes of the library that take a predicate
(induction over naturals or sequences) cannot be used with the provers at hand; where
an argument needs the first or last position with some property, it is taken from a
well-founded minimum instead.

## What the models showed

One divergence from the documentation has a run of its own:

- a retained record that is valid JSON but no object, or a capture whose
  `end_state_artifacts` are no list of objects with texts, makes the grader raise an
  exception that `graded` does not catch; it ends `rule_completion_honesty` before
  a part that the report does not reconcile is judged, and a row that said `FAIL`
  says `UNVERIFIED` once that record is there (`claims_hidden`). `Breaks` names the
  case, and `NothingHidden` and `DecidedStands` except it.

Smaller windows have a configuration that shows them and are not among the listed
runs:

- a save between the second look and `os.replace`, or between the look and
  `unlink`, is lost, although the docstring promises every other byte
  (`MCActivationLostEdit.cfg`). The window cannot be closed with rename alone;
- `resolve` is not repeated before the write, so the block may land in a file the
  host stopped reading meanwhile, with `Applied` printed
  (`MCActivationStaleLayout.cfg`);
- a signal between the creation of the staged file and the assignment to
  `temporary`, or inside the `finally` clause, leaves the staged file, although a
  comment says that cancellation unwinds "so staged files are removed"
  (`activation.py:398`; `MCActivationCancelled.cfg`). An `unlink` that fails in the
  clause leaves it as well. `StagedRemoved` says that these places (`Unguarded`)
  and a kill are all there are;
- `prepare` looks at `absent_markers` before the baseline command and not after it
  (`MCManualRunMarker.cfg`);
- Ctrl-C between `Popen` and `model_started = True` removes the workspace of a
  session that is running (`MCPilotRunEarly.cfg`);
- the driver waits for the leader of the session only, so a descendant can change
  the fixture during and after capture (`MCPilotRunOrphans.cfg`);
- a transcript with a lone surrogate does not encode (`claim_eligibility.py:169`),
  and the `UnicodeEncodeError` ends the run without a row, although a malformed
  record "never aborts the directory" (`claim_eligibility.py:646`;
  `MCClaimsAborts.cfg`). `NeverAborts` says that no other record does;
- `_inventory_absent` takes `null`, an object without `installed`, an entry that is
  no object and a Codex entry that does not say `installed: true` for absence, all of
  which `_inventory_entry` refuses, so that uninstall passes with the plugin still
  there (`MCHostsVague.cfg`). `PassIsEarned` and `ReceiptIsTrue` except that list.

The other properties hold with the boundaries written into them, and each boundary
is a fact about the code:

- when descendants of a session write during `capture`, its artifacts and its final
  manifest may be at odds: nothing compares the two passes, and a name that became a
  link is read through (`CaptureWasThere` says what is left);
- the mode of a file can also be lost if it is changed after `target.stat()`, and
  two runs that race with one save can overwrite each other's result at that path;
- `rule_foreign_work_preserved` stops at a path that the pre-session manifest does
  not have before it asks whether another path was committed to the destination, so
  that gap hides that failure (`Refuted` asks for `Kept` there);
- a receipt can be accepted for other bytes than were installed if the package was
  changed and changed back meanwhile (`returned`);
- a smoke whose Codex marketplace a policy refuses writes a receipt that says
  `clean_install: FAIL` while the matrix row says `UNVERIFIED`; any other
  `ValueError` of a smoke is reported as "candidate package is not committed";
- `--verify-tag` asks only that the tag exists: a tag that is moved between `validate`
  and `publish-release` publishes a commit nobody validated (`places` with two
  commits);
- versions increase only for a maintainer who pushes each tag once, past all others,
  when the others have passed (`orderly`): a tag that failed and stays, or a
  released tag that is deleted, changes the base of the next comparison;
- a rerun of `publish-release` after the release was created fails, so its site
  can be deployed through `pages.yml` only; a rerun of an old `deploy-site` is a
  request like any other and puts the older site back, and two releases deploy in
  the order in which their jobs come to the group, or the one that waits is
  cancelled. No property promises more than `SiteIsOfARelease`;
- the tag a repair was told is looked up when its job runs, so it deploys whatever
  commit the tag names by then (`repaired`).

## Left out

- the status, availability and managed-policy reports of the helper: they read
  and print. `configured` is the one fact taken from them;
- links among parent directories and dangling links;
- in `capture_eval.py`: the single checks of `validate_config` and `preflight` (one
  outcome each), `materialize` inside the operator's or driver's setup, marker and
  trace text in a record, commands of `prepare` that leave processes behind;
- in `run.py`: the text of prompts and configuration, the Git commands (one step
  before the session, one after it), and the printed report;
- in `claim_eligibility.py`: the text of reasons, `--claims`, several directories on
  one command line (each is judged on its own), JSON nested so deeply that Python
  gives up on it, a terminal that cannot print the rows;
- in `check_hosts.py`: redaction of receipts, the printed matrix and
  `--matrix-out`, the four rows that are always `UNVERIFIED`; the checks of one
  command's output (`_codex_installed_path` and the like) are one outcome each;
- of the workflows: `ci.yml`, which publishes nothing, artifact retention (a
  failed download is a failed job), branches other than one line of commits;
- `receipt_privacy.py` and the command line of `grade_catalog.py`, the comparisons of
  text in `check.py`, the skill policy, the site, the corpus: no state and no
  control a model could add to.

## How to run

    tlc -workers 2 -config MCActivationTarget.cfg MCActivation
    tlc -workers 2 -config MCPilotRunTwo.cfg MCPilotRun
    tlapm BlockBytesProofs.tla
    tlapm ActivationProofs.tla
    tlapm ManualRunProofs.tla
    tlapm PilotRunProofs.tla
    tlc -workers 2 -config MCClaims.cfg MCClaims
    tlc -workers 2 -config MCHosts.cfg MCHosts
    tlc -workers 2 -config MCRelease.cfg MCRelease
    tlapm ClaimProofs.tla
    tlapm HostProofs.tla
    tlapm ReleaseProofs.tla

`PROJECT.json` lists the runs with their configurations and the expected
outcome, the mutations each property was seen to catch, the source lines behind
every definition, and the theorems.
