# TLA+ models of ymir-harness

ymir-harness runs the Ymir agents (triage, backport, rebase, rebuild) against
recorded inputs, so that two versions of an agent can be compared on the same
evidence. A *case* is a directory of fixtures: expected results, web responses,
Jira issues, source repositories. A *run* executes an agent on a case with every
outgoing call replayed from the fixtures or refused, scores the result and
writes a report. `prepare-case` builds the fixtures by running the case,
recording what the run missed, and running it again.

This directory holds TLA+ modules of the harness's control, TLC configurations
that check them on small instances, and proofs checked with TLAPS. Paths below
are relative to `src/ymir_harness/` of the repository.

## Inventory

| Component | State it keeps | Operations | What is hard | Module |
| --- | --- | --- | --- | --- |
| prepare loop (`cli.py` `_prepare_case`) | iteration, automatically allowed hosts, captures and skips of the iteration, status | run an iteration, judge it, capture, allow hosts, go on or stop | results directories are reused by later invocations; the end is decided from the texts of log lines and skip reasons; partial failures | `PrepareCase`, `PrepareContract` |
| capture (`capture_missing.py`) | web manifest (recorded files, git failures, Koji builds, subprocess replays), source, Jira and lookaside fixtures | read misses from a directory, fetch, record | manifest written last, other fixtures at once; failures are fixtures too; `--overwrite` | `PrepareCase`; what it writes of each service in `SourceCache`, `JiraReplay`, `KojiReplay` |
| workflow glue (`ymir_workflows.py`) | the task it waits for; the actual result | tick, cancel on a miss; take the inputs, write the outcome | races with the workflow's end; reads files other runs left; fields filled in for the agent | `PrepareCase`, `Scoring` |
| case runner (`runner.py`) | results directory per run: logs, `run.json`, actual results, worker request and result | set up, run (in process or in a container), classify, score, report | deadline against the worker's end, container left behind, exceptions that hide a timeout, stale files | `RunCase`, `RunContract` |
| worker process (`workflow_worker.py`) | result file | read request, run, write result | killed at any point | `RunCase` |
| activation (`cli.py` `_activate_case`) | `case_status` of the expected fixture, validation reports | validate, find evidence, write, validate again, restore | crash between write and restore; two cases activated in turn; evidence older than the fixtures | `ActivateCase`, `ActivateContract` |
| source fixtures, mock repositories (`source_fixtures.py`, `mock_repos.py`) | manifest of refs, submodule of the cases repository, mock data, the run's bare repositories | capture, commit and clone the cases, initialize, materialize, infer mock data | upstream moves on; shallow clones; two halves written one after the other | `SourceCache` |
| Jira replay, Jira mock (`jira_replay.py`, `jira_mock.py`) | issue, comments, starting state, date and development status per issue; recorded searches | rewind an issue to a date, make a run's issue, answer a search | fixtures made long after the date; several writers; commands that stop half way | `JiraReplay` |
| Koji replay (`koji_replay.py`) | recorded candidate builds | fetch as of a date, look up | Koji's past is known only in part | `KojiReplay` |
| boundary enforcement (`enforcement.py`) | patched process globals, a context variable | patch, decide per call, restore | order of the lookups, compound commands, contexts that are copied | `Boundary` |
| replay cache (`replay.py`) | recorded URLs, repositories | look up a URL, a command, a git failure | precedence of recorded failures, files that are lost | `Boundary`, `SourceCache` |
| safety (`safety.py`) | none | classify commands and writes | compound commands | `Boundary` |
| scoring, comparison (`scoring.py`, `comparison.py`) | none | score an actual result, compare two reports | precedence of verdicts, missing values | `Scoring` |
| artifacts of a run (`artifacts.py`) | artifact directory, its manifest | collect what a backport made | one directory for all attempts; killed half way | `Scoring` |
| collection (`collect_case.py`) | first fixtures of a case | import from Jira and GitLab | several files, in order; extraction from text | `JiraReplay`, `KojiReplay` (its writes) |
| validation (`validation.py`) | none | check a case directory | checks about dates and commits | `SourceCache`, `KojiReplay` (those checks) |
| gateway (`ymir_gateway.py`) | none | patch tools of the MCP gateway | glue | its answers in `JiraReplay`, `KojiReplay` |
| judge (`llm_judge.py`), metadata, reports, data types | none | ask a model, paths, rendering | - | - |

How they interact: the prepare loop calls validation, the runner, then capture;
the runner starts the workflow inside the enforced boundaries and, next to it,
the monitor (`_await_workflow`); enforcement asks the replay cache, and what it refuses becomes a
log line in the results directory; the monitor and the prepare loop find those
lines by reading the directory, and capture turns them into fixtures. There is
no message between these parts: **the results directory is their shared
memory**, and that is where the properties of the first three modules are aimed.
The other five are about **the evidence**: fixtures are made of services that
live on (a git server, a tracker, a build system), again and again and long
after the date they are to show, and a verdict is made of files that several
attempts share.

What makes each part correct:

- prepare loop: a case it accepts is replayable; "blocked" means the user must
  act; it makes progress and ends; it keeps to the hosts it may use.
- capture: recordings are never lost, and never replaced without `--overwrite`.
- monitor: it stops a run for a miss of that run.
- runner and worker: an entry reports the run it is about; a run cut short by
  the deadline is a timeout; nothing is left running.
- activation: a case is active only with evidence of a pass and a valid
  fixture; a failed activation leaves the case as it was.
- source, Jira and Koji replay: a run sees the world as it was at the case's
  date, whenever its fixtures were made; what is recorded stays; a valid case
  can be run.
- enforcement: nothing but the model is reached, as far as the check can see what
  a call asks for; what is captured is answered.
- scoring, comparison: a verdict is on what this agent did, not on what was on
  file; what got worse is reported as a regression.

## PrepareCase: the prepare loop and its actors

`PrepareCase.tla` models `_prepare_case` and everything its decisions depend on:
the workflow, the monitor, the files of the results directory, one pass of
capture, the automatic allowing of hosts, and the death of the command at any
step.

Data is abstracted to *items*. An item is one external input: a web page, a
repository, a Jira request, a Koji build or a source archive (`Kind`), on one
host. Its state in the fixtures is `content` (recorded), `failures` (a recorded
error) or neither; `Served` is what replay answers, with a recorded git failure
before the repository, as in `enforcement._subprocess_replay`.

| State | Code |
| --- | --- |
| `content`, `failures` | manifest, source, Jira and lookaside fixtures |
| `log`, `leftover`, `runJson`, `actual` | per iteration, the misses named by the files of the last run there; by what earlier runs left in files no run empties (`artifacts/`, a worker's result, the gateway's debug log); by `run.json`; by the actual-results file |
| `pc`, `iteration`, `status`, `captured`, `skips`, `autoHosts` | locals of `_prepare_case` and `_prepare_capture_missing` |
| `violated`, `stoppedOn`, `report`, `warned` | what the run left: violations in the case's files, the URL the monitor stopped it for, the entry's status, replay warnings of the validation |
| `overwrite`, `excluded`, `invocations` | chosen when the user runs the command |

| Action | Code |
| --- | --- |
| `Invoke` | the command line; fixtures and results are what earlier invocations left |
| `ValidationBlocks`, `SkipRun`, `SetupFails`, `StartRun` | `_prepare_run_iteration`, the early returns of `_run_case_result`, and the truncation of the workflow's and the gateway's output files; which names the files that are not truncated keep is chosen by `StartRun`, when it first matters, and again by `WorkflowReturns`, which writes artifacts over older ones |
| `LogMiss`, `LogRecordedError`, `LogMentioned` | the agent asks for something not recorded, or for a recorded error; or names a URL in a command that is answered with a miss for every URL in it, recorded or not (`_replay_miss_subprocess_payload`) |
| `StopOnMiss` | a tick of `_await_workflow` that finds a missed URL in any file |
| `WorkflowRaises`, `WorkflowReturns` | the two ends of the workflow, with scoring and `run.json` |
| `AcceptRun`, `BeginCapture` | `has_failures` and `_prepare_has_replay_candidates` |
| `CapturePass` | one `capture_missing` and what `_prepare_auto_allowed_hosts` makes of it |
| `NextIteration`, `LimitReached`, `NothingCaptured` | the rest of the loop's body |
| `AbortCapture`, `Abort` | a kill, or an exception nobody catches; source, Jira and lookaside fixtures already written stay, the manifest does not change |

Abstracted: `_prepare_complete_existing_case`, which infers mock data between
iterations and writes none of the files above, and the triage run of a backport
case (both are in `ActivateCase`); a timeout, which for the loop is one more failed entry (so is
`WorkflowRaises`); the wording of reasons, except for whether a skip reason is
one `_prepare_has_only_recorded_replay_candidates` knows (`SkipReason`). The items
an agent may name in commands of the last kind are the constant `Mentioned`.

### Properties

| Property | Says | Run |
| --- | --- | --- |
| `TypeOK` | types | prepare_hosts |
| `SucceededIsReplayable` | an accepted case did not fail and misses nothing its last results directory names, Koji apart | prepare_kinds |
| `BlockedIsStuck` | "blocked": all that is left is recorded or on hosts that cannot be allowed | prepare_hosts |
| `IterationsMakeProgress` | iteration n + 1 has at least n recordings, without `--overwrite` | prepare_kinds |
| `RecordedIsStable` | a recording is never lost, and keeps its answer without `--overwrite` | prepare_hosts |
| `FetchesAreAllowed` | what becomes recorded lives on a host the user allowed or on one of the safe hosts the capped rule allowed (`HostsAreAllowed`) | prepare_hosts |
| `InvocationEnds` | an invocation ends, or its agent hangs without having missed a URL | prepare_hosts |
| `EveryStepAdvances` | every step of an invocation, whoever takes it, lowers a measure: iterations left, then the phases left of the iteration, then what the phase can still do (items to log, hosts to allow) | prepare_hosts |
| `StopIsExplained` | the monitor stops a run for a URL of the run's own log that replay did not answer with content (or that was named in a command it cannot answer), or, after a first invocation, for one that invocation left in a file no run empties: artifacts, a worker's result, the gateway's debug log, `run.json`, the actual results. The iterations of one invocation never stop each other's runs, and nothing the truncated logs held stops one | prepare_kinds |
| `ContractKept` | the command does what `PrepareContract` says, in every step | prepare_kinds |

Four statements of the repository's documentation, messages and tests do not
hold of the code, and a run shows each counterexample:

- `StoppedOnlyOnMissing` (prepare_stop_404): the monitor says "URL is not
  recorded in replay cache" of a URL whose 404 was recorded and replayed. A case
  that needs a replayed 404 can never be prepared: each iteration is cancelled.
- `StoppedForAReason` (prepare_stale_results): a second invocation with the same
  run id is stopped by what the first one left: its `run.json`, its actual
  results, or an artifact, worker result or debug log that no run empties.
  `StopIsExplained` bounds this finding and the one before: an unfounded stop is
  for a recorded error, a URL merely mentioned, or one left in such a file.
- `SucceededMissesNothing` (prepare_koji): the loop accepts a run that missed a
  Koji build.
- `ContentStaysServed` (prepare_overwrite): a failed clone under `--overwrite`
  hides a good source fixture, where the web half of the same function keeps it.

### The contract

`PrepareContract.tla` is what `prepare-case` promises whoever runs it, with no
run, log file, kind of fixture or capture in it: inputs are `recorded`, a run
names some as `missing`, a round may record those that are missing and on
permitted hosts (`Capture`), a further round is paid for by a recording of the
one before (`NextRound`), "ready" is said when nothing that is checked is
missing (`EndReady`) and "stuck" when nothing more can be had without the user
(`EndStuck`). `PrepareCase` implements it under the mapping of `Contract`
(INSTANCE ... WITH at the end of the module): recorded is `content` and
`failures`, missing is what the files of the iteration's results directory name
(`Candidates`, a function of four variables that nine actions write), permitted
is the user's hosts and the automatic ones, `redo` is `--overwrite`, and the
verdict is "open" while the program counter is not idle. Koji builds are
`Unchecked`: the contract says openly that they are fetched from any host and
that "ready" does not speak of them. The steps of a run that touch no file the
loop reads are stutters.

The contract is not the sum of the invariants: it orders the steps. An
iteration that went on without a capture, a status said while a fetchable item
was left, a host allowed after the cap was spent, or a recording dropped by any
step breaks it.

### Instances and bounds

`prepare_hosts` has two pages and a repository on three hosts: one allowed, two
safe. The cap is one, so that one of the safe hosts must be refused; two
iterations, so that the cap is spent in one and felt in the next. Both values of
`--overwrite` are tried, and liveness is checked there. `prepare_kinds` has one item of each kind that is not
recorded in the manifest's URL list, and two invocations, so that the second
works on the first one's results; it has two million states and only safety
properties. Two items that are missed one after the other
already need two iterations; a third iteration adds no new kind of step.
`MaxInvocations` is the only bound the code does not have. Items are not
symmetric (they differ in kind and host), so no symmetry is used. The runs do not
check deadlock: when the invocations are used up, the system rests.

### Fairness

`FairSpec` is weakly fair for `Harness`, the steps of the command itself, among
them the monitor's tick: the loop `asyncio.wait(..., timeout=interval)` gets
control every interval, and the prepare command always sets one. Nothing is
assumed of the agent: `YMIR_HARNESS_AGENT_TIMEOUT_SECONDS` is optional, so an
agent that hangs may hang for ever, and `InvocationEnds` says exactly when.

### Proofs

`PrepareCaseProofs.tla` proves all safety properties above (not the four that
fail) for any items, hosts and bounds that satisfy the module's three named
assumptions. The inductive invariant is `TypeOK` with three parts:

- `EndInv`: a status other than "none" is only there when the invocation is
  idle; a run is judged only after its report; each recorded skip is true of the
  fixtures and hosts (`SkipsAreTrue`); when the loop is about to decide, nothing
  is left that a further pass could fetch (`NothingLeft`). `SucceededIsReplayable`
  and `BlockedIsStuck` speak of the end of an invocation, several steps after
  the facts that make them true, so they are not inductive by themselves.
- `HostsAreAllowed`, which is inductive with the types.
- `CapturesCount`: the recordings number at least the iterations done, plus one
  when this iteration has captured; it needs that a pass without `--overwrite`
  records only what was not recorded, which is `RecordedGrows`.

`RecordedIsStable` and `FetchesAreAllowed` are action properties and follow from
lemmas about a single pass (`PassRecords`, `FetchStep`). `OnlyClonesHideContent`
marks off the finding of prepare_overwrite: content stops being served only by a
clone under `--overwrite`.

`InvocationsAreFinite` states the part of termination that is within reach: the
measure `Left`, a triple of natural numbers, is lowered lexicographically by every step
of an invocation (one lemma for steps to a later phase, `PhaseStep`; one for steps
that repeat a phase, `RoomStep`: a line is logged once, and a capture pass is
repeated only after a host was allowed, of which the cap leaves `Slots`); and the
order is well founded (`BelowIsWellFounded`, from the library's theorems about
lexicographic pairs). So an invocation has no infinite behaviour in which
steps go on being taken, with no fairness assumed. What is missing to
`InvocationEnds` is that a step is taken at all.

`StopsAreExplained` rests on two invariants about the files: while a run is under
way its log names only what was not answered (`LogIsUnanswered`; `StartRun` empties
the log, and no capture runs at the same time), and a first invocation finds
no file of any kind in the directories of iterations to come, so that what
`StartRun` lets survive there is nothing (`DirectoriesAreFresh`).

`ContractIsKept`: the first states of `PrepareCase` are first states of the
contract, and each action is a step of the contract or leaves its eight
variables alone. The ends of the loop need the inductive invariant above
(`NothingLeft` for "stuck", the judged files for "ready"); the rest needs the
lemmas about a pass.

Only model-checked: `InvocationEnds`. Liveness under fairness is out of the
prover's reach.

## RunCase: the attempts at one case

`RunCase.tla` models `runner._run_case_result` over the attempts that are made at
one case with one run id, and the two processes behind each attempt: the podman
client the harness starts and waits for, and the workflow in its container
(`workflow_worker.main`). With the isolation turned off, the workflow runs in
the harness's process, and the same module has that too. The run id is the
variant unless the user gives one, so attempts share their files by default.

| State | Code |
| --- | --- |
| `attempt`, `mode`, `deadline` | the call of `_run_case_result`, the isolation mode and `YMIR_HARNESS_AGENT_TIMEOUT_SECONDS` |
| `host` | where `_run_worker_container` and `_run_case_result` are |
| `worker`, `attached` | each attempt's workflow, and whether its podman client lives |
| `cid` | the container named by `container.cid` |
| `named` | the attempts whose violations each searched file names |
| `resultFile`, `actualFile` | who wrote `result.json` and the actual-results file |
| `execution`, `entry` | the execution the harness goes on with; the entry of the report |
| `violators`, `overlap`, `lost` | history: who logged a violation; which workflows were alive when an attempt started; whose container nobody removed |

| Action | Code |
| --- | --- |
| `SetupFails`, `Start` | the early returns of `_run_case_result`; `_execute_isolated_case_workflow` up to `Popen` |
| `CreateContainer`, `ClientFails`, `StartGateway`, `LogViolation`, `WriteResult`, `Exit` | podman and the worker |
| `WaitReturns`, `DeadlineExpires` | the two ends of `process.wait` |
| `RemoveContainer`, `RemoveFails`, `RemoveHangs` | `podman rm -f`: it removes, returns an error nobody reads, or does not answer within its 30 seconds |
| `TerminateClient` | `_terminate_worker_process`, and the removal of the cid file in `finally` |
| `ReadResult`, `ReadFails` | `result.json`, which another worker may be writing |
| `WorkflowReturns`, `WorkflowRaises` | the ends of a workflow in the harness's process |
| `ReportTimeout`, `Report`, `ReportUnwritten` | search for violations, actual-results file, scoring and budget |
| `HostDies` | the harness is killed, at any step; a container goes on |

A file is abstracted to the attempts it speaks of. That is what the code cannot
tell apart: `result.json` has no attempt in it and is never removed, and a line
of a log names a URL, not a run. Abstracted further: the loop over cases and
repetitions (nothing is kept from one to the next), the building of the
worker's image, environments and fixture views.

### Properties

All are in run_attempts, unless a run is named.

| Property | Says |
| --- | --- |
| `TypeOK` | types |
| `PassedOnItsOwn` | a passed entry reports the attempt's own execution, and its workflow logged no violation |
| `BlamesLeftoversOnly` | an attempt is failed for its own violations, or for those in the files no attempt clears |
| `NothingLeftRunning` | when an attempt is over its workflow is gone, unless podman did not remove it, it was created too late, or the harness died |
| `AttemptEnds` | an attempt ends, unless its workflow hangs where the code sets no limit |
| `ReportKept` | every step is one `RunContract` allows |

The first two properties that speak of results hold of attempts that start when
no other workflow is alive (`Undisturbed`). The code does nothing for the
others: a container that outlives its attempt writes the same files as the next
one. `AloneUnlessLost` says when that can be: two workflows write the files at once
only after an attempt lost its container. It is proved, and no run checks it by
itself, since `ReportKept` has it in the contract's `Begin`.

One statement of a test does not hold: `DeadlineIsTimeout` (run_deadline).
`test_runner.py` expects an expired deadline to end in a `TimeoutError`, but
replaces the removal of the container. When `podman rm` does not answer, its own
`TimeoutExpired` takes the place of the deadline's: the entry is "failed", and
the podman client is not terminated.

### The contract

`RunContract.tla` is what the reader of a report may believe, with no podman, file
or phase of the harness in it: attempts begin one at a time and in order
(`Begin`, `Decline`); each is answered at most once (`Enter`) or never
(`Abandon`); workflows work, sin and die at any time (`Work`); one that is alive
after its attempt is `astray`, unless the attempt itself was disturbed; a new
attempt finds another workflow alive only if that one, or one before it, was left
astray;
and an attempt that was alone at its start is answered by its own execution or
by none, and passes only when that execution is over and blameless. `RunCase`
implements it with `alive` the workflows that live, `answer` the status and the
author of each entry, and `astray`, `guilty` and `beside` the histories `lost`,
`violators` and `overlap`. The files (logs, cid file, `result.json`) are not in the mapping:
what happens to them shows only in the answers, which is why an answer that is
read from the file an earlier attempt left breaks it.

### Instances, bounds and fairness

run_attempts has two attempts, every mode and both settings of the deadline. The
second attempt is the first that finds the files, the cid file or the container
of another; a third would find the same from either of two. `MaxAttempts` is the
only bound the code does not have, and the reason that deadlock is not checked:
the system rests after the last attempt.

`FairSpec` is weakly fair for `Harness`: the harness's own process goes on.
Podman and the workflow may hang for ever. `podman rm` is called with a timeout
and the client is terminated with one and then killed, so the steps
`RemoveContainer`, `RemoveHangs` and `TerminateClient` are the harness's own.

### Proofs

`RunCaseProofs.tla` proves the five safety properties and the refinement for any number of
attempts. `IInv` adds to them what they rest on, most of it under `Quiet` (an
attempt is under way that was alone when it started):

- `QuietInv`: an attempt that was alone when it started stays alone. This is
  what makes the rest inductive, since only Start brings a workflow to life.
- `ResultInv`: an attempt whose client has left with status 0 wrote
  `result.json` itself. It is why a stale file is never read: the worker writes
  before it exits, and the harness checks the exit status before it reads.
- `SilentInv`, `OwnLinesInv`, `ClearedInv`: the attempt's own violations stay in
  the files and other attempts' are gone from those that are cleared. They need
  `SilentInv`, as the gateway's logs are truncated in the middle of a run.
- `ContainerInv`: the cid file names the attempt's container as long as the
  harness may have to remove it.
- `OverlapInv`, `FreshInv`, `PhaseInv`: which workflows were left, what is known
  of attempts to come, and what a phase of the harness says of its workflow.

`ReportIsKept` proves the refinement, for any number of attempts. It adds two
invariants to `IInv`: an attempt under way has no entry yet (`OpenInv`, so that no
answer is given twice), and a worker that got as far as its last step wrote a
result (`WrittenInv`). `EnterStep` is the heart: each of the five ways
to an entry is an answer that the contract allows, by `PassedInv`, `ResultInv` and
`NothingLeftRunning` of the state it leads to. A step of a workflow may be seen
by the contract or not (`WorkStep`, `HiddenSteps`).

`DeadlineWithoutHangs` marks off the finding of run_deadline: in behaviours in
which `RemoveHangs` is never taken, `DeadlineIsTimeout` holds. The hanging `podman
rm` is the only way to lose the timeout.

Only model-checked: `AttemptEnds`.

## ActivateCase: a case and its sibling

`ActivateCase.tla` models `activate-case`, and the commands `prepare-case` is
made of around its loop, over the two directories that hold a backport case: the
case, and its sibling of the triage workflow in the next directory. A backport
starts from the triage result; when there is none, `prepare-case` prepares the
sibling first, and with `--activate-on-pass` it activates the sibling before
the case. `PrepareCase` has the loop's own decisions; here an iteration is a run
with any verdict, and what counts is which report, which branch and which status
the commands read later.

| State | Code |
| --- | --- |
| `command`, `commands` | the arguments that matter: the workflow's directory, `--overwrite`, whether there is something to import, `--results-dir` |
| `pc`, `outcome` | where `_cmd_prepare_case` or `_cmd_activate_case` is, and how it ended |
| `status`, `branch` | `case_status` and `target_branch` of the expected fixtures |
| `mock` | the branch of the backport's mock data |
| `triageResult` | `triage_results/<case>.actual.json` |
| `reports`, `newest` | `run.json` per place and iteration, and which is the newest |
| `loop`, `triage`, `target` | whose loop is under way; the payload's `triage_result`; the case `_activate_case` works on |
| `completion` | what the last `_prepare_complete_existing_case` said |
| `started` | history: the statuses when the command began |

| Action | Code |
| --- | --- |
| `ActivateCommand`, `PrepareCommand`, `Edit` | the user |
| `UseCached`, `PrepareSibling`, `Publish` | `_prepare_backport_triage_result` |
| `Collect`, `CompleteExisting` | the start of `_prepare_case` |
| `Iterate`, `Capture`, `Accept`, `Fail` | its loop, and every way to an error before the activation |
| `SkipActive`, `Refuse`, `RefuseUnproven`, `FindEvidence` | `_prepare_activate_sibling_triage`, and `_activate_case` up to its write |
| `WriteActive`, `Activated`, `Reject`, `Restore` | the write, the second validation and the restoring |
| `Die` | the command is killed at any step; a file being written is cut short |

A branch that is asked for (`Requested`) is the triage result's or, failing
that, the expected fixture's. A report keeps whom it is about, its verdict,
whether the fixtures are still those it ran with (`fresh`, which the code does
not know), and what a triage found. Abstracted: both directories hold the case;
one run id; no one edits during a command; an import needs `--overwrite`, since
the case is there; the package is known, since an expected fixture without one
is not valid; validation fails or not, whatever the fixtures (it also looks at
git and the environment).

### Properties

All are in activate_sibling.

| Property | Says |
| --- | --- |
| `TypeOK` | types |
| `ActivatedOnFreshRun` | a case that `prepare-case` ran is activated on a passing run of that case with the fixtures it still has; a sibling, on the run that gave the triage result |
| `SiblingFirst` | when `prepare-case` activates a backport, its sibling is active |
| `FailureActivatesNothing` | a command that ends with an error has activated nothing but the sibling of its case |
| `CompletedAgrees` | with `--overwrite`, the inferred fixtures agree with the triage result, or a warning says they do not |
| `PassActivates` | an activation after loops that passed is not refused for want of evidence, unless the triage result was there before |
| `ActivationKept` | every step is one `ActivateContract` allows |

What the properties leave out is what the code leaves out. A triage result that
is there is used at any age, with `--overwrite` too, and its sibling is then
activated on its newest report; `activate-case` takes any passing report. The
reports hold a checksum of the fixtures, but no activation compares it, so
`ActivatedOnFreshRun` is limited to cases the command itself ran. And a killed
command leaves what it had written: the case is active without its second
validation, or its fixture is torn and must be repaired by hand.

One statement of the documentation does not hold: `PassActivates` with
`--results-dir` (activate_given). The option is handed on to the triage's loop,
so both loops write `<results-dir>/iteration-1`, and the backport's first run
replaces the triage's evidence. If that run failed and a later one passed, the
activation of the sibling is refused and the command ends with an error. (If it
passed, the sibling is activated on the backport's report.)

### The contract

`ActivateContract.tla` is what the two commands promise the keeper of a set of
cases, with no loops, reports, branches or fixtures' texts. A command has a case and
perhaps others that come before it. Fixtures are written (`Write`), which makes
their earlier runs worthless and may, for a command with `--overwrite`, end an
activation; a run may prove a case (`Run`); a case is tried (`Try`) on a passing
run of what it now is, or on the word of the user (`activate-case`, or a triage
result that is taken as it is: `Rely`), and by `prepare-case` only after those before it;
what was tried is confirmed or taken back (`Confirm`, `Fail`); a failed command
has activated nothing but, perhaps, those before its case; a killed one leaves on
trial what it wrote (`Die`). `ActivateCase` implements it: a case is *on trial*
between `WriteActive` and the end of the second validation, *active* when its
fixture says so outside of that, and *fresh* when some report, wherever it lies,
is a passing run of the case with the fixtures as they are.

Unlike the invariants, the contract speaks of every step. It says
that nothing else ends an activation: an import without `--overwrite`
that wrote the expected fixture of an active case would satisfy all
six invariants and break `ActivationKept`.

### Instances, bounds and fairness

activate_sibling has two iterations, the first number at which a later report
may differ from an earlier one; two commands, so that one finds what another
left (a result, reports of older fixtures, a torn file, an active sibling); and
two branches, which are symmetric, so that fixtures and result may disagree.
`MaxCommands` is the only bound the code does not have, and the reason that
deadlock is not checked. activate_given has one command.
Fixtures are edited before a command only, since nobody looks at them after the
last. No liveness property
is stated: a command is a straight line but for its loop, which `PrepareCase`
has with its fairness.

### Proofs

`ActivateCaseProofs.tla` proves all seven properties for any branches, iterations
and commands; `FreshRunCorrect`, `PassActivatesCorrect` and `ActivationIsKept` assume
that `--results-dir` is never given, which is the very assumption activate_given
shows to be needed. The invariant `IInv` has

- `CommandInv`: which steps belong to which command, and that a backport's loop
  starts only with a triage result;
- `StatusInv`: the target of a write is quarantined before it and active after
  it, and the sibling is active whenever the backport is the target, which is
  what makes `SiblingFirst` inductive;
- `ActivatedInv`: what the command has activated so far is the sibling, or is
  about to be judged by the second validation.

`RInv` adds where the evidence is: `LoopReportInv` (from its run until the end of
the activation the last report stays fresh and about its case) and
`TriageReportInv` (the triage's report survives the backport's loop, since no
capture of the backport touches the triage's fixtures or its place).
`CompletedAgrees` is inductive with the types.

`ActivationIsKept` proves the refinement. It needs both invariants and `OwnReports`
(what lies in a directory is about its case, which `--results-dir` breaks):
a report that is written over is then of the same case, so a run of one case
never takes away the proof of the other (`RunFresh`), and the aging of reports
when fixtures are written takes away just the proof of that case (`AgedFresh`).
There is one lemma per kind of step (`StartStep`, `EditStep`, `RelyStep`,
`WriteStep`, `IterateStep`, `TrialStep`, `ConfirmStep`, `FailStep`, `AcceptedStep`,
`DieStep`), and the steps that only move the program counter are stutters.

## The evidence: five modules, one run

`SourceCache`, `JiraReplay`, `KojiReplay`, `Boundary` and `Scoring` model what a
run is shown, what it may reach and how it is judged. They share no variable.
`Evidence.tla` puts them side by side, and `MCEvidence.tla` instantiates it for one
run, **replay_evidence**: the variable `part` says which of them moves in a
behaviour, the others rest in an initial state, so that their numbers of states add
up (about 630,000) instead of multiplying. All properties of the next five
sections are in that run, unless a run is named. Each module also has a
specification of its own (`SourceSpec`, ...), which is what its theorems are about.
`EvidenceProofs.tla` proves that they carry over: every behaviour of `Evidence` is one
of each of the five specifications (`PartsAreKept`).

None of the five states fairness or a liveness property: users capture, commit
and run when they like, and nothing must happen. The run does not check
deadlock, since each part rests when its bound is used up. `EvidenceTypeOK` is
the conjunction of the five type invariants (`EvidenceTypeCorrect`).

## SourceCache: a repository, from its capture to a run

`SourceCache.tla` models a repository in a case's `source_cache`. The fixture has
two halves: the manifest, with the commit each ref had at the case's date, and a
submodule of the cases repository, with the objects. A run builds a bare
repository of its own from both, and a clone of it at `pre_fix_ref` as the
package's repository.

| State | Code |
| --- | --- |
| `upstream` | the refs of the upstream git server |
| `dated` | the case has a date (`as_of`) |
| `manifest` | `manifest.json` of the fixture: refs, and whether they are of a date |
| `local` | the submodule: checked out or not, its objects, where history is cut (shallow), its HEAD, the commit the cases repository records (gitlink) |
| `preFix` | `pre_fix_ref` of the mock data |
| `view` | what `materialize_case_source_cache` and `materialize_mock_repos` made for the run under way |

| Action | Code |
| --- | --- |
| `Push`, `Delete` | the upstream's developers, force pushes included |
| `CaptureSource` | `write_source_fixture_from_repository`, also again, also killed before its manifest |
| `DateCase` | the case is collected again and has its date now |
| `CommitCases`, `CloneCases` | the cases repository is committed, and cloned on another machine |
| `InferMock` | `prepare-case` writes mock data with a commit that `source_cache_contains_object` finds |
| `MaterializeSource` | initialize the submodule (first shallow, then, if the server refuses that, whole), fetch what is missing, check out the manifest's HEAD, build the view; or fail |

Commits are a tree (`Ancestors`) in which dates do not go back; what
`git rev-list --before` finds is then the newest past ancestor. What replay
answers of a view is the operators `Patch`, `FileAt`, `Log`. Abstracted: the
contents of commits, aliases of addresses, several repositories (each has a
fixture of its own).

| Property | Says |
| --- | --- |
| `NothingFromTheFuture` | no answer has a commit after the case's date, unless validation warns of the fixture's date |
| `AnswersFollowRefs` | commits of the recorded refs are answered, no others that are in the store, by patch and by file alike |
| `CloneIsPreFix` | where validation finds the mock commit, the package's clone starts there, unless shallow |
| `EvidenceDoesNotDrift` | a run reads the recorded refs, unless shallow |
| `ValidCaseStarts` | a fixture that validates can be opened, here and in a clone of the cases, and what it lacks can be asked for, as long as the upstream still leads to what was recorded; then nothing is missing from a whole submodule, and from a shallow one only commits behind its cut |

"Unless shallow" is what the code leaves open: a dated view is filled by fetches
from the submodule, and git drops, without an error, a ref whose history is cut.
`ValidCaseStarts` speaks of both ways to open a submodule that is not checked out.
The code tries `--depth 1` first, so in a clone of the cases the shallow one is
the rule, and then a run may still fail to start: a recorded commit may be behind
the cut, older than the commit the cases record for the submodule or than the
upstream's HEAD, and the fetch of its ref does not bring it. The property says
that nothing else can be missing. Seen while modelling: validation reads the gitlink from the index, then from
HEAD, then from the worktree; capturing again with `--overwrite` fetches the
mirror's HEAD only, so that a commit of another ref may be absent until the next
run fetches it.

*Bounds.* Three commits are a past root, its successor after the date (the fix)
and a past side branch; two refs, so that one can be right and the other moved
or gone. Two refs that lead to unrelated commits, a ref that is not dated, one
that is reset and one that vanishes all occur; a fourth commit repeats a
relation that is there. There is no bound on captures or runs.

*Proofs.* `SourceCacheProofs.tla`, for any tree of commits and any refs.
`SourceInv` (types, and that the submodule can be initialized: `Openable`)
gives the types; `ViewInv` adds `ViewIsBuilt` (a view is what would be built now:
any step that could change that ends the run), `ManifestIsOfTheDate` (dated
manifests name past commits) and `StoreIsWhole` (a store without a cut has all
ancestors of its commits). Four properties are consequences of these at a
single state; `ValidCaseStarts` follows from `SourceInv` and `StoreIsWhole` by
cases on how the submodule is opened: whole, shallow, or as it was.

## JiraReplay: an issue as of a date

`JiraReplay.tla` models one issue, the case's own or one linked to it: the
tracker, where it goes on living; the five files of it that three commands
write; and the issue and the answers to searches that a run is given. The date
is the moment before the first comment with a result.

| State | Code |
| --- | --- |
| `issue`, `now` | the tracker |
| `files` | `issue.json`, `comments.json`, `starting-issue.json`, the date in `reconstruction.json` (for a linked issue, of its own directory), the development status |
| `root` | for a linked issue, the date in the case's own fixtures |
| `found` | the recorded searches of the case (`jiras/<case>/api`) |
| `mock`, `missed` | what `materialize_ymir_jira_mock` gave the run; the searches it missed |
| `whole` | history: no command was killed while it wrote the files |

| Action | Code |
| --- | --- |
| `Report`, `Edit`, `AddComment`, `Develop` | the tracker's users |
| `CollectOwn`, `CollectLinked` | `collect-case`, killed after any file (`n` are written); with `--overwrite` the recorded searches and the linked issues are removed first |
| `CaptureIssue` | `_capture_jira_issue_fixture`, as of the case's date or one the user gives |
| `Materialize` | the run's mock of the tracker |
| `Search` | a run's search that nothing answers |
| `CaptureSearch` | the recording of a search, with the issue it found, with or without its details |

`Reconstruct` is `reconstruct_issue_as_of`: for each field of the changelog, the
old value of the oldest later change. `Synthesized` is
`_synthesize_jira_search_response`: predicates from left to right, and a predicate
on a field the harness has no values for stops it, if it gets there. Abstracted:
the text of queries and comments; fields without a changelog keep today's
values, in the code and here; values the code drops for naming a later time;
two changes at one time; a failed fetch of an issue's comments (recorded as no
comments).

| Property | Says |
| --- | --- |
| `NoLateComment` | a run sees no comment and no commit after the date it is given, and no result |
| `ValuesAreOfTheDate` | rewound fields have the values they had at the date, however much later the fixture was made; recorded searches too |
| `SearchIsOfTheDate` | a synthesized answer finds the issue exactly when it was there and matched at the date |
| `RecordedStays` | (action property) collecting or capturing again without `--overwrite` does not change what a run is given of an issue |

Their preconditions are what the code does not secure. `NoLateComment` needs
`whole`: a command killed after `issue.json` leaves an issue whose embedded
comments are not filtered, which counts as captured and is never completed.
`mock.made = mock.date`: the files of an issue may be made for different dates
when the user gives one, or when the case got its date only later (a linked
issue that was collected has values of the time of collection, which
`--overwrite` alone replaces). Also seen: the development status of the case's
own issue is written to a directory no run reads; when the details of a found
issue cannot be fetched, today's values are recorded; the result comment is
defined twice, differently.

*Bounds.* Three times: a change before the date, one at it and one after it;
two fields of which one is rewound; two searches, one that may stop or exclude
and one that may match. A capture of a search is killed after its first file or
not at all (`SearchStops`), captures are made for the case's date or the first
time (`CaptureDates`). There is no bound on commands.

*Proofs.* `ReplayProofs.tla`, for any fields, queries and time. The heart is
`Told(s, log, t)`: a snapshot rewound to any date up to t gives what the log
says of that date. It is kept by every change of the tracker since the log is a
`Chronicle` (in order of time, each entry's old value the new one of the entry
before it), and a fixture that was told the truth stays true as the tracker's
past does not change (`Follows`). `JiraInv` states this of the issue, each
file, the run's mock and each recorded search. `RecordedIssueStays` needs
`WholeInv` too: without a killed command the three essential files are there
together (`Together`), so no file that is missing is filled in later.

## KojiReplay: candidate builds as of a date

`KojiReplay.tla` models the builds a backport asks Koji for: two tags per
branch, whose contents at a past event can be asked for later, while a build's
own times cannot (a promotion replaces the time of completion).

| State | Code |
| --- | --- |
| `clock`, `stamp`, `born`, `tagged` | Koji; `born` is history |
| `caseDate` | `as_of` in the case's reconstruction |
| `records` | `koji_candidate_builds` of the web manifest |
| `asked` | branches a run missed |

| Action | Code |
| --- | --- |
| `Stamp`, `Retag`, `TimePasses` | Koji, tags that go back to an older build included |
| `CollectBuilds` | `collect-case`: the date, then a manifest with the builds fetched for it and no others; it may stop in between |
| `InferBuilds`, `CaptureBuilds` | `prepare-case` and `capture-missing`, for the case's date or one given |
| `LookUp` | a run |

`BuildIsOfTheDate` says that a record made for the case's date names the newest
build Koji listed then, whatever happened since; and that in a case that
validates no record names a build that was not yet there. It does not say that
every valid record is of the date: a record without a date, or for another one,
that names an older build passes validation. The other way round, a
build promoted after the date makes a correct record invalid. `collect-case`
with `--overwrite` drops the records it could not fetch again.

*Bounds.* Two builds of different versions, one branch with its two tags, two
times. Branches are independent of each other but for the choice of which are
fetched. *Proof.* `BuildsAreOfTheDate` (in `ReplayProofs`), from `KojiInv`: tags
list completed builds (`BuildsAreBorn`), and a record has what was true when it
was made of a time that has passed (`RecordsAreTrue`), which no later step
of Koji changes.

## Boundary: what a run may reach

`Boundary.tla` models `enforce_benchmark_boundaries` with the lookups it makes in
the replay cache: for each HTTP call and each command of a run, whether it is
answered, refused, missed or let through, and for sockets the context variable
that is set while a task calls the model's provider and is copied into the tasks
started meanwhile.

| State | Code |
| --- | --- |
| `mode`, `has`, `replays` | network mode; what the fixtures hold for each URL (facts); commands with a recorded result |
| `patched`, `state`, `passthrough` | the run is inside the context manager; its tasks, and each one's context variable |
| `traffic`, `named` | what the last step of a guarded run really reached, each URL with the way (`Way`) it was reached by; the URLs that were named as missed or refused |

| Action | Code |
| --- | --- |
| `Enter`, `Leave`, `Spawn`, `TaskEnds` | the run and its tasks; a task copies the context of the one that starts it |
| `ModelCall`, `ModelReturns` | a call of an allowed host, with the token set and reset |
| `Connect` | a socket of a task's own |
| `Http` | urllib, requests and aiohttp |
| `Run` | subprocess: `Refusal` is `_check_command`, `Answer` is `_subprocess_replay`, in their order |
| `CaptureUrl` | `capture-missing` between two runs |

A command is a sequence of segments (those of `a && b`), each with its program,
the URLs that are arguments, those inside options and the hidden ones. Hidden
is what the program will ask for though no token spells it as an http URL:
`git fetch origin`, ssh and scp addresses, `curl host/path`, a file of URLs, a
script, the string of a `bash -c`. `_external_urls` cannot see those, and the
real program is a child that the patched sockets do not bind. Abstracted: the
tokens, aliases of URLs (an alias is one URL here), bodies; and that leaving
restores the patched names, which the context manager does in `finally`.

| Property | Says |
| --- | --- |
| `OnlyModelTraffic` | what a guarded run reaches by its own sockets and HTTP clients is the model's provider, whatever tasks were started meanwhile; what a program it starts reaches by a URL the check sees is one that `Allowed` names |
| `CapturedIsAnswered` | whatever else the fixtures hold, once the URL of a call is captured as its client needs it, the call is answered: the prepare loop does not capture it for ever |

`Allowed` judges a URL by the way it was reached, so that a URL which is open one
way is not open in the others:

- direct: the model's provider only;
- as an argument: the address of a repository with mock data that no
  configuration rewrites, by git; and nothing else, in no program and no position
  of a compound command;
- in an option (`--url=...`) of a download that comes first: a recorded URL, or any
  one if there is mock data (the check of options is skipped for a command whose
  arguments are all git's on such repositories);
- in an option elsewhere, or hidden: anything. The check does not look there, and
  so the property says nothing of it. This is a limit of what is checked, not a
  result.

`OnlyModelTrafficAtAll` (boundary_mock) leaves the exceptions out, as the
README of the repository does, and fails already without options and hidden
URLs: git is let through to the address of a repository with mock data, on the
assumption that the run's git configuration rewrites it, also if no repository
could be prepared.
Also seen: a command with two downloads is missed even if both are recorded; a
recorded git failure comes before a repository with mock data; git with several
URLs needs failures for all or mock data for all; commands that are refused as
writes are recognized in the first segment only; a recorded file that is lost
is an error that no capture repairs.

*Bounds.* Two URLs (a command may name one that is held and one that is not),
five sets of facts that the capture commands produce, commands of one segment of
each program and each way to name a URL (git with a remote by its name, a script,
and a download of a second URL without a scheme among them), commands of two
segments with each kind of download and git first and second, two tasks of the
agent and one of the client.

*Proofs.* `BoundaryProofs.tla`, for any URLs, commands and tasks:
`BoundaryInv` adds `ContextsAreHeld` (a socket is open only to a task in a call of
the provider or to the client's own tasks, none of which outlives the run), and
`CapturedIsAnswered` is a lemma about the lookups for any facts.
`OnlyTheModelWithoutExceptions` proves the documentation's stronger statement,
`OnlyModelTrafficAtAll`, where fixtures never hold mock data without a rewrite and no
command has a URL inside an option or a hidden one: what breaks it is one of
these three.

## Scoring: from what an agent did to a regression

`Scoring.tla` follows a result: an attempt's clone, the artifacts that are made
of it, the actual result, the verdict, the report, the comparison of two
reports. Attempts share an artifact directory that no one empties and the file of
the actual result; a maintainer may edit the expected result in between.

| State | Code |
| --- | --- |
| `workflow`, `expected`, `triaged` | the case, and the recorded triage result a backport takes its inputs from |
| `clone` | the package's repository as the agent leaves it: last commit, commits, uncommitted changes, files git does not know |
| `artifacts`, `capturedKinds` | the artifact directory and its manifest |
| `actual`, `reports` | the actual-results file (with history: what the agent said and changed); the two reports |

| Action | Code |
| --- | --- |
| `Begin`, `Abandon` | an attempt, if it has its inputs (`Startable`), and its end without a result |
| `WriteFile`, `AddFiles`, `CommitWork`, `AmendWork` | the agent in its clone |
| `FinishTriage`, `FinishRebase`, `FinishBackport` | the ends of the workflows; `FinishBackport` writes the artifacts in the order of `capture_backport_artifacts`, then their manifest, then, after the judge, the actual result, and may be killed after any |
| `EditExpected` | the maintainer |
| `ScoreResults`, `ReportRun` | `score-results` and the report of a run |

Not every field of an actual result is the agent's. A backport and a rebase write
their own name as the resolution (`States`, `Resolves`); package, branch and URLs
come from the workflow's state and, where that has none, from the inputs
(`Filled`): for a backport a recorded triage result if there is one, which must
have resolved to a backport, and otherwise, as for a rebase always, the expected
result that will judge them (`Inputs`). `Reported` puts the three together.

`Agrees` is `_compare`, `Passes` is the scoring of an actual result with its
gates, required artifacts and scope, against the expected result or an alternate,
which may replace any of these (`Acceptable`), `CompareCase` the
classification of a pair. Abstracted: the texts of values (equal, covered by
other URLs, or different), the judge's verdict, costs and times.

| Property | Says |
| --- | --- |
| `PassIsEarned` | a pass agrees with one acceptable outcome in every field on what the workflow came back with, but for two: the resolution a backport or a rebase states, which must be the one that is wanted, and a field it left empty, which inputs fill in, for a backport only from a triage that resolved to a backport and is right in that field. No input ever replaces a wrong answer |
| `GatesJudgeTheAgent` | after one commit, amended or not, only the agent's changes are held against it, and a pass leaves no other file changed |
| `RequiredKindsExist` | a required artifact of a passed backport is there, but for a source package, which it is enough to name |
| `RegressionShows` | what passed in the baseline and does not in the candidate fails the comparison, also when it was excluded or quarantined in between; wins and regressions mirror each other |

What they leave out, the code leaves out: only HEAD~1..HEAD and the worktree are
looked at, so the changes of an agent with two commits are partly unseen, and
without a commit of its own it is blamed for the upstream's. A report of a run
has no "headline", so two of them compare as "non_headline" throughout;
`score-results` reports do. A flaky case counts as not passed. The checksum of
the fixtures in a report is never compared. Replay misses alone do not fail
a score. The exact metric `resolution` of a backport or a rebase says nothing of
the agent, and nor does a field filled from the expected result: `Earned` names
both, and is as strong as the code lets it be.

*Bounds.* Three paths (the spec, a patch, an unrelated file), four metrics (the
resolution and the package, exact; URLs; the build), four answers of a triage and
of the others each, four expected results that reach every gate, one of them with
alternates that replace fields, kinds and scope; two recorded triage results, one
of which resolved to something else; two attempts, so that one finds the other's files; four changes to
clones, which allow a file to be written, added, committed and amended
(`WorkLimit`, `AttemptLimit`). *Proofs.* `ScoringProofs.tla`, for any paths,
metrics, answers and limits: `ScoringInv` has where a field of an actual result
comes from (`FieldsAreSaid`), that a result made with a triage is of one that
resolved to a backport (`TriageIsBackport`), that its unrelated files are the commit's
(`UnrelatedIsOfTheCommit`) and that what the manifest or the result names stays
in the directory (`KindsAreThere`). `RegressionShows` is a fact about `CompareCase`
for any two reports of the type.

## What is proved and what is only checked

Every invariant and action property of a passing run is proved for all values of
the constants, under the named assumptions of its module, and so are the three
refinements: `ContractKept` (PrepareContract), `ReportKept` (RunContract) and
`ActivationKept` (ActivateContract). Three results assume more, that `--results-dir` is
not given: `FreshRunCorrect`, `PassActivatesCorrect`, `ActivationIsKept`.

The runs that show a statement of the documentation to fail have a theorem
beside them, which says how far the failure goes:

| Run | Theorem | Without this the statement holds |
| --- | --- | --- |
| activate_given | `PassActivatesCorrect` | `--results-dir` |
| run_deadline | `DeadlineWithoutHangs` | a `podman rm` that does not answer |
| boundary_mock | `OnlyTheModelWithoutExceptions` | mock data without a repository, URLs inside options, and hosts a program reaches by no http URL in its command |
| prepare_stop_404, prepare_stale_results | `StopsAreExplained` | nothing is assumed: a stop is for a URL this run was not answered (or was answered with an error, or mentioned), or for one an earlier invocation left in a file no run empties |
| prepare_koji | `SuccessIsReplayable` | Koji builds, which it leaves out |
| prepare_overwrite | `OnlyClonesHideContent` | a repository fetched again with `--overwrite` |

Only model-checked are the two liveness properties, `InvocationEnds` and
`AttemptEnds`: liveness under fairness is out of the prover's reach. Of the first,
`InvocationsAreFinite` proves that no invocation goes round for ever. The second
has no such theorem: the phases of an attempt are a straight line, and all that is
hard about it is whether a wait is left, which is a matter of fairness. The
assumptions of the modules are evaluated by TLC in each run. The proofs say
nothing beyond the abstractions named above.

## Not modelled

- `ymir_gateway.py` and most of `ymir_workflows.py`: patches of an MCP gateway and
  an agent library that are not in the repository. What they answer from the
  fixtures is modelled where the fixtures are.
- `llm_judge.py`: a model's verdict, with a fallback; no state is kept.
- Reports, metadata, paths, the loop over cases and repetitions: they keep
  nothing from one step to the next.
- The parsing of text: miss lines of logs, queries, shell commands, URLs and
  their aliases, comments and GitLab pages from which a case is collected. The
  models take what the parsers return; a pure function of a string is better
  tested than modelled.
- The shape checks of validation, which are pure.
- Lookaside archives beyond their being recorded, and recorded git discovery.
- What a program that a run starts does by itself: `Boundary` has the hosts it may
  reach as a set per command (`hidden`) and claims nothing of them.
- The restoring of patched names at the end of the boundaries, a list undone in
  reverse order in one process.
