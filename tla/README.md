# coding-agent-rl-lab in TLA+

This directory specifies the parts of coding-agent-rl-lab whose correctness depends on the
order in which things happen, or on small computations that are easy to get wrong: the worker
that owns the containers and the client the GRPO trainer calls, the life of a Docker sandbox and of
a fixture directory, the bookkeeping of one episode and what its tools tell the policy, the loop
that collects a trial, the files of the programs that run trials for hours, the row cache they all
start from, and the datasets between a gold patch and an adapter. Source paths below are relative
to `src/src/coding_agent_rl_lab/`.

## 1. The system

A policy (a model endpoint, a scripted policy, or the GRPO trainer's rollouts) acts on a
*coding environment*: a repository in which it may list, search, read, edit, run the tests and
finish. The environment is a local fixture directory or a Docker container, and a verifier turns
the final repository into a reward. Rollouts either drive an environment in process
(`rollout.py`) or, for training, through HTTP: `grpo_remote.py` holds both the client the trainer
uses and the worker that owns the containers.

```
 trainer (grpo_train) ── RemoteGRPOCodingEnvironment ──HTTP── GRPOWorker ── DockerSandboxEnvironment ── docker
 RolloutCollector ─────────────────────────────────────────────────────────┘        │
   │                                                                         ActionLoopGuard, verifier
   └─ reports, checkpoints, trajectories (swe_gym_rollout, diagnostic_probe, *_evaluate)
```

| Component | State | Operations | What makes it correct | Here |
|---|---|---|---|---|
| GRPO worker (`grpo_remote.py:93-340`) | session dictionary, session objects, one environment each | create, action, finalize, delete, close; one thread per request, lock on the dictionary only | no container without an owner; a completed session carries its reward; shutdown leaves nothing running | `GRPOWorker` |
| Remote tool environment (`grpo_remote.py:343-`) | session id, completed, reward, audit file | reset, the tools (`_act`), get_reward | one reward per episode, the same in the audit file; containers go with their episode | `RemoteEpisode`, `Episode` |
| Docker sandbox lifecycle (`docker_environment.py`) | container name, started flag, the fields of an episode | reset (five docker commands), close | no acknowledged container is lost; nothing half prepared; nothing carried over | `DockerSandbox` |
| Coding environments and loop guard (`docker_environment.py`, `environment.py`) | step count, working tree, cached verdict, read spans, changed files, guard records | step, finalize | the verdict an episode ends on is current; edits touch lines that were shown; refusals are right; the episode ends | `ToolEnvironment` |
| What the tools say (`environment.py:82-995`, the scripts in `docker_environment.py`) | none (functions of a file, a repository, a verifier's output) | read, replace, search, failure summary, recovery directive | an edit changes what it says; refusals quote what is there; the best match and the failing test survive truncation | `FileEdits`, `SearchText`, `VerifierReport`, `Observations`, `LoopGuidance` |
| Local fixture and local GRPO environment (`environment.py`, `verifier.py`, `grpo_environment.py`) | temporary directory, hashes, completed, reward | reset, tools, get_reward, close | directories are owned; a reward is earned; implements `Episode` | `LocalEpisode` |
| Reward shaping (`reward_shaping.py`) | none (pure) | legacy-v1, conservative-v2, breakdown | regressions earn nothing; versions agree on success | `RewardShaping`, run through `LocalEpisode` |
| Rollout collector (`rollout.py`) | steps, terminal verdict, edited flags | collect | a policy failure is not stepped; a success is real; a trial ends | `Collector` |
| Model policy (`model_policy.py`) | message history, attempts, seeds | next_action | requests never share a seed; failures end in a decision | `PolicyTrial` |
| Incremental rollouts (`swe_gym_rollout.py`) | trajectory file, report | run, resume | nothing done is lost; run_complete is true; a resumed run ends complete | `ResumableRun` |
| Diagnostic probe (`diagnostic_probe.py`) | trajectories, trial rows, report; an alarm | run, resume | a failure is recorded once; an alarm anywhere leaves no container | `ResumableRun` (files), `PolicyTrial` (alarm) |
| Frozen-adapter evaluations (`grpo_evaluate.py`, `fixed_state_evaluate.py`, `edit_action_evaluate.py`) | audit file, report | run, resume | a listed trial has exactly its audit lines | `ResumableRun` |
| Paired evaluation (`paired_edit_evaluate.py`) | controls, entries, report, merged weights | controls, gate, generate, merge, compare | what is compared is what was hashed; a success is the edit's own | `PairedEdits` |
| SWE-Gym rows and images (`swe_gym_smoke.py`, `swe_gym_prepare.py`) | row cache, parquet shard and `.partial` file, images | load, download, prepare | usable after a crash or a second process; no row is dropped | `RowCache` |
| SFT data and training (`swe_gym_sft.py`, `sft_*.py`) | datasets, reports, adapter | seven builders, load, train | what is built is accepted; reads show what the tool would; a report is about its adapter | `SFTExamples`, `SFTPipeline` |
| GRPO training, RL export, failure analysis, scripts | none of their own | offline | configuration, filters, sums | not modelled |

The hard behaviours are these. Handlers of one session interleave at every statement, because
the worker's lock covers only its dictionary. The client waits 900 s for an answer while a
verifier run may take 1800 s, so an abandoned handler goes on beside the next request. A docker
command killed at its timeout says nothing of what the daemon did. A cached verdict, span list and
file list must follow every edit, also one that reports an error. Checkpoints are several files,
and so are a dataset with its report; programs that share a cache, a shard or an output directory
do not lock it. An alarm raises between any two statements. And the texts a policy acts on are
cut, ranked and collapsed by arithmetic on offsets, twice: once for the fixture, once in a script
for the container. `PROJECT.json` lists each hazard at its line with the properties aimed at it; one
without a property, or whose stronger form does not hold, says so.

## 2. The modules

Four groups:

- *Serving episodes.* `GRPOWorker` is the worker; `RemoteEpisode` extends it with the client and the
  network. `DockerSandbox` and `ToolEnvironment` refine what `GRPOWorker` keeps of an environment to
  a few fields: the first the time around an episode (reset, close), the second the time inside one
  (step). `LocalEpisode` is the fixture behind the local GRPO environment; it extends
  `RewardShaping`. Both `RemoteEpisode` and `LocalEpisode` implement `Episode`, the abstract contract of a
  trainer's environment.
- *What a policy is told.* `Observations` composes `FileEdits`, `SearchText` and `VerifierReport`, the
  functions behind the tools; `LoopGuidance` extends it with the guard's history.
- *Running trials.* `Collector` extends `ToolEnvironment` with its caller; `PolicyTrial` is the same
  loop seen from the model policy and the alarm; `ResumableRun` is what happens to the trials
  afterwards, a trial being one step of it; `RowCache` is what every program does before the first.
- *Training and comparing.* `SFTExamples` holds the builders as operators, `SFTPipeline` the programs
  over the files, `PairedEdits` the evaluation that reads the adapter.

`MC*` modules give them instances for TLC, `*Proofs` modules hold the theorems: each extends the
modules it is about. `RemoteEpisodeProofs` also covers `GRPOWorker`; `RolloutProofs` covers
`ToolEnvironment` with `Collector`, `ResumableRun` and `DockerSandbox`; `PairedEditsProofs` covers
`SFTExamples` and `SFTPipeline`; `ObservationsProofs` the group of modules that end in `LoopGuidance`.
`Arrangements` holds what the last two groups share: the elements of a sequence at a set of
positions, those that pass a test, those in an order. It says with sets what `SelectSeq` and `SortSeq`
say by recursion, so that `ArrangementProofs` can prove what each of them returns for any sequence.

### GRPOWorker

One process per handler thread and `Main`, the thread that leaves `serve_forever` and runs
`server_close`. `sessions` is the dictionary; `session` the `_WorkerSession` objects, which live
on in the hands of handlers after they are popped; `env` and `box` the environment and container
of each. `pc` and `call` are a thread's position and its local variables. A step is what a handler
does between two points at which another handler can see or disturb it: a lookup under the lock,
a read of a session field, the start and the end of a docker command.

| Code | Actions |
|---|---|
| `create` | `AcceptCreate`, `ResetDone`, `Register` |
| `action` | `AcceptCall`, `Admit`, `Step`, `Execute`, `Record` |
| `finalize` | `AcceptCall`, `Decide`, `Execute` |
| `_complete` | `Grab`, `Grade`, `Publish`, `Mark` and close |
| `environment.close` | `CloseBegin`, `Take`, `Test`, `Remove`, `Clear` |
| `delete` | `AcceptDelete`, `Drop`, `Dereference` and close |
| `close` (server_close) | `Shutdown`, `NextDelete`, `Exit` |

Three exceptions the code lets happen are modelled: the `AttributeError` in `delete` when a
completing handler detaches the environment between its two reads of the attribute (it drops the
connection, or in `Main` ends the shutdown early), the exception of `patch_is_valid` on an
environment another handler is closing (grading never publishes, the session stays without a
reward), and the failed verifier check inside a step on a closed environment (a violation).
`close` takes the container name and asks `_container_started` in separate statements, and every
close clears the flag: a second one that does so in between leaves the first without a reason to
send `docker rm`. `started` is the flag, and `raced` a history that says a close did that.
Data is abstracted to three repository contents, three test results and the five rewards that
legacy-v1 tells apart; observations and reward components are left out.

### RemoteEpisode and Episode

`client` holds the attributes of `RemoteGRPOCodingEnvironment` and the call in progress: its method,
the request it has sent and the handler that serves it. `Reset`, `Act`, `GetReward` are the
trainer's calls; `Answered` and `Failed` what a call does with a reply or with
`GRPOEnvironmentError`, the delete and the create that follow included; `Audited` is
`_audit_reward`. `Arrive`, `Reply`, `Lose`, `Unheard` are the network: a request lost on its way,
or one whose handler the client stops waiting for. The worker's own steps are those of
`GRPOWorker`. `Episode` has two variables, the phase and the reward; the refinement maps the
phase from `session_id` and `completed`, and the reward from the client's attribute.

### DockerSandbox

One environment object and its daemon. Each docker command of `reset` is an action (`StartBox`,
`CheckCommit`, `ApplyTests`, `Baseline`) with its failure in it: `CloseAndRaise` is
`except Exception: self.close(); raise`, `StartFails` is `_fail_and_close` before `_container_started`
is set. A container name is drawn by every reset, so `holds`, which maps a field to the container
it was filled for, says of which episode a field is. Faults of the daemon are constants:
`docker run` outliving its timeout, `docker rm` failing, a container dying under its memory limit.

### ToolEnvironment

One episode between reset and close, for both sandboxes (`sandbox` is chosen in `Init`, since
they share the guard and differ in the verifier-owned files and in what a test timeout does).
`Step(a)` is `step` on action `a`: its disjuncts are the exits of the handler in the code's order
(`BudgetExhausted`, `Reject`, then the tool). The guard scans a history of records; the model keeps
the five answers it reads from it (`guard`). A path is a file and a spelling, because the
environment canonicalises paths and the guard compares them as written. `seen` and `dirty` are
history variables: the lines of the present content a read has shown, the reads whose file was
written since. Which lines a read shows, and whether an edit matches, is left open: every
outcome the code can produce is allowed. `ToolFails` is an error that leaves the files alone, and
`EditFails` one of the writing itself, which may have changed the file: a `docker exec` that timed out
after the write, a script that failed on the disk, or the fixture's `write_text`, which empties the
file before it may raise. `FailedWrite` says whether it may. The worker's completed episode is `ending`.

### Collector

`trial` holds the local variables of `RolloutCollector.collect` and its position. `TakeStep` is one
turn of the loop with `environment.step` inside it, so the steps of `ToolEnvironment` are taken
only as collect takes them; `PolicyFails` is the fallback decision of a dead endpoint, recorded and
never stepped; `Grade` takes the terminal verdict or calls `finalize`, decides `task_success` and
closes; `Raise` is any exception leaving through `finally`. `verified` is a history variable: a
step ran the verifier when a file was listed as changed.

### ResumableRun

Five programs share one shape: a plan of trials in a fixed order, a loop that skips what is done,
and a few files replaced whole (`os.replace`) after each trial. `program` chooses one in `Init`;
`disk` is what survives a crash, `run` what the process holds in memory and where it is. A step
ends at each file written, so that `Crash` may fall between any two. Each way of starting is an
action (`StartRollout`, `StartProbe`, `StartFixedState`, `StartEvaluate`, `StartEditAction`) with the
refusals of the program in its guard; `resume` is the `--resume` flag.

| Program | Files, in the order they are written | Resumes from |
|---|---|---|
| `swe_gym_rollout` | trajectories, report | trajectories |
| `diagnostic_probe` | trajectories, trial rows, report | trial rows (and appends to the trajectories) |
| `fixed_state_evaluate` | audit line per episode (by the client), report | report |
| `grpo_evaluate` | the same; moves the audit file of an interrupted task away | report |
| `edit_action_evaluate` | the same | cannot be resumed |

A trial is a number and its file contents a count of lines. The faults are constants: a crash, a
trial that fails (`timeout`), an endpoint that dies, an episode that leaves no audit line
(`silent`). `disk.stale` is a history: a rollout started without `--resume` over an older run has
emptied the trajectories and not yet replaced the old report. A process of `fixed_state_evaluate`
that is killed before its first report leaves a directory that neither mode accepts; the model has
that state, and stops there.

### LocalEpisode and RewardShaping

One `GRPOCodingEnvironment` with the `LocalFixtureEnvironment` behind it. Every action is a call of the trainer
(`Reset`, `Act`, `GetReward`), split by which of its own calls raises: the previous close, the source that is
missing, the copy, the verifier, the file hashes, the writing of a file, `rmtree`. The fixture's `reset` sets
the task before it takes the hashes, runs the verifier and refuses a baseline that passes, so each of
`ResetFailsToHash`, `ResetFailsToVerify` and `ResetRefuses`, when its close raises, leaves an object whose tools
work. `Complete` is `_complete`, with the order of its statements, so that `CompleteRaises` leaves what the code
leaves. `tree` is the repository (which tests fail, whether it loads, whether it differs from the source),
`audit` a history of the last graded episode. `raised` and `torn` are histories too: an ending or the reset
raised half way, an edit failed after it wrote and the verifier has not run since. `RewardShaping` turns a
failing set into what the patterns read off the verifier's output (`Runner` chooses pytest's or unittest's last
lines, `Visible` how many of them the kept tail holds) and that into a reward, in ten-thousandths.

### FileEdits, SearchText, VerifierReport, Observations, LoopGuidance

`FileEdits` has a file as a sequence of characters, because its hazards are offsets: `SplitLines` is
`str.splitlines`, `Count` is `str.count` (matches that do not overlap), `Positions` is `_occurrences`, `Quote`
maps a match in collapsed text back to the file, and `Shown` is what is printed of it: a long one is cut and
ends in dots. Six kinds of characters are told apart: two letters, a blank, a newline, the other line ends of
`str.splitlines`, and the carriage return, which only replacements hold, as `ReadBack` (`write_text` followed by
`read_text`) turns it into a newline. What parses, and which statements there are, are parameters. `SplitLines`
cuts behind the positions where a line ends (`LineEnds`), `Counted` is the set of matches that `str.count`
counts, and `Kept` the characters that `_collapse_whitespace` leaves. `SearchText` has a line as the set of
tokens in it and lengths as numbers; the search of the fixture and the script in the container are two
operators, since the code has them twice, with different fallbacks. `VerifierReport` has a line as its kind.
`Observations` makes each tool a step that changes the file, or not, and says something; `LoopGuidance` adds
`_records` and the refusals, for a policy that explores and repeats itself. Which patterns of the directive a
path fits (`_EVIDENCE_PATH`, `_EVIDENCE_MATCH` with its kinds of files) is the field `shows` of the file, and
what difflib suggests for a search that finds nothing is left open (`Suggested`).

What these modules assume of their constants is what the code has. The limits are numbers, those of
a list that must name something not zero (`SearchAssumption`, `ReportAssumption`,
`GuidanceAssumption`). Texts, listings and outputs are sequences; a query has pieces. `Fits` says
that a match and the two lines around a retry fit into an answer: a path has at most 4096
characters (PATH_MAX), a line is shown to its 300th, a query longer than 200 is refused, and an answer has 8000.
`EditsAssumption` leaves the ranges with `1 <= first <= last`: `replace_line_range_bounds` and
`read_line_range` raise for any other, and gives files no carriage return, as `read_text` does not.

### PolicyTrial

Trials of a served model one after another. A step ends at each request, command or statement an
alarm can fall behind: `Create` and `Mark` are the two sides of `docker run` and
`_container_started = True`, `CloseBegin` and `Remove` those of close. `Decides`, `Malformed`,
`Empty`, `Down` and `Cut` are what comes of a request; the last raises `http.client.HTTPException`,
which leaves `collect`. `Alarm` may fire at any position of a trial. `Left` is the character budget of
the history, counted in units of an observation.

### RowCache

`proc` holds the locals of `load_or_download_pinned_rows`, `_read_shard_row` and `_download_shard` of
each process. A file and its name are kept apart (`chunks`, `partial`, `shard`), because a
process goes on writing to a file another one renamed. The cache file has rows and may be torn.
`disturbed` and `crossed` are histories: a writer was killed or met another; two downloads met.

### SFTExamples, SFTPipeline, PairedEdits

An example is a history of calls with observations and the call to learn; the seven builders are
operators from examples to examples, and `RowsAccepted` and `ReportAccepted` what `sft_train` checks.
`Parsed` is what `_parse_action` checks of the calls of the gold builder (`TooLong` are the queries of more than
200 characters); the other builders' rows are not parsed. `Prompted` is the history as
`build_action_messages` puts it into a prompt: `MaxChars` stands for the 8000 characters a read
shows, and those the prompt keeps of all observations, the last ones first. The report of each
builder is its own: `sft_grpo` copies the gold report's but for the protocol and the count,
`sft_navigation` and `sft_recovery` list tasks without an example too. The trainer's report has the
hashes of both files of the dataset as they are once the examples are tokenized (`Prepare`).
`SFTPipeline` gives each dataset its two files, one builder and any number of trainers with one
output directory; each file read or written is a step, and `Kill` falls between any two.
`PairedEdits` adds `paired_edit_evaluate`: a control or a generated edit is judged in two sessions of
the worker, `Losable` says which requests of them may fail, or whether the edit does in its
container, before or after it wrote, and `Executed` what the code makes of it.
Weights are what a hash can tell apart: whether the file is whole, and the rows learnt. What a
builder filters and sorts is written as the set of positions it keeps and the sequence in order of
them (`At`, `Arranged` of `Arrangements`), which is what the proofs reason about. An initial state that already has
the gold and GRPO data has rows they could be built from (`~GoldRefused`). `InputAssumption` says
what the inputs are: the JSON lists are lists, and a session has a first step; `ScaleAssumption` and
`RepositoryAssumption` that the limits are numbers and the files lists of lines.
`RecordedAssumption` says where they come from: sessions and trajectories are recorded of the live
tools, whose reads show the file as the edits before them left it.

## 3. What TLC checks

| Run | Instance | Shows |
|---|---|---|
| `worker` | 2 handlers and Main, 1 session, all kinds | `NoStrandedContainer`, `CompletedIsGraded`, `ShutdownReleases` in every interleaving of two handlers and the shutdown |
| `tools` | 2 files, 4 steps, 2 windows | the verdict, span, list, guard and budget properties on every sequence of tools |
| `collector` | 2 files, 3 steps, edits that fail after they wrote, fairness | `SuccessIsReal`, `TrialEnds` |
| `sandbox` | 3 containers, every fault, fairness | `AckedIsOwned`, `NothingCarriesOver`, `Released` |
| `remote` | 2 handlers, 2 sessions, 1 lost request | `AuditMatchesReward`, and `ImplementsEpisode` |
| `remote_releases` | 2 handlers, 1 session, 3 lost requests, fairness | `EpisodeReleases` |
| `resume` | 5 programs, 4 trials, 2 episodes each, 4 faults, fairness | `ReportIsBacked`, `CompleteIsWhole`, `NothingLost`, `ResumedRunsComplete` |
| `rows` | 2 processes, 2 rows, 2 mirrors, 3 files, every fault, 2 starts | `FilesAreUsable`, `NothingForgotten` |
| `local` | 3 tests, 3 fixtures, 2 directories, 3 steps, every fault, any number of episodes | `DirectoriesAreOwned`, `RewardIsEarned`, `NewFailuresEarnNothing`, and `ImplementsEpisode` |
| `trials` | 2 trials of 3 steps, 2 attempts, every fault, fairness | `SeedsAreFresh`, `ContainersAreRemoved`, `TrialsEnd` |
| `pipeline` | 2 tasks of 3 hunks and of 1, 3 traces, 7 datasets, 2 builds, 2 trainers, 1 kill, 2 edit contexts, 1 lost request | `BuildsAreAccepted`, `ReadsMatchTheRepository`, `AdapterIsReported`, `ComparedWeightsAreNamed`, `SuccessesAreEarned` |
| `observations` | files of at most 4 characters, repositories of 3 files, outputs of at most 4 lines, 4 records | `MismatchAdviceIsRight`, `OnlyTheRangeChanges`, `BestMatchIsShown`, `ImplementationIsNamed`, `FailedRunIsNamed`, `StalledPolicyIsSentOn` |

Each property has a mutant in `PROJECT.json`, a plausible bug in the code it is about, under which TLC
finds it violated in the same run.

**What does not hold.** These are stated in the modules beside the properties that do hold and
listed under `findings`; none of them is among the runs above. The last column says how TLC
shows the violation.

| Property | Disagreement | Shown by |
|---|---|---|
| `RefusedReadIsUnchanged` | after `pkg/a.py` is read and `./pkg/a.py` edited, rereading `pkg/a.py` is refused as unchanged | `MCToolEnvironment.cfg` with `Spellings = {"plain", "dotted"}`, `Windows = {"all"}`, `MaxSteps = 3` |
| `EndsOnCurrentVerdict` | an edit that failed after it wrote leaves `finish` on the verdict before it | the same with one spelling and `FailedWrite = TRUE` |
| `NoInterleavingStrands` | a close that clears `_container_started` under another one leaves the container running, unnamed | add it to `MCGRPOWorker.cfg` |
| `ShutdownComesToAll` | a `delete` that raises in `server_close` leaves the sessions behind it | `MCGRPOWorker.cfg` with `Sessions = {s1, s2}`, `Asked = {"edit", "finish"}`, as a PROPERTY |
| `ForcedCleanup` | a container that comes up after `docker run` was killed is never removed | `MCDockerSandbox.cfg` with `Boxes = {b1}`, `DaemonFaults <- LateStart`, as a PROPERTY |
| `RewardStands` | two requests past `_active_environment` grade twice, the later one a closed environment | `MCRemoteEpisodeReleases.cfg` with `Faults = {"finalize"}` |
| `ProbeTrialsAreReported` | from the first failed trial on the diagnostic's summary raises and no report is written | `MCResumableRun.cfg` with `Programs = {"probe"}`, `Planned = 3`, `Faults = {"timeout"}`, `MaxFaults = 1` |
| `NoHardFailure` | a reply cut short escapes both the retries and the fallback to the shard | `MCRowCache.cfg` with `Procs = {p1}`, `Files = {f1, f2}`, `Faults = {"api_cut"}`, `MaxStarts = 1` |
| `NewFailuresEarnNothing` | unittest's last line reads as a failed node, the same one for any test | `MCLocalEpisode.cfg` with `Runner = "unittest"`, `FailToPass = {}`, `PassToPass = {}`, `Faults = {}` |
| `EveryRewardIsEarned` | an episode whose reset raised on a passing baseline, or whose ending raised, goes on and is paid for a result that is not of its files | add it to `MCLocalEpisode.cfg` |
| `MatchIsUnique` | `str.count` does not see overlapping matches | add it to `MCObservations.cfg` |
| `ContinuationIsAccepted` | the footer of a window proposes a range `read_file` refuses | as above |
| `ReplacedSpanIsOccupied` | an old text that ends in a newline is given one line too many | as above |
| `FixtureRetryShows` | the last trim of a fallback search drops hints or the match | as above |
| `ReadFilesWereReturned` | the directive calls a file read whose read failed | as above |
| `StringsAreOfOneFrame` | the strings of the failing frame are those of every frame | as above |
| `QuoteMatches` | the value to use exactly is cut, and ends in dots | as above |
| `EveryRangeChangesAlone` | a replacement that ends in a carriage return swallows the empty line below | as above |
| `EveryStalledPolicyIsSentOn` | a best match in a file of another kind is never named | as above |
| `CumulativeReadsAreCurrent` | a cumulative row reads an edited file as it was | add it to `MCSFTPipeline.cfg` |
| `HashIsOfTheExamples` | the dataset is hashed after it was read | as above |
| `CitedReportIsTheOneRead` | so is its report | as above |
| `EveryBuildIsAccepted` | the trainer refuses a search literal of more than 200 characters, and a GRPO dataset with the tasks of another gold report | as above |
| `ReadsAreWhole` | the prompt of a gold example cuts the beginning of a long read | as above |
| `EverySuccessIsEarned` | an edit that failed in the second session's container is credited with the suffix | as above |
| `FailuresAreTheModels` | a request that failed counts against the model | as above |
| `CheckpointsAreCurrent` | the condition being run is not in the report its checkpoints write | as above |

One thing is not a violation and worth knowing: a step beyond the budget ends an episode on the
last test result as it stands, after an edit too. The collector never takes that step; a GRPO
trainer may.

Several properties are worded for what the code can hold, each exception by name, and where the
property without it is what the code promises, that one is in the table.

- `NoStrandedContainer`: once the process has exited (`server.phase = "exited"`), a container whose
  handler died with it is nobody's. It, `ShutdownReleases` and `EpisodeReleases` except a session two
  closes of which raced over the flag (`raced`), and `ShutdownReleases` speaks of the sessions
  `server_close` came to (`server.ids \ server.left`), since a `delete` that raises ends the loop.
- `FilesAreUsable` excepts a writer that was killed or met another (the file is rewritten in place,
  without a lock), and `ContainersAreRemoved` an alarm inside `docker run` or inside close.
- `RewardIsEarned` excepts an episode that went on after an ending or its reset raised (`raised`); it and
  `NewFailuresEarnNothing` except a finish that reuses the failure from before an edit that
  failed and yet wrote (`torn`).
- `BuildsAreAccepted` excepts a policy dataset that teaches a search for a literal that is too long, and
  a GRPO dataset built of rows and a report that are not of one gold build. `ReadsMatchTheRepository` lets a gold
  example lack the beginning of a read when the live read fills `MaxChars`, and no other line.
  `AdapterIsReported` says what the training report states itself, not what it cites.
- `SuccessesAreEarned` excepts an edit that failed in the container of the second session alone
  (`alone`).
- `MismatchAdviceIsRight` is about values that are printed whole; `OnlyTheRangeChanges` excepts a range
  that ends at a form feed and a replacement that ends in a carriage return above an empty line;
  `StalledPolicyIsSentOn` the paths that the patterns pass over.

The modules state a few more invariants that hold and are left out of the runs, because one of the
properties above fails first whenever they do, or because they say little: the type invariants that
theorems prove, `VerdictIsFresh`, `StepsAgree`, `AfterPatchIsRun`, `FinalIsCurrent`, `OutcomePerKind`,
`ActiveIsPrepared`, `NeverRetried`, `PoppedIsReleased`, `FailureHasCause`, `RewardsAgree`,
`RegressionFreeIsReal`, `CorrectionQuotesItsReply`, `HistoryFits`, `TimeoutsAreRecorded`,
`FrozenFilesStay`. Adding one to the configuration of its module checks it; `PoppedIsReleased`, which
needs fairness, goes into `MCRemoteEpisodeReleases.cfg`.

**Bounds.** Two handlers are the least number that can disturb each other, and each disturbance
found involves two; a third handler repeats the position of one of them, and the proofs cover any
number. One session is enough for per-session safety, as sessions share only the dictionary.
Four steps are the shortest
episode with read, edit, test and finish in any order, with the two-step margin of
`premature_finish_refusal` inside it; the larger instances of these properties are covered by
proof. Files have at most two lines: enough for a span that covers a file only partly, and for
an edit that shortens the file below a span. Three containers allow a reset after a failed reset
after an episode. One lost request is enough to leave an abandoned handler beside the client;
`remote_releases` allows three so that create, action and delete may each be lost once. Three
steps of the collector are an edit, a test run and an end by either. Four trials and four faults
let a run be interrupted in a first, a middle and a last trial, resumed, and interrupted again;
`OneMore` stops counting the lines of a trial one above what it should have, since every reader
asks only whether the count is right.

Two processes, each with the row of the other missing, and two starts in all are a first program and one beside
or after it; three files let one be renamed while another is being written. Three tests are one declared to be
repaired, one declared to stay and one in neither list; two directories are the one an object holds and the one
it may lose. The strides of `trials` are as tight as `SeedsAreApart` lets them be. In `pipeline` a patch has two
hunks in one file, the second behind lines the first adds, and one in a test, which is refused; the traces read,
edit, have an edit refused, and read again, and `--max-length` accepts an empty history only, or four steps; two
builds are a dataset and its rebuild or its successor. The second list of rows has a task of its own, whose
search is `TooLong`, so that a rebuilt gold dataset and an old report are of different tasks; with `MaxChars` at
four lines a prompt has room for the shorter reads and cuts the longer. `MCEvaluatesBesideItsTrainer` keeps an
evaluation to the first trainer's adapter while the builders rest, as they share no file with it. In
`observations` the limits of the code (200 lines, 8000 characters, 100 matches, ...) are scaled down (each such
CONSTANT is marked `scale`) so that every one of them is reached: a quote is cut behind its third character.
Replacements end in a newline, in a carriage return, in both or in neither; an implementation file's path fits
both patterns or the first only; four records are a search, a read or an edit, and two refusals in a row.

The handler threads, sessions and boxes are finite pools of one-shot identifiers, and starts,
builds and kills are bounded: `CHECK_DEADLOCK FALSE` stands only in the configurations
where one of them runs out. Symmetry is used for handler threads, sessions, processes, files and
trainers in runs without liveness properties; nothing in the modules tells them apart.

**Fairness.** A handler that can take a step takes it (`WF` on `ThreadStep`): every command it runs has
a timeout. `Main` goes on once it is closing. A request in flight is served, heard or given up
(the client's timeout). `DockerSandbox` assumes that reset goes on and that the owner closes the
environment after its last episode, as the `finally` of the rollout and the worker's `delete`
do. `Collector` goes on with its loop: every request of the policy and every command has a
timeout; `PolicyTrial` likewise (`WF_vars(Runs)`), and nothing obliges its alarm to fire.
`ResumableRun` assumes that a process that runs goes on, and that the operator resumes
one that has stopped, which `ResumedRunsComplete` is about. Nothing obliges a client to send a
request, the trainer to call, the operator to stop the server, or the daemon to start a container
late.

## 4. What is proved

All theorems hold for every value of the constants under the named assumptions of the modules.

- **RolloutProofs**, on `ToolEnvironment` and `Collector`. `EpisodeTypes`, `FinishIsNotPremature`
  (`GivesUpLate`) without further assumption. `FinishIsCurrent` and `EditsAreTracked` (spans, changed files)
  assume that no edit that failed has changed its file (`~FailedWrite`), and `ChangedFilesMayBeReread` that
  paths have one spelling too: the violations of section 3 show that the assumptions are needed.
  `EveryChangeIsListed` is one half of `EditsAreTracked`. For the collector, `SuccessesAreReal` holds with such
  edits too: `CollectInv` says that while collect loops the episode is open and its step count is the
  environment's (`Agreement`), that an open episode's last verdict is not a pass, and a pass that collect holds
  is of the files as they are (`PassesAreReal`), and that an unedited cache means a verifier run since the last
  reported edit (`PatchIsRun`). `AfterPatchMeansRun` comes from the same invariant, and `VerdictIsOfTheEnd`,
  under `~FailedWrite`, from it and `VerdictsAreTracked`, in either sandbox.
- **RolloutProofs**, on `DockerSandbox`. `SandboxTypes`, `AcknowledgedBoxesAreOwned`, `EpisodesAreSeparate`, from one
  inductive invariant: what reset has established at each of its positions (`Stages`), that
  an acknowledged container is running or gone, and the three properties.
- **RemoteEpisodeProofs**, first part, about `GRPOWorker`. `TypeSafety`; the strengthening is that a working
  thread has a real session (`Owned`). `ContainersAreOwned` (`NoStrandedContainer`) needs to know, for each
  thread, what its position says of the environment, and who removes a container (`Owner`): the thread that is
  `removing`, one that has the name and will find the flag set, or, while nobody has taken the name, whoever can
  reach the environment. A session in the dictionary has an environment that is past reset, a detached
  environment is closed or being closed. Where a `Clear` takes the flag from an owner at `taking` or `testing`,
  `raced` says so, and that is the exception. `CompletedCarriesReward` (`CompletedIsGraded`): a thread at
  `publishing` holds a real grade, one at `marking` has stored it, and nothing ever stores the initial reward
  back. The proofs first show that a thread changes only its own position and the session it works on
  (`ThreadFrame`, `QuietFrame`), so each action is looked at only for the thread that takes it.
  `ServerCloseReleases` (`ShutdownReleases`) adds `TakenInv`: of the sessions `server_close` copied, none is
  still being created, and one that is in the dictionary is still on its list. So a session it has come to
  cannot come back, whether the loop ended or raised.
- **RemoteEpisodeProofs**, second part, about the client. `RemoteTypes`, `AuditIsTheReward`, and
  `ImplementsTheEpisode`: every step of client, network and worker is a step of `Episode` or a stutter. The
  invariant says which session a request in flight is for, given what the client holds, that a session that can
  still be rewarded has no audit line and the client no reward of it, and that a fresh environment has no audit
  line.
- **LocalEpisodeProofs.** `OwnedDirectories`, `EarnedReward` and `LocalImplementsEpisode`. A reward is not
  inductive: `Running` adds that, while neither the reset nor an ending has raised, the last result is that of
  the files as they are or an edit followed it, one that failed and yet wrote (`torn`) included, and
  that a changed tree is known to be (`patched`);
  `Waiting` what is left when no episode runs. `PartialCreditIsComparable` (`NewFailuresEarnNothing`)
  adds what an environment remembers of its files (`Told`): the first run is of the copied ones,
  and a failure no edit followed is the very run of the present ones. Its two hypotheses, pytest
  and room for a FAILED line of every test, are those of the run; without the first TLC refutes
  it (section 3), and without the second the lines that are cut off hide new failures.
- **RolloutProofs**, on `ResumableRun`. `ResumeTypes`, `ReportsAreBacked`, `RunCompleteIsWhole`, for any plan and any
  number of faults. Neither report property is inductive: the invariant says, for each program,
  which file is ahead of which at each position of the process. For a rollout the records are at
  most one write behind memory (`RolloutInv`); for the probe memory is ahead of the trajectories,
  these of the rows, and the rows of the report (`ProbeInv`); for an evaluation every trial listed
  in memory has all its audit lines and the trial under way is not listed (`AuditInv`), so the
  lines it appends disturb no report. `DoneStaysDone` (`NothingLost`) follows from it step by step.
- **RowCacheProofs.** `UsableFiles` and `NothingIsForgotten`, for any number of processes, rows and
  mirrors. `CacheInv` says what an undisturbed process knows of the cache between reading it and
  writing it back (nobody else has written, so what it holds contains what is saved);
  `ShardInv` which file each name and each handle is of, and how far an uncrossed download has
  filled it. Most steps touch neither (`QuietSteps`, `AsideSteps`).
- **PolicyTrialProofs.** `FreshSeeds`: the seed is a number in mixed radix, and `SeedInjective` shows, under
  `SeedsAreApart`, that trial, step and attempt can be read back from it. `RemovedContainers` and
  `RecordedTimeouts` (`TimeoutsAreRecorded`) from what each position says of the container (`Contained`)
  and of the alarm (`Timed`). `TypeCorrect`.

- **PairedEditsProofs.** Six theorems about the training pipeline, for any recorded traces, gold
  patches, numbers of trainers, builds, kills and lost requests or edits.
  - `BuildsPassValidation` (`BuildsAreAccepted`). A dataset is `Proper` when its identifiers differ and every
    row has the form its builder gives it; each of the seven builders makes proper rows of proper rows
    (`GoldProper`, `ConvertProper`, ..., `MixProper`), a prefix of proper rows is proper (`ProperPrefix`), and
    proper rows with the report of their build pass what `sft_train` checks (`FitsAccepted`). `DataInv` says
    that every dataset on disk, cut short or half written, is proper, and that what is being written fits its
    report (`Fits`): a builder may read another's file mid-write. What `_parse_action` asks of a read follows
    from `ReadWindow` (`WindowFacts`), of an edit from what `_unsupported_hunk_reason` refuses
    (`HunkStepsFacts`); of a search it is the exception, and so is a GRPO build that copied the report of other
    rows.
  - `ReadsAreOfTheRepository` (`ReadsMatchTheRepository`). A row is `Proper` only if its reads match: each shows
    the file as the edits before it in the same history left it (`FilesAfter`). A history that is cut at a step
    keeps that (`ReadsMatchPrefix`, `ReadsMatchSteps`); a gold row reads the file before any edit, and a
    recovery row shows a search. What the prompt leaves of a read is its end under the same numbers
    (`EndingFacts`), and all of it unless it fills the prompt with its footer (`GoldHistory`). It rests on
    `RecordedAssumption`; cumulative rows are excepted, of which it is not true (section 3).
  - `ReportsTellOfTheAdapter` (`AdapterIsReported`). `SaveInv`: whoever trains made the directory, and the
    weights are what its place in the program says. `AdapterInv`: once a trainer has accepted its
    rows, the report it holds describes them, though both files may have been rebuilt since, and what it writes
    into its own report is taken from what it holds.
  - `FrozenForGood`: the action property `FrozenFilesStay`, which no run checks. `WriteInv` says that the
    file a builder writes to stays torn until the builder is done or killed.
  - `MergedIsHashed` (`ComparedWeightsAreNamed`) and `SuccessesAreTheEdits` (`SuccessesAreEarned`), from
    `EvaluationInv`: after the merge the weights on disk are whole and those merged, and a saved
    adapter does not change; nothing is generated before the gate, and the controls stay as it found
    them; a success of a session whose edit was refused in its container is the exception.

- **ObservationsProofs.** The six invariants of the `observations` run, for every file, repository, query,
  iteration order of a set, verifier output and length of an episode. But for the guard's records, nothing here
  is carried over many steps: an observation is computed in one call, and `ObservationsAnswer` (`Answers`) says
  that what the state holds is the answer to the call it holds. The work is in the operators, which are followed
  one by one.
  - `FailedRunsAreNamed`: a line of either stream is a line of `Streams`, what is printed of a kind is
    kept by `Distinct` and `FirstOf`, and the nodes go first.
  - `BestMatchesAreShown`: `Bounded` keeps the head of what it trims (`BoundedHolds`), hints are put behind,
    and a retry puts two lines before, which is where `Fits` is needed. `ImplementationsAreNamed`: candidates
    are put behind the trim, never under it.
  - `StalledPoliciesAreSentOn`: an invariant of the records (`Remembered`: what a search found is in the names
    it was recorded with, if the patterns match its path: `NamesAll`, `Legible`) and `DirectiveNames`,
    that a name is read, not read, or crowded out.
  - `RangesAloneChange`: `SplitLines` of a text put together at the end of a line is the lines of its parts
    (`SplitConcat`), a text is its lines put together again (`FlattenSplit`), so a file can be taken apart before and
    behind a range (`Parted`), and the replacement ends its last line if the range did
    (`RangeReplaced`). Where the range ends at a form feed, or another such character, it need not: the
    exception in the property. What is read of the file that is written is put together in the same way
    (`ReadConcat`: but for a carriage return in front of a newline, the other exception), and what was
    read before stays as it is (`ReadTwice`).
  - `AdviceIsRight`: what is left by `_collapse_whitespace` at consecutive places stands at increasing places of
    the file, with white space between and nothing else. If the quote matched twice, its characters would be
    left twice (`SameKept`), at two places of the collapsed text, which was searched for a second one
    (`OneMatch`); and it differs from the given text, since that does not match once. So does what is printed of
    it when that is all of it. The lines that are named are those its first and last characters are on
    (`LineHolds`, `QuoteIsPlaced`).
- **ArrangementProofs.** No theorem of the system: what `At`, `Having`, `Distinct`, `InOrder`, `FirstOf`,
  `FlattenSeq`, concatenations and slices return, for any sequence. Where that takes induction, it is on numbers
  and over a set instead of a predicate (`CountingUp`: a set that holds 1, and k + 1 with each k below n, holds
  all of 1 .. n), which needs no operator parameter.

Only model-checked: the liveness properties (`Released`, `EpisodeReleases`, `TrialEnds`, `TrialsEnd`,
`ResumedRunsComplete`), which need fairness. Every safety property of the runs is proved. What TLC
alone shows of the operators is what no property is about, such as the size of a window or
the statement around a range that does not parse.

## 5. What is left out

Wording of observations and prompts, apart from what `Observations` is about; the JSON validation
of requests and the bearer token; token counts, metrics and logs. In `GRPOWorker` the step
budget is not counted: a failing `finish` may or may not end the episode, which
`ToolEnvironment` decides. In `RemoteEpisode` the worker is not shut down. The client's
reply parser is not modelled; it does not know the outcome `disabled` of a navigation-only worker, for
which it drops the action list of the audit line. `ResumableRun` leaves out the checks that compare the
parameters of a resumed run with those of the old one. `RunTests` of `Observations` takes any output,
not one derived from the tree. `SFTExamples` leaves out token lengths but for the refusal of a
row that is too long, and the lists of words that mark a leaked answer.

Not modelled:

- `grpo_train.py`, `grpo_remote_smoke.py`: argument checks and the configuration of a library's
  training loop. The loop's use of an environment is `RemoteEpisode` and `LocalEpisode`; what the library
  does with rewards is not in this repository.
- `rl_dataset.py`, `dataset.py`, `failure_analysis.py`, `navigation_eval.py`, `evaluation.py` and the contents
  of `build_report`: one pass over recorded rows, each judged by its own fields. There is no state
  and no second reader to disagree with; unit tests are the better tool.
- The optimisation in `sft_train.py`, merging in `lora_inference.py`, generation in the evaluations:
  numerical.
- `scripts/`: audits of single experiments and shell loops around ssh.

## 6. The plan and where it stands

The order was the importance of the behaviour: (1) `GRPOWorker`, (2) `ToolEnvironment`, (3)
`DockerSandbox`, (4) `Episode` and `RemoteEpisode`, (5) `Collector` and `ResumableRun`, (6) `RowCache`, (7)
`LocalEpisode` and (8) `RewardShaping`, (9) `PolicyTrial`, (10) the datasets, their programs and the paired
evaluation, (11) what the tools tell the policy. All of it is written, and
the safety properties of every run are proved. What would come next: the tool that replays a
recorded state (`ReplayedStateEnvironment`) in front of `RemoteEpisode`; and the liveness properties, should
a prover for them be at hand.
