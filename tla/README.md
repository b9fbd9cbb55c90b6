# A formal model of the judging platform

This directory holds the TLA+ specifications of the platform in `src/`: the
submission queue and its judges, the sandbox, the judging of a submission, the API
in front of the queue, the schedule and the gate of the content, what the
publisher accepts, and the release script. They are checked with TLC on small
instances. Every safety property that a passing run checks is also proved with
TLAPS, for every instance, or for those that meet the condition its section names.
The reference is the source, read with its tests and the ADRs; every definition
names the lines it stands for in `PROJECT.json` (`map`).

## 1. Inventory

| Component | State it keeps | Operations | Talks to |
|---|---|---|---|
| `jobs` table (`db/migrations/0001_jobs.sql`) | one row per submission: `state`, `enqueued_at`, `claimed_at`, `finished_at`, `result`, ... | CHECK constraints on every write | everybody, through transactions |
| roles (`0002_queue_roles.sql`) | grants | `api`: SELECT, INSERT, UPDATE of `state` and `finished_at` | |
| `claim_job`, `finish_job` (`0003`, `0004`), client `queue.rs` | none; row locks while a transaction is open | claim the oldest waiting row, write the verdicts | judge, table |
| judge loop (`apps/judge/src/main.rs`) | the job in hand, one database connection | claim, judge, finish, sleep one second | queue, sandbox, content |
| judging (`judging.rs`, `cases.rs`, `stdio.rs`, `verdict.rs`) | none | read the cases of an exercise, run each, compare | content on disk, sandbox |
| sandbox (`sandbox.rs`) | a docker CLI process, two pipes, a container held by the daemon | run with a timeout, feed stdin, keep 16 MiB of stdout, remove | docker daemon |
| API (`apps/api/src/main.rs`) | a connection pool | `submit` (INSERT), `progress` (SELECT) | table |
| identifiers (`packages/contracts/src/id.rs`) | none | parse `[a-z0-9-]+` | API, content, publisher |
| content gate (`packages/content/src/{release,exercise,gate}.rs`) | none; reads the `current` pointer and the releases on disk | `active_release`, `exercise_dir`, `accessible_exercise` | files a publisher writes |
| schedule (`packages/content/src/schedule.rs`, `schedule/`) | none | window of a student, accommodation, closing of a session | gate |
| publisher (`apps/publisher/src/`) | none | validate exercises, statements, import reports | content repository |
| release script (`.github/release.sh`) | the git repository, GitHub releases | bump, commit, push, release, dispatch of the images | git, GitHub |

The queue is where processes meet: the API inserts rows, any number of judges
take them through `claim_job` and write them through `finish_job`, and the API
reads them back. A judge reads the content of an
exercise from disk while the publisher may be writing it, and drives docker
through its CLI.

What is hard here, component by component, and what makes it correct:

- **Queue**: transactions of several sessions interleave, a statement's `now()`,
  snapshot, lock and commit are at different moments, a judge dies while its
  session goes on, an answer is lost. Correct means: a job is claimed at most
  once, worked on by one judge, ends at most once, its verdicts never change,
  nobody is overtaken, nothing waits for ever, and what was dropped was dropped
  by a failure.
- **Sandbox**: two pipes of bounded size between the judge and a program that
  may read and write in any order, a timeout that races the exit of the program
  and the creation of its container, the CLI killed after the removal. Correct
  means: no deadlock between feeding and reading, a verdict that is the
  program's own, no container left behind.
- **Judging**: outputs cut at 16 MiB, trailing white space, cases of a release
  that may be deleted while they are read. Correct means: `passed` exactly when
  the outputs are the same up to trailing white space, one verdict per case.
- **API**: a request fails, or its client leaves, while its INSERT goes on; a
  client that got no answer submits again; an answer is older than the row it
  shows. Correct means: an id given out is found, a row too many is a lost
  answer, and what is shown is earned and never goes back.
- **Schedule**: empty and reversed windows, percentages, widths. Correct means:
  an accommodation never takes time away, and a session closes after its last
  student's window.
- **Gate**: clock, dates, pointer and directory are read at different moments,
  while content is published, switched and pruned and dates are moved. Correct
  means: the answer of one instant, and nothing outside of the student's time.
- **Publisher**: it looks at names and kinds of files that the gate looks at
  again later. Correct means: what it accepts, the gate resolves.
- **Release script**: each command may fail after the ones before it succeeded,
  people push meanwhile, and an old run may be started again. Correct means:
  tags rise along `main`, count what changed, and the last push is released
  unless it lost its CI, its run or a command.

`PROJECT.json` lists every hazard at its line (`hazards`) with the property that
watches it.

## 2. The modules

| # | Module | What it models | Proofs |
|---|---|---|---|
| 1 | `JobLifecycle` | what the queue promises about one submission | |
| 2 | `JobQueue`, `MCJobQueue` | table, claim_job, finish_job, judge loop, API INSERT and grant | `JobQueueProofs` |
| 3 | `Sandbox` | pipes, program, CLI, daemon, timeout, removal | `SandboxProofs` |
| 4 | `Stdio`, `StdioCase` | the comparison, with truncation, against a reference definition | `StdioProofs`, `StdioCaseProofs` |
| 5 | `Judging`, `MCJudging` | the cases of a job, read and run | `JudgingProofs` |
| 6 | `Identifiers`, `Api`, `MCApi` | names; `submit` and `progress` with clients that come back, over `JobLifecycle` | `ApiProofs` |
| 7 | `Schedule` | windows, accommodations, closing of a session | `ContentProofs` |
| 8 | `Publisher`, `Gate`, `Content`, `MCContent` | what is accepted; pointer, releases, dates and clock against a reader | `ContentProofs` |
| 9 | `Versions`, `Release`, `MCRelease` | the bump rule; the script as steps that fail and are run again | `ReleaseProofs` |
| 10 | `UnitTests` | the unit tests of the pure functions, asserted of the operators | |

Three abstract specifications carry the rest: the life cycle of a job, which
`JobQueue` implements and `Api` is built on; `Text` in `Stdio`, which the
comparison by lines is equality of; and `accessible_exercise` of `Content`, the
gate done at once, which the gate done step by step is compared with.

The modules fit together by what each assumes of the next: `JobQueue` assumes
that `judge()` ends (`JudgingEnds` of `Judging`), which assumes that a run ends
(`CallReturns` of `Sandbox`) with the start of the program's output
(`ExitedIsHeard`), which `StdioCase` takes as `kept`. `Api` takes
`JobLifecycle` for its table, which is what `ImplementsLifecycle` gives it.

`UnitTests` states the unit tests of `packages/content`, `packages/contracts`,
`apps/publisher`, `apps/judge/src/stdio.rs` and `tests/release/check.sh` as
assumptions (`OpeningExamples`, `GateExamples`, `PublisherExamples`,
`ComparisonExamples`, `BumpExamples`), one conjunct per assertion. TLC evaluates
them with `MCApi`: the operators give what the tests assert of the code.

Runs and proofs divide the work. A run fires every action on an instance small
enough to finish, finds out whether a property holds, and is the only judge of
liveness. A proof takes the bounds away from a safety property.

## 3. The queue

`JobQueue.tla` models the table column by column. `state[r]` has two values the
enum does not: `absent` (no row) and `inserting` (an INSERT not committed).

| Variables | Code |
|---|---|
| `state`, `enqueued_at`, `claimed_at`, `finished_at`, `result`, `language_pack` | columns of `jobs` |
| `pc`, `job` | where the loop of `main.rs` stands, and the `job` of an iteration |
| `tx`, `stamp`, `seen`, `left`, `row`, `verdicts` | the judge's session: the step of its statement, its `now()`, its snapshot, what the scan has not reached, the row it locked, names or answers with, the argument of `finish_job` |
| `freed` | history: the rows the scan had passed when another session gave them back |
| `clock`, `failures` | the clock behind `now()`; how much went wrong so far |

A call of `claim_job` is `BeginClaim` (transaction and `now()`), `TakeSnapshot`,
`SkipRow` as often as the scan meets a row that is locked or no longer waiting,
`LockRow` (`FOR UPDATE`), `ClaimRow` (the UPDATE and its CHECKs), `CommitClaim`,
`ReceiveClaim`; or `ClaimNothing` when the scan is over, or `StatementRefused`
when a constraint refuses the new row: until then the session holds the lock of a
row it does not get, and other scans skip it. `finish_job` is `JudgeOk` (the
transaction starts), `FinishRow` or `FinishNothing`, `CommitFinish`,
`ReceiveFinish`. The INSERT of `submit` is `BeginInsert` and `CommitInsert` or
`AbortInsert`; `enqueued_at` is the `now()` of its begin. `ApiUpdate` is any
UPDATE the grant of `0002_queue_roles.sql` allows and the constraints accept;
`ApiWrites` says which states the role is taken to write. The code of the API has
no UPDATE today.

A judge and its session are apart: after `Crash` the session goes on with the
statement the server had received, and commits it or not (`Rollback`). A judge
starts again (`Restart`) when its old session is over; a new session beside an
old one is covered by a second judge.

Left out: the other columns of the row, the SQL text, the validation of a
submission (it changes nothing when it refuses), the pool of the API, clocks
that go back.

### Runs

| Run | Instance | What it shows |
|---|---|---|
| `queue_safety` | 2 judges, 2 jobs, 2 verdict lists, the api role writes all five states, 2 instants, 1 failure | `OneHolder`, `HeldNotClaimable`, `VerdictIsFinal`, `ClaimedOnce`, and `QueueInv`, the inductive invariant of the proofs |
| `queue_lifecycle` | 2 judges, 2 jobs, 3 instants, 1 failure; the role writes `replaced` and `failed` | `ImplementsLifecycle`: every step is an arrow of `JobLifecycle` or invisible; `OldestFirst` |
| `queue_progress` | 2 judges, 2 jobs, an unknown pack, 1 failure, fair | `OrphanOnlyByFailure`, `WaitingIsTaken`, `HeldIsReleased`, and `WaitingEnds` of the behaviours without failure |
| `queue_abandoned` | 2 judges, 1 failure, fair | **violated**: `AbandonedIsReclaimed`, ADR-0001's "running --> waiting: abandoned by a failed judge, reclaimed" |
| `queue_refused` | 1 judge, 2 jobs | **violated**: `ClaimMeetsCheck`, the constraint `jobs_claimed_after_enqueued` on what `claim_job` writes |

Bounds. Two judges are enough for every race on a row, since a race is between
the session that has the row and one that wants it; two jobs are enough for an
order. Two instants tell "before" from "after" for every
comparison of the constraints, and a third one a claim that is refused from one
that comes after it. One failure can hit any step. The proofs lift the
bounds for safety.

`OldestFirst` has one exception, `freed`: a session that had locked a row and then
gives it back leaves it behind the scans that have skipped it, and a younger job
goes first. It takes no failure: a claim that is refused by a CHECK (finding 2) has
locked its row too. `freed` holds exactly those rows, by session and for as long as
its statement.

Fairness (`Fairness`): a weak fairness condition per judge on what the judge and
its session do by themselves. A statement ends since nothing waits for a lock
that is never released; `judge()` ends since the sandbox has a timeout
(`main.rs:11`) and cases are finite; the sleep is one second (`main.rs:12`); an
exited judge is started again by its systemd unit (ADR-0021). No fairness is
assumed of the API, the clock or failures.

### Proofs

`JobQueueProofs.tla` proves, for any sets of judges, jobs, packs and verdict
lists, any bound on clock and failures, and any `ApiWrites`:

- `TypeCorrect`: `Spec => []TypeOK`.
- `QueueInvariant`: `Spec => []QueueInv`. `OneHolder` alone is not inductive: a
  judge may lock a waiting row, so one must know that nobody works on a waiting
  row (`WorkIsClaimed`, from the `claimed_at` that work leaves and the constraint
  that ties it to the state: `RowsConsistent`), and that a locked row is still
  what its statement saw when it commits (`LocksProtect`). `JobsNamed` says that
  a judge that judges has a job.
- `OneJudgePerJob`, `HeldIsNotClaimable`: its consequences.
- `ClaimIsUnique`, `VerdictsAreFinal`: the action properties, from the invariant
  and from the list of actions that write the table (`TableWriters`).
- `Refinement`: `Spec => ImplementsLifecycle` when `ApiWrites` has no state but
  `replaced` and `failed`.

The argument is by actions: most are `Calm` (the table is untouched, nothing new
is locked or held), and `CalmStep` is proved once; the writers of the table have
a lemma each. The assumption is `QueueAssumption`: types of the constants, and
`NULL` is no number and no verdict list.

Its second part proves two more. Both need to know where a judge's session is when
the judge waits for it (`HandsInv`).

- `NothingIsLost` (`OrphanOnlyByFailure`, of a queue in which nothing has failed,
  if the api role does not write `running`): `finish_job` must not be refused by a
  constraint, so the `now()` of its transaction must not be before the
  `claimed_at` of the row. `TimesInv` orders these times, `LostInv` says who works
  on a running row.
- `NobodyIsOvertaken` (`OldestFirst`, if the role does not write `waiting`, whatever
  fails): a row that a scan has passed was not free then, and it stays so
  (`GoneStays`) until the session that has it gives it back, which puts it in
  `freed`. `ScanInv` keeps this for all rows passed.

Only model-checked: the liveness properties, which are out of the prover's reach.

## 4. The sandbox

`Sandbox.tla` is one call of `run_in_sandbox`. A chunk stands for any number of
bytes; pipes keep their order, so counts say which chunks are where.

| Variables | Code |
|---|---|
| `call`, `outcome` | where the call stands, and what it returns |
| `stdin`, `unsent` | the feed future: its end of the pipe, what `write_all` has left |
| `kept` | the buffer of the read future; `Keep` fills it up to `MAX_OUTPUT`, `Drain` is the `copy` into `sink()` |
| `rm` | what `docker rm --force` did: removed the container, did not find it, failed, or could not be run |
| `inPipe`, `outPipe` | the two pipes, `Capacity` chunks each |
| `cli`, `container` | the docker CLI and the container behind it (external) |
| `prog`, `eof`, `written`, `ended` | the program (external): what it is at, whether it saw the end of its input, how much it wrote, how it ended |

`Heard` is what `try_join!` and `wait` wait for. `Timeout` and `PipeError` drop
the futures and go to `Remove`, to `RemoveRefused` (`docker rm` runs and fails:
its status is discarded) or to `RemoveFails` (it cannot be run), then `Drop` kills
a CLI that is still there (`kill_on_drop`). `Finish` removes nothing: it trusts
`--rm`, and a CLI that has lost its container (`CliFails`) is a crash of the
program to it. The deadline may win against an end that is already there. The
program chooses at every step to read, to write, to loop or to end, and blocks in
a read or a write as the pipes say; it does not read again after the end of its
input. `Faults` is what may go wrong: the timeout, I/O errors of the judge,
failures of docker, programs that loop. The variable `faults` says for one
behaviour whether it may, all of it or nothing, so that one run has the call with
every fault and the call with none.

| Run | Instance | What it shows |
|---|---|---|
| `sandbox_faults` | 4 chunks in, up to 5 out, 2 kept, pipes of 2, all faults or none, fair | `ExitedIsHeard`, `LeftOnlyByDocker`, `StepsRunOut`, `CallReturns`; without faults `ProgramIsHeard`: no order of reads and writes is stuck |
| `sandbox_removal` | 1 in, 1 out, timeouts only | **violated**: `TimedOutIsRemoved`, what the test `endless_command_is_stopped_and_removed` asserts |

Bounds: input and output exceed twice a pipe or what is kept and a pipe, so that
each may block each and the program still has something to do. Fairness: futures
that can go on are polled, the timer fires, docker and a program that is not
blocked and does not loop go on; a daemon that never answers `docker rm` would
make a call wait for ever, and is not modelled. No fairness makes the daemon fail
or a pipe break.

`SandboxProofs.tla` proves `TypeCorrect`, `ExitedPrograms` and `ContainersLeft`
for any sizes and faults. `ExitedIsHeard` is not inductive: one must know where
chunks are while the pipes are read (`NothingLost`), that a CLI that has not failed
outlives its container, so that nobody writes after its end
(`CliOutlivesContainer`), and how far the call is when there is which CLI
(`CliFollowsCall`). `LeftOnlyByDocker` needs that a CLI is killed only after a
removal was tried (`KilledAfterRemove`). It is what can be said of the containers:
docker leaves one in each of the ways it names, and no branch of `run_in_sandbox`
adds another.

That a call returns is proved up to its last, temporal step, in two theorems. Each
step of the call, of docker and of the program leaves less `Work`, a natural number
that weighs what is unsent, unwritten and in a pipe, and how far everybody is
(`CallIsFinite`, the action property `StepsRunOut`). And until the call has
returned, unless the program loops, somebody can take a step for which nothing has
to fail or to expire (`CallIsNeverStuck`): for no sizes do feeding, reading and
waiting block one another. `ENABLED` is out of the prover's reach, so
`NeverStuck` is stated by the guards of the steps, and `CallGuards`,
`PipeGuards`, `DockerGuards` and `ProgramGuards` prove that each guard is all that
its step needs. Both rest on the invariant, with `ProgramInv`: a program writes
within its bound, reads no more after the end of its input, and ends with its
container. What stays with TLC is the conclusion under fairness: `CallReturns`,
`ProgramIsHeard`, and the call whose program loops, which the timeout ends.

## 5. Judging

`Stdio.tla` is `stdio.rs` operator by operator, over three classes of bytes: the
line feed, the blanks that `trim_ascii_end` takes, and the rest. `Text` is the
reference: the bytes that count are those with text after them on their line, or
for a line feed anywhere.

`StdioCase.tla` lets a program write any output against any expected output.
`stdio_compare` checks with one letter, up to five bytes written and a limit of
four that
the comparison by lines is equality of `Text` within the limit
(`WholeIsCompared`), and that past the limit nobody passes with less than the
expected text (`PassedStartsRight`). One letter is enough: letters are compared
by equality only, and what could go wrong is where lines and white space begin
and end; five bytes hold a blank and an empty line inside the text and at its
end. `read_case_file` refuses an expected output over the limit, since it "could
never match" (`cases.rs:11`); one that is over it by white space at its end would
match what is kept of the same output, so the reason is not exact, and the
refusal is what is modelled (`Accepted`).

`Judging.tla` is `judge()`: `ListCases`, then `CheckFile` and `ReadInput` or
`ReadExpected` for each file, then `RunCase` for each case; `ReadFails` and
`SandboxFails` end it with the error that `JobQueue` takes as `JudgeFails`.
`runs` and `failed` are history. The assessment directory is any directory of
`Names`, each file missing, refused (not a regular file, or over the limit) or
one of a few contents; its release is immutable and may be deleted at any step.

| Run | Instance | What it shows |
|---|---|---|
| `judging_cases` | every directory of 2 names, 2 inputs, 2 expected outputs, 7 outcomes of a run, deletion, fair | `EveryCaseIsJudged`, `VerdictsAreTheirs`, `ErrorIsDue`, `JudgingEnds` |

Two cases let one fail after another succeeded, and let verdicts, inputs and
outputs be taken from the wrong one. Fairness: reads end, and runs do
(`CallReturns`).

`JudgingProofs.tla` proves `AllCasesOrNone`, `ErrorsHaveReasons` and
`VerdictsOfTheirRuns` for any names, contents, outputs and outcomes. The
invariant ties what was read to the files it came from (`FileInv`), the case
under way to the names that were listed (`PlaceInv`), and each stage to what is
empty before it (`StageInv`). `SortAssumption` is what `sort` promises of the
names. That a passed case has the expected text is the comparison's theorem, used
for each case; it asks of the constants that contents and outputs are sequences.
`JudgingIsFinite` is `judge()`'s counterpart of `CallIsFinite`: every step, whatever
fails or vanishes, leaves less to check, to read and to run.

`StdioProofs.tla` proves that the comparison is equality of texts for any bytes
and any length (`SameOutputIsSameText`). `split` and `Text` are folds, and a fold
cannot be unfolded by the provers: `FoldExists` and `FoldChain` show that the
function behind it exists and goes through the positions one by one, and
`Induction` is induction over a set of naturals, from the library's well-founded
minimum. From there the argument has two halves. `split` is injective
(`SplitInjective`), so that equal lines mean equal bytes. And the lines that
`same_output` compares are the lines of the text (`LinesOfText`), by an invariant
over positions, `Agree`: of the bytes up to here, the lines before the last are
trimmed already, and of the last one it is known which bytes count (`Follows`),
since those that are blank count only if a letter follows. `TextOfStart` says that
a cut does not change what counts before it, except for blanks that end up last.

`StdioCaseProofs.tla` takes both to the verdict: `WholeOutputIsCompared` and
`PassedOutputStartsRight`, for any limit. The invariant is that a verdict on the
output is the comparison of what was kept (`ComparedInv`), and what is kept is a
start of what was written, all of it within the limit (`KeptIsStart`). Only
model-checked: `JudgingEnds`.

## 6. The API

`Api.tla` has the handlers `submit` and `progress` between clients and a table
whose rows live as `JobLifecycle` says (`Queue!Claim`, `Queue!Finish`, ...).

| Variables | Code |
|---|---|
| `state`, `result` | columns of `jobs`; `absent` until the INSERT commits |
| `author` | whose INSERT a row is, from its start |
| `body`, `attempts` | what a client submits, and how often it did |
| `pc`, `asked`, `row`, `answer` | a request: where it stands, POST or the id of a GET, the row of its INSERT, its response |
| `accepted`, `known`, `lost`, `failures` | history: ids a client was given, the last progress it saw, its rows whose answer it did not get, what went wrong |

`Submit` is the request up to the checks of the extractor and of `submit`
(`Accepts`), `Insert` or `InsertRefused` the statement (`TableAccepts` is the
domain and the CHECKs of `0001_jobs.sql`), `Commit` its end, `Return` the 202.
`Poll`, `Select`, `Reply` are a GET: the answer is taken in one SELECT and
arrives later. `Abort` fails the statement, `LoseConnection` fails the request
while its statement may go on, `Disconnect` drops the handler with its client. A
client without an id submits the same body again.

| Run | Instance | What it shows |
|---|---|---|
| `api_requests` | 1 client, 3 ids, a body of each of 5 kinds, 4 attempts, 3 failures, fair | `AcceptedIsFound`, `RowsAreAccountedFor`, `InternalErrorIsDue`, `PassedIsEarned`, `ProgressIsForward`, `RequestsEnd` |

Bounds. Handlers share nothing but the table, and no row is written by two
clients, so that one client has every case of its own; that an id is not another
client's is for the proofs, which are for any number.
Three ids and three failures let a client lose two answers and get a third. Two
verdict lists tell "all passed" from "one passed". Bodies are at the limit, over
it, empty, with a bad name, with a NUL. Fairness: the runtime polls handlers that
can go on, and an INSERT waits for no lock, so it commits or fails; none of
clients, judges or failures.

`ApiProofs.tla` proves the five safety properties (`GivenIsFound`,
`TwiceMeansLost`, `ErrorsAreDue`, `PassedIsDeserved`, `ShownIsForward`). The
invariant: rows begun and rows in the table (`TableInv`), a row of a client is
in its handler, given to it or lost (`HandlerInv`), and an answer, however late,
is one moment of its job, no later than now and no earlier than what the client
knows (`AnswerInv`, by the order `Earlier` on what may be shown of a job).

## 7. The schedule, the gate and the publisher

`Schedule.tla` and `Publisher.tla` are the pure functions of
`packages/content/src/schedule.rs` and of `apps/publisher/src`, `Gate.tla` the
questions the gate asks of the pointer, the directory and the schedule. Bytes
matter where they are parsed: identifiers and revisions are sequences of bytes,
files are their kind. Instants are naturals; `ContentProofs.tla` proves of every
window, accommodation and schedule:

- `AccommodationAddsTime`, `EmptyStaysClosed`, `PostponementFollows`: an
  accommodation takes no time away, opens nothing that is closed, and moves with
  its dates;
- `OpenOnce`: an exercise opens once and closes once;
- `SessionClosesLast`: at the end of the session nobody's window is open.

`Content.tla` is one call of `accessible_exercise`: `Call` (the caller takes the
time and the student's schedule), `ReadPointer`, `FindExercise`,
`CheckSchedule`, each with its early return. Around it the clock ticks,
instructors move dates (`Reschedule`), and content is published, switched to and
pruned. That writer is not in the repository; it is external and may do what the
reader relies on: a release never changes, the pointer is rewritten in place, so
that a reader may see the start of it (`Tear`), the active release is not
deleted. `moments` is history: what the gate at once would have answered at each
instant of the call.

| Run | Instance | What it shows |
|---|---|---|
| `content_gate` | 2 students, 2 releases, 2 contents, 3 schedules, 4 instants | `AnswersAMoment`, `ReadWhenDue`, `SessionOutlivesStudents`, `ValidatedIsResolved` |

Bounds. Two releases are enough to switch between and prune one; of the two
contents the publisher accepts one and refuses the other, whose link the gate must
refuse too; the schedules are a plain window, one with twice the time and a later
start, and a reversed one with extra time; four instants are before, in, and after
each. One call at a time: the gate writes nothing, so calls do not meet.

`ContentProofs.tla` proves all four too, for any students, contents and schedules
(`GateIsAtomic`, `NobodyReadsUndue`, `SessionIsOver`, `AcceptedIsFound`). For the
first, what makes the gate atomic is that a torn pointer is never the name of a
release (`TornPointer`: revisions are hashes of one length), that a release that
was read is the same until it is pruned, and that its answer was therefore given
by the instant of the read (`GateInv`). The second counts instants (`Due`) and
compares them with the code's arithmetic (`OpenIsDue`). It is about the time and the
dates the call was given: that they are still current at its end, nothing promises.

## 8. The release script

`Versions.tla` is the arithmetic of the bump; `Release.tla` the script command by
command, as `release.yml` starts it.

| Variables | Code |
|---|---|
| `main` | the commits: kind, version in `Cargo.toml`, by people or by the script |
| `releases`, `images` | the tags in the order they were made; the dispatches |
| `ci`, `cancelled` | the newest CI run of `main`; how many it has cancelled that have not ended (`concurrency` of `ci.yml`) |
| `pending`, `past` | the run that waits (`concurrency` of `release.yml`); commits of all runs there have been |
| `pc`, `base`, `head`, `version` | the run: its command, the commit of its checkout, HEAD, `$version` |
| `failures`, `reruns`, `hurt`, `orphans` | bounds, and history: whether what people pushed last has lost its CI, its turn or a command; versions after whose release a command failed |

`Read` is the version of `Cargo.toml`, `git describe`, the log and the bump,
which is committed in the clone; `PushBump` is rejected when `main` has moved;
then `Verify`, `Create`, `Dispatch`. `Fail` ends a run at any command, `gh release
create` before or after it took effect.

Around the script are people and GitHub. `Push` and `CiByHand` (a CI run again, or
dispatched) start a CI and cancel the one before. Each CI that ends, green or red
(`CiEnds`), cancelled (`CiCancelled`) or of a pull request from a branch called
`main` (`PullRequestCi`), asks for a turn of `release.yml`, whose `concurrency` is
the workflow's and whose `if` is the job's: one run at a time, a waiting one is
cancelled by the next one, and only then the run of a CI that was not a green push
skips its job (`Skip`, `StartSkipped`). `Rerun` starts an earlier run again.

| Run | Instance | What it shows |
|---|---|---|
| `release_runs` | 3 commits of people, breaking, features or neither, versions kept or raised, CI green or red, 1 failure, 2 things started by hand, fair | `VersionsRise`, `ChangesAreCounted`, `ImagesFollow`, `MainIsReleased` |

Bounds: two pushes after the first commit let one be released while the other
arrives during a bump; a rerun of an old commit needs a newer release; two things
by hand let a CI be dispatched and a run be started again behind it. `fix` differs
from `other` in the last component of a version only; `bump_tests` has it.
Fairness: CI ends, green or not; a waiting run gets its turn; the script's commands
end.

`MainIsReleased` says what "the next run takes over" (`release.yml:31`) comes to.
It is not that what `main` ends with is always released: the last push is not when
its CI is red or cancelled by a dispatched one, when its waiting run is cancelled
by any other (one that then skips its job is enough), or when a command of its run
fails (`hurt`). Nothing tries again then, before the next push or a rerun by hand.
In all other cases it is, whatever earlier pushes lost.

A rerun may release an older commit after a newer one: a bump on it is rejected,
so it is tagged with the version it has, if nothing is yet, and `VersionsRise`
still holds. `ChangesAreCounted` is
stated of releases made in order (`InOrder`): the log since a tag that was made
late was counted without it.

`ReleaseProofs.tla` proves the three safety properties (`TagsRise`,
`ReleasesCount`, `ImagesOfReleases`) for any history, if people never lower the
version of `Cargo.toml` (`RaisesUp`: the script knows of one raised by hand only).
The invariant: versions never fall along `main`, since a bump goes on top
of its tip or is rejected (`MainInv`); CI and runs are for commits of `main`
(`ActionsInv`); a run is on a commit with the version it is about to release
(`RunInv`); and the version at hand counts what changed since
each release before it (`CountInv`), by two facts about versions: a bump counts
the log it is given (`BumpCounts`), and what two releases in a row count, the
second counts since the first (`CountsCompose`).

## 9. Findings

1. **Abandoned jobs stay running** (`queue_abandoned`). Nothing writes a row whose
   judge died, lost its answer or failed in `judge()`. ADR-0001 and ADR-0010 say
   such a job is reclaimed.
2. **A claim may be refused by the table** (`queue_refused`). `claimed_at` is the
   start of the transaction, the snapshot is later; a submission in between makes
   the UPDATE fail its own constraint, and the error ends the judge process. Until
   then it holds the row's lock, so that another judge may take a younger job first.
3. **A timed-out container may stay** (`sandbox_removal`). When the timeout expires
   before the daemon has created the container, `docker rm` finds nothing, its
   status is not looked at, and the CLI creates the container before it is
   killed: it runs on, outside of any limit of time. So does a container whose
   `docker rm` fails, or whose CLI ends before it; no line of `src/` says otherwise.

Documented and not implemented, therefore not modelled: the judge's second check
of the opening of an exercise (ADR-0005, ADR-0020), its resolution of the active
release (`CONTENT` names a directory once), LISTEN/NOTIFY (ADR-0001; the
judge polls), the departure of an idle judge (ADR-0021), the version check of the
contract (ADR-0024), the replacement of a waiting run (ADR-0030; only its grant
exists).

## 10. Not modelled

`apps/admin` (prints one line), `apps/web`, `packs`, `infrastructure` (empty),
`site`, `spikes`, `report`, the devcontainer and the hooks (no logic of the
system), the text of the docs.

Of the modelled components: arithmetic beyond 64 bits of seconds in `schedule` (a
window of a century with a percentage of 2^32); the limit of axum on a body, which
refuses before `submit` does and changes nothing; the route `/health`; `DRY_RUN`
and the commit-msg hook of the release script; the publication of releases, of
which `src/` has the reader only; the refusal of a content repository without
`exercises/` (the error of `read_dir`, `exercises.rs:12`); and the other columns
of a job.

Out of the prover's reach, and model-checked only: every liveness property
(`WaitingIsTaken`, `HeldIsReleased`, `WaitingEnds`, `CallReturns`,
`ProgramIsHeard`, `JudgingEnds`, `RequestsEnd`, `MainIsReleased`).
