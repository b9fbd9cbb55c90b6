------------------------------ MODULE Sandbox ------------------------------
(***************************************************************************)
(* One call of run_in_sandbox: the judge feeds a program through one pipe  *)
(* and reads it through another one, until the docker CLI in between ends  *)
(* or the timeout expires.                                                 *)
(*                                                                         *)
(* A chunk stands for any number of bytes, and pipes keep their order: how *)
(* many chunks were written, are in a pipe and were kept says what they    *)
(* are.  The CLI, the daemon behind it and the program are not code of the *)
(* repository: they are modelled from what sandbox.rs asks of them, the    *)
(* program as anything that reads, writes, loops and ends.                 *)
(***************************************************************************)
EXTENDS Integers

CONSTANTS Input,      \* chunks the judge has to write
          MaxWrites,  \* bound on the chunks the program writes
          Capacity,   \* chunks a pipe holds
          MaxOutput,  \* chunks of output the judge keeps: MAX_OUTPUT
          Faults      \* which of FaultKinds may happen

FaultKinds == {"timeout", "io", "docker", "loop"}

ASSUME SandboxAssumption ==
    /\ Input \in Nat /\ MaxWrites \in Nat /\ MaxOutput \in Nat
    /\ Capacity \in Nat \ {0}
    /\ Faults \subseteq FaultKinds

VARIABLES
    (* run_in_sandbox *)
    call,       \* "spawning", "piping", "removing", "dropping" or "returned"
    outcome,    \* what it returns, or is about to
    stdin,      \* chunks left to write while "open", then "closed"
    unsent,
    kept,       \* chunks of stdout kept
    rm,         \* what docker rm --force did
    (* the pipes *)
    inPipe, outPipe,
    (* docker *)
    cli, container,
    (* the program *)
    prog, eof, written, ended,
    faults      \* which of Faults may happen in this behaviour: all or none

judge == <<call, outcome, stdin, unsent, kept, rm>>
docker == <<cli, container>>
program == <<prog, eof, written, ended>>
vars == <<judge, inPipe, outPipe, docker, program, faults>>

Ends == {"success", "failure"}

\* The container exists, and with it its name.
Present == container \in {"created", "running", "exited"}

\* The CLI ended before its container, by itself or by the hand of the judge.
Cut == cli \in {"lost", "killed"}

Init ==
    /\ call = "spawning" /\ outcome = "none"
    /\ stdin = "open" /\ unsent = Input /\ kept = 0 /\ rm = "none"
    /\ inPipe = 0 /\ outPipe = 0
    /\ cli = "none" /\ container = "none"
    /\ prog = "idle" /\ eof = FALSE /\ written = 0 /\ ended = "none"
    /\ faults \in {{}, Faults}

-----------------------------------------------------------------------------
(* The judge *)

Spawn ==
    /\ call = "spawning"
    /\ call' = "piping" /\ cli' = "alive"
    /\ UNCHANGED <<faults, outcome, stdin, unsent, kept, rm, inPipe, outPipe, container, program>>

\* No process could be started: nothing is there to remove.
SpawnFails ==
    /\ call = "spawning" /\ "io" \in faults
    /\ call' = "returned" /\ outcome' = "error"
    /\ UNCHANGED <<faults, stdin, unsent, kept, rm, inPipe, outPipe, docker, program>>

\* Mutant: the output is read first, the input written when there is no more.
Feed_AfterRead ==
    /\ call = "piping" /\ stdin = "open" /\ unsent > 0
    /\ kept > 0
    /\ cli = "alive" /\ inPipe < Capacity
    /\ unsent' = unsent - 1 /\ inPipe' = inPipe + 1
    /\ UNCHANGED <<faults, call, outcome, stdin, kept, rm, outPipe, docker, program>>

\* stdin.write_all(input)
Feed ==
    /\ call = "piping" /\ stdin = "open" /\ unsent > 0
    /\ cli = "alive" /\ inPipe < Capacity
    /\ unsent' = unsent - 1 /\ inPipe' = inPipe + 1
    /\ UNCHANGED <<faults, call, outcome, stdin, kept, rm, outPipe, docker, program>>

\* The feed future ends and drops stdin: all is written, or the pipe is broken,
\* which is no error.
FeedEnds ==
    /\ call = "piping" /\ stdin = "open"
    /\ unsent = 0 \/ cli \in {"exited", "lost"}
    /\ stdin' = "closed"
    /\ UNCHANGED <<faults, call, outcome, unsent, kept, rm, inPipe, outPipe, docker, program>>

\* Mutant: the limit is not applied.
Keep_NoLimit ==
    /\ call = "piping" /\ outPipe > 0
    /\ outPipe' = outPipe - 1 /\ kept' = kept + 1
    /\ UNCHANGED <<faults, call, outcome, stdin, unsent, rm, inPipe, docker, program>>

\* take(MAX_OUTPUT).read_to_end(&mut kept)
Keep ==
    /\ call = "piping" /\ outPipe > 0 /\ kept < MaxOutput
    /\ outPipe' = outPipe - 1 /\ kept' = kept + 1
    /\ UNCHANGED <<faults, call, outcome, stdin, unsent, rm, inPipe, docker, program>>

\* Mutant: what is beyond the limit is left in the pipe.
Drain_Never == FALSE /\ UNCHANGED vars

\* copy(&mut stdout, &mut sink())
Drain ==
    /\ call = "piping" /\ outPipe > 0 /\ kept = MaxOutput
    /\ outPipe' = outPipe - 1
    /\ UNCHANGED <<faults, judge, inPipe, docker, program>>

\* Mutant: the program's end is not followed by the rest of its output.
Heard_EndOnly == stdin = "closed" /\ cli \in {"exited", "lost"}

\* feed and read have joined, and the CLI can be waited for.
Heard == stdin = "closed" /\ cli \in {"exited", "lost"} /\ outPipe = 0

\* The status is that of the CLI: the program's own, or a failure of docker.
\* Whatever it is, nothing is removed.
Finish ==
    /\ call = "piping" /\ Heard
    /\ call' = "returned"
    /\ outcome' = IF cli = "exited" /\ ended = "success" THEN "exited" ELSE "crashed"
    /\ UNCHANGED <<faults, stdin, unsent, kept, rm, inPipe, outPipe, docker, program>>

\* The futures are dropped, and stdin with them.  The deadline may be seen
\* before an end that is already there.
StopPiping(why) ==
    /\ call = "piping"
    /\ call' = "removing" /\ outcome' = why /\ stdin' = "closed"
    /\ UNCHANGED <<faults, unsent, kept, rm, inPipe, outPipe, docker, program>>

\* Mutant: the timeout covers the writing of the input only.
Timeout_FeedOnly == "timeout" \in faults /\ stdin = "open" /\ StopPiping("timed-out")

Timeout == "timeout" \in faults /\ StopPiping("timed-out")

\* Mutant: an error returns at once.
PipeError_NoRemove ==
    /\ "io" \in faults /\ call = "piping"
    /\ call' = "dropping" /\ outcome' = "error" /\ stdin' = "closed"
    /\ UNCHANGED <<faults, unsent, kept, rm, inPipe, outPipe, docker, program>>

\* An error of a pipe other than the broken stdin.
PipeError == "io" \in faults /\ StopPiping("error")

\* docker rm --force removes a container that is there.
Remove ==
    /\ call = "removing"
    /\ call' = "dropping"
    /\ IF Present
       THEN rm' = "removed" /\ container' = "gone"
       ELSE rm' = "missing" /\ UNCHANGED container
    /\ UNCHANGED <<faults, outcome, stdin, unsent, kept, inPipe, outPipe, cli, program>>

\* Or it runs and fails: its status is discarded, and the call goes on.
RemoveRefused ==
    /\ call = "removing" /\ "docker" \in faults
    /\ call' = "dropping" /\ rm' = "refused"
    /\ UNCHANGED <<faults, outcome, stdin, unsent, kept, inPipe, outPipe, docker, program>>

\* Mutant: a removal that cannot be run is tried again.
RemoveFails_Retries ==
    /\ call = "removing" /\ "io" \in faults
    /\ outcome' = "error" /\ rm' = "failed"
    /\ UNCHANGED <<faults, call, stdin, unsent, kept, inPipe, outPipe, docker, program>>

\* Or it cannot be run.
RemoveFails ==
    /\ call = "removing" /\ "io" \in faults
    /\ call' = "dropping" /\ outcome' = "error" /\ rm' = "failed"
    /\ UNCHANGED <<faults, stdin, unsent, kept, inPipe, outPipe, docker, program>>

\* The call returns and drops the child, which kills a CLI that is still there.
Drop ==
    /\ call = "dropping"
    /\ call' = "returned"
    /\ cli' = IF cli = "alive" THEN "killed" ELSE cli
    /\ UNCHANGED <<faults, outcome, stdin, unsent, kept, rm, inPipe, outPipe, container, program>>

-----------------------------------------------------------------------------
(* docker run --rm, external *)

Create ==
    /\ cli = "alive" /\ container = "none"
    /\ container' = "created"
    /\ UNCHANGED <<faults, judge, inPipe, outPipe, cli, program>>

Start ==
    /\ cli = "alive" /\ container = "created"
    /\ container' = "running"
    /\ UNCHANGED <<faults, judge, inPipe, outPipe, cli, program>>

\* --rm: a container that has ended, or could not be started, is removed.
AutoRemove ==
    /\ \/ container = "exited"
       \/ container = "created" /\ cli = "alive" /\ "docker" \in faults
    /\ container' = "gone"
    /\ UNCHANGED <<faults, judge, inPipe, outPipe, cli, program>>

\* The CLI ends after its container.
CliExit ==
    /\ cli = "alive" /\ container = "gone"
    /\ cli' = "exited"
    /\ UNCHANGED <<faults, judge, inPipe, outPipe, container, program>>

\* Or before it, with a failure: the daemon or the image fails, or the CLI loses
\* the daemon, while the container, if there is one, goes on.
CliFails ==
    /\ cli = "alive" /\ "docker" \in faults
    /\ cli' = "lost"
    /\ UNCHANGED <<faults, judge, inPipe, outPipe, container, program>>

-----------------------------------------------------------------------------
(* The program, external *)

\* What it does next.  It does not read again after the end of its input.
Choose(next) ==
    /\ container = "running" /\ prog = "idle"
    /\ next = "reading" => ~eof
    /\ next = "writing" => written < MaxWrites
    /\ next = "looping" => "loop" \in faults
    /\ prog' = next
    /\ UNCHANGED <<faults, judge, inPipe, outPipe, docker, eof, written, ended>>

\* A read waits for input or for the end of it.  Without the CLI, what it had
\* not passed on is lost.
ReadInput ==
    /\ container = "running" /\ prog = "reading"
    /\ \/ inPipe > 0 /\ inPipe' = inPipe - 1 /\ UNCHANGED eof
       \/ /\ Cut \/ (inPipe = 0 /\ stdin = "closed")
          /\ eof' = TRUE /\ UNCHANGED inPipe
    /\ prog' = "idle"
    /\ UNCHANGED <<faults, judge, outPipe, docker, written, ended>>

\* A write waits for room in the pipe, as long as somebody may empty it.
WriteOutput ==
    /\ container = "running" /\ prog = "writing"
    /\ outPipe < Capacity \/ Cut
    /\ outPipe' = IF Cut THEN outPipe ELSE outPipe + 1
    /\ prog' = "idle" /\ written' = written + 1
    /\ UNCHANGED <<faults, judge, inPipe, docker, eof, ended>>

Exit(status) ==
    /\ container = "running" /\ prog = "ending"
    /\ container' = "exited" /\ prog' = "ended" /\ ended' = status
    /\ UNCHANGED <<faults, judge, inPipe, outPipe, cli, eof, written>>

-----------------------------------------------------------------------------
FeedStep == Feed \/ FeedEnds

ReadStep == Keep \/ Drain

CallStep == Spawn \/ Finish \/ Remove \/ Drop

DockerStep == Create \/ Start \/ AutoRemove

ProgramStep ==
    \/ \E next \in {"reading", "writing", "looping", "ending"} : Choose(next)
    \/ ReadInput
    \/ WriteOutput
    \/ \E s \in Ends : Exit(s)

Next ==
    \/ FeedStep \/ ReadStep \/ CallStep
    \/ SpawnFails \/ Timeout \/ PipeError \/ RemoveRefused \/ RemoveFails
    \/ DockerStep \/ CliExit \/ CliFails
    \/ ProgramStep

Spec == Init /\ [][Next]_vars

\* Futures that can go on are polled, the timer fires, docker and a program
\* that neither loops nor waits go on.  The daemon does not have to fail.
Fairness ==
    /\ WF_vars(FeedStep) /\ WF_vars(ReadStep) /\ WF_vars(CallStep) /\ WF_vars(Timeout)
    /\ WF_vars(DockerStep) /\ WF_vars(CliExit) /\ WF_vars(ProgramStep)

FairSpec == Spec /\ Fairness

-----------------------------------------------------------------------------
(* Properties *)

TypeOK ==
    /\ call \in {"spawning", "piping", "removing", "dropping", "returned"}
    /\ outcome \in {"none", "exited", "crashed", "timed-out", "error"}
    /\ stdin \in {"open", "closed"}
    /\ unsent \in 0..Input /\ kept \in 0..MaxOutput
    /\ rm \in {"none", "removed", "missing", "refused", "failed"}
    /\ inPipe \in 0..Capacity /\ outPipe \in 0..Capacity
    /\ cli \in {"none", "alive", "exited", "lost", "killed"}
    /\ container \in {"none", "created", "running", "exited", "gone"}
    /\ prog \in {"idle", "reading", "writing", "looping", "ending", "ended"}
    /\ eof \in BOOLEAN /\ written \in 0..MaxWrites /\ ended \in Ends \cup {"none"}
    /\ faults \in {{}, Faults}

\* What an exited program is judged on is its own end, and the start of what it
\* wrote, all of it up to MAX_OUTPUT: neither the limit, nor the timeout, nor an
\* end before the pipe is empty takes anything away.
ExitedIsHeard ==
    outcome = "exited" =>
        ended = "success" /\ kept = IF written < MaxOutput THEN written ELSE MaxOutput

\* A container is left behind only when docker failed the call: docker rm did not
\* find it yet, failed, or could not be run, or the CLI ended before it and passed
\* for a crash of the program.  No other return forgets the removal.
LeftOnlyByDocker ==
    call = "returned" /\ Present =>
        rm \in {"missing", "refused", "failed"} \/ (cli = "lost" /\ outcome = "crashed")

\* What the test endless_command_is_stopped_and_removed asserts
\* (sandbox.rs:193-205): after a timeout, the container is not there.
TimedOutIsRemoved == call = "returned" /\ outcome = "timed-out" => ~Present

\* What is left to do of a call, its container and its program: what is unsent is
\* to be fed and read, what is unwritten to be written and read.
Work ==
    3 * unsent + 2 * inPipe + 3 * (MaxWrites - written) + outPipe
      + (IF stdin = "open" THEN 1 ELSE 0) + (IF eof THEN 0 ELSE 2)
      + (CASE call = "spawning" -> 5 [] call = "piping" -> 3 [] call = "removing" -> 2
           [] call = "dropping" -> 1 [] OTHER -> 0)
      + (CASE cli = "none" -> 2 [] cli = "alive" -> 1 [] OTHER -> 0)
      + (CASE container = "none" -> 4 [] container = "created" -> 3 [] container = "running" -> 2
           [] container = "exited" -> 1 [] OTHER -> 0)
      + (CASE prog = "idle" -> 2 [] prog = "ended" -> 0 [] OTHER -> 1)

\* No step of a call is repeated for ever, not even in an error path: each leaves
\* less to do than there was (feed, read, remove).
StepsRunOut == [][Work' < Work /\ Work \in Nat]_vars

\* Every call returns, whatever the program does with its pipes: loop, wait, or
\* fill them.
CallReturns == <>(call = "returned")

\* Without faults, a program that ends in any order of reads and writes is
\* never stuck on a pipe, and its end is what the call returns.
ProgramIsHeard == faults = {} => <>(outcome \in {"exited", "crashed"})

=============================================================================
