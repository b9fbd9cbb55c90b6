--------------------------- MODULE SandboxProofs ---------------------------
(***************************************************************************)
(* What holds of a call of run_in_sandbox for inputs, outputs, pipes and   *)
(* limits of any size: the program is judged on its own end and on the     *)
(* start of its own output, and a return forgets no container.             *)
(***************************************************************************)
EXTENDS Sandbox, TLAPS

\* What is written is kept, in the pipe or, past the limit, drained, as long as
\* the CLI has not ended before its container.
NothingLost ==
    (call \in {"spawning", "piping"} /\ cli # "lost") \/ outcome = "exited" =>
        IF kept < MaxOutput THEN written = kept + outPipe ELSE written >= kept + outPipe

\* How far the call is says what there is of the CLI.
CliFollowsCall ==
    /\ call = "spawning" => cli = "none"
    /\ call = "piping" => cli \in {"alive", "exited", "lost"}
    /\ call \in {"spawning", "piping"} => outcome = "none"
    /\ call = "returned" => cli # "alive"

\* A CLI that is not there has no container behind it, unless it was cut off.
CliOutlivesContainer ==
    /\ cli = "none" => container = "none"
    /\ cli = "exited" => container = "gone"

ExitIsFinal ==
    outcome = "exited" =>
        call = "returned" /\ cli = "exited" /\ ended = "success" /\ outPipe = 0

\* A CLI is killed after a removal that was tried, and a container that was
\* removed does not come back.
KilledAfterRemove ==
    /\ call = "dropping" \/ cli = "killed" => rm # "none"
    /\ rm = "removed" => container = "gone"
    /\ cli = "killed" => outcome \in {"timed-out", "error"}
    /\ call = "returned" /\ rm = "none" /\ cli = "lost" => outcome = "crashed"
    /\ call \in {"removing", "dropping"} => outcome \in {"timed-out", "error"}

\* The program writes within the bound of the model, reads no more after the end
\* of its input, and ends with its container.
ProgramInv ==
    /\ prog = "writing" => written < MaxWrites
    /\ prog = "reading" => ~eof
    /\ prog = "ended" => container \in {"exited", "gone"}

IInv ==
    /\ TypeOK /\ ProgramInv
    /\ NothingLost
    /\ CliFollowsCall
    /\ CliOutlivesContainer
    /\ ExitIsFinal
    /\ KilledAfterRemove

-----------------------------------------------------------------------------
(* The proofs *)

\* Every step keeps the types: counters stay within their bounds since each
\* action that counts has its bound as a guard, the write when it is chosen.
LEMMA TypeStep == TypeOK /\ ProgramInv /\ [Next]_vars => TypeOK' /\ ProgramInv'
<1> SUFFICES ASSUME TypeOK, ProgramInv, [Next]_vars PROVE TypeOK' /\ ProgramInv'
  OBVIOUS
<1> USE SandboxAssumption DEF TypeOK, ProgramInv, Ends, judge, docker, program
<1>1. CASE Spawn
  BY <1>1 DEF Spawn
<1>2. CASE SpawnFails
  BY <1>2 DEF SpawnFails
<1>3. CASE Feed
  BY <1>3 DEF Feed
<1>4. CASE FeedEnds
  BY <1>4 DEF FeedEnds
<1>5. CASE Keep
  BY <1>5 DEF Keep
<1>6. CASE Drain
  BY <1>6 DEF Drain
<1>7. CASE Finish
  BY <1>7 DEF Finish, Heard
<1>8. CASE Timeout
  BY <1>8 DEF Timeout, StopPiping
<1>9. CASE PipeError
  BY <1>9 DEF PipeError, StopPiping
<1>10. CASE Remove
  BY <1>10 DEF Remove, Present
<1>11. CASE RemoveFails \/ RemoveRefused
  BY <1>11 DEF RemoveFails, RemoveRefused
<1>12. CASE Drop
  BY <1>12 DEF Drop
<1>13. CASE Create
  BY <1>13 DEF Create
<1>14. CASE Start
  BY <1>14 DEF Start
<1>15. CASE AutoRemove
  BY <1>15 DEF AutoRemove
<1>16. CASE CliExit \/ CliFails
  BY <1>16 DEF CliExit, CliFails
<1>17. ASSUME NEW next \in {"reading", "writing", "looping", "ending"}, Choose(next) PROVE TypeOK' /\ ProgramInv'
  BY <1>17 DEF Choose
<1>18. CASE ReadInput
  <2>1. eof' \in BOOLEAN
    BY <1>18, Zenon DEF ReadInput
  <2>2. inPipe' \in 0..Capacity
    BY <1>18, <2>1, Z3 DEF ReadInput
  <2> QED
    BY <1>18, <2>1, <2>2 DEF ReadInput
<1>19. CASE WriteOutput
  BY <1>19 DEF WriteOutput, Cut
<1>20. ASSUME NEW s \in Ends, Exit(s) PROVE TypeOK' /\ ProgramInv'
  BY <1>20 DEF Exit
<1>21. CASE UNCHANGED vars
  BY <1>21 DEF vars
<1> QED
  BY <1>1, <1>2, <1>3, <1>4, <1>5, <1>6, <1>7, <1>8, <1>9, <1>10, <1>11, <1>12, <1>13, <1>14, <1>15, <1>16, <1>17, <1>18, <1>19, <1>20, <1>21
    DEF Next, FeedStep, ReadStep, CallStep, DockerStep, ProgramStep

\* The initial state satisfies the invariant: nothing is written, kept or run.
LEMMA InvInit == Init => IInv
<1> SUFFICES ASSUME Init PROVE IInv
  OBVIOUS
<1>1. eof \in BOOLEAN
  BY Zenon DEF Init
<1>2. TypeOK
  BY <1>1, SandboxAssumption DEF Init, TypeOK, Ends
<1> QED
  BY <1>2, SandboxAssumption
    DEF Init, IInv, ProgramInv, NothingLost, CliFollowsCall, CliOutlivesContainer, ExitIsFinal, KilledAfterRemove

\* Every step preserves the invariant.
LEMMA InvStep == IInv /\ [Next]_vars => IInv'
<1> SUFFICES ASSUME IInv, [Next]_vars PROVE IInv'
  OBVIOUS
<1> DEFINE Rest == NothingLost /\ CliFollowsCall /\ CliOutlivesContainer
                     /\ ExitIsFinal /\ KilledAfterRemove
<1>0. TypeOK' /\ ProgramInv'
  BY TypeStep DEF IInv
<1> SUFFICES Rest'
  BY <1>0 DEF IInv
<1> USE SandboxAssumption DEF IInv, TypeOK, ProgramInv, NothingLost, CliFollowsCall, CliOutlivesContainer, ExitIsFinal, KilledAfterRemove, Ends, judge, docker, program
<1>1. CASE Spawn
  BY <1>1 DEF Spawn
<1>2. CASE SpawnFails
  BY <1>2 DEF SpawnFails
<1>3. CASE Feed
  BY <1>3 DEF Feed
<1>4. CASE FeedEnds
  BY <1>4 DEF FeedEnds
<1>5. CASE Keep
  BY <1>5 DEF Keep
<1>6. CASE Drain
  BY <1>6 DEF Drain
<1>7. CASE Finish
  BY <1>7 DEF Finish, Heard
<1>8. CASE Timeout
  BY <1>8 DEF Timeout, StopPiping
<1>9. CASE PipeError
  BY <1>9 DEF PipeError, StopPiping
<1>10. CASE Remove
  BY <1>10 DEF Remove, Present
<1>11. CASE RemoveFails \/ RemoveRefused
  BY <1>11 DEF RemoveFails, RemoveRefused
<1>12. CASE Drop
  BY <1>12 DEF Drop
<1>13. CASE Create
  BY <1>13 DEF Create
<1>14. CASE Start
  BY <1>14 DEF Start
<1>15. CASE AutoRemove
  BY <1>15 DEF AutoRemove
<1>16. CASE CliExit \/ CliFails
  BY <1>16 DEF CliExit, CliFails
<1>17. ASSUME NEW next \in {"reading", "writing", "looping", "ending"}, Choose(next) PROVE Rest'
  BY <1>17 DEF Choose
<1>18. CASE ReadInput
  BY <1>18 DEF ReadInput, Cut
<1>19. CASE WriteOutput
  BY <1>19 DEF WriteOutput, Cut
<1>20. ASSUME NEW s \in Ends, Exit(s) PROVE Rest'
  BY <1>20 DEF Exit
<1>21. CASE UNCHANGED vars
  BY <1>21 DEF vars
<1> QED
  BY <1>1, <1>2, <1>3, <1>4, <1>5, <1>6, <1>7, <1>8, <1>9, <1>10, <1>11, <1>12, <1>13, <1>14, <1>15, <1>16, <1>17, <1>18, <1>19, <1>20, <1>21
    DEF Next, FeedStep, ReadStep, CallStep, DockerStep, ProgramStep

\* The invariant holds in every reachable state.
THEOREM CallInvariant == Spec => []IInv
  BY InvInit, InvStep, PTL DEF Spec

\* Every variable keeps its type: in particular no more than MAX_OUTPUT is kept,
\* however much the program writes (run_in_sandbox, take(MAX_OUTPUT)).
THEOREM TypeCorrect == Spec => []TypeOK
<1>1. IInv => TypeOK
  BY DEF IInv
<1> QED
  BY <1>1, CallInvariant, PTL

\* An exited program is judged on its own end and on the start of its output, all
\* of it up to MAX_OUTPUT (run_in_sandbox, try_join of feed and read, then wait).
THEOREM ExitedPrograms == Spec => []ExitedIsHeard
<1>1. IInv => ExitedIsHeard
  BY SandboxAssumption DEF IInv, TypeOK, NothingLost, ExitIsFinal, ExitedIsHeard
<1> QED
  BY <1>1, CallInvariant, PTL

\* A container is still there after the return only if docker rm did not find it,
\* failed or could not be run, or if the CLI ended before it: every branch of
\* run_in_sandbox that calls remove has gone through it, and the one that does
\* not has waited for the CLI.
THEOREM ContainersLeft == Spec => []LeftOnlyByDocker
<1>1. IInv => LeftOnlyByDocker
  BY DEF IInv, TypeOK, CliFollowsCall, CliOutlivesContainer, KilledAfterRemove, LeftOnlyByDocker, Present
<1> QED
  BY <1>1, CallInvariant, PTL

-----------------------------------------------------------------------------
(* A call ends: its steps run out, and until then it is never stuck *)

\* What is left to do is never negative.
LEMMA WorkIsNat == TypeOK => Work \in Nat
<1> SUFFICES ASSUME TypeOK PROVE Work \in Nat
  OBVIOUS
<1> USE SandboxAssumption DEF TypeOK
<1>1. 3 * unsent + 2 * inPipe + 3 * (MaxWrites - written) + outPipe \in Nat
  OBVIOUS
<1> HIDE DEF TypeOK
<1> QED
  BY <1>1 DEF Work

\* Whatever step is taken, less is left to do.
LEMMA WorkStep == IInv /\ Next => Work' < Work
<1> SUFFICES ASSUME IInv, Next PROVE Work' < Work
  OBVIOUS
<1> USE SandboxAssumption DEF IInv, TypeOK, ProgramInv, CliFollowsCall, Work, Ends, judge, docker, program
<1>1. CASE FeedStep
  <2>1. CASE Feed
    BY <2>1 DEF Feed
  <2>2. CASE FeedEnds
    <3> DEFINE rest == 3 * unsent + 2 * inPipe + 3 * (MaxWrites - written) + outPipe
    <3>1. rest \in Nat /\ UNCHANGED <<rest, eof, call, cli, container, prog>>
      BY <2>2 DEF FeedEnds
    <3>2. stdin = "open" /\ stdin' = "closed"
      BY <2>2 DEF FeedEnds
    <3> HIDE DEF rest, IInv, TypeOK, ProgramInv, CliFollowsCall
    <3> QED
      BY <3>1, <3>2 DEF rest
  <2> QED
    BY <1>1, <2>1, <2>2 DEF FeedStep
<1>2. CASE ReadStep
  BY <1>2 DEF ReadStep, Keep, Drain
<1>3. CASE Spawn \/ SpawnFails
  BY <1>3 DEF Spawn, SpawnFails
<1>4. CASE Finish
  BY <1>4 DEF Finish
<1>5. CASE Timeout \/ PipeError
  BY <1>5 DEF Timeout, PipeError, StopPiping
<1>6. CASE Remove \/ RemoveRefused \/ RemoveFails \/ Drop
  BY <1>6 DEF Remove, RemoveRefused, RemoveFails, Drop, Present
<1>7. CASE DockerStep \/ CliExit \/ CliFails
  BY <1>7 DEF DockerStep, Create, Start, AutoRemove, CliExit, CliFails
<1>8. ASSUME NEW next \in {"reading", "writing", "looping", "ending"}, Choose(next) PROVE Work' < Work
  BY <1>8 DEF Choose
<1>9. CASE ReadInput
  BY <1>9 DEF ReadInput, Cut
<1>10. CASE WriteOutput
  BY <1>10 DEF WriteOutput, Cut
<1>11. ASSUME NEW s \in Ends, Exit(s) PROVE Work' < Work
  BY <1>11 DEF Exit
<1> QED
  BY <1>1, <1>2, <1>3, <1>4, <1>5, <1>6, <1>7, <1>8, <1>9, <1>10, <1>11
    DEF Next, CallStep, ProgramStep

\* A call is a bounded number of steps, for any sizes, faults and programs.
THEOREM CallIsFinite == Spec => StepsRunOut
<1>1. IInv /\ [Next]_vars => [Work' < Work /\ Work \in Nat]_vars
  BY WorkIsNat, WorkStep DEF IInv
<1> QED
  BY <1>1, CallInvariant, PTL DEF Spec, StepsRunOut

\* The guards of the steps that need no fault and no timeout: of the call,
CanCall ==
    \/ call = "spawning"
    \/ call = "piping" /\ Heard
    \/ call \in {"removing", "dropping"}

\* of its two futures,
CanPipe ==
    call = "piping" /\
        \/ stdin = "open" /\ unsent > 0 /\ cli = "alive" /\ inPipe < Capacity
        \/ stdin = "open" /\ (unsent = 0 \/ cli \in {"exited", "lost"})
        \/ outPipe > 0

\* of docker,
CanDocker ==
    \/ cli = "alive" /\ container \in {"none", "created", "gone"}
    \/ container = "exited"

\* and of the program.
CanProgram ==
    container = "running" /\
        \/ prog \in {"idle", "ending"}
        \/ prog = "reading" /\ (inPipe > 0 \/ stdin = "closed" \/ Cut)
        \/ prog = "writing" /\ (outPipe < Capacity \/ Cut)

NeverStuck ==
    call # "returned" /\ prog # "looping" => CanCall \/ CanPipe \/ CanDocker \/ CanProgram

\* They are all that their steps need: where one holds, there is a next state.
LEMMA CallGuards ==
    /\ call = "spawning" /\ call' = "piping" /\ cli' = "alive"
         /\ UNCHANGED <<faults, outcome, stdin, unsent, kept, rm, inPipe, outPipe, container, program>>
         => CallStep
    /\ call = "piping" /\ Heard /\ call' = "returned"
         /\ outcome' = (IF cli = "exited" /\ ended = "success" THEN "exited" ELSE "crashed")
         /\ UNCHANGED <<faults, stdin, unsent, kept, rm, inPipe, outPipe, docker, program>>
         => CallStep
    /\ call = "removing" /\ call' = "dropping"
         /\ (IF Present
             THEN rm' = "removed" /\ container' = "gone"
             ELSE rm' = "missing" /\ UNCHANGED container)
         /\ UNCHANGED <<faults, outcome, stdin, unsent, kept, inPipe, outPipe, cli, program>>
         => CallStep
    /\ call = "dropping" /\ call' = "returned" /\ cli' = (IF cli = "alive" THEN "killed" ELSE cli)
         /\ UNCHANGED <<faults, outcome, stdin, unsent, kept, rm, inPipe, outPipe, container, program>>
         => CallStep
  BY DEF CallStep, Spawn, Finish, Remove, Drop

\* The same for the feed and the read future.
LEMMA PipeGuards ==
    ASSUME TypeOK, call = "piping", UNCHANGED <<faults, call, outcome, rm, docker, program>>
    PROVE  /\ stdin = "open" /\ unsent > 0 /\ cli = "alive" /\ inPipe < Capacity
                /\ unsent' = unsent - 1 /\ inPipe' = inPipe + 1 /\ UNCHANGED <<stdin, kept, outPipe>>
                => FeedStep
           /\ stdin = "open" /\ (unsent = 0 \/ cli \in {"exited", "lost"})
                /\ stdin' = "closed" /\ UNCHANGED <<unsent, kept, inPipe, outPipe>>
                => FeedStep
           /\ outPipe > 0 /\ outPipe' = outPipe - 1 /\ UNCHANGED <<stdin, unsent, inPipe>>
                /\ kept' = (IF kept < MaxOutput THEN kept + 1 ELSE kept)
                => ReadStep
  BY SandboxAssumption
    DEF FeedStep, ReadStep, Feed, FeedEnds, Keep, Drain, TypeOK, judge

\* The same for docker.
LEMMA DockerGuards ==
    ASSUME UNCHANGED <<faults, judge, inPipe, outPipe, program>>
    PROVE  /\ cli = "alive" /\ container = "none" /\ container' = "created" /\ UNCHANGED cli => DockerStep
           /\ cli = "alive" /\ container = "created" /\ container' = "running" /\ UNCHANGED cli => DockerStep
           /\ cli = "alive" /\ container = "gone" /\ cli' = "exited" /\ UNCHANGED container => CliExit
           /\ container = "exited" /\ container' = "gone" /\ UNCHANGED cli => DockerStep
  BY DEF DockerStep, Create, Start, AutoRemove, CliExit

\* The same for the program.
LEMMA ProgramGuards ==
    ASSUME container = "running", UNCHANGED <<faults, judge, cli>>
    PROVE  /\ prog = "idle" /\ prog' = "ending"
                /\ UNCHANGED <<inPipe, outPipe, container, eof, written, ended>> => ProgramStep
           /\ prog = "ending" /\ container' = "exited" /\ prog' = "ended" /\ ended' = "success"
                /\ UNCHANGED <<inPipe, outPipe, eof, written>> => ProgramStep
           /\ prog = "reading" /\ inPipe > 0 /\ inPipe' = inPipe - 1 /\ prog' = "idle"
                /\ UNCHANGED <<outPipe, container, eof, written, ended>> => ProgramStep
           /\ prog = "reading" /\ (Cut \/ (inPipe = 0 /\ stdin = "closed")) /\ eof' = TRUE /\ prog' = "idle"
                /\ UNCHANGED <<inPipe, outPipe, container, written, ended>> => ProgramStep
           /\ prog = "writing" /\ (outPipe < Capacity \/ Cut) /\ prog' = "idle"
                /\ outPipe' = (IF Cut THEN outPipe ELSE outPipe + 1) /\ written' = written + 1
                /\ UNCHANGED <<inPipe, container, eof, ended>> => ProgramStep
  BY DEF ProgramStep, Choose, ReadInput, WriteOutput, Exit, Ends, docker

\* A call that has not returned can go on without a timeout or a fault, unless
\* its program loops, however small the pipes and in whatever order the program
\* reads and writes (try_join of feed and read, copy into sink).
THEOREM CallIsNeverStuck == Spec => []NeverStuck
<1>1. IInv => NeverStuck
  <2> SUFFICES ASSUME IInv, call # "returned", prog # "looping"
               PROVE  CanCall \/ CanPipe \/ CanDocker \/ CanProgram
    BY DEF NeverStuck
  <2> USE SandboxAssumption DEF IInv, TypeOK
  <2>1. CASE call # "piping"
    BY <2>1 DEF CanCall
  <2>2. CASE call = "piping" /\ cli \in {"exited", "lost"}
    BY <2>2 DEF CanCall, CanPipe, Heard
  <2>3. CASE call = "piping" /\ cli = "alive" /\ container # "running"
    BY <2>3 DEF CanDocker
  <2>4. CASE call = "piping" /\ cli = "alive" /\ container = "running"
    <3>1. prog # "ended"
      BY <2>4 DEF ProgramInv
    <3>2. CASE prog = "reading"
      BY <2>4, <3>2 DEF CanPipe, CanProgram
    <3>3. CASE prog = "writing"
      BY <2>4, <3>3 DEF CanPipe, CanProgram
    <3>4. CASE prog \in {"idle", "ending"}
      BY <2>4, <3>4 DEF CanProgram
    <3> QED
      BY <3>1, <3>2, <3>3, <3>4
  <2> QED
    BY <2>1, <2>2, <2>3, <2>4 DEF CliFollowsCall
<1> QED
  BY <1>1, CallInvariant, PTL

=============================================================================
