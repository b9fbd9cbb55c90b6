------------------------------ MODULE Content ------------------------------
(***************************************************************************)
(* The gate every read of an exercise goes through (packages/content/src/  *)
(* gate.rs, release.rs, exercise.rs), step by step, while instructors move *)
(* dates and content is published, switched and pruned around it.          *)
(*                                                                         *)
(* Releases and the pointer are written by a part of the publisher that is *)
(* not in the repository yet: it is modelled by what the reader relies on, *)
(* releases that never change and a pointer that is rewritten in place and *)
(* only to a release that is there.                                        *)
(***************************************************************************)
EXTENDS Gate

CONSTANTS Students,
          Revisions,      \* hashes of releases, as bytes
          Contents,       \* content repositories that may be published
          Asked,          \* identifiers a caller may ask for
          Entered,        \* schedules an instructor may enter
          MaxClock        \* bound on the clock

\* A revision is a hash: hexadecimal, and as long as any other.
ASSUME ContentAssumption ==
    /\ IsFiniteSet(Students) /\ Entered \subseteq Schedules /\ MaxClock \in Nat
    /\ Revisions \subseteq Seq(HexDigits)
    /\ \A q, r \in Revisions : Len(q) = Len(r) /\ Len(q) > 0

VARIABLES
    clock,
    schedule,   \* schedule[st]: the dates of a student, in the database
    pointer,    \* the bytes of the file `current`, or NoFile
    releases,   \* the releases on the disk: a content for each revision
    pruned,     \* history: the revisions deleted
    (* one call of accessible_exercise *)
    pc,         \* "idle", "pointer", "directory", "schedule" or "answered"
    args,       \* its arguments: the identifier, the schedule and now
    found,      \* what active_release returned
    answer,     \* what the call returns
    moments     \* history: what each instant of the call would have answered

world == <<clock, schedule, pointer, releases, pruned>>
call == <<pc, args, found, answer, moments>>
vars == <<world, call>>

\* What is on the disk under a revision: nothing, or its exercises.
Disk(revision) == IF revision \in DOMAIN releases THEN releases[revision] ELSE <<>>

\* The whole call, done at once.
accessible_exercise ==
    LET release == active_release(pointer)
        dir == exercise_dir(Disk(release.path), release.path, args.id)
    IN  IF release.kind # "ok" THEN release ELSE Gated(dir, args.schedule, args.now)

NoArgs == [id |-> <<>>, schedule |-> None, now |-> 0]

Init ==
    /\ clock = 0
    /\ schedule \in [Students -> Entered]
    /\ pointer = NoFile /\ releases = <<>> /\ pruned = {}
    /\ pc = "idle" /\ args = NoArgs /\ found = Err("none") /\ answer = Err("none")
    /\ moments = {}

InCall == pc \in {"pointer", "directory", "schedule"}

\* Every instant of a call adds what the gate would answer then.
Remember == moments' = IF InCall THEN moments \cup {accessible_exercise'} ELSE moments

-----------------------------------------------------------------------------
(* The world around the gate, external *)

World == UNCHANGED <<pc, args, found, answer>> /\ Remember

Tick ==
    /\ clock < MaxClock /\ clock' = clock + 1
    /\ UNCHANGED <<schedule, pointer, releases, pruned>> /\ World

\* An instructor moves the dates of a student.
Reschedule(st, s) ==
    /\ schedule' = [schedule EXCEPT ![st] = s]
    /\ UNCHANGED <<clock, pointer, releases, pruned>> /\ World

\* A release is written; a revision stands for one content, for ever.
Publish(r, content) ==
    /\ r \notin DOMAIN releases \cup pruned
    /\ releases' = [q \in DOMAIN releases \cup {r} |-> IF q = r THEN content ELSE releases[q]]
    /\ UNCHANGED <<clock, schedule, pointer, pruned>> /\ World

\* The pointer is being rewritten: a reader sees the start of a line.
Tear(r, n) ==
    /\ r \in DOMAIN releases
    /\ pointer' = SubSeq(r, 1, n)
    /\ UNCHANGED <<clock, schedule, releases, pruned>> /\ World

Switch(r) ==
    /\ r \in DOMAIN releases
    /\ pointer' = Append(r, LF)
    /\ UNCHANGED <<clock, schedule, releases, pruned>> /\ World

\* Old releases go; the active one stays.
Prune(r) ==
    /\ r \in DOMAIN releases /\ pointer # Append(r, LF)
    /\ releases' = [q \in DOMAIN releases \ {r} |-> releases[q]]
    /\ pruned' = pruned \cup {r}
    /\ UNCHANGED <<clock, schedule, pointer>> /\ World

-----------------------------------------------------------------------------
(* accessible_exercise *)

\* The caller takes the time and the student's schedule first.
Call(st, id) ==
    /\ ~InCall
    /\ pc' = "pointer"
    /\ args' = [id |-> id, schedule |-> schedule[st], now |-> clock]
    /\ found' = Err("none") /\ answer' = Err("none")
    /\ UNCHANGED world
    /\ moments' = {accessible_exercise'}

Return(result) == pc' = "answered" /\ answer' = result

\* Mutant: the newest release on the disk, whatever the pointer says.
ReadPointer_Newest ==
    /\ pc = "pointer"
    /\ \E r \in DOMAIN releases : found' = Ok(r)
    /\ pc' = "directory" /\ UNCHANGED answer
    /\ UNCHANGED <<world, args, moments>>

ReadPointer ==
    /\ pc = "pointer"
    /\ found' = active_release(pointer)
    /\ IF found'.kind = "ok" THEN pc' = "directory" /\ UNCHANGED answer ELSE Return(found')
    /\ UNCHANGED <<world, args, moments>>

FindExercise ==
    /\ pc = "directory"
    /\ LET dir == exercise_dir(Disk(found.path), found.path, args.id)
       IN  IF dir.kind = "ok" THEN pc' = "schedule" /\ UNCHANGED answer ELSE Return(dir)
    /\ UNCHANGED <<world, args, found, moments>>

CheckSchedule ==
    /\ pc = "schedule"
    /\ Return(Gated(Ok(<<found.path, args.id>>), args.schedule, args.now))
    /\ UNCHANGED <<world, args, found, moments>>

-----------------------------------------------------------------------------
PublisherStep ==
    \E r \in Revisions :
        \/ \E content \in Contents : Publish(r, content)
        \/ \E n \in 0..Len(r) - 1 : Tear(r, n)
        \/ Switch(r) \/ Prune(r)

Next ==
    \/ Tick \/ (\E st \in Students, s \in Entered : Reschedule(st, s))
    \/ PublisherStep
    \/ \E st \in Students, id \in Asked : Call(st, id)
    \/ ReadPointer \/ FindExercise \/ CheckSchedule

Spec == Init /\ [][Next]_vars

-----------------------------------------------------------------------------
(* Properties *)

\* The call takes effect at one instant: its answer is the one the gate would
\* have given at once, at some moment between its start and its end, unless
\* the release it had read the name of was pruned meanwhile (gate.rs:19).
AnswersAMoment ==
    pc = "answered" =>
        answer \in moments \/ (answer = Err("not-found") /\ found.path \in pruned)

\* The instants a student may read at, counted from the rule of ADR-0020: as
\* many as the first of their dates has, and the extra time, from the shifted
\* start on; none when the dates have none.
Due(s) ==
    IF dates(s) = None THEN {}
    ELSE LET w == dates(s)
             more == s.accommodation # None /\ s.mode_applies_accommodation
             start == w.opens_at + (IF more THEN s.accommodation.start_shift ELSE 0)
             n == Cardinality(w.opens_at..(w.closes_at - 1))
             added == IF ~more \/ n = 0 THEN 0
                      ELSE IF s.accommodation.extra_time = "fixed" THEN s.accommodation.amount
                      ELSE (n * s.accommodation.amount) \div 100
         IN  start..(start + n + added - 1)

\* Nothing of an exercise is read outside of the student's time, and nobody is
\* sent away within it, at the time and with the dates the call was given, which
\* are not looked at again.
ReadWhenDue ==
    /\ answer.kind = "ok" => args.now \in Due(args.schedule)
    /\ answer.kind = "closed" => args.now \notin Due(args.schedule)

\* Once the session has closed, no student's window is open (session.rs): what
\* waits for it, grades first of all, gives nothing away.
SessionOutlivesStudents ==
    LET end == session_closes_at({schedule[st] : st \in Students})
    IN  end = None \/ clock >= end => \A st \in Students : ~is_open(schedule[st], clock)

\* What the publisher validated, the gate resolves: no entry of an accepted
\* content is refused as invalid, or is out of reach for its name (ADR-0023).
ValidatedIsResolved ==
    \A r \in DOMAIN releases : validate(releases[r]) =>
        \A name \in DOMAIN releases[r] :
            IsId(name) /\ exercise_dir(releases[r], r, name).kind = "ok"

=============================================================================
