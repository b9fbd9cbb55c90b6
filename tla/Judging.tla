------------------------------ MODULE Judging ------------------------------
(***************************************************************************)
(* judge(): the cases of an exercise are read from a directory, the source *)
(* is run on each, and the verdicts are collected.                         *)
(*                                                                         *)
(* A name is the rank of a file in the order of sort; a run of the sandbox *)
(* is one step (Sandbox shows what it returns).  The directory is one of a *)
(* release: nothing is written in it, and it may be deleted as a whole.    *)
(***************************************************************************)
EXTENDS Stdio

CONSTANTS Names,      \* ranks of the files, a set of numbers
          Inputs,     \* contents of the .in files
          Expected,   \* contents of the .out files
          Outputs,    \* what a run writes, within MAX_OUTPUT
          Absent,     \* no such file
          Refused,    \* a symbolic link, a directory, a file over MAX_CASE_FILE
          Vanishes    \* whether the directory may be deleted

ASSUME JudgingAssumption ==
    /\ Names \subseteq Nat
    /\ \A text \in Expected \cup Outputs : text \in Seq(ToSet(text))   \* bytes
    /\ Absent \notin Inputs \cup Expected /\ Refused \notin Inputs \cup Expected
    /\ Vanishes \in BOOLEAN

VARIABLES
    assessment,  \* the directory: what <name>.in and <name>.out are
    there,       \* whether it is
    pc,          \* "listing", "checking", "reading", "running", "ok" or "error"
    inputs,      \* read_cases: the .in files, sorted
    half,        \* the file being read: "in" or "out"
    input,       \* what was read of the .in file
    cases,       \* the cases read
    verdicts,    \* judge_cases
    runs,        \* history: what each run was given, and how it ended
    failed       \* history: whether the sandbox returned an error

vars == <<assessment, there, pc, inputs, half, input, cases, verdicts, runs, failed>>

Files(contents) == contents \cup {Absent, Refused}

Init ==
    /\ assessment \in [Names -> [in : Files(Inputs), out : Files(Expected)]]
    /\ there = TRUE
    /\ pc = "listing" /\ inputs = <<>> /\ half = "in" /\ input = Absent
    /\ cases = <<>> /\ verdicts = <<>> /\ runs = <<>> /\ failed = FALSE

-----------------------------------------------------------------------------
(* read_cases *)

Sorted(S) == SetToSortSeq(S, <)

\* What sort promises, of any set of files: each once, in their order.
ASSUME SortAssumption ==
    \A S \in SUBSET Names :
        /\ Sorted(S) \in Seq(Names)
        /\ \A n \in Names : n \in S <=> \E i \in DOMAIN Sorted(S) : Sorted(S)[i] = n
        /\ \A i, j \in DOMAIN Sorted(S) : i < j => Sorted(S)[i] < Sorted(S)[j]

\* Mutant: any file of a case counts.
Listed_Any == Sorted({n \in Names : assessment[n] # [in |-> Absent, out |-> Absent]})

\* read_dir, retain, sort.  A .in file counts whatever it is.
Listed == Sorted({n \in Names : assessment[n].in # Absent})

ListCases ==
    /\ pc = "listing"
    /\ inputs' = IF there THEN Listed ELSE <<>>
    /\ pc' = IF inputs' = <<>> THEN "error" ELSE "checking"
    /\ UNCHANGED <<assessment, there, half, input, cases, verdicts, runs, failed>>

\* The file that is read next, as it is on the disk.
File == IF there THEN assessment[inputs[Len(cases) + 1]][half] ELSE Absent

\* symlink_metadata: a regular file within the limit.
CheckFile ==
    /\ pc = "checking"
    /\ pc' = IF File \in {Absent, Refused} THEN "error" ELSE "reading"
    /\ UNCHANGED <<assessment, there, inputs, half, input, cases, verdicts, runs, failed>>

\* Mutant: a case that cannot be read is left out.
ReadFails_Skips ==
    /\ pc = "reading" /\ File = Absent
    /\ inputs' = SubSeq(inputs, 1, Len(cases)) \o SubSeq(inputs, Len(cases) + 2, Len(inputs))
    /\ pc' = IF inputs' = <<>> THEN "error"
             ELSE IF Len(inputs') = Len(cases) THEN "running" ELSE "checking"
    /\ half' = "in"
    /\ UNCHANGED <<assessment, there, input, cases, verdicts, runs, failed>>

\* Mutant: a file that is gone is waited for.
ReadFails_Waits == FALSE /\ UNCHANGED vars

ReadFails ==
    /\ pc = "reading" /\ File = Absent
    /\ pc' = "error"
    /\ UNCHANGED <<assessment, there, inputs, half, input, cases, verdicts, runs, failed>>

ReadInput ==
    /\ pc = "reading" /\ File # Absent /\ half = "in"
    /\ input' = File /\ half' = "out" /\ pc' = "checking"
    /\ UNCHANGED <<assessment, there, inputs, cases, verdicts, runs, failed>>

\* The last case read is followed by the first run.
ReadExpected ==
    /\ pc = "reading" /\ File # Absent /\ half = "out"
    /\ cases' = Append(cases, [input |-> input, expected |-> File])
    /\ half' = "in"
    /\ pc' = IF Len(cases') = Len(inputs) THEN "running" ELSE "checking"
    /\ UNCHANGED <<assessment, there, inputs, input, verdicts, runs, failed>>

-----------------------------------------------------------------------------
(* judge_cases *)

Case == cases[Len(verdicts) + 1]

\* Mutant: every run is compared with the first case.
RunCase_First(outcome) ==
    /\ pc = "running"
    /\ verdicts' = Append(verdicts, case_verdict(outcome, cases[1].expected))
    /\ runs' = Append(runs, [input |-> Case.input, outcome |-> outcome])
    /\ pc' = IF Len(verdicts') = Len(cases) THEN "ok" ELSE "running"
    /\ UNCHANGED <<assessment, there, inputs, half, input, cases, failed>>

RunCase(outcome) ==
    /\ pc = "running"
    /\ verdicts' = Append(verdicts, case_verdict(outcome, Case.expected))
    /\ runs' = Append(runs, [input |-> Case.input, outcome |-> outcome])
    /\ pc' = IF Len(verdicts') = Len(cases) THEN "ok" ELSE "running"
    /\ UNCHANGED <<assessment, there, inputs, half, input, cases, failed>>

\* The error of run_in_sandbox ends the job: no verdict is returned.
SandboxFails ==
    /\ pc = "running"
    /\ failed' = TRUE /\ pc' = "error"
    /\ UNCHANGED <<assessment, there, inputs, half, input, cases, verdicts, runs>>

-----------------------------------------------------------------------------
\* The release is deleted, external.
Vanish ==
    /\ Vanishes /\ there
    /\ there' = FALSE
    /\ UNCHANGED <<assessment, pc, inputs, half, input, cases, verdicts, runs, failed>>

Outcomes == {TimedOut} \cup {Exited(success, output) : success \in BOOLEAN, output \in Outputs}

Step ==
    \/ ListCases \/ CheckFile \/ ReadFails \/ ReadInput \/ ReadExpected
    \/ (\E outcome \in Outcomes : RunCase(outcome))
    \/ SandboxFails

Next == Step \/ Vanish

Spec == Init /\ [][Next]_vars

\* A read ends, and so does a run: its timeout fires (Sandbox, CallReturns).
FairSpec == Spec /\ WF_vars(Step)

-----------------------------------------------------------------------------
(* Properties *)

\* The verdicts returned are one for each case of the exercise, at least one, in
\* the order of the names, whatever vanishes on the way: never those of a part
\* of the cases (read_cases, judge_cases).
EveryCaseIsJudged ==
    pc = "ok" =>
        /\ ToSet(inputs) = {n \in Names : assessment[n].in # Absent} /\ inputs # <<>>
        /\ \A i, j \in DOMAIN inputs : i < j => inputs[i] < inputs[j]
        /\ Len(verdicts) = Len(inputs)

\* Each verdict is that of its own run, on the input and the expected output of
\* the same name: passed for a success with the expected text, and nothing else.
VerdictsAreTheirs ==
    \A i \in DOMAIN verdicts :
        LET file == assessment[inputs[i]]
            outcome == runs[i].outcome
        IN  /\ runs[i].input = file.in
            /\ verdicts[i] = "passed" <=>
                 outcome # TimedOut /\ outcome.success /\ Text(outcome.stdout) = Text(file.out)
            /\ verdicts[i] = "timed-out" <=> outcome = TimedOut

\* A job ends without verdicts only for a reason: an exercise without cases or
\* with a file that is missing or refused, a deleted release, a failed sandbox.
ErrorIsDue ==
    pc = "error" =>
        \/ failed \/ ~there
        \/ \A n \in Names : assessment[n].in = Absent
        \/ \E n \in Names : assessment[n].in # Absent /\
              (assessment[n].in = Refused \/ assessment[n].out \in {Absent, Refused})

\* judge() ends: what the fairness of JobQueue assumes of it.
JudgingEnds == <>(pc \in {"ok", "error"})

=============================================================================
