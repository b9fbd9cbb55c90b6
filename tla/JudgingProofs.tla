--------------------------- MODULE JudgingProofs ---------------------------
(***************************************************************************)
(* What holds of Judging for any files, inputs, outputs and outcomes: all  *)
(* cases or none, each verdict from its own run, and errors with a reason. *)
(* That a passed case has the expected text is the comparison's theorem    *)
(* (SameOutputIsSameText of StdioProofs), used for each case of a job.     *)
(***************************************************************************)
EXTENDS Judging, StdioProofs

Kept(contents) == contents \ {Absent, Refused}

TypeInv ==
    /\ assessment \in [Names -> [in : Files(Inputs), out : Files(Expected)]]
    /\ there \in BOOLEAN /\ failed \in BOOLEAN
    /\ pc \in {"listing", "checking", "reading", "running", "ok", "error"}
    /\ half \in {"in", "out"}
    /\ inputs \in Seq(Names)
    /\ input \in Inputs \cup {Absent}
    /\ cases \in Seq([input : Inputs, expected : Expected])
    /\ verdicts \in Seq(Verdicts)
    /\ runs \in Seq([input : Inputs, outcome : Outcomes])

\* How far the call is: what was listed, and how many cases and verdicts there are.
StageInv ==
    /\ pc = "listing" => inputs = <<>> /\ cases = <<>> /\ verdicts = <<>> /\ half = "in"
    /\ pc \in {"checking", "reading", "running", "ok"} => inputs = Listed /\ inputs # <<>>
    /\ pc \in {"checking", "reading"} => Len(cases) < Len(inputs) /\ verdicts = <<>>
    /\ pc \in {"running", "ok"} => Len(cases) = Len(inputs)
    /\ pc = "running" => Len(verdicts) < Len(cases)
    /\ pc = "ok" => Len(verdicts) = Len(cases)
    /\ Len(verdicts) <= Len(cases) /\ Len(runs) = Len(verdicts) /\ Len(cases) <= Len(inputs)

\* The file whose check has passed is there, and so is the first half of a case.
FileInv ==
    pc \in {"checking", "reading"} =>
        LET file == assessment[inputs[Len(cases) + 1]]
        IN  /\ file.in # Absent
            /\ half = "out" => input = file.in /\ file.in # Refused
            /\ pc = "reading" => file[half] \notin {Absent, Refused}

\* Cases, runs and verdicts are those of the files of the same place.
PlaceInv ==
    /\ \A i \in DOMAIN cases :
          cases[i] = [input |-> assessment[inputs[i]].in, expected |-> assessment[inputs[i]].out]
    /\ \A i \in DOMAIN verdicts :
          /\ runs[i].input = assessment[inputs[i]].in
          /\ verdicts[i] = case_verdict(runs[i].outcome, assessment[inputs[i]].out)

\* Together they are inductive.
IInv == TypeInv /\ StageInv /\ FileInv /\ PlaceInv /\ ErrorIsDue

\* The verdict of a case is one of the four.
LEMMA VerdictType ==
    ASSUME NEW outcome \in Outcomes, NEW expected
    PROVE  case_verdict(outcome, expected) \in Verdicts
  BY DEF case_verdict, Verdicts, Outcomes, TimedOut, Exited

\* A directory lists its .in files, each once, in their order.
LEMMA ListedFiles ==
    ASSUME TypeInv
    PROVE  /\ Listed \in Seq(Names)
           /\ \A n \in Names : assessment[n].in # Absent <=> \E i \in DOMAIN Listed : Listed[i] = n
           /\ \A i, j \in DOMAIN Listed : i < j => Listed[i] < Listed[j]
<1> DEFINE S == {n \in Names : assessment[n].in # Absent}
<1>1. S \in SUBSET Names /\ Listed = Sorted(S) /\ \A n \in Names : n \in S <=> assessment[n].in # Absent
  BY DEF Listed
<1> HIDE DEF S
<1> QED
  BY <1>1, SortAssumption

\* The initial states.
LEMMA InitIInv == Init => IInv
<1> SUFFICES ASSUME Init PROVE IInv
  OBVIOUS
<1> USE DEF Init
<1>1. TypeInv
  <2>1. \A S : <<>> \in Seq(S)
    OBVIOUS
  <2>2. /\ inputs \in Seq(Names) /\ verdicts \in Seq(Verdicts)
        /\ cases \in Seq([input : Inputs, expected : Expected])
        /\ runs \in Seq([input : Inputs, outcome : Outcomes])
    BY <2>1
  <2> QED
    BY <2>2 DEF TypeInv
<1>2. StageInv /\ FileInv /\ ErrorIsDue
  BY DEF StageInv, FileInv, ErrorIsDue
<1>3. PlaceInv
  BY DEF PlaceInv
<1> QED
  BY <1>1, <1>2, <1>3 DEF IInv

\* Every step keeps the types.
LEMMA TypeStep ==
    ASSUME IInv, [Next]_vars
    PROVE  TypeInv'
<1> USE DEF IInv, TypeInv
<1>1. CASE ListCases
  BY <1>1, ListedFiles DEF ListCases
<1>2. CASE CheckFile \/ ReadFails \/ SandboxFails \/ Vanish \/ UNCHANGED vars
  BY <1>2 DEF CheckFile, ReadFails, SandboxFails, Vanish, vars
<1>3. ASSUME ReadInput \/ ReadExpected
      PROVE  /\ there /\ inputs[Len(cases) + 1] \in Names
             /\ File = assessment[inputs[Len(cases) + 1]][half]
             /\ File \in IF half = "in" THEN Kept(Inputs) ELSE Kept(Expected)
             /\ half = "out" => input \in Inputs
  <2>1. inputs[Len(cases) + 1] \in Names
    BY <1>3 DEF ReadInput, ReadExpected, StageInv
  <2>2. there /\ File = assessment[inputs[Len(cases) + 1]][half] /\ pc = "reading"
    BY <1>3 DEF ReadInput, ReadExpected, File
  <2>3. assessment[inputs[Len(cases) + 1]][half] \notin {Absent, Refused}
    BY <2>2 DEF FileInv
  <2>4. assessment[inputs[Len(cases) + 1]] \in [in : Files(Inputs), out : Files(Expected)]
    BY <2>1
  <2>5. half = "in" => File \in Kept(Inputs)
    BY <2>2, <2>3, <2>4 DEF Files, Kept
  <2>6. half = "out" => File \in Kept(Expected)
    BY <2>2, <2>3, <2>4 DEF Files, Kept
  <2>7. half = "out" => input \in Inputs
    BY <2>2, <2>4 DEF FileInv, Files
  <2> QED
    BY <2>1, <2>2, <2>5, <2>6, <2>7
<1>4. CASE ReadInput
  BY <1>3, <1>4 DEF ReadInput, Kept
<1>5. CASE ReadExpected
  BY <1>3, <1>5 DEF ReadExpected, Kept
<1>6. ASSUME NEW outcome \in Outcomes, RunCase(outcome) PROVE TypeInv'
  <2>1. Case \in [input : Inputs, expected : Expected]
    <3>1. Len(verdicts) + 1 \in DOMAIN cases
      BY <1>6 DEF RunCase, StageInv
    <3>2. \A S : cases \in Seq(S) => cases[Len(verdicts) + 1] \in S
      BY <3>1
    <3> QED
      BY <3>2 DEF Case
  <2> QED
    BY <1>6, <2>1, VerdictType DEF RunCase
<1> QED
  BY <1>1, <1>2, <1>4, <1>5, <1>6 DEF Next, Step

\* Every step keeps the stage.
LEMMA StageStep ==
    ASSUME IInv, [Next]_vars, TypeInv'
    PROVE  StageInv'
<1> USE DEF IInv, TypeInv, StageInv
<1>0. UNCHANGED assessment => UNCHANGED Listed
  BY DEF Listed
<1>1. CASE ListCases
  BY <1>0, <1>1, ListedFiles DEF ListCases
<1>2. CASE CheckFile \/ ReadFails \/ SandboxFails \/ Vanish \/ UNCHANGED vars
  BY <1>0, <1>2 DEF CheckFile, ReadFails, SandboxFails, Vanish, vars
<1>3. CASE ReadInput \/ ReadExpected
  BY <1>0, <1>3 DEF ReadInput, ReadExpected
<1>4. ASSUME NEW outcome \in Outcomes, RunCase(outcome) PROVE StageInv'
  BY <1>0, <1>4 DEF RunCase
<1> QED
  BY <1>1, <1>2, <1>3, <1>4 DEF Next, Step

\* Every step keeps the file at hand.
LEMMA FileStep ==
    ASSUME IInv, [Next]_vars, TypeInv', StageInv'
    PROVE  FileInv'
<1> USE DEF IInv, TypeInv, StageInv, FileInv
<1>1. ASSUME NEW i \in DOMAIN Listed
      PROVE  Listed[i] \in Names /\ assessment[Listed[i]].in # Absent
  BY ListedFiles
<1>2. ASSUME pc = "checking" \/ pc = "reading"
      PROVE  inputs[Len(cases) + 1] \in Names /\ Len(cases) + 1 \in DOMAIN inputs
  BY <1>2
<1>3. CASE ListCases
  BY <1>1, <1>3 DEF ListCases
<1>4. CASE CheckFile
  BY <1>4 DEF CheckFile, File
<1>5. CASE ReadFails \/ SandboxFails \/ Vanish \/ UNCHANGED vars
  BY <1>5 DEF ReadFails, SandboxFails, Vanish, vars
<1>6. CASE ReadInput
  BY <1>6 DEF ReadInput, File
<1>7. CASE ReadExpected
  <2>1. pc' = "checking" => Len(cases') + 1 \in DOMAIN inputs /\ half' = "in"
    BY <1>7 DEF ReadExpected
  <2> QED
    BY <1>1, <1>7, <2>1 DEF ReadExpected
<1>8. ASSUME NEW outcome \in Outcomes, RunCase(outcome) PROVE FileInv'
  BY <1>8 DEF RunCase
<1> QED
  BY <1>3, <1>4, <1>5, <1>6, <1>7, <1>8 DEF Next, Step

\* Every step keeps what was read and judged in its place.
LEMMA PlaceStep ==
    ASSUME IInv, [Next]_vars, TypeInv', StageInv'
    PROVE  PlaceInv'
<1> USE DEF IInv, TypeInv, StageInv, PlaceInv
<1>1. CASE ListCases
  BY <1>1 DEF ListCases
<1>2. CASE CheckFile \/ ReadFails \/ SandboxFails \/ Vanish \/ ReadInput \/ UNCHANGED vars
  BY <1>2 DEF CheckFile, ReadFails, SandboxFails, Vanish, ReadInput, vars
<1>3. CASE ReadExpected
  <2>1. /\ pc = "reading" /\ half = "out" /\ File = assessment[inputs[Len(cases) + 1]].out
        /\ input = assessment[inputs[Len(cases) + 1]].in
    BY <1>3 DEF ReadExpected, File, FileInv
  <2>2. /\ cases' = Append(cases, [input |-> input, expected |-> File])
        /\ UNCHANGED <<assessment, inputs, verdicts, runs>>
    BY <1>3 DEF ReadExpected
  <2>3. ASSUME NEW i \in DOMAIN cases'
        PROVE  cases'[i] = [input |-> assessment[inputs[i]].in, expected |-> assessment[inputs[i]].out]
    <3>1. CASE i = Len(cases) + 1
      BY <2>1, <2>2, <3>1
    <3>2. CASE i # Len(cases) + 1
      BY <2>2, <3>2
    <3> QED
      BY <3>1, <3>2
  <2> QED
    BY <2>2, <2>3
<1>4. ASSUME NEW outcome \in Outcomes, RunCase(outcome) PROVE PlaceInv'
  <2> DEFINE n == Len(verdicts) + 1
  <2>1. n \in DOMAIN cases
    BY <1>4 DEF RunCase
  <2>2. /\ Case.input = assessment[inputs[n]].in
        /\ Case.expected = assessment[inputs[n]].out
    BY <2>1 DEF Case
  <2>3. /\ verdicts' = Append(verdicts, case_verdict(outcome, Case.expected))
        /\ runs' = Append(runs, [input |-> Case.input, outcome |-> outcome])
        /\ UNCHANGED <<assessment, inputs, cases>>
    BY <1>4 DEF RunCase
  <2>4. ASSUME NEW i \in DOMAIN verdicts'
        PROVE  /\ runs'[i].input = assessment[inputs[i]].in
               /\ verdicts'[i] = case_verdict(runs'[i].outcome, assessment[inputs[i]].out)
    <3>1. CASE i = n
      <4>1. runs'[n] = [input |-> Case.input, outcome |-> outcome]
        BY <2>3
      <4>2. verdicts'[n] = case_verdict(outcome, Case.expected)
        BY <2>3
      <4> QED
        BY <2>2, <3>1, <4>1, <4>2
    <3>2. CASE i # n
      <4>1. i \in DOMAIN verdicts /\ verdicts'[i] = verdicts[i]
        BY <2>3, <3>2
      <4>2. runs'[i] = runs[i]
        BY <2>3, <4>1
      <4> QED
        BY <4>1, <4>2
    <3> QED
      BY <3>1, <3>2
  <2> QED
    BY <2>3, <2>4
<1> QED
  BY <1>1, <1>2, <1>3, <1>4 DEF Next, Step

\* An error has its reason in the directory, its deletion, or the sandbox.
LEMMA ErrorStep ==
    ASSUME IInv, [Next]_vars
    PROVE  ErrorIsDue'
<1> USE DEF IInv, TypeInv
<1>1. CASE ListCases
  <2>1. pc' = "error" /\ there => \A n \in Names : assessment[n].in = Absent
    BY <1>1, ListedFiles DEF ListCases
  <2> QED
    BY <1>1, <2>1 DEF ListCases, ErrorIsDue
<1>2. CASE CheckFile
  <2>1. inputs[Len(cases) + 1] \in Names /\ assessment[inputs[Len(cases) + 1]].in # Absent
    BY <1>2 DEF CheckFile, StageInv, FileInv
  <2>2. half = "out" => assessment[inputs[Len(cases) + 1]].in # Refused
    BY <1>2 DEF CheckFile, FileInv
  <2> QED
    BY <1>2, <2>1, <2>2 DEF CheckFile, File, ErrorIsDue
<1>3. CASE ReadFails
  BY <1>3 DEF ReadFails, File, FileInv, ErrorIsDue
<1>4. CASE SandboxFails \/ Vanish \/ UNCHANGED vars
  BY <1>4 DEF SandboxFails, Vanish, vars, ErrorIsDue
<1>5. CASE ReadInput \/ ReadExpected \/ \E outcome \in Outcomes : RunCase(outcome)
  BY <1>5 DEF ReadInput, ReadExpected, RunCase, ErrorIsDue
<1> QED
  BY <1>1, <1>2, <1>3, <1>4, <1>5 DEF Next, Step

\* Whatever vanishes on the way, types, stages, files and places agree.
THEOREM JudgingInvariant == Spec => []IInv
<1>1. IInv /\ [Next]_vars => IInv'
  BY TypeStep, StageStep, FileStep, PlaceStep, ErrorStep DEF IInv
<1> QED
  BY <1>1, InitIInv, PTL DEF Spec

\* The verdicts of a job are one for each case of its exercise, in their order.
THEOREM AllCasesOrNone == Spec => []EveryCaseIsJudged
<1>1. IInv => EveryCaseIsJudged
  <2> SUFFICES ASSUME IInv, pc = "ok"
               PROVE  /\ ToSet(inputs) = {n \in Names : assessment[n].in # Absent} /\ inputs # <<>>
                      /\ \A i, j \in DOMAIN inputs : i < j => inputs[i] < inputs[j]
                      /\ Len(verdicts) = Len(inputs)
    BY DEF EveryCaseIsJudged
  <2>1. inputs = Listed /\ inputs # <<>> /\ Len(verdicts) = Len(inputs)
    BY DEF IInv, StageInv
  <2>2. ToSet(inputs) = {n \in Names : assessment[n].in # Absent}
    BY <2>1, ListedFiles DEF IInv, ToSet
  <2> QED
    BY <2>1, <2>2, ListedFiles DEF IInv
<1> QED
  BY <1>1, JudgingInvariant, PTL

\* A job that ends without verdicts has a reason to.
THEOREM ErrorsHaveReasons == Spec => []ErrorIsDue
<1>1. IInv => ErrorIsDue
  BY DEF IInv
<1> QED
  BY <1>1, JudgingInvariant, PTL

\* What the comparison of judge_cases means, of the files and outputs of a job.
LEMMA ComparisonOfFiles ==
    ASSUME NEW expected \in Expected, NEW output \in Outputs
    PROVE  same_output(expected, output) <=> Text(output) = Text(expected)
<1>. DEFINE B == ToSet(expected) \cup ToSet(output)
<1>1. expected \in Seq(ToSet(expected)) /\ output \in Seq(ToSet(output))
  BY JudgingAssumption
<1>2. \A S, T : S \subseteq T => Seq(S) \subseteq Seq(T)
  OBVIOUS
<1>3. expected \in Seq(B) /\ output \in Seq(B)
  BY <1>1, <1>2
<1>. HIDE DEF B
<1>. QED
  BY <1>3, SameOutputIsSameText

\* Each verdict is that of its own run, on the files of its own name, and passed
\* means that the texts are equal.
THEOREM VerdictsOfTheirRuns == Spec => []VerdictsAreTheirs
<1>1. IInv => VerdictsAreTheirs
  <2> SUFFICES ASSUME IInv, NEW i \in DOMAIN verdicts
               PROVE  LET file == assessment[inputs[i]]
                          outcome == runs[i].outcome
                      IN  /\ runs[i].input = file.in
                          /\ verdicts[i] = "passed" <=>
                               outcome # TimedOut /\ outcome.success /\ Text(outcome.stdout) = Text(file.out)
                          /\ verdicts[i] = "timed-out" <=> outcome = TimedOut
    BY DEF VerdictsAreTheirs
  <2> DEFINE outcome == runs[i].outcome
             out == assessment[inputs[i]].out
  <2>1. i \in DOMAIN runs /\ i \in DOMAIN cases
    BY DEF IInv, TypeInv, StageInv
  <2>2. outcome \in Outcomes
    <3>1. \A S : runs \in Seq(S) => runs[i] \in S
      BY <2>1
    <3> QED
      BY <3>1 DEF IInv, TypeInv
  <2>3. out \in Expected
    <3>1. \A S : cases \in Seq(S) => cases[i] \in S
      BY <2>1
    <3>2. cases[i].expected \in Expected
      BY <3>1 DEF IInv, TypeInv
    <3> QED
      BY <2>1, <3>2 DEF IInv, PlaceInv
  <2>4. runs[i].input = assessment[inputs[i]].in /\ verdicts[i] = case_verdict(outcome, out)
    BY DEF IInv, PlaceInv
  <2> HIDE DEF outcome, out
  <2>5. CASE outcome = TimedOut
    <3>1. case_verdict(outcome, out) = "timed-out"
      BY <2>5 DEF case_verdict
    <3> QED
      BY <2>4, <2>5, <3>1 DEF outcome, out
  <2>6. CASE outcome # TimedOut
    <3>1. PICK success \in BOOLEAN, output \in Outputs : outcome = Exited(success, output)
      BY <2>2, <2>6 DEF Outcomes
    <3>2. outcome.success = success /\ outcome.stdout = output
      BY <3>1 DEF Exited
    <3>3. CASE success
      <4>1. case_verdict(outcome, out) = IF same_output(out, output) THEN "passed" ELSE "wrong-answer"
        BY <2>6, <3>2, <3>3 DEF case_verdict
      <4>2. same_output(out, output) <=> Text(output) = Text(out)
        BY <2>3, <3>1, ComparisonOfFiles
      <4>3. verdicts[i] = "passed" <=> Text(output) = Text(out)
        BY <2>4, <4>1, <4>2
      <4>4. verdicts[i] # "timed-out"
        BY <2>4, <4>1
      <4> QED
        BY <2>4, <2>6, <3>2, <3>3, <4>3, <4>4 DEF outcome, out
    <3>4. CASE ~success
      <4>1. case_verdict(outcome, out) = "crashed"
        BY <2>6, <3>2, <3>4 DEF case_verdict
      <4> QED
        BY <2>4, <2>6, <3>2, <3>4, <4>1 DEF outcome, out
    <3> QED
      BY <3>3, <3>4
  <2> QED
    BY <2>5, <2>6
<1> QED
  BY <1>1, JudgingInvariant, PTL

-----------------------------------------------------------------------------
(* judge() is a bounded number of steps *)

\* What is left to do at pc of n cases, c of them read and v run: to check and
\* read two files of each case, to run it, and for the release, to be deleted.
Left(t, p, h, n, c, v) ==
    (IF t THEN 1 ELSE 0) +
        (CASE p = "listing" -> 2 + 5 * n
           [] p = "checking" -> 1 + 4 * (n - c) - (IF h = "out" THEN 2 ELSE 0) + n
           [] p = "reading" -> 4 * (n - c) - (IF h = "out" THEN 2 ELSE 0) + n
           [] p = "running" -> 1 + n - v
           [] OTHER -> 0)

Work == Left(there, pc, half, Len(Listed), Len(cases), Len(verdicts))

StepsRunOut == [][Work' < Work /\ Work \in Nat]_vars

\* Whatever step is taken, less is left to do.
LEMMA WorkStep ==
    ASSUME IInv, Next
    PROVE  Work' < Work /\ Work \in Nat
<1>1. Listed' = Listed /\ Len(Listed) \in Nat
  <2>1. UNCHANGED assessment
    BY DEF Next, Step, ListCases, CheckFile, ReadFails, ReadInput, ReadExpected, RunCase, SandboxFails, Vanish
  <2>. QED
    BY <2>1, ListedFiles DEF Listed, IInv
<1>. DEFINE n == Len(Listed)
            c == Len(cases)
            v == Len(verdicts)
<1>2. /\ n \in Nat /\ c \in Nat /\ v \in Nat
      /\ pc \in {"checking", "reading"} => c < n /\ v = 0
      /\ pc = "running" => c = n /\ v < n
      /\ pc = "listing" => half = "in"
  <2>1. c \in Nat /\ v \in Nat /\ Len(<<>>) = 0
    BY DEF IInv, TypeInv
  <2>. QED
    BY <1>1, <2>1 DEF IInv, StageInv
<1>3. Work = Left(there, pc, half, n, c, v) /\ Work' = Left(there', pc', half', n, c', v')
  BY <1>1 DEF Work
<1>4. CASE ListCases
  <2>1. /\ c' = c /\ v' = v /\ UNCHANGED <<there, half>> /\ pc = "listing"
        /\ pc' \in {"checking", "error"} /\ c = 0
    BY <1>4 DEF ListCases, IInv, StageInv
  <2>. HIDE DEF n, c, v
  <2>. QED
    BY <1>2, <1>3, <2>1 DEF Left
<1>5. CASE CheckFile
  <2>1. /\ c' = c /\ v' = v /\ UNCHANGED <<there, half>> /\ pc = "checking"
        /\ pc' \in {"reading", "error"}
    BY <1>5 DEF CheckFile
  <2>. HIDE DEF n, c, v
  <2>. QED
    BY <1>2, <1>3, <2>1 DEF Left
<1>6. CASE ReadFails \/ SandboxFails
  <2>1. pc \in {"reading", "running"} /\ pc' = "error" /\ UNCHANGED there
    BY <1>6 DEF ReadFails, SandboxFails
  <2>. HIDE DEF n, c, v
  <2>. QED
    BY <1>2, <1>3, <2>1 DEF Left
<1>7. CASE ReadInput
  <2>1. /\ c' = c /\ v' = v /\ UNCHANGED there
        /\ pc = "reading" /\ half = "in" /\ pc' = "checking" /\ half' = "out"
    BY <1>7 DEF ReadInput
  <2>. HIDE DEF n, c, v
  <2>. QED
    BY <1>2, <1>3, <2>1 DEF Left
<1>8. CASE ReadExpected
  <2>1. /\ v' = v /\ UNCHANGED there
        /\ pc = "reading" /\ half = "out" /\ pc' \in {"checking", "running"} /\ half' = "in"
    BY <1>8 DEF ReadExpected
  <2>2. c' = c + 1
    BY <1>8 DEF ReadExpected, IInv, TypeInv
  <2>. HIDE DEF n, c, v
  <2>. QED
    BY <1>2, <1>3, <2>1, <2>2 DEF Left
<1>9. ASSUME NEW outcome \in Outcomes, RunCase(outcome) PROVE Work' < Work /\ Work \in Nat
  <2>1. c' = c /\ UNCHANGED <<there, half>> /\ pc = "running" /\ pc' \in {"ok", "running"}
    BY <1>9 DEF RunCase
  <2>2. v' = v + 1
    <3>1. verdicts' = Append(verdicts, case_verdict(outcome, Case.expected))
      BY <1>9 DEF RunCase
    <3>. QED
      BY <3>1 DEF IInv, TypeInv
  <2>. HIDE DEF n, c, v
  <2>. QED
    BY <1>2, <1>3, <2>1, <2>2 DEF Left
<1>10. CASE Vanish
  <2>1. c' = c /\ v' = v /\ UNCHANGED <<pc, half>> /\ there /\ ~ there'
    BY <1>10 DEF Vanish
  <2>. HIDE DEF n, c, v
  <2>. QED
    BY <1>2, <1>3, <2>1 DEF Left
<1>. QED
  BY <1>4, <1>5, <1>6, <1>7, <1>8, <1>9, <1>10 DEF Next, Step

\* However many cases an exercise has, judging it is a bounded number of steps:
\* no file is read and no case is run over and over (read_cases, judge_cases).
THEOREM JudgingIsFinite == Spec => StepsRunOut
<1>1. IInv /\ [Next]_vars => [Work' < Work /\ Work \in Nat]_vars
  BY WorkStep
<1>. QED
  BY <1>1, JudgingInvariant, PTL DEF Spec, StepsRunOut

=============================================================================
