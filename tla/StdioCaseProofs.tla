-------------------------- MODULE StdioCaseProofs --------------------------
(***************************************************************************)
(* What holds of StdioCase for any letters, limit, expected output and     *)
(* program: the verdict on what the sandbox kept is the one the texts call *)
(* for, by the theorems of StdioProofs about the comparison.               *)
(***************************************************************************)
EXTENDS StdioCase, StdioProofs

TypeInv ==
    /\ expected \in Seq(Bytes) /\ Accepted(expected)
    /\ written \in Seq(Bytes)
    /\ verdict \in {"none"} \cup Verdicts

\* A verdict on the output is the comparison of what was kept of it.
ComparedInv ==
    /\ verdict = "passed" => same_output(expected, kept)
    /\ verdict = "wrong-answer" => ~ same_output(expected, kept)

\* Together they are inductive.
IInv == TypeInv /\ ComparedInv

\* What is kept is a start of what was written, all of it within the limit.
LEMMA KeptIsStart ==
    ASSUME TypeInv
    PROVE  \E k \in 0..Len(written) :
              kept = SubSeq(written, 1, k) /\ (Len(written) <= MaxOutput => kept = written)
<1>1. Len(written) \in Nat /\ MaxOutput \in Nat
  BY StdioCaseAssumption DEF TypeInv
<1>2. CASE Len(written) < MaxOutput
  <2>1. kept = SubSeq(written, 1, Len(written)) /\ kept = written
    BY <1>2 DEF kept, TypeInv
  <2>2. Len(written) \in 0..Len(written)
    BY <1>1
  <2>. QED
    BY <2>1, <2>2
<1>3. CASE ~ (Len(written) < MaxOutput)
  <2>1. kept = SubSeq(written, 1, MaxOutput) /\ MaxOutput \in 0..Len(written)
    BY <1>1, <1>3 DEF kept
  <2>2. Len(written) <= MaxOutput => kept = written
    <3>1. Len(written) <= MaxOutput => MaxOutput = Len(written)
      BY <1>1, <1>3
    <3>2. SubSeq(written, 1, Len(written)) = written
      BY DEF TypeInv
    <3>. QED
      BY <2>1, <3>1, <3>2
  <2>. QED
    BY <2>1, <2>2
<1>. QED
  BY <1>2, <1>3

\* The verdict of a run is the comparison, when it is one on the output.
LEMMA VerdictCompares ==
    ASSUME NEW success \in BOOLEAN, NEW output, NEW file
    PROVE  LET v == case_verdict(Exited(success, output), file)
           IN  /\ v \in {"passed", "wrong-answer", "crashed"}
               /\ v = "passed" => same_output(file, output)
               /\ v = "wrong-answer" => ~ same_output(file, output)
<1>. DEFINE o == Exited(success, output)
<1>1. o # TimedOut /\ o.success = success /\ o.stdout = output
  BY DEF Exited, TimedOut
<1>. HIDE DEF o
<1>2. case_verdict(o, file) =
         IF success THEN IF same_output(file, output) THEN "passed" ELSE "wrong-answer" ELSE "crashed"
  BY <1>1 DEF case_verdict
<1>. QED
  BY <1>2 DEF o

\* The initial states: nothing is written, and nothing judged.
LEMMA InitIInv == Init => IInv
<1>. SUFFICES ASSUME Init PROVE IInv
  OBVIOUS
<1>1. expected \in Seq(Bytes) /\ Accepted(expected)
  BY StdioCaseAssumption DEF Init, BoundedSeq, SeqOf
<1>2. written \in Seq(Bytes) /\ verdict = "none"
  BY DEF Init
<1>. QED
  BY <1>1, <1>2 DEF IInv, TypeInv, ComparedInv

\* A write comes before the verdict, and the verdict is given once.
LEMMA NextIInv ==
    ASSUME IInv, [Next]_vars
    PROVE  IInv'
<1>. USE DEF IInv, TypeInv, ComparedInv
<1>1. ASSUME NEW b \in Bytes, Write(b) PROVE IInv'
  <2>1. written' \in Seq(Bytes) /\ UNCHANGED <<expected, verdict>> /\ verdict = "none"
    BY <1>1 DEF Write
  <2>. QED
    BY <2>1 DEF Accepted
<1>2. ASSUME NEW success \in BOOLEAN, End(Exited(success, kept)) PROVE IInv'
  <2>1. /\ verdict' = case_verdict(Exited(success, kept), expected)
        /\ UNCHANGED <<expected, written>> /\ UNCHANGED kept
    BY <1>2 DEF End, kept
  <2>2. /\ verdict' \in {"passed", "wrong-answer", "crashed"}
        /\ verdict' = "passed" => same_output(expected, kept)
        /\ verdict' = "wrong-answer" => ~ same_output(expected, kept)
    BY <2>1, VerdictCompares
  <2>3. UNCHANGED same_output(expected, kept) /\ UNCHANGED Accepted(expected)
    BY <2>1
  <2>. QED
    BY <2>1, <2>2, <2>3 DEF Verdicts
<1>3. CASE End(TimedOut)
  <2>1. verdict' = "timed-out" /\ UNCHANGED <<expected, written>>
    BY <1>3 DEF End, case_verdict
  <2>. QED
    BY <2>1 DEF Verdicts, Accepted
<1>4. CASE UNCHANGED vars
  <2>1. UNCHANGED <<expected, written, verdict, kept>>
    BY <1>4 DEF vars, kept
  <2>2. UNCHANGED same_output(expected, kept) /\ UNCHANGED Accepted(expected)
    BY <2>1
  <2>. QED
    BY <2>1, <2>2
<1>. QED
  BY <1>1, <1>2, <1>3, <1>4 DEF Next

\* Types hold, and a verdict on the output is the comparison of what was kept.
THEOREM CaseInvariant == Spec => []IInv
<1>1. IInv /\ [Next]_vars => IInv'
  BY NextIInv
<1>. QED
  BY <1>1, InitIInv, PTL DEF Spec

\* Within the limit, passed means the expected text, for any output and file:
\* the lines that case_verdict compares say neither more nor less.
THEOREM WholeOutputIsCompared == Spec => []WholeIsCompared
<1>1. IInv => WholeIsCompared
  <2>. SUFFICES ASSUME IInv, verdict \in {"passed", "wrong-answer"}, Len(written) <= MaxOutput
                PROVE  verdict = "passed" <=> Text(written) = Text(expected)
    BY DEF WholeIsCompared
  <2>1. kept = written
    BY KeptIsStart DEF IInv
  <2>2. verdict = "passed" <=> same_output(expected, written)
    BY <2>1 DEF IInv, ComparedInv
  <2>. QED
    BY <2>2, SameOutputIsSameText DEF IInv, TypeInv
<1>. QED
  BY <1>1, CaseInvariant, PTL

\* Past the limit too, an output that passes starts with the expected text.
THEOREM PassedOutputStartsRight == Spec => []PassedStartsRight
<1>1. IInv => PassedStartsRight
  <2>. SUFFICES ASSUME IInv, verdict = "passed"
                PROVE  IsPrefix(Text(expected), Text(written))
    BY DEF PassedStartsRight
  <2>1. PICK k \in 0..Len(written) : kept = SubSeq(written, 1, k)
    BY KeptIsStart DEF IInv
  <2>2. expected \in Seq(Bytes) /\ written \in Seq(Bytes) /\ kept \in Seq(Bytes)
    <3>1. SubSeq(written, 1, k) \in Seq(Bytes)
      BY DEF IInv, TypeInv
    <3>. QED
      BY <2>1, <3>1 DEF IInv, TypeInv
  <2>3. Text(kept) = Text(expected)
    BY <2>2, SameOutputIsSameText DEF IInv, ComparedInv
  <2>4. IsPrefix(Text(kept), Text(written))
    BY <2>1, <2>2, TextOfStart
  <2>. QED
    BY <2>3, <2>4
<1>. QED
  BY <1>1, CaseInvariant, PTL

=============================================================================
