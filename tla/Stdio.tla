------------------------------- MODULE Stdio -------------------------------
(***************************************************************************)
(* The verdict of one standard I/O case: stdio.rs, operator by operator.   *)
(*                                                                         *)
(* A byte is a line feed, a blank (space, tab, carriage return, form feed: *)
(* what trim_ascii_end takes besides the line feed) or any other byte, the *)
(* vertical tab among them.                                                *)
(***************************************************************************)
EXTENDS Integers, Sequences, SequencesExt, FiniteSetsExt

NL == "newline"
Blank == "blank"
Whitespace == {NL, Blank}

Verdicts == {"passed", "wrong-answer", "crashed", "timed-out"}

trim_ascii_end(s) == SubSeq(s, 1, Max({0} \cup {i \in DOMAIN s : s[i] \notin Whitespace}))

\* split(|&byte| byte == b'\n'): one line more than there are line feeds.
split(s) ==
    FoldLeft(LAMBDA ls, b : IF b = NL THEN Append(ls, <<>>)
                                      ELSE [ls EXCEPT ![Len(ls)] = Append(@, b)],
             << <<>> >>, s)

\* Mutant: the lines are not trimmed one by one.
lines_EndOnly(output) == split(trim_ascii_end(output))

lines(output) ==
    LET ls == split(trim_ascii_end(output)) IN [i \in DOMAIN ls |-> trim_ascii_end(ls[i])]

\* Mutant: the comparison ends with the shorter side, as zip does.
same_output_Zip(expected, actual) ==
    \A i \in DOMAIN lines(expected) \cap DOMAIN lines(actual) : lines(expected)[i] = lines(actual)[i]

same_output(expected, actual) == lines(expected) = lines(actual)

\* An outcome is "timed-out", or an exit with its status and its stdout.
TimedOut == [kind |-> "timed-out"]
Exited(success, stdout) == [kind |-> "exited", success |-> success, stdout |-> stdout]

case_verdict(outcome, expected) ==
    CASE outcome = TimedOut -> "timed-out"
      [] outcome # TimedOut /\ ~outcome.success -> "crashed"
      [] outcome # TimedOut /\ outcome.success ->
            IF same_output(expected, outcome.stdout) THEN "passed" ELSE "wrong-answer"

-----------------------------------------------------------------------------
(* The reference the comparison is checked against *)

\* A byte counts when text follows on its line, or, for a line feed, anywhere.
Counts(s, i) ==
    \E j \in i..Len(s) :
        /\ s[j] \notin Whitespace
        /\ s[i] = NL \/ \A k \in i..j : s[k] # NL

\* The bytes that count, in their order.
Text(s) ==
    FoldLeftDomain(LAMBDA t, i : IF Counts(s, i) THEN Append(t, s[i]) ELSE t, <<>>, s)

=============================================================================
