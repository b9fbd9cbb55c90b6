----------------------------- MODULE StdioCase -----------------------------
(***************************************************************************)
(* One case byte by byte: an expected output that read_case_file accepts,  *)
(* a program that writes what it likes, a sandbox that keeps the start of  *)
(* it, and the verdict on what was kept.                                   *)
(***************************************************************************)
EXTENDS Stdio

CONSTANTS Letters,      \* bytes that are no white space
          MaxOutput,    \* MAX_OUTPUT, and MAX_CASE_FILE with it
          MaxWritten    \* bound on what the program writes and on files

ASSUME StdioCaseAssumption ==
    /\ Letters \cap Whitespace = {}
    /\ MaxOutput \in Nat /\ MaxWritten \in Nat

VARIABLES expected, written, verdict

vars == <<expected, written, verdict>>

Bytes == Letters \cup Whitespace

\* The limit of read_case_file.
Accepted(file) == Len(file) <= MaxOutput

Init ==
    /\ expected \in {file \in BoundedSeq(Bytes, MaxWritten) : Accepted(file)}
    /\ written = <<>>
    /\ verdict = "none"

\* The start of what was written: Sandbox shows that nothing else is kept.
kept == SubSeq(written, 1, IF Len(written) < MaxOutput THEN Len(written) ELSE MaxOutput)

Write(b) ==
    /\ verdict = "none" /\ Len(written) < MaxWritten
    /\ written' = Append(written, b)
    /\ UNCHANGED <<expected, verdict>>

End(outcome) ==
    /\ verdict = "none"
    /\ verdict' = case_verdict(outcome, expected)
    /\ UNCHANGED <<expected, written>>

Next ==
    \/ \E b \in Bytes : Write(b)
    \/ \E success \in BOOLEAN : End(Exited(success, kept))
    \/ End(TimedOut)

Spec == Init /\ [][Next]_vars

-----------------------------------------------------------------------------
(* Properties *)

\* An output within the limit passes exactly when it is the expected text, white
\* space at the ends of lines and empty lines at the end aside (same_output).
WholeIsCompared ==
    verdict \in {"passed", "wrong-answer"} /\ Len(written) <= MaxOutput =>
        (verdict = "passed" <=> Text(written) = Text(expected))

\* Even past the limit, an output that passes starts with the expected text:
\* nobody passes who wrote less than was asked (case_verdict on what is kept).
PassedStartsRight ==
    verdict = "passed" => IsPrefix(Text(expected), Text(written))

=============================================================================
