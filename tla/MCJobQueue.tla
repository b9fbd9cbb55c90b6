----------------------------- MODULE MCJobQueue -----------------------------
(* Small instances of JobQueue for TLC. *)
EXTENDS JobQueue, TLC

\* Judges run the same program: any two of them may be exchanged.
JudgeSymmetry == Permutations(Judges)

OneList == {<<"passed">>}

TwoLists == {<<"passed">>, <<"passed", "crashed">>}

TwoJobs == 1..2

=============================================================================
