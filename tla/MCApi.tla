------------------------------- MODULE MCApi -------------------------------
(***************************************************************************)
(* Api with one of each kind of body: at the limit of the source, over it, *)
(* empty, with a name that is no identifier, with a NUL.  The unit tests   *)
(* of the pure functions are evaluated with this instance.                 *)
(***************************************************************************)
EXTENDS Api, UnitTests, TLC

Body(exercise, n, nul) ==
    [course |-> hello, exercise |-> exercise, language_pack |-> abc, length |-> n, nul |-> nul]

Good == Body(sum, MAX_SOURCE, FALSE)

MCBodies == {Good, Body(sum, MAX_SOURCE + 1, FALSE), Body(sum, 0, FALSE),
             Body(<<46, 46, 47>>, 1, FALSE), Body(sum, 1, TRUE)}

MCVerdictLists == {<<"passed", "passed">>, <<"passed", "crashed">>}

=============================================================================
