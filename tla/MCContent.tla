----------------------------- MODULE MCContent -----------------------------
(* Two students, two releases, contents the publisher accepts or refuses. *)
EXTENDS Content, TLC

StudentSymmetry == Permutations(Students)

sum == <<115, 117, 109>>
hello == <<104, 101, 108, 108, 111>>

Good == Entry("dir", [f \in {"statement.md"} |-> "file"])
Link == Entry("link", [f \in {"statement.md"} |-> "file"])
Folder(names) == [n \in names |-> Good]

MCRevisions == {<<97, 49>>, <<98, 49>>}
MCContents == {Folder({sum}), [n \in {sum, hello} |-> IF n = sum THEN Link ELSE Good]}
MCAsked == {sum}

Plain(w) == [extension |-> None, group |-> w, offering |-> Window(0, 1),
             accommodation |-> None, mode_applies_accommodation |-> TRUE]
More(w, kind, amount, shift) ==
    [Plain(w) EXCEPT !.accommodation =
        [extra_time |-> kind, amount |-> amount, start_shift |-> shift]]

\* Dates of a group, twice the time and a later start, a reversed window with extra time.
MCEntered == {Plain(Window(0, 1)), More(Window(0, 1), "percent", 100, 1),
              More(Window(2, 1), "fixed", 2, 0)}

=============================================================================
