------------------------------ MODULE UnitTests -----------------------------
(***************************************************************************)
(* The unit tests of the schedule, the gate, the identifiers, the          *)
(* publisher, the comparison of outputs and the version bump, one conjunct *)
(* per test: the operators of the model give what the tests assert of the  *)
(* functions they stand for.                                               *)
(***************************************************************************)
EXTENDS Gate

Accommodation(extra_time, amount, start_shift) ==
    [extra_time |-> extra_time, amount |-> amount, start_shift |-> start_shift]
half_more_time == Accommodation("percent", 50, 0)

\* Schedule::default(), and a schedule with a group window only.
Default == [extension |-> None, group |-> None, offering |-> None,
            accommodation |-> None, mode_applies_accommodation |-> FALSE]
group_student(opens, closes) == [Default EXCEPT !.group = Window(opens, closes)]
With(s, a) == [s EXCEPT !.accommodation = a, !.mode_applies_accommodation = TRUE]

schedule_tests ==
    /\ ~is_open(Default, 5)
    /\ is_open([group_student(20, 30) EXCEPT !.extension = Window(0, 10)], 5)
    /\ LET s == [group_student(20, 30) EXCEPT !.offering = Window(0, 10)]
       IN  ~is_open(s, 5) /\ is_open(s, 25)
    /\ is_open([Default EXCEPT !.offering = Window(0, 10)], 5)
    /\ ~is_open(group_student(0, 10), 10)
    /\ LET s == With(group_student(100, 200), half_more_time)
       IN  is_open(s, 249) /\ ~is_open(s, 250)
    /\ ~is_open([group_student(100, 200) EXCEPT !.accommodation = half_more_time], 220)
    /\ is_open([With(group_student(100, 200), half_more_time)
                   EXCEPT !.extension = Window(300, 400)], 449)
    /\ LET s == With(group_student(100, 200), Accommodation("fixed", 0, 30))
       IN  ~is_open(s, 110) /\ is_open(s, 229)
    /\ ~is_open(With(group_student(100, 100), Accommodation("fixed", 60, 0)), 110)

accommodation_tests ==
    /\ apply(Accommodation("fixed", 60, 0), Window(100, 200)) = Window(100, 260)
    /\ apply(Accommodation("percent", 10, 30), Window(100, 200)) = Window(130, 240)

window_tests ==
    /\ contains(Window(10, 20), 10)
    /\ ~contains(Window(10, 20), 9)
    /\ length(Window(20, 10)) = 0

session_tests ==
    LET student == group_student(100, 200)
    IN  /\ session_closes_at({student, With(student, half_more_time)}) = 250
        /\ session_closes_at({Default, student}) = 200
        /\ session_closes_at({Default}) = None /\ session_closes_at({}) = None

-----------------------------------------------------------------------------
sum == <<115, 117, 109>>
hello == <<104, 101, 108, 108, 111>>
abc == <<97, 98, 99, 49, 50, 51>>

Dot == 46
Slash == 47
Backslash == 92
Colon == 58
Percent == 37

\* Names as they are, and names with a byte no identifier has: separators, what
\* Windows and URLs make of them, white space, controls, capitals, and the bytes
\* of letters beyond ASCII.
id_tests ==
    /\ IsId(<<108, 111, 103, 50, 48, 48, 45, 108, 97, 98, 45, 49>>)
    /\ ~IsId(<<>>)
    /\ \A up \in {<<Dot>>, <<Dot, Dot>>, <<Dot, Slash>>, <<Dot, Dot, Slash>>} :
           ~IsId(up) /\ ~IsId(up \o sum) /\ ~IsId(sum \o up \o sum)
    /\ \A root \in {<<Backslash, Backslash>>, <<67, Colon, Backslash>>, <<67, Colon, Slash>>,
                    <<Dot, Dot, Backslash>>} : ~IsId(root) /\ ~IsId(root \o sum)
    /\ \A byte \in {Slash, Backslash, Colon, 42, 63, 34} : ~IsId(<<byte>>)
    /\ \A byte \in {0, 10, 13, 9, 32} : ~IsId(<<byte>>) /\ ~IsId(Append(sum, byte)) /\ ~IsId(<<byte>> \o sum)
    /\ \A byte \in {101, 102, 99} : ~IsId(<<Percent, 50, byte>>)
    /\ ~IsId(<<83, 117, 109>>) /\ ~IsId(<<195, 169>>) /\ ~IsId(<<209, 149, 117, 109>>)

release_tests ==
    /\ active_release(Append(<<97, 98, 49, 50, 99, 100>>, LF)) = Ok(<<97, 98, 49, 50, 99, 100>>)
    /\ active_release(<<46, 46, 47>> \o abc) = Err("invalid")
    /\ active_release(<<LF>>) = Err("invalid")
    /\ active_release(NoFile) = Err("not-found")

\* A release with an exercise, a file and a link.
Release == [n \in {sum, hello, abc} |->
              Entry(CASE n = sum -> "dir" [] n = hello -> "file" [] n = abc -> "link", <<>>)]

exercise_tests ==
    /\ exercise_dir(Release, abc, sum) = Ok(<<abc, sum>>)
    /\ exercise_dir(<<>>, abc, sum) = Err("not-found")
    /\ exercise_dir(Release, abc, hello) = Err("invalid")
    /\ exercise_dir(Release, abc, abc) = Err("invalid")

gate_tests ==
    LET dir == exercise_dir(Release, active_release(abc).path, sum)
    IN  /\ Gated(dir, [Default EXCEPT !.offering = Window(0, 60)], 0) = Ok(<<abc, sum>>)
        /\ Gated(dir, Default, 0) = Err("closed")

-----------------------------------------------------------------------------
Only(name, kind) == [n \in {name} |-> Entry(kind, <<>>)]
Dir(files) == Entry("dir", files)

exercises_tests ==
    /\ exercises([n \in {sum, hello} |-> Dir(<<>>)])
    /\ ~exercises(Only(<<83, 117, 109>>, "dir"))
    /\ ~exercises(Only(sum, "file"))
    /\ ~exercises(Only(sum, "link"))

statement_tests ==
    /\ \A f \in FILES : statement(Dir([g \in {f} |-> "file"]))
    /\ ~statement(Dir([g \in {"statement.md", "statement.tex"} |-> "file"]))
    /\ ~statement(Dir(<<>>))
    /\ \A kind \in {"dir", "link"} :
           ~statement(Dir([g \in {"statement.typ", "statement.md"} |->
                             IF g = "statement.md" THEN kind ELSE "file"]))
    /\ ~statement(Dir([g \in {"statement.md"} |-> "link"]))

import_report_tests ==
    /\ no_import_report(Dir(<<>>))
    /\ ~no_import_report(Dir([g \in {REPORT} |-> "file"]))

-----------------------------------------------------------------------------
S == INSTANCE Stdio

\* A line of digits, ended by a line feed.
Line(digits) == Append(digits, S!NL)

verdict_tests ==
    LET verdict(success, actual) == S!case_verdict(S!Exited(success, Line(<<actual>>)), Line(<<"1">>))
    IN  /\ verdict(TRUE, "1") = "passed"
        /\ verdict(TRUE, "2") = "wrong-answer"
        /\ verdict(FALSE, "1") = "crashed"
        /\ S!case_verdict(S!TimedOut, Line(<<"1">>)) = "timed-out"

output_tests ==
    /\ \A same \in {<<Line(<<"1">>), Line(<<"1">>)>>, <<Line(<<"1">>), <<"1">>>>,
                    <<Line(<<"1", S!Blank>>) \o Line(<<"2", S!Blank>>), Line(<<"1">>) \o Line(<<"2">>)>>,
                    <<Line(<<"1", S!Blank, "2">>), Line(<<"1", S!Blank, "2", S!Blank, S!Blank, S!Blank>>)>>,
                    <<Line(<<"1">>), Line(<<"1">>) \o Line(<<>>) \o Line(<<S!Blank>>)>>,
                    <<<<>>, Line(<<S!Blank>>) \o Line(<<>>)>>} : S!same_output(same[1], same[2])
    /\ \A other \in {<<Line(<<"1">>), Line(<<"2">>)>>, <<Line(<<"1">>), Line(<<"1">>) \o Line(<<"2">>)>>,
                     <<Line(<<"1">>) \o Line(<<"2">>), Line(<<"1">>)>>, <<Line(<<"1">>), Line(<<S!Blank, "1">>)>>,
                     <<Line(<<"1">>) \o Line(<<"2">>), Line(<<"1">>) \o Line(<<>>) \o Line(<<"2">>)>>} :
           ~S!same_output(other[1], other[2])

-----------------------------------------------------------------------------
V == INSTANCE Versions

\* tests/release/check.sh: the version released after tag, with version in Cargo.toml.
Releases(tag, version, kinds) == V!Chosen(version, V!Bumped(tag, kinds))

bump_tests ==
    /\ Releases(<<0, 1, 0>>, <<0, 1, 0>>, {"other"}) = <<0, 1, 0>>
    /\ Releases(<<0, 1, 0>>, <<0, 1, 0>>, {"fix"}) = <<0, 1, 1>>
    /\ Releases(<<0, 1, 0>>, <<0, 1, 0>>, {"feat", "fix"}) = <<0, 1, 1>>
    /\ Releases(<<0, 1, 0>>, <<0, 1, 0>>, {"breaking"}) = <<0, 2, 0>>
    /\ Releases(<<0, 1, 0>>, <<0, 5, 0>>, {"feat"}) = <<0, 5, 0>>
    /\ Releases(<<1, 2, 3>>, <<1, 2, 3>>, {"feat", "fix"}) = <<1, 3, 0>>
    /\ Releases(<<1, 2, 3>>, <<1, 2, 3>>, {"breaking", "fix"}) = <<2, 0, 0>>

ASSUME OpeningExamples == schedule_tests /\ accommodation_tests /\ window_tests /\ session_tests

ASSUME GateExamples == id_tests /\ release_tests /\ exercise_tests /\ gate_tests

ASSUME PublisherExamples == exercises_tests /\ statement_tests /\ import_report_tests

ASSUME ComparisonExamples == verdict_tests /\ output_tests

ASSUME BumpExamples == bump_tests

=============================================================================
