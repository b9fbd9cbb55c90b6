----------------------------- MODULE MCJudging -----------------------------
(***************************************************************************)
(* Judging with two names, two inputs, two expected outputs, and runs that *)
(* write one of them, with a blank more, or nothing.                       *)
(***************************************************************************)
EXTENDS Judging

x == "x"
y == "y"

MCNames == {1, 2}
MCExpected == {<<x, NL>>, <<y, NL>>}
MCOutputs == {<<>>, <<x, Blank>>, <<y, NL, NL>>}

=============================================================================
