-------------------------------- MODULE Gate --------------------------------
(***************************************************************************)
(* The three questions the gate asks of the file system and the schedule:  *)
(* release.rs, exercise.rs and the last line of gate.rs, of packages/      *)
(* content/src.  A path is a revision or an exercise of it; the file       *)
(* `current` and the names are sequences of bytes.                         *)
(***************************************************************************)
EXTENDS Schedule, Publisher, FiniteSetsExt

LF == 10
WhiteSpace == 9..13 \cup {32}
HexDigits == Digits \cup 97..102
NoFile == <<256>>   \* no byte

trim(s) ==
    LET ink == {i \in DOMAIN s : s[i] \notin WhiteSpace}
    IN  IF ink = {} THEN <<>> ELSE SubSeq(s, Min(ink), Max(ink))

\* A Result: Ok with a path, which is a release or an exercise of it, or an error.
Ok(path) == [kind |-> "ok", path |-> path]
Err(kind) == [kind |-> kind, path |-> <<>>]

active_release(p) ==
    LET revision == trim(p)
    IN  IF p = NoFile THEN Err("not-found")
        ELSE IF revision # <<>> /\ \A i \in DOMAIN revision : revision[i] \in HexDigits
             THEN Ok(revision)
             ELSE Err("invalid")

exercise_dir(content, revision, id) ==
    IF id \notin DOMAIN content THEN Err("not-found")
    ELSE IF content[id].kind = "dir" THEN Ok(<<revision, id>>) ELSE Err("invalid")

\* is_open(now).ok_or_else(...)
Gated(dir, s, now) == IF dir.kind = "ok" /\ ~is_open(s, now) THEN Err("closed") ELSE dir

=============================================================================
