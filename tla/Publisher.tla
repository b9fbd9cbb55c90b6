----------------------------- MODULE Publisher -----------------------------
(***************************************************************************)
(* What the publisher accepts of a content repository: apps/publisher/src. *)
(*                                                                         *)
(* A content is the directory exercises/: a function from the names in it  *)
(* to what they are, as symlink_metadata says it, with the kind of each    *)
(* file the publisher looks for inside an exercise.  A repository without  *)
(* that directory, which read_dir refuses, is no content here.             *)
(***************************************************************************)
EXTENDS Identifiers

Kinds == {"absent", "file", "dir", "link"}
FILES == {"statement.md", "statement.typ", "statement.tex"}
REPORT == "import-report.md"

\* An entry of exercises/ and the kinds of the files under it.
Entry(kind, files) ==
    [kind |-> kind,
     file |-> [f \in FILES \cup {REPORT} |-> IF f \in DOMAIN files THEN files[f] ELSE "absent"]]

\* Mutant: a link is followed, as metadata does.
exercises_Follows(content) == \A name \in DOMAIN content : IsId(name) /\ content[name].kind \in {"dir", "link"}

\* Every entry is a directory with an identifier for a name, or all are refused.
exercises(content) == \A name \in DOMAIN content : IsId(name) /\ content[name].kind = "dir"

no_import_report(exercise) == exercise.file[REPORT] = "absent"

\* One regular file among the formats, and nothing else under their names.
statement(exercise) ==
    \E f \in FILES :
        /\ exercise.file[f] = "file"
        /\ \A g \in FILES \ {f} : exercise.file[g] = "absent"

validate(content) ==
    /\ exercises(content)
    /\ \A name \in DOMAIN content : no_import_report(content[name]) /\ statement(content[name])

=============================================================================
