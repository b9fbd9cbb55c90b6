---------------------------- MODULE Identifiers ----------------------------
(***************************************************************************)
(* The identifier of a course, an exercise or a language pack: packages/   *)
(* contracts/src/id.rs.  A name is the sequence of its bytes.              *)
(***************************************************************************)
EXTENDS Integers, Sequences

Dash == 45
Digits == 48..57
LowerCase == 97..122

\* Id::from_str, and serde through try_from.
IsId(name) == name # <<>> /\ \A i \in DOMAIN name : name[i] \in LowerCase \cup Digits \cup {Dash}

=============================================================================
