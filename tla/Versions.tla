------------------------------ MODULE Versions ------------------------------
(***************************************************************************)
(* The bump rule of .github/release.sh: Conventional Commits mapped to     *)
(* SemVer.  A version is its three components; of a message only its kind  *)
(* counts: a breaking change, a feature, a fix (or perf), or another one.  *)
(***************************************************************************)
EXTENDS Integers, Sequences

Kinds == {"breaking", "feat", "fix", "other"}

\* v comes before w, as sort -V has it.
Before(v, w) ==
    \E i \in 1..3 : v[i] < w[i] /\ \A j \in 1..i - 1 : v[j] = w[j]

\* Mutant: below 1.0.0 a feature and a breaking change count the same.
Bumped_Minor(v, kinds) ==
    IF "breaking" \in kinds /\ v[1] > 0 THEN <<v[1] + 1, 0, 0>>
    ELSE IF "feat" \in kinds /\ v[1] > 0 THEN <<v[1], v[2] + 1, 0>>
    ELSE IF kinds \cap {"breaking", "feat", "fix"} # {} THEN <<v[1], v[2], v[3] + 1>>
    ELSE v

\* The version the commits since release v call for.
Bumped(v, kinds) ==
    IF "breaking" \in kinds THEN IF v[1] = 0 THEN <<0, v[2] + 1, 0>> ELSE <<v[1] + 1, 0, 0>>
    ELSE IF "feat" \in kinds /\ v[1] # 0 THEN <<v[1], v[2] + 1, 0>>
    ELSE IF kinds \cap {"feat", "fix"} # {} THEN <<v[1], v[2], v[3] + 1>>
    ELSE v

\* A version raised by hand is kept.
Chosen(version, next) == IF Before(version, next) THEN next ELSE version

=============================================================================
