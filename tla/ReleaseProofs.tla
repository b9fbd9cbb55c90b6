--------------------------- MODULE ReleaseProofs ---------------------------
(***************************************************************************)
(* What holds of the release script for any history of main, any number of *)
(* runs, reruns and failed commands: tags rise along main, releases count  *)
(* what changed, and images follow releases.                               *)
(*                                                                         *)
(* People keep or raise the version (RaisesUp): the script is told so by   *)
(* "1.0.0 is set by hand. A version raised by hand is kept".               *)
(***************************************************************************)
EXTENDS Release, TLAPS

Version == Nat \X Nat \X Nat

AtMost(v, w) == v = w \/ Before(v, w)

RaisesUp ==
    /\ First \in Version
    /\ \A v \in Version : Raises(v) \subseteq {w \in Version : AtMost(v, w)}

\* The component that must move for what changed has moved, as ChangesAreCounted has it.
Counted(v, w, log) ==
    /\ "breaking" \in log => w[1] > v[1] \/ (v[1] = 0 /\ w[2] > v[2])
    /\ "feat" \in log => w[1] > v[1] \/ w[2] > v[2] \/ (v[1] = 0 /\ w[3] > v[3])

-----------------------------------------------------------------------------
(* Versions *)

\* Before, component by component.
LEMMA BeforeCases ==
    ASSUME NEW v \in Version, NEW w \in Version
    PROVE  Before(v, w) <=>
              \/ v[1] < w[1]
              \/ v[1] = w[1] /\ v[2] < w[2]
              \/ v[1] = w[1] /\ v[2] = w[2] /\ v[3] < w[3]
<1>1. \A i \in 1..3 : i = 1 \/ i = 2 \/ i = 3
  OBVIOUS
<1> QED
  BY <1>1 DEF Before, Version

\* It is a strict total order.
LEMMA BeforeIsOrder ==
    ASSUME NEW u \in Version, NEW v \in Version, NEW w \in Version
    PROVE  /\ ~Before(v, v)
           /\ AtMost(u, v) /\ AtMost(v, w) => AtMost(u, w)
           /\ Before(v, w) \/ AtMost(w, v)
<1>1. v = w <=> v[1] = w[1] /\ v[2] = w[2] /\ v[3] = w[3]
  BY DEF Version
<1>2. u[1] \in Nat /\ u[2] \in Nat /\ u[3] \in Nat /\ v[1] \in Nat /\ v[2] \in Nat /\ v[3] \in Nat
      /\ w[1] \in Nat /\ w[2] \in Nat /\ w[3] \in Nat
  BY DEF Version
<1>3. ~Before(v, v)
  BY <1>2, BeforeCases
<1>4. Before(v, w) \/ AtMost(w, v)
  BY <1>1, <1>2, BeforeCases DEF AtMost
<1>5. AtMost(u, v) /\ AtMost(v, w) => AtMost(u, w)
  <2>1. CASE u = v \/ v = w
    BY <2>1 DEF AtMost
  <2>2. CASE Before(u, v) /\ Before(v, w)
    <3>1. Before(u, w)
      BY <1>2, <2>2, BeforeCases
    <3> QED
      BY <3>1 DEF AtMost
  <2> QED
    BY <2>1, <2>2 DEF AtMost
<1> QED
  BY <1>3, <1>4, <1>5

\* The bump rule counts what it is given, and never goes back.
LEMMA BumpCounts ==
    ASSUME NEW v \in Version, NEW w \in Version, NEW log, AtMost(Bumped(v, log), w)
    PROVE  Bumped(v, log) \in Version /\ Counted(v, w, log)
<1>1. v[1] \in Nat /\ v[2] \in Nat /\ v[3] \in Nat /\ w[1] \in Nat /\ w[2] \in Nat /\ w[3] \in Nat
  BY DEF Version
<1>2. Bumped(v, log) \in Version
  BY <1>1 DEF Bumped, Version
<1>3. \/ w = Bumped(v, log)
      \/ w[1] > Bumped(v, log)[1]
      \/ w[1] = Bumped(v, log)[1] /\ w[2] > Bumped(v, log)[2]
      \/ w[1] = Bumped(v, log)[1] /\ w[2] = Bumped(v, log)[2] /\ w[3] > Bumped(v, log)[3]
  BY <1>2, BeforeCases DEF AtMost
<1>4. "breaking" \in log => w[1] > v[1] \/ (v[1] = 0 /\ w[2] > v[2])
  BY <1>1, <1>3 DEF Bumped
<1>5. "feat" \in log => w[1] > v[1] \/ w[2] > v[2] \/ (v[1] = 0 /\ w[3] > v[3])
  BY <1>1, <1>3 DEF Bumped
<1> QED
  BY <1>2, <1>4, <1>5 DEF Counted

\* What two releases in a row count, the second counts since the first.
LEMMA CountsCompose ==
    ASSUME NEW u \in Version, NEW v \in Version, NEW w \in Version, NEW a, NEW b,
           AtMost(u, v), AtMost(v, w), Counted(u, v, a), Counted(v, w, b)
    PROVE  Counted(u, w, a \cup b)
<1>1. /\ u[1] \in Nat /\ u[2] \in Nat /\ u[3] \in Nat /\ v[1] \in Nat /\ v[2] \in Nat /\ v[3] \in Nat
      /\ w[1] \in Nat /\ w[2] \in Nat /\ w[3] \in Nat
  BY DEF Version
<1>2. \/ u[1] < v[1] \/ (u[1] = v[1] /\ u[2] < v[2])
      \/ (u[1] = v[1] /\ u[2] = v[2] /\ u[3] <= v[3])
  BY <1>1, BeforeCases DEF AtMost
<1>3. \/ v[1] < w[1] \/ (v[1] = w[1] /\ v[2] < w[2])
      \/ (v[1] = w[1] /\ v[2] = w[2] /\ v[3] <= w[3])
  BY <1>1, BeforeCases DEF AtMost
<1>4. "breaking" \in a \cup b => w[1] > u[1] \/ (u[1] = 0 /\ w[2] > u[2])
  BY <1>1, <1>2, <1>3 DEF Counted
<1>5. "feat" \in a \cup b => w[1] > u[1] \/ w[2] > u[2] \/ (u[1] = 0 /\ w[3] > u[3])
  BY <1>1, <1>2, <1>3 DEF Counted
<1> QED
  BY <1>4, <1>5 DEF Counted

-----------------------------------------------------------------------------
(* The inductive invariant *)

Commits == DOMAIN main
Working == {"push", "verify", "create"}

TypeInv ==
    /\ main \in Seq([kind : Kinds, version : Version, by : {"people", "script"}])
    /\ releases \in Seq([version : Version, commit : Nat])
    /\ pc \in {"idle", "read", "push", "verify", "create", "dispatch", "done", "failed"}
    /\ version \in Version

\* Versions never fall along main.
MainInv ==
    /\ Len(main) \in Commits
    /\ \A i, j \in Commits : i <= j => AtMost(main[i].version, main[j].version)

\* CI and runs are for commits of main, or skip their job.
ActionsInv ==
    /\ ci # None => ci.commit \in Commits
    /\ pending # None => pending \in Commits \cup {Skip}
    /\ past \subseteq Commits \cup {Skip}

\* A run is on a commit of main, with the bump it has pushed on top of it.
RunInv ==
    /\ ~Resting => base \in Commits /\ head \in Commits
    /\ pc \in {"read", "push"} => head = base
    /\ pc = "read" => version = main[head].version
    /\ pc = "push" => Before(main[head].version, version)
    /\ pc \in {"verify", "create", "dispatch"} => main[head].version = version
    /\ pc \in {"verify", "create"} =>
          \/ head = base
          \/ /\ head = base + 1 /\ main[head].kind = "other"
             /\ \A i \in DOMAIN releases : releases[i].commit <= base
    /\ pc = "create" => version \notin Tagged
    /\ pc = "dispatch" => version \in Tagged

\* A tag marks a commit with its version, and no version has two.
TagInv ==
    /\ \A i \in DOMAIN releases :
          releases[i].commit \in Commits /\ main[releases[i].commit].version = releases[i].version
    /\ \A i, j \in DOMAIN releases : i # j => releases[i].version # releases[j].version

\* git describe finds a tag when there is one.
LastInv ==
    \A c \in Nat : (\E i \in DOMAIN releases : releases[i].commit <= c) => LastRelease(c) # {}

\* The version at hand counts what changed since each release before it.
CountInv ==
    /\ ChangesAreCounted
    /\ pc \in Working => \A i \in DOMAIN releases :
          releases[i].commit <= base /\ InOrder(i) =>
              Counted(releases[i].version, version, Log(releases[i].commit, base))

IInv == TypeInv /\ MainInv /\ ActionsInv /\ RunInv /\ TagInv /\ LastInv /\ CountInv /\ ImagesFollow

\* The initial state.
LEMMA InitIInv ==
    ASSUME RaisesUp, Init
    PROVE  IInv
<1> USE DEF Init, RaisesUp
<1>1. main \in Seq([kind : Kinds, version : Version, by : {"people", "script"}])
  BY DEF Kinds
<1>2. Len(main) = 1 /\ main[1].by = "people" /\ DOMAIN main = {1} /\ DOMAIN releases = {}
  OBVIOUS
<1>3. TypeInv
  BY <1>1 DEF TypeInv
<1>4. MainInv
  BY <1>2 DEF MainInv, Commits, AtMost
<1>5. ActionsInv /\ RunInv /\ TagInv /\ LastInv
  BY <1>2 DEF ActionsInv, RunInv, TagInv, LastInv, Resting, Commits
<1>6. CountInv /\ ImagesFollow
  BY <1>2 DEF CountInv, Working, ChangesAreCounted, ImagesFollow, Tagged
<1> QED
  BY <1>3, <1>4, <1>5, <1>6 DEF IInv

\* The elements of the two sequences.
LEMMA CommitTypes ==
    ASSUME TypeInv
    PROVE  /\ \A k \in Commits : k \in Nat /\ main[k].version \in Version /\ main[k].kind \in Kinds
           /\ \A i \in DOMAIN releases :
                 i \in Nat /\ releases[i].version \in Version /\ releases[i].commit \in Nat
<1>1. \A S : main \in Seq(S) => \A k \in Commits : k \in Nat /\ main[k] \in S
  BY DEF Commits
<1>2. \A S : releases \in Seq(S) => \A i \in DOMAIN releases : i \in Nat /\ releases[i] \in S
  OBVIOUS
<1>3. \A k \in Commits : k \in Nat /\ main[k] \in [kind : Kinds, version : Version, by : {"people", "script"}]
  BY <1>1 DEF TypeInv
<1>4. \A i \in DOMAIN releases : i \in Nat /\ releases[i] \in [version : Version, commit : Nat]
  BY <1>2 DEF TypeInv
<1> QED
  BY <1>3, <1>4

\* What a commit more on main leaves as it was.
LEMMA MainGrows ==
    ASSUME TypeInv, NEW m \in [kind : Kinds, version : Version, by : {"people", "script"}],
           main' = Append(main, m)
    PROVE  /\ main' \in Seq([kind : Kinds, version : Version, by : {"people", "script"}])
           /\ Len(main') = Len(main) + 1 /\ Len(main) \in Nat
           /\ Commits = 1..Len(main) /\ Commits' = Commits \cup {Len(main) + 1}
           /\ \A i \in Commits : main'[i] = main[i]
           /\ main'[Len(main) + 1] = m
           /\ \A a \in Nat, b \in Commits : Log(a, b)' = Log(a, b)
<1>1. /\ main' \in Seq([kind : Kinds, version : Version, by : {"people", "script"}])
      /\ Len(main') = Len(main) + 1 /\ Len(main) \in Nat
      /\ Commits = 1..Len(main) /\ Commits' = Commits \cup {Len(main) + 1}
      /\ \A i \in Commits : main'[i] = main[i]
      /\ main'[Len(main) + 1] = m
  BY DEF TypeInv, Commits
<1>2. ASSUME NEW a \in Nat, NEW b \in Commits PROVE Log(a, b)' = Log(a, b)
  <2>1. \A i \in a + 1..b : i \in Commits
    BY <1>1
  <2> QED
    BY <1>1, <2>1 DEF Log
<1> QED
  BY <1>1, <1>2

\* A commit more keeps main and the tags, if its version does not fall.
LEMMA MainStep ==
    ASSUME TypeInv, MainInv, TagInv, LastInv, ChangesAreCounted,
           NEW m \in [kind : Kinds, version : Version, by : {"people", "script"}],
           main' = Append(main, m), AtMost(main[Len(main)].version, m.version),
           UNCHANGED releases
    PROVE  MainInv' /\ TagInv' /\ LastInv' /\ ChangesAreCounted'
<1> USE MainGrows
<1>1. (Len(main) \in Commits)'
  OBVIOUS
<1>2. ASSUME NEW i \in Commits', NEW j \in Commits', i <= j
      PROVE  AtMost(main'[i].version, main'[j].version)
  <2>1. \A k \in Commits : main[k].version \in Version
    BY CommitTypes
  <2>2. CASE j \in Commits
    <3>1. i \in Commits
      BY <1>2, <2>2
    <3> QED
      BY <1>2, <2>2, <3>1 DEF MainInv
  <2>3. CASE j = Len(main) + 1 /\ i \in Commits
    <3>1. Len(main) \in Commits /\ i <= Len(main)
      BY <2>3
    <3>2. AtMost(main[i].version, main[Len(main)].version)
      BY <2>3, <3>1 DEF MainInv
    <3> QED
      BY <2>1, <2>3, <3>1, <3>2, BeforeIsOrder
  <2>4. CASE j = Len(main) + 1 /\ i = Len(main) + 1
    BY <2>4 DEF AtMost
  <2> QED
    BY <2>2, <2>3, <2>4
<1>3. TagInv'
  BY DEF TagInv
<1>4. LastInv'
  BY DEF LastInv, LastRelease
<1>5. ChangesAreCounted'
  <2>1. \A i, j \in DOMAIN releases :
           Log(releases[i].commit, releases[j].commit)' = Log(releases[i].commit, releases[j].commit)
    BY DEF TagInv, TypeInv
  <2>2. \A i \in DOMAIN releases : InOrder(i)' <=> InOrder(i)
    BY DEF InOrder
  <2> QED
    BY <2>1, <2>2 DEF ChangesAreCounted
<1> QED
  BY <1>1, <1>2, <1>3, <1>4, <1>5 DEF MainInv

\* A release more, on the commit at hand with a version that is not tagged.
LEMMA ReleaseStep ==
    ASSUME IInv, pc = "create", UNCHANGED main,
           releases' = Append(releases, [version |-> version, commit |-> head])
    PROVE  TagInv' /\ LastInv' /\ ChangesAreCounted' /\ Tagged' = Tagged \cup {version}
<1> DEFINE n == Len(releases) + 1
<1>1. /\ DOMAIN releases = 1..Len(releases) /\ Len(releases) \in Nat
      /\ DOMAIN releases' = DOMAIN releases \cup {n}
      /\ \A i \in DOMAIN releases : releases'[i] = releases[i]
      /\ releases'[n].version = version /\ releases'[n].commit = head
  BY DEF IInv, TypeInv
<1>2. head \in Commits /\ base \in Commits /\ main[head].version = version /\ version \notin Tagged
  BY DEF IInv, RunInv, Resting
<1> HIDE DEF n
<1>3. \A i \in DOMAIN releases : releases[i].version # version
  BY <1>2 DEF Tagged
<1>4. TagInv'
  BY <1>1, <1>2, <1>3 DEF IInv, TagInv, Commits
<1>5. LastInv'
  <2> SUFFICES ASSUME NEW c \in Nat, \E i \in DOMAIN releases' : releases'[i].commit <= c
               PROVE  LastRelease(c)' # {}
    BY DEF LastInv
  <2>1. head \in Nat /\ \A i \in DOMAIN releases : releases[i].commit \in Nat
    BY <1>2, CommitTypes DEF IInv
  <2>2. CASE LastRelease(c) = {}
    <3>1. \A i \in DOMAIN releases : ~(releases[i].commit <= c)
      BY <2>2 DEF IInv, LastInv
    <3>2. n \in LastRelease(c)'
      BY <1>1, <2>1, <3>1 DEF LastRelease
    <3> QED
      BY <3>2
  <2>3. CASE LastRelease(c) # {}
    <3>1. PICK l \in DOMAIN releases : /\ releases[l].commit <= c
                                       /\ \A j \in DOMAIN releases : releases[j].commit <= c =>
                                             releases[j].commit <= releases[l].commit
      BY <2>3 DEF LastRelease
    <3>2. CASE head <= c /\ head > releases[l].commit
      <4>1. n \in LastRelease(c)'
        BY <1>1, <2>1, <3>1, <3>2 DEF LastRelease
      <4> QED
        BY <4>1
    <3>3. CASE ~(head <= c /\ head > releases[l].commit)
      <4>1. l \in LastRelease(c)'
        BY <1>1, <2>1, <3>1, <3>3 DEF LastRelease
      <4> QED
        BY <4>1
    <3> QED
      BY <3>2, <3>3
  <2> QED
    BY <2>2, <2>3
<1>6. ASSUME NEW i \in DOMAIN releases, releases[i].commit < head, InOrder(i)
      PROVE  Counted(releases[i].version, version, Log(releases[i].commit, head))
  <2>1. base \in Nat /\ head \in Nat /\ releases[i].commit \in Nat
    BY <1>2, CommitTypes DEF IInv
  <2>2. CASE head = base
    BY <1>6, <2>1, <2>2 DEF IInv, CountInv, Working
  <2>3. CASE head = base + 1 /\ main[head].kind = "other"
    <3>1. releases[i].commit <= base
      BY <1>6, <2>1, <2>3
    <3>2. Log(releases[i].commit, head) = Log(releases[i].commit, base) \cup {"other"}
      <4>1. releases[i].commit + 1..head = (releases[i].commit + 1..base) \cup {head}
        BY <2>1, <2>3, <3>1
      <4> QED
        BY <2>3, <4>1 DEF Log
    <3>3. Counted(releases[i].version, version, Log(releases[i].commit, base))
      BY <1>6, <3>1 DEF IInv, CountInv, Working
    <3> QED
      BY <3>2, <3>3 DEF Counted
  <2> QED
    BY <2>2, <2>3 DEF IInv, RunInv
<1>7. ChangesAreCounted'
  <2>1. \A a, b : Log(a, b)' = Log(a, b)
    BY DEF Log
  <2>2. \A i \in DOMAIN releases : InOrder(i)' <=> InOrder(i)
    BY <1>1 DEF InOrder
  <2>3. ASSUME NEW i \in DOMAIN releases, NEW j \in DOMAIN releases', i < j,
               releases'[i].commit < releases'[j].commit, InOrder(i)'
        PROVE  Counted(releases'[i].version, releases'[j].version,
                       Log(releases[i].commit, releases[j].commit)')
    <3>1. CASE j \in DOMAIN releases
      <4>1. Counted(releases[i].version, releases[j].version, Log(releases[i].commit, releases[j].commit))
        BY <1>1, <2>2, <2>3, <3>1 DEF IInv, CountInv, ChangesAreCounted, Counted
      <4> QED
        BY <1>1, <2>1, <3>1, <4>1
    <3>2. CASE j = n
      <4>1. Counted(releases[i].version, version, Log(releases[i].commit, head))
        BY <1>1, <1>6, <2>2, <2>3, <3>2
      <4> QED
        BY <1>1, <2>1, <3>2, <4>1
    <3> QED
      BY <1>1, <3>1, <3>2
  <2>4. \A i, j \in DOMAIN releases' : i < j => i \in DOMAIN releases
    BY <1>1 DEF n
  <2> QED
    BY <2>3, <2>4 DEF ChangesAreCounted, Counted
<1>8. Tagged' = Tagged \cup {version}
  BY <1>1 DEF Tagged
<1> QED
  BY <1>4, <1>5, <1>7, <1>8

\* What the bump is counted from: the last release before, and with it all.
LEMMA ReadCounts ==
    ASSUME IInv, Read
    PROVE  /\ version' \in Version /\ AtMost(version, version')
           /\ pc' = "push" => Before(version, version')
           /\ pc' = "verify" => version' = version
           /\ \A i \in DOMAIN releases : releases[i].commit <= base /\ InOrder(i) =>
                 Counted(releases[i].version, version', Log(releases[i].commit, base))
<1>1. /\ head = base /\ base \in Commits /\ base \in Nat /\ version = main[base].version
      /\ version \in Version
  BY CommitTypes DEF Read, IInv, RunInv, TypeInv, Resting
<1>2. CASE LastRelease(head) = {}
  <2>1. version' = version /\ pc' = "verify"
    BY <1>1, <1>2, BeforeIsOrder DEF Read, Chosen
  <2>2. \A i \in DOMAIN releases : ~(releases[i].commit <= base)
    BY <1>1, <1>2 DEF IInv, LastInv
  <2> QED
    BY <1>1, <2>1, <2>2 DEF AtMost
<1>3. CASE LastRelease(head) # {}
  <2> DEFINE l == CHOOSE i \in LastRelease(head) : TRUE
             log == Log(releases[l].commit, head)
             next == Bumped(releases[l].version, log)
  <2>1. /\ l \in DOMAIN releases /\ releases[l].commit <= base
        /\ \A j \in DOMAIN releases : releases[j].commit <= base => releases[j].commit <= releases[l].commit
    BY <1>1, <1>3 DEF LastRelease
  <2>2. version' = Chosen(version, next) /\ pc' = IF Before(version, next) THEN "push" ELSE "verify"
    BY <1>3 DEF Read
  <2> HIDE DEF l
  <2>3. releases[l].version \in Version /\ releases[l].commit \in Nat /\ l \in Nat
    BY <2>1, CommitTypes DEF IInv
  <2>4. next \in Version
    <3>1. ASSUME NEW v \in Version, NEW kinds PROVE Bumped(v, kinds) \in Version
      BY DEF Bumped, Version
    <3> QED
      BY <2>3, <3>1
  <2> HIDE DEF log, next
  <2>5. /\ version' \in Version /\ AtMost(version, version') /\ AtMost(next, version')
        /\ pc' = "push" => Before(version, version')
        /\ pc' = "verify" => version' = version
    BY <1>1, <2>2, <2>4, BeforeIsOrder DEF Chosen, AtMost
  <2>6. Counted(releases[l].version, version', log)
    BY <2>3, <2>5, BumpCounts DEF next
  <2>7. ASSUME NEW i \in DOMAIN releases, releases[i].commit <= base, InOrder(i)
        PROVE  Counted(releases[i].version, version', Log(releases[i].commit, base))
    <3>1. CASE i = l
      BY <1>1, <2>6, <3>1 DEF log
    <3>2. CASE i # l
      <4>1. /\ releases[i].version \in Version /\ releases[i].commit \in Nat /\ i \in Nat
            /\ releases[i].version # releases[l].version
            /\ releases[i].commit \in Commits /\ releases[l].commit \in Commits
            /\ main[releases[i].commit].version = releases[i].version
            /\ main[releases[l].commit].version = releases[l].version
        BY <2>1, <3>2, CommitTypes DEF IInv, TagInv
      <4>2. releases[i].commit < releases[l].commit
        BY <2>1, <2>3, <2>7, <4>1
      <4>3. i < l
        <5>1. ~(l \in 1..i - 1)
          BY <4>2, <2>7, <2>3, <4>1 DEF InOrder
        <5> QED
          BY <2>1, <2>3, <3>2, <4>1, <5>1 DEF IInv, TypeInv
      <4>4. Counted(releases[i].version, releases[l].version, Log(releases[i].commit, releases[l].commit))
        BY <2>1, <2>7, <4>2, <4>3 DEF IInv, CountInv, ChangesAreCounted, Counted
      <4>5. AtMost(releases[i].version, releases[l].version)
        BY <2>3, <4>1, <4>2 DEF IInv, MainInv
      <4>6. AtMost(releases[l].version, version')
        <5>1. AtMost(main[releases[l].commit].version, main[base].version)
          BY <1>1, <2>1, <4>1 DEF IInv, MainInv
        <5> QED
          BY <1>1, <2>3, <2>5, <4>1, <5>1, BeforeIsOrder
      <4>7. Log(releases[i].commit, base)
                = Log(releases[i].commit, releases[l].commit) \cup log
        <5>1. releases[i].commit + 1..base =
                 (releases[i].commit + 1..releases[l].commit) \cup (releases[l].commit + 1..base)
          BY <1>1, <2>1, <2>3, <4>1, <4>2
        <5> QED
          BY <1>1, <5>1 DEF Log, log
      <4> QED
        BY <2>3, <2>5, <2>6, <4>1, <4>4, <4>5, <4>6, <4>7, CountsCompose
    <3> QED
      BY <3>1, <3>2
  <2> QED
    BY <2>5, <2>7
<1> QED
  BY <1>2, <1>3

\* Every step keeps the invariant.
LEMMA ReleaseInvStep ==
    ASSUME RaisesUp, IInv, [Next]_vars
    PROVE  IInv'
<1> USE ReleaseAssumption
<1>1. ASSUME NEW kind \in Pushed, NEW v \in Raises(main[Len(main)].version), Push(kind, v)
      PROVE  IInv'
  <2> DEFINE m == [kind |-> kind, version |-> v, by |-> "people"]
  <2>1. Len(main) \in Commits
    BY DEF IInv, MainInv
  <2>2. main[Len(main)].version \in Version
    BY <2>1, CommitTypes DEF IInv
  <2>3. v \in Version /\ AtMost(main[Len(main)].version, v)
    BY <2>2 DEF RaisesUp
  <2>4. m \in [kind : Kinds, version : Version, by : {"people", "script"}]
    BY <2>3
  <2>5. /\ main' = Append(main, m)
        /\ ci'.commit = Len(main) + 1
        /\ UNCHANGED <<releases, images, pending, past, pc, base, head, version, orphans>>
    BY <1>1 DEF Push, StartCi, run
  <2> HIDE DEF m
  <2>6. MainInv' /\ TagInv' /\ LastInv' /\ ChangesAreCounted'
    BY <2>3, <2>4, <2>5, MainStep DEF IInv, CountInv, m
  <2>7. /\ main' \in Seq([kind : Kinds, version : Version, by : {"people", "script"}])
        /\ Commits' = Commits \cup {Len(main) + 1}
        /\ \A i \in Commits : main'[i] = main[i]
        /\ \A a \in Nat, b \in Commits : Log(a, b)' = Log(a, b)
    BY <2>4, <2>5, MainGrows DEF IInv
  <2>8. TypeInv'
    BY <2>5, <2>7 DEF IInv, TypeInv
  <2>9. ActionsInv' /\ RunInv'
    BY <2>5, <2>7 DEF IInv, ActionsInv, RunInv, Resting, Tagged
  <2>10. CountInv'
    <3>1. pc \in Working => base \in Commits
      BY DEF IInv, RunInv, Resting, Working
    <3>2. \A i \in DOMAIN releases : releases[i].commit \in Nat
      BY CommitTypes DEF IInv
    <3>3. \A i \in DOMAIN releases : InOrder(i)' <=> InOrder(i)
      BY <2>5 DEF InOrder
    <3>4. ASSUME pc \in Working, NEW i \in DOMAIN releases, releases[i].commit <= base, InOrder(i)
          PROVE  Counted(releases[i].version, version, Log(releases[i].commit, base)')
      <4>1. Counted(releases[i].version, version, Log(releases[i].commit, base))
        BY <3>4 DEF IInv, CountInv
      <4>2. releases' = releases /\ base' = base
        BY <2>5
      <4>3. base \in Commits /\ releases[i].commit \in Nat
        BY <3>1, <3>2, <3>4
      <4>4. Log(releases[i].commit, base)' = Log(releases[i].commit, base)
        <5>1. ASSUME NEW a \in Nat, NEW b \in Commits
              PROVE  {main'[k].kind : k \in a + 1..b} = {main[k].kind : k \in a + 1..b}
          BY <2>7 DEF Log
        <5> QED
          BY <4>2, <4>3, <5>1 DEF Log
      <4> QED
        BY <4>1, <4>4
    <3> QED
      BY <2>5, <2>6, <3>3, <3>4 DEF CountInv
  <2>11. ImagesFollow'
    BY <2>5 DEF IInv, ImagesFollow, Tagged
  <2> QED
    BY <2>6, <2>8, <2>9, <2>10, <2>11 DEF IInv
<1>2. ASSUME UNCHANGED <<main, releases>>, TypeInv', ActionsInv', RunInv', ImagesFollow',
             pc' \in Working => \A i \in DOMAIN releases :
                 releases[i].commit <= base' /\ InOrder(i) =>
                     Counted(releases[i].version, version', Log(releases[i].commit, base'))
      PROVE  IInv'
  <2>1. MainInv' /\ TagInv' /\ LastInv'
    BY <1>2 DEF IInv, MainInv, TagInv, LastInv, Commits, LastRelease
  <2>2. CountInv'
    <3>1. ChangesAreCounted'
      BY <1>2 DEF IInv, CountInv, ChangesAreCounted, InOrder, Log
    <3>2. ASSUME pc' \in Working, NEW i \in DOMAIN releases, releases[i].commit <= base', InOrder(i)
          PROVE  Counted(releases[i].version, version', Log(releases[i].commit, base)')
      <4>1. Counted(releases[i].version, version', Log(releases[i].commit, base'))
        BY <1>2, <3>2
      <4>2. releases' = releases /\ main' = main
        BY <1>2
      <4>3. Log(releases[i].commit, base)' = Log(releases[i].commit, base')
        BY <4>2 DEF Log
      <4> QED
        BY <4>1, <4>3
    <3>3. releases' = releases /\ \A i \in DOMAIN releases : InOrder(i)' <=> InOrder(i)
      BY <1>2 DEF InOrder
    <3> QED
      BY <3>1, <3>2, <3>3 DEF CountInv
  <2> QED
    BY <1>2, <2>1, <2>2 DEF IInv
<1>3. ASSUME UNCHANGED <<main, releases, images, run, orphans>>, ActionsInv' PROVE IInv'
  <2>1. TypeInv' /\ RunInv' /\ ImagesFollow'
    BY <1>3 DEF run, IInv, TypeInv, RunInv, ImagesFollow, Commits, Tagged, Resting
  <2> QED
    BY <1>2, <1>3, <2>1 DEF run, IInv, CountInv
<1>4. CASE Start
  <2>1. pending \in Commits /\ main[pending].version \in Version
    BY <1>4, CommitTypes DEF Start, IInv, ActionsInv
  <2>2. TypeInv' /\ ActionsInv' /\ RunInv'
    BY <1>4, <2>1 DEF Start, IInv, TypeInv, ActionsInv, RunInv, Commits, Resting
  <2>3. ImagesFollow'
    BY <1>4 DEF Start, IInv, ImagesFollow, Tagged, Resting
  <2> QED
    BY <1>2, <1>4, <2>2, <2>3 DEF Start, Working
<1>5. CASE CiStep \/ ByHand \/ StartSkipped
  <2>1. ASSUME UNCHANGED <<main, releases, images, run, orphans, ci>>,
               NEW c \in Commits \cup {Skip}, Ask(c)
        PROVE  IInv'
    <3>1. ActionsInv'
      BY <2>1 DEF IInv, ActionsInv, Ask, Commits
    <3> QED
      BY <1>3, <2>1, <3>1
  <2>2. CASE CiCancelled \/ PullRequestCi
    BY <2>1, <2>2 DEF CiCancelled, PullRequestCi
  <2>3. ASSUME NEW green \in BOOLEAN, CiEnds(green) PROVE IInv'
    <3>1. Released(green) \in Commits \cup {Skip}
      BY <2>3 DEF CiEnds, Released, IInv, ActionsInv
    <3>2. ActionsInv'
      BY <2>3, <3>1 DEF CiEnds, Ask, IInv, ActionsInv, Commits
    <3> QED
      BY <1>3, <2>3, <3>2 DEF CiEnds
  <2>4. ASSUME NEW c \in DOMAIN main, NEW event, CiByHand(c, event) PROVE IInv'
    <3>1. ActionsInv'
      BY <2>4 DEF CiByHand, StartCi, IInv, ActionsInv, Commits
    <3> QED
      BY <1>3, <2>4, <3>1 DEF CiByHand
  <2>5. ASSUME NEW c \in past, Rerun(c) PROVE IInv'
    <3>1. c \in Commits \cup {Skip}
      BY DEF IInv, ActionsInv
    <3> QED
      BY <2>1, <2>5, <3>1 DEF Rerun
  <2>6. CASE StartSkipped
    <3>1. ActionsInv'
      BY <2>6 DEF StartSkipped, IInv, ActionsInv, Commits
    <3> QED
      BY <1>3, <2>6, <3>1 DEF StartSkipped
  <2> QED
    BY <1>5, <2>2, <2>3, <2>4, <2>5, <2>6 DEF CiStep, ByHand
<1>6. CASE Read
  <2>1. TypeInv' /\ ImagesFollow'
    BY <1>6, ReadCounts DEF Read, Stay, IInv, TypeInv, ImagesFollow, Tagged
  <2>2. ActionsInv' /\ RunInv'
    BY <1>6, ReadCounts DEF Read, Stay, actions, IInv, ActionsInv, RunInv, Commits, Resting
  <2> QED
    BY <1>2, <1>6, <2>1, <2>2, ReadCounts DEF Read, Stay
<1>7. CASE PushBump
  <2>1. CASE Len(main) = head
    <3> DEFINE m == [kind |-> "other", version |-> version, by |-> "script"]
    <3>1. /\ main' = Append(main, m) /\ head' = head + 1 /\ pc' = "verify" /\ pc = "push"
          /\ UNCHANGED <<releases, images, actions, base, version, orphans>>
      BY <1>7, <2>1 DEF PushBump, Stay
    <3>2. /\ head = base /\ base \in Commits /\ base \in Nat /\ Before(main[head].version, version)
      BY <3>1, CommitTypes DEF IInv, RunInv, Resting
    <3>3. m \in [kind : Kinds, version : Version, by : {"people", "script"}]
      BY DEF IInv, TypeInv, Kinds
    <3>4. m.version = version /\ m.kind = "other"
      OBVIOUS
    <3> HIDE DEF m
    <3>5. MainInv' /\ TagInv' /\ LastInv' /\ ChangesAreCounted'
      BY <2>1, <3>1, <3>2, <3>3, <3>4, MainStep DEF IInv, CountInv, AtMost
    <3>6. /\ main' \in Seq([kind : Kinds, version : Version, by : {"people", "script"}])
          /\ Commits = 1..Len(main) /\ Commits' = Commits \cup {Len(main) + 1}
          /\ \A i \in Commits : main'[i] = main[i]
          /\ main'[Len(main) + 1] = m
          /\ \A a \in Nat, b \in Commits : Log(a, b)' = Log(a, b)
      BY <3>1, <3>3, MainGrows DEF IInv
    <3>7. TypeInv'
      BY <3>1, <3>6 DEF IInv, TypeInv
    <3>8. \A i \in DOMAIN releases : releases[i].commit \in Nat /\ releases[i].commit <= base
      BY <2>1, <3>2, <3>6, CommitTypes DEF IInv, TagInv
    <3>9. ActionsInv' /\ RunInv'
      <4>1. ActionsInv'
        BY <3>1, <3>6 DEF IInv, ActionsInv, actions
      <4>2. RunInv'
        BY <2>1, <3>1, <3>2, <3>4, <3>6, <3>8 DEF IInv, RunInv, Resting
      <4> QED
        BY <4>1, <4>2
    <3>10. CountInv'
      <4>1. \A i \in DOMAIN releases : InOrder(i)' <=> InOrder(i)
        BY <3>1 DEF InOrder
      <4>2. ASSUME NEW i \in DOMAIN releases, releases[i].commit <= base, InOrder(i)
            PROVE  Counted(releases[i].version, version, Log(releases[i].commit, base)')
        BY <3>1, <3>2, <3>6, <3>8, <4>2 DEF IInv, CountInv, Working
      <4> QED
        BY <3>1, <3>5, <4>1, <4>2 DEF CountInv
    <3>11. ImagesFollow'
      BY <3>1 DEF IInv, ImagesFollow, Tagged
    <3> QED
      BY <3>5, <3>7, <3>9, <3>10, <3>11 DEF IInv
  <2>2. CASE Len(main) # head
    <3>1. TypeInv' /\ ActionsInv' /\ RunInv' /\ ImagesFollow'
      BY <1>7, <2>2 DEF PushBump, Stay, actions, IInv, TypeInv, ActionsInv, RunInv,
        ImagesFollow, Commits, Tagged, Resting
    <3> QED
      BY <1>2, <1>7, <2>2, <3>1 DEF PushBump, Stay, Working
  <2> QED
    BY <2>1, <2>2
<1>8. CASE Verify
  <2>1. TypeInv' /\ ActionsInv' /\ RunInv' /\ ImagesFollow'
    BY <1>8 DEF Verify, Stay, actions, IInv, TypeInv, ActionsInv, RunInv,
      ImagesFollow, Commits, Tagged, Resting
  <2> QED
    BY <1>2, <1>8, <2>1 DEF Verify, Stay, IInv, CountInv, Working
<1>9. ASSUME pc = "create", releases' = Append(releases, [version |-> version, commit |-> head]),
             UNCHANGED <<main, images, actions, base, head, version>>,
             \/ pc' = "dispatch" /\ orphans' = orphans
             \/ pc' = "failed" /\ orphans' = orphans \cup {version}
      PROVE  IInv'
  <2>1. TagInv' /\ LastInv' /\ ChangesAreCounted' /\ Tagged' = Tagged \cup {version}
    BY <1>9, ReleaseStep
  <2>2. head \in Nat
    BY <1>9, CommitTypes DEF IInv, RunInv, Resting
  <2>3. TypeInv'
    BY <1>9, <2>2 DEF IInv, TypeInv
  <2>4. MainInv' /\ ActionsInv' /\ RunInv'
    BY <1>9, <2>1 DEF IInv, MainInv, ActionsInv, RunInv, Commits, actions, Resting
  <2>5. CountInv'
    BY <1>9, <2>1 DEF CountInv, Working
  <2>6. ImagesFollow'
    BY <1>9, <2>1 DEF IInv, ImagesFollow
  <2> QED
    BY <2>1, <2>3, <2>4, <2>5, <2>6 DEF IInv
<1>10. CASE Create
  BY <1>9, <1>10 DEF Create, Stay
<1>11. CASE Dispatch
  <2>1. TypeInv' /\ ActionsInv' /\ RunInv' /\ ImagesFollow'
    BY <1>11 DEF Dispatch, Stay, actions, IInv, TypeInv, ActionsInv, RunInv,
      ImagesFollow, Commits, Tagged, Resting
  <2> QED
    BY <1>2, <1>11, <2>1 DEF Dispatch, Stay, Working
<1>12. CASE Fail
  <2>1. CASE releases' = releases
    <3>1. TypeInv' /\ ActionsInv' /\ RunInv' /\ ImagesFollow'
      BY <1>12, <2>1 DEF Fail, actions, IInv, TypeInv, ActionsInv, RunInv,
        ImagesFollow, Commits, Tagged, Resting
    <3> QED
      BY <1>2, <1>12, <2>1, <3>1 DEF Fail, Working
  <2>2. CASE releases' # releases
    BY <1>9, <1>12, <2>2 DEF Fail
  <2> QED
    BY <2>1, <2>2
<1>13. CASE UNCHANGED vars
  <2>1. TypeInv' /\ ActionsInv' /\ RunInv' /\ ImagesFollow'
    BY <1>13 DEF vars, run, actions, IInv, TypeInv, ActionsInv, RunInv,
      ImagesFollow, Commits, Tagged, Resting
  <2> QED
    BY <1>2, <1>13, <2>1 DEF vars, run, IInv, CountInv
<1> QED
  BY <1>1, <1>4, <1>5, <1>6, <1>7, <1>8, <1>10, <1>11, <1>12, <1>13 DEF Next, Script

-----------------------------------------------------------------------------
\* Whatever is pushed, run again or fails, the invariant holds.
THEOREM ReleaseInvariant ==
    ASSUME RaisesUp
    PROVE  Spec => []IInv
<1>1. Init => IInv
  BY InitIInv
<1>2. IInv /\ [Next]_vars => IInv'
  BY ReleaseInvStep
<1> QED
  BY <1>1, <1>2, PTL DEF Spec

\* Tags are unique, mark the commit that has their version, and rise along main.
THEOREM TagsRise ==
    ASSUME RaisesUp
    PROVE  Spec => []VersionsRise
<1>1. IInv => VersionsRise
  <2> SUFFICES ASSUME IInv, NEW i \in DOMAIN releases, NEW j \in DOMAIN releases
               PROVE  /\ releases[i].commit \in DOMAIN main
                      /\ main[releases[i].commit].version = releases[i].version
                      /\ i # j => releases[i].version # releases[j].version
                      /\ releases[i].commit < releases[j].commit =>
                            Before(releases[i].version, releases[j].version)
    BY DEF VersionsRise
  <2>1. /\ releases[i].commit \in Commits /\ main[releases[i].commit].version = releases[i].version
        /\ releases[j].commit \in Commits /\ main[releases[j].commit].version = releases[j].version
        /\ i # j => releases[i].version # releases[j].version
    BY DEF IInv, TagInv
  <2>2. ASSUME releases[i].commit < releases[j].commit
        PROVE  Before(releases[i].version, releases[j].version)
    <3>1. releases[i].commit \in Nat /\ releases[j].commit \in Nat
      BY CommitTypes DEF IInv
    <3>2. AtMost(releases[i].version, releases[j].version)
      BY <2>1, <2>2, <3>1 DEF IInv, MainInv
    <3>3. i # j
      BY <2>2, <3>1
    <3> QED
      BY <2>1, <3>2, <3>3 DEF AtMost
  <2> QED
    BY <2>1, <2>2 DEF Commits
<1> QED
  BY <1>1, ReleaseInvariant, PTL

\* A release counts what changed since each one made before it, in order.
THEOREM ReleasesCount ==
    ASSUME RaisesUp
    PROVE  Spec => []ChangesAreCounted
<1>1. IInv => ChangesAreCounted
  BY DEF IInv, CountInv
<1> QED
  BY <1>1, ReleaseInvariant, PTL

\* Images are those of releases; a release without them is one a command ended after.
THEOREM ImagesOfReleases ==
    ASSUME RaisesUp
    PROVE  Spec => []ImagesFollow
<1>1. IInv => ImagesFollow
  BY DEF IInv
<1> QED
  BY <1>1, ReleaseInvariant, PTL

=============================================================================
