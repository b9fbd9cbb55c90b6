--------------------------- MODULE ContentProofs ---------------------------
(***************************************************************************)
(* The properties of the schedule, for every date, accommodation and count *)
(* of students, and of the gate, for any revisions and contents besides.   *)
(*                                                                         *)
(* The argument of AnswersAMoment: the answer is settled at the instant    *)
(* the pointer is read, since a release never changes; only a release that *)
(* is pruned after that instant makes the call find less.                  *)
(***************************************************************************)
EXTENDS Content, SequenceTheorems, FiniteSetTheorems, WellFoundedInduction, TLAPS

-----------------------------------------------------------------------------
(* The schedule *)

\* The extra time of an accommodation is a duration: never negative.
LEMMA ExtraIsNat ==
    ASSUME NEW a \in Accommodations, NEW w \in Windows
    PROVE  length(w) \in Nat /\ extra(a, w) \in Nat
<1>1. w.opens_at \in Nat /\ w.closes_at \in Nat /\ a.amount \in Nat
  BY DEF Windows, Accommodations
<1>2. length(w) \in Nat
  BY <1>1 DEF length
<1>3. \A n \in Nat : n \div 100 \in Nat
  OBVIOUS
<1>4. length(w) * a.amount \in Nat
  BY <1>1, <1>2
<1>. QED
  BY <1>1, <1>2, <1>3, <1>4 DEF extra

\* An accommodated window is a window.
LEMMA ApplyType ==
    ASSUME NEW a \in Accommodations, NEW w \in Windows
    PROVE  apply(a, w) \in Windows
<1>1. a.start_shift \in Nat /\ w.opens_at \in Nat /\ w.closes_at \in Nat
  BY DEF Windows, Accommodations
<1>. QED
  BY <1>1, ExtraIsNat DEF apply, Window, Windows

\* The window of a student is a window, with an accommodation and without.
LEMMA WindowType ==
    ASSUME NEW s \in Schedules
    PROVE  window(s) \in Windows \cup {None}
<1>1. dates(s) \in Windows \cup {None} /\ s.accommodation \in Accommodations \cup {None}
  BY DEF dates, Schedules
<1>. QED
  BY <1>1, ApplyType DEF window

-----------------------------------------------------------------------------
\* An accommodation never takes time away: a window that has any keeps all of
\* it, moved by the shift, and gains exactly the extra time (accommodation.rs).
THEOREM AccommodationAddsTime ==
    ASSUME NEW a \in Accommodations, NEW w \in Windows, length(w) # 0
    PROVE  /\ length(apply(a, w)) = length(w) + extra(a, w)
           /\ length(apply(a, w)) >= length(w)
<1>1. a.start_shift \in Nat /\ w.opens_at \in Nat /\ w.closes_at \in Nat
  BY DEF Windows, Accommodations
<1>2. w.opens_at <= w.closes_at /\ length(w) = w.closes_at - w.opens_at
  BY <1>1 DEF length
<1>3. extra(a, w) \in Nat
  BY ExtraIsNat
<1>4. /\ apply(a, w).opens_at = w.opens_at + a.start_shift
      /\ apply(a, w).closes_at = w.closes_at + a.start_shift + extra(a, w)
  BY DEF apply, Window
<1>. HIDE DEF apply, extra
<1>. QED
  BY <1>1, <1>2, <1>3, <1>4 DEF length

\* Extra time opens no window that has no time: empty or reversed dates stay
\* closed at every instant, whatever the accommodation.
THEOREM EmptyStaysClosed ==
    ASSUME NEW s \in Schedules, dates(s) # None, length(dates(s)) = 0, NEW now \in Nat
    PROVE  ~is_open(s, now)
<1>1. window(s) = dates(s) /\ dates(s) \in Windows
  BY DEF window, apply, dates, Schedules
<1>2. dates(s).opens_at \in Nat /\ dates(s).closes_at \in Nat
  BY <1>1 DEF Windows
<1>. HIDE DEF dates
<1>. QED
  BY <1>1, <1>2 DEF is_open, contains, length

\* A postponement of the dates postpones the accommodated window by as much:
\* the accommodation is relative, and its extra time does not depend on when.
THEOREM PostponementFollows ==
    ASSUME NEW a \in Accommodations, NEW w \in Windows, NEW d \in Nat
    PROVE  LET later == Window(w.opens_at + d, w.closes_at + d)
               x == apply(a, w)
           IN  apply(a, later) = Window(x.opens_at + d, x.closes_at + d)
<1>. DEFINE later == Window(w.opens_at + d, w.closes_at + d)
<1>1. a.start_shift \in Nat /\ w.opens_at \in Nat /\ w.closes_at \in Nat
  BY DEF Windows, Accommodations
<1>2. w = Window(w.opens_at, w.closes_at)
  BY DEF Windows, Window
<1>3. later.opens_at = w.opens_at + d /\ later.closes_at = w.closes_at + d
  BY DEF Window
<1>4. length(later) = length(w)
  BY <1>1, <1>3 DEF length
<1>5. extra(a, later) = extra(a, w) /\ extra(a, w) \in Nat
  BY <1>4, ExtraIsNat DEF extra
<1>6. CASE length(w) = 0
  BY <1>2, <1>4, <1>6 DEF apply
<1>7. CASE length(w) # 0
  <2>1. apply(a, later) = Window(w.opens_at + d + a.start_shift,
                                 w.closes_at + d + a.start_shift + extra(a, w))
    BY <1>3, <1>4, <1>5, <1>7 DEF apply
  <2>2. /\ apply(a, w).opens_at = w.opens_at + a.start_shift
        /\ apply(a, w).closes_at = w.closes_at + a.start_shift + extra(a, w)
    BY <1>7 DEF apply, Window
  <2>3. apply(a, w).opens_at + d = w.opens_at + d + a.start_shift
    BY <1>1, <2>2
  <2>4. apply(a, w).closes_at + d = w.closes_at + d + a.start_shift + extra(a, w)
    <3>. HIDE DEF apply, extra
    <3>. QED  BY <1>1, <1>5, <2>2
  <2>. HIDE DEF later, apply, extra
  <2>. QED
    BY <2>1, <2>3, <2>4 DEF later
<1>. QED
  BY <1>6, <1>7

\* Time alone never opens an exercise again: what was open and is closed stays
\* closed until the dates are changed.
THEOREM OpenOnce ==
    ASSUME NEW s \in Schedules, NEW t1 \in Nat, NEW t2 \in Nat, NEW t3 \in Nat,
           t1 <= t2, t2 <= t3, is_open(s, t1), ~is_open(s, t2)
    PROVE  ~is_open(s, t3)
<1>1. window(s) \in Windows
  BY WindowType DEF is_open
<1>2. window(s).opens_at \in Nat /\ window(s).closes_at \in Nat
  BY <1>1 DEF Windows
<1>. HIDE DEF window
<1>. QED
  BY <1>2 DEF is_open, contains

-----------------------------------------------------------------------------
\* A finite set of instants has a latest one.
LEMMA Latest ==
    ASSUME NEW S, IsFiniteSet(S), S \subseteq Nat, S # {}
    PROVE  \E t \in S : \A u \in S : u <= t
<1>. DEFINE Bad == {T \in SUBSET S : T # {} /\ ~ \E t \in T : \A u \in T : u <= t}
<1>. SUFFICES ASSUME Bad # {} PROVE FALSE
  OBVIOUS
<1>1. IsWellFoundedOn(StrictSubsetOrdering(S), SUBSET S)
  BY FS_StrictSubsetOrderingWellFounded, FS_FiniteSubsetsOfFinite
<1>2. PICK T \in Bad : \A U \in Bad : <<U, T>> \notin StrictSubsetOrdering(S)
  <2>. HIDE DEF Bad
  <2>1. Bad \subseteq SUBSET S
    BY DEF Bad
  <2>. QED
    BY <1>1, <2>1, WFMin
<1>3. PICK x \in T : TRUE
  OBVIOUS
<1>4. T \ {x} \notin Bad
  BY <1>2, <1>3 DEF StrictSubsetOrdering
<1>5. CASE T \ {x} = {}
  BY <1>3, <1>5
<1>6. CASE T \ {x} # {}
  <2>1. PICK t \in T \ {x} : \A u \in T \ {x} : u <= t
    BY <1>4, <1>6
  <2>2. x \in Nat /\ t \in Nat /\ \A u \in T : u \in Nat
    OBVIOUS
  <2>3. CASE x <= t
    BY <2>1, <2>2, <2>3
  <2>4. CASE t <= x
    BY <1>3, <2>1, <2>2, <2>4
  <2>. QED
    BY <2>2, <2>3, <2>4
<1>. QED
  BY <1>5, <1>6

\* The end of the session is the end of some window, and the latest.
LEMMA ClosingIsLatest ==
    ASSUME NEW students, IsFiniteSet(students), students \subseteq Schedules,
           closings(students) # {}
    PROVE  /\ session_closes_at(students) \in closings(students)
           /\ session_closes_at(students) \in Nat
           /\ \A u \in closings(students) : u \in Nat /\ u <= session_closes_at(students)
<1>. DEFINE some == {t \in students : window(t) # None}
            f == [t \in some |-> window(t).closes_at]
<1>1. \A t \in some : window(t).closes_at \in Nat
  BY WindowType DEF Windows
<1>2. closings(students) \subseteq Nat
  BY <1>1 DEF closings
<1>3. IsFiniteSet(closings(students))
  <2>1. IsFiniteSet(some)
    BY FS_Subset
  <2>2. f \in Surjection(some, closings(students))
    BY DEF closings, Surjection
  <2>. QED
    BY <2>1, <2>2, FS_Surjection
<1>4. \E t \in closings(students) : \A u \in closings(students) : u <= t
  BY <1>2, <1>3, Latest
<1>. HIDE DEF closings
<1>. QED
  BY <1>2, <1>4 DEF session_closes_at

\* It is an instant, when there is a window.
LEMMA ClosingIsNat ==
    ASSUME NEW students, IsFiniteSet(students), students \subseteq Schedules
    PROVE  session_closes_at(students) \in Nat \cup {None}
  BY ClosingIsLatest DEF session_closes_at

\* The session is over when every student's window is: after the instant
\* session_closes_at gives, or when it gives none, nobody may read (session.rs).
THEOREM SessionClosesLast ==
    ASSUME NEW students, IsFiniteSet(students), students \subseteq Schedules, NEW now \in Nat,
           \/ session_closes_at(students) = None
           \/ session_closes_at(students) <= now
    PROVE  \A s \in students : ~is_open(s, now)
<1>. SUFFICES ASSUME NEW s \in students, is_open(s, now) PROVE FALSE
  OBVIOUS
<1>. DEFINE end == session_closes_at(students)
<1>1. window(s) # None /\ now < window(s).closes_at
  BY DEF is_open, contains
<1>2. window(s).closes_at \in closings(students)
  BY <1>1 DEF closings
<1>3. window(s).closes_at \in Nat /\ window(s).closes_at <= end /\ end \in Nat
  BY <1>2, ClosingIsLatest
<1>4. end <= now
  BY <1>3, ScheduleAssumption
<1>. HIDE DEF end
<1>. QED
  BY <1>1, <1>3, <1>4

-----------------------------------------------------------------------------
(* The gate *)

\* The least and the greatest of 1..n.
LEMMA Bounds == ASSUME NEW n \in Nat, n > 0, NEW S, S = 1..n
                PROVE  S # {} /\ Min(S) = 1 /\ Max(S) = n
<1>1. \A x \in S : (\A y \in S : x <= y) <=> x = 1
  OBVIOUS
<1>2. \A x \in S : (\A y \in S : x >= y) <=> x = n
  OBVIOUS
<1>3. 1 \in S /\ n \in S
  OBVIOUS
<1>4. Min(S) = 1
  BY <1>1, <1>3, Zenon DEF Min
<1>5. Max(S) = n
  BY <1>2, <1>3, Zenon DEF Max
<1>. QED
  BY <1>3, <1>4, <1>5

\* Text without white space around it, or within.
LEMMA TrimToText ==
    ASSUME NEW s, NEW n \in Nat,
           \A i : i \in DOMAIN s /\ s[i] \notin WhiteSpace <=> i \in 1..n
    PROVE  /\ n = 0 => trim(s) = <<>>
           /\ n > 0 => trim(s) = SubSeq(s, 1, n)
<1>. DEFINE ink == {i \in DOMAIN s : s[i] \notin WhiteSpace}
<1>1. ink = 1..n
  BY Zenon
<1>2. trim(s) = IF ink = {} THEN <<>> ELSE SubSeq(s, Min(ink), Max(ink))
  BY Zenon DEF trim
<1>. HIDE DEF ink
<1>3. ASSUME n > 0 PROVE trim(s) = SubSeq(s, 1, n)
  <2>1. ink # {} /\ Min(ink) = 1 /\ Max(ink) = n
    BY <1>1, <1>3, Bounds
  <2>. QED
    BY <1>2, <2>1
<1>4. ASSUME n = 0 PROVE trim(s) = <<>>
  BY <1>1, <1>2, <1>4
<1>. QED
  BY <1>3, <1>4

\* A digit of a revision is no white space and a byte.
LEMMA HexIsText == \A b \in HexDigits : b \notin WhiteSpace /\ b # 256
  BY DEF HexDigits, Digits, WhiteSpace

\* A complete pointer names its revision (release.rs:11-13).
LEMMA WholePointer == ASSUME NEW r \in Revisions PROVE active_release(Append(r, LF)) = Ok(r)
<1>1. r \in Seq(HexDigits) /\ Len(r) \in Nat /\ Len(r) > 0
  BY ContentAssumption
<1>. SUFFICES ASSUME NEW s, s = Append(r, LF) PROVE active_release(s) = Ok(r)
  OBVIOUS
<1>2. /\ DOMAIN s = 1..(Len(r) + 1)
      /\ \A i \in 1..Len(r) : s[i] = r[i] /\ s[i] \in HexDigits
      /\ s[Len(r) + 1] = 10
  BY <1>1 DEF LF
<1>3. \A i : i \in DOMAIN s /\ s[i] \notin WhiteSpace <=> i \in 1..Len(r)
  BY <1>1, <1>2, HexIsText DEF WhiteSpace
<1>4. trim(s) = SubSeq(s, 1, Len(r))
  BY <1>1, <1>3, TrimToText
<1>5. SubSeq(s, 1, Len(r)) = r
  BY <1>1
<1>6. s # NoFile
  BY <1>1, <1>2, HexIsText DEF NoFile
<1>7. r # <<>> /\ \A i \in DOMAIN r : r[i] \in HexDigits
  BY <1>1
<1>. QED
  BY <1>4, <1>5, <1>6, <1>7 DEF active_release

\* A torn one names no revision.
LEMMA TornPointer ==
    ASSUME NEW r \in Revisions, NEW n \in 0..Len(r) - 1, NEW s, s = SubSeq(r, 1, n),
           active_release(s).kind = "ok"
    PROVE  active_release(s).path \notin Revisions
<1>1. r \in Seq(HexDigits) /\ Len(r) \in Nat /\ n \in Nat
  BY ContentAssumption
<1>2. s \in Seq(HexDigits) /\ Len(s) = n
  BY <1>1
<1>3. \A i : i \in DOMAIN s /\ s[i] \notin WhiteSpace <=> i \in 1..n
  BY <1>1, <1>2, HexIsText
<1>4. trim(s) = s
  <2>1. CASE n = 0
    <3>1. s = <<>>
      BY <1>2, <2>1
    <3>2. trim(s) = <<>>
      BY <1>1, <1>3, <2>1, TrimToText
    <3>. QED
      BY <3>1, <3>2
  <2>2. CASE n > 0
    <3>1. SubSeq(s, 1, n) = s
      BY <1>1, <1>2
    <3>. QED
      BY <1>1, <1>3, <2>2, <3>1, TrimToText
  <2>. QED
    BY <1>1, <2>1, <2>2
<1>5. s \notin Revisions
  <2>1. Len(s) # Len(r)
    BY <1>1, <1>2
  <2>. QED
    BY <2>1, ContentAssumption
<1>. QED
  BY <1>4, <1>5 DEF active_release, Err, Ok

-----------------------------------------------------------------------------
(* AnswersAMoment *)

\* The pointer is a revision, whole or torn, and a whole one names a release
\* that is there; a release that was pruned does not come back.
DiskIsSound ==
    /\ \/ pointer = NoFile
       \/ \E r \in Revisions : \/ pointer = Append(r, LF) /\ r \in DOMAIN releases
                              \/ \E n \in 0..Len(r) - 1 : pointer = SubSeq(r, 1, n)
    /\ DOMAIN releases \subseteq Revisions
    /\ DOMAIN releases \cap pruned = {}

\* What the call answers once the pointer is read, as that instant had it.
Settled(dir) == Gated(dir, args.schedule, args.now) \in moments

GateInv ==
    /\ DiskIsSound
    /\ InCall => accessible_exercise \in moments
    /\ pc = "directory" =>
          \/ /\ found.path \in DOMAIN releases
             /\ Settled(exercise_dir(releases[found.path], found.path, args.id))
          \/ found.path \in pruned
          \/ found.path \notin Revisions /\ Err("not-found") \in moments
    /\ pc = "schedule" => Settled(Ok(<<found.path, args.id>>))
    /\ AnswersAMoment

\* What the world does leaves the call as it was: releases do not change.
LEMMA WorldStep ==
    ASSUME GateInv, UNCHANGED <<pc, args, found, answer>>, Remember, DiskIsSound',
           pruned \subseteq pruned',
           \A q \in DOMAIN releases :
               q \in pruned' \/ (q \in DOMAIN releases' /\ releases'[q] = releases[q])
    PROVE  GateInv'
<1>1. moments \subseteq moments' /\ (pc = "answered" => moments' = moments)
  BY DEF Remember, InCall
<1>2. InCall' => accessible_exercise' \in moments'
  BY DEF Remember, InCall
<1>3. ASSUME pc = "directory"
      PROVE  \/ /\ found.path \in DOMAIN releases'
                /\ Settled(exercise_dir(releases[found.path], found.path, args.id))'
             \/ found.path \in pruned'
             \/ found.path \notin Revisions /\ Err("not-found") \in moments'
  <2>1. CASE found.path \in DOMAIN releases /\ found.path \notin pruned'
    <3>1. /\ found.path \in DOMAIN releases' /\ releases'[found'.path] = releases[found.path]
          /\ UNCHANGED <<found, args>>
      BY <2>1
    <3>2. Settled(exercise_dir(releases[found.path], found.path, args.id))
      BY <1>3, <2>1 DEF GateInv, DiskIsSound
    <3>3. exercise_dir(releases[found.path], found.path, args.id)'
            = exercise_dir(releases[found.path], found.path, args.id)
      BY <3>1 DEF exercise_dir
    <3>. HIDE DEF exercise_dir
    <3>. QED
      BY <1>1, <3>1, <3>2, <3>3 DEF Settled
  <2>2. CASE found.path \notin DOMAIN releases
    BY <1>1, <1>3, <2>2 DEF GateInv
  <2>. QED
    BY <2>1, <2>2
<1>4. pc' = "schedule" => Settled(Ok(<<found.path, args.id>>))'
  BY <1>1 DEF GateInv, Settled
<1>5. AnswersAMoment'
  BY <1>1 DEF GateInv, AnswersAMoment
<1>. QED
  BY <1>2, <1>3, <1>4, <1>5 DEF GateInv

\* The empty disk has no exercise.
LEMMA NothingThere == ASSUME NEW q, NEW id PROVE exercise_dir(<<>>, q, id) = Err("not-found")
  BY DEF exercise_dir

\* Every step keeps what the answer of the call says of its moments.
LEMMA GateStep == ASSUME GateInv, [Next]_vars PROVE GateInv'
<1>. DEFINE dir(q) == exercise_dir(Disk(q), q, args.id)
<1>1. CASE Tick
  BY <1>1, WorldStep DEF Tick, World, GateInv, DiskIsSound
<1>2. ASSUME NEW st \in Students, NEW s \in Entered, Reschedule(st, s) PROVE GateInv'
  BY <1>2, WorldStep DEF Reschedule, World, GateInv, DiskIsSound
<1>3. ASSUME NEW r \in Revisions, NEW content \in Contents, Publish(r, content) PROVE GateInv'
  <2>1. DiskIsSound'
    BY <1>3 DEF Publish, GateInv, DiskIsSound
  <2>. QED
    BY <1>3, <2>1, WorldStep DEF Publish, World, GateInv, DiskIsSound
<1>4. ASSUME NEW r \in Revisions, NEW n \in 0..Len(r) - 1, Tear(r, n) PROVE GateInv'
  BY <1>4, WorldStep DEF Tear, World, GateInv, DiskIsSound
<1>5. ASSUME NEW r \in Revisions, Switch(r) PROVE GateInv'
  BY <1>5, WorldStep DEF Switch, World, GateInv, DiskIsSound
<1>6. ASSUME NEW r \in Revisions, Prune(r) PROVE GateInv'
  <2>1. DiskIsSound'
    BY <1>6 DEF Prune, GateInv, DiskIsSound
  <2>. QED
    BY <1>6, <2>1, WorldStep DEF Prune, World, GateInv, DiskIsSound
<1>7. ASSUME NEW st \in Students, NEW id \in Asked, Call(st, id) PROVE GateInv'
  BY <1>7 DEF Call, world, GateInv, DiskIsSound, InCall, AnswersAMoment
<1>8. CASE ReadPointer
  <2>1. /\ UNCHANGED <<world, args, moments>> /\ found' = active_release(pointer)
        /\ pc = "pointer" /\ accessible_exercise \in moments
    BY <1>8 DEF ReadPointer, GateInv, InCall
  <2>2. accessible_exercise' = accessible_exercise /\ DiskIsSound'
    BY <2>1 DEF world, accessible_exercise, Disk, GateInv, DiskIsSound
  <2>3. CASE found'.kind = "ok"
    <3>. DEFINE q == found'.path
    <3>1. pc' = "directory" /\ Settled(dir(q))
      <4>. HIDE DEF exercise_dir, Disk
      <4>. QED
        BY <1>8, <2>1, <2>3 DEF ReadPointer, accessible_exercise, Settled
    <3>2. q \in DOMAIN releases \/ q \notin Revisions
      <4>1. pointer # NoFile
        BY <2>1, <2>3 DEF active_release, Err
      <4>2. PICK r \in Revisions :
               \/ pointer = Append(r, LF) /\ r \in DOMAIN releases
               \/ \E n \in 0..Len(r) - 1 : pointer = SubSeq(r, 1, n)
        BY <4>1 DEF GateInv, DiskIsSound
      <4>3. CASE pointer = Append(r, LF) /\ r \in DOMAIN releases
        BY <2>1, <4>3, WholePointer DEF Ok
      <4>4. CASE \E n \in 0..Len(r) - 1 : pointer = SubSeq(r, 1, n)
        <5>1. PICK n \in 0..Len(r) - 1 : pointer = SubSeq(r, 1, n)
          BY <4>4
        <5>. QED
          BY <2>1, <2>3, <5>1, TornPointer
      <4>. QED
        BY <4>2, <4>3, <4>4
    <3>3. q \in DOMAIN releases => Settled(exercise_dir(releases[q], q, args.id))
      BY <3>1 DEF Disk
    <3>4. q \notin Revisions => Err("not-found") \in moments
      <4>1. q \notin Revisions => dir(q) = Err("not-found")
        BY NothingThere DEF Disk, GateInv, DiskIsSound
      <4>. QED
        BY <3>1, <4>1 DEF Settled, Gated, Err
    <3>. HIDE DEF exercise_dir, Settled
    <3>. QED
      BY <2>1, <2>2, <3>1, <3>2, <3>3, <3>4 DEF world, GateInv, Settled, InCall, AnswersAMoment
  <2>4. CASE found'.kind # "ok"
    <3>1. pc' = "answered" /\ answer' = active_release(pointer)
      BY <1>8, <2>1, <2>4 DEF ReadPointer, Return
    <3>2. answer' \in moments
      BY <2>1, <2>4, <3>1 DEF accessible_exercise
    <3>. QED
      BY <2>1, <2>2, <3>1, <3>2 DEF GateInv, InCall, AnswersAMoment
  <2>. QED
    BY <2>3, <2>4
<1>9. CASE FindExercise
  <2>. DEFINE q == found.path
  <2>1. /\ UNCHANGED <<world, args, found, moments>>
        /\ pc = "directory" /\ accessible_exercise \in moments
    BY <1>9 DEF FindExercise, GateInv, InCall
  <2>2. accessible_exercise' = accessible_exercise /\ DiskIsSound'
    BY <2>1 DEF world, accessible_exercise, Disk, GateInv, DiskIsSound
  <2>3. Settled(dir(q)) \/ (q \in pruned /\ dir(q) = Err("not-found"))
    <3>1. q \in DOMAIN releases => dir(q) = exercise_dir(releases[q], q, args.id)
      BY DEF Disk
    <3>2. q \notin DOMAIN releases => dir(q) = Err("not-found")
      BY NothingThere DEF Disk
    <3>3. Settled(Err("not-found")) <=> Err("not-found") \in moments
      BY DEF Settled, Gated, Err
    <3>. HIDE DEF dir
    <3>. QED
      BY <2>1, <3>1, <3>2, <3>3 DEF GateInv, DiskIsSound
  <2>4. dir(q).kind = "ok" => dir(q) = Ok(<<q, args.id>>)
    BY DEF exercise_dir, Ok, Err
  <2>5. dir(q).kind # "ok" => (Settled(dir(q)) <=> dir(q) \in moments)
    BY DEF Settled, Gated
  <2>6. Err("not-found").kind # "ok"
    BY DEF Err
  <2>7. \/ dir(q).kind = "ok" /\ pc' = "schedule"
        \/ dir(q).kind # "ok" /\ pc' = "answered" /\ answer' = dir(q)
    BY <1>9 DEF FindExercise, Return
  <2>. HIDE DEF dir
  <2>8. CASE pc' = "schedule"
    <3>1. Settled(Ok(<<q, args.id>>))
      BY <2>3, <2>4, <2>6, <2>7, <2>8
    <3>. QED
      BY <2>1, <2>2, <2>8, <3>1 DEF GateInv, InCall, Settled, AnswersAMoment
  <2>9. CASE pc' = "answered"
    <3>1. answer' \in moments \/ (answer' = Err("not-found") /\ q \in pruned)
      BY <2>3, <2>5, <2>7, <2>9
    <3>. QED
      BY <2>1, <2>2, <2>9, <3>1 DEF GateInv, InCall, AnswersAMoment, world
  <2>. QED
    BY <2>7, <2>8, <2>9
<1>10. CASE CheckSchedule
  BY <1>10 DEF CheckSchedule, Return, world, GateInv, DiskIsSound, InCall, Settled, AnswersAMoment
<1>11. CASE UNCHANGED vars
  BY <1>11 DEF vars, world, call, GateInv, DiskIsSound, InCall, Settled, AnswersAMoment,
               accessible_exercise, Disk
<1>. QED
  BY <1>1, <1>2, <1>3, <1>4, <1>5, <1>6, <1>7, <1>8, <1>9, <1>10, <1>11 DEF Next, PublisherStep

\* Every call takes effect at one instant between its start and its end, but for
\* a release pruned under it (gate.rs:19-26, release.rs:9, exercise.rs:12).
THEOREM GateIsAtomic == Spec => []AnswersAMoment
<1>1. Init => GateInv
  BY DEF Init, GateInv, DiskIsSound, InCall, AnswersAMoment
<1>2. GateInv /\ [Next]_vars => GateInv'
  BY GateStep
<1>3. GateInv => AnswersAMoment
  BY DEF GateInv
<1>. QED
  BY <1>1, <1>2, <1>3, PTL DEF Spec

-----------------------------------------------------------------------------
(* ReadWhenDue and SessionOutlivesStudents *)

\* The rule of the code and the count of ADR-0020 agree at every instant.
LEMMA OpenIsDue == ASSUME NEW s \in Schedules, NEW now \in Nat
                   PROVE  is_open(s, now) <=> now \in Due(s)
<1>1. CASE dates(s) = None
  BY <1>1 DEF is_open, window, Due
<1>2. CASE dates(s) # None
  <2>. DEFINE w == dates(s)
              n == Cardinality(w.opens_at..(w.closes_at - 1))
  <2>1. w \in Windows
    BY <1>2 DEF dates, Schedules
  <2>2. w.opens_at \in Nat /\ w.closes_at \in Nat
    BY <2>1 DEF Windows
  <2>. HIDE DEF w
  <2>3. n = length(w)
    <3>1. w.closes_at - 1 \in Int /\ w.opens_at \in Int
      BY <2>2
    <3>2. n = IF w.opens_at > w.closes_at - 1 THEN 0 ELSE (w.closes_at - 1) - w.opens_at + 1
      BY <3>1, FS_Interval
    <3>. HIDE DEF n
    <3>. QED
      BY <2>2, <3>2 DEF length
  <2>. HIDE DEF n
  <2>4. CASE s.accommodation # None /\ s.mode_applies_accommodation
    <3>. DEFINE a == s.accommodation
    <3>1. a \in Accommodations
      BY <2>4 DEF Schedules
    <3>2. a.start_shift \in Nat /\ extra(a, w) \in Nat /\ length(w) \in Nat
      BY <2>1, <3>1, ExtraIsNat DEF Accommodations
    <3>3. a.extra_time # "percent" <=> a.extra_time = "fixed"
      BY <3>1 DEF Accommodations
    <3>4. window(s) = apply(a, w)
      BY <1>2, <2>4 DEF window, w
    <3>5. Due(s) = LET start == w.opens_at + a.start_shift
                       added == IF n = 0 THEN 0 ELSE extra(a, w)
                   IN  start..(start + n + added - 1)
      BY <1>2, <2>3, <2>4, <3>3 DEF Due, w, n, extra
    <3>. HIDE DEF a
    <3>6. CASE length(w) = 0
      <4>1. window(s) = w
        BY <3>4, <3>6 DEF apply
      <4>2. ~is_open(s, now)
        BY <2>2, <3>6, <4>1 DEF is_open, contains, length
      <4>3. Due(s) = {}
        <5>. HIDE DEF Due, length, extra
        <5>. QED
          BY <2>2, <2>3, <3>2, <3>5, <3>6
      <4>. QED
        BY <4>2, <4>3
    <3>7. CASE length(w) # 0
      <4>1. length(w) = w.closes_at - w.opens_at
        BY <3>7 DEF length
      <4>2. /\ window(s).opens_at = w.opens_at + a.start_shift
            /\ window(s).closes_at = w.closes_at + a.start_shift + extra(a, w)
            /\ window(s) # None
        <5>1. window(s) = Window(w.opens_at + a.start_shift,
                                 w.closes_at + a.start_shift + extra(a, w))
          BY <3>4, <3>7 DEF apply
        <5>2. window(s) # None
          <6>. HIDE DEF window, apply
          <6>. QED
            BY <2>1, <3>1, <3>4, ApplyType, ScheduleAssumption DEF a
        <5>. QED
          BY <5>1, <5>2 DEF Window
      <4>. HIDE DEF Due, length, extra, window
      <4>3. is_open(s, now) <=> /\ w.opens_at + a.start_shift <= now
                                /\ now < w.closes_at + a.start_shift + extra(a, w)
        BY <4>2 DEF is_open, contains
      <4>. QED
        BY <2>2, <2>3, <3>2, <3>5, <3>7, <4>1, <4>3
    <3>. QED
      BY <3>6, <3>7
  <2>5. CASE ~(s.accommodation # None /\ s.mode_applies_accommodation)
    <3>1. window(s) = w /\ w # None
      BY <1>2, <2>5 DEF window, w
    <3>2. Due(s) = w.opens_at..(w.opens_at + n - 1)
      <4>1. Due(s) = (w.opens_at + 0)..((w.opens_at + 0) + n + 0 - 1)
        BY <1>2, <2>5 DEF Due, w, n
      <4>. HIDE DEF Due
      <4>2. n \in Int
        BY <2>2, <2>3 DEF length
      <4>. QED
        BY <2>2, <4>1, <4>2
    <3>. HIDE DEF Due, window
    <3>3. is_open(s, now) <=> w.opens_at <= now /\ now < w.closes_at
      BY <3>1 DEF is_open, contains
    <3>. QED
      BY <2>2, <2>3, <3>2, <3>3 DEF length
  <2>. QED
    BY <2>4, <2>5
<1>. QED
  BY <1>1, <1>2

\* The dates and the time a call works with, and what its answer says of them.
DueInv ==
    /\ clock \in Nat /\ schedule \in [Students -> Schedules]
    /\ pc = "idle" => answer = Err("none")
    /\ pc # "idle" => args.schedule \in Schedules /\ args.now \in Nat
    /\ answer.kind = "ok" => is_open(args.schedule, args.now)
    /\ answer.kind = "closed" => ~is_open(args.schedule, args.now)

\* Every step keeps the dates and the time the call works with, and its answer.
LEMMA DueStep == ASSUME DueInv, [Next]_vars PROVE DueInv'
<1>. USE ContentAssumption
<1>1. CASE Tick
  BY <1>1 DEF Tick, World, DueInv
<1>2. ASSUME NEW st \in Students, NEW s \in Entered, Reschedule(st, s) PROVE DueInv'
  BY <1>2 DEF Reschedule, World, DueInv
<1>3. ASSUME NEW r \in Revisions, NEW content \in Contents, Publish(r, content) PROVE DueInv'
  BY <1>3 DEF Publish, World, DueInv
<1>4. ASSUME NEW r \in Revisions, NEW n \in 0..Len(r) - 1, Tear(r, n) PROVE DueInv'
  BY <1>4 DEF Tear, World, DueInv
<1>5. ASSUME NEW r \in Revisions, Switch(r) PROVE DueInv'
  BY <1>5 DEF Switch, World, DueInv
<1>6. ASSUME NEW r \in Revisions, Prune(r) PROVE DueInv'
  BY <1>6 DEF Prune, World, DueInv
<1>7. ASSUME NEW st \in Students, NEW id \in Asked, Call(st, id) PROVE DueInv'
  BY <1>7 DEF Call, world, DueInv, Err
<1>8. CASE ReadPointer
  <2>1. pc = "pointer" /\ UNCHANGED <<clock, schedule, args>> /\ pc' \in {"directory", "answered"}
    BY <1>8 DEF ReadPointer, Return, world
  <2>2. answer' = answer \/ answer'.kind \in {"not-found", "invalid"}
    BY <1>8 DEF ReadPointer, Return, active_release, Ok, Err
  <2>. QED
    BY <2>1, <2>2 DEF DueInv
<1>9. CASE FindExercise
  <2>1. /\ pc = "directory" /\ UNCHANGED <<clock, schedule, args>>
        /\ pc' \in {"schedule", "answered"}
    BY <1>9 DEF FindExercise, Return, world
  <2>2. answer' = answer \/ answer'.kind \in {"not-found", "invalid"}
    BY <1>9 DEF FindExercise, Return, exercise_dir, Ok, Err
  <2>. QED
    BY <2>1, <2>2 DEF DueInv
<1>10. CASE CheckSchedule
  BY <1>10 DEF CheckSchedule, Return, Gated, Ok, Err, world, DueInv
<1>11. CASE UNCHANGED vars
  BY <1>11 DEF vars, world, call, DueInv
<1>. QED
  BY <1>1, <1>2, <1>3, <1>4, <1>5, <1>6, <1>7, <1>8, <1>9, <1>10, <1>11 DEF Next, PublisherStep

\* They are what its answer says of them, in every reachable state.
LEMMA DueInvariant == Spec => []DueInv
<1>1. Init => DueInv
  BY ContentAssumption DEF Init, DueInv, Err
<1>2. DueInv /\ [Next]_vars => DueInv'
  BY DueStep
<1>. QED
  BY <1>1, <1>2, PTL DEF Spec

\* Nothing is read outside of the student's time, and nobody is sent away within
\* it (gate.rs:22-26, schedule.rs:25-35).
THEOREM NobodyReadsUndue == Spec => []ReadWhenDue
<1>1. DueInv => ReadWhenDue
  BY OpenIsDue DEF DueInv, ReadWhenDue, Err
<1>. QED
  BY <1>1, DueInvariant, PTL

\* Once session_closes_at has passed no student may read, whatever the dates and
\* the accommodations have become (session.rs:7-13).
THEOREM SessionIsOver == Spec => []SessionOutlivesStudents
<1>1. DueInv => SessionOutlivesStudents
  <2>. SUFFICES ASSUME DueInv PROVE SessionOutlivesStudents
    OBVIOUS
  <2>. DEFINE f == [st \in Students |-> schedule[st]]
              all == {schedule[st] : st \in Students}
  <2>1. f \in Surjection(Students, all)
    BY DEF Surjection
  <2>2. IsFiniteSet(all) /\ all \subseteq Schedules /\ clock \in Nat
    BY <2>1, FS_Surjection, ContentAssumption DEF DueInv
  <2>. DEFINE end == session_closes_at(all)
  <2>3. ASSUME end = None \/ end <= clock PROVE \A s \in all : ~is_open(s, clock)
    BY <2>2, <2>3, SessionClosesLast
  <2>4. end = None \/ end \in Nat
    BY <2>2, ClosingIsNat
  <2>. HIDE DEF end
  <2>5. end = None \/ clock >= end => \A s \in all : ~is_open(s, clock)
    BY <2>2, <2>3, <2>4
  <2>. QED
    BY <2>5 DEF SessionOutlivesStudents, end
<1>. QED
  BY <1>1, DueInvariant, PTL

\* What the publisher accepts, the gate finds: both hold the same view of names
\* and of links (exercises.rs:11-29, exercise.rs:10-20).
THEOREM AcceptedIsFound == Spec => []ValidatedIsResolved
<1>1. ValidatedIsResolved
  BY DEF ValidatedIsResolved, validate, exercises, exercise_dir, Ok
<1>. QED
  BY <1>1, PTL

=============================================================================
