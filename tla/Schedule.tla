------------------------------ MODULE Schedule ------------------------------
(***************************************************************************)
(* When a student may read an exercise: the single opening rule of         *)
(* packages/content/src/schedule.rs and schedule/.                         *)
(*                                                                         *)
(* Instants and durations are natural numbers of one unit.  The code       *)
(* counts 64 bits of seconds: a product overflows for a window longer than *)
(* a century with a percentage of 2^32, which is left out.                 *)
(***************************************************************************)
EXTENDS Integers, FiniteSets

CONSTANT None   \* the Option that is None

Windows == [opens_at : Nat, closes_at : Nat]
Accommodations == [extra_time : {"percent", "fixed"}, amount : Nat, start_shift : Nat]

Schedules == [extension : Windows \cup {None}, group : Windows \cup {None},
              offering : Windows \cup {None}, accommodation : Accommodations \cup {None},
              mode_applies_accommodation : BOOLEAN]

ASSUME ScheduleAssumption == None \notin Windows /\ None \notin Accommodations /\ None \notin Nat

Window(opens, closes) == [opens_at |-> opens, closes_at |-> closes]

\* Mutant: the closing instant is still open.
contains_Closed(w, now) == w.opens_at <= now /\ now <= w.closes_at

contains(w, now) == w.opens_at <= now /\ now < w.closes_at

\* duration_since fails on a reversed window, whose length is then the default.
length(w) == IF w.opens_at <= w.closes_at THEN w.closes_at - w.opens_at ELSE 0

extra(a, w) ==
    IF a.extra_time = "percent" THEN (length(w) * a.amount) \div 100 ELSE a.amount

\* Mutant: an empty or a reversed window gets its extra time too.
apply_Always(a, w) ==
    Window(w.opens_at + a.start_shift, w.closes_at + a.start_shift + extra(a, w))

apply(a, w) ==
    IF length(w) = 0 THEN w
    ELSE Window(w.opens_at + a.start_shift, w.closes_at + a.start_shift + extra(a, w))

\* extension.or(group).or(offering)
dates(s) ==
    IF s.extension # None THEN s.extension
    ELSE IF s.group # None THEN s.group ELSE s.offering

window(s) ==
    IF dates(s) # None /\ s.accommodation # None /\ s.mode_applies_accommodation
    THEN apply(s.accommodation, dates(s))
    ELSE dates(s)

is_open(s, now) == window(s) # None /\ contains(window(s), now)

\* Mutant: the session closes at the dates, accommodations aside.
closings_Plain(students) == {dates(s).closes_at : s \in {t \in students : dates(t) # None}}

closings(students) == {window(s).closes_at : s \in {t \in students : window(t) # None}}

\* The latest closing of the students who have a window.
session_closes_at(students) ==
    IF closings(students) = {} THEN None
    ELSE CHOOSE t \in closings(students) : \A u \in closings(students) : u <= t

=============================================================================
