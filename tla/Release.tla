------------------------------ MODULE Release ------------------------------
(***************************************************************************)
(* .github/release.sh, command by command, as release.yml starts it: when  *)
(* a CI of main ends, one run at a time, on the commit CI saw.  The run of *)
(* a CI that was not a green push has its turn too, and skips its job.     *)
(* Around it, people push to main and start CI by hand, which cancels the  *)
(* CI before, CI is green or not, and any command may fail.                *)
(*                                                                         *)
(* main is a line of commits.  Tags are made by this script alone, so the  *)
(* clone of a run has them all.                                            *)
(***************************************************************************)
EXTENDS Versions, FiniteSets

CONSTANTS First,         \* the version of the first commit
          Pushed,        \* the kinds of commits people push
          Raises(_),     \* the versions a person may put in Cargo.toml after one
          MaxCommits,    \* bound on the pushes of people
          MaxFailures,   \* bound on failed commands
          MaxReruns,     \* bound on what is started by hand, and on pull requests
          None

ASSUME ReleaseAssumption ==
    /\ Pushed \subseteq Kinds
    /\ MaxCommits \in Nat /\ MaxFailures \in Nat /\ MaxReruns \in Nat /\ None \notin Nat

VARIABLES
    main,       \* the commits: kind, version in Cargo.toml, and who made it
    releases,   \* the tags in the order they were made: version and commit
    images,     \* versions whose images were asked for
    (* GitHub's two concurrency groups *)
    ci,         \* the newest CI run of main that has not ended, or None
    cancelled,  \* how many before it are cancelled and have not ended
    pending,    \* the commit of the run that waits for its turn, Skip, or None
    past,       \* the commits of the runs there have been
    (* the run in progress *)
    pc,         \* "idle", "read", "push", "verify", "create", "dispatch", "done" or "failed"
    base,       \* the commit checked out
    head,       \* HEAD
    version,    \* $version, or what it is about to be
    (* bounds and history *)
    failures, reruns,
    hurt,       \* what people pushed last has lost its CI, its run or a command
    orphans     \* versions released by a command after which the run ended

actions == <<ci, cancelled, pending, past>>
run == <<pc, base, head, version>>
vars == <<main, releases, images, actions, run, failures, reruns, hurt, orphans>>

\* The run of a CI that was not a green push: no commit has this number.
Skip == 0

Tagged == {releases[i].version : i \in DOMAIN releases}

\* git describe --tags --abbrev=0: the last tag at or before commit c, or nothing.
LastRelease(c) == {i \in DOMAIN releases :
                      /\ releases[i].commit <= c
                      /\ \A j \in DOMAIN releases : releases[j].commit <= c =>
                            releases[j].commit <= releases[i].commit}

\* The kinds of the commits after a and up to b.
Log(a, b) == {main[i].kind : i \in a + 1..b}

Init ==
    /\ main = <<[kind |-> "feat", version |-> First, by |-> "people"]>>
    /\ releases = <<>> /\ images = {}
    /\ ci = [commit |-> 1, event |-> "push"] /\ cancelled = 0 /\ pending = None /\ past = {}
    /\ pc = "idle" /\ base = 0 /\ head = 0 /\ version = First
    /\ failures = 0 /\ reruns = 0 /\ hurt = FALSE /\ orphans = {}

-----------------------------------------------------------------------------
(* Around the script, external *)

People == {i \in DOMAIN main : main[i].by = "people"}

\* The commit people pushed last: CI runs for it, not for the script's, whose
\* token triggers no workflow.
LastPush == CHOOSE i \in People : \A j \in People : j <= i

\* A CI run of main starts, and cancels the one before.
StartCi(commit, event) ==
    /\ ci' = [commit |-> commit, event |-> event]
    /\ cancelled' = IF ci = None THEN cancelled ELSE cancelled + 1

Push(kind, v) ==
    /\ Cardinality(People) < MaxCommits
    /\ main' = Append(main, [kind |-> kind, version |-> v, by |-> "people"])
    /\ StartCi(Len(main) + 1, "push")
    /\ hurt' = FALSE
    /\ UNCHANGED <<releases, images, pending, past, run, failures, reruns, orphans>>

\* By hand: the CI of a push is run again, or dispatched on the tip of main.
CiByHand(commit, event) ==
    /\ reruns < MaxReruns
    /\ event = "push" => commit \in People
    /\ event = "workflow_dispatch" => commit = Len(main)
    /\ ci # [commit |-> commit, event |-> event]
    /\ StartCi(commit, event)
    /\ reruns' = reruns + 1
    /\ hurt' = (hurt \/ ci = [commit |-> LastPush, event |-> "push"])
    /\ UNCHANGED <<main, releases, images, pending, past, run, failures, orphans>>

Resting == pc \in {"idle", "done", "failed"}

\* A run asks for its turn, on c or to skip: a free turn is given at once, and
\* the run that waits for one is cancelled.
Ask(c) ==
    /\ Resting => pending = None
    /\ pending' = c /\ past' = past \cup {c}

\* What c asks for is not what people pushed last, whose run was waiting.
Displaces(c) == pending = LastPush /\ c # LastPush

\* A cancelled CI has ended.
CiCancelled ==
    /\ cancelled > 0 /\ cancelled' = cancelled - 1
    /\ Ask(Skip)
    /\ hurt' = (hurt \/ Displaces(Skip))
    /\ UNCHANGED <<main, releases, images, ci, run, failures, reruns, orphans>>

\* The job's if: conclusion == 'success' && event == 'push'.
Released(green) == IF green /\ ci.event = "push" THEN ci.commit ELSE Skip

\* The newest CI ends, green or not.
CiEnds(green) ==
    /\ ci # None /\ cancelled = 0
    /\ ci' = None
    /\ Ask(Released(green))
    /\ hurt' = (hurt \/ Displaces(Released(green))
                     \/ (ci = [commit |-> LastPush, event |-> "push"] /\ ~green))
    /\ UNCHANGED <<main, releases, images, cancelled, run, failures, reruns, orphans>>

\* So does the CI of a pull request whose branch is called main.
PullRequestCi ==
    /\ reruns < MaxReruns
    /\ reruns' = reruns + 1
    /\ Ask(Skip)
    /\ hurt' = (hurt \/ Displaces(Skip))
    /\ UNCHANGED <<main, releases, images, ci, cancelled, run, failures, orphans>>

\* A run that neither waits nor works is started again by hand, on the commit it
\* was for: one that had its turn, or was cancelled before.
Rerun(c) ==
    /\ c \in past \ {pending} /\ reruns < MaxReruns
    /\ Resting \/ c # base
    /\ reruns' = reruns + 1
    /\ Ask(c)
    /\ hurt' = (hurt \/ Displaces(c))
    /\ UNCHANGED <<main, releases, images, ci, cancelled, run, failures, orphans>>

\* The run that waits has its turn, on a checkout of its commit,
Start ==
    /\ Resting /\ pending \notin {None, Skip}
    /\ base' = pending /\ head' = pending /\ version' = main[pending].version
    /\ pc' = "read" /\ pending' = None
    /\ UNCHANGED <<main, releases, images, ci, cancelled, past, failures, reruns, hurt, orphans>>

\* or skips its job.
StartSkipped ==
    /\ Resting /\ pending = Skip
    /\ pending' = None
    /\ UNCHANGED <<main, releases, images, ci, cancelled, past, run, failures, reruns, hurt, orphans>>

-----------------------------------------------------------------------------
(* release.sh *)

Stay == UNCHANGED <<base, actions, failures, reruns>>

\* Mutant: only a bump is released.
Read_OnlyBumps ==
    /\ pc = "read"
    /\ LET next == IF LastRelease(head) = {} THEN version
                   ELSE LET i == CHOOSE i \in LastRelease(head) : TRUE
                        IN  Bumped(releases[i].version, Log(releases[i].commit, head))
       IN  /\ version' = Chosen(version, next)
           /\ pc' = IF Before(version, next) THEN "push" ELSE "done"
    /\ UNCHANGED <<main, releases, images, head, hurt, orphans>> /\ Stay

\* The bump is committed in the clone before anything is pushed.
Read ==
    /\ pc = "read"
    /\ LET next == IF LastRelease(head) = {} THEN version
                   ELSE LET i == CHOOSE i \in LastRelease(head) : TRUE
                        IN  Bumped(releases[i].version, Log(releases[i].commit, head))
       IN  /\ version' = Chosen(version, next)
           /\ pc' = IF Before(version, next) THEN "push" ELSE "verify"
    /\ UNCHANGED <<main, releases, images, head, hurt, orphans>> /\ Stay

\* git push origin HEAD:main, which takes no commit that is not on top of main.
PushBump ==
    /\ pc = "push"
    /\ IF Len(main) = head
       THEN /\ main' = Append(main, [kind |-> "other", version |-> version, by |-> "script"])
            /\ head' = head + 1 /\ pc' = "verify"
       ELSE pc' = "failed" /\ UNCHANGED <<main, head>>
    /\ UNCHANGED <<releases, images, version, hurt, orphans>> /\ Stay

\* Mutant: the images are asked for before the release is made.
Verify_Dispatches ==
    /\ pc = "verify"
    /\ pc' = IF version \in Tagged THEN "done" ELSE "create"
    /\ images' = images \cup {version}
    /\ UNCHANGED <<main, releases, head, version, hurt, orphans>> /\ Stay

Verify ==
    /\ pc = "verify"
    /\ pc' = IF version \in Tagged THEN "done" ELSE "create"
    /\ UNCHANGED <<main, releases, images, head, version, hurt, orphans>> /\ Stay

\* Mutant: the commit CI saw is tagged, not the bump on top of it.
Create_Base ==
    /\ pc = "create" /\ pc' = "dispatch"
    /\ releases' = Append(releases, [version |-> version, commit |-> base])
    /\ UNCHANGED <<main, images, head, version, hurt, orphans>> /\ Stay

Create ==
    /\ pc = "create" /\ pc' = "dispatch"
    /\ releases' = Append(releases, [version |-> version, commit |-> head])
    /\ UNCHANGED <<main, images, head, version, hurt, orphans>> /\ Stay

Dispatch ==
    /\ pc = "dispatch" /\ pc' = "done"
    /\ images' = images \cup {version}
    /\ UNCHANGED <<main, releases, head, version, hurt, orphans>> /\ Stay

\* A command fails, and set -e ends the run; the release may have been made.
Fail ==
    /\ ~Resting /\ failures < MaxFailures
    /\ failures' = failures + 1 /\ pc' = "failed"
    /\ hurt' = (hurt \/ base = LastPush)
    /\ IF pc = "dispatch" THEN orphans' = orphans \cup {version} /\ UNCHANGED releases
       ELSE \/ UNCHANGED <<releases, orphans>>
            \/ /\ pc = "create" /\ orphans' = orphans \cup {version}
               /\ releases' = Append(releases, [version |-> version, commit |-> head])
    /\ UNCHANGED <<main, images, actions, base, head, version, reruns>>

Script == Read \/ PushBump \/ Verify \/ Create \/ Dispatch

CiStep == CiCancelled \/ \E green \in BOOLEAN : CiEnds(green)

ByHand ==
    \/ \E c \in DOMAIN main, event \in {"push", "workflow_dispatch"} : CiByHand(c, event)
    \/ PullRequestCi
    \/ \E c \in past : Rerun(c)

Next ==
    \/ \E kind \in Pushed : \E v \in Raises(main[Len(main)].version) : Push(kind, v)
    \/ CiStep \/ ByHand \/ Start \/ StartSkipped \/ Script \/ Fail

Spec == Init /\ [][Next]_vars

\* CI ends, green or not, a run ends, and the one that waits has its turn.
Fairness == WF_vars(CiStep) /\ WF_vars(Start \/ StartSkipped) /\ WF_vars(Script)

FairSpec == Spec /\ Fairness

-----------------------------------------------------------------------------
(* Properties *)

\* A tag marks a commit of main whose Cargo.toml has its version, no version has
\* two, and along main they rise, whatever was rejected, failed or run again.
VersionsRise ==
    \A i, j \in DOMAIN releases :
        /\ releases[i].commit \in DOMAIN main
        /\ main[releases[i].commit].version = releases[i].version
        /\ i # j => releases[i].version # releases[j].version
        /\ releases[i].commit < releases[j].commit => Before(releases[i].version, releases[j].version)

\* Made while no later commit was released; a rerun may make one late.
InOrder(i) == \A k \in 1..i - 1 : releases[k].commit < releases[i].commit

\* A release counts all that changed since each one made before it, in order, read
\* off by the component that must move: incompatible changes, features, fixes.
ChangesAreCounted ==
    \A i, j \in DOMAIN releases :
        LET v == releases[i].version
            w == releases[j].version
            log == Log(releases[i].commit, releases[j].commit)
        IN  i < j /\ releases[i].commit < releases[j].commit /\ InOrder(i) =>
                /\ "breaking" \in log => w[1] > v[1] \/ (v[1] = 0 /\ w[2] > v[2])
                /\ "feat" \in log => w[1] > v[1] \/ w[2] > v[2] \/ (v[1] = 0 /\ w[3] > v[3])

\* Images are built of releases only, and a release without its images is one
\* whose run ended between the two: running it again does not mend that.
ImagesFollow ==
    /\ images \subseteq Tagged
    /\ \A v \in Tagged \ images : v \in orphans \/ (pc = "dispatch" /\ version = v)

\* If main moved, the next run takes over (release.yml:31): what main ends with is
\* released, unless the commit people pushed last has lost its CI (red, or
\* cancelled by hand), its waiting run (to any other one, a run that skips its job
\* included) or a command of its run.  Then it takes people to push again.
MainIsReleased == <>[](hurt \/ main[Len(main)].version \in Tagged)

=============================================================================
