---------------------------- MODULE JobLifecycle ----------------------------
(***************************************************************************)
(* What the queue promises about one submission, whatever judges, crashes  *)
(* and transactions do behind it: a job enters the table once, is claimed  *)
(* at most once, ends at most once, and carries verdicts exactly when it   *)
(* is done.  The life cycle is the one the enum job_state and the CHECK    *)
(* constraints of db/migrations/0001_jobs.sql describe.                    *)
(*                                                                         *)
(* JobQueue implements this specification; see JobQueueProofs.             *)
(***************************************************************************)

CONSTANTS Jobs,          \* job identifiers
          VerdictLists,  \* the lists of case verdicts a judge may report
          NoVerdict      \* no verdict list: the result column is NULL

VARIABLES life,     \* life[r]: where job r is in its life cycle
          verdict   \* verdict[r]: the verdicts shown for job r

lifeVars == <<life, verdict>>

LifeStates == {"absent", "waiting", "running", "done", "replaced", "failed"}

Init ==
    /\ life = [r \in Jobs |-> "absent"]
    /\ verdict = [r \in Jobs |-> NoVerdict]

\* One arrow of the life cycle that shows no verdict.
Move(r, from, to) ==
    /\ life[r] = from
    /\ life' = [life EXCEPT ![r] = to]
    /\ UNCHANGED verdict

Enqueue(r) == Move(r, "absent", "waiting")

Claim(r) == Move(r, "waiting", "running")

Replace(r) == Move(r, "waiting", "replaced")

Fail(r) == Move(r, "running", "failed")

\* The verdicts and the state done appear together.
Finish(r, v) ==
    /\ life[r] = "running"
    /\ life' = [life EXCEPT ![r] = "done"]
    /\ verdict' = [verdict EXCEPT ![r] = v]

Next ==
    \E r \in Jobs :
        \/ Enqueue(r)
        \/ Claim(r)
        \/ Replace(r)
        \/ Fail(r)
        \/ \E v \in VerdictLists : Finish(r, v)

Spec == Init /\ [][Next]_lifeVars

=============================================================================
