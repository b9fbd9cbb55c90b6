------------------------------ MODULE JobQueue ------------------------------
(***************************************************************************)
(* The submission queue: the jobs table of PostgreSQL, the two functions a *)
(* judge reaches it through (claim_job, finish_job), the INSERT of the     *)
(* API, and the loop of every judge process.                               *)
(*                                                                         *)
(* The table is modelled column by column (state[r], claimed_at[r], ...).  *)
(* Every statement runs in a transaction of its own under READ COMMITTED:  *)
(* now() is read when the transaction starts, the snapshot is taken later, *)
(* a row is locked and checked again in its latest version, and nothing is *)
(* visible before the commit.  Those are separate steps here, so that two  *)
(* judges, the API and a crash interleave wherever they can in the server. *)
(*                                                                         *)
(* A judge and its database session are separate: a judge that dies leaves *)
(* a session which may still commit the statement it had received.         *)
(***************************************************************************)
EXTENDS Integers, Sequences

CONSTANTS Judges,         \* judge processes
          Jobs,           \* job ids; their order is the uuid order of the claim
          Packs,          \* language packs a submission may name
          VerdictLists,   \* what judge_cases may return: never the empty list
          ApiWrites,      \* states the api role writes with its UPDATE grant
          MaxClock,       \* bound on the clock behind now()
          MaxFailures,    \* bound on crashes, lost connections and I/O errors
          Null            \* SQL's NULL, and "no job" in a judge's hand

JobStates == {"waiting", "running", "done", "replaced", "failed"}

ASSUME QueueAssumption ==
    /\ Jobs \subseteq Nat
    /\ MaxClock \in Nat
    /\ MaxFailures \in Nat
    /\ ApiWrites \subseteq JobStates
    /\ Null \notin Int
    /\ Null \notin VerdictLists
    /\ <<>> \notin VerdictLists

VARIABLES
    (* the table jobs *)
    state, enqueued_at, claimed_at, finished_at, result, language_pack,
    (* the judge processes *)
    pc,         \* where the loop of main.rs stands
    job,        \* the job the judge holds
    (* the database session of each judge *)
    tx,         \* how far the running statement got
    stamp,      \* now() of its transaction
    seen,       \* the waiting jobs of its snapshot
    left,       \* those of them not scanned yet
    row,        \* the row it locked, names or answers with
    verdicts,   \* the verdicts it is to write
    (* history, read by no action *)
    freed,      \* the rows its scan passed and another session then gave back
    (* the environment *)
    clock, failures

table == <<state, enqueued_at, claimed_at, finished_at, result, language_pack>>
process == <<pc, job>>
session == <<tx, stamp, seen, left, row, verdicts, freed>>
environment == <<clock, failures>>
vars == <<table, process, session, environment>>

Supported == "python"   \* the one pack judge() accepts

PcStates == {"idle", "claiming", "asleep", "judging", "finishing", "down"}

\* claim: begun; scan: has its snapshot; locked: FOR UPDATE has the row;
\* claimed, finished: row updated, not committed; finish: begun; reply:
\* committed, answer on its way to the judge.
TxStates == {"none", "claim", "scan", "locked", "claimed", "finish", "finished", "reply"}

-----------------------------------------------------------------------------
(* The table *)

\* Mutant: the constraint written as an implication.
jobs_claimed_when_run_OneWay(s, c) == s \in {"running", "done", "failed"} => c # Null

\* The CHECK constraints of the table, each by its name.  Those on times hold
\* of NULL too: a comparison with NULL is not FALSE.
jobs_claimed_when_run(s, c) == (c # Null) <=> s \in {"running", "done", "failed"}

jobs_finished_when_over(s, f) == (f # Null) <=> s \in {"done", "replaced", "failed"}

\* Mutant: the constraint written as an implication.
jobs_result_when_done_OneWay(s, v) == s = "done" => v # Null

jobs_result_when_done(s, v) == (v # Null) <=> s = "done"

jobs_claimed_after_enqueued(e, c) == c # Null => c >= e

jobs_finished_after_start(e, c, f) ==
    f # Null => f >= (IF c # Null THEN c ELSE e)

\* PostgreSQL refuses a row that fails one of them, and with it the statement.
RowChecks(s, e, c, f, v) ==
    /\ jobs_claimed_when_run(s, c)
    /\ jobs_finished_when_over(s, f)
    /\ jobs_result_when_done(s, v)
    /\ jobs_claimed_after_enqueued(e, c)
    /\ jobs_finished_after_start(e, c, f)

\* Rows other transactions can see: an uncommitted INSERT is not one of them.
Visible(r) == state[r] \in JobStates

\* A row is locked from the FOR UPDATE of claim_job or the UPDATE of finish_job
\* to the end of the transaction.
Locked(r) == \E j \in Judges : tx[j] \in {"locked", "claimed", "finished"} /\ row[j] = r

\* The claim of j has locked r.
Takes(j, r) == tx[j] \in {"locked", "claimed"} /\ row[j] = r

\* Mutant: the row is taken as the snapshot showed it.
Claimable_NoRecheck(r) == ~Locked(r)

\* Mutant: FOR UPDATE is forgotten.
Claimable_NoLock(r) == state[r] = "waiting"

\* What FOR UPDATE SKIP LOCKED takes: a row nobody holds that is still waiting
\* in its latest version, whatever the snapshot showed.
Claimable(r) == state[r] = "waiting" /\ ~Locked(r)

\* Mutant: ORDER BY id, the uuid alone.
Before_IdOnly(q, r) == q < r

\* ORDER BY enqueued_at, id
Before(q, r) ==
    \/ enqueued_at[q] < enqueued_at[r]
    \/ enqueued_at[q] = enqueued_at[r] /\ q < r

IsOldest(r, S) == r \in S /\ \A q \in S : q = r \/ Before(r, q)

\* The UPDATE of each function passes the CHECK constraints.
ClaimPasses(j, r) ==
    RowChecks("running", enqueued_at[r], stamp[j], finished_at[r], result[r])

FinishPasses(j, r) ==
    RowChecks("done", enqueued_at[r], claimed_at[r], stamp[j], verdicts[j])

-----------------------------------------------------------------------------
Init ==
    /\ state = [r \in Jobs |-> "absent"]
    /\ enqueued_at = [r \in Jobs |-> Null]
    /\ claimed_at = [r \in Jobs |-> Null]
    /\ finished_at = [r \in Jobs |-> Null]
    /\ result = [r \in Jobs |-> Null]
    /\ language_pack = [r \in Jobs |-> Null]
    /\ pc = [j \in Judges |-> "idle"]
    /\ job = [j \in Judges |-> Null]
    /\ tx = [j \in Judges |-> "none"]
    /\ stamp = [j \in Judges |-> Null]
    /\ seen = [j \in Judges |-> {}]
    /\ left = [j \in Judges |-> {}]
    /\ row = [j \in Judges |-> Null]
    /\ verdicts = [j \in Judges |-> Null]
    /\ freed = [j \in Judges |-> {}]
    /\ clock = 0
    /\ failures = 0

-----------------------------------------------------------------------------
(* The API: submit() and the rights of its role *)

\* The INSERT of submit starts: its now() is the row's enqueued_at.
BeginInsert(r) ==
    /\ state[r] = "absent"
    /\ state' = [state EXCEPT ![r] = "inserting"]
    /\ enqueued_at' = [enqueued_at EXCEPT ![r] = clock]
    /\ \E p \in Packs : language_pack' = [language_pack EXCEPT ![r] = p]
    /\ UNCHANGED <<claimed_at, finished_at, result, process, session, environment>>

\* It commits, and the row is visible, with an enqueued_at from the past.
CommitInsert(r) ==
    /\ state[r] = "inserting"
    /\ state' = [state EXCEPT ![r] = "waiting"]
    /\ UNCHANGED <<enqueued_at, claimed_at, finished_at, result, language_pack,
                   process, session, environment>>

\* It fails: the client sees 500 and the table never held the row.
AbortInsert(r) ==
    /\ state[r] = "inserting"
    /\ state' = [state EXCEPT ![r] = "absent"]
    /\ enqueued_at' = [enqueued_at EXCEPT ![r] = Null]
    /\ language_pack' = [language_pack EXCEPT ![r] = Null]
    /\ UNCHANGED <<claimed_at, finished_at, result, process, session, environment>>

\* Mutant: the UPDATE does not wait for the lock of the row.
ApiUpdate_NoLock(r, s, f) ==
    /\ Visible(r)
    /\ RowChecks(s, enqueued_at[r], claimed_at[r], f, result[r])
    /\ state' = [state EXCEPT ![r] = s]
    /\ finished_at' = [finished_at EXCEPT ![r] = f]
    /\ UNCHANGED <<enqueued_at, claimed_at, result, language_pack,
                   process, session, environment>>

\* GRANT UPDATE (state, finished_at): the role may write any state and any end
\* that the constraints allow, to a row no judge's statement has locked.
ApiUpdate(r, s, f) ==
    /\ Visible(r)
    /\ ~Locked(r)
    /\ RowChecks(s, enqueued_at[r], claimed_at[r], f, result[r])
    /\ state' = [state EXCEPT ![r] = s]
    /\ finished_at' = [finished_at EXCEPT ![r] = f]
    /\ UNCHANGED <<enqueued_at, claimed_at, result, language_pack,
                   process, session, environment>>

-----------------------------------------------------------------------------
(* Sessions *)

\* The session of j has nothing left to do, and no lock.
CloseSession(j) ==
    /\ tx' = [tx EXCEPT ![j] = "none"]
    /\ stamp' = [stamp EXCEPT ![j] = Null]
    /\ seen' = [seen EXCEPT ![j] = {}]
    /\ left' = [left EXCEPT ![j] = {}]
    /\ row' = [row EXCEPT ![j] = Null]
    /\ verdicts' = [verdicts EXCEPT ![j] = Null]

EndSession(j) ==
    /\ CloseSession(j)
    /\ freed' = [freed EXCEPT ![j] = {}]

\* The transaction of j is undone: a row it was claiming is free again, with
\* its state still waiting, behind the scans that have passed it.
AbortSession(j) ==
    /\ CloseSession(j)
    /\ freed' = [k \in Judges |->
                    IF k = j THEN {}
                    ELSE freed[k] \cup {r \in seen[k] \ left[k] : Takes(j, r)}]

\* The statement of j is over: it answers with row r (Null: no row), unless
\* the judge that asked is gone.
Answer(j, r) ==
    IF pc[j] = "down"
    THEN EndSession(j)
    ELSE /\ tx' = [tx EXCEPT ![j] = "reply"]
         /\ stamp' = [stamp EXCEPT ![j] = Null]
         /\ seen' = [seen EXCEPT ![j] = {}]
         /\ left' = [left EXCEPT ![j] = {}]
         /\ row' = [row EXCEPT ![j] = r]
         /\ verdicts' = [verdicts EXCEPT ![j] = Null]
         /\ freed' = [freed EXCEPT ![j] = {}]

-----------------------------------------------------------------------------
(* claim_job *)

\* claim(&mut connection): the transaction starts, and with it now().
BeginClaim(j) ==
    /\ pc[j] = "idle"
    /\ tx[j] = "none"
    /\ pc' = [pc EXCEPT ![j] = "claiming"]
    /\ tx' = [tx EXCEPT ![j] = "claim"]
    /\ stamp' = [stamp EXCEPT ![j] = clock]
    /\ UNCHANGED <<table, job, seen, left, row, verdicts, freed, environment>>

\* The statement inside the function takes its snapshot.
TakeSnapshot(j) ==
    /\ tx[j] = "claim"
    /\ tx' = [tx EXCEPT ![j] = "scan"]
    /\ LET waiting == {r \in Jobs : state[r] = "waiting"}
       IN  /\ seen' = [seen EXCEPT ![j] = waiting]
           /\ left' = [left EXCEPT ![j] = waiting]
    /\ UNCHANGED <<table, process, stamp, row, verdicts, freed, environment>>

\* The scan reaches r, the oldest row left of the snapshot, but another
\* session holds it or it is no longer waiting.
SkipRow(j) ==
    /\ tx[j] = "scan"
    /\ \E r \in left[j] :
          /\ IsOldest(r, left[j])
          /\ ~Claimable(r)
          /\ left' = [left EXCEPT ![j] = @ \ {r}]
    /\ UNCHANGED <<table, process, tx, stamp, seen, row, verdicts, freed, environment>>

\* Or it locks r: from here on the other scans skip it.
LockRow(j) ==
    /\ tx[j] = "scan"
    /\ \E r \in left[j] :
          /\ IsOldest(r, left[j])
          /\ Claimable(r)
          /\ row' = [row EXCEPT ![j] = r]
    /\ tx' = [tx EXCEPT ![j] = "locked"]
    /\ UNCHANGED <<table, process, stamp, seen, left, verdicts, freed, environment>>

\* The UPDATE writes a new version of the row it has locked.
ClaimRow(j) ==
    /\ tx[j] = "locked"
    /\ ClaimPasses(j, row[j])
    /\ tx' = [tx EXCEPT ![j] = "claimed"]
    /\ UNCHANGED <<table, process, stamp, seen, left, row, verdicts, freed, environment>>

\* Or no row is left: the subquery is NULL and the UPDATE matches nothing.
ClaimNothing(j) ==
    /\ tx[j] = "scan"
    /\ left[j] = {}
    /\ Answer(j, Null)
    /\ UNCHANGED <<table, process, environment>>

\* Mutant: a state job_state does not have.
CommitClaim_OtherState(j) ==
    /\ tx[j] = "claimed"
    /\ state' = [state EXCEPT ![row[j]] = "claimed"]
    /\ claimed_at' = [claimed_at EXCEPT ![row[j]] = stamp[j]]
    /\ Answer(j, row[j])
    /\ UNCHANGED <<enqueued_at, finished_at, result, language_pack,
                   process, environment>>

\* claimed_at is the now() of BeginClaim, not the time of the commit.
CommitClaim(j) ==
    /\ tx[j] = "claimed"
    /\ state' = [state EXCEPT ![row[j]] = "running"]
    /\ claimed_at' = [claimed_at EXCEPT ![row[j]] = stamp[j]]
    /\ Answer(j, row[j])
    /\ UNCHANGED <<enqueued_at, finished_at, result, language_pack,
                   process, environment>>

\* The judge reads the answer: a job to judge, or a sleep.
ReceiveClaim(j) ==
    /\ pc[j] = "claiming"
    /\ tx[j] = "reply"
    /\ pc' = [pc EXCEPT ![j] = IF row[j] = Null THEN "asleep" ELSE "judging"]
    /\ job' = [job EXCEPT ![j] = row[j]]
    /\ EndSession(j)
    /\ UNCHANGED <<table, environment>>

\* Mutant: the judge waits for the notification of an INSERT and misses those
\* sent while it was claiming.
Wake_OnNotify(j) ==
    /\ pc[j] = "asleep"
    /\ pc' = [pc EXCEPT ![j] =
                 IF \E r \in Jobs : state[r] = "inserting" THEN "idle" ELSE "asleep"]
    /\ UNCHANGED <<table, job, session, environment>>

\* time::sleep(POLL) ends.
Wake(j) ==
    /\ pc[j] = "asleep"
    /\ pc' = [pc EXCEPT ![j] = "idle"]
    /\ UNCHANGED <<table, job, session, environment>>

-----------------------------------------------------------------------------
(* judge and finish_job *)

\* judge() returns verdicts, and the judge sends finish_job: the transaction
\* starts, and with it now().
JudgeOk(j, v) ==
    /\ pc[j] = "judging"
    /\ language_pack[job[j]] = Supported
    /\ pc' = [pc EXCEPT ![j] = "finishing"]
    /\ tx' = [tx EXCEPT ![j] = "finish"]
    /\ stamp' = [stamp EXCEPT ![j] = clock]
    /\ row' = [row EXCEPT ![j] = job[j]]
    /\ verdicts' = [verdicts EXCEPT ![j] = v]
    /\ UNCHANGED <<table, job, seen, left, freed, environment>>

\* Mutant: the judge tries the job again instead of going on.
JudgeUnsupported_Retries(j) ==
    /\ pc[j] = "judging"
    /\ language_pack[job[j]] # Supported
    /\ UNCHANGED vars

\* judge() refuses the pack: the error is printed, the loop goes on, and
\* nothing tells the table.
JudgeUnsupported(j) ==
    /\ pc[j] = "judging"
    /\ language_pack[job[j]] # Supported
    /\ pc' = [pc EXCEPT ![j] = "idle"]
    /\ job' = [job EXCEPT ![j] = Null]
    /\ UNCHANGED <<table, session, environment>>

\* The cases cannot be read or the container cannot be started: the same.
JudgeFails(j) ==
    /\ pc[j] = "judging"
    /\ language_pack[job[j]] = Supported
    /\ failures < MaxFailures
    /\ failures' = failures + 1
    /\ pc' = [pc EXCEPT ![j] = "idle"]
    /\ job' = [job EXCEPT ![j] = Null]
    /\ UNCHANGED <<table, session, clock>>

\* Mutant: the state of the row is not looked at.
Finishable_AnyState(j) == verdicts[j] # <<>>

\* Mutant: cardinality(verdicts) > 1.
Finishable_OffByOne(j) == state[row[j]] = "running" /\ Len(verdicts[j]) > 1

\* The UPDATE of finish_job finds the job running, with verdicts to write.
Finishable(j) == state[row[j]] = "running" /\ verdicts[j] # <<>>

FinishRow(j) ==
    /\ tx[j] = "finish"
    /\ ~Locked(row[j])
    /\ Finishable(j)
    /\ FinishPasses(j, row[j])
    /\ tx' = [tx EXCEPT ![j] = "finished"]
    /\ UNCHANGED <<table, process, stamp, seen, left, row, verdicts, freed, environment>>

\* Or it matches no row, and the function returns false.
FinishNothing(j) ==
    /\ tx[j] = "finish"
    /\ ~Locked(row[j])
    /\ ~Finishable(j)
    /\ Answer(j, Null)
    /\ UNCHANGED <<table, process, environment>>

CommitFinish(j) ==
    /\ tx[j] = "finished"
    /\ state' = [state EXCEPT ![row[j]] = "done"]
    /\ finished_at' = [finished_at EXCEPT ![row[j]] = stamp[j]]
    /\ result' = [result EXCEPT ![row[j]] = verdicts[j]]
    /\ Answer(j, row[j])
    /\ UNCHANGED <<enqueued_at, claimed_at, language_pack, process, environment>>

\* True or false, the loop goes on.
ReceiveFinish(j) ==
    /\ pc[j] = "finishing"
    /\ tx[j] = "reply"
    /\ pc' = [pc EXCEPT ![j] = "idle"]
    /\ job' = [job EXCEPT ![j] = Null]
    /\ EndSession(j)
    /\ UNCHANGED <<table, environment>>

\* The statement of j writes a row that a constraint refuses: one claim_job has
\* locked by then, or one finish_job would lock once the constraints pass.
Refused(j) ==
    \/ tx[j] = "locked" /\ ~ClaimPasses(j, row[j])
    \/ /\ tx[j] = "finish"
       /\ ~Locked(row[j])
       /\ Finishable(j)
       /\ ~FinishPasses(j, row[j])

\* The transaction is undone, claim or finish returns the error, and the ? of
\* main ends the judge.
StatementRefused(j) ==
    /\ Refused(j)
    /\ AbortSession(j)
    /\ pc' = [pc EXCEPT ![j] = "down"]
    /\ job' = [job EXCEPT ![j] = Null]
    /\ UNCHANGED <<table, environment>>

-----------------------------------------------------------------------------
(* Failures and the environment *)

\* The process of j dies, or loses its connection: a statement the server has
\* received goes on without it, an answer on its way is lost.
Crash(j) ==
    /\ pc[j] # "down"
    /\ failures < MaxFailures
    /\ failures' = failures + 1
    /\ pc' = [pc EXCEPT ![j] = "down"]
    /\ job' = [job EXCEPT ![j] = Null]
    /\ IF tx[j] = "reply" THEN EndSession(j) ELSE UNCHANGED session
    /\ UNCHANGED <<table, clock>>

\* The server aborts the transaction of j: nothing of it remains.  A judge
\* still there gets the error, and the ? of main ends it.
Rollback(j) ==
    /\ tx[j] \notin {"none", "reply"}
    /\ failures < MaxFailures
    /\ failures' = failures + 1
    /\ AbortSession(j)
    /\ pc' = [pc EXCEPT ![j] = "down"]
    /\ job' = [job EXCEPT ![j] = Null]
    /\ UNCHANGED <<table, clock>>

\* The service manager starts the judge again, with a new connection.
Restart(j) ==
    /\ pc[j] = "down"
    /\ tx[j] = "none"
    /\ pc' = [pc EXCEPT ![j] = "idle"]
    /\ UNCHANGED <<table, job, session, environment>>

Tick ==
    /\ clock < MaxClock
    /\ clock' = clock + 1
    /\ UNCHANGED <<table, process, session, failures>>

-----------------------------------------------------------------------------
ApiStep ==
    \E r \in Jobs :
        \/ BeginInsert(r)
        \/ CommitInsert(r)
        \/ AbortInsert(r)
        \/ \E s \in ApiWrites, f \in {Null, clock} : ApiUpdate(r, s, f)

\* What the judge and its session do by themselves.
JudgeStep(j) ==
    \/ BeginClaim(j)
    \/ TakeSnapshot(j)
    \/ SkipRow(j)
    \/ LockRow(j)
    \/ ClaimRow(j)
    \/ ClaimNothing(j)
    \/ CommitClaim(j)
    \/ ReceiveClaim(j)
    \/ Wake(j)
    \/ \E v \in VerdictLists : JudgeOk(j, v)
    \/ JudgeUnsupported(j)
    \/ FinishRow(j)
    \/ FinishNothing(j)
    \/ CommitFinish(j)
    \/ ReceiveFinish(j)
    \/ StatementRefused(j)
    \/ Restart(j)

FailureStep(j) ==
    \/ JudgeFails(j)
    \/ Crash(j)
    \/ Rollback(j)

Next ==
    \/ ApiStep
    \/ \E j \in Judges : JudgeStep(j) \/ FailureStep(j)
    \/ Tick

Spec == Init /\ [][Next]_vars

\* Every judge keeps going: a statement ends (nothing waits for a lock that is
\* never released), the sandbox stops at its timeout, the sleep is one second,
\* and the service manager restarts what exits.
Fairness == \A j \in Judges : WF_vars(JudgeStep(j))

FairSpec == Spec /\ Fairness

-----------------------------------------------------------------------------
(* Properties *)

Times == 0..MaxClock

TypeOK ==
    /\ state \in [Jobs -> JobStates \cup {"absent", "inserting"}]
    /\ enqueued_at \in [Jobs -> Times \cup {Null}]
    /\ claimed_at \in [Jobs -> Times \cup {Null}]
    /\ finished_at \in [Jobs -> Times \cup {Null}]
    /\ result \in [Jobs -> VerdictLists \cup {Null}]
    /\ language_pack \in [Jobs -> Packs \cup {Null}]
    /\ pc \in [Judges -> PcStates]
    /\ job \in [Judges -> Jobs \cup {Null}]
    /\ tx \in [Judges -> TxStates]
    /\ stamp \in [Judges -> Times \cup {Null}]
    /\ seen \in [Judges -> SUBSET Jobs]
    /\ left \in [Judges -> SUBSET Jobs]
    /\ row \in [Judges -> Jobs \cup {Null}]
    /\ verdicts \in [Judges -> VerdictLists \cup {Null}]
    /\ freed \in [Judges -> SUBSET Jobs]
    /\ clock \in Times
    /\ failures \in 0..MaxFailures

\* Judge j has job r, or is about to read that it has, or its session writes
\* the verdicts of r.
Works(j, r) ==
    \/ tx[j] = "reply" /\ pc[j] = "claiming" /\ row[j] = r
    \/ tx[j] \in {"finish", "finished"} /\ row[j] = r
    \/ pc[j] \in {"judging", "finishing"} /\ job[j] = r

Holds(j, r) == Takes(j, r) \/ Works(j, r)

\* Two judges never work on the same job, wherever their statements
\* interleave: SKIP LOCKED together with the second look at state
\* (0003_claim_job.sql:14-19).
OneHolder ==
    \A j, k \in Judges : \A r \in Jobs : Holds(j, r) /\ Holds(k, r) => j = k

\* A job handed to a judge is never offered to another one, whatever the api
\* role writes with its grant: jobs_claimed_when_run ties the state of a row to
\* the claimed_at the role cannot write.
HeldNotClaimable == \A j \in Judges, r \in Jobs : Works(j, r) => ~Claimable(r)

\* The rows of the table pass its constraints at every moment, those of a
\* statement that is not committed included: what FOR UPDATE and UPDATE checked
\* still holds when the transaction commits, since nobody can touch the row.
RowsConsistent ==
    \A r \in Jobs :
        IF Visible(r)
        THEN RowChecks(state[r], enqueued_at[r], claimed_at[r], finished_at[r], result[r])
        ELSE claimed_at[r] = Null /\ finished_at[r] = Null /\ result[r] = Null

LockKept(j) ==
    /\ tx[j] \in {"locked", "claimed"} => row[j] \in Jobs /\ state[row[j]] = "waiting"
    /\ tx[j] = "claimed" => ClaimPasses(j, row[j])
    /\ tx[j] = "finished" =>
           row[j] \in Jobs /\ state[row[j]] = "running" /\ FinishPasses(j, row[j])

LocksProtect == \A j \in Judges : LockKept(j)

\* A judge judges a job, and finish_job names one.
JobsNamed ==
    \A j \in Judges :
        /\ pc[j] = "judging" => job[j] \in Jobs
        /\ tx[j] = "finish" => row[j] \in Jobs

WorkIsClaimed == \A j \in Judges, r \in Jobs : Works(j, r) => claimed_at[r] # Null

\* The inductive invariant behind the safety properties: what is in a judge's
\* hand has a claimed_at, so that no state the constraints allow makes it
\* claimable; what a session has locked is as its statement left it.
QueueInv == RowsConsistent /\ LocksProtect /\ JobsNamed /\ WorkIsClaimed /\ OneHolder

\* A verdict a student may have read never changes and never disappears: the
\* constraints turn every later write to the row away, of a judge that answers
\* late or of the api role.
VerdictIsFinal ==
    [][\A r \in Jobs : state[r] = "done" =>
            state'[r] = "done" /\ result'[r] = result[r]]_vars

\* claim_job gives a job at most one claim in its life: claimed_at is written
\* once, and no failure makes it free again.
ClaimedOnce ==
    [][\A r \in Jobs : claimed_at[r] # Null => claimed_at'[r] = claimed_at[r]]_vars

\* No overtaking: when a judge has a job, no job of its snapshot that was
\* enqueued earlier is free to be taken (0003_claim_job.sql:16-19), but those a
\* session gave back after the scan had passed them: its claim was rolled back,
\* or refused by a CHECK while it held the row.
OldestFirst ==
    \A j \in Judges : tx[j] \in {"locked", "claimed"} =>
        \A q \in seen[j] :
            enqueued_at[q] < enqueued_at[row[j]] => ~Claimable(q) \/ q \in freed[j]

\* A running job nobody works on.
Orphan(r) == state[r] = "running" /\ \A j \in Judges : ~Holds(j, r)

\* While nothing fails, the only job a judge drops is one whose language pack
\* judge() refuses (main.rs:38-43).
OrphanOnlyByFailure ==
    failures = 0 => \A r \in Jobs : Orphan(r) => language_pack[r] # Supported

\* The CHECK jobs_claimed_after_enqueued holds of every row claim_job writes.
ClaimMeetsCheck ==
    \A j \in Judges :
        tx[j] = "locked" => jobs_claimed_after_enqueued(enqueued_at[row[j]], stamp[j])

Over(r) == state[r] \in {"done", "replaced", "failed"}

\* A submission in the queue leaves it: judges poll, skip what others hold and
\* come back after a crash.
WaitingIsTaken == \A r \in Jobs : (state[r] = "waiting") ~> (state[r] # "waiting")

\* A submission that a judge is working on ends, unless every judge that had
\* it is gone: no judge keeps a job for ever.
HeldIsReleased ==
    \A r \in Jobs : (\E j \in Judges : Holds(j, r)) ~> (\A j \in Judges : ~Holds(j, r))

\* While nothing fails and the pack is known, every submission ends.
WaitingEnds ==
    [](failures = 0) =>
        \A r \in Jobs : (state[r] = "waiting" /\ language_pack[r] = Supported) ~> Over(r)

\* What docs/adr/0001-postgresql-queue.typ:40 promises: a job abandoned by a
\* failed judge does not stay running.
AbandonedIsReclaimed == \A r \in Jobs : Orphan(r) ~> ~Orphan(r)

\* The life of each job as its submitter may know it.  A row under insertion is
\* not there yet.
life == [r \in Jobs |-> IF state[r] = "inserting" THEN "absent" ELSE state[r]]

L == INSTANCE JobLifecycle WITH NoVerdict <- Null, verdict <- result

\* Behind every interleaving and failure, a job only moves along the life cycle
\* of JobLifecycle, and its verdicts appear in the step that makes it done.
ImplementsLifecycle == L!Spec

=============================================================================
