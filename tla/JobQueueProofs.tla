--------------------------- MODULE JobQueueProofs ---------------------------
(***************************************************************************)
(* What holds of JobQueue for any number of judges, jobs, packs, verdict   *)
(* lists, any clock and any number of failures.                            *)
(***************************************************************************)
EXTENDS JobQueue, TLAPS

-----------------------------------------------------------------------------
(* Type correctness *)

\* The types of the variables of the sessions.
SessionOK ==
    /\ tx \in [Judges -> TxStates]
    /\ stamp \in [Judges -> Times \cup {Null}]
    /\ seen \in [Judges -> SUBSET Jobs]
    /\ left \in [Judges -> SUBSET Jobs]
    /\ row \in [Judges -> Jobs \cup {Null}]
    /\ verdicts \in [Judges -> VerdictLists \cup {Null}]
    /\ freed \in [Judges -> SUBSET Jobs]

\* A session that ends, with its transaction or without, keeps its types.
LEMMA EndSessionType ==
    ASSUME TypeOK, NEW j \in Judges, EndSession(j) \/ AbortSession(j)
    PROVE  SessionOK'
<1>1. CASE EndSession(j)
  BY <1>1 DEF TypeOK, SessionOK, EndSession, CloseSession, TxStates
<1>2. CASE AbortSession(j)
  BY <1>2 DEF TypeOK, SessionOK, AbortSession, CloseSession, TxStates
<1>. QED
  BY <1>1, <1>2

\* So does a session that answers, with a row or without.
LEMMA AnswerType ==
    ASSUME TypeOK, NEW j \in Judges, NEW r \in Jobs \cup {Null}, Answer(j, r)
    PROVE  SessionOK'
<1>1. CASE pc[j] = "down"
  BY <1>1, EndSessionType DEF Answer
<1>2. CASE pc[j] # "down"
  BY <1>2 DEF TypeOK, SessionOK, Answer, TxStates
<1>. QED
  BY <1>1, <1>2

\* Every variable keeps its type, whatever the API, the judges, their sessions
\* and the failures do.
THEOREM TypeCorrect == Spec => []TypeOK
<1>. USE QueueAssumption
<1>1. Init => TypeOK
  BY DEF Init, TypeOK, Times, PcStates, TxStates
<1>2. TypeOK /\ [Next]_vars => TypeOK'
  <2>. SUFFICES ASSUME TypeOK, [Next]_vars PROVE TypeOK'
    OBVIOUS
  <2>1. ASSUME NEW r \in Jobs, BeginInsert(r)
        PROVE  TypeOK'
    BY <2>1 DEF BeginInsert, TypeOK, table, process, session, environment, JobStates
  <2>2. ASSUME NEW r \in Jobs, CommitInsert(r)
        PROVE  TypeOK'
    BY <2>2 DEF CommitInsert, TypeOK, table, process, session, environment, JobStates
  <2>3. ASSUME NEW r \in Jobs, AbortInsert(r)
        PROVE  TypeOK'
    BY <2>3 DEF AbortInsert, TypeOK, table, process, session, environment, JobStates
  <2>4. ASSUME NEW r \in Jobs, NEW s \in ApiWrites, NEW f \in {Null, clock},
               ApiUpdate(r, s, f)
        PROVE  TypeOK'
    BY <2>4 DEF ApiUpdate, TypeOK, table, process, session, environment, JobStates
  <2>5. ASSUME NEW j \in Judges, BeginClaim(j)
        PROVE  TypeOK'
    BY <2>5 DEF BeginClaim, TypeOK, table, process, session, environment, PcStates, TxStates,
            JobStates, Times
  <2>6. ASSUME NEW j \in Judges, TakeSnapshot(j)
        PROVE  TypeOK'
    BY <2>6 DEF TakeSnapshot, TypeOK, table, process, session, environment, PcStates, TxStates,
            JobStates, Times
  <2>7. ASSUME NEW j \in Judges, SkipRow(j)
        PROVE  TypeOK'
    BY <2>7 DEF SkipRow, TypeOK, table, process, session, environment, PcStates, TxStates,
            JobStates, Times
  <2>26. ASSUME NEW j \in Judges, LockRow(j)
        PROVE  TypeOK'
    BY <2>26 DEF LockRow, TypeOK, table, process, session, environment, PcStates, TxStates,
            JobStates, Times
  <2>8. ASSUME NEW j \in Judges, ClaimRow(j)
        PROVE  TypeOK'
    BY <2>8 DEF ClaimRow, TypeOK, table, process, session, environment, PcStates, TxStates,
            JobStates, Times
  <2>9. ASSUME NEW j \in Judges, ClaimNothing(j)
        PROVE  TypeOK'
    <3>1. Null \in Jobs \cup {Null}
      BY <2>9 DEF TypeOK
    <3>2. SessionOK'
      BY <3>1, <2>9, AnswerType DEF ClaimNothing
    <3>. QED
      BY <2>9, <3>2 DEF SessionOK, ClaimNothing, TypeOK, table, process, session, environment, PcStates, TxStates,
            JobStates, Times
  <2>10. ASSUME NEW j \in Judges, CommitClaim(j)
        PROVE  TypeOK'
    <3>1. row[j] \in Jobs \cup {Null}
      BY <2>10 DEF TypeOK
    <3>2. SessionOK'
      BY <3>1, <2>10, AnswerType DEF CommitClaim
    <3>. QED
      BY <2>10, <3>2 DEF SessionOK, CommitClaim, TypeOK, table, process, session, environment, PcStates, TxStates,
            JobStates, Times
  <2>11. ASSUME NEW j \in Judges, ReceiveClaim(j)
        PROVE  TypeOK'
    <3>1. SessionOK'
      BY <2>11, EndSessionType DEF ReceiveClaim
    <3>. QED
      BY <2>11, <3>1 DEF SessionOK, ReceiveClaim, TypeOK, table, process, session, environment, PcStates, TxStates,
            JobStates, Times
  <2>12. ASSUME NEW j \in Judges, Wake(j)
        PROVE  TypeOK'
    BY <2>12 DEF Wake, TypeOK, table, process, session, environment, PcStates, TxStates,
            JobStates, Times
  <2>13. ASSUME NEW j \in Judges, NEW v \in VerdictLists, JudgeOk(j, v)
        PROVE  TypeOK'
    BY <2>13 DEF JudgeOk, TypeOK, table, process, session, environment, PcStates, TxStates,
            JobStates, Times
  <2>14. ASSUME NEW j \in Judges, JudgeUnsupported(j)
        PROVE  TypeOK'
    BY <2>14 DEF JudgeUnsupported, TypeOK, table, process, session, environment, PcStates, TxStates,
            JobStates, Times
  <2>15. ASSUME NEW j \in Judges, FinishRow(j)
        PROVE  TypeOK'
    BY <2>15 DEF FinishRow, TypeOK, table, process, session, environment, PcStates, TxStates,
            JobStates, Times
  <2>16. ASSUME NEW j \in Judges, FinishNothing(j)
        PROVE  TypeOK'
    <3>1. Null \in Jobs \cup {Null}
      BY <2>16 DEF TypeOK
    <3>2. SessionOK'
      BY <3>1, <2>16, AnswerType DEF FinishNothing
    <3>. QED
      BY <2>16, <3>2 DEF SessionOK, FinishNothing, TypeOK, table, process, session, environment, PcStates, TxStates,
            JobStates, Times
  <2>17. ASSUME NEW j \in Judges, CommitFinish(j)
        PROVE  TypeOK'
    <3>1. row[j] \in Jobs \cup {Null}
      BY <2>17 DEF TypeOK
    <3>2. SessionOK'
      BY <3>1, <2>17, AnswerType DEF CommitFinish
    <3>. QED
      BY <2>17, <3>2 DEF SessionOK, CommitFinish, TypeOK, table, process, session, environment, PcStates, TxStates,
            JobStates, Times
  <2>18. ASSUME NEW j \in Judges, ReceiveFinish(j)
        PROVE  TypeOK'
    <3>1. SessionOK'
      BY <2>18, EndSessionType DEF ReceiveFinish
    <3>. QED
      BY <2>18, <3>1 DEF SessionOK, ReceiveFinish, TypeOK, table, process, session, environment, PcStates, TxStates,
            JobStates, Times
  <2>19. ASSUME NEW j \in Judges, StatementRefused(j)
        PROVE  TypeOK'
    <3>1. SessionOK'
      BY <2>19, EndSessionType DEF StatementRefused
    <3>. QED
      BY <2>19, <3>1 DEF SessionOK, StatementRefused, TypeOK, table, process, session, environment, PcStates, TxStates,
            JobStates, Times
  <2>20. ASSUME NEW j \in Judges, Restart(j)
        PROVE  TypeOK'
    BY <2>20 DEF Restart, TypeOK, table, process, session, environment, PcStates, TxStates,
            JobStates, Times
  <2>21. ASSUME NEW j \in Judges, JudgeFails(j)
        PROVE  TypeOK'
    BY <2>21 DEF JudgeFails, TypeOK, table, process, session, environment, PcStates, TxStates,
            JobStates, Times
  <2>22. ASSUME NEW j \in Judges, Crash(j)
        PROVE  TypeOK'
    <3>1. SessionOK'
      <4>1. CASE tx[j] = "reply"
        BY <2>22, <4>1, EndSessionType DEF Crash
      <4>2. CASE tx[j] # "reply"
        BY <2>22, <4>2 DEF Crash, TypeOK, SessionOK, session, Times
      <4>. QED
        BY <4>1, <4>2
    <3>2. pc' \in [Judges -> PcStates] /\ job' \in [Judges -> Jobs \cup {Null}]
      BY <2>22 DEF Crash, TypeOK, PcStates
    <3>3. failures' \in 0..MaxFailures
      BY <2>22 DEF Crash, TypeOK
    <3>. QED
      BY <2>22, <3>1, <3>2, <3>3 DEF Crash, TypeOK, SessionOK, table
  <2>23. ASSUME NEW j \in Judges, Rollback(j)
        PROVE  TypeOK'
    <3>1. SessionOK'
      BY <2>23, EndSessionType DEF Rollback
    <3>2. pc' \in [Judges -> PcStates] /\ job' \in [Judges -> Jobs \cup {Null}]
      BY <2>23 DEF Rollback, TypeOK, PcStates
    <3>3. failures' \in 0..MaxFailures
      BY <2>23 DEF Rollback, TypeOK
    <3>. QED
      BY <2>23, <3>1, <3>2, <3>3 DEF Rollback, TypeOK, SessionOK, table
  <2>24. CASE Tick
    BY <2>24 DEF Tick, TypeOK, table, process, session, Times
  <2>25. CASE UNCHANGED vars
    BY <2>25 DEF vars, TypeOK, table, process, session, environment, Times
  <2>. QED
    BY <2>1, <2>2, <2>3, <2>4, <2>5, <2>6, <2>7, <2>8, <2>9, <2>10, <2>11, <2>12, <2>13, <2>14, <2>15, <2>16, <2>17, <2>18, <2>19, <2>20, <2>21, <2>22, <2>23, <2>24, <2>25, <2>26
       DEF Next, ApiStep, JudgeStep, FailureStep
<1>. QED
  BY <1>1, <1>2, PTL DEF Spec

-----------------------------------------------------------------------------
(* The inductive invariant *)

\* A step that leaves the table alone, locks nothing new and puts no job in a
\* hand that did not have it.
Calm ==
    /\ UNCHANGED table
    /\ \A k \in Judges :
          tx'[k] \in {"locked", "claimed", "finished"} =>
              /\ tx'[k] = tx[k]
              /\ row'[k] = row[k]
              /\ stamp'[k] = stamp[k]
              /\ verdicts'[k] = verdicts[k]
    /\ \A k \in Judges, r \in Jobs : Works(k, r)' => Works(k, r)
    /\ JobsNamed'

\* A step that leaves the table, the locks and the hands alone keeps the invariant.
LEMMA CalmStep ==
    ASSUME QueueInv, Calm
    PROVE  QueueInv'
<1>1. RowsConsistent'
  BY DEF QueueInv, Calm, RowsConsistent, table, Visible
<1>2. LocksProtect'
  <2>. SUFFICES ASSUME NEW k \in Judges
                PROVE  LockKept(k)'
    BY DEF LocksProtect, LockKept
  <2>. QED
    BY DEF QueueInv, Calm, LocksProtect, LockKept, table, ClaimPasses, FinishPasses
<1>3. WorkIsClaimed'
  BY DEF QueueInv, Calm, WorkIsClaimed, table
<1>4. \A k \in Judges, r \in Jobs : Holds(k, r)' => Holds(k, r)
  BY DEF Calm, Holds, Takes
<1>5. OneHolder'
  BY <1>4 DEF QueueInv, OneHolder
<1>. QED
  BY <1>1, <1>2, <1>3, <1>5 DEF QueueInv, Calm

\* A session that ends, or answers without a row, lets go of what it had.
LEMMA AnswerNothingCalm ==
    ASSUME TypeOK, QueueInv, NEW j \in Judges, Answer(j, Null), UNCHANGED <<table, process>>
    PROVE  Calm
  BY QueueAssumption DEF TypeOK, QueueInv, JobsNamed, Calm, Works, Answer, EndSession, CloseSession, process

\* What a session locks or works on is a job of its own, once the table is
\* touched on behalf of another one.
LEMMA OwnRow ==
    ASSUME QueueInv, NEW j \in Judges, NEW k \in Judges, j # k,
           tx[j] \in {"locked", "claimed", "finished"}, tx[k] \in {"locked", "claimed", "finished"}
    PROVE  row[j] # row[k]
  BY DEF QueueInv, OneHolder, Holds, Takes, Works, LocksProtect, LockKept

\* A step of the API: the sessions do not move, and it changes no row that is
\* locked, nor any claimed_at or result.
LEMMA ApiStepKeeps ==
    ASSUME TypeOK, QueueInv, NEW r \in Jobs,
           UNCHANGED <<claimed_at, result, process, session>>,
           ~Locked(r),
           \A q \in Jobs \ {r} : /\ state'[q] = state[q]
                                 /\ enqueued_at'[q] = enqueued_at[q]
                                 /\ finished_at'[q] = finished_at[q],
           (IF Visible(r)
            THEN RowChecks(state[r], enqueued_at[r], claimed_at[r], finished_at[r], result[r])
            ELSE claimed_at[r] = Null /\ finished_at[r] = Null /\ result[r] = Null)'
    PROVE  QueueInv'
<1>1. RowsConsistent'
  BY DEF QueueInv, RowsConsistent, Visible
<1>2. LocksProtect'
  <2>. SUFFICES ASSUME NEW k \in Judges
                PROVE  LockKept(k)'
    BY DEF LocksProtect, LockKept
  <2>1. tx[k] \in {"locked", "claimed", "finished"} => row[k] # r
    BY DEF Locked
  <2>. QED
    BY <2>1 DEF QueueInv, LocksProtect, LockKept, session, ClaimPasses, FinishPasses
<1>3. WorkIsClaimed'
  BY DEF QueueInv, WorkIsClaimed, Works, process, session
<1>4. OneHolder'
  BY DEF QueueInv, OneHolder, Holds, Takes, Works, process, session
<1>5. JobsNamed'
  BY DEF QueueInv, JobsNamed, process, session
<1>. QED
  BY <1>1, <1>2, <1>3, <1>4, <1>5 DEF QueueInv

\* A waiting job is in nobody's hand, unless a session has it locked.
LEMMA ClaimableIsFree ==
    ASSUME QueueInv, NEW r \in Jobs, Claimable(r), NEW k \in Judges
    PROVE  ~Holds(k, r)
<1>1. claimed_at[r] = Null
  BY DEF QueueInv, RowsConsistent, Claimable, Visible, JobStates, RowChecks,
         jobs_claimed_when_run
<1>2. ~Works(k, r)
  BY <1>1 DEF QueueInv, WorkIsClaimed
<1>3. ~Takes(k, r)
  BY DEF Claimable, Locked, Takes
<1>. QED
  BY <1>2, <1>3 DEF Holds

\* claim_job locks a job: nobody else has it, and from there on nobody can.
LEMMA LockRowKeeps ==
    ASSUME TypeOK, QueueInv, NEW j \in Judges, LockRow(j)
    PROVE  QueueInv'
<1>1. PICK r \in left[j] : Claimable(r) /\ row' = [row EXCEPT ![j] = r]
  BY DEF LockRow
<1>2. r \in Jobs
  BY <1>1 DEF TypeOK
<1>. USE <1>1, <1>2 DEF LockRow, table, process
<1>3. RowsConsistent'
  BY DEF QueueInv, RowsConsistent, Visible
<1>4. LocksProtect'
  <2>. SUFFICES ASSUME NEW k \in Judges
                PROVE  LockKept(k)'
    BY DEF LocksProtect, LockKept
  <2>. QED
    BY DEF QueueInv, LocksProtect, LockKept, TypeOK, Claimable, ClaimPasses, FinishPasses
<1>5. \A k \in Judges, q \in Jobs : Works(k, q)' => Works(k, q)
  BY DEF Works, TypeOK
<1>6. WorkIsClaimed'
  BY <1>5 DEF QueueInv, WorkIsClaimed
<1>7. \A k \in Judges, q \in Jobs :
         Holds(k, q)' => Holds(k, q) \/ (k = j /\ q = r)
  BY <1>5 DEF Holds, Takes, TypeOK
<1>8. \A k \in Judges : ~Holds(k, r)
  BY ClaimableIsFree
<1>9. OneHolder'
  BY <1>7, <1>8 DEF QueueInv, OneHolder
<1>10. JobsNamed'
  BY DEF QueueInv, JobsNamed, TypeOK
<1>. QED
  BY <1>3, <1>4, <1>6, <1>9, <1>10 DEF QueueInv

\* Its UPDATE passes the constraints: the lock and the hands are as they were.
LEMMA ClaimRowKeeps ==
    ASSUME TypeOK, QueueInv, NEW j \in Judges, ClaimRow(j)
    PROVE  QueueInv'
<1>. USE DEF ClaimRow, table, process
<1>1. RowsConsistent'
  BY DEF QueueInv, RowsConsistent, Visible
<1>2. LocksProtect'
  BY DEF QueueInv, LocksProtect, LockKept, TypeOK, ClaimPasses, FinishPasses
<1>3. \A k \in Judges, q \in Jobs : Works(k, q)' => Works(k, q)
  BY DEF Works, TypeOK
<1>4. WorkIsClaimed'
  BY <1>3 DEF QueueInv, WorkIsClaimed
<1>5. OneHolder'
  BY <1>3 DEF QueueInv, OneHolder, Holds, Takes, TypeOK
<1>6. JobsNamed'
  BY DEF QueueInv, JobsNamed, TypeOK
<1>. QED
  BY <1>1, <1>2, <1>4, <1>5, <1>6 DEF QueueInv

\* Its commit makes the job running, in the hand of the judge that locked it.
LEMMA CommitClaimKeeps ==
    ASSUME TypeOK, QueueInv, NEW j \in Judges, CommitClaim(j)
    PROVE  QueueInv'
<1>. DEFINE r == row[j]
<1>1. r \in Jobs /\ state[r] = "waiting" /\ ClaimPasses(j, r)
  BY DEF CommitClaim, QueueInv, LocksProtect, LockKept
<1>2. stamp[j] # Null
  BY <1>1 DEF ClaimPasses, RowChecks, jobs_claimed_when_run
<1>3. /\ state' = [state EXCEPT ![r] = "running"]
      /\ claimed_at' = [claimed_at EXCEPT ![r] = stamp[j]]
      /\ UNCHANGED <<enqueued_at, finished_at, result, process>>
      /\ tx[j] = "claimed"
  BY DEF CommitClaim
<1>4. \A k \in Judges \ {j} : /\ tx'[k] = tx[k]
                              /\ row'[k] = row[k]
                              /\ stamp'[k] = stamp[k]
                              /\ verdicts'[k] = verdicts[k]
  BY DEF CommitClaim, Answer, EndSession, CloseSession, TypeOK
<1>5. tx'[j] \in {"none", "reply"} /\ (tx'[j] = "reply" => row'[j] = r)
  BY DEF CommitClaim, Answer, EndSession, CloseSession, TypeOK
<1>. HIDE DEF r
<1>6. RowsConsistent'
  <2>. SUFFICES ASSUME NEW q \in Jobs
                PROVE  (IF Visible(q)
                        THEN RowChecks(state[q], enqueued_at[q], claimed_at[q],
                                       finished_at[q], result[q])
                        ELSE claimed_at[q] = Null /\ finished_at[q] = Null
                               /\ result[q] = Null)'
    BY DEF RowsConsistent
  <2>1. CASE q = r
    BY <1>1, <1>3, <2>1 DEF TypeOK, Visible, JobStates, ClaimPasses
  <2>2. CASE q # r
    BY <1>1, <1>3, <2>2 DEF TypeOK, Visible, QueueInv, RowsConsistent
  <2>. QED
    BY <2>1, <2>2
<1>7. LocksProtect'
  <2>. SUFFICES ASSUME NEW k \in Judges, k # j
                PROVE  LockKept(k)'
    BY <1>5 DEF LocksProtect, LockKept
  <2>1. tx[k] \in {"locked", "claimed", "finished"} => row[k] # r
    BY <1>3, OwnRow DEF r
  <2>. QED
    BY <1>1, <1>3, <1>4, <2>1 DEF QueueInv, LocksProtect, LockKept, TypeOK, ClaimPasses, FinishPasses
<1>8. \A k \in Judges, q \in Jobs : Works(k, q)' => Works(k, q) \/ (k = j /\ q = r)
  BY <1>3, <1>4, <1>5 DEF Works, TypeOK, process
<1>9. WorkIsClaimed'
  BY <1>1, <1>2, <1>3, <1>8 DEF QueueInv, WorkIsClaimed, TypeOK
<1>10. \A k \in Judges, q \in Jobs : Holds(k, q)' => Holds(k, q)
  BY <1>3, <1>4, <1>5, <1>8 DEF Holds, Takes, r
<1>11. OneHolder'
  BY <1>10 DEF QueueInv, OneHolder
<1>12. JobsNamed'
  BY <1>3, <1>4, <1>5 DEF QueueInv, JobsNamed, TypeOK, process
<1>. QED
  BY <1>6, <1>7, <1>9, <1>11, <1>12 DEF QueueInv

\* finish_job updates the row of the job the judge already had.
LEMMA FinishRowKeeps ==
    ASSUME TypeOK, QueueInv, NEW j \in Judges, FinishRow(j)
    PROVE  QueueInv'
<1>. USE DEF FinishRow, table, process
<1>1. row[j] \in Jobs
  BY DEF QueueInv, JobsNamed
<1>2. RowsConsistent'
  BY DEF QueueInv, RowsConsistent, Visible
<1>3. LocksProtect'
  BY <1>1 DEF QueueInv, LocksProtect, LockKept, TypeOK, ClaimPasses, FinishPasses, Finishable
<1>4. \A k \in Judges, q \in Jobs : Works(k, q)' => Works(k, q)
  BY DEF Works, TypeOK
<1>5. WorkIsClaimed'
  BY <1>4 DEF QueueInv, WorkIsClaimed
<1>6. OneHolder'
  BY <1>4 DEF QueueInv, OneHolder, Holds, Takes, TypeOK
<1>7. JobsNamed'
  BY DEF QueueInv, JobsNamed, TypeOK
<1>. QED
  BY <1>2, <1>3, <1>5, <1>6, <1>7 DEF QueueInv

\* Its commit makes the job done.  Its locks, and those of the others, ended
\* on different rows.
LEMMA CommitFinishKeeps ==
    ASSUME TypeOK, QueueInv, NEW j \in Judges, CommitFinish(j)
    PROVE  QueueInv'
<1>. DEFINE r == row[j]
<1>1. r \in Jobs /\ state[r] = "running" /\ FinishPasses(j, r)
  BY DEF CommitFinish, QueueInv, LocksProtect, LockKept
<1>2. /\ state' = [state EXCEPT ![r] = "done"]
      /\ finished_at' = [finished_at EXCEPT ![r] = stamp[j]]
      /\ result' = [result EXCEPT ![r] = verdicts[j]]
      /\ UNCHANGED <<enqueued_at, claimed_at, process>>
      /\ tx[j] = "finished"
  BY DEF CommitFinish
<1>3. \A k \in Judges \ {j} : /\ tx'[k] = tx[k]
                              /\ row'[k] = row[k]
                              /\ stamp'[k] = stamp[k]
                              /\ verdicts'[k] = verdicts[k]
  BY DEF CommitFinish, Answer, EndSession, CloseSession, TypeOK
<1>4. tx'[j] \in {"none", "reply"} /\ (tx'[j] = "reply" => row'[j] = r)
  BY DEF CommitFinish, Answer, EndSession, CloseSession, TypeOK
<1>. HIDE DEF r
<1>5. RowsConsistent'
  <2>. SUFFICES ASSUME NEW q \in Jobs
                PROVE  (IF Visible(q)
                        THEN RowChecks(state[q], enqueued_at[q], claimed_at[q],
                                       finished_at[q], result[q])
                        ELSE claimed_at[q] = Null /\ finished_at[q] = Null
                               /\ result[q] = Null)'
    BY DEF RowsConsistent
  <2>1. CASE q = r
    BY <1>1, <1>2, <2>1 DEF TypeOK, Visible, JobStates, FinishPasses
  <2>2. CASE q # r
    BY <1>1, <1>2, <2>2 DEF TypeOK, Visible, QueueInv, RowsConsistent
  <2>. QED
    BY <2>1, <2>2
<1>6. LocksProtect'
  <2>. SUFFICES ASSUME NEW k \in Judges, k # j
                PROVE  LockKept(k)'
    BY <1>4 DEF LocksProtect, LockKept
  <2>1. tx[k] \in {"locked", "claimed", "finished"} => row[k] # r
    BY <1>2, OwnRow DEF r
  <2>. QED
    BY <1>1, <1>2, <1>3, <2>1 DEF QueueInv, LocksProtect, LockKept, TypeOK, ClaimPasses, FinishPasses
<1>7. \A k \in Judges, q \in Jobs : Works(k, q)' => Works(k, q)
  BY <1>2, <1>3, <1>4 DEF Works, TypeOK, process, r
<1>8. WorkIsClaimed'
  BY <1>2, <1>7 DEF QueueInv, WorkIsClaimed
<1>9. OneHolder'
  BY <1>2, <1>3, <1>4, <1>7 DEF QueueInv, OneHolder, Holds, Takes
<1>10. JobsNamed'
  BY <1>2, <1>3, <1>4 DEF QueueInv, JobsNamed, TypeOK, process
<1>. QED
  BY <1>5, <1>6, <1>8, <1>9, <1>10 DEF QueueInv

\* What the queue guarantees holds initially and no step breaks it.
LEMMA QueueInvStep ==
    ASSUME TypeOK, QueueInv, [Next]_vars
    PROVE  QueueInv'
<1>. USE QueueAssumption
<1>1. ASSUME NEW r \in Jobs, BeginInsert(r)
      PROVE  QueueInv'
  <2>1. claimed_at[r] = Null /\ finished_at[r] = Null /\ result[r] = Null
    BY <1>1 DEF BeginInsert, QueueInv, RowsConsistent, Visible, JobStates
  <2>2. ~Locked(r)
    BY <1>1 DEF BeginInsert, QueueInv, LocksProtect, LockKept, Locked
  <2>. QED
    BY <1>1, <2>1, <2>2, ApiStepKeeps DEF BeginInsert, TypeOK, Visible, JobStates
<1>2. ASSUME NEW r \in Jobs, CommitInsert(r)
      PROVE  QueueInv'
  <2>1. claimed_at[r] = Null /\ finished_at[r] = Null /\ result[r] = Null
    BY <1>2 DEF CommitInsert, QueueInv, RowsConsistent, Visible, JobStates
  <2>2. ~Locked(r)
    BY <1>2 DEF CommitInsert, QueueInv, LocksProtect, LockKept, Locked
  <2>3. RowChecks("waiting", enqueued_at[r], Null, Null, Null)
    BY DEF RowChecks, jobs_claimed_when_run, jobs_finished_when_over,
           jobs_result_when_done, jobs_claimed_after_enqueued, jobs_finished_after_start
  <2>. QED
    BY <1>2, <2>1, <2>2, <2>3, ApiStepKeeps DEF CommitInsert, TypeOK, Visible, JobStates
<1>3. ASSUME NEW r \in Jobs, AbortInsert(r)
      PROVE  QueueInv'
  <2>1. claimed_at[r] = Null /\ finished_at[r] = Null /\ result[r] = Null
    BY <1>3 DEF AbortInsert, QueueInv, RowsConsistent, Visible, JobStates
  <2>2. ~Locked(r)
    BY <1>3 DEF AbortInsert, QueueInv, LocksProtect, LockKept, Locked
  <2>. QED
    BY <1>3, <2>1, <2>2, ApiStepKeeps DEF AbortInsert, TypeOK, Visible, JobStates
<1>4. ASSUME NEW r \in Jobs, NEW s \in ApiWrites, NEW f \in {Null, clock}, ApiUpdate(r, s, f)
      PROVE  QueueInv'
  BY <1>4, ApiStepKeeps DEF ApiUpdate, TypeOK, Visible, JobStates
<1>5. ASSUME NEW j \in Judges, BeginClaim(j)
      PROVE  QueueInv'
  <2>1. Calm
    BY <1>5 DEF BeginClaim, Calm, Works, TypeOK, QueueInv, JobsNamed
  <2>. QED
    BY <2>1, CalmStep
<1>6. ASSUME NEW j \in Judges, TakeSnapshot(j)
      PROVE  QueueInv'
  <2>1. Calm
    BY <1>6 DEF TakeSnapshot, process, Calm, Works, TypeOK, QueueInv, JobsNamed
  <2>. QED
    BY <2>1, CalmStep
<1>7. ASSUME NEW j \in Judges, SkipRow(j)
      PROVE  QueueInv'
  <2>1. Calm
    BY <1>7 DEF SkipRow, process, Calm, Works, TypeOK, QueueInv, JobsNamed
  <2>. QED
    BY <2>1, CalmStep
<1>8. ASSUME NEW j \in Judges, ReceiveClaim(j)
      PROVE  QueueInv'
  <2>1. Calm
    BY <1>8 DEF ReceiveClaim, EndSession, CloseSession, Calm, Works, TypeOK, QueueInv, JobsNamed
  <2>. QED
    BY <2>1, CalmStep
<1>9. ASSUME NEW j \in Judges, Wake(j)
      PROVE  QueueInv'
  <2>1. Calm
    BY <1>9 DEF Wake, session, Calm, Works, TypeOK, QueueInv, JobsNamed
  <2>. QED
    BY <2>1, CalmStep
<1>10. ASSUME NEW j \in Judges, NEW v \in VerdictLists, JudgeOk(j, v)
      PROVE  QueueInv'
  <2>1. Calm
    BY <1>10 DEF JudgeOk, Calm, Works, TypeOK, QueueInv, JobsNamed
  <2>. QED
    BY <2>1, CalmStep
<1>11. ASSUME NEW j \in Judges, JudgeUnsupported(j)
      PROVE  QueueInv'
  <2>1. Calm
    BY <1>11 DEF JudgeUnsupported, session, Calm, Works, TypeOK, QueueInv, JobsNamed
  <2>. QED
    BY <2>1, CalmStep
<1>12. ASSUME NEW j \in Judges, ReceiveFinish(j)
      PROVE  QueueInv'
  <2>1. Calm
    BY <1>12 DEF ReceiveFinish, EndSession, CloseSession, Calm, Works, TypeOK, QueueInv, JobsNamed
  <2>. QED
    BY <2>1, CalmStep
<1>13. ASSUME NEW j \in Judges, StatementRefused(j)
      PROVE  QueueInv'
  <2>1. Calm
    BY <1>13 DEF StatementRefused, EndSession, AbortSession, CloseSession, Calm, Works, TypeOK, QueueInv, JobsNamed
  <2>. QED
    BY <2>1, CalmStep
<1>14. ASSUME NEW j \in Judges, Restart(j)
      PROVE  QueueInv'
  <2>1. Calm
    BY <1>14 DEF Restart, session, Calm, Works, TypeOK, QueueInv, JobsNamed
  <2>. QED
    BY <2>1, CalmStep
<1>15. ASSUME NEW j \in Judges, JudgeFails(j)
      PROVE  QueueInv'
  <2>1. Calm
    BY <1>15 DEF JudgeFails, session, Calm, Works, TypeOK, QueueInv, JobsNamed
  <2>. QED
    BY <2>1, CalmStep
<1>16. ASSUME NEW j \in Judges, Crash(j)
      PROVE  QueueInv'
  <2>1. Calm
    BY <1>16 DEF Crash, EndSession, CloseSession, session, Calm, Works, TypeOK, QueueInv, JobsNamed
  <2>. QED
    BY <2>1, CalmStep
<1>17. ASSUME NEW j \in Judges, Rollback(j)
      PROVE  QueueInv'
  <2>1. Calm
    BY <1>17 DEF Rollback, EndSession, AbortSession, CloseSession, Calm, Works, TypeOK, QueueInv, JobsNamed
  <2>. QED
    BY <2>1, CalmStep
<1>18. ASSUME NEW j \in Judges, ClaimNothing(j)
      PROVE  QueueInv'
  BY <1>18, AnswerNothingCalm, CalmStep DEF ClaimNothing
<1>19. ASSUME NEW j \in Judges, FinishNothing(j)
      PROVE  QueueInv'
  BY <1>19, AnswerNothingCalm, CalmStep DEF FinishNothing
<1>20. ASSUME NEW j \in Judges, ClaimRow(j)
      PROVE  QueueInv'
  BY <1>20, ClaimRowKeeps
<1>25. ASSUME NEW j \in Judges, LockRow(j)
      PROVE  QueueInv'
  BY <1>25, LockRowKeeps
<1>21. ASSUME NEW j \in Judges, CommitClaim(j)
      PROVE  QueueInv'
  BY <1>21, CommitClaimKeeps
<1>22. ASSUME NEW j \in Judges, FinishRow(j)
      PROVE  QueueInv'
  BY <1>22, FinishRowKeeps
<1>23. ASSUME NEW j \in Judges, CommitFinish(j)
      PROVE  QueueInv'
  BY <1>23, CommitFinishKeeps
<1>24. CASE Tick \/ UNCHANGED vars
  <2>1. Calm
    BY <1>24 DEF Tick, vars, process, session, Calm, Works, QueueInv, JobsNamed
  <2>. QED
    BY <2>1, CalmStep
<1>. QED
  BY <1>1, <1>2, <1>3, <1>4, <1>5, <1>6, <1>7, <1>8, <1>9, <1>10, <1>11, <1>12, <1>13, <1>14, <1>15, <1>16, <1>17, <1>18, <1>19, <1>20, <1>21, <1>22, <1>23, <1>24, <1>25
     DEF Next, ApiStep, JudgeStep, FailureStep

\* The inductive invariant holds of every behaviour of the queue.
THEOREM QueueInvariant == Spec => []QueueInv
<1>1. Init => QueueInv
  BY QueueAssumption DEF Init, QueueInv, RowsConsistent, LocksProtect, LockKept, JobsNamed, WorkIsClaimed,
         OneHolder, Holds, Takes, Works, Visible, JobStates
<1>2. TypeOK /\ QueueInv /\ [Next]_vars => QueueInv'
  BY QueueInvStep
<1>. QED
  BY <1>1, <1>2, TypeCorrect, PTL DEF Spec

\* However many judges there are, no two of them ever work on the same job.
THEOREM OneJudgePerJob == Spec => []OneHolder
<1>1. QueueInv => OneHolder
  BY DEF QueueInv
<1>. QED
  BY <1>1, QueueInvariant, PTL

\* A job in a judge's hand is never offered again, whatever states the api role
\* may write (ApiWrites is any set of states).
THEOREM HeldIsNotClaimable == Spec => []HeldNotClaimable
<1>1. QueueInv => HeldNotClaimable
  BY ClaimableIsFree DEF HeldNotClaimable, Holds
<1>. QED
  BY <1>1, QueueInvariant, PTL

-----------------------------------------------------------------------------
(* What a step may do to a row *)

\* The table changes through the INSERT and the UPDATE of the api role, and
\* through the commits of claim_job and finish_job: nothing else writes it.
LEMMA TableWriters ==
    ASSUME [Next]_vars
    PROVE  \/ UNCHANGED table
           \/ \E r \in Jobs : BeginInsert(r) \/ CommitInsert(r) \/ AbortInsert(r)
           \/ \E r \in Jobs, s \in ApiWrites, f \in {Null, clock} : ApiUpdate(r, s, f)
           \/ \E j \in Judges : CommitClaim(j) \/ CommitFinish(j)
<1>1. ASSUME NEW j \in Judges, JudgeStep(j), ~CommitClaim(j), ~CommitFinish(j)
      PROVE  UNCHANGED table
  BY <1>1 DEF JudgeStep, BeginClaim, TakeSnapshot, SkipRow, LockRow, ClaimRow, ClaimNothing,
         ReceiveClaim, Wake, JudgeOk, JudgeUnsupported, FinishRow, FinishNothing,
         ReceiveFinish, StatementRefused, Restart
<1>2. ASSUME NEW j \in Judges, FailureStep(j)
      PROVE  UNCHANGED table
  BY <1>2 DEF FailureStep, JudgeFails, Crash, Rollback
<1>3. CASE Tick \/ UNCHANGED vars
  BY <1>3 DEF Tick, vars
<1>. QED
  BY <1>1, <1>2, <1>3 DEF Next, ApiStep

\* A row that is not visible was never claimed, ended or judged.
LEMMA InvisibleRow ==
    ASSUME QueueInv, NEW r \in Jobs, state[r] \in {"absent", "inserting"}
    PROVE  claimed_at[r] = Null /\ finished_at[r] = Null /\ result[r] = Null
  BY DEF QueueInv, RowsConsistent, Visible, JobStates

\* The state of a row tells whether it was claimed and whether it has verdicts.
LEMMA RowFacts ==
    ASSUME TypeOK, QueueInv, NEW r \in Jobs
    PROVE  /\ claimed_at[r] # Null <=> state[r] \in {"running", "done", "failed"}
           /\ result[r] # Null <=> state[r] = "done"
  BY InvisibleRow
     DEF TypeOK, QueueInv, RowsConsistent, Visible, JobStates, RowChecks,
         jobs_claimed_when_run, jobs_result_when_done

\* A job is claimed at most once in its life, for every set of states the api
\* role may write: no failure and no write makes it claimable again.
THEOREM ClaimIsUnique == Spec => ClaimedOnce
<1>. DEFINE Keep == \A r \in Jobs : claimed_at[r] # Null => claimed_at'[r] = claimed_at[r]
<1>1. ASSUME TypeOK, QueueInv, [Next]_vars
      PROVE  [Keep]_vars
  <2>1. CASE UNCHANGED claimed_at
    BY <2>1
  <2>2. ASSUME NEW j \in Judges, CommitClaim(j)
        PROVE  Keep
    <3>1. row[j] \in Jobs /\ state[row[j]] = "waiting"
      BY <2>2, <1>1 DEF CommitClaim, QueueInv, LocksProtect, LockKept
    <3>2. claimed_at[row[j]] = Null
      BY <3>1, <1>1, RowFacts
    <3>. QED
      BY <3>2, <2>2, <1>1 DEF CommitClaim, TypeOK
  <2>. QED
    BY <1>1, <2>1, <2>2, TableWriters
       DEF table, BeginInsert, CommitInsert, AbortInsert, ApiUpdate, CommitFinish
<1>2. TypeOK /\ QueueInv /\ [Next]_vars => [Keep]_vars
  BY <1>1
<1>. QED
  BY <1>2, TypeCorrect, QueueInvariant, PTL DEF Spec, ClaimedOnce

\* A job that is done stays done with the same verdicts, for every set of
\* states the api role may write.
THEOREM VerdictsAreFinal == Spec => VerdictIsFinal
<1>. DEFINE Keep == \A r \in Jobs : state[r] = "done" =>
                        state'[r] = "done" /\ result'[r] = result[r]
<1>1. ASSUME TypeOK, QueueInv, [Next]_vars
      PROVE  [Keep]_vars
  <2>1. CASE UNCHANGED table
    BY <2>1 DEF table
  <2>2. ASSUME NEW r \in Jobs, BeginInsert(r) \/ CommitInsert(r) \/ AbortInsert(r)
        PROVE  Keep
    BY <2>2, <1>1 DEF BeginInsert, CommitInsert, AbortInsert, TypeOK
  <2>3. ASSUME NEW r \in Jobs, NEW s \in ApiWrites, NEW f \in {Null, clock}, ApiUpdate(r, s, f)
        PROVE  Keep
    <3>1. result[r] # Null <=> s = "done"
      BY <2>3 DEF ApiUpdate, RowChecks, jobs_result_when_done
    <3>. QED
      BY <3>1, <2>3, <1>1, RowFacts DEF ApiUpdate, TypeOK
  <2>4. ASSUME NEW j \in Judges, CommitClaim(j) \/ CommitFinish(j)
        PROVE  Keep
    <3>1. row[j] \in Jobs /\ state[row[j]] # "done"
      BY <2>4, <1>1 DEF CommitClaim, CommitFinish, QueueInv, LocksProtect, LockKept
    <3>. QED
      BY <3>1, <2>4, <1>1 DEF CommitClaim, CommitFinish, TypeOK
  <2>. QED
    BY <1>1, <2>1, <2>2, <2>3, <2>4, TableWriters
<1>2. TypeOK /\ QueueInv /\ [Next]_vars => [Keep]_vars
  BY <1>1
<1>. QED
  BY <1>2, TypeCorrect, QueueInvariant, PTL DEF Spec, VerdictIsFinal

-----------------------------------------------------------------------------
(* The queue implements the life cycle *)

\* As long as the api role writes no more than the replacement of a waiting job
\* and the failure of a running one, every step of the queue is an arrow of
\* JobLifecycle or leaves what a submitter sees alone.
THEOREM Refinement ==
    ASSUME ApiWrites \subseteq {"replaced", "failed"}
    PROVE  Spec => ImplementsLifecycle
<1>1. Init => L!Init
  BY DEF Init, L!Init, life
<1>2. ASSUME TypeOK, TypeOK', QueueInv, [Next]_vars
      PROVE  [L!Next]_(L!lifeVars)
  <2>. USE <1>2
  <2>1. CASE UNCHANGED table
    BY <2>1 DEF table, life, L!lifeVars
  <2>2. ASSUME NEW r \in Jobs, BeginInsert(r)
        PROVE  UNCHANGED L!lifeVars
    BY <2>2 DEF BeginInsert, life, L!lifeVars, TypeOK
  <2>3. ASSUME NEW r \in Jobs, CommitInsert(r)
        PROVE  L!Enqueue(r)
    BY <2>3 DEF CommitInsert, life, L!Enqueue, L!Move, TypeOK
  <2>4. ASSUME NEW r \in Jobs, AbortInsert(r)
        PROVE  UNCHANGED L!lifeVars
    BY <2>4 DEF AbortInsert, life, L!lifeVars, TypeOK
  <2>5. ASSUME NEW r \in Jobs, NEW s \in ApiWrites, NEW f \in {Null, clock}, ApiUpdate(r, s, f)
        PROVE  L!Replace(r) \/ L!Fail(r) \/ UNCHANGED L!lifeVars
    <3>1. /\ claimed_at[r] # Null <=> s \in {"running", "done", "failed"}
          /\ result[r] # Null <=> s = "done"
          /\ Visible(r)
          /\ state' = [state EXCEPT ![r] = s]
          /\ UNCHANGED result
      BY <2>5 DEF ApiUpdate, RowChecks, jobs_claimed_when_run, jobs_result_when_done
    <3>2. CASE s = "replaced"
      <4>1. state[r] \in {"waiting", "replaced"}
        BY <3>1, <3>2, RowFacts DEF Visible, JobStates
      <4>2. CASE state[r] = "waiting"
        BY <3>1, <3>2, <4>2 DEF L!Replace, L!Move, life, TypeOK
      <4>3. CASE state[r] = "replaced"
        <5>1. state' = state
          BY <3>1, <3>2, <4>3 DEF TypeOK
        <5>. QED
          BY <3>1, <5>1 DEF L!lifeVars, life
      <4>. QED
        BY <4>1, <4>2, <4>3
    <3>3. CASE s = "failed"
      <4>1. state[r] \in {"running", "failed"}
        BY <3>1, <3>3, RowFacts DEF Visible, JobStates
      <4>2. CASE state[r] = "running"
        BY <3>1, <3>3, <4>2 DEF L!Fail, L!Move, life, TypeOK
      <4>3. CASE state[r] = "failed"
        <5>1. state' = state
          BY <3>1, <3>3, <4>3 DEF TypeOK
        <5>. QED
          BY <3>1, <5>1 DEF L!lifeVars, life
      <4>. QED
        BY <4>1, <4>2, <4>3
    <3>. QED
      BY <3>2, <3>3
  <2>6. ASSUME NEW j \in Judges, CommitClaim(j)
        PROVE  row[j] \in Jobs /\ L!Claim(row[j])
    BY <2>6 DEF CommitClaim, QueueInv, LocksProtect, LockKept, life, L!Claim, L!Move, TypeOK
  <2>7. ASSUME NEW j \in Judges, CommitFinish(j)
        PROVE  /\ row[j] \in Jobs
               /\ verdicts[j] \in VerdictLists
               /\ L!Finish(row[j], verdicts[j])
    <3>1. row[j] \in Jobs /\ state[row[j]] = "running" /\ verdicts[j] # Null
      BY <2>7 DEF CommitFinish, QueueInv, LocksProtect, LockKept, FinishPasses, RowChecks,
             jobs_result_when_done
    <3>. QED
      BY <2>7, <3>1 DEF CommitFinish, life, L!Finish, TypeOK
  <2>. QED
    BY <2>1, <2>2, <2>3, <2>4, <2>5, <2>6, <2>7, TableWriters DEF L!Next
<1>. QED
  BY <1>1, <1>2, TypeCorrect, QueueInvariant, PTL DEF Spec, ImplementsLifecycle, L!Spec

-----------------------------------------------------------------------------
(* No job is lost by the judges while nothing fails, and none is overtaken *)
(* unless it is given back.  Each needs that the api role does not put a   *)
(* job back: with its grant it could write running to a failed job, or     *)
(* waiting to a replaced one.                                              *)

Calls == {"claim", "scan", "locked", "claimed"}
Ends == {"finish", "finished"}

\* A judge and its session are at the same place, whoever has died.
HandsInv ==
    \A j \in Judges :
        /\ pc[j] \in {"idle", "asleep", "judging"} => tx[j] = "none"
        /\ pc[j] = "claiming" => tx[j] \in Calls \cup {"reply"}
        /\ pc[j] = "finishing" => tx[j] \in Ends \cup {"reply"} /\ job[j] \in Jobs
        /\ pc[j] = "finishing" /\ tx[j] \in Ends => row[j] = job[j]
        /\ failures = 0 /\ pc[j] = "down" => tx[j] = "none"

\* Every step keeps judges and sessions together.
LEMMA HandsStep ==
    ASSUME TypeOK, QueueInv, HandsInv, [Next]_vars
    PROVE  HandsInv'
<1> USE QueueAssumption
<1> USE DEF TypeOK, HandsInv, Calls, Ends, table, process, session, environment
<1>1. ASSUME UNCHANGED <<process, session, failures>> PROVE HandsInv'
  BY <1>1
<1>2. ASSUME ApiStep \/ Tick \/ UNCHANGED vars PROVE HandsInv'
  BY <1>1, <1>2 DEF ApiStep, BeginInsert, CommitInsert, AbortInsert, ApiUpdate, Tick, vars
<1>3. ASSUME NEW j \in Judges,
             BeginClaim(j) \/ TakeSnapshot(j) \/ SkipRow(j) \/ LockRow(j) \/ ClaimRow(j) \/ FinishRow(j) \/ Wake(j)
                \/ JudgeUnsupported(j) \/ JudgeFails(j) \/ Restart(j)
                \/ \E v \in VerdictLists : JudgeOk(j, v)
      PROVE  HandsInv'
  BY <1>3 DEF BeginClaim, TakeSnapshot, SkipRow, LockRow, ClaimRow, FinishRow, Wake, JudgeUnsupported, JudgeFails,
              Restart, JudgeOk, QueueInv, JobsNamed
<1>4. ASSUME NEW j \in Judges, NEW r, Answer(j, r), tx[j] \in Calls \cup Ends, UNCHANGED <<process, failures>>
      PROVE  HandsInv'
  BY <1>4 DEF Answer, EndSession, CloseSession
<1>5. ASSUME NEW j \in Judges, ClaimNothing(j) \/ CommitClaim(j) \/ FinishNothing(j) \/ CommitFinish(j)
      PROVE  HandsInv'
  BY <1>4, <1>5 DEF ClaimNothing, CommitClaim, FinishNothing, CommitFinish
<1>6. ASSUME NEW j \in Judges, ReceiveClaim(j) \/ ReceiveFinish(j) \/ StatementRefused(j) \/ Rollback(j)
      PROVE  HandsInv'
  BY <1>6 DEF ReceiveClaim, ReceiveFinish, StatementRefused, Rollback, EndSession, AbortSession, CloseSession
<1>7. ASSUME NEW j \in Judges, Crash(j) PROVE HandsInv'
  BY <1>7 DEF Crash, EndSession, AbortSession, CloseSession
<1> QED
  BY <1>2, <1>3, <1>5, <1>6, <1>7 DEF Next, JudgeStep, FailureStep

-----------------------------------------------------------------------------
\* now() of a statement is not later than the clock, and that of finish_job not
\* earlier than the claim of its job.  It has verdicts to write.
TimesInv ==
    /\ \A r \in Jobs : claimed_at[r] # Null => claimed_at[r] <= clock
    /\ \A j \in Judges :
          /\ stamp[j] # Null => stamp[j] <= clock
          /\ tx[j] \in Ends => stamp[j] # Null /\ verdicts[j] # Null /\ row[j] \in Jobs
                               /\ (claimed_at[row[j]] # Null => claimed_at[row[j]] <= stamp[j])

\* Every step keeps the order of the times.
LEMMA TimesStep ==
    ASSUME TypeOK, QueueInv, TimesInv, [Next]_vars
    PROVE  TimesInv'
<1> USE QueueAssumption
<1> USE DEF TypeOK, TimesInv, Ends, Times, table, process, session, environment
<1>1. ASSUME UNCHANGED <<claimed_at, session, clock>> PROVE TimesInv'
  BY <1>1
<1>2. ASSUME Tick PROVE TimesInv'
  BY <1>2 DEF Tick
<1>3. ASSUME ApiStep \/ UNCHANGED vars PROVE TimesInv'
  BY <1>1, <1>3 DEF ApiStep, BeginInsert, CommitInsert, AbortInsert, ApiUpdate, vars
<1>4. ASSUME NEW j \in Judges,
             BeginClaim(j) \/ TakeSnapshot(j) \/ SkipRow(j) \/ LockRow(j) \/ ClaimRow(j) \/ FinishRow(j)
      PROVE  TimesInv'
  BY <1>4 DEF BeginClaim, TakeSnapshot, SkipRow, LockRow, ClaimRow, FinishRow
<1>5. ASSUME NEW j \in Judges, Wake(j) \/ JudgeUnsupported(j) \/ JudgeFails(j) \/ Restart(j)
      PROVE  TimesInv'
  BY <1>1, <1>5 DEF Wake, JudgeUnsupported, JudgeFails, Restart
<1>6. ASSUME NEW j \in Judges, NEW v \in VerdictLists, JudgeOk(j, v) PROVE TimesInv'
  <2>1. job[j] \in Jobs
    BY <1>6 DEF JudgeOk, QueueInv, JobsNamed
  <2>2. /\ tx'[j] = "finish" /\ stamp'[j] = clock /\ row'[j] = job[j] /\ verdicts'[j] = v
        /\ \A k \in Judges \ {j} : /\ tx'[k] = tx[k] /\ stamp'[k] = stamp[k]
                                   /\ row'[k] = row[k] /\ verdicts'[k] = verdicts[k]
        /\ clock' = clock /\ claimed_at' = claimed_at
    BY <1>6 DEF JudgeOk
  <2>3. v # Null /\ clock # Null
    BY <1>6
  <2>4. \A r \in Jobs : claimed_at'[r] # Null => claimed_at'[r] <= clock'
    BY <2>2
  <2>5. /\ stamp'[j] <= clock'
        /\ row'[j] \in Jobs /\ stamp'[j] # Null /\ verdicts'[j] # Null
        /\ claimed_at'[row'[j]] # Null => claimed_at'[row'[j]] <= stamp'[j]
    <3>1. clock \in Int /\ clock <= clock
      OBVIOUS
    <3>2. claimed_at[job[j]] # Null => claimed_at[job[j]] <= clock
      BY <2>1
    <3>3. /\ stamp'[j] = clock /\ row'[j] = job[j] /\ verdicts'[j] = v
          /\ claimed_at' = claimed_at /\ clock' = clock
      BY <2>2
    <3> QED
      BY <2>1, <2>3, <3>1, <3>2, <3>3
  <2>6. ASSUME NEW k \in Judges \ {j}
        PROVE  /\ stamp'[k] # Null => stamp'[k] <= clock'
               /\ tx'[k] \in Ends => stamp'[k] # Null /\ verdicts'[k] # Null /\ row'[k] \in Jobs
                     /\ (claimed_at'[row'[k]] # Null => claimed_at'[row'[k]] <= stamp'[k])
    BY <2>2, <2>6
  <2> QED
    BY <2>4, <2>5, <2>6
<1>7. ASSUME NEW j \in Judges, CloseSession(j) \/ (\E r : Answer(j, r)), UNCHANGED <<claimed_at, clock>>
      PROVE  TimesInv'
  BY <1>7 DEF Answer, EndSession, CloseSession
<1>8. ASSUME NEW j \in Judges, CommitClaim(j) PROVE TimesInv'
  <2>1. row[j] \in Jobs /\ Holds(j, row[j])
    BY <1>8 DEF CommitClaim, QueueInv, LocksProtect, LockKept, Holds, Takes
  <2>2. \A k \in Judges : k # j /\ tx[k] \in Ends => row[k] # row[j]
    BY <2>1 DEF QueueInv, OneHolder, Holds, Works
  <2>3. tx'[j] \notin Ends
    BY <1>8 DEF CommitClaim, Answer, EndSession, CloseSession
  <2>4. /\ stamp'[j] = Null
        /\ \A k \in Judges \ {j} : /\ tx'[k] = tx[k] /\ stamp'[k] = stamp[k]
                                   /\ row'[k] = row[k] /\ verdicts'[k] = verdicts[k]
    BY <1>8 DEF CommitClaim, Answer, EndSession, CloseSession
  <2>5. /\ claimed_at'[row[j]] = stamp[j] /\ clock' = clock
        /\ \A q \in Jobs \ {row[j]} : claimed_at'[q] = claimed_at[q]
    BY <1>8, <2>1 DEF CommitClaim
  <2> QED
    BY <2>1, <2>2, <2>3, <2>4, <2>5
<1>9. ASSUME NEW j \in Judges,
             ClaimNothing(j) \/ FinishNothing(j) \/ CommitFinish(j) \/ ReceiveClaim(j) \/ ReceiveFinish(j)
                \/ StatementRefused(j) \/ Rollback(j)
      PROVE  TimesInv'
  BY <1>7, <1>9 DEF ClaimNothing, FinishNothing, CommitFinish, ReceiveClaim, ReceiveFinish,
                    StatementRefused, Rollback, EndSession, AbortSession
<1>10. ASSUME NEW j \in Judges, Crash(j) PROVE TimesInv'
  <2>1. CASE tx[j] = "reply"
    BY <1>7, <1>10, <2>1 DEF Crash, EndSession, AbortSession, CloseSession
  <2>2. CASE tx[j] # "reply"
    BY <1>1, <1>10, <2>2 DEF Crash
  <2> QED
    BY <2>1, <2>2
<1> QED
  BY <1>2, <1>3, <1>4, <1>5, <1>6, <1>8, <1>9, <1>10 DEF Next, JudgeStep, FailureStep

\* The verdicts of a running job pass the constraints of its row.
LEMMA FinishIsNotRefused ==
    ASSUME TypeOK, QueueInv, TimesInv, NEW j \in Judges, tx[j] = "finish", Finishable(j)
    PROVE  FinishPasses(j, row[j])
<1> USE QueueAssumption
<1>1. row[j] \in Jobs /\ state[row[j]] = "running" /\ stamp[j] # Null
  BY DEF TimesInv, Ends, Finishable
<1>2. /\ claimed_at[row[j]] # Null
      /\ jobs_claimed_after_enqueued(enqueued_at[row[j]], claimed_at[row[j]])
  BY <1>1 DEF QueueInv, RowsConsistent, Visible, JobStates, RowChecks, jobs_claimed_when_run
<1>3. claimed_at[row[j]] <= stamp[j] /\ claimed_at[row[j]] \in Times /\ stamp[j] \in Times
  BY <1>1, <1>2 DEF TimesInv, Ends, TypeOK
<1>4. verdicts[j] # Null
  BY DEF TimesInv, Ends
<1> QED
  BY <1>1, <1>2, <1>3, <1>4 DEF FinishPasses, RowChecks, jobs_claimed_when_run, jobs_finished_when_over,
     jobs_result_when_done, jobs_finished_after_start, Times

-----------------------------------------------------------------------------
(* No job is lost *)

\* While nothing fails, a running job of a known pack is in a judge's hand until
\* its verdicts are written.
LostInv ==
    failures = 0 =>
        /\ \A r \in Jobs : state[r] = "running" /\ language_pack[r] = Supported
                            => \E j \in Judges : Works(j, r)
        /\ \A j \in Judges : pc[j] = "finishing" /\ tx[j] = "reply" => state[job[j]] # "running"

\* Where the session of a judge is while nothing fails, seen from the session.
LEMMA WhereJudgeIs ==
    ASSUME TypeOK, HandsInv, failures = 0, NEW j \in Judges
    PROVE  /\ tx[j] \in Calls => pc[j] = "claiming"
           /\ tx[j] \in Ends => pc[j] = "finishing" /\ row[j] = job[j]
  BY DEF TypeOK, HandsInv, Calls, Ends, PcStates

\* No step takes a failure back.
LEMMA NoFailureBefore ==
    ASSUME TypeOK, [Next]_vars, failures' = 0
    PROVE  failures = 0
  BY QueueAssumption
     DEF TypeOK, Next, JudgeStep, FailureStep, JudgeFails, Crash, Rollback, ApiStep, BeginInsert,
         CommitInsert, AbortInsert, ApiUpdate, Tick, BeginClaim, TakeSnapshot, SkipRow, LockRow, ClaimRow,
         ClaimNothing, CommitClaim, ReceiveClaim, Wake, JudgeOk, JudgeUnsupported, FinishRow,
         FinishNothing, CommitFinish, ReceiveFinish, StatementRefused, Restart, vars, environment

\* A step that leaves the running jobs, the finished answers and every hand.
LEMMA NothingDropped ==
    ASSUME LostInv, failures' = failures,
           \A r \in Jobs : state'[r] = "running" =>
               state[r] = "running" /\ language_pack'[r] = language_pack[r],
           \A r \in Jobs, j \in Judges :
               Works(j, r) /\ state'[r] = "running" /\ language_pack[r] = Supported
                   => Works(j, r)',
           \A j \in Judges : (pc[j] = "finishing" /\ tx[j] = "reply")' =>
               \/ job'[j] \in Jobs /\ state'[job'[j]] # "running"
               \/ pc[j] = "finishing" /\ tx[j] = "reply" /\ job'[j] = job[j] /\ job[j] \in Jobs
    PROVE  LostInv'
  BY DEF LostInv

\* Every step keeps the running jobs in a hand.
LEMMA LostStep ==
    ASSUME TypeOK, QueueInv, HandsInv, TimesInv, LostInv, [Next]_vars,
           "running" \notin ApiWrites
    PROVE  LostInv'
<1> USE QueueAssumption
<1> USE DEF TypeOK, table, process, session, environment
<1> SUFFICES ASSUME failures' = 0 PROVE LostInv'
  BY DEF LostInv
<1>1. failures = 0
  BY NoFailureBefore
<1>2. \A j \in Judges : pc[j] = "finishing" => job[j] \in Jobs
  BY DEF HandsInv
<1>3. ASSUME ApiStep PROVE LostInv'
  <2>1. /\ \A r \in Jobs : state'[r] = "running" =>
               state[r] = "running" /\ language_pack'[r] = language_pack[r]
        /\ UNCHANGED <<pc, job, tx, row, failures>>
    BY <1>3 DEF ApiStep, BeginInsert, CommitInsert, AbortInsert, ApiUpdate
  <2> QED
    BY <1>2, <2>1, NothingDropped DEF Works
<1>4. ASSUME Tick \/ UNCHANGED vars PROVE LostInv'
  BY <1>2, <1>4, NothingDropped DEF Works, Tick, vars
<1>5. ASSUME NEW j \in Judges,
             BeginClaim(j) \/ TakeSnapshot(j) \/ SkipRow(j) \/ LockRow(j) \/ ClaimRow(j) \/ Wake(j) \/ Restart(j)
                \/ FinishRow(j)
      PROVE  LostInv'
  <2>1. UNCHANGED <<table, failures>>
    BY <1>5 DEF BeginClaim, TakeSnapshot, SkipRow, LockRow, ClaimRow, Wake, Restart, FinishRow
  <2>2. \A r \in Jobs, k \in Judges : Works(k, r) => Works(k, r)'
    BY <1>5 DEF BeginClaim, TakeSnapshot, SkipRow, LockRow, ClaimRow, Wake, Restart, FinishRow, Works
  <2>3. \A k \in Judges : (pc[k] = "finishing" /\ tx[k] = "reply")'
            => pc[k] = "finishing" /\ tx[k] = "reply" /\ job'[k] = job[k]
    BY <1>5 DEF BeginClaim, TakeSnapshot, SkipRow, LockRow, ClaimRow, Wake, Restart, FinishRow
  <2> QED
    BY <1>2, <2>1, <2>2, <2>3, NothingDropped
<1>6. ASSUME NEW j \in Judges, ClaimNothing(j) PROVE LostInv'
  <2>1. pc[j] = "claiming"
    BY <1>1, <1>6, WhereJudgeIs DEF ClaimNothing, Calls
  <2>2. UNCHANGED <<table, process, failures>>
    BY <1>6 DEF ClaimNothing
  <2>3. \A r \in Jobs, k \in Judges : Works(k, r) => Works(k, r)'
    BY <1>6, <2>1 DEF ClaimNothing, Answer, Works
  <2>4. \A k \in Judges : (pc[k] = "finishing" /\ tx[k] = "reply")'
            => pc[k] = "finishing" /\ tx[k] = "reply" /\ job'[k] = job[k]
    BY <1>6, <2>1 DEF ClaimNothing, Answer
  <2> QED
    BY <1>2, <2>2, <2>3, <2>4, NothingDropped
<1>7. ASSUME NEW j \in Judges, CommitClaim(j) PROVE LostInv'
  <2>1. pc[j] = "claiming" /\ row[j] \in Jobs
    BY <1>1, <1>7, WhereJudgeIs DEF CommitClaim, Calls, QueueInv, LocksProtect, LockKept
  <2>2. \A r \in Jobs : r = row[j] => Works(j, r)'
    BY <1>7, <2>1 DEF CommitClaim, Answer, Works
  <2>3. /\ UNCHANGED <<pc, job, language_pack, failures>>
        /\ \A r \in Jobs \ {row[j]} : state'[r] = state[r]
        /\ \A k \in Judges \ {j} : tx'[k] = tx[k] /\ row'[k] = row[k]
    BY <1>7, <2>1 DEF CommitClaim, Answer
  <2>4. \A r \in Jobs, k \in Judges : Works(k, r) => Works(k, r)'
    BY <1>7, <2>1, <2>3 DEF CommitClaim, Works
  <2>5. \A k \in Judges : pc[k] = "finishing" => job[k] # row[j]
    <3> SUFFICES ASSUME NEW k \in Judges, pc[k] = "finishing", job[k] = row[j] PROVE FALSE
      OBVIOUS
    <3>1. Works(k, row[j]) /\ Takes(j, row[j])
      BY <1>7, <2>1 DEF Works, Takes, CommitClaim
    <3> QED
      BY <2>1, <3>1 DEF QueueInv, OneHolder, Holds
  <2>6. ASSUME NEW r \in Jobs, state'[r] = "running", language_pack'[r] = Supported
        PROVE  \E k \in Judges : Works(k, r)'
    <3>1. CASE r = row[j]
      BY <2>2, <3>1
    <3>2. CASE r # row[j]
      <4>1. PICK k \in Judges : Works(k, r)
        BY <1>1, <2>3, <2>6, <3>2 DEF LostInv
      <4> QED
        BY <2>4, <4>1
    <3> QED
      BY <3>1, <3>2
  <2>7. ASSUME NEW k \in Judges, pc'[k] = "finishing", tx'[k] = "reply"
        PROVE  state'[job'[k]] # "running"
    <3>1. pc[k] = "finishing" /\ k # j /\ tx[k] = "reply"
      BY <2>1, <2>3, <2>7
    <3> QED
      BY <1>1, <1>2, <2>3, <2>5, <3>1 DEF LostInv
  <2> QED
    BY <2>6, <2>7 DEF LostInv
<1>8. ASSUME NEW j \in Judges, ReceiveClaim(j) PROVE LostInv'
  <2>1. UNCHANGED <<table, failures>>
    BY <1>8 DEF ReceiveClaim
  <2>2. \A r \in Jobs, k \in Judges : Works(k, r) => Works(k, r)'
    BY <1>8 DEF ReceiveClaim, EndSession, CloseSession, Works
  <2>3. \A k \in Judges : (pc[k] = "finishing" /\ tx[k] = "reply")'
            => pc[k] = "finishing" /\ tx[k] = "reply" /\ job'[k] = job[k]
    BY <1>8 DEF ReceiveClaim, EndSession, CloseSession
  <2> QED
    BY <1>2, <2>1, <2>2, <2>3, NothingDropped
<1>9. ASSUME NEW j \in Judges, NEW v \in VerdictLists, JudgeOk(j, v) PROVE LostInv'
  <2>1. UNCHANGED <<table, failures>>
    BY <1>9 DEF JudgeOk
  <2>2. tx[j] = "none"
    BY <1>9 DEF JudgeOk, HandsInv
  <2>3. \A r \in Jobs, k \in Judges : Works(k, r) => Works(k, r)'
    BY <1>9, <2>2 DEF JudgeOk, Works
  <2>4. \A k \in Judges : (pc[k] = "finishing" /\ tx[k] = "reply")'
            => pc[k] = "finishing" /\ tx[k] = "reply" /\ job'[k] = job[k]
    BY <1>9 DEF JudgeOk
  <2> QED
    BY <1>2, <2>1, <2>3, <2>4, NothingDropped
<1>10. ASSUME NEW j \in Judges, JudgeUnsupported(j) PROVE LostInv'
  <2>1. UNCHANGED <<table, session, failures>> /\ tx[j] = "none"
    BY <1>10 DEF JudgeUnsupported, HandsInv
  <2>2. \A r \in Jobs, k \in Judges :
           Works(k, r) /\ language_pack[r] = Supported => Works(k, r)'
    BY <1>10, <2>1 DEF JudgeUnsupported, Works
  <2>3. \A k \in Judges : (pc[k] = "finishing" /\ tx[k] = "reply")'
            => pc[k] = "finishing" /\ tx[k] = "reply" /\ job'[k] = job[k]
    BY <1>10 DEF JudgeUnsupported
  <2> QED
    BY <1>2, <2>1, <2>2, <2>3, NothingDropped
<1>11. ASSUME NEW j \in Judges, FinishNothing(j) PROVE LostInv'
  <2>1. pc[j] = "finishing" /\ row[j] = job[j] /\ job[j] \in Jobs
    BY <1>1, <1>2, <1>11, WhereJudgeIs DEF FinishNothing, Ends
  <2>2. state[job[j]] # "running"
    <3>1. verdicts[j] \in VerdictLists
      BY <1>11 DEF FinishNothing, TimesInv, Ends
    <3> QED
      BY <1>11, <2>1, <3>1 DEF FinishNothing, Finishable
  <2>3. UNCHANGED <<table, process, failures>>
    BY <1>11 DEF FinishNothing
  <2>4. \A r \in Jobs, k \in Judges : Works(k, r) => Works(k, r)'
    BY <1>11, <2>1, <2>3 DEF FinishNothing, Answer, Works
  <2>5. \A k \in Judges : (pc[k] = "finishing" /\ tx[k] = "reply")'
            => k = j \/ (pc[k] = "finishing" /\ tx[k] = "reply" /\ job'[k] = job[k])
    BY <1>11, <2>1 DEF FinishNothing, Answer
  <2> QED
    BY <1>2, <2>1, <2>2, <2>3, <2>4, <2>5, NothingDropped
<1>12. ASSUME NEW j \in Judges, CommitFinish(j) PROVE LostInv'
  <2>1. pc[j] = "finishing" /\ row[j] = job[j] /\ job[j] \in Jobs
    BY <1>1, <1>2, <1>12, WhereJudgeIs DEF CommitFinish, Ends
  <2>2. /\ state'[job[j]] = "done"
        /\ \A r \in Jobs \ {job[j]} : state'[r] = state[r]
        /\ UNCHANGED <<pc, job, language_pack, failures>>
    BY <1>12, <2>1 DEF CommitFinish
  <2>3. \A r \in Jobs, k \in Judges : Works(k, r) => Works(k, r)'
    BY <1>12, <2>1, <2>2 DEF CommitFinish, Answer, Works
  <2>4. \A k \in Judges : (pc[k] = "finishing" /\ tx[k] = "reply")'
            => k = j \/ (pc[k] = "finishing" /\ tx[k] = "reply" /\ job'[k] = job[k])
    BY <1>12, <2>1 DEF CommitFinish, Answer
  <2> QED
    BY <1>2, <2>1, <2>2, <2>3, <2>4, NothingDropped
<1>13. ASSUME NEW j \in Judges, ReceiveFinish(j) PROVE LostInv'
  <2>1. UNCHANGED <<table, failures>> /\ state[job[j]] # "running"
    BY <1>1, <1>13 DEF ReceiveFinish, LostInv
  <2>2. \A r \in Jobs, k \in Judges : Works(k, r) /\ state'[r] = "running" => Works(k, r)'
    BY <1>13, <2>1 DEF ReceiveFinish, EndSession, CloseSession, Works
  <2>3. \A k \in Judges : (pc[k] = "finishing" /\ tx[k] = "reply")'
            => pc[k] = "finishing" /\ tx[k] = "reply" /\ job'[k] = job[k]
    BY <1>13 DEF ReceiveFinish, EndSession, CloseSession
  <2> QED
    BY <1>2, <2>1, <2>2, <2>3, NothingDropped
<1>14. ASSUME NEW j \in Judges, StatementRefused(j) PROVE LostInv'
  <2>1. tx[j] = "locked"
    BY <1>14, FinishIsNotRefused DEF StatementRefused, Refused
  <2>2. pc[j] = "claiming"
    BY <1>1, <2>1, WhereJudgeIs DEF Calls
  <2>3. UNCHANGED <<table, failures>>
    BY <1>14 DEF StatementRefused
  <2>4. \A r \in Jobs, k \in Judges : Works(k, r) => Works(k, r)'
    BY <1>14, <2>1, <2>2 DEF StatementRefused, EndSession, AbortSession, CloseSession, Works
  <2>5. \A k \in Judges : (pc[k] = "finishing" /\ tx[k] = "reply")'
            => pc[k] = "finishing" /\ tx[k] = "reply" /\ job'[k] = job[k]
    BY <1>14 DEF StatementRefused, EndSession, AbortSession, CloseSession
  <2> QED
    BY <1>2, <2>3, <2>4, <2>5, NothingDropped
<1>15. ASSUME NEW j \in Judges, FailureStep(j) PROVE FALSE
  BY <1>1, <1>15 DEF FailureStep, JudgeFails, Crash, Rollback
<1> QED
  BY <1>3, <1>4, <1>5, <1>6, <1>7, <1>8, <1>9, <1>10, <1>11, <1>12, <1>13, <1>14, <1>15
     DEF Next, JudgeStep

\* The only job a judge drops while nothing fails is one of an unknown pack: of
\* the others every statement ends, is not refused, and finds its row.
THEOREM NothingIsLost ==
    ASSUME "running" \notin ApiWrites
    PROVE  Spec => []OrphanOnlyByFailure
<1>1. Init => HandsInv /\ TimesInv /\ LostInv
  BY QueueAssumption DEF Init, HandsInv, TimesInv, LostInv, Ends, Calls
<1>2. TypeOK /\ QueueInv /\ HandsInv /\ TimesInv /\ LostInv /\ [Next]_vars
        => (HandsInv /\ TimesInv /\ LostInv)'
  BY HandsStep, TimesStep, LostStep
<1>3. LostInv => OrphanOnlyByFailure
  BY DEF LostInv, OrphanOnlyByFailure, Orphan, Holds
<1> QED
  BY <1>1, <1>2, <1>3, TypeCorrect, QueueInvariant, PTL DEF Spec

-----------------------------------------------------------------------------
(* No job is overtaken *)

\* Others can see the row, and a scan that reaches it passes on.
Gone(q) == Visible(q) /\ ~Claimable(q)

\* The session has a snapshot, and has not committed.
Scans(j) == tx[j] \in {"scan", "locked", "claimed"}

\* What the scan of j has passed is gone or was given back since.
Passed(j) == \A q \in seen[j] \ left[j] : Gone(q) \/ q \in freed[j]

\* The scan of a snapshot, and the row it took, the oldest of those not passed.
ScanInv ==
    /\ \A r \in Jobs : state[r] # "absent" => enqueued_at[r] # Null
    /\ \A j \in Judges : Scans(j) =>
          /\ left[j] \subseteq seen[j]
          /\ \A q \in seen[j] : Visible(q)
          /\ Passed(j)
          /\ tx[j] # "scan" => IsOldest(row[j], left[j])

\* A row that others can see stays so, with the same enqueued_at.
LEMMA VisibleStays ==
    ASSUME TypeOK, QueueInv, [Next]_vars, NEW q \in Jobs, Visible(q)
    PROVE  Visible(q)' /\ enqueued_at'[q] = enqueued_at[q]
<1>1. CASE UNCHANGED table
  BY <1>1 DEF table, Visible
<1>2. ASSUME NEW r \in Jobs, BeginInsert(r) \/ CommitInsert(r) \/ AbortInsert(r)
      PROVE  Visible(q)' /\ enqueued_at'[q] = enqueued_at[q]
  BY <1>2 DEF BeginInsert, CommitInsert, AbortInsert, Visible, JobStates, TypeOK
<1>3. ASSUME NEW r \in Jobs, NEW s \in ApiWrites, NEW f \in {Null, clock}, ApiUpdate(r, s, f)
      PROVE  Visible(q)' /\ enqueued_at'[q] = enqueued_at[q]
  BY <1>3, QueueAssumption DEF ApiUpdate, Visible, TypeOK
<1>4. ASSUME NEW j \in Judges, CommitClaim(j) \/ CommitFinish(j)
      PROVE  Visible(q)' /\ enqueued_at'[q] = enqueued_at[q]
  BY <1>4 DEF CommitClaim, CommitFinish, Visible, JobStates, TypeOK
<1> QED
  BY <1>1, <1>2, <1>3, <1>4, TableWriters

\* What a judge and its session do leaves the session of another one, but for
\* the rows given back behind its scan.
LEMMA OthersStay ==
    ASSUME TypeOK, NEW j \in Judges, NEW k \in Judges, k # j, JudgeStep(k) \/ FailureStep(k)
    PROVE  /\ tx'[j] = tx[j] /\ seen'[j] = seen[j] /\ left'[j] = left[j] /\ row'[j] = row[j]
           /\ freed[j] \subseteq freed'[j]
<1>1. ASSUME AbortSession(k) \/ EndSession(k)
      PROVE  /\ tx'[j] = tx[j] /\ seen'[j] = seen[j] /\ left'[j] = left[j] /\ row'[j] = row[j]
             /\ freed[j] \subseteq freed'[j]
  BY <1>1 DEF AbortSession, EndSession, CloseSession, TypeOK
<1>2. CASE JudgeStep(k)
  BY <1>1, <1>2 DEF JudgeStep, BeginClaim, TakeSnapshot, SkipRow, LockRow, ClaimRow, ClaimNothing,
         CommitClaim, ReceiveClaim, Wake, JudgeOk, JudgeUnsupported, FinishRow, FinishNothing,
         CommitFinish, ReceiveFinish, StatementRefused, Restart, Answer, session, TypeOK
<1>3. CASE FailureStep(k)
  BY <1>1, <1>3 DEF FailureStep, JudgeFails, Crash, Rollback, session, TypeOK
<1> QED
  BY <1>2, <1>3

\* A row a scan may not take is there to be taken again only after the session
\* that had locked it gave it back: the other locks end with a commit that
\* writes another state.
LEMMA GoneStays ==
    ASSUME TypeOK, QueueInv, HandsInv, [Next]_vars, "waiting" \notin ApiWrites,
           NEW q \in Jobs, Gone(q)
    PROVE  \/ Gone(q)'
           \/ \E i \in Judges : Takes(i, q) /\ (StatementRefused(i) \/ Rollback(i))
<1> USE QueueAssumption
<1>1. Visible(q)'
  BY VisibleStays DEF Gone
<1>2. CASE state[q] # "waiting"
  <2>1. state'[q] # "waiting"
    <3>1. CASE UNCHANGED table
      BY <1>2, <3>1 DEF table
    <3>2. ASSUME NEW r \in Jobs, BeginInsert(r) \/ CommitInsert(r) \/ AbortInsert(r)
          PROVE  state'[q] # "waiting"
      BY <1>2, <3>2 DEF BeginInsert, CommitInsert, AbortInsert, Gone, Visible, JobStates, TypeOK
    <3>3. ASSUME NEW r \in Jobs, NEW s \in ApiWrites, NEW f \in {Null, clock}, ApiUpdate(r, s, f)
          PROVE  state'[q] # "waiting"
      BY <1>2, <3>3 DEF ApiUpdate, TypeOK
    <3>4. ASSUME NEW j \in Judges, CommitClaim(j) \/ CommitFinish(j)
          PROVE  state'[q] # "waiting"
      BY <1>2, <3>4 DEF CommitClaim, CommitFinish, TypeOK
    <3> QED
      BY <3>1, <3>2, <3>3, <3>4, TableWriters
  <2> QED
    BY <1>1, <2>1 DEF Gone, Claimable
<1>3. CASE state[q] = "waiting"
  <2>1. PICK j \in Judges : Takes(j, q)
    BY <1>3 DEF Gone, Claimable, Locked, Takes, QueueInv, LocksProtect, LockKept
  <2>2. Takes(j, q)' \/ CommitClaim(j) \/ StatementRefused(j) \/ Rollback(j)
    <3> USE <2>1 DEF Takes
    <3>1. CASE ApiStep \/ Tick \/ UNCHANGED vars
      BY <3>1 DEF ApiStep, BeginInsert, CommitInsert, AbortInsert, ApiUpdate, Tick, vars, session
    <3>2. ASSUME NEW k \in Judges, JudgeStep(k) \/ FailureStep(k), k # j
          PROVE  Takes(j, q)'
      BY <3>2, OthersStay
    <3>3. ASSUME JudgeStep(j)
          PROVE  Takes(j, q)' \/ CommitClaim(j) \/ StatementRefused(j)
      BY <3>3 DEF JudgeStep, BeginClaim, TakeSnapshot, SkipRow, LockRow, ClaimRow, ClaimNothing,
             ReceiveClaim, Wake, JudgeOk, JudgeUnsupported, FinishRow, FinishNothing, CommitFinish,
             ReceiveFinish, Restart, session, HandsInv, TypeOK
    <3>4. ASSUME FailureStep(j)
          PROVE  Takes(j, q)' \/ Rollback(j)
      BY <3>4 DEF FailureStep, JudgeFails, Crash, session
    <3> QED
      BY <3>1, <3>2, <3>3, <3>4 DEF Next
  <2>3. CASE CommitClaim(j)
    BY <1>1, <2>1, <2>3 DEF CommitClaim, Gone, Claimable, TypeOK, Takes
  <2>4. CASE Takes(j, q)'
    BY <1>1, <2>4 DEF Gone, Claimable, Locked, Takes
  <2> QED
    BY <2>1, <2>2, <2>3, <2>4
<1> QED
  BY <1>2, <1>3

\* So what a scan has passed stays gone, or is given back.
LEMMA PassedStays ==
    ASSUME TypeOK, QueueInv, HandsInv, [Next]_vars, "waiting" \notin ApiWrites,
           NEW j \in Judges, tx'[j] # "none",
           NEW q \in seen[j] \ left[j], Gone(q)
    PROVE  Gone(q)' \/ q \in freed'[j]
<1>1. q \in Jobs
  BY DEF TypeOK
<1>2. ASSUME NEW i \in Judges, Takes(i, q), StatementRefused(i) \/ Rollback(i)
      PROVE  q \in freed'[j]
  <2>1. AbortSession(i)
    BY <1>2 DEF StatementRefused, Rollback
  <2>2. i # j
    BY <2>1 DEF AbortSession, CloseSession, TypeOK
  <2> QED
    BY <1>2, <2>1, <2>2 DEF AbortSession
<1> QED
  BY <1>1, <1>2, GoneStays

\* What a step may do to the scan of a session.
LEMMA ScanMoves ==
    ASSUME TypeOK, [Next]_vars, NEW j \in Judges
    PROVE  \/ /\ tx'[j] = tx[j] \/ (tx[j] = "locked" /\ tx'[j] = "claimed")
              /\ seen'[j] = seen[j] /\ left'[j] = left[j] /\ row'[j] = row[j]
              /\ freed[j] \subseteq freed'[j]
           \/ TakeSnapshot(j) \/ SkipRow(j) \/ LockRow(j)
           \/ ~Scans(j)'
<1>1. CASE ApiStep \/ Tick \/ UNCHANGED vars
  BY <1>1 DEF ApiStep, BeginInsert, CommitInsert, AbortInsert, ApiUpdate, Tick, vars, session
<1>2. ASSUME NEW k \in Judges, JudgeStep(k) \/ FailureStep(k), k # j
      PROVE  /\ tx'[j] = tx[j] /\ seen'[j] = seen[j] /\ left'[j] = left[j] /\ row'[j] = row[j]
             /\ freed[j] \subseteq freed'[j]
  BY <1>2, OthersStay
<1>3. CASE ClaimRow(j)
  BY <1>3 DEF ClaimRow, TypeOK
<1>4. ASSUME JudgeStep(j), ~TakeSnapshot(j), ~SkipRow(j), ~LockRow(j), ~ClaimRow(j)
      PROVE  \/ /\ tx'[j] = tx[j] /\ seen'[j] = seen[j] /\ left'[j] = left[j] /\ row'[j] = row[j]
                /\ freed[j] \subseteq freed'[j]
             \/ ~Scans(j)'
  BY <1>4 DEF JudgeStep, BeginClaim, ClaimNothing, CommitClaim, Scans,
         ReceiveClaim, Wake, JudgeOk, JudgeUnsupported, FinishRow, FinishNothing, CommitFinish,
         ReceiveFinish, StatementRefused, Restart, Answer, EndSession, AbortSession, CloseSession,
         session, TypeOK
<1>5. ASSUME FailureStep(j)
      PROVE  \/ /\ tx'[j] = tx[j] /\ seen'[j] = seen[j] /\ left'[j] = left[j] /\ row'[j] = row[j]
                /\ freed[j] \subseteq freed'[j]
             \/ ~Scans(j)'
  BY <1>5 DEF FailureStep, JudgeFails, Crash, Rollback, EndSession, AbortSession, CloseSession,
         Scans, session, TypeOK
<1> QED
  BY <1>1, <1>2, <1>3, <1>4, <1>5 DEF Next

\* Every step keeps what a scan has passed accounted for, and its row the oldest.
LEMMA ScanStep ==
    ASSUME TypeOK, QueueInv, HandsInv, ScanInv, [Next]_vars, "waiting" \notin ApiWrites
    PROVE  ScanInv'
<1> USE QueueAssumption
<1>1. \A r \in Jobs : state'[r] # "absent" => enqueued_at'[r] # Null
  <2>1. CASE UNCHANGED table
    BY <2>1 DEF table, ScanInv
  <2>2. ASSUME NEW q \in Jobs, BeginInsert(q) \/ CommitInsert(q) \/ AbortInsert(q)
        PROVE  \A r \in Jobs : state'[r] # "absent" => enqueued_at'[r] # Null
    BY <2>2 DEF BeginInsert, CommitInsert, AbortInsert, ScanInv, TypeOK, Times
  <2>3. ASSUME NEW q \in Jobs, NEW s \in ApiWrites, NEW f \in {Null, clock}, ApiUpdate(q, s, f)
        PROVE  \A r \in Jobs : state'[r] # "absent" => enqueued_at'[r] # Null
    BY <2>3 DEF ApiUpdate, ScanInv, TypeOK, Visible, JobStates
  <2>4. ASSUME NEW k \in Judges, CommitClaim(k) \/ CommitFinish(k)
        PROVE  \A r \in Jobs : state'[r] # "absent" => enqueued_at'[r] # Null
    BY <2>4 DEF CommitClaim, CommitFinish, ScanInv, TypeOK, QueueInv, LocksProtect, LockKept
  <2> QED
    BY <2>1, <2>2, <2>3, <2>4, TableWriters
<1>2. ASSUME NEW j \in Judges, Scans(j)'
      PROVE  /\ left'[j] \subseteq seen'[j]
             /\ \A q \in seen'[j] : Visible(q)'
             /\ Passed(j)'
             /\ tx'[j] # "scan" => IsOldest(row[j], left[j])'
  <2>1. tx'[j] # "none"
    BY <1>2 DEF Scans
  <2>2. CASE /\ tx'[j] = tx[j] \/ (tx[j] = "locked" /\ tx'[j] = "claimed")
             /\ seen'[j] = seen[j] /\ left'[j] = left[j] /\ row'[j] = row[j]
             /\ freed[j] \subseteq freed'[j]
    <3>0. Scans(j) /\ (tx'[j] # "scan" => tx[j] # "scan")
      BY <1>2, <2>2 DEF Scans
    <3>1. /\ left[j] \subseteq seen[j] /\ seen[j] \subseteq Jobs
          /\ \A q \in seen[j] : Visible(q)
          /\ Passed(j)
      BY <3>0 DEF ScanInv, TypeOK
    <3>2. \A q \in seen[j] : Visible(q)' /\ enqueued_at'[q] = enqueued_at[q]
      BY <3>1, VisibleStays
    <3>3. Passed(j)'
      BY <2>1, <2>2, <3>1, PassedStays DEF Passed
    <3>4. tx'[j] # "scan" => IsOldest(row[j], left[j])'
      BY <2>2, <3>0, <3>1, <3>2 DEF ScanInv, IsOldest, Before
    <3> QED
      BY <2>2, <3>1, <3>2, <3>3, <3>4
  <2>3. CASE TakeSnapshot(j)
    BY <2>3 DEF TakeSnapshot, Visible, JobStates, TypeOK, table, Passed
  <2>4. CASE SkipRow(j)
    <3>1. PICK r \in left[j] : ~Claimable(r) /\ left'[j] = left[j] \ {r}
      BY <2>4 DEF SkipRow, TypeOK
    <3>2. /\ tx'[j] = "scan" /\ Scans(j) /\ seen'[j] = seen[j] /\ seen[j] \subseteq Jobs
          /\ UNCHANGED <<table, tx, row, freed>>
      BY <2>4 DEF SkipRow, Scans, TypeOK
    <3>3. left[j] \subseteq seen[j] /\ \A q \in seen[j] : Visible(q)
      BY <3>2 DEF ScanInv
    <3>4. Gone(r)'
      BY <3>1, <3>2, <3>3 DEF Gone, Visible, Claimable, Locked, table
    <3>5. \A q \in seen[j] : Visible(q)'
      BY <3>2, <3>3 DEF Visible, table
    <3>6. \A q \in seen[j] \ left[j] : Gone(q)' \/ q \in freed'[j]
      BY <2>1, <3>2, PassedStays DEF ScanInv, Passed
    <3> QED
      BY <3>1, <3>2, <3>3, <3>4, <3>5, <3>6 DEF Passed
  <2>5. CASE LockRow(j)
    <3>1. PICK r \in left[j] : IsOldest(r, left[j]) /\ row'[j] = r
      BY <2>5 DEF LockRow, TypeOK
    <3>2. /\ Scans(j) /\ left'[j] = left[j] /\ seen'[j] = seen[j] /\ seen[j] \subseteq Jobs
          /\ UNCHANGED <<table, freed>>
      BY <2>5 DEF LockRow, Scans, TypeOK
    <3>3. left[j] \subseteq seen[j] /\ \A q \in seen[j] : Visible(q)'
      BY <3>2, VisibleStays DEF ScanInv
    <3>4. Passed(j)'
      BY <2>1, <3>2, PassedStays DEF ScanInv, Passed
    <3>5. IsOldest(row[j], left[j])'
      BY <3>1, <3>2 DEF IsOldest, Before, table
    <3> QED
      BY <3>2, <3>3, <3>4, <3>5
  <2> QED
    BY <1>2, <2>2, <2>3, <2>4, <2>5, ScanMoves
<1> QED
  BY <1>1, <1>2 DEF ScanInv

\* A judge takes no job before an older one of its snapshot that is free, unless
\* that one was given back by a session that had locked it: a row the scan has
\* passed stays gone until then, whatever fails.
THEOREM NobodyIsOvertaken ==
    ASSUME "waiting" \notin ApiWrites
    PROVE  Spec => []OldestFirst
<1> USE QueueAssumption
<1>1. Init => HandsInv /\ ScanInv
  BY DEF Init, HandsInv, ScanInv, Scans, Ends, Calls
<1>2. TypeOK /\ QueueInv /\ HandsInv /\ ScanInv /\ [Next]_vars => (HandsInv /\ ScanInv)'
  BY HandsStep, ScanStep
<1>3. TypeOK /\ QueueInv /\ ScanInv => OldestFirst
  <2> SUFFICES ASSUME TypeOK, QueueInv, ScanInv, NEW j \in Judges, tx[j] \in {"locked", "claimed"},
                      NEW q \in seen[j], enqueued_at[q] < enqueued_at[row[j]]
               PROVE  ~Claimable(q) \/ q \in freed[j]
    BY DEF OldestFirst
  <2>1. q \in Jobs /\ row[j] \in Jobs /\ Visible(q) /\ Visible(row[j])
    BY DEF TypeOK, ScanInv, Scans, QueueInv, LocksProtect, LockKept, Visible, JobStates
  <2>2. enqueued_at[q] \in Int /\ enqueued_at[row[j]] \in Int
    <3>1. \A r \in Jobs : Visible(r) => enqueued_at[r] # Null
      BY DEF ScanInv, Visible, JobStates
    <3>2. \A r \in Jobs : enqueued_at[r] # Null => enqueued_at[r] \in Int
      BY DEF TypeOK, Times
    <3> QED
      BY <2>1, <3>1, <3>2
  <2>3. q \notin left[j]
    BY <2>2 DEF ScanInv, Scans, IsOldest, Before
  <2> QED
    BY <2>3 DEF ScanInv, Scans, Passed, Gone
<1> QED
  BY <1>1, <1>2, <1>3, TypeCorrect, QueueInvariant, PTL DEF Spec

=============================================================================
