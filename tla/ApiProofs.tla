----------------------------- MODULE ApiProofs -----------------------------
(***************************************************************************)
(* The safety of the API (Api), proved for any number of clients, rows,    *)
(* attempts and failures.  The argument goes through one inductive         *)
(* invariant: what a handler holds while it waits, whose row is whose, and *)
(* where what a client was shown lies in the life of its job.              *)
(***************************************************************************)
EXTENDS Api, TLAPS

Codes == {0, 200, 202, 400, 404, 422, 500}
Progresses == [status : Codes, job : Jobs \cup {Null},
               state : Queue!LifeStates \cup {Null}, passed : BOOLEAN \cup {Null}]

TypeOK ==
    /\ state \in [Jobs -> Queue!LifeStates]
    /\ result \in [Jobs -> VerdictLists \cup {Null}]
    /\ author \in [Jobs -> Clients \cup {Null}]
    /\ body \in [Clients -> Bodies]
    /\ attempts \in [Clients -> Nat]
    /\ pc \in [Clients -> {"idle", "sent", "inserting", "replying", "answered"}]
    /\ asked \in [Clients -> Jobs \cup Strangers \cup {Null}]
    /\ row \in [Clients -> Jobs \cup {Null}]
    /\ answer \in [Clients -> Progresses]
    /\ accepted \in [Clients -> SUBSET Jobs]
    /\ known \in [Clients -> Progresses \cup {Null}]
    /\ lost \in [Clients -> SUBSET Jobs]
    /\ failures \in Nat

\* Verdicts come with the state done, and a row with an author.
TableInv ==
    \A r \in Jobs : /\ result[r] # Null <=> state[r] = "done"
                    /\ author[r] = Null => state[r] = "absent"

\* What the handler of a client holds, and which rows are the client's.
HandlerInv ==
    \A c \in Clients :
        /\ pc[c] \in {"sent", "inserting"} /\ asked[c] = Null =>
              Accepts(body[c]) /\ accepted[c] = {}
        /\ pc[c] = "inserting" => row[c] \in Jobs /\ author[row[c]] = c /\ asked[c] = Null
        /\ row[c] # Null => pc[c] = "inserting"
        /\ asked[c] \in Jobs => asked[c] \in accepted[c]
        /\ \A r \in accepted[c] : state[r] # "absent" /\ author[r] = c
        /\ \A r, q \in accepted[c] : r = q
        /\ \A r \in Jobs : author[r] = c =>
              Accepts(body[c]) /\ r \in accepted[c] \cup lost[c] \cup {row[c]}

\* Two moments of one job, the first not after the second.
Earlier(a, b) == a = b \/ Rank(a.state) < Rank(b.state)

\* What is on its way to a client, and what it was shown, are moments of its job.
AnswerInv ==
    \A c \in Clients :
        /\ answer[c].status = 404 => asked[c] \notin accepted[c]
        /\ answer[c].status = 500 => failures > 0 \/ body[c].nul
        /\ answer[c].status = 200 =>
              /\ asked[c] \in Jobs /\ answer[c].job = asked[c]
              /\ answer[c].state = "done" <=> answer[c].passed \in BOOLEAN
              /\ Earlier(answer[c], Shown(asked[c]))
              /\ pc[c] = "replying" /\ known[c] # Null => Earlier(known[c], answer[c])
        /\ known[c] # Null =>
              /\ known[c].job \in accepted[c]
              /\ Earlier(known[c], Shown(known[c].job))

IInv == TypeOK /\ TableInv /\ HandlerInv /\ AnswerInv

-----------------------------------------------------------------------------
\* passed says nothing before the verdicts, and yes when they all are "passed".
LEMMA PassedType ==
    ASSUME NEW v \in VerdictLists \cup {Null}
    PROVE  /\ passed(v) \in BOOLEAN \cup {Null}
           /\ passed(v) \in BOOLEAN <=> v # Null
           /\ passed(v) = TRUE => v # Null /\ \A i \in DOMAIN v : v[i] = "passed"
<1>1. CASE v = Null
  BY <1>1, ApiAssumption DEF passed
<1>2. CASE v # Null
  <2>1. passed(v) = (\A i \in DOMAIN v : v[i] = "passed")
    BY <1>2 DEF passed
  <2>2. CASE \A i \in DOMAIN v : v[i] = "passed"
    BY <1>2, <2>1, <2>2
  <2>3. CASE ~ \A i \in DOMAIN v : v[i] = "passed"
    BY <1>2, <2>1, <2>3
  <2> QED
    BY <2>2, <2>3
<1> QED
  BY <1>1, <1>2

\* What a request for a progress shows: the job as it is, or nothing.
LEMMA ShownIs ==
    ASSUME TypeOK, TableInv, NEW id \in Jobs \cup Strangers
    PROVE  /\ Shown(id) \in Progresses
           /\ Shown(id).status \in {200, 404}
           /\ Shown(id).status = 404 => id \notin Jobs \/ state[id] = "absent"
           /\ Shown(id).status = 200 =>
                 /\ id \in Jobs /\ state[id] # "absent"
                 /\ Shown(id).job = id /\ Shown(id).state = state[id]
                 /\ Shown(id).passed = passed(result[id])
                 /\ Shown(id).state = "done" <=> Shown(id).passed \in BOOLEAN
<1>1. CASE id \in Jobs /\ state[id] # "absent"
  <2>1. passed(result[id]) \in BOOLEAN \cup {Null} /\ (passed(result[id]) \in BOOLEAN <=> result[id] # Null)
    BY <1>1, PassedType DEF TypeOK
  <2>2. Shown(id) = [status |-> 200, job |-> id, state |-> state[id], passed |-> passed(result[id])]
    BY <1>1 DEF Shown
  <2>3. state[id] \in Queue!LifeStates /\ (result[id] # Null <=> state[id] = "done")
    BY <1>1 DEF TypeOK, TableInv
  <2> HIDE DEF passed
  <2>4. Shown(id) \in Progresses
    BY <1>1, <2>1, <2>2, <2>3 DEF Progresses, Codes
  <2> QED
    BY <1>1, <2>1, <2>2, <2>3, <2>4
<1>2. CASE ~(id \in Jobs /\ state[id] # "absent")
  BY <1>2 DEF Shown, Status, Progresses, Codes
<1> QED
  BY <1>1, <1>2

\* The queue keeps the types of a job.
LEMMA QueueTypeStep ==
    ASSUME TypeOK, NEW r \in Jobs, Commit(r) \/ QueueStep(r)
    PROVE  /\ state' \in [Jobs -> Queue!LifeStates]
           /\ result' \in [Jobs -> VerdictLists \cup {Null}]
<1>1. CASE \E v \in VerdictLists : Queue!Finish(r, v)
  BY <1>1 DEF TypeOK, Queue!Finish, Queue!LifeStates
<1>2. CASE Queue!Enqueue(r) \/ Queue!Claim(r) \/ Queue!Replace(r) \/ Queue!Fail(r)
  BY <1>2 DEF TypeOK, Queue!Enqueue, Queue!Claim, Queue!Replace, Queue!Fail, Queue!Move, Queue!LifeStates
<1> QED
  BY <1>1, <1>2 DEF Commit, QueueStep

\* A step of the queue takes a job that is shown to a later moment or leaves it.
LEMMA QueueForward ==
    ASSUME TypeOK, TableInv, NEW r \in Jobs, Commit(r) \/ QueueStep(r),
           NEW id \in Jobs, state[id] # "absent"
    PROVE  /\ state'[id] # "absent"
           /\ Earlier(Shown(id), Shown(id)')
<1>1. CASE id # r
  BY <1>1 DEF TypeOK, Commit, QueueStep, Queue!Enqueue, Queue!Claim, Queue!Replace, Queue!Fail,
              Queue!Finish, Queue!Move, Earlier, Shown
<1>2. CASE id = r
  <2>1. state'[id] # "absent" /\ Rank(state[id]) < Rank(state'[id])
    BY <1>2 DEF TypeOK, Commit, QueueStep, Queue!Enqueue, Queue!Claim, Queue!Replace, Queue!Fail,
                Queue!Finish, Queue!Move, Rank
  <2>2. Shown(id).state = state[id] /\ Shown(id)'.state = state'[id]
    BY <2>1 DEF Shown
  <2> QED
    BY <2>1, <2>2 DEF Earlier
<1> QED
  BY <1>1, <1>2

\* Moments follow each other.
LEMMA EarlierIsTransitive ==
    ASSUME NEW a, NEW b, NEW c, Earlier(a, b), Earlier(b, c)
    PROVE  Earlier(a, c)
<1>1. \A s : Rank(s) \in Nat
  BY DEF Rank
<1> QED
  BY <1>1 DEF Earlier

\* What a submission must be for the API and the table to take it.
LEMMA AcceptedIsTaken ==
    ASSUME NEW b \in Bodies, Accepts(b), ~b.nul
    PROVE  TableAccepts(b)
<1>1. \A name \in Names(b) : name \in Seq(0..255)
  BY ApiAssumption DEF Names
<1>2. \A name \in Names(b) : Len(name) > 0 /\ DOMAIN name = 1..Len(name)
  BY <1>1 DEF Accepts, IsId
<1>3. \A name \in Names(b) : \A i \in 1..Len(name) : name[i] \in {Dash} \cup Digits \cup LowerCase
  BY <1>2 DEF Accepts, IsId
<1> QED
  BY <1>2, <1>3, ApiAssumption DEF Accepts, TableAccepts

-----------------------------------------------------------------------------
\* Every step keeps the types.
LEMMA TypeStep ==
    ASSUME TypeOK, TableInv, HandlerInv, [Next]_vars
    PROVE  TypeOK'
<1> USE ApiAssumption
<1> USE DEF table, client, history, Status, Answer, Send, Progresses, Codes
<1>1. ASSUME NEW c \in Clients, Submit(c) PROVE TypeOK'
  <2>1. /\ asked' = [asked EXCEPT ![c] = Null]
        /\ \E p \in {"sent", "answered"} : pc' = [pc EXCEPT ![c] = p]
        /\ \E a \in Progresses : answer' = [answer EXCEPT ![c] = a]
    BY <1>1 DEF Submit
  <2> QED
    BY <1>1, <2>1 DEF TypeOK, Submit
<1>2. ASSUME NEW c \in Clients, NEW id \in Jobs \cup Strangers, Poll(c, id) PROVE TypeOK'
  <2>1. /\ asked' = [asked EXCEPT ![c] = id]
        /\ \E p \in {"sent", "answered"} : pc' = [pc EXCEPT ![c] = p]
        /\ \E a \in Progresses : answer' = [answer EXCEPT ![c] = a]
    BY <1>2 DEF Poll
  <2> QED
    BY <1>2, <2>1 DEF TypeOK, Poll
<1>3. ASSUME NEW c \in Clients, NEW r \in Jobs, Insert(c, r) PROVE TypeOK'
  BY <1>3 DEF TypeOK, Insert
<1>4. ASSUME NEW c \in Clients, InsertRefused(c) PROVE TypeOK'
  BY <1>4 DEF TypeOK, InsertRefused
<1>5. ASSUME NEW c \in Clients, Return(c) PROVE TypeOK'
  BY <1>5 DEF TypeOK, Return, HandlerInv
<1>6. ASSUME NEW c \in Clients, Select(c) PROVE TypeOK'
  <2>1. Shown(asked[c]) \in Progresses
    BY <1>6, ShownIs DEF TypeOK, Select
  <2> QED
    BY <1>6, <2>1 DEF TypeOK, Select
<1>7. ASSUME NEW c \in Clients, Reply(c) PROVE TypeOK'
  BY <1>7 DEF TypeOK, Reply
<1>8. ASSUME NEW c \in Clients, LoseConnection(c) PROVE TypeOK'
  BY <1>8 DEF TypeOK, LoseConnection, Fail, Forget
<1>9. ASSUME NEW c \in Clients, Disconnect(c) PROVE TypeOK'
  BY <1>9 DEF TypeOK, Disconnect, Fail, Forget
<1>10. ASSUME NEW r \in Jobs, Commit(r) \/ QueueStep(r) PROVE TypeOK'
  BY <1>10, QueueTypeStep DEF TypeOK, Commit, QueueStep
<1>11. ASSUME NEW r \in Jobs, Abort(r) PROVE TypeOK'
  BY <1>11 DEF TypeOK, Abort, Fail
<1>12. CASE UNCHANGED vars
  BY <1>12 DEF TypeOK, vars
<1> QED
  BY <1>1, <1>2, <1>3, <1>4, <1>5, <1>6, <1>7, <1>8, <1>9, <1>10, <1>11, <1>12 DEF Next, ServerStep

\* Only a commit and the queue change a job, and only its own author's handler
\* makes or unmakes a row that is not committed.
LEMMA TableStep ==
    ASSUME TypeOK, TableInv, [Next]_vars
    PROVE  TableInv'
<1> USE ApiAssumption
<1>1. ASSUME NEW c \in Clients, NEW r \in Jobs, Insert(c, r) PROVE TableInv'
  BY <1>1 DEF TypeOK, TableInv, Insert
<1>2. ASSUME NEW r \in Jobs, Commit(r) \/ QueueStep(r) PROVE TableInv'
  BY <1>2 DEF TypeOK, TableInv, Commit, Inserting, QueueStep, Queue!Enqueue, Queue!Claim, Queue!Replace,
              Queue!Fail, Queue!Finish, Queue!Move
<1>3. ASSUME NEW r \in Jobs, Abort(r) PROVE TableInv'
  BY <1>3 DEF TypeOK, TableInv, Abort, Inserting
<1>4. CASE UNCHANGED table
  BY <1>4 DEF TableInv, table
<1> QED
  BY <1>1, <1>2, <1>3, <1>4 DEF Next, ServerStep, vars, table, Submit, Poll, InsertRefused, Return,
     Select, Reply, LoseConnection, Disconnect, Forget

\* A handler inserts one row for an accepted body, and gives up a row that is its
\* client's only to accepted, to lost, or with the row itself.
LEMMA HandlerStep ==
    ASSUME TypeOK, TableInv, HandlerInv, [Next]_vars
    PROVE  HandlerInv'
<1> USE ApiAssumption
<1> USE DEF TypeOK, HandlerInv, table, history
<1>1. ASSUME NEW c \in Clients, Submit(c) PROVE HandlerInv'
  <2>1. /\ asked' = [asked EXCEPT ![c] = Null]
        /\ \E p \in {"sent", "answered"} : pc' = [pc EXCEPT ![c] = p] /\ (p = "sent" => Accepts(body[c]))
        /\ accepted[c] = {} /\ row[c] = Null
    BY <1>1 DEF Submit, Send, Answer, Resting
  <2> QED
    BY <1>1, <2>1 DEF Submit
<1>2. ASSUME NEW c \in Clients, NEW id \in Jobs \cup Strangers, Poll(c, id) PROVE HandlerInv'
  <2>1. /\ asked' = [asked EXCEPT ![c] = id]
        /\ \E p \in {"sent", "answered"} : pc' = [pc EXCEPT ![c] = p]
        /\ row[c] = Null /\ (id \in Jobs => id \in accepted[c])
    BY <1>2 DEF Poll, Send, Answer, Resting
  <2> QED
    BY <1>2, <2>1 DEF Poll
<1>3. ASSUME NEW c \in Clients, NEW r \in Jobs, Insert(c, r) PROVE HandlerInv'
  BY <1>3 DEF Insert, TableInv
<1>4. ASSUME NEW c \in Clients, InsertRefused(c) PROVE HandlerInv'
  BY <1>4 DEF InsertRefused, Answer
<1>5. ASSUME NEW c \in Clients, Return(c) PROVE HandlerInv'
  BY <1>5 DEF Return, Answer
<1>6. ASSUME NEW c \in Clients, Select(c) PROVE HandlerInv'
  BY <1>6 DEF Select
<1>7. ASSUME NEW c \in Clients, Reply(c) PROVE HandlerInv'
  BY <1>7 DEF Reply
<1>8. ASSUME NEW c \in Clients, LoseConnection(c) PROVE HandlerInv'
  BY <1>8 DEF LoseConnection, Answer, Forget
<1>9. ASSUME NEW c \in Clients, Disconnect(c) PROVE HandlerInv'
  BY <1>9 DEF Disconnect, Forget
<1>10. ASSUME NEW r \in Jobs, Commit(r) \/ QueueStep(r) PROVE HandlerInv'
  <2>1. \A q \in Jobs : state[q] # "absent" => state'[q] # "absent"
    BY <1>10, QueueForward
  <2> QED
    BY <1>10, <2>1 DEF Commit, QueueStep, client
<1>11. ASSUME NEW r \in Jobs, Abort(r) PROVE HandlerInv'
  BY <1>11 DEF Abort, Inserting
<1>12. CASE UNCHANGED vars
  BY <1>12 DEF vars, client
<1> QED
  BY <1>1, <1>2, <1>3, <1>4, <1>5, <1>6, <1>7, <1>8, <1>9, <1>10, <1>11, <1>12 DEF Next, ServerStep

\* What is answered, and what was shown, stay moments of the job as it goes on.
LEMMA AnswerStep ==
    ASSUME IInv, [Next]_vars
    PROVE  AnswerInv'
<1> USE ApiAssumption
<1> USE DEF IInv, TypeOK, AnswerInv, table, history
<1>0. ASSUME UNCHANGED <<state, result>>, NEW id PROVE Shown(id)' = Shown(id)
  BY <1>0 DEF Shown
<1>1. ASSUME NEW c \in Clients, Submit(c) PROVE AnswerInv'
  <2>1. /\ asked' = [asked EXCEPT ![c] = Null]
        /\ \E p \in {"sent", "answered"} : pc' = [pc EXCEPT ![c] = p]
        /\ \E n \in {0, 422} : answer' = [answer EXCEPT ![c] = Status(n)]
    BY <1>1 DEF Submit, Send, Answer
  <2> QED
    BY <1>0, <1>1, <2>1 DEF Submit, Status
<1>2. ASSUME NEW c \in Clients, NEW id \in Jobs \cup Strangers, Poll(c, id) PROVE AnswerInv'
  <2>1. /\ asked' = [asked EXCEPT ![c] = id]
        /\ \E p \in {"sent", "answered"} : pc' = [pc EXCEPT ![c] = p]
        /\ \E n \in {0, 400} : answer' = [answer EXCEPT ![c] = Status(n)]
    BY <1>2 DEF Poll, Send, Answer
  <2> QED
    BY <1>0, <1>2, <2>1 DEF Poll, Status
<1>3. ASSUME NEW c \in Clients, NEW r \in Jobs, Insert(c, r) PROVE AnswerInv'
  BY <1>0, <1>3 DEF Insert
<1>4. ASSUME NEW c \in Clients, InsertRefused(c) PROVE AnswerInv'
  <2>1. body[c].nul
    BY <1>4, AcceptedIsTaken DEF InsertRefused, HandlerInv
  <2> QED
    BY <1>0, <1>4, <2>1 DEF InsertRefused, Answer, Status
<1>5. ASSUME NEW c \in Clients, Return(c) PROVE AnswerInv'
  BY <1>0, <1>5 DEF Return, Answer, Status
<1>6. ASSUME NEW c \in Clients, Select(c) PROVE AnswerInv'
  <2>1. PICK id \in Jobs \cup Strangers : id = asked[c]
    BY <1>6 DEF Select
  <2>2. Shown(id).status = 404 => id \notin accepted[c]
    BY <2>1, ShownIs DEF HandlerInv
  <2>3. Shown(id).status = 200 =>
           /\ id \in Jobs /\ Shown(id).job = id
           /\ Shown(id).state = "done" <=> Shown(id).passed \in BOOLEAN
           /\ known[c] # Null => known[c].job = id
    BY <2>1, ShownIs DEF HandlerInv
  <2>4. Shown(id).status \in {200, 404} /\ Earlier(Shown(id), Shown(id))
    BY ShownIs DEF Earlier
  <2> QED
    BY <1>0, <1>6, <2>1, <2>2, <2>3, <2>4 DEF Select
<1>7. ASSUME NEW c \in Clients, Reply(c) PROVE AnswerInv'
  BY <1>0, <1>7 DEF Reply, HandlerInv
<1>8. ASSUME NEW c \in Clients, LoseConnection(c) PROVE AnswerInv'
  BY <1>0, <1>8 DEF LoseConnection, Answer, Status, Forget, Fail
<1>9. ASSUME NEW c \in Clients, Disconnect(c) PROVE AnswerInv'
  BY <1>0, <1>9 DEF Disconnect, Forget, Fail
<1>10. ASSUME NEW r \in Jobs, Commit(r) \/ QueueStep(r) PROVE AnswerInv'
  <2>1. UNCHANGED <<client, history>>
    BY <1>10 DEF Commit, QueueStep
  <2>2. ASSUME NEW id \in Jobs, state[id] # "absent", NEW a, Earlier(a, Shown(id))
        PROVE  Earlier(a, Shown(id)')
    BY <1>10, <2>2, QueueForward, EarlierIsTransitive
  <2>3. ASSUME NEW c \in Clients, NEW id \in accepted[c] PROVE id \in Jobs /\ state[id] # "absent"
    BY <2>3 DEF HandlerInv
  <2> QED
    BY <2>1, <2>2, <2>3 DEF client, HandlerInv
<1>11. ASSUME NEW r \in Jobs, Abort(r) PROVE AnswerInv'
  BY <1>0, <1>11 DEF Abort, Fail, Status
<1>12. CASE UNCHANGED vars
  BY <1>0, <1>12 DEF vars, client
<1> QED
  BY <1>1, <1>2, <1>3, <1>4, <1>5, <1>6, <1>7, <1>8, <1>9, <1>10, <1>11, <1>12 DEF Next, ServerStep

\* At the start nothing is asked, shown or in the table.
LEMMA InitInvariant == Init => IInv
<1> SUFFICES ASSUME Init PROVE IInv
  OBVIOUS
<1> USE ApiAssumption DEF Init, Queue!Init
<1>1. TypeOK
  BY DEF TypeOK, Status, Progresses, Codes, Queue!LifeStates
<1>2. TableInv /\ HandlerInv
  BY DEF TableInv, HandlerInv
<1>3. AnswerInv
  BY DEF AnswerInv, Status
<1> QED
  BY <1>1, <1>2, <1>3 DEF IInv

\* The invariant holds in every reachable state, whatever is lost or late.
LEMMA Invariance == Spec => []IInv
<1>1. IInv /\ [Next]_vars => IInv'
  BY TypeStep, TableStep, HandlerStep, AnswerStep DEF IInv
<1> QED
  BY InitInvariant, <1>1, PTL DEF Spec

-----------------------------------------------------------------------------
\* The id a client was given is found, and is its own submission, whatever fails
\* before, between and after the INSERT and its answer.
THEOREM GivenIsFound == Spec => []AcceptedIsFound
<1>1. IInv => AcceptedIsFound
  BY DEF IInv, TypeOK, HandlerInv, AnswerInv, AcceptedIsFound
<1> QED
  BY Invariance, <1>1, PTL

\* Two rows of one client mean a lost answer, however often it comes back.
THEOREM TwiceMeansLost == Spec => []RowsAreAccountedFor
<1>1. IInv => RowsAreAccountedFor
  <2> SUFFICES ASSUME IInv, NEW c \in Clients, NEW r \in Jobs, author[r] = c
               PROVE  /\ Accepts(body[c])
                      /\ \A q \in Jobs : author[q] = c /\ r # q => r \in lost[c] \/ q \in lost[c]
    BY DEF RowsAreAccountedFor
  <2>1. Accepts(body[c]) /\ \A q \in Jobs : author[q] = c => q \in accepted[c] \cup lost[c] \cup {row[c]}
    BY DEF IInv, HandlerInv
  <2>2. row[c] = Null \/ accepted[c] = {}
    BY DEF IInv, HandlerInv
  <2>3. \A q, t \in accepted[c] : q = t
    BY DEF IInv, HandlerInv
  <2> QED
    BY <2>1, <2>2, <2>3, ApiAssumption
<1> QED
  BY Invariance, <1>1, PTL

\* The checks of the API leave nothing but NUL for the table to refuse.
THEOREM ErrorsAreDue == Spec => []InternalErrorIsDue
<1>1. IInv => InternalErrorIsDue
  BY DEF IInv, AnswerInv, InternalErrorIsDue
<1> QED
  BY Invariance, <1>1, PTL

\* A progress that says passed says so of a job that is done and passed, however
\* late the answer is read.
THEOREM PassedIsDeserved == Spec => []PassedIsEarned
<1>1. IInv => PassedIsEarned
  <2> SUFFICES ASSUME IInv, NEW c \in Clients, answer[c].status = 200
               PROVE  /\ answer[c].state = "done" <=> answer[c].passed \in BOOLEAN
                      /\ answer[c].passed = TRUE =>
                            LET verdicts == result[answer[c].job]
                            IN  state[answer[c].job] = "done" /\ verdicts # <<>>
                                /\ \A i \in DOMAIN verdicts : verdicts[i] = "passed"
    BY DEF PassedIsEarned
  <2> DEFINE id == answer[c].job
  <2>1. id \in Jobs /\ (answer[c].state = "done" <=> answer[c].passed \in BOOLEAN)
        /\ Earlier(answer[c], Shown(id)) /\ id \in accepted[c]
    BY DEF IInv, AnswerInv, HandlerInv
  <2>2. state[id] \in Queue!LifeStates /\ state[id] # "absent"
        /\ Shown(id).state = state[id] /\ Shown(id).passed = passed(result[id])
    BY <2>1 DEF IInv, TypeOK, HandlerInv, Shown
  <2>3. ASSUME answer[c].passed = TRUE
        PROVE  state[id] = "done" /\ result[id] # <<>> /\ \A i \in DOMAIN result[id] : result[id][i] = "passed"
    <3>1. answer[c].state = "done"
      BY <2>1, <2>3
    <3>2. answer[c] = Shown(id)
      BY <2>1, <2>2, <3>1 DEF Earlier, Rank, Queue!LifeStates
    <3>3. state[id] = "done" /\ passed(result[id]) = TRUE
      BY <2>2, <2>3, <3>1, <3>2
    <3>4. result[id] \in VerdictLists
      BY <2>1, <3>3 DEF IInv, TypeOK, TableInv
    <3>5. result[id] # <<>>
      BY <3>4, ApiAssumption
    <3>6. \A i \in DOMAIN result[id] : result[id][i] = "passed"
      <4> HIDE DEF id
      <4> QED
        BY <3>3, <3>4, PassedType, Zenon
    <3> QED
      BY <3>3, <3>5, <3>6
  <2> QED
    BY <2>1, <2>3
<1> QED
  BY Invariance, <1>1, PTL

\* What a client is shown only moves forward, though its answers may be late,
\* lost, or cut off.
THEOREM ShownIsForward == Spec => ProgressIsForward
<1>1. IInv /\ [Next]_vars =>
         [\A c \in Clients : known[c] # Null /\ known'[c] # known[c] =>
             Rank(known[c].state) < Rank(known'[c].state)]_vars
  <2> SUFFICES ASSUME IInv, Next, NEW d \in Clients, known[d] # Null, known'[d] # known[d]
               PROVE  Rank(known[d].state) < Rank(known'[d].state)
    OBVIOUS
  <2>1. PICK c \in Clients : Reply(c)
    BY DEF Next, ServerStep, Submit, Poll, Insert, InsertRefused, Return, Select, LoseConnection,
       Disconnect, Forget, Commit, Abort, QueueStep, history
  <2>2. c = d /\ answer[d].status = 200 /\ known'[d] = answer[d]
    BY <2>1 DEF Reply, IInv, TypeOK
  <2>3. Earlier(known[d], answer[d])
    BY <2>1, <2>2 DEF Reply, IInv, AnswerInv
  <2> QED
    BY <2>2, <2>3 DEF Earlier
<1> QED
  BY Invariance, <1>1, PTL DEF Spec, ProgressIsForward

=============================================================================
