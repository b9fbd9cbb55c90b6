-------------------------------- MODULE Api --------------------------------
(***************************************************************************)
(* The two handlers of apps/api/src/main.rs, submit and progress, between  *)
(* clients that come back when an answer is missing and a table whose jobs *)
(* live as JobLifecycle says, which is what JobQueue is shown to do.       *)
(*                                                                         *)
(* A body is what the checks look at: three names, the length of the       *)
(* source and whether it has a NUL.  The pool, the connection and the      *)
(* client may each fail a request wherever it waits: one bound for all.    *)
(***************************************************************************)
EXTENDS Identifiers, FiniteSets

CONSTANTS Clients,
          Bodies,        \* submissions, as records
          MAX_SOURCE,
          Jobs,          \* ids the table may give
          VerdictLists,  \* what judges may report
          Strangers,     \* ids in a path that no submission has
          Malformed,     \* those of them that are no uuid
          Attempts,      \* bound on the submissions of a client
          MaxFailures,   \* bound on lost connections and aborted statements
          Null           \* SQL's NULL, and nothing

ASSUME ApiAssumption ==
    /\ MAX_SOURCE \in Nat /\ Attempts \in Nat /\ MaxFailures \in Nat
    /\ Malformed \subseteq Strangers /\ Strangers \cap Jobs = {}
    /\ Null \notin Jobs \cup Clients \cup Strangers /\ Null \notin VerdictLists /\ Null \notin BOOLEAN
    /\ VerdictLists \subseteq Seq(STRING) /\ <<>> \notin VerdictLists
    /\ Bodies \subseteq [course : Seq(0..255), exercise : Seq(0..255), language_pack : Seq(0..255),
                         length : Nat, nul : BOOLEAN]

VARIABLES
    state, result,   \* the table jobs: state and verdicts
    author,          \* whose submission a row is, from its INSERT on
    (* the clients and their requests *)
    body,            \* what a client submits
    attempts,
    pc,              \* "idle", "sent", "inserting", "replying" or "answered"
    asked,           \* the id of a GET, or Null for a POST
    row,             \* the row its handler has inserted
    answer,
    (* history *)
    accepted,        \* ids a client was given
    known,           \* the last progress it was shown
    lost,            \* its rows whose answer was lost
    failures

table == <<state, result, author>>
client == <<body, attempts, pc, asked, row, answer>>
history == <<accepted, known, lost, failures>>
vars == <<table, client, history>>

Status(n) == [status |-> n, job |-> Null, state |-> Null, passed |-> Null]

Queue == INSTANCE JobLifecycle WITH NoVerdict <- Null, life <- state, verdict <- result

Names(b) == {b.course, b.exercise, b.language_pack}

\* Mutant: the limit is one byte off.
Accepts_OffByOne(b) == (\A name \in Names(b) : IsId(name)) /\ b.length \in 1..MAX_SOURCE + 1

\* Json<Submission>, and the check of submit.
Accepts(b) == (\A name \in Names(b) : IsId(name)) /\ b.length \in 1..MAX_SOURCE

\* The domain identifier, the CHECK of source, and a text without NUL.
TableAccepts(b) ==
    /\ \A value \in Names(b) :
          Len(value) > 0 /\ \A i \in 1..Len(value) : value[i] \in {Dash} \cup Digits \cup LowerCase
    /\ 1 <= b.length /\ b.length <= MAX_SOURCE
    /\ ~b.nul

\* Mutant: one case that passed is enough.
passed_Any(verdicts) ==
    IF verdicts = Null THEN Null ELSE \E i \in DOMAIN verdicts : verdicts[i] = "passed"

\* (result -> 'cases') <@ '["passed"]'
passed(verdicts) ==
    IF verdicts = Null THEN Null ELSE \A i \in DOMAIN verdicts : verdicts[i] = "passed"

Init ==
    /\ Queue!Init
    /\ author = [r \in Jobs |-> Null]
    /\ body \in [Clients -> Bodies]
    /\ attempts = [c \in Clients |-> 0]
    /\ pc = [c \in Clients |-> "idle"]
    /\ asked = [c \in Clients |-> Null]
    /\ row = [c \in Clients |-> Null]
    /\ answer = [c \in Clients |-> Status(0)]
    /\ accepted = [c \in Clients |-> {}]
    /\ known = [c \in Clients |-> Null]
    /\ lost = [c \in Clients |-> {}]
    /\ failures = 0

-----------------------------------------------------------------------------
(* The clients *)

Resting(c) == pc[c] \in {"idle", "answered"}

Answer(c, a) ==
    /\ pc' = [pc EXCEPT ![c] = "answered"]
    /\ answer' = [answer EXCEPT ![c] = a]

Send(c, id) ==
    /\ asked' = [asked EXCEPT ![c] = id]
    /\ pc' = [pc EXCEPT ![c] = "sent"]
    /\ answer' = [answer EXCEPT ![c] = Status(0)]

\* Bound: the table has an id left for every submission on its way.
IdLeft ==
    Cardinality({c \in Clients : pc[c] = "sent" /\ asked[c] = Null})
        < Cardinality({r \in Jobs : author[r] = Null})

\* A client submits until it is given an id.
Submit(c) ==
    /\ Resting(c) /\ accepted[c] = {} /\ attempts[c] < Attempts /\ IdLeft
    /\ attempts' = [attempts EXCEPT ![c] = @ + 1]
    /\ IF Accepts(body[c]) THEN Send(c, Null)
       ELSE asked' = [asked EXCEPT ![c] = Null] /\ Answer(c, Status(422))
    /\ UNCHANGED <<table, body, row, history>>

\* Path<Uuid> refuses what is no uuid.
Poll(c, id) ==
    /\ Resting(c) /\ id \in accepted[c] \cup Strangers
    /\ IF id \notin Malformed THEN Send(c, id)
       ELSE asked' = [asked EXCEPT ![c] = id] /\ Answer(c, Status(400))
    /\ UNCHANGED <<table, body, attempts, row, history>>

-----------------------------------------------------------------------------
(* submit *)

Insert(c, r) ==
    /\ pc[c] = "sent" /\ asked[c] = Null /\ TableAccepts(body[c])
    /\ author[r] = Null
    /\ author' = [author EXCEPT ![r] = c]
    /\ row' = [row EXCEPT ![c] = r]
    /\ pc' = [pc EXCEPT ![c] = "inserting"]
    /\ UNCHANGED <<state, result, body, attempts, asked, answer, history>>

\* PostgreSQL refuses the values.
InsertRefused(c) ==
    /\ pc[c] = "sent" /\ asked[c] = Null /\ ~TableAccepts(body[c])
    /\ Answer(c, Status(500))
    /\ UNCHANGED <<table, body, attempts, asked, row, history>>

Inserting(r) == author[r] # Null /\ state[r] = "absent"

Commit(r) ==
    /\ Inserting(r) /\ Queue!Enqueue(r)
    /\ UNCHANGED <<author, client, history>>

\* Mutant: the id is returned before the statement is over.
Return_Early(c) ==
    /\ pc[c] = "inserting"
    /\ Answer(c, [Status(202) EXCEPT !.job = row[c]])
    /\ accepted' = [accepted EXCEPT ![c] = @ \cup {row[c]}]
    /\ row' = [row EXCEPT ![c] = Null]
    /\ UNCHANGED <<table, body, attempts, asked, known, lost, failures>>

Return(c) ==
    /\ pc[c] = "inserting" /\ state[row[c]] # "absent"
    /\ Answer(c, [Status(202) EXCEPT !.job = row[c]])
    /\ accepted' = [accepted EXCEPT ![c] = @ \cup {row[c]}]
    /\ row' = [row EXCEPT ![c] = Null]
    /\ UNCHANGED <<table, body, attempts, asked, known, lost, failures>>

-----------------------------------------------------------------------------
(* progress *)

Shown(id) ==
    IF id \in Jobs /\ state[id] # "absent"
    THEN [status |-> 200, job |-> id, state |-> state[id], passed |-> passed(result[id])]
    ELSE Status(404)

\* Mutant: a replica that may be behind answers.
Select_Replica(c) ==
    /\ pc[c] = "sent" /\ asked[c] # Null
    /\ pc' = [pc EXCEPT ![c] = "replying"]
    /\ \E a \in {Shown(asked[c])} \cup
                {[Shown(r) EXCEPT !.state = "waiting", !.passed = Null] : r \in {asked[c]} \cap accepted[c]} :
          answer' = [answer EXCEPT ![c] = a]
    /\ UNCHANGED <<table, body, attempts, asked, row, history>>

Select(c) ==
    /\ pc[c] = "sent" /\ asked[c] # Null
    /\ pc' = [pc EXCEPT ![c] = "replying"]
    /\ answer' = [answer EXCEPT ![c] = Shown(asked[c])]
    /\ UNCHANGED <<table, body, attempts, asked, row, history>>

\* The answer reaches the client, later than the row was read.
Reply(c) ==
    /\ pc[c] = "replying"
    /\ pc' = [pc EXCEPT ![c] = "answered"]
    /\ known' = [known EXCEPT ![c] = IF answer[c].status = 200 THEN answer[c] ELSE @]
    /\ UNCHANGED <<table, body, attempts, asked, row, answer, accepted, lost, failures>>

-----------------------------------------------------------------------------
(* Failures *)

Fail == failures < MaxFailures /\ failures' = failures + 1

\* Mutant: the error of a statement is not handed to the client.
Abort_Silent(r) ==
    /\ Inserting(r) /\ Fail
    /\ author' = [author EXCEPT ![r] = Null]
    /\ UNCHANGED <<state, result, client, accepted, known, lost>>

\* The INSERT fails: nothing of it remains, and a handler still there answers 500.
Abort(r) ==
    /\ Inserting(r) /\ Fail
    /\ author' = [author EXCEPT ![r] = Null]
    /\ row' = [c \in Clients |-> IF row[c] = r THEN Null ELSE row[c]]
    /\ pc' = [c \in Clients |-> IF row[c] = r THEN "answered" ELSE pc[c]]
    /\ answer' = [c \in Clients |-> IF row[c] = r THEN Status(500) ELSE answer[c]]
    /\ lost' = [c \in Clients |-> lost[c] \ {r}]
    /\ UNCHANGED <<state, result, body, attempts, asked, accepted, known>>

\* The handler of c is over before its statement, which goes on by itself.
Forget(c) ==
    /\ row' = [row EXCEPT ![c] = Null]
    /\ lost' = [lost EXCEPT ![c] = @ \cup ({row[c]} \ {Null})]
    /\ UNCHANGED <<table, body, attempts, asked, accepted, known>>

\* Mutant: the API sends the statement again.
LoseConnection_Retries(c) ==
    /\ pc[c] \in {"sent", "inserting"} /\ Fail
    /\ pc' = [pc EXCEPT ![c] = "sent"]
    /\ row' = [row EXCEPT ![c] = Null]
    /\ UNCHANGED <<table, body, attempts, asked, answer, accepted, known, lost>>

\* No connection is free in time, or the one in use breaks.
LoseConnection(c) ==
    /\ pc[c] \in {"sent", "inserting"} /\ Fail
    /\ Answer(c, Status(500))
    /\ Forget(c)

\* The client goes away, and its handler is dropped.
Disconnect(c) ==
    /\ pc[c] \in {"sent", "inserting", "replying"} /\ Fail
    /\ pc' = [pc EXCEPT ![c] = "idle"] /\ UNCHANGED answer
    /\ Forget(c)

-----------------------------------------------------------------------------
\* What judges and the rest of the system do with a job (JobLifecycle).
QueueStep(r) ==
    /\ \/ Queue!Claim(r) \/ Queue!Replace(r) \/ Queue!Fail(r)
       \/ \E v \in VerdictLists : Queue!Finish(r, v)
    /\ UNCHANGED <<author, client, history>>

ServerStep(c) ==
    \/ \E r \in Jobs : Insert(c, r)
    \/ InsertRefused(c) \/ Return(c) \/ Select(c) \/ Reply(c)

Next ==
    \/ \E c \in Clients :
          \/ Submit(c)
          \/ \E id \in Jobs \cup Strangers : Poll(c, id)
          \/ ServerStep(c) \/ LoseConnection(c) \/ Disconnect(c)
    \/ \E r \in Jobs : Commit(r) \/ Abort(r) \/ QueueStep(r)

Spec == Init /\ [][Next]_vars

\* The runtime polls what can go on, and an INSERT, which waits for no lock, ends.
Fairness ==
    /\ \A c \in Clients : WF_vars(ServerStep(c))
    /\ \A r \in Jobs : WF_vars(Commit(r))

FairSpec == Spec /\ Fairness

-----------------------------------------------------------------------------
(* Properties *)

\* The id of a 202 is found from then on, and is the client's own submission:
\* it is committed before it is given out (submit, progress).
AcceptedIsFound ==
    \A c \in Clients :
        /\ answer[c].status = 404 => asked[c] \notin accepted[c]
        /\ \A r \in accepted[c] : state[r] # "absent" /\ author[r] = c

\* A client's submission is in the table twice only if the answer to one of them
\* was lost, and never when the API refused it (submit is not idempotent).
RowsAreAccountedFor ==
    \A c \in Clients, r, q \in Jobs :
        /\ author[r] = c => Accepts(body[c])
        /\ author[r] = c /\ author[q] = c /\ r # q => r \in lost[c] \/ q \in lost[c]

\* The API refuses what the table would: an internal error is a failure, except
\* for a source with a NUL, which only PostgreSQL refuses (main.rs:59, 0001_jobs.sql:11-19).
InternalErrorIsDue ==
    \A c \in Clients : answer[c].status = 500 => failures > 0 \/ body[c].nul

\* What is shown is one moment of the job, and passed is earned: done with one
\* case at least and every case passed; before the end nothing is said.
PassedIsEarned ==
    \A c \in Clients : answer[c].status = 200 =>
        /\ answer[c].state = "done" <=> answer[c].passed \in BOOLEAN
        /\ answer[c].passed = TRUE =>
              LET verdicts == result[answer[c].job]
              IN  state[answer[c].job] = "done" /\ verdicts # <<>>
                  /\ \A i \in DOMAIN verdicts : verdicts[i] = "passed"

Rank(s) == CASE s = "waiting" -> 0 [] s = "running" -> 1 [] OTHER -> 2

\* A client that asks again is never shown an earlier moment, and once it has
\* seen an end it sees the same end for ever.
ProgressIsForward ==
    [][\A c \in Clients : known[c] # Null /\ known'[c] # known[c] =>
          Rank(known[c].state) < Rank(known'[c].state)]_vars

\* Every request is answered, or its client has gone away.
RequestsEnd == \A c \in Clients : pc[c] = "sent" ~> Resting(c)

=============================================================================
