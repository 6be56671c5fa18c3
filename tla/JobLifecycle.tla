---------------------------- MODULE JobLifecycle ----------------------------
(***************************************************************************)
(* The life of an asynchronous media job: the API request that creates it  *)
(* (internal/handler/job.go), the asynq task that carries it, the worker   *)
(* handler that runs it (internal/queue/handlers) and the row of the jobs  *)
(* table (queries/jobs.sql) through which every one else sees it.          *)
(*                                                                         *)
(* The row and the task are two stores written by different processes with *)
(* no transaction over both: every database call, every queue call and     *)
(* every return of a handler is a step of its own.                         *)
(***************************************************************************)
EXTENDS Naturals, Sequences, FiniteSets

CONSTANTS
  Clients,       \* API requests that can be in progress at the same time
  Ids,           \* task ids asynq can issue; a job row has the id of its task
  NoId,          \* "no job": the RetryOfJobID of a first submission
  Fps,           \* request fingerprints (type, hash, source, options)
  NoFp,          \* the fingerprint of an id that was never issued
  Plans,         \* Plans[f]: the retry plans a failed job for f can store
  MaxRetry,      \* MaxRetry[f]: asynq.MaxRetry given to a task for f
  Slots,         \* bound: handlers of one task that can be alive at once
  NoSlot,        \* "not being handled"
  Faults,        \* the kinds of fault the environment may inject
  MaxFaults      \* bound: how many faults it injects

FaultKinds == {"db", "insert", "crash", "shutdown", "expire"}

ASSUME NoIdAssumption == NoId \notin Ids
ASSUME NoFpAssumption == NoFp \notin Fps
ASSUME PlansAssumption ==
  Plans \in [Fps -> SUBSET Seq(Fps)] /\
  \A f \in Fps : Plans[f] # {} /\ \A p \in Plans[f] : p # << >>
ASSUME MaxRetryAssumption == MaxRetry \in [Fps -> Nat]
ASSUME FaultsAssumption == Faults \subseteq FaultKinds /\ MaxFaults \in Nat
ASSUME SlotsAssumption == NoSlot \notin Slots

VARIABLES
  client,     \* client[c]: the API request c is serving
  task,       \* task[t]: the asynq task t, as Redis holds it
  row,        \* row[t]: the jobs row with id t
  run,        \* run[t][n]: where the handler goroutine of t in slot n is
  expired,    \* the handlers <<t, n>> whose context is done
  media,      \* fingerprints whose outputs are all in the media bucket
  announced,  \* callbacks handed to Webhook.Deliver
  failedOnce, \* history: rows that have been "failed" at some time
  raced,      \* history: rows inserted while a rival was about to insert
  faults      \* how many faults have been injected

vars == <<client, task, row, run, expired, media, announced, failedOnce,
          raced, faults>>

Statuses  == {"none", "queued", "processing", "completed", "failed"}
RunSteps  == {"gone", "start", "work", "complete", "fail", "ack", "nack"}

Client == [pc : {"idle", "precheck", "check", "enqueue", "insert"},
           todo : Seq(Fps), origin : Ids \cup {NoId}, id : Ids \cup {NoId}]
Task   == [state : {"none", "pending", "active", "done", "archived"},
           fp : Fps \cup {NoFp}, retried : Nat, slot : Slots \cup {NoSlot}]
Row    == [status : Statuses, progress : {0, 50, 100},
           plan : Seq(Fps), parent : Ids \cup {NoId}]

Idle   == [pc |-> "idle", todo |-> << >>, origin |-> NoId, id |-> NoId]
NoTask == [state |-> "none", fp |-> NoFp, retried |-> 0, slot |-> NoSlot]
NoRow  == [status |-> "none", progress |-> 0, plan |-> << >>, parent |-> NoId]

Init ==
  /\ client = [c \in Clients |-> Idle]
  /\ task = [t \in Ids |-> NoTask]
  /\ row = [t \in Ids |-> NoRow]
  /\ run = [t \in Ids |-> [n \in Slots |-> "gone"]]
  /\ expired = {}
  /\ media = {}
  /\ announced = {}
  /\ failedOnce = {}
  /\ raced = {}
  /\ faults = 0

\* The environment injects one fault of kind k.
Fault(k) ==
  /\ k \in Faults
  /\ faults < MaxFaults
  /\ faults' = faults + 1

-----------------------------------------------------------------------------
(***************************************************************************)
(* The API server.                                                         *)
(***************************************************************************)

RowExists(t) == row[t].status # "none"

\* Mutant of Active: a job a worker has begun no longer counts as active.
QueuedOnly(f) == {t \in Ids : row[t].status = "queued" /\ task[t].fp = f}

\* GetActiveJobByFingerprint: rows for f that are neither failed nor canceled.
Active(f) == {t \in Ids : /\ RowExists(t)
                          /\ task[t].fp = f
                          /\ row[t].status # "failed"}

\* The request of client c moves on to its next fingerprint, or is answered.
Advance(c) ==
  client' = [client EXCEPT ![c] =
    IF Len(client[c].todo) > 1
      THEN [client[c] EXCEPT !.pc = "check", !.todo = Tail(client[c].todo), !.id = NoId]
      ELSE Idle]

\* The request of client c is answered with an error: what it still had to
\* create is dropped, what it already created stays.
Reject(c) == client' = [client EXCEPT ![c] = Idle]

WorkerVars == <<run, expired, media, announced>>

\* POST /api/{audio,video}/jobs: the body is valid and canonical, its
\* fingerprint is f.
CreateRequest(c, f) ==
  /\ client[c].pc = "idle"
  /\ client' = [client EXCEPT ![c] = [Idle EXCEPT !.pc = "precheck", !.todo = <<f>>]]
  /\ UNCHANGED <<task, row, WorkerVars, failedOnce, raced, faults>>

\* createRequest's own idempotency check.
PreCheck(c) ==
  /\ client[c].pc = "precheck"
  /\ \/ /\ Active(Head(client[c].todo)) # {}
        /\ Advance(c)
        /\ UNCHANGED faults
     \/ /\ Active(Head(client[c].todo)) = {}
        /\ client' = [client EXCEPT ![c].pc = "check"]
        /\ UNCHANGED faults
     \/ Fault("db") /\ Reject(c)
  /\ UNCHANGED <<task, row, WorkerVars, failedOnce, raced>>

\* POST /api/jobs/:id/retry: the job is read, must be failed, and the plan
\* stored with it says which requests to submit. The row is not read again.
Retry(c, t) ==
  /\ client[c].pc = "idle"
  /\ row[t].status = "failed"
  /\ client' = [client EXCEPT ![c] =
       [pc |-> "check", todo |-> row[t].plan, origin |-> t, id |-> NoId]]
  /\ UNCHANGED <<task, row, WorkerVars, failedOnce, raced, faults>>

\* createOrReuseJob looks for an active job with the fingerprint.
Check(c) ==
  /\ client[c].pc = "check"
  /\ \/ /\ Active(Head(client[c].todo)) # {}
        /\ Advance(c)
        /\ UNCHANGED faults
     \/ /\ Active(Head(client[c].todo)) = {}
        /\ client' = [client EXCEPT ![c].pc = "enqueue"]
        /\ UNCHANGED faults
     \/ Fault("db") /\ Reject(c)
  /\ UNCHANGED <<task, row, WorkerVars, failedOnce, raced>>

\* enqueueTask refuses: source missing or too large, or Redis is unreachable.
EnqueueRefused(c) ==
  /\ client[c].pc = "enqueue"
  /\ Reject(c)
  /\ UNCHANGED <<task, row, WorkerVars, failedOnce, raced, faults>>

\* enqueueTask succeeds: asynq issues a new id. The row does not exist yet.
Enqueue(c, t) ==
  /\ client[c].pc = "enqueue"
  /\ task[t].state = "none"
  /\ task' = [task EXCEPT ![t] =
       [NoTask EXCEPT !.state = "pending", !.fp = Head(client[c].todo)]]
  /\ client' = [client EXCEPT ![c].pc = "insert", ![c].id = t]
  /\ UNCHANGED <<row, WorkerVars, failedOnce, raced, faults>>

\* Another request is between its check and its insert for the same f.
Rival(c, f) == \E d \in Clients \ {c} : /\ client[d].pc \in {"enqueue", "insert"}
                                        /\ Head(client[d].todo) = f

\* Mutant of Insert: the new job is stored as its own origin.
InsertOwnParent(c) ==
  LET t == client[c].id IN
  /\ client[c].pc = "insert"
  /\ row' = [row EXCEPT ![t] = [NoRow EXCEPT !.status = "queued", !.parent = t]]
  /\ Advance(c)
  /\ UNCHANGED <<task, WorkerVars, failedOnce, raced, faults>>

\* CreateJob: a failure (the client hung up, the database is away, the API
\* server died, the row that retry_of_job_id refers to was deleted) is logged
\* and the request is answered "queued" all the same.
Insert(c) ==
  LET t == client[c].id
      origin == client[c].origin
      orphan == origin # NoId /\ ~RowExists(origin)
  IN
  /\ client[c].pc = "insert"
  /\ \/ /\ ~orphan
        /\ row' = [row EXCEPT ![t] = [NoRow EXCEPT !.status = "queued", !.parent = origin]]
        /\ raced' = IF Rival(c, task[t].fp) THEN raced \cup {t} ELSE raced
        /\ UNCHANGED faults
     \/ /\ IF orphan THEN UNCHANGED faults ELSE Fault("insert")
        /\ UNCHANGED <<row, raced>>
  /\ Advance(c)
  /\ UNCHANGED <<task, WorkerVars, failedOnce>>

-----------------------------------------------------------------------------
(***************************************************************************)
(* The task queue: asynq over Redis, as far as src/ depends on it. Its     *)
(* scheduled retries are "pending" here: only their delay is left out.     *)
(***************************************************************************)

\* The handler in slot n is the one asynq waits for.
Current(t, n) == task[t].state = "active" /\ task[t].slot = n

Alive(t, n) == run[t][n] # "gone"

\* Mutant of Fail: the failed delivery is retried without being counted.
FailUncounted(t) == task' = [task EXCEPT ![t].state = "pending", ![t].slot = NoSlot]

\* A delivery failed: asynq schedules a retry, or archives the task.
Fail(t) ==
  task' = [task EXCEPT ![t] =
    IF task[t].retried < MaxRetry[task[t].fp]
      THEN [task[t] EXCEPT !.state = "pending", !.slot = NoSlot,
                           !.retried = task[t].retried + 1]
      ELSE [task[t] EXCEPT !.state = "archived", !.slot = NoSlot]]

\* The handler goroutine is at s; or it is gone, and its context with it.
Goto(t, n, s) == run' = [run EXCEPT ![t][n] = s] /\ UNCHANGED expired
Leave(t, n) == run' = [run EXCEPT ![t][n] = "gone"] /\ expired' = expired \ {<<t, n>>}

\* A worker takes the task and starts the handler in a new goroutine.
Deliver(t, n) ==
  /\ task[t].state = "pending"
  /\ ~Alive(t, n)
  /\ task' = [task EXCEPT ![t].state = "active", ![t].slot = n]
  /\ Goto(t, n, "start")
  /\ UNCHANGED <<client, row, media, announced, failedOnce, raced, faults>>

\* The context of a running handler is done: the task's deadline has passed,
\* or some one called CancelProcessing.
Expire(t, n) ==
  /\ Current(t, n) /\ Alive(t, n)
  /\ <<t, n>> \notin expired
  /\ Fault("expire")
  /\ expired' = expired \cup {<<t, n>>}
  /\ UNCHANGED <<client, task, row, run, media, announced, failedOnce, raced>>

\* asynq does not wait for a handler whose context is done.
Abandon(t, n) ==
  /\ Current(t, n)
  /\ <<t, n>> \in expired
  /\ Fail(t)
  /\ UNCHANGED <<client, row, WorkerVars, failedOnce, raced, faults>>

\* The worker process dies while it handles the task ...
Crash(t, n) ==
  /\ Current(t, n) /\ Alive(t, n)
  /\ Fault("crash")
  /\ Leave(t, n)
  /\ UNCHANGED <<client, task, row, media, announced, failedOnce, raced>>

\* ... and asynq's recoverer finds that its lease has run out.
Recover(t, n) ==
  /\ Current(t, n) /\ ~Alive(t, n)
  /\ Fail(t)
  /\ UNCHANGED <<client, row, WorkerVars, failedOnce, raced, faults>>

\* Graceful shutdown: the handler outlives the shutdown timeout, asynq puts
\* the task back and does not count a retry. The goroutine goes on ...
Requeue(t, n) ==
  /\ Current(t, n) /\ Alive(t, n)
  /\ Fault("shutdown")
  /\ task' = [task EXCEPT ![t].state = "pending", ![t].slot = NoSlot]
  /\ UNCHANGED <<client, row, WorkerVars, failedOnce, raced>>

\* ... until its process exits.
Exit(t, n) ==
  /\ "shutdown" \in Faults
  /\ ~Current(t, n) /\ Alive(t, n)
  /\ Leave(t, n)
  /\ UNCHANGED <<client, task, row, media, announced, failedOnce, raced, faults>>

-----------------------------------------------------------------------------
(***************************************************************************)
(* The worker's handlers. All task types share this protocol.              *)
(***************************************************************************)

\* Mutants of Update: the handler writes with a context of its own, which nothing
\* cancels; progress is added to what the row holds.
UpdateDetached(t, n, new) ==
  /\ row' = IF RowExists(t) THEN [row EXCEPT ![t] = new] ELSE row
  /\ UNCHANGED faults
UpdateAddsProgress(t, n, new) ==
  /\ row' = IF RowExists(t)
              THEN [row EXCEPT ![t] = [new EXCEPT !.progress = row[t].progress + new.progress]]
              ELSE row
  /\ UNCHANGED faults

\* UPDATE jobs ... WHERE id = t by the handler in slot n: it does nothing when
\* the row is missing, when the handler's context is done, or when it fails;
\* in each case the handler at most logs it and goes on.
Update(t, n, new) ==
  \/ /\ <<t, n>> \notin expired
     /\ row' = IF RowExists(t) THEN [row EXCEPT ![t] = new] ELSE row
     /\ UNCHANGED faults
  \/ <<t, n>> \in expired /\ UNCHANGED <<row, faults>>
  \/ Fault("db") /\ UNCHANGED row

\* UpdateJobStatus(processing), the first thing a handler does.
Begin(t, n) ==
  /\ run[t][n] = "start"
  /\ Update(t, n, [row[t] EXCEPT !.status = "processing"])
  /\ Goto(t, n, "work")
  /\ UNCHANGED <<client, task, media, announced, failedOnce, raced>>

\* Mutant of Succeed: an upload that failed is taken for a success.
SucceedUnchecked(t, n) ==
  /\ run[t][n] = "work"
  /\ Goto(t, n, "complete")
  /\ UNCHANGED <<client, task, row, media, announced, failedOnce, raced, faults>>

\* Download, process and upload, with setProgress in between, all succeed.
Succeed(t, n) ==
  /\ run[t][n] = "work"
  /\ <<t, n>> \notin expired
  /\ Update(t, n, [row[t] EXCEPT !.progress = 50])
  /\ media' = media \cup {task[t].fp}
  /\ Goto(t, n, "complete")
  /\ UNCHANGED <<client, task, announced, failedOnce, raced>>

\* One of the stages fails, before or after some progress was stored.
Stumble(t, n) ==
  /\ run[t][n] = "work"
  /\ \/ Update(t, n, [row[t] EXCEPT !.progress = 50])
     \/ UNCHANGED <<row, faults>>
  /\ Goto(t, n, "fail")
  /\ UNCHANGED <<client, task, media, announced, failedOnce, raced>>

\* Mutants of CompleteJob: the progress, or the status, is not stored.
CompleteStatusOnly(t, n) ==
  /\ run[t][n] = "complete"
  /\ Update(t, n, [row[t] EXCEPT !.status = "completed"])
  /\ announced' = announced \cup {<<t, "completed">>}
  /\ Goto(t, n, "ack")
  /\ UNCHANGED <<client, task, media, failedOnce, raced>>
CompleteProgressOnly(t, n) ==
  /\ run[t][n] = "complete"
  /\ Update(t, n, [row[t] EXCEPT !.progress = 100])
  /\ announced' = announced \cup {<<t, "completed">>}
  /\ Goto(t, n, "ack")
  /\ UNCHANGED <<client, task, media, failedOnce, raced>>

\* completeJob: status, progress and results in one UPDATE, then the webhook.
CompleteJob(t, n) ==
  /\ run[t][n] = "complete"
  /\ Update(t, n, [row[t] EXCEPT !.status = "completed", !.progress = 100])
  /\ announced' = announced \cup {<<t, "completed">>}
  /\ Goto(t, n, "ack")
  /\ UNCHANGED <<client, task, media, failedOnce, raced>>

\* Mutant of FailJob: only the callback says that the job has failed.
FailUnstored(t, n) ==
  /\ run[t][n] = "fail"
  /\ announced' = announced \cup {<<t, "failed">>}
  /\ Goto(t, n, "nack")
  /\ UNCHANGED <<client, task, row, media, failedOnce, raced, faults>>

\* failJob / failJobWithResult: on every failed delivery, whether or not asynq
\* is going to retry it.
FailJob(t, n) ==
  /\ run[t][n] = "fail"
  /\ \E p \in Plans[task[t].fp] :
       Update(t, n, [row[t] EXCEPT !.status = "failed", !.plan = p])
  /\ failedOnce' = failedOnce \cup {u \in Ids : row'[u].status = "failed"}
  /\ announced' = announced \cup {<<t, "failed">>}
  /\ Goto(t, n, "nack")
  /\ UNCHANGED <<client, task, media, raced>>

\* The handler returns nil: asynq removes the task, if it still waits for it.
Ack(t, n) ==
  /\ run[t][n] = "ack"
  /\ Leave(t, n)
  /\ task' = IF Current(t, n)
                THEN [task EXCEPT ![t].state = "done", ![t].slot = NoSlot] ELSE task
  /\ UNCHANGED <<client, row, media, announced, failedOnce, raced, faults>>

\* The handler returns an error.
Nack(t, n) ==
  /\ run[t][n] = "nack"
  /\ Leave(t, n)
  /\ IF Current(t, n) THEN Fail(t) ELSE UNCHANGED task
  /\ UNCHANGED <<client, row, media, announced, failedOnce, raced, faults>>

Handler(t, n) == Begin(t, n) \/ Succeed(t, n) \/ Stumble(t, n)
                 \/ CompleteJob(t, n) \/ FailJob(t, n) \/ Ack(t, n) \/ Nack(t, n)
-----------------------------------------------------------------------------

Api(c) == PreCheck(c) \/ Check(c) \/ EnqueueRefused(c)
          \/ (\E t \in Ids : Enqueue(c, t)) \/ Insert(c)

Queue(t) == \E n \in Slots : Deliver(t, n) \/ Abandon(t, n) \/ Recover(t, n)

Environment(t, n) == Expire(t, n) \/ Crash(t, n) \/ Requeue(t, n) \/ Exit(t, n)

Next ==
  \/ \E c \in Clients : \/ \E f \in Fps : CreateRequest(c, f)
                        \/ \E t \in Ids : Retry(c, t)
                        \/ Api(c)
  \/ \E t \in Ids : Queue(t)
  \/ \E t \in Ids, n \in Slots : Handler(t, n) \/ Environment(t, n)

Spec == Init /\ [][Next]_vars

\* The Go runtime schedules every goroutine; asynq polls its queues and its
\* recoverer for ever. Nobody has to send requests, and no fault has to occur.
FairSpec ==
  /\ Spec
  /\ \A c \in Clients : WF_vars(Api(c))
  /\ \A t \in Ids : WF_vars(Queue(t))
  /\ \A t \in Ids, n \in Slots : WF_vars(Handler(t, n))
-----------------------------------------------------------------------------
(***************************************************************************)
(* Properties.                                                             *)
(***************************************************************************)

\* Every variable keeps its type.
TypeOK ==
  /\ client \in [Clients -> Client]
  /\ task \in [Ids -> Task]
  /\ row \in [Ids -> Row]
  /\ run \in [Ids -> [Slots -> RunSteps]]
  /\ expired \subseteq Ids \X Slots
  /\ media \subseteq Fps
  /\ announced \subseteq Ids \X {"completed", "failed"}
  /\ failedOnce \subseteq Ids
  /\ raced \subseteq Ids
  /\ faults \in 0 .. MaxFaults

\* The idempotency check of createOrReuseJob reads the table before the task is
\* enqueued and the row inserted, and no index is unique. What is left of
\* idempotency: two jobs for one request exist only if one of them has failed
\* at some time, or their creations overlapped.
SequentialIdempotency ==
  \A t, u \in Ids :
    /\ t # u
    /\ RowExists(t) /\ RowExists(u)
    /\ task[t].fp = task[u].fp
    /\ {t, u} \cap failedOnce = {}
    => {t, u} \cap raced # {}

\* A handler reports success last: when a job's row says "completed", or its
\* callback did, all its outputs are in the media bucket, whichever delivery
\* uploaded them and whatever happened to the database since.
AnnouncedIsUploaded ==
  \A t \in Ids :
    row[t].status = "completed" \/ <<t, "completed">> \in announced
      => task[t].fp \in media

\* As long as no fault hits a worker or its database writes, the row agrees
\* with the queue once asynq is through with the task, except for a row that
\* was inserted so late that it is still "queued".
RowAgreesWithQueue ==
  Faults \subseteq {"insert"} =>
    \A t \in Ids :
      /\ task[t].state = "done" => row[t].status \in {"none", "queued", "completed"}
      /\ task[t].state = "archived" => row[t].status \in {"none", "queued", "failed"}

\* A handler writes with the context of its delivery, and the queue waits for
\* one delivery at a time. Therefore, as long as no write fails and nothing
\* outlives a shutdown, jobs keep the contract: the row follows the deliveries
\* in their order, each of them reports at most once, no handler whose context
\* is done or whose worker crashed writes the row of a job that is being
\* delivered again or is over, and the retries are counted.
Delivery(t) ==
  LET n == task[t].slot IN
  CASE task[t].state = "none" -> "unknown"
    [] task[t].state = "pending" -> "waiting"
    [] task[t].state \in {"done", "archived"} -> "over"
    [] OTHER -> IF <<t, n>> \in expired THEN "lost"
                ELSE CASE run[t][n] = "gone" -> "lost"
                       [] run[t][n] = "start" -> "waiting"
                       [] run[t][n] = "ack" -> "succeeded"
                       [] run[t][n] = "nack" -> "failed"
                       [] OTHER -> "running"

RetriesLeft(t) == IF task[t].state = "none" THEN 0 ELSE MaxRetry[task[t].fp] - task[t].retried

Deliveries ==
  [t \in Ids |-> [phase |-> Delivery(t), status |-> row[t].status, left |-> RetriesLeft(t)]]

Contract == INSTANCE JobContract WITH Jobs <- Ids, job <- Deliveries
KeepsContract == Contract!ContractSpec

\* completeJob stores status and progress in one UPDATE, and a later delivery
\* of the same task overwrites the status before it stores its own progress.
\* (Not so when that first UPDATE fails: the handler only logs it.)
CompletedIsWhole ==
  Faults \cap {"db", "shutdown"} = {} =>
    \A t \in Ids : row[t].status = "completed" => row[t].progress = 100

\* retry_of_job_id points to a job that has failed and whose retry plan may
\* have asked for this request; a job is not its own retry, nor are two jobs
\* retries of each other. Retry reads the failed row once and inserts much
\* later, so more than "has failed" cannot be said.
RetryLineage ==
  \A t \in Ids :
    RowExists(t) /\ row[t].parent # NoId =>
      LET p == row[t].parent IN
      /\ RowExists(p) /\ p \in failedOnce
      /\ \E plan \in Plans[task[p].fp] : \E i \in DOMAIN plan : plan[i] = task[t].fp
      /\ row[p].parent # t /\ p # t

\* Whatever faults occur, as long as they stop occurring, asynq gets through with
\* every task it accepted, also when the worker that had it died, was shut down or
\* is still busy with an earlier delivery of it.
TasksSettle ==
  \A t \in Ids :
    task[t].state = "pending" ~> task[t].state \in {"done", "archived"}

\* When no fault hits a worker, a job that is being processed ends, for good,
\* as completed or failed, after as many deliveries as its retries allow.
JobsSettle ==
  Faults \subseteq {"insert"} =>
    \A t \in Ids :
      row[t].status = "processing" ~> [](row[t].status \in {"completed", "failed"})

-----------------------------------------------------------------------------
(***************************************************************************)
(* What comments in the repository say, and the code does not do.          *)
(***************************************************************************)

\* deps.go:312: completeJob "updates the job to completed": once the handler
\* has returned nil and asynq has dropped the task, its row is "completed".
DoneIsCompleted ==
  \A t \in Ids : task[t].state = "done" /\ RowExists(t) => row[t].status = "completed"

=============================================================================
