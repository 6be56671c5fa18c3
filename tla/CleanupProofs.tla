---------------------------- MODULE CleanupProofs ----------------------------
(***************************************************************************)
(* What holds of cleanups against any number of API requests, jobs,        *)
(* handlers, rendition requests and processes: what is confirmed as gone   *)
(* is gone, the records go last, and every cached copy can be found.       *)
(***************************************************************************)
EXTENDS Cleanup, JobLifecycleProofs, ImageServiceProofs

-----------------------------------------------------------------------------
(***************************************************************************)
(* The jobs under cleanups.                                                *)
(***************************************************************************)

\* Nothing of the job is going to happen any more.
OverFor(t) == task[t].state \in {"done", "archived"} /\ ~Uploading(t)

\* What the life of the jobs does to a job that was issued, is over, has a row.
JobsGoOn ==
  \A t \in Ids :
    /\ task[t].state # "none" => task'[t].state # "none"
    /\ OverFor(t) => OverFor(t)'
    /\ RowExists(t) => RowExists(t)'

\* A delivery that failed was one: the task was active.
LEMMA FailKeepsOver ==
  ASSUME TypeInv, NEW t \in Ids, task[t].state = "active", Fail(t)
  PROVE  \A u \in Ids : /\ task[u].state # "none" => task'[u].state # "none"
                        /\ task[u].state \in {"done", "archived"} => task'[u] = task[u]
BY FailType DEF TypeInv

\* Only a pending task gets a new handler.
LEMMA RunKeepsOver ==
  ASSUME TypeInv, NEW t \in Ids, NEW n \in Slots, NEW s \in RunSteps,
         Goto(t, n, s) \/ (Leave(t, n) /\ s = "gone"),
         s \in {"start", "work"} => Uploading(t) \/ task[t].state = "pending"
  PROVE  \A u \in Ids : task[u].state # "pending" /\ ~Uploading(u) => ~Uploading(u)'
<1>1. \A u \in Ids, m \in Slots : run'[u][m] = IF u = t /\ m = n THEN s ELSE run[u][m]
  BY GotoType, LeaveType DEF TypeInv
<1> QED BY <1>1 DEF Uploading

LEMMA HandlerGoesOn ==
  ASSUME IdempotencyInv, NEW t \in Ids, NEW n \in Slots, Handler(t, n)
  PROVE  JobsGoOn
<1>0. TypeInv /\ task \in [Ids -> Task]
  BY DEF IdempotencyInv, TypeInv, TypeOK
<1>1. WorkerStep
  BY HandlerIsWorkerStep
<1>2. \A u \in Ids : task[u].state # "pending" /\ ~Uploading(u) => ~Uploading(u)'
  <2>1. CASE Begin(t, n)
    <3>1. run[t][n] = "start" /\ Goto(t, n, "work")
      BY <2>1 DEF Begin
    <3>2. Uploading(t)
      BY <3>1 DEF Uploading
    <3> QED BY <1>0, <3>1, <3>2, RunKeepsOver DEF RunSteps
  <2>2. CASE \E s \in {"complete", "fail", "ack", "nack"} : Goto(t, n, s)
    BY <1>0, <2>2, RunKeepsOver DEF RunSteps
  <2>3. CASE Leave(t, n)
    BY <1>0, <2>3, RunKeepsOver DEF RunSteps
  <2> QED BY <2>1, <2>2, <2>3 DEF Handler, Succeed, Stumble, CompleteJob, FailJob, Ack, Nack
<1>3. \A u \in Ids : task[u].state \in {"done", "archived"} => task'[u] = task[u]
  <2>1. CASE UNCHANGED task
    BY <2>1
  <2>2. CASE Current(t, n) /\ Fail(t)
    BY <1>0, <2>2, FailKeepsOver DEF Current
  <2>3. CASE Current(t, n) /\ task' = [task EXCEPT ![t].state = "done", ![t].slot = NoSlot]
    BY <1>0, <2>3 DEF Current
  <2> QED BY <2>1, <2>2, <2>3
       DEF Handler, Begin, Succeed, Stumble, CompleteJob, FailJob, Ack, Nack
<1> QED BY <1>1, <1>2, <1>3 DEF JobsGoOn, OverFor, WorkerStep, RowExists

LEMMA QueueGoesOn ==
  ASSUME IdempotencyInv, NEW t \in Ids, NEW n \in Slots,
         Deliver(t, n) \/ Abandon(t, n) \/ Recover(t, n) \/ Environment(t, n)
  PROVE  JobsGoOn
<1>0. TypeInv /\ task \in [Ids -> Task]
  BY DEF IdempotencyInv, TypeInv, TypeOK
<1>1. WorkerStep
  BY QueueIsWorkerStep
<1>2. \A u \in Ids : task[u].state # "pending" /\ ~Uploading(u) => ~Uploading(u)'
  <2>1. CASE Deliver(t, n)
    <3>1. task[t].state = "pending" /\ Goto(t, n, "start")
      BY <2>1 DEF Deliver
    <3> QED BY <1>0, <3>1, RunKeepsOver DEF RunSteps
  <2>2. CASE Leave(t, n)
    BY <1>0, <2>2, RunKeepsOver DEF RunSteps
  <2>3. CASE UNCHANGED run
    BY <2>3 DEF Uploading
  <2> QED BY <2>1, <2>2, <2>3
       DEF Abandon, Recover, Environment, Expire, Crash, Requeue, Exit, WorkerVars
<1>3. \A u \in Ids : task[u].state \in {"done", "archived"} => task'[u] = task[u]
  <2>1. CASE UNCHANGED task
    BY <2>1
  <2>2. CASE Current(t, n) /\ Fail(t)
    BY <1>0, <2>2, FailKeepsOver DEF Current
  <2>3. CASE Deliver(t, n) \/ Requeue(t, n)
    BY <1>0, <2>3 DEF Deliver, Requeue, Current
  <2> QED BY <2>1, <2>2, <2>3 DEF Abandon, Recover, Environment, Expire, Crash, Exit
<1> QED BY <1>1, <1>2, <1>3 DEF JobsGoOn, OverFor, WorkerStep, RowExists

LEMMA ApiGoesOn ==
  ASSUME IdempotencyInv, NEW c \in Clients,
         (\E f \in Fps : CreateRequest(c, f)) \/ (\E t \in Ids : Retry(c, t)) \/ Api(c)
  PROVE  JobsGoOn
<1>0. task \in [Ids -> Task] /\ row \in [Ids -> Row]
  BY DEF IdempotencyInv, TypeInv, TypeOK
<1>1. CASE \E t \in Ids : Enqueue(c, t)
  <2>1. PICK t \in Ids : Enqueue(c, t)
    BY <1>1
  <2>2. /\ task[t].state = "none" /\ UNCHANGED <<row, run>>
        /\ task' = [task EXCEPT ![t] =
             [NoTask EXCEPT !.state = "pending", !.fp = Head(client[c].todo)]]
    BY <2>1 DEF Enqueue, WorkerVars
  <2>3. [NoTask EXCEPT !.state = "pending", !.fp = Head(client[c].todo)].state = "pending"
    BY DEF NoTask
  <2> QED BY <1>0, <2>2, <2>3 DEF JobsGoOn, OverFor, Uploading, RowExists
<1>2. CASE Insert(c)
  <2>1. UNCHANGED <<task, run>>
    BY <1>2 DEF Insert, WorkerVars
  <2>2. row' = row \/ \E t \in Ids : row' =
          [row EXCEPT ![t] = [NoRow EXCEPT !.status = "queued", !.parent = client[c].origin]]
    BY <1>2 DEF Insert, IdempotencyInv, TypeInv, Pursuing
  <2>3. [NoRow EXCEPT !.status = "queued", !.parent = client[c].origin].status = "queued"
    BY DEF NoRow
  <2>4. \A t \in Ids : RowExists(t) => RowExists(t)'
    BY <1>0, <2>2, <2>3 DEF RowExists
  <2> QED BY <2>1, <2>4 DEF JobsGoOn, OverFor, Uploading
<1>3. CASE UNCHANGED <<task, row, run>>
  BY <1>3 DEF JobsGoOn, OverFor, Uploading, RowExists
<1> QED BY <1>1, <1>2, <1>3
     DEF Api, CreateRequest, PreCheck, Retry, Check, EnqueueRefused, WorkerVars

\* The whole of it.
LEMMA NextGoesOn == IdempotencyInv /\ Next => JobsGoOn /\ IdempotencyInv'
<1>1. IdempotencyInv /\ Next => IdempotencyInv'
  BY IdempotencyStep
<1>2. IdempotencyInv /\ Next => JobsGoOn
  BY HandlerGoesOn, QueueGoesOn, ApiGoesOn DEF Next, Queue
<1> QED BY <1>1, <1>2

\* A cleanup takes tasks from the queue, ends contexts and drops all rows; no
\* job gets in the way of another by that.
LEMMA CleaningKeepsJobs ==
  ASSUME IdempotencyInv,
         UNCHANGED <<client, run, media, announced, failedOnce, raced, faults>>,
         expired' \subseteq Ids \X Slots,
         \/ UNCHANGED task
         \/ \E t \in Ids : /\ task[t].state # "none"
                           /\ task' = [task EXCEPT ![t].state = "done"],
         UNCHANGED row \/ row' = [t \in Ids |-> NoRow]
  PROVE  IdempotencyInv'
<1>1. TypeInv /\ TypeOK /\ Pursuing /\ HandledIsIssued
  BY DEF IdempotencyInv, TypeInv
<1>2. /\ task' \in [Ids -> Task]
      /\ \A t \in Ids : /\ task'[t].fp = task[t].fp
                        /\ task[t].state # "none" <=> task'[t].state # "none"
  <2>1. CASE UNCHANGED task
    BY <1>1, <2>1 DEF TypeOK
  <2>2. CASE \E t \in Ids : task[t].state # "none" /\ task' = [task EXCEPT ![t].state = "done"]
    <3>1. PICK t \in Ids : task[t].state # "none" /\ task' = [task EXCEPT ![t].state = "done"]
      BY <2>2
    <3> DEFINE new == [task[t] EXCEPT !.state = "done"]
    <3>2. task \in [Ids -> Task] /\ task[t] \in Task
      BY <1>1 DEF TypeOK
    <3>3. new \in Task /\ new.fp = task[t].fp /\ new.state = "done"
      BY <3>2 DEF Task
    <3>4. task' = [task EXCEPT ![t] = new]
      BY <3>1, <3>2
    <3> HIDE DEF new
    <3>5. \A u \in Ids : task'[u] = IF u = t THEN new ELSE task[u]
      BY <3>2, <3>4
    <3> QED BY <3>1, <3>2, <3>3, <3>4, <3>5
  <2> QED BY <2>1, <2>2
<1>3. /\ row' \in [Ids -> Row]
      /\ \A t \in Ids : row'[t] = row[t] \/ row'[t].status = "none"
  <2>1. NoRow \in Row /\ NoRow.status = "none"
    BY EmptySeq DEF NoRow, Row, Statuses
  <2> QED BY <1>1, <2>1 DEF TypeOK
<1>4. TypeInv'
  <2>1. TypeOK'
    BY <1>1, <1>2, <1>3 DEF TypeOK
  <2>2. Pursuing' /\ HandledIsIssued'
    BY <1>1, <1>2 DEF Pursuing, HandledIsIssued
  <2>3. FailedHasPlan'
    BY <1>3 DEF IdempotencyInv, TypeInv, FailedHasPlan
  <2> QED BY <2>1, <2>2, <2>3 DEF TypeInv
<1>5. InsertOwnsTask'
  BY <1>1, <1>2, <1>3 DEF IdempotencyInv, InsertOwnsTask, Pursuing, RowExists
<1>6. RowHasTask' /\ FailedIsRemembered'
  BY <1>2, <1>3 DEF IdempotencyInv, RowHasTask, FailedIsRemembered, RowExists
<1>7. UnseenIsRaced'
  BY <1>2, <1>3 DEF IdempotencyInv, UnseenIsRaced, RowExists
<1>8. SequentialIdempotency'
  BY <1>2, <1>3 DEF IdempotencyInv, SequentialIdempotency, RowExists
<1> QED BY <1>4, <1>5, <1>6, <1>7, <1>8 DEF IdempotencyInv

-----------------------------------------------------------------------------
(***************************************************************************)
(* The first half of a cleanup: the jobs and their objects.                *)
(***************************************************************************)

\* How far the cleanup is says which stages are still to come; what is on its
\* list was issued.
Control ==
  /\ cleaner.pc \in {"list", "cancel", "inspect"} => cleaner.stage["cancel"] = "pending"
  /\ cleaner.pc \in {"list", "cancel", "inspect", "objects", "delete"}
       => cleaner.stage["media"] = "pending"
  /\ cleaner.pc \in {"key", "rows"} => ConfirmedGone(cleaner.stage)
  /\ cleaner.stage["cancel"] = "done" => cleaner.jobs = {}
  /\ cleaner.pc = "inspect" => cleaner.job \in cleaner.jobs
  /\ \A t \in cleaner.jobs : task[t].state # "none"

\* Jobs that are not on the list, or no longer, and did not slip are over.
Covered ==
  cleaner.pc \in {"cancel", "inspect"} \/ cleaner.stage["cancel"] = "done" =>
    \A t \in Ids : t \in slipped \/ t \in cleaner.jobs \/ OverFor(t)

\* After that, only jobs that slipped can add to the objects that were listed.
Emptied ==
  cleaner.stage["cancel"] = "done" =>
    /\ cleaner.pc = "delete" => objects \subseteq cleaner.found \cup slipped
    /\ cleaner.stage["media"] = "done" => objects \subseteq slipped

CleanerTypeOK == cleaner \in Cleaner /\ objects \subseteq Ids /\ slipped \subseteq Ids
                 /\ keyed \in BOOLEAN

JobHalf == IdempotencyInv /\ CleanerTypeOK /\ Control /\ Covered /\ Emptied

LEMMA JobHalfInit == CleanupInit => JobHalf
<1> SUFFICES ASSUME CleanupInit PROVE JobHalf
  OBVIOUS
<1>1. IdempotencyInv
  BY IdempotencyInit DEF CleanupInit
<1>2. Untouched \in [Stages -> {"pending", "done", "failed"}]
      /\ Untouched["cancel"] = "pending" /\ Untouched["media"] = "pending"
  BY DEF Untouched, Stages
<1>3. 0 \in 0 .. Attempts
  BY AttemptsAssumption
<1>4. /\ cleaner \in [pc : {"idle"}, proc : Procs, jobs : {{}}, job : {NoId},
                      tries : {0}, found : {{}}, images : {{}}, image : {NoImage},
                      stage : {Untouched}]
      /\ objects = {} /\ keyed = FALSE /\ slipped = {}
  BY DEF CleanupInit
<1>5. CleanerTypeOK
  BY <1>2, <1>3, <1>4 DEF CleanerTypeOK, Cleaner
<1>6. cleaner.pc = "idle" /\ cleaner.jobs = {} /\ cleaner.stage = Untouched
  BY <1>4
<1> QED BY <1>1, <1>2, <1>5, <1>6 DEF JobHalf, Control, Covered, Emptied

\* A stage ends.
LEMMA EndType ==
  ASSUME cleaner \in Cleaner, NEW s \in Stages, NEW status \in {"done", "failed"},
         NEW pc \in {"idle", "objects", "images", "rows"}, End(s, status, pc)
  PROVE  /\ cleaner' \in Cleaner /\ cleaner'.pc = pc
         /\ cleaner'.jobs = cleaner.jobs /\ cleaner'.images = cleaner.images
         /\ cleaner'.found = cleaner.found /\ cleaner'.proc = cleaner.proc
         /\ cleaner'.stage[s] = status
         /\ \A z \in Stages \ {s} : cleaner'.stage[z] = cleaner.stage[z]
<1> DEFINE stage == [cleaner.stage EXCEPT ![s] = status]
           new == [cleaner EXCEPT !.stage = stage, !.pc = pc]
<1>1. /\ stage \in [Stages -> {"pending", "done", "failed"}] /\ stage[s] = status
      /\ \A z \in Stages \ {s} : stage[z] = cleaner.stage[z]
  BY DEF Cleaner
<1>2. cleaner' = new
  BY DEF End, Cleaner
<1> HIDE DEF stage
<1>3. /\ new \in Cleaner /\ new.pc = pc /\ new.stage = stage /\ new.jobs = cleaner.jobs
      /\ new.images = cleaner.images /\ new.found = cleaner.found /\ new.proc = cleaner.proc
  BY <1>1 DEF Cleaner
<1> HIDE DEF new
<1> QED BY <1>1, <1>2, <1>3

\* The cleaner stands still while the jobs go on.
LEMMA JobsKeepHalf ==
  ASSUME JobHalf, IdempotencyInv', JobsGoOn, UNCHANGED <<cleaner, objects, slipped>>,
         keyed' \in BOOLEAN
  PROVE  JobHalf'
<1>1. CleanerTypeOK'
  BY DEF JobHalf, CleanerTypeOK
<1>2. Control'
  <2>1. cleaner.jobs \subseteq Ids
    BY DEF JobHalf, CleanerTypeOK, Cleaner
  <2> QED BY <2>1 DEF JobHalf, Control, JobsGoOn
<1>3. Covered'
  BY DEF JobHalf, Covered, JobsGoOn
<1>4. Emptied'
  BY DEF JobHalf, Emptied
<1> QED BY <1>1, <1>2, <1>3, <1>4 DEF JobHalf

\* A handler puts an object: its job is not over.
LEMMA PutKeepsHalf ==
  ASSUME JobHalf, NEW t \in Ids, NEW n \in Slots, PutObject(t, n)
  PROVE  JobHalf'
<1>1. /\ run[t][n] = "work" /\ objects' = objects \cup {t}
      /\ UNCHANGED <<vars, cleaner, keyed, slipped>>
  BY DEF PutObject
<1>2. ~OverFor(t)
  BY <1>1 DEF OverFor, Uploading
<1>3. cleaner.stage["cancel"] = "done" => t \in slipped
  BY <1>2 DEF JobHalf, Control, Covered
<1>4. IdempotencyInv'
  BY <1>1, IdempotencyStep DEF JobHalf
<1>5. CleanerTypeOK' /\ Control' /\ Covered'
  BY <1>1 DEF JobHalf, CleanerTypeOK, Control, Covered, OverFor, Uploading, vars
<1>6. Emptied'
  BY <1>1, <1>3 DEF JobHalf, Emptied
<1> QED BY <1>4, <1>5, <1>6 DEF JobHalf

\* A cleanup is called: nothing is claimed yet.
LEMMA StartKeepsHalf ==
  ASSUME JobHalf, NEW p \in Procs, Start(p)
  PROVE  JobHalf' /\ cleaner'.pc = "list"
<1> DEFINE new == [cleaner EXCEPT !.pc = "list", !.proc = p, !.stage = Untouched,
                                  !.jobs = {}, !.images = {}, !.found = {}]
<1>1. cleaner' = new /\ UNCHANGED <<vars, objects, keyed, slipped>>
  BY DEF Start
<1>2. Untouched \in [Stages -> {"pending", "done", "failed"}]
      /\ Untouched["cancel"] = "pending" /\ Untouched["media"] = "pending"
  BY DEF Untouched, Stages
<1>3. cleaner \in Cleaner
  BY DEF JobHalf, CleanerTypeOK
<1>4. new \in Cleaner /\ new.pc = "list" /\ new.stage = Untouched /\ new.jobs = {}
  BY <1>2, <1>3 DEF Cleaner
<1> HIDE DEF new
<1>5. IdempotencyInv'
  BY <1>1, IdempotencyStep DEF JobHalf
<1> QED BY <1>1, <1>2, <1>4, <1>5 DEF JobHalf, CleanerTypeOK, Control, Covered, Emptied

\* The stages after the objects leave the jobs alone, but for their rows.
LEMMA LaterKeepsHalf ==
  ASSUME JobHalf, cleaner' \in Cleaner, cleaner'.jobs = cleaner.jobs,
         \A s \in {"cancel", "media"} : cleaner'.stage[s] = cleaner.stage[s],
         cleaner'.pc \notin {"list", "cancel", "inspect", "objects", "delete"},
         cleaner'.pc \in {"key", "rows"} => ConfirmedGone(cleaner'.stage),
         UNCHANGED <<client, task, WorkerVars, failedOnce, raced, faults, objects, slipped>>,
         keyed' \in BOOLEAN, UNCHANGED row \/ row' = [t \in Ids |-> NoRow]
  PROVE  JobHalf'
<1>1. IdempotencyInv'
  BY CleaningKeepsJobs DEF JobHalf, IdempotencyInv, TypeInv, TypeOK, WorkerVars
<1>2. CleanerTypeOK'
  BY DEF JobHalf, CleanerTypeOK
<1>3. Control'
  BY DEF JobHalf, Control
<1>4. Covered' /\ Emptied'
  BY DEF JobHalf, Covered, Emptied, OverFor, Uploading, WorkerVars
<1> QED BY <1>1, <1>2, <1>3, <1>4 DEF JobHalf

LEMMA ListJobsKeepsHalf ==
  ASSUME JobHalf, ListJobs
  PROVE  JobHalf' /\ cleaner'.pc \in {"cancel", "objects"}
<1>0. cleaner \in Cleaner /\ cleaner.pc = "list" /\ IdempotencyInv
      /\ UNCHANGED <<vars, objects, keyed>>
      /\ cleaner.stage["cancel"] = "pending" /\ cleaner.stage["media"] = "pending"
      /\ cleaner.jobs \subseteq Ids /\ \A t \in cleaner.jobs : task[t].state # "none"
  BY DEF JobHalf, CleanerTypeOK, ListJobs, Control, Cleaner
<1>1. IdempotencyInv'
  BY <1>0, IdempotencyStep
<1>2. CASE /\ cleaner' = [cleaner EXCEPT !.pc = "cancel", !.jobs = Listed]
           /\ slipped' = {t \in Ids :
                \/ ~RowExists(t)
                \/ row[t].status = "completed" /\ (InQueue(t) \/ Uploading(t))}
  <2>1. Listed \subseteq Ids /\ \A t \in Ids : t \in Listed <=>
                                  RowExists(t) /\ row[t].status # "completed"
    BY DEF Listed
  <2> DEFINE new == [cleaner EXCEPT !.pc = "cancel", !.jobs = Listed]
  <2> HIDE DEF Listed
  <2>2. new \in Cleaner /\ new.pc = "cancel" /\ new.jobs = Listed /\ new.stage = cleaner.stage
    BY <1>0, <2>1 DEF Cleaner
  <2>3. cleaner' = new
    BY <1>2
  <2> HIDE DEF new
  <2>4. \A t \in Ids : RowExists(t) => task[t].state # "none"
    BY <1>0 DEF IdempotencyInv, RowHasTask
  <2>5. \A t \in Ids : task[t].state \in {"none", "pending", "active", "done", "archived"}
    BY <1>0 DEF IdempotencyInv, TypeInv, TypeOK, Task
  <2>6. CleanerTypeOK'
    BY <1>0, <1>2, <2>2, <2>3 DEF JobHalf, CleanerTypeOK
  <2>7. Control'
    BY <1>0, <2>1, <2>2, <2>3, <2>4 DEF Control, vars
  <2>8. ASSUME NEW t \in Ids, t \notin slipped', t \notin cleaner'.jobs PROVE OverFor(t)'
    <3>0. RowExists(t) /\ ~(row[t].status = "completed" /\ (InQueue(t) \/ Uploading(t)))
      BY <1>2, <2>8
    <3>1. ~InQueue(t) /\ ~Uploading(t)
      BY <2>1, <2>2, <2>3, <2>8, <3>0
    <3> QED BY <1>0, <2>4, <2>5, <3>0, <3>1 DEF OverFor, InQueue, Uploading, vars
  <2>9. Covered' /\ Emptied'
    BY <1>0, <2>2, <2>3, <2>8 DEF Covered, Emptied
  <2> QED BY <1>1, <2>2, <2>3, <2>6, <2>7, <2>9 DEF JobHalf
<1>3. CASE End("cancel", "failed", "objects") /\ UNCHANGED slipped
  <2>1. /\ cleaner' \in Cleaner /\ cleaner'.pc = "objects" /\ cleaner'.jobs = cleaner.jobs
        /\ cleaner'.stage["cancel"] = "failed" /\ cleaner'.stage["media"] = "pending"
    BY <1>0, <1>3, EndType DEF Stages
  <2> QED BY <1>0, <1>1, <1>3, <2>1
       DEF JobHalf, CleanerTypeOK, Control, Covered, Emptied, vars
<1> QED BY <1>2, <1>3 DEF ListJobs

LEMMA CancelKeepsHalf ==
  ASSUME JobHalf, CancelProcessing
  PROVE  JobHalf' /\ cleaner'.pc \in {"objects", "inspect"}
<1>0. /\ cleaner \in Cleaner /\ cleaner.pc = "cancel" /\ IdempotencyInv
      /\ cleaner.stage["cancel"] = "pending" /\ cleaner.stage["media"] = "pending"
      /\ cleaner.jobs \subseteq Ids /\ \A t \in cleaner.jobs : task[t].state # "none"
      /\ objects \subseteq Ids /\ slipped \subseteq Ids /\ keyed \in BOOLEAN
      /\ \A t \in Ids : t \in slipped \/ t \in cleaner.jobs \/ OverFor(t)
  BY DEF JobHalf, CleanerTypeOK, CancelProcessing, Control, Covered, Cleaner
<1>1. UNCHANGED <<client, task, row, run, media, announced, failedOnce, raced, faults,
                  objects, keyed, slipped>>
  BY DEF CancelProcessing
<1>2. expired' \subseteq Ids \X Slots
  <2>1. expired \subseteq Ids \X Slots
    BY <1>0 DEF IdempotencyInv, TypeInv, TypeOK
  <2>2. CASE \E t \in cleaner.jobs : expired' \in {expired, expired \cup
               {<<t, n>> : n \in {m \in Slots : Current(t, m) /\ Alive(t, m)}}}
    <3>1. PICK t \in cleaner.jobs : expired' \in {expired, expired \cup
               {<<t, n>> : n \in {m \in Slots : Current(t, m) /\ Alive(t, m)}}}
      BY <2>2
    <3>2. t \in Ids
      BY <1>0
    <3> DEFINE S == {m \in Slots : Current(t, m) /\ Alive(t, m)}
    <3>3. S \subseteq Slots /\ expired' \subseteq expired \cup {<<t, n>> : n \in S}
      BY <3>1
    <3> HIDE DEF S
    <3> QED BY <2>1, <3>2, <3>3
  <2> QED BY <2>1, <2>2 DEF CancelProcessing
<1>3. IdempotencyInv'
  BY <1>0, <1>1, <1>2, CleaningKeepsJobs
<1>4. \A t \in Ids : OverFor(t) => OverFor(t)'
  BY <1>1 DEF OverFor, Uploading
<1>5. CASE cleaner.jobs = {} /\ End("cancel", "done", "objects")
  <2>1. /\ cleaner' \in Cleaner /\ cleaner'.pc = "objects" /\ cleaner'.jobs = {}
        /\ cleaner'.stage["cancel"] = "done" /\ cleaner'.stage["media"] = "pending"
    BY <1>0, <1>5, EndType DEF Stages
  <2> QED BY <1>0, <1>1, <1>3, <1>4, <1>5, <2>1
       DEF JobHalf, CleanerTypeOK, Control, Covered, Emptied
<1>6. ASSUME NEW t \in cleaner.jobs, cleaner' = [cleaner EXCEPT !.pc = "inspect", !.job = t]
      PROVE  JobHalf' /\ cleaner'.pc = "inspect"
  <2> DEFINE new == [cleaner EXCEPT !.pc = "inspect", !.job = t]
  <2>1. /\ new \in Cleaner /\ new.pc = "inspect" /\ new.jobs = cleaner.jobs /\ new.job = t
        /\ new.stage = cleaner.stage
    BY <1>0 DEF Cleaner
  <2>2. cleaner' = new
    BY <1>6
  <2> HIDE DEF new
  <2> QED BY <1>0, <1>1, <1>3, <1>4, <2>1, <2>2
       DEF JobHalf, CleanerTypeOK, Control, Covered, Emptied
<1> QED BY <1>5, <1>6 DEF CancelProcessing

LEMMA InspectKeepsHalf ==
  ASSUME JobHalf, InspectTask
  PROVE  JobHalf' /\ cleaner'.pc \in {"cancel", "objects"}
<1>0. /\ cleaner \in Cleaner /\ cleaner.pc = "inspect" /\ IdempotencyInv
      /\ cleaner.stage["cancel"] = "pending" /\ cleaner.stage["media"] = "pending"
      /\ cleaner.jobs \subseteq Ids /\ \A u \in cleaner.jobs : task[u].state # "none"
      /\ objects \subseteq Ids /\ slipped \subseteq Ids /\ keyed \in BOOLEAN
      /\ \A u \in Ids : u \in slipped \/ u \in cleaner.jobs \/ OverFor(u)
      /\ cleaner.job \in cleaner.jobs
  BY DEF JobHalf, CleanerTypeOK, InspectTask, Control, Covered, Cleaner
<1>t. PICK t \in Ids : t = cleaner.job /\ t \in cleaner.jobs
  BY <1>0
<1>1. UNCHANGED <<client, row, WorkerVars, failedOnce, raced, faults, objects, keyed>>
  BY DEF InspectTask
<1>2. task \in [Ids -> Task] /\ expired \subseteq Ids \X Slots
  BY <1>0 DEF IdempotencyInv, TypeInv, TypeOK
<1>3. UNCHANGED task \/ (task[t].state # "none" /\ task' = [task EXCEPT ![t].state = "done"])
  BY <1>t DEF InspectTask
<1>4. IdempotencyInv'
  BY <1>0, <1>t, <1>1, <1>2, <1>3, CleaningKeepsJobs DEF WorkerVars
<1>5. \A u \in Ids : /\ task'[u] = task[u] \/ task'[u].state = "done"
                     /\ u # t => task'[u] = task[u]
  BY <1>t, <1>2, <1>3 DEF Task
<1>6. \A u \in Ids : OverFor(u) => OverFor(u)'
  BY <1>1, <1>5 DEF OverFor, Uploading, WorkerVars
<1>7. CASE Cancelled(t)
  <2> DEFINE new == [cleaner EXCEPT !.pc = "cancel", !.jobs = cleaner.jobs \ {t},
                                    !.job = NoId, !.tries = 0]
  <2>1. cleaner' = new /\ slipped' = IF Uploading(t) \/ task'[t].state \in {"pending", "active"}
                                       THEN slipped \cup {t} ELSE slipped
    BY <1>t, <1>7 DEF Cancelled
  <2>2. /\ new \in Cleaner /\ new.pc = "cancel" /\ new.jobs = cleaner.jobs \ {t}
        /\ new.stage = cleaner.stage
    <3>1. 0 \in 0 .. Attempts /\ cleaner.jobs \ {t} \in SUBSET Ids /\ NoId \in Ids \cup {NoId}
      BY <1>0, AttemptsAssumption
    <3> QED BY <1>0, <3>1 DEF Cleaner
  <2> HIDE DEF new
  <2>3. t \in slipped' \/ OverFor(t)'
    <3>1. task[t].state # "none" /\ task[t].state \in {"none", "pending", "active", "done", "archived"}
      BY <1>0, <1>t, <1>2 DEF Task
    <3>2. t \in slipped' \/ (~Uploading(t) /\ task'[t].state \notin {"pending", "active"})
      BY <2>1
    <3>3. Uploading(t)' <=> Uploading(t)
      BY <1>1 DEF Uploading, WorkerVars
    <3>4. task'[t] = task[t] \/ task'[t].state = "done"
      BY <1>0, <1>5
    <3> QED BY <3>1, <3>2, <3>3, <3>4 DEF OverFor
  <2>4. CleanerTypeOK'
    BY <1>0, <1>1, <2>1, <2>2 DEF CleanerTypeOK
  <2>5. Control'
    BY <1>0, <1>5, <2>1, <2>2 DEF Control
  <2>6. Covered' /\ Emptied'
    <3>1. ASSUME NEW u \in Ids
          PROVE  u \in slipped' \/ u \in cleaner'.jobs \/ OverFor(u)'
      BY <1>0, <1>6, <2>1, <2>2, <2>3
    <3> QED BY <1>0, <2>1, <2>2, <3>1 DEF Covered, Emptied
  <2> QED BY <1>4, <2>1, <2>2, <2>4, <2>5, <2>6 DEF JobHalf
<1>8. CASE UNCHANGED <<task, slipped>> /\ cleaner.tries + 1 < Attempts
           /\ cleaner' = [cleaner EXCEPT !.pc = "cancel", !.tries = cleaner.tries + 1]
  <2> DEFINE new == [cleaner EXCEPT !.pc = "cancel", !.tries = cleaner.tries + 1]
  <2>1. cleaner.tries + 1 \in 0 .. Attempts
    BY <1>0, <1>8, AttemptsAssumption DEF Cleaner
  <2>2. /\ new \in Cleaner /\ new.pc = "cancel" /\ new.jobs = cleaner.jobs
        /\ new.stage = cleaner.stage
    BY <1>0, <2>1 DEF Cleaner
  <2>3. cleaner' = new
    BY <1>8
  <2> HIDE DEF new
  <2> QED BY <1>0, <1>1, <1>4, <1>6, <1>8, <2>2, <2>3
       DEF JobHalf, CleanerTypeOK, Control, Covered, Emptied
<1>9. CASE UNCHANGED <<task, slipped>> /\
           cleaner' = [cleaner EXCEPT !.pc = "objects", !.tries = 0, !.job = NoId,
                                      !.jobs = {}, !.stage["cancel"] = "failed"]
  <2> DEFINE stage == [cleaner.stage EXCEPT !["cancel"] = "failed"]
             new == [cleaner EXCEPT !.pc = "objects", !.tries = 0, !.job = NoId,
                                    !.jobs = {}, !.stage = stage]
  <2>1. stage \in [Stages -> {"pending", "done", "failed"}] /\ stage["cancel"] = "failed"
        /\ stage["media"] = "pending"
    BY <1>0 DEF Cleaner, Stages
  <2>2. cleaner' = new
    BY <1>0, <1>9 DEF Cleaner
  <2> HIDE DEF stage
  <2>3. new \in Cleaner /\ new.pc = "objects" /\ new.jobs = {} /\ new.stage = stage
    <3>1. 0 \in 0 .. Attempts /\ {} \in SUBSET Ids /\ NoId \in Ids \cup {NoId}
      BY AttemptsAssumption
    <3> QED BY <1>0, <2>1, <3>1 DEF Cleaner
  <2> HIDE DEF new
  <2> QED BY <1>0, <1>1, <1>4, <1>6, <1>9, <2>1, <2>2, <2>3
       DEF JobHalf, CleanerTypeOK, Control, Covered, Emptied
<1> QED BY <1>t, <1>7, <1>8, <1>9 DEF InspectTask

LEMMA ListObjectsKeepsHalf ==
  ASSUME JobHalf, ListObjects
  PROVE  JobHalf' /\ cleaner'.pc \in {"delete", "images"}
<1>0. /\ cleaner \in Cleaner /\ cleaner.pc = "objects" /\ IdempotencyInv
      /\ cleaner.stage["media"] = "pending"
      /\ UNCHANGED <<vars, objects, keyed, slipped>> /\ objects \subseteq Ids
  BY DEF JobHalf, CleanerTypeOK, ListObjects, Control
<1>1. IdempotencyInv'
  BY <1>0, IdempotencyStep
<1>2. CASE cleaner' = [cleaner EXCEPT !.pc = "delete", !.found = objects]
  <2> DEFINE new == [cleaner EXCEPT !.pc = "delete", !.found = objects]
  <2>1. /\ new \in Cleaner /\ new.pc = "delete" /\ new.jobs = cleaner.jobs
        /\ new.stage = cleaner.stage /\ new.found = objects
    BY <1>0 DEF Cleaner
  <2>2. cleaner' = new
    BY <1>2
  <2> HIDE DEF new
  <2> QED BY <1>0, <1>1, <2>1, <2>2
       DEF JobHalf, CleanerTypeOK, Control, Covered, Emptied, OverFor, Uploading, vars
<1>3. CASE End("media", "failed", "images")
  <2>1. /\ cleaner' \in Cleaner /\ cleaner'.pc = "images" /\ cleaner'.jobs = cleaner.jobs
        /\ cleaner'.stage["media"] = "failed"
        /\ cleaner'.stage["cancel"] = cleaner.stage["cancel"]
    BY <1>0, <1>3, EndType DEF Stages
  <2> QED BY <1>0, <1>1, <2>1
       DEF JobHalf, CleanerTypeOK, Control, Covered, Emptied, OverFor, Uploading, vars
<1> QED BY <1>2, <1>3 DEF ListObjects

LEMMA DeleteObjectKeepsHalf ==
  ASSUME JobHalf, DeleteObject
  PROVE  JobHalf' /\ cleaner'.pc \in {"delete", "images"}
<1>0. /\ cleaner \in Cleaner /\ cleaner.pc = "delete" /\ IdempotencyInv
      /\ cleaner.stage["media"] = "pending"
      /\ UNCHANGED <<vars, keyed, slipped>> /\ objects \subseteq Ids
      /\ cleaner.found \subseteq Ids
  BY DEF JobHalf, CleanerTypeOK, DeleteObject, Control, Cleaner
<1>1. IdempotencyInv'
  BY <1>0, IdempotencyStep
<1>2. CASE cleaner.found = {} /\ End("media", "done", "images") /\ UNCHANGED objects
  <2>1. /\ cleaner' \in Cleaner /\ cleaner'.pc = "images" /\ cleaner'.jobs = cleaner.jobs
        /\ cleaner'.stage["media"] = "done"
        /\ cleaner'.stage["cancel"] = cleaner.stage["cancel"]
    BY <1>0, <1>2, EndType DEF Stages
  <2> QED BY <1>0, <1>1, <1>2, <2>1
       DEF JobHalf, CleanerTypeOK, Control, Covered, Emptied, OverFor, Uploading, vars
<1>3. ASSUME NEW t \in cleaner.found, objects' = objects \ {t},
             cleaner' = [cleaner EXCEPT !.found = cleaner.found \ {t}]
      PROVE  JobHalf' /\ cleaner'.pc = "delete"
  <2> DEFINE new == [cleaner EXCEPT !.found = cleaner.found \ {t}]
  <2>1. /\ new \in Cleaner /\ new.pc = "delete" /\ new.jobs = cleaner.jobs
        /\ new.stage = cleaner.stage /\ new.found = cleaner.found \ {t}
    BY <1>0 DEF Cleaner
  <2>2. cleaner' = new
    BY <1>3
  <2> HIDE DEF new
  <2> QED BY <1>0, <1>1, <1>3, <2>1, <2>2
       DEF JobHalf, CleanerTypeOK, Control, Covered, Emptied, OverFor, Uploading, vars
<1>4. CASE UNCHANGED objects /\
           cleaner' = [cleaner EXCEPT !.found = {}, !.pc = "images", !.stage["media"] = "failed"]
  <2> DEFINE stage == [cleaner.stage EXCEPT !["media"] = "failed"]
             new == [cleaner EXCEPT !.found = {}, !.pc = "images", !.stage = stage]
  <2>1. stage \in [Stages -> {"pending", "done", "failed"}] /\ stage["media"] = "failed"
        /\ stage["cancel"] = cleaner.stage["cancel"]
    BY <1>0 DEF Cleaner, Stages
  <2>2. cleaner' = new
    BY <1>0, <1>4 DEF Cleaner
  <2> HIDE DEF stage
  <2>3. /\ new \in Cleaner /\ new.pc = "images" /\ new.jobs = cleaner.jobs
        /\ new.stage = stage
    BY <1>0, <2>1 DEF Cleaner
  <2> HIDE DEF new
  <2> QED BY <1>0, <1>1, <1>4, <2>1, <2>2, <2>3
       DEF JobHalf, CleanerTypeOK, Control, Covered, Emptied, OverFor, Uploading, vars
<1> QED BY <1>2, <1>3, <1>4 DEF DeleteObject

\* What a step of the image stage does to the cleaner.
LEMMA ImageStageType ==
  ASSUME cleaner \in Cleaner, index \subseteq Images, CleanImages
  PROVE  /\ cleaner' \in Cleaner /\ cleaner'.jobs = cleaner.jobs
         /\ \A s \in {"cancel", "media"} : cleaner'.stage[s] = cleaner.stage[s]
         /\ cleaner'.pc \in {"purge", "unstore", "decide"}
<1> DEFINE Marked(caches, entries) ==
             [cleaner.stage EXCEPT !["caches"] = caches, !["index"] = entries]
           Fits(stage) == /\ stage \in [Stages -> {"pending", "done", "failed"}]
                          /\ \A s \in {"cancel", "media"} : stage[s] = cleaner.stage[s]
<1>0. /\ Fits(cleaner.stage)
      /\ \A caches, entries \in {"pending", "done", "failed"} : Fits(Marked(caches, entries))
  BY DEF Cleaner, Stages
<1> HIDE DEF Marked
<1>1. ASSUME NEW images \in SUBSET Images, NEW pc \in {"purge", "unstore", "decide"},
             NEW image \in Images \cup {NoImage}, NEW stage, Fits(stage),
             cleaner' = [cleaner EXCEPT !.images = images, !.pc = pc, !.image = image,
                                        !.stage = stage]
      PROVE  /\ cleaner' \in Cleaner /\ cleaner'.jobs = cleaner.jobs
             /\ \A s \in {"cancel", "media"} : cleaner'.stage[s] = cleaner.stage[s]
             /\ cleaner'.pc \in {"purge", "unstore", "decide"}
  <2> HIDE DEF Images
  <2> QED BY <1>1 DEF Cleaner
<1>2. /\ cleaner.images \subseteq Images /\ cleaner.image \in Images \cup {NoImage}
      /\ cleaner.stage["index"] \in {"pending", "done", "failed"}
  BY DEF Cleaner, Stages
<1>3. CASE ListImages
  <2>1. CASE cleaner' = [cleaner EXCEPT !.pc = "purge", !.images = index]
    <3>1. cleaner' = [cleaner EXCEPT !.images = index, !.pc = "purge",
                                     !.image = cleaner.image, !.stage = cleaner.stage]
      BY <2>1 DEF Cleaner
    <3> QED BY <1>0, <1>1, <1>2, <3>1
  <2>2. CASE cleaner' = [cleaner EXCEPT !.pc = "decide", !.stage["caches"] = "failed",
                                        !.stage["index"] = "failed"]
    <3>1. cleaner' = [cleaner EXCEPT !.images = cleaner.images, !.pc = "decide",
                                     !.image = cleaner.image,
                                     !.stage = Marked("failed", "failed")]
      BY <2>2 DEF Cleaner, Marked
    <3> QED BY <1>0, <1>1, <1>2, <3>1
  <2> QED BY <1>3, <2>1, <2>2 DEF ListImages
<1>4. ASSUME NEW i \in cleaner.images,
             cleaner' = [cleaner EXCEPT !.pc = "unstore", !.image = i]
      PROVE  /\ cleaner' \in Cleaner /\ cleaner'.jobs = cleaner.jobs
             /\ \A s \in {"cancel", "media"} : cleaner'.stage[s] = cleaner.stage[s]
             /\ cleaner'.pc \in {"purge", "unstore", "decide"}
  <2>1. cleaner' = [cleaner EXCEPT !.images = cleaner.images, !.pc = "unstore", !.image = i,
                                   !.stage = cleaner.stage]
    BY <1>4 DEF Cleaner
  <2> QED BY <1>0, <1>1, <1>2, <2>1
<1>5. CASE PurgeStored
  <2>1. CASE cleaner' = [cleaner EXCEPT !.pc = "purge", !.image = NoImage,
                                        !.images = cleaner.images \ {cleaner.image}]
    <3>1. cleaner' = [cleaner EXCEPT !.images = cleaner.images \ {cleaner.image},
                                     !.pc = "purge", !.image = NoImage,
                                     !.stage = cleaner.stage]
      BY <2>1 DEF Cleaner
    <3> QED BY <1>0, <1>1, <1>2, <3>1
  <2>2. CASE cleaner' = [cleaner EXCEPT !.pc = "decide", !.image = NoImage, !.images = {},
                                        !.stage["caches"] = "failed"]
    <3>1. cleaner' = [cleaner EXCEPT !.images = {}, !.pc = "decide", !.image = NoImage,
                                     !.stage = Marked("failed", cleaner.stage["index"])]
      BY <2>2 DEF Cleaner, Marked
    <3> QED BY <1>0, <1>1, <1>2, <3>1
  <2> QED BY <1>5, <2>1, <2>2 DEF PurgeStored
<1>6. ASSUME NEW entries \in {"done", "failed"},
             cleaner' = [cleaner EXCEPT !.pc = "decide", !.stage["caches"] = "done",
                                        !.stage["index"] = entries]
      PROVE  /\ cleaner' \in Cleaner /\ cleaner'.jobs = cleaner.jobs
             /\ \A s \in {"cancel", "media"} : cleaner'.stage[s] = cleaner.stage[s]
             /\ cleaner'.pc \in {"purge", "unstore", "decide"}
  <2>1. cleaner' = [cleaner EXCEPT !.images = cleaner.images, !.pc = "decide",
                                   !.image = cleaner.image, !.stage = Marked("done", entries)]
    BY <1>6 DEF Cleaner, Marked
  <2> QED BY <1>0, <1>1, <1>2, <2>1
<1>7. CASE PurgeMemory
  BY <1>4, <1>7 DEF PurgeMemory
<1>8. CASE DeleteIndex
  BY <1>6, <1>8 DEF DeleteIndex
<1> QED BY <1>3, <1>5, <1>7, <1>8 DEF CleanImages

\* The records, which are deleted last.
LEMMA RecordsKeepHalf ==
  ASSUME JobHalf, Decide \/ DeleteKey \/ DeleteRows
  PROVE  JobHalf' /\ cleaner'.pc \in {"idle", "key", "rows"}
<1>0. /\ cleaner \in Cleaner /\ keyed \in BOOLEAN
      /\ cleaner.pc \in {"key", "rows"} => ConfirmedGone(cleaner.stage)
  BY DEF JobHalf, CleanerTypeOK, Control
<1>1. CASE Decide
  <2> DEFINE pc == IF ConfirmedGone(cleaner.stage) THEN "key" ELSE "idle"
             new == [cleaner EXCEPT !.pc = pc]
  <2>1. cleaner' = new /\ UNCHANGED <<vars, objects, keyed, slipped>>
    BY <1>1 DEF Decide, Go
  <2>2. pc \in {"key", "idle"} /\ (pc = "key" => ConfirmedGone(cleaner.stage))
    OBVIOUS
  <2> HIDE DEF pc
  <2>3. /\ new \in Cleaner /\ new.pc = pc /\ new.jobs = cleaner.jobs
        /\ new.stage = cleaner.stage
    BY <1>0, <2>2 DEF Cleaner
  <2> HIDE DEF new
  <2>4. ConfirmedGone(cleaner.stage) => ConfirmedGone(cleaner'.stage)
    BY <2>1, <2>3
  <2> QED BY <1>0, <2>1, <2>2, <2>3, <2>4, LaterKeepsHalf DEF vars, WorkerVars
<1>2. ASSUME NEW s \in {"key", "rows"}, NEW status \in {"done", "failed"},
             NEW pc \in {"idle", "rows"}, cleaner.pc \in {"key", "rows"}, End(s, status, pc),
             UNCHANGED <<client, task, WorkerVars, failedOnce, raced, faults, objects, slipped>>,
             keyed' \in BOOLEAN, UNCHANGED row \/ row' = [t \in Ids |-> NoRow]
      PROVE  JobHalf' /\ cleaner'.pc = pc
  <2>1. /\ cleaner' \in Cleaner /\ cleaner'.pc = pc /\ cleaner'.jobs = cleaner.jobs
        /\ \A z \in {"cancel", "media", "caches"} : cleaner'.stage[z] = cleaner.stage[z]
    BY <1>0, <1>2, EndType DEF Stages
  <2>2. ConfirmedGone(cleaner'.stage)
    BY <1>0, <1>2, <2>1 DEF ConfirmedGone
  <2> QED BY <1>2, <2>1, <2>2, LaterKeepsHalf
<1>3. CASE DeleteKey
  <2>1. /\ cleaner.pc = "key"
        /\ End("key", "done", "rows") \/ End("key", "failed", "rows")
        /\ UNCHANGED <<client, task, WorkerVars, failedOnce, raced, faults, objects, slipped, row>>
        /\ keyed' \in BOOLEAN
    BY <1>0, <1>3 DEF DeleteKey, vars, WorkerVars
  <2> QED BY <1>2, <2>1
<1>4. CASE DeleteRows
  <2>1. /\ cleaner.pc = "rows"
        /\ End("rows", "done", "idle") \/ End("rows", "failed", "idle")
        /\ UNCHANGED <<client, task, WorkerVars, failedOnce, raced, faults, objects, slipped>>
        /\ UNCHANGED row \/ row' = [t \in Ids |-> NoRow]
        /\ keyed' \in BOOLEAN
    BY <1>0, <1>4 DEF DeleteRows
  <2> QED BY <1>2, <2>1
<1> QED BY <1>1, <1>3, <1>4

LEMMA ImageStageKeepsHalf ==
  ASSUME JobHalf, index \subseteq Images, CleanImages
  PROVE  JobHalf'
<1>1. /\ cleaner' \in Cleaner /\ cleaner'.jobs = cleaner.jobs
      /\ \A s \in {"cancel", "media"} : cleaner'.stage[s] = cleaner.stage[s]
      /\ cleaner'.pc \in {"purge", "unstore", "decide"}
  BY ImageStageType DEF JobHalf, CleanerTypeOK
<1>2. UNCHANGED <<vars, objects, keyed, slipped>>
  BY DEF CleanImages, ListImages, PurgeMemory, PurgeStored, DeleteIndex
<1> QED BY <1>1, <1>2, LaterKeepsHalf DEF JobHalf, CleanerTypeOK, vars, WorkerVars

\* The jobs side of any step.
LEMMA JobHalfStep == JobHalf /\ index \subseteq Images /\ [CleanupNext]_allVars => JobHalf'
<1> SUFFICES ASSUME JobHalf, index \subseteq Images, [CleanupNext]_allVars PROVE JobHalf'
  OBVIOUS
<1>s. ASSUME UNCHANGED <<vars, cleaner, objects, slipped>>, keyed' \in BOOLEAN PROVE JobHalf'
  <2>1. IdempotencyInv' /\ JobsGoOn
    BY <1>s, IdempotencyStep DEF JobHalf, JobsGoOn, OverFor, Uploading, RowExists, vars
  <2> QED BY <1>s, <2>1, JobsKeepHalf
<1>k. keyed \in BOOLEAN
  BY DEF JobHalf, CleanerTypeOK
<1>1. CASE JobStep
  <2>1. Next /\ UNCHANGED <<cleaner, objects, keyed, slipped>>
    BY <1>1 DEF JobStep, cleanerVars
  <2>2. JobsGoOn /\ IdempotencyInv'
    BY <2>1, NextGoesOn DEF JobHalf
  <2> QED BY <1>k, <2>1, <2>2, JobsKeepHalf
<1>2. CASE ImageStep
  BY <1>2, <1>s, <1>k DEF ImageStep
<1>3. CASE CleanerStep
  <2>1. CASE ListJobs
    BY <2>1, ListJobsKeepsHalf
  <2>2. CASE CancelProcessing
    BY <2>2, CancelKeepsHalf
  <2>3. CASE InspectTask
    BY <2>3, InspectKeepsHalf
  <2>4. CASE ListObjects
    BY <2>4, ListObjectsKeepsHalf
  <2>5. CASE DeleteObject
    BY <2>5, DeleteObjectKeepsHalf
  <2>6. CASE CleanImages
    BY <2>6, ImageStageKeepsHalf
  <2>7. CASE Decide \/ DeleteKey \/ DeleteRows
    BY <2>7, RecordsKeepHalf
  <2> QED BY <1>3, <2>1, <2>2, <2>3, <2>4, <2>5, <2>6, <2>7 DEF CleanerStep
<1>4. ASSUME NEW p \in Procs, Start(p) PROVE JobHalf'
  BY <1>4, StartKeepsHalf
<1>5. ASSUME NEW t \in Ids, NEW n \in Slots, StoreKey(t, n) PROVE JobHalf'
  BY <1>5, <1>s DEF StoreKey
<1>6. ASSUME NEW t \in Ids, NEW n \in Slots, PutObject(t, n) PROVE JobHalf'
  BY <1>6, PutKeepsHalf
<1>7. CASE UNCHANGED allVars
  BY <1>7, <1>s, <1>k DEF allVars, cleanerVars
<1> QED BY <1>1, <1>2, <1>3, <1>4, <1>5, <1>6, <1>7 DEF CleanupNext

\* When all is confirmed as gone, what is left slipped.
LEMMA JobHalfMeans == JobHalf => ConfirmedIsGone
<1> SUFFICES ASSUME JobHalf, ConfirmedGone(cleaner.stage), NEW t \in Ids,
                    t \in objects \/ InQueue(t) \/ Uploading(t)
             PROVE  t \in slipped
  BY DEF ConfirmedIsGone
<1>1. cleaner.stage["cancel"] = "done" /\ cleaner.stage["media"] = "done"
  BY DEF ConfirmedGone
<1>2. t \in slipped \/ OverFor(t)
  BY <1>1 DEF JobHalf, Control, Covered
<1>3. objects \subseteq slipped
  BY <1>1 DEF JobHalf, Emptied
<1> QED BY <1>2, <1>3 DEF OverFor, InQueue

\* Whatever a step deletes of the records, it deletes after that.
LEMMA RecordsStep ==
  ASSUME JobHalf, [CleanupNext]_allVars,
         (keyed /\ ~keyed') \/ \E t \in Ids : RowExists(t) /\ row'[t] = NoRow
  PROVE  \A t \in Ids : t \in objects \/ InQueue(t) => t \in slipped
<1>1. CASE cleaner.pc \in {"key", "rows"}
  BY <1>1, JobHalfMeans DEF JobHalf, Control, ConfirmedIsGone
<1>2. CASE (keyed => keyed') /\ \A t \in Ids : RowExists(t) => RowExists(t)'
  <2>1. NoRow.status = "none"
    BY DEF NoRow
  <2> QED BY <1>2, <2>1 DEF RowExists
<1>u. ASSUME UNCHANGED row, keyed => keyed'
      PROVE  (keyed => keyed') /\ \A t \in Ids : RowExists(t) => RowExists(t)'
  BY <1>u DEF RowExists
<1>3. CASE JobStep
  <2>1. Next /\ UNCHANGED keyed
    BY <1>3 DEF JobStep, cleanerVars
  <2>2. JobsGoOn
    BY <2>1, NextGoesOn DEF JobHalf
  <2> QED BY <1>2, <2>1, <2>2 DEF JobsGoOn
<1>4. CASE ImageStep \/ \E t \in Ids, n \in Slots : StoreKey(t, n) \/ PutObject(t, n)
  <2>1. UNCHANGED row /\ (keyed' = keyed \/ keyed' = TRUE)
    BY <1>4 DEF ImageStep, StoreKey, PutObject, vars
  <2>2. keyed => keyed'
    BY <2>1
  <2> QED BY <1>2, <2>1, <2>2, <1>u
<1>5. CASE CleanerStep \/ \E p \in Procs : Start(p)
  <2>1. CASE DeleteKey \/ DeleteRows
    BY <1>1, <2>1 DEF DeleteKey, DeleteRows
  <2>2. CASE UNCHANGED <<row, keyed>>
    BY <1>2, <2>2, <1>u
  <2>3. CASE ListJobs \/ ListObjects \/ DeleteObject \/ Decide \/ \E p \in Procs : Start(p)
    BY <2>2, <2>3 DEF ListJobs, ListObjects, DeleteObject, Decide, Start, vars
  <2>4. CASE CancelProcessing \/ InspectTask
    BY <2>2, <2>4 DEF CancelProcessing, InspectTask
  <2>5. CASE CleanImages
    BY <2>2, <2>5 DEF CleanImages, ListImages, PurgeMemory, PurgeStored, DeleteIndex, vars
  <2> QED BY <1>5, <2>1, <2>3, <2>4, <2>5 DEF CleanerStep
<1>6. CASE UNCHANGED allVars
  BY <1>2, <1>6, <1>u DEF allVars, cleanerVars, vars
<1> QED BY <1>3, <1>4, <1>5, <1>6 DEF CleanupNext

-----------------------------------------------------------------------------
(***************************************************************************)
(* The second half: cached renditions and the index.                       *)
(***************************************************************************)

\* From now on the rendition is tracked, its tracking failed, or nobody tracks it.
Settles(i) == i[1] \in Hashed => i \in index' \cup untracked'

\* What requests do to what is cached and tracked: only one that has put or is
\* about to remember a rendition adds a copy, and it is tracked in between.
Moves ==
  /\ index \subseteq index' /\ index \cup untracked \subseteq index' \cup untracked'
  /\ \A i \in stored' : i \in stored \/ \E r \in Requests : request[r].put /\ request[r].image = i
  /\ \A p \in Procs : \A i \in mem'[p] :
       i \in mem[p] \/ \E r \in Requests :
                         /\ request[r].image = i
                         /\ \/ request[r].pc = "finish"
                            \/ /\ request[r].pc = "cache"
                               /\ request'[r].pc = "track" /\ request'[r].image = i
  /\ \A r \in Requests : request[r].pc = "track" =>
       \/ request'[r].pc = "track" /\ request'[r].image = request[r].image
       \/ Settles(request[r].image)
  /\ \A r \in Requests : request'[r].pc = "finish" \/ request'[r].put =>
       /\ request'[r].image = request[r].image
       /\ request[r].pc = "finish" \/ request[r].put \/ Settles(request[r].image)
  /\ \A i \in index' \ index :
       \E r \in Requests : request'[r].pc = "finish" /\ request'[r].image = i

\* Steps of one request that leave the caches alone and do not track.
LEMMA QuietMoves ==
  ASSUME NEW r \in Requests,
         UNCHANGED <<mem, stored, index, untracked>>,
         \A v \in Requests \ {r} : request'[v] = request[v],
         request[r].pc # "track" \/ UNCHANGED request,
         \/ UNCHANGED request
         \/ request'[r].pc # "finish" /\ ~request'[r].put
  PROVE  Moves
BY DEF Moves

LEMMA ServeMoves ==
  ASSUME ImageInv, NEW r \in Requests, Serve(r)
  PROVE  Moves
<1> DEFINE q == request[r]
<1>0. /\ request \in [Requests -> Request] /\ q \in Request /\ Own(q)
      /\ mem \in [Procs -> SUBSET Images] /\ q.proc \in Procs
      /\ \A v \in Requests : request[v] \in Request /\ Own(request[v])
  BY DEF ImageInv, ImageTypeOK, Request
<1>1. CASE MemoryGet(r)
  <2>1. q.pc = "memory" /\ UNCHANGED <<mem, stored, index, untracked>>
    BY <1>1 DEF MemoryGet
  <2>2. ~q.put
    BY <1>0, <2>1 DEF Own
  <2>3. \E pc \in {"track", "storage"}, then \in {q.then, "send"}, data \in {q.data, q.image} :
          request' = [request EXCEPT ![r] = [q EXCEPT !.pc = pc, !.then = then, !.data = data]]
    BY <1>0, <1>1 DEF MemoryGet, Request
  <2>4. /\ \A v \in Requests \ {r} : request'[v] = request[v]
        /\ request'[r].pc # "finish" /\ ~request'[r].put
    BY <1>0, <2>2, <2>3 DEF Request
  <2> QED BY <2>1, <2>4, QuietMoves
<1>2. CASE StorageGet(r)
  <2>1. q.pc = "storage" /\ UNCHANGED <<mem, stored, index, untracked>>
    BY <1>2 DEF StorageGet
  <2>2. ~q.put
    BY <1>0, <2>1 DEF Own
  <2>3. \E pc \in {"track", "fetch"}, then \in {q.then, "fill"}, data \in {q.data, q.image} :
          request' = [request EXCEPT ![r] = [q EXCEPT !.pc = pc, !.then = then, !.data = data]]
    BY <1>0, <1>2 DEF StorageGet, Step, Request
  <2>4. /\ \A v \in Requests \ {r} : request'[v] = request[v]
        /\ request'[r].pc # "finish" /\ ~request'[r].put
    BY <1>0, <2>2, <2>3 DEF Request
  <2> QED BY <2>1, <2>4, QuietMoves
<1>3. CASE Join(r)
  <2>1. q.pc \in {"fetch", "process"} /\ UNCHANGED <<mem, stored, index, untracked>>
    BY <1>3 DEF Join
  <2>2. ~q.put
    BY <1>0, <2>1 DEF Own
  <2>3. \E pc \in {"fetching", "processing", "wait"}, l \in Requests :
          request' = [request EXCEPT ![r] = [q EXCEPT !.pc = pc, !.leader = l]]
    <3> DEFINE flying == IF q.pc = "fetch" THEN "fetching" ELSE "processing"
    <3>1. CASE Step(r, flying)
      <4>1. request' = [request EXCEPT ![r] = [q EXCEPT !.pc = flying, !.leader = q.leader]]
        BY <1>0, <3>1 DEF Step, Request
      <4>2. flying \in {"fetching", "processing", "wait"} /\ q.leader \in Requests
        BY <1>0 DEF Request
      <4> QED BY <4>1, <4>2
    <3>2. CASE \E l \in Requests :
                 request' = [request EXCEPT ![r].pc = "wait", ![r].leader = l]
      <4>1. PICK l \in Requests :
                 request' = [request EXCEPT ![r].pc = "wait", ![r].leader = l]
        BY <3>2
      <4>2. request' = [request EXCEPT ![r] = [q EXCEPT !.pc = "wait", !.leader = l]]
        BY <1>0, <4>1
      <4> QED BY <4>2
    <3> QED BY <1>3, <3>1, <3>2 DEF Join
  <2>4. /\ \A v \in Requests \ {r} : request'[v] = request[v]
        /\ request'[r].pc # "finish" /\ ~request'[r].put
    BY <1>0, <2>2, <2>3 DEF Request
  <2> QED BY <2>1, <2>4, QuietMoves
<1>4. CASE Fetched(r) \/ Processed(r)
  <2>1. /\ q.pc \in {"fetching", "processing"} /\ UNCHANGED <<mem, stored, index, untracked>>
        /\ \E pc \in {"process", "cache", "failed"} : \E data : Land(r, pc, data)
    BY <1>4 DEF Fetched, Processed, Landed
  <2>2. PICK pc \in {"process", "cache", "failed"} : \E data : Land(r, pc, data)
    BY <2>1
  <2>3. PICK data : Land(r, pc, data)
    BY <2>2
  <2>4. ASSUME NEW v \in Requests
        PROVE  \/ request'[v] = request[v]
               \/ /\ request'[v].pc = pc /\ ~request'[v].put
                  /\ request[v].pc # "track"
    <3>1. CASE request'[v] = [request[v] EXCEPT !.pc = pc, !.data = data]
               /\ request[v].pc \in {"fetching", "processing", "wait"}
      <4>1. request'[v].pc = pc /\ request'[v].put = request[v].put
        BY <1>0, <3>1 DEF Request
      <4>2. ~request[v].put
        BY <1>0, <3>1 DEF Own
      <4> QED BY <3>1, <4>1, <4>2
    <3> QED BY <2>1, <2>3, <3>1 DEF Land
  <2> QED BY <2>1, <2>4 DEF Moves
<1>5. CASE CacheSet(r)
  <2>1. /\ q.pc = "cache" /\ Remember(q.proc, q.image) /\ UNCHANGED <<stored, index, untracked>>
        /\ request' = [request EXCEPT ![r] = [q EXCEPT !.pc = "track", !.then = "writeBack"]]
    BY <1>0, <1>5 DEF CacheSet
  <2>2. ~q.put
    BY <1>0, <2>1 DEF Own
  <2>3. /\ \A v \in Requests \ {r} : request'[v] = request[v]
        /\ request'[r].pc = "track" /\ ~request'[r].put /\ request'[r].image = q.image
    BY <1>0, <2>1, <2>2 DEF Request
  <2>4. \A p \in Procs : mem'[p] \subseteq mem[p] \cup {q.image}
    BY <1>0, <2>1 DEF Remember
  <2> QED BY <2>1, <2>3, <2>4 DEF Moves
<1>6. CASE Track(r)
  <2>1. /\ q.pc = "track" /\ UNCHANGED <<mem, stored>>
        /\ request' = [request EXCEPT ![r] = [q EXCEPT !.pc = "finish"]]
    BY <1>0, <1>6 DEF Track, Step
  <2>2. ~q.put
    BY <1>0, <2>1 DEF Own
  <2>3. /\ \A v \in Requests \ {r} : request'[v] = request[v]
        /\ request'[r].pc = "finish" /\ ~request'[r].put /\ request'[r].image = q.image
    BY <1>0, <2>1, <2>2 DEF Request
  <2>4. /\ index \subseteq index' /\ index' \subseteq index \cup {q.image}
        /\ index \cup untracked \subseteq index' \cup untracked'
        /\ q.image[1] \in Hashed => q.image \in index' \cup untracked'
    BY <1>6 DEF Track
  <2> QED BY <2>1, <2>3, <2>4 DEF Moves, Settles
<1>7. CASE Finish(r)
  <2>1. /\ q.pc = "finish" /\ UNCHANGED <<stored, index, untracked>>
        /\ request' = [request EXCEPT ![r] =
             [q EXCEPT !.pc = "done", !.put = (q.then = "writeBack")]]
        /\ Remember(q.proc, q.image) \/ UNCHANGED mem
    BY <1>0, <1>7 DEF Finish
  <2>2. /\ \A v \in Requests \ {r} : request'[v] = request[v]
        /\ request'[r].pc = "done" /\ request'[r].image = q.image
    BY <1>0, <2>1 DEF Request
  <2>3. \A p \in Procs : mem'[p] \subseteq mem[p] \cup {q.image}
    BY <1>0, <2>1 DEF Remember
  <2> QED BY <2>1, <2>2, <2>3 DEF Moves
<1>8. CASE WriteBack(r)
  <2>1. /\ q.put /\ UNCHANGED <<mem, index, untracked>>
        /\ request' = [request EXCEPT ![r] = [q EXCEPT !.put = FALSE]]
        /\ stored' \subseteq stored \cup {q.image}
    BY <1>0, <1>8 DEF WriteBack
  <2>2. /\ \A v \in Requests \ {r} : request'[v] = request[v]
        /\ request'[r].pc = q.pc /\ ~request'[r].put
    BY <1>0, <2>1 DEF Request
  <2>3. q.pc = "done"
    BY <1>0, <2>1 DEF Own
  <2> QED BY <2>1, <2>2, <2>3 DEF Moves
<1> QED BY <1>1, <1>2, <1>3, <1>4, <1>5, <1>6, <1>7, <1>8 DEF Serve

LEMMA RequestsMove == ImageInv /\ ImageNext => Moves
<1> SUFFICES ASSUME ImageInv, ImageNext PROVE Moves
  OBVIOUS
<1>1. ASSUME NEW r \in Requests, HangUp(r) PROVE Moves
  BY <1>1, QuietMoves DEF HangUp
<1>2. ASSUME NEW r \in Requests, NEW i \in Images, Arrive(r, i) PROVE Moves
  <2>0. request \in [Requests -> Request] /\ Own(request[r])
    BY DEF ImageInv, ImageTypeOK
  <2>1. /\ request[r].pc = "idle" /\ UNCHANGED <<mem, stored, index, untracked>>
        /\ request' = [request EXCEPT ![r] = [request[r] EXCEPT !.pc = "memory", !.image = i]]
    BY <1>2, <2>0 DEF Arrive
  <2>2. ~request[r].put
    BY <2>0, <2>1 DEF Own
  <2>3. /\ \A v \in Requests \ {r} : request'[v] = request[v]
        /\ request'[r].pc # "finish" /\ ~request'[r].put
    BY <2>0, <2>1, <2>2 DEF Request
  <2> QED BY <2>1, <2>3, QuietMoves
<1> QED BY <1>1, <1>2, ServeMoves DEF ImageNext

Cached(i) == i \in stored \/ \E p \in Procs : i \in mem[p]
Known(i) == i \in index \cup untracked \cup excused

\* A copy that nobody knows of is about to be tracked; who has tracked his
\* rendition, and may yet add a copy of it, is known.
Traced ==
  /\ \A i \in Hashed \X Options : Cached(i) =>
       Known(i) \/ \E r \in Requests : request[r].pc = "track" /\ request[r].image = i
  /\ \A r \in Requests :
       (request[r].pc = "finish" \/ request[r].put) /\ request[r].image[1] \in Hashed
         => Known(request[r].image)

\* While the cleaner works through the index, everyone under way is excused, and
\* the other renditions are still on its list, or gone from where it looks. The one
\* it has at hand is gone from its memory.
Purging ==
  InImageStage =>
    /\ Busy \subseteq excused
    /\ cleaner.pc = "unstore" => cleaner.image \in excused \/ cleaner.image \notin mem[cleaner.proc]
    /\ \A i \in index \ excused :
         i \in cleaner.images \/ (i \notin stored /\ i \notin mem[cleaner.proc])

ImageHalf == ImageInv /\ excused \subseteq Images /\ Traced /\ Purging

LEMMA ImageHalfInit == CleanupInit => ImageHalf
<1> SUFFICES ASSUME CleanupInit PROVE ImageHalf
  OBVIOUS
<1>1. ImageInv /\ excused = {} /\ ImageInit
  BY ImageInvInit DEF CleanupInit
<1>2. cleaner.pc = "idle"
  BY DEF CleanupInit
<1>3. Traced
  BY <1>1 DEF ImageInit, Traced, Cached
<1> QED BY <1>1, <1>2, <1>3 DEF ImageHalf, Purging, InImageStage

\* Who is under way has a rendition in mind.
LEMMA BusyType == ImageInv => Busy \subseteq Images
<1> SUFFICES ASSUME ImageInv PROVE Busy \subseteq Images
  OBVIOUS
<1>1. \A r \in Requests : Own(request[r]) /\ request[r] \in Request
  BY DEF ImageInv, ImageTypeOK
<1>2. \A r \in Requests : request[r].pc \notin {"idle", "failed", "done"} \/ request[r].put
        => request[r].image \in Images
  <2> HIDE DEF Images
  <2> QED BY <1>1 DEF Own, Request
<1> QED BY <1>2 DEF Busy

LEMMA BusyTypeNext == (ImageInv => Busy \subseteq Images)'
BY BusyType, PTL

LEMMA WhoIsBusy ==
  ASSUME NEW r \in Requests, request[r].pc \in {"cache", "track", "finish"} \/ request[r].put
  PROVE  request[r].image \in Busy
BY DEF Busy

LEMMA IndexType == ImageInv => index \subseteq Images
BY HashedAssumption DEF ImageInv, ImageTypeOK, Images

\* The requests go on, also while the cleaner is at work.
LEMMA RequestsKeepHalf ==
  ASSUME ImageHalf, cleaner.proc \in Procs, ImageStep
  PROVE  ImageHalf'
<1>0. ImageInv /\ ImageNext /\ UNCHANGED cleaner /\ Traced /\ Purging
  BY DEF ImageHalf, ImageStep
<1>1. ImageInv' /\ Moves
  BY <1>0, ImageInvStep, RequestsMove
<1>2. excused' = IF InImageStage THEN excused \cup Busy' ELSE excused \ (index' \ index)
  BY DEF ImageStep
<1>3. excused' \subseteq Images
  <2>1. Busy' \subseteq Images
    BY <1>1, BusyTypeNext
  <2> QED BY <1>2, <2>1 DEF ImageHalf
<1>4. \A i : Known(i) => Known(i)'
  <2>1. index \cup untracked \subseteq index' \cup untracked'
    BY <1>1 DEF Moves
  <2>2. excused \subseteq excused' \cup index'
    BY <1>2
  <2> QED BY <2>1, <2>2 DEF Known
<1>5. \A i : i[1] \in Hashed /\ Settles(i) => Known(i)'
  BY DEF Known, Settles
<1>6. Traced'
  <2>1. ASSUME NEW i \in Hashed \X Options, Cached(i)'
        PROVE  Known(i)' \/ \E r \in Requests : request'[r].pc = "track" /\ request'[r].image = i
    <3>0. i[1] \in Hashed
      OBVIOUS
    <3>1. CASE Cached(i)
      <4>1. CASE Known(i)
        BY <1>4, <4>1
      <4>2. ASSUME NEW r \in Requests, request[r].pc = "track", request[r].image = i
            PROVE  Known(i)' \/ \E v \in Requests : request'[v].pc = "track" /\ request'[v].image = i
        BY <1>1, <1>5, <3>0, <4>2 DEF Moves
      <4> QED BY <1>0, <3>1, <4>1, <4>2 DEF Traced
    <3>2. ASSUME NEW r \in Requests, request[r].image = i, request[r].put \/ request[r].pc = "finish"
          PROVE  Known(i)'
      BY <1>0, <1>4, <3>0, <3>2 DEF Traced
    <3>3. \/ Cached(i)
          \/ \E r \in Requests : /\ request[r].image = i
                                 /\ request[r].put \/ request[r].pc = "finish"
          \/ \E r \in Requests : request'[r].pc = "track" /\ request'[r].image = i
      BY <1>1, <2>1 DEF Cached, Moves
    <3> QED BY <3>1, <3>2, <3>3
  <2>2. ASSUME NEW r \in Requests, request'[r].pc = "finish" \/ request'[r].put,
               request'[r].image[1] \in Hashed
        PROVE  Known(request[r].image)'
    <3>1. /\ request'[r].image = request[r].image
          /\ request[r].pc = "finish" \/ request[r].put \/ Settles(request[r].image)
      BY <1>1, <2>2 DEF Moves
    <3>2. CASE Settles(request[r].image)
      <4>1. request'[r].image \in index' \cup untracked'
        BY <2>2, <3>1, <3>2 DEF Settles
      <4> QED BY <4>1 DEF Known
    <3>3. CASE request[r].pc = "finish" \/ request[r].put
      <4>1. Known(request[r].image)
        BY <1>0, <2>2, <3>1, <3>3 DEF Traced
      <4>2. request[r].image \in index' \cup untracked' \cup excused'
        BY <1>4, <4>1 DEF Known
      <4> QED BY <3>1, <4>2 DEF Known
    <3> QED BY <3>1, <3>2, <3>3
  <2> QED BY <2>1, <2>2 DEF Traced
<1>7. Purging'
  <2> SUFFICES ASSUME InImageStage
               PROVE  /\ Busy' \subseteq excused'
                      /\ cleaner.pc = "unstore" =>
                           cleaner.image \in excused' \/ cleaner.image \notin mem'[cleaner.proc]
                      /\ \A i \in index' \ excused' :
                           \/ i \in cleaner.images
                           \/ i \notin stored' /\ i \notin mem'[cleaner.proc]
    BY <1>0 DEF Purging, InImageStage
  <2>1. excused' = excused \cup Busy' /\ Busy \subseteq excused
    BY <1>0, <1>2 DEF Purging
  <2>2. ASSUME NEW i, i \notin excused'
        PROVE  /\ i \notin stored => i \notin stored'
               /\ i \notin mem[cleaner.proc] => i \notin mem'[cleaner.proc]
    <3>1. \A r \in Requests : request[r].image = i =>
            ~request[r].put /\ request[r].pc \notin {"cache", "finish"}
      BY <2>1, <2>2, WhoIsBusy
    <3> QED BY <1>1, <3>1 DEF Moves
  <2>3. ASSUME NEW i \in index', i \notin excused', i \notin cleaner.images
        PROVE  i \notin stored' /\ i \notin mem'[cleaner.proc]
    <3>1. i \in index
      <4>1. ASSUME NEW r \in Requests, request'[r].pc = "finish" PROVE request'[r].image \in Busy'
        BY <4>1 DEF Busy
      <4> QED BY <1>1, <2>1, <2>3, <4>1 DEF Moves
    <3> QED BY <1>0, <2>1, <2>2, <2>3, <3>1 DEF Purging
  <2>4. ASSUME cleaner.pc = "unstore", cleaner.image \notin excused'
        PROVE  cleaner.image \notin mem'[cleaner.proc]
    BY <1>0, <2>1, <2>2, <2>4 DEF Purging
  <2> QED BY <2>1, <2>3, <2>4
<1> QED BY <1>1, <1>3, <1>6, <1>7 DEF ImageHalf

\* Taking renditions away from the caches and rows from the index leaves the
\* requests as they are.
LEMMA PurgedKeepsRequests ==
  ASSUME ImageInv, UNCHANGED <<request, hungup, untracked, refused>>,
         mem' \in [Procs -> SUBSET Images], stored' \subseteq stored, index' \subseteq index
  PROVE  ImageInv' /\ Busy' = Busy
BY DEF ImageInv, ImageTypeOK, Own, Aboard, Busy

\* The cleaner works through the index.
LEMMA CleanImagesKeepsHalf ==
  ASSUME ImageHalf, cleaner \in Cleaner, CleanImages
  PROVE  ImageHalf'
<1>0. ImageInv /\ Traced /\ Purging /\ cleaner.proc \in Procs /\ excused \subseteq Images
      /\ mem \in [Procs -> SUBSET Images] /\ index \subseteq Images
  BY IndexType DEF ImageHalf, ImageInv, ImageTypeOK, Cleaner
<1>1. Busy \subseteq Images
  BY <1>0, BusyType
<1>2. UNCHANGED <<request, hungup, untracked, refused>>
  BY DEF CleanImages, ListImages, PurgeMemory, PurgeStored, DeleteIndex, imageVars
<1>3. excused' = excused \cup
        (IF InImageStage' THEN Busy ELSE {}) \cup
        (IF index' # index THEN UNION {mem[p] : p \in Procs \ {cleaner.proc}} ELSE {})
  BY DEF CleanImages
<1>4. excused' \subseteq Images
  BY <1>0, <1>1, <1>3
\* A step that deletes no row.
<1>5. ASSUME UNCHANGED index, mem' \in [Procs -> SUBSET Images], stored' \subseteq stored,
             \A p \in Procs : mem'[p] \subseteq mem[p],
             InImageStage' => \A i \in index \ excused' :
               i \in cleaner'.images \/ (i \notin stored' /\ i \notin mem'[cleaner'.proc]),
             cleaner'.pc = "unstore" => cleaner'.image \notin mem'[cleaner'.proc]
      PROVE  ImageHalf'
  <2>1. ImageInv' /\ Busy' = Busy
    BY <1>0, <1>2, <1>5, PurgedKeepsRequests
  <2>2. excused' = excused \cup (IF InImageStage' THEN Busy ELSE {})
    BY <1>3, <1>5
  <2>3. Traced'
    <3>1. (\A i : Known(i) => Known(i)') /\ \A i : Cached(i)' => Cached(i)
      BY <1>2, <1>5, <2>2 DEF Known, Cached
    <3>2. \A r \in Requests : Known(request[r].image) => Known(request[r].image)'
      BY <1>2, <1>5, <2>2 DEF Known
    <3> QED BY <1>0, <1>2, <3>1, <3>2 DEF Traced
  <2>4. Purging'
    BY <1>5, <2>1, <2>2 DEF Purging
  <2> QED BY <1>4, <2>1, <2>3, <2>4 DEF ImageHalf
<1>6. CASE ListImages
  <2>1. UNCHANGED imageVars
    BY <1>6 DEF ListImages
  <2>2. CASE cleaner' = [cleaner EXCEPT !.pc = "purge", !.images = index]
    <3>1. cleaner'.images = index /\ cleaner'.pc = "purge"
      BY <1>0, <2>2 DEF Cleaner
    <3> QED BY <1>0, <1>5, <2>1, <3>1 DEF imageVars
  <2>3. CASE cleaner' = [cleaner EXCEPT !.pc = "decide", !.stage["caches"] = "failed",
                                        !.stage["index"] = "failed"]
    <3>1. cleaner'.pc = "decide"
      BY <2>3 DEF Cleaner
    <3> QED BY <1>0, <1>5, <2>1, <3>1 DEF imageVars, InImageStage
  <2> QED BY <1>6, <2>2, <2>3 DEF ListImages
<1>7. CASE PurgeMemory
  <2>1. cleaner.pc = "purge" /\ UNCHANGED <<index, stored>>
    BY <1>7 DEF PurgeMemory
  <2>2. PICK i \in cleaner.images :
          /\ mem' = [mem EXCEPT ![cleaner.proc] = mem[cleaner.proc] \ {i}]
          /\ cleaner' = [cleaner EXCEPT !.pc = "unstore", !.image = i]
    BY <1>7 DEF PurgeMemory
  <2>3. /\ mem' \in [Procs -> SUBSET Images]
        /\ \A p \in Procs : mem'[p] \subseteq mem[p]
        /\ mem'[cleaner.proc] = mem[cleaner.proc] \ {i}
    <3> HIDE DEF Images
    <3> QED BY <1>0, <2>2
  <2>4. /\ cleaner'.images = cleaner.images /\ cleaner'.proc = cleaner.proc
        /\ cleaner'.image = i
    BY <2>2 DEF Cleaner
  <2>5. \A j \in index \ excused :
          j \in cleaner.images \/ (j \notin stored /\ j \notin mem[cleaner.proc])
    BY <1>0, <2>1 DEF Purging, InImageStage
  <2>6. \A j \in index \ excused' :
          j \in cleaner'.images \/ (j \notin stored' /\ j \notin mem'[cleaner'.proc])
    BY <1>3, <2>1, <2>3, <2>4, <2>5
  <2> QED BY <1>5, <2>1, <2>3, <2>4, <2>6
<1>9. CASE PurgeStored
  <2>1. /\ cleaner.pc = "unstore" /\ UNCHANGED <<index, mem>>
        /\ \/ /\ cleaner' = [cleaner EXCEPT !.pc = "purge", !.image = NoImage,
                                            !.images = cleaner.images \ {cleaner.image}]
              /\ stored' = stored \ {cleaner.image}
           \/ /\ cleaner' = [cleaner EXCEPT !.pc = "decide", !.image = NoImage, !.images = {},
                                            !.stage["caches"] = "failed"]
              /\ UNCHANGED stored
    BY <1>9 DEF PurgeStored
  <2>2. CASE /\ cleaner' = [cleaner EXCEPT !.pc = "purge", !.image = NoImage,
                                           !.images = cleaner.images \ {cleaner.image}]
             /\ stored' = stored \ {cleaner.image}
    <3>1. /\ cleaner'.images = cleaner.images \ {cleaner.image} /\ cleaner'.proc = cleaner.proc
          /\ cleaner'.pc = "purge"
      BY <2>2 DEF Cleaner
    <3>2. /\ cleaner.image \in excused \/ cleaner.image \notin mem[cleaner.proc]
          /\ \A j \in index \ excused :
               j \in cleaner.images \/ (j \notin stored /\ j \notin mem[cleaner.proc])
      BY <1>0, <2>1 DEF Purging, InImageStage
    <3>3. excused \subseteq excused'
      BY <1>3
    <3>4. ASSUME NEW j \in index \ excused', j \notin cleaner'.images
          PROVE  j \notin stored' /\ j \notin mem'[cleaner'.proc]
      <4>1. CASE j = cleaner.image
        BY <2>1, <2>2, <3>1, <3>2, <3>3, <4>1
      <4>2. CASE j # cleaner.image
        BY <2>1, <2>2, <3>1, <3>2, <3>3, <3>4, <4>2
      <4> QED BY <4>1, <4>2
    <3>5. stored' \subseteq stored
      BY <2>2
    <3> QED BY <1>0, <1>5, <2>1, <3>1, <3>4, <3>5
  <2>3. CASE /\ cleaner' = [cleaner EXCEPT !.pc = "decide", !.image = NoImage, !.images = {},
                                           !.stage["caches"] = "failed"]
             /\ UNCHANGED stored
    <3>1. cleaner'.pc = "decide" /\ ~InImageStage'
      BY <2>3 DEF Cleaner, InImageStage
    <3> QED BY <1>0, <1>5, <2>1, <2>3, <3>1
  <2> QED BY <2>1, <2>2, <2>3
<1>8. CASE DeleteIndex
  <2>1. /\ cleaner.pc = "purge" /\ cleaner.images = {} /\ UNCHANGED <<mem, stored>>
        /\ cleaner'.pc = "decide" /\ (index' = {} \/ UNCHANGED index)
    BY <1>8 DEF DeleteIndex, Cleaner
  <2>0. InImageStage /\ ~InImageStage'
    BY <2>1 DEF InImageStage
  <2>2. CASE UNCHANGED index
    BY <1>0, <1>5, <2>0, <2>1, <2>2
  <2>3. CASE index' = {} /\ index' # index
    <3>1. ImageInv' /\ Busy' = Busy
      BY <1>0, <1>2, <2>1, <2>3, PurgedKeepsRequests
    <3>2. /\ excused' = excused \cup UNION {mem[p] : p \in Procs \ {cleaner.proc}}
      BY <1>3, <2>0, <2>3
    <3>3. Busy \subseteq excused
      BY <1>0, <2>0 DEF Purging
    <3>4. ASSUME NEW i \in index, i \notin excused' PROVE ~Cached(i)
      <4>1. i \notin stored /\ i \notin mem[cleaner.proc]
        BY <1>0, <2>0, <2>1, <3>2, <3>4 DEF Purging
      <4>2. \A p \in Procs \ {cleaner.proc} : i \notin mem[p]
        BY <3>2, <3>4
      <4> QED BY <4>1, <4>2 DEF Cached
    <3>5. ASSUME NEW i, Known(i), Cached(i) \/ i \in Busy PROVE Known(i)'
      BY <1>2, <3>2, <3>3, <3>4, <3>5 DEF Known
    <3>6. Traced'
      <4>1. ASSUME NEW i \in Hashed \X Options, Cached(i)'
            PROVE  Known(i)' \/ \E r \in Requests : request'[r].pc = "track" /\ request'[r].image = i
        <5>1. Cached(i)
          BY <2>1, <4>1 DEF Cached
        <5> QED BY <1>0, <1>2, <3>5, <5>1 DEF Traced
      <4>2. ASSUME NEW r \in Requests, request[r].pc = "finish" \/ request[r].put,
                   request[r].image[1] \in Hashed
            PROVE  request[r].image \in index' \cup untracked' \cup excused'
        <5>1. request[r].image \in Busy
          BY <4>2, WhoIsBusy
        <5> QED BY <3>2, <3>3, <5>1
      <4> QED BY <1>2, <4>1, <4>2 DEF Traced, Known
    <3> QED BY <1>4, <2>0, <3>1, <3>6 DEF ImageHalf, Purging
  <2> QED BY <2>1, <2>2, <2>3
<1> QED BY <1>6, <1>7, <1>8, <1>9 DEF CleanImages

\* The renditions side of any step.
LEMMA ImageHalfStep ==
  JobHalf /\ ImageHalf /\ [CleanupNext]_allVars => ImageHalf'
<1> SUFFICES ASSUME JobHalf, ImageHalf, [CleanupNext]_allVars PROVE ImageHalf'
  OBVIOUS
<1>0. cleaner \in Cleaner /\ cleaner.proc \in Procs
  BY DEF JobHalf, CleanerTypeOK, Cleaner
<1>s. ASSUME UNCHANGED <<imageVars, excused>>,
             UNCHANGED cleaner \/ cleaner'.pc \notin {"purge", "unstore"}
      PROVE  ImageHalf'
  <2>1. ImageInv' /\ Busy' = Busy
    BY <1>s, ImageInvStutter DEF ImageHalf, Busy, imageVars
  <2>2. Traced'
    BY <1>s DEF ImageHalf, Traced, Known, Cached, imageVars
  <2>3. Purging'
    BY <1>s, <2>1 DEF ImageHalf, Purging, InImageStage, imageVars
  <2> QED BY <1>s, <2>1, <2>2, <2>3 DEF ImageHalf
<1>1. CASE JobStep
  BY <1>1, <1>s DEF JobStep, cleanerVars
<1>2. CASE ImageStep
  BY <1>0, <1>2, RequestsKeepHalf
<1>3. CASE CleanImages
  BY <1>0, <1>3, CleanImagesKeepsHalf
<1>4. CASE ListJobs
  BY <1>4, <1>s, ListJobsKeepsHalf DEF ListJobs
<1>5. CASE CancelProcessing
  BY <1>5, <1>s, CancelKeepsHalf DEF CancelProcessing
<1>6. CASE InspectTask
  BY <1>6, <1>s, InspectKeepsHalf DEF InspectTask
<1>7. CASE ListObjects
  BY <1>7, <1>s, ListObjectsKeepsHalf DEF ListObjects
<1>8. CASE DeleteObject
  BY <1>8, <1>s, DeleteObjectKeepsHalf DEF DeleteObject
<1>9. CASE Decide \/ DeleteKey \/ DeleteRows
  BY <1>9, <1>s, RecordsKeepHalf DEF Decide, DeleteKey, DeleteRows
<1>10. ASSUME NEW p \in Procs, Start(p) PROVE ImageHalf'
  BY <1>10, <1>s, StartKeepsHalf DEF Start
<1>11. ASSUME NEW t \in Ids, NEW n \in Slots, StoreKey(t, n) \/ PutObject(t, n) PROVE ImageHalf'
  BY <1>11, <1>s DEF StoreKey, PutObject
<1>12. CASE UNCHANGED allVars
  BY <1>12, <1>s DEF allVars, cleanerVars
<1> QED BY <1>1, <1>2, <1>3, <1>4, <1>5, <1>6, <1>7, <1>8, <1>9, <1>10, <1>11, <1>12
     DEF CleanupNext, CleanerStep

\* What the halves say of the properties.
LEMMA ImageHalfMeans == ImageHalf => CachedIsTracked
<1> SUFFICES ASSUME ImageHalf, NEW i \in Hashed \X Options,
                    i \in stored \cup UNION {mem[p] : p \in Procs}
             PROVE  i \in index \cup Busy \cup untracked \cup excused
  BY DEF CachedIsTracked
<1>1. Cached(i)
  BY DEF Cached
<1> QED BY <1>1, WhoIsBusy DEF ImageHalf, Traced, Known

\* Whatever a step deletes of the index, it deletes after the copies.
LEMMA IndexStep ==
  ASSUME ImageHalf, [CleanupNext]_allVars
  PROVE  \A i \in index \ index' : i \in stored' \cup mem'[cleaner.proc] => i \in excused'
<1>1. CASE index \subseteq index'
  BY <1>1
<1>2. CASE ImageStep
  BY <1>1, <1>2, RequestsMove DEF ImageStep, ImageHalf, Moves
<1>3. CASE DeleteIndex /\ CleanImages
  <2>1. /\ InImageStage /\ cleaner.images = {} /\ UNCHANGED <<mem, stored>>
        /\ excused \subseteq excused'
    BY <1>3 DEF DeleteIndex, CleanImages, InImageStage
  <2>2. \A i \in index \ excused : i \notin stored /\ i \notin mem[cleaner.proc]
    BY <2>1 DEF ImageHalf, Purging
  <2> QED BY <2>1, <2>2
<1>4. CASE UNCHANGED index
  BY <1>1, <1>4
<1>5. CASE ListImages \/ PurgeMemory \/ PurgeStored
  BY <1>4, <1>5 DEF ListImages, PurgeMemory, PurgeStored, imageVars
<1>6. CASE JobStep \/ ListJobs \/ CancelProcessing \/ InspectTask \/ ListObjects
           \/ DeleteObject \/ Decide \/ DeleteKey \/ DeleteRows \/ UNCHANGED allVars
  BY <1>4, <1>6 DEF JobStep, ListJobs, CancelProcessing, InspectTask, ListObjects,
                    DeleteObject, Decide, DeleteKey, DeleteRows, allVars, imageVars
<1>7. ASSUME NEW p \in Procs, Start(p) PROVE UNCHANGED index
  BY <1>7 DEF Start, imageVars
<1>8. ASSUME NEW t \in Ids, NEW n \in Slots, StoreKey(t, n) \/ PutObject(t, n)
      PROVE  UNCHANGED index
  BY <1>8 DEF StoreKey, PutObject, imageVars
<1> QED BY <1>2, <1>3, <1>4, <1>5, <1>6, <1>7, <1>8 DEF CleanupNext, CleanerStep, CleanImages

-----------------------------------------------------------------------------

LEMMA CleanupInvariant == CleanupSpec => [](JobHalf /\ ImageHalf)
<1>1. CleanupInit => JobHalf /\ ImageHalf
  BY JobHalfInit, ImageHalfInit
<1>2. JobHalf /\ ImageHalf /\ [CleanupNext]_allVars => (JobHalf /\ ImageHalf)'
  BY JobHalfStep, ImageHalfStep, IndexType DEF ImageHalf
<1> QED BY <1>1, <1>2, PTL DEF CleanupSpec

\* A cleanup does to the renditions what the service may do at any time: copies
\* are forgotten.
LEMMA PurgeForgets ==
  ASSUME ImageInv, CleanImages
  PROVE  Promise!PromiseNext
<1>1. UNCHANGED <<request, refused>> /\ stored' \subseteq stored
  BY DEF CleanImages, ListImages, PurgeMemory, PurgeStored, DeleteIndex, imageVars
<1>2. \A p \in Procs : mem'[p] \subseteq mem[p]
  <2>1. mem \in [Procs -> SUBSET Images]
    BY DEF ImageInv, ImageTypeOK
  <2>2. CASE PurgeMemory
    <3>1. PICK i : mem' = [mem EXCEPT ![cleaner.proc] = mem[cleaner.proc] \ {i}]
      BY <2>2 DEF PurgeMemory
    <3> QED BY <2>1, <3>1
  <2>3. CASE ListImages \/ PurgeStored \/ DeleteIndex
    BY <2>3 DEF ListImages, PurgeStored, DeleteIndex, imageVars
  <2> QED BY <2>2, <2>3 DEF CleanImages
<1>3. Copies' \subseteq Copies
  BY <1>1, <1>2 DEF Copies
<1>4. Promise!Forget
  BY <1>1, <1>3 DEF Promise!Forget, AskedFor, AnsweredWith, FailedOn
<1> QED BY <1>4 DEF Promise!PromiseNext

LEMMA PromiseStepUnderCleanup ==
  ImageInv /\ [CleanupNext]_allVars => [Promise!PromiseNext]_(Promise!promises)
<1> SUFFICES ASSUME ImageInv, [CleanupNext]_allVars
             PROVE  [Promise!PromiseNext]_(Promise!promises)
  OBVIOUS
<1>1. CASE ImageStep
  BY <1>1, PromiseStep DEF ImageStep
<1>2. CASE CleanImages
  BY <1>2, PurgeForgets
<1>3. CASE UNCHANGED imageVars
  BY <1>3, PromiseStep
<1>4. CASE JobStep \/ ListJobs \/ CancelProcessing \/ InspectTask \/ ListObjects
           \/ DeleteObject \/ Decide \/ DeleteKey \/ DeleteRows \/ UNCHANGED allVars
  BY <1>3, <1>4 DEF JobStep, ListJobs, CancelProcessing, InspectTask, ListObjects,
                    DeleteObject, Decide, DeleteKey, DeleteRows, allVars
<1>5. ASSUME NEW p \in Procs, Start(p) PROVE UNCHANGED imageVars
  BY <1>5 DEF Start
<1>6. ASSUME NEW t \in Ids, NEW n \in Slots, StoreKey(t, n) \/ PutObject(t, n)
      PROVE  UNCHANGED imageVars
  BY <1>6 DEF StoreKey, PutObject
<1> QED BY <1>1, <1>2, <1>3, <1>4, <1>5, <1>6 DEF CleanupNext, CleanerStep

\* Type correctness of the whole: jobs, renditions and the cleanup.
THEOREM CleanupTypeCorrect == CleanupSpec => []CleanupTypeOK
<1>1. JobHalf /\ ImageHalf => CleanupTypeOK
  BY ImageInvMeans
     DEF JobHalf, ImageHalf, IdempotencyInv, TypeInv, CleanerTypeOK, CleanupTypeOK
<1> QED BY <1>1, CleanupInvariant, PTL

\* When cleaner.go has confirmed the media of a hash as gone, no object of a job
\* is left, and nothing that could put one, but for jobs that slipped.
THEOREM GoneIsGone == CleanupSpec => []ConfirmedIsGone
BY CleanupInvariant, JobHalfMeans, PTL

\* The records of what there is to clean are deleted last (the order of the stages
\* in cleaner.go), whatever fails before: the stream key and the rows after the
\* objects and the tasks of the jobs, the index after the cached copies.
THEOREM RecordsAreDeletedLast == CleanupSpec => RecordsGoLast /\ IndexGoesLast
<1>1. JobHalf /\ [CleanupNext]_allVars =>
        [(keyed /\ ~keyed') \/ (\E t \in Ids : RowExists(t) /\ row'[t] = NoRow)
           => \A t \in Ids : t \in objects \/ InQueue(t) => t \in slipped]_allVars
  BY RecordsStep
<1>2. ImageHalf /\ [CleanupNext]_allVars =>
        [\A i \in index \ index' : i \in stored' \cup mem'[cleaner.proc] => i \in excused']_allVars
  BY IndexStep
<1> QED BY <1>1, <1>2, CleanupInvariant, PTL DEF CleanupSpec, RecordsGoLast, IndexGoesLast

\* Every cached copy of a tracked source can be found by the next cleanup.
THEOREM CachedCopiesAreTracked == CleanupSpec => []CachedIsTracked
BY CleanupInvariant, ImageHalfMeans, PTL

\* Cleanups do not get in the way of idempotency: handler/job.go still has two
\* jobs for one request only if one of them failed, or their creations overlapped.
THEOREM IdempotencyUnderCleanup == CleanupSpec => []SequentialIdempotency
<1>1. JobHalf => SequentialIdempotency
  BY DEF JobHalf, IdempotencyInv
<1> QED BY <1>1, CleanupInvariant, PTL

\* Nor of the answers: purged caches serve nobody a wrong rendition, and no
\* request fails for another's client.
THEOREM AnswersUnderCleanup == CleanupSpec => [](AnswerIsRight /\ HangUpIsPrivate)
<1>1. ImageHalf => AnswerIsRight /\ HangUpIsPrivate
  BY ImageInvMeans DEF ImageHalf
<1> QED BY <1>1, CleanupInvariant, PTL

\* The promises of the image service hold for every client through cleanups, too:
\* what cleaner.go does to the caches is one of the things that may happen to them.
THEOREM PromisesUnderCleanup == CleanupSpec => KeepsPromise
<1>1. CleanupInit => Promise!PromiseInit
  BY PromiseBegins DEF CleanupInit
<1>2. CleanupSpec => []ImageInv
  <2>1. ImageHalf => ImageInv
    BY DEF ImageHalf
  <2> QED BY <2>1, CleanupInvariant, PTL
<1> QED BY <1>1, <1>2, PromiseStepUnderCleanup, PTL
       DEF CleanupSpec, KeepsPromise, Promise!PromiseSpec
=============================================================================
