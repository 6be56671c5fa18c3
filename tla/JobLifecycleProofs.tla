------------------------- MODULE JobLifecycleProofs -------------------------
(***************************************************************************)
(* What holds of JobLifecycle for any number of requests, ids, workers and *)
(* faults: type correctness, and the idempotency that is left of a check   *)
(* that is not atomic with the insert.                                     *)
(***************************************************************************)
EXTENDS JobLifecycle, SequenceTheorems, TLAPS

-----------------------------------------------------------------------------
(* The inductive invariant behind TypeOK.                                   *)

\* A request in progress has something left to create, and holds the id asynq
\* issued for it when it is about to insert the row.
Pursuing ==
  \A c \in Clients :
    /\ client[c].pc # "idle" => client[c].todo # << >>
    /\ client[c].pc = "insert" => client[c].id \in Ids

\* A row that says "failed" holds a retry plan.
FailedHasPlan == \A t \in Ids : row[t].status = "failed" => row[t].plan # << >>

\* Only a task that was issued is handled, and it knows its fingerprint.
HandledIsIssued ==
  \A t \in Ids :
    /\ task[t].state # "none" => task[t].fp \in Fps
    /\ \A n \in Slots : run[t][n] # "gone" => task[t].state # "none"

TypeInv == TypeOK /\ Pursuing /\ FailedHasPlan /\ HandledIsIssued

\* A request that is answered leaves nothing behind.
LEMMA IdleType == Idle \in Client /\ Idle.pc = "idle"
BY EmptySeq DEF Idle, Client

\* What is left of a list of requests after the first of them.
LEMMA RestOfList ==
  ASSUME NEW S, NEW s \in Seq(S), s # << >>
  PROVE  /\ Head(s) \in S
         /\ Tail(s) \in Seq(S)
         /\ Len(s) > 1 => Tail(s) # << >>
<1>1. Head(s) \in S /\ Tail(s) \in Seq(S) /\ Len(Tail(s)) = Len(s) - 1
  BY HeadTailProperties
<1>2. Len(<< >>) = 0 /\ Len(s) \in Nat
  BY EmptySeq, LenProperties
<1>3. ASSUME Len(s) > 1 PROVE Tail(s) # << >>
  <2>1. Len(Tail(s)) # 0
    BY <1>1, <1>2, <1>3
  <2> QED BY <1>2, <2>1
<1> QED BY <1>1, <1>3

\* Advancing to the next fingerprint, or being answered, keeps the request's type.
LEMMA AdvanceType ==
  ASSUME TypeOK, Pursuing, NEW c \in Clients, client[c].pc # "idle", Advance(c)
  PROVE  client' \in [Clients -> Client] /\ Pursuing'
<1>1. client[c] \in Client /\ client[c].todo \in Seq(Fps) /\ client[c].todo # << >>
  BY DEF TypeOK, Client, Pursuing
<1>2. /\ Tail(client[c].todo) \in Seq(Fps)
      /\ Len(client[c].todo) > 1 => Tail(client[c].todo) # << >>
  BY <1>1, RestOfList
<1>3. CASE Len(client[c].todo) > 1
  <2> DEFINE next == [client[c] EXCEPT !.pc = "check", !.todo = Tail(client[c].todo), !.id = NoId]
  <2>1. client' = [client EXCEPT ![c] = next]
    BY <1>3 DEF Advance
  <2>2. next \in Client /\ next.pc = "check" /\ next.todo # << >>
    BY <1>1, <1>2, <1>3 DEF Client
  <2> HIDE DEF next
  <2> QED BY <2>1, <2>2 DEF TypeOK, Pursuing
<1>4. CASE ~(Len(client[c].todo) > 1)
  <2>1. client' = [client EXCEPT ![c] = Idle]
    BY <1>4 DEF Advance
  <2> QED BY <2>1, IdleType DEF TypeOK, Pursuing
<1> QED BY <1>3, <1>4

\* So does going on to another step with the same fingerprint.
LEMMA PcType ==
  ASSUME TypeOK, Pursuing, NEW c \in Clients, client[c].pc # "idle",
         NEW s \in {"check", "enqueue"}, client' = [client EXCEPT ![c].pc = s]
  PROVE  /\ client' \in [Clients -> Client] /\ Pursuing'
         /\ client'[c].pc = s /\ client'[c].todo = client[c].todo
         /\ \A d \in Clients \ {c} : client'[d] = client[d]
<1> DEFINE new == [client[c] EXCEPT !.pc = s]
<1>1. client[c] \in Client /\ client[c].todo # << >>
  BY DEF TypeOK, Pursuing
<1>2. new \in Client /\ new.pc = s /\ new.todo = client[c].todo
  BY <1>1 DEF Client
<1>3. client' = [client EXCEPT ![c] = new]
  OBVIOUS
<1> HIDE DEF new
<1>4. client \in [Clients -> Client]
  BY DEF TypeOK
<1>5. client' \in [Clients -> Client] /\ client'[c] = new
      /\ \A d \in Clients \ {c} : client'[d] = client[d]
  BY <1>2, <1>3, <1>4
<1> QED BY <1>1, <1>2, <1>5 DEF Pursuing

\* So does an error answer.
LEMMA RejectType ==
  ASSUME TypeOK, Pursuing, NEW c \in Clients, Reject(c)
  PROVE  client' \in [Clients -> Client] /\ Pursuing'
BY IdleType DEF Reject, TypeOK, Pursuing

\* A delivery that failed leaves a task of the right type and fingerprint.
LEMMA FailType ==
  ASSUME TypeOK, NEW t \in Ids, Fail(t)
  PROVE  /\ task' \in [Ids -> Task]
         /\ \A u \in Ids : task'[u].fp = task[u].fp
         /\ task'[t].state # "none"
         /\ \A u \in Ids \ {t} : task'[u] = task[u]
<1>1. task[t] \in Task /\ task[t].retried \in Nat
  BY DEF TypeOK, Task
<1>2. PICK new \in Task : /\ task' = [task EXCEPT ![t] = new]
                          /\ new.fp = task[t].fp /\ new.state # "none"
  <2>1. CASE task[t].retried < MaxRetry[task[t].fp]
    <3> DEFINE more == task[t].retried + 1
               next == [task[t] EXCEPT !.state = "pending", !.slot = NoSlot, !.retried = more]
    <3>1. more \in Nat
      BY <1>1
    <3>2. task' = [task EXCEPT ![t] = next]
      BY <2>1 DEF Fail
    <3> HIDE DEF more
    <3>3. next \in Task /\ next.fp = task[t].fp /\ next.state # "none"
      BY <1>1, <3>1 DEF Task
    <3> HIDE DEF next
    <3> QED BY <3>2, <3>3
  <2>2. CASE ~(task[t].retried < MaxRetry[task[t].fp])
    <3> DEFINE next == [task[t] EXCEPT !.state = "archived", !.slot = NoSlot]
    <3>1. next \in Task /\ next.fp = task[t].fp /\ next.state # "none"
      BY <1>1 DEF Task
    <3>2. task' = [task EXCEPT ![t] = next]
      BY <2>2 DEF Fail
    <3> HIDE DEF next
    <3> QED BY <3>1, <3>2
  <2> QED BY <2>1, <2>2
<1> QED BY <1>2 DEF TypeOK

LEMMA FaultType ==
  ASSUME TypeOK, NEW k, Fault(k)
  PROVE  faults' \in 0 .. MaxFaults
BY FaultsAssumption DEF TypeOK, Fault

\* An UPDATE stores the new row or leaves the table alone.
LEMMA UpdateType ==
  ASSUME TypeOK, FailedHasPlan, NEW t \in Ids, NEW n \in Slots, NEW new \in Row,
         new.status = "failed" => new.plan # << >>,
         Update(t, n, new)
  PROVE  row' \in [Ids -> Row] /\ FailedHasPlan' /\ faults' \in 0 .. MaxFaults
<1>1. row' = row \/ row' = [row EXCEPT ![t] = new]
  BY DEF Update
<1>2. row' \in [Ids -> Row] /\ FailedHasPlan'
  BY <1>1 DEF TypeOK, FailedHasPlan
<1>3. faults' \in 0 .. MaxFaults
  BY FaultType DEF Update, TypeOK
<1> QED BY <1>2, <1>3

\* The goroutine of one handler moves, or ends.
LEMMA GotoType ==
  ASSUME TypeOK, NEW t \in Ids, NEW n \in Slots, NEW s \in RunSteps, Goto(t, n, s)
  PROVE  /\ run' \in [Ids -> [Slots -> RunSteps]] /\ expired' \subseteq Ids \X Slots
         /\ \A u \in Ids, m \in Slots : run'[u][m] = IF u = t /\ m = n THEN s ELSE run[u][m]
BY DEF TypeOK, Goto

LEMMA LeaveType ==
  ASSUME TypeOK, NEW t \in Ids, NEW n \in Slots, Leave(t, n)
  PROVE  /\ run' \in [Ids -> [Slots -> RunSteps]] /\ expired' \subseteq Ids \X Slots
         /\ \A u \in Ids, m \in Slots :
              run'[u][m] = IF u = t /\ m = n THEN "gone" ELSE run[u][m]
BY DEF TypeOK, Leave, RunSteps

LEMMA TypeInit == Init => TypeInv
BY FaultsAssumption, EmptySeq, IdleType
   DEF Init, TypeInv, TypeOK, Pursuing, FailedHasPlan, HandledIsIssued, Idle, NoTask,
       NoRow, Client, Task, Row, Statuses, RunSteps

LEMMA TypeStep == TypeInv /\ [Next]_vars => TypeInv'
<1> SUFFICES ASSUME TypeInv, [Next]_vars PROVE TypeInv'
  OBVIOUS
<1> USE DEF TypeInv
<1>1. ASSUME NEW c \in Clients, NEW f \in Fps, CreateRequest(c, f)
      PROVE  TypeInv'
  <2> DEFINE new == [Idle EXCEPT !.pc = "precheck", !.todo = <<f>>]
  <2>1. <<f>> \in Seq(Fps) /\ <<f>> # << >>
    OBVIOUS
  <2>2. new \in Client /\ new.pc = "precheck" /\ new.todo # << >>
    BY <2>1, IdleType DEF Client
  <2>3. client' = [client EXCEPT ![c] = new]
    BY <1>1 DEF CreateRequest
  <2> HIDE DEF new
  <2>4. client' \in [Clients -> Client] /\ Pursuing'
    BY <2>2, <2>3 DEF TypeOK, Pursuing
  <2> QED BY <1>1, <2>4 DEF CreateRequest, WorkerVars, TypeOK, FailedHasPlan, HandledIsIssued
<1>2. ASSUME NEW c \in Clients, PreCheck(c) PROVE TypeInv'
  <2>1. client' \in [Clients -> Client] /\ Pursuing' /\ faults' \in 0 .. MaxFaults
    <3>1. CASE Advance(c) /\ UNCHANGED faults
      BY <1>2, <3>1, AdvanceType DEF PreCheck, TypeOK
    <3>2. CASE client' = [client EXCEPT ![c].pc = "check"] /\ UNCHANGED faults
      BY <1>2, <3>2, PcType DEF PreCheck, TypeOK
    <3>3. CASE Fault("db") /\ Reject(c)
      BY <3>3, RejectType, FaultType
    <3> QED BY <1>2, <3>1, <3>2, <3>3 DEF PreCheck
  <2> QED BY <1>2, <2>1 DEF PreCheck, WorkerVars, TypeOK, FailedHasPlan, HandledIsIssued
<1>3. ASSUME NEW c \in Clients, NEW t \in Ids, Retry(c, t) PROVE TypeInv'
  <2> DEFINE new == [pc |-> "check", todo |-> row[t].plan, origin |-> t, id |-> NoId]
  <2>1. row[t].plan \in Seq(Fps) /\ row[t].plan # << >>
    BY <1>3 DEF Retry, TypeOK, Row, FailedHasPlan
  <2>2. new \in Client /\ new.pc = "check" /\ new.todo # << >>
    BY <2>1 DEF Client
  <2>3. client' = [client EXCEPT ![c] = new]
    BY <1>3 DEF Retry
  <2> HIDE DEF new
  <2>4. client' \in [Clients -> Client] /\ Pursuing'
    BY <2>2, <2>3 DEF TypeOK, Pursuing
  <2> QED BY <1>3, <2>4 DEF Retry, WorkerVars, TypeOK, FailedHasPlan, HandledIsIssued
<1>4. ASSUME NEW c \in Clients, Check(c) PROVE TypeInv'
  <2>1. client' \in [Clients -> Client] /\ Pursuing' /\ faults' \in 0 .. MaxFaults
    <3>1. CASE Advance(c) /\ UNCHANGED faults
      BY <1>4, <3>1, AdvanceType DEF Check, TypeOK
    <3>2. CASE client' = [client EXCEPT ![c].pc = "enqueue"] /\ UNCHANGED faults
      BY <1>4, <3>2, PcType DEF Check, TypeOK
    <3>3. CASE Fault("db") /\ Reject(c)
      BY <3>3, RejectType, FaultType
    <3> QED BY <1>4, <3>1, <3>2, <3>3 DEF Check
  <2> QED BY <1>4, <2>1 DEF Check, WorkerVars, TypeOK, FailedHasPlan, HandledIsIssued
<1>5. ASSUME NEW c \in Clients, EnqueueRefused(c) PROVE TypeInv'
  <2>1. client' \in [Clients -> Client] /\ Pursuing'
    BY <1>5, RejectType DEF EnqueueRefused
  <2> QED BY <1>5, <2>1
       DEF EnqueueRefused, WorkerVars, TypeOK, FailedHasPlan, HandledIsIssued
<1>6. ASSUME NEW c \in Clients, NEW t \in Ids, Enqueue(c, t) PROVE TypeInv'
  <2> DEFINE new == [NoTask EXCEPT !.state = "pending", !.fp = Head(client[c].todo)]
  <2>1. Head(client[c].todo) \in Fps
    BY <1>6, RestOfList DEF Enqueue, TypeOK, Client, Pursuing
  <2>2. new \in Task /\ new.fp \in Fps /\ new.state # "none"
    BY <2>1 DEF Task, NoTask
  <2>3. task' = [task EXCEPT ![t] = new]
    BY <1>6 DEF Enqueue
  <2> HIDE DEF new
  <2>4. task' \in [Ids -> Task] /\ HandledIsIssued'
    BY <1>6, <2>2, <2>3 DEF Enqueue, WorkerVars, TypeOK, HandledIsIssued
  <2>5. client' \in [Clients -> Client] /\ Pursuing'
    <3> DEFINE at == [client[c] EXCEPT !.pc = "insert", !.id = t]
    <3>1. client[c] \in Client /\ client[c].todo # << >>
      BY <1>6 DEF Enqueue, TypeOK, Pursuing
    <3>2. at \in Client /\ at.id \in Ids /\ at.todo # << >>
      BY <3>1 DEF Client
    <3>3. client' = [client EXCEPT ![c] = at]
      BY <1>6 DEF Enqueue
    <3> HIDE DEF at
    <3> QED BY <3>2, <3>3 DEF TypeOK, Pursuing
  <2> QED BY <1>6, <2>4, <2>5 DEF Enqueue, WorkerVars, TypeOK, FailedHasPlan
<1>7. ASSUME NEW c \in Clients, Insert(c) PROVE TypeInv'
  <2> DEFINE t == client[c].id
             new == [NoRow EXCEPT !.status = "queued", !.parent = client[c].origin]
  <2>1. t \in Ids /\ client[c].origin \in Ids \cup {NoId}
    BY <1>7 DEF Insert, TypeOK, Client, Pursuing
  <2>2. new \in Row /\ new.status = "queued"
    BY <2>1, EmptySeq DEF Row, NoRow, Statuses
  <2>3. row' = row \/ row' = [row EXCEPT ![t] = new]
    BY <1>7 DEF Insert
  <2>4. raced' \subseteq Ids /\ faults' \in 0 .. MaxFaults
    <3>1. raced' \in {raced, raced \cup {t}}
      BY <1>7 DEF Insert
    <3>2. faults' \in 0 .. MaxFaults
      BY <1>7, FaultType DEF Insert, TypeOK
    <3> QED BY <2>1, <3>1, <3>2 DEF TypeOK
  <2>5. client' \in [Clients -> Client] /\ Pursuing'
    BY <1>7, AdvanceType DEF Insert
  <2> HIDE DEF t, new
  <2>6. row' \in [Ids -> Row] /\ FailedHasPlan'
    BY <2>1, <2>2, <2>3 DEF TypeOK, FailedHasPlan
  <2> QED BY <1>7, <2>4, <2>5, <2>6 DEF Insert, WorkerVars, TypeOK, HandledIsIssued
<1>8. ASSUME NEW t \in Ids, NEW n \in Slots, Deliver(t, n) PROVE TypeInv'
  <2>1. run' \in [Ids -> [Slots -> RunSteps]] /\ expired' \subseteq Ids \X Slots
        /\ \A u \in Ids, m \in Slots :
             run'[u][m] = IF u = t /\ m = n THEN "start" ELSE run[u][m]
    BY <1>8, GotoType DEF Deliver, RunSteps
  <2>2. task' \in [Ids -> Task] /\ task'[t].state = "active"
        /\ \A u \in Ids : /\ task'[u].fp = task[u].fp
                          /\ u # t => task'[u] = task[u]
    <3> DEFINE next == [task[t] EXCEPT !.state = "active", !.slot = n]
    <3>1. next \in Task /\ next.fp = task[t].fp /\ next.state = "active"
      BY DEF TypeOK, Task
    <3>2. task' = [task EXCEPT ![t] = next]
      BY <1>8 DEF Deliver
    <3> HIDE DEF next
    <3> QED BY <3>1, <3>2 DEF TypeOK
  <2>3. task[t].state # "none"
    BY <1>8 DEF Deliver
  <2>4. HandledIsIssued'
    BY <2>1, <2>2, <2>3 DEF HandledIsIssued
  <2> QED BY <1>8, <2>1, <2>2, <2>4 DEF Deliver, TypeOK, Pursuing, FailedHasPlan
<1>9. ASSUME NEW t \in Ids, NEW n \in Slots, Expire(t, n) PROVE TypeInv'
  <2>1. faults' \in 0 .. MaxFaults
    BY <1>9, FaultType DEF Expire
  <2> QED BY <1>9, <2>1 DEF Expire, TypeOK, Pursuing, FailedHasPlan, HandledIsIssued
<1>10. ASSUME NEW t \in Ids, NEW n \in Slots, Abandon(t, n) \/ Recover(t, n)
       PROVE  TypeInv'
  <2>1. Fail(t) /\ task[t].state # "none"
    BY <1>10 DEF Abandon, Recover, Current
  <2>2. task' \in [Ids -> Task] /\ HandledIsIssued'
    BY <1>10, <2>1, FailType DEF Abandon, Recover, WorkerVars, HandledIsIssued
  <2> QED BY <1>10, <2>2
       DEF Abandon, Recover, WorkerVars, TypeOK, Pursuing, FailedHasPlan
<1>11. ASSUME NEW t \in Ids, NEW n \in Slots, Crash(t, n) \/ Exit(t, n)
       PROVE  TypeInv'
  <2>1. run' \in [Ids -> [Slots -> RunSteps]] /\ expired' \subseteq Ids \X Slots
        /\ \A u \in Ids, m \in Slots :
             run'[u][m] = IF u = t /\ m = n THEN "gone" ELSE run[u][m]
    BY <1>11, LeaveType DEF Crash, Exit
  <2>2. faults' \in 0 .. MaxFaults
    BY <1>11, FaultType DEF Crash, Exit, TypeOK
  <2>3. HandledIsIssued'
    BY <1>11, <2>1 DEF Crash, Exit, HandledIsIssued
  <2> QED BY <1>11, <2>1, <2>2, <2>3 DEF Crash, Exit, TypeOK, Pursuing, FailedHasPlan
<1>12. ASSUME NEW t \in Ids, NEW n \in Slots, Requeue(t, n) PROVE TypeInv'
  <2>1. faults' \in 0 .. MaxFaults
    BY <1>12, FaultType DEF Requeue
  <2>2. task' \in [Ids -> Task] /\ task'[t].state = "pending"
        /\ \A u \in Ids : /\ task'[u].fp = task[u].fp
                          /\ u # t => task'[u] = task[u]
    <3> DEFINE next == [task[t] EXCEPT !.state = "pending", !.slot = NoSlot]
    <3>1. next \in Task /\ next.fp = task[t].fp /\ next.state = "pending"
      BY DEF TypeOK, Task
    <3>2. task' = [task EXCEPT ![t] = next]
      BY <1>12 DEF Requeue
    <3> HIDE DEF next
    <3> QED BY <3>1, <3>2 DEF TypeOK
  <2>3. task[t].state # "none"
    BY <1>12 DEF Requeue, Current
  <2>4. HandledIsIssued'
    BY <1>12, <2>2, <2>3 DEF Requeue, WorkerVars, HandledIsIssued
  <2> QED BY <1>12, <2>1, <2>2, <2>4
       DEF Requeue, WorkerVars, TypeOK, Pursuing, FailedHasPlan
<1>13. ASSUME NEW t \in Ids, NEW n \in Slots, Handler(t, n) PROVE TypeInv'
  <2>1. run[t][n] # "gone" /\ task[t].state # "none" /\ task[t].fp \in Fps
    BY <1>13 DEF Handler, Begin, Succeed, Stumble, CompleteJob, FailJob, Ack, Nack,
                 HandledIsIssued
  <2>2. row[t] \in Row
    BY DEF TypeOK
  <2>3. ASSUME NEW s \in RunSteps, NEW new \in Row, Goto(t, n, s), Update(t, n, new),
               new.status = "failed" => new.plan # << >>, UNCHANGED <<client, task>>
        PROVE  /\ row' \in [Ids -> Row] /\ FailedHasPlan' /\ faults' \in 0 .. MaxFaults
               /\ run' \in [Ids -> [Slots -> RunSteps]] /\ expired' \subseteq Ids \X Slots
               /\ HandledIsIssued' /\ Pursuing'
    <3>1. row' \in [Ids -> Row] /\ FailedHasPlan' /\ faults' \in 0 .. MaxFaults
      BY <2>3, UpdateType
    <3>2. /\ run' \in [Ids -> [Slots -> RunSteps]] /\ expired' \subseteq Ids \X Slots
          /\ \A u \in Ids, m \in Slots : run'[u][m] = IF u = t /\ m = n THEN s ELSE run[u][m]
      BY <2>3, GotoType
    <3>3. HandledIsIssued' /\ Pursuing'
      BY <2>1, <2>3, <3>2 DEF HandledIsIssued, Pursuing
    <3> QED BY <3>1, <3>2, <3>3
  <2>4. CASE Begin(t, n)
    <3> DEFINE new == [row[t] EXCEPT !.status = "processing"]
    <3>1. new \in Row /\ new.status # "failed"
      BY <2>2 DEF Row, Statuses
    <3>2. Goto(t, n, "work") /\ Update(t, n, new) /\ UNCHANGED <<client, task>>
      BY <2>4 DEF Begin
    <3> HIDE DEF new
    <3> QED BY <2>3, <2>4, <3>1, <3>2 DEF Begin, RunSteps, TypeOK
  <2>5. CASE Succeed(t, n)
    <3> DEFINE new == [row[t] EXCEPT !.progress = 50]
    <3>1. new \in Row /\ (new.status = "failed" => new.plan # << >>)
      BY <2>2 DEF Row, FailedHasPlan
    <3>2. Goto(t, n, "complete") /\ Update(t, n, new) /\ UNCHANGED <<client, task>>
      BY <2>5 DEF Succeed
    <3> HIDE DEF new
    <3> QED BY <2>1, <2>3, <2>5, <3>1, <3>2 DEF Succeed, RunSteps, TypeOK
  <2>6. CASE Stumble(t, n)
    <3> DEFINE new == [row[t] EXCEPT !.progress = 50]
    <3>1. new \in Row /\ (new.status = "failed" => new.plan # << >>)
      BY <2>2 DEF Row, FailedHasPlan
    <3>2. Goto(t, n, "fail") /\ UNCHANGED <<client, task>>
      BY <2>6 DEF Stumble
    <3>3. CASE Update(t, n, new)
      <4> HIDE DEF new
      <4> QED BY <2>3, <2>6, <3>1, <3>2, <3>3 DEF Stumble, RunSteps, TypeOK
    <3>4. CASE UNCHANGED <<row, faults>>
      <4>1. /\ run' \in [Ids -> [Slots -> RunSteps]] /\ expired' \subseteq Ids \X Slots
            /\ \A u \in Ids, m \in Slots :
                 run'[u][m] = IF u = t /\ m = n THEN "fail" ELSE run[u][m]
        BY <3>2, GotoType DEF RunSteps
      <4> QED BY <2>1, <2>6, <3>2, <3>4, <4>1
           DEF Stumble, TypeOK, Pursuing, FailedHasPlan, HandledIsIssued
    <3> QED BY <2>6, <3>3, <3>4 DEF Stumble
  <2>7. CASE CompleteJob(t, n)
    <3> DEFINE new == [row[t] EXCEPT !.status = "completed", !.progress = 100]
    <3>1. new \in Row /\ new.status # "failed"
      BY <2>2 DEF Row, Statuses
    <3>2. Goto(t, n, "ack") /\ Update(t, n, new) /\ UNCHANGED <<client, task>>
      BY <2>7 DEF CompleteJob
    <3> HIDE DEF new
    <3> QED BY <2>3, <2>7, <3>1, <3>2 DEF CompleteJob, RunSteps, TypeOK
  <2>8. CASE FailJob(t, n)
    <3>1. PICK p \in Plans[task[t].fp] :
            Update(t, n, [row[t] EXCEPT !.status = "failed", !.plan = p])
      BY <2>8 DEF FailJob
    <3> DEFINE new == [row[t] EXCEPT !.status = "failed", !.plan = p]
    <3>2. p \in Seq(Fps) /\ p # << >>
      BY <2>1, <3>1, PlansAssumption
    <3>3. new \in Row /\ new.plan # << >>
      BY <2>2, <3>2 DEF Row, Statuses
    <3>4. Goto(t, n, "nack") /\ Update(t, n, new) /\ UNCHANGED <<client, task>>
      BY <2>8, <3>1 DEF FailJob
    <3> HIDE DEF new
    <3> QED BY <2>3, <2>8, <3>3, <3>4 DEF FailJob, RunSteps, TypeOK
  <2>9. CASE Ack(t, n) \/ Nack(t, n)
    <3>1. /\ run' \in [Ids -> [Slots -> RunSteps]] /\ expired' \subseteq Ids \X Slots
          /\ \A u \in Ids, m \in Slots :
               run'[u][m] = IF u = t /\ m = n THEN "gone" ELSE run[u][m]
      BY <2>9, LeaveType DEF Ack, Nack
    <3>2. /\ task' \in [Ids -> Task] /\ task'[t].state # "none"
          /\ \A u \in Ids : /\ task'[u].fp = task[u].fp
                            /\ u # t => task'[u] = task[u]
      <4>1. CASE task' = task
        BY <2>1, <4>1 DEF TypeOK
      <4>2. CASE task' = [task EXCEPT ![t].state = "done", ![t].slot = NoSlot]
        <5> DEFINE next == [task[t] EXCEPT !.state = "done", !.slot = NoSlot]
        <5>1. next \in Task /\ next.fp = task[t].fp /\ next.state # "none"
          BY DEF TypeOK, Task
        <5>2. task' = [task EXCEPT ![t] = next]
          BY <4>2
        <5> HIDE DEF next
        <5> QED BY <5>1, <5>2 DEF TypeOK
      <4>3. CASE Fail(t)
        BY <4>3, FailType
      <4> QED BY <2>9, <4>1, <4>2, <4>3 DEF Ack, Nack
    <3>3. HandledIsIssued'
      BY <2>1, <3>1, <3>2 DEF HandledIsIssued
    <3> QED BY <2>9, <3>1, <3>2, <3>3 DEF Ack, Nack, TypeOK, Pursuing, FailedHasPlan
  <2> QED BY <1>13, <2>4, <2>5, <2>6, <2>7, <2>8, <2>9 DEF Handler
<1>14. CASE UNCHANGED vars
  BY <1>14 DEF vars, TypeOK, Pursuing, FailedHasPlan, HandledIsIssued
<1> QED
  BY <1>1, <1>2, <1>3, <1>4, <1>5, <1>6, <1>7, <1>8, <1>9, <1>10, <1>11, <1>12, <1>13, <1>14
     DEF Next, Api, Queue, Environment

\* Every variable keeps its type, whatever the requests, the workers and the
\* faults do.
THEOREM TypeCorrect == Spec => []TypeOK
<1>1. TypeInv => TypeOK
  BY DEF TypeInv
<1> QED BY <1>1, TypeInit, TypeStep, PTL DEF Spec

-----------------------------------------------------------------------------
(* The inductive invariant behind SequentialIdempotency.                    *)

\* A request about to insert a row owns the task it enqueued for it: nobody else
\* is going to insert that row.
InsertOwnsTask ==
  \A c \in Clients : client[c].pc = "insert" =>
    /\ task[client[c].id].state # "none"
    /\ task[client[c].id].fp = Head(client[c].todo)
    /\ ~RowExists(client[c].id)
    /\ \A d \in Clients : d # c /\ client[d].pc = "insert" => client[d].id # client[c].id

\* Rows belong to tasks that were issued.
RowHasTask == \A t \in Ids : RowExists(t) => task[t].state # "none"

FailedIsRemembered == \A t \in Ids : row[t].status = "failed" => t \in failedOnce

\* A request that found no active job, and has not inserted its own, has seen
\* every row for its fingerprint that never failed inserted behind its back.
UnseenIsRaced ==
  \A c \in Clients : client[c].pc \in {"enqueue", "insert"} =>
    \A t \in Ids : /\ RowExists(t) /\ task[t].fp = Head(client[c].todo)
                   /\ t \notin failedOnce
                   => t \in raced

IdempotencyInv ==
  /\ TypeInv /\ InsertOwnsTask /\ RowHasTask /\ FailedIsRemembered /\ UnseenIsRaced
  /\ SequentialIdempotency

\* A step of a worker, of asynq or of the environment: no row appears or goes
\* away, no task changes its fingerprint.
WorkerStep ==
  /\ UNCHANGED <<client, raced>>
  /\ failedOnce \subseteq failedOnce'
  /\ \A t \in Ids :
       /\ task'[t].fp = task[t].fp
       /\ task[t].state # "none" => task'[t].state # "none"
       /\ row[t].status = "none" <=> row'[t].status = "none"
       /\ row'[t].status = "failed" => t \in failedOnce'

LEMMA WorkerStepIsSafe ==
  ASSUME IdempotencyInv, TypeInv', WorkerStep
  PROVE  IdempotencyInv'
<1> USE DEF IdempotencyInv, WorkerStep, RowExists
<1>1. InsertOwnsTask'
  BY DEF InsertOwnsTask, TypeInv, Pursuing
<1>2. RowHasTask' /\ FailedIsRemembered'
  BY DEF RowHasTask, FailedIsRemembered
<1>3. UnseenIsRaced'
  BY DEF UnseenIsRaced
<1>4. SequentialIdempotency'
  BY DEF SequentialIdempotency
<1> QED BY <1>1, <1>2, <1>3, <1>4

\* A request takes a step that neither enqueues nor inserts anything.
ApiStep(c) ==
  /\ UNCHANGED <<task, row, failedOnce, raced>>
  /\ client'[c].pc \notin {"enqueue", "insert"}
  /\ \A d \in Clients \ {c} : client'[d] = client[d]

LEMMA ApiStepIsSafe ==
  ASSUME IdempotencyInv, TypeInv', NEW c \in Clients, ApiStep(c)
  PROVE  IdempotencyInv'
<1> USE DEF IdempotencyInv, ApiStep, RowExists
<1>1. InsertOwnsTask'
  BY DEF InsertOwnsTask
<1>2. RowHasTask' /\ FailedIsRemembered' /\ SequentialIdempotency'
  BY DEF RowHasTask, FailedIsRemembered, SequentialIdempotency
<1>3. UnseenIsRaced'
  BY DEF UnseenIsRaced
<1> QED BY <1>1, <1>2, <1>3

\* What Advance and Reject do to the request itself and to the others.
LEMMA AdvanceMoves ==
  ASSUME TypeInv, NEW c \in Clients, Advance(c) \/ Reject(c)
  PROVE  /\ client'[c].pc \notin {"enqueue", "insert"}
         /\ \A d \in Clients \ {c} : client'[d] = client[d]
<1> DEFINE next == [client[c] EXCEPT !.pc = "check", !.todo = Tail(client[c].todo), !.id = NoId]
<1>1. next.pc = "check"
  BY DEF TypeInv, TypeOK, Client
<1>2. client' \in {[client EXCEPT ![c] = next], [client EXCEPT ![c] = Idle]}
  BY DEF Advance, Reject
<1> HIDE DEF next
<1> QED BY <1>1, <1>2, IdleType DEF TypeInv, TypeOK

\* What an UPDATE does to the rows: none appears, and the status of the handler's
\* own row is the old one or the one it stores.
LEMMA UpdateStatus ==
  ASSUME TypeInv, NEW t \in Ids, NEW n \in Slots, NEW new, Update(t, n, new),
         new.status # "none" \/ new.status = row[t].status
  PROVE  \A u \in Ids : /\ row[u].status = "none" <=> row'[u].status = "none"
                        /\ row'[u].status \in {row[u].status, new.status}
                        /\ u # t => row'[u].status = row[u].status
BY DEF Update, RowExists, TypeInv, TypeOK

LEMMA HandlerIsWorkerStep ==
  ASSUME IdempotencyInv, NEW t \in Ids, NEW n \in Slots, Handler(t, n)
  PROVE  WorkerStep
<1> USE DEF IdempotencyInv
<1>1. row[t] \in Row
  BY DEF TypeInv, TypeOK
<1>2. CASE Begin(t, n)
  <2> DEFINE new == [row[t] EXCEPT !.status = "processing"]
  <2>1. new.status = "processing"
    BY <1>1 DEF Row
  <2>2. Update(t, n, new) /\ UNCHANGED <<client, task, failedOnce, raced>>
    BY <1>2 DEF Begin
  <2> HIDE DEF new
  <2> QED BY <2>1, <2>2, UpdateStatus DEF WorkerStep, FailedIsRemembered
<1>3. CASE Succeed(t, n) \/ Stumble(t, n)
  <2> DEFINE new == [row[t] EXCEPT !.progress = 50]
  <2>1. new.status = row[t].status
    BY <1>1 DEF Row
  <2>2. Update(t, n, new) \/ UNCHANGED row
    BY <1>3 DEF Succeed, Stumble
  <2>3. UNCHANGED <<client, task, failedOnce, raced>>
    BY <1>3 DEF Succeed, Stumble
  <2> HIDE DEF new
  <2> QED BY <2>1, <2>2, <2>3, UpdateStatus DEF WorkerStep, FailedIsRemembered
<1>4. CASE CompleteJob(t, n)
  <2> DEFINE new == [row[t] EXCEPT !.status = "completed", !.progress = 100]
  <2>1. new.status = "completed"
    BY <1>1 DEF Row
  <2>2. Update(t, n, new) /\ UNCHANGED <<client, task, failedOnce, raced>>
    BY <1>4 DEF CompleteJob
  <2> HIDE DEF new
  <2> QED BY <2>1, <2>2, UpdateStatus DEF WorkerStep, FailedIsRemembered
<1>5. CASE FailJob(t, n)
  <2>1. PICK p \in Plans[task[t].fp] :
          Update(t, n, [row[t] EXCEPT !.status = "failed", !.plan = p])
    BY <1>5 DEF FailJob
  <2> DEFINE new == [row[t] EXCEPT !.status = "failed", !.plan = p]
  <2>2. new.status = "failed"
    BY <1>1 DEF Row
  <2>3. /\ Update(t, n, new) /\ UNCHANGED <<client, task, raced>>
        /\ failedOnce' = failedOnce \cup {u \in Ids : row'[u].status = "failed"}
    BY <1>5, <2>1 DEF FailJob
  <2> HIDE DEF new
  <2> QED BY <2>2, <2>3, UpdateStatus DEF WorkerStep
<1>6. CASE Ack(t, n) \/ Nack(t, n)
  <2>1. /\ task[t].state # "none" => task'[t].state # "none"
        /\ \A u \in Ids : /\ task'[u].fp = task[u].fp
                          /\ u # t => task'[u] = task[u]
    <3>1. CASE task' = [task EXCEPT ![t].state = "done", ![t].slot = NoSlot]
      BY <3>1 DEF TypeInv, TypeOK, Task
    <3>2. CASE Fail(t)
      BY <3>2, FailType DEF TypeInv
    <3> QED BY <1>6, <3>1, <3>2 DEF Ack, Nack
  <2>2. UNCHANGED <<client, row, failedOnce, raced>>
    BY <1>6 DEF Ack, Nack
  <2> QED BY <2>1, <2>2 DEF WorkerStep, FailedIsRemembered
<1> QED BY <1>2, <1>3, <1>4, <1>5, <1>6 DEF Handler

LEMMA QueueIsWorkerStep ==
  ASSUME IdempotencyInv, NEW t \in Ids, NEW n \in Slots,
         Deliver(t, n) \/ Abandon(t, n) \/ Recover(t, n) \/ Environment(t, n)
  PROVE  WorkerStep
<1>1. UNCHANGED <<client, row, failedOnce, raced>>
  BY DEF Deliver, Abandon, Recover, Environment, Expire, Crash, Requeue, Exit
<1>2. \A u \in Ids : /\ task'[u].fp = task[u].fp
                     /\ task[u].state # "none" => task'[u].state # "none"
  <2>1. CASE Fail(t)
    BY <2>1, FailType DEF IdempotencyInv, TypeInv
  <2>2. CASE Deliver(t, n) \/ Requeue(t, n)
    <3>1. PICK new : task' = [task EXCEPT ![t] = new] /\ new.fp = task[t].fp /\ new.state # "none"
      <4>1. task[t] \in Task
        BY DEF IdempotencyInv, TypeInv, TypeOK
      <4>2. CASE Deliver(t, n)
        <5> DEFINE next == [task[t] EXCEPT !.state = "active", !.slot = n]
        <5>1. task' = [task EXCEPT ![t] = next]
          BY <4>2 DEF Deliver
        <5>2. next.fp = task[t].fp /\ next.state = "active"
          BY <4>1 DEF Task
        <5> QED BY <5>1, <5>2
      <4>3. CASE Requeue(t, n)
        <5> DEFINE next == [task[t] EXCEPT !.state = "pending", !.slot = NoSlot]
        <5>1. task' = [task EXCEPT ![t] = next]
          BY <4>3 DEF Requeue
        <5>2. next.fp = task[t].fp /\ next.state = "pending"
          BY <4>1 DEF Task
        <5> QED BY <5>1, <5>2
      <4> QED BY <2>2, <4>2, <4>3
    <3> QED BY <3>1 DEF IdempotencyInv, TypeInv, TypeOK
  <2>3. CASE UNCHANGED task
    BY <2>3
  <2> QED BY <2>1, <2>2, <2>3
       DEF Abandon, Recover, Environment, Expire, Crash, Exit
<1> QED BY <1>1, <1>2 DEF WorkerStep, IdempotencyInv, FailedIsRemembered

LEMMA IdempotencyInit == Init => IdempotencyInv
BY TypeInit, IdleType
   DEF Init, IdempotencyInv, InsertOwnsTask, RowHasTask, FailedIsRemembered, UnseenIsRaced,
       SequentialIdempotency, RowExists, NoRow, NoTask, Idle

LEMMA IdempotencyStep == IdempotencyInv /\ [Next]_vars => IdempotencyInv'
<1> SUFFICES ASSUME IdempotencyInv, [Next]_vars PROVE IdempotencyInv'
  OBVIOUS
<1>0. TypeInv /\ TypeInv'
  BY TypeStep DEF IdempotencyInv
<1>1. ASSUME NEW c \in Clients,
             (\E f \in Fps : CreateRequest(c, f)) \/ PreCheck(c)
             \/ (\E t \in Ids : Retry(c, t)) \/ EnqueueRefused(c)
      PROVE  IdempotencyInv'
  <2>1. UNCHANGED <<task, row, failedOnce, raced>>
    BY <1>1 DEF CreateRequest, PreCheck, Retry, EnqueueRefused
  <2>2. /\ client'[c].pc \notin {"enqueue", "insert"}
        /\ \A d \in Clients \ {c} : client'[d] = client[d]
    <3>1. CASE Advance(c) \/ Reject(c)
      BY <1>0, <3>1, AdvanceMoves
    <3>2. ASSUME NEW f \in Fps, CreateRequest(c, f)
          PROVE  /\ client'[c].pc = "precheck"
                 /\ \A d \in Clients \ {c} : client'[d] = client[d]
      BY <1>0, <3>2 DEF CreateRequest, Idle, TypeInv, TypeOK
    <3>3. ASSUME NEW t \in Ids, Retry(c, t)
          PROVE  /\ client'[c].pc = "check"
                 /\ \A d \in Clients \ {c} : client'[d] = client[d]
      BY <1>0, <3>3 DEF Retry, TypeInv, TypeOK
    <3>4. ASSUME client' = [client EXCEPT ![c].pc = "check"]
          PROVE  /\ client'[c].pc = "check"
                 /\ \A d \in Clients \ {c} : client'[d] = client[d]
      BY <1>0, <3>4 DEF TypeInv, TypeOK, Client
    <3> QED BY <1>1, <3>1, <3>2, <3>3, <3>4 DEF PreCheck, EnqueueRefused
  <2> QED BY <1>0, <2>1, <2>2, ApiStepIsSafe DEF ApiStep
<1>2. ASSUME NEW c \in Clients, Check(c) PROVE IdempotencyInv'
  <2>1. UNCHANGED <<task, row, failedOnce, raced>>
    BY <1>2 DEF Check
  <2>2. CASE Advance(c) \/ Reject(c)
    BY <1>0, <2>1, <2>2, AdvanceMoves, ApiStepIsSafe DEF ApiStep
  <2>3. CASE ~(Advance(c) \/ Reject(c))
    <3>1. /\ Active(Head(client[c].todo)) = {}
          /\ client' = [client EXCEPT ![c].pc = "enqueue"]
      BY <1>2, <2>3 DEF Check
    <3>2. /\ client'[c].pc = "enqueue" /\ client'[c].todo = client[c].todo
          /\ \A d \in Clients \ {c} : client'[d] = client[d]
      BY <1>0, <1>2, <3>1, PcType DEF Check, TypeInv
    <3>3. \A t \in Ids : RowExists(t) /\ task[t].fp = Head(client[c].todo)
            => t \in failedOnce
      BY <3>1 DEF Active, IdempotencyInv, FailedIsRemembered
    <3>4. UnseenIsRaced'
      BY <2>1, <3>2, <3>3 DEF IdempotencyInv, UnseenIsRaced, RowExists
    <3>5. InsertOwnsTask'
      BY <2>1, <3>2 DEF IdempotencyInv, InsertOwnsTask, RowExists
    <3> QED BY <1>0, <2>1, <3>4, <3>5
         DEF IdempotencyInv, RowHasTask, FailedIsRemembered, SequentialIdempotency, RowExists
  <2> QED BY <2>2, <2>3
<1>3. ASSUME NEW c \in Clients, NEW t \in Ids, Enqueue(c, t) PROVE IdempotencyInv'
  <2> DEFINE new == [NoTask EXCEPT !.state = "pending", !.fp = Head(client[c].todo)]
  <2>1. /\ client'[c].pc = "insert" /\ client'[c].id = t
        /\ client'[c].todo = client[c].todo
        /\ \A d \in Clients \ {c} : client'[d] = client[d]
    <3> DEFINE at == [client[c] EXCEPT !.pc = "insert", !.id = t]
    <3>1. at.pc = "insert" /\ at.id = t /\ at.todo = client[c].todo
      BY <1>0 DEF TypeInv, TypeOK, Client
    <3>2. client' = [client EXCEPT ![c] = at]
      BY <1>3 DEF Enqueue
    <3> HIDE DEF at
    <3> QED BY <1>0, <3>1, <3>2 DEF TypeInv, TypeOK
  <2>2. new.fp = Head(client[c].todo) /\ new.state # "none"
    BY DEF NoTask
  <2>3. task' = [task EXCEPT ![t] = new]
    BY <1>3 DEF Enqueue
  <2> HIDE DEF new
  <2>4. /\ task'[t].fp = Head(client[c].todo) /\ task'[t].state # "none"
        /\ \A u \in Ids \ {t} : task'[u] = task[u]
    BY <1>0, <2>2, <2>3 DEF TypeInv, TypeOK
  <2>5. task[t].state = "none" /\ ~RowExists(t) /\ UNCHANGED <<row, failedOnce, raced>>
    BY <1>3 DEF Enqueue, IdempotencyInv, RowHasTask
  <2>6. InsertOwnsTask'
    BY <1>0, <2>1, <2>4, <2>5
       DEF IdempotencyInv, InsertOwnsTask, RowExists, TypeInv, Pursuing
  <2>7. UnseenIsRaced'
    <3>1. client[c].pc = "enqueue"
      BY <1>3 DEF Enqueue
    <3>2. UnseenIsRaced
      BY DEF IdempotencyInv
    <3>3. \A u \in Ids : RowExists(u)' => u # t /\ RowExists(u) /\ task'[u] = task[u]
      BY <2>4, <2>5 DEF RowExists
    <3> QED BY <2>1, <2>5, <3>1, <3>2, <3>3 DEF UnseenIsRaced
  <2>8. RowHasTask' /\ FailedIsRemembered' /\ SequentialIdempotency'
    BY <2>4, <2>5
       DEF IdempotencyInv, RowHasTask, FailedIsRemembered, SequentialIdempotency, RowExists
  <2> QED BY <1>0, <2>6, <2>7, <2>8 DEF IdempotencyInv
<1>4. ASSUME NEW c \in Clients, Insert(c) PROVE IdempotencyInv'
  <2> DEFINE t == client[c].id
             new == [NoRow EXCEPT !.status = "queued", !.parent = client[c].origin]
  <2>1. UNCHANGED <<task, failedOnce>> /\ client[c].pc = "insert" /\ Advance(c)
    BY <1>4 DEF Insert
  <2>2. /\ client'[c].pc \notin {"enqueue", "insert"}
        /\ \A d \in Clients \ {c} : client'[d] = client[d]
    BY <1>0, <2>1, AdvanceMoves
  <2>3. CASE UNCHANGED <<row, raced>>
    BY <1>0, <2>1, <2>2, <2>3, ApiStepIsSafe DEF ApiStep
  <2>4. CASE /\ row' = [row EXCEPT ![t] = new]
             /\ raced' = IF Rival(c, task[t].fp) THEN raced \cup {t} ELSE raced
    <3>1. /\ t \in Ids /\ ~RowExists(t) /\ task[t].state # "none"
          /\ task[t].fp = Head(client[c].todo)
      BY <2>1 DEF IdempotencyInv, TypeInv, Pursuing, InsertOwnsTask
    <3>2. new.status = "queued"
      BY DEF NoRow
    <3> HIDE DEF new
    <3>3. /\ row'[t].status = "queued"
          /\ \A u \in Ids \ {t} : row'[u] = row[u]
      BY <1>0, <2>4, <3>1, <3>2 DEF TypeInv, TypeOK
    <3>4. /\ raced \subseteq raced'
          /\ Rival(c, task[t].fp) => t \in raced'
      BY <2>4
    <3>5. \A u \in Ids : /\ RowExists(u) /\ task[u].fp = task[t].fp
                         /\ u \notin failedOnce
                         => u \in raced
      BY <2>1, <3>1 DEF IdempotencyInv, UnseenIsRaced
    <3>6. InsertOwnsTask'
      <4> SUFFICES ASSUME NEW d \in Clients, client'[d].pc = "insert"
                   PROVE  /\ task'[client'[d].id].state # "none"
                          /\ task'[client'[d].id].fp = Head(client'[d].todo)
                          /\ ~RowExists(client[d].id)'
                          /\ \A e \in Clients : e # d /\ client'[e].pc = "insert"
                               => client'[e].id # client'[d].id
        BY DEF InsertOwnsTask
      <4>1. d # c /\ client'[d] = client[d] /\ client[d].id # t /\ client[d].id \in Ids
        BY <2>1, <2>2 DEF IdempotencyInv, InsertOwnsTask, TypeInv, Pursuing
      <4>2. ~RowExists(client[d].id)'
        BY <3>3, <4>1 DEF IdempotencyInv, InsertOwnsTask, RowExists
      <4> QED BY <2>1, <2>2, <4>1, <4>2 DEF IdempotencyInv, InsertOwnsTask
    <3>7. UnseenIsRaced'
      <4> SUFFICES ASSUME NEW d \in Clients, client'[d].pc \in {"enqueue", "insert"},
                          NEW u \in Ids, row'[u].status # "none",
                          task'[u].fp = Head(client'[d].todo), u \notin failedOnce'
                   PROVE  u \in raced'
        BY DEF UnseenIsRaced, RowExists
      <4>1. d # c /\ client'[d] = client[d]
        BY <2>2
      <4>2. CASE u = t
        BY <2>1, <3>4, <4>1, <4>2 DEF Rival
      <4>3. CASE u # t
        BY <2>1, <3>3, <3>4, <4>1, <4>3 DEF IdempotencyInv, UnseenIsRaced, RowExists
      <4> QED BY <4>2, <4>3
    <3>8. SequentialIdempotency'
      <4> SUFFICES ASSUME NEW u \in Ids, NEW v \in Ids, u # v,
                          row'[u].status # "none", row'[v].status # "none",
                          task'[u].fp = task'[v].fp,
                          {u, v} \cap failedOnce' = {}
                   PROVE  {u, v} \cap raced' # {}
        BY DEF SequentialIdempotency, RowExists
      <4>1. CASE u = t
        BY <2>1, <3>3, <3>4, <3>5, <4>1 DEF RowExists
      <4>2. CASE v = t
        BY <2>1, <3>3, <3>4, <3>5, <4>2 DEF RowExists
      <4>3. CASE u # t /\ v # t
        <5>1. {u, v} \cap raced # {}
          BY <2>1, <3>3, <4>3 DEF IdempotencyInv, SequentialIdempotency, RowExists
        <5> QED BY <3>4, <5>1
      <4> QED BY <4>1, <4>2, <4>3
    <3>9. RowHasTask' /\ FailedIsRemembered'
      BY <2>1, <3>1, <3>3 DEF IdempotencyInv, RowHasTask, FailedIsRemembered, RowExists
    <3> QED BY <1>0, <3>6, <3>7, <3>8, <3>9 DEF IdempotencyInv
  <2> QED BY <1>4, <2>3, <2>4 DEF Insert
<1>5. ASSUME NEW t \in Ids, NEW n \in Slots, Handler(t, n) PROVE IdempotencyInv'
  BY <1>0, <1>5, HandlerIsWorkerStep, WorkerStepIsSafe
<1>6. ASSUME NEW t \in Ids, NEW n \in Slots,
             Deliver(t, n) \/ Abandon(t, n) \/ Recover(t, n) \/ Environment(t, n)
      PROVE  IdempotencyInv'
  BY <1>0, <1>6, QueueIsWorkerStep, WorkerStepIsSafe
<1>7. CASE UNCHANGED vars
  <2>1. WorkerStep
    BY <1>7 DEF vars, WorkerStep, IdempotencyInv, FailedIsRemembered
  <2> QED BY <1>0, <2>1, WorkerStepIsSafe
<1> QED BY <1>1, <1>2, <1>3, <1>4, <1>5, <1>6, <1>7 DEF Next, Api, Queue

LEMMA IdempotencyInvariant == Spec => []IdempotencyInv
BY IdempotencyInit, IdempotencyStep, PTL DEF Spec

\* createOrReuseJob, however many requests are in it at once: two jobs for one
\* request exist only if one of them has failed or their creations overlapped.
THEOREM Idempotency == Spec => []SequentialIdempotency
<1>1. IdempotencyInv => SequentialIdempotency
  BY DEF IdempotencyInv
<1> QED BY <1>1, IdempotencyInvariant, PTL

-----------------------------------------------------------------------------
(* The inductive invariant behind AnnouncedIsUploaded.                      *)

\* A handler that is about to report success has uploaded everything, and what
\* was reported is about a task that was issued.
UploadInv ==
  /\ \A t \in Ids : \A n \in Slots : run[t][n] = "complete" => task[t].fp \in media
  /\ \A t \in Ids : <<t, "completed">> \in announced => task[t].state # "none"
  /\ AnnouncedIsUploaded

\* Nothing takes outputs away, and an issued task keeps its fingerprint.
OutputsStay ==
  /\ media \subseteq media'
  /\ \A t \in Ids : task[t].state # "none" =>
       task'[t].fp = task[t].fp /\ task'[t].state # "none"

\* A step keeps UploadInv if no handler gets to report success by it, and it
\* reports none.
LEMMA UnreportedIsSafe ==
  ASSUME IdempotencyInv, UploadInv, OutputsStay,
         \A t \in Ids : \A n \in Slots : run'[t][n] = "complete" => run[t][n] = "complete",
         \A t \in Ids : row'[t].status = "completed" => row[t].status = "completed",
         announced' \cap (Ids \X {"completed"}) \subseteq announced
  PROVE  UploadInv'
<1>1. \A t \in Ids : \A n \in Slots : run[t][n] = "complete" => task[t].state # "none"
  BY DEF IdempotencyInv, TypeInv, HandledIsIssued
<1>2. \A t \in Ids : row[t].status = "completed" => task[t].state # "none"
  BY DEF IdempotencyInv, RowHasTask, RowExists
<1> QED BY <1>1, <1>2 DEF UploadInv, OutputsStay, AnnouncedIsUploaded

LEMMA UploadStep == IdempotencyInv /\ UploadInv /\ [Next]_vars => UploadInv'
<1> SUFFICES ASSUME IdempotencyInv, UploadInv, [Next]_vars PROVE UploadInv'
  OBVIOUS
<1>0. TypeInv
  BY DEF IdempotencyInv
<1>1. ASSUME NEW c \in Clients,
             (\E f \in Fps : CreateRequest(c, f)) \/ (\E t \in Ids : Retry(c, t)) \/ Api(c)
      PROVE  UploadInv'
  <2>1. UNCHANGED <<run, media, announced>>
    BY <1>1 DEF CreateRequest, Retry, Api, PreCheck, Check, EnqueueRefused, Enqueue, Insert,
                WorkerVars
  <2>2. OutputsStay
    <3>1. CASE \E t \in Ids : Enqueue(c, t)
      BY <1>0, <2>1, <3>1 DEF Enqueue, OutputsStay, TypeInv, TypeOK
    <3>2. CASE UNCHANGED task
      BY <2>1, <3>2 DEF OutputsStay
    <3> QED BY <1>1, <3>1, <3>2
         DEF CreateRequest, Retry, Api, PreCheck, Check, EnqueueRefused, Insert
  <2>3. \A t \in Ids : row'[t].status = "completed" => row[t].status = "completed"
    <3>1. CASE Insert(c)
      <4> DEFINE new == [NoRow EXCEPT !.status = "queued", !.parent = client[c].origin]
      <4>1. new.status = "queued"
        BY DEF NoRow
      <4>2. row' = row \/ row' = [row EXCEPT ![client[c].id] = new]
        BY <3>1 DEF Insert
      <4> HIDE DEF new
      <4> QED BY <1>0, <4>1, <4>2 DEF TypeInv, TypeOK
    <3>2. CASE UNCHANGED row
      BY <3>2
    <3> QED BY <1>1, <3>1, <3>2
         DEF CreateRequest, Retry, Api, PreCheck, Check, EnqueueRefused, Enqueue
  <2> QED BY <2>1, <2>2, <2>3, UnreportedIsSafe
<1>2. ASSUME NEW t \in Ids, NEW n \in Slots,
             Deliver(t, n) \/ Abandon(t, n) \/ Recover(t, n) \/ Environment(t, n)
      PROVE  UploadInv'
  <2>1. UNCHANGED <<row, media, announced>>
    BY <1>2 DEF Deliver, Abandon, Recover, Environment, Expire, Crash, Requeue, Exit,
                WorkerVars
  <2>2. OutputsStay
    BY <1>2, <2>1, QueueIsWorkerStep DEF WorkerStep, OutputsStay
  <2>3. run' = run \/ Goto(t, n, "start") \/ Leave(t, n)
    BY <1>2 DEF Deliver, Abandon, Recover, Environment, Expire, Crash, Requeue, Exit,
                WorkerVars
  <2>4. \A u \in Ids, m \in Slots : run'[u][m] = "complete" => run[u][m] = "complete"
    BY <1>0, <2>3, GotoType, LeaveType DEF TypeInv, RunSteps
  <2> QED BY <2>1, <2>2, <2>4, UnreportedIsSafe
<1>3. ASSUME NEW t \in Ids, NEW n \in Slots, Handler(t, n) PROVE UploadInv'
  <2>1. media \subseteq media'
    BY <1>3 DEF Handler, Begin, Succeed, Stumble, CompleteJob, FailJob, Ack, Nack
  <2>2. OutputsStay
    BY <1>3, <2>1, HandlerIsWorkerStep DEF WorkerStep, OutputsStay
  <2>3. run[t][n] # "gone" /\ task[t].state # "none" /\ row[t] \in Row
    BY <1>0, <1>3 DEF Handler, Begin, Succeed, Stumble, CompleteJob, FailJob, Ack, Nack,
                      TypeInv, TypeOK, HandledIsIssued
  <2>4. CASE Succeed(t, n)
    <3> DEFINE new == [row[t] EXCEPT !.progress = 50]
    <3>1. new.status = row[t].status
      BY <2>3 DEF Row
    <3>2. /\ Update(t, n, new) /\ Goto(t, n, "complete")
          /\ media' = media \cup {task[t].fp} /\ UNCHANGED <<task, announced>>
      BY <2>4 DEF Succeed
    <3> HIDE DEF new
    <3>3. \A u \in Ids : row'[u].status = row[u].status
      BY <1>0, <3>1, <3>2, UpdateStatus
    <3>4. \A u \in Ids, m \in Slots :
            run'[u][m] = "complete" => run[u][m] = "complete" \/ u = t
      BY <1>0, <3>2, GotoType DEF TypeInv, RunSteps
    <3> QED BY <3>2, <3>3, <3>4 DEF UploadInv, AnnouncedIsUploaded
  <2>5. CASE CompleteJob(t, n)
    <3> DEFINE new == [row[t] EXCEPT !.status = "completed", !.progress = 100]
    <3>1. new.status = "completed"
      BY <2>3 DEF Row
    <3>2. /\ Update(t, n, new) /\ Goto(t, n, "ack") /\ run[t][n] = "complete"
          /\ announced' = announced \cup {<<t, "completed">>} /\ UNCHANGED <<task, media>>
      BY <2>5 DEF CompleteJob
    <3> HIDE DEF new
    <3>3. \A u \in Ids : row'[u].status = "completed" => row[u].status = "completed" \/ u = t
      BY <1>0, <3>1, <3>2, UpdateStatus
    <3>4. \A u \in Ids, m \in Slots : run'[u][m] = "complete" => run[u][m] = "complete"
      BY <1>0, <3>2, GotoType DEF TypeInv, RunSteps
    <3> QED BY <2>3, <3>2, <3>3, <3>4 DEF UploadInv, AnnouncedIsUploaded
  <2>6. CASE Begin(t, n) \/ Stumble(t, n) \/ FailJob(t, n) \/ Ack(t, n) \/ Nack(t, n)
    <3>1. PICK s \in RunSteps \ {"complete"} : Goto(t, n, s) \/ Leave(t, n)
      <4>1. "work" \in RunSteps \ {"complete"} /\ "fail" \in RunSteps \ {"complete"}
            /\ "nack" \in RunSteps \ {"complete"}
        BY DEF RunSteps
      <4>2. CASE Begin(t, n)
        BY <4>1, <4>2 DEF Begin
      <4>3. CASE Stumble(t, n)
        BY <4>1, <4>3 DEF Stumble
      <4>4. CASE FailJob(t, n)
        BY <4>1, <4>4 DEF FailJob
      <4>5. CASE Ack(t, n) \/ Nack(t, n)
        BY <4>1, <4>5 DEF Ack, Nack
      <4> QED BY <2>6, <4>2, <4>3, <4>4, <4>5
    <3>2. \A u \in Ids, m \in Slots : run'[u][m] = "complete" => run[u][m] = "complete"
      <4>1. CASE Goto(t, n, s)
        <5>1. \A u \in Ids, m \in Slots : run'[u][m] = IF u = t /\ m = n THEN s ELSE run[u][m]
          BY <1>0, <4>1, GotoType DEF TypeInv
        <5> QED BY <5>1
      <4>2. CASE Leave(t, n)
        <5>1. \A u \in Ids, m \in Slots :
                run'[u][m] = IF u = t /\ m = n THEN "gone" ELSE run[u][m]
          BY <1>0, <4>2, LeaveType DEF TypeInv
        <5> QED BY <5>1
      <4> QED BY <3>1, <4>1, <4>2
    <3>3. announced' \cap (Ids \X {"completed"}) \subseteq announced
      <4>1. announced' \in {announced, announced \cup {<<t, "failed">>}}
        BY <2>6 DEF Begin, Stumble, FailJob, Ack, Nack
      <4>2. <<t, "failed">> \notin Ids \X {"completed"}
        OBVIOUS
      <4> QED BY <4>1, <4>2
    <3>4. \A u \in Ids : row'[u].status = "completed" => row[u].status = "completed"
      <4>1. ASSUME NEW new, Update(t, n, new),
                   new.status \in {"processing", "failed", row[t].status}
            PROVE  \A u \in Ids : row'[u].status = "completed" => row[u].status = "completed"
        BY <1>0, <4>1, UpdateStatus
      <4>2. CASE Begin(t, n)
        <5> DEFINE new == [row[t] EXCEPT !.status = "processing"]
        <5>1. Update(t, n, new) /\ new.status = "processing"
          BY <2>3, <4>2 DEF Begin, Row
        <5> HIDE DEF new
        <5> QED BY <4>1, <5>1
      <4>3. CASE Stumble(t, n)
        <5> DEFINE new == [row[t] EXCEPT !.progress = 50]
        <5>1. (Update(t, n, new) \/ UNCHANGED row) /\ new.status = row[t].status
          BY <2>3, <4>3 DEF Stumble, Row
        <5> HIDE DEF new
        <5> QED BY <4>1, <5>1
      <4>4. CASE FailJob(t, n)
        <5>1. PICK p \in Plans[task[t].fp] :
                Update(t, n, [row[t] EXCEPT !.status = "failed", !.plan = p])
          BY <4>4 DEF FailJob
        <5> DEFINE new == [row[t] EXCEPT !.status = "failed", !.plan = p]
        <5>2. Update(t, n, new) /\ new.status = "failed"
          BY <2>3, <5>1 DEF Row
        <5> HIDE DEF new
        <5> QED BY <4>1, <5>2
      <4>5. CASE Ack(t, n) \/ Nack(t, n)
        BY <4>5 DEF Ack, Nack
      <4> QED BY <2>6, <4>2, <4>3, <4>4, <4>5
    <3> QED BY <2>2, <3>2, <3>3, <3>4, UnreportedIsSafe
  <2> QED BY <1>3, <2>4, <2>5, <2>6 DEF Handler
<1>4. CASE UNCHANGED vars
  BY <1>4 DEF vars, UploadInv, AnnouncedIsUploaded
<1> QED BY <1>1, <1>2, <1>3, <1>4 DEF Next, Queue

LEMMA UploadInit == Init => UploadInv
BY DEF Init, UploadInv, AnnouncedIsUploaded, NoRow

\* Whatever crashes, expires, is delivered twice or outlives a shutdown: a job is
\* reported completed, by its row or its callback, only when all its outputs are
\* in the media bucket.
THEOREM NothingAnnouncedEarly == Spec => []AnnouncedIsUploaded
<1>1. UploadInv => AnnouncedIsUploaded
  BY DEF UploadInv
<1> QED BY <1>1, UploadInit, UploadStep, IdempotencyInvariant, PTL DEF Spec
=============================================================================
