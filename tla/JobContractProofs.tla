-------------------------- MODULE JobContractProofs --------------------------
(***************************************************************************)
(* JobLifecycle implements JobContract, for any number of requests, ids,   *)
(* live handlers, crashes and expired contexts, as long as no write of a   *)
(* worker fails and no handler outlives a shutdown; and what else the jobs *)
(* table can be relied upon to say.                                        *)
(***************************************************************************)
EXTENDS JobLifecycleProofs

\* The faults under which jobs keep the contract.
Orderly == Faults \cap {"db", "shutdown"} = {}

-----------------------------------------------------------------------------
(* The inductive invariant behind KeepsContract.                            *)

\* A handler whose context is not done is the one asynq waits for. This is why
\* no other handler of the task can write.
WritersAreCurrent ==
  \A t \in Ids, n \in Slots : Alive(t, n) /\ <<t, n>> \notin expired => Current(t, n)

\* A context is done only of a handler there is: a new one begins with a new context.
ExpiredAreAlive == \A t \in Ids, n \in Slots : <<t, n>> \in expired => Alive(t, n)

\* asynq never retries more often than it was told to.
RetriesCounted ==
  \A t \in Ids : task[t].state # "none" => task[t].retried <= MaxRetry[task[t].fp]

ActiveIsHeld == \A t \in Ids : task[t].state = "active" => task[t].slot \in Slots

ContractInv ==
  /\ IdempotencyInv
  /\ WritersAreCurrent /\ ExpiredAreAlive /\ RetriesCounted /\ ActiveIsHeld

\* What a step does to the handlers, when it does something to one of them only.
Handled(t, n, s) ==
  \A u \in Ids, m \in Slots : run'[u][m] = IF u = t /\ m = n THEN s ELSE run[u][m]

\* All tasks but t are as they were.
OthersWait(t) == \A u \in Ids \ {t} : task'[u] = task[u]

\* A failed delivery is counted, or was the last one.
LEMMA FailCounts ==
  ASSUME ContractInv, NEW t \in Ids, task[t].state # "none", Fail(t)
  PROVE  /\ OthersWait(t) /\ task'[t].fp = task[t].fp
         /\ \/ /\ task[t].retried < MaxRetry[task[t].fp]
               /\ task'[t].state = "pending" /\ task'[t].retried = task[t].retried + 1
            \/ /\ task[t].retried = MaxRetry[task[t].fp]
               /\ task'[t].state = "archived" /\ task'[t].retried = task[t].retried
<1>1. /\ task[t] \in Task /\ task[t].retried \in Nat /\ task \in [Ids -> Task]
      /\ MaxRetry[task[t].fp] \in Nat /\ task[t].retried <= MaxRetry[task[t].fp]
  BY MaxRetryAssumption
     DEF ContractInv, IdempotencyInv, TypeInv, TypeOK, HandledIsIssued, RetriesCounted, Task
<1>2. CASE task[t].retried < MaxRetry[task[t].fp]
  <2> DEFINE more == task[t].retried + 1
             next == [task[t] EXCEPT !.state = "pending", !.slot = NoSlot, !.retried = more]
  <2>1. task' = [task EXCEPT ![t] = next]
    BY <1>2 DEF Fail
  <2> HIDE DEF more
  <2>2. next.state = "pending" /\ next.retried = more /\ next.fp = task[t].fp
    BY <1>1 DEF Task
  <2> HIDE DEF next
  <2>3. task'[t] = next /\ OthersWait(t)
    BY <1>1, <2>1 DEF OthersWait
  <2> QED BY <1>2, <2>2, <2>3 DEF more
<1>3. CASE ~(task[t].retried < MaxRetry[task[t].fp])
  <2> DEFINE next == [task[t] EXCEPT !.state = "archived", !.slot = NoSlot]
  <2>1. task' = [task EXCEPT ![t] = next]
    BY <1>3 DEF Fail
  <2>2. next.state = "archived" /\ next.retried = task[t].retried /\ next.fp = task[t].fp
    BY <1>1 DEF Task
  <2> HIDE DEF next
  <2>3. task'[t] = next /\ OthersWait(t)
    BY <1>1, <2>1 DEF OthersWait
  <2>4. task[t].retried = MaxRetry[task[t].fp]
    BY <1>1, <1>3
  <2> QED BY <2>2, <2>3, <2>4
<1> QED BY <1>2, <1>3

\* What Goto and Leave do, in these terms.
LEMMA HandlerMoves ==
  ASSUME TypeOK, NEW t \in Ids, NEW n \in Slots
  PROVE  /\ \A s \in RunSteps : Goto(t, n, s) => Handled(t, n, s) /\ expired' = expired
         /\ Leave(t, n) => Handled(t, n, "gone") /\ expired' = expired \ {<<t, n>>}
BY DEF TypeOK, Goto, Leave, Handled

\* When asynq has let go of a task, or is waiting for it, all its handlers that
\* are still there have a context that is done.
LEMMA UnheldAreExpired ==
  ASSUME ContractInv, NEW t \in Ids, task[t].state # "active", NEW m \in Slots, Alive(t, m)
  PROVE  <<t, m>> \in expired
BY DEF ContractInv, WritersAreCurrent, Current

LEMMA ContractInvInit == Init => ContractInv
BY IdempotencyInit
   DEF Init, ContractInv, WritersAreCurrent, ExpiredAreAlive, RetriesCounted, ActiveIsHeld,
       Alive, NoTask

LEMMA ContractInvStep ==
  ASSUME Orderly, ContractInv, [Next]_vars
  PROVE  ContractInv'
<1>1. IdempotencyInv' /\ TypeInv /\ TypeOK /\ IdempotencyInv
  BY IdempotencyStep DEF ContractInv, IdempotencyInv, TypeInv
<1> DEFINE Rest == WritersAreCurrent /\ ExpiredAreAlive /\ RetriesCounted /\ ActiveIsHeld
<1>2. ASSUME UNCHANGED <<task, run, expired>> PROVE Rest'
  BY <1>2 DEF ContractInv, WritersAreCurrent, ExpiredAreAlive, RetriesCounted, ActiveIsHeld,
              Alive, Current
<1>3. ASSUME NEW c \in Clients,
             (\E f \in Fps : CreateRequest(c, f)) \/ (\E t \in Ids : Retry(c, t))
             \/ PreCheck(c) \/ Check(c) \/ EnqueueRefused(c) \/ Insert(c)
      PROVE  Rest'
  BY <1>2, <1>3 DEF CreateRequest, Retry, PreCheck, Check, EnqueueRefused, Insert, WorkerVars
<1>4. ASSUME NEW c \in Clients, NEW t \in Ids, Enqueue(c, t) PROVE Rest'
  <2>1. /\ task'[t].state = "pending" /\ task'[t].retried = 0 /\ OthersWait(t)
        /\ UNCHANGED <<run, expired>> /\ task[t].state = "none"
    <3> DEFINE new == [NoTask EXCEPT !.state = "pending", !.fp = Head(client[c].todo)]
    <3>1. new.state = "pending" /\ new.retried = 0
      BY DEF NoTask
    <3>2. task' = [task EXCEPT ![t] = new] /\ UNCHANGED <<run, expired>> /\ task[t].state = "none"
      BY <1>4 DEF Enqueue, WorkerVars
    <3> HIDE DEF new
    <3> QED BY <1>1, <3>1, <3>2 DEF TypeOK, OthersWait
  <2>2. \A n \in Slots : ~Alive(t, n)
    BY <1>1, <2>1 DEF TypeInv, HandledIsIssued, Alive
  <2>3. MaxRetry[task'[t].fp] \in Nat
    BY <1>1, <2>1, MaxRetryAssumption DEF IdempotencyInv, TypeInv, HandledIsIssued
  <2> QED BY <2>1, <2>2, <2>3
       DEF ContractInv, WritersAreCurrent, ExpiredAreAlive, RetriesCounted, ActiveIsHeld,
           Alive, Current, OthersWait
<1>5. ASSUME NEW t \in Ids, NEW n \in Slots, Deliver(t, n) PROVE Rest'
  <2>1. Handled(t, n, "start") /\ expired' = expired /\ ~Alive(t, n) /\ task[t].state = "pending"
    BY <1>1, <1>5, HandlerMoves DEF Deliver, RunSteps
  <2>2. /\ task'[t].state = "active" /\ task'[t].slot = n /\ OthersWait(t)
        /\ task'[t].retried = task[t].retried /\ task'[t].fp = task[t].fp
    BY <1>1, <1>5 DEF Deliver, TypeOK, Task, OthersWait
  <2>3. \A m \in Slots : Alive(t, m) => <<t, m>> \in expired
    BY <2>1, UnheldAreExpired
  <2> QED BY <2>1, <2>2, <2>3
       DEF ContractInv, WritersAreCurrent, ExpiredAreAlive, RetriesCounted, ActiveIsHeld,
           Alive, Current, OthersWait, Handled
<1>6. ASSUME NEW t \in Ids, NEW n \in Slots, Expire(t, n) PROVE Rest'
  BY <1>6 DEF Expire, ContractInv, WritersAreCurrent, ExpiredAreAlive, RetriesCounted,
              ActiveIsHeld, Alive, Current
<1>7. ASSUME NEW t \in Ids, NEW n \in Slots, Current(t, n), Fail(t),
             ~Alive(t, n) \/ <<t, n>> \in expired,
             \/ UNCHANGED <<run, expired>>
             \/ Handled(t, n, "gone") /\ expired' = expired \ {<<t, n>>}
      PROVE  Rest'
  <2>1. /\ OthersWait(t) /\ task'[t].state \in {"pending", "archived"}
        /\ task'[t].retried <= MaxRetry[task'[t].fp]
    <3>1. task[t].state # "none" /\ task[t].retried \in Nat /\ MaxRetry[task[t].fp] \in Nat
      BY <1>1, <1>7, MaxRetryAssumption DEF Current, TypeInv, TypeOK, Task, HandledIsIssued
    <3> QED BY <1>7, <3>1, FailCounts
  <2>2. \A m \in Slots : Alive(t, m) => <<t, m>> \in expired
    BY <1>7 DEF ContractInv, WritersAreCurrent, Current
  <2> QED BY <1>7, <2>1, <2>2
       DEF ContractInv, WritersAreCurrent, ExpiredAreAlive, RetriesCounted, ActiveIsHeld,
           Alive, Current, OthersWait, Handled
<1>8. ASSUME NEW t \in Ids, NEW n \in Slots, Abandon(t, n) \/ Recover(t, n) PROVE Rest'
  BY <1>7, <1>8 DEF Abandon, Recover, WorkerVars
<1>9. ASSUME NEW t \in Ids, NEW n \in Slots, Crash(t, n) PROVE Rest'
  <2>1. Handled(t, n, "gone") /\ expired' = expired \ {<<t, n>>} /\ task' = task
    BY <1>1, <1>9, HandlerMoves DEF Crash
  <2> QED BY <2>1
       DEF ContractInv, WritersAreCurrent, ExpiredAreAlive, RetriesCounted, ActiveIsHeld,
           Alive, Current, Handled
<1>10. ASSUME NEW t \in Ids, NEW n \in Slots, Requeue(t, n) \/ Exit(t, n) PROVE Rest'
  BY <1>10 DEF Requeue, Exit, Fault, Orderly
<1>11. ASSUME NEW t \in Ids, NEW n \in Slots,
              Begin(t, n) \/ Succeed(t, n) \/ Stumble(t, n) \/ CompleteJob(t, n) \/ FailJob(t, n)
       PROVE  Rest'
  <2>1. PICK s \in RunSteps \ {"gone"} : Goto(t, n, s)
    BY <1>11 DEF Begin, Succeed, Stumble, CompleteJob, FailJob, RunSteps
  <2>2. task' = task /\ Alive(t, n)
    BY <1>11 DEF Begin, Succeed, Stumble, CompleteJob, FailJob, Alive
  <2>3. Handled(t, n, s) /\ expired' = expired
    BY <1>1, <2>1, HandlerMoves
  <2> QED BY <2>2, <2>3
       DEF ContractInv, WritersAreCurrent, ExpiredAreAlive, RetriesCounted, ActiveIsHeld,
           Alive, Current, Handled
<1>12. ASSUME NEW t \in Ids, NEW n \in Slots, Ack(t, n) \/ Nack(t, n) PROVE Rest'
  <2>1. Handled(t, n, "gone") /\ expired' = expired \ {<<t, n>>} /\ Alive(t, n)
    BY <1>1, <1>12, HandlerMoves DEF Ack, Nack, Alive
  <2>2. CASE ~Current(t, n)
    <3>1. task' = task
      BY <1>12, <2>2 DEF Ack, Nack
    <3> QED BY <2>1, <3>1
         DEF ContractInv, WritersAreCurrent, ExpiredAreAlive, RetriesCounted, ActiveIsHeld,
             Alive, Current, Handled
  <2>3. CASE Current(t, n)
    <3>1. /\ OthersWait(t) /\ task'[t].state \in {"pending", "archived", "done"}
          /\ task'[t].retried <= MaxRetry[task'[t].fp]
      <4>1. /\ task[t].state # "none" /\ task[t].retried \in Nat /\ MaxRetry[task[t].fp] \in Nat
            /\ task[t].retried <= MaxRetry[task[t].fp]
        BY <1>1, <2>3, MaxRetryAssumption
           DEF Current, TypeInv, TypeOK, Task, HandledIsIssued, ContractInv, RetriesCounted
      <4>2. CASE Fail(t)
        BY <4>1, <4>2, FailCounts
      <4>3. CASE task' = [task EXCEPT ![t].state = "done", ![t].slot = NoSlot]
        BY <1>1, <4>1, <4>3 DEF TypeOK, Task, OthersWait
      <4> QED BY <1>12, <2>3, <4>2, <4>3 DEF Ack, Nack
    <3>2. \A m \in Slots : m # n /\ Alive(t, m) => <<t, m>> \in expired
      BY <2>3 DEF ContractInv, WritersAreCurrent, Current
    <3> QED BY <2>1, <3>1, <3>2
         DEF ContractInv, WritersAreCurrent, ExpiredAreAlive, RetriesCounted, ActiveIsHeld,
             Alive, Current, OthersWait, Handled
  <2> QED BY <2>2, <2>3
<1>13. ASSUME UNCHANGED vars PROVE Rest'
  BY <1>2, <1>13 DEF vars
<1> HIDE DEF Rest
<1>14. Rest'
  BY <1>3, <1>4, <1>5, <1>6, <1>8, <1>9, <1>10, <1>11, <1>12, <1>13
     DEF Next, Api, Queue, Environment, Handler
<1> QED BY <1>1, <1>14 DEF ContractInv, Rest

LEMMA ContractInvariant ==
  ASSUME Orderly
  PROVE  Spec => []ContractInv
<1>1. ContractInv /\ [Next]_vars => ContractInv'
  BY ContractInvStep
<1> QED BY <1>1, ContractInvInit, PTL DEF Spec

-----------------------------------------------------------------------------
(* The refinement mapping, one job at a time.                               *)

\* How the contract sees job t.
View(t) == [phase |-> Delivery(t), status |-> row[t].status, left |-> RetriesLeft(t)]

\* The other jobs look as they did.
OthersLook(t) == \A u \in Ids \ {t} : View(u)' = View(u)

LEMMA DeliveriesAreViews ==
  /\ Deliveries = [t \in Ids |-> View(t)]
  /\ Deliveries' = [t \in Ids |-> View(t)']
BY DEF Deliveries, View

\* What a job looks like is up to its task, the handler asynq waits for, and its row.
LEMMA LookAlike ==
  ASSUME ContractInv, NEW u \in Ids,
         task'[u] = task[u], row'[u].status = row[u].status,
         \A m \in Slots : Current(u, m) =>
           run'[u][m] = run[u][m] /\ (<<u, m>> \in expired' <=> <<u, m>> \in expired)
  PROVE  View(u)' = View(u)
<1>1. task[u].state = "active" => Current(u, task[u].slot) /\ task[u].slot \in Slots
  BY DEF ContractInv, ActiveIsHeld, Current
<1>2. task[u].state \in {"none", "pending", "active", "done", "archived"}
  BY DEF ContractInv, IdempotencyInv, TypeInv, TypeOK, Task
<1>3. Delivery(u)' = Delivery(u)
  BY <1>1, <1>2 DEF Delivery
<1>4. RetriesLeft(u)' = RetriesLeft(u)
  BY DEF RetriesLeft
<1> QED BY <1>3, <1>4 DEF View

\* The phase of a job whose handler is in slot n.
PhaseAt(t, n) ==
  IF <<t, n>> \in expired \/ run[t][n] = "gone" THEN "lost"
  ELSE CASE run[t][n] = "start" -> "waiting"
         [] run[t][n] = "ack" -> "succeeded"
         [] run[t][n] = "nack" -> "failed"
         [] OTHER -> "running"

LEMMA PhaseOfCurrent ==
  ASSUME NEW t \in Ids, NEW n \in Slots
  PROVE  /\ Current(t, n) => Delivery(t) = PhaseAt(t, n)
         /\ Current(t, n)' => Delivery(t)' = PhaseAt(t, n)'
BY DEF Current, Delivery, PhaseAt

\* Some sets the looks of a job are from, before and after a step.
ViewType(t) ==
  [phase : {Delivery(t), Delivery(t)'}, status : {row[t].status, row'[t].status},
   left : {RetriesLeft(t), RetriesLeft(t)'}]

LEMMA Views ==
  ASSUME NEW t \in Ids, OthersLook(t)
  PROVE  /\ View(t) \in ViewType(t) /\ View(t)' \in ViewType(t)
         /\ View(t).phase = Delivery(t) /\ View(t)'.phase = Delivery(t)'
         /\ View(t).status = row[t].status /\ View(t)'.status = row'[t].status
         /\ View(t).left = RetriesLeft(t) /\ View(t)'.left = RetriesLeft(t)'
         /\ Deliveries[t] = View(t) /\ Deliveries'[t] = View(t)'
         /\ Deliveries' = [Deliveries EXCEPT ![t] = View(t)']
<1>1. Deliveries' = [Deliveries EXCEPT ![t] = View(t)']
  BY DeliveriesAreViews DEF OthersLook
<1> QED BY <1>1, DeliveriesAreViews DEF View, ViewType

\* One job gets into another phase, and its status is written.
LEMMA WriteOne ==
  ASSUME NEW t \in Ids, NEW phases, NEW next, NEW s, OthersLook(t),
         Delivery(t) \in phases, Delivery(t)' = next,
         row'[t].status = IF row[t].status = "none" THEN "none" ELSE s,
         RetriesLeft(t)' = RetriesLeft(t)
  PROVE  Contract!Write(t, phases, next, s)
<1>1. View(t)' = [View(t) EXCEPT !.phase = next, !.status = row'[t].status]
  <2> DEFINE from == View(t)
             to == View(t)'
             P == {Delivery(t), Delivery(t)'}
             S == {row[t].status, row'[t].status}
             L == {RetriesLeft(t), RetriesLeft(t)'}
  <2>1. /\ from \in [phase : P, status : S, left : L] /\ to \in [phase : P, status : S, left : L]
        /\ to.left = from.left /\ to.phase = next /\ to.status = row'[t].status
    BY Views DEF ViewType
  <2> HIDE DEF from, to, P, S, L
  <2>2. to = [from EXCEPT !.phase = next, !.status = row'[t].status]
    BY <2>1, Zenon
  <2> QED BY <2>2 DEF from, to
<1>2. Deliveries' = [Deliveries EXCEPT ![t].phase = next, ![t].status = row'[t].status]
  <2>1. Deliveries' = [Deliveries EXCEPT ![t] = View(t)'] /\ Deliveries[t] = View(t)
    BY Views
  <2> QED BY <1>1, <2>1, Zenon
<1>3. row'[t].status = IF Deliveries[t].status = "none" THEN "none" ELSE s
  BY Views
<1>4. Deliveries[t].phase \in phases
  BY Views
<1> QED BY <1>2, <1>3, <1>4, Zenon DEF Contract!Write

\* A job is put back in the queue, or put there.
LEMMA QueueOne ==
  ASSUME NEW t \in Ids, NEW left, OthersLook(t),
         Delivery(t)' = "waiting", row'[t].status = row[t].status, RetriesLeft(t)' = left
  PROVE  Deliveries' = [Deliveries EXCEPT ![t].phase = "waiting", ![t].left = left]
<1>1. View(t)' = [View(t) EXCEPT !.phase = "waiting", !.left = left]
  <2> DEFINE from == View(t)
             to == View(t)'
             P == {Delivery(t), Delivery(t)'}
             S == {row[t].status, row'[t].status}
             L == {RetriesLeft(t), RetriesLeft(t)'}
  <2>1. /\ from \in [phase : P, status : S, left : L] /\ to \in [phase : P, status : S, left : L]
        /\ to.status = from.status /\ to.phase = "waiting" /\ to.left = left
    BY Views DEF ViewType
  <2> HIDE DEF from, to, P, S, L
  <2>2. to = [from EXCEPT !.phase = "waiting", !.left = left]
    BY <2>1, Zenon
  <2> QED BY <2>2 DEF from, to
<1>2. Deliveries' = [Deliveries EXCEPT ![t] = View(t)'] /\ Deliveries[t] = View(t)
  BY Views
<1> QED BY <1>1, <1>2, Zenon

\* The row of a job appears.
LEMMA RecordOne ==
  ASSUME NEW t \in Ids, OthersLook(t), Delivery(t) # "unknown", row[t].status = "none",
         Delivery(t)' = Delivery(t), row'[t].status = "queued",
         RetriesLeft(t)' = RetriesLeft(t)
  PROVE  Contract!Record(t)
<1>1. View(t)' = [View(t) EXCEPT !.status = "queued"]
  <2> DEFINE from == View(t)
             to == View(t)'
             P == {Delivery(t), Delivery(t)'}
             S == {row[t].status, row'[t].status}
             L == {RetriesLeft(t), RetriesLeft(t)'}
  <2>1. /\ from \in [phase : P, status : S, left : L] /\ to \in [phase : P, status : S, left : L]
        /\ to.phase = from.phase /\ to.left = from.left /\ to.status = "queued"
    BY Views DEF ViewType
  <2> HIDE DEF from, to, P, S, L
  <2>2. to = [from EXCEPT !.status = "queued"]
    BY <2>1, Zenon
  <2> QED BY <2>2 DEF from, to
<1>2. Deliveries' = [Deliveries EXCEPT ![t].status = "queued"]
  BY <1>1, Views
<1> QED BY <1>2, Views DEF Contract!Record

\* A job that looks as it did has taken no step.
LEMMA StutterOne ==
  ASSUME NEW t \in Ids, OthersLook(t),
         Delivery(t)' = Delivery(t), row'[t].status = row[t].status,
         RetriesLeft(t)' = RetriesLeft(t)
  PROVE  Deliveries' = Deliveries
BY DeliveriesAreViews DEF OthersLook, View

\* A delivery that ended without success is repeated, or was the last one.
LEMMA FailIsRepeatOrEnd ==
  ASSUME ContractInv, ContractInv', NEW t \in Ids, Delivery(t) \in {"failed", "lost"}, Fail(t),
         task[t].state # "none", row' = row,
         \A u \in Ids \ {t} : \A m \in Slots :
           run'[u][m] = run[u][m] /\ (<<u, m>> \in expired' <=> <<u, m>> \in expired)
  PROVE  Contract!Repeat(t) \/ Contract!End(t)
<1>1. /\ task[t].retried \in Nat /\ MaxRetry[task[t].fp] \in Nat
  BY MaxRetryAssumption DEF ContractInv, IdempotencyInv, TypeInv, TypeOK, Task, HandledIsIssued
<1>2. OthersWait(t) /\ task'[t].fp = task[t].fp
  BY FailCounts
<1>3. OthersLook(t)
  BY <1>2, LookAlike DEF OthersWait, OthersLook
<1>4. RetriesLeft(t) = MaxRetry[task[t].fp] - task[t].retried
  BY DEF RetriesLeft
<1>5. CASE /\ task[t].retried < MaxRetry[task[t].fp]
           /\ task'[t].state = "pending" /\ task'[t].retried = task[t].retried + 1
  <2>1. Delivery(t)' = "waiting" /\ RetriesLeft(t) > 0 /\ RetriesLeft(t)' = RetriesLeft(t) - 1
    BY <1>1, <1>2, <1>4, <1>5 DEF Delivery, RetriesLeft
  <2>2. Deliveries' = [Deliveries EXCEPT ![t].phase = "waiting", ![t].left = RetriesLeft(t) - 1]
    BY <1>3, <2>1, QueueOne
  <2>3. Deliveries[t].left = RetriesLeft(t) /\ Deliveries[t].phase = Delivery(t)
    BY <1>3, Views
  <2> QED BY <2>1, <2>2, <2>3 DEF Contract!Repeat
<1>6. CASE /\ task[t].retried = MaxRetry[task[t].fp]
           /\ task'[t].state = "archived" /\ task'[t].retried = task[t].retried
  <2>1. Delivery(t)' = "over" /\ RetriesLeft(t) = 0 /\ RetriesLeft(t)' = RetriesLeft(t)
    BY <1>1, <1>2, <1>4, <1>6 DEF Delivery, RetriesLeft
  <2>2. Deliveries[t].left = 0 /\ Deliveries[t].status = row[t].status
    BY <1>3, <2>1, Views
  <2>3. Contract!Write(t, {"succeeded", "failed", "lost"}, "over", row[t].status)
    BY <1>3, <2>1, WriteOne
  <2> QED BY <2>2, <2>3 DEF Contract!End, Contract!Move
<1> QED BY <1>5, <1>6, FailCounts

-----------------------------------------------------------------------------
(* Every step of JobLifecycle is a step of the contract, or none.           *)

\* What an UPDATE stores, when no write fails.
LEMMA UpdateStores ==
  ASSUME Orderly, TypeInv, NEW t \in Ids, NEW n \in Slots, NEW new, Update(t, n, new)
  PROVE  /\ \A u \in Ids \ {t} : row'[u] = row[u]
         /\ row'[t] = IF <<t, n>> \in expired \/ row[t].status = "none" THEN row[t] ELSE new
BY DEF Orderly, Update, Fault, RowExists, TypeInv, TypeOK

\* A handler that moves on without asynq noticing.
LEMMA OtherLooks ==
  ASSUME ContractInv, NEW t \in Ids, NEW n \in Slots, NEW s, Handled(t, n, s),
         OthersWait(t), expired' \in {expired, expired \ {<<t, n>>}},
         \A u \in Ids \ {t} : row'[u] = row[u]
  PROVE  OthersLook(t)
<1> SUFFICES ASSUME NEW u \in Ids \ {t} PROVE View(u)' = View(u)
  BY DEF OthersLook
<1> QED BY LookAlike DEF Handled, OthersWait

\* The steps of a handler that asynq does not see: how the row is written.
LEMMA HandlerWrites ==
  ASSUME Orderly, ContractInv, NEW t \in Ids, NEW n \in Slots, NEW s, NEW status, NEW new,
         s \in RunSteps \ {"gone"}, Goto(t, n, s), task' = task, run[t][n] # "gone",
         Update(t, n, new), new.status = status
  PROVE  /\ OthersLook(t) /\ RetriesLeft(t)' = RetriesLeft(t)
         /\ <<t, n>> \in expired => Deliveries' = Deliveries
         /\ <<t, n>> \notin expired =>
              /\ Delivery(t) = PhaseAt(t, n) /\ Delivery(t)' = PhaseAt(t, n)'
              /\ run'[t][n] = s /\ <<t, n>> \notin expired'
              /\ row'[t].status = IF row[t].status = "none" THEN "none" ELSE status
<1>1. TypeInv /\ TypeOK
  BY DEF ContractInv, IdempotencyInv, TypeInv
<1>2. Handled(t, n, s) /\ expired' = expired
  BY <1>1, HandlerMoves
<1>3. /\ \A u \in Ids \ {t} : row'[u] = row[u]
      /\ row'[t].status = IF <<t, n>> \in expired \/ row[t].status = "none"
                            THEN row[t].status ELSE new.status
  BY <1>1, UpdateStores
<1>4. OthersLook(t)
  BY <1>2, <1>3, OtherLooks DEF OthersWait
<1>5. RetriesLeft(t)' = RetriesLeft(t)
  BY DEF RetriesLeft
<1>6. ASSUME <<t, n>> \in expired PROVE Deliveries' = Deliveries
  <2>1. CASE Current(t, n)
    <3>1. Delivery(t) = "lost" /\ Delivery(t)' = "lost"
      BY <1>2, <1>6, <2>1 DEF Current, Delivery
    <3> QED BY <1>3, <1>4, <1>5, <1>6, <3>1, StutterOne
  <2>2. CASE ~Current(t, n)
    <3>1. View(t)' = View(t)
      BY <1>2, <1>3, <1>6, <2>2, LookAlike DEF Handled
    <3> QED BY <1>4, <3>1, DeliveriesAreViews DEF OthersLook
  <2> QED BY <2>1, <2>2
<1>7. ASSUME <<t, n>> \notin expired
      PROVE  /\ Delivery(t) = PhaseAt(t, n) /\ Delivery(t)' = PhaseAt(t, n)'
             /\ run'[t][n] = s /\ <<t, n>> \notin expired'
  <2>1. Current(t, n) /\ Current(t, n)'
    BY <1>7 DEF ContractInv, WritersAreCurrent, Current, Alive
  <2> QED BY <1>2, <1>7, <2>1, PhaseOfCurrent DEF Handled
<1> QED BY <1>3, <1>4, <1>5, <1>6, <1>7

LEMMA HandlerKeeps ==
  ASSUME Orderly, ContractInv, ContractInv', NEW t \in Ids, NEW n \in Slots,
         Begin(t, n) \/ Succeed(t, n) \/ Stumble(t, n) \/ CompleteJob(t, n) \/ FailJob(t, n)
  PROVE  \/ Deliveries' = Deliveries
         \/ Contract!Begin(t) \/ Contract!Complete(t) \/ Contract!Fail(t)
<1>1. TypeInv /\ TypeOK /\ row[t] \in Row
  BY DEF ContractInv, IdempotencyInv, TypeInv, TypeOK
<1>2. CASE Begin(t, n)
  <2> DEFINE new == [row[t] EXCEPT !.status = "processing"]
  <2>1. new.status = "processing"
    BY <1>1 DEF Row
  <2>2. /\ Goto(t, n, "work") /\ task' = task /\ run[t][n] = "start" /\ Update(t, n, new)
        /\ "work" \in RunSteps \ {"gone"}
    BY <1>2 DEF Begin, RunSteps
  <2> HIDE DEF new
  <2>3. CASE <<t, n>> \in expired
    BY <2>1, <2>2, <2>3, HandlerWrites
  <2>4. CASE <<t, n>> \notin expired
    <3>1. /\ OthersLook(t) /\ RetriesLeft(t)' = RetriesLeft(t)
          /\ Delivery(t) = PhaseAt(t, n) /\ Delivery(t)' = PhaseAt(t, n)'
          /\ run'[t][n] = "work" /\ <<t, n>> \notin expired'
          /\ row'[t].status = IF row[t].status = "none" THEN "none" ELSE "processing"
      BY <2>1, <2>2, <2>4, HandlerWrites
    <3>2. Delivery(t) = "waiting" /\ Delivery(t)' = "running"
      BY <2>2, <2>4, <3>1 DEF PhaseAt
    <3>3. Contract!Write(t, {"waiting"}, "running", "processing")
      BY <3>1, <3>2, WriteOne
    <3> QED BY <3>3 DEF Contract!Begin
  <2> QED BY <2>3, <2>4
<1>3. ASSUME NEW s \in {"complete", "fail"}, run[t][n] = "work", Goto(t, n, s),
             Update(t, n, [row[t] EXCEPT !.progress = 50]), task' = task
      PROVE  Deliveries' = Deliveries
  <2> DEFINE new == [row[t] EXCEPT !.progress = 50]
  <2>1. new.status = row[t].status
    BY <1>1 DEF Row
  <2>2. Update(t, n, new) /\ s \in RunSteps \ {"gone"}
    BY <1>3 DEF RunSteps
  <2> HIDE DEF new
  <2>3. CASE <<t, n>> \in expired
    BY <1>3, <2>1, <2>2, <2>3, HandlerWrites
  <2>4. CASE <<t, n>> \notin expired
    <3>1. /\ OthersLook(t) /\ RetriesLeft(t)' = RetriesLeft(t)
          /\ Delivery(t) = PhaseAt(t, n) /\ Delivery(t)' = PhaseAt(t, n)'
          /\ run'[t][n] = s /\ <<t, n>> \notin expired'
          /\ row'[t].status = IF row[t].status = "none" THEN "none" ELSE row[t].status
      BY <1>3, <2>1, <2>2, <2>4, HandlerWrites
    <3>2. Delivery(t) = "running" /\ Delivery(t)' = "running"
      BY <1>3, <2>4, <3>1 DEF PhaseAt
    <3> QED BY <3>1, <3>2, StutterOne
  <2> QED BY <2>3, <2>4
<1>4. CASE Succeed(t, n)
  BY <1>3, <1>4 DEF Succeed
<1>5. CASE Stumble(t, n)
  <2>1. CASE Update(t, n, [row[t] EXCEPT !.progress = 50])
    BY <1>3, <1>5, <2>1 DEF Stumble
  <2>2. CASE UNCHANGED <<row, faults>>
    <3>1. /\ Goto(t, n, "fail") /\ task' = task /\ run[t][n] = "work"
          /\ "fail" \in RunSteps \ {"gone"}
      BY <1>5 DEF Stumble, RunSteps
    <3>2. Handled(t, n, "fail") /\ expired' = expired
      BY <1>1, <3>1, HandlerMoves
    <3>3. OthersLook(t)
      BY <2>2, <3>1, <3>2, OtherLooks DEF OthersWait
    <3>4. Delivery(t)' = Delivery(t)
      <4>1. task[t].state \in {"none", "pending", "active", "done", "archived"}
        BY <1>1 DEF TypeOK, Task
      <4>2. task[t].state = "active" => task[t].slot \in Slots
        BY DEF ContractInv, ActiveIsHeld
      <4> QED BY <3>1, <3>2, <4>1, <4>2 DEF Delivery, Handled
    <3> QED BY <2>2, <3>1, <3>3, <3>4, StutterOne DEF RetriesLeft
  <2> QED BY <1>5, <2>1, <2>2 DEF Stumble
<1>6. CASE CompleteJob(t, n)
  <2> DEFINE new == [row[t] EXCEPT !.status = "completed", !.progress = 100]
  <2>1. new.status = "completed"
    BY <1>1 DEF Row
  <2>2. /\ Goto(t, n, "ack") /\ task' = task /\ run[t][n] = "complete" /\ Update(t, n, new)
        /\ "ack" \in RunSteps \ {"gone"}
    BY <1>6 DEF CompleteJob, RunSteps
  <2> HIDE DEF new
  <2>3. CASE <<t, n>> \in expired
    BY <2>1, <2>2, <2>3, HandlerWrites
  <2>4. CASE <<t, n>> \notin expired
    <3>1. /\ OthersLook(t) /\ RetriesLeft(t)' = RetriesLeft(t)
          /\ Delivery(t) = PhaseAt(t, n) /\ Delivery(t)' = PhaseAt(t, n)'
          /\ run'[t][n] = "ack" /\ <<t, n>> \notin expired'
          /\ row'[t].status = IF row[t].status = "none" THEN "none" ELSE "completed"
      BY <2>1, <2>2, <2>4, HandlerWrites
    <3>2. Delivery(t) = "running" /\ Delivery(t)' = "succeeded"
      BY <2>2, <2>4, <3>1 DEF PhaseAt
    <3>3. Contract!Write(t, {"running"}, "succeeded", "completed")
      BY <3>1, <3>2, WriteOne
    <3> QED BY <3>3 DEF Contract!Complete
  <2> QED BY <2>3, <2>4
<1>7. CASE FailJob(t, n)
  <2>1. PICK p \in Plans[task[t].fp] :
          Update(t, n, [row[t] EXCEPT !.status = "failed", !.plan = p])
    BY <1>7 DEF FailJob
  <2> DEFINE new == [row[t] EXCEPT !.status = "failed", !.plan = p]
  <2>2. new.status = "failed"
    BY <1>1 DEF Row
  <2>3. /\ Goto(t, n, "nack") /\ task' = task /\ run[t][n] = "fail" /\ Update(t, n, new)
        /\ "nack" \in RunSteps \ {"gone"}
    BY <1>7, <2>1 DEF FailJob, RunSteps
  <2> HIDE DEF new
  <2>4. CASE <<t, n>> \in expired
    BY <2>2, <2>3, <2>4, HandlerWrites
  <2>5. CASE <<t, n>> \notin expired
    <3>1. /\ OthersLook(t) /\ RetriesLeft(t)' = RetriesLeft(t)
          /\ Delivery(t) = PhaseAt(t, n) /\ Delivery(t)' = PhaseAt(t, n)'
          /\ run'[t][n] = "nack" /\ <<t, n>> \notin expired'
          /\ row'[t].status = IF row[t].status = "none" THEN "none" ELSE "failed"
      BY <2>2, <2>3, <2>5, HandlerWrites
    <3>2. Delivery(t) = "running" /\ Delivery(t)' = "failed"
      BY <2>3, <2>5, <3>1 DEF PhaseAt
    <3>3. Contract!Write(t, {"running"}, "failed", "failed")
      BY <3>1, <3>2, WriteOne
    <3> QED BY <3>3 DEF Contract!Fail
  <2> QED BY <2>4, <2>5
<1> QED BY <1>2, <1>4, <1>5, <1>6, <1>7

LEMMA ReturnKeeps ==
  ASSUME Orderly, ContractInv, ContractInv', NEW t \in Ids, NEW n \in Slots,
         Ack(t, n) \/ Nack(t, n)
  PROVE  \/ Deliveries' = Deliveries
         \/ Contract!Repeat(t) \/ Contract!End(t)
<1>1. TypeInv /\ TypeOK
  BY DEF ContractInv, IdempotencyInv, TypeInv
<1>2. /\ Handled(t, n, "gone") /\ expired' = expired \ {<<t, n>>} /\ row' = row
      /\ run[t][n] \in {"ack", "nack"}
  BY <1>1, HandlerMoves DEF Ack, Nack
<1>3. CASE ~Current(t, n)
  <2>1. task' = task
    BY <1>3 DEF Ack, Nack
  <2>2. OthersLook(t)
    BY <1>2, <2>1, OtherLooks DEF OthersWait
  <2>3. View(t)' = View(t)
    BY <1>2, <1>3, <2>1, LookAlike DEF Handled, Current
  <2> QED BY <2>2, <2>3, DeliveriesAreViews DEF OthersLook
<1>4. CASE Current(t, n) /\ Ack(t, n)
  <2>1. task' = [task EXCEPT ![t].state = "done", ![t].slot = NoSlot]
    BY <1>4 DEF Ack
  <2>2. /\ OthersWait(t) /\ task'[t].state = "done" /\ task'[t].fp = task[t].fp
        /\ task'[t].retried = task[t].retried /\ task[t].state = "active"
    BY <1>1, <1>4, <2>1 DEF TypeOK, Task, OthersWait, Current
  <2>3. OthersLook(t)
    BY <1>2, <2>2, OtherLooks
  <2>4. Delivery(t) \in {"succeeded", "lost"} /\ Delivery(t)' = "over"
    <3>1. run[t][n] = "ack"
      BY <1>4 DEF Ack
    <3> QED BY <1>4, <2>2, <3>1, PhaseOfCurrent DEF PhaseAt, Delivery
  <2>5. RetriesLeft(t)' = RetriesLeft(t)
    BY <2>2 DEF RetriesLeft
  <2>6. Deliveries[t].phase # "failed" /\ Deliveries[t].status = row[t].status
    BY <2>3, <2>4, Views
  <2>7. Contract!Write(t, {"succeeded", "failed", "lost"}, "over", row[t].status)
    BY <1>2, <2>3, <2>4, <2>5, WriteOne
  <2> QED BY <2>6, <2>7 DEF Contract!End, Contract!Move
<1>5. CASE Current(t, n) /\ Nack(t, n)
  <2>1. Fail(t) /\ task[t].state # "none" /\ run[t][n] = "nack"
    BY <1>5 DEF Nack, Current
  <2>2. Delivery(t) \in {"failed", "lost"}
    BY <1>5, <2>1, PhaseOfCurrent DEF PhaseAt
  <2>3. \A u \in Ids \ {t} : \A m \in Slots :
          run'[u][m] = run[u][m] /\ (<<u, m>> \in expired' <=> <<u, m>> \in expired)
    BY <1>2 DEF Handled
  <2> QED BY <1>2, <2>1, <2>2, <2>3, FailIsRepeatOrEnd
<1> QED BY <1>3, <1>4, <1>5

LEMMA QueueKeeps ==
  ASSUME Orderly, ContractInv, ContractInv', NEW t \in Ids, NEW n \in Slots,
         Deliver(t, n) \/ Abandon(t, n) \/ Recover(t, n) \/ Environment(t, n)
  PROVE  \/ Deliveries' = Deliveries
         \/ Contract!Lose(t) \/ Contract!Repeat(t) \/ Contract!End(t)
<1>1. TypeInv /\ TypeOK
  BY DEF ContractInv, IdempotencyInv, TypeInv
<1>2. CASE Deliver(t, n)
  <2>1. /\ Handled(t, n, "start") /\ expired' = expired /\ row' = row
        /\ task[t].state = "pending" /\ run[t][n] = "gone"
    BY <1>1, <1>2, HandlerMoves DEF Deliver, RunSteps, Alive
  <2>2. /\ task'[t].state = "active" /\ task'[t].slot = n /\ OthersWait(t)
        /\ task'[t].retried = task[t].retried /\ task'[t].fp = task[t].fp
    BY <1>1, <1>2 DEF Deliver, TypeOK, Task, OthersWait
  <2>3. <<t, n>> \notin expired'
    BY <2>1 DEF ContractInv, ExpiredAreAlive, Alive
  <2>4. OthersLook(t)
    BY <2>1, <2>2, OtherLooks
  <2>5. Delivery(t) = "waiting" /\ Delivery(t)' = "waiting"
    BY <2>1, <2>2, <2>3 DEF Delivery, Handled
  <2>6. RetriesLeft(t)' = RetriesLeft(t)
    BY <2>1, <2>2 DEF RetriesLeft
  <2> QED BY <2>1, <2>4, <2>5, <2>6, StutterOne
<1>3. CASE Abandon(t, n) \/ Recover(t, n)
  <2>1. /\ Current(t, n) /\ Fail(t) /\ UNCHANGED <<row, run, expired>>
        /\ <<t, n>> \in expired \/ run[t][n] = "gone"
    BY <1>3 DEF Abandon, Recover, WorkerVars, Alive
  <2>2. Delivery(t) = "lost" /\ task[t].state # "none"
    BY <2>1, PhaseOfCurrent DEF PhaseAt, Current
  <2> QED BY <2>1, <2>2, FailIsRepeatOrEnd
<1>4. ASSUME Current(t, n), Alive(t, n), <<t, n>> \notin expired, UNCHANGED <<task, row>>,
             OthersLook(t), Delivery(t)' = "lost"
      PROVE  Contract!Lose(t)
  <2>1. Delivery(t) \in {"waiting", "running", "succeeded", "failed"}
    BY <1>4, PhaseOfCurrent DEF PhaseAt, Alive
  <2>2. Contract!Write(t, {"waiting", "running", "succeeded", "failed"}, "lost", row[t].status)
    BY <1>4, <2>1, WriteOne DEF RetriesLeft
  <2>3. Deliveries[t].status = row[t].status
    BY <1>4, Views
  <2> QED BY <2>2, <2>3 DEF Contract!Lose, Contract!Move
<1>5. CASE Expire(t, n)
  <2>1. /\ Current(t, n) /\ Alive(t, n) /\ <<t, n>> \notin expired
        /\ expired' = expired \cup {<<t, n>>} /\ UNCHANGED <<task, row, run>>
    BY <1>5 DEF Expire
  <2>2. OthersLook(t)
    <3> SUFFICES ASSUME NEW u \in Ids \ {t} PROVE View(u)' = View(u)
      BY DEF OthersLook
    <3> QED BY <2>1, LookAlike
  <2>3. Delivery(t)' = "lost"
    BY <2>1 DEF Delivery, Current
  <2> QED BY <1>4, <2>1, <2>2, <2>3
<1>6. CASE Crash(t, n)
  <2>1. /\ Current(t, n) /\ Alive(t, n) /\ UNCHANGED <<task, row>>
        /\ Handled(t, n, "gone") /\ expired' = expired \ {<<t, n>>}
    BY <1>1, <1>6, HandlerMoves DEF Crash
  <2>2. OthersLook(t)
    BY <2>1, OtherLooks DEF OthersWait
  <2>3. Delivery(t)' = "lost"
    BY <2>1 DEF Delivery, Current, Handled
  <2>4. CASE <<t, n>> \in expired
    <3>1. Delivery(t) = "lost"
      BY <2>1, <2>4 DEF Delivery, Current
    <3> QED BY <2>1, <2>2, <2>3, <3>1, StutterOne DEF RetriesLeft
  <2>5. CASE <<t, n>> \notin expired
    BY <1>4, <2>1, <2>2, <2>3, <2>5
  <2> QED BY <2>4, <2>5
<1>7. CASE Requeue(t, n) \/ Exit(t, n)
  BY <1>7 DEF Requeue, Exit, Fault, Orderly
<1> QED BY <1>2, <1>3, <1>5, <1>6, <1>7 DEF Environment

LEMMA ApiKeeps ==
  ASSUME ContractInv, NEW c \in Clients,
         (\E f \in Fps : CreateRequest(c, f)) \/ (\E t \in Ids : Retry(c, t)) \/ Api(c)
  PROVE  \/ Deliveries' = Deliveries
         \/ \E t \in Ids : \/ \E retries \in {Deliveries'[t].left} : Contract!Accept(t, retries)
                           \/ Contract!Record(t)
<1>1. TypeInv /\ TypeOK /\ IdempotencyInv
  BY DEF ContractInv, IdempotencyInv, TypeInv
<1>2. ASSUME UNCHANGED <<task, row, run, expired>> PROVE Deliveries' = Deliveries
  BY <1>2 DEF Deliveries, Delivery, RetriesLeft
<1>3. ASSUME NEW t \in Ids, Enqueue(c, t)
      PROVE  \E retries \in {Deliveries'[t].left} : Contract!Accept(t, retries)
  <2>1. /\ task'[t].state = "pending" /\ OthersWait(t)
        /\ UNCHANGED <<row, run, expired>> /\ task[t].state = "none"
    <3> DEFINE new == [NoTask EXCEPT !.state = "pending", !.fp = Head(client[c].todo)]
    <3>1. new.state = "pending"
      BY DEF NoTask
    <3>2. /\ task' = [task EXCEPT ![t] = new] /\ task[t].state = "none"
          /\ UNCHANGED <<row, run, expired>>
      BY <1>3 DEF Enqueue, WorkerVars
    <3> HIDE DEF new
    <3> QED BY <1>1, <3>1, <3>2 DEF TypeOK, OthersWait
  <2>2. OthersLook(t)
    <3> SUFFICES ASSUME NEW u \in Ids \ {t} PROVE View(u)' = View(u)
      BY DEF OthersLook
    <3> QED BY <2>1, LookAlike DEF OthersWait
  <2>3. /\ Delivery(t) = "unknown" /\ RetriesLeft(t) = 0 /\ Delivery(t)' = "waiting"
        /\ row[t].status = "none"
    BY <1>1, <2>1 DEF Delivery, RetriesLeft, IdempotencyInv, RowHasTask, RowExists
  <2>4. Deliveries[t] = Contract!Unknown
    <3>1. Deliveries[t] = [phase |-> "unknown", status |-> "none", left |-> 0]
      BY <2>3 DEF Deliveries
    <3> QED BY <3>1 DEF Contract!Unknown
  <2> DEFINE left == Deliveries'[t].left
  <2>5. RetriesLeft(t)' = left
    BY <2>2, Views
  <2> HIDE DEF left
  <2>6. Deliveries' = [Deliveries EXCEPT ![t].phase = "waiting", ![t].left = left]
    BY <2>1, <2>2, <2>3, <2>5, QueueOne
  <2>7. Contract!Accept(t, left)
    BY <2>4, <2>6 DEF Contract!Accept
  <2> QED BY <2>7 DEF left
<1>4. CASE Insert(c)
  <2>1. client[c].pc = "insert" /\ UNCHANGED <<task, run, expired>>
    BY <1>4 DEF Insert, WorkerVars
  <2>2. PICK t \in Ids : t = client[c].id
    BY <1>1, <2>1 DEF TypeInv, Pursuing
  <2> DEFINE new == [NoRow EXCEPT !.status = "queued", !.parent = client[c].origin]
  <2>3. row[t].status = "none" /\ task[t].state # "none"
    BY <1>1, <2>1, <2>2 DEF IdempotencyInv, InsertOwnsTask, RowExists
  <2>4. new.status = "queued"
    BY DEF NoRow
  <2>5. row' = row \/ row' = [row EXCEPT ![t] = new]
    BY <1>4, <2>2 DEF Insert
  <2> HIDE DEF new
  <2>6. CASE row' = row
    BY <1>2, <2>1, <2>6
  <2>7. CASE row' = [row EXCEPT ![t] = new]
    <3>1. row'[t].status = "queued" /\ \A u \in Ids \ {t} : row'[u] = row[u]
      BY <1>1, <2>4, <2>7 DEF TypeOK
    <3>2. OthersLook(t)
      <4> SUFFICES ASSUME NEW u \in Ids \ {t} PROVE View(u)' = View(u)
        BY DEF OthersLook
      <4> QED BY <2>1, <3>1, LookAlike
    <3>3. Delivery(t)' = Delivery(t) /\ RetriesLeft(t)' = RetriesLeft(t)
      BY <2>1 DEF Delivery, RetriesLeft
    <3>4. Delivery(t) # "unknown"
      BY <2>3 DEF Delivery
    <3>5. Contract!Record(t)
      BY <2>3, <3>1, <3>2, <3>3, <3>4, RecordOne
    <3> QED BY <3>5
  <2> QED BY <2>5, <2>6, <2>7
<1>5. CASE \/ \E f \in Fps : CreateRequest(c, f)
           \/ \E t \in Ids : Retry(c, t)
           \/ PreCheck(c) \/ Check(c) \/ EnqueueRefused(c)
  BY <1>2, <1>5 DEF CreateRequest, Retry, PreCheck, Check, EnqueueRefused, WorkerVars
<1> QED BY <1>3, <1>4, <1>5 DEF Api

LEMMA ContractStep ==
  ASSUME Orderly, ContractInv, ContractInv', [Next]_vars
  PROVE  [Contract!ContractNext]_Deliveries
<1>1. ASSUME NEW c \in Clients,
             (\E f \in Fps : CreateRequest(c, f)) \/ (\E t \in Ids : Retry(c, t)) \/ Api(c)
      PROVE  Contract!ContractNext \/ Deliveries' = Deliveries
  BY <1>1, ApiKeeps DEF Contract!ContractNext
<1>2. ASSUME NEW t \in Ids, NEW n \in Slots,
             Deliver(t, n) \/ Abandon(t, n) \/ Recover(t, n) \/ Environment(t, n)
      PROVE  Contract!ContractNext \/ Deliveries' = Deliveries
  BY <1>2, QueueKeeps DEF Contract!ContractNext
<1>3. ASSUME NEW t \in Ids, NEW n \in Slots, Handler(t, n)
      PROVE  Contract!ContractNext \/ Deliveries' = Deliveries
  BY <1>3, HandlerKeeps, ReturnKeeps DEF Handler, Contract!ContractNext
<1>4. CASE UNCHANGED vars
  BY <1>4 DEF vars, Deliveries, Delivery, RetriesLeft
<1> QED BY <1>1, <1>2, <1>3, <1>4 DEF Next, Queue

LEMMA ContractBegins == Init => Contract!ContractInit
<1> SUFFICES ASSUME Init PROVE Contract!ContractInit
  OBVIOUS
<1>1. \A t \in Ids : Delivery(t) = "unknown" /\ row[t].status = "none" /\ RetriesLeft(t) = 0
  BY DEF Init, Delivery, RetriesLeft, NoTask, NoRow
<1>2. Deliveries = [t \in Ids |-> [phase |-> "unknown", status |-> "none", left |-> 0]]
  BY <1>1 DEF Deliveries
<1> QED BY <1>2 DEF Contract!ContractInit, Contract!Unknown

\* The worker job protocol (deps.go, with asynq's deliveries) keeps the contract:
\* whatever crashes or expires, however many handlers of a job are alive, the row
\* follows the deliveries in their order and each of them reports at most once.
THEOREM ContractKept ==
  ASSUME Orderly
  PROVE  Spec => KeepsContract
<1>1. ContractInv /\ ContractInv' /\ [Next]_vars => [Contract!ContractNext]_Deliveries
  BY ContractStep
<1>2. Spec => []ContractInv
  BY ContractInvariant
<1> QED BY <1>1, <1>2, ContractBegins, PTL DEF Spec, KeepsContract, Contract!ContractSpec
-----------------------------------------------------------------------------
(* The inductive invariant behind CompletedIsWhole.                         *)

\* A handler that is past its beginning, and can write, has not left the row
\* "completed": that of an earlier delivery has been overwritten.
WholeInv ==
  /\ \A t \in Ids : row[t].status = "completed" => row[t].progress = 100
  /\ \A t \in Ids, n \in Slots :
       run[t][n] \in {"work", "complete", "fail"} /\ <<t, n>> \notin expired
         => row[t].status # "completed"

\* A handler gets to s, and what it may have stored is whole, or not "completed".
LEMMA WholeMove ==
  ASSUME ContractInv, WholeInv, NEW t \in Ids, NEW n \in Slots, NEW s,
         Handled(t, n, s), expired' = expired, run[t][n] # "gone",
         \A u \in Ids \ {t} : row'[u] = row[u],
         <<t, n>> \in expired => row'[t] = row[t],
         row'[t].status = "completed" => row'[t].progress = 100,
         <<t, n>> \notin expired /\ s # "ack" => row'[t].status # "completed"
  PROVE  WholeInv'
<1>1. \A m \in Slots : m # n /\ run[t][m] # "gone" /\ <<t, m>> \notin expired
        => <<t, n>> \in expired
  BY DEF ContractInv, WritersAreCurrent, Current, Alive
<1>2. CASE <<t, n>> \in expired
  BY <1>2 DEF WholeInv, Handled
<1>3. CASE <<t, n>> \notin expired
  <2>1. run'[t][n] \in {"work", "complete", "fail"} => row'[t].status # "completed"
    BY <1>3 DEF Handled
  <2>2. \A m \in Slots \ {n} : run'[t][m] = "gone" \/ <<t, m>> \in expired
    BY <1>1, <1>3 DEF Handled
  <2> QED BY <2>1, <2>2 DEF WholeInv, Handled
<1> QED BY <1>2, <1>3

\* A handler stores a status that is not "completed".
LEMMA WholeWrite ==
  ASSUME Orderly, ContractInv, WholeInv, NEW t \in Ids, NEW n \in Slots, NEW s, NEW new,
         s \in RunSteps \ {"gone"}, Goto(t, n, s), run[t][n] # "gone",
         Update(t, n, new), <<t, n>> \in expired \/ new.status # "completed"
  PROVE  WholeInv'
<1>1. TypeInv /\ TypeOK
  BY DEF ContractInv, IdempotencyInv, TypeInv
<1>2. Handled(t, n, s) /\ expired' = expired
  BY <1>1, HandlerMoves
<1>3. /\ \A u \in Ids \ {t} : row'[u] = row[u]
      /\ row'[t] = IF <<t, n>> \in expired \/ row[t].status = "none" THEN row[t] ELSE new
  BY <1>1, UpdateStores
<1>4. /\ <<t, n>> \in expired => row'[t] = row[t]
      /\ row'[t].status = "completed" => row'[t].progress = 100
      /\ <<t, n>> \notin expired => row'[t].status # "completed"
  BY <1>3 DEF WholeInv
<1> QED BY <1>2, <1>3, <1>4, WholeMove

LEMMA WholeStep ==
  ASSUME Orderly, ContractInv, WholeInv, [Next]_vars
  PROVE  WholeInv'
<1>1. TypeInv /\ TypeOK /\ \A t \in Ids : row[t] \in Row
  BY DEF ContractInv, IdempotencyInv, TypeInv, TypeOK
<1>2. ASSUME NEW c \in Clients, Insert(c) PROVE WholeInv'
  <2> DEFINE new == [NoRow EXCEPT !.status = "queued", !.parent = client[c].origin]
  <2>1. new.status = "queued"
    BY DEF NoRow
  <2>2. UNCHANGED <<run, expired>> /\ (row' = row \/ row' = [row EXCEPT ![client[c].id] = new])
    BY <1>2 DEF Insert, WorkerVars
  <2> HIDE DEF new
  <2>3. \A u \in Ids : row'[u] = row[u] \/ row'[u].status = "queued"
    BY <1>1, <2>1, <2>2 DEF TypeOK
  <2> QED BY <2>2, <2>3 DEF WholeInv
<1>3. ASSUME NEW c \in Clients,
             \/ \E f \in Fps : CreateRequest(c, f)
             \/ \E t \in Ids : Retry(c, t) \/ Enqueue(c, t)
             \/ PreCheck(c) \/ Check(c) \/ EnqueueRefused(c)
      PROVE  WholeInv'
  <2>1. UNCHANGED <<row, run, expired>>
    BY <1>3 DEF CreateRequest, Retry, Enqueue, PreCheck, Check, EnqueueRefused, WorkerVars
  <2> QED BY <2>1 DEF WholeInv
<1>4. ASSUME NEW t \in Ids, NEW n \in Slots, Deliver(t, n) \/ Crash(t, n)
             \/ Ack(t, n) \/ Nack(t, n)
      PROVE  WholeInv'
  <2>1. /\ row' = row
        /\ \/ Handled(t, n, "start") /\ expired' = expired
           \/ Handled(t, n, "gone") /\ expired' = expired \ {<<t, n>>}
    BY <1>1, <1>4, HandlerMoves DEF Deliver, Crash, Ack, Nack, RunSteps
  <2> QED BY <2>1 DEF WholeInv, Handled
<1>5. ASSUME NEW t \in Ids, NEW n \in Slots, Expire(t, n) \/ Abandon(t, n) \/ Recover(t, n)
      PROVE  WholeInv'
  BY <1>5 DEF Expire, Abandon, Recover, WorkerVars, WholeInv
<1>6. ASSUME NEW t \in Ids, NEW n \in Slots, Requeue(t, n) \/ Exit(t, n) PROVE WholeInv'
  BY <1>6 DEF Requeue, Exit, Fault, Orderly
<1>7. ASSUME NEW t \in Ids, NEW n \in Slots, Begin(t, n) PROVE WholeInv'
  <2> DEFINE new == [row[t] EXCEPT !.status = "processing"]
  <2>1. new.status = "processing"
    BY <1>1 DEF Row
  <2>2. Update(t, n, new) /\ Goto(t, n, "work") /\ run[t][n] # "gone" /\ "work" \in RunSteps
    BY <1>7 DEF Begin, RunSteps
  <2> HIDE DEF new
  <2> QED BY <2>1, <2>2, WholeWrite
<1>8. ASSUME NEW t \in Ids, NEW n \in Slots, NEW s \in {"complete", "fail"}, Goto(t, n, s),
             run[t][n] = "work",
             Update(t, n, [row[t] EXCEPT !.progress = 50]) \/ row' = row
      PROVE  WholeInv'
  <2> DEFINE new == [row[t] EXCEPT !.progress = 50]
  <2>1. new.status = row[t].status
    BY <1>1 DEF Row
  <2>2. <<t, n>> \notin expired => row[t].status # "completed"
    BY <1>8 DEF WholeInv
  <2>3. s \in RunSteps \ {"gone", "ack"}
    BY DEF RunSteps
  <2>4. CASE Update(t, n, new)
    <3> HIDE DEF new
    <3> QED BY <1>8, <2>1, <2>2, <2>3, <2>4, WholeWrite
  <2>5. CASE row' = row
    <3>1. Handled(t, n, s) /\ expired' = expired
      BY <1>1, <1>8, <2>3, HandlerMoves
    <3> QED BY <2>2, <2>5, <3>1 DEF WholeInv, Handled
  <2> QED BY <1>8, <2>4, <2>5
<1>9. ASSUME NEW t \in Ids, NEW n \in Slots, CompleteJob(t, n) PROVE WholeInv'
  <2> DEFINE new == [row[t] EXCEPT !.status = "completed", !.progress = 100]
  <2>1. new.progress = 100
    BY <1>1 DEF Row
  <2>2. /\ Update(t, n, new) /\ Goto(t, n, "ack") /\ run[t][n] # "gone"
        /\ "ack" \in RunSteps \ {"gone"}
    BY <1>9 DEF CompleteJob, RunSteps
  <2> HIDE DEF new
  <2>3. /\ \A u \in Ids \ {t} : row'[u] = row[u]
        /\ row'[t] = IF <<t, n>> \in expired \/ row[t].status = "none" THEN row[t] ELSE new
    BY <1>1, <2>2, UpdateStores
  <2>4. /\ <<t, n>> \in expired => row'[t] = row[t]
        /\ row'[t].status = "completed" => row'[t].progress = 100
    BY <2>1, <2>3 DEF WholeInv
  <2>5. Handled(t, n, "ack") /\ expired' = expired
    BY <1>1, <2>2, HandlerMoves
  <2> QED BY <2>2, <2>3, <2>4, <2>5, WholeMove
<1>10. ASSUME NEW t \in Ids, NEW n \in Slots, FailJob(t, n) PROVE WholeInv'
  <2>1. PICK p \in Plans[task[t].fp] :
          Update(t, n, [row[t] EXCEPT !.status = "failed", !.plan = p])
    BY <1>10 DEF FailJob
  <2> DEFINE new == [row[t] EXCEPT !.status = "failed", !.plan = p]
  <2>2. run[t][n] = "fail" /\ Goto(t, n, "nack") /\ "nack" \in RunSteps
    BY <1>10 DEF FailJob, RunSteps
  <2>3. new.status = "failed"
    BY <1>1 DEF Row
  <2>4. Update(t, n, new)
    BY <2>1
  <2> HIDE DEF new
  <2> QED BY <2>2, <2>3, <2>4, WholeWrite
<1>11. ASSUME UNCHANGED vars PROVE WholeInv'
  BY <1>11 DEF vars, WholeInv
<1>12. ASSUME NEW t \in Ids, NEW n \in Slots, Succeed(t, n) \/ Stumble(t, n) PROVE WholeInv'
  BY <1>8, <1>12 DEF Succeed, Stumble
<1> QED BY <1>2, <1>3, <1>4, <1>5, <1>6, <1>7, <1>9, <1>10, <1>11, <1>12
        DEF Next, Api, Queue, Environment, Handler

\* completeJob and the status updates that precede it (deps.go): unless a write
\* fails or a handler outlives a shutdown, a job that says it is completed says
\* that all of it is, however often it was delivered.
THEOREM CompletedRowsAreWhole == Spec => []CompletedIsWhole
<1>1. CASE Orderly
  <2>1. Init => WholeInv
    BY DEF Init, WholeInv, NoRow
  <2>2. ContractInv /\ WholeInv /\ [Next]_vars => WholeInv'
    BY <1>1, WholeStep
  <2>3. WholeInv => CompletedIsWhole
    BY DEF WholeInv, CompletedIsWhole
  <2>4. Spec => []ContractInv
    BY <1>1, ContractInvariant
  <2> QED BY <2>1, <2>2, <2>3, <2>4, PTL DEF Spec
<1>2. CASE ~Orderly
  <2>1. CompletedIsWhole
    BY <1>2 DEF Orderly, CompletedIsWhole
  <2> QED BY <2>1, PTL
<1> QED BY <1>1, <1>2

-----------------------------------------------------------------------------
(* The inductive invariant behind RowAgreesWithQueue.                       *)

\* No fault hits a worker or what it writes.
Undisturbed == Faults \subseteq {"insert"}

\* What the row can say when a delivery has ended in one way or the other: the
\* end, or nothing yet, or what the API has stored in the meantime.
SaysSuccess(t) == row[t].status \in {"none", "queued", "completed"}
SaysFailure(t) == row[t].status \in {"none", "queued", "failed"}

AgreeInv ==
  /\ expired = {}
  /\ \A t \in Ids : task[t].state = "active" => Alive(t, task[t].slot)
  /\ \A t \in Ids, n \in Slots : /\ run[t][n] = "ack" => SaysSuccess(t)
                                 /\ run[t][n] = "nack" => SaysFailure(t)
  /\ \A t \in Ids : /\ task[t].state = "done" => SaysSuccess(t)
                    /\ task[t].state = "archived" => SaysFailure(t)

\* A handler takes a step that asynq does not see.
LEMMA AgreeWrite ==
  ASSUME Orderly, ContractInv, AgreeInv, NEW t \in Ids, NEW n \in Slots, NEW s, NEW status,
         s \in RunSteps \ {"gone"}, Goto(t, n, s), task' = task, run[t][n] # "gone",
         \A u \in Ids \ {t} : row'[u] = row[u],
         row'[t].status = IF row[t].status = "none" THEN "none" ELSE status,
         s = "ack" => status = "completed", s = "nack" => status = "failed"
  PROVE  AgreeInv'
<1>1. TypeInv /\ TypeOK
  BY DEF ContractInv, IdempotencyInv, TypeInv
<1>2. Handled(t, n, s) /\ expired' = expired
  BY <1>1, HandlerMoves
<1>3. Current(t, n)
  BY DEF AgreeInv, ContractInv, WritersAreCurrent, Alive
<1>4. \A m \in Slots \ {n} : run[t][m] = "gone"
  BY <1>3 DEF AgreeInv, ContractInv, WritersAreCurrent, Alive, Current
<1>5. \A u \in Ids, m \in Slots : /\ run'[u][m] = "ack" => SaysSuccess(u)'
                                  /\ run'[u][m] = "nack" => SaysFailure(u)'
  BY <1>2, <1>4 DEF AgreeInv, Handled, SaysSuccess, SaysFailure
<1>6. \A u \in Ids : /\ task'[u].state = "done" => SaysSuccess(u)'
                     /\ task'[u].state = "archived" => SaysFailure(u)'
  BY <1>3 DEF AgreeInv, Current, SaysSuccess, SaysFailure
<1>7. \A u \in Ids : task'[u].state = "active" => Alive(u, task[u].slot)'
  <2>1. \A u \in Ids : task[u].state = "active" => task[u].slot \in Slots
    BY DEF ContractInv, ActiveIsHeld
  <2> QED BY <1>2, <2>1 DEF AgreeInv, Handled, Alive
<1> QED BY <1>2, <1>5, <1>6, <1>7 DEF AgreeInv

\* asynq takes or lets go of a task, or gets a new one.
LEMMA AgreeQueue ==
  ASSUME ContractInv, AgreeInv, NEW t \in Ids, OthersWait(t), row' = row, expired' = {},
         \/ run' = run /\ task'[t].state = "pending" /\ task[t].state # "active"
         \/ \E n \in Slots : \/ /\ Handled(t, n, "start")
                                /\ task'[t].state = "active" /\ task'[t].slot = n
                             \/ /\ Handled(t, n, "gone")
                                /\ \/ task'[t].state = "pending"
                                   \/ task'[t].state = "done" /\ run[t][n] = "ack"
                                   \/ task'[t].state = "archived" /\ run[t][n] = "nack"
  PROVE  AgreeInv'
<1>1. \A u \in Ids : task[u].state = "active" => task[u].slot \in Slots
  BY DEF ContractInv, ActiveIsHeld
<1>2. \A u \in Ids : task'[u].state = "active" => Alive(u, task[u].slot)'
  BY <1>1 DEF AgreeInv, Handled, Alive, OthersWait
<1>3. \A u \in Ids, m \in Slots : /\ run'[u][m] = "ack" => SaysSuccess(u)'
                                  /\ run'[u][m] = "nack" => SaysFailure(u)'
  BY DEF AgreeInv, Handled, SaysSuccess, SaysFailure
<1>4. \A u \in Ids : /\ task'[u].state = "done" => SaysSuccess(u)'
                     /\ task'[u].state = "archived" => SaysFailure(u)'
  BY DEF AgreeInv, OthersWait, SaysSuccess, SaysFailure
<1> QED BY <1>2, <1>3, <1>4 DEF AgreeInv

LEMMA AgreeStep ==
  ASSUME Undisturbed, ContractInv, AgreeInv, [Next]_vars
  PROVE  AgreeInv'
<1>1. /\ TypeInv /\ TypeOK /\ IdempotencyInv /\ expired = {}
      /\ \A t \in Ids : row[t] \in Row
  BY DEF ContractInv, IdempotencyInv, TypeInv, TypeOK, AgreeInv
<1>2. Orderly /\ \A k \in {"db", "shutdown", "crash", "expire"} : ~Fault(k)
  BY DEF Undisturbed, Orderly, Fault
<1>3. ASSUME UNCHANGED <<task, row, run, expired>> PROVE AgreeInv'
  BY <1>3 DEF AgreeInv, SaysSuccess, SaysFailure, Alive
<1>4. ASSUME NEW c \in Clients,
             (\E f \in Fps : CreateRequest(c, f)) \/ (\E t \in Ids : Retry(c, t))
             \/ PreCheck(c) \/ Check(c) \/ EnqueueRefused(c)
      PROVE  AgreeInv'
  BY <1>3, <1>4 DEF CreateRequest, Retry, PreCheck, Check, EnqueueRefused, WorkerVars
<1>5. ASSUME NEW c \in Clients, NEW t \in Ids, Enqueue(c, t) PROVE AgreeInv'
  <2> DEFINE new == [NoTask EXCEPT !.state = "pending", !.fp = Head(client[c].todo)]
  <2>1. new.state = "pending"
    BY DEF NoTask
  <2>2. /\ task' = [task EXCEPT ![t] = new] /\ task[t].state = "none"
        /\ UNCHANGED <<row, run, expired>>
    BY <1>5 DEF Enqueue, WorkerVars
  <2> HIDE DEF new
  <2>3. task'[t].state = "pending" /\ OthersWait(t)
    BY <1>1, <2>1, <2>2 DEF TypeOK, OthersWait
  <2> QED BY <1>1, <2>2, <2>3, AgreeQueue
<1>6. ASSUME NEW c \in Clients, Insert(c) PROVE AgreeInv'
  <2> DEFINE new == [NoRow EXCEPT !.status = "queued", !.parent = client[c].origin]
  <2>1. new.status = "queued"
    BY DEF NoRow
  <2>2. /\ UNCHANGED <<task, run, expired>>
        /\ row' = row \/ row' = [row EXCEPT ![client[c].id] = new]
    BY <1>6 DEF Insert, WorkerVars
  <2> HIDE DEF new
  <2>3. \A u \in Ids : row'[u] = row[u] \/ row'[u].status = "queued"
    BY <1>1, <2>1, <2>2 DEF TypeOK
  <2> QED BY <2>2, <2>3 DEF AgreeInv, SaysSuccess, SaysFailure, Alive
<1>7. ASSUME NEW t \in Ids, NEW n \in Slots, Deliver(t, n) PROVE AgreeInv'
  <2>1. Handled(t, n, "start") /\ expired' = expired /\ row' = row
    BY <1>1, <1>7, HandlerMoves DEF Deliver, RunSteps
  <2>2. task'[t].state = "active" /\ task'[t].slot = n /\ OthersWait(t)
    BY <1>1, <1>7 DEF Deliver, TypeOK, Task, OthersWait
  <2> QED BY <1>1, <2>1, <2>2, AgreeQueue
<1>8. ASSUME NEW t \in Ids, NEW n \in Slots, Abandon(t, n) \/ Recover(t, n) PROVE AgreeInv'
  BY <1>1, <1>8 DEF Abandon, Recover, AgreeInv, Current
<1>9. ASSUME NEW t \in Ids, NEW n \in Slots, Environment(t, n) PROVE AgreeInv'
  BY <1>2, <1>9 DEF Environment, Expire, Crash, Requeue, Exit, Orderly
<1>10. ASSUME NEW t \in Ids, NEW n \in Slots, NEW s \in RunSteps \ {"gone"}, NEW new,
              Goto(t, n, s), task' = task, run[t][n] # "gone", Update(t, n, new),
              s = "ack" => new.status = "completed", s = "nack" => new.status = "failed"
       PROVE  AgreeInv'
  <2>1. /\ \A u \in Ids \ {t} : row'[u] = row[u]
        /\ row'[t].status = IF row[t].status = "none" THEN "none" ELSE new.status
    BY <1>1, <1>2, <1>10, UpdateStores
  <2> QED BY <1>2, <1>10, <2>1, AgreeWrite
<1>11. ASSUME NEW t \in Ids, NEW n \in Slots, Begin(t, n) \/ Succeed(t, n) \/ Stumble(t, n)
       PROVE  AgreeInv'
  <2>1. PICK s \in RunSteps \ {"gone", "ack", "nack"} : Goto(t, n, s)
    BY <1>11 DEF Begin, Succeed, Stumble, RunSteps
  <2>2. task' = task /\ run[t][n] # "gone"
    BY <1>11 DEF Begin, Succeed, Stumble
  <2>3. (\E new : Update(t, n, new)) \/ row' = row
    BY <1>11 DEF Begin, Succeed, Stumble
  <2>4. CASE row' = row
    <3>1. row'[t].status = IF row[t].status = "none" THEN "none" ELSE row[t].status
      BY <2>4
    <3> QED BY <1>2, <2>1, <2>2, <2>4, <3>1, AgreeWrite
  <2>5. CASE \E new : Update(t, n, new)
    BY <1>10, <2>1, <2>2, <2>5
  <2> QED BY <2>3, <2>4, <2>5
<1>12. ASSUME NEW t \in Ids, NEW n \in Slots, CompleteJob(t, n) PROVE AgreeInv'
  <2> DEFINE new == [row[t] EXCEPT !.status = "completed", !.progress = 100]
  <2>1. new.status = "completed"
    BY <1>1 DEF Row
  <2>2. /\ Update(t, n, new) /\ Goto(t, n, "ack") /\ run[t][n] # "gone" /\ task' = task
        /\ "ack" \in RunSteps \ {"gone"}
    BY <1>12 DEF CompleteJob, RunSteps
  <2> HIDE DEF new
  <2> QED BY <1>10, <2>1, <2>2
<1>13. ASSUME NEW t \in Ids, NEW n \in Slots, FailJob(t, n) PROVE AgreeInv'
  <2>1. PICK p \in Plans[task[t].fp] :
          Update(t, n, [row[t] EXCEPT !.status = "failed", !.plan = p])
    BY <1>13 DEF FailJob
  <2> DEFINE new == [row[t] EXCEPT !.status = "failed", !.plan = p]
  <2>2. new.status = "failed"
    BY <1>1 DEF Row
  <2>3. /\ Update(t, n, new) /\ Goto(t, n, "nack") /\ run[t][n] # "gone" /\ task' = task
        /\ "nack" \in RunSteps \ {"gone"}
    BY <1>13, <2>1 DEF FailJob, RunSteps
  <2> HIDE DEF new
  <2> QED BY <1>10, <2>2, <2>3
<1>14. ASSUME NEW t \in Ids, NEW n \in Slots, Ack(t, n) \/ Nack(t, n) PROVE AgreeInv'
  <2>1. Handled(t, n, "gone") /\ expired' = expired \ {<<t, n>>} /\ row' = row
    BY <1>1, <1>14, HandlerMoves DEF Ack, Nack
  <2>2. Current(t, n) /\ task[t].state # "none"
    BY <1>1, <1>14 DEF Ack, Nack, ContractInv, WritersAreCurrent, Alive, Current
  <2>3. CASE Ack(t, n)
    <3>1. task' = [task EXCEPT ![t].state = "done", ![t].slot = NoSlot] /\ run[t][n] = "ack"
      BY <2>2, <2>3 DEF Ack
    <3>2. task'[t].state = "done" /\ OthersWait(t)
      BY <1>1, <3>1 DEF TypeOK, Task, OthersWait
    <3> QED BY <1>1, <2>1, <3>1, <3>2, AgreeQueue
  <2>4. CASE Nack(t, n)
    <3>1. Fail(t) /\ run[t][n] = "nack"
      BY <2>2, <2>4 DEF Nack
    <3>2. OthersWait(t) /\ task'[t].state \in {"pending", "archived"}
      BY <2>2, <3>1, FailCounts
    <3> QED BY <1>1, <2>1, <3>1, <3>2, AgreeQueue
  <2> QED BY <1>14, <2>3, <2>4
<1>15. ASSUME UNCHANGED vars PROVE AgreeInv'
  BY <1>3, <1>15 DEF vars
<1> QED BY <1>4, <1>5, <1>6, <1>7, <1>8, <1>9, <1>11, <1>12, <1>13, <1>14, <1>15
        DEF Next, Api, Queue, Handler

\* The row and the task are written by different processes with no transaction
\* over both; they agree in the end all the same, but for a row that came late
\* (job.go:497), as long as no fault hits a worker.
THEOREM RowsAgree == Spec => []RowAgreesWithQueue
<1>1. CASE Undisturbed
  <2>1. Orderly
    BY <1>1 DEF Undisturbed, Orderly
  <2>2. Init => AgreeInv
    BY DEF Init, AgreeInv, NoTask
  <2>3. ContractInv /\ AgreeInv /\ [Next]_vars => AgreeInv'
    BY <1>1, AgreeStep
  <2>4. AgreeInv => RowAgreesWithQueue
    BY DEF AgreeInv, RowAgreesWithQueue, SaysSuccess, SaysFailure
  <2>5. Spec => []ContractInv
    BY <2>1, ContractInvariant
  <2> QED BY <2>2, <2>3, <2>4, <2>5, PTL DEF Spec
<1>2. CASE ~Undisturbed
  <2>1. RowAgreesWithQueue
    BY <1>2 DEF Undisturbed, RowAgreesWithQueue
  <2> QED BY <2>1, PTL
<1> QED BY <1>1, <1>2

-----------------------------------------------------------------------------
(* The inductive invariant behind RetryLineage, under every fault.          *)

\* A retry plan that a failed job for the fingerprint of p can store asks for f.
AskedBy(p, f) ==
  \E plan \in Plans[task[p].fp] : \E i \in DOMAIN plan : plan[i] = f

\* A row that says "failed" holds a plan of its own request.
FailedHasOwnPlan ==
  \A t \in Ids : row[t].status = "failed" => row[t].plan \in Plans[task[t].fp]

\* A request that retries a job creates nothing that the job did not ask for.
RetriesWhatWasAsked ==
  \A c \in Clients : client[c].origin # NoId =>
    /\ RowExists(client[c].origin) /\ client[c].origin \in failedOnce
    /\ \A i \in DOMAIN client[c].todo : AskedBy(client[c].origin, client[c].todo[i])

LineageInv == FailedHasOwnPlan /\ RetriesWhatWasAsked /\ RetryLineage

\* A worker's step keeps it, if what it stores as a failure has a plan.
LEMMA LineageOfWorkers ==
  ASSUME TypeInv, LineageInv, WorkerStep, FailedHasOwnPlan',
         \A t \in Ids : row'[t].parent = row[t].parent
  PROVE  LineageInv'
<1>1. /\ \A c \in Clients : client[c].origin \in Ids \cup {NoId}
      /\ \A t \in Ids : row[t].parent \in Ids \cup {NoId}
  BY DEF TypeInv, TypeOK, Client, Row
<1>2. /\ \A t \in Ids : \A f : AskedBy(t, f) <=> AskedBy(t, f)'
      /\ \A t \in Ids : RowExists(t) <=> RowExists(t)'
  BY DEF WorkerStep, AskedBy, RowExists
<1>3. RetriesWhatWasAsked'
  BY <1>1, <1>2 DEF WorkerStep, LineageInv, RetriesWhatWasAsked
<1>4. RetryLineage'
  BY <1>1, <1>2 DEF WorkerStep, LineageInv, RetryLineage, AskedBy
<1> QED BY <1>3, <1>4 DEF LineageInv

\* A request goes on to something it had to do anyway, or gives up.
LEMMA LineageOfRequest ==
  ASSUME TypeInv, LineageInv, NEW c \in Clients, Advance(c) \/ Reject(c)
  PROVE  /\ \A d \in Clients \ {c} : client'[d] = client[d]
         /\ \/ client'[c].origin = NoId
            \/ /\ client'[c].origin = client[c].origin
               /\ \A i \in DOMAIN client'[c].todo :
                    \E j \in DOMAIN client[c].todo : client'[c].todo[i] = client[c].todo[j]
<1>1. client \in [Clients -> Client] /\ client[c] \in Client /\ client[c].todo \in Seq(Fps)
  BY DEF TypeInv, TypeOK, Client
<1>2. CASE client' = [client EXCEPT ![c] = Idle]
  BY <1>1, <1>2 DEF Idle
<1>3. CASE Len(client[c].todo) > 1 /\ Advance(c)
  <2> DEFINE s == client[c].todo
             next == [client[c] EXCEPT !.pc = "check", !.todo = Tail(s), !.id = NoId]
  <2>1. client' = [client EXCEPT ![c] = next]
    BY <1>3 DEF Advance
  <2>2. next.origin = client[c].origin /\ next.todo = Tail(s)
    BY <1>1 DEF Client
  <2> HIDE DEF next
  <2>3. \A i \in DOMAIN Tail(s) : \E j \in DOMAIN s : Tail(s)[i] = s[j]
    <3>1. s # << >>
      BY <1>3, EmptySeq
    <3>2. Len(s) \in Nat /\ DOMAIN s = 1 .. Len(s)
      BY <1>1, LenProperties
    <3> HIDE DEF s
    <3>3. /\ Tail(s) \in Seq(Fps) /\ Len(Tail(s)) = Len(s) - 1
          /\ \A i \in 1 .. Len(Tail(s)) : Tail(s)[i] = s[i + 1]
      BY <1>1, <3>1, HeadTailProperties DEF s
    <3>4. DOMAIN Tail(s) = 1 .. Len(Tail(s))
      BY <3>3, LenProperties
    <3>5. ASSUME NEW i \in 1 .. Len(Tail(s)) PROVE Tail(s)[i] = s[i + 1] /\ i + 1 \in DOMAIN s
      BY <3>2, <3>3
    <3> QED BY <3>4, <3>5
  <2> QED BY <1>1, <2>1, <2>2, <2>3
<1> QED BY <1>2, <1>3 DEF Advance, Reject

\* A request that creates nothing yet.
LEMMA LineageOfApi ==
  ASSUME TypeInv, LineageInv, NEW c \in Clients, UNCHANGED <<task, row, failedOnce>>,
         \A d \in Clients \ {c} : client'[d] = client[d],
         client'[c].origin = NoId \/
           /\ RowExists(client'[c].origin) /\ client'[c].origin \in failedOnce
           /\ \A i \in DOMAIN client'[c].todo : AskedBy(client'[c].origin, client'[c].todo[i])
  PROVE  LineageInv'
<1>1. RetriesWhatWasAsked'
  <2> SUFFICES ASSUME NEW d \in Clients, client'[d].origin # NoId
               PROVE  (/\ RowExists(client[d].origin) /\ client[d].origin \in failedOnce
                       /\ \A i \in DOMAIN client[d].todo : AskedBy(client[d].origin, client[d].todo[i]))'
    BY DEF RetriesWhatWasAsked
  <2>1. /\ RowExists(client'[d].origin) /\ client'[d].origin \in failedOnce
        /\ \A i \in DOMAIN client'[d].todo : AskedBy(client'[d].origin, client'[d].todo[i])
    <3>1. CASE d = c
      BY <3>1
    <3>2. CASE d # c
      <4>1. client'[d] = client[d]
        BY <3>2
      <4> QED BY <4>1 DEF LineageInv, RetriesWhatWasAsked
    <3> QED BY <3>1, <3>2
  <2> QED BY <2>1 DEF RowExists, AskedBy
<1> QED BY <1>1 DEF LineageInv, FailedHasOwnPlan, RetryLineage, RowExists

\* A worker stores a row that keeps its parent, and a plan with a failure.
LEMMA LineageOfWrite ==
  ASSUME TypeInv, LineageInv, WorkerStep, NEW t \in Ids, NEW n \in Slots, NEW new,
         Update(t, n, new), new.parent = row[t].parent,
         new.status = "failed" => new.plan \in Plans[task[t].fp]
  PROVE  LineageInv'
<1>1. \A u \in Ids : row'[u] = row[u] \/ (u = t /\ row'[u] = new)
  BY DEF Update, TypeInv, TypeOK
<1>2. FailedHasOwnPlan' /\ \A u \in Ids : row'[u].parent = row[u].parent
  BY <1>1 DEF LineageInv, FailedHasOwnPlan, WorkerStep
<1> QED BY <1>2, LineageOfWorkers

LEMMA LineageOfHandler ==
  ASSUME IdempotencyInv, LineageInv, NEW t \in Ids, NEW n \in Slots, Handler(t, n)
  PROVE  LineageInv'
<1>1. TypeInv /\ row[t] \in Row /\ WorkerStep
  BY HandlerIsWorkerStep DEF IdempotencyInv, TypeInv, TypeOK
<1>2. CASE row' = row
  BY <1>1, <1>2, LineageOfWorkers DEF LineageInv, FailedHasOwnPlan, WorkerStep
<1>3. ASSUME NEW new, Update(t, n, new), new.parent = row[t].parent,
             \/ new.status \notin {"failed"}
             \/ new.status = row[t].status /\ new.plan = row[t].plan
             \/ new.plan \in Plans[task[t].fp]
      PROVE  LineageInv'
  BY <1>1, <1>3, LineageOfWrite DEF LineageInv, FailedHasOwnPlan
<1>4. CASE Begin(t, n)
  <2> DEFINE new == [row[t] EXCEPT !.status = "processing"]
  <2>1. new.parent = row[t].parent /\ new.status = "processing"
    BY <1>1 DEF Row
  <2>2. Update(t, n, new)
    BY <1>4 DEF Begin
  <2> HIDE DEF new
  <2> QED BY <1>3, <2>1, <2>2
<1>5. CASE Succeed(t, n) \/ Stumble(t, n)
  <2> DEFINE new == [row[t] EXCEPT !.progress = 50]
  <2>1. new.parent = row[t].parent /\ new.status = row[t].status /\ new.plan = row[t].plan
    BY <1>1 DEF Row
  <2>2. Update(t, n, new) \/ row' = row
    BY <1>5 DEF Succeed, Stumble
  <2> HIDE DEF new
  <2> QED BY <1>2, <1>3, <2>1, <2>2
<1>6. CASE CompleteJob(t, n)
  <2> DEFINE new == [row[t] EXCEPT !.status = "completed", !.progress = 100]
  <2>1. new.parent = row[t].parent /\ new.status = "completed"
    BY <1>1 DEF Row
  <2>2. Update(t, n, new)
    BY <1>6 DEF CompleteJob
  <2> HIDE DEF new
  <2> QED BY <1>3, <2>1, <2>2
<1>7. CASE FailJob(t, n)
  <2>1. PICK p \in Plans[task[t].fp] :
          Update(t, n, [row[t] EXCEPT !.status = "failed", !.plan = p])
    BY <1>7 DEF FailJob
  <2> DEFINE new == [row[t] EXCEPT !.status = "failed", !.plan = p]
  <2>2. new.parent = row[t].parent /\ new.plan = p
    BY <1>1 DEF Row
  <2>3. Update(t, n, new)
    BY <2>1
  <2> HIDE DEF new
  <2> QED BY <1>3, <2>1, <2>2, <2>3
<1>8. CASE Ack(t, n) \/ Nack(t, n)
  BY <1>2, <1>8 DEF Ack, Nack
<1> QED BY <1>4, <1>5, <1>6, <1>7, <1>8 DEF Handler

\* A new task has no row yet: no row and no request depends on what it was.
LEMMA LineageOfEnqueue ==
  ASSUME IdempotencyInv, LineageInv, NEW c \in Clients, NEW t \in Ids, Enqueue(c, t)
  PROVE  LineageInv'
<1>1. TypeInv /\ TypeOK /\ ~RowExists(t)
  BY DEF IdempotencyInv, TypeInv, RowHasTask, Enqueue
<1>2. /\ UNCHANGED <<row, failedOnce>>
      /\ \A u \in Ids \ {t} : task'[u] = task[u]
  BY <1>1 DEF Enqueue, TypeOK
<1>3. \A d \in Clients : /\ client'[d].todo = client[d].todo
                         /\ client'[d].origin = client[d].origin
                         /\ client[d].origin \in Ids \cup {NoId}
  BY <1>1 DEF Enqueue, TypeOK, Client
<1>4. \A u \in Ids : row[u].parent \in Ids \cup {NoId}
  BY <1>1 DEF TypeOK, Row
<1>5. FailedHasOwnPlan'
  BY <1>1, <1>2 DEF LineageInv, FailedHasOwnPlan, RowExists
<1>6. RetriesWhatWasAsked'
  BY <1>1, <1>2, <1>3 DEF LineageInv, RetriesWhatWasAsked, RowExists, AskedBy
<1>7. RetryLineage'
  BY <1>1, <1>2, <1>4 DEF LineageInv, RetryLineage, RowExists
<1> QED BY <1>5, <1>6, <1>7 DEF LineageInv

\* A new row has the origin of its request as parent; it is nobody's parent.
LEMMA LineageOfInsert ==
  ASSUME IdempotencyInv, LineageInv, NEW c \in Clients, Insert(c)
  PROVE  LineageInv'
<1>1. TypeInv /\ TypeOK
  BY DEF IdempotencyInv, TypeInv
<1>2. PICK t \in Ids : t = client[c].id
  BY <1>1 DEF Insert, TypeInv, Pursuing
<1>3. ~RowExists(t) /\ task[t].fp = Head(client[c].todo)
  BY <1>2 DEF Insert, IdempotencyInv, InsertOwnsTask
<1>4. PICK o \in Ids \cup {NoId} : o = client[c].origin
  BY <1>1 DEF TypeOK, Client
<1>5. /\ \A d \in Clients \ {c} : client'[d] = client[d]
      /\ \/ client'[c].origin = NoId
         \/ /\ client'[c].origin = client[c].origin
            /\ \A i \in DOMAIN client'[c].todo :
                 \E j \in DOMAIN client[c].todo : client'[c].todo[i] = client[c].todo[j]
      /\ UNCHANGED <<task, failedOnce>>
  BY <1>1, LineageOfRequest DEF Insert
<1> DEFINE new == [NoRow EXCEPT !.status = "queued", !.parent = o]
<1>6. new.status = "queued" /\ new.parent = o
  BY DEF NoRow
<1>7. row' = row \/ row' = [row EXCEPT ![t] = new]
  BY <1>2, <1>4 DEF Insert
<1> HIDE DEF new
<1>8. /\ \A u \in Ids \ {t} : row'[u] = row[u]
      /\ row'[t] = row[t] \/ row'[t] = new
  BY <1>1, <1>7 DEF TypeOK
<1>9. o # NoId => /\ o # t /\ o \in Ids /\ RowExists(o) /\ o \in failedOnce
                  /\ AskedBy(o, task[t].fp)
  <2>1. client[c].todo \in Seq(Fps) /\ client[c].todo # << >>
    BY <1>1 DEF Insert, TypeOK, Client, Pursuing, TypeInv
  <2>2. 1 \in DOMAIN client[c].todo /\ client[c].todo[1] = Head(client[c].todo)
    <3> DEFINE s == client[c].todo
    <3> HIDE DEF s
    <3>1. s \in Seq(Fps) /\ s # << >>
      BY <2>1 DEF s
    <3>2. 1 \in DOMAIN s /\ s[1] = Head(s)
      BY <3>1, LenProperties, EmptySeq
    <3> QED BY <3>2 DEF s
  <2> QED BY <1>3, <1>4, <2>2 DEF LineageInv, RetriesWhatWasAsked
<1>10. FailedHasOwnPlan'
  BY <1>5, <1>6, <1>8 DEF LineageInv, FailedHasOwnPlan
<1>11. RetriesWhatWasAsked'
  <2>1. \A u \in Ids : RowExists(u) => RowExists(u)'
    BY <1>3, <1>8 DEF RowExists
  <2>2. \A d \in Clients : client[d].origin # NoId => client[d].origin \in Ids
    BY <1>1 DEF TypeOK, Client
  <2>3. \A u, f : AskedBy(u, f)' <=> AskedBy(u, f)
    BY <1>5 DEF AskedBy
  <2> QED BY <1>5, <2>1, <2>2, <2>3 DEF LineageInv, RetriesWhatWasAsked
<1>12. RetryLineage'
  <2>1. \A u \in Ids : RowExists(u) /\ row[u].parent # NoId
          => row[u].parent \in Ids \ {t}
    BY <1>1, <1>3 DEF LineageInv, RetryLineage, TypeOK, Row
  <2>2. \A u \in Ids \ {t} : RowExists(u)' <=> RowExists(u)
    BY <1>8 DEF RowExists
  <2>3. row'[t] = new \/ ~RowExists(t)'
    BY <1>3, <1>8 DEF RowExists
  <2>4. ASSUME NEW u \in Ids, NEW p, p = row'[u].parent, RowExists(u)', p # NoId
        PROVE  /\ RowExists(p)' /\ p \in failedOnce /\ row'[p].parent # u /\ p # u
               /\ AskedBy(p, task[u].fp)
    <3>1. CASE u = t
      <4>1. p = o
        BY <1>6, <2>3, <2>4, <3>1
      <4>2. row[o].parent # t
        BY <1>9, <2>1, <2>4, <4>1, NoIdAssumption
      <4> QED BY <1>8, <1>9, <2>2, <2>4, <3>1, <4>1, <4>2
    <3>2. CASE u # t
      <4>1. row'[u] = row[u] /\ RowExists(u) /\ p = row[u].parent
        BY <1>8, <2>2, <2>4, <3>2
      <4>2. p \in Ids \ {t}
        BY <2>1, <2>4, <4>1
      <4>3. RowExists(p) /\ p \in failedOnce /\ row[p].parent # u /\ p # u
            /\ AskedBy(p, task[u].fp)
        BY <2>4, <4>1 DEF LineageInv, RetryLineage, AskedBy
      <4> QED BY <1>8, <2>2, <4>2, <4>3
    <3> QED BY <3>1, <3>2
  <2> QED BY <1>5, <2>4 DEF RetryLineage, AskedBy
<1> QED BY <1>10, <1>11, <1>12 DEF LineageInv

LEMMA LineageStep ==
  ASSUME IdempotencyInv, LineageInv, [Next]_vars
  PROVE  LineageInv'
<1>1. TypeInv /\ TypeOK
  BY DEF IdempotencyInv, TypeInv
<1>2. ASSUME NEW c \in Clients, Advance(c) \/ Reject(c), UNCHANGED <<task, row, failedOnce>>
      PROVE  LineageInv'
  <2>1. \/ client'[c].origin = NoId
        \/ /\ client'[c].origin = client[c].origin
           /\ \A i \in DOMAIN client'[c].todo :
                \E j \in DOMAIN client[c].todo : client'[c].todo[i] = client[c].todo[j]
    BY <1>1, <1>2, LineageOfRequest
  <2>2. client'[c].origin = NoId \/
          /\ RowExists(client'[c].origin) /\ client'[c].origin \in failedOnce
          /\ \A i \in DOMAIN client'[c].todo : AskedBy(client'[c].origin, client'[c].todo[i])
    BY <2>1 DEF LineageInv, RetriesWhatWasAsked
  <2> QED BY <1>1, <1>2, <2>2, LineageOfRequest, LineageOfApi
<1>3. ASSUME NEW c \in Clients, NEW step, client' = [client EXCEPT ![c].pc = step],
             UNCHANGED <<task, row, failedOnce>>
      PROVE  LineageInv'
  <2>1. /\ client'[c].todo = client[c].todo /\ client'[c].origin = client[c].origin
        /\ \A d \in Clients \ {c} : client'[d] = client[d]
    BY <1>1, <1>3 DEF TypeOK, Client
  <2>2. client'[c].origin = NoId \/
          /\ RowExists(client'[c].origin) /\ client'[c].origin \in failedOnce
          /\ \A i \in DOMAIN client'[c].todo : AskedBy(client'[c].origin, client'[c].todo[i])
    BY <2>1 DEF LineageInv, RetriesWhatWasAsked
  <2> QED BY <1>1, <1>3, <2>1, <2>2, LineageOfApi
<1>4. ASSUME NEW c \in Clients, PreCheck(c) \/ Check(c) \/ EnqueueRefused(c)
      PROVE  LineageInv'
  BY <1>2, <1>3, <1>4 DEF PreCheck, Check, EnqueueRefused
<1>5. ASSUME NEW c \in Clients, NEW f \in Fps, CreateRequest(c, f) PROVE LineageInv'
  <2> DEFINE new == [Idle EXCEPT !.pc = "precheck", !.todo = <<f>>]
  <2>1. new.origin = NoId
    BY DEF Idle
  <2>2. client' = [client EXCEPT ![c] = new] /\ UNCHANGED <<task, row, failedOnce>>
    BY <1>5 DEF CreateRequest
  <2> HIDE DEF new
  <2>3. client'[c] = new /\ \A d \in Clients \ {c} : client'[d] = client[d]
    BY <1>1, <2>2 DEF TypeOK
  <2> QED BY <1>1, <2>1, <2>2, <2>3, LineageOfApi
<1>6. ASSUME NEW c \in Clients, NEW t \in Ids, Retry(c, t) PROVE LineageInv'
  <2> DEFINE new == [pc |-> "check", todo |-> row[t].plan, origin |-> t, id |-> NoId]
  <2>1. new.origin = t /\ new.todo = row[t].plan
    OBVIOUS
  <2>2. /\ client' = [client EXCEPT ![c] = new] /\ UNCHANGED <<task, row, failedOnce>>
        /\ row[t].status = "failed"
    BY <1>6 DEF Retry
  <2> HIDE DEF new
  <2>3. client'[c] = new /\ \A d \in Clients \ {c} : client'[d] = client[d]
    BY <1>1, <2>2 DEF TypeOK
  <2>4. RowExists(t) /\ t \in failedOnce /\ row[t].plan \in Plans[task[t].fp]
    BY <2>2 DEF RowExists, IdempotencyInv, FailedIsRemembered, LineageInv, FailedHasOwnPlan
  <2>5. \A i \in DOMAIN row[t].plan : AskedBy(t, row[t].plan[i])
    BY <2>4 DEF AskedBy
  <2>6. /\ RowExists(client'[c].origin) /\ client'[c].origin \in failedOnce
        /\ \A i \in DOMAIN client'[c].todo : AskedBy(client'[c].origin, client'[c].todo[i])
    BY <2>1, <2>3, <2>4, <2>5
  <2> QED BY <1>1, <2>2, <2>3, <2>6, LineageOfApi
<1>7. ASSUME NEW t \in Ids, NEW n \in Slots,
             Deliver(t, n) \/ Abandon(t, n) \/ Recover(t, n) \/ Environment(t, n)
      PROVE  LineageInv'
  <2>1. WorkerStep /\ row' = row
    BY <1>7, QueueIsWorkerStep
       DEF Deliver, Abandon, Recover, Environment, Expire, Crash, Requeue, Exit
  <2>2. FailedHasOwnPlan'
    BY <2>1 DEF WorkerStep, LineageInv, FailedHasOwnPlan
  <2> QED BY <1>1, <2>1, <2>2, LineageOfWorkers
<1>8. ASSUME UNCHANGED vars PROVE LineageInv'
  BY <1>8 DEF vars, LineageInv, FailedHasOwnPlan, RetriesWhatWasAsked, RetryLineage,
              RowExists, AskedBy
<1> QED BY <1>4, <1>5, <1>6, <1>7, <1>8, LineageOfEnqueue, LineageOfInsert, LineageOfHandler
        DEF Next, Api, Queue

\* Retry reads the failed row once, and createOrReuseJob inserts rows much later
\* (job.go:497): what retry_of_job_id points to has failed and asked for this
\* request all the same, and no two jobs are retries of each other.
THEOREM RetriesHaveLineage == Spec => []RetryLineage
<1>1. Init => LineageInv
  BY DEF Init, LineageInv, FailedHasOwnPlan, RetriesWhatWasAsked, RetryLineage, RowExists,
         NoRow, Idle
<1>2. IdempotencyInv /\ LineageInv /\ [Next]_vars => LineageInv'
  BY LineageStep
<1>3. LineageInv => RetryLineage
  BY DEF LineageInv
<1> QED BY <1>1, <1>2, <1>3, IdempotencyInvariant, PTL DEF Spec
=============================================================================
