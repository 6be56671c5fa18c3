----------------------------- MODULE JobContract -----------------------------
(***************************************************************************)
(* What becomes of a job as long as every write of a worker arrives and no *)
(* handler outlives a shutdown: the queue delivers it a bounded number of  *)
(* times, every delivery says at most once how it ended, in the row if it  *)
(* exists by then, and nothing changes the row in any other way.           *)
(***************************************************************************)
EXTENDS Naturals

CONSTANT Jobs

VARIABLE job  \* job[j]: the delivery it is in, its status, the retries left

Phases == {"unknown", "waiting", "running", "succeeded", "failed", "lost", "over"}
Statuses == {"none", "queued", "processing", "completed", "failed"}

Unknown == [phase |-> "unknown", status |-> "none", left |-> 0]

ContractInit == job = [j \in Jobs |-> Unknown]

\* The delivery of j gets from one of the phases to the next one, and writes
\* the status s, if there is a row.
Write(j, phases, next, s) ==
  /\ job[j].phase \in phases
  /\ job' = [job EXCEPT ![j].phase = next,
                        ![j].status = IF job[j].status = "none" THEN "none" ELSE s]

Move(j, phases, next) == Write(j, phases, next, job[j].status)

\* The queue takes the job, with so many retries.
Accept(j, retries) ==
  /\ job[j] = Unknown
  /\ job' = [job EXCEPT ![j].phase = "waiting", ![j].left = retries]

\* The row appears: not before the queue has taken the job, and once only.
Record(j) ==
  /\ job[j].phase # "unknown" /\ job[j].status = "none"
  /\ job' = [job EXCEPT ![j].status = "queued"]

Begin(j) == Write(j, {"waiting"}, "running", "processing")
Complete(j) == Write(j, {"running"}, "succeeded", "completed")
Fail(j) == Write(j, {"running"}, "failed", "failed")

\* The worker crashes, or the context of the delivery ends: it writes no more.
Lose(j) == Move(j, {"waiting", "running", "succeeded", "failed"}, "lost")

\* A delivery that did not succeed is repeated, on account of the retries.
Repeat(j) ==
  /\ job[j].phase \in {"failed", "lost"} /\ job[j].left > 0
  /\ job' = [job EXCEPT ![j].phase = "waiting", ![j].left = job[j].left - 1]

\* The queue lets go of the job. Of a lost one it may do so early: its handler
\* can return without an error although its last write was ignored.
End(j) ==
  /\ job[j].phase = "failed" => job[j].left = 0
  /\ Move(j, {"succeeded", "failed", "lost"}, "over")

ContractNext ==
  \E j \in Jobs :
    \/ \E retries \in {job'[j].left} : Accept(j, retries)
    \/ Record(j) \/ Begin(j) \/ Complete(j) \/ Fail(j)
    \/ Lose(j) \/ Repeat(j) \/ End(j)

ContractSpec == ContractInit /\ [][ContractNext]_job
=============================================================================
