------------------------------- MODULE Cleanup -------------------------------
(***************************************************************************)
(* DELETE /api/media/:hash (internal/cleanup/cleaner.go) against everything *)
(* else that goes on for one content hash: the API creates and retries     *)
(* jobs, asynq delivers their tasks, handlers upload (JobLifecycle), and   *)
(* API processes serve and cache renditions (ImageService).                *)
(*                                                                         *)
(* The cleaner takes no lock and stops nobody. What it reports as gone can *)
(* come back through a few races; the properties say through which, and    *)
(* that there are no others.                                               *)
(***************************************************************************)
EXTENDS JobLifecycle, ImageService

CONSTANT Attempts  \* cancelAttempts

ASSUME AttemptsAssumption == Attempts \in Nat \ {0}

VARIABLES
  cleaner,  \* the cleanup in progress, or the last one
  objects,  \* jobs with objects under images/, videos/ or audio/ of the hash
  keyed,    \* the hash has a row in stream_encryption_keys
  slipped,  \* history: jobs that got past the last cancellation
  excused   \* history: renditions that got past the index

cleanerVars == <<cleaner, objects, keyed, slipped, excused>>
allVars == <<vars, imageVars, cleanerVars>>

Stages == {"cancel", "media", "caches", "key", "index", "rows"}

Cleaner == [pc : {"idle", "list", "cancel", "inspect", "objects", "delete",
                  "images", "purge", "unstore", "decide", "key", "rows"},
            proc : Procs, jobs : SUBSET Ids, job : Ids \cup {NoId},
            tries : 0 .. Attempts, found : SUBSET Ids, images : SUBSET Images,
            image : Images \cup {NoImage}, stage : [Stages -> {"pending", "done", "failed"}]]

Untouched == [s \in Stages |-> "pending"]

CleanupInit ==
  /\ Init /\ ImageInit
  /\ cleaner \in [pc : {"idle"}, proc : Procs, jobs : {{}}, job : {NoId},
                  tries : {0}, found : {{}}, images : {{}}, image : {NoImage},
                  stage : {Untouched}]
  /\ objects = {} /\ keyed = FALSE /\ slipped = {} /\ excused = {}

\* Mutant of ConfirmedGone: the cancellation need not have worked.
ConfirmedWithoutCancel(stage) == stage["media"] = "done" /\ stage["caches"] = "done"

ConfirmedGone(stage) == \A s \in {"cancel", "media", "caches"} : stage[s] = "done"

-----------------------------------------------------------------------------
(***************************************************************************)
(* The cleaner, one call to another system at a time.                      *)
(***************************************************************************)

Go(pc) == cleaner' = [cleaner EXCEPT !.pc = pc]

\* The stage ends with a status, the next one begins at pc.
End(s, status, pc) == cleaner' = [cleaner EXCEPT !.stage[s] = status, !.pc = pc]

Uploading(t) == \E n \in Slots : run[t][n] \in {"start", "work"}
InQueue(t) == task[t].state \in {"pending", "active"}

\* A cleanup is called at process p.
Start(p) ==
  /\ cleaner.pc = "idle"
  /\ cleaner' = [cleaner EXCEPT !.pc = "list", !.proc = p, !.stage = Untouched,
                                !.jobs = {}, !.images = {}, !.found = {}]
  /\ UNCHANGED <<vars, imageVars, objects, keyed, slipped, excused>>

\* Mutant of Listed: failed jobs are passed over, too.
ListedUnfailed == {t \in Ids : row[t].status \in {"queued", "processing"}}

\* The jobs the cleanup is going to cancel.
Listed == {t \in Ids : RowExists(t) /\ row[t].status # "completed"}

\* ListJobsByHash: jobs without a row yet are not seen, completed ones are
\* passed over, even when their task is being delivered again.
ListJobs ==
  /\ cleaner.pc = "list"
  /\ \/ /\ cleaner' = [cleaner EXCEPT !.pc = "cancel", !.jobs = Listed]
        /\ slipped' = {t \in Ids : \/ ~RowExists(t)
                                   \/ row[t].status = "completed" /\ (InQueue(t) \/ Uploading(t))}
     \/ End("cancel", "failed", "objects") /\ UNCHANGED slipped
  /\ UNCHANGED <<vars, imageVars, objects, keyed, excused>>

\* CancelProcessing of the next job, or of one tried before: a message to the
\* workers that ends the context of the handler, if it gets there in time.
CancelProcessing ==
  /\ cleaner.pc = "cancel"
  /\ \/ /\ cleaner.jobs = {}
        /\ End("cancel", "done", "objects")
        /\ UNCHANGED expired
     \/ \E t \in cleaner.jobs :
          /\ cleaner.job \in {NoId, t}
          /\ cleaner' = [cleaner EXCEPT !.pc = "inspect", !.job = t]
          /\ expired' \in {expired, expired \cup
               {<<t, n>> : n \in {m \in Slots : Current(t, m) /\ Alive(t, m)}}}
  /\ UNCHANGED <<client, task, row, run, media, announced, failedOnce, raced, faults,
                 imageVars, objects, keyed, slipped, excused>>

\* The job is off the list; a handler that still uploads, or a task that was
\* not found only because Redis could not be reached, has slipped.
Cancelled(t) ==
  /\ cleaner' = [cleaner EXCEPT !.pc = "cancel", !.jobs = cleaner.jobs \ {t},
                                !.job = NoId, !.tries = 0]
  /\ slipped' = IF Uploading(t) \/ task'[t].state \in {"pending", "active"}
                  THEN slipped \cup {t} ELSE slipped

\* Mutant of InspectTask: the attempts are not counted.
InspectUncounted ==
  LET t == cleaner.job IN
  /\ cleaner.pc = "inspect"
  /\ \/ /\ task[t].state \in {"none", "done", "pending", "archived"}
        /\ task' = [task EXCEPT ![t].state = "done"]
        /\ Cancelled(t)
     \/ /\ task[t].state = "active"
        /\ UNCHANGED <<task, slipped>>
        /\ cleaner' = [cleaner EXCEPT !.pc = "cancel"]
  /\ UNCHANGED <<client, row, WorkerVars, failedOnce, raced, faults, imageVars,
                 objects, keyed, excused>>

\* Mutant of InspectTask: the last attempt is one too many.
InspectOnceMore ==
  LET t == cleaner.job IN
  /\ cleaner.pc = "inspect"
  /\ \/ /\ task[t].state # "active"
        /\ task' = [task EXCEPT ![t].state = "done"]
        /\ Cancelled(t)
     \/ /\ task[t].state = "active"
        /\ UNCHANGED <<task, slipped>>
        /\ IF cleaner.tries < Attempts
             THEN cleaner' = [cleaner EXCEPT !.pc = "cancel", !.tries = cleaner.tries + 1]
             ELSE cleaner' = [cleaner EXCEPT !.pc = "objects", !.tries = cleaner.tries + 1,
                                             !.job = NoId, !.stage["cancel"] = "failed"]
  /\ UNCHANGED <<client, row, WorkerVars, failedOnce, raced, faults, imageVars,
                 objects, keyed, excused>>

\* GetTaskInfo and DeleteTask: asynq deletes any task that is not active. Any
\* error of GetTaskInfo counts as "not found".
InspectTask ==
  LET t == cleaner.job IN
  /\ cleaner.pc = "inspect"
  /\ \/ task[t].state \in {"none", "done"} /\ UNCHANGED task /\ Cancelled(t)
     \/ /\ task[t].state \in {"pending", "archived"}
        /\ task' = [task EXCEPT ![t].state = "done"]
        /\ Cancelled(t)
     \/ UNCHANGED task /\ Cancelled(t)                       \* Redis unreachable
     \/ /\ task[t].state \in {"active", "pending", "archived"}  \* or DeleteTask fails
        /\ UNCHANGED <<task, slipped>>
        /\ IF cleaner.tries + 1 < Attempts
             THEN cleaner' = [cleaner EXCEPT !.pc = "cancel", !.tries = cleaner.tries + 1]
             ELSE cleaner' = [cleaner EXCEPT !.pc = "objects", !.tries = 0, !.job = NoId,
                                             !.jobs = {}, !.stage["cancel"] = "failed"]
  /\ UNCHANGED <<client, row, WorkerVars, failedOnce, raced, faults, imageVars,
                 objects, keyed, excused>>

\* deletePrefix lists the objects of the hash, in three calls; here they are one.
ListObjects ==
  /\ cleaner.pc = "objects"
  /\ \/ cleaner' = [cleaner EXCEPT !.pc = "delete", !.found = objects]
     \/ End("media", "failed", "images")
  /\ UNCHANGED <<vars, imageVars, objects, keyed, slipped, excused>>

\* ... and deletes them one by one until a Delete fails.
DeleteObject ==
  /\ cleaner.pc = "delete"
  /\ \/ /\ cleaner.found = {}
        /\ End("media", "done", "images")
        /\ UNCHANGED objects
     \/ \E t \in cleaner.found :
          /\ cleaner' = [cleaner EXCEPT !.found = cleaner.found \ {t}]
          /\ objects' = objects \ {t}
     \/ /\ cleaner.found # {}
        /\ cleaner' = [cleaner EXCEPT !.found = {}, !.pc = "images", !.stage["media"] = "failed"]
        /\ UNCHANGED objects
  /\ UNCHANGED <<vars, imageVars, keyed, slipped, excused>>

\* ListImageCacheEntriesByHash.
ListImages ==
  /\ cleaner.pc = "images"
  /\ \/ cleaner' = [cleaner EXCEPT !.pc = "purge", !.images = index]
     \/ cleaner' = [cleaner EXCEPT !.pc = "decide", !.stage["caches"] = "failed",
                                   !.stage["index"] = "failed"]
  /\ UNCHANGED <<vars, imageVars, objects, keyed, slipped>>

\* Mutant of PurgeMemory: the memory cache is left to expire.
PurgeNoMemory ==
  /\ cleaner.pc = "purge"
  /\ \E i \in cleaner.images : cleaner' = [cleaner EXCEPT !.pc = "unstore", !.image = i]
  /\ UNCHANGED <<vars, imageVars, objects, keyed, slipped>>

\* The next tracked rendition goes from the memory of this process ...
PurgeMemory ==
  /\ cleaner.pc = "purge"
  /\ \E i \in cleaner.images :
       /\ mem' = [mem EXCEPT ![cleaner.proc] = mem[cleaner.proc] \ {i}]
       /\ cleaner' = [cleaner EXCEPT !.pc = "unstore", !.image = i]
  /\ UNCHANGED <<vars, request, stored, index, hungup, untracked, refused, objects, keyed, slipped>>

\* Mutant of PurgeStored: the error of Delete is not looked at.
PurgeStoredUnchecked ==
  /\ cleaner.pc = "unstore"
  /\ cleaner' = [cleaner EXCEPT !.pc = "purge", !.image = NoImage,
                                !.images = cleaner.images \ {cleaner.image}]
  /\ stored' \in {stored, stored \ {cleaner.image}}
  /\ UNCHANGED <<vars, request, mem, index, hungup, untracked, refused, objects, keyed, slipped>>

\* ... and then from the bucket, from where a request may have read it meanwhile.
PurgeStored ==
  /\ cleaner.pc = "unstore"
  /\ \/ /\ cleaner' = [cleaner EXCEPT !.pc = "purge", !.image = NoImage,
                                      !.images = cleaner.images \ {cleaner.image}]
        /\ stored' = stored \ {cleaner.image}
     \/ /\ cleaner' = [cleaner EXCEPT !.pc = "decide", !.image = NoImage, !.images = {},
                                      !.stage["caches"] = "failed"]
        /\ UNCHANGED stored
  /\ UNCHANGED <<vars, request, mem, index, hungup, untracked, refused, objects, keyed, slipped>>

\* All have gone: DeleteImageCacheEntriesByHash deletes the rows there are now.
DeleteIndex ==
  /\ cleaner.pc = "purge" /\ cleaner.images = {}
  /\ \/ /\ cleaner' = [cleaner EXCEPT !.pc = "decide", !.stage["caches"] = "done",
                                      !.stage["index"] = "done"]
        /\ index' = {}
     \/ /\ cleaner' = [cleaner EXCEPT !.pc = "decide", !.stage["caches"] = "done",
                                      !.stage["index"] = "failed"]
        /\ UNCHANGED index
  /\ UNCHANGED <<vars, request, mem, stored, hungup, untracked, refused,
                 objects, keyed, slipped>>

\* Not confirmed: 503, and the caller is to try again.
Decide ==
  /\ cleaner.pc = "decide"
  /\ Go(IF ConfirmedGone(cleaner.stage) THEN "key" ELSE "idle")
  /\ UNCHANGED <<vars, imageVars, objects, keyed, slipped, excused>>

DeleteKey ==
  /\ cleaner.pc = "key"
  /\ \/ End("key", "done", "rows") /\ keyed' = FALSE
     \/ End("key", "failed", "rows") /\ UNCHANGED keyed
  /\ UNCHANGED <<vars, imageVars, objects, slipped, excused>>

\* DeleteJobsByHash, and the answer 204, with or without warnings.
DeleteRows ==
  /\ cleaner.pc = "rows"
  /\ \/ End("rows", "done", "idle") /\ row' = [t \in Ids |-> NoRow]
     \/ End("rows", "failed", "idle") /\ UNCHANGED row
  /\ UNCHANGED <<client, task, WorkerVars, failedOnce, raced, faults, imageVars,
                 objects, keyed, slipped, excused>>

-----------------------------------------------------------------------------
(***************************************************************************)
(* The composition.                                                        *)
(***************************************************************************)

\* A handler at work stores a stream key, if its context still lets it ...
StoreKey(t, n) ==
  /\ run[t][n] = "work" /\ <<t, n>> \notin expired
  /\ keyed' = TRUE
  /\ UNCHANGED <<vars, imageVars, cleaner, objects, slipped, excused>>

\* ... and puts objects; the last Put can be carried out although its context ended.
PutObject(t, n) ==
  /\ run[t][n] = "work"
  /\ objects' = objects \cup {t}
  /\ UNCHANGED <<vars, imageVars, cleaner, keyed, slipped, excused>>

\* A job that is going to be reported has uploaded something.
JobStep ==
  /\ Next
  /\ \A t \in Ids, n \in Slots : run[t][n] = "work" /\ run'[t][n] = "complete" => t \in objects
  /\ UNCHANGED <<imageVars, cleanerVars>>

Busy == {request[r].image : r \in {q \in Requests :
           request[q].pc \notin {"idle", "failed", "done"} \/ request[q].put}}

InImageStage == cleaner.pc \in {"purge", "unstore"}

\* A request that is under way while the cleaner works through the index has an
\* excuse, until the rendition is tracked anew.
ImageStep ==
  /\ ImageNext
  /\ excused' = IF InImageStage THEN excused \cup Busy' ELSE excused \ (index' \ index)
  /\ UNCHANGED <<vars, cleaner, objects, keyed, slipped>>

\* So has what other processes remember when the index is deleted.
CleanImages ==
  /\ ListImages \/ PurgeMemory \/ PurgeStored \/ DeleteIndex
  /\ excused' = excused \cup
       (IF InImageStage' THEN Busy ELSE {}) \cup
       (IF index' # index THEN UNION {mem[p] : p \in Procs \ {cleaner.proc}} ELSE {})

CleanerStep == ListJobs \/ CancelProcessing \/ InspectTask \/ ListObjects \/ DeleteObject
               \/ CleanImages \/ Decide \/ DeleteKey \/ DeleteRows

CleanupNext ==
  \/ JobStep \/ ImageStep \/ CleanerStep
  \/ \E p \in Procs : Start(p)
  \/ \E t \in Ids, n \in Slots : StoreKey(t, n) \/ PutObject(t, n)

CleanupSpec == CleanupInit /\ [][CleanupNext]_allVars /\ WF_allVars(CleanerStep)
-----------------------------------------------------------------------------

\* Every variable keeps its type.
CleanupTypeOK ==
  /\ TypeOK /\ ImageTypeOK
  /\ cleaner \in Cleaner
  /\ objects \subseteq Ids /\ slipped \subseteq Ids
  /\ keyed \in BOOLEAN
  /\ excused \subseteq Images

\* When a cleanup has confirmed that the media is gone, no object of a job is
\* left and nothing is left that could put one, except for jobs that slipped:
\* their row did not exist when the jobs were listed, it said "completed" while
\* the task was being delivered again, Redis could not be asked, or the handler
\* went on uploading after asynq had let go of its task.
ConfirmedIsGone ==
  ConfirmedGone(cleaner.stage) =>
    \A t \in Ids : t \in objects \/ InQueue(t) \/ Uploading(t) => t \in slipped

\* The stream key and the rows tell what there is to clean up. They are deleted
\* only when everything else is, whatever fails in between, so that the caller
\* can repeat an incomplete cleanup.
RecordsGoLast ==
  [][(keyed /\ ~keyed') \/ (\E t \in Ids : RowExists(t) /\ row'[t] = NoRow)
     => \A t \in Ids : t \in objects \/ InQueue(t) => t \in slipped]_allVars

\* So does the index: its rows are deleted only when neither the bucket nor the
\* memory of the process that cleans holds the rendition, unless a request for it
\* met the cleanup, and whatever fails or is cached anew in between.
IndexGoesLast ==
  [][\A i \in index \ index' : i \in stored' \cup mem'[cleaner.proc] => i \in excused']_allVars

\* Every cached copy of a tracked source, in the bucket or in the memory of a
\* process, is in the index, by which the next cleanup finds it, unless its
\* request is still under way, its tracking failed, or it met a cleanup.
CachedIsTracked ==
  \A i \in Hashed \X Options :
    i \in stored \cup UNION {mem[p] : p \in Procs} => i \in index \cup Busy \cup untracked \cup excused

\* A cleanup ends, however long a handler holds on to its task.
CleanupEnds == cleaner.pc # "idle" ~> cleaner.pc = "idle"
=============================================================================
