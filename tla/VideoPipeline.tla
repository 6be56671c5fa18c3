---------------------------- MODULE VideoPipeline ----------------------------
(***************************************************************************)
(* What the handlers of the video jobs do for one source hash: video:full  *)
(* (handlers/full.go) and the jobs for its parts (cover.go, preview.go,    *)
(* transcode.go) that its retry plan asks for. All of them write the same  *)
(* objects of the media bucket and, when they encrypt, the same row of     *)
(* stream_encryption_keys.                                                 *)
(*                                                                         *)
(* Which job is delivered when is JobLifecycle's matter: here any handler  *)
(* can begin any job at any time, so that retries, redeliveries and jobs   *)
(* of other clients for the same hash all overlap.                         *)
(***************************************************************************)
EXTENDS Naturals, FiniteSets

CONSTANTS
  Workers,   \* handler goroutines; each runs one delivery (the bound on them)
  Keys,      \* content keys GenerateKey can return
  Clear,     \* "not encrypted"
  Absent,    \* "no such object"
  NFiles     \* how many files the packager writes

ASSUME NFilesAssumption == NFiles \in Nat \ {0}
ASSUME KeysAssumption == Clear \notin Keys /\ Absent \notin Keys /\ Clear # Absent

Images == {"cover", "preview"}
Parts == Images \cup {"transcode"}
Kinds == {"full"} \cup Parts
Files == 1 .. NFiles

\* The parts a job of kind k is to produce.
Wanted(k) == IF k = "full" THEN Parts ELSE {k}

VARIABLES
  worker,   \* worker[w]: the delivery w handles
  images,   \* the images that are in the media bucket
  files,    \* files[f]: the key the HLS file f was encrypted with
  stored,   \* the content key in stream_encryption_keys
  used,     \* keys that were generated
  disturbed \* history: packagings that another one overlapped or followed

vars == <<worker, images, files, stored, used, disturbed>>

Pcs == {"idle", "source", "extract", "store", "prepare", "encrypt", "transcode",
        "publish", "completed", "failed", "dead"}
StageStates == {"pending", "ready", "failed", "skipped"}

Worker == [kind : Kinds, encrypt : BOOLEAN, pc : Pcs,
           tried : [Images -> {"no", "ok", "err"}], stage : [Parts -> StageStates],
           key : Keys \cup {Clear}, next : 1 .. NFiles + 1, plan : SUBSET Kinds]

\* NewVideoFullResult: every stage is pending.
Fresh == [kind |-> "full", encrypt |-> FALSE, pc |-> "idle",
          tried |-> [p \in Images |-> "no"], stage |-> [p \in Parts |-> "pending"],
          key |-> Clear, next |-> 1, plan |-> {}]

Init ==
  /\ worker = [w \in Workers |-> Fresh]
  /\ images = {}
  /\ files = [f \in Files |-> Absent]
  /\ stored = Absent
  /\ used = {}
  /\ disturbed = {}

MediaVars == <<images, files, stored, used, disturbed>>

Full(w) == worker[w].kind = "full"
Stage(w, p) == worker[w].stage[p]
SetStage(w, p, s) == [worker[w].stage EXCEPT ![p] = s]

\* The images the job wants, and those of them that failed.
WantedImages(w) == Wanted(worker[w].kind) \cap Images
FailedImages(w) == {p \in WantedImages(w) : Stage(w, p) = "failed"}

Goto(w, pc) == worker' = [worker EXCEPT ![w].pc = pc]

\* failJobWithResult (for a part: failJob, and the job can be retried as it is).
Fail(w, stage, plan) ==
  worker' = [worker EXCEPT ![w].pc = "failed", ![w].stage = stage, ![w].plan = plan]

-----------------------------------------------------------------------------

\* A handler is called with a task.
Begin(w, k, e) ==
  /\ worker[w].pc = "idle"
  /\ worker' = [worker EXCEPT ![w].pc = "source", ![w].kind = k, ![w].encrypt = e]
  /\ UNCHANGED MediaVars

Fetch(w) ==
  /\ worker[w].pc = "source"
  /\ Goto(w, IF worker[w].kind = "transcode" THEN "prepare" ELSE "extract")
  /\ UNCHANGED MediaVars

\* downloadToTemp fails: a full job skips every stage and asks for itself.
FetchFails(w) ==
  /\ worker[w].pc = "source"
  /\ Fail(w, IF Full(w) THEN [p \in Parts |-> "skipped"] ELSE worker[w].stage,
          {worker[w].kind})
  /\ UNCHANGED MediaVars

\* Cover and preview are extracted by two goroutines of an errgroup, which both
\* return nil: one failure does not stop the other.
Extract(w, p) ==
  /\ worker[w].pc = "extract"
  /\ p \in WantedImages(w) /\ worker[w].tried[p] = "no"
  /\ \E r \in {"ok", "err"} : worker' = [worker EXCEPT ![w].tried[p] = r]
  /\ UNCHANGED MediaVars

\* g.Wait().
Wait(w) ==
  /\ worker[w].pc = "extract"
  /\ \A p \in WantedImages(w) : worker[w].tried[p] # "no"
  /\ Goto(w, "store")
  /\ UNCHANGED MediaVars

\* Mutant of Store: a failed upload is not looked at.
StoreUnchecked(w, p) ==
  /\ worker[w].pc = "store"
  /\ p \in WantedImages(w) /\ Stage(w, p) = "pending"
  /\ images' \in {images, images \cup {p}}
  /\ worker' = [worker EXCEPT ![w].stage =
       SetStage(w, p, IF worker[w].tried[p] = "ok" THEN "ready" ELSE "failed")]
  /\ UNCHANGED <<files, stored, used, disturbed>>

\* The images are uploaded one after the other, the cover first; one that was
\* not extracted is not uploaded. An upload that fails may have been carried out.
Store(w, p) ==
  /\ worker[w].pc = "store"
  /\ p \in WantedImages(w) /\ Stage(w, p) = "pending"
  /\ p = "preview" /\ Full(w) => Stage(w, "cover") # "pending"
  /\ \/ /\ worker[w].tried[p] = "ok"
        /\ images' = images \cup {p}
        /\ worker' = [worker EXCEPT ![w].stage = SetStage(w, p, "ready")]
     \/ /\ images' \in {images, IF worker[w].tried[p] = "ok" THEN images \cup {p} ELSE images}
        /\ worker' = [worker EXCEPT ![w].stage = SetStage(w, p, "failed")]
  /\ UNCHANGED <<files, stored, used, disturbed>>

\* Mutant of Gate: the plan leaves out the transcode that was skipped.
GateForgets(w) ==
  /\ worker[w].pc = "store"
  /\ \A p \in WantedImages(w) : Stage(w, p) # "pending"
  /\ IF FailedImages(w) = {}
       THEN Goto(w, IF Full(w) THEN "prepare" ELSE "completed")
       ELSE Fail(w, SetStage(w, "transcode", "skipped"), FailedImages(w))
  /\ UNCHANGED MediaVars

\* Both uploads have been tried: a full job goes on to the transcode only when
\* both succeeded, otherwise it asks for what failed and for the transcode.
Gate(w) ==
  /\ worker[w].pc = "store"
  /\ \A p \in WantedImages(w) : Stage(w, p) # "pending"
  /\ \/ /\ FailedImages(w) # {}
        /\ IF Full(w)
             THEN Fail(w, SetStage(w, "transcode", "skipped"),
                       FailedImages(w) \cup {"transcode"})
             ELSE Fail(w, worker[w].stage, {worker[w].kind})
     \/ /\ FailedImages(w) = {}
        /\ Goto(w, IF Full(w) THEN "prepare" ELSE "completed")
  /\ UNCHANGED MediaVars

-----------------------------------------------------------------------------
(* The transcode stage, the same for video:full and video:transcode.        *)

InPackaging == {"encrypt", "transcode", "publish"}

\* The scratch directory is made; from here on the job is packaging.
Prepare(w) ==
  /\ worker[w].pc = "prepare"
  /\ Goto(w, IF worker[w].encrypt THEN "encrypt" ELSE "transcode")
  /\ LET rivals == {v \in Workers \ {w} : worker[v].pc \in InPackaging}
         past == {v \in Workers \ {w} : worker[v].pc = "completed"}
     IN  disturbed' = disturbed \cup rivals \cup past \cup (IF rivals = {} THEN {} ELSE {w})
  /\ UNCHANGED <<images, files, stored, used>>

\* Mutant of Encrypt: ON CONFLICT DO NOTHING.
EncryptKeepsOld(w, k) ==
  /\ worker[w].pc = "encrypt"
  /\ k \notin used
  /\ used' = used \cup {k}
  /\ stored' = IF stored = Absent THEN k ELSE stored
  /\ worker' = [worker EXCEPT ![w].pc = "transcode", ![w].key = k]
  /\ UNCHANGED <<images, files, disturbed>>

\* SetupHLSEncryption: a new key replaces the stored one, under the same id.
Encrypt(w, k) ==
  /\ worker[w].pc = "encrypt"
  /\ k \notin used
  /\ used' = used \cup {k}
  /\ stored' = k
  /\ worker' = [worker EXCEPT ![w].pc = "transcode", ![w].key = k]
  /\ UNCHANGED <<images, files, disturbed>>

Transcode(w) ==
  /\ worker[w].pc = "transcode"
  /\ Goto(w, "publish")
  /\ UNCHANGED MediaVars

\* Mutant of Publish: the upload does not stop after the last file.
PublishEndless(w) ==
  /\ worker[w].pc = "publish"
  /\ files' = [files EXCEPT ![worker[w].next] = worker[w].key]
  /\ worker' = [worker EXCEPT ![w].next = worker[w].next + 1]
  /\ UNCHANGED <<images, stored, used, disturbed>>

\* uploadHLSDir puts the files one by one, over whatever is there.
Publish(w) ==
  /\ worker[w].pc = "publish"
  /\ worker[w].next <= NFiles
  /\ files' = [files EXCEPT ![worker[w].next] = worker[w].key]
  /\ worker' = [worker EXCEPT ![w].next = worker[w].next + 1]
  /\ UNCHANGED <<images, stored, used, disturbed>>

\* Any step of the stage fails; what was stored or uploaded before stays. An
\* upsert or an upload that fails may have been carried out.
TranscodeFails(w) ==
  /\ worker[w].pc \in {"prepare"} \cup InPackaging
  /\ Fail(w, SetStage(w, "transcode", "failed"), {"transcode"})
  /\ \/ UNCHANGED <<stored, used>>
     \/ /\ worker[w].pc = "encrypt"
        /\ \E k \in Keys \ used : stored' = k /\ used' = used \cup {k}
  /\ \/ UNCHANGED files
     \/ /\ worker[w].pc = "publish" /\ worker[w].next <= NFiles
        /\ files' = [files EXCEPT ![worker[w].next] = worker[w].key]
  /\ UNCHANGED <<images, disturbed>>

\* Every file is uploaded: the job is completed.
Complete(w) ==
  /\ worker[w].pc = "publish"
  /\ worker[w].next = NFiles + 1
  /\ worker' = [worker EXCEPT ![w].pc = "completed",
                              ![w].stage = SetStage(w, "transcode", "ready")]
  /\ UNCHANGED MediaVars

\* The worker dies, or the handler's context is done and it cannot go on.
Crash(w) ==
  /\ worker[w].pc \notin {"idle", "completed", "failed", "dead"}
  /\ Goto(w, "dead")
  /\ UNCHANGED MediaVars

Step(w) ==
  \/ \E k \in Kinds, e \in BOOLEAN : Begin(w, k, e)
  \/ Fetch(w) \/ FetchFails(w) \/ Wait(w) \/ Gate(w)
  \/ \E p \in Images : Extract(w, p) \/ Store(w, p)
  \/ Prepare(w) \/ Transcode(w) \/ Publish(w) \/ TranscodeFails(w) \/ Complete(w)
  \/ \E k \in Keys : Encrypt(w, k)
  \/ Crash(w)

Next == \E w \in Workers : Step(w)

Spec == Init /\ [][Next]_vars

\* A handler that was called goes on.
FairSpec == Spec /\ \A w \in Workers : WF_vars(Step(w))
-----------------------------------------------------------------------------
(* Properties.                                                              *)

\* Every variable keeps its type.
TypeOK ==
  /\ worker \in [Workers -> Worker]
  /\ images \subseteq Images
  /\ files \in [Files -> Keys \cup {Clear, Absent}]
  /\ stored \in Keys \cup {Absent}
  /\ used \subseteq Keys
  /\ disturbed \subseteq Workers

\* The parts of which every object is in the media bucket.
Uploaded == images \cup (IF \A f \in Files : files[f] # Absent THEN {"transcode"} ELSE {})

\* The parts the jobs of a plan produce.
Covered(plan) == UNION {Wanted(k) : k \in plan}

\* The plan a failed job stores covers everything that is missing: after its
\* retry jobs, nothing is left undone.
PlanCoversMissing ==
  \A w \in Workers : worker[w].pc = "failed" =>
    Wanted(worker[w].kind) \subseteq Covered(worker[w].plan) \cup Uploaded

\* And it spares what is ready: no retry redoes a stage that succeeded.
PlanSparesReady ==
  \A w \in Workers : worker[w].pc = "failed" =>
    \A p \in Covered(worker[w].plan) : Stage(w, p) # "ready"

\* What a result says is ready is in the bucket, and a job is completed only when
\* everything it was to produce is ready.
ReportIsTrue ==
  \A w \in Workers :
    /\ \A p \in Parts : Stage(w, p) = "ready" => p \in Uploaded
    /\ worker[w].pc = "completed" => \A p \in Wanted(worker[w].kind) : Stage(w, p) = "ready"

\* A completed transcode can be played: every file was encrypted with the key that
\* GET /api/key serves, whatever earlier jobs that failed or crashed have left
\* behind. Only another packaging at the same time, or a later one, breaks it.
CompletedIsPlayable ==
  \A w \in Workers \ disturbed :
    worker[w].pc = "completed" /\ "transcode" \in Wanted(worker[w].kind) =>
      /\ \A f \in Files : files[f] = worker[w].key
      /\ worker[w].encrypt => stored = worker[w].key

\* stream.go:86: "Generated VOD assets are immutable", and are served with a cache
\* lifetime of a year: a file never changes once it is there.
AssetsImmutable ==
  [][\A f \in Files : files[f] # Absent => files'[f] = files[f]]_vars
=============================================================================
