------------------------ MODULE VideoPipelineProofs ------------------------
(***************************************************************************)
(* What holds of VideoPipeline for any number of handlers, keys and files: *)
(* reports are true, and retry plans cover what is missing and spare what  *)
(* is ready.                                                               *)
(***************************************************************************)
EXTENDS VideoPipeline, TLAPS

\* What a handler has behind it, by where it is.
Done(w) ==
  /\ worker[w].pc \in {"idle", "source", "extract"} =>
       \A p \in Parts : Stage(w, p) = "pending"
  /\ worker[w].pc \notin {"completed", "failed"} => Stage(w, "transcode") = "pending"
  /\ worker[w].pc = "store" =>
       \A p \in Images : Stage(w, p) \in {"pending", "ready", "failed"}
  /\ worker[w].pc \in {"extract", "store"} => worker[w].kind # "transcode"
  /\ worker[w].pc \in {"prepare"} \cup InPackaging =>
       /\ worker[w].kind \in {"full", "transcode"}
       /\ \A p \in WantedImages(w) : Stage(w, p) = "ready"

\* What it has published is there.
Published(w) == \A f \in Files : f < worker[w].next => files[f] # Absent

\* What it reports.
Reported(w) ==
  /\ \A p \in Parts : Stage(w, p) = "ready" => p \in Uploaded
  /\ worker[w].pc = "completed" => \A p \in Wanted(worker[w].kind) : Stage(w, p) = "ready"
  /\ worker[w].pc = "failed" =>
       /\ Wanted(worker[w].kind) \subseteq Covered(worker[w].plan) \cup Uploaded
       /\ \A p \in Covered(worker[w].plan) : Stage(w, p) # "ready"

PipelineInv ==
  TypeOK /\ \A w \in Workers : Done(w) /\ Published(w) /\ Reported(w)

-----------------------------------------------------------------------------

LEMMA FreshType == Fresh \in Worker
BY NFilesAssumption DEF Fresh, Worker, Kinds, Pcs, StageStates, Images, Parts

LEMMA PipelineInit == Init => PipelineInv
<1> SUFFICES ASSUME Init PROVE PipelineInv
  OBVIOUS
<1>1. TypeOK
  BY FreshType DEF Init, TypeOK
<1>2. ASSUME NEW w \in Workers PROVE Done(w) /\ Published(w) /\ Reported(w)
  <2>1. worker[w] = Fresh
    BY DEF Init
  <2>2. Fresh.pc = "idle" /\ Fresh.next = 1 /\ \A p \in Parts : Fresh.stage[p] = "pending"
    BY DEF Fresh
  <2>3. Done(w) /\ Reported(w)
    BY <2>1, <2>2 DEF Done, Reported, Stage, InPackaging, Parts
  <2>4. Published(w)
    BY <2>1, <2>2 DEF Published, Files
  <2> QED BY <2>3, <2>4
<1> QED BY <1>1, <1>2 DEF PipelineInv

\* No step takes an object out of the bucket.
LEMMA UploadedGrows ==
  ASSUME TypeOK, NEW w \in Workers, Step(w)
  PROVE  /\ images \subseteq images'
         /\ \A f \in Files : files[f] # Absent => files'[f] # Absent
         /\ Uploaded \subseteq Uploaded'
<1>1. images \subseteq images'
  <2>1. CASE \E p \in Images : Store(w, p)
    BY <2>1 DEF Store
  <2>2. CASE UNCHANGED images
    BY <2>2
  <2> QED BY <2>1, <2>2
       DEF Step, Begin, Fetch, FetchFails, Wait, Gate, Extract, Prepare, Transcode, Publish,
           TranscodeFails, Complete, Encrypt, Crash, MediaVars
<1>2. \A f \in Files : files[f] # Absent => files'[f] # Absent
  <2>1. CASE Publish(w) \/ TranscodeFails(w)
    <3>1. worker[w].key # Absent
      BY KeysAssumption DEF TypeOK, Worker
    <3> QED BY <2>1, <3>1 DEF Publish, TranscodeFails, TypeOK
  <2>2. CASE UNCHANGED files
    BY <2>2
  <2> QED BY <2>1, <2>2
       DEF Step, Begin, Fetch, FetchFails, Wait, Gate, Extract, Prepare, Transcode, Store,
           TranscodeFails, Complete, Encrypt, Crash, MediaVars
<1>3. Uploaded \subseteq Uploaded'
  BY <1>1, <1>2 DEF Uploaded
<1> QED BY <1>1, <1>2, <1>3

\* The other handlers see nothing but a fuller bucket.
LEMMA OthersKeep ==
  ASSUME PipelineInv, NEW w \in Workers, Step(w),
         NEW v \in Workers, worker'[v] = worker[v]
  PROVE  (Done(v) /\ Published(v) /\ Reported(v))'
<1>1. Done(v) /\ Published(v) /\ Reported(v)
  BY DEF PipelineInv
<1>2. Done(v)'
  BY <1>1 DEF Done, Stage, WantedImages
<1>3. Published(v)' /\ Reported(v)'
  BY <1>1, UploadedGrows DEF PipelineInv, Published, Reported, Stage
<1> QED BY <1>2, <1>3

\* A handler's record keeps its type, and the handlers are the same.
LEMMA WorkerType ==
  ASSUME TypeOK, NEW w \in Workers, Step(w)
  PROVE  worker' \in [Workers -> Worker]
<1>0. worker \in [Workers -> Worker] /\ worker[w] \in Worker
  BY DEF TypeOK
<1>1. ASSUME NEW s \in StageStates, NEW p \in Parts
      PROVE  SetStage(w, p, s) \in [Parts -> StageStates]
  BY <1>0 DEF SetStage, Worker
<1>2. ASSUME NEW pc \in Pcs, Goto(w, pc) PROVE worker' \in [Workers -> Worker]
  BY <1>0, <1>2 DEF Goto, Worker
<1>3. ASSUME NEW st \in [Parts -> StageStates], NEW plan \in SUBSET Kinds, Fail(w, st, plan)
      PROVE  worker' \in [Workers -> Worker]
  BY <1>0, <1>3 DEF Fail, Worker, Pcs
<1>4. CASE \E k \in Kinds, e \in BOOLEAN : Begin(w, k, e)
  <2>1. PICK k \in Kinds, e \in BOOLEAN : Begin(w, k, e)
    BY <1>4
  <2> DEFINE new == [worker[w] EXCEPT !.pc = "source", !.kind = k, !.encrypt = e]
  <2>2. worker' = [worker EXCEPT ![w] = new]
    BY <1>0, <2>1 DEF Begin, Worker
  <2>3. new \in Worker
    BY <1>0 DEF Worker, Pcs
  <2> HIDE DEF new
  <2> QED BY <1>0, <2>2, <2>3
<1>5. CASE Fetch(w) \/ Wait(w) \/ Prepare(w) \/ Transcode(w) \/ Crash(w)
  BY <1>2, <1>5 DEF Fetch, Wait, Prepare, Transcode, Crash, Pcs
<1>6. CASE FetchFails(w)
  <2>1. worker[w].kind \in Kinds /\ worker[w].stage \in [Parts -> StageStates]
    BY <1>0 DEF Worker
  <2>2. [p \in Parts |-> "skipped"] \in [Parts -> StageStates]
    BY DEF StageStates
  <2> QED BY <2>1, <2>2, <1>3, <1>6 DEF FetchFails
<1>7. CASE \E p \in Images : Extract(w, p)
  <2>1. PICK p \in Images : Extract(w, p)
    BY <1>7
  <2>2. PICK r \in {"ok", "err"} : worker' = [worker EXCEPT ![w].tried[p] = r]
    BY <2>1 DEF Extract
  <2> DEFINE tried == [worker[w].tried EXCEPT ![p] = r]
             new == [worker[w] EXCEPT !.tried = tried]
  <2>3. worker' = [worker EXCEPT ![w] = new]
    BY <1>0, <2>2 DEF Worker
  <2>4. tried \in [Images -> {"no", "ok", "err"}]
    BY <1>0 DEF Worker
  <2> HIDE DEF tried
  <2>5. new \in Worker
    BY <1>0, <2>4 DEF Worker
  <2> HIDE DEF new
  <2> QED BY <1>0, <2>3, <2>5
<1>8. CASE \E p \in Images : Store(w, p)
  <2>1. PICK p \in Images : Store(w, p)
    BY <1>8
  <2>2. /\ SetStage(w, p, "ready") \in [Parts -> StageStates]
        /\ SetStage(w, p, "failed") \in [Parts -> StageStates]
    BY <1>1 DEF StageStates, Parts
  <2>3. PICK st \in [Parts -> StageStates] : worker' = [worker EXCEPT ![w].stage = st]
    BY <2>1, <2>2 DEF Store
  <2> QED BY <1>0, <2>3 DEF Worker
<1>9. CASE Gate(w)
  <2>1. worker[w].kind \in Kinds /\ worker[w].stage \in [Parts -> StageStates]
    BY <1>0 DEF Worker
  <2>2. SetStage(w, "transcode", "skipped") \in [Parts -> StageStates]
    BY <1>1 DEF StageStates, Parts
  <2>3. FailedImages(w) \cup {"transcode"} \in SUBSET Kinds
    BY DEF FailedImages, WantedImages, Kinds, Parts
  <2> QED BY <2>1, <2>2, <2>3, <1>2, <1>3, <1>9 DEF Gate, Pcs
<1>10. CASE \E k \in Keys : Encrypt(w, k)
  <2>1. PICK k \in Keys : Encrypt(w, k)
    BY <1>10
  <2> DEFINE new == [worker[w] EXCEPT !.pc = "transcode", !.key = k]
  <2>2. worker' = [worker EXCEPT ![w] = new]
    BY <1>0, <2>1 DEF Encrypt, Worker
  <2>3. new \in Worker
    BY <1>0 DEF Worker, Pcs
  <2> HIDE DEF new
  <2> QED BY <1>0, <2>2, <2>3
<1>11. CASE Publish(w)
  <2> DEFINE new == [worker[w] EXCEPT !.next = worker[w].next + 1]
  <2>1. worker' = [worker EXCEPT ![w] = new]
    BY <1>0, <1>11 DEF Publish, Worker
  <2>2. worker[w].next + 1 \in 1 .. NFiles + 1
    BY <1>0, <1>11, NFilesAssumption DEF Publish, Worker
  <2>3. new \in Worker
    BY <1>0, <2>2 DEF Worker
  <2> HIDE DEF new
  <2> QED BY <1>0, <2>1, <2>3
<1>12. CASE TranscodeFails(w)
  <2>1. SetStage(w, "transcode", "failed") \in [Parts -> StageStates]
    BY <1>1 DEF StageStates, Parts
  <2> QED BY <2>1, <1>3, <1>12 DEF TranscodeFails, Kinds, Parts
<1>13. CASE Complete(w)
  <2>1. SetStage(w, "transcode", "ready") \in [Parts -> StageStates]
    BY <1>1 DEF StageStates, Parts
  <2> QED BY <1>0, <2>1, <1>13 DEF Complete, Worker, Pcs
<1> QED BY <1>4, <1>5, <1>6, <1>7, <1>8, <1>9, <1>10, <1>11, <1>12, <1>13 DEF Step

LEMMA TypeStep ==
  ASSUME TypeOK, NEW w \in Workers, Step(w)
  PROVE  TypeOK'
<1>1. worker' \in [Workers -> Worker]
  BY WorkerType
<1>2. images' \subseteq Images
  <2>1. CASE \E p \in Images : Store(w, p)
    BY <2>1 DEF Store, TypeOK
  <2>2. CASE UNCHANGED images
    BY <2>2 DEF TypeOK
  <2> QED BY <2>1, <2>2
       DEF Step, Begin, Fetch, FetchFails, Wait, Gate, Extract, Prepare, Transcode, Publish,
           TranscodeFails, Complete, Encrypt, Crash, MediaVars
<1>3. files' \in [Files -> Keys \cup {Clear, Absent}]
  <2>1. CASE Publish(w) \/ TranscodeFails(w)
    BY <2>1 DEF Publish, TranscodeFails, TypeOK, Worker
  <2>2. CASE UNCHANGED files
    BY <2>2 DEF TypeOK
  <2> QED BY <2>1, <2>2
       DEF Step, Begin, Fetch, FetchFails, Wait, Gate, Extract, Prepare, Transcode, Store,
           TranscodeFails, Complete, Encrypt, Crash, MediaVars
<1>4. stored' \in Keys \cup {Absent} /\ used' \subseteq Keys
  <2>1. CASE (\E k \in Keys : Encrypt(w, k)) \/ TranscodeFails(w)
    BY <2>1 DEF Encrypt, TranscodeFails, TypeOK
  <2>2. CASE UNCHANGED <<stored, used>>
    BY <2>2 DEF TypeOK
  <2> QED BY <2>1, <2>2
       DEF Step, Begin, Fetch, FetchFails, Wait, Gate, Extract, Prepare, Transcode, Store,
           Publish, Complete, Crash, MediaVars
<1>5. disturbed' \subseteq Workers
  <2>1. CASE Prepare(w)
    BY <2>1 DEF Prepare, TypeOK
  <2>2. CASE UNCHANGED disturbed
    BY <2>2 DEF TypeOK
  <2> QED BY <2>1, <2>2
       DEF Step, Begin, Fetch, FetchFails, Wait, Gate, Extract, Transcode, Store, Publish,
           TranscodeFails, Complete, Encrypt, Crash, MediaVars
<1> QED BY <1>1, <1>2, <1>3, <1>4, <1>5 DEF TypeOK

\* A step that leaves the stages, the plan and what is published alone, and is no
\* end, keeps what was reported.
LEMMA QuietReport ==
  ASSUME PipelineInv, NEW w \in Workers, Step(w),
         worker'[w].stage = worker[w].stage, worker'[w].next = worker[w].next,
         worker'[w].pc \notin {"completed", "failed"}
  PROVE  Published(w)' /\ Reported(w)'
<1>1. Published(w) /\ Reported(w)
  BY DEF PipelineInv
<1> QED BY <1>1, UploadedGrows DEF PipelineInv, Published, Reported, Stage

\* Only publishing changes what is published.
LEMMA KeepsPublished ==
  ASSUME PipelineInv, NEW w \in Workers, Step(w), worker'[w].next = worker[w].next
  PROVE  Published(w)'
BY UploadedGrows DEF PipelineInv, Published

\* The step of a handler keeps the invariant for this handler.
LEMMA ActorStep ==
  ASSUME PipelineInv, NEW w \in Workers, Step(w)
  PROVE  (Done(w) /\ Published(w) /\ Reported(w))'
<1>0. /\ worker \in [Workers -> Worker] /\ worker[w] \in Worker /\ worker'[w] \in Worker
      /\ Done(w) /\ Published(w) /\ Reported(w)
  BY WorkerType DEF PipelineInv, TypeOK
<1>1. CASE \E k \in Kinds, e \in BOOLEAN : Begin(w, k, e)
  <2>1. /\ worker[w].pc = "idle" /\ worker'[w].pc = "source"
        /\ worker'[w].stage = worker[w].stage /\ worker'[w].next = worker[w].next
    BY <1>0, <1>1 DEF Begin, Worker
  <2>2. Done(w)'
    BY <1>0, <2>1 DEF Done, Stage, InPackaging, Parts
  <2> QED BY <2>1, <2>2, QuietReport
<1>2. CASE Fetch(w)
  <2>1. /\ worker[w].pc = "source"
        /\ worker'[w].pc = IF worker[w].kind = "transcode" THEN "prepare" ELSE "extract"
        /\ worker'[w].stage = worker[w].stage /\ worker'[w].next = worker[w].next
        /\ worker'[w].kind = worker[w].kind
    BY <1>0, <1>2 DEF Fetch, Goto, Worker
  <2>2. Done(w)'
    BY <1>0, <2>1 DEF Done, Stage, InPackaging, Parts, WantedImages, Wanted, Images
  <2> QED BY <2>1, <2>2, QuietReport
<1>3. CASE FetchFails(w)
  <2>1. /\ worker[w].pc = "source" /\ worker'[w].pc = "failed"
        /\ \A p \in Parts : worker'[w].stage[p] # "ready"
        /\ worker'[w].plan = {worker[w].kind} /\ worker'[w].next = worker[w].next
        /\ worker'[w].kind = worker[w].kind
    BY <1>0, <1>3 DEF FetchFails, Fail, Full, Worker, Done, Stage
  <2>2. Done(w)'
    BY <2>1 DEF Done, InPackaging
  <2>3. Covered({worker[w].kind}) = Wanted(worker[w].kind) /\ Wanted(worker[w].kind) \subseteq Parts
    BY <1>0 DEF Covered, Wanted, Worker, Kinds
  <2>4. Reported(w)'
    BY <2>1, <2>3 DEF Reported, Stage
  <2> QED BY <2>1, <2>2, <2>4, KeepsPublished
<1>4. CASE \E p \in Images : Extract(w, p)
  <2>1. /\ worker[w].pc = "extract" /\ worker'[w].pc = "extract"
        /\ worker'[w].stage = worker[w].stage /\ worker'[w].next = worker[w].next
        /\ worker'[w].kind = worker[w].kind
    BY <1>0, <1>4 DEF Extract, Worker
  <2>2. Done(w)'
    BY <1>0, <2>1 DEF Done, Stage, InPackaging
  <2> QED BY <2>1, <2>2, QuietReport
<1>5. CASE Wait(w)
  <2>1. /\ worker[w].pc = "extract" /\ worker'[w].pc = "store"
        /\ worker'[w].stage = worker[w].stage /\ worker'[w].next = worker[w].next
        /\ worker'[w].kind = worker[w].kind
    BY <1>0, <1>5 DEF Wait, Goto, Worker
  <2>2. Done(w)'
    BY <1>0, <2>1 DEF Done, Stage, InPackaging, Parts
  <2> QED BY <2>1, <2>2, QuietReport
<1>6. CASE \E p \in Images : Store(w, p)
  <2>1. PICK p \in Images : Store(w, p)
    BY <1>6
  <2>2. PICK s \in {"ready", "failed"} :
          /\ worker' = [worker EXCEPT ![w].stage = SetStage(w, p, s)]
          /\ s = "ready" => p \in images'
    BY <2>1 DEF Store
  <2>3. /\ worker[w].pc = "store" /\ worker'[w].pc = "store"
        /\ worker'[w].next = worker[w].next /\ worker'[w].kind = worker[w].kind
        /\ worker'[w].stage = SetStage(w, p, s)
    BY <1>0, <2>1, <2>2 DEF Store, Worker
  <2>4. \A q \in Parts : worker'[w].stage[q] = IF q = p THEN s ELSE Stage(w, q)
    BY <1>0, <2>3 DEF SetStage, Stage, Worker
  <2>5. Done(w)'
    BY <1>0, <2>1, <2>3, <2>4 DEF Done, Stage, InPackaging, Parts, Images
  <2>6. Reported(w)'
    BY <1>0, <2>2, <2>3, <2>4, UploadedGrows DEF Reported, Stage, Uploaded, PipelineInv
  <2> QED BY <2>3, <2>5, <2>6, KeepsPublished
<1>7. CASE Gate(w)
  <2>0. /\ worker[w].pc = "store" /\ worker[w].kind \in Kinds
        /\ \A p \in WantedImages(w) : Stage(w, p) \in {"ready", "failed"}
        /\ worker[w].kind # "transcode" /\ Stage(w, "transcode") = "pending"
    BY <1>0, <1>7 DEF Gate, Done, WantedImages, Worker
  <2>1. CASE FailedImages(w) = {}
    <3>1. /\ worker'[w].pc = IF Full(w) THEN "prepare" ELSE "completed"
          /\ worker'[w].stage = worker[w].stage /\ worker'[w].next = worker[w].next
          /\ worker'[w].kind = worker[w].kind
      BY <1>0, <1>7, <2>1 DEF Gate, Goto, Worker
    <3>2. \A p \in WantedImages(w) : Stage(w, p) = "ready"
      BY <2>0, <2>1 DEF FailedImages
    <3>3. Done(w)'
      BY <1>0, <2>0, <3>1, <3>2 DEF Done, Stage, InPackaging, WantedImages, Full
    <3>4. ~Full(w) => Wanted(worker[w].kind) = WantedImages(w)
      BY <2>0 DEF Full, Wanted, WantedImages, Kinds, Parts
    <3>5. Reported(w)'
      BY <1>0, <3>1, <3>2, <3>4, UploadedGrows DEF Reported, Stage, PipelineInv
    <3> QED BY <3>1, <3>3, <3>5, KeepsPublished
  <2>2. CASE FailedImages(w) # {} /\ Full(w)
    <3>1. /\ worker'[w].pc = "failed" /\ worker'[w].next = worker[w].next
          /\ worker'[w].kind = "full"
          /\ worker'[w].stage = SetStage(w, "transcode", "skipped")
          /\ worker'[w].plan = FailedImages(w) \cup {"transcode"}
      BY <1>0, <1>7, <2>2 DEF Gate, Fail, Full, Worker
    <3>2. \A q \in Parts : worker'[w].stage[q] =
            IF q = "transcode" THEN "skipped" ELSE Stage(w, q)
      BY <1>0, <3>1 DEF SetStage, Stage, Worker
    <3>3. Done(w)'
      BY <3>1 DEF Done, InPackaging
    <3>4. WantedImages(w) = Images /\ Wanted("full") = Images \cup {"transcode"}
      BY <2>2 DEF WantedImages, Wanted, Parts, Full
    <3>5. Covered(worker'[w].plan) = FailedImages(w) \cup {"transcode"}
      BY <3>1, <3>4 DEF Covered, Wanted, FailedImages, Images
    <3>6. \A p \in Images : p \in FailedImages(w) \/ p \in Uploaded'
      BY <1>0, <2>0, <3>4, UploadedGrows DEF FailedImages, Reported, PipelineInv, Parts
    <3>7. \A p \in Covered(worker'[w].plan) : worker'[w].stage[p] # "ready"
      BY <3>2, <3>4, <3>5 DEF FailedImages, Parts, Images
    <3>8. \A p \in Parts : worker'[w].stage[p] = "ready" => p \in Uploaded'
      BY <1>0, <3>2, UploadedGrows DEF Reported, PipelineInv
    <3>9. Reported(w)'
      BY <3>1, <3>4, <3>5, <3>6, <3>7, <3>8 DEF Reported, Stage
    <3> QED BY <3>1, <3>3, <3>9, KeepsPublished
  <2>3. CASE FailedImages(w) # {} /\ ~Full(w)
    <3>1. /\ worker'[w].pc = "failed" /\ worker'[w].next = worker[w].next
          /\ worker'[w].kind = worker[w].kind
          /\ worker'[w].stage = worker[w].stage
          /\ worker'[w].plan = {worker[w].kind}
      BY <1>0, <1>7, <2>3 DEF Gate, Fail, Full, Worker
    <3>2. Done(w)'
      BY <3>1 DEF Done, InPackaging
    <3>3. /\ Covered({worker[w].kind}) = {worker[w].kind}
          /\ Wanted(worker[w].kind) = {worker[w].kind}
      BY <2>3 DEF Covered, Wanted, Full
    <3>4. Stage(w, worker[w].kind) # "ready"
      BY <2>3, <3>3 DEF FailedImages, WantedImages
    <3>5. Reported(w)'
      BY <1>0, <3>1, <3>3, <3>4, UploadedGrows DEF Reported, Stage, PipelineInv
    <3> QED BY <3>1, <3>2, <3>5, KeepsPublished
  <2> QED BY <2>1, <2>2, <2>3
<1>8. CASE Prepare(w) \/ Transcode(w) \/ \E k \in Keys : Encrypt(w, k)
  <2>1. /\ worker[w].pc \in {"prepare", "transcode", "encrypt"}
        /\ worker'[w].pc \in InPackaging
        /\ worker'[w].stage = worker[w].stage /\ worker'[w].next = worker[w].next
        /\ worker'[w].kind = worker[w].kind
    BY <1>0, <1>8 DEF Prepare, Transcode, Encrypt, Goto, Worker, InPackaging
  <2>2. Done(w)'
    BY <1>0, <2>1 DEF Done, Stage, InPackaging, WantedImages
  <2> QED BY <2>1, <2>2, QuietReport DEF InPackaging
<1>9. CASE Publish(w)
  <2>1. /\ worker[w].pc = "publish" /\ worker'[w].pc = "publish"
        /\ worker'[w].stage = worker[w].stage /\ worker'[w].kind = worker[w].kind
        /\ worker'[w].next = worker[w].next + 1
        /\ worker[w].next \in Files /\ files'[worker[w].next] # Absent
    BY <1>0, <1>9, NFilesAssumption, KeysAssumption
       DEF Publish, Worker, Files, PipelineInv, TypeOK
  <2>2. Done(w)'
    BY <1>0, <2>1 DEF Done, Stage, InPackaging, WantedImages
  <2>3. Published(w)'
    <3> SUFFICES ASSUME NEW f \in Files, f < worker[w].next + 1 PROVE files'[f] # Absent
      BY <2>1 DEF Published
    <3>1. f = worker[w].next \/ f < worker[w].next
      BY <2>1, NFilesAssumption DEF Files
    <3> QED BY <1>0, <2>1, <3>1, UploadedGrows DEF Published, PipelineInv
  <2>4. Reported(w)'
    BY <1>0, <2>1, UploadedGrows DEF Reported, Stage, PipelineInv
  <2> QED BY <2>2, <2>3, <2>4
<1>10. CASE TranscodeFails(w)
  <2>1. /\ worker[w].pc \in {"prepare"} \cup InPackaging
        /\ worker'[w].pc = "failed" /\ worker'[w].next = worker[w].next
        /\ worker'[w].kind = worker[w].kind
        /\ worker'[w].stage = SetStage(w, "transcode", "failed")
        /\ worker'[w].plan = {"transcode"}
    BY <1>0, <1>10 DEF TranscodeFails, Fail, Worker
  <2>2. \A q \in Parts : worker'[w].stage[q] =
          IF q = "transcode" THEN "failed" ELSE Stage(w, q)
    BY <1>0, <2>1 DEF SetStage, Stage, Worker
  <2>3. Done(w)'
    BY <2>1 DEF Done, InPackaging
  <2>4. Covered({"transcode"}) = {"transcode"}
    BY DEF Covered, Wanted
  <2>5. Wanted(worker[w].kind) \subseteq {"transcode"} \cup WantedImages(w)
    BY <1>0, <2>1 DEF Done, Wanted, WantedImages, Parts
  <2>6. WantedImages(w) \subseteq Uploaded'
    BY <1>0, <2>1, UploadedGrows DEF Done, Reported, WantedImages, PipelineInv, Parts
  <2>7. \A p \in Parts : worker'[w].stage[p] = "ready" => p \in Uploaded'
    BY <1>0, <2>2, UploadedGrows DEF Reported, PipelineInv
  <2>8. worker'[w].stage["transcode"] = "failed"
    BY <2>2 DEF Parts
  <2>9. Reported(w)'
    BY <2>1, <2>4, <2>5, <2>6, <2>7, <2>8 DEF Reported, Stage
  <2> QED BY <2>1, <2>3, <2>9, KeepsPublished
<1>11. CASE Complete(w)
  <2>1. /\ worker[w].pc = "publish" /\ worker[w].next = NFiles + 1
        /\ worker'[w].pc = "completed" /\ worker'[w].next = worker[w].next
        /\ worker'[w].kind = worker[w].kind
        /\ worker'[w].stage = SetStage(w, "transcode", "ready")
    BY <1>0, <1>11 DEF Complete, Worker
  <2>2. \A q \in Parts : worker'[w].stage[q] =
          IF q = "transcode" THEN "ready" ELSE Stage(w, q)
    BY <1>0, <2>1 DEF SetStage, Stage, Worker
  <2>3. Done(w)'
    BY <2>1 DEF Done, InPackaging
  <2>4. "transcode" \in Uploaded'
    <3>1. \A f \in Files : f < worker[w].next
      BY <2>1, NFilesAssumption DEF Files
    <3> QED BY <1>0, <3>1, UploadedGrows DEF Published, Uploaded, PipelineInv
  <2>5. \A p \in Wanted(worker[w].kind) : worker'[w].stage[p] = "ready"
    BY <1>0, <2>1, <2>2 DEF Done, Wanted, WantedImages, Parts, InPackaging
  <2>6. \A p \in Parts : worker'[w].stage[p] = "ready" => p \in Uploaded'
    BY <1>0, <2>2, <2>4, UploadedGrows DEF Reported, PipelineInv
  <2>7. Reported(w)'
    BY <2>1, <2>5, <2>6 DEF Reported, Stage
  <2> QED BY <2>1, <2>3, <2>7, KeepsPublished
<1>12. CASE Crash(w)
  <2>1. /\ worker[w].pc \notin {"completed", "failed"} /\ worker'[w].pc = "dead"
        /\ worker'[w].stage = worker[w].stage /\ worker'[w].next = worker[w].next
    BY <1>0, <1>12 DEF Crash, Goto, Worker
  <2>2. Done(w)'
    BY <1>0, <2>1 DEF Done, Stage, InPackaging
  <2> QED BY <2>1, <2>2, QuietReport
<1> QED BY <1>1, <1>2, <1>3, <1>4, <1>5, <1>6, <1>7, <1>8, <1>9, <1>10, <1>11, <1>12 DEF Step

\* A handler changes no record but its own.
LEMMA Alone ==
  ASSUME TypeOK, NEW w \in Workers, Step(w), NEW v \in Workers, v # w
  PROVE  worker'[v] = worker[v]
BY DEF TypeOK, Step, Begin, Fetch, FetchFails, Wait, Gate, Extract, Store, Prepare, Transcode,
       Publish, TranscodeFails, Complete, Encrypt, Crash, Goto, Fail

LEMMA PipelineStep == PipelineInv /\ [Next]_vars => PipelineInv'
<1> SUFFICES ASSUME PipelineInv, [Next]_vars PROVE PipelineInv'
  OBVIOUS
<1>1. CASE Next
  <2>1. PICK w \in Workers : Step(w)
    BY <1>1 DEF Next
  <2>2. TypeOK'
    BY <2>1, TypeStep DEF PipelineInv
  <2>3. ASSUME NEW v \in Workers PROVE (Done(v) /\ Published(v) /\ Reported(v))'
    <3>1. CASE v = w
      BY <2>1, <3>1, ActorStep
    <3>2. CASE v # w
      BY <2>1, <3>2, Alone, OthersKeep DEF PipelineInv
    <3> QED BY <3>1, <3>2
  <2> QED BY <2>2, <2>3 DEF PipelineInv
<1>2. CASE UNCHANGED vars
  BY <1>2 DEF vars, PipelineInv, TypeOK, Done, Published, Reported, Uploaded, Stage, WantedImages
<1> QED BY <1>1, <1>2
-----------------------------------------------------------------------------

THEOREM PipelineSafe == Spec => []PipelineInv
BY PipelineInit, PipelineStep, PTL DEF Spec

\* Every variable keeps its type.
THEOREM TypeCorrect == Spec => []TypeOK
<1>1. PipelineInv => TypeOK
  BY DEF PipelineInv
<1> QED BY <1>1, PipelineSafe, PTL

\* video_full.go and full.go: what a stored result says is ready is in the bucket,
\* and a completed job produced everything it was to produce.
THEOREM ReportsAreTrue == Spec => []ReportIsTrue
<1>1. PipelineInv => ReportIsTrue
  BY DEF PipelineInv, Reported, ReportIsTrue
<1> QED BY <1>1, PipelineSafe, PTL

\* full.go:347: the retry plan of a failed job and what is already in the bucket
\* are together all that the job was to produce.
THEOREM PlansCover == Spec => []PlanCoversMissing
<1>1. PipelineInv => PlanCoversMissing
  BY DEF PipelineInv, Reported, PlanCoversMissing
<1> QED BY <1>1, PipelineSafe, PTL

\* No retry plan asks for a stage that succeeded.
THEOREM PlansSpare == Spec => []PlanSparesReady
<1>1. PipelineInv => PlanSparesReady
  BY DEF PipelineInv, Reported, PlanSparesReady
<1> QED BY <1>1, PipelineSafe, PTL
-----------------------------------------------------------------------------
(* What is completed can be played.                                         *)

Packaged(w) == worker[w].pc = "completed" /\ "transcode" \in Wanted(worker[w].kind)

\* The objects and the key are those of w, if anyone's.
Holds(w) == worker[w].pc \in InPackaging \/ Packaged(w)

\* Who packages at the same time, or later, is known.
Apart(w, v) == v # w /\ worker[v].pc \in InPackaging /\ Holds(w) => w \in disturbed

\* What w has stored and published so far fits together, if no one interferes.
Opened(w) ==
  /\ worker[w].pc \notin {"publish", "completed", "failed", "dead"} => worker[w].next = 1
  /\ Packaged(w) => worker[w].next = NFiles + 1
  /\ w \notin disturbed =>
       /\ worker[w].pc \in {"transcode", "publish"} \/ Packaged(w) =>
            (worker[w].encrypt => stored = worker[w].key)
       /\ worker[w].pc = "publish" \/ Packaged(w) =>
            \A f \in Files : f < worker[w].next => files[f] = worker[w].key

PlayInv ==
  /\ PipelineInv
  /\ \A w \in Workers : Opened(w)
  /\ \A w, v \in Workers : Apart(w, v)

LEMMA PlayInit == Init => PlayInv
BY PipelineInit DEF PlayInv, Init, Fresh, Opened, Apart, Packaged, Holds, InPackaging

LEMMA DisturbedGrows ==
  ASSUME NEW w \in Workers, Step(w)
  PROVE  disturbed \subseteq disturbed'
BY DEF Step, Begin, Fetch, FetchFails, Wait, Gate, Extract, Store, Prepare, Transcode, Publish,
       TranscodeFails, Complete, Encrypt, Crash, MediaVars

\* Only a job that packages touches the key or the files.
LEMMA OnlyPackagersWrite ==
  ASSUME NEW w \in Workers, Step(w)
  PROVE  UNCHANGED <<files, stored>> \/ worker[w].pc \in InPackaging
BY DEF Step, Begin, Fetch, FetchFails, Wait, Gate, Extract, Store, Prepare, Transcode, Publish,
       TranscodeFails, Complete, Encrypt, Crash, MediaVars, InPackaging

\* Only Prepare lets a job begin to package.
LEMMA OnlyPrepareEnters ==
  ASSUME PipelineInv, NEW w \in Workers, Step(w), Holds(w)'
  PROVE  worker[w].pc \in InPackaging \/ Prepare(w)
<1>0. worker \in [Workers -> Worker] /\ worker[w] \in Worker /\ Done(w)
  BY DEF PipelineInv, TypeOK
<1>1. CASE Gate(w)
  <2>1. worker[w].pc = "store" /\ worker[w].kind # "transcode"
    BY <1>0, <1>1 DEF Gate, Done
  <2>2. /\ worker'[w].kind = worker[w].kind
        /\ worker'[w].pc \in {"failed", "prepare", "completed"}
        /\ Full(w) => worker'[w].pc # "completed"
    BY <1>0, <1>1 DEF Gate, Goto, Fail, Worker
  <2>3. ~Holds(w)'
    BY <2>1, <2>2 DEF Holds, Packaged, InPackaging, Wanted, Full
  <2> QED BY <2>3
<1>2. CASE \E k \in Kinds, e \in BOOLEAN : Begin(w, k, e)
  BY <1>0, <1>2 DEF Begin, Holds, Packaged, InPackaging, Worker
<1>3. CASE Fetch(w) \/ Wait(w) \/ Crash(w)
  BY <1>0, <1>3 DEF Fetch, Wait, Crash, Goto, Holds, Packaged, InPackaging, Worker
<1>4. CASE FetchFails(w)
  BY <1>0, <1>4 DEF FetchFails, Fail, Holds, Packaged, InPackaging, Worker
<1>5. CASE \E p \in Images : Extract(w, p)
  <2>1. worker[w].pc = "extract" /\ worker'[w].pc = "extract"
    BY <1>0, <1>5 DEF Extract, Worker
  <2> QED BY <2>1 DEF Holds, Packaged, InPackaging
<1>6. CASE \E p \in Images : Store(w, p)
  <2>1. worker[w].pc = "store" /\ worker'[w].pc = "store"
    BY <1>0, <1>6 DEF Store, Worker
  <2> QED BY <2>1 DEF Holds, Packaged, InPackaging
<1>7. CASE Transcode(w) \/ Publish(w) \/ Complete(w) \/ \E k \in Keys : Encrypt(w, k)
  BY <1>7 DEF Transcode, Publish, Complete, Encrypt, InPackaging
<1>8. CASE TranscodeFails(w)
  BY <1>0, <1>8 DEF TranscodeFails, Fail, Holds, Packaged, InPackaging, Worker
<1> QED BY <1>1, <1>2, <1>3, <1>4, <1>5, <1>6, <1>7, <1>8 DEF Step

LEMMA ApartStep ==
  ASSUME PlayInv, NEW w \in Workers, Step(w), NEW u \in Workers, NEW v \in Workers
  PROVE  Apart(u, v)'
<1>0. TypeOK /\ PipelineInv /\ Apart(u, v) /\ disturbed \subseteq disturbed'
  BY DisturbedGrows DEF PlayInv, PipelineInv
<1> SUFFICES ASSUME v # u, worker'[v].pc \in InPackaging, Holds(u)' PROVE u \in disturbed'
  BY DEF Apart
<1>1. CASE u # w /\ v # w
  <2>1. worker'[u] = worker[u] /\ worker'[v] = worker[v]
    BY <1>0, <1>1, Alone
  <2> QED BY <1>0, <2>1 DEF Apart, Holds, Packaged
<1>2. CASE v = w
  <2>1. worker'[u] = worker[u] /\ Holds(u)
    BY <1>0, <1>2, Alone DEF Holds, Packaged
  <2>2. CASE worker[w].pc \in InPackaging
    BY <1>0, <1>2, <2>1, <2>2 DEF Apart
  <2>3. CASE Prepare(w)
    BY <1>2, <2>1, <2>3 DEF Prepare, Holds, Packaged
  <2>4. Holds(w)'
    BY <1>2 DEF Holds
  <2> QED BY <1>0, <2>2, <2>3, <2>4, OnlyPrepareEnters
<1>3. CASE u = w
  <2>1. worker'[v] = worker[v]
    BY <1>0, <1>3, Alone
  <2>2. CASE worker[w].pc \in InPackaging
    BY <1>0, <1>3, <2>1, <2>2 DEF Apart, Holds
  <2>3. CASE Prepare(w)
    BY <1>3, <2>1, <2>3 DEF Prepare
  <2> QED BY <1>0, <1>3, <2>2, <2>3, OnlyPrepareEnters
<1> QED BY <1>1, <1>2, <1>3

\* A handler that is overlapped has no claim; for any other nothing changes.
LEMMA OpenedOthers ==
  ASSUME PlayInv, NEW w \in Workers, Step(w), NEW u \in Workers, u # w
  PROVE  Opened(u)'
<1>0. TypeOK /\ Opened(u) /\ Apart(u, w) /\ disturbed \subseteq disturbed'
  BY DisturbedGrows DEF PlayInv, PipelineInv
<1>1. worker'[u] = worker[u]
  BY <1>0, Alone
<1>2. CASE UNCHANGED <<files, stored>>
  BY <1>0, <1>1, <1>2 DEF Opened, Packaged
<1>3. CASE worker[w].pc \in InPackaging
  <2>1. Holds(u) => u \in disturbed'
    BY <1>0, <1>3 DEF Apart
  <2> QED BY <1>0, <1>1, <2>1 DEF Opened, Packaged, Holds, InPackaging
<1> QED BY <1>2, <1>3, OnlyPackagersWrite

\* A job that packages does not go back, and nothing is published before.
LEMMA Moves ==
  ASSUME TypeOK, NEW w \in Workers, Step(w)
  PROVE  /\ worker[w].pc \in InPackaging => worker'[w].pc # "encrypt"
         /\ worker'[w].pc \in {"idle", "source", "extract", "store", "prepare"} =>
              /\ worker[w].pc \in {"idle", "source", "extract", "store"}
              /\ worker'[w].next = worker[w].next
<1>0. worker \in [Workers -> Worker] /\ worker[w] \in Worker
  BY DEF TypeOK
<1>1. CASE \E k \in Kinds, e \in BOOLEAN : Begin(w, k, e)
  BY <1>0, <1>1 DEF Begin, Worker, InPackaging
<1>2. CASE Fetch(w) \/ Wait(w) \/ Prepare(w) \/ Transcode(w) \/ Crash(w)
  BY <1>0, <1>2 DEF Fetch, Wait, Prepare, Transcode, Crash, Goto, Worker, InPackaging
<1>3. CASE FetchFails(w) \/ TranscodeFails(w)
  BY <1>0, <1>3 DEF FetchFails, TranscodeFails, Fail, Worker
<1>4. CASE \E p \in Images : Extract(w, p)
  BY <1>0, <1>4 DEF Extract, Worker, InPackaging
<1>5. CASE \E p \in Images : Store(w, p)
  BY <1>0, <1>5 DEF Store, Worker, InPackaging
<1>6. CASE Gate(w)
  BY <1>0, <1>6 DEF Gate, Goto, Fail, Worker, InPackaging
<1>7. CASE Publish(w)
  BY <1>0, <1>7 DEF Publish, Worker, InPackaging
<1>8. CASE Complete(w) \/ \E k \in Keys : Encrypt(w, k)
  BY <1>0, <1>8 DEF Complete, Encrypt, Worker, InPackaging
<1> QED BY <1>1, <1>2, <1>3, <1>4, <1>5, <1>6, <1>7, <1>8 DEF Step

LEMMA OpenedActor ==
  ASSUME PlayInv, NEW w \in Workers, Step(w)
  PROVE  Opened(w)'
<1>0. /\ TypeOK /\ worker \in [Workers -> Worker] /\ worker[w] \in Worker /\ Done(w)
      /\ PipelineInv /\ Opened(w) /\ disturbed \subseteq disturbed'
  BY DisturbedGrows DEF PlayInv, PipelineInv, TypeOK
<1>1. CASE Holds(w)' /\ worker'[w].pc # "encrypt" /\ ~Prepare(w)
  <2>1. worker[w].pc \in InPackaging
    BY <1>0, <1>1, OnlyPrepareEnters
  <2>2. CASE \E k \in Keys : Encrypt(w, k)
    <3>1. PICK k \in Keys : Encrypt(w, k)
      BY <2>2
    <3>2. /\ worker[w].pc = "encrypt" /\ worker'[w].pc = "transcode" /\ worker'[w].key = k
          /\ stored' = k /\ worker'[w].next = worker[w].next
      BY <1>0, <3>1 DEF Encrypt, Worker
    <3> QED BY <1>0, <3>2 DEF Opened, Packaged
  <2>3. CASE Transcode(w)
    <3>1. /\ worker[w].pc = "transcode" /\ worker'[w].pc = "publish"
          /\ worker'[w].next = worker[w].next /\ worker'[w].key = worker[w].key
          /\ worker'[w].encrypt = worker[w].encrypt
          /\ UNCHANGED <<files, stored, disturbed>>
      BY <1>0, <2>3 DEF Transcode, Goto, Worker, MediaVars
    <3>2. worker[w].next = 1 /\ \A f \in Files : ~(f < 1)
      BY <1>0, <3>1, NFilesAssumption DEF Opened, Files
    <3> QED BY <1>0, <3>1, <3>2 DEF Opened, Packaged
  <2>4. CASE Publish(w)
    <3>1. /\ worker[w].pc = "publish" /\ worker'[w].pc = "publish"
          /\ worker'[w].next = worker[w].next + 1 /\ worker'[w].key = worker[w].key
          /\ worker'[w].encrypt = worker[w].encrypt
          /\ worker[w].next \in Files
          /\ files' = [files EXCEPT ![worker[w].next] = worker[w].key]
          /\ UNCHANGED <<stored, disturbed>>
      BY <1>0, <2>4, NFilesAssumption DEF Publish, Worker, Files
    <3>2. ASSUME NEW f \in Files, f < worker[w].next + 1, w \notin disturbed
          PROVE  files'[f] = worker[w].key
      <4>1. f = worker[w].next \/ (f # worker[w].next /\ f < worker[w].next)
        BY <3>1, <3>2, NFilesAssumption DEF Files
      <4> QED BY <1>0, <3>1, <3>2, <4>1 DEF Opened, TypeOK
    <3> QED BY <1>0, <3>1, <3>2 DEF Opened, Packaged
  <2>5. CASE Complete(w)
    <3>1. /\ worker[w].pc = "publish" /\ worker[w].next = NFiles + 1
          /\ worker'[w].pc = "completed"
          /\ worker'[w].next = worker[w].next /\ worker'[w].key = worker[w].key
          /\ worker'[w].encrypt = worker[w].encrypt
          /\ UNCHANGED <<files, stored, disturbed>>
      BY <1>0, <2>5 DEF Complete, Worker, MediaVars
    <3> QED BY <1>0, <3>1 DEF Opened, Packaged
  <2>6. CASE TranscodeFails(w) \/ Crash(w)
    BY <1>0, <1>1, <2>6
       DEF TranscodeFails, Crash, Goto, Fail, Holds, Packaged, InPackaging, Worker
  <2> QED BY <1>1, <2>1, <2>2, <2>3, <2>4, <2>5, <2>6
       DEF Step, Begin, Fetch, FetchFails, Wait, Gate, Extract, Store, InPackaging
<1>2. CASE Prepare(w)
  <2>1. /\ worker[w].pc = "prepare" /\ worker'[w].next = worker[w].next
        /\ worker'[w].encrypt = worker[w].encrypt
        /\ worker'[w].pc = IF worker[w].encrypt THEN "encrypt" ELSE "transcode"
    BY <1>0, <1>2 DEF Prepare, Goto, Worker
  <2> QED BY <1>0, <2>1 DEF Opened, Packaged
<1>3. CASE worker'[w].pc = "encrypt" /\ ~Prepare(w)
  <2>1. worker[w].pc \in InPackaging
    BY <1>0, <1>3, OnlyPrepareEnters DEF Holds, InPackaging
  <2> QED BY <1>0, <1>3, <2>1, Moves
<1>4. CASE ~Holds(w)' /\ ~Prepare(w)
  <2>1. worker'[w].pc \in Pcs
    BY <1>0, WorkerType DEF Worker
  <2> QED BY <1>0, <1>4, <2>1, Moves DEF Opened, Holds, InPackaging, Pcs
<1> QED BY <1>1, <1>2, <1>3, <1>4

LEMMA PlayStep == PlayInv /\ [Next]_vars => PlayInv'
<1> SUFFICES ASSUME PlayInv, [Next]_vars PROVE PlayInv'
  OBVIOUS
<1>1. PipelineInv'
  BY PipelineStep DEF PlayInv
<1>2. CASE Next
  <2>1. PICK w \in Workers : Step(w)
    BY <1>2 DEF Next
  <2>2. \A u \in Workers : Opened(u)'
    BY <2>1, OpenedActor, OpenedOthers
  <2>3. \A u, v \in Workers : Apart(u, v)'
    BY <2>1, ApartStep
  <2> QED BY <1>1, <2>2, <2>3 DEF PlayInv
<1>3. CASE UNCHANGED vars
  BY <1>1, <1>3 DEF vars, PlayInv, Opened, Apart, Packaged, Holds
<1> QED BY <1>2, <1>3

\* encryption.go:67 and full.go:298: a transcode that is completed, and that no other
\* packaging overlapped or followed, has all its files encrypted with the stored key.
THEOREM CompletedPlays == Spec => []CompletedIsPlayable
<1>1. PlayInv => CompletedIsPlayable
  <2> SUFFICES ASSUME PlayInv, NEW w \in Workers \ disturbed, Packaged(w)
               PROVE  /\ \A f \in Files : files[f] = worker[w].key
                      /\ worker[w].encrypt => stored = worker[w].key
    BY DEF CompletedIsPlayable, Packaged
  <2>1. Opened(w)
    BY DEF PlayInv
  <2>2. \A f \in Files : f < NFiles + 1
    BY NFilesAssumption DEF Files
  <2> QED BY <2>1, <2>2 DEF Opened
<1> QED BY <1>1, PlayInit, PlayStep, PTL DEF Spec
=============================================================================
