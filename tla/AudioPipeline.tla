---------------------------- MODULE AudioPipeline ----------------------------
(***************************************************************************)
(* What deliveries of audio:transcode tasks do for one source hash         *)
(* (handlers/audio.go, audio/result.go): the stages one after the other,   *)
(* the result they leave, the objects in the media bucket and the stream   *)
(* key they share with other deliveries, and at the end the callback.      *)
(***************************************************************************)
EXTENDS Webhook, Sequences

CONSTANTS
  Keys,    \* content keys GenerateKey can return
  Clear,   \* "not encrypted"
  Absent,  \* "no such object"
  NFiles,  \* how many files the packager writes
  Orders   \* what a job can ask for, see Order

Parts == {"waveform", "hls", "mp3", "flac"}
Files == 1 .. NFiles
Stages == {"source", "probe", "waveform", "package", "downloads"}

\* What a canonical request can ask for: something, and downloads or an
\* encrypted stream but not both.
Order == {o \in [wants : (SUBSET Parts) \ {{}}, encrypt : BOOLEAN] :
            o.encrypt => "hls" \in o.wants /\ o.wants \cap {"mp3", "flac"} = {}}

ASSUME NFilesAssumption == NFiles \in Nat \ {0}
ASSUME KeysAssumption == Clear \notin Keys /\ Absent \notin Keys /\ Clear # Absent
ASSUME OrdersAssumption == Orders \subseteq Order

VARIABLES
  worker,    \* worker[w]: the delivery w handles
  objects,   \* waveform and downloads that are in the media bucket
  files,     \* files[f]: the key the HLS file f was encrypted with
  stored,    \* the content key in stream_encryption_keys, asset type audio
  used,      \* keys that were generated
  disturbed  \* history: packagings that another one overlapped or followed

mediaVars == <<objects, files, stored, used, disturbed>>
vars == <<worker, mediaVars, webhookVars>>

\* The steps of the handler, in their order.
Steps == <<"source", "probe", "waveform", "encrypt", "package", "publish",
           "prepare", "mp3", "flac", "finish">>

\* Whether an order has the step at all.
Applies(o, pc) ==
  CASE pc \in {"waveform", "mp3", "flac"} -> pc \in o.wants
    [] pc = "encrypt" -> o.encrypt
    [] pc \in {"package", "publish"} -> "hls" \in o.wants
    [] OTHER -> TRUE

StepAfter(o, pc) ==
  LET later(i) == \E h \in 1 .. i - 1 : Steps[h] = pc
      i == CHOOSE i \in DOMAIN Steps :
             /\ later(i) /\ Applies(o, Steps[i])
             /\ \A j \in 1 .. i - 1 : ~(later(j) /\ Applies(o, Steps[j]))
  IN Steps[i]

\* The stage of the result a step belongs to.
StageOf(pc) == CASE pc \in {"encrypt", "package", "publish"} -> "package"
                 [] pc \in {"prepare", "mp3", "flac", "finish"} -> "downloads"
                 [] OTHER -> pc

\* The stages an order enables; the others are skipped from the start.
Enabled(o) ==
  {"source", "probe"} \cup (o.wants \cap {"waveform"})
    \cup (IF "hls" \in o.wants THEN {"package"} ELSE {})
    \cup (IF o.wants \cap {"mp3", "flac"} # {} THEN {"downloads"} ELSE {})

Statuses == {"pending", "ready", "failed", "skipped"}

Worker == [pc : {Steps[i] : i \in DOMAIN Steps} \cup {"idle", "completed", "failed", "dead"},
           job : Jobs \cup {NoJob}, order : Order, stage : [Stages -> Statuses],
           failure : Stages \cup {"none"}, artifacts : SUBSET Parts,
           key : Keys \cup {Clear}, next : 1 .. NFiles + 1]

\* NewProcessResult.
Fresh(j, o) ==
  [pc |-> "source", job |-> j, order |-> o, failure |-> "none", artifacts |-> {},
   stage |-> [s \in Stages |-> IF s \in Enabled(o) THEN "pending" ELSE "skipped"],
   key |-> Clear, next |-> 1]

Init ==
  /\ WebhookInit
  /\ worker = [w \in Workers |-> [Fresh(NoJob, [wants |-> {"hls"}, encrypt |-> FALSE])
                                    EXCEPT !.pc = "idle"]]
  /\ objects = {} /\ used = {} /\ disturbed = {}
  /\ files = [f \in Files |-> Absent]
  /\ stored = Absent

-----------------------------------------------------------------------------

InPackaging == {"encrypt", "package", "publish"}
AtWork(w) == \E i \in DOMAIN Steps : worker[w].pc = Steps[i]

\* The handler is called with a task; all deliveries of a job have its payload.
Begin(w, j, o) ==
  /\ worker[w].pc = "idle"
  /\ \A v \in Workers : worker[v].job = j => worker[v].order = o
  /\ worker' = [worker EXCEPT ![w] = Fresh(j, o)]
  /\ UNCHANGED <<mediaVars, webhookVars>>

\* Step pc of w has succeeded: its stage is done unless more of it is to come,
\* and new is what it adds to the result.
Proceed(w, new) ==
  LET j == worker[w]
      next == StepAfter(j.order, j.pc)
      done == StageOf(next) # StageOf(j.pc)
  IN
  /\ worker' = [worker EXCEPT ![w] =
       [j EXCEPT !.pc = next, !.artifacts = j.artifacts \cup new,
                 !.stage[StageOf(j.pc)] = IF done THEN "ready" ELSE j.stage[StageOf(j.pc)]]]
  /\ disturbed' =
       IF next \in InPackaging /\ j.pc \notin InPackaging
         THEN LET others == Workers \ {w}
                  rivals == {v \in others : worker[v].pc \in InPackaging}
              IN  disturbed \cup rivals \cup {v \in others : "hls" \in worker[v].artifacts}
                            \cup (IF rivals = {} THEN {} ELSE {w})
         ELSE disturbed

\* Steps that leave nothing behind: download, probe, package, scratch directory.
Work(w) ==
  /\ worker[w].pc \in {"source", "probe", "package", "prepare"}
  /\ Proceed(w, {})
  /\ UNCHANGED <<objects, files, stored, used, webhookVars>>

\* Mutant of Upload: the object is reported before it is put.
UploadReported(w) ==
  /\ worker[w].pc \in {"waveform", "mp3", "flac"}
  /\ Proceed(w, {worker[w].pc})
  /\ objects' \in {objects, objects \cup {worker[w].pc}}
  /\ UNCHANGED <<files, stored, used, webhookVars>>

\* Generate or encode, and put one object.
Upload(w) ==
  /\ worker[w].pc \in {"waveform", "mp3", "flac"}
  /\ Proceed(w, {worker[w].pc})
  /\ objects' = objects \cup {worker[w].pc}
  /\ UNCHANGED <<files, stored, used, webhookVars>>

\* Mutant of Encrypt: a hash keeps its first key.
EncryptOnce(w, k) ==
  /\ worker[w].pc = "encrypt" /\ k \notin used
  /\ used' = used \cup {k}
  /\ stored' = IF stored = Absent THEN k ELSE stored
  /\ worker' = [worker EXCEPT ![w].pc = "package", ![w].key = k]
  /\ UNCHANGED <<objects, files, disturbed, webhookVars>>

\* SetupHLSEncryption: a new key replaces the stored one.
Encrypt(w, k) ==
  /\ worker[w].pc = "encrypt" /\ k \notin used
  /\ used' = used \cup {k}
  /\ stored' = k
  /\ worker' = [worker EXCEPT ![w].pc = "package", ![w].key = k]
  /\ UNCHANGED <<objects, files, disturbed, webhookVars>>

\* uploadAudioHLSDir puts the files one by one; after the last one the
\* stream is part of the result.
Publish(w) ==
  LET j == worker[w] IN
  /\ j.pc = "publish"
  /\ IF j.next <= NFiles
       THEN /\ files' = [files EXCEPT ![j.next] = j.key]
            /\ worker' = [worker EXCEPT ![w].next = j.next + 1]
            /\ UNCHANGED disturbed
       ELSE Proceed(w, {"hls"}) /\ UNCHANGED files
  /\ UNCHANGED <<objects, stored, used, webhookVars>>

\* What a step that fails may have done all the same.
HalfDone(w) ==
  LET j == worker[w] IN
  \/ UNCHANGED <<objects, files, stored, used>>
  \/ /\ j.pc \in {"waveform", "mp3", "flac"}
     /\ objects' = objects \cup {j.pc} /\ UNCHANGED <<files, stored, used>>
  \/ /\ j.pc = "encrypt"
     /\ \E k \in Keys \ used : stored' = k /\ used' = used \cup {k}
     /\ UNCHANGED <<objects, files>>
  \/ /\ j.pc = "publish" /\ j.next <= NFiles
     /\ files' = [files EXCEPT ![j.next] = j.key] /\ UNCHANGED <<objects, stored, used>>

\* Mutant of Failed: the stages that were not reached keep their state.
FailedOnly(j) ==
  [j EXCEPT !.pc = "failed", !.failure = StageOf(j.pc), !.stage[StageOf(j.pc)] = "failed"]

\* The failed stage, skipPendingAudioStages, and MarkFailure.
Failed(j) ==
  [j EXCEPT !.pc = "failed", !.failure = StageOf(j.pc),
            !.stage = [s \in Stages |-> IF s = StageOf(j.pc) THEN "failed"
                                        ELSE IF j.stage[s] = "pending" THEN "skipped"
                                        ELSE j.stage[s]]]

\* failAudioProcess and failJobWithResult.
FailAudio(w) ==
  /\ AtWork(w) /\ worker[w].pc # "finish"
  /\ worker' = [worker EXCEPT ![w] = Failed(worker[w])]
  /\ HalfDone(w)
  /\ Announce(w, worker[w].job)
  /\ UNCHANGED disturbed

\* Downloads are ready, if there were to be any, and the job is complete.
CompleteAudio(w) ==
  /\ worker[w].pc = "finish"
  /\ worker' = [worker EXCEPT ![w].pc = "completed",
       ![w].stage["downloads"] = IF "downloads" \in Enabled(worker[w].order)
                                   THEN "ready" ELSE worker[w].stage["downloads"]]
  /\ Announce(w, worker[w].job)
  /\ UNCHANGED mediaVars

\* The worker dies in the middle of it.
Die(w) ==
  /\ AtWork(w)
  /\ worker' = [worker EXCEPT ![w].pc = "dead"]
  /\ UNCHANGED <<mediaVars, webhookVars>>

Handle(w) == Work(w) \/ Upload(w) \/ (\E k \in Keys : Encrypt(w, k)) \/ Publish(w)
             \/ FailAudio(w) \/ CompleteAudio(w) \/ Die(w)

\* The callback of w is delivered, or lost with its process.
CallBack(w) == (Delivery(w) \/ Lose(w)) /\ UNCHANGED <<worker, mediaVars>>

Next == \E w \in Workers : \/ \E j \in Jobs, o \in Orders : Begin(w, j, o)
                           \/ Handle(w) \/ CallBack(w)

Spec == Init /\ [][Next]_vars
-----------------------------------------------------------------------------

\* Every variable keeps its type.
TypeOK ==
  /\ WebhookTypeOK
  /\ worker \in [Workers -> Worker]
  /\ objects \subseteq Parts \ {"hls"}
  /\ files \in [Files -> Keys \cup {Clear, Absent}]
  /\ stored \in Keys \cup {Absent}
  /\ used \subseteq Keys
  /\ disturbed \subseteq Workers

\* The stage whose output a part is.
StageFor(p) == CASE p = "hls" -> "package" [] p = "waveform" -> "waveform" [] OTHER -> "downloads"

\* What a result lists is in the bucket; what it says is ready is listed.
ReportIsTrue ==
  \A w \in Workers :
    LET j == worker[w] IN
    /\ j.artifacts \ {"hls"} \subseteq objects
    /\ "hls" \in j.artifacts => \A f \in Files : files[f] # Absent
    /\ \A p \in j.order.wants : j.stage[StageFor(p)] = "ready" => p \in j.artifacts
    /\ j.pc = "completed" => j.artifacts = j.order.wants

\* The order of the stages, as far as the order at hand has them.
Rank == [s \in Stages |-> CASE s = "source" -> 1 [] s = "probe" -> 2 [] s = "waveform" -> 3
                            [] s = "package" -> 4 [] s = "downloads" -> 5]

\* A job that has ended blames at most one stage, everything before that one
\* is ready, and nothing after it is reported as anything but skipped.
OneCulprit ==
  \A w \in Workers :
    LET j == worker[w] IN
    /\ j.pc = "completed" => \A s \in Enabled(j.order) : j.stage[s] = "ready"
    /\ j.pc = "failed" =>
         /\ j.stage[j.failure] = "failed"
         /\ \A s \in Enabled(j.order) \ {j.failure} :
              j.stage[s] = IF Rank[s] < Rank[j.failure] THEN "ready" ELSE "skipped"

\* A stream can be played once it is part of a result: its files fit together
\* and the stored key opens them, whatever failed or crashed before. Only
\* another packaging at the same time, or a later one, breaks it.
PublishedPlays ==
  \A w \in Workers \ disturbed :
    "hls" \in worker[w].artifacts =>
      /\ \A f \in Files : files[f] = worker[w].key
      /\ worker[w].order.encrypt => stored = worker[w].key
=============================================================================
