------------------------------ MODULE JobRequest ------------------------------
(***************************************************************************)
(* What becomes of a create request (internal/job/request/request.go and   *)
(* the helpers of handler/job.go): a pipeline is checked and turned into   *)
(* options, the options into their canonical form, which is fingerprinted, *)
(* stored and enqueued, and turned into requests again by a retry. Hash    *)
(* and source are the same throughout and left out; so is the callback     *)
(* URL, which the fingerprint ignores.                                     *)
(***************************************************************************)
EXTENDS SequencesExt, Integers

CONSTANTS
  AudioPipelines,  \* the audio pipelines that are asked for, see AudioPipeline
  VideoPipelines   \* the video pipelines

VARIABLE asked     \* the request at hand

Switch == {"absent", "off", "on"}  \* no such object, or its "enabled"
\* A string that is empty, or not there, is "unset".
Package == [state : Switch, profile : {"unset", "stream_video_standard", "stream_aac_standard"},
            encrypt : BOOLEAN]

\* The options of a stage are "zero" if all of them have their zero value.
Stage == [state : Switch, settings : {"zero", "tuned"}]
VideoPipeline == [analyze : BOOLEAN, cover : Stage, preview : Stage, transcode : BOOLEAN,
                  outputs : BOOLEAN, package : Package, downloads : BOOLEAN,
                  waveform : Switch, normalize : Switch]

Download == [profile : {"unset", "download_mp3_high", "download_flac_standard", "other"},
             format : {"unset", "mp3", "flac", "other"}, bitrate : {"unset", "128k", "320k"}]
Waveform == [state : Switch, known : BOOLEAN, bins : Int]
AudioPipeline == [waveform : Waveform,
                  normalize : Switch, package : Package, downloads : Seq(Download)]

ASSUME PipelinesAssumption ==
  /\ VideoPipelines \subseteq VideoPipeline
  /\ AudioPipelines \subseteq AudioPipeline
-----------------------------------------------------------------------------

(* Audio *)

DownloadOK(d) ==
  CASE d.profile = "download_mp3_high" -> d.format \in {"unset", "mp3"}
    [] d.profile = "download_flac_standard" -> d.format \in {"unset", "flac"} /\ d.bitrate = "unset"
    [] d.profile = "other" -> FALSE
    [] d.profile = "unset" -> d.format = "mp3" \/ (d.format = "flac" /\ d.bitrate = "unset")

\* Mutant of ApplyDownload: the profile keeps a bitrate that is there.
ApplyProfileLast(o, d) ==
  IF d.profile = "download_mp3_high"
    THEN [o EXCEPT !.mp3 = TRUE, !.bitrate = IF @ = "unset" THEN "320k" ELSE @]
  ELSE IF d.profile = "unset" /\ d.format = "mp3"
    THEN [o EXCEPT !.mp3 = TRUE, !.bitrate = IF d.bitrate = "unset" THEN @ ELSE d.bitrate]
  ELSE [o EXCEPT !.flac = TRUE]

\* applyStructuredAudioDownload.
ApplyDownload(o, d) ==
  IF d.profile = "download_mp3_high" THEN [o EXCEPT !.mp3 = TRUE, !.bitrate = "320k"]
  ELSE IF d.profile = "unset" /\ d.format = "mp3"
    THEN [o EXCEPT !.mp3 = TRUE, !.bitrate = IF d.bitrate = "unset" THEN @ ELSE d.bitrate]
  ELSE [o EXCEPT !.flac = TRUE]

\* buildStructuredAudioOptions: what it rejects, and what it builds.
AudioWellFormed(p) ==
  /\ p.waveform.state = "on" => p.waveform.known
  /\ p.normalize # "on"
  /\ p.package.state # "absent" =>
       /\ p.package.profile \in {"unset", "stream_aac_standard"}
       /\ p.package.encrypt => p.package.state = "on"
  /\ \A i \in DOMAIN p.downloads : DownloadOK(p.downloads[i])

AudioOptions(p) ==
  FoldLeft(ApplyDownload,
           [hls |-> p.package.state = "on",
            encrypt |-> p.package.state = "on" /\ p.package.encrypt,
            mp3 |-> FALSE, flac |-> FALSE, bitrate |-> "unset",
            waveform |-> p.waveform.state = "on",
            bins |-> IF p.waveform.state = "on" /\ p.waveform.bins > 0 THEN p.waveform.bins ELSE 0],
           p.downloads)

\* canonicalizeAudioTranscodeOptions: nothing asked for is everything, and
\* the bins and the bitrate are there exactly if they are used.
Defaulted(o) ==
  LET all == ~(o.hls \/ o.mp3 \/ o.flac \/ o.waveform)
      f == [o EXCEPT !.hls = @ \/ all, !.mp3 = @ \/ all, !.flac = @ \/ all, !.waveform = @ \/ all]
  IN  [f EXCEPT !.bins = CASE ~f.waveform -> 0 [] f.waveform /\ @ <= 0 -> 2048 [] OTHER -> @,
                !.bitrate = CASE ~f.mp3 -> "unset" [] f.mp3 /\ @ = "unset" -> "320k" [] OTHER -> @]

\* validateJobOptions.
AudioAccepted(p) ==
  /\ AudioWellFormed(p)
  /\ LET o == Defaulted(AudioOptions(p)) IN o.encrypt => o.hls /\ ~o.mp3 /\ ~o.flac

\* The second form of it, where tasks are made: encryption drops the downloads.
EnqueuedAudio(o) ==
  Defaulted(IF o.encrypt THEN [o EXCEPT !.hls = TRUE, !.mp3 = FALSE, !.flac = FALSE] ELSE o)
-----------------------------------------------------------------------------

(* Video *)

IsDefault(p) ==
  /\ ~p.analyze /\ ~p.transcode /\ ~p.outputs /\ ~p.downloads
  /\ {p.cover.state, p.preview.state, p.package.state, p.waveform, p.normalize} = {"absent"}

Deliverables(p) == {d \in {"cover", "preview", "hls"} :
                      CASE d = "cover" -> p.cover.state = "on"
                        [] d = "preview" -> p.preview.state = "on"
                        [] d = "hls" -> p.package.state = "on"}

\* buildStructuredVideoRequest: what it rejects, and what it builds. Options a
\* job has no use for are "none", a stage without options is "nil".
VideoAccepted(p) ==
  \/ IsDefault(p)
  \/ /\ ~p.transcode /\ ~p.downloads /\ p.waveform # "on" /\ p.normalize # "on"
     /\ p.package.state = "absent" \/ p.package.profile \in {"unset", "stream_video_standard"}
     /\ Deliverables(p) \in {{"cover"}, {"preview"}, {"hls"}, {"cover", "preview", "hls"}}

Encryption(p) == IF p.package.encrypt THEN "encrypt" ELSE "zero"

VideoRequest(p) ==
  LET ds == Deliverables(p) IN
  CASE IsDefault(p) ->
         [type |-> "video:full",
          options |-> [cover |-> "nil", preview |-> "nil", transcode |-> "nil"]]
    [] ds = {"cover"} ->
         [type |-> "video:cover",
          options |-> [cover |-> p.cover.settings, preview |-> "none", transcode |-> "none"]]
    [] ds = {"preview"} ->
         [type |-> "video:preview",
          options |-> [cover |-> "none", preview |-> p.preview.settings, transcode |-> "none"]]
    [] ds = {"hls"} ->
         [type |-> "video:transcode",
          options |-> [cover |-> "none", preview |-> "none", transcode |-> Encryption(p)]]
    [] OTHER ->
         [type |-> "video:full",
          options |-> [cover |-> p.cover.settings, preview |-> p.preview.settings,
                       transcode |-> Encryption(p)]]

\* canonicalizeVideoFullOptions: a stage with zero options is no stage options.
FullCanonical(o) == [s \in DOMAIN o |-> IF o[s] = "zero" THEN "nil" ELSE o[s]]
-----------------------------------------------------------------------------

(* The request as a job *)

\* Mutant of Canonical: the defaults are left to the worker.
CanonicalVideoOnly(r) ==
  IF r.type = "video:full" THEN [r EXCEPT !.options = FullCanonical(@)] ELSE r

\* Canonicalize.
Canonical(r) ==
  CASE r.type = "audio:transcode" -> [r EXCEPT !.options = Defaulted(@)]
    [] r.type = "video:full" -> [r EXCEPT !.options = FullCanonical(@)]
    [] OTHER -> r

\* requestFingerprint: equal fingerprints are equal type and options.
Fingerprint(r) == <<r.type, r.options>>

\* enqueueTask: the options in the payload of the task.
Payload(r) ==
  CASE r.type = "audio:transcode" -> EnqueuedAudio(r.options)
    [] r.type = "video:full" -> FullCanonical(r.options)
    [] OTHER -> r.options

\* The parts of a full job, and their types.
TypeOf == [cover |-> "video:cover", preview |-> "video:preview", transcode |-> "video:transcode"]
Parts == {TypeOf[s] : s \in DOMAIN TypeOf}

\* Mutant of PartRequest: the part forgets what the full job asked for.
PartPlain(type, o) ==
  [type |-> type,
   options |-> [s \in DOMAIN TypeOf |-> IF type = TypeOf[s] THEN "zero" ELSE "none"]]

\* retryRequestForVideoFull: the request for one part of a full job.
PartRequest(type, o) ==
  [type |-> type,
   options |-> [s \in DOMAIN TypeOf |-> IF type # TypeOf[s] THEN "none"
                                        ELSE IF o[s] = "nil" THEN "zero" ELSE o[s]]]

\* The request for a pipeline, and the row of the job it creates.
Request(p) == IF asked.kind = "audio" THEN [type |-> "audio:transcode", options |-> AudioOptions(p)]
              ELSE VideoRequest(p)
Accepted == \/ asked.kind = "audio" /\ AudioAccepted(asked.pipeline)
            \/ asked.kind = "video" /\ VideoAccepted(asked.pipeline)
Row == Canonical(Request(asked.pipeline))

RequestInit == asked = [kind |-> "none"]
AskAudio(p) == asked.kind = "none" /\ asked' = [kind |-> "audio", pipeline |-> p]
AskVideo(p) == asked.kind = "none" /\ asked' = [kind |-> "video", pipeline |-> p]
RequestNext == (\E p \in AudioPipelines : AskAudio(p)) \/ (\E p \in VideoPipelines : AskVideo(p))
RequestSpec == RequestInit /\ [][RequestNext]_asked
-----------------------------------------------------------------------------

\* A retried job is the same job: the stored options are canonical, so a retry
\* has the fingerprint of the job it retries, and the task that is enqueued
\* does what the row and the fingerprint say.
RetryIsSameJob ==
  Accepted => /\ Fingerprint(Canonical(Row)) = Fingerprint(Row)
              /\ Payload(Row) = Row.options

\* The pipeline that asks for one part of a full pipeline and nothing else.
Off == [state |-> "absent", settings |-> "zero"]
Alone(type, p) ==
  LET on(s) == [state |-> "on", settings |-> IF IsDefault(p) THEN "zero" ELSE s.settings]
  IN  [p EXCEPT !.analyze = FALSE, !.outputs = FALSE, !.waveform = "absent", !.normalize = "absent",
                !.cover = IF type = "video:cover" THEN on(@) ELSE Off,
                !.preview = IF type = "video:preview" THEN on(@) ELSE Off,
                !.package = [state |-> IF type = "video:transcode" THEN "on" ELSE "absent",
                             profile |-> "unset", encrypt |-> @.encrypt /\ ~IsDefault(p)]]

\* A part that a retry makes of a full job is the job a client gets that asks
\* for this part directly: they share their fingerprint, so one is reused for
\* the other instead of running beside it.
PartIsDirectRequest ==
  Accepted /\ Row.type = "video:full" =>
    \A t \in Parts :
      /\ VideoAccepted(Alone(t, asked.pipeline))
      /\ Fingerprint(Canonical(PartRequest(t, Row.options)))
           = Fingerprint(Canonical(VideoRequest(Alone(t, asked.pipeline))))

\* What an audio pipeline asks for, in its own terms.
AudioWork(p) ==
  LET mp3s == {i \in DOMAIN p.downloads : "mp3" = p.downloads[i].format
                                          \/ p.downloads[i].profile = "download_mp3_high"}
      named(i) == p.downloads[i].profile # "unset" \/ p.downloads[i].bitrate # "unset"
      chosen == {i \in mp3s : named(i)}
      parts == (IF p.package.state = "on" THEN {"hls"} ELSE {})
               \cup (IF mp3s # {} THEN {"mp3"} ELSE {})
               \cup (IF mp3s # DOMAIN p.downloads THEN {"flac"} ELSE {})
               \cup (IF p.waveform.state = "on" THEN {"waveform"} ELSE {})
      does == IF parts = {} THEN {"hls", "mp3", "flac", "waveform"} ELSE parts
      last == p.downloads[Max(chosen)]
  IN  [hls |-> "hls" \in does, mp3 |-> "mp3" \in does, flac |-> "flac" \in does,
       waveform |-> "waveform" \in does, encrypt |-> p.package.state = "on" /\ p.package.encrypt,
       bins |-> CASE "waveform" \notin does -> 0
                  [] p.waveform.state = "on" /\ p.waveform.bins > 0 -> p.waveform.bins
                  [] OTHER -> 2048,
       bitrate |-> IF "mp3" \notin does THEN "unset"
                   ELSE IF chosen = {} \/ last.profile # "unset" THEN "320k" ELSE last.bitrate]

\* A job does what was asked for, with the last word of a list of downloads
\* that contradict each other, and a stream is never encrypted beside a clear
\* copy. Requests for the same work are the same job, however they are put: a
\* video pipeline is as good as one that only says what is to be done.
WorkIsWhatWasAsked ==
  Accepted =>
    IF asked.kind = "audio"
      THEN LET o == Payload(Row) IN /\ o = AudioWork(asked.pipeline)
                                    /\ o.encrypt => ~o.mp3 /\ ~o.flac
      ELSE LET p == asked.pipeline
               on(d, s) == IF d \in Deliverables(p) \/ IsDefault(p)
                             THEN [state |-> "on", settings |-> IF IsDefault(p) THEN "zero" ELSE s.settings]
                             ELSE Off
               plain == [p EXCEPT !.analyze = FALSE, !.outputs = FALSE,
                                  !.waveform = "absent", !.normalize = "absent",
                                  !.cover = on("cover", @), !.preview = on("preview", @),
                                  !.package = [state |-> IF on("hls", Off) # Off THEN "on" ELSE "absent",
                                               profile |-> "unset",
                                               encrypt |-> @.encrypt /\ "hls" \in Deliverables(p)]]
           IN  Fingerprint(Row) = Fingerprint(Canonical(VideoRequest(plain)))
=============================================================================
