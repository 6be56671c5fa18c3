------------------------ MODULE AudioPipelineProofs ------------------------
(***************************************************************************)
(* What holds of AudioPipeline and its callbacks for any number of         *)
(* deliveries, jobs, keys, files and attempts to post: reports are true, a *)
(* failure blames one stage, a stream that nobody disturbed plays, and     *)
(* callback_status speaks of the outcome announced last.                   *)
(***************************************************************************)
EXTENDS AudioPipeline, TLAPS

AtStep(j) == \E i \in DOMAIN Steps : j.pc = Steps[i]

\* The stages of a handler about to do step pc of order o.
StageAt(o, pc) ==
  [s \in Stages |-> IF s \notin Enabled(o) THEN "skipped"
                    ELSE IF Rank[s] < Rank[StageOf(pc)] THEN "ready" ELSE "pending"]

\* The parts that steps before pc make.
PartsBefore(pc) ==
  CASE pc \in {"source", "probe", "waveform"} -> {}
    [] pc \in {"encrypt", "package", "publish"} -> {"waveform"}
    [] pc \in {"prepare", "mp3"} -> {"waveform", "hls"}
    [] pc = "flac" -> {"waveform", "hls", "mp3"}
    [] OTHER -> Parts

\* What step pc adds to the result.
Adds(pc) == CASE pc \in {"waveform", "mp3", "flac"} -> {pc}
              [] pc = "publish" -> {"hls"}
              [] OTHER -> {}

\* A handler at work has done exactly what its order has before its step.
Progress(j) ==
  AtStep(j) =>
    /\ Applies(j.order, j.pc)
    /\ j.stage = StageAt(j.order, j.pc)
    /\ j.artifacts = j.order.wants \cap PartsBefore(j.pc)
    /\ j.job \in Jobs
    /\ j.pc # "publish" /\ j.pc \in {"source", "probe", "waveform"} \cup InPackaging => j.next = 1

\* The end of a job names one stage.
Ended(j) ==
  /\ j.pc = "completed" =>
       /\ j.artifacts = j.order.wants
       /\ \A s \in Enabled(j.order) : j.stage[s] = "ready"
  /\ j.pc = "failed" =>
       /\ j.stage[j.failure] = "failed"
       /\ \A s \in Enabled(j.order) \ {j.failure} :
            j.stage[s] = IF Rank[s] < Rank[j.failure] THEN "ready" ELSE "skipped"

\* What is ready has been put, and what has been put is there.
Listed(j) == \A p \in j.order.wants : j.stage[StageFor(p)] = "ready" => p \in j.artifacts

InBucket(j) ==
  /\ j.artifacts \ {"hls"} \subseteq objects
  /\ "hls" \in j.artifacts => \A f \in Files : files[f] # Absent
  /\ j.pc = "publish" => \A f \in Files : f < j.next => files[f] # Absent

MediaTypeOK ==
  /\ worker \in [Workers -> Worker]
  /\ objects \subseteq Parts \ {"hls"}
  /\ files \in [Files -> Keys \cup {Clear, Absent}]
  /\ stored \in Keys \cup {Absent}
  /\ used \subseteq Keys
  /\ disturbed \subseteq Workers

TrackInv ==
  /\ MediaTypeOK
  /\ \A w \in Workers : /\ Progress(worker[w]) /\ Ended(worker[w])
                        /\ Listed(worker[w]) /\ InBucket(worker[w])

-----------------------------------------------------------------------------
(***************************************************************************)
(* The order of the steps.                                                 *)
(***************************************************************************)

\* The next step is the first later one that the order has.
LEMMA NextStep ==
  ASSUME NEW o, NEW k \in 1 .. 10, NEW i \in 1 .. 10, k < i, Applies(o, Steps[i]),
         \A h \in k + 1 .. i - 1 : ~Applies(o, Steps[h])
  PROVE  StepAfter(o, Steps[k]) = Steps[i]
<1> DEFINE later(n) == \E h \in 1 .. n - 1 : Steps[h] = Steps[k]
           First(n) == /\ later(n) /\ Applies(o, Steps[n])
                       /\ \A m \in 1 .. n - 1 : ~(later(m) /\ Applies(o, Steps[m]))
<1>1. DOMAIN Steps = 1 .. 10
  BY DEF Steps
<1>2. ASSUME NEW n \in 1 .. 10 PROVE later(n) <=> k < n
  <2>1. ASSUME NEW h \in 1 .. 10, Steps[h] = Steps[k] PROVE h = k
    BY <2>1 DEF Steps
  <2> QED BY <2>1
<1>3. First(i)
  BY <1>2
<1>4. ASSUME NEW n \in 1 .. 10, First(n) PROVE n = i
  BY <1>2, <1>3, <1>4
<1> HIDE DEF First
<1>5. (CHOOSE n \in 1 .. 10 : First(n)) = i
  BY <1>3, <1>4
<1> QED BY <1>1, <1>5 DEF StepAfter, First

\* What follows each step.
LEMMA StepTable ==
  ASSUME NEW o
  PROVE  /\ StepAfter(o, "source") = "probe"
         /\ StepAfter(o, "probe") = IF "waveform" \in o.wants THEN "waveform"
                                    ELSE IF o.encrypt THEN "encrypt"
                                    ELSE IF "hls" \in o.wants THEN "package" ELSE "prepare"
         /\ StepAfter(o, "waveform") = IF o.encrypt THEN "encrypt"
                                       ELSE IF "hls" \in o.wants THEN "package" ELSE "prepare"
         /\ "hls" \in o.wants => /\ StepAfter(o, "encrypt") = "package"
                                 /\ StepAfter(o, "package") = "publish"
         /\ StepAfter(o, "publish") = "prepare"
         /\ StepAfter(o, "prepare") = IF "mp3" \in o.wants THEN "mp3"
                                      ELSE IF "flac" \in o.wants THEN "flac" ELSE "finish"
         /\ StepAfter(o, "mp3") = IF "flac" \in o.wants THEN "flac" ELSE "finish"
         /\ StepAfter(o, "flac") = "finish"
<1>1. /\ Steps[1] = "source" /\ Steps[2] = "probe" /\ Steps[3] = "waveform"
      /\ Steps[4] = "encrypt" /\ Steps[5] = "package" /\ Steps[6] = "publish"
      /\ Steps[7] = "prepare" /\ Steps[8] = "mp3" /\ Steps[9] = "flac" /\ Steps[10] = "finish"
  BY DEF Steps
<1>2. /\ Applies(o, Steps[2]) /\ Applies(o, Steps[7]) /\ Applies(o, Steps[10])
      /\ Applies(o, Steps[3]) <=> "waveform" \in o.wants
      /\ Applies(o, Steps[4]) <=> o.encrypt
      /\ Applies(o, Steps[5]) <=> "hls" \in o.wants
      /\ Applies(o, Steps[6]) <=> "hls" \in o.wants
      /\ Applies(o, Steps[8]) <=> "mp3" \in o.wants
      /\ Applies(o, Steps[9]) <=> "flac" \in o.wants
  BY <1>1 DEF Applies
<1> DEFINE Follows(k, i) == /\ Applies(o, Steps[i])
                            /\ \A h \in k + 1 .. i - 1 : ~Applies(o, Steps[h])
<1>3. ASSUME NEW k \in 1 .. 10, NEW i \in 1 .. 10, k < i, Follows(k, i)
      PROVE  StepAfter(o, Steps[k]) = Steps[i]
  BY <1>3, NextStep
<1>4. StepAfter(o, "source") = "probe" /\ StepAfter(o, "publish") = "prepare"
      /\ StepAfter(o, "flac") = "finish"
  <2>1. Follows(1, 2) /\ Follows(6, 7) /\ Follows(9, 10)
    BY <1>2
  <2> HIDE DEF Follows
  <2> QED BY <2>1, <1>1, <1>3
<1>5. "hls" \in o.wants =>
        StepAfter(o, "encrypt") = "package" /\ StepAfter(o, "package") = "publish"
  <2>1. "hls" \in o.wants => Follows(4, 5) /\ Follows(5, 6)
    BY <1>2
  <2> HIDE DEF Follows
  <2> QED BY <2>1, <1>1, <1>3
<1>6. StepAfter(o, "mp3") = IF "flac" \in o.wants THEN "flac" ELSE "finish"
  <2>1. IF "flac" \in o.wants THEN Follows(8, 9) ELSE Follows(8, 10)
    BY <1>2
  <2> HIDE DEF Follows
  <2> QED BY <2>1, <1>1, <1>3
<1>7. StepAfter(o, "prepare") = IF "mp3" \in o.wants THEN "mp3"
                                ELSE IF "flac" \in o.wants THEN "flac" ELSE "finish"
  <2>1. IF "mp3" \in o.wants THEN Follows(7, 8)
        ELSE IF "flac" \in o.wants THEN Follows(7, 9) ELSE Follows(7, 10)
    BY <1>2
  <2> HIDE DEF Follows
  <2> QED BY <2>1, <1>1, <1>3
<1>8. StepAfter(o, "waveform") = IF o.encrypt THEN "encrypt"
                                 ELSE IF "hls" \in o.wants THEN "package" ELSE "prepare"
  <2>1. IF o.encrypt THEN Follows(3, 4)
        ELSE IF "hls" \in o.wants THEN Follows(3, 5) ELSE Follows(3, 7)
    BY <1>2
  <2> HIDE DEF Follows
  <2> QED BY <2>1, <1>1, <1>3
<1>9. StepAfter(o, "probe") = IF "waveform" \in o.wants THEN "waveform"
                              ELSE IF o.encrypt THEN "encrypt"
                              ELSE IF "hls" \in o.wants THEN "package" ELSE "prepare"
  <2>1. IF "waveform" \in o.wants THEN Follows(2, 3)
        ELSE IF o.encrypt THEN Follows(2, 4)
        ELSE IF "hls" \in o.wants THEN Follows(2, 5) ELSE Follows(2, 7)
    BY <1>2
  <2> HIDE DEF Follows
  <2> QED BY <2>1, <1>1, <1>3
<1> QED BY <1>4, <1>5, <1>6, <1>7, <1>8, <1>9

\* The names of the steps.
LEMMA StepNames ==
  ASSUME NEW pc
  PROVE  (\E i \in DOMAIN Steps : pc = Steps[i])
         <=> pc \in {"source", "probe", "waveform", "encrypt", "package", "publish",
                     "prepare", "mp3", "flac", "finish"}
<1>1. DOMAIN Steps = 1 .. 10
  BY DEF Steps
<1>2. /\ Steps[1] = "source" /\ Steps[2] = "probe" /\ Steps[3] = "waveform"
      /\ Steps[4] = "encrypt" /\ Steps[5] = "package" /\ Steps[6] = "publish"
      /\ Steps[7] = "prepare" /\ Steps[8] = "mp3" /\ Steps[9] = "flac" /\ Steps[10] = "finish"
  BY DEF Steps
<1> QED BY <1>1, <1>2

\* A step done, its successor's stages and parts are those before it, with what
\* the step adds and its stage ready if it was the last one of the stage.
LEMMA Advance ==
  ASSUME NEW o \in Order, NEW pc, \E i \in DOMAIN Steps : pc = Steps[i],
         pc # "finish", Applies(o, pc)
  PROVE  LET next == StepAfter(o, pc) IN
         /\ \E i \in DOMAIN Steps : next = Steps[i]
         /\ Applies(o, next)
         /\ StageOf(pc) \in Stages
         /\ StageAt(o, next) = [StageAt(o, pc) EXCEPT ![StageOf(pc)] =
              IF StageOf(next) # StageOf(pc) THEN "ready" ELSE StageAt(o, pc)[StageOf(pc)]]
         /\ o.wants \cap PartsBefore(next) = (o.wants \cap PartsBefore(pc)) \cup Adds(pc)
<1> DEFINE next == StepAfter(o, pc)
<1>0. pc \in {"source", "probe", "waveform", "encrypt", "package", "publish", "prepare", "mp3", "flac"}
  BY StepNames
<1>o. /\ o.wants \subseteq Parts /\ o.encrypt \in BOOLEAN
      /\ o.encrypt => "hls" \in o.wants /\ "mp3" \notin o.wants /\ "flac" \notin o.wants
  BY DEF Order
<1>1. /\ next \in {"probe", "waveform", "encrypt", "package", "publish", "prepare", "mp3", "flac", "finish"}
      /\ Applies(o, next)
  BY <1>0, <1>o, StepTable DEF Applies
<1>2. StageOf(pc) \in Stages
  BY <1>0 DEF StageOf, Stages
<1>3. o.wants \cap PartsBefore(next) = (o.wants \cap PartsBefore(pc)) \cup Adds(pc)
  BY <1>0, <1>o, StepTable DEF Applies, PartsBefore, Adds, Parts
<1>4. ASSUME NEW s \in Stages
      PROVE  StageAt(o, next)[s] = IF s = StageOf(pc) /\ StageOf(next) # StageOf(pc)
                                     THEN "ready" ELSE StageAt(o, pc)[s]
  BY <1>0, <1>o, StepTable DEF Applies, StageAt, Stages, StageOf, Rank, Enabled
<1>5. StageAt(o, next) = [StageAt(o, pc) EXCEPT ![StageOf(pc)] =
         IF StageOf(next) # StageOf(pc) THEN "ready" ELSE StageAt(o, pc)[StageOf(pc)]]
  <2> HIDE DEF next
  <2>1. StageAt(o, next) = [s \in Stages |-> StageAt(o, next)[s]]
        /\ StageAt(o, pc) = [s \in Stages |-> StageAt(o, pc)[s]]
    BY DEF StageAt
  <2> QED BY <1>2, <1>4, <2>1
<1>6. \E i \in DOMAIN Steps : next = Steps[i]
  BY <1>1, StepNames
<1> QED BY <1>1, <1>2, <1>3, <1>5, <1>6

-----------------------------------------------------------------------------
(***************************************************************************)
(* One handler: its record after each action.                              *)
(***************************************************************************)

\* What a handler on its way has ready it has put.
LEMMA ProgressListed ==
  ASSUME NEW j \in Worker, AtStep(j), Progress(j)
  PROVE  Listed(j)
<1>1. j.pc \in {"source", "probe", "waveform", "encrypt", "package", "publish",
                "prepare", "mp3", "flac", "finish"}
  BY StepNames DEF AtStep
<1>2. j.stage = StageAt(j.order, j.pc) /\ j.artifacts = j.order.wants \cap PartsBefore(j.pc)
  BY DEF Progress
<1>3. j.order.wants \subseteq Parts
  BY DEF Worker, Order
<1>4. ASSUME NEW p \in j.order.wants, j.stage[StageFor(p)] = "ready" PROVE p \in PartsBefore(j.pc)
  <2>1. p \in {"waveform", "hls", "mp3", "flac"} /\ StageFor(p) \in Stages
    BY <1>3 DEF Parts, StageFor, Stages
  <2>2. Rank[StageFor(p)] < Rank[StageOf(j.pc)]
    BY <1>2, <1>4, <2>1 DEF StageAt
  <2> QED BY <1>1, <2>1, <2>2 DEF StageFor, StageOf, Rank, Stages, Parts, PartsBefore
<1> QED BY <1>2, <1>4 DEF Listed

\* The records that a handler starts from.
LEMMA FreshFacts ==
  ASSUME NEW j \in Jobs \cup {NoJob}, NEW o \in Order
  PROVE  /\ Fresh(j, o) \in Worker
         /\ Fresh(j, o).artifacts = {} /\ Fresh(j, o).stage = StageAt(o, "source")
         /\ Fresh(j, o).pc = "source" /\ Fresh(j, o).order = o /\ Fresh(j, o).job = j
         /\ Fresh(j, o).next = 1
<1>1. [s \in Stages |-> IF s \in Enabled(o) THEN "pending" ELSE "skipped"] = StageAt(o, "source")
  BY DEF StageAt, Rank, StageOf, Stages
<1>2. StageAt(o, "source") \in [Stages -> Statuses]
  BY <1>1 DEF Statuses
<1>3. \E i \in DOMAIN Steps : "source" = Steps[i]
  BY StepNames
<1> QED BY <1>1, <1>2, <1>3, NFilesAssumption DEF Fresh, Worker

\* A step that succeeds: the handler is at the next one, with what it has done.
LEMMA ProceedFacts ==
  ASSUME TrackInv, NEW w \in Workers, AtStep(worker[w]), worker[w].pc # "finish",
         Proceed(w, Adds(worker[w].pc))
  PROVE  LET j == worker[w] IN
         /\ worker' \in [Workers -> Worker]
         /\ \A v \in Workers \ {w} : worker'[v] = worker[v]
         /\ worker'[w].pc = StepAfter(j.order, j.pc)
         /\ worker'[w].artifacts = j.artifacts \cup Adds(j.pc)
         /\ worker'[w].order = j.order /\ worker'[w].key = j.key /\ worker'[w].next = j.next
         /\ AtStep(worker'[w]) /\ Progress(worker'[w])
         /\ worker'[w].pc = "publish" => worker'[w].next = 1
         /\ disturbed \subseteq disturbed' /\ disturbed' \subseteq Workers
<1> DEFINE j == worker[w]
           next == StepAfter(j.order, j.pc)
           done == StageOf(next) # StageOf(j.pc)
           stage == [j.stage EXCEPT ![StageOf(j.pc)] =
                       IF done THEN "ready" ELSE j.stage[StageOf(j.pc)]]
           new == [j EXCEPT !.pc = next, !.artifacts = j.artifacts \cup Adds(j.pc),
                            !.stage = stage]
<1>0. worker \in [Workers -> Worker] /\ j \in Worker /\ disturbed \subseteq Workers
  BY DEF TrackInv, MediaTypeOK
<1>1. worker' = [worker EXCEPT ![w] = new]
  BY DEF Proceed
<1>2. Progress(j) /\ j.order \in Order
  BY <1>0 DEF TrackInv, Worker
<1>3. /\ \E i \in DOMAIN Steps : next = Steps[i]
      /\ Applies(j.order, next)
      /\ StageOf(j.pc) \in Stages
      /\ stage = StageAt(j.order, next)
      /\ j.artifacts \cup Adds(j.pc) = j.order.wants \cap PartsBefore(next)
  BY <1>2, Advance DEF Progress, AtStep
<1>4. /\ new.pc = next /\ new.artifacts = j.artifacts \cup Adds(j.pc) /\ new.stage = stage
      /\ new.order = j.order /\ new.key = j.key /\ new.next = j.next /\ new.job = j.job
      /\ new.failure = j.failure
  BY <1>0 DEF Worker
<1>5. stage \in [Stages -> Statuses]
  BY <1>0 DEF Worker, Statuses
<1>6. j.artifacts \cup Adds(j.pc) \subseteq Parts
  BY <1>0, StepNames DEF Worker, Adds, Parts
<1>7. new \in Worker
  <2>1. next \in {Steps[i] : i \in DOMAIN Steps}
    BY <1>3
  <2> HIDE DEF next, stage, done
  <2> QED BY <1>0, <1>5, <1>6, <2>1 DEF Worker
<1>8. /\ next \in {"source", "probe", "waveform"} \cup InPackaging =>
            j.next = 1 \/ j.pc = "publish" 
      /\ j.pc = "publish" => next = "prepare"
      /\ next = "publish" => j.pc = "package"
  <2>1. j.pc \in {"source", "probe", "waveform", "encrypt", "package", "publish", "prepare",
                  "mp3", "flac"}
    BY StepNames DEF AtStep
  <2>2. j.pc \in {"prepare", "mp3", "flac"} => next \in {"mp3", "flac", "finish"}
    BY StepTable
  <2>3. j.pc \in {"source", "probe", "waveform", "encrypt", "package"} => j.next = 1
    BY <1>2 DEF Progress, InPackaging
  <2>4. j.pc = "publish" => next = "prepare"
    BY StepTable
  <2>5. next = "publish" => j.pc = "package"
    <3>1. j.pc \in {"encrypt", "package"} => "hls" \in j.order.wants
      BY <1>2 DEF Progress, Applies, Order
    <3>2. j.pc = "source" => next = "probe"
      BY StepTable
    <3>3. j.pc \in {"probe", "waveform"} => next \in {"waveform", "encrypt", "package", "prepare"}
      BY StepTable
    <3>4. j.pc = "encrypt" => next = "package"
      BY <3>1, StepTable
    <3> HIDE DEF next, j
    <3> QED BY <2>1, <2>2, <2>4, <3>2, <3>3, <3>4
  <2> HIDE DEF next, j
  <2> QED BY <2>1, <2>2, <2>3, <2>4, <2>5 DEF InPackaging
<1>9. AtStep(new) /\ Progress(new) /\ (new.pc = "publish" => new.next = 1)
  <2>1. "publish" \in InPackaging /\ "prepare" \notin InPackaging \cup {"source", "probe", "waveform"}
    BY DEF InPackaging
  <2>2. j.pc = "package" => j.next = 1
    BY <1>2 DEF Progress, AtStep, InPackaging
  <2>3. j.job \in Jobs
    BY <1>2 DEF Progress
  <2> HIDE DEF new, j, next, stage
  <2> QED BY <1>3, <1>4, <1>8, <2>1, <2>2, <2>3 DEF AtStep, Progress
<1>10. disturbed \subseteq disturbed' /\ disturbed' \subseteq Workers
  BY <1>0 DEF Proceed
<1> HIDE DEF new, stage
<1> QED BY <1>0, <1>1, <1>4, <1>7, <1>9, <1>10

\* The same for a failure ...
LEMMA FailedFacts ==
  ASSUME NEW j \in Worker, AtStep(j), j.pc # "finish", Progress(j)
  PROVE  /\ Failed(j) \in Worker
         /\ Failed(j).pc = "failed" /\ Failed(j).order = j.order
         /\ Failed(j).artifacts = j.artifacts
         /\ Ended(Failed(j)) /\ Listed(Failed(j))
<1> DEFINE stage == [s \in Stages |-> IF s = StageOf(j.pc) THEN "failed"
                                      ELSE IF j.stage[s] = "pending" THEN "skipped"
                                      ELSE j.stage[s]]
<1>1. /\ Failed(j).pc = "failed" /\ Failed(j).failure = StageOf(j.pc)
      /\ Failed(j).stage = stage /\ Failed(j).order = j.order
      /\ Failed(j).artifacts = j.artifacts
  BY DEF Failed, Worker
<1>2. StageOf(j.pc) \in Stages
  BY StepNames DEF AtStep, StageOf, Stages
<1>3. j.stage = StageAt(j.order, j.pc)
  BY DEF Progress
<1>4. stage \in [Stages -> Statuses]
  BY DEF Worker, Statuses
<1>5. Failed(j) \in Worker
  BY <1>2, <1>4 DEF Failed, Worker
<1>6. Ended(Failed(j))
  <2>1. stage[StageOf(j.pc)] = "failed"
    BY <1>2
  <2>2. ASSUME NEW s \in Enabled(j.order) \ {StageOf(j.pc)}
        PROVE  stage[s] = IF Rank[s] < Rank[StageOf(j.pc)] THEN "ready" ELSE "skipped"
    <3>1. s \in Stages
      BY DEF Enabled, Stages, Worker, Order, Parts
    <3> QED BY <1>3, <3>1 DEF StageAt
  <2> HIDE DEF stage
  <2> QED BY <1>1, <2>1, <2>2 DEF Ended
<1>7. Listed(Failed(j))
  <2>1. ASSUME NEW p \in j.order.wants, stage[StageFor(p)] = "ready"
        PROVE  j.stage[StageFor(p)] = "ready"
    <3>1. StageFor(p) \in Stages
      BY DEF StageFor, Stages
    <3> QED BY <2>1, <3>1
  <2> HIDE DEF stage
  <2> QED BY <1>1, <2>1, ProgressListed DEF Listed
<1> QED BY <1>1, <1>5, <1>6, <1>7

\* ... and for a completion.
LEMMA CompletedFacts ==
  ASSUME NEW j \in Worker, j.pc = "finish", Progress(j), NEW new,
         new = [j EXCEPT !.pc = "completed",
                         !.stage["downloads"] = IF "downloads" \in Enabled(j.order)
                                                  THEN "ready" ELSE j.stage["downloads"]]
  PROVE  new \in Worker /\ new.pc = "completed" /\ new.artifacts = j.artifacts
         /\ new.order = j.order /\ Ended(new) /\ Listed(new)
<1> DEFINE stage == [j.stage EXCEPT !["downloads"] = IF "downloads" \in Enabled(j.order)
                                                       THEN "ready" ELSE j.stage["downloads"]]
<1>1. new = [j EXCEPT !.pc = "completed", !.stage = stage]
  OBVIOUS
<1>2. stage \in [Stages -> Statuses]
  BY DEF Worker, Statuses
<1>3. /\ new.pc = "completed" /\ new.stage = stage /\ new.artifacts = j.artifacts
      /\ new.order = j.order
  BY <1>1 DEF Worker
<1>4. new \in Worker
  <2> HIDE DEF stage
  <2> QED BY <1>1, <1>2 DEF Worker
<1>5. AtStep(j)
  BY StepNames DEF AtStep
<1>6. j.stage = StageAt(j.order, "finish") /\ j.artifacts = j.order.wants \cap PartsBefore("finish")
  BY <1>5 DEF Progress
<1>7. j.artifacts = j.order.wants
  BY <1>6 DEF PartsBefore, Worker, Order
<1>8. ASSUME NEW s \in Enabled(j.order) PROVE stage[s] = "ready"
  <2>1. s \in Stages
    BY DEF Enabled, Stages, Worker, Order, Parts
  <2>2. s # "downloads" => Rank[s] < Rank["downloads"]
    BY <2>1 DEF Rank, Stages
  <2> QED BY <1>6, <2>1, <2>2 DEF StageAt, StageOf, Stages
<1> HIDE DEF stage
<1> QED BY <1>3, <1>4, <1>7, <1>8 DEF Ended, Listed

-----------------------------------------------------------------------------
(***************************************************************************)
(* The bucket.                                                             *)
(***************************************************************************)

\* No action takes an object away, and the types are kept.
LEMMA BucketGrows ==
  ASSUME TrackInv, NEW w \in Workers, Handle(w)
  PROVE  /\ objects \subseteq objects' /\ objects' \subseteq Parts \ {"hls"}
         /\ files' \in [Files -> Keys \cup {Clear, Absent}]
         /\ \A f \in Files : files[f] # Absent => files'[f] # Absent
         /\ stored' \in Keys \cup {Absent} /\ used' \subseteq Keys
<1>0. /\ objects \subseteq Parts \ {"hls"} /\ files \in [Files -> Keys \cup {Clear, Absent}]
      /\ stored \in Keys \cup {Absent} /\ used \subseteq Keys
      /\ worker[w].key \in Keys \cup {Clear} /\ worker[w].key # Absent
  BY KeysAssumption DEF TrackInv, MediaTypeOK, Worker
<1>1. ASSUME UNCHANGED <<objects, files, stored, used>>
      PROVE  /\ objects \subseteq objects' /\ objects' \subseteq Parts \ {"hls"}
             /\ files' \in [Files -> Keys \cup {Clear, Absent}]
             /\ \A f \in Files : files[f] # Absent => files'[f] # Absent
             /\ stored' \in Keys \cup {Absent} /\ used' \subseteq Keys
  BY <1>0, <1>1
<1>2. ASSUME worker[w].pc \in {"waveform", "mp3", "flac"},
             objects' = objects \cup {worker[w].pc}, UNCHANGED <<files, stored, used>>
      PROVE  /\ objects \subseteq objects' /\ objects' \subseteq Parts \ {"hls"}
             /\ files' \in [Files -> Keys \cup {Clear, Absent}]
             /\ \A f \in Files : files[f] # Absent => files'[f] # Absent
             /\ stored' \in Keys \cup {Absent} /\ used' \subseteq Keys
  BY <1>0, <1>2 DEF Parts
<1>3. ASSUME NEW k \in Keys, stored' = k, used' = used \cup {k}, UNCHANGED <<objects, files>>
      PROVE  /\ objects \subseteq objects' /\ objects' \subseteq Parts \ {"hls"}
             /\ files' \in [Files -> Keys \cup {Clear, Absent}]
             /\ \A f \in Files : files[f] # Absent => files'[f] # Absent
             /\ stored' \in Keys \cup {Absent} /\ used' \subseteq Keys
  BY <1>0, <1>3
<1>4. ASSUME files' = [files EXCEPT ![worker[w].next] = worker[w].key],
             UNCHANGED <<objects, stored, used>>
      PROVE  /\ objects \subseteq objects' /\ objects' \subseteq Parts \ {"hls"}
             /\ files' \in [Files -> Keys \cup {Clear, Absent}]
             /\ \A f \in Files : files[f] # Absent => files'[f] # Absent
             /\ stored' \in Keys \cup {Absent} /\ used' \subseteq Keys
  BY <1>0, <1>4
<1>5. CASE Work(w) \/ CompleteAudio(w) \/ Die(w)
  BY <1>1, <1>5 DEF Work, CompleteAudio, Die, mediaVars
<1>6. CASE Upload(w)
  BY <1>2, <1>6 DEF Upload
<1>7. CASE \E k \in Keys : Encrypt(w, k)
  BY <1>3, <1>7 DEF Encrypt
<1>8. CASE Publish(w)
  BY <1>1, <1>4, <1>8 DEF Publish
<1>9. CASE FailAudio(w)
  BY <1>1, <1>2, <1>3, <1>4, <1>9 DEF FailAudio, HalfDone
<1> QED BY <1>5, <1>6, <1>7, <1>8, <1>9 DEF Handle

\* What one handler does to the others: they keep their records, and what they
\* report is still there.
LEMMA OthersTrack ==
  ASSUME TrackInv, NEW w \in Workers, Handle(w), NEW v \in Workers, worker'[v] = worker[v]
  PROVE  /\ Progress(worker'[v]) /\ Ended(worker'[v]) /\ Listed(worker'[v])
         /\ InBucket(worker[v])'
<1>1. /\ Progress(worker[v]) /\ Ended(worker[v]) /\ Listed(worker[v]) /\ InBucket(worker[v])
  BY DEF TrackInv
<1>2. InBucket(worker[v])'
  BY <1>1, BucketGrows DEF InBucket
<1> QED BY <1>1, <1>2

\* Every action of a handler keeps all this of its own record.
LEMMA HandleTracks ==
  ASSUME TrackInv, NEW w \in Workers, Handle(w)
  PROVE  /\ worker' \in [Workers -> Worker] /\ disturbed' \subseteq Workers
         /\ \A v \in Workers \ {w} : worker'[v] = worker[v]
         /\ Progress(worker'[w]) /\ Ended(worker'[w]) /\ Listed(worker'[w])
         /\ InBucket(worker[w])'
<1> DEFINE j == worker[w]
           Kept == /\ worker' \in [Workers -> Worker] /\ disturbed' \subseteq Workers
                   /\ \A v \in Workers \ {w} : worker'[v] = worker[v]
                   /\ Progress(worker'[w]) /\ Ended(worker'[w]) /\ Listed(worker'[w])
                   /\ InBucket(worker[w])'
<1>0. /\ worker \in [Workers -> Worker] /\ j \in Worker /\ disturbed \subseteq Workers
      /\ Progress(j) /\ Ended(j) /\ Listed(j) /\ InBucket(j)
      /\ j.key # Absent /\ j.next \in 1 .. NFiles + 1 /\ NFiles \in Nat
  BY KeysAssumption, NFilesAssumption DEF TrackInv, MediaTypeOK, Worker
<1>b. /\ objects \subseteq objects' /\ objects' \subseteq Parts \ {"hls"}
      /\ \A f \in Files : files[f] # Absent => files'[f] # Absent
  BY BucketGrows
\* A step of the order done, with what it adds in the bucket.
<1>p. ASSUME AtStep(j), j.pc # "finish", Proceed(w, Adds(j.pc)),
             Adds(j.pc) \ {"hls"} \subseteq objects',
             "hls" \in Adds(j.pc) => \A f \in Files : files'[f] # Absent
      PROVE  Kept
  <2>1. /\ worker' \in [Workers -> Worker] /\ disturbed' \subseteq Workers
        /\ \A v \in Workers \ {w} : worker'[v] = worker[v]
        /\ worker'[w].artifacts = j.artifacts \cup Adds(j.pc)
        /\ AtStep(worker'[w]) /\ Progress(worker'[w])
        /\ worker'[w].pc = "publish" => worker'[w].next = 1
    BY <1>p, ProceedFacts
  <2>2. Listed(worker'[w])
    BY <2>1, ProgressListed
  <2>3. Ended(worker'[w])
    <3>1. worker'[w].pc \notin {"completed", "failed"}
      BY <2>1, StepNames DEF AtStep
    <3> QED BY <3>1 DEF Ended
  <2>4. InBucket(worker[w])'
    <3>1. \A f \in Files : ~(f < 1)
      BY <1>0 DEF Files
    <3>2. worker'[w].artifacts \ {"hls"} \subseteq objects'
      BY <2>1, <1>0, <1>b, <1>p DEF InBucket
    <3>3. "hls" \in worker'[w].artifacts => \A f \in Files : files'[f] # Absent
      BY <2>1, <1>0, <1>b, <1>p DEF InBucket
    <3> QED BY <2>1, <3>1, <3>2, <3>3 DEF InBucket
  <2> QED BY <2>1, <2>2, <2>3, <2>4
<1>1. CASE Work(w)
  <2>1. Adds(j.pc) = {} /\ j.pc # "finish" /\ AtStep(j)
    BY <1>1, StepNames DEF Work, Adds, AtStep
  <2> QED BY <1>1, <1>p, <2>1 DEF Work
<1>2. CASE Upload(w)
  <2>1. Adds(j.pc) = {j.pc} /\ j.pc \in {"waveform", "mp3", "flac"} /\ AtStep(j)
    BY <1>2, StepNames DEF Upload, Adds, AtStep
  <2> QED BY <1>2, <1>p, <2>1 DEF Upload
<1>3. CASE \E k \in Keys : Encrypt(w, k)
  <2>1. PICK k \in Keys : Encrypt(w, k)
    BY <1>3
  <2> DEFINE new == [j EXCEPT !.pc = "package", !.key = k]
  <2>2. worker' = [worker EXCEPT ![w] = new]
    BY <2>1, <1>0 DEF Encrypt
  <2>3. /\ new.pc = "package" /\ new.order = j.order /\ new.stage = j.stage /\ new.job = j.job
        /\ new.artifacts = j.artifacts /\ new.next = j.next /\ new.failure = j.failure
    BY <1>0 DEF Worker
  <2>4. new \in Worker
    <3>1. \E i \in DOMAIN Steps : "package" = Steps[i]
      BY StepNames
    <3> QED BY <1>0, <3>1 DEF Worker
  <2>5. j.pc = "encrypt" /\ AtStep(j) /\ AtStep(new) /\ disturbed' = disturbed
    BY <2>1, <2>3, StepNames DEF Encrypt, AtStep
  <2>6. /\ Applies(j.order, "package")
        /\ StageAt(j.order, "package") = StageAt(j.order, "encrypt")
        /\ PartsBefore("package") = PartsBefore("encrypt")
    <3>1. j.order.encrypt => "hls" \in j.order.wants
      BY <1>0 DEF Worker, Order
    <3> QED BY <1>0, <2>5, <3>1 DEF Progress, Applies, StageAt, StageOf, PartsBefore
  <2>7. Progress(new)
    <3>1. j.next = 1
      BY <1>0, <2>5 DEF Progress, InPackaging
    <3> HIDE DEF new
    <3> QED BY <1>0, <2>3, <2>5, <2>6, <3>1 DEF Progress
  <2> HIDE DEF new
  <2>8. InBucket(worker[w])'
    BY <1>0, <1>b, <2>2, <2>3 DEF InBucket
  <2>9. Ended(new) /\ Listed(new)
    BY <2>3, <2>4, <2>5, <2>7, ProgressListed DEF Ended
  <2> QED BY <1>0, <2>2, <2>4, <2>5, <2>7, <2>8, <2>9
<1>4. CASE Publish(w)
  <2>1. j.pc = "publish" /\ AtStep(j) /\ Adds(j.pc) = {"hls"}
    BY <1>4, StepNames DEF Publish, AtStep, Adds
  <2>2. CASE j.next <= NFiles
    <3> DEFINE new == [j EXCEPT !.next = j.next + 1]
    <3>1. worker' = [worker EXCEPT ![w] = new] /\ disturbed' = disturbed
          /\ files' = [files EXCEPT ![j.next] = j.key]
      BY <1>4, <2>2 DEF Publish
    <3>2. new \in Worker
      BY <1>0, <2>2 DEF Worker
    <3>3. /\ new.pc = j.pc /\ new.order = j.order /\ new.stage = j.stage /\ new.job = j.job
          /\ new.artifacts = j.artifacts /\ new.next = j.next + 1 /\ new.failure = j.failure
      BY <1>0 DEF Worker
    <3> HIDE DEF new
    <3>4. Progress(new) /\ Ended(new) /\ Listed(new)
      BY <1>0, <2>1, <3>3 DEF Progress, Ended, Listed, AtStep
    <3>5. \A f \in Files : f < j.next + 1 => files'[f] # Absent
      <4>1. \A f \in Files : f < j.next => files'[f] # Absent
        BY <1>0, <1>b, <2>1 DEF InBucket
      <4>2. j.next \in Files /\ files'[j.next] = j.key
        BY <1>0, <2>2, <3>1 DEF Files, TrackInv, MediaTypeOK
      <4> QED BY <1>0, <4>1, <4>2 DEF Files
    <3>6. InBucket(worker[w])'
      BY <1>0, <1>b, <3>1, <3>3, <3>5 DEF InBucket
    <3> QED BY <1>0, <3>1, <3>2, <3>4, <3>6
  <2>3. CASE ~(j.next <= NFiles)
    <3>1. Proceed(w, Adds(j.pc)) /\ UNCHANGED files
      BY <1>4, <2>1, <2>3 DEF Publish
    <3>2. \A f \in Files : files'[f] # Absent
      BY <1>0, <2>1, <2>3, <3>1 DEF InBucket, Files
    <3> QED BY <1>p, <2>1, <3>1, <3>2
  <2> QED BY <2>2, <2>3
<1>5. CASE FailAudio(w)
  <2>1. AtStep(j) /\ j.pc # "finish" /\ worker' = [worker EXCEPT ![w] = Failed(j)]
        /\ disturbed' = disturbed
    BY <1>5 DEF FailAudio, AtWork, AtStep
  <2>2. /\ Failed(j) \in Worker /\ Failed(j).pc = "failed"
        /\ Failed(j).artifacts = j.artifacts
        /\ Ended(Failed(j)) /\ Listed(Failed(j))
    BY <1>0, <2>1, FailedFacts
  <2>3. Progress(Failed(j))
    BY <2>2, StepNames DEF Progress, AtStep
  <2>4. InBucket(worker[w])'
    BY <1>0, <1>b, <2>1, <2>2 DEF InBucket
  <2> QED BY <1>0, <2>1, <2>2, <2>3, <2>4
<1>6. CASE CompleteAudio(w)
  <2> DEFINE new == [j EXCEPT !.pc = "completed",
                !.stage["downloads"] = IF "downloads" \in Enabled(j.order)
                                         THEN "ready" ELSE j.stage["downloads"]]
  <2>1. j.pc = "finish" /\ worker' = [worker EXCEPT ![w] = new] /\ disturbed' = disturbed
    BY <1>6 DEF CompleteAudio, mediaVars
  <2>2. /\ new \in Worker /\ new.pc = "completed" /\ new.artifacts = j.artifacts
        /\ Ended(new) /\ Listed(new)
    BY <1>0, <2>1, CompletedFacts
  <2> HIDE DEF new
  <2>3. Progress(new)
    BY <2>2, StepNames DEF Progress, AtStep
  <2>4. InBucket(worker[w])'
    BY <1>0, <1>b, <2>1, <2>2 DEF InBucket
  <2> QED BY <1>0, <2>1, <2>2, <2>3, <2>4
<1>7. CASE Die(w)
  <2> DEFINE new == [j EXCEPT !.pc = "dead"]
  <2>1. worker' = [worker EXCEPT ![w] = new] /\ disturbed' = disturbed
    BY <1>7 DEF Die, mediaVars
  <2>2. /\ new \in Worker /\ new.pc = "dead" /\ new.artifacts = j.artifacts
        /\ new.order = j.order /\ new.stage = j.stage
    BY <1>0 DEF Worker
  <2> HIDE DEF new
  <2>3. Progress(new) /\ Ended(new) /\ Listed(new)
    BY <1>0, <2>2, StepNames DEF Progress, AtStep, Ended, Listed
  <2>4. InBucket(worker[w])'
    BY <1>0, <1>b, <2>1, <2>2 DEF InBucket
  <2> QED BY <1>0, <2>1, <2>2, <2>3, <2>4
<1> QED BY <1>1, <1>2, <1>3, <1>4, <1>5, <1>6, <1>7 DEF Handle

LEMMA TrackInit == Init => TrackInv
<1> SUFFICES ASSUME Init PROVE TrackInv
  OBVIOUS
<1> DEFINE o == [wants |-> {"hls"}, encrypt |-> FALSE]
           new == [Fresh(NoJob, o) EXCEPT !.pc = "idle"]
<1>1. o \in Order
  <2>1. {"hls"} \in (SUBSET Parts) \ {{}} /\ "hls" \in {"hls"}
    BY DEF Parts
  <2> QED BY <2>1 DEF Order
<1>2. worker = [w \in Workers |-> new]
  BY DEF Init
<1>3. /\ Fresh(NoJob, o) \in Worker /\ Fresh(NoJob, o).artifacts = {}
      /\ Fresh(NoJob, o).stage = StageAt(o, "source")
  BY <1>1, FreshFacts
<1>4. /\ new \in Worker /\ new.pc = "idle" /\ new.artifacts = {}
      /\ new.stage = StageAt(o, "source")
  <2> HIDE DEF o
  <2> QED BY <1>3 DEF Worker
<1>5. \A s \in Stages : new.stage[s] # "ready"
  BY <1>4 DEF StageAt, Rank, StageOf, Stages
<1> HIDE DEF new
<1>6. Progress(new) /\ Ended(new)
  BY <1>4, StepNames DEF Progress, AtStep, Ended
<1>7. Listed(new)
  <2>1. \A p \in Parts : StageFor(p) \in Stages
    BY DEF StageFor, Stages
  <2>2. new.order.wants \subseteq Parts
    BY <1>4 DEF Worker, Order
  <2> QED BY <1>5, <2>1, <2>2 DEF Listed
<1>8. InBucket(new)
  BY <1>4 DEF InBucket
<1>9. MediaTypeOK
  BY <1>2, <1>4 DEF Init, MediaTypeOK
<1> QED BY <1>2, <1>6, <1>7, <1>8, <1>9 DEF TrackInv

LEMMA TrackStep == TrackInv /\ [Next]_vars => TrackInv'
<1> SUFFICES ASSUME TrackInv, [Next]_vars PROVE TrackInv'
  OBVIOUS
<1>1. ASSUME NEW w \in Workers, Handle(w) PROVE TrackInv'
  <2>1. MediaTypeOK'
    BY <1>1, BucketGrows, HandleTracks DEF MediaTypeOK
  <2>2. ASSUME NEW v \in Workers
        PROVE  /\ Progress(worker'[v]) /\ Ended(worker'[v]) /\ Listed(worker'[v])
               /\ InBucket(worker[v])'
    <3>1. CASE v = w
      BY <1>1, <3>1, HandleTracks
    <3>2. CASE v # w
      <4>1. worker'[v] = worker[v]
        BY <1>1, <3>2, HandleTracks
      <4> QED BY <1>1, <4>1, OthersTrack
    <3> QED BY <3>1, <3>2
  <2> QED BY <2>1, <2>2 DEF TrackInv
<1>2. ASSUME NEW w \in Workers, NEW j \in Jobs, NEW o \in Orders, Begin(w, j, o) PROVE TrackInv'
  <2>1. o \in Order
    BY OrdersAssumption
  <2>2. /\ Fresh(j, o) \in Worker /\ Fresh(j, o).artifacts = {}
        /\ Fresh(j, o).stage = StageAt(o, "source") /\ Fresh(j, o).pc = "source"
        /\ Fresh(j, o).order = o /\ Fresh(j, o).job = j /\ Fresh(j, o).next = 1
    BY <2>1, FreshFacts
  <2>3. worker' = [worker EXCEPT ![w] = Fresh(j, o)]
        /\ UNCHANGED <<objects, files, stored, used, disturbed>>
    BY <1>2 DEF Begin, mediaVars
  <2>4. Progress(Fresh(j, o))
    BY <2>2 DEF Progress, Applies, PartsBefore
  <2>5. AtStep(Fresh(j, o))
    BY <2>2, StepNames DEF AtStep
  <2>6. Ended(Fresh(j, o)) /\ Listed(Fresh(j, o)) /\ InBucket(Fresh(j, o))
    BY <2>2, <2>4, <2>5, ProgressListed DEF Ended, InBucket
  <2>7. MediaTypeOK'
    BY <2>2, <2>3 DEF TrackInv, MediaTypeOK
  <2>8. ASSUME NEW v \in Workers
        PROVE  /\ Progress(worker'[v]) /\ Ended(worker'[v]) /\ Listed(worker'[v])
               /\ InBucket(worker[v])'
    <3>1. worker'[v] = IF v = w THEN Fresh(j, o) ELSE worker[v]
      BY <2>3 DEF TrackInv, MediaTypeOK
    <3>2. Progress(worker[v]) /\ Ended(worker[v]) /\ Listed(worker[v]) /\ InBucket(worker[v])
      BY DEF TrackInv
    <3> QED BY <2>3, <2>4, <2>6, <3>1, <3>2 DEF InBucket
  <2> QED BY <2>7, <2>8 DEF TrackInv
<1>3. CASE UNCHANGED <<worker, mediaVars>>
  BY <1>3 DEF TrackInv, MediaTypeOK, mediaVars, Progress, Ended, Listed, InBucket, AtStep
<1> QED BY <1>1, <1>2, <1>3 DEF Next, vars, CallBack

-----------------------------------------------------------------------------
(***************************************************************************)
(* Streams. Of two packagings at one time both are disturbed, and one that *)
(* follows disturbs all that came before, so what an undisturbed handler   *)
(* has put nobody has written over.                                        *)
(***************************************************************************)

Packaging(w) == worker[w].pc \in InPackaging
HasStream(w) == "hls" \in worker[w].artifacts

Apart ==
  \A w \in Workers : Packaging(w) =>
    \A v \in Workers \ {w} : Packaging(v) \/ HasStream(v) => v \in disturbed

\* Its files have its key, as far as they are there, and the key is stored.
Opened(w) ==
  LET j == worker[w] IN
  /\ j.pc \in {"package", "publish"} /\ j.order.encrypt => stored = j.key
  /\ j.pc = "publish" => \A f \in Files : f < j.next => files[f] = j.key
  /\ HasStream(w) => /\ \A f \in Files : files[f] = j.key
                     /\ j.order.encrypt => stored = j.key

PlayInv == TrackInv /\ Apart /\ \A w \in Workers \ disturbed : Opened(w)

\* Who is packaging after a step was packaging before it, or has just begun and
\* then knows of all it disturbs; a stream that is new is the packager's own.
Entered(w) ==
  /\ disturbed \subseteq disturbed'
  /\ HasStream(w)' => HasStream(w) \/ Packaging(w)
  /\ Packaging(w)' /\ ~Packaging(w) =>
       \A v \in Workers \ {w} :
         /\ Packaging(v) => v \in disturbed' /\ w \in disturbed'
         /\ HasStream(v) => v \in disturbed'

LEMMA ApartKept ==
  ASSUME Apart, NEW w \in Workers, Entered(w), \A v \in Workers \ {w} : worker'[v] = worker[v]
  PROVE  Apart'
<1>1. ASSUME NEW v \in Workers \ {w}
      PROVE  (Packaging(v)' <=> Packaging(v)) /\ (HasStream(v)' <=> HasStream(v))
  BY DEF Packaging, HasStream
<1>2. ASSUME NEW u \in Workers, Packaging(u)', NEW v \in Workers \ {u}, Packaging(v)' \/ HasStream(v)'
      PROVE  v \in disturbed'
  <2>1. CASE u # w /\ v # w
    BY <1>1, <1>2, <2>1 DEF Apart, Entered
  <2>2. CASE u = w
    <3>1. Packaging(v) \/ HasStream(v)
      BY <1>1, <1>2, <2>2
    <3> QED BY <1>2, <2>2, <3>1 DEF Apart, Entered
  <2>3. CASE v = w
    <3>1. Packaging(u)
      BY <1>1, <1>2, <2>3
    <3>2. Packaging(v) \/ HasStream(v) => v \in disturbed
      BY <1>2, <3>1 DEF Apart
    <3>3. Packaging(v)' /\ ~Packaging(v) => v \in disturbed'
      BY <1>2, <2>3, <3>1 DEF Entered
    <3> QED BY <1>2, <2>3, <3>2, <3>3 DEF Entered
  <2> QED BY <2>1, <2>2, <2>3
<1> QED BY <1>2 DEF Apart

\* Only a packager touches the files and the key.
LEMMA OnlyPackagersWrite ==
  ASSUME NEW w \in Workers, Handle(w), ~Packaging(w)
  PROVE  UNCHANGED <<files, stored>>
BY DEF Handle, Work, Upload, Encrypt, Publish, FailAudio, HalfDone, CompleteAudio, Die, mediaVars,
       Packaging, InPackaging

\* So it leaves the streams of the undisturbed alone.
LEMMA OthersOpened ==
  ASSUME PlayInv, NEW w \in Workers, Handle(w), disturbed \subseteq disturbed',
         NEW v \in Workers \ {w}, v \notin disturbed', worker'[v] = worker[v]
  PROVE  Opened(v)'
<1>1. Opened(v)
  BY DEF PlayInv
<1>2. CASE ~Packaging(w)
  <2>1. files' = files /\ stored' = stored
    BY <1>2, OnlyPackagersWrite
  <2> QED BY <1>1, <2>1 DEF Opened, HasStream
<1>3. CASE Packaging(w)
  <2>1. ~Packaging(v) /\ ~HasStream(v)
    BY <1>3 DEF PlayInv, Apart
  <2> QED BY <2>1 DEF Opened, Packaging, HasStream, InPackaging
<1> QED BY <1>2, <1>3

LEMMA HandleEnters ==
  ASSUME TrackInv, NEW w \in Workers, Handle(w)
  PROVE  Entered(w)
<1> DEFINE j == worker[w]
<1>0. /\ worker \in [Workers -> Worker] /\ worker' \in [Workers -> Worker] /\ j \in Worker
      /\ Progress(j)
  BY HandleTracks DEF TrackInv, MediaTypeOK
<1>p. ASSUME AtStep(j), j.pc # "finish", Proceed(w, Adds(j.pc)) PROVE Entered(w)
  <2> DEFINE next == StepAfter(j.order, j.pc)
             rivals == {v \in Workers \ {w} : worker[v].pc \in InPackaging}
  <2>1. /\ worker'[w].pc = next /\ worker'[w].artifacts = j.artifacts \cup Adds(j.pc)
        /\ disturbed \subseteq disturbed'
    BY <1>p, ProceedFacts
  <2>2. HasStream(w)' => HasStream(w) \/ Packaging(w)
    BY <2>1 DEF HasStream, Packaging, Adds, InPackaging
  <2>3. ASSUME Packaging(w)', ~Packaging(w)
        PROVE  disturbed' = disturbed \cup rivals
                               \cup {v \in Workers \ {w} : "hls" \in worker[v].artifacts}
                               \cup (IF rivals = {} THEN {} ELSE {w})
    BY <1>p, <2>1, <2>3 DEF Proceed, Packaging
  <2>4. ASSUME Packaging(w)', ~Packaging(w), NEW v \in Workers \ {w}
        PROVE  /\ Packaging(v) => v \in disturbed' /\ w \in disturbed'
               /\ HasStream(v) => v \in disturbed'
    BY <2>3, <2>4 DEF Packaging, HasStream
  <2> QED BY <2>1, <2>2, <2>4 DEF Entered
<1>s. ASSUME disturbed' = disturbed, worker'[w].artifacts = j.artifacts,
             Packaging(w)' => Packaging(w)
      PROVE  Entered(w)
  BY <1>s DEF Entered, HasStream
<1>1. CASE Work(w) \/ Upload(w)
  <2>1. AtStep(j) /\ j.pc # "finish" /\ Proceed(w, Adds(j.pc))
    BY <1>1, StepNames DEF Work, Upload, Adds, AtStep
  <2> QED BY <1>p, <2>1
<1>2. CASE \E k \in Keys : Encrypt(w, k)
  BY <1>0, <1>2, <1>s DEF Encrypt, Packaging, InPackaging, Worker
<1>3. CASE Publish(w)
  <2>1. AtStep(j) /\ j.pc = "publish" /\ Adds(j.pc) = {"hls"}
    BY <1>3, StepNames DEF Publish, AtStep, Adds
  <2>2. CASE j.next <= NFiles
    BY <1>0, <1>3, <1>s, <2>2 DEF Publish, Packaging, Worker
  <2>3. CASE ~(j.next <= NFiles)
    BY <1>3, <1>p, <2>1, <2>3 DEF Publish
  <2> QED BY <2>2, <2>3
<1>4. CASE FailAudio(w)
  <2>1. worker'[w] = Failed(j) /\ disturbed' = disturbed
    BY <1>0, <1>4 DEF FailAudio
  <2>2. Failed(j).artifacts = j.artifacts /\ Failed(j).pc = "failed"
    BY <1>0 DEF Failed, Worker
  <2> QED BY <1>s, <2>1, <2>2 DEF Packaging, InPackaging
<1>5. CASE CompleteAudio(w)
  <2>1. worker'[w].artifacts = j.artifacts /\ worker'[w].pc = "completed" /\ disturbed' = disturbed
    BY <1>0, <1>5 DEF CompleteAudio, mediaVars, Worker
  <2> QED BY <1>s, <2>1 DEF Packaging, InPackaging
<1>6. CASE Die(w)
  <2>1. worker'[w].artifacts = j.artifacts /\ worker'[w].pc = "dead" /\ disturbed' = disturbed
    BY <1>0, <1>6 DEF Die, mediaVars, Worker
  <2> QED BY <1>s, <2>1 DEF Packaging, InPackaging
<1> QED BY <1>1, <1>2, <1>3, <1>4, <1>5, <1>6 DEF Handle

\* The packager's own stream.
LEMMA HandleOpens ==
  ASSUME PlayInv, NEW w \in Workers, Handle(w), w \notin disturbed'
  PROVE  Opened(w)'
<1> DEFINE j == worker[w]
<1>0. /\ TrackInv
      /\ worker \in [Workers -> Worker] /\ worker' \in [Workers -> Worker] /\ j \in Worker
      /\ Progress(j) /\ NFiles \in Nat /\ j.next \in Nat \ {0}
      /\ files \in [Files -> Keys \cup {Clear, Absent}]
  BY HandleTracks, NFilesAssumption DEF PlayInv, TrackInv, MediaTypeOK, Worker
<1>i. Opened(w)
  BY HandleEnters DEF PlayInv, Entered
<1>h. AtStep(j) /\ j.pc \in {"encrypt", "package", "publish"} => ~HasStream(w)
  BY <1>0 DEF Progress, PartsBefore, HasStream
<1>1. CASE Work(w) \/ Upload(w)
  <2>1. /\ AtStep(j) /\ j.pc # "finish" /\ Proceed(w, Adds(j.pc)) /\ UNCHANGED <<files, stored>>
        /\ "hls" \notin Adds(j.pc) /\ j.pc # "encrypt"
    BY <1>1, StepNames DEF Work, Upload, Adds, AtStep
  <2>2. /\ worker'[w].pc = StepAfter(j.order, j.pc)
        /\ worker'[w].artifacts = j.artifacts \cup Adds(j.pc)
        /\ worker'[w].order = j.order /\ worker'[w].key = j.key /\ worker'[w].next = j.next
        /\ worker'[w].pc = "publish" => worker'[w].next = 1
    BY <1>0, <2>1, ProceedFacts
  <2>3. HasStream(w)' <=> HasStream(w)
    BY <2>1, <2>2 DEF HasStream
  <2>4. j.order.encrypt /\ worker'[w].pc \in {"package", "publish"} => j.pc = "package"
    <3>1. j.pc \in {"source", "probe", "waveform", "package", "prepare", "mp3", "flac"}
      BY <1>1 DEF Work, Upload
    <3> QED BY <2>2, <3>1, StepTable
  <2>5. \A f \in Files : ~(f < 1)
    BY <1>0 DEF Files
  <2> QED BY <1>i, <2>1, <2>2, <2>3, <2>4, <2>5 DEF Opened
<1>2. CASE \E k \in Keys : Encrypt(w, k)
  <2>1. PICK k \in Keys : Encrypt(w, k)
    BY <1>2
  <2>2. /\ worker'[w].pc = "package" /\ worker'[w].key = k /\ stored' = k
        /\ worker'[w].artifacts = j.artifacts /\ j.pc = "encrypt"
    BY <1>0, <2>1 DEF Encrypt, Worker
  <2>3. ~HasStream(w)'
    <3>1. AtStep(j)
      BY <2>2, StepNames DEF AtStep
    <3> QED BY <1>h, <2>2, <3>1 DEF HasStream
  <2> QED BY <2>2, <2>3 DEF Opened
<1>3. CASE Publish(w)
  <2>1. AtStep(j) /\ j.pc = "publish" /\ Adds(j.pc) = {"hls"} /\ stored' = stored
    BY <1>3, StepNames DEF Publish, AtStep, Adds
  <2>2. CASE j.next <= NFiles
    <3>1. /\ worker'[w].pc = j.pc /\ worker'[w].order = j.order /\ worker'[w].key = j.key
          /\ worker'[w].artifacts = j.artifacts /\ worker'[w].next = j.next + 1
          /\ files' = [files EXCEPT ![j.next] = j.key]
      BY <1>0, <1>3, <2>2 DEF Publish, Worker
    <3>2. \A f \in Files : f < j.next + 1 => files'[f] = j.key
      BY <1>0, <1>i, <2>1, <2>2, <3>1 DEF Opened, Files
    <3>3. ~HasStream(w)'
      BY <1>h, <2>1, <3>1 DEF HasStream
    <3> QED BY <1>i, <2>1, <3>1, <3>2, <3>3 DEF Opened
  <2>3. CASE ~(j.next <= NFiles)
    <3>1. Proceed(w, Adds(j.pc)) /\ UNCHANGED files
      BY <1>3, <2>1, <2>3 DEF Publish
    <3>2. /\ worker'[w].pc = "prepare" /\ worker'[w].order = j.order /\ worker'[w].key = j.key
      BY <1>0, <2>1, <3>1, ProceedFacts, StepTable
    <3>3. \A f \in Files : files[f] = j.key
      BY <1>0, <1>i, <2>1, <2>3 DEF Opened, Files
    <3> QED BY <1>i, <2>1, <3>1, <3>2, <3>3 DEF Opened
  <2> QED BY <2>2, <2>3
<1>4. CASE FailAudio(w)
  <2>1. /\ worker'[w] = Failed(j) /\ AtStep(j) /\ HalfDone(w)
    BY <1>0, <1>4 DEF FailAudio, AtWork, AtStep
  <2>2. /\ Failed(j).artifacts = j.artifacts /\ Failed(j).pc = "failed"
        /\ Failed(j).order = j.order /\ Failed(j).key = j.key
    BY <1>0 DEF Failed, Worker
  <2>3. CASE Packaging(w)
    <3>1. ~HasStream(w)'
      BY <1>h, <2>1, <2>2, <2>3 DEF HasStream, Packaging, InPackaging
    <3> QED BY <2>1, <2>2, <3>1 DEF Opened
  <2>4. CASE ~Packaging(w)
    <3>1. UNCHANGED <<files, stored>>
      BY <2>4, OnlyPackagersWrite
    <3> QED BY <1>i, <2>1, <2>2, <3>1 DEF Opened, HasStream
  <2> QED BY <2>3, <2>4
<1>5. CASE CompleteAudio(w)
  <2>1. /\ worker'[w].artifacts = j.artifacts /\ worker'[w].pc = "completed"
        /\ worker'[w].order = j.order /\ worker'[w].key = j.key /\ UNCHANGED <<files, stored>>
    BY <1>0, <1>5 DEF CompleteAudio, mediaVars, Worker
  <2> QED BY <1>i, <2>1 DEF Opened, HasStream
<1>6. CASE Die(w)
  <2>1. /\ worker'[w].artifacts = j.artifacts /\ worker'[w].pc = "dead"
        /\ worker'[w].order = j.order /\ worker'[w].key = j.key /\ UNCHANGED <<files, stored>>
    BY <1>0, <1>6 DEF Die, mediaVars, Worker
  <2> QED BY <1>i, <2>1 DEF Opened, HasStream
<1> QED BY <1>1, <1>2, <1>3, <1>4, <1>5, <1>6 DEF Handle

LEMMA PlayInit == Init => PlayInv
<1> SUFFICES ASSUME Init PROVE PlayInv
  OBVIOUS
<1>1. TrackInv
  BY TrackInit
<1>2. ASSUME NEW w \in Workers PROVE worker[w].pc = "idle" /\ worker[w].artifacts = {}
  BY DEF Init, Fresh
<1> QED BY <1>1, <1>2 DEF PlayInv, Apart, Opened, Packaging, HasStream, InPackaging

LEMMA PlayStep == PlayInv /\ [Next]_vars => PlayInv'
<1> SUFFICES ASSUME PlayInv, [Next]_vars PROVE PlayInv'
  OBVIOUS
<1>0. TrackInv /\ TrackInv'
  BY TrackStep DEF PlayInv
<1>1. ASSUME NEW w \in Workers, Handle(w) PROVE PlayInv'
  <2>1. Entered(w) /\ \A v \in Workers \ {w} : worker'[v] = worker[v]
    BY <1>0, <1>1, HandleEnters, HandleTracks
  <2>2. Apart'
    BY <2>1, ApartKept DEF PlayInv
  <2>3. ASSUME NEW v \in Workers \ disturbed' PROVE Opened(v)'
    <3>1. CASE v = w
      BY <1>1, <3>1, HandleOpens
    <3>2. CASE v # w
      BY <1>1, <2>1, <3>2, OthersOpened DEF Entered
    <3> QED BY <3>1, <3>2
  <2> QED BY <1>0, <2>2, <2>3 DEF PlayInv
<1>2. ASSUME NEW w \in Workers, NEW j \in Jobs, NEW o \in Orders, Begin(w, j, o) PROVE PlayInv'
  <2>1. /\ UNCHANGED <<files, stored, disturbed>>
        /\ \A v \in Workers : worker'[v] = IF v = w THEN Fresh(j, o) ELSE worker[v]
    BY <1>0, <1>2 DEF Begin, mediaVars, TrackInv, MediaTypeOK
  <2>2. Fresh(j, o).pc = "source" /\ Fresh(j, o).artifacts = {}
    BY DEF Fresh
  <2>3. \A v \in Workers : (Packaging(v)' => v # w /\ Packaging(v)) /\ (HasStream(v)' => HasStream(v))
    BY <2>1, <2>2 DEF Packaging, HasStream, InPackaging
  <2>4. Apart'
    BY <2>1, <2>3 DEF PlayInv, Apart
  <2>5. ASSUME NEW v \in Workers \ disturbed' PROVE Opened(v)'
    <3>1. Opened(v)
      BY <2>1 DEF PlayInv
    <3> QED BY <2>1, <2>2, <3>1 DEF Opened, HasStream
  <2> QED BY <1>0, <2>4, <2>5 DEF PlayInv
<1>3. CASE UNCHANGED <<worker, mediaVars>>
  BY <1>0, <1>3 DEF PlayInv, Apart, Opened, Packaging, HasStream, mediaVars
<1> QED BY <1>1, <1>2, <1>3 DEF Next, vars, CallBack

-----------------------------------------------------------------------------
(***************************************************************************)
(* Callbacks.                                                              *)
(***************************************************************************)

\* A delivery that was not told that it was accepted: if it was, the answer is lost.
Untold(w) == w \in accepted => w \in unheard

\* What a status is right about.
Right(w, status) == \/ status = "sent" /\ w \in accepted
                    \/ status = "callback_failed" /\ Untold(w)

\* A delivery posts until it is told that it was accepted, and its verdict is right.
Sound(w) ==
  LET c == call[w] IN
  /\ c.pc = "none" <=> c.job = NoJob
  /\ c.pc \in {"post", "backoff"} => c.posts < Posts
  /\ c.pc \in {"none", "post", "backoff"} => Untold(w) /\ c.verdict = "callback_failed"
  /\ c.pc = "mark" => Right(w, c.verdict)

\* The delivery announced last is one of the job; unless it was announced during
\* another one, all others of the job are over.
Latest(j) ==
  /\ newest[j] # NoWorker => call[newest[j]].job = j
  /\ newest[j] \notin overlapped =>
       \A v \in Workers \ {newest[j]} : call[v].job = j => call[v].pc = "over"

\* StatusIsOfNewest in these terms.
StatusMeans ==
  \A j \in Jobs :
    newest[j] # NoWorker /\ call[newest[j]].pc = "over" /\ newest[j] \notin overlapped
      /\ newest[j] \notin unmarked => Right(newest[j], callback[j])

CallInv ==
  /\ WebhookTypeOK
  /\ \A w \in Workers : Sound(w)
  /\ \A j \in Jobs : Latest(j)
  /\ SentIsAccepted
  /\ StatusMeans

LEMMA CallInit == WebhookInit => CallInv
<1> SUFFICES ASSUME WebhookInit PROVE CallInv
  OBVIOUS
<1>1. NoCall \in Call /\ NoCall.pc = "none" /\ NoCall.job = NoJob /\ NoCall.verdict = "callback_failed"
  BY PostsAssumption DEF NoCall, Call, Verdicts
<1>2. WebhookTypeOK
  BY <1>1 DEF WebhookInit, WebhookTypeOK
<1>3. \A w \in Workers : call[w].pc = "none" /\ call[w].job = NoJob /\ call[w].verdict = "callback_failed"
  BY <1>1 DEF WebhookInit
<1>4. \A w \in Workers : Sound(w)
  BY <1>3 DEF Sound, Untold, WebhookInit
<1>5. \A j \in Jobs : Latest(j)
  BY <1>3, NobodyAssumption DEF Latest, WebhookInit
<1>6. SentIsAccepted /\ StatusMeans
  BY DEF SentIsAccepted, StatusMeans, WebhookInit
<1> QED BY <1>2, <1>4, <1>5, <1>6 DEF CallInv

\* A callback is announced.
LEMMA AnnounceKeeps ==
  ASSUME CallInv, NEW w \in Workers, NEW j \in Jobs, Announce(w, j)
  PROVE  CallInv'
<1> DEFINE new == [NoCall EXCEPT !.pc = "post", !.job = j]
<1>0. /\ call \in [Workers -> Call] /\ callback \in [Jobs -> Verdicts \cup {"pending"}]
      /\ newest \in [Jobs -> Workers \cup {NoWorker}] /\ overlapped \subseteq Workers
      /\ w # NoWorker /\ j # NoJob
  BY NobodyAssumption DEF CallInv, WebhookTypeOK
<1>1. /\ call[w].pc = "none" /\ call' = [call EXCEPT ![w] = new]
      /\ newest' = [newest EXCEPT ![j] = w]
      /\ UNCHANGED <<callback, accepted, unheard, unmarked>>
      /\ overlapped' = IF \E v \in Workers : UnderWay(v) /\ call[v].job = j
                         THEN overlapped \cup {w} ELSE overlapped
  BY DEF Announce
<1>2. /\ new \in Call /\ new.pc = "post" /\ new.job = j /\ new.posts = 0
      /\ new.verdict = "callback_failed"
  <2>1. NoCall \in Call /\ NoCall.posts = 0 /\ NoCall.verdict = "callback_failed"
    BY PostsAssumption DEF NoCall, Call, Verdicts
  <2> QED BY <2>1 DEF Call
<1> HIDE DEF new
<1>3. \A v \in Workers : call'[v] = IF v = w THEN new ELSE call[v]
  BY <1>0, <1>1
<1>4. WebhookTypeOK'
  BY <1>0, <1>1, <1>2 DEF CallInv, WebhookTypeOK
<1>5. call[w].job = NoJob /\ Untold(w) /\ \A v \in Workers : Sound(v)
  BY <1>1 DEF CallInv, Sound
<1>u. \A v \in Workers : /\ Untold(v)' <=> Untold(v)
                         /\ \A status : Right(v, status)' <=> Right(v, status)
  BY <1>1 DEF Right, Untold
<1>6. ASSUME NEW v \in Workers PROVE Sound(v)'
  <2>1. CASE v = w
    BY <1>0, <1>2, <1>3, <1>5, <1>u, <2>1, PostsAssumption DEF Sound
  <2>2. CASE v # w
    BY <1>3, <1>5, <1>u, <2>2 DEF Sound
  <2> QED BY <2>1, <2>2
<1>7. ASSUME NEW i \in Jobs PROVE Latest(i)'
  <2>0. Latest(i)
    BY DEF CallInv
  <2>1. CASE i = j
    <3>1. newest'[i] = w /\ call'[w].job = i
      BY <1>0, <1>1, <1>2, <1>3, <2>1
    <3>2. ASSUME w \notin overlapped', NEW v \in Workers \ {w}, call'[v].job = i
          PROVE  call'[v].pc = "over"
      <4>1. ~UnderWay(v) /\ call[v].job # NoJob
        BY <1>0, <1>1, <1>3, <2>1, <3>2
      <4> QED BY <1>3, <1>5, <3>2, <4>1 DEF UnderWay, Sound
    <3> QED BY <3>1, <3>2 DEF Latest
  <2>2. CASE i # j
    <3>1. newest'[i] = newest[i] /\ newest[i] \in Workers \cup {NoWorker}
      BY <1>0, <1>1, <2>2
    <3>2. newest[i] # w
      BY <1>0, <1>5, <2>0, NobodyAssumption DEF Latest
    <3>3. newest[i] \notin overlapped' => newest[i] \notin overlapped
      BY <1>1
    <3> QED BY <1>2, <1>3, <2>0, <2>2, <3>1, <3>2, <3>3 DEF Latest
  <2> QED BY <2>1, <2>2
<1>8. SentIsAccepted'
  <2>1. ASSUME NEW i \in Jobs, callback[i] = "sent"
        PROVE  \E v \in accepted : call'[v].job = i
    <3>1. PICK v \in accepted : call[v].job = i
      BY <2>1 DEF CallInv, SentIsAccepted
    <3>2. v \in Workers /\ v # w
      BY <1>5, <3>1, NobodyAssumption DEF CallInv, WebhookTypeOK
    <3> QED BY <1>3, <3>1, <3>2
  <2> QED BY <1>1, <2>1 DEF SentIsAccepted
<1>9. StatusMeans'
  <2>1. ASSUME NEW i \in Jobs, NEW v \in Workers, NEW status, newest'[i] = v, callback'[i] = status,
               v \notin overlapped', call'[v].pc = "over", v \notin unmarked'
        PROVE  Right(v, status)'
    <3>1. i # j
      BY <1>0, <1>1, <1>2, <1>3, <2>1
    <3>2. newest[i] = v /\ callback[i] = status /\ v # w /\ v # NoWorker
      BY <1>0, <1>1, <1>2, <1>3, <2>1, <3>1, NobodyAssumption
    <3>3. Right(v, status)
      BY <1>1, <1>3, <2>1, <3>2 DEF CallInv, StatusMeans
    <3> QED BY <3>3, <1>u
  <2>2. newest' \in [Jobs -> Workers \cup {NoWorker}]
    BY <1>4 DEF WebhookTypeOK
  <2> QED BY <2>1, <2>2 DEF StatusMeans
<1> QED BY <1>4, <1>6, <1>7, <1>8, <1>9 DEF CallInv

\* A step of a delivery that is under way: its job stays, what others have is
\* left alone, and only Mark writes a status.
LEMMA CallStepKeeps ==
  ASSUME CallInv, NEW w \in Workers, call[w].pc \notin {"none", "over"},
         NEW new \in Call, call' = [call EXCEPT ![w] = new], new.job = call[w].job,
         new.pc # "none", UNCHANGED <<newest, overlapped>>,
         accepted \subseteq accepted', accepted' \subseteq accepted \cup {w},
         unheard \subseteq unheard', unheard' \subseteq unheard \cup {w},
         unmarked \subseteq unmarked', unmarked' \subseteq unmarked \cup {w},
         new.pc \in {"post", "backoff"} =>
           new.posts < Posts /\ Untold(w)' /\ new.verdict = "callback_failed",
         new.pc = "mark" => Right(w, new.verdict)',
         NEW verdict \in Verdicts,
         \/ callback' = callback /\ (new.pc = "over" => w \in unmarked')
         \/ /\ callback' = [callback EXCEPT ![call[w].job] = verdict]
            /\ Right(w, verdict)' /\ new.pc = "over"
  PROVE  CallInv'
<1>0. /\ call \in [Workers -> Call] /\ callback \in [Jobs -> Verdicts \cup {"pending"}]
      /\ newest \in [Jobs -> Workers \cup {NoWorker}] /\ overlapped \subseteq Workers
      /\ accepted \subseteq Workers /\ unheard \subseteq Workers /\ unmarked \subseteq Workers
      /\ call[w].job \in Jobs \cup {NoJob}
  BY DEF CallInv, WebhookTypeOK, Call
<1>1. \A v \in Workers : call'[v] = IF v = w THEN new ELSE call[v]
  BY <1>0
<1>2. \A v \in Workers : Sound(v)
  BY DEF CallInv
<1>3. call[w].job # NoJob /\ call[w].job \in Jobs
  BY <1>0, <1>2 DEF Sound
<1>o. \A v \in Workers \ {w} : /\ Untold(v)' <=> Untold(v)
                               /\ \A status : Right(v, status)' <=> Right(v, status)
  BY DEF Right, Untold
<1>4. \A v \in Workers : call'[v].job = call[v].job
  BY <1>1
<1>5. \A i \in Jobs : i # call[w].job => callback'[i] = callback[i]
  BY <1>0
<1>6. WebhookTypeOK'
  <2>1. call' \in [Workers -> Call]
    BY <1>0
  <2>2. callback' \in [Jobs -> Verdicts \cup {"pending"}]
    BY <1>0 DEF Verdicts
  <2> QED BY <1>0, <2>1, <2>2 DEF WebhookTypeOK
<1>7. ASSUME NEW v \in Workers PROVE Sound(v)'
  <2>1. CASE v = w
    BY <1>1, <1>3, <2>1 DEF Sound
  <2>2. CASE v # w
    <3>1. call'[v] = call[v] /\ (Untold(v)' <=> Untold(v))
          /\ \A status : Right(v, status)' <=> Right(v, status)
      BY <1>1, <1>o, <2>2
    <3> QED BY <1>2, <3>1 DEF Sound
  <2> QED BY <2>1, <2>2
<1>8. ASSUME NEW i \in Jobs PROVE Latest(i)'
  <2>1. Latest(i) /\ newest[i] \in Workers \cup {NoWorker}
    BY <1>0 DEF CallInv
  <2>2. newest'[i] # NoWorker => call'[newest'[i]].job = i
    BY <1>4, <2>1 DEF Latest
  <2>3. ASSUME newest'[i] \notin overlapped', NEW v \in Workers \ {newest'[i]}, call'[v].job = i
        PROVE  call'[v].pc = "over"
    <3>1. call[v].pc = "over"
      BY <1>4, <2>1, <2>3 DEF Latest
    <3> QED BY <1>1, <3>1
  <2> QED BY <2>2, <2>3 DEF Latest
<1>9. SentIsAccepted'
  <2>1. ASSUME NEW i \in Jobs, callback'[i] = "sent"
        PROVE  \E v \in accepted' : call'[v].job = i
    <3>1. CASE callback[i] = "sent"
      <4>1. PICK v \in accepted : call[v].job = i
        BY <3>1 DEF CallInv, SentIsAccepted
      <4> QED BY <1>0, <1>4, <4>1
    <3>2. CASE callback[i] # "sent"
      <4>1. i = call[w].job /\ w \in accepted'
        BY <1>0, <1>3, <2>1, <3>2 DEF Right
      <4> QED BY <1>4, <4>1
    <3> QED BY <3>1, <3>2
  <2> QED BY <2>1 DEF SentIsAccepted
<1>10. StatusMeans'
  <2>1. ASSUME NEW i \in Jobs, NEW v \in Workers, NEW status, newest'[i] = v, callback'[i] = status,
               v \notin overlapped', call'[v].pc = "over", v \notin unmarked'
        PROVE  Right(v, status)'
    <3>1. newest[i] = v /\ v # NoWorker
      BY <2>1, NobodyAssumption
    <3>2. CASE v = w
      <4>1. call[w].job = i
        BY <3>1, <3>2 DEF CallInv, Latest
      <4>2. callback' = [callback EXCEPT ![call[w].job] = verdict] /\ Right(w, verdict)'
        BY <1>1, <2>1, <3>2
      <4>3. verdict = status
        BY <1>0, <2>1, <4>1, <4>2
      <4> QED BY <3>2, <4>2, <4>3
    <3>3. CASE v # w
      <4>1. call[w].job # i
        BY <2>1, <3>1, <3>3 DEF CallInv, Latest
      <4>2. callback[i] = status
        BY <1>5, <2>1, <4>1
      <4>3. call[v].pc = "over" /\ v \notin unmarked /\ v \notin overlapped
        BY <1>1, <2>1, <3>3
      <4>4. Right(v, status)
        BY <3>1, <4>2, <4>3 DEF CallInv, StatusMeans
      <4> QED BY <1>o, <3>3, <4>4
    <3> QED BY <3>2, <3>3
  <2>2. newest' \in [Jobs -> Workers \cup {NoWorker}]
    BY <1>6 DEF WebhookTypeOK
  <2> QED BY <2>1, <2>2 DEF StatusMeans
<1> QED BY <1>6, <1>7, <1>8, <1>9, <1>10 DEF CallInv

LEMMA DeliveryKeeps ==
  ASSUME CallInv, NEW w \in Workers, Delivery(w) \/ Lose(w)
  PROVE  CallInv'
<1> DEFINE c == call[w]
<1>0. /\ call \in [Workers -> Call] /\ c \in Call /\ accepted \subseteq Workers
      /\ Posts \in Nat /\ c.posts \in 0 .. Posts /\ Sound(w)
  BY PostsAssumption DEF CallInv, WebhookTypeOK, Call
<1>1. CASE Post(w)
  <2>1. c.pc = "post" /\ c.posts < Posts /\ c.verdict = "callback_failed" /\ Untold(w)
    BY <1>0, <1>1 DEF Post, Sound
  <2>p. c.posts + 1 \in 0 .. Posts
    BY <1>0, <2>1
  <2>2. CASE accepted' = accepted \cup {w} /\ unheard' = unheard /\
             call' = [call EXCEPT ![w].pc = "mark", ![w].verdict = "sent",
                                  ![w].posts = call[w].posts + 1]
    <3> DEFINE new == [c EXCEPT !.pc = "mark", !.verdict = "sent", !.posts = c.posts + 1]
    <3>1. call' = [call EXCEPT ![w] = new]
      BY <1>0, <2>2
    <3>2. new \in Call /\ new.pc = "mark" /\ new.verdict = "sent" /\ new.job = c.job
      <4>1. c \in Call
        BY <1>0
      <4> QED BY <4>1, <2>p DEF Call, Verdicts
    <3>3. Right(w, "sent")'
      BY <2>2 DEF Right
    <3>4. "sent" \in Verdicts
      BY DEF Verdicts
    <3> HIDE DEF new
    <3>5. PICK k \in Call : k = new
      BY <3>2
    <3>6. UNCHANGED <<callback, newest, overlapped, unmarked>>
      BY <1>1 DEF Post
    <3> QED BY <2>1, <2>2, <3>1, <3>2, <3>3, <3>4, <3>5, <3>6, CallStepKeeps
  <2>3. CASE (\/ UNCHANGED <<accepted, unheard>>
              \/ accepted' = accepted \cup {w} /\ unheard' = unheard \cup {w}) /\
             call' = [call EXCEPT
                        ![w].pc = IF call[w].posts + 1 < Posts THEN "backoff" ELSE "mark",
                        ![w].posts = call[w].posts + 1]
    <3> DEFINE pc == IF c.posts + 1 < Posts THEN "backoff" ELSE "mark"
               new == [c EXCEPT !.pc = pc, !.posts = c.posts + 1]
    <3>1. call' = [call EXCEPT ![w] = new]
      BY <1>0, <2>3
    <3>2. /\ new \in Call /\ new.verdict = c.verdict /\ new.job = c.job
          /\ new.posts = c.posts + 1 /\ new.pc = pc
      <4>1. c \in Call /\ pc \in {"backoff", "mark"}
        BY <1>0
      <4> HIDE DEF pc
      <4> QED BY <4>1, <2>p DEF Call
    <3>3. pc = "backoff" => c.posts + 1 < Posts
      OBVIOUS
    <3>4. pc \in {"backoff", "mark"}
      OBVIOUS
    <3>5. Untold(w)' /\ Right(w, "callback_failed")'
      BY <2>1, <2>3 DEF Right, Untold
    <3>6. "sent" \in Verdicts
      BY DEF Verdicts
    <3>7. /\ accepted \subseteq accepted' /\ accepted' \subseteq accepted \cup {w}
          /\ unheard \subseteq unheard' /\ unheard' \subseteq unheard \cup {w}
      BY <2>3
    <3>8. UNCHANGED <<callback, newest, overlapped, unmarked>>
      BY <1>1 DEF Post
    <3> HIDE DEF new, pc
    <3>9. PICK k \in Call : k = new
      BY <3>2
    <3>10. /\ call[w].pc \notin {"none", "over"} /\ call' = [call EXCEPT ![w] = k]
           /\ k.job = call[w].job /\ k.pc \in {"backoff", "mark"} /\ k.verdict = "callback_failed"
           /\ k.pc = "backoff" => k.posts < Posts
      BY <2>1, <3>1, <3>2, <3>3, <3>4, <3>9
    <3>11. k.pc \notin {"none", "over"} /\ k.pc # "post"
      BY <3>10
    <3> QED BY <3>5, <3>6, <3>7, <3>8, <3>10, <3>11, CallStepKeeps
  <2> QED BY <1>1, <2>2, <2>3 DEF Post
<1>2. CASE Backoff(w)
  <2>1. PICK pc \in {"post", "mark"} : call' = [call EXCEPT ![w].pc = pc]
    BY <1>2 DEF Backoff
  <2> DEFINE new == [c EXCEPT !.pc = pc]
  <2>2. call' = [call EXCEPT ![w] = new]
    BY <1>0, <2>1
  <2>3. new \in Call /\ new.verdict = c.verdict /\ new.job = c.job /\ new.posts = c.posts
        /\ new.pc = pc
    BY <1>0 DEF Call
  <2>4. c.pc = "backoff" /\ c.posts < Posts /\ c.verdict = "callback_failed" /\ Untold(w)
    BY <1>0, <1>2 DEF Backoff, Sound
  <2>5. Untold(w)' /\ Right(w, "callback_failed")'
    BY <1>2, <2>4 DEF Backoff, Right, Untold
  <2>6. "sent" \in Verdicts
    BY DEF Verdicts
  <2>7. UNCHANGED <<callback, accepted, unheard, newest, overlapped, unmarked>>
    BY <1>2 DEF Backoff
  <2> HIDE DEF new
  <2>8. PICK k \in Call : k = new
    BY <2>3
  <2> QED BY <2>2, <2>3, <2>4, <2>5, <2>6, <2>7, <2>8, CallStepKeeps
<1>3. CASE Mark(w)
  <2> DEFINE new == [c EXCEPT !.pc = "over"]
  <2>1. c.pc = "mark" /\ call' = [call EXCEPT ![w] = new]
        /\ UNCHANGED <<accepted, unheard, newest, overlapped>>
    BY <1>0, <1>3 DEF Mark
  <2>2. new \in Call /\ new.job = c.job /\ new.pc = "over"
    BY <1>0 DEF Call
  <2>3. PICK verdict \in Verdicts : verdict = c.verdict
    BY <1>0 DEF Call
  <2>4. Right(w, verdict)'
    BY <1>0, <2>1, <2>3 DEF Sound, Right, Untold
  <2> HIDE DEF new
  <2>5. PICK k \in Call : k = new
    BY <2>2
  <2>6. \/ UNCHANGED unmarked /\ callback' = [callback EXCEPT ![c.job] = verdict]
        \/ UNCHANGED callback /\ unmarked' = unmarked \cup {w}
    BY <1>3, <2>3 DEF Mark
  <2> QED BY <2>1, <2>2, <2>4, <2>5, <2>6, CallStepKeeps
<1>4. CASE Lose(w)
  <2> DEFINE new == [c EXCEPT !.pc = "over"]
  <2>1. /\ c.pc \notin {"none", "over"} /\ call' = [call EXCEPT ![w] = new]
        /\ UNCHANGED <<callback, accepted, unheard, newest, overlapped>> /\ unmarked' = unmarked \cup {w}
    BY <1>0, <1>4 DEF Lose, UnderWay
  <2>2. new \in Call /\ new.job = c.job /\ new.pc = "over"
    BY <1>0 DEF Call
  <2>3. "sent" \in Verdicts
    BY DEF Verdicts
  <2> HIDE DEF new
  <2>4. PICK k \in Call : k = new
    BY <2>2
  <2> QED BY <2>1, <2>2, <2>3, <2>4, CallStepKeeps
<1> QED BY <1>1, <1>2, <1>3, <1>4 DEF Delivery

\* An outcome is announced for a job that exists.
LEMMA CallStep == TrackInv /\ CallInv /\ [Next]_vars => CallInv'
<1> SUFFICES ASSUME TrackInv, CallInv, [Next]_vars PROVE CallInv'
  OBVIOUS
<1>1. CASE UNCHANGED webhookVars
  BY <1>1 DEF CallInv, WebhookTypeOK, Sound, Latest, SentIsAccepted, StatusMeans,
            Untold, Right, webhookVars
<1>2. ASSUME NEW w \in Workers, AtStep(worker[w]), Announce(w, worker[w].job) PROVE CallInv'
  <2>1. worker[w].job \in Jobs
    BY <1>2 DEF TrackInv, Progress
  <2> QED BY <1>2, <2>1, AnnounceKeeps
<1>3. ASSUME NEW w \in Workers, Handle(w) PROVE CallInv'
  <2>1. CASE FailAudio(w) \/ CompleteAudio(w)
    <3>1. AtStep(worker[w])
      BY <2>1, StepNames DEF FailAudio, CompleteAudio, AtWork, AtStep
    <3> QED BY <1>2, <2>1, <3>1 DEF FailAudio, CompleteAudio
  <2>2. CASE UNCHANGED webhookVars
    BY <1>1, <2>2
  <2> QED BY <1>3, <2>1, <2>2 DEF Handle, Work, Upload, Encrypt, Publish, Die
<1>4. ASSUME NEW w \in Workers, CallBack(w) PROVE CallInv'
  BY <1>4, DeliveryKeeps DEF CallBack
<1>5. ASSUME NEW w \in Workers, NEW j \in Jobs, NEW o \in Orders, Begin(w, j, o) PROVE CallInv'
  BY <1>1, <1>5 DEF Begin
<1> QED BY <1>1, <1>3, <1>4, <1>5 DEF Next, vars

-----------------------------------------------------------------------------
(***************************************************************************)
(* The theorems.                                                           *)
(***************************************************************************)

LEMMA PipelineInvariant == Spec => [](PlayInv /\ CallInv)
<1>1. Init => PlayInv /\ CallInv
  BY PlayInit, CallInit DEF Init
<1>2. PlayInv /\ CallInv /\ [Next]_vars => (PlayInv /\ CallInv)'
  BY PlayStep, CallStep DEF PlayInv
<1> QED BY <1>1, <1>2, PTL DEF Spec

\* Type correctness of the handlers, the bucket and the callbacks.
THEOREM AudioTypeCorrect == Spec => []TypeOK
<1>1. PlayInv /\ CallInv => TypeOK
  BY DEF PlayInv, TrackInv, MediaTypeOK, CallInv, TypeOK
<1> QED BY <1>1, PipelineInvariant, PTL

\* A result never lists an object that was not put, and never calls a stage
\* ready whose output it does not list (audio/result.go).
THEOREM ReportsAreTrue == Spec => []ReportIsTrue
<1>1. PlayInv => ReportIsTrue
  BY DEF PlayInv, TrackInv, Ended, Listed, InBucket, ReportIsTrue
<1> QED BY <1>1, PipelineInvariant, PTL

\* A failed job blames the stage that failed, and no other
\* (skipPendingAudioStages).
THEOREM FailuresNameOneStage == Spec => []OneCulprit
<1>1. PlayInv => OneCulprit
  BY DEF PlayInv, TrackInv, Ended, OneCulprit
<1> QED BY <1>1, PipelineInvariant, PTL

\* A stream that is part of a result can be played unless another packaging
\* of the hash overlapped or followed it (SetupHLSEncryption, uploadAudioHLSDir).
THEOREM UndisturbedStreamsPlay == Spec => []PublishedPlays
<1>1. PlayInv => PublishedPlays
  BY DEF PlayInv, Opened, HasStream, PublishedPlays
<1> QED BY <1>1, PipelineInvariant, PTL

\* callback_status speaks of the outcome announced last: "sent" if the other side
\* accepted it, "callback_failed" if not or if its answer was lost; unless it was
\* announced during an earlier delivery, or its end was not noted (webhook/client.go).
THEOREM StatusSpeaksOfNewest == Spec => []StatusIsOfNewest
<1>1. CallInv => StatusIsOfNewest
  BY DEF CallInv, StatusMeans, Right, Untold, StatusIsOfNewest
<1> QED BY <1>1, PipelineInvariant, PTL

\* callback_status is "sent" only if a callback of the job was accepted.
THEOREM SentMeansAccepted == Spec => []SentIsAccepted
<1>1. CallInv => SentIsAccepted
  BY DEF CallInv
<1> QED BY <1>1, PipelineInvariant, PTL
=============================================================================
