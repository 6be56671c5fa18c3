------------------------- MODULE ImageServiceProofs -------------------------
(***************************************************************************)
(* What holds of ImageService for any number of requests, processes,       *)
(* sources and options: an answer is the rendition that was asked for, and *)
(* a client that goes away takes nobody else's answer with it.             *)
(***************************************************************************)
EXTENDS ImageService, TLAPS

\* What a request has in hand: the bytes of its source when it processes them,
\* its rendition from then on. One that failed failed for its source.
Own(q) ==
  /\ q.pc = "idle" <=> q.image = NoImage
  /\ q.pc \in {"process", "processing"} => q.data \in Images /\ q.data[1] = q.image[1]
  /\ q.pc \in {"cache", "track", "finish", "done"} => q.data = q.image
  /\ q.put => q.pc = "done"
  /\ q.pc = "failed" => q.image[1] \in refused

\* Who waits waits for a flight that is under way, and to the same place.
Aboard(r) ==
  request[r].pc = "wait" =>
    LET l == request[request[r].leader] IN
    \/ l.pc = "fetching" /\ l.image[1] = request[r].image[1]
    \/ l.pc = "processing" /\ l.image = request[r].image

ImageInv == ImageTypeOK /\ \A r \in Requests : Own(request[r]) /\ Aboard(r)

-----------------------------------------------------------------------------

\* A rendition is one of the source and the options it names.
LEMMA ImageParts ==
  ASSUME NEW i \in Images
  PROVE  i[1] \in Sources /\ i[2] \in Options /\ i = <<i[1], i[2]>> /\ i # NoImage
BY NoImageAssumption DEF Images

LEMMA ImageInvInit == ImageInit => ImageInv
<1> SUFFICES ASSUME ImageInit PROVE ImageInv
  OBVIOUS
<1>1. /\ request \in [Requests -> Request]
      /\ \A r \in Requests : /\ request[r].pc = "idle" /\ request[r].image = NoImage
                             /\ ~request[r].put
  BY DEF ImageInit
<1>2. ImageTypeOK
  BY <1>1 DEF ImageInit, ImageTypeOK
<1>3. ASSUME NEW r \in Requests PROVE Own(request[r]) /\ Aboard(r)
  BY <1>1 DEF Own, Aboard
<1> QED BY <1>2, <1>3 DEF ImageInv

\* One request moves, and nobody is waiting for it.
LEMMA OneMoves ==
  ASSUME ImageInv, NEW r \in Requests, request[r].pc \notin {"fetching", "processing"},
         NEW new \in Request, request' = [request EXCEPT ![r] = new],
         new.pc # "wait", UNCHANGED refused, Own(new)
  PROVE  /\ request' \in [Requests -> Request]
         /\ \A v \in Requests : Own(request[v])' /\ Aboard(v)'
<1>1. request \in [Requests -> Request]
  BY DEF ImageInv, ImageTypeOK
<1>2. \A v \in Requests : request'[v] = IF v = r THEN new ELSE request[v]
  BY <1>1
<1>3. ASSUME NEW v \in Requests PROVE Own(request[v])' /\ Aboard(v)'
  <2>1. Own(request[v]) /\ Aboard(v)
    BY DEF ImageInv
  <2>2. Own(request[v])'
    BY <1>2, <2>1 DEF Own
  <2>3. Aboard(v)'
    <3>1. CASE v = r
      BY <1>2, <3>1 DEF Aboard
    <3>2. CASE v # r /\ request[v].pc = "wait"
      <4>1. request[v].leader \in Requests
        BY <1>1 DEF Request
      <4>2. request[v].leader # r
        BY <2>1, <3>2 DEF Aboard
      <4> QED BY <1>2, <2>1, <3>2, <4>1, <4>2 DEF Aboard
    <3>3. CASE v # r /\ request[v].pc # "wait"
      BY <1>2, <3>3 DEF Aboard
    <3> QED BY <3>1, <3>2, <3>3
  <2> QED BY <2>2, <2>3
<1> QED BY <1>1, <1>2, <1>3

\* A request joins a flight, or leads one of its own.
LEMMA JoinKeeps ==
  ASSUME ImageInv, NEW r \in Requests, Join(r)
  PROVE  ImageInv'
<1> DEFINE q == request[r]
           flying == IF q.pc = "fetch" THEN "fetching" ELSE "processing"
<1>1. /\ request \in [Requests -> Request] /\ q \in Request /\ Own(q)
      /\ q.pc \in {"fetch", "process"}
      /\ UNCHANGED <<mem, stored, index, hungup, untracked, refused>>
  BY DEF ImageInv, ImageTypeOK, Join
<1>2. CASE Step(r, flying)
  <2> DEFINE new == [q EXCEPT !.pc = flying]
  <2>1. request' = [request EXCEPT ![r] = new]
    BY <1>1, <1>2 DEF Step
  <2>2. /\ new \in Request /\ new.pc = flying /\ new.image = q.image /\ new.data = q.data
        /\ new.put = q.put
    BY <1>1 DEF Request
  <2> HIDE DEF new
  <2>3. Own(new)
    BY <1>1, <2>2 DEF Own
  <2>4. /\ request' \in [Requests -> Request]
        /\ \A v \in Requests : Own(request[v])' /\ Aboard(v)'
    BY <1>1, <2>1, <2>2, <2>3, OneMoves
  <2> QED BY <1>1, <2>4 DEF ImageInv, ImageTypeOK
<1>3. CASE \E l \in Requests :
             /\ request[l].pc = flying /\ SameFlight(r, l)
             /\ request' = [request EXCEPT ![r].pc = "wait", ![r].leader = l]
  <2>1. PICK l \in Requests :
             /\ request[l].pc = flying /\ SameFlight(r, l)
             /\ request' = [request EXCEPT ![r].pc = "wait", ![r].leader = l]
    BY <1>3
  <2> DEFINE new == [q EXCEPT !.pc = "wait", !.leader = l]
  <2>2. request' = [request EXCEPT ![r] = new]
    BY <1>1, <2>1
  <2>3. /\ new \in Request /\ new.pc = "wait" /\ new.image = q.image /\ new.leader = l
        /\ new.put = q.put
    BY <1>1 DEF Request
  <2> HIDE DEF new
  <2>4. \A v \in Requests : request'[v] = IF v = r THEN new ELSE request[v]
    BY <1>1, <2>2
  <2>5. ASSUME NEW v \in Requests PROVE Own(request[v])' /\ Aboard(v)'
    <3>0. Own(request[v]) /\ Aboard(v)
      BY DEF ImageInv
    <3>1. CASE v = r
      <4>1. request'[l] = request[l]
        BY <1>1, <2>1, <2>4
      <4> QED BY <1>1, <2>1, <2>3, <2>4, <3>1, <4>1 DEF Own, Aboard, SameFlight
    <3>2. CASE v # r /\ request[v].pc = "wait"
      <4>1. request[v].leader \in Requests /\ request[v].leader # r
        BY <1>1, <3>0, <3>2 DEF Aboard, Request
      <4> QED BY <1>1, <2>4, <3>0, <3>2, <4>1 DEF Own, Aboard
    <3>3. CASE v # r /\ request[v].pc # "wait"
      BY <1>1, <2>4, <3>0, <3>3 DEF Own, Aboard
    <3> QED BY <3>1, <3>2, <3>3
  <2> QED BY <1>1, <2>2, <2>3, <2>5 DEF ImageInv, ImageTypeOK
<1> QED BY <1>2, <1>3 DEF Join

\* A flight lands, and with it all that are aboard: with the bytes of the
\* source, with the rendition, or without anything.
LEMMA LandKeeps ==
  ASSUME ImageInv, NEW l \in Requests, request[l].pc \in {"fetching", "processing"},
         NEW pc, NEW data, Land(l, pc, data),
         refused \subseteq refused', refused' \subseteq Sources,
         \/ pc = "failed" /\ data = NoImage /\ request[l].image[1] \in refused'
         \/ pc = "process" /\ request[l].pc = "fetching" /\ data = request[l].image
         \/ pc = "cache" /\ request[l].pc = "processing" /\ data = request[l].image,
         UNCHANGED <<mem, stored, index, hungup, untracked>>
  PROVE  ImageInv'
<1> DEFINE Lands(r) == r = l \/ (request[r].pc = "wait" /\ request[r].leader = l)
<1>1. /\ request \in [Requests -> Request]
      /\ \A r \in Requests : request[r] \in Request /\ Own(request[r]) /\ Aboard(r)
  BY DEF ImageInv, ImageTypeOK
<1>2. request[l].image \in Images
  BY <1>1 DEF Own, Request
<1>3. \A r \in Requests :
        request'[r] = IF Lands(r) THEN [request[r] EXCEPT !.pc = pc, !.data = data] ELSE request[r]
  BY DEF Land
<1>4. pc \in {"failed", "process", "cache"} /\ data \in Images \cup {NoImage}
  BY <1>2
<1>5. ASSUME NEW r \in Requests, Lands(r)
      PROVE  request'[r] \in Request /\ Own(request[r])' /\ Aboard(r)'
  <2>1. PICK new : request'[r] = new /\ new = [request[r] EXCEPT !.pc = pc, !.data = data]
    BY <1>3, <1>5
  <2>2. /\ new \in Request /\ new.pc = pc /\ new.data = data /\ new.image = request[r].image
        /\ new.put = request[r].put
    <3> DEFINE q == request[r]
    <3>1. q \in Request /\ new = [q EXCEPT !.pc = pc, !.data = data]
      BY <1>1, <2>1
    <3> HIDE DEF q
    <3>2. /\ q = [pc |-> q.pc, proc |-> q.proc, image |-> q.image, data |-> q.data,
                   leader |-> q.leader, then |-> q.then, put |-> q.put]
          /\ q.proc \in Procs /\ q.image \in Images \cup {NoImage} /\ q.leader \in Requests
          /\ q.then \in {"send", "fill", "writeBack"} /\ q.put \in BOOLEAN
      BY <3>1 DEF Request
    <3>3. new = [pc |-> pc, proc |-> q.proc, image |-> q.image, data |-> data,
                 leader |-> q.leader, then |-> q.then, put |-> q.put]
      BY <3>1, <3>2
    <3>4. /\ new \in Request /\ new.pc = pc /\ new.data = data /\ new.image = q.image
          /\ new.put = q.put
      BY <1>4, <3>2, <3>3 DEF Request
    <3> QED BY <3>4 DEF q
  <2>3. /\ request[l].image[1] = request[r].image[1]
        /\ request[l].pc = "processing" => request[l].image = request[r].image
    BY <1>1, <1>5 DEF Aboard
  <2>4. request[r].pc # "idle" /\ ~request[r].put
    <3>1. request[r].pc \in {"wait", "fetching", "processing"}
      BY <1>5
    <3> QED BY <1>1, <3>1 DEF Own
  <2>5. request[r].image # NoImage
    BY <1>1, <2>4 DEF Own
  <2>6. CASE pc = "failed"
    BY <2>1, <2>2, <2>3, <2>4, <2>5, <2>6 DEF Own, Aboard
  <2>7. CASE pc = "process"
    BY <1>2, <2>1, <2>2, <2>3, <2>4, <2>5, <2>7 DEF Own, Aboard
  <2>8. CASE pc = "cache"
    BY <2>1, <2>2, <2>3, <2>4, <2>5, <2>8 DEF Own, Aboard
  <2> QED BY <1>4, <2>6, <2>7, <2>8
<1>6. ASSUME NEW r \in Requests, ~Lands(r)
      PROVE  request'[r] \in Request /\ Own(request[r])' /\ Aboard(r)'
  <2>1. request'[r] = request[r]
    BY <1>3, <1>6
  <2>2. Own(request[r])'
    BY <1>1, <2>1 DEF Own
  <2>3. Aboard(r)'
    <3>1. CASE request[r].pc = "wait"
      <4> DEFINE m == request[r].leader
      <4>1. m \in Requests /\ m # l
        BY <1>1, <1>6, <3>1 DEF Request
      <4>2. request[m].pc \in {"fetching", "processing"}
        BY <1>1, <3>1 DEF Aboard
      <4>3. request'[m] = request[m]
        BY <1>3, <4>1, <4>2
      <4> QED BY <1>1, <2>1, <4>3 DEF Aboard
    <3>2. CASE request[r].pc # "wait"
      BY <2>1, <3>2 DEF Aboard
    <3> QED BY <3>1, <3>2
  <2> QED BY <1>1, <2>1, <2>2, <2>3
<1>7. request' \in [Requests -> Request]
  <2>1. request' = [r \in Requests |-> request'[r]]
    BY DEF Land
  <2> QED BY <1>5, <1>6, <2>1
<1> QED BY <1>5, <1>6, <1>7 DEF ImageInv, ImageTypeOK

LEMMA FlightKeeps ==
  ASSUME ImageInv, NEW l \in Requests, Fetched(l) \/ Processed(l)
  PROVE  ImageInv'
<1>1. /\ request[l].pc \in {"fetching", "processing"}
      /\ UNCHANGED <<mem, stored, index, hungup, untracked>>
  BY DEF Fetched, Processed
<1>2. /\ refused \subseteq Sources /\ request[l] \in Request /\ Own(request[l])
      /\ request[l].image \in Images
  <2>1. request[l] \in Request /\ Own(request[l]) /\ refused \subseteq Sources
    BY DEF ImageInv, ImageTypeOK
  <2> QED BY <1>1, <2>1 DEF Own, Request
<1>3. request[l].image[1] \in Sources /\ request[l].image = <<request[l].image[1], request[l].image[2]>>
  BY <1>2, ImageParts
<1>4. CASE Fetched(l)
  <2>1. \/ Land(l, "process", request[l].image) /\ UNCHANGED refused
        \/ Land(l, "failed", NoImage) /\ refused' = refused \cup {request[l].image[1]}
    BY <1>4 DEF Fetched, Landed
  <2>2. request[l].pc = "fetching"
    BY <1>4 DEF Fetched
  <2> QED BY <1>1, <1>2, <1>3, <2>1, <2>2, LandKeeps
<1>5. CASE Processed(l)
  <2>1. request[l].pc = "processing"
    BY <1>5 DEF Processed
  <2>2. <<request[l].data[1], request[l].image[2]>> = request[l].image
    BY <1>2, <1>3, <2>1 DEF Own
  <2>3. \/ Land(l, "cache", request[l].image) /\ UNCHANGED refused
        \/ Land(l, "failed", NoImage) /\ refused' = refused \cup {request[l].image[1]}
    BY <1>5, <2>2 DEF Processed, Landed
  <2> QED BY <1>1, <1>2, <1>3, <2>1, <2>3, LandKeeps
<1> QED BY <1>4, <1>5

\* The memory cache holds nothing but renditions.
LEMMA RememberType ==
  ASSUME ImageTypeOK, NEW p \in Procs, NEW i \in Images, Remember(p, i)
  PROVE  mem' \in [Procs -> SUBSET Images]
BY DEF ImageTypeOK, Remember

\* Every other step of a request is its own affair.
LEMMA ServeKeeps ==
  ASSUME ImageInv, NEW r \in Requests, Serve(r)
  PROVE  ImageInv'
<1> DEFINE q == request[r]
<1>0. /\ request \in [Requests -> Request] /\ q \in Request /\ Own(q) /\ Aboard(r)
      /\ mem \in [Procs -> SUBSET Images] /\ stored \subseteq Images
      /\ index \subseteq Hashed \X Options /\ hungup \subseteq Requests
      /\ untracked \subseteq Images /\ refused \subseteq Sources /\ q.proc \in Procs
  BY DEF ImageInv, ImageTypeOK, Request
<1>i. q.pc # "idle" => q.image \in Images
  BY <1>0 DEF Own, Request
\* What is to show of a step of r alone.
<1>m. ASSUME q.pc \notin {"fetching", "processing"},
             NEW new \in Request, request' = [request EXCEPT ![r] = new], new.pc # "wait",
             UNCHANGED refused, Own(new),
             mem' \in [Procs -> SUBSET Images], stored' \subseteq Images,
             index' \subseteq Hashed \X Options, UNCHANGED hungup, untracked' \subseteq Images
      PROVE  ImageInv'
  BY <1>0, <1>m, OneMoves DEF ImageInv, ImageTypeOK
\* A step that only moves to another place.
<1>s. ASSUME NEW pc, Step(r, pc), q.pc \in {"storage", "track"},
             pc = IF q.pc = "storage" THEN "fetch" ELSE "finish"
      PROVE  \E new \in Request : /\ request' = [request EXCEPT ![r] = new]
                                  /\ new.pc # "wait" /\ Own(new)
  <2> DEFINE new == [q EXCEPT !.pc = pc]
  <2>1. request' = [request EXCEPT ![r] = new]
    BY <1>0, <1>s DEF Step
  <2>2. /\ new \in Request /\ new.pc = pc /\ new.image = q.image /\ new.data = q.data
        /\ new.put = q.put
    BY <1>0, <1>s DEF Request
  <2> HIDE DEF new
  <2>3. Own(new) /\ new.pc # "wait"
    BY <1>0, <1>s, <2>2 DEF Own
  <2> QED BY <2>1, <2>2, <2>3
<1>1. CASE MemoryGet(r)
  <2>1. q.pc = "memory" /\ UNCHANGED <<mem, stored, index, hungup, untracked, refused>>
    BY <1>1 DEF MemoryGet
  <2>2. CASE q.image \in mem[q.proc]
    <3> DEFINE new == [q EXCEPT !.pc = "track", !.then = "send", !.data = q.image]
    <3>1. request' = [request EXCEPT ![r] = new]
      BY <1>1, <2>2 DEF MemoryGet
    <3>2. new \in Request /\ new.pc = "track" /\ new.image = q.image /\ new.data = q.image
          /\ new.put = q.put
      BY <1>0 DEF Request
    <3> HIDE DEF new
    <3>3. Own(new)
      BY <1>0, <2>1, <3>2 DEF Own
    <3> QED BY <1>0, <1>m, <2>1, <3>1, <3>2, <3>3
  <2>3. CASE q.image \notin mem[q.proc]
    <3> DEFINE new == [q EXCEPT !.pc = "storage"]
    <3>1. request' = [request EXCEPT ![r] = new]
      BY <1>1, <2>3 DEF MemoryGet
    <3>2. new \in Request /\ new.pc = "storage" /\ new.image = q.image /\ new.put = q.put
      BY <1>0 DEF Request
    <3> HIDE DEF new
    <3>3. Own(new)
      BY <1>0, <2>1, <3>2 DEF Own
    <3> QED BY <1>0, <1>m, <2>1, <3>1, <3>2, <3>3
  <2> QED BY <2>2, <2>3
<1>2. CASE StorageGet(r)
  <2>1. q.pc = "storage" /\ UNCHANGED <<mem, stored, index, hungup, untracked, refused>>
    BY <1>2 DEF StorageGet
  <2>2. CASE request' = [request EXCEPT ![r] =
               [q EXCEPT !.pc = "track", !.then = "fill", !.data = q.image]]
    <3> DEFINE new == [q EXCEPT !.pc = "track", !.then = "fill", !.data = q.image]
    <3>1. new \in Request /\ new.pc = "track" /\ new.image = q.image /\ new.data = q.image
          /\ new.put = q.put
      BY <1>0 DEF Request
    <3>2. request' = [request EXCEPT ![r] = new]
      BY <2>2
    <3> HIDE DEF new
    <3>3. Own(new)
      BY <1>0, <2>1, <3>1 DEF Own
    <3> QED BY <1>0, <1>m, <2>1, <3>1, <3>2, <3>3
  <2>3. CASE Step(r, "fetch")
    <3>1. PICK new \in Request : /\ request' = [request EXCEPT ![r] = new]
                                 /\ new.pc # "wait" /\ Own(new)
      BY <1>s, <2>1, <2>3
    <3> QED BY <1>0, <1>m, <2>1, <3>1
  <2> QED BY <1>2, <2>2, <2>3 DEF StorageGet
<1>3. CASE Join(r)
  BY <1>3, JoinKeeps
<1>4. CASE Fetched(r) \/ Processed(r)
  BY <1>4, FlightKeeps
<1>5. CASE CacheSet(r)
  <2> DEFINE new == [q EXCEPT !.pc = "track", !.then = "writeBack"]
  <2>1. /\ q.pc = "cache" /\ Remember(q.proc, q.image)
        /\ UNCHANGED <<stored, index, hungup, untracked, refused>>
        /\ request' = [request EXCEPT ![r] = new]
    BY <1>0, <1>5 DEF CacheSet
  <2>2. new \in Request /\ new.pc = "track" /\ new.image = q.image /\ new.data = q.data
        /\ new.put = q.put
    BY <1>0 DEF Request
  <2> HIDE DEF new
  <2>3. Own(new)
    BY <1>0, <2>1, <2>2 DEF Own
  <2>4. mem' \in [Procs -> SUBSET Images]
    BY <1>0, <1>i, <2>1, RememberType DEF ImageInv
  <2> QED BY <1>0, <1>m, <2>1, <2>2, <2>3, <2>4
<1>6. CASE Track(r)
  <2>1. q.pc = "track" /\ Step(r, "finish") /\ UNCHANGED <<mem, stored, hungup, refused>>
    BY <1>6 DEF Track
  <2>2. q.image \in Images /\ q.image = <<q.image[1], q.image[2]>>
        /\ q.image[2] \in Options
    BY <1>i, <2>1, ImageParts
  <2>3. index' \subseteq Hashed \X Options /\ untracked' \subseteq Images
    <3>1. index' \subseteq index \cup {q.image} /\ untracked' \subseteq untracked \cup {q.image}
          /\ (index' # index => q.image[1] \in Hashed)
      BY <1>6 DEF Track
    <3>2. q.image[1] \in Hashed => q.image \in Hashed \X Options
      BY <2>2
    <3> QED BY <1>0, <2>2, <3>1, <3>2
  <2>4. PICK new \in Request : /\ request' = [request EXCEPT ![r] = new]
                               /\ new.pc # "wait" /\ Own(new)
    BY <1>s, <2>1
  <2> QED BY <1>0, <1>m, <2>1, <2>3, <2>4
<1>7. CASE Finish(r)
  <2> DEFINE new == [q EXCEPT !.pc = "done", !.put = (q.then = "writeBack")]
  <2>1. /\ q.pc = "finish" /\ UNCHANGED <<stored, index, hungup, untracked, refused>>
        /\ request' = [request EXCEPT ![r] = new]
        /\ Remember(q.proc, q.image) \/ UNCHANGED mem
    BY <1>0, <1>7 DEF Finish
  <2>2. new \in Request /\ new.pc = "done" /\ new.image = q.image /\ new.data = q.data
    BY <1>0 DEF Request
  <2> HIDE DEF new
  <2>3. Own(new)
    BY <1>0, <2>1, <2>2 DEF Own
  <2>4. mem' \in [Procs -> SUBSET Images]
    BY <1>0, <1>i, <2>1, RememberType DEF ImageInv
  <2> QED BY <1>0, <1>m, <2>1, <2>2, <2>3, <2>4
<1>8. CASE WriteBack(r)
  <2> DEFINE new == [q EXCEPT !.put = FALSE]
  <2>1. /\ q.put /\ UNCHANGED <<mem, index, hungup, untracked, refused>>
        /\ request' = [request EXCEPT ![r] = new]
        /\ stored' \subseteq stored \cup {q.image}
    BY <1>0, <1>8 DEF WriteBack
  <2>2. new \in Request /\ new.pc = q.pc /\ new.image = q.image /\ new.data = q.data
        /\ ~new.put
    BY <1>0 DEF Request
  <2> HIDE DEF new
  <2>3. q.pc = "done"
    BY <1>0, <2>1 DEF Own
  <2>4. Own(new)
    BY <1>0, <2>2, <2>3 DEF Own
  <2>5. stored' \subseteq Images
    BY <1>0, <1>i, <2>1, <2>3
  <2> QED BY <1>0, <1>m, <2>1, <2>2, <2>3, <2>4, <2>5
<1> QED BY <1>1, <1>2, <1>3, <1>4, <1>5, <1>6, <1>7, <1>8 DEF Serve

LEMMA ImageInvStep == ImageInv /\ ImageNext => ImageInv'
<1> SUFFICES ASSUME ImageInv, ImageNext PROVE ImageInv'
  OBVIOUS
<1>0. request \in [Requests -> Request]
  BY DEF ImageInv, ImageTypeOK
<1>1. ASSUME NEW r \in Requests, Serve(r) PROVE ImageInv'
  BY <1>1, ServeKeeps
<1>2. ASSUME NEW r \in Requests, HangUp(r) PROVE ImageInv'
  BY <1>2 DEF HangUp, ImageInv, ImageTypeOK, Own, Aboard
<1>3. ASSUME NEW r \in Requests, NEW i \in Images, Arrive(r, i) PROVE ImageInv'
  <2> DEFINE new == [request[r] EXCEPT !.pc = "memory", !.image = i]
  <2>1. /\ request[r].pc = "idle" /\ request' = [request EXCEPT ![r] = new]
        /\ UNCHANGED <<mem, stored, index, hungup, untracked, refused>>
    BY <1>0, <1>3 DEF Arrive
  <2>2. /\ new \in Request /\ new.pc = "memory" /\ new.image = i /\ new.put = request[r].put
    <3>1. request[r] \in Request /\ i \in Images \cup {NoImage}
      BY <1>0
    <3> HIDE DEF Images
    <3> QED BY <3>1 DEF Request
  <2>3. i # NoImage
    BY ImageParts
  <2> HIDE DEF new
  <2>4. Own(new)
    BY <2>1, <2>2, <2>3 DEF Own, ImageInv
  <2> QED BY <2>1, <2>2, <2>4, OneMoves DEF ImageInv, ImageTypeOK
<1> QED BY <1>1, <1>2, <1>3 DEF ImageNext

LEMMA ImageInvStutter == ImageInv /\ UNCHANGED imageVars => ImageInv'
BY DEF ImageInv, ImageTypeOK, Own, Aboard, imageVars

LEMMA ImageInvariant == ImageSpec => []ImageInv
<1>1. ImageInv /\ [ImageNext]_imageVars => ImageInv'
  BY ImageInvStep, ImageInvStutter
<1> QED BY <1>1, ImageInvInit, PTL DEF ImageSpec

\* What the invariant says of the properties.
LEMMA ImageInvMeans == ImageInv => ImageTypeOK /\ AnswerIsRight /\ HangUpIsPrivate
BY DEF ImageInv, Own, AnswerIsRight, HangUpIsPrivate

-----------------------------------------------------------------------------
(***************************************************************************)
(* The promises. A client sees of a request that it was made, answered or  *)
(* refused; all that happens in between shows only in the copies kept.     *)
(***************************************************************************)

\* How far a request has got, as its client sees it.
Outcome(q) == IF q.pc \in {"idle", "done", "failed"} THEN q.pc ELSE "open"

Views == <<AskedFor, AnsweredWith, FailedOn>>

\* A step that no client sees, and in particular one of r.
LEMMA AllUnseen ==
  ASSUME \A v \in Requests : /\ Outcome(request'[v]) = Outcome(request[v])
                             /\ request'[v].image = request[v].image
                             /\ request[v].pc = "done" => request'[v].data = request[v].data
  PROVE  UNCHANGED Views
<1>1. \A v \in Requests : /\ request'[v].pc = "idle" <=> request[v].pc = "idle"
                          /\ request'[v].pc = "done" <=> request[v].pc = "done"
                          /\ request'[v].pc = "failed" <=> request[v].pc = "failed"
                          /\ request'[v].image = request[v].image
                          /\ request[v].pc = "done" => request'[v].data = request[v].data
  BY DEF Outcome
<1>2. AskedFor' = AskedFor
  BY <1>1 DEF AskedFor
<1>3. AnsweredWith' = AnsweredWith
  BY <1>1 DEF AnsweredWith
<1>4. FailedOn' = FailedOn
  BY <1>1 DEF FailedOn
<1> QED BY <1>2, <1>3, <1>4 DEF Views

LEMMA Unseen ==
  ASSUME NEW r \in Requests, \A v \in Requests \ {r} : request'[v] = request[v],
         Outcome(request'[r]) = Outcome(request[r]), request'[r].image = request[r].image,
         request[r].pc = "done" => request'[r].data = request[r].data
  PROVE  UNCHANGED Views
BY AllUnseen

\* What a request contributes to the views.
LEMMA Seen ==
  ASSUME NEW r \in Requests, NEW i
  PROVE  /\ <<r, i>> \in AskedFor <=> request[r].pc # "idle" /\ i = request[r].image
         /\ <<r, i>> \in AnsweredWith <=> request[r].pc = "done" /\ i = request[r].data
         /\ <<r, i>> \in FailedOn <=> request[r].pc = "failed" /\ i = request[r].image
BY DEF AskedFor, AnsweredWith, FailedOn

\* Copies are made of one rendition at a time.
LEMMA CopyOf ==
  ASSUME NEW i, \A p \in Procs : mem'[p] \subseteq mem[p] \cup {i},
         stored' \subseteq stored \cup {i}
  PROVE  Copies' \subseteq Copies \cup {i}
BY DEF Copies

LEMMA RememberOne ==
  ASSUME ImageTypeOK, NEW p \in Procs, NEW i, Remember(p, i) \/ UNCHANGED mem
  PROVE  \A o \in Procs : mem'[o] \subseteq mem[o] \cup {i}
BY DEF ImageTypeOK, Remember

\* What a step of r amounts to in which it keeps a copy of its rendition, or none.
LEMMA KeepsOwn ==
  ASSUME ImageInv, NEW r \in Requests, request[r].pc \notin {"idle", "failed"},
         UNCHANGED <<Views, refused>>, Copies' \subseteq Copies \cup {request[r].image}
  PROVE  Promise!PromiseNext
<1> DEFINE i == request[r].image
<1>1. i \in Sources \X Options
  BY DEF ImageInv, ImageTypeOK, Own, Request, Images
<1>2. <<r, i>> \in AskedFor \ FailedOn
  BY Seen
<1>3. Promise!Keep(r, i)
  BY <1>2 DEF Promise!Keep, Views
<1> QED BY <1>1, <1>3 DEF Promise!PromiseNext

\* Looking for the rendition, and joining those who make it, shows nothing.
LEMMA SearchUnseen ==
  ASSUME ImageInv, NEW r \in Requests, MemoryGet(r) \/ StorageGet(r) \/ Join(r) \/ Track(r)
  PROVE  UNCHANGED <<Views, refused, Copies>>
<1> DEFINE q == request[r]
<1>0. request \in [Requests -> Request] /\ q \in Request
  BY DEF ImageInv, ImageTypeOK
<1>1. q.pc \in {"memory", "storage", "fetch", "process", "track"}
      /\ UNCHANGED <<mem, stored, refused>>
  BY DEF MemoryGet, StorageGet, Join, Track
<1>2. PICK new : /\ request' = [request EXCEPT ![r] = new]
                 /\ new.image = q.image
                 /\ new.pc \in {"track", "storage", "fetch", "fetching", "processing",
                                "wait", "finish"}
  <2>s. ASSUME NEW pc \in {"fetch", "fetching", "processing", "finish"}, Step(r, pc)
        PROVE  \E new : /\ request' = [request EXCEPT ![r] = new]
                        /\ new.image = q.image /\ new.pc = pc
    <3> DEFINE new == [q EXCEPT !.pc = pc]
    <3>1. request' = [request EXCEPT ![r] = new]
      BY <1>0, <2>s DEF Step
    <3>2. new.image = q.image /\ new.pc = pc
      BY <1>0 DEF Request
    <3> QED BY <3>1, <3>2
  <2>h. ASSUME NEW then,
               request' = [request EXCEPT ![r] =
                 [q EXCEPT !.pc = "track", !.then = then, !.data = q.image]]
        PROVE  \E new : /\ request' = [request EXCEPT ![r] = new]
                        /\ new.image = q.image /\ new.pc = "track"
    <3> DEFINE new == [q EXCEPT !.pc = "track", !.then = then, !.data = q.image]
    <3>1. new.image = q.image /\ new.pc = "track"
      BY <1>0 DEF Request
    <3> QED BY <2>h, <3>1
  <2>1. CASE MemoryGet(r)
    <3>1. CASE q.image \in mem[q.proc]
      BY <2>1, <2>h, <3>1 DEF MemoryGet
    <3>2. CASE q.image \notin mem[q.proc]
      <4> DEFINE new == [q EXCEPT !.pc = "storage"]
      <4>1. request' = [request EXCEPT ![r] = new]
        BY <2>1, <3>2 DEF MemoryGet
      <4>2. new.image = q.image /\ new.pc = "storage"
        BY <1>0 DEF Request
      <4> QED BY <4>1, <4>2
    <3> QED BY <3>1, <3>2
  <2>2. CASE StorageGet(r)
    BY <2>2, <2>h, <2>s DEF StorageGet
  <2>3. CASE Join(r)
    <3>1. CASE Step(r, "fetching") \/ Step(r, "processing")
      BY <2>s, <3>1
    <3>2. CASE \E l \in Requests :
                 request' = [request EXCEPT ![r].pc = "wait", ![r].leader = l]
      <4>1. PICK l \in Requests :
                 request' = [request EXCEPT ![r].pc = "wait", ![r].leader = l]
        BY <3>2
      <4> DEFINE new == [q EXCEPT !.pc = "wait", !.leader = l]
      <4>2. request' = [request EXCEPT ![r] = new]
        BY <1>0, <4>1
      <4>3. new.image = q.image /\ new.pc = "wait"
        BY <1>0 DEF Request
      <4> QED BY <4>2, <4>3
    <3> QED BY <2>3, <3>1, <3>2 DEF Join
  <2>4. CASE Track(r)
    BY <2>4, <2>s DEF Track
  <2> QED BY <2>1, <2>2, <2>3, <2>4
<1>3. request'[r] = new /\ \A v \in Requests \ {r} : request'[v] = request[v]
  BY <1>0, <1>2
<1>4. UNCHANGED Views
  BY <1>1, <1>2, <1>3, Unseen DEF Outcome
<1> QED BY <1>1, <1>4 DEF Copies

\* Into the memory of the process, before the response or with it, and into the
\* bucket, after it.
LEMMA CopyPromised ==
  ASSUME ImageInv, NEW r \in Requests, CacheSet(r) \/ WriteBack(r)
  PROVE  Promise!PromiseNext
<1> DEFINE q == request[r]
<1>0. request \in [Requests -> Request] /\ q \in Request /\ Own(q) /\ ImageTypeOK
      /\ q.proc \in Procs
  BY DEF ImageInv, ImageTypeOK, Request
<1>1. CASE CacheSet(r)
  <2> DEFINE new == [q EXCEPT !.pc = "track", !.then = "writeBack"]
  <2>1. /\ q.pc = "cache" /\ Remember(q.proc, q.image) /\ UNCHANGED <<stored, refused>>
        /\ request' = [request EXCEPT ![r] = new]
    BY <1>0, <1>1 DEF CacheSet
  <2>2. new.pc = "track" /\ new.image = q.image
    BY <1>0 DEF Request
  <2> HIDE DEF new
  <2>3. request'[r] = new /\ \A v \in Requests \ {r} : request'[v] = request[v]
    BY <1>0, <2>1
  <2>4. UNCHANGED Views
    BY <2>1, <2>2, <2>3, Unseen DEF Outcome
  <2>5. Copies' \subseteq Copies \cup {q.image}
    BY <1>0, <2>1, RememberOne, CopyOf
  <2> QED BY <2>1, <2>4, <2>5, KeepsOwn
<1>2. CASE WriteBack(r)
  <2> DEFINE new == [q EXCEPT !.put = FALSE]
  <2>1. /\ q.put /\ UNCHANGED <<mem, refused>> /\ stored' \subseteq stored \cup {q.image}
        /\ request' = [request EXCEPT ![r] = new]
    BY <1>0, <1>2 DEF WriteBack
  <2>2. new.pc = q.pc /\ new.image = q.image /\ new.data = q.data
    BY <1>0 DEF Request
  <2> HIDE DEF new
  <2>3. request'[r] = new /\ \A v \in Requests \ {r} : request'[v] = request[v]
    BY <1>0, <2>1
  <2>4. q.pc = "done"
    BY <1>0, <2>1 DEF Own
  <2>5. UNCHANGED Views
    BY <2>2, <2>3, Unseen DEF Outcome
  <2>6. Copies' \subseteq Copies \cup {q.image}
    <3>1. \A p \in Procs : mem'[p] \subseteq mem[p] \cup {q.image}
      BY <2>1
    <3> QED BY <2>1, <3>1, CopyOf
  <2> QED BY <2>1, <2>4, <2>5, <2>6, KeepsOwn
<1> QED BY <1>1, <1>2

\* The response is the answer that was promised.
LEMMA FinishPromised ==
  ASSUME ImageInv, NEW r \in Requests, Finish(r)
  PROVE  Promise!PromiseNext
<1> DEFINE q == request[r]
           i == q.image
           new == [q EXCEPT !.pc = "done", !.put = (q.then = "writeBack")]
<1>0. request \in [Requests -> Request] /\ q \in Request /\ Own(q) /\ ImageTypeOK
      /\ q.proc \in Procs
  BY DEF ImageInv, ImageTypeOK, Request
<1>1. /\ q.pc = "finish" /\ UNCHANGED <<stored, refused>>
      /\ Remember(q.proc, i) \/ UNCHANGED mem
      /\ request' = [request EXCEPT ![r] = new]
  BY <1>0 DEF Finish
<1>2. new.pc = "done" /\ new.image = i /\ new.data = i
  BY <1>0, <1>1 DEF Own, Request
<1> HIDE DEF new
<1>3. request'[r] = new /\ \A v \in Requests \ {r} : request'[v] = request[v]
  BY <1>0, <1>1
<1>4. i \in Sources \X Options
  BY <1>0, <1>1 DEF Own, Request, Images
<1>5. <<r, i>> \in AskedFor \ (AnsweredWith \cup FailedOn)
  BY <1>1, Seen
<1>6. AskedFor' = AskedFor
  BY <1>1, <1>2, <1>3 DEF AskedFor
<1>7. FailedOn' = FailedOn
  BY <1>1, <1>2, <1>3 DEF FailedOn
<1>8. AnsweredWith' = AnsweredWith \cup {<<r, i>>}
  BY <1>1, <1>2, <1>3 DEF AnsweredWith
<1>9. Copies' \subseteq Copies \cup {i}
  BY <1>0, <1>1, RememberOne, CopyOf
<1>10. Promise!Answer(r, i)
  BY <1>1, <1>5, <1>6, <1>7, <1>8, <1>9 DEF Promise!Answer, Promise!Open
<1> QED BY <1>4, <1>10 DEF Promise!PromiseNext

\* A request is made.
LEMMA ArrivePromised ==
  ASSUME ImageInv, NEW r \in Requests, NEW i \in Images, Arrive(r, i)
  PROVE  Promise!PromiseNext
<1> DEFINE new == [request[r] EXCEPT !.pc = "memory", !.image = i]
<1>0. request \in [Requests -> Request] /\ request[r] \in Request
  BY DEF ImageInv, ImageTypeOK
<1>1. /\ request[r].pc = "idle" /\ UNCHANGED <<mem, stored, refused>>
      /\ request' = [request EXCEPT ![r] = new]
  BY <1>0 DEF Arrive
<1>2. new.pc = "memory" /\ new.image = i
  BY <1>0 DEF Request
<1> HIDE DEF new
<1>3. request'[r] = new /\ \A v \in Requests \ {r} : request'[v] = request[v]
  BY <1>0, <1>1
<1>4. \A a \in AskedFor : a[1] # r
  BY <1>1 DEF AskedFor
<1>5. AskedFor' = AskedFor \cup {<<r, i>>}
  BY <1>1, <1>2, <1>3 DEF AskedFor
<1>6. AnsweredWith' = AnsweredWith
  BY <1>1, <1>2, <1>3 DEF AnsweredWith
<1>7. FailedOn' = FailedOn
  BY <1>1, <1>2, <1>3 DEF FailedOn
<1>8. Copies' = Copies
  BY <1>1 DEF Copies
<1>9. Promise!Ask(r, i)
  BY <1>1, <1>4, <1>5, <1>6, <1>7, <1>8 DEF Promise!Ask
<1> QED BY <1>9 DEF Promise!PromiseNext, Images

\* A flight ends: nobody sees it, unless it fails, with the request that led it
\* and those that waited for it, all of which had asked for the same source.
LEMMA FlightPromised ==
  ASSUME ImageInv, NEW l \in Requests, Fetched(l) \/ Processed(l)
  PROVE  Promise!PromiseNext \/ UNCHANGED <<Views, refused, Copies>>
<1> DEFINE aboard == {v \in Requests :
                        v = l \/ (request[v].pc = "wait" /\ request[v].leader = l)}
           s == request[l].image[1]
<1>0. /\ request \in [Requests -> Request] /\ \A v \in Requests : request[v] \in Request
      /\ \A v \in Requests : Own(request[v]) /\ Aboard(v)
  BY DEF ImageInv, ImageTypeOK
<1>1. /\ request[l].pc \in {"fetching", "processing"} /\ UNCHANGED <<mem, stored>>
      /\ \/ (\E pc \in {"process", "cache"} : \E data : Land(l, pc, data)) /\ UNCHANGED refused
         \/ Land(l, "failed", NoImage) /\ refused' = refused \cup {s}
  BY DEF Fetched, Processed, Landed
<1>2. Copies' = Copies
  BY <1>1 DEF Copies
<1>3. \A v \in aboard : /\ request[v].pc \in {"fetching", "processing", "wait"}
                        /\ request[v].image[1] = s
  BY <1>0, <1>1 DEF Aboard
\* What a landing does to whom.
<1>4. ASSUME NEW pc, NEW data, Land(l, pc, data)
      PROVE  /\ \A v \in aboard : request'[v].pc = pc /\ request'[v].image = request[v].image
             /\ \A v \in Requests \ aboard : request'[v] = request[v]
  <2>1. ASSUME NEW v \in aboard
        PROVE  request'[v].pc = pc /\ request'[v].image = request[v].image
    <3> DEFINE new == [request[v] EXCEPT !.pc = pc, !.data = data]
    <3>1. request'[v] = new
      BY <1>4 DEF Land
    <3>2. new.pc = pc /\ new.image = request[v].image
      BY <1>0 DEF Request
    <3> QED BY <3>1, <3>2
  <2>2. ASSUME NEW v \in Requests \ aboard PROVE request'[v] = request[v]
    BY <1>4 DEF Land
  <2> QED BY <2>1, <2>2
<1>5. ASSUME NEW pc \in {"process", "cache"}, NEW data, Land(l, pc, data), UNCHANGED refused
      PROVE  UNCHANGED <<Views, refused, Copies>>
  <2>1. \A v \in aboard : request'[v].pc = pc /\ request'[v].image = request[v].image
    BY <1>4, <1>5
  <2>2. \A v \in Requests \ aboard : request'[v] = request[v]
    BY <1>4, <1>5
  <2> HIDE DEF aboard
  <2>3. ASSUME NEW v \in Requests
        PROVE  /\ Outcome(request'[v]) = Outcome(request[v])
               /\ request'[v].image = request[v].image
               /\ request[v].pc = "done" => request'[v].data = request[v].data
    <3>1. CASE v \in aboard
      BY <1>3, <2>1, <3>1 DEF Outcome
    <3>2. CASE v \notin aboard
      BY <2>2, <3>2
    <3> QED BY <3>1, <3>2
  <2> QED BY <1>2, <1>5, <2>3, AllUnseen
<1>6. CASE Land(l, "failed", NoImage) /\ refused' = refused \cup {s}
  <2> DEFINE some == {<<v, request[v].image>> : v \in aboard}
  <2>1. \A v \in aboard : request'[v].pc = "failed" /\ request'[v].image = request[v].image
    BY <1>4, <1>6
  <2>2. \A v \in Requests \ aboard : request'[v] = request[v]
    BY <1>4, <1>6
  <2>3. aboard \subseteq Requests /\ l \in aboard
    OBVIOUS
  <2> HIDE DEF aboard
  <2>4. \A v \in aboard : <<v, request[v].image>> \in AskedFor \ (AnsweredWith \cup FailedOn)
    BY <1>3, <2>3, Seen
  <2>5. some \subseteq {a \in Promise!Open : a[2][1] = s} /\ some # {}
    <3>1. ASSUME NEW a \in some PROVE a \in Promise!Open /\ a[2][1] = s
      <4>1. PICK v \in aboard : a = <<v, request[v].image>>
        OBVIOUS
      <4>2. a[2] = request[v].image /\ request[v].image[1] = s
        BY <1>3, <4>1
      <4>3. a \in Promise!Open
        BY <2>4, <4>1, Zenon DEF Promise!Open
      <4> QED BY <4>2, <4>3
    <3>2. <<l, request[l].image>> \in some
      BY <2>3
    <3> HIDE DEF some
    <3> QED BY <3>1, <3>2
  <2>6. AskedFor' = AskedFor
    BY <1>3, <2>1, <2>2, <2>3 DEF AskedFor
  <2>7. AnsweredWith' = AnsweredWith
    BY <1>3, <2>1, <2>2, <2>3 DEF AnsweredWith
  <2>8. FailedOn' = FailedOn \cup some
    BY <1>3, <2>1, <2>2, <2>3 DEF FailedOn
  <2>9. s \in Sources
    <3>1. request[l].image \in Images
      BY <1>0, <1>1 DEF Own, Request
    <3> QED BY <3>1, ImageParts
  <2>10. Promise!Fail(s)
    <3> HIDE DEF some
    <3> QED BY <1>2, <1>6, <2>5, <2>6, <2>7, <2>8 DEF Promise!Fail
  <2> QED BY <2>9, <2>10 DEF Promise!PromiseNext
<1> QED BY <1>1, <1>5, <1>6

\* Every step of the service is one of the promised, or not seen.
LEMMA PromiseStep ==
  ImageInv /\ [ImageNext]_imageVars => [Promise!PromiseNext]_(Promise!promises)
<1> SUFFICES ASSUME ImageInv, [ImageNext]_imageVars
             PROVE  Promise!PromiseNext \/ UNCHANGED <<Views, refused, Copies>>
  BY DEF Promise!promises, Views
<1>1. ASSUME NEW r \in Requests, Serve(r)
      PROVE  Promise!PromiseNext \/ UNCHANGED <<Views, refused, Copies>>
  BY <1>1, SearchUnseen, CopyPromised, FinishPromised, FlightPromised DEF Serve
<1>2. ASSUME NEW r \in Requests, NEW i \in Images, Arrive(r, i) PROVE Promise!PromiseNext
  BY <1>2, ArrivePromised
<1>3. ASSUME UNCHANGED <<request, mem, stored, refused>>
      PROVE  UNCHANGED <<Views, refused, Copies>>
  BY <1>3 DEF Views, AskedFor, AnsweredWith, FailedOn, Copies
<1>4. ASSUME NEW r \in Requests, HangUp(r) PROVE UNCHANGED <<Views, refused, Copies>>
  BY <1>3, <1>4 DEF HangUp
<1>5. CASE UNCHANGED imageVars
  BY <1>3, <1>5 DEF imageVars
<1> QED BY <1>1, <1>2, <1>4, <1>5 DEF ImageNext

LEMMA PromiseBegins == ImageInit => Promise!PromiseInit
BY DEF ImageInit, Promise!PromiseInit, AskedFor, AnsweredWith, FailedOn, Copies

-----------------------------------------------------------------------------

\* Type correctness of requests, caches and the index.
THEOREM ImageTypeCorrect == ImageSpec => []ImageTypeOK
BY ImageInvariant, ImageInvMeans, PTL

\* Whichever cache or flight an answer came from, it is the rendition that was
\* asked for (singleflight and the cache lookups of handler/image.go).
THEOREM AnswersAreRight == ImageSpec => []AnswerIsRight
BY ImageInvariant, ImageInvMeans, PTL

\* A request fails only for its source, whoever of those that share the work
\* hangs up.
THEOREM HangUpsArePrivate == ImageSpec => []HangUpIsPrivate
BY ImageInvariant, ImageInvMeans, PTL

\* The service keeps its promises (ImageContract): each client of handler/image.go
\* gets one answer, and it is right; a request fails only for its source; and no
\* copy is kept of what a failed request asked for.
THEOREM PromisesAreKept == ImageSpec => KeepsPromise
BY ImageInvariant, PromiseStep, PromiseBegins, PTL
   DEF ImageSpec, KeepsPromise, Promise!PromiseSpec
=============================================================================
