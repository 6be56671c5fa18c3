---------------------------- MODULE ImageService ----------------------------
(***************************************************************************)
(* GET /img: several API processes serve renditions of source images       *)
(* (internal/handler/image.go). A rendition is looked up in the memory of  *)
(* the process, then in the media bucket; otherwise it is made, by one     *)
(* request for all that want the same thing (golang.org/x/sync/            *)
(* singleflight), kept in memory, entered in the table image_cache_entries *)
(* and written to the bucket by a goroutine the response does not wait for.*)
(***************************************************************************)
EXTENDS Naturals, FiniteSets

CONSTANTS
  Requests,   \* the requests that will be made, one each
  Procs,      \* API processes: each has a memory cache and flights of its own
  Sources,    \* source objects
  Hashed,     \* the sources whose path has a content hash: only they are tracked
  Options,    \* processing options, with the format
  NoImage

\* A rendition; its cache key is a hash over both parts.
Images == Sources \X Options

ASSUME HashedAssumption == Hashed \subseteq Sources
ASSUME NoImageAssumption == NoImage \notin Images

VARIABLES
  request,   \* request[r]: what has become of request r
  mem,       \* mem[p]: renditions in the memory cache of process p
  stored,    \* renditions in the media bucket, under cache/
  index,     \* rows of image_cache_entries
  hungup,    \* requests whose client is gone: their context is done
  untracked, \* history: renditions whose last tracking failed
  refused    \* history: sources that once could not be read or processed

imageVars == <<request, mem, stored, index, hungup, untracked, refused>>

Request == [pc : {"idle", "memory", "storage", "fetch", "fetching", "process",
                  "processing", "wait", "cache", "track", "finish", "done", "failed"},
            proc : Procs, image : Images \cup {NoImage}, data : Images \cup {NoImage},
            leader : Requests,                     \* the flight it waits for
            then : {"send", "fill", "writeBack"},  \* what follows the tracking
            put : BOOLEAN]                         \* its write-back is under way

ImageInit ==
  /\ request \in [Requests -> {q \in Request :
       /\ q.pc = "idle" /\ q.image = NoImage /\ q.data = NoImage
       /\ q.then = "send" /\ ~q.put}]
  /\ \A r \in Requests : request[r].leader = r
  /\ mem = [p \in Procs |-> {}]
  /\ stored = {} /\ index = {} /\ hungup = {} /\ untracked = {} /\ refused = {}

Step(r, pc) == request' = [request EXCEPT ![r].pc = pc]

\* A valid, signed URL arrives at process p.
Arrive(r, i) ==
  /\ request[r].pc = "idle"
  /\ request' = [request EXCEPT ![r].pc = "memory", ![r].image = i]
  /\ UNCHANGED <<mem, stored, index, hungup, untracked, refused>>

\* The client goes away; the handler goes on with a context that is done.
HangUp(r) ==
  /\ request[r].pc \notin {"idle", "done", "failed"}
  /\ hungup' = hungup \cup {r}
  /\ UNCHANGED <<request, mem, stored, index, untracked, refused>>

MemoryGet(r) ==
  LET q == request[r] IN
  /\ q.pc = "memory"
  /\ request' = [request EXCEPT ![r] =
       IF q.image \in mem[q.proc]
         THEN [q EXCEPT !.pc = "track", !.then = "send", !.data = q.image]
         ELSE [q EXCEPT !.pc = "storage"]]
  /\ UNCHANGED <<mem, stored, index, hungup, untracked, refused>>

\* Whatever keeps the object from being read counts as a miss.
StorageGet(r) ==
  LET q == request[r] IN
  /\ q.pc = "storage"
  /\ \/ /\ q.image \in stored /\ r \notin hungup
        /\ request' = [request EXCEPT ![r] =
             [q EXCEPT !.pc = "track", !.then = "fill", !.data = q.image]]
     \/ Step(r, "fetch")
  /\ UNCHANGED <<mem, stored, index, hungup, untracked, refused>>

\* Mutant of SameFlight: the flights of processing are told apart by options only.
SameOptions(r, l) == request[l].image[2] = request[r].image[2]

\* The key of a flight: the source to fetch it, the rendition to process it.
SameFlight(r, l) ==
  IF request[r].pc = "fetch" THEN request[l].image[1] = request[r].image[1]
                             ELSE request[l].image = request[r].image

\* singleflight.Do: wait for the request that is at it, or be that one.
Join(r) ==
  LET flying == IF request[r].pc = "fetch" THEN "fetching" ELSE "processing"
      leaders == {l \in Requests : /\ request[l].pc = flying
                                   /\ request[l].proc = request[r].proc
                                   /\ SameFlight(r, l)}
  IN
  /\ request[r].pc \in {"fetch", "process"}
  /\ IF leaders = {} THEN Step(r, flying)
     ELSE \E l \in leaders :
            request' = [request EXCEPT ![r].pc = "wait", ![r].leader = l]
  /\ UNCHANGED <<mem, stored, index, hungup, untracked, refused>>

\* The flight of leader l is over: everyone aboard goes on at pc with data (of
\* the bytes of a source, only the source counts).
Land(l, pc, data) ==
  request' = [r \in Requests |->
    IF r = l \/ (request[r].pc = "wait" /\ request[r].leader = l)
      THEN [request[r] EXCEPT !.pc = pc, !.data = data] ELSE request[r]]

\* Mutant of Landed: the work is done with the request's own context.
LandedWithRequest(l, pc, data) ==
  \/ l \notin hungup /\ Land(l, pc, data) /\ UNCHANGED refused
  \/ l \in hungup /\ Land(l, "failed", NoImage) /\ UNCHANGED refused
  \/ /\ Land(l, "failed", NoImage)
     /\ refused' = refused \cup {request[l].image[1]}

\* Mutant of Landed: nobody looks at the error of the processing.
LandedUnchecked(l, pc, data) ==
  \/ Land(l, pc, data) /\ UNCHANGED refused
  \/ /\ IF pc = "cache" THEN Land(l, pc, NoImage) ELSE Land(l, "failed", NoImage)
     /\ refused' = refused \cup {request[l].image[1]}

\* It succeeds, or the storage or the source is at fault: the leader's client
\* may be gone, for neither the fetch nor the processing is bound to it.
Landed(l, pc, data) ==
  \/ Land(l, pc, data) /\ UNCHANGED refused
  \/ /\ Land(l, "failed", NoImage)
     /\ refused' = refused \cup {request[l].image[1]}

Fetched(l) ==
  /\ request[l].pc = "fetching"
  /\ Landed(l, "process", request[l].image)
  /\ UNCHANGED <<mem, stored, index, hungup, untracked>>

Processed(l) ==
  /\ request[l].pc = "processing"
  /\ Landed(l, "cache", <<request[l].data[1], request[l].image[2]>>)
  /\ UNCHANGED <<mem, stored, index, hungup, untracked>>

\* The memory cache is bounded: Set may push others out, and it refuses what is
\* larger than the cache (see LRUCache).
Remember(p, i) ==
  \/ \E kept \in SUBSET (mem[p] \ {i}) : mem' = [mem EXCEPT ![p] = kept \cup {i}]
  \/ UNCHANGED mem

CacheSet(r) ==
  LET q == request[r] IN
  /\ q.pc = "cache"
  /\ Remember(q.proc, q.image)
  /\ request' = [request EXCEPT ![r].pc = "track", ![r].then = "writeBack"]
  /\ UNCHANGED <<stored, index, hungup, untracked, refused>>

\* Mutant of Track: sources without a content hash are tracked, too.
TrackAll(r) ==
  /\ request[r].pc = "track"
  /\ index' = index \cup {request[r].image}
  /\ Step(r, "finish")
  /\ UNCHANGED <<mem, stored, hungup, untracked, refused>>

\* trackCacheEntry: with the context of the request; an error is only logged.
Track(r) ==
  LET q == request[r]
      tracked == q.image[1] \in Hashed
  IN
  /\ q.pc = "track"
  /\ \/ /\ tracked /\ r \notin hungup
        /\ index' = index \cup {q.image} /\ untracked' = untracked \ {q.image}
     \/ tracked /\ untracked' = untracked \cup {q.image} /\ UNCHANGED index
     \/ ~tracked /\ UNCHANGED <<index, untracked>>
  /\ Step(r, "finish")
  /\ UNCHANGED <<mem, stored, hungup, refused>>

\* What is left of a hit, or of a rendition just made, and the response.
Finish(r) ==
  LET q == request[r] IN
  /\ q.pc = "finish"
  /\ IF q.then = "fill" THEN Remember(q.proc, q.image) ELSE UNCHANGED mem
  /\ request' = [request EXCEPT ![r].pc = "done", ![r].put = (q.then = "writeBack")]
  /\ UNCHANGED <<stored, index, hungup, untracked, refused>>

\* The goroutine's Put ends, carried out or not.
WriteBack(r) ==
  /\ request[r].put
  /\ request' = [request EXCEPT ![r].put = FALSE]
  /\ stored' \in {stored, stored \cup {request[r].image}}
  /\ UNCHANGED <<mem, index, hungup, untracked, refused>>

Serve(r) == MemoryGet(r) \/ StorageGet(r) \/ Join(r) \/ Fetched(r) \/ Processed(r)
            \/ CacheSet(r) \/ Track(r) \/ Finish(r) \/ WriteBack(r)

ImageNext == \E r \in Requests : Serve(r) \/ HangUp(r) \/ \E i \in Images : Arrive(r, i)

ImageSpec == ImageInit /\ [][ImageNext]_imageVars
-----------------------------------------------------------------------------

\* Every variable keeps its type.
ImageTypeOK ==
  /\ request \in [Requests -> Request]
  /\ mem \in [Procs -> SUBSET Images]
  /\ stored \subseteq Images
  /\ index \subseteq Hashed \X Options
  /\ hungup \subseteq Requests
  /\ untracked \subseteq Images
  /\ refused \subseteq Sources

\* Whichever cache or flight of another request it came from, an answer is the
\* rendition that was asked for.
AnswerIsRight ==
  \A r \in Requests : request[r].pc = "done" => request[r].data = request[r].image

\* Requests that share the work do not share each other's fate: one fails only
\* if its source could not be read or processed, not because the client of the
\* request that did the work went away.
HangUpIsPrivate ==
  \A r \in Requests : request[r].pc = "failed" => request[r].image[1] \in refused

\* With all that, the service keeps its promises to each client: one answer, and
\* it is right; no failure without a fault of the source, which every request
\* that fails had asked for; nothing is kept from requests that failed.
AskedFor == {<<r, request[r].image>> : r \in {q \in Requests : request[q].pc # "idle"}}
AnsweredWith == {<<r, request[r].data>> : r \in {q \in Requests : request[q].pc = "done"}}
FailedOn == {<<r, request[r].image>> : r \in {q \in Requests : request[q].pc = "failed"}}
Copies == stored \cup UNION {mem[p] : p \in Procs}

Promise == INSTANCE ImageContract WITH
  Clients <- Requests, asked <- AskedFor, answered <- AnsweredWith, failed <- FailedOn,
  bad <- refused, kept <- Copies
KeepsPromise == Promise!PromiseSpec
=============================================================================
