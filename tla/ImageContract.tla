---------------------------- MODULE ImageContract ----------------------------
(***************************************************************************)
(* What a client of GET /img may rely on, whatever caches, flights and     *)
(* processes stand between the URL and the rendition, and whoever hangs up *)
(* or cleans up: one answer, with the rendition that was asked for; no     *)
(* failure but for the source; and nothing kept from a request that failed.*)
(***************************************************************************)
CONSTANTS Clients, Sources, Options

VARIABLES
  asked,     \* pairs of a client and the rendition it asked for
  answered,  \* pairs of a client and the rendition it got
  failed,    \* pairs of a client and the rendition it will not get
  bad,       \* sources found to be at fault
  kept       \* renditions of which some copy is kept

promises == <<asked, answered, failed, bad, kept>>

Open == asked \ (answered \cup failed)

PromiseInit ==
  /\ asked = {} /\ answered = {} /\ failed = {}
  /\ bad = {} /\ kept = {}

\* A client asks for one rendition, once.
Ask(c, i) ==
  /\ \A a \in asked : a[1] # c
  /\ asked' = asked \cup {<<c, i>>}
  /\ UNCHANGED <<answered, failed, bad, kept>>

\* It gets what it has asked for; a copy may be kept, others may be forgotten.
Answer(c, i) ==
  /\ <<c, i>> \in Open
  /\ answered' = answered \cup {<<c, i>>}
  /\ kept' \subseteq kept \cup {i}
  /\ UNCHANGED <<asked, failed, bad>>

\* A source is found to be at fault, while somebody asks for a rendition of it.
\* Only those who do are affected; the others who do may yet be lucky.
Fail(s) ==
  /\ \E some \in SUBSET {a \in Open : a[2][1] = s} :
       some # {} /\ failed' = failed \cup some
  /\ bad' = bad \cup {s}
  /\ UNCHANGED <<asked, answered, kept>>

\* A copy is kept of what a client asked for who was not refused.
Keep(c, i) ==
  /\ <<c, i>> \in asked \ failed
  /\ kept' \subseteq kept \cup {i}
  /\ UNCHANGED <<asked, answered, failed, bad>>

\* Copies are pushed out, or cleaned up.
Forget ==
  /\ kept' \subseteq kept
  /\ UNCHANGED <<asked, answered, failed, bad>>

PromiseNext ==
  \/ \E c \in Clients, i \in Sources \X Options : Ask(c, i) \/ Answer(c, i) \/ Keep(c, i)
  \/ \E s \in Sources : Fail(s)
  \/ Forget

PromiseSpec == PromiseInit /\ [][PromiseNext]_promises
=============================================================================
