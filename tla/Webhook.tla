------------------------------- MODULE Webhook -------------------------------
(***************************************************************************)
(* The delivery of callbacks (internal/webhook/client.go): completeJob and *)
(* failJob start one goroutine per outcome, which posts it until the other *)
(* side accepts it, and then notes in the jobs row how that went. Nothing  *)
(* orders the goroutines of one job, and nothing resumes one that is lost. *)
(***************************************************************************)
EXTENDS Naturals

CONSTANTS
  Workers,   \* handler goroutines; each announces at most one outcome
  Jobs,
  NoJob,
  NoWorker,
  Posts      \* maxRetries: how often a callback is posted at most

ASSUME PostsAssumption == Posts \in Nat \ {0}
ASSUME NobodyAssumption == NoJob \notin Jobs /\ NoWorker \notin Workers

VARIABLES
  call,      \* call[w]: the delivery of w's outcome
  callback,  \* callback[j]: callback_status of job j
  accepted,  \* deliveries the other side has accepted a post of
  unheard,   \* history: deliveries the answer to an accepted post of which was lost
  newest,    \* history: newest[j] is the last delivery started for j
  overlapped,\* history: deliveries started while another one of the job was under way
  unmarked   \* history: deliveries whose end was not noted

webhookVars == <<call, callback, accepted, unheard, newest, overlapped, unmarked>>

Verdicts == {"sent", "callback_failed"}

Call == [pc : {"none", "post", "backoff", "mark", "over"}, job : Jobs \cup {NoJob},
         posts : 0 .. Posts, verdict : Verdicts]

NoCall == [pc |-> "none", job |-> NoJob, posts |-> 0, verdict |-> "callback_failed"]

WebhookInit ==
  /\ call = [w \in Workers |-> NoCall]
  /\ callback = [j \in Jobs |-> "pending"]
  /\ accepted = {} /\ unheard = {} /\ overlapped = {} /\ unmarked = {}
  /\ newest = [j \in Jobs |-> NoWorker]

UnderWay(w) == call[w].pc \notin {"none", "over"}

\* go Webhook.Deliver, for a job with a callback URL.
Announce(w, j) ==
  /\ call[w].pc = "none"
  /\ call' = [call EXCEPT ![w] = [NoCall EXCEPT !.pc = "post", !.job = j]]
  /\ newest' = [newest EXCEPT ![j] = w]
  /\ overlapped' = IF \E v \in Workers : UnderWay(v) /\ call[v].job = j
                     THEN overlapped \cup {w} ELSE overlapped
  /\ UNCHANGED <<callback, accepted, unheard, unmarked>>

\* Mutant of Post: any answer will do.
PostUnchecked(w) ==
  /\ call[w].pc = "post"
  /\ accepted' \in {accepted, accepted \cup {w}}
  /\ call' = [call EXCEPT ![w].pc = "mark", ![w].verdict = "sent"]
  /\ UNCHANGED <<callback, unheard, newest, overlapped, unmarked>>

\* Mutant of Post: there is always another attempt.
PostEndless(w) ==
  /\ call[w].pc = "post"
  /\ \/ /\ accepted' = accepted \cup {w}
        /\ call' = [call EXCEPT ![w].pc = "mark", ![w].verdict = "sent",
                                ![w].posts = call[w].posts + 1]
     \/ /\ call' = [call EXCEPT ![w].pc = "backoff", ![w].posts = call[w].posts + 1]
        /\ UNCHANGED accepted
  /\ UNCHANGED <<callback, unheard, newest, overlapped, unmarked>>

\* send: a 2xx answer is a success, anything else a failure. When no answer
\* comes (timeout, reset), the other side may have accepted the post all the same.
Post(w) ==
  /\ call[w].pc = "post"
  /\ \/ /\ accepted' = accepted \cup {w}
        /\ call' = [call EXCEPT ![w].pc = "mark", ![w].verdict = "sent",
                                ![w].posts = call[w].posts + 1]
        /\ UNCHANGED unheard
     \/ /\ call' = [call EXCEPT ![w].pc = IF call[w].posts + 1 < Posts THEN "backoff" ELSE "mark",
                                ![w].posts = call[w].posts + 1]
        /\ \/ UNCHANGED <<accepted, unheard>>
           \/ accepted' = accepted \cup {w} /\ unheard' = unheard \cup {w}
  /\ UNCHANGED <<callback, newest, overlapped, unmarked>>

\* The pause ends, or the five minutes for the whole delivery are over.
Backoff(w) ==
  /\ call[w].pc = "backoff"
  /\ \E pc \in {"post", "mark"} : call' = [call EXCEPT ![w].pc = pc]
  /\ UNCHANGED <<callback, accepted, unheard, newest, overlapped, unmarked>>

\* Mutant of Mark: the status of a failure is kept.
MarkSentOnly(w) ==
  /\ call[w].pc = "mark"
  /\ callback' = IF call[w].verdict = "sent"
                   THEN [callback EXCEPT ![call[w].job] = "sent"] ELSE callback
  /\ call' = [call EXCEPT ![w].pc = "over"]
  /\ UNCHANGED <<accepted, unheard, newest, overlapped, unmarked>>

\* markStatus: an error is only logged.
Mark(w) ==
  /\ call[w].pc = "mark"
  /\ \/ /\ callback' = [callback EXCEPT ![call[w].job] = call[w].verdict]
        /\ UNCHANGED unmarked
     \/ UNCHANGED callback /\ unmarked' = unmarked \cup {w}
  /\ call' = [call EXCEPT ![w].pc = "over"]
  /\ UNCHANGED <<accepted, unheard, newest, overlapped>>

\* The worker process exits: it does not wait for its deliveries.
Lose(w) ==
  /\ UnderWay(w)
  /\ call' = [call EXCEPT ![w].pc = "over"]
  /\ unmarked' = unmarked \cup {w}
  /\ UNCHANGED <<callback, accepted, unheard, newest, overlapped>>

Delivery(w) == Post(w) \/ Backoff(w) \/ Mark(w)
-----------------------------------------------------------------------------

\* Every variable keeps its type.
WebhookTypeOK ==
  /\ call \in [Workers -> Call]
  /\ callback \in [Jobs -> Verdicts \cup {"pending"}]
  /\ newest \in [Jobs -> Workers \cup {NoWorker}]
  /\ \A s \in {accepted, unheard, overlapped, unmarked} : s \subseteq Workers

\* callback_status speaks of the outcome announced last: it says "sent" only if
\* the other side accepted that one, and "callback_failed" only if it did not,
\* or if the answer was lost. A job is announced again for every delivery of
\* its task; only a newest callback that was started while an earlier one was
\* still under way, or whose end could not be noted, can be misrepresented.
StatusIsOfNewest ==
  \A j \in Jobs :
    LET w == newest[j] IN
    w # NoWorker /\ call[w].pc = "over" /\ w \notin overlapped \cup unmarked =>
      \/ callback[j] = "sent" /\ w \in accepted
      \/ callback[j] = "callback_failed" /\ (w \in accepted => w \in unheard)

\* Whatever happened, "sent" is never said of a job no callback of which was accepted.
SentIsAccepted ==
  \A j \in Jobs : callback[j] = "sent" => \E w \in accepted : call[w].job = j
=============================================================================
