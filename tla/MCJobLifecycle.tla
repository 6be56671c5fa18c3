--------------------------- MODULE MCJobLifecycle ---------------------------
(* Instances of JobLifecycle for TLC. *)
EXTENDS JobLifecycle, TLC

CONSTANTS c1, c2, full, cover, transcode

\* A video:full job can ask for itself (its source could not be read) or for
\* the parts that are missing; any other job can only be retried as it is.
MCPlans ==
  [f \in Fps |-> IF f = full
                   THEN {<<full>>} \cup {p \in {<<cover, transcode>>, <<transcode>>} :
                           \A i \in 1 .. Len(p) : p[i] \in Fps}
                   ELSE {<<f>>}]

\* Files at or above the large threshold get fewer retries.
MCMaxRetry == [f \in Fps |-> IF f = full THEN 1 ELSE 0]

MCNoRetry == [f \in Fps |-> 0]

MCUniformRetry == [f \in Fps |-> 1]

MCSymmetry == Permutations(Ids) \cup Permutations(Clients) \cup Permutations(Slots)
=============================================================================
