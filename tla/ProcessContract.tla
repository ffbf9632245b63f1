--------------------------- MODULE ProcessContract ---------------------------
(***************************************************************************)
(* What a stager process promises those who meet it: the clients consul    *)
(* leads to it, the requests it has begun, and whoever reads its exit      *)
(* status.                                                                 *)
(***************************************************************************)
CONSTANT Conns   \* connections, on each of which one request may be under way

VARIABLES
  life,        \* see Lives
  advertised,  \* consul leads clients to it
  busy,        \* connections with a request under way
  failure      \* a part of it has returned an error

contractVars == <<life, advertised, busy, failure>>

Ended == {"exit 0", "exit 1", "dead"}

\* "broken": clients cannot connect any more, although nobody closed the
\* listener.  "closed": no listener.  "drained": no request, either.
Lives == {"starting", "serving", "broken", "closed", "drained"} \cup Ended

Init ==
  /\ life = "starting"
  /\ advertised = FALSE
  /\ busy = {}
  /\ failure = FALSE

Open ==
  /\ life = "starting"
  /\ life' = "serving"
  /\ UNCHANGED <<advertised, busy, failure>>

Break ==
  /\ life = "serving"
  /\ life' = "broken"
  /\ UNCHANGED <<advertised, busy, failure>>

\* Nobody is led to a process that does not serve, unless something failed.
Advertise ==
  /\ life \in {"serving", "broken"} \/ (life = "closed" /\ failure)
  /\ advertised' = TRUE
  /\ UNCHANGED <<life, busy, failure>>

Withdraw ==
  /\ advertised' = FALSE
  /\ UNCHANGED <<life, busy, failure>>

\* A request may still begin on a connection that was made before.
Begin(c) ==
  /\ life \in {"serving", "broken", "closed"}
  /\ busy' = busy \cup {c}
  /\ UNCHANGED <<life, advertised, failure>>

Finish(c) ==
  /\ life \notin Ended
  /\ busy' = busy \ {c}
  /\ UNCHANGED <<life, advertised, failure>>

\* The listener is closed when nobody is led to it any more.
Close ==
  /\ life \in {"serving", "broken"}
  /\ advertised => life = "broken" \/ failure
  /\ life' = "closed"
  /\ UNCHANGED <<advertised, busy, failure>>

\* Requests are waited for, and none begins after.
Drain ==
  /\ life = "closed"
  /\ busy = {}
  /\ life' = "drained"
  /\ UNCHANGED <<advertised, busy, failure>>

\* The server fails before it listens or when its listener does; the
\* registration, when it cannot be withdrawn, although it may be.
Fail ==
  /\ failure' = TRUE
  /\ life \in {"starting", "serving", "broken"}
  /\ life' \in {life} \cup {l \in {"closed"} : life \in {"starting", "broken"}}
  /\ advertised' \in {advertised, FALSE}
  /\ UNCHANGED busy

ExitWell ==
  /\ life = "drained"
  /\ ~failure
  /\ life' = "exit 0"
  /\ UNCHANGED <<advertised, busy, failure>>

ExitFailed ==
  /\ life \in {"closed", "drained"}
  /\ failure
  /\ life' = "exit 1"
  /\ UNCHANGED <<advertised, busy, failure>>

\* A panic, or a signal nobody handles; never while clients are served.
Die ==
  /\ life \in {"starting", "closed", "drained"}
  /\ life' = "dead"
  /\ UNCHANGED <<advertised, busy, failure>>

Next ==
  \/ Open \/ Break \/ Close \/ Drain
  \/ Advertise \/ Withdraw
  \/ \E c \in Conns : Begin(c) \/ Finish(c)
  \/ Fail \/ ExitWell \/ ExitFailed \/ Die

Spec == Init /\ [][Next]_contractVars

=============================================================================
