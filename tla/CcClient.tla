------------------------------ MODULE CcClient ------------------------------
(***************************************************************************)
(* The Cloud Controller client the stager reports completions with         *)
(* (cc_client.go).  Cloud Controller itself is external: what matters of   *)
(* it is which completions it has processed.                               *)
(***************************************************************************)
EXTENDS StagingTypes

VARIABLE told   \* completions Cloud Controller has processed

\* "result": a buildpack result sent by the staging script; "image" and
\* "noImage": the made-up result of a docker app, with the docker image url
\* of the request or with an empty one.
Payloads == {"result", "image", "noImage"}

Completions(senders) ==
  [guid : Guids, payload : Payloads, sender : senders]

CcErrors == {"nil", "badResponse", "unavailable"}

CcInit == told = {}

\* POST to /internal/staging/<guid>/completed.  The http.Client gives up
\* after five seconds: an "unavailable" completion may have been processed
\* all the same.  Any status but 200 is a BadResponseError, and says no more
\* about what became of it.
StagingComplete(guid, payload, sender, err) ==
  LET delivered ==
        told \cup {[guid |-> guid, payload |-> payload, sender |-> sender]}
  IN \/ err = "nil" /\ told' = delivered
     \/ /\ \/ "refuse" \in Faults /\ err = "badResponse"
           \/ "cc" \in Faults /\ err = "unavailable"
        /\ told' \in {told, delivered}

=============================================================================
