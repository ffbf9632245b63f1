---------------------------- MODULE MCStagerHttp ----------------------------
(***************************************************************************)
(* StagerHttp with requests that differ from a proper one in one way.      *)
(***************************************************************************)
EXTENDS StagerHttp, TLC

CONSTANTS g1, g2, n1, n2, t1, t2

MCThreads == {t1, t2}
Symmetry == Permutations(Threads)
MCShortenedGuid == g1 :> n1 @@ g2 :> n2

Value(v) == [kind |-> "value", value |-> v]
StageBody(lifecycle, data) == Value([lifecycle |-> lifecycle, data |-> data])
CompleteBody(task) == Value([task |-> task, space |-> "red"])

Sent(method, path, type, body) ==
  [method |-> method, base |-> TRUE, path |-> path, guid |-> g1,
   type |-> type, body |-> body]

NoBodies == [kind : {"none", "empty", "malformed"}]
Types == {"json", "other", "unparsable"}

StageBodiesSent ==
  {StageBody("buildpack", d) : d \in {"ok", "null"}}
  \cup {StageBody(l, "null") : l \in {"docker", "unknown"}}

Proper ==
  {Sent("PUT", "staging", "json", b) : b \in StageBodiesSent}
  \cup {Sent("POST", "completed", "json", CompleteBody(g)) : g \in {g1, g2}}
  \cup {Sent("DELETE", "staging", "other", [kind |-> "none"])}

MCHttpRequests ==
  Proper
  \cup {Sent("PUT", "staging", "json", b) : b \in NoBodies}
  \cup {Sent("POST", "completed", "json", b) : b \in NoBodies}
  \cup {Sent("PUT", "staging", t, StageBody("buildpack", "ok")) : t \in Types}
  \cup {Sent("POST", "completed", t, CompleteBody(g1)) : t \in Types}
  \cup {Sent("DELETE", "staging", t, b) : t \in Types,
          b \in NoBodies \cup {StageBody("docker", "ok")}}
  \cup {Sent(m, p, "json", [kind |-> "none"]) : m \in {"GET", "POST", "DELETE"},
          p \in {"staging", "completed", "other"}}
  \cup {[h EXCEPT !.base = FALSE] : h \in Proper}

MCRequests ==
  [op : {"stage"}, guid : {g1}, lifecycle : Lifecycles \cup {"unknown"},
   data : {"ok", "null"}]
  \cup [op : {"complete"}, guid : {g1}, task : {g1, g2}, space : {"red"}]
  \cup [op : {"stop"}, guid : {g1}]

=============================================================================
