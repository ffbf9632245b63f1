--------------------------- MODULE StagerHttpProofs ---------------------------
(***************************************************************************)
(* StagerHttp implements StagerApi: what is proved of the handlers holds   *)
(* of the server behind HTTP.  A handler sees what was sent, and a request *)
(* that is turned away leaves no trace.                                    *)
(***************************************************************************)
EXTENDS StagerHttp, StagerAnswersProofs, StagingContractProofs

\* A thread no handler ran on.
Untouched(th) ==
  /\ pc[th] = "idle"
  /\ reply[th] = NoReply
  /\ docker[th] = "none"
  /\ \A d \in told : d.sender # th

RefusalInv ==
  /\ DOMAIN refused = Threads
  /\ http \in [Threads -> HttpRequests \cup {NoHttp}]
  /\ \A th \in Threads :
       /\ http[th] = NoHttp => refused[th] = NoReply /\ Untouched(th)
       /\ refused[th] # NoReply => Untouched(th) /\ ~Conforms(http[th])
       /\ pc[th] # "idle" => Seen(http[th], req[th])

-----------------------------------------------------------------------------
(***************************************************************************)
(* Routing and binding.                                                    *)
(***************************************************************************)

\* The fields of a request.
LEMMA HttpFields ==
  ASSUME NEW h \in HttpRequests
  PROVE  /\ h # NoHttp
         /\ h.method \in {"PUT", "POST", "DELETE", "GET"}
         /\ h.type \in {"json", "other", "unparsable"}
         /\ h.body.kind \in {"none", "empty", "malformed", "value"}
  BY HttpApiAssumption DEF AllHttpRequests, Bodies, NoHttp

\* Where a request is routed to (initHandlerCache).
LEMMA RoutedTo ==
  ASSUME NEW h \in HttpRequests
  PROVE  /\ Routed(h) <=>
              /\ h.base
              /\ \/ h.method = "PUT" /\ h.path = "staging"
                 \/ h.method = "POST" /\ h.path = "completed"
                 \/ h.method = "DELETE" /\ h.path = "staging"
         /\ Routed(h) =>
              /\ h.method = "PUT" => initHandlerCache[<<h.method, h.path>>] = "stage"
              /\ h.method = "POST" => initHandlerCache[<<h.method, h.path>>] = "complete"
              /\ h.method = "DELETE" => initHandlerCache[<<h.method, h.path>>] = "stop"
<1>1. DOMAIN initHandlerCache =
        {<<"PUT", "staging">>, <<"POST", "completed">>, <<"DELETE", "staging">>}
  BY DEF initHandlerCache, HandlerKeys
<1>2. \A d \in Described : HandlerFor(d.method, d.path)
  BY <1>1 DEF Described, HandlerFor
<1>3. Routes = {<<d.method, d.path>> : d \in Described}
  BY <1>2 DEF Routes
<1>4. <<h.method, h.path>> \in Routes <=>
        \/ h.method = "PUT" /\ h.path = "staging"
        \/ h.method = "POST" /\ h.path = "completed"
        \/ h.method = "DELETE" /\ h.path = "staging"
  BY <1>3 DEF Described
<1> QED BY <1>4 DEF Routed, initHandlerCache, HandlerKeys

\* What is bound: a body that was sent as JSON, when there is to be one.
LEMMA BoundWithBody ==
  ASSUME NEW h \in HttpRequests
  PROVE  /\ BindValidRequest(h, BindStageParams(h)) = NoErrors <=>
              h.type = "json" /\ h.body.kind = "value"
         /\ BindValidRequest(h, BindStagingCompleteParams(h)) = NoErrors <=>
              h.type = "json" /\ h.body.kind = "value"
         /\ BindValidRequest(h, BindStopStagingParams(h)) = NoErrors <=>
              (HasBody(h) => h.type = "json")
<1> USE HttpFields DEF BindValidRequest, HasBody, ConsumersFor
<1>1. NoErrors # <<400>> /\ NoErrors # <<415>> /\ NoErrors # <<422>>
  BY DEF NoErrors
<1>2. BindStageParams(h) = NoErrors <=> h.body.kind = "value"
  BY <1>1 DEF BindStageParams, BodyErrors, ValidateStagingRequest
<1>3. BindStagingCompleteParams(h) = NoErrors <=> h.body.kind = "value"
  BY <1>1
  DEF BindStagingCompleteParams, BodyErrors, ValidateTaskCallbackResponse
<1>4. BindStopStagingParams(h) = NoErrors
  BY DEF BindStopStagingParams
<1> QED BY <1>1, <1>2, <1>3, <1>4

-----------------------------------------------------------------------------
(***************************************************************************)
(* What Serve does.                                                        *)
(***************************************************************************)

\* A request is turned away for a reason, or its handler is called with what
\* was sent.
LEMMA Served ==
  ASSUME NEW th \in Threads, NEW h \in HttpRequests, Serve(th, h)
  PROVE  /\ http[th] = NoHttp /\ http' = [http EXCEPT ![th] = h]
         /\ \/ /\ ~Conforms(h)
               /\ \E code : Refuse(th, code)
            \/ /\ Conforms(h)
               /\ UNCHANGED refused
               /\ \/ /\ h.method = "PUT" /\ h.path = "staging"
                     /\ h.body.kind = "value"
                     /\ Called(th, StageRequest(h))
                  \/ /\ h.method = "POST" /\ h.path = "completed"
                     /\ h.body.kind = "value"
                     /\ Called(th, CompleteRequest(h))
                  \/ /\ h.method = "DELETE" /\ h.path = "staging"
                     /\ Called(th, StopRequest(h))
<1> USE HttpFields, RoutedTo, BoundWithBody
<1>1. Conforms(h) <=>
        /\ Routed(h)
        /\ HasBody(h) => h.type = "json"
        /\ h.method # "DELETE" => h.body.kind = "value"
  <2> DEFINE Put == [id |-> "stage", method |-> "PUT", path |-> "staging"]
             Post == [id |-> "complete", method |-> "POST", path |-> "completed"]
             Del == [id |-> "stop", method |-> "DELETE", path |-> "staging"]
             Fits(d) == /\ d.method = h.method /\ d.path = h.path
                        /\ HasBody(h) => h.type = "json"
                        /\ d.id # "stop" => h.body.kind = "value"
  <2>1. Conforms(h) <=> h.base /\ (Fits(Put) \/ Fits(Post) \/ Fits(Del))
    BY Zenon DEF Conforms, Described
  <2> QED BY <2>1
<1>2. CASE NotRouted(th, h)
  BY <1>1, <1>2 DEF NotRouted, Serve
<1>3. CASE Routed(h) /\ ServeStage(th, h)
  <2>1. h.method = "PUT" /\ h.path = "staging"
    BY <1>3 DEF ServeStage, ServeOperation
  <2> QED BY <1>1, <1>3, <2>1
          DEF ServeStage, ServeOperation, ServeError, HasBody, Serve
<1>4. CASE Routed(h) /\ ServeStagingComplete(th, h)
  <2>1. h.method = "POST" /\ h.path = "completed"
    BY <1>4 DEF ServeStagingComplete, ServeOperation
  <2> QED BY <1>1, <1>4, <2>1
          DEF ServeStagingComplete, ServeOperation, ServeError, HasBody, Serve
<1>5. CASE Routed(h) /\ ServeStopStaging(th, h)
  <2>1. h.method = "DELETE" /\ h.path = "staging"
    BY <1>5 DEF ServeStopStaging, ServeOperation
  <2> QED BY <1>1, <1>5, <2>1
          DEF ServeStopStaging, ServeOperation, ServeError, HasBody, Serve
<1> QED BY <1>2, <1>3, <1>4, <1>5 DEF Serve

\* Every step is a step of StagerApi, or none to it.
LEMMA HttpStepIsApiStep == [HttpApiNext]_httpApiVars => [ApiNext]_apiVars
<1>1. ASSUME NEW th \in Threads, NEW h \in HttpRequests, Serve(th, h)
      PROVE  [ApiNext]_apiVars
  <2>1. CASE \E code : Refuse(th, code)
    BY <2>1 DEF Refuse
  <2>2. ASSUME NEW r \in Requests, Called(th, r)
        PROVE  ApiNext
    BY <2>2 DEF ApiNext
  <2> QED BY <1>1, <2>1, <2>2, Served, HttpApiAssumption
<1>2. ASSUME NEW th \in Threads, Handle(th) \/ DockerComplete(th)
      PROVE  ApiNext
  BY <1>2 DEF ApiNext
<1>3. UNCHANGED httpApiVars => UNCHANGED apiVars
  BY DEF httpApiVars
<1> QED BY <1>1, <1>2, <1>3 DEF HttpApiNext, ApiNext

\* The server behind HTTP is a StagerApi: what is turned away is a stutter,
\* for any requests, threads and interleaving.
THEOREM HttpImplementsApi == HttpApiSpec => ImplementsApi
<1>1. HttpApiInit => ApiInit
  BY DEF HttpApiInit
<1> QED BY <1>1, HttpStepIsApiStep, PTL DEF HttpApiSpec, ImplementsApi, ApiSpec

\* Hence no job is lost silently, whatever HTTP requests clients send: a
\* completion may name another task in its body than in its path, and then
\* the job of the path goes when Cloud Controller has heard of that task.
THEOREM NoJobLostBehindHttp == HttpApiSpec => []JobGoneOnlyIfEnded
  BY HttpImplementsApi, NoJobLostSilently, PTL DEF ImplementsApi

\* And every answer that promises something is true.
THEOREM AnswersTrueBehindHttp == HttpApiSpec => []AnswersAreTrue
  BY HttpImplementsApi, AnswersAlwaysTrue, PTL DEF ImplementsApi

\* And the server behind HTTP keeps the promise of StagingContract, stages no
\* guid twice at once, and holds what it accepted: what clients send that is
\* not a request changes nothing of it.
THEOREM HttpImplementsContract ==
  HttpApiSpec => ImplementsContract /\ []NoDoubleStaging /\ []AcceptedIsHeld
  BY HttpImplementsApi, ServerImplementsContract, NeverStagedTwiceAtOnce,
     AcceptedIsAlwaysHeld
  DEF ImplementsApi

-----------------------------------------------------------------------------
(***************************************************************************)
(* What a handler sees, and what a refusal leaves alone.                   *)
(***************************************************************************)

\* Nothing was sent yet.
LEMMA InitRefusalInv == HttpApiInit => RefusalInv
  BY DEF HttpApiInit, ApiInit, CcInit, RefusalInv, Untouched

\* What each operation makes of a request fits what was sent.
LEMMA SeenWhenCalled ==
  ASSUME NEW h \in HttpRequests, Conforms(h)
  PROVE  /\ h.method = "PUT" /\ h.path = "staging" => Seen(h, StageRequest(h))
         /\ h.method = "POST" /\ h.path = "completed" => Seen(h, CompleteRequest(h))
         /\ h.method = "DELETE" /\ h.path = "staging" => Seen(h, StopRequest(h))
  BY DEF Seen, Described, StageRequest, CompleteRequest, StopRequest

\* A request that is served keeps the invariant.
LEMMA ServeKeepsInv ==
  ASSUME RefusalInv, ServerTypeOK, NEW th \in Threads, NEW h \in HttpRequests,
         Serve(th, h)
  PROVE  RefusalInv'
<1> USE DEF RefusalInv, Untouched
<1>1. http[th] = NoHttp /\ http' = [http EXCEPT ![th] = h]
  BY Served
<1>2. CASE ~Conforms(h) /\ \E code : Refuse(th, code)
  BY <1>1, <1>2, HttpFields DEF Refuse, apiVars, serverVars
<1>3. ASSUME NEW r \in Requests, Called(th, r), Seen(h, r), UNCHANGED refused
      PROVE  RefusalInv'
  BY <1>1, <1>3, CalledEffect, HttpFields
<1> QED BY <1>2, <1>3, Served, SeenWhenCalled, HttpApiAssumption

\* A handler, its goroutine, and the end of the process keep it.
LEMMA HandleKeepsInv ==
  ASSUME RefusalInv, ServerTypeOK, UNCHANGED <<http, refused>>,
         \/ \E th \in Threads : Handle(th) \/ DockerComplete(th)
         \/ Crash \/ Restart
  PROVE  RefusalInv'
<1> USE DEF RefusalInv, Untouched
<1>1. ASSUME NEW th \in Threads, Handle(th) \/ DockerComplete(th)
      PROVE  RefusalInv'
  <2>1. ~Untouched(th)
    BY <1>1, HandleEffect DEF Waiting
  <2> QED BY <1>1, <2>1, HandleEffect
<1>2. CASE Crash
  BY <1>2 DEF Crash, Waiting, ServerTypeOK
<1>3. CASE Restart
  BY <1>3 DEF Restart
<1> QED BY <1>1, <1>2, <1>3

\* The invariant holds throughout.
LEMMA RefusalInvariant == HttpApiSpec => []RefusalInv
<1>1. HttpApiSpec => []ServerTypeOK
  <2>1. ApiInv => ServerTypeOK
    BY DEF ApiInv
  <2> QED BY <2>1, HttpImplementsApi, ApiInvariance, PTL DEF ImplementsApi
<1>2. RefusalInv /\ ServerTypeOK /\ [HttpApiNext]_httpApiVars => RefusalInv'
  <2> SUFFICES ASSUME RefusalInv, ServerTypeOK, [HttpApiNext]_httpApiVars
               PROVE  RefusalInv'
    OBVIOUS
  <2>1. CASE UNCHANGED httpApiVars
    BY <2>1 DEF httpApiVars, apiVars, serverVars, RefusalInv, Untouched
  <2>2. CASE HttpApiNext
    BY <2>2, ServeKeepsInv, HandleKeepsInv DEF HttpApiNext
  <2> QED BY <2>1, <2>2
<1> QED BY <1>1, <1>2, InitRefusalInv, PTL DEF HttpApiSpec

\* A handler runs for what was sent, and for nothing else.
THEOREM HandlerAlwaysSeesRequest == HttpApiSpec => []HandlerSeesRequest
<1>1. RefusalInv => HandlerSeesRequest
  BY DEF RefusalInv, HandlerSeesRequest
<1> QED BY <1>1, RefusalInvariant, PTL

\* Nothing that conforms to the description is turned away.
THEOREM RefusalAlwaysHasReason == HttpApiSpec => []RefusalHasReason
<1>1. RefusalInv => RefusalHasReason
  BY DEF RefusalInv, RefusalHasReason
<1> QED BY <1>1, RefusalInvariant, PTL

\* A request that was turned away never leaves a trace.
THEOREM RefusalNeverTouches == HttpApiSpec => []RefusalTouchesNothing
<1>1. RefusalInv => RefusalTouchesNothing
  BY DEF RefusalInv, RefusalTouchesNothing, Untouched
<1> QED BY <1>1, RefusalInvariant, PTL

=============================================================================
