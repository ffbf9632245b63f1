------------------------------ MODULE StagerHttp ------------------------------
(***************************************************************************)
(* lib/swagger/operations and lib/model: what stands between an HTTP       *)
(* request and a handler of StagerApi.  The request is routed, its content *)
(* type checked, its body decoded and validated; what fails is answered    *)
(* from the first error, and no handler is called.  The checks before the  *)
(* generated code, and the statuses of errors, are those of the vendored   *)
(* runtime of go-openapi.                                                  *)
(***************************************************************************)
EXTENDS StagerApi, Sequences

CONSTANT HttpRequests   \* what clients may send: see AllHttpRequests

VARIABLES
  http,     \* the HTTP request of each thread
  refused   \* the status of an answer no handler gave, NoReply before

httpApiVars == <<apiVars, http, refused>>

NoHttp == [method |-> "none"]

-----------------------------------------------------------------------------
(***************************************************************************)
(* Requests.                                                               *)
(***************************************************************************)

\* Of the body of a stage only what its handler looks at: see StageRequests.
StageBodies ==
  [lifecycle : Lifecycles \cup {"unknown"}, data : {"ok", "bad", "null"}]

\* Any task and space, whatever the path says.
CompleteBodies == [task : Guids, space : Spaces]

\* "none": neither a length nor chunks; "empty": chunks that hold nothing;
\* "malformed": no JSON, JSON with a field of another type, or cut short;
\* "value": what the body was decoded to, a field it lacks being empty.
Bodies ==
  [kind : {"none", "empty", "malformed"}]
  \cup [kind : {"value"}, value : StageBodies \cup CompleteBodies]

\* base: the path starts with the base path of the API.  type: a content type
\* that is not given is another one.
AllHttpRequests ==
  [method : {"PUT", "POST", "DELETE", "GET"}, base : BOOLEAN,
   path : {"staging", "completed", "other"}, guid : Guids,
   type : {"json", "other", "unparsable"}, body : Bodies]

HasBody(h) == h.body.kind # "none"

StageRequest(h) ==
  [op |-> "stage", guid |-> h.guid,
   lifecycle |-> h.body.value.lifecycle, data |-> h.body.value.data]

CompleteRequest(h) ==
  [op |-> "complete", guid |-> h.guid,
   task |-> h.body.value.task, space |-> h.body.value.space]

StopRequest(h) == [op |-> "stop", guid |-> h.guid]

-----------------------------------------------------------------------------
(***************************************************************************)
(* Validation of a body, as a sequence of errors.                          *)
(***************************************************************************)

NoErrors == << >>

\* Every field is optional, the entries of a list are looked at unless they
\* are null, and what an entry's own Validate looks at is optional, too: no
\* body that was decoded has an error.
ValidateStagingRequest(body) == NoErrors

ValidateTaskCallbackResponse(body) == NoErrors

-----------------------------------------------------------------------------
(***************************************************************************)
(* Binding: the statuses of the errors, in their order.                    *)
(***************************************************************************)

\* io.EOF, like no body at all, is a missing parameter; everything else that
\* the consumer does not decode is a parse error.
BodyErrors(h, validated) ==
  CASE h.body.kind \in {"none", "empty"} -> <<422>>
    [] h.body.kind = "malformed"         -> <<400>>
    [] h.body.kind = "value"             -> validated

BindStageParams(h) == BodyErrors(h, ValidateStagingRequest(h.body.value))
BindStagingCompleteParams(h) ==
  BodyErrors(h, ValidateTaskCallbackResponse(h.body.value))
BindStopStagingParams(h) == NoErrors

\* Any request with a body must have a content type there is a consumer for.
\* The answer's type is always negotiated: the request's own stands in.
ConsumersFor == {"json"}

\* Mutant: a request without a body must have a content type, too.
BindValidRequestStrict(h, bound) ==
  IF h.type = "unparsable" THEN <<400>>
  ELSE IF h.type \notin ConsumersFor THEN <<415>>
  ELSE bound

BindValidRequest(h, bound) ==
  IF HasBody(h) /\ h.type = "unparsable" THEN <<400>>
  ELSE IF HasBody(h) /\ h.type \notin ConsumersFor THEN <<415>>
  ELSE bound

-----------------------------------------------------------------------------
(***************************************************************************)
(* Routing.                                                                *)
(***************************************************************************)

\* The operations of the API's description.
Described ==
  {[id |-> "stage",    method |-> "PUT",    path |-> "staging"],
   [id |-> "complete", method |-> "POST",   path |-> "completed"],
   [id |-> "stop",     method |-> "DELETE", path |-> "staging"]}

HandlerKeys ==
  {<<"PUT", "staging">>, <<"POST", "completed">>, <<"DELETE", "staging">>}

\* Mutant: stage and stop are registered in each other's place.
initHandlerCacheSwapped ==
  [r \in HandlerKeys |->
     CASE r[1] = "PUT"    -> "stop"
       [] r[1] = "POST"   -> "complete"
       [] r[1] = "DELETE" -> "stage"]

initHandlerCache ==
  [r \in HandlerKeys |->
     CASE r[1] = "PUT"    -> "stage"
       [] r[1] = "POST"   -> "complete"
       [] r[1] = "DELETE" -> "stop"]

HandlerFor(method, path) == <<method, path>> \in DOMAIN initHandlerCache

\* A described operation without a handler has no route.
Routes ==
  {<<d.method, d.path>> :
     d \in {e \in Described : HandlerFor(e.method, e.path)}}

Routed(h) == h.base /\ <<h.method, h.path>> \in Routes

\* Looked for without regard to the base path.
OtherMethods(h) ==
  {m \in {"PUT", "POST", "DELETE"} \ {h.method} : <<m, h.path>> \in Routes}

-----------------------------------------------------------------------------
(***************************************************************************)
(* Serving.                                                                *)
(***************************************************************************)

HttpApiInit ==
  /\ ApiInit
  /\ http = [th \in Threads |-> NoHttp]
  /\ refused = [th \in Threads |-> NoReply]

Refuse(th, code) ==
  /\ refused' = [refused EXCEPT ![th] = code]
  /\ UNCHANGED apiVars

\* ServeError: of several errors the first is answered.
ServeError(th, errors) == Refuse(th, Head(errors))

\* Mutant: a request that was refused is handled all the same.
ServeOperationNoReturn(th, h, op, errors, request) ==
  /\ initHandlerCache[<<h.method, h.path>>] = op
  /\ IF errors # NoErrors /\ h.body.kind # "value"
     THEN ServeError(th, errors)
     ELSE /\ Called(th, request)
          /\ refused' = [refused EXCEPT ![th] =
                           IF errors = NoErrors THEN NoReply ELSE Head(errors)]

\* ServeHTTP of the three operations: bind, then handle.
ServeOperation(th, h, op, errors, request) ==
  /\ initHandlerCache[<<h.method, h.path>>] = op
  /\ IF errors # NoErrors
     THEN ServeError(th, errors)
     ELSE Called(th, request) /\ UNCHANGED refused

\* Mutant: the guid of the path is not bound.
ServeStageNoGuid(th, h) ==
  ServeOperation(th, h, "stage", BindValidRequest(h, BindStageParams(h)),
                 [StageRequest(h) EXCEPT !.guid = ""])

ServeStage(th, h) ==
  ServeOperation(th, h, "stage",
                 BindValidRequest(h, BindStageParams(h)), StageRequest(h))

ServeStagingComplete(th, h) ==
  ServeOperation(th, h, "complete",
                 BindValidRequest(h, BindStagingCompleteParams(h)),
                 CompleteRequest(h))

ServeStopStaging(th, h) ==
  ServeOperation(th, h, "stop",
                 BindValidRequest(h, BindStopStagingParams(h)), StopRequest(h))

NotRouted(th, h) ==
  /\ ~Routed(h)
  /\ Refuse(th, IF OtherMethods(h) # {} THEN 405 ELSE 404)

Serve(th, h) ==
  /\ up
  /\ http[th] = NoHttp
  /\ http' = [http EXCEPT ![th] = h]
  /\ \/ /\ Routed(h)
        /\ \/ ServeStage(th, h)
           \/ ServeStagingComplete(th, h)
           \/ ServeStopStaging(th, h)
     \/ NotRouted(th, h)

HttpApiNext ==
  \/ \E th \in Threads, h \in HttpRequests : Serve(th, h)
  \/ /\ \E th \in Threads : Handle(th) \/ DockerComplete(th)
     /\ UNCHANGED <<http, refused>>
  \/ (Crash \/ Restart) /\ UNCHANGED <<http, refused>>

HttpApiSpec == HttpApiInit /\ [][HttpApiNext]_httpApiVars

-----------------------------------------------------------------------------

\* Requests are those that what clients send can come to.
ASSUME HttpApiAssumption ==
  /\ HttpRequests \subseteq AllHttpRequests
  /\ \A h \in HttpRequests :
       /\ h.method = "DELETE" => StopRequest(h) \in Requests
       /\ h.method # "DELETE" /\ h.body.kind = "value" =>
            /\ h.path = "staging" => StageRequest(h) \in Requests
            /\ h.path = "completed" => CompleteRequest(h) \in Requests

\* The request is one the description allows.
Conforms(h) ==
  /\ h.base
  /\ \E d \in Described :
       /\ d.method = h.method /\ d.path = h.path
       /\ HasBody(h) => h.type = "json"
       /\ d.id # "stop" => h.body.kind = "value"

Seen(h, r) ==
  /\ Conforms(h)
  /\ [id |-> r.op, method |-> h.method, path |-> h.path] \in Described
  /\ r.guid = h.guid
  /\ r.op = "stage" => r.lifecycle = h.body.value.lifecycle
  /\ r.op = "complete" => /\ r.task = h.body.value.task
                          /\ r.space = h.body.value.space

\* A handler runs for what was sent, and for nothing else: the operation the
\* description gives for method and path, the guid of the path, and a body
\* that was sent as JSON and decoded (initHandlerCache, the ServeHTTP and
\* BindRequest methods).
HandlerSeesRequest ==
  \A th \in Threads : pc[th] # "idle" => Seen(http[th], req[th])

\* A request that conforms is not turned away: routing, content type, decoding
\* and validation refuse nothing they should not.
RefusalHasReason ==
  \A th \in Threads : refused[th] # NoReply => ~Conforms(http[th])

\* A request that is turned away has done nothing, and will do nothing: no
\* handler, no goroutine, no completion told, whatever goes on beside it (the
\* return after Respond in the ServeHTTP methods).
RefusalTouchesNothing ==
  \A th \in Threads :
    refused[th] # NoReply =>
      /\ pc[th] = "idle"
      /\ reply[th] = NoReply
      /\ docker[th] = "none"
      /\ \A d \in told : d.sender # th

\* Behind HTTP the server is StagerApi: what is turned away is a stutter.
ImplementsApi == ApiSpec

=============================================================================
