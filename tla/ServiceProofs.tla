--------------------------- MODULE ServiceProofs ---------------------------
(***************************************************************************)
(* The server of module Server implements McpService, for any set of       *)
(* connections, environments and requests whose texts can be read.         *)
(***************************************************************************)
EXTENDS GateProofs

\* The texts are ones the gate can read, and sizes are sizes. A secret outside
\* visible ASCII is accepted at startup and can never be presented (to_str,
\* auth.rs): McpService promises its holder more than the server does.
Readable ==
  /\ \A e \in Environments : e.secret # None => e.secret.visible
  /\ \A r \in Requests :
       /\ r.host # None /\ NormalizeHost(r.host) # None => r.host.visible
       /\ r.origin # None /\ NormalizeOrigin(r.origin) # None => r.origin.visible
       /\ r.size \in Nat

-----------------------------------------------------------------------------
(* The instance of McpService has operators of its own of Policy and Rpc,  *)
(* which are the same.                                                     *)

\* The handler of both is the one of mcp.rs.
LEMMA SameHandler ==
  ASSUME NEW v, NEW b
  PROVE  /\ Service!Respond(v, b) = Respond(v, b)
         /\ Service!Outcome(v, b) = Outcome(v, b)
  BY DEF Has, Service!Has, Get, Service!Get, OnlyKeys, Service!OnlyKeys,
     FieldPosition, Service!FieldPosition, Envelope, Service!Envelope,
     WellTyped, Service!WellTyped, ExtractStatus, Service!ExtractStatus,
     IdKind, Service!IdKind, ErrorId, Service!ErrorId, Ok, Service!Ok, Err,
     Service!Err, ParamsOf, Service!ParamsOf, ProtocolHeaderSupported,
     Service!ProtocolHeaderSupported, NegotiatedProtocolVersion,
     Service!NegotiatedProtocolVersion, ReachesTool, Service!ReachesTool,
     PingArguments, Service!PingArguments, PingAccepts, Service!PingAccepts,
     CallPing, Service!CallPing, CallTool, Service!CallTool, Dispatch,
     Service!Dispatch, IsVersion2, Service!IsVersion2, Dispatches,
     Service!Dispatches, Handle, Service!Handle, ToolOutcome,
     Service!ToolOutcome, Respond, Service!Respond, Outcome, Service!Outcome,
     Response, Service!Response, Plain, Service!Plain, JsonNull,
     Service!JsonNull, InvalidRequest, Service!InvalidRequest, MethodNotFound,
     Service!MethodNotFound, InvalidParams, Service!InvalidParams

\* The configurations both accept are those of config.rs.
LEMMA SameValidConfig ==
  ASSUME NEW e
  PROVE  Service!ValidConfig(e) <=> ValidConfig(e)
<1>1. \A h : Service!NormalizeHost(h) = NormalizeHost(h)
  BY DEF NormalizeHost, Service!NormalizeHost
<1>2. \A o : Service!NormalizeOrigin(o) = NormalizeOrigin(o)
  BY <1>1 DEF NormalizeOrigin, Service!NormalizeOrigin
<1>3. /\ Service!ParseAllowedHosts(e.hosts) = ParseAllowedHosts(e.hosts)
      /\ Service!ParseAllowedOrigins(e.origins) = ParseAllowedOrigins(e.origins)
  BY <1>1, <1>2 DEF ParseAllowedHosts, Service!ParseAllowedHosts,
     ParseAllowedOrigins, Service!ParseAllowedOrigins
<1>a. \A S : Service!Cardinality(S) = Cardinality(S)
  BY Zenon DEF Cardinality, Service!Cardinality
<1>4. Service!ValidAllowedHosts(e.hosts) <=> ValidAllowedHosts(e.hosts)
  BY <1>1, <1>3, <1>a, Zenon DEF ValidAllowedHosts, Service!ValidAllowedHosts
<1>5. Service!ValidAllowedOrigins(e.origins) <=> ValidAllowedOrigins(e.origins)
  BY <1>2, <1>3, <1>a, Zenon DEF ValidAllowedOrigins, Service!ValidAllowedOrigins
<1>6. Service!ValidAuthSecret(e.secret) <=> ValidAuthSecret(e.secret)
  BY Zenon DEF ValidAuthSecret, Service!ValidAuthSecret
<1> QED
  BY <1>4, <1>5, <1>6, Zenon DEF ValidConfig, Service!ValidConfig

\* Both keep the same policy of a configuration.
LEMMA SameAppState ==
  ASSUME NEW e
  PROVE  Service!AppState(e) = AppState(e)
  BY DEF AppState, Service!AppState, NormalizeHost, Service!NormalizeHost,
     NormalizeOrigin, Service!NormalizeOrigin, ParseAllowedHosts,
     Service!ParseAllowedHosts, ParseAllowedOrigins, Service!ParseAllowedOrigins

\* Both normalize a host alike.
LEMMA SameHost ==
  ASSUME NEW h
  PROVE  Service!NormalizeHost(h) = NormalizeHost(h)
  BY DEF NormalizeHost, Service!NormalizeHost

\* Both normalize an origin alike.
LEMMA SameOrigin ==
  ASSUME NEW o
  PROVE  Service!NormalizeOrigin(o) = NormalizeOrigin(o)
  BY DEF NormalizeOrigin, Service!NormalizeOrigin, NormalizeHost, Service!NormalizeHost

\* Both mean the same by a bare status.
LEMMA SamePlain ==
  ASSUME NEW s
  PROVE  Service!Plain(s) = Plain(s)
  BY DEF Plain, Service!Plain, Response, Service!Response

-----------------------------------------------------------------------------
(* Two invariants of the requests in hand.                                 *)

\* Once main has read its configuration there is the AppState of a valid one.
AppOK ==
  /\ phase = "boot" => app = None
  /\ phase \in {"configured", "instrumented"} \cup Serving => app # None
  /\ app # None => \E e \in Environments : ValidConfig(e) /\ app = AppState(e)

\* Every step keeps the policy that of a valid configuration, once there is one.
LEMMA AppStep == TypeInv /\ AppOK /\ [Next]_vars => AppOK'
<1> SUFFICES ASSUME TypeInv, AppOK, [Next]_vars PROVE AppOK'
  OBVIOUS
<1>1. CASE LoadConfig
  <2>1. env \in Environments /\ AppState(env) # None
    BY ServerAssumption DEF TypeInv, TypeOK, ProcessTypeOK
  <2> QED
    BY <1>1, <2>1 DEF LoadConfig, AppOK, Serving
<1>2. CASE InitTelemetry \/ Bind \/ StopAccepting \/ FinishDrain \/ Exit \/ Kill
  BY <1>2 DEF InitTelemetry, Bind, StopAccepting, FinishDrain, Exit, Kill, AppOK, Serving
<1>3. CASE \E s \in Signal : ReceiveSignal(s)
  BY <1>3 DEF ReceiveSignal, AppOK, Serving
<1>4. CASE ArmSignals \/ LoseFlush \/ ReaderStep \/ UNCHANGED vars
           \/ \E c \in Conns : Client(c) \/ Task(c)
  <2>1. UNCHANGED <<phase, app>>
    BY <1>4 DEF ArmSignals, LoseFlush, ReaderStep, vars, processVars, Client,
       Accept, BeginHead, ReceiveHead, ReceiveFrame, Disconnect, Task, Route,
       RunHandler, RecordCall, RecordError, RecordLatency, WriteResponse, NoticeDrain
  <2> QED
    BY <2>1 DEF AppOK
<1> QED
  BY <1>1, <1>2, <1>3, <1>4 DEF Next, Startup, Shutdown

\* What waits for its body is the handler's, and nothing is answered before it
\* has been routed and read.
ConnHand(s, r, a) ==
  /\ s = "body" => WantsBody(r)
  /\ s \in {"head", "body"} => a = None

HandOK == \A c \in Conns : ConnHand(stage[c], req[c], reply[c])

\* A connection that is set to values that fit each other leaves the others be.
LEMMA HandConnection ==
  ASSUME TypeInv, HandOK, app' = app, NEW c \in Conns, NEW s, NEW r, NEW n, NEW a, NEW k,
         Connection(c, s, r, n, a, k), ConnHand(s, r, a)
  PROVE  HandOK'
  BY DEF TypeInv, TypeOK, ConnTypeOK, HandOK, ConnHand, Connection, WantsBody

\* Every step keeps the answers behind the reading of the requests.
LEMMA HandStep == TypeInv /\ PhasesOK /\ HandOK /\ [Next]_vars => HandOK'
<1> SUFFICES ASSUME TypeInv, PhasesOK, HandOK, [Next]_vars PROVE HandOK'
  OBVIOUS
<1>1. CASE LoadConfig
  <2>1. \A c \in Conns : stage[c] = "closed"
    BY <1>1 DEF LoadConfig, PhasesOK
  <2> QED
    BY <1>1, <2>1 DEF LoadConfig, connVars, HandOK, ConnHand
<1>2. CASE \/ InitTelemetry \/ Bind \/ Kill \/ Shutdown \/ ReaderStep \/ UNCHANGED vars
           \/ \E s \in Signal : ReceiveSignal(s)
  <2>1. UNCHANGED <<app, connVars>>
    BY <1>2 DEF InitTelemetry, Bind, Kill, Shutdown, ArmSignals, StopAccepting,
       FinishDrain, LoseFlush, Exit, ReaderStep, ReceiveSignal, vars, processVars
  <2> QED
    BY <2>1 DEF HandOK, ConnHand, WantsBody, connVars
<1>3. ASSUME NEW c \in Conns, Client(c) \/ Task(c) PROVE HandOK'
  <2>a. ConnHand(stage[c], req[c], reply[c])
    BY DEF HandOK
  <2>b. app' = app
    BY <1>3 DEF Client, Accept, BeginHead, ReceiveHead, ReceiveFrame,
       Disconnect, Task, Route, RunHandler, RecordCall, RecordError,
       RecordLatency, WriteResponse, NoticeDrain, processVars
  <2>1. CASE Accept(c) \/ BeginHead(c) \/ ReceiveHead(c)
    <3>1. \E s \in {"fresh", "arriving", "head"}, r \in Requests \cup {None}, k \in BOOLEAN :
            Connection(c, s, r, 0, None, k)
      BY <2>1 DEF Accept, BeginHead, ReceiveHead, TypeInv, TypeOK, ConnTypeOK
    <3> QED
      BY <2>b, <3>1, HandConnection DEF ConnHand
  <2>2. CASE Disconnect(c) \/ WriteResponse(c)
    <3>1. \E s \in {"closed", "idle"} : Connection(c, s, None, 0, None, FALSE)
      BY <2>2 DEF Disconnect, WriteResponse, Close
    <3> QED
      BY <2>b, <3>1, HandConnection DEF ConnHand
  <2>3. CASE RecordCall(c) \/ RecordError(c) \/ RecordLatency(c)
    BY <2>3, <2>b DEF RecordCall, RecordError, RecordLatency, TypeInv, TypeOK,
       ConnTypeOK, HandOK, ConnHand, WantsBody
  <2>4. CASE Route(c)
    BY <2>4, <2>b, HandConnection DEF Route, Answer, ConnHand
  <2>5. CASE ReceiveFrame(c)
    BY <2>5, <2>a, <2>b, HandConnection DEF ReceiveFrame, Answer, ConnHand
  <2>6. CASE RunHandler(c)
    BY <2>6, <2>b, HandConnection DEF RunHandler, ConnHand
  <2>7. CASE NoticeDrain(c)
    <3>1. \/ Connection(c, "closed", None, 0, None, FALSE)
          \/ Connection(c, stage[c], req[c], got[c], reply[c], TRUE)
      BY <2>7 DEF NoticeDrain, Close
    <3>2. ConnHand("closed", None, None)
      BY DEF ConnHand
    <3> QED
      BY <2>a, <2>b, <3>1, <3>2, HandConnection
  <2> QED
    BY <1>3, <2>1, <2>2, <2>3, <2>4, <2>5, <2>6, <2>7 DEF Client, Task
<1> QED
  BY <1>1, <1>2, <1>3 DEF Next, Startup

-----------------------------------------------------------------------------
(* The gate lets the trusted through, and answers the others as promised.  *)

\* The gate passes exactly the callers that McpService trusts.
LEMMA TrustedPass ==
  ASSUME Readable, AppOK, app # None, NEW r \in Requests
  PROVE  Service!Trusted(app, r) <=> RequireServerAuth(app, r) = Pass
<1>1. PICK e \in Environments : ValidConfig(e) /\ app = AppState(e)
  BY DEF AppOK
<1>2. /\ app.authSecret = e.secret
      /\ app.allowedHosts = {NormalizeHost(h) : h \in e.hosts}
      /\ app.allowedOrigins = {NormalizeOrigin(o) : o \in e.origins}
  BY <1>1 DEF AppState, ParseAllowedHosts, ParseAllowedOrigins
<1>3. None \notin app.allowedHosts /\ None \notin app.allowedOrigins
  BY <1>1, <1>2 DEF ValidConfig, ValidAllowedHosts, ValidAllowedOrigins
<1>4. app.authSecret # None => PresentedSecret(app.authSecret)
  BY <1>1, <1>2, PolicyAssumption DEF ValidConfig, ValidAuthSecret, PresentedSecret, Readable
<1>5. HostAllowed(r.host, app) <=> r.host # None /\ NormalizeHost(r.host) \in app.allowedHosts
  BY <1>3 DEF HostAllowed, Readable
<1>6. OriginAllowed(r.origin, app)
        <=> (r.origin # None => NormalizeOrigin(r.origin) \in app.allowedOrigins)
  BY <1>3 DEF OriginAllowed, Readable
<1>7. Service!Trusted(app, r)
        <=> /\ app.authSecret # None /\ r.secret = app.authSecret
            /\ r.host # None /\ NormalizeHost(r.host) \in app.allowedHosts
            /\ r.origin # None => NormalizeOrigin(r.origin) \in app.allowedOrigins
  BY SameHost, SameOrigin DEF Service!Trusted
<1> QED
  BY <1>4, <1>5, <1>6, <1>7 DEF RequireServerAuth, SecretsMatch, Pass

\* What the router answers from the head is what McpService allows it to.
LEMMA HeadAnswer ==
  ASSUME Readable, AppOK, app # None, NEW r \in Requests, ~WantsBody(r)
  PROVE  AnswerHead(r) \in Service!Answers(app, r) /\ ~Service!IsCall(app, r)
<1>1. ~Service!IsCall(app, r)
  BY TrustedPass DEF Service!IsCall, WantsBody
<1>2. CASE r.path # "/mcp"
  BY <1>1, <1>2, SamePlain DEF AnswerHead, Service!Answers
<1>3. CASE r.path = "/mcp" /\ RequireServerAuth(app, r) = Pass
  <2>1. AnswerHead(r) = Plain(IF r.verb # "POST" THEN 405 ELSE 415)
    BY <1>3 DEF AnswerHead
  <2> QED
    BY <1>1, <1>3, <2>1, TrustedPass, SamePlain DEF Service!Answers
<1>4. CASE r.path = "/mcp" /\ RequireServerAuth(app, r) # Pass
  <2>1. AnswerHead(r) = Plain(RequireServerAuth(app, r))
    BY <1>4 DEF AnswerHead
  <2>2. RequireServerAuth(app, r) \in {503, 421, 401, 403}
    BY <1>4, GateStatus
  <2> QED
    BY <1>1, <1>4, <2>1, <2>2, TrustedPass, SamePlain DEF Service!Answers
<1> QED
  BY <1>1, <1>2, <1>3, <1>4

-----------------------------------------------------------------------------
(* Steps of the server as steps of the service.                            *)

Pending == [c \in Conns |-> IF InHand(c) THEN req[c] ELSE None]
Given   == [c \in Conns |-> IF InHand(c) THEN reply[c] ELSE None]

Handed == {"head", "body", "calls", "errors", "latency", "write"}

\* A connection that is set shows the client nothing of the others.
LEMMA Shows ==
  ASSUME TypeInv, phase \notin Ended, phase' = phase, NEW c \in Conns,
         NEW s \in Stage, NEW r, NEW n, NEW a, NEW k, Connection(c, s, r, n, a, k)
  PROVE  /\ Pending' = [Pending EXCEPT ![c] = IF s \in Handed THEN r ELSE None]
         /\ Given' = [Given EXCEPT ![c] = IF s \in Handed THEN a ELSE None]
  BY DEF TypeInv, TypeOK, ConnTypeOK, Connection, Pending, Given, InHand, Handed, Stage

\* Nothing that is not on a connection shows.
LEMMA ShowsNothing ==
  ASSUME UNCHANGED connVars, phase' \in Ended <=> phase \in Ended
  PROVE  Pending' = Pending /\ Given' = Given
  BY DEF connVars, Pending, Given, InHand

\* A process that has ended shows no request.
LEMMA ShowsTheEnd ==
  ASSUME phase' \in Ended
  PROVE  Pending' = [c \in Conns |-> None] /\ Given' = [c \in Conns |-> None]
  BY DEF Pending, Given, InHand

\* What a connection shows at each stage.
LEMMA Shown ==
  ASSUME TypeInv, phase \notin Ended, NEW c \in Conns
  PROVE  /\ Pending \in [Conns -> Requests \cup {None}]
         /\ stage[c] \in Handed => Pending[c] = req[c] /\ Given[c] = reply[c]
                                  /\ req[c] \in Requests /\ req[c] # None
         /\ stage[c] \notin Handed => Pending[c] = None /\ Given[c] = None
  BY ServerAssumption DEF TypeInv, TypeOK, ConnTypeOK, StagesOK, InServer,
     Pending, Given, InHand, Handed, Stage

\* The service in terms of what is shown.
LEMMA ServiceSteps ==
  /\ \A c \in Conns :
       /\ app # None /\ Pending[c] = None /\ UNCHANGED <<app, Given, ran>>
          /\ (\E r \in Requests : Pending' = [Pending EXCEPT ![c] = r])
            => Service!Ask(c)
       /\ Pending[c] # None /\ UNCHANGED <<app, ran>>
          /\ Pending' = [Pending EXCEPT ![c] = None]
          /\ Given' = [Given EXCEPT ![c] = None]
            => Service!Leave(c)
  /\ UNCHANGED <<app, ran>> /\ Pending' = [c \in Conns |-> None]
     /\ Given' = [c \in Conns |-> None]
       => Service!Stop
  BY DEF Service!Ask, Service!Leave, Service!Stop, Pending, Given

\* An answer that costs no tool: a bare status, from the router or the limit.
LEMMA ServiceRefusal ==
  ASSUME TypeInv, NEW c \in Conns, Pending[c] # None, Given[c] = None,
         ~Service!IsCall(app, Pending[c]), UNCHANGED <<app, Pending, ran>>,
         NEW a \in Service!Answers(app, Pending[c]),
         Given' = [Given EXCEPT ![c] = a]
  PROVE  Service!Reply(c)
<1>1. ran' = [calls |-> ran.calls + 0, errors |-> ran.errors + 0]
  BY DEF TypeInv, TypeOK, ConnTypeOK
<1> QED
  BY <1>1 DEF Service!Reply, Pending, Given

\* The handler's answer to a call, and the tool it ran.
LEMMA ServiceCall ==
  ASSUME NEW c \in Conns, Pending[c] # None, Given[c] = None,
         Service!IsCall(app, Pending[c]), UNCHANGED <<app, Pending>>,
         Given' = [Given EXCEPT ![c] = Respond(Pending[c].version, Pending[c].body)],
         NEW outcome, outcome = Outcome(Pending[c].version, Pending[c].body),
         ran' = [calls  |-> ran.calls + (IF outcome = "none" THEN 0 ELSE 1),
                 errors |-> ran.errors + (IF outcome = "error" THEN 1 ELSE 0)]
  PROVE  Service!Reply(c)
<1>1. Service!Answers(app, Pending[c]) = {Respond(Pending[c].version, Pending[c].body)}
  BY SameHandler DEF Service!Answers
<1>2. Service!Outcome(Pending[c].version, Pending[c].body) = outcome
  BY SameHandler
<1> QED
  BY <1>1, <1>2 DEF Service!Reply, Pending, Given

\* Every step of the server is a step of the service or shows nothing.
LEMMA ServiceStep ==
  ASSUME Readable, TypeInv, AppOK, HandOK, [Next]_vars
  PROVE  [Service!ServiceNext]_(Service!serviceVars)
<1> DEFINE Stutter == UNCHANGED <<app, Pending, Given, ran>>
<1>s. /\ Stutter => UNCHANGED Service!serviceVars
      /\ Service!Configure \/ Service!Stop => Service!ServiceNext
      /\ \A c \in Conns : Service!Ask(c) \/ Service!Reply(c) \/ Service!Leave(c)
                          => Service!ServiceNext
  <2>1. Stutter => UNCHANGED Service!serviceVars
    BY DEF Service!serviceVars, Pending, Given
  <2> QED
    BY <2>1, Zenon DEF Service!ServiceNext
<1>1. CASE LoadConfig
  <2>1. CASE ValidConfig(env)
    <3>1. app = None /\ env \in Environments /\ app' = AppState(env)
      BY <1>1, <2>1 DEF LoadConfig, AppOK, TypeInv, TypeOK, ProcessTypeOK
    <3>2. UNCHANGED <<Pending, Given, ran>>
      BY <1>1, <2>1, ShowsNothing DEF LoadConfig, Ended, historyVars
    <3>3. Service!Configure
      BY <3>1, <3>2, <2>1, SameValidConfig, SameAppState DEF Service!Configure, Pending, Given
    <3> QED
      BY <3>3, <1>s
  <2>2. CASE ~ValidConfig(env)
    BY <1>1, <2>2, <1>s, ShowsTheEnd, ServiceSteps DEF LoadConfig, Ended, historyVars
  <2> QED
    BY <2>1, <2>2
<1>2. CASE \/ InitTelemetry \/ Bind \/ Kill \/ Shutdown \/ ReaderStep \/ UNCHANGED vars
           \/ \E s \in Signal : ReceiveSignal(s)
  <2>1. UNCHANGED <<app, connVars, ran>>
    BY <1>2 DEF InitTelemetry, Bind, Kill, Shutdown, ArmSignals, StopAccepting,
       FinishDrain, LoseFlush, Exit, ReaderStep, ReceiveSignal, vars, processVars,
       historyVars
  <2>2. phase \in Ended => phase' \in Ended
    BY <1>2 DEF InitTelemetry, Bind, Kill, Shutdown, ArmSignals, StopAccepting,
       FinishDrain, LoseFlush, Exit, ReaderStep, ReceiveSignal, vars, processVars,
       Ended, Running
  <2>3. CASE phase' \in Ended
    BY <2>1, <2>3, <1>s, ShowsTheEnd, ServiceSteps
  <2>4. CASE phase' \notin Ended
    BY <2>1, <2>2, <2>4, <1>s, ShowsNothing
  <2> QED
    BY <2>3, <2>4
<1>3. ASSUME NEW c \in Conns, Client(c) \/ Task(c)
      PROVE  [Service!ServiceNext]_(Service!serviceVars)
  <2>a. /\ app' = app /\ app # None
        /\ phase \notin Ended /\ phase' = phase
    BY <1>3 DEF Client, Accept, BeginHead, ReceiveHead, ReceiveFrame,
       Disconnect, Task, Route, RunHandler, RecordCall, RecordError,
       RecordLatency, WriteResponse, NoticeDrain, processVars, AppOK, Serving, Ended
  <2>b. ConnHand(stage[c], req[c], reply[c]) /\ got[c] \in 0 .. MaxRequestBytes
        /\ stage[c] \in Stage /\ MaxRequestBytes \in Nat
    BY ServerAssumption DEF HandOK, TypeInv, TypeOK, ConnTypeOK
  <2>c. /\ Pending = [Pending EXCEPT ![c] = Pending[c]]
        /\ Given = [Given EXCEPT ![c] = Given[c]]
    BY DEF Pending, Given
  <2>d. ~(RunHandler(c)) => ran' = ran
    BY <1>3 DEF Client, Accept, BeginHead, ReceiveHead, ReceiveFrame,
       Disconnect, Task, Route, RecordCall, RecordError,
       RecordLatency, WriteResponse, NoticeDrain, historyVars
  <2>1. CASE Accept(c) \/ BeginHead(c)
    <3>1. PICK s \in {"fresh", "arriving"}, k \in BOOLEAN :
            Connection(c, s, None, 0, None, k)
      BY <2>1 DEF Accept, BeginHead, TypeInv, TypeOK, ConnTypeOK
    <3>2. stage[c] \notin Handed /\ s \notin Handed /\ s \in Stage /\ ran' = ran
      BY <2>1 DEF Accept, BeginHead, Handed, Stage, historyVars
    <3> QED
      BY <2>a, <2>c, <3>1, <3>2, <1>s, Shows, Shown
  <2>2. CASE ReceiveHead(c)
    <3>1. PICK r \in Requests : Connection(c, "head", r, 0, None, closing[c])
      BY <2>2 DEF ReceiveHead
    <3>2. stage[c] \notin Handed /\ "head" \in Handed /\ "head" \in Stage /\ ran' = ran
      BY <2>2 DEF ReceiveHead, Handed, Stage
    <3>3. Pending' = [Pending EXCEPT ![c] = r] /\ Given' = [Given EXCEPT ![c] = None]
      BY <2>a, <3>1, <3>2, Shows
    <3>4. Pending[c] = None /\ Given[c] = None
      BY <2>a, <3>2, Shown
    <3>5. Service!Ask(c)
      BY <2>a, <2>c, <3>2, <3>3, <3>4, ServiceSteps
    <3> QED
      BY <3>5, <1>s
  <2>3. CASE Disconnect(c) \/ WriteResponse(c)
    <3>1. PICK s \in {"closed", "idle"} : Connection(c, s, None, 0, None, FALSE)
      BY <2>3 DEF Disconnect, WriteResponse, Close
    <3>2. s \notin Handed /\ s \in Stage /\ ran' = ran
      BY <2>3 DEF Disconnect, WriteResponse, Handed, Stage, historyVars
    <3>3. Pending' = [Pending EXCEPT ![c] = None] /\ Given' = [Given EXCEPT ![c] = None]
      BY <2>a, <3>1, <3>2, Shows
    <3>4. CASE stage[c] \in Handed
      BY <2>a, <3>2, <3>3, <3>4, <1>s, Shown, ServiceSteps
    <3>5. CASE stage[c] \notin Handed
      BY <2>a, <2>c, <3>2, <3>3, <3>5, <1>s, Shown
    <3> QED
      BY <3>4, <3>5
  <2>4. CASE RecordCall(c) \/ RecordError(c) \/ RecordLatency(c)
    <3>1. /\ stage[c] \in Handed /\ UNCHANGED <<req, reply, ran>>
          /\ \E s \in Handed : stage' = [stage EXCEPT ![c] = s]
      BY <2>4 DEF RecordCall, RecordError, RecordLatency, Handed, historyVars
    <3>2. UNCHANGED <<Pending, Given>>
      BY <2>a, <3>1 DEF TypeInv, TypeOK, ConnTypeOK, Pending, Given, InHand, Handed
    <3> QED
      BY <2>a, <3>1, <3>2, <1>s
  <2>5. CASE Route(c)
    <3>1. stage[c] = "head" /\ stage[c] \in Handed /\ ran' = ran
      BY <2>5 DEF Route, Handed, historyVars
    <3>2. Pending[c] = req[c] /\ Given[c] = None /\ req[c] \in Requests /\ req[c] # None
      BY <2>a, <2>b, <3>1, Shown DEF ConnHand
    <3>3. CASE WantsBody(req[c])
      <4>1. Connection(c, "body", req[c], 0, None, closing[c])
        BY <2>5, <3>3 DEF Route
      <4>2. "body" \in Handed /\ "body" \in Stage
        BY DEF Handed, Stage
      <4> QED
        BY <2>a, <2>c, <3>1, <3>2, <4>1, <4>2, <1>s, Shows
    <3>4. CASE ~WantsBody(req[c])
      <4>1. Connection(c, "write", req[c], got[c], AnswerHead(req[c]), closing[c])
        BY <2>5, <3>4 DEF Route, Answer
      <4>2. "write" \in Handed /\ "write" \in Stage
        BY DEF Handed, Stage
      <4>3. Pending' = Pending /\ Given' = [Given EXCEPT ![c] = AnswerHead(req[c])]
        BY <2>a, <2>c, <3>2, <4>1, <4>2, Shows
      <4>4. Service!Reply(c)
        BY <2>a, <3>1, <3>2, <3>4, <4>3, HeadAnswer, ServiceRefusal
      <4> QED
        BY <4>4, <1>s
    <3> QED
      BY <3>3, <3>4
  <2>6. CASE ReceiveFrame(c) \/ RunHandler(c)
    <3>1. stage[c] = "body" /\ stage[c] \in Handed
      BY <2>6 DEF ReceiveFrame, RunHandler, Handed
    <3>2. Pending[c] = req[c] /\ Given[c] = None /\ req[c] \in Requests /\ req[c] # None
      BY <2>a, <2>b, <3>1, Shown DEF ConnHand
    <3>3. /\ req[c].path = "/mcp" /\ req[c].verb = "POST" /\ req[c].json
          /\ Service!Trusted(app, req[c]) /\ req[c].size \in Nat
      BY <2>a, <2>b, <3>1, <3>2, TrustedPass DEF ConnHand, WantsBody, Readable
    <3>4. /\ "body" \in Handed /\ "write" \in Handed /\ "calls" \in Handed
          /\ "body" \in Stage /\ "write" \in Stage /\ "calls" \in Stage
      BY DEF Handed, Stage
    <3>5. CASE ReceiveFrame(c) /\ got[c] # MaxRequestBytes
      <4>1. Connection(c, "body", req[c], got[c] + 1, None, closing[c]) /\ ran' = ran
        BY <3>5 DEF ReceiveFrame, historyVars
      <4> QED
        BY <2>a, <2>c, <3>2, <3>4, <4>1, <1>s, Shows
    <3>6. CASE ReceiveFrame(c) /\ got[c] = MaxRequestBytes
      <4>1. /\ Connection(c, "write", req[c], got[c], Plain(413), closing[c])
            /\ ran' = ran /\ got[c] < req[c].size
        BY <3>6 DEF ReceiveFrame, Answer, historyVars
      <4>2. ~Service!IsCall(app, req[c])
        BY <2>b, <3>3, <3>6, <4>1 DEF Service!IsCall
      <4>3. Plain(413) \in Service!Answers(app, req[c])
        BY <3>3, <4>2, SamePlain DEF Service!Answers
      <4>4. Pending' = Pending /\ Given' = [Given EXCEPT ![c] = Plain(413)]
        BY <2>a, <2>c, <3>2, <3>4, <4>1, Shows
      <4>5. Service!Reply(c)
        BY <2>a, <3>2, <4>1, <4>2, <4>3, <4>4, ServiceRefusal
      <4> QED
        BY <4>5, <1>s
    <3>7. CASE RunHandler(c)
      <4> DEFINE outcome == Outcome(req[c].version, req[c].body)
                 answer  == Respond(req[c].version, req[c].body)
      <4>1. /\ \E s \in {"write", "calls"} : Connection(c, s, req[c], got[c], answer, closing[c])
            /\ got[c] = req[c].size
            /\ ran' = [calls  |-> ran.calls + (IF outcome = "none" THEN 0 ELSE 1),
                       errors |-> ran.errors + (IF outcome = "error" THEN 1 ELSE 0)]
        BY <3>7 DEF RunHandler
      <4>2. Service!IsCall(app, req[c])
        BY <2>b, <3>3, <4>1 DEF Service!IsCall
      <4> HIDE DEF outcome, answer
      <4>3. Pending' = Pending /\ Given' = [Given EXCEPT ![c] = answer]
        BY <2>a, <2>c, <3>2, <3>4, <4>1, Shows
      <4>4. Service!Reply(c)
        BY <2>a, <3>2, <4>1, <4>2, <4>3, ServiceCall DEF outcome, answer
      <4> QED
        BY <4>4, <1>s
    <3> QED
      BY <2>6, <3>5, <3>6, <3>7
  <2>7. CASE NoticeDrain(c)
    <3>1. CASE stage[c] \in {"fresh", "idle"}
      <4>1. Connection(c, "closed", None, 0, None, FALSE) /\ ran' = ran
        BY <2>7, <3>1 DEF NoticeDrain, Close, historyVars
      <4>2. stage[c] \notin Handed /\ "closed" \notin Handed /\ "closed" \in Stage
        BY <3>1 DEF Handed, Stage
      <4> QED
        BY <2>a, <2>c, <4>1, <4>2, <1>s, Shows, Shown
    <3>2. CASE stage[c] \notin {"fresh", "idle"}
      <4>1. Connection(c, stage[c], req[c], got[c], reply[c], TRUE) /\ ran' = ran
        BY <2>7, <3>2 DEF NoticeDrain, historyVars
      <4>2. /\ Pending' = [Pending EXCEPT ![c] = IF stage[c] \in Handed THEN req[c] ELSE None]
            /\ Given' = [Given EXCEPT ![c] = IF stage[c] \in Handed THEN reply[c] ELSE None]
        BY <2>a, <2>b, <4>1, Shows
      <4>3. UNCHANGED <<Pending, Given>>
        BY <2>a, <2>c, <4>2, Shown
      <4> QED
        BY <2>a, <4>1, <4>3, <1>s
    <3> QED
      BY <3>1, <3>2
  <2> QED
    BY <1>3, <2>1, <2>2, <2>3, <2>4, <2>5, <2>6, <2>7 DEF Client, Task
<1> QED
  BY <1>1, <1>2, <1>3 DEF Next, Startup

\* Where headers and secrets are text the server can read, it keeps every
\* promise of McpService: each request has one answer, fixed by the policy and
\* the request, and the tools that ran are those of the trusted calls answered
\* (router, routes.rs; require_server_auth, auth.rs; handle, mcp.rs).
THEOREM ServiceIsImplemented ==
  ASSUME Readable
  PROVE  Spec => ImplementsService
<1>1. Init => AppOK /\ HandOK
  BY DEF Init, AppOK, HandOK, ConnHand, Serving
<1>2. Init => Service!ServiceInit
  BY DEF Init, Service!ServiceInit, InHand
<1>3. TypeInv /\ AppOK /\ HandOK /\ [Next]_vars
        => [Service!ServiceNext]_(Service!serviceVars)
  BY ServiceStep
<1> QED
  BY <1>1, <1>2, <1>3, TypeInvariant, PhasesInvariant, AppStep, HandStep, PTL
     DEF Spec, ImplementsService, Service!ServiceSpec

=============================================================================
