-------------------------- MODULE RpcSessionProofs --------------------------
(***************************************************************************)
(* Proofs about the JSON-RPC endpoint and a client that stays with it for  *)
(* several requests, for any messages and headers it may send.             *)
(***************************************************************************)
EXTENDS RpcSession, TLAPS

-----------------------------------------------------------------------------
(* What handle() and the dispatch behind it answer.                        *)

\* Whatever revision a client proposes, the one that is agreed to is supported.
LEMMA NegotiatesSupported ==
  ASSUME NEW params
  PROVE  NegotiatedProtocolVersion(params) \in SupportedVersions
  BY RpcAssumption DEF NegotiatedProtocolVersion

\* The dispatch answers under the id it is given, with a result or an error.
LEMMA DispatchAnswers ==
  ASSUME NEW id, NEW method, NEW params
  PROVE  /\ Dispatch(id, method, params).id = id
         /\ \/ \E result : Dispatch(id, method, params) = Ok(id, result)
            \/ \E code : Dispatch(id, method, params) = Err(id, code)
  BY DEF Dispatch, CallTool, CallPing, Ok, Err

\* A result of the kind "initialize" is that of initialize, and so names a
\* revision that is supported.
LEMMA DispatchNegotiates ==
  ASSUME NEW id, NEW method, NEW params,
         "result" \in DOMAIN Dispatch(id, method, params),
         Dispatch(id, method, params).result.kind = "initialize"
  PROVE  Dispatch(id, method, params).result.protocolVersion \in SupportedVersions
<1>1. CASE method = "initialize"
  BY <1>1, NegotiatesSupported DEF Dispatch, Ok
<1>2. CASE method # "initialize"
  BY <1>2 DEF Dispatch, CallTool, CallPing, Ok, Err
<1> QED
  BY <1>1, <1>2

\* The extractor refuses with a bare status, and its statuses are not 200.
LEMMA RefusedByExtractor ==
  ASSUME NEW v, NEW b, ExtractStatus(b) # 200
  PROVE  Respond(v, b) = Plain(ExtractStatus(b)) /\ Outcome(v, b) = "none"
  BY DEF Respond, Outcome

\* The three ways handle() returns.
LEMMA HandleReturns ==
  ASSUME NEW v, NEW e
  PROVE  /\ Dispatches(v, e) =>
              Handle(v, e) = Response(200, Dispatch(Get(e, "id"),
                               Get(e, "method").text, ParamsOf(e)))
         /\ ~Dispatches(v, e) => \/ Handle(v, e) = Plain(202) /\ ~Has(e, "id")
                                 \/ Handle(v, e) = Response(400, Err(ErrorId(e), InvalidRequest))
  BY DEF Handle, IdKind

-----------------------------------------------------------------------------
(* The session.                                                            *)

\* The answer in hand is the server's to the request in hand, and the revision
\* the client keeps is one the server has negotiated.
SessionInv ==
  /\ negotiated \in SupportedVersions \cup {None}
  /\ sent # None => sent.body \in Messages
  /\ reply # None => sent # None /\ reply = Respond(sent.version, sent.body)

\* A client that takes the result of an initialize takes a supported revision.
LEMMA InitializedIsSupported ==
  ASSUME SessionInv, Initialized
  PROVE  reply.body.result.protocolVersion \in SupportedVersions
<1>1. reply = Respond(sent.version, sent.body)
  BY DEF SessionInv, Initialized
<1>2. ExtractStatus(sent.body) = 200
  BY <1>1, RefusedByExtractor DEF Initialized, Plain, Response
<1> DEFINE e == Envelope(sent.body)
<1>3. reply = Handle(sent.version, e)
  BY <1>1, <1>2 DEF Respond
<1>4. Dispatches(sent.version, e)
  BY <1>3, HandleReturns DEF Initialized, Plain, Response, Err
<1>5. reply.body = Dispatch(Get(e, "id"), Get(e, "method").text, ParamsOf(e))
  BY <1>3, <1>4, HandleReturns DEF Response
<1> QED
  BY <1>5, DispatchNegotiates DEF Initialized

\* Sending, answering and taking up a revision keep it.
LEMMA SessionStep == SessionInv /\ [SessionNext]_sessionVars => SessionInv'
<1> SUFFICES ASSUME SessionInv, [SessionNext]_sessionVars PROVE SessionInv'
  OBVIOUS
<1>1. CASE Send
  BY <1>1 DEF Send, SessionInv
<1>2. CASE Serve
  BY <1>2 DEF Serve, SessionInv
<1>3. CASE Receive
  BY <1>3, InitializedIsSupported DEF Receive, SessionInv
<1>4. CASE UNCHANGED sessionVars
  BY <1>4 DEF sessionVars, SessionInv
<1> QED
  BY <1>1, <1>2, <1>3, <1>4 DEF SessionNext

\* So it holds of every session.
LEMMA SessionInvariant == SessionSpec => []SessionInv
<1>1. SessionInit => SessionInv
  BY DEF SessionInit, SessionInv
<1> QED
  BY <1>1, SessionStep, PTL DEF SessionSpec

-----------------------------------------------------------------------------
(* What the client may rely on.                                            *)

\* An answer to a request that was accepted is handle()'s.
LEMMA AcceptedIsHandled ==
  ASSUME SessionInv, Answered, Accepted
  PROVE  reply = Handle(sent.version, Request) /\ Ran = ToolOutcome(sent.version, Request)
  BY DEF SessionInv, Answered, Accepted, Respond, Request, Ran, Outcome

\* Every answer carries the id of its request, or null where there is no id to
\* carry, on every path through handle(), dispatch and the tools (mcp.rs).
THEOREM IdsComeBack == SessionSpec => []IdsAreEchoed
<1>1. SessionInv => IdsAreEchoed
  <2> SUFFICES ASSUME SessionInv, Answered, Accepted, reply.body # None
               PROVE  reply.body.id = IF /\ Has(Request, "id")
                                         /\ Get(Request, "id").type \in {"string", "integer"}
                                      THEN Get(Request, "id") ELSE JsonNull
    BY DEF IdsAreEchoed
  <2>1. CASE Dispatches(sent.version, Request)
    <3>1. IdKind(Request) = "valid"
      BY <2>1 DEF Dispatches
    <3>2. reply.body.id = Get(Request, "id")
      BY <2>1, AcceptedIsHandled, HandleReturns, DispatchAnswers DEF Response
    <3> QED
      BY <3>1, <3>2 DEF IdKind
  <2>2. CASE ~Dispatches(sent.version, Request)
    <3>1. reply = Response(400, Err(ErrorId(Request), InvalidRequest))
      BY <2>2, AcceptedIsHandled, HandleReturns DEF Plain, Response
    <3> QED
      BY <3>1 DEF Response, Err, ErrorId, IdKind
  <2> QED
    BY <2>1, <2>2
<1> QED
  BY <1>1, SessionInvariant, PTL

\* A revision that the server has negotiated is one it goes on to accept
\* (negotiated_protocol_version and protocol_header_supported, mcp.rs).
THEOREM NegotiatedStaysUsable == SessionSpec => []NegotiatedIsUsable
<1>1. SessionInv => NegotiatedIsUsable
  <2> SUFFICES ASSUME SessionInv, Answered, Accepted, negotiated # None,
                      sent.version = negotiated, IsVersion2(Request),
                      IdKind(Request) = "valid"
               PROVE  reply.status = 200
    BY DEF NegotiatedIsUsable
  <2>1. Dispatches(sent.version, Request)
    BY DEF SessionInv, Dispatches, ProtocolHeaderSupported
  <2> QED
    BY <2>1, AcceptedIsHandled, HandleReturns DEF Response
<1> QED
  BY <1>1, SessionInvariant, PTL

\* A request without an id runs no tool and gets no result (handle, mcp.rs).
THEOREM NotificationsDoNothing == SessionSpec => []NotificationsAreInert
<1>1. SessionInv => NotificationsAreInert
  <2> SUFFICES ASSUME SessionInv, Answered, Accepted, ~Has(Request, "id")
               PROVE  /\ Ran = "none"
                      /\ reply.status \in {202, 400}
                      /\ reply.body # None => "error" \in DOMAIN reply.body
    BY DEF NotificationsAreInert
  <2>1. ~Dispatches(sent.version, Request)
    BY DEF Dispatches, IdKind
  <2>2. Ran = "none"
    BY <2>1, AcceptedIsHandled DEF ToolOutcome
  <2>3. reply \in {Plain(202), Response(400, Err(ErrorId(Request), InvalidRequest))}
    BY <2>1, AcceptedIsHandled, HandleReturns
  <2> QED
    BY <2>2, <2>3 DEF Plain, Response, Err
<1> QED
  BY <1>1, SessionInvariant, PTL

\* What call_ping lets through, the schema it advertises admits.
LEMMA ValidatorIsStricter ==
  ASSUME NEW m \in Messages, ExtractStatus(m) = 200,
         ReachesTool(ParamsOf(Envelope(m)), "ping"),
         PingAccepts(PingArguments(ParamsOf(Envelope(m))))
  PROVE  PingSchemaAdmits(PingArguments(ParamsOf(Envelope(m))))
<1> DEFINE arguments == PingArguments(ParamsOf(Envelope(m)))
<1>1. arguments.type = "object"
  BY DEF PingArguments
<1>2. Has(arguments, "message") =>
        /\ Get(arguments, "message").type = "string"
        /\ Get(arguments, "message").chars <= MaxPingMessageBytes
  <2> SUFFICES ASSUME Has(arguments, "message")
               PROVE  /\ Get(arguments, "message").type = "string"
                      /\ Get(arguments, "message").chars <= MaxPingMessageBytes
    OBVIOUS
  <2>1. /\ Get(arguments, "message").type = "string"
        /\ Get(arguments, "message").bytes <= MaxPingMessageBytes
    BY DEF PingAccepts
  <2>2. /\ Get(arguments, "message").bytes \in Nat
        /\ Get(arguments, "message").chars \in 0 .. Get(arguments, "message").bytes
    BY <2>1, SessionAssumption
  <2> HIDE DEF arguments
  <2> QED
    BY <2>1, <2>2, RpcAssumption
<1>3. OnlyKeys(arguments, {"message"})
  BY DEF PingAccepts
<1> HIDE DEF arguments
<1> QED
  BY <1>1, <1>2, <1>3 DEF PingSchemaAdmits, arguments

\* The arguments ping has run on satisfy the schema of its catalog entry
\* (call_ping and tool_catalog, mcp.rs).
THEOREM PingRunsOnItsSchema == SessionSpec => []AcceptedArgumentsFitSchema
<1>1. SessionInv => AcceptedArgumentsFitSchema
  <2> SUFFICES ASSUME SessionInv, Answered, Ran = "ok"
               PROVE  PingSchemaAdmits(PingArguments(ParamsOf(Request)))
    BY DEF AcceptedArgumentsFitSchema
  <2>1. Accepted
    BY RefusedByExtractor DEF Ran, Accepted
  <2>2. /\ ReachesTool(ParamsOf(Request), "ping")
        /\ "error" \notin DOMAIN CallPing(Get(Request, "id"), PingArguments(ParamsOf(Request)))
    BY <2>1, AcceptedIsHandled DEF ToolOutcome
  <2>3. PingAccepts(PingArguments(ParamsOf(Request)))
    BY <2>2 DEF CallPing, Err
  <2> QED
    BY <2>1, <2>2, <2>3, ValidatorIsStricter DEF SessionInv, Answered, Accepted, Request
<1> QED
  BY <1>1, SessionInvariant, PTL
=============================================================================
