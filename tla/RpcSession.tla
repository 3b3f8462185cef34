----------------------------- MODULE RpcSession -----------------------------
(***************************************************************************)
(* A client of the JSON-RPC endpoint, past the gate: it sends any of its   *)
(* messages, with any MCP-Protocol-Version header it may come to send, and *)
(* keeps the revision that initialize negotiated for its later requests.   *)
(***************************************************************************)
EXTENDS Rpc

CONSTANTS
  Messages,   \* the bodies the client may send, as JSON values
  Versions    \* the header values it may make up, None for no header

\* A string is UTF-8: it has no more characters than bytes.
ASSUME SessionAssumption ==
  \A m \in Messages :
    (ExtractStatus(m) = 200 /\ ReachesTool(ParamsOf(Envelope(m)), "ping")) =>
      LET arguments == PingArguments(ParamsOf(Envelope(m)))
      IN (Has(arguments, "message") /\ Get(arguments, "message").type = "string") =>
           /\ Get(arguments, "message").bytes \in Nat
           /\ Get(arguments, "message").chars \in 0 .. Get(arguments, "message").bytes

VARIABLES
  negotiated,   \* the revision of the last initialize result, None before it
  sent,         \* the request under way, None between two of them
  reply         \* the server's answer to it

sessionVars == <<negotiated, sent, reply>>

SessionInit == negotiated = None /\ sent = None /\ reply = None

Send ==
  /\ sent = None
  /\ \E m \in Messages, v \in Versions \cup {negotiated} :
       sent' = [body |-> m, version |-> v]
  /\ UNCHANGED <<negotiated, reply>>

\* The extractor and handle().
Serve ==
  /\ sent # None
  /\ reply = None
  /\ reply' = Respond(sent.version, sent.body)
  /\ UNCHANGED <<negotiated, sent>>

Initialized ==
  /\ reply # None
  /\ reply.body # None
  /\ "result" \in DOMAIN reply.body
  /\ reply.body.result.kind = "initialize"

Receive ==
  /\ reply # None
  /\ negotiated' = IF Initialized THEN reply.body.result.protocolVersion
                   ELSE negotiated
  /\ sent' = None
  /\ reply' = None

SessionNext == Send \/ Serve \/ Receive

SessionSpec == SessionInit /\ [][SessionNext]_sessionVars

-----------------------------------------------------------------------------
(* Properties of an answered request.                                      *)

Answered == reply # None
Accepted == ExtractStatus(sent.body) = 200
Request  == Envelope(sent.body)
Ran      == Outcome(sent.version, sent.body)

\* Whatever path an answer takes through handle(), dispatch and the tools, a
\* JSON-RPC answer carries the request's id back when that id is a string or an
\* integer of at most 64 bits, and null when there is none or another one.
IdsAreEchoed ==
  (Answered /\ Accepted /\ reply.body # None) =>
    reply.body.id = IF /\ Has(Request, "id")
                       /\ Get(Request, "id").type \in {"string", "integer"}
                    THEN Get(Request, "id") ELSE JsonNull

\* A client that has negotiated a revision may use it: a valid request whose
\* header names the result of the last initialize is never refused for it, and
\* every revision the server negotiates is one it accepts.
NegotiatedIsUsable ==
  (/\ Answered /\ Accepted /\ negotiated # None /\ sent.version = negotiated
   /\ IsVersion2(Request) /\ IdKind(Request) = "valid")
  => reply.status = 200

\* A notification is never a way to run a tool or to get a result: an id-less
\* request gets no result, whatever method and params it names.
NotificationsAreInert ==
  (Answered /\ Accepted /\ ~Has(Request, "id")) =>
    /\ Ran = "none"
    /\ reply.status \in {202, 400}
    /\ reply.body # None => "error" \in DOMAIN reply.body

\* What the ping tool runs on satisfies the inputSchema of its catalog entry:
\* the validator of call_ping is never more permissive than the schema, for
\* any arguments object. (It is stricter: it counts bytes where maxLength
\* counts characters, and refuses control characters.)
AcceptedArgumentsFitSchema ==
  (Answered /\ Ran = "ok") => PingSchemaAdmits(PingArguments(ParamsOf(Request)))

\* README.md:42: "Every ID-less notification receives HTTP 202 with an empty
\* body", here of the JSON-RPC 2.0 ones only.
NotificationsAreAccepted ==
  (Answered /\ Accepted /\ IsVersion2(Request) /\ ~Has(Request, "id")) =>
    reply = Plain(202)
=============================================================================
