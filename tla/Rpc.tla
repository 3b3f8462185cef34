--------------------------------- MODULE Rpc ---------------------------------
(***************************************************************************)
(* The JSON-RPC handler of mcp.rs: what the Json extractor accepts as a    *)
(* request, and the answer handle() computes from it.                      *)
(*                                                                         *)
(* A JSON value is a record with its type: an object has its members (a    *)
(* function from their names), an array its items, a string the facts the  *)
(* code asks of it (bytes, chars, control), any other value only its type. *)
(* An integer beyond 64 bits is of the type "wide", a number with a        *)
(* fraction or an exponent of the type "fraction".                         *)
(***************************************************************************)
EXTENDS Integers, Sequences, Http

CONSTANTS
  ProtocolVersion,      \* "2025-11-25"
  SupportedVersions,    \* the revisions the endpoint accepts
  MaxPingMessageBytes   \* 1024

ASSUME RpcAssumption ==
  /\ ProtocolVersion \in SupportedVersions
  /\ MaxPingMessageBytes \in Nat

InvalidRequest == -32600
MethodNotFound == -32601
InvalidParams  == -32602

JsonNull == [type |-> "null"]

Has(object, key) == key \in DOMAIN object.members
Get(object, key) == object.members[key]
OnlyKeys(object, allowed) == DOMAIN object.members \subseteq allowed

-----------------------------------------------------------------------------
(* The request envelope.                                                   *)

FieldPosition == [jsonrpc |-> 1, method |-> 2, params |-> 3, id |-> 4]

\* serde's derived visitor also takes a struct from an array, by position.
Envelope(json) ==
  IF json.type # "array" THEN json
  ELSE [type |-> "object",
        members |-> [k \in {f \in DOMAIN FieldPosition :
                              FieldPosition[f] <= Len(json.items)} |->
                       json.items[FieldPosition[k]]]]

WellTyped(envelope) ==
  /\ envelope.type = "object"
  /\ OnlyKeys(envelope, DOMAIN FieldPosition)
  /\ Has(envelope, "method")
  /\ Get(envelope, "method").type = "string"
  /\ Has(envelope, "jsonrpc") =>
       Get(envelope, "jsonrpc").type \in {"string", "null"}

\* The status of the Json extractor's rejection, or 200. A body of the type
\* "malformed" is no JSON; one that repeats a member is of the type "repeated".
\* An item after the fourth of an array is a syntax error.
ExtractStatus(json) ==
  IF json.type = "malformed" THEN 400
  ELSE IF ~WellTyped(Envelope(json)) THEN 422
  ELSE IF json.type = "array" /\ Len(json.items) > 4 THEN 400
  ELSE 200

\* RpcId: a member that is present is valid when it is a string or an integer
\* that fits 64 bits, an explicit null is present and invalid.
IdKind(envelope) ==
  IF ~Has(envelope, "id") THEN "missing"
  ELSE IF Get(envelope, "id").type \in {"string", "integer"} THEN "valid"
  ELSE "invalid"

\* Mutant: an error answer never carries an id.
ErrorIdNull(envelope) == JsonNull

ErrorId(envelope) ==
  IF IdKind(envelope) = "valid" THEN Get(envelope, "id") ELSE JsonNull

Ok(id, result) == [id |-> id, result |-> result]
Err(id, code)  == [id |-> id, error |-> code]

ParamsOf(envelope) ==
  IF Has(envelope, "params") THEN Get(envelope, "params") ELSE JsonNull

-----------------------------------------------------------------------------
(* Protocol revisions.                                                     *)

ProtocolHeaderSupported(version) ==
  version # None => version \in SupportedVersions

\* Mutant: any revision the client proposes is agreed to.
NegotiatedProtocolVersionAny(params) ==
  IF /\ params.type = "object"
     /\ Has(params, "protocolVersion")
     /\ Get(params, "protocolVersion").type = "string"
  THEN Get(params, "protocolVersion").text
  ELSE ProtocolVersion

NegotiatedProtocolVersion(params) ==
  IF /\ params.type = "object"
     /\ Has(params, "protocolVersion")
     /\ Get(params, "protocolVersion").type = "string"
     /\ Get(params, "protocolVersion").text \in SupportedVersions
  THEN Get(params, "protocolVersion").text
  ELSE ProtocolVersion

-----------------------------------------------------------------------------
(* The tool catalog and the one tool in it.                                *)

\* The inputSchema of ping. JSON Schema's maxLength counts characters.
PingSchemaAdmits(arguments) ==
  /\ arguments.type = "object"
  /\ OnlyKeys(arguments, {"message"})
  /\ Has(arguments, "message") =>
       /\ Get(arguments, "message").type = "string"
       /\ Get(arguments, "message").chars <= MaxPingMessageBytes

\* call_tool reaches the arm of a tool of that name.
ReachesTool(params, tool) ==
  /\ params.type = "object"
  /\ OnlyKeys(params, {"name", "arguments"})
  /\ Has(params, "name")
  /\ Get(params, "name").type = "string"
  /\ Has(params, "arguments") =>
       Get(params, "arguments").type \in {"null", "object"}
  /\ Get(params, "name").text = tool

\* The arguments ping works with: null and an absent member are no arguments.
PingArguments(params) ==
  IF Has(params, "arguments") /\ Get(params, "arguments").type = "object"
  THEN Get(params, "arguments")
  ELSE [type |-> "object", members |-> [k \in {} |-> None]]

\* Mutant: the bound is off by one.
PingAcceptsOneMore(arguments) ==
  /\ OnlyKeys(arguments, {"message"})
  /\ Has(arguments, "message") =>
       /\ Get(arguments, "message").type = "string"
       /\ Get(arguments, "message").bytes <= MaxPingMessageBytes + 1
       /\ ~Get(arguments, "message").control

\* Every message but one that is absent is bounded in bytes and control-free.
PingAccepts(arguments) ==
  /\ OnlyKeys(arguments, {"message"})
  /\ Has(arguments, "message") =>
       /\ Get(arguments, "message").type = "string"
       /\ Get(arguments, "message").bytes <= MaxPingMessageBytes
       /\ ~Get(arguments, "message").control

CallPing(id, arguments) ==
  IF ~PingAccepts(arguments) THEN Err(id, InvalidParams)
  ELSE Ok(id, [kind |-> "content",
               message |-> IF Has(arguments, "message")
                           THEN Get(arguments, "message").text
                           ELSE "pong"])

CallTool(id, params) ==
  IF ReachesTool(params, "ping")
  THEN CallPing(id, PingArguments(params))
  ELSE Err(id, InvalidParams)

Dispatch(id, method, params) ==
  CASE method = "initialize" ->
         Ok(id, [kind |-> "initialize",
                 protocolVersion |-> NegotiatedProtocolVersion(params)])
    [] method = "ping"       -> Ok(id, [kind |-> "empty"])
    [] method = "tools/list" -> Ok(id, [kind |-> "tools"])
    [] method = "tools/call" -> CallTool(id, params)
    [] OTHER                 -> Err(id, MethodNotFound)

-----------------------------------------------------------------------------
(* handle(): a request the extractor accepted becomes a response.          *)

IsVersion2(envelope) ==
  /\ Has(envelope, "jsonrpc")
  /\ Get(envelope, "jsonrpc").type = "string"
  /\ Get(envelope, "jsonrpc").text = "2.0"

\* The early returns of handle() leave the rest to dispatch.
Dispatches(version, envelope) ==
  /\ IsVersion2(envelope)
  /\ ProtocolHeaderSupported(version)
  /\ IdKind(envelope) = "valid"

\* A request without an id is a notification, accepted whatever its method.
Handle(version, envelope) ==
  IF Dispatches(version, envelope)
  THEN Response(200, Dispatch(Get(envelope, "id"), Get(envelope, "method").text,
                              ParamsOf(envelope)))
  ELSE IF /\ IsVersion2(envelope)
          /\ ProtocolHeaderSupported(version)
          /\ IdKind(envelope) = "missing"
  THEN Plain(202)
  ELSE Response(400, Err(ErrorId(envelope), InvalidRequest))

\* Mutant: the tool runs before the id of the request is looked at.
ToolOutcomeBeforeId(version, envelope) ==
  IF /\ Get(envelope, "method").text = "tools/call"
     /\ ReachesTool(ParamsOf(envelope), "ping")
  THEN IF PingAccepts(PingArguments(ParamsOf(envelope))) THEN "ok" ELSE "error"
  ELSE "none"

\* The outcome call_tool hands to the telemetry, "none" when no tool ran.
ToolOutcome(version, envelope) ==
  IF /\ Dispatches(version, envelope)
     /\ Get(envelope, "method").text = "tools/call"
     /\ ReachesTool(ParamsOf(envelope), "ping")
  THEN IF "error" \in DOMAIN CallPing(Get(envelope, "id"),
                                      PingArguments(ParamsOf(envelope)))
       THEN "error" ELSE "ok"
  ELSE "none"

\* What the endpoint makes of a body it has read in full.
Respond(version, json) ==
  IF ExtractStatus(json) = 200 THEN Handle(version, Envelope(json))
  ELSE Plain(ExtractStatus(json))

Outcome(version, json) ==
  IF ExtractStatus(json) = 200 THEN ToolOutcome(version, Envelope(json))
  ELSE "none"
=============================================================================
