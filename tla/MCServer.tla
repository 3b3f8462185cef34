------------------------------ MODULE MCServer ------------------------------
(***************************************************************************)
(* Small instances of the server for TLC: the texts, environments and      *)
(* requests the configurations choose from.                                *)
(***************************************************************************)
EXTENDS ServerProperties, TLC

MCSymmetry == Permutations(Conns)

MCVersions == {"2025-06-18", "2025-11-25"}

\* Secrets, with 2..3 bytes for the code's 24..4096.
SecretText(id, bytes, visible, blank) ==
  [id |-> id, bytes |-> bytes, visible |-> visible, blank |-> blank]

secret == SecretText("secret", 3, TRUE, FALSE)
guess  == SecretText("guess", 3, TRUE, FALSE)
stub   == SecretText("stub", 1, TRUE, FALSE)

\* Authorities: a name in both cases, another one, and one with a user.
HostText(name, upper, userinfo) ==
  [name |-> name, upper |-> upper, bytes |-> 1, visible |-> TRUE,
   parses |-> TRUE, userinfo |-> userinfo]

api     == HostText("api", FALSE, FALSE)
apiCaps == HostText("api", TRUE, FALSE)
foreign == HostText("foreign", FALSE, FALSE)
anyHost == HostText("*", FALSE, FALSE)

OriginText(authority, path) ==
  [visible |-> TRUE, scheme |-> "https", authority |-> authority, path |-> path]

console == OriginText(HostText("console", FALSE, FALSE), "/")
evil    == OriginText(HostText("evil", FALSE, FALSE), "/")

Collector == [scheme |-> "http", host |-> "collector", userinfo |-> FALSE,
              query |-> FALSE]
Metadata  == [Collector EXCEPT !.host = "metadata"]

Environment(s, hosts, endpoint) ==
  [secret |-> s, hosts |-> hosts, origins |-> {console}, endpoint |-> endpoint]

\* JSON.
Text(t, bytes, chars, control) ==
  [type |-> "string", text |-> t, bytes |-> bytes, chars |-> chars,
   control |-> control]
Word(t) == Text(t, 1, 1, FALSE)
Number(t) == [type |-> "integer", text |-> t]
Object(members) == [type |-> "object", members |-> members]

CallParams(message) ==
  Object([name |-> Word("ping"), arguments |-> Object([message |-> message])])

Message(id, method, params) ==
  Object([jsonrpc |-> Word("2.0"), id |-> id, method |-> Word(method),
          params |-> params])

Notification(method) ==
  Object([jsonrpc |-> Word("2.0"), method |-> Word(method)])

GoodCall == Message(Number("7"), "tools/call", CallParams(Word("hi")))
BadCall  == Message(Number("7"), "tools/call", CallParams(Text("long", 3, 3, FALSE)))
Malformed == [type |-> "malformed"]

\* Requests.
Post(host, s, origin, size, body) ==
  [path |-> "/mcp", verb |-> "POST", host |-> host, secret |-> s,
   origin |-> origin, json |-> TRUE, version |-> None, size |-> size,
   body |-> body]

Call    == Post(api, secret, None, 1, GoodCall)
Mistake == Post(api, secret, None, 1, BadCall)
Health  == [Call EXCEPT !.path = "/health", !.verb = "GET"]

\* The requests that a drain has to see through: two tool calls, one of which
\* fails.
DrainRequests == {Call, Mistake}

\* The requests that tell the layers of the router apart.
GateRequests ==
  {Call, Mistake, Health, [Health EXCEPT !.verb = "HEAD"],
   [Call EXCEPT !.host = apiCaps],
   [Call EXCEPT !.host = foreign],
   [Call EXCEPT !.host = None],
   [Call EXCEPT !.secret = None],
   [Call EXCEPT !.secret = guess],
   [Call EXCEPT !.secret = guess, !.verb = "GET"],
   [Call EXCEPT !.secret = guess, !.origin = evil, !.size = 2],
   [Call EXCEPT !.origin = console],
   [Call EXCEPT !.origin = evil],
   [Call EXCEPT !.verb = "GET"],
   [Call EXCEPT !.json = FALSE],
   [Call EXCEPT !.size = 2],
   [Call EXCEPT !.path = "/nowhere"],
   [Call EXCEPT !.body = Malformed],
   [Call EXCEPT !.version = "1999-01-01"],
   [Call EXCEPT !.body = Notification("tools/call")]}

DrainEnvironments == {Environment(secret, {api}, Collector)}
GateEnvironments ==
  {Environment(s, hosts, endpoint) :
     s \in {None, secret, stub}, hosts \in {{apiCaps}, {api, anyHost}},
     endpoint \in {None, Metadata}}
=============================================================================
