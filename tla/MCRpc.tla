------------------------------- MODULE MCRpc -------------------------------
(***************************************************************************)
(* The messages of a small client: every kind of envelope, id, method,     *)
(* params and arguments that the handler tells apart.                      *)
(***************************************************************************)
EXTENDS RpcSession, TLC

MCSupported == {"2025-03-26", "2025-06-18", "2025-11-25"}
MCVersions  == {None, "2025-06-18", "1999-01-01"}

Value(type) == [type |-> type]
Text(t, bytes, chars, control) ==
  [type |-> "string", text |-> t, bytes |-> bytes, chars |-> chars,
   control |-> control]
Word(t) == Text(t, 1, 1, FALSE)
Object(members) == [type |-> "object", members |-> members]

\* Values of a member, with None for its absence.
Ids == {None, Word("a"), [type |-> "integer", text |-> "7"], JsonNull,
        Value("wide"), Value("fraction"), Value("bool"), Value("array"),
        Value("object")}
Jsonrpcs == {None, JsonNull, Word("2.0"), Word("1.0"), Value("integer")}
Methods  == {None, Word("initialize"), Word("ping"), Word("tools/list"),
             Word("tools/call"), Word("notifications/initialized"),
             Value("integer")}

\* With MaxPingMessageBytes = 2: within the bound, over it in bytes only, over
\* it in bytes and characters, with a control character, and of another type.
MessageTexts == {Text("ok", 2, 2, FALSE), Text("accents", 3, 2, FALSE),
                 Text("long", 3, 3, FALSE), Text("bell", 1, 1, TRUE),
                 Value("integer")}
PingArgumentValues ==
  {JsonNull, Value("array"), Object([k \in {} |-> None]),
   Object([extra |-> Word("x")])}
  \cup {Object([message |-> m]) : m \in MessageTexts}
  \cup {Object([message |-> m, extra |-> Word("x")]) : m \in MessageTexts}

ToolParams ==
  {JsonNull, Value("array"), Object([k \in {} |-> None]),
   Object([name |-> Value("integer")]), Object([name |-> Word("ping")]),
   Object([name |-> Word("other")]),
   Object([name |-> Word("ping"), extra |-> Word("x")])}
  \cup {Object([name |-> Word(n), arguments |-> a]) :
          n \in {"ping", "other"}, a \in PingArgumentValues}

InitializeParams ==
  {JsonNull, Object([k \in {} |-> None]),
   Object([protocolVersion |-> Value("integer")])}
  \cup {Object([protocolVersion |-> Word(v)]) :
          v \in MCSupported \cup {"1999-01-01"}}

Params == {None} \cup ToolParams \cup InitializeParams

Member(key, value) ==
  IF value = None THEN [k \in {} |-> None] ELSE key :> value

Message(jsonrpc, method, id, params) ==
  Object(Member("jsonrpc", jsonrpc) @@ Member("method", method)
         @@ Member("id", id) @@ Member("params", params))

SomeId == [type |-> "integer", text |-> "7"]

MCMessages ==
  {Message(j, m, i, p) : j \in Jsonrpcs, m \in Methods, i \in Ids,
     p \in {None, Object([name |-> Word("ping")])}}
  \cup {Message(Word("2.0"), m, i, p) :
          m \in Methods \ {None}, i \in {None, SomeId}, p \in Params}
  \cup {Object([method |-> Word("ping"), extra |-> Word("x")]),
        Value("malformed"), Value("repeated"), Value("integer")}
  \cup {[type |-> "array",
         items |-> SubSeq(<<Word("2.0"), m, Object([name |-> Word("ping")]), i,
                            JsonNull>>, 1, n)] :
          m \in Methods \ {None}, i \in Ids \ {None}, n \in 0 .. 5}
=============================================================================
