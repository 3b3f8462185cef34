-------------------------- MODULE ServerProperties --------------------------
(***************************************************************************)
(* What makes the server of module Server correct.                         *)
(***************************************************************************)
EXTENDS Server

-----------------------------------------------------------------------------
(* Types.                                                                  *)

\* The responses the server can give: a bare status, or the handler's answer.
Responses ==
  {Plain(s) : s \in {200, 202, 400, 401, 403, 404, 405, 413, 415, 421, 422, 503}}
    \cup {Respond(r.version, r.body) : r \in Requests}

TelemetryTypeOK ==
  /\ provider \in {"none", "sdk"}
  /\ instruments \in {None, "noop", "sdk"}
  /\ totals \in [Instrument -> Nat]
  /\ reader \in [at : Instrument \cup {"idle", "send"}, last : BOOLEAN,
                 batch : [Instrument -> Nat]]
  /\ exported \in [Instrument -> Nat]
  /\ flush \in {"no", "asked", "late", "ok", "failed"}

ProcessTypeOK ==
  /\ env \in Environments
  /\ phase \in Running \cup Ended
  /\ app \in {None} \cup {AppState(e) : e \in Environments}
  /\ signals \in {"unpolled", "armed", "fired"}
  /\ caught \subseteq Signal
  /\ heard \in BOOLEAN

ConnTypeOK ==
  /\ stage \in [Conns -> Stage]
  /\ req \in [Conns -> Requests \cup {None}]
  /\ got \in [Conns -> 0 .. MaxRequestBytes]
  /\ reply \in [Conns -> Responses \cup {None}]
  /\ closing \in [Conns -> BOOLEAN]
  /\ received \in 0 .. MaxRequests
  /\ ran \in [calls : Nat, errors : Nat]

\* Every variable holds a value of its type: in particular the bodies buffered
\* never exceed DefaultBodyLimit (routes.rs) and every answer is one of the
\* handler's or a bare status.
TypeOK == TelemetryTypeOK /\ ProcessTypeOK /\ ConnTypeOK

-----------------------------------------------------------------------------
(* Telemetry and shutdown.                                                 *)

AtStage(S) == {c \in Conns : stage[c] \in S}
FailedAt(S) == {c \in AtStage(S) : Failed(reply[c])}

\* The instruments lag behind the tools that ran by exactly the tasks that are
\* between two instruments (record_tool_call, telemetry.rs): no interleaving of
\* tasks loses a record or makes one twice.
MetricsConserved ==
  provider = "sdk" =>
    /\ totals["calls"] + Cardinality(AtStage({"calls"})) = ran.calls
    /\ totals["errors"] + Cardinality(FailedAt({"calls", "errors"})) = ran.errors
    /\ totals["durations"] + Cardinality(AtStage({"calls", "errors", "latency"}))
         = ran.calls

\* Once main has come back from serve(), no connection is open and no request
\* is in the hands of the server: the drain waits for every one of them.
QuietShutdown ==
  phase \in {"flushing", "exited"} => \A c \in Conns : stage[c] = "closed"

\* A process that ends through main has exported every tool call it answered,
\* or was told that the export failed: telemetry::shutdown comes after the
\* drain, and its last cycle starts after it.
FinalExportComplete ==
  (phase = "exited" /\ provider = "sdk" /\ flush = "ok") =>
    exported = [calls |-> ran.calls, errors |-> ran.errors, durations |-> ran.calls]

\* What the collector has been sent never shrinks: the counters are cumulative,
\* a failed export loses nothing for good, and no late periodic batch overwrites
\* the last one.
ExportsAreMonotone ==
  [][\A i \in Instrument : exported'[i] >= exported[i]]_vars

\* A connection that has noticed the drain serves the request it is at, or the
\* one whose head is arriving, and no other (axum's graceful shutdown).
DrainTakesNoNewRequest ==
  [][\A c \in Conns :
       (closing[c] /\ req[c] = None /\ stage[c] # "arriving")
         => req'[c] = None]_vars

-----------------------------------------------------------------------------
(* The gate.                                                               *)

\* Not a byte of a body is buffered for a caller the gate would refuse: the
\* gate is outside the body limit and the extractor (router, routes.rs).
NothingBufferedForStrangers ==
  \A c \in Conns : got[c] > 0 => RequireServerAuth(app, req[c]) = Pass

HoldsSecret(r) == app.authSecret # None /\ r.secret = app.authSecret

\* Two callers that do not hold the secret and name the same host get the same
\* answer, whatever else they send: neither the method, the origin, the body
\* nor how close their secret is shows in it.
RefusalsAreBlind ==
  \A c, d \in Conns :
    ( /\ {stage[c], stage[d]} = {"write"}
      /\ {req[c].path, req[d].path} = {"/mcp"}
      /\ req[c].host = req[d].host
      /\ ~HoldsSecret(req[c]) /\ ~HoldsSecret(req[d]) )
    => reply[c] = reply[d]

\* The server implements McpService: as its clients see it every request has
\* one answer, given in one step, and the tools that ran are those of the
\* trusted calls.
InHand(c) == phase \notin Ended /\ stage[c] \notin {"closed", "fresh", "arriving", "idle"}

Service == INSTANCE McpService WITH
  policy  <- app,
  pending <- [c \in Conns |-> IF InHand(c) THEN req[c] ELSE None],
  answer  <- [c \in Conns |-> IF InHand(c) THEN reply[c] ELSE None],
  tally   <- ran

ImplementsService == Service!ServiceSpec

\* The server drains only for a signal that found its handler installed or, as
\* main.rs:62-66 has it, because the Ctrl-C handler could not be: not for a SIGTERM
\* handler that could not, nor for a signal that came before them.
DrainHasACause ==
  phase \in {"draining", "flushing", "exited"} => heard \/ "INT" \notin caught

-----------------------------------------------------------------------------
(* Liveness, under FairSpec.                                               *)

\* No client keeps the server waiting for ever for the rest of a request.
ClientsFinish ==
  \A c \in Conns : []<>(stage[c] \notin {"arriving", "body"})

\* A signal that finds its handler installed is not lost, however early it comes,
\* and the drain ends when the clients finish what they began: there is no other
\* timeout in with_graceful_shutdown.
DrainEnds == ClientsFinish => (heard \/ signals = "fired" ~> phase \in Ended)

\* A tool call that ran is answered, or its client or the process has gone.
CallsAreAnswered ==
  \A c \in Conns : stage[c] = "calls" ~> (stage[c] \in {"idle", "closed"} \/ phase \in Ended)
=============================================================================
