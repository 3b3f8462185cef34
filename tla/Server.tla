------------------------------- MODULE Server -------------------------------
(***************************************************************************)
(* The server process: main.rs starts it, hyper and axum run one task per  *)
(* connection through the router of routes.rs, and a signal drains it.     *)
(*                                                                         *)
(* A connection is fresh (nothing received), arriving (part of its first   *)
(* head received), idle between two requests, or has a request at one of   *)
(* the stages head, body, calls, errors, latency and write.                *)
(***************************************************************************)
EXTENDS Policy, Rpc, Telemetry

CONSTANTS
  Conns,             \* connections the process may hold at a time
  Environments,      \* the environments the process may be started in
  Requests,          \* the requests clients may send
  MaxRequestBytes,   \* the limit on a body, in frames of the model
  MaxRequests,       \* bound: requests received in a behaviour
  Pid1               \* the process is PID 1, as the container's entrypoint is

ASSUME ServerAssumption ==
  /\ IsFiniteSet(Conns)
  /\ None \notin Requests
  /\ None \notin {AppState(e) : e \in Environments}
  /\ MaxRequestBytes \in Nat
  /\ MaxRequests \in Nat
  /\ Pid1 \in BOOLEAN

VARIABLES
  env,         \* the process environment
  phase,       \* how far main has got
  app,         \* the AppState of the router
  signals,     \* shutdown_signal(): "unpolled", "armed" or "fired"
  caught,      \* the signals whose handler is installed
  heard,       \* history: a signal has found its handler installed
  stage, req, got, reply, closing,   \* per connection
  received,    \* history: requests received, bounded by MaxRequests
  ran          \* history: how many tools ran, and how many of them failed

processVars == <<env, phase, app>>
signalVars  == <<signals, caught, heard>>
connVars    == <<stage, req, got, reply, closing>>
historyVars == <<received, ran>>
vars == <<telemetryVars, processVars, signalVars, connVars, historyVars>>

Running == {"boot", "configured", "instrumented", "serving", "draining",
            "flushing"}
Ended   == {"failed", "exited", "killed"}
Serving == {"serving", "draining"}

Stage  == {"closed", "fresh", "arriving", "idle", "head", "body", "calls",
           "errors", "latency", "write"}
Signal == {"INT", "TERM"}

Init ==
  /\ TelemetryInit
  /\ env \in Environments
  /\ phase = "boot"
  /\ app = None
  /\ signals = "unpolled"
  /\ caught = {}
  /\ heard = FALSE
  /\ stage = [c \in Conns |-> "closed"]
  /\ req = [c \in Conns |-> None]
  /\ got = [c \in Conns |-> 0]
  /\ reply = [c \in Conns |-> None]
  /\ closing = [c \in Conns |-> FALSE]
  /\ received = 0
  /\ ran = [calls |-> 0, errors |-> 0]

-----------------------------------------------------------------------------
(* main, up to the accept loop. An error ends the process there and then.  *)

LoadConfig ==
  /\ phase = "boot"
  /\ IF ValidConfig(env)
     THEN phase' = "configured" /\ app' = AppState(env)
     ELSE phase' = "failed" /\ UNCHANGED app
  /\ UNCHANGED <<telemetryVars, env, signalVars, connVars, historyVars>>

InitTelemetry ==
  /\ phase = "configured"
  /\ \/ InitProviders(env.endpoint) /\ phase' = "instrumented"
     \/ env.endpoint # None /\ phase' = "failed" /\ UNCHANGED telemetryVars
  /\ UNCHANGED <<env, app, signalVars, connVars, historyVars>>

Bind ==
  /\ phase = "instrumented"
  /\ phase' \in {"serving", "failed"}
  /\ UNCHANGED <<telemetryVars, env, app, signalVars, connVars, historyVars>>

-----------------------------------------------------------------------------
(* Signals.                                                                *)

\* Mutant: either branch completes when its handler cannot be installed.
ArmSignalsEither ==
  /\ phase = "serving"
  /\ signals = "unpolled"
  /\ \E ok \in SUBSET Signal : caught' = ok /\ signals' = IF ok = Signal THEN "armed" ELSE "fired"
  /\ UNCHANGED <<telemetryVars, processVars, heard, connVars, historyVars>>

\* The first poll of shutdown_signal, in a task of its own: select! polls its
\* two branches in either order, and the Ctrl-C branch completes when its
\* handler cannot be installed.
ArmSignals ==
  /\ phase = "serving"
  /\ signals = "unpolled"
  /\ \E intOk, termOk, termFirst \in BOOLEAN :
       /\ caught' = {s \in Signal : \/ s = "INT" /\ intOk
                                    \/ /\ s = "TERM" /\ termOk
                                       /\ intOk \/ termFirst}
       /\ signals' = IF intOk THEN "armed" ELSE "fired"
  /\ UNCHANGED <<telemetryVars, processVars, heard, connVars, historyVars>>

\* A handler, once installed, stays: later signals of its kind do nothing.
\* Without one the default action ends the process, unless it is PID 1.
ReceiveSignal(s) ==
  /\ phase \in Running
  /\ heard' = (heard \/ s \in caught)
  /\ signals' = IF s \in caught /\ signals = "armed" THEN "fired" ELSE signals
  /\ phase' = IF s \in caught \/ Pid1 THEN phase ELSE "killed"
  /\ UNCHANGED <<telemetryVars, env, app, caught, connVars, historyVars>>

Kill ==
  /\ phase \in Running
  /\ phase' = "killed"
  /\ UNCHANGED <<telemetryVars, env, app, signalVars, connVars, historyVars>>

-----------------------------------------------------------------------------
(* What clients do.                                                        *)

Connection(c, s, r, n, a, k) ==
  /\ stage' = [stage EXCEPT ![c] = s]
  /\ req' = [req EXCEPT ![c] = r]
  /\ got' = [got EXCEPT ![c] = n]
  /\ reply' = [reply EXCEPT ![c] = a]
  /\ closing' = [closing EXCEPT ![c] = k]

Close(c) == Connection(c, "closed", None, 0, None, FALSE)

\* The accept loop may win a connection after the signal has fired.
Accept(c) ==
  /\ phase = "serving"
  /\ stage[c] = "closed"
  /\ Connection(c, "fresh", None, 0, None, FALSE)
  /\ UNCHANGED <<telemetryVars, processVars, signalVars, historyVars>>

BeginHead(c) ==
  /\ phase \in Serving
  /\ stage[c] = "fresh"
  /\ Connection(c, "arriving", None, 0, None, closing[c])
  /\ UNCHANGED <<telemetryVars, processVars, signalVars, historyVars>>

ReceiveHead(c) ==
  /\ phase \in Serving
  /\ stage[c] \in {"arriving", "idle"}
  /\ received < MaxRequests
  /\ received' = received + 1
  /\ \E r \in Requests : Connection(c, "head", r, 0, None, closing[c])
  /\ UNCHANGED <<telemetryVars, processVars, signalVars, ran>>

\* The client goes away. The stages missing here are one poll of the task: it
\* cannot be dropped in the middle of them.
Disconnect(c) ==
  /\ phase \in Serving
  /\ stage[c] \in {"fresh", "arriving", "idle", "body", "write"}
  /\ Close(c)
  /\ UNCHANGED <<telemetryVars, processVars, signalVars, historyVars>>

-----------------------------------------------------------------------------
(* The router and the handlers.                                            *)

Answer(c, a) == Connection(c, "write", req[c], got[c], a, closing[c])

\* Mutant: the gate is laid under the routes that are added later, not /mcp.
WantsBodyUngated(r) == r.path = "/mcp" /\ r.verb = "POST" /\ r.json

\* The request is one for the handler, as far as its head can tell.
WantsBody(r) ==
  /\ r.path = "/mcp"
  /\ RequireServerAuth(app, r) = Pass
  /\ r.verb = "POST"
  /\ r.json

\* What the router answers from the head alone. The gate is a route layer of
\* /mcp: it comes before the method and the content type are looked at. A probe
\* that is routed with get() answers HEAD as well.
AnswerHead(r) ==
  CASE r.path \in {"/health", "/ready"} ->
         Plain(IF r.verb \in {"GET", "HEAD"} THEN 200 ELSE 405)
    [] r.path = "/mcp" ->
         Plain(IF RequireServerAuth(app, r) # Pass THEN RequireServerAuth(app, r)
               ELSE IF r.verb # "POST" THEN 405
               ELSE 415)
    [] OTHER -> Plain(404)

Route(c) ==
  /\ phase \in Serving
  /\ stage[c] = "head"
  /\ IF WantsBody(req[c])
     THEN Connection(c, "body", req[c], 0, None, closing[c])
     ELSE Answer(c, AnswerHead(req[c]))
  /\ UNCHANGED <<telemetryVars, processVars, signalVars, historyVars>>

\* Mutant: one frame too many is let through.
ReceiveFrameUnbounded(c) ==
  /\ phase \in Serving
  /\ stage[c] = "body"
  /\ got[c] < req[c].size
  /\ Connection(c, "body", req[c], got[c] + 1, None, closing[c])
  /\ UNCHANGED <<telemetryVars, processVars, signalVars, historyVars>>

\* A frame of the body arrives; the one that passes the limit ends the read.
ReceiveFrame(c) ==
  /\ phase \in Serving
  /\ stage[c] = "body"
  /\ got[c] < req[c].size
  /\ IF got[c] = MaxRequestBytes
     THEN Answer(c, Plain(413))
     ELSE Connection(c, "body", req[c], got[c] + 1, None, closing[c])
  /\ UNCHANGED <<telemetryVars, processVars, signalVars, historyVars>>

\* The whole body is here: the extractor and handle() run without a pause, up
\* to the first instrument a tool call is recorded on.
RunHandler(c) ==
  /\ phase \in Serving
  /\ stage[c] = "body"
  /\ got[c] = req[c].size
  /\ LET answer  == Respond(req[c].version, req[c].body)
         outcome == Outcome(req[c].version, req[c].body)
     IN /\ Connection(c, IF outcome = "none" THEN "write" ELSE "calls",
                      req[c], got[c], answer, closing[c])
        /\ ran' = [calls  |-> ran.calls + (IF outcome = "none" THEN 0 ELSE 1),
                   errors |-> ran.errors + (IF outcome = "error" THEN 1 ELSE 0)]
  /\ UNCHANGED <<telemetryVars, processVars, signalVars, received>>

Failed(a) == "error" \in DOMAIN a.body

\* Mutant: the error counter is left out.
RecordCallOnly(c) ==
  /\ phase \in Serving
  /\ stage[c] = "calls"
  /\ Record("calls")
  /\ stage' = [stage EXCEPT ![c] = "latency"]
  /\ UNCHANGED <<processVars, signalVars, req, got, reply, closing, historyVars>>

\* record_tool_call, one instrument at a time.
RecordCall(c) ==
  /\ phase \in Serving
  /\ stage[c] = "calls"
  /\ Record("calls")
  /\ stage' = [stage EXCEPT ![c] = IF Failed(reply[c]) THEN "errors"
                                                       ELSE "latency"]
  /\ UNCHANGED <<processVars, signalVars, req, got, reply, closing, historyVars>>

RecordError(c) ==
  /\ phase \in Serving
  /\ stage[c] = "errors"
  /\ Record("errors")
  /\ stage' = [stage EXCEPT ![c] = "latency"]
  /\ UNCHANGED <<processVars, signalVars, req, got, reply, closing, historyVars>>

RecordLatency(c) ==
  /\ phase \in Serving
  /\ stage[c] = "latency"
  /\ Record("durations")
  /\ stage' = [stage EXCEPT ![c] = "write"]
  /\ UNCHANGED <<processVars, signalVars, req, got, reply, closing, historyVars>>

\* Mutant: keep-alive is not disabled by the drain.
WriteResponseKeepAlive(c) ==
  /\ phase \in Serving
  /\ stage[c] = "write"
  /\ Connection(c, "idle", None, 0, None, closing[c])
  /\ UNCHANGED <<telemetryVars, processVars, signalVars, historyVars>>

\* Mutant: a connection that is closing is never written to.
WriteResponseOpenOnly(c) ==
  /\ phase \in Serving
  /\ stage[c] = "write"
  /\ ~closing[c]
  /\ Connection(c, "idle", None, 0, None, FALSE)
  /\ UNCHANGED <<telemetryVars, processVars, signalVars, historyVars>>

\* The connection is kept for another request unless the drain has reached it
\* or the rest of the body is in the way.
WriteResponse(c) ==
  /\ phase \in Serving
  /\ stage[c] = "write"
  /\ \/ Close(c) /\ (closing[c] \/ got[c] < req[c].size)
     \/ Connection(c, "idle", None, 0, None, FALSE) /\ ~closing[c]
  /\ UNCHANGED <<telemetryVars, processVars, signalVars, historyVars>>

-----------------------------------------------------------------------------
(* The graceful shutdown of axum::serve, and the rest of main.             *)

StopAccepting ==
  /\ phase = "serving"
  /\ signals = "fired"
  /\ phase' = "draining"
  /\ UNCHANGED <<telemetryVars, env, app, signalVars, connVars, historyVars>>

\* Mutant: an idle connection is left to its client.
NoticeDrainPatiently(c) ==
  /\ phase \in Serving
  /\ signals = "fired"
  /\ ~closing[c]
  /\ stage[c] # "closed"
  /\ Connection(c, stage[c], req[c], got[c], reply[c], TRUE)
  /\ UNCHANGED <<telemetryVars, processVars, signalVars, historyVars>>

\* Each connection's task notices the signal by itself: it closes at once if
\* no request has begun on it, after the request it is at otherwise.
NoticeDrain(c) ==
  /\ phase \in Serving
  /\ signals = "fired"
  /\ ~closing[c]
  /\ stage[c] # "closed"
  /\ IF stage[c] \in {"fresh", "idle"}
     THEN Close(c)
     ELSE Connection(c, stage[c], req[c], got[c], reply[c], TRUE)
  /\ UNCHANGED <<telemetryVars, processVars, signalVars, historyVars>>

\* Mutant: main does not wait for the connections.
FinishDrainAtOnce ==
  /\ phase = "draining"
  /\ phase' = "flushing"
  /\ AskFlush
  /\ UNCHANGED <<env, app, signalVars, connVars, historyVars>>

\* serve() returns when the last connection task has ended; main goes on to
\* telemetry::shutdown.
FinishDrain ==
  /\ phase = "draining"
  /\ \A c \in Conns : stage[c] = "closed"
  /\ phase' = "flushing"
  /\ AskFlush
  /\ UNCHANGED <<env, app, signalVars, connVars, historyVars>>

\* telemetry::shutdown comes back with an error it only logs.
LoseFlush ==
  /\ phase = "flushing"
  /\ GiveUp
  /\ UNCHANGED <<processVars, signalVars, connVars, historyVars>>

Exit ==
  /\ phase = "flushing"
  /\ flush \in {"ok", "failed", "late"}
  /\ phase' = "exited"
  /\ UNCHANGED <<telemetryVars, env, app, signalVars, connVars, historyVars>>

ReaderStep ==
  /\ phase \in Running
  /\ Reader
  /\ UNCHANGED <<processVars, signalVars, connVars, historyVars>>

-----------------------------------------------------------------------------

Startup == LoadConfig \/ InitTelemetry \/ Bind

Client(c) == Accept(c) \/ BeginHead(c) \/ ReceiveHead(c) \/ ReceiveFrame(c)
             \/ Disconnect(c)

Task(c) == Route(c) \/ RunHandler(c) \/ RecordCall(c) \/ RecordError(c)
           \/ RecordLatency(c) \/ WriteResponse(c) \/ NoticeDrain(c)

Shutdown == ArmSignals \/ StopAccepting \/ FinishDrain \/ LoseFlush \/ Exit

Next ==
  \/ Startup
  \/ \E s \in Signal : ReceiveSignal(s)
  \/ Kill
  \/ \E c \in Conns : Client(c) \/ Task(c)
  \/ Shutdown
  \/ ReaderStep

Spec == Init /\ [][Next]_vars

\* The runtime polls every task that is ready and the reader's thread runs;
\* clients, signals and the operator owe nothing.
Fairness ==
  /\ WF_vars(Startup)
  /\ WF_vars(Shutdown)
  /\ WF_vars(ReaderStep)
  /\ \A c \in Conns : WF_vars(Route(c) \/ RunHandler(c) \/ RecordCall(c)
                              \/ RecordError(c) \/ RecordLatency(c)
                              \/ WriteResponse(c))
  /\ \A c \in Conns : WF_vars(NoticeDrain(c))

FairSpec == Spec /\ Fairness
=============================================================================
