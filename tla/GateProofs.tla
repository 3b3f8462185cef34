----------------------------- MODULE GateProofs -----------------------------
(***************************************************************************)
(* Proofs about the gate in front of /mcp and about the drain, for any set *)
(* of connections, environments and requests.                              *)
(***************************************************************************)
EXTENDS ServerProofs

-----------------------------------------------------------------------------
(* The gate.                                                               *)

Admitted(r) == RequireServerAuth(app, r) = Pass

\* What a caller without the secret is told: it depends on the host alone.
Refusal(r) == IF app.authSecret = None THEN 503
              ELSE IF ~HostAllowed(r.host, app) THEN 421
              ELSE 401

\* The stages that only the handler's requests come to.
Handling == {"body", "calls", "errors", "latency"}

\* The inductive form of both properties of the gate: who is past it holds the
\* secret, and who is not gets a refusal that is blind.
ConnGate(s, r, n, a) ==
  /\ s = "closed" => n = 0
  /\ s \in Handling \/ n > 0 => Admitted(r)
  /\ (s = "write" /\ r.path = "/mcp" /\ ~HoldsSecret(r)) => a = Plain(Refusal(r))

GateOK == \A c \in Conns : ConnGate(stage[c], req[c], got[c], reply[c])

\* The gate lets nobody through but the holders of the secret, and refuses all
\* others before it looks at anything but their host.
LEMMA GateRefuses ==
  ASSUME NEW r, ~HoldsSecret(r)
  PROVE  RequireServerAuth(app, r) = Refusal(r) /\ ~Admitted(r)
  BY DEF HoldsSecret, RequireServerAuth, SecretsMatch, PresentedSecret, Refusal,
     Admitted, Pass

\* A connection that is set to values the gate agrees to leaves the others be.
LEMMA GateConnection ==
  ASSUME TypeInv, GateOK, app' = app, NEW c \in Conns, NEW s, NEW r, NEW n, NEW a, NEW k,
         Connection(c, s, r, n, a, k), ConnGate(s, r, n, a)
  PROVE  GateOK'
  BY DEF TypeInv, TypeOK, ConnTypeOK, GateOK, ConnGate, Connection, Admitted,
     Refusal, HoldsSecret

\* What happens outside the connections, once there is an AppState.
LEMMA GateKept ==
  ASSUME GateOK, app' = app, UNCHANGED connVars
  PROVE  GateOK'
  BY DEF GateOK, ConnGate, connVars, Admitted, Refusal, HoldsSecret

\* record_tool_call moves on a connection that the gate has let through.
LEMMA GateRecorded ==
  ASSUME TypeInv, GateOK, app' = app, NEW c \in Conns, stage[c] \in Handling,
         NEW s, s # "closed", stage' = [stage EXCEPT ![c] = s],
         UNCHANGED <<req, got, reply>>
  PROVE  GateOK'
<1>1. Admitted(req[c]) /\ HoldsSecret(req[c])
  BY GateRefuses DEF GateOK, ConnGate
<1> QED
  BY <1>1 DEF TypeInv, TypeOK, ConnTypeOK, GateOK, ConnGate, Admitted, Refusal,
     HoldsSecret

\* Every step keeps strangers out of the handler and answers them alike.
LEMMA GateStep == TypeInv /\ PhasesOK /\ GateOK /\ [Next]_vars => GateOK'
<1> SUFFICES ASSUME TypeInv, PhasesOK, GateOK, [Next]_vars PROVE GateOK'
  OBVIOUS
<1>1. CASE LoadConfig
  <2>1. \A c \in Conns : stage[c] = "closed"
    BY <1>1 DEF LoadConfig, PhasesOK
  <2> QED
    BY <1>1, <2>1 DEF LoadConfig, GateOK, ConnGate, connVars, Handling
<1>2. CASE \/ InitTelemetry \/ Bind \/ Kill \/ Shutdown \/ ReaderStep
           \/ UNCHANGED vars \/ \E s \in Signal : ReceiveSignal(s)
  BY <1>2, GateKept DEF InitTelemetry, Bind, Kill, Shutdown, ArmSignals,
     StopAccepting, FinishDrain, LoseFlush, Exit, ReaderStep, vars, processVars,
     ReceiveSignal
<1>3. ASSUME NEW c \in Conns, Client(c) \/ Task(c) PROVE GateOK'
  <2>a. ConnGate(stage[c], req[c], got[c], reply[c]) /\ got[c] \in Nat
    BY ServerAssumption DEF GateOK, TypeInv, TypeOK, ConnTypeOK
  <2>b. app' = app
    BY <1>3 DEF Client, Accept, BeginHead, ReceiveHead, ReceiveFrame,
       Disconnect, Task, Route, RunHandler, RecordCall, RecordError,
       RecordLatency, WriteResponse, NoticeDrain, processVars
  <2>1. CASE Accept(c) \/ BeginHead(c) \/ ReceiveHead(c)
    <3>1. PICK s \in {"fresh", "arriving", "head"}, r \in Requests \cup {None}, k \in BOOLEAN :
            Connection(c, s, r, 0, None, k)
      BY <2>1 DEF Accept, BeginHead, ReceiveHead, TypeInv, TypeOK, ConnTypeOK
    <3>2. ConnGate(s, r, 0, None)
      BY DEF ConnGate, Handling
    <3> QED
      BY <3>1, <3>2, <2>b, GateConnection
  <2>2. CASE Disconnect(c) \/ WriteResponse(c) \/ NoticeDrain(c)
    <3>1. \/ \E s \in {"closed", "idle"} : Connection(c, s, None, 0, None, FALSE)
          \/ Connection(c, stage[c], req[c], got[c], reply[c], TRUE)
      BY <2>2 DEF Disconnect, WriteResponse, NoticeDrain, Close
    <3>2. ASSUME NEW s \in {"closed", "idle"} PROVE ConnGate(s, None, 0, None)
      BY DEF ConnGate, Handling
    <3> QED
      BY <3>1, <3>2, <2>a, <2>b, GateConnection
  <2>3. CASE RecordCall(c) \/ RecordError(c) \/ RecordLatency(c)
    BY <2>3, <2>b, GateRecorded DEF RecordCall, RecordError, RecordLatency, Handling
  <2>4. CASE Route(c)
    <3>1. CASE WantsBody(req[c])
      BY <2>4, <2>b, <3>1, GateConnection DEF Route, WantsBody, ConnGate, Admitted
    <3>2. CASE ~WantsBody(req[c])
      <4>1. (req[c].path = "/mcp" /\ ~HoldsSecret(req[c]))
              => AnswerHead(req[c]) = Plain(Refusal(req[c]))
        BY GateRefuses DEF AnswerHead, Admitted
      <4> QED
        BY <2>4, <2>a, <2>b, <3>2, <4>1, GateConnection
           DEF Route, Answer, ConnGate, Handling
    <3> QED
      BY <3>1, <3>2
  <2>5. CASE ReceiveFrame(c) \/ RunHandler(c)
    <3>1. Admitted(req[c]) /\ HoldsSecret(req[c])
      BY <2>5, <2>a, GateRefuses DEF ReceiveFrame, RunHandler, ConnGate, Handling
    <3> QED
      BY <2>5, <2>b, <3>1, GateConnection DEF ReceiveFrame, RunHandler, Answer, ConnGate
  <2> QED
    BY <1>3, <2>1, <2>2, <2>3, <2>4, <2>5 DEF Client, Task
<1> QED
  BY <1>1, <1>2, <1>3 DEF Next, Startup

\* In every reachable state the gate stands between strangers and the handler.
LEMMA GateInvariant == Spec => []GateOK
<1>1. Init => GateOK
  BY DEF Init, GateOK, ConnGate, Handling
<1> QED
  BY <1>1, GateStep, TypeInvariant, PhasesInvariant, PTL DEF Spec

\* Not a byte of a body is buffered for a caller the gate refuses, however the
\* connections interleave (router, routes.rs).
THEOREM StrangersAreNotBuffered == Spec => []NothingBufferedForStrangers
<1>1. GateOK => NothingBufferedForStrangers
  BY DEF GateOK, ConnGate, Admitted, NothingBufferedForStrangers
<1> QED
  BY <1>1, GateInvariant, PTL

\* Callers without the secret that name the same host get the same answer
\* (require_server_auth, auth.rs).
THEOREM RefusalsTellNothing == Spec => []RefusalsAreBlind
<1>1. TypeInv /\ GateOK => RefusalsAreBlind
  BY DEF GateOK, ConnGate, RefusalsAreBlind, Refusal
<1> QED
  BY <1>1, TypeInvariant, GateInvariant, PTL

-----------------------------------------------------------------------------
(* What starts a drain.                                                    *)

Caused == heard \/ "INT" \notin caught

CauseOK ==
  /\ signals = "unpolled" => caught = {} /\ phase \notin {"draining", "flushing", "exited"}
  /\ phase \in {"draining", "flushing", "exited"} => signals = "fired"
  /\ signals = "fired" => Caused

\* Only a signal that is heard, or a Ctrl-C handler that is missing, completes
\* shutdown_signal.
LEMMA CauseStep == TypeInv /\ CauseOK /\ [Next]_vars => CauseOK'
<1> SUFFICES ASSUME TypeInv, CauseOK, [Next]_vars PROVE CauseOK'
  OBVIOUS
<1>a. caught \subseteq Signal /\ signals \in {"unpolled", "armed", "fired"}
  BY DEF TypeInv, TypeOK, ProcessTypeOK
<1>1. CASE ArmSignals
  <2>1. PICK intOk, termOk, termFirst \in BOOLEAN :
          /\ caught' = {s \in Signal : \/ s = "INT" /\ intOk
                                       \/ /\ s = "TERM" /\ termOk
                                          /\ intOk \/ termFirst}
          /\ signals' = IF intOk THEN "armed" ELSE "fired"
    BY <1>1 DEF ArmSignals
  <2>2. "INT" \notin caught' <=> ~intOk
    BY <2>1 DEF Signal
  <2> QED
    BY <1>1, <2>1, <2>2 DEF ArmSignals, CauseOK, Caused, processVars
<1>2. CASE \E s \in Signal : ReceiveSignal(s)
  BY <1>2, <1>a DEF ReceiveSignal, CauseOK, Caused, Running
<1>3. CASE StopAccepting \/ FinishDrain \/ Exit
  BY <1>3 DEF StopAccepting, FinishDrain, Exit, CauseOK, Caused, signalVars
<1>4. CASE Startup \/ Kill
  BY <1>4 DEF Startup, LoadConfig, InitTelemetry, Bind, Kill, CauseOK, Caused, signalVars
<1>5. CASE LoseFlush \/ ReaderStep \/ UNCHANGED vars \/ \E c \in Conns : Client(c) \/ Task(c)
  <2>1. UNCHANGED <<phase, signals, caught, heard>>
    BY <1>5 DEF LoseFlush, ReaderStep, vars, processVars, signalVars, Client,
       Accept, BeginHead, ReceiveHead, ReceiveFrame, Disconnect, Task, Route,
       RunHandler, RecordCall, RecordError, RecordLatency, WriteResponse, NoticeDrain
  <2> QED
    BY <2>1 DEF CauseOK, Caused
<1> QED
  BY <1>1, <1>2, <1>3, <1>4, <1>5 DEF Next, Shutdown

\* The drain has a cause (shutdown_signal, main.rs).
THEOREM DrainIsCaused == Spec => []DrainHasACause
<1>1. Init => CauseOK
  BY DEF Init, CauseOK
<1>2. CauseOK => DrainHasACause
  BY DEF CauseOK, Caused, DrainHasACause
<1> QED
  BY <1>1, <1>2, CauseStep, TypeInvariant, PTL DEF Spec

-----------------------------------------------------------------------------
(* What a drain still serves.                                              *)

\* A connection that has noticed the drain has a request, or its head, at hand.
ClosingOK == \A c \in Conns : closing[c] => stage[c] \notin {"closed", "fresh", "idle"}

\* A connection that is set keeps the others as they are.
LEMMA ClosingConnection ==
  ASSUME TypeInv, ClosingOK, NEW c \in Conns, NEW s, NEW r, NEW n, NEW a, NEW k,
         Connection(c, s, r, n, a, k), k => s \notin {"closed", "fresh", "idle"}
  PROVE  ClosingOK'
  BY DEF Connection, TypeInv, TypeOK, ConnTypeOK, ClosingOK

\* Every step keeps it, and none gives a connection in the drain a request other
\* than the one whose head is arriving.
LEMMA ClosingStep ==
  ASSUME TypeInv, ClosingOK, [Next]_vars
  PROVE  /\ ClosingOK'
         /\ \A c \in Conns : (closing[c] /\ req[c] = None /\ stage[c] # "arriving")
                               => req'[c] = None
<1>1. \A c \in Conns : ~(closing[c] /\ req[c] = None /\ stage[c] # "arriving")
  BY ServerAssumption DEF TypeInv, TypeOK, ConnTypeOK, StagesOK, InServer, ClosingOK, Stage
<1>2. CASE \/ Startup \/ Kill \/ Shutdown \/ ReaderStep \/ UNCHANGED vars
           \/ \E s \in Signal : ReceiveSignal(s)
  <2>1. UNCHANGED <<stage, closing>>
    BY <1>2 DEF Startup, LoadConfig, InitTelemetry, Bind, Kill, Shutdown, ArmSignals,
       StopAccepting, FinishDrain, LoseFlush, Exit, ReaderStep, vars, connVars,
       ReceiveSignal
  <2> QED
    BY <1>1, <2>1 DEF ClosingOK
<1>3. ASSUME NEW c \in Conns, Client(c) \/ Task(c) PROVE ClosingOK'
  <2>1. CASE RecordCall(c) \/ RecordError(c) \/ RecordLatency(c)
    BY <2>1 DEF RecordCall, RecordError, RecordLatency, TypeInv, TypeOK,
       ConnTypeOK, ClosingOK
  <2>a. closing[c] => stage[c] \notin {"closed", "fresh", "idle"}
    BY DEF ClosingOK
  <2>2. CASE Accept(c) \/ BeginHead(c) \/ ReceiveHead(c)
    BY <2>2, <2>a, ClosingConnection DEF Accept, BeginHead, ReceiveHead
  <2>3. CASE Disconnect(c) \/ WriteResponse(c)
    <3>1. \E s \in Stage : Connection(c, s, None, 0, None, FALSE)
      BY <2>3 DEF Disconnect, WriteResponse, Close, Stage
    <3> QED
      BY <3>1, ClosingConnection
  <2>4. CASE ReceiveFrame(c) \/ Route(c) \/ RunHandler(c)
    <3>1. \E s \in {"body", "calls", "write"} :
            \E n, a : Connection(c, s, req[c], n, a, closing[c])
      BY <2>4 DEF ReceiveFrame, Route, RunHandler, Answer
    <3> QED
      BY <3>1, ClosingConnection
  <2>5. CASE NoticeDrain(c)
    BY <2>5, <2>a, ClosingConnection DEF NoticeDrain, Close
  <2> QED
    BY <1>3, <2>1, <2>2, <2>3, <2>4, <2>5 DEF Client, Task
<1> QED
  BY <1>1, <1>2, <1>3 DEF Next

\* A connection that has noticed the drain takes up no further request
\* (with_graceful_shutdown, main.rs).
THEOREM DrainServesNoMore == Spec => DrainTakesNoNewRequest
<1>1. Init => ClosingOK
  BY DEF Init, ClosingOK
<1>2. TypeInv /\ ClosingOK /\ [Next]_vars
        => ClosingOK' /\ [\A c \in Conns :
                            (closing[c] /\ req[c] = None /\ stage[c] # "arriving")
                              => req'[c] = None]_vars
  BY ClosingStep
<1> QED
  BY <1>1, <1>2, TypeInvariant, PTL DEF Spec, DrainTakesNoNewRequest
=============================================================================
