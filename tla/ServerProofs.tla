---------------------------- MODULE ServerProofs ----------------------------
(***************************************************************************)
(* Proofs about the server of module Server, for any set of connections,   *)
(* environments and requests.                                              *)
(***************************************************************************)
EXTENDS ServerProperties, FiniteSetTheorems, TLAPS

-----------------------------------------------------------------------------
(* Types.                                                                  *)

InServer == {"head", "body", "calls", "errors", "latency", "write"}
Replied  == {"calls", "errors", "latency", "write"}

\* What goes with the stage of a connection: a request, then its answer.
StagesOK ==
  \A c \in Conns :
    /\ stage[c] \in InServer => req[c] \in Requests
    /\ stage[c] \in Replied => reply[c] \in Responses
    /\ stage[c] = "errors" => Failed(reply[c])

\* The inductive form of TypeOK.
TypeInv == TypeOK /\ StagesOK

\* The gate answers with a status of its own or lets the request through.
LEMMA GateStatus ==
  ASSUME NEW a, NEW r
  PROVE  RequireServerAuth(a, r) \in {503, 421, 401, 403, Pass}
  BY DEF RequireServerAuth

\* What the router answers from the head alone is a bare status.
LEMMA AnswerHeadType ==
  ASSUME NEW r, ~WantsBody(r)
  PROVE  AnswerHead(r) \in Responses
<1>1. AnswerHead(r) \in {Plain(s) : s \in
        {200, 202, 400, 401, 403, 404, 405, 413, 415, 421, 422, 503}}
  BY GateStatus DEF AnswerHead, Pass
<1> QED
  BY <1>1 DEF Responses

\* The answer to a request that has been read in full.
LEMMA RespondType ==
  ASSUME NEW r \in Requests
  PROVE  Respond(r.version, r.body) \in Responses
  BY DEF Responses

\* Every environment the process can be started in gives a well-typed state.
LEMMA InitTypeInv == Init => TypeInv
<1> SUFFICES ASSUME Init PROVE TypeInv
  OBVIOUS
<1>1. TelemetryTypeOK
  BY DEF Init, TelemetryInit, TelemetryTypeOK, NoTotals, ReaderAt, Instrument
<1>2. ProcessTypeOK
  BY DEF Init, ProcessTypeOK, Running, Ended, Signal
<1>3. ConnTypeOK
  BY ServerAssumption DEF Init, ConnTypeOK, Stage
<1>4. StagesOK
  BY DEF Init, StagesOK, InServer, Replied
<1> QED
  BY <1>1, <1>2, <1>3, <1>4 DEF TypeInv, TypeOK

\* What a step of the telemetry's actions leaves well-typed.
LEMMA TelemetryStepType ==
  ASSUME TelemetryTypeOK,
         \/ UNCHANGED telemetryVars
         \/ InitProviders(env.endpoint)
         \/ \E i \in Instrument : Record(i)
         \/ AskFlush \/ GiveUp
         \/ Reader
  PROVE  TelemetryTypeOK'
<1> USE DEF TelemetryTypeOK
<1>1. CASE UNCHANGED telemetryVars
  BY <1>1 DEF telemetryVars
<1>2. CASE InitProviders(env.endpoint)
  BY <1>2 DEF InitProviders
<1>3. CASE \E i \in Instrument : Record(i)
  BY <1>3 DEF Record, Forced
<1>4. CASE AskFlush \/ GiveUp
  BY <1>4 DEF AskFlush, GiveUp
<1>5. CASE StartCycle
  BY <1>5 DEF StartCycle, ReaderAt, Instrument, NoTotals
<1>6. ASSUME NEW i \in Instrument, Collect(i)
      PROVE  TelemetryTypeOK'
  <2>1. NextStage[i] \in Instrument \cup {"idle", "send"}
    BY DEF NextStage, Instrument
  <2>2. [reader.batch EXCEPT ![i] = totals[i]] \in [Instrument -> Nat]
    OBVIOUS
  <2>3. reader.last \in BOOLEAN
    OBVIOUS
  <2> QED
    BY <1>6, <2>1, <2>2, <2>3 DEF Collect, ReaderAt
<1>7. CASE Export
  <2>1. reader' \in [at : Instrument \cup {"idle", "send"}, last : BOOLEAN,
                     batch : [Instrument -> Nat]]
    BY <1>7 DEF Export, ReaderAt, NoTotals
  <2>2. exported' \in [Instrument -> Nat] /\ flush' \in {"no", "asked", "late", "ok", "failed"}
    BY <1>7 DEF Export
  <2> QED
    BY <1>7, <2>1, <2>2 DEF Export
<1> QED
  BY <1>1, <1>2, <1>3, <1>4, <1>5, <1>6, <1>7 DEF Reader

\* A connection that is set to values that fit each other keeps the rest.
LEMMA ConnectionType ==
  ASSUME TypeInv, UNCHANGED <<received, ran>>,
         NEW c \in Conns, NEW s \in Stage, NEW r \in Requests \cup {None},
         NEW n \in 0 .. MaxRequestBytes, NEW a \in Responses \cup {None},
         NEW k \in BOOLEAN,
         s \in InServer => r \in Requests,
         s \in Replied => a \in Responses,
         s # "errors",
         Connection(c, s, r, n, a, k)
  PROVE  ConnTypeOK' /\ StagesOK'
  BY DEF TypeInv, TypeOK, ConnTypeOK, StagesOK, Connection, Replied

\* What happens outside the connections leaves them well-typed.
LEMMA ConnectionsKept ==
  ASSUME TypeInv, UNCHANGED <<connVars, historyVars>>
  PROVE  ConnTypeOK' /\ StagesOK'
  BY DEF TypeInv, TypeOK, ConnTypeOK, StagesOK, connVars, historyVars, Failed

\* record_tool_call moves a connection on and touches nothing else of it.
LEMMA RecordedType ==
  ASSUME TypeInv, NEW c \in Conns, stage[c] \in Replied,
         NEW s \in {"errors", "latency", "write"},
         s = "errors" => Failed(reply[c]),
         stage' = [stage EXCEPT ![c] = s],
         UNCHANGED <<req, got, reply, closing, historyVars>>
  PROVE  ConnTypeOK' /\ StagesOK'
  BY DEF TypeInv, TypeOK, ConnTypeOK, StagesOK, historyVars, Failed, Stage,
     InServer, Replied

\* Every step of the process, its clients and the reader keeps the types.
LEMMA TypeStep == TypeInv /\ [Next]_vars => TypeInv'
<1> SUFFICES ASSUME TypeInv, [Next]_vars PROVE TypeInv'
  OBVIOUS
<1> USE DEF TypeInv, TypeOK
<1>a. TelemetryTypeOK /\ ProcessTypeOK /\ ConnTypeOK /\ StagesOK
  OBVIOUS
<1>1. TelemetryTypeOK'
  <2>1. \/ UNCHANGED telemetryVars
        \/ InitProviders(env.endpoint)
        \/ \E i \in Instrument : Record(i)
        \/ AskFlush \/ GiveUp
        \/ Reader
    BY DEF Next, vars, Startup, LoadConfig, InitTelemetry, Bind, ReceiveSignal,
       Kill, Client, Accept, BeginHead, ReceiveHead, ReceiveFrame, Disconnect,
       Task, Route, RunHandler, RecordCall, RecordError, RecordLatency,
       WriteResponse, NoticeDrain, Shutdown, ArmSignals, StopAccepting,
       FinishDrain, LoseFlush, Exit, ReaderStep, Instrument
  <2> QED
    BY <1>a, <2>1, TelemetryStepType
<1>2. ProcessTypeOK'
  <2> USE <1>a DEF ProcessTypeOK
  <2>1. CASE LoadConfig
    BY <2>1 DEF LoadConfig, signalVars, Running, Ended
  <2>2. CASE InitTelemetry
    BY <2>2 DEF InitTelemetry, signalVars, Running, Ended
  <2>3. CASE Bind
    BY <2>3 DEF Bind, signalVars, Running, Ended
  <2>4. CASE ArmSignals
    BY <2>4 DEF ArmSignals, processVars, Signal
  <2>5. CASE \E s \in Signal : ReceiveSignal(s)
    BY <2>5 DEF ReceiveSignal, Running, Ended
  <2>6. CASE Kill \/ StopAccepting \/ FinishDrain \/ Exit
    BY <2>6 DEF Kill, StopAccepting, FinishDrain, Exit, signalVars, Running, Ended
  <2>7. CASE UNCHANGED <<processVars, signalVars>>
    BY <2>7 DEF processVars, signalVars
  <2>8. CASE \E c \in Conns : Client(c) \/ Task(c)
    BY <2>7, <2>8 DEF Client, Accept, BeginHead, ReceiveHead, ReceiveFrame,
       Disconnect, Task, Route, RunHandler, RecordCall, RecordError,
       RecordLatency, WriteResponse, NoticeDrain
  <2>9. CASE LoseFlush \/ ReaderStep \/ UNCHANGED vars
    BY <2>7, <2>9 DEF LoseFlush, ReaderStep, vars
  <2> QED
    BY <2>1, <2>2, <2>3, <2>4, <2>5, <2>6, <2>8, <2>9 DEF Next, Startup, Shutdown
<1>3. ConnTypeOK' /\ StagesOK'
  <2>1. CASE UNCHANGED <<connVars, historyVars>>
    BY <2>1, ConnectionsKept
  <2>2. CASE \/ Startup \/ Kill \/ Shutdown \/ ReaderStep \/ UNCHANGED vars
             \/ \E s \in Signal : ReceiveSignal(s)
    BY <2>1, <2>2 DEF Startup, LoadConfig, InitTelemetry, Bind, Kill, Shutdown,
       ArmSignals, StopAccepting, FinishDrain, LoseFlush, Exit, ReaderStep, vars,
       ReceiveSignal
  <2>3. ASSUME NEW c \in Conns, Client(c) \/ Task(c)
        PROVE  ConnTypeOK' /\ StagesOK'
    <3>a. /\ stage[c] \in Stage
          /\ req[c] \in Requests \cup {None}
          /\ got[c] \in 0 .. MaxRequestBytes
          /\ reply[c] \in Responses \cup {None}
          /\ closing[c] \in BOOLEAN
          /\ stage[c] \in InServer => req[c] \in Requests
          /\ stage[c] \in Replied => reply[c] \in Responses
          /\ stage[c] = "errors" => Failed(reply[c])
      BY <1>a DEF ConnTypeOK, StagesOK
    <3>b. 0 \in 0 .. MaxRequestBytes
      BY ServerAssumption
    <3>1. CASE Accept(c)
      BY <3>1, <3>b, ConnectionType DEF Accept, historyVars, Stage, InServer, Replied
    <3>2. CASE BeginHead(c)
      BY <3>2, <3>a, <3>b, ConnectionType
         DEF BeginHead, historyVars, Stage, InServer, Replied
    <3>3. CASE ReceiveHead(c)
      <4>1. PICK r \in Requests : Connection(c, "head", r, 0, None, closing[c])
        BY <3>3 DEF ReceiveHead
      <4>2. received' \in 0 .. MaxRequests /\ ran' \in [calls : Nat, errors : Nat]
        BY <3>3, <1>a, ServerAssumption DEF ReceiveHead, ConnTypeOK
      <4> QED
        BY <4>1, <4>2, <3>a, <3>b, <1>a
           DEF Connection, ConnTypeOK, StagesOK, Stage, InServer, Replied
    <3>4. CASE ReceiveFrame(c)
      <4>1. CASE got[c] = MaxRequestBytes
        <5>1. Plain(413) \in Responses
          BY DEF Responses
        <5> QED
          BY <3>4, <4>1, <5>1, <3>a, ConnectionType
             DEF ReceiveFrame, Answer, historyVars, Stage, InServer, Replied
      <4>2. CASE got[c] # MaxRequestBytes
        <5>1. got[c] + 1 \in 0 .. MaxRequestBytes
          BY <3>a, <4>2, ServerAssumption
        <5> QED
          BY <3>4, <4>2, <5>1, <3>a, ConnectionType
             DEF ReceiveFrame, historyVars, Stage, InServer, Replied
      <4> QED
        BY <4>1, <4>2
    <3>5. CASE Disconnect(c)
      BY <3>5, <3>b, ConnectionType
         DEF Disconnect, Close, historyVars, Stage, InServer, Replied
    <3>6. CASE Route(c)
      <4>1. req[c] \in Requests
        BY <3>6, <3>a DEF Route, InServer
      <4>2. CASE WantsBody(req[c])
        <5>1. Connection(c, "body", req[c], 0, None, closing[c])
          BY <3>6, <4>2 DEF Route
        <5>2. UNCHANGED <<received, ran>>
          BY <3>6 DEF Route, historyVars
        <5>3. "body" \in Stage /\ "body" \notin Replied
          BY DEF Stage, Replied
        <5> QED
          BY <4>1, <5>1, <5>2, <5>3, <3>a, <3>b, ConnectionType
      <4>3. CASE ~WantsBody(req[c])
        <5>1. AnswerHead(req[c]) \in Responses
          BY <4>3, AnswerHeadType
        <5> QED
          BY <3>6, <4>1, <4>3, <5>1, <3>a, ConnectionType
             DEF Route, Answer, historyVars, Stage, InServer, Replied
      <4> QED
        BY <4>2, <4>3
    <3>7. CASE RunHandler(c)
      <4> DEFINE answer  == Respond(req[c].version, req[c].body)
                 outcome == Outcome(req[c].version, req[c].body)
                 s == IF outcome = "none" THEN "write" ELSE "calls"
      <4>1. req[c] \in Requests
        BY <3>7, <3>a DEF RunHandler, InServer
      <4>2. answer \in Responses
        BY <4>1, RespondType
      <4>3. /\ Connection(c, s, req[c], got[c], answer, closing[c])
            /\ received' = received
        BY <3>7 DEF RunHandler
      <4>4. ran' \in [calls : Nat, errors : Nat]
        BY <3>7, <1>a DEF RunHandler, ConnTypeOK
      <4>5. s \in {"write", "calls"}
        OBVIOUS
      <4> HIDE DEF s, answer, outcome
      <4> QED
        BY <4>1, <4>2, <4>3, <4>4, <4>5, <3>a, <1>a
           DEF Connection, ConnTypeOK, StagesOK, Stage, InServer, Replied
    <3>8. CASE RecordCall(c) \/ RecordError(c) \/ RecordLatency(c)
      BY <3>8, RecordedType
         DEF RecordCall, RecordError, RecordLatency, Replied
    <3>9. CASE WriteResponse(c)
      BY <3>9, <3>b, ConnectionType
         DEF WriteResponse, Close, historyVars, Stage, InServer, Replied
    <3>10. CASE NoticeDrain(c)
      <4>1. CASE stage[c] \in {"fresh", "idle"}
        BY <3>10, <4>1, <3>b, ConnectionType
           DEF NoticeDrain, Close, historyVars, Stage, InServer, Replied
      <4>2. CASE stage[c] \notin {"fresh", "idle"}
        BY <3>10, <4>2, <3>a, <1>a
           DEF NoticeDrain, Connection, historyVars, ConnTypeOK, StagesOK
      <4> QED
        BY <4>1, <4>2
    <3> QED
      BY <2>3, <3>1, <3>2, <3>3, <3>4, <3>5, <3>6, <3>7, <3>8, <3>9, <3>10
         DEF Client, Task
  <2> QED
    BY <2>2, <2>3 DEF Next
<1> QED
  BY <1>1, <1>2, <1>3

\* The types, and what a stage says of its connection, are invariant.
LEMMA TypeInvariant == Spec => []TypeInv
<1>1. Init => TypeInv
  BY InitTypeInv
<1>2. TypeInv /\ [Next]_vars => TypeInv'
  BY TypeStep
<1> QED
  BY <1>1, <1>2, PTL DEF Spec

\* In every reachable state the variables hold values of their types; a body
\* that is buffered never exceeds the limit of routes.rs, whatever the limit.
THEOREM TypeCorrect == Spec => []TypeOK
<1>1. TypeInv => TypeOK
  BY DEF TypeInv
<1> QED
  BY <1>1, TypeInvariant, PTL

-----------------------------------------------------------------------------
(* The drain.                                                              *)

\* Connections exist only while the server serves, or where it was killed.
PhasesOK ==
  phase \notin {"serving", "draining", "killed"} =>
    \A c \in Conns : stage[c] = "closed"

\* main leaves the drain only when no connection is left, and takes up no
\* connection before it or after.
LEMMA PhasesStep == TypeInv /\ PhasesOK /\ [Next]_vars => PhasesOK'
<1> SUFFICES ASSUME TypeInv, PhasesOK, [Next]_vars PROVE PhasesOK'
  OBVIOUS
<1>1. CASE \E c \in Conns : Client(c) \/ Task(c)
  <2>1. phase \in Serving /\ phase' = phase
    BY <1>1 DEF Client, Accept, BeginHead, ReceiveHead, ReceiveFrame,
       Disconnect, Task, Route, RunHandler, RecordCall, RecordError,
       RecordLatency, WriteResponse, NoticeDrain, Serving, processVars
  <2> QED
    BY <2>1 DEF PhasesOK, Serving
<1>2. CASE Startup \/ Kill \/ StopAccepting \/ \E s \in Signal : ReceiveSignal(s)
  BY <1>2 DEF PhasesOK, Startup, LoadConfig, InitTelemetry, Bind, Kill,
     StopAccepting, ReceiveSignal, connVars
<1>3. CASE ArmSignals \/ LoseFlush \/ Exit \/ ReaderStep \/ UNCHANGED vars
  BY <1>3 DEF PhasesOK, ArmSignals, LoseFlush, Exit, ReaderStep, vars, connVars,
     processVars
<1>4. CASE FinishDrain
  BY <1>4 DEF PhasesOK, FinishDrain, connVars
<1> QED
  BY <1>1, <1>2, <1>3, <1>4 DEF Next, Shutdown

\* In every reachable state connections exist only while the server serves.
LEMMA PhasesInvariant == Spec => []PhasesOK
<1>1. Init => PhasesOK
  BY DEF Init, PhasesOK
<1> QED
  BY <1>1, PhasesStep, TypeInvariant, PTL DEF Spec

\* When main has come back from serve(), no connection is left: whatever the
\* connections were doing when the signal came, the drain saw each one through.
THEOREM DrainIsQuiet == Spec => []QuietShutdown
<1>1. PhasesOK => QuietShutdown
  BY DEF PhasesOK, QuietShutdown
<1> QED
  BY <1>1, PhasesInvariant, PTL

-----------------------------------------------------------------------------
(* The metrics.                                                            *)

\* The instruments are built on the provider that init has set.
ProviderOK ==
  /\ instruments # None => (instruments = "sdk" <=> provider = "sdk")
  /\ phase \in {"boot", "configured"} =>
       /\ provider = "none"
       /\ instruments = None
       /\ totals = NoTotals
       /\ ran = [calls |-> 0, errors |-> 0]

\* init sets the meter provider before a tool can run, and nobody after it.
LEMMA ProviderStep == TypeInv /\ ProviderOK /\ [Next]_vars => ProviderOK'
<1> SUFFICES ASSUME TypeInv, ProviderOK, [Next]_vars PROVE ProviderOK'
  OBVIOUS
<1>1. CASE LoadConfig
  BY <1>1 DEF ProviderOK, LoadConfig, telemetryVars, historyVars
<1>2. CASE InitTelemetry
  BY <1>2 DEF ProviderOK, InitTelemetry, InitProviders, telemetryVars, historyVars
<1>3. CASE Bind \/ Kill \/ Shutdown \/ \E s \in Signal : ReceiveSignal(s)
  BY <1>3 DEF ProviderOK, Bind, Kill, Shutdown, ArmSignals, StopAccepting,
     FinishDrain, LoseFlush, Exit, AskFlush, GiveUp, ReceiveSignal,
     telemetryVars, historyVars, processVars
<1>4. CASE \E c \in Conns : RecordCall(c) \/ RecordError(c) \/ RecordLatency(c)
  BY <1>4 DEF ProviderOK, RecordCall, RecordError, RecordLatency, Record, Forced,
     Serving, processVars
<1>5. CASE \E c \in Conns : \/ Client(c) \/ Route(c) \/ RunHandler(c)
                            \/ WriteResponse(c) \/ NoticeDrain(c)
  BY <1>5 DEF ProviderOK, Client, Accept, BeginHead, ReceiveHead, ReceiveFrame,
     Disconnect, Route, RunHandler, WriteResponse, NoticeDrain, Serving,
     telemetryVars, processVars
<1>6. CASE ReaderStep \/ UNCHANGED vars
  BY <1>6 DEF ProviderOK, ReaderStep, Reader, StartCycle, Collect, Export, vars,
     telemetryVars, processVars, historyVars
<1> QED
  BY <1>1, <1>2, <1>3, <1>4, <1>5, <1>6 DEF Next, Startup, Task

\* The instruments are never those of another provider than init's.
LEMMA ProviderInvariant == Spec => []ProviderOK
<1>1. Init => ProviderOK
  BY DEF Init, TelemetryInit, ProviderOK
<1> QED
  BY <1>1, ProviderStep, TypeInvariant, PTL DEF Spec

\* The tools the answer and the telemetry speak of are the same: a call that
\* counts as an error is one whose answer is an error.
LEMMA OutcomeIsTheAnswer ==
  ASSUME NEW v, NEW b, Outcome(v, b) # "none"
  PROVE  Outcome(v, b) = "error" <=> Failed(Respond(v, b))
<1> DEFINE envelope == Envelope(b)
           id       == Get(envelope, "id")
           params   == ParamsOf(envelope)
           answer   == CallPing(id, PingArguments(params))
<1>1. /\ ExtractStatus(b) = 200
      /\ Dispatches(v, envelope)
      /\ Get(envelope, "method").text = "tools/call"
      /\ ReachesTool(params, "ping")
      /\ Outcome(v, b) = IF "error" \in DOMAIN answer THEN "error" ELSE "ok"
  BY DEF Outcome, ToolOutcome
<1>2. Respond(v, b) = Response(200, answer)
  BY <1>1 DEF Respond, Handle, Dispatch, CallTool
<1> HIDE DEF answer
<1> QED
  BY <1>1, <1>2 DEF Failed, Response

\* Counting a set of connections one of which comes or goes.
LEMMA CountChange ==
  ASSUME NEW A \in SUBSET Conns, NEW B \in SUBSET Conns, NEW c \in Conns
  PROVE  /\ Cardinality(A) \in Nat
         /\ (c \notin A /\ B = A \cup {c}) => Cardinality(B) = Cardinality(A) + 1
         /\ (c \in A /\ B = A \ {c}) => Cardinality(B) = Cardinality(A) - 1
<1>1. IsFiniteSet(A)
  BY ServerAssumption, FS_Subset
<1>2. Cardinality(A) \in Nat
  BY <1>1, FS_CardinalityType
<1>3. (c \notin A /\ B = A \cup {c}) => Cardinality(B) = Cardinality(A) + 1
  BY <1>1, FS_AddElement
<1>4. (c \in A /\ B = A \ {c}) => Cardinality(B) = Cardinality(A) - 1
  BY <1>1, FS_RemoveElement
<1> QED
  BY <1>2, <1>3, <1>4

\* The tasks whose tool has run and that still owe an instrument its record.
OweCall     == AtStage({"calls"})
OweError    == FailedAt({"calls", "errors"})
OweDuration == AtStage({"calls", "errors", "latency"})

Recording == {"calls", "errors", "latency"}

\* A connection that neither was nor is recording leaves the three sets alone.
LEMMA DebtsKept ==
  ASSUME TypeInv, NEW c \in Conns, stage'[c] \notin Recording,
         stage[c] \notin Recording,
         \A d \in Conns \ {c} : stage'[d] = stage[d] /\ reply'[d] = reply[d]
  PROVE  OweCall' = OweCall /\ OweError' = OweError /\ OweDuration' = OweDuration
  BY DEF OweCall, OweError, OweDuration, AtStage, FailedAt, Recording, Failed

\* What leaves stages and answers alone leaves the three sets alone.
LEMMA DebtsUnchanged ==
  ASSUME UNCHANGED <<stage, reply>>
  PROVE  OweCall' = OweCall /\ OweError' = OweError /\ OweDuration' = OweDuration
  BY DEF OweCall, OweError, OweDuration, AtStage, FailedAt, Failed

\* A step that changes no debt and no total.
LEMMA MetricsKept ==
  ASSUME MetricsConserved, UNCHANGED <<provider, totals, ran>>,
         OweCall' = OweCall, OweError' = OweError, OweDuration' = OweDuration
  PROVE  MetricsConserved'
  BY DEF MetricsConserved, OweCall, OweError, OweDuration

\* The three sets are sets of connections.
LEMMA DebtSets ==
  /\ OweCall \in SUBSET Conns /\ OweError \in SUBSET Conns
  /\ OweDuration \in SUBSET Conns
  BY DEF OweCall, OweError, OweDuration, AtStage, FailedAt

\* So they are after a step.
LEMMA DebtSetsNext ==
  /\ OweCall' \in SUBSET Conns /\ OweError' \in SUBSET Conns
  /\ OweDuration' \in SUBSET Conns
  BY DEF OweCall, OweError, OweDuration, AtStage, FailedAt

\* The three steps of record_tool_call pay one debt each.
LEMMA RecordPays ==
  ASSUME TypeInv, ProviderOK, MetricsConserved, NEW c \in Conns,
         RecordCall(c) \/ RecordError(c) \/ RecordLatency(c)
  PROVE  MetricsConserved'
<1> SUFFICES ASSUME provider' = "sdk" PROVE MetricsConserved'
  BY DEF MetricsConserved
<1>1. provider = "sdk" /\ UNCHANGED <<ran, reply>>
  BY DEF RecordCall, RecordError, RecordLatency, Record, historyVars
<1>2. Forced = "sdk"
  BY <1>1 DEF ProviderOK, Forced
<1>3. totals \in [Instrument -> Nat]
  BY DEF TypeInv, TypeOK, TelemetryTypeOK
<1>4. stage \in [Conns -> Stage]
  BY DEF TypeInv, TypeOK, ConnTypeOK
<1>5. CASE RecordCall(c)
  <2>1. totals' = [totals EXCEPT !["calls"] = @ + 1]
    BY <1>2, <1>5 DEF RecordCall, Record
  <2>2. /\ stage[c] = "calls"
        /\ stage' = [stage EXCEPT ![c] = IF Failed(reply[c]) THEN "errors"
                                                             ELSE "latency"]
    BY <1>5 DEF RecordCall
  <2>3. c \in OweCall /\ OweCall' = OweCall \ {c}
    BY <2>2, <1>4 DEF OweCall, AtStage
  <2>4. OweError' = OweError
    BY <2>2, <1>1, <1>4 DEF OweError, FailedAt, AtStage, Failed
  <2>5. OweDuration' = OweDuration
    BY <2>2, <1>4 DEF OweDuration, AtStage
  <2>6. Cardinality(OweCall') = Cardinality(OweCall) - 1 /\ Cardinality(OweCall) \in Nat
    BY <2>3, CountChange, DebtSets, DebtSetsNext
  <2>7. /\ totals'["calls"] = totals["calls"] + 1
        /\ totals'["errors"] = totals["errors"]
        /\ totals'["durations"] = totals["durations"]
    BY <2>1, <1>3 DEF Instrument
  <2>8. totals["calls"] \in Nat
    BY <1>3 DEF Instrument
  <2>9. ran.calls' = ran.calls /\ ran.errors' = ran.errors
    BY <1>1
  <2>10. totals'["calls"] + Cardinality(OweCall') = totals["calls"] + Cardinality(OweCall)
    BY <2>6, <2>7, <2>8
  <2> QED
    BY <2>4, <2>5, <2>7, <2>9, <2>10, <1>1
       DEF MetricsConserved, OweCall, OweError, OweDuration
<1>6. CASE RecordError(c)
  <2>1. totals' = [totals EXCEPT !["errors"] = @ + 1]
    BY <1>2, <1>6 DEF RecordError, Record
  <2>2. stage[c] = "errors" /\ stage' = [stage EXCEPT ![c] = "latency"]
    BY <1>6 DEF RecordError
  <2>3. Failed(reply[c])
    BY <2>2 DEF TypeInv, StagesOK
  <2>4. c \in OweError /\ OweError' = OweError \ {c}
    BY <2>2, <2>3, <1>1, <1>4 DEF OweError, FailedAt, AtStage, Failed
  <2>5. OweCall' = OweCall /\ OweDuration' = OweDuration
    BY <2>2, <1>4 DEF OweCall, OweDuration, AtStage
  <2>6. Cardinality(OweError') = Cardinality(OweError) - 1 /\ Cardinality(OweError) \in Nat
    BY <2>4, CountChange, DebtSets, DebtSetsNext
  <2>7. /\ totals'["errors"] = totals["errors"] + 1
        /\ totals'["calls"] = totals["calls"]
        /\ totals'["durations"] = totals["durations"]
        /\ totals["errors"] \in Nat
    BY <2>1, <1>3 DEF Instrument
  <2>8. totals'["errors"] + Cardinality(OweError') = totals["errors"] + Cardinality(OweError)
    BY <2>6, <2>7
  <2> QED
    BY <2>5, <2>7, <2>8, <1>1
       DEF MetricsConserved, OweCall, OweError, OweDuration
<1>7. CASE RecordLatency(c)
  <2>1. totals' = [totals EXCEPT !["durations"] = @ + 1]
    BY <1>2, <1>7 DEF RecordLatency, Record
  <2>2. stage[c] = "latency" /\ stage' = [stage EXCEPT ![c] = "write"]
    BY <1>7 DEF RecordLatency
  <2>3. c \in OweDuration /\ OweDuration' = OweDuration \ {c}
    BY <2>2, <1>4 DEF OweDuration, AtStage
  <2>4. OweCall' = OweCall
    BY <2>2, <1>4 DEF OweCall, AtStage
  <2>5. OweError' = OweError
    BY <2>2, <1>1, <1>4 DEF OweError, FailedAt, AtStage, Failed
  <2>6. Cardinality(OweDuration') = Cardinality(OweDuration) - 1 /\ Cardinality(OweDuration) \in Nat
    BY <2>3, CountChange, DebtSets, DebtSetsNext
  <2>7. /\ totals'["durations"] = totals["durations"] + 1
        /\ totals'["calls"] = totals["calls"]
        /\ totals'["errors"] = totals["errors"]
        /\ totals["durations"] \in Nat
    BY <2>1, <1>3 DEF Instrument
  <2>8. totals'["durations"] + Cardinality(OweDuration')
          = totals["durations"] + Cardinality(OweDuration)
    BY <2>6, <2>7
  <2> QED
    BY <2>4, <2>5, <2>7, <2>8, <1>1
       DEF MetricsConserved, OweCall, OweError, OweDuration
<1> QED
  BY <1>5, <1>6, <1>7

\* A tool that runs incurs a debt to each instrument it will be recorded on.
LEMMA HandlerOwes ==
  ASSUME TypeInv, MetricsConserved, NEW c \in Conns, RunHandler(c)
  PROVE  MetricsConserved'
<1> DEFINE answer  == Respond(req[c].version, req[c].body)
           outcome == Outcome(req[c].version, req[c].body)
<1>1. /\ stage[c] = "body"
      /\ stage' = [stage EXCEPT ![c] = IF outcome = "none" THEN "write" ELSE "calls"]
      /\ reply' = [reply EXCEPT ![c] = answer]
      /\ UNCHANGED <<provider, totals>>
      /\ ran' = [calls  |-> ran.calls + (IF outcome = "none" THEN 0 ELSE 1),
                 errors |-> ran.errors + (IF outcome = "error" THEN 1 ELSE 0)]
  BY DEF RunHandler, Connection, telemetryVars
<1>2. stage \in [Conns -> Stage] /\ reply \in [Conns -> Responses \cup {None}]
  BY DEF TypeInv, TypeOK, ConnTypeOK
<1>3. ran.calls \in Nat /\ ran.errors \in Nat
  BY DEF TypeInv, TypeOK, ConnTypeOK
<1>o. outcome # "none" => (outcome = "error" <=> Failed(answer))
  BY OutcomeIsTheAnswer
<1>t. totals["calls"] \in Nat /\ totals["errors"] \in Nat /\ totals["durations"] \in Nat
  BY DEF TypeInv, TypeOK, TelemetryTypeOK, Instrument
<1> HIDE DEF answer, outcome
<1>4. CASE outcome = "none"
  <2>1. OweCall' = OweCall /\ OweError' = OweError /\ OweDuration' = OweDuration
    BY <1>1, <1>2, <1>4, DebtsKept DEF Recording
  <2>2. ran'.calls = ran.calls /\ ran'.errors = ran.errors
    BY <1>1, <1>3, <1>4
  <2> QED
    BY <2>1, <2>2, <1>1 DEF MetricsConserved, OweCall, OweError, OweDuration
<1>5. CASE outcome # "none"
  <2>1. c \notin OweCall /\ OweCall' = OweCall \cup {c}
    BY <1>1, <1>2, <1>5 DEF OweCall, AtStage
  <2>2. c \notin OweDuration /\ OweDuration' = OweDuration \cup {c}
    BY <1>1, <1>2, <1>5 DEF OweDuration, AtStage
  <2>3. /\ Cardinality(OweCall') = Cardinality(OweCall) + 1
        /\ Cardinality(OweDuration') = Cardinality(OweDuration) + 1
        /\ Cardinality(OweCall) \in Nat
        /\ Cardinality(OweDuration) \in Nat
        /\ Cardinality(OweError) \in Nat
    BY <2>1, <2>2, CountChange, DebtSets, DebtSetsNext
  <2>4. ran'.calls = ran.calls + 1
    BY <1>1, <1>5
  <2>5. CASE outcome = "error"
    <3>1. c \notin OweError /\ OweError' = OweError \cup {c}
      BY <1>1, <1>2, <1>5, <1>o, <2>5 DEF OweError, FailedAt, AtStage, Failed
    <3>2. Cardinality(OweError') = Cardinality(OweError) + 1
      BY <3>1, CountChange, DebtSets, DebtSetsNext
    <3>3. ran'.errors = ran.errors + 1
      BY <1>1, <2>5
    <3> QED
      BY <2>3, <2>4, <3>2, <3>3, <1>1, <1>3, <1>t
         DEF MetricsConserved, OweCall, OweError, OweDuration
  <2>6. CASE outcome # "error"
    <3>1. OweError' = OweError
      BY <1>1, <1>2, <1>5, <1>o, <2>6 DEF OweError, FailedAt, AtStage, Failed
    <3>2. ran'.errors = ran.errors
      BY <1>1, <1>3, <2>6
    <3> QED
      BY <2>3, <2>4, <3>1, <3>2, <1>1, <1>3, <1>t
         DEF MetricsConserved, OweCall, OweError, OweDuration
  <2> QED
    BY <2>5, <2>6
<1> QED
  BY <1>4, <1>5

\* Every step keeps each instrument behind the tools that ran by the tasks that
\* still owe it a record.
LEMMA MetricsStep ==
  TypeInv /\ ProviderOK /\ MetricsConserved /\ PhasesOK /\ [Next]_vars
    => MetricsConserved'
<1> SUFFICES ASSUME TypeInv, ProviderOK, MetricsConserved, PhasesOK, [Next]_vars
             PROVE  MetricsConserved'
  OBVIOUS
<1>0. /\ stage \in [Conns -> Stage]
      /\ reply \in [Conns -> Responses \cup {None}]
  BY DEF TypeInv, TypeOK, ConnTypeOK
<1>1. CASE LoadConfig \/ Bind \/ Kill \/ Shutdown \/ ReaderStep \/ UNCHANGED vars
           \/ \E s \in Signal : ReceiveSignal(s)
  <2>1. UNCHANGED <<provider, totals, ran, stage, reply>>
    BY <1>1 DEF LoadConfig, Bind, Kill, Shutdown, ArmSignals, StopAccepting,
       FinishDrain, AskFlush, LoseFlush, GiveUp, Exit, ReaderStep, Reader,
       StartCycle, Collect, Export, ReceiveSignal, vars, telemetryVars, connVars,
       historyVars
  <2> QED
    BY <2>1, MetricsKept, DebtsUnchanged
<1>2. CASE InitTelemetry
  <2>1. /\ totals' = NoTotals
        /\ ran' = [calls |-> 0, errors |-> 0]
        /\ \A c \in Conns : stage'[c] = "closed"
    BY <1>2 DEF InitTelemetry, InitProviders, ProviderOK, PhasesOK,
       telemetryVars, historyVars, connVars
  <2>2. OweCall' = {} /\ OweError' = {} /\ OweDuration' = {}
    BY <2>1 DEF OweCall, OweError, OweDuration, FailedAt, AtStage
  <2>3. Cardinality({}) = 0
    BY FS_EmptySet
  <2> QED
    BY <2>1, <2>2, <2>3 DEF MetricsConserved, OweCall, OweError, OweDuration,
       NoTotals, Instrument
<1>3. ASSUME NEW c \in Conns,
             \/ Client(c) \/ Route(c) \/ WriteResponse(c) \/ NoticeDrain(c)
      PROVE  MetricsConserved'
  <2>1. UNCHANGED <<provider, totals, ran>>
    BY <1>3 DEF Client, Accept, BeginHead, ReceiveHead, ReceiveFrame, Disconnect,
       Route, WriteResponse, NoticeDrain, telemetryVars, historyVars
  <2>2. \A d \in Conns \ {c} : stage'[d] = stage[d] /\ reply'[d] = reply[d]
    BY <1>0, <1>3 DEF Client, Accept, BeginHead, ReceiveHead, ReceiveFrame,
       Disconnect, Route, WriteResponse, NoticeDrain, Connection, Close, Answer
  <2>3. CASE stage[c] \in Recording
    <3>1. NoticeDrain(c)
      BY <1>3, <2>3 DEF Client, Accept, BeginHead, ReceiveHead, ReceiveFrame,
         Disconnect, Route, WriteResponse, Recording
    <3>2. stage' = stage /\ reply' = reply
      BY <1>0, <2>3, <3>1 DEF NoticeDrain, Connection, Recording
    <3> QED
      BY <2>1, <3>2, MetricsKept, DebtsUnchanged
  <2>4. CASE stage[c] \notin Recording
    <3>1. stage'[c] \notin Recording
      BY <1>0, <1>3, <2>4 DEF Client, Accept, BeginHead, ReceiveHead,
         ReceiveFrame, Disconnect, Route, WriteResponse, NoticeDrain, Connection,
         Close, Answer, Recording
    <3> QED
      BY <2>1, <2>2, <2>4, <3>1, MetricsKept, DebtsKept
  <2> QED
    BY <2>3, <2>4
<1>4. ASSUME NEW c \in Conns, RunHandler(c)
      PROVE  MetricsConserved'
  BY <1>4, HandlerOwes
<1>5. ASSUME NEW c \in Conns, RecordCall(c) \/ RecordError(c) \/ RecordLatency(c)
      PROVE  MetricsConserved'
  BY <1>5, RecordPays
<1> QED
  BY <1>1, <1>2, <1>3, <1>4, <1>5 DEF Next, Startup, Task

\* No interleaving of the tasks loses a record of a tool call or makes it twice:
\* every instrument lags behind by the tasks that have not reached it.
THEOREM MetricsAreConserved == Spec => []MetricsConserved
<1>1. Init => MetricsConserved
  BY DEF Init, TelemetryInit, MetricsConserved
<1> QED
  BY <1>1, MetricsStep, TypeInvariant, ProviderInvariant, PhasesInvariant, PTL
     DEF Spec

-----------------------------------------------------------------------------
(* The last export.                                                        *)

Collected(i) == reader.batch[i] = totals[i]

\* The shutdown of the provider comes after the drain, so nothing is recorded
\* while the last cycle collects; what it has collected is what there is.
FlushOK ==
  /\ flush # "no" => phase \in {"flushing", "exited", "killed"}
  /\ reader.last => flush \in {"asked", "late"} /\ reader.at # "idle"
  /\ (flush \in {"ok", "failed"} /\ provider = "sdk") => reader.at = "idle"
  /\ reader.last /\ reader.at \in {"errors", "durations", "send"} => Collected("calls")
  /\ reader.last /\ reader.at \in {"durations", "send"} => Collected("errors")
  /\ reader.last /\ reader.at = "send" => Collected("durations")
  /\ (flush = "ok" /\ provider = "sdk") => exported = totals

\* What leaves the telemetry alone, and main in or past its flush, keeps the
\* invariant of the flush.
LEMMA FlushKept ==
  ASSUME FlushOK, UNCHANGED telemetryVars,
         phase \in {"flushing", "exited", "killed"} =>
           phase' \in {"flushing", "exited", "killed"}
  PROVE  FlushOK'
  BY DEF FlushOK, Collected, telemetryVars

\* The steps of the reader, periodic cycles and the last one alike.
LEMMA ReaderFlush ==
  ASSUME TypeInv, FlushOK, Reader, UNCHANGED phase
  PROVE  FlushOK'
<1>1. /\ reader.at \in Instrument \cup {"idle", "send"}
      /\ reader.batch \in [Instrument -> Nat]
      /\ totals \in [Instrument -> Nat]
      /\ exported \in [Instrument -> Nat]
      /\ reader.last \in BOOLEAN
  BY DEF TypeInv, TypeOK, TelemetryTypeOK
<1>2. CASE StartCycle
  BY <1>2 DEF FlushOK, StartCycle, ReaderAt, Collected
<1>3. ASSUME NEW i \in Instrument, Collect(i)
      PROVE  FlushOK'
  <2>1. /\ reader.at = i
        /\ reader'.at = NextStage[i]
        /\ reader'.last = reader.last
        /\ reader'.batch = [reader.batch EXCEPT ![i] = totals[i]]
        /\ UNCHANGED <<provider, totals, exported, flush>>
    BY <1>3 DEF Collect, ReaderAt
  <2>2. i \in {"calls", "errors", "durations"}
    BY DEF Instrument
  <2>3. /\ i = "calls" => reader'.at = "errors"
        /\ i = "errors" => reader'.at = "durations"
        /\ i = "durations" => reader'.at = "send"
    BY <2>1 DEF NextStage
  <2>4. \A j \in Instrument :
          reader'.batch[j] = IF j = i THEN totals[j] ELSE reader.batch[j]
    BY <1>1, <2>1
  <2>5. flush \notin {"ok", "failed"} \/ provider # "sdk"
    BY <2>1, <2>2 DEF FlushOK
  <2> QED
    BY <2>1, <2>2, <2>3, <2>4, <2>5 DEF FlushOK, Collected, Instrument
<1>4. CASE Export
  <2>1. /\ reader.at = "send"
        /\ reader'.at = "idle" /\ reader'.last = FALSE
        /\ UNCHANGED <<provider, totals>>
    BY <1>4 DEF Export, ReaderAt
  <2>2. PICK accepted \in BOOLEAN :
          /\ exported' = IF accepted THEN reader.batch ELSE exported
          /\ flush' = IF ~reader.last THEN flush
                      ELSE IF accepted /\ flush = "asked" THEN "ok" ELSE "failed"
    BY <1>4 DEF Export
  <2>3. reader.last => reader.batch = totals
    BY <1>1, <2>1 DEF FlushOK, Collected, Instrument
  <2>4. flush \notin {"ok", "failed"} \/ provider # "sdk"
    BY <2>1 DEF FlushOK
  <2>5. (flush' = "ok" /\ provider' = "sdk") => exported' = totals'
    BY <2>1, <2>2, <2>3, <2>4
  <2>6. flush' # "no" => phase' \in {"flushing", "exited", "killed"}
    BY <2>2 DEF FlushOK
  <2> QED
    BY <2>1, <2>5, <2>6 DEF FlushOK
<1> QED
  BY <1>2, <1>3, <1>4 DEF Reader

\* Every step keeps the invariant of the flush.
LEMMA FlushStep == TypeInv /\ ProviderOK /\ FlushOK /\ [Next]_vars => FlushOK'
<1> SUFFICES ASSUME TypeInv, ProviderOK, FlushOK, [Next]_vars PROVE FlushOK'
  OBVIOUS
<1>1. CASE \/ LoadConfig \/ Bind \/ Kill \/ ArmSignals \/ StopAccepting \/ Exit
           \/ UNCHANGED vars \/ \E s \in Signal : ReceiveSignal(s)
  BY <1>1, FlushKept DEF LoadConfig, Bind, Kill, ArmSignals, StopAccepting, Exit,
     vars, ReceiveSignal, processVars
<1>2. CASE \E c \in Conns : \/ Client(c) \/ Route(c) \/ RunHandler(c)
                            \/ WriteResponse(c) \/ NoticeDrain(c)
  BY <1>2, FlushKept DEF Client, Accept, BeginHead, ReceiveHead, ReceiveFrame,
     Disconnect, Route, RunHandler, WriteResponse, NoticeDrain, processVars
<1>3. CASE InitTelemetry
  <2>1. CASE UNCHANGED telemetryVars
    BY <1>3, <2>1, FlushKept DEF InitTelemetry
  <2>2. CASE InitProviders(env.endpoint)
    <3>1. flush = "no"
      BY <1>3 DEF InitTelemetry, FlushOK
    <3> QED
      BY <2>2, <3>1 DEF FlushOK, InitProviders, Collected
  <2> QED
    BY <1>3, <2>1, <2>2 DEF InitTelemetry
<1>4. CASE \E c \in Conns : RecordCall(c) \/ RecordError(c) \/ RecordLatency(c)
  <2>1. phase \in Serving /\ \E i \in Instrument : Record(i)
    BY <1>4 DEF RecordCall, RecordError, RecordLatency, Instrument
  <2>2. flush = "no" /\ ~reader.last
    BY <2>1 DEF FlushOK, Serving
  <2> QED
    BY <2>1, <2>2 DEF FlushOK, Record
<1>5. CASE FinishDrain
  <2>1. /\ phase = "draining" /\ phase' = "flushing"
        /\ UNCHANGED <<provider, totals, reader, exported>>
        /\ flush' = IF provider = "sdk" THEN "asked" ELSE "ok"
    BY <1>5 DEF FinishDrain, AskFlush
  <2>2. flush = "no" /\ ~reader.last
    BY <2>1 DEF FlushOK
  <2> QED
    BY <2>1, <2>2 DEF FlushOK
<1>6. CASE ReaderStep
  BY <1>6, ReaderFlush DEF ReaderStep, processVars
<1>7. CASE LoseFlush
  BY <1>7 DEF FlushOK, LoseFlush, GiveUp, Collected, processVars
<1> QED
  BY <1>1, <1>2, <1>3, <1>4, <1>5, <1>6, <1>7 DEF Next, Startup, Shutdown, Task

\* In every reachable state the last cycle has collected all there is.
LEMMA FlushInvariant == Spec => []FlushOK
<1>1. Init => FlushOK
  BY DEF Init, TelemetryInit, ReaderAt, FlushOK
<1> QED
  BY <1>1, FlushStep, TypeInvariant, ProviderInvariant, PTL DEF Spec

\* A process that ends through main, and was told that the export succeeded,
\* has exported the record of every tool that ever ran.
THEOREM LastExportIsComplete == Spec => []FinalExportComplete
<1>1. TypeInv /\ PhasesOK /\ MetricsConserved /\ FlushOK => FinalExportComplete
  <2> SUFFICES ASSUME TypeInv, PhasesOK, MetricsConserved, FlushOK,
                      phase = "exited", provider = "sdk", flush = "ok"
               PROVE  exported = [calls |-> ran.calls, errors |-> ran.errors,
                                  durations |-> ran.calls]
    BY DEF FinalExportComplete
  <2>1. OweCall = {} /\ OweError = {} /\ OweDuration = {}
    BY DEF PhasesOK, OweCall, OweError, OweDuration, FailedAt, AtStage
  <2>2. Cardinality({}) = 0
    BY FS_EmptySet
  <2>3. totals \in [{"calls", "errors", "durations"} -> Nat]
    BY DEF TypeInv, TypeOK, TelemetryTypeOK, Instrument
  <2>4. /\ totals["calls"] = ran.calls
        /\ totals["errors"] = ran.errors
        /\ totals["durations"] = ran.calls
    BY <2>1, <2>2, <2>3 DEF MetricsConserved, OweCall, OweError, OweDuration
  <2>5. exported = totals
    BY DEF FlushOK
  <2> QED
    BY <2>3, <2>4, <2>5
<1> QED
  BY <1>1, TypeInvariant, PhasesInvariant, MetricsAreConserved, FlushInvariant, PTL

-----------------------------------------------------------------------------
(* Exports only grow.                                                      *)

\* The instruments that the cycle under way has collected.
Taken(i) ==
  \/ reader.at = "send"
  \/ reader.at = "durations" /\ i # "durations"
  \/ reader.at = "errors" /\ i = "calls"

\* What the collector has is behind the batch under way, and that is behind the
\* instruments, which only grow.
ExportsOK ==
  \A i \in Instrument :
    /\ exported[i] <= totals[i]
    /\ Taken(i) => exported[i] <= reader.batch[i] /\ reader.batch[i] <= totals[i]

\* A step of the reader exports a batch in full or leaves the collector alone.
LEMMA ReaderExports ==
  ASSUME TypeInv, ExportsOK, Reader
  PROVE  ExportsOK' /\ \A i \in Instrument : exported'[i] >= exported[i]
<1>1. /\ reader.at \in Instrument \cup {"idle", "send"}
      /\ reader.batch \in [Instrument -> Nat]
      /\ totals \in [Instrument -> Nat]
      /\ exported \in [Instrument -> Nat]
  BY DEF TypeInv, TypeOK, TelemetryTypeOK
<1>2. CASE StartCycle
  BY <1>1, <1>2 DEF ExportsOK, Taken, StartCycle, ReaderAt
<1>3. ASSUME NEW i \in Instrument, Collect(i)
      PROVE  ExportsOK' /\ \A j \in Instrument : exported'[j] >= exported[j]
  <2>1. /\ reader.at = i
        /\ reader'.at = NextStage[i]
        /\ reader'.batch = [reader.batch EXCEPT ![i] = totals[i]]
        /\ UNCHANGED <<totals, exported>>
    BY <1>3 DEF Collect, ReaderAt
  <2>2. /\ i = "calls" => reader'.at = "errors"
        /\ i = "errors" => reader'.at = "durations"
        /\ i = "durations" => reader'.at = "send"
    BY <2>1 DEF NextStage
  <2>3. \A j \in Instrument : Taken(j)' => Taken(j) \/ j = i
    BY <2>1, <2>2 DEF Taken, Instrument
  <2>4. \A j \in Instrument :
          reader'.batch[j] = IF j = i THEN totals[j] ELSE reader.batch[j]
    BY <1>1, <2>1
  <2> QED
    BY <1>1, <2>1, <2>3, <2>4 DEF ExportsOK
<1>4. CASE Export
  <2>1. /\ reader.at = "send" /\ reader'.at = "idle" /\ totals' = totals
        /\ exported' \in {reader.batch, exported}
    BY <1>4 DEF Export, ReaderAt
  <2>2. \A i \in Instrument :
          exported[i] <= reader.batch[i] /\ reader.batch[i] <= totals[i]
    BY <2>1 DEF ExportsOK, Taken
  <2> QED
    BY <1>1, <2>1, <2>2 DEF ExportsOK, Taken
<1> QED
  BY <1>2, <1>3, <1>4 DEF Reader

\* Every step keeps the order of exports, batch and instruments, and no step
\* takes anything back from the collector.
LEMMA ExportsStep ==
  ASSUME TypeInv, ExportsOK, [Next]_vars
  PROVE  ExportsOK' /\ \A i \in Instrument : exported'[i] >= exported[i]
<1>1. /\ reader.batch \in [Instrument -> Nat]
      /\ totals \in [Instrument -> Nat]
      /\ exported \in [Instrument -> Nat]
  BY DEF TypeInv, TypeOK, TelemetryTypeOK
<1>2. CASE ReaderStep
  BY <1>2, ReaderExports DEF ReaderStep
<1>3. CASE \E c \in Conns : RecordCall(c) \/ RecordError(c) \/ RecordLatency(c)
  <2>1. \E i \in Instrument : Record(i)
    BY <1>3 DEF RecordCall, RecordError, RecordLatency, Instrument
  <2>2. /\ UNCHANGED <<reader, exported>>
        /\ \A i \in Instrument : totals'[i] \in Nat /\ totals[i] <= totals'[i]
    BY <1>1, <2>1 DEF Record
  <2> QED
    BY <1>1, <2>2 DEF ExportsOK, Taken
<1>4. CASE \/ Startup \/ Kill \/ Shutdown \/ UNCHANGED vars
           \/ \E s \in Signal : ReceiveSignal(s)
           \/ \E c \in Conns : \/ Client(c) \/ Route(c) \/ RunHandler(c)
                               \/ WriteResponse(c) \/ NoticeDrain(c)
  <2>1. UNCHANGED <<totals, reader, exported>>
    BY <1>4 DEF Startup, LoadConfig, InitTelemetry, InitProviders, Bind, Kill,
       Shutdown, ArmSignals, StopAccepting, FinishDrain, AskFlush, LoseFlush,
       GiveUp, Exit, vars, telemetryVars, ReceiveSignal, Client, Accept,
       BeginHead, ReceiveHead, ReceiveFrame, Disconnect, Route, RunHandler,
       WriteResponse, NoticeDrain
  <2> QED
    BY <1>1, <2>1 DEF ExportsOK, Taken
<1> QED
  BY <1>2, <1>3, <1>4 DEF Next, Task

\* What the collector has been sent never shrinks, whatever cycles fail and
\* however the last one follows those before it (shutdown, telemetry.rs).
THEOREM ExportsNeverShrink == Spec => ExportsAreMonotone
<1>1. Init => ExportsOK
  BY DEF Init, TelemetryInit, ReaderAt, NoTotals, ExportsOK, Taken
<1>2. TypeInv /\ ExportsOK /\ [Next]_vars
        => ExportsOK' /\ [\A i \in Instrument : exported'[i] >= exported[i]]_vars
  BY ExportsStep
<1> QED
  BY <1>1, <1>2, TypeInvariant, PTL DEF Spec, ExportsAreMonotone
=============================================================================
