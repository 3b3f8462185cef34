---------------------------- MODULE TracesProofs ----------------------------
(***************************************************************************)
(* Proofs about the trace pipeline of module Traces, for a queue and       *)
(* batches of any size and any number of tool calls.                       *)
(***************************************************************************)
EXTENDS Traces, TLAPS

\* What goes with the phases of main: a call is open only before and while the
\* server serves, and the provider is asked between the metrics and the exit.
PhaseOK ==
  /\ phase = "boot" => open = 0 /\ ended = 0 /\ tracer = "none"
  /\ phase \in {"metrics", "traces", "exited"} => open = 0
  /\ phase \in {"boot", "serving", "metrics"} => report = "no"
  /\ phase = "traces" /\ tracer = "sdk" => report # "no"
  /\ phase = "exited" /\ tracer = "sdk" => report \in {"ok", "failed", "late"}

\* Who is told that the processor is done is told the truth.
DrainedOK ==
  report \in {"ok", "failed"} => queue = 0 /\ batch = 0

\* Before there is a provider nothing is in the pipeline.
IdleOK ==
  tracer = "none" =>
    queue = 0 /\ batch = 0 /\ sent = 0 /\ lost = 0 /\ dropped = 0 /\ report = "no"

\* A span that has ended is waiting, in an export, taken, lost or dropped.
BooksOK == tracer = "sdk" => ended = queue + batch + sent + lost + dropped

\* The inductive invariant.
IInv == TypeOK /\ BooksOK /\ PhaseOK /\ DrainedOK /\ IdleOK

\* Nothing has been traced yet.
LEMMA InitIInv == Init => IInv
  BY TracesAssumption DEF Init, IInv, TypeOK, BooksOK, PhaseOK, DrainedOK, IdleOK

\* Every step keeps the books.
LEMMA StepIInv == IInv /\ [Next]_vars => IInv'
<1> SUFFICES ASSUME IInv, [Next]_vars PROVE IInv'
  OBVIOUS
<1> USE TracesAssumption DEF IInv, TypeOK, BooksOK, PhaseOK, DrainedOK, IdleOK
<1>1. CASE InitTracer
  BY <1>1 DEF InitTracer, spanVars
<1>2. CASE EnterCall
  BY <1>2 DEF EnterCall
<1>3. CASE LeaveCall
  BY <1>3 DEF LeaveCall
<1>4. CASE TakeBatch
  BY <1>4 DEF TakeBatch, Exporting
<1>5. CASE ExportBatch
  BY <1>5 DEF ExportBatch, Exporting
<1>6. CASE Report
  BY <1>6 DEF Report, Exporting, spanVars
<1>7. CASE StopServing \/ ShutdownMetrics
  BY <1>7 DEF StopServing, ShutdownMetrics, spanVars
<1>8. CASE GiveUp \/ Exit
  BY <1>8 DEF GiveUp, Exit, spanVars
<1>9. CASE UNCHANGED vars
  BY <1>9 DEF vars, spanVars
<1> QED
  BY <1>1, <1>2, <1>3, <1>4, <1>5, <1>6, <1>7, <1>8, <1>9 DEF Next

\* So the invariant holds of every behaviour.
LEMMA Invariant == Spec => []IInv
  BY InitIInv, StepIInv, PTL DEF Spec

\* The counts stay counts and the queue within its bound: telemetry never makes
\* the process hold more than MaxQueue spans (init, telemetry.rs).
THEOREM TypeCorrect == Spec => []TypeOK
<1>1. IInv => TypeOK
  BY DEF IInv
<1> QED
  BY <1>1, Invariant, PTL

\* main never returns with spans that were not even tried, unless it was told so
\* (shutdown, telemetry.rs).
THEOREM ExitsAreFlushed == Spec => []ExitMeansFlushed
<1>1. IInv => ExitMeansFlushed
  BY DEF IInv, TypeOK, BooksOK, PhaseOK, DrainedOK, ExitMeansFlushed
<1> QED
  BY <1>1, Invariant, PTL

\* Until it serves no more, the processor refuses a span only for want of room:
\* no call is left to end after the shutdown has begun (main.rs).
THEOREM DropsAreFull == Spec => DropsOnlyWhenFull
<1>1. IInv /\ [Next]_vars => [dropped' > dropped => queue = MaxQueue]_vars
  <2> SUFFICES ASSUME IInv, Next, dropped' > dropped PROVE queue = MaxQueue
    BY DEF vars, spanVars
  <2>1. LeaveCall
    BY DEF Next, InitTracer, EnterCall, TakeBatch, ExportBatch, Report,
       StopServing, ShutdownMetrics, GiveUp, Exit, spanVars, IInv, TypeOK
  <2> QED
    BY <2>1, TracesAssumption DEF LeaveCall, IInv, TypeOK, PhaseOK
<1> QED
  BY <1>1, Invariant, PTL DEF Spec, DropsOnlyWhenFull
=============================================================================
