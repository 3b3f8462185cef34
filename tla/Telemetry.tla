------------------------------ MODULE Telemetry ------------------------------
(***************************************************************************)
(* The tool metrics of telemetry.rs: three instruments that request tasks  *)
(* write one after the other without a lock, and the reader that exports   *)
(* them, periodically and once more when the meter provider shuts down.    *)
(* The instruments and the reader are the OpenTelemetry SDK's; the module  *)
(* models them by what record_tool_call and shutdown ask of them.          *)
(***************************************************************************)
EXTENDS Integers, Http

VARIABLES
  provider,      \* METER_PROVIDER: "none", or "sdk" once init has set it
  instruments,   \* TOOL_METRICS: None until first used, then "noop" or "sdk"
  totals,        \* what the instruments have accumulated
  reader,        \* where the reader's cycle is, and what it has collected
  exported,      \* the totals the collector received last
  flush          \* provider.shutdown(): "no", "asked", "ok", "failed", or "late"
                 \* once it has given up waiting for the reader

telemetryVars == <<provider, instruments, totals, reader, exported, flush>>

Instrument == {"calls", "errors", "durations"}
NoTotals == [i \in Instrument |-> 0]

\* A cycle collects the instruments one by one, then sends the batch.
NextStage == [calls |-> "errors", errors |-> "durations", durations |-> "send"]

ReaderAt(stage, last, batch) == [at |-> stage, last |-> last, batch |-> batch]

TelemetryInit ==
  /\ provider = "none"
  /\ instruments = None
  /\ totals = NoTotals
  /\ reader = ReaderAt("idle", FALSE, NoTotals)
  /\ exported = NoTotals
  /\ flush = "no"

\* The scheme, authority, query and host checks of sanitize_otlp_endpoint.
SafeEndpoint(endpoint) ==
  /\ endpoint.scheme \in {"http", "https"}
  /\ endpoint.host \notin {None, "metadata", "link-local", "unspecified"}
  /\ ~endpoint.userinfo
  /\ ~endpoint.query

\* init with an endpoint builds both providers, without one it builds none.
InitProviders(endpoint) ==
  /\ endpoint # None => SafeEndpoint(endpoint)
  /\ provider' = IF endpoint = None THEN "none" ELSE "sdk"
  /\ UNCHANGED <<instruments, totals, reader, exported, flush>>

\* The first use of TOOL_METRICS builds the instruments on the global meter
\* provider of that moment, for good.
Forced == IF instruments # None THEN instruments
          ELSE IF provider = "sdk" THEN "sdk" ELSE "noop"

\* add(1) or record() on one instrument.
Record(i) ==
  /\ instruments' = Forced
  /\ totals' = IF Forced = "sdk" THEN [totals EXCEPT ![i] = @ + 1] ELSE totals
  /\ UNCHANGED <<provider, reader, exported, flush>>

\* A cycle starts when the interval has passed, or for shutdown; the reader is
\* one thread, so it ends the cycle it is in before it takes up the shutdown.
StartCycle ==
  /\ provider = "sdk"
  /\ flush \in {"no", "asked", "late"}
  /\ reader.at = "idle"
  /\ reader' = ReaderAt("calls", flush # "no", NoTotals)
  /\ UNCHANGED <<provider, instruments, totals, exported, flush>>

\* Mutant: the batch holds what was recorded since the last export.
CollectDelta(i) ==
  /\ reader.at = i
  /\ reader' = ReaderAt(NextStage[i], reader.last,
                        [reader.batch EXCEPT ![i] = totals[i] - exported[i]])
  /\ UNCHANGED <<provider, instruments, totals, exported, flush>>

Collect(i) ==
  /\ reader.at = i
  /\ reader' = ReaderAt(NextStage[i], reader.last,
                        [reader.batch EXCEPT ![i] = totals[i]])
  /\ UNCHANGED <<provider, instruments, totals, exported, flush>>

\* The collector takes the batch, or the export fails or times out; only the
\* export of the last cycle is reported, to a shutdown that still waits for it,
\* and none is retried.
Export ==
  /\ reader.at = "send"
  /\ \E accepted \in BOOLEAN :
       /\ exported' = IF accepted THEN reader.batch ELSE exported
       /\ flush' = IF ~reader.last THEN flush
                   ELSE IF accepted /\ flush = "asked" THEN "ok" ELSE "failed"
  /\ reader' = ReaderAt("idle", FALSE, NoTotals)
  /\ UNCHANGED <<provider, instruments, totals>>

\* Mutant: shutdown takes the cycle under way for the last one.
AskFlushJoining ==
  /\ flush' = IF provider = "sdk" THEN "asked" ELSE "ok"
  /\ reader' = [reader EXCEPT !.last = (reader.at # "idle")]
  /\ UNCHANGED <<provider, instruments, totals, exported>>

\* shutdown() returns at once when no meter provider was set.
AskFlush ==
  /\ flush' = IF provider = "sdk" THEN "asked" ELSE "ok"
  /\ UNCHANGED <<provider, instruments, totals, reader, exported>>

\* shutdown() waits a few seconds, and the reader may be in an export of its own
\* for as long.
GiveUp ==
  /\ flush = "asked"
  /\ flush' = "late"
  /\ UNCHANGED <<provider, instruments, totals, reader, exported>>

Reader == StartCycle \/ (\E i \in Instrument : Collect(i)) \/ Export
=============================================================================
