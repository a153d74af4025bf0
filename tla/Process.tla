------------------------------- MODULE Process -------------------------------
(***************************************************************************)
(* The server's process from main to its exit: the checks of the start in  *)
(* their order, the probes, the listener or the stdio session, a signal or *)
(* a peer that leaves, the audit shutdown record, the flush of telemetry,  *)
(* and the runtime that is dropped before process::exit.                   *)
(*                                                                         *)
(* Of the telemetry the metrics signal is followed to its last export: the *)
(* registry counts the calls, a reader task takes cumulative snapshots.    *)
(* A snapshot is the number of calls it counts.  The other signals are     *)
(* followed as running or flushed (ExportPipeline has the inside of one).  *)
(* A signal that arrives before a handler is installed ends the process at *)
(* once and is left out.                                                   *)
(***************************************************************************)
EXTENDS Startup, Access

CONSTANTS Confs,      \* command lines, environments and files it is started with
          MaxQueue,   \* OTEL_BLRP_MAX_QUEUE_SIZE, for the snapshots
          MaxCalls    \* bound on the tool calls of a session

ASSUME ProcessAssumption ==
  /\ MaxQueue \in Nat \ {0} /\ MaxCalls \in Nat
  /\ \A c \in Confs :
       /\ c.transport \in {"stdio", "http", "invalid"}
       /\ c.audit \in AuditConfigs
       /\ {c.write, c.read} \subseteq TokenVars
       /\ {c.allowedHost, c.insecure, c.credentials} \subseteq BOOLEAN

VARIABLES
  conf,       \* what it was started with
  pc,         \* the statement of serve, run or main it is at
  env,        \* the environment
  ok,         \* the result of run so far
  probed,     \* signals whose collector has taken the probe
  exporters,  \* export tasks that run: the signals, and the audit stream
  registry,   \* openQA servers by selector
  bound,      \* the listener is bound, or the stdio session begun
  cancelled,  \* SIGINT or SIGTERM came
  stdin,      \* the blocking read of standard input: none, parked, ended
  running,    \* tool calls in progress
  counts,     \* calls the metrics registry has counted
  reader,     \* the reader: off, asleep, ticked, collected, ended, drained
  snapshot,   \* what it collected and has not queued yet
  queue,      \* snapshots in the metrics exporter's channel
  exported,   \* the snapshot the collector got last
  lossy,      \* a snapshot was dropped or refused
  answered,   \* history: calls counted before the transport returned
  farewell    \* the audit shutdown record was written

startVars == <<conf, env, probed, registry, bound>>
metricVars == <<counts, reader, snapshot, queue, exported, lossy>>
vars == <<startVars, metricVars, pc, ok, exporters, cancelled, stdin, running, answered, farewell>>

IsHttp == conf.transport = "http"
AuditAsked == conf.audit.kind # "off"

Init ==
  /\ conf \in Confs
  /\ pc = "main" /\ env = conf.env /\ ok = TRUE
  /\ probed = {} /\ exporters = {} /\ registry = <<>> /\ bound = FALSE
  /\ cancelled = FALSE /\ stdin = "none" /\ running = 0
  /\ counts = 0 /\ reader = "off" /\ snapshot = 0 /\ queue = <<>> /\ exported = 0
  /\ lossy = FALSE /\ answered = 0 /\ farewell = FALSE

-----------------------------------------------------------------------------
(* main and serve.  clap answers --help and a bad flag itself, before any  *)
(* telemetry.                                                              *)
GoTo(next) == pc' = next /\ UNCHANGED ok
GiveUp == pc' = "dropping" /\ ok' = FALSE
serving == <<exporters, cancelled, stdin, running, answered, farewell>>

FoldHomeEnv ==
  /\ pc = "main" /\ GoTo("cli")
  /\ env' = LoadHomeEnv(env, conf.home)
  /\ UNCHANGED <<conf, probed, registry, bound, metricVars, serving>>
ParseCli ==
  /\ pc = "cli" /\ \E next \in {"telemetry", "exited"} : GoTo(next)
  /\ UNCHANGED <<startVars, metricVars, serving>>

(* Telemetry::init_with_audit_stream                                       *)
Telemetry ==
  /\ pc = "telemetry"
  /\ IF ResolveFails(env) THEN GiveUp
     ELSE GoTo(IF On(env) = {} THEN "transport" ELSE "probe")
  /\ UNCHANGED <<startVars, metricVars, serving>>

(* Telemetry::init: signal by signal, a probe and then the export task,    *)
(* for the audit stream a second one behind the same probe.                *)
NextSignal == LET due == {i \in DOMAIN Signals : Signals[i] \in On(env) \ probed}
              IN Signals[CHOOSE i \in due : \A j \in due : i <= j]
Started(signal) == {signal} \cup (IF signal = "logs" /\ AuditAsked THEN {"audit"} ELSE {})

ProbeFails ==
  /\ pc = "probe" /\ GiveUp
  /\ UNCHANGED <<startVars, metricVars, serving>>
StartSignal ==
  /\ pc = "probe"
  /\ probed' = probed \cup {NextSignal}
  /\ IF StartPanics(env) THEN GoTo("panicked") /\ UNCHANGED <<exporters, reader>>
     ELSE /\ exporters' = exporters \cup Started(NextSignal)
          /\ reader' = IF NextSignal = "metrics" THEN "asleep" ELSE "off"
          /\ GoTo(IF probed' = On(env) THEN "transport" ELSE "probe")
  /\ UNCHANGED <<conf, env, registry, bound, counts, snapshot, queue, exported, lossy,
                 cancelled, stdin, running, answered, farewell>>

(* run, up to the transport: one check after the other, each of which      *)
(* returns at once, past the flush.                                        *)
Check(at, holds, next) ==
  /\ pc = at /\ (IF holds THEN GoTo(next) ELSE GiveUp)
  /\ UNCHANGED <<conf, env, probed, bound, metricVars, serving>>

CheckTransport ==
  Check("transport", conf.transport # "invalid" /\ (conf.allowedHost => IsHttp), "auth")
    /\ UNCHANGED registry
CheckAuth ==
  Check("auth", IsHttp => AuthError(conf.write, conf.read, conf.insecure) = "none", "audit")
    /\ UNCHANGED registry
BuildAuditor ==
  Check("audit", AuditAsked => AuditStarts(conf.audit, conf.transport, "audit" \in exporters),
        "servers") /\ UNCHANGED registry
CheckServers ==
  /\ Check("servers", ~RegistryFails(conf.servers, conf.credentials), "intervals")
  /\ registry' = IF RegistryFails(conf.servers, conf.credentials) THEN registry
                 ELSE BuildRegistry(conf.servers)
CheckIntervals ==
  Check("intervals", \A var \in {"heartbeat", "call_timeout"} : Duration(env, var) # "bad", "bind")
    /\ UNCHANGED registry

(* run_http's listener, whose failure still goes through the flush;        *)
(* run_stdio, whose first read of standard input parks a thread.           *)
Stopped(result) == pc' = "stopped" /\ ok' = result /\ answered' = counts
Listen ==
  /\ pc = "bind" /\ IsHttp
  /\ \/ bound' = TRUE /\ GoTo("serving") /\ UNCHANGED answered
     \/ UNCHANGED bound /\ Stopped(FALSE)
  /\ UNCHANGED <<conf, env, probed, registry, metricVars, exporters, cancelled, stdin, running,
                 farewell>>
OpenStdio ==
  /\ pc = "bind" /\ ~IsHttp
  /\ bound' = TRUE /\ stdin' = "parked" /\ GoTo("serving")
  /\ UNCHANGED <<conf, env, probed, registry, metricVars, exporters, cancelled, running, answered,
                 farewell>>

-----------------------------------------------------------------------------
(* While it serves, and as long as a task can run: calls, the reader and   *)
(* the collector.  rmcp's handlers are tasks of their own, which go on     *)
(* after the transport has returned.                                       *)
Alive == pc \in {"serving", "stopped", "flush", "dropping"} /\ bound
CallStarts ==
  /\ pc = "serving" /\ ~cancelled /\ counts + running < MaxCalls
  /\ running' = running + 1
  /\ UNCHANGED <<startVars, metricVars, pc, ok, exporters, cancelled, stdin, answered, farewell>>

(* Registry::record_call                                                   *)
CallEnds ==
  /\ Alive /\ running > 0
  /\ running' = running - 1 /\ counts' = counts + 1
  /\ UNCHANGED <<startVars, reader, snapshot, queue, exported, lossy, pc, ok, exporters, cancelled,
                 stdin, answered, farewell>>

(* Mutant. *)
EnqueueAlways(value) == queue' = Append(queue, value) /\ UNCHANGED lossy

(* Producer::enqueue, for a snapshot.                                      *)
Enqueue(value) ==
  IF Len(queue) < MaxQueue THEN queue' = Append(queue, value) /\ UNCHANGED lossy
  ELSE UNCHANGED queue /\ lossy' = TRUE

others == <<startVars, pc, ok, exporters, cancelled, stdin, running, answered, farewell, counts>>

(* run_reader: a tick collects, unless the cancellation that begins the    *)
(* flush was there first, and nothing is collected from an empty registry; *)
(* what was collected is queued in a step of its own.                      *)
Flushing == pc = "flush"
Tick ==
  /\ reader = "asleep" /\ Alive /\ ~Flushing
  /\ reader' = "ticked"
  /\ UNCHANGED <<others, snapshot, queue, exported, lossy>>
Collect ==
  /\ reader = "ticked" /\ pc # "exited"
  /\ IF counts = 0 THEN reader' = "asleep" /\ UNCHANGED snapshot
     ELSE reader' = "collected" /\ snapshot' = counts
  /\ UNCHANGED <<others, queue, exported, lossy>>
Queue ==
  /\ reader = "collected" /\ pc # "exited"
  /\ reader' = "asleep" /\ Enqueue(snapshot)
  /\ UNCHANGED <<others, snapshot, exported>>
ReaderEnds ==
  /\ reader = "asleep" /\ Flushing /\ "metrics" \in exporters
  /\ reader' = "ended"
  /\ UNCHANGED <<others, snapshot, queue, exported, lossy>>

(* The metrics export task.                                                *)
ExportNext ==
  /\ queue # <<>> /\ pc # "exited"
  /\ queue' = Tail(queue)
  /\ \/ exported' = Head(queue) /\ UNCHANGED lossy
     \/ UNCHANGED exported /\ lossy' = TRUE
  /\ UNCHANGED <<others, reader, snapshot>>

-----------------------------------------------------------------------------
(* The ways a session ends: the peer closes its end, before or after the   *)
(* handshake; a signal.  HTTP lets the calls in progress end first.        *)
Signal ==
  /\ bound /\ ~cancelled /\ pc # "exited"
  /\ cancelled' = TRUE
  /\ UNCHANGED <<startVars, metricVars, pc, ok, exporters, stdin, running, answered, farewell>>
PeerCloses ==
  /\ stdin = "parked" /\ stdin' = "ended"
  /\ IF pc = "serving" THEN \E handshake \in BOOLEAN :
            (counts + running > 0 => handshake) /\ Stopped(handshake \/ cancelled)
     ELSE UNCHANGED <<pc, ok, answered>>
  /\ UNCHANGED <<startVars, metricVars, exporters, cancelled, running, farewell>>
PeerWrites ==
  /\ stdin = "parked" /\ pc \notin {"serving", "exited"}
  /\ stdin' = "ended"
  /\ UNCHANGED <<startVars, metricVars, pc, ok, exporters, cancelled, running, answered, farewell>>
StopServing ==
  /\ pc = "serving" /\ cancelled
  /\ IsHttp => running = 0
  /\ Stopped(TRUE)
  /\ UNCHANGED <<startVars, metricVars, exporters, cancelled, stdin, running, farewell>>

(* run, after the transport: the audit record of a good end, then the      *)
(* flush, whatever the end was.                                            *)
AuditShutdown ==
  /\ pc = "stopped"
  /\ farewell' = (ok /\ AuditAsked)
  /\ GoTo("flush")
  /\ UNCHANGED <<startVars, metricVars, exporters, cancelled, stdin, running, answered>>

FlushOthers == exporters \ {"metrics"}
Flushed(x) ==
  /\ Flushing /\ x \in FlushOthers
  /\ exporters' = exporters \ {x}
  /\ UNCHANGED <<startVars, metricVars, pc, ok, cancelled, stdin, running, answered, farewell>>

(* Mutant. *)
FinalCollectAtOnce ==              \* the reader is not awaited
  /\ Flushing /\ "metrics" \in exporters /\ reader \in {"asleep", "collected"}
  /\ reader' = IF reader = "asleep" THEN "drained" ELSE "collected"
  /\ IF counts > 0 THEN Enqueue(counts) ELSE UNCHANGED <<queue, lossy>>
  /\ UNCHANGED <<others, snapshot, exported>>
(* MetricsPipeline::shutdown: the last collection is queued when the       *)
(* reader has ended, and only then the exporter drains its channel.        *)
FinalCollect ==
  /\ Flushing /\ "metrics" \in exporters /\ reader = "ended"
  /\ reader' = "drained"
  /\ IF counts > 0 THEN Enqueue(counts) ELSE UNCHANGED <<queue, lossy>>
  /\ UNCHANGED <<others, snapshot, exported>>
MetricsFlushed ==
  /\ Flushing /\ "metrics" \in exporters /\ reader = "drained"
  /\ queue = <<>>
  /\ exporters' = exporters \ {"metrics"}
  /\ UNCHANGED <<startVars, metricVars, pc, ok, cancelled, stdin, running, answered, farewell>>

(* Mutant. *)
BudgetOfAudit ==                   \* only the audit stream's flush is bounded
  /\ Flushing /\ "audit" \in exporters
  /\ exporters' = exporters \ {"audit"} /\ UNCHANGED lossy
  /\ UNCHANGED <<startVars, counts, reader, snapshot, queue, exported, pc, ok, cancelled, stdin,
                 running, answered, farewell>>

(* SHUTDOWN_BUDGET is over for every exporter that is still at it; that of *)
(* the metrics begins with its drain.                                      *)
BudgetSpent ==
  /\ Flushing /\ exporters # {}
  /\ "metrics" \in exporters => reader = "drained"
  /\ exporters' = {} /\ lossy' = (lossy \/ "metrics" \in exporters)
  /\ UNCHANGED <<startVars, counts, reader, snapshot, queue, exported, pc, ok, cancelled, stdin,
                 running, answered, farewell>>
RunReturns ==
  /\ Flushing /\ exporters = {}
  /\ GoTo("dropping")
  /\ UNCHANGED <<startVars, metricVars, serving>>

(* main: the runtime is a temporary of the let statement, so it is dropped *)
(* before process::exit, and waits for its blocking threads.               *)
DropRuntime ==
  /\ pc = "dropping" /\ stdin # "parked"
  /\ GoTo("exited")
  /\ UNCHANGED <<startVars, metricVars, serving>>

Start ==
  \/ FoldHomeEnv \/ ParseCli \/ Telemetry \/ ProbeFails \/ StartSignal
  \/ CheckTransport \/ CheckAuth \/ BuildAuditor \/ CheckServers \/ CheckIntervals
  \/ Listen \/ OpenStdio
Finish ==
  \/ StopServing \/ AuditShutdown \/ ReaderEnds \/ FinalCollect \/ MetricsFlushed \/ BudgetSpent
  \/ RunReturns \/ DropRuntime
Next ==
  \/ Start \/ Finish
  \/ CallStarts \/ CallEnds \/ Tick \/ Collect \/ Queue \/ ExportNext
  \/ Signal \/ PeerCloses \/ PeerWrites
  \/ \E x \in {"logs", "audit", "traces"} : Flushed(x)

(* The runtime runs what is ready and a budget is a timer; calls end by    *)
(* their deadline.  Peers, signals and collectors are left to themselves.  *)
Fairness == WF_vars(Finish) /\ WF_vars(CallEnds) /\ WF_vars(Collect \/ Queue)
Spec == Init /\ [][Next]_vars /\ Fairness

-----------------------------------------------------------------------------
TypeOK ==
  /\ conf \in Confs /\ {ok, bound, cancelled, lossy, farewell} \subseteq BOOLEAN
  /\ pc \in {"main", "cli", "telemetry", "probe", "transport", "auth", "audit", "servers",
             "intervals", "bind", "serving", "stopped", "flush", "dropping", "exited", "panicked"}
  /\ probed \subseteq SignalNames
  /\ exporters \subseteq probed \cup {"audit"}
  /\ stdin \in {"none", "parked", "ended"}
  /\ reader \in {"off", "asleep", "ticked", "collected", "ended", "drained"}
  /\ running + counts \in 0..MaxCalls /\ snapshot \in 0..MaxCalls /\ answered \in 0..counts
  /\ Len(queue) <= MaxQueue /\ exported \in 0..counts

(* Nothing is bound and no session begins on a configuration that was only *)
(* partly accepted: every collector that will be used took its probe, and  *)
(* no other; tokens, transport and hosts agree; a gate that can close has  *)
(* a file or an export task to go by; and every server named in            *)
(* OPENQA_SERVER answers to its own name and its alias (serve, run).       *)
ServesOnlyWhatWasChecked ==
  bound =>
    /\ ~Disabled(env) => probed = {s \in SignalNames : SignalOn(env, s)}
    /\ Disabled(env) => probed = {}
    /\ IsHttp => AuthError(conf.write, conf.read, conf.insecure) = "none"
    /\ conf.audit.kind = "nofile" /\ FailModeFor(conf.audit, conf.transport) = "closed"
         /\ pc = "serving" => "audit" \in exporters
    /\ \A i \in DOMAIN Entries(conf.servers) :
         \A s \in Selectors(Entries(conf.servers)[i]) : registry[s] = Entries(conf.servers)[i]

(* The collector sees the counts grow and never fall back, and when the    *)
(* flush is over the last export counts every call that was answered while *)
(* the transport ran, unless a snapshot was dropped, refused or late       *)
(* (MetricsPipeline::shutdown).                                            *)
LastCountsSent ==
  /\ [][exported <= exported']_vars
  /\ [](pc \in {"dropping", "exited"} /\ reader = "drained" /\ ~lossy => exported >= answered)

(* A signal ends the process, through the audit record and the flush,      *)
(* whatever calls are in progress and however the collectors behave, as    *)
(* soon as no thread is parked in a read of standard input.                *)
EndsWhenUnparked ==
  (cancelled /\ stdin # "parked") ~> (pc = "exited")

(* main.rs:39 "Exit directly instead of returning through `main` so a      *)
(* still-open stdin never turns a clean Ctrl-C into a hang."               *)
SignalEnds == cancelled ~> (pc = "exited")
=============================================================================
