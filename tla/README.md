# A TLA+ model of ruoqa-mcp

`ruoqa-mcp` is an MCP server (stdio or HTTP) in front of openQA instances. Most of its
tools forward one HTTP request. What is hard in it is around the calls: an audit stream
that must not lose records silently, a gate that refuses calls while that stream cannot
persist, a rotating file that must survive failing system calls and crashes, export
pipelines that must not block anybody, answers that must be true although openQA answers
late or never, logs that grow while they are read, and a process that checks a dozen
things before it serves and flushes four exporters before it exits.

Contents: [Inventory](#inventory) · [Plan](#plan) · [The modules](#the-modules) ·
[Runs and bounds](#runs-and-bounds) · [Fairness](#fairness) · [Proofs](#proofs) ·
[Disagreements found](#disagreements-found) · [Not modelled](#not-modelled)

## Inventory

| Part (source) | State it keeps | Operations | What is hard | What makes it correct | Module |
| --- | --- | --- | --- | --- | --- |
| Auditor (`audit.rs` 476-728) | `seq`, `failing`, `gap`, the sink, an OTLP producer | `write`, `update_gap`, `refuses`, `refused` | one lock for a write, none for the gate's load; a recovery writes two records, the second may fail | file order = export order = sequence order; each outage counted exactly once; no silent hole | AuditGate |
| Sink (`audit.rs` 330-461) | path, open handle, cached length; files on disk | `open`, `append`, `rotate` | nine places where a system call may fail or the process may die; the handle follows the file and not the name | order across generations; only the oldest file is deleted; size bound; the sink stays on the live file | AuditSink |
| Gate and call path (`server.rs`) | none of its own besides task locals | `call_tool`, `gate`, `authorize`, `dispatch`, `list_tools`, `initialize` | load, count, dispatch and record are separate steps of concurrent tasks; the deadline races a late upstream write | only writers write; the list shows what may be called; the answer is true; the trace tells it | AuditGate, ToolCall |
| HTTP front (`http.rs`) | tokens, allowed hosts | `resolve`, `scope_for`, `authenticate` | combinations of tokens and flags | no request without a scope reaches a tool | Access, ToolCall |
| Tools (`tools/read.rs`, `tools/write.rs`, `form.rs`, `query.rs`) | none | 31 read and 14 write tools | an empty filter that matches everything; keys openQA folds together | no mass operation without a target | Tools, ToolCall |
| Heartbeat (`heartbeat.rs`) | ticker | `with_heartbeat` | a notification stuck at the client while the answer is there | the answer gets through | ToolCall |
| Artifact reader and digest (`tools/artifact.rs`, `tools/read.rs`) | none | `probe`, `fetch_tail`, `read_capped`, `slice`, `grep_lines`, `scan_markers`, archives, needles | a log growing between probe and fetch; windows cut to whole lines; ceilings; helper requests that fail | what is returned is a part of the log, within its ceiling, and says when it moved | LogText, JobDetails, JobFiles |
| Export pipeline (`otel/pipeline.rs`) | queue, batch, drop counters, health, cancellation | `enqueue`, `run_task`, `export`, `send_with_retry`, `shutdown` | producers run during the final drain; budget against a running request; retries | order, one place per record, bounded backlog, everything delivered or counted | ExportPipeline |
| Metrics (`otel/metrics.rs`) | registry of cumulative counters, reader task | `record_call`, `collect`, `shutdown` | last collection between the reader's stop and the exporter's drain | nothing counted before the transport returned is missing from the last export | Process |
| Traces (`otel/traces.rs`) | ids | sampling, spans of call and requests | a call cut by its deadline; ids that cannot be drawn | one child span per request, agreeing with the answer | ToolCall |
| Telemetry assembly (`otel/mod.rs`, `lib.rs`), environment (`otel/env.rs`) | the exporters | `resolve`, `init`, probes, `shutdown` | fatal probes; four flushes at once; per-signal and base variables | a failed probe starts nothing; the flush ends | Startup, Process |
| Process (`main.rs`, `cli.rs`, `dotenv.rs`) | environment, cancellation token | start-up order, signals, exit | exit paths that skip a flush or a record; a parked read of standard input | nothing is served before it is checked; a signal ends the process | Process |
| Registry and configuration (`servers.rs`, `config.rs`) | server table | `build_registry`, durations | ambiguous ids and aliases | a selector names one server | Startup, Process |
| Encoders, schemas, summaries (`otel/logs.rs`, `otel/proto.rs`, `schema.rs`, `summary.rs`) | none | pure mappings | none | none that a state machine adds to | none |

Interactions. `call_tool` loads the Auditor's flag, counts a refusal under its lock, and
writes its record at the end, with other calls in between. The Auditor appends to the sink
and enqueues on the audit stream's own exporter while it holds its lock, and with
`path = "none"` reads that exporter's health instead of an append result. A call's dispatch
runs its tool's requests one after the other, each under a heartbeat and all of them under
one deadline; what became of it is classified once and told to the caller, the metric, the
span and the record. The exporters run as tasks; `main` cancels and flushes them after the
transport has returned and the shutdown record has been written, and only then drops the
runtime.

The list `hazards` of `PROJECT.json` names, line by line, what is hard to test, and which
property watches it.

## Plan

1. **AuditGate** over the abstract **AuditLedger**: sequence, gaps, gate. *Done.*
2. **AuditSink** over the abstract **RetainedLog**: rotation. *Done.*
3. **ExportPipeline**: queue, task, retries, flush. *Done.*
4. **Access**, **Tools**, **ToolCall**: one call from header to answer. *Done.*
5. **LogText**, **JobDetails**, **JobFiles**: files that grow while they are read. *Done.*
6. **Startup**, **Process**: from `main` to the exit, with the metrics reader. *Done.*
7. **AuditOtlp**: AuditGate's calls on top of ExportPipeline (`path = "none"`), for how
   many records can be judged persisted and be dropped. *Left.*
8. **AuditFile**: AuditGate on top of AuditSink: which appends of an outage are in the
   file after all (a failed fsync), and gaps across rotation. *Left.*

The runs stay few: one passing run per component answers all questions about it that need
the same instance, and a disagreement gets a run only where no other one shows it.

## The modules

**AuditGate** (`audit.rs`, `server.rs`). One variable per field of `Auditor` and
`SinkState` (`seq`, `failing`, `gap`), the records judged persisted (`stream`), the
numbers handed to the exporter (`offered`), and per call slot where the call is between
its accesses. `Lose`, `Persist` and `Recover` are the three outcomes of `write()` with
everything `update_gap()` does in the same critical section: the gap record is part of
`Recover`, with its own success or failure. `Arrive`, `Refuse` and `RecordCall` are the
three places where `call_tool` meets the Auditor. A time stamp is the sequence number
that is next when it is taken. With a file sink an append may succeed or fail at any time;
without one the export task's health decides, and `Collector` changes it freely.
`forgotten`, `refusals` and `unrecorded` are history. The gap of the code is an `Option`:
`NoGap` stands for `None`, which is sound because an open gap always counts something
(part of `TypeOK`).

**AuditLedger** is what an auditor of the file relies on: numbered entries, holes, and a
report of their size behind the entry that closes them.

**AuditSink** (`audit.rs`, `Sink`). `dir` maps the generations 0 (live) to `Keep` to
files, `handle` is a file and not a name, `len` is the cached length. An append is a
sequence of system calls with a program counter; each that is listed in `Faults` may
fail, up to `MaxFaults` times, and `Crash` may come anywhere. `rename` replaces its target
and `NotFound` is forgiven where `ignore_not_found` stands, and only there. Whatever a
failed call leaves behind stays: a torn line, an unsynced one, a half-done shift. `faults`
counts the failures of each system call, and the properties say with it what each failure
may cost: `LiveHandle` excepts a failed open, `LossOnlyByAge` a rotation cut short,
`SizeBound` a failed write or sync (its bytes are in the file and not in `len`), while
`GenerationsInOrder` and `ImplementsLog` except nothing. A crash is a process crash: what
was written stays with the operating system.

**RetainedLog** is the reader's view: one log that grows at one end and is cut at the
other.

**ExportPipeline** (`otel/pipeline.rs`). The channel, the loop's batch, the batch that
`export()` has taken, and `run_task`'s position. The biased `select!` is in the guards
(no receive and no timer once cancelled). Whether the timer has fired is open whenever
the batch is not empty. The collector answers anything. The order of
`dropped.record` and `health.fail` is one step; nothing reads both.

**Access** (`http.rs`, `server.rs`) has the pure decisions: which tokens are a
configuration error, the scope a header is granted, whom `authorize` lets through and what
`list_tools` shows. A token variable is one of the values the code tells apart (unset, two
good ones, too short, unprintable).

**Tools** (`tools/read.rs`, `tools/write.rs`) is the table of the tools, each with its
annotation and its requests: method, endpoint with the ids left out, query keys or form
fields, and the channel it takes (`request_json`, `request_form`, or `artifact.rs`'s own
`execute`). A request whose failure the tool survives is `soft`; one whose success does not
yet let the tool answer is not `enough`. The argument checks of the bulk operations are
operators here.

**ToolCall** follows one call at a time through middleware, gate, sampling, authorization,
argument checks, requests, heartbeat, deadline and the common tail. Calls share nothing
else than what AuditGate and ExportPipeline model, so one at a time is enough; the gate's
verdict is an input here. openQA is external: a mutating request that was sent is `stray`
until it takes effect or is refused, and may take effect after the server stopped waiting.
A notification of the heartbeat may never be taken by the client. What the tools do with
file contents is reduced to "has its answer, needs one request more, or finds what came
unfit"; JobFiles has the inside.

**LogText**, **JobDetails** (`tools/artifact.rs`) are pure operators over lines that are
reduced to a class (which markers match it, whether it is a stack frame) and over the
parts of `/details` the code reads: last lines, grep with context, marker scan, where a
test died, failed modules, needle candidates and the two file listings. **Arranged** puts the
elements of a finite set in the order of a relation, which is what `sort_by` does to the
candidates and a pass over the lines to their numbers; it is defined by cardinalities and
not by the community modules' `SetToSortSeq`, whose sorting no prover can look into.

**JobFiles** (`tools/read.rs`, `tools/artifact.rs`) is the state machine of the five tools
that read a job's files. A file is a number of bytes with the positions where lines end
and where a byte continues a character; `Grow` appends to it between any two requests, and
its validators may or may not move. `ProbeWhole`/`ProbeHead`, `FetchAll`, `FetchTail` and
`RetryTail` are the requests; archives are reduced to what decides their treatment (format,
whether a member is asked for, twice the size when unpacked).

**Startup** has the decisions of the start as pure operators: `~/.env` against the
environment, every `OTEL_*` variable by what its text is worth, the audit configuration
against the transport and the exporters that run, the server registry with its aliases.

**Process** (`main.rs` and what it calls) applies them in the order of the code, with one
action per check, per probe and export task, the listener or the stdio session, and then
calls, signals and peers until the process is gone. The metrics signal is followed inside:
the registry counts calls, the reader collects and enqueues in two steps, the shutdown
waits for the reader, collects once more and drains. `DropRuntime` is the drop of the
runtime, a temporary of a `let` statement in `main`, which waits for a blocking thread that
is parked in a read of standard input.

The `MC...` modules give the constants their values and add what needs the community
modules: a sum over records, and the concatenation of the generations (`Chapters`,
`ReaderLog`) that the refinement maps to the log of RetainedLog.

Operators marked *Mutant* are deliberate mistakes kept beside the definition they
replace: each property is known to fail when the named definition is replaced by one of
them.

## Runs and bounds

| Run | Question | Bounds and why they are enough |
| --- | --- | --- |
| `gate_closed_all` | all properties of AuditGate, file sink with OTLP copy | two calls and three losses in seven numbers: two separate outages with a lost and a written gap record and refusals across both |
| `gate_collector_only` | health instead of an append result, writes refused only | two calls, two losses; liveness is not asked here, nothing says the collector returns |
| `sink_faulty_disk` | order, retained log, live file, size and what may be deleted, under all faults | three numbered files, records of half and of the whole limit, six records: all names in use and two more rotations; every system call fails at most once and the process dies at most once, in any combination: a failed rotation, its retry and a crash in the retry |
| `export_serving` | order, accounting, health, backlog, nothing queued for ever | five records, queue and batch of two, three attempts: full queue, full batch, drain with both, records during the last request |
| `tool_call` | who may write, what is listed, targets, truth of the answer, trace, answers that get through | 373,380 states: every tool and an unknown one, seven configurations (stdio, insecure HTTP, one or two tokens, equal tokens (which must not start), read-only, with and without a deadline, the three samplings), five headers, every subset of six optional arguments, bulk sizes at and beyond the limits, two notifications per request |
| `job_files` | tails, ceilings, digests, needles, listings | 126,739 states: eight files of up to eight bytes in four lines, of five formats, with and without ranges, sizes and validators; the ceiling below, at and above the size; one hit limit that cuts; /details that fail; three needle candidates of which one has no path and two tie |
| `process` | what is bound, what the last export counts, whether a signal ends it | 37,237 states: some two hundred configurations, each a sound one with one variable changed, or a product of the variables that are checked together; two calls and a queue of two snapshots, so that the reader fills it beside a dead collector |

The runs expected to find a violation are listed under
[Disagreements found](#disagreements-found). Deadlock is checked in `tool_call`, where a
call can always end and another begin. It is not checked elsewhere: those systems may
stop, the server after its shutdown, the sink and the pipeline when the bound on records
is reached, a file tool when it has answered.

`MaxSeq`, `MaxLost`, `MaxRecords`, `MaxFaults`, `MaxCrashes`, `MaxPings`, `MaxSize`,
`MaxCalls` bound the state space and are not in the code. A loss needs room for a later
recovery (`seq + 2 <= MaxSeq`), so the bound itself never keeps an outage open. The limits
of JobFiles (`MaxArtifact`, `MaxHits`, `TailLines`, `MaxMembers`, the window sizes) are the
code's constants, scaled down so that each of them is reached.

## Fairness

`AuditGate`: calls keep arriving in each slot, and a call that runs goes on: tokio polls
ready tasks, and the call deadline (300 s unless it is disabled) ends a dispatch that
hangs. The disk is not fair; `MaxLost` says that it fails finitely often, which is the
hypothesis of "when persistence recovers". `GateReopens` says that then the gate opens,
although every call may have been refused until then.

`ExportPipeline`: the task is polled, its timer fires, and a request ends because
`reqwest` is given a timeout. The collector is not assumed to accept anything, the
shutdown is not assumed to happen. The schedule delay restarts with every record, so a
partial batch could wait for the timer for as long as records keep coming; each of them
brings the batch closer to its maximum, so the wait is bounded.

`ToolCall`: an answer that has come is polled, and the deadline's timer fires. Nothing is
assumed of openQA, which may never answer, nor of the client, which may never take a
notification; without a deadline a call may then wait for ever, and `Answered` does not
deny it.

`Process`: what `run` and `main` do next is done, the flush budget is a timer, the reader's
started collection is finished, and a call in progress ends (its deadline, or the request
timeout of the HTTP client when the deadline is disabled). Signals, peers and collectors
are left to themselves.

`JobFiles` and `AuditSink` state no liveness.

## Proofs

What TLC shows for the instances above, TLAPS proves for every value of the constants
where it can. Seven modules hold the theorems, and **Induction** the lemmas about data they
share; the list `theorems` of `PROJECT.json` says which property each one states.

| Module | Theorems | From | Along which invariant |
| --- | --- | --- | --- |
| AuditGate_proofs | `TypeCorrect`, `FlagCorrect`, `GateCorrect`, `GapsExact`, `NoSilentLoss`, `OrdersAgree`, `RefusalsAddUp`, `LedgerImplemented` | none | `GateIInv`, `StreamIInv`, `Offered`, `RefusedInv` |
| AuditSink_proofs | `SinkTypeCorrect`, `RotationKeepsOrder`, `HandleStaysLive` | `SinkAssumption` | `IInv` |
| AuditRotation_proofs | `OnlyTheOldestGoes`, `FilesStayWithinBounds`, `LogImplemented` | `SinkAssumption` | `RotationInv`, `LengthInv`, `IInv` |
| ExportPipeline_proofs | `PipelineTypeCorrect`, `MemoryIsBounded`, `DeliveryKeepsOrder`, `NoRecordTwice`, `FlushIsComplete`, `HealthIsCurrent` | `PipelineAssumption` | `ControlIInv`, `LineIInv`, `PlaceIInv`, `HealthIInv` |
| ToolCall_proofs | `CallTypeCorrect`, `WritesAuthorized`, `ListIsTrue`, `BulkIsTargeted`, `AnswerCanBeBelieved`, `TraceIsTrue` | those of ToolCall | `CallIInv`, `EffectIInv`, `TraceIInv`, `TypeIInv` |
| JobFiles_proofs | `FilesTypeCorrect`, `CeilingHolds`, `TailsAreCurrent`, `DigestsAreHonest`, `NeedlesAreOrdered`, `FileSourcesAgree` | those of JobFiles | `CeilingIInv`, `AnswerIInv` |
| Process_proofs | `ProcessTypeCorrect`, `ChecksHold`, `CountsReachTheCollector` | `ProcessAssumption` for the type | `StartIInv`, `CountsIInv`, with `Flags`, `Tasks`, `Room` |

The assumptions say of the constants what the code's types say (numbers are natural, a
ceiling is at most `MAX_ARTIFACT_BYTES`, `rotate_keep` is at least 1, a configuration is
one of those the type allows; `Nothing` is neither an answer nor a call nor a request).
Two say something of openQA's data. `NeedleAssumption`: two candidates of a step that agree
in score and name are one, which a list of needles keyed by name gives. `PageAssumption`:
the downloads page, if it shows any file, shows the ones of `/details`, the uploaded ones
below the heading; both are made from the same two lists, and without it the two ways
`list_job_logs` takes have no reason to agree. TLC evaluates them all in the passing run of
the module.

*The gate.* `AtMostOneUnrecorded` is not inductive: it counts the unrecorded calls of each
slot and says nothing of a call that has passed the gate and is not recorded yet. `GateIInv`
adds that a slot with an unrecorded call has no gated call running, and that there is none
while the flag is down. That a gap is exact needs the
numbering of what was persisted and an account of what came after the last of it
(`Numbered` and `TailAccounted`, the parts of `StreamIInv`), because a loss is reported
only when a later record gets through. The refinement maps each outcome of `write` to one
step of the ledger, and everything that only the gate and the calls do to a stutter.
`Offered` says that the exporter was handed all numbers drawn, in their order.
`RefusalsReported` sums over two sets, the records of the stream and the lost ones, and is
inductive once the second is known to be finite: a write moves refusals from the gap into
one record more, which is a new one because its number is (`RefusedMoved`).

*Rotation.* `IInv` follows the generations through each half-done shift: which names are
in use, that a file has at most one of them, and that the records of a lower generation
are younger. The lemma `Moved` is the one fact about a rename they all use. What the
rotation may delete needs where the hole is: `GapFree` says that the name a half-done shift
has just freed is free, and `NamesDense` that the names in use are the first ones but for
it, until a shift was cut short. `LengthTrue` is why files stay small: the cached length is
the file's as long as no write or sync has failed, so the check before a write is about
the file; a rotation that failed or a crash changes neither. The refinement reads the
generations as chapters: a shift moves a chapter to the place of an empty one, which
`FlatMove` says the reader cannot see; the removal of the oldest drops a front of the log
(`FlatDrop`), and an append adds to its end (`FlatAppend`).

*The pipeline.* Each layer rests on the one before. `ControlIInv` says what the task
holds at each point of its loop; `LineIInv` that what was delivered, is in flight, in
the batch and in the queue is one ascending line; `PlaceIInv` that what has left the line
was counted once; `HealthIInv` that the health is the fate of the end of the delivered
part. Three lemmas about appending, taking and joining sequences carry the line.

*A call.* `CallIInv` says that every request sent or still to be sent is one of the call's
tool, and that a call with any was accepted by middleware, router, authorization and
argument checks. What was accepted then decides the rest: only a tool of the write router
mutates, and it makes one request (`OnlyAWriterMutates`, `OneWriteOrNone`), a blank filter
was refused (`CancelHasFilter`), keys that openQA folds together were too
(`IsoKeysStayApart`). `EffectIInv` adds what openQA may do: a change is pending or made
from the moment it is sent until it is refused, and an answer that was not polled yet
already binds it. `AnswerIsTrue` alone is silent about a call under way, where all of this
is decided, and so is `TraceTellsTheCall`: `TraceIInv` adds that a traced call has a span
for each of its requests but the one on the wire. `TypeIInv` adds to these what the type
needs of the variables none of them speaks of.

*The files.* `CeilingIInv` adds to `WithinCeiling` only that sizes are numbers. The proof
is in the lemmas: every reply with text or members is charged with what was read, and each
way to it (`WholeFile`, `Decompress`, `TailText`) compares that with the ceiling first,
against the size at the time of the request and not at that of the probe.

What the replies say rests on `AnswerIInv`. A property of a reply speaks of the log as it
is when the reply is read, but the log grows on: `Answers` is what each property needs in
terms of the reply alone, and `Going` what a call under way must keep of its probe for it
(the log only grows, a request knows the size it saw, a retry is made once). Below that are
lemmas about the operators, for every text: the fold of `scan_markers` after each match has
emitted exactly the surroundings of the matches so far and nothing twice (`Covers`,
`Exactly`); what `drop_partial_first_line` leaves are the lines that begin in the part that
was read (`DropLeavesWhole`), and the last of them are the last of the log (`KeptLast`);
the candidates fall by score (`NeedlesFall`); a listing of the page and one of `/details`
have the same files (`FilesAgree`).

*Data.* A fold or a sequence of unknown length is reached without the library's induction
theorems, which take a predicate as parameter: `LeastElement` and `UpTo` state induction
about sets of numbers, from the well-foundedness of strict inclusion between finite sets,
and `SmallerFirst` the same about finite sets by their size. `Flattened` and `ScanFolded`
turn the recursive functions behind the community modules' folds into sequences with one
equation per step, and the rest is induction over these.

*The process.* `StartIInv` holds, at each place of the start, what has been checked so far
(`Checked`); without it nothing would carry the result of a check from where it is made to
where something is bound. `CountsIInv` orders the snapshots on their way between what was
exported and what was counted, and keeps the last collection at their end until it is
sent. `Tasks` adds which export task can run at which place, and `Room` that calls and
snapshots stay in their bounds. `ChecksHold` and `CountsReachTheCollector` speak of every
configuration, queue bound and number of calls.

Only model-checked is what needs fairness: `GateReopens`, `Resolved`, `Answered` and
`EndsWhenUnparked`. Every other property of a passing run is stated by a theorem.

## Disagreements found

Five have a run that ends in a counterexample and an entry under `findings`:

- `gate_lost_gap`: a gap record whose own append fails is only logged; the losses are not
  reported later.
- `sink_lost_handle`: after a failed open the sink writes to the renamed file and cannot
  rotate until a restart.
- `process_hang`: a signal while the peer keeps standard input open flushes everything and
  then waits for ever, because the runtime is dropped before `process::exit` is reached.
- `call_span_query`: the path in a client span carries the query string.
- `digest_verdict`: when `/details` fails, the serial terminal's failing test is not looked
  at, and a weaker tier answers.

Six more are kept as configurations outside the run list; TLC finds each violated:

| Configuration (module) | Property | What happens |
| --- | --- | --- |
| `AuditGate_late_refusal.cfg` (MCAuditGate) | `NoGapWithoutFailure` | a refusal counted after the recovery opens a second gap, with no failure in it |
| `AuditSink_erosion.cfg` (MCAuditSink) | `OldestOnly` | each retry of a half-done rotation deletes one more generation |
| `AuditSink_torn_line.cfg` (MCAuditSink) | `OneObjectPerLine` | a torn line is continued by the next accepted record |
| `ExportPipeline_late_record.cfg` (ExportPipeline) | `NoneLostInFlush` | a record enqueued during the last request is neither sent nor counted |
| `ExportPipeline_overrun.cfg` (ExportPipeline) | `OverrunCounted` | records in flight when the flush budget is spent are not counted |
| `JobFiles_growth.cfg` (MCJobFiles) | `GrowthTolerated` | a log that grew by more than the ceiling leaves between probe and tail is refused as too large |

Noticed while modelling, in the models where they matter, and without a run of their own:

- `docs/observability.md:177` calls the flush unconditional; the checks of `run` between
  the start of telemetry and the transport return with `?` and skip it (`GiveUp` of
  Process goes past the flush).
- `OTEL_BLRP_MAX_QUEUE_SIZE=0` passes `resolve` and panics at the start of the first
  export task.
- `fetch_tail`'s window may begin at the start of the file, and `drop_partial_first_line`
  then drops a complete first line; one that begins inside a character makes the text
  unreadable and is answered with `unsupported_media`.
- Line numbers of a grep are relative to the tail it is made in, and its reply leaves out
  that the log changed while it was read.
- The bytes reported for a tail may exceed the reported size, which is the probe's.
- The body of an artifact is read outside the heartbeat and the span.
- The client span of an artifact request has no error for a status that is not 2xx.

## Not modelled

Formatting, encoding and argument capture; creation, modes and the symlink check of the
audit path; poisoned locks (a panic while a lock is held); what the collector received
from a request that timed out, and thus duplicates there; power loss. rmcp's sessions, its
Host check and the streaming of its HTTP service, openQA itself, `client.conf` and clap's
parsing belong to libraries and enter only as their possible outcomes. A signal that comes
before its handler is installed ends the process at once and is left out. Histogram
buckets, schemas, summaries, OTLP records and protobuf are stateless mappings in which
nothing interleaves. The audit stream is not composed with its file or its exporter: each
takes what the other does as an input that changes freely, which is the weaker assumption
for its properties; what only the composition could count (records judged persisted by the
health of earlier exports and then dropped) is left as a hazard without a property.
