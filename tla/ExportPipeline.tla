---------------------------- MODULE ExportPipeline ----------------------------
(***************************************************************************)
(* One OTLP signal's export pipeline (src/src/otel/pipeline.rs): a bounded *)
(* queue that producers never wait on, one task that batches, sends and    *)
(* retries, and a shutdown that flushes within a budget.  Producers are    *)
(* other tasks: they enqueue between any two steps of the export task,     *)
(* until the process exits.                                                *)
(*                                                                         *)
(* A record is its number.  The collector is the outcome of each request:  *)
(* accepted, refused for good, refused for now, or no answer.              *)
(***************************************************************************)
EXTENDS Integers, Sequences, FiniteSets

CONSTANTS
  MaxQueue,    \* OTEL_BLRP_MAX_QUEUE_SIZE
  MaxBatch,    \* OTEL_BLRP_MAX_EXPORT_BATCH_SIZE
  MaxAttempts, \* MAX_SEND_ATTEMPTS
  MaxRecords   \* bound: records enqueued

(* A queue of size 0 makes mpsc::channel panic at startup.                 *)
ASSUME PipelineAssumption ==
  /\ MaxQueue \in Nat \ {0}
  /\ MaxBatch \in Nat
  /\ MaxAttempts \in Nat \ {0}
  /\ MaxRecords \in Nat

VARIABLES
  next,        \* number of the next record
  queue,       \* the channel
  batch,       \* run_task's batch
  inflight,    \* the batch export() has taken
  attempt,     \* send_with_retry's attempt
  pc,          \* where run_task is
  delivered,   \* records of requests that succeeded, in order
  dropped,     \* reason -> the records counted under it
  delivering,  \* Health.delivering
  cancelled,   \* the CancellationToken
  before,      \* history: the last record enqueued before the shutdown
  returned,    \* Exporter::shutdown has returned
  overrun,     \* ... because its budget was spent
  exited       \* the process has exited

task == <<batch, inflight, attempt, pc>>
outcome == <<delivered, dropped, delivering>>
ending == <<cancelled, before, returned, overrun, exited>>
vars == <<next, queue, task, outcome, ending>>

Reasons == {"queue_full", "network", "http_status", "shutdown"}
Elements(s) == {s[i] : i \in DOMAIN s}
Count(reason, records) == dropped' = [dropped EXCEPT ![reason] = @ \cup records]

Counted == UNION {dropped[r] : r \in Reasons}
Accounted == Elements(delivered) \cup Counted
-----------------------------------------------------------------------------
(* Producer::enqueue: try_send, never waiting.  The channel is closed once *)
(* run_task has returned and dropped its receiver.                         *)
Enqueue ==
  /\ ~exited
  /\ next <= MaxRecords
  /\ next' = next + 1
  /\ \/ /\ pc = "done"
        /\ Count("shutdown", {next})
        /\ UNCHANGED queue
     \/ /\ pc # "done"
        /\ Len(queue) = MaxQueue
        /\ Count("queue_full", {next})
        /\ UNCHANGED queue
     \/ /\ pc # "done"
        /\ Len(queue) < MaxQueue
        /\ queue' = Append(queue, next)
        /\ UNCHANGED dropped
  /\ UNCHANGED <<task, delivered, delivering, ending>>

(* export(): take the batch and send it.  The final flush uses the same    *)
(* function, and is told apart by the program counter only.                *)
Export(records, sending) ==
  /\ inflight' = records
  /\ batch' = <<>>
  /\ attempt' = 1
  /\ pc' = sending

(* The loop's select!, biased towards the cancellation.                    *)
StopReceiving ==
  /\ ~exited
  /\ pc = "select" /\ cancelled
  /\ pc' = "drain"
  /\ UNCHANGED <<next, queue, batch, inflight, attempt, outcome, ending>>

(* The schedule delay has passed since the last turn of the loop.          *)
Timer ==
  /\ ~exited
  /\ pc = "select" /\ ~cancelled
  /\ batch # <<>>
  /\ Export(batch, "sending")
  /\ UNCHANGED <<next, queue, outcome, ending>>

(* Mutant: a full batch waits for the timer.                               *)
ReceiveOnly ==
  /\ ~exited
  /\ pc = "select" /\ ~cancelled
  /\ queue # <<>>
  /\ queue' = Tail(queue)
  /\ batch' = Append(batch, Head(queue))
  /\ UNCHANGED <<inflight, attempt, pc>>
  /\ UNCHANGED <<next, outcome, ending>>

Receive ==
  /\ ~exited
  /\ pc = "select" /\ ~cancelled
  /\ queue # <<>>
  /\ queue' = Tail(queue)
  /\ LET filled == Append(batch, Head(queue)) IN
       \/ /\ Len(filled) >= MaxBatch
          /\ Export(filled, "sending")
       \/ /\ Len(filled) < MaxBatch
          /\ batch' = filled
          /\ UNCHANGED <<inflight, attempt, pc>>
  /\ UNCHANGED <<next, outcome, ending>>

(* Mutant: the drained records go in front of the batch.                   *)
DrainInFront ==
  /\ ~exited
  /\ pc = "drain"
  /\ \/ /\ queue # <<>>
        /\ queue' = Tail(queue)
        /\ batch' = <<Head(queue)>> \o batch
        /\ UNCHANGED <<inflight, attempt, pc>>
     \/ /\ queue = <<>> /\ batch # <<>>
        /\ Export(batch, "flushing")
        /\ UNCHANGED queue
     \/ /\ queue = <<>> /\ batch = <<>>
        /\ pc' = "done"
        /\ UNCHANGED <<queue, batch, inflight, attempt>>
  /\ UNCHANGED <<next, outcome, ending>>

(* Mutant: the flush exports the batch and leaves the queue.               *)
DrainBatchOnly ==
  /\ ~exited
  /\ pc = "drain"
  /\ \/ /\ batch # <<>>
        /\ Export(batch, "flushing")
     \/ /\ batch = <<>>
        /\ pc' = "done"
        /\ UNCHANGED <<batch, inflight, attempt>>
  /\ UNCHANGED <<next, queue, outcome, ending>>

(* The final flush: one try_recv, or its end.  What is enqueued after that *)
(* while the last request runs stays in a channel nobody reads any more.   *)
Drain ==
  /\ ~exited
  /\ pc = "drain"
  /\ \/ /\ queue # <<>>
        /\ queue' = Tail(queue)
        /\ batch' = Append(batch, Head(queue))
        /\ UNCHANGED <<inflight, attempt, pc>>
     \/ /\ queue = <<>> /\ batch # <<>>
        /\ Export(batch, "flushing")
        /\ UNCHANGED queue
     \/ /\ queue = <<>> /\ batch = <<>>
        /\ pc' = "done"
        /\ UNCHANGED <<queue, batch, inflight, attempt>>
  /\ UNCHANGED <<next, outcome, ending>>
-----------------------------------------------------------------------------
(* send_with_retry(), and what export() makes of its result.               *)

Sending == pc \in {"sending", "flushing"}
Retrying == pc \in {"retry_send", "retry_flush"}

Finish ==
  /\ inflight' = <<>>
  /\ pc' = IF pc = "flushing" THEN "done" ELSE "select"
  /\ UNCHANGED <<next, queue, batch, attempt, ending>>

Delivered ==
  /\ ~exited
  /\ Sending
  /\ delivered' = delivered \o inflight
  /\ delivering' = TRUE
  /\ UNCHANGED dropped
  /\ Finish

(* Mutant: a status that is not worth a retry leaves the health alone.     *)
RejectedQuietly ==
  /\ ~exited
  /\ Sending
  /\ Count("http_status", Elements(inflight))
  /\ UNCHANGED <<delivered, delivering>>
  /\ Finish

(* An unretryable status at once, a retryable one at the last attempt.     *)
Rejected ==
  /\ ~exited
  /\ Sending
  /\ Count("http_status", Elements(inflight))
  /\ delivering' = FALSE
  /\ UNCHANGED delivered
  /\ Finish

(* Mutant: a batch given up is not counted.                                *)
UnreachableUncounted ==
  /\ ~exited
  /\ Sending
  /\ attempt = MaxAttempts
  /\ delivering' = FALSE
  /\ UNCHANGED <<delivered, dropped>>
  /\ Finish

(* No answer, or none within the request's timeout, at the last attempt.   *)
Unreachable ==
  /\ ~exited
  /\ Sending
  /\ attempt = MaxAttempts
  /\ Count("network", Elements(inflight))
  /\ delivering' = FALSE
  /\ UNCHANGED delivered
  /\ Finish

(* Mutant: the attempts are not limited.                                   *)
WaitAlways ==
  /\ ~exited
  /\ Sending
  /\ attempt <= MaxAttempts
  /\ pc' = IF pc = "flushing" THEN "retry_flush" ELSE "retry_send"
  /\ UNCHANGED <<next, queue, batch, inflight, attempt, outcome, ending>>

(* No answer or a retryable status: wait, for as long as Retry-After says. *)
Wait ==
  /\ ~exited
  /\ Sending
  /\ attempt < MaxAttempts
  /\ pc' = IF pc = "flushing" THEN "retry_flush" ELSE "retry_send"
  /\ UNCHANGED <<next, queue, batch, inflight, attempt, outcome, ending>>

(* Mutant: the attempts of a retry are not counted.                        *)
RetryForever ==
  /\ ~exited
  /\ Retrying
  /\ pc' = IF pc = "retry_flush" THEN "flushing" ELSE "sending"
  /\ UNCHANGED <<next, queue, batch, inflight, attempt, outcome, ending>>

Retry ==
  /\ ~exited
  /\ Retrying
  /\ pc' = IF pc = "retry_flush" THEN "flushing" ELSE "sending"
  /\ attempt' = attempt + 1
  /\ UNCHANGED <<next, queue, batch, inflight, outcome, ending>>
-----------------------------------------------------------------------------
(* Exporter::shutdown and the exit of the process.                         *)

Shutdown ==
  /\ ~cancelled
  /\ cancelled' = TRUE
  /\ before' = next - 1
  /\ UNCHANGED <<next, queue, task, outcome, returned, overrun, exited>>

(* The task has ended within the budget.                                   *)
Flushed ==
  /\ cancelled /\ ~returned
  /\ pc = "done"
  /\ returned' = TRUE
  /\ UNCHANGED <<next, queue, task, outcome, cancelled, before, overrun, exited>>

(* It has not: what the channel holds is counted, the task goes on.        *)
Overrun ==
  /\ cancelled /\ ~returned
  /\ pc # "done"
  /\ Count("shutdown", Elements(queue))
  /\ returned' = TRUE
  /\ overrun' = TRUE
  /\ UNCHANGED <<next, queue, task, delivered, delivering, cancelled, before, exited>>

Exit ==
  /\ returned /\ ~exited
  /\ exited' = TRUE
  /\ UNCHANGED <<next, queue, task, outcome, cancelled, before, returned, overrun>>
-----------------------------------------------------------------------------
Init ==
  /\ next = 1
  /\ queue = <<>>
  /\ batch = <<>>
  /\ inflight = <<>>
  /\ attempt = 0
  /\ pc = "select"
  /\ delivered = <<>>
  /\ dropped = [r \in Reasons |-> {}]
  /\ delivering = TRUE
  /\ cancelled = FALSE
  /\ before = 0
  /\ returned = FALSE
  /\ overrun = FALSE
  /\ exited = FALSE

Collect == StopReceiving \/ Timer \/ Receive \/ Drain
Send == Delivered \/ Rejected \/ Unreachable \/ Wait \/ Retry
End == Shutdown \/ Flushed \/ Overrun \/ Exit

Next == Enqueue \/ Collect \/ Send \/ End

Spec == Init /\ [][Next]_vars

(* The runtime polls a task that is ready; a timer fires; a request ends,  *)
(* since it has a timeout; a shutdown that has begun ends, and the process *)
(* with it.  Nothing is assumed of what the collector answers.             *)
Fairness == WF_vars(Collect) /\ WF_vars(Send) /\ WF_vars(Flushed \/ Overrun \/ Exit)

FairSpec == Spec /\ Fairness
-----------------------------------------------------------------------------
(* Properties.                                                             *)

(* Every variable stays in its type (pipeline.rs, run_task and Exporter).  *)
TypeOK ==
  /\ next \in Nat \ {0}
  /\ queue \in Seq(Nat) /\ Len(queue) <= MaxQueue
  /\ batch \in Seq(Nat)
  /\ inflight \in Seq(Nat)
  /\ attempt \in 0..MaxAttempts
  /\ pc \in {"select", "drain", "sending", "flushing", "retry_send", "retry_flush", "done"}
  /\ Retrying => attempt < MaxAttempts
  /\ delivered \in Seq(Nat)
  /\ dropped \in [Reasons -> SUBSET Nat]
  /\ delivering \in BOOLEAN
  /\ cancelled \in BOOLEAN
  /\ before \in Nat
  /\ returned \in BOOLEAN
  /\ overrun \in BOOLEAN
  /\ exited \in BOOLEAN

(* Records leave in the order they were enqueued, and none is sent twice:  *)
(* the delivered ones, the request, the batch and the queue form one       *)
(* increasing sequence, through retries and the final flush (run_task).    *)
InOrder ==
  LET line == delivered \o inflight \o batch \o queue
  IN  \A i, j \in DOMAIN line : i < j => line[i] < line[j]

(* Until the shutdown has spent its budget each record is in exactly one   *)
(* place: delivered, counted under one reason, or still on its way         *)
(* (pipeline.rs, DropReason: the reason a record never arrived).           *)
OnItsWay == Elements(inflight) \cup Elements(batch) \cup Elements(queue)

EachInOnePlace ==
  ~overrun =>
    /\ 1..(next - 1) = Accounted \cup OnItsWay
    /\ Accounted \cap OnItsWay = {}
    /\ Elements(delivered) \cap Counted = {}
    /\ \A r, s \in Reasons : r # s => dropped[r] \cap dropped[s] = {}

(* The health the audit gate reads is the fate of the youngest records an  *)
(* export has decided, never of older ones (Health, export).               *)
Exported == Elements(delivered) \cup dropped["network"] \cup dropped["http_status"]

HealthIsLatest ==
  Exported # {} =>
    (delivering <=> \E n \in Elements(delivered) : \A m \in Exported : m <= n)

(* A flush that ends within its budget has delivered or counted everything *)
(* that was enqueued before it began (Exporter::shutdown).                 *)
FlushedInTime == returned /\ ~overrun => 1..before \subseteq Accounted

(* A dead collector costs bounded memory: besides the queue at most one    *)
(* batch is held while the process serves (pipeline.rs, run_task).         *)
BoundedBacklog ==
  ~cancelled =>
    Len(inflight) + Len(batch) <= (IF MaxBatch = 0 THEN 1 ELSE MaxBatch)

(* Whatever the collector does, each record is delivered or counted in the *)
(* end, unless the process has exited first (send_with_retry is bounded,   *)
(* a partial batch is sent by the timer).                                  *)
Resolved ==
  \A n \in 1..MaxRecords : n \in OnItsWay ~> n \in Accounted \/ exited

(* The documentation's promise that dropped records are counted, for a     *)
(* flush that fits its budget ...                                          *)
NoneLostInFlush == returned /\ ~overrun => 1..(next - 1) \subseteq Accounted

(* ... and for one that does not: when the process exits, every record it  *)
(* did not deliver is counted.                                             *)
OverrunCounted == exited /\ overrun => 1..before \subseteq Accounted
=============================================================================
