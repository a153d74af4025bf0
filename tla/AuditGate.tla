------------------------------ MODULE AuditGate ------------------------------
(***************************************************************************)
(* The audit stream's bookkeeping and the fail-closed gate in front of     *)
(* every tool call (src/src/audit.rs, Auditor; src/src/server.rs,          *)
(* call_tool and gate).                                                    *)
(*                                                                         *)
(* Every record takes the next sequence number and is appended under one   *)
(* lock, so a write is one atomic action here.  What is NOT atomic is a    *)
(* tool call: it loads the `failing` flag without the lock, later counts   *)
(* its refusal under the lock, and later still writes its own record; the  *)
(* calls of other tasks run in between.  The phases of a call are exactly  *)
(* these three separate accesses to the Auditor's state.                   *)
(*                                                                         *)
(* The outcome of one append is left open: the sink either takes the line  *)
(* or reports an error (module AuditSink models why).  A time stamp is     *)
(* modelled by the sequence number that is next when it is taken.          *)
(***************************************************************************)
EXTENDS Integers, Sequences

CONSTANTS
  Callers,    \* slots for concurrently running tool calls
  FailMode,   \* what the gate refuses while persistence is failing
  HasSink,    \* `path` names a file
  HasOtlp,    \* a LogProducer is attached (with_otlp)
  MaxSeq,     \* bound: sequence numbers handed out
  MaxLost     \* bound: records that fail to persist

Scopes == {"read", "write"}
FailModes == {"open", "closed_writes", "closed_all"}

(* With neither sink nor producer write() returns at once and no closed    *)
(* mode is accepted at startup (main.rs, build_auditor): nothing to model. *)
ASSUME ConfigAssumption ==
  /\ FailMode \in FailModes
  /\ HasSink \in BOOLEAN
  /\ HasOtlp \in BOOLEAN
  /\ HasSink \/ HasOtlp
  /\ MaxSeq \in Nat
  /\ MaxLost \in Nat

VARIABLES
  serving,     \* the transport still accepts requests
  phase,       \* where each call is between its accesses to the Auditor
  scope,       \* the record_scope of each call
  seq,         \* Auditor.seq: the next sequence number
  failing,     \* Auditor.failing: the flag the gate loads
  gap,         \* SinkState.gap
  delivering,  \* Health of the audit stream's own export task
  stream,      \* records judged persisted, in the order they were appended
  offered,     \* sequence numbers handed to the OTLP producer, in order
  forgotten,   \* history: audit_gap records whose own append failed
  refusals,    \* history: calls the gate has counted as refused
  unrecorded   \* history: per slot, gated calls that were dispatched and
               \* whose record was lost since the last persisted record

auditor == <<seq, failing, gap, stream, offered, forgotten>>
vars == <<serving, phase, scope, auditor, delivering, refusals, unrecorded>>

NoGap == [count |-> 0, since |-> 0, refused |-> 0]
Gap == [count : Nat, since : Nat, refused : Nat]

Events == {"session_open", "tool_call", "shutdown"}
Record == [seq : Nat, event : Events \cup {"audit_gap"},
           count : Nat, since : Nat, refused : Nat]

Plain(n, event) ==
  [seq |-> n, event |-> event, count |-> 0, since |-> 0, refused |-> 0]

(* Mutants stand before the definition they replace.  Here: every failure  *)
(* starts a new gap; the gap is created without its time stamp; the gap    *)
(* record counts refusals as losses.                                       *)
OpenGapAlwaysNew == [NoGap EXCEPT !.since = seq]
OpenGapUnstamped == gap
GapRecordMixed(n, g) ==
  [seq |-> n, event |-> "audit_gap",
   count |-> g.count + g.refused, since |-> g.since, refused |-> g.refused]

GapRecord(n, g) ==
  [seq |-> n, event |-> "audit_gap",
   count |-> g.count, since |-> g.since, refused |-> g.refused]

(* get_or_insert_with: an open gap is kept, otherwise one starts now.      *)
OpenGap == IF gap = NoGap THEN [NoGap EXCEPT !.since = seq] ELSE gap
-----------------------------------------------------------------------------
(* write() and update_gap(), one disjunct per outcome.                     *)

(* HasSink: the result of Sink::append.  Otherwise: Health.is_delivering.  *)
AppendMay(ok) == HasSink \/ delivering = ok

Offer(seqs) == offered' = IF HasOtlp THEN offered \o seqs ELSE offered

LostSoFar == (seq - 1) - Len(stream)

(* The record did not persist: the flag is raised and the gap grows.       *)
Lose ==
  /\ AppendMay(FALSE)
  /\ seq + 2 <= MaxSeq
  /\ LostSoFar < MaxLost
  /\ seq' = seq + 1
  /\ failing' = TRUE
  /\ gap' = [OpenGap EXCEPT !.count = @ + 1]
  /\ Offer(<<seq>>)
  /\ UNCHANGED <<stream, forgotten>>

(* Mutant: a write that persists drops a pending gap.                      *)
PersistDroppingGap(event) ==
  /\ AppendMay(TRUE)
  /\ seq <= MaxSeq
  /\ seq' = seq + 1
  /\ failing' = FALSE
  /\ gap' = NoGap
  /\ stream' = Append(stream, Plain(seq, event))
  /\ Offer(<<seq>>)
  /\ UNCHANGED forgotten

(* The record persisted and no gap was pending.                            *)
Persist(event) ==
  /\ AppendMay(TRUE)
  /\ gap = NoGap
  /\ seq <= MaxSeq
  /\ seq' = seq + 1
  /\ failing' = FALSE
  /\ stream' = Append(stream, Plain(seq, event))
  /\ Offer(<<seq>>)
  /\ UNCHANGED <<gap, forgotten>>

(* Mutant: the gap record is written before the record that recovered.     *)
RecoverGapFirst(event) ==
  /\ AppendMay(TRUE)
  /\ gap # NoGap
  /\ seq + 1 <= MaxSeq
  /\ seq' = seq + 2
  /\ failing' = FALSE
  /\ gap' = NoGap
  /\ stream' = stream \o <<GapRecord(seq + 1, gap), Plain(seq, event)>>
  /\ Offer(<<seq + 1, seq>>)
  /\ UNCHANGED forgotten

(* The record persisted and closes a gap: an audit_gap record follows it   *)
(* inside the same critical section, with a number of its own.  The gap is *)
(* taken first; if the append of its record fails, that is only logged.    *)
Recover(event) ==
  /\ AppendMay(TRUE)
  /\ gap # NoGap
  /\ seq + 1 <= MaxSeq
  /\ seq' = seq + 2
  /\ failing' = FALSE
  /\ gap' = NoGap
  /\ \/ /\ stream' = stream \o <<Plain(seq, event), GapRecord(seq + 1, gap)>>
        /\ UNCHANGED forgotten
     \/ /\ HasSink
        /\ stream' = Append(stream, Plain(seq, event))
        /\ forgotten' = forgotten \cup {GapRecord(seq + 1, gap)}
  /\ Offer(<<seq, seq + 1>>)
-----------------------------------------------------------------------------
(* The server around the Auditor.                                          *)

Gated(s) ==
  \/ FailMode = "closed_all"
  \/ FailMode = "closed_writes" /\ s = "write"

(* Mutant: only reads are gated, whatever the mode.                        *)
RefusesReadsOnly(s) == failing /\ Gated(s) /\ s = "read"

(* Mutant: only writes are gated, whatever the mode.                       *)
RefusesWritesOnly(s) == failing /\ Gated(s) /\ s = "write"

Refuses(s) == failing /\ Gated(s)

(* call_tool up to the gate's load of the flag.                            *)
Arrive(c, s) ==
  /\ serving
  /\ phase[c] = "idle"
  /\ phase' = [phase EXCEPT ![c] = IF Refuses(s) THEN "refusing" ELSE "dispatched"]
  /\ scope' = [scope EXCEPT ![c] = s]
  /\ UNCHANGED <<serving, auditor, delivering, refusals, unrecorded>>

(* Mutant: a refusal is counted as a failed append.                        *)
RefuseAsLoss(c) ==
  /\ phase[c] = "refusing"
  /\ phase' = [phase EXCEPT ![c] = "refused"]
  /\ gap' = [OpenGap EXCEPT !.refused = @ + 1, !.count = @ + 1]
  /\ refusals' = refusals + 1
  /\ UNCHANGED <<serving, scope, seq, failing, stream, offered, forgotten,
                 delivering, unrecorded>>

(* The rest of gate(): Auditor::refused, under the lock.                   *)
Refuse(c) ==
  /\ phase[c] = "refusing"
  /\ phase' = [phase EXCEPT ![c] = "refused"]
  /\ gap' = [OpenGap EXCEPT !.refused = @ + 1]
  /\ refusals' = refusals + 1
  /\ UNCHANGED <<serving, scope, seq, failing, stream, offered, forgotten,
                 delivering, unrecorded>>

Exposed(c) == phase[c] = "dispatched" /\ Gated(scope[c])

(* Mutant: a refused call returns before it is recorded.  To keep the      *)
(* refusals finite its slot then takes no further call.                    *)
RecordDispatchedOnly(c) ==
  /\ phase[c] = "dispatched"
  /\ phase' = [phase EXCEPT ![c] = "idle"]
  /\ \/ /\ Lose
        /\ unrecorded' = IF Exposed(c) THEN [unrecorded EXCEPT ![c] = @ + 1]
                                       ELSE unrecorded
     \/ /\ Persist("tool_call") \/ Recover("tool_call")
        /\ unrecorded' = [d \in Callers |-> 0]
  /\ UNCHANGED <<serving, scope, delivering, refusals>>

(* The end of call_tool, for a dispatched call whatever its outcome and    *)
(* for a refused one alike: the tool_call record is written.               *)
RecordCall(c) ==
  /\ phase[c] \in {"dispatched", "refused"}
  /\ phase' = [phase EXCEPT ![c] = "idle"]
  /\ \/ /\ Lose
        /\ unrecorded' = IF Exposed(c) THEN [unrecorded EXCEPT ![c] = @ + 1]
                                       ELSE unrecorded
     \/ /\ Persist("tool_call") \/ Recover("tool_call")
        /\ unrecorded' = [d \in Callers |-> 0]
  /\ UNCHANGED <<serving, scope, delivering, refusals>>

(* session_open at initialize, shutdown once the transport has returned.   *)
WriteEvent(event) ==
  /\ \/ Lose /\ UNCHANGED unrecorded
     \/ /\ Persist(event) \/ Recover(event)
        /\ unrecorded' = [d \in Callers |-> 0]
  /\ UNCHANGED <<phase, scope, delivering, refusals>>

Initialize == serving /\ WriteEvent("session_open") /\ UNCHANGED serving

(* Calls still in flight may record after it, or die with the process.     *)
Shutdown == serving /\ serving' = FALSE /\ WriteEvent("shutdown")

(* The transport returned an error: no shutdown record is written.         *)
ServeFailed ==
  /\ serving
  /\ serving' = FALSE
  /\ UNCHANGED <<phase, scope, auditor, delivering, refusals, unrecorded>>

(* The export task's health changes by itself.                             *)
Collector ==
  /\ HasOtlp /\ ~HasSink
  /\ delivering' = ~delivering
  /\ UNCHANGED <<serving, phase, scope, auditor, refusals, unrecorded>>
-----------------------------------------------------------------------------
Init ==
  /\ serving = TRUE
  /\ phase = [c \in Callers |-> "idle"]
  /\ scope = [c \in Callers |-> "read"]
  /\ seq = 1
  /\ failing = FALSE
  /\ gap = NoGap
  /\ delivering = TRUE
  /\ stream = <<>>
  /\ offered = <<>>
  /\ forgotten = {}
  /\ refusals = 0
  /\ unrecorded = [c \in Callers |-> 0]

Next ==
  \/ \E c \in Callers, s \in Scopes : Arrive(c, s)
  \/ \E c \in Callers : Refuse(c) \/ RecordCall(c)
  \/ Initialize
  \/ Shutdown
  \/ ServeFailed
  \/ Collector

Spec == Init /\ [][Next]_vars

(* Calls keep coming and a running call ends: tokio polls every ready      *)
(* task, and the call deadline (300 s by default) ends a dispatch that     *)
(* hangs.  Nothing is assumed of the disk, the collector or the client's   *)
(* session handling, except that MaxLost bounds the failing appends.       *)
Fairness ==
  \A c \in Callers :
    /\ WF_vars(\E s \in Scopes : Arrive(c, s))
    /\ WF_vars(serving /\ Refuse(c))
    /\ WF_vars(serving /\ RecordCall(c))

FairSpec == Spec /\ Fairness
-----------------------------------------------------------------------------
(* Properties.                                                             *)

(* Every variable stays in its type; a gap that exists has counted         *)
(* something and carries the stamp of the write or refusal that opened it  *)
(* (audit.rs, Gap).                                                        *)
TypeOK ==
  /\ serving \in BOOLEAN
  /\ phase \in [Callers -> {"idle", "refusing", "refused", "dispatched"}]
  /\ scope \in [Callers -> Scopes]
  /\ seq \in Nat \ {0}
  /\ failing \in BOOLEAN
  /\ gap \in Gap
  /\ gap # NoGap => gap.since > 0 /\ gap.count + gap.refused > 0
  /\ delivering \in BOOLEAN
  /\ stream \in Seq(Record)
  /\ offered \in Seq(Nat)
  /\ forgotten \subseteq Record
  /\ refusals \in Nat
  /\ unrecorded \in [Callers -> Nat]

(* The order of the file and the order of the OTLP export both equal       *)
(* sequence order, and the export skips no number (the comment on write(), *)
(* audit.rs): the recovering record and its gap are two numbers of one     *)
(* critical section.                                                       *)
SequenceOrder ==
  /\ \A i, j \in DOMAIN stream : i < j => stream[i].seq < stream[j].seq
  /\ \A i \in DOMAIN stream : stream[i].seq < seq
  /\ HasOtlp => /\ Len(offered) = seq - 1
                /\ \A i \in DOMAIN offered : offered[i] = i

(* The gate's lock-free flag is the cached form of the gap under the lock: *)
(* it is up exactly while the pending gap holds a failed append, so a      *)
(* refusal counted late, after another call's write recovered, can reopen  *)
(* a gap but never the gate (audit.rs, the comment on `failing`).          *)
FailingMatchesGap == failing <=> gap.count > 0

(* How many appends failed between record i of the stream and the one      *)
(* before it: the numbers missing there, less the number of an audit_gap   *)
(* record that was itself lost and belongs to the outage before.           *)
PrevSeq(i) == IF i = 1 THEN 0 ELSE stream[i - 1].seq
ForgottenAt(n) == \E r \in forgotten : r.seq = n
Hole(i) ==
  ((stream[i].seq - 1) - PrevSeq(i)) - (IF ForgottenAt(PrevSeq(i) + 1) THEN 1 ELSE 0)

IsGap(i) == stream[i].event = "audit_gap"

(* An audit_gap record follows directly the record whose success ended the *)
(* outage, and its count is the number of appends that failed before that  *)
(* record: neither stale losses of an earlier outage nor missing ones      *)
(* (audit.rs, update_gap).                                                 *)
GapExactAt(i) ==
  IsGap(i) => /\ i > 1
              /\ ~IsGap(i - 1)
              /\ stream[i].seq = stream[i - 1].seq + 1
              /\ stream[i].count = Hole(i - 1)

GapExact == \A i \in DOMAIN stream : GapExactAt(i)

(* No silent loss: wherever the persisted numbering has a hole, the record *)
(* that closes it is followed by an audit_gap record, unless that record   *)
(* was itself lost, which shows as the very next number missing.           *)
HoleReportedAt(i) ==
  ~IsGap(i) /\ Hole(i) > 0 =>
    \/ i + 1 \in DOMAIN stream /\ IsGap(i + 1)
    \/ ForgottenAt(stream[i].seq + 1)

HolesReported == \A i \in DOMAIN stream : HoleReportedAt(i)

(* What the closed modes are for: within one outage each of the calls that *)
(* can run at once acts unrecorded at most once, the one that was already  *)
(* past the gate when persistence failed (audit.rs, refuses; server.rs,    *)
(* gate).  Refusals, recoveries by other calls and new outages in between  *)
(* do not add up to a second one.                                          *)
AtMostOneUnrecorded == \A c \in Callers : unrecorded[c] <= 1

(* The gate never shuts for good: the refused calls still write their own  *)
(* records, and those writes find out that persistence is back.            *)
GateReopens == failing ~> (~failing \/ ~serving)

(* An audit_gap record reports a failure: none is written for an outage    *)
(* that an earlier one already reported (the tests' "a second recovery     *)
(* with no intervening failure must emit nothing", audit.rs).              *)
NoGapWithoutFailure == \A i \in DOMAIN stream : IsGap(i) => stream[i].count > 0

(* The documentation's promise about outages: once persistence has         *)
(* recovered, an audit_gap record reports every failed append.             *)
LossesReported == ~failing => forgotten = {}

(* Seen from the outside the Auditor is a numbered ledger that reports its *)
(* own holes, whatever the calls and the gate do (module AuditLedger).     *)
AsEntry(r) ==
  [seq |-> r.seq, report |-> r.event = "audit_gap", count |-> r.count]
AsLedger(s) == [i \in DOMAIN s |-> AsEntry(s[i])]

Ledger == INSTANCE AuditLedger WITH
  next <- seq,
  unreported <- gap.count,
  ledger <- AsLedger(stream)

ImplementsLedger == Ledger!Spec
=============================================================================
