------------------------------ MODULE ToolCall ------------------------------
(***************************************************************************)
(* One tool call, from the HTTP middleware to the answer: bearer scope,    *)
(* fail-closed gate, sampling, authorization, the upstream requests under  *)
(* a heartbeat and under the call's deadline, and what the metric, the     *)
(* trace and the audit record say of it afterwards.                        *)
(*                                                                         *)
(* Calls share no state here (the audit stream and the queues they share   *)
(* are AuditGate and ExportPipeline), so one call at a time is followed;   *)
(* its answer clears the way for another.  openQA is external: a request   *)
(* that was sent takes effect at any moment, even after the server has     *)
(* stopped waiting for it.                                                 *)
(***************************************************************************)
EXTENDS Access, Tools

CONSTANTS Nothing,     \* no call, no request, no answer, no span: a model value
          Setups,      \* configurations the server is started with
          Callers,     \* Authorization headers a request carries
          Callable,    \* tools that are asked for, registered or not
          Given,       \* optional arguments the calls may pass
          MaxPings     \* bound on the progress notifications of a request

ASSUME SetupAssumption ==
  Setups \subseteq [http : BOOLEAN, insecure : BOOLEAN, write : TokenVars, read : TokenVars,
                    readonly : BOOLEAN, deadline : BOOLEAN,
                    sampler : {"off", "always_on", "parentbased"}]
ASSUME CallerAssumption == Callers \subseteq Headers
ASSUME CallableAssumption == \A t \in Callable : {"name", "readOnly", "keys", "requests"} = DOMAIN t
ASSUME PingAssumption == MaxPings \in Nat

VARIABLES
  conf,      \* the configuration the server runs with
  pc,        \* where the call is: idle, waiting, body, unauthorized, done
  call,      \* the call in progress or just answered
  todo,      \* upstream requests the tool has not sent yet
  wire,      \* the request being waited for, or Nothing
  reply,     \* what came back for it
  stray,     \* mutating requests openQA has not acted on and may still act on
  applied,   \* mutating requests that took effect at openQA
  sent,      \* the requests of this call, in order
  beat,      \* the heartbeat beside the request: off, asleep, notifying
  pings,     \* progress notifications sent for this request
  spans,     \* client spans recorded for this call, in order
  story      \* what metric, tool span and audit record say of the last call

vars == <<conf, pc, call, todo, wire, reply, stray, applied, sent, beat, pings, spans, story>>
serverVars == <<todo, wire, reply, sent, beat, pings, spans>>
beatVars == <<beat, pings>>

Outcomes == {"ok", "refused", "unfit", "server_error", "timeout", "transport",
             "audit_unavailable", "protocol_error"}
Parents == {"none", "malformed", "sampled", "unsampled"}

(* Whether the HTTP layer demands a scope (run_http, with_scope_enforcement). *)
Enforced == conf.http /\ ~conf.insecure
Scope(header) == IF Enforced THEN ScopeFor(conf.write, conf.read, header) ELSE "none"

(* server.rs record_scope: the scope of the audit record, from the router. *)
RecordScope(tool) ==
  IF tool \in Router(conf.readonly) /\ tool.readOnly THEN "read" ELSE "write"

(* otel/traces.rs start_call_span: how a call is traced.  `ids` says which *)
(* random ids can be drawn: all, only the call's own, or none.             *)
IdsDrawn == {"all", "own", "none"}
ShouldSample(parent) ==
  /\ conf.sampler # "off"
  /\ parent \in {"sampled", "unsampled"} => conf.sampler = "always_on" \/ parent = "sampled"
CallSpan(parent, ids) ==
  IF ~ShouldSample(parent) \/ ids = "none" THEN Nothing
  ELSE IF parent \in {"sampled", "unsampled"} THEN "remote" ELSE "root"

Init ==
  /\ conf \in {c \in Setups : c.http => AuthError(c.write, c.read, c.insecure) = "none"}
  /\ pc = "idle"
  /\ call = Nothing /\ todo = <<>> /\ wire = Nothing /\ reply = Nothing
  /\ stray = {} /\ applied = {} /\ sent = <<>>
  /\ beat = "off" /\ pings = 0 /\ spans = <<>> /\ story = Nothing

(* Mutant. *)
FinishTicking(outcome, c) ==   \* the ticker outlives the request
  /\ pc' = "done"
  /\ story' = [answer |-> outcome, scope |-> RecordScope(c.tool)]
  /\ todo' = <<>> /\ wire' = Nothing /\ reply' = Nothing /\ UNCHANGED <<beat, pings>>

(* The tail every call goes through (outcome_of, record_call,              *)
(* emit_tool_span, tool_call): one classification for all of them.         *)
Finish(outcome, c) ==
  /\ pc' = "done"
  /\ story' = [answer |-> outcome, scope |-> RecordScope(c.tool)]
  /\ todo' = <<>> /\ wire' = Nothing /\ reply' = Nothing /\ beat' = "off" /\ pings' = 0

(* What send puts on the wire, and the heartbeat beside it: without a      *)
(* progress token there is none.                                           *)
Send(request, rest, c) ==
  /\ pc' = "waiting"
  /\ wire' = request /\ todo' = rest /\ reply' = Nothing
  /\ beat' = IF c.progress THEN "asleep" ELSE "off"
  /\ pings' = 0
  /\ stray' = IF Mutating(request) THEN stray \cup {request} ELSE stray

(* authenticate: no scope, no call; nothing of it is recorded.             *)
Unauthorized(header) ==
  /\ pc = "idle" /\ Enforced /\ Scope(header) = "none"
  /\ pc' = "unauthorized" /\ call' = Nothing
  /\ UNCHANGED <<conf, stray, applied, story>> /\ UNCHANGED serverVars

NewCall(tool, args, header, parent, ids, progress) ==
  [tool |-> tool, args |-> args, header |-> header, progress |-> progress,
   span |-> CallSpan(parent, ids), children |-> ids = "all"]
Admitted(header) == pc = "idle" /\ (Enforced => Scope(header) # "none")

(* The gate refuses the call: it is recorded, and never dispatched.        *)
GateRefuses(c) ==
  /\ Admitted(c.header)
  /\ call' = c /\ sent' = <<>> /\ spans' = <<>>
  /\ Finish("audit_unavailable", c)
  /\ UNCHANGED <<conf, stray, applied>>

(* authorize, the router and the tool's own argument checks, in the order  *)
(* of dispatch; each failure is a protocol error.                          *)
Dispatchable(c) ==
  /\ Authorized(Enforced, Scope(c.header), c.tool \in Router(conf.readonly) /\ c.tool.readOnly)
  /\ c.tool \in Router(conf.readonly)
  /\ ArgumentsOk(c.tool, c.args)
Denied(c) ==
  /\ Admitted(c.header) /\ ~Dispatchable(c)
  /\ call' = c /\ sent' = <<>> /\ spans' = <<>>
  /\ Finish("protocol_error", c)
  /\ UNCHANGED <<conf, stray, applied>>

(* list_servers needs no request.                                          *)
AnswerAtOnce(c) ==
  /\ Admitted(c.header) /\ Dispatchable(c) /\ c.tool.requests = <<>>
  /\ call' = c /\ sent' = <<>> /\ spans' = <<>>
  /\ Finish("ok", c)
  /\ UNCHANGED <<conf, stray, applied>>

Dispatch(c) ==
  /\ Admitted(c.header) /\ Dispatchable(c) /\ c.tool.requests # <<>>
  /\ call' = c /\ spans' = <<>>
  /\ LET requests == Requests(c.tool, c.args)
     IN /\ Send(Head(requests), Tail(requests), c)
        /\ sent' = <<Head(requests)>>
  /\ UNCHANGED <<conf, applied, story>>

-----------------------------------------------------------------------------
(* openQA, which is external: it acts on a request whenever it likes, also *)
(* after the server stopped waiting, and answers one it is waited for on.  *)
Apply ==
  \E r \in stray :
    /\ applied' = applied \cup {r} /\ stray' = stray \ {r}
    /\ UNCHANGED <<conf, pc, call, story>> /\ UNCHANGED serverVars

(* A 2xx says the request took effect and a 4xx that it did not; a 5xx, a  *)
(* lost connection and an unreadable answer say neither.                   *)
Kinds == {"ok", "refused", "server_error", "timeout", "transport", "internal"}
ASSUME NothingAssumption == Nothing \notin Kinds
Answer(kind) ==
  /\ pc = "waiting" /\ reply = Nothing
  /\ kind = "ok" => wire \notin stray
  /\ kind = "refused" => wire \notin applied
  /\ reply' = kind
  /\ stray' = IF kind = "refused" THEN stray \ {wire} ELSE stray
  /\ UNCHANGED <<conf, pc, call, todo, wire, applied, sent, beat, pings, spans, story>>

-----------------------------------------------------------------------------
(* What the client span of a request says of its end (kind_of; for a raw   *)
(* request only that it failed before an answer came) and of its path,     *)
(* which holds the query except on the raw channel.                        *)
SpanError(request, kind) ==
  CASE kind = "ok" \/ (request.channel = "raw" /\ kind \in {"refused", "server_error"}) -> "none"
    [] kind # "ok" /\ request.channel # "raw" -> kind
    [] OTHER -> "upstream"
SpanQuery(request) == IF request.channel = "json" THEN request.keys ELSE {}

(* Mutant. *)
SpanWhenAnswered ==            \* the failing request leaves before its span is recorded
  spans' = IF call.span = Nothing \/ ~call.children \/ reply # "ok" THEN spans
           ELSE Append(spans, [request |-> Len(sent), query |-> SpanQuery(wire),
                               error |-> SpanError(wire, reply)])

(* record_upstream_span: a child of the tool span, if there is one and an  *)
(* id can be drawn for it.                                                 *)
RecordUpstreamSpan ==
  spans' = IF call.span = Nothing \/ ~call.children THEN spans
           ELSE Append(spans, [request |-> Len(sent), query |-> SpanQuery(wire),
                               error |-> SpanError(wire, reply)])

Advance ==
  /\ todo # <<>>
  /\ Send(Head(todo), Tail(todo), call)
  /\ sent' = Append(sent, Head(todo))
  /\ UNCHANGED story
Conclude(outcome) == Finish(outcome, call) /\ UNCHANGED <<sent, stray>>

(* A request succeeded: the tool sends its next one, has its answer, or    *)
(* finds that what came back is not what it needs.                         *)
Succeed ==
  \/ Advance
  \/ (todo = <<>> \/ wire.enough) /\ Conclude("ok")
  \/ Len(call.tool.requests) > 1 /\ \E o \in {"unfit", "protocol_error"} : Conclude(o)
(* Mutant. *)
FailAsRefused(kind) ==         \* status_kind without its last arm: a 5xx is a bad request
  IF wire.soft THEN Advance \/ ((\A i \in DOMAIN todo : todo[i].soft) /\ Conclude("ok"))
  ELSE Conclude(CASE kind = "internal" -> "protocol_error"
                  [] kind = "server_error" -> "refused"
                  [] OTHER -> kind)

(* It failed: the tool fails with the same kind (classify), unless it can  *)
(* do without.                                                             *)
Fail(kind) ==
  IF wire.soft THEN Advance \/ ((\A i \in DOMAIN todo : todo[i].soft) /\ Conclude("ok"))
  ELSE Conclude(IF kind = "internal" THEN "protocol_error" ELSE kind)

(* Mutant. *)
TakeReplyBetweenPings ==       \* the answer waits for the notification in progress
  /\ pc = "waiting" /\ reply # Nothing /\ beat # "notifying"
  /\ RecordUpstreamSpan
  /\ \/ reply = "ok" /\ wire.channel # "raw" /\ Succeed
     \/ /\ reply = "ok" /\ wire.channel = "raw"
        /\ pc' = "body" /\ reply' = Nothing /\ beat' = "off" /\ pings' = 0
        /\ UNCHANGED <<todo, wire, stray, sent, story>>
     \/ reply # "ok" /\ Fail(reply)
  /\ UNCHANGED <<conf, call, applied>>

(* The answer wins the select against the ticker, whatever that is doing.  *)
TakeReply ==
  /\ pc = "waiting" /\ reply # Nothing
  /\ RecordUpstreamSpan
  /\ \/ reply = "ok" /\ wire.channel # "raw" /\ Succeed
     \/ /\ reply = "ok" /\ wire.channel = "raw"
        /\ pc' = "body" /\ reply' = Nothing /\ beat' = "off" /\ pings' = 0
        /\ UNCHANGED <<todo, wire, stray, sent, story>>
     \/ reply # "ok" /\ Fail(reply)
  /\ UNCHANGED <<conf, call, applied>>

(* read_capped: the body of a raw answer, after the span and the heartbeat *)
(* have ended.                                                             *)
ReadBody ==
  /\ pc = "body"
  /\ Succeed \/ \E kind \in {"transport", "unfit"} : Fail(kind)
  /\ UNCHANGED <<conf, call, applied, spans>>

(* The whole-call deadline drops the dispatch future where it is: no span  *)
(* for the request in flight.  The dispatch is polled before the timer, so *)
(* an answer that is there is taken first.                                 *)
Deadline ==
  /\ conf.deadline /\ pc \in {"waiting", "body"} /\ reply = Nothing
  /\ Conclude("timeout")
  /\ UNCHANGED <<conf, call, applied, spans>>

(* tick_forever beside the request: a notification may be stuck at a peer  *)
(* that does not read.                                                     *)
Tick ==
  /\ beat = "asleep" /\ pings < MaxPings
  /\ beat' = "notifying" /\ pings' = pings + 1
  /\ UNCHANGED <<conf, pc, call, todo, wire, reply, stray, applied, sent, spans, story>>
Notified ==
  /\ beat = "notifying" /\ beat' = "asleep"
  /\ UNCHANGED <<conf, pc, call, todo, wire, reply, stray, applied, sent, pings, spans, story>>

-----------------------------------------------------------------------------
(* The calls that arrive, with the arguments their tool takes.             *)
ArgumentsFor(tool) ==
  {a \in [server : {"configured", "unknown"}, given : SUBSET (tool.keys \cap Given),
          blank : IF tool = CancelJobs THEN SUBSET ((JobFilters \ {"groupid"}) \cap Given) ELSE {{}},
          ids : CASE tool.name = "restart_jobs" -> {0, 1, MaxBulk, MaxBulk + 1}
                  [] tool.name \in {"list_jobs", "list_jobs_overview"} -> {0, MaxBulk + 1}
                  [] tool = TriggerIsos -> {1, MaxExtra + 1}
                  [] OTHER -> {1},
          name : IF tool.name = "cancel_scheduled_product" THEN {"plain", "", ".."} ELSE {"plain"}] :
     a.blank \subseteq a.given}
ASSUME CallAssumption ==
  Nothing \notin [tool : Callable, args : UNION {ArgumentsFor(t) : t \in Callable}, header : Callers,
                  progress : BOOLEAN, span : {Nothing, "remote", "root"}, children : BOOLEAN]
ASSUME RequestAssumption ==
  \A t \in Callable : \A a \in ArgumentsFor(t), i \in 1..Len(t.requests) : Requests(t, a)[i] # Nothing

Arrive ==
  /\ pc = "idle"
  /\ \E tool \in Callable, header \in Callers, parent \in Parents, ids \in IdsDrawn, progress \in BOOLEAN :
       \E args \in ArgumentsFor(tool) :
         LET c == NewCall(tool, args, header, parent, ids, progress)
         IN GateRefuses(c) \/ Denied(c) \/ AnswerAtOnce(c) \/ Dispatch(c)

(* The caller has its answer; the next call starts from nothing, and what  *)
(* openQA still does with this one is no longer followed.                  *)
Recycle ==
  /\ pc \in {"done", "unauthorized"}
  /\ pc' = "idle" /\ call' = Nothing /\ story' = Nothing
  /\ stray' = {} /\ applied' = {} /\ sent' = <<>> /\ spans' = <<>>
  /\ UNCHANGED <<conf, todo, wire, reply, beat, pings>>

Next ==
  \/ \E header \in Callers : Unauthorized(header)
  \/ Arrive
  \/ Apply
  \/ \E kind \in Kinds : Answer(kind)
  \/ TakeReply \/ ReadBody \/ Deadline
  \/ Tick \/ Notified
  \/ Recycle

(* The server's own steps happen; openQA may never answer, a peer may      *)
(* never read, a caller may never call.                                    *)
Fairness == WF_vars(TakeReply) /\ WF_vars(Deadline)
Spec == Init /\ [][Next]_vars /\ Fairness

-----------------------------------------------------------------------------
TypeOK ==
  /\ conf \in Setups
  /\ pc \in {"idle", "waiting", "body", "unauthorized", "done"}
  /\ (pc \in {"waiting", "body"}) <=> (wire # Nothing)
  /\ beat # "off" => pc = "waiting"
  /\ reply \in Kinds \cup {Nothing}
  /\ beat \in {"off", "asleep", "notifying"} /\ pings \in 0..MaxPings
  /\ pc = "done" => story.answer \in Outcomes /\ story.scope \in {"read", "write"}
  /\ \A r \in stray \cup applied : Mutating(r)

(* Whatever way a call takes, a request that changes openQA is sent only   *)
(* by a server that is not read-only, and over an authenticated transport  *)
(* only for a caller who holds the write token itself; the audit record of *)
(* such a call says "write" (authenticate, authorize, record_scope).       *)
OnlyWritersWrite ==
  \A i \in DOMAIN sent : Mutating(sent[i]) =>
    /\ ~conf.readonly
    /\ conf.http /\ ~conf.insecure => call.header = [scheme |-> "bearer", token |-> conf.write]
    /\ pc = "done" => story.scope = "write"

(* list_tools and call_tool agree: a call that is answered with anything   *)
(* but a refusal names a tool the same caller was shown.                   *)
ListedIffCallable ==
  /\ sent # <<>> => call.tool \in Listed(Enforced, Scope(call.header), Router(conf.readonly))
  /\ pc = "done" /\ story.answer \notin {"protocol_error", "audit_unavailable"} =>
       call.tool \in Listed(Enforced, Scope(call.header), Router(conf.readonly))

(* A mass operation names its targets: a bulk cancel carries a filter that *)
(* is not blank, a restart at least one id and at most MaxBulk, a product  *)
(* name stays one path segment, and no two fields of an ISO trigger become *)
(* the same one once openQA has upcased them (cancel_jobs, bounded,        *)
(* path_segment, check_extra_keys).                                        *)
TargetedWrites ==
  \A i \in DOMAIN sent :
    /\ sent[i].endpoint = "jobs/cancel" => sent[i].keys \ call.args.blank # {}
    /\ sent[i].endpoint = "jobs/restart" => call.args.ids \in 1..MaxBulk
    /\ sent[i].endpoint = "isos/NAME/cancel" => call.args.name = "plain"
    /\ sent[i].endpoint = "isos" =>
         \A k, l \in sent[i].keys : StoredKey(k) = StoredKey(l) => k = l

(* An answer can be believed: unless it is one of the ambiguous failures,  *)
(* "ok" means that every change the call asked for was made, anything else *)
(* that none was, and nothing is made later (dispatch's deadline text,     *)
(* classify, status_kind).                                                 *)
Ambiguous == {"timeout", "transport", "server_error", "protocol_error"}
AnswerIsTrue ==
  pc = "done" /\ story.answer \notin Ambiguous =>
    /\ stray = {}
    /\ \A i \in DOMAIN sent :
         Mutating(sent[i]) => (sent[i] \in applied <=> story.answer = "ok")

(* A sampled call's trace holds one client span per request, in order, the *)
(* last one telling the failure the caller was told; only the request a    *)
(* deadline cut has none.  A call that is not sampled leaves no span.      *)
TraceTellsTheCall ==
  IF call = Nothing \/ call.span = Nothing \/ ~call.children THEN spans = <<>>
  ELSE /\ \A i \in DOMAIN spans : spans[i].request = i
       /\ pc = "done" =>
            \/ /\ Len(spans) = Len(sent)
               /\ sent # <<>> /\ sent[Len(sent)].channel # "raw" =>
                    \/ story.answer \in {"ok", "unfit", "protocol_error"}
                    \/ spans[Len(sent)].error = story.answer
            \/ Len(spans) = Len(sent) - 1 /\ story.answer = "timeout" /\ conf.deadline

(* An answer that is there reaches the tool even while a progress          *)
(* notification is stuck at a client that stopped reading, and under a     *)
(* deadline every call ends although openQA never answers (with_heartbeat, *)
(* dispatch).                                                              *)
Answered ==
  /\ (reply # Nothing) ~> (reply = Nothing)
  /\ (conf.deadline /\ wire # Nothing) ~> (pc = "done")

(* server.rs:50 "Never a query string, never a body."                      *)
SpanPathBare == \A i \in DOMAIN spans : spans[i].query = {}
=============================================================================
