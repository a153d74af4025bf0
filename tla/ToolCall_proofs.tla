--------------------------- MODULE ToolCall_proofs ---------------------------
(***************************************************************************)
(* Proofs about ToolCall for every set of configurations, callers, tools   *)
(* asked for and arguments, and every bound.                               *)
(***************************************************************************)
EXTENDS ToolCall, SequenceTheorems, TLAPS

(* The fields of a request.                                                *)
IsRequest(r) == {"method", "endpoint", "keys", "channel", "soft"} \subseteq DOMAIN r

(* Naming the fields of a request changes nothing else of it.              *)
LEMMA Keyed ==
  ASSUME NEW r, IsRequest(r), NEW k
  PROVE  LET q == [r EXCEPT !.keys = k]
         IN /\ q.method = r.method /\ q.endpoint = r.endpoint /\ q.channel = r.channel
            /\ q.soft = r.soft /\ q.keys = k
BY DEF IsRequest

(* A read tool is annotated so, and makes nothing but GET requests, none   *)
(* of them to an endpoint of the bulk operations.                          *)
BulkEndpoints == {"jobs/cancel", "jobs/restart", "isos/NAME/cancel", "isos"}
Reads(t) ==
  /\ t.readOnly = TRUE
  /\ Len(t.requests) \in Nat /\ (t.requests # <<>> => Len(t.requests) # 0)
  /\ \A i \in 1..Len(t.requests) :
       /\ IsRequest(t.requests[i])
       /\ t.requests[i].method = "GET"
       /\ t.requests[i].endpoint \notin BulkEndpoints

(* A tool made of one GET reads.                                           *)
LEMMA GetReads ==
  ASSUME NEW n, NEW e, e \notin BulkEndpoints, NEW k
  PROVE  Reads(Get(n, e, k))
BY DEF Reads, Get, Request, IsRequest

(* So does every tool that reads a job's files.                            *)
LEMMA FileReads == \A t \in FileTools \cup {LogTool, DigestTool, NeedleTool, ServersTool} : Reads(t)
<1> DEFINE Fine(r) == IsRequest(r) /\ r.method = "GET" /\ r.endpoint \notin BulkEndpoints
<1>1. \A e : e \notin BulkEndpoints => Fine(Raw(e)) /\ Fine(Soft(Raw(e)))
  BY DEF Raw, Soft, Request, IsRequest
<1>2. Fine(Details) /\ Fine(Partial(Details)) /\ Fine(Soft(Partial(Details)))
  BY DEF Details, Partial, Soft, Request, IsRequest, BulkEndpoints
<1>3. Fine(Soft(Request("GET", "tests/ID/downloads_ajax", {}, "json")))
  BY DEF Soft, Request, IsRequest, BulkEndpoints
<1>4. \A t \in FileTools : Reads(t)
  BY <1>1, <1>2, <1>3 DEF FileTools, ReadTool, Reads, BulkEndpoints
<1>5. Reads(LogTool) /\ Reads(DigestTool) /\ Reads(NeedleTool) /\ Reads(ServersTool)
  BY <1>1, <1>2 DEF LogTool, DigestTool, NeedleTool, ServersTool, ReadTool, Reads,
                    BulkEndpoints
<1> QED BY <1>4, <1>5

(* Every tool of the read router reads.                                    *)
LEMMA ReadersRead == \A t \in ReadTools : Reads(t)
<1>1. \A t \in JobTools : Reads(t)
  BY GetReads DEF JobTools, BulkEndpoints
<1>2. \A t \in TestTools : Reads(t)
  BY GetReads DEF TestTools, BulkEndpoints
<1>3. \A t \in GroupTools : Reads(t)
  BY GetReads DEF GroupTools, BulkEndpoints
<1>4. \A t \in AssetTools : Reads(t)
  BY GetReads DEF AssetTools, BulkEndpoints
<1>5. \A t \in CommentTools : Reads(t)
  BY GetReads DEF CommentTools, BulkEndpoints
<1> QED BY <1>1, <1>2, <1>3, <1>4, <1>5, FileReads DEF ReadTools

(* A write tool is not annotated as a reader and makes one request, which  *)
(* is neither an artifact's nor one it could do without.                   *)
Writes(t) ==
  /\ t.readOnly = FALSE
  /\ DOMAIN t.requests = {1} /\ Len(t.requests) = 1
  /\ IsRequest(t.requests[1])
  /\ t.requests[1].channel # "raw" /\ t.requests[1].soft = FALSE

(* A tool made of one form or one request without a body writes.           *)
LEMMA FormWrites ==
  ASSUME NEW n, NEW m, NEW e, NEW k
  PROVE  Writes(Form(n, m, e, k)) /\ Writes(Bare(n, m, e, k))
BY DEF Writes, Form, Bare, Request, IsRequest

(* Every tool of the write router writes.                                  *)
LEMMA WritersWrite == \A t \in WriteTools : Writes(t)
BY FormWrites DEF WriteTools, JobWrites, JobChanges, TriggerIsos, CancelJobs, CommentWrites, OtherWrites

(* The tool a bulk request belongs to.                                     *)
Bulk(t) ==
  LET e == t.requests[1].endpoint
  IN /\ e = "jobs/cancel" => t = CancelJobs
     /\ e = "jobs/restart" => t.name = "restart_jobs"
     /\ e = "isos/NAME/cancel" => t.name = "cancel_scheduled_product"
     /\ e = "isos" => t = TriggerIsos

(* An endpoint of a bulk operation is reached by the tool named for it     *)
(* only.                                                                   *)
LEMMA BulkByName == \A t \in WriteTools : Bulk(t)
<1>1. \A n, m, e, k : Form(n, m, e, k).requests[1].endpoint = e /\ Bare(n, m, e, k).requests[1].endpoint = e
  BY DEF Form, Bare, Request
<1>2. \A n, m, e, k : Form(n, m, e, k).name = n /\ Bare(n, m, e, k).name = n
  BY DEF Form, Bare
<1>3. \A t \in JobWrites \cup JobChanges : Bulk(t)
  BY <1>1, <1>2 DEF JobWrites, JobChanges, Bulk
<1>4. \A t \in CommentWrites \cup OtherWrites : Bulk(t)
  BY <1>1, <1>2 DEF CommentWrites, OtherWrites, Bulk
<1>5. Bulk(TriggerIsos) /\ Bulk(CancelJobs)
  BY <1>1, <1>2 DEF TriggerIsos, CancelJobs, Bulk
<1> QED BY <1>3, <1>4, <1>5 DEF WriteTools

(* The requests of a call, one by one.                                     *)
Pieces(c) == {Requests(c.tool, c.args)[i] : i \in 1..Len(c.tool.requests)}

(* A call's requests are a sequence of its pieces, as long as its          *)
(* tool's.                                                                 *)
LEMMA AskedInOrder ==
  ASSUME NEW c, Len(c.tool.requests) \in Nat \ {0}
  PROVE  /\ Requests(c.tool, c.args) \in Seq(Pieces(c))
         /\ Requests(c.tool, c.args) # <<>>
         /\ Len(Requests(c.tool, c.args)) = Len(c.tool.requests)
<1> DEFINE n == Len(c.tool.requests)
           r == Requests(c.tool, c.args)
<1>1. DOMAIN r = 1..n /\ r = [i \in 1..n |-> r[i]]
  BY Zenon DEF Requests
<1>2. \A i \in 1..n : r[i] \in Pieces(c)
  BY DEF Pieces
<1> HIDE DEF r
<1>3. r \in [1..n -> Pieces(c)]
  BY <1>1, <1>2, Zenon
<1> QED BY <1>3 DEF r

(* No piece of a reading call mutates or is a bulk operation.              *)
LEMMA ReadPieces ==
  ASSUME NEW c, Reads(c.tool), NEW r \in Pieces(c)
  PROVE  ~Mutating(r) /\ r.endpoint \notin BulkEndpoints
<1> DEFINE k == IF c.tool.keys = {} THEN {} ELSE FieldsOf(c.tool, c.args)
<1>1. PICK i \in 1..Len(c.tool.requests) : r = [c.tool.requests[i] EXCEPT !.keys = k]
  BY DEF Pieces, Requests
<1> HIDE DEF k
<1>2. r.method = c.tool.requests[i].method /\ r.endpoint = c.tool.requests[i].endpoint
  BY <1>1, Keyed DEF Reads
<1> QED BY <1>2 DEF Reads, Mutating

(* A writing call has one piece, with the fields the caller gave.          *)
LEMMA WritePieces ==
  ASSUME NEW c, Writes(c.tool)
  PROVE  \E r : /\ Pieces(c) = {r}
                /\ Len(c.tool.requests) = 1
                /\ r.channel # "raw" /\ r.soft = FALSE
                /\ r.endpoint = c.tool.requests[1].endpoint
                /\ r.keys = IF c.tool.keys = {} THEN {} ELSE FieldsOf(c.tool, c.args)
<1> DEFINE r == Requests(c.tool, c.args)[1]
<1>1. r = [c.tool.requests[1] EXCEPT
             !.keys = IF c.tool.keys = {} THEN {} ELSE FieldsOf(c.tool, c.args)]
  BY DEF Requests, Writes
<1>2. Pieces(c) = {r}
  BY DEF Pieces, Writes
<1> HIDE DEF r
<1>3. r.channel = c.tool.requests[1].channel /\ r.soft = c.tool.requests[1].soft
      /\ r.endpoint = c.tool.requests[1].endpoint
      /\ r.keys = IF c.tool.keys = {} THEN {} ELSE FieldsOf(c.tool, c.args)
  BY <1>1, Keyed DEF Writes
<1> QED BY <1>2, <1>3 DEF Writes
-----------------------------------------------------------------------------
(* What dispatch has made sure of before the first request of a call.      *)
Accepted(c) ==
  /\ c.header \in Headers
  /\ c.args.given \subseteq c.tool.keys /\ c.args.ids \in Nat
  /\ c.args.name \in {"plain", "", ".."}
  /\ c.tool \in Router(conf.readonly)
  /\ Authorized(Enforced, Scope(c.header), c.tool.readOnly)
  /\ ArgumentsOk(c.tool, c.args)

(* The call's requests are its tool's, sent or still to be sent; a call    *)
(* that has sent or will send one, or was answered as one that did, was    *)
(* accepted; and its record has the scope of its tool.                     *)
Busy == pc \in {"waiting", "body"}
CallIInv ==
  /\ conf \in Setups
  /\ sent \in Seq(Pieces(call)) /\ todo \in Seq(Pieces(call))
  /\ ~Busy => todo = <<>>
  /\ pc \in {"idle", "unauthorized"} => sent = <<>>
  /\ Busy \/ sent # <<>> => Accepted(call)
  /\ pc = "done" => story.scope = RecordScope(call.tool)
  /\ pc = "done" /\ story.answer \notin {"protocol_error", "audit_unavailable"} => Accepted(call)

(* An idle server has asked for nothing.                                   *)
LEMMA CallInit == Init => CallIInv
BY DEF Init, CallIInv, Busy

(* The tail of a call that was accepted, or is refused.                    *)
LEMMA FinishKeeps ==
  ASSUME CallIInv, NEW c, NEW outcome, Finish(outcome, c), conf' = conf, call' = c,
         sent' \in Seq(Pieces(c)), sent' # <<>> => Accepted(c),
         outcome \in {"protocol_error", "audit_unavailable"} \/ Accepted(c)
  PROVE  CallIInv'
<1>1. pc' = "done" /\ todo' = <<>> /\ story'.answer = outcome /\ story'.scope = RecordScope(c.tool)
  BY DEF Finish
<1>2. Accepted(c) => Accepted(call)'
  BY DEF Accepted, Enforced, Scope
<1>3. RecordScope(c.tool) = RecordScope(call.tool)'
  BY DEF RecordScope
<1>4. Pieces(call)' = Pieces(c) /\ <<>> \in Seq(Pieces(c))
  BY DEF Pieces, Requests, FieldsOf, Nonblank
<1> QED BY <1>1, <1>2, <1>3, <1>4 DEF CallIInv, Busy

(* A request leaves for openQA, the call's first or its next.              *)
LEMMA SendKeeps ==
  ASSUME CallIInv, NEW c, NEW request, NEW rest, Send(request, rest, c), conf' = conf, call' = c,
         sent' \in Seq(Pieces(c)), rest \in Seq(Pieces(c)), Accepted(c)
  PROVE  CallIInv'
<1>1. pc' = "waiting" /\ todo' = rest
  BY DEF Send
<1>2. Accepted(call)'
  BY DEF Accepted, Enforced, Scope
<1>3. Pieces(call)' = Pieces(c)
  BY DEF Pieces, Requests, FieldsOf, Nonblank
<1> QED BY <1>1, <1>2, <1>3 DEF CallIInv, Busy

(* A call that arrives, in each of the ways it can.                        *)
LEMMA ArriveKeeps == CallIInv /\ Arrive => CallIInv'
<1> SUFFICES ASSUME CallIInv, Arrive PROVE CallIInv'
  OBVIOUS
<1>0. PICK tool \in Callable, header \in Callers, parent \in Parents, ids \in IdsDrawn,
           progress \in BOOLEAN : \E args \in ArgumentsFor(tool) :
        LET c == NewCall(tool, args, header, parent, ids, progress)
        IN GateRefuses(c) \/ Denied(c) \/ AnswerAtOnce(c) \/ Dispatch(c)
  BY DEF Arrive
<1>1. PICK args \in ArgumentsFor(tool) :
        LET c == NewCall(tool, args, header, parent, ids, progress)
        IN GateRefuses(c) \/ Denied(c) \/ AnswerAtOnce(c) \/ Dispatch(c)
  BY <1>0
<1> DEFINE c == NewCall(tool, args, header, parent, ids, progress)
<1>2. /\ c.header \in Headers /\ c.tool = tool /\ c.args = args
      /\ args.given \subseteq tool.keys /\ args.ids \in Nat /\ args.name \in {"plain", "", ".."}
  <2>1. c.header \in Headers /\ c.tool = tool /\ c.args = args /\ args.given \subseteq tool.keys
    BY CallerAssumption DEF NewCall, ArgumentsFor
  <2>2. args.ids \in Nat
    <3>1. PICK numbers : args.ids \in numbers
             /\ numbers \in {{0, 1, MaxBulk, MaxBulk + 1}, {0, MaxBulk + 1}, {1, MaxExtra + 1}, {1}}
      <4>1. TriggerIsos.name = "trigger_isos"
        BY DEF TriggerIsos, Form
      <4>2. CASE tool.name = "restart_jobs"
        BY <4>1, <4>2 DEF ArgumentsFor
      <4>3. CASE tool.name \in {"list_jobs", "list_jobs_overview"}
        BY <4>1, <4>3 DEF ArgumentsFor
      <4>4. CASE tool = TriggerIsos
        BY <4>1, <4>4 DEF ArgumentsFor
      <4>5. CASE /\ tool.name \notin {"restart_jobs", "list_jobs", "list_jobs_overview"}
                 /\ tool # TriggerIsos
        BY <4>5 DEF ArgumentsFor
      <4> QED BY <4>2, <4>3, <4>4, <4>5
    <3> QED BY <3>1 DEF MaxBulk, MaxExtra
  <2>3. args.name \in {"plain", "", ".."}
    BY DEF ArgumentsFor
  <2> QED BY <2>1, <2>2, <2>3
<1>3. Dispatchable(c) => Accepted(c)
  <2>1. ASSUME Dispatchable(c) PROVE Authorized(Enforced, Scope(c.header), c.tool.readOnly)
    BY <2>1 DEF Dispatchable, Authorized
  <2> QED BY <1>2, <2>1 DEF Dispatchable, Accepted
<1>4. <<>> \in Seq(Pieces(c))
  OBVIOUS
<1> HIDE DEF c
<1>5. CASE GateRefuses(c)
  BY <1>4, <1>5, FinishKeeps DEF GateRefuses
<1>6. CASE Denied(c)
  BY <1>4, <1>6, FinishKeeps DEF Denied
<1>7. CASE AnswerAtOnce(c)
  BY <1>3, <1>4, <1>7, FinishKeeps DEF AnswerAtOnce
<1>8. CASE Dispatch(c)
  <2> DEFINE requests == Requests(c.tool, c.args)
  <2>1. /\ call' = c /\ conf' = conf /\ Dispatchable(c) /\ c.tool.requests # <<>>
        /\ Send(Head(requests), Tail(requests), c) /\ sent' = <<Head(requests)>>
    BY <1>8 DEF Dispatch
  <2>2. c.tool \in ReadTools \cup WriteTools
    BY <1>3, <2>1 DEF Accepted, Router
  <2>3. Len(c.tool.requests) \in Nat \ {0}
    BY <2>1, <2>2, ReadersRead, WritersWrite DEF Reads, Writes
  <2>4. requests \in Seq(Pieces(c)) /\ requests # <<>>
    BY <2>3, AskedInOrder
  <2> HIDE DEF requests
  <2>5. Tail(requests) \in Seq(Pieces(c)) /\ <<Head(requests)>> \in Seq(Pieces(c))
    BY <2>4
  <2> QED BY <1>3, <2>1, <2>5, SendKeeps
<1> QED BY <1>1, <1>5, <1>6, <1>7, <1>8 DEF c

(* A request of an accepted call ends, well or not.                        *)
LEMMA ConcludeKeeps ==
  ASSUME CallIInv, Busy, NEW outcome, Conclude(outcome), conf' = conf, call' = call
  PROVE  CallIInv'
BY FinishKeeps DEF Conclude, CallIInv

(* The next request of an accepted call is a piece of it.                  *)
LEMMA AdvanceKeeps ==
  ASSUME CallIInv, Busy, Advance, conf' = conf, call' = call
  PROVE  CallIInv'
<1>1. todo \in Seq(Pieces(call)) /\ sent \in Seq(Pieces(call)) /\ todo # <<>> /\ Accepted(call)
  BY DEF CallIInv, Advance
<1>2. Send(Head(todo), Tail(todo), call) /\ sent' = Append(sent, Head(todo))
  BY DEF Advance
<1> DEFINE S == Pieces(call)
<1> HIDE DEF S
<1>3. Tail(todo) \in Seq(S) /\ Head(todo) \in S /\ Append(sent, Head(todo)) \in Seq(S)
  BY <1>1 DEF S
<1> QED BY <1>1, <1>2, <1>3, SendKeeps DEF S

(* Whatever a request ended with, what follows keeps to the call.          *)
LEMMA OutcomeKeeps ==
  ASSUME CallIInv, Busy, conf' = conf, call' = call, Succeed \/ \E kind \in Kinds \cup {"unfit"} : Fail(kind)
  PROVE  CallIInv'
<1>1. Advance \/ \E outcome : Conclude(outcome)
  BY Zenon DEF Succeed, Fail
<1> QED BY <1>1, ConcludeKeeps, AdvanceKeeps

(* Every step keeps to the call and its tool's pieces.                     *)
LEMMA CallNext == CallIInv /\ [Next]_vars => CallIInv'
<1> SUFFICES ASSUME CallIInv, [Next]_vars PROVE CallIInv'
  OBVIOUS
<1>1. CASE Arrive
  BY <1>1, ArriveKeeps
<1>2. ASSUME NEW header \in Callers, Unauthorized(header) PROVE CallIInv'
  <2>1. pc' = "unauthorized" /\ pc = "idle" /\ conf' = conf /\ UNCHANGED <<sent, todo>>
    BY <1>2 DEF Unauthorized, serverVars
  <2> QED BY <2>1 DEF CallIInv, Busy
<1>3. ASSUME UNCHANGED <<conf, call, sent, todo, pc, story>> PROVE CallIInv'
  BY <1>3 DEF CallIInv, Busy, Accepted, Enforced, Scope, RecordScope, Pieces, Requests, FieldsOf, Nonblank
<1>4. CASE TakeReply
  <2>1. Busy /\ conf' = conf /\ call' = call
    BY <1>4 DEF TakeReply, Busy
  <2>2. CASE reply = "ok" /\ wire.channel # "raw" /\ Succeed
    BY <2>1, <2>2, OutcomeKeeps
  <2>3. CASE pc' = "body" /\ UNCHANGED <<todo, sent>>
    BY <2>1, <2>3 DEF CallIInv, Busy, Accepted, Enforced, Scope, Pieces, Requests, FieldsOf, Nonblank
  <2>4. CASE reply # "ok" /\ Fail(reply)
    <3>1. Advance \/ \E outcome : Conclude(outcome)
      BY <2>4, Zenon DEF Fail
    <3> QED BY <2>1, <3>1, ConcludeKeeps, AdvanceKeeps
  <2> QED BY <1>4, <2>2, <2>3, <2>4 DEF TakeReply
<1>5. CASE ReadBody
  <2>1. Busy /\ conf' = conf /\ call' = call
    BY <1>5 DEF ReadBody, Busy
  <2>2. Succeed \/ \E kind \in Kinds \cup {"unfit"} : Fail(kind)
    BY <1>5 DEF ReadBody, Kinds
  <2> QED BY <2>1, <2>2, OutcomeKeeps
<1>6. CASE Deadline
  BY <1>6, ConcludeKeeps DEF Deadline, Busy
<1>7. CASE Recycle
  <2>1. pc' = "idle" /\ sent' = <<>> /\ todo' = todo /\ todo = <<>> /\ conf' = conf
    BY <1>7 DEF Recycle, CallIInv, Busy
  <2> QED BY <2>1 DEF CallIInv, Busy
<1>8. CASE Apply
  BY <1>3, <1>8 DEF Apply, serverVars
<1>9. ASSUME NEW kind \in Kinds, Answer(kind) PROVE CallIInv'
  BY <1>3, <1>9 DEF Answer
<1>10. CASE Tick \/ Notified
  BY <1>3, <1>10 DEF Tick, Notified
<1>11. CASE UNCHANGED vars
  BY <1>3, <1>11 DEF vars
<1> QED BY <1>1, <1>2, <1>4, <1>5, <1>6, <1>7, <1>8, <1>9, <1>10, <1>11 DEF Next

(* CallIInv holds in every behaviour.                                      *)
LEMMA CallInvariant == Spec => []CallIInv
BY CallInit, CallNext, PTL DEF Spec
-----------------------------------------------------------------------------
(* A writer's header carries the write token.                              *)
LEMMA WriteScope ==
  ASSUME NEW write \in TokenVars, NEW read \in TokenVars, NEW header \in Headers,
         ScopeFor(write, read, header) = "write"
  PROVE  header = [scheme |-> "bearer", token |-> write]
<1> DEFINE token == BearerToken(header)
<1>1. ScopeFor(write, read, header) = CASE token = "" -> "none" [] token = write -> "write"
                                        [] token = read -> "read" [] OTHER -> "none"
  BY Zenon DEF ScopeFor
<1> HIDE DEF token
<1>2. token # "" /\ token = write
  <2>1. write # ""
    BY DEF TokenVars, WellFormed, Unset
  <2>2. CASE token = ""
    BY <1>1, <2>1, <2>2
  <2>3. CASE token # "" /\ token # write
    BY <1>1, <2>3
  <2> QED BY <2>2, <2>3
<1>3. header.scheme = "bearer" /\ header.token = write
  BY <1>2 DEF BearerToken, token
<1>4. NoHeader.scheme # "bearer"
  BY DEF NoHeader
<1> QED BY <1>3, <1>4 DEF Headers

(* Who an accepted call that changes something was made by.                *)
LEMMA OnlyAWriterMutates ==
  ASSUME conf \in Setups, NEW c, Accepted(c), NEW r \in Pieces(c), Mutating(r)
  PROVE  /\ c.tool \in WriteTools /\ Writes(c.tool)
         /\ ~conf.readonly
         /\ conf.http /\ ~conf.insecure => c.header = [scheme |-> "bearer", token |-> conf.write]
         /\ RecordScope(c.tool) = "write"
<1>1. c.tool \notin ReadTools
  BY ReadersRead, ReadPieces
<1>2. c.tool \in WriteTools /\ ~conf.readonly
  BY <1>1 DEF Accepted, Router
<1>3. Writes(c.tool) /\ c.tool.readOnly = FALSE
  BY <1>2, WritersWrite DEF Writes
<1>4. Enforced => Scope(c.header) = "write"
  BY <1>3 DEF Accepted, Authorized
<1>5. ASSUME Enforced PROVE c.header = [scheme |-> "bearer", token |-> conf.write]
  <2>1. ScopeFor(conf.write, conf.read, c.header) = "write"
    BY <1>4, <1>5 DEF Scope
  <2>2. conf.write \in TokenVars /\ conf.read \in TokenVars /\ c.header \in Headers
    BY SetupAssumption DEF Accepted
  <2> QED BY <2>1, <2>2, WriteScope
<1> QED BY <1>2, <1>3, <1>5 DEF Enforced, RecordScope

(* OnlyWritersWrite for every configuration and caller (authenticate,      *)
(* authorize, record_scope).                                               *)
THEOREM WritesAuthorized == Spec => []OnlyWritersWrite
<1>1. CallIInv => OnlyWritersWrite
  <2> SUFFICES ASSUME CallIInv, NEW i \in DOMAIN sent, Mutating(sent[i])
               PROVE  /\ ~conf.readonly
                      /\ conf.http /\ ~conf.insecure =>
                           call.header = [scheme |-> "bearer", token |-> conf.write]
                      /\ pc = "done" => story.scope = "write"
    BY DEF OnlyWritersWrite
  <2>1. sent[i] \in Pieces(call) /\ sent # <<>>
    BY DEF CallIInv
  <2> QED BY <2>1, OnlyAWriterMutates DEF CallIInv
<1> QED BY <1>1, CallInvariant, PTL

(* ListedIffCallable likewise (list_tools, call_tool).                     *)
THEOREM ListIsTrue == Spec => []ListedIffCallable
<1>1. ASSUME Accepted(call)
      PROVE  call.tool \in Listed(Enforced, Scope(call.header), Router(conf.readonly))
  BY <1>1 DEF Accepted, Authorized, Listed
<1>2. CallIInv => ListedIffCallable
  BY <1>1 DEF CallIInv, ListedIffCallable
<1> QED BY <1>2, CallInvariant, PTL
-----------------------------------------------------------------------------
(* What the checks of a bulk operation have excluded.                      *)
LEMMA CancelHasFilter ==
  ASSUME NEW c, Accepted(c), c.tool = CancelJobs
  PROVE  FieldsOf(c.tool, c.args) \ c.args.blank # {} /\ c.tool.keys # {}
<1>1. CancelJobs # TriggerIsos
  BY DEF CancelJobs, TriggerIsos, Form, Bare
<1>2. Nonblank(c.args) # {}
  BY DEF Accepted, ArgumentsOk
<1>3. FieldsOf(c.tool, c.args) = Nonblank(c.args)
  BY <1>1 DEF FieldsOf
<1>4. "state" \in CancelJobs.keys
  BY DEF CancelJobs, Bare, JobFilters
<1> QED BY <1>2, <1>3, <1>4 DEF Nonblank

(* Two parameters of an accepted trigger_isos are never stored as one:     *)
(* upper-casing the keys collides for none of those it kept.               *)
LEMMA IsoKeysStayApart ==
  ASSUME NEW c, Accepted(c), c.tool = TriggerIsos
  PROVE  /\ c.tool.keys # {}
         /\ \A k, l \in FieldsOf(c.tool, c.args) : StoredKey(k) = StoredKey(l) => k = l
<1> DEFINE given == c.args.given
<1>1. c.tool.keys = {"async", "ASYNC", "distri", "Build", "BUILD"}
  BY DEF TriggerIsos, Form
<1>2. CheckExtraKeys(given)
  BY DEF Accepted, ArgumentsOk
<1>3. FieldsOf(c.tool, c.args) = given \cup RequiredIsoKeys
  <2>1. CancelJobs # TriggerIsos
    BY DEF CancelJobs, TriggerIsos, Form, Bare
  <2> QED BY <2>1 DEF FieldsOf
<1>4. given \subseteq {"async", "ASYNC", "distri", "Build", "BUILD"}
  BY <1>1 DEF Accepted
<1>5. TriggerIsos.keys = {"async", "ASYNC", "distri", "Build", "BUILD"}
  BY DEF TriggerIsos, Form
<1>6. /\ Upcased["async"] = "ASYNC" /\ Upcased["ASYNC"] = "ASYNC" /\ Upcased["distri"] = "DISTRI"
      /\ Upcased["Build"] = "BUILD" /\ Upcased["BUILD"] = "BUILD"
  BY <1>5 DEF Upcased
<1>7. ~("distri" \in given) /\ ~({"Build", "BUILD"} \subseteq given)
  BY <1>2, <1>6 DEF CheckExtraKeys, RequiredIsoKeys
<1> HIDE DEF given
<1>8. \A k \in given : StoredKey(k) = (IF k = "async" THEN "async" ELSE IF k = "ASYNC" THEN "ASYNC" ELSE "BUILD")
  BY <1>4, <1>6, <1>7 DEF StoredKey, RequiredIsoKeys
<1>9. \A k \in RequiredIsoKeys : StoredKey(k) = k
  BY DEF StoredKey
<1> QED BY <1>1, <1>3, <1>4, <1>7, <1>8, <1>9 DEF RequiredIsoKeys

(* TargetedWrites for every set of arguments (cancel_jobs, bounded,        *)
(* path_segment, check_extra_keys).                                        *)
THEOREM BulkIsTargeted == Spec => []TargetedWrites
<1>1. ASSUME CallIInv, NEW i \in DOMAIN sent, sent[i].endpoint \in BulkEndpoints
      PROVE  /\ sent[i].endpoint = "jobs/cancel" => sent[i].keys \ call.args.blank # {}
             /\ sent[i].endpoint = "jobs/restart" => call.args.ids \in 1..MaxBulk
             /\ sent[i].endpoint = "isos/NAME/cancel" => call.args.name = "plain"
             /\ sent[i].endpoint = "isos" =>
                  \A k, l \in sent[i].keys : StoredKey(k) = StoredKey(l) => k = l
  <2>1. sent[i] \in Pieces(call) /\ Accepted(call)
    BY <1>1 DEF CallIInv
  <2>2. call.tool \in WriteTools
    BY <1>1, <2>1, ReadersRead, ReadPieces DEF Accepted, Router
  <2>3. Bulk(call.tool) /\ Writes(call.tool)
    BY <2>2, BulkByName, WritersWrite
  <2>4. /\ sent[i].endpoint = call.tool.requests[1].endpoint
        /\ sent[i].keys = IF call.tool.keys = {} THEN {} ELSE FieldsOf(call.tool, call.args)
    BY <2>1, <2>3, WritePieces
  <2>5. ASSUME sent[i].endpoint = "jobs/cancel" PROVE sent[i].keys \ call.args.blank # {}
    BY <2>1, <2>3, <2>4, <2>5, CancelHasFilter DEF Bulk
  <2>6. ASSUME sent[i].endpoint = "jobs/restart" PROVE call.args.ids \in 1..MaxBulk
    <3>1. call.tool.name = "restart_jobs"
      BY <2>3, <2>4, <2>6 DEF Bulk
    <3>2. Bounded(call.args.ids, 1, MaxBulk) /\ call.args.ids \in Nat
      BY <2>1, <3>1 DEF Accepted, ArgumentsOk
    <3> QED BY <3>2 DEF Bounded, MaxBulk
  <2>7. ASSUME sent[i].endpoint = "isos/NAME/cancel" PROVE call.args.name = "plain"
    <3>1. call.tool.name = "cancel_scheduled_product"
      BY <2>3, <2>4, <2>7 DEF Bulk
    <3> QED BY <2>1, <3>1 DEF Accepted, ArgumentsOk, PathSegmentOk
  <2>8. ASSUME sent[i].endpoint = "isos"
        PROVE  \A k, l \in sent[i].keys : StoredKey(k) = StoredKey(l) => k = l
    BY <2>1, <2>3, <2>4, <2>8, IsoKeysStayApart DEF Bulk
  <2> QED BY <2>5, <2>6, <2>7, <2>8
<1>2. CallIInv => TargetedWrites
  BY <1>1 DEF TargetedWrites, BulkEndpoints
<1> QED BY <1>2, CallInvariant, PTL
-----------------------------------------------------------------------------
(* What openQA has done, or may still do, with the call's own request: a   *)
(* change is pending or made from the moment it is sent until it is        *)
(* refused, and an "ok" means that it is no longer pending.                *)
EffectIInv ==
  /\ pc \in {"idle", "unauthorized"} => stray = {} /\ applied = {}
  /\ \A r \in stray \cup applied : Mutating(r) /\ r \in Pieces(call)
  /\ Busy => wire \in Pieces(call)
  /\ pc = "body" => ~Mutating(wire)
  /\ reply \in Kinds \cup {Nothing} /\ (reply # Nothing => pc = "waiting")
  /\ pc = "waiting" /\ Mutating(wire) /\ (reply = Nothing \/ reply # "refused") =>
       wire \in stray \cup applied
  /\ reply # Nothing /\ reply = "ok" => wire \notin stray
  /\ reply # Nothing /\ reply = "refused" => wire \notin stray \cup applied
  /\ AnswerIsTrue

(* The calls that may change something make one request, which is neither  *)
(* raw nor soft; the others change nothing.                                *)
LEMMA OneWriteOrNone ==
  ASSUME NEW c, Accepted(c)
  PROVE  \/ \A r \in Pieces(c) : ~Mutating(r)
         \/ /\ Len(c.tool.requests) = 1
            /\ \E r : Pieces(c) = {r} /\ r.channel # "raw" /\ r.soft = FALSE
<1>1. c.tool \in ReadTools \/ c.tool \in WriteTools
  BY DEF Accepted, Router
<1>2. CASE c.tool \in ReadTools
  BY <1>2, ReadersRead, ReadPieces
<1>3. CASE c.tool \in WriteTools
  BY <1>3, WritersWrite, WritePieces
<1> QED BY <1>1, <1>2, <1>3

(* Everything a busy call has asked for or may have changed is the request *)
(* it waits for, if that changes anything.                                 *)
LEMMA OnlyTheWire ==
  ASSUME CallIInv, EffectIInv, Busy
  PROVE  /\ \A r \in Pieces(call) : Mutating(r) => Mutating(wire) /\ r = wire
         /\ Mutating(wire) => /\ Len(call.tool.requests) = 1
                             /\ wire.channel # "raw" /\ wire.soft = FALSE
<1>1. Accepted(call) /\ wire \in Pieces(call)
  BY DEF CallIInv, EffectIInv
<1>2. CASE \A r \in Pieces(call) : ~Mutating(r)
  BY <1>1, <1>2
<1>3. CASE /\ Len(call.tool.requests) = 1
           /\ \E r : Pieces(call) = {r} /\ r.channel # "raw" /\ r.soft = FALSE
  <2>1. PICK r : Pieces(call) = {r} /\ r.channel # "raw" /\ r.soft = FALSE
    BY <1>3
  <2>2. wire = r
    BY <1>1, <2>1
  <2> QED BY <1>3, <2>1, <2>2
<1> QED BY <1>1, <1>2, <1>3, OneWriteOrNone

(* A call that ends, as ambiguous or with openQA done with its request.    *)
LEMMA ConcludeTrue ==
  ASSUME CallIInv, EffectIInv, Busy, NEW outcome, Conclude(outcome),
         conf' = conf, call' = call, applied' = applied,
         \/ outcome \in Ambiguous
         \/ /\ wire \notin stray
            /\ Mutating(wire) => (wire \in applied <=> outcome = "ok")
  PROVE  EffectIInv'
<1>1. /\ pc' = "done" /\ reply' = Nothing /\ story'.answer = outcome
      /\ sent' = sent /\ stray' = stray
  BY DEF Conclude, Finish
<1>2. Pieces(call)' = Pieces(call)
  BY DEF Pieces, Requests, FieldsOf, Nonblank
<1>3. AnswerIsTrue'
  <2> SUFFICES ASSUME outcome \notin Ambiguous
               PROVE  /\ stray = {}
                      /\ \A i \in DOMAIN sent :
                           Mutating(sent[i]) => (sent[i] \in applied <=> outcome = "ok")
    BY <1>1 DEF AnswerIsTrue, Ambiguous, Mutating
  <2>1. stray = {}
    BY OnlyTheWire DEF EffectIInv
  <2>2. \A i \in DOMAIN sent : sent[i] \in Pieces(call)
    BY DEF CallIInv
  <2> QED BY <2>1, <2>2, OnlyTheWire
<1>4. \A r \in (stray \cup applied)' : Mutating(r) /\ r \in Pieces(call)
  BY <1>1 DEF EffectIInv
<1> QED BY <1>1, <1>2, <1>3, <1>4 DEF EffectIInv, Busy, Mutating

(* A request that leaves is pending if it changes something.               *)
LEMMA SendTrue ==
  ASSUME NEW c, NEW request \in Pieces(c), NEW rest, Send(request, rest, c), conf' = conf, call' = c,
         applied' = applied, \A r \in stray \cup applied : Mutating(r) /\ r \in Pieces(c)
  PROVE  EffectIInv'
<1>1. /\ pc' = "waiting" /\ reply' = Nothing /\ wire' = request
      /\ stray' = IF Mutating(request) THEN stray \cup {request} ELSE stray
  BY DEF Send
<1>2. Pieces(call)' = Pieces(c) /\ Mutating(wire)' = Mutating(request)
  BY <1>1 DEF Pieces, Requests, FieldsOf, Nonblank, Mutating
<1>3. AnswerIsTrue'
  BY <1>1 DEF AnswerIsTrue
<1>4. \A r \in (stray \cup applied)' : Mutating(r) /\ r \in Pieces(c)
  BY <1>1
<1> QED BY <1>1, <1>2, <1>3, <1>4 DEF EffectIInv, Busy, Mutating

(* Going on to the next request leaves what openQA did as told.            *)
LEMMA AdvanceTrue ==
  ASSUME CallIInv, EffectIInv, Advance, conf' = conf, call' = call, applied' = applied
  PROVE  EffectIInv'
<1>1. Send(Head(todo), Tail(todo), call) /\ Head(todo) \in Pieces(call)
  BY DEF Advance, CallIInv
<1>2. \A r \in stray \cup applied : Mutating(r) /\ r \in Pieces(call)
  BY DEF EffectIInv
<1> QED BY <1>1, <1>2, SendTrue

(* A request that succeeded, waited for or read to its end.                *)
LEMMA SucceedTrue ==
  ASSUME CallIInv, EffectIInv, Busy, Succeed, conf' = conf, call' = call, applied' = applied,
         ~Mutating(wire) \/ (reply # Nothing /\ reply = "ok")
  PROVE  EffectIInv'
<1>1. wire \notin stray /\ (Mutating(wire) => wire \in applied)
  BY DEF EffectIInv
<1>2. CASE Advance
  BY <1>2, AdvanceTrue
<1>3. CASE Conclude("ok")
  BY <1>1, <1>3, ConcludeTrue
<1>4. ASSUME Len(call.tool.requests) > 1, NEW o \in {"unfit", "protocol_error"}, Conclude(o)
      PROVE  EffectIInv'
  <2>1. ~Mutating(wire)
    <3>1. ~(1 > 1)
      OBVIOUS
    <3>2. Len(call.tool.requests) # 1
      BY <1>4, <3>1, Zenon
    <3> QED BY <3>2, OnlyTheWire
  <2> QED BY <1>1, <1>4, <2>1, ConcludeTrue
<1> QED BY <1>2, <1>3, <1>4 DEF Succeed

(* A request that failed.                                                  *)
LEMMA FailTrue ==
  ASSUME CallIInv, EffectIInv, Busy, NEW kind, Fail(kind), conf' = conf, call' = call,
         applied' = applied,
         ~Mutating(wire) \/ (reply # Nothing /\ kind = reply /\ kind # "ok")
  PROVE  EffectIInv'
<1>1. CASE ~Mutating(wire)
  <2>1. wire \notin stray
    BY <1>1 DEF EffectIInv
  <2>2. Advance \/ \E outcome : Conclude(outcome)
    BY Zenon DEF Fail
  <2> QED BY <1>1, <2>1, <2>2, AdvanceTrue, ConcludeTrue
<1>2. CASE Mutating(wire)
  <2>1. wire.soft = FALSE
    BY <1>2, OnlyTheWire
  <2>2. Conclude(IF kind = "internal" THEN "protocol_error" ELSE kind)
    BY <2>1 DEF Fail
  <2>3. CASE kind = "refused"
    <3>1. Conclude("refused")
      BY <2>2, <2>3
    <3>2. wire \notin stray \cup applied
      BY <1>2, <2>3 DEF EffectIInv
    <3> QED BY <3>1, <3>2, ConcludeTrue
  <2>4. CASE kind # "refused"
    <3>1. kind \in {"server_error", "timeout", "transport", "internal"}
      BY <1>2, <2>4 DEF EffectIInv, Kinds
    <3>2. CASE kind = "internal"
      <4>1. Conclude("protocol_error")
        BY <2>2, <3>2
      <4> QED BY <4>1, ConcludeTrue DEF Ambiguous
    <3>3. CASE kind # "internal"
      <4>1. Conclude(kind) /\ kind \in Ambiguous
        BY <2>2, <3>1, <3>3 DEF Ambiguous
      <4> QED BY <4>1, ConcludeTrue
    <3> QED BY <3>2, <3>3
  <2> QED BY <2>3, <2>4
<1> QED BY <1>1, <1>2

(* An idle server has had no effect.                                       *)
LEMMA EffectInit == Init => EffectIInv
BY DEF Init, EffectIInv, Busy, AnswerIsTrue

(* No step makes the answer say other than what openQA did.                *)
LEMMA EffectNext == CallIInv /\ EffectIInv /\ [Next]_vars => EffectIInv'
<1> SUFFICES ASSUME CallIInv, EffectIInv, [Next]_vars PROVE EffectIInv'
  OBVIOUS
<1>0. ASSUME UNCHANGED <<conf, call, pc, wire, reply, stray, applied, sent, story>>
      PROVE  EffectIInv'
  <2>1. Pieces(call)' = Pieces(call) /\ Mutating(wire)' = Mutating(wire)
    BY <1>0 DEF Pieces, Requests, FieldsOf, Nonblank, Mutating
  <2>2. AnswerIsTrue'
    BY <1>0 DEF EffectIInv, AnswerIsTrue, Ambiguous, Mutating
  <2> QED BY <1>0, <2>1, <2>2 DEF EffectIInv, Busy
<1>1. CASE Arrive
  <2>1. PICK c : GateRefuses(c) \/ Denied(c) \/ AnswerAtOnce(c) \/ Dispatch(c)
    BY <1>1 DEF Arrive
  <2>2. pc = "idle" /\ stray = {} /\ applied = {}
    BY <2>1 DEF GateRefuses, Denied, AnswerAtOnce, Dispatch, Admitted, EffectIInv
  <2>3. CASE GateRefuses(c) \/ Denied(c) \/ AnswerAtOnce(c)
    <3>1. pc' = "done" /\ reply' = Nothing /\ sent' = <<>> /\ stray' = {} /\ applied' = {}
      BY <2>2, <2>3 DEF GateRefuses, Denied, AnswerAtOnce, Finish
    <3>2. AnswerIsTrue'
      BY <3>1 DEF AnswerIsTrue
    <3> QED BY <3>1, <3>2 DEF EffectIInv, Busy
  <2>4. CASE Dispatch(c)
    <3>1. CallIInv'
      BY CallNext
    <3>2. /\ Send(Head(Requests(c.tool, c.args)), Tail(Requests(c.tool, c.args)), c)
          /\ sent' = <<Head(Requests(c.tool, c.args))>>
          /\ call' = c /\ conf' = conf /\ applied' = applied
      BY <2>4 DEF Dispatch
    <3>3. Pieces(call)' = Pieces(c)
      BY <3>2 DEF Pieces, Requests, FieldsOf, Nonblank
    <3>4. Head(Requests(c.tool, c.args)) \in Pieces(c)
      BY <3>1, <3>2, <3>3 DEF CallIInv
    <3> QED BY <2>2, <3>2, <3>4, SendTrue
  <2> QED BY <2>1, <2>3, <2>4
<1>2. ASSUME NEW header \in Callers, Unauthorized(header) PROVE EffectIInv'
  <2>1. /\ pc' = "unauthorized" /\ stray' = {} /\ applied' = {} /\ reply' = reply /\ reply = Nothing
    BY <1>2 DEF Unauthorized, serverVars, EffectIInv
  <2> QED BY <2>1 DEF EffectIInv, Busy, AnswerIsTrue
<1>3. CASE Apply
  <2>1. PICK r \in stray : applied' = applied \cup {r} /\ stray' = stray \ {r}
    BY <1>3 DEF Apply
  <2>2. UNCHANGED <<conf, call, pc, wire, reply, sent, story>>
    BY <1>3 DEF Apply, serverVars
  <2>3. (stray \cup applied)' = stray \cup applied
    BY <2>1
  <2>4. AnswerIsTrue'
    BY <2>1, <2>2 DEF EffectIInv, AnswerIsTrue, Ambiguous
  <2>5. Pieces(call)' = Pieces(call) /\ Mutating(wire)' = Mutating(wire)
    BY <2>2 DEF Pieces, Requests, FieldsOf, Nonblank, Mutating
  <2>6. pc \notin {"idle", "unauthorized"}
    BY <2>1 DEF EffectIInv
  <2>7. \A q \in (stray \cup applied)' : Mutating(q) /\ q \in Pieces(call)
    BY <2>3 DEF EffectIInv
  <2>8. reply # Nothing /\ reply = "ok" => wire \notin stray'
    BY <2>1 DEF EffectIInv
  <2>9. /\ pc = "waiting" /\ Mutating(wire) /\ (reply = Nothing \/ reply # "refused") =>
             wire \in (stray \cup applied)'
        /\ reply # Nothing /\ reply = "refused" => wire \notin (stray \cup applied)'
    BY <2>3 DEF EffectIInv
  <2> QED BY <2>2, <2>4, <2>5, <2>6, <2>7, <2>8, <2>9 DEF EffectIInv, Busy
<1>4. ASSUME NEW kind \in Kinds, Answer(kind) PROVE EffectIInv'
  <2>1. /\ pc = "waiting" /\ reply = Nothing /\ reply' = kind
        /\ kind = "ok" => wire \notin stray
        /\ kind = "refused" => wire \notin applied
        /\ stray' = IF kind = "refused" THEN stray \ {wire} ELSE stray
        /\ UNCHANGED <<conf, pc, call, wire, applied, sent, story>>
    BY <1>4 DEF Answer
  <2>2. Pieces(call)' = Pieces(call) /\ Mutating(wire)' = Mutating(wire)
    BY <2>1 DEF Pieces, Requests, FieldsOf, Nonblank, Mutating
  <2>3. \A r \in (stray \cup applied)' : Mutating(r) /\ r \in Pieces(call)
    BY <2>1 DEF EffectIInv
  <2>4. kind # "refused" /\ Mutating(wire) => wire \in (stray \cup applied)'
    BY <2>1 DEF EffectIInv
  <2>5. wire \in Pieces(call)
    BY <2>1 DEF EffectIInv, Busy
  <2>6. AnswerIsTrue'
    BY <2>1 DEF AnswerIsTrue
  <2> QED BY <2>1, <2>2, <2>3, <2>4, <2>5, <2>6, NothingAssumption DEF EffectIInv, Busy
<1>5. CASE TakeReply
  <2>1. /\ pc = "waiting" /\ Busy /\ reply # Nothing
        /\ conf' = conf /\ call' = call /\ applied' = applied
    BY <1>5 DEF TakeReply, Busy
  <2>2. CASE reply = "ok" /\ Succeed
    BY <2>1, <2>2, SucceedTrue
  <2>3. CASE /\ wire.channel = "raw" /\ pc' = "body" /\ reply' = Nothing
             /\ UNCHANGED <<wire, stray, sent, story>>
    <3>1. ~Mutating(wire)
      BY <2>1, <2>3, OnlyTheWire
    <3>2. Pieces(call)' = Pieces(call) /\ Mutating(wire)' = Mutating(wire)
      BY <2>1, <2>3 DEF Pieces, Requests, FieldsOf, Nonblank, Mutating
    <3>3. AnswerIsTrue'
      BY <2>3 DEF AnswerIsTrue
    <3>4. \A r \in (stray \cup applied)' : Mutating(r) /\ r \in Pieces(call)
      BY <2>1, <2>3 DEF EffectIInv
    <3> QED BY <2>1, <2>3, <3>1, <3>2, <3>3, <3>4 DEF EffectIInv, Busy
  <2>4. CASE reply # "ok" /\ Fail(reply)
    <3>1. reply # Nothing /\ reply # "ok" /\ Fail(reply)
      BY <2>1, <2>4
    <3> QED BY <2>1, <3>1, FailTrue
  <2> QED BY <1>5, <2>2, <2>3, <2>4 DEF TakeReply
<1>6. CASE ReadBody
  <2>1. /\ Busy /\ ~Mutating(wire) /\ conf' = conf /\ call' = call /\ applied' = applied
    BY <1>6 DEF ReadBody, Busy, EffectIInv
  <2>2. Succeed \/ \E kind : Fail(kind)
    BY <1>6 DEF ReadBody
  <2> QED BY <2>1, <2>2, SucceedTrue, FailTrue
<1>7. CASE Deadline
  BY <1>7, ConcludeTrue DEF Deadline, Busy, Ambiguous
<1>8. CASE Recycle
  <2>1. /\ pc' = "idle" /\ stray' = {} /\ applied' = {} /\ reply' = reply /\ reply = Nothing
    BY <1>8 DEF Recycle, EffectIInv
  <2> QED BY <2>1 DEF EffectIInv, Busy, AnswerIsTrue
<1>9. CASE Tick \/ Notified
  BY <1>0, <1>9 DEF Tick, Notified
<1>10. CASE UNCHANGED vars
  BY <1>0, <1>10 DEF vars
<1> QED BY <1>1, <1>2, <1>3, <1>4, <1>5, <1>6, <1>7, <1>8, <1>9, <1>10 DEF Next

(* AnswerIsTrue for every tool, argument and order of openQA's answers     *)
(* (dispatch's deadline text, classify, status_kind).                      *)
THEOREM AnswerCanBeBelieved == Spec => []AnswerIsTrue
<1>1. Spec => []EffectIInv
  <2>1. Spec => [](CallIInv /\ EffectIInv)
    BY CallInit, CallNext, EffectInit, EffectNext, PTL DEF Spec
  <2> QED BY <2>1, PTL
<1>2. EffectIInv => AnswerIsTrue
  BY DEF EffectIInv
<1> QED BY <1>1, <1>2, PTL
-----------------------------------------------------------------------------
(* The trace beside the call: a traced call has a span for each of its     *)
(* requests but the one on the wire, and the body of a raw request is read *)
(* after its span.                                                         *)
Traced == call.span # Nothing /\ call.children
Numbered(s) == (\E S : s \in Seq(S)) /\ \A i \in DOMAIN s : s[i].request = i
TraceIInv ==
  /\ Numbered(spans)
  /\ pc \in {"idle", "unauthorized"} => spans = <<>>
  /\ pc \notin {"idle", "unauthorized"} => call # Nothing
  /\ pc \notin {"idle", "unauthorized"} /\ ~Traced => spans = <<>>
  /\ Busy => sent # <<>> /\ wire = sent[Len(sent)]
  /\ pc = "waiting" /\ Traced => Len(spans) = Len(sent) - 1
  /\ pc = "body" => wire.channel = "raw"
  /\ pc = "body" /\ Traced => Len(spans) = Len(sent)
  /\ TraceTellsTheCall

(* An idle server has recorded no span.                                    *)
LEMMA TraceInit == Init => TraceIInv
<1>1. <<>> \in Seq({})
  OBVIOUS
<1> QED BY <1>1 DEF Init, TraceIInv, Numbered, TraceTellsTheCall, Busy

(* The spans of a call whose last request has ended.                       *)
Complete(s) == Numbered(s) /\ (Traced => Len(s) = Len(sent)) /\ (~Traced => s = <<>>)

(* The span of the request on the wire is the last one, and says how it    *)
(* ended.                                                                  *)
LEMMA SpanRecorded ==
  ASSUME CallIInv, TraceIInv, pc = "waiting", RecordUpstreamSpan
  PROVE  /\ Complete(spans')
         /\ Traced => spans'[Len(sent)].error = SpanError(wire, reply)
<1>1. CASE ~Traced
  <2>1. spans' = spans
    BY <1>1 DEF RecordUpstreamSpan, Traced
  <2> QED BY <1>1, <2>1 DEF TraceIInv, Complete
<1>2. CASE Traced
  <2> DEFINE span == [request |-> Len(sent), query |-> SpanQuery(wire), error |-> SpanError(wire, reply)]
  <2>1. spans' = Append(spans, span)
    BY <1>2 DEF RecordUpstreamSpan, Traced
  <2>2. PICK S : spans \in Seq(S)
    BY DEF TraceIInv, Numbered
  <2>3. Len(sent) \in Nat /\ Len(spans) = Len(sent) - 1
    BY <1>2 DEF CallIInv, TraceIInv
  <2>4. span.request = Len(sent) /\ span.error = SpanError(wire, reply)
    OBVIOUS
  <2> HIDE DEF span
  <2>5. spans \in Seq(S \cup {span}) /\ span \in S \cup {span}
    BY <2>2
  <2>6. /\ spans' \in Seq(S \cup {span}) /\ Len(spans') = Len(sent)
        /\ \A i \in 1..Len(spans) : spans'[i] = spans[i]
        /\ spans'[Len(sent)] = span
    BY <2>1, <2>3, <2>5, AppendProperties
  <2>7. ASSUME NEW i \in DOMAIN spans' PROVE spans'[i].request = i
    <3>1. i \in 1..Len(sent)
      BY <2>6
    <3>2. CASE i = Len(sent)
      BY <2>4, <2>6, <3>2
    <3>3. CASE i # Len(sent)
      <4>1. i \in 1..Len(spans) /\ i \in DOMAIN spans
        BY <2>2, <2>3, <3>1, <3>3
      <4> QED BY <2>6, <4>1 DEF TraceIInv, Numbered
    <3> QED BY <3>2, <3>3
  <2> QED BY <1>2, <2>4, <2>6, <2>7 DEF Complete, Numbered
<1> QED BY <1>1, <1>2

(* The next request goes out, and has no span yet.                         *)
LEMMA TraceAdvance ==
  ASSUME CallIInv, TraceIInv, Busy, Advance, conf' = conf, call' = call, Complete(spans')
  PROVE  TraceIInv'
<1>1. /\ pc' = "waiting" /\ wire' = Head(todo) /\ sent' = Append(sent, Head(todo))
  BY DEF Advance, Send
<1>2. sent \in Seq(Pieces(call)) /\ Head(todo) \in Pieces(call)
  BY DEF CallIInv, Advance
<1>3. sent' # <<>> /\ Len(sent') = Len(sent) + 1 /\ sent'[Len(sent')] = Head(todo) /\ Len(sent) \in Nat
  BY <1>1, <1>2, AppendProperties
<1>4. Traced' <=> Traced
  BY DEF Traced
<1>5. call' # Nothing
  BY DEF TraceIInv, Busy
<1>6. \A i \in DOMAIN spans' : spans'[i].request = i
  BY DEF Complete, Numbered
<1>7. TraceTellsTheCall'
  BY <1>1, <1>4, <1>5, <1>6 DEF TraceTellsTheCall, Traced, Complete
<1> QED BY <1>1, <1>3, <1>4, <1>5, <1>7 DEF TraceIInv, Complete, Numbered, Busy

(* The call ends with its last request, and tells the same.                *)
LEMMA TraceConclude ==
  ASSUME TraceIInv, Busy, NEW outcome, Conclude(outcome), conf' = conf, call' = call, Complete(spans'),
         \/ outcome \in {"ok", "unfit", "protocol_error"}
         \/ wire.channel = "raw"
         \/ Traced => spans'[Len(sent)].error = outcome
  PROVE  TraceIInv'
<1>1. pc' = "done" /\ story'.answer = outcome /\ sent' = sent
  BY DEF Conclude, Finish
<1>2. wire = sent[Len(sent)] /\ call' # Nothing
  BY DEF TraceIInv, Busy
<1>3. Traced' <=> Traced
  BY DEF Traced
<1>4. TraceTellsTheCall'
  BY <1>1, <1>2, <1>3 DEF TraceTellsTheCall, Traced, Complete, Numbered
<1> QED BY <1>1, <1>2, <1>3, <1>4 DEF TraceIInv, Complete, Numbered, Busy

(* What follows a request that ended well, or with such a failure.         *)
LEMMA TraceOutcome ==
  ASSUME CallIInv, TraceIInv, Busy, conf' = conf, call' = call, Complete(spans'),
         \/ Succeed
         \/ \E kind : /\ Fail(kind)
                      /\ \/ kind = "unfit" \/ wire.channel = "raw"
                         \/ Traced => spans'[Len(sent)].error = kind
  PROVE  TraceIInv'
<1>1. CASE Advance
  BY <1>1, TraceAdvance
<1>2. ASSUME NEW o \in {"ok", "unfit", "protocol_error"}, Conclude(o) PROVE TraceIInv'
  BY <1>2, TraceConclude
<1>3. CASE Succeed
  <2>1. Advance \/ \E o \in {"ok", "unfit", "protocol_error"} : Conclude(o)
    BY <1>3, Zenon DEF Succeed
  <2> QED BY <1>1, <1>2, <2>1
<1>4. ASSUME NEW kind, Fail(kind),
             \/ kind = "unfit" \/ wire.channel = "raw"
             \/ Traced => spans'[Len(sent)].error = kind
      PROVE  TraceIInv'
  <2>1. Advance \/ Conclude("ok") \/ Conclude(IF kind = "internal" THEN "protocol_error" ELSE kind)
    BY <1>4, Zenon DEF Fail
  <2>2. CASE Conclude(IF kind = "internal" THEN "protocol_error" ELSE kind)
    <3>1. CASE kind = "internal"
      <4>1. Conclude("protocol_error")
        BY <2>2, <3>1
      <4> QED BY <1>2, <4>1
    <3>2. CASE kind # "internal"
      <4>1. Conclude(kind)
        BY <2>2, <3>2
      <4> QED BY <1>4, <4>1, TraceConclude
    <3> QED BY <3>1, <3>2
  <2> QED BY <1>1, <1>2, <2>1, <2>2
<1> QED BY <1>3, <1>4

(* A call that arrives is told apart from none, and has no span yet.       *)
LEMMA TraceArrive == CallIInv /\ TraceIInv /\ Arrive => TraceIInv'
<1> SUFFICES ASSUME CallIInv, TraceIInv, Arrive PROVE TraceIInv'
  OBVIOUS
<1>0. PICK tool \in Callable, header \in Callers, parent \in Parents, ids \in IdsDrawn,
           progress \in BOOLEAN : \E args \in ArgumentsFor(tool) :
        LET c == NewCall(tool, args, header, parent, ids, progress)
        IN GateRefuses(c) \/ Denied(c) \/ AnswerAtOnce(c) \/ Dispatch(c)
  BY Zenon DEF Arrive
<1>1. PICK args \in ArgumentsFor(tool) :
        LET c == NewCall(tool, args, header, parent, ids, progress)
        IN GateRefuses(c) \/ Denied(c) \/ AnswerAtOnce(c) \/ Dispatch(c)
  BY <1>0, Zenon
<1> DEFINE c == NewCall(tool, args, header, parent, ids, progress)
<1>2. c # Nothing
  <2>1. CallSpan(parent, ids) \in {Nothing, "remote", "root"} /\ (ids = "all") \in BOOLEAN
    BY DEF CallSpan
  <2> DEFINE A == UNION {ArgumentsFor(t) : t \in Callable}
             C == [tool : Callable, args : A, header : Callers, progress : BOOLEAN,
                   span : {Nothing, "remote", "root"}, children : BOOLEAN]
  <2>2. args \in A
    OBVIOUS
  <2>3. Nothing \notin C
    BY CallAssumption
  <2> HIDE DEF A
  <2>4. c \in C
    BY <2>1, <2>2 DEF NewCall
  <2> HIDE DEF C, c
  <2> QED BY <2>3, <2>4
<1>6. GateRefuses(c) \/ Denied(c) \/ AnswerAtOnce(c) \/ Dispatch(c)
  BY <1>1
<1> HIDE DEF c
<1>3. spans' = <<>> /\ spans' \in Seq({}) /\ DOMAIN spans' = {} /\ Len(spans') = 0 /\ call' = c
  <2>1. spans' = <<>> /\ call' = c
    BY <1>6 DEF GateRefuses, Denied, AnswerAtOnce, Dispatch
  <2>2. <<>> \in Seq({}) /\ DOMAIN <<>> = {} /\ Len(<<>>) = 0
    OBVIOUS
  <2> QED BY <2>1, <2>2
<1>4. CASE GateRefuses(c) \/ Denied(c) \/ AnswerAtOnce(c)
  <2>1. pc' = "done" /\ sent' = <<>> /\ Len(sent') = 0
    BY <1>4 DEF GateRefuses, Denied, AnswerAtOnce, Finish
  <2> QED BY <1>2, <1>3, <2>1 DEF TraceIInv, Numbered, TraceTellsTheCall, Busy
<1>5. CASE Dispatch(c)
  <2>1. pc' = "waiting" /\ sent' = <<wire'>> /\ Len(sent') = 1 /\ sent'[1] = wire' /\ sent' # <<>>
    BY <1>5 DEF Dispatch, Send
  <2> QED BY <1>2, <1>3, <2>1 DEF TraceIInv, Numbered, TraceTellsTheCall, Busy
<1> QED BY <1>4, <1>5, <1>6

(* Every step keeps the trace beside the call.                             *)
LEMMA TraceNext == CallIInv /\ TraceIInv /\ [Next]_vars => TraceIInv'
<1> SUFFICES ASSUME CallIInv, TraceIInv, [Next]_vars PROVE TraceIInv'
  OBVIOUS
<1>0. ASSUME UNCHANGED <<conf, call, pc, wire, sent, spans, story>> PROVE TraceIInv'
  BY <1>0 DEF TraceIInv, Numbered, Traced, TraceTellsTheCall, Busy
<1>1. CASE Arrive
  BY <1>1, TraceArrive
<1>2. ASSUME call' = Nothing, pc' \in {"idle", "unauthorized"}, spans' = <<>> PROVE TraceIInv'
  <2>1. <<>> \in Seq({}) /\ DOMAIN <<>> = {}
    OBVIOUS
  <2> QED BY <1>2, <2>1 DEF TraceIInv, Numbered, TraceTellsTheCall, Busy
<1>3. CASE \E header \in Callers : Unauthorized(header)
  <2>1. call' = Nothing /\ pc' = "unauthorized" /\ pc = "idle" /\ spans' = spans
    BY <1>3 DEF Unauthorized, serverVars
  <2> QED BY <1>2, <2>1 DEF TraceIInv
<1>4. CASE Recycle
  BY <1>2, <1>4 DEF Recycle
<1>5. CASE Apply \/ (\E kind \in Kinds : Answer(kind)) \/ Tick \/ Notified
  BY <1>0, <1>5 DEF Apply, Answer, Tick, Notified, serverVars
<1>6. CASE TakeReply
  <2>1. pc = "waiting" /\ Busy /\ conf' = conf /\ call' = call /\ Complete(spans')
        /\ (Traced => spans'[Len(sent)].error = SpanError(wire, reply))
    BY <1>6, SpanRecorded DEF TakeReply, Busy
  <2>2. CASE Succeed
    BY <2>1, <2>2, TraceOutcome
  <2>3. CASE wire.channel = "raw" /\ pc' = "body" /\ UNCHANGED <<wire, sent>>
    <3>1. Traced' <=> Traced
      BY <2>1 DEF Traced
    <3>2. TraceTellsTheCall'
      BY <2>1, <2>3 DEF TraceTellsTheCall, Traced, Complete, Numbered, TraceIInv
    <3> QED BY <2>1, <2>3, <3>1, <3>2 DEF TraceIInv, Complete, Numbered, Busy
  <2>4. CASE reply # "ok" /\ Fail(reply)
    <3>1. wire.channel = "raw" \/ SpanError(wire, reply) = reply
      BY <2>4 DEF SpanError
    <3> QED BY <2>1, <2>4, <3>1, TraceOutcome
  <2> QED BY <1>6, <2>2, <2>3, <2>4 DEF TakeReply
<1>7. CASE ReadBody
  <2>1. pc = "body" /\ Busy /\ conf' = conf /\ call' = call /\ spans' = spans /\ wire.channel = "raw"
    BY <1>7 DEF ReadBody, Busy, TraceIInv
  <2>2. Complete(spans')
    BY <2>1 DEF TraceIInv, Complete
  <2>3. Succeed \/ \E kind : Fail(kind)
    BY <1>7 DEF ReadBody
  <2> QED BY <2>1, <2>2, <2>3, TraceOutcome
<1>8. CASE Deadline
  <2>1. /\ pc' = "done" /\ story'.answer = "timeout" /\ conf.deadline
        /\ UNCHANGED <<conf, call, sent, spans>> /\ Busy
    BY <1>8 DEF Deadline, Conclude, Finish, Busy
  <2>2. call # Nothing /\ (~Traced => spans = <<>>) /\ wire = sent[Len(sent)]
        /\ (pc = "waiting" /\ Traced => Len(spans) = Len(sent) - 1)
        /\ (pc = "body" /\ Traced => Len(spans) = Len(sent) /\ sent[Len(sent)].channel = "raw")
    BY <2>1 DEF TraceIInv, Busy
  <2>3. TraceTellsTheCall'
    BY <2>1, <2>2 DEF TraceTellsTheCall, Traced, TraceIInv, Numbered, Busy
  <2> QED BY <2>1, <2>2, <2>3 DEF TraceIInv, Numbered, Traced, Busy
<1>9. CASE UNCHANGED vars
  BY <1>0, <1>9 DEF vars
<1> QED BY <1>1, <1>3, <1>4, <1>5, <1>6, <1>7, <1>8, <1>9 DEF Next

(* TraceTellsTheCall for every way a call can go (start_call_span,         *)
(* record_upstream_span, dispatch's deadline).                             *)
THEOREM TraceIsTrue == Spec => []TraceTellsTheCall
<1>1. TraceIInv => TraceTellsTheCall
  BY DEF TraceIInv
<1> QED BY <1>1, TraceInit, TraceNext, CallInvariant, PTL DEF Spec
-----------------------------------------------------------------------------
(* What is left of the type: a call under way is one of those that can     *)
(* arrive, a server that is not waiting has nothing on the wire, and the   *)
(* heartbeat runs beside a request only.                                   *)
TypeIInv ==
  /\ pc \in {"idle", "waiting", "body", "unauthorized", "done"}
  /\ Busy => call.tool \in Callable /\ call.args \in ArgumentsFor(call.tool)
  /\ ~Busy => wire = Nothing
  /\ beat # "off" => pc = "waiting"
  /\ beat \in {"off", "asleep", "notifying"} /\ pings \in 0..MaxPings
  /\ pc = "done" => story.answer \in Outcomes /\ story.scope \in {"read", "write"}

(* A call that ends, told as one of the outcomes.                          *)
LEMMA FinishTyped ==
  ASSUME NEW outcome \in Outcomes, NEW c, Finish(outcome, c)
  PROVE  TypeIInv'
BY PingAssumption DEF Finish, TypeIInv, RecordScope, Busy

(* A request that leaves, for a call that can arrive.                      *)
LEMMA SendTyped ==
  ASSUME NEW c, c.tool \in Callable, c.args \in ArgumentsFor(c.tool), call' = c,
         NEW request, NEW rest, Send(request, rest, c)
  PROVE  TypeIInv'
<1>1. ArgumentsFor(call.tool)' = ArgumentsFor(c.tool) /\ call'.tool = c.tool /\ call'.args = c.args
  BY Zenon DEF ArgumentsFor
<1>2. /\ pc' = "waiting" /\ pings' = 0 /\ beat' \in {"off", "asleep"}
  BY DEF Send
<1> HIDE DEF ArgumentsFor
<1> QED BY <1>1, <1>2, PingAssumption DEF TypeIInv, Busy

(* The way a request of a call ended, and what follows.                    *)
LEMMA OutcomeTyped ==
  ASSUME TypeIInv, Busy, conf' = conf, call' = call,
         Succeed \/ \E kind \in Kinds \cup {"unfit"} : Fail(kind)
  PROVE  TypeIInv'
<1>1. CASE Advance
  BY <1>1, SendTyped DEF Advance, TypeIInv
<1>2. ASSUME NEW outcome \in Outcomes, Conclude(outcome) PROVE TypeIInv'
  BY <1>2, FinishTyped DEF Conclude
<1>3. CASE Succeed
  BY <1>1, <1>2, <1>3 DEF Succeed, Outcomes
<1>4. ASSUME NEW kind \in Kinds \cup {"unfit"}, Fail(kind) PROVE TypeIInv'
  <2>1. Advance \/ Conclude("ok") \/ Conclude(IF kind = "internal" THEN "protocol_error" ELSE kind)
    BY <1>4, Zenon DEF Fail
  <2>2. (IF kind = "internal" THEN "protocol_error" ELSE kind) \in Outcomes /\ "ok" \in Outcomes
    BY DEF Kinds, Outcomes
  <2> HIDE DEF Outcomes
  <2> QED BY <1>1, <1>2, <2>1, <2>2
<1> QED BY <1>3, <1>4

(* An idle server.                                                         *)
LEMMA TypeInit == Init => TypeIInv
BY PingAssumption DEF Init, TypeIInv, Busy

(* Every step keeps the type.                                              *)
LEMMA TypeNext == EffectIInv /\ TypeIInv /\ [Next]_vars => TypeIInv'
<1> SUFFICES ASSUME EffectIInv, TypeIInv, [Next]_vars PROVE TypeIInv'
  OBVIOUS
<1>0. ASSUME UNCHANGED <<call, pc, wire, story>>, beat' # "off" => beat # "off",
             beat' \in {"off", "asleep", "notifying"}, pings' \in 0..MaxPings
      PROVE  TypeIInv'
  <2>1. ArgumentsFor(call.tool)' = ArgumentsFor(call.tool)
    BY <1>0, Zenon DEF ArgumentsFor
  <2> QED BY <1>0, <2>1 DEF TypeIInv, Busy
<1>1. CASE Arrive
  <2>1. PICK tool \in Callable, header \in Callers, parent \in Parents, ids \in IdsDrawn,
             progress \in BOOLEAN : \E args \in ArgumentsFor(tool) :
          LET c == NewCall(tool, args, header, parent, ids, progress)
          IN GateRefuses(c) \/ Denied(c) \/ AnswerAtOnce(c) \/ Dispatch(c)
    BY <1>1, Zenon DEF Arrive
  <2>2. PICK args \in ArgumentsFor(tool) :
          LET c == NewCall(tool, args, header, parent, ids, progress)
          IN GateRefuses(c) \/ Denied(c) \/ AnswerAtOnce(c) \/ Dispatch(c)
    BY <2>1, Zenon
  <2> DEFINE c == NewCall(tool, args, header, parent, ids, progress)
  <2>3. c.tool = tool /\ c.args = args
    BY DEF NewCall
  <2>4. GateRefuses(c) \/ Denied(c) \/ AnswerAtOnce(c) \/ Dispatch(c)
    BY <2>2, Zenon
  <2> HIDE DEF c
  <2>5. CASE GateRefuses(c) \/ Denied(c) \/ AnswerAtOnce(c)
    BY <2>5, FinishTyped DEF GateRefuses, Denied, AnswerAtOnce, Outcomes
  <2>6. CASE Dispatch(c)
    BY <2>3, <2>6, SendTyped DEF Dispatch
  <2> QED BY <2>4, <2>5, <2>6
<1>2. CASE \E header \in Callers : Unauthorized(header)
  <2>1. pc = "idle" /\ pc' = "unauthorized" /\ UNCHANGED serverVars
    BY <1>2 DEF Unauthorized
  <2> QED BY <2>1 DEF serverVars, TypeIInv, Busy
<1>3. CASE Apply \/ \E kind \in Kinds : Answer(kind)
  BY <1>0, <1>3 DEF Apply, Answer, serverVars, TypeIInv
<1>4. CASE TakeReply
  <2>1. pc = "waiting" /\ Busy /\ conf' = conf /\ call' = call /\ reply \in Kinds
    BY <1>4 DEF TakeReply, EffectIInv, Busy
  <2>2. CASE pc' = "body" /\ beat' = "off" /\ pings' = 0
    <3>1. ArgumentsFor(call.tool)' = ArgumentsFor(call.tool)
      BY <2>1, Zenon DEF ArgumentsFor
    <3> QED BY <2>1, <2>2, <3>1, PingAssumption DEF TypeIInv, Busy
  <2>3. CASE Succeed \/ Fail(reply)
    BY <2>1, <2>3, OutcomeTyped
  <2> QED BY <1>4, <2>2, <2>3 DEF TakeReply
<1>5. CASE ReadBody
  <2>1. Busy /\ conf' = conf /\ call' = call
    BY <1>5 DEF ReadBody, Busy
  <2>2. Succeed \/ \E kind \in Kinds \cup {"unfit"} : Fail(kind)
    BY <1>5 DEF ReadBody, Kinds
  <2> QED BY <2>1, <2>2, OutcomeTyped
<1>6. CASE Deadline
  BY <1>6, FinishTyped DEF Deadline, Conclude, Outcomes
<1>7. CASE Tick
  <2>1. pings' = pings + 1 /\ pings < MaxPings /\ pings \in 0..MaxPings
    BY <1>7 DEF Tick, TypeIInv
  <2> QED BY <1>0, <1>7, <2>1, PingAssumption DEF Tick
<1>8. CASE Notified
  BY <1>0, <1>8 DEF Notified, TypeIInv
<1>9. CASE Recycle
  BY <1>9 DEF Recycle, TypeIInv, Busy
<1>10. CASE UNCHANGED vars
  BY <1>0, <1>10 DEF vars, TypeIInv
<1> QED BY <1>1, <1>2, <1>3, <1>4, <1>5, <1>6, <1>7, <1>8, <1>9, <1>10 DEF Next

(* The request a call under way waits for is one.                          *)
LEMMA WireTyped == EffectIInv /\ TypeIInv /\ Busy => wire # Nothing
<1> SUFFICES ASSUME EffectIInv, TypeIInv, Busy PROVE wire # Nothing
  OBVIOUS
<1>1. wire \in Pieces(call) /\ call.tool \in Callable /\ call.args \in ArgumentsFor(call.tool)
  BY DEF EffectIInv, TypeIInv
<1>2. PICK i \in 1..Len(call.tool.requests) : wire = Requests(call.tool, call.args)[i]
  BY <1>1 DEF Pieces
<1> QED BY <1>1, <1>2, RequestAssumption

(* TypeOK for every tool and argument: among the rest, the server waits    *)
(* exactly while a request of the call is on the wire (dispatch,           *)
(* with_heartbeat).                                                        *)
THEOREM CallTypeCorrect == Spec => []TypeOK
<1>1. CallIInv /\ EffectIInv /\ TypeIInv => TypeOK
  BY WireTyped DEF CallIInv, EffectIInv, TypeIInv, TypeOK, Busy
<1>2. Spec => [](CallIInv /\ EffectIInv /\ TypeIInv)
  BY CallInit, CallNext, EffectInit, EffectNext, TypeInit, TypeNext, PTL DEF Spec
<1> QED BY <1>1, <1>2, PTL
=============================================================================
