------------------------ MODULE ExportPipeline_proofs ------------------------
(***************************************************************************)
(* Proofs about ExportPipeline for every size of the queue and the batch,  *)
(* every number of attempts and of records.  The invariant is built in     *)
(* layers: types, where the task can be with what it holds, the order of   *)
(* the records, where each record is, and what the health says.            *)
(***************************************************************************)
EXTENDS ExportPipeline, SequenceTheorems, TLAPS

(* Sequences of records: what the model's steps do to their elements and   *)
(* to their order.                                                         *)
Ordered(s) == \A i, j \in DOMAIN s : i < j => s[i] < s[j]
Below(a, b) == \A m \in Elements(a), n \in Elements(b) : m < n

(* Nothing is in the empty sequence.                                       *)
LEMMA NoElement == Elements(<<>>) = {} /\ Ordered(<<>>)
BY DEF Elements, Ordered

(* A record at the end of a sequence.                                      *)
LEMMA AtTheEnd ==
  ASSUME NEW s \in Seq(Nat), NEW e \in Nat
  PROVE  /\ Append(s, e) \in Seq(Nat) /\ Append(s, e) # <<>> /\ Len(Append(s, e)) = Len(s) + 1
         /\ Elements(Append(s, e)) = Elements(s) \cup {e}
         /\ Ordered(s) /\ (\A m \in Elements(s) : m < e) => Ordered(Append(s, e))
<1> DEFINE t == Append(s, e)
<1>1. /\ t \in Seq(Nat) /\ Len(t) = Len(s) + 1 /\ t # <<>>
      /\ \A i \in 1..Len(s) : t[i] = s[i]
      /\ t[Len(s) + 1] = e
  BY AppendProperties
<1>2. DOMAIN s = 1..Len(s) /\ DOMAIN t = 1..(Len(s) + 1) /\ Len(s) \in Nat
  BY <1>1
<1> HIDE DEF t
<1>3. Elements(t) = Elements(s) \cup {e}
  BY <1>1, <1>2 DEF Elements
<1>4. ASSUME Ordered(s), \A m \in Elements(s) : m < e PROVE Ordered(t)
  <2> SUFFICES ASSUME NEW i \in DOMAIN t, NEW j \in DOMAIN t, i < j PROVE t[i] < t[j]
    BY DEF Ordered
  <2>1. i \in DOMAIN s /\ t[i] = s[i]
    BY <1>1, <1>2
  <2>2. CASE j \in DOMAIN s
    BY <1>1, <1>2, <1>4, <2>1, <2>2 DEF Ordered
  <2>3. CASE j = Len(s) + 1
    BY <1>1, <1>4, <2>1, <2>3 DEF Elements
  <2> QED BY <1>2, <2>2, <2>3
<1> QED BY <1>1, <1>3, <1>4 DEF t

(* The record at the front of a sequence, and the others.                  *)
LEMMA AtTheFront ==
  ASSUME NEW s \in Seq(Nat), s # <<>>
  PROVE  /\ Head(s) \in Nat /\ Tail(s) \in Seq(Nat) /\ Len(Tail(s)) = Len(s) - 1
         /\ Elements(s) = Elements(Tail(s)) \cup {Head(s)}
         /\ Ordered(s) => Ordered(Tail(s)) /\ \A m \in Elements(Tail(s)) : Head(s) < m
<1> DEFINE t == Tail(s)
<1>1. /\ t \in Seq(Nat) /\ Len(t) = Len(s) - 1 /\ Head(s) = s[1] /\ Head(s) \in Nat
      /\ \A i \in 1..Len(t) : t[i] = s[i + 1]
  OBVIOUS
<1>2. DOMAIN s = 1..Len(s) /\ DOMAIN t = 1..(Len(s) - 1) /\ Len(s) \in Nat /\ Len(s) # 0
  BY <1>1
<1> HIDE DEF t
<1>3. Elements(s) = Elements(t) \cup {s[1]}
  <2>1. Elements(t) \subseteq Elements(s) /\ s[1] \in Elements(s)
    <3>1. \A i \in DOMAIN t : i + 1 \in DOMAIN s /\ t[i] = s[i + 1]
      BY <1>1, <1>2
    <3>2. 1 \in DOMAIN s
      BY <1>2
    <3> QED BY <3>1, <3>2 DEF Elements
  <2>2. ASSUME NEW i \in 1..Len(s) PROVE s[i] \in Elements(t) \cup {s[1]}
    <3>1. CASE i = 1
      BY <3>1
    <3>2. CASE i # 1
      <4>1. i - 1 \in DOMAIN t /\ t[i - 1] = s[i]
        BY <1>1, <1>2, <3>2
      <4> QED BY <4>1 DEF Elements
    <3> QED BY <3>1, <3>2
  <2> QED BY <1>2, <2>1, <2>2 DEF Elements
<1>4. ASSUME Ordered(s) PROVE Ordered(t) /\ \A m \in Elements(t) : s[1] < m
  <2>1. \A i \in DOMAIN t : i + 1 \in DOMAIN s /\ t[i] = s[i + 1] /\ 1 < i + 1
    BY <1>1, <1>2
  <2>2. 1 \in DOMAIN s
    BY <1>2
  <2>3. \A m \in Elements(t) : s[1] < m
    BY <1>4, <2>1, <2>2 DEF Ordered, Elements
  <2>4. ASSUME NEW i \in DOMAIN t, NEW j \in DOMAIN t, i < j PROVE t[i] < t[j]
    <3>1. i + 1 < j + 1
      BY <1>2, <2>4
    <3> QED BY <1>4, <2>1, <3>1 DEF Ordered
  <2> QED BY <2>3, <2>4 DEF Ordered
<1> QED BY <1>1, <1>3, <1>4 DEF t

(* One sequence after another.                                             *)
LEMMA Joined ==
  ASSUME NEW a \in Seq(Nat), NEW b \in Seq(Nat)
  PROVE  /\ a \o b \in Seq(Nat)
         /\ Elements(a \o b) = Elements(a) \cup Elements(b)
         /\ Ordered(a) /\ Ordered(b) /\ Below(a, b) => Ordered(a \o b)
<1> DEFINE t == a \o b
<1>1. /\ t \in Seq(Nat) /\ Len(t) = Len(a) + Len(b)
      /\ \A i \in 1..Len(t) : t[i] = IF i <= Len(a) THEN a[i] ELSE b[i - Len(a)]
  OBVIOUS
<1>2. /\ DOMAIN a = 1..Len(a) /\ DOMAIN b = 1..Len(b) /\ DOMAIN t = 1..(Len(a) + Len(b))
      /\ Len(a) \in Nat /\ Len(b) \in Nat
  BY <1>1
<1> HIDE DEF t
<1>3. \A i \in DOMAIN a : i \in DOMAIN t /\ t[i] = a[i]
  BY <1>1, <1>2
<1>4. ASSUME NEW i \in DOMAIN b PROVE i + Len(a) \in DOMAIN t /\ t[i + Len(a)] = b[i]
  <2>1. /\ i + Len(a) \in 1..Len(t) /\ ~(i + Len(a) <= Len(a))
        /\ (i + Len(a)) - Len(a) = i
    BY <1>1, <1>2
  <2> QED BY <1>1, <1>2, <2>1
<1>5. \A i \in DOMAIN t : IF i <= Len(a) THEN i \in DOMAIN a /\ t[i] = a[i]
                          ELSE i - Len(a) \in DOMAIN b /\ t[i] = b[i - Len(a)]
  BY <1>1, <1>2
<1>6. Elements(t) = Elements(a) \cup Elements(b)
  BY <1>3, <1>4, <1>5 DEF Elements
<1>7. ASSUME Ordered(a), Ordered(b), Below(a, b), NEW i \in DOMAIN t, NEW j \in DOMAIN t, i < j
      PROVE  t[i] < t[j]
  <2>1. CASE j <= Len(a)
    BY <1>2, <1>5, <1>7, <2>1 DEF Ordered
  <2>2. CASE i > Len(a)
    <3>1. i - Len(a) \in DOMAIN b /\ j - Len(a) \in DOMAIN b /\ i - Len(a) < j - Len(a)
          /\ t[i] = b[i - Len(a)] /\ t[j] = b[j - Len(a)]
      BY <1>2, <1>5, <1>7, <2>2
    <3> QED BY <1>7, <3>1 DEF Ordered
  <2>3. CASE i <= Len(a) /\ j > Len(a)
    <3>1. t[i] \in Elements(a) /\ t[j] \in Elements(b)
      BY <1>2, <1>5, <1>7, <2>3 DEF Elements
    <3> QED BY <1>7, <3>1 DEF Below
  <2> QED BY <1>2, <1>7, <2>1, <2>2, <2>3
<1>8. Ordered(a) /\ Ordered(b) /\ Below(a, b) => Ordered(t)
  BY <1>7 DEF Ordered
<1> QED BY <1>1, <1>6, <1>8 DEF t

(* The elements of a sequence of records are records.                      *)
LEMMA ElementsAreRecords == \A s \in Seq(Nat) : Elements(s) \subseteq Nat
BY DEF Elements
-----------------------------------------------------------------------------
(* A batch leaves for the collector.                                       *)
LEMMA ExportType ==
  ASSUME TypeOK, NEW records \in Seq(Nat), NEW sending, Export(records, sending)
  PROVE  inflight' \in Seq(Nat) /\ batch' \in Seq(Nat) /\ attempt' \in 0..MaxAttempts /\ pc' = sending
BY PipelineAssumption DEF Export

(* The pipeline starts well-typed.                                         *)
LEMMA TypeInit == Init => TypeOK
<1> SUFFICES ASSUME Init PROVE TypeOK
  OBVIOUS
<1>1. <<>> \in Seq(Nat) /\ Len(<<>>) = 0 /\ 0 <= MaxQueue /\ 0 \in 0..MaxAttempts
  BY PipelineAssumption
<1>2. dropped \in [Reasons -> SUBSET Nat]
  BY DEF Init
<1>3. queue \in Seq(Nat) /\ Len(queue) <= MaxQueue
  BY <1>1 DEF Init
<1>4. /\ next \in Nat \ {0} /\ batch \in Seq(Nat) /\ inflight \in Seq(Nat) /\ delivered \in Seq(Nat)
      /\ before \in Nat /\ attempt \in 0..MaxAttempts /\ pc = "select"
  BY <1>1 DEF Init
<1>5. {delivering, cancelled, returned, overrun, exited} \subseteq BOOLEAN
  BY DEF Init
<1> QED BY <1>2, <1>3, <1>4, <1>5 DEF TypeOK, Retrying

(* Every step keeps the types.                                             *)
LEMMA TypeNext == TypeOK /\ [Next]_vars => TypeOK'
<1> SUFFICES ASSUME TypeOK, [Next]_vars PROVE TypeOK'
  OBVIOUS
<1>1. CASE Enqueue
  <2>1. Append(queue, next) \in Seq(Nat) /\ Len(Append(queue, next)) = Len(queue) + 1
        /\ Len(queue) \in Nat
    BY AtTheEnd DEF TypeOK
  <2>2. queue' \in Seq(Nat) /\ Len(queue') <= MaxQueue
    <3>1. CASE UNCHANGED queue
      BY <3>1 DEF TypeOK
    <3>2. CASE Len(queue) < MaxQueue /\ queue' = Append(queue, next)
      BY <2>1, <3>2, PipelineAssumption
    <3> QED BY <1>1, <3>1, <3>2 DEF Enqueue
  <2>3. dropped' \in [Reasons -> SUBSET Nat] /\ next' \in Nat \ {0}
    BY <1>1 DEF Enqueue, TypeOK, Count, Reasons
  <2> QED BY <1>1, <2>2, <2>3 DEF Enqueue, TypeOK, Retrying, task, ending
<1>2. CASE StopReceiving
  BY <1>2 DEF StopReceiving, TypeOK, Retrying, outcome, ending
<1>3. CASE Timer
  <2>1. inflight' \in Seq(Nat) /\ batch' \in Seq(Nat) /\ attempt' \in 0..MaxAttempts /\ pc' = "sending"
    BY <1>3, ExportType DEF Timer, TypeOK
  <2> QED BY <1>3, <2>1 DEF Timer, TypeOK, Retrying, outcome, ending
<1>4. CASE Receive
  <2>1. /\ Tail(queue) \in Seq(Nat) /\ Len(Tail(queue)) = Len(queue) - 1 /\ Len(queue) \in Nat
        /\ Append(batch, Head(queue)) \in Seq(Nat)
    BY <1>4, AtTheFront, AtTheEnd DEF Receive, TypeOK
  <2>2. queue' \in Seq(Nat) /\ Len(queue') <= MaxQueue
    BY <1>4, <2>1, PipelineAssumption DEF Receive, TypeOK
  <2>3. CASE Export(Append(batch, Head(queue)), "sending")
    <3>1. inflight' \in Seq(Nat) /\ batch' \in Seq(Nat) /\ attempt' \in 0..MaxAttempts
          /\ pc' = "sending"
      BY <2>1, <2>3, ExportType
    <3> QED BY <1>4, <2>2, <3>1 DEF Receive, TypeOK, Retrying, outcome, ending
  <2>4. CASE batch' = Append(batch, Head(queue)) /\ UNCHANGED <<inflight, attempt, pc>>
    BY <1>4, <2>1, <2>2, <2>4 DEF Receive, TypeOK, Retrying, outcome, ending
  <2> QED BY <1>4, <2>3, <2>4 DEF Receive
<1>5. CASE Drain
  <2>1. CASE queue # <<>> /\ queue' = Tail(queue) /\ batch' = Append(batch, Head(queue))
             /\ UNCHANGED <<inflight, attempt, pc>>
    <3>1. /\ Tail(queue) \in Seq(Nat) /\ Len(Tail(queue)) = Len(queue) - 1 /\ Len(queue) \in Nat
          /\ Append(batch, Head(queue)) \in Seq(Nat)
      BY <2>1, AtTheFront, AtTheEnd DEF TypeOK
    <3>2. queue' \in Seq(Nat) /\ Len(queue') <= MaxQueue
      BY <2>1, <3>1, PipelineAssumption DEF TypeOK
    <3> QED BY <1>5, <2>1, <3>1, <3>2 DEF Drain, TypeOK, Retrying, outcome, ending
  <2>2. CASE Export(batch, "flushing") /\ UNCHANGED queue
    <3>1. inflight' \in Seq(Nat) /\ batch' \in Seq(Nat) /\ attempt' \in 0..MaxAttempts
          /\ pc' = "flushing"
      BY <2>2, ExportType DEF TypeOK
    <3> QED BY <1>5, <2>2, <3>1 DEF Drain, TypeOK, Retrying, outcome, ending
  <2>3. CASE pc' = "done" /\ UNCHANGED <<queue, batch, inflight, attempt>>
    BY <1>5, <2>3 DEF Drain, TypeOK, Retrying, outcome, ending
  <2> QED BY <1>5, <2>1, <2>2, <2>3 DEF Drain
<1>6. CASE Delivered \/ Rejected \/ Unreachable
  <2>1. /\ inflight' = <<>> /\ pc' \in {"done", "select"}
        /\ UNCHANGED <<next, queue, batch, attempt, ending>>
    BY <1>6 DEF Delivered, Rejected, Unreachable, Finish
  <2>2. delivered' \in Seq(Nat) /\ delivering' \in BOOLEAN
    BY <1>6, Joined DEF Delivered, Rejected, Unreachable, TypeOK
  <2>3. dropped' \in [Reasons -> SUBSET Nat]
    BY <1>6, ElementsAreRecords DEF Delivered, Rejected, Unreachable, TypeOK, Count, Reasons
  <2> QED BY <2>1, <2>2, <2>3 DEF TypeOK, Retrying, ending
<1>7. CASE Wait
  BY <1>7 DEF Wait, TypeOK, Retrying, Sending, outcome, ending
<1>8. CASE Retry
  <2>1. attempt' \in 0..MaxAttempts
    BY <1>8, PipelineAssumption DEF Retry, TypeOK
  <2> QED BY <1>8, <2>1 DEF Retry, TypeOK, Retrying, outcome, ending
<1>9. CASE Shutdown
  BY <1>9 DEF Shutdown, TypeOK, Retrying, task, outcome
<1>10. CASE Flushed
  BY <1>10 DEF Flushed, TypeOK, Retrying, task, outcome
<1>11. CASE Overrun
  <2>1. dropped' \in [Reasons -> SUBSET Nat]
    BY <1>11, ElementsAreRecords DEF Overrun, TypeOK, Count, Reasons
  <2> QED BY <1>11, <2>1 DEF Overrun, TypeOK, Retrying, task
<1>12. CASE Exit
  BY <1>12 DEF Exit, TypeOK, Retrying, task, outcome
<1>13. CASE UNCHANGED vars
  BY <1>13 DEF vars, TypeOK, Retrying, task, outcome, ending
<1> QED BY <1>1, <1>2, <1>3, <1>4, <1>5, <1>6, <1>7, <1>8, <1>9, <1>10, <1>11, <1>12, <1>13
        DEF Next, Collect, Send, End

(* TypeOK for every size of queue and batch (run_task, Exporter).          *)
THEOREM PipelineTypeCorrect == Spec => []TypeOK
BY TypeInit, TypeNext, PTL DEF Spec
-----------------------------------------------------------------------------
(* What the task holds where it is: a batch on its way is not empty and no *)
(* other one is being filled, the flush belongs to a shutdown, and while   *)
(* the process serves what is held is less than a full batch.              *)
ControlIInv ==
  /\ pc \in {"select", "drain", "done"} => inflight = <<>>
  /\ pc \in {"sending", "flushing", "retry_send", "retry_flush"} => batch = <<>> /\ inflight # <<>>
  /\ pc = "done" => batch = <<>>
  /\ pc \in {"drain", "flushing", "retry_flush", "done"} => cancelled
  /\ ~cancelled /\ batch # <<>> => Len(batch) < MaxBatch
  /\ BoundedBacklog

(* The task starts with nothing in hand.                                   *)
LEMMA ControlInit == Init => ControlIInv
<1>1. Init => Len(inflight) + Len(batch) = 0 /\ 0 <= IF MaxBatch = 0 THEN 1 ELSE MaxBatch
  BY PipelineAssumption DEF Init
<1> QED BY <1>1 DEF Init, ControlIInv, BoundedBacklog

(* A batch that is at most the limit leaves.                               *)
LEMMA ExportControl ==
  ASSUME TypeOK, NEW records \in Seq(Nat), records # <<>>, NEW sending \in {"sending", "flushing"},
         Export(records, sending), cancelled' = cancelled, sending = "flushing" => cancelled,
         ~cancelled => Len(records) <= IF MaxBatch = 0 THEN 1 ELSE MaxBatch
  PROVE  ControlIInv'
<1>1. inflight' = records /\ batch' = <<>> /\ pc' = sending
  BY DEF Export
<1>2. Len(inflight') + Len(batch') = Len(records)
  BY <1>1
<1> QED BY <1>1, <1>2 DEF ControlIInv, BoundedBacklog

(* Every step keeps what the task holds within its limits.                 *)
LEMMA ControlNext == TypeOK /\ ControlIInv /\ [Next]_vars => ControlIInv'
<1> SUFFICES ASSUME TypeOK, ControlIInv, [Next]_vars PROVE ControlIInv'
  OBVIOUS
<1>0. ASSUME UNCHANGED <<task, cancelled>> PROVE ControlIInv'
  BY <1>0 DEF ControlIInv, BoundedBacklog, task
<1>1. CASE Enqueue
  BY <1>0, <1>1 DEF Enqueue, ending
<1>2. CASE StopReceiving
  BY <1>2 DEF StopReceiving, ControlIInv, BoundedBacklog, ending
<1>3. CASE Timer
  <2>1. Len(inflight) = 0 /\ Len(batch) \in Nat
    BY <1>3 DEF Timer, ControlIInv, TypeOK
  <2>2. Len(batch) <= IF MaxBatch = 0 THEN 1 ELSE MaxBatch
    BY <1>3, <2>1 DEF Timer, ControlIInv, BoundedBacklog
  <2> QED BY <1>3, <2>2, ExportControl DEF Timer, TypeOK, ending
<1>4. CASE Receive
  <2> DEFINE filled == Append(batch, Head(queue))
  <2>1. filled \in Seq(Nat) /\ filled # <<>> /\ Len(filled) = Len(batch) + 1 /\ Len(batch) \in Nat
    <3>1. Head(queue) \in Nat /\ batch \in Seq(Nat)
      BY <1>4, AtTheFront DEF Receive, TypeOK
    <3> QED BY <3>1, AtTheEnd
  <2>2. ~cancelled /\ cancelled' = cancelled /\ pc = "select" /\ inflight = <<>>
    BY <1>4 DEF Receive, ControlIInv, ending
  <2>3. Len(batch) = 0 \/ Len(batch) < MaxBatch
    BY <2>2 DEF ControlIInv, TypeOK
  <2>4. Len(filled) <= IF MaxBatch = 0 THEN 1 ELSE MaxBatch
    BY <2>1, <2>3, PipelineAssumption
  <2> HIDE DEF filled
  <2>5. CASE Export(filled, "sending")
    BY <2>1, <2>2, <2>4, <2>5, ExportControl
  <2>6. CASE Len(filled) < MaxBatch /\ batch' = filled /\ UNCHANGED <<inflight, attempt, pc>>
    <3>1. Len(inflight') + Len(batch') = Len(filled)
      BY <2>1, <2>2, <2>6
    <3> QED BY <2>2, <2>4, <2>6, <3>1 DEF ControlIInv, BoundedBacklog
  <2> QED BY <1>4, <2>5, <2>6 DEF Receive, filled
<1>5. CASE Drain
  <2>1. cancelled' = cancelled /\ cancelled /\ pc = "drain" /\ inflight = <<>>
    BY <1>5 DEF Drain, ControlIInv, ending
  <2>2. CASE Export(batch, "flushing") /\ batch # <<>>
    BY <2>1, <2>2, ExportControl DEF TypeOK
  <2>3. CASE UNCHANGED <<inflight, attempt, pc>>
    BY <2>1, <2>3 DEF ControlIInv, BoundedBacklog
  <2>4. CASE pc' = "done" /\ batch = <<>> /\ UNCHANGED <<queue, batch, inflight, attempt>>
    BY <2>1, <2>4 DEF ControlIInv, BoundedBacklog
  <2> QED BY <1>5, <2>2, <2>3, <2>4 DEF Drain
<1>6. CASE Delivered \/ Rejected \/ Unreachable
  <2>1. Sending /\ Finish
    BY <1>6 DEF Delivered, Rejected, Unreachable
  <2>2. /\ inflight' = <<>> /\ batch' = batch /\ batch = <<>> /\ cancelled' = cancelled
        /\ pc' \in {"done", "select"} /\ (pc' = "done" => cancelled)
    BY <2>1 DEF Sending, Finish, ControlIInv, ending
  <2>3. Len(inflight') + Len(batch') = 0 /\ 0 <= IF MaxBatch = 0 THEN 1 ELSE MaxBatch
    BY <2>2, PipelineAssumption
  <2> QED BY <2>2, <2>3 DEF ControlIInv, BoundedBacklog
<1>7. CASE Wait \/ Retry
  BY <1>7 DEF Wait, Retry, Sending, Retrying, ControlIInv, BoundedBacklog, ending
<1>8. CASE Shutdown
  BY <1>8 DEF Shutdown, ControlIInv, BoundedBacklog, task
<1>9. CASE Flushed \/ Overrun \/ Exit
  BY <1>0, <1>9 DEF Flushed, Overrun, Exit
<1>10. CASE UNCHANGED vars
  BY <1>0, <1>10 DEF vars, ending
<1> QED BY <1>1, <1>2, <1>3, <1>4, <1>5, <1>6, <1>7, <1>8, <1>9, <1>10 DEF Next, Collect, Send, End

(* BoundedBacklog for every size of the batch, 0 included (run_task).      *)
THEOREM MemoryIsBounded == Spec => []BoundedBacklog
<1>1. Spec => [](TypeOK /\ ControlIInv)
  BY TypeInit, TypeNext, ControlInit, ControlNext, PTL DEF Spec
<1>2. ControlIInv => BoundedBacklog
  BY DEF ControlIInv
<1> QED BY <1>1, <1>2, PTL
-----------------------------------------------------------------------------
(* Delivered, request, batch and queue: each in order, and each before the *)
(* ones that come after it.                                                *)
LineIInv ==
  /\ Ordered(delivered) /\ Ordered(inflight) /\ Ordered(batch) /\ Ordered(queue)
  /\ Below(delivered, inflight) /\ Below(delivered, batch) /\ Below(delivered, queue)
  /\ Below(inflight, batch) /\ Below(inflight, queue) /\ Below(batch, queue)
  /\ \A n \in Elements(delivered) \cup OnItsWay : n < next

(* An empty line is in order.                                              *)
LEMMA LineInit == Init => LineIInv
BY NoElement DEF Init, LineIInv, Below, OnItsWay

(* A batch leaves: nothing changes place in the line.                      *)
LEMMA ExportLine ==
  ASSUME LineIInv, inflight = <<>>, NEW records, NEW sending, Export(records, sending),
         delivered' = delivered, next' = next, Ordered(records), Ordered(queue'),
         Below(delivered, records), Below(records, queue'), Elements(queue') \subseteq Elements(queue),
         \A n \in Elements(records) : n < next
  PROVE  LineIInv' /\ OnItsWay' = Elements(records) \cup Elements(queue')
<1>1. inflight' = records /\ batch' = <<>>
  BY DEF Export
<1>2. Ordered(delivered)' /\ Ordered(inflight)' /\ Ordered(batch)' /\ Ordered(queue)'
  BY <1>1, NoElement DEF LineIInv, Ordered
<1>3. Elements(delivered)' = Elements(delivered) /\ Elements(inflight)' = Elements(records)
      /\ Elements(batch)' = {} /\ Elements(queue)' = Elements(queue')
  BY <1>1, NoElement DEF Elements
<1>4. /\ Below(delivered, inflight)' /\ Below(delivered, batch)' /\ Below(delivered, queue)'
      /\ Below(inflight, batch)' /\ Below(inflight, queue)' /\ Below(batch, queue)'
  BY <1>3 DEF LineIInv, Below
<1>5. OnItsWay' = Elements(records) \cup Elements(queue')
  BY <1>3 DEF OnItsWay
<1>6. \A n \in (Elements(delivered) \cup OnItsWay)' : n < next'
  BY <1>3, <1>5 DEF LineIInv, OnItsWay
<1> QED BY <1>2, <1>4, <1>5, <1>6 DEF LineIInv

(* The task moves the oldest record of the queue behind the batch.         *)
LEMMA TakeOne ==
  ASSUME TypeOK, LineIInv, queue # <<>>
  PROVE  LET filled == Append(batch, Head(queue))
         IN /\ filled \in Seq(Nat) /\ Ordered(filled) /\ Ordered(Tail(queue))
            /\ Below(delivered, filled) /\ Below(filled, Tail(queue))
            /\ Below(inflight, filled) /\ Below(inflight, Tail(queue))
            /\ Below(delivered, Tail(queue))
            /\ Elements(Tail(queue)) \subseteq Elements(queue)
            /\ Elements(filled) \cup Elements(Tail(queue)) = Elements(batch) \cup Elements(queue)
<1> DEFINE filled == Append(batch, Head(queue))
           rest == Tail(queue)
<1>1. /\ Head(queue) \in Nat /\ Elements(queue) = Elements(rest) \cup {Head(queue)}
      /\ Ordered(rest) /\ \A m \in Elements(rest) : Head(queue) < m
  BY AtTheFront DEF TypeOK, LineIInv
<1>2. \A m \in Elements(batch) : m < Head(queue)
  BY <1>1 DEF LineIInv, Below
<1>3. filled \in Seq(Nat) /\ Elements(filled) = Elements(batch) \cup {Head(queue)} /\ Ordered(filled)
  BY <1>1, <1>2, AtTheEnd DEF TypeOK, LineIInv
<1> HIDE DEF filled, rest
<1>4. Below(delivered, filled) /\ Below(filled, rest) /\ Below(inflight, filled)
      /\ Below(inflight, rest) /\ Below(delivered, rest)
  BY <1>1, <1>3 DEF LineIInv, Below
<1> QED BY <1>1, <1>3, <1>4 DEF filled, rest

(* Taking records off the queue changes no record's place in the line.     *)
LEMMA CollectLine ==
  ASSUME TypeOK, ControlIInv, LineIInv, Collect
  PROVE  LineIInv' /\ OnItsWay' = OnItsWay /\ UNCHANGED <<next, outcome, ending>>
<1>0. UNCHANGED <<next, outcome, ending>> /\ delivered' = delivered /\ next' = next
  BY DEF Collect, StopReceiving, Timer, Receive, Drain, outcome
<1>1. inflight = <<>> /\ Elements(inflight) = {}
  BY NoElement DEF Collect, StopReceiving, Timer, Receive, Drain, ControlIInv
<1>2. ASSUME UNCHANGED <<queue, batch, inflight>> PROVE LineIInv' /\ OnItsWay' = OnItsWay
  BY <1>0, <1>2 DEF LineIInv, OnItsWay, Below, Ordered, Elements
<1>3. ASSUME NEW sending, Export(batch, sending), UNCHANGED queue
      PROVE  LineIInv' /\ OnItsWay' = OnItsWay
  <2>1. Ordered(queue') /\ Below(batch, queue') /\ Elements(queue') = Elements(queue)
    BY <1>3 DEF LineIInv, Ordered, Below, Elements
  <2>2. LineIInv' /\ OnItsWay' = Elements(batch) \cup Elements(queue')
    BY <1>0, <1>1, <1>3, <2>1, ExportLine DEF LineIInv, OnItsWay
  <2> QED BY <1>1, <2>1, <2>2 DEF OnItsWay
<1> DEFINE filled == Append(batch, Head(queue))
<1>4. ASSUME queue # <<>>, queue' = Tail(queue), Export(filled, "sending")
      PROVE  LineIInv' /\ OnItsWay' = OnItsWay
  <2>1. /\ Ordered(filled) /\ Ordered(queue') /\ Below(delivered, filled) /\ Below(filled, queue')
        /\ Elements(queue') \subseteq Elements(queue)
        /\ Elements(filled) \cup Elements(queue') = Elements(batch) \cup Elements(queue)
    BY <1>4, TakeOne
  <2> HIDE DEF filled
  <2>2. \A n \in Elements(filled) : n < next
    BY <2>1 DEF LineIInv, OnItsWay
  <2>3. LineIInv' /\ OnItsWay' = Elements(filled) \cup Elements(queue')
    BY <1>0, <1>1, <1>4, <2>1, <2>2, ExportLine
  <2> QED BY <1>1, <2>1, <2>3 DEF OnItsWay
<1>5. ASSUME queue # <<>>, queue' = Tail(queue), batch' = filled, UNCHANGED <<inflight, attempt, pc>>
      PROVE  LineIInv' /\ OnItsWay' = OnItsWay
  <2>1. /\ Ordered(batch') /\ Ordered(queue') /\ Below(delivered, batch') /\ Below(batch', queue')
        /\ Below(inflight, batch') /\ Below(inflight, queue') /\ Below(delivered, queue')
        /\ Elements(batch') \cup Elements(queue') = Elements(batch) \cup Elements(queue)
    BY <1>5, TakeOne
  <2>2. OnItsWay' = OnItsWay /\ Elements(delivered)' = Elements(delivered)
        /\ Elements(inflight)' = Elements(inflight)
    BY <1>0, <1>5, <2>1 DEF OnItsWay, Elements
  <2>3. Below(delivered, inflight)' /\ Ordered(delivered)' /\ Ordered(inflight)'
    BY <1>0, <1>5 DEF LineIInv, Below, Ordered, Elements
  <2>4. /\ Below(delivered, batch)' /\ Below(delivered, queue)' /\ Below(inflight, batch)'
        /\ Below(inflight, queue)' /\ Below(batch, queue)' /\ Ordered(batch)' /\ Ordered(queue)'
    BY <2>1, <2>2 DEF Below, Ordered
  <2> QED BY <1>0, <2>2, <2>3, <2>4 DEF LineIInv
<1>6. CASE StopReceiving
  BY <1>0, <1>2, <1>6 DEF StopReceiving
<1>7. CASE Timer
  BY <1>0, <1>3, <1>7 DEF Timer
<1>8. CASE Receive
  BY <1>0, <1>4, <1>5, <1>8 DEF Receive
<1>9. CASE Drain
  BY <1>0, <1>2, <1>3, <1>5, <1>9 DEF Drain
<1> QED BY <1>0, <1>6, <1>7, <1>8, <1>9 DEF Collect

(* A new record is younger than every other.                               *)
LEMMA EnqueueLine ==
  ASSUME TypeOK, LineIInv, Enqueue
  PROVE  LineIInv'
<1>1. next \in Nat /\ next' = next + 1 /\ UNCHANGED <<batch, inflight, delivered>>
  BY DEF Enqueue, TypeOK, task
<1>2. Elements(delivered) \cup OnItsWay \subseteq Nat
  BY ElementsAreRecords DEF TypeOK, OnItsWay
<1>3. /\ Ordered(queue') /\ Elements(queue') \subseteq Elements(queue) \cup {next}
  <2>1. CASE UNCHANGED queue
    BY <2>1 DEF LineIInv, Ordered, Elements
  <2>2. CASE queue' = Append(queue, next)
    BY <1>1, <2>2, AtTheEnd DEF LineIInv, TypeOK, OnItsWay
  <2> QED BY <2>1, <2>2 DEF Enqueue
<1>4. /\ Elements(delivered)' = Elements(delivered) /\ Elements(inflight)' = Elements(inflight)
      /\ Elements(batch)' = Elements(batch) /\ Elements(queue)' = Elements(queue')
      /\ Ordered(delivered)' /\ Ordered(inflight)' /\ Ordered(batch)'
      /\ Below(delivered, inflight)' /\ Below(delivered, batch)' /\ Below(inflight, batch)'
  BY <1>1 DEF LineIInv, Elements, Ordered, Below
<1>5. Below(delivered, queue)' /\ Below(inflight, queue)' /\ Below(batch, queue)'
  BY <1>3, <1>4 DEF LineIInv, Below, OnItsWay
<1>6. \A n \in (Elements(delivered) \cup OnItsWay)' : n < next'
  BY <1>1, <1>2, <1>3, <1>4 DEF LineIInv, OnItsWay
<1> QED BY <1>3, <1>4, <1>5, <1>6 DEF LineIInv, Ordered

(* An export ends: its records are delivered, or leave the line.           *)
LEMMA EndLine ==
  ASSUME TypeOK, ControlIInv, LineIInv, Sending, Finish,
         delivered' \in {delivered, delivered \o inflight}
  PROVE  /\ LineIInv'
         /\ inflight' = <<>> /\ batch = <<>> /\ inflight # <<>>
         /\ OnItsWay = Elements(inflight) \cup Elements(queue) /\ OnItsWay' = Elements(queue)
         /\ Elements(delivered)' = Elements(delivered)
              \cup (IF delivered' = delivered THEN {} ELSE Elements(inflight))
<1>1. /\ inflight' = <<>> /\ batch' = batch /\ batch = <<>> /\ inflight # <<>>
      /\ queue' = queue /\ next' = next
  BY DEF Sending, Finish, ControlIInv
<1>2. Elements(inflight)' = {} /\ Elements(batch)' = {} /\ Elements(batch) = {}
      /\ Elements(queue)' = Elements(queue) /\ Ordered(inflight)' /\ Ordered(batch)' /\ Ordered(queue)'
  BY <1>1, NoElement DEF Elements, LineIInv, Ordered
<1>3. OnItsWay = Elements(inflight) \cup Elements(queue) /\ OnItsWay' = Elements(queue)
  BY <1>2 DEF OnItsWay
<1>4. /\ Ordered(delivered)'
      /\ Elements(delivered)' = Elements(delivered)
           \cup (IF delivered' = delivered THEN {} ELSE Elements(inflight))
  <2>1. CASE delivered' = delivered
    BY <2>1 DEF LineIInv, Elements, Ordered
  <2>2. CASE delivered' # delivered /\ delivered' = delivered \o inflight
    <3>1. Ordered(delivered \o inflight)
          /\ Elements(delivered \o inflight) = Elements(delivered) \cup Elements(inflight)
      BY Joined DEF TypeOK, LineIInv
    <3> QED BY <2>2, <3>1 DEF Elements, Ordered
  <2> QED BY <2>1, <2>2
<1>5. /\ Below(delivered, inflight)' /\ Below(delivered, batch)' /\ Below(delivered, queue)'
      /\ Below(inflight, batch)' /\ Below(inflight, queue)' /\ Below(batch, queue)'
  BY <1>2, <1>4 DEF LineIInv, Below
<1>6. \A n \in (Elements(delivered) \cup OnItsWay)' : n < next'
  BY <1>1, <1>3, <1>4 DEF LineIInv
<1> QED BY <1>1, <1>2, <1>3, <1>4, <1>5, <1>6 DEF LineIInv

(* Every step keeps the line in order.                                     *)
LEMMA LineNext == TypeOK /\ ControlIInv /\ LineIInv /\ [Next]_vars => LineIInv'
<1> SUFFICES ASSUME TypeOK, ControlIInv, LineIInv, [Next]_vars PROVE LineIInv'
  OBVIOUS
<1>1. CASE Enqueue
  BY <1>1, EnqueueLine
<1>2. CASE Collect
  BY <1>2, CollectLine
<1>3. CASE Delivered \/ Rejected \/ Unreachable
  BY <1>3, EndLine DEF Delivered, Rejected, Unreachable
<1>4. ASSUME UNCHANGED <<next, queue, batch, inflight, delivered>> PROVE LineIInv'
  BY <1>4 DEF LineIInv, OnItsWay, Below, Ordered, Elements
<1>5. CASE Wait \/ Retry
  BY <1>4, <1>5 DEF Wait, Retry, outcome
<1>6. CASE Shutdown \/ Flushed \/ Overrun \/ Exit
  BY <1>4, <1>6 DEF Shutdown, Flushed, Overrun, Exit, outcome, task
<1>7. CASE UNCHANGED vars
  BY <1>4, <1>7 DEF vars, outcome, task
<1> QED BY <1>1, <1>2, <1>3, <1>5, <1>6, <1>7 DEF Next, Send, End

(* InOrder for every size and every run of answers (run_task).             *)
THEOREM DeliveryKeepsOrder == Spec => []InOrder
<1>1. Spec => [](TypeOK /\ ControlIInv /\ LineIInv)
  BY TypeInit, TypeNext, ControlInit, ControlNext, LineInit, LineNext, PTL DEF Spec
<1>2. TypeOK /\ LineIInv => InOrder
  <2> SUFFICES ASSUME TypeOK, LineIInv PROVE InOrder
    OBVIOUS
  <2> DEFINE one == delivered \o inflight
             two == one \o batch
             three == two \o queue
  <2>1. one \in Seq(Nat) /\ Elements(one) = Elements(delivered) \cup Elements(inflight) /\ Ordered(one)
    BY Joined DEF TypeOK, LineIInv
  <2> HIDE DEF one
  <2>2. Below(one, batch) /\ Below(one, queue)
    BY <2>1 DEF LineIInv, Below
  <2>3. two \in Seq(Nat) /\ Elements(two) = Elements(one) \cup Elements(batch) /\ Ordered(two)
    BY <2>1, <2>2, Joined DEF TypeOK, LineIInv
  <2> HIDE DEF two
  <2>4. Below(two, queue)
    BY <2>2, <2>3 DEF LineIInv, Below
  <2>5. Ordered(three)
    BY <2>3, <2>4, Joined DEF TypeOK, LineIInv
  <2> QED BY <2>5 DEF InOrder, Ordered, one, two
<1> QED BY <1>1, <1>2, PTL
-----------------------------------------------------------------------------
(* Every record is in one place, and what is still in the channel once the *)
(* flush has stopped reading it came after the shutdown began.             *)
PlaceIInv ==
  /\ EachInOnePlace
  /\ cancelled => before < next
  /\ pc \in {"flushing", "retry_flush", "done"} => \A n \in Elements(queue) : before < n
  /\ returned => cancelled
  /\ returned /\ ~overrun => pc = "done"

(* Before the first record none is anywhere.                               *)
LEMMA PlaceInit == Init => PlaceIInv
<1> SUFFICES ASSUME Init PROVE PlaceIInv
  OBVIOUS
<1>1. Elements(delivered) = {} /\ OnItsWay = {}
  BY NoElement DEF Init, OnItsWay
<1>2. \A r \in Reasons : dropped[r] = {}
  BY DEF Init
<1>3. Counted = {} /\ Accounted = {}
  BY <1>1, <1>2 DEF Counted, Accounted
<1>4. 1..(next - 1) = {}
  BY DEF Init
<1> QED BY <1>1, <1>2, <1>3, <1>4 DEF Init, PlaceIInv, EachInOnePlace

(* Records counted under a reason.                                         *)
LEMMA CountedMore ==
  ASSUME TypeOK, NEW reason \in Reasons, NEW records, Count(reason, records)
  PROVE  /\ Counted' = Counted \cup records
         /\ dropped'[reason] = dropped[reason] \cup records
         /\ \A r \in Reasons \ {reason} : dropped'[r] = dropped[r]
<1>1. dropped'[reason] = dropped[reason] \cup records
      /\ \A r \in Reasons \ {reason} : dropped'[r] = dropped[r]
  BY DEF Count, TypeOK
<1> QED BY <1>1 DEF Counted

(* A new record is counted at once, or waits in the channel.               *)
LEMMA EnqueuePlaces ==
  ASSUME TypeOK, LineIInv, EachInOnePlace, Enqueue
  PROVE  EachInOnePlace'
<1> SUFFICES ASSUME ~overrun PROVE EachInOnePlace'
  BY DEF EachInOnePlace, Enqueue, ending
<1>1. /\ next \in Nat \ {0} /\ next' = next + 1 /\ overrun' = overrun
      /\ UNCHANGED <<batch, inflight, delivered>>
  BY DEF Enqueue, TypeOK, task, ending
<1>2. /\ 1..(next' - 1) = (1..(next - 1)) \cup {next} /\ next \notin 1..(next - 1)
  BY <1>1
<1>3. /\ 1..(next - 1) = Accounted \cup OnItsWay /\ Accounted \cap OnItsWay = {}
      /\ Elements(delivered) \cap Counted = {}
      /\ \A r, s \in Reasons : r # s => dropped[r] \cap dropped[s] = {}
  BY DEF EachInOnePlace
<1>4. Elements(delivered)' = Elements(delivered)
  BY <1>1 DEF Elements
<1>5. ASSUME NEW reason \in Reasons, Count(reason, {next}), UNCHANGED queue PROVE EachInOnePlace'
  <2>1. /\ Counted' = Counted \cup {next}
        /\ dropped'[reason] = dropped[reason] \cup {next}
        /\ \A r \in Reasons \ {reason} : dropped'[r] = dropped[r]
    BY <1>5, CountedMore
  <2>2. Accounted' = Accounted \cup {next} /\ OnItsWay' = OnItsWay
    BY <1>1, <1>4, <1>5, <2>1 DEF Accounted, OnItsWay, Elements
  <2>3. \A r \in Reasons : next \notin dropped[r]
    BY <1>2, <1>3 DEF Accounted, Counted
  <2>4. \A r, s \in Reasons : r # s => dropped'[r] \cap dropped'[s] = {}
    BY <1>3, <2>1, <2>3
  <2>5. Elements(delivered)' \cap Counted' = {}
    BY <1>2, <1>3, <1>4, <2>1 DEF Accounted
  <2>6. 1..(next' - 1) = Accounted' \cup OnItsWay' /\ Accounted' \cap OnItsWay' = {}
    BY <1>2, <1>3, <2>2
  <2> QED BY <2>4, <2>5, <2>6 DEF EachInOnePlace
<1>6. ASSUME queue' = Append(queue, next), UNCHANGED dropped PROVE EachInOnePlace'
  <2>1. Elements(queue)' = Elements(queue) \cup {next}
    <3>1. Elements(Append(queue, next)) = Elements(queue) \cup {next}
      BY <1>1, AtTheEnd DEF TypeOK
    <3> QED BY <1>6, <3>1 DEF Elements
  <2>2. Accounted' = Accounted /\ Counted' = Counted /\ OnItsWay' = OnItsWay \cup {next}
    BY <1>1, <1>4, <1>6, <2>1 DEF Accounted, Counted, OnItsWay, Elements
  <2>3. 1..(next' - 1) = Accounted' \cup OnItsWay' /\ Accounted' \cap OnItsWay' = {}
    BY <1>2, <1>3, <2>2
  <2> QED BY <1>3, <1>4, <1>6, <2>2, <2>3 DEF EachInOnePlace
<1> QED BY <1>5, <1>6 DEF Enqueue, Reasons

(* The records of an export are delivered or counted, all of them.         *)
LEMMA EndPlaces ==
  ASSUME TypeOK, ControlIInv, LineIInv, EachInOnePlace, Delivered \/ Rejected \/ Unreachable
  PROVE  EachInOnePlace'
<1> SUFFICES ASSUME ~overrun PROVE EachInOnePlace'
  BY DEF EachInOnePlace, Delivered, Rejected, Unreachable, Finish, ending
<1>1. /\ Sending /\ Finish /\ next' = next /\ delivered' \in {delivered, delivered \o inflight}
  BY DEF Delivered, Rejected, Unreachable, Finish
<1>2. /\ OnItsWay = Elements(inflight) \cup Elements(queue) /\ OnItsWay' = Elements(queue)
      /\ Elements(delivered)' = Elements(delivered)
           \cup (IF delivered' = delivered THEN {} ELSE Elements(inflight))
  BY <1>1, EndLine
<1>3. Elements(inflight) \cap Elements(queue) = {}
  BY ElementsAreRecords DEF LineIInv, Below, TypeOK
<1>4. /\ 1..(next - 1) = Accounted \cup OnItsWay /\ Accounted \cap OnItsWay = {}
      /\ Elements(delivered) \cap Counted = {}
      /\ \A r, s \in Reasons : r # s => dropped[r] \cap dropped[s] = {}
  BY DEF EachInOnePlace
<1>5. CASE Delivered
  <2>1. Elements(delivered)' = Elements(delivered) \cup Elements(inflight) /\ dropped' = dropped
    <3>1. delivered' = delivered \o inflight /\ dropped' = dropped
      BY <1>5 DEF Delivered
    <3>2. Elements(delivered \o inflight) = Elements(delivered) \cup Elements(inflight)
      BY Joined DEF TypeOK
    <3> QED BY <3>1, <3>2 DEF Elements
  <2>2. Counted' = Counted /\ Accounted' = Accounted \cup Elements(inflight)
    BY <2>1 DEF Counted, Accounted
  <2>3. Elements(delivered)' \cap Counted' = {}
    BY <1>2, <1>4, <2>1, <2>2 DEF Accounted
  <2>4. 1..(next' - 1) = Accounted' \cup OnItsWay' /\ Accounted' \cap OnItsWay' = {}
    BY <1>1, <1>2, <1>3, <1>4, <2>2
  <2> QED BY <1>4, <2>1, <2>3, <2>4 DEF EachInOnePlace
<1>6. ASSUME NEW reason \in Reasons, Count(reason, Elements(inflight)), delivered' = delivered
      PROVE  EachInOnePlace'
  <2>1. /\ Counted' = Counted \cup Elements(inflight)
        /\ dropped'[reason] = dropped[reason] \cup Elements(inflight)
        /\ \A r \in Reasons \ {reason} : dropped'[r] = dropped[r]
    BY <1>6, CountedMore
  <2>2. Elements(delivered)' = Elements(delivered)
    BY <1>6 DEF Elements
  <2>3. Accounted' = Accounted \cup Elements(inflight)
    BY <2>1, <2>2 DEF Accounted
  <2>4. \A r \in Reasons : dropped[r] \cap Elements(inflight) = {}
    BY <1>2, <1>4 DEF Accounted, Counted
  <2>5. \A r, s \in Reasons : r # s => dropped'[r] \cap dropped'[s] = {}
    BY <1>4, <2>1, <2>4
  <2>6. Elements(delivered)' \cap Counted' = {}
    BY <1>2, <1>4, <2>1, <2>2 DEF Accounted
  <2>7. 1..(next' - 1) = Accounted' \cup OnItsWay' /\ Accounted' \cap OnItsWay' = {}
    BY <1>1, <1>2, <1>3, <1>4, <2>3
  <2> QED BY <2>5, <2>6, <2>7 DEF EachInOnePlace
<1> QED BY <1>5, <1>6 DEF Rejected, Unreachable, Reasons

(* Every step keeps each record in one place.                              *)
LEMMA PlaceNext ==
  TypeOK /\ ControlIInv /\ LineIInv /\ PlaceIInv /\ [Next]_vars => PlaceIInv'
<1> SUFFICES ASSUME TypeOK, ControlIInv, LineIInv, PlaceIInv, [Next]_vars PROVE PlaceIInv'
  OBVIOUS
<1>0. EachInOnePlace /\ next \in Nat \ {0}
  BY DEF PlaceIInv, TypeOK
<1>1. CASE Enqueue
  <2>1. EachInOnePlace'
    BY <1>0, <1>1, EnqueuePlaces
  <2>2. /\ next' = next + 1 /\ UNCHANGED <<pc, cancelled, before, returned, overrun>>
        /\ Elements(queue') \subseteq Elements(queue) \cup {next}
    <3>1. Elements(Append(queue, next)) = Elements(queue) \cup {next}
      BY AtTheEnd DEF TypeOK
    <3> QED BY <1>1, <3>1 DEF Enqueue, task, ending
  <2>3. cancelled => before < next'
    BY <1>0, <2>2 DEF PlaceIInv, TypeOK
  <2>4. pc \in {"flushing", "retry_flush", "done"} => \A n \in Elements(queue') : before < n
    BY <2>2 DEF PlaceIInv, ControlIInv
  <2> QED BY <2>1, <2>2, <2>3, <2>4 DEF PlaceIInv, Elements
<1>2. CASE Collect
  <2>1. OnItsWay' = OnItsWay /\ UNCHANGED <<next, outcome, ending>>
    BY <1>2, CollectLine
  <2>2. EachInOnePlace'
    BY <1>0, <2>1 DEF EachInOnePlace, Accounted, Counted, Elements, outcome, ending
  <2>3. pc' \in {"flushing", "retry_flush", "done"} => queue' = <<>>
    BY <1>2 DEF Collect, StopReceiving, Timer, Receive, Drain, Export
  <2>4. pc # "done"
    BY <1>2 DEF Collect, StopReceiving, Timer, Receive, Drain
  <2> QED BY <2>1, <2>2, <2>3, <2>4, NoElement DEF PlaceIInv, ending
<1>3. CASE Delivered \/ Rejected \/ Unreachable
  <2>1. EachInOnePlace'
    BY <1>0, <1>3, EndPlaces
  <2>2. /\ Sending /\ UNCHANGED <<next, queue, ending>>
        /\ pc' = IF pc = "flushing" THEN "done" ELSE "select"
    BY <1>3 DEF Delivered, Rejected, Unreachable, Finish
  <2> QED BY <2>1, <2>2 DEF PlaceIInv, ending, Sending, Elements
<1>4. ASSUME UNCHANGED <<next, queue, batch, inflight, outcome, overrun>> PROVE EachInOnePlace'
  <2>1. Accounted' = Accounted /\ Counted' = Counted /\ OnItsWay' = OnItsWay
        /\ Elements(delivered)' = Elements(delivered)
    BY <1>4 DEF Accounted, Counted, OnItsWay, Elements, outcome
  <2> QED BY <1>0, <1>4, <2>1 DEF EachInOnePlace, outcome
<1>5. CASE Wait \/ Retry
  BY <1>4, <1>5 DEF Wait, Retry, PlaceIInv, Sending, Retrying, ending, Elements
<1>6. CASE Shutdown
  <2>1. UNCHANGED <<next, queue, task, outcome, returned, overrun>> /\ before' = next - 1
        /\ ~cancelled /\ cancelled'
    BY <1>6 DEF Shutdown
  <2>2. pc \notin {"flushing", "retry_flush", "done"} /\ ~returned /\ before' < next'
    BY <1>0, <2>1 DEF ControlIInv, PlaceIInv
  <2> QED BY <1>4, <2>1, <2>2 DEF PlaceIInv, task
<1>7. CASE Flushed
  BY <1>4, <1>7 DEF Flushed, PlaceIInv, task, Elements
<1>8. CASE Overrun
  BY <1>8 DEF Overrun, PlaceIInv, EachInOnePlace, task, Elements
<1>9. CASE Exit
  BY <1>4, <1>9 DEF Exit, PlaceIInv, task, Elements
<1>10. CASE UNCHANGED vars
  BY <1>4, <1>10 DEF vars, PlaceIInv, task, ending, Elements
<1> QED BY <1>1, <1>2, <1>3, <1>5, <1>6, <1>7, <1>8, <1>9, <1>10 DEF Next, Send, End

(* The types and these three layers hold in every behaviour.               *)
LEMMA PlaceInvariant == Spec => [](TypeOK /\ ControlIInv /\ LineIInv /\ PlaceIInv)
BY TypeInit, TypeNext, ControlInit, ControlNext, LineInit, LineNext, PlaceInit, PlaceNext, PTL
   DEF Spec

(* EachInOnePlace for every size and every run of answers (DropReason).    *)
THEOREM NoRecordTwice == Spec => []EachInOnePlace
<1>1. PlaceIInv => EachInOnePlace
  BY DEF PlaceIInv
<1> QED BY <1>1, PlaceInvariant, PTL

(* FlushedInTime likewise: nothing from before the shutdown is left in the *)
(* channel of a flush that ended (Exporter::shutdown).                     *)
THEOREM FlushIsComplete == Spec => []FlushedInTime
<1>1. TypeOK /\ ControlIInv /\ PlaceIInv => FlushedInTime
  <2> SUFFICES ASSUME TypeOK, ControlIInv, PlaceIInv, returned, ~overrun, NEW n \in 1..before
               PROVE  n \in Accounted
    BY DEF FlushedInTime
  <2>1. pc = "done" /\ cancelled /\ before < next
    BY DEF PlaceIInv
  <2>2. OnItsWay = Elements(queue) /\ \A m \in Elements(queue) : before < m
    BY <2>1, NoElement DEF ControlIInv, PlaceIInv, OnItsWay
  <2>3. n \in 1..(next - 1) /\ n \notin OnItsWay
    BY <2>1, <2>2 DEF TypeOK
  <2> QED BY <2>3 DEF PlaceIInv, EachInOnePlace
<1> QED BY <1>1, PlaceInvariant, PTL
-----------------------------------------------------------------------------
(* What an export has decided is older than what is on its way, and the    *)
(* health is the fate of the youngest of it.                               *)
HealthIInv ==
  /\ \A m \in Exported, n \in OnItsWay : m < n
  /\ Exported \subseteq Nat /\ \A m \in Exported : m < next
  /\ HealthIsLatest

(* Before the first export the health is that of no export.                *)
LEMMA HealthInit == Init => HealthIInv
<1>1. Init => Exported = {}
  BY NoElement DEF Init, Exported, Reasons
<1> QED BY <1>1 DEF HealthIInv, HealthIsLatest

(* Every step keeps the health that of the latest export.                  *)
LEMMA HealthNext ==
  TypeOK /\ ControlIInv /\ LineIInv /\ HealthIInv /\ [Next]_vars => HealthIInv'
<1> SUFFICES ASSUME TypeOK, ControlIInv, LineIInv, HealthIInv, [Next]_vars PROVE HealthIInv'
  OBVIOUS
<1>0. ASSUME Exported' = Exported, UNCHANGED <<delivered, delivering>>, OnItsWay' \subseteq OnItsWay \cup {next},
             next' \in {next, next + 1}
      PROVE  HealthIInv'
  <2>1. Elements(delivered)' = Elements(delivered) /\ next \in Nat
    BY <1>0 DEF Elements, TypeOK
  <2>2. HealthIsLatest'
    BY <1>0, <2>1 DEF HealthIInv, HealthIsLatest
  <2>3. \A m \in Exported : m \in Nat /\ m < next'
    BY <1>0, <2>1 DEF HealthIInv
  <2> QED BY <1>0, <2>2, <2>3 DEF HealthIInv
<1>1. CASE Enqueue
  <2>1. /\ next' = next + 1 /\ UNCHANGED <<batch, inflight, delivered, delivering>>
        /\ Elements(queue') \subseteq Elements(queue) \cup {next}
    <3>1. Elements(Append(queue, next)) = Elements(queue) \cup {next}
      BY AtTheEnd DEF TypeOK
    <3> QED BY <1>1, <3>1 DEF Enqueue, task
  <2>2. dropped'["network"] = dropped["network"] /\ dropped'["http_status"] = dropped["http_status"]
    <3>1. \A r \in {"shutdown", "queue_full"} : Count(r, {next}) =>
            dropped'["network"] = dropped["network"] /\ dropped'["http_status"] = dropped["http_status"]
      BY CountedMore DEF Reasons
    <3> QED BY <1>1, <3>1 DEF Enqueue
  <2>3. Exported' = Exported /\ OnItsWay' \subseteq OnItsWay \cup {next}
    BY <2>1, <2>2 DEF Exported, OnItsWay, Elements
  <2> QED BY <1>0, <2>1, <2>3
<1>2. CASE Collect
  <2>1. OnItsWay' = OnItsWay /\ UNCHANGED <<next, outcome>>
    BY <1>2, CollectLine
  <2>2. Exported' = Exported
    BY <2>1 DEF Exported, Elements, outcome
  <2> QED BY <1>0, <2>1, <2>2 DEF outcome
<1>3. CASE Delivered \/ Rejected \/ Unreachable
  <2>1. /\ Sending /\ Finish /\ next' = next /\ delivered' \in {delivered, delivered \o inflight}
    BY <1>3 DEF Delivered, Rejected, Unreachable, Finish
  <2>2. /\ OnItsWay = Elements(inflight) \cup Elements(queue) /\ OnItsWay' = Elements(queue)
        /\ inflight # <<>>
    BY <2>1, EndLine
  <2>3. Elements(delivered \o inflight) = Elements(delivered) \cup Elements(inflight)
    BY Joined DEF TypeOK
  <2>4. Exported' = Exported \cup Elements(inflight)
    <3>1. CASE Delivered
      <4>1. delivered' = delivered \o inflight /\ dropped' = dropped
        BY <3>1 DEF Delivered
      <4>2. Elements(delivered)' = Elements(delivered) \cup Elements(inflight)
        BY <2>3, <4>1 DEF Elements
      <4> QED BY <4>1, <4>2 DEF Exported
    <3>2. ASSUME NEW reason \in {"network", "http_status"}, Count(reason, Elements(inflight)),
                 delivered' = delivered
          PROVE  Exported' = Exported \cup Elements(inflight)
      <4>1. /\ dropped'[reason] = dropped[reason] \cup Elements(inflight)
            /\ \A r \in Reasons \ {reason} : dropped'[r] = dropped[r]
        BY <3>2, CountedMore DEF Reasons
      <4>2. Elements(delivered)' = Elements(delivered)
        BY <3>2 DEF Elements
      <4> QED BY <4>1, <4>2 DEF Exported, Reasons
    <3> QED BY <1>3, <3>1, <3>2 DEF Rejected, Unreachable
  <2>5. Exported' \subseteq Nat /\ \A m \in Exported' : m < next'
    BY <2>1, <2>2, <2>4, ElementsAreRecords DEF HealthIInv, LineIInv, TypeOK
  <2>6. \A m \in Exported', n \in OnItsWay' : m < n
    BY <2>2, <2>4 DEF HealthIInv, LineIInv, Below
  <2>7. PICK last \in Elements(inflight) : \A m \in Exported' : m <= last
    <3>1. Len(inflight) \in DOMAIN inflight /\ DOMAIN inflight = 1..Len(inflight) /\ Len(inflight) \in Nat
      BY <2>2 DEF TypeOK
    <3>2. \A i \in DOMAIN inflight : inflight[i] \in Nat /\ (i = Len(inflight) \/ i < Len(inflight))
      BY <3>1 DEF TypeOK
    <3>3. \A m \in Elements(inflight) : m <= inflight[Len(inflight)]
      BY <3>1, <3>2 DEF LineIInv, Ordered, Elements
    <3>4. inflight[Len(inflight)] \in Elements(inflight) /\ inflight[Len(inflight)] \in Nat
      BY <3>1, <3>2 DEF Elements
    <3>5. \A m \in Exported : m \in Nat /\ m < inflight[Len(inflight)]
      BY <2>2, <3>4 DEF HealthIInv
    <3> QED BY <2>4, <3>3, <3>4, <3>5
  <2>8. CASE Delivered
    <3>1. delivering' = TRUE /\ delivered' = delivered \o inflight
      BY <2>8 DEF Delivered
    <3>2. last \in Elements(delivered)'
      BY <2>3, <2>7, <3>1 DEF Elements
    <3>3. HealthIsLatest'
      BY <2>7, <3>1, <3>2 DEF HealthIsLatest
    <3> QED BY <2>5, <2>6, <3>3 DEF HealthIInv
  <2>9. CASE Rejected \/ Unreachable
    <3>1. delivering' = FALSE /\ Elements(delivered)' = Elements(delivered)
      BY <2>9 DEF Rejected, Unreachable, Elements
    <3>2. \A n \in Elements(delivered) : n \in Nat /\ n < last /\ last \in Nat /\ last \in Exported'
      BY <2>4, <2>7, ElementsAreRecords DEF LineIInv, Below, TypeOK
    <3>3. \A n \in Elements(delivered)' : \E m \in Exported' : ~(m <= n)
      BY <3>1, <3>2
    <3>4. HealthIsLatest'
      BY <3>1, <3>3 DEF HealthIsLatest
    <3> QED BY <2>5, <2>6, <3>4 DEF HealthIInv
  <2> QED BY <1>3, <2>8, <2>9
<1>4. ASSUME UNCHANGED <<next, queue, batch, inflight, outcome>> PROVE HealthIInv'
  <2>1. Exported' = Exported /\ OnItsWay' = OnItsWay
    BY <1>4 DEF Exported, OnItsWay, Elements, outcome
  <2> QED BY <1>0, <1>4, <2>1 DEF outcome
<1>5. CASE Wait \/ Retry
  BY <1>4, <1>5 DEF Wait, Retry
<1>6. CASE Shutdown \/ Flushed \/ Exit
  BY <1>4, <1>6 DEF Shutdown, Flushed, Exit, task
<1>7. CASE Overrun
  <2>1. \A r \in Reasons \ {"shutdown"} : dropped'[r] = dropped[r]
    BY <1>7, CountedMore DEF Overrun, Reasons
  <2>2. Exported' = Exported /\ OnItsWay' = OnItsWay
    BY <1>7, <2>1 DEF Overrun, Exported, OnItsWay, Elements, Reasons, task
  <2> QED BY <1>0, <1>7, <2>2 DEF Overrun
<1>8. CASE UNCHANGED vars
  BY <1>4, <1>8 DEF vars, task
<1> QED BY <1>1, <1>2, <1>3, <1>5, <1>6, <1>7, <1>8 DEF Next, Send, End

(* HealthIsLatest for every size and every run of answers (Health,         *)
(* export): what the audit gate reads is never about older records.        *)
THEOREM HealthIsCurrent == Spec => []HealthIsLatest
<1>1. Spec => [](TypeOK /\ ControlIInv /\ LineIInv /\ HealthIInv)
  BY TypeInit, TypeNext, ControlInit, ControlNext, LineInit, LineNext, HealthInit, HealthNext, PTL
     DEF Spec
<1>2. HealthIInv => HealthIsLatest
  BY DEF HealthIInv
<1> QED BY <1>1, <1>2, PTL
=============================================================================
