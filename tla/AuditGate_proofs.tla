-------------------------- MODULE AuditGate_proofs ---------------------------
(***************************************************************************)
(* Proofs about AuditGate for every set of callers, every fail mode, both  *)
(* kinds of persistence and every bound.                                   *)
(***************************************************************************)
EXTENDS MCAuditGate, Induction

(* Every way a write can end, whatever the record: the three outcomes of   *)
(* write() with the event left open (audit.rs, write and update_gap).      *)
Written == Lose \/ \E e \in Events : Persist(e) \/ Recover(e)

(* The Auditor's part of the type invariant is kept by every write.        *)
AuditorType ==
  /\ seq \in Nat \ {0}
  /\ failing \in BOOLEAN
  /\ gap \in Gap
  /\ gap # NoGap => gap.since > 0 /\ gap.count + gap.refused > 0
  /\ stream \in Seq(Record)
  /\ offered \in Seq(Nat)
  /\ forgotten \subseteq Record

(* Two more elements at the end of a sequence, element by element.         *)
LEMMA AppendTwo ==
  ASSUME NEW S, NEW s \in Seq(S), NEW a \in S, NEW b \in S
  PROVE  /\ s \o <<a, b>> \in Seq(S)
         /\ Len(s \o <<a, b>>) = Len(s) + 2
         /\ \A i \in 1 .. Len(s) : (s \o <<a, b>>)[i] = s[i]
         /\ (s \o <<a, b>>)[Len(s) + 1] = a
         /\ (s \o <<a, b>>)[Len(s) + 2] = b
OBVIOUS

(* A record with a number of its own is a Record.                          *)
LEMMA RecordType ==
  ASSUME NEW n \in Nat, NEW e \in Events, NEW g \in Gap
  PROVE  /\ Plain(n, e) \in Record
         /\ GapRecord(n, g) \in Record
BY DEF Plain, GapRecord, Record, Gap, Events

(* Opening a gap, then counting in it, leaves a gap worth reporting.       *)
LEMMA OpenGapType ==
  ASSUME AuditorType
  PROVE  LET failed == [OpenGap EXCEPT !.count = @ + 1]
             turned == [OpenGap EXCEPT !.refused = @ + 1]
         IN  /\ failed \in Gap /\ failed.since > 0
             /\ failed.count = gap.count + 1 /\ failed.refused = gap.refused
             /\ turned \in Gap /\ turned.since > 0
             /\ turned.count = gap.count /\ turned.refused = gap.refused + 1
<1>1. OpenGap \in Gap /\ OpenGap.since > 0
  BY DEF OpenGap, AuditorType, Gap, NoGap
<1>2. OpenGap.count = gap.count /\ OpenGap.refused = gap.refused
  BY DEF OpenGap, NoGap
<1> QED BY <1>1, <1>2 DEF Gap

(* Each outcome of write() keeps the Auditor's variables in their types.   *)
LEMMA WriteType ==
  ASSUME AuditorType, Written
  PROVE  AuditorType'
<1>1. CASE Lose
  <2>1. failing' \in BOOLEAN
    BY <1>1 DEF Lose
  <2>2. offered' \in Seq(Nat)
    BY <1>1 DEF Lose, Offer, AuditorType
  <2>3. gap' \in Gap /\ gap'.since > 0 /\ gap'.count + gap'.refused > 0
    BY <1>1, OpenGapType DEF Lose, Gap, AuditorType
  <2>4. seq' \in Nat \ {0} /\ stream' \in Seq(Record) /\ forgotten' \subseteq Record
    BY <1>1 DEF Lose, AuditorType
  <2> QED BY <2>1, <2>2, <2>3, <2>4 DEF AuditorType
<1>2. ASSUME NEW e \in Events, Persist(e) PROVE AuditorType'
  <2>1. failing' \in BOOLEAN
    BY <1>2 DEF Persist
  <2>2. offered' \in Seq(Nat)
    BY <1>2 DEF Persist, Offer, AuditorType
  <2>3. gap' \in Gap /\ gap' = NoGap
    BY <1>2 DEF Persist, AuditorType
  <2>4. NoGap \in Gap
    BY DEF Gap, NoGap
  <2>5. Plain(seq, e) \in Record
    BY <2>4, RecordType DEF AuditorType
  <2>6. seq' \in Nat \ {0} /\ stream' \in Seq(Record) /\ forgotten' \subseteq Record
    BY <1>2, <2>5 DEF Persist, AuditorType
  <2> QED BY <2>1, <2>2, <2>3, <2>6 DEF AuditorType
<1>3. ASSUME NEW e \in Events, Recover(e) PROVE AuditorType'
  <2>1. failing' \in BOOLEAN
    BY <1>3 DEF Recover
  <2>2. offered' \in Seq(Nat)
    BY <1>3 DEF Recover, Offer, AuditorType
  <2>3. gap' \in Gap /\ gap' = NoGap
    BY <1>3 DEF Recover, Gap, NoGap
  <2>4. Plain(seq, e) \in Record /\ GapRecord(seq + 1, gap) \in Record
    BY RecordType DEF AuditorType
  <2>5. seq' \in Nat \ {0} /\ forgotten' \subseteq Record
    BY <1>3, <2>4 DEF Recover, AuditorType
  <2>6. /\ Append(stream, Plain(seq, e)) \in Seq(Record)
        /\ stream \o <<Plain(seq, e), GapRecord(seq + 1, gap)>> \in Seq(Record)
    BY <2>4, AppendTwo DEF AuditorType
  <2>7. stream' \in Seq(Record)
    BY <1>3, <2>6 DEF Recover
  <2> QED BY <2>1, <2>2, <2>3, <2>5, <2>7 DEF AuditorType
<1> QED BY <1>1, <1>2, <1>3 DEF Written

(* The records the server writes are among Events.                         *)
LEMMA ServerWrites ==
  /\ \A c \in Callers : RecordCall(c) => Written
  /\ \A e \in Events : WriteEvent(e) => Written
  /\ Initialize => Written
  /\ Shutdown => Written
BY DEF RecordCall, WriteEvent, Initialize, Shutdown, Written, Events

(* TypeOK is the Auditor's type and the types of the server's variables.   *)
ServerType ==
  /\ serving \in BOOLEAN
  /\ phase \in [Callers -> {"idle", "refusing", "refused", "dispatched"}]
  /\ scope \in [Callers -> Scopes]
  /\ delivering \in BOOLEAN
  /\ refusals \in Nat
  /\ unrecorded \in [Callers -> Nat]

(* The type invariant splits into the Auditor's part and the server's.     *)
LEMMA TypeSplit == TypeOK <=> AuditorType /\ ServerType
BY DEF TypeOK, AuditorType, ServerType

(* Every step of the server keeps the type invariant.                      *)
LEMMA TypeStep ==
  ASSUME TypeOK, [Next]_vars
  PROVE  TypeOK'
<1>0. AuditorType /\ ServerType
  BY TypeSplit
<1> SUFFICES AuditorType' /\ ServerType'
  BY DEF TypeOK, AuditorType, ServerType
<1>1. ASSUME NEW c \in Callers, NEW s \in Scopes, Arrive(c, s)
      PROVE  AuditorType' /\ ServerType'
  <2>1. phase' \in [Callers -> {"idle", "refusing", "refused", "dispatched"}]
    BY <1>0, <1>1 DEF Arrive, ServerType
  <2>2. scope' \in [Callers -> Scopes]
    BY <1>0, <1>1 DEF Arrive, ServerType
  <2> QED BY <1>0, <1>1, <2>1, <2>2 DEF Arrive, auditor, AuditorType, ServerType
<1>2. ASSUME NEW c \in Callers, Refuse(c)
      PROVE  AuditorType' /\ ServerType'
  <2>1. phase' \in [Callers -> {"idle", "refusing", "refused", "dispatched"}]
    BY <1>0, <1>2 DEF Refuse, ServerType
  <2>2. gap' \in Gap /\ gap'.since > 0 /\ gap'.count + gap'.refused > 0
    BY <1>0, <1>2, OpenGapType DEF Refuse, Gap, AuditorType
  <2>3. refusals' \in Nat
    BY <1>0, <1>2 DEF Refuse, ServerType
  <2>4. AuditorType'
    BY <1>0, <1>2, <2>2 DEF Refuse, AuditorType
  <2> QED BY <1>0, <1>2, <2>1, <2>3, <2>4 DEF Refuse, ServerType
<1>3. ASSUME NEW c \in Callers, RecordCall(c)
      PROVE  AuditorType' /\ ServerType'
  <2>1. phase' \in [Callers -> {"idle", "refusing", "refused", "dispatched"}]
    BY <1>0, <1>3 DEF RecordCall, ServerType
  <2>2. unrecorded' \in [Callers -> Nat]
    BY <1>0, <1>3 DEF RecordCall, ServerType
  <2>3. AuditorType'
    BY <1>0, <1>3, ServerWrites, WriteType
  <2> QED BY <1>0, <1>3, <2>1, <2>2, <2>3 DEF RecordCall, ServerType
<1>4. ASSUME NEW e \in Events, WriteEvent(e), serving' \in BOOLEAN
      PROVE  AuditorType' /\ ServerType'
  <2>1. unrecorded' \in [Callers -> Nat]
    BY <1>0, <1>4 DEF WriteEvent, ServerType
  <2>2. AuditorType'
    BY <1>0, <1>4, ServerWrites, WriteType
  <2> QED BY <1>0, <1>4, <2>1, <2>2 DEF WriteEvent, ServerType
<1>5. CASE Initialize \/ Shutdown
  <2>1. /\ serving' \in BOOLEAN
        /\ \E e \in Events : WriteEvent(e)
    BY <1>0, <1>5 DEF Initialize, Shutdown, Events, ServerType
  <2>2. PICK e \in Events : WriteEvent(e)
    BY <2>1
  <2> QED BY <1>4, <2>1, <2>2
<1>6. CASE Collector
  <2>1. delivering' \in BOOLEAN
    BY <1>6 DEF Collector
  <2>2. UNCHANGED <<serving, phase, scope, refusals, unrecorded>> /\ UNCHANGED auditor
    BY <1>6 DEF Collector
  <2>3. AuditorType'
    BY <1>0, <2>2 DEF auditor, AuditorType
  <2> QED BY <1>0, <2>1, <2>2, <2>3 DEF ServerType
<1>8. CASE ServeFailed
  <2>1. serving' \in BOOLEAN
    BY <1>8 DEF ServeFailed
  <2>2. UNCHANGED <<phase, scope, delivering, refusals, unrecorded>> /\ UNCHANGED auditor
    BY <1>8 DEF ServeFailed
  <2>3. AuditorType'
    BY <1>0, <2>2 DEF auditor, AuditorType
  <2> QED BY <1>0, <2>1, <2>2, <2>3 DEF ServerType
<1>7. CASE UNCHANGED vars
  <2>1. UNCHANGED <<serving, phase, scope, delivering, refusals, unrecorded>> /\ UNCHANGED auditor
    BY <1>7 DEF vars
  <2>2. AuditorType'
    BY <1>0, <2>1 DEF auditor, AuditorType
  <2> QED BY <1>0, <2>1, <2>2 DEF ServerType
<1> QED BY <1>1, <1>2, <1>3, <1>5, <1>6, <1>7, <1>8 DEF Next

(* Every variable keeps its type, and a pending gap always carries a stamp *)
(* and something to report.                                                *)
THEOREM TypeCorrect == Spec => []TypeOK
<1>1. Init => TypeOK
  <2>1. NoGap \in Gap /\ "read" \in Scopes
    BY DEF Gap, NoGap, Scopes
  <2>2. Init => AuditorType
    <3> SUFFICES ASSUME Init PROVE AuditorType
      OBVIOUS
    <3>1. failing \in BOOLEAN
      BY DEF Init
    <3>2. gap \in Gap /\ gap = NoGap
      BY <2>1 DEF Init
    <3>3. seq \in Nat \ {0} /\ forgotten \subseteq Record
      BY DEF Init
    <3>4. stream \in Seq(Record) /\ offered \in Seq(Nat)
      BY DEF Init
    <3> QED BY <3>1, <3>2, <3>3, <3>4 DEF AuditorType
  <2>3. Init => ServerType
    <3> SUFFICES ASSUME Init PROVE ServerType
      OBVIOUS
    <3>1. serving \in BOOLEAN /\ delivering \in BOOLEAN
      BY DEF Init
    <3>2. phase \in [Callers -> {"idle", "refusing", "refused", "dispatched"}]
      BY DEF Init
    <3>3. scope \in [Callers -> Scopes]
      BY <2>1 DEF Init
    <3>4. refusals \in Nat /\ unrecorded \in [Callers -> Nat]
      BY DEF Init
    <3> QED BY <3>1, <3>2, <3>3, <3>4 DEF ServerType
  <2> QED BY <2>2, <2>3, TypeSplit
<1>2. TypeOK /\ [Next]_vars => TypeOK'
  BY TypeStep
<1> QED BY <1>1, <1>2, PTL DEF Spec
-----------------------------------------------------------------------------
(* The gate and the flag.                                                  *)

(* Seen by the Auditor a step is a write, or it leaves everything but the  *)
(* refusals of the pending gap alone.                                      *)
LEMMA Steps ==
  ASSUME TypeOK, [Next]_vars
  PROVE  \/ Written
         \/ /\ UNCHANGED <<seq, failing, stream, offered, forgotten>>
            /\ gap'.count = gap.count
<1>1. ASSUME NEW c \in Callers, Refuse(c)
      PROVE  /\ UNCHANGED <<seq, failing, stream, offered, forgotten>>
             /\ gap'.count = gap.count
  BY <1>1, OpenGapType, TypeSplit DEF Refuse
<1>2. CASE \/ \E c \in Callers, s \in Scopes : Arrive(c, s)
           \/ Collector
           \/ ServeFailed
           \/ UNCHANGED vars
  BY <1>2 DEF Arrive, Collector, ServeFailed, vars, auditor
<1>3. CASE Initialize \/ Shutdown \/ \E c \in Callers : RecordCall(c)
  BY <1>3, ServerWrites
<1> QED BY <1>1, <1>2, <1>3 DEF Next

(* What a write does to the flag and to the count of the pending gap.      *)
LEMMA WriteGap ==
  ASSUME TypeOK
  PROVE  /\ Lose => failing' = TRUE /\ gap'.count = gap.count + 1
         /\ \A e \in Events :
              Persist(e) \/ Recover(e) => failing' = FALSE /\ gap' = NoGap
<1>1. ASSUME Lose PROVE failing' = TRUE /\ gap'.count = gap.count + 1
  <2>1. gap'.count = gap.count + 1
    BY <1>1, OpenGapType, TypeSplit DEF Lose
  <2> QED BY <1>1, <2>1 DEF Lose
<1>2. ASSUME NEW e \in Events, Persist(e) \/ Recover(e)
      PROVE  failing' = FALSE /\ gap' = NoGap
  BY <1>2 DEF Persist, Recover
<1> QED BY <1>1, <1>2

(* Every step keeps the flag equal to the state of the pending gap.        *)
LEMMA FlagStep ==
  ASSUME TypeOK, FailingMatchesGap, [Next]_vars
  PROVE  FailingMatchesGap'
<1>1. gap.count \in Nat
  BY DEF TypeOK, Gap
<1>2. CASE Lose
  BY <1>1, <1>2, WriteGap DEF FailingMatchesGap
<1>3. ASSUME NEW e \in Events, Persist(e) \/ Recover(e)
      PROVE  FailingMatchesGap'
  <2>1. failing' = FALSE /\ gap' = NoGap
    BY <1>3, WriteGap
  <2>2. NoGap.count = 0
    BY DEF NoGap
  <2>3. ~(gap'.count > 0)
    BY <2>1, <2>2
  <2> QED BY <2>1, <2>3 DEF FailingMatchesGap
<1>4. CASE UNCHANGED failing /\ gap'.count = gap.count
  BY <1>4 DEF FailingMatchesGap
<1> QED BY <1>2, <1>3, <1>4, Steps DEF Written

(* The flag the gate loads without the lock always agrees with the gap it  *)
(* is the cached form of.                                                  *)
THEOREM FlagCorrect == Spec => []FailingMatchesGap
<1>1. Init => FailingMatchesGap
  BY DEF Init, FailingMatchesGap, NoGap
<1>2. TypeOK /\ FailingMatchesGap /\ [Next]_vars => FailingMatchesGap'
  BY FlagStep
<1> QED BY <1>1, <1>2, TypeCorrect, PTL DEF Spec

(* The strengthening behind AtMostOneUnrecorded: while the flag is down no *)
(* slot has an unrecorded call, and a slot that has one cannot be running  *)
(* another gated call, since the flag has been up ever since it lost the   *)
(* first and the gate turns its next one away.                             *)
GateIInv ==
  \A c \in Callers :
    /\ unrecorded[c] <= 1
    /\ ~failing => unrecorded[c] = 0
    /\ Exposed(c) => unrecorded[c] = 0

(* Every step keeps the gate's strengthened invariant.                     *)
LEMMA GateStep ==
  ASSUME TypeOK, GateIInv, [Next]_vars
  PROVE  GateIInv'
<1> USE DEF GateIInv
<1>0. /\ phase \in [Callers -> {"idle", "refusing", "refused", "dispatched"}]
      /\ scope \in [Callers -> Scopes]
      /\ unrecorded \in [Callers -> Nat]
  BY DEF TypeOK
<1> SUFFICES ASSUME NEW d \in Callers
             PROVE  /\ unrecorded'[d] <= 1
                    /\ ~failing' => unrecorded'[d] = 0
                    /\ Exposed(d)' => unrecorded'[d] = 0
  OBVIOUS
<1>1. ASSUME NEW c \in Callers, NEW s \in Scopes, Arrive(c, s)
      PROVE  /\ unrecorded'[d] <= 1
             /\ ~failing' => unrecorded'[d] = 0
             /\ Exposed(d)' => unrecorded'[d] = 0
  <2>1. UNCHANGED <<failing, unrecorded>>
    BY <1>1 DEF Arrive, auditor
  <2>2. CASE d = c
    <3>1. Exposed(d)' => ~Refuses(s) /\ Gated(s)
      BY <1>0, <1>1, <2>2 DEF Exposed, Arrive, Gated
    <3>2. Exposed(d)' => ~failing
      BY <3>1 DEF Refuses
    <3> QED BY <2>1, <3>2
  <2>3. CASE d # c
    <3>1. Exposed(d)' <=> Exposed(d)
      BY <1>0, <1>1, <2>3 DEF Exposed, Arrive, Gated
    <3> QED BY <2>1, <3>1
  <2> QED BY <2>2, <2>3
<1>2. ASSUME NEW c \in Callers, Refuse(c)
      PROVE  /\ unrecorded'[d] <= 1
             /\ ~failing' => unrecorded'[d] = 0
             /\ Exposed(d)' => unrecorded'[d] = 0
  <2>1. UNCHANGED <<failing, unrecorded>> /\ (Exposed(d)' => Exposed(d))
    BY <1>0, <1>2 DEF Refuse, Exposed, Gated
  <2> QED BY <2>1
<1>3. ASSUME NEW c \in Callers, RecordCall(c)
      PROVE  /\ unrecorded'[d] <= 1
             /\ ~failing' => unrecorded'[d] = 0
             /\ Exposed(d)' => unrecorded'[d] = 0
  <2>1. Exposed(d)' => Exposed(d) /\ d # c
    BY <1>0, <1>3 DEF RecordCall, Exposed, Gated
  <2>2. CASE Lose /\ Exposed(c) /\ unrecorded' = [unrecorded EXCEPT ![c] = @ + 1]
    <3>1. failing'
      BY <2>2, WriteGap
    <3>2. unrecorded'[d] <= 1 /\ (d # c => unrecorded'[d] = unrecorded[d])
      BY <1>0, <2>2
    <3> QED BY <2>1, <3>1, <3>2
  <2>3. CASE Lose /\ unrecorded' = unrecorded
    <3>1. failing'
      BY <2>3, WriteGap
    <3> QED BY <2>1, <2>3, <3>1
  <2>4. CASE unrecorded' = [x \in Callers |-> 0]
    BY <2>4
  <2> QED BY <1>3, <2>2, <2>3, <2>4 DEF RecordCall
<1>4. ASSUME NEW e \in Events, WriteEvent(e)
      PROVE  /\ unrecorded'[d] <= 1
             /\ ~failing' => unrecorded'[d] = 0
             /\ Exposed(d)' => unrecorded'[d] = 0
  <2>1. Exposed(d)' <=> Exposed(d)
    BY <1>4 DEF WriteEvent, Exposed, Gated
  <2>2. CASE Lose /\ UNCHANGED unrecorded
    <3>1. failing'
      BY <2>2, WriteGap
    <3> QED BY <2>1, <2>2, <3>1
  <2>3. CASE unrecorded' = [x \in Callers |-> 0]
    BY <2>3
  <2> QED BY <1>4, <2>2, <2>3 DEF WriteEvent
<1>5. CASE Initialize \/ Shutdown
  <2>1. PICK e \in Events : WriteEvent(e)
    BY <1>5 DEF Initialize, Shutdown, Events
  <2> QED BY <1>4, <2>1
<1>6. CASE Collector \/ ServeFailed \/ UNCHANGED vars
  <2>1. UNCHANGED <<failing, unrecorded>> /\ UNCHANGED <<phase, scope>>
    BY <1>6 DEF Collector, ServeFailed, vars, auditor
  <2>2. Exposed(d)' <=> Exposed(d)
    BY <2>1 DEF Exposed, Gated
  <2> QED BY <2>1, <2>2
<1> QED BY <1>1, <1>2, <1>3, <1>5, <1>6 DEF Next

(* In a closed mode an outage leaves at most one acted-on call unrecorded  *)
(* per concurrent call, for any number of calls, refusals and outages.     *)
THEOREM GateCorrect == Spec => []AtMostOneUnrecorded
<1>1. Init => GateIInv
  <2> SUFFICES ASSUME Init, NEW c \in Callers
               PROVE  unrecorded[c] = 0 /\ unrecorded[c] <= 1
    BY DEF GateIInv
  <2> QED BY DEF Init
<1>2. TypeOK /\ GateIInv /\ [Next]_vars => GateIInv'
  BY GateStep
<1>3. GateIInv => AtMostOneUnrecorded
  BY DEF GateIInv, AtMostOneUnrecorded
<1> QED BY <1>1, <1>2, <1>3, TypeCorrect, PTL DEF Spec
-----------------------------------------------------------------------------
(* The stream and its holes.                                               *)

LastSeq == IF stream = <<>> THEN 0 ELSE stream[Len(stream)].seq

(* The strengthening behind GapExact and HolesReported: the pending gap    *)
(* counts exactly the numbers missing after the last persisted record,     *)
(* less that of an audit_gap record lost right behind it.                  *)
TailAccounted ==
  gap.count = ((seq - 1) - LastSeq) - (IF ForgottenAt(LastSeq + 1) THEN 1 ELSE 0)

Numbered ==
  /\ \A i, j \in DOMAIN stream : i < j => stream[i].seq < stream[j].seq
  /\ \A i \in DOMAIN stream : stream[i].seq < seq
  /\ \A r \in forgotten : r.seq < seq

StreamIInv == Numbered /\ TailAccounted /\ GapExact /\ HolesReported

(* The step of a write that keeps the stream as a prefix and forgets no    *)
(* record but one with a number not yet used.                              *)
Extends ==
  /\ stream' \in Seq(Record)
  /\ Len(stream') >= Len(stream)
  /\ \A i \in 1 .. Len(stream) : stream'[i] = stream[i]
  /\ forgotten \subseteq forgotten'
  /\ \A r \in forgotten' : r \in forgotten \/ r.seq = seq + 1

(* The numbering: stream records keep increasing below the next number.    *)
LEMMA StreamNumbers ==
  ASSUME TypeOK
  PROVE  /\ \A i \in 1 .. Len(stream) : stream[i].seq \in Nat
         /\ \A i \in 1 .. Len(stream) : PrevSeq(i) \in Nat
         /\ LastSeq \in Nat
         /\ Len(stream) \in Nat
         /\ DOMAIN stream = 1 .. Len(stream)
         /\ gap.count \in Nat
         /\ seq \in Nat \ {0}
         /\ \A r \in forgotten : r.seq \in Nat
<1>1. \A i \in 1 .. Len(stream) : stream[i].seq \in Nat
  <2>1. \A i \in 1 .. Len(stream) : stream[i] \in Record
    BY DEF TypeOK
  <2> QED BY <2>1 DEF Record
<1>2. Len(stream) \in Nat /\ DOMAIN stream = 1 .. Len(stream)
  BY DEF TypeOK
<1>3. \A i \in 1 .. Len(stream) : PrevSeq(i) \in Nat
  BY <1>1, <1>2 DEF PrevSeq
<1>4. stream # <<>> => Len(stream) > 0
  BY DEF TypeOK
<1>5. LastSeq \in Nat
  BY <1>1, <1>2, <1>4 DEF LastSeq
<1>6. \A r \in forgotten : r.seq \in Nat
  BY DEF TypeOK, Record
<1>7. gap.count \in Nat /\ seq \in Nat \ {0}
  BY DEF TypeOK, Gap
<1> QED BY <1>1, <1>2, <1>3, <1>5, <1>6, <1>7

(* Numbers below the next one are forgotten after the step iff before it.  *)
LEMMA ForgottenKept ==
  ASSUME TypeOK, Extends, NEW n \in Nat, n <= seq
  PROVE  (\E r \in forgotten' : r.seq = n) <=> ForgottenAt(n)
BY DEF TypeOK, Extends, ForgottenAt

(* What is said of the records already in the stream stays as it is.       *)
LEMMA PrefixKept ==
  ASSUME TypeOK, Numbered, Extends, NEW i \in 1 .. Len(stream)
  PROVE  /\ IsGap(i)' <=> IsGap(i)
         /\ Hole(i)' = Hole(i)
<1>1. IsGap(i)' <=> IsGap(i)
  BY DEF IsGap, Extends
<1>2. PrevSeq(i)' = PrevSeq(i)
  BY StreamNumbers DEF PrevSeq, Extends
<1>3. PrevSeq(i) + 1 <= seq
  <2>1. CASE i = 1
    BY <2>1, StreamNumbers DEF PrevSeq
  <2>2. CASE i # 1
    <3>1. i - 1 \in 1 .. Len(stream)
      BY <2>2, StreamNumbers
    <3>2. stream[i - 1].seq < seq /\ stream[i - 1].seq \in Nat
      BY <3>1, StreamNumbers DEF Numbered
    <3> QED BY <2>2, <3>2, StreamNumbers DEF PrevSeq
  <2> QED BY <2>1, <2>2
<1>4. ForgottenAt(PrevSeq(i) + 1)' <=> ForgottenAt(PrevSeq(i) + 1)
  BY <1>2, <1>3, ForgottenKept, StreamNumbers DEF ForgottenAt
<1>5. stream'[i].seq = stream[i].seq
  BY DEF Extends
<1> QED BY <1>1, <1>2, <1>4, <1>5 DEF Hole

(* The hole before the record appended first is the pending gap's count.   *)
LEMMA NewHole ==
  ASSUME TypeOK, Numbered, TailAccounted, Extends,
         NEW n \in Nat, n = Len(stream) + 1,
         Len(stream') >= n,
         stream'[n].seq = seq
  PROVE  Hole(n)' = gap.count
<1>1. PrevSeq(n)' = LastSeq /\ LastSeq + 1 <= seq
  <2>1. CASE stream = <<>>
    <3>1. n = 1 /\ LastSeq = 0
      BY <2>1 DEF LastSeq
    <3> QED BY <3>1, StreamNumbers DEF PrevSeq
  <2>2. CASE stream # <<>>
    <3>1. Len(stream) \in 1 .. Len(stream)
      BY <2>2, StreamNumbers DEF TypeOK
    <3>2. stream'[n - 1] = stream[Len(stream)] /\ n # 1
      BY <3>1, StreamNumbers DEF Extends
    <3>3. stream[Len(stream)].seq < seq /\ stream[Len(stream)].seq \in Nat
      BY <3>1, StreamNumbers DEF Numbered
    <3> QED BY <2>2, <3>2, <3>3, StreamNumbers DEF PrevSeq, LastSeq
  <2> QED BY <2>1, <2>2
<1>2. (\E r \in forgotten' : r.seq = LastSeq + 1) <=> ForgottenAt(LastSeq + 1)
  BY <1>1, ForgottenKept, StreamNumbers
<1>3. Hole(n)' =
        ((seq - 1) - LastSeq) - (IF \E r \in forgotten' : r.seq = LastSeq + 1 THEN 1 ELSE 0)
  BY <1>1 DEF Hole, ForgottenAt
<1> QED BY <1>2, <1>3 DEF TailAccounted

(* Records already in the stream keep their reports.                       *)
LEMMA OldReports ==
  ASSUME TypeOK, StreamIInv, Extends, NEW i \in 1 .. Len(stream)
  PROVE  GapExactAt(i)' /\ HoleReportedAt(i)'
<1> USE DEF StreamIInv
<1>1. GapExactAt(i) /\ HoleReportedAt(i)
  BY StreamNumbers DEF GapExact, HolesReported
<1>2. stream'[i] = stream[i] /\ DOMAIN stream' = 1 .. Len(stream') /\ Len(stream') \in Nat
  BY DEF Extends
<1>3. GapExactAt(i)'
  <2>1. CASE ~IsGap(i)
    BY <2>1, PrefixKept DEF GapExactAt
  <2>2. CASE IsGap(i)
    <3>1. i - 1 \in 1 .. Len(stream) /\ i > 1
      BY <1>1, <2>2, StreamNumbers DEF GapExactAt
    <3>2. Hole(i - 1)' = Hole(i - 1) /\ (IsGap(i - 1)' <=> IsGap(i - 1))
      BY <3>1, PrefixKept
    <3>3. stream'[i - 1] = stream[i - 1]
      BY <3>1 DEF Extends
    <3> QED BY <1>1, <1>2, <2>2, <3>1, <3>2, <3>3 DEF GapExactAt
  <2> QED BY <2>1, <2>2
<1>4. HoleReportedAt(i)'
  <2>1. CASE IsGap(i) \/ ~(Hole(i) > 0)
    BY <2>1, PrefixKept DEF HoleReportedAt
  <2>2. CASE i + 1 \in DOMAIN stream /\ IsGap(i + 1)
    <3>1. i + 1 \in 1 .. Len(stream) /\ i + 1 \in DOMAIN stream'
      BY <1>2, <2>2, StreamNumbers DEF Extends
    <3>2. IsGap(i + 1)'
      BY <2>2, <3>1, PrefixKept
    <3> QED BY <3>1, <3>2 DEF HoleReportedAt
  <2>3. CASE ForgottenAt(stream[i].seq + 1)
    BY <1>2, <2>3 DEF HoleReportedAt, ForgottenAt, Extends
  <2> QED BY <1>1, <2>1, <2>2, <2>3 DEF HoleReportedAt
<1> QED BY <1>3, <1>4

(* A lost record only adds to the numbers missing at the stream's end.     *)
LEMMA LoseStream ==
  ASSUME TypeOK, StreamIInv, Lose
  PROVE  StreamIInv'
<1>1. UNCHANGED <<stream, forgotten>> /\ seq' = seq + 1
  BY DEF Lose
<1>2. Extends
  BY <1>1, StreamNumbers DEF Extends, TypeOK
<1>3. Numbered'
  BY <1>1, StreamNumbers DEF StreamIInv, Numbered
<1>4. TailAccounted'
  <2>1. LastSeq' = LastSeq /\ ForgottenAt(LastSeq + 1)' = ForgottenAt(LastSeq + 1)
    BY <1>1 DEF LastSeq, ForgottenAt
  <2>2. gap'.count = gap.count + 1
    BY WriteGap
  <2> QED BY <1>1, <2>1, <2>2, StreamNumbers DEF StreamIInv, TailAccounted
<1>5. GapExact' /\ HolesReported'
  BY <1>1, <1>2, OldReports, StreamNumbers DEF GapExact, HolesReported
<1> QED BY <1>3, <1>4, <1>5 DEF StreamIInv

(* A plain record is not a gap, a gap record is one.                       *)
LEMMA RecordFields ==
  ASSUME NEW n \in Nat, NEW e \in Events, NEW g \in Gap
  PROVE  /\ Plain(n, e).seq = n /\ Plain(n, e).event # "audit_gap"
         /\ GapRecord(n, g).seq = n /\ GapRecord(n, g).event = "audit_gap"
         /\ GapRecord(n, g).count = g.count
BY DEF Plain, GapRecord, Events

(* One record is kept: nothing was pending, or the gap record was lost.    *)
LEMMA KeepOne ==
  ASSUME TypeOK, StreamIInv, NEW e \in Events,
         NEW n \in Nat, n = Len(stream) + 1,
         stream' = Append(stream, Plain(seq, e)),
         gap' = NoGap,
         \/ gap = NoGap /\ seq' = seq + 1 /\ forgotten' = forgotten
         \/ seq' = seq + 2 /\ forgotten' = forgotten \cup {GapRecord(seq + 1, gap)}
  PROVE  StreamIInv'
<1>0. Plain(seq, e) \in Record /\ gap \in Gap /\ NoGap \in Gap
  BY RecordType DEF TypeOK, Gap, NoGap
<1>1. /\ stream' \in Seq(Record) /\ Len(stream') = n /\ n \in Nat
      /\ \A i \in 1 .. Len(stream) : stream'[i] = stream[i]
      /\ stream'[n] = Plain(seq, e)
      /\ DOMAIN stream' = 1 .. n
  BY <1>0 DEF TypeOK
<1>2. stream'[n].seq = seq /\ stream'[n].event # "audit_gap"
  BY <1>0, <1>1, RecordFields, StreamNumbers
<1>3. GapRecord(seq + 1, gap).seq = seq + 1
  BY DEF GapRecord
<1>4. Extends
  BY <1>1, <1>3, StreamNumbers DEF Extends
<1>5. Hole(n)' = gap.count
  BY <1>1, <1>2, <1>4, NewHole, StreamNumbers DEF StreamIInv
<1>6. Numbered'
  <2>1. \A r \in forgotten' : r.seq < seq'
    BY <1>3, StreamNumbers DEF StreamIInv, Numbered
  <2>2. \A i \in 1 .. n : stream'[i].seq < seq'
    BY <1>1, <1>2, StreamNumbers DEF StreamIInv, Numbered
  <2>3. ASSUME NEW i \in 1 .. n, NEW j \in 1 .. n, i < j
        PROVE  stream'[i].seq < stream'[j].seq
    <3>1. i \in 1 .. Len(stream) /\ stream'[i] = stream[i]
      BY <1>1, <2>3
    <3>2. CASE j = n
      BY <1>2, <3>1, <3>2, StreamNumbers DEF StreamIInv, Numbered
    <3>3. CASE j \in 1 .. Len(stream)
      BY <1>1, <2>3, <3>1, <3>3, StreamNumbers DEF StreamIInv, Numbered
    <3> QED BY <1>1, <3>2, <3>3
  <2> QED BY <1>1, <2>1, <2>2, <2>3 DEF Numbered
<1>7. TailAccounted'
  <2>1. LastSeq' = seq
    BY <1>1, <1>2 DEF LastSeq
  <2>2. gap'.count = 0
    BY DEF NoGap
  <2>3. CASE gap = NoGap /\ seq' = seq + 1 /\ forgotten' = forgotten
    <3>1. ~ForgottenAt(LastSeq + 1)'
      BY <2>1, <2>3, StreamNumbers DEF ForgottenAt, StreamIInv, Numbered
    <3> QED BY <2>1, <2>2, <2>3, <3>1, StreamNumbers DEF TailAccounted
  <2>4. CASE seq' = seq + 2 /\ forgotten' = forgotten \cup {GapRecord(seq + 1, gap)}
    <3>1. ForgottenAt(LastSeq + 1)'
      BY <1>3, <2>1, <2>4 DEF ForgottenAt
    <3> QED BY <2>1, <2>2, <2>4, <3>1, StreamNumbers DEF TailAccounted
  <2> QED BY <2>3, <2>4
<1>8. GapExactAt(n)' /\ HoleReportedAt(n)'
  <2>1. ~IsGap(n)'
    BY <1>2 DEF IsGap
  <2>2. CASE gap = NoGap
    <3>1. Hole(n)' = 0
      BY <1>5, <2>2 DEF NoGap
    <3> QED BY <2>1, <3>1 DEF GapExactAt, HoleReportedAt
  <2>3. CASE forgotten' = forgotten \cup {GapRecord(seq + 1, gap)}
    <3>1. ForgottenAt(stream[n].seq + 1)'
      BY <1>2, <1>3, <2>3 DEF ForgottenAt
    <3> QED BY <2>1, <3>1 DEF GapExactAt, HoleReportedAt
  <2> QED BY <2>2, <2>3
<1>9. GapExact' /\ HolesReported'
  <2>1. \A i \in 1 .. n : i = n \/ i \in 1 .. Len(stream)
    BY StreamNumbers
  <2> QED BY <1>1, <1>4, <1>8, <2>1, OldReports DEF GapExact, HolesReported
<1> QED BY <1>6, <1>7, <1>9 DEF StreamIInv

(* Two records are kept: the one that recovered and the report behind it.  *)
LEMMA KeepTwo ==
  ASSUME TypeOK, StreamIInv, NEW e \in Events,
         NEW n \in Nat, n = Len(stream) + 1,
         stream' = stream \o <<Plain(seq, e), GapRecord(seq + 1, gap)>>,
         gap' = NoGap,
         seq' = seq + 2,
         forgotten' = forgotten
  PROVE  StreamIInv'
<1>0. Plain(seq, e) \in Record /\ GapRecord(seq + 1, gap) \in Record /\ gap \in Gap
  BY RecordType DEF TypeOK
<1>1. /\ stream' \in Seq(Record) /\ Len(stream') = n + 1
      /\ \A i \in 1 .. Len(stream) : stream'[i] = stream[i]
      /\ stream'[n] = Plain(seq, e)
      /\ stream'[n + 1] = GapRecord(seq + 1, gap)
      /\ DOMAIN stream' = 1 .. n + 1
  <2>1. stream \in Seq(Record)
    BY DEF TypeOK
  <2>2. /\ stream' \in Seq(Record) /\ Len(stream') = Len(stream) + 2
        /\ \A i \in 1 .. Len(stream) : stream'[i] = stream[i]
        /\ stream'[Len(stream) + 1] = Plain(seq, e)
        /\ stream'[Len(stream) + 2] = GapRecord(seq + 1, gap)
    BY <1>0, <2>1, AppendTwo
  <2>3. Len(stream) + 2 = n + 1 /\ Len(stream) + 1 = n
    BY StreamNumbers
  <2> QED BY <2>2, <2>3
<1>2. /\ stream'[n].seq = seq /\ stream'[n].event # "audit_gap"
      /\ stream'[n + 1].seq = seq + 1 /\ stream'[n + 1].event = "audit_gap"
      /\ stream'[n + 1].count = gap.count
  BY <1>0, <1>1, RecordFields, StreamNumbers
<1>3. Extends
  BY <1>1, StreamNumbers DEF Extends
<1>4. Hole(n)' = gap.count
  BY <1>1, <1>2, <1>3, NewHole, StreamNumbers DEF StreamIInv
<1>5. \A i \in 1 .. n + 1 : i = n + 1 \/ i = n \/ i \in 1 .. Len(stream)
  BY StreamNumbers
<1>6. Numbered'
  <2>1. \A r \in forgotten' : r.seq < seq'
    BY StreamNumbers DEF StreamIInv, Numbered
  <2>2. /\ \A i \in 1 .. Len(stream) :
             /\ stream'[i].seq \in Nat /\ stream'[i].seq < seq
             /\ stream'[i].seq = stream[i].seq
        /\ \A i, j \in 1 .. Len(stream) : i < j => stream[i].seq < stream[j].seq
    BY <1>1, StreamNumbers DEF StreamIInv, Numbered
  <2>3. \A i \in 1 .. n + 1 : stream'[i].seq < seq'
    BY <1>2, <1>5, <2>2, StreamNumbers
  <2>4. ASSUME NEW i \in 1 .. n + 1, NEW j \in 1 .. n + 1, i < j
        PROVE  stream'[i].seq < stream'[j].seq
    <3>1. CASE j = n + 1
      <4>1. i = n \/ i \in 1 .. Len(stream)
        BY <1>5, <2>4, <3>1
      <4> QED BY <1>2, <2>2, <3>1, <4>1, StreamNumbers
    <3>2. CASE j = n
      <4>1. i \in 1 .. Len(stream)
        BY <1>5, <2>4, <3>2
      <4> QED BY <1>2, <2>2, <3>2, <4>1
    <3>3. CASE j \in 1 .. Len(stream)
      <4>1. i \in 1 .. Len(stream)
        BY <2>4, <3>3, StreamNumbers
      <4> QED BY <2>2, <2>4, <3>3, <4>1
    <3> QED BY <1>5, <3>1, <3>2, <3>3
  <2> QED BY <1>1, <2>1, <2>3, <2>4 DEF Numbered
<1>7. TailAccounted'
  <2>1. LastSeq' = seq + 1
    BY <1>1, <1>2 DEF LastSeq
  <2>2. gap'.count = 0
    BY DEF NoGap
  <2>3. ~ForgottenAt(LastSeq + 1)'
    BY <2>1, StreamNumbers DEF ForgottenAt, StreamIInv, Numbered
  <2> QED BY <2>1, <2>2, <2>3, StreamNumbers DEF TailAccounted
<1>8. GapExactAt(n)' /\ HoleReportedAt(n)' /\ GapExactAt(n + 1)' /\ HoleReportedAt(n + 1)'
  <2>1. ~IsGap(n)' /\ IsGap(n + 1)'
    BY <1>2 DEF IsGap
  <2>2. n + 1 \in DOMAIN stream' /\ n + 1 > 1 /\ (n + 1) - 1 = n
    BY <1>1, StreamNumbers
  <2> QED BY <1>2, <1>4, <2>1, <2>2 DEF GapExactAt, HoleReportedAt
<1>9. GapExact' /\ HolesReported'
  BY <1>1, <1>3, <1>5, <1>8, OldReports DEF GapExact, HolesReported
<1> QED BY <1>6, <1>7, <1>9 DEF StreamIInv

(* Every step keeps the stream's strengthened invariant.                   *)
LEMMA StreamStep ==
  ASSUME TypeOK, StreamIInv, [Next]_vars
  PROVE  StreamIInv'
<1>1. CASE Lose
  BY <1>1, LoseStream
<1>2. ASSUME NEW e \in Events, Persist(e) \/ Recover(e)
      PROVE  StreamIInv'
  <2>1. PICK n \in Nat : n = Len(stream) + 1
    BY StreamNumbers
  <2>2. CASE Persist(e)
    <3>1. /\ stream' = Append(stream, Plain(seq, e)) /\ gap = NoGap /\ gap' = NoGap
          /\ seq' = seq + 1 /\ forgotten' = forgotten
      BY <2>2 DEF Persist
    <3> QED BY <2>1, <3>1, KeepOne
  <2>3. CASE Recover(e)
    <3>1. gap' = NoGap /\ seq' = seq + 2
      BY <2>3 DEF Recover
    <3>2. \/ /\ stream' = stream \o <<Plain(seq, e), GapRecord(seq + 1, gap)>>
             /\ forgotten' = forgotten
          \/ /\ stream' = Append(stream, Plain(seq, e))
             /\ forgotten' = forgotten \cup {GapRecord(seq + 1, gap)}
      BY <2>3 DEF Recover
    <3> QED BY <2>1, <3>1, <3>2, KeepOne, KeepTwo
  <2> QED BY <1>2, <2>2, <2>3
<1>3. CASE /\ UNCHANGED <<seq, failing, stream, offered, forgotten>>
           /\ gap'.count = gap.count
  <2>1. Extends
    BY <1>3, StreamNumbers DEF Extends, TypeOK
  <2>2. Numbered'
    BY <1>3 DEF StreamIInv, Numbered
  <2>3. TailAccounted'
    BY <1>3 DEF StreamIInv, TailAccounted, LastSeq, ForgottenAt
  <2>4. GapExact' /\ HolesReported'
    BY <1>3, <2>1, OldReports, StreamNumbers DEF GapExact, HolesReported
  <2> QED BY <2>2, <2>3, <2>4 DEF StreamIInv
<1> QED BY <1>1, <1>2, <1>3, Steps DEF Written

(* The stream's strengthened invariant holds of every reachable state.     *)
LEMMA StreamInductive == Spec => []StreamIInv
<1>1. Init => StreamIInv
  <2> SUFFICES ASSUME Init PROVE StreamIInv
    OBVIOUS
  <2>1. stream = <<>> /\ DOMAIN stream = {} /\ forgotten = {} /\ seq = 1
    BY DEF Init
  <2>2. gap.count = 0 /\ LastSeq = 0
    BY DEF Init, NoGap, LastSeq
  <2>3. (IF ForgottenAt(LastSeq + 1) THEN 1 ELSE 0) = 0
    BY <2>1 DEF ForgottenAt
  <2>4. TailAccounted
    <3> DEFINE lostReport == IF ForgottenAt(LastSeq + 1) THEN 1 ELSE 0
    <3>1. lostReport = 0
      BY <2>3
    <3>2. gap.count = ((seq - 1) - LastSeq) - 0
      BY <2>1, <2>2
    <3> QED BY <3>1, <3>2 DEF TailAccounted
  <2> QED BY <2>1, <2>4 DEF StreamIInv, Numbered, GapExact, HolesReported
<1>2. TypeOK /\ StreamIInv /\ [Next]_vars => StreamIInv'
  BY StreamStep
<1> QED BY <1>1, <1>2, TypeCorrect, PTL DEF Spec

(* Every audit_gap record of the stream follows the record that ended the  *)
(* outage and counts its failed appends exactly.                           *)
THEOREM GapsExact == Spec => []GapExact
<1>1. StreamIInv => GapExact
  BY DEF StreamIInv
<1> QED BY <1>1, StreamInductive, PTL

(* A hole in the persisted numbering is always reported by the record      *)
(* behind the one that closes it, or that record's own number is missing.  *)
THEOREM NoSilentLoss == Spec => []HolesReported
<1>1. StreamIInv => HolesReported
  BY DEF StreamIInv
<1> QED BY <1>1, StreamInductive, PTL
-----------------------------------------------------------------------------
(* The numbers handed to the exporter are those drawn, each once, in the   *)
(* order in which they were drawn.                                         *)
Offered == HasOtlp => Len(offered) = seq - 1 /\ \A i \in DOMAIN offered : offered[i] = i

(* Every step offers what it numbers.                                      *)
LEMMA OfferStep ==
  ASSUME TypeOK, Offered, [Next]_vars
  PROVE  Offered'
<1> SUFFICES ASSUME HasOtlp PROVE Offered'
  BY DEF Offered
<1>0. /\ offered \in Seq(Nat) /\ seq \in Nat \ {0} /\ Len(offered) = seq - 1
      /\ DOMAIN offered = 1 .. seq - 1 /\ \A i \in 1 .. seq - 1 : offered[i] = i
  BY DEF TypeOK, Offered
<1>1. ASSUME offered' = offered \o <<seq>>, seq' = seq + 1 PROVE Offered'
  <2>1. /\ Len(offered') = seq /\ DOMAIN offered' = 1 .. seq
        /\ \A i \in 1 .. seq - 1 : offered'[i] = offered[i]
        /\ offered'[seq] = seq
    BY <1>0, <1>1
  <2> QED BY <1>0, <1>1, <2>1 DEF Offered
<1>2. ASSUME offered' = offered \o <<seq, seq + 1>>, seq' = seq + 2 PROVE Offered'
  <2>1. /\ Len(offered') = seq + 1 /\ DOMAIN offered' = 1 .. seq + 1
        /\ \A i \in 1 .. seq - 1 : offered'[i] = offered[i]
        /\ offered'[seq] = seq /\ offered'[seq + 1] = seq + 1
    <3>1. Len(offered) + 1 = seq /\ Len(offered) + 2 = seq + 1 /\ seq + 1 \in Nat
      BY <1>0
    <3>2. offered' \in Seq(Nat)
      BY <1>0, <1>2, <3>1, AppendTwo
    <3> QED BY <1>0, <1>2, <3>1, <3>2, AppendTwo
  <2> QED BY <1>0, <1>2, <2>1 DEF Offered
<1>3. CASE Lose
  BY <1>1, <1>3 DEF Lose, Offer
<1>4. ASSUME NEW e \in Events, Persist(e) \/ Recover(e) PROVE Offered'
  BY <1>1, <1>2, <1>4 DEF Persist, Recover, Offer
<1>5. CASE UNCHANGED <<seq, offered>>
  BY <1>5 DEF Offered
<1> QED BY <1>3, <1>4, <1>5, Steps DEF Written

(* File order, export order and sequence order are one (the comment on     *)
(* write, audit.rs), and the export skips no number.                       *)
THEOREM OrdersAgree == Spec => []SequenceOrder
<1>1. Init => Offered
  BY DEF Init, Offered
<1>2. StreamIInv /\ Offered => SequenceOrder
  BY DEF StreamIInv, Numbered, Offered, SequenceOrder
<1> QED BY <1>1, <1>2, OfferStep, StreamInductive, TypeCorrect, PTL DEF Spec
-----------------------------------------------------------------------------
(* The Auditor implements the ledger.                                      *)

Entries == [seq : Nat, report : BOOLEAN, count : Nat]

(* Every record shows in the ledger as an entry of the right shape.        *)
LEMMA EntryType ==
  ASSUME NEW r \in Record
  PROVE  AsEntry(r) \in Entries
BY DEF AsEntry, Entries, Record

(* A stream maps to a ledger of the same length, entry by entry.           *)
LEMMA LedgerType ==
  ASSUME NEW s \in Seq(Record)
  PROVE  /\ AsLedger(s) \in Seq(Entries)
         /\ Len(AsLedger(s)) = Len(s)
         /\ \A i \in 1 .. Len(s) : AsLedger(s)[i] = AsEntry(s[i])
<1>1. Len(s) \in Nat /\ DOMAIN s = 1 .. Len(s)
  OBVIOUS
<1>2. \A i \in 1 .. Len(s) : AsEntry(s[i]) \in Entries
  BY EntryType
<1>3. AsLedger(s) = [i \in 1 .. Len(s) |-> AsEntry(s[i])]
  BY <1>1 DEF AsLedger
<1> QED BY <1>1, <1>2, <1>3

(* One record appended to the stream is one entry of the ledger.           *)
LEMMA LedgerAppend ==
  ASSUME NEW s \in Seq(Record), NEW r \in Record
  PROVE  AsLedger(Append(s, r)) = Append(AsLedger(s), AsEntry(r))
<1> DEFINE t == Append(s, r)
           u == Append(AsLedger(s), AsEntry(r))
<1>1. t \in Seq(Record) /\ Len(t) = Len(s) + 1 /\ t[Len(s) + 1] = r
      /\ Len(s) \in Nat /\ \A i \in 1 .. Len(s) : t[i] = s[i]
  OBVIOUS
<1>2. u \in Seq(Entries) /\ Len(u) = Len(s) + 1 /\ u[Len(s) + 1] = AsEntry(r)
      /\ \A i \in 1 .. Len(s) : u[i] = AsEntry(s[i])
  BY LedgerType, EntryType
<1>3. AsLedger(t) \in Seq(Entries) /\ Len(AsLedger(t)) = Len(t)
      /\ \A i \in 1 .. Len(t) : AsLedger(t)[i] = AsEntry(t[i])
  BY <1>1, LedgerType
<1> HIDE DEF t, u
<1>4. \A i \in 1 .. Len(t) : AsLedger(t)[i] = u[i]
  BY <1>1, <1>2, <1>3
<1>5. AsLedger(t) = u
  BY <1>1, <1>2, <1>3, <1>4, SeqEqual
<1> QED BY <1>5 DEF t, u

(* Two records appended to the stream are two entries of the ledger.       *)
LEMMA LedgerAppendTwo ==
  ASSUME NEW s \in Seq(Record), NEW a \in Record, NEW b \in Record
  PROVE  AsLedger(s \o <<a, b>>) = AsLedger(s) \o <<AsEntry(a), AsEntry(b)>>
<1> DEFINE t == s \o <<a, b>>
           u == AsLedger(s) \o <<AsEntry(a), AsEntry(b)>>
<1>0. Len(s) \in Nat
  OBVIOUS
<1>1. t \in Seq(Record) /\ Len(t) = Len(s) + 2
      /\ t[Len(s) + 1] = a /\ t[Len(s) + 2] = b
      /\ \A i \in 1 .. Len(s) : t[i] = s[i]
  BY AppendTwo
<1>2. u \in Seq(Entries) /\ Len(u) = Len(s) + 2
      /\ u[Len(s) + 1] = AsEntry(a) /\ u[Len(s) + 2] = AsEntry(b)
      /\ \A i \in 1 .. Len(s) : u[i] = AsEntry(s[i])
  <2>1. AsLedger(s) \in Seq(Entries) /\ Len(AsLedger(s)) = Len(s)
        /\ \A i \in 1 .. Len(s) : AsLedger(s)[i] = AsEntry(s[i])
    BY LedgerType
  <2>2. AsEntry(a) \in Entries /\ AsEntry(b) \in Entries
    BY EntryType
  <2> HIDE DEF u
  <2>3. u \in Seq(Entries) /\ Len(u) = Len(AsLedger(s)) + 2
        /\ u[Len(AsLedger(s)) + 1] = AsEntry(a) /\ u[Len(AsLedger(s)) + 2] = AsEntry(b)
        /\ \A i \in 1 .. Len(AsLedger(s)) : u[i] = AsLedger(s)[i]
    BY <2>1, <2>2, AppendTwo DEF u
  <2> QED BY <2>1, <2>3
<1>3. AsLedger(t) \in Seq(Entries) /\ Len(AsLedger(t)) = Len(t)
      /\ \A i \in 1 .. Len(t) : AsLedger(t)[i] = AsEntry(t[i])
  BY <1>1, LedgerType
<1> HIDE DEF t, u
<1>4. \A i \in 1 .. Len(t) : AsLedger(t)[i] = u[i]
  BY <1>0, <1>1, <1>2, <1>3
<1>5. AsLedger(t) = u
  BY <1>1, <1>2, <1>3, <1>4, SeqEqual
<1> QED BY <1>5 DEF t, u

(* What a plain and a gap record look like in the ledger.                  *)
LEMMA EntryFields ==
  ASSUME NEW n \in Nat, NEW e \in Events, NEW g \in Gap
  PROVE  /\ AsEntry(Plain(n, e)) = [seq |-> n, report |-> FALSE, count |-> 0]
         /\ AsEntry(GapRecord(n, g)) = [seq |-> n, report |-> TRUE, count |-> g.count]
<1>1. (Plain(n, e).event = "audit_gap") = FALSE /\ (GapRecord(n, g).event = "audit_gap") = TRUE
  BY RecordFields
<1>2. Plain(n, e).seq = n /\ Plain(n, e).count = 0
      /\ GapRecord(n, g).seq = n /\ GapRecord(n, g).count = g.count
  BY DEF Plain, GapRecord
<1> QED BY <1>1, <1>2 DEF AsEntry

(* Every step of the Auditor is a step of the ledger, or leaves it alone.  *)
LEMMA LedgerStep ==
  ASSUME TypeOK, [Next]_vars
  PROVE  [Ledger!LNext]_(Ledger!ledgerVars)
<1> USE DEF Ledger!LNext, Ledger!ledgerVars
<1>0. /\ stream \in Seq(Record) /\ seq \in Nat /\ seq + 1 \in Nat
      /\ gap \in Gap /\ NoGap \in Gap
  BY DEF TypeOK, Gap, NoGap
<1>1. CASE Lose
  <2>1. gap'.count = gap.count + 1
    BY <1>1, WriteGap
  <2>2. seq' = seq + 1 /\ stream' = stream
    BY <1>1 DEF Lose
  <2> QED BY <2>1, <2>2 DEF Ledger!LoseEntry
<1>2. ASSUME NEW e \in Events, Persist(e)
      PROVE  Ledger!KeepEntry
  <2>1. /\ gap = NoGap /\ gap' = NoGap /\ seq' = seq + 1
        /\ stream' = Append(stream, Plain(seq, e))
    BY <1>2 DEF Persist
  <2>2. AsLedger(stream') = Append(AsLedger(stream), AsEntry(Plain(seq, e)))
    BY <1>0, <2>1, LedgerAppend, RecordType
  <2>3. AsEntry(Plain(seq, e)) = [seq |-> seq, report |-> FALSE, count |-> 0]
    BY <1>0, EntryFields
  <2>4. gap.count = 0 /\ gap'.count = gap.count
    BY <2>1 DEF NoGap
  <2> QED BY <2>1, <2>2, <2>3, <2>4 DEF Ledger!KeepEntry, Ledger!Entry
<1>3. ASSUME NEW e \in Events, Recover(e)
      PROVE  Ledger!KeepAndReport
  <2>1. /\ gap' = NoGap /\ seq' = seq + 2
        /\ \/ stream' = stream \o <<Plain(seq, e), GapRecord(seq + 1, gap)>>
           \/ stream' = Append(stream, Plain(seq, e))
    BY <1>3 DEF Recover
  <2>2. /\ AsEntry(Plain(seq, e)) = [seq |-> seq, report |-> FALSE, count |-> 0]
        /\ AsEntry(GapRecord(seq + 1, gap))
             = [seq |-> seq + 1, report |-> TRUE, count |-> gap.count]
    BY <1>0, EntryFields
  <2>3. Plain(seq, e) \in Record /\ GapRecord(seq + 1, gap) \in Record
    BY <1>0, RecordType
  <2>4. \/ AsLedger(stream') = AsLedger(stream) \o
             <<AsEntry(Plain(seq, e)), AsEntry(GapRecord(seq + 1, gap))>>
        \/ AsLedger(stream') = Append(AsLedger(stream), AsEntry(Plain(seq, e)))
    BY <1>0, <2>1, <2>3, LedgerAppend, LedgerAppendTwo
  <2>5. gap'.count = 0
    BY <2>1 DEF NoGap
  <2> QED BY <2>1, <2>2, <2>4, <2>5 DEF Ledger!KeepAndReport, Ledger!Entry, Ledger!Report
<1>4. CASE /\ UNCHANGED <<seq, failing, stream, offered, forgotten>>
           /\ gap'.count = gap.count
  BY <1>4
<1> QED BY <1>1, <1>2, <1>3, <1>4, Steps DEF Written

(* The Auditor, with its gate, its concurrent calls and both kinds of      *)
(* persistence, implements the ledger that reports its own holes.          *)
THEOREM LedgerImplemented == Spec => ImplementsLedger
<1>1. Init => Ledger!LInit
  BY DEF Init, NoGap, AsLedger, Ledger!LInit
<1>2. TypeOK /\ [Next]_vars => [Ledger!LNext]_(Ledger!ledgerVars)
  BY LedgerStep
<1> QED BY <1>1, <1>2, TypeCorrect, PTL DEF Spec, ImplementsLedger, Ledger!Spec
-----------------------------------------------------------------------------
(* What Refused, a fold over a set, computes: it takes one record at a     *)
(* time, and which one first does not matter.                              *)

First(s) == CHOOSE r \in s : TRUE

(* One step of the fold, and the function it is a step of.                 *)
Adding(f, s) == IF s = {} THEN 0 ELSE First(s).refused + f[s \ {First(s)}]
IsTotal(f, S) == f = [s \in SUBSET S |-> Adding(f, s)]

(* The function of the fold exists for every finite set.                   *)
LEMMA TotalExists ==
  ASSUME NEW S, IsFiniteSet(S)
  PROVE  \E f : IsTotal(f, S)
<1> DEFINE n == Cardinality(S) + 1
           K == {k \in 1..n : \E f : f = [s \in UpToSize(S, k) |-> Adding(f, s)]}
<1>1. n \in Nat /\ 1 \in 1..n /\ n \in 1..n
  BY FS_CardinalityType
<1>2. \A s \in SUBSET S : IsFiniteSet(s) /\ Cardinality(s) \in Nat /\ Cardinality(s) < n
  BY FS_Subset, FS_CardinalityType
<1>3. 1 \in K
  <2> DEFINE f == [s \in UpToSize(S, 1) |-> 0]
  <2>1. \A s \in UpToSize(S, 1) : s = {}
    BY <1>2, FS_EmptySet DEF UpToSize
  <2>2. \A s \in UpToSize(S, 1) : Adding(f, s) = 0
    BY <2>1 DEF Adding
  <2>3. f = [s \in UpToSize(S, 1) |-> Adding(f, s)]
    <3> HIDE DEF n
    <3> QED
      BY <2>2, Zenon
  <2> HIDE DEF f, n
  <2> QED
    BY <1>1, <2>3, Zenon
<1>4. ASSUME NEW k \in 1..(n - 1), k \in K PROVE k + 1 \in K
  <2>1. PICK f : f = [s \in UpToSize(S, k) |-> Adding(f, s)]
    BY <1>4
  <2> DEFINE g == [s \in UpToSize(S, k + 1) |-> Adding(f, s)]
  <2>2. ASSUME NEW s \in UpToSize(S, k + 1) PROVE Adding(g, s) = Adding(f, s)
    <3> DEFINE rest == s \ {First(s)}
    <3>1. CASE s = {}
      BY <3>1 DEF Adding
    <3>2. CASE s # {}
      <4>1. First(s) \in s
        BY <3>2 DEF First
      <4>2. s \in SUBSET S /\ Cardinality(s) < k + 1 /\ Cardinality(s) \in Nat
        BY <1>2 DEF UpToSize
      <4>3. rest \in SUBSET S /\ Cardinality(rest) = Cardinality(s) - 1
        BY <1>2, <4>1, <4>2, FS_RemoveElement
      <4>4. k \in Nat
        BY <1>1
      <4>5. rest \in UpToSize(S, k) /\ rest \in UpToSize(S, k + 1)
        BY <4>2, <4>3, <4>4 DEF UpToSize
      <4>6. g[rest] = Adding(f, rest)
        BY <4>5
      <4>7. f[rest] = Adding(f, rest)
        BY <2>1, <4>5
      <4> QED
        BY <4>6, <4>7 DEF Adding
    <3> QED
      BY <3>1, <3>2
  <2>3. g = [s \in UpToSize(S, k + 1) |-> Adding(g, s)]
    BY <2>2, Zenon
  <2>4. k + 1 \in 1..n
    BY <1>1
  <2> HIDE DEF g, n
  <2> QED
    BY <2>3, <2>4, Zenon
<1>5. n \in K
  <2> HIDE DEF K, n
  <2> QED
    BY <1>1, <1>3, <1>4, UpTo
<1>6. UpToSize(S, n) = SUBSET S
  BY <1>2 DEF UpToSize
<1>7. \E f : f = [s \in UpToSize(S, n) |-> Adding(f, s)]
  BY <1>5
<1> HIDE DEF n
<1> QED
  BY <1>6, <1>7, Zenon DEF IsTotal

(* It is the same function on every set it is restricted to.               *)
LEMMA TotalUnique ==
  ASSUME NEW S, IsFiniteSet(S), NEW T \in SUBSET S,
         NEW f, IsTotal(f, S), NEW g, IsTotal(g, T)
  PROVE  \A s \in SUBSET T : f[s] = g[s]
<1> DEFINE Same == {s \in SUBSET T : f[s] = g[s]}
<1>1. IsFiniteSet(T)
  BY FS_Subset
<1>2. ASSUME NEW s \in SUBSET T, \A x \in s : s \ {x} \in Same PROVE s \in Same
  <2>1. s \in SUBSET S
    OBVIOUS
  <2>2. f[s] = Adding(f, s)
    BY <2>1 DEF IsTotal
  <2>3. g[s] = Adding(g, s)
    BY DEF IsTotal
  <2>4. s # {} => First(s) \in s
    BY DEF First
  <2>5. s # {} => f[s \ {First(s)}] = g[s \ {First(s)}]
    BY <1>2, <2>4
  <2>6. Adding(f, s) = Adding(g, s)
    BY <2>5 DEF Adding
  <2> QED
    BY <2>2, <2>3, <2>6
<1>3. \A s \in SUBSET T : s \in Same
  <2> HIDE DEF Same
  <2> QED
    BY <1>1, <1>2, SmallerFirst
<1> QED
  BY <1>3

(* Refused is that function.                                               *)
LEMMA RefusedTotal ==
  ASSUME NEW S, IsFiniteSet(S)
  PROVE  \E f : IsTotal(f, S) /\ \A s \in SUBSET S : f[s] = Refused(s)
<1>1. PICK f : IsTotal(f, S)
  BY TotalExists
<1>2. ASSUME NEW s \in SUBSET S PROVE f[s] = Refused(s)
  <2> DEFINE F == CHOOSE g : IsTotal(g, s)
  <2>1. IsFiniteSet(s)
    BY FS_Subset
  <2>2. IsTotal(F, s)
    BY <2>1, TotalExists
  <2>3. Refused(s) = F[s]
    BY DEF Refused, MapThenSumSet, MapThenFoldSet, IsTotal, Adding, First
  <2> HIDE DEF F
  <2>4. f[s] = F[s]
    BY <1>1, <2>2, TotalUnique
  <2> QED
    BY <2>3, <2>4
<1> QED
  BY <1>1, <1>2

(* It is the sum: any record can be taken out first.                       *)
LEMMA RefusedSum ==
  ASSUME NEW S \in SUBSET Record, IsFiniteSet(S)
  PROVE  /\ Refused({}) = 0
         /\ Refused(S) \in Nat
         /\ \A r \in S : Refused(S) = r.refused + Refused(S \ {r})
<1>1. PICK f : IsTotal(f, S) /\ \A s \in SUBSET S : f[s] = Refused(s)
  BY RefusedTotal
<1>2. \A s \in SUBSET S : f[s] = Adding(f, s)
  BY <1>1 DEF IsTotal
<1>3. f[{}] = 0
  BY <1>2 DEF Adding
<1>4. \A r \in S : r.refused \in Nat
  BY DEF Record
<1>5. \A s \in SUBSET S : f[s] \in Nat
  <2> DEFINE N == {s \in SUBSET S : f[s] \in Nat}
  <2>1. ASSUME NEW s \in SUBSET S, \A x \in s : s \ {x} \in N PROVE s \in N
    <3>1. CASE s = {}
      BY <1>3, <3>1
    <3>2. CASE s # {}
      <4> DEFINE w == First(s).refused
                 rest == f[s \ {First(s)}]
      <4>1. First(s) \in s
        BY <3>2 DEF First
      <4>2. w \in Nat /\ rest \in Nat
        BY <1>4, <2>1, <4>1
      <4>3. f[s] = w + rest
        BY <1>2, <3>2 DEF Adding
      <4> HIDE DEF w, rest
      <4> QED
        BY <4>2, <4>3
    <3> QED
      BY <3>1, <3>2
  <2>2. \A s \in SUBSET S : s \in N
    <3> HIDE DEF N
    <3> QED
      BY <2>1, SmallerFirst
  <2> QED
    BY <2>2
<1> DEFINE Sum(s) == \A r \in s : f[s] = r.refused + f[s \ {r}]
           P == {s \in SUBSET S : Sum(s)}
<1>6. ASSUME NEW s \in SUBSET S, \A x \in s : s \ {x} \in P PROVE s \in P
  <2>1. CASE s = {}
    BY <2>1
  <2>2. CASE s # {}
    <3> DEFINE y == First(s)
    <3>1. y \in s
      BY <2>2 DEF First
    <3>2. f[s] = y.refused + f[s \ {y}]
      BY <1>2, <2>2 DEF Adding
    <3> HIDE DEF y
    <3>3. ASSUME NEW x \in s, x # y PROVE f[s] = x.refused + f[s \ {x}]
      <4> DEFINE wx == x.refused
                 wy == y.refused
                 rest == f[(s \ {y}) \ {x}]
      <4>1. f[s \ {y}] = wx + rest
        BY <1>6, <3>1, <3>3
      <4>2. f[s \ {x}] = wy + f[(s \ {x}) \ {y}]
        BY <1>6, <3>1, <3>3
      <4>3. (s \ {x}) \ {y} = (s \ {y}) \ {x}
        OBVIOUS
      <4>4. wx \in Nat /\ wy \in Nat /\ rest \in Nat
        BY <1>4, <1>5, <3>1
      <4>5. f[s] = wy + f[s \ {y}]
        BY <3>2
      <4> HIDE DEF wx, wy, rest
      <4>6. f[s] = wy + (wx + rest)
        BY <4>1, <4>5
      <4>7. f[s \ {x}] = wy + rest
        BY <4>2, <4>3 DEF rest
      <4>8. wy + (wx + rest) = wx + (wy + rest)
        BY <4>4
      <4> QED
        BY <4>6, <4>7, <4>8 DEF wx
    <3> QED
      BY <3>2, <3>3
  <2> QED
    BY <2>1, <2>2
<1>7. \A s \in SUBSET S : s \in P
  <2> HIDE DEF P
  <2> QED
    BY <1>6, SmallerFirst
<1>8. Sum(S)
  BY <1>7
<1>9. Refused({}) = f[{}] /\ Refused(S) = f[S] /\ \A r \in S : Refused(S \ {r}) = f[S \ {r}]
  BY <1>1
<1> QED
  BY <1>3, <1>5, <1>8, <1>9

(* One more record adds what it counts.                                    *)
LEMMA RefusedAdd ==
  ASSUME NEW S \in SUBSET Record, IsFiniteSet(S), NEW r \in Record, r \notin S
  PROVE  /\ IsFiniteSet(S \cup {r})
         /\ Refused(S \cup {r}) = r.refused + Refused(S)
         /\ Refused(S) \in Nat
<1>1. IsFiniteSet(S \cup {r}) /\ S \cup {r} \in SUBSET Record
  BY FS_AddElement
<1>2. Refused(S \cup {r}) = r.refused + Refused((S \cup {r}) \ {r})
  BY <1>1, RefusedSum
<1>3. (S \cup {r}) \ {r} = S
  OBVIOUS
<1>4. Refused(S) \in Nat
  BY RefusedSum
<1> QED
  BY <1>1, <1>2, <1>3, <1>4

(* What the records of a sequence count.                                   *)
RefusedIn(s) == Refused({s[i] : i \in DOMAIN s})

(* A sequence holds finitely many records.                                 *)
LEMMA HeldFinite ==
  ASSUME NEW s \in Seq(Record)
  PROVE  IsFiniteSet({s[i] : i \in DOMAIN s}) /\ RefusedIn(s) \in Nat
<1> DEFINE S == {s[i] : i \in DOMAIN s}
           f == [i \in 1..Len(s) |-> s[i]]
<1>1. Len(s) \in Nat /\ DOMAIN s = 1..Len(s) /\ S \in SUBSET Record
  OBVIOUS
<1>2. IsFiniteSet(1..Len(s))
  BY <1>1, FS_Interval
<1>3. f \in Surjection(1..Len(s), S)
  BY <1>1 DEF Surjection
<1> HIDE DEF f, S
<1>4. IsFiniteSet(S)
  BY <1>2, <1>3, FS_Surjection
<1>5. Refused(S) \in Nat
  BY <1>1, <1>4, RefusedSum
<1> QED
  BY <1>4, <1>5 DEF RefusedIn, S

(* A record that is new to a sequence adds what it counts.                 *)
LEMMA RefusedAppend ==
  ASSUME NEW s \in Seq(Record), NEW r \in Record, \A i \in DOMAIN s : s[i] # r
  PROVE  RefusedIn(Append(s, r)) = r.refused + RefusedIn(s)
<1> DEFINE S == {s[i] : i \in DOMAIN s}
           t == Append(s, r)
<1>1. Len(s) \in Nat /\ DOMAIN s = 1..Len(s)
  OBVIOUS
<1>2. /\ DOMAIN t = 1..(Len(s) + 1) /\ t[Len(s) + 1] = r
      /\ \A i \in 1..Len(s) : t[i] = s[i]
  OBVIOUS
<1>3. IsFiniteSet(S)
  BY HeldFinite
<1>4. S \in SUBSET Record /\ r \notin S
  OBVIOUS
<1> HIDE DEF t
<1>5. {t[i] : i \in DOMAIN t} = S \cup {r}
  <2>1. \A i \in 1..(Len(s) + 1) : i \in 1..Len(s) \/ i = Len(s) + 1
    BY <1>1
  <2>2. Len(s) + 1 \in 1..(Len(s) + 1) /\ 1..Len(s) \subseteq 1..(Len(s) + 1)
    BY <1>1
  <2>3. \A i \in DOMAIN t : t[i] \in S \cup {r}
    BY <1>1, <1>2, <2>1
  <2>4. \A i \in DOMAIN s : s[i] \in {t[k] : k \in DOMAIN t}
    BY <1>1, <1>2, <2>2
  <2>5. r \in {t[k] : k \in DOMAIN t}
    BY <1>2, <2>2
  <2> QED
    BY <2>3, <2>4, <2>5
<1> HIDE DEF S
<1>6. Refused(S \cup {r}) = r.refused + Refused(S)
  BY <1>3, <1>4, RefusedAdd
<1> QED
  BY <1>5, <1>6 DEF RefusedIn, S, t

(* Appending two records at once is appending them one by one.             *)
LEMMA OneByOne ==
  ASSUME NEW S, NEW s \in Seq(S), NEW a \in S, NEW b \in S
  PROVE  s \o <<a, b>> = Append(Append(s, a), b)
<1> DEFINE one == Append(s, a)
           t == s \o <<a, b>>
           u == Append(one, b)
<1>1. /\ one \in Seq(S) /\ Len(one) = Len(s) + 1 /\ one[Len(s) + 1] = a
      /\ Len(s) \in Nat /\ \A i \in 1..Len(s) : one[i] = s[i]
  OBVIOUS
<1> HIDE DEF one
<1>2. /\ u \in Seq(S) /\ Len(u) = Len(one) + 1 /\ u[Len(one) + 1] = b
      /\ \A i \in 1..Len(one) : u[i] = one[i]
  BY <1>1
<1>3. /\ t \in Seq(S) /\ Len(t) = Len(s) + 2
      /\ t[Len(s) + 1] = a /\ t[Len(s) + 2] = b
      /\ \A i \in 1..Len(s) : t[i] = s[i]
  BY AppendTwo
<1> HIDE DEF t, u
<1>4. \A i \in 1..Len(t) : t[i] = u[i]
  <2>1. ASSUME NEW i \in 1..(Len(s) + 2) PROVE t[i] = u[i]
    <3>1. CASE i = Len(s) + 2
      BY <1>1, <1>2, <1>3, <3>1
    <3>2. CASE i = Len(s) + 1
      BY <1>1, <1>2, <1>3, <3>2
    <3>3. CASE i \in 1..Len(s)
      BY <1>1, <1>2, <1>3, <3>3
    <3> QED
      BY <1>1, <3>1, <3>2, <3>3
  <2> QED
    BY <1>3, <2>1
<1>5. t = u
  BY <1>1, <1>2, <1>3, <1>4, SeqEqual
<1> QED
  BY <1>5 DEF one, t, u

(* The strengthening behind RefusalsReported: the set summed is finite.    *)
RefusedInv == IsFiniteSet(forgotten) /\ RefusalsReported

(* Whatever a write does to gap, stream and forgotten, it moves counted    *)
(* refusals and loses none; the numbering makes every record a new one.    *)
LEMMA RefusedMoved ==
  ASSUME TypeOK, Numbered, IsFiniteSet(forgotten), Written
  PROVE  /\ IsFiniteSet(forgotten')
         /\ gap'.refused + RefusedIn(stream') + Refused(forgotten')
              = gap.refused + RefusedIn(stream) + Refused(forgotten)
<1>1. /\ stream \in Seq(Record) /\ forgotten \in SUBSET Record /\ gap \in Gap
      /\ gap.refused \in Nat /\ seq \in Nat /\ seq + 1 \in Nat
      /\ NoGap.refused = 0
  BY DEF TypeOK, Gap, NoGap
<1>2. /\ \A i \in DOMAIN stream : stream[i].seq < seq /\ stream[i].seq \in Nat
      /\ \A r \in forgotten : r.seq < seq
  BY StreamNumbers DEF Numbered
<1>3. Refused(forgotten) \in Nat
  BY <1>1, RefusedSum
<1>4. CASE Lose
  <2>1. gap'.refused = gap.refused
    BY <1>4, OpenGapType, TypeSplit DEF Lose
  <2> QED
    BY <1>4, <2>1 DEF Lose
<1>5. ASSUME NEW e \in Events, Persist(e) \/ Recover(e)
      PROVE  /\ IsFiniteSet(forgotten')
             /\ gap'.refused + RefusedIn(stream') + Refused(forgotten')
                  = gap.refused + RefusedIn(stream) + Refused(forgotten)
  <2> DEFINE p == Plain(seq, e)
             r == GapRecord(seq + 1, gap)
             one == Append(stream, p)
  <2>1. p \in Record /\ r \in Record
    BY <1>1, RecordType
  <2>2. p.seq = seq /\ p.refused = 0 /\ r.seq = seq + 1 /\ r.refused = gap.refused
    BY DEF Plain, GapRecord
  <2>3. /\ Persist(e) => gap' = gap /\ stream' = one /\ forgotten' = forgotten
        /\ Recover(e) => /\ gap' = NoGap
                         /\ \/ stream' = stream \o <<p, r>> /\ forgotten' = forgotten
                            \/ stream' = one /\ forgotten' = forgotten \cup {r}
    BY DEF Persist, Recover
  <2> HIDE DEF p, r
  <2>4. one \in Seq(Record) /\ stream \o <<p, r>> = Append(one, r)
    BY <1>1, <2>1, OneByOne
  <2>5. \A i \in DOMAIN one : one[i].seq <= seq
    <3>1. /\ DOMAIN one = 1..(Len(stream) + 1) /\ one[Len(stream) + 1] = p
          /\ \A i \in 1..Len(stream) : one[i] = stream[i]
      BY <1>1, <2>1
    <3>2. DOMAIN stream = 1..Len(stream) /\ Len(stream) \in Nat
      BY <1>1
    <3> HIDE DEF one
    <3>3. ASSUME NEW i \in 1..(Len(stream) + 1) PROVE one[i].seq <= seq
      <4>1. CASE i = Len(stream) + 1
        BY <1>1, <2>2, <3>1, <4>1
      <4>2. CASE i # Len(stream) + 1
        <5>1. i \in 1..Len(stream)
          BY <3>2, <4>2
        <5> QED
          BY <1>1, <1>2, <3>1, <3>2, <5>1
      <4> QED
        BY <4>1, <4>2
    <3> QED
      BY <3>1, <3>3
  <2>6. \A i \in DOMAIN stream : stream[i] # p
    BY <1>1, <1>2, <2>2
  <2>7. RefusedIn(one) = RefusedIn(stream) /\ RefusedIn(stream) \in Nat
    <3>1. RefusedIn(one) = p.refused + RefusedIn(stream)
      BY <1>1, <2>1, <2>6, RefusedAppend
    <3>2. RefusedIn(stream) \in Nat
      BY <1>1, HeldFinite
    <3> QED
      BY <2>2, <3>1, <3>2
  <2> HIDE DEF one
  <2>8. \A i \in DOMAIN one : one[i] # r
    BY <1>1, <2>2, <2>5
  <2>9. RefusedIn(Append(one, r)) = gap.refused + RefusedIn(stream)
    BY <2>1, <2>2, <2>4, <2>7, <2>8, RefusedAppend
  <2>10. r \notin forgotten
    BY <1>1, <1>2, <2>2
  <2>11. /\ IsFiniteSet(forgotten \cup {r})
         /\ Refused(forgotten \cup {r}) = gap.refused + Refused(forgotten)
    BY <1>1, <2>1, <2>2, <2>10, RefusedAdd
  <2>12. CASE gap' = gap /\ stream' = one /\ forgotten' = forgotten
    BY <2>7, <2>12
  <2>13. CASE gap' = NoGap /\ stream' = stream \o <<p, r>> /\ forgotten' = forgotten
    <3>1. RefusedIn(stream') = gap.refused + RefusedIn(stream)
      BY <2>4, <2>9, <2>13
    <3> QED
      BY <1>1, <1>3, <2>7, <2>13, <3>1
  <2>14. CASE gap' = NoGap /\ stream' = one /\ forgotten' = forgotten \cup {r}
    BY <1>1, <1>3, <2>7, <2>11, <2>14
  <2> QED
    BY <1>5, <2>3, <2>12, <2>13, <2>14
<1> QED
  BY <1>4, <1>5 DEF Written

(* Every step keeps the refusals counted.                                  *)
LEMMA RefusedStep ==
  ASSUME TypeOK, StreamIInv, RefusedInv, [Next]_vars
  PROVE  RefusedInv'
<1> USE DEF RefusedInv
<1>0. /\ RefusalsReported <=> refusals = gap.refused + RefusedIn(stream) + Refused(forgotten)
      /\ RefusalsReported' <=> refusals' = gap'.refused + RefusedIn(stream') + Refused(forgotten')
  BY DEF RefusalsReported, RefusedIn
<1>1. ASSUME NEW c \in Callers, Refuse(c) PROVE RefusedInv'
  <2>1. gap'.refused = gap.refused + 1
    BY <1>1, OpenGapType, TypeSplit DEF Refuse
  <2>2. refusals' = refusals + 1 /\ stream' = stream /\ forgotten' = forgotten
    BY <1>1 DEF Refuse
  <2>3. stream \in Seq(Record) /\ forgotten \in SUBSET Record /\ gap.refused \in Nat
    BY DEF TypeOK, Gap
  <2>4. RefusedIn(stream) \in Nat /\ Refused(forgotten) \in Nat
    BY <2>3, RefusedSum, HeldFinite
  <2> QED
    BY <1>0, <2>1, <2>2, <2>3, <2>4
<1>2. CASE Written /\ refusals' = refusals
  BY <1>0, <1>2, RefusedMoved DEF StreamIInv
<1>3. CASE \/ \E c \in Callers, s \in Scopes : Arrive(c, s)
           \/ Collector
           \/ ServeFailed
           \/ UNCHANGED vars
  <2>1. UNCHANGED <<gap, stream, forgotten, refusals>>
    BY <1>3 DEF Arrive, Collector, ServeFailed, vars, auditor
  <2> QED
    BY <1>0, <2>1
<1>4. CASE Initialize \/ Shutdown \/ \E c \in Callers : RecordCall(c)
  <2>1. refusals' = refusals
    BY <1>4 DEF Initialize, Shutdown, RecordCall, WriteEvent
  <2>2. Written
    BY <1>4, ServerWrites
  <2> QED
    BY <1>2, <2>1, <2>2
<1> QED
  BY <1>1, <1>2, <1>3, <1>4 DEF Next

(* Every call the gate has turned away is counted exactly once: in the     *)
(* pending gap, in an audit_gap record, or in one whose own append failed, *)
(* for any number of calls, outages and recoveries (audit.rs, refused and  *)
(* update_gap).                                                            *)
THEOREM RefusalsAddUp == Spec => []RefusalsReported
<1>1. Init => RefusedInv
  <2> SUFFICES ASSUME Init PROVE RefusedInv
    OBVIOUS
  <2>1. stream = <<>> /\ forgotten = {} /\ gap.refused = 0 /\ refusals = 0
    BY DEF Init, NoGap
  <2>2. {stream[i] : i \in DOMAIN stream} = {}
    BY <2>1
  <2>3. IsFiniteSet({}) /\ {} \in SUBSET Record
    BY FS_EmptySet
  <2>4. Refused({}) = 0
    BY <2>3, RefusedSum
  <2> QED
    BY <2>1, <2>2, <2>3, <2>4 DEF RefusedInv, RefusalsReported
<1>2. TypeOK /\ StreamIInv /\ [Next]_vars /\ RefusedInv => RefusedInv'
  BY RefusedStep
<1>3. RefusedInv => RefusalsReported
  BY DEF RefusedInv
<1> QED
  BY <1>1, <1>2, <1>3, TypeCorrect, StreamInductive, PTL DEF Spec
=============================================================================
