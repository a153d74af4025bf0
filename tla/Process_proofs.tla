--------------------------- MODULE Process_proofs ---------------------------
(***************************************************************************)
(* Proofs about Process for every set of configurations the server may be  *)
(* started with, every queue and every number of calls: nothing is served  *)
(* that was not checked, and the counts the collector gets.                *)
(***************************************************************************)
EXTENDS Process, SequenceTheorems, TLAPS

(* build_registry: with no selector claimed twice, every entry is found    *)
(* under its own name and its alias.                                       *)
RegistryBuilt ==
  \A i \in DOMAIN Entries(conf.servers) :
    \A s \in Selectors(Entries(conf.servers)[i]) : registry[s] = Entries(conf.servers)[i]

LEMMA NoSelectorTwice ==
  ASSUME NEW servers, NEW credentials, ~RegistryFails(servers, credentials),
         NEW i \in DOMAIN Entries(servers), NEW s \in Selectors(Entries(servers)[i])
  PROVE  BuildRegistry(servers)[s] = Entries(servers)[i]
<1> DEFINE entries == Entries(servers)
           all == {entries[j] : j \in DOMAIN entries}
           named == UNION {Selectors(entries[j]) : j \in DOMAIN entries}
           Found(k) == CHOOSE e \in all : k \in Selectors(e)
<1>1. \A j \in DOMAIN entries : s \in Selectors(entries[j]) => j = i
  BY DEF RegistryFails
<1>2. BuildRegistry(servers) = [k \in named |-> Found(k)]
  BY DEF BuildRegistry
<1> HIDE DEF entries
<1>3. entries[i] \in all /\ s \in named /\ s \in Selectors(entries[i])
  BY DEF entries
<1>4. \A e \in all : s \in Selectors(e) => e = entries[i]
  BY <1>1 DEF entries
<1>5. Found(s) \in all /\ s \in Selectors(Found(s))
  BY <1>3
<1>6. Found(s) = entries[i]
  BY <1>4, <1>5
<1> HIDE DEF Found, named
<1> QED BY <1>2, <1>3, <1>6 DEF entries

(* The signal probed next is one that is on and was not probed yet.        *)
LEMMA NextIsDue ==
  ASSUME probed \subseteq On(env), probed # On(env)
  PROVE  NextSignal \in On(env) \ probed
<1> DEFINE due == {i \in DOMAIN Signals : Signals[i] \in On(env) \ probed}
<1>1. DOMAIN Signals = {1, 2, 3}
  BY DEF Signals
<1>2. On(env) \subseteq {Signals[i] : i \in DOMAIN Signals}
  BY DEF On, SignalNames
<1>3. due # {} /\ due \subseteq {1, 2, 3}
  BY <1>1, <1>2
<1> HIDE DEF due
<1>4. \E i \in due : \A j \in due : i <= j
  <2>1. CASE 1 \in due
    <3>1. \A j \in due : 1 <= j
      BY <1>3
    <3> QED BY <2>1, <3>1
  <2>2. CASE 1 \notin due /\ 2 \in due
    <3>1. \A j \in due : 2 <= j
      BY <1>3, <2>2
    <3> QED BY <2>2, <3>1
  <2>3. CASE 1 \notin due /\ 2 \notin due
    <3>1. \A j \in due : j = 3
      BY <1>3, <2>3
    <3>2. PICK i : i \in due
      BY <1>3
    <3>3. 3 \in due
      BY <3>1, <3>2
    <3>4. \A j \in due : 3 <= j
      BY <3>1
    <3> QED BY <3>3, <3>4
  <2> QED BY <2>1, <2>2, <2>3
<1>5. (CHOOSE i \in due : \A j \in due : i <= j) \in due
  BY <1>4
<1> QED BY <1>5 DEF NextSignal, due
-----------------------------------------------------------------------------
(* How far the start has come, and what that says of the configuration.    *)
Probing == {"main", "cli", "telemetry"}
Checked ==
  /\ pc \in Probing => probed = {} /\ exporters = {}
  /\ pc = "probe" => probed \subseteq On(env) /\ probed # On(env)
  /\ pc \in {"transport", "auth", "audit", "servers", "intervals", "bind"} => probed = On(env)
  /\ pc \in {"audit", "servers", "intervals", "bind"} =>
       (IsHttp => AuthError(conf.write, conf.read, conf.insecure) = "none")
  /\ pc \in {"servers", "intervals", "bind"} =>
       (AuditAsked => AuditStarts(conf.audit, conf.transport, "audit" \in exporters))
  /\ pc \in {"intervals", "bind"} => RegistryBuilt

(* The start as an invariant: what was bound passed every check.           *)
StartIInv ==
  /\ Checked
  /\ bound => /\ pc \in {"serving", "stopped", "flush", "dropping", "exited"}
              /\ probed = On(env)
              /\ IsHttp => AuthError(conf.write, conf.read, conf.insecure) = "none"
              /\ RegistryBuilt
  /\ pc = "serving" /\ AuditAsked =>
       AuditStarts(conf.audit, conf.transport, "audit" \in exporters)

(* A process that has not started has passed no check.                     *)
LEMMA StartInit == Init => StartIInv
BY DEF Init, StartIInv, Checked, Probing

(* A step that leaves the configuration and the place alone.               *)
LEMMA StaysChecked ==
  ASSUME StartIInv, UNCHANGED startVars,
         \/ UNCHANGED <<pc, exporters>>
         \/ pc' \in {"stopped", "flush", "dropping", "exited"} /\ (bound => bound')
  PROVE  StartIInv'
BY DEF StartIInv, Checked, Probing, RegistryBuilt, IsHttp, AuditAsked, startVars

(* Every step past a check has the check behind it.                        *)
LEMMA StartNext == StartIInv /\ [Next]_vars => StartIInv'
<1> SUFFICES ASSUME StartIInv, [Next]_vars PROVE StartIInv'
  OBVIOUS
<1> USE DEF GoTo, GiveUp, Check, serving
<1>1. CASE FoldHomeEnv
  BY <1>1 DEF FoldHomeEnv, StartIInv, Checked, Probing
<1>2. CASE ParseCli
  BY <1>2 DEF ParseCli, StartIInv, Checked, Probing, startVars
<1>3. CASE Telemetry
  BY <1>3 DEF Telemetry, StartIInv, Checked, Probing, startVars
<1>4. CASE ProbeFails
  BY <1>4 DEF ProbeFails, StartIInv, Checked, Probing, startVars
<1>5. CASE StartSignal
  <2>1. /\ pc = "probe" /\ probed' = probed \cup {NextSignal} /\ ~bound
        /\ pc' \in {"panicked", "transport", "probe"} /\ UNCHANGED <<conf, env, registry, bound>>
        /\ pc' = "transport" => probed' = On(env)
        /\ pc' = "probe" => probed' # On(env)
    BY <1>5 DEF StartSignal, StartIInv
  <2>2. probed' \subseteq On(env)
    BY <2>1, NextIsDue DEF StartIInv, Checked
  <2> QED BY <2>1, <2>2 DEF StartIInv, Checked, Probing
<1>6. CASE CheckTransport
  BY <1>6 DEF CheckTransport, StartIInv, Checked, Probing
<1>7. CASE CheckAuth
  BY <1>7 DEF CheckAuth, StartIInv, Checked, Probing, IsHttp
<1>8. CASE BuildAuditor
  BY <1>8 DEF BuildAuditor, StartIInv, Checked, Probing, IsHttp, AuditAsked
<1>9. CASE CheckServers
  <2>1. CASE RegistryFails(conf.servers, conf.credentials)
    BY <1>9, <2>1 DEF CheckServers, StartIInv, Checked, Probing
  <2>2. CASE ~RegistryFails(conf.servers, conf.credentials)
    <3>1. /\ pc = "servers" /\ pc' = "intervals" /\ registry' = BuildRegistry(conf.servers)
          /\ UNCHANGED <<conf, env, probed, bound, exporters>>
      BY <1>9, <2>2 DEF CheckServers
    <3>2. RegistryBuilt'
      BY <2>2, <3>1, NoSelectorTwice DEF RegistryBuilt
    <3> QED BY <3>1, <3>2 DEF StartIInv, Checked, Probing, IsHttp, AuditAsked
  <2> QED BY <2>1, <2>2
<1>10. CASE CheckIntervals
  BY <1>10 DEF CheckIntervals, StartIInv, Checked, Probing, IsHttp, AuditAsked, RegistryBuilt
<1>11. CASE Listen
  BY <1>11 DEF Listen, Stopped, StartIInv, Checked, Probing, IsHttp, AuditAsked, RegistryBuilt
<1>12. CASE OpenStdio
  BY <1>12 DEF OpenStdio, StartIInv, Checked, Probing, IsHttp, AuditAsked, RegistryBuilt
<1>13. CASE StopServing \/ AuditShutdown \/ RunReturns \/ DropRuntime
  BY <1>13, StaysChecked DEF StopServing, AuditShutdown, RunReturns, DropRuntime, Stopped, startVars
<1>14. CASE MetricsFlushed \/ BudgetSpent \/ \E x \in {"logs", "audit", "traces"} : Flushed(x)
  <2>1. UNCHANGED startVars /\ pc' = pc /\ pc = "flush"
    BY <1>14 DEF MetricsFlushed, BudgetSpent, Flushed, Flushing
  <2> QED BY <2>1, StaysChecked DEF startVars
<1>15. CASE ReaderEnds \/ FinalCollect \/ Tick \/ Collect \/ Queue \/ ExportNext
  <2>1. UNCHANGED startVars /\ UNCHANGED <<pc, exporters>>
    BY <1>15 DEF ReaderEnds, FinalCollect, Tick, Collect, Queue, ExportNext, others
  <2> QED BY <2>1, StaysChecked
<1>16. CASE CallStarts \/ CallEnds \/ Signal \/ PeerWrites
  <2>1. UNCHANGED startVars /\ UNCHANGED <<pc, exporters>>
    BY <1>16 DEF CallStarts, CallEnds, Signal, PeerWrites
  <2> QED BY <2>1, StaysChecked
<1>17. CASE PeerCloses
  <2>1. UNCHANGED startVars /\ exporters' = exporters /\ (pc' = pc \/ pc' = "stopped")
    BY <1>17 DEF PeerCloses, Stopped
  <2> QED BY <2>1, StaysChecked DEF startVars
<1>18. CASE UNCHANGED vars
  BY <1>18, StaysChecked DEF vars
<1> QED BY <1>1, <1>2, <1>3, <1>4, <1>5, <1>6, <1>7, <1>8, <1>9, <1>10, <1>11, <1>12, <1>13, <1>14,
           <1>15, <1>16, <1>17, <1>18 DEF Next, Start, Finish

(* ServesOnlyWhatWasChecked for every configuration (serve, run).          *)
THEOREM ChecksHold == Spec => []ServesOnlyWhatWasChecked
<1>1. Spec => []StartIInv
  BY StartInit, StartNext, PTL DEF Spec
<1>2. StartIInv => ServesOnlyWhatWasChecked
  <2> SUFFICES ASSUME StartIInv, bound PROVE ServesOnlyWhatWasChecked
    BY DEF ServesOnlyWhatWasChecked
  <2>1. /\ ~Disabled(env) => probed = {s \in SignalNames : SignalOn(env, s)}
        /\ Disabled(env) => probed = {}
    BY DEF StartIInv, On
  <2>2. conf.audit.kind = "nofile" /\ FailModeFor(conf.audit, conf.transport) = "closed"
          /\ pc = "serving" => "audit" \in exporters
    BY DEF StartIInv, AuditStarts, AuditAsked
  <2> QED BY <2>1, <2>2 DEF ServesOnlyWhatWasChecked, StartIInv, RegistryBuilt
<1> QED BY <1>1, <1>2, PTL
-----------------------------------------------------------------------------
(* A channel of snapshots, none smaller than the one before it.            *)
Rising(s) == \A i, j \in DOMAIN s : i <= j => s[i] <= s[j]
AllUpTo(s, n) == \A i \in DOMAIN s : s[i] <= n
AllFrom(s, n) == \A i \in DOMAIN s : n <= s[i]

(* A snapshot that is at least all of the channel goes to its end.         *)
LEMMA QueuedLast ==
  ASSUME NEW s \in Seq(Nat), NEW e \in Nat, Rising(s), AllUpTo(s, e)
  PROVE  LET t == Append(s, e)
         IN /\ t \in Seq(Nat) /\ Rising(t) /\ AllUpTo(t, e) /\ t # <<>> /\ t[Len(t)] = e
            /\ \A n \in Nat : AllFrom(s, n) /\ n <= e => AllFrom(t, n)
<1> DEFINE t == Append(s, e)
<1>1. /\ t \in Seq(Nat) /\ Len(t) = Len(s) + 1 /\ t # <<>> /\ Len(s) \in Nat
      /\ \A i \in 1..Len(s) : t[i] = s[i]
      /\ t[Len(s) + 1] = e
  BY AppendProperties
<1>2. DOMAIN s = 1..Len(s) /\ DOMAIN t = 1..(Len(s) + 1)
  BY <1>1
<1> HIDE DEF t
<1>3. \A i \in DOMAIN t : (i \in DOMAIN s /\ t[i] = s[i]) \/ (i = Len(s) + 1 /\ t[i] = e)
  BY <1>1, <1>2
<1>4. AllUpTo(t, e) /\ \A n \in Nat : AllFrom(s, n) /\ n <= e => AllFrom(t, n)
  BY <1>3 DEF AllUpTo, AllFrom
<1>5. ASSUME NEW i \in DOMAIN t, NEW j \in DOMAIN t, i <= j PROVE t[i] <= t[j]
  <2>1. CASE j = Len(s) + 1
    BY <1>1, <1>4, <2>1 DEF AllUpTo
  <2>2. CASE j \in DOMAIN s
    <3>1. i \in DOMAIN s /\ t[i] = s[i] /\ t[j] = s[j]
      BY <1>1, <1>2, <1>5, <2>2
    <3> QED BY <1>5, <2>2, <3>1 DEF Rising
  <2> QED BY <1>3, <2>1, <2>2
<1> QED BY <1>1, <1>4, <1>5 DEF t, Rising

(* The oldest snapshot leaves the channel.                                 *)
LEMMA SentFirst ==
  ASSUME NEW s \in Seq(Nat), s # <<>>, Rising(s)
  PROVE  LET t == Tail(s)
         IN /\ t \in Seq(Nat) /\ Rising(t) /\ AllFrom(t, Head(s)) /\ Head(s) \in Nat
            /\ \A n : (AllUpTo(s, n) => AllUpTo(t, n)) /\ (AllFrom(s, n) => AllFrom(t, n))
            /\ \A n : (AllUpTo(s, n) => Head(s) <= n) /\ (AllFrom(s, n) => n <= Head(s))
            /\ IF t = <<>> THEN Head(s) = s[Len(s)] ELSE t[Len(t)] = s[Len(s)]
<1> DEFINE t == Tail(s)
<1>1. /\ t \in Seq(Nat) /\ Len(t) = Len(s) - 1 /\ Head(s) = s[1] /\ Head(s) \in Nat
      /\ \A i \in 1..Len(t) : t[i] = s[i + 1]
      /\ Len(s) \in Nat /\ Len(s) # 0 /\ (t = <<>> <=> Len(t) = 0)
  <2>1. t \in Seq(Nat) /\ Len(t) = Len(s) - 1 /\ Len(s) \in Nat /\ Len(s) # 0
        /\ \A i \in 1..Len(t) : t[i] = s[i + 1]
    OBVIOUS
  <2>2. Head(s) = s[1] /\ Head(s) \in Nat
    OBVIOUS
  <2> HIDE DEF t
  <2>3. t = <<>> <=> Len(t) = 0
    BY <2>1, EmptySeq
  <2> QED BY <2>1, <2>2, <2>3
<1>2. DOMAIN s = 1..Len(s) /\ DOMAIN t = 1..(Len(s) - 1)
  BY <1>1
<1> HIDE DEF t
<1>3. \A i \in DOMAIN t : i + 1 \in DOMAIN s /\ t[i] = s[i + 1] /\ 1 <= i + 1
  BY <1>1, <1>2
<1>4. 1 \in DOMAIN s
  BY <1>1, <1>2
<1>5. Rising(t)
  <2> SUFFICES ASSUME NEW i \in DOMAIN t, NEW j \in DOMAIN t, i <= j PROVE t[i] <= t[j]
    BY DEF Rising
  <2>1. i + 1 <= j + 1
    BY <1>2
  <2> QED BY <1>3, <2>1 DEF Rising
<1>6. AllFrom(t, s[1])
  BY <1>3, <1>4 DEF Rising, AllFrom
<1>7. \A n : (AllUpTo(s, n) => AllUpTo(t, n)) /\ (AllFrom(s, n) => AllFrom(t, n))
  BY <1>3 DEF AllUpTo, AllFrom
<1>8. \A n : (AllUpTo(s, n) => s[1] <= n) /\ (AllFrom(s, n) => n <= s[1])
  BY <1>4 DEF AllUpTo, AllFrom
<1>9. IF t = <<>> THEN s[1] = s[Len(s)] ELSE t[Len(t)] = s[Len(s)]
  <2>1. CASE t = <<>>
    <3>1. Len(s) = 1
      BY <1>1, <2>1
    <3> QED BY <2>1, <3>1
  <2>2. CASE t # <<>>
    <3>1. Len(t) \in 1..Len(t) /\ Len(t) + 1 = Len(s)
      BY <1>1, <2>2
    <3> QED BY <1>1, <2>2, <3>1
  <2> QED BY <2>1, <2>2
<1> QED BY <1>1, <1>5, <1>6, <1>7, <1>8, <1>9 DEF t

(* The snapshots on their way rise, from what was exported to what was     *)
(* counted, and the last collection is at the end of them until the flush  *)
(* has sent it.                                                            *)
Ended == {"flush", "dropping", "exited"}
CountsIInv ==
  /\ counts \in Nat /\ running \in Nat /\ snapshot \in Nat /\ answered \in Nat /\ exported \in Nat
  /\ lossy \in BOOLEAN /\ queue \in Seq(Nat) /\ Rising(queue)
  /\ answered <= counts /\ snapshot <= counts /\ exported <= counts
  /\ AllUpTo(queue, counts) /\ AllFrom(queue, exported)
  /\ reader # "drained" => AllUpTo(queue, snapshot) /\ exported <= snapshot
  /\ reader = "drained" => pc \in Ended
  /\ reader = "drained" /\ ~lossy =>
       answered <= exported \/ (queue # <<>> /\ answered <= queue[Len(queue)])
  /\ reader = "drained" /\ ~lossy /\ (pc # "flush" \/ "metrics" \notin exporters) => queue = <<>>

(* A process that has counted nothing has sent all its counts.             *)
LEMMA CountsInit == Init => CountsIInv
<1> SUFFICES ASSUME Init PROVE CountsIInv
  OBVIOUS
<1>1. queue = <<>> /\ queue \in Seq(Nat) /\ DOMAIN queue = {}
  BY DEF Init
<1>2. /\ counts = 0 /\ running = 0 /\ snapshot = 0 /\ answered = 0 /\ exported = 0
      /\ lossy = FALSE /\ reader = "off"
  BY DEF Init
<1>3. /\ Rising(queue) /\ AllUpTo(queue, counts) /\ AllUpTo(queue, snapshot)
      /\ AllFrom(queue, exported)
  BY <1>1 DEF Rising, AllUpTo, AllFrom
<1>4. reader # "drained" /\ lossy \in BOOLEAN
  BY <1>2
<1>5. /\ counts \in Nat /\ running \in Nat /\ snapshot \in Nat /\ answered \in Nat /\ exported \in Nat
      /\ answered <= counts /\ snapshot <= counts /\ exported <= counts /\ exported <= snapshot
  BY <1>2
<1>6. queue \in Seq(Nat)
  BY <1>1
<1> QED BY <1>3, <1>4, <1>5, <1>6 DEF CountsIInv

(* A step that touches neither the metrics nor, once the last collection   *)
(* was made, what tells whether their exporter is at it.                   *)
LEMMA CountsStay ==
  ASSUME CountsIInv, UNCHANGED metricVars, running' \in Nat, answered' \in {answered, counts},
         reader = "drained" => answered' = answered /\ UNCHANGED <<pc, exporters>>
  PROVE  CountsIInv'
BY DEF CountsIInv, metricVars, Rising, AllUpTo, AllFrom

(* A snapshot is queued, or lost.                                          *)
LEMMA EnqueueRises ==
  ASSUME CountsIInv, NEW value \in Nat, Enqueue(value), AllUpTo(queue, value), exported <= value
  PROVE  /\ queue' \in Seq(Nat) /\ Rising(queue') /\ AllUpTo(queue', value)
         /\ AllFrom(queue', exported) /\ lossy' \in BOOLEAN
         /\ ~lossy' => ~lossy /\ queue' # <<>> /\ queue'[Len(queue')] = value
<1>1. CASE queue' = Append(queue, value) /\ lossy' = lossy
  BY <1>1, QueuedLast DEF CountsIInv
<1>2. CASE queue' = queue /\ lossy' = TRUE
  BY <1>2 DEF CountsIInv
<1> QED BY <1>1, <1>2 DEF Enqueue

(* Every step keeps the counts between what was exported and what is.      *)
LEMMA CountsNext == CountsIInv /\ [Next]_vars => CountsIInv'
<1> SUFFICES ASSUME CountsIInv, [Next]_vars PROVE CountsIInv'
  OBVIOUS
<1> USE DEF GoTo, GiveUp, Check, serving, Ended
<1>1. CASE Start
  <2>1. pc \notin Ended
    BY <1>1 DEF Start, FoldHomeEnv, ParseCli, Telemetry, ProbeFails, StartSignal, CheckTransport,
                CheckAuth, BuildAuditor, CheckServers, CheckIntervals, Listen, OpenStdio
  <2>2. reader # "drained"
    BY <2>1 DEF CountsIInv
  <2>3. CASE FoldHomeEnv \/ ParseCli \/ Telemetry \/ ProbeFails
    BY <2>2, <2>3, CountsStay DEF FoldHomeEnv, ParseCli, Telemetry, ProbeFails, CountsIInv
  <2>4. CASE CheckTransport \/ CheckAuth \/ BuildAuditor \/ CheckServers \/ CheckIntervals
    BY <2>2, <2>4, CountsStay DEF CheckTransport, CheckAuth, BuildAuditor, CheckServers, CheckIntervals, CountsIInv
  <2>5. CASE Listen \/ OpenStdio
    BY <2>2, <2>5, CountsStay DEF Listen, OpenStdio, Stopped, CountsIInv
  <2>6. CASE StartSignal
    <3>1. UNCHANGED <<counts, snapshot, queue, exported, lossy, running, answered>>
          /\ reader' # "drained"
      BY <2>2, <2>6 DEF StartSignal
    <3> QED BY <2>2, <3>1 DEF CountsIInv, Rising, AllUpTo, AllFrom
  <2> QED BY <1>1, <2>3, <2>4, <2>5, <2>6 DEF Start
<1>2. CASE StopServing \/ PeerCloses \/ CallStarts \/ Signal \/ PeerWrites
  <2>1. /\ UNCHANGED metricVars /\ running' \in {running, running + 1}
        /\ answered' \in {answered, counts} /\ exporters' = exporters
        /\ pc \in Ended => pc' = pc /\ answered' = answered
    BY <1>2 DEF StopServing, PeerCloses, CallStarts, Signal, PeerWrites, Stopped
  <2> QED BY <2>1, CountsStay DEF CountsIInv
<1>3. CASE AuditShutdown \/ \E x \in {"logs", "audit", "traces"} : Flushed(x)
  <2>1. /\ UNCHANGED metricVars /\ UNCHANGED <<running, answered>>
        /\ pc' \in Ended /\ (pc = "stopped" \/ pc' = pc)
        /\ "metrics" \in exporters => "metrics" \in exporters'
    BY <1>3 DEF AuditShutdown, Flushed, Flushing, FlushOthers
  <2> QED BY <2>1 DEF CountsIInv, metricVars, Rising, AllUpTo, AllFrom
<1>4. CASE ReaderEnds \/ Tick
  <2>1. UNCHANGED <<counts, running, answered, snapshot, queue, exported, lossy, pc, exporters>>
        /\ reader' # "drained" /\ reader # "drained"
    BY <1>4 DEF ReaderEnds, Tick, others
  <2> QED BY <2>1 DEF CountsIInv, Rising, AllUpTo, AllFrom
<1>5. CASE Collect
  <2>1. UNCHANGED <<counts, running, answered, queue, exported, lossy, pc, exporters>>
        /\ reader' # "drained" /\ reader # "drained" /\ snapshot' \in {snapshot, counts}
    BY <1>5 DEF Collect, others
  <2> QED BY <2>1 DEF CountsIInv, Rising, AllUpTo, AllFrom
<1>6. CASE Queue
  <2>1. UNCHANGED <<counts, running, answered, snapshot, exported, pc, exporters>>
        /\ reader' # "drained" /\ reader # "drained" /\ Enqueue(snapshot)
    BY <1>6 DEF Queue, others
  <2>2. /\ queue' \in Seq(Nat) /\ Rising(queue') /\ AllUpTo(queue', snapshot)
        /\ AllFrom(queue', exported) /\ lossy' \in BOOLEAN
    BY <2>1, EnqueueRises DEF CountsIInv
  <2>3. AllUpTo(queue', counts)
    BY <2>2 DEF AllUpTo, CountsIInv
  <2> QED BY <2>1, <2>2, <2>3 DEF CountsIInv, Rising, AllUpTo, AllFrom
<1>7. CASE FinalCollect
  <2>1. /\ UNCHANGED <<counts, running, answered, snapshot, exported, pc, exporters>>
        /\ pc = "flush" /\ "metrics" \in exporters /\ reader' = "drained"
        /\ IF counts > 0 THEN Enqueue(counts) ELSE UNCHANGED <<queue, lossy>>
    BY <1>7 DEF FinalCollect, Flushing, others
  <2>2. CASE Enqueue(counts)
    <3>1. /\ queue' \in Seq(Nat) /\ Rising(queue') /\ AllUpTo(queue', counts)
          /\ AllFrom(queue', exported) /\ lossy' \in BOOLEAN
          /\ ~lossy' => queue' # <<>> /\ queue'[Len(queue')] = counts
      BY <2>2, EnqueueRises DEF CountsIInv
    <3> QED BY <2>1, <3>1 DEF CountsIInv, Rising, AllUpTo, AllFrom
  <2>3. CASE ~(counts > 0) /\ UNCHANGED <<queue, lossy>>
    <3>1. answered <= exported
      BY <2>3 DEF CountsIInv
    <3> QED BY <2>1, <2>3, <3>1 DEF CountsIInv, Rising, AllUpTo, AllFrom
  <2> QED BY <2>1, <2>2, <2>3
<1>8. CASE ExportNext
  <2>1. /\ queue # <<>> /\ queue' = Tail(queue)
        /\ UNCHANGED <<counts, running, answered, reader, snapshot, pc, exporters>>
        /\ (exported' = Head(queue) /\ lossy' = lossy) \/ (exported' = exported /\ lossy' = TRUE)
    BY <1>8 DEF ExportNext, others
  <2>2. /\ queue' \in Seq(Nat) /\ Rising(queue') /\ AllFrom(queue', Head(queue)) /\ Head(queue) \in Nat
        /\ \A n : (AllUpTo(queue, n) => AllUpTo(queue', n)) /\ (AllFrom(queue, n) => AllFrom(queue', n))
        /\ \A n : AllUpTo(queue, n) => Head(queue) <= n
        /\ IF queue' = <<>> THEN Head(queue) = queue[Len(queue)]
           ELSE queue'[Len(queue')] = queue[Len(queue)]
    BY <2>1, SentFirst DEF CountsIInv
  <2>3. exported' \in Nat /\ AllFrom(queue', exported') /\ exported' <= counts
        /\ AllUpTo(queue', counts) /\ lossy' \in BOOLEAN
    BY <2>1, <2>2 DEF CountsIInv
  <2>4. reader # "drained" => AllUpTo(queue', snapshot) /\ exported' <= snapshot
    BY <2>1, <2>2 DEF CountsIInv
  <2>5. reader = "drained" /\ ~lossy' =>
          answered <= exported' \/ (queue' # <<>> /\ answered <= queue'[Len(queue')])
    <3> SUFFICES ASSUME reader = "drained", ~lossy'
                 PROVE  answered <= exported' \/ (queue' # <<>> /\ answered <= queue'[Len(queue')])
      OBVIOUS
    <3>1. ~lossy /\ exported' = Head(queue) /\ AllFrom(queue, exported)
      BY <2>1 DEF CountsIInv
    <3>2. exported <= Head(queue)
      BY <2>1, <3>1, SentFirst DEF CountsIInv
    <3>3. CASE answered <= exported
      BY <2>2, <3>1, <3>2, <3>3 DEF CountsIInv
    <3>4. CASE answered <= queue[Len(queue)]
      BY <2>2, <3>1, <3>4
    <3> QED BY <3>1, <3>3, <3>4 DEF CountsIInv
  <2>6. reader = "drained" /\ ~lossy' => pc = "flush" /\ "metrics" \in exporters
    BY <2>1 DEF CountsIInv
  <2> QED BY <2>1, <2>2, <2>3, <2>4, <2>5, <2>6 DEF CountsIInv, Rising, AllUpTo, AllFrom
<1>9. CASE CallEnds
  <2>1. /\ counts' = counts + 1 /\ running' = running - 1 /\ running > 0
        /\ UNCHANGED <<answered, reader, snapshot, queue, exported, lossy, pc, exporters>>
    BY <1>9 DEF CallEnds
  <2>2. counts' \in Nat /\ running' \in Nat /\ AllUpTo(queue, counts')
    BY <2>1 DEF CountsIInv, AllUpTo
  <2> QED BY <2>1, <2>2 DEF CountsIInv, Rising, AllUpTo, AllFrom
<1>10. CASE MetricsFlushed
  <2>1. /\ UNCHANGED metricVars /\ UNCHANGED <<running, answered, pc>> /\ queue = <<>>
    BY <1>10 DEF MetricsFlushed
  <2> QED BY <2>1 DEF CountsIInv, metricVars, Rising, AllUpTo, AllFrom
<1>11. CASE BudgetSpent
  <2>1. /\ UNCHANGED <<counts, reader, snapshot, queue, exported, running, answered, pc>>
        /\ lossy' = (lossy \/ "metrics" \in exporters)
    BY <1>11 DEF BudgetSpent
  <2> QED BY <2>1 DEF CountsIInv, Rising, AllUpTo, AllFrom
<1>12. CASE RunReturns \/ DropRuntime
  <2>1. /\ UNCHANGED metricVars /\ UNCHANGED <<running, answered, exporters>>
        /\ pc \in {"flush", "dropping"} /\ pc' \in Ended
        /\ pc = "flush" => exporters = {}
    BY <1>12 DEF RunReturns, DropRuntime, Flushing
  <2> QED BY <2>1 DEF CountsIInv, metricVars, Rising, AllUpTo, AllFrom
<1>13. CASE UNCHANGED vars
  BY <1>13, CountsStay DEF vars, CountsIInv
<1> QED BY <1>1, <1>2, <1>3, <1>4, <1>5, <1>6, <1>7, <1>8, <1>9, <1>10, <1>11, <1>12, <1>13
        DEF Next, Finish

(* LastCountsSent for every queue and number of calls (run_reader,         *)
(* MetricsPipeline::shutdown).                                             *)
THEOREM CountsReachTheCollector == Spec => LastCountsSent
<1>1. Spec => []CountsIInv
  BY CountsInit, CountsNext, PTL DEF Spec
<1>2. CountsIInv /\ [Next]_vars => [exported <= exported']_vars
  <2> SUFFICES ASSUME CountsIInv, Next PROVE exported <= exported'
    BY DEF vars
  <2>1. CASE ExportNext
    <3>1. exported' = exported \/ (queue # <<>> /\ exported' = Head(queue))
      BY <2>1 DEF ExportNext
    <3>2. queue # <<>> => exported <= Head(queue)
      BY SentFirst DEF CountsIInv
    <3> QED BY <3>1, <3>2 DEF CountsIInv
  <2>2. CASE ~ExportNext
    <3>1. exported' = exported
      BY <2>2 DEF Next, Start, Finish, FoldHomeEnv, ParseCli, Telemetry, ProbeFails, StartSignal,
                  CheckTransport, CheckAuth, BuildAuditor, CheckServers, CheckIntervals, Listen,
                  OpenStdio, StopServing, AuditShutdown, ReaderEnds, FinalCollect, MetricsFlushed,
                  BudgetSpent, RunReturns, DropRuntime, CallStarts, CallEnds, Tick, Collect, Queue,
                  Signal, PeerCloses, PeerWrites, Flushed, Check, metricVars, others
    <3> QED BY <3>1 DEF CountsIInv
  <2> QED BY <2>1, <2>2
<1>3. CountsIInv => (pc \in {"dropping", "exited"} /\ reader = "drained" /\ ~lossy => exported >= answered)
  BY DEF CountsIInv
<1>4. Spec => [][Next]_vars
  BY PTL DEF Spec
<1> QED BY <1>1, <1>2, <1>3, <1>4, PTL DEF LastCountsSent
-----------------------------------------------------------------------------
(* What is left of the type: where the process may be, the tasks it has    *)
(* started and the room in the channel.                                    *)
Places == {"main", "cli", "telemetry", "probe", "transport", "auth", "audit", "servers",
           "intervals", "bind", "serving", "stopped", "flush", "dropping", "exited", "panicked"}
Flags ==
  /\ ok \in BOOLEAN /\ bound \in BOOLEAN /\ cancelled \in BOOLEAN /\ farewell \in BOOLEAN
  /\ stdin \in {"none", "parked", "ended"}
Tasks ==
  /\ conf \in Confs /\ pc \in Places
  /\ probed \subseteq SignalNames /\ exporters \subseteq probed \cup {"audit"}
  /\ reader \in {"off", "asleep", "ticked", "collected", "ended", "drained"}
Room == counts + running <= MaxCalls /\ Len(queue) <= MaxQueue

(* The flags of a process that has not started.                            *)
LEMMA FlagsInit == Init => Flags
BY DEF Init, Flags

(* So does every step.                                                     *)
LEMMA FlagsNext == Flags /\ [Next]_vars => Flags'
<1> SUFFICES ASSUME Flags, [Next]_vars PROVE Flags'
  OBVIOUS
<1> USE DEF GoTo, GiveUp, Check, serving, Flags, startVars
<1>1. CASE FoldHomeEnv \/ ParseCli \/ Telemetry \/ ProbeFails \/ StartSignal
  BY <1>1 DEF FoldHomeEnv, ParseCli, Telemetry, ProbeFails, StartSignal
<1>2. CASE CheckTransport \/ CheckAuth \/ BuildAuditor \/ CheckServers \/ CheckIntervals
  BY <1>2 DEF CheckTransport, CheckAuth, BuildAuditor, CheckServers, CheckIntervals
<1>3. CASE Listen \/ OpenStdio
  BY <1>3 DEF Listen, OpenStdio, Stopped
<1>4. CASE StopServing \/ AuditShutdown \/ RunReturns \/ DropRuntime
  BY <1>4 DEF StopServing, AuditShutdown, RunReturns, DropRuntime, Stopped
<1>5. CASE MetricsFlushed \/ BudgetSpent \/ \E x \in {"logs", "audit", "traces"} : Flushed(x)
  BY <1>5 DEF MetricsFlushed, BudgetSpent, Flushed
<1>6. CASE ReaderEnds \/ FinalCollect \/ Tick \/ Collect \/ Queue \/ ExportNext
  BY <1>6 DEF ReaderEnds, FinalCollect, Tick, Collect, Queue, ExportNext, others
<1>7. CASE CallStarts \/ CallEnds \/ Signal \/ PeerWrites
  BY <1>7 DEF CallStarts, CallEnds, Signal, PeerWrites
<1>8. CASE PeerCloses
  <2>1. \/ ok' = ok
        \/ \E handshake \in BOOLEAN : ok' = (handshake \/ cancelled)
    BY <1>8 DEF PeerCloses, Stopped
  <2> QED BY <1>8, <2>1 DEF PeerCloses
<1>9. CASE UNCHANGED vars
  BY <1>9 DEF vars
<1> QED BY <1>1, <1>2, <1>3, <1>4, <1>5, <1>6, <1>7, <1>8, <1>9 DEF Next, Start, Finish

(* A task runs for a signal that was probed, or for the audit stream; at   *)
(* first none does.                                                        *)
LEMMA TasksInit == Init => Tasks
BY DEF Init, Tasks, Places

(* Every step keeps it so.                                                 *)
LEMMA TasksNext == StartIInv /\ Tasks /\ [Next]_vars => Tasks'
<1> SUFFICES ASSUME StartIInv, Tasks, [Next]_vars PROVE Tasks'
  OBVIOUS
<1> USE DEF GoTo, GiveUp, Check, serving, metricVars, startVars, Places
<1>1. CASE FoldHomeEnv \/ ParseCli \/ Telemetry \/ ProbeFails
  BY <1>1 DEF FoldHomeEnv, ParseCli, Telemetry, ProbeFails, Tasks
<1>2. CASE StartSignal
  <2>1. /\ probed' = probed \cup {NextSignal} /\ conf' = conf /\ pc' \in Places
        /\ exporters' \in {exporters, exporters \cup Started(NextSignal)}
        /\ reader' \in {reader, "asleep", "off"}
    BY <1>2 DEF StartSignal
  <2>2. NextSignal \in SignalNames
    BY <1>2, NextIsDue DEF StartSignal, StartIInv, Checked, On
  <2>3. Started(NextSignal) \subseteq {NextSignal, "audit"}
    BY DEF Started
  <2> HIDE DEF Places
  <2> QED BY <2>1, <2>2, <2>3 DEF Tasks
<1>3. CASE CheckTransport \/ CheckAuth \/ BuildAuditor \/ CheckServers \/ CheckIntervals
  BY <1>3 DEF CheckTransport, CheckAuth, BuildAuditor, CheckServers, CheckIntervals, Tasks
<1>4. CASE Listen \/ OpenStdio
  BY <1>4 DEF Listen, OpenStdio, Stopped, Tasks
<1>5. CASE StopServing \/ AuditShutdown \/ RunReturns \/ DropRuntime
  BY <1>5 DEF StopServing, AuditShutdown, RunReturns, DropRuntime, Stopped, Tasks
<1>6. CASE MetricsFlushed \/ BudgetSpent \/ \E x \in {"logs", "audit", "traces"} : Flushed(x)
  BY <1>6 DEF MetricsFlushed, BudgetSpent, Flushed, Tasks
<1>7. CASE ReaderEnds \/ FinalCollect \/ Tick \/ Collect \/ Queue \/ ExportNext
  BY <1>7 DEF ReaderEnds, FinalCollect, Tick, Collect, Queue, ExportNext, others, Tasks
<1>8. CASE CallStarts \/ CallEnds \/ Signal \/ PeerWrites \/ PeerCloses
  BY <1>8 DEF CallStarts, CallEnds, Signal, PeerWrites, PeerCloses, Stopped, Tasks
<1>9. CASE UNCHANGED vars
  BY <1>9 DEF vars, Tasks
<1> QED BY <1>1, <1>2, <1>3, <1>4, <1>5, <1>6, <1>7, <1>8, <1>9 DEF Next, Start, Finish

(* A snapshot is queued where there is room for it.                        *)
LEMMA EnqueueFits ==
  ASSUME queue \in Seq(Nat), Len(queue) <= MaxQueue, NEW value \in Nat, Enqueue(value)
  PROVE  Len(queue') <= MaxQueue
<1>1. CASE Len(queue) < MaxQueue /\ queue' = Append(queue, value)
  <2>1. Len(queue') = Len(queue) + 1 /\ Len(queue) \in Nat
    BY <1>1
  <2> QED BY <1>1, <2>1, ProcessAssumption
<1>2. CASE queue' = queue
  BY <1>2
<1> QED BY <1>1, <1>2 DEF Enqueue

(* There is room at first.                                                 *)
LEMMA RoomInit == Init => Room
BY ProcessAssumption DEF Init, Room

(* And every step leaves some.                                             *)
LEMMA RoomNext == CountsIInv /\ Room /\ [Next]_vars => Room'
<1> SUFFICES ASSUME CountsIInv, Room, [Next]_vars PROVE Room'
  OBVIOUS
<1>0. ASSUME counts' + running' = counts + running, queue' = queue PROVE Room'
  BY <1>0 DEF Room
<1> USE DEF GoTo, GiveUp, Check, serving, metricVars
<1>1. CASE Start
  BY <1>0, <1>1 DEF Start, FoldHomeEnv, ParseCli, Telemetry, ProbeFails, StartSignal, CheckTransport,
     CheckAuth, BuildAuditor, CheckServers, CheckIntervals, Listen, OpenStdio
<1>2. CASE StopServing \/ AuditShutdown \/ RunReturns \/ DropRuntime \/ MetricsFlushed \/ BudgetSpent
           \/ \E x \in {"logs", "audit", "traces"} : Flushed(x)
  BY <1>0, <1>2 DEF StopServing, AuditShutdown, RunReturns, DropRuntime, MetricsFlushed, BudgetSpent,
     Flushed
<1>3. CASE ReaderEnds \/ Tick \/ Collect
  BY <1>0, <1>3 DEF ReaderEnds, Tick, Collect, others
<1>4. CASE Queue \/ FinalCollect
  <2>1. /\ UNCHANGED <<counts, running>>
        /\ (\E value \in Nat : Enqueue(value)) \/ queue' = queue
    BY <1>4 DEF Queue, FinalCollect, others, CountsIInv
  <2>2. queue \in Seq(Nat) /\ Len(queue) <= MaxQueue
    BY DEF CountsIInv, Room
  <2> QED BY <2>1, <2>2, EnqueueFits DEF Room
<1>5. CASE ExportNext
  <2>1. queue # <<>> /\ queue' = Tail(queue) /\ UNCHANGED <<counts, running>>
    BY <1>5 DEF ExportNext, others
  <2>2. Len(queue') = Len(queue) - 1 /\ Len(queue) \in Nat
    BY <2>1 DEF CountsIInv
  <2> QED BY <2>1, <2>2, ProcessAssumption DEF Room
<1>6. CASE CallStarts
  <2>1. counts + running < MaxCalls /\ running' = running + 1 /\ counts' = counts /\ queue' = queue
    BY <1>6 DEF CallStarts
  <2> QED BY <2>1, ProcessAssumption DEF Room, CountsIInv
<1>7. CASE CallEnds
  BY <1>0, <1>7 DEF CallEnds, CountsIInv
<1>8. CASE Signal \/ PeerCloses \/ PeerWrites
  BY <1>0, <1>8 DEF Signal, PeerCloses, PeerWrites
<1>9. CASE UNCHANGED vars
  BY <1>0, <1>9 DEF vars
<1> QED BY <1>1, <1>2, <1>3, <1>4, <1>5, <1>6, <1>7, <1>8, <1>9 DEF Next, Finish

(* TypeOK for every configuration, queue and number of calls: among the    *)
(* rest, an export task runs only for a signal whose collector has taken   *)
(* its probe, and the channel never holds more than its capacity.          *)
THEOREM ProcessTypeCorrect == Spec => []TypeOK
<1>1. CountsIInv /\ Flags /\ Tasks /\ Room => TypeOK
  <2> SUFFICES ASSUME CountsIInv, Flags, Tasks, Room PROVE TypeOK
    OBVIOUS
  <2>1. running + counts \in 0..MaxCalls /\ snapshot \in 0..MaxCalls /\ answered \in 0..counts
        /\ Len(queue) <= MaxQueue /\ exported \in 0..counts
    BY ProcessAssumption DEF CountsIInv, Room
  <2>2. {ok, bound, cancelled, lossy, farewell} \subseteq BOOLEAN
    BY DEF Flags, CountsIInv
  <2> QED BY <2>1, <2>2 DEF Flags, Tasks, Places, TypeOK
<1>2. Spec => [](CountsIInv /\ Flags /\ Tasks /\ Room)
  BY StartInit, StartNext, CountsInit, CountsNext, FlagsInit, FlagsNext, TasksInit, TasksNext,
     RoomInit, RoomNext, PTL DEF Spec
<1> QED BY <1>1, <1>2, PTL
=============================================================================
