--------------------------- MODULE AuditSink_proofs ---------------------------
(***************************************************************************)
(* Proofs about the audit file and its rotation, for every rotate_keep,    *)
(* every rotate_max_bytes and any number of failing system calls and       *)
(* crashes.                                                                *)
(***************************************************************************)
EXTENDS AuditSink, TLAPS

(* What a fresh record number may be compared with: every line in a named  *)
(* file carries an earlier number, and the number of an append that has    *)
(* not written yet appears nowhere.                                        *)
Pending == pc \in {"remove", "shift", "rename", "open", "write"}

NumbersUsed ==
  \A g \in Generations : \A i \in DOMAIN LinesOf(g) :
    LinesOf(g)[i].record <= record /\ (Pending => LinesOf(g)[i].record < record)

(* A file has at most one name.                                            *)
OneName ==
  \A g, h \in Generations : Exists(g) /\ dir[g] = dir[h] => g = h

(* Nothing named is younger than the file the handle is on.                *)
YoungestOpen ==
  pc # "down" =>
    \A g, h \in Generations : dir[g] = handle /\ h < g => ~Exists(h)

(* rotate() opens a new file only once it has freed the live name.         *)
OpenFree == pc = "open" => ~Exists(0)

IInv ==
  /\ TypeOK
  /\ OpenFree
  /\ NumbersUsed
  /\ OneName
  /\ YoungestOpen
  /\ GenerationsInOrder

(* The type invariant holds at the start.                                  *)
LEMMA InitType == Init => TypeOK
<1> SUFFICES ASSUME Init PROVE TypeOK
  OBVIOUS
<1> USE SinkAssumption DEF Init
<1>1. files \in Seq(File)
  BY DEF File, EmptyFile, Line
<1>2. Len(files) = 1
  OBVIOUS
<1>3. dir \in [Generations -> 0..Len(files)]
  BY <1>2 DEF Generations
<1>4. level \in 0..(Keep - 1)
  OBVIOUS
<1> QED
  BY <1>1, <1>2, <1>3, <1>4 DEF TypeOK, SystemCalls

(* Moving names around keeps the directory well typed.                     *)
LEMMA RenamedType ==
  ASSUME TypeOK, NEW a \in Generations, NEW b \in Generations
  PROVE  Renamed(a, b) \in [Generations -> 0..Len(files)]
  BY DEF TypeOK, Renamed

(* Creating a file leaves the old ones in place and adds an empty one.     *)
LEMMA Created ==
  ASSUME TypeOK, Create
  PROVE  /\ files' \in Seq(File)
         /\ Len(files') = Len(files) + 1
         /\ files'[Len(files) + 1] = EmptyFile
         /\ \A f \in 1..Len(files) : files'[f] = files[f]
<1>1. EmptyFile \in File
  BY DEF EmptyFile, File, Line
<1> QED
  BY <1>1 DEF TypeOK, Create

(* Writing keeps every file and adds one line to the one that is open.     *)
LEMMA WrittenType ==
  ASSUME TypeOK, NEW whole \in BOOLEAN, NEW bytes \in Nat,
         files' = Written(whole, bytes)
  PROVE  /\ files' \in Seq(File)
         /\ Len(files') = Len(files)
         /\ \A f \in 1..Len(files) : f # handle => files'[f] = files[f]
         /\ files'[handle].lines =
              Append(files[handle].lines, [record |-> record, whole |-> whole])
         /\ files'[handle].bytes = files[handle].bytes + bytes
<1> DEFINE line == [record |-> record, whole |-> whole]
           file == [lines |-> Append(files[handle].lines, line),
                    bytes |-> files[handle].bytes + bytes]
<1>1. line \in Line
  BY DEF TypeOK, Line
<1>2. files[handle] \in File
  BY DEF TypeOK
<1>3. files[handle].lines \in Seq(Line) /\ files[handle].bytes \in Nat
  BY <1>2 DEF File
<1>4. file \in File
  BY <1>1, <1>3 DEF File
<1>5. files' = [files EXCEPT ![handle] = file]
  BY DEF Written
<1> QED
  BY <1>4, <1>5 DEF TypeOK

(* Every step keeps the type invariant.                                    *)
LEMMA StepType == TypeOK /\ [Next]_vars => TypeOK'
<1> SUFFICES ASSUME TypeOK, [Next]_vars PROVE TypeOK'
  OBVIOUS
<1> USE SinkAssumption
<1>1. CASE Begin
  <2>1. size' \in Nat /\ pc' \in SystemCalls \cup {"idle", "down"} /\ pc' # "shift"
    BY <1>1 DEF Begin, SystemCalls
  <2> QED
    BY <1>1, <2>1 DEF TypeOK, Begin, disk, sink
<1>2. CASE RemoveOldest
  <2>1. dir' \in [Generations -> 0..Len(files)]
    <3>1. 0 \in 0..Len(files) /\ Keep \in Generations
      BY DEF TypeOK, Generations
    <3> QED
      BY <1>2, <3>1 DEF TypeOK, RemoveOldest
  <2>2. level' \in 0..(Keep - 1) /\ (pc' = "shift" => level' > 0)
    BY <1>2 DEF RemoveOldest
  <2> QED
    BY <1>2, <2>1, <2>2 DEF TypeOK, RemoveOldest, SystemCalls, sink
<1>3. CASE Shift
  <2>1. level \in 1..(Keep - 1)
    BY <1>3 DEF TypeOK, Shift
  <2>2. dir' \in [Generations -> 0..Len(files)]
    <3>1. level \in Generations /\ level + 1 \in Generations
      BY <2>1 DEF Generations
    <3> QED
      BY <1>3, <3>1, RenamedType DEF Shift, TypeOK
  <2>3. level' \in 0..(Keep - 1) /\ (pc' = "shift" => level' > 0)
    BY <1>3, <2>1 DEF Shift
  <2> QED
    BY <1>3, <2>2, <2>3 DEF TypeOK, Shift, SystemCalls, sink
<1>4. CASE Rename
  <2>1. dir' \in [Generations -> 0..Len(files)]
    <3>1. 0 \in Generations /\ 1 \in Generations
      BY DEF Generations
    <3> QED
      BY <1>4, <3>1, RenamedType DEF Rename
  <2> QED
    BY <1>4, <2>1 DEF TypeOK, Rename, SystemCalls, sink
<1>5. CASE RenameNotFound
  BY <1>5 DEF TypeOK, RenameNotFound, disk, sink
<1>6. CASE Open
  <2>1. Create
    BY <1>6 DEF Open
  <2>2. dir' \in [Generations -> 0..Len(files')] /\ handle' \in 1..Len(files')
    <3>1. 0..Len(files) \subseteq 0..Len(files') /\ Len(files) + 1 \in 1..Len(files')
      BY <2>1, Created DEF TypeOK
    <3>2. dir \in [Generations -> 0..Len(files')] /\ 0 \in Generations
      BY <3>1 DEF TypeOK, Generations
    <3> QED
      BY <1>6, <3>1, <3>2 DEF Open
  <2> QED
    BY <1>6, <2>1, <2>2, Created DEF TypeOK, Open, SystemCalls
<1>7. CASE Write
  <2>1. files' \in Seq(File) /\ Len(files') = Len(files)
    BY <1>7, WrittenType DEF Write, TypeOK
  <2>2. len' \in Nat /\ accepted' \subseteq Nat
    <3>1. CASE Fsync
      BY <1>7, <3>1 DEF Write, TypeOK
    <3>2. CASE ~Fsync
      <4>1. len' = len + size /\ accepted' = accepted \cup {record}
        BY <1>7, <3>2 DEF Write, Accept
      <4> QED
        BY <4>1 DEF TypeOK
    <3> QED
      BY <3>1, <3>2
  <2>3. pc' \in {"sync", "idle"}
    BY <1>7 DEF Write
  <2> QED
    BY <1>7, <2>1, <2>2, <2>3 DEF TypeOK, Write, SystemCalls
<1>8. CASE WriteTorn
  <2>1. PICK bytes \in 1..(size - 1) : files' = Written(FALSE, bytes)
    BY <1>8 DEF WriteTorn
  <2>2. bytes \in Nat
    BY <2>1 DEF TypeOK
  <2>3. files' \in Seq(File) /\ Len(files') = Len(files)
    BY <2>1, <2>2, WrittenType
  <2>4. /\ pc' = "idle" /\ faults' \in [SystemCalls -> Nat]
        /\ UNCHANGED <<dir, handle, len, level, record, size, accepted, crashes>>
    BY <1>8 DEF WriteTorn, MayFail, TypeOK, sink
  <2> QED
    BY <2>3, <2>4 DEF TypeOK
<1>9. CASE Sync
  BY <1>9 DEF TypeOK, Sync, Accept, disk
<1>10. CASE \E syscall \in SystemCalls : Fail(syscall)
  BY <1>10 DEF TypeOK, Fail, MayFail, disk, sink
<1>11. CASE Crash
  BY <1>11 DEF TypeOK, Crash, disk, sink
<1>12. CASE Restart
  <2>1. CASE Exists(0)
    <3>1. 0 \in Generations
      BY DEF Generations
    <3>2. dir[0] \in 1..Len(files)
      BY <2>1, <3>1 DEF TypeOK, Exists
    <3>3. files[dir[0]].bytes \in Nat
      <4>1. files[dir[0]] \in File
        BY <3>2 DEF TypeOK
      <4> QED
        BY <4>1 DEF File
    <3> QED
      BY <1>12, <2>1, <3>2, <3>3 DEF TypeOK, Restart, disk
  <2>2. CASE ~Exists(0)
    <3>1. Create
      BY <1>12, <2>2 DEF Restart
    <3>2. dir' \in [Generations -> 0..Len(files')] /\ handle' \in 1..Len(files')
      <4>1. 0..Len(files) \subseteq 0..Len(files') /\ Len(files) + 1 \in 1..Len(files')
        BY <3>1, Created DEF TypeOK
      <4>2. dir \in [Generations -> 0..Len(files')] /\ 0 \in Generations
        BY <4>1 DEF TypeOK, Generations
      <4> QED
        BY <1>12, <2>2, <4>1, <4>2 DEF Restart
    <3> QED
      BY <1>12, <2>2, <3>1, <3>2, Created DEF TypeOK, Restart
  <2> QED
    BY <2>1, <2>2
<1>13. CASE UNCHANGED vars
  BY <1>13 DEF TypeOK, vars, disk, sink, call
<1> QED
  BY <1>1, <1>2, <1>3, <1>4, <1>5, <1>6, <1>7, <1>8, <1>9, <1>10, <1>11, <1>12,
     <1>13 DEF Next, Append1, Rotate

(* The type invariant, whatever fails inside an append.                    *)
THEOREM SinkTypeCorrect == Spec => []TypeOK
<1>1. Init => TypeOK
  BY InitType
<1>2. TypeOK /\ [Next]_vars => TypeOK'
  BY StepType
<1> QED
  BY <1>1, <1>2, PTL DEF Spec
(* A generation's lines are a sequence of lines.                           *)
LEMMA LinesType ==
  ASSUME TypeOK, NEW g \in Generations
  PROVE  LinesOf(g) \in Seq(Line)
<1>1. CASE Exists(g)
  <2>1. dir[g] \in 1..Len(files)
    BY <1>1 DEF TypeOK, Exists
  <2>2. files[dir[g]] \in File
    BY <2>1 DEF TypeOK
  <2> QED
    BY <1>1, <2>2 DEF LinesOf, File
<1>2. CASE ~Exists(g)
  BY <1>2 DEF LinesOf
<1> QED
  BY <1>1, <1>2

(* A step that moves names without changing any file, so that every name   *)
(* left has the file some name had before, in the same order of            *)
(* generations, keeps all but the claim about the handle.                  *)
LEMMA Moved ==
  ASSUME IInv, UNCHANGED <<files, record>>, Pending' => Pending,
         NEW src \in [Generations -> Generations],
         \A g \in Generations : dir'[g] # 0 => dir'[g] = dir[src[g]],
         \A g, h \in Generations :
           dir'[g] # 0 /\ dir'[h] # 0 /\ g < h => src[g] < src[h]
  PROVE  NumbersUsed' /\ OneName' /\ GenerationsInOrder'
<1>1. \A g \in Generations : Exists(g)' =>
        Exists(src[g]) /\ dir'[g] = dir[src[g]] /\ LinesOf(g)' = LinesOf(src[g])
  BY DEF Exists, LinesOf
<1>2. \A g \in Generations : ~Exists(g)' => LinesOf(g)' = <<>>
  BY DEF Exists, LinesOf
<1>3. NumbersUsed'
  <2>1. SUFFICES ASSUME NEW g \in Generations, NEW i \in DOMAIN LinesOf(g)'
                 PROVE  /\ LinesOf(g)'[i].record <= record
                        /\ Pending => LinesOf(g)'[i].record < record
    BY DEF NumbersUsed
  <2>2. Exists(g)'
    BY <1>2
  <2> QED
    BY <1>1, <2>2 DEF IInv, NumbersUsed
<1>4. OneName'
  <2>1. SUFFICES ASSUME NEW g \in Generations, NEW h \in Generations,
                        Exists(g)', dir'[g] = dir'[h]
                 PROVE  g = h
    BY DEF OneName
  <2>2. Exists(h)' /\ dir'[h] # 0 /\ dir'[g] # 0
    BY <2>1 DEF Exists
  <2>3. src[g] = src[h]
    <3>1. Exists(src[g]) /\ dir[src[g]] = dir[src[h]]
      BY <1>1, <2>1, <2>2
    <3> QED
      BY <3>1 DEF IInv, OneName
  <2>4. ~(g < h) /\ ~(h < g)
    BY <2>2, <2>3 DEF Generations
  <2> QED
    BY <2>4 DEF Generations
<1>5. GenerationsInOrder'
  <2>1. ASSUME NEW g \in Generations,
               NEW i \in DOMAIN LinesOf(g)', NEW j \in DOMAIN LinesOf(g)', i < j
        PROVE  LinesOf(g)'[i].record < LinesOf(g)'[j].record
    <3>1. Exists(g)'
      BY <1>2, <2>1
    <3> QED
      BY <1>1, <2>1, <3>1 DEF IInv, GenerationsInOrder
  <2>2. ASSUME NEW g \in Generations, NEW h \in Generations, g < h,
               NEW i \in DOMAIN LinesOf(g)', NEW j \in DOMAIN LinesOf(h)'
        PROVE  LinesOf(h)'[j].record < LinesOf(g)'[i].record
    <3>1. Exists(g)' /\ Exists(h)'
      BY <1>2, <2>2
    <3>2. src[g] < src[h]
      BY <2>2, <3>1 DEF Exists
    <3> QED
      BY <1>1, <2>2, <3>1, <3>2 DEF IInv, GenerationsInOrder
  <2> QED
    BY <2>1, <2>2 DEF GenerationsInOrder
<1> QED
  BY <1>3, <1>4, <1>5

(* A step that touches neither names nor files nor the handle.             *)
LEMMA Untouched ==
  ASSUME IInv, TypeOK', UNCHANGED <<files, dir, handle, record>>,
         Pending' => Pending, pc # "down", pc' # "open"
  PROVE  IInv'
<1> DEFINE src == [g \in Generations |-> g]
<1>1. NumbersUsed' /\ OneName' /\ GenerationsInOrder'
  <2>1. src \in [Generations -> Generations]
    OBVIOUS
  <2>2. \A g \in Generations : dir'[g] # 0 => dir'[g] = dir[src[g]]
    OBVIOUS
  <2>3. \A g, h \in Generations :
          dir'[g] # 0 /\ dir'[h] # 0 /\ g < h => src[g] < src[h]
    OBVIOUS
  <2> HIDE DEF src
  <2> QED
    BY <2>1, <2>2, <2>3, Moved
<1>2. YoungestOpen'
  BY DEF IInv, YoungestOpen, Exists
<1> QED
  BY <1>1, <1>2 DEF IInv, OpenFree

(* A file that rotate() or a restart creates at the free live path.        *)
LEMMA CreatedLive ==
  ASSUME IInv, TypeOK', Create, ~Exists(0), record' = record,
         dir' = [dir EXCEPT ![0] = Len(files) + 1], handle' = Len(files) + 1,
         Pending' => Pending \/ pc' = "idle", pc' # "open"
  PROVE  IInv'
<1>0. TypeOK /\ 0 \in Generations
  BY SinkAssumption DEF IInv, Generations
<1>1. /\ Exists(0)'
      /\ dir'[0] = Len(files) + 1
      /\ LinesOf(0)' = <<>>
  <2>1. dir'[0] = Len(files) + 1 /\ Len(files) \in Nat
    BY <1>0 DEF TypeOK
  <2>2. files'[dir'[0]] = EmptyFile
    BY <1>0, <2>1, Created
  <2> QED
    BY <2>1, <2>2 DEF Exists, LinesOf, EmptyFile
<1>2. \A g \in Generations : g # 0 =>
        /\ dir'[g] = dir[g]
        /\ Exists(g)' <=> Exists(g)
        /\ LinesOf(g)' = LinesOf(g)
  <2>1. SUFFICES ASSUME NEW g \in Generations, g # 0
                 PROVE  dir'[g] = dir[g] /\ (Exists(g)' <=> Exists(g))
                        /\ LinesOf(g)' = LinesOf(g)
    OBVIOUS
  <2>2. dir'[g] = dir[g] /\ dir[g] \in 0..Len(files)
    BY <1>0, <2>1 DEF TypeOK
  <2>3. dir[g] # 0 => files'[dir[g]] = files[dir[g]]
    BY <1>0, <2>2, Created
  <2> QED
    BY <2>2, <2>3 DEF Exists, LinesOf
<1>3. Pending' => Pending
  BY DEF Pending
<1>4. NumbersUsed'
  BY <1>1, <1>2, <1>3 DEF IInv, NumbersUsed
<1>5. OneName'
  <2>1. \A g \in Generations : g # 0 => dir'[g] # Len(files) + 1
    BY <1>0, <1>2 DEF TypeOK
  <2> QED
    BY <1>1, <1>2, <2>1 DEF IInv, OneName
<1>6. YoungestOpen'
  <2>1. \A g \in Generations : dir'[g] = handle' => g = 0
    BY <1>0, <1>2 DEF TypeOK
  <2> QED
    BY <2>1 DEF YoungestOpen, Generations
<1>7. GenerationsInOrder'
  BY <1>1, <1>2 DEF IInv, GenerationsInOrder, Generations
<1> QED
  BY <1>4, <1>5, <1>6, <1>7 DEF IInv, OpenFree

(* One line with a fresh number goes to the file that is open, whatever    *)
(* name it has, or none.                                                   *)
LEMMA WrittenLine ==
  ASSUME IInv, TypeOK', pc = "write", ~Pending', UNCHANGED <<dir, handle, record>>,
         NEW whole \in BOOLEAN, NEW bytes \in Nat, files' = Written(whole, bytes)
  PROVE  IInv'
<1> DEFINE line == [record |-> record, whole |-> whole]
<1>0. TypeOK /\ Pending
  BY DEF IInv, Pending
<1>1. ASSUME NEW g \in Generations, dir[g] # handle
      PROVE  LinesOf(g)' = LinesOf(g)
  <2>1. dir[g] \in 0..Len(files)
    BY <1>0 DEF TypeOK
  <2>2. ASSUME dir[g] # 0 PROVE files'[dir[g]] = files[dir[g]]
    <3>1. dir[g] \in 1..Len(files) /\ dir[g] # handle
      BY <1>0, <1>1, <2>1, <2>2 DEF TypeOK
    <3>2. \A f \in 1..Len(files) : f # handle => files'[f] = files[f]
      BY <1>0, WrittenType
    <3> QED
      BY <3>1, <3>2
  <2> QED
    BY <2>2 DEF LinesOf, Exists
<1>2. ASSUME NEW g \in Generations, dir[g] = handle
      PROVE  Exists(g) /\ LinesOf(g)' = Append(LinesOf(g), line)
  <2>1. handle # 0
    BY <1>0 DEF TypeOK
  <2> QED
    BY <1>0, <1>2, <2>1, WrittenType DEF LinesOf, Exists
<1>3. ASSUME NEW g \in Generations, dir[g] = handle
      PROVE  /\ DOMAIN LinesOf(g)' = 1..(Len(LinesOf(g)) + 1)
             /\ DOMAIN LinesOf(g) = 1..Len(LinesOf(g))
             /\ Len(LinesOf(g)) \in Nat
             /\ \A i \in 1..Len(LinesOf(g)) : LinesOf(g)'[i] = LinesOf(g)[i]
             /\ LinesOf(g)'[Len(LinesOf(g)) + 1].record = record
  <2>1. LinesOf(g) \in Seq(Line)
    BY <1>0, LinesType
  <2>2. LinesOf(g)' = Append(LinesOf(g), line)
    BY <1>2, <1>3
  <2> HIDE DEF LinesOf
  <2> QED
    BY <2>1, <2>2
<1>4. ASSUME NEW g \in Generations, NEW i \in DOMAIN LinesOf(g)
      PROVE  LinesOf(g)[i].record < record
  BY <1>0 DEF IInv, NumbersUsed
<1>5. record \in Nat
  BY <1>0 DEF TypeOK
<1>6. ASSUME NEW g \in Generations, NEW i \in DOMAIN LinesOf(g)'
      PROVE  \/ i \in DOMAIN LinesOf(g) /\ LinesOf(g)'[i] = LinesOf(g)[i]
             \/ dir[g] = handle /\ LinesOf(g)'[i].record = record
                /\ i = Len(LinesOf(g)) + 1
  BY <1>1, <1>3
<1>7. NumbersUsed'
  <2>1. SUFFICES ASSUME NEW g \in Generations, NEW i \in DOMAIN LinesOf(g)'
                 PROVE  LinesOf(g)'[i].record <= record
    BY DEF NumbersUsed
  <2>2. CASE i \in DOMAIN LinesOf(g) /\ LinesOf(g)'[i] = LinesOf(g)[i]
    BY <2>2 DEF IInv, NumbersUsed
  <2>3. CASE LinesOf(g)'[i].record = record
    BY <1>5, <2>3
  <2> QED
    BY <1>6, <2>2, <2>3
<1>8. OneName' /\ YoungestOpen'
  BY DEF IInv, OneName, YoungestOpen, Exists, Pending
<1>9. GenerationsInOrder'
  <2>1. ASSUME NEW g \in Generations,
               NEW i \in DOMAIN LinesOf(g)', NEW j \in DOMAIN LinesOf(g)', i < j
        PROVE  LinesOf(g)'[i].record < LinesOf(g)'[j].record
    <3>1. CASE dir[g] # handle
      BY <1>1, <2>1, <3>1 DEF IInv, GenerationsInOrder
    <3>2. CASE dir[g] = handle
      <4>1. i \in DOMAIN LinesOf(g) /\ LinesOf(g)'[i] = LinesOf(g)[i]
        BY <1>3, <2>1, <3>2
      <4>2. CASE j \in DOMAIN LinesOf(g) /\ LinesOf(g)'[j] = LinesOf(g)[j]
        BY <2>1, <4>1, <4>2 DEF IInv, GenerationsInOrder
      <4>3. CASE LinesOf(g)'[j].record = record
        BY <1>4, <4>1, <4>3
      <4> QED
        BY <1>6, <2>1, <4>2, <4>3
    <3> QED
      BY <3>1, <3>2
  <2>2. ASSUME NEW g \in Generations, NEW h \in Generations, g < h,
               NEW i \in DOMAIN LinesOf(g)', NEW j \in DOMAIN LinesOf(h)'
        PROVE  LinesOf(h)'[j].record < LinesOf(g)'[i].record
    <3>1. j \in DOMAIN LinesOf(h) /\ LinesOf(h)'[j] = LinesOf(h)[j]
      <4>1. CASE dir[h] = handle
        <5>1. ~Exists(g)
          BY <2>2, <4>1 DEF IInv, YoungestOpen
        <5>2. dir[g] # handle
          BY <1>2, <5>1
        <5>3. LinesOf(g)' = <<>>
          BY <1>1, <5>1, <5>2 DEF LinesOf
        <5> QED
          BY <2>2, <5>3
      <4> QED
        BY <1>1, <2>2, <4>1
    <3>2. CASE i \in DOMAIN LinesOf(g) /\ LinesOf(g)'[i] = LinesOf(g)[i]
      BY <2>2, <3>1, <3>2 DEF IInv, GenerationsInOrder
    <3>3. CASE LinesOf(g)'[i].record = record
      BY <1>4, <3>1, <3>3
    <3> QED
      BY <1>6, <2>2, <3>2, <3>3
  <2> QED
    BY <2>1, <2>2 DEF GenerationsInOrder
<1> QED
  BY <1>7, <1>8, <1>9 DEF IInv, OpenFree, Pending
(* Every step keeps the inductive invariant.                               *)
LEMMA SinkStep == IInv /\ [Next]_vars => IInv'
<1> SUFFICES ASSUME IInv, [Next]_vars PROVE IInv'
  OBVIOUS
<1>0. TypeOK /\ TypeOK'
  BY StepType DEF IInv
<1> USE <1>0
<1>1. CASE Begin
  <2>1. NumbersUsed'
    <3>1. SUFFICES ASSUME NEW g \in Generations, NEW i \in DOMAIN LinesOf(g)
                   PROVE  /\ LinesOf(g)[i].record <= record + 1
                          /\ LinesOf(g)[i].record < record + 1
      BY <1>1 DEF NumbersUsed, Begin, disk, LinesOf, Exists
    <3>2. LinesOf(g)[i].record \in Nat
      <4>1. LinesOf(g) \in Seq(Line)
        BY LinesType
      <4>2. LinesOf(g)[i] \in Line
        BY <4>1
      <4> QED
        BY <4>2 DEF Line
    <3>3. LinesOf(g)[i].record <= record /\ record \in Nat
      BY DEF IInv, NumbersUsed, TypeOK
    <3> QED
      BY <3>2, <3>3
  <2>2. OneName' /\ YoungestOpen' /\ GenerationsInOrder'
    BY <1>1 DEF IInv, Begin, disk, sink, OneName, YoungestOpen, GenerationsInOrder,
                LinesOf, Exists
  <2>3. pc' # "open"
    BY <1>1 DEF Begin
  <2> QED
    BY <2>1, <2>2, <2>3 DEF IInv, OpenFree
<1>2. CASE RemoveOldest
  <2> DEFINE src == [g \in Generations |-> g]
  <2>1. \A g \in Generations : dir'[g] # 0 => dir'[g] = dir[g]
    BY <1>2 DEF RemoveOldest, TypeOK
  <2>2. src \in [Generations -> Generations]
    OBVIOUS
  <2>3. /\ \A g \in Generations : dir'[g] # 0 => dir'[g] = dir[src[g]]
        /\ \A g, h \in Generations :
             dir'[g] # 0 /\ dir'[h] # 0 /\ g < h => src[g] < src[h]
    BY <2>1
  <2>4. UNCHANGED <<files, record, handle>> /\ (Pending' => Pending)
    BY <1>2 DEF RemoveOldest, Pending, sink
  <2> HIDE DEF src
  <2>5. NumbersUsed' /\ OneName' /\ GenerationsInOrder'
    BY <2>2, <2>3, <2>4, Moved
  <2>6. YoungestOpen'
    <3>1. handle # 0
      BY DEF TypeOK
    <3> QED
      BY <1>2, <2>1, <2>4, <3>1 DEF IInv, YoungestOpen, Exists, RemoveOldest
  <2>7. pc' # "open"
    BY <1>2 DEF RemoveOldest
  <2> QED
    BY <2>5, <2>6, <2>7 DEF IInv, OpenFree
<1>3. CASE Shift
  <2>1. CASE ~Exists(level)
    <3>1. /\ UNCHANGED <<files, dir, handle, record>>
          /\ pc # "down" /\ pc' # "open"
          /\ Pending' => Pending
      BY <1>3, <2>1 DEF Shift, Pending, sink
    <3> QED
      BY <3>1, Untouched
  <2>2. CASE Exists(level)
    <3> DEFINE src == [g \in Generations |-> IF g = level + 1 THEN level ELSE g]
    <3>1. level \in Generations /\ level + 1 \in Generations /\ level \in Nat
      BY <1>3, SinkAssumption DEF Shift, TypeOK, Generations
    <3>2. dir' = [dir EXCEPT ![level + 1] = dir[level], ![level] = 0]
      BY <1>3, <2>2 DEF Shift, Renamed
    <3>3. /\ dir'[level] = 0
          /\ dir'[level + 1] = dir[level]
          /\ \A g \in Generations : g # level /\ g # level + 1 => dir'[g] = dir[g]
      BY <3>1, <3>2 DEF TypeOK
    <3>4. src \in [Generations -> Generations]
      BY <3>1
    <3>5. \A g \in Generations : dir'[g] # 0 => dir'[g] = dir[src[g]]
      BY <3>3
    <3>6. \A g, h \in Generations :
            dir'[g] # 0 /\ dir'[h] # 0 /\ g < h => src[g] < src[h]
      BY <3>1, <3>3 DEF Generations
    <3>7. UNCHANGED <<files, record, handle>> /\ (Pending' => Pending) /\ pc # "down"
      BY <1>3 DEF Shift, Pending, sink
    <3> HIDE DEF src
    <3>8. NumbersUsed' /\ OneName' /\ GenerationsInOrder'
      BY <3>4, <3>5, <3>6, <3>7, Moved
    <3>9. YoungestOpen'
      <4>1. SUFFICES ASSUME NEW g \in Generations, NEW h \in Generations,
                            dir'[g] = handle, h < g
                     PROVE  dir'[h] = 0
        BY <3>7 DEF YoungestOpen, Exists
      <4>2. \A f, e \in Generations : dir[f] = handle /\ e < f => dir[e] = 0
        BY <3>7 DEF IInv, YoungestOpen, Exists
      <4>3. handle # 0 /\ dir[level] # 0
        BY <2>2 DEF TypeOK, Exists
      <4>4. CASE g = level + 1
        <5>1. dir[level] = handle
          BY <3>3, <4>1, <4>4
        <5>2. h = level \/ (h < level /\ h # level /\ h # level + 1)
          BY <3>1, <4>1, <4>4 DEF Generations
        <5> QED
          BY <3>1, <3>3, <4>2, <5>1, <5>2
      <4>5. CASE g # level + 1
        <5>1. dir[g] = handle
          BY <3>3, <4>1, <4>3, <4>5
        <5>2. ~(level < g)
          BY <3>1, <4>2, <4>3, <5>1
        <5>3. h # level /\ h # level + 1
          BY <3>1, <4>1, <5>2 DEF Generations
        <5> QED
          BY <3>3, <4>1, <4>2, <5>1, <5>3
      <4> QED
        BY <4>4, <4>5
    <3>10. pc' # "open"
      BY <1>3 DEF Shift
    <3> QED
      BY <3>8, <3>9, <3>10 DEF IInv, OpenFree
  <2> QED
    BY <2>1, <2>2
<1>4. CASE Rename
  <2> DEFINE src == [g \in Generations |-> IF g = 1 THEN 0 ELSE g]
  <2>1. 0 \in Generations /\ 1 \in Generations /\ Exists(0)
    BY <1>4, SinkAssumption DEF Rename, Generations
  <2>2. dir' = [dir EXCEPT ![1] = dir[0], ![0] = 0]
    BY <1>4 DEF Rename, Renamed
  <2>3. /\ dir'[0] = 0
        /\ dir'[1] = dir[0]
        /\ \A g \in Generations : g # 0 /\ g # 1 => dir'[g] = dir[g]
    BY <2>1, <2>2 DEF TypeOK
  <2>4. src \in [Generations -> Generations]
    BY <2>1
  <2>5. \A g \in Generations : dir'[g] # 0 => dir'[g] = dir[src[g]]
    BY <2>3
  <2>6. \A g, h \in Generations :
          dir'[g] # 0 /\ dir'[h] # 0 /\ g < h => src[g] < src[h]
    BY <2>3 DEF Generations
  <2>7. UNCHANGED <<files, record, handle>> /\ (Pending' => Pending) /\ pc # "down"
    BY <1>4 DEF Rename, Pending, sink
  <2> HIDE DEF src
  <2>8. NumbersUsed' /\ OneName' /\ GenerationsInOrder'
    BY <2>4, <2>5, <2>6, <2>7, Moved
  <2>9. YoungestOpen'
    <3>1. SUFFICES ASSUME NEW g \in Generations, NEW h \in Generations,
                          dir'[g] = handle, h < g
                   PROVE  dir'[h] = 0
      BY <2>7 DEF YoungestOpen, Exists
    <3>2. \A f, e \in Generations : dir[f] = handle /\ e < f => dir[e] = 0
      BY <2>7 DEF IInv, YoungestOpen, Exists
    <3>3. handle # 0 /\ dir[0] # 0
      BY <2>1 DEF TypeOK, Exists
    <3>4. g = 1
      <4>1. g # 0
        BY <2>3, <3>1, <3>3
      <4>2. g # 1 => dir[g] = handle /\ 0 < g
        BY <2>3, <3>1, <4>1 DEF Generations
      <4> QED
        BY <2>1, <3>2, <3>3, <4>2
    <3>5. h = 0
      BY <3>1, <3>4 DEF Generations
    <3> QED
      BY <2>3, <3>5
  <2>10. OpenFree'
    BY <2>3 DEF OpenFree, Exists
  <2> QED
    BY <2>8, <2>9, <2>10 DEF IInv
<1>5. CASE RenameNotFound
  <2>1. /\ UNCHANGED <<files, dir, handle, record>>
        /\ pc # "down"
        /\ Pending' => Pending
        /\ pc' # "open"
    BY <1>5 DEF RenameNotFound, Pending, disk, sink
  <2> QED
    BY <2>1, Untouched
<1>6. CASE Open
  <2>1. ~Exists(0)
    BY <1>6 DEF IInv, OpenFree, Open
  <2>2. /\ Create
        /\ record' = record
        /\ dir' = [dir EXCEPT ![0] = Len(files) + 1]
        /\ handle' = Len(files) + 1
        /\ Pending' => Pending
        /\ pc' # "open"
    BY <1>6 DEF Open, Pending
  <2> QED
    BY <2>1, <2>2, CreatedLive
<1>7. CASE Write
  <2>1. /\ pc = "write" /\ ~Pending'
        /\ UNCHANGED <<dir, handle, record>>
        /\ files' = Written(TRUE, size)
    BY <1>7 DEF Write, Pending
  <2>2. size \in Nat
    BY DEF TypeOK
  <2> QED
    BY <2>1, <2>2, WrittenLine
<1>8. CASE WriteTorn
  <2>1. PICK bytes \in 1..(size - 1) : files' = Written(FALSE, bytes)
    BY <1>8 DEF WriteTorn
  <2>2. bytes \in Nat
    BY DEF TypeOK
  <2>3. pc = "write" /\ ~Pending' /\ UNCHANGED <<dir, handle, record>>
    BY <1>8 DEF WriteTorn, Pending, sink
  <2> QED
    BY <2>1, <2>2, <2>3, WrittenLine
<1>9. CASE Sync
  <2>1. /\ UNCHANGED <<files, dir, handle, record>>
        /\ pc # "down"
        /\ Pending' => Pending
        /\ pc' # "open"
    BY <1>9 DEF Sync, Pending, disk
  <2> QED
    BY <2>1, Untouched
<1>10. CASE \E syscall \in SystemCalls : Fail(syscall)
  <2>1. PICK syscall \in SystemCalls : Fail(syscall)
    BY <1>10
  <2>2. /\ UNCHANGED <<files, dir, handle, record>>
        /\ pc # "down"
        /\ Pending' => Pending
        /\ pc' # "open"
    BY <2>1 DEF Fail, Pending, disk, sink, SystemCalls
  <2> QED
    BY <2>2, Untouched
<1>11. CASE Crash
  <2>1. /\ UNCHANGED <<files, dir, handle, record>>
        /\ pc # "down"
        /\ Pending' => Pending
        /\ pc' # "open"
    BY <1>11 DEF Crash, Pending, disk, sink
  <2> QED
    BY <2>1, Untouched
<1>12. CASE Restart
  <2>1. CASE Exists(0)
    <3>1. UNCHANGED <<files, dir, record>> /\ handle' = dir[0] /\ ~Pending'
      BY <1>12, <2>1 DEF Restart, disk, Pending
    <3>2. NumbersUsed' /\ OneName' /\ GenerationsInOrder'
      BY <3>1 DEF IInv, NumbersUsed, OneName, GenerationsInOrder, LinesOf, Exists
    <3>3. YoungestOpen'
      <4>1. \A g \in Generations : dir[g] = dir[0] => g = 0
        BY <2>1, SinkAssumption DEF IInv, OneName, Exists, Generations
      <4> QED
        BY <3>1, <4>1 DEF YoungestOpen, Generations
    <3>4. pc' # "open"
      BY <1>12 DEF Restart
    <3> QED
      BY <3>2, <3>3, <3>4 DEF IInv, OpenFree
  <2>2. CASE ~Exists(0)
    <3>1. /\ Create
          /\ record' = record
          /\ dir' = [dir EXCEPT ![0] = Len(files) + 1]
          /\ handle' = Len(files) + 1
          /\ pc' = "idle"
      BY <1>12, <2>2 DEF Restart
    <3> QED
      BY <2>2, <3>1, CreatedLive
  <2> QED
    BY <2>1, <2>2
<1>13. CASE UNCHANGED vars
  BY <1>13 DEF vars, disk, sink, call, IInv, NumbersUsed, Pending, OneName, YoungestOpen,
               OpenFree, GenerationsInOrder, LinesOf, Exists
<1> QED
  BY <1>1, <1>2, <1>3, <1>4, <1>5, <1>6, <1>7, <1>8, <1>9, <1>10, <1>11, <1>12,
     <1>13 DEF Next, Append1, Rotate

(* The inductive invariant holds at the start.                             *)
LEMMA SinkInit == Init => IInv
<1> SUFFICES ASSUME Init PROVE IInv
  OBVIOUS
<1>1. \A g \in Generations : LinesOf(g) = <<>>
  BY DEF Init, LinesOf, Exists, EmptyFile
<1>2. TypeOK
  BY InitType
<1>3. NumbersUsed /\ GenerationsInOrder
  BY <1>1 DEF NumbersUsed, GenerationsInOrder
<1>4. OneName /\ YoungestOpen
  BY DEF Init, OneName, YoungestOpen, Exists, Generations
<1> QED
  BY <1>2, <1>3, <1>4 DEF IInv, OpenFree, Init

(* The numbered files and the live file, read oldest first, hold the       *)
(* records in the order they were appended: for every rotate_keep, with    *)
(* any system call failing and the process dying anywhere (rotate).        *)
THEOREM RotationKeepsOrder == Spec => []GenerationsInOrder
<1>1. Init => IInv
  BY SinkInit
<1>2. IInv /\ [Next]_vars => IInv'
  BY SinkStep
<1>3. IInv => GenerationsInOrder
  BY DEF IInv
<1> QED
  BY <1>1, <1>2, <1>3, PTL DEF Spec
(* No step moves the handle off the live name before an open has failed.   *)
LEMMA HandleStep ==
  ASSUME TypeOK, LiveHandle, [Next]_vars
  PROVE  LiveHandle'
<1> USE DEF LiveHandle, OnLiveFile
<1>0. 0 \in Generations
  BY SinkAssumption DEF Generations
<1>1. ASSUME UNCHANGED <<dir, handle>>, pc \notin {"open", "down"},
             faults'["open"] = 0 => faults["open"] = 0
      PROVE  LiveHandle'
  BY <1>1
<1>2. CASE Begin
  BY <1>1, <1>2 DEF Begin, disk, sink
<1>3. CASE RemoveOldest
  <2>1. dir'[0] = dir[0]
    BY <1>0, <1>3, SinkAssumption DEF RemoveOldest, TypeOK
  <2> QED
    BY <1>3, <2>1 DEF RemoveOldest, sink
<1>4. CASE Shift
  <2>1. level \in Generations /\ level > 0 /\ level + 1 \in Generations
    BY <1>4, SinkAssumption DEF Shift, TypeOK, Generations
  <2>2. dir'[0] = dir[0]
    BY <1>0, <1>4, <2>1 DEF Shift, Renamed, TypeOK
  <2> QED
    BY <1>4, <2>2 DEF Shift, sink
<1>5. CASE Rename
  BY <1>5 DEF Rename
<1>6. CASE RenameNotFound
  BY <1>1, <1>6 DEF RenameNotFound, disk, sink
<1>7. CASE Open
  BY <1>0, <1>7 DEF Open, TypeOK
<1>8. CASE Write
  BY <1>1, <1>8 DEF Write
<1>9. CASE WriteTorn
  <2>1. faults'["open"] = faults["open"]
    BY <1>9 DEF WriteTorn, MayFail, TypeOK, SystemCalls
  <2> QED
    BY <1>1, <1>9, <2>1 DEF WriteTorn, sink
<1>10. CASE Sync
  BY <1>1, <1>10 DEF Sync, disk
<1>11. CASE \E syscall \in SystemCalls : Fail(syscall)
  <2>1. PICK syscall \in SystemCalls : Fail(syscall)
    BY <1>11
  <2>2. CASE syscall = "open"
    <3>1. faults'["open"] # 0
      BY <2>1, <2>2 DEF Fail, MayFail, TypeOK
    <3> QED
      BY <3>1
  <2>3. CASE syscall # "open"
    <3>1. faults'["open"] = faults["open"]
      BY <2>1, <2>3 DEF Fail, MayFail, TypeOK, SystemCalls
    <3>2. pc \notin {"open", "down"} /\ UNCHANGED <<dir, handle>>
      BY <2>1, <2>3 DEF Fail, disk, sink, SystemCalls
    <3> QED
      BY <1>1, <3>1, <3>2
  <2> QED
    BY <2>2, <2>3
<1>12. CASE Crash
  BY <1>12 DEF Crash
<1>13. CASE Restart
  BY <1>0, <1>13 DEF Restart, TypeOK, disk
<1>14. CASE UNCHANGED vars
  BY <1>14 DEF vars, disk, sink, call
<1> QED
  BY <1>2, <1>3, <1>4, <1>5, <1>6, <1>7, <1>8, <1>9, <1>10, <1>11, <1>12, <1>13,
     <1>14 DEF Next, Append1, Rotate

(* Until the open that ends a rotation fails, the sink writes to the live  *)
(* file and every rotation finds one, whatever other system calls fail and *)
(* wherever the process dies (Sink::append, Sink::rotate, Sink::open).     *)
THEOREM HandleStaysLive == Spec => []LiveHandle
<1>1. Init => TypeOK /\ LiveHandle
  <2>1. Init => LiveHandle
    BY SinkAssumption DEF Init, LiveHandle, OnLiveFile, Generations
  <2> QED
    BY <2>1, InitType
<1>2. (TypeOK /\ LiveHandle) /\ [Next]_vars => (TypeOK /\ LiveHandle)'
  BY StepType, HandleStep
<1> QED
  BY <1>1, <1>2, PTL DEF Spec
===============================================================================
