------------------------- MODULE AuditRotation_proofs -------------------------
(***************************************************************************)
(* What rotation does to the audit log as its reader sees it, proved for   *)
(* every rotate_keep, every rotate_max_bytes and any number of failures    *)
(* and crashes: files stay within their size, only the oldest file goes,   *)
(* and the files together implement module RetainedLog.                    *)
(***************************************************************************)
EXTENDS MCAuditSink, AuditSink_proofs, Induction

(* The name that a rotation in progress has freed for its next step.       *)
Gap == IF pc \in {"shift", "rename"} THEN {level + 1}
       ELSE IF pc = "open" THEN {0} ELSE {}

GapFree ==
  /\ \A g \in Gap : ~Exists(g)
  /\ pc = "rename" => level = 0

(* Until a rotation is cut short the names in use are 0 .. k, but for the  *)
(* gap.                                                                    *)
NamesDense ==
  Uninterrupted =>
    /\ pc # "down"
    /\ Exists(0) \/ 0 \in Gap
    /\ \A g, h \in Generations : g < h /\ Exists(h) => Exists(g) \/ g \in Gap

RotationInv == TypeOK /\ GapFree /\ NamesDense

(* While no write or sync has failed the cached length is the file's, and  *)
(* a record that does not start a file fits into it.                       *)
Counted == MaxBytes > 0 /\ faults["write"] = 0 /\ faults["sync"] = 0

Fits(file) == file.bytes <= MaxBytes \/ Len(file.lines) = 1

LengthTrue ==
  /\ \A f \in 1..Len(files) :
       Fits(files[f]) /\ (files[f].bytes = 0 => files[f].lines = <<>>)
  /\ pc \notin {"sync", "down"} => len = files[handle].bytes
  /\ pc = "sync" => len + size = files[handle].bytes
  /\ pc = "write" => len = 0 \/ len + size <= MaxBytes
  /\ Pending => size > 0

LengthInv == TypeOK /\ (Counted => LengthTrue)
-----------------------------------------------------------------------------
(* A rotation once cut short stays on record.                              *)
LEMMA Interruption ==
  ASSUME TypeOK, [Next]_vars, Uninterrupted => pc # "down"
  PROVE  Uninterrupted' => Uninterrupted /\ pc' # "down"
<1>0. /\ crashes \in Nat
      /\ \A s \in SystemCalls : faults[s] \in Nat
      /\ {"remove", "shift", "rename", "open"} \subseteq SystemCalls
  BY DEF TypeOK, SystemCalls
<1>1. ASSUME NEW s \in SystemCalls, MayFail(s)
      PROVE  \A c \in SystemCalls : faults'[c] = 0 => faults[c] = 0
  <2>1. faults' = [faults EXCEPT ![s] = faults[s] + 1]
    BY <1>1 DEF MayFail
  <2>2. faults[s] + 1 # 0
    BY <1>0
  <2> QED
    BY <2>1, <2>2 DEF TypeOK
<1>2. /\ \A c \in SystemCalls : faults'[c] = 0 => faults[c] = 0
      /\ crashes' = 0 => crashes = 0
  <2>1. CASE \E s \in SystemCalls : Fail(s)
    BY <1>1, <2>1 DEF Fail
  <2>2. CASE WriteTorn
    BY <1>1, <2>2 DEF WriteTorn, SystemCalls
  <2>3. CASE Crash
    BY <1>0, <2>3 DEF Crash
  <2>4. CASE UNCHANGED <<faults, crashes>>
    BY <2>4
  <2> QED
    BY <2>1, <2>2, <2>3, <2>4
    DEF Next, Append1, Rotate, Begin, Write, Sync, RemoveOldest, Shift, Rename,
        RenameNotFound, Open, Restart, vars
<1>3. pc' = "down" => pc = "down" \/ crashes' # 0
  <2>1. CASE Crash
    BY <1>0, <2>1 DEF Crash
  <2> QED
    BY <2>1
    DEF Next, Append1, Rotate, Begin, Write, WriteTorn, Sync, RemoveOldest, Shift,
        Rename, RenameNotFound, Open, Restart, Fail, vars, call
<1> QED
  BY <1>0, <1>2, <1>3 DEF Uninterrupted

(* Every step keeps the gap free and the names dense.                      *)
LEMMA RotationStep == RotationInv /\ [Next]_vars => RotationInv'
<1> SUFFICES ASSUME RotationInv, [Next]_vars PROVE GapFree' /\ NamesDense'
  BY StepType DEF RotationInv
<1> USE DEF Exists
<1>0. TypeOK /\ TypeOK' /\ GapFree /\ NamesDense
  BY StepType DEF RotationInv
<1>a. Uninterrupted' => Uninterrupted /\ pc # "down" /\ pc' # "down"
  BY <1>0, Interruption DEF NamesDense
<1>b. /\ Keep \in Nat \ {0} /\ Keep \in Generations
      /\ 0 \in Generations /\ 1 \in Generations
      /\ dir \in [Generations -> 0..Len(files)]
      /\ \A g \in Generations : g \in Nat /\ g <= Keep
  <2>1. Keep \in Nat \ {0}
    BY SinkAssumption
  <2>2. dir \in [Generations -> 0..Len(files)]
    BY <1>0 DEF TypeOK
  <2> QED
    BY <2>1, <2>2 DEF Generations
<1>1. ASSUME UNCHANGED dir, Gap' = Gap, pc' # "rename"
      PROVE  GapFree' /\ NamesDense'
  BY <1>0, <1>1, <1>a DEF GapFree, NamesDense
<1>2. CASE Begin
  BY <1>1, <1>2 DEF Begin, disk, Gap
<1>3. CASE RemoveOldest
  <2>1. /\ pc = "remove" /\ level' = Keep - 1
        /\ dir' = [dir EXCEPT ![Keep] = 0]
        /\ pc' = IF Keep > 1 THEN "shift" ELSE "rename"
    BY <1>3 DEF RemoveOldest
  <2>2. Gap = {} /\ Gap' = {Keep}
    BY <1>b, <2>1 DEF Gap
  <2>3. dir'[Keep] = 0 /\ \A g \in Generations : g # Keep => dir'[g] = dir[g]
    BY <1>b, <2>1
  <2>4. GapFree'
    BY <1>b, <2>1, <2>2, <2>3 DEF GapFree
  <2>5. NamesDense'
    BY <1>0, <1>a, <1>b, <2>2, <2>3 DEF NamesDense
  <2> QED
    BY <2>4, <2>5
<1>4. CASE Shift
  <2>1. /\ pc = "shift" /\ level' = level - 1
        /\ dir' = IF Exists(level) THEN Renamed(level, level + 1) ELSE dir
        /\ pc' = IF level > 1 THEN "shift" ELSE "rename"
    BY <1>4 DEF Shift
  <2>2. level \in Generations /\ level + 1 \in Generations /\ level > 0
    BY <1>0, <1>b, <2>1 DEF TypeOK, Generations
  <2>3. Gap = {level + 1} /\ Gap' = {level}
    BY <1>b, <2>1, <2>2 DEF Gap
  <2>4. dir[level + 1] = 0
    BY <1>0, <2>3 DEF GapFree
  <2>5. /\ dir'[level] = 0 /\ dir'[level + 1] = dir[level]
        /\ \A g \in Generations : g # level /\ g # level + 1 => dir'[g] = dir[g]
    BY <1>b, <2>1, <2>2, <2>4 DEF Renamed
  <2>6. GapFree'
    BY <1>b, <2>1, <2>2, <2>3, <2>5 DEF GapFree
  <2>7. NamesDense'
    <3>1. SUFFICES ASSUME Uninterrupted'
                   PROVE  /\ dir'[0] # 0 \/ 0 \in Gap'
                          /\ \A g, h \in Generations :
                               g < h /\ dir'[h] # 0 => dir'[g] # 0 \/ g \in Gap'
      BY <1>a DEF NamesDense
    <3>2. /\ dir[0] # 0 \/ 0 \in Gap
          /\ \A g, h \in Generations : g < h /\ dir[h] # 0 => dir[g] # 0 \/ g \in Gap
      BY <1>0, <1>a, <3>1 DEF NamesDense
    <3>3. dir'[0] # 0 \/ 0 \in Gap'
      BY <1>b, <2>2, <2>3, <2>5, <3>2
    <3>4. ASSUME NEW g \in Generations, NEW h \in Generations, g < h, dir'[h] # 0
          PROVE  dir'[g] # 0 \/ g \in Gap'
      <4>1. CASE h = level + 1
        BY <1>b, <2>2, <2>3, <2>5, <3>2, <3>4, <4>1
      <4>2. CASE h # level + 1
        <5>1. h # level /\ dir[h] # 0
          BY <1>b, <2>2, <2>5, <3>4, <4>2
        <5>2. CASE h < level
          <6>1. g # level /\ g # level + 1
            BY <1>b, <2>2, <3>4, <5>2
          <6> QED
            BY <2>3, <2>5, <3>2, <3>4, <5>1, <6>1
        <5>3. CASE h > level + 1
          <6>1. dir[level] # 0
            BY <1>b, <2>2, <2>3, <3>2, <5>1, <5>3
          <6> QED
            BY <1>b, <2>2, <2>3, <2>5, <3>2, <3>4, <5>1, <6>1
        <5> QED
          BY <1>b, <2>2, <4>2, <5>1, <5>2, <5>3
      <4> QED
        BY <4>1, <4>2
    <3> QED
      BY <3>3, <3>4
  <2> QED
    BY <2>6, <2>7
<1>5. CASE Rename
  <2>1. pc = "rename" /\ pc' = "open" /\ dir' = [dir EXCEPT ![1] = dir[0], ![0] = 0]
    BY <1>5 DEF Rename, Renamed
  <2>2. level = 0 /\ Gap = {1} /\ Gap' = {0}
    BY <1>0, <2>1 DEF Gap, GapFree
  <2>3. /\ dir'[0] = 0 /\ dir'[1] = dir[0]
        /\ \A g \in Generations : g # 0 /\ g # 1 => dir'[g] = dir[g]
    BY <1>b, <2>1
  <2>4. GapFree'
    BY <2>1, <2>2, <2>3 DEF GapFree
  <2>5. NamesDense'
    <3>1. dir[0] # 0
      BY <1>5 DEF Rename
    <3> QED
      BY <1>0, <1>a, <1>b, <2>2, <2>3, <3>1 DEF NamesDense
  <2> QED
    BY <2>4, <2>5
<1>6. CASE RenameNotFound
  <2>1. ~Uninterrupted'
    <3>1. UNCHANGED <<crashes, faults>> /\ dir[0] = 0 /\ pc = "rename"
      BY <1>6 DEF RenameNotFound
    <3>2. level = 0
      BY <1>0, <3>1 DEF GapFree
    <3>3. 0 \notin Gap
      BY <3>1, <3>2 DEF Gap
    <3> QED
      BY <1>0, <1>a, <3>1, <3>3 DEF NamesDense
  <2>2. pc' = "idle" /\ Gap' = {}
    BY <1>6 DEF RenameNotFound, Gap
  <2> QED
    BY <2>1, <2>2 DEF GapFree, NamesDense
<1>7. CASE Open
  <2>1. pc = "open" /\ pc' = "write" /\ dir' = [dir EXCEPT ![0] = Len(files) + 1]
    BY <1>7 DEF Open
  <2>2. Gap = {0} /\ Gap' = {}
    BY <2>1 DEF Gap
  <2>3. /\ dir'[0] # 0
        /\ \A g \in Generations : g # 0 => dir'[g] = dir[g]
    BY <1>0, <1>b, <2>1 DEF TypeOK
  <2>4. GapFree'
    BY <2>1, <2>2 DEF GapFree
  <2>5. NamesDense'
    BY <1>0, <1>a, <1>b, <2>2, <2>3 DEF NamesDense
  <2> QED
    BY <2>4, <2>5
<1>8. CASE Write
  BY <1>1, <1>8 DEF Write, Gap
<1>9. CASE WriteTorn
  BY <1>1, <1>9 DEF WriteTorn, Gap
<1>10. CASE Sync
  BY <1>1, <1>10 DEF Sync, disk, Gap
<1>11. CASE \E syscall \in SystemCalls : Fail(syscall)
  <2>1. PICK syscall \in SystemCalls : Fail(syscall)
    BY <1>11
  <2>2. CASE syscall \in {"write", "sync"}
    BY <1>1, <2>1, <2>2 DEF Fail, disk, Gap
  <2>3. CASE syscall \in {"remove", "shift", "rename", "open"}
    <3>1. faults'[syscall] # 0
      BY <1>0, <2>1, <2>3 DEF Fail, MayFail, TypeOK
    <3>2. ~Uninterrupted'
      BY <2>3, <3>1 DEF Uninterrupted
    <3>3. pc' = "idle" /\ Gap' = {}
      BY <2>1 DEF Fail, Gap
    <3> QED
      BY <3>2, <3>3 DEF GapFree, NamesDense
  <2> QED
    BY <2>2, <2>3 DEF SystemCalls
<1>12. CASE Crash
  <2>1. pc' = "down" /\ Gap' = {}
    BY <1>12 DEF Crash, Gap
  <2> QED
    BY <1>a, <2>1 DEF GapFree, NamesDense
<1>13. CASE Restart
  <2>1. pc = "down" /\ pc' = "idle" /\ Gap' = {}
    BY <1>13 DEF Restart, Gap
  <2> QED
    BY <1>a, <2>1 DEF GapFree, NamesDense
<1>14. CASE UNCHANGED vars
  BY <1>0, <1>14 DEF vars, disk, call, GapFree, NamesDense, Gap, Uninterrupted
<1> QED
  BY <1>0, <1>2, <1>3, <1>4, <1>5, <1>6, <1>7, <1>8, <1>9, <1>10, <1>11, <1>12, <1>13,
     <1>14 DEF Next, Append1, Rotate

(* A step that only adds names, or that only moves one, loses no file.     *)
LEMMA NamesKept ==
  ASSUME \/ Kept \subseteq Kept'
         \/ \E g, h : g \in Kept /\ h \notin Kept /\ Kept' = (Kept \ {g}) \cup {h}
  PROVE  ~FileLost
<1>1. IsFiniteSet(Generations) /\ Kept \subseteq Generations /\ Kept' \subseteq Generations
  BY FS_Interval, SinkAssumption DEF Generations, Kept
<1>2. /\ IsFiniteSet(Kept) /\ IsFiniteSet(Kept')
      /\ Cardinality(Kept) \in Nat /\ Cardinality(Kept') \in Nat
  BY <1>1, FS_Subset, FS_CardinalityType
<1>3. CASE Kept \subseteq Kept'
  <2>1. Cardinality(Kept) <= Cardinality(Kept')
    BY <1>2, <1>3, FS_Subset
  <2> QED
    BY <1>2, <2>1 DEF FileLost
<1>4. CASE \E g, h : g \in Kept /\ h \notin Kept /\ Kept' = (Kept \ {g}) \cup {h}
  <2>1. PICK g, h : g \in Kept /\ h \notin Kept /\ Kept' = (Kept \ {g}) \cup {h}
    BY <1>4
  <2>2. IsFiniteSet(Kept \ {g}) /\ Cardinality(Kept \ {g}) = Cardinality(Kept) - 1
    BY <1>2, <2>1, FS_RemoveElement
  <2>3. h \notin Kept \ {g}
    BY <2>1
  <2>4. Cardinality(Kept') = (Cardinality(Kept) - 1) + 1
    BY <2>1, <2>2, <2>3, FS_AddElement
  <2> QED
    BY <1>2, <2>4 DEF FileLost
<1> QED
  BY <1>3, <1>4

(* Only removing the oldest file takes a last name away, and while the     *)
(* names are dense that file is there only if all of them are in use.      *)
LEMMA LossStep ==
  ASSUME RotationInv, [Next]_vars, FileLost, Uninterrupted
  PROVE  Kept = Generations
<1> USE DEF Exists
<1>1. TypeOK /\ GapFree /\ NamesDense
  BY DEF RotationInv
<1>2. /\ Keep \in Nat \ {0}
      /\ dir \in [Generations -> 0..Len(files)]
  <2>1. Keep \in Nat \ {0}
    BY SinkAssumption
  <2> QED
    BY <1>1, <2>1 DEF TypeOK
<1>3. /\ Keep \in Generations /\ 0 \in Generations /\ 1 \in Generations
      /\ \A g \in Generations : g \in Nat /\ g <= Keep
  BY <1>2 DEF Generations
<1>4. ~(Kept \subseteq Kept')
  BY NamesKept
<1>5. dir' # dir
  BY <1>4 DEF Kept
<1>6. CASE RemoveOldest
  <2>1. pc = "remove" /\ dir' = [dir EXCEPT ![Keep] = 0]
    BY <1>6 DEF RemoveOldest
  <2>2. \A g \in Generations : g # Keep => dir'[g] = dir[g]
    BY <1>2, <1>3, <2>1
  <2>3. Exists(Keep)
    BY <1>4, <2>2 DEF Kept
  <2>4. Gap = {}
    BY <2>1 DEF Gap
  <2>5. \A g \in Generations : g < Keep => Exists(g)
    BY <1>1, <1>3, <2>3, <2>4 DEF NamesDense
  <2>6. \A g \in Generations : g < Keep \/ g = Keep
    BY <1>2, <1>3
  <2> QED
    BY <2>3, <2>5, <2>6 DEF Kept
<1>7. CASE Shift
  <2>1. pc = "shift" /\ dir' = IF Exists(level) THEN Renamed(level, level + 1) ELSE dir
    BY <1>7 DEF Shift
  <2>2. level \in Generations /\ level + 1 \in Generations /\ level + 1 # level
    BY <1>1, <1>2, <2>1 DEF TypeOK, Generations
  <2>3. dir[level] # 0 /\ dir[level + 1] = 0
    BY <1>1, <1>5, <2>1 DEF GapFree, Gap
  <2>4. /\ dir'[level] = 0 /\ dir'[level + 1] = dir[level]
        /\ \A g \in Generations : g # level /\ g # level + 1 => dir'[g] = dir[g]
    BY <1>2, <2>1, <2>2, <2>3 DEF Renamed
  <2>5. level \in Kept /\ level + 1 \notin Kept /\ Kept' = (Kept \ {level}) \cup {level + 1}
    BY <2>2, <2>3, <2>4 DEF Kept
  <2> QED
    BY <2>5, NamesKept
<1>8. CASE Rename
  <2>1. pc = "rename" /\ dir[0] # 0 /\ dir' = [dir EXCEPT ![1] = dir[0], ![0] = 0]
    BY <1>8 DEF Rename, Renamed
  <2>2. level = 0
    BY <1>1, <2>1 DEF GapFree
  <2>3. dir[1] = 0
    BY <1>1, <2>1, <2>2 DEF GapFree, Gap
  <2>4. /\ dir'[0] = 0 /\ dir'[1] = dir[0]
        /\ \A g \in Generations : g # 0 /\ g # 1 => dir'[g] = dir[g]
    BY <1>2, <1>3, <2>1
  <2>5. 0 \in Kept /\ 1 \notin Kept /\ Kept' = (Kept \ {0}) \cup {1}
    BY <1>3, <2>1, <2>3, <2>4 DEF Kept
  <2> QED
    BY <2>5, NamesKept
<1>9. CASE Open \/ Restart
  <2>1. dir' = [dir EXCEPT ![0] = Len(files) + 1]
    BY <1>5, <1>9 DEF Open, Restart, disk
  <2>2. Len(files) \in Nat
    BY <1>1 DEF TypeOK
  <2>3. dir'[0] # 0 /\ \A g \in Generations : g # 0 => dir'[g] = dir[g]
    BY <1>2, <1>3, <2>1, <2>2
  <2> QED
    BY <1>4, <2>3 DEF Kept
<1> QED
  BY <1>5, <1>6, <1>7, <1>8, <1>9
  DEF Next, Append1, Rotate, Begin, Write, WriteTorn, Sync, RenameNotFound, Fail,
      Crash, vars, disk

(* At the start nothing is being rotated and one file exists.              *)
LEMMA RotationInit == Init => RotationInv
<1> SUFFICES ASSUME Init PROVE RotationInv
  OBVIOUS
<1>1. TypeOK
  BY InitType
<1>2. Gap = {} /\ pc = "idle"
  BY DEF Init, Gap
<1>3. 0 \in Generations /\ \A g \in Generations : g \in Nat
  BY SinkAssumption DEF Generations
<1>4. dir[0] # 0 /\ \A g \in Generations : g # 0 => dir[g] = 0
  BY <1>3 DEF Init
<1> QED
  BY <1>1, <1>2, <1>3, <1>4 DEF RotationInv, GapFree, NamesDense, Exists

(* As long as no rotation is cut short, a file loses its last name only    *)
(* while rotate_keep younger ones exist, whatever writes and syncs fail    *)
(* and for every rotate_keep (Sink::rotate; docs, File handling).          *)
THEOREM OnlyTheOldestGoes == Spec => LossOnlyByAge
<1>1. Init => RotationInv
  BY RotationInit
<1>2. RotationInv /\ [Next]_vars => RotationInv'
  BY RotationStep
<1>3. RotationInv /\ [Next]_vars => [FileLost /\ Uninterrupted => Kept = Generations]_vars
  BY LossStep
<1> QED
  BY <1>1, <1>2, <1>3, PTL DEF Spec, LossOnlyByAge
-----------------------------------------------------------------------------
(* A write or sync that has failed once stays on record.                   *)
LEMMA CountedBefore ==
  ASSUME TypeOK, [Next]_vars, Counted'
  PROVE  /\ Counted
         /\ ~WriteTorn
         /\ ~Fail("write") /\ ~Fail("sync")
<1>0. \A s \in SystemCalls : faults[s] \in Nat
  BY DEF TypeOK
<1>1. ASSUME NEW s \in SystemCalls, MayFail(s)
      PROVE  /\ \A c \in SystemCalls : faults'[c] = 0 => faults[c] = 0
             /\ faults'[s] # 0
  <2>1. faults' = [faults EXCEPT ![s] = faults[s] + 1]
    BY <1>1 DEF MayFail
  <2>2. faults[s] + 1 # 0
    BY <1>0
  <2> QED
    BY <2>1, <2>2 DEF TypeOK
<1>2. "write" \in SystemCalls /\ "sync" \in SystemCalls
  BY DEF SystemCalls
<1>3. \A c \in SystemCalls : faults'[c] = 0 => faults[c] = 0
  <2>1. CASE \E s \in SystemCalls : Fail(s)
    BY <1>1, <2>1 DEF Fail
  <2>2. CASE WriteTorn
    BY <1>1, <1>2, <2>2 DEF WriteTorn
  <2>3. CASE UNCHANGED faults
    BY <2>3
  <2> QED
    BY <2>1, <2>2, <2>3
    DEF Next, Append1, Rotate, Begin, Write, Sync, RemoveOldest, Shift, Rename,
        RenameNotFound, Open, Crash, Restart, vars
<1>4. Counted
  BY <1>2, <1>3 DEF Counted
<1>5. ~WriteTorn
  BY <1>1, <1>2 DEF WriteTorn, Counted
<1>6. ~Fail("write") /\ ~Fail("sync")
  BY <1>1, <1>2 DEF Fail, Counted
<1> QED
  BY <1>4, <1>5, <1>6

(* A line that fits, or that starts the file, leaves the file in bounds.   *)
LEMMA FittingLine ==
  ASSUME TypeOK, LengthTrue, pc = "write",
         files' = Written(TRUE, size)
  PROVE  /\ Len(files') = Len(files)
         /\ \A f \in 1..Len(files) :
              Fits(files'[f]) /\ (files'[f].bytes = 0 => files'[f].lines = <<>>)
         /\ files'[handle].bytes = len + size
<1> DEFINE lines == files[handle].lines
           lines2 == files'[handle].lines
           bytes == files[handle].bytes
           bytes2 == files'[handle].bytes
<1>1. /\ files \in Seq(File) /\ handle \in 1..Len(files)
      /\ size \in Nat /\ len \in Nat /\ MaxBytes \in Nat /\ size > 0
  BY SinkAssumption DEF TypeOK, LengthTrue, Pending
<1>2. lines \in Seq(Line) /\ bytes \in Nat
  <2>1. files[handle] \in File
    BY <1>1
  <2> QED
    BY <2>1 DEF File
<1>3. len = bytes /\ (len = 0 \/ len + size <= MaxBytes) /\ (bytes = 0 => lines = <<>>)
  BY <1>1 DEF LengthTrue
<1>4. /\ Len(files') = Len(files)
      /\ \A f \in 1..Len(files) : f # handle => files'[f] = files[f]
      /\ lines2 = Append(lines, [record |-> record, whole |-> TRUE])
      /\ bytes2 = bytes + size
  BY <1>1, WrittenType
<1>5. (bytes2 <= MaxBytes \/ Len(lines2) = 1) /\ bytes2 # 0 /\ bytes2 = len + size
  <2> HIDE DEF lines, lines2, bytes, bytes2
  <2> QED
    BY <1>1, <1>2, <1>3, <1>4
<1>6. Fits(files'[handle])
  BY <1>5 DEF Fits
<1>7. ASSUME NEW f \in 1..Len(files)
      PROVE  Fits(files'[f]) /\ (files'[f].bytes = 0 => files'[f].lines = <<>>)
  BY <1>4, <1>5, <1>6 DEF LengthTrue
<1> QED
  BY <1>4, <1>5, <1>7

(* A created file is empty and fits.                                       *)
LEMMA FreshFile ==
  ASSUME TypeOK, LengthTrue, Create, handle' = Len(files) + 1
  PROVE  /\ \A f \in 1..Len(files') :
              Fits(files'[f]) /\ (files'[f].bytes = 0 => files'[f].lines = <<>>)
         /\ files'[handle'].bytes = 0
<1>1. files \in Seq(File) /\ MaxBytes \in Nat
  BY SinkAssumption DEF TypeOK
<1>2. /\ Len(files') = Len(files) + 1
      /\ \A f \in 1..Len(files) : files'[f] = files[f]
      /\ files'[Len(files) + 1] = EmptyFile
  BY <1>1 DEF Create
<1>3. Fits(EmptyFile) /\ EmptyFile.lines = <<>> /\ EmptyFile.bytes = 0
  BY <1>1 DEF Fits, EmptyFile
<1>4. \A f \in 1..Len(files') : f \in 1..Len(files) \/ f = Len(files) + 1
  BY <1>1, <1>2
<1> QED
  BY <1>2, <1>3, <1>4 DEF LengthTrue

(* Every step keeps the cached length true while it is counted.            *)
LEMMA LengthStep == LengthInv /\ [Next]_vars => LengthInv'
<1> SUFFICES ASSUME LengthInv, [Next]_vars, Counted' PROVE LengthTrue'
  BY StepType DEF LengthInv
<1>0. /\ TypeOK /\ LengthTrue /\ MaxBytes > 0
      /\ ~WriteTorn /\ ~Fail("write") /\ ~Fail("sync")
  BY CountedBefore DEF LengthInv, Counted
<1>a. /\ files \in Seq(File) /\ handle \in 1..Len(files)
      /\ size \in Nat /\ len \in Nat /\ MaxBytes \in Nat
      /\ \A bytes \in Sizes : bytes \in Nat /\ bytes > 0
  BY <1>0, SinkAssumption DEF TypeOK
<1>1. ASSUME UNCHANGED <<files, handle, len>>, pc \notin {"sync", "down"},
             pc' \notin {"sync", "write"}, Pending' => Pending /\ size' = size
      PROVE  LengthTrue'
  BY <1>0, <1>1 DEF LengthTrue
<1>2. CASE Begin
  <2>1. PICK bytes \in Sizes :
          size' = bytes /\ pc' = IF MustRotate(bytes) THEN "remove" ELSE "write"
    BY <1>2 DEF Begin
  <2>2. pc' = "write" => len = 0 \/ len + bytes <= MaxBytes
    BY <1>0, <1>a, <2>1 DEF MustRotate
  <2>3. UNCHANGED <<files, handle, len>> /\ pc = "idle" /\ size' > 0
    BY <1>2, <1>a, <2>1 DEF Begin, disk, sink
  <2> QED
    BY <1>0, <2>1, <2>2, <2>3 DEF LengthTrue
<1>3. CASE RemoveOldest
  BY <1>1, <1>3 DEF RemoveOldest, sink, Pending
<1>4. CASE Shift
  BY <1>1, <1>4 DEF Shift, sink, Pending
<1>5. CASE Rename
  BY <1>1, <1>5 DEF Rename, sink, Pending
<1>6. CASE RenameNotFound
  BY <1>1, <1>6 DEF RenameNotFound, disk, sink, Pending
<1>7. CASE Open
  <2>1. /\ Create /\ handle' = Len(files) + 1 /\ len' = 0 /\ size' = size
        /\ pc = "open" /\ pc' = "write"
    BY <1>7 DEF Open
  <2>2. /\ \A f \in 1..Len(files') :
             Fits(files'[f]) /\ (files'[f].bytes = 0 => files'[f].lines = <<>>)
        /\ files'[handle'].bytes = 0
    BY <1>0, <2>1, FreshFile
  <2>3. size > 0
    BY <1>0, <2>1 DEF LengthTrue, Pending
  <2> QED
    BY <2>1, <2>2, <2>3 DEF LengthTrue
<1>8. CASE Write
  <2>1. pc = "write" /\ files' = Written(TRUE, size) /\ UNCHANGED <<handle, size>>
    BY <1>8 DEF Write
  <2>2. /\ Len(files') = Len(files)
        /\ \A f \in 1..Len(files) :
             Fits(files'[f]) /\ (files'[f].bytes = 0 => files'[f].lines = <<>>)
        /\ files'[handle].bytes = len + size
    BY <1>0, <2>1, FittingLine
  <2>3. (pc' = "sync" /\ len' = len) \/ (pc' = "idle" /\ len' = len + size)
    BY <1>8 DEF Write
  <2>4. ~Pending'
    BY <2>3 DEF Pending
  <2> QED
    BY <2>1, <2>2, <2>3, <2>4 DEF LengthTrue
<1>9. CASE Sync
  <2>1. /\ pc = "sync" /\ pc' = "idle" /\ len' = len + size
        /\ UNCHANGED <<files, handle, size>>
    BY <1>9 DEF Sync, disk
  <2> QED
    BY <1>0, <2>1 DEF LengthTrue, Pending
<1>10. CASE \E syscall \in SystemCalls : Fail(syscall)
  <2>1. PICK syscall \in SystemCalls : Fail(syscall)
    BY <1>10
  <2>2. pc # "sync" /\ pc # "down" /\ pc' = "idle"
    BY <1>0, <2>1 DEF Fail, SystemCalls
  <2> QED
    BY <1>1, <2>1, <2>2 DEF Fail, disk, sink, Pending
<1>11. CASE Crash
  BY <1>0, <1>11 DEF Crash, disk, sink, LengthTrue, Pending
<1>12. CASE Restart
  <2>1. pc' = "idle"
    BY <1>12 DEF Restart
  <2>2. CASE Exists(0)
    <3>1. handle' = dir[0] /\ len' = files[dir[0]].bytes /\ UNCHANGED files
      BY <1>12, <2>2 DEF Restart, disk
    <3> QED
      BY <1>0, <2>1, <3>1 DEF LengthTrue, Pending
  <2>3. CASE ~Exists(0)
    <3>1. Create /\ handle' = Len(files) + 1 /\ len' = 0
      BY <1>12, <2>3 DEF Restart
    <3>2. /\ \A f \in 1..Len(files') :
               Fits(files'[f]) /\ (files'[f].bytes = 0 => files'[f].lines = <<>>)
          /\ files'[handle'].bytes = 0
      BY <1>0, <3>1, FreshFile
    <3> QED
      BY <2>1, <3>1, <3>2 DEF LengthTrue, Pending
  <2> QED
    BY <2>2, <2>3
<1>13. CASE UNCHANGED vars
  BY <1>0, <1>13 DEF vars, disk, sink, call, LengthTrue, Pending
<1> QED
  BY <1>0, <1>2, <1>3, <1>4, <1>5, <1>6, <1>7, <1>8, <1>9, <1>10, <1>11, <1>12, <1>13
  DEF Next, Append1, Rotate

(* A named file is one of the created files.                               *)
LEMMA LengthBounds == LengthInv => SizeBound
<1> SUFFICES ASSUME LengthInv, Counted, NEW g \in Generations, Exists(g)
             PROVE  files[dir[g]].bytes <= MaxBytes \/ Len(LinesOf(g)) = 1
  BY DEF SizeBound, Counted
<1>1. dir[g] \in 1..Len(files)
  BY DEF LengthInv, TypeOK, Exists
<1>2. Fits(files[dir[g]])
  BY <1>1 DEF LengthInv, LengthTrue
<1> QED
  BY <1>2 DEF Fits, LinesOf

(* The cached length is true of the first, empty file.                     *)
LEMMA LengthInit == Init => LengthInv
<1> SUFFICES ASSUME Init PROVE LengthInv
  OBVIOUS
<1>1. /\ files = <<EmptyFile>> /\ handle = 1 /\ len = 0 /\ pc = "idle"
      /\ MaxBytes \in Nat
  BY SinkAssumption DEF Init
<1>2. Fits(EmptyFile) /\ EmptyFile.lines = <<>> /\ EmptyFile.bytes = 0
  BY <1>1 DEF Fits, EmptyFile
<1>3. Len(files) = 1 /\ files[1] = EmptyFile
  BY <1>1
<1>4. LengthTrue
  BY <1>1, <1>2, <1>3 DEF LengthTrue, Pending
<1> QED
  BY <1>4, InitType DEF LengthInv

(* No file grows past rotate_max_bytes, unless by the one record that is   *)
(* larger by itself, while every write and sync succeeds: for every limit, *)
(* every record size, and with rotations failing and the process dying     *)
(* anywhere (Sink::append, Sink::open).                                    *)
THEOREM FilesStayWithinBounds == Spec => []SizeBound
<1>1. Init => LengthInv
  BY LengthInit
<1>2. LengthInv /\ [Next]_vars => LengthInv'
  BY LengthStep
<1>3. LengthInv => SizeBound
  BY LengthBounds
<1> QED
  BY <1>1, <1>2, <1>3, PTL DEF Spec
-----------------------------------------------------------------------------
(* The refinement.  Chapter k of the reader's log is generation Keep-k+1.  *)
Chapter(g) == Keep - g + 1

ChaptersOK ==
  /\ Chapters \in [1..(Keep + 1) -> Seq(Nat)]
  /\ \A g \in Generations :
       Chapters[Chapter(g)] = [i \in DOMAIN LinesOf(g) |-> LinesOf(g)[i].record]

(* Chapters and generations correspond one to one.                         *)
LEMMA ChapterNumbers ==
  /\ Keep + 1 \in Nat \ {0}
  /\ \A g \in Generations :
       /\ Chapter(g) \in 1..(Keep + 1)
       /\ \A h \in Generations : /\ Chapter(h) = Chapter(g) => h = g
                                 /\ Chapter(g) < Chapter(h) <=> h < g
  /\ \A k \in 1..(Keep + 1) : \E g \in Generations : k = Chapter(g)
<1>1. Keep \in Nat \ {0}
  BY SinkAssumption
<1>2. \A k \in 1..(Keep + 1) : Keep - k + 1 \in Generations /\ k = Chapter(Keep - k + 1)
  BY <1>1 DEF Generations, Chapter
<1> QED
  BY <1>1, <1>2 DEF Generations, Chapter

(* The chapters are sequences of record numbers, one per generation.       *)
LEMMA ChaptersType == TypeOK => ChaptersOK
<1> SUFFICES ASSUME TypeOK PROVE ChaptersOK
  OBVIOUS
<1>1. Keep \in Nat \ {0}
  BY SinkAssumption
<1>2. \A k \in 1..(Keep + 1) : Keep - k + 1 \in Generations /\ k = Chapter(Keep - k + 1)
  BY <1>1 DEF Generations, Chapter
<1>3. \A g \in Generations : Chapter(g) \in 1..(Keep + 1) /\ Keep - Chapter(g) + 1 = g
  BY <1>1 DEF Generations, Chapter
<1>4. ASSUME NEW k \in 1..(Keep + 1) PROVE Numbers(k) \in Seq(Nat)
  <2> DEFINE lines == LinesOf(Keep - k + 1)
  <2>1. lines \in Seq(Line)
    BY <1>2, LinesType
  <2>2. Numbers(k) = [i \in DOMAIN lines |-> lines[i].record]
    BY DEF Numbers
  <2> HIDE DEF lines
  <2>3. ASSUME NEW i \in DOMAIN lines PROVE lines[i].record \in Nat
    <3>1. lines[i] \in Line
      BY <2>1
    <3> QED
      BY <3>1 DEF Line
  <2>4. DOMAIN lines = 1..Len(lines) /\ Len(lines) \in Nat
    BY <2>1
  <2> QED
    BY <2>2, <2>3, <2>4
<1>5. ASSUME NEW g \in Generations
      PROVE  Chapters[Chapter(g)] = [i \in DOMAIN LinesOf(g) |-> LinesOf(g)[i].record]
  <2>1. Chapters[Chapter(g)] = Numbers(Chapter(g))
    BY <1>3 DEF Chapters
  <2> QED
    BY <1>3, <2>1 DEF Numbers
<1>6. Chapters \in [1..(Keep + 1) -> Seq(Nat)]
  BY <1>4 DEF Chapters
<1> QED
  BY <1>5, <1>6 DEF ChaptersOK

(* Chapters with the same lines are the same.                              *)
LEMMA SameChapter ==
  ASSUME ChaptersOK, ChaptersOK', NEW g \in Generations, NEW h \in Generations,
         LinesOf(h)' = LinesOf(g)
  PROVE  Chapters'[Chapter(h)] = Chapters[Chapter(g)]
<1>1. Chapters[Chapter(g)] = [i \in DOMAIN LinesOf(g) |-> LinesOf(g)[i].record]
  BY DEF ChaptersOK
<1>2. Chapters'[Chapter(h)] = [i \in DOMAIN LinesOf(h)' |-> LinesOf(h)'[i].record]
  BY DEF ChaptersOK, Chapter
<1> QED
  BY <1>1, <1>2

(* Generations without lines are empty chapters.                           *)
LEMMA EmptyChapter ==
  ASSUME ChaptersOK, NEW g \in Generations, LinesOf(g) = <<>>
  PROVE  Chapters[Chapter(g)] = <<>>
<1>1. Chapters[Chapter(g)] = [i \in DOMAIN LinesOf(g) |-> LinesOf(g)[i].record]
  BY DEF ChaptersOK
<1>2. Chapters[Chapter(g)] \in Seq(Nat)
  BY ChapterNumbers DEF ChaptersOK
<1>3. DOMAIN Chapters[Chapter(g)] = {}
  BY <1>1
<1> QED
  BY <1>2, <1>3, NoEntries

(* Nothing that leaves every generation its lines changes the log.         *)
LEMMA SameLog ==
  ASSUME ChaptersOK, ChaptersOK', \A g \in Generations : LinesOf(g)' = LinesOf(g)
  PROVE  ReaderLog' = ReaderLog
<1>1. ASSUME NEW k \in 1..(Keep + 1) PROVE Chapters'[k] = Chapters[k]
  <2>1. PICK g \in Generations : k = Chapter(g)
    BY ChapterNumbers
  <2> QED
    BY <2>1, SameChapter
<1>2. Chapters' = Chapters
  <2>1. /\ Chapters \in [1..(Keep + 1) -> Seq(Nat)]
        /\ Chapters' \in [1..(Keep + 1) -> Seq(Nat)]
    BY DEF ChaptersOK
  <2>2. /\ Chapters = [k \in 1..(Keep + 1) |-> Chapters[k]]
        /\ Chapters' = [k \in 1..(Keep + 1) |-> Chapters'[k]]
    BY <2>1
  <2>3. [k \in 1..(Keep + 1) |-> Chapters'[k]] = [k \in 1..(Keep + 1) |-> Chapters[k]]
    BY <1>1, Zenon
  <2> QED
    BY <2>2, <2>3
<1> QED
  BY <1>2 DEF ReaderLog

(* The log is a sequence of numbers; while a record is pending all of them *)
(* are older.                                                              *)
LEMMA OlderEntries ==
  ASSUME IInv, ChaptersOK
  PROVE  /\ ReaderLog \in Seq(Nat)
         /\ Pending => \A i \in DOMAIN ReaderLog : ReaderLog[i] < record
<1>1. Chapters \in [1..(Keep + 1) -> Seq(Nat)] /\ Keep + 1 \in Nat \ {0}
  BY ChapterNumbers DEF ChaptersOK
<1>2. /\ ReaderLog \in Seq(Nat)
      /\ \A i \in DOMAIN ReaderLog :
           \E k \in 1..(Keep + 1) : \E j \in DOMAIN Chapters[k] : ReaderLog[i] = Chapters[k][j]
  <2> DEFINE s == Chapters
             n == Keep + 1
  <2>1. n \in Nat \ {0} /\ s \in [1..n -> Seq(Nat)]
    BY <1>1
  <2> HIDE DEF s, n
  <2>2. /\ FlattenSeq(s) \in Seq(Nat)
        /\ \A i \in DOMAIN FlattenSeq(s) :
             \E k \in 1..n : \E j \in DOMAIN s[k] : FlattenSeq(s)[i] = s[k][j]
    BY <2>1, FlatEntries
  <2> QED
    BY <2>2 DEF ReaderLog, s, n
<1>3. ASSUME Pending, NEW i \in DOMAIN ReaderLog PROVE ReaderLog[i] < record
  <2>1. PICK k \in 1..(Keep + 1) : \E j \in DOMAIN Chapters[k] : ReaderLog[i] = Chapters[k][j]
    BY <1>2
  <2>2. PICK j \in DOMAIN Chapters[k] : ReaderLog[i] = Chapters[k][j]
    BY <2>1
  <2>3. PICK g \in Generations : k = Chapter(g)
    BY ChapterNumbers
  <2>4. Chapters[k] = [m \in DOMAIN LinesOf(g) |-> LinesOf(g)[m].record]
    BY <2>3 DEF ChaptersOK
  <2>5. j \in DOMAIN LinesOf(g) /\ ReaderLog[i] = LinesOf(g)[j].record
    BY <2>2, <2>4
  <2> QED
    BY <1>3, <2>5 DEF IInv, NumbersUsed
<1> QED
  BY <1>2, <1>3

(* A write adds the record's number at the young end, unless the handle is *)
(* on a file that has lost its name.                                       *)
LEMMA LineLogged ==
  ASSUME IInv, ChaptersOK, ChaptersOK', pc = "write", UNCHANGED <<dir, record>>,
         NEW whole \in BOOLEAN, NEW bytes \in Nat, files' = Written(whole, bytes)
  PROVE  \/ ReaderLog' = ReaderLog
         \/ ReaderLog' = Append(ReaderLog, record)
<1>0. /\ TypeOK /\ record \in Nat /\ handle # 0
      /\ files'[handle].lines =
           Append(files[handle].lines, [record |-> record, whole |-> whole])
      /\ \A f \in 1..Len(files) : f # handle => files'[f] = files[f]
  BY WrittenType DEF IInv, TypeOK
<1>1. ASSUME NEW g \in Generations, dir[g] # handle
      PROVE  LinesOf(g)' = LinesOf(g)
  <2>1. dir[g] \in 0..Len(files)
    BY <1>0 DEF TypeOK
  <2>2. dir[g] # 0 => dir[g] \in 1..Len(files)
    BY <1>0, <2>1 DEF TypeOK
  <2> QED
    BY <1>0, <1>1, <2>2 DEF LinesOf, Exists
<1>2. CASE \A g \in Generations : dir[g] # handle
  BY <1>1, <1>2, SameLog
<1>3. ASSUME NEW g \in Generations, dir[g] = handle
      PROVE  ReaderLog' = Append(ReaderLog, record)
  <2> DEFINE s == Chapters
             t == Chapters'
             k == Chapter(g)
             n == Keep + 1
  <2>1. /\ n \in Nat \ {0} /\ k \in 1..n
        /\ s \in [1..n -> Seq(Nat)] /\ t \in [1..n -> Seq(Nat)]
    BY ChapterNumbers DEF ChaptersOK
  <2>2. t[k] = Append(s[k], record)
    <3> DEFINE old == LinesOf(g)
               line == [record |-> record, whole |-> whole]
    <3>1. LinesOf(g)' = Append(old, line) /\ line.record = record
      BY <1>0, <1>3 DEF LinesOf, Exists
    <3>2. s[k] = [i \in DOMAIN old |-> old[i].record]
      BY DEF ChaptersOK
    <3>3. t[k] = [i \in DOMAIN LinesOf(g)' |-> LinesOf(g)'[i].record]
      BY DEF ChaptersOK, Chapter
    <3>4. t[k] = [i \in DOMAIN Append(old, line) |-> Append(old, line)[i].record]
      BY <3>1, <3>3
    <3>5. old \in Seq(Line)
      BY <1>0, LinesType
    <3> HIDE DEF old, line, s, t, k
    <3>6. /\ DOMAIN old = 1..Len(old) /\ Len(old) \in Nat
          /\ DOMAIN Append(old, line) = 1..(Len(old) + 1)
          /\ \A i \in 1..Len(old) : Append(old, line)[i] = old[i]
          /\ Append(old, line)[Len(old) + 1] = line
      BY <3>5
    <3>7. s[k] \in Seq(Nat) /\ t[k] \in Seq(Nat)
      BY <2>1
    <3>8. /\ Len(s[k]) = Len(old) /\ Len(t[k]) = Len(old) + 1
          /\ \A i \in 1..Len(old) : t[k][i] = s[k][i]
          /\ t[k][Len(old) + 1] = record
      BY <3>1, <3>2, <3>4, <3>6, <3>7
    <3> QED
      BY <1>0, <3>6, <3>7, <3>8
  <2>3. ASSUME NEW i \in 1..n, i # k PROVE t[i] = s[i]
    <3>1. PICK h \in Generations : i = Chapter(h)
      BY ChapterNumbers
    <3>2. dir[h] # handle
      BY <1>0, <1>3, <2>3, <3>1 DEF IInv, OneName, Exists
    <3> QED
      BY <1>1, <3>1, <3>2, SameChapter
  <2>4. ASSUME NEW i \in 1..n, k < i PROVE s[i] = <<>>
    <3>1. PICK h \in Generations : i = Chapter(h)
      BY ChapterNumbers
    <3>2. h < g
      BY <2>4, <3>1, ChapterNumbers
    <3>3. ~Exists(h)
      BY <1>3, <3>2 DEF IInv, YoungestOpen
    <3>4. LinesOf(h) = <<>>
      BY <3>3 DEF LinesOf
    <3> QED
      BY <3>1, <3>4, EmptyChapter
  <2> HIDE DEF s, t, k, n
  <2>5. FlattenSeq(t) = Append(FlattenSeq(s), record)
    BY <1>0, <2>1, <2>2, <2>3, <2>4, FlatAppend
  <2> QED
    BY <2>5 DEF ReaderLog, s, t
<1> QED
  BY <1>2, <1>3

(* Moving a file to the free name above leaves the log as it was.          *)
LEMMA NameMoved ==
  ASSUME TypeOK, ChaptersOK, ChaptersOK', UNCHANGED files,
         NEW g \in Generations, g + 1 \in Generations, ~Exists(g + 1),
         dir' = Renamed(g, g + 1)
  PROVE  ReaderLog' = ReaderLog
<1> DEFINE s == Chapters
           t == Chapters'
           k == Chapter(g + 1)
           n == Keep + 1
<1>1. /\ n \in Nat \ {0} /\ k \in 1..(n - 1) /\ k + 1 = Chapter(g)
      /\ s \in [1..n -> Seq(Nat)] /\ t \in [1..n -> Seq(Nat)]
  <2>1. k \in 1..n /\ Chapter(g) \in 1..n /\ n \in Nat \ {0}
    BY ChapterNumbers
  <2>2. k + 1 = Chapter(g)
    BY SinkAssumption DEF Chapter, Generations
  <2> QED
    BY <2>1, <2>2 DEF ChaptersOK
<1>2. /\ dir'[g] = 0 /\ dir'[g + 1] = dir[g] /\ dir[g + 1] = 0
      /\ \A h \in Generations : h # g /\ h # g + 1 => dir'[h] = dir[h]
  <2>1. g \in Nat
    BY DEF Generations
  <2> QED
    BY <2>1 DEF TypeOK, Renamed, Exists
<1>3. /\ LinesOf(g + 1) = <<>> /\ LinesOf(g)' = <<>> /\ LinesOf(g + 1)' = LinesOf(g)
      /\ \A h \in Generations : h # g /\ h # g + 1 => LinesOf(h)' = LinesOf(h)
  BY <1>2 DEF LinesOf, Exists
<1>4. s[k] = <<>>
  BY <1>3, EmptyChapter
<1>5. t[k] = s[Chapter(g)]
  BY <1>3, SameChapter
<1>6. t[Chapter(g)] = <<>>
  <2>1. t[Chapter(g)] = [i \in DOMAIN LinesOf(g)' |-> LinesOf(g)'[i].record]
    BY DEF ChaptersOK, Chapter
  <2>2. DOMAIN t[Chapter(g)] = {}
    BY <1>3, <2>1
  <2>3. t[Chapter(g)] \in Seq(Nat)
    BY <1>1, ChapterNumbers
  <2> QED
    BY <2>2, <2>3, NoEntries
<1>7. ASSUME NEW i \in 1..n, i # k, i # k + 1 PROVE t[i] = s[i]
  <2>1. PICK h \in Generations : i = Chapter(h)
    BY ChapterNumbers
  <2>2. h # g /\ h # g + 1
    BY <1>1, <1>7, <2>1
  <2> QED
    BY <1>3, <2>1, <2>2, SameChapter
<1>8. t[k] = s[k + 1] /\ t[k + 1] = <<>>
  BY <1>1, <1>5, <1>6
<1> HIDE DEF s, t, k, n
<1>9. FlattenSeq(t) = FlattenSeq(s)
  <2>1. n \in Nat \ {0} /\ s \in [1..n -> Seq(Nat)] /\ t \in [1..n -> Seq(Nat)]
    BY <1>1
  <2>2. MovedDown(s, t, k, n)
    BY <1>1, <1>4, <1>7, <1>8 DEF MovedDown
  <2> QED
    BY <2>1, <2>2, FlatMove
<1> QED
  BY <1>9 DEF ReaderLog, s, t

(* Removing the oldest generation takes the records of its file, if any,   *)
(* from the old end of the log.                                            *)
LEMMA OldestForgotten ==
  ASSUME TypeOK, ChaptersOK, ChaptersOK', UNCHANGED files,
         dir' = [dir EXCEPT ![Keep] = 0]
  PROVE  \/ ReaderLog' = ReaderLog
         \/ \E k \in 1..Len(ReaderLog) : ReaderLog' = SubSeq(ReaderLog, k + 1, Len(ReaderLog))
<1> DEFINE s == Chapters
           t == Chapters'
           n == Keep + 1
<1>1. /\ n \in Nat \ {0} /\ 1 = Chapter(Keep) /\ Keep \in Generations
      /\ s \in [1..n -> Seq(Nat)] /\ t \in [1..n -> Seq(Nat)]
  BY ChapterNumbers, SinkAssumption DEF ChaptersOK, Chapter, Generations
<1>2. dir'[Keep] = 0 /\ \A h \in Generations : h # Keep => dir'[h] = dir[h]
  BY <1>1 DEF TypeOK
<1>3. LinesOf(Keep)' = <<>> /\ \A h \in Generations : h # Keep => LinesOf(h)' = LinesOf(h)
  BY <1>2 DEF LinesOf, Exists
<1>4. t[1] = <<>>
  <2>1. t[1] = [i \in DOMAIN LinesOf(Keep)' |-> LinesOf(Keep)'[i].record]
    BY <1>1 DEF ChaptersOK, Chapter
  <2>2. DOMAIN t[1] = {}
    BY <1>3, <2>1
  <2>3. t[1] \in Seq(Nat)
    BY <1>1
  <2> QED
    BY <2>2, <2>3, NoEntries
<1>5. ASSUME NEW i \in 1..n, i # 1 PROVE t[i] = s[i]
  <2>1. PICK h \in Generations : i = Chapter(h)
    BY ChapterNumbers
  <2> QED
    BY <1>1, <1>3, <1>5, <2>1, SameChapter
<1>6. s[1] \in Seq(Nat)
  BY <1>1
<1> HIDE DEF s, t, n
<1>7. FlattenSeq(s) = s[1] \o FlattenSeq(t)
  BY <1>1, <1>4, <1>5, FlatDrop
<1>8. FlattenSeq(t) \in Seq(Nat)
  BY <1>1, FlatEntries
<1> DEFINE a == s[1]
           b == FlattenSeq(t)
           log == FlattenSeq(s)
<1>9. a \in Seq(Nat) /\ b \in Seq(Nat) /\ log = a \o b
  BY <1>6, <1>7, <1>8
<1> HIDE DEF a, b, log
<1>10. b = log \/ \E k \in 1..Len(log) : b = SubSeq(log, k + 1, Len(log))
  <2>1. CASE a = <<>>
    BY <1>9, <2>1, ConcatLaws
  <2>2. CASE a # <<>>
    <3>1. Len(a) \in 1..Len(log)
      BY <1>9, <2>2
    <3>2. b = SubSeq(log, Len(a) + 1, Len(log))
      BY <1>9, RestOfConcat
    <3> QED
      BY <3>1, <3>2
  <2> QED
    BY <2>1, <2>2
<1> QED
  BY <1>10 DEF ReaderLog, s, t, b, log

(* A created file under the live name that was free adds nothing.          *)
LEMMA FileAdded ==
  ASSUME TypeOK, ChaptersOK, ChaptersOK', Create, ~Exists(0),
         dir' = [dir EXCEPT ![0] = Len(files) + 1]
  PROVE  ReaderLog' = ReaderLog
<1>1. /\ files'[Len(files) + 1] = EmptyFile /\ Len(files) \in Nat
      /\ \A f \in 1..Len(files) : files'[f] = files[f]
  BY DEF TypeOK, Create
<1>2. dir'[0] = Len(files) + 1 /\ \A g \in Generations : g # 0 => dir'[g] = dir[g]
  BY SinkAssumption DEF TypeOK, Generations
<1>3. LinesOf(0) = <<>> /\ LinesOf(0)' = <<>>
  BY <1>1, <1>2 DEF LinesOf, Exists, EmptyFile
<1>4. ASSUME NEW g \in Generations, g # 0 PROVE LinesOf(g)' = LinesOf(g)
  <2>1. dir[g] # 0 => dir[g] \in 1..Len(files)
    BY DEF TypeOK
  <2> QED
    BY <1>1, <1>2, <1>4, <2>1 DEF LinesOf, Exists
<1> QED
  BY <1>3, <1>4, SameLog

(* What a step of the sink is to a reader: nothing, one more record at the *)
(* young end, or the loss of the oldest ones.                              *)
LogChange == ReaderLog' = ReaderLog \/ Log!Add \/ Log!Forget

(* Writing a line, whole or torn, adds the record's number or nothing.     *)
LEMMA LineAdds ==
  ASSUME IInv, ChaptersOK, ChaptersOK', pc = "write", UNCHANGED <<dir, record>>,
         NEW whole \in BOOLEAN, NEW bytes \in Nat, files' = Written(whole, bytes)
  PROVE  LogChange
<1> DEFINE a == ReaderLog
           b == ReaderLog'
<1>1. a \in Seq(Nat) /\ \A i \in DOMAIN a : a[i] < record
  BY OlderEntries DEF Pending
<1>2. b = a \/ b = Append(a, record)
  BY LineLogged
<1>3. record \in Nat
  BY DEF IInv, TypeOK
<1> HIDE DEF a, b
<1>4. b = a \/ (b # <<>> /\ b[Len(b)] = record /\ b = Append(a, b[Len(b)]))
  BY <1>1, <1>2, <1>3
<1>5. CASE ReaderLog' = ReaderLog
  BY <1>5 DEF LogChange
<1>6. CASE b # <<>> /\ b[Len(b)] = record /\ b = Append(a, b[Len(b)])
  <2>1. \A i \in DOMAIN a : a[i] < b[Len(b)]
    BY <1>1, <1>6
  <2>2. Log!Add
    BY <1>6, <2>1 DEF Log!Add, Log!Younger, a, b
  <2> QED
    BY <2>2 DEF LogChange
<1> QED
  BY <1>4, <1>5, <1>6 DEF a, b

(* Every step of the sink is a step of the log or leaves it alone.         *)
LEMMA LogStep ==
  IInv /\ GapFree /\ ChaptersOK /\ ChaptersOK' /\ [Next]_vars => LogChange
<1> SUFFICES ASSUME IInv, GapFree, ChaptersOK, ChaptersOK', [Next]_vars
             PROVE  LogChange
  OBVIOUS
<1>0. TypeOK /\ Keep \in Nat \ {0}
  BY SinkAssumption DEF IInv
<1>1. ASSUME UNCHANGED disk PROVE LogChange
  <2>1. \A g \in Generations : LinesOf(g)' = LinesOf(g)
    BY <1>1 DEF disk, LinesOf, Exists
  <2> QED
    BY <2>1, SameLog DEF LogChange
<1>2. CASE Write
  <2>1. TRUE \in BOOLEAN /\ size \in Nat
    BY <1>0 DEF TypeOK
  <2>2. pc = "write" /\ UNCHANGED <<dir, record>> /\ files' = Written(TRUE, size)
    BY <1>2 DEF Write
  <2> QED
    BY <2>1, <2>2, LineAdds
<1>3. CASE WriteTorn
  <2>1. PICK bytes \in 1..(size - 1) : files' = Written(FALSE, bytes)
    BY <1>3 DEF WriteTorn
  <2>2. FALSE \in BOOLEAN /\ bytes \in Nat
    BY <1>0 DEF TypeOK
  <2>3. pc = "write" /\ UNCHANGED <<dir, record>>
    BY <1>3 DEF WriteTorn
  <2> QED
    BY <2>1, <2>2, <2>3, LineAdds
<1>4. CASE RemoveOldest
  <2>1. \/ ReaderLog' = ReaderLog
        \/ \E k \in 1..Len(ReaderLog) : ReaderLog' = SubSeq(ReaderLog, k + 1, Len(ReaderLog))
    BY <1>0, <1>4, OldestForgotten DEF RemoveOldest
  <2> QED
    BY <2>1 DEF LogChange, Log!Forget
<1>5. CASE Shift
  <2>1. CASE Exists(level)
    <3>1. /\ level \in Generations /\ level + 1 \in Generations
          /\ ~Exists(level + 1)
      BY <1>0, <1>5, <2>1 DEF Shift, TypeOK, Generations, GapFree, Gap
    <3>2. dir' = Renamed(level, level + 1) /\ UNCHANGED files
      BY <1>5, <2>1 DEF Shift
    <3> QED
      BY <1>0, <3>1, <3>2, NameMoved DEF LogChange
  <2>2. CASE ~Exists(level)
    BY <1>1, <1>5, <2>2 DEF Shift, disk
  <2> QED
    BY <2>1, <2>2
<1>6. CASE Rename
  <2>1. /\ 0 \in Generations /\ 0 + 1 \in Generations /\ 0 + 1 = 1
        /\ ~Exists(0 + 1)
    BY <1>0, <1>6 DEF Rename, Generations, GapFree, Gap
  <2>2. dir' = Renamed(0, 0 + 1) /\ UNCHANGED files
    BY <1>6, <2>1 DEF Rename
  <2> QED
    BY <1>0, <2>1, <2>2, NameMoved DEF LogChange
<1>7. CASE Open
  <2>1. ~Exists(0) /\ Create /\ dir' = [dir EXCEPT ![0] = Len(files) + 1]
    BY <1>7 DEF Open, IInv, OpenFree
  <2> QED
    BY <1>0, <2>1, FileAdded DEF LogChange
<1>8. CASE Restart
  <2>1. CASE ~Exists(0) /\ Create /\ dir' = [dir EXCEPT ![0] = Len(files) + 1]
    BY <1>0, <2>1, FileAdded DEF LogChange
  <2>2. CASE UNCHANGED disk
    BY <1>1, <2>2
  <2> QED
    BY <1>8, <2>1, <2>2 DEF Restart
<1>9. CASE Begin \/ Sync \/ RenameNotFound \/ Crash
  BY <1>1, <1>9 DEF Begin, Sync, RenameNotFound, Crash
<1>10. CASE \E syscall \in SystemCalls : Fail(syscall)
  BY <1>1, <1>10 DEF Fail
<1>11. CASE UNCHANGED vars
  BY <1>1, <1>11 DEF vars
<1> QED
  BY <1>2, <1>3, <1>4, <1>5, <1>6, <1>7, <1>8, <1>9, <1>10, <1>11
  DEF Next, Append1, Rotate

(* The first start's file is an empty log.                                 *)
LEMMA LogInit == Init => ReaderLog = <<>>
<1> SUFFICES ASSUME Init PROVE ReaderLog = <<>>
  OBVIOUS
<1>1. \A g \in Generations : LinesOf(g) = <<>>
  BY DEF Init, LinesOf, Exists, EmptyFile
<1>2. ChaptersOK
  BY InitType, ChaptersType
<1> DEFINE s == Chapters
           n == Keep + 1
<1>3. n \in Nat \ {0} /\ s \in [1..n -> Seq(Nat)]
  BY <1>2, ChapterNumbers DEF ChaptersOK
<1>4. \A k \in 1..n : s[k] = <<>>
  <2>1. TAKE k \in 1..n
  <2>2. PICK g \in Generations : k = Chapter(g)
    BY ChapterNumbers
  <2> QED
    BY <1>1, <1>2, <2>2, EmptyChapter
<1> HIDE DEF s, n
<1>5. FlattenSeq(s) = <<>>
  BY <1>3, <1>4, FlatEmpty
<1> QED
  BY <1>5 DEF ReaderLog, s

(* The rotated files implement one log: whatever system calls fail and     *)
(* wherever the process dies, a reader who goes from the oldest generation *)
(* to the live file only ever sees numbers added at the young end and      *)
(* removed at the old end (audit.rs, append and rotate; RetainedLog).      *)
THEOREM LogImplemented == Spec => ImplementsLog
<1>1. Init => IInv /\ RotationInv /\ ReaderLog = <<>>
  BY SinkInit, RotationInit, LogInit
<1>2. IInv /\ [Next]_vars => IInv'
  BY SinkStep
<1>3. RotationInv /\ [Next]_vars => RotationInv'
  BY RotationStep
<1>4. TypeOK => ChaptersOK
  BY ChaptersType
<1>5. IInv /\ RotationInv => TypeOK /\ GapFree
  BY DEF IInv, RotationInv
<1>6. IInv /\ GapFree /\ ChaptersOK /\ ChaptersOK' /\ [Next]_vars
        => [Log!Add \/ Log!Forget]_ReaderLog
  BY LogStep DEF LogChange
<1> QED
  BY <1>1, <1>2, <1>3, <1>4, <1>5, <1>6, PTL DEF Spec, ImplementsLog, Log!Spec
=============================================================================
