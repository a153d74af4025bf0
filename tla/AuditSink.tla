------------------------------ MODULE AuditSink ------------------------------
(***************************************************************************)
(* The append-only file behind the audit stream and its size-based         *)
(* rotation (src/src/audit.rs, Sink), one action per system call.          *)
(*                                                                         *)
(* The Auditor's lock makes one append run at a time, but every system     *)
(* call in it may fail, which ends the append early and leaves the files   *)
(* as they are, and the process may die between two of them.  Names and    *)
(* files are kept apart because the sink's handle follows the file, not    *)
(* the name: dir maps the generations 0 (the live path) .. Keep to files.  *)
(* A record is its number; its bytes are a length.                         *)
(***************************************************************************)
EXTENDS Integers, Sequences, FiniteSets

CONSTANTS
  Keep,        \* rotate_keep
  MaxBytes,    \* rotate_max_bytes, 0 for no rotation
  Fsync,       \* fsync
  Sizes,       \* lengths of a record's line, newline included
  Faults,      \* the system calls that may fail
  MaxRecords,  \* bound: appends
  MaxFaults,   \* bound: failures of each system call
  MaxCrashes   \* bound: times the process dies

SystemCalls == {"remove", "shift", "rename", "open", "write", "sync"}

(* parse() clamps rotate_keep to at least 1.                               *)
ASSUME SinkAssumption ==
  /\ Keep \in Nat \ {0}
  /\ MaxBytes \in Nat
  /\ Fsync \in BOOLEAN
  /\ Sizes \subseteq Nat \ {0}
  /\ Faults \subseteq SystemCalls
  /\ MaxRecords \in Nat
  /\ MaxFaults \in Nat
  /\ MaxCrashes \in Nat

VARIABLES
  files,     \* every file ever created: its lines and its length in bytes
  dir,       \* generation -> file, 0 where no file has that name
  handle,    \* Sink.file
  len,       \* Sink.len
  pc,        \* the system call the append in progress makes next
  level,     \* the generation rotate() renames next
  record,    \* number of the record being appended, or appended last
  size,      \* its length
  accepted,  \* history: records whose append returned Ok
  faults,    \* history: how often each system call has failed
  crashes    \* times the process has died

disk == <<files, dir>>
sink == <<handle, len>>
call == <<pc, level, record, size>>
vars == <<disk, sink, call, accepted, faults, crashes>>

Generations == 0..Keep
Line == [record : Nat, whole : BOOLEAN]
File == [lines : Seq(Line), bytes : Nat]
EmptyFile == [lines |-> <<>>, bytes |-> 0]

Exists(g) == dir[g] # 0
-----------------------------------------------------------------------------
MayFail(syscall) ==
  /\ syscall \in Faults
  /\ faults[syscall] < MaxFaults
  /\ faults' = [faults EXCEPT ![syscall] = @ + 1]

(* The `?` after a system call: append returns the error, nothing else.    *)
Fail(syscall) ==
  /\ pc = syscall
  /\ MayFail(syscall)
  /\ pc' = "idle"
  /\ UNCHANGED <<disk, sink, level, record, size, accepted, crashes>>

MustRotate(bytes) == MaxBytes > 0 /\ len > 0 /\ len + bytes > MaxBytes

(* append() up to the decision to rotate.                                  *)
Begin ==
  /\ pc = "idle"
  /\ record < MaxRecords
  /\ record' = record + 1
  /\ \E bytes \in Sizes :
       /\ size' = bytes
       /\ pc' = IF MustRotate(bytes) THEN "remove" ELSE "write"
  /\ UNCHANGED <<disk, sink, level, accepted, faults, crashes>>

(* remove_file of the oldest generation; that it does not exist is fine.   *)
RemoveOldest ==
  /\ pc = "remove"
  /\ dir' = [dir EXCEPT ![Keep] = 0]
  /\ level' = Keep - 1
  /\ pc' = IF Keep > 1 THEN "shift" ELSE "rename"
  /\ UNCHANGED <<files, sink, record, size, accepted, faults, crashes>>

(* Mutant: the file is linked to its new name and keeps the old one.       *)
RenamedByLink(from, to) == [dir EXCEPT ![to] = dir[from]]

(* Renaming a file replaces one that has the new name already.             *)
Renamed(from, to) == [dir EXCEPT ![to] = dir[from], ![from] = 0]

(* Mutant: the loop runs upwards.                                          *)
ShiftUpwards ==
  /\ pc = "shift"
  /\ LET g == Keep - level IN
       dir' = IF Exists(g) THEN Renamed(g, g + 1) ELSE dir
  /\ level' = level - 1
  /\ pc' = IF level > 1 THEN "shift" ELSE "rename"
  /\ UNCHANGED <<files, sink, record, size, accepted, faults, crashes>>

(* Mutant: the loop runs over (0..keep).                                   *)
ShiftToZero ==
  /\ pc = "shift"
  /\ dir' = IF Exists(level) THEN Renamed(level, level + 1) ELSE dir
  /\ level' = level - 1
  /\ pc' = IF level > 0 THEN "shift" ELSE "rename"
  /\ UNCHANGED <<files, sink, record, size, accepted, faults, crashes>>

(* One turn of the loop over (1..keep).rev(); a gap in the numbered files  *)
(* is fine.                                                                *)
Shift ==
  /\ pc = "shift"
  /\ dir' = IF Exists(level) THEN Renamed(level, level + 1) ELSE dir
  /\ level' = level - 1
  /\ pc' = IF level > 1 THEN "shift" ELSE "rename"
  /\ UNCHANGED <<files, sink, record, size, accepted, faults, crashes>>

(* The live file becomes generation 1.                                     *)
Rename ==
  /\ pc = "rename"
  /\ Exists(0)
  /\ dir' = Renamed(0, 1)
  /\ pc' = "open"
  /\ UNCHANGED <<files, sink, level, record, size, accepted, faults, crashes>>

(* Here a missing live file IS an error: no ignore_not_found.              *)
RenameNotFound ==
  /\ pc = "rename"
  /\ ~Exists(0)
  /\ pc' = "idle"
  /\ UNCHANGED <<disk, sink, level, record, size, accepted, faults, crashes>>

Create == files' = Append(files, EmptyFile)

(* Mutant: the sink goes on with its old handle.                           *)
OpenKeepingHandle ==
  /\ pc = "open"
  /\ Create
  /\ dir' = [dir EXCEPT ![0] = Len(files) + 1]
  /\ len' = 0
  /\ pc' = "write"
  /\ UNCHANGED <<handle, level, record, size, accepted, faults, crashes>>

(* open_append of the path the rename has freed.                           *)
Open ==
  /\ pc = "open"
  /\ Create
  /\ dir' = [dir EXCEPT ![0] = Len(files) + 1]
  /\ handle' = Len(files) + 1
  /\ len' = 0
  /\ pc' = "write"
  /\ UNCHANGED <<level, record, size, accepted, faults, crashes>>

(* What the file behind the handle holds after `bytes` more were written.  *)
Written(whole, bytes) ==
  [files EXCEPT ![handle] =
     [lines |-> Append(@.lines, [record |-> record, whole |-> whole]),
      bytes |-> @.bytes + bytes]]

Accept == accepted' = accepted \cup {record}

(* write_all wrote the whole line; without fsync the append is done.       *)
Write ==
  /\ pc = "write"
  /\ files' = Written(TRUE, size)
  /\ \/ /\ Fsync
        /\ pc' = "sync"
        /\ UNCHANGED <<len, accepted>>
     \/ /\ ~Fsync
        /\ pc' = "idle"
        /\ len' = len + size
        /\ Accept
  /\ UNCHANGED <<dir, handle, level, record, size, faults, crashes>>

(* write_all failed after some of the line had reached the file.           *)
WriteTorn ==
  /\ pc = "write"
  /\ MayFail("write")
  /\ \E bytes \in 1..(size - 1) : files' = Written(FALSE, bytes)
  /\ pc' = "idle"
  /\ UNCHANGED <<dir, sink, level, record, size, accepted, crashes>>

Sync ==
  /\ pc = "sync"
  /\ pc' = "idle"
  /\ len' = len + size
  /\ Accept
  /\ UNCHANGED <<disk, handle, level, record, size, faults, crashes>>

(* The process dies; what it has written stays with the operating system.  *)
Crash ==
  /\ pc # "down"
  /\ crashes < MaxCrashes
  /\ crashes' = crashes + 1
  /\ pc' = "down"
  /\ UNCHANGED <<disk, sink, level, record, size, accepted, faults>>

(* Mutant: a restarted process takes the file for empty.                   *)
RestartForgettingLength ==
  /\ pc = "down"
  /\ \/ /\ Exists(0)
        /\ handle' = dir[0]
        /\ UNCHANGED disk
     \/ /\ ~Exists(0)
        /\ Create
        /\ dir' = [dir EXCEPT ![0] = Len(files) + 1]
        /\ handle' = Len(files) + 1
  /\ len' = 0
  /\ pc' = "idle"
  /\ UNCHANGED <<level, record, size, accepted, faults, crashes>>

(* Mutant: a restarted process truncates the live file.                    *)
RestartTruncating ==
  /\ pc = "down"
  /\ \/ /\ Exists(0)
        /\ handle' = dir[0]
        /\ files' = [files EXCEPT ![dir[0]] = EmptyFile]
        /\ UNCHANGED dir
     \/ /\ ~Exists(0)
        /\ Create
        /\ dir' = [dir EXCEPT ![0] = Len(files) + 1]
        /\ handle' = Len(files) + 1
  /\ len' = 0
  /\ pc' = "idle"
  /\ UNCHANGED <<level, record, size, accepted, faults, crashes>>

(* Sink::open in the next process: the live file is opened, or created,    *)
(* and its length read back.                                               *)
Restart ==
  /\ pc = "down"
  /\ \/ /\ Exists(0)
        /\ handle' = dir[0]
        /\ len' = files[dir[0]].bytes
        /\ UNCHANGED disk
     \/ /\ ~Exists(0)
        /\ Create
        /\ dir' = [dir EXCEPT ![0] = Len(files) + 1]
        /\ handle' = Len(files) + 1
        /\ len' = 0
  /\ pc' = "idle"
  /\ UNCHANGED <<level, record, size, accepted, faults, crashes>>
-----------------------------------------------------------------------------
(* A first start that found no file.                                       *)
Init ==
  /\ files = <<EmptyFile>>
  /\ dir = [g \in Generations |-> IF g = 0 THEN 1 ELSE 0]
  /\ handle = 1
  /\ len = 0
  /\ pc = "idle"
  /\ level = 0
  /\ record = 0
  /\ size = 0
  /\ accepted = {}
  /\ faults = [syscall \in SystemCalls |-> 0]
  /\ crashes = 0

Append1 == Begin \/ Write \/ WriteTorn \/ Sync
Rotate == RemoveOldest \/ Shift \/ Rename \/ RenameNotFound \/ Open

Next ==
  \/ Append1
  \/ Rotate
  \/ \E syscall \in SystemCalls : Fail(syscall)
  \/ Crash
  \/ Restart

Spec == Init /\ [][Next]_vars
-----------------------------------------------------------------------------
(* Properties.                                                             *)

(* Every variable stays in its type; a name and the handle refer to files  *)
(* that were created (audit.rs, Sink).                                     *)
TypeOK ==
  /\ files \in Seq(File)
  /\ dir \in [Generations -> 0..Len(files)]
  /\ handle \in 1..Len(files)
  /\ len \in Nat
  /\ pc \in SystemCalls \cup {"idle", "down"}
  /\ level \in 0..(Keep - 1)
  /\ pc = "shift" => level > 0
  /\ record \in Nat
  /\ size \in Nat
  /\ accepted \subseteq Nat
  /\ faults \in [SystemCalls -> Nat]
  /\ crashes \in Nat

LinesOf(g) == IF Exists(g) THEN files[dir[g]].lines ELSE <<>>

(* Reading path.Keep, ..., path.1, path in this order yields the records   *)
(* in the order they were appended, whatever failed or crashed inside any  *)
(* rotation (audit.rs, rotate).                                            *)
GenerationsInOrder ==
  /\ \A g \in Generations : \A i, j \in DOMAIN LinesOf(g) :
       i < j => LinesOf(g)[i].record < LinesOf(g)[j].record
  /\ \A g, h \in Generations : g < h =>
       \A i \in DOMAIN LinesOf(g), j \in DOMAIN LinesOf(h) :
         LinesOf(h)[j].record < LinesOf(g)[i].record

Kept == {g \in Generations : Exists(g)}

(* A step takes some file's last name away.                                *)
FileLost == Cardinality(Kept') < Cardinality(Kept)

(* The file beyond rotate_keep is deleted (docs, File handling): a file    *)
(* loses its last name only while all the names from the live path up to   *)
(* path.Keep are taken, so that Keep younger ones remain.                  *)
OldestOnly == [][FileLost => Kept = Generations]_vars

(* No rotation has been cut short so far.                                  *)
Uninterrupted ==
  /\ crashes = 0
  /\ \A syscall \in {"remove", "shift", "rename", "open"} : faults[syscall] = 0

(* As long as no rotation is cut short that promise is kept, whatever      *)
(* writes and syncs fail in between (audit.rs, rotate).                    *)
LossOnlyByAge == [][FileLost /\ Uninterrupted => Kept = Generations]_vars

(* The server appends to the configured file (docs, File handling): the    *)
(* handle is on the file that has the live name whenever the sink can      *)
(* write, and the next rotation finds a file to rename.                    *)
OnLiveFile == pc \notin {"open", "down"} => dir[0] = handle

(* Only a failing open takes the handle off the live file: any rotation    *)
(* that another failure or a crash cut short can be started over           *)
(* (audit.rs, rotate and Sink::open).                                      *)
LiveHandle == faults["open"] = 0 => OnLiveFile

(* A file never grows past rotate_max_bytes, unless it holds just the one  *)
(* record that is larger by itself (the comment on append), as long as the *)
(* cached length counts every byte: not after a torn write or a failed     *)
(* sync, whose bytes are in the file but not in the length.                *)
SizeBound ==
  MaxBytes > 0 /\ faults["write"] = 0 /\ faults["sync"] = 0 =>
    \A g \in Generations : Exists(g) =>
      files[dir[g]].bytes <= MaxBytes \/ Len(LinesOf(g)) = 1

(* One JSON object per line (docs, The audit stream): an accepted record   *)
(* does not continue a line that an earlier append left unfinished.        *)
OneObjectPerLine ==
  \A g \in Generations : \A i \in DOMAIN LinesOf(g) :
    i > 1 /\ LinesOf(g)[i].record \in accepted => LinesOf(g)[i - 1].whole
=============================================================================
