----------------------------- MODULE MCAuditSink -----------------------------
(* Small instances of AuditSink for TLC, and the log a reader sees.        *)
EXTENDS AuditSink, SequencesExt

(* The record numbers in the file of generation Keep - k + 1.              *)
Numbers(k) ==
  LET lines == LinesOf(Keep - k + 1)
  IN  [i \in DOMAIN lines |-> lines[i].record]

Chapters == [k \in 1..(Keep + 1) |-> Numbers(k)]

ReaderLog == FlattenSeq(Chapters)

Log == INSTANCE RetainedLog WITH log <- ReaderLog

(* Read from the oldest generation to the live file, the sink is one log   *)
(* that grows at its young end and loses records only at its old end,      *)
(* with every system call failing and the process dying anywhere           *)
(* (audit.rs, append and rotate; module RetainedLog).                      *)
ImplementsLog == Log!Spec
=============================================================================
