----------------------------- MODULE AuditLedger -----------------------------
(***************************************************************************)
(* What the audit stream promises, without gate, calls, export or file: a  *)
(* ledger whose entries carry increasing numbers.  A number may be lost    *)
(* when an entry cannot be kept.  The entry that is kept next is followed  *)
(* by a report with the exact number of losses since the entry before it;  *)
(* only the report itself may be lost too (src/src/audit.rs, update_gap).  *)
(***************************************************************************)
EXTENDS Naturals, Sequences

VARIABLES
  next,         \* the number the next entry takes
  ledger,       \* the entries kept, oldest first
  unreported    \* entries lost since the last one kept

ledgerVars == <<next, ledger, unreported>>

Entry(n) == [seq |-> n, report |-> FALSE, count |-> 0]
Report(n, k) == [seq |-> n, report |-> TRUE, count |-> k]

LInit ==
  /\ next = 1
  /\ ledger = <<>>
  /\ unreported = 0

LoseEntry ==
  /\ next' = next + 1
  /\ unreported' = unreported + 1
  /\ UNCHANGED ledger

KeepEntry ==
  /\ unreported = 0
  /\ next' = next + 1
  /\ ledger' = Append(ledger, Entry(next))
  /\ UNCHANGED unreported

(* A report of zero losses may follow too: refusals are reported with it.  *)
KeepAndReport ==
  /\ next' = next + 2
  /\ unreported' = 0
  /\ \/ ledger' = ledger \o <<Entry(next), Report(next + 1, unreported)>>
     \/ ledger' = Append(ledger, Entry(next))

LNext == LoseEntry \/ KeepEntry \/ KeepAndReport

Spec == LInit /\ [][LNext]_ledgerVars
=============================================================================
