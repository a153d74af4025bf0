----------------------------- MODULE MCAuditGate -----------------------------
(* Small instances of AuditGate for TLC.                                   *)
EXTENDS AuditGate, FiniteSetsExt

Refused(S) == MapThenSumSet(LAMBDA r : r.refused, S)

(* Every call the gate refused is counted in exactly one audit_gap record  *)
(* or in the pending gap, however refusals and recoveries interleave       *)
(* (audit.rs, refused and update_gap).                                     *)
RefusalsReported ==
  refusals = gap.refused
             + Refused({stream[i] : i \in DOMAIN stream})
             + Refused(forgotten)
=============================================================================
