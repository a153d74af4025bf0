----------------------------- MODULE RetainedLog -----------------------------
(***************************************************************************)
(* What a rotated audit file promises, without files, handles or system    *)
(* calls: one log of record numbers that only grows at its young end, in   *)
(* order, and only shrinks at its old end (src/src/audit.rs, Sink).        *)
(***************************************************************************)
EXTENDS Naturals, Sequences

VARIABLE log   \* the numbers a reader finds, oldest generation first

Younger(n) == \A i \in DOMAIN log : log[i] < n

Add == /\ log' # <<>>
       /\ Younger(log'[Len(log')])
       /\ log' = Append(log, log'[Len(log')])

Forget == \E k \in 1..Len(log) : log' = SubSeq(log, k + 1, Len(log))

Spec == log = <<>> /\ [][Add \/ Forget]_log
=============================================================================
