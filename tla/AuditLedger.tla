---------------------------- MODULE AuditLedger ----------------------------
(* What the audit chain promises: rows are only ever added, each after all  *)
(* others and linked to the one that was the last.                          *)
EXTENDS Naturals, Sequences

CONSTANT Instant  (* the times a row may have                               *)

VARIABLE rows

LastAt == IF rows = <<>> THEN 0 ELSE rows[Len(rows)].at

LedgerInit == rows = <<>>

AppendEvent(at) ==
  /\ at > LastAt
  /\ rows' = Append(rows, [at |-> at, previous |-> LastAt])

LedgerSpec == LedgerInit /\ [][\E at \in Instant : AppendEvent(at)]_rows
=============================================================================
