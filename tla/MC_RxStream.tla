---------------------------- MODULE MC_RxStream -----------------------------
(* Receipts and logs, for dbg_guvs that exist and others. *)
EXTENDS RxStream

Kind(words, receipt, known) == [words |-> words, receipt |-> receipt, known |-> known]
Several ==
  {Kind(1, TRUE, TRUE), Kind(1, TRUE, FALSE),
   Kind(2, FALSE, TRUE), Kind(5, FALSE, TRUE), Kind(3, FALSE, FALSE)}
=============================================================================
