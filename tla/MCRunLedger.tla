----------------------------- MODULE MCRunLedger -----------------------------
(***************************************************************************)
(* Two runs in one directory, which meet with an empty ledger, one that the *)
(* next record makes long enough to be rewritten, and one that ends with a *)
(* crash of theirs and another directory's.                                *)
(***************************************************************************)
EXTENDS RunLedger, TLC

CONSTANTS here, there

\* The runs differ in nothing but their names.
Symmetry == Permutations(Runs)

MCDirOf == [r \in Runs |-> here]

Rec(dir, reason) == [by |-> None, dir |-> dir, reason |-> reason]
MCEarlier ==
  {<<>>,
   <<Rec(here, "ok"), Rec(there, "error_exit"), Rec(there, "ok"), Rec(here, "error_exit")>>,
   <<Rec(here, "error_exit"), Rec(here, "error_exit"), Rec(there, "error_exit")>>}

=============================================================================
