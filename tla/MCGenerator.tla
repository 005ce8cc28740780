---------------------------- MODULE MCGenerator ----------------------------
(***************************************************************************)
(* Two overlapping runs over four events: two captured at one time, which  *)
(* is one a cursor of whole seconds can stand at, one before and one after *)
(* them.  So the limit can cut between the two, and a cursor that one run  *)
(* sets back can meet another run that has read it further on.  The runs   *)
(* are alike, and so are the two events.                                   *)
(***************************************************************************)
EXTENDS Generator, TLC

CONSTANTS e1, e2, e3, e4

MCCaptured == (e1 :> 3) @@ (e2 :> 4) @@ (e3 :> 4) @@ (e4 :> 5)

Symmetry == Permutations(Runs) \cup Permutations({e2, e3})

=============================================================================
