-------------------------- MODULE MCQuestionQueue --------------------------
(***************************************************************************)
(* Two events, one of them on the whole second, and two questions a model  *)
(* may ask any number of times: Telegram takes the one and refuses the     *)
(* other.                                                                  *)
(***************************************************************************)
EXTENDS QuestionQueue, TLC

CONSTANTS e1, e2

MCCaptured == (e1 :> 3) @@ (e2 :> 4)

=============================================================================
