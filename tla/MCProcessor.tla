---------------------------- MODULE MCProcessor ----------------------------
(***************************************************************************)
(* Two machines; objects with an event to store among lines that are       *)
(* passed over.                                                            *)
(***************************************************************************)
EXTENDS ModelCall

MCKind == [e \in {"a", "b", "own", "torn", "huge", "endless"} |->
             CASE e \in {"a", "b"} -> "plain"
               [] e = "own" -> "internal"
               [] e = "torn" -> "malformed"
               [] e = "huge" -> "oversized"
               [] e = "endless" -> "toolong"]

MCBatches == {<<"own", "a">>, <<"b", "torn", "huge">>, <<"b", "endless">>}

=============================================================================
