------------------------------ MODULE MCAnswers ------------------------------
(***************************************************************************)
(* Two files, one of them empty.                                           *)
(***************************************************************************)
EXTENDS Answers

TwoFiles == {"empty.html", "page.html"}
Lengths == [f \in TwoFiles |-> IF f = "empty.html" THEN 0 ELSE 2]
=============================================================================
