--------------------------- MODULE MCRequestStream ---------------------------
(***************************************************************************)
(* Up to three requests with bodies of up to two cells.                    *)
(***************************************************************************)
EXTENDS RequestStream

SomeAsks ==
  {[method |-> "GET", length |-> 0, declared |-> FALSE],
   [method |-> "GET", length |-> 1, declared |-> TRUE],
   [method |-> "POST", length |-> 0, declared |-> TRUE],
   [method |-> "POST", length |-> 2, declared |-> TRUE]}

SomeDialogues == UNION {[1 .. n -> SomeAsks] : n \in 1 .. 3}
=============================================================================
