------------------------------ MODULE MCCgiRelay ------------------------------
(***************************************************************************)
(* Bodies of up to three bytes, outputs with a header of one line or two.  *)
(***************************************************************************)
EXTENDS CgiRelay

SomeBytes == {"a", "b", "c", "h", "k", "p", "q", "CR", "LF"}

SomeBodies == {<<>>, <<"a">>, <<"a", "b", "c">>}
SomeOutputs ==
  {<<"h">> \o EmptyLine,
   <<"h">> \o EmptyLine \o <<"p", "q">>,
   <<"h">> \o LineEnd \o <<"k">> \o EmptyLine \o <<"p">>}
=============================================================================
