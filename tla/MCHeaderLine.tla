---------------------------- MODULE MCHeaderLine ----------------------------
(***************************************************************************)
(* All lines of up to seven characters: letters, colons, spaces and line   *)
(* feeds.                                                                  *)
(***************************************************************************)
EXTENDS HeaderLine

SomeCharacters == {"k", "COLON", "SP", "LF"}
ShortLines == UNION {[1 .. n -> SomeCharacters] : n \in 0 .. 7}
=============================================================================
