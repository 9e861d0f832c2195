---------------------------- MODULE MCChunkedBody ----------------------------
(***************************************************************************)
(* Bodies of up to two chunks of up to three bytes, which may look like    *)
(* line ends and sizes; sizes have one or two digits.                      *)
(***************************************************************************)
EXTENDS ChunkedBody

SomeBytes == {"x", "CR", "LF", "1"}
Chunk == UNION {[1 .. n -> SomeBytes] : n \in 1 .. 3}
SomeBodies ==
  {<<>>} \cup {<<c>> : c \in Chunk}
  \cup {<<c, d>> : c \in Chunk, d \in {<<"x">>, <<"1", "CR">>, <<"CR", "LF", "x">>}}

SomeEndings == {CRLF \o CRLF, CRLF \o <<"x">> \o CRLF \o CRLF}
=============================================================================
