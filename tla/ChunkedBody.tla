----------------------------- MODULE ChunkedBody -----------------------------
(***************************************************************************)
(* A chunked request body that arrives in pieces: Request appends every    *)
(* piece to _requestBuffer, which is never shortened, and decodes from     *)
(* _readIndex on whatever is there in full.                                *)
(*                                                                         *)
(* The peer's stream is a member of Streams, known from the start; it is   *)
(* cut into pieces in every way.  Bytes are told apart as far as the code  *)
(* looks at them.  Positions count from 0 as in the code, so the byte at p *)
(* is buffer[p + 1].                                                       *)
(***************************************************************************)
EXTENDS Naturals, SequencesExt

CONSTANTS
  Hex,       \* HEX, the base of chunk sizes: 16 in the code
  Byte,      \* what chunks and trailers are made of
  Bodies,    \* the bodies peers send, each the sequence of its chunks
  Endings,   \* what follows the size 0 of the last chunk: CRLF, trailers, CRLF
  MaxBody    \* client_max_body_size

CRLF == <<"CR", "LF">>

ASSUME HexAssumption == Hex \in 2 .. 16
ASSUME MaxBodyAssumption == MaxBody \in Nat
\* An empty chunk would be the last.
ASSUME StreamAssumption ==
  /\ \A c \in Bodies : c \in Seq(Seq(Byte) \ {<<>>})
  /\ \A e \in Endings : e \in Seq(Byte) /\ IsPrefix(CRLF, e)

VARIABLES
  chunks,    \* what the peer sends
  stream,    \* the bytes it sends for this
  cut,       \* the chunk whose CRLF is not what it should be, 0 for none
  buffer,    \* _requestBuffer
  readIndex, \* _readIndex, 0 before the first piece of the body
  body,      \* _requestBody
  ended,     \* _chunkedEnd
  error      \* the int thrown, 0 for none

vars == <<chunks, stream, cut, buffer, readIndex, body, ended, error>>

\* The digits there are, in the order of their values.
Digits == <<"0", "1", "2", "3", "4", "5", "6", "7",
            "8", "9", "a", "b", "c", "d", "e", "f">>
Value(d) == (CHOOSE v \in 1 .. Hex : Digits[v] = d) - 1
IsDigit(b) == \E v \in 1 .. Hex : Digits[v] = b

Numeral[n \in Nat] ==
  IF n < Hex THEN <<Digits[n + 1]>> ELSE Append(Numeral[n \div Hex], Digits[(n % Hex) + 1])

\* The header, of which only its length matters.
Header == <<"header">>
_bodyStartIndex == Len(Header)

\* The stream of a body; a peer that is cut off its CRLF sends other bytes.
Encoded(c, k) ==
  FlattenSeq([i \in DOMAIN c |->
    Numeral[Len(c[i])] \o CRLF \o c[i] \o IF i = k THEN <<"x", "x">> ELSE CRLF])
Stream(c, k, e) == Header \o Encoded(c, k) \o Numeral[0] \o e

Init ==
  /\ chunks \in Bodies
  /\ cut \in 0 .. Len(chunks)
  /\ \E e \in Endings : stream = Stream(chunks, cut, e)
  /\ buffer = <<>>
  /\ readIndex = 0
  /\ body = <<>>
  /\ ended = FALSE
  /\ error = 0

TypeOK ==
  /\ chunks \in Bodies /\ cut \in 0 .. Len(chunks)
  /\ IsPrefix(buffer, stream)
  /\ readIndex \in 0 .. Len(buffer)
  /\ body \in Seq(Byte)
  /\ ended \in BOOLEAN
  /\ error \in {0, 400, 413}

-----------------------------------------------------------------------------
\* The byte at position p of b, NUL past its end.
At(b, p) == IF p < Len(b) THEN b[p + 1] ELSE "NUL"

\* std::string::find("\r\n", p), npos when there is none.
npos == Len(stream)
find(b, p) ==
  LET hits == {q \in p .. Len(b) : At(b, q) = "CR" /\ At(b, q + 1) = "LF"}
  IN  IF hits = {} THEN npos ELSE CHOOSE q \in hits : \A r \in hits : q <= r

\* The first position from p on whose byte is not in S.
Skip(b, p, Is(_)) ==
  CHOOSE q \in p .. Len(b) : ~Is(At(b, q)) /\ \A r \in p .. q - 1 : Is(At(b, r))
IsBlank(c) == c \in {"CR", "LF"}

\* std::strtol(buffer + p, &endptr, HEX): <<the number, endptr>>.  Line ends
\* before the digits are skipped; with no digit endptr is where it started.
\* The bytes of this model are digits and line ends: a sign, "0x", a space or tab
\* and a number too large for a long, which strtol takes as well, are not in it.
Number(b, p, q) ==
  LET n[r \in p .. q] == IF r = p THEN 0 ELSE n[r - 1] * Hex + Value(At(b, r - 1))
  IN  n[q]
strtol(b, p) ==
  LET first == Skip(b, p, IsBlank)
      end == Skip(b, first, IsDigit)
  IN  IF first = end THEN <<0, p>> ELSE <<Number(b, first, end), end>>

\* (variant: the last chunk's line is taken for the end)
handleChunkedEndEarly(s, b, bodyStart) ==
  IF Len(s.body) > MaxBody THEN [s EXCEPT !.error = 413]
  ELSE [s EXCEPT !.ended = TRUE]

\* A CRLF somewhere after the last chunk's line: the end of the empty line, or
\* of the first trailer.
handleChunkedEnd(s, b, bodyStart) ==
  IF find(b, bodyStart) = npos THEN s
  ELSE IF Len(s.body) > MaxBody THEN [s EXCEPT !.error = 413]
  ELSE [s EXCEPT !.ended = TRUE]

appendChunkedData(s, b, bodyStart, bodySize) ==
  IF find(b, bodyStart + bodySize) # bodyStart + bodySize
  THEN [s EXCEPT !.error = 400]
  ELSE [s EXCEPT !.body = @ \o SubSeq(b, bodyStart + 1, bodyStart + bodySize),
                 !.index = bodyStart + bodySize + 2]

Arrived(b, bodyStart, bodySize) == bodyStart + bodySize + 2 <= Len(b)

\* One turn of the loop in parsingChunkedData over the fields s; it stops when
\* nothing is decoded or an int is thrown.
parseChunkedBody(s, b) ==
  LET size == strtol(b, s.index)[1]
      endptr == strtol(b, s.index)[2]
      bodyStart == endptr + 2
      stop == [s EXCEPT !.more = FALSE]
  IN  IF ~(At(b, endptr) = "CR" /\ At(b, endptr + 1) = "LF") THEN stop
      ELSE IF size = 0 THEN handleChunkedEnd(stop, b, bodyStart)
      ELSE IF Arrived(b, bodyStart, size)
           THEN LET t == appendChunkedData(s, b, bodyStart, size)
                IN  [t EXCEPT !.more = (t.error = 0)]
           ELSE stop

\* (variant: decoding starts from _bodyStartIndex at every piece)
startIndexAgain == _bodyStartIndex

startIndex == IF readIndex = 0 THEN _bodyStartIndex ELSE readIndex

\* A chunk takes more than one byte: there are no more turns than bytes.
parsingChunkedData(b) ==
  LET s == [index |-> startIndex, body |-> body, ended |-> ended,
            error |-> 0, more |-> TRUE]
      turn[k \in 0 .. Len(b)] ==
        IF k = 0 THEN s
        ELSE LET t == turn[k - 1]
             IN  IF t.more THEN parseChunkedBody(t, b) ELSE t
  IN  turn[Len(b)]

\* Bytes arrive, up to the n-th: Request::handleRequest, once the header is there.
Receive(n) ==
  LET b == SubSeq(stream, 1, n)
      s == parsingChunkedData(b)
  IN  /\ error = 0
      /\ buffer' = b
      /\ readIndex' = s.index
      /\ body' = s.body
      /\ ended' = s.ended
      /\ error' = s.error
      /\ UNCHANGED <<chunks, stream, cut>>

Next ==
  \E n \in Len(Header) .. Len(stream) : n > Len(buffer) /\ Receive(n)

Spec == Init /\ [][Next]_vars

-----------------------------------------------------------------------------
(***************************************************************************)
(* What the bytes that have arrived amount to, defined from the chunks.    *)
(***************************************************************************)

\* Where the k-th chunk ends in the stream, its CRLF or what stands for it
\* included; the last line with a size, 0, comes after all of them.
EndOf(k) == _bodyStartIndex + Len(Encoded(SubSeq(chunks, 1, k), cut))
\* The chunks before the one that is not followed by CRLF.
Sound == IF cut = 0 THEN Len(chunks) ELSE cut - 1
Complete == {k \in 0 .. Sound : k = 0 \/ EndOf(k) <= Len(buffer)}
Payload == FlattenSeq(SubSeq(chunks, 1, CHOOSE k \in Complete : \A j \in Complete : j <= k))

\* The body is the chunks that have arrived in full, in order, and nothing
\* else, however the stream was cut into pieces and whatever bytes the chunks
\* hold (line ends and digits among them).
Decoded == body = Payload

\* The peer's last line: the size 0, and the line after it.
LastSeen ==
  cut = 0 /\ find(buffer, EndOf(Len(chunks)) + 3) # npos

\* The end is known exactly when the line after the last chunk's has arrived,
\* and a body over the limit is refused then.  A chunk that is not followed by
\* CRLF is refused as soon as the two bytes that should be its CRLF are there,
\* and nothing else is.
EndKnown ==
  /\ ended <=> LastSeen /\ Len(body) <= MaxBody
  /\ error = 413 <=> LastSeen /\ Len(body) > MaxBody
  /\ error = 400 <=> cut # 0 /\ EndOf(cut) <= Len(buffer)
=============================================================================
