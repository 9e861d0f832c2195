---------------------------- MODULE CgiRelayProofs ----------------------------
(***************************************************************************)
(* The three relays of a POST, proved lossless for bodies and outputs of   *)
(* any length, pipes of any size and pieces of any size.                   *)
(***************************************************************************)
EXTENDS CgiRelay, SequenceTheorems, WellFoundedInduction, TLAPS

-----------------------------------------------------------------------------
(***************************************************************************)
(* Pieces of sequences.                                                    *)
(***************************************************************************)

\* A sequence is its first elements and the others.
LEMMA Pieces ==
  ASSUME NEW S, NEW s \in Seq(S), NEW n \in 0 .. Len(s)
  PROVE  /\ Upto(s, n) \in Seq(S) /\ Len(Upto(s, n)) = n
         /\ After(s, n) \in Seq(S) /\ Len(After(s, n)) = Len(s) - n
         /\ Upto(s, n) \o After(s, n) = s
  <1>1. Len(s) \in Nat
    OBVIOUS
  <1>2. \A i \in 1 .. Len(s) : s[i] \in S
    OBVIOUS
  <1>3. Upto(s, n) \in Seq(S) /\ Len(Upto(s, n)) = n
    BY <1>1, <1>2, SubSeqProperties DEF Upto
  <1>4. After(s, n) \in Seq(S) /\ Len(After(s, n)) = Len(s) - n
    BY <1>1, <1>2, SubSeqProperties DEF After
  <1>5. SubSeq(s, 1, n) \o SubSeq(s, n + 1, Len(s)) = SubSeq(s, 1, Len(s))
    <2>1. 1 \in 1 .. Len(s) + 1 /\ n \in 1 - 1 .. Len(s) /\ Len(s) \in n .. Len(s)
      BY <1>1
    <2> QED
      BY <2>1, ConcatAdjacentSubSeq
  <1>6. Upto(s, n) \o After(s, n) = s
    BY <1>5, SubSeqFull DEF Upto, After
  <1> QED
    BY <1>3, <1>4, <1>6

\* Another piece of n elements.
LEMMA NextPiece ==
  ASSUME NEW S, NEW s \in Seq(S), NEW m \in Nat, NEW n \in Nat, m + n <= Len(s)
  PROVE  /\ SubSeq(s, m + 1, m + n) \in Seq(S)
         /\ Upto(s, m) \o SubSeq(s, m + 1, m + n) = Upto(s, m + n)
  <1>1. Len(s) \in Nat
    OBVIOUS
  <1>2. \A i \in 1 .. Len(s) : s[i] \in S
    OBVIOUS
  <1>3. SubSeq(s, m + 1, m + n) \in Seq(S)
    BY <1>1, <1>2, SubSeqProperties
  <1>4. 1 \in 1 .. Len(s) + 1 /\ m \in 1 - 1 .. Len(s) /\ m + n \in m .. Len(s)
    BY <1>1
  <1>5. SubSeq(s, 1, m) \o SubSeq(s, m + 1, m + n) = SubSeq(s, 1, m + n)
    BY <1>4, ConcatAdjacentSubSeq
  <1> QED
    BY <1>3, <1>5 DEF Upto

\* The beginning of a beginning.
LEMMA UptoUpto ==
  ASSUME NEW S, NEW s \in Seq(S), NEW n \in 0 .. Len(s), NEW m \in 0 .. n
  PROVE  Upto(Upto(s, n), m) = Upto(s, m)
  <1>1. Len(s) \in Nat /\ m \in 0 .. Len(s)
    OBVIOUS
  <1>2. Upto(s, n) \in Seq(S) /\ Len(Upto(s, n)) = n
    BY Pieces
  <1>3. Upto(s, m) \in Seq(S) /\ Len(Upto(s, m)) = m
    BY <1>1, Pieces
  <1>4. Upto(Upto(s, n), m) \in Seq(S) /\ Len(Upto(Upto(s, n), m)) = m
    BY <1>2, Pieces
  <1>5. ASSUME NEW i \in 1 .. m PROVE Upto(Upto(s, n), m)[i] = Upto(s, m)[i]
    <2>1. i \in 1 .. n /\ i \in 1 .. m - 1 + 1 /\ i \in 1 .. n - 1 + 1
      BY <1>1
    <2>2. \A j \in 1 .. m : Upto(s, n)[j] \in S
      BY <1>2, <1>1
    <2>3. Upto(Upto(s, n), m)[i] = Upto(s, n)[i]
      BY <2>1, <2>2, SubSeqProperties DEF Upto
    <2>4. \A j \in 1 .. n : s[j] \in S
      BY <1>1
    <2>5. Upto(s, n)[i] = s[i]
      BY <2>1, <2>4, SubSeqProperties DEF Upto
    <2>6. Upto(s, m)[i] = s[i]
      BY <2>1, <2>4, SubSeqProperties DEF Upto
    <2> QED
      BY <2>3, <2>5, <2>6
  <1> QED
    BY <1>3, <1>4, <1>5, SeqEqual

\* Elements move from the front of one sequence to the end of another.
LEMMA Moved ==
  ASSUME NEW S, NEW a \in Seq(S), NEW b \in Seq(S), NEW n \in 0 .. Len(b)
  PROVE  /\ a \o Upto(b, n) \in Seq(S) /\ After(b, n) \in Seq(S)
         /\ (a \o Upto(b, n)) \o After(b, n) = a \o b
         /\ Len(a \o Upto(b, n)) = Len(a) + n
  <1>1. Upto(b, n) \in Seq(S) /\ After(b, n) \in Seq(S) /\ Upto(b, n) \o After(b, n) = b
        /\ Len(Upto(b, n)) = n
    BY Pieces
  <1>2. (a \o Upto(b, n)) \o After(b, n) = a \o (Upto(b, n) \o After(b, n))
    <2> DEFINE u == Upto(b, n)
               v == After(b, n)
    <2>1. u \in Seq(S) /\ v \in Seq(S)
      BY <1>1
    <2> HIDE DEF u, v
    <2>2. (a \o u) \o v = a \o (u \o v)
      BY <2>1, ConcatAssociative, SMTT(60)
    <2> QED
      BY <2>2 DEF u, v
  <1>3. a \o Upto(b, n) \in Seq(S) /\ Len(a \o Upto(b, n)) = Len(a) + Len(Upto(b, n))
    BY <1>1, ConcatProperties
  <1>4. (a \o Upto(b, n)) \o After(b, n) = a \o b
    BY <1>1, <1>2
  <1> QED
    BY <1>1, <1>3, <1>4

\* A first part is a beginning of the whole.
LEMMA FirstPart ==
  ASSUME NEW S, NEW a \in Seq(S), NEW b \in Seq(S)
  PROVE  Len(a) \in 0 .. Len(a \o b) /\ a = Upto(a \o b, Len(a))
  <1>1. a \o b \in Seq(S) /\ Len(a \o b) = Len(a) + Len(b)
        /\ \A i \in 1 .. Len(a) + Len(b) :
             (a \o b)[i] = IF i <= Len(a) THEN a[i] ELSE b[i - Len(a)]
    BY ConcatProperties
  <1>2. Len(a) \in 0 .. Len(a \o b) /\ Len(a) \in Nat /\ Len(b) \in Nat
    BY <1>1
  <1>3. Upto(a \o b, Len(a)) \in Seq(S) /\ Len(Upto(a \o b, Len(a))) = Len(a)
    BY <1>1, <1>2, Pieces
  <1>4. ASSUME NEW i \in 1 .. Len(a) PROVE a[i] = Upto(a \o b, Len(a))[i]
    <2>1. \A j \in 1 .. Len(a) : (a \o b)[j] \in S
      BY <1>1, <1>2
    <2>2. Upto(a \o b, Len(a))[i] = (a \o b)[i]
      BY <1>2, <2>1, SubSeqProperties DEF Upto
    <2> QED
      BY <1>1, <1>2, <2>2
  <1> QED
    BY <1>2, <1>3, <1>4, SeqEqual

-----------------------------------------------------------------------------
(***************************************************************************)
(* The response.                                                           *)
(***************************************************************************)

\* find() returns the first position where the pattern stands.
LEMMA FindFound ==
  ASSUME NEW S, NEW msg \in Seq(S), NEW pattern \in Seq(S), Found(msg, pattern) # {}
  PROVE  /\ find(msg, pattern) \in Found(msg, pattern)
         /\ \A q \in Found(msg, pattern) : find(msg, pattern) <= q
  <1>1. Found(msg, pattern) \subseteq Nat
    BY DEF Found
  <1> DEFINE Less == {ss \in Nat \X Nat : ss[1] < ss[2]}
  <1>2. IsWellFoundedOn(Less, Nat)
    BY NatLessThanWellFounded, Zenon DEF OpToRel
  <1>3. PICK p \in Found(msg, pattern) :
          \A q \in Found(msg, pattern) : <<q, p>> \notin Less
    <2> HIDE DEF Less
    <2> QED
      BY <1>1, <1>2, WFMin
  <1>4. ASSUME NEW q \in Found(msg, pattern) PROVE p <= q
    <2>1. p \in Nat /\ q \in Nat /\ <<q, p>> \in Nat \X Nat
      BY <1>1
    <2>2. ~(q < p)
      BY <1>3, <2>1
    <2> QED
      BY <2>1, <2>2
  <1> QED
    BY <1>3, <1>4 DEF find

LEMMA ResponseType ==
  ASSUME NEW msg \in Seq(Byte), Found(msg, EmptyLine) # {}
  PROVE  /\ Response(msg) \in [text : Seq(Sent), length : Nat]
         /\ Len(Response(msg).text) >= 1
  <1> DEFINE C == Byte \cup {"CR", "LF"}
  <1>1. msg \in Seq(C) /\ Len(msg) \in Nat
    OBVIOUS
  <1>2. /\ LineEnd \in Seq(C) /\ EmptyLine \in Seq(C)
        /\ Len(LineEnd) = 2 /\ Len(EmptyLine) = 4
        /\ LineEnd[1] = "CR" /\ LineEnd[2] = "LF"
        /\ EmptyLine[1] = "CR" /\ EmptyLine[2] = "LF"
    <2>1. /\ LineEnd \in Seq(C) /\ Len(LineEnd) = 2
          /\ LineEnd[1] = "CR" /\ LineEnd[2] = "LF"
      BY DEF LineEnd
    <2>2. /\ EmptyLine \in Seq(C) /\ Len(EmptyLine) = 2 + 2
          /\ \A i \in 1 .. 2 : EmptyLine[i] = LineEnd[i]
      <3> HIDE DEF C
      <3> QED
        BY <2>1, ConcatProperties, SMTT(60) DEF EmptyLine
    <2> QED
      BY <2>1, <2>2
  <1>3. find(msg, EmptyLine) \in Found(msg, EmptyLine)
    BY <1>1, <1>2, FindFound
  <1>4. find(msg, EmptyLine) \in 0 .. Len(msg) - 4
    BY <1>2, <1>3 DEF Found
  <1>5. Response(msg).length \in Nat
    BY <1>1, <1>4 DEF Response, cgiBodySize
  <1>6. PICK p \in Found(msg, EmptyLine) : TRUE
    BY <1>3
  <1>7. p \in 0 .. Len(msg) - 4 /\ SubSeq(msg, p + 1, p + 4) = EmptyLine
    BY <1>2, <1>6 DEF Found
  <1>8. p \in Found(msg, LineEnd)
    <2>1. p \in 0 .. Len(msg) - 2
      BY <1>1, <1>7
    <2>2. \A i \in p + 1 .. p + 4 : msg[i] \in C
      BY <1>1, <1>7
    <2>3. \A i \in 1 .. 4 : SubSeq(msg, p + 1, p + 4)[i] = msg[p + 1 + i - 1]
      BY <1>7, <2>2, SubSeqProperties
    <2>4. msg[p + 1] = "CR" /\ msg[p + 2] = "LF"
      <3>1. p + 1 = p + 1 + 1 - 1 /\ p + 2 = p + 1 + 2 - 1
        BY <1>7
      <3> QED
        BY <1>2, <1>7, <2>3, <3>1
    <2>5. SubSeq(msg, p + 1, p + 2) = LineEnd
      <3>1. SubSeq(msg, p + 1, p + 2) \in Seq(C) /\ Len(SubSeq(msg, p + 1, p + 2)) = 2
            /\ \A i \in 1 .. 2 : SubSeq(msg, p + 1, p + 2)[i] = msg[p + 1 + i - 1]
        BY <1>7, <2>2, SubSeqProperties
      <3>2. SubSeq(msg, p + 1, p + 2)[1] = LineEnd[1] /\ SubSeq(msg, p + 1, p + 2)[2] = LineEnd[2]
        BY <1>7, <2>4, <3>1 DEF LineEnd
      <3>3. \A i \in 1 .. 2 : SubSeq(msg, p + 1, p + 2)[i] = LineEnd[i]
        <4>1. \A i \in 1 .. 2 : i = 1 \/ i = 2
          OBVIOUS
        <4> QED
          BY <3>2, <4>1, Zenon
      <3> QED
        BY <1>2, <3>1, <3>3, SeqEqual, Zenon
    <2> QED
      BY <1>2, <2>1, <2>5 DEF Found
  <1>9. find(msg, LineEnd) \in Found(msg, LineEnd)
    BY <1>1, <1>2, <1>8, FindFound
  <1>10. find(msg, LineEnd) + 2 \in 0 .. Len(msg)
    BY <1>1, <1>2, <1>9 DEF Found
  <1>11. After(msg, find(msg, LineEnd) + 2) \in Seq(C)
    BY <1>1, <1>10, Pieces
  <1>12. After(msg, find(msg, LineEnd) + 2) \in Seq(Sent)
    BY <1>11 DEF Sent
  <1>13. <<"status">> \in Seq(Sent) /\ <<"length">> \in Seq(Sent) /\ LineEnd \in Seq(Sent)
    BY DEF Sent, LineEnd
  <1> DEFINE tail == After(msg, find(msg, LineEnd) + 2)
             head == <<"status">> \o LineEnd \o <<"length">> \o LineEnd
  <1>14. Response(msg).text = head \o tail
    BY DEF Response
  <1>15. head \in Seq(Sent) /\ Len(head) = 6
    BY DEF Sent, LineEnd
  <1>16. Response(msg).text \in Seq(Sent) /\ Len(Response(msg).text) >= 1
    <2> HIDE DEF head, tail
    <2>1. tail \in Seq(Sent) /\ Len(tail) \in Nat
      BY <1>12 DEF tail
    <2>2. head \o tail \in Seq(Sent) /\ Len(head \o tail) = Len(head) + Len(tail)
      BY <1>15, <2>1, ConcatProperties
    <2>3. Len(head \o tail) >= 1
      BY <1>15, <2>1, <2>2
    <2> QED
      BY <1>14, <2>2, <2>3, Zenon
  <1> QED
    BY <1>5, <1>16 DEF Response

\* The elements of msg after the first p begin with the pattern.
StandsAt(msg, pattern, p) ==
  /\ p + Len(pattern) <= Len(msg)
  /\ \A i \in 1 .. Len(pattern) : msg[p + i] = pattern[i]

LEMMA FoundWhere ==
  ASSUME NEW S, NEW msg \in Seq(S), NEW pattern \in Seq(S), NEW p \in Nat
  PROVE  p \in Found(msg, pattern) <=> StandsAt(msg, pattern, p)
  <1> DEFINE n == Len(pattern)
             part == SubSeq(msg, p + 1, p + n)
  <1>1. Len(msg) \in Nat /\ n \in Nat
    OBVIOUS
  <1>2. p \in Found(msg, pattern) <=> p + n <= Len(msg) /\ part = pattern
    BY <1>1 DEF Found
  <1>3. CASE p + n <= Len(msg)
    <2>1. \A i \in p + 1 .. p + n : msg[i] \in S
      BY <1>1, <1>3
    <2>2. part \in Seq(S) /\ Len(part) = n
      BY <1>1, <2>1, SubSeqProperties
    <2>3. ASSUME NEW i \in 1 .. n PROVE part[i] = msg[p + i]
      <3>1. i \in 1 .. (p + n) - (p + 1) + 1 /\ (p + 1) + i - 1 = p + i
        BY <1>1
      <3>2. part[i] = msg[(p + 1) + i - 1]
        BY <1>1, <2>1, <3>1, SubSeqProperties
      <3> QED
        BY <3>1, <3>2
    <2> HIDE DEF part
    <2>4. ASSUME \A i \in 1 .. n : msg[p + i] = pattern[i] PROVE part = pattern
      <3>1. \A i \in 1 .. Len(part) : part[i] = pattern[i]
        BY <2>2, <2>3, <2>4
      <3> QED
        BY <2>2, <3>1, SeqEqual
    <2>5. part = pattern <=> \A i \in 1 .. n : msg[p + i] = pattern[i]
      BY <2>3, <2>4
    <2> QED
      BY <1>2, <1>3, <2>5 DEF StandsAt
  <1>4. CASE ~(p + n <= Len(msg))
    BY <1>2, <1>4 DEF StandsAt
  <1> QED
    BY <1>3, <1>4

\* An empty line, and the end of a line, in a message.
EmptyAt(msg, p) ==
  /\ p \in Nat /\ p + 4 <= Len(msg)
  /\ msg[p + 1] = "CR" /\ msg[p + 2] = "LF" /\ msg[p + 3] = "CR" /\ msg[p + 4] = "LF"

EndAt(msg, p) ==
  p \in Nat /\ p + 2 <= Len(msg) /\ msg[p + 1] = "CR" /\ msg[p + 2] = "LF"

LEMMA LinesFound ==
  ASSUME NEW msg \in Seq(Sent)
  PROVE  /\ \A p : p \in Found(msg, EmptyLine) <=> EmptyAt(msg, p)
         /\ \A p : p \in Found(msg, LineEnd) <=> EndAt(msg, p)
  <1>1. /\ LineEnd \in Seq(Sent) /\ Len(LineEnd) = 2
        /\ LineEnd[1] = "CR" /\ LineEnd[2] = "LF"
    BY DEF LineEnd, Sent
  <1>2. /\ EmptyLine \in Seq(Sent) /\ Len(EmptyLine) = 4
        /\ EmptyLine[1] = "CR" /\ EmptyLine[2] = "LF"
        /\ EmptyLine[3] = "CR" /\ EmptyLine[4] = "LF"
    BY DEF EmptyLine, LineEnd, Sent
  <1>3. Found(msg, EmptyLine) \subseteq Nat /\ Found(msg, LineEnd) \subseteq Nat
    BY DEF Found
  <1>4. ASSUME NEW p \in Nat
        PROVE  p \in Found(msg, EmptyLine) <=> EmptyAt(msg, p)
    <2>1. p \in Found(msg, EmptyLine) <=>
            /\ p + 4 <= Len(msg)
            /\ \A i \in 1 .. 4 : msg[p + i] = EmptyLine[i]
      <3> DEFINE s == EmptyLine
      <3>1. s \in Seq(Sent) /\ Len(s) = 4
        BY <1>2
      <3> HIDE DEF s
      <3>2. p \in Found(msg, s) <=> StandsAt(msg, s, p)
        BY <3>1, FoundWhere
      <3> QED
        BY <3>1, <3>2 DEF s, StandsAt
    <2>2. (\A i \in 1 .. 4 : msg[p + i] = EmptyLine[i]) <=>
            /\ msg[p + 1] = "CR" /\ msg[p + 2] = "LF"
            /\ msg[p + 3] = "CR" /\ msg[p + 4] = "LF"
      <3>1. \A i \in 1 .. 4 : i = 1 \/ i = 2 \/ i = 3 \/ i = 4
        OBVIOUS
      <3>2. 1 \in 1 .. 4 /\ 2 \in 1 .. 4 /\ 3 \in 1 .. 4 /\ 4 \in 1 .. 4
        OBVIOUS
      <3> QED
        BY <1>2, <3>1, <3>2, Zenon
    <2> QED
      BY <2>1, <2>2 DEF EmptyAt
  <1>5. ASSUME NEW p \in Nat
        PROVE  p \in Found(msg, LineEnd) <=> EndAt(msg, p)
    <2>1. p \in Found(msg, LineEnd) <=>
            /\ p + 2 <= Len(msg)
            /\ \A i \in 1 .. 2 : msg[p + i] = LineEnd[i]
      <3> DEFINE s == LineEnd
      <3>1. s \in Seq(Sent) /\ Len(s) = 2
        BY <1>1
      <3> HIDE DEF s
      <3>2. p \in Found(msg, s) <=> StandsAt(msg, s, p)
        BY <3>1, FoundWhere
      <3> QED
        BY <3>1, <3>2 DEF s, StandsAt
    <2>2. (\A i \in 1 .. 2 : msg[p + i] = LineEnd[i]) <=> msg[p + 1] = "CR" /\ msg[p + 2] = "LF"
      <3>1. \A i \in 1 .. 2 : i = 1 \/ i = 2
        OBVIOUS
      <3>2. 1 \in 1 .. 2 /\ 2 \in 1 .. 2
        OBVIOUS
      <3> QED
        BY <1>1, <3>1, <3>2, Zenon
    <2> QED
      BY <2>1, <2>2 DEF EndAt
  <1> QED
    BY <1>3, <1>4, <1>5 DEF EmptyAt, EndAt

\* The response announces the bytes after its first empty line: that of the
\* program, or one that the announcement makes with the end of a line after it.
LEMMA ResponseFramed ==
  ASSUME NEW msg \in Seq(Byte), Found(msg, EmptyLine) # {}
  PROVE  Response(msg).length =
           Len(After(Response(msg).text, find(Response(msg).text, EmptyLine) + 4))
  <1> DEFINE t == Response(msg).text
             e == find(msg, EmptyLine)
             p == find(msg, LineEnd)
             r == After(msg, p + 2)
             n == Len(msg)
             h == <<"status">> \o LineEnd \o <<"length">> \o LineEnd
  <1>1. msg \in Seq(Sent) /\ n \in Nat
    BY DEF Sent
  <1>2. LineEnd \in Seq(Sent) /\ EmptyLine \in Seq(Sent)
    BY DEF LineEnd, EmptyLine, Sent
  <1>3. EmptyAt(msg, e) /\ \A q : EmptyAt(msg, q) => e <= q
    BY <1>1, <1>2, FindFound, LinesFound
  <1>4. EndAt(msg, p) /\ \A q : EndAt(msg, q) => p <= q
    <2>1. EndAt(msg, e)
      BY <1>1, <1>3 DEF EmptyAt, EndAt
    <2>2. Found(msg, LineEnd) # {}
      BY <1>1, <2>1, LinesFound
    <2> QED
      BY <1>1, <1>2, <2>2, FindFound, LinesFound
  <1>5. t = h \o r /\ Response(msg).length = n - (e + 4)
    BY DEF Response, cgiBodySize
  <1>6. t \in Seq(Sent)
    BY ResponseType
  <1>7. /\ h \in Seq(Sent) /\ Len(h) = 6
        /\ h[1] = "status" /\ h[2] = "CR" /\ h[3] = "LF"
        /\ h[4] = "length" /\ h[5] = "CR" /\ h[6] = "LF"
    BY DEF LineEnd, Sent
  <1> HIDE DEF t, e, p, n, h
  <1>8. p \in Nat /\ e \in Nat /\ p + 2 <= n /\ e + 4 <= n
    BY <1>3, <1>4 DEF EmptyAt, EndAt, n
  <1>9. r \in Seq(Sent) /\ Len(r) = n - (p + 2)
        /\ \A j \in 1 .. n - (p + 2) : r[j] = msg[p + 2 + j]
    <2>1. p + 3 \in Int /\ n \in Int /\ \A i \in p + 3 .. n : msg[i] \in Sent
      BY <1>1, <1>8 DEF n
    <2>2. /\ SubSeq(msg, p + 3, n) \in Seq(Sent)
          /\ Len(SubSeq(msg, p + 3, n)) = IF p + 3 <= n THEN n - (p + 3) + 1 ELSE 0
          /\ \A j \in 1 .. n - (p + 3) + 1 : SubSeq(msg, p + 3, n)[j] = msg[(p + 3) + j - 1]
      BY <2>1, SubSeqProperties
    <2>3. r = SubSeq(msg, p + 3, n)
      <3>1. p + 2 + 1 = p + 3
        BY <1>8
      <3> QED
        BY <3>1 DEF After, n
    <2>4. n - (p + 3) + 1 = n - (p + 2) /\ (~(p + 3 <= n) => n - (p + 2) = 0)
          /\ \A j \in 1 .. n - (p + 2) : (p + 3) + j - 1 = p + 2 + j
      BY <1>1, <1>8
    <2> HIDE DEF r
    <2> QED
      BY <2>2, <2>3, <2>4
  <1> HIDE DEF r
  <1>10. /\ Len(t) = n - p + 4
         /\ \A i \in 1 .. 6 : t[i] = h[i]
         /\ \A i \in 7 .. n - p + 4 : t[i] = msg[i + p - 4]
    <2>1. /\ Len(h \o r) = 6 + Len(r)
          /\ \A i \in 1 .. 6 + Len(r) : (h \o r)[i] = IF i <= 6 THEN h[i] ELSE r[i - 6]
      <3>1. h \in Seq(Sent) /\ r \in Seq(Sent) /\ Len(h) = 6
        BY <1>7, <1>9
      <3>2. /\ Len(h \o r) = Len(h) + Len(r)
            /\ \A i \in 1 .. Len(h) + Len(r) :
                 (h \o r)[i] = IF i <= Len(h) THEN h[i] ELSE r[i - Len(h)]
        BY <3>1, ConcatProperties
      <3> QED
        BY <3>1, <3>2
    <2>2. 6 + Len(r) = n - p + 4
      BY <1>1, <1>8, <1>9
    <2>3. \A i \in 1 .. 6 : i \in 1 .. n - p + 4 /\ i <= 6
      BY <1>1, <1>8
    <2>4. \A i \in 7 .. n - p + 4 :
            i \in 1 .. n - p + 4 /\ ~(i <= 6) /\ i - 6 \in 1 .. n - (p + 2)
            /\ p + 2 + (i - 6) = i + p - 4
      BY <1>1, <1>8
    <2>5. \A i \in 7 .. n - p + 4 : t[i] = r[i - 6]
      BY <1>5, <2>1, <2>2, <2>4
    <2> QED
      BY <1>5, <1>9, <2>1, <2>2, <2>3, <2>4, <2>5, SMTT(60)
  <1>11. /\ t[1] = "status" /\ t[2] = "CR" /\ t[3] = "LF"
         /\ t[4] = "length" /\ t[5] = "CR" /\ t[6] = "LF"
    BY <1>7, <1>10
  <1>12. p <= e /\ e # p + 1
    <2>1. EndAt(msg, e)
      BY <1>3, <1>8 DEF EmptyAt, EndAt, n
    <2>2. msg[p + 2] = "LF" /\ msg[e + 1] = "CR"
      BY <1>3, <1>4 DEF EmptyAt, EndAt
    <2>3. e = p + 1 => e + 1 = p + 2
      BY <1>8
    <2> QED
      BY <1>4, <2>1, <2>2, <2>3
  <1> DEFINE f == e - p + 4
  <1>13. EmptyAt(t, f)
    <2>1. f \in Nat /\ f + 4 <= Len(t)
      BY <1>1, <1>8, <1>10, <1>12
    <2>2. /\ msg[e + 1] = "CR" /\ msg[e + 2] = "LF"
          /\ msg[e + 3] = "CR" /\ msg[e + 4] = "LF"
      BY <1>3 DEF EmptyAt
    <2>3. CASE e = p
      <3>1. f + 1 = 5 /\ f + 2 = 6 /\ f + 3 = 7 /\ f + 4 = 8
            /\ 7 \in 7 .. n - p + 4 /\ 8 \in 7 .. n - p + 4
            /\ 7 + p - 4 = e + 3 /\ 8 + p - 4 = e + 4
        BY <1>1, <1>8, <2>3
      <3>2. t[7] = msg[e + 3] /\ t[8] = msg[e + 4]
        BY <1>10, <3>1
      <3> HIDE DEF f
      <3> QED
        BY <1>11, <2>1, <2>2, <3>1, <3>2 DEF EmptyAt
    <2>4. CASE e # p
      <3>1. \A i \in 1 .. 4 : f + i \in 7 .. n - p + 4 /\ (f + i) + p - 4 = e + i
        BY <1>1, <1>8, <1>12, <2>4
      <3>2. \A i \in 1 .. 4 : t[f + i] = msg[e + i]
        BY <1>10, <3>1
      <3>3. 1 \in 1 .. 4 /\ 2 \in 1 .. 4 /\ 3 \in 1 .. 4 /\ 4 \in 1 .. 4
        OBVIOUS
      <3>4. /\ t[f + 1] = msg[e + 1] /\ t[f + 2] = msg[e + 2]
            /\ t[f + 3] = msg[e + 3] /\ t[f + 4] = msg[e + 4]
        BY <3>2, <3>3
      <3> HIDE DEF f
      <3> QED
        BY <2>1, <2>2, <3>4 DEF EmptyAt
    <2> QED
      BY <2>3, <2>4
  <1>14. ASSUME NEW q, EmptyAt(t, q) PROVE f <= q
    <2>1. q \in Nat /\ q + 4 <= n - p + 4
          /\ t[q + 1] = "CR" /\ t[q + 2] = "LF" /\ t[q + 3] = "CR" /\ t[q + 4] = "LF"
      BY <1>10, <1>14 DEF EmptyAt
    <2>2. q \notin {0, 1, 2, 3, 5}
      <3>1. q # 0 /\ q # 2
        BY <1>11, <2>1
      <3>2. q # 1 /\ q # 3
        BY <1>11, <2>1
      <3>3. q # 5
        BY <1>11, <2>1
      <3> QED
        BY <3>1, <3>2, <3>3
    <2>3. CASE q = 4
      <3>1. q + 3 = 7 /\ q + 4 = 8 /\ 7 \in 7 .. n - p + 4 /\ 8 \in 7 .. n - p + 4
            /\ 7 + p - 4 = p + 3 /\ 8 + p - 4 = p + 4 /\ p + 4 <= n
        BY <1>1, <1>8, <2>1, <2>3
      <3>2. msg[p + 3] = "CR" /\ msg[p + 4] = "LF"
        BY <1>10, <2>1, <3>1
      <3>3. EmptyAt(msg, p)
        BY <1>4, <1>8, <3>1, <3>2 DEF EmptyAt, EndAt, n
      <3>4. e <= p
        BY <1>3, <3>3
      <3> QED
        BY <1>8, <1>12, <2>3, <3>4
    <2>4. CASE q >= 6
      <3> DEFINE m == q + p - 4
      <3>1. m \in Nat /\ m + 4 <= n
            /\ \A i \in 1 .. 4 : q + i \in 7 .. n - p + 4 /\ (q + i) + p - 4 = m + i
        BY <1>1, <1>8, <2>1, <2>4
      <3>2. \A i \in 1 .. 4 : t[q + i] = msg[m + i]
        BY <1>10, <3>1
      <3>3. 1 \in 1 .. 4 /\ 2 \in 1 .. 4 /\ 3 \in 1 .. 4 /\ 4 \in 1 .. 4
        OBVIOUS
      <3>4. /\ t[q + 1] = msg[m + 1] /\ t[q + 2] = msg[m + 2]
            /\ t[q + 3] = msg[m + 3] /\ t[q + 4] = msg[m + 4]
        BY <3>2, <3>3
      <3> HIDE DEF m
      <3>5. EmptyAt(msg, m)
        BY <2>1, <3>1, <3>4 DEF EmptyAt, n
      <3>6. e <= m
        BY <1>3, <3>5
      <3> QED
        BY <1>8, <2>1, <3>6 DEF m
    <2>5. q \in {0, 1, 2, 3, 5} \/ q = 4 \/ q >= 6
      BY <2>1
    <2> QED
      BY <2>2, <2>3, <2>4, <2>5
  <1>15. find(t, EmptyLine) = f
    <2> DEFINE g == find(t, EmptyLine)
    <2>1. Found(t, EmptyLine) # {}
      BY <1>6, <1>13, LinesFound
    <2>2. EmptyAt(t, g) /\ \A q : EmptyAt(t, q) => g <= q
      BY <1>2, <1>6, <2>1, FindFound, LinesFound
    <2> HIDE DEF g
    <2>3. g <= f /\ f <= g
      BY <1>13, <1>14, <2>2
    <2>4. g \in Nat /\ f \in Nat
      BY <1>13, <2>2 DEF EmptyAt
    <2> HIDE DEF f
    <2>5. g = f
      BY <2>3, <2>4
    <2> QED
      BY <2>5 DEF g
  <1>16. Len(After(t, f + 4)) = n - (e + 4)
    <2>1. f + 4 \in 0 .. Len(t) /\ Len(t) - (f + 4) = n - (e + 4)
      BY <1>1, <1>8, <1>10, <1>12
    <2> HIDE DEF f
    <2>2. Len(After(t, f + 4)) = Len(t) - (f + 4)
      BY <1>6, <2>1, Pieces
    <2> QED
      BY <2>1, <2>2
  <1> QED
    BY <1>5, <1>15, <1>16 DEF t

-----------------------------------------------------------------------------
(***************************************************************************)
(* The invariant, half by half.                                            *)
(***************************************************************************)

InputType ==
  /\ content.body \in Seq(Byte) /\ requestBody \in Seq(Byte)
  /\ stdin \in Seq(Byte) /\ input \in Seq(Byte)
  /\ chunkedEnd \in BOOLEAN /\ wr \in BOOLEAN /\ eof \in BOOLEAN /\ writeIndex \in Nat

OutputType ==
  /\ content.output \in Seq(Byte) /\ output \in Seq(Byte)
  /\ stdout \in Seq(Byte) /\ responseBuffer \in Seq(Byte)
  /\ exited \in BOOLEAN /\ missed \in BOOLEAN /\ rd \in BOOLEAN

AnswerType ==
  /\ response \in [text : Seq(Sent), length : Nat]
  /\ sent \in Seq(Sent) /\ sendIndex \in Nat
  /\ phase \in {"reading", "writing", "next", "closed", "lost"}

LEMMA TypeInHalves ==
  TypeOK <=> /\ content \in [body : Bodies, output : Outputs]
             /\ InputType /\ OutputType /\ AnswerType
  BY ContentAssumption DEF TypeOK, InputType, OutputType, AnswerType

LEMMA InitHolds == Init => RelayInv
  <1> SUFFICES ASSUME Init PROVE RelayInv
    OBVIOUS
  <1>1. content \in [body : Bodies, output : Outputs]
        /\ content.body \in Seq(Byte) /\ content.output \in Seq(Byte)
    BY ContentAssumption DEF Init
  <1>2. /\ <<>> \in Seq(Byte) /\ Len(<<>>) = 0
        /\ Upto(content.body, 0) = <<>> /\ Upto(content.output, 0) = <<>>
        /\ Upto(<<>>, 0) = <<>> /\ <<>> \o <<>> = <<>>
    BY <1>1, SubSeqEmpty DEF Upto
  <1>3. NoResponse \in [text : Seq(Sent), length : Nat] /\ NoResponse.text = <<>>
        /\ <<>> \in Seq(Sent)
    BY DEF NoResponse
  <1>4. InputType /\ OutputType /\ AnswerType
    BY <1>1, <1>2, <1>3 DEF Init, InputType, OutputType, AnswerType
  <1>5. InputInv
    BY <1>2 DEF Init, InputInv, InputAccounted, ClosedAtEnd
  <1>6. OutputInv
    BY <1>2 DEF Init, OutputInv
  <1>7. AnswerInv
    BY <1>2, <1>3 DEF Init, AnswerInv
  <1> QED
    BY <1>1, <1>4, <1>5, <1>6, <1>7, TypeInHalves DEF RelayInv

\* More of the body: nothing that was written to the program changes.
LEMMA ReceiveHolds ==
  ASSUME InputType, InputInv, NEW n \in 0 .. Len(content.body), NEW end \in BOOLEAN,
         Receive(n, end)
  PROVE  /\ (InputType /\ InputInv)'
         /\ requestBody = Upto(requestBody', Len(requestBody))
         /\ Len(requestBody) <= Len(requestBody')
  <1> DEFINE body == content.body
  <1>1. /\ requestBody' = Upto(body, n) /\ n >= Len(requestBody) /\ ~chunkedEnd
        /\ chunkedEnd' = end /\ end => n = Len(body)
        /\ UNCHANGED <<content, writeIndex, stdin, wr, input, eof>>
    BY DEF Receive
  <1>2. /\ body \in Seq(Byte) /\ Len(body) \in Nat /\ n \in 0 .. Len(body)
        /\ requestBody \in Seq(Byte) /\ Len(requestBody) \in 0 .. n /\ writeIndex \in Nat
    BY <1>1 DEF InputType
  <1> HIDE DEF body
  <1>3. requestBody' \in Seq(Byte) /\ Len(requestBody') = n
    BY <1>1, <1>2, Pieces
  <1>4. requestBody = Upto(body, Len(requestBody)) /\ writeIndex <= Len(requestBody)
        /\ input \o stdin = Upto(requestBody, writeIndex)
        /\ wr /\ ~eof
    BY <1>1, <1>2 DEF InputInv, InputAccounted, ClosedAtEnd, body, InputType
  <1>5. Upto(requestBody', Len(requestBody)) = requestBody
    BY <1>1, <1>2, <1>4, UptoUpto
  <1>6. writeIndex \in 0 .. Len(requestBody) /\ Len(requestBody) \in 0 .. Len(requestBody')
    BY <1>2, <1>3, <1>4
  <1>7. Upto(Upto(requestBody', Len(requestBody)), writeIndex) = Upto(requestBody', writeIndex)
    BY <1>3, <1>6, UptoUpto
  <1>8. input \o stdin = Upto(requestBody', writeIndex)
    BY <1>4, <1>5, <1>7
  <1>9. InputType'
    <2>1. content'.body = content.body /\ chunkedEnd' \in BOOLEAN
      BY Zenon DEF Receive
    <2> QED
      BY <1>1, <1>3, <2>1 DEF InputType
  <1>10. InputInv'
    BY <1>1, <1>2, <1>3, <1>4, <1>6, <1>8 DEF InputInv, InputAccounted, ClosedAtEnd, body
  <1> QED
    BY <1>5, <1>6, <1>9, <1>10

LEMMA writePipeHolds ==
  ASSUME InputType, InputInv, writePipe
  PROVE  (InputType /\ InputInv)'
  <1>1. /\ wr /\ UNCHANGED <<content, requestBody, chunkedEnd, input, eof>>
        /\ requestBody \in Seq(Byte) /\ Len(requestBody) \in Nat /\ writeIndex \in Nat
        /\ stdin \in Seq(Byte) /\ input \in Seq(Byte) /\ Len(stdin) \in Nat
        /\ ~eof
    BY DEF writePipe, InputType, InputInv
  <1>2. CASE writeIndex < Len(requestBody)
    <2>0. writeIndex # Len(requestBody)
      BY <1>1, <1>2
    <2>1. PICK n \in 1 .. PipeSize - Len(stdin) :
            /\ n <= Len(requestBody) - writeIndex
            /\ stdin' = stdin \o SubSeq(requestBody, writeIndex + 1, writeIndex + n)
            /\ writeIndex' = writeIndex + n
            /\ wr' = wr
      BY <2>0, Zenon DEF writePipe, advanced
    <2> DEFINE piece == SubSeq(requestBody, writeIndex + 1, writeIndex + n)
    <2>2. n \in Nat /\ n >= 1 /\ writeIndex + n \in Nat /\ writeIndex + n <= Len(requestBody)
      BY <1>1, <2>1, PipeSizeAssumption
    <2>3. piece \in Seq(Byte) /\ Upto(requestBody, writeIndex) \o piece
                                   = Upto(requestBody, writeIndex + n)
      BY <1>1, <2>2, NextPiece, ZenonT(60)
    <2>4. stdin' = stdin \o piece
      BY <2>1
    <2> HIDE DEF piece
    <2>5. stdin' \in Seq(Byte)
      BY <1>1, <2>3, <2>4, ConcatProperties
    <2>6. input \o stdin' = (input \o stdin) \o piece
      <3>1. input \in Seq(Byte) /\ stdin \in Seq(Byte) /\ piece \in Seq(Byte)
        BY <1>1, <2>3
      <3>2. (input \o stdin) \o piece = input \o (stdin \o piece)
        BY <3>1, ConcatAssociative, SMTT(60)
      <3> QED
        BY <2>4, <3>2
    <2>7. input \o stdin' = Upto(requestBody, writeIndex + n)
      BY <2>3, <2>6 DEF InputInv, InputAccounted
    <2>8. InputType'
      BY <1>1, <2>1, <2>2, <2>5 DEF InputType
    <2>9. InputInv'
      BY <1>1, <2>1, <2>2, <2>7 DEF InputInv, InputAccounted, ClosedAtEnd
    <2> QED
      BY <2>8, <2>9
  <1>3. CASE writeIndex >= Len(requestBody)
    <2>0. ~(writeIndex < Len(requestBody))
      BY <1>1, <1>3
    <2>1. wr' = ~BodyWritten /\ UNCHANGED <<stdin, writeIndex>>
      BY <2>0, Zenon DEF writePipe
    <2>2. InputType'
      BY <1>1, <2>1 DEF InputType, BodyWritten
    <2>3. InputInv'
      BY <1>1, <2>1 DEF InputInv, InputAccounted, ClosedAtEnd, BodyWritten
    <2> QED
      BY <2>2, <2>3
  <1> QED
    BY <1>1, <1>2, <1>3

\* The program reads what is next, or the end when there is no more.
LEMMA ProgramReadsHolds ==
  ASSUME InputType, InputInv, ProgramReads
  PROVE  /\ (InputType /\ InputInv)'
         /\ ~eof /\ UNCHANGED <<requestBody, chunkedEnd>>
         /\ \/ /\ eof' = eof
               /\ \E m \in Len(input) .. Len(requestBody) : input' = Upto(requestBody, m)
            \/ /\ chunkedEnd /\ eof' = TRUE /\ input' = requestBody
  <1>1. /\ UNCHANGED <<content, requestBody, chunkedEnd, writeIndex, wr>> /\ ~eof
        /\ requestBody \in Seq(Byte) /\ Len(requestBody) \in Nat
        /\ stdin \in Seq(Byte) /\ input \in Seq(Byte) /\ Len(stdin) \in Nat
        /\ writeIndex \in 0 .. Len(requestBody) /\ input \o stdin = Upto(requestBody, writeIndex)
    BY DEF ProgramReads, InputType, InputInv, InputAccounted
  <1>2. CASE stdin # <<>>
    <2>1. PICK n \in 1 .. Len(stdin) :
            /\ input' = input \o Upto(stdin, n) /\ stdin' = After(stdin, n) /\ eof' = eof
      BY <1>1, <1>2 DEF ProgramReads
    <2>2. n \in 0 .. Len(stdin)
      BY <1>1
    <2>3. /\ input' \in Seq(Byte) /\ stdin' \in Seq(Byte)
          /\ input' \o stdin' = input \o stdin
          /\ Len(input') = Len(input) + n
      <3>1. input \in Seq(Byte) /\ stdin \in Seq(Byte)
        BY <1>1
      <3>2. /\ input \o Upto(stdin, n) \in Seq(Byte) /\ After(stdin, n) \in Seq(Byte)
            /\ (input \o Upto(stdin, n)) \o After(stdin, n) = input \o stdin
            /\ Len(input \o Upto(stdin, n)) = Len(input) + n
        BY <2>2, <3>1, Moved, ZenonT(60)
      <3> QED
        BY <2>1, <3>2
    <2>4. InputType'
      BY <1>1, <2>1, <2>3 DEF InputType
    <2>5. InputInv'
      BY <1>1, <2>1, <2>3 DEF InputInv, InputAccounted, ClosedAtEnd
    <2>6. \E m \in Len(input) .. Len(requestBody) : input' = Upto(requestBody, m)
      <3>1. /\ Len(input') \in 0 .. Len(input' \o stdin')
            /\ input' = Upto(input' \o stdin', Len(input'))
        BY <2>3, FirstPart
      <3>2. Len(Upto(requestBody, writeIndex)) = writeIndex
        BY <1>1, Pieces
      <3>3. Len(input') \in 0 .. writeIndex /\ input' = Upto(Upto(requestBody, writeIndex), Len(input'))
        BY <1>1, <2>3, <3>1, <3>2
      <3>4. input' = Upto(requestBody, Len(input'))
        BY <1>1, <3>3, UptoUpto
      <3>5. Len(input) \in Nat
        BY <1>1
      <3>6. Len(input') \in Len(input) .. Len(requestBody)
        BY <1>1, <2>1, <2>3, <3>3, <3>5
      <3> QED
        BY <3>4, <3>6
    <2> QED
      BY <1>1, <2>1, <2>4, <2>5, <2>6
  <1>3. CASE stdin = <<>>
    <2>1. ~wr /\ eof' = TRUE /\ UNCHANGED <<input, stdin>>
      BY <1>1, <1>3 DEF ProgramReads
    <2>2. chunkedEnd /\ writeIndex = Len(requestBody)
      BY <2>1 DEF InputInv, ClosedAtEnd
    <2>3. input \o stdin = input
      BY <1>1, <1>3, ConcatEmptySeq
    <2>4. Upto(requestBody, Len(requestBody)) = requestBody
      BY <1>1, SubSeqFull DEF Upto
    <2>5. input = requestBody
      BY <1>1, <2>2, <2>3, <2>4
    <2>6. InputType'
      BY <1>1, <2>1 DEF InputType
    <2>7. InputInv'
      BY <1>1, <1>3, <2>1 DEF InputInv, InputAccounted, ClosedAtEnd
    <2> QED
      BY <1>1, <2>1, <2>2, <2>5, <2>6, <2>7
  <1> QED
    BY <1>2, <1>3

\* The program writes what is next of its output.
LEMMA ProgramWritesHolds ==
  ASSUME OutputType, OutputInv, ProgramWrites
  PROVE  /\ (OutputType /\ OutputInv)'
         /\ output = Upto(output', Len(output)) /\ Len(output) <= Len(output')
  <1> DEFINE all == content.output
  <1>1. PICK n \in 1 .. PipeSize - Len(stdout) :
          /\ Len(output) + n <= Len(all)
          /\ output' = Upto(all, Len(output) + n)
          /\ stdout' = stdout \o SubSeq(all, Len(output) + 1, Len(output) + n)
    BY Zenon DEF ProgramWrites
  <1>2. /\ all \in Seq(Byte) /\ Len(all) \in Nat /\ output \in Seq(Byte) /\ Len(output) \in Nat
        /\ stdout \in Seq(Byte) /\ responseBuffer \in Seq(Byte) /\ Len(stdout) \in Nat
    BY DEF OutputType
  <1>3. n \in Nat /\ n >= 1 /\ Len(output) + n \in 0 .. Len(all) /\ Len(output) \in 0 .. Len(output) + n
    BY <1>1, <1>2, PipeSizeAssumption
  <1> DEFINE piece == SubSeq(all, Len(output) + 1, Len(output) + n)
  <1>4. piece \in Seq(Byte) /\ Upto(all, Len(output)) \o piece = Upto(all, Len(output) + n)
    <2>1. all \in Seq(Byte) /\ Len(output) \in Nat /\ n \in Nat /\ Len(output) + n <= Len(all)
      BY <1>1, <1>2, <1>3
    <2> HIDE DEF all
    <2> QED
      BY <2>1, NextPiece
  <1>5. output' \in Seq(Byte) /\ Len(output') = Len(output) + n
    BY <1>1, <1>2, <1>3, Pieces
  <1>6. stdout' = stdout \o piece
    BY <1>1
  <1>7. /\ ~exited /\ output = Upto(all, Len(output)) /\ responseBuffer \o stdout = output
        /\ rd
    BY DEF ProgramWrites, OutputInv
  <1>8. UNCHANGED <<content, exited, missed, rd, responseBuffer>>
    BY DEF ProgramWrites
  <1> HIDE DEF piece, all
  <1>9. stdout' \in Seq(Byte)
    BY <1>2, <1>4, <1>6, ConcatProperties
  <1>10. responseBuffer \o stdout' = output'
    <2>1. (responseBuffer \o stdout) \o piece = responseBuffer \o (stdout \o piece)
      <3>1. responseBuffer \in Seq(Byte) /\ stdout \in Seq(Byte) /\ piece \in Seq(Byte)
        BY <1>2, <1>4
      <3> QED
        BY <3>1, ConcatAssociative, SMTT(60)
    <2> QED
      BY <1>1, <1>4, <1>6, <1>7, <2>1
  <1>11. Upto(output', Len(output)) = Upto(all, Len(output))
    BY <1>1, <1>2, <1>3, UptoUpto
  <1>12. OutputType'
    BY <1>5, <1>8, <1>9 DEF OutputType
  <1>13. OutputInv'
    BY <1>1, <1>5, <1>7, <1>8, <1>10 DEF OutputInv, all
  <1> QED
    BY <1>2, <1>3, <1>5, <1>7, <1>11, <1>12, <1>13

LEMMA ProgramExitsHolds ==
  ASSUME OutputType, OutputInv, ProgramExits
  PROVE  (OutputType /\ OutputInv)' /\ output' = output
  BY DEF ProgramExits, OutputType, OutputInv

\* What readPipe does with the pipe.
LEMMA readPipeHolds ==
  ASSUME OutputType, OutputInv, readPipe
  PROVE  /\ (OutputType /\ OutputInv)'
         /\ rd /\ UNCHANGED <<output, exited>>
         /\ \/ /\ rd' = rd /\ response' = response
               /\ \E m \in Len(responseBuffer) .. Len(output) : responseBuffer' = Upto(output, m)
            \/ /\ exited /\ rd' = FALSE /\ responseBuffer' = output
               /\ response' = Response(content.output)
  <1>1. /\ UNCHANGED <<content, output, exited, missed>> /\ rd
        /\ output \in Seq(Byte) /\ Len(output) \in Nat
        /\ stdout \in Seq(Byte) /\ responseBuffer \in Seq(Byte) /\ Len(stdout) \in Nat
        /\ responseBuffer \o stdout = output
    BY DEF readPipe, OutputType, OutputInv
  <1>2. CASE stdout # <<>>
    <2>1. PICK n \in 1 .. Len(stdout) :
            /\ responseBuffer' = responseBuffer \o Upto(stdout, n)
            /\ stdout' = After(stdout, n)
            /\ rd' = rd /\ response' = response
      BY <1>2, Zenon DEF readPipe, readSoFar
    <2>2. n \in 0 .. Len(stdout) /\ n \in Nat
      BY <1>1
    <2>3. /\ responseBuffer' \in Seq(Byte) /\ stdout' \in Seq(Byte)
          /\ responseBuffer' \o stdout' = responseBuffer \o stdout
          /\ Len(responseBuffer') = Len(responseBuffer) + n
      <3>1. responseBuffer \in Seq(Byte) /\ stdout \in Seq(Byte)
        BY <1>1
      <3>2. /\ responseBuffer \o Upto(stdout, n) \in Seq(Byte) /\ After(stdout, n) \in Seq(Byte)
            /\ (responseBuffer \o Upto(stdout, n)) \o After(stdout, n) = responseBuffer \o stdout
            /\ Len(responseBuffer \o Upto(stdout, n)) = Len(responseBuffer) + n
        BY <2>2, <3>1, Moved, ZenonT(60)
      <3> QED
        BY <2>1, <3>2
    <2>4. OutputType'
      BY <1>1, <2>1, <2>3 DEF OutputType
    <2>5. OutputInv'
      BY <1>1, <2>1, <2>3 DEF OutputInv
    <2>6. \E m \in Len(responseBuffer) .. Len(output) : responseBuffer' = Upto(output, m)
      <3>1. /\ Len(responseBuffer') \in 0 .. Len(responseBuffer' \o stdout')
            /\ responseBuffer' = Upto(responseBuffer' \o stdout', Len(responseBuffer'))
        BY <2>3, FirstPart
      <3>2. Len(responseBuffer) \in Nat
        BY <1>1
      <3>3. Len(responseBuffer') \in Len(responseBuffer) .. Len(output)
        BY <1>1, <2>2, <2>3, <3>1, <3>2
      <3> QED
        BY <1>1, <2>3, <3>1, <3>3
    <2> QED
      BY <1>1, <2>1, <2>4, <2>5, <2>6
  <1>3. CASE stdout = <<>>
    <2>1. /\ exited /\ rd' = FALSE /\ response' = Response(responseBuffer)
          /\ UNCHANGED <<responseBuffer, stdout>>
      BY <1>3, Zenon DEF readPipe
    <2>2. responseBuffer \o stdout = responseBuffer
      BY <1>1, <1>3, ConcatEmptySeq
    <2>3. responseBuffer = output /\ output = content.output
      BY <1>1, <2>1, <2>2 DEF OutputInv
    <2>4. OutputType'
      BY <1>1, <2>1 DEF OutputType
    <2>5. OutputInv'
      BY <1>1, <1>3, <2>1 DEF OutputInv
    <2> QED
      BY <1>1, <2>1, <2>3, <2>4, <2>5
  <1> QED
    BY <1>2, <1>3

\* Sending, which takes the response piece by piece.
LEMMA sendDataHolds ==
  ASSUME AnswerType, AnswerInv, rd \in BOOLEAN, sendData
  PROVE  /\ (AnswerType /\ AnswerInv)'
         /\ UNCHANGED <<response, rd>> /\ phase = "writing"
         /\ \/ /\ phase' # "next"
               /\ \E m \in Len(sent) .. Len(response.text) : sent' = Upto(response.text, m)
            \/ /\ ~rd /\ phase' = "next" /\ sent' = response.text
  <1> DEFINE text == response.text
  <1>1. /\ phase = "writing" /\ UNCHANGED <<response, rd>>
        /\ text \in Seq(Sent) /\ Len(text) \in Nat /\ sendIndex \in Nat /\ sent \in Seq(Sent)
        /\ sendIndex <= Len(text) /\ sent = Upto(text, sendIndex)
        /\ sendIndex = 0 \/ sendIndex < Len(text)
        /\ rd => response = NoResponse
    BY DEF sendData, outputVars, AnswerType, AnswerInv
  <1>2. Len(sent) = sendIndex
    BY <1>1, Pieces
  <1>3. CASE sendIndex < Len(text)
    <2>0. sendIndex # Len(text)
      BY <1>1, <1>3
    <2>1. PICK n \in 1 .. Len(text) - sendIndex :
            /\ sent' = sent \o SubSeq(text, sendIndex + 1, sendIndex + n)
            /\ sendIndex' = sendIndex + n
            /\ phase' = IF sendIndex + n = Len(text) THEN "next" ELSE phase
      BY <2>0, Zenon DEF sendData, moved
    <2>2. n \in Nat /\ n >= 1 /\ sendIndex + n <= Len(text) /\ sendIndex + n \in 0 .. Len(text)
      BY <1>1
    <2>3. ~rd
      BY <1>1, <1>3 DEF NoResponse
    <2>4. Upto(text, sendIndex) \o SubSeq(text, sendIndex + 1, sendIndex + n)
            = Upto(text, sendIndex + n)
      BY <1>1, <2>2, NextPiece
    <2>5. sent' = Upto(text, sendIndex + n) /\ sent' \in Seq(Sent)
      <3>1. Upto(text, sendIndex + n) \in Seq(Sent)
        BY <1>1, <2>2, Pieces
      <3> QED
        BY <1>1, <2>1, <2>4, <3>1
    <2>6. Upto(text, Len(text)) = text
      BY <1>1, SubSeqFull DEF Upto
    <2>7. AnswerType'
      BY <1>1, <2>1, <2>2, <2>5 DEF AnswerType
    <2>8. AnswerInv'
      <3>1. response'.text = text /\ sendIndex' = sendIndex + n /\ ~rd'
        BY <1>1, <2>1, <2>3
      <3>2. sendIndex' <= Len(text) /\ sent' = Upto(text, sendIndex')
        BY <2>2, <2>5, <3>1
      <3>3. /\ phase' \in {"writing", "next"}
            /\ phase' = "writing" => sendIndex' < Len(text)
            /\ phase' = "next" => sendIndex' = Len(text)
        BY <1>1, <2>1, <2>2, <3>1, SMTT(60)
      <3> HIDE DEF text
      <3> QED
        BY <3>1, <3>2, <3>3 DEF AnswerInv
    <2>9. CASE sendIndex + n = Len(text)
      BY <1>1, <2>1, <2>3, <2>5, <2>6, <2>7, <2>8, <2>9
    <2>10. CASE sendIndex + n # Len(text)
      <3>1. sendIndex + n \in Len(sent) .. Len(text)
        BY <1>1, <1>2, <2>2
      <3>2. phase' # "next"
        BY <1>1, <2>1, <2>10
      <3> QED
        BY <1>1, <2>5, <2>7, <2>8, <3>1, <3>2
    <2> QED
      BY <2>9, <2>10
  <1>4. CASE sendIndex = Len(text)
    <2>0. ~(sendIndex < Len(text)) /\ sendIndex = 0
      BY <1>1, <1>4
    <2>1. phase' = "closed" /\ UNCHANGED <<sent, sendIndex>>
      BY <2>0, Zenon DEF sendData
    <2>2. AnswerType'
      BY <1>1, <2>1 DEF AnswerType
    <2>3. AnswerInv'
      BY <1>1, <2>0, <2>1 DEF AnswerInv
    <2>4. sendIndex \in Len(sent) .. Len(text)
      BY <1>1, <1>2
    <2> QED
      BY <1>1, <2>1, <2>2, <2>3, <2>4
  <1> QED
    BY <1>1, <1>3, <1>4

\* The response is set when nothing has been sent.
LEMMA ResponseSet ==
  ASSUME AnswerType, AnswerInv, rd, UNCHANGED <<sendIndex, sent, phase>>,
         \/ rd' = rd /\ response' = response
         \/ rd' = FALSE /\ response' \in [text : Seq(Sent), length : Nat]
  PROVE  /\ (AnswerType /\ AnswerInv)'
         /\ sent = <<>> /\ response.text = <<>> /\ phase # "next"
         /\ response'.text \in Seq(Sent)
  <1>1. /\ response.text = <<>> /\ Len(response.text) = 0 /\ sendIndex = 0
        /\ sent = Upto(<<>>, 0) /\ phase # "next"
    BY DEF AnswerType, AnswerInv, NoResponse
  <1>2. sent = <<>>
    BY <1>1, SubSeqEmpty DEF Upto
  <1>3. response' \in [text : Seq(Sent), length : Nat]
    BY DEF AnswerType
  <1>4. Upto(response'.text, 0) = <<>> /\ Len(response'.text) \in Nat
    BY <1>3, SubSeqEmpty DEF Upto
  <1>5. AnswerType'
    BY <1>3 DEF AnswerType
  <1>6. AnswerInv'
    <2>1. sent' = Upto(response'.text, 0) /\ sendIndex' = 0 /\ phase' = phase
      BY <1>1, <1>2, <1>4
    <2>2. rd' => response' = NoResponse
      BY DEF AnswerInv
    <2> QED
      BY <1>1, <1>4, <2>1, <2>2 DEF AnswerInv
  <1> QED
    BY <1>1, <1>2, <1>3, <1>5, <1>6

-----------------------------------------------------------------------------
(***************************************************************************)
(* Every step of the program is a step of each relay or leaves it alone.   *)
(***************************************************************************)

LEMMA InputStep ==
  ASSUME InputType, InputInv, [Next]_vars
  PROVE  (InputType /\ InputInv)' /\ [Input!Next]_(Input!vars)
  <1> USE DEF Input!Next, Input!vars
  <1>1. CASE \E n \in 0 .. Len(content.body), end \in BOOLEAN : Receive(n, end)
    <2>1. PICK n \in 0 .. Len(content.body), end \in BOOLEAN : Receive(n, end)
      BY <1>1
    <2>2. /\ (InputType /\ InputInv)'
          /\ requestBody = Upto(requestBody', Len(requestBody))
          /\ Len(requestBody) <= Len(requestBody')
      BY <2>1, ReceiveHolds
    <2>3. ~chunkedEnd /\ chunkedEnd' \in BOOLEAN /\ UNCHANGED <<input, eof>>
      BY <2>1, Zenon DEF Receive
    <2>4. Input!Put
      BY <2>2, <2>3 DEF Input!Put, Upto
    <2> QED
      BY <2>2, <2>4
  <1>2. CASE writePipe
    <2>1. UNCHANGED <<requestBody, chunkedEnd, input, eof>>
      BY <1>2 DEF writePipe
    <2> QED
      BY <1>2, <2>1, writePipeHolds
  <1>3. CASE ProgramReads
    <2>1. /\ (InputType /\ InputInv)'
          /\ ~eof /\ UNCHANGED <<requestBody, chunkedEnd>>
          /\ \/ /\ eof' = eof
                /\ \E m \in Len(input) .. Len(requestBody) : input' = Upto(requestBody, m)
             \/ /\ chunkedEnd /\ eof' = TRUE /\ input' = requestBody
      BY <1>3, ProgramReadsHolds
    <2>2. Input!Take \/ Input!End
      BY <2>1, Zenon DEF Input!Take, Input!End, Upto
    <2> QED
      BY <2>1, <2>2
  <1>4. CASE UNCHANGED <<content, inputVars>>
    BY <1>4 DEF inputVars, InputType, InputInv, InputAccounted, ClosedAtEnd
  <1>5. CASE readPipe \/ handleEndProcess \/ MissExit \/ sendData \/ CleanUpClientResources
             \/ ProgramWrites \/ ProgramExits
             \/ UNCHANGED vars
    <2>1. UNCHANGED <<content, inputVars>>
      BY <1>5 DEF readPipe, handleEndProcess, MissExit, sendData, CleanUpClientResources,
                  ProgramWrites, ProgramExits, vars, inputVars
    <2> QED
      BY <1>4, <2>1
  <1> QED
    BY <1>1, <1>2, <1>3, <1>5 DEF Next, Loop, Program, Peer

LEMMA OutputStep ==
  ASSUME OutputType, OutputInv, [Next]_vars
  PROVE  (OutputType /\ OutputInv)' /\ [Output!Next]_(Output!vars)
  <1> USE DEF Output!Next, Output!vars
  <1>1. CASE ProgramWrites
    <2>1. /\ (OutputType /\ OutputInv)'
          /\ output = Upto(output', Len(output)) /\ Len(output) <= Len(output')
      BY <1>1, ProgramWritesHolds
    <2>2. ~exited /\ exited' \in BOOLEAN /\ UNCHANGED <<responseBuffer, rd>>
      BY <1>1, Zenon DEF ProgramWrites, OutputType, outputVars
    <2>3. Output!Put
      BY <2>1, <2>2 DEF Output!Put, Upto
    <2> QED
      BY <2>1, <2>3
  <1>2. CASE ProgramExits
    <2>1. (OutputType /\ OutputInv)' /\ output' = output
      BY <1>2, ProgramExitsHolds
    <2>2. ~exited /\ exited' = TRUE /\ UNCHANGED <<responseBuffer, rd>>
      BY <1>2 DEF ProgramExits
    <2>3. output \in Seq(Byte) /\ Len(output) \in Nat
      BY DEF OutputType
    <2>4. SubSeq(output, 1, Len(output)) = output
      BY <2>3, SubSeqFull
    <2>5. Output!Put
      BY <2>1, <2>2, <2>3, <2>4 DEF Output!Put
    <2> QED
      BY <2>1, <2>5
  <1>3. CASE readPipe
    <2>1. /\ (OutputType /\ OutputInv)'
          /\ rd /\ UNCHANGED <<output, exited>>
          /\ \/ /\ rd' = rd
                /\ \E m \in Len(responseBuffer) .. Len(output) : responseBuffer' = Upto(output, m)
             \/ /\ exited /\ rd' = FALSE /\ responseBuffer' = output
      BY <1>3, readPipeHolds
    <2>2. Output!Take \/ Output!End
      BY <2>1, Zenon DEF Output!Take, Output!End, Upto
    <2> QED
      BY <2>1, <2>2
  <1>4. CASE UNCHANGED <<content, output, exited, stdout, rd, responseBuffer>>
             /\ missed' \in BOOLEAN
    BY <1>4 DEF OutputType, OutputInv
  <1>5. CASE Peer \/ writePipe \/ ProgramReads \/ handleEndProcess \/ MissExit \/ sendData
             \/ CleanUpClientResources \/ UNCHANGED vars
    <2>1. UNCHANGED <<content, output, exited, stdout, rd, responseBuffer>>
      BY <1>5 DEF Peer, Receive, writePipe, ProgramReads, handleEndProcess, MissExit, sendData,
                  CleanUpClientResources, vars, outputVars
    <2>2. missed' = missed \/ missed' = TRUE
      BY <1>5 DEF Peer, Receive, writePipe, ProgramReads, handleEndProcess, MissExit, sendData,
                  CleanUpClientResources, vars, outputVars
    <2>3. missed' \in BOOLEAN
      BY <2>2 DEF OutputType
    <2> QED
      BY <1>4, <2>1, <2>3
  <1> QED
    BY <1>1, <1>2, <1>3, <1>5 DEF Next, Loop, Program

LEMMA AnswerStep ==
  ASSUME OutputType, OutputInv, AnswerType, AnswerInv, content.output \in Outputs, [Next]_vars
  PROVE  (AnswerType /\ AnswerInv)' /\ [Answer!Next]_(Answer!vars)
  <1> USE DEF Answer!Next, Answer!vars
  <1>1. CASE readPipe
    <2>1. /\ rd /\ \/ rd' = rd /\ response' = response
                   \/ rd' = FALSE /\ response' = Response(content.output)
      BY <1>1, readPipeHolds
    <2>2. Response(content.output) \in [text : Seq(Sent), length : Nat]
      BY ResponseType, HeaderAssumption DEF OutputType
    <2>3. UNCHANGED <<sendIndex, sent, phase>>
      BY <1>1 DEF readPipe, sendVars
    <2>4. /\ (AnswerType /\ AnswerInv)'
          /\ sent = <<>> /\ response.text = <<>> /\ phase # "next"
          /\ response'.text \in Seq(Sent)
      BY <2>1, <2>2, <2>3, ResponseSet
    <2>5. CASE rd' = rd /\ response' = response
      BY <2>3, <2>4, <2>5
    <2>6. CASE rd' = FALSE
      <3>1. SubSeq(response'.text, 1, 0) = <<>> /\ Len(response'.text) \in Nat /\ Len(<<>>) = 0
        BY <2>4, SubSeqEmpty
      <3>2. Answer!Put
        BY <2>1, <2>3, <2>4, <2>6, <3>1 DEF Answer!Put
      <3> QED
        BY <2>4, <3>2
    <2> QED
      BY <2>1, <2>5, <2>6
  <1>2. CASE sendData
    <2>1. rd \in BOOLEAN
      BY DEF OutputType
    <2>2. /\ (AnswerType /\ AnswerInv)'
          /\ UNCHANGED <<response, rd>> /\ phase = "writing"
          /\ \/ /\ phase' # "next"
                /\ \E m \in Len(sent) .. Len(response.text) : sent' = Upto(response.text, m)
             \/ /\ ~rd /\ phase' = "next" /\ sent' = response.text
      BY <1>2, <2>1, sendDataHolds
    <2>3. Answer!Take \/ Answer!End
      BY <2>2, Zenon DEF Answer!Take, Answer!End, Upto
    <2> QED
      BY <2>2, <2>3
  <1>3. CASE handleEndProcess
    <2>1. phase = "reading" /\ phase' = "writing" /\ UNCHANGED <<rd, response, sendIndex, sent>>
      BY <1>3 DEF handleEndProcess, outputVars
    <2>2. AnswerType' /\ AnswerInv'
      BY <2>1 DEF AnswerType, AnswerInv
    <2> QED
      BY <2>1, <2>2
  <1>4. CASE UNCHANGED <<rd, response, sendVars>>
    BY <1>4 DEF sendVars, AnswerType, AnswerInv
  <1>6. CASE CleanUpClientResources
    <2>1. /\ phase # "next" /\ phase' = "lost"
          /\ UNCHANGED <<rd, response, sendIndex, sent>>
      BY <1>6 DEF CleanUpClientResources, outputVars
    <2>2. AnswerType' /\ AnswerInv'
      BY <2>1 DEF AnswerType, AnswerInv
    <2> QED
      BY <2>1, <2>2
  <1>5. CASE Peer \/ writePipe \/ Program \/ MissExit \/ UNCHANGED vars
    <2>1. UNCHANGED <<rd, response, sendVars>>
      BY <1>5 DEF Peer, Receive, writePipe, Program, ProgramReads, ProgramWrites, ProgramExits,
                  MissExit, vars, outputVars, sendVars
    <2> QED
      BY <1>4, <2>1
  <1> QED
    BY <1>1, <1>2, <1>3, <1>5, <1>6 DEF Next, Loop

LEMMA NextHolds == RelayInv /\ [Next]_vars => RelayInv'
  <1> SUFFICES ASSUME RelayInv, [Next]_vars PROVE RelayInv'
    OBVIOUS
  <1>1. /\ content \in [body : Bodies, output : Outputs] /\ content.output \in Outputs
        /\ InputType /\ OutputType /\ AnswerType /\ InputInv /\ OutputInv /\ AnswerInv
    BY TypeInHalves DEF RelayInv
  <1>2. content' = content
    BY DEF Next, Loop, Program, Peer, Receive, writePipe, ProgramReads, ProgramWrites,
           ProgramExits, readPipe, handleEndProcess, MissExit, sendData,
           CleanUpClientResources, vars
  <1>3. (InputType /\ InputInv)' /\ (OutputType /\ OutputInv)' /\ (AnswerType /\ AnswerInv)'
    BY <1>1, InputStep, OutputStep, AnswerStep
  <1>4. TypeOK'
    BY <1>1, <1>2, <1>3, ContentAssumption DEF TypeOK, InputType, OutputType, AnswerType
  <1> QED
    BY <1>3, <1>4 DEF RelayInv

\* The inductive invariant of the way of a POST's bytes.
THEOREM RelayInvariant == Spec => []RelayInv
  BY InitHolds, NextHolds, PTL DEF Spec

\* No byte of a body is lost, doubled or reordered on the way to the program,
\* and requestBody.size() - _writeIndex never wraps around.
THEOREM NoInputLost == Spec => []InputAccounted
  <1>1. RelayInv => InputAccounted
    BY DEF RelayInv, InputInv
  <1> QED
    BY <1>1, RelayInvariant, PTL

\* The program's standard input is closed after the last byte of the body only.
THEOREM InputClosedAtEnd == Spec => []ClosedAtEnd
  <1>1. RelayInv => ClosedAtEnd
    BY DEF RelayInv, InputInv
  <1> QED
    BY <1>1, RelayInvariant, PTL

\* The response is that to all of the program's output, once it has ended; and a
\* connection closed for want of a response had not read the end.
Complete ==
  /\ ~rd => response = Response(content.output)
  /\ phase = "closed" => rd

LEMMA CompleteHolds == RelayInv /\ Complete /\ [Next]_vars => Complete'
  <1> SUFFICES ASSUME RelayInv, Complete, [Next]_vars PROVE Complete'
    OBVIOUS
  <1>1. CASE readPipe
    <2>1. content' = content /\ phase' = phase /\ phase # "closed"
      BY <1>1 DEF readPipe, sendVars, Live
    <2>2. CASE rd' = rd /\ response' = response
      BY <1>1, <2>1, <2>2 DEF readPipe, Complete
    <2>3. CASE stdout = <<>> /\ exited /\ response' = Response(responseBuffer) /\ rd' = FALSE
      <3>1. responseBuffer \o stdout = output /\ output = content.output
            /\ responseBuffer \in Seq(Byte)
        BY <2>3 DEF RelayInv, OutputInv, TypeOK
      <3>2. responseBuffer \o <<>> = responseBuffer
        BY <3>1, ConcatEmptySeq
      <3> QED
        BY <2>1, <2>3, <3>1, <3>2 DEF Complete
    <2> QED
      BY <1>1, <2>2, <2>3 DEF readPipe
  <1>2. CASE rd' = rd /\ response' = response /\ content' = content
             /\ (phase' = "closed" => phase = "closed")
    <2>1. PICK o : o = content.output
      OBVIOUS
    <2> QED
      BY <1>2 DEF Complete
  <1>3. CASE sendData
    <2>1. /\ rd' = rd /\ response' = response /\ content' = content /\ phase = "writing"
          /\ phase' = "closed" => sendIndex = Len(response.text)
      BY <1>3 DEF sendData, outputVars
    <2>2. CASE phase' = "closed"
      <3>1. sendIndex = Len(response.text) /\ response.text \in Seq(Sent)
        BY <2>1, <2>2 DEF RelayInv, TypeOK
      <3>2. Len(response.text) = 0
        BY <2>1, <3>1 DEF RelayInv, AnswerInv
      <3>4. ~rd => response = Response(content.output)
        BY DEF Complete
      <3>5. content.output \in Seq(Byte) /\ Found(content.output, EmptyLine) # {}
        <4>1. content.output \in Outputs
          BY TypeInHalves DEF RelayInv
        <4> QED
          BY <4>1, ContentAssumption, HeaderAssumption
      <3>6. rd
        BY <3>2, <3>4, <3>5, ResponseType
      <3> QED
        BY <2>1, <3>6 DEF Complete
    <2>3. CASE phase' # "closed"
      BY <1>2, <2>1, <2>3
    <2> QED
      BY <2>2, <2>3
  <1>4. CASE handleEndProcess \/ CleanUpClientResources
    BY <1>2, <1>4 DEF handleEndProcess, CleanUpClientResources, outputVars
  <1>5. [Next]_vars => readPipe \/ sendData \/ handleEndProcess \/ CleanUpClientResources
                       \/ (rd' = rd /\ response' = response /\ content' = content
                           /\ phase' = phase)
    BY DEF Next, Loop, Program, Peer, vars, outputVars, sendVars, writePipe, MissExit,
           ProgramReads, ProgramWrites, ProgramExits, Receive
  <1> QED
    BY <1>1, <1>2, <1>3, <1>4, <1>5

\* What the peer has been sent is the beginning of the answer to the whole output,
\* and all of it before the next request; part of it is sent only to a peer that is
\* then lost, and nothing where the exit is handled before the end of the output.
THEOREM AnswersFromOutput == Spec => []AnswerFromOutput
  <1>1. RelayInv /\ Complete => AnswerFromOutput
    <2> SUFFICES ASSUME RelayInv, Complete PROVE AnswerFromOutput
      OBVIOUS
    <2> DEFINE answer == Response(content.output).text
    <2>1. /\ response.text \in Seq(Sent) /\ sendIndex \in 0 .. Len(response.text)
          /\ sent = Upto(response.text, sendIndex)
          /\ rd => response = NoResponse
          /\ phase = "next" => sendIndex = Len(response.text) /\ ~rd
      BY DEF RelayInv, TypeOK, AnswerInv
    <2>2. Upto(response.text, Len(response.text)) = response.text
      BY <2>1, SubSeqFull DEF Upto
    <2>3. Len(sent) = sendIndex
      BY <2>1, Pieces
    <2>4. CASE rd
      <3>1. response.text = <<>>
        BY <2>1, <2>4 DEF NoResponse
      <3>2. sendIndex = 0
        BY <2>1, <3>1
      <3>3. sent = <<>>
        BY <2>1, <3>2, SubSeqEmpty DEF Upto
      <3> QED
        BY <2>1, <2>4, <3>3 DEF AnswerFromOutput
    <2>5. CASE ~rd
      <3>1. response.text = answer
        BY <2>5 DEF Complete
      <3>2. phase # "closed"
        BY <2>5 DEF Complete
      <3> HIDE DEF answer
      <3> QED
        BY <2>1, <2>2, <2>3, <2>5, <3>1, <3>2 DEF AnswerFromOutput, answer
    <2> QED
      BY <2>4, <2>5
  <1>2. Init => Complete
    BY DEF Init, Complete
  <1> QED
    BY <1>1, <1>2, CompleteHolds, RelayInvariant, PTL DEF Spec

\* The peer is told the length of what follows the header, whatever lines the
\* program's header has.
THEOREM AnswersFramed == Spec => []Framed
  <1>1. Init => Complete
    BY DEF Init, Complete
  <1>2. RelayInv /\ Complete => Framed
    <2> SUFFICES ASSUME RelayInv, Complete, ~rd
                 PROVE  response.length =
                          Len(After(response.text, find(response.text, EmptyLine) + 4))
      BY DEF Framed
    <2>1. content.output \in Outputs
      BY TypeInHalves DEF RelayInv
    <2>2. content.output \in Seq(Byte) /\ Found(content.output, EmptyLine) # {}
      BY <2>1, ContentAssumption, HeaderAssumption
    <2>3. response = Response(content.output)
      BY DEF Complete
    <2> QED
      BY <2>2, <2>3, ResponseFramed
  <1> QED
    BY <1>1, <1>2, CompleteHolds, RelayInvariant, PTL DEF Spec

\* write() and read(), in whatever pieces, are a lossless relay of the body to
\* the program.
THEOREM InputIsRelayed == Spec => Input!Spec
  <1>1. Init => Input!Init
    BY DEF Init, Input!Init
  <1>2. RelayInv /\ [Next]_vars => [Input!Next]_(Input!vars)
    BY InputStep, TypeInHalves DEF RelayInv
  <1> QED
    BY <1>1, <1>2, RelayInvariant, PTL DEF Spec, Input!Spec

\* So are they of the output to _responseBuffer.
THEOREM OutputIsRelayed == Spec => Output!Spec
  <1>1. Init => Output!Init
    BY DEF Init, Output!Init
  <1>2. RelayInv /\ [Next]_vars => [Output!Next]_(Output!vars)
    BY OutputStep, TypeInHalves DEF RelayInv
  <1> QED
    BY <1>1, <1>2, RelayInvariant, PTL DEF Spec, Output!Spec

\* So is send() of the response to the peer.
THEOREM AnswerIsRelayed == Spec => Answer!Spec
  <1>1. Init => Answer!Init
    BY DEF Init, Answer!Init, NoResponse
  <1>2. RelayInv /\ [Next]_vars => [Answer!Next]_(Answer!vars)
    <2> SUFFICES ASSUME RelayInv, [Next]_vars PROVE [Answer!Next]_(Answer!vars)
      OBVIOUS
    <2>1. content.output \in Outputs
      BY TypeInHalves DEF RelayInv
    <2> QED
      BY <2>1, AnswerStep, TypeInHalves DEF RelayInv
  <1> QED
    BY <1>1, <1>2, RelayInvariant, PTL DEF Spec, Answer!Spec

\* So the relay between peer and program loses, invents and reorders nothing.
THEOREM LosslessRelays == Spec => Relayed
  BY InputIsRelayed, OutputIsRelayed, AnswerIsRelayed DEF Relayed
=============================================================================
