------------------------- MODULE RequestStreamProofs -------------------------
(***************************************************************************)
(* No request is mixed with another, proved for any sequence of requests,  *)
(* bodies of any length and any way the stream is cut.                     *)
(***************************************************************************)
EXTENDS RequestStream, Integers, FiniteSetTheorems, WellFoundedInduction,
        SequenceTheorems, TLAPS

-----------------------------------------------------------------------------
(***************************************************************************)
(* Where the requests stand in what is sent.                               *)
(***************************************************************************)

HeaderLength(a) == IF a.declared THEN 3 ELSE 2

PartAt(a, j) ==
  IF j = 1 THEN "line" ELSE IF j < HeaderLength(a) THEN "length"
  ELSE IF j = HeaderLength(a) THEN "blank" ELSE "body"

\* s is the first m requests of d one after the other; S[i] cells come before the
\* i-th.
LaidUpTo(d, m, s, S) ==
  /\ s \in Seq(Cell) /\ S \in [1 .. m + 1 -> Nat]
  /\ S[1] = 0 /\ Len(s) = S[m + 1]
  /\ \A i \in 1 .. m : S[i + 1] = S[i] + HeaderLength(d[i]) + d[i].length
  /\ \A i, j \in 1 .. m + 1 : i < j => S[i] < S[j]
  /\ \A i \in 1 .. m : \A j \in 1 .. HeaderLength(d[i]) + d[i].length :
       s[S[i] + j] = [of |-> i, part |-> PartAt(d[i], j)]
  /\ \A p \in 1 .. Len(s) : \E i \in 1 .. m : S[i] < p /\ p <= S[i + 1]

Layout(d, s, S) == LaidUpTo(d, Len(d), s, S)

-----------------------------------------------------------------------------
(***************************************************************************)
(* The inductive invariant.                                                *)
(***************************************************************************)

Answer == [to : Nat, body : Seq(Cell), code : {200, 400, 405}]

TypeOK ==
  /\ polite \in BOOLEAN /\ asks \in Dialogues
  /\ received \in Nat /\ requestBuffer \in Seq(Cell)
  /\ state \in {"READY", "DONE"} /\ current \in Nat
  /\ bodyStartIndex \in Nat /\ contentLength \in Nat /\ requestBody \in Seq(Cell)
  /\ doing \in {"reading", "cgi", "writing", "closed"}
  /\ response \in Answer /\ answers \in Seq(Answer)

\* What had been taken from the stream before the buffer was last cleared.
Base == received - Len(requestBuffer)

\* The buffer is the cells of s that come after the first base of them.
Window(s, base, buffer) ==
  /\ base \in Nat /\ buffer \in Seq(Cell) /\ base + Len(buffer) <= Len(s)
  /\ \A j \in 1 .. Len(buffer) : buffer[j] = s[base + j]

BufferFits == Window(sent, Base, requestBuffer)

\* At least all of request i is in the buffer.
Whole(i) == Len(requestBuffer) >= HeaderLength(asks[i]) + asks[i].length

\* The fields are those of the request that begins where the buffer does.
FieldsFit(S) ==
  /\ current # 0 => current \in DOMAIN asks /\ S[current] = Base
                    /\ requestBuffer # <<>>
  /\ state = "READY" => doing # "cgi"
  /\ state = "READY" /\ doing = "reading" => current = 0 /\ contentLength = 0
  /\ state = "DONE" => /\ current # 0
                       /\ Len(requestBuffer) >= HeaderLength(asks[current])
                       /\ bodyStartIndex = HeaderLength(asks[current])
                       /\ contentLength = asks[current].length
  /\ doing = "reading" => requestBody = <<>>
  /\ doing = "cgi" => Whole(current) /\ requestBody = BodyOf(current)

\* An answer to be sent, or sent, is of the request it says.
Proper(a) ==
  /\ a.to # 0 => a.to \in DOMAIN asks
  /\ ~Refused(a) => /\ a.to # 0
                    /\ asks[a.to].method = "POST" => a.body \in {<<>>, BodyOf(a.to)}

AnswersFit(S) ==
  /\ doing = "writing" => /\ Proper(response) /\ response.to = current
                          /\ requestBuffer # <<>>
                          /\ TookAll(response) => Whole(current)
  /\ \A k \in DOMAIN answers :
       /\ Proper(answers[k])
       /\ answers[k].to # 0 => S[answers[k].to] < Base
       /\ ~Refused(answers[k]) => \A j \in 1 .. k - 1 : answers[j].to < answers[k].to

AllTaken == \A k \in DOMAIN answers : TookAll(answers[k])

\* A peer that waits for its answers is being answered the next request, of which
\* the buffer holds the beginning, as long as every body was taken.
TurnsFit(S) ==
  polite =>
    /\ \A k \in DOMAIN answers :
         (\A j \in 1 .. k - 1 : TookAll(answers[j])) => answers[k].to = k
    /\ AllTaken =>
         /\ Len(answers) <= Len(asks)
         /\ Base = S[Len(answers) + 1]
         /\ Len(answers) < Len(asks) => received <= S[Len(answers) + 2]
         /\ doing = "writing" => current # 0

Fits(S) ==
  /\ Layout(asks, sent, S)
  /\ BufferFits /\ FieldsFit(S) /\ AnswersFit(S) /\ TurnsFit(S)

RInv == TypeOK /\ \E S : Fits(S)

-----------------------------------------------------------------------------
(***************************************************************************)
(* Induction, by the least number for which something fails.               *)
(***************************************************************************)

\* A set of numbers with 0 and the successors of its numbers below n.
LEMMA UpTo ==
  ASSUME NEW n \in Nat, NEW P, 0 \in P, \A m \in 0 .. n - 1 : m \in P => m + 1 \in P
  PROVE  \A m \in 0 .. n : m \in P
<1> DEFINE T == {m \in 0 .. n : m \notin P}
<1> SUFFICES ASSUME T # {} PROVE FALSE
  OBVIOUS
<1>1. PICK m \in T : \A y \in T : <<y, m>> \notin OpToRel(<, Nat)
  <2>1. T \subseteq Nat
    OBVIOUS
  <2>2. IsWellFoundedOn(OpToRel(<, Nat), Nat)
    BY NatLessThanWellFounded
  <2> HIDE DEF T
  <2> QED BY <2>1, <2>2, WFMin
<1>2. m # 0 /\ m - 1 \in 0 .. n - 1
  OBVIOUS
<1>3. <<m - 1, m>> \in OpToRel(<, Nat)
  BY <1>2 DEF OpToRel
<1>4. m - 1 \notin T
  BY <1>1, <1>3
<1>5. m - 1 \in P
  BY <1>2, <1>4
<1> QED BY <1>2, <1>5

-----------------------------------------------------------------------------
(***************************************************************************)
(* The stream.                                                             *)
(***************************************************************************)

\* The recursion by which FlattenSeq is defined has a solution.
LEMMA FlattenExists ==
  ASSUME NEW q, NEW n \in Nat
  PROVE  \E f : f = [i \in 1 .. n |-> IF i = 1 THEN q[i] ELSE f[i - 1] \o q[i]]
<1> DEFINE P == {m \in 0 .. n : \E f :
                   f = [i \in 1 .. m |-> IF i = 1 THEN q[i] ELSE f[i - 1] \o q[i]]}
<1>1. 0 \in P
  <2> DEFINE f == [i \in 1 .. 0 |-> q[i]]
  <2>1. f = [i \in 1 .. 0 |-> IF i = 1 THEN q[i] ELSE f[i - 1] \o q[i]]
    OBVIOUS
  <2>2. 0 \in 0 .. n
    OBVIOUS
  <2> HIDE DEF f
  <2> QED BY <2>1, <2>2, Zenon
<1>2. ASSUME NEW m \in 0 .. n - 1, m \in P
      PROVE  m + 1 \in P
  <2>1. PICK f : f = [i \in 1 .. m |-> IF i = 1 THEN q[i] ELSE f[i - 1] \o q[i]]
    BY <1>2
  <2> DEFINE g == [i \in 1 .. m + 1 |->
                     IF i \in 1 .. m THEN f[i]
                     ELSE IF i = 1 THEN q[i] ELSE f[i - 1] \o q[i]]
  <2>2. ASSUME NEW i \in 1 .. m + 1
        PROVE  g[i] = IF i = 1 THEN q[i] ELSE g[i - 1] \o q[i]
    <3>1. CASE i \in 1 .. m
      <4>1. g[i] = f[i]
        BY <3>1
      <4>2. f[i] = IF i = 1 THEN q[i] ELSE f[i - 1] \o q[i]
        BY <2>1, <3>1, Zenon
      <4>3. i # 1 => g[i - 1] = f[i - 1]
        BY <3>1
      <4> QED BY <4>1, <4>2, <4>3
    <3>2. CASE i = m + 1
      <4>1. g[i] = IF i = 1 THEN q[i] ELSE f[i - 1] \o q[i]
        BY <3>2
      <4>2. i # 1 => g[i - 1] = f[i - 1]
        BY <3>2
      <4> QED BY <4>1, <4>2
    <3> QED BY <3>1, <3>2
  <2>3. g = [i \in 1 .. m + 1 |-> g[i]]
    OBVIOUS
  <2> HIDE DEF g
  <2>4. g = [i \in 1 .. m + 1 |-> IF i = 1 THEN q[i] ELSE g[i - 1] \o q[i]]
    BY <2>2, <2>3
  <2>5. m + 1 \in 0 .. n
    OBVIOUS
  <2> QED BY <2>4, <2>5
<1>3. n \in P
  <2> HIDE DEF P
  <2> QED BY <1>1, <1>2, UpTo
<1> QED BY <1>3

LEMMA Flattened ==
  ASSUME NEW q, Len(q) \in Nat \ {0}
  PROVE  \E f : /\ f = [i \in 1 .. Len(q) |-> IF i = 1 THEN q[i] ELSE f[i - 1] \o q[i]]
                /\ FlattenSeq(q) = f[Len(q)]
<1> DEFINE f == CHOOSE f : f = [i \in 1 .. Len(q) |-> IF i = 1 THEN q[i] ELSE f[i - 1] \o q[i]]
<1>1. f = [i \in 1 .. Len(q) |-> IF i = 1 THEN q[i] ELSE f[i - 1] \o q[i]]
  BY FlattenExists, Zenon
<1>2. FlattenSeq(q) = f[Len(q)]
  BY Zenon DEF FlattenSeq
<1> HIDE DEF f
<1> QED BY <1>1, <1>2

\* Two sequences, one after the other.
LEMMA Concatenated ==
  ASSUME NEW T, NEW s \in Seq(T), NEW t \in Seq(T)
  PROVE  /\ s \o t \in Seq(T) /\ Len(s \o t) = Len(s) + Len(t)
         /\ Len(s) \in Nat /\ Len(t) \in Nat
         /\ \A j \in 1 .. Len(s) : (s \o t)[j] = s[j]
         /\ \A j \in 1 .. Len(t) : (s \o t)[Len(s) + j] = t[j]
OBVIOUS

\* The cells of one request.
LEMMA Shape ==
  ASSUME NEW d \in Seq(Ask), NEW i \in 1 .. Len(d)
  PROVE  /\ d[i] \in Ask /\ HeaderLength(d[i]) \in {2, 3} /\ d[i].length \in Nat
         /\ Sends(d, i) \in Seq(Cell)
         /\ Len(Sends(d, i)) = HeaderLength(d[i]) + d[i].length
         /\ \A j \in 1 .. HeaderLength(d[i]) + d[i].length :
              Sends(d, i)[j] = [of |-> i, part |-> PartAt(d[i], j)]
<1>1. d[i] \in Ask /\ i \in Nat
  <2>1. Len(d) \in Nat /\ DOMAIN d = 1 .. Len(d)
    OBVIOUS
  <2> QED BY <2>1
<1>2. d[i].length \in Nat /\ d[i].declared \in BOOLEAN
  BY <1>1 DEF Ask
<1> DEFINE cell(part) == [of |-> i, part |-> part]
           a == <<cell("line")>>
           b == IF d[i].declared THEN <<cell("length")>> ELSE <<>>
           e == <<cell("blank")>>
           f == [j \in 1 .. d[i].length |-> cell("body")]
<1>3. \A part \in {"line", "length", "blank", "body"} : cell(part) \in Cell
  BY <1>1 DEF Cell
<1>4. a \in Seq(Cell) /\ Len(a) = 1 /\ a[1] = cell("line")
  BY <1>3
<1>5. /\ b \in Seq(Cell) /\ Len(b) \in {0, 1} /\ (Len(b) = 1 <=> d[i].declared)
      /\ \A j \in 1 .. Len(b) : b[j] = cell("length")
  <2>1. CASE d[i].declared
    BY <1>3, <2>1
  <2>2. CASE ~d[i].declared
    BY <2>2
  <2> QED BY <2>1, <2>2
<1>6. e \in Seq(Cell) /\ Len(e) = 1 /\ e[1] = cell("blank")
  BY <1>3
<1>7. f \in Seq(Cell) /\ Len(f) = d[i].length /\ \A j \in 1 .. Len(f) : f[j] = cell("body")
  <2>1. f \in [1 .. d[i].length -> Cell]
    BY <1>3
  <2>2. f \in Seq(Cell) /\ Len(f) = d[i].length
    <3> HIDE DEF f
    <3> QED BY <1>2, <2>1
  <2> QED BY <2>2
<1>8. Sends(d, i) = ((a \o b) \o e) \o f
  BY DEF Sends
<1> HIDE DEF a, b, e, f
<1>9. /\ a \o b \in Seq(Cell) /\ Len(a \o b) = 1 + Len(b)
      /\ (a \o b)[1] = cell("line")
      /\ \A j \in 1 .. Len(b) : (a \o b)[1 + j] = cell("length")
  <2> HIDE DEF cell
  <2>1. a \in Seq(Cell) /\ b \in Seq(Cell)
    BY <1>4, <1>5
  <2>2. /\ a \o b \in Seq(Cell) /\ Len(a \o b) = Len(a) + Len(b)
        /\ \A j \in 1 .. Len(a) : (a \o b)[j] = a[j]
        /\ \A j \in 1 .. Len(b) : (a \o b)[Len(a) + j] = b[j]
    BY <2>1
  <2> QED BY <1>4, <1>5, <2>2
<1> DEFINE g == a \o b
           h == g \o e
<1>10. /\ h \in Seq(Cell) /\ Len(h) = 2 + Len(b)
       /\ h[1] = cell("line") /\ h[2 + Len(b)] = cell("blank")
       /\ \A j \in 1 .. Len(b) : h[1 + j] = cell("length")
  <2>1. g \in Seq(Cell) /\ Len(g) = 1 + Len(b) /\ g[1] = cell("line")
        /\ \A j \in 1 .. Len(b) : g[1 + j] = cell("length")
    BY <1>9
  <2> HIDE DEF g, cell
  <2>3. e \in Seq(Cell) /\ g \in Seq(Cell)
    BY <1>6, <2>1
  <2>2. /\ h \in Seq(Cell) /\ Len(h) = Len(g) + Len(e)
        /\ \A j \in 1 .. Len(g) : h[j] = g[j]
        /\ \A j \in 1 .. Len(e) : h[Len(g) + j] = e[j]
    BY <2>3
  <2> HIDE DEF h
  <2> QED BY <1>5, <1>6, <2>1, <2>2
<1>11. /\ h \o f \in Seq(Cell) /\ Len(h \o f) = Len(h) + Len(f)
       /\ \A j \in 1 .. Len(h) : (h \o f)[j] = h[j]
       /\ \A j \in 1 .. Len(f) : (h \o f)[Len(h) + j] = f[j]
  <2>1. h \in Seq(Cell) /\ f \in Seq(Cell)
    BY <1>7, <1>10
  <2> HIDE DEF h, f
  <2> QED BY <2>1, Concatenated
<1>12. HeaderLength(d[i]) = 2 + Len(b) /\ HeaderLength(d[i]) \in {2, 3}
  <2> DEFINE n == Len(b)
  <2>1. n \in {0, 1} /\ (n = 1 <=> d[i].declared)
    BY <1>5
  <2> HIDE DEF n
  <2>2. HeaderLength(d[i]) = 2 + n /\ HeaderLength(d[i]) \in {2, 3}
    BY <2>1 DEF HeaderLength
  <2> QED BY <2>2 DEF n
<1>13. Sends(d, i) = h \o f
  BY <1>8
<1> HIDE DEF h
<1>14. ASSUME NEW j \in 1 .. HeaderLength(d[i]) + d[i].length
       PROVE  (h \o f)[j] = cell(PartAt(d[i], j))
  <2>0. j \in Nat
    BY <1>12, <1>2
  <2>1. CASE j > Len(h)
    <3>1. j - Len(h) \in 1 .. Len(f)
      BY <1>2, <1>5, <1>7, <1>10, <1>12, <2>0, <2>1, SMTT(60)
    <3>2. (h \o f)[Len(h) + (j - Len(h))] = f[j - Len(h)]
      BY <1>11, <3>1
    <3>3. Len(h) + (j - Len(h)) = j
      BY <1>10, <1>5, <2>0
    <3>4. PartAt(d[i], j) = "body"
      BY <1>5, <1>10, <1>12, <2>0, <2>1 DEF PartAt
    <3> HIDE DEF cell
    <3> QED BY <1>7, <3>1, <3>2, <3>3, <3>4
  <2>2. CASE j <= Len(h)
    <3>1. (h \o f)[j] = h[j]
      BY <1>5, <1>10, <1>11, <1>12, <1>2, <2>2
    <3>2. CASE j = 1
      BY <1>10, <3>1, <3>2 DEF PartAt
    <3>3. CASE j = 2 + Len(b)
      <4>1. PartAt(d[i], j) = "blank"
        BY <1>5, <1>12, <3>3 DEF PartAt
      <4> HIDE DEF cell
      <4> QED BY <1>10, <3>1, <3>3, <4>1
    <3>4. CASE j = 2 /\ Len(b) = 1
      <4>1. PartAt(d[i], j) = "length"
        BY <1>12, <3>4 DEF PartAt
      <4>2. h[1 + 1] = cell("length")
        BY <1>10, <3>4
      <4> HIDE DEF cell
      <4> QED BY <3>1, <3>4, <4>1, <4>2
    <3> QED BY <1>5, <1>10, <2>0, <2>2, <3>2, <3>3, <3>4
  <2>3. Len(h) \in Nat
    BY <1>5, <1>10
  <2>4. j > Len(h) \/ j <= Len(h)
    BY <2>0, <2>3
  <2> QED BY <2>1, <2>2, <2>4
<1>15. Len(Sends(d, i)) = HeaderLength(d[i]) + d[i].length
  BY <1>5, <1>7, <1>10, <1>11, <1>12, <1>13
<1> QED BY <1>1, <1>2, <1>11, <1>12, <1>13, <1>14, <1>15

LEMMA OneMore ==
  ASSUME NEW d \in Seq(Ask), NEW m \in 0 .. Len(d) - 1, NEW s, NEW S, LaidUpTo(d, m, s, S)
  PROVE  \E R : LaidUpTo(d, m + 1, s \o Sends(d, m + 1), R)
<1>1. m \in Nat /\ Len(d) \in Nat /\ m + 1 \in 1 .. Len(d)
  OBVIOUS
<1> DEFINE k == m + 1
           L == HeaderLength(d[k]) + d[k].length
           t == Sends(d, k)
           R == [i \in 1 .. m + 2 |-> IF i = m + 2 THEN S[m + 1] + L ELSE S[i]]
<1>2. /\ HeaderLength(d[k]) \in {2, 3} /\ d[k].length \in Nat
      /\ t \in Seq(Cell) /\ Len(t) = L
      /\ \A j \in 1 .. L : t[j] = [of |-> k, part |-> PartAt(d[k], j)]
  BY <1>1, Shape
<1>3. L \in Nat /\ L >= 2
  BY <1>2
<1> HIDE DEF L, t
<1>4. s \in Seq(Cell) /\ S \in [1 .. m + 1 -> Nat] /\ S[1] = 0 /\ Len(s) = S[m + 1]
  BY DEF LaidUpTo
<1>5. /\ s \o t \in Seq(Cell) /\ Len(s \o t) = Len(s) + Len(t)
      /\ \A j \in 1 .. Len(s) : (s \o t)[j] = s[j]
      /\ \A j \in 1 .. Len(t) : (s \o t)[Len(s) + j] = t[j]
  <2>1. s \in Seq(Cell) /\ t \in Seq(Cell)
    BY <1>2, <1>4
  <2> QED BY <2>1
<1>6. /\ R \in [1 .. m + 2 -> Nat] /\ R[m + 2] = S[m + 1] + L
      /\ \A i \in 1 .. m + 1 : R[i] = S[i] /\ S[i] \in Nat
  BY <1>1, <1>3, <1>4
<1> HIDE DEF R
<1>7. Len(s \o t) = R[m + 2]
  BY <1>2, <1>4, <1>5, <1>6
<1>8. ASSUME NEW i \in 1 .. m + 1
      PROVE  R[i + 1] = R[i] + HeaderLength(d[i]) + d[i].length
  <2>1. CASE i = m + 1
    <3>1. R[i + 1] = S[m + 1] + L /\ R[i] = S[m + 1]
      BY <1>1, <1>6, <2>1
    <3>2. S[m + 1] + L = S[m + 1] + HeaderLength(d[i]) + d[i].length
      <4>1. i = k /\ S[m + 1] \in Nat
        BY <1>1, <1>6, <2>1
      <4>2. HeaderLength(d[i]) \in Nat /\ d[i].length \in Nat
        BY <1>2, <4>1
      <4> QED BY <4>1, <4>2 DEF L
    <3> QED BY <3>1, <3>2
  <2>2. CASE i # m + 1
    <3>1. i \in 1 .. m /\ i + 1 \in 1 .. m + 1
      BY <1>1, <2>2
    <3>2. S[i + 1] = S[i] + HeaderLength(d[i]) + d[i].length
      BY <3>1 DEF LaidUpTo
    <3> QED BY <1>6, <3>1, <3>2
  <2> QED BY <2>1, <2>2
<1>9. ASSUME NEW i \in 1 .. m + 2, NEW j \in 1 .. m + 2, i < j
      PROVE  R[i] < R[j]
  <2>1. i \in 1 .. m + 1
    BY <1>1, <1>9
  <2>2. CASE j = m + 2
    <3>1. S[i] <= S[m + 1]
      <4>1. CASE i = m + 1
        BY <1>6, <4>1
      <4>2. CASE i # m + 1
        <5>1. S[i] < S[m + 1]
          BY <1>1, <2>1, <4>2 DEF LaidUpTo
        <5> QED BY <1>1, <1>6, <2>1, <5>1
      <4> QED BY <4>1, <4>2
    <3> QED BY <1>1, <1>3, <1>6, <2>1, <2>2, <3>1
  <2>3. CASE j # m + 2
    <3>1. j \in 1 .. m + 1
      BY <1>1, <2>3
    <3>2. S[i] < S[j]
      BY <1>9, <2>1, <3>1 DEF LaidUpTo
    <3> QED BY <1>6, <2>1, <3>1, <3>2
  <2> QED BY <2>2, <2>3
<1>10. ASSUME NEW i \in 1 .. m + 1, NEW j \in 1 .. HeaderLength(d[i]) + d[i].length
       PROVE  (s \o t)[R[i] + j] = [of |-> i, part |-> PartAt(d[i], j)]
  <2>1. CASE i = m + 1
    <3>1. R[i] = Len(s) /\ j \in 1 .. Len(t) /\ i = k
      BY <1>1, <1>2, <1>4, <1>6, <2>1 DEF L
    <3>2. (s \o t)[Len(s) + j] = t[j]
      BY <1>5, <3>1
    <3>3. t[j] = [of |-> k, part |-> PartAt(d[k], j)]
      BY <1>2, <3>1
    <3> QED BY <3>1, <3>2, <3>3
  <2>2. CASE i # m + 1
    <3>1. i \in 1 .. m /\ i + 1 \in 1 .. m + 1 /\ R[i] = S[i] /\ S[i] \in Nat
      BY <1>1, <1>6, <2>2, SMTT(60)
    <3>2. S[i + 1] = S[i] + HeaderLength(d[i]) + d[i].length
      BY <3>1 DEF LaidUpTo
    <3>3. S[i + 1] <= Len(s) /\ S[i + 1] \in Nat /\ Len(s) \in Nat
      <4>1. S[i + 1] \in Nat /\ S[m + 1] \in Nat
        BY <1>1, <1>6, <3>1, SMTT(60)
      <4>2. CASE i + 1 = m + 1
        BY <1>4, <4>1, <4>2
      <4>3. CASE i + 1 # m + 1
        <5>1. S[i + 1] < S[m + 1]
          BY <1>1, <3>1, <4>3 DEF LaidUpTo
        <5> QED BY <1>4, <4>1, <5>1
      <4> QED BY <4>2, <4>3
    <3>4. HeaderLength(d[i]) \in Nat /\ d[i].length \in Nat
      BY <1>1, <3>1, Shape, SMTT(60)
    <3>5. S[i] + j \in 1 .. Len(s)
      <4> DEFINE before == S[i]
                 header == HeaderLength(d[i])
                 length == d[i].length
                 next == S[i + 1]
                 l == Len(s)
      <4>1. /\ before \in Nat /\ header \in Nat /\ length \in Nat /\ l \in Nat
            /\ next = before + header + length /\ next <= l /\ j \in 1 .. header + length
        BY <3>1, <3>2, <3>3, <3>4
      <4> HIDE DEF before, header, length, next, l
      <4>2. before + j \in 1 .. l
        BY <4>1
      <4> QED BY <4>2 DEF before, l
    <3>6. s[S[i] + j] = [of |-> i, part |-> PartAt(d[i], j)]
      BY <3>1 DEF LaidUpTo
    <3> QED BY <1>5, <3>1, <3>5, <3>6
  <2> QED BY <2>1, <2>2
<1>11. ASSUME NEW p \in 1 .. Len(s \o t)
       PROVE  \E i \in 1 .. m + 1 : R[i] < p /\ p <= R[i + 1]
  <2>0. Len(s) \in Nat /\ p \in Nat
    BY <1>4, <1>5, <1>2, <1>3
  <2>1. CASE p > Len(s)
    <3>1. R[m + 1] < p /\ p <= R[m + 1 + 1]
      BY <1>1, <1>4, <1>6, <1>7, <2>1
    <3> QED BY <1>1, <3>1
  <2>2. CASE p <= Len(s)
    <3>1. PICK i \in 1 .. m : S[i] < p /\ p <= S[i + 1]
      BY <2>0, <2>2 DEF LaidUpTo
    <3>2. i \in 1 .. m + 1 /\ i + 1 \in 1 .. m + 1
      BY <1>1
    <3> QED BY <1>6, <3>1, <3>2
  <2> QED BY <2>0, <2>1, <2>2
<1>12. R[1] = 0 /\ (m + 1) + 1 = m + 2
  BY <1>1, <1>4, <1>6
<1>13. LaidUpTo(d, k, s \o t, R)
  BY <1>5, <1>6, <1>7, <1>8, <1>9, <1>10, <1>11, <1>12 DEF LaidUpTo
<1> QED BY <1>13 DEF t

\* The requests of a dialogue one after the other.
LEMMA Laid ==
  ASSUME NEW d \in Seq(Ask)
  PROVE  \E S : Layout(d, FlattenSeq([i \in DOMAIN d |-> Sends(d, i)]), S)
<1> DEFINE q == [i \in DOMAIN d |-> Sends(d, i)]
           n == Len(d)
<1>1. n \in Nat /\ DOMAIN d = 1 .. n
  OBVIOUS
<1>2. q \in [1 .. n -> Seq(Cell)] /\ \A i \in 1 .. n : q[i] = Sends(d, i)
  BY <1>1, Shape
<1> DEFINE S0 == [i \in 1 .. 1 |-> 0]
<1>3. LaidUpTo(d, 0, <<>>, S0)
  BY DEF LaidUpTo
<1>4. CASE n = 0
  <2>1. q = <<>>
    BY <1>1, <1>4
  <2>2. FlattenSeq(q) = <<>>
    BY <2>1 DEF FlattenSeq
  <2>3. LaidUpTo(d, n, FlattenSeq(q), S0)
    BY <1>3, <1>4, <2>2
  <2> QED BY <2>3 DEF Layout
<1>5. CASE n # 0
  <2>1. Len(q) = n
    <3> HIDE DEF q
    <3> QED BY <1>1, <1>2
  <2> HIDE DEF q
  <2>2. PICK f : /\ f = [i \in 1 .. n |-> IF i = 1 THEN q[i] ELSE f[i - 1] \o q[i]]
                 /\ FlattenSeq(q) = f[n]
    <3>1. Len(q) \in Nat \ {0}
      BY <1>1, <1>5, <2>1
    <3>2. \E f : /\ f = [i \in 1 .. Len(q) |-> IF i = 1 THEN q[i] ELSE f[i - 1] \o q[i]]
                 /\ FlattenSeq(q) = f[Len(q)]
      BY <3>1, Flattened
    <3> QED BY <2>1, <3>2
  <2> DEFINE P == {m \in 0 .. n - 1 : \E S : LaidUpTo(d, m + 1, f[m + 1], S)}
  <2>3. 0 \in P
    <3>1. \E S : LaidUpTo(d, 0 + 1, <<>> \o Sends(d, 0 + 1), S)
      <4>1. 0 \in 0 .. Len(d) - 1
        BY <1>1, <1>5
      <4> HIDE DEF S0
      <4> QED BY <1>3, <4>1, OneMore
    <3>2. Sends(d, 1) \in Seq(Cell)
      BY <1>1, <1>5, Shape
    <3>3. <<>> \o Sends(d, 1) = Sends(d, 1)
      BY <3>2
    <3>4. f[1] = Sends(d, 1)
      BY <1>1, <1>2, <1>5, <2>2
    <3> QED BY <1>1, <1>5, <3>1, <3>3, <3>4
  <2>4. ASSUME NEW m \in 0 .. (n - 1) - 1, m \in P
        PROVE  m + 1 \in P
    <3>1. m + 1 \in 0 .. Len(d) - 1 /\ m + 2 \in 1 .. n /\ m + 2 # 1 /\ (m + 2) - 1 = m + 1
          /\ (m + 1) + 1 = m + 2
      BY <1>1
    <3>2. PICK S : LaidUpTo(d, m + 1, f[m + 1], S)
      BY <2>4
    <3>3. \E R : LaidUpTo(d, (m + 1) + 1, f[m + 1] \o Sends(d, (m + 1) + 1), R)
      BY <3>1, <3>2, OneMore
    <3>4. f[m + 2] = f[m + 1] \o Sends(d, m + 2)
      BY <1>2, <2>2, <3>1
    <3>5. \E R : LaidUpTo(d, (m + 1) + 1, f[(m + 1) + 1], R)
      BY <3>1, <3>3, <3>4
    <3> QED BY <3>1, <3>5
  <2>5. n - 1 \in P
    <3> HIDE DEF P
    <3>1. n - 1 \in Nat
      BY <1>1, <1>5
    <3> DEFINE b == n - 1
    <3>2. b \in Nat /\ 0 \in P /\ \A m \in 0 .. b - 1 : m \in P => m + 1 \in P
      BY <2>3, <2>4, <3>1
    <3> HIDE DEF b
    <3>3. \A m \in 0 .. b : m \in P
      BY <3>2, UpTo
    <3>4. b \in P
      BY <3>2, <3>3
    <3> QED BY <3>4 DEF b
  <2>6. (n - 1) + 1 = n
    BY <1>1
  <2>7. \E S : LaidUpTo(d, n, FlattenSeq(q), S)
    BY <2>2, <2>5, <2>6
  <2> QED BY <2>7 DEF Layout, q
<1> QED BY <1>4, <1>5

-----------------------------------------------------------------------------
(***************************************************************************)
(* What the buffer shows of a request.                                     *)
(***************************************************************************)

LEMMA FirstBlank ==
  ASSUME NEW b \in Seq(Cell), NEW j \in 2 .. Len(b), b[j].part = "blank",
         \A l \in 1 .. j - 1 : b[l].part # "blank"
  PROVE  headerEnd(b) = j
<1> DEFINE I == {i \in 2 .. Len(b) : b[i].part = "blank"}
<1>1. j \in I /\ \A y \in I : j <= y
  OBVIOUS
<1>2. \A y \in I : y \in Int
  OBVIOUS
<1>3. headerEnd(b) = Min(I)
  BY <1>1 DEF headerEnd
<1> HIDE DEF I
<1>4. Min(I) \in I /\ \A y \in I : Min(I) <= y
  BY <1>1 DEF Min
<1>5. Min(I) <= j /\ j <= Min(I) /\ Min(I) \in Int /\ j \in Int
  BY <1>1, <1>2, <1>4
<1> QED BY <1>3, <1>5

LEMMA NoBlank ==
  ASSUME NEW b \in Seq(Cell), \A l \in 1 .. Len(b) : b[l].part # "blank"
  PROVE  headerEnd(b) = 0
BY DEF headerEnd

\* The first cells of a buffer that begins with a request are of this request.
LEMMA Beginning ==
  ASSUME NEW d \in Seq(Ask), NEW s, NEW S, Layout(d, s, S),
         NEW i \in 1 .. Len(d), NEW b, Window(s, S[i], b)
  PROVE  \A j \in 1 .. Len(b) : j <= HeaderLength(d[i]) + d[i].length =>
           b[j] = [of |-> i, part |-> PartAt(d[i], j)]
<1>1. HeaderLength(d[i]) \in Nat /\ d[i].length \in Nat /\ Len(b) \in Nat
  BY Shape, SMTT(60) DEF Window
<1> SUFFICES ASSUME NEW j \in 1 .. Len(b), j <= HeaderLength(d[i]) + d[i].length
             PROVE  b[j] = [of |-> i, part |-> PartAt(d[i], j)]
  OBVIOUS
<1>2. b[j] = s[S[i] + j]
  BY DEF Window
<1>3. j \in 1 .. HeaderLength(d[i]) + d[i].length
  BY <1>1
<1> QED BY <1>2, <1>3 DEF Layout, LaidUpTo

\* Its header ends where that of the request does, if all of it is there.
LEMMA HeaderOf ==
  ASSUME NEW d \in Seq(Ask), NEW s, NEW S, Layout(d, s, S),
         NEW i \in 1 .. Len(d), NEW b, Window(s, S[i], b), headerEnd(b) # 0
  PROVE  headerEnd(b) = HeaderLength(d[i]) /\ HeaderLength(d[i]) <= Len(b)
<1> DEFINE H == HeaderLength(d[i])
<1>1. H \in {2, 3} /\ d[i].length \in Nat /\ b \in Seq(Cell) /\ Len(b) \in Nat
  BY Shape DEF Window
<1>2. \A j \in 1 .. Len(b) : j <= H => b[j].part = PartAt(d[i], j)
  <2>1. ASSUME NEW j \in 1 .. Len(b), j <= H
        PROVE  b[j].part = PartAt(d[i], j)
    <3>1. j <= H + d[i].length
      BY <1>1, <2>1
    <3>2. b[j] = [of |-> i, part |-> PartAt(d[i], j)]
      BY <3>1, Beginning
    <3> QED BY <3>2
  <2> QED BY <2>1
<1>3. \A j \in 1 .. H - 1 : PartAt(d[i], j) # "blank"
  BY <1>1 DEF PartAt
<1>4. PartAt(d[i], H) = "blank"
  BY <1>1 DEF PartAt
<1> HIDE DEF H
<1>5. CASE H <= Len(b)
  <2>1. H \in 2 .. Len(b) /\ b[H].part = "blank"
    BY <1>1, <1>2, <1>4, <1>5
  <2>2. \A l \in 1 .. H - 1 : b[l].part # "blank"
    BY <1>1, <1>2, <1>3, <1>5
  <2>3. headerEnd(b) = H
    BY <1>1, <2>1, <2>2, FirstBlank
  <2> QED BY <1>5, <2>3 DEF H
<1>6. CASE ~(H <= Len(b))
  <2>1. \A l \in 1 .. Len(b) : b[l].part # "blank"
    BY <1>1, <1>2, <1>3, <1>6
  <2> QED BY <1>1, <2>1, NoBlank
<1> QED BY <1>5, <1>6

\* A buffer that begins with a request line begins with a request.
LEMMA LineBegins ==
  ASSUME NEW d \in Seq(Ask), NEW s, NEW S, Layout(d, s, S),
         NEW base, NEW b, Window(s, base, b), b # <<>>, b[1].part = "line"
  PROVE  b[1].of \in 1 .. Len(d) /\ base = S[b[1].of]
<1>1. base \in Nat /\ Len(b) \in Nat /\ Len(b) >= 1 /\ base + 1 \in 1 .. Len(s) /\ Len(s) \in Nat
  BY DEF Window, Layout, LaidUpTo
<1>2. b[1] = s[base + 1]
  BY <1>1 DEF Window
<1>3. PICK i \in 1 .. Len(d) : S[i] < base + 1 /\ base + 1 <= S[i + 1]
  BY <1>1 DEF Layout, LaidUpTo
<1>4. /\ S[i] \in Nat /\ HeaderLength(d[i]) \in {2, 3} /\ d[i].length \in Nat
      /\ S[i + 1] = S[i] + HeaderLength(d[i]) + d[i].length
  BY Shape DEF Layout, LaidUpTo
<1> DEFINE j == base + 1 - S[i]
<1>5. j \in 1 .. HeaderLength(d[i]) + d[i].length /\ S[i] + j = base + 1
  <2> DEFINE H == HeaderLength(d[i])
             n == d[i].length
             x == S[i]
             y == S[i + 1]
  <2>1. x \in Nat /\ H \in Nat /\ n \in Nat /\ y = x + H + n /\ x < base + 1 /\ base + 1 <= y
    BY <1>3, <1>4
  <2> HIDE DEF H, n, x, y
  <2>2. base + 1 - x \in 1 .. H + n /\ x + (base + 1 - x) = base + 1
    BY <1>1, <2>1
  <2> QED BY <2>2 DEF H, n, x
<1> HIDE DEF j
<1>6. s[S[i] + j] = [of |-> i, part |-> PartAt(d[i], j)]
  BY <1>5 DEF Layout, LaidUpTo
<1>7. PartAt(d[i], j) = "line" /\ b[1].of = i
  BY <1>2, <1>5, <1>6
<1>8. j = 1
  BY <1>7 DEF PartAt
<1> QED BY <1>1, <1>4, <1>5, <1>7, <1>8, SMTT(60)

\* And one that begins where a request does begins with a request line.
LEMMA BeginsLine ==
  ASSUME NEW d \in Seq(Ask), NEW s, NEW S, Layout(d, s, S),
         NEW i \in 1 .. Len(d), NEW b, Window(s, S[i], b), b # <<>>
  PROVE  b[1].part = "line" /\ b[1].of = i
<1>1. 1 \in 1 .. Len(b) /\ 1 <= HeaderLength(d[i]) + d[i].length
  <2>1. HeaderLength(d[i]) \in {2, 3} /\ d[i].length \in Nat
    BY Shape
  <2>2. b \in Seq(Cell)
    BY DEF Window
  <2> QED BY <2>1, <2>2
<1>2. b[1] = [of |-> i, part |-> PartAt(d[i], 1)]
  BY <1>1, Beginning
<1> QED BY <1>2 DEF PartAt

\* The length that is read is the one the request has.
LEMMA LengthOf ==
  ASSUME NEW S, Layout(asks, sent, S), asks \in Dialogues,
         NEW i \in 1 .. Len(asks), NEW b, Window(sent, S[i], b), headerEnd(b) # 0,
         contentLength = 0
  PROVE  DeclaredLength(b) = asks[i].length
<1> DEFINE H == HeaderLength(asks[i])
<1>1. asks \in Seq(Ask) /\ (asks[i].declared \/ asks[i].length = 0)
  BY DialoguesAssumption
<1>2. H \in {2, 3} /\ asks[i].length \in Nat /\ b \in Seq(Cell) /\ Len(b) \in Nat
  BY <1>1, Shape DEF Window
<1>3. headerEnd(b) = H /\ H <= Len(b)
  BY <1>1, HeaderOf
<1>4. \A j \in 1 .. H : b[j] = [of |-> i, part |-> PartAt(asks[i], j)]
  <2>1. ASSUME NEW j \in 1 .. H
        PROVE  b[j] = [of |-> i, part |-> PartAt(asks[i], j)]
    <3>1. j \in 1 .. Len(b) /\ j <= H + asks[i].length
      BY <1>2, <1>3
    <3> QED BY <1>1, <3>1, Beginning
  <2> QED BY <2>1
<1>5. b[1].of = i
  <2>1. 1 \in 1 .. H
    BY <1>2
  <2>2. b[1] = [of |-> i, part |-> PartAt(asks[i], 1)]
    <3> HIDE DEF H
    <3> QED BY <1>4, <2>1
  <2> QED BY <2>2
<1>6. CASE asks[i].declared
  <2>1. H = 3 /\ b[2].part = "length"
    <3>1. H = 3
      BY <1>6 DEF HeaderLength
    <3> QED BY <1>4, <3>1 DEF PartAt
  <2>2. \E p \in 1 .. headerEnd(b) : b[p].part = "length"
    BY <1>3, <2>1
  <2> QED BY <1>5, <2>2, Zenon DEF DeclaredLength
<1>7. CASE ~asks[i].declared
  <2>1. H = 2
    BY <1>7 DEF HeaderLength
  <2>2. \A p \in 1 .. headerEnd(b) : b[p].part # "length"
    BY <1>3, <1>4, <2>1 DEF PartAt
  <2> QED BY <1>1, <1>7, <2>2 DEF DeclaredLength
<1> QED BY <1>6, <1>7

\* What is taken for the body is the body.
LEMMA BodyIs ==
  ASSUME NEW S, Layout(asks, sent, S), asks \in Seq(Ask),
         NEW i \in 1 .. Len(asks), NEW b, Window(sent, S[i], b), 
         Len(b) >= HeaderLength(asks[i]) + asks[i].length
  PROVE  SubSeq(b, HeaderLength(asks[i]) + 1, HeaderLength(asks[i]) + asks[i].length)
           = BodyOf(i)
<1> DEFINE H == HeaderLength(asks[i])
           n == asks[i].length
<1>1. H \in {2, 3} /\ n \in Nat /\ b \in Seq(Cell) /\ Len(b) \in Nat
  BY Shape DEF Window
<1>2. \A j \in 1 .. n : b[H + j] = [of |-> i, part |-> "body"]
  <2>1. ASSUME NEW j \in 1 .. n
        PROVE  b[H + j] = [of |-> i, part |-> "body"]
    <3>1. H + j \in 1 .. Len(b) /\ H + j <= H + n
      BY <1>1
    <3>2. b[H + j] = [of |-> i, part |-> PartAt(asks[i], H + j)]
      BY <3>1, Beginning
    <3>3. PartAt(asks[i], H + j) = "body"
      BY <1>1 DEF PartAt
    <3> QED BY <3>2, <3>3
  <2> QED BY <2>1
<1>3. BodyOf(i) = [j \in 1 .. n |-> [of |-> i, part |-> "body"]]
  BY DEF BodyOf
<1> HIDE DEF H, n
<1>4. /\ DOMAIN SubSeq(b, H + 1, H + n) = 1 .. n
      /\ \A j \in 1 .. n : SubSeq(b, H + 1, H + n)[j] = b[H + j]
      /\ SubSeq(b, H + 1, H + n) = [j \in 1 .. n |-> SubSeq(b, H + 1, H + n)[j]]
  BY <1>1
<1>5. SubSeq(b, H + 1, H + n) = [j \in 1 .. n |-> [of |-> i, part |-> "body"]]
  BY <1>2, <1>4
<1> QED BY <1>3, <1>5 DEF H, n

-----------------------------------------------------------------------------
(***************************************************************************)
(* What can be read.                                                       *)
(***************************************************************************)

\* The places are in the order of the requests, and the cells after S[i] up to
\* S[i + 1] are of request i.
LEMMA Places ==
  ASSUME NEW d \in Seq(Ask), NEW s, NEW S, Layout(d, s, S)
  PROVE  /\ \A i \in 1 .. Len(d) + 1 : S[i] \in Nat /\ S[i] <= Len(s)
         /\ \A i, j \in 1 .. Len(d) + 1 : i <= j => S[i] <= S[j]
         /\ \A i, j \in 1 .. Len(d) + 1 : S[i] < S[j] => i < j
         /\ \A i, j \in 1 .. Len(d) + 1 : S[i] = S[j] => i = j
         /\ \A p \in 1 .. Len(s) : \A i \in 1 .. Len(d) :
              S[i] < p /\ p <= S[i + 1] => s[p].of = i
<1>1. /\ Len(d) \in Nat /\ Len(s) = S[Len(d) + 1] /\ Len(s) \in Nat
      /\ \A i \in 1 .. Len(d) + 1 : S[i] \in Nat
      /\ \A i, j \in 1 .. Len(d) + 1 : i < j => S[i] < S[j]
  <2>1. Len(d) \in Nat
    OBVIOUS
  <2>2. s \in Seq(Cell) /\ S \in [1 .. Len(d) + 1 -> Nat] /\ Len(s) = S[Len(d) + 1]
        /\ \A i, j \in 1 .. Len(d) + 1 : i < j => S[i] < S[j]
    BY DEF Layout, LaidUpTo
  <2> QED BY <2>1, <2>2
<1>2. ASSUME NEW i \in 1 .. Len(d) + 1, NEW j \in 1 .. Len(d) + 1, i <= j
      PROVE  S[i] <= S[j]
  <2>1. CASE i = j
    BY <1>1, <2>1
  <2>2. CASE i < j
    BY <1>1, <2>2
  <2> QED BY <1>1, <1>2, <2>1, <2>2
<1>3. ASSUME NEW i \in 1 .. Len(d) + 1, NEW j \in 1 .. Len(d) + 1, S[i] < S[j]
      PROVE  i < j
  <2>1. ~(j <= i)
    BY <1>1, <1>2, <1>3
  <2> QED BY <1>1, <2>1
<1>4. ASSUME NEW i \in 1 .. Len(d) + 1, NEW j \in 1 .. Len(d) + 1, S[i] = S[j]
      PROVE  i = j
  <2>1. ~(i < j) /\ ~(j < i)
    BY <1>1, <1>4
  <2> QED BY <1>1, <2>1
<1>5. ASSUME NEW i \in 1 .. Len(d) + 1
      PROVE  S[i] <= Len(s)
  <2>1. Len(d) + 1 \in 1 .. Len(d) + 1 /\ i <= Len(d) + 1
    BY <1>1
  <2> QED BY <1>1, <1>2, <2>1
<1>6. ASSUME NEW p \in 1 .. Len(s), NEW i \in 1 .. Len(d), S[i] < p, p <= S[i + 1]
      PROVE  s[p].of = i
  <2> DEFINE H == HeaderLength(d[i])
             n == d[i].length
             x == S[i]
             y == S[i + 1]
             j == p - x
  <2>1. x \in Nat /\ y = x + H + n /\ H \in Nat /\ n \in Nat /\ p \in Nat
        /\ x < p /\ p <= y
    <3>1. i \in 1 .. Len(d) + 1 /\ p \in Nat
      BY <1>1
    <3>2. x \in Nat /\ x < p /\ p <= y
      BY <1>1, <1>6, <3>1
    <3>3. y = x + H + n
      BY DEF Layout, LaidUpTo
    <3>4. H \in Nat /\ n \in Nat
      BY Shape
    <3> QED BY <3>1, <3>2, <3>3, <3>4
  <2>2. \A k \in 1 .. H + n : s[x + k] = [of |-> i, part |-> PartAt(d[i], k)]
    BY DEF Layout, LaidUpTo
  <2> HIDE DEF H, n, x, y
  <2>3. j \in 1 .. H + n /\ x + j = p
    BY <2>1
  <2> HIDE DEF j
  <2>4. s[p] = [of |-> i, part |-> PartAt(d[i], j)]
    BY <2>2, <2>3
  <2> QED BY <2>4
<1> QED BY <1>1, <1>2, <1>3, <1>4, <1>5, <1>6

LEMMA AvailableIs ==
  ASSUME TypeOK, asks \in Seq(Ask), NEW S, Layout(asks, sent, S)
  PROVE  /\ Available \in Nat /\ Available <= Len(sent)
         /\ polite /\ Len(answers) < Len(asks) => Available <= S[Len(answers) + 2]
<1>1. sent \in Seq(Cell) /\ Len(sent) \in Nat /\ DOMAIN sent = 1 .. Len(sent)
      /\ Len(answers) \in Nat /\ Len(asks) \in Nat
  BY DEF Layout, LaidUpTo, TypeOK
<1> DEFINE A == {p \in DOMAIN sent : sent[p].of <= Len(answers) + 1}
<1>2. ASSUME NEW m \in Nat, A \subseteq 1 .. m
      PROVE  Cardinality(A) \in Nat /\ Cardinality(A) <= m
  <2>1. IsFiniteSet(1 .. m) /\ Cardinality(1 .. m) = m
    <3>1. IsFiniteSet(1 .. m)
      BY <1>2, FS_Interval
    <3>2. Cardinality(1 .. m) = IF 1 > m THEN 0 ELSE m - 1 + 1
      BY <1>2, FS_Interval
    <3> QED BY <1>2, <3>1, <3>2
  <2> HIDE DEF A
  <2>2. IsFiniteSet(A) /\ Cardinality(A) <= Cardinality(1 .. m)
    BY <1>2, <2>1, FS_Subset
  <2> QED BY <2>1, <2>2, FS_CardinalityType
<1>3. Cardinality(A) \in Nat /\ Cardinality(A) <= Len(sent)
  <2>1. A \subseteq 1 .. Len(sent)
    BY <1>1
  <2> HIDE DEF A
  <2> QED BY <1>1, <1>2, <2>1
<1>4. ASSUME Len(answers) < Len(asks)
      PROVE  Cardinality(A) <= S[Len(answers) + 2]
  <2> DEFINE k == Len(answers) + 2
  <2>1. k \in 1 .. Len(asks) + 1 /\ k \in Nat
    BY <1>1, <1>4
  <2>2. S[k] \in Nat
    BY <2>1 DEF Layout, LaidUpTo
  <2>3. ASSUME NEW p \in A
        PROVE  p \in 1 .. S[k]
    <3>1. p \in 1 .. Len(sent) /\ sent[p].of <= Len(answers) + 1
      BY <1>1
    <3>2. PICK i \in 1 .. Len(asks) : S[i] < p /\ p <= S[i + 1]
      BY <3>1 DEF Layout, LaidUpTo
    <3>3. sent[p].of = i
      BY <3>1, <3>2, Places
    <3>4. i + 1 <= k /\ i + 1 \in 1 .. Len(asks) + 1
      BY <1>1, <3>1, <3>3
    <3> HIDE DEF k
    <3>5. S[i + 1] <= S[k] /\ S[i + 1] \in Nat
      BY <2>1, <3>4, Places
    <3> QED BY <1>1, <2>2, <3>1, <3>2, <3>5
  <2>4. A \subseteq 1 .. S[k]
    BY <2>3
  <2> HIDE DEF A, k
  <2>5. Cardinality(A) <= S[k]
    BY <1>2, <2>2, <2>4
  <2> QED BY <2>5 DEF k
<1>5. Available = IF polite THEN Cardinality(A) ELSE Len(sent)
  BY DEF Available
<1> HIDE DEF A
<1> QED BY <1>1, <1>3, <1>4, <1>5

\* The buffer with n more cells.
Filled(n, b) == b = requestBuffer \o SubSeq(sent, received + 1, received + n)

\* What a read event leaves in the buffer.
LEMMA Arrives ==
  ASSUME TypeOK, asks \in Seq(Ask), NEW S, Layout(asks, sent, S), BufferFits,
         NEW n \in 1 .. Available - received,
         NEW b, Filled(n, b)
  PROVE  /\ Window(sent, Base, b) /\ b # <<>>
         /\ n \in Nat /\ Len(b) = Len(requestBuffer) + n
         /\ received + n <= Available /\ Available <= Len(sent)
<1>1. Available \in Nat /\ Available <= Len(sent)
  BY AvailableIs
<1>2. received \in Nat /\ n \in Nat /\ n >= 1 /\ received + n <= Available
      /\ received + n <= Len(sent) /\ Len(sent) \in Nat /\ sent \in Seq(Cell)
  BY <1>1 DEF TypeOK, Layout, LaidUpTo
<1> DEFINE t == SubSeq(sent, received + 1, received + n)
<1>3. t \in Seq(Cell) /\ Len(t) = n /\ \A j \in 1 .. n : t[j] = sent[received + j]
  <2> DEFINE lo == received + 1
             hi == received + n
  <2>1. lo \in 1 .. Len(sent) + 1 /\ hi \in lo - 1 .. Len(sent) /\ hi - lo + 1 = n
    BY <1>2
  <2>2. /\ SubSeq(sent, lo, hi) \in Seq(Cell)
        /\ Len(SubSeq(sent, lo, hi)) = hi - lo + 1
        /\ \A i \in 1 .. hi - lo + 1 : SubSeq(sent, lo, hi)[i] = sent[lo + i - 1]
    <3> HIDE DEF lo, hi
    <3> QED BY <1>2, <2>1, SubSeqProperties
  <2>3. \A j \in 1 .. n : lo + j - 1 = received + j
    BY <1>2
  <2> QED BY <2>1, <2>2, <2>3
<1>4. requestBuffer \in Seq(Cell) /\ Len(requestBuffer) \in Nat
  BY DEF TypeOK
<1> HIDE DEF t
<1>5. b = requestBuffer \o t
  BY DEF t, Filled
<1>6. /\ b \in Seq(Cell) /\ Len(b) = Len(requestBuffer) + n
      /\ \A j \in 1 .. Len(requestBuffer) : b[j] = requestBuffer[j]
      /\ \A j \in 1 .. n : b[Len(requestBuffer) + j] = t[j]
  <2>1. t \in Seq(Cell) /\ requestBuffer \in Seq(Cell)
    BY <1>3, <1>4
  <2>2. /\ b \in Seq(Cell) /\ Len(b) = Len(requestBuffer) + Len(t)
        /\ \A j \in 1 .. Len(requestBuffer) : b[j] = requestBuffer[j]
        /\ \A j \in 1 .. Len(t) : b[Len(requestBuffer) + j] = t[j]
    <3> DEFINE c == requestBuffer \o t
    <3>1. /\ c \in Seq(Cell) /\ Len(c) = Len(requestBuffer) + Len(t)
          /\ \A j \in 1 .. Len(requestBuffer) : c[j] = requestBuffer[j]
          /\ \A j \in 1 .. Len(t) : c[Len(requestBuffer) + j] = t[j]
      BY <2>1
    <3> HIDE DEF c
    <3>2. b = c
      BY <1>5 DEF c
    <3> QED BY <3>1, <3>2
  <2> QED BY <1>3, <2>2
<1>7. /\ Base \in Nat /\ Base + Len(requestBuffer) = received
      /\ \A j \in 1 .. Len(requestBuffer) : requestBuffer[j] = sent[Base + j]
  BY <1>2, <1>4 DEF BufferFits, Window, Base
<1> DEFINE r == Len(requestBuffer)
           base == Base
<1>8. r \in Nat /\ base \in Nat /\ base + r = received /\ Len(b) = r + n
  BY <1>4, <1>6, <1>7
<1>9. ASSUME NEW j \in 1 .. Len(b)
      PROVE  b[j] = sent[base + j]
  <2>0. j \in 1 .. r + n
    BY <1>8
  <2>1. CASE j <= r
    <3>1. j \in 1 .. r
      <4> HIDE DEF r
      <4> QED BY <1>2, <1>8, <2>0, <2>1
    <3> QED BY <1>6, <1>7, <3>1
  <2>2. CASE ~(j <= r)
    <3> DEFINE l == j - r
    <3>1. l \in 1 .. n /\ r + l = j /\ received + l = base + j
      <4> HIDE DEF r, base
      <4> QED BY <1>2, <1>8, <2>0, <2>2
    <3> HIDE DEF l
    <3>2. b[r + l] = t[l] /\ t[l] = sent[received + l]
      BY <1>3, <1>6, <3>1
    <3> HIDE DEF r, base
    <3> QED BY <3>1, <3>2
  <2>3. j <= r \/ ~(j <= r)
    OBVIOUS
  <2> QED BY <2>1, <2>2, <2>3
<1>11. base + Len(b) = received + n
  <2> DEFINE w == Len(b)
  <2>1. w = r + n
    BY <1>8
  <2> HIDE DEF r, base, w
  <2>2. base + w = received + n
    BY <1>2, <1>8, <2>1
  <2> QED BY <2>2 DEF w
<1>10. b # <<>>
  <2>1. Len(b) # 0
    <3> DEFINE w == Len(b)
    <3> HIDE DEF w, r
    <3>1. w = r + n
      BY <1>8 DEF w
    <3>2. w # 0
      BY <1>2, <1>8, <3>1
    <3> QED BY <3>2 DEF w
  <2> QED BY <2>1
<1>12. Window(sent, base, b)
  <2>1. base + Len(b) <= Len(sent)
    BY <1>2, <1>11
  <2>2. base \in Nat /\ b \in Seq(Cell)
    BY <1>6, <1>8
  <2> HIDE DEF base
  <2> QED BY <1>9, <2>1, <2>2 DEF Window
<1> QED BY <1>1, <1>2, <1>6, <1>10, <1>12

-----------------------------------------------------------------------------
(***************************************************************************)
(* A read event.                                                           *)
(***************************************************************************)

\* An answer that refuses request i.
Refusal(i, a) == \E code \in {400, 405} : a = [to |-> i, body |-> <<>>, code |-> code]

\* An answer to request i that may be given when the buffer is b.
Suits(i, a, b) ==
  /\ a.to = i
  /\ ~Refused(a) => i # 0 /\ (asks[i].method = "POST" => a.body \in {<<>>, BodyOf(i)})
  /\ TookAll(a) => Len(b) >= HeaderLength(asks[i]) + asks[i].length

LEMMA Refusals ==
  ASSUME NEW i \in Nat, NEW a, Refusal(i, a), NEW b
  PROVE  a \in Answer /\ Suits(i, a, b)
<1>1. PICK code \in {400, 405} : a = [to |-> i, body |-> <<>>, code |-> code]
  BY DEF Refusal
<1>2. a.to = i /\ a.code # 200
  BY <1>1
<1>3. Refused(a)
  BY <1>2 DEF Refused
<1> QED BY <1>1, <1>2, <1>3 DEF Answer, Suits, TookAll

LEMMA Refuses ==
  ASSUME NEW codes \in SUBSET {400, 405}, Refuse(codes)
  PROVE  doing' = "writing" /\ Refusal(current', response')
BY DEF Refuse, readyToSend, Refusal

\* The header, when a request line begins the buffer.
HeaderTaken(S, i, b) ==
  /\ i \in 1 .. Len(asks) /\ S[i] = Base
  /\ current' = i /\ bodyStartIndex' = HeaderLength(asks[i])
  /\ contentLength' = asks[i].length
  /\ Len(b) >= HeaderLength(asks[i])

\* handleResponse of a request whose header was taken.
LEMMA Responds ==
  ASSUME TypeOK, asks \in Seq(Ask), NEW S, Layout(asks, sent, S),
         NEW b, Window(sent, Base, b), NEW i, HeaderTaken(S, i, b),
         doing \in {"reading", "cgi"}, handleResponse(b),
         doing = "cgi" => /\ Len(b) >= HeaderLength(asks[i]) + asks[i].length
                          /\ requestBody = BodyOf(i),
         doing = "reading" => requestBody = <<>>
  PROVE  /\ requestBody' \in Seq(Cell) /\ response' \in Answer
         /\ doing' \in {"reading", "cgi", "writing"}
         /\ doing' = "reading" => requestBody' = <<>>
         /\ doing' = "cgi" => /\ Len(b) >= HeaderLength(asks[i]) + asks[i].length
                              /\ requestBody' = BodyOf(i)
         /\ doing' = "writing" => Suits(i, response', b)
<1>1. i \in 1 .. Len(asks) /\ i \in Nat /\ asks[i] \in Ask
      /\ HeaderLength(asks[i]) \in {2, 3} /\ asks[i].length \in Nat
      /\ Window(sent, S[i], b) /\ b \in Seq(Cell) /\ Len(b) \in Nat
  <2>1. i \in 1 .. Len(asks) /\ Window(sent, S[i], b)
    BY DEF HeaderTaken
  <2>2. b \in Seq(Cell) /\ Len(b) \in Nat
    BY <2>1 DEF Window
  <2>3. i \in Nat
    BY <2>1
  <2> QED BY <2>1, <2>2, <2>3, Shape
<1>2. current' = i /\ bodyStartIndex' = HeaderLength(asks[i])
      /\ contentLength' = asks[i].length
  BY DEF HeaderTaken
<1>3. ASSUME BodyArrived(b)
      PROVE  Len(b) = HeaderLength(asks[i]) + asks[i].length
  <2> DEFINE w == Len(b)
             H == HeaderLength(asks[i])
             n == asks[i].length
  <2>1. w - H = n
    BY <1>2, <1>3 DEF BodyArrived
  <2>2. w \in Nat /\ H \in Nat /\ n \in Nat
    BY <1>1
  <2> HIDE DEF w, H, n
  <2>3. w = H + n
    BY <2>1, <2>2
  <2> QED BY <2>3 DEF w, H, n
<1>4. CASE ~BodyArrived(b) /\ UNCHANGED <<requestBody, doing, response>>
  BY <1>4 DEF TypeOK
<1>7. CASE BodyArrived(b) /\ Refuse({400}) /\ UNCHANGED requestBody
  <2>1. doing' = "writing" /\ Refusal(i, response')
    BY <1>2, <1>7, Refuses
  <2> QED BY <1>1, <1>7, <2>1, Refusals DEF TypeOK
<1>5. CASE /\ BodyArrived(b) /\ asks[current'].method = "GET"
           /\ readyToSend([to |-> current', body |-> <<>>, code |-> 200])
           /\ UNCHANGED requestBody
  <2>1. response' = [to |-> i, body |-> <<>>, code |-> 200] /\ doing' = "writing"
    BY <1>2, <1>5 DEF readyToSend
  <2>2. response' \in Answer
    BY <1>1, <2>1 DEF Answer
  <2>3. Len(b) >= HeaderLength(asks[i]) + asks[i].length
    BY <1>1, <1>3, <1>5
  <2>4. asks[i].method # "POST"
    BY <1>2, <1>5
  <2>5. Suits(i, response', b)
    BY <1>1, <2>1, <2>3, <2>4 DEF Suits
  <2> QED BY <1>5, <2>1, <2>2, <2>5 DEF TypeOK
<1>6. CASE /\ BodyArrived(b) /\ asks[current'].method = "POST"
           /\ requestBody' = SubSeq(b, bodyStartIndex' + 1, bodyStartIndex' + contentLength')
           /\ doing' = "cgi" /\ UNCHANGED response
  <2>1. Len(b) >= HeaderLength(asks[i]) + asks[i].length
    BY <1>1, <1>3, <1>6
  <2>2. requestBody' = BodyOf(i)
    BY <1>1, <1>2, <1>6, <2>1, BodyIs
  <2>3. BodyOf(i) \in Seq(Cell)
    <3> DEFINE n == asks[i].length
    <3>1. [of |-> i, part |-> "body"] \in Cell /\ n \in Nat
      BY <1>1 DEF Cell
    <3>2. BodyOf(i) \in [1 .. n -> Cell]
      BY <3>1 DEF BodyOf
    <3> QED BY <3>1, <3>2
  <2> QED BY <1>6, <2>1, <2>2, <2>3 DEF TypeOK
<1> QED BY <1>4, <1>5, <1>6, <1>7 DEF handleResponse

\* The header of a buffer that nothing was taken from yet.
LEMMA Parsed ==
  ASSUME TypeOK, asks \in Seq(Ask), NEW S, Layout(asks, sent, S), FieldsFit(S),
         doing \in {"reading", "cgi"}, state = "READY",
         NEW b, Window(sent, Base, b), b # <<>>, parsingHeader(b)
  PROVE  \/ UNCHANGED <<state, current, bodyStartIndex, contentLength, requestBody,
                        doing, response>>
         \/ /\ b[1].part # "line"
            /\ doing' = "writing"
            /\ Refusal(current, response')
            /\ UNCHANGED <<state, current, bodyStartIndex, contentLength, requestBody>>
         \/ /\ \E i : HeaderTaken(S, i, b)
            /\ doing' = "writing"
            /\ Refusal(current', response')
            /\ UNCHANGED <<state, requestBody>>
         \/ /\ \E i : HeaderTaken(S, i, b)
            /\ state' = "DONE" /\ doing = "reading" /\ handleResponse(b)
<1>1. current = 0 /\ contentLength = 0 /\ doing = "reading"
  BY DEF FieldsFit, TypeOK
<1>2. CASE /\ headerEnd(b) = 0
           /\ UNCHANGED <<state, current, bodyStartIndex, contentLength, requestBody, doing, response>>
  BY <1>2
<1>3. CASE /\ headerEnd(b) # 0 /\ b[1].part # "line" /\ current' = current
           /\ Refuse(IF b[1].part = "body" THEN {400, 405} ELSE {400})
           /\ UNCHANGED <<state, bodyStartIndex, contentLength, requestBody>>
  <2>1. doing' = "writing" /\ Refusal(current, response')
    BY <1>3, Refuses
  <2> QED BY <1>3, <2>1
<1>4. CASE /\ headerEnd(b) # 0 /\ b[1].part = "line"
           /\ current' = b[1].of
           /\ contentLength' = DeclaredLength(b)
           /\ bodyStartIndex' = headerEnd(b)
           /\ \/ Refuse({400, 405}) /\ UNCHANGED <<state, requestBody>>
              \/ state' = "DONE" /\ handleResponse(b)
  <2> DEFINE i == b[1].of
  <2>1. i \in 1 .. Len(asks) /\ Base = S[i]
    BY <1>4, LineBegins
  <2> HIDE DEF i
  <2>2. Window(sent, S[i], b)
    BY <2>1
  <2>3. headerEnd(b) = HeaderLength(asks[i]) /\ HeaderLength(asks[i]) <= Len(b)
    BY <1>4, <2>1, <2>2, HeaderOf
  <2>4. DeclaredLength(b) = asks[i].length
    <3>1. asks \in Dialogues
      BY DEF TypeOK
    <3> QED BY <1>1, <1>4, <2>1, <2>2, <3>1, LengthOf
  <2>5. current' = i
    BY <1>4 DEF i
  <2>6. HeaderTaken(S, i, b)
    <3>1. Len(b) \in Nat /\ HeaderLength(asks[i]) \in {2, 3}
      BY <2>1, Shape DEF Window
    <3>2. Len(b) >= HeaderLength(asks[i])
      BY <2>3, <3>1
    <3> QED BY <1>4, <2>1, <2>3, <2>4, <2>5, <3>2 DEF HeaderTaken
  <2>7. Refuse({400, 405}) => doing' = "writing" /\ Refusal(current', response')
    BY Refuses
  <2> QED BY <1>1, <1>4, <2>6, <2>7
<1> QED BY <1>2, <1>3, <1>4 DEF parsingHeader

\* What a read event does, in terms of the requests made.
LEMMA Taken ==
  ASSUME TypeOK, asks \in Seq(Ask), NEW S, Layout(asks, sent, S), FieldsFit(S),
         NEW n \in Nat, handleRequest(n), 
         NEW b, Filled(n, b),
         Window(sent, Base, b), b # <<>>, Len(b) = Len(requestBuffer) + n
  PROVE  /\ doing \in {"reading", "cgi"} /\ received' = received + n /\ requestBuffer' = b
         /\ UNCHANGED <<polite, asks, sent, answers>>
         /\ \/ /\ state = "READY"
               /\ UNCHANGED <<state, current, bodyStartIndex, contentLength, requestBody,
                              doing, response>>
            \/ /\ state = "READY" /\ b[1].part # "line"
               /\ doing' = "writing"
               /\ Refusal(current, response')
               /\ UNCHANGED <<state, current, bodyStartIndex, contentLength, requestBody>>
            \/ /\ state = "READY" /\ \E i : HeaderTaken(S, i, b)
               /\ doing' = "writing"
               /\ Refusal(current', response')
               /\ UNCHANGED <<state, requestBody>>
            \/ /\ \E i : HeaderTaken(S, i, b)
               /\ state' = "DONE"
               /\ doing = "cgi" => state = "DONE" /\ current' = current
               /\ handleResponse(b)
<1>1. /\ doing \in {"reading", "cgi"} /\ received' = received + n /\ requestBuffer' = b
      /\ \/ state = "READY" /\ parsingHeader(b)
         \/ /\ state = "DONE"
            /\ UNCHANGED <<state, current, bodyStartIndex, contentLength>>
            /\ handleResponse(b)
      /\ UNCHANGED <<polite, asks, sent, answers>>
  BY DEF handleRequest, Filled
<1>2. CASE /\ state = "DONE"
           /\ UNCHANGED <<state, current, bodyStartIndex, contentLength>>
           /\ handleResponse(b)
  <2>1. current # 0 /\ bodyStartIndex = HeaderLength(asks[current])
        /\ contentLength = asks[current].length
        /\ Len(requestBuffer) >= HeaderLength(asks[current])
    BY <1>2 DEF FieldsFit
  <2>2. current \in 1 .. Len(asks) /\ S[current] = Base
    BY <2>1 DEF FieldsFit
  <2>4. Len(b) >= HeaderLength(asks[current])
    <3>1. Len(requestBuffer) \in Nat /\ HeaderLength(asks[current]) \in {2, 3}
      BY <2>2, Shape DEF TypeOK
    <3> DEFINE w == Len(b)
               r == Len(requestBuffer)
    <3>2. w = r + n
      OBVIOUS
    <3>3. r \in Nat /\ r >= HeaderLength(asks[current])
      BY <2>1, <3>1
    <3> HIDE DEF w, r
    <3>4. w >= HeaderLength(asks[current])
      BY <3>1, <3>2, <3>3
    <3> QED BY <3>4 DEF w
  <2>3. HeaderTaken(S, current, b)
    BY <1>2, <2>1, <2>2, <2>4 DEF HeaderTaken
  <2> QED BY <1>1, <1>2, <2>3
<1>3. CASE state = "READY" /\ parsingHeader(b)
  BY <1>1, <1>3, Parsed
<1> QED BY <1>1, <1>2, <1>3

\* The fields, and what is done, when a read event has been handled.
Outcome(S, b) ==
  /\ current' # 0 => current' \in DOMAIN asks /\ S[current'] = Base
  /\ state' = "READY" => doing' # "cgi"
  /\ state' = "READY" /\ doing' = "reading" => current' = 0 /\ contentLength' = 0
  /\ state' = "DONE" => /\ current' # 0
                        /\ Len(b) >= HeaderLength(asks[current'])
                        /\ bodyStartIndex' = HeaderLength(asks[current'])
                        /\ contentLength' = asks[current'].length
  /\ doing' = "reading" => requestBody' = <<>>
  /\ doing' = "cgi" =>
       /\ Len(b) >= HeaderLength(asks[current']) + asks[current'].length
       /\ requestBody' = BodyOf(current')
  /\ doing' = "writing" =>
       /\ current' = 0 => b[1].part # "line"
       /\ Suits(current', response', b)

Types ==
  /\ state' \in {"READY", "DONE"} /\ current' \in Nat
  /\ bodyStartIndex' \in Nat /\ contentLength' \in Nat /\ requestBody' \in Seq(Cell)
  /\ doing' \in {"reading", "cgi", "writing"} /\ response' \in Answer

LEMMA ReadOutcome ==
  ASSUME TypeOK, asks \in Seq(Ask), NEW S, Layout(asks, sent, S), BufferFits, FieldsFit(S),
         NEW n \in Nat, handleRequest(n),
         NEW b, Filled(n, b),
         Window(sent, Base, b), b # <<>>, Len(b) = Len(requestBuffer) + n
  PROVE  Outcome(S, b) /\ Types
<1>0. doing \in {"reading", "cgi"}
  BY Taken
<1>1. CASE /\ state = "READY"
           /\ UNCHANGED <<state, current, bodyStartIndex, contentLength, requestBody,
                          doing, response>>
  <2>1. Outcome(S, b)
    BY <1>0, <1>1 DEF Outcome, FieldsFit
  <2>2. Types
    BY <1>0, <1>1 DEF Types, TypeOK
  <2> QED BY <2>1, <2>2
<1>2. CASE /\ state = "READY" /\ b[1].part # "line"
           /\ doing' = "writing"
           /\ Refusal(current, response')
           /\ UNCHANGED <<state, current, bodyStartIndex, contentLength, requestBody>>
  <2>2. response' \in Answer /\ Suits(current, response', b)
    BY <1>2, Refusals DEF TypeOK
  <2>1. Outcome(S, b)
    BY <1>0, <1>2, <2>2 DEF Outcome, FieldsFit
  <2>3. Types
    BY <1>2, <2>2 DEF Types, TypeOK
  <2> QED BY <2>1, <2>3
<1>3. CASE /\ state = "READY" /\ \E i : HeaderTaken(S, i, b)
           /\ doing' = "writing"
           /\ Refusal(current', response')
           /\ UNCHANGED <<state, requestBody>>
  <2>1. PICK i : HeaderTaken(S, i, b)
    BY <1>3
  <2>2. i \in 1 .. Len(asks) /\ i \in Nat /\ i # 0 /\ S[i] = Base /\ current' = i
        /\ bodyStartIndex' = HeaderLength(asks[i]) /\ contentLength' = asks[i].length
        /\ i \in DOMAIN asks /\ HeaderLength(asks[i]) \in {2, 3} /\ asks[i].length \in Nat
        /\ Len(b) >= HeaderLength(asks[i])
    <3>1. i \in 1 .. Len(asks) /\ S[i] = Base /\ current' = i
          /\ bodyStartIndex' = HeaderLength(asks[i]) /\ contentLength' = asks[i].length
          /\ Len(b) >= HeaderLength(asks[i])
      BY <2>1 DEF HeaderTaken
    <3>2. i \in Nat /\ i # 0 /\ i \in DOMAIN asks
      BY <3>1
    <3> QED BY <3>1, <3>2, Shape
  <2>4. response' \in Answer /\ Suits(current', response', b)
    BY <1>3, <2>2, Refusals
  <2>3. Outcome(S, b)
    BY <1>3, <2>2, <2>4 DEF Outcome
  <2>5. Types
    BY <1>3, <2>2, <2>4 DEF Types, TypeOK
  <2> QED BY <2>3, <2>5
<1>4. CASE /\ \E i : HeaderTaken(S, i, b)
           /\ state' = "DONE"
           /\ doing = "cgi" => state = "DONE" /\ current' = current
           /\ handleResponse(b)
  <2>1. PICK i : HeaderTaken(S, i, b)
    BY <1>4
  <2>2. i \in 1 .. Len(asks) /\ i \in Nat /\ i # 0 /\ S[i] = Base /\ current' = i
        /\ bodyStartIndex' = HeaderLength(asks[i]) /\ contentLength' = asks[i].length
        /\ i \in DOMAIN asks /\ HeaderLength(asks[i]) \in {2, 3} /\ asks[i].length \in Nat
        /\ Len(b) >= HeaderLength(asks[i])
    <3>1. i \in 1 .. Len(asks) /\ S[i] = Base /\ current' = i
          /\ bodyStartIndex' = HeaderLength(asks[i]) /\ contentLength' = asks[i].length
          /\ Len(b) >= HeaderLength(asks[i])
      BY <2>1 DEF HeaderTaken
    <3>2. i \in Nat /\ i # 0 /\ i \in DOMAIN asks
      BY <3>1
    <3> QED BY <3>1, <3>2, Shape
  <2>3. ASSUME doing = "cgi"
        PROVE  /\ Len(b) >= HeaderLength(asks[i]) + asks[i].length
               /\ requestBody = BodyOf(i)
    <3>1. Whole(i) /\ requestBody = BodyOf(i)
      BY <1>4, <2>2, <2>3 DEF FieldsFit
    <3>2. Len(requestBuffer) \in Nat
      BY DEF TypeOK
    <3> DEFINE w == Len(b)
               r == Len(requestBuffer)
               m == HeaderLength(asks[i]) + asks[i].length
    <3>3. w = r + n
      OBVIOUS
    <3>4. r >= m /\ m \in Nat /\ w = r + n /\ r \in Nat
      BY <2>2, <3>1, <3>2, <3>3 DEF Whole
    <3> HIDE DEF w, r, m
    <3>5. w >= m
      BY <3>4
    <3> QED BY <3>1, <3>5 DEF w, m
  <2>4. /\ requestBody' \in Seq(Cell) /\ response' \in Answer
        /\ doing' \in {"reading", "cgi", "writing"}
        /\ doing' = "reading" => requestBody' = <<>>
        /\ doing' = "cgi" => /\ Len(b) >= HeaderLength(asks[i]) + asks[i].length
                             /\ requestBody' = BodyOf(i)
        /\ doing' = "writing" => Suits(i, response', b)
    <3>1. doing = "reading" => requestBody = <<>>
      BY DEF FieldsFit
    <3> QED BY <1>0, <1>4, <2>1, <2>3, <3>1, Responds
  <2>5. Outcome(S, b)
    BY <1>4, <2>2, <2>4 DEF Outcome
  <2>6. Types
    BY <1>4, <2>2, <2>4 DEF Types
  <2> QED BY <2>5, <2>6
<1> QED BY <1>1, <1>2, <1>3, <1>4, Taken

LEMMA ReadKeeps ==
  ASSUME TypeOK, asks \in Seq(Ask), NEW S, Layout(asks, sent, S), BufferFits, FieldsFit(S),
         AnswersFit(S), TurnsFit(S), NEW n \in 1 .. Available - received, handleRequest(n)
  PROVE  /\ TypeOK' /\ Layout(asks, sent, S)' /\ BufferFits' /\ FieldsFit(S)'
         /\ AnswersFit(S)' /\ TurnsFit(S)'
<1>1. PICK b : Filled(n, b)
  BY DEF Filled
<1>2. /\ Window(sent, Base, b) /\ b # <<>>
      /\ n \in Nat /\ Len(b) = Len(requestBuffer) + n
      /\ received + n <= Available /\ Available <= Len(sent)
  BY <1>1, Arrives
<1>3. received' = received + n /\ requestBuffer' = b
      /\ polite' = polite /\ asks' = asks /\ sent' = sent /\ answers' = answers
  BY <1>1, <1>2, Taken
<1>4. Outcome(S, b) /\ Types
  BY <1>1, <1>2, ReadOutcome
<1>5. b \in Seq(Cell) /\ Len(b) \in Nat /\ Len(b) # 0
  BY <1>2 DEF Window
<1>6. Base' = Base
  <2> DEFINE w == Len(b)
             r == Len(requestBuffer)
  <2>1. Base = received - r /\ Base' = (received + n) - w
    BY <1>3 DEF Base
  <2>2. w = r + n /\ r \in Nat /\ received \in Nat
    BY <1>2 DEF TypeOK
  <2> HIDE DEF w, r
  <2> QED BY <1>2, <2>1, <2>2
<1>7. Layout(asks, sent, S)' /\ BufferFits'
  BY <1>2, <1>3, <1>6 DEF Layout, BufferFits
<1>8. TypeOK'
  <2>1. received' \in Nat
    BY <1>2, <1>3 DEF TypeOK
  <2> QED BY <1>3, <1>4, <1>5, <2>1 DEF TypeOK, Types
<1>9. FieldsFit(S)'
  BY <1>3, <1>4, <1>5, <1>6 DEF Outcome, FieldsFit, Whole, BodyOf
<1>10. \A a : Proper(a)' <=> Proper(a)
  BY <1>3 DEF Proper, BodyOf
<1>11. AnswersFit(S)'
  <2>1. ASSUME doing' = "writing"
        PROVE  /\ Proper(response)' /\ response'.to = current' /\ requestBuffer' # <<>>
               /\ TookAll(response)' => Whole(current)'
    <3>1. Suits(current', response', b) /\ (current' # 0 => current' \in DOMAIN asks)
      BY <1>4, <2>1 DEF Outcome
    <3>2. response'.to = current' /\ Proper(response)'
      BY <1>3, <3>1 DEF Suits, Proper, BodyOf
    <3>3. TookAll(response') => Len(b) >= HeaderLength(asks[current']) + asks[current'].length
      BY <3>1 DEF Suits
    <3>4. TookAll(response)' = TookAll(response')
      BY <1>3 DEF TookAll, BodyOf
    <3> QED BY <1>2, <1>3, <3>2, <3>3, <3>4 DEF Whole
  <2>2. ASSUME NEW k \in DOMAIN answers
        PROVE  /\ Proper(answers[k])'
               /\ answers[k].to # 0 => S[answers[k].to] < Base
               /\ ~Refused(answers[k]) => \A j \in 1 .. k - 1 : answers[j].to < answers[k].to
    BY <1>3 DEF AnswersFit, Proper, BodyOf
  <2> QED BY <1>3, <1>6, <2>1, <2>2 DEF AnswersFit
<1>12. TurnsFit(S)'
  <2> SUFFICES ASSUME polite, AllTaken
               PROVE  /\ Len(answers) < Len(asks) => received' <= S[Len(answers) + 2]
                      /\ doing' = "writing" => current' # 0
    <3>2. (\A k \in DOMAIN answers : \A j \in 1 .. k - 1 :
             TookAll(answers[j])' <=> TookAll(answers[j])) /\ (AllTaken' <=> AllTaken)
      BY <1>3 DEF AllTaken, TookAll, BodyOf
    <3> QED BY <1>3, <1>6, <3>2 DEF TurnsFit
  <2>1. Len(answers) \in Nat /\ Len(answers) <= Len(asks) /\ Base = S[Len(answers) + 1]
        /\ Len(asks) \in Nat /\ received \in Nat
    BY DEF TurnsFit, TypeOK
  <2>2. Len(answers) < Len(asks) => received' <= S[Len(answers) + 2]
    <3> SUFFICES ASSUME Len(answers) < Len(asks)
                 PROVE  received + n <= S[Len(answers) + 2]
      BY <1>3
    <3>1. Available \in Nat /\ Available <= S[Len(answers) + 2]
      BY AvailableIs
    <3>2. S[Len(answers) + 2] \in Nat
      BY <2>1 DEF Layout, LaidUpTo
    <3> QED BY <1>2, <2>1, <3>1, <3>2
  <2>3. Len(answers) + 1 \in 1 .. Len(asks)
    <3>1. Base + Len(b) <= Len(sent) /\ Base \in Nat /\ Len(sent) \in Nat
      BY <1>2 DEF Window, Layout, LaidUpTo
    <3>2. Base # Len(sent)
      BY <1>5, <3>1
    <3>3. Len(sent) = S[Len(asks) + 1]
      BY DEF Layout, LaidUpTo
    <3>4. Len(answers) # Len(asks)
      BY <2>1, <3>2, <3>3
    <3> QED BY <2>1, <3>4
  <2>4. b[1].part = "line"
    BY <1>2, <2>1, <2>3, BeginsLine
  <2> QED BY <1>4, <2>2, <2>4 DEF Outcome
<1> QED BY <1>7, <1>8, <1>9, <1>11, <1>12

-----------------------------------------------------------------------------
(***************************************************************************)
(* The other steps.                                                        *)
(***************************************************************************)

LEMMA EndKeeps ==
  ASSUME TypeOK, asks \in Seq(Ask), NEW S, Fits(S), handleEndProcess
  PROVE  TypeOK' /\ Fits(S)'
<1>1. /\ doing \in {"reading", "cgi"} /\ state = "DONE" /\ doing' = "writing"
      /\ \/ response' = [to |-> current, body |-> requestBody, code |-> 200]
         \/ Refusal(current, response')
      /\ UNCHANGED <<polite, asks, sent, received, requestVars, answers>>
  <2>1. /\ doing \in {"reading", "cgi"} /\ state = "DONE"
        /\ \/ readyToSend([to |-> current, body |-> requestBody, code |-> 200])
           \/ Refuse({400})
        /\ UNCHANGED <<polite, asks, sent, received, requestVars, answers>>
        /\ current' = current
    BY DEF handleEndProcess, requestVars
  <2>2. CASE readyToSend([to |-> current, body |-> requestBody, code |-> 200])
    BY <2>1, <2>2 DEF readyToSend
  <2>3. CASE Refuse({400})
    <3>1. doing' = "writing" /\ Refusal(current', response')
      BY <2>3, Refuses
    <3> QED BY <2>1, <3>1
  <2> QED BY <2>1, <2>2, <2>3
<1>2. /\ current # 0 /\ current \in DOMAIN asks /\ S[current] = Base
      /\ requestBuffer # <<>> /\ Len(requestBuffer) >= HeaderLength(asks[current])
      /\ doing = "cgi" => Whole(current)
      /\ requestBody = IF doing = "cgi" THEN BodyOf(current) ELSE <<>>
      /\ HeaderLength(asks[current]) \in Nat /\ asks[current].length \in Nat
      /\ Len(requestBuffer) \in Nat
  <2>1. /\ current # 0 /\ current \in DOMAIN asks /\ S[current] = Base
        /\ requestBuffer # <<>> /\ Len(requestBuffer) >= HeaderLength(asks[current])
        /\ doing = "cgi" => Whole(current)
        /\ requestBody = IF doing = "cgi" THEN BodyOf(current) ELSE <<>>
    BY <1>1 DEF Fits, FieldsFit
  <2>2. current \in 1 .. Len(asks)
    BY <2>1
  <2>3. HeaderLength(asks[current]) \in {2, 3} /\ asks[current].length \in Nat
    BY <2>2, Shape
  <2> QED BY <2>1, <2>3 DEF TypeOK
<1>9. response' \in Answer /\ Suits(current, response', requestBuffer)
  <2>1. CASE Refusal(current, response')
    BY <2>1, Refusals DEF TypeOK
  <2>2. CASE response' = [to |-> current, body |-> requestBody, code |-> 200]
    <3>1. response' \in Answer
      BY <2>2 DEF Answer, TypeOK
    <3>2. response'.to = current /\ response'.body = requestBody
      BY <2>2
    <3>3. ASSUME doing # "cgi", requestBody = BodyOf(current)
          PROVE  asks[current].length = 0
      <4> DEFINE k == asks[current].length
      <4>1. <<>> = [j \in 1 .. k |-> [of |-> current, part |-> "body"]]
        BY <1>2, <3>3 DEF BodyOf
      <4>2. DOMAIN <<>> = 1 .. k /\ DOMAIN <<>> = {}
        <5>1. DOMAIN [j \in 1 .. k |-> [of |-> current, part |-> "body"]] = 1 .. k
          OBVIOUS
        <5>2. DOMAIN <<>> = {}
          OBVIOUS
        <5> QED BY <4>1, <5>1, <5>2, Zenon
      <4>3. k \in Nat /\ 1 \notin 1 .. k
        BY <1>2, <4>2
      <4> HIDE DEF k
      <4>4. k = 0
        BY <4>3
      <4> QED BY <4>4 DEF k
    <3>4. requestBody = BodyOf(current) =>
            Len(requestBuffer) >= HeaderLength(asks[current]) + asks[current].length
      <4>1. CASE doing = "cgi"
        BY <1>2, <4>1 DEF Whole
      <4>2. CASE doing # "cgi"
        BY <1>2, <3>3, <4>2
      <4> QED BY <4>1, <4>2
    <3>5. requestBody \in {<<>>, BodyOf(current)}
      BY <1>2
    <3>6. TookAll(response') => Len(requestBuffer) >= HeaderLength(asks[current]) + asks[current].length
      <4>1. asks[current].method = "POST"
        BY DEF handleEndProcess
      <4> QED BY <3>2, <3>4, <4>1 DEF TookAll
    <3> QED BY <1>2, <3>1, <3>2, <3>5, <3>6 DEF Suits
  <2> QED BY <1>1, <2>1, <2>2
<1>3. response' \in Answer
  BY <1>9
<1>4. TypeOK'
  BY <1>1, <1>3 DEF TypeOK, requestVars
<1>5. Layout(asks, sent, S)' /\ BufferFits' /\ Base' = Base
  BY <1>1 DEF Fits, Layout, BufferFits, Base, requestVars
<1>6. FieldsFit(S)'
  BY <1>1, <1>5 DEF Fits, FieldsFit, Whole, BodyOf, requestVars
<1>7. AnswersFit(S)'
  <2>1. /\ Proper(response)' /\ response'.to = current' /\ requestBuffer' # <<>>
        /\ TookAll(response)' => Whole(current)'
    <3>1. asks' = asks /\ current' = current /\ requestBuffer' = requestBuffer
      BY <1>1 DEF requestVars
    <3>2. Proper(response)' /\ response'.to = current'
      BY <1>2, <1>9, <3>1 DEF Suits, Proper, BodyOf
    <3>3. TookAll(response') => Len(requestBuffer) >= HeaderLength(asks[current]) + asks[current].length
      BY <1>9 DEF Suits
    <3>4. TookAll(response)' = TookAll(response')
      BY <3>1 DEF TookAll, BodyOf
    <3> QED BY <1>2, <3>1, <3>2, <3>3, <3>4 DEF Whole
  <2>2. ASSUME NEW k \in DOMAIN answers
        PROVE  /\ Proper(answers[k])'
               /\ answers[k].to # 0 => S[answers[k].to] < Base
               /\ ~Refused(answers[k]) => \A j \in 1 .. k - 1 : answers[j].to < answers[k].to
    BY <1>1 DEF Fits, AnswersFit, Proper, BodyOf
  <2> QED BY <1>1, <1>5, <2>1, <2>2 DEF AnswersFit
<1>8. TurnsFit(S)'
  BY <1>1, <1>2, <1>5, SMTT(60) DEF Fits, TurnsFit, AllTaken, TookAll, BodyOf, requestVars
<1> QED BY <1>4, <1>5, <1>6, <1>7, <1>8 DEF Fits

LEMMA CleanUpKeeps ==
  ASSUME TypeOK, asks \in Seq(Ask), NEW S, Fits(S), cleanUpClientResources
  PROVE  TypeOK' /\ Fits(S)'
<1>1. /\ doing' = "closed"
      /\ UNCHANGED <<polite, asks, sent, received, requestVars, response, answers>>
  BY DEF cleanUpClientResources
<1>2. TypeOK'
  BY <1>1 DEF TypeOK, requestVars
<1>3. Layout(asks, sent, S)' /\ BufferFits' /\ Base' = Base
  BY <1>1 DEF Fits, Layout, BufferFits, Base, requestVars
<1>4. FieldsFit(S)'
  BY <1>1, <1>3 DEF Fits, FieldsFit, requestVars
<1>5. AnswersFit(S)'
  BY <1>1, <1>3 DEF Fits, AnswersFit, Proper, BodyOf, requestVars
<1>6. TurnsFit(S)'
  BY <1>1, <1>3, SMTT(60) DEF Fits, TurnsFit, AllTaken, TookAll, BodyOf, requestVars
<1> QED BY <1>2, <1>3, <1>4, <1>5, <1>6 DEF Fits

LEMMA SendKeeps ==
  ASSUME TypeOK, asks \in Seq(Ask), NEW S, Fits(S), sendData
  PROVE  TypeOK' /\ Fits(S)'
<1>1. /\ doing = "writing" /\ doing' \in {"reading", "closed"} /\ response' = Fresh
      /\ answers' = Append(answers, response)
      /\ requestBuffer' = <<>> /\ state' = "READY" /\ current' = 0
      /\ bodyStartIndex' = 0 /\ contentLength' = 0 /\ requestBody' = <<>>
      /\ polite' = polite /\ asks' = asks /\ sent' = sent /\ received' = received
  BY DEF sendData, clearRequest
<1> DEFINE m == Len(answers)
<1>2. /\ m \in Nat /\ DOMAIN answers = 1 .. m
      /\ answers' \in Seq(Answer) /\ Len(answers') = m + 1 /\ DOMAIN answers' = 1 .. m + 1
      /\ answers'[m + 1] = response
      /\ \A k \in 1 .. m : answers'[k] = answers[k]
  BY <1>1 DEF TypeOK
<1>3. /\ received \in Nat /\ Base \in Nat /\ Base' = received
      /\ Len(requestBuffer) \in Nat /\ received = Base + Len(requestBuffer)
      /\ received <= Len(sent) /\ Len(sent) \in Nat
  <2>1. Base = received - Len(requestBuffer) /\ Base \in Nat
        /\ Base + Len(requestBuffer) <= Len(sent)
    BY DEF Base, Fits, BufferFits, Window
  <2>2. received \in Nat /\ Len(requestBuffer) \in Nat /\ sent \in Seq(Cell)
    BY DEF TypeOK, Fits, Layout, LaidUpTo
  <2>3. Base' = received
    BY <1>1, <2>2 DEF Base
  <2> DEFINE r == Len(requestBuffer)
             base == Base
             l == Len(sent)
  <2>4. base = received - r /\ base \in Nat /\ r \in Nat /\ base + r <= l /\ l \in Nat
    BY <2>1, <2>2
  <2> HIDE DEF r, base, l
  <2>5. received = base + r /\ received <= l
    BY <2>2, <2>4
  <2> QED BY <2>2, <2>3, <2>4, <2>5 DEF r, base, l
<1>4. /\ Proper(response) /\ response.to = current /\ response \in Answer
      /\ requestBuffer # <<>>
      /\ TookAll(response) => Whole(current)
      /\ current # 0 => current \in DOMAIN asks /\ S[current] = Base
  BY <1>1 DEF Fits, AnswersFit, FieldsFit, TypeOK
<1>5. Base < received
  <2>1. Len(requestBuffer) # 0
    BY <1>4 DEF TypeOK
  <2> QED BY <1>3, <2>1
<1>6. TypeOK'
  BY <1>1, <1>2 DEF TypeOK, Fresh, Answer
<1>7. Layout(asks, sent, S)'
  BY <1>1 DEF Fits, Layout
<1>8. BufferFits'
  BY <1>1, <1>3 DEF BufferFits, Window
<1>9. FieldsFit(S)'
  BY <1>1 DEF FieldsFit
<1>10. \A a : Proper(a)' <=> Proper(a)
  BY <1>1 DEF Proper, BodyOf
<1>11. AnswersFit(S)'
  <2>1. ASSUME NEW k \in 1 .. m
        PROVE  /\ Proper(answers'[k])
               /\ answers'[k].to # 0 => S[answers'[k].to] < Base'
               /\ ~Refused(answers'[k]) => \A j \in 1 .. k - 1 : answers'[j].to < answers'[k].to
    <3>1. /\ Proper(answers[k])
          /\ answers[k].to # 0 => S[answers[k].to] < Base
          /\ ~Refused(answers[k]) => \A j \in 1 .. k - 1 : answers[j].to < answers[k].to
      BY <1>2 DEF Fits, AnswersFit
    <3>3. answers[k].to # 0 => S[answers[k].to] < received
      <4>1. ASSUME answers[k].to # 0
            PROVE  S[answers[k].to] \in Nat
        <5>1. answers[k].to \in DOMAIN asks
          BY <3>1, <4>1 DEF Proper
        <5>2. answers[k].to \in 1 .. Len(asks) + 1
          BY <5>1
        <5> QED BY <5>2 DEF Fits, Layout, LaidUpTo
      <4> QED BY <1>3, <1>5, <3>1, <4>1
    <3>4. answers'[k] = answers[k] /\ \A j \in 1 .. k - 1 : answers'[j] = answers[j]
      BY <1>2
    <3> QED BY <1>3, <3>1, <3>3, <3>4
  <2>2. /\ Proper(response)
        /\ response.to # 0 => S[response.to] < Base'
    BY <1>3, <1>4, <1>5 DEF Proper
  <2>3. ASSUME ~Refused(response), NEW j \in 1 .. m
        PROVE  answers[j].to < response.to
    <3>1. response.to # 0 /\ response.to \in Nat /\ S[response.to] = Base
          /\ response.to \in 1 .. Len(asks) + 1
      <4>1. response.to # 0 /\ S[response.to] = Base /\ response.to \in DOMAIN asks
        BY <1>4, <2>3 DEF Proper
      <4>2. Len(asks) \in Nat /\ DOMAIN asks = 1 .. Len(asks)
        OBVIOUS
      <4> QED BY <4>1, <4>2
    <3>2. answers[j].to \in Nat
      <4>1. answers[j] \in Answer
        BY <1>2 DEF TypeOK
      <4> QED BY <4>1 DEF Answer
    <3>3. CASE answers[j].to = 0
      BY <3>1, <3>3
    <3>4. CASE answers[j].to # 0
      <4>1. answers[j].to \in DOMAIN asks /\ S[answers[j].to] < Base
        BY <1>2, <3>4 DEF Fits, AnswersFit, Proper
      <4>2. answers[j].to \in 1 .. Len(asks) + 1
        BY <4>1
      <4>3. S[answers[j].to] < S[response.to]
        BY <3>1, <4>1
      <4> QED BY <3>1, <4>2, <4>3, Places DEF Fits
    <3> QED BY <3>3, <3>4
  <2>4. ASSUME NEW k \in 1 .. m + 1
        PROVE  /\ Proper(answers'[k])
               /\ answers'[k].to # 0 => S[answers'[k].to] < Base'
               /\ ~Refused(answers'[k]) => \A j \in 1 .. k - 1 : answers'[j].to < answers'[k].to
    <3>1. CASE k \in 1 .. m
      BY <2>1, <3>1
    <3>2. CASE k = m + 1
      <4>1. answers'[k] = response
        BY <1>2, <3>2
      <4>2. \A j \in 1 .. k - 1 : j \in 1 .. m /\ answers'[j] = answers[j]
        BY <1>2, <3>2
      <4> QED BY <2>2, <2>3, <4>1, <4>2
    <3> QED BY <1>2, <3>1, <3>2
  <2> QED BY <1>1, <1>2, <2>4 DEF AnswersFit, Proper, BodyOf
<1>12. TurnsFit(S)'
  <2> SUFFICES ASSUME polite
               PROVE  TurnsFit(S)'
    BY <1>1 DEF TurnsFit
  <2>1. ASSUME AllTaken
        PROVE  m < Len(asks) /\ current = m + 1
    <3>1. /\ m <= Len(asks) /\ Base = S[m + 1] /\ current # 0
      BY <1>1, <2>1 DEF Fits, TurnsFit
    <3>2. current \in 1 .. Len(asks) /\ S[current] = Base /\ Len(asks) \in Nat
      BY <1>4, <3>1
    <3>3. current \in 1 .. Len(asks) + 1 /\ m + 1 \in 1 .. Len(asks) + 1
      BY <1>2, <3>1, <3>2
    <3>4. current = m + 1
      BY <3>1, <3>2, <3>3, Places DEF Fits
    <3> QED BY <1>2, <3>2, <3>4
  <2>2. \A k \in 1 .. m :
          (\A j \in 1 .. k - 1 : TookAll(answers[j])) => answers[k].to = k
    BY <1>2 DEF Fits, TurnsFit
  <2>3. AllTaken <=> \A k \in 1 .. m : TookAll(answers[k])
    BY <1>2 DEF AllTaken
  <2>4. ASSUME NEW k \in 1 .. m + 1, \A j \in 1 .. k - 1 : TookAll(answers'[j])
        PROVE  answers'[k].to = k
    <3>1. CASE k \in 1 .. m
      <4>1. answers'[k] = answers[k] /\ \A j \in 1 .. k - 1 : answers'[j] = answers[j]
        BY <1>2, <3>1
      <4> QED BY <2>2, <2>4, <3>1, <4>1
    <3>2. CASE k = m + 1
      <4>1. answers'[k] = response /\ \A j \in 1 .. m : answers'[j] = answers[j] /\ j \in 1 .. k - 1
        BY <1>2, <3>2
      <4>2. AllTaken
        BY <2>3, <2>4, <4>1
      <4> QED BY <1>4, <2>1, <3>2, <4>1, <4>2
    <3> QED BY <1>2, <3>1, <3>2
  <2>5. ASSUME AllTaken'
        PROVE  /\ m + 1 <= Len(asks) /\ received = S[m + 2]
               /\ m + 1 < Len(asks) => received <= S[m + 3]
    <3>1. AllTaken /\ TookAll(response)
      <4>1. \A k \in 1 .. m + 1 : TookAll(answers'[k])
        <5>1. \A k \in 1 .. m + 1 : TookAll(answers[k])'
          BY <1>2, <2>5 DEF AllTaken
        <5> QED BY <1>1, <5>1 DEF TookAll, BodyOf
      <4>2. m + 1 \in 1 .. m + 1 /\ \A k \in 1 .. m : k \in 1 .. m + 1
        BY <1>2
      <4> QED BY <1>2, <2>3, <4>1, <4>2
    <3>2. m < Len(asks) /\ current = m + 1 /\ m + 1 \in 1 .. Len(asks) /\ Len(asks) \in Nat
      BY <1>2, <2>1, <3>1
    <3>3. received <= S[m + 2]
      BY <3>1, <3>2 DEF Fits, TurnsFit
    <3>4. Whole(m + 1) /\ S[m + 1] = Base
      BY <1>4, <3>1, <3>2
    <3> DEFINE x == S[m + 1]
               y == S[m + 2]
               H == HeaderLength(asks[m + 1])
               n == asks[m + 1].length
               r == Len(requestBuffer)
    <3>5. y = x + H + n /\ x \in Nat /\ y \in Nat
      <4>1. (m + 1) + 1 = m + 2 /\ m + 2 \in 1 .. Len(asks) + 1 /\ m + 1 \in 1 .. Len(asks) + 1
        BY <1>2, <3>2
      <4> QED BY <3>2, <4>1 DEF Fits, Layout, LaidUpTo
    <3>6. H \in Nat /\ n \in Nat
      BY <3>2, Shape
    <3>7. r >= H + n /\ r \in Nat /\ received = x + r /\ received <= y
      BY <1>3, <3>3, <3>4 DEF Whole
    <3> HIDE DEF x, y, H, n, r
    <3>8. received = y
      BY <1>3, <3>5, <3>6, <3>7
    <3>9. ASSUME m + 1 < Len(asks)
          PROVE  S[m + 2] <= S[m + 3]
      <4>1. m + 2 \in 1 .. Len(asks) + 1 /\ m + 3 \in 1 .. Len(asks) + 1 /\ m + 2 <= m + 3
        BY <1>2, <3>2, <3>9
      <4> QED BY <4>1, Places DEF Fits
    <3> QED BY <3>2, <3>8, <3>9 DEF y
  <2>6. m + 1 + 1 = m + 2 /\ m + 1 + 2 = m + 3
    BY <1>2
  <2>7. \A k \in DOMAIN answers' :
          (\A j \in 1 .. k - 1 : TookAll(answers[j])') => answers'[k].to = k
    <3>2. \A k \in 1 .. m + 1 : \A j \in 1 .. k - 1 : TookAll(answers[j])' => TookAll(answers'[j])
      BY <1>1 DEF TookAll, BodyOf
    <3> QED BY <1>2, <2>4, <3>2
  <2> QED BY <1>1, <1>2, <1>3, <2>5, <2>6, <2>7 DEF TurnsFit
<1> QED BY <1>6, <1>7, <1>8, <1>9, <1>11, <1>12 DEF Fits

-----------------------------------------------------------------------------
(***************************************************************************)
(* The theorems.                                                           *)
(***************************************************************************)

LEMMA Asked == TypeOK => asks \in Seq(Ask)
BY DialoguesAssumption DEF TypeOK

LEMMA InitFits == Init => RInv
<1> SUFFICES ASSUME Init PROVE RInv
  OBVIOUS
<1>1. asks \in Dialogues /\ asks \in Seq(Ask)
  BY DialoguesAssumption DEF Init
<1>2. TypeOK
  BY <1>1 DEF Init, TypeOK, Fresh, Answer
<1>3. PICK S : Layout(asks, sent, S)
  <2> DEFINE all == FlattenSeq([i \in DOMAIN asks |-> Sends(asks, i)])
  <2>1. \E S : Layout(asks, all, S)
    BY <1>1, Laid
  <2>2. sent = all
    BY DEF Init
  <2> HIDE DEF all
  <2> QED BY <2>1, <2>2
<1>4. Base = 0 /\ requestBuffer = <<>> /\ answers = <<>> /\ AllTaken
  <2>1. received = 0 /\ requestBuffer = <<>> /\ answers = <<>>
    BY DEF Init
  <2>2. Len(<<>>) = 0 /\ DOMAIN <<>> = {}
    OBVIOUS
  <2>3. Len(requestBuffer) = 0 /\ DOMAIN answers = {}
    BY <2>1, <2>2
  <2>4. Base = 0
    <3>1. received = 0
      BY <2>1
    <3> QED BY <2>3, <3>1 DEF Base
  <2>5. AllTaken
    BY <2>3 DEF AllTaken
  <2> QED BY <2>1, <2>4, <2>5
<1>5. BufferFits
  <2>1. Len(sent) \in Nat
    BY <1>3 DEF Layout, LaidUpTo
  <2> QED BY <1>4, <2>1 DEF BufferFits, Window
<1>6. FieldsFit(S)
  BY DEF Init, FieldsFit
<1>7. AnswersFit(S)
  BY DEF Init, AnswersFit
<1>8. TurnsFit(S)
  <2>1. Len(asks) \in Nat /\ S[1] = 0 /\ (Len(asks) # 0 => S[2] \in Nat)
    <3>1. Len(asks) \in Nat
      BY <1>1
    <3>2. S[1] = 0 /\ S \in [1 .. Len(asks) + 1 -> Nat]
      BY <1>3 DEF Layout, LaidUpTo
    <3>3. Len(asks) # 0 => 2 \in 1 .. Len(asks) + 1
      BY <3>1
    <3> QED BY <3>1, <3>2, <3>3
  <2> QED BY <1>4, <2>1 DEF Init, TurnsFit
<1> QED BY <1>2, <1>3, <1>5, <1>6, <1>7, <1>8 DEF RInv, Fits

LEMMA StepFits == RInv /\ [Next]_vars => RInv'
<1> SUFFICES ASSUME RInv, [Next]_vars PROVE RInv'
  OBVIOUS
<1>1. PICK S : Fits(S)
  BY DEF RInv
<1>2. TypeOK /\ asks \in Seq(Ask)
  BY Asked DEF RInv
<1>3. TypeOK' /\ Fits(S)'
  <2>1. CASE Read
    <3>1. PICK n \in 1 .. Available - received : handleRequest(n)
      BY <2>1 DEF Read
    <3>2. /\ Layout(asks, sent, S) /\ BufferFits /\ FieldsFit(S) /\ AnswersFit(S)
          /\ TurnsFit(S)
      BY <1>1 DEF Fits
    <3> QED BY <1>2, <3>1, <3>2, ReadKeeps DEF Fits
  <2>2. CASE handleEndProcess
    BY <1>1, <1>2, <2>2, EndKeeps
  <2>5. CASE cleanUpClientResources
    BY <1>1, <1>2, <2>5, CleanUpKeeps
  <2>3. CASE sendData
    BY <1>1, <1>2, <2>3, SendKeeps
  <2>4. CASE UNCHANGED vars
    <3>1. UNCHANGED <<polite, asks, sent, received, requestBuffer, state, current,
                      bodyStartIndex, contentLength, requestBody, doing, response, answers>>
      BY <2>4 DEF vars, requestVars
    <3>2. TypeOK' /\ Layout(asks, sent, S)' /\ BufferFits' /\ FieldsFit(S)'
      BY <1>1, <1>2, <3>1 DEF TypeOK, Fits, Layout, BufferFits, Base, FieldsFit, Whole, BodyOf
    <3>3. AnswersFit(S)'
      BY <1>1, <3>1 DEF Fits, AnswersFit, Base, Proper, Whole, TookAll, BodyOf
    <3>4. TurnsFit(S)'
      BY <1>1, <3>1 DEF Fits, TurnsFit, Base, AllTaken, TookAll, BodyOf
    <3> QED BY <3>2, <3>3, <3>4 DEF Fits
  <2> QED BY <2>1, <2>2, <2>3, <2>4, <2>5 DEF Next
<1> QED BY <1>3 DEF RInv

\* The buffer always holds the stream from the beginning of what was not answered
\* yet, the fields are those of the request that begins there, and every answer
\* is of a request that lies before it.
THEOREM StreamInvariant == Spec => []RInv
BY InitFits, StepFits, PTL DEF Spec

\* No request is carried out with another's bytes or a part of its own, or twice,
\* in any dialogue and however its stream is cut.
THEOREM RequestsUnmixed == Spec => []NeverMixed
<1>1. RInv => NeverMixed
  <2> SUFFICES ASSUME RInv PROVE NeverMixed
    OBVIOUS
  <2>1. PICK S : Fits(S)
    BY DEF RInv
  <2> QED BY <2>1 DEF Fits, AnswersFit, Proper, NeverMixed
<1> QED BY <1>1, StreamInvariant, PTL

\* A peer that waits for its answers has them in order, up to the first that is
\* given without the whole of the body.
THEOREM OrderKept == Spec => []AnswersInOrder
<1>1. RInv => AnswersInOrder
  <2> SUFFICES ASSUME RInv PROVE AnswersInOrder
    OBVIOUS
  <2>1. PICK S : Fits(S)
    BY DEF RInv
  <2> QED BY <2>1 DEF Fits, TurnsFit, AnswersInOrder
<1> QED BY <1>1, StreamInvariant, PTL

=============================================================================
