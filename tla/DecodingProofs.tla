---------------------------- MODULE DecodingProofs ----------------------------
(***************************************************************************)
(* What arrives is read as it was sent: lines of any length and any        *)
(* characters, and bodies of any chunks, however their stream is cut into  *)
(* pieces.  The two parts, HeaderLine and ChunkedBody, share only the      *)
(* general lemmas at the beginning.                                        *)
(***************************************************************************)
EXTENDS HeaderLine, ChunkedBody, Integers, FiniteSetTheorems,
        WellFoundedInduction, SequenceTheorems, TLAPS

-----------------------------------------------------------------------------
(***************************************************************************)
(* Induction, by the least number for which something fails.               *)
(***************************************************************************)

\* The least of a set of numbers.
LEMMA LeastOf ==
  ASSUME NEW S \in SUBSET Nat, S # {}
  PROVE  Min(S) \in S /\ \A y \in S : Min(S) <= y
<1>1. PICK m \in S : \A y \in S : <<y, m>> \notin OpToRel(<, Nat)
  BY NatLessThanWellFounded, WFMin
<1>2. ASSUME NEW y \in S, ~(m <= y) PROVE FALSE
  <2>1. y \in Nat /\ m \in Nat /\ y < m
    BY <1>2
  <2>2. <<y, m>> \in OpToRel(<, Nat)
    BY <2>1 DEF OpToRel
  <2> QED BY <1>1, <2>2
<1> QED BY <1>2 DEF Min

\* A set of numbers with 0 and the successors of its numbers below n.
LEMMA UpTo ==
  ASSUME NEW n \in Nat, NEW P, 0 \in P, \A m \in 0 .. n - 1 : m \in P => m + 1 \in P
  PROVE  \A m \in 0 .. n : m \in P
<1> DEFINE T == {m \in 0 .. n : m \notin P}
<1> SUFFICES ASSUME T # {} PROVE FALSE
  OBVIOUS
<1>1. PICK m \in T : \A y \in T : <<y, m>> \notin OpToRel(<, Nat)
  <2>1. T \subseteq Nat
    OBVIOUS
  <2>2. IsWellFoundedOn(OpToRel(<, Nat), Nat)
    BY NatLessThanWellFounded
  <2> HIDE DEF T
  <2> QED BY <2>1, <2>2, WFMin
<1>2. m # 0 /\ m - 1 \in 0 .. n - 1
  OBVIOUS
<1>3. <<m - 1, m>> \in OpToRel(<, Nat)
  BY <1>2 DEF OpToRel
<1>4. m - 1 \notin T
  BY <1>1, <1>3
<1>5. m - 1 \in P
  BY <1>2, <1>4
<1> QED BY <1>2, <1>5

\* What holds of a number when it holds of all that are less holds of every number.
LEMMA FromAllLess ==
  ASSUME NEW P, \A n \in Nat : (\A m \in 0 .. n - 1 : m \in P) => n \in P
  PROVE  \A n \in Nat : n \in P
<1> DEFINE T == {m \in Nat : m \notin P}
<1> SUFFICES ASSUME T # {} PROVE FALSE
  OBVIOUS
<1>1. PICK m \in T : \A y \in T : <<y, m>> \notin OpToRel(<, Nat)
  <2>1. T \subseteq Nat
    OBVIOUS
  <2>2. IsWellFoundedOn(OpToRel(<, Nat), Nat)
    BY NatLessThanWellFounded
  <2> HIDE DEF T
  <2> QED BY <2>1, <2>2, WFMin
<1>2. ASSUME NEW y \in 0 .. m - 1, y \notin P PROVE FALSE
  <2>1. y \in Nat /\ m \in Nat /\ y < m
    OBVIOUS
  <2>2. <<y, m>> \in OpToRel(<, Nat)
    BY <2>1 DEF OpToRel
  <2> QED BY <1>1, <1>2, <2>1, <2>2
<1> QED BY <1>2

-----------------------------------------------------------------------------
(***************************************************************************)
(* Sequences one after the other.                                          *)
(***************************************************************************)

\* The recursion by which FlattenSeq is defined has a solution.
LEMMA FlattenExists ==
  ASSUME NEW q, NEW n \in Nat
  PROVE  \E f : f = [i \in 1 .. n |-> IF i = 1 THEN q[i] ELSE f[i - 1] \o q[i]]
<1> DEFINE P == {m \in 0 .. n : \E f :
                   f = [i \in 1 .. m |-> IF i = 1 THEN q[i] ELSE f[i - 1] \o q[i]]}
<1>1. 0 \in P
  <2> DEFINE f == [i \in 1 .. 0 |-> q[i]]
  <2>1. f = [i \in 1 .. 0 |-> IF i = 1 THEN q[i] ELSE f[i - 1] \o q[i]]
    OBVIOUS
  <2>2. 0 \in 0 .. n
    OBVIOUS
  <2> HIDE DEF f
  <2> QED BY <2>1, <2>2, Zenon
<1>2. ASSUME NEW m \in 0 .. n - 1, m \in P
      PROVE  m + 1 \in P
  <2>1. PICK f : f = [i \in 1 .. m |-> IF i = 1 THEN q[i] ELSE f[i - 1] \o q[i]]
    BY <1>2
  <2> DEFINE g == [i \in 1 .. m + 1 |->
                     IF i \in 1 .. m THEN f[i]
                     ELSE IF i = 1 THEN q[i] ELSE f[i - 1] \o q[i]]
  <2>2. ASSUME NEW i \in 1 .. m + 1
        PROVE  g[i] = IF i = 1 THEN q[i] ELSE g[i - 1] \o q[i]
    <3>1. CASE i \in 1 .. m
      <4>1. g[i] = f[i]
        BY <3>1
      <4>2. f[i] = IF i = 1 THEN q[i] ELSE f[i - 1] \o q[i]
        BY <2>1, <3>1, Zenon
      <4>3. i # 1 => g[i - 1] = f[i - 1]
        BY <3>1
      <4> QED BY <4>1, <4>2, <4>3
    <3>2. CASE i = m + 1
      <4>1. g[i] = IF i = 1 THEN q[i] ELSE f[i - 1] \o q[i]
        BY <3>2
      <4>2. i # 1 => g[i - 1] = f[i - 1]
        BY <3>2
      <4> QED BY <4>1, <4>2
    <3> QED BY <3>1, <3>2
  <2>3. g = [i \in 1 .. m + 1 |-> g[i]]
    OBVIOUS
  <2> HIDE DEF g
  <2>4. g = [i \in 1 .. m + 1 |-> IF i = 1 THEN q[i] ELSE g[i - 1] \o q[i]]
    BY <2>2, <2>3
  <2>5. m + 1 \in 0 .. n
    OBVIOUS
  <2> QED BY <2>4, <2>5
<1>3. n \in P
  <2> HIDE DEF P
  <2> QED BY <1>1, <1>2, UpTo
<1> QED BY <1>3

LEMMA Flattened ==
  ASSUME NEW q, Len(q) \in Nat \ {0}
  PROVE  \E f : /\ f = [i \in 1 .. Len(q) |-> IF i = 1 THEN q[i] ELSE f[i - 1] \o q[i]]
                /\ FlattenSeq(q) = f[Len(q)]
<1> DEFINE f == CHOOSE f : f = [i \in 1 .. Len(q) |-> IF i = 1 THEN q[i] ELSE f[i - 1] \o q[i]]
<1>1. f = [i \in 1 .. Len(q) |-> IF i = 1 THEN q[i] ELSE f[i - 1] \o q[i]]
  BY FlattenExists, Zenon
<1>2. FlattenSeq(q) = f[Len(q)]
  BY Zenon DEF FlattenSeq
<1> HIDE DEF f
<1> QED BY <1>1, <1>2

\* Two sequences, one after the other.
LEMMA Concatenated ==
  ASSUME NEW T, NEW s \in Seq(T), NEW t \in Seq(T)
  PROVE  /\ s \o t \in Seq(T) /\ Len(s \o t) = Len(s) + Len(t)
         /\ Len(s) \in Nat /\ Len(t) \in Nat
         /\ \A j \in 1 .. Len(s) : (s \o t)[j] = s[j]
         /\ \A j \in 1 .. Len(t) : (s \o t)[Len(s) + j] = t[j]
OBVIOUS

\* Four sequences, one after the other.
LEMMA FourParts ==
  ASSUME NEW T, NEW s \in Seq(T), NEW t \in Seq(T), NEW u \in Seq(T), NEW v \in Seq(T),
         NEW w, w = s \o t \o u \o v
  PROVE  /\ Len(s) \in Nat /\ Len(t) \in Nat /\ Len(u) \in Nat /\ Len(v) \in Nat
         /\ w \in Seq(T)
         /\ Len(w) = Len(s) + Len(t) + Len(u) + Len(v)
         /\ \A j \in 1 .. Len(s) : w[j] = s[j]
         /\ \A j \in 1 .. Len(t) : w[Len(s) + j] = t[j]
         /\ \A j \in 1 .. Len(u) : w[Len(s) + Len(t) + j] = u[j]
         /\ \A j \in 1 .. Len(v) : w[Len(s) + Len(t) + Len(u) + j] = v[j]
<1> DEFINE a == s \o t
           b == a \o u
<1>1. /\ a \in Seq(T) /\ Len(a) = Len(s) + Len(t)
      /\ Len(s) \in Nat /\ Len(t) \in Nat
      /\ \A j \in 1 .. Len(s) : a[j] = s[j]
      /\ \A j \in 1 .. Len(t) : a[Len(s) + j] = t[j]
  BY Concatenated
<1>a. a \in Seq(T)
  BY <1>1
<1> HIDE DEF a
<1>2. /\ b \in Seq(T) /\ Len(b) = Len(a) + Len(u)
      /\ Len(a) \in Nat /\ Len(u) \in Nat
      /\ \A j \in 1 .. Len(a) : b[j] = a[j]
      /\ \A j \in 1 .. Len(u) : b[Len(a) + j] = u[j]
  BY <1>a, Concatenated
<1>b. b \in Seq(T)
  BY <1>2
<1> HIDE DEF b
<1>3. /\ w \in Seq(T) /\ Len(w) = Len(b) + Len(v)
      /\ Len(b) \in Nat /\ Len(v) \in Nat
      /\ \A j \in 1 .. Len(b) : w[j] = b[j]
      /\ \A j \in 1 .. Len(v) : w[Len(b) + j] = v[j]
  <2> DEFINE z == b \o v
  <2>1. /\ z \in Seq(T) /\ Len(z) = Len(b) + Len(v)
        /\ Len(b) \in Nat /\ Len(v) \in Nat
        /\ \A j \in 1 .. Len(b) : z[j] = b[j]
        /\ \A j \in 1 .. Len(v) : z[Len(b) + j] = v[j]
    BY <1>b, Concatenated
  <2>2. w = z
    BY DEF b, a
  <2> QED BY <2>1, <2>2, Zenon
<1>4. Len(w) = Len(s) + Len(t) + Len(u) + Len(v)
  BY <1>1, <1>2, <1>3
<1>5. \A j \in 1 .. Len(s) : w[j] = s[j]
  <2>1. \A j \in 1 .. Len(s) : j \in 1 .. Len(a) /\ j \in 1 .. Len(b)
    BY <1>1, <1>2, <1>3
  <2> QED BY <1>1, <1>2, <1>3, <2>1, Zenon
<1>6. \A j \in 1 .. Len(t) : w[Len(s) + j] = t[j]
  <2>1. \A j \in 1 .. Len(t) : Len(s) + j \in 1 .. Len(a) /\ Len(s) + j \in 1 .. Len(b)
    BY <1>1, <1>2, <1>3
  <2> QED BY <1>1, <1>2, <1>3, <2>1, Zenon
<1>7. \A j \in 1 .. Len(u) : w[Len(s) + Len(t) + j] = u[j]
  <2>1. \A j \in 1 .. Len(u) : /\ Len(s) + Len(t) + j = Len(a) + j
                               /\ Len(a) + j \in 1 .. Len(b)
    BY <1>1, <1>2, <1>3
  <2> QED BY <1>1, <1>2, <1>3, <2>1, ZenonT(60)
<1>8. \A j \in 1 .. Len(v) : w[Len(s) + Len(t) + Len(u) + j] = v[j]
  <2>1. \A j \in 1 .. Len(v) : Len(s) + Len(t) + Len(u) + j = Len(b) + j
    BY <1>1, <1>2, <1>3
  <2> QED BY <1>3, <2>1, Zenon
<1> QED BY <1>1, <1>2, <1>3, <1>4, <1>5, <1>6, <1>7, <1>8

\* Sequences one after the other are a sequence.
LEMMA FlattenTyped ==
  ASSUME NEW T, NEW q \in Seq(Seq(T))
  PROVE  FlattenSeq(q) \in Seq(T)
<1>0. Len(q) \in Nat /\ \A i \in 1 .. Len(q) : q[i] \in Seq(T)
  OBVIOUS
<1>1. CASE Len(q) = 0
  <2>1. FlattenSeq(q) = q
    BY <1>1 DEF FlattenSeq
  <2>2. q = <<>>
    BY <1>1
  <2> QED BY <2>1, <2>2
<1>2. CASE Len(q) # 0
  <2>1. PICK f : /\ f = [i \in 1 .. Len(q) |-> IF i = 1 THEN q[i] ELSE f[i - 1] \o q[i]]
                 /\ FlattenSeq(q) = f[Len(q)]
    BY <1>0, <1>2, Flattened
  <2> DEFINE P == {m \in 0 .. Len(q) : m # 0 => f[m] \in Seq(T)}
  <2>2. \A i \in 1 .. Len(q) : f[i] = IF i = 1 THEN q[i] ELSE f[i - 1] \o q[i]
    BY <2>1, Zenon
  <2>3. ASSUME NEW m \in 0 .. Len(q) - 1, m \in P
        PROVE  m + 1 \in P
    <3>1. m + 1 \in 1 .. Len(q) /\ (m + 1) - 1 = m /\ m \in Nat
      BY <1>0
    <3>2. q[m + 1] \in Seq(T) /\ f[m + 1] = IF m + 1 = 1 THEN q[m + 1] ELSE f[m] \o q[m + 1]
      BY <1>0, <2>2, <3>1, Zenon
    <3>3. CASE m = 0
      BY <3>1, <3>2, <3>3
    <3>4. CASE m # 0
      <4>1. f[m] \in Seq(T)
        BY <2>3, <3>4
      <4>2. f[m + 1] = f[m] \o q[m + 1]
        <5>1. m + 1 # 1
          BY <3>1, <3>4
        <5> QED BY <3>2, <5>1, Zenon
      <4>3. f[m + 1] \in Seq(T)
        BY <3>2, <4>1, <4>2
      <4> QED BY <3>1, <4>3
    <3> QED BY <3>3, <3>4
  <2>4. 0 \in P
    BY <1>0
  <2>5. Len(q) \in P
    <3>1. Len(q) \in 0 .. Len(q)
      BY <1>0
    <3> HIDE DEF P
    <3> QED BY <1>0, <2>3, <2>4, <3>1, UpTo
  <2> QED BY <1>2, <2>1, <2>5
<1> QED BY <1>1, <1>2

\* One sequence more at the end.
LEMMA FlattenMore ==
  ASSUME NEW T, NEW q \in Seq(Seq(T)), NEW r \in Seq(Seq(T)),
         Len(q) = Len(r) + 1, \A i \in 1 .. Len(r) : q[i] = r[i]
  PROVE  FlattenSeq(q) = FlattenSeq(r) \o q[Len(q)]
<1>0. /\ Len(q) \in Nat /\ Len(r) \in Nat /\ \A i \in 1 .. Len(q) : q[i] \in Seq(T)
      /\ Len(q) # 0 /\ Len(q) \in 1 .. Len(q) /\ Len(q) - 1 = Len(r)
      /\ (Len(r) # 0 => Len(q) # 1) /\ (Len(r) = 0 => Len(q) = 1)
  OBVIOUS
<1>1. PICK f : /\ f = [i \in 1 .. Len(q) |-> IF i = 1 THEN q[i] ELSE f[i - 1] \o q[i]]
               /\ FlattenSeq(q) = f[Len(q)]
  BY <1>0, Flattened
<1>2. \A i \in 1 .. Len(q) : f[i] = IF i = 1 THEN q[i] ELSE f[i - 1] \o q[i]
  BY <1>1, Zenon
<1>3. CASE Len(r) = 0
  <2>1. FlattenSeq(r) = r
    BY <1>3 DEF FlattenSeq
  <2>2. r = <<>>
    BY <1>3
  <2>3. f[Len(q)] = q[Len(q)] /\ q[Len(q)] \in Seq(T)
    BY <1>0, <1>2, <1>3, Zenon
  <2>4. <<>> \o q[Len(q)] = q[Len(q)]
    <3> DEFINE u == q[Len(q)]
    <3>1. u \in Seq(T)
      BY <2>3
    <3> HIDE DEF u
    <3>2. <<>> \o u = u
      BY <3>1
    <3> QED BY <3>2 DEF u
  <2> QED BY <1>1, <2>1, <2>2, <2>3, <2>4, Zenon
<1>4. CASE Len(r) # 0
  <2>1. PICK g : /\ g = [i \in 1 .. Len(r) |-> IF i = 1 THEN r[i] ELSE g[i - 1] \o r[i]]
                 /\ FlattenSeq(r) = g[Len(r)]
    BY <1>0, <1>4, Flattened
  <2>2. \A i \in 1 .. Len(r) : g[i] = IF i = 1 THEN r[i] ELSE g[i - 1] \o r[i]
    BY <2>1, Zenon
  <2> DEFINE P == {m \in 0 .. Len(r) : m # 0 => f[m] = g[m]}
  <2>3. ASSUME NEW m \in 0 .. Len(r) - 1, m \in P
        PROVE  m + 1 \in P
    <3>1. m + 1 \in 1 .. Len(r) /\ m + 1 \in 1 .. Len(q) /\ (m + 1) - 1 = m
          /\ m + 1 \in 0 .. Len(r) /\ (m # 0 => m + 1 # 1) /\ (m = 0 => m + 1 = 1)
      BY <1>0
    <3>2. q[m + 1] = r[m + 1]
      BY <3>1
    <3>3. m # 0 => f[m] = g[m]
      BY <2>3
    <3>5. /\ f[m + 1] = IF m + 1 = 1 THEN q[m + 1] ELSE f[m] \o q[m + 1]
          /\ g[m + 1] = IF m + 1 = 1 THEN r[m + 1] ELSE g[m] \o r[m + 1]
      BY <1>2, <2>2, <3>1, Zenon
    <3>4. f[m + 1] = g[m + 1]
      <4>1. CASE m = 0
        BY <3>1, <3>2, <3>5, <4>1, Zenon
      <4>2. CASE m # 0
        BY <3>2, <3>3, <3>5, <4>2, Zenon
      <4> QED BY <4>1, <4>2, Zenon
    <3> QED BY <3>1, <3>4
  <2>4. 0 \in P
    BY <1>0
  <2>5. f[Len(r)] = g[Len(r)]
    <3>1. Len(r) \in 0 .. Len(r)
      BY <1>0
    <3>2. Len(r) \in P
      <4> HIDE DEF P
      <4> QED BY <1>0, <2>3, <2>4, <3>1, UpTo
    <3> QED BY <1>4, <3>2
  <2>6. f[Len(q)] = f[Len(r)] \o q[Len(q)]
    BY <1>0, <1>2, <1>4, Zenon
  <2> QED BY <1>1, <2>1, <2>5, <2>6, Zenon
<1> QED BY <1>3, <1>4

-----------------------------------------------------------------------------
(***************************************************************************)
(* Lines of a header: what getToken has made of the line before start.     *)
(***************************************************************************)

Colons == Occurrences(line, <<"COLON", "SP">>)
ColonsSeen == {p \in Colons : p < start}

LineTypeOK ==
  /\ kind \in {"request", "field"} /\ line \in Seq(Character)
  /\ kind = "field" => line # <<>>
  /\ start \in 0 .. Over /\ token \in Seq(Seq(Character))
  /\ outcome \in {"unread", "read", "400", "undefined"}

\* The pieces of a field line: up to the first delimiter, if that is not where the
\* line begins, and one that begins with a space from each delimiter on.
FieldSeen ==
  kind = "field" =>
    /\ start = 0 => token = <<>>
    /\ start \in 1 .. Len(line) => start - 1 \in Colons
    /\ ColonsSeen = {} => start \in {0, Over} /\ (start = Over => token = <<line>>)
    /\ \A p \in ColonsSeen : ColonsSeen = {p} =>
         token = (IF p = 0 THEN <<>> ELSE <<SubSeq(line, 1, p)>>)
                   \o (IF start = Over THEN <<SubSeq(line, p + 2, Len(line))>> ELSE <<>>)
    /\ (\E p, q \in ColonsSeen : p # q) =>
         \/ 0 \notin ColonsSeen /\ Len(token) >= 2 /\ (start = Over => Len(token) >= 3)
         \/ 0 \in ColonsSeen /\ Len(token) >= 1 /\ Contains(token[1], "SP")
            /\ (start = Over => Len(token) >= 2)

WordsUpTo(n) == {i \in WordStarts : i <= n}

\* The words of a request line up to start, and the single spaces between them.
Spelled(before, t) ==
  IF Len(t) = 0 THEN before
  ELSE IF Len(t) = 1 THEN before \o t[1] \o <<"SP">>
  ELSE IF Len(t) = 2 THEN before \o t[1] \o <<"SP">> \o t[2] \o <<"SP">>
  ELSE before \o t[1] \o <<"SP">> \o t[2] \o <<"SP">> \o t[3] \o <<"SP">>

ThreeWords ==
  \E before, behind \in {<<>>, <<"SP">>} :
    line = before \o token[1] \o <<"SP">> \o token[2] \o <<"SP">> \o token[3] \o behind

RequestSeen ==
  kind = "request" =>
    /\ start \in 1 .. Len(line) => line[start] = "SP"
    /\ start = 0 => token = <<>>
    /\ Cardinality(WordsUpTo(start)) = Len(token)
    /\ ~DoubleSpace /\ start < Over /\ Len(token) <= 3 =>
         \E before \in {<<>>, <<"SP">>} : SubSeq(line, 1, start) = Spelled(before, token)
    /\ ~DoubleSpace /\ start = Over /\ Len(token) = 3 => ThreeWords

LineInv ==
  /\ LineTypeOK
  /\ FieldSeen /\ RequestSeen
  /\ FieldLine /\ RequestLine

-----------------------------------------------------------------------------
\* A part of a line.
LEMMA PartOf ==
  ASSUME NEW T, NEW l \in Seq(T), NEW a \in Nat, NEW e \in a .. Len(l)
  PROVE  /\ SubSeq(l, a + 1, e) \in Seq(T)
         /\ Len(SubSeq(l, a + 1, e)) = e - a
         /\ \A i \in 1 .. e - a : SubSeq(l, a + 1, e)[i] = l[a + i]
         /\ a = e => SubSeq(l, a + 1, e) = <<>>
         /\ a # e => SubSeq(l, a + 1, e) # <<>>
<1>0. Len(l) \in Nat
  OBVIOUS
<1>1. /\ SubSeq(l, a + 1, e) \in Seq(T) /\ Len(SubSeq(l, a + 1, e)) = e - a
      /\ \A i \in 1 .. e - a : SubSeq(l, a + 1, e)[i] = l[a + i]
  BY <1>0
<1>2. Len(<<>>) = 0
  OBVIOUS
<1>3. ASSUME a = e PROVE SubSeq(l, a + 1, e) = <<>>
  BY <1>0, <1>1, <1>3
<1> QED BY <1>0, <1>1, <1>2, <1>3

\* Where a text stands, letter by letter.
LEMMA TextStands ==
  ASSUME NEW T, NEW l \in Seq(T), NEW t \in Seq(T), NEW p
  PROVE  p \in Occurrences(l, t)
           <=> p \in Nat /\ p + Len(t) <= Len(l) /\ \A i \in 1 .. Len(t) : l[p + i] = t[i]
<1>1. Len(l) \in Nat /\ Len(t) \in Nat
  OBVIOUS
<1>2. p \in Occurrences(l, t)
        <=> p \in 0 .. Len(l) /\ p + Len(t) <= Len(l) /\ SubSeq(l, p + 1, p + Len(t)) = t
  BY DEF Occurrences
<1>3. ASSUME p \in Nat, p + Len(t) <= Len(l)
      PROVE  SubSeq(l, p + 1, p + Len(t)) = t <=> \A i \in 1 .. Len(t) : l[p + i] = t[i]
  <2> DEFINE s == SubSeq(l, p + 1, p + Len(t))
  <2>1. s \in Seq(T) /\ Len(s) = Len(t) /\ \A i \in 1 .. Len(t) : s[i] = l[p + i]
    <3>1. p + Len(t) \in p .. Len(l) /\ (p + Len(t)) - p = Len(t)
      BY <1>1, <1>3
    <3> QED BY <1>3, <3>1, PartOf
  <2> HIDE DEF s
  <2>2. s = t <=> \A i \in 1 .. Len(t) : s[i] = t[i]
    BY <2>1, SeqEqual
  <2>3. s = t <=> \A i \in 1 .. Len(t) : l[p + i] = t[i]
    BY <2>1, <2>2
  <2> QED BY <2>3 DEF s
<1> QED BY <1>1, <1>2, <1>3

LEMMA ColonsStand ==
  ASSUME line \in Seq(Character)
  PROVE  \A p : p \in Colons <=> /\ p \in Nat /\ p + 2 <= Len(line)
                                 /\ line[p + 1] = "COLON" /\ line[p + 2] = "SP"
<1> DEFINE t == <<"COLON", "SP">>
<1>1. t \in Seq(Character) /\ Len(t) = 2 /\ t[1] = "COLON" /\ t[2] = "SP"
  BY LinesAssumption
<1>3. t \in Seq(Character)
  BY <1>1
<1> HIDE DEF t
<1>2. ASSUME NEW p
      PROVE  p \in Occurrences(line, t)
               <=> p \in Nat /\ p + 2 <= Len(line) /\ line[p + 1] = "COLON" /\ line[p + 2] = "SP"
  <2>1. p \in Occurrences(line, t)
          <=> /\ p \in Nat /\ p + Len(t) <= Len(line)
              /\ \A i \in 1 .. Len(t) : line[p + i] = t[i]
    BY <1>3, TextStands
  <2> QED BY <1>1, <2>1
<1> QED BY <1>2, Zenon DEF Colons, t

\* What one round of getToken does: the part up to end, kept unless it is empty.
Piece(end) == SubSeq(line, start + 1, end)

Round(end) ==
  /\ end \in start .. Len(line)
  /\ token' = kept(Piece(end))
  /\ kind' = kind /\ line' = line /\ outcome' = outcome /\ outcome = "unread"
  /\ start < Over

\* With a delimiter at end, or none left.
FoundAt(text, end) ==
  /\ end \in Occurrences(line, text) /\ start' = end + 1
  /\ \A p \in Occurrences(line, text) : start <= p => end <= p

NoneLeft(text) ==
  /\ start' = Over
  /\ \A p \in Occurrences(line, text) : p < start

LEMMA Rounds ==
  ASSUME LineTypeOK, getToken
  PROVE  \E end : /\ Round(end)
                  /\ \/ FoundAt(Delimiter(kind), end)
                     \/ NoneLeft(Delimiter(kind)) /\ end = Len(line)
<1> DEFINE all == Occurrences(line, Delimiter(kind))
           found == {p \in all : start <= p}
           end == IF found = {} THEN Len(line) ELSE Min(found)
<1>1. all \subseteq 0 .. Len(line) /\ Len(line) \in Nat /\ start \in Nat /\ start <= Len(line)
  BY DEF Occurrences, LineTypeOK, getToken, Over
<1>2. found # {} => Min(found) \in found /\ \A y \in found : Min(found) <= y
  <2>1. found \subseteq Nat
    BY <1>1
  <2> HIDE DEF found
  <2> QED BY <2>1, LeastOf
<1>3. token' = kept(SubSeq(line, start + 1, end))
  BY DEF getToken
<1>4. start' = IF found = {} THEN Over ELSE next(end)
  BY DEF getToken
<1>5. kind' = kind /\ line' = line /\ outcome' = outcome /\ outcome = "unread" /\ start < Over
  BY DEF getToken
<1>6. end \in start .. Len(line)
  BY <1>1, <1>2
<1>7. Round(end)
  <2> HIDE DEF end
  <2> QED BY <1>3, <1>5, <1>6 DEF Round, Piece
<1>8. CASE found = {}
  <2>1. \A p \in all : p < start
    BY <1>1, <1>8
  <2> QED BY <1>4, <1>7, <1>8, <2>1 DEF NoneLeft
<1>9. CASE found # {}
  <2>1. end \in all /\ \A p \in all : start <= p => end <= p
    BY <1>2, <1>9
  <2>2. start' = end + 1
    BY <1>4, <1>9 DEF next
  <2> HIDE DEF end, found
  <2> QED BY <1>7, <2>1, <2>2 DEF FoundAt
<1> QED BY <1>8, <1>9

LEMMA TokenGrows ==
  ASSUME LineTypeOK, NEW end, Round(end)
  PROVE  /\ Piece(end) \in Seq(Character) /\ start \in Nat /\ Len(line) \in Nat /\ end \in Nat
         /\ start = end => token' = token
         /\ start # end =>
              /\ token' = Append(token, Piece(end))
              /\ Len(token') = Len(token) + 1 /\ token'[Len(token) + 1] = Piece(end)
              /\ \A i \in 1 .. Len(token) : token'[i] = token[i]
         /\ token' \in Seq(Seq(Character)) /\ Len(token) \in Nat
<1>1. line \in Seq(Character) /\ start \in Nat /\ end \in start .. Len(line) /\ Len(line) \in Nat
      /\ end \in Nat
  BY DEF LineTypeOK, Round, Over
<1>2. /\ Piece(end) \in Seq(Character)
      /\ start = end => Piece(end) = <<>>
      /\ start # end => Piece(end) # <<>>
  BY <1>1, PartOf DEF Piece
<1>3. token' = IF Piece(end) = <<>> THEN token ELSE Append(token, Piece(end))
  BY DEF Round, kept
<1>4. token \in Seq(Seq(Character)) /\ Len(token) \in Nat
  BY DEF LineTypeOK
<1> QED BY <1>1, <1>2, <1>3, <1>4

\* Characters, parts and positions stay what they are.
LEMMA RoundTyped ==
  ASSUME LineTypeOK, NEW end, Round(end),
         start' \in {end + 1, Over} /\ (start' = Over \/ end < Len(line))
  PROVE  LineTypeOK'
<1>1. token' \in Seq(Seq(Character)) /\ Len(line) \in Nat /\ end \in Nat
  BY TokenGrows
<1>2. end \in start .. Len(line) /\ Over' = Over
  BY DEF Round, Over
<1>3. start' \in 0 .. Over'
  BY <1>1, <1>2 DEF Over
<1> QED BY <1>1, <1>3 DEF LineTypeOK, Round

-----------------------------------------------------------------------------
(***************************************************************************)
(* Field lines.                                                            *)
(***************************************************************************)

LEMMA FieldRound ==
  ASSUME LineTypeOK, FieldSeen, kind = "field", getToken
  PROVE  LineTypeOK' /\ FieldSeen'
<1>1. PICK end : /\ Round(end)
                 /\ \/ FoundAt(<<"COLON", "SP">>, end)
                    \/ NoneLeft(<<"COLON", "SP">>) /\ end = Len(line)
  BY Rounds DEF Delimiter
<1>2. /\ Piece(end) \in Seq(Character) /\ start \in Nat /\ Len(line) \in Nat /\ end \in Nat
      /\ start = end => token' = token
      /\ start # end =>
           /\ token' = Append(token, Piece(end))
           /\ Len(token') = Len(token) + 1 /\ token'[Len(token) + 1] = Piece(end)
           /\ \A i \in 1 .. Len(token) : token'[i] = token[i]
      /\ token' \in Seq(Seq(Character)) /\ Len(token) \in Nat
  BY <1>1, TokenGrows
<1>3. /\ line' = line /\ kind' = kind /\ line \in Seq(Character) /\ line # <<>>
      /\ end \in start .. Len(line) /\ start < Over /\ Len(line) > 0
      /\ Colons' = Colons /\ Over' = Over /\ Over = Len(line) + 1
  BY <1>1, <1>2 DEF Round, LineTypeOK, Colons, Over, Occurrences
<1>4. \A p : p \in Colons <=> /\ p \in Nat /\ p + 2 <= Len(line)
                             /\ line[p + 1] = "COLON" /\ line[p + 2] = "SP"
  BY <1>3, ColonsStand
<1>5. /\ start = 0 => token = <<>>
      /\ start \in 1 .. Len(line) => start - 1 \in Colons
      /\ ColonsSeen = {} => start = 0
      /\ \A p \in ColonsSeen : ColonsSeen = {p} =>
           token = IF p = 0 THEN <<>> ELSE <<SubSeq(line, 1, p)>>
      /\ (\E p, q \in ColonsSeen : p # q) =>
           \/ 0 \notin ColonsSeen /\ Len(token) >= 2
           \/ 0 \in ColonsSeen /\ Len(token) >= 1 /\ Contains(token[1], "SP")
  <2>1. start # Over
    BY <1>2, <1>3
  <2>2. \A p \in ColonsSeen : ColonsSeen = {p} =>
           token = (IF p = 0 THEN <<>> ELSE <<SubSeq(line, 1, p)>>) \o <<>>
    BY <2>1 DEF FieldSeen
  <2>3. \A p \in ColonsSeen : (IF p = 0 THEN <<>> ELSE <<SubSeq(line, 1, p)>>) \o <<>>
                                = IF p = 0 THEN <<>> ELSE <<SubSeq(line, 1, p)>>
    OBVIOUS
  <2> QED BY <2>1, <2>2, <2>3 DEF FieldSeen
\* After the first delimiter every part begins with a space.
<1>6. ASSUME start # 0
      PROVE  /\ start \in 1 .. Len(line) /\ start - 1 \in Colons /\ line[start + 1] = "SP"
             /\ start + 1 <= Len(line) /\ start - 1 \in ColonsSeen
  <2>1. start \in 1 .. Len(line) /\ start - 1 \in Colons
    BY <1>2, <1>3, <1>5, <1>6
  <2>2. (start - 1) + 2 = start + 1
    BY <1>2
  <2> QED BY <1>2, <1>4, <2>1, <2>2 DEF ColonsSeen
<1>7. start = 0 => ColonsSeen = {}
  BY <1>4 DEF ColonsSeen
<1>8. ASSUME start # 0, start # end
      PROVE  Contains(Piece(end), "SP")
  <2>1. 1 \in 1 .. Len(Piece(end)) /\ Piece(end)[1] = line[start + 1]
    BY <1>2, <1>3, <1>8, PartOf DEF Piece
  <2> QED BY <1>6, <1>8, <2>1 DEF Contains
<1>9. CASE FoundAt(<<"COLON", "SP">>, end)
  <2>1. /\ end \in Colons /\ start' = end + 1
        /\ \A p \in Colons : start <= p => end <= p
    BY <1>9 DEF FoundAt, Colons
  <2>2. LineTypeOK'
    BY <1>1, <1>2, <1>4, <2>1, RoundTyped
  <2>3. ColonsSeen' = ColonsSeen \cup {end}
    <3>1. ASSUME NEW p \in Colons PROVE p < end + 1 <=> p < start \/ p = end
      <4>1. p \in Nat /\ (start <= p => end <= p)
        BY <1>4, <2>1, Zenon
      <4>2. start \in Nat /\ end \in Nat /\ start <= end
        BY <1>2, <1>3
      <4> QED BY <4>1, <4>2
    <3>2. ColonsSeen' = {p \in Colons : p < end + 1}
      BY <1>3, <2>1, Zenon DEF ColonsSeen
    <3> QED BY <2>1, <3>1, <3>2, Zenon DEF ColonsSeen
  <2>4. end \notin ColonsSeen
    BY <1>2, <1>3 DEF ColonsSeen
  <2>5. start' \in 1 .. Len(line) /\ start' # Over' /\ start' - 1 = end
    BY <1>2, <1>3, <1>4, <2>1
  <2>6. CASE start = 0
    <3>1. token = <<>> /\ ColonsSeen' = {end}
      BY <1>5, <1>7, <2>3, <2>6
    <3>2. token' = IF end = 0 THEN <<>> ELSE <<SubSeq(line, 1, end)>>
      <4>1. end # 0 => token' = Append(token, SubSeq(line, 1, end))
        BY <1>2, <2>6 DEF Piece
      <4> QED BY <1>2, <2>6, <3>1, <4>1
    <3>3. token' = (IF end = 0 THEN <<>> ELSE <<SubSeq(line, 1, end)>>) \o <<>>
      BY <3>2
    <3>4. \A p \in ColonsSeen' : p = end
      BY <3>1
    <3>5. start' # 0 /\ start' \in 1 .. Len(line)' /\ start' - 1 \in Colons'
      BY <1>3, <2>1, <2>5
    <3> QED BY <1>3, <2>2, <2>5, <3>1, <3>3, <3>4, <3>5 DEF FieldSeen
  <2>7. CASE start # 0
    <3>1. start # end
      BY <1>4, <1>6, <2>1, <2>7
    <3>2. Contains(Piece(end), "SP")
      BY <1>8, <2>7, <3>1
    <3>3. start - 1 \in ColonsSeen
      BY <1>6, <2>7
    <3>4. \/ 0 \notin ColonsSeen' /\ Len(token') >= 2
          \/ 0 \in ColonsSeen' /\ Len(token') >= 1 /\ Contains(token'[1], "SP")
      <4>1. end # 0
        BY <1>2, <1>3, <2>7
      <4>2. CASE ColonsSeen = {start - 1}
        <5>1. token = IF start - 1 = 0 THEN <<>> ELSE <<SubSeq(line, 1, start - 1)>>
          BY <1>5, <3>3, <4>2
        <5>2. CASE start - 1 = 0
          <6>1. Len(token) = 0 /\ 0 \in ColonsSeen'
            BY <2>3, <3>3, <5>1, <5>2
          <6>2. Len(token') = 1 /\ token'[1] = Piece(end)
            BY <1>2, <3>1, <6>1
          <6> QED BY <3>2, <6>1, <6>2
        <5>3. CASE start - 1 # 0
          <6>1. Len(token) = 1 /\ 0 \notin ColonsSeen'
            BY <2>3, <4>1, <4>2, <5>1, <5>3
          <6>2. Len(token') = Len(token) + 1
            BY <1>2, <3>1
          <6>3. Len(token') = 2
            BY <6>1, <6>2
          <6> QED BY <6>1, <6>3
        <5> QED BY <5>2, <5>3
      <4>3. CASE ColonsSeen # {start - 1}
        <5>1. \E p, q \in ColonsSeen : p # q
          BY <3>3, <4>3
        <5>2. 0 \in ColonsSeen' <=> 0 \in ColonsSeen
          BY <2>3, <4>1
        <5>3. CASE 0 \notin ColonsSeen /\ Len(token) >= 2
          BY <1>2, <3>1, <5>2, <5>3
        <5>4. CASE 0 \in ColonsSeen /\ Len(token) >= 1 /\ Contains(token[1], "SP")
          <6>1. token'[1] = token[1] /\ Len(token') >= 1
            BY <1>2, <3>1, <5>4
          <6> QED BY <5>2, <5>4, <6>1
        <5> QED BY <1>5, <5>1, <5>3, <5>4
      <4> QED BY <4>2, <4>3
    <3>5. \A p \in ColonsSeen' : ColonsSeen' # {p}
      BY <2>3, <2>4, <3>3
    <3>6. ColonsSeen' # {} /\ start' # 0
      BY <1>2, <2>3, <2>5
    <3>7. start' - 1 \in Colons'
      BY <1>3, <2>1, <2>5
    <3> QED BY <2>2, <2>5, <3>4, <3>5, <3>6, <3>7 DEF FieldSeen
  <2> QED BY <2>6, <2>7
<1>10. CASE NoneLeft(<<"COLON", "SP">>) /\ end = Len(line)
  <2>1. start' = Over /\ \A p \in Colons : p < start
    BY <1>10 DEF NoneLeft, Colons
  <2>2. LineTypeOK'
    BY <1>1, <1>2, <1>10, <2>1, RoundTyped
  <2>3. ColonsSeen' = Colons /\ ColonsSeen = Colons
    BY <1>2, <1>3, <1>4, <2>1 DEF ColonsSeen
  <2>4. start # end
    <3>1. start = 0 => start # end
      BY <1>3, <1>10
    <3>2. start # 0 => start + 1 <= Len(line)
      BY <1>6
    <3> QED BY <1>2, <1>10, <3>1, <3>2
  <2>5. token' = Append(token, Piece(end)) /\ Len(token') = Len(token) + 1
        /\ \A i \in 1 .. Len(token) : token'[i] = token[i]
    BY <1>2, <2>4
  <2>6. start' # 0 /\ start' \notin 1 .. Len(line)' /\ start' = Over'
    BY <1>2, <1>3, <2>1
  <2>7. ColonsSeen' = {} => token' = <<line'>>
    <3>1. SUFFICES ASSUME Colons = {} PROVE token' = <<line>>
      BY <1>3, <2>3
    <3>2. start = 0 /\ token = <<>>
      BY <1>5, <2>3, <3>1
    <3>3. Piece(end) = line
      BY <1>3, <1>10, <3>2, SubSeqFull DEF Piece
    <3> QED BY <2>5, <3>2, <3>3
  <2>8. ASSUME NEW p \in ColonsSeen', ColonsSeen' = {p}
        PROVE  token' = (IF p = 0 THEN <<>> ELSE <<SubSeq(line, 1, p)>>)
                          \o <<SubSeq(line, p + 2, Len(line))>>
    <3>1. start # 0 /\ p = start - 1
      BY <1>6, <1>7, <2>3, <2>8
    <3>2. token = IF p = 0 THEN <<>> ELSE <<SubSeq(line, 1, p)>>
      BY <1>5, <2>3, <2>8
    <3>3. Piece(end) = SubSeq(line, p + 2, Len(line))
      <4>1. p + 2 = start + 1
        BY <1>2, <3>1
      <4> QED BY <1>10, <4>1 DEF Piece
    <3>4. token \in Seq(Seq(Character))
      BY DEF LineTypeOK
    <3>5. token' = token \o <<Piece(end)>>
      BY <1>2, <2>5, <3>4, AppendIsConcat
    <3> QED BY <3>2, <3>3, <3>5
  <2>9. ASSUME NEW p \in ColonsSeen', NEW q \in ColonsSeen', p # q
        PROVE  \/ 0 \notin ColonsSeen' /\ Len(token') >= 3
               \/ 0 \in ColonsSeen' /\ Len(token') >= 2 /\ Contains(token'[1], "SP")
    <3>1. CASE 0 \notin ColonsSeen /\ Len(token) >= 2
      BY <1>2, <2>3, <2>5, <3>1
    <3>2. CASE 0 \in ColonsSeen /\ Len(token) >= 1 /\ Contains(token[1], "SP")
      <4>1. token'[1] = token[1] /\ Len(token') >= 2
        BY <1>2, <2>5, <3>2
      <4> QED BY <2>3, <3>2, <4>1
    <3> QED BY <1>5, <2>3, <2>9, <3>1, <3>2
  <2>10. (Len(token') >= 3 => Len(token') >= 2) /\ (Len(token') >= 2 => Len(token') >= 1)
    BY <1>2, <2>5
  <2>11. ASSUME NEW p \in ColonsSeen', ColonsSeen' = {p}
         PROVE  token' = (IF p = 0 THEN <<>> ELSE <<SubSeq(line, 1, p)'>>)
                           \o (IF start' = Over' THEN <<SubSeq(line, p + 2, Len(line))'>> ELSE <<>>)
    BY <1>3, <2>6, <2>8, <2>11, Zenon
  <2>12. (\E p, q \in ColonsSeen' : p # q) =>
           \/ 0 \notin ColonsSeen' /\ Len(token') >= 2 /\ (start' = Over' => Len(token') >= 3)
           \/ /\ 0 \in ColonsSeen' /\ Len(token') >= 1 /\ Contains(token'[1], "SP")
              /\ (start' = Over' => Len(token') >= 2)
    BY <2>9, <2>10
  <2>13. FieldSeen'
    BY <2>6, <2>7, <2>11, <2>12, Zenon DEF FieldSeen
  <2> QED BY <2>2, <2>13
<1> QED BY <1>1, <1>9, <1>10

\* A line is what comes before a delimiter, the delimiter, and what comes after it.
LEMMA Apart ==
  ASSUME NEW T, NEW l \in Seq(T), NEW p \in Nat, p + 2 <= Len(l)
  PROVE  l = SubSeq(l, 1, p) \o <<l[p + 1], l[p + 2]>> \o SubSeq(l, p + 3, Len(l))
<1>1. Len(l) \in Nat /\ p + 1 \in 1 .. Len(l) /\ p + 2 \in p + 1 .. Len(l)
      /\ p + 2 \in 1 .. Len(l) /\ p + 2 \in p + 2 .. Len(l)
  OBVIOUS
<1>2. SubSeq(l, p + 1, p + 2) = <<l[p + 1], l[p + 2]>>
  <2>1. SubSeq(l, p + 1, p + 2) = <<l[p + 1]>> \o SubSeq(l, (p + 1) + 1, p + 2)
    BY <1>1, SubSeqRecursiveFirst
  <2>2. SubSeq(l, p + 2, p + 2) = <<l[p + 2]>> \o SubSeq(l, (p + 2) + 1, p + 2)
    BY <1>1, SubSeqRecursiveFirst
  <2>3. SubSeq(l, (p + 2) + 1, p + 2) = <<>>
    BY SubSeqEmpty
  <2>4. (p + 1) + 1 = p + 2
    OBVIOUS
  <2>5. ASSUME NEW a \in T, NEW b \in T
        PROVE  <<b>> \o <<>> = <<b>> /\ <<a>> \o <<b>> = <<a, b>>
    <3>1. <<b>> \in Seq(T) /\ <<a>> \in Seq(T)
      OBVIOUS
    <3>2. <<b>> \o <<>> = <<b>>
      BY <3>1, ConcatEmptySeq
    <3>3. Append(<<a>>, b) = <<a>> \o <<b>>
      BY <3>1, AppendIsConcat
    <3>4. Append(<<a>>, b) = <<a, b>>
      <4> DEFINE x == Append(<<a>>, b)
                 y == <<a, b>>
      <4>1. x \in Seq(T) /\ Len(x) = 2 /\ x[1] = a /\ x[2] = b
        BY <3>1, AppendProperties
      <4>2. y \in Seq(T) /\ Len(y) = 2 /\ y[1] = a /\ y[2] = b
        OBVIOUS
      <4> HIDE DEF x, y
      <4>3. \A i \in 1 .. Len(x) : x[i] = y[i]
        BY <4>1, <4>2
      <4>4. x = y
        BY <4>1, <4>2, <4>3, SeqEqual
      <4> QED BY <4>4 DEF x, y
    <3> QED BY <3>2, <3>3, <3>4
  <2>8. l[p + 1] \in T /\ l[p + 2] \in T
    BY <1>1
  <2>6. SubSeq(l, p + 2, p + 2) = <<l[p + 2]>>
    BY <2>2, <2>3, <2>5, <2>8
  <2>7. SubSeq(l, p + 1, p + 2) = <<l[p + 1]>> \o <<l[p + 2]>>
    BY <2>1, <2>4, <2>6
  <2> QED BY <2>5, <2>7, <2>8
<1>3. SubSeq(l, 1, p) \o SubSeq(l, p + 1, p + 2) = SubSeq(l, 1, p + 2)
  <2>1. 1 \in 1 .. Len(l) + 1 /\ p \in 1 - 1 .. Len(l) /\ p + 2 \in p .. Len(l)
    BY <1>1
  <2> QED BY <2>1, ConcatAdjacentSubSeq
<1>4. SubSeq(l, 1, p + 2) \o SubSeq(l, p + 3, Len(l)) = SubSeq(l, 1, Len(l))
  <2>1. 1 \in 1 .. Len(l) + 1 /\ p + 2 \in 1 - 1 .. Len(l) /\ Len(l) \in p + 2 .. Len(l)
    BY <1>1
  <2>2. SubSeq(l, 1, p + 2) \o SubSeq(l, (p + 2) + 1, Len(l)) = SubSeq(l, 1, Len(l))
    BY <2>1, ConcatAdjacentSubSeq
  <2>3. (p + 2) + 1 = p + 3
    OBVIOUS
  <2> QED BY <2>2, <2>3
<1>5. SubSeq(l, 1, Len(l)) = l
  BY SubSeqFull
<1> QED BY <1>2, <1>3, <1>4, <1>5

LEMMA RestNotEmpty ==
  ASSUME NEW T, NEW l \in Seq(T), NEW n \in 1 .. Len(l) - 3
  PROVE  SubSeq(l, n + 3, Len(l)) # <<>>
<1>1. Len(l) \in Nat
  OBVIOUS
<1>2. Len(SubSeq(l, n + 3, Len(l))) = Len(l) - n - 2
  BY <1>1
<1>3. Len(<<>>) = 0
  OBVIOUS
<1>4. Len(l) - n - 2 # 0
  BY <1>1
<1> QED BY <1>2, <1>3, <1>4, Zenon

\* What setFieldLine makes of the tokens.
FieldRead ==
  /\ line = token[1] \o <<"COLON", "SP">> \o FieldValue
  /\ Cardinality(Colons) = 1

FieldRefused ==
  ~ \E p \in 1 .. Len(line) - 3 :
      /\ Colons = {p}
      /\ ~DoubleSpace /\ ~Contains(SubSeq(line, 1, p), "SP")

LEMMA FieldTokens ==
  ASSUME LineTypeOK, FieldSeen, kind = "field", start = Over
  PROVE  /\ Len(token) >= 2 /\ ~FieldLineThrows => FieldRead
         /\ DoubleSpace \/ Len(token) < 2 \/ FieldLineThrows => FieldRefused
         /\ Len(token) < 2 => Colons \subseteq {0}
<1>0. token \in Seq(Seq(Character))
  BY DEF LineTypeOK
<1>1. line \in Seq(Character) /\ Len(line) \in Nat /\ Len(token) \in Nat
  BY <1>0 DEF LineTypeOK
<1>2. \A p : p \in Colons <=> /\ p \in Nat /\ p + 2 <= Len(line)
                             /\ line[p + 1] = "COLON" /\ line[p + 2] = "SP"
  BY <1>1, ColonsStand
<1>3. ColonsSeen = Colons
  BY <1>1, <1>2 DEF ColonsSeen, Over
<1>8. \A n \in Nat : n >= 3 => n # 2
  OBVIOUS
<1>9. \A n \in 1 .. Len(line) - 3 : SubSeq(line, n + 3, Len(line)) # <<>>
  BY <1>1, RestNotEmpty
<1>4. CASE Colons = {}
  <2>1. token = <<line>>
    BY <1>3, <1>4 DEF FieldSeen
  <2>2. Len(token) = 1
    BY <2>1
  <2>3. FieldRefused
    BY <1>4 DEF FieldRefused
  <2> QED BY <1>4, <2>2, <2>3
<1>5. ASSUME NEW p, Colons = {p}
      PROVE  /\ Len(token) >= 2 /\ ~FieldLineThrows => FieldRead
             /\ DoubleSpace \/ Len(token) < 2 \/ FieldLineThrows => FieldRefused
             /\ Len(token) < 2 => Colons \subseteq {0}
  <2>0. p \in Colons /\ p \in Nat /\ p + 2 <= Len(line)
    BY <1>2, <1>5
  <2>1. token = (IF p = 0 THEN <<>> ELSE <<SubSeq(line, 1, p)>>)
                  \o <<SubSeq(line, p + 2, Len(line))>>
    BY <1>3, <1>5, <2>0 DEF FieldSeen
  <2>2. CASE p = 0
    <3>1. Len(token) = 1
      BY <2>1, <2>2
    <3>2. FieldRefused
      BY <1>5, <2>2 DEF FieldRefused
    <3> QED BY <1>5, <2>2, <3>1, <3>2
  <2>3. CASE p # 0
    <3> DEFINE name == SubSeq(line, 1, p)
               rest == SubSeq(line, p + 2, Len(line))
    <3>1. token = <<name>> \o <<rest>>
      BY <2>1, <2>3
    <3>2. Len(token) = 2 /\ token[1] = name /\ token[2] = rest
      <4> HIDE DEF name, rest
      <4> QED BY <3>1
    <3>3. FieldValue = SubSeq(line, p + 3, Len(line))
      <4>1. p + 2 \in 1 .. Len(line) /\ Len(line) \in p + 2 .. Len(line)
        BY <1>1, <2>0
      <4>2. Tail(rest) = SubSeq(line, (p + 2) + 1, Len(line))
        BY <1>1, <4>1, HeadTailOfSubSeq
      <4>3. (p + 2) + 1 = p + 3
        BY <2>0
      <4> QED BY <3>2, <4>2, <4>3 DEF FieldValue
    <3>4. FieldRead
      <4>1. line = SubSeq(line, 1, p) \o <<line[p + 1], line[p + 2]>>
                     \o SubSeq(line, p + 3, Len(line))
        BY <1>1, <2>0, Apart
      <4>2. line[p + 1] = "COLON" /\ line[p + 2] = "SP"
        BY <1>2, <2>0
      <4>3. line = token[1] \o <<"COLON", "SP">> \o FieldValue
        BY <3>2, <3>3, <4>1, <4>2
      <4>4. Cardinality(Colons) = 1
        BY <1>5, FS_Singleton
      <4> QED BY <4>3, <4>4 DEF FieldRead
    <3>5. ASSUME DoubleSpace \/ FieldLineThrows PROVE FieldRefused
      <4>1. SUFFICES ASSUME p \in 1 .. Len(line) - 3, ~DoubleSpace,
                            ~Contains(SubSeq(line, 1, p), "SP")
                     PROVE  FALSE
        BY <1>5 DEF FieldRefused
      <4>2. FieldValue # <<>>
        BY <1>9, <3>3, <4>1, Zenon
      <4>3. ~Contains(token[1], "SP")
        BY <3>2, <4>1
      <4> QED BY <3>2, <3>5, <4>1, <4>2, <4>3 DEF FieldLineThrows
    <3>6. ~(Len(token) < 2)
      BY <3>2
    <3> QED BY <3>4, <3>5, <3>6
  <2> QED BY <2>2, <2>3
<1>6. ASSUME NEW p \in Colons, NEW q \in Colons, p # q
      PROVE  /\ FieldLineThrows
             /\ FieldRefused
             /\ ~(Len(token) < 2)
  <2>1. \/ Len(token) >= 3
        \/ Len(token) >= 2 /\ Contains(token[1], "SP")
    BY <1>3, <1>6 DEF FieldSeen
  <2>2. ~(Len(token) < 2)
    BY <1>1, <2>1
  <2>3. FieldLineThrows
    <3>1. Len(token) >= 3 => Len(token) # 2
      BY <1>1, <1>8, Zenon
    <3> QED BY <2>1, <3>1, Zenon DEF FieldLineThrows
  <2>4. FieldRefused
    BY <1>6 DEF FieldRefused
  <2> QED BY <2>2, <2>3, <2>4
<1>7. Colons = {} \/ (\E p : Colons = {p}) \/ (\E p, q \in Colons : p # q)
  OBVIOUS
<1> QED BY <1>4, <1>5, <1>6, <1>7

LEMMA FieldStep ==
  ASSUME LineTypeOK, FieldSeen, kind = "field", Tokens
  PROVE  LineTypeOK' /\ FieldSeen' /\ FieldLine'
<1>1. /\ start = Over /\ kind' = kind /\ line' = line /\ start' = start /\ token' = token
      /\ setFieldLine
  BY DEF Tokens, setRequestLine
<1>2. /\ outcome' \in {"400", "undefined", "read"}
      /\ outcome' = "read" => Len(token) >= 2 /\ ~FieldLineThrows
      /\ outcome' \in {"400", "undefined"} => DoubleSpace \/ Len(token) < 2 \/ FieldLineThrows
      /\ outcome' = "undefined" => Len(token) < 2
  BY <1>1 DEF setFieldLine
<1>3. LineTypeOK'
  BY <1>1, <1>2 DEF LineTypeOK, Over
<1>4. FieldSeen'
  BY <1>1 DEF FieldSeen, ColonsSeen, Colons, Over
<1>5. /\ outcome' = "read" => FieldRead
      /\ outcome' \in {"400", "undefined"} => FieldRefused
      /\ outcome' = "undefined" => Colons \subseteq {0}
  BY <1>1, <1>2, FieldTokens
<1>6. FieldLine'
  <2>1. FieldValue' = FieldValue /\ DoubleSpace' = DoubleSpace
    BY <1>1 DEF FieldValue, DoubleSpace
  <2> QED BY <1>1, <1>5, <2>1, Zenon DEF FieldLine, FieldRead, FieldRefused, Colons
<1> QED BY <1>3, <1>4, <1>6

-----------------------------------------------------------------------------
(***************************************************************************)
(* Request lines.                                                          *)
(***************************************************************************)

LEMMA SpacesStand ==
  ASSUME line \in Seq(Character)
  PROVE  \A p : p \in Occurrences(line, <<"SP">>)
                  <=> p \in Nat /\ p + 1 <= Len(line) /\ line[p + 1] = "SP"
<1> DEFINE t == <<"SP">>
<1>1. t \in Seq(Character) /\ Len(t) = 1 /\ t[1] = "SP"
  BY LinesAssumption
<1>3. t \in Seq(Character)
  BY <1>1
<1> HIDE DEF t
<1>2. ASSUME NEW p
      PROVE  p \in Occurrences(line, t)
               <=> p \in Nat /\ p + 1 <= Len(line) /\ line[p + 1] = "SP"
  <2>1. p \in Occurrences(line, t)
          <=> /\ p \in Nat /\ p + Len(t) <= Len(line)
              /\ \A i \in 1 .. Len(t) : line[p + i] = t[i]
    BY <1>3, TextStands
  <2> QED BY <1>1, <2>1
<1> QED BY <1>2, Zenon DEF t

\* The words before start and those of a piece without a space in it.
LEMMA WordCounted ==
  ASSUME LineTypeOK, kind = "request", NEW end \in start .. Len(line), start <= Len(line),
         start # 0 => line[start] = "SP",
         \A i \in start + 1 .. end : line[i] # "SP",
         end < Len(line) => line[end + 1] = "SP",
         NEW n \in Nat, Cardinality(WordsUpTo(start)) = n
  PROVE  /\ Cardinality(WordsUpTo(end + 1)) = IF start = end THEN n ELSE n + 1
         /\ IsFiniteSet(WordsUpTo(end + 1))
<1>1. line \in Seq(Character) /\ Len(line) \in Nat /\ start \in Nat /\ end \in Nat
      /\ DOMAIN line = 1 .. Len(line)
  BY DEF LineTypeOK, Over
<1>2. IsFiniteSet(WordsUpTo(start))
  <2>1. WordsUpTo(start) \subseteq 1 .. Len(line)
    BY <1>1 DEF WordsUpTo, WordStarts
  <2>2. IsFiniteSet(1 .. Len(line))
    BY <1>1, FS_Interval
  <2> QED BY <2>1, <2>2, FS_Subset
<1>3. CASE start = end
  <2>1. WordsUpTo(end + 1) = WordsUpTo(start)
    BY <1>1, <1>3 DEF WordsUpTo, WordStarts
  <2> QED BY <1>2, <1>3, <2>1
<1>4. CASE start # end
  <2>1. start + 1 \in WordStarts /\ start + 1 \notin WordsUpTo(start)
    BY <1>1, <1>4 DEF WordsUpTo, WordStarts
  <2>2. ASSUME NEW i \in WordStarts, i <= end + 1, ~(i <= start)
        PROVE  i = start + 1
    <3>1. i \in 1 .. Len(line) /\ line[i] # "SP" /\ (i = 1 \/ line[i - 1] = "SP")
      BY <1>1, <2>2 DEF WordStarts
    <3>2. i # end + 1
      BY <1>1, <2>2, <3>1
    <3>3. i - 1 \in start + 1 .. end => line[i - 1] # "SP"
      OBVIOUS
    <3> QED BY <1>1, <2>2, <3>1, <3>2, <3>3
  <2>3. WordsUpTo(end + 1) = WordsUpTo(start) \cup {start + 1}
    <3>1. start + 1 <= end + 1 /\ \A i \in WordStarts : i <= start => i <= end + 1
      BY <1>1 DEF WordStarts
    <3> QED BY <2>1, <2>2, <3>1 DEF WordsUpTo
  <2> HIDE DEF WordsUpTo
  <2>4. /\ IsFiniteSet(WordsUpTo(start) \cup {start + 1})
        /\ Cardinality(WordsUpTo(start) \cup {start + 1}) = n + 1
    BY <1>2, <2>1, FS_AddElement
  <2> QED BY <1>4, <2>3, <2>4
<1> QED BY <1>3, <1>4

\* The part of a line up to the end of a piece, and the letter after it.
LEMMA Lengthened ==
  ASSUME NEW T, NEW l \in Seq(T), NEW a \in Nat, NEW e \in a .. Len(l)
  PROVE  /\ SubSeq(l, 1, a) \o SubSeq(l, a + 1, e) = SubSeq(l, 1, e)
         /\ e < Len(l) => SubSeq(l, 1, e) \o <<l[e + 1]>> = SubSeq(l, 1, e + 1)
<1>1. Len(l) \in Nat /\ 1 \in 1 .. Len(l) + 1 /\ a \in 1 - 1 .. Len(l) /\ e \in a .. Len(l)
  OBVIOUS
<1>2. SubSeq(l, 1, a) \o SubSeq(l, a + 1, e) = SubSeq(l, 1, e)
  BY <1>1, ConcatAdjacentSubSeq
<1>3. ASSUME e < Len(l) PROVE SubSeq(l, 1, e) \o <<l[e + 1]>> = SubSeq(l, 1, e + 1)
  <2>1. 1 \in 1 .. Len(l) /\ e + 1 \in 1 .. Len(l) /\ (e + 1) - 1 = e
    BY <1>1, <1>3
  <2>2. SubSeq(l, 1, e + 1) = SubSeq(l, 1, (e + 1) - 1) \o <<l[e + 1]>>
    BY <2>1, SubSeqRecursiveSecond
  <2> QED BY <2>1, <2>2
<1> QED BY <1>2, <1>3

LEMMA RequestRound ==
  ASSUME LineTypeOK, RequestSeen, kind = "request", getToken
  PROVE  LineTypeOK' /\ RequestSeen'
<1>1. PICK end : /\ Round(end)
                 /\ \/ FoundAt(<<"SP">>, end)
                    \/ NoneLeft(<<"SP">>) /\ end = Len(line)
  BY Rounds DEF Delimiter
<1>2. /\ Piece(end) \in Seq(Character) /\ start \in Nat /\ Len(line) \in Nat /\ end \in Nat
      /\ start = end => token' = token
      /\ start # end =>
           /\ token' = Append(token, Piece(end))
           /\ Len(token') = Len(token) + 1 /\ token'[Len(token) + 1] = Piece(end)
           /\ \A i \in 1 .. Len(token) : token'[i] = token[i]
      /\ token' \in Seq(Seq(Character)) /\ Len(token) \in Nat
  BY <1>1, TokenGrows
<1>3. /\ line' = line /\ kind' = kind /\ line \in Seq(Character)
      /\ end \in start .. Len(line) /\ start < Over /\ start <= Len(line)
      /\ Over' = Over /\ Over = Len(line) + 1
  BY <1>1, <1>2 DEF Round, LineTypeOK, Over
<1>18. /\ Len(token) \in Nat
       /\ start # end => Len(token') = Len(token) + 1
       /\ start = end => token' = token
       /\ token \in Seq(Seq(Character)) /\ token' \in Seq(Seq(Character))
  BY <1>2 DEF LineTypeOK
<1>19. /\ start # end => token'[Len(token) + 1] = Piece(end)
       /\ start # end => \A i \in 1 .. Len(token) : token'[i] = token[i]
  BY <1>2
<1>4. \A p : p \in Occurrences(line, <<"SP">>)
               <=> p \in Nat /\ p + 1 <= Len(line) /\ line[p + 1] = "SP"
  BY <1>3, SpacesStand
<1>5. start' = end + 1
  BY <1>1, <1>3 DEF FoundAt, NoneLeft
<1>6. ASSUME NEW i \in start + 1 .. end PROVE line[i] # "SP"
  <2>1. SUFFICES ASSUME line[i] = "SP" PROVE FALSE
    OBVIOUS
  <2>2. i - 1 \in Nat /\ (i - 1) + 1 = i /\ i <= Len(line) /\ start <= i - 1 /\ ~(end <= i - 1)
    BY <1>2, <1>3, <1>6
  <2>3. i - 1 \in Occurrences(line, <<"SP">>)
    BY <1>4, <2>1, <2>2
  <2>4. ~(i - 1 < start)
    BY <1>2, <2>2
  <2> QED BY <1>1, <2>2, <2>3, <2>4, Zenon DEF FoundAt, NoneLeft
<1>7. start # 0 => line[start] = "SP"
  <2>1. start # 0 => start \in 1 .. Len(line)
    BY <1>2, <1>3
  <2> QED BY <2>1 DEF RequestSeen
<1>8. end < Len(line) => line[end + 1] = "SP"
  <2>1. end < Len(line) => end # Len(line)
    BY <1>2
  <2>2. end < Len(line) => end \in Occurrences(line, <<"SP">>)
    BY <1>1, <2>1, Zenon DEF FoundAt
  <2> QED BY <1>4, <2>2
<1>9. Cardinality(WordsUpTo(end + 1)) = Len(token')
  <2>1. Cardinality(WordsUpTo(start)) = Len(token)
    BY DEF RequestSeen
  <2>2. Cardinality(WordsUpTo(end + 1)) = IF start = end THEN Len(token) ELSE Len(token) + 1
    BY <1>2, <1>3, <1>6, <1>7, <1>8, <2>1, WordCounted
  <2> QED BY <1>2, <2>2
<1>10. WordsUpTo(start)' = WordsUpTo(end + 1)
  BY <1>3, <1>5 DEF WordsUpTo, WordStarts
<1>11. LineTypeOK'
  <2>1. start' \in {end + 1, Over} /\ (start' = Over \/ end < Len(line))
    BY <1>2, <1>3, <1>5
  <2> QED BY <1>1, <2>1, RoundTyped
<1>12. SubSeq(line, 1, start) \o Piece(end) = SubSeq(line, 1, end)
  BY <1>2, <1>3, Lengthened DEF Piece
<1>13. ASSUME ~DoubleSpace, Len(token) <= 3
       PROVE  \E before \in {<<>>, <<"SP">>} : SubSeq(line, 1, start) = Spelled(before, token)
  BY <1>3, <1>13 DEF RequestSeen
<1>14. ASSUME ~DoubleSpace, end < Len(line), Len(token') <= 3
       PROVE  \E before \in {<<>>, <<"SP">>} : SubSeq(line, 1, end + 1) = Spelled(before, token')
  <2>1. SubSeq(line, 1, end + 1) = SubSeq(line, 1, end) \o <<"SP">>
    <3>1. SubSeq(line, 1, end) \o <<line[end + 1]>> = SubSeq(line, 1, end + 1)
      BY <1>2, <1>3, <1>14, Lengthened
    <3> QED BY <1>8, <1>14, <3>1
  <2>2. CASE start = end
    <3>1. start = 0
      <4>1. SUFFICES ASSUME start # 0 PROVE FALSE
        OBVIOUS
      <4>2. start \in 1 .. Len(line) - 1 /\ line[start] = "SP" /\ line[start + 1] = "SP"
        BY <1>2, <1>3, <1>7, <1>8, <1>14, <2>2, <4>1
      <4> QED BY <1>14, <4>2 DEF DoubleSpace
    <3>2. token' = <<>>
      BY <1>2, <2>2, <3>1 DEF RequestSeen
    <3>3. SubSeq(line, 1, end) = <<>>
      BY <1>3, <2>2, <3>1, SubSeqEmpty
    <3>4. SubSeq(line, 1, end + 1) = <<"SP">>
      <4>1. <<"SP">> \in Seq({"SP"})
        OBVIOUS
      <4>2. <<>> \o <<"SP">> = <<"SP">>
        BY <4>1, ConcatEmptySeq
      <4> QED BY <2>1, <3>3, <4>2
    <3>5. Spelled(<<"SP">>, token') = <<"SP">>
      <4>1. Len(token') = 0
        BY <3>2
      <4> QED BY <4>1 DEF Spelled
    <3> QED BY <3>4, <3>5
  <2>3. CASE start # end
    <3>1. Len(token) \in 0 .. 2 /\ Len(token) <= 3
      <4> DEFINE n == Len(token)
                 m == Len(token')
      <4>1. n \in Nat /\ m = n + 1 /\ m <= 3
        BY <1>14, <1>18, <2>3, Zenon
      <4> HIDE DEF n, m
      <4>2. n \in 0 .. 2 /\ n <= 3
        BY <4>1
      <4> QED BY <4>2, Zenon DEF n
    <3>2. PICK before \in {<<>>, <<"SP">>} : SubSeq(line, 1, start) = Spelled(before, token)
      BY <1>13, <1>14, <3>1
    <3>3. Spelled(before, token') = Spelled(before, token) \o Piece(end) \o <<"SP">>
      <4>1. Len(token') = Len(token) + 1
        BY <1>18, <2>3
      <4>2. /\ \A i \in 1 .. Len(token) : token'[i] = token[i]
            /\ token'[Len(token) + 1] = Piece(end)
        BY <1>19, <2>3, Zenon
      <4>3. 0 # 1 /\ 0 # 2 /\ 1 # 2 /\ 0 # 3 /\ 1 # 3 /\ 2 # 3 /\ 1 \in 1 .. 1 /\ 1 \in 1 .. 2
            /\ 2 \in 1 .. 2 /\ 0 + 1 = 1 /\ 1 + 1 = 2 /\ 2 + 1 = 3
        OBVIOUS
      <4>4. CASE Len(token) = 0
        BY <4>1, <4>2, <4>3, <4>4, Zenon DEF Spelled
      <4>5. CASE Len(token) = 1
        <5>1. Len(token') = 2 /\ token'[2] = Piece(end) /\ token'[1] = token[1]
          BY <4>1, <4>2, <4>3, <4>5, Zenon
        <5> QED BY <4>3, <4>5, <5>1, Zenon DEF Spelled
      <4>6. CASE Len(token) = 2
        <5>1. Len(token') = 3 /\ token'[3] = Piece(end) /\ token'[1] = token[1]
              /\ token'[2] = token[2]
          BY <4>1, <4>2, <4>3, <4>6, Zenon
        <5> QED BY <4>3, <4>6, <5>1, Zenon DEF Spelled
      <4>7. \A n \in 0 .. 2 : n = 0 \/ n = 1 \/ n = 2
        OBVIOUS
      <4> QED BY <3>1, <4>4, <4>5, <4>6, <4>7, Zenon
    <3> QED BY <1>12, <2>1, <3>2, <3>3, Zenon
  <2> QED BY <2>2, <2>3
<1>15. ASSUME ~DoubleSpace, end = Len(line), Len(token') = 3
       PROVE  ThreeWords'
  <2>0. SubSeq(line, 1, Len(line)) = line
    BY <1>3, SubSeqFull
  <2>1. SUFFICES \E before, behind \in {<<>>, <<"SP">>} :
           line = before \o token'[1] \o <<"SP">> \o token'[2] \o <<"SP">> \o token'[3] \o behind
    BY <1>3 DEF ThreeWords
  <2>2. CASE start = end
    <3>1. token' = token /\ Len(token) <= 3 /\ Len(token) = 3
      <4>1. 3 <= 3
        OBVIOUS
      <4>2. token' = token /\ Len(token') = 3
        BY <1>15, <1>18, <2>2, Zenon
      <4>3. Len(token) = 3
        BY <4>2, Zenon
      <4> QED BY <4>1, <4>2, <4>3, Zenon
    <3>2. PICK before \in {<<>>, <<"SP">>} : SubSeq(line, 1, start) = Spelled(before, token)
      BY <1>13, <1>15, <3>1
    <3>3. line = before \o token'[1] \o <<"SP">> \o token'[2] \o <<"SP">> \o token'[3] \o <<"SP">>
      BY <1>15, <2>0, <2>2, <3>1, <3>2 DEF Spelled
    <3> QED BY <3>3
  <2>3. CASE start # end
    <3>1. Len(token) = 2 /\ Len(token) <= 3 /\ token'[3] = Piece(end)
          /\ token'[1] = token[1] /\ token'[2] = token[2]
      <4>1. Len(token) = 2 /\ Len(token) + 1 = 3 /\ 1 \in 1 .. Len(token) /\ 2 \in 1 .. Len(token)
            /\ Len(token) <= 3
        <5> DEFINE n == Len(token)
                   m == Len(token')
        <5>1. n \in Nat /\ m = n + 1 /\ m = 3
          BY <1>15, <1>18, <2>3, Zenon
        <5> HIDE DEF n, m
        <5>2. n = 2 /\ n + 1 = 3 /\ 1 \in 1 .. n /\ 2 \in 1 .. n /\ n <= 3
          BY <5>1
        <5> QED BY <5>2, Zenon DEF n
      <4> QED BY <1>19, <2>3, <4>1, Zenon
    <3>2. PICK before \in {<<>>, <<"SP">>} : SubSeq(line, 1, start) = Spelled(before, token)
      BY <1>13, <1>15, <3>1
    <3>3. line = Spelled(before, token) \o Piece(end)
      BY <1>12, <1>15, <2>0, <3>2
    <3>4. Spelled(before, token) = before \o token[1] \o <<"SP">> \o token[2] \o <<"SP">>
      BY <3>1 DEF Spelled
    <3>5. line = before \o token'[1] \o <<"SP">> \o token'[2] \o <<"SP">> \o token'[3]
      BY <3>1, <3>3, <3>4, Zenon
    <3>6. line \o <<>> = line
      BY <1>3, ConcatEmptySeq
    <3>7. line = before \o token'[1] \o <<"SP">> \o token'[2] \o <<"SP">> \o token'[3] \o <<>>
      BY <3>5, <3>6, Zenon
    <3> QED BY <3>7
  <2> QED BY <2>2, <2>3
<1>16. DoubleSpace' = DoubleSpace
  BY <1>3 DEF DoubleSpace
<1>17. RequestSeen'
  <2>1. start' # 0 /\ (start' \in 1 .. Len(line) => end < Len(line) /\ line[start'] = "SP")
    BY <1>2, <1>5, <1>8
  <2>2. start' < Over' => end < Len(line)
    BY <1>2, <1>3, <1>5
  <2>3. start' = Over' => end = Len(line)
    BY <1>2, <1>3, <1>5
  <2>4. ~DoubleSpace' /\ start' < Over' /\ Len(token') <= 3 =>
          \E before \in {<<>>, <<"SP">>} : SubSeq(line', 1, start') = Spelled(before, token')
    BY <1>3, <1>5, <1>14, <1>16, <2>2
  <2>5. ~DoubleSpace' /\ start' = Over' /\ Len(token') = 3 => ThreeWords'
    BY <1>15, <1>16, <2>3
  <2>6. Cardinality(WordsUpTo(start)') = Len(token')
    BY <1>9, <1>10
  <2>7. start' \in 1 .. Len(line') => line'[start'] = "SP"
    BY <1>3, <2>1
  <2>8. Spelled(<<>>, token)' = Spelled(<<>>, token') /\ Spelled(<<"SP">>, token)' = Spelled(<<"SP">>, token')
    BY DEF Spelled
  <2> QED BY <2>1, <2>4, <2>5, <2>6, <2>7, <2>8 DEF RequestSeen
<1> QED BY <1>11, <1>17

LEMMA RequestStep ==
  ASSUME LineTypeOK, RequestSeen, kind = "request", Tokens
  PROVE  LineTypeOK' /\ RequestSeen' /\ RequestLine'
<1>1. /\ start = Over /\ kind' = kind /\ line' = line /\ start' = start /\ token' = token
      /\ outcome' = IF DoubleSpace \/ Len(token) # 3 THEN "400" ELSE "read"
  BY DEF Tokens, setFieldLine, setRequestLine, RequestLineThrows
<1>2. LineTypeOK'
  BY <1>1 DEF LineTypeOK, Over
<1>3. DoubleSpace' = DoubleSpace /\ WordStarts' = WordStarts
  BY <1>1 DEF DoubleSpace, WordStarts
<1>4. RequestSeen'
  BY <1>1, <1>3 DEF RequestSeen, WordsUpTo, ThreeWords, Spelled, Over
<1>5. Cardinality(WordStarts) = Len(token)
  <2>1. WordsUpTo(start) = WordStarts
    BY <1>1 DEF WordsUpTo, WordStarts, Over, LineTypeOK
  <2> QED BY <2>1 DEF RequestSeen
<1>6. ~DoubleSpace /\ Len(token) = 3 => ThreeWords
  BY <1>1 DEF RequestSeen
<1>7. RequestLine'
  <2>1. outcome' = "read" => ThreeWords
    BY <1>1, <1>6
  <2>2. outcome' = "400" => DoubleSpace' \/ Cardinality(WordStarts') # 3
    BY <1>1, <1>3, <1>5
  <2> QED BY <1>1, <2>1, <2>2 DEF RequestLine, ThreeWords
<1> QED BY <1>2, <1>4, <1>7

-----------------------------------------------------------------------------
\* A step of one kind of line says nothing of the other.
LEMMA LineStep == LineInv /\ [LineNext]_lineVars => LineInv'
<1> SUFFICES ASSUME LineInv, [LineNext]_lineVars PROVE LineInv'
  OBVIOUS
<1>1. LineTypeOK /\ FieldSeen /\ RequestSeen /\ FieldLine /\ RequestLine
  BY DEF LineInv
<1>2. CASE UNCHANGED lineVars
  <2>1. /\ kind' = kind /\ line' = line /\ start' = start /\ token' = token
        /\ outcome' = outcome
    BY <1>2 DEF lineVars
  <2>2. Over' = Over /\ Colons' = Colons /\ DoubleSpace' = DoubleSpace
        /\ FieldValue' = FieldValue /\ WordStarts' = WordStarts
    BY <2>1 DEF Over, Colons, DoubleSpace, FieldValue, WordStarts
  <2>3. LineTypeOK'
    BY <1>1, <2>1, <2>2 DEF LineTypeOK
  <2>4. FieldSeen'
    <3>1. ColonsSeen' = ColonsSeen
      BY <2>1, <2>2, Zenon DEF ColonsSeen
    <3> QED BY <1>1, <2>1, <2>2, <3>1, ZenonT(60) DEF FieldSeen
  <2>5. RequestSeen'
    <3>1. WordsUpTo(start)' = WordsUpTo(start) /\ ThreeWords' = ThreeWords
      BY <2>1, <2>2, Zenon DEF WordsUpTo, ThreeWords
    <3>2. \A before : Spelled(before, token)' = Spelled(before, token)
      BY <2>1, Zenon
    <3> QED BY <1>1, <2>1, <2>2, <3>1, <3>2, ZenonT(60) DEF RequestSeen
  <2>6. FieldLine' /\ RequestLine'
    BY <1>1, <2>1, <2>2, Zenon DEF FieldLine, RequestLine, Colons
  <2> QED BY <2>3, <2>4, <2>5, <2>6 DEF LineInv
<1>3. CASE LineNext
  <2>1. kind' = kind
    BY <1>3 DEF LineNext, getToken, Tokens
  <2>2. outcome = "unread"
    BY <1>3 DEF LineNext, getToken, Tokens
  <2>3. getToken => outcome' = "unread"
    BY <2>2 DEF getToken
  <2>4. CASE kind = "field"
    <3>1. kind # "request" /\ kind' # "request"
      BY <2>1, <2>4
    <3>2. RequestSeen' /\ RequestLine'
      BY <3>1, Zenon DEF RequestSeen, RequestLine
    <3>3. LineTypeOK' /\ FieldSeen' /\ (outcome' = "unread" \/ FieldLine')
      BY <1>1, <1>3, <2>3, <2>4, FieldRound, FieldStep, Zenon DEF LineNext
    <3>4. outcome' = "unread" => FieldLine'
      BY DEF FieldLine
    <3> QED BY <3>2, <3>3, <3>4, Zenon DEF LineInv
  <2>5. CASE kind = "request"
    <3>1. kind # "field" /\ kind' # "field"
      BY <2>1, <2>5
    <3>2. FieldSeen' /\ FieldLine'
      BY <3>1, Zenon DEF FieldSeen, FieldLine
    <3>3. LineTypeOK' /\ RequestSeen' /\ (outcome' = "unread" \/ RequestLine')
      BY <1>1, <1>3, <2>3, <2>5, RequestRound, RequestStep, Zenon DEF LineNext
    <3>4. outcome' = "unread" => RequestLine'
      BY DEF RequestLine
    <3> QED BY <3>2, <3>3, <3>4, Zenon DEF LineInv
  <2> QED BY <1>1, <2>4, <2>5 DEF LineTypeOK
<1> QED BY <1>2, <1>3

LEMMA LineInitInv == LineInit => LineInv
<1> SUFFICES ASSUME LineInit PROVE LineInv
  OBVIOUS
<1>1. /\ kind \in {"request", "field"} /\ line \in Seq(Character)
      /\ kind = "field" => line # <<>>
      /\ start = 0 /\ token = <<>> /\ outcome = "unread"
  BY LinesAssumption DEF LineInit
<1>2. Len(line) \in Nat
  BY <1>1
<1>3. LineTypeOK
  <2>1. <<>> \in Seq(Seq(Character))
    OBVIOUS
  <2>2. start \in 0 .. Over
    BY <1>1, <1>2 DEF Over
  <2> QED BY <1>1, <2>1, <2>2 DEF LineTypeOK
<1>4. FieldSeen
  <2>1. ColonsSeen = {}
    BY <1>1, ColonsStand DEF ColonsSeen
  <2>2. 0 # Over /\ 0 \notin 1 .. Len(line)
    BY <1>2 DEF Over
  <2> QED BY <1>1, <2>1, <2>2 DEF FieldSeen
<1>5. RequestSeen
  <2>1. WordsUpTo(0) = {}
    BY <1>1, <1>2 DEF WordsUpTo, WordStarts
  <2>2. Len(token) = 0 /\ Cardinality(WordsUpTo(start)) = 0
    BY <1>1, <2>1, FS_EmptySet
  <2>3. SubSeq(line, 1, start) = <<>> /\ Spelled(<<>>, token) = <<>>
    BY <1>1, <2>2, SubSeqEmpty DEF Spelled
  <2>4. 0 # Over /\ 0 \notin 1 .. Len(line)
    BY <1>2 DEF Over
  <2> QED BY <1>1, <2>2, <2>3, <2>4 DEF RequestSeen
<1>6. FieldLine /\ RequestLine
  BY <1>1 DEF FieldLine, RequestLine
<1> QED BY <1>3, <1>4, <1>5, <1>6 DEF LineInv

\* What getToken has found so far, for lines of any length and any characters.
THEOREM LineInvariant == LineSpec => []LineInv
  BY LineInitInv, LineStep, PTL DEF LineSpec

\* A field line that is read is a name, ": " and a value; every such line is read, if
\* its name has no space and no two spaces or line feeds stand together in it; and the
\* tokens are indexed past their end in the one named case only.
THEOREM FieldLinesRead == LineSpec => []FieldLine
<1>1. LineInv => FieldLine
  BY DEF LineInv
<1> QED BY <1>1, LineInvariant, PTL

\* A request line that has been read is three words, and every line of three words
\* is read in which no two spaces or line feeds stand together.
THEOREM RequestLinesRead == LineSpec => []RequestLine
<1>1. LineInv => RequestLine
  BY DEF LineInv
<1> QED BY <1>1, LineInvariant, PTL

-----------------------------------------------------------------------------
(***************************************************************************)
(* Chunked bodies: sizes and their digits.                                 *)
(***************************************************************************)

\* A size of more than one digit.
LEMMA Divided ==
  ASSUME NEW n \in Nat, n >= Hex
  PROVE  /\ n \div Hex \in Nat /\ n \div Hex < n /\ n \div Hex # 0
         /\ n % Hex \in 0 .. Hex - 1
         /\ (n \div Hex) * Hex + (n % Hex) = n
<1>1. Hex \in {2, 3, 4, 5, 6, 7, 8, 9, 10, 11, 12, 13, 14, 15, 16}
  BY HexAssumption
<1> QED BY <1>1

LEMMA HexIs == Hex \in Nat /\ Hex >= 2 /\ Hex <= 16
BY HexAssumption

\* The digits are sixteen different bytes, and none is a blank.
LEMMA DigitsDiffer ==
  /\ \A v, w \in 1 .. 16 : Digits[v] = Digits[w] => v = w
  /\ \A v \in 1 .. 16 : Digits[v] \notin {"CR", "LF", "NUL", "x"}
  /\ Digits[1] = "0"
<1>1. \A v \in 1 .. 16 : v \in {1, 2, 3, 4, 5, 6, 7, 8, 9, 10, 11, 12, 13, 14, 15, 16}
  OBVIOUS
<1> QED BY <1>1 DEF Digits

LEMMA DigitValue ==
  ASSUME NEW v \in 1 .. Hex
  PROVE  IsDigit(Digits[v]) /\ Value(Digits[v]) = v - 1
<1>1. 1 .. Hex \subseteq 1 .. 16
  BY HexIs
<1>2. \A w \in 1 .. Hex : Digits[w] = Digits[v] => w = v
  BY <1>1, DigitsDiffer
<1>3. (CHOOSE w \in 1 .. Hex : Digits[w] = Digits[v]) = v
  BY <1>2
<1> QED BY <1>3 DEF IsDigit, Value

LEMMA NoDigit == ~IsDigit("CR") /\ ~IsDigit("NUL") /\ ~IsDigit("LF")
<1>1. 1 .. Hex \subseteq 1 .. 16
  BY HexIs
<1> QED BY <1>1, DigitsDiffer DEF IsDigit

Digit == {Digits[v] : v \in 1 .. Hex}

\* The recursion by which Numeral is defined, up to m.
Spells(f, m) ==
  f = [n \in 0 .. m |->
         IF n < Hex THEN <<Digits[n + 1]>> ELSE Append(f[n \div Hex], Digits[(n % Hex) + 1])]

LEMMA SpellsAt ==
  ASSUME NEW m \in Nat, NEW f, Spells(f, m), NEW n \in 0 .. m
  PROVE  f[n] = IF n < Hex THEN <<Digits[n + 1]>>
                ELSE Append(f[n \div Hex], Digits[(n % Hex) + 1])
<1> DEFINE g == [i \in 0 .. m |-> IF i < Hex THEN <<Digits[i + 1]>>
                           ELSE Append(f[i \div Hex], Digits[(i % Hex) + 1])]
<1>1. f = g
  BY Zenon DEF Spells
<1>2. g[n] = IF n < Hex THEN <<Digits[n + 1]>>
              ELSE Append(f[n \div Hex], Digits[(n % Hex) + 1])
  BY Zenon
<1> HIDE DEF g
<1> QED BY <1>1, <1>2, Zenon

\* It has a solution for every bound.
LEMMA SpellsExists ==
  ASSUME NEW m \in Nat
  PROVE  \E f : Spells(f, m)
<1> DEFINE P == {k \in 0 .. m : \E f : Spells(f, k)}
           E(f, n) == IF n < Hex THEN <<Digits[n + 1]>>
                      ELSE Append(f[n \div Hex], Digits[(n % Hex) + 1])
<1>1. 0 \in P
  <2> DEFINE f == [n \in 0 .. 0 |-> <<Digits[n + 1]>>]
  <2>1. ASSUME NEW n \in 0 .. 0
        PROVE  f[n] = E(f, n)
    <3>1. n < Hex
      BY HexIs
    <3>2. f[n] = <<Digits[n + 1]>>
      BY Zenon
    <3> QED BY <3>1, <3>2, Zenon
  <2>2. f = [n \in 0 .. 0 |-> f[n]]
    BY Zenon
  <2> HIDE DEF f
  <2>3. f = [n \in 0 .. 0 |-> E(f, n)]
    BY <2>1, <2>2, Zenon
  <2>4. 0 \in 0 .. m
    OBVIOUS
  <2>5. Spells(f, 0)
    BY <2>3, Zenon DEF Spells
  <2> QED BY <2>4, <2>5
<1>2. ASSUME NEW k \in 0 .. m - 1, k \in P
      PROVE  k + 1 \in P
  <2>1. PICK f : Spells(f, k)
    BY <1>2
  <2>0. k \in Nat /\ k + 1 \in 0 .. m
    OBVIOUS
  <2> DEFINE g == [n \in 0 .. k + 1 |-> IF n \in 0 .. k THEN f[n] ELSE E(f, n)]
  <2>2. ASSUME NEW n \in 0 .. k + 1
        PROVE  g[n] = E(g, n)
    <3>1. n < Hex \/ n \div Hex \in 0 .. k
      <4>1. CASE n < Hex
        BY <4>1
      <4>2. CASE ~(n < Hex)
        <5>1. n \in Nat /\ n >= Hex
          BY <2>0, <4>2, HexIs
        <5>2. n \div Hex \in Nat /\ n \div Hex < n
          BY <5>1, Divided
        <5> HIDE DEF g
        <5> QED BY <2>0, <5>2
      <4> QED BY <4>1, <4>2
    <3>2. n \in 0 .. k => f[n] = E(f, n)
      BY <2>0, <2>1, SpellsAt
    <3>3. g[n] = E(f, n)
      BY <3>2, Zenon
    <3>4. n \div Hex \in 0 .. k => n \div Hex \in 0 .. k + 1
      BY <2>0
    <3>5. n \div Hex \in 0 .. k => g[n \div Hex] = f[n \div Hex]
      BY <3>4, Zenon
    <3> QED BY <3>1, <3>3, <3>5, Zenon
  <2>3. g = [n \in 0 .. k + 1 |-> g[n]]
    BY Zenon
  <2> HIDE DEF g
  <2>4. g = [n \in 0 .. k + 1 |-> E(g, n)]
    BY <2>2, <2>3, Zenon
  <2>5. Spells(g, k + 1)
    BY <2>4, Zenon DEF Spells
  <2> QED BY <2>0, <2>5
<1>3. m \in P
  <2> HIDE DEF P
  <2> QED BY <1>1, <1>2, UpTo
<1> QED BY <1>3

\* It has one solution, up to the smaller bound.
LEMMA SpellsOnce ==
  ASSUME NEW m \in Nat, NEW f, Spells(f, m), NEW k \in Nat, NEW g, Spells(g, k)
  PROVE  \A n \in Nat : n <= m /\ n <= k => f[n] = g[n]
<1> DEFINE P == {n \in Nat : n <= m /\ n <= k => f[n] = g[n]}
<1>1. ASSUME NEW n \in Nat, \A i \in 0 .. n - 1 : i \in P
      PROVE  n \in P
  <2>1. SUFFICES ASSUME n <= m, n <= k PROVE f[n] = g[n]
    OBVIOUS
  <2>2. n \in 0 .. m /\ n \in 0 .. k
    BY <2>1
  <2>3. /\ f[n] = IF n < Hex THEN <<Digits[n + 1]>>
                  ELSE Append(f[n \div Hex], Digits[(n % Hex) + 1])
        /\ g[n] = IF n < Hex THEN <<Digits[n + 1]>>
                  ELSE Append(g[n \div Hex], Digits[(n % Hex) + 1])
    BY <2>2, SpellsAt
  <2>4. CASE n < Hex
    BY <2>3, <2>4, Zenon
  <2>5. CASE ~(n < Hex)
    <3>1. n >= Hex
      BY <2>5, HexIs
    <3>2. n \div Hex \in 0 .. n - 1
      <4>1. n \div Hex \in Nat /\ n \div Hex < n
        BY <3>1, Divided
      <4> HIDE DEF P
      <4> QED BY <4>1
    <3>3. n \div Hex <= m /\ n \div Hex <= k
      <4> HIDE DEF P
      <4> QED BY <2>1, <3>2
    <3>4. f[n \div Hex] = g[n \div Hex]
      BY <1>1, <3>2, <3>3
    <3> QED BY <2>3, <2>5, <3>4, Zenon
  <2> QED BY <2>4, <2>5
<1>2. \A n \in Nat : n \in P
  <2> HIDE DEF P
  <2> QED BY <1>1, FromAllLess
<1> QED BY <1>2

\* So the recursion by which Numeral is defined has one for all numbers.
LEMMA NumeralIs ==
  \A n \in Nat : Numeral[n] = IF n < Hex THEN <<Digits[n + 1]>>
                              ELSE Append(Numeral[n \div Hex], Digits[(n % Hex) + 1])
<1> DEFINE part(n) == CHOOSE f : Spells(f, n)
           F == [n \in Nat |-> part(n)[n]]
           E(f, n) == IF n < Hex THEN <<Digits[n + 1]>>
                      ELSE Append(f[n \div Hex], Digits[(n % Hex) + 1])
<1>1. ASSUME NEW n \in Nat PROVE Spells(part(n), n)
  BY SpellsExists, Zenon
<1>2. ASSUME NEW n \in Nat PROVE F[n] = E(F, n)
  <2>1. F[n] = part(n)[n]
    BY Zenon
  <2>2. n \in 0 .. n /\ (~(n < Hex) => n >= Hex)
    BY HexIs
  <2>3. part(n)[n] = E(part(n), n)
    <3>1. Spells(part(n), n)
      BY <1>1
    <3> HIDE DEF part
    <3> QED BY <2>2, <3>1, SpellsAt
  <2>4. CASE n < Hex
    BY <2>1, <2>3, <2>4, Zenon
  <2>5. CASE ~(n < Hex)
    <3>1. n \div Hex \in Nat /\ n \div Hex < n
      BY <2>2, <2>5, Divided
    <3>2. F[n \div Hex] = part(n \div Hex)[n \div Hex]
      BY <3>1, Zenon
    <3>3. Spells(part(n), n) /\ Spells(part(n \div Hex), n \div Hex)
      BY <1>1, <3>1, Zenon
    <3> HIDE DEF part, F
    <3>4. n \div Hex <= n /\ n \div Hex <= n \div Hex
      BY <3>1
    <3>5. part(n)[n \div Hex] = part(n \div Hex)[n \div Hex]
      BY <3>1, <3>3, <3>4, SpellsOnce
    <3> QED BY <2>1, <2>3, <3>2, <3>5, <2>5, Zenon
  <2> QED BY <2>4, <2>5
<1>3. F = [n \in Nat |-> F[n]]
  <2> HIDE DEF part
  <2> QED OBVIOUS
<1> HIDE DEF F
<1>4. F = [n \in Nat |-> E(F, n)]
  BY <1>2, <1>3, Zenon
<1> DEFINE Solves(f) == f = [n \in Nat |-> E(f, n)]
<1>5. Solves(F)
  BY <1>4, Zenon
<1>6. Numeral = CHOOSE f : Solves(f)
  BY Zenon DEF Numeral
<1>7. Solves(Numeral)
  <2> HIDE DEF Solves
  <2> QED BY <1>5, <1>6, Zenon
<1> DEFINE G == [n \in Nat |-> E(Numeral, n)]
<1>8. Numeral = G
  BY <1>7, Zenon
<1>9. \A n \in Nat : G[n] = E(Numeral, n)
  BY Zenon
<1> HIDE DEF G
<1> QED BY <1>8, <1>9, Zenon

LEMMA DigitIs ==
  ASSUME NEW n \in 0 .. Hex - 1
  PROVE  /\ Digits[n + 1] \in Digit /\ IsDigit(Digits[n + 1])
         /\ Value(Digits[n + 1]) = n
         /\ Digits[n + 1] \notin {"CR", "LF", "NUL", "x"}
<1>1. n + 1 \in 1 .. Hex /\ n + 1 \in 1 .. 16 /\ (n + 1) - 1 = n
  BY HexIs
<1>2. Digits[n + 1] \in Digit
  BY <1>1 DEF Digit
<1>3. IsDigit(Digits[n + 1]) /\ Value(Digits[n + 1]) = (n + 1) - 1
  BY <1>1, DigitValue
<1>4. Digits[n + 1] \notin {"CR", "LF", "NUL", "x"}
  BY <1>1, DigitsDiffer, Zenon
<1> QED BY <1>1, <1>2, <1>3, <1>4

LEMMA DigitsAre ==
  \A d \in Digit : /\ IsDigit(d) /\ d \notin {"CR", "LF", "NUL", "x"}
                   /\ Value(d) \in 0 .. Hex - 1
<1> SUFFICES ASSUME NEW d \in Digit
             PROVE  /\ IsDigit(d) /\ d \notin {"CR", "LF", "NUL", "x"}
                    /\ Value(d) \in 0 .. Hex - 1
  OBVIOUS
<1>1. PICK v \in 1 .. Hex : d = Digits[v]
  BY DEF Digit
<1>2. v - 1 \in 0 .. Hex - 1 /\ (v - 1) + 1 = v
  BY HexIs
<1> QED BY <1>1, <1>2, DigitIs

\* A numeral is one digit, or another with one digit more.
LEMMA NumeralTyped ==
  \A n \in Nat : Numeral[n] \in Seq(Digit) /\ Len(Numeral[n]) \in Nat \ {0}
<1> DEFINE P == {n \in Nat : Numeral[n] \in Seq(Digit) /\ Len(Numeral[n]) \in Nat \ {0}}
<1>1. ASSUME NEW n \in Nat, \A m \in 0 .. n - 1 : m \in P
      PROVE  n \in P
  <2>1. CASE n < Hex
    <3>1. Digits[n + 1] \in Digit
      BY <2>1, HexIs, DigitIs
    <3>2. Numeral[n] = <<Digits[n + 1]>>
      BY <2>1, NumeralIs
    <3> DEFINE d == Digits[n + 1]
    <3> HIDE DEF d, P
    <3>3. <<d>> \in Seq(Digit) /\ Len(<<d>>) = 1
      BY <3>1 DEF d
    <3>4. Numeral[n] \in Seq(Digit) /\ Len(Numeral[n]) = 1
      BY <3>2, <3>3, Zenon DEF d
    <3> QED BY <3>4 DEF P
  <2>2. CASE n >= Hex
    <3>1. n \div Hex \in 0 .. n - 1 /\ n % Hex \in 0 .. Hex - 1
      <4>1. n \div Hex \in Nat /\ n \div Hex < n /\ n % Hex \in 0 .. Hex - 1
        BY <2>2, Divided
      <4> HIDE DEF P
      <4> QED BY <4>1
    <3>2. Digits[(n % Hex) + 1] \in Digit
      BY <3>1, DigitIs
    <3>3. Numeral[n \div Hex] \in Seq(Digit)
      BY <1>1, <3>1
    <3>4. Numeral[n] = Append(Numeral[n \div Hex], Digits[(n % Hex) + 1])
      <4>1. ~(n < Hex)
        BY <2>2, HexIs
      <4> QED BY <4>1, NumeralIs
    <3> DEFINE s == Numeral[n \div Hex]
               d == Digits[(n % Hex) + 1]
    <3> HIDE DEF s, d, P
    <3>5. s \in Seq(Digit) /\ d \in Digit
      BY <3>2, <3>3 DEF s, d
    <3>6. Append(s, d) \in Seq(Digit) /\ Len(Append(s, d)) \in Nat \ {0}
      BY <3>5
    <3> QED BY <3>4, <3>6 DEF s, d, P
  <2> QED BY <2>1, <2>2, HexIs
<1>2. \A n \in Nat : n \in P
  <2> HIDE DEF P
  <2> QED BY <1>1, FromAllLess
<1> QED BY <1>2

LEMMA NumeralOfLess ==
  ASSUME NEW n \in Nat, n < Hex
  PROVE  Len(Numeral[n]) = 1 /\ Numeral[n][1] = Digits[n + 1]
<1>1. Numeral[n] = <<Digits[n + 1]>>
  BY NumeralIs
<1> QED BY <1>1

LEMMA NumeralOfMore ==
  ASSUME NEW n \in Nat, n >= Hex
  PROVE  /\ Len(Numeral[n]) = Len(Numeral[n \div Hex]) + 1
         /\ Numeral[n][Len(Numeral[n])] = Digits[(n % Hex) + 1]
         /\ \A j \in 1 .. Len(Numeral[n \div Hex]) : Numeral[n][j] = Numeral[n \div Hex][j]
<1>1. n \div Hex \in Nat /\ ~(n < Hex) /\ n % Hex \in 0 .. Hex - 1
  BY Divided, HexIs
<1> DEFINE s == Numeral[n \div Hex]
           d == Digits[(n % Hex) + 1]
<1>2. Numeral[n] = Append(s, d)
  BY <1>1, NumeralIs
<1>3. s \in Seq(Digit) /\ d \in Digit
  BY <1>1, NumeralTyped, DigitIs
<1> HIDE DEF s, d
<1>4. /\ Len(Append(s, d)) = Len(s) + 1 /\ Append(s, d)[Len(s) + 1] = d
      /\ \A j \in 1 .. Len(s) : Append(s, d)[j] = s[j]
  BY <1>3
<1> QED BY <1>2, <1>4 DEF s, d

LEMMA NumeralOfZero == Len(Numeral[0]) = 1 /\ Numeral[0][1] = "0"
BY NumeralOfLess, HexIs, DigitsDiffer

\* The recursion by which Number is defined has a solution.
LEMMA Counted ==
  ASSUME NEW b, NEW p \in Nat, NEW q \in Nat, p <= q
  PROVE  \E f : /\ f = [r \in p .. q |->
                          IF r = p THEN 0 ELSE f[r - 1] * Hex + Value(At(b, r - 1))]
                /\ Number(b, p, q) = f[q]
<1> DEFINE E(f, r) == IF r = p THEN 0 ELSE f[r - 1] * Hex + Value(At(b, r - 1))
           P == {k \in 0 .. q - p : \E f : f = [r \in p .. p + k |-> E(f, r)]}
<1>1. 0 \in P
  <2> DEFINE f == [r \in p .. p + 0 |-> 0]
  <2>1. ASSUME NEW r \in p .. p + 0 PROVE f[r] = E(f, r)
    BY <2>1
  <2>2. f = [r \in p .. p + 0 |-> f[r]]
    OBVIOUS
  <2>3. 0 \in 0 .. q - p
    OBVIOUS
  <2> HIDE DEF f
  <2>4. f = [r \in p .. p + 0 |-> E(f, r)]
    BY <2>1, <2>2, Zenon
  <2> QED BY <2>3, <2>4, Zenon
<1>2. ASSUME NEW k \in 0 .. (q - p) - 1, k \in P
      PROVE  k + 1 \in P
  <2>0. k \in Nat /\ k + 1 \in 0 .. q - p
    OBVIOUS
  <2>1. PICK f : f = [r \in p .. p + k |-> E(f, r)]
    BY <1>2, Zenon
  <2> DEFINE g == [r \in p .. p + (k + 1) |-> IF r \in p .. p + k THEN f[r] ELSE E(f, r)]
  <2>2. ASSUME NEW r \in p .. p + (k + 1)
        PROVE  g[r] = E(g, r)
    <3>1. r = p \/ r - 1 \in p .. p + k
      BY <2>0
    <3>2. r - 1 \in p .. p + k => r - 1 \in p .. p + (k + 1)
      BY <2>0
    <3>3. r \in p .. p + k => f[r] = E(f, r)
      <4> DEFINE h == [i \in p .. p + k |-> E(f, i)]
      <4>1. f = h
        BY <2>1, Zenon
      <4>2. r \in p .. p + k => h[r] = E(f, r)
        BY Zenon
      <4> HIDE DEF h
      <4> QED BY <4>1, <4>2, Zenon
    <3>4. g[r] = E(f, r)
      BY <3>3, Zenon
    <3>5. r - 1 \in p .. p + k => g[r - 1] = f[r - 1]
      BY <3>2, Zenon
    <3> HIDE DEF g
    <3> QED BY <3>1, <3>4, <3>5, Zenon
  <2>3. g = [r \in p .. p + (k + 1) |-> g[r]]
    BY Zenon
  <2> HIDE DEF g
  <2>4. g = [r \in p .. p + (k + 1) |-> E(g, r)]
    BY <2>2, <2>3, Zenon
  <2> QED BY <2>0, <2>4, Zenon
<1>3. q - p \in P
  <2>1. q - p \in Nat
    OBVIOUS
  <2> HIDE DEF P
  <2> QED BY <1>1, <1>2, <2>1, UpTo
<1>4. PICK h : h = [r \in p .. p + (q - p) |-> E(h, r)]
  BY <1>3, Zenon
<1>5. p + (q - p) = q
  OBVIOUS
<1>6. h = [r \in p .. q |-> E(h, r)]
  BY <1>4, <1>5, Zenon
<1> DEFINE f == CHOOSE f : f = [r \in p .. q |-> E(f, r)]
<1>7. f = [r \in p .. q |-> E(f, r)]
  BY <1>6, Zenon
<1>8. Number(b, p, q) = f[q]
  BY Zenon DEF Number
<1> HIDE DEF f
<1> QED BY <1>7, <1>8, Zenon

\* The digits of n at p count to n.
LEMMA NumberIs ==
  ASSUME NEW b, NEW p \in Nat, NEW n \in Nat,
         \A j \in 1 .. Len(Numeral[n]) : At(b, p + j - 1) = Numeral[n][j]
  PROVE  Number(b, p, p + Len(Numeral[n])) = n
<1> DEFINE q == p + Len(Numeral[n])
<1>0. q \in Nat /\ p <= q
  BY NumeralTyped
<1>1. PICK f : /\ f = [r \in p .. q |->
                         IF r = p THEN 0 ELSE f[r - 1] * Hex + Value(At(b, r - 1))]
               /\ Number(b, p, q) = f[q]
  BY <1>0, Counted
<1> HIDE DEF q
<1>2. f[p] = 0 /\ \A r \in p + 1 .. q : f[r] = f[r - 1] * Hex + Value(At(b, r - 1))
  BY <1>0, <1>1
<1> DEFINE Stands(k) ==
             /\ p + Len(Numeral[k]) <= q
             /\ \A j \in 1 .. Len(Numeral[k]) : At(b, p + j - 1) = Numeral[k][j]
           P == {k \in Nat : Stands(k) => f[p + Len(Numeral[k])] = k}
<1>3. ASSUME NEW k \in Nat, \A m \in 0 .. k - 1 : m \in P
      PROVE  k \in P
  <2>1. SUFFICES ASSUME Stands(k) PROVE f[p + Len(Numeral[k])] = k
    BY Zenon
  <2>2. CASE k < Hex
    <3>1. Len(Numeral[k]) = 1 /\ Numeral[k][1] = Digits[k + 1]
      BY <2>2, NumeralOfLess
    <3>2. At(b, (p + 1) - 1) = Digits[k + 1] /\ p + 1 <= q
      BY <2>1, <3>1
    <3>3. Value(Digits[k + 1]) = k
      BY <2>2, DigitIs, HexIs
    <3>4. f[p + 1] = f[(p + 1) - 1] * Hex + Value(At(b, (p + 1) - 1))
      <4>1. p + 1 \in p + 1 .. q
        BY <3>2, <1>0
      <4> HIDE DEF P
      <4> QED BY <1>2, <4>1
    <3>5. f[(p + 1) - 1] = 0 /\ 0 * Hex = 0
      BY <1>2, HexIs
    <3> QED BY <3>1, <3>2, <3>3, <3>4, <3>5
  <2>3. CASE k >= Hex
    <3> DEFINE a == k \div Hex
               l == Len(Numeral[a])
    <3>1. a \in Nat /\ a < k /\ k % Hex \in 0 .. Hex - 1 /\ a * Hex + (k % Hex) = k
      BY <2>3, Divided
    <3>2. /\ Len(Numeral[k]) = l + 1 /\ Numeral[k][Len(Numeral[k])] = Digits[(k % Hex) + 1]
          /\ \A j \in 1 .. l : Numeral[k][j] = Numeral[a][j]
      BY <2>3, NumeralOfMore
    <3>3. l \in Nat
      BY <3>1, NumeralTyped
    <3>4. Value(Digits[(k % Hex) + 1]) = k % Hex
      BY <3>1, DigitIs
    <3>5. a \in P
      <4>1. a \in 0 .. k - 1
        <5> HIDE DEF P, a
        <5> QED BY <3>1
      <4> QED BY <1>3, <4>1, Zenon
    <3> HIDE DEF a, l
    <3>6. p + (l + 1) <= q
      BY <2>1, <3>2, Zenon
    <3>7. p + l <= q /\ p + l + 1 \in p + 1 .. q /\ p + (l + 1) = p + l + 1
          /\ (p + l + 1) - 1 = p + l
      BY <1>0, <3>3, <3>6
    <3>8. \A j \in 1 .. l : At(b, p + j - 1) = Numeral[a][j]
      <4>1. \A j \in 1 .. l : j \in 1 .. l + 1
        BY <3>3
      <4>2. \A j \in 1 .. l + 1 : At(b, p + j - 1) = Numeral[k][j]
        BY <2>1, <3>2, Zenon
      <4> QED BY <3>2, <4>1, <4>2, Zenon
    <3>9. f[p + l] = a
      BY <3>5, <3>7, <3>8, Zenon DEF l
    <3>10. At(b, p + (l + 1) - 1) = Digits[(k % Hex) + 1]
      <4>1. l + 1 \in 1 .. l + 1
        BY <3>3
      <4> QED BY <2>1, <3>2, <4>1, Zenon
    <3>11. p + (l + 1) - 1 = (p + l + 1) - 1
      BY <3>3
    <3>12. f[p + l + 1] = f[(p + l + 1) - 1] * Hex + Value(At(b, (p + l + 1) - 1))
      BY <1>2, <3>7, Zenon
    <3>13. f[p + l + 1] = a * Hex + (k % Hex)
      BY <3>4, <3>7, <3>9, <3>10, <3>11, <3>12, Zenon
    <3> QED BY <3>1, <3>2, <3>7, <3>13, Zenon
  <2> QED BY <2>2, <2>3, HexIs
<1>4. \A k \in Nat : k \in P
  <2> HIDE DEF P
  <2> QED BY <1>3, FromAllLess
<1>5. Stands(n)
  BY <1>0 DEF q
<1>6. f[q] = n
  BY <1>4, <1>5, Zenon DEF q
<1> QED BY <1>1, <1>6, Zenon DEF q

-----------------------------------------------------------------------------
(***************************************************************************)
(* Chunked bodies: where the chunks stand in the stream.                   *)
(***************************************************************************)

Sent == Byte \cup Digit \cup {"CR", "LF", "x", "header"}

Size(i) == Len(chunks[i])
Width(i) == Len(Numeral[Size(i)])
EndMark(i) == IF i = cut THEN <<"x", "x">> ELSE CRLF

\* A chunk as it is sent, and the first k of them.
Part(i) == Numeral[Len(chunks[i])] \o CRLF \o chunks[i] \o EndMark(i)
Parts(k) == [i \in 1 .. k |-> Part(i)]
Laid(k) == FlattenSeq(Parts(k))

\* What the peer sends is there.
Sends == /\ chunks \in Bodies /\ cut \in 0 .. Len(chunks)
         /\ \E e \in Endings : stream = Stream(chunks, cut, e)

LEMMA ChunkIs ==
  ASSUME chunks \in Bodies
  PROVE  /\ Len(chunks) \in Nat /\ chunks \in Seq(Seq(Byte))
         /\ \A i \in 1 .. Len(chunks) :
              /\ chunks[i] \in Seq(Byte) /\ chunks[i] \in Seq(Sent) /\ Size(i) \in Nat \ {0}
              /\ Numeral[Size(i)] \in Seq(Digit) /\ Numeral[Size(i)] \in Seq(Sent)
              /\ Width(i) \in Nat \ {0}
<1>1. chunks \in Seq(Seq(Byte) \ {<<>>})
  BY StreamAssumption
<1>2. Len(chunks) \in Nat /\ \A i \in 1 .. Len(chunks) : chunks[i] \in Seq(Byte) \ {<<>>}
  BY <1>1
<1>3. chunks \in Seq(Seq(Byte))
  BY <1>1
<1>4. ASSUME NEW i \in 1 .. Len(chunks)
      PROVE  /\ chunks[i] \in Seq(Byte) /\ chunks[i] \in Seq(Sent) /\ Size(i) \in Nat \ {0}
             /\ Numeral[Size(i)] \in Seq(Digit) /\ Numeral[Size(i)] \in Seq(Sent)
             /\ Width(i) \in Nat \ {0}
  <2> DEFINE c == chunks[i]
             n == Len(c)
             d == Numeral[n]
  <2>1. c \in Seq(Byte) /\ c # <<>>
    BY <1>2
  <2> HIDE DEF c
  <2>2. c \in Seq(Sent) /\ n \in Nat \ {0}
    BY <2>1 DEF Sent
  <2> HIDE DEF n
  <2>3. d \in Seq(Digit) /\ Len(d) \in Nat \ {0}
    BY <2>2, NumeralTyped
  <2> HIDE DEF d
  <2>4. d \in Seq(Sent)
    BY <2>3 DEF Sent
  <2> QED BY <2>1, <2>2, <2>3, <2>4, Zenon DEF c, n, d, Size, Width
<1> QED BY <1>2, <1>3, <1>4, Zenon

LEMMA EndsAre ==
  /\ CRLF \in Seq(Sent) /\ Len(CRLF) = 2 /\ CRLF[1] = "CR" /\ CRLF[2] = "LF"
  /\ \A i : /\ EndMark(i) \in Seq(Sent) /\ Len(EndMark(i)) = 2
            /\ i = cut => EndMark(i)[1] = "x"
            /\ i # cut => EndMark(i)[1] = "CR" /\ EndMark(i)[2] = "LF"
<1>1. /\ CRLF \in Seq(Sent) /\ Len(CRLF) = 2 /\ CRLF[1] = "CR" /\ CRLF[2] = "LF"
  BY DEF CRLF, Sent
<1>2. /\ <<"x", "x">> \in Seq(Sent) /\ Len(<<"x", "x">>) = 2 /\ <<"x", "x">>[1] = "x"
  BY DEF Sent
<1> QED BY <1>1, <1>2, Zenon DEF EndMark

\* A chunk as it is sent, byte by byte.
LEMMA PartIs ==
  ASSUME chunks \in Bodies, NEW i \in 1 .. Len(chunks)
  PROVE  /\ Part(i) \in Seq(Sent) /\ Len(Part(i)) = Width(i) + Size(i) + 4
         /\ Width(i) \in Nat /\ Size(i) \in Nat
         /\ \A j \in 1 .. Width(i) : Part(i)[j] = Numeral[Size(i)][j]
         /\ Part(i)[Width(i) + 1] = "CR" /\ Part(i)[Width(i) + 2] = "LF"
         /\ \A j \in 1 .. Size(i) : Part(i)[Width(i) + 2 + j] = chunks[i][j]
         /\ i = cut => Part(i)[Width(i) + 2 + Size(i) + 1] = "x"
         /\ i # cut => /\ Part(i)[Width(i) + 2 + Size(i) + 1] = "CR"
                       /\ Part(i)[Width(i) + 2 + Size(i) + 2] = "LF"
<1> DEFINE s == Numeral[Size(i)]
           t == CRLF
           u == chunks[i]
           v == EndMark(i)
           w == s \o t \o u \o v
<1>1. s \in Seq(Sent) /\ t \in Seq(Sent) /\ u \in Seq(Sent) /\ v \in Seq(Sent)
  BY ChunkIs, EndsAre, Zenon
<1>2. /\ Len(s) = Width(i) /\ Len(t) = 2 /\ Len(u) = Size(i) /\ Len(v) = 2
      /\ t[1] = "CR" /\ t[2] = "LF" /\ w = Part(i)
      /\ i = cut => v[1] = "x"
      /\ i # cut => v[1] = "CR" /\ v[2] = "LF"
  BY EndsAre, Zenon DEF Width, Size, Part
<1>3. Width(i) \in Nat /\ Size(i) \in Nat
  BY ChunkIs
<1> HIDE DEF s, t, u, v
<1>4. /\ w \in Seq(Sent)
      /\ Len(w) = Len(s) + Len(t) + Len(u) + Len(v)
      /\ \A j \in 1 .. Len(s) : w[j] = s[j]
      /\ \A j \in 1 .. Len(t) : w[Len(s) + j] = t[j]
      /\ \A j \in 1 .. Len(u) : w[Len(s) + Len(t) + j] = u[j]
      /\ \A j \in 1 .. Len(v) : w[Len(s) + Len(t) + Len(u) + j] = v[j]
  <2>1. w = s \o t \o u \o v
    OBVIOUS
  <2> HIDE DEF w
  <2> QED BY <1>1, <2>1, FourParts
<1> HIDE DEF w
<1>5. /\ w \in Seq(Sent)
      /\ Len(w) = Width(i) + 2 + Size(i) + 2
      /\ \A j \in 1 .. Width(i) : w[j] = s[j]
      /\ \A j \in 1 .. 2 : w[Width(i) + j] = t[j]
      /\ \A j \in 1 .. Size(i) : w[Width(i) + 2 + j] = u[j]
      /\ \A j \in 1 .. 2 : w[Width(i) + 2 + Size(i) + j] = v[j]
  BY <1>2, <1>4, Zenon
<1>6. 1 \in 1 .. 2 /\ 2 \in 1 .. 2 /\ Width(i) + 2 + Size(i) + 2 = Width(i) + Size(i) + 4
  BY <1>3
<1> QED BY <1>2, <1>3, <1>5, <1>6, Zenon DEF s, u

\* One chunk more is sent after those before it.
LEMMA LaidIs ==
  ASSUME chunks \in Bodies
  PROVE  /\ Laid(0) = <<>>
         /\ \A k \in 0 .. Len(chunks) :
              Laid(k) \in Seq(Sent) /\ Encoded(SubSeq(chunks, 1, k), cut) = Laid(k)
         /\ \A k \in 0 .. Len(chunks) - 1 : Laid(k + 1) = Laid(k) \o Part(k + 1)
<1> DEFINE n == Len(chunks)
<1>1. n \in Nat /\ chunks \in Seq(Seq(Byte))
  BY ChunkIs
<1>2. ASSUME NEW k \in 0 .. n
      PROVE  /\ Parts(k) \in Seq(Seq(Sent)) /\ Len(Parts(k)) = k
             /\ \A i \in 1 .. k : Parts(k)[i] = Part(i)
  <2>1. \A i \in 1 .. k : Part(i) \in Seq(Sent)
    BY <1>1, PartIs
  <2>2. k \in Nat
    BY <1>1
  <2> QED BY <2>1, <2>2 DEF Parts
<1>3. Laid(0) = <<>>
  <2>1. Parts(0) = <<>> /\ Len(Parts(0)) = 0
    BY DEF Parts
  <2> QED BY <2>1, Zenon DEF Laid, FlattenSeq
<1>4. ASSUME NEW k \in 0 .. n
      PROVE  Laid(k) \in Seq(Sent) /\ Encoded(SubSeq(chunks, 1, k), cut) = Laid(k)
  <2>1. Laid(k) \in Seq(Sent)
    BY <1>2, FlattenTyped DEF Laid
  <2> DEFINE c == SubSeq(chunks, 1, k)
  <2>2. DOMAIN c = 1 .. k /\ \A i \in 1 .. k : c[i] = chunks[i]
    <3>1. /\ Len(c) = k /\ c \in Seq(Seq(Byte))
          /\ \A i \in 1 .. k : c[i] = chunks[i]
      BY <1>1
    <3> HIDE DEF c
    <3> QED BY <3>1
  <2> HIDE DEF c
  <2> DEFINE g == [i \in DOMAIN c |->
                     Numeral[Len(c[i])] \o CRLF \o c[i] \o IF i = cut THEN <<"x", "x">> ELSE CRLF]
  <2>3. g = Parts(k)
    <3>1. \A i \in 1 .. k :
            (Numeral[Len(c[i])] \o CRLF \o c[i] \o IF i = cut THEN <<"x", "x">> ELSE CRLF)
              = Part(i)
      BY <2>2, Zenon DEF Part, EndMark
    <3>2. g = [i \in 1 .. k |-> Part(i)]
      BY <2>2, <3>1, Zenon
    <3> QED BY <3>2, Zenon DEF Parts
  <2>4. Encoded(c, cut) = FlattenSeq(g)
    BY Zenon DEF Encoded
  <2> QED BY <2>1, <2>3, <2>4, Zenon DEF Laid, c
<1>5. ASSUME NEW k \in 0 .. n - 1
      PROVE  Laid(k + 1) = Laid(k) \o Part(k + 1)
  <2>1. k \in 0 .. n /\ k + 1 \in 0 .. n /\ k + 1 \in 1 .. k + 1
        /\ \A i \in 1 .. k : i \in 1 .. k + 1
    BY <1>1
  <2> DEFINE q == Parts(k + 1)
             r == Parts(k)
  <2>2. /\ q \in Seq(Seq(Sent)) /\ Len(q) = k + 1 /\ q[k + 1] = Part(k + 1)
        /\ r \in Seq(Seq(Sent)) /\ Len(r) = k
        /\ \A i \in 1 .. k : q[i] = r[i]
    BY <1>2, <2>1, Zenon
  <2>3. FlattenSeq(q) = FlattenSeq(r) \o q[Len(q)]
    <3> HIDE DEF q, r
    <3> QED BY <2>2, FlattenMore
  <2> QED BY <2>2, <2>3, Zenon DEF Laid
<1> QED BY <1>3, <1>4, <1>5, Zenon

\* Each chunk stands where the one before it ends, whatever follows.
LEMMA LaidGrows ==
  ASSUME chunks \in Bodies
  PROVE  \A m \in 0 .. Len(chunks) : \A i \in 1 .. m :
           /\ Len(Laid(i)) = Len(Laid(i - 1)) + Len(Part(i))
           /\ Len(Laid(i)) <= Len(Laid(m))
           /\ \A j \in 1 .. Len(Part(i)) : Laid(m)[Len(Laid(i - 1)) + j] = Part(i)[j]
<1> DEFINE n == Len(chunks)
           Holds(m) == \A i \in 1 .. m :
             /\ Len(Laid(i)) = Len(Laid(i - 1)) + Len(Part(i))
             /\ Len(Laid(i)) <= Len(Laid(m))
             /\ \A j \in 1 .. Len(Part(i)) : Laid(m)[Len(Laid(i - 1)) + j] = Part(i)[j]
           P == {m \in 0 .. n : Holds(m)}
<1>1. n \in Nat
  BY ChunkIs
<1>2. 0 \in P
  BY <1>1
<1>3. ASSUME NEW m \in 0 .. n - 1, m \in P
      PROVE  m + 1 \in P
  <2>1. m \in Nat /\ m + 1 \in 0 .. n /\ m + 1 \in 1 .. n /\ m \in 0 .. n
        /\ \A i \in 1 .. m : i \in 1 .. n /\ i - 1 \in 0 .. n /\ i \in 0 .. n
    BY <1>1
  <2> DEFINE s == Laid(m)
             t == Part(m + 1)
             w == s \o t
  <2>2. s \in Seq(Sent) /\ Laid(m + 1) = w
    BY <1>1, <2>1, LaidIs
  <2>3. t \in Seq(Sent)
    BY <2>1, PartIs
  <2>4. ASSUME NEW i \in 1 .. m
        PROVE  Len(Laid(i - 1)) \in Nat /\ Len(Part(i)) \in Nat
    <3>1. Laid(i - 1) \in Seq(Sent)
      BY <2>1, LaidIs
    <3>2. Part(i) \in Seq(Sent)
      BY <2>1, PartIs
    <3> QED BY <3>1, <3>2, LenProperties
  <2>5. Holds(m)
    BY <1>3, Zenon
  <2> HIDE DEF P, Holds, s, t
  <2>6. /\ Len(w) = Len(s) + Len(t) /\ Len(s) \in Nat /\ Len(t) \in Nat
        /\ \A j \in 1 .. Len(s) : w[j] = s[j]
        /\ \A j \in 1 .. Len(t) : w[Len(s) + j] = t[j]
    BY <2>2, <2>3, Concatenated
  <2> HIDE DEF w
  <2>7. ASSUME NEW i \in 1 .. m
        PROVE  /\ Len(Laid(i)) = Len(Laid(i - 1)) + Len(Part(i))
               /\ Len(Laid(i)) <= Len(w)
               /\ \A j \in 1 .. Len(Part(i)) : w[Len(Laid(i - 1)) + j] = Part(i)[j]
    <3>1. /\ Len(Laid(i)) = Len(Laid(i - 1)) + Len(Part(i))
          /\ Len(Laid(i)) <= Len(s)
          /\ \A j \in 1 .. Len(Part(i)) : s[Len(Laid(i - 1)) + j] = Part(i)[j]
      BY <2>5, Zenon DEF Holds, s
    <3>2. Len(Laid(i - 1)) \in Nat /\ Len(Part(i)) \in Nat
      BY <2>4
    <3> DEFINE a == Len(Laid(i - 1))
               p == Len(Part(i))
               z == Len(Laid(i))
               ls == Len(s)
               lt == Len(t)
    <3>3. z = a + p /\ z <= ls /\ a \in Nat /\ p \in Nat /\ ls \in Nat /\ lt \in Nat
      BY <2>6, <3>1, <3>2, Zenon
    <3> HIDE DEF a, p, z, ls, lt
    <3>4. z <= ls + lt /\ \A j \in 1 .. p : a + j \in 1 .. ls
      BY <3>3
    <3>5. \A j \in 1 .. p : w[a + j] = s[a + j]
      BY <2>6, <3>4, Zenon DEF ls
    <3>6. Len(Laid(i)) <= Len(w)
      BY <2>6, <3>4, Zenon DEF z, ls, lt
    <3> QED BY <3>1, <3>5, <3>6, Zenon DEF a, p
  <2>8. \A i \in 1 .. m + 1 : i \in 1 .. m \/ i = m + 1
    BY <2>1
  <2>9. (m + 1) - 1 = m /\ Len(w) <= Len(w)
    <3> DEFINE lw == Len(s) + Len(t)
    <3>1. lw \in Nat /\ Len(w) = lw
      BY <2>6
    <3> HIDE DEF lw
    <3> QED BY <2>1, <3>1
  <2>10. Holds(m + 1)
    BY <2>2, <2>6, <2>7, <2>8, <2>9, Zenon DEF Holds, s, t
  <2> QED BY <2>1, <2>10, Zenon DEF P
<1>4. ASSUME NEW m \in 0 .. n PROVE Holds(m)
  <2> HIDE DEF P
  <2>1. m \in P
    BY <1>1, <1>2, <1>3, UpTo
  <2> QED BY <2>1, Zenon DEF P
<1> QED BY <1>4, Zenon

\* Where the chunks end.
EndsInOrder ==
  /\ EndOf(0) = 1
  /\ \A i \in 0 .. Len(chunks) : EndOf(i) \in Nat /\ EndOf(i) > i
  /\ \A i \in 1 .. Len(chunks) : EndOf(i) = EndOf(i - 1) + Width(i) + Size(i) + 4
  /\ \A i, j \in 0 .. Len(chunks) : i <= j => EndOf(i) <= EndOf(j)

\* The i-th chunk stands where the one before it ends.
Stands(i) ==
  LET p == EndOf(i - 1) IN
  /\ \A j \in 1 .. Width(i) : stream[p + j] = Numeral[Size(i)][j]
  /\ stream[p + Width(i) + 1] = "CR" /\ stream[p + Width(i) + 2] = "LF"
  /\ \A j \in 1 .. Size(i) : stream[p + Width(i) + 2 + j] = chunks[i][j]
  /\ i = cut => stream[p + Width(i) + 2 + Size(i) + 1] = "x"
  /\ i # cut => /\ stream[p + Width(i) + 2 + Size(i) + 1] = "CR"
                /\ stream[p + Width(i) + 2 + Size(i) + 2] = "LF"

LastStands ==
  LET p == EndOf(Len(chunks)) IN
  /\ p + 3 <= Len(stream)
  /\ stream[p + 1] = "0" /\ stream[p + 2] = "CR" /\ stream[p + 3] = "LF"

\* Chunks end one after the other, and each takes more than one byte.
LEMMA EndOfIs ==
  ASSUME chunks \in Bodies
  PROVE  EndsInOrder /\ \A i \in 0 .. Len(chunks) : EndOf(i) = 1 + Len(Laid(i))
<1> DEFINE n == Len(chunks)
<1>1. n \in Nat
  BY ChunkIs
<1>2. _bodyStartIndex = 1
  BY DEF _bodyStartIndex, Header
<1>3. ASSUME NEW i \in 0 .. n PROVE EndOf(i) = 1 + Len(Laid(i))
  BY <1>2, LaidIs, Zenon DEF EndOf
<1>4. ASSUME NEW i \in 0 .. n PROVE EndOf(i) \in Nat
  <2>1. Len(Laid(i)) \in Nat
    BY LaidIs, LenProperties
  <2> DEFINE l == Len(Laid(i))
  <2>2. l \in Nat /\ EndOf(i) = 1 + l
    BY <1>3, <2>1
  <2> HIDE DEF l
  <2> QED BY <2>2
<1>5. EndOf(0) = 1
  <2>1. Len(Laid(0)) = 0
    BY LaidIs
  <2> QED BY <1>1, <1>3, <2>1
<1>6. ASSUME NEW i \in 1 .. n
      PROVE  /\ EndOf(i) = EndOf(i - 1) + Width(i) + Size(i) + 4
             /\ Width(i) \in Nat \ {0} /\ Size(i) \in Nat \ {0}
             /\ EndOf(i) \in Nat /\ EndOf(i - 1) \in Nat
  <2>1. i \in 0 .. n /\ i - 1 \in 0 .. n /\ n \in 0 .. n
    BY <1>1
  <2> DEFINE a == Len(Laid(i))
             b == Len(Laid(i - 1))
             p == Len(Part(i))
  <2>2. a = b + p
    BY <2>1, LaidGrows, Zenon
  <2>3. p = Width(i) + Size(i) + 4
    BY PartIs
  <2>4. EndOf(i) = 1 + a /\ EndOf(i - 1) = 1 + b
    BY <1>3, <2>1, Zenon
  <2>5. b \in Nat
    BY <2>1, LaidIs, LenProperties
  <2>6. Width(i) \in Nat \ {0} /\ Size(i) \in Nat \ {0}
    BY ChunkIs
  <2>7. EndOf(i) \in Nat /\ EndOf(i - 1) \in Nat
    BY <1>4, <2>1
  <2> DEFINE w == Width(i)
             s == Size(i)
             c == EndOf(i - 1)
  <2>8. w \in Nat /\ s \in Nat /\ p = w + s + 4 /\ c = 1 + b /\ EndOf(i) = 1 + a
    BY <2>3, <2>4, <2>6
  <2> HIDE DEF a, b, p, w, s, c
  <2>9. EndOf(i) = c + w + s + 4
    BY <2>2, <2>5, <2>8
  <2> QED BY <2>6, <2>7, <2>9, Zenon DEF w, s, c
<1> DEFINE P == {m \in 0 .. n : EndOf(m) > m /\ \A i \in 0 .. m : EndOf(i) <= EndOf(m)}
<1>7. 0 \in P
  <2>1. \A i \in 0 .. 0 : i = 0
    OBVIOUS
  <2> QED BY <1>1, <1>5, <2>1
<1>8. ASSUME NEW m \in 0 .. n - 1, m \in P PROVE m + 1 \in P
  <2>1. m \in 0 .. n /\ m + 1 \in 0 .. n /\ m + 1 \in 1 .. n /\ (m + 1) - 1 = m
    BY <1>1
  <2> DEFINE w == Width(m + 1)
             s == Size(m + 1)
             a == EndOf(m)
             b == EndOf(m + 1)
  <2>2. b = a + w + s + 4 /\ w \in Nat /\ s \in Nat /\ a \in Nat
    BY <1>6, <2>1
  <2>3. a > m /\ \A i \in 0 .. m : EndOf(i) <= a
    BY <1>8
  <2>4. \A i \in 0 .. m : EndOf(i) \in Nat
    BY <1>4, <2>1
  <2> HIDE DEF w, s, a, n
  <2>5. b > m + 1 /\ \A i \in 0 .. m : EndOf(i) <= b
    BY <2>1, <2>2, <2>3, <2>4
  <2>6. \A i \in 0 .. m + 1 : i \in 0 .. m \/ i = m + 1
    BY <2>1
  <2>7. b <= b
    BY <2>2
  <2> QED BY <2>1, <2>5, <2>6, <2>7, Zenon DEF a
<1>9. ASSUME NEW m \in 0 .. n PROVE m \in P
  <2> HIDE DEF P
  <2> QED BY <1>1, <1>7, <1>8, UpTo
<1>10. \A i, j \in 0 .. n : i <= j => EndOf(i) <= EndOf(j)
  <2> SUFFICES ASSUME NEW i \in 0 .. n, NEW j \in 0 .. n, i <= j PROVE EndOf(i) <= EndOf(j)
    OBVIOUS
  <2>1. i \in 0 .. j
    BY <1>1
  <2> QED BY <1>9, <2>1, Zenon
<1>11. \A i \in 0 .. n : EndOf(i) > i
  BY <1>9, Zenon
<1> QED BY <1>3, <1>4, <1>5, <1>6, <1>10, <1>11 DEF EndsInOrder

\* The stream, byte by byte.
LEMMA StreamIs ==
  ASSUME Sends
  PROVE  /\ stream \in Seq(Sent) /\ LastStands
         /\ \A i \in 1 .. Len(chunks) : Stands(i)
<1> DEFINE n == Len(chunks)
<1>1. chunks \in Bodies /\ n \in Nat /\ chunks \in Seq(Seq(Byte))
  BY ChunkIs DEF Sends
<1>2. PICK e \in Endings : stream = Stream(chunks, cut, e)
  BY DEF Sends
<1>3. e \in Seq(Byte) /\ e \in Seq(Sent) /\ Len(e) >= 2 /\ e[1] = "CR" /\ e[2] = "LF"
      /\ Len(e) \in Nat
  <2>1. e \in Seq(Byte) /\ IsPrefix(CRLF, e)
    BY StreamAssumption
  <2>2. Len(CRLF) = 2 /\ CRLF[1] = "CR" /\ CRLF[2] = "LF" /\ CRLF \in Seq(Sent)
    BY EndsAre
  <2>3. Len(e) \in Nat /\ e \in Seq(Sent)
    BY <2>1 DEF Sent
  <2>4. 2 <= Len(e) /\ SubSeq(CRLF, 1, 2) = SubSeq(e, 1, 2)
    BY <2>1, <2>2, Zenon DEF IsPrefix
  <2>5. SubSeq(CRLF, 1, 2)[1] = "CR" /\ SubSeq(CRLF, 1, 2)[2] = "LF"
    BY <2>2
  <2>6. SubSeq(e, 1, 2)[1] = e[1] /\ SubSeq(e, 1, 2)[2] = e[2]
    BY <2>3, <2>4
  <2>7. e[1] = "CR" /\ e[2] = "LF"
    BY <2>4, <2>5, <2>6, Zenon
  <2> QED BY <2>1, <2>3, <2>4, <2>7
<1> DEFINE l == Laid(n)
           z == Numeral[0]
           h == Header
<1>4. stream = h \o l \o z \o e
  <2>1. chunks = SubSeq(chunks, 1, n)
    BY <1>1
  <2>2. n \in 0 .. n
    BY <1>1
  <2>3. Encoded(chunks, cut) = l
    BY <1>1, <2>1, <2>2, LaidIs, Zenon
  <2> QED BY <1>2, <2>3, Zenon DEF Stream
<1>5. h \in Seq(Sent) /\ Len(h) = 1
  BY DEF Header, Sent
<1>6. l \in Seq(Sent)
  BY <1>1, LaidIs
<1>7. z \in Seq(Sent) /\ Len(z) = 1 /\ z[1] = "0"
  <2>1. z \in Seq(Digit)
    BY NumeralTyped
  <2>2. z \in Seq(Sent)
    <3> HIDE DEF z
    <3> QED BY <2>1 DEF Sent
  <2> QED BY <2>2, NumeralOfZero
<1>e. e \in Seq(Sent)
  BY <1>3
<1> HIDE DEF h, l, z
<1>8. /\ Len(h) \in Nat /\ Len(l) \in Nat /\ stream \in Seq(Sent)
      /\ Len(stream) = Len(h) + Len(l) + Len(z) + Len(e)
      /\ \A j \in 1 .. Len(l) : stream[Len(h) + j] = l[j]
      /\ \A j \in 1 .. Len(z) : stream[Len(h) + Len(l) + j] = z[j]
      /\ \A j \in 1 .. Len(e) : stream[Len(h) + Len(l) + Len(z) + j] = e[j]
  <2>1. z \in Seq(Sent) /\ h \in Seq(Sent)
    BY <1>5, <1>7
  <2> QED BY <1>4, <2>1, <1>6, <1>e, FourParts, SMTT(60)
<1> DEFINE E(i) == EndOf(i)
           a == Len(l)
<1>9. /\ a \in Nat /\ Len(stream) = 1 + a + 1 + Len(e)
      /\ \A j \in 1 .. a : stream[1 + j] = l[j]
      /\ \A j \in 1 .. 1 : stream[1 + a + j] = z[j]
      /\ \A j \in 1 .. Len(e) : stream[1 + a + 1 + j] = e[j]
  BY <1>5, <1>7, <1>8, Zenon
<1>10. E(n) = 1 + a
  <2>1. n \in 0 .. n
    BY <1>1
  <2> QED BY <1>1, <2>1, EndOfIs, Zenon DEF l
<1>11. LastStands
  <2> HIDE DEF a, n
  <2>1. 1 \in 1 .. 1 /\ 1 \in 1 .. Len(e) /\ 2 \in 1 .. Len(e)
    BY <1>3
  <2>2. stream[1 + a + 1] = "0" /\ stream[1 + a + 1 + 1] = "CR" /\ stream[1 + a + 1 + 2] = "LF"
    BY <1>3, <1>7, <1>9, <2>1, Zenon
  <2>3. 1 + a + 1 + 1 = 1 + a + 2 /\ 1 + a + 1 + 2 = 1 + a + 3
    BY <1>9
  <2> DEFINE le == Len(e)
             ls == Len(stream)
  <2>4. ls = 1 + a + 1 + le /\ le \in Nat /\ le >= 2
    BY <1>3, <1>9
  <2> HIDE DEF le, ls
  <2>5. 1 + a + 3 <= ls
    BY <1>9, <2>4
  <2> QED BY <1>10, <2>2, <2>3, <2>5, Zenon DEF LastStands, ls, n
<1>12. ASSUME NEW i \in 1 .. n PROVE Stands(i)
  <2> DEFINE b == Len(Laid(i - 1))
             p == Part(i)
             w == Width(i)
             s == Size(i)
  <2>1. i \in 0 .. n /\ i - 1 \in 0 .. n /\ n \in 0 .. n
    BY <1>1
  <2>2. /\ p \in Seq(Sent) /\ Len(p) = w + s + 4 /\ w \in Nat /\ s \in Nat
        /\ \A j \in 1 .. w : p[j] = Numeral[s][j]
        /\ p[w + 1] = "CR" /\ p[w + 2] = "LF"
        /\ \A j \in 1 .. s : p[w + 2 + j] = chunks[i][j]
        /\ i = cut => p[w + 2 + s + 1] = "x"
        /\ i # cut => p[w + 2 + s + 1] = "CR" /\ p[w + 2 + s + 2] = "LF"
    BY <1>1, PartIs, Zenon
  <2>3. /\ Len(Laid(i)) = b + Len(p) /\ Len(Laid(i)) <= a
        /\ \A j \in 1 .. Len(p) : l[b + j] = p[j]
    BY <1>1, <2>1, LaidGrows, Zenon DEF l
  <2>4. E(i - 1) = 1 + b
    BY <1>1, <2>1, EndOfIs, Zenon
  <2>5. b \in Nat
    BY <1>1, <2>1, LaidIs, LenProperties
  <2> DEFINE t == w + s + 4
             c == Len(Laid(i))
  <2>6. c = b + t /\ c <= a /\ \A j \in 1 .. t : l[b + j] = p[j]
    BY <2>2, <2>3, Zenon
  <2>7. w \in Nat /\ s \in Nat
    BY <2>2
  <2> HIDE DEF b, p, w, s, a, c, n
  <2>8. \A j \in 1 .. t : b + j \in 1 .. a /\ 1 + (b + j) = 1 + b + j
    BY <1>9, <2>5, <2>6, <2>7
  <2>9. \A j \in 1 .. t : stream[1 + b + j] = p[j]
    BY <1>9, <2>6, <2>8, Zenon
  <2>10. /\ \A j \in 1 .. w : j \in 1 .. t
         /\ w + 1 \in 1 .. t /\ w + 2 \in 1 .. t
         /\ \A j \in 1 .. s : w + 2 + j \in 1 .. t
         /\ w + 2 + s + 1 \in 1 .. t /\ w + 2 + s + 2 \in 1 .. t
    BY <2>7
  <2>11. \A j \in 1 .. s : 1 + b + w + 2 + j = 1 + b + (w + 2 + j)
    BY <2>5, <2>7
  <2>12. /\ 1 + b + w + 1 = 1 + b + (w + 1) /\ 1 + b + w + 2 = 1 + b + (w + 2)
         /\ 1 + b + w + 2 + s + 1 = 1 + b + (w + 2 + s + 1)
         /\ 1 + b + w + 2 + s + 2 = 1 + b + (w + 2 + s + 2)
    BY <2>5, <2>7
  <2>17. /\ E(i - 1) + w + 1 = 1 + b + (w + 1) /\ E(i - 1) + w + 2 = 1 + b + (w + 2)
         /\ \A j \in 1 .. s : E(i - 1) + w + 2 + j = 1 + b + (w + 2 + j)
    BY <2>4, <2>11, <2>12, Zenon
  <2> HIDE DEF t
  <2>13. \A j \in 1 .. w : stream[E(i - 1) + j] = Numeral[s][j]
    BY <2>2, <2>4, <2>9, <2>10, Zenon
  <2>14. stream[E(i - 1) + w + 1] = "CR" /\ stream[E(i - 1) + w + 2] = "LF"
    BY <2>2, <2>9, <2>10, <2>17, Zenon
  <2>15. \A j \in 1 .. s : stream[E(i - 1) + w + 2 + j] = chunks[i][j]
    BY <2>2, <2>9, <2>10, <2>17, ZenonT(60)
  <2>16. /\ i = cut => stream[E(i - 1) + w + 2 + s + 1] = "x"
         /\ i # cut => /\ stream[E(i - 1) + w + 2 + s + 1] = "CR"
                       /\ stream[E(i - 1) + w + 2 + s + 2] = "LF"
    BY <2>2, <2>4, <2>9, <2>10, <2>12, ZenonT(60)
  <2> QED BY <2>13, <2>14, <2>15, <2>16, Zenon DEF Stands, w, s
<1> QED BY <1>8, <1>11, <1>12

-----------------------------------------------------------------------------
(***************************************************************************)
(* Chunked bodies: what find and strtol say of the bytes that are there.   *)
(***************************************************************************)

\* b is the first m bytes of the stream.
Begins(b, m) == m \in 0 .. Len(stream) /\ b = SubSeq(stream, 1, m)

\* What At says of the bytes that have arrived.
LEMMA BeginsIs ==
  ASSUME stream \in Seq(Sent), NEW m, NEW b, Begins(b, m)
  PROVE  /\ b \in Seq(Sent) /\ Len(b) = m /\ m \in Nat /\ Len(stream) \in Nat /\ m <= Len(stream)
         /\ \A p \in Nat : p < m => At(b, p) = stream[p + 1]
         /\ \A p \in Nat : p >= m => At(b, p) = "NUL"
<1>1. Len(stream) \in Nat /\ m \in 0 .. Len(stream) /\ b = SubSeq(stream, 1, m)
  BY DEF Begins
<1>2. /\ b \in Seq(Sent) /\ Len(b) = m
      /\ \A i \in 1 .. m : b[i] = stream[i]
  BY <1>1
<1>3. ASSUME NEW p \in Nat, p < m PROVE At(b, p) = stream[p + 1]
  <2>1. p + 1 \in 1 .. m
    BY <1>1, <1>3
  <2> QED BY <1>2, <1>3, <2>1, Zenon DEF At
<1>4. ASSUME NEW p \in Nat, p >= m PROVE At(b, p) = "NUL"
  <2>1. ~(p < m)
    BY <1>1, <1>4
  <2> QED BY <1>2, <2>1, Zenon DEF At
<1> QED BY <1>1, <1>2, <1>3, <1>4

\* A line ends at q.
EndsAt(b, q) == At(b, q) = "CR" /\ At(b, q + 1) = "LF"

\* What find says of them.
LEMMA FindIs ==
  ASSUME stream \in Seq(Sent), NEW m, NEW b, Begins(b, m), NEW p \in Nat
  PROVE  /\ EndsAt(b, p) => find(b, p) = p
         /\ p < m /\ find(b, p) = p => EndsAt(b, p)
         /\ find(b, p) # npos <=> \E q \in p .. m : EndsAt(b, q)
<1>0. npos = Len(stream)
  BY DEF npos
<1>1. /\ Len(b) = m /\ m \in Nat /\ npos \in Nat /\ m <= npos
      /\ \A q \in Nat : q >= m => At(b, q) = "NUL"
  BY <1>0, BeginsIs
<1> DEFINE hits == {q \in p .. m : EndsAt(b, q)}
           least == CHOOSE q \in hits : \A r \in hits : q <= r
<1>2. find(b, p) = IF hits = {} THEN npos ELSE least
  <2> DEFINE found == {q \in p .. Len(b) : At(b, q) = "CR" /\ At(b, q + 1) = "LF"}
  <2>1. find(b, p) = IF found = {} THEN npos ELSE CHOOSE q \in found : \A r \in found : q <= r
    BY Zenon DEF find
  <2>2. found = hits
    BY <1>1 DEF EndsAt
  <2> HIDE DEF found, hits
  <2> QED BY <2>1, <2>2, Zenon
<1>3. \A q \in Nat : EndsAt(b, q) => q < m
  <2> SUFFICES ASSUME NEW q \in Nat, EndsAt(b, q), ~(q < m) PROVE FALSE
    BY Zenon
  <2>1. At(b, q) = "NUL" /\ At(b, q) = "CR"
    <3>1. q >= m
      BY <1>1
    <3> QED BY <1>1, <3>1 DEF EndsAt
  <2> QED BY <2>1
<1>4. hits # {} => least \in hits /\ \A r \in hits : least <= r
  <2>1. hits \in SUBSET Nat
    BY <1>1
  <2>2. least = Min(hits)
    BY Zenon DEF Min
  <2> HIDE DEF hits, least
  <2> QED BY <2>1, <2>2, LeastOf
<1>5. \A q : q \in hits <=> q \in p .. m /\ EndsAt(b, q)
  BY Zenon
<1> HIDE DEF hits, least, EndsAt
<1>6. EndsAt(b, p) => find(b, p) = p
  <2> SUFFICES ASSUME EndsAt(b, p) PROVE find(b, p) = p
    BY Zenon
  <2>1. p \in hits
    BY <1>1, <1>3, <1>5
  <2>2. least \in p .. m /\ least <= p
    BY <1>4, <1>5, <2>1
  <2>3. least = p
    BY <1>1, <2>2
  <2> QED BY <1>2, <2>1, <2>3
<1>7. p < m /\ find(b, p) = p => EndsAt(b, p)
  <2> SUFFICES ASSUME p < m, find(b, p) = p PROVE EndsAt(b, p)
    BY Zenon
  <2>1. p # npos
    BY <1>1
  <2>2. hits # {}
    BY <1>2, <2>1
  <2> QED BY <1>2, <1>4, <1>5, <2>2
<1>8. find(b, p) # npos <=> \E q \in p .. m : EndsAt(b, q)
  <2>1. ASSUME hits # {} PROVE find(b, p) # npos
    <3>1. least \in p .. m /\ EndsAt(b, least)
      BY <1>4, <1>5, <2>1
    <3>2. least \in Nat /\ least < m
      BY <1>1, <1>3, <3>1
    <3>3. least # npos
      BY <1>1, <3>2
    <3> QED BY <1>2, <2>1, <3>3
  <2>2. hits = {} => find(b, p) = npos
    BY <1>2
  <2> QED BY <1>5, <2>1, <2>2
<1> QED BY <1>6, <1>7, <1>8

LEMMA SkipBlanks ==
  ASSUME NEW b, Len(b) \in Nat, NEW p \in Nat, p <= Len(b), ~IsBlank(At(b, p))
  PROVE  Skip(b, p, IsBlank) = p
<1> DEFINE Good(q) == ~IsBlank(At(b, q)) /\ \A r \in p .. q - 1 : IsBlank(At(b, r))
<1>1. p \in p .. Len(b) /\ p .. p - 1 = {}
  OBVIOUS
<1>2. Good(p)
  BY <1>1
<1>3. \A q \in p .. Len(b) : Good(q) => q = p
  <2> SUFFICES ASSUME NEW q \in p .. Len(b), Good(q), q # p PROVE FALSE
    BY Zenon
  <2>1. p \in p .. q - 1
    OBVIOUS
  <2> QED BY <2>1, Zenon
<1>4. Skip(b, p, IsBlank) = CHOOSE q \in p .. Len(b) : Good(q)
  BY Zenon DEF Skip
<1> HIDE DEF Good
<1> QED BY <1>1, <1>2, <1>3, <1>4

LEMMA SkipDigits ==
  ASSUME NEW b, Len(b) \in Nat, NEW p \in Nat, NEW q \in p .. Len(b), ~IsDigit(At(b, q)),
         \A r \in p .. q - 1 : IsDigit(At(b, r))
  PROVE  Skip(b, p, IsDigit) = q
<1> DEFINE Good(i) == ~IsDigit(At(b, i)) /\ \A r \in p .. i - 1 : IsDigit(At(b, r))
<1>2. Good(q)
  BY Zenon
<1>3. \A i \in p .. Len(b) : Good(i) => i = q
  <2> SUFFICES ASSUME NEW i \in p .. Len(b), Good(i), i # q PROVE FALSE
    BY Zenon
  <2>1. i \in p .. q - 1 \/ q \in p .. i - 1
    OBVIOUS
  <2> QED BY <2>1, Zenon
<1>4. Skip(b, p, IsDigit) = CHOOSE i \in p .. Len(b) : Good(i)
  BY Zenon DEF Skip
<1> HIDE DEF Good
<1> QED BY <1>2, <1>3, <1>4

\* strtol reads the digits at p up to the first byte that is not one.
LEMMA StrtolIs ==
  ASSUME NEW b, Len(b) \in Nat, NEW p \in Nat, NEW q \in p .. Len(b), ~IsBlank(At(b, p)),
         ~IsDigit(At(b, q)), \A r \in p .. q - 1 : IsDigit(At(b, r))
  PROVE  strtol(b, p)[2] = q /\ (p # q => strtol(b, p)[1] = Number(b, p, q))
<1>1. Skip(b, p, IsBlank) = p
  <2>1. p <= Len(b)
    OBVIOUS
  <2> QED BY <2>1, SkipBlanks
<1>2. Skip(b, p, IsDigit) = q
  BY SkipDigits
<1>3. Skip(b, Skip(b, p, IsBlank), IsDigit) = q
  BY <1>1, <1>2
<1>4. strtol(b, p) = IF p = q THEN <<0, p>> ELSE <<Number(b, p, q), q>>
  BY <1>1, <1>3, Zenon DEF strtol
<1> QED BY <1>4

-----------------------------------------------------------------------------
(***************************************************************************)
(* Chunked bodies: one turn of the loop.                                   *)
(***************************************************************************)

\* The bytes of the first k chunks.
Body(k) == FlattenSeq(SubSeq(chunks, 1, k))

\* One chunk more is appended to the body.
LEMMA BodyIs ==
  ASSUME chunks \in Bodies
  PROVE  /\ Body(0) = <<>>
         /\ \A k \in 0 .. Len(chunks) : Body(k) \in Seq(Byte) /\ Len(Body(k)) \in Nat
         /\ \A k \in 0 .. Len(chunks) - 1 : Body(k + 1) = Body(k) \o chunks[k + 1]
<1> DEFINE n == Len(chunks)
           s(k) == SubSeq(chunks, 1, k)
<1>1. n \in Nat /\ chunks \in Seq(Seq(Byte))
  BY ChunkIs
<1>2. ASSUME NEW k \in 0 .. n
      PROVE  s(k) \in Seq(Seq(Byte)) /\ Len(s(k)) = k /\ \A i \in 1 .. k : s(k)[i] = chunks[i]
  BY <1>1
<1>3. Body(0) = <<>>
  <2>1. s(0) = <<>> /\ Len(s(0)) = 0
    BY <1>1
  <2> QED BY <2>1, Zenon DEF Body, FlattenSeq
<1> HIDE DEF s
<1>4. ASSUME NEW k \in 0 .. n PROVE Body(k) \in Seq(Byte) /\ Len(Body(k)) \in Nat
  <2>1. FlattenSeq(s(k)) \in Seq(Byte)
    BY <1>2, FlattenTyped
  <2>2. Body(k) \in Seq(Byte)
    BY <2>1, Zenon DEF Body, s
  <2> QED BY <2>2, LenProperties
<1>5. ASSUME NEW k \in 0 .. n - 1 PROVE Body(k + 1) = Body(k) \o chunks[k + 1]
  <2>1. /\ k \in 0 .. n /\ k + 1 \in 0 .. n /\ k + 1 \in 1 .. k + 1
        /\ \A i \in 1 .. k : i \in 1 .. k + 1
    BY <1>1
  <2> DEFINE q == s(k + 1)
             r == s(k)
  <2>2. /\ q \in Seq(Seq(Byte)) /\ Len(q) = k + 1 /\ q[k + 1] = chunks[k + 1]
        /\ r \in Seq(Seq(Byte)) /\ Len(r) = k
        /\ \A i \in 1 .. k : q[i] = r[i]
    BY <1>2, <2>1, Zenon
  <2>3. FlattenSeq(q) = FlattenSeq(r) \o q[Len(q)]
    <3> HIDE DEF q, r
    <3> QED BY <2>2, FlattenMore
  <2> QED BY <2>2, <2>3, Zenon DEF Body, s
<1> QED BY <1>3, <1>4, <1>5

\* The line of chunk k + 1, when the k chunks before it have been read: it is read
\* as the chunk's size when all of it is there, and not at all before.
LEMMA LineRead ==
  ASSUME Sends, NEW m, NEW b, Begins(b, m),
         NEW k \in 0 .. Len(chunks) - 1, EndOf(k) <= m
  PROVE  LET p == EndOf(k)
             d == EndOf(k) + Width(k + 1)
         IN  /\ m < d + 2 => ~EndsAt(b, strtol(b, p)[2])
             /\ m >= d + 2 => /\ EndsAt(b, d)
                              /\ strtol(b, p)[2] = d /\ strtol(b, p)[1] = Size(k + 1)
<1> DEFINE i == k + 1
           p == EndOf(k)
           w == Width(i)
           d == p + w
           num == Numeral[Size(i)]
<1>1. /\ chunks \in Bodies /\ Len(chunks) \in Nat /\ stream \in Seq(Sent)
      /\ i \in 1 .. Len(chunks) /\ i - 1 = k /\ k \in 0 .. Len(chunks)
  BY ChunkIs, StreamIs DEF Sends
<1>2. p \in Nat /\ w \in Nat /\ w # 0 /\ num \in Seq(Digit) /\ Size(i) \in Nat /\ Len(num) = w
  BY <1>1, ChunkIs, EndOfIs DEF EndsInOrder, Width
<1>3. /\ \A j \in 1 .. w : stream[p + j] = num[j]
      /\ stream[d + 1] = "CR" /\ stream[d + 2] = "LF"
  BY <1>1, StreamIs, Zenon DEF Stands
<1>4. /\ Len(b) = m /\ m \in Nat
      /\ \A q \in Nat : q < m => At(b, q) = stream[q + 1]
      /\ \A q \in Nat : q >= m => At(b, q) = "NUL"
  BY <1>1, BeginsIs
<1>5. \A j \in 1 .. w : num[j] \in Digit
  <2> DEFINE x == num
  <2>1. x \in Seq(Digit) /\ Len(x) = w
    BY <1>2
  <2> HIDE DEF x, w
  <2>2. \A j \in 1 .. w : x[j] \in Digit
    BY <2>1
  <2> QED BY <2>2 DEF x
<1>0. p <= m
  OBVIOUS
<1> HIDE DEF i, p, w, num
<1>6. \A q \in Nat : p <= q /\ q < m /\ q < d => At(b, q) \in Digit
  <2> SUFFICES ASSUME NEW q \in Nat, p <= q, q < m, q < d PROVE At(b, q) \in Digit
    OBVIOUS
  <2>1. q + 1 - p \in 1 .. w /\ p + (q + 1 - p) = q + 1
    BY <1>2
  <2>2. stream[q + 1] = num[q + 1 - p]
    BY <1>3, <2>1
  <2> QED BY <1>4, <1>5, <2>1, <2>2
<1>7. ~IsBlank(At(b, p))
  <2>1. CASE p < m
    <3>1. p < d /\ p <= p
      BY <1>2
    <3>2. At(b, p) \in Digit
      BY <1>2, <1>6, <2>1, <3>1
    <3> QED BY <3>2, DigitsAre DEF IsBlank
  <2>2. CASE p >= m
    BY <1>2, <1>4, <2>2 DEF IsBlank
  <2> QED BY <1>2, <1>4, <2>1, <2>2
<1>8. ASSUME m < d + 2 PROVE ~EndsAt(b, strtol(b, p)[2])
  <2> DEFINE q == IF m < d THEN m ELSE d
  <2>1. /\ q \in p .. m /\ q \in Nat /\ q + 1 \in Nat /\ d \in Nat
        /\ \A r \in p .. q - 1 : r \in Nat /\ p <= r /\ r < m /\ r < d
    BY <1>0, <1>2, <1>4
  <2>2. q = m \/ (q = d /\ d + 1 = m)
    BY <1>2, <1>4, <1>8
  <2> HIDE DEF q
  <2>3. At(b, q) \in {"NUL", "CR"} /\ ~EndsAt(b, q)
    <3>1. CASE q = m
      <4>1. q >= m
        BY <1>4, <3>1
      <4>2. At(b, q) = "NUL"
        BY <1>4, <2>1, <4>1
      <4> QED BY <4>2 DEF EndsAt
    <3>2. CASE q = d /\ d + 1 = m
      <4>1. q < m /\ q + 1 >= m /\ q + 1 = d + 1
        BY <1>2, <1>4, <3>2
      <4>2. At(b, q) = "CR" /\ At(b, q + 1) = "NUL"
        BY <1>3, <1>4, <2>1, <4>1
      <4> QED BY <4>2 DEF EndsAt
    <3> QED BY <2>2, <3>1, <3>2
  <2>4. ~IsDigit(At(b, q)) /\ \A r \in p .. q - 1 : IsDigit(At(b, r))
    BY <1>6, <2>1, <2>3, DigitsAre, NoDigit
  <2>5. strtol(b, p)[2] = q
    <3>1. q \in p .. Len(b) /\ Len(b) \in Nat
      BY <1>4, <2>1
    <3> QED BY <1>2, <1>7, <2>4, <3>1, StrtolIs
  <2> QED BY <2>3, <2>5
<1>9. ASSUME m >= d + 2
      PROVE  /\ EndsAt(b, d)
             /\ strtol(b, p)[2] = d /\ strtol(b, p)[1] = Size(i)
  <2>1. /\ d \in p .. m /\ d \in Nat /\ d + 1 \in Nat /\ d < m /\ d + 1 < m
        /\ (d + 1) + 1 = d + 2
        /\ \A r \in p .. d - 1 : r \in Nat /\ p <= r /\ r < m /\ r < d
        /\ p # d
    BY <1>2, <1>4, <1>9
  <2>2. At(b, d) = "CR" /\ At(b, d + 1) = "LF"
    BY <1>3, <1>4, <2>1
  <2>3. ~IsDigit(At(b, d)) /\ \A r \in p .. d - 1 : IsDigit(At(b, r))
    BY <1>6, <2>1, <2>2, DigitsAre, NoDigit
  <2>4. strtol(b, p)[2] = d /\ strtol(b, p)[1] = Number(b, p, d)
    <3>1. d \in p .. Len(b) /\ Len(b) \in Nat
      BY <1>4, <2>1
    <3> HIDE DEF d
    <3> QED BY <1>2, <1>7, <2>1, <2>3, <3>1, StrtolIs
  <2>5. Number(b, p, d) = Size(i)
    <3>1. ASSUME NEW j \in 1 .. Len(Numeral[Size(i)])
          PROVE  At(b, p + j - 1) = Numeral[Size(i)][j]
      <4>1. j \in 1 .. w
        BY <1>2 DEF num
      <4>2. p + j - 1 \in Nat /\ p + j - 1 < m /\ (p + j - 1) + 1 = p + j
        BY <1>2, <2>1, <4>1
      <4>3. At(b, p + j - 1) = stream[p + j]
        BY <1>4, <4>2
      <4> QED BY <1>3, <4>1, <4>3 DEF num
    <3>2. Number(b, p, p + Len(Numeral[Size(i)])) = Size(i)
      BY <1>2, <3>1, NumberIs
    <3>3. Len(Numeral[Size(i)]) = w
      BY <1>2 DEF num
    <3> QED BY <3>2, <3>3
  <2> QED BY <2>2, <2>4, <2>5 DEF EndsAt
<1> QED BY <1>8, <1>9, Zenon DEF i, p, w

\* The line of the size 0.
LEMMA LastLineRead ==
  ASSUME Sends, NEW m, NEW b, Begins(b, m), EndOf(Len(chunks)) <= m
  PROVE  LET p == EndOf(Len(chunks))
         IN  /\ m < p + 3 => ~EndsAt(b, strtol(b, p)[2])
             /\ m >= p + 3 => /\ EndsAt(b, p + 1)
                              /\ strtol(b, p)[2] = p + 1 /\ strtol(b, p)[1] = 0
<1> DEFINE p == EndOf(Len(chunks))
<1>1. /\ chunks \in Bodies /\ Len(chunks) \in Nat /\ stream \in Seq(Sent)
      /\ Len(chunks) \in 0 .. Len(chunks)
  BY ChunkIs, StreamIs DEF Sends
<1>2. p \in Nat
  BY <1>1, EndOfIs DEF EndsInOrder
<1>3. stream[p + 1] = "0" /\ stream[p + 2] = "CR" /\ stream[p + 3] = "LF"
  BY StreamIs, Zenon DEF LastStands
<1>4. /\ Len(b) = m /\ m \in Nat
      /\ \A q \in Nat : q < m => At(b, q) = stream[q + 1]
      /\ \A q \in Nat : q >= m => At(b, q) = "NUL"
  BY <1>1, BeginsIs
<1>0. p <= m
  OBVIOUS
<1> HIDE DEF p
<1>5. "0" \in Digit /\ ~IsBlank("0") /\ ~IsBlank("NUL") /\ IsDigit("0")
  <2>1. 0 \in 0 .. Hex - 1 /\ 0 + 1 = 1
    BY HexIs
  <2>2. "0" \in Digit
    BY <2>1, DigitIs, DigitsDiffer
  <2> QED BY <2>2, DigitsAre DEF IsBlank
<1>6. p < m => At(b, p) = "0"
  BY <1>2, <1>3, <1>4
<1>7. ~IsBlank(At(b, p))
  <2>1. p >= m => At(b, p) = "NUL"
    BY <1>2, <1>4
  <2> QED BY <1>2, <1>4, <1>5, <1>6, <2>1
<1>8. ASSUME m < p + 3 PROVE ~EndsAt(b, strtol(b, p)[2])
  <2> DEFINE q == IF m = p THEN p ELSE p + 1
  <2>1. /\ q \in p .. m /\ q \in Nat /\ q + 1 \in Nat
        /\ \A r \in p .. q - 1 : r = p /\ p < m
    BY <1>0, <1>2, <1>4
  <2>2. q = m \/ (q = p + 1 /\ q + 1 = m)
    BY <1>0, <1>2, <1>4, <1>8
  <2> HIDE DEF q
  <2>3. At(b, q) \in {"NUL", "CR"} /\ ~EndsAt(b, q)
    <3>1. CASE q = m
      <4>1. q >= m
        BY <1>4, <3>1
      <4>2. At(b, q) = "NUL"
        BY <1>4, <2>1, <4>1
      <4> QED BY <4>2 DEF EndsAt
    <3>2. CASE q = p + 1 /\ q + 1 = m
      <4>1. q < m /\ q + 1 >= m /\ q + 1 = p + 2
        BY <1>2, <1>4, <3>2
      <4>2. At(b, q) = "CR" /\ At(b, q + 1) = "NUL"
        BY <1>3, <1>4, <2>1, <4>1
      <4> QED BY <4>2 DEF EndsAt
    <3> QED BY <2>2, <3>1, <3>2
  <2>4. ~IsDigit(At(b, q)) /\ \A r \in p .. q - 1 : IsDigit(At(b, r))
    BY <1>5, <1>6, <2>1, <2>3, NoDigit
  <2>5. strtol(b, p)[2] = q
    <3>1. q \in p .. Len(b) /\ Len(b) \in Nat
      BY <1>4, <2>1
    <3> QED BY <1>2, <1>7, <2>4, <3>1, StrtolIs
  <2> QED BY <2>3, <2>5
<1>9. ASSUME m >= p + 3
      PROVE  /\ EndsAt(b, p + 1)
             /\ strtol(b, p)[2] = p + 1 /\ strtol(b, p)[1] = 0
  <2> DEFINE d == p + 1
  <2>1. /\ d \in p .. m /\ d \in Nat /\ d + 1 \in Nat /\ d < m /\ d + 1 < m /\ p < m
        /\ d + 1 = p + 2 /\ (d + 1) + 1 = p + 3
        /\ \A r \in p .. d - 1 : r = p
        /\ p # d
    BY <1>2, <1>4, <1>9
  <2>2. At(b, d) = "CR" /\ At(b, d + 1) = "LF"
    BY <1>3, <1>4, <2>1
  <2>3. ~IsDigit(At(b, d)) /\ \A r \in p .. d - 1 : IsDigit(At(b, r))
    BY <1>5, <1>6, <2>1, <2>2, NoDigit
  <2>4. strtol(b, p)[2] = d /\ strtol(b, p)[1] = Number(b, p, d)
    <3>1. d \in p .. Len(b) /\ Len(b) \in Nat
      BY <1>4, <2>1
    <3> HIDE DEF d
    <3> QED BY <1>2, <1>7, <2>1, <2>3, <3>1, StrtolIs
  <2>5. Number(b, p, d) = 0
    <3>1. ASSUME NEW j \in 1 .. Len(Numeral[0])
          PROVE  At(b, p + j - 1) = Numeral[0][j]
      <4>1. j = 1
        BY NumeralOfZero
      <4>2. p + 1 - 1 = p
        BY <1>2
      <4> QED BY <1>6, <2>1, <4>1, <4>2, NumeralOfZero
    <3>2. Number(b, p, p + Len(Numeral[0])) = 0
      <4> DEFINE n == 0
      <4>1. n \in Nat /\ \A j \in 1 .. Len(Numeral[n]) : At(b, p + j - 1) = Numeral[n][j]
        BY <3>1
      <4> HIDE DEF n
      <4>2. Number(b, p, p + Len(Numeral[n])) = n
        BY <1>2, <4>1, NumberIs
      <4> QED BY <4>2 DEF n
    <3> QED BY <3>2, NumeralOfZero
  <2> QED BY <2>2, <2>4, <2>5 DEF EndsAt
<1> QED BY <1>8, <1>9, Zenon DEF p

Fields(i, x, e, r, t) == [index |-> i, body |-> x, ended |-> e, error |-> r, more |-> t]

\* TRUE and FALSE as values of a field.
Yes == TRUE
No == FALSE

LEMMA FieldsAre ==
  ASSUME NEW i, NEW x, NEW e, NEW r, NEW t, NEW v
  PROVE  LET s == Fields(i, x, e, r, t) IN
         /\ s.index = i /\ s.body = x /\ s.ended = e /\ s.error = r /\ s.more = t
         /\ [s EXCEPT !.index = v] = Fields(v, x, e, r, t)
         /\ [s EXCEPT !.body = v] = Fields(i, v, e, r, t)
         /\ [s EXCEPT !.ended = v] = Fields(i, x, v, r, t)
         /\ [s EXCEPT !.error = v] = Fields(i, x, e, v, t)
         /\ [s EXCEPT !.more = v] = Fields(i, x, e, r, v)
BY DEF Fields

\* The line after that of the size 0 has begun to arrive.
Seen(b) == find(b, EndOf(Len(chunks)) + 3) # npos

\* A turn of the loop, by what strtol has read.
LEMMA ParseIs ==
  ASSUME NEW s, NEW b, NEW z, NEW q, strtol(b, s.index)[1] = z, strtol(b, s.index)[2] = q
  PROVE  LET stop == [s EXCEPT !.more = No]
             t    == appendChunkedData(s, b, q + 2, z)
         IN  /\ ~EndsAt(b, q) => parseChunkedBody(s, b) = stop
             /\ EndsAt(b, q) /\ z = 0 =>
                  parseChunkedBody(s, b) = handleChunkedEnd(stop, b, q + 2)
             /\ EndsAt(b, q) /\ z # 0 /\ ~Arrived(b, q + 2, z) => parseChunkedBody(s, b) = stop
             /\ EndsAt(b, q) /\ z # 0 /\ Arrived(b, q + 2, z) =>
                  parseChunkedBody(s, b) = [t EXCEPT !.more = (t.error = 0)]
<1> DEFINE stop == [s EXCEPT !.more = No]
           t    == appendChunkedData(s, b, q + 2, z)
<1>1. parseChunkedBody(s, b) =
        IF ~(At(b, q) = "CR" /\ At(b, q + 1) = "LF") THEN stop
        ELSE IF z = 0 THEN handleChunkedEnd(stop, b, q + 2)
        ELSE IF Arrived(b, q + 2, z) THEN [t EXCEPT !.more = (t.error = 0)] ELSE stop
  BY Zenon DEF parseChunkedBody, No
<1> HIDE DEF stop, t
<1> QED BY <1>1, Zenon DEF EndsAt, stop, t

\* How many chunks there are to decode.
LEMMA SoundIs ==
  ASSUME chunks \in Bodies, cut \in 0 .. Len(chunks)
  PROVE  /\ Sound \in 0 .. Len(chunks)
         /\ \A k \in 0 .. Sound : /\ k \in Nat /\ k \in 0 .. Len(chunks)
                                  /\ k < Sound => k + 1 # cut /\ k < Len(chunks)
                                  /\ k = Sound /\ k < Len(chunks) => cut = k + 1
                                  /\ k = Len(chunks) => cut = 0 /\ Sound = k
<1>1. Len(chunks) \in Nat
  BY ChunkIs
<1> QED BY <1>1 DEF Sound

\* A chunk that has arrived in full is appended if CRLF follows, and refused if not.
LEMMA Appended ==
  ASSUME Sends, NEW m, NEW b, Begins(b, m),
         NEW k \in 0 .. Len(chunks) - 1, EndOf(k + 1) <= m, NEW e
  PROVE  LET s == Fields(EndOf(k), Body(k), e, 0, Yes)
             t == appendChunkedData(s, b, EndOf(k) + Width(k + 1) + 2, Size(k + 1))
         IN  /\ k + 1 = cut => t = [s EXCEPT !.error = 400]
             /\ k + 1 # cut => t = Fields(EndOf(k + 1), Body(k + 1), e, 0, Yes)
<1> DEFINE i == k + 1
           p == EndOf(k)
           w == Width(i)
           z == Size(i)
           a == p + w + 2
           s == Fields(p, Body(k), e, 0, Yes)
           t == appendChunkedData(s, b, a, z)
<1>1. /\ chunks \in Bodies /\ Len(chunks) \in Nat /\ stream \in Seq(Sent)
      /\ i \in 1 .. Len(chunks) /\ i - 1 = k /\ k \in 0 .. Len(chunks)
  BY ChunkIs, StreamIs DEF Sends
<1>2. p \in Nat /\ w \in Nat /\ z \in Nat /\ EndOf(i) = p + w + z + 4
  BY <1>1, ChunkIs, EndOfIs DEF EndsInOrder
<1>3. /\ \A j \in 1 .. z : stream[a + j] = chunks[i][j]
      /\ i = cut => stream[a + z + 1] = "x"
      /\ i # cut => stream[a + z + 1] = "CR" /\ stream[a + z + 2] = "LF"
  BY <1>1, StreamIs, Zenon DEF Stands
<1>4. /\ b \in Seq(Sent) /\ Len(b) = m /\ m \in Nat /\ Len(stream) \in Nat /\ m <= Len(stream)
      /\ \A q \in Nat : q < m => At(b, q) = stream[q + 1]
  BY <1>1, BeginsIs
<1>5. EndOf(i) <= m
  OBVIOUS
<1>6. chunks[i] \in Seq(Sent) /\ Len(chunks[i]) = z
  BY <1>1, ChunkIs, Zenon DEF Size
<1>7. s.body = Body(k) /\ s.index = p /\ s.error = 0
  BY FieldsAre
<1>8. t = IF find(b, a + z) # a + z THEN [s EXCEPT !.error = 400]
          ELSE [s EXCEPT !.body = @ \o SubSeq(b, a + 1, a + z), !.index = a + z + 2]
  BY Zenon DEF appendChunkedData
<1> HIDE DEF i, p, w, z, t
<1>9. a + z \in Nat /\ a + z < m /\ a + z + 1 < m /\ a + z + 1 \in Nat /\ (a + z + 1) + 1 = a + z + 2
      /\ a + z + 2 = EndOf(i)
  BY <1>2, <1>4, <1>5
<1>10. At(b, a + z) = stream[a + z + 1] /\ At(b, a + z + 1) = stream[a + z + 2]
  BY <1>4, <1>9
<1>11. ASSUME i = cut PROVE t = [s EXCEPT !.error = 400]
  <2>1. At(b, a + z) = "x"
    BY <1>3, <1>10, <1>11
  <2>2. ~EndsAt(b, a + z)
    BY <2>1 DEF EndsAt
  <2> DEFINE q == a + z
  <2>3. q \in Nat /\ q < m
    BY <1>9
  <2> HIDE DEF q
  <2>4. q < m /\ find(b, q) = q => EndsAt(b, q)
    BY <1>1, <2>3, FindIs
  <2>5. find(b, a + z) # a + z
    BY <2>2, <2>3, <2>4 DEF q
  <2> QED BY <1>8, <2>5, Zenon
<1>12. ASSUME i # cut PROVE t = Fields(EndOf(i), Body(i), e, 0, Yes)
  <2>1. At(b, a + z) = "CR" /\ At(b, a + z + 1) = "LF"
    BY <1>3, <1>10, <1>12
  <2>2. EndsAt(b, a + z)
    BY <2>1 DEF EndsAt
  <2> DEFINE q == a + z
  <2>3. q \in Nat /\ EndsAt(b, q)
    BY <1>9, <2>2
  <2> HIDE DEF q
  <2>4. find(b, q) = q
    BY <1>1, <2>3, FindIs
  <2>5. find(b, a + z) = a + z
    BY <2>4 DEF q
  <2> DEFINE x == SubSeq(b, a + 1, a + z)
  <2>6. x = chunks[i]
    <3>1. a \in Nat /\ a + z \in Nat /\ a + z <= m /\ z \in Nat
      BY <1>2, <1>9, <1>4
    <3> HIDE DEF a
    <3>2. /\ x \in Seq(Sent) /\ Len(x) = z
          /\ \A j \in 1 .. z : x[j] = b[a + j]
      BY <1>4, <3>1
    <3> HIDE DEF x
    <3>3. \A j \in 1 .. z : b[a + j] = stream[a + j]
      <4> SUFFICES ASSUME NEW j \in 1 .. z PROVE b[a + j] = stream[a + j]
        OBVIOUS
      <4>1. a + j \in 1 .. m /\ m \in 0 .. Len(stream) /\ b = SubSeq(stream, 1, m)
        BY <1>4, <3>1 DEF Begins
      <4> QED BY <1>1, <1>4, <4>1
    <3>4. \A j \in 1 .. z : x[j] = chunks[i][j]
      BY <1>3, <3>2, <3>3, Zenon
    <3> DEFINE c == chunks[i]
    <3>5. c \in Seq(Sent) /\ Len(x) = Len(c) /\ \A j \in 1 .. Len(x) : x[j] = c[j]
      BY <1>6, <3>2, <3>4, Zenon
    <3> HIDE DEF c
    <3>6. x = c
      BY <3>2, <3>5, SeqEqual
    <3> QED BY <3>6 DEF c
  <2>7. Body(k + 1) = Body(k) \o chunks[k + 1]
    BY <1>1, BodyIs
  <2>8. [s EXCEPT !.body = @ \o x, !.index = a + z + 2]
          = Fields(a + z + 2, Body(k) \o x, e, 0, Yes)
    <3> DEFINE y == Body(k) \o x
               j == a + z + 2
               u == [s EXCEPT !.body = y]
    <3>1. [s EXCEPT !.body = @ \o x, !.index = j] = [s EXCEPT !.body = y, !.index = j]
      BY <1>7
    <3> HIDE DEF y, j
    <3>2. u = Fields(p, y, e, 0, Yes)
      BY FieldsAre
    <3> HIDE DEF s
    <3>3. [s EXCEPT !.body = y, !.index = j] = [u EXCEPT !.index = j]
      OBVIOUS
    <3> HIDE DEF u
    <3>4. [u EXCEPT !.index = j] = Fields(j, y, e, 0, Yes)
      BY <3>2, FieldsAre
    <3> QED BY <3>1, <3>3, <3>4, Zenon DEF y, j
  <2>9. t = [s EXCEPT !.body = @ \o x, !.index = a + z + 2]
    BY <1>8, <2>5, Zenon
  <2> QED BY <1>9, <2>6, <2>7, <2>8, <2>9, Zenon DEF i
<1> QED BY <1>11, <1>12, Zenon DEF i, p, w, z, t

\* One turn of the loop, with the first k chunks decoded.
LEMMA TurnIs ==
  ASSUME Sends, NEW m, NEW b, Begins(b, m),
         NEW k \in 0 .. Sound, EndOf(k) <= m, NEW e
  PROVE  LET p == EndOf(k)
             x == Body(k)
             t == parseChunkedBody(Fields(p, x, e, 0, Yes), b)
         IN  /\ k < Len(chunks) /\ m < EndOf(k + 1) => t = Fields(p, x, e, 0, No)
             /\ k < Sound /\ EndOf(k + 1) <= m =>
                  t = Fields(EndOf(k + 1), Body(k + 1), e, 0, Yes)
             /\ k = Sound /\ k < Len(chunks) /\ EndOf(k + 1) <= m =>
                  t = Fields(p, x, e, 400, No)
             /\ k = Len(chunks) =>
                  t = IF ~Seen(b) THEN Fields(p, x, e, 0, No)
                      ELSE IF Len(x) > MaxBody THEN Fields(p, x, e, 413, No)
                      ELSE Fields(p, x, Yes, 0, No)
<1> DEFINE n == Len(chunks)
           i == k + 1
           p == EndOf(k)
           x == Body(k)
           s == Fields(p, x, e, 0, Yes)
           t == parseChunkedBody(s, b)
           q == strtol(b, p)[2]
           z == strtol(b, p)[1]
           stop == [s EXCEPT !.more = No]
           a == appendChunkedData(s, b, q + 2, z)
<1>1. /\ chunks \in Bodies /\ n \in Nat /\ stream \in Seq(Sent)
      /\ k \in 0 .. n /\ cut \in 0 .. n /\ n \in 0 .. n /\ k \in Nat
      /\ k < Sound => i # cut /\ k < n
      /\ k = Sound /\ k < n => cut = i
  <2>1. chunks \in Bodies /\ n \in Nat /\ stream \in Seq(Sent) /\ cut \in 0 .. n
    BY ChunkIs, StreamIs DEF Sends
  <2> QED BY <2>1, SoundIs
<1>2. s.index = p /\ stop = Fields(p, x, e, 0, No)
  BY FieldsAre
<1>3. /\ ~EndsAt(b, q) => t = stop
      /\ EndsAt(b, q) /\ z = 0 => t = handleChunkedEnd(stop, b, q + 2)
      /\ EndsAt(b, q) /\ z # 0 /\ ~Arrived(b, q + 2, z) => t = stop
      /\ EndsAt(b, q) /\ z # 0 /\ Arrived(b, q + 2, z) =>
           t = [a EXCEPT !.more = (a.error = 0)]
  <2>1. strtol(b, s.index)[1] = z /\ strtol(b, s.index)[2] = q
    BY <1>2, Zenon
  <2> HIDE DEF s, z, q
  <2> QED BY <2>1, ParseIs
<1>4. p <= m /\ Len(b) = m /\ m \in Nat
  BY <1>1, BeginsIs
<1> HIDE DEF s, t, stop, q, z, a
<1>5. ASSUME k < n
      PROVE  /\ m < EndOf(i) => t = stop
             /\ i # cut /\ EndOf(i) <= m => t = Fields(EndOf(i), Body(i), e, 0, Yes)
             /\ i = cut /\ EndOf(i) <= m => t = Fields(p, x, e, 400, No)
  <2> DEFINE w == Width(i)
             l == Size(i)
             d == p + w
  <2>1. k \in 0 .. n - 1 /\ i \in 1 .. n /\ i - 1 = k
    BY <1>1, <1>5
  <2>2. /\ p \in Nat /\ w \in Nat /\ l \in Nat /\ l # 0 /\ EndOf(i) = p + w + l + 4
        /\ EndOf(i) \in Nat
    BY <1>1, <2>1, ChunkIs, EndOfIs DEF EndsInOrder
  <2>3. /\ m < d + 2 => ~EndsAt(b, q)
        /\ m >= d + 2 => EndsAt(b, d) /\ q = d /\ z = l
    BY <1>4, <2>1, LineRead DEF q, z
  <2>4. Arrived(b, d + 2, l) <=> EndOf(i) <= m
    BY <1>4, <2>2 DEF Arrived
  <2>5. ASSUME m < EndOf(i) PROVE t = stop
    <3>1. CASE m < d + 2
      BY <1>3, <2>3, <3>1
    <3>2. CASE m >= d + 2
      <4>1. ~(EndOf(i) <= m)
        BY <1>4, <2>2, <2>5
      <4>2. EndsAt(b, q) /\ z # 0 /\ ~Arrived(b, q + 2, z)
        BY <2>2, <2>3, <2>4, <3>2, <4>1, Zenon
      <4> QED BY <1>3, <4>2, Zenon
    <3> QED BY <1>4, <2>2, <3>1, <3>2
  <2>6. ASSUME EndOf(i) <= m
        PROVE  /\ t = [a EXCEPT !.more = (a.error = 0)]
               /\ i = cut => a = [s EXCEPT !.error = 400]
               /\ i # cut => a = Fields(EndOf(i), Body(i), e, 0, Yes)
    <3>1. m >= d + 2
      BY <1>4, <2>2, <2>6
    <3>2. EndsAt(b, q) /\ z # 0 /\ Arrived(b, q + 2, z) /\ q = d /\ z = l
      BY <2>2, <2>3, <2>4, <2>6, <3>1, Zenon
    <3>3. a = appendChunkedData(s, b, EndOf(k) + Width(k + 1) + 2, Size(k + 1))
      BY <3>2, Zenon DEF a
    <3>4. /\ k + 1 = cut => appendChunkedData(s, b, EndOf(k) + Width(k + 1) + 2, Size(k + 1))
                              = [s EXCEPT !.error = 400]
          /\ k + 1 # cut => appendChunkedData(s, b, EndOf(k) + Width(k + 1) + 2, Size(k + 1))
                              = Fields(EndOf(k + 1), Body(k + 1), e, 0, Yes)
      <4>1. EndOf(k + 1) <= m
        BY <2>6
      <4> QED BY <2>1, <4>1, Appended DEF s
    <3> QED BY <1>3, <3>2, <3>3, <3>4, Zenon
  <2>7. ASSUME i # cut, EndOf(i) <= m PROVE t = Fields(EndOf(i), Body(i), e, 0, Yes)
    <3>1. t = [a EXCEPT !.more = (a.error = 0)]
      BY <2>6, <2>7
    <3>2. a = Fields(EndOf(i), Body(i), e, 0, Yes)
      BY <2>6, <2>7
    <3>3. a.error = 0
      BY <3>2, FieldsAre
    <3>4. (a.error = 0) = Yes
      BY <3>3 DEF Yes
    <3>5. t = [a EXCEPT !.more = Yes]
      BY <3>1, <3>4, Zenon
    <3> QED BY <3>2, <3>5, FieldsAre
  <2>8. ASSUME i = cut, EndOf(i) <= m PROVE t = Fields(p, x, e, 400, No)
    <3>1. t = [a EXCEPT !.more = (a.error = 0)]
      BY <2>6, <2>8
    <3>2. a = [s EXCEPT !.error = 400]
      BY <2>6, <2>8
    <3>3. a = Fields(p, x, e, 400, Yes)
      BY <3>2, FieldsAre DEF s
    <3>4. a.error = 400
      BY <3>3, FieldsAre
    <3>5. (a.error = 0) = No
      BY <3>4 DEF No
    <3>6. t = [a EXCEPT !.more = No]
      BY <3>1, <3>5, Zenon
    <3> QED BY <3>3, <3>6, FieldsAre
  <2> QED BY <2>5, <2>7, <2>8
<1>6. ASSUME k = n
      PROVE  t = IF ~Seen(b) THEN stop
                 ELSE IF Len(x) > MaxBody THEN Fields(p, x, e, 413, No)
                 ELSE Fields(p, x, Yes, 0, No)
  <2>1. /\ m < p + 3 => ~EndsAt(b, q)
        /\ m >= p + 3 => EndsAt(b, p + 1) /\ q = p + 1 /\ z = 0
    BY <1>4, <1>6, LastLineRead DEF q, z
  <2>2. p \in Nat
    BY <1>1, EndOfIs DEF EndsInOrder
  <2>3. CASE m < p + 3
    <3> DEFINE r == p + 3
    <3>1. r \in Nat /\ r .. m = {}
      BY <1>4, <2>2, <2>3
    <3> HIDE DEF r
    <3>2. find(b, r) = npos
      BY <1>1, <3>1, FindIs
    <3>3. ~Seen(b)
      BY <1>6, <3>2 DEF Seen, r
    <3> QED BY <1>3, <2>1, <2>3, <3>3, Zenon
  <2>4. CASE m >= p + 3
    <3>1. t = handleChunkedEnd(stop, b, q + 2) /\ q + 2 = p + 3
      BY <1>3, <2>1, <2>2, <2>4
    <3>2. stop.body = x
      BY <1>2, FieldsAre
    <3>3. t = IF find(b, p + 3) = npos THEN stop
              ELSE IF Len(x) > MaxBody THEN [stop EXCEPT !.error = 413]
              ELSE [stop EXCEPT !.ended = Yes]
      BY <3>1, <3>2, Zenon DEF handleChunkedEnd, Yes
    <3>4. /\ [stop EXCEPT !.error = 413] = Fields(p, x, e, 413, No)
          /\ [stop EXCEPT !.ended = Yes] = Fields(p, x, Yes, 0, No)
      BY <1>2, FieldsAre
    <3>5. Seen(b) <=> find(b, p + 3) # npos
      BY <1>6, Zenon DEF Seen
    <3> QED BY <3>3, <3>4, <3>5, Zenon
  <2> QED BY <1>4, <2>2, <2>3, <2>4
<1>7. t = parseChunkedBody(Fields(p, x, e, 0, Yes), b) /\ stop = Fields(p, x, e, 0, No)
  BY <1>2, Zenon DEF t, s
<1> QED BY <1>1, <1>5, <1>6, <1>7, Zenon

-----------------------------------------------------------------------------
(***************************************************************************)
(* Chunked bodies: all its turns.                                          *)
(***************************************************************************)

\* The recursion by which parsingChunkedData is defined has a solution.
LEMMA TurnsExist ==
  ASSUME NEW b, Len(b) \in Nat
  PROVE  \E f : /\ f[0] = Fields(startIndex, body, ended, 0, Yes)
                /\ \A j \in 1 .. Len(b) :
                     f[j] = IF f[j - 1].more THEN parseChunkedBody(f[j - 1], b) ELSE f[j - 1]
                /\ parsingChunkedData(b) = f[Len(b)]
<1> DEFINE n == Len(b)
           s == Fields(startIndex, body, ended, 0, Yes)
           turn(t) == IF t.more THEN parseChunkedBody(t, b) ELSE t
           E(f, j) == IF j = 0 THEN s ELSE turn(f[j - 1])
           P == {k \in 0 .. n : \E f : f = [j \in 0 .. k |-> E(f, j)]}
<1>0. n \in Nat
  OBVIOUS
<1> HIDE DEF n, s, turn
<1>1. 0 \in P
  <2> DEFINE f == [j \in 0 .. 0 |-> s]
  <2>1. ASSUME NEW j \in 0 .. 0 PROVE f[j] = E(f, j)
    BY <2>1
  <2>2. f = [j \in 0 .. 0 |-> f[j]]
    OBVIOUS
  <2>3. 0 \in 0 .. n
    BY <1>0
  <2> HIDE DEF f
  <2>4. f = [j \in 0 .. 0 |-> E(f, j)]
    BY <2>1, <2>2, Zenon
  <2> QED BY <2>3, <2>4, Zenon
<1>2. ASSUME NEW k \in 0 .. n - 1, k \in P
      PROVE  k + 1 \in P
  <2>0. k \in Nat /\ k + 1 \in 0 .. n
    BY <1>0
  <2>1. PICK f : f = [j \in 0 .. k |-> E(f, j)]
    BY <1>2, Zenon
  <2> DEFINE g == [j \in 0 .. k + 1 |-> IF j \in 0 .. k THEN f[j] ELSE E(f, j)]
  <2>2. ASSUME NEW j \in 0 .. k + 1
        PROVE  g[j] = E(g, j)
    <3>1. j = 0 \/ j - 1 \in 0 .. k
      BY <2>0
    <3>2. j - 1 \in 0 .. k => j - 1 \in 0 .. k + 1
      BY <2>0
    <3>3. j \in 0 .. k => f[j] = E(f, j)
      <4> DEFINE h == [i \in 0 .. k |-> E(f, i)]
      <4>1. f = h
        BY <2>1, Zenon
      <4>2. j \in 0 .. k => h[j] = E(f, j)
        BY Zenon
      <4> HIDE DEF h
      <4> QED BY <4>1, <4>2, Zenon
    <3>4. g[j] = E(f, j)
      BY <3>3, Zenon
    <3>5. j - 1 \in 0 .. k => g[j - 1] = f[j - 1]
      BY <3>2, Zenon
    <3> HIDE DEF g
    <3> QED BY <3>1, <3>4, <3>5, Zenon
  <2>3. g = [j \in 0 .. k + 1 |-> g[j]]
    BY Zenon
  <2> HIDE DEF g
  <2>4. g = [j \in 0 .. k + 1 |-> E(g, j)]
    BY <2>2, <2>3, Zenon
  <2> QED BY <2>0, <2>4, Zenon
<1>3. n \in P
  <2>1. n \in 0 .. n
    BY <1>0
  <2> HIDE DEF P
  <2> QED BY <1>0, <1>1, <1>2, <2>1, UpTo
<1> DEFINE f == CHOOSE f : f = [j \in 0 .. n |-> E(f, j)]
<1>4. f = [j \in 0 .. n |-> E(f, j)]
  BY <1>3, Zenon
<1>5. parsingChunkedData(b) = f[n]
  <2> DEFINE r == [index |-> startIndex, body |-> body, ended |-> ended,
                   error |-> 0, more |-> TRUE]
             h == CHOOSE h : h = [j \in 0 .. Len(b) |->
                    IF j = 0 THEN r
                    ELSE IF h[j - 1].more THEN parseChunkedBody(h[j - 1], b) ELSE h[j - 1]]
  <2>1. parsingChunkedData(b) = h[Len(b)]
    BY Zenon DEF parsingChunkedData
  <2>2. r = s
    BY Zenon DEF s, Fields, Yes
  <2>3. h = f
    BY <2>2, Zenon DEF n, turn
  <2> QED BY <2>1, <2>3, Zenon DEF n
<1> HIDE DEF f
<1>6. \A j \in 0 .. n : f[j] = E(f, j)
  <2> DEFINE g == [j \in 0 .. n |-> E(f, j)]
  <2>1. f = g
    BY <1>4, Zenon
  <2>2. \A j \in 0 .. n : g[j] = E(f, j)
    BY Zenon
  <2> HIDE DEF g
  <2> QED BY <2>1, <2>2, Zenon
<1>7. 0 \in 0 .. n /\ \A j \in 1 .. n : j \in 0 .. n /\ j # 0
  BY <1>0
<1>8. f[0] = s
  BY <1>6, <1>7, Zenon
<1>9. \A j \in 1 .. n : f[j] = IF f[j - 1].more THEN parseChunkedBody(f[j - 1], b) ELSE f[j - 1]
  BY <1>6, <1>7, Zenon DEF turn
<1> QED BY <1>5, <1>8, <1>9, Zenon DEF n, s

\* What the loop leaves of the first m bytes b when there is no more to decode.
Left(b, m, k, t) ==
  /\ k \in 0 .. Sound /\ EndOf(k) <= m
  /\ \/ k < Len(chunks) /\ m < EndOf(k + 1) /\ t = Fields(EndOf(k), Body(k), ended, 0, No)
     \/ /\ k = Sound /\ k < Len(chunks) /\ EndOf(k + 1) <= m
        /\ t = Fields(EndOf(k), Body(k), ended, 400, No)
     \/ /\ k = Len(chunks)
        /\ t = IF ~Seen(b) THEN Fields(EndOf(k), Body(k), ended, 0, No)
               ELSE IF Len(Body(k)) > MaxBody THEN Fields(EndOf(k), Body(k), ended, 413, No)
               ELSE Fields(EndOf(k), Body(k), Yes, 0, No)

LEMMA LeftIsLast ==
  ASSUME NEW b, NEW m, NEW k, NEW t, Left(b, m, k, t)
  PROVE  ~t.more
<1>1. \A i, x, e, r : Fields(i, x, e, r, No).more = No
  BY FieldsAre
<1>2. t.more = No
  BY <1>1, ZenonT(60) DEF Left
<1> QED BY <1>2, Zenon DEF No

\* The loop decodes all there is to decode.
LEMMA ParsedIs ==
  ASSUME Sends, NEW m, NEW b, Begins(b, m),
         NEW first \in 0 .. Sound, EndOf(first) <= m,
         startIndex = EndOf(first), body = Body(first)
  PROVE  \E k \in first .. Sound : Left(b, m, k, parsingChunkedData(b))
<1>1. /\ chunks \in Bodies /\ Len(chunks) \in Nat /\ stream \in Seq(Sent)
      /\ cut \in 0 .. Len(chunks) /\ Sound \in 0 .. Len(chunks) /\ first \in Nat
  <2>1. /\ chunks \in Bodies /\ Len(chunks) \in Nat /\ stream \in Seq(Sent)
        /\ cut \in 0 .. Len(chunks)
    BY ChunkIs, StreamIs DEF Sends
  <2> QED BY <2>1, SoundIs
<1>2. Len(b) = m /\ m \in Nat
  BY <1>1, BeginsIs
<1>3. PICK f : /\ f[0] = Fields(EndOf(first), Body(first), ended, 0, Yes)
               /\ \A j \in 1 .. m :
                    f[j] = IF f[j - 1].more THEN parseChunkedBody(f[j - 1], b) ELSE f[j - 1]
               /\ parsingChunkedData(b) = f[m]
  BY <1>2, TurnsExist, Zenon
<1> DEFINE Goes(t, j) == \E k \in first .. Sound :
             /\ k >= first + j /\ EndOf(k) <= m
             /\ t = Fields(EndOf(k), Body(k), ended, 0, Yes)
           Ends(t) == \E k \in first .. Sound : Left(b, m, k, t)
           P == {j \in 0 .. m : Goes(f[j], j) \/ Ends(f[j])}
<1>4. 0 \in P
  <2>1. first \in first .. Sound /\ first >= first + 0 /\ 0 \in 0 .. m
    BY <1>1, <1>2
  <2> QED BY <1>3, <2>1, Zenon
<1>5. ASSUME NEW j \in 0 .. m - 1, j \in P PROVE j + 1 \in P
  <2>1. j + 1 \in 1 .. m /\ j + 1 \in 0 .. m /\ (j + 1) - 1 = j /\ j \in Nat
    BY <1>2
  <2>2. f[j + 1] = IF f[j].more THEN parseChunkedBody(f[j], b) ELSE f[j]
    BY <1>3, <2>1, Zenon
  <2>3. CASE Ends(f[j])
    <3>1. ~f[j].more
      BY <2>3, LeftIsLast
    <3> QED BY <2>1, <2>2, <2>3, <3>1, Zenon
  <2>4. CASE Goes(f[j], j)
    <3>1. PICK k \in first .. Sound :
            /\ k >= first + j /\ EndOf(k) <= m
            /\ f[j] = Fields(EndOf(k), Body(k), ended, 0, Yes)
      BY <2>4, Zenon
    <3>2. /\ k \in 0 .. Sound /\ k \in Nat /\ k <= Len(chunks)
          /\ k + 1 >= first + (j + 1) /\ k <= Sound /\ Sound <= Len(chunks)
          /\ k < Sound => k + 1 \in first .. Sound
          /\ k < Len(chunks) => k + 1 \in 0 .. Len(chunks)
      BY <1>1, <2>1, <3>1
    <3>3. f[j].more
      <4>1. f[j].more = Yes
        BY <3>1, FieldsAre
      <4> QED BY <4>1, Zenon DEF Yes
    <3>4. f[j + 1] = parseChunkedBody(Fields(EndOf(k), Body(k), ended, 0, Yes), b)
      BY <2>2, <3>1, <3>3, Zenon
    <3> DEFINE t == parseChunkedBody(Fields(EndOf(k), Body(k), ended, 0, Yes), b)
    <3>5. /\ k < Len(chunks) /\ m < EndOf(k + 1) => t = Fields(EndOf(k), Body(k), ended, 0, No)
          /\ k < Sound /\ EndOf(k + 1) <= m =>
               t = Fields(EndOf(k + 1), Body(k + 1), ended, 0, Yes)
          /\ k = Sound /\ k < Len(chunks) /\ EndOf(k + 1) <= m =>
               t = Fields(EndOf(k), Body(k), ended, 400, No)
          /\ k = Len(chunks) =>
               t = IF ~Seen(b) THEN Fields(EndOf(k), Body(k), ended, 0, No)
                   ELSE IF Len(Body(k)) > MaxBody THEN Fields(EndOf(k), Body(k), ended, 413, No)
                   ELSE Fields(EndOf(k), Body(k), Yes, 0, No)
      BY <3>1, <3>2, TurnIs
    <3>6. k < Len(chunks) => EndOf(k + 1) \in Nat
      BY <1>1, <3>2, EndOfIs DEF EndsInOrder
    <3> HIDE DEF t
    <3>7. \/ k < Len(chunks) /\ m < EndOf(k + 1)
          \/ k < Sound /\ EndOf(k + 1) <= m
          \/ k = Sound /\ k < Len(chunks) /\ EndOf(k + 1) <= m
          \/ k = Len(chunks)
      BY <1>1, <1>2, <3>2, <3>6
    <3>8. CASE k < Sound /\ EndOf(k + 1) <= m
      <4>1. Goes(t, j + 1)
        BY <3>2, <3>5, <3>8, Zenon
      <4> QED BY <2>1, <3>4, <4>1, Zenon DEF t
    <3>9. CASE ~(k < Sound /\ EndOf(k + 1) <= m)
      <4>1. Left(b, m, k, t)
        BY <3>1, <3>2, <3>5, <3>7, <3>9, Zenon DEF Left
      <4> QED BY <2>1, <3>1, <3>4, <4>1, Zenon DEF t
    <3> QED BY <3>8, <3>9
  <2> QED BY <1>5, <2>3, <2>4, Zenon
<1>6. m \in P
  <2>1. m \in 0 .. m
    BY <1>2
  <2> HIDE DEF P
  <2> QED BY <1>2, <1>4, <1>5, <2>1, UpTo
<1>7. ~Goes(f[m], m)
  <2> SUFFICES ASSUME NEW k \in first .. Sound, k >= first + m, EndOf(k) <= m PROVE FALSE
    BY Zenon
  <2>1. k \in 0 .. Len(chunks) /\ k >= m
    BY <1>1, <1>2
  <2>2. EndOf(k) \in Nat /\ EndOf(k) > k
    BY <1>1, <2>1, EndOfIs DEF EndsInOrder
  <2> QED BY <1>2, <2>1, <2>2
<1> QED BY <1>3, <1>6, <1>7, Zenon

-----------------------------------------------------------------------------
(***************************************************************************)
(* Chunked bodies: the inductive invariant.                                *)
(***************************************************************************)

\* The first k chunks have been decoded, and they are all that are there.
Decodes(k) ==
  /\ k \in 0 .. Sound /\ body = Body(k)
  /\ k < Sound => Len(buffer) < EndOf(k + 1)
  /\ IF buffer = <<>> THEN k = 0 /\ readIndex = 0
     ELSE readIndex = EndOf(k) /\ EndOf(k) <= Len(buffer)

ChunkInv ==
  /\ Sends /\ Begins(buffer, Len(buffer))
  /\ \E k \in 0 .. Sound : Decodes(k)
  /\ ended \in BOOLEAN /\ error \in {0, 400, 413}
  /\ EndKnown

\* A line end that has arrived stays where it is.
LEMMA SeenLater ==
  ASSUME Sends, NEW m, NEW b, Begins(b, m), NEW l, NEW c, Begins(c, l), l <= m, Seen(c)
  PROVE  Seen(b) /\ EndOf(Len(chunks)) + 3 <= l
<1> DEFINE p == EndOf(Len(chunks)) + 3
<1>1. /\ chunks \in Bodies /\ Len(chunks) \in Nat /\ stream \in Seq(Sent)
      /\ Len(chunks) \in 0 .. Len(chunks)
  BY ChunkIs, StreamIs DEF Sends
<1>2. p \in Nat
  BY <1>1, EndOfIs DEF EndsInOrder
<1>3. /\ m \in Nat /\ \A q \in Nat : q < m => At(b, q) = stream[q + 1]
  BY <1>1, BeginsIs
<1>4. /\ l \in Nat /\ \A q \in Nat : q < l => At(c, q) = stream[q + 1]
      /\ \A q \in Nat : q >= l => At(c, q) = "NUL"
  BY <1>1, BeginsIs
<1> HIDE DEF p
<1>5. find(c, p) # npos <=> \E q \in p .. l : EndsAt(c, q)
  BY <1>1, <1>2, FindIs
<1>6. find(b, p) # npos <=> \E q \in p .. m : EndsAt(b, q)
  BY <1>1, <1>2, FindIs
<1>7. PICK q \in p .. l : EndsAt(c, q)
  BY <1>5, Zenon DEF Seen, p
<1>8. q \in Nat /\ q + 1 \in Nat /\ p <= q
  BY <1>2, <1>4, <1>7
<1>9. q < l /\ q + 1 < l
  <2>1. ~(q >= l)
    BY <1>4, <1>7, <1>8 DEF EndsAt
  <2>2. ~(q + 1 >= l)
    BY <1>4, <1>7, <1>8 DEF EndsAt
  <2> QED BY <1>4, <1>8, <2>1, <2>2
<1>10. q < m /\ q + 1 < m /\ q \in p .. m /\ p <= l
  BY <1>2, <1>3, <1>4, <1>8, <1>9
<1>11. EndsAt(b, q)
  BY <1>3, <1>4, <1>7, <1>8, <1>9, <1>10 DEF EndsAt
<1> QED BY <1>6, <1>10, <1>11, Zenon DEF Seen, p

LEMMA ChunkInit == Init => ChunkInv
<1> SUFFICES ASSUME Init PROVE ChunkInv
  OBVIOUS
<1>1. Sends
  BY DEF Init, Sends
<1>2. /\ chunks \in Bodies /\ Len(chunks) \in Nat /\ stream \in Seq(Sent)
      /\ cut \in 0 .. Len(chunks) /\ Sound \in 0 .. Len(chunks)
  <2>1. /\ chunks \in Bodies /\ Len(chunks) \in Nat /\ stream \in Seq(Sent)
        /\ cut \in 0 .. Len(chunks)
    BY <1>1, ChunkIs, StreamIs DEF Sends
  <2> QED BY <2>1, SoundIs
<1>3. buffer = <<>> /\ readIndex = 0 /\ body = <<>> /\ ended = FALSE /\ error = 0
  BY DEF Init
<1>4. Len(buffer) = 0 /\ Begins(buffer, 0) /\ Begins(buffer, Len(buffer))
  <2>1. Len(buffer) = 0
    BY <1>3
  <2>2. 0 \in 0 .. Len(stream) /\ buffer = SubSeq(stream, 1, 0)
    <3>1. Len(stream) \in Nat
      BY <1>2
    <3> QED BY <1>2, <1>3, <3>1
  <2> QED BY <2>1, <2>2, Zenon DEF Begins
<1>5. \A i \in 0 .. Len(chunks) : EndOf(i) \in Nat /\ EndOf(i) > i
  BY <1>2, EndOfIs DEF EndsInOrder
<1>6. Decodes(0)
  <2>1. body = Body(0)
    BY <1>2, <1>3, BodyIs, Zenon
  <2>2. 0 < Sound => Len(buffer) < EndOf(0 + 1)
    <3>1. 0 < Sound => 0 + 1 \in 0 .. Len(chunks)
      BY <1>2
    <3>2. \A i \in 0 .. Len(chunks) : 0 < EndOf(i)
      BY <1>2, <1>5
    <3> QED BY <1>4, <3>1, <3>2
  <2>3. 0 \in 0 .. Sound
    BY <1>2
  <2> QED BY <1>3, <2>1, <2>2, <2>3, Zenon DEF Decodes
<1>7. ~LastSeen
  <2>1. ASSUME LastSeen PROVE FALSE
    <3>1. Seen(buffer)
      BY <2>1, Zenon DEF LastSeen, Seen
    <3>2. 0 <= 0 /\ Len(chunks) \in 0 .. Len(chunks)
      BY <1>2
    <3>3. EndOf(Len(chunks)) + 3 <= 0
      BY <1>1, <1>4, <3>1, <3>2, SeenLater
    <3> QED BY <1>5, <3>2, <3>3
  <2> QED BY <2>1
<1>8. ~(EndOf(cut) <= Len(buffer))
  BY <1>2, <1>4, <1>5
<1>9. EndKnown
  BY <1>3, <1>7, <1>8 DEF EndKnown
<1>10. 0 \in 0 .. Sound
  BY <1>2
<1> QED BY <1>1, <1>3, <1>4, <1>6, <1>9, <1>10 DEF ChunkInv

\* What depends on what the peer sends only.
LEMMA SameStream ==
  ASSUME UNCHANGED <<chunks, stream, cut>>
  PROVE  /\ Sends' = Sends /\ Sound' = Sound /\ npos' = npos
         /\ \A k : EndOf(k)' = EndOf(k) /\ Body(k)' = Body(k)
         /\ \A b : Seen(b)' = Seen(b)
         /\ \A b, m : Begins(b, m)' = Begins(b, m)
<1>1. chunks' = chunks /\ stream' = stream /\ cut' = cut
  OBVIOUS
<1>2. \A k : EndOf(k)' = EndOf(k)
  BY <1>1 DEF EndOf
<1>3. \A k : Body(k)' = Body(k)
  BY <1>1 DEF Body
<1>4. npos' = npos
  BY <1>1 DEF npos
<1>5. \A b, p : find(b, p)' = find(b, p)
  BY <1>4 DEF find
<1>6. \A b : Seen(b)' = Seen(b)
  BY <1>1, <1>2, <1>4, <1>5 DEF Seen
<1>7. Sends' = Sends /\ Sound' = Sound
  BY <1>1 DEF Sends, Sound
<1>8. \A b, m : Begins(b, m)' = Begins(b, m)
  BY <1>1 DEF Begins
<1> QED BY <1>2, <1>3, <1>4, <1>6, <1>7, <1>8

\* Decoding goes on where the decoded chunks end.
LEMMA StartIs ==
  ASSUME Sends, NEW k, Decodes(k)
  PROVE  startIndex = EndOf(k)
<1>1. chunks \in Bodies /\ cut \in 0 .. Len(chunks)
  BY DEF Sends
<1>2. Sound \in 0 .. Len(chunks) /\ k \in 0 .. Len(chunks) /\ Len(chunks) \in Nat
  BY <1>1, SoundIs, ChunkIs DEF Decodes
<1>3. EndOf(0) = 1 /\ EndOf(k) \in Nat /\ EndOf(k) > k /\ k \in Nat
  BY <1>1, <1>2, EndOfIs DEF EndsInOrder
<1>4. _bodyStartIndex = 1
  BY DEF _bodyStartIndex, Header
<1>5. CASE buffer = <<>>
  BY <1>3, <1>4, <1>5 DEF Decodes, startIndex
<1>6. CASE buffer # <<>>
  BY <1>3, <1>6 DEF Decodes, startIndex
<1> QED BY <1>5, <1>6

\* The fields that are left.
LEMMA LeftIs ==
  ASSUME NEW b, NEW m, NEW k, NEW t, Left(b, m, k, t)
  PROVE  /\ t.index = EndOf(k) /\ t.body = Body(k)
         /\ \/ k < Len(chunks) /\ m < EndOf(k + 1) /\ t.ended = ended /\ t.error = 0
            \/ /\ k = Sound /\ k < Len(chunks) /\ EndOf(k + 1) <= m
               /\ t.ended = ended /\ t.error = 400
            \/ /\ k = Len(chunks)
               /\ \/ ~Seen(b) /\ t.ended = ended /\ t.error = 0
                  \/ Seen(b) /\ Len(Body(k)) > MaxBody /\ t.ended = ended /\ t.error = 413
                  \/ Seen(b) /\ ~(Len(Body(k)) > MaxBody) /\ t.ended = Yes /\ t.error = 0
<1> DEFINE p == EndOf(k)
           x == Body(k)
           F(e, r) == t = Fields(p, x, e, r, No)
<1>1. ASSUME NEW e, NEW r, F(e, r)
      PROVE  t.index = p /\ t.body = x /\ t.ended = e /\ t.error = r
  <2> HIDE DEF p, x
  <2> QED BY <1>1, FieldsAre
<1>2. CASE k < Len(chunks) /\ m < EndOf(k + 1) /\ F(ended, 0)
  <2> HIDE DEF F
  <2>1. t.index = p /\ t.body = x /\ t.ended = ended /\ t.error = 0
    BY <1>1, <1>2
  <2> QED BY <1>2, <2>1
<1>3. CASE k = Sound /\ k < Len(chunks) /\ EndOf(k + 1) <= m /\ F(ended, 400)
  <2> HIDE DEF F
  <2>1. t.index = p /\ t.body = x /\ t.ended = ended /\ t.error = 400
    BY <1>1, <1>3
  <2> QED BY <1>3, <2>1
<1>4. CASE k = Len(chunks) /\ ~Seen(b) /\ F(ended, 0)
  <2> HIDE DEF F
  <2>1. t.index = p /\ t.body = x /\ t.ended = ended /\ t.error = 0
    BY <1>1, <1>4
  <2> QED BY <1>4, <2>1
<1>5. CASE k = Len(chunks) /\ Seen(b) /\ Len(x) > MaxBody /\ F(ended, 413)
  <2> HIDE DEF F
  <2>1. t.index = p /\ t.body = x /\ t.ended = ended /\ t.error = 413
    BY <1>1, <1>5
  <2> QED BY <1>5, <2>1
<1>6. CASE k = Len(chunks) /\ Seen(b) /\ ~(Len(x) > MaxBody) /\ F(Yes, 0)
  <2> HIDE DEF F
  <2>1. t.index = p /\ t.body = x /\ t.ended = Yes /\ t.error = 0
    BY <1>1, <1>6
  <2> QED BY <1>6, <2>1
<1> QED BY <1>2, <1>3, <1>4, <1>5, <1>6, ZenonT(60) DEF Left

\* More bytes arrive.
LEMMA ChunkReceived ==
  ASSUME ChunkInv, NEW n \in Len(Header) .. Len(stream), n > Len(buffer), Receive(n)
  PROVE  ChunkInv'
<1> DEFINE b == SubSeq(stream, 1, n)
           s == parsingChunkedData(b)
           N == Len(chunks)
           E(k) == EndOf(k)
<1>1. Sends /\ Begins(buffer, Len(buffer)) /\ EndKnown /\ ended \in BOOLEAN
  BY DEF ChunkInv
<1>2. PICK first \in 0 .. Sound : Decodes(first)
  BY DEF ChunkInv
<1>3. /\ chunks \in Bodies /\ N \in Nat /\ stream \in Seq(Sent)
      /\ cut \in 0 .. N /\ Sound \in 0 .. N /\ N \in 0 .. N
  <2>1. /\ chunks \in Bodies /\ N \in Nat /\ stream \in Seq(Sent)
        /\ cut \in 0 .. N
    BY <1>1, ChunkIs, StreamIs DEF Sends
  <2> QED BY <2>1, SoundIs
<1>4. Len(Header) = 1 /\ Len(stream) \in Nat
  BY <1>3 DEF Header
<1>5. n \in Nat /\ n >= 1 /\ Begins(b, n) /\ Len(b) = n /\ b # <<>>
  <2>1. n \in Nat /\ n >= 1 /\ Begins(b, n)
    BY <1>4 DEF Begins
  <2>2. Len(b) = n
    <3> HIDE DEF b
    <3> QED BY <1>3, <2>1, BeginsIs
  <2>3. Len(<<>>) = 0 /\ n # 0
    BY <2>1
  <2> QED BY <2>1, <2>2, <2>3, Zenon
<1>6. Len(buffer) \in Nat /\ Len(buffer) <= n
  <2>1. Len(buffer) \in Nat
    BY <1>1, <1>3, BeginsIs
  <2> QED BY <1>5, <2>1
<1>7. /\ buffer' = b /\ readIndex' = s.index /\ body' = s.body
      /\ ended' = s.ended /\ error' = s.error
      /\ UNCHANGED <<chunks, stream, cut>>
  BY DEF Receive
<1> HIDE DEF b, s
<1>8. /\ \A i \in 0 .. N : E(i) \in Nat /\ E(i) > i
      /\ \A i, j \in 0 .. N : i <= j => E(i) <= E(j)
      /\ E(0) = 1
  BY <1>3, EndOfIs DEF EndsInOrder
<1>9. startIndex = EndOf(first) /\ EndOf(first) <= n /\ body = Body(first)
  <2>1. startIndex = EndOf(first)
    BY <1>1, <1>2, StartIs
  <2>2. CASE buffer = <<>>
    BY <1>2, <1>5, <1>8, <2>1, <2>2 DEF Decodes
  <2>3. CASE buffer # <<>>
    <3>1. EndOf(first) <= Len(buffer) /\ EndOf(first) \in Nat
      BY <1>2, <1>3, <1>8, <2>3 DEF Decodes
    <3> QED BY <1>2, <1>5, <1>6, <2>1, <3>1 DEF Decodes
  <2> QED BY <1>2, <2>1, <2>2, <2>3 DEF Decodes
<1>10. PICK k \in first .. Sound : Left(b, n, k, s)
  BY <1>1, <1>2, <1>5, <1>9, ParsedIs DEF s
<1>11. /\ k \in 0 .. Sound /\ k \in 0 .. N /\ k \in Nat /\ E(k) <= n
       /\ k < Sound => k + 1 # cut /\ k < N
       /\ k = Sound /\ k < N => cut = k + 1
       /\ k = N => cut = 0 /\ Sound = k
       /\ k < N => k + 1 \in 0 .. N
       /\ first \in Nat /\ first <= k /\ first <= N
  <2>1. k \in 0 .. Sound
    BY <1>2, <1>10
  <2>2. E(k) <= n
    BY <1>10 DEF Left
  <2> QED BY <1>2, <1>3, <1>10, <2>1, <2>2, SoundIs
\* What was known before.
<1>12. ended => LastSeen /\ Len(body) <= MaxBody
  BY <1>1, Zenon DEF EndKnown
<1>13. LastSeen => cut = 0 /\ Seen(buffer)
  BY Zenon DEF LastSeen, Seen
<1>14. Seen(buffer) => Seen(b) /\ E(N) + 3 <= Len(buffer)
  BY <1>1, <1>5, <1>6, SeenLater
<1>15. Seen(b) => E(N) + 3 <= n
  <2>1. n <= n
    BY <1>5
  <2> QED BY <1>1, <1>5, <2>1, SeenLater
\* What is known now.
<1>16. /\ Sends' /\ Sound' = Sound /\ Begins(buffer, Len(buffer))'
       /\ \A i : EndOf(i)' = EndOf(i) /\ Body(i)' = Body(i)
       /\ Seen(buffer)' <=> Seen(b)
  <2>1. /\ Sends' = Sends /\ Sound' = Sound
        /\ \A i : EndOf(i)' = EndOf(i) /\ Body(i)' = Body(i)
    BY <1>7, SameStream
  <2>2. Begins(buffer, Len(buffer))'
    BY <1>5, <1>7 DEF Begins
  <2>3. Seen(buffer)' <=> Seen(b)
    <3>1. chunks' = chunks /\ stream' = stream /\ cut' = cut
      BY <1>7
    <3>2. EndOf(Len(chunks))' = EndOf(Len(chunks))
      BY <3>1 DEF EndOf
    <3>3. npos' = npos
      BY <3>1 DEF npos
    <3> QED BY <1>7, <3>1, <3>2, <3>3 DEF Seen, find
  <2> QED BY <1>1, <2>1, <2>2, <2>3
<1>17. /\ LastSeen' <=> cut = 0 /\ Seen(b)
       /\ ended' = s.ended /\ error' = s.error /\ Len(buffer)' = n /\ cut' = cut
       /\ EndOf(cut)' = EndOf(cut)
  <2>1. LastSeen' <=> cut' = 0 /\ Seen(buffer)'
    BY DEF LastSeen, Seen
  <2>2. EndOf(cut)' = EndOf(cut)
    <3>1. chunks' = chunks /\ cut' = cut
      BY <1>7
    <3> QED BY <3>1 DEF EndOf
  <2>3. Len(buffer)' = n /\ cut' = cut
    BY <1>5, <1>7
  <2> QED BY <1>7, <1>16, <2>1, <2>2, <2>3
<1>18. /\ s.index = E(k) /\ s.body = Body(k)
       /\ \/ k < N /\ n < E(k + 1) /\ s.ended = ended /\ s.error = 0
          \/ k = Sound /\ k < N /\ E(k + 1) <= n /\ s.ended = ended /\ s.error = 400
          \/ /\ k = N
             /\ \/ ~Seen(b) /\ s.ended = ended /\ s.error = 0
                \/ Seen(b) /\ Len(Body(k)) > MaxBody /\ s.ended = ended /\ s.error = 413
                \/ Seen(b) /\ ~(Len(Body(k)) > MaxBody) /\ s.ended = Yes /\ s.error = 0
  BY <1>10, LeftIs
<1>19. Len(Body(k)) \in Nat /\ MaxBody \in Nat
  BY <1>3, <1>11, BodyIs, MaxBodyAssumption
<1>20. Decodes(k)'
  <2>1. readIndex' = EndOf(k)' /\ EndOf(k)' <= Len(buffer)' /\ buffer' # <<>>
    BY <1>5, <1>7, <1>11, <1>16, <1>17, <1>18
  <2>2. body' = Body(k)'
    BY <1>7, <1>16, <1>18
  <2>3. k \in 0 .. Sound'
    BY <1>11, <1>16
  <2>4. k < Sound => n < E(k + 1)
    BY <1>3, <1>11, <1>18
  <2>5. k < Sound' => Len(buffer)' < EndOf(k + 1)'
    BY <1>16, <1>17, <2>4, Zenon
  <2> QED BY <2>1, <2>2, <2>3, <2>5 DEF Decodes
<1> DEFINE l == Len(Body(k))
           Known == /\ s.ended <=> cut = 0 /\ Seen(b) /\ l <= MaxBody
                    /\ s.error = 413 <=> cut = 0 /\ Seen(b) /\ l > MaxBody
                    /\ s.error = 400 <=> cut # 0 /\ E(cut) <= n
                    /\ s.ended \in BOOLEAN /\ s.error \in {0, 400, 413}
<1>21. Known
  <2>1. CASE k < N /\ n < E(k + 1) /\ s.ended = ended /\ s.error = 0
    <3>1. E(k + 1) \in Nat /\ E(N) \in Nat /\ E(k + 1) <= E(N)
      BY <1>3, <1>8, <1>11, <2>1, SMTT(60)
    <3>2. ~(E(N) + 3 <= n)
      BY <1>5, <2>1, <3>1
    <3>3. ~Seen(b)
      BY <1>15, <3>2
    <3>4. ~ended
      BY <1>12, <1>13, <1>14, <3>3
    <3>5. cut # 0 => ~(E(cut) <= n)
      <4> SUFFICES ASSUME cut # 0 PROVE ~(E(cut) <= n)
        OBVIOUS
      <4>1. k + 1 <= cut
        BY <1>3, <1>11, <2>1 DEF Sound
      <4>2. E(k + 1) <= E(cut) /\ E(cut) \in Nat
        BY <1>3, <1>8, <1>11, <2>1, <4>1
      <4> QED BY <1>5, <2>1, <3>1, <4>2
    <3> QED BY <1>1, <2>1, <3>3, <3>4, <3>5
  <2>2. CASE k = Sound /\ k < N /\ E(k + 1) <= n /\ s.ended = ended /\ s.error = 400
    <3>1. cut = k + 1 /\ cut # 0
      BY <1>11, <2>2
    <3>2. ~ended
      BY <1>12, <1>13, <3>1
    <3> QED BY <1>1, <2>2, <3>1, <3>2
  <2>3. CASE k = N /\ ~Seen(b) /\ s.ended = ended /\ s.error = 0
    <3>1. cut = 0
      BY <1>11, <2>3
    <3>2. ~ended
      BY <1>12, <1>13, <1>14, <2>3
    <3> QED BY <1>1, <2>3, <3>1, <3>2
  <2>4. CASE k = N /\ Seen(b) /\ l > MaxBody /\ s.ended = ended /\ s.error = 413
    <3>1. cut = 0 /\ Sound = N
      BY <1>11, <2>4
    <3>2. ASSUME ended PROVE FALSE
      <4>1. E(N) + 3 <= Len(buffer) /\ Len(body) <= MaxBody
        BY <1>12, <1>13, <1>14, <3>2
      <4>2. first = N
        <5>1. ~(first < Sound)
          <6> SUFFICES ASSUME first < Sound PROVE FALSE
            OBVIOUS
          <6>1. Len(buffer) < E(first + 1)
            BY <1>2 DEF Decodes
          <6>2. E(first + 1) <= E(N) /\ E(N) \in Nat /\ E(first + 1) \in Nat
            BY <1>3, <1>8, <1>11, <3>1
          <6> QED BY <1>6, <4>1, <6>1, <6>2
        <5> QED BY <1>3, <1>11, <3>1, <5>1
      <4>3. body = Body(k)
        BY <1>9, <2>4, <4>2
      <4> QED BY <1>19, <2>4, <4>1, <4>3
    <3>3. ~(l <= MaxBody)
      BY <1>19, <2>4
    <3> QED BY <1>1, <2>4, <3>1, <3>2, <3>3
  <2>5. CASE k = N /\ Seen(b) /\ ~(l > MaxBody) /\ s.ended = Yes /\ s.error = 0
    <3>1. cut = 0
      BY <1>11, <2>5
    <3>2. l <= MaxBody
      BY <1>19, <2>5
    <3>3. s.ended \in BOOLEAN /\ s.ended
      BY <2>5, Zenon DEF Yes
    <3> QED BY <2>5, <3>1, <3>2, <3>3
  <2> QED BY <1>18, <2>1, <2>2, <2>3, <2>4, <2>5, Zenon
<1>22. EndKnown'
  <2>1. body' = Body(k)
    BY <1>7, <1>18
  <2>2. Len(body)' = l
    BY <2>1
  <2>3. /\ ended' <=> LastSeen' /\ Len(body)' <= MaxBody
        /\ error' = 413 <=> LastSeen' /\ Len(body)' > MaxBody
        /\ error' = 400 <=> cut' # 0 /\ EndOf(cut)' <= Len(buffer)'
    <3>1. ended' <=> LastSeen' /\ Len(body)' <= MaxBody
      BY <1>17, <1>21, <2>2
    <3>2. error' = 413 <=> LastSeen' /\ Len(body)' > MaxBody
      BY <1>17, <1>21, <2>2
    <3>3. error' = 400 <=> cut' # 0 /\ EndOf(cut)' <= Len(buffer)'
      BY <1>17, <1>21
    <3> QED BY <3>1, <3>2, <3>3
  <2> QED BY <2>3, Zenon DEF EndKnown
<1>23. ended' \in BOOLEAN /\ error' \in {0, 400, 413}
  BY <1>17, <1>21, ZenonT(60)
<1>24. k \in 0 .. Sound'
  BY <1>11, <1>16
<1>25. Begins(buffer, Len(buffer))'
  BY <1>16
<1> QED BY <1>16, <1>20, <1>22, <1>23, <1>24, <1>25 DEF ChunkInv

LEMMA ChunkStutter ==
  ASSUME ChunkInv, UNCHANGED vars
  PROVE  ChunkInv'
<1>1. /\ chunks' = chunks /\ stream' = stream /\ cut' = cut /\ buffer' = buffer
      /\ readIndex' = readIndex /\ body' = body /\ ended' = ended /\ error' = error
  BY DEF vars
<1>2. /\ Sends' = Sends /\ Sound' = Sound
      /\ \A k : EndOf(k)' = EndOf(k) /\ Body(k)' = Body(k)
  BY <1>1, SameStream
<1>3. Begins(buffer, Len(buffer))' <=> Begins(buffer, Len(buffer))
  BY <1>1 DEF Begins
<1>4. ASSUME NEW k PROVE Decodes(k)' <=> Decodes(k)
  BY <1>1, <1>2 DEF Decodes
<1>5. LastSeen' <=> LastSeen
  <2>1. EndOf(Len(chunks))' = EndOf(Len(chunks))
    BY <1>1 DEF EndOf
  <2>2. npos' = npos
    BY <1>1 DEF npos
  <2> QED BY <1>1, <2>1, <2>2 DEF LastSeen, find
<1>6. EndKnown' <=> EndKnown
  <2>1. EndOf(cut)' = EndOf(cut)
    BY <1>1 DEF EndOf
  <2> QED BY <1>1, <1>5, <2>1 DEF EndKnown
<1>7. PICK k \in 0 .. Sound : Decodes(k)
  BY DEF ChunkInv
<1>8. k \in 0 .. Sound' /\ Decodes(k)'
  BY <1>2, <1>4, <1>7
<1> QED BY <1>1, <1>2, <1>3, <1>6, <1>8 DEF ChunkInv

\* The chunks that have arrived in full are those that have been decoded.
LEMMA PayloadIs ==
  ASSUME ChunkInv
  PROVE  Decoded
<1>1. PICK k \in 0 .. Sound : Decodes(k)
  BY DEF ChunkInv
<1>2. /\ chunks \in Bodies /\ Len(chunks) \in Nat /\ Sound \in 0 .. Len(chunks)
      /\ stream \in Seq(Sent) /\ Begins(buffer, Len(buffer))
  <2>1. /\ chunks \in Bodies /\ cut \in 0 .. Len(chunks) /\ stream \in Seq(Sent)
        /\ Begins(buffer, Len(buffer))
    BY StreamIs DEF ChunkInv, Sends
  <2> QED BY <2>1, SoundIs, ChunkIs
<1>3. Len(buffer) \in Nat
  BY <1>2, BeginsIs
<1>4. /\ \A i \in 0 .. Len(chunks) : EndOf(i) \in Nat /\ EndOf(i) > i
      /\ \A i, j \in 0 .. Len(chunks) : i <= j => EndOf(i) <= EndOf(j)
  BY <1>2, EndOfIs DEF EndsInOrder
<1>5. k \in Complete
  BY <1>1 DEF Decodes, Complete
<1>6. \A j \in Complete : j <= k
  <2> SUFFICES ASSUME NEW j \in Complete, ~(j <= k) PROVE FALSE
    OBVIOUS
  <2>1. j \in 0 .. Sound /\ (j = 0 \/ EndOf(j) <= Len(buffer))
    BY DEF Complete
  <2>2. k < Sound /\ k + 1 <= j /\ j # 0 /\ k + 1 \in 0 .. Len(chunks) /\ j \in 0 .. Len(chunks)
    BY <1>1, <1>2, <2>1
  <2>3. Len(buffer) < EndOf(k + 1)
    BY <1>1, <2>2 DEF Decodes
  <2>4. EndOf(k + 1) <= EndOf(j) /\ EndOf(j) \in Nat /\ EndOf(k + 1) \in Nat
    BY <1>4, <2>2
  <2> QED BY <1>3, <2>1, <2>2, <2>3, <2>4
<1>7. \A i \in Complete : (\A j \in Complete : j <= i) => i = k
  <2> SUFFICES ASSUME NEW i \in Complete, \A j \in Complete : j <= i PROVE i = k
    OBVIOUS
  <2>1. i <= k /\ k <= i
    BY <1>5, <1>6
  <2>2. i \in 0 .. Sound
    BY DEF Complete
  <2> QED BY <1>1, <1>2, <2>1, <2>2
<1>8. (CHOOSE i \in Complete : \A j \in Complete : j <= i) = k
  BY <1>5, <1>6, <1>7
<1>9. body = Body(k)
  BY <1>1 DEF Decodes
<1> QED BY <1>8, <1>9 DEF Decoded, Payload, Body

LEMMA ChunkTyped ==
  ASSUME ChunkInv
  PROVE  TypeOK
<1>1. PICK k \in 0 .. Sound : Decodes(k)
  BY DEF ChunkInv
<1>2. /\ chunks \in Bodies /\ cut \in 0 .. Len(chunks) /\ Len(chunks) \in Nat
      /\ Sound \in 0 .. Len(chunks) /\ stream \in Seq(Sent) /\ Begins(buffer, Len(buffer))
  <2>1. /\ chunks \in Bodies /\ cut \in 0 .. Len(chunks) /\ stream \in Seq(Sent)
        /\ Begins(buffer, Len(buffer))
    BY StreamIs DEF ChunkInv, Sends
  <2> QED BY <2>1, SoundIs, ChunkIs
<1>3. Len(buffer) \in Nat /\ Len(buffer) <= Len(stream) /\ buffer \in Seq(Sent)
  BY <1>2, BeginsIs
<1>4. IsPrefix(buffer, stream)
  <2>1. SubSeq(buffer, 1, Len(buffer)) = buffer
    BY <1>3
  <2>2. buffer = SubSeq(stream, 1, Len(buffer))
    BY <1>2 DEF Begins
  <2> QED BY <1>3, <2>1, <2>2, Zenon DEF IsPrefix
<1>5. k \in 0 .. Len(chunks)
  BY <1>1, <1>2
<1>6. readIndex \in 0 .. Len(buffer)
  <2>1. EndOf(k) \in Nat
    BY <1>2, <1>5, EndOfIs DEF EndsInOrder
  <2> QED BY <1>1, <1>3, <2>1 DEF Decodes
<1>7. body \in Seq(Byte)
  BY <1>1, <1>2, <1>5, BodyIs DEF Decodes
<1> QED BY <1>2, <1>4, <1>6, <1>7 DEF TypeOK, ChunkInv

\* What has been decoded, where decoding goes on and what is known of the end, for
\* any chunks and however the stream is cut into pieces.
THEOREM ChunkInvariant == Spec => []ChunkInv
<1>1. ASSUME ChunkInv, [Next]_vars PROVE ChunkInv'
  <2>1. CASE Next
    BY <1>1, <2>1, ChunkReceived DEF Next
  <2>2. CASE UNCHANGED vars
    BY <1>1, <2>2, ChunkStutter
  <2> QED BY <1>1, <2>1, <2>2
<1> QED BY <1>1, ChunkInit, PTL DEF Spec

\* The decoded body is made of what chunks are made of, and decoding never goes on
\* past the bytes that have arrived.
THEOREM ChunkTypes == Spec => []TypeOK
<1>1. ChunkInv => TypeOK
  BY ChunkTyped
<1> QED BY <1>1, ChunkInvariant, PTL

\* The body is the chunks that have arrived in full, in order, and nothing else.
THEOREM BodiesDecoded == Spec => []Decoded
<1>1. ChunkInv => Decoded
  BY PayloadIs
<1> QED BY <1>1, ChunkInvariant, PTL

\* The end, the limit and a missing CRLF are known exactly when the bytes that tell
\* have arrived.
THEOREM EndsKnown == Spec => []EndKnown
<1>1. ChunkInv => EndKnown
  BY DEF ChunkInv
<1> QED BY <1>1, ChunkInvariant, PTL
=============================================================================
