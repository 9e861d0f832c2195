----------------------------- MODULE ConfigProofs -----------------------------
(***************************************************************************)
(* The stack of open blocks, proved for files of any length, any words and *)
(* any depth of nesting; Configuration as an implementation of             *)
(* ConfigSyntax, so that what is proved of the first two passes holds of   *)
(* the four; and, for files that follow the grammar, that the four read    *)
(* what has been written.                                                  *)
(***************************************************************************)
EXTENDS ConfigFileInvariant, FiniteSetTheorems, SequenceTheorems, TLAPS

\* The kinds a token can be of.
LEMMA KindType == \A t \in Token : kindOf(t) \in Kind \cup {"INVALID"}
  BY DEF kindOf, Kind, Block

LEMMA OpenedFinite ==
  ASSUME TypeOK
  PROVE  IsFiniteSet(Opened) /\ Opened \subseteq 1 .. Depth
  <1>1. Opened \subseteq 1 .. Depth
    BY DEF Opened, TypeOK, Depth
  <1>2. IsFiniteSet(1 .. Depth)
    BY FS_Interval DEF TypeOK, Depth
  <1> QED
    BY <1>1, <1>2, FS_Subset

LEMMA InitInv == Init => SyntaxInv
  <1> SUFFICES ASSUME Init PROVE SyntaxInv
    OBVIOUS
  <1>1. TypeOK
    BY DEF Init, TypeOK
  <1>2. Opened = {}
    BY DEF Init, Opened
  <1>3. CountsBlocks
    BY <1>2, FS_EmptySet DEF CountsBlocks, Init
  <1>4. BracesHaveBlocks /\ StateFitsTop /\ AcceptedClosed
    BY DEF Init, BracesHaveBlocks, StateFitsTop, AcceptedClosed, Depth, Entry
  <1> QED
    BY <1>1, <1>3, <1>4 DEF SyntaxInv

\* Nothing but the verdict changes when a file's fate is settled.
LEMMA SettleInv ==
  ASSUME SyntaxInv, NEW fate \in {"accepted", "refused", "undefined"},
         fate = "accepted" => blockCount = 0, Settle(fate)
  PROVE  SyntaxInv'
  <1> USE DEF Settle
  <1>1. TypeOK'
    BY DEF SyntaxInv, TypeOK
  <1>2. CountsBlocks' /\ BracesHaveBlocks' /\ StateFitsTop'
    BY DEF SyntaxInv, CountsBlocks, Opened, BracesHaveBlocks, StateFitsTop, Depth, Entry
  <1>3. AcceptedClosed'
    <2> SUFFICES ASSUME blockCount = 0
                 PROVE  bracket \in {<<>>, <<"OPEN_BRACKET">>}
      BY DEF AcceptedClosed
    <2>1. Opened = {}
      BY OpenedFinite, FS_EmptySet DEF SyntaxInv, CountsBlocks
    <2>2. \A i \in 1 .. Depth : bracket[i] = "OPEN_BRACKET"
      BY <2>1 DEF Opened, SyntaxInv, TypeOK, Depth
    <2>3. Depth < 2
      <3> SUFFICES ASSUME Depth >= 2 PROVE FALSE
        BY DEF SyntaxInv, TypeOK, Depth
      <3>1. 1 \in 1 .. Depth /\ 2 \in 2 .. Depth /\ 2 \in 1 .. Depth
        BY DEF SyntaxInv, TypeOK, Depth
      <3>2. bracket[1] \in Block
        BY <2>2, <3>1 DEF SyntaxInv, BracesHaveBlocks
      <3> QED
        BY <2>2, <3>1, <3>2 DEF Block
    <2>4. Depth = 0 \/ Depth = 1
      <3>1. Depth \in Nat
        BY DEF SyntaxInv, TypeOK, Depth
      <3> QED
        BY <2>3, <3>1
    <2>5. CASE Depth = 0
      BY <2>5 DEF SyntaxInv, TypeOK, Depth
    <2>6. CASE Depth = 1
      BY <2>2, <2>6 DEF SyntaxInv, TypeOK, Depth
    <2> QED
      BY <2>4, <2>5, <2>6
  <1> QED
    BY <1>1, <1>2, <1>3 DEF SyntaxInv

\* A keyword or a "{" goes on top of the stack.
LEMMA PushInv ==
  ASSUME SyntaxInv, NEW kind \in Block \cup {"OPEN_BRACKET"}, push(kind),
         verdict' = verdict,
         kind = "OPEN_BRACKET" => bracket = <<>> \/ Entry(Depth) \in Block
  PROVE  /\ bracket' \in Seq(Block \cup {"OPEN_BRACKET"})
         /\ blockCount' \in Nat
         /\ stackState' \in {"none"} \cup Block
         /\ CountsBlocks' /\ BracesHaveBlocks'
         /\ (Entry(Depth))' = kind
  <1> USE DEF push, SyntaxInv
  <1>1. bracket' \in Seq(Block \cup {"OPEN_BRACKET"}) /\ Len(bracket') = Depth + 1
    BY DEF TypeOK, Depth
  <1>2. /\ bracket'[Depth + 1] = kind
        /\ \A i \in 1 .. Depth : bracket'[i] = bracket[i]
    BY DEF TypeOK, Depth
  <1>3. Opened' = IF kind \in Block THEN Opened \cup {Depth + 1} ELSE Opened
    BY <1>1, <1>2 DEF Opened, TypeOK, Depth, Block
  <1>4. Depth + 1 \notin Opened
    BY OpenedFinite DEF TypeOK, Depth
  <1>5. CountsBlocks'
    <2>1. CASE kind \in Block
      <3>1. Cardinality(Opened \cup {Depth + 1}) = Cardinality(Opened) + 1
        BY OpenedFinite, <1>4, FS_AddElement
      <3> QED
        BY <1>3, <2>1, <3>1 DEF CountsBlocks, TypeOK
    <2>2. CASE kind \notin Block
      BY <1>3, <2>2 DEF CountsBlocks, TypeOK
    <2> QED
      BY <2>1, <2>2
  <1>6. BracesHaveBlocks'
    <2> SUFFICES ASSUME NEW i \in 2 .. Depth + 1, bracket'[i] = "OPEN_BRACKET"
                 PROVE  bracket'[i - 1] \in Block
      BY <1>1 DEF BracesHaveBlocks, Depth
    <2>1. CASE i \in 2 .. Depth
      <3>1. i - 1 \in 1 .. Depth /\ i \in 1 .. Depth
        BY <2>1 DEF TypeOK, Depth
      <3> QED
        BY <1>2, <2>1, <3>1 DEF BracesHaveBlocks
    <2>2. CASE i = Depth + 1
      <3>1. kind = "OPEN_BRACKET" /\ Depth \in 1 .. Depth /\ bracket # <<>>
        BY <1>2, <2>2 DEF TypeOK, Depth
      <3>2. bracket[Depth] \in Block
        BY <3>1 DEF Entry, Depth, Block, TypeOK
      <3>3. i - 1 = Depth
        BY <2>2 DEF TypeOK, Depth
      <3> QED
        BY <1>2, <3>1, <3>2, <3>3
    <2> QED
      BY <2>1, <2>2 DEF TypeOK, Depth
  <1>7. (Entry(Depth))' = kind
    BY <1>1, <1>2 DEF Entry, Depth, TypeOK
  <1>8. blockCount' \in Nat /\ stackState' \in {"none"} \cup Block
    BY DEF TypeOK
  <1> QED
    BY <1>1, <1>5, <1>6, <1>7, <1>8

\* A "}" that does not throw and finds a block takes "{" and keyword away.
LEMMA PopInv ==
  ASSUME SyntaxInv, ~Throws("CLOSE_BRACKET"), ~ReadsEmptyStack("CLOSE_BRACKET"), pop
  PROVE  /\ bracket' \in Seq(Block \cup {"OPEN_BRACKET"})
         /\ blockCount' \in Nat
         /\ stackState' \in {"none"} \cup Block
         /\ CountsBlocks' /\ BracesHaveBlocks'
         /\ tokenState \notin {"SERVER", "LOCATION", "PATH"}
  <1> USE DEF SyntaxInv
  <1>1. Entry(Depth) = "OPEN_BRACKET"
    BY DEF Throws
  <1>2. Depth \in 1 .. Depth /\ bracket[Depth] = "OPEN_BRACKET" /\ Depth \in Nat
    BY <1>1 DEF Entry, Depth, TypeOK
  <1>3. Depth > 1
    <2> SUFFICES ASSUME Depth = 1 PROVE FALSE
      BY <1>2 DEF Depth, TypeOK
    <2>1. bracket = <<"OPEN_BRACKET">>
      BY <1>2 DEF Depth, TypeOK
    <2> QED
      BY <2>1 DEF ReadsEmptyStack
  <1>4. Depth - 1 \in 1 .. Depth /\ bracket[Depth - 1] \in Block
    BY <1>2, <1>3 DEF Throws, Entry, Depth, TypeOK
  <1>5. /\ bracket' \in Seq(Block \cup {"OPEN_BRACKET"})
        /\ Len(bracket') = Depth - 2
        /\ \A i \in 1 .. Depth - 2 : bracket'[i] = bracket[i]
    <2>1. bracket' = SubSeq(bracket, 1, Depth - 2)
      BY DEF pop
    <2>2. Depth - 2 \in 0 .. Len(bracket) /\ bracket \in Seq(Block \cup {"OPEN_BRACKET"})
      BY <1>2, <1>3 DEF Depth, TypeOK
    <2> QED
      BY <2>1, <2>2
  <1>6. Opened' = Opened \ {Depth - 1}
    <2>1. Opened' = {i \in 1 .. Depth - 2 : bracket[i] \in Block}
      BY <1>5, <1>2, <1>3 DEF Opened, TypeOK
    <2>2. Opened = {i \in 1 .. Depth : bracket[i] \in Block}
      BY DEF Opened, Depth, TypeOK
    <2>3. Depth \notin Opened
      BY <1>2, <2>2 DEF Block
    <2> QED
      BY <1>2, <1>3, <2>1, <2>2, <2>3
  <1>7. Depth - 1 \in Opened
    BY <1>4 DEF Opened, Depth, TypeOK
  <1>8. Cardinality(Opened \ {Depth - 1}) = Cardinality(Opened) - 1
    BY OpenedFinite, <1>7, FS_RemoveElement
  <1>9. CountsBlocks'
    BY <1>6, <1>8 DEF CountsBlocks, pop
  <1>10. Cardinality(Opened') \in Nat
    BY <1>6, OpenedFinite, FS_Subset, FS_CardinalityType
  <1>11. BracesHaveBlocks'
    <2> SUFFICES ASSUME NEW i \in 2 .. Depth - 2, bracket'[i] = "OPEN_BRACKET"
                 PROVE  bracket'[i - 1] \in Block
      BY <1>5 DEF BracesHaveBlocks, Depth
    <2>1. i \in 2 .. Depth /\ i \in 1 .. Depth - 2 /\ i - 1 \in 1 .. Depth - 2
      BY <1>2
    <2> QED
      BY <1>5, <2>1 DEF BracesHaveBlocks
  <1>12. tokenState \notin {"SERVER", "LOCATION", "PATH"}
    BY <1>1, <1>2 DEF StateFitsTop, Depth, TypeOK
  <1>13. stackState' \in {"none"} \cup Block
    BY DEF pop, Block
  <1> QED
    BY <1>5, <1>9, <1>10, <1>11, <1>12, <1>13 DEF CountsBlocks

LEMMA AcceptInv ==
  ASSUME SyntaxInv, NEW t \in Token, Accept(t)
  PROVE  SyntaxInv'
  <1> DEFINE kind == kindOf(t)
  <1>1. /\ kind \in Kind /\ verdict = "reading" /\ verdict' = verdict
        /\ ~Throws(kind) /\ ~ReadsEmptyStack(kind)
        /\ setCheckList(kind) /\ checkSyntax(kind) /\ prev' = kind
    BY KindType DEF Accept, checkSyntax
  <1>2. /\ kind = "LOCATION" => tokenState = "KEY"
        /\ kind = "OPEN_BRACKET" => tokenState \in {"PATH", "SERVER"}
        /\ kind = "PATH" => tokenState \in {"PATH", "LOCATION"}
        /\ kind = "KEY" => tokenState = "KEY"
        /\ kind \in {"VALUE", "SEMICOLON"} => tokenState = "VALUE"
    BY DEF kindOf, SyntaxInv, TypeOK
  <1>3. tokenState' \in {"SERVER", "LOCATION", "PATH", "KEY", "VALUE"}
    BY <1>1 DEF setCheckList, SyntaxInv, TypeOK, Block
  <1>4. AcceptedClosed'
    BY <1>1 DEF AcceptedClosed
  <1> HIDE DEF kind
  <1>5. CASE kind \in Block \cup {"OPEN_BRACKET"}
    <2>1. push(kind)
      BY <1>1, <1>5 DEF checkSyntax, Block
    <2>2. kind = "OPEN_BRACKET" => bracket = <<>> \/ Entry(Depth) \in Block
      BY <1>2 DEF SyntaxInv, StateFitsTop, Block
    <2>3. /\ bracket' \in Seq(Block \cup {"OPEN_BRACKET"}) /\ blockCount' \in Nat
          /\ stackState' \in {"none"} \cup Block
          /\ CountsBlocks' /\ BracesHaveBlocks' /\ (Entry(Depth))' = kind
      BY <1>1, <1>5, <2>1, <2>2, PushInv
    <2>4. tokenState' = IF kind = "OPEN_BRACKET" THEN "KEY" ELSE kind
      BY <1>1, <1>5 DEF setCheckList, Block
    <2>5. StateFitsTop'
      BY <1>5, <2>3, <2>4 DEF StateFitsTop, Block
    <2>6. TypeOK'
      BY <1>1, <1>3, <2>3 DEF TypeOK
    <2> QED
      BY <1>4, <2>3, <2>5, <2>6 DEF SyntaxInv
  <1>6. CASE kind = "CLOSE_BRACKET"
    <2>1. pop
      BY <1>1, <1>6 DEF checkSyntax, Block
    <2>2. /\ bracket' \in Seq(Block \cup {"OPEN_BRACKET"}) /\ blockCount' \in Nat
          /\ stackState' \in {"none"} \cup Block
          /\ CountsBlocks' /\ BracesHaveBlocks'
          /\ tokenState \notin {"SERVER", "LOCATION", "PATH"}
      BY <1>1, <1>6, <2>1, PopInv
    <2>3. tokenState' = tokenState
      BY <1>1, <1>6 DEF setCheckList, Block
    <2>4. StateFitsTop'
      BY <2>2, <2>3 DEF StateFitsTop
    <2>5. TypeOK'
      BY <1>1, <1>3, <2>2 DEF TypeOK
    <2> QED
      BY <1>4, <2>2, <2>4, <2>5 DEF SyntaxInv
  <1>7. CASE kind \notin Block \cup {"OPEN_BRACKET", "CLOSE_BRACKET"}
    <2>1. UNCHANGED <<bracket, stackState, blockCount>>
      BY <1>1, <1>7 DEF checkSyntax
    <2>2. CountsBlocks' /\ BracesHaveBlocks' /\ (Entry(Depth))' = Entry(Depth)
      BY <2>1 DEF SyntaxInv, CountsBlocks, Opened, BracesHaveBlocks, Depth, Entry
    <2>3. kind \in {"PATH", "KEY", "VALUE", "SEMICOLON"}
      BY <1>1, <1>7 DEF Kind
    <2>4. tokenState' = CASE kind = "PATH" -> "PATH"
                          [] kind = "SEMICOLON" -> "KEY"
                          [] OTHER -> "VALUE"
      BY <1>1, <1>2, <2>3 DEF setCheckList, Block
    <2>5. StateFitsTop'
      BY <1>2, <2>2, <2>3, <2>4 DEF StateFitsTop, SyntaxInv
    <2>6. TypeOK'
      BY <1>1, <1>3, <2>1 DEF TypeOK, SyntaxInv
    <2> QED
      BY <1>4, <2>2, <2>5, <2>6 DEF SyntaxInv
  <1> QED
    BY <1>5, <1>6, <1>7

LEMMA NextInv == SyntaxInv /\ [Next]_syntaxVars => SyntaxInv'
  <1> SUFFICES ASSUME SyntaxInv, [Next]_syntaxVars PROVE SyntaxInv'
    OBVIOUS
  <1>1. CASE \E t \in Token : Accept(t)
    BY <1>1, AcceptInv
  <1>2. CASE Settle("refused") \/ Settle("undefined")
    BY <1>2, SettleInv
  <1>3. CASE EndOfFile
    BY <1>3, SettleInv DEF EndOfFile
  <1>4. CASE UNCHANGED syntaxVars
    BY <1>4 DEF SyntaxInv, syntaxVars, TypeOK, CountsBlocks, Opened, BracesHaveBlocks,
                StateFitsTop, AcceptedClosed, Depth, Entry
  <1> QED
    BY <1>1, <1>2, <1>3, <1>4 DEF Next, LaterPass, Refuse, Stray

\* What the two passes keep, for files of any length.
THEOREM SyntaxInvariant == Spec => []SyntaxInv
  BY InitInv, NextInv, PTL DEF Spec

\* _blockCount is the number of open blocks and never wraps around.
THEOREM BlocksCounted == Spec => []CountsBlocks
  <1>1. SyntaxInv => CountsBlocks
    BY DEF SyntaxInv
  <1> QED
    BY <1>1, SyntaxInvariant, PTL

\* No file is accepted with a block left open.
THEOREM NoBlockLeftOpen == Spec => []AcceptedClosed
  <1>1. SyntaxInv => AcceptedClosed
    BY DEF SyntaxInv
  <1> QED
    BY <1>1, SyntaxInvariant, PTL

\* Nothing but a block is below a "{": the last error of pop() is never thrown.
THEOREM BracesOnBlocks == Spec => []BracesHaveBlocks
  <1>1. SyntaxInv => BracesHaveBlocks
    BY DEF SyntaxInv
  <1> QED
    BY <1>1, SyntaxInvariant, PTL

\* The four passes in step do with a file what the first two do, or refuse it.
THEOREM PassesInStep == ConfigSpec => Spec
  <1>1. ConfigInit => Init
    BY DEF ConfigInit
  <1>2. [ConfigNext]_configVars => [Next]_syntaxVars
    BY DEF ConfigNext, Finish, Parse, Next, configVars, syntaxVars
  <1> QED
    BY <1>1, <1>2, PTL DEF ConfigSpec, Spec

\* So no file that is read to its end and handed to Operation has a block left
\* open or a block counted twice.
THEOREM ParserCountsBlocks == ConfigSpec => [](CountsBlocks /\ AcceptedClosed)
  BY PassesInStep, BlocksCounted, NoBlockLeftOpen, PTL

-----------------------------------------------------------------------------
(***************************************************************************)
(* Sequences, and what repeats in them.                                    *)
(***************************************************************************)

\* A sequence with an element more, and one without its last.
LEMMA Appended ==
  ASSUME NEW S, NEW q \in Seq(S), NEW e \in S
  PROVE  /\ Append(q, e) \in Seq(S) /\ Append(q, e) # <<>>
         /\ DOMAIN Append(q, e) = 1 .. Len(q) + 1 /\ Len(Append(q, e)) = Len(q) + 1
         /\ Append(q, e)[Len(q) + 1] = e
         /\ \A i \in DOMAIN q : i \in 1 .. Len(q) /\ Append(q, e)[i] = q[i]
         /\ Last(Append(q, e)) = e /\ Front(Append(q, e)) = q
         /\ ToSet(Append(q, e)) = ToSet(q) \cup {e}
  <1> DEFINE r == Append(q, e)
  <1>1. /\ r \in Seq(S) /\ Len(r) = Len(q) + 1 /\ r[Len(q) + 1] = e
        /\ \A i \in 1 .. Len(q) : r[i] = q[i]
        /\ DOMAIN r = 1 .. Len(q) + 1 /\ DOMAIN q = 1 .. Len(q) /\ Len(q) \in Nat
    OBVIOUS
  <1>2. r # <<>>
    BY <1>1
  <1>3. Last(r) = e
    BY <1>1 DEF Last
  <1>4. Front(r) = q
    <2>1. Front(r) = SubSeq(r, 1, Len(q))
      BY <1>1 DEF Front
    <2>2. /\ SubSeq(r, 1, Len(q)) \in Seq(S) /\ Len(SubSeq(r, 1, Len(q))) = Len(q)
          /\ \A i \in 1 .. Len(q) : SubSeq(r, 1, Len(q))[i] = r[i]
      BY <1>1
    <2> QED
      BY <1>1, <2>1, <2>2
  <1>5. ToSet(r) = ToSet(q) \cup {e}
    <2> HIDE DEF r
    <2> QED
      BY <1>1 DEF ToSet
  <1> QED
    BY <1>1, <1>2, <1>3, <1>4, <1>5

\* A sequence that is not empty is its last element after the others.
LEMMA Parted ==
  ASSUME NEW S, NEW q \in Seq(S), q # <<>>
  PROVE  /\ Front(q) \in Seq(S) /\ Last(q) \in S
         /\ Len(q) \in DOMAIN q /\ Last(q) = q[Len(q)]
         /\ Len(q) = Len(Front(q)) + 1 /\ DOMAIN Front(q) = 1 .. Len(q) - 1
         /\ \A i \in DOMAIN Front(q) :
              i \in DOMAIN q /\ i # Len(q) /\ i < Len(q) /\ Front(q)[i] = q[i]
         /\ \A i \in DOMAIN q : i \in DOMAIN Front(q) \/ i = Len(q)
         /\ Append(Front(q), Last(q)) = q
         /\ ToSet(q) = ToSet(Front(q)) \cup {Last(q)}
  <1> DEFINE f == Front(q)
             e == Last(q)
  <1>1. /\ Len(q) \in Nat /\ Len(q) >= 1 /\ DOMAIN q = 1 .. Len(q)
        /\ e \in S /\ e = q[Len(q)]
    BY DEF Last
  <1>2. /\ f \in Seq(S) /\ Len(f) = Len(q) - 1
        /\ \A i \in 1 .. Len(q) - 1 : f[i] = q[i]
        /\ DOMAIN f = 1 .. Len(q) - 1
    BY <1>1 DEF Front
  <1> HIDE DEF f, e
  <1>3. Append(f, e) = q
    <2>1. f \in Seq(S) /\ e \in S
      BY <1>1, <1>2
    <2> DEFINE r == Append(f, e)
    <2>2. /\ r \in Seq(S) /\ Len(r) = Len(f) + 1
          /\ r[Len(f) + 1] = e
          /\ \A i \in DOMAIN f : r[i] = f[i]
      BY <2>1
    <2> HIDE DEF r
    <2>3. Len(r) = Len(q) /\ \A i \in 1 .. Len(r) : r[i] = q[i]
      BY <1>1, <1>2, <2>2
    <2> QED
      BY <2>2, <2>3, SeqEqual DEF r
  <1>4. ToSet(q) = ToSet(f) \cup {e}
    BY <1>1, <1>2 DEF ToSet
  <1>5. /\ Len(q) \in DOMAIN q /\ Len(q) = Len(f) + 1
        /\ \A i \in DOMAIN f : i \in DOMAIN q /\ i # Len(q) /\ i < Len(q) /\ f[i] = q[i]
        /\ \A i \in DOMAIN q : i \in DOMAIN f \/ i = Len(q)
    BY <1>1, <1>2
  <1> QED
    BY <1>1, <1>2, <1>3, <1>4, <1>5 DEF f, e

\* What Cardinality counts is that two places hold the same.
LEMMA RepeatsTwice ==
  ASSUME NEW S, NEW q \in Seq(S)
  PROVE  Repeats(q) <=> \E i, j \in DOMAIN q : i # j /\ q[i] = q[j]
  <1> DEFINE D == 1 .. Len(q)
             T == ToSet(q)
  <1>1. D = DOMAIN q /\ Len(q) \in Nat /\ q \in [D -> S]
    OBVIOUS
  <1>2. q \in Surjection(D, T)
    BY <1>1 DEF Surjection, ToSet
  <1>3. IsFiniteSet(D) /\ Cardinality(D) = Len(q)
    <2> DEFINE n == Len(q)
    <2>1. n \in Int /\ n >= 0
      BY <1>1
    <2> HIDE DEF n
    <2>2. IsFiniteSet(1 .. n) /\ Cardinality(1 .. n) = IF 1 > n THEN 0 ELSE n - 1 + 1
      BY <2>1, FS_Interval
    <2> QED
      BY <2>1, <2>2 DEF n
  <1>4. /\ IsFiniteSet(T) /\ Cardinality(T) <= Cardinality(D)
        /\ Cardinality(T) = Cardinality(D) <=> q \in Injection(D, T)
    BY <1>2, <1>3, FS_Surjection
  <1>5. Cardinality(T) \in Nat
    BY <1>4, FS_CardinalityType
  <1>6. Repeats(q) <=> q \notin Injection(D, T)
    BY <1>1, <1>3, <1>4, <1>5 DEF Repeats
  <1>7. q \in Injection(D, T) <=> \A i, j \in D : q[i] = q[j] => i = j
    <2>1. q \in [D -> T]
      BY <1>2 DEF Surjection
    <2> HIDE DEF D, T
    <2> QED
      BY <2>1 DEF Injection, IsInjective
  <1> QED
    BY <1>1, <1>6, <1>7

\* Nothing repeats where nothing is.
LEMMA RepeatsNothing == ~Repeats(<<>>)
  BY FS_EmptySet DEF Repeats, ToSet

\* An element more repeats if it is there already.
LEMMA RepeatsAppended ==
  ASSUME NEW S, NEW q \in Seq(S), NEW e \in S
  PROVE  Repeats(Append(q, e)) <=> Repeats(q) \/ e \in ToSet(q)
  <1> DEFINE r == Append(q, e)
  <1>1. /\ r \in Seq(S) /\ DOMAIN r = 1 .. Len(q) + 1 /\ r[Len(q) + 1] = e
        /\ \A i \in DOMAIN q : r[i] = q[i]
        /\ DOMAIN q = 1 .. Len(q) /\ Len(q) \in Nat
    BY Appended
  <1> HIDE DEF r
  <1>2. Repeats(r) <=> \E i, j \in DOMAIN r : i # j /\ r[i] = r[j]
    BY <1>1, RepeatsTwice
  <1>3. Repeats(q) <=> \E i, j \in DOMAIN q : i # j /\ q[i] = q[j]
    BY RepeatsTwice
  <1>4. e \in ToSet(q) <=> \E i \in DOMAIN q : q[i] = e
    BY DEF ToSet
  <1>5. ASSUME Repeats(r) PROVE Repeats(q) \/ e \in ToSet(q)
    <2>1. PICK i, j \in DOMAIN r : i # j /\ r[i] = r[j]
      BY <1>2, <1>5
    <2> QED
      BY <1>1, <1>3, <1>4, <2>1
  <1>6. ASSUME Repeats(q) PROVE Repeats(r)
    <2>1. PICK i, j \in DOMAIN q : i # j /\ q[i] = q[j]
      BY <1>3, <1>6
    <2> QED
      BY <1>1, <1>2, <2>1
  <1>7. ASSUME e \in ToSet(q) PROVE Repeats(r)
    <2>1. PICK i \in DOMAIN q : q[i] = e
      BY <1>4, <1>7
    <2> QED
      BY <1>1, <1>2, <2>1
  <1> QED
    BY <1>5, <1>6, <1>7 DEF r

-----------------------------------------------------------------------------
(***************************************************************************)
(* What a block says, a token more.                                        *)
(***************************************************************************)

\* The keys of a block, in their order.
LEMMA KeysKnown ==
  ASSUME NEW b, b.directives \in Seq(Directives)
  PROVE  /\ KeysOf(b) \in Seq(DOMAIN Values)
         /\ DOMAIN KeysOf(b) = DOMAIN b.directives
         /\ Len(KeysOf(b)) = Len(b.directives)
         /\ \A i \in DOMAIN b.directives : KeysOf(b)[i] = b.directives[i].key
  <1> DEFINE q == b.directives
             n == Len(q)
             x == KeysOf(b)
  <1>1. q \in Seq(Directives) /\ DOMAIN q = 1 .. n /\ n \in Nat
    OBVIOUS
  <1>2. x = [i \in 1 .. n |-> q[i].key]
    BY <1>1 DEF KeysOf
  <1>3. \A i \in 1 .. n : q[i].key \in DOMAIN Values
    <2> TAKE i \in 1 .. n
    <2>1. q[i] \in Directives
      BY <1>1, ElementOfSeq
    <2> HIDE DEF q, n
    <2> QED
      BY <2>1 DEF Directives
  <1> HIDE DEF q, n, x
  <1>4. x \in Seq(DOMAIN Values) /\ Len(x) = n
    BY <1>1, <1>2, <1>3
  <1> QED
    BY <1>1, <1>2, <1>4 DEF q, n, x

\* A key that has no value yet.
LEMMA DirectiveAdded ==
  ASSUME NEW b, NEW c, NEW key \in DOMAIN Values, b.directives \in Seq(Directives),
         c.directives = Append(b.directives, Directive(key))
  PROVE  /\ c.directives \in Seq(Directives) /\ c.directives # <<>>
         /\ Last(c.directives).key = key
         /\ ToSet(KeysOf(c)) = ToSet(KeysOf(b)) \cup {key}
         /\ Repeats(KeysOf(c)) <=> Repeats(KeysOf(b)) \/ key \in ToSet(KeysOf(b))
         /\ \A k : ValuesOf(c, k) = ValuesOf(b, k)
         /\ Given(c) = Given(b)
         /\ Complete(b, FALSE) => Complete(c, TRUE)
         /\ \A d \in ToSet(c.directives) : d.values # <<>> => d \in ToSet(b.directives)
  <1> DEFINE q == b.directives
             r == c.directives
             d0 == Directive(key)
  <1>1. d0 \in Directives /\ d0.key = key /\ d0.values = <<>>
    BY DEF Directive, Directives
  <1>2. q \in Seq(Directives) /\ r = Append(q, d0)
    OBVIOUS
  <1> HIDE DEF q, r, d0
  <1>3. /\ r \in Seq(Directives) /\ r # <<>>
        /\ DOMAIN r = 1 .. Len(q) + 1 /\ Len(r) = Len(q) + 1 /\ r[Len(q) + 1] = d0
        /\ \A i \in DOMAIN q : i \in 1 .. Len(q) /\ r[i] = q[i]
        /\ Last(r) = d0 /\ ToSet(r) = ToSet(q) \cup {d0}
    BY <1>1, <1>2, Appended
  <1>4. KeysOf(c) = Append(KeysOf(b), key)
    <2>1. /\ KeysOf(b) \in Seq(DOMAIN Values) /\ DOMAIN KeysOf(b) = DOMAIN q
          /\ Len(KeysOf(b)) = Len(q)
          /\ \A i \in DOMAIN q : KeysOf(b)[i] = q[i].key
      BY <1>2, KeysKnown DEF q
    <2>2. /\ KeysOf(c) \in Seq(DOMAIN Values) /\ DOMAIN KeysOf(c) = DOMAIN r
          /\ Len(KeysOf(c)) = Len(r)
          /\ \A i \in DOMAIN r : KeysOf(c)[i] = r[i].key
      BY <1>3, KeysKnown DEF r
    <2> DEFINE x == KeysOf(b)
               y == KeysOf(c)
               z == Append(x, key)
    <2>3. x \in Seq(DOMAIN Values) /\ y \in Seq(DOMAIN Values)
      BY <2>1, <2>2
    <2> HIDE DEF x, y
    <2>4. /\ z \in Seq(DOMAIN Values) /\ Len(z) = Len(x) + 1 /\ z[Len(x) + 1] = key
          /\ \A i \in DOMAIN x : z[i] = x[i]
          /\ DOMAIN x = 1 .. Len(x) /\ DOMAIN y = 1 .. Len(y)
          /\ Len(x) \in Nat /\ Len(y) \in Nat
      BY <2>3
    <2> HIDE DEF z
    <2>5. DOMAIN q = 1 .. Len(q) /\ Len(q) \in Nat
      BY <1>2
    <2>6. Len(x) = Len(q) /\ Len(y) = Len(q) + 1
      BY <1>3, <2>1, <2>2 DEF x, y
    <2>7. \A i \in 1 .. Len(y) : y[i] = z[i]
      <3> TAKE i \in 1 .. Len(y)
      <3>1. CASE i = Len(q) + 1
        BY <1>1, <1>3, <2>2, <2>4, <2>6, <3>1 DEF y
      <3>2. CASE i # Len(q) + 1
        <4>1. i \in DOMAIN q /\ i \in DOMAIN r /\ i \in DOMAIN x
          BY <1>3, <2>4, <2>5, <2>6, <3>2
        <4> QED
          BY <1>3, <2>1, <2>2, <2>4, <4>1 DEF x, y
      <3> QED
        BY <3>1, <3>2
    <2> QED
      BY <2>3, <2>4, <2>6, <2>7, SeqEqual, SMTT(60) DEF x, y, z
  <1>5. /\ ToSet(KeysOf(c)) = ToSet(KeysOf(b)) \cup {key}
        /\ Repeats(KeysOf(c)) <=> Repeats(KeysOf(b)) \/ key \in ToSet(KeysOf(b))
    <2>1. KeysOf(b) \in Seq(DOMAIN Values)
      BY <1>2, KeysKnown DEF q
    <2> QED
      BY <1>4, <2>1, Appended, RepeatsAppended
  <1>6. ASSUME NEW k PROVE ValuesOf(c, k) = ValuesOf(b, k)
    <2>1. ToSet(d0.values) = {}
      BY <1>1 DEF ToSet
    <2> QED
      BY <1>3, <2>1 DEF ValuesOf, q, r
  <1>7. Given(c) = Given(b)
    BY <1>1, <1>3 DEF Given, q, r
  <1>8. ASSUME Complete(b, FALSE) PROVE Complete(c, TRUE)
    <2>1. \A i \in DOMAIN q : q[i].values # <<>>
      BY <1>8 DEF Complete, q
    <2>2. DOMAIN q = 1 .. Len(q) /\ Len(q) \in Nat
      BY <1>2
    <2>3. \A i \in DOMAIN r : r[i].values = <<>> => i = Len(r)
      BY <1>3, <2>1, <2>2
    <2> QED
      BY <2>3 DEF Complete, r
  <1> QED
    BY <1>1, <1>3, <1>5, <1>6, <1>7, <1>8 DEF q, r

\* The last key, or the last but for its values.
Valued(b, t) ==
  Append(Front(b.directives),
         [Last(b.directives) EXCEPT !.values = Append(@, t)])

\* What block c says when t is given to key, the last of block b.
ValueGiven(b, c, t, key) ==
  /\ c.directives \in Seq(Directives) /\ c.directives # <<>>
  /\ Last(c.directives).key = key /\ key \in DOMAIN Values
  /\ KeysOf(c) = KeysOf(b)
  /\ \A k : ValuesOf(c, k) = ValuesOf(b, k) \cup (IF k = key THEN {t} ELSE {})
  /\ Given(c) = Given(b) \cup {key}
  /\ Complete(b, TRUE) => Complete(c, FALSE)
  /\ \A d \in ToSet(c.directives) :
       d.key # key => d \in ToSet(b.directives)
  /\ ~Repeats(KeysOf(b)) =>
       \A d \in ToSet(c.directives) : d.key = key => Last(d.values) = t

\* One value more for the last key.
LEMMA ValueAdded ==
  ASSUME NEW b, NEW c, NEW t \in Word, b.directives \in Seq(Directives),
         b.directives # <<>>, c.directives = Valued(b, t),
         NEW key, key = Last(b.directives).key
  PROVE  ValueGiven(b, c, t, key)
  <1> DEFINE q == b.directives
             r == c.directives
             f == Front(q)
             d0 == Last(q)
             v == Append(d0.values, t)
             d1 == [d0 EXCEPT !.values = v]
             n == Len(q)
  <1>1. /\ q \in Seq(Directives) /\ q # <<>> /\ f \in Seq(Directives)
        /\ d0 \in Directives /\ n = Len(f) + 1 /\ DOMAIN f = 1 .. n - 1
        /\ n \in DOMAIN q /\ d0 = q[n] /\ n \in Nat /\ DOMAIN q = 1 .. n
        /\ \A i \in DOMAIN f : f[i] = q[i]
        /\ ToSet(q) = ToSet(f) \cup {d0}
    BY Parted
  <1>2. r = Append(f, d1)
    BY DEF Valued
  <1>3. d0.values \in Seq(Word) /\ d0.key = key /\ key \in DOMAIN Values
    BY <1>1 DEF Directives
  <1> HIDE DEF q, r, f, d0, n
  <1>4. v \in Seq(Word) /\ v # <<>> /\ Last(v) = t /\ ToSet(v) = ToSet(d0.values) \cup {t}
    BY <1>3, Appended
  <1> HIDE DEF v
  <1>5. d1 \in Directives /\ d1.key = key /\ d1.values = v
    BY <1>1, <1>3, <1>4 DEF Directives
  <1> HIDE DEF d1
  <1>6. /\ r \in Seq(Directives) /\ r # <<>> /\ Last(r) = d1
        /\ DOMAIN r = 1 .. n /\ Len(r) = n /\ r[n] = d1
        /\ \A i \in DOMAIN f : r[i] = f[i]
        /\ ToSet(r) = ToSet(f) \cup {d1}
    BY <1>1, <1>2, <1>5, Appended
  <1>7. \A i \in DOMAIN q : r[i].key = q[i].key
    BY <1>1, <1>3, <1>5, <1>6, SMTT(60)
  <1>8. KeysOf(c) = KeysOf(b)
    BY <1>1, <1>6, <1>7 DEF KeysOf, q, r
  <1>9. ASSUME NEW k
        PROVE  ValuesOf(c, k) = ValuesOf(b, k) \cup (IF k = key THEN {t} ELSE {})
    <2>1. /\ ValuesOf(c, k) = UNION {ToSet(d.values) : d \in {e \in ToSet(r) : e.key = k}}
          /\ ValuesOf(b, k) = UNION {ToSet(d.values) : d \in {e \in ToSet(q) : e.key = k}}
      BY DEF ValuesOf, q, r
    <2>2. \A w : w \in ValuesOf(c, k) <=>
                   \E d \in ToSet(r) : d.key = k /\ w \in ToSet(d.values)
      BY <2>1
    <2>3. \A w : w \in ValuesOf(b, k) <=>
                   \E d \in ToSet(q) : d.key = k /\ w \in ToSet(d.values)
      BY <2>1
    <2>4. \A w : w \in ValuesOf(c, k) <=>
                   w \in ValuesOf(b, k) \/ (k = key /\ w = t)
      BY <1>1, <1>3, <1>4, <1>5, <1>6, <2>2, <2>3
    <2> QED
      BY <2>4
  <1>10. Given(c) = Given(b) \cup {key}
    <2>1. \A k : k \in Given(c) <=> \E d \in ToSet(r) : d.values # <<>> /\ d.key = k
      BY DEF Given, r
    <2>2. \A k : k \in Given(b) <=> \E d \in ToSet(q) : d.values # <<>> /\ d.key = k
      BY DEF Given, q
    <2>3. \A k : k \in Given(c) <=> k \in Given(b) \/ k = key
      BY <1>1, <1>3, <1>4, <1>5, <1>6, <2>1, <2>2
    <2> QED
      BY <2>3
  <1>11. ASSUME Complete(b, TRUE) PROVE Complete(c, FALSE)
    <2>1. \A i \in DOMAIN q : q[i].values = <<>> => i = n
      BY <1>11 DEF Complete, q, n
    <2>2. \A i \in DOMAIN r : r[i].values # <<>>
      BY <1>1, <1>4, <1>5, <1>6, <2>1, SMTT(60)
    <2> QED
      BY <2>2 DEF Complete, r
  <1>12. ASSUME NEW d \in ToSet(r), d.key # key
         PROVE  d \in ToSet(q)
    BY <1>1, <1>5, <1>6, <1>12
  <1>13. ASSUME ~Repeats(KeysOf(b)), NEW d \in ToSet(r), d.key = key
         PROVE  Last(d.values) = t
    <2>1. PICK i \in DOMAIN r : d = r[i]
      BY DEF ToSet
    <2>2. /\ KeysOf(b) \in Seq(DOMAIN Values) /\ DOMAIN KeysOf(b) = DOMAIN q
          /\ \A j \in DOMAIN q : KeysOf(b)[j] = q[j].key
      BY <1>1, KeysKnown DEF q
    <2>3. \A j, k \in DOMAIN KeysOf(b) : j # k => KeysOf(b)[j] # KeysOf(b)[k]
      BY <1>13, <2>2, RepeatsTwice
    <2>4. i = n
      BY <1>1, <1>3, <1>6, <1>7, <1>13, <2>1, <2>2, <2>3, SMTT(60)
    <2> QED
      BY <1>4, <1>5, <1>6, <2>1, <2>4
  <1> QED
    BY <1>3, <1>5, <1>6, <1>8, <1>9, <1>10, <1>11, <1>12, <1>13 DEF q, r, ValueGiven

\* A block whose keys all have values.
LEMMA AllGiven ==
  ASSUME NEW b, b.directives \in Seq(Directives), Complete(b, FALSE)
  PROVE  Given(b) = ToSet(KeysOf(b))
  <1> DEFINE q == b.directives
  <1>1. /\ DOMAIN KeysOf(b) = DOMAIN q
        /\ \A i \in DOMAIN q : KeysOf(b)[i] = q[i].key
    BY KeysKnown
  <1>2. \A i \in DOMAIN q : q[i].values # <<>>
    BY DEF Complete
  <1>3. \A k : k \in Given(b) <=> \E d \in ToSet(q) : d.values # <<>> /\ d.key = k
    BY DEF Given
  <1> HIDE DEF q
  <1>4. \A k : k \in ToSet(KeysOf(b)) <=> \E i \in DOMAIN q : q[i].key = k
    BY <1>1 DEF ToSet
  <1>5. \A k : (\E d \in ToSet(q) : d.values # <<>> /\ d.key = k)
                 <=> \E i \in DOMAIN q : q[i].key = k
    BY <1>2 DEF ToSet
  <1> QED
    BY <1>3, <1>4, <1>5

-----------------------------------------------------------------------------
(***************************************************************************)
(* The first two passes over a file that follows the grammar.              *)
(***************************************************************************)

\* Where the grammar leads, with a token of which kind.
Leads(from, kind, to) ==
  \/ from = "file" /\ kind = "SERVER" /\ to = "server"
  \/ from = "server" /\ kind = "OPEN_BRACKET" /\ to = "block"
  \/ from = "block" /\ kind = "KEY" /\ to = "key"
  \/ from \in {"key", "value"} /\ kind = "VALUE" /\ to = "value"
  \/ from = "value" /\ kind = "SEMICOLON" /\ to = "block"
  \/ from = "block" /\ kind = "LOCATION" /\ to = "path"
  \/ from = "path" /\ kind = "PATH" /\ to = "open"
  \/ from = "open" /\ kind = "OPEN_BRACKET" /\ to = "inner"
  \/ from = "inner" /\ kind = "KEY" /\ to = "innerKey"
  \/ from \in {"innerKey", "innerValue"} /\ kind = "VALUE" /\ to = "innerValue"
  \/ from = "innerValue" /\ kind = "SEMICOLON" /\ to = "inner"
  \/ from = "inner" /\ kind = "CLOSE_BRACKET" /\ to = "block"
  \/ from = "block" /\ kind = "CLOSE_BRACKET" /\ to = "file"

\* The stacks of open blocks that occur.
Stack1 == <<"SERVER">>
Stack2 == <<"SERVER", "OPEN_BRACKET">>
Stack3 == <<"SERVER", "OPEN_BRACKET", "LOCATION">>
Stack4 == <<"SERVER", "OPEN_BRACKET", "LOCATION", "OPEN_BRACKET">>

\* They grow and shrink into one another.
LEMMA Stacks ==
  /\ Len(Stack2) = 2 /\ Stack2[2] = "OPEN_BRACKET" /\ Stack2[1] = "SERVER"
  /\ Len(Stack4) = 4 /\ Stack4[4] = "OPEN_BRACKET" /\ Stack4[3] = "LOCATION"
  /\ DOMAIN Stack2 = 1 .. 2 /\ DOMAIN Stack4 = 1 .. 4
  /\ Stack2 # <<"OPEN_BRACKET">> /\ Stack4 # <<"OPEN_BRACKET">>
  /\ SubSeq(Stack2, 1, 0) = <<>> /\ SubSeq(Stack4, 1, 2) = Stack2
  /\ Append(<<>>, "SERVER") = Stack1 /\ Append(Stack1, "OPEN_BRACKET") = Stack2
  /\ Append(Stack2, "LOCATION") = Stack3 /\ Append(Stack3, "OPEN_BRACKET") = Stack4
  <1> DEFINE T == {"SERVER", "LOCATION", "OPEN_BRACKET"}
  <1>1. Stack1 \in Seq(T) /\ Len(Stack1) = 1 /\ Stack1[1] = "SERVER"
    BY DEF Stack1
  <1>2. /\ Stack2 \in Seq(T) /\ Len(Stack2) = 2
        /\ Stack2[1] = "SERVER" /\ Stack2[2] = "OPEN_BRACKET"
    BY DEF Stack2
  <1>3. /\ Stack3 \in Seq(T) /\ Len(Stack3) = 3
        /\ Stack3[1] = "SERVER" /\ Stack3[2] = "OPEN_BRACKET" /\ Stack3[3] = "LOCATION"
    BY DEF Stack3
  <1>4. /\ Stack4 \in Seq(T) /\ Len(Stack4) = 4
        /\ Stack4[1] = "SERVER" /\ Stack4[2] = "OPEN_BRACKET" /\ Stack4[3] = "LOCATION"
        /\ Stack4[4] = "OPEN_BRACKET"
    BY DEF Stack4
  <1>5. "SERVER" \in T /\ "LOCATION" \in T /\ "OPEN_BRACKET" \in T
    OBVIOUS
  <1> HIDE DEF T
  <1>6. Append(<<>>, "SERVER") = Stack1
    <2> DEFINE r == Append(<<>>, "SERVER")
    <2>1. r \in Seq(T) /\ Len(r) = 1 /\ r[1] = "SERVER"
      BY <1>5
    <2> HIDE DEF r
    <2> QED
      BY <1>1, <2>1, SeqEqual DEF r
  <1>7. Append(Stack1, "OPEN_BRACKET") = Stack2
    <2> DEFINE r == Append(Stack1, "OPEN_BRACKET")
    <2>1. DOMAIN Stack1 = 1 .. 1
      BY <1>1
    <2>2. r \in Seq(T) /\ Len(r) = 2 /\ r[2] = "OPEN_BRACKET" /\ r[1] = "SERVER"
      BY <2>1, <1>1, <1>5, Appended
    <2> HIDE DEF r
    <2>3. \A i \in 1 .. Len(r) : r[i] = Stack2[i]
      BY <1>2, <2>2
    <2> QED
      BY <1>2, <2>2, <2>3, SeqEqual DEF r
  <1>8. Append(Stack2, "LOCATION") = Stack3
    <2> DEFINE r == Append(Stack2, "LOCATION")
    <2>1. DOMAIN Stack2 = 1 .. 2
      BY <1>2
    <2>2. /\ r \in Seq(T) /\ Len(r) = 3
          /\ r[3] = "LOCATION" /\ r[2] = "OPEN_BRACKET" /\ r[1] = "SERVER"
      BY <2>1, <1>2, <1>5, Appended
    <2> HIDE DEF r
    <2>3. \A i \in 1 .. Len(r) : r[i] = Stack3[i]
      BY <1>3, <2>2
    <2> QED
      BY <1>3, <2>2, <2>3, SeqEqual DEF r
  <1>9. Append(Stack3, "OPEN_BRACKET") = Stack4
    <2> DEFINE r == Append(Stack3, "OPEN_BRACKET")
    <2>1. DOMAIN Stack3 = 1 .. 3
      BY <1>3
    <2>2. /\ r \in Seq(T) /\ Len(r) = 4 /\ r[4] = "OPEN_BRACKET"
          /\ r[3] = "LOCATION" /\ r[2] = "OPEN_BRACKET" /\ r[1] = "SERVER"
      BY <2>1, <1>3, <1>5, Appended
    <2> HIDE DEF r
    <2>3. \A i \in 1 .. Len(r) : r[i] = Stack4[i]
      BY <1>4, <2>2
    <2> QED
      BY <1>4, <2>2, <2>3, SeqEqual DEF r
  <1>10. SubSeq(Stack2, 1, 0) = <<>>
    BY <1>2
  <1>11. SubSeq(Stack4, 1, 2) = Stack2
    <2> DEFINE r == SubSeq(Stack4, 1, 2)
    <2>1. r \in Seq(T) /\ Len(r) = 2 /\ \A i \in 1 .. 2 : r[i] = Stack4[i]
      BY <1>4
    <2> HIDE DEF r
    <2>2. \A i \in 1 .. Len(r) : r[i] = Stack2[i]
      BY <1>2, <1>4, <2>1
    <2> QED
      BY <1>2, <2>1, <2>2, SeqEqual DEF r
  <1>12. Len(<<"OPEN_BRACKET">>) = 1
    OBVIOUS
  <1>13. /\ Stack2 # <<"OPEN_BRACKET">> /\ Stack4 # <<"OPEN_BRACKET">>
         /\ DOMAIN Stack2 = 1 .. 2 /\ DOMAIN Stack4 = 1 .. 4
    BY <1>2, <1>4, <1>12
  <1> QED
    BY <1>2, <1>4, <1>6, <1>7, <1>8, <1>9, <1>10, <1>11, <1>13

\* What SyntaxFits says of them.
LEMMA StackFits ==
  ASSUME SyntaxFits
  PROVE  /\ at = "file" => Stack(<<>>, "none", 0)
         /\ at = "server" => Stack(Stack1, "SERVER", 1)
         /\ at \in {"block", "key", "value"} => Stack(Stack2, "SERVER", 1)
         /\ at \in {"path", "open"} => Stack(Stack3, "LOCATION", 2)
         /\ at \in {"inner", "innerKey", "innerValue"} => Stack(Stack4, "LOCATION", 2)
  BY Zenon DEF SyntaxFits, Stack1, Stack2, Stack3, Stack4

\* The first two passes refuse no token that follows the grammar, and stay with it.
LEMMA SyntaxStep ==
  ASSUME SyntaxFits, NEW t \in Token, NEW kind, kind = kindOf(t), NEW pos,
         Leads(at, kind, pos)
  PROVE  /\ ~Throws(kind) /\ ~ReadsEmptyStack(kind) /\ kind # "INVALID"
         /\ Accept(t) /\ at' = pos => SyntaxFits'
  <1>1. ~Throws(kind) /\ ~ReadsEmptyStack(kind) /\ kind # "INVALID"
    <2>1. ~BadNeighbours(kind)
      BY DEF SyntaxFits, Automaton, Leads, BadNeighbours
    <2>2. ~(kind \in Block /\ stackState = kind)
      BY StackFits DEF Stack, Leads, Block
    <2>3. CASE kind = "CLOSE_BRACKET"
      <3>1. at \in {"block", "inner"}
        BY <2>3 DEF Leads
      <3>2. bracket \in {Stack2, Stack4}
        BY <3>1, StackFits DEF Stack
      <3>3. /\ Depth \in {2, 4} /\ Entry(Depth) = "OPEN_BRACKET"
            /\ Entry(Depth - 1) \in Block
            /\ bracket # <<"OPEN_BRACKET">>
        BY <3>2, Stacks DEF Entry, Depth, Block
      <3> QED
        BY <2>1, <2>3, <3>3 DEF Throws, ReadsEmptyStack, Block
    <2> QED
      BY <2>1, <2>2, <2>3 DEF Throws, ReadsEmptyStack, Leads
  <1>2. ASSUME Accept(t), at' = pos
        PROVE  SyntaxFits'
    <2>1. setCheckList(kind) /\ checkSyntax(kind) /\ prev' = kind
      BY <1>2 DEF Accept, checkSyntax
    <2>2. /\ kind \in {"SERVER", "LOCATION", "PATH"} => tokenState' = kind
          /\ kind \in {"OPEN_BRACKET", "SEMICOLON"} => tokenState' = "KEY"
          /\ kind = "KEY" => tokenState' = "VALUE"
          /\ kind \in {"VALUE", "CLOSE_BRACKET"} => tokenState' = tokenState
      BY <2>1 DEF setCheckList, Block
    <2>3. /\ kind \in {"SERVER", "LOCATION", "OPEN_BRACKET"} => push(kind)
          /\ kind = "CLOSE_BRACKET" => pop
          /\ kind \notin {"SERVER", "LOCATION", "OPEN_BRACKET", "CLOSE_BRACKET"} =>
               UNCHANGED <<bracket, stackState, blockCount>>
      BY <2>1 DEF checkSyntax, Block
    <2>4. /\ pos = "server" => Stack(<<>>, "none", 0) /\ push("SERVER")
          /\ pos = "path" => Stack(Stack2, "SERVER", 1) /\ push("LOCATION")
          /\ pos = "open" => Stack(Stack3, "LOCATION", 2)
                             /\ UNCHANGED <<bracket, stackState, blockCount>>
          /\ pos \in {"key", "value"} => Stack(Stack2, "SERVER", 1)
                             /\ UNCHANGED <<bracket, stackState, blockCount>>
          /\ pos \in {"innerKey", "innerValue"} => Stack(Stack4, "LOCATION", 2)
                             /\ UNCHANGED <<bracket, stackState, blockCount>>
          /\ pos = "file" => Stack(Stack2, "SERVER", 1) /\ pop
          /\ pos = "block" =>
               \/ Stack(Stack1, "SERVER", 1) /\ push("OPEN_BRACKET")
               \/ Stack(Stack2, "SERVER", 1)
                  /\ UNCHANGED <<bracket, stackState, blockCount>>
               \/ Stack(Stack4, "LOCATION", 2) /\ pop
          /\ pos = "inner" =>
               \/ Stack(Stack3, "LOCATION", 2) /\ push("OPEN_BRACKET")
               \/ Stack(Stack4, "LOCATION", 2)
                  /\ UNCHANGED <<bracket, stackState, blockCount>>
      BY <2>3, StackFits DEF Leads
    <2>5. /\ Stack(<<>>, "none", 0) /\ push("SERVER") => Stack(Stack1, "SERVER", 1)'
          /\ Stack(Stack1, "SERVER", 1) /\ push("OPEN_BRACKET") => Stack(Stack2, "SERVER", 1)'
          /\ Stack(Stack2, "SERVER", 1) /\ push("LOCATION") => Stack(Stack3, "LOCATION", 2)'
          /\ Stack(Stack3, "LOCATION", 2) /\ push("OPEN_BRACKET")
             => Stack(Stack4, "LOCATION", 2)'
      <3>1. Stack(<<>>, "none", 0) /\ push("SERVER") => Stack(Stack1, "SERVER", 1)'
        BY Stacks DEF Stack, push, Block
      <3>2. Stack(Stack1, "SERVER", 1) /\ push("OPEN_BRACKET") => Stack(Stack2, "SERVER", 1)'
        BY Stacks DEF Stack, push, Block
      <3>3. Stack(Stack2, "SERVER", 1) /\ push("LOCATION") => Stack(Stack3, "LOCATION", 2)'
        BY Stacks DEF Stack, push, Block
      <3>4. Stack(Stack3, "LOCATION", 2) /\ push("OPEN_BRACKET") => Stack(Stack4, "LOCATION", 2)'
        BY Stacks DEF Stack, push, Block
      <3> QED
        BY <3>1, <3>2, <3>3, <3>4
    <2>6. /\ Stack(Stack2, "SERVER", 1) /\ pop => Stack(<<>>, "none", 0)'
          /\ Stack(Stack4, "LOCATION", 2) /\ pop => Stack(Stack2, "SERVER", 1)'
      <3>1. ASSUME Stack(Stack2, "SERVER", 1), pop PROVE Stack(<<>>, "none", 0)'
        <4>1. Depth = 2 /\ Entry(1) = "SERVER" /\ bracket = Stack2 /\ blockCount = 1
          BY <3>1, Stacks DEF Stack, Entry, Depth
        <4>2. bracket' = SubSeq(Stack2, 1, 0) /\ stackState' = "none" /\ blockCount' = 0
          BY <3>1, <4>1 DEF pop
        <4> QED
          BY <4>2, Stacks DEF Stack
      <3>2. ASSUME Stack(Stack4, "LOCATION", 2), pop PROVE Stack(Stack2, "SERVER", 1)'
        <4>1. Depth = 4 /\ Entry(3) = "LOCATION" /\ bracket = Stack4 /\ blockCount = 2
          BY <3>2, Stacks DEF Stack, Entry, Depth
        <4>2. bracket' = SubSeq(Stack4, 1, 2) /\ stackState' = "SERVER" /\ blockCount' = 1
          BY <3>2, <4>1 DEF pop
        <4> QED
          BY <4>2, Stacks DEF Stack
      <3> QED
        BY <3>1, <3>2
    <2>7. /\ at' = "file" => Stack(<<>>, "none", 0)'
          /\ at' = "server" => Stack(Stack1, "SERVER", 1)'
          /\ at' \in {"block", "key", "value"} => Stack(Stack2, "SERVER", 1)'
          /\ at' \in {"path", "open"} => Stack(Stack3, "LOCATION", 2)'
          /\ at' \in {"inner", "innerKey", "innerValue"} => Stack(Stack4, "LOCATION", 2)'
      BY <1>2, <2>4, <2>5, <2>6 DEF Stack
    <2>8. /\ at' = "file" => Automaton({"SERVER", "KEY"}, {"none", "CLOSE_BRACKET"})'
          /\ at' = "server" => Automaton({"SERVER"}, {"SERVER"})'
          /\ at' = "path" => Automaton({"LOCATION"}, {"LOCATION"})'
          /\ at' = "open" => Automaton({"PATH"}, {"PATH"})'
          /\ at' \in {"block", "inner"} =>
               Automaton({"KEY"}, {"OPEN_BRACKET", "SEMICOLON", "CLOSE_BRACKET"})'
          /\ at' \in {"key", "innerKey"} => Automaton({"VALUE"}, {"KEY"})'
          /\ at' \in {"value", "innerValue"} => Automaton({"VALUE"}, {"VALUE"})'
      BY <1>2, <2>1, <2>2 DEF SyntaxFits, Automaton, Leads
    <2> QED
      BY <2>7, <2>8, Zenon DEF SyntaxFits, Stack1, Stack2, Stack3, Stack4
  <1> QED
    BY <1>1, <1>2

\* What reading a token of a file that follows the grammar comes to: a later pass
\* refuses it, or every pass goes on.
LEMMA Outcome ==
  ASSUME SyntaxFits, verdict = "reading", NEW t \in Token, Parse(t),
         NEW kind, kind = kindOf(t), Leads(at, kind, at')
  PROVE  \/ LaterThrows(t, kind) /\ verdict' = "refused" /\ UNCHANGED valueVars
         \/ /\ ~LaterThrows(t, kind) /\ verdict' = "reading" /\ SyntaxFits'
            /\ checkSameKey(t, kind) /\ setValue(t, kind)
  <1>1. /\ ~Throws(kind) /\ ~ReadsEmptyStack(kind) /\ kind # "INVALID"
        /\ Accept(t) => SyntaxFits'
    BY SyntaxStep
  <1>2. ~Refuse(t) /\ ~Stray(t)
    BY <1>1 DEF Refuse, Stray
  <1> QED
    BY <1>1, <1>2 DEF Parse, Accept

-----------------------------------------------------------------------------
(***************************************************************************)
(* A token more.                                                           *)
(***************************************************************************)

\* Server s is the last of the file, and is being described; done are those before it.
Within(done, pos, s) ==
  /\ done \in Seq(Servers) /\ s \in Servers /\ HandedOver(done)
  /\ ServerFits(pos, s) /\ KeysFit(pos, s) /\ FillingFits(pos, s) /\ ObjectsFit(pos, s)

\* A token that follows the grammar is refused for what is wrong with the file,
\* or all goes on.
Decided ==
  \/ verdict' = "refused" /\ FaultyFile'
  \/ verdict' = "reading" /\ Agrees'

\* What is known but between servers.
LEMMA Described ==
  ASSUME Agrees, at # "file"
  PROVE  \E done, s : /\ file = Append(done, s) /\ Front(file) = done /\ Last(file) = s
                      /\ file # <<>> /\ Within(done, at, s)
  <1>1. /\ file \in Seq(Servers) /\ file # <<>> /\ HandedOver(Front(file))
        /\ ServerFits(at, Last(file)) /\ KeysFit(at, Last(file))
        /\ FillingFits(at, Last(file)) /\ ObjectsFit(at, Last(file))
    BY DEF Agrees
  <1>2. /\ Front(file) \in Seq(Servers) /\ Last(file) \in Servers
        /\ Append(Front(file), Last(file)) = file
    BY <1>1, Parted
  <1> QED
    BY <1>1, <1>2, Zenon DEF Within

\* All goes on, in the same server or a new one.
LEMMA GoesOn ==
  ASSUME NEW done \in Seq(Servers), NEW s \in Servers, NEW pos, pos # "file",
         at' = pos, file' = Append(done, s), SyntaxFits', SameType',
         HandedOver(done), servers' = servers,
         ServerFits(pos, s), KeysFit(pos, s)', FillingFits(pos, s)', ObjectsFit(pos, s)'
  PROVE  Agrees'
  <1>1. /\ file' \in Seq(Servers) /\ file' # <<>>
        /\ Last(file') = s /\ Front(file') = done
    BY Appended
  <1>2. HandedOver(done)'
    BY DEF HandedOver
  <1>3. \A q, r, p : q = done /\ r = s /\ p = pos =>
          HandedOver(q)' /\ ServerFits(p, r)' /\ KeysFit(p, r)'
          /\ FillingFits(p, r)' /\ ObjectsFit(p, r)'
    BY <1>2
  <1>4. /\ HandedOver(Front(file))' /\ ServerFits(at, Last(file))' /\ KeysFit(at, Last(file))'
        /\ FillingFits(at, Last(file))' /\ ObjectsFit(at, Last(file))'
    BY <1>1, <1>3
  <1>5. (file \in Seq(Servers) /\ file # <<>>)' /\ (at # "file")'
    BY <1>1
  <1> QED
    BY <1>4, <1>5, Zenon DEF Agrees, SameType

\* A server with a fault is a fault of the file.
LEMMA IsFaulty ==
  ASSUME NEW done \in Seq(Servers), NEW s \in Servers, FaultyServer(s),
         file' = Append(done, s)
  PROVE  FaultyFile'
  <1>1. s \in ToSet(file')
    BY Appended
  <1> QED
    BY <1>1 DEF FaultyFile

\* Where a token leads whose kind the automaton is sure of.
Reads(t) == verdict = "reading" /\ Agrees /\ t \in Token /\ Parse(t)

\* What a token within a server is read as.
LEMMA Stepped ==
  ASSUME NEW t, Reads(t), at # "file", NEW kind, kindOf(t) = kind, Leads(at, kind, at')
  PROVE  /\ SameType
         /\ \E done, s : /\ file = Append(done, s) /\ Front(file) = done /\ Last(file) = s
                         /\ Within(done, at, s)
         /\ \/ LaterThrows(t, kind) /\ verdict' = "refused" /\ UNCHANGED valueVars
            \/ /\ ~LaterThrows(t, kind) /\ verdict' = "reading" /\ SyntaxFits'
               /\ checkSameKey(t, kind) /\ setValue(t, kind)
  <1>1. /\ SyntaxFits /\ SameType /\ Agrees
        /\ verdict = "reading" /\ t \in Token /\ Parse(t)
    BY Zenon DEF Reads, Agrees, SameType
  <1>2. \E done, s : /\ file = Append(done, s) /\ Front(file) = done /\ Last(file) = s
                    /\ Within(done, at, s)
    BY <1>1, Described, Zenon
  <1> QED
    BY <1>1, <1>2, Outcome, Zenon

\* A block that says nothing has no fault.
LEMMA NothingSaid ==
  ASSUME NEW b, b.directives = <<>>
  PROVE  /\ ToSet(KeysOf(b)) = {} /\ ~Repeats(KeysOf(b)) /\ Given(b) = {}
         /\ \A k : ValuesOf(b, k) = {}
         /\ \A w : Complete(b, w)
         /\ \A keys : ~Faulty(b, keys)
  <1>1. DOMAIN <<>> = {} /\ ToSet(<<>>) = {}
    BY DEF ToSet
  <1>2. KeysOf(b) = <<>>
    BY <1>1 DEF KeysOf
  <1>3. Given(b) = {} /\ \A k : ValuesOf(b, k) = {}
    BY <1>1 DEF Given, ValuesOf
  <1>4. \A w : Complete(b, w)
    BY <1>1 DEF Complete
  <1> QED
    BY <1>1, <1>2, <1>3, <1>4, RepeatsNothing DEF Faulty

\* A server without locations has no path twice.
LEMMA NoPaths == PathsOf(<<>>) = <<>> /\ ~Repeats(PathsOf(<<>>))
  <1>1. PathsOf(<<>>) = <<>>
    BY DEF PathsOf
  <1> QED
    BY <1>1, RepeatsNothing

\* "server" begins one.
LEMMA ServerToken ==
  ASSUME NEW t, Reads(t), at = "file", kindOf(t) = "SERVER",
         file' = Append(file, Block0("none")), at' = "server"
  PROVE  Decided
  <1> DEFINE s == Block0("none")
  <1>1. /\ SyntaxFits /\ HandedOver(file) /\ filling = [block |-> "SERVER", key |-> "none"]
        /\ file \in Seq(Servers) /\ SameType /\ verdict = "reading" /\ t \in Token /\ Parse(t)
    BY DEF Reads, Agrees, HandedOver, SameType
  <1>2. Leads(at, "SERVER", at')
    BY DEF Leads
  <1>3. ~LaterThrows(t, "SERVER")
    BY <1>1 DEF LaterThrows, SameKeyThrows, SetValueThrows
  <1>4. /\ verdict' = "reading" /\ SyntaxFits'
        /\ checkSameKey(t, "SERVER") /\ setValue(t, "SERVER")
    BY <1>1, <1>2, <1>3, Outcome, Zenon
  <1>5. same' = [same EXCEPT !.block = "SERVER", !.SERVER = {}]
    BY <1>4 DEF checkSameKey, Block
  <1>6. openBlock("SERVER")
    BY <1>1, <1>4 DEF setValue, Block
  <1>7. /\ filling' = [block |-> "SERVER", key |-> "none"] /\ servers' = servers
        /\ \E port : server' = NewServer(port)
    BY <1>1, <1>6 DEF openBlock
  <1>8. s.directives = <<>> /\ s.locations = <<>> /\ s \in Servers
    BY DEF Block0, Servers, Locations
  <1> HIDE DEF s
  <1>9. /\ ToSet(KeysOf(s)) = {} /\ Given(s) = {} /\ \A k : ValuesOf(s, k) = {}
        /\ Complete(s, FALSE) /\ ~Faulty(s, ServerKey)
    BY <1>8, NothingSaid
  <1>10. /\ Closed("server", s) = <<>> /\ ToSet(<<>>) = {} /\ DOMAIN <<>> = {}
    BY <1>8 DEF Closed, InLocation, ToSet
  <1>11. ServerFits("server", s)
    BY <1>8, <1>9, <1>10, NoPaths DEF ServerFits, InLocation
  <1>12. same' \in [block : Block, SERVER : SUBSET ServerKey, LOCATION : SUBSET LocationKey]
         /\ same'.block = "SERVER" /\ same'.SERVER = {}
    BY <1>1, <1>5 DEF Block, SameType
  <1>13. KeysFit("server", s)'
    BY <1>9, <1>12 DEF KeysFit, InLocation
  <1>14. FillingFits("server", s)'
    BY <1>7 DEF FillingFits, InLocation
  <1>15. ObjectsFit("server", s)'
    <2>1. PICK port : server' = NewServer(port)
      BY <1>7
    <2>2. {LocationMeant(l) : l \in ToSet(Closed("server", s))} = {}
      BY <1>10
    <2>3. ToSet(s.directives) = {}
      BY <1>8, <1>10
    <2> QED
      BY <2>1, <2>2, <2>3, <1>9 DEF ObjectsFit, NewServer, InLocation
  <1> QED
    BY <1>1, <1>4, <1>7, <1>8, <1>11, <1>12, <1>13, <1>14, <1>15, GoesOn DEF Decided, s, SameType

\* "{" says nothing of its own.
LEMMA OpenToken ==
  ASSUME NEW t, Reads(t), kindOf(t) = "OPEN_BRACKET", file' = file,
         NEW pos, at' = pos,
         \/ at = "server" /\ pos = "block"
         \/ at = "open" /\ pos = "inner"
  PROVE  Decided
  <1>1. Leads(at, "OPEN_BRACKET", at') /\ at # "file"
    BY DEF Leads
  <1>2. PICK done, s : file = Append(done, s) /\ Within(done, at, s)
    BY <1>1, Stepped, Zenon
  <1>3. /\ done \in Seq(Servers) /\ s \in Servers /\ HandedOver(done)
        /\ ServerFits(at, s) /\ KeysFit(at, s) /\ FillingFits(at, s) /\ ObjectsFit(at, s)
    BY <1>2 DEF Within
  <1>4. filling.key = "none"
    BY <1>3 DEF FillingFits
  <1>5. ~LaterThrows(t, "OPEN_BRACKET")
    BY <1>4 DEF LaterThrows, SameKeyThrows, SetValueThrows
  <1>6. /\ verdict' = "reading" /\ SyntaxFits' /\ SameType
        /\ checkSameKey(t, "OPEN_BRACKET") /\ setValue(t, "OPEN_BRACKET")
    BY <1>1, <1>5, Stepped, Zenon
  <1>7. UNCHANGED <<same, filling, server, location, servers>>
    BY <1>4, <1>6 DEF checkSameKey, setValue, Block
  <1>8. ServerFits(pos, s)
    <2>1. CASE at = "server"
      <3>1. s.locations = <<>> /\ s.directives = <<>>
        BY <1>3, <2>1 DEF ServerFits
      <3>2. Complete(s, FALSE)
        BY <1>3, <2>1 DEF ServerFits
      <3>3. Closed("block", s) = <<>> /\ DOMAIN <<>> = {}
        BY <3>1 DEF Closed, InLocation
      <3> QED
        BY <1>3, <2>1, <3>1, <3>2, <3>3, NoPaths DEF ServerFits, InLocation
    <2>2. CASE at = "open"
      <3>1. Closed("inner", s) = Closed("open", s)
        BY DEF Closed, InLocation
      <3> QED
        BY <1>3, <2>2, <3>1 DEF ServerFits, InLocation
    <2> QED
      BY <2>1, <2>2
  <1>9. KeysFit(pos, s)'
    <2>1. CASE at = "server"
      <3>1. s.locations = <<>>
        BY <1>3, <2>1 DEF ServerFits
      <3> QED
        BY <1>3, <1>7, <2>1, <3>1 DEF KeysFit, InLocation
    <2>2. CASE at = "open"
      BY <1>3, <1>7, <2>2 DEF KeysFit, InLocation
    <2> QED
      BY <2>1, <2>2
  <1>10. FillingFits(pos, s)'
    BY <1>3, <1>7 DEF FillingFits, InLocation
  <1>11. ObjectsFit(pos, s)'
    <2>1. Closed(pos, s) = Closed(at, s)
      BY DEF Closed, InLocation
    <2>2. CASE at = "server"
      BY <1>3, <1>7, <2>1, <2>2 DEF ObjectsFit, InLocation
    <2>3. CASE at = "open"
      BY <1>3, <1>7, <2>1, <2>3 DEF ObjectsFit, InLocation
    <2> QED
      BY <2>2, <2>3
  <1>12. SameType' /\ servers' = servers
    BY <1>6, <1>7 DEF SameType
  <1>13. pos # "file" /\ file' = Append(done, s)
    BY <1>2
  <1> QED
    BY <1>3, <1>6, <1>7, <1>8, <1>9, <1>10, <1>11, <1>12, <1>13, GoesOn, Zenon DEF Decided

\* ";" ends the values of a key.
LEMMA SemicolonToken ==
  ASSUME NEW t, Reads(t), kindOf(t) = "SEMICOLON", file' = file,
         NEW pos, at' = pos,
         \/ at = "value" /\ pos = "block"
         \/ at = "innerValue" /\ pos = "inner"
  PROVE  Decided
  <1>1. Leads(at, "SEMICOLON", at') /\ at # "file"
    BY DEF Leads
  <1>2. PICK done, s : file = Append(done, s) /\ Within(done, at, s)
    BY <1>1, Stepped, Zenon
  <1>3. /\ done \in Seq(Servers) /\ s \in Servers /\ HandedOver(done)
        /\ ServerFits(at, s) /\ KeysFit(at, s) /\ FillingFits(at, s) /\ ObjectsFit(at, s)
    BY <1>2 DEF Within
  <1>4. PICK block, key :
          /\ filling = [block |-> block, key |-> key] /\ key \in DOMAIN Values
          /\ block = IF at = "value" THEN "SERVER" ELSE "LOCATION"
    <2>1. CASE at = "value"
      <3>1. s.directives \in Seq(Directives) /\ s.directives # <<>>
        BY <1>3, <2>1 DEF ServerFits, Servers
      <3>2. Last(s.directives) \in Directives
        BY <3>1, Parted
      <3> QED
        BY <1>3, <2>1, <3>2 DEF FillingFits, Directives, InLocation
    <2>2. CASE at = "innerValue"
      <3>1. Last(s.locations) \in Locations /\ Last(s.locations).directives # <<>>
        <4>1. s.locations \in Seq(Locations) /\ s.locations # <<>>
          BY <1>3, <2>2 DEF ServerFits, Servers, InLocation
        <4>2. /\ Last(s.locations) \in Locations
              /\ Len(s.locations) \in DOMAIN s.locations
              /\ Last(s.locations) = s.locations[Len(s.locations)]
          BY <4>1, Parted
        <4> QED
          BY <1>3, <2>2, <4>2 DEF ServerFits
      <3>2. Last(Last(s.locations).directives) \in Directives
        BY <3>1, Parted DEF Locations
      <3> QED
        BY <1>3, <2>2, <3>2 DEF FillingFits, Directives, InLocation
    <2> QED
      BY <2>1, <2>2
  <1>5. filling.key # "none" /\ filling.key = key
    BY <1>4, GrammarAssumption
  <1>6. ~LaterThrows(t, "SEMICOLON")
    BY DEF LaterThrows, SameKeyThrows, SetValueThrows
  <1>7. /\ verdict' = "reading" /\ SyntaxFits' /\ SameType
        /\ checkSameKey(t, "SEMICOLON") /\ setValue(t, "SEMICOLON")
    BY <1>1, <1>6, Stepped, Zenon
  <1>8. /\ UNCHANGED <<same, server, location, servers>>
        /\ filling' = [block |-> block, key |-> "none"]
    BY <1>4, <1>5, <1>7 DEF checkSameKey, setValue, readValues, Block
  <1>9. ServerFits(pos, s)
    <2>1. CASE at = "value"
      BY <1>3, <2>1 DEF ServerFits, InLocation, Closed
    <2>2. CASE at = "innerValue"
      <3>1. Closed("inner", s) = Closed("innerValue", s)
        BY DEF Closed, InLocation
      <3> QED
        BY <1>3, <2>2, <3>1 DEF ServerFits, InLocation
    <2> QED
      BY <2>1, <2>2
  <1>10. KeysFit(pos, s)'
    <2>1. CASE at = "value"
      BY <1>3, <1>8, <2>1 DEF KeysFit, InLocation
    <2>2. CASE at = "innerValue"
      BY <1>3, <1>8, <2>2 DEF KeysFit, InLocation
    <2> QED
      BY <2>1, <2>2
  <1>11. FillingFits(pos, s)'
    BY <1>4, <1>8 DEF FillingFits, InLocation
  <1>12. ObjectsFit(pos, s)'
    <2>1. Closed(pos, s) = Closed(at, s)
      BY DEF Closed, InLocation
    <2>2. CASE at = "value"
      BY <1>3, <1>8, <2>1, <2>2 DEF ObjectsFit, InLocation
    <2>3. CASE at = "innerValue"
      BY <1>3, <1>8, <2>1, <2>3 DEF ObjectsFit, InLocation
    <2> QED
      BY <2>2, <2>3
  <1>13. SameType' /\ servers' = servers
    BY <1>7, <1>8 DEF SameType
  <1>14. pos # "file" /\ file' = Append(done, s)
    BY <1>2
  <1> QED
    BY <1>3, <1>7, <1>9, <1>10, <1>11, <1>12, <1>13, <1>14, GoesOn, Zenon DEF Decided

\* "location" ends what the server may say of itself.
LEMMA LocationToken ==
  ASSUME NEW t, Reads(t), kindOf(t) = "LOCATION", file' = file,
         at = "block", at' = "path"
  PROVE  Decided
  <1>1. Leads(at, "LOCATION", at') /\ at # "file"
    BY DEF Leads
  <1>2. PICK done, s : file = Append(done, s) /\ Within(done, at, s)
    BY <1>1, Stepped, Zenon
  <1>3. /\ done \in Seq(Servers) /\ s \in Servers /\ HandedOver(done)
        /\ ServerFits(at, s) /\ KeysFit(at, s) /\ FillingFits(at, s) /\ ObjectsFit(at, s)
    BY <1>2 DEF Within
  <1>4. filling = [block |-> "SERVER", key |-> "none"]
    BY <1>3 DEF FillingFits, InLocation
  <1>5. ~LaterThrows(t, "LOCATION")
    BY <1>4 DEF LaterThrows, SameKeyThrows, SetValueThrows
  <1>6. /\ verdict' = "reading" /\ SyntaxFits' /\ SameType
        /\ checkSameKey(t, "LOCATION") /\ setValue(t, "LOCATION")
    BY <1>1, <1>5, Stepped, Zenon
  <1>7. /\ same' = [same EXCEPT !.block = "LOCATION", !.LOCATION = {}]
        /\ filling' = [block |-> "LOCATION", key |-> "none"]
        /\ server' = server /\ location' = NewLocation /\ servers' = servers
    BY <1>4, <1>6 DEF checkSameKey, setValue, openBlock, Block
  <1>8. SameType' /\ same'.block = "LOCATION" /\ same'.LOCATION = {}
    BY <1>6, <1>7 DEF SameType, Block
  <1>9. Closed("path", s) = Closed("block", s)
    BY DEF Closed, InLocation
  <1>10. ServerFits("path", s)
    BY <1>3, <1>9 DEF ServerFits, InLocation
  <1>11. KeysFit("path", s)'
    BY <1>8 DEF KeysFit, InLocation
  <1>12. FillingFits("path", s)'
    BY <1>7 DEF FillingFits
  <1>13. ObjectsFit("path", s)'
    BY <1>3, <1>7, <1>9 DEF ObjectsFit, InLocation
  <1>14. file' = Append(done, s)
    BY <1>2
  <1> QED
    BY <1>3, <1>6, <1>7, <1>8, <1>10, <1>11, <1>12, <1>13, <1>14, GoesOn DEF Decided

\* Servers are records; what they are without a part that is rewritten.
LEMMA ServerType ==
  ASSUME NEW s \in Servers
  PROVE  /\ s.directives \in Seq(Directives) /\ s.locations \in Seq(Locations)
         /\ s = [path |-> "none", directives |-> s.directives, locations |-> s.locations]
  BY DEF Servers

\* They are put together from directives and locations.
LEMMA IsServer ==
  ASSUME NEW x \in Seq(Directives), NEW y \in Seq(Locations)
  PROVE  [path |-> "none", directives |-> x, locations |-> y] \in Servers
  BY DEF Servers

\* A server with other directives.
LEMMA OtherDirectives ==
  ASSUME NEW s \in Servers, NEW x \in Seq(Directives)
  PROVE  LET s2 == [s EXCEPT !.directives = x]
         IN  s2 \in Servers /\ s2.directives = x /\ s2.locations = s.locations
  <1> DEFINE y == s.locations
             z == s.directives
  <1>1. s = [path |-> "none", directives |-> z, locations |-> y] /\ y \in Seq(Locations)
    BY ServerType
  <1> HIDE DEF y, z
  <1>2. [s EXCEPT !.directives = x] = [path |-> "none", directives |-> x, locations |-> y]
    BY <1>1
  <1> QED
    BY <1>1, <1>2, IsServer DEF y

\* A value more for a key keeps the directives directives.
LEMMA ValuedType ==
  ASSUME NEW b, NEW t \in Word, b.directives \in Seq(Directives), b.directives # <<>>
  PROVE  Valued(b, t) \in Seq(Directives)
  <1> DEFINE d == Last(b.directives)
  <1>1. d \in Directives /\ Front(b.directives) \in Seq(Directives)
    BY Parted
  <1>2. Append(d.values, t) \in Seq(Word)
    BY <1>1, Appended DEF Directives
  <1> HIDE DEF d
  <1>3. [d EXCEPT !.values = Append(@, t)] \in Directives
    BY <1>1, <1>2 DEF Directives
  <1> QED
    BY <1>1, <1>3, Appended DEF Valued, d

\* The last key is one of the keys.
LEMMA LastKey ==
  ASSUME NEW b, b.directives \in Seq(Directives), b.directives # <<>>
  PROVE  Last(b.directives).key \in ToSet(KeysOf(b))
  <1>1. /\ KeysOf(b) \in Seq(DOMAIN Values) /\ DOMAIN KeysOf(b) = DOMAIN b.directives
        /\ \A i \in DOMAIN b.directives : KeysOf(b)[i] = b.directives[i].key
    BY KeysKnown
  <1>2. /\ Len(b.directives) \in DOMAIN b.directives
        /\ Last(b.directives) = b.directives[Len(b.directives)]
    BY Parted
  <1> QED
    BY <1>1, <1>2 DEF ToSet

Keyed(b, key) == [b EXCEPT !.directives = Append(@, Directive(key))]

\* A key of a server.
LEMMA KeyToken ==
  ASSUME NEW t, Reads(t), kindOf(t) = "KEY", t \in DOMAIN Values,
         at = "block", at' = "key", Here.locations = <<>>,
         file' = With(Keyed(Here, t))
  PROVE  Decided
  <1>1. Leads(at, "KEY", at') /\ at # "file"
    BY DEF Leads
  <1>2. PICK done, s : /\ file = Append(done, s) /\ Front(file) = done /\ Last(file) = s
                       /\ Within(done, at, s)
    BY <1>1, Stepped, Zenon
  <1>3. /\ done \in Seq(Servers) /\ s \in Servers /\ HandedOver(done)
        /\ ServerFits(at, s) /\ KeysFit(at, s) /\ FillingFits(at, s) /\ ObjectsFit(at, s)
    BY <1>2 DEF Within
  <1> DEFINE s2 == Keyed(s, t)
  <1>4. file' = Append(done, s2) /\ s.locations = <<>>
    BY <1>2 DEF Here, With
  <1>5. s.directives \in Seq(Directives)
    BY <1>3, ServerType
  <1>6. Append(s.directives, Directive(t)) \in Seq(Directives)
    <2>1. Directive(t) \in Directives
      BY DEF Directive, Directives
    <2> QED
      BY <1>5, <2>1, Appended
  <1>7. /\ s2 \in Servers /\ s2.locations = <<>>
        /\ s2.directives = Append(s.directives, Directive(t))
    BY <1>3, <1>4, <1>6, OtherDirectives DEF Keyed
  <1> HIDE DEF s2
  <1>8. /\ s2.directives # <<>>
        /\ Last(s2.directives).key = t
        /\ ToSet(KeysOf(s2)) = ToSet(KeysOf(s)) \cup {t}
        /\ Repeats(KeysOf(s2)) <=> Repeats(KeysOf(s)) \/ t \in ToSet(KeysOf(s))
        /\ \A k : ValuesOf(s2, k) = ValuesOf(s, k)
        /\ Given(s2) = Given(s)
        /\ Complete(s, FALSE) => Complete(s2, TRUE)
        /\ \A d \in ToSet(s2.directives) : d.values # <<>> => d \in ToSet(s.directives)
    BY <1>5, <1>7, DirectiveAdded, ZenonT(60)
  <1>9. filling = [block |-> "SERVER", key |-> "none"]
    BY <1>3 DEF FillingFits, InLocation
  <1>10. same.block = "SERVER" /\ same.SERVER = ToSet(KeysOf(s))
    BY <1>3, <1>4 DEF KeysFit, InLocation
  <1>11. LaterThrows(t, "KEY") <=> t \notin ServerKey \/ t \in ToSet(KeysOf(s))
    BY <1>9, <1>10 DEF LaterThrows, SameKeyThrows, SetValueThrows, Keys
  <1>12. CASE LaterThrows(t, "KEY")
    <2>1. verdict' = "refused"
      BY <1>1, <1>12, Stepped, Zenon
    <2>2. Faulty(s2, ServerKey)
      BY <1>8, <1>11, <1>12 DEF Faulty
    <2>3. FaultyFile'
      BY <1>3, <1>4, <1>7, <2>2, IsFaulty DEF FaultyServer
    <2> QED
      BY <2>1, <2>3 DEF Decided
  <1>13. CASE ~LaterThrows(t, "KEY")
    <2>1. /\ verdict' = "reading" /\ SyntaxFits' /\ SameType
          /\ checkSameKey(t, "KEY") /\ setValue(t, "KEY")
      BY <1>1, <1>13, Stepped, Zenon
    <2>2. /\ same' = [same EXCEPT !.SERVER = @ \cup {t}]
          /\ filling' = [block |-> "SERVER", key |-> t]
          /\ server' = server /\ location' = location /\ servers' = servers
      BY <1>9, <1>10, <2>1 DEF checkSameKey, setValue, Block
    <2>3. SameType' /\ same'.block = "SERVER" /\ same'.SERVER = ToSet(KeysOf(s2))
      BY <1>8, <1>10, <1>11, <1>13, <2>1, <2>2 DEF SameType, Block
    <2>4. Closed("key", s2) = <<>> /\ DOMAIN <<>> = {} /\ Closed("block", s) = <<>>
      BY <1>4, <1>7 DEF Closed, InLocation
    <2>5. ServerFits("key", s2)
      <3>1. Complete(s2, TRUE) /\ ~Faulty(s2, ServerKey) /\ ValuesOf(s2, "listen") \subseteq Port
        BY <1>3, <1>8, <1>11, <1>13 DEF ServerFits, Faulty
      <3> QED
        BY <1>8, <1>7, <2>4, <3>1, NoPaths DEF ServerFits, InLocation
    <2>6. KeysFit("key", s2)'
      BY <2>3 DEF KeysFit, InLocation
    <2>7. FillingFits("key", s2)'
      BY <1>8, <2>2 DEF FillingFits, InLocation
    <2>8. ObjectsFit("key", s2)'
      BY <1>3, <1>8, <2>2, <2>4 DEF ObjectsFit, InLocation
    <2> QED
      BY <1>3, <1>4, <1>7, <2>1, <2>2, <2>3, <2>5, <2>6, <2>7, <2>8, GoesOn DEF Decided
  <1> QED
    BY <1>12, <1>13

\* A value of a key of a server.
LEMMA ValueToken ==
  ASSUME NEW t \in Word, Reads(t), kindOf(t) = "VALUE", at \in {"key", "value"},
         at' = "value", file' = With([Here EXCEPT !.directives = Valued(Here, t)])
  PROVE  Decided
  <1>1. Leads(at, "VALUE", at') /\ at # "file"
    BY DEF Leads
  <1>2. PICK done, s : /\ file = Append(done, s) /\ Front(file) = done /\ Last(file) = s
                       /\ Within(done, at, s)
    BY <1>1, Stepped, Zenon
  <1>3. /\ done \in Seq(Servers) /\ s \in Servers /\ HandedOver(done)
        /\ ServerFits(at, s) /\ KeysFit(at, s) /\ FillingFits(at, s) /\ ObjectsFit(at, s)
    BY <1>2 DEF Within
  <1> DEFINE s2 == [s EXCEPT !.directives = Valued(s, t)]
  <1>4. PICK key : key = Last(s.directives).key
    OBVIOUS
  <1>5. file' = Append(done, s2)
    BY <1>2 DEF Here, With
  <1>6. s.locations = <<>> /\ s.directives # <<>>
    BY <1>3 DEF ServerFits
  <1>7. s.directives \in Seq(Directives) /\ Last(s.directives) \in Directives
    BY <1>3, <1>6, ServerType, Parted
  <1>8. Valued(s, t) \in Seq(Directives)
    BY <1>6, <1>7, ValuedType
  <1>9. s2 \in Servers /\ s2.locations = <<>> /\ s2.directives = Valued(s, t)
    BY <1>3, <1>6, <1>8, OtherDirectives
  <1> HIDE DEF s2
  <1>10. /\ s2.directives # <<>>
         /\ Last(s2.directives).key = key /\ key \in DOMAIN Values
         /\ KeysOf(s2) = KeysOf(s)
         /\ \A k : ValuesOf(s2, k) = ValuesOf(s, k) \cup (IF k = key THEN {t} ELSE {})
         /\ Given(s2) = Given(s) \cup {key}
         /\ Complete(s, TRUE) => Complete(s2, FALSE)
         /\ \A d \in ToSet(s2.directives) : d.key # key => d \in ToSet(s.directives)
         /\ ~Repeats(KeysOf(s)) =>
              \A d \in ToSet(s2.directives) : d.key = key => Last(d.values) = t
    <2>1. ValueGiven(s, s2, t, key)
      BY <1>6, <1>7, <1>9, <1>4, ValueAdded
    <2> QED
      BY <2>1 DEF ValueGiven
  <1>11. filling = [block |-> "SERVER", key |-> key] /\ key # "none"
    <2>1. filling = [block |-> "SERVER", key |-> key]
      BY <1>3, <1>4 DEF FillingFits, InLocation
    <2>2. key # "none"
      BY <1>10, GrammarAssumption
    <2> QED
      BY <2>1, <2>2
  <1>12. same.block = "SERVER" /\ same.SERVER = ToSet(KeysOf(s))
    BY <1>3, <1>6 DEF KeysFit, InLocation
  <1>13. LaterThrows(t, "VALUE") <=> key = "listen" /\ t \notin Port
    BY <1>11 DEF LaterThrows, SameKeyThrows, SetValueThrows
  <1>14. ~Repeats(KeysOf(s)) /\ ToSet(KeysOf(s)) \subseteq ServerKey
    BY <1>3 DEF ServerFits, Faulty
  <1>15. key \in ServerKey
    <2>1. key \in ToSet(KeysOf(s))
      BY <1>6, <1>7, <1>4, LastKey
    <2> QED
      BY <1>14, <2>1
  <1>16. CASE LaterThrows(t, "VALUE")
    <2>1. verdict' = "refused"
      BY <1>1, <1>16, Stepped, Zenon
    <2>2. ~(ValuesOf(s2, "listen") \subseteq Port)
      BY <1>10, <1>13, <1>16
    <2>3. FaultyFile'
      BY <1>3, <1>5, <1>9, <2>2, IsFaulty DEF FaultyServer
    <2> QED
      BY <2>1, <2>3 DEF Decided
  <1>17. CASE ~LaterThrows(t, "VALUE")
    <2>1. /\ verdict' = "reading" /\ SyntaxFits' /\ SameType
          /\ checkSameKey(t, "VALUE") /\ setValue(t, "VALUE")
      BY <1>1, <1>17, Stepped, Zenon
    <2>2. /\ same' = same /\ filling' = filling
          /\ location' = location /\ servers' = servers
          /\ setServerValue(t)
      BY <1>11, <2>1 DEF checkSameKey, setValue, readValues, setObject, Block
    <2>3. SameType'
      BY <2>1, <2>2 DEF SameType
    <2>4. /\ Closed("value", s2) = <<>> /\ DOMAIN <<>> = {} /\ Closed(at, s) = <<>>
          /\ ToSet(<<>>) = {}
      BY <1>6, <1>9 DEF Closed, InLocation, ToSet
    <2>5. ServerFits("value", s2)
      <3>1. Complete(s2, FALSE)
        <4>1. Complete(s, TRUE)
          BY <1>3 DEF ServerFits, Complete
        <4> QED
          BY <4>1, <1>10
      <3>2. ~Faulty(s2, ServerKey)
        BY <1>10, <1>14 DEF Faulty
      <3>3. ValuesOf(s2, "listen") \subseteq Port
        <4>1. ValuesOf(s, "listen") \subseteq Port
          BY <1>3 DEF ServerFits
        <4> QED
          BY <1>10, <1>13, <1>17, <4>1
      <3> QED
        BY <1>10, <1>9, <2>4, <3>1, <3>2, <3>3, NoPaths DEF ServerFits, InLocation
    <2>6. KeysFit("value", s2)'
      BY <1>10, <1>12, <2>2 DEF KeysFit, InLocation
    <2>7. FillingFits("value", s2)'
      BY <1>10, <1>11, <2>2 DEF FillingFits, InLocation
    <2>8. ObjectsFit("value", s2)'
      <3>1. server = [listen |-> server.listen, names |-> ValuesOf(s, "server_name"),
                      keys |-> Given(s) \ {"listen", "server_name"}, locations |-> {}]
        BY <1>3, <2>4 DEF ObjectsFit
      <3>2. server' = [listen |-> server'.listen, names |-> ValuesOf(s2, "server_name"),
                       keys |-> Given(s2) \ {"listen", "server_name"}, locations |-> {}]
        <4> DEFINE n == ValuesOf(s, "server_name")
                   n2 == ValuesOf(s2, "server_name")
                   g == Given(s) \ {"listen", "server_name"}
                   g2 == Given(s2) \ {"listen", "server_name"}
        <4>1. n2 = n \cup IF key = "server_name" THEN {t} ELSE {}
          BY <1>10
        <4>2. g2 = g \cup IF key \in {"listen", "server_name"} THEN {} ELSE {key}
          BY <1>10
        <4>3. server = [listen |-> server.listen, names |-> n, keys |-> g, locations |-> {}]
          BY <3>1
        <4> HIDE DEF n, n2, g, g2
        <4>4. server' = CASE key = "listen" -> [server EXCEPT !.listen = t]
                          [] key = "server_name" -> [server EXCEPT !.names = n2]
                          [] OTHER -> [server EXCEPT !.keys = g2]
          <5>1. filling.key = key
            BY <1>11
          <5>2. key = "server_name" => server.names \cup {t} = n2
            BY <4>1, <4>3
          <5>3. key \notin {"listen", "server_name"} =>
                  server.keys \cup ({key} \cap ServerKey) = g2
            BY <1>15, <4>2, <4>3
          <5> QED
            BY <2>2, <5>1, <5>2, <5>3 DEF setServerValue
        <4>5. key # "server_name" => n2 = n
          BY <4>1
        <4>6. key \in {"listen", "server_name"} => g2 = g
          BY <4>2
        <4> QED
          BY <4>3, <4>4, <4>5, <4>6, SMTT(60) DEF n2, g2
      <3>3. server'.listen = IF key = "listen" THEN t ELSE server.listen
        <4> DEFINE n == ValuesOf(s, "server_name")
                   g == Given(s) \ {"listen", "server_name"}
        <4>1. server = [listen |-> server.listen, names |-> n, keys |-> g, locations |-> {}]
          BY <3>1
        <4> HIDE DEF n, g
        <4> QED
          BY <1>11, <2>2, <4>1 DEF setServerValue
      <3>4. \A d \in ToSet(s2.directives) :
              d.key = "listen" /\ d.values # <<>> => server'.listen = Last(d.values)
        <4>1. \A d \in ToSet(s.directives) :
                d.key = "listen" /\ d.values # <<>> => server.listen = Last(d.values)
          BY <1>3 DEF ObjectsFit
        <4> QED
          BY <1>10, <1>14, <3>3, <4>1
      <3> QED
        BY <2>4, <3>2, <3>4 DEF ObjectsFit, InLocation
    <2> QED
      BY <1>3, <1>5, <1>9, <2>1, <2>2, <2>3, <2>5, <2>6, <2>7, <2>8, GoesOn DEF Decided
  <1> QED
    BY <1>16, <1>17

-----------------------------------------------------------------------------
(***************************************************************************)
(* A token more in a location.                                             *)
(***************************************************************************)

\* What ServerFits and ObjectsFit say of server s, whose locations but the last
\* are front, and of that location l.
OuterFits(s, front) ==
  /\ Complete(s, FALSE) /\ ~Faulty(s, ServerKey) /\ ValuesOf(s, "listen") \subseteq Port
  /\ \A i \in DOMAIN front : Complete(front[i], FALSE) /\ ~Faulty(front[i], LocationKey)
  /\ ~Repeats(PathsOf(front))

LocationFits(pos, l) ==
  /\ Complete(l, pos = "innerKey") /\ ~Faulty(l, LocationKey)
  /\ pos = "open" => l.directives = <<>>
  /\ pos \in {"innerKey", "innerValue"} => l.directives # <<>>

ServerFilled(s, front) ==
  /\ server = [listen |-> server.listen,
               names |-> ValuesOf(s, "server_name"),
               keys |-> Given(s) \ {"listen", "server_name"},
               locations |-> {LocationMeant(x) : x \in ToSet(front)}]
  /\ \A d \in ToSet(s.directives) :
       d.key = "listen" /\ d.values # <<>> => server.listen = Last(d.values)

Inner(pos, l) ==
  /\ same.block = "LOCATION" /\ same.LOCATION = ToSet(KeysOf(l))
  /\ filling = [block |-> "LOCATION",
                key |-> IF pos \in {"innerKey", "innerValue"}
                        THEN Last(l.directives).key ELSE "none"]
  /\ location = [path |-> l.path, keys |-> Given(l)]

\* Locations are records, too.
LEMMA LocationType ==
  ASSUME NEW l \in Locations
  PROVE  /\ l.directives \in Seq(Directives) /\ l.path \in Path
         /\ l = [path |-> l.path, directives |-> l.directives, locations |-> <<>>]
  BY DEF Locations

\* They are put together from a path and directives.
LEMMA IsLocation ==
  ASSUME NEW p \in Path, NEW x \in Seq(Directives)
  PROVE  [path |-> p, directives |-> x, locations |-> <<>>] \in Locations
  BY DEF Locations

\* A location with other directives.
LEMMA OtherLocationDirectives ==
  ASSUME NEW l \in Locations, NEW x \in Seq(Directives)
  PROVE  LET l2 == [l EXCEPT !.directives = x]
         IN  l2 \in Locations /\ l2.directives = x /\ l2.path = l.path
  <1> DEFINE z == l.directives
             p == l.path
  <1>1. l = [path |-> p, directives |-> z, locations |-> <<>>] /\ p \in Path
    BY LocationType
  <1> HIDE DEF z, p
  <1>2. [l EXCEPT !.directives = x] = [path |-> p, directives |-> x, locations |-> <<>>]
    BY <1>1
  <1> QED
    BY <1>1, <1>2, IsLocation DEF p

\* A server with other locations.
LEMMA OtherLocations ==
  ASSUME NEW s \in Servers, NEW y \in Seq(Locations)
  PROVE  LET s2 == [s EXCEPT !.locations = y]
         IN  s2 \in Servers /\ s2.directives = s.directives /\ s2.locations = y
  <1> DEFINE z == s.directives
             w == s.locations
  <1>1. s = [path |-> "none", directives |-> z, locations |-> w] /\ z \in Seq(Directives)
    BY ServerType
  <1> HIDE DEF z, w
  <1>2. [s EXCEPT !.locations = y] = [path |-> "none", directives |-> z, locations |-> y]
    BY <1>1
  <1> QED
    BY <1>1, <1>2, IsServer DEF z

\* What a block says is in its directives.
LEMMA SameDirectives ==
  ASSUME NEW b, NEW c, b.directives = c.directives
  PROVE  /\ KeysOf(b) = KeysOf(c) /\ Given(b) = Given(c)
         /\ \A k : ValuesOf(b, k) = ValuesOf(c, k)
         /\ \A w : Complete(b, w) <=> Complete(c, w)
         /\ \A keys : Faulty(b, keys) <=> Faulty(c, keys)
  <1>1. KeysOf(b) = KeysOf(c)
    BY DEF KeysOf
  <1>2. Given(b) = Given(c) /\ \A k : ValuesOf(b, k) = ValuesOf(c, k)
    BY DEF Given, ValuesOf
  <1>3. \A w : Complete(b, w) <=> Complete(c, w)
    BY DEF Complete
  <1>4. \A keys : Faulty(b, keys) <=> Faulty(c, keys)
    BY <1>1 DEF Faulty
  <1> QED
    BY <1>1, <1>2, <1>3, <1>4

\* ServerFits, KeysFit, FillingFits and ObjectsFit in a location.
LEMMA InnerFits ==
  ASSUME NEW s \in Servers, NEW pos \in InLocation,
         NEW front \in Seq(Locations), NEW l \in Locations,
         s.locations = Append(front, l)
  PROVE  /\ ServerFits(pos, s) <=> OuterFits(s, front) /\ LocationFits(pos, l)
         /\ ServerFilled(s, front) /\ Inner(pos, l) =>
              KeysFit(pos, s) /\ FillingFits(pos, s) /\ ObjectsFit(pos, s)
         /\ KeysFit(pos, s) /\ FillingFits(pos, s) /\ ObjectsFit(pos, s) =>
              ServerFilled(s, front) /\ Inner(pos, l)
         /\ ServerFilled(s, front)' /\ Inner(pos, l)' =>
              KeysFit(pos, s)' /\ FillingFits(pos, s)' /\ ObjectsFit(pos, s)'
  <1> DEFINE y == s.locations
             n == Len(front)
  <1>1. /\ y # <<>> /\ Last(y) = l /\ Front(y) = front /\ Closed(pos, s) = front
        /\ DOMAIN y = 1 .. n + 1 /\ Len(y) = n + 1 /\ y[n + 1] = l
        /\ \A i \in DOMAIN front : i \in 1 .. n /\ y[i] = front[i]
        /\ DOMAIN front = 1 .. n /\ n \in Nat
    BY Appended DEF Closed
  <1>2. pos \in {"open", "inner", "innerKey", "innerValue"}
    BY DEF InLocation
  <1>3. ASSUME ServerFits(pos, s) PROVE OuterFits(s, front) /\ LocationFits(pos, l)
    <2>1. /\ \A i \in DOMAIN y :
               /\ Complete(y[i], pos = "innerKey" /\ i = Len(y))
               /\ ~Faulty(y[i], LocationKey)
               /\ i = Len(y) =>
                    /\ pos = "open" => y[i].directives = <<>>
                    /\ pos \in {"innerKey", "innerValue"} => y[i].directives # <<>>
          /\ ~Repeats(PathsOf(front))
      BY <1>1, <1>3 DEF ServerFits
    <2>2. Complete(s, FALSE) /\ ~Faulty(s, ServerKey) /\ ValuesOf(s, "listen") \subseteq Port
      BY <1>2, <1>3 DEF ServerFits
    <2>3. \A i \in DOMAIN front : Complete(front[i], FALSE) /\ ~Faulty(front[i], LocationKey)
      <3> TAKE i \in DOMAIN front
      <3>1. i \in DOMAIN y /\ i # Len(y) /\ y[i] = front[i]
        BY <1>1
      <3>2. Complete(y[i], FALSE) /\ ~Faulty(y[i], LocationKey)
        BY <2>1, <3>1 DEF Complete
      <3> QED
        BY <3>1, <3>2
    <2>4. LocationFits(pos, l)
      <3> DEFINE m == n + 1
      <3>1. m \in DOMAIN y /\ m = Len(y) /\ y[m] = l
        BY <1>1
      <3> HIDE DEF m, y
      <3>2. /\ Complete(l, pos = "innerKey" /\ m = Len(y)) /\ ~Faulty(l, LocationKey)
            /\ pos = "open" => l.directives = <<>>
            /\ pos \in {"innerKey", "innerValue"} => l.directives # <<>>
        BY <2>1, <3>1
      <3>3. Complete(l, pos = "innerKey")
        BY <3>1, <3>2 DEF Complete
      <3> QED
        BY <3>2, <3>3 DEF LocationFits
    <2> QED
      BY <2>1, <2>2, <2>3, <2>4 DEF OuterFits
  <1>4. ASSUME OuterFits(s, front), LocationFits(pos, l) PROVE ServerFits(pos, s)
    <2>1. \A i \in DOMAIN y :
               /\ Complete(y[i], pos = "innerKey" /\ i = Len(y))
               /\ ~Faulty(y[i], LocationKey)
               /\ i = Len(y) =>
                    /\ pos = "open" => y[i].directives = <<>>
                    /\ pos \in {"innerKey", "innerValue"} => y[i].directives # <<>>
      <3> TAKE i \in DOMAIN y
      <3>1. CASE i = Len(y)
        <4>1. y[i] = l
          BY <1>1, <3>1
        <4>2. Complete(l, pos = "innerKey" /\ i = Len(y))
          BY <1>4, <3>1 DEF Complete, LocationFits
        <4> QED
          BY <1>4, <4>1, <4>2 DEF LocationFits
      <3>2. CASE i # Len(y)
        <4>1. i \in DOMAIN front /\ y[i] = front[i]
          BY <1>1, <3>2
        <4>2. Complete(front[i], pos = "innerKey" /\ i = Len(y))
          BY <1>4, <3>2, <4>1 DEF Complete, OuterFits
        <4> QED
          BY <1>4, <3>2, <4>1, <4>2 DEF OuterFits
      <3> QED
        BY <3>1, <3>2
    <2>2. /\ Complete(s, FALSE) /\ ~Faulty(s, ServerKey) /\ ValuesOf(s, "listen") \subseteq Port
          /\ ~Repeats(PathsOf(Closed(pos, s)))
      BY <1>1, <1>4 DEF OuterFits
    <2> QED
      BY <1>1, <1>2, <2>1, <2>2 DEF ServerFits
  <1>5. pos \notin {"path", "key", "value"}
    BY <1>2
  <1>6. ASSUME ServerFilled(s, front), Inner(pos, l)
        PROVE  KeysFit(pos, s) /\ FillingFits(pos, s) /\ ObjectsFit(pos, s)
    BY <1>1, <1>2, <1>6 DEF ServerFilled, Inner, KeysFit, FillingFits, ObjectsFit
  <1>7. ASSUME KeysFit(pos, s), FillingFits(pos, s), ObjectsFit(pos, s)
        PROVE  ServerFilled(s, front) /\ Inner(pos, l)
    BY <1>1, <1>2, <1>7 DEF ServerFilled, Inner, KeysFit, FillingFits, ObjectsFit
  <1>8. ASSUME ServerFilled(s, front)', Inner(pos, l)'
        PROVE  KeysFit(pos, s)' /\ FillingFits(pos, s)' /\ ObjectsFit(pos, s)'
    BY <1>1, <1>2, <1>8 DEF ServerFilled, Inner, KeysFit, FillingFits, ObjectsFit
  <1> QED
    BY <1>3, <1>4, <1>6, <1>7, <1>8

\* All goes on, in a location of the server.
LEMMA GoesOnInside ==
  ASSUME NEW done \in Seq(Servers), NEW s \in Servers, NEW pos \in InLocation,
         NEW front \in Seq(Locations), NEW l \in Locations,
         at' = pos, file' = Append(done, [s EXCEPT !.locations = Append(front, l)]),
         SyntaxFits', SameType', HandedOver(done), servers' = servers, server' = server,
         OuterFits(s, front), LocationFits(pos, l), ServerFilled(s, front), Inner(pos, l)'
  PROVE  Agrees'
  <1> DEFINE s2 == [s EXCEPT !.locations = Append(front, l)]
  <1>1. Append(front, l) \in Seq(Locations)
    BY Appended
  <1>2. s2 \in Servers /\ s2.directives = s.directives /\ s2.locations = Append(front, l)
    BY <1>1, OtherLocations
  <1>3. file' = Append(done, s2)
    OBVIOUS
  <1> HIDE DEF s2
  <1>4. /\ Given(s2) = Given(s) /\ \A k : ValuesOf(s2, k) = ValuesOf(s, k)
        /\ Complete(s2, FALSE) <=> Complete(s, FALSE)
        /\ Faulty(s2, ServerKey) <=> Faulty(s, ServerKey)
    BY <1>2, SameDirectives
  <1>5. OuterFits(s2, front)
    BY <1>4 DEF OuterFits
  <1>6. ServerFilled(s2, front)'
    BY <1>2, <1>4 DEF ServerFilled
  <1>7. /\ ServerFits(pos, s2)
        /\ KeysFit(pos, s2)' /\ FillingFits(pos, s2)' /\ ObjectsFit(pos, s2)'
    BY <1>2, <1>5, <1>6, InnerFits
  <1>8. pos # "file"
    BY DEF InLocation
  <1> QED
    BY <1>2, <1>3, <1>7, <1>8, GoesOn

\* What is known in a location.
LEMMA Inside ==
  ASSUME NEW done, NEW s, Within(done, at, s), at \in InLocation
  PROVE  \E front \in Seq(Locations), l \in Locations :
           /\ Front(s.locations) = front /\ Last(s.locations) = l
           /\ s.locations = Append(front, l)
           /\ OuterFits(s, front) /\ LocationFits(at, l)
           /\ ServerFilled(s, front) /\ Inner(at, l)
  <1>1. /\ s \in Servers /\ ServerFits(at, s) /\ KeysFit(at, s)
        /\ FillingFits(at, s) /\ ObjectsFit(at, s)
    BY DEF Within
  <1>2. s.locations \in Seq(Locations) /\ s.locations # <<>>
    BY <1>1, ServerType DEF ServerFits
  <1>3. PICK front \in Seq(Locations), l \in Locations :
          /\ Front(s.locations) = front /\ Last(s.locations) = l
          /\ s.locations = Append(front, l)
    BY <1>2, Parted
  <1>4. /\ OuterFits(s, front) /\ LocationFits(at, l)
        /\ ServerFilled(s, front) /\ Inner(at, l)
    BY <1>1, <1>3, InnerFits
  <1> QED
    BY <1>3, <1>4

\* The path of a location.
LEMMA PathToken ==
  ASSUME NEW t, Reads(t), kindOf(t) = "PATH", t \in Path, at = "path", at' = "open",
         file' = With([Here EXCEPT !.locations = Append(@, Block0(t))])
  PROVE  Decided
  <1>1. Leads(at, "PATH", at') /\ at # "file"
    BY DEF Leads
  <1>2. PICK done, s : /\ file = Append(done, s) /\ Front(file) = done /\ Last(file) = s
                       /\ Within(done, at, s)
    BY <1>1, Stepped, Zenon
  <1>3. /\ done \in Seq(Servers) /\ s \in Servers /\ HandedOver(done)
        /\ ServerFits(at, s) /\ KeysFit(at, s) /\ FillingFits(at, s) /\ ObjectsFit(at, s)
    BY <1>2 DEF Within
  <1>4. PICK front \in Seq(Locations) : front = s.locations
    BY <1>3, ServerType
  <1>5. PICK l \in Locations : l = Block0(t)
    <2>1. <<>> \in Seq(Directives)
      OBVIOUS
    <2>2. Block0(t) = [path |-> t, directives |-> <<>>, locations |-> <<>>]
      BY DEF Block0
    <2>3. Block0(t) \in Locations
      BY <2>1, <2>2, IsLocation
    <2> QED
      BY <2>3
  <1>6. l.directives = <<>> /\ l.path = t
    BY <1>5 DEF Block0
  <1>7. file' = Append(done, [s EXCEPT !.locations = Append(front, l)])
    BY <1>2, <1>4, <1>5 DEF Here, With
  <1>8. /\ filling = [block |-> "LOCATION", key |-> "none"]
        /\ same.block = "LOCATION" /\ same.LOCATION = {}
        /\ location = [path |-> "none", keys |-> {}]
    BY <1>3 DEF FillingFits, KeysFit, ObjectsFit, NewLocation
  <1>9. ~LaterThrows(t, "PATH")
    BY <1>8 DEF LaterThrows, SameKeyThrows, SetValueThrows
  <1>10. /\ verdict' = "reading" /\ SyntaxFits' /\ SameType
         /\ checkSameKey(t, "PATH") /\ setValue(t, "PATH")
    BY <1>1, <1>9, Stepped, Zenon
  <1>11. /\ same' = same /\ filling' = filling /\ server' = server /\ servers' = servers
         /\ location' = [path |-> t, keys |-> {}]
    BY <1>8, <1>10 DEF checkSameKey, setValue, Block
  <1>12. SameType'
    BY <1>10, <1>11 DEF SameType
  <1>13. ToSet(KeysOf(l)) = {} /\ Given(l) = {} /\ Complete(l, FALSE) /\ ~Faulty(l, LocationKey)
    BY <1>6, NothingSaid
  <1>14. Closed("path", s) = front
    BY <1>4 DEF Closed, InLocation
  <1>15. OuterFits(s, front)
    <2>1. \A i \in DOMAIN front : Complete(front[i], FALSE) /\ ~Faulty(front[i], LocationKey)
      BY <1>3, <1>4 DEF ServerFits
    <2> QED
      BY <1>3, <1>14, <2>1 DEF ServerFits, OuterFits
  <1>16. ServerFilled(s, front)
    BY <1>3, <1>14 DEF ObjectsFit, ServerFilled
  <1>17. LocationFits("open", l)
    BY <1>6, <1>13 DEF LocationFits
  <1>18. Inner("open", l)'
    BY <1>6, <1>8, <1>11, <1>13 DEF Inner
  <1>19. "open" \in InLocation
    BY DEF InLocation
  <1>20. Agrees'
    BY <1>3, <1>7, <1>10, <1>11, <1>12, <1>15, <1>16, <1>17, <1>18, <1>19, GoesOnInside
  <1> QED
    BY <1>10, <1>20 DEF Decided

\* A key of a location.
LEMMA InnerKeyToken ==
  ASSUME NEW t, Reads(t), kindOf(t) = "KEY", t \in DOMAIN Values,
         at = "inner", at' = "innerKey", file' = With(Keyed(Here, t))
  PROVE  Decided
  <1>1. Leads(at, "KEY", at') /\ at # "file" /\ at \in InLocation
    BY DEF Leads, InLocation
  <1>2. PICK done, s : /\ file = Append(done, s) /\ Front(file) = done /\ Last(file) = s
                       /\ Within(done, at, s)
    BY <1>1, Stepped, Zenon
  <1>3. done \in Seq(Servers) /\ s \in Servers /\ HandedOver(done)
    BY <1>2 DEF Within
  <1>4. PICK front \in Seq(Locations), l \in Locations :
          /\ Front(s.locations) = front /\ Last(s.locations) = l
          /\ OuterFits(s, front) /\ LocationFits(at, l)
          /\ ServerFilled(s, front) /\ Inner(at, l)
    BY <1>1, <1>2, Inside
  <1> DEFINE l2 == Keyed(l, t)
             s2 == [s EXCEPT !.locations = Append(front, l2)]
  <1>5. file' = Append(done, s2)
    BY <1>2, <1>4 DEF Here, With
  <1>6. l.directives \in Seq(Directives)
    BY LocationType
  <1>7. Append(l.directives, Directive(t)) \in Seq(Directives)
    <2>1. Directive(t) \in Directives
      BY DEF Directive, Directives
    <2> QED
      BY <1>6, <2>1, Appended
  <1>8. /\ l2 \in Locations /\ l2.path = l.path
        /\ l2.directives = Append(l.directives, Directive(t))
    BY <1>7, OtherLocationDirectives DEF Keyed
  <1> HIDE DEF l2
  <1>9. s2 \in Servers /\ s2.locations = Append(front, l2)
    BY <1>3, <1>8, OtherLocations, Appended, ZenonT(60)
  <1>10. /\ l2.directives # <<>> /\ Last(l2.directives).key = t
         /\ ToSet(KeysOf(l2)) = ToSet(KeysOf(l)) \cup {t}
         /\ Repeats(KeysOf(l2)) <=> Repeats(KeysOf(l)) \/ t \in ToSet(KeysOf(l))
         /\ Given(l2) = Given(l)
         /\ Complete(l, FALSE) => Complete(l2, TRUE)
    BY <1>6, <1>8, DirectiveAdded, ZenonT(60)
  <1>11. /\ filling = [block |-> "LOCATION", key |-> "none"]
         /\ same.block = "LOCATION" /\ same.LOCATION = ToSet(KeysOf(l))
         /\ location = [path |-> l.path, keys |-> Given(l)]
    BY <1>4 DEF Inner
  <1>12. LaterThrows(t, "KEY") <=> t \notin LocationKey \/ t \in ToSet(KeysOf(l))
    BY <1>11 DEF LaterThrows, SameKeyThrows, SetValueThrows, Keys
  <1>13. CASE LaterThrows(t, "KEY")
    <2>1. verdict' = "refused"
      BY <1>1, <1>13, Stepped, Zenon
    <2>2. Faulty(l2, LocationKey)
      BY <1>10, <1>12, <1>13 DEF Faulty
    <2>3. l2 \in ToSet(s2.locations)
      BY <1>8, <1>9, Appended
    <2> HIDE DEF s2
    <2>4. FaultyFile'
      BY <1>3, <1>5, <1>9, <2>2, <2>3, IsFaulty DEF FaultyServer
    <2> QED
      BY <2>1, <2>4 DEF Decided
  <1>14. CASE ~LaterThrows(t, "KEY")
    <2>1. /\ verdict' = "reading" /\ SyntaxFits' /\ SameType
          /\ checkSameKey(t, "KEY") /\ setValue(t, "KEY")
      BY <1>1, <1>14, Stepped, Zenon
    <2>2. /\ same' = [same EXCEPT !.LOCATION = @ \cup {t}]
          /\ filling' = [block |-> "LOCATION", key |-> t]
          /\ server' = server /\ location' = location /\ servers' = servers
      BY <1>11, <2>1 DEF checkSameKey, setValue, Block
    <2>3. SameType' /\ same'.block = "LOCATION" /\ same'.LOCATION = ToSet(KeysOf(l2))
      BY <1>10, <1>11, <1>12, <1>14, <2>1, <2>2 DEF SameType, Block
    <2>4. Inner("innerKey", l2)'
      BY <1>8, <1>10, <1>11, <2>2, <2>3 DEF Inner
    <2>5. LocationFits("innerKey", l2)
      <3>1. Complete(l, FALSE) /\ ~Faulty(l, LocationKey)
        BY <1>4 DEF LocationFits
      <3>2. ~Faulty(l2, LocationKey)
        BY <1>10, <1>12, <1>14, <3>1 DEF Faulty
      <3> QED
        BY <1>10, <3>1, <3>2 DEF LocationFits
    <2>6. "innerKey" \in InLocation
      BY DEF InLocation
    <2>7. Agrees'
      BY <1>3, <1>4, <1>5, <1>8, <2>1, <2>2, <2>3, <2>4, <2>5, <2>6, GoesOnInside
    <2> QED
      BY <2>1, <2>7 DEF Decided
  <1> QED
    BY <1>13, <1>14

\* A value of a key of a location.
LEMMA InnerValueToken ==
  ASSUME NEW t \in Word, Reads(t), kindOf(t) = "VALUE", at \in {"innerKey", "innerValue"},
         at' = "innerValue", file' = With([Here EXCEPT !.directives = Valued(Here, t)])
  PROVE  Decided
  <1>1. Leads(at, "VALUE", at') /\ at # "file" /\ at \in InLocation
    BY DEF Leads, InLocation
  <1>2. PICK done, s : /\ file = Append(done, s) /\ Front(file) = done /\ Last(file) = s
                       /\ Within(done, at, s)
    BY <1>1, Stepped, Zenon
  <1>3. done \in Seq(Servers) /\ s \in Servers /\ HandedOver(done)
    BY <1>2 DEF Within
  <1>4. PICK front \in Seq(Locations), l \in Locations :
          /\ Front(s.locations) = front /\ Last(s.locations) = l
          /\ OuterFits(s, front) /\ LocationFits(at, l)
          /\ ServerFilled(s, front) /\ Inner(at, l)
    BY <1>1, <1>2, Inside
  <1>5. PICK key : key = Last(l.directives).key
    OBVIOUS
  <1> DEFINE l2 == [l EXCEPT !.directives = Valued(l, t)]
  <1>6. file' = Append(done, [s EXCEPT !.locations = Append(front, l2)])
    BY <1>2, <1>4 DEF Here, With
  <1>7. l.directives \in Seq(Directives) /\ l.directives # <<>>
    BY <1>4, LocationType DEF LocationFits
  <1>8. Valued(l, t) \in Seq(Directives)
    BY <1>7, ValuedType
  <1>9. l2 \in Locations /\ l2.path = l.path /\ l2.directives = Valued(l, t)
    BY <1>8, OtherLocationDirectives
  <1> HIDE DEF l2
  <1>10. /\ l2.directives # <<>> /\ Last(l2.directives).key = key /\ key \in DOMAIN Values
         /\ KeysOf(l2) = KeysOf(l) /\ Given(l2) = Given(l) \cup {key}
         /\ Complete(l, TRUE) => Complete(l2, FALSE)
    <2>1. ValueGiven(l, l2, t, key)
      BY <1>5, <1>7, <1>9, ValueAdded
    <2> QED
      BY <2>1 DEF ValueGiven
  <1>11. /\ filling = [block |-> "LOCATION", key |-> key]
         /\ same.block = "LOCATION" /\ same.LOCATION = ToSet(KeysOf(l))
         /\ location = [path |-> l.path, keys |-> Given(l)]
    BY <1>4, <1>5 DEF Inner
  <1>12. ~Faulty(l, LocationKey) /\ ~Repeats(KeysOf(l)) /\ ToSet(KeysOf(l)) \subseteq LocationKey
    BY <1>4 DEF LocationFits, Faulty
  <1>13. key \in LocationKey /\ key # "none" /\ key # "listen"
    <2>1. key \in ToSet(KeysOf(l))
      BY <1>5, <1>7, LastKey
    <2> QED
      BY <1>10, <1>12, <2>1, GrammarAssumption, KeyAssumption
  <1>14. ~LaterThrows(t, "VALUE")
    BY <1>11, <1>13 DEF LaterThrows, SameKeyThrows, SetValueThrows
  <1>15. /\ verdict' = "reading" /\ SyntaxFits' /\ SameType
         /\ checkSameKey(t, "VALUE") /\ setValue(t, "VALUE")
    BY <1>1, <1>14, Stepped, Zenon
  <1>16. /\ same' = same /\ filling' = filling /\ server' = server /\ servers' = servers
         /\ setLocationValue
    BY <1>11, <1>13, <1>15 DEF checkSameKey, setValue, readValues, setObject, Block
  <1>17. location' = [path |-> l2.path, keys |-> Given(l2)]
    BY <1>9, <1>10, <1>11, <1>13, <1>16, ZenonT(60) DEF setLocationValue
  <1>18. SameType'
    BY <1>15, <1>16 DEF SameType
  <1>19. Inner("innerValue", l2)'
    BY <1>10, <1>11, <1>16, <1>17 DEF Inner
  <1>20. LocationFits("innerValue", l2)
    <2>1. Complete(l, TRUE)
      BY <1>4 DEF LocationFits, Complete
    <2>2. ~Faulty(l2, LocationKey)
      BY <1>10, <1>12 DEF Faulty
    <2> QED
      BY <1>10, <2>1, <2>2 DEF LocationFits
  <1>21. "innerValue" \in InLocation
    BY DEF InLocation
  <1>22. Agrees'
    BY <1>3, <1>4, <1>6, <1>9, <1>15, <1>16, <1>18, <1>19, <1>20, <1>21, GoesOnInside
  <1> QED
    BY <1>15, <1>22 DEF Decided

\* The paths of a location more.
LEMMA PathsAppended ==
  ASSUME NEW front \in Seq(Locations), NEW l \in Locations
  PROVE  /\ PathsOf(front) \in Seq(Path)
         /\ PathsOf(Append(front, l)) = Append(PathsOf(front), l.path)
         /\ \A p : p \in ToSet(PathsOf(front)) <=> \E x \in ToSet(front) : x.path = p
  <1> DEFINE y == Append(front, l)
             n == Len(front)
             p == PathsOf(front)
             r == Append(p, l.path)
             z == PathsOf(y)
  <1>1. /\ DOMAIN front = 1 .. n /\ n \in Nat
        /\ y \in Seq(Locations) /\ DOMAIN y = 1 .. n + 1 /\ y[n + 1] = l
        /\ \A i \in DOMAIN front : y[i] = front[i]
    BY Appended
  <1>2. \A i \in DOMAIN front : front[i].path \in Path
    <2> TAKE i \in DOMAIN front
    <2>1. front[i] \in Locations
      BY ElementOfSeq
    <2> QED
      BY <2>1, LocationType
  <1>3. l.path \in Path
    BY LocationType
  <1> HIDE DEF y
  <1>4. p = [i \in 1 .. n |-> front[i].path] /\ p \in Seq(Path) /\ Len(p) = n
    <2>1. p = [i \in 1 .. n |-> front[i].path]
      BY <1>1 DEF PathsOf
    <2> HIDE DEF p, n
    <2> QED
      BY <1>1, <1>2, <2>1
  <1>5. z = [i \in 1 .. n + 1 |-> y[i].path]
    BY <1>1 DEF PathsOf
  <1> HIDE DEF p, z, n
  <1>6. z \in Seq(Path) /\ Len(z) = n + 1
    <2>1. \A i \in 1 .. n + 1 : y[i].path \in Path
      <3> TAKE i \in 1 .. n + 1
      <3>1. CASE i \in 1 .. n
        BY <1>1, <1>2, <3>1
      <3>2. CASE i = n + 1
        BY <1>1, <1>3, <3>2
      <3> QED
        BY <1>1, <3>1, <3>2
    <2> QED
      BY <1>1, <1>5, <2>1
  <1>7. /\ r \in Seq(Path) /\ Len(r) = n + 1 /\ r[n + 1] = l.path
        /\ \A i \in DOMAIN p : r[i] = p[i]
        /\ DOMAIN p = 1 .. n
    BY <1>1, <1>3, <1>4, Appended
  <1> HIDE DEF r
  <1>8. \A i \in 1 .. Len(z) : z[i] = r[i]
    <2> TAKE i \in 1 .. Len(z)
    <2>1. i \in 1 .. n + 1 /\ z[i] = y[i].path
      BY <1>5, <1>6
    <2>2. CASE i = n + 1
      BY <1>1, <1>7, <2>1, <2>2
    <2>3. CASE i # n + 1
      <3>1. i \in 1 .. n
        BY <1>1, <2>1, <2>3
      <3> QED
        BY <1>1, <1>4, <1>7, <2>1, <3>1
    <2> QED
      BY <2>2, <2>3
  <1>9. z = r
    BY <1>6, <1>7, <1>8, SeqEqual
  <1>10. \A q : q \in ToSet(p) <=> \E x \in ToSet(front) : x.path = q
    BY <1>1, <1>4 DEF ToSet
  <1> QED
    BY <1>4, <1>9, <1>10 DEF y, z, r, p

\* "}" of a location.
LEMMA CloseLocationToken ==
  ASSUME NEW t, Reads(t), kindOf(t) = "CLOSE_BRACKET", file' = file,
         at = "inner", at' = "block"
  PROVE  Decided
  <1>1. Leads(at, "CLOSE_BRACKET", at') /\ at # "file" /\ at \in InLocation
    BY DEF Leads, InLocation
  <1>2. PICK done, s : /\ file = Append(done, s) /\ Front(file) = done /\ Last(file) = s
                       /\ Within(done, at, s)
    BY <1>1, Stepped, Zenon
  <1>3. done \in Seq(Servers) /\ s \in Servers /\ HandedOver(done) /\ file' = Append(done, s)
    BY <1>2 DEF Within
  <1>4. PICK front \in Seq(Locations), l \in Locations :
          /\ s.locations = Append(front, l)
          /\ OuterFits(s, front) /\ LocationFits(at, l)
          /\ ServerFilled(s, front) /\ Inner(at, l)
    BY <1>1, <1>2, Inside
  <1>5. l.directives \in Seq(Directives) /\ Complete(l, FALSE) /\ ~Faulty(l, LocationKey)
    BY <1>4, LocationType DEF LocationFits
  <1>6. filling = [block |-> "LOCATION", key |-> "none"] /\ location = LocationMeant(l)
    <2>1. Given(l) = ToSet(KeysOf(l))
      BY <1>5, AllGiven
    <2> QED
      BY <1>4, <2>1 DEF Inner, LocationMeant
  <1>7. Repeats(PathsOf(s.locations)) <=> \E x \in ToSet(front) : x.path = l.path
    <2>1. /\ PathsOf(front) \in Seq(Path) /\ l.path \in Path
          /\ PathsOf(Append(front, l)) = Append(PathsOf(front), l.path)
          /\ l.path \in ToSet(PathsOf(front)) <=> \E x \in ToSet(front) : x.path = l.path
      BY PathsAppended, LocationType
    <2>2. ~Repeats(PathsOf(front))
      BY <1>4 DEF OuterFits
    <2> QED
      BY <1>4, <2>1, <2>2, RepeatsAppended
  <1>8. LaterThrows(t, "CLOSE_BRACKET") <=> \E x \in ToSet(front) : x.path = l.path
    <2>1. LaterThrows(t, "CLOSE_BRACKET") <=> KnownPath
      BY <1>6 DEF LaterThrows, SameKeyThrows, SetValueThrows
    <2>2. server.locations = {LocationMeant(x) : x \in ToSet(front)}
      BY <1>4 DEF ServerFilled
    <2>3. location.path = l.path /\ \A x : LocationMeant(x).path = x.path
      BY <1>6 DEF LocationMeant
    <2>4. KnownPath <=> \E x \in ToSet(front) : LocationMeant(x).path = l.path
      BY <2>2, <2>3 DEF KnownPath
    <2> QED
      BY <2>1, <2>3, <2>4
  <1>9. CASE LaterThrows(t, "CLOSE_BRACKET")
    <2>1. verdict' = "refused"
      BY <1>1, <1>9, Stepped, Zenon
    <2>2. FaultyServer(s)
      BY <1>7, <1>8, <1>9 DEF FaultyServer, PathsOf
    <2>3. FaultyFile'
      BY <1>3, <2>2, IsFaulty
    <2> QED
      BY <2>1, <2>3 DEF Decided
  <1>10. CASE ~LaterThrows(t, "CLOSE_BRACKET")
    <2>1. /\ verdict' = "reading" /\ SyntaxFits' /\ SameType
          /\ checkSameKey(t, "CLOSE_BRACKET") /\ setValue(t, "CLOSE_BRACKET")
      BY <1>1, <1>10, Stepped, Zenon
    <2>2. same' = same /\ closeBlock
      BY <1>6, <2>1 DEF checkSameKey, setValue, Block
    <2>3. /\ server' = [server EXCEPT !.locations = @ \cup {location}]
          /\ filling' = [block |-> "SERVER", key |-> "none"]
          /\ servers' = servers
      BY <1>6, <2>2 DEF closeBlock
    <2>4. SameType'
      BY <2>1, <2>2 DEF SameType
    <2>5. Closed("block", s) = s.locations
      BY DEF Closed, InLocation
    <2>6. /\ s.locations # <<>> /\ ToSet(s.locations) = ToSet(front) \cup {l}
          /\ \A i \in DOMAIN s.locations :
               \/ s.locations[i] = l
               \/ i \in DOMAIN front /\ s.locations[i] = front[i]
      <3>1. /\ DOMAIN s.locations = 1 .. Len(front) + 1 /\ s.locations[Len(front) + 1] = l
            /\ \A i \in DOMAIN front : s.locations[i] = front[i]
            /\ DOMAIN front = 1 .. Len(front) /\ Len(front) \in Nat
            /\ s.locations # <<>> /\ ToSet(s.locations) = ToSet(front) \cup {l}
        BY <1>4, Appended
      <3> QED
        BY <3>1
    <2>7. ServerFits("block", s)
      <3>1. /\ Complete(s, FALSE) /\ ~Faulty(s, ServerKey)
            /\ ValuesOf(s, "listen") \subseteq Port
            /\ \A i \in DOMAIN front :
                 Complete(front[i], FALSE) /\ ~Faulty(front[i], LocationKey)
        BY <1>4 DEF OuterFits
      <3>2. \A i \in DOMAIN s.locations :
              Complete(s.locations[i], FALSE) /\ ~Faulty(s.locations[i], LocationKey)
        BY <1>5, <2>6, <3>1
      <3>3. ~Repeats(PathsOf(s.locations))
        BY <1>7, <1>8, <1>10
      <3> QED
        BY <1>3, <2>5, <3>1, <3>2, <3>3 DEF ServerFits, InLocation
    <2>8. KeysFit("block", s)'
      BY <2>6 DEF KeysFit, InLocation
    <2>9. FillingFits("block", s)'
      BY <2>3 DEF FillingFits, InLocation
    <2>10. ObjectsFit("block", s)'
      <3> DEFINE n == ValuesOf(s, "server_name")
                 g == Given(s) \ {"listen", "server_name"}
                 m == {LocationMeant(x) : x \in ToSet(front)}
                 m2 == {LocationMeant(x) : x \in ToSet(s.locations)}
      <3>1. /\ server = [listen |-> server.listen, names |-> n, keys |-> g, locations |-> m]
            /\ \A d \in ToSet(s.directives) :
                 d.key = "listen" /\ d.values # <<>> => server.listen = Last(d.values)
        BY <1>4 DEF ServerFilled
      <3>2. m2 = m \cup {location}
        BY <1>6, <2>6
      <3> HIDE DEF n, g, m, m2
      <3>3. server' = [listen |-> server.listen, names |-> n, keys |-> g, locations |-> m2]
        <4>1. PICK p : p = server.listen
          OBVIOUS
        <4>2. server = [listen |-> p, names |-> n, keys |-> g, locations |-> m]
          BY <3>1, <4>1
        <4>3. server' = [server EXCEPT !.locations = m2]
          BY <2>3, <3>2, <4>2
        <4>4. server' = [listen |-> p, names |-> n, keys |-> g, locations |-> m2]
          BY <4>2, <4>3
        <4> QED
          BY <4>1, <4>4
      <3>4. /\ server' = [listen |-> server'.listen, names |-> n, keys |-> g, locations |-> m2]
            /\ \A d \in ToSet(s.directives) :
                 d.key = "listen" /\ d.values # <<>> => server'.listen = Last(d.values)
        BY <3>1, <3>3
      <3>5. {LocationMeant(x) : x \in ToSet(Closed("block", s))} = m2
        BY <2>5 DEF m2
      <3>6. n = ValuesOf(s, "server_name") /\ g = Given(s) \ {"listen", "server_name"}
        BY DEF n, g
      <3> QED
        BY <3>4, <3>5, <3>6 DEF ObjectsFit, InLocation
    <2>11. Agrees'
      BY <1>3, <2>1, <2>3, <2>4, <2>7, <2>8, <2>9, <2>10, GoesOn
    <2> QED
      BY <2>1, <2>11 DEF Decided
  <1> QED
    BY <1>9, <1>10

\* A server that may end is what setValue's object says, and nothing is wrong with it.
LEMMA ServerMeant ==
  ASSUME NEW s \in Servers, ServerFits("block", s), ObjectsFit("block", s), Listens(s)
  PROVE  server = Meaning(s) /\ ~FaultyServer(s)
  <1>1. s.directives \in Seq(Directives) /\ s.locations \in Seq(Locations)
    BY ServerType
  <1>2. /\ Complete(s, FALSE) /\ ~Faulty(s, ServerKey) /\ ValuesOf(s, "listen") \subseteq Port
        /\ \A i \in DOMAIN s.locations : ~Faulty(s.locations[i], LocationKey)
        /\ ~Repeats(PathsOf(s.locations))
    BY DEF ServerFits, Closed, InLocation
  <1>3. Given(s) = ToSet(KeysOf(s))
    BY <1>1, <1>2, AllGiven
  <1>4. PICK d0 : d0 = CHOOSE d \in ToSet(s.directives) : d.key = "listen"
    OBVIOUS
  <1>5. d0 \in ToSet(s.directives) /\ d0.key = "listen"
    BY <1>4 DEF Listens
  <1>6. d0.values # <<>>
    BY <1>2, <1>5 DEF Complete, ToSet
  <1>7. server.listen = Last(d0.values)
    BY <1>5, <1>6 DEF ObjectsFit
  <1>8. server = Meaning(s)
    <2>1. Closed("block", s) = s.locations
      BY DEF Closed, InLocation
    <2>2. {LocationMeant(l) : l \in ToSet(Closed("block", s))}
            = {[path |-> l.path, keys |-> ToSet(KeysOf(l))] : l \in ToSet(s.locations)}
      BY <2>1 DEF LocationMeant
    <2>3. Meaning(s) = [listen |-> Last(d0.values), names |-> ValuesOf(s, "server_name"),
                        keys |-> ToSet(KeysOf(s)) \ {"listen", "server_name"},
                        locations |-> {[path |-> l.path, keys |-> ToSet(KeysOf(l))] :
                                         l \in ToSet(s.locations)}]
      BY <1>4 DEF Meaning
    <2>4. server = [listen |-> server.listen, names |-> ValuesOf(s, "server_name"),
                    keys |-> Given(s) \ {"listen", "server_name"},
                    locations |-> {LocationMeant(l) : l \in ToSet(Closed("block", s))}]
      BY DEF ObjectsFit
    <2> QED
      BY <1>3, <1>7, <2>2, <2>3, <2>4
  <1>9. ~FaultyServer(s)
    <2>1. \A l \in ToSet(s.locations) : ~Faulty(l, LocationKey)
      BY <1>2 DEF ToSet
    <2>2. ~Repeats([i \in DOMAIN s.locations |-> s.locations[i].path])
      BY <1>2 DEF PathsOf
    <2> QED
      BY <1>2, <2>1, <2>2 DEF FaultyServer
  <1> QED
    BY <1>8, <1>9

\* "}" of a server.
LEMMA CloseServerToken ==
  ASSUME NEW t, Reads(t), kindOf(t) = "CLOSE_BRACKET", file' = file,
         at = "block", at' = "file", Listens(Here)
  PROVE  Decided
  <1>1. Leads(at, "CLOSE_BRACKET", at') /\ at # "file"
    BY DEF Leads
  <1>2. PICK done, s : /\ file = Append(done, s) /\ Front(file) = done /\ Last(file) = s
                       /\ Within(done, at, s)
    BY <1>1, Stepped, Zenon
  <1>3. /\ done \in Seq(Servers) /\ s \in Servers /\ HandedOver(done)
        /\ ServerFits(at, s) /\ FillingFits(at, s) /\ ObjectsFit(at, s)
    BY <1>2 DEF Within
  <1>4. server = Meaning(s) /\ ~FaultyServer(s)
    BY <1>2, <1>3, ServerMeant DEF Here
  <1>5. filling = [block |-> "SERVER", key |-> "none"]
    BY <1>3 DEF FillingFits, InLocation
  <1> DEFINE n == Len(done)
  <1>6. /\ file \in Seq(Servers) /\ DOMAIN file = 1 .. n + 1 /\ file[n + 1] = s
        /\ \A i \in DOMAIN done : i \in 1 .. n /\ file[i] = done[i]
        /\ DOMAIN done = 1 .. n /\ n \in Nat
    BY <1>2, <1>3, Appended
  <1>7. /\ servers = [i \in 1 .. n |-> Meaning(done[i])]
        /\ \A i \in 1 .. n : ~FaultyServer(done[i])
        /\ \A i, j \in 1 .. n :
             i < j => \/ Meaning(done[i]).listen # Meaning(done[j]).listen
                      \/ Meaning(done[i]).names \cap Meaning(done[j]).names = {}
    BY <1>3, <1>6 DEF HandedOver
  <1> HIDE DEF n
  <1>8. LaterThrows(t, "CLOSE_BRACKET") <=>
          \E i \in 1 .. n : /\ Meaning(done[i]).listen = Meaning(s).listen
                            /\ Meaning(done[i]).names \cap Meaning(s).names # {}
    <2>1. LaterThrows(t, "CLOSE_BRACKET") <=> Duplicate
      BY <1>5 DEF LaterThrows, SameKeyThrows, SetValueThrows
    <2>2. DOMAIN servers = 1 .. n /\ \A i \in 1 .. n : servers[i] = Meaning(done[i])
      BY <1>7
    <2>3. Duplicate <=> \E i \in DOMAIN servers : /\ servers[i].listen = server.listen
                                                  /\ servers[i].names \cap server.names # {}
      BY DEF Duplicate, ToSet
    <2> QED
      BY <1>4, <2>1, <2>2, <2>3
  <1>9. CASE LaterThrows(t, "CLOSE_BRACKET")
    <2>1. verdict' = "refused"
      BY <1>1, <1>9, Stepped, Zenon
    <2>2. PICK i \in 1 .. n : /\ Meaning(done[i]).listen = Meaning(s).listen
                              /\ Meaning(done[i]).names \cap Meaning(s).names # {}
      BY <1>8, <1>9
    <2>3. /\ i \in DOMAIN file' /\ n + 1 \in DOMAIN file' /\ i < n + 1
          /\ file'[i] = done[i] /\ file'[n + 1] = s
      BY <1>6
    <2>4. FaultyFile'
      BY <2>2, <2>3 DEF FaultyFile
    <2> QED
      BY <2>1, <2>4 DEF Decided
  <1>10. CASE ~LaterThrows(t, "CLOSE_BRACKET")
    <2>1. /\ verdict' = "reading" /\ SyntaxFits' /\ SameType
          /\ checkSameKey(t, "CLOSE_BRACKET") /\ setValue(t, "CLOSE_BRACKET")
      BY <1>1, <1>10, Stepped, Zenon
    <2>2. same' = same /\ closeBlock
      BY <1>5, <2>1 DEF checkSameKey, setValue, Block
    <2>3. filling' = filling /\ servers' = Append(servers, Meaning(s))
      BY <1>4, <1>5, <2>2 DEF closeBlock
    <2>4. SameType'
      BY <2>1, <2>2 DEF SameType
    <2>5. servers' = [i \in DOMAIN file |-> Meaning(file[i])]
      <3>1. PICK S : S = {Meaning(x) : x \in Servers}
        OBVIOUS
      <3>2. \A i \in DOMAIN file : file[i] \in Servers
        BY <1>6, ElementOfSeq
      <3> DEFINE m == [i \in 1 .. n + 1 |-> Meaning(file[i])]
                 m0 == Meaning(s)
      <3>3. \A i \in 1 .. n : servers[i] = Meaning(file[i]) /\ servers[i] \in S
        BY <1>6, <1>7, <3>1, <3>2
      <3>4. servers \in Seq(S) /\ Len(servers) = n
        <4>1. servers \in [1 .. n -> S]
          BY <1>7, <3>3
        <4> QED
          BY <1>6, <4>1
      <3>5. m0 \in S
        BY <1>3, <3>1
      <3> HIDE DEF m0
      <3>6. /\ Append(servers, m0) \in Seq(S) /\ Len(Append(servers, m0)) = n + 1
            /\ Append(servers, m0)[n + 1] = m0
            /\ \A i \in DOMAIN servers : Append(servers, m0)[i] = servers[i]
        BY <3>4, <3>5, Appended
      <3>7. m \in Seq(S) /\ Len(m) = n + 1
        <4>1. \A i \in 1 .. n + 1 : Meaning(file[i]) \in S
          BY <1>6, <3>1, <3>2
        <4>2. m \in [1 .. n + 1 -> S]
          BY <4>1
        <4> HIDE DEF m
        <4> QED
          BY <1>6, <4>2
      <3>8. \A i \in 1 .. n + 1 : Append(servers, m0)[i] = m[i]
        <4> TAKE i \in 1 .. n + 1
        <4>1. CASE i = n + 1
          BY <1>6, <3>6, <4>1 DEF m0
        <4>2. CASE i # n + 1
          <5>1. i \in 1 .. n
            BY <1>6, <4>2
          <5>2. i \in DOMAIN servers
            BY <1>7, <5>1
          <5> QED
            BY <3>3, <3>6, <5>1, <5>2
        <4> QED
          BY <4>1, <4>2
      <3> HIDE DEF m
      <3>9. Append(servers, m0) = m
        BY <3>6, <3>7, <3>8, SeqEqual
      <3> QED
        BY <1>6, <2>3, <3>9 DEF m, m0
    <2>6. \A i \in DOMAIN file : ~FaultyServer(file[i])
      <3> TAKE i \in DOMAIN file
      <3>1. CASE i = n + 1
        BY <1>4, <1>6, <3>1
      <3>2. CASE i # n + 1
        <4>1. i \in 1 .. n /\ i \in DOMAIN done
          BY <1>6, <3>2
        <4> QED
          BY <1>6, <1>7, <4>1
      <3> QED
        BY <3>1, <3>2
    <2>7. \A i, j \in DOMAIN file :
            i < j => \/ Meaning(file[i]).listen # Meaning(file[j]).listen
                     \/ Meaning(file[i]).names \cap Meaning(file[j]).names = {}
      <3> TAKE i, j \in DOMAIN file
      <3> HAVE i < j
      <3>1. i \in 1 .. n /\ file[i] = done[i]
        BY <1>6
      <3>2. CASE j = n + 1
        BY <1>6, <1>8, <1>10, <3>1, <3>2
      <3>3. CASE j # n + 1
        <4>1. j \in 1 .. n /\ file[j] = done[j]
          BY <1>6, <3>3
        <4> QED
          BY <1>7, <3>1, <4>1
      <3> QED
        BY <3>2, <3>3
    <2>8. HandedOver(file)'
      BY <1>6, <2>5, <2>6, <2>7 DEF HandedOver
    <2>9. Agrees'
      BY <1>5, <2>1, <2>3, <2>4, <2>8 DEF Agrees, SameType
    <2> QED
      BY <2>1, <2>9 DEF Decided
  <1> QED
    BY <1>9, <1>10

-----------------------------------------------------------------------------
\* The automaton tells the kind of every token that follows the grammar.
LEMMA KindIs ==
  ASSUME SyntaxFits, NEW t
  PROVE  /\ t = "server" => kindOf(t) = "SERVER"
         /\ t = "}" => kindOf(t) = "CLOSE_BRACKET"
         /\ at \in {"server", "open"} /\ t = "{" => kindOf(t) = "OPEN_BRACKET"
         /\ at \in {"value", "innerValue"} /\ t = ";" => kindOf(t) = "SEMICOLON"
         /\ at = "block" /\ t = "location" => kindOf(t) = "LOCATION"
         /\ at \in {"block", "inner"} /\ t \in Word => kindOf(t) = "KEY"
         /\ at = "path" /\ t \in Word => kindOf(t) = "PATH"
         /\ at \in {"key", "value", "innerKey", "innerValue"} /\ t \in Word =>
              kindOf(t) = "VALUE"
  <1>1. /\ at = "server" => tokenState = "SERVER"
        /\ at = "open" => tokenState = "PATH"
        /\ at = "path" => tokenState = "LOCATION"
        /\ at \in {"block", "inner"} => tokenState = "KEY"
        /\ at \in {"key", "value", "innerKey", "innerValue"} => tokenState = "VALUE"
    BY DEF SyntaxFits, Automaton
  <1>2. t \in Word =>
          t # "server" /\ t # "location" /\ t # "{" /\ t # "}" /\ t # ";"
    BY WordAssumption, Zenon DEF Punctuation
  <1>3. t = "server" => kindOf(t) = "SERVER"
    BY Zenon DEF kindOf
  <1>4. t = "}" => kindOf(t) = "CLOSE_BRACKET"
    BY Zenon DEF kindOf
  <1>5. at \in {"server", "open"} /\ t = "{" => kindOf(t) = "OPEN_BRACKET"
    BY <1>1, Zenon DEF kindOf
  <1>6. at \in {"value", "innerValue"} /\ t = ";" => kindOf(t) = "SEMICOLON"
    BY <1>1, Zenon DEF kindOf
  <1>7. at = "block" /\ t = "location" => kindOf(t) = "LOCATION"
    BY <1>1, Zenon DEF kindOf
  <1>8. at \in {"block", "inner"} /\ t \in Word => kindOf(t) = "KEY"
    BY <1>1, <1>2, Zenon DEF kindOf
  <1>9. at = "path" /\ t \in Word => kindOf(t) = "PATH"
    BY <1>1, <1>2, Zenon DEF kindOf
  <1>10. at \in {"key", "value", "innerKey", "innerValue"} /\ t \in Word =>
           kindOf(t) = "VALUE"
    BY <1>1, <1>2, Zenon DEF kindOf
  <1> QED
    BY <1>3, <1>4, <1>5, <1>6, <1>7, <1>8, <1>9, <1>10, Zenon

\* The blocks described, and their keys.
LEMMA LastTold ==
  ASSUME Agrees, at \in {"key", "value", "innerKey", "innerValue"}
  PROVE  Last(Here.directives).key \in DOMAIN Values
  <1>1. PICK done, s : Last(file) = s /\ Within(done, at, s)
    BY Described
  <1>2. s \in Servers /\ ServerFits(at, s)
    BY <1>1 DEF Within
  <1>3. CASE at \in {"key", "value"}
    <2>1. s.directives \in Seq(Directives) /\ s.directives # <<>> /\ Here = s
      BY <1>1, <1>2, <1>3, ServerType DEF ServerFits, Here
    <2>2. Last(s.directives) \in Directives
      BY <2>1, Parted
    <2> QED
      BY <2>1, <2>2 DEF Directives
  <1>4. CASE at \in {"innerKey", "innerValue"}
    <2>1. at \in InLocation
      BY <1>4 DEF InLocation
    <2>2. PICK l \in Locations : Last(s.locations) = l /\ LocationFits(at, l)
      BY <1>1, <2>1, Inside
    <2>3. l.directives \in Seq(Directives) /\ l.directives # <<>> /\ Here = l
      BY <1>1, <1>4, <2>2, LocationType DEF LocationFits, Here
    <2>4. Last(l.directives) \in Directives
      BY <2>3, Parted
    <2> QED
      BY <2>3, <2>4 DEF Directives
  <1> QED
    BY <1>3, <1>4

\* Every token that follows the grammar.
LEMMA DescribeInv ==
  ASSUME NEW t, Reads(t), Describe(t), ~Interleaved
  PROVE  Decided /\ at' \in Position
  <1>1. SyntaxFits /\ Agrees
    BY Zenon DEF Reads, Agrees
  <1>2. /\ DOMAIN Values \subseteq Word /\ Path \subseteq Word
        /\ \A k \in DOMAIN Values : Values[k] \subseteq Word
    BY GrammarAssumption
  <1>3. ASSUME at = "file", t = "server",
               file' = Append(file, Block0("none")), at' = "server"
        PROVE  Decided
    BY <1>1, <1>3, KindIs, ServerToken, Zenon
  <1>4. ASSUME at = "server", t = "{", Goto("block")
        PROVE  Decided
    <2>1. kindOf(t) = "OPEN_BRACKET" /\ file' = file /\ at' = "block"
      BY <1>1, <1>4, KindIs, Zenon DEF Goto
    <2> QED
      BY <1>4, <2>1, OpenToken, Zenon
  <1>5. ASSUME at \in {"block", "inner"}, t \in DOMAIN Values,
               at = "block" /\ ~Interleaved => Here.locations = <<>>,
               file' = With([Here EXCEPT !.directives = Append(@, Directive(t))]),
               at' = IF at = "block" THEN "key" ELSE "innerKey"
        PROVE  Decided
    <2>1. kindOf(t) = "KEY"
      BY <1>1, <1>2, <1>5, KindIs, Zenon
    <2>2. file' = With(Keyed(Here, t))
      BY <1>5, Zenon DEF Keyed
    <2>3. CASE at = "block"
      BY <1>5, <2>1, <2>2, <2>3, KeyToken, Zenon
    <2>4. CASE at = "inner"
      <3>1. at' = "innerKey"
        BY <1>5, <2>4, Zenon
      <3> QED
        BY <1>5, <2>1, <2>2, <2>4, <3>1, InnerKeyToken, Zenon
    <2> QED
      BY <1>5, <2>3, <2>4, Zenon
  <1>6. ASSUME at \in {"key", "value", "innerKey", "innerValue"},
               LET d == Last(Here.directives)
               IN  /\ t \in Values[d.key]
                   /\ file' = With([Here EXCEPT
                        !.directives = Append(Front(@), [d EXCEPT !.values = Append(@, t)])]),
               at' = IF at \in {"key", "value"} THEN "value" ELSE "innerValue"
        PROVE  Decided
    <2>1. t \in Word
      <3>1. Last(Here.directives).key \in DOMAIN Values
        BY <1>1, <1>6, LastTold, Zenon
      <3> QED
        BY <1>2, <1>6, <3>1, Zenon
    <2>2. kindOf(t) = "VALUE"
      BY <1>1, <1>6, <2>1, KindIs, Zenon
    <2>3. file' = With([Here EXCEPT !.directives = Valued(Here, t)])
      BY <1>6, Zenon DEF Valued
    <2>4. CASE at \in {"key", "value"}
      <3>1. at' = "value"
        BY <1>6, <2>4, Zenon
      <3> QED
        BY <2>1, <2>2, <2>3, <2>4, <3>1, ValueToken, Zenon
    <2>5. CASE at \in {"innerKey", "innerValue"}
      <3>1. at' = "innerValue"
        BY <1>6, <2>5, Zenon
      <3> QED
        BY <2>1, <2>2, <2>3, <2>5, <3>1, InnerValueToken, Zenon
    <2> QED
      BY <1>6, <2>4, <2>5, Zenon
  <1>7. ASSUME at = "value", t = ";", Goto("block")
        PROVE  Decided
    <2>1. kindOf(t) = "SEMICOLON" /\ file' = file /\ at' = "block"
      BY <1>1, <1>7, KindIs, Zenon DEF Goto
    <2> QED
      BY <1>7, <2>1, SemicolonToken, Zenon
  <1>8. ASSUME at = "innerValue", t = ";", Goto("inner")
        PROVE  Decided
    <2>1. kindOf(t) = "SEMICOLON" /\ file' = file /\ at' = "inner"
      BY <1>1, <1>8, KindIs, Zenon DEF Goto
    <2> QED
      BY <1>8, <2>1, SemicolonToken, Zenon
  <1>9. ASSUME at = "block", t = "location", Goto("path")
        PROVE  Decided
    <2>1. kindOf(t) = "LOCATION" /\ file' = file /\ at' = "path"
      BY <1>1, <1>9, KindIs, Zenon DEF Goto
    <2> QED
      BY <1>9, <2>1, LocationToken, Zenon
  <1>10. ASSUME at = "path", t \in Path,
                file' = With([Here EXCEPT !.locations = Append(@, Block0(t))]), at' = "open"
         PROVE  Decided
    <2>1. kindOf(t) = "PATH"
      BY <1>1, <1>2, <1>10, KindIs, Zenon
    <2> QED
      BY <1>10, <2>1, PathToken, Zenon
  <1>11. ASSUME at = "open", t = "{", Goto("inner")
         PROVE  Decided
    <2>1. kindOf(t) = "OPEN_BRACKET" /\ file' = file /\ at' = "inner"
      BY <1>1, <1>11, KindIs, Zenon DEF Goto
    <2> QED
      BY <1>11, <2>1, OpenToken, Zenon
  <1>12. ASSUME at = "inner", t = "}", Goto("block")
         PROVE  Decided
    <2>1. kindOf(t) = "CLOSE_BRACKET" /\ file' = file /\ at' = "block"
      BY <1>1, <1>12, KindIs, Zenon DEF Goto
    <2> QED
      BY <1>12, <2>1, CloseLocationToken, Zenon
  <1>13. ASSUME at = "block", t = "}", Listens(Here), Goto("file")
         PROVE  Decided
    <2>1. kindOf(t) = "CLOSE_BRACKET" /\ file' = file /\ at' = "file"
      BY <1>1, <1>13, KindIs, Zenon DEF Goto
    <2> QED
      BY <1>13, <2>1, CloseServerToken, Zenon
  <1>14. Decided
    BY <1>3, <1>4, <1>5, <1>6, <1>7, <1>8, <1>9, <1>10, <1>11, <1>12, <1>13, Zenon
       DEF Describe
  <1>15. at' \in Position
    BY Zenon DEF Describe, Goto, Position, InLocation
  <1> QED
    BY <1>14, <1>15

\* The invariant holds at the beginning, and is kept.
LEMMA FileInitInv == FileInit => FileInv
  <1> SUFFICES ASSUME FileInit PROVE FileInv
    OBVIOUS
  <1>1. /\ at \in {"file", "any"} /\ verdict = "reading" /\ file = <<>>
        /\ tokenState = "SERVER" /\ prev = "none" /\ bracket = <<>>
        /\ stackState = "none" /\ blockCount = 0 /\ servers = <<>>
        /\ filling = [block |-> "SERVER", key |-> "none"]
    BY DEF FileInit, ConfigInit, Init
  <1>2. at \in Position \cup {"any"} /\ AsDescribed
    BY <1>1 DEF Position, AsDescribed
  <1>3. SameType
    BY DEF FileInit, ConfigInit, SameType, Block
  <1>4. at = "file" => SyntaxFits
    BY <1>1 DEF SyntaxFits, Automaton, Stack
  <1>5. HandedOver(file)
    BY <1>1 DEF HandedOver
  <1>6. at = "file" => Agrees
    BY <1>1, <1>3, <1>4, <1>5 DEF Agrees, SameType
  <1> QED
    BY <1>1, <1>2, <1>6 DEF FileInv

\* At the end of a file that ends where the grammar lets it.
LEMMA FinishInv ==
  ASSUME FileInv, at = "file", Finish, UNCHANGED <<file, at, read>>
  PROVE  FileInv'
  <1>1. verdict = "reading" /\ UNCHANGED valueVars
    BY DEF Finish, EndOfFile, LaterPass, Settle
  <1>2. Agrees
    BY <1>1 DEF FileInv
  <1>3. /\ SyntaxFits /\ HandedOver(file)
        /\ filling = [block |-> "SERVER", key |-> "none"]
    BY <1>2 DEF Agrees
  <1>4. blockCount = 0
    BY <1>3 DEF SyntaxFits, Stack
  <1>5. verdict' = "accepted"
    BY <1>3, <1>4 DEF Finish, EndOfFile, Settle
  <1>6. servers' = [i \in DOMAIN file |-> Meaning(file[i])] /\ file' = file /\ at' = "file"
    BY <1>1, <1>3 DEF HandedOver, valueVars
  <1>7. ~FaultyFile
    <2>1. \A s \in ToSet(file) : ~FaultyServer(s)
      BY <1>3 DEF HandedOver, ToSet
    <2> QED
      BY <1>3, <2>1 DEF HandedOver, FaultyFile
  <1>8. ~FaultyFile'
    BY <1>6, <1>7 DEF FaultyFile
  <1>9. AsDescribed'
    BY <1>5, <1>6, <1>8 DEF AsDescribed
  <1>10. (at \in Position \cup {"any"})'
    BY <1>6 DEF Position
  <1> QED
    BY <1>5, <1>9, <1>10 DEF FileInv

\* Every step keeps the invariant: a token, the end of the file, or nothing.
LEMMA FileNextInv ==
  ASSUME FileInv, [FileNext]_fileVars, ~Interleaved
  PROVE  FileInv'
  <1>1. ASSUME NEW t \in Token, Parse(t), Describe(t)
        PROVE  FileInv'
    <2>1. verdict = "reading"
      BY <1>1, Zenon DEF Parse, Refuse, Stray, Accept, LaterPass, Settle
    <2>2. at # "any"
      BY <1>1, Zenon DEF Describe
    <2>3. Reads(t)
      BY <1>1, <2>1, <2>2, Zenon DEF Reads, FileInv
    <2>4. Decided /\ at' \in Position
      BY <1>1, <2>3, DescribeInv, Zenon
    <2>5. AsDescribed'
      BY <2>4 DEF Decided, AsDescribed
    <2> QED
      BY <2>4, <2>5 DEF Decided, FileInv
  <1>2. ASSUME at = "any", at' = at
        PROVE  FileInv'
    BY <1>2 DEF FileInv, AsDescribed
  <1>3. ASSUME UNCHANGED fileVars
        PROVE  FileInv'
    <2>1. /\ tokenState' = tokenState /\ prev' = prev /\ bracket' = bracket
          /\ stackState' = stackState /\ blockCount' = blockCount /\ verdict' = verdict
          /\ same' = same /\ filling' = filling /\ server' = server
          /\ location' = location /\ servers' = servers /\ file' = file /\ at' = at
      BY <1>3 DEF fileVars, configVars, syntaxVars, valueVars
    <2>2. AsDescribed' <=> AsDescribed
      BY <2>1 DEF AsDescribed, FaultyFile
    <2>3. SyntaxFits' <=> SyntaxFits
      BY <2>1, Zenon DEF SyntaxFits, Automaton, Stack
    <2>4. /\ HandedOver(file)' <=> HandedOver(file)
          /\ HandedOver(Front(file))' <=> HandedOver(Front(file))
      BY <2>1, Zenon DEF HandedOver
    <2>5. ServerFits(at, Last(file))' <=> ServerFits(at, Last(file))
      BY <2>1, Zenon DEF ServerFits
    <2>6. KeysFit(at, Last(file))' <=> KeysFit(at, Last(file))
      BY <2>1, Zenon DEF KeysFit
    <2>7. FillingFits(at, Last(file))' <=> FillingFits(at, Last(file))
      BY <2>1, Zenon DEF FillingFits
    <2>8. ObjectsFit(at, Last(file))' <=> ObjectsFit(at, Last(file))
      BY <2>1, Zenon DEF ObjectsFit
    <2>9. Agrees' <=> Agrees
      BY <2>1, <2>3, <2>4, <2>5, <2>6, <2>7, <2>8, Zenon DEF Agrees, SameType
    <2> QED
      BY <2>1, <2>2, <2>9, Zenon DEF FileInv
  <1> QED
    BY <1>1, <1>2, <1>3, FinishInv, Zenon DEF FileNext

\* After every token that follows the grammar, the automaton, the stack of blocks, the
\* tables of checkSameKey and the objects of setValue fit what has been described.
THEOREM FileInvariant == ~Interleaved => (FileSpec => []FileInv)
  <1>1. ~Interleaved /\ FileInv /\ [FileNext]_fileVars => FileInv'
    BY FileNextInv
  <1>2. ~Interleaved => (FileInv /\ [][FileNext]_fileVars => []FileInv)
    <2> SUFFICES ASSUME ~Interleaved
                 PROVE  FileInv /\ [][FileNext]_fileVars => []FileInv
      OBVIOUS
    <2>1. FileInv /\ [FileNext]_fileVars => FileInv'
      BY <1>1
    <2> QED
      BY <2>1, PTL
  <1> QED
    BY FileInitInv, <1>2, PTL DEF FileSpec

\* A file whose servers give their directives before their locations is read as the
\* servers it describes, and refused for nothing but what is wrong with it: for any
\* keys, values, names, paths and ports, and files of any length.
THEOREM FilesAsDescribed == ~Interleaved => (FileSpec => []AsDescribed)
  <1>1. FileInv => AsDescribed
    BY DEF FileInv
  <1> QED
    BY <1>1, FileInvariant, PTL
=============================================================================
