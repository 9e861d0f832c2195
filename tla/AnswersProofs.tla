---------------------------- MODULE AnswersProofs ----------------------------
(***************************************************************************)
(* The answers of a connection, proved whole and rightly framed for any    *)
(* files, any page and any number of requests.                             *)
(***************************************************************************)
EXTENDS Answers, SequenceTheorems, FiniteSetTheorems, TLAPS

Cell ==
  [is : {"head"}, code : Nat, length : SUBSET Nat]
  \cup [is : {"body"}, of : File \cup {Directory, "listing", "error page"}, at : Nat]

Rest == SubSeq(str, index + 1, Len(str))

\* The sequences are sequences of cells.
Typed ==
  /\ conf \in Conf /\ files \in SUBSET File
  /\ turn \in {"request", "answer", "closed"}
  /\ code \in {200, 404} \cup Refusal /\ length \in Nat
  /\ buffer \in Seq(Cell) /\ str \in Seq(Cell)
  /\ wire \in Seq(Cell) /\ due \in Seq(Cell)

\* Nothing of an answer outlives it.
Fresh ==
  turn # "answer" =>
    code = 200 /\ length = 0 /\ buffer = <<>> /\ str = <<>> /\ index = 0

\* What has been sent and what is left to send is what is due.
Accounted ==
  /\ index \in Nat /\ index <= Len(str)
  /\ turn = "request" => wire = due
  /\ turn = "answer" => wire \o Rest = due
  /\ IsPrefix(wire, due)

AnswersInv == Typed /\ Fresh /\ Accounted

-----------------------------------------------------------------------------
(***************************************************************************)
(* Pieces of sequences.                                                    *)
(***************************************************************************)

\* A sequence begins with its first part.
LEMMA BeginsWith ==
  ASSUME NEW S, NEW a \in Seq(S), NEW b \in Seq(S)
  PROVE  IsPrefix(a, a \o b)
  <1>1. Len(a) \in Nat /\ Len(b) \in Nat /\ Len(a \o b) = Len(a) + Len(b)
    BY ConcatProperties
  <1>2. SubSeq(a \o b, 1, Len(a)) = SubSeq(a, 1, Len(a))
    <2>1. CASE Len(a) = 0
      BY <2>1, SubSeqEmpty
    <2>2. CASE Len(a) # 0
      <3>1. 1 \in 1 .. Len(a) /\ Len(a) \in 1 .. Len(a)
        BY <1>1, <2>2
      <3> QED
        BY <3>1, SubSeqOfConcat1
    <2> QED
      BY <2>1, <2>2
  <1> QED
    BY <1>1, <1>2 DEF IsPrefix

\* What is left of a sequence, in two parts.
LEMMA NextPart ==
  ASSUME NEW S, NEW s \in Seq(S), NEW m \in Nat, NEW n \in Nat, m + n <= Len(s)
  PROVE  /\ SubSeq(s, m + 1, m + n) \in Seq(S)
         /\ SubSeq(s, m + n + 1, Len(s)) \in Seq(S)
         /\ SubSeq(s, m + 1, m + n) \o SubSeq(s, m + n + 1, Len(s))
              = SubSeq(s, m + 1, Len(s))
  <1>1. Len(s) \in Nat
    OBVIOUS
  <1>2. \A i \in 1 .. Len(s) : s[i] \in S
    OBVIOUS
  <1>3. SubSeq(s, m + 1, m + n) \in Seq(S) /\ SubSeq(s, m + n + 1, Len(s)) \in Seq(S)
    BY <1>1, <1>2, SubSeqProperties
  <1>4. m + 1 \in 1 .. Len(s) + 1 /\ m + n \in (m + 1) - 1 .. Len(s)
        /\ Len(s) \in m + n .. Len(s)
    BY <1>1
  <1>5. SubSeq(s, m + 1, m + n) \o SubSeq(s, m + n + 1, Len(s)) = SubSeq(s, m + 1, Len(s))
    BY <1>4, ConcatAdjacentSubSeq
  <1> QED
    BY <1>3, <1>5

-----------------------------------------------------------------------------
(***************************************************************************)
(* Bodies and answers.                                                     *)
(***************************************************************************)

Name == File \cup {Directory, "listing", "error page"}

LEMMA PiecesType ==
  ASSUME NEW name \in Name, NEW n \in Nat
  PROVE  Pieces(name, n) \in Seq(Cell) /\ Len(Pieces(name, n)) = n
  <1>1. ASSUME NEW i \in 1 .. n
        PROVE  [is |-> "body", of |-> name, at |-> i] \in Cell
    <2>1. i \in Nat
      OBVIOUS
    <2>2. [is |-> "body", of |-> name, at |-> i] \in [is : {"body"}, of : Name, at : Nat]
      BY <2>1
    <2> QED
      BY <2>2 DEF Cell, Name
  <1>2. Pieces(name, n) \in [1 .. n -> Cell]
    BY <1>1 DEF Pieces
  <1>3. DOMAIN Pieces(name, n) = 1 .. n
    BY DEF Pieces
  <1>4. Pieces(name, n) \in Seq(Cell)
    BY <1>2
  <1> QED
    BY <1>3, <1>4, LenProperties

LEMMA BodiesType ==
  ASSUME Typed
  PROVE  /\ \A f \in File : Content(f) \in Seq(Cell)
         /\ Page \in Seq(Cell) /\ Len(Page) = PageLength /\ NoBody \in Seq(Cell)
         /\ Cardinality(files) \in Nat
         /\ Listing(files) \in Seq(Cell) /\ Len(Listing(files)) = Cardinality(files)
  <1>1. \A f \in File : Content(f) \in Seq(Cell)
    BY PiecesType, LengthAssumption DEF Content, Name
  <1>2. Page \in Seq(Cell) /\ Len(Page) = PageLength
    BY PiecesType, LengthAssumption DEF Page, Name
  <1>3. NoBody \in Seq(Cell)
    BY PiecesType DEF NoBody, Name, Directory
  <1>4. Cardinality(files) \in Nat
    BY LengthAssumption, FS_Subset, FS_CardinalityType DEF Typed
  <1>5. Listing(files) \in Seq(Cell) /\ Len(Listing(files)) = Cardinality(files)
    BY <1>4, PiecesType DEF Listing, Name
  <1> QED
    BY <1>1, <1>2, <1>3, <1>4, <1>5

\* A body behind its head.
LEMMA HeadAndBody ==
  ASSUME NEW c \in Nat, NEW l \in SUBSET Nat, NEW body \in Seq(Cell)
  PROVE  /\ <<StatusLine(c, l)>> \in Seq(Cell)
         /\ <<StatusLine(c, l)>> \o body \in Seq(Cell)
  <1>1. StatusLine(c, l) \in Cell
    BY DEF StatusLine, Cell
  <1>2. <<StatusLine(c, l)>> \in Seq(Cell)
    BY <1>1
  <1> QED
    BY <1>2, ConcatProperties

\* handleError makes the answer that the code deserves.
LEMMA ErrorMade ==
  ASSUME Typed, turn = "request", length = 0, index = 0,
         NEW c \in {404} \cup Refusal, NEW s \in Seq(Cell), handleError(c, s)
  PROVE  /\ str' = (IF conf.page THEN Error(c) ELSE s) /\ str' \in Seq(Cell)
         /\ Error(c) \in Seq(Cell)
         /\ ~conf.page => Error(c) = <<>>
         /\ code' = c /\ length' \in Nat /\ index' = 0
  <1>1. c \in Nat
    BY DEF Refusal
  <1>2. Page \in Seq(Cell) /\ Len(Page) = PageLength /\ PageLength \in Nat
    BY BodiesType, LengthAssumption
  <1>3. code' = c /\ index' = 0 /\ length' \in Nat
    BY <1>2 DEF handleError
  <1>4. CASE ~conf.page
    <2>1. str' = s /\ Error(c) = <<>>
      BY <1>4 DEF handleError, Error
    <2> QED
      BY <2>1, <1>3, <1>4, EmptySeq
  <1>5. CASE conf.page /\ Paged(c)
    <2>1. str' = <<StatusLine(c, {PageLength})>> \o Page
      <3>1. length + PageLength = PageLength
        BY <1>2
      <3> QED
        BY <3>1, <1>5, Zenon DEF handleError
    <2>2. Error(c) = <<StatusLine(c, {PageLength})>> \o Page
      BY <1>5, <1>2, Zenon DEF Error, Whole
    <2>3. <<StatusLine(c, {PageLength})>> \o Page \in Seq(Cell)
      BY <1>1, <1>2, HeadAndBody
    <2> QED
      BY <2>1, <2>2, <2>3, <1>3, <1>5, Zenon
  <1>6. CASE conf.page /\ ~Paged(c)
    <2>1. str' = <<StatusLine(c, {0})>> \o <<>>
      BY <1>6, Zenon DEF handleError
    <2>2. Error(c) = <<StatusLine(c, {0})>> \o <<>>
      <3>1. Len(<<>>) = 0
        BY EmptySeq
      <3> QED
        BY <3>1, <1>6, Zenon DEF Error, Whole
    <2>3. <<StatusLine(c, {0})>> \o <<>> \in Seq(Cell)
      BY <1>1, HeadAndBody, EmptySeq
    <2> QED
      BY <2>1, <2>2, <2>3, <1>3, <1>6, Zenon
  <1> QED
    BY <1>4, <1>5, <1>6, Zenon

\* And pushBuffer a 200 with a body and its length.
LEMMA PageMade ==
  ASSUME Typed, turn = "request", code = 200, index = 0, buffer = <<>>,
         NEW body \in Seq(Cell), NEW l \in Nat, l = Len(body), pushBuffer(l, body)
  PROVE  /\ str' = Whole(200, body) /\ str' \in Seq(Cell) /\ buffer' \in Seq(Cell)
         /\ code' = 200 /\ length' \in Nat /\ index' = 0
  <1>1. <<StatusLine(200, {l})>> \in Seq(Cell)
        /\ <<StatusLine(200, {l})>> \o body \in Seq(Cell)
    BY HeadAndBody
  <1>2. <<>> \o <<StatusLine(200, {l})>> = <<StatusLine(200, {l})>>
    BY <1>1, ConcatEmptySeq
  <1>3. buffer' = <<StatusLine(200, {l})>> \o body /\ str' = buffer'
    BY <1>2, Zenon DEF pushBuffer
  <1>4. Whole(200, body) = <<StatusLine(200, {l})>> \o body
    BY Zenon DEF Whole
  <1> QED
    BY <1>1, <1>3, <1>4, ZenonT(60) DEF pushBuffer

-----------------------------------------------------------------------------
(***************************************************************************)
(* Each handler makes the answer that its request deserves.                *)
(***************************************************************************)

\* What holds when a request has been answered with the answer a.
Made(a) ==
  /\ str' = a /\ str' \in Seq(Cell) /\ buffer' \in Seq(Cell)
  /\ code' \in {200, 404} \cup Refusal /\ length' \in Nat /\ index' = 0
  /\ files' \in SUBSET File

LEMMA ConfType ==
  ASSUME Typed
  PROVE  /\ conf.tryFiles \in {"", "/"} \cup File /\ conf.index \in {""} \cup File
         /\ conf.serverIndex \in {""} \cup File
         /\ conf.autoindex \in BOOLEAN /\ conf.page \in BOOLEAN /\ conf.opens \in BOOLEAN
  BY DEF Typed, Conf

LEMMA LeastIs ==
  ASSUME NEW S \in SUBSET Nat, NEW m \in S, \A y \in S : m <= y
  PROVE  Min(S) = m
  <1>1. \A x \in S : (\A y \in S : x <= y) => x = m
    OBVIOUS
  <1>2. Min(S) \in S /\ \A y \in S : Min(S) <= y
    BY Zenon DEF Min
  <1> QED
    BY <1>1, <1>2

\* The first name given is the one that handleDir finds.
LEMMA FirstName ==
  ASSUME Typed
  PROVE  /\ Given = {} <=> indexFile = ""
         /\ Given # {} => Names[Min(Given)] = indexFile /\ indexFile \in File
  <1>1. /\ conf.tryFiles \in {"", "/"} \cup File /\ conf.index \in {""} \cup File
        /\ conf.serverIndex \in {""} \cup File
    BY ConfType
  <1>2. /\ Names[1] = conf.tryFiles /\ Names[2] = conf.index
        /\ Names[3] = conf.serverIndex
    BY DEF Names
  <1>3. "" \notin File /\ "/" \notin File
    BY LengthAssumption
  <1>4. /\ Given \in SUBSET Nat /\ \A i \in Given : i = 1 \/ i = 2 \/ i = 3
        /\ 1 \in Given <=> conf.tryFiles \notin {"", "/"}
        /\ 2 \in Given <=> conf.index \notin {"", "/"}
        /\ 3 \in Given <=> conf.serverIndex \notin {"", "/"}
    <2>1. /\ 1 \in Given <=> 1 \in 1 .. 3 /\ Names[1] \notin {"", "/"}
          /\ 2 \in Given <=> 2 \in 1 .. 3 /\ Names[2] \notin {"", "/"}
          /\ 3 \in Given <=> 3 \in 1 .. 3 /\ Names[3] \notin {"", "/"}
          /\ \A i \in Given : i \in 1 .. 3
      BY Zenon DEF Given
    <2>2. 1 \in 1 .. 3 /\ 2 \in 1 .. 3 /\ 3 \in 1 .. 3
          /\ \A i \in 1 .. 3 : i \in Nat /\ (i = 1 \/ i = 2 \/ i = 3)
      OBVIOUS
    <2> QED
      BY <2>1, <2>2, <1>2, Zenon
  <1>5. CASE conf.tryFiles \notin {"", "/"}
    <2>1. 1 \in Given /\ \A i \in Given : 1 <= i
      <3>1. 1 \in Given
        BY <1>4, <1>5, Zenon
      <3>2. \A i \in Given : i = 1 \/ i = 2 \/ i = 3
        BY <1>4, Zenon
      <3> QED
        BY <3>1, <3>2
    <2>2. Min(Given) = 1
      BY <2>1, <1>4, LeastIs, Zenon
    <2> QED
      BY <1>1, <1>2, <1>5, <2>1, <2>2 DEF indexFile
  <1>6. CASE conf.tryFiles \in {"", "/"} /\ conf.index # ""
    <2>1. 2 \in Given /\ \A i \in Given : 2 <= i
      <3>1. 2 \in Given /\ 1 \notin Given
        BY <1>1, <1>3, <1>4, <1>6, Zenon
      <3>2. \A i \in Given : i = 2 \/ i = 3
        BY <1>4, <3>1, Zenon
      <3> QED
        BY <3>1, <3>2
    <2>2. Min(Given) = 2
      BY <2>1, <1>4, LeastIs, Zenon
    <2> QED
      BY <1>1, <1>2, <1>6, <2>1, <2>2 DEF indexFile
  <1>7. CASE conf.tryFiles \in {"", "/"} /\ conf.index = "" /\ conf.serverIndex # ""
    <2>1. 3 \in Given /\ \A i \in Given : 3 <= i
      <3>1. 3 \in Given /\ 1 \notin Given /\ 2 \notin Given
        BY <1>1, <1>3, <1>4, <1>7, Zenon
      <3>2. \A i \in Given : i = 3
        BY <1>4, <3>1, Zenon
      <3> QED
        BY <3>1, <3>2
    <2>2. Min(Given) = 3
      BY <2>1, <1>4, LeastIs, Zenon
    <2> QED
      BY <1>1, <1>2, <1>7, <2>1, <2>2 DEF indexFile
  <1>8. CASE conf.tryFiles \in {"", "/"} /\ conf.index = "" /\ conf.serverIndex = ""
    <2>1. Given = {}
      BY <1>2, <1>4, <1>8
    <2> QED
      BY <2>1, <1>8 DEF indexFile
  <1> QED
    BY <1>5, <1>6, <1>7, <1>8

LEMMA FileMade ==
  ASSUME Typed, Fresh, turn = "request", NEW body \in Seq(Cell), handleFile(body),
         UNCHANGED files
  PROVE  Made(Whole(200, body))
  <1>1. code = 200 /\ length = 0 /\ index = 0 /\ buffer = <<>>
    BY DEF Fresh
  <1>2. Len(body) \in Nat
    OBVIOUS
  <1>3. pushBuffer(Len(body), body)
    <2>1. length + Len(body) = Len(body)
      BY <1>1, <1>2
    <2> QED
      BY <2>1, Zenon DEF handleFile
  <1>4. /\ str' = Whole(200, body) /\ str' \in Seq(Cell) /\ buffer' \in Seq(Cell)
        /\ code' = 200 /\ length' \in Nat /\ index' = 0
    BY <1>1, <1>2, <1>3, PageMade
  <1>5. files' \in SUBSET File
    BY DEF Typed
  <1> QED
    BY <1>4, <1>5 DEF Made

LEMMA RefusalMade ==
  ASSUME Typed, Fresh, turn = "request", NEW c \in {404} \cup Refusal,
         handleError(c, str), UNCHANGED <<buffer, files>>
  PROVE  Made(Error(c))
  <1>1. length = 0 /\ index = 0 /\ str = <<>> /\ str \in Seq(Cell)
    BY DEF Fresh, Typed
  <1>2. /\ str' = (IF conf.page THEN Error(c) ELSE str) /\ str' \in Seq(Cell)
        /\ ~conf.page => Error(c) = <<>>
        /\ code' = c /\ length' \in Nat /\ index' = 0
    BY <1>1, ErrorMade
  <1>3. str' = Error(c)
    BY <1>1, <1>2, Zenon
  <1>4. buffer' \in Seq(Cell) /\ files' \in SUBSET File
    BY DEF Typed
  <1> QED
    BY <1>2, <1>3, <1>4 DEF Made

LEMMA DirectoryMade ==
  ASSUME Typed, Fresh, turn = "request", handleDir, UNCHANGED files
  PROVE  Made(DirectoryAnswer)
  <1>1. conf.autoindex \in BOOLEAN /\ conf.opens \in BOOLEAN
    BY ConfType
  <1>2. code = 200 /\ index = 0 /\ buffer = <<>>
    BY DEF Fresh
  <1>3. "" \notin files
    BY LengthAssumption DEF Typed
  <1>4. Given = {} <=> indexFile = ""
    BY FirstName
  <1>5. Given # {} => Names[Min(Given)] = indexFile
    BY FirstName
  <1>6. CASE conf.autoindex
    <2>1. pushBuffer(Cardinality(files), Listing(files))
      BY <1>6 DEF handleDir
    <2>2. /\ str' = Whole(200, Listing(files)) /\ str' \in Seq(Cell)
          /\ buffer' \in Seq(Cell) /\ code' = 200 /\ length' \in Nat /\ index' = 0
      BY <1>2, <2>1, BodiesType, PageMade
    <2>3. DirectoryAnswer = Whole(200, Listing(files))
      BY <1>6, Zenon DEF DirectoryAnswer
    <2> QED
      BY <2>2, <2>3 DEF Made, Typed
  <1>7. CASE ~conf.autoindex /\ indexFile \in files
    <2>1. handleFile(Content(indexFile))
      BY <1>3, <1>7 DEF handleDir
    <2>2. Content(indexFile) \in Seq(Cell)
      BY <1>7, BodiesType DEF Typed
    <2>3. Made(Whole(200, Content(indexFile)))
      BY <2>1, <2>2, FileMade
    <2>4. DirectoryAnswer = Whole(200, Content(indexFile))
      BY <1>3, <1>4, <1>5, <1>7, Zenon DEF DirectoryAnswer
    <2> QED
      BY <2>3, <2>4
  <1>8. CASE ~conf.autoindex /\ indexFile = "" /\ conf.opens
    <2>1. handleFile(NoBody)
      BY <1>3, <1>8 DEF handleDir
    <2>2. Made(Whole(200, NoBody))
      BY <2>1, BodiesType, FileMade
    <2>3. DirectoryAnswer = Whole(200, NoBody)
      BY <1>4, <1>8, Zenon DEF DirectoryAnswer
    <2> QED
      BY <2>2, <2>3
  <1>9. CASE ~conf.autoindex /\ indexFile \notin files /\ ~(indexFile = "" /\ conf.opens)
    <2>1. handleError(404, str) /\ UNCHANGED buffer
      BY <1>9 DEF handleDir
    <2>2. Made(Error(404))
      BY <2>1, RefusalMade
    <2>3. DirectoryAnswer = Error(404)
      BY <1>4, <1>5, <1>9, ZenonT(60) DEF DirectoryAnswer
    <2> QED
      BY <2>2, <2>3
  <1> QED
    BY <1>1, <1>6, <1>7, <1>8, <1>9

LEMMA DeleteMade ==
  ASSUME Typed, Fresh, turn = "request", NEW path \in Path, handleDelete(path)
  PROVE  Made(IF Removable(path) \/ ~conf.page THEN <<StatusLine(200, {})>>
              ELSE Error(404))
  <1> DEFINE answer == <<StatusLine(200, {})>>
  <1>1. code = 200 /\ length = 0 /\ index = 0 /\ buffer = <<>>
    BY DEF Fresh
  <1>2. answer \in Seq(Cell)
    BY HeadAndBody, EmptySeq, ZenonT(60)
  <1>3. buffer \o <<StatusLine(code, {})>> = answer
    BY <1>1, <1>2, ConcatEmptySeq
  <1>4. buffer' = answer
    BY <1>3, Zenon DEF handleDelete
  <1>5. CASE Removable(path)
    <2>1. files' = files \ {path} /\ str' = answer /\ UNCHANGED <<code, length, index>>
      BY <1>3, <1>5, Zenon DEF handleDelete
    <2>2. files' \in SUBSET File
      BY <2>1 DEF Typed
    <2> HIDE DEF answer
    <2>3. Made(answer)
      BY <1>1, <1>2, <1>4, <2>1, <2>2 DEF Made
    <2> QED
      BY <1>5, <2>3 DEF answer
  <1>6. CASE ~Removable(path)
    <2>1. handleError(404, answer) /\ UNCHANGED files
      BY <1>3, <1>6, Zenon DEF handleDelete
    <2> HIDE DEF answer
    <2>2. /\ str' = (IF conf.page THEN Error(404) ELSE answer) /\ str' \in Seq(Cell)
          /\ code' = 404 /\ length' \in Nat /\ index' = 0
      BY <1>1, <1>2, <2>1, ErrorMade
    <2>3. Made(IF conf.page THEN Error(404) ELSE answer)
      BY <1>2, <1>4, <2>1, <2>2 DEF Made, Typed
    <2> QED
      BY <1>6, <2>3 DEF answer
  <1> QED
    BY <1>5, <1>6

LEMMA GetMade ==
  ASSUME Typed, Fresh, turn = "request", NEW path \in Path, handleGet(path)
  PROVE  Made(IF ~Found(path) THEN Error(404)
              ELSE IF path = Directory THEN DirectoryAnswer
              ELSE Whole(200, Content(path)))
  <1>1. Directory \notin File /\ files \in SUBSET File
    BY LengthAssumption DEF Directory, Typed
  <1>2. CASE path = Directory /\ Found(path)
    <2>1. handleDir /\ UNCHANGED files
      BY <1>1, <1>2 DEF handleGet
    <2>2. Made(DirectoryAnswer)
      BY <2>1, DirectoryMade
    <2> QED
      BY <1>2, <2>2
  <1>3. CASE path \in files
    <2>1. handleFile(Content(path)) /\ UNCHANGED files
      BY <1>1, <1>3 DEF handleGet, Found
    <2>2. Content(path) \in Seq(Cell)
      BY <1>1, <1>3, BodiesType
    <2>3. Made(Whole(200, Content(path)))
      BY <2>1, <2>2, FileMade
    <2> QED
      BY <1>1, <1>3, <2>3 DEF Found
  <1>4. CASE ~Found(path)
    <2>1. handleError(404, str) /\ UNCHANGED <<buffer, files>>
      BY <1>1, <1>4 DEF handleGet, Found
    <2>2. Made(Error(404))
      BY <2>1, RefusalMade
    <2> QED
      BY <1>4, <2>2
  <1> QED
    BY <1>2, <1>3, <1>4 DEF Found

LEMMA DeservedMade ==
  ASSUME Typed, Fresh, NEW ask \in Ask, handleResponse(ask)
  PROVE  Made(Deserved(ask))
  <1>1. turn = "request"
    BY DEF handleResponse
  <1>2. CASE ask[1] = "GET"
    <2>1. ask[2] \in Path /\ handleGet(ask[2])
      BY <1>2 DEF Ask, handleResponse
    <2>2. Deserved(ask) = IF ~Found(ask[2]) THEN Error(404)
                          ELSE IF ask[2] = Directory THEN DirectoryAnswer
                          ELSE Whole(200, Content(ask[2]))
      BY <1>2, Zenon DEF Deserved
    <2> QED
      BY <1>1, <2>1, <2>2, GetMade
  <1>3. CASE ask[1] = "DELETE"
    <2>1. ask[2] \in Path /\ handleDelete(ask[2])
      BY <1>3 DEF Ask, handleResponse
    <2>2. Deserved(ask) = IF Removable(ask[2]) \/ ~conf.page THEN <<StatusLine(200, {})>>
                          ELSE Error(404)
      BY <1>3, Zenon DEF Deserved
    <2> QED
      BY <1>1, <2>1, <2>2, DeleteMade
  <1>4. CASE ask[1] = "refused"
    <2>1. ask[2] \in {404} \cup Refusal /\ handleError(ask[2], str)
          /\ UNCHANGED <<buffer, files>>
      BY <1>4 DEF Ask, handleResponse
    <2>2. Deserved(ask) = Error(ask[2])
      BY <1>4, Zenon DEF Deserved
    <2> QED
      BY <1>1, <2>1, <2>2, RefusalMade
  <1> QED
    BY <1>2, <1>3, <1>4 DEF handleResponse

-----------------------------------------------------------------------------
(***************************************************************************)
(* The invariant.                                                          *)
(***************************************************************************)

LEMMA InitHolds == Init => AnswersInv
  <1> SUFFICES ASSUME Init PROVE AnswersInv
    OBVIOUS
  <1>1. <<>> \in Seq(Cell) /\ Len(<<>>) = 0
    BY EmptySeq
  <1>2. Typed
    BY <1>1 DEF Init, Typed
  <1>3. Fresh
    BY DEF Init, Fresh
  <1>4. IsPrefix(<<>>, <<>>)
    BY DEF IsPrefix
  <1>5. Accounted
    BY <1>1, <1>4 DEF Init, Accounted
  <1> QED
    BY <1>2, <1>3, <1>5 DEF AnswersInv

LEMMA handleResponseHolds ==
  ASSUME AnswersInv, NEW ask \in Ask, handleResponse(ask)
  PROVE  AnswersInv'
  <1>1. Typed /\ Fresh /\ Accounted
    BY DEF AnswersInv
  <1>2. Made(Deserved(ask))
    BY <1>1, DeservedMade
  <1>3. /\ turn = "request" /\ turn' = "answer" /\ due' = due \o Deserved(ask)
        /\ UNCHANGED <<conf, wire>>
    BY DEF handleResponse
  <1>4. /\ wire = due /\ due \in Seq(Cell) /\ conf \in Conf
    BY <1>1, <1>3 DEF Accounted, Typed
  <1>5. str' = Deserved(ask) /\ str' \in Seq(Cell) /\ index' = 0
    BY <1>2 DEF Made
  <1>6. due' = wire' \o str' /\ wire' \in Seq(Cell)
    BY <1>3, <1>4, <1>5
  <1>7. due' \in Seq(Cell) /\ IsPrefix(wire', due')
    BY <1>5, <1>6, BeginsWith, ConcatProperties
  <1>8. SubSeq(str', index' + 1, Len(str')) = str'
    <2>1. index' + 1 = 1
      BY <1>5
    <2> QED
      BY <2>1, <1>5, SubSeqFull
  <1>9. Accounted'
    <2>1. index' \in Nat /\ index' <= Len(str')
      BY <1>5, LenProperties
    <2> QED
      BY <2>1, <1>3, <1>6, <1>7, <1>8 DEF Accounted, Rest
  <1>10. Typed'
    BY <1>2, <1>3, <1>4, <1>6, <1>7 DEF Typed, Made
  <1>11. Fresh'
    BY <1>3 DEF Fresh
  <1> QED
    BY <1>9, <1>10, <1>11 DEF AnswersInv

\* clearClient makes everything fresh.
LEMMA Cleared ==
  ASSUME Typed, clearClient, UNCHANGED <<conf, due>>, files' \in SUBSET File,
         turn' \in {"request", "closed"}, wire' \in Seq(Cell), IsPrefix(wire', due),
         turn' = "request" => wire' = due
  PROVE  AnswersInv'
  <1>1. /\ code' = 200 /\ buffer' = <<>> /\ str' = <<>> /\ length' = 0 /\ index' = 0
        /\ due' = due
    BY DEF clearClient
  <1>2. <<>> \in Seq(Cell) /\ Len(<<>>) = 0
    BY EmptySeq
  <1>3. Typed'
    BY <1>1, <1>2 DEF Typed
  <1>4. Fresh'
    BY <1>1 DEF Fresh
  <1>5. Accounted'
    BY <1>1, <1>2 DEF Accounted
  <1> QED
    BY <1>3, <1>4, <1>5 DEF AnswersInv

LEMMA sendDataHolds ==
  ASSUME AnswersInv, NEW n \in 0 .. Len(str), sendData(n)
  PROVE  AnswersInv'
  <1> DEFINE piece == SubSeq(str, index + 1, index + n)
             rest == SubSeq(str, index + n + 1, Len(str))
  <1>1. Typed /\ Fresh /\ Accounted
    BY DEF AnswersInv
  <1>2. /\ turn = "answer" /\ n <= Len(str) - index /\ wire' = wire \o piece
        /\ UNCHANGED <<conf, files, due>>
    BY DEF sendData
  <1>3. /\ str \in Seq(Cell) /\ wire \in Seq(Cell) /\ due \in Seq(Cell)
        /\ files \in SUBSET File /\ Len(str) \in Nat
    BY <1>1, LenProperties DEF Typed
  <1>4. index \in Nat /\ index <= Len(str) /\ wire \o Rest = due
    BY <1>1, <1>2 DEF Accounted
  <1>5. n \in Nat /\ index + n <= Len(str)
    BY <1>2, <1>3, <1>4
  <1>6. piece \in Seq(Cell) /\ rest \in Seq(Cell) /\ piece \o rest = Rest
    BY <1>3, <1>4, <1>5, NextPart DEF Rest
  <1>7. wire' \in Seq(Cell) /\ wire' \o rest = due
    <2> HIDE DEF piece, rest
    <2>1. wire \o piece \in Seq(Cell)
      BY <1>3, <1>6, ConcatProperties
    <2>2. (wire \o piece) \o rest = wire \o (piece \o rest)
      <3>1. wire \in Seq(Cell) /\ piece \in Seq(Cell) /\ rest \in Seq(Cell)
        BY <1>3, <1>6
      <3> QED
        BY <3>1, ConcatAssociative, SMTT(60)
    <2> QED
      BY <1>2, <1>4, <1>6, <2>1, <2>2
  <1>8. IsPrefix(wire', due)
    <2> HIDE DEF rest
    <2> QED
      BY <1>6, <1>7, BeginsWith
  <1>9. CASE Close
    <2>1. clearClient /\ turn' = "closed"
      BY <1>9 DEF Close
    <2> QED
      BY <1>1, <1>2, <1>3, <1>7, <1>8, <2>1, Cleared
  <1>10. CASE index' = index + n /\ UNCHANGED <<turn, code, length, buffer, str>>
    <2>1. Typed'
      BY <1>1, <1>2, <1>7, <1>10, SMTT(60) DEF Typed
    <2>2. Fresh'
      BY <1>2, <1>10 DEF Fresh
    <2>3. rest = Rest'
      BY <1>10 DEF Rest
    <2>4. index' \in Nat /\ index' <= Len(str')
      BY <1>4, <1>5, <1>10
    <2>5. Accounted'
      <3> HIDE DEF rest
      <3> QED
        BY <1>2, <1>7, <1>8, <1>10, <2>3, <2>4 DEF Accounted
    <2> QED
      BY <2>1, <2>2, <2>5 DEF AnswersInv
  <1>11. CASE index + n = Len(str) /\ turn' = "request" /\ clearClient
    <2>1. rest = <<>>
      BY <1>3, <1>4, <1>5, <1>11, SubSeqEmpty
    <2>2. wire' = due
      BY <1>7, <2>1, ConcatEmptySeq
    <2> QED
      BY <1>1, <1>2, <1>3, <1>7, <1>8, <1>11, <2>2, Cleared
  <1> QED
    BY <1>9, <1>10, <1>11, Zenon DEF sendData

LEMMA NextHolds == AnswersInv /\ [Next]_vars => AnswersInv'
  <1> SUFFICES ASSUME AnswersInv, [Next]_vars PROVE AnswersInv'
    OBVIOUS
  <1>1. Typed /\ Fresh /\ Accounted
    BY DEF AnswersInv
  <1>2. ASSUME NEW ask \in Ask, handleResponse(ask) PROVE AnswersInv'
    BY <1>2, handleResponseHolds
  <1>3. ASSUME NEW n \in 0 .. Len(str), sendData(n) PROVE AnswersInv'
    BY <1>3, sendDataHolds
  <1>4. CASE HangUp
    <2>1. clearClient /\ turn' = "closed" /\ UNCHANGED <<conf, files, wire, due>>
      BY <1>4 DEF HangUp, Close
    <2>2. files \in SUBSET File /\ wire \in Seq(Cell) /\ IsPrefix(wire, due)
      BY <1>1 DEF Typed, Accounted
    <2> QED
      BY <1>1, <2>1, <2>2, Cleared
  <1>5. CASE Elsewhere
    <2>1. UNCHANGED <<conf, turn, code, length, buffer, str, index, wire, due>>
      BY <1>5 DEF Elsewhere, fields
    <2>2. files' \in SUBSET File
      BY <1>1, <1>5 DEF Elsewhere, Typed
    <2>3. Typed'
      BY <1>1, <2>1, <2>2 DEF Typed
    <2>4. Fresh' /\ Accounted'
      BY <1>1, <2>1 DEF Fresh, Accounted, Rest
    <2> QED
      BY <2>3, <2>4 DEF AnswersInv
  <1>6. CASE UNCHANGED vars
    <2>1. UNCHANGED <<conf, files, turn, code, length, buffer, str, index, wire, due>>
      BY <1>6 DEF vars, fields
    <2> QED
      BY <1>1, <2>1, ZenonT(60) DEF AnswersInv, Typed, Fresh, Accounted, Rest
  <1> QED
    BY <1>2, <1>3, <1>4, <1>5, <1>6, Zenon DEF Next

\* A file is in a directory that exists.
Housed == exists \in BOOLEAN /\ (files # {} => exists) /\ Directory \notin files

LEMMA HousedHolds == Housed /\ [Next]_vars => Housed'
  <1> SUFFICES ASSUME Housed, [Next]_vars PROVE Housed'
    OBVIOUS
  <1>1. ASSUME NEW ask \in Ask, handleResponse(ask) PROVE Housed'
    <2>1. CASE UNCHANGED <<files, exists>>
      BY <2>1 DEF Housed
    <2>2. CASE handleDelete(ask[2]) /\ Removable(ask[2])
      <3>1. /\ files' = files \ {ask[2]} /\ exists' = (exists /\ ask[2] # Directory)
        BY <2>2, Zenon DEF handleDelete
      <3>2. CASE ask[2] \in files
        <4>1. exists
          BY <3>2 DEF Housed
        <4> QED
          BY <3>1, <3>2, <4>1 DEF Housed
      <3>3. CASE files = {}
        BY <3>1, <3>3 DEF Housed
      <3> QED
        BY <2>2, <3>2, <3>3 DEF Removable
    <2> QED
      BY <1>1, <2>1, <2>2, Zenon DEF handleResponse, handleGet, handleDelete
  <1>2. ASSUME NEW n \in 0 .. Len(str), sendData(n) PROVE Housed'
    BY <1>2 DEF sendData, Housed
  <1>3. CASE HangUp
    BY <1>3 DEF HangUp, Housed
  <1>4. CASE Elsewhere
    BY <1>4, LengthAssumption DEF Elsewhere, Housed, Directory
  <1>5. CASE UNCHANGED vars
    BY <1>5 DEF vars, Housed
  <1> QED
    BY <1>1, <1>2, <1>3, <1>4, <1>5, Zenon DEF Next

\* The fields a response is made from hold nothing of another, and what was sent
\* and what is left to send make up what is due.
THEOREM AnswersInvariant == Spec => []AnswersInv
  <1> QED
    BY InitHolds, NextHolds, PTL DEF Spec

\* Every answer is whole and has the length of its body, for any files and any
\* number of requests (Client::clearClient, pushBuffer, handleError, sendData).
THEOREM WholeAnswersInOrder == Spec => []AnswersWhole
  <1>1. AnswersInv => AnswersWhole
    BY DEF AnswersInv, Accounted, AnswersWhole
  <1> QED
    BY <1>1, AnswersInvariant, PTL

\* The types, with nothing left in the buffers between two requests.
THEOREM AnswerTypes == Spec => []TypeOK
  <1>1. AnswersInv /\ Housed => TypeOK
    <2> SUFFICES ASSUME AnswersInv, Housed PROVE TypeOK
      OBVIOUS
    <2>1. Typed /\ Fresh /\ Accounted
      BY DEF AnswersInv
    <2>2. index \in 0 .. Len(str)
      BY <2>1, LenProperties DEF Typed, Accounted
    <2> QED
      BY <2>1, <2>2 DEF Typed, Fresh, Housed, TypeOK
  <1>2. Init => Housed
    BY LengthAssumption DEF Init, Housed, Directory
  <1>3. Spec => []Housed
    BY <1>2, HousedHolds, PTL DEF Spec
  <1> QED
    BY <1>1, <1>3, AnswersInvariant, PTL
=============================================================================
