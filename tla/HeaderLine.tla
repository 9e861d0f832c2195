------------------------------ MODULE HeaderLine ------------------------------
(***************************************************************************)
(* One line of a header: util::getToken, whose loop is taken round by      *)
(* round, util::checkMultipleSpaces, and what setRequestLine and           *)
(* setFieldLine make of the tokens.  Positions count from 0 as in the      *)
(* code, and a colon, a space and a line feed are "COLON", "SP" and "LF":  *)
(* lines are cut at a carriage return and a line feed, so that a line feed *)
(* alone may stand in one.  Which method, version or field it is belongs   *)
(* to Routing.                                                             *)
(***************************************************************************)
EXTENDS Naturals, Sequences, SequencesExt, FiniteSetsExt

CONSTANTS
  Character,   \* what lines are made of
  Lines        \* the lines a header may have

ASSUME LinesAssumption ==
  {"COLON", "SP", "LF"} \subseteq Character /\ \A l \in Lines : l \in Seq(Character)

VARIABLES
  kind,    \* "request" or "field"
  line,
  start,   \* where the next token may begin; the loop is over past the end
  token,   \* the tokens found so far
  outcome  \* "unread", "read", "400", or "undefined": past the end of a vector

lineVars == <<kind, line, start, token, outcome>>

Delimiter(k) == IF k = "request" THEN <<"SP">> ELSE <<"COLON", "SP">>

\* Where text stands in l.
Occurrences(l, text) ==
  {p \in 0 .. Len(l) :
     p + Len(text) <= Len(l) /\ SubSeq(l, p + 1, p + Len(text)) = text}

LineInit ==
  /\ kind \in {"request", "field"} /\ line \in Lines
  /\ kind = "field" => line # <<>>   \* two line ends would have ended the header
  /\ start = 0 /\ token = <<>> /\ outcome = "unread"

Over == Len(line) + 1

\* (variant: the whole delimiter is stepped over)
nextWhole(end) == end + Len(Delimiter(kind))

\* (variant: none of it is)
nextStays(end) == end

next(end) == end + 1

\* What a round does with a token: nothing empty is kept.
kept(tmp) == IF tmp = <<>> THEN token ELSE Append(token, tmp)

\* One round of getToken: str.find(delimiters, start), and the text before it.
getToken ==
  /\ outcome = "unread" /\ start < Over
  /\ LET found == {p \in Occurrences(line, Delimiter(kind)) : start <= p}
         end   == IF found = {} THEN Len(line) ELSE Min(found)
     IN  /\ token' = kept(SubSeq(line, start + 1, end))
         /\ start' = IF found = {} THEN Over ELSE next(end)
  /\ UNCHANGED <<kind, line, outcome>>

\* checkMultipleSpaces, which is called first: the same blank twice, a space or a
\* line feed.  A space next to a line feed is let through.
DoubleSpace ==
  \E i \in 1 .. Len(line) - 1 : line[i] \in {"SP", "LF"} /\ line[i + 1] = line[i]

\* (variant: more words than three are let through)
RequestLineThrowsFew == Len(token) < 3

RequestLineThrows == Len(token) # 3

\* token[1].erase(0, 1) comes before any test of the tokens; it takes away the
\* space that getToken leaves of the delimiter.
FieldValue == Tail(token[2])
FieldLineThrows ==
  \/ Len(token) # 2
  \/ FieldValue = <<>>
  \/ Contains(token[1], "SP")

setRequestLine ==
  /\ kind = "request"
  /\ outcome' = IF DoubleSpace \/ RequestLineThrows THEN "400" ELSE "read"

setFieldLine ==
  /\ kind = "field"
  /\ \/ DoubleSpace /\ outcome' = "400"
     \/ ~DoubleSpace /\ Len(token) < 2 /\ outcome' = "undefined"
     \/ /\ ~DoubleSpace /\ Len(token) >= 2
        /\ outcome' = IF FieldLineThrows THEN "400" ELSE "read"

Tokens ==
  /\ outcome = "unread" /\ start = Over
  /\ setRequestLine \/ setFieldLine
  /\ UNCHANGED <<kind, line, start, token>>

LineNext == getToken \/ Tokens

LineSpec == LineInit /\ [][LineNext]_lineVars /\ WF_lineVars(LineNext)

-----------------------------------------------------------------------------
\* A field line that has been read is its name, ": " and its value, with a name
\* and a value that are not empty and ": " nowhere else.  Every line of this form
\* is read, if its name has no space and no two spaces or line feeds stand
\* together; and past the end of the tokens looks only a line without a name
\* before ": ".
FieldLine ==
  kind = "field" =>
    /\ outcome = "read" =>
         /\ line = token[1] \o <<"COLON", "SP">> \o FieldValue
         /\ Cardinality(Occurrences(line, <<"COLON", "SP">>)) = 1
    /\ outcome \in {"400", "undefined"} =>
         ~ \E p \in 1 .. Len(line) - 3 :
             /\ Occurrences(line, <<"COLON", "SP">>) = {p}
             /\ ~DoubleSpace /\ ~Contains(SubSeq(line, 1, p), "SP")
    /\ outcome = "undefined" => Occurrences(line, <<"COLON", "SP">>) \subseteq {0}

\* Where a word of the line begins.
WordStarts == {i \in DOMAIN line : line[i] # "SP" /\ (i = 1 \/ line[i - 1] = "SP")}

\* A request line that has been read is three words, with a space between them
\* and at most one before and behind; and every line that is these is read, if no
\* two line feeds stand together in a word.
RequestLine ==
  kind = "request" =>
    /\ outcome = "read" =>
         \E before, behind \in {<<>>, <<"SP">>} :
           line = before \o token[1] \o <<"SP">> \o token[2] \o <<"SP">> \o token[3] \o behind
    /\ outcome = "400" => DoubleSpace \/ Cardinality(WordStarts) # 3

\* Every line is done with: getToken moves on in each round.
LineDone == <>(outcome # "unread")
=============================================================================
