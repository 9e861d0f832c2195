----------------------------- MODULE ConfigSyntax -----------------------------
(***************************************************************************)
(* The first two passes of Configuration over the tokens of a file:        *)
(* setCheckList gives every token its kind by an automaton, checkSyntax    *)
(* keeps a stack of open blocks.                                           *)
(*                                                                         *)
(* Each pass reads the tokens once, from first to last, and none looks     *)
(* ahead; they are run in step here, one token at a time, over a file that *)
(* is chosen as it is read.  A file is refused if any pass throws.  Which  *)
(* message wins when several passes would throw is not told apart, nor is  *)
(* the fate of the tokens after the first fault.                           *)
(***************************************************************************)
EXTENDS Integers, Sequences, FiniteSets

CONSTANTS
  Word,       \* the tokens that are neither keywords nor punctuation
  MaxDepth    \* how many entries the bracket stack may have

Punctuation == {"{", "}", ";"}
Token == {"server", "location"} \cup Punctuation \cup Word

ASSUME WordAssumption ==
  Word \cap ({"server", "location"} \cup Punctuation) = {}
ASSUME MaxDepthAssumption == MaxDepth \in Nat

VARIABLES
  tokenState,   \* _tokenState, the automaton of setCheckList
  prev,         \* the kind of the token before, "none" before the first
  bracket,      \* _bracket, the kinds pushed and not popped
  stackState,   \* _stackState, "none" for its 0
  blockCount,   \* _blockCount
  verdict       \* what has become of the file

syntaxVars == <<tokenState, prev, bracket, stackState, blockCount, verdict>>

Block == {"SERVER", "LOCATION"}
Kind == Block \cup {"PATH", "OPEN_BRACKET", "CLOSE_BRACKET", "SEMICOLON", "KEY", "VALUE"}

\* "undefined": the code reads memory it has no claim to.
TypeOK ==
  /\ tokenState \in {"SERVER", "LOCATION", "PATH", "KEY", "VALUE"}
  /\ prev \in {"none"} \cup Kind
  /\ bracket \in Seq(Block \cup {"OPEN_BRACKET"})
  /\ stackState \in {"none"} \cup Block
  /\ blockCount \in Nat
  /\ verdict \in {"reading", "accepted", "refused", "undefined"}

Init ==
  /\ tokenState = "SERVER"
  /\ prev = "none"
  /\ bracket = <<>>
  /\ stackState = "none"
  /\ blockCount = 0
  /\ verdict = "reading"

-----------------------------------------------------------------------------
(***************************************************************************)
(* setCheckList.  The states SEMICOLON and CLOSE_BRACKET that it tests for *)
(* are never entered: ";" leads to KEY, and "}" changes the state in these *)
(* two only.                                                               *)
(***************************************************************************)

\* (variant: "{" opens a block in any state)
kindOfAnyBrace(t) ==
  CASE t = "server" -> "SERVER"
    [] t = "location" /\ tokenState = "KEY" -> "LOCATION"
    [] t = "{" -> "OPEN_BRACKET"
    [] t = "}" -> "CLOSE_BRACKET"
    [] t = ";" /\ tokenState = "VALUE" -> "SEMICOLON"
    [] OTHER -> CASE tokenState \in {"PATH", "LOCATION"} -> "PATH"
                  [] tokenState = "KEY" /\ t # ";" -> "KEY"
                  [] tokenState = "VALUE" -> "VALUE"
                  [] OTHER -> "INVALID"

\* The kind of token t: keywords and punctuation where they may stand, and
\* otherwise whatever the state expects, "INVALID" where it expects no word.
kindOf(t) ==
  CASE t = "server" -> "SERVER"
    [] t = "location" /\ tokenState = "KEY" -> "LOCATION"
    [] t = "{" /\ tokenState \in {"PATH", "SERVER"} -> "OPEN_BRACKET"
    [] t = "}" -> "CLOSE_BRACKET"
    [] t = ";" /\ tokenState = "VALUE" -> "SEMICOLON"
    [] OTHER -> CASE tokenState \in {"PATH", "LOCATION"} -> "PATH"
                  [] tokenState = "KEY" /\ t # ";" -> "KEY"
                  [] tokenState = "VALUE" -> "VALUE"
                  [] OTHER -> "INVALID"

setCheckList(kind) ==
  tokenState' = CASE kind \in Block \cup {"PATH"} -> kind
                  [] kind \in {"OPEN_BRACKET", "SEMICOLON"} -> "KEY"
                  [] kind = "KEY" -> "VALUE"
                  [] OTHER -> tokenState

-----------------------------------------------------------------------------
(***************************************************************************)
(* checkSyntax.                                                            *)
(***************************************************************************)

Depth == Len(bracket)

\* The entry that is i-th from the bottom, if there is one.
Entry(i) == IF i \in DOMAIN bracket THEN bracket[i] ELSE "none"

\* Neighbours that checkSyntax does not let stand, whatever is open.
BadNeighbours(kind) ==
  \/ prev = kind /\ kind \notin {"PATH", "CLOSE_BRACKET", "VALUE"}
  \/ prev = "VALUE" /\ kind \in {"LOCATION", "CLOSE_BRACKET"}
  \/ prev = "KEY" /\ kind = "SEMICOLON"

\* push() throws for a block in a block of its kind; pop() when no "{" is
\* innermost, or when what is below it is not the keyword of a block.
Throws(kind) ==
  \/ BadNeighbours(kind)
  \/ kind \in Block /\ stackState = kind
  \/ kind = "CLOSE_BRACKET" /\ Entry(Depth) # "OPEN_BRACKET"
  \/ kind = "CLOSE_BRACKET" /\ Depth > 1 /\ Entry(Depth - 1) \notin Block

\* With the "{" popped there is no entry left for _bracket.top() to read.
ReadsEmptyStack(kind) == kind = "CLOSE_BRACKET" /\ bracket = <<"OPEN_BRACKET">>

push(kind) ==
  /\ bracket' = Append(bracket, kind)
  /\ stackState' = IF kind \in Block THEN kind ELSE stackState
  /\ blockCount' = blockCount + IF kind \in Block THEN 1 ELSE 0

pop ==
  /\ bracket' = SubSeq(bracket, 1, Depth - 2)
  /\ stackState' = IF Entry(Depth - 1) = "SERVER" THEN "none" ELSE "SERVER"
  /\ blockCount' = blockCount - 1

checkSyntax(kind) ==
  /\ prev' = kind
  /\ \/ kind \in Block \cup {"OPEN_BRACKET"} /\ push(kind)
     \/ kind = "CLOSE_BRACKET" /\ pop
     \/ /\ kind \notin Block \cup {"OPEN_BRACKET", "CLOSE_BRACKET"}
        /\ UNCHANGED <<bracket, stackState, blockCount>>

-----------------------------------------------------------------------------
\* The file's fate is settled before its end.
Settle(fate) ==
  /\ verdict = "reading"
  /\ verdict' = fate
  /\ UNCHANGED <<tokenState, prev, bracket, stackState, blockCount>>

Refuse(t) == (kindOf(t) = "INVALID" \/ Throws(kindOf(t))) /\ Settle("refused")

\* What top() finds on an empty stack is anything.
Stray(t) ==
  /\ ~Throws(kindOf(t)) /\ ReadsEmptyStack(kindOf(t))
  /\ Settle("undefined")

Accept(t) ==
  LET kind == kindOf(t)
  IN  /\ verdict = "reading" /\ kind # "INVALID"
      /\ ~Throws(kind) /\ ~ReadsEmptyStack(kind)
      /\ kind \in Block \cup {"OPEN_BRACKET"} => Depth < MaxDepth
      /\ setCheckList(kind)
      /\ checkSyntax(kind)
      /\ UNCHANGED verdict

\* checkSameKey and setValue come after these passes and may throw, or walk
\* past the last token.
LaterPass == Settle("refused") \/ Settle("undefined")

\* (variant: the blocks are not counted at the end)
EndOfFileUncounted == Settle("accepted")

EndOfFile == Settle(IF blockCount = 0 THEN "accepted" ELSE "refused")

Next ==
  \/ \E t \in Token : Accept(t) \/ Refuse(t) \/ Stray(t)
  \/ LaterPass
  \/ EndOfFile

Spec == Init /\ [][Next]_syntaxVars

-----------------------------------------------------------------------------
\* Where a block was opened on the stack.
Opened == {i \in DOMAIN bracket : bracket[i] \in Block}

\* _blockCount, an unsigned int, is the number of blocks on the stack: it
\* never wraps around, although it is counted down in pop() and up in push()
\* under different conditions.
CountsBlocks == blockCount = Cardinality(Opened)

\* Every "{" but one that begins the file stands on the keyword of a block: so
\* pop() can do without its last error, "server or location is not exist", and
\* reads the top of an empty stack where that error was meant to be.
BracesHaveBlocks ==
  \A i \in 2 .. Depth : bracket[i] = "OPEN_BRACKET" => bracket[i - 1] \in Block

\* A file is accepted with every block closed; all that may be left open is a
\* "{" that the file began with.
AcceptedClosed ==
  verdict = "accepted" => bracket \in {<<>>, <<"OPEN_BRACKET">>}

\* What the automaton of setCheckList knows of the stack of checkSyntax: after
\* "server", and from "location" to its "{", that keyword is on top.
StateFitsTop ==
  /\ tokenState = "SERVER" => bracket = <<>> \/ Entry(Depth) = "SERVER"
  /\ tokenState \in {"LOCATION", "PATH"} => Entry(Depth) = "LOCATION"

\* The inductive invariant: the count needs braces to stand on blocks, which
\* needs the two passes to agree on what is on top.
SyntaxInv ==
  /\ TypeOK
  /\ CountsBlocks
  /\ BracesHaveBlocks
  /\ StateFitsTop
  /\ AcceptedClosed
=============================================================================
