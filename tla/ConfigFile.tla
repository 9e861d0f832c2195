------------------------------ MODULE ConfigFile ------------------------------
(***************************************************************************)
(* Configuration reading files that follow the grammar of conf/default.conf*)
(* and what such a file says, defined from its blocks and not from its     *)
(* tokens:                                                                 *)
(*                                                                         *)
(*   file      = server*                                                   *)
(*   server    = "server" "{" (directive | location)* "}"                  *)
(*   location  = "location" path "{" directive* "}"                        *)
(*   directive = key value+ ";"                                            *)
(*                                                                         *)
(* Files that need not follow the grammar are read too, by the passes of   *)
(* ConfigSyntax alone.                                                     *)
(***************************************************************************)
EXTENDS Configuration

CONSTANTS
  Values,        \* the values a file may give each key
  Path,          \* the paths of its locations
  MaxToken,      \* how many tokens a file has
  Interleaved    \* may directives follow a location?

\* Keys, values and paths are words; setValue has "none" for no key.
ASSUME GrammarAssumption ==
  /\ DOMAIN Values \subseteq Word /\ "none" \notin DOMAIN Values
  /\ \A k \in DOMAIN Values : Values[k] \subseteq Word
  /\ Path \subseteq Word

VARIABLES
  file,  \* the servers described so far
  at,    \* where in the grammar the last token has led, "any" outside of it
  read   \* how many tokens have been read

fileVars == <<configVars, file, at, read>>

FileInit ==
  /\ ConfigInit /\ file = <<>> /\ at \in {"file", "any"} /\ read = 0
  /\ at = "any" => same.SERVER = {} /\ server.listen = NoPort   \* never looked at

\* The block being described: the last server, or its last location.
Here ==
  IF at \in {"inner", "innerKey", "innerValue"}
  THEN Last(Last(file).locations) ELSE Last(file)

\* file with block b in the place of Here.
With(b) ==
  IF at \in {"inner", "innerKey", "innerValue"}
  THEN LET s == Last(file)
       IN  Append(Front(file),
                  [s EXCEPT !.locations = Append(Front(@), b)])
  ELSE Append(Front(file), b)

Block0(path) == [path |-> path, directives |-> <<>>, locations |-> <<>>]
Directive(key) == [key |-> key, values |-> <<>>]

\* "}" ends a server only if the server listens somewhere.
Listens(s) == \E d \in ToSet(s.directives) : d.key = "listen"

\* The grammar: token t may stand here, and this is what it adds to the file.
Goto(pos) == at' = pos /\ UNCHANGED file

Describe(t) ==
  \/ /\ at = "file" /\ t = "server" /\ Len(file) < MaxServer
     /\ file' = Append(file, Block0("none")) /\ at' = "server"
  \/ at = "server" /\ t = "{" /\ Goto("block")
  \/ /\ at \in {"block", "inner"} /\ t \in DOMAIN Values
     /\ at = "block" /\ ~Interleaved => Here.locations = <<>>
     /\ file' = With([Here EXCEPT !.directives = Append(@, Directive(t))])
     /\ at' = IF at = "block" THEN "key" ELSE "innerKey"
  \/ /\ at \in {"key", "value", "innerKey", "innerValue"}
     /\ LET d == Last(Here.directives)
        IN  /\ t \in Values[d.key]
            /\ file' = With([Here EXCEPT
                 !.directives = Append(Front(@), [d EXCEPT !.values = Append(@, t)])])
     /\ at' = IF at \in {"key", "value"} THEN "value" ELSE "innerValue"
  \/ at = "value" /\ t = ";" /\ Goto("block")
  \/ at = "innerValue" /\ t = ";" /\ Goto("inner")
  \/ /\ at = "block" /\ t = "location" /\ Goto("path")
  \/ /\ at = "path" /\ t \in Path
     /\ file' = With([Here EXCEPT !.locations = Append(@, Block0(t))])
     /\ at' = "open"
  \/ at = "open" /\ t = "{" /\ Goto("inner")
  \/ at = "inner" /\ t = "}" /\ Goto("block")
  \/ at = "block" /\ t = "}" /\ Listens(Here) /\ Goto("file")

FileNext ==
  \/ \E t \in Token : Parse(t) /\ Describe(t) /\ read < MaxToken /\ read' = read + 1
  \/ at = "file" /\ Finish /\ UNCHANGED <<file, at, read>>
  \/ at = "any" /\ Next /\ UNCHANGED <<valueVars, file, at, read>>

FileSpec == FileInit /\ [][FileNext]_fileVars

-----------------------------------------------------------------------------
(***************************************************************************)
(* What a file says.                                                       *)
(***************************************************************************)

Repeats(seq) == Cardinality(ToSet(seq)) < Len(seq)
KeysOf(b) == [i \in DOMAIN b.directives |-> b.directives[i].key]
ValuesOf(b, key) ==
  UNION {ToSet(d.values) : d \in {e \in ToSet(b.directives) : e.key = key}}

Faulty(b, keys) ==
  \/ Repeats(KeysOf(b)) \/ ~(ToSet(KeysOf(b)) \subseteq keys)
FaultyServer(s) ==
  \/ Faulty(s, ServerKey)
  \/ ~(ValuesOf(s, "listen") \subseteq Port)
  \/ \E l \in ToSet(s.locations) : Faulty(l, LocationKey)
  \/ Repeats([i \in DOMAIN s.locations |-> s.locations[i].path])

Meaning(s) ==
  [listen |-> Last((CHOOSE d \in ToSet(s.directives) : d.key = "listen").values),
   names |-> ValuesOf(s, "server_name"),
   keys |-> ToSet(KeysOf(s)) \ {"listen", "server_name"},
   locations |-> {[path |-> l.path, keys |-> ToSet(KeysOf(l))] : l \in ToSet(s.locations)}]

FaultyFile ==
  \/ \E s \in ToSet(file) : FaultyServer(s)
  \/ \E i, j \in DOMAIN file :
       /\ i < j
       /\ Meaning(file[i]).listen = Meaning(file[j]).listen
       /\ Meaning(file[i]).names \cap Meaning(file[j]).names # {}

\* A file whose servers give their directives before their locations is
\* accepted if it has no unknown key, no key or path twice in a block, no port
\* 0 and no name twice on a port, and its servers are those it describes; any
\* other such file is refused, and none sends setValue past its end.  The four
\* passes each keep their own idea of the block they are in.
AsDescribed ==
  at # "any" =>
    /\ verdict = "accepted" =>
         ~FaultyFile /\ servers = [i \in DOMAIN file |-> Meaning(file[i])]
    /\ verdict = "refused" => FaultyFile
    /\ verdict # "undefined"

\* checkSameKey says "Error: Same Server Key error" of a server that gives a
\* key twice.
ServerKeysOnce ==
  verdict = "accepted" => \A s \in ToSet(file) : ~Repeats(KeysOf(s))
=============================================================================
