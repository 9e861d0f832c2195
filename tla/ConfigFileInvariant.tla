------------------------ MODULE ConfigFileInvariant --------------------------
(***************************************************************************)
(* The inductive invariant of ConfigFile: after every token that follows   *)
(* the grammar, what each of the four passes has come to fits what has     *)
(* been described so far.                                                  *)
(***************************************************************************)
EXTENDS ConfigFile

InLocation == {"open", "inner", "innerKey", "innerValue"}
Position ==
  {"file", "server", "block", "key", "value", "path"} \cup InLocation

\* What the first two passes have come to where the grammar has.
Automaton(states, before) == tokenState \in states /\ prev \in before
Stack(kinds, block, count) ==
  bracket = kinds /\ stackState = block /\ blockCount = count

SyntaxFits ==
  /\ at = "file" => Automaton({"SERVER", "KEY"}, {"none", "CLOSE_BRACKET"})
  /\ at = "server" => Automaton({"SERVER"}, {"SERVER"})
  /\ at = "path" => Automaton({"LOCATION"}, {"LOCATION"})
  /\ at = "open" => Automaton({"PATH"}, {"PATH"})
  /\ at \in {"block", "inner"} =>
       Automaton({"KEY"}, {"OPEN_BRACKET", "SEMICOLON", "CLOSE_BRACKET"})
  /\ at \in {"key", "innerKey"} => Automaton({"VALUE"}, {"KEY"})
  /\ at \in {"value", "innerValue"} => Automaton({"VALUE"}, {"VALUE"})
  /\ at = "file" => Stack(<<>>, "none", 0)
  /\ at = "server" => Stack(<<"SERVER">>, "SERVER", 1)
  /\ at \in {"block", "key", "value"} => Stack(<<"SERVER", "OPEN_BRACKET">>, "SERVER", 1)
  /\ at \in {"path", "open"} =>
       Stack(<<"SERVER", "OPEN_BRACKET", "LOCATION">>, "LOCATION", 2)
  /\ at \in {"inner", "innerKey", "innerValue"} =>
       Stack(<<"SERVER", "OPEN_BRACKET", "LOCATION", "OPEN_BRACKET">>, "LOCATION", 2)

\* The locations of server s that have been closed.
Closed(pos, s) == IF pos \in InLocation THEN Front(s.locations) ELSE s.locations

PathsOf(locations) == [i \in DOMAIN locations |-> locations[i].path]

\* The keys of block b that have a value.
Given(b) == {d.key : d \in {e \in ToSet(b.directives) : e.values # <<>>}}

\* Only the key that has just been read has no value yet.
Complete(b, waiting) ==
  \A i \in DOMAIN b.directives :
    b.directives[i].values = <<>> => waiting /\ i = Len(b.directives)

Directives == [key : DOMAIN Values, values : Seq(Word)]
Locations == [path : Path, directives : Seq(Directives), locations : {<<>>}]
Servers == [path : {"none"}, directives : Seq(Directives), locations : Seq(Locations)]

\* A server that is being described: where the grammar may be in it, and what
\* checkSameKey and setValue have let pass.
ServerFits(pos, s) ==
  /\ s \in Servers
  /\ pos = "server" => s.directives = <<>>
  /\ pos \in {"server", "key", "value"} => s.locations = <<>>
  /\ pos \in {"key", "value"} => s.directives # <<>>
  /\ Complete(s, pos = "key")
  /\ ~Faulty(s, ServerKey) /\ ValuesOf(s, "listen") \subseteq Port
  /\ pos \in InLocation => s.locations # <<>>
  /\ \A i \in DOMAIN s.locations :
       LET l == s.locations[i]
       IN  /\ Complete(l, pos = "innerKey" /\ i = Len(s.locations))
           /\ ~Faulty(l, LocationKey)
           /\ i = Len(s.locations) =>
                /\ pos = "open" => l.directives = <<>>
                /\ pos \in {"innerKey", "innerValue"} => l.directives # <<>>
  /\ ~Repeats(PathsOf(Closed(pos, s)))

\* checkSameKey knows the keys of the block it is in, but for those of a server
\* that has locations.
KeysFit(pos, s) ==
  /\ pos = "path" => same.block = "LOCATION" /\ same.LOCATION = {}
  /\ pos \in InLocation =>
       same.block = "LOCATION" /\ same.LOCATION = ToSet(KeysOf(Last(s.locations)))
  /\ pos \notin {"path"} \cup InLocation /\ s.locations = <<>> =>
       same.block = "SERVER" /\ same.SERVER = ToSet(KeysOf(s))

\* setValue knows the block and the key it is in.
FillingFits(pos, s) ==
  filling = [block |-> IF pos \in {"path"} \cup InLocation THEN "LOCATION" ELSE "SERVER",
             key |-> CASE pos \in {"key", "value"} -> Last(s.directives).key
                       [] pos \in {"innerKey", "innerValue"} ->
                            Last(Last(s.locations).directives).key
                       [] OTHER -> "none"]

LocationMeant(l) == [path |-> l.path, keys |-> ToSet(KeysOf(l))]

\* setValue's objects have been given what s has said so far.
ObjectsFit(pos, s) ==
  /\ server = [listen |-> server.listen,
               names |-> ValuesOf(s, "server_name"),
               keys |-> Given(s) \ {"listen", "server_name"},
               locations |-> {LocationMeant(l) : l \in ToSet(Closed(pos, s))}]
  /\ \A d \in ToSet(s.directives) :
       d.key = "listen" /\ d.values # <<>> => server.listen = Last(d.values)
  /\ pos = "path" => location = NewLocation
  /\ pos \in InLocation =>
       location = [path |-> Last(s.locations).path, keys |-> Given(Last(s.locations))]

\* Servers that have been described and handed to Operation.
HandedOver(closed) ==
  /\ closed \in Seq(Servers)
  /\ servers = [i \in DOMAIN closed |-> Meaning(closed[i])]
  /\ \A i \in DOMAIN closed : ~FaultyServer(closed[i])
  /\ \A i, j \in DOMAIN closed :
       i < j => \/ Meaning(closed[i]).listen # Meaning(closed[j]).listen
                \/ Meaning(closed[i]).names \cap Meaning(closed[j]).names = {}

SameType ==
  same \in [block : Block, SERVER : SUBSET ServerKey, LOCATION : SUBSET LocationKey]

\* Between servers, and within the last one.
Agrees ==
  /\ SyntaxFits
  /\ SameType
  /\ at = "file" =>
       HandedOver(file) /\ filling = [block |-> "SERVER", key |-> "none"]
  /\ at # "file" =>
       /\ file \in Seq(Servers) /\ file # <<>>
       /\ HandedOver(Front(file))
       /\ ServerFits(at, Last(file)) /\ KeysFit(at, Last(file))
       /\ FillingFits(at, Last(file)) /\ ObjectsFit(at, Last(file))

FileInv ==
  /\ at \in Position \cup {"any"}
  /\ AsDescribed
  /\ at # "any" /\ verdict = "reading" => Agrees
=============================================================================
