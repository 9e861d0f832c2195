------------------------------- MODULE Routing -------------------------------
(***************************************************************************)
(* From a request's header to a server, a location and a file: what        *)
(* Request::handleRequest does between READY and DONE, on a connection     *)
(* that carries one request after another.                                 *)
(*                                                                         *)
(* A path is a sequence of characters; a field line is a host name or      *)
(* "spoiled", one that setFieldLine refuses.                               *)
(***************************************************************************)
EXTENDS Naturals, Sequences, SequencesExt

CONSTANTS
  Char,      \* the characters of paths, "/" among them
  Name,      \* the names of servers and hosts
  Ports,     \* what a port may have been configured with: sequences of servers
  Requests   \* the requests a peer may make

Method == {"GET", "DELETE", "POST", "PUT"}
Path == Seq(Char)

\* An empty root is one that was not configured; "other" stands for the words of
\* limit_except that are no method.
Location == [path : Path, root : Path, limitExcept : SUBSET (Method \cup {"other"})]
Server == [names : SUBSET Name, root : Path, locations : Seq(Location)]
Request == [method : Method \cup {"HEAD"}, path : Path, version : {"1.0", "1.1"},
            fields : Seq(Name \cup {"spoiled"})]

\* Operation::setServer refuses a second server of a name on a port, and
\* Server::setLocation a second location of a path; the automaton of
\* Configuration takes nothing for a location's path that has no "/" first.
Configurable(servers) ==
  /\ servers # <<>>
  /\ \A i, j \in DOMAIN servers :
       i # j => servers[i].names \cap servers[j].names = {}
  /\ \A i \in DOMAIN servers : LET L == servers[i].locations IN
       \A j, k \in DOMAIN L :
         /\ L[j].path # <<>> /\ L[j].path[1] = "/"
         /\ L[j].path = L[k].path => j = k

ASSUME PortsAssumption == Ports \subseteq Seq(Server)
ASSUME RequestsAssumption == Requests \subseteq Request

VARIABLES
  servers,   \* the servers of this port
  request,   \* the request that is being handled
  code,      \* "none", "routed", or the int that was thrown
  host,      \* _host, "" before the first Host field
  server,    \* the index of _server, 0 before the first request
  location,  \* _location
  convertRequestPath

vars == <<servers, request, code, host, server, location, convertRequestPath>>

NoRequest == [method |-> "GET", path |-> <<>>, version |-> "1.1", fields |-> <<>>]
NoLocation == [path |-> <<>>, root |-> <<>>, limitExcept |-> {}]

Init ==
  /\ servers \in {s \in Ports : Configurable(s)}
  /\ request = NoRequest /\ code = "none"
  /\ host = "" /\ server = 0 /\ location = NoLocation
  /\ convertRequestPath = <<>>

-----------------------------------------------------------------------------
(***************************************************************************)
(* The header.                                                             *)
(***************************************************************************)

\* setRequestLine: what it throws, "none" if nothing.
RequestLineThrows(r) ==
  IF r.method \notin Method THEN "405"
  ELSE IF r.version # "1.1" THEN "505" ELSE "none"

\* setFieldLine for each line up to one that is refused; the last Host counts,
\* and without one _host stays what the request before has left.
setFieldLines(r) ==
  LET lines == SelectInSeq(r.fields, LAMBDA f : f = "spoiled")
      good  == IF lines = 0 THEN r.fields ELSE SubSeq(r.fields, 1, lines - 1)
  IN  IF good = <<>> THEN host ELSE Last(good)

-----------------------------------------------------------------------------
(***************************************************************************)
(* The server, the location and the file.                                  *)
(***************************************************************************)

\* (variant: the last server is taken when none has the name)
findServerLast(h) ==
  LET i == SelectInSeq(servers, LAMBDA s : h \in s.names)
  IN  IF i = 0 THEN Len(servers) ELSE i

\* The first server with the name, else the first of the port.
findServer(h) ==
  LET i == SelectInSeq(servers, LAMBDA s : h \in s.names)
  IN  IF i = 0 THEN 1 ELSE i

\* (variant: any location that matches replaces the one found before)
LongerAny(found, l, path) == IsPrefix(l.path, path)

Longer(found, l, path) ==
  IsPrefix(l.path, path) /\ Len(found.path) < Len(l.path)

\* The loop of findLocationPath; a location without a path when none matches.
findLocation(s, path) ==
  FoldLeft(LAMBDA found, l : IF Longer(found, l, path) THEN l ELSE found,
           NoLocation, servers[s].locations)

EffectiveRoot(s, l) == IF l.root # <<>> THEN l.root ELSE servers[s].root

\* (variant: "/" is erased as every other location is)
ErasedAlways(l, path) == SubSeq(path, Len(l.path) + 1, Len(path))

Erased(l, path) ==
  IF Len(l.path) = 1 THEN path ELSE SubSeq(path, Len(l.path) + 1, Len(path))

\* The location's path is replaced by the root, if one is configured, and a
\* slash at the end is dropped.
findLocationPath(s, l, path) ==
  LET root == EffectiveRoot(s, l)
      whole == IF root = <<>> THEN path ELSE root \o Erased(l, path)
  IN  IF whole # <<>> /\ Last(whole) = "/" THEN Front(whole) ELSE whole

\* (variant: an empty list allows everything)
ForbiddenListed(l, m) == l.limitExcept # {} /\ m \notin l.limitExcept

\* checkLimitExcept: a location without a list allows all but DELETE.
Forbidden(l, m) ==
  IF l.limitExcept = {} THEN m = "DELETE" ELSE m \notin l.limitExcept

-----------------------------------------------------------------------------
Refuse(int) == code' = int /\ UNCHANGED <<server, location, convertRequestPath>>

\* handleRequest, once the whole header has arrived.
handleRequest(r) ==
  /\ code = "none"
  /\ request' = r
  /\ UNCHANGED servers
  /\ \/ /\ RequestLineThrows(r) # "none"
        /\ Refuse(RequestLineThrows(r))
        /\ UNCHANGED host
     \/ /\ RequestLineThrows(r) = "none"
        /\ host' = setFieldLines(r)
        /\ \/ Contains(r.fields, "spoiled") /\ Refuse("400")
           \/ /\ ~Contains(r.fields, "spoiled")
              /\ server' = findServer(host')
              /\ LET l == findLocation(server', r.path) IN
                   \/ /\ l = NoLocation
                      /\ code' = "400"
                      /\ UNCHANGED <<location, convertRequestPath>>
                   \/ /\ l # NoLocation
                      /\ location' = l
                      /\ convertRequestPath' = findLocationPath(server', l, r.path)
                      /\ code' = IF Forbidden(l, r.method) THEN "405" ELSE "routed"

\* The answer has been sent and clearRequest called: the host, the server and
\* the location stay.  After a 405 the connection is closed instead.
clearRequest ==
  /\ code \notin {"none", "405"}
  /\ code' = "none" /\ request' = NoRequest /\ convertRequestPath' = <<>>
  /\ UNCHANGED <<servers, host, server, location>>

Next == clearRequest \/ \E r \in Requests : handleRequest(r)

Spec == Init /\ [][Next]_vars

-----------------------------------------------------------------------------
\* The header was accepted.
Parsed ==
  /\ code # "none" /\ RequestLineThrows(request) = "none"
  /\ ~Contains(request.fields, "spoiled")

\* A request with a Host is served by the server of that name wherever in the
\* configuration it stands, and by the port's first server when no server has
\* the name, whatever the requests before it on the connection have left.
\* Request.hpp keeps _host, _server and _location from one to the next.
RoutedByHost ==
  Parsed /\ request.fields # <<>> =>
    LET named == {i \in DOMAIN servers : Last(request.fields) \in servers[i].names}
    IN  server \in IF named = {} THEN {1} ELSE named

Matching == {l \in Range(servers[server].locations) : IsPrefix(l.path, request.path)}

\* The location of a request is the one with the longest path that its path
\* begins with, in whatever order locations are configured; without one the
\* request is refused, and an earlier request's location is not used instead.
LongestPrefix ==
  Parsed =>
    \/ Matching = {} /\ code = "400"
    \/ /\ code # "400" /\ location \in Matching
       /\ \A l \in Matching : Len(l.path) <= Len(location.path)

\* The names in a path, with its i-th character when they are those before it.
WithNext(names, path, i) ==
  IF path[i] = "/" THEN names
  ELSE IF i = 1 \/ path[i - 1] = "/" THEN Append(names, <<path[i]>>)
  ELSE [names EXCEPT ![Len(names)] = Append(@, path[i])]

\* The names between the slashes of a path.
Components(path) ==
  LET names[i \in 0 .. Len(path)] ==
        IF i = 0 THEN <<>> ELSE WithNext(names[i - 1], path, i)
  IN  names[Len(path)]

\* The location is "/", or does not end in a slash and ends in the path where a
\* name ends.
AtBoundary(l, path) ==
  \/ l.path = <<"/">>
  \/ /\ Last(l.path) # "/"
     /\ Len(path) = Len(l.path) \/ path[Len(l.path) + 1] = "/"

\* The file of a request lies in its root, under the names that follow the
\* location in the path, if the location ends there where a name ends; so that
\* a GET under a root with a name has a last component to look at.
FileInRoot ==
  code = "routed" /\ AtBoundary(location, request.path) =>
    Components(convertRequestPath) =
      LET root == EffectiveRoot(server, location)
          asked == Components(request.path)
      IN  IF root = <<>> THEN asked
          ELSE Components(root) \o
               SubSeq(asked, Len(Components(location.path)) + 1, Len(asked))

\* What is carried out is allowed by the location the request belongs to: of
\* the longest path that matches, not of another one; and a DELETE only where
\* a location says so.
OnlyAllowed ==
  code = "routed" =>
    \A l \in Matching :
      (\A m \in Matching : Len(m.path) <= Len(l.path)) =>
        \/ request.method \in l.limitExcept
        \/ l.limitExcept = {} /\ request.method # "DELETE"
=============================================================================
