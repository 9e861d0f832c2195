------------------------------ MODULE MCRouting ------------------------------
(***************************************************************************)
(* Ports with two servers, the first with one or two of five locations that *)
(* are prefixes of each other; short paths of slashes and two letters.     *)
(***************************************************************************)
EXTENDS Routing

SomeChar == {"/", "a", "b", "r"}
SomeName == {"one", "two", "other"}

\* A limit for each location, and for every second one a root.
SomeLocations ==
  [path : {<<"/">>, <<"/", "a">>, <<"/", "a", "/">>, <<"/", "a", "b">>,
           <<"/", "a", "/", "b">>},
   root : {<<>>, <<"/", "r">>},
   limitExcept : {{}, {"GET", "DELETE"}}]

FirstServers ==
  [names : {{"one"}}, root : {<<>>, <<"/", "b", "/">>},
   locations : {<<l>> : l \in SomeLocations} \cup
               {s \in SomeLocations \X SomeLocations :
                  s[1].limitExcept # s[2].limitExcept}]

Second == [names |-> {"two"}, root |-> <<"/", "b">>,
           locations |-> <<[path |-> <<"/", "a">>, root |-> <<>>, limitExcept |-> {"GET"}],
                           [path |-> <<"/", "b">>, root |-> <<>>, limitExcept |-> {"other"}]>>]

SomePorts == {<<s, Second>> : s \in FirstServers} \cup {<<Second>>}

SomePaths == {<<"/">> \o p : p \in UNION {[1 .. n -> {"/", "a", "b"}] : n \in 0 .. 2}}
             \cup {<<"a">>, <<"/", "a", "/", "b">>, <<"/", "a", "b", "/">>,
                   <<"/", "a", "/", "b", "/">>}

SomeRequests ==
  [method : {"GET", "DELETE"}, path : SomePaths, version : {"1.1"},
   fields : {<<>>, <<"one">>, <<"two">>, <<"two", "other">>}]
  \cup
  [method : {"HEAD", "POST"}, path : {<<"/", "a">>}, version : {"1.0", "1.1"},
   fields : {<<"two">>, <<"spoiled", "two">>, <<"other", "one", "spoiled">>}]
=============================================================================
