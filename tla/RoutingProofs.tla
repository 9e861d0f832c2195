--------------------------- MODULE RoutingProofs ---------------------------
(***************************************************************************)
(* Requests are routed as they should be, proved for any configuration     *)
(* that Configuration accepts and paths of any length.                     *)
(***************************************************************************)
EXTENDS Routing, Integers, SequenceTheorems, WellFoundedInduction, TLAPS

-----------------------------------------------------------------------------
(***************************************************************************)
(* The inductive invariant.                                                *)
(***************************************************************************)

\* What a request whose header was accepted comes to.
Routed ==
  /\ request.fields # <<>> => host = Last(request.fields)
  /\ server = findServer(host)
  /\ LET l == findLocation(server, request.path) IN
       \/ l = NoLocation /\ code = "400"
       \/ /\ l # NoLocation /\ location = l
          /\ convertRequestPath = findLocationPath(server, l, request.path)
          /\ code = IF Forbidden(l, request.method) THEN "405" ELSE "routed"

RoutingInv ==
  /\ servers \in Ports /\ Configurable(servers)
  /\ request \in Requests \cup {NoRequest}
  /\ Parsed => Routed
  /\ code = "routed" => Parsed

-----------------------------------------------------------------------------
(***************************************************************************)
(* Induction, by the least number for which something fails.               *)
(***************************************************************************)

\* A set of numbers that is not empty has a least one.
LEMMA Least ==
  ASSUME NEW T \in SUBSET Nat, T # {}
  PROVE  Min(T) \in T /\ \A y \in T : Min(T) <= y
<1>1. PICK m \in T : \A y \in T : <<y, m>> \notin OpToRel(<, Nat)
  <2>1. IsWellFoundedOn(OpToRel(<, Nat), Nat)
    BY NatLessThanWellFounded
  <2> QED BY <2>1, WFMin
<1>2. ASSUME NEW y \in T
      PROVE  m <= y
  <2>1. <<y, m>> \notin OpToRel(<, Nat) /\ y \in Nat /\ m \in Nat
    BY <1>1
  <2>2. ~(y < m)
    BY <2>1 DEF OpToRel
  <2>3. y \in Nat /\ m \in Nat
    OBVIOUS
  <2> QED BY <2>2, <2>3
<1> QED BY <1>2 DEF Min

\* A set of numbers with 0 and the successors of its numbers below n.
LEMMA UpTo ==
  ASSUME NEW n \in Nat, NEW P, 0 \in P, \A m \in 0 .. n - 1 : m \in P => m + 1 \in P
  PROVE  \A m \in 0 .. n : m \in P
<1> DEFINE T == {m \in 0 .. n : m \notin P}
<1> SUFFICES ASSUME T # {} PROVE FALSE
  OBVIOUS
<1>1. PICK m \in T : \A y \in T : m <= y
  <2>1. T \in SUBSET Nat
    OBVIOUS
  <2> HIDE DEF T
  <2> QED BY <2>1, Least
<1>2. m # 0 /\ m - 1 \in 0 .. n - 1
  OBVIOUS
<1>3. m - 1 \notin T
  BY <1>1, <1>2
<1>4. m - 1 \in P
  BY <1>2, <1>3
<1> QED BY <1>2, <1>4

-----------------------------------------------------------------------------
(***************************************************************************)
(* The server.                                                             *)
(***************************************************************************)

LEMMA ServerFound ==
  ASSUME NEW h, servers \in Seq(Server), servers # <<>>
  PROVE  LET named == {i \in DOMAIN servers : h \in servers[i].names}
         IN  /\ findServer(h) \in IF named = {} THEN {1} ELSE named
             /\ findServer(h) \in DOMAIN servers
<1> DEFINE I == {i \in 1 .. Len(servers) : h \in servers[i].names}
<1>1. Len(servers) \in Nat /\ Len(servers) # 0 /\ DOMAIN servers = 1 .. Len(servers)
  OBVIOUS
<1>2. I = {i \in DOMAIN servers : h \in servers[i].names}
  BY <1>1
<1>3. SelectInSeq(servers, LAMBDA s : h \in s.names) = IF I # {} THEN Min(I) ELSE 0
  BY DEF SelectInSeq
<1>4. I # {} => Min(I) \in I
  <2>1. I \in SUBSET Nat
    OBVIOUS
  <2> HIDE DEF I
  <2> QED BY <2>1, Least
<1>5. \A i \in I : i # 0 /\ i \in DOMAIN servers
  BY <1>1
<1>6. findServer(h) = IF I = {} THEN 1 ELSE Min(I)
  <2> HIDE DEF I
  <2> QED BY <1>3, <1>4, <1>5 DEF findServer
<1>7. 1 \in DOMAIN servers
  BY <1>1
<1> QED BY <1>2, <1>4, <1>5, <1>6, <1>7

-----------------------------------------------------------------------------
(***************************************************************************)
(* The location.                                                           *)
(***************************************************************************)

\* The body of findLocationPath's loop.
Better(found, l, path) == IF Longer(found, l, path) THEN l ELSE found

LEMMA LastOf ==
  ASSUME NEW m \in Nat, NEW s \in SUBSET (1 .. m + 1), m + 1 \in s
  PROVE  Max(s) = m + 1
<1>1. \A y \in s : m + 1 >= y /\ y \in Nat
  OBVIOUS
<1>2. Max(s) \in s /\ \A y \in s : Max(s) >= y
  BY <1>1 DEF Max
<1> DEFINE x == Max(s)
<1>3. x \in Nat /\ m + 1 >= x /\ x >= m + 1
  BY <1>1, <1>2
<1> HIDE DEF x
<1>4. x = m + 1
  BY <1>3
<1> QED BY <1>4 DEF x

\* The recursion by which FoldLeft is defined.
Follows(f, q, path, D) ==
  f = [s \in SUBSET D |->
         IF s = {} THEN NoLocation ELSE Better(f[s \ {Max(s)}], q[Max(s)], path)]

LEMMA FoldExists ==
  ASSUME NEW q, NEW path, NEW n \in Nat
  PROVE  \E f : Follows(f, q, path, 1 .. n)
<1> DEFINE P == {m \in 0 .. n : \E f : Follows(f, q, path, 1 .. m)}
<1>1. 0 \in P
  <2> DEFINE f == [s \in SUBSET (1 .. 0) |-> NoLocation]
  <2>1. \A s \in SUBSET (1 .. 0) : s = {}
    OBVIOUS
  <2>2. f = [s \in SUBSET (1 .. 0) |-> f[s]]
    OBVIOUS
  <2>3. \A s \in SUBSET (1 .. 0) :
          f[s] = IF s = {} THEN NoLocation ELSE Better(f[s \ {Max(s)}], q[Max(s)], path)
    BY <2>1
  <2> HIDE DEF f
  <2>4. Follows(f, q, path, 1 .. 0)
    BY <2>2, <2>3 DEF Follows
  <2>5. 0 \in 0 .. n
    OBVIOUS
  <2> QED BY <2>4, <2>5
<1>2. ASSUME NEW m \in 0 .. n - 1, m \in P
      PROVE  m + 1 \in P
  <2>1. PICK f : Follows(f, q, path, 1 .. m)
    BY <1>2
  <2> DEFINE g == [s \in SUBSET (1 .. m + 1) |->
                     IF s \in SUBSET (1 .. m) THEN f[s]
                     ELSE Better(f[s \ {m + 1}], q[m + 1], path)]
  <2>2. ASSUME NEW s \in SUBSET (1 .. m + 1)
        PROVE  g[s] = IF s = {} THEN NoLocation
                      ELSE Better(g[s \ {Max(s)}], q[Max(s)], path)
    <3>1. CASE s \in SUBSET (1 .. m)
      <4>1. g[s] = f[s]
        BY <3>1
      <4>2. f[s] = IF s = {} THEN NoLocation
                   ELSE Better(f[s \ {Max(s)}], q[Max(s)], path)
        BY <2>1, <3>1, Zenon DEF Follows
      <4>3. s \ {Max(s)} \in SUBSET (1 .. m) /\ s \ {Max(s)} \in SUBSET (1 .. m + 1)
        BY <3>1
      <4>4. g[s \ {Max(s)}] = f[s \ {Max(s)}]
        BY <4>3
      <4> HIDE DEF g
      <4> QED BY <4>1, <4>2, <4>4
    <3>2. CASE s \notin SUBSET (1 .. m)
      <4>1. m + 1 \in s /\ s # {}
        BY <3>2
      <4>2. Max(s) = m + 1
        BY <4>1, LastOf
      <4>3. g[s] = Better(f[s \ {m + 1}], q[m + 1], path)
        BY <3>2
      <4>4. s \ {m + 1} \in SUBSET (1 .. m) /\ s \ {m + 1} \in SUBSET (1 .. m + 1)
        OBVIOUS
      <4>5. g[s \ {m + 1}] = f[s \ {m + 1}]
        BY <4>4
      <4> HIDE DEF g
      <4> QED BY <4>1, <4>2, <4>3, <4>5
    <3> QED BY <3>1, <3>2
  <2>3. g = [s \in SUBSET (1 .. m + 1) |-> g[s]]
    OBVIOUS
  <2> HIDE DEF g
  <2>4. Follows(g, q, path, 1 .. m + 1)
    BY <2>2, <2>3 DEF Follows
  <2>5. m + 1 \in 0 .. n
    OBVIOUS
  <2> QED BY <2>4, <2>5
<1>3. n \in P
  <2> HIDE DEF P
  <2> QED BY <1>1, <1>2, UpTo
<1> QED BY <1>3

\* findLocation in a list of locations.
FoundIn(q, path) ==
  FoldLeft(LAMBDA found, l : IF Longer(found, l, path) THEN l ELSE found, NoLocation, q)

LEMMA Folded ==
  ASSUME NEW q \in Seq(Location), NEW path
  PROVE  \E f : Follows(f, q, path, 1 .. Len(q)) /\ FoundIn(q, path) = f[1 .. Len(q)]
<1> DEFINE f == CHOOSE f : f = [s \in SUBSET (DOMAIN q) |->
                                  IF s = {} THEN NoLocation
                                  ELSE IF Longer(f[s \ {Max(s)}], q[Max(s)], path)
                                       THEN q[Max(s)] ELSE f[s \ {Max(s)}]]
<1>1. f = CHOOSE g : Follows(g, q, path, DOMAIN q)
  BY Zenon DEF Follows, Better
<1>2. FoundIn(q, path) = f[DOMAIN q]
  BY Zenon DEF FoundIn, FoldLeft, MapThenFoldSet
<1> HIDE DEF f
<1>3. Len(q) \in Nat /\ DOMAIN q = 1 .. Len(q)
  OBVIOUS
<1>4. \E g : Follows(g, q, path, DOMAIN q)
  BY <1>3, FoldExists
<1>5. Follows(f, q, path, DOMAIN q)
  BY <1>1, <1>4, Zenon
<1> QED BY <1>2, <1>3, <1>5

\* l is the best of the first k locations of q for the path.
Best(q, path, k, l) ==
  \/ l = NoLocation /\ \A j \in 1 .. k : ~IsPrefix(q[j].path, path)
  \/ /\ \E j \in 1 .. k : l = q[j]
     /\ IsPrefix(l.path, path)
     /\ \A j \in 1 .. k : IsPrefix(q[j].path, path) => Len(q[j].path) <= Len(l.path)

LEMMA OneBetter ==
  ASSUME NEW q \in Seq(Location), NEW path, NEW m \in 0 .. Len(q) - 1,
         \A j \in DOMAIN q : q[j].path # <<>>, NEW l, Best(q, path, m, l)
  PROVE  Best(q, path, m + 1, Better(l, q[m + 1], path))
<1>1. m \in Nat /\ m + 1 \in 1 .. Len(q) /\ Len(q) \in Nat /\ DOMAIN q = 1 .. Len(q)
      /\ \A j \in 1 .. m + 1 : j \in 1 .. m \/ j = m + 1
  OBVIOUS
<1>2. \A j \in 1 .. m + 1 : Len(q[j].path) \in Nat /\ Len(q[j].path) > 0
  <2>1. ASSUME NEW j \in 1 .. m + 1
        PROVE  Len(q[j].path) \in Nat /\ Len(q[j].path) > 0
    <3>1. q[j] \in Location /\ q[j].path # <<>>
      BY <1>1
    <3>2. q[j].path \in Seq(Char)
      BY <3>1 DEF Location, Path
    <3> QED BY <3>1, <3>2
  <2> QED BY <2>1
<1>3. Len(NoLocation.path) = 0
  BY DEF NoLocation
<1> DEFINE x == q[m + 1]
<1>4. Len(l.path) \in Nat
  BY <1>1, <1>2, <1>3 DEF Best
<1>5. CASE Longer(l, x, path)
  <2>1. IsPrefix(x.path, path) /\ Len(l.path) < Len(x.path)
    BY <1>5 DEF Longer
  <2>2. \A j \in 1 .. m : IsPrefix(q[j].path, path) => Len(q[j].path) <= Len(x.path)
    <3>1. ASSUME NEW j \in 1 .. m, IsPrefix(q[j].path, path)
          PROVE  Len(q[j].path) <= Len(x.path)
      <4>1. Len(q[j].path) <= Len(l.path)
        BY <3>1 DEF Best
      <4>2. j \in 1 .. m + 1 /\ m + 1 \in 1 .. m + 1
        BY <1>1
      <4>3. Len(q[j].path) \in Nat /\ Len(x.path) \in Nat
        BY <1>2, <4>2
      <4> QED BY <1>4, <2>1, <4>1, <4>3
    <3> QED BY <3>1
  <2>3. Better(l, x, path) = x
    BY <1>5 DEF Better
  <2>4. Len(x.path) \in Nat /\ m + 1 \in 1 .. m + 1
    BY <1>1, <1>2
  <2> QED BY <1>1, <2>1, <2>2, <2>3, <2>4 DEF Best
<1>6. CASE ~Longer(l, x, path)
  <2>1. Better(l, x, path) = l
    BY <1>6 DEF Better
  <2>2. Len(x.path) \in Nat /\ Len(x.path) > 0
    BY <1>1, <1>2
  <2>3. IsPrefix(x.path, path) => Len(x.path) <= Len(l.path)
    BY <1>4, <1>6, <2>2 DEF Longer
  <2>4. CASE l = NoLocation /\ \A j \in 1 .. m : ~IsPrefix(q[j].path, path)
    <3>1. ~IsPrefix(x.path, path)
      BY <1>3, <2>2, <2>3, <2>4
    <3> QED BY <1>1, <2>1, <2>4, <3>1 DEF Best
  <2>5. CASE /\ \E j \in 1 .. m : l = q[j]
             /\ IsPrefix(l.path, path)
             /\ \A j \in 1 .. m : IsPrefix(q[j].path, path) => Len(q[j].path) <= Len(l.path)
    <3>1. \E j \in 1 .. m + 1 : l = q[j]
      BY <1>1, <2>5
    <3> QED BY <1>1, <2>1, <2>3, <2>5, <3>1 DEF Best
  <2> QED BY <2>4, <2>5 DEF Best
<1> QED BY <1>5, <1>6

LEMMA BestFound ==
  ASSUME NEW q \in Seq(Location), NEW path, \A j \in DOMAIN q : q[j].path # <<>>
  PROVE  Best(q, path, Len(q), FoundIn(q, path))
<1> DEFINE n == Len(q)
<1>1. n \in Nat
  OBVIOUS
<1>3. PICK f : Follows(f, q, path, 1 .. n) /\ FoundIn(q, path) = f[1 .. n]
  BY Folded
<1> DEFINE P == {m \in 0 .. n : Best(q, path, m, f[1 .. m])}
<1>4. 0 \in P
  <2>1. f[1 .. 0] = NoLocation
    <3>1. 1 .. 0 \in SUBSET (1 .. n) /\ 1 .. 0 = {}
      BY <1>1
    <3> QED BY <1>3, <3>1 DEF Follows
  <2> QED BY <1>1, <2>1 DEF Best
<1>5. ASSUME NEW m \in 0 .. n - 1, m \in P
      PROVE  m + 1 \in P
  <2>1. m \in Nat /\ 1 .. m + 1 \in SUBSET (1 .. n) /\ m + 1 \in 1 .. m + 1
        /\ (1 .. m + 1) \ {m + 1} = 1 .. m /\ m + 1 \in 0 .. n
    BY <1>1
  <2>2. Max(1 .. m + 1) = m + 1
    BY <2>1, LastOf
  <2>3. f[1 .. m + 1] = Better(f[(1 .. m + 1) \ {Max(1 .. m + 1)}], q[Max(1 .. m + 1)], path)
    BY <1>3, <2>1 DEF Follows
  <2>4. f[1 .. m + 1] = Better(f[1 .. m], q[m + 1], path)
    BY <2>1, <2>2, <2>3
  <2>5. Best(q, path, m + 1, Better(f[1 .. m], q[m + 1], path))
    BY <1>1, <1>5, OneBetter
  <2> QED BY <2>1, <2>4, <2>5
<1>6. n \in P
  <2>1. 0 \in P /\ \A m \in 0 .. n - 1 : m \in P => m + 1 \in P
    BY <1>4, <1>5
  <2> HIDE DEF P, n
  <2>2. \A m \in 0 .. n : m \in P
    BY <1>1, <2>1, UpTo
  <2>3. n \in 0 .. n
    BY <1>1
  <2> QED BY <2>2, <2>3
<1> QED BY <1>3, <1>6

LEMMA LocationFound ==
  ASSUME NEW s, NEW path, servers[s].locations \in Seq(Location),
         \A j \in DOMAIN servers[s].locations : servers[s].locations[j].path # <<>>
  PROVE  Best(servers[s].locations, path, Len(servers[s].locations), findLocation(s, path))
<1>1. findLocation(s, path) = FoundIn(servers[s].locations, path)
  BY Zenon DEF findLocation, FoundIn
<1> QED BY <1>1, BestFound

-----------------------------------------------------------------------------
(***************************************************************************)
(* Every request is routed from what its header says.                      *)
(***************************************************************************)

LEMMA InitRouting == Init => RoutingInv
BY DEF Init, RoutingInv, Parsed

\* A field list without a spoiled line gives the last Host.
LEMMA HostTaken ==
  ASSUME NEW r, r.fields \in Seq(Name \cup {"spoiled"}), ~Contains(r.fields, "spoiled")
  PROVE  setFieldLines(r) = IF r.fields = <<>> THEN host ELSE Last(r.fields)
<1>1. {i \in 1 .. Len(r.fields) : r.fields[i] = "spoiled"} = {}
  BY DEF Contains
<1>2. SelectInSeq(r.fields, LAMBDA f : f = "spoiled") = 0
  BY <1>1 DEF SelectInSeq
<1> QED BY <1>2, Zenon DEF setFieldLines

\* findLocationPath with the root that counts.
Placed(root, l, path) ==
  LET whole == IF root = <<>> THEN path ELSE root \o Erased(l, path)
  IN  IF whole # <<>> /\ Last(whole) = "/" THEN Front(whole) ELSE whole

\* The servers of a port do not change, nor does what is found among them.
LEMMA SameFound ==
  ASSUME servers' = servers
  PROVE  /\ \A h : findServer(h)' = findServer(h)
         /\ \A s, path : findLocation(s, path)' = findLocation(s, path)
         /\ \A s, l, path : findLocationPath(s, l, path)' = findLocationPath(s, l, path)
<1>1. \A h : findServer(h)' = findServer(h)
  BY Zenon DEF findServer, SelectInSeq
<1>2. \A s, path : findLocation(s, path)' = findLocation(s, path)
  BY ZenonT(60) DEF findLocation, FoldLeft, MapThenFoldSet
<1>3. \A s, l, path : findLocationPath(s, l, path)' = findLocationPath(s, l, path)
  <2>1. \A s, l : EffectiveRoot(s, l)' = EffectiveRoot(s, l)
    BY Zenon DEF EffectiveRoot
  <2> TAKE s, l, path
  <2>2. findLocationPath(s, l, path) = Placed(EffectiveRoot(s, l), l, path)
    BY Zenon DEF findLocationPath, Placed
  <2>3. findLocationPath(s, l, path)' = Placed(EffectiveRoot(s, l)', l, path)
    BY Zenon DEF findLocationPath, Placed
  <2> QED BY <2>1, <2>2, <2>3
<1> QED BY <1>1, <1>2, <1>3

LEMMA HandleKeeps ==
  ASSUME RoutingInv, NEW r \in Requests, handleRequest(r)
  PROVE  RoutingInv'
<1>1. request' = r /\ servers' = servers /\ r \in Request
  BY RequestsAssumption DEF handleRequest
<1>2. servers' \in Ports /\ Configurable(servers)' /\ request' \in Requests \cup {NoRequest}
  BY <1>1 DEF RoutingInv, Configurable
<1>3. CASE /\ RequestLineThrows(r) # "none"
           /\ Refuse(RequestLineThrows(r)) /\ UNCHANGED host
  <2>1. ~Parsed' /\ code' # "routed"
    BY <1>1, <1>3 DEF Parsed, Refuse, RequestLineThrows
  <2> QED BY <1>2, <2>1 DEF RoutingInv
<1>4. CASE Contains(r.fields, "spoiled") /\ Refuse("400")
  <2>1. ~Parsed' /\ code' # "routed"
    BY <1>1, <1>4 DEF Parsed, Refuse, Contains
  <2> QED BY <1>2, <2>1 DEF RoutingInv
<1>5. CASE /\ RequestLineThrows(r) = "none" /\ host' = setFieldLines(r)
           /\ ~Contains(r.fields, "spoiled") /\ server' = findServer(host')
           /\ \/ /\ findLocation(server', r.path) = NoLocation /\ code' = "400"
                 /\ UNCHANGED <<location, convertRequestPath>>
              \/ /\ findLocation(server', r.path) # NoLocation
                 /\ location' = findLocation(server', r.path)
                 /\ convertRequestPath' =
                      findLocationPath(server', findLocation(server', r.path), r.path)
                 /\ code' = IF Forbidden(findLocation(server', r.path), r.method)
                            THEN "405" ELSE "routed"
  <2>1. r.fields # <<>> => host' = Last(r.fields)
    <3>1. r.fields \in Seq(Name \cup {"spoiled"})
      BY <1>1 DEF Request
    <3> QED BY <1>5, <3>1, HostTaken
  <2>2. PICK h, n, l, p : /\ h = host' /\ n = server' /\ l = findLocation(n, r.path)
                          /\ p = findLocationPath(n, l, r.path)
    OBVIOUS
  <2>3. /\ findServer(h)' = findServer(h)
        /\ findLocation(n, r.path)' = findLocation(n, r.path)
        /\ findLocationPath(n, l, r.path)' = findLocationPath(n, l, r.path)
    BY <1>1, SameFound
  <2>4. server' = findServer(host)'
    BY <1>5, <2>2, <2>3 DEF findServer
  <2>5. Routed'
    BY <1>1, <1>5, <2>1, <2>2, <2>3, <2>4 DEF Routed
  <2>6. Parsed'
    BY <1>1, <1>5 DEF Parsed, RequestLineThrows, Contains
  <2> QED BY <1>2, <2>5, <2>6 DEF RoutingInv
<1> QED BY <1>3, <1>4, <1>5 DEF handleRequest

LEMMA StepRouting == RoutingInv /\ [Next]_vars => RoutingInv'
<1> SUFFICES ASSUME RoutingInv, [Next]_vars PROVE RoutingInv'
  OBVIOUS
<1>1. ASSUME NEW r \in Requests, handleRequest(r)
      PROVE  RoutingInv'
  BY <1>1, HandleKeeps
<1>2. CASE clearRequest
  <2>1. code' = "none" /\ request' = NoRequest /\ servers' = servers
    BY <1>2 DEF clearRequest
  <2> QED BY <2>1 DEF RoutingInv, Parsed, Configurable
<1>3. CASE UNCHANGED vars
  <2>1. /\ servers' = servers /\ request' = request /\ code' = code /\ host' = host
        /\ server' = server /\ location' = location
        /\ convertRequestPath' = convertRequestPath
    BY <1>3 DEF vars
  <2>2. Parsed' <=> Parsed
    BY <2>1 DEF Parsed
  <2>3. ASSUME Routed PROVE Routed'
    <3>1. PICK h, n, p, l : /\ h = host /\ n = server /\ p = request.path
                            /\ l = findLocation(n, p)
      OBVIOUS
    <3>2. /\ findServer(h)' = findServer(h) /\ findLocation(n, p)' = findLocation(n, p)
          /\ findLocationPath(n, l, p)' = findLocationPath(n, l, p)
      BY <2>1, SameFound
    <3>3. server' = findServer(host)'
      BY <2>1, <2>3, <3>1, <3>2 DEF Routed, findServer
    <3> QED BY <2>1, <2>3, <3>1, <3>2, <3>3 DEF Routed
  <2>4. Configurable(servers)'
    BY <2>1 DEF RoutingInv, Configurable
  <2> QED BY <2>1, <2>2, <2>3, <2>4 DEF RoutingInv
<1> QED BY <1>1, <1>2, <1>3 DEF Next

\* The servers, and the request, have their types.
LEMMA RoutingTypes ==
  ASSUME RoutingInv
  PROVE  /\ servers \in Seq(Server) /\ servers # <<>>
         /\ request \in Request \cup {NoRequest} /\ request.path \in Seq(Char)
         /\ \A i \in DOMAIN servers :
              /\ servers[i].locations \in Seq(Location)
              /\ servers[i].root \in Seq(Char)
              /\ \A j, k \in DOMAIN servers[i].locations :
                   LET L == servers[i].locations IN
                   /\ L[j].path # <<>> /\ L[j].path[1] = "/"
                   /\ L[j].path = L[k].path => j = k
<1>1. servers \in Seq(Server) /\ request \in Request \cup {NoRequest}
  BY PortsAssumption, RequestsAssumption DEF RoutingInv
<1>2. servers # <<>>
  BY DEF RoutingInv, Configurable
<1>3. ASSUME NEW i \in DOMAIN servers
      PROVE  servers[i].locations \in Seq(Location) /\ servers[i].root \in Seq(Char)
  <2>1. servers[i] \in Server
    BY <1>1
  <2> QED BY <2>1 DEF Server, Path
<1>4. ASSUME NEW i \in DOMAIN servers
      PROVE  \A j, k \in DOMAIN servers[i].locations :
               LET L == servers[i].locations IN
               /\ L[j].path # <<>> /\ L[j].path[1] = "/"
               /\ L[j].path = L[k].path => j = k
  BY DEF RoutingInv, Configurable
<1>5. request.path \in Seq(Char)
  <2>1. CASE request \in Request
    <3>1. \A r \in Request : r.path \in Seq(Char)
      BY DEF Request, Path
    <3> QED BY <2>1, <3>1
  <2>2. CASE request = NoRequest
    <3>1. request.path = <<>>
      BY <2>2 DEF NoRequest
    <3>2. <<>> \in Seq(Char)
      OBVIOUS
    <3> QED BY <3>1, <3>2
  <2> QED BY <1>1, <2>1, <2>2
<1> QED BY <1>1, <1>2, <1>3, <1>4, <1>5

\* The location that is found for a request is the best of those configured.
LEMMA RoutedToBest ==
  ASSUME RoutingInv, Parsed
  PROVE  /\ server \in DOMAIN servers
         /\ Best(servers[server].locations, request.path,
                 Len(servers[server].locations), findLocation(server, request.path))
<1>1. server = findServer(host)
  BY DEF RoutingInv, Routed
<1>2. server \in DOMAIN servers
  <2>1. PICK h : h = host
    OBVIOUS
  <2>2. findServer(h) \in DOMAIN servers
    BY RoutingTypes, ServerFound
  <2> QED BY <1>1, <2>1, <2>2
<1>3. PICK n : n = server
  OBVIOUS
<1>4. servers[n].locations \in Seq(Location)
      /\ \A j \in DOMAIN servers[n].locations : servers[n].locations[j].path # <<>>
  BY <1>2, <1>3, RoutingTypes
<1>5. PICK p : p = request.path
  OBVIOUS
<1>6. Best(servers[n].locations, p, Len(servers[n].locations), findLocation(n, p))
  BY <1>4, LocationFound
<1> QED BY <1>2, <1>3, <1>5, <1>6

\* Matching, and what is found: the location is of the longest path, or there is none.
LEMMA FoundMatches ==
  ASSUME RoutingInv, Parsed
  PROVE  \/ /\ findLocation(server, request.path) = NoLocation /\ Matching = {}
         \/ /\ findLocation(server, request.path) # NoLocation
            /\ findLocation(server, request.path) \in Matching
            /\ \A l \in Matching : Len(l.path) <= Len(findLocation(server, request.path).path)
<1> DEFINE q == servers[server].locations
           f == findLocation(server, request.path)
<1>1. q \in Seq(Location) /\ Best(q, request.path, Len(q), f)
      /\ \A j \in DOMAIN q : q[j].path # <<>>
  BY RoutedToBest, RoutingTypes
<1>2. Matching = {l \in {q[j] : j \in 1 .. Len(q)} : IsPrefix(l.path, request.path)}
  BY <1>1 DEF Matching, Range
<1> HIDE DEF q, f
<1>3. CASE f = NoLocation /\ \A j \in 1 .. Len(q) : ~IsPrefix(q[j].path, request.path)
  BY <1>2, <1>3 DEF f
<1>4. CASE /\ \E j \in 1 .. Len(q) : f = q[j]
           /\ IsPrefix(f.path, request.path)
           /\ \A j \in 1 .. Len(q) : IsPrefix(q[j].path, request.path) =>
                                       Len(q[j].path) <= Len(f.path)
  <2>1. PICK j \in 1 .. Len(q) : f = q[j]
    BY <1>4
  <2>2. f.path # <<>>
    BY <1>1, <2>1
  <2>3. f # NoLocation
    BY <2>2 DEF NoLocation
  <2>4. f \in Matching
    BY <1>2, <1>4, <2>1
  <2>5. \A l \in Matching : Len(l.path) <= Len(f.path)
    BY <1>2, <1>4
  <2> QED BY <2>3, <2>4, <2>5 DEF f
<1> QED BY <1>1, <1>3, <1>4 DEF Best

\* Two prefixes of a path that are as long are the same.
LEMMA SamePrefix ==
  ASSUME NEW p \in Seq(Char), NEW a \in Seq(Char), NEW b \in Seq(Char),
         IsPrefix(a, p), IsPrefix(b, p), Len(a) = Len(b)
  PROVE  a = b
<1>1. SubSeq(a, 1, Len(a)) = a /\ SubSeq(b, 1, Len(b)) = b
  OBVIOUS
<1> QED BY <1>1 DEF IsPrefix

LEMMA AllowedRouting == RoutingInv => OnlyAllowed
<1> SUFFICES ASSUME RoutingInv, code = "routed",
                    NEW l \in Matching, \A m \in Matching : Len(m.path) <= Len(l.path)
             PROVE  \/ request.method \in l.limitExcept
                    \/ l.limitExcept = {} /\ request.method # "DELETE"
  BY DEF OnlyAllowed
<1> DEFINE f == findLocation(server, request.path)
           q == servers[server].locations
<1>1. Parsed /\ f # NoLocation /\ ~Forbidden(f, request.method)
  BY DEF RoutingInv, Routed
<1>2. f \in Matching /\ \A m \in Matching : Len(m.path) <= Len(f.path)
  BY <1>1, FoundMatches
<1>3. q \in Seq(Location) /\ request.path \in Seq(Char)
      /\ \A j, k \in DOMAIN q : q[j].path = q[k].path => j = k
  <2>1. q \in Seq(Location) /\ \A j, k \in DOMAIN q : q[j].path = q[k].path => j = k
    BY <1>1, RoutedToBest, RoutingTypes
  <2>2. request.path \in Seq(Char)
    BY RoutingTypes
  <2> QED BY <2>1, <2>2
<1>4. PICK j \in DOMAIN q : f = q[j] /\ IsPrefix(f.path, request.path)
  BY <1>2 DEF Matching, Range
<1>5. PICK k \in DOMAIN q : l = q[k] /\ IsPrefix(l.path, request.path)
  BY DEF Matching, Range
<1>6. f.path \in Seq(Char) /\ l.path \in Seq(Char)
  <2>1. f \in Location /\ l \in Location
    BY <1>3, <1>4, <1>5
  <2> QED BY <2>1 DEF Location, Path
<1> HIDE DEF f, q
<1>7. Len(f.path) = Len(l.path)
  <2>1. Len(f.path) <= Len(l.path) /\ Len(l.path) <= Len(f.path)
    BY <1>2
  <2>2. Len(f.path) \in Nat /\ Len(l.path) \in Nat
    BY <1>6
  <2> QED BY <2>1, <2>2
<1>8. f.path = l.path
  BY <1>3, <1>4, <1>5, <1>6, <1>7, SamePrefix
<1>9. f = l
  BY <1>3, <1>4, <1>5, <1>8
<1> QED BY <1>1, <1>9 DEF Forbidden

\* Every request whose header was accepted is routed from that header alone, but
\* for a host that it does not name.
THEOREM RoutingInvariant == Spec => []RoutingInv
BY InitRouting, StepRouting, PTL DEF Spec

\* A request is served by the server it names, or else by the first of the port.
THEOREM ServedByName == Spec => []RoutedByHost
<1>1. RoutingInv => RoutedByHost
  <2> SUFFICES ASSUME RoutingInv, Parsed, request.fields # <<>>
               PROVE  RoutedByHost
    BY DEF RoutedByHost
  <2>1. PICK h : h = Last(request.fields)
    OBVIOUS
  <2>2. server = findServer(h)
    BY <2>1, Zenon DEF RoutingInv, Routed
  <2>3. findServer(h) \in LET named == {i \in DOMAIN servers : h \in servers[i].names}
                          IN  IF named = {} THEN {1} ELSE named
    BY RoutingTypes, ServerFound
  <2> QED BY <2>1, <2>2, <2>3 DEF RoutedByHost
<1> QED BY <1>1, RoutingInvariant, PTL

\* The location of a request has the longest path that matches, whatever the
\* order of the configuration; no other request's is used.
THEOREM LongestTaken == Spec => []LongestPrefix
<1>1. RoutingInv => LongestPrefix
  BY FoundMatches DEF RoutingInv, Routed, LongestPrefix
<1> QED BY <1>1, RoutingInvariant, PTL

\* What is carried out is allowed by the location of the longest path.
THEOREM MethodsAllowed == Spec => []OnlyAllowed
BY AllowedRouting, RoutingInvariant, PTL

-----------------------------------------------------------------------------
(***************************************************************************)
(* The names in a path.                                                    *)
(***************************************************************************)

\* f has the names in the first m characters for each m up to n.
Names(f, path, n) ==
  f = [i \in 0 .. n |-> IF i = 0 THEN <<>> ELSE WithNext(f[i - 1], path, i)]

LEMMA NamesExist ==
  ASSUME NEW path, NEW n \in Nat
  PROVE  \E f : Names(f, path, n)
<1> DEFINE P == {m \in 0 .. n : \E f : Names(f, path, m)}
<1>1. 0 \in P
  <2> DEFINE f == [i \in 0 .. 0 |-> <<>>]
  <2>1. \A i \in 0 .. 0 : f[i] = IF i = 0 THEN <<>> ELSE WithNext(f[i - 1], path, i)
    OBVIOUS
  <2>2. f = [i \in 0 .. 0 |-> f[i]]
    OBVIOUS
  <2> HIDE DEF f
  <2>3. Names(f, path, 0)
    BY <2>1, <2>2 DEF Names
  <2> QED BY <2>3
<1>2. ASSUME NEW m \in 0 .. n - 1, m \in P
      PROVE  m + 1 \in P
  <2>1. PICK f : Names(f, path, m)
    BY <1>2
  <2> DEFINE g == [i \in 0 .. m + 1 |->
                     IF i \in 0 .. m THEN f[i] ELSE WithNext(f[i - 1], path, i)]
  <2>2. ASSUME NEW i \in 0 .. m + 1
        PROVE  g[i] = IF i = 0 THEN <<>> ELSE WithNext(g[i - 1], path, i)
    <3>1. CASE i \in 0 .. m
      <4>1. g[i] = f[i]
        BY <3>1
      <4>2. f[i] = IF i = 0 THEN <<>> ELSE WithNext(f[i - 1], path, i)
        BY <2>1, <3>1, Zenon DEF Names
      <4>3. i # 0 => g[i - 1] = f[i - 1]
        BY <3>1
      <4> HIDE DEF g
      <4> QED BY <4>1, <4>2, <4>3
    <3>2. CASE i = m + 1
      <4>1. g[i] = WithNext(f[i - 1], path, i)
        BY <3>2
      <4>2. i # 0 /\ g[i - 1] = f[i - 1]
        BY <3>2
      <4> HIDE DEF g
      <4> QED BY <4>1, <4>2
    <3> QED BY <3>1, <3>2
  <2>3. g = [i \in 0 .. m + 1 |-> g[i]]
    OBVIOUS
  <2> HIDE DEF g
  <2>4. Names(g, path, m + 1)
    BY <2>2, <2>3 DEF Names
  <2>5. m + 1 \in 0 .. n
    OBVIOUS
  <2> QED BY <2>4, <2>5
<1>3. n \in P
  <2> HIDE DEF P
  <2> QED BY <1>1, <1>2, UpTo
<1> QED BY <1>3

LEMMA ComponentsAre ==
  ASSUME NEW path \in Seq(Char)
  PROVE  \E f : Names(f, path, Len(path)) /\ Components(path) = f[Len(path)]
<1> DEFINE f == CHOOSE f : f = [i \in 0 .. Len(path) |->
                                  IF i = 0 THEN <<>> ELSE WithNext(f[i - 1], path, i)]
<1>1. f = CHOOSE g : Names(g, path, Len(path))
  BY Zenon DEF Names
<1>2. Components(path) = f[Len(path)]
  BY Zenon DEF Components
<1> HIDE DEF f
<1>3. Len(path) \in Nat
  OBVIOUS
<1>4. \E g : Names(g, path, Len(path))
  BY <1>3, NamesExist
<1>5. Names(f, path, Len(path))
  BY <1>1, <1>4, Zenon
<1> QED BY <1>2, <1>5

LEMMA NamesAt ==
  ASSUME NEW path, NEW n \in Nat, NEW f, Names(f, path, n)
  PROVE  f[0] = <<>> /\ \A m \in 0 .. n - 1 : f[m + 1] = WithNext(f[m], path, m + 1)
<1>1. \A i \in 0 .. n : f[i] = IF i = 0 THEN <<>> ELSE WithNext(f[i - 1], path, i)
  BY Zenon DEF Names
<1>2. 0 \in 0 .. n
  OBVIOUS
<1>3. ASSUME NEW m \in 0 .. n - 1
      PROVE  f[m + 1] = WithNext(f[m], path, m + 1)
  <2>1. m + 1 \in 0 .. n /\ m + 1 # 0 /\ (m + 1) - 1 = m
    OBVIOUS
  <2> QED BY <1>1, <2>1
<1> QED BY <1>1, <1>2, <1>3

\* Names are sequences of characters, and after a character of one there is one.
LEMMA NamesTyped ==
  ASSUME NEW path \in Seq(Char), NEW f, Names(f, path, Len(path))
  PROVE  \A m \in 0 .. Len(path) :
           f[m] \in Seq(Seq(Char)) /\ (m # 0 /\ path[m] # "/" => f[m] # <<>>)
<1> DEFINE n == Len(path)
           P == {m \in 0 .. n :
                   f[m] \in Seq(Seq(Char)) /\ (m # 0 /\ path[m] # "/" => f[m] # <<>>)}
<1>1. n \in Nat
  OBVIOUS
<1>2. 0 \in P
  <2>1. f[0] = <<>>
    BY <1>1, NamesAt
  <2>2. <<>> \in Seq(Seq(Char)) /\ 0 \in 0 .. n
    BY <1>1
  <2> QED BY <2>1, <2>2
<1>3. ASSUME NEW m \in 0 .. n - 1, m \in P
      PROVE  m + 1 \in P
  <2>1. m + 1 \in 1 .. n /\ m + 1 \in 0 .. n /\ m \in Nat /\ (m + 1) - 1 = m
    BY <1>1
  <2>2. path[m + 1] \in Char /\ <<path[m + 1]>> \in Seq(Char)
    BY <2>1
  <2>3. f[m + 1] = WithNext(f[m], path, m + 1)
    BY <1>1, NamesAt
  <2>4. f[m] \in Seq(Seq(Char)) /\ (m # 0 /\ path[m] # "/" => f[m] # <<>>)
    BY <1>3
  <2>5. CASE path[m + 1] = "/"
    BY <2>1, <2>3, <2>4, <2>5 DEF WithNext
  <2>6. CASE path[m + 1] # "/" /\ (m + 1 = 1 \/ path[m] = "/")
    <3>1. f[m + 1] = Append(f[m], <<path[m + 1]>>)
      BY <2>1, <2>3, <2>6 DEF WithNext
    <3>2. f[m + 1] \in Seq(Seq(Char)) /\ Len(f[m + 1]) = Len(f[m]) + 1 /\ Len(f[m]) \in Nat
      BY <2>2, <2>4, <3>1
    <3>3. f[m + 1] # <<>>
      BY <3>2
    <3> QED BY <2>1, <3>2, <3>3
  <2>7. CASE path[m + 1] # "/" /\ ~(m + 1 = 1 \/ path[m] = "/")
    <3>1. f[m + 1] = [f[m] EXCEPT ![Len(f[m])] = Append(@, path[m + 1])]
      BY <2>1, <2>3, <2>7 DEF WithNext
    <3>2. f[m] # <<>>
      BY <2>1, <2>4, <2>7
    <3> DEFINE s == f[m]
               c == path[m + 1]
               t == [s EXCEPT ![Len(s)] = Append(@, c)]
    <3>3. s \in Seq(Seq(Char)) /\ Len(s) \in Nat /\ Len(s) # 0 /\ c \in Char
      BY <2>2, <2>4, <3>2
    <3> HIDE DEF s, c
    <3>4. s[Len(s)] \in Seq(Char)
      BY <3>3
    <3>5. Append(s[Len(s)], c) \in Seq(Char)
      BY <3>3, <3>4
    <3>6. t \in Seq(Seq(Char)) /\ Len(t) = Len(s)
      BY <3>3, <3>5
    <3>7. t # <<>>
      BY <3>3, <3>6
    <3> QED BY <2>1, <3>1, <3>6, <3>7 DEF s, c
  <2> QED BY <2>5, <2>6, <2>7
<1>4. \A m \in 0 .. n : m \in P
  <2> HIDE DEF P, n
  <2> QED BY <1>1, <1>2, <1>3, UpTo
<1> QED BY <1>4

\* The first n characters of two paths are the same.
BeginAlike(v, w, n) == \A j \in 1 .. n : v[j] = w[j]

\* The names in a beginning that two paths share.
LEMMA NamesAgree ==
  ASSUME NEW v, NEW w, NEW k \in Nat, NEW l \in Nat, NEW n \in Nat, n <= k, n <= l,
         NEW f, NEW g, Names(f, v, k), Names(g, w, l), BeginAlike(v, w, n)
  PROVE  \A m \in 0 .. n : f[m] = g[m]
<1> DEFINE P == {m \in 0 .. n : f[m] = g[m]}
<1>1. 0 \in P
  <2>1. f[0] = <<>> /\ g[0] = <<>>
    BY NamesAt
  <2> QED BY <2>1
<1>2. ASSUME NEW m \in 0 .. n - 1, m \in P
      PROVE  m + 1 \in P
  <2>1. m \in 0 .. k - 1 /\ m \in 0 .. l - 1 /\ m + 1 \in 0 .. n /\ m + 1 \in 1 .. n
        /\ (m + 1 # 1 => m \in 1 .. n) /\ (m + 1) - 1 = m
    OBVIOUS
  <2>2. f[m + 1] = WithNext(f[m], v, m + 1) /\ g[m + 1] = WithNext(g[m], w, m + 1)
    BY <2>1, NamesAt, ZenonT(60)
  <2>3. f[m] = g[m] /\ v[m + 1] = w[m + 1] /\ (m + 1 # 1 => v[m] = w[m])
    BY <1>2, <2>1 DEF BeginAlike
  <2>4. WithNext(g[m], v, m + 1) = WithNext(g[m], w, m + 1)
    BY <2>1, <2>3 DEF WithNext
  <2> QED BY <2>1, <2>2, <2>3, <2>4
<1> HIDE DEF P
<1>3. \A m \in 0 .. n : m \in P
  BY <1>1, <1>2, UpTo
<1> QED BY <1>3 DEF P

-----------------------------------------------------------------------------
(***************************************************************************)
(* Sequences that are joined.                                              *)
(***************************************************************************)

\* It is the same to append e before the sequences are joined and after it.
AppendsAlike(x, y, e) == Append(x \o y, e) = x \o Append(y, e)

LEMMA AppendJoined ==
  ASSUME NEW T, NEW x \in Seq(T), NEW y \in Seq(T), NEW e \in T
  PROVE  AppendsAlike(x, y, e)
BY DEF AppendsAlike

LEMMA LastJoined ==
  ASSUME NEW T, NEW x \in Seq(T), NEW y \in Seq(T), y # <<>>, NEW e \in T
  PROVE  [x \o y EXCEPT ![Len(x \o y)] = e] = x \o [y EXCEPT ![Len(y)] = e]
<1> DEFINE z == x \o y
           s == [z EXCEPT ![Len(z)] = e]
           u == [y EXCEPT ![Len(y)] = e]
           t == x \o u
           k == Len(x)
           n == Len(y)
<1>1. k \in Nat /\ n \in Nat /\ n # 0 /\ z \in Seq(T) /\ Len(z) = k + n
  OBVIOUS
<1>2. \A j \in 1 .. k + n : z[j] = IF j <= k THEN x[j] ELSE y[j - k]
  BY ConcatProperties
<1> HIDE DEF z
<1>3. Len(z) \in 1 .. Len(z) /\ n \in 1 .. n
  BY <1>1
<1>4. /\ s \in Seq(T) /\ Len(s) = k + n
      /\ \A j \in 1 .. k + n : s[j] = IF j = k + n THEN e ELSE z[j]
  BY <1>1, <1>3, ExceptSeq
<1>5. /\ u \in Seq(T) /\ Len(u) = n
      /\ \A j \in 1 .. n : u[j] = IF j = n THEN e ELSE y[j]
  BY <1>3, ExceptSeq
<1> HIDE DEF s, u
<1>6. /\ t \in Seq(T) /\ Len(t) = k + n
      /\ \A j \in 1 .. k + n : t[j] = IF j <= k THEN x[j] ELSE u[j - k]
  <2>1. u \in Seq(T)
    BY <1>5
  <2>2. /\ t \in Seq(T) /\ Len(t) = k + Len(u)
        /\ \A j \in 1 .. k + Len(u) : t[j] = IF j <= k THEN x[j] ELSE u[j - k]
    BY <2>1, ConcatProperties
  <2> QED BY <1>5, <2>2
<1> HIDE DEF t, k, n
<1>7. ASSUME NEW j \in 1 .. k + n
      PROVE  s[j] = t[j]
  <2>1. s[j] = IF j = k + n THEN e ELSE z[j]
    BY <1>4
  <2>2. z[j] = IF j <= k THEN x[j] ELSE y[j - k]
    BY <1>2
  <2>3. t[j] = IF j <= k THEN x[j] ELSE u[j - k]
    BY <1>6
  <2>4. CASE j <= k
    <3>1. j # k + n
      BY <1>1, <2>4
    <3> QED BY <2>1, <2>2, <2>3, <2>4, <3>1
  <2>5. CASE ~(j <= k)
    <3>1. j - k \in 1 .. n /\ (j = k + n <=> j - k = n)
      BY <1>1, <2>5
    <3>2. u[j - k] = IF j - k = n THEN e ELSE y[j - k]
      BY <1>5, <3>1
    <3> QED BY <2>1, <2>2, <2>3, <2>5, <3>1, <3>2
  <2> QED BY <2>4, <2>5
<1>8. s = t
  <2>1. Len(s) = Len(t) /\ \A j \in 1 .. Len(s) : s[j] = t[j]
    BY <1>4, <1>6, <1>7
  <2> QED BY <1>4, <1>6, <2>1, SeqEqual
<1> QED BY <1>8 DEF s, t, u, z, n

\* What one character more does to the names of two paths that are joined.
LEMMA NextJoined ==
  ASSUME NEW a \in Seq(Char), NEW b \in Seq(Char), b[1] = "/",
         NEW m \in 0 .. Len(b) - 1,
         NEW x \in Seq(Seq(Char)), NEW y \in Seq(Seq(Char)),
         m # 0 /\ b[m] # "/" => y # <<>>
  PROVE  WithNext(x \o y, a \o b, Len(a) + m + 1) = x \o WithNext(y, b, m + 1)
<1> DEFINE k == Len(a)
           w == a \o b
           c == b[m + 1]
<1>1. k \in Nat /\ Len(b) \in Nat /\ m \in Nat /\ m + 1 \in 1 .. Len(b) /\ (m # 0 => m \in 1 .. Len(b))
  OBVIOUS
<1>2. w[k + (m + 1)] = c /\ (m # 0 => w[k + m] = b[m])
  <2>1. \A j \in 1 .. Len(b) : w[k + j] = b[j]
    OBVIOUS
  <2> QED BY <1>1, <2>1
<1>3. k + m + 1 = k + (m + 1) /\ (k + m + 1) - 1 = k + m /\ (m + 1) - 1 = m
      /\ (m # 0 => k + m + 1 # 1 /\ m + 1 # 1) /\ (m = 0 => m + 1 = 1)
  BY <1>1
<1>4. c \in Char
  BY <1>1
<1> HIDE DEF w, k, c
<1>5. CASE c = "/"
  BY <1>2, <1>3, <1>5 DEF WithNext, w, k, c
<1>6. CASE c # "/" /\ b[m] = "/" /\ m # 0
  <2>1. WithNext(x \o y, w, k + m + 1) = Append(x \o y, <<c>>)
    BY <1>2, <1>3, <1>6 DEF WithNext
  <2>2. WithNext(y, b, m + 1) = Append(y, <<c>>)
    BY <1>3, <1>6 DEF WithNext, c
  <2>3. <<c>> \in Seq(Char)
    BY <1>4
  <2>4. Append(x \o y, <<c>>) = x \o Append(y, <<c>>)
    <3>1. AppendsAlike(x, y, <<c>>)
      BY <2>3, AppendJoined
    <3> QED BY <3>1 DEF AppendsAlike
  <2> QED BY <2>1, <2>2, <2>4 DEF w, k
<1>7. CASE c # "/" /\ b[m] # "/" /\ m # 0
  <2>1. WithNext(x \o y, w, k + m + 1) = [x \o y EXCEPT ![Len(x \o y)] = Append(@, c)]
    BY <1>2, <1>3, <1>7 DEF WithNext
  <2>2. WithNext(y, b, m + 1) = [y EXCEPT ![Len(y)] = Append(@, c)]
    BY <1>3, <1>7 DEF WithNext, c
  <2>3. y # <<>>
    BY <1>7
  <2>4. [x \o y EXCEPT ![Len(x \o y)] = Append(@, c)] = x \o [y EXCEPT ![Len(y)] = Append(@, c)]
    <3>1. Len(x) \in Nat /\ Len(y) \in Nat /\ Len(y) # 0 /\ Len(x \o y) = Len(x) + Len(y)
      BY <2>3
    <3>2. (x \o y)[Len(x \o y)] = y[Len(y)] /\ y[Len(y)] \in Seq(Char)
      BY <3>1
    <3> DEFINE e == Append(y[Len(y)], c)
    <3>3. e \in Seq(Char)
      BY <1>4, <3>2
    <3>4. /\ [x \o y EXCEPT ![Len(x \o y)] = Append(@, c)] = [x \o y EXCEPT ![Len(x \o y)] = e]
          /\ [y EXCEPT ![Len(y)] = Append(@, c)] = [y EXCEPT ![Len(y)] = e]
      BY <3>2
    <3> HIDE DEF e
    <3>5. [x \o y EXCEPT ![Len(x \o y)] = e] = x \o [y EXCEPT ![Len(y)] = e]
      BY <2>3, <3>3, LastJoined, SMTT(60)
    <3> QED BY <3>4, <3>5
  <2> QED BY <2>1, <2>2, <2>4 DEF w, k
<1>8. m # 0 \/ c = "/"
  BY <1>3 DEF c
<1> QED BY <1>5, <1>6, <1>7, <1>8

\* The names of two paths that are joined where a name ends.
LEMMA Joined ==
  ASSUME NEW a \in Seq(Char), NEW b \in Seq(Char), b = <<>> \/ b[1] = "/"
  PROVE  Components(a \o b) = Components(a) \o Components(b)
<1> DEFINE w == a \o b
           k == Len(a)
           n == Len(b)
<1>1. k \in Nat /\ n \in Nat /\ w \in Seq(Char) /\ Len(w) = k + n
      /\ \A j \in 1 .. k : w[j] = a[j]
  OBVIOUS
<1>2. n # 0 => b[1] = "/"
  OBVIOUS
<1> HIDE DEF w, k, n
<1>3. PICK f : Names(f, w, k + n) /\ Components(w) = f[k + n]
  <2>1. \E f : Names(f, w, Len(w)) /\ Components(w) = f[Len(w)]
    BY <1>1, ComponentsAre
  <2> QED BY <1>1, <2>1
<1>4. PICK g : Names(g, a, k) /\ Components(a) = g[k]
  BY ComponentsAre DEF k
<1>5. PICK h : Names(h, b, n) /\ Components(b) = h[n]
  BY ComponentsAre DEF n
<1>6. \A m \in 0 .. k : f[m] = g[m]
  <2> DEFINE l == k + n
  <2>1. l \in Nat /\ k <= l /\ k <= k
    BY <1>1
  <2>2. BeginAlike(w, a, k)
    BY <1>1 DEF BeginAlike
  <2> HIDE DEF l
  <2>3. Names(f, w, l)
    BY <1>3 DEF l
  <2> QED BY <1>1, <1>4, <2>1, <2>2, <2>3, NamesAgree
<1> DEFINE x == g[k]
<1>7. x \in Seq(Seq(Char))
  <2>1. \A m \in 0 .. k : g[m] \in Seq(Seq(Char))
    BY <1>4, NamesTyped DEF k
  <2> QED BY <1>1, <2>1
<1>8. \A m \in 0 .. n : h[m] \in Seq(Seq(Char)) /\ (m # 0 /\ b[m] # "/" => h[m] # <<>>)
  BY <1>5, NamesTyped DEF n
<1>9. h[0] = <<>> /\ \A m \in 0 .. n - 1 : h[m + 1] = WithNext(h[m], b, m + 1)
  <2>1. n \in Nat
    BY <1>1
  <2>2. Names(h, b, n)
    BY <1>5
  <2> QED BY <2>1, <2>2, NamesAt
<1>10. \A i \in 0 .. (k + n) - 1 : f[i + 1] = WithNext(f[i], w, i + 1)
  <2>1. k + n \in Nat
    BY <1>1
  <2> DEFINE l == k + n
  <2> HIDE DEF l
  <2>2. l \in Nat /\ Names(f, w, l)
    BY <1>3, <2>1 DEF l
  <2>3. \A i \in 0 .. l - 1 : f[i + 1] = WithNext(f[i], w, i + 1)
    BY <2>2, NamesAt
  <2> QED BY <2>3 DEF l
<1>11. x = f[k]
  BY <1>1, <1>6
<1> HIDE DEF x
<1> DEFINE P == {m \in 0 .. n : f[k + m] = x \o h[m]}
<1>12. 0 \in P
  <2>1. k + 0 = k /\ 0 \in 0 .. n
    BY <1>1
  <2>2. x \o <<>> = x
    BY <1>7
  <2> QED BY <1>9, <1>11, <2>1, <2>2
<1>13. ASSUME NEW m \in 0 .. n - 1, m \in P
       PROVE  m + 1 \in P
  <2>1. /\ m + 1 \in 0 .. n /\ m \in 0 .. n /\ n # 0
        /\ k + m \in 0 .. (k + n) - 1 /\ (k + m) + 1 = k + (m + 1)
    BY <1>1
  <2>2. f[(k + m) + 1] = WithNext(f[k + m], w, (k + m) + 1)
    BY <1>10, <2>1
  <2>3. h[m + 1] = WithNext(h[m], b, m + 1)
    BY <1>9
  <2>4. f[k + m] = x \o h[m]
    BY <1>13
  <2>5. WithNext(x \o h[m], w, (k + m) + 1) = x \o WithNext(h[m], b, m + 1)
    <3> DEFINE y == h[m]
    <3>1. y \in Seq(Seq(Char)) /\ (m # 0 /\ b[m] # "/" => y # <<>>)
      BY <1>8, <2>1
    <3>2. b[1] = "/" /\ m \in 0 .. Len(b) - 1
      BY <1>2, <2>1 DEF n
    <3> HIDE DEF y
    <3>3. WithNext(x \o y, a \o b, Len(a) + m + 1) = x \o WithNext(y, b, m + 1)
      BY <1>7, <3>1, <3>2, NextJoined, ZenonT(60)
    <3> QED BY <3>3 DEF y, w, k
  <2> QED BY <2>1, <2>2, <2>3, <2>4, <2>5
<1>14. \A m \in 0 .. n : m \in P
  <2>1. 0 \in P /\ \A m \in 0 .. n - 1 : m \in P => m + 1 \in P
    BY <1>12, <1>13
  <2> HIDE DEF P
  <2> QED BY <1>1, <2>1, UpTo
<1>15. f[k + n] = x \o h[n]
  <2>1. n \in 0 .. n
    BY <1>1
  <2> QED BY <1>14, <2>1
<1> QED BY <1>3, <1>4, <1>5, <1>15 DEF x, w

\* A slash at the end does not matter.
LEMMA Trailing ==
  ASSUME NEW w \in Seq(Char), w # <<>>, Last(w) = "/"
  PROVE  Components(Front(w)) = Components(w)
<1> DEFINE v == Front(w)
           n == Len(w) - 1
<1>1. Len(w) \in Nat /\ Len(w) # 0 /\ w[Len(w)] = "/" /\ n \in Nat /\ n + 1 = Len(w)
  BY DEF Last
<1>2. v \in Seq(Char) /\ Len(v) = n /\ \A j \in 1 .. n : v[j] = w[j]
  BY <1>1 DEF Front
<1>3. PICK f : Names(f, v, n) /\ Components(v) = f[n]
  <2>1. \E f : Names(f, v, Len(v)) /\ Components(v) = f[Len(v)]
    <3> HIDE DEF v
    <3> QED BY <1>2, ComponentsAre
  <2> QED BY <1>2, <2>1
<1>4. PICK g : Names(g, w, Len(w)) /\ Components(w) = g[Len(w)]
  BY ComponentsAre
<1> HIDE DEF v
<1>5. f[n] = g[n]
  <2> DEFINE l == Len(w)
  <2>1. l \in Nat /\ n <= n /\ n <= l /\ n \in 0 .. n /\ Names(g, w, l)
        /\ BeginAlike(v, w, n)
    BY <1>1, <1>2, <1>4 DEF BeginAlike
  <2> HIDE DEF l, n
  <2>2. \A m \in 0 .. n : f[m] = g[m]
    BY <1>1, <1>2, <1>3, <2>1, NamesAgree
  <2> QED BY <2>1, <2>2
<1>6. g[n + 1] = WithNext(g[n], w, n + 1)
  <2>1. n \in 0 .. Len(w) - 1
    BY <1>1
  <2> HIDE DEF n
  <2> QED BY <1>1, <1>4, <2>1, NamesAt
<1>7. WithNext(g[n], w, n + 1) = g[n]
  <2> HIDE DEF n
  <2> QED BY <1>1 DEF WithNext
<1> HIDE DEF n
<1> QED BY <1>1, <1>3, <1>4, <1>5, <1>6, <1>7 DEF v

-----------------------------------------------------------------------------
(***************************************************************************)
(* The file.                                                               *)
(***************************************************************************)

LEMMA ComponentsTyped ==
  ASSUME NEW path \in Seq(Char)
  PROVE  Components(path) \in Seq(Seq(Char))
<1>1. PICK f : Names(f, path, Len(path)) /\ Components(path) = f[Len(path)]
  BY ComponentsAre
<1>2. Len(path) \in 0 .. Len(path)
  OBVIOUS
<1>3. f[Len(path)] \in Seq(Seq(Char))
  BY <1>1, <1>2, NamesTyped
<1> QED BY <1>1, <1>3

\* The path "/" has no names.
LEMMA ComponentsOfRoot ==
  ASSUME NEW path \in Seq(Char), Len(path) = 1, path[1] = "/"
  PROVE  Components(path) = <<>>
<1>1. PICK f : Names(f, path, 1) /\ Components(path) = f[1]
  BY ComponentsAre
<1>2. f[0] = <<>> /\ \A m \in 0 .. 1 - 1 : f[m + 1] = WithNext(f[m], path, m + 1)
  BY <1>1, NamesAt, SMTT(60)
<1>3. f[0 + 1] = WithNext(f[0], path, 0 + 1)
  BY <1>2
<1>4. WithNext(f[0], path, 1) = f[0]
  BY DEF WithNext
<1> QED BY <1>1, <1>2, <1>3, <1>4

\* The path p is a, and r after it.
Continued(p, a, r) ==
  r \in Seq(Char) /\ p = a \o r /\ (r # <<>> => r[1] = p[Len(a) + 1] /\ Len(p) # Len(a))

LEMMA Rest ==
  ASSUME NEW p \in Seq(Char), NEW a \in Seq(Char), IsPrefix(a, p)
  PROVE  Continued(p, a, SubSeq(p, Len(a) + 1, Len(p)))
<1> DEFINE k == Len(a)
           n == Len(p)
           e == SubSeq(p, k + 1, n)
<1>1. k \in Nat /\ n \in Nat /\ k <= n /\ SubSeq(a, 1, k) = SubSeq(p, 1, k)
  BY DEF IsPrefix
<1>2. SubSeq(a, 1, k) = a /\ SubSeq(p, 1, n) = p
  BY SubSeqFull
<1>3. SubSeq(p, 1, k) \o SubSeq(p, k + 1, n) = SubSeq(p, 1, n)
  <2>1. 1 \in 1 .. Len(p) + 1 /\ k \in 1 - 1 .. Len(p) /\ n \in k .. Len(p)
    BY <1>1, SMTT(60)
  <2> HIDE DEF k, n
  <2> QED BY <2>1, ConcatAdjacentSubSeq
<1>4. p = a \o e
  BY <1>1, <1>2, <1>3
<1>5. e \in Seq(Char) /\ (e # <<>> => e[1] = p[k + 1] /\ n # k)
  BY <1>1
<1> QED BY <1>4, <1>5 DEF Continued

\* What follows a location in a path has the names that follow its own.
LEMMA NamesErased ==
  ASSUME NEW l \in Location, NEW path \in Seq(Char), l.path # <<>>, l.path[1] = "/",
         IsPrefix(l.path, path), AtBoundary(l, path)
  PROVE  /\ Erased(l, path) \in Seq(Char)
         /\ Erased(l, path) = <<>> \/ Erased(l, path)[1] = "/"
         /\ Components(Erased(l, path)) =
              LET asked == Components(path)
              IN  SubSeq(asked, Len(Components(l.path)) + 1, Len(asked))
<1> DEFINE a == l.path
           r == SubSeq(path, Len(a) + 1, Len(path))
<1>1. a \in Seq(Char) /\ a # <<>> /\ a[1] = "/" /\ IsPrefix(a, path)
  BY DEF Location, Path
<1>2. r \in Seq(Char) /\ path = a \o r /\ (r # <<>> => r[1] = path[Len(a) + 1] /\ Len(path) # Len(a))
  BY <1>1, Rest DEF Continued
<1>3. Erased(l, path) = IF Len(a) = 1 THEN path ELSE r
  BY DEF Erased
<1>4. a = <<"/">> \/ (Last(a) # "/" /\ (Len(path) = Len(a) \/ path[Len(a) + 1] = "/"))
  BY DEF AtBoundary
<1> HIDE DEF a, r
<1>5. CASE Len(a) = 1
  <2>1. Components(a) = <<>>
    BY <1>1, <1>5, ComponentsOfRoot
  <2>2. path[1] = "/"
    BY <1>1, <1>2
  <2>3. SubSeq(Components(path), 1, Len(Components(path))) = Components(path)
    BY ComponentsTyped, SubSeqFull
  <2>4. Len(<<>>) + 1 = 1
    OBVIOUS
  <2> QED BY <1>3, <1>5, <2>1, <2>2, <2>3, <2>4 DEF a
<1>6. CASE Len(a) # 1
  <2>1. Len(path) = Len(a) \/ path[Len(a) + 1] = "/"
    BY <1>1, <1>4, <1>6
  <2>2. r = <<>> \/ r[1] = "/"
    BY <1>2, <2>1
  <2>3. Components(path) = Components(a) \o Components(r)
    BY <1>1, <1>2, <2>2, Joined
  <2> DEFINE x == Components(a)
             y == Components(r)
             C == Seq(Char)
  <2>4. x \in Seq(C) /\ y \in Seq(C)
    BY <1>1, <1>2, ComponentsTyped
  <2> HIDE DEF x, y, C
  <2>5. SubSeq(x \o y, Len(x) + 1, Len(x \o y)) = y
    BY <2>4
  <2> QED BY <1>2, <1>3, <1>6, <2>2, <2>3, <2>5 DEF a, x, y
<1> QED BY <1>5, <1>6

LEMMA NamesPlaced ==
  ASSUME NEW root \in Seq(Char), NEW l \in Location, NEW path \in Seq(Char),
         l.path # <<>>, l.path[1] = "/", IsPrefix(l.path, path), AtBoundary(l, path)
  PROVE  Components(Placed(root, l, path)) =
           LET asked == Components(path)
           IN  IF root = <<>> THEN asked
               ELSE Components(root) \o
                    SubSeq(asked, Len(Components(l.path)) + 1, Len(asked))
<1> DEFINE e == Erased(l, path)
           whole == IF root = <<>> THEN path ELSE root \o e
<1>1. e \in Seq(Char) /\ (e = <<>> \/ e[1] = "/")
      /\ Components(e) = LET asked == Components(path)
                         IN  SubSeq(asked, Len(Components(l.path)) + 1, Len(asked))
  BY NamesErased
<1>2. Placed(root, l, path) = IF whole # <<>> /\ Last(whole) = "/" THEN Front(whole) ELSE whole
  BY DEF Placed
<1> HIDE DEF e
<1>3. whole \in Seq(Char)
  BY <1>1
<1>4. root # <<>> => Components(root \o e) = Components(root) \o Components(e)
  BY <1>1, Joined
<1>5. Components(Placed(root, l, path)) = Components(whole)
  <2> HIDE DEF whole
  <2> QED BY <1>2, <1>3, Trailing
<1> QED BY <1>1, <1>4, <1>5

LEMMA PlacedRouting == RoutingInv => FileInRoot
<1> SUFFICES ASSUME RoutingInv, code = "routed", AtBoundary(location, request.path)
             PROVE  Components(convertRequestPath) =
                      LET root == EffectiveRoot(server, location)
                          asked == Components(request.path)
                      IN  IF root = <<>> THEN asked
                          ELSE Components(root) \o
                               SubSeq(asked, Len(Components(location.path)) + 1, Len(asked))
  BY DEF FileInRoot
<1> DEFINE q == servers[server].locations
           root == EffectiveRoot(server, location)
<1>1. /\ Parsed /\ location = findLocation(server, request.path) /\ location # NoLocation
      /\ convertRequestPath = findLocationPath(server, location, request.path)
  BY DEF RoutingInv, Routed
<1>2. server \in DOMAIN servers /\ q \in Seq(Location) /\ servers[server].root \in Seq(Char)
      /\ \A j \in DOMAIN q : q[j].path # <<>> /\ q[j].path[1] = "/"
  BY <1>1, RoutedToBest, RoutingTypes
<1>3. PICK j \in DOMAIN q : location = q[j] /\ IsPrefix(location.path, request.path)
  <2>1. location \in Matching
    BY <1>1, FoundMatches
  <2> QED BY <2>1 DEF Matching, Range
<1>4. location \in Location
  BY <1>2, <1>3
<1>5. root \in Seq(Char)
  <2>1. location.root \in Seq(Char)
    BY <1>4 DEF Location, Path
  <2> QED BY <1>2, <2>1 DEF EffectiveRoot
<1>6. request.path \in Seq(Char)
  BY RoutingTypes
<1>7. location.path # <<>> /\ location.path[1] = "/"
  BY <1>2, <1>3
<1>8. convertRequestPath = Placed(root, location, request.path)
  BY <1>1, Zenon DEF findLocationPath, Placed
<1> HIDE DEF root
<1> QED BY <1>3, <1>4, <1>5, <1>6, <1>7, <1>8, NamesPlaced DEF root

\* The file of a request lies in its root, under the names after its location.
THEOREM FilesInRoot == Spec => []FileInRoot
BY PlacedRouting, RoutingInvariant, PTL

=============================================================================
