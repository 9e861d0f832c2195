-------------------------- MODULE DescriptorsProofs --------------------------
(***************************************************************************)
(* What the server closes, keeps open and waits for, proved for any number *)
(* of connections, descriptors and programs and for every mix of faults.   *)
(***************************************************************************)
EXTENDS Descriptors, FiniteSetTheorems, WellFoundedInduction, SequenceTheorems, TLAPS

-----------------------------------------------------------------------------
(***************************************************************************)
(* The inductive invariant.                                                *)
(***************************************************************************)

Object == {Free} \cup {Socket(c) : c \in Client} \cup Ends

Pid == {-1, 0} \cup Starts

Table == [Number -> Object]

Start == [client : Client, post : BOOLEAN, registered : BOOLEAN]

Fields ==
  [life : {"new", "live", "freed"}, turn : {"request", "cgi", "answer"},
   error : BOOLEAN, ready : BOOLEAN, socket : {0} \cup Number,
   wr : {0} \cup Number, rd : {0} \cup Number, pid : Pid]

TypeOK ==
  /\ world \in World
  /\ fds \in Table
  /\ starts \in Seq(Start)
  /\ Len(starts) <= MaxStarts
  /\ proc \in [Starts -> {"none", "runs", "exit0", "exit1", "killed", "gone"}]
  /\ held \in [Starts -> SUBSET Object]
  /\ conn \in [Client -> Fields]

\* A pipe belongs to a start that has been made.  A program has pipes of its own
\* start and of earlier ones only, and of its own not the two ends that are the
\* server's.  Once a start is registered its "outW" is with its program alone.
PipesInherited ==
  /\ \A x \in Number, n \in Starts, e \in {"inR", "inW", "outR", "outW"} :
       fds[x] = <<e, n>> => n <= Len(starts)
  /\ \A m, n \in Starts, e \in {"inR", "inW", "outR", "outW"} :
       <<e, n>> \in held[m] => /\ n <= m /\ m <= Len(starts)
                               /\ e = "inW" => n # m
  /\ \A n \in Starts : n <= Len(starts) /\ starts[n].registered =>
       /\ \A x \in Number : fds[x] # <<"outW", n>>
       /\ \A m \in Starts : <<"outW", n>> \in held[m] => m = n

Alive(n) == proc[n] \in {"runs", "exit0", "exit1"}

\* What a Client records of its program.  It has none before its request starts
\* one, a registered one while it waits for it, and while it answers it has one
\* only if the answer is an error.
ProgramFits(c) ==
  LET k == conn[c]
  IN  /\ k.life = "new" => k.turn = "request" /\ ~k.error
      /\ k.life # "live" => k.pid = 0
      /\ k.life = "live" =>
           /\ k.turn = "request" => k.pid = 0
           /\ k.turn = "cgi" => k.pid \in Starts /\ starts[k.pid].registered
           /\ k.turn # "answer" => ~k.error
           /\ k.turn = "answer" /\ k.pid # 0 => k.error
      /\ k.pid \in Starts =>
           k.pid <= Len(starts) /\ starts[k.pid].client = c /\ Alive(k.pid)

\* A program that has not been killed or waited for is its Client's.
ProgramKnown(n) ==
  Alive(n) => /\ n <= Len(starts)
              /\ conn[starts[n].client].life = "live"
              /\ conn[starts[n].client].pid = n

\* Where nothing is torn down and no body refused, a Client that answers with an
\* error has no program whose event is registered, so that no pipe is closed by a
\* number that was closed before.
Undisturbed == world.faults \cap {"teardown", "refused"} = {}

NumbersFit(c) ==
  LET k == conn[c]
  IN  /\ k.error /\ k.pid \in Starts => ~starts[k.pid].registered
      /\ k.life = "live" =>
           /\ k.socket # 0 /\ OwnSocket(c)
           /\ k.turn = "cgi" /\ ~k.ready => Registered(c, k.rd, "outR")

DInv ==
  /\ TypeOK
  /\ PipesInherited
  /\ loop = "running" =>
       /\ \A c \in Client : ProgramFits(c) /\ (Undisturbed => NumbersFit(c))
       /\ \A n \in Starts : ProgramKnown(n)
-----------------------------------------------------------------------------
(***************************************************************************)
(* Descriptor tables.                                                      *)
(***************************************************************************)

\* close() frees one number, or none.
LEMMA Closes ==
  ASSUME NEW t \in Table, NEW x \in {0} \cup Number
  PROVE  /\ close(t, x) \in Table
         /\ \A y \in Number : close(t, x)[y] = IF y = x THEN Free ELSE t[y]
BY DEF close, Table, Object, Number

\* The lowest free number is a free number.
LEMMA LowestIsFree ==
  ASSUME TypeOK, NEW t, FreeIn(t) # {}
  PROVE  Min(FreeIn(t)) \in FreeIn(t) /\ FreeIn(t) \subseteq Number
<1>1. FreeIn(t) \subseteq Number /\ Number \subseteq Nat
  BY BoundsAssumption DEF FreeIn, TypeOK, World, Number
<1>2. PICK x \in FreeIn(t) : \A y \in FreeIn(t) : <<y, x>> \notin OpToRel(<, Nat)
  <2>1. IsWellFoundedOn(OpToRel(<, Nat), Nat)
    BY NatLessThanWellFounded
  <2> HIDE DEF FreeIn
  <2> QED BY <1>1, <2>1, WFMin
<1>3. \A y \in FreeIn(t) : x <= y
  <2> SUFFICES ASSUME NEW y \in FreeIn(t) PROVE x <= y
    OBVIOUS
  <2>1. x \in Nat /\ y \in Nat
    BY <1>1
  <2>2. ~ (y < x)
    BY <1>2, <2>1 DEF OpToRel
  <2> QED BY <2>1, <2>2
<1> HIDE DEF FreeIn
<1> QED BY <1>1, <1>3 DEF Min

\* A new object gets one free number; the others stay as they were.
LEMMA Opens ==
  ASSUME TypeOK, NEW t \in Table, NEW o \in Object, FreeIn(t) # {}
  PROVE  \E x \in FreeIn(t) :
           /\ x \in Number /\ t[x] = Free
           /\ open(t, o) \in Table
           /\ \A y \in Number : open(t, o)[y] = IF y = x THEN o ELSE t[y]
<1> DEFINE x == Min(FreeIn(t))
<1>1. x \in FreeIn(t) /\ x \in Number /\ t[x] = Free
  BY LowestIsFree DEF FreeIn
<1>2. open(t, o) = [t EXCEPT ![x] = o]
  BY DEF open
<1> HIDE DEF x
<1> QED BY <1>1, <1>2 DEF Table

\* An object in the table is found under its number.
LEMMA Named ==
  ASSUME NEW t, NEW o, NEW x \in Number, t[x] = o
  PROVE  NumberOf(t, o) \in Number /\ t[NumberOf(t, o)] = o
BY DEF NumberOf

\* pipe() adds its two ends, under numbers that were free, and nothing else.
LEMMA MakesPipe ==
  ASSUME TypeOK, NEW t \in Table, ~PipeFails(t), NEW n \in Starts,
         NEW in \in {"inR", "outR"}, NEW out \in {"inW", "outW"}
  PROVE  LET u == pipe(t, in, out, n)
         IN  /\ u \in Table
             /\ \A y \in Number :
                  u[y] = t[y] \/ (t[y] = Free /\ u[y] \in {<<in, n>>, <<out, n>>})
             /\ \E x \in Number : u[x] = <<in, n>>
             /\ \E x \in Number : u[x] = <<out, n>>
<1>1. <<in, n>> \in Object /\ <<out, n>> \in Object /\ <<in, n>> # <<out, n>>
      /\ <<in, n>> # Free /\ <<out, n>> # Free
  BY DEF Object, Ends, Free
<1>2. IsFiniteSet(FreeIn(t)) /\ Cardinality(FreeIn(t)) \in Nat
      /\ ~(Cardinality(FreeIn(t)) < 2)
  <2>1. world.numbers \in Int
    BY BoundsAssumption DEF TypeOK, World
  <2>2. IsFiniteSet(1 .. world.numbers)
    BY <2>1, FS_Interval
  <2>3. FreeIn(t) \in SUBSET (1 .. world.numbers)
    BY DEF FreeIn
  <2>4. IsFiniteSet(FreeIn(t))
    BY <2>2, <2>3, FS_Subset
  <2> QED BY <2>4, FS_CardinalityType DEF PipeFails
<1>3. FreeIn(t) # {} /\ \A x : FreeIn(t) # {x}
  <2>1. Cardinality({}) = 0 /\ \A x : Cardinality({x}) = 1
    BY FS_EmptySet, FS_Singleton
  <2> HIDE DEF FreeIn
  <2> QED BY <1>2, <2>1, SMTT(60)
<1> DEFINE t1 == open(t, <<in, n>>)
           u == open(t1, <<out, n>>)
<1>4. PICK x \in FreeIn(t) :
        /\ x \in Number /\ t[x] = Free /\ t1 \in Table
        /\ \A y \in Number : t1[y] = IF y = x THEN <<in, n>> ELSE t[y]
  BY <1>1, <1>3, Opens
<1>5. FreeIn(t1) # {}
  <2>1. PICK y \in FreeIn(t) : y # x
    <3> HIDE DEF FreeIn
    <3> QED BY <1>3, <1>4
  <2>2. y \in Number /\ t[y] = Free /\ y \in 1 .. world.numbers
    BY <2>1, <1>3, LowestIsFree DEF FreeIn
  <2>3. t1[y] = Free
    BY <1>4, <2>1, <2>2
  <2> HIDE DEF t1
  <2> QED BY <2>2, <2>3 DEF FreeIn
<1>6. PICK z \in FreeIn(t1) :
        /\ z \in Number /\ t1[z] = Free /\ u \in Table
        /\ \A y \in Number : u[y] = IF y = z THEN <<out, n>> ELSE t1[y]
  <2> HIDE DEF t1
  <2> QED BY <1>1, <1>4, <1>5, Opens
<1>7. x # z
  BY <1>1, <1>4, <1>6
<1>8. u = pipe(t, in, out, n)
  BY DEF pipe
<1> HIDE DEF t1, u
<1>9. u[x] = <<in, n>> /\ u[z] = <<out, n>>
  BY <1>4, <1>6, <1>7
<1>10. \A y \in Number :
         u[y] = t[y] \/ (t[y] = Free /\ u[y] \in {<<in, n>>, <<out, n>>})
  BY <1>4, <1>6
<1> QED BY <1>4, <1>6, <1>8, <1>9, <1>10

-----------------------------------------------------------------------------
(***************************************************************************)
(* What keeps the parts of the invariant.                                  *)
(***************************************************************************)

\* Whatever is closed, let go of or accepted, the pipes stay where they belong.
LEMMA NoPipeMade ==
  ASSUME PipesInherited, starts' = starts,
         \A x \in Number : \/ fds'[x] = fds[x] \/ fds'[x] = Free
                           \/ \E c \in Client : fds'[x] = Socket(c),
         \A n \in Starts : held'[n] \subseteq held[n]
  PROVE  PipesInherited'
<1>1. \A x \in Number, n \in Starts, e \in {"inR", "inW", "outR", "outW"} :
        fds'[x] = <<e, n>> => fds[x] = <<e, n>>
  BY DEF Free, Socket
<1>2. \A m, n \in Starts, e \in {"inR", "inW", "outR", "outW"} :
        <<e, n>> \in held'[m] => <<e, n>> \in held[m]
  OBVIOUS
<1> QED BY <1>1, <1>2 DEF PipesInherited

\* A new start adds pipe ends of its own to the table, without "outW" if it gets
\* registered, and its program, if there is one, has a copy of some of it.
LEMMA NewStart ==
  ASSUME TypeOK, PipesInherited, NEW s \in Start, NEW n \in Starts,
         n = Len(starts) + 1, starts' = Append(starts, s),
         \A x \in Number : \/ fds'[x] = fds[x]
                           \/ \E e \in {"inR", "inW", "outR", "outW"} : fds'[x] = <<e, n>>
                           \/ fds'[x] = Free,
         s.registered => \A x \in Number : fds'[x] # <<"outW", n>>,
         \A m \in Starts : m # n => held'[m] = held[m],
         \A e \in {"inR", "inW", "outR", "outW"}, m \in Starts :
           <<e, m>> \in held'[n] /\ m # n => \E x \in Number : fds[x] = <<e, m>>,
         <<"inW", n>> \notin held'[n]
  PROVE  PipesInherited'
<1>1. /\ Len(starts') = n /\ starts'[n] = s
      /\ \A m \in Starts : m <= Len(starts) => starts'[m] = starts[m]
  <2>1. starts \in Seq(Start) /\ n = Len(starts) + 1 /\ starts' = Append(starts, s)
    BY DEF TypeOK
  <2>2. /\ Len(Append(starts, s)) = Len(starts) + 1
        /\ \A i \in 1 .. Len(starts) : Append(starts, s)[i] = starts[i]
        /\ Append(starts, s)[Len(starts) + 1] = s
    BY <2>1, AppendProperties
  <2>3. \A m \in Starts : m <= Len(starts) => m \in 1 .. Len(starts)
    BY <2>1, BoundsAssumption DEF Starts
  <2> QED BY <2>1, <2>2, <2>3, Zenon
<1>2. n \in Nat /\ Len(starts) \in Nat /\ \A m \in Starts : m \in Nat
  BY BoundsAssumption DEF TypeOK, Starts
<1>3. ASSUME NEW x \in Number, NEW m \in Starts,
             NEW e \in {"inR", "inW", "outR", "outW"}, fds'[x] = <<e, m>>
      PROVE  m = n \/ fds[x] = <<e, m>>
  BY <1>3 DEF Free
<1>4. ASSUME NEW x \in Number, NEW m \in Starts,
             NEW e \in {"inR", "inW", "outR", "outW"}, fds'[x] = <<e, m>>
      PROVE  m <= Len(starts')
  BY <1>1, <1>2, <1>3, <1>4 DEF PipesInherited
<1>5. ASSUME NEW l \in Starts, NEW m \in Starts,
             NEW e \in {"inR", "inW", "outR", "outW"}, <<e, m>> \in held'[l]
      PROVE  /\ m <= l /\ l <= Len(starts')
             /\ e = "inW" => m # l
  <2>1. CASE l = n
    <3>1. m # n => \E x \in Number : fds[x] = <<e, m>>
      BY <1>5, <2>1
    <3>2. m = n \/ m <= Len(starts)
      BY <3>1 DEF PipesInherited
    <3> QED BY <1>1, <1>2, <1>5, <2>1, <3>2
  <2>2. CASE l # n
    <3>1. <<e, m>> \in held[l]
      BY <1>5, <2>2
    <3>2. m <= l /\ l <= Len(starts) /\ (e = "inW" => m # l)
      BY <3>1 DEF PipesInherited
    <3> QED BY <1>1, <1>2, <3>2
  <2> QED BY <2>1, <2>2
<1>6. ASSUME NEW m \in Starts, m <= Len(starts'), starts'[m].registered
      PROVE  /\ \A x \in Number : fds'[x] # <<"outW", m>>
             /\ \A l \in Starts : <<"outW", m>> \in held'[l] => l = m
  <2>1. CASE m = n
    <3>1. s.registered
      BY <1>1, <1>6, <2>1
    <3>2. ASSUME NEW l \in Starts, <<"outW", n>> \in held'[l], l # n
          PROVE  FALSE
      <4>1. <<"outW", n>> \in held[l]
        BY <3>2
      <4>2. n <= l /\ l <= Len(starts)
        BY <4>1 DEF PipesInherited
      <4> QED BY <1>2, <4>2
    <3> QED BY <2>1, <3>1, <3>2
  <2>2. CASE m # n
    <3>1. m <= Len(starts) /\ starts[m].registered
      <4>1. m <= n /\ m \in Nat
        BY <1>1, <1>2, <1>6
      <4>2. m <= Len(starts)
        BY <1>2, <2>2, <4>1
      <4> QED BY <1>1, <1>6, <4>2
    <3>2. /\ \A x \in Number : fds[x] # <<"outW", m>>
          /\ \A l \in Starts : <<"outW", m>> \in held[l] => l = m
      BY <3>1 DEF PipesInherited
    <3>3. \A x \in Number : fds'[x] # <<"outW", m>>
      BY <1>3, <2>2, <3>2
    <3>4. \A l \in Starts : <<"outW", m>> \in held'[l] => l = m
      BY <2>2, <3>2
    <3> QED BY <3>3, <3>4
  <2> QED BY <2>1, <2>2
<1> QED BY <1>4, <1>5, <1>6 DEF PipesInherited

\* A number is c's to close: it names nothing, c's socket or a pipe of c's.
ClosesOwn(c) ==
  \A x \in Number :
    \/ fds'[x] = fds[x] \/ fds[x] = Free \/ fds[x] = Socket(c)
    \/ \E n \in Starts, e \in {"inR", "inW", "outR", "outW"} :
         fds[x] = <<e, n>> /\ starts[n].client = c

\* A step that changes one Client and its program only.
LEMMA OneClient ==
  ASSUME DInv, loop = "running", world' = world, TypeOK', PipesInherited',
         NEW c \in Client,
         \A d \in Client \ {c} : conn'[d] = conn[d],
         Len(starts) <= Len(starts'),
         \A n \in Starts : n <= Len(starts) => starts'[n] = starts[n],
         \A n \in Starts : n <= Len(starts) /\ n # conn[c].pid => proc'[n] = proc[n],
         loop' = "running" =>
           /\ ProgramFits(c)'
           /\ Undisturbed => ClosesOwn(c) /\ NumbersFit(c)'
           /\ \A n \in Starts : n > Len(starts) \/ n = conn[c].pid => ProgramKnown(n)'
  PROVE  DInv'
<1> SUFFICES ASSUME loop' = "running"
             PROVE  /\ \A d \in Client : ProgramFits(d)' /\ (Undisturbed' => NumbersFit(d)')
                    /\ \A n \in Starts : ProgramKnown(n)'
  BY DEF DInv
<1>1. Len(starts) \in Nat /\ Len(starts') \in Nat /\ Starts \subseteq Nat
  BY DEF DInv, TypeOK, Starts
<1>2. Undisturbed' <=> Undisturbed
  BY DEF Undisturbed
<1>3. ASSUME NEW n \in Starts
      PROVE  ProgramKnown(n)'
  <2>1. CASE n > Len(starts) \/ n = conn[c].pid
    BY <2>1
  <2>2. CASE n <= Len(starts) /\ n # conn[c].pid
    <3>1. proc'[n] = proc[n] /\ starts'[n] = starts[n] /\ ProgramKnown(n)
      BY <2>2 DEF DInv
    <3>2. starts[n] \in Start
      BY <2>2 DEF DInv, TypeOK, Starts
    <3>3. CASE Alive(n)
      <4>1. starts[n].client \in Client \ {c}
        BY <2>2, <3>1, <3>2, <3>3 DEF ProgramKnown, Start
      <4> QED BY <1>1, <2>2, <3>1, <4>1 DEF ProgramKnown, Alive
    <3>4. CASE ~Alive(n)
      BY <3>1, <3>4 DEF ProgramKnown, Alive
    <3> QED BY <3>3, <3>4
  <2> QED BY <1>1, <2>1, <2>2
<1>4. ASSUME NEW d \in Client, d # c
      PROVE  ProgramFits(d)' /\ (Undisturbed' => NumbersFit(d)')
  <2>1. conn'[d] = conn[d] /\ ProgramFits(d) /\ (Undisturbed => NumbersFit(d))
        /\ ProgramFits(c)
    BY <1>4 DEF DInv
  <2>2. conn[d] \in Fields /\ conn[c] \in Fields
    BY <1>4 DEF DInv, TypeOK
  <2>3. ASSUME conn[d].pid \in Starts
        PROVE  /\ conn[d].pid <= Len(starts)
               /\ starts'[conn[d].pid] = starts[conn[d].pid]
               /\ proc'[conn[d].pid] = proc[conn[d].pid]
    <3>1. conn[d].pid <= Len(starts) /\ starts[conn[d].pid].client = d
      BY <2>1, <2>3 DEF ProgramFits
    <3>2. conn[d].pid # conn[c].pid
      BY <1>4, <2>1, <2>3, <3>1 DEF ProgramFits
    <3> QED BY <2>3, <3>1, <3>2
  <2>4. ProgramFits(d)'
    <3> DEFINE k == conn[d]
    <3>1. k.pid \in Starts =>
            /\ k.pid <= Len(starts') /\ starts'[k.pid] = starts[k.pid]
            /\ proc'[k.pid] = proc[k.pid]
      <4> HIDE DEF k
      <4>1. ASSUME k.pid \in Starts
            PROVE  k.pid \in Nat
        BY <1>1, <4>1
      <4> QED BY <1>1, <2>3, <4>1 DEF k
    <3>2. ProgramFits(d) /\ conn'[d] = k
      BY <2>1
    <3> HIDE DEF k
    <3> QED BY <3>1, <3>2 DEF ProgramFits, Alive
  <2>5. ASSUME Undisturbed
        PROVE  NumbersFit(d)'
    <3>1. ClosesOwn(c) /\ NumbersFit(d)
      BY <2>1, <2>5
    <3>2. conn[d].error /\ conn[d].pid \in Starts => ~starts'[conn[d].pid].registered
      BY <2>3, <3>1 DEF NumbersFit
    <3>3. ASSUME conn[d].life = "live"
          PROVE  conn[d].socket \in Number /\ fds'[conn[d].socket] = Socket(d)
      <4>1. fds[conn[d].socket] = Socket(d)
        BY <3>1, <3>3 DEF NumbersFit, OwnSocket
      <4>2. conn[d].socket \in Number
        BY <2>2, <3>1, <3>3 DEF NumbersFit, Fields
      <4> QED BY <1>4, <3>1, <4>1, <4>2 DEF ClosesOwn, Socket, Free
    <3>4. ASSUME conn[d].life = "live", conn[d].turn = "cgi", ~conn[d].ready
          PROVE  Registered(d, conn[d].rd, "outR")'
      <4> DEFINE x == conn[d].rd
      <4>1. x # 0 /\ fds[x][1] = "outR"
            /\ starts[fds[x][2]].client = d /\ starts[fds[x][2]].registered
        BY <3>1, <3>4 DEF NumbersFit, Registered
      <4>2. x \in Number /\ fds[x] \in Object
        BY <2>2, <4>1 DEF Fields, DInv, TypeOK, Table
      <4>3. PICK n \in Starts : fds[x] = <<"outR", n>>
        BY <4>1, <4>2 DEF Object, Free, Socket, Ends
      <4>4. n <= Len(starts) /\ starts'[n] = starts[n] /\ starts[n].client = d
        BY <4>1, <4>2, <4>3 DEF DInv, PipesInherited
      <4>5. fds'[x] = fds[x]
        BY <1>4, <3>1, <4>2, <4>3, <4>4 DEF ClosesOwn, Socket, Free
      <4> QED BY <2>1, <4>1, <4>3, <4>4, <4>5 DEF Registered
    <3> QED BY <2>1, <3>2, <3>3, <3>4 DEF NumbersFit, OwnSocket, Number
  <2> QED BY <1>2, <2>4, <2>5
<1> QED BY <1>2, <1>3, <1>4

-----------------------------------------------------------------------------
(***************************************************************************)
(* The handlers that start no program.                                     *)
(***************************************************************************)

\* Losing the loop leaves everything else as it was.
LEMMA LoopLost ==
  ASSUME DInv, world' = world, loop' # "running",
         UNCHANGED <<fds, starts, proc, held, conn>>
  PROVE  DInv'
BY DEF DInv, TypeOK, PipesInherited

Procs == [Starts -> {"none", "runs", "exit0", "exit1", "killed", "gone"}]

\* A step of one Client that starts no program: its new fields are k.
LEMMA NothingStarted ==
  ASSUME DInv, loop = "running", world' = world, starts' = starts,
         NEW c \in Client, NEW k \in Fields, conn' = [conn EXCEPT ![c] = k],
         fds' \in Table, proc' \in Procs, held' \in [Starts -> SUBSET Object],
         \A x \in Number : \/ fds'[x] = fds[x] \/ fds'[x] = Free
                           \/ \E d \in Client : fds'[x] = Socket(d),
         \A n \in Starts : held'[n] \subseteq held[n],
         \A n \in Starts : n # conn[c].pid => proc'[n] = proc[n],
         loop' = "running" =>
           /\ ProgramFits(c)'
           /\ Undisturbed => ClosesOwn(c) /\ NumbersFit(c)'
           /\ \A n \in Starts : n = conn[c].pid => ProgramKnown(n)'
  PROVE  DInv'
<1>1. TypeOK'
  BY DEF DInv, TypeOK, Procs
<1>2. PipesInherited'
  BY NoPipeMade DEF DInv
<1>3. \A d \in Client \ {c} : conn'[d] = conn[d]
  BY DEF DInv, TypeOK
<1>4. Len(starts) \in Nat /\ \A n \in Starts : n \in Nat
  BY BoundsAssumption DEF DInv, TypeOK, Starts
<1>5. ASSUME NEW n \in Starts, n > Len(starts), n # conn[c].pid
      PROVE  ProgramKnown(n)'
  <2>1. ~Alive(n)
    BY <1>4, <1>5 DEF DInv, ProgramKnown
  <2>2. proc'[n] = proc[n]
    BY <1>5
  <2> QED BY <2>1, <2>2 DEF ProgramKnown, Alive
<1>6. /\ Len(starts) <= Len(starts')
      /\ \A n \in Starts : n <= Len(starts) => starts'[n] = starts[n]
      /\ \A n \in Starts : n <= Len(starts) /\ n # conn[c].pid => proc'[n] = proc[n]
  BY <1>4
<1>7. ASSUME loop' = "running"
      PROVE  /\ ProgramFits(c)'
             /\ Undisturbed => ClosesOwn(c) /\ NumbersFit(c)'
             /\ \A n \in Starts : n > Len(starts) \/ n = conn[c].pid => ProgramKnown(n)'
  BY <1>5, <1>7
<1> QED BY <1>1, <1>2, <1>3, <1>6, <1>7, OneClient

\* What is known of a Client at its turn.
LEMMA AtTurn ==
  ASSUME DInv, loop = "running", NEW c \in Client
  PROVE  /\ conn[c] \in Fields /\ fds \in Table /\ proc \in Procs
         /\ held \in [Starts -> SUBSET Object]
         /\ ProgramFits(c) /\ (Undisturbed => NumbersFit(c))
         /\ \A n \in Starts : n = conn[c].pid => ProgramKnown(n)
BY DEF DInv, TypeOK, Procs

LEMMA Accepts ==
  ASSUME DInv, world' = world, NEW c \in Client, acceptClient(c)
  PROVE  DInv'
<1>1. CASE FreeIn(fds) = {}
  BY <1>1, LoopLost DEF acceptClient, Lose
<1>2. CASE FreeIn(fds) # {}
  <2> DEFINE k == [conn[c] EXCEPT !.life = "live", !.socket = NumberOf(fds', Socket(c))]
  <2>1. /\ loop = "running" /\ conn[c].life = "new" /\ fds' = open(fds, Socket(c))
        /\ conn' = [conn EXCEPT ![c].life = "live",
                                ![c].socket = NumberOf(fds', Socket(c))]
        /\ UNCHANGED <<loop, starts, proc, held>>
    BY <1>2 DEF acceptClient
  <2>2. /\ conn[c] \in Fields /\ fds \in Table /\ proc \in Procs
        /\ held \in [Starts -> SUBSET Object] /\ ProgramFits(c)
        /\ TypeOK /\ conn[c].pid = 0 /\ 0 \notin Starts
    BY <2>1, AtTurn DEF DInv, ProgramFits, Starts
  <2>3. PICK x \in Number :
          /\ fds[x] = Free /\ fds' \in Table
          /\ \A y \in Number : fds'[y] = IF y = x THEN Socket(c) ELSE fds[y]
    <3>1. Socket(c) \in Object
      BY DEF Object
    <3> QED BY <1>2, <2>1, <2>2, <3>1, Opens
  <2>4. NumberOf(fds', Socket(c)) \in Number /\ fds'[NumberOf(fds', Socket(c))] = Socket(c)
    BY <2>3, Named
  <2>5. k \in Fields /\ conn' = [conn EXCEPT ![c] = k]
    BY <2>1, <2>2, <2>4 DEF Fields, DInv, TypeOK
  <2>6. /\ k.life = "live" /\ k.turn = "request" /\ ~k.error /\ k.pid = 0
        /\ k.socket # 0 /\ k.socket \in Number /\ fds'[k.socket] = Socket(c)
    BY <2>1, <2>2, <2>4 DEF ProgramFits, Fields, Number
  <2>7. conn'[c] = k
    BY <2>5 DEF DInv, TypeOK
  <2> HIDE DEF k
  <2>8. ProgramFits(c)' /\ NumbersFit(c)' /\ ClosesOwn(c)
    BY <2>2, <2>3, <2>6, <2>7 DEF ProgramFits, NumbersFit, OwnSocket, ClosesOwn
  <2> QED BY <2>1, <2>2, <2>3, <2>5, <2>8, NothingStarted
<1> QED BY <1>1, <1>2

LEMMA RequestHandled ==
  ASSUME DInv, world' = world, NEW c \in Client, handleRequest(c)
  PROVE  DInv'
<1> DEFINE k == [conn[c] EXCEPT !.turn = "answer", !.ready = TRUE]
<1>1. /\ loop = "running" /\ conn[c].life = "live" /\ conn[c].turn = "request"
      /\ conn' = [conn EXCEPT ![c].turn = "answer", ![c].ready = TRUE]
      /\ UNCHANGED <<loop, fds, starts, proc, held>>
  BY DEF handleRequest, Running
<1>2. /\ conn[c] \in Fields /\ fds \in Table /\ proc \in Procs
      /\ held \in [Starts -> SUBSET Object]
      /\ ProgramFits(c) /\ (Undisturbed => NumbersFit(c))
  BY <1>1, AtTurn
<1>3. k \in Fields /\ conn' = [conn EXCEPT ![c] = k] /\ conn'[c] = k
  BY <1>1, <1>2 DEF Fields, DInv, TypeOK
<1>4. /\ k.life = "live" /\ k.turn = "answer" /\ k.pid = 0 /\ k.socket = conn[c].socket
      /\ conn[c].pid = 0 /\ 0 \notin Starts
  BY <1>1, <1>2 DEF ProgramFits, Fields, Starts
<1> HIDE DEF k
<1>5. ProgramFits(c)' /\ (Undisturbed => NumbersFit(c)') /\ ClosesOwn(c)
  BY <1>1, <1>2, <1>3, <1>4 DEF ProgramFits, NumbersFit, OwnSocket, ClosesOwn
<1>6. loop = "running" /\ UNCHANGED <<loop, fds, starts, proc, held>>
  BY <1>1
<1> QED BY <1>2, <1>3, <1>4, <1>5, <1>6, NothingStarted

\* An error of a Client whose program, if it still has one, is as before.
LEMMA ErrorHandled ==
  ASSUME DInv, loop = "running", world' = world, NEW c \in Client, NEW k \in Fields,
         handleError(c, k), conn[c].life = "live", k.life = "live",
         k.socket = conn[c].socket,
         UNCHANGED <<fds, starts, held>>, proc' \in Procs,
         \A n \in Starts : n # conn[c].pid => proc'[n] = proc[n],
         \/ k.pid = conn[c].pid /\ proc' = proc
         \/ k.pid = 0 /\ \A n \in Starts : n = conn[c].pid => proc'[n] = "gone",
         Undisturbed => \A n \in Starts : n = k.pid => ~starts[n].registered
  PROVE  DInv'
<1>1. /\ conn[c] \in Fields /\ fds \in Table /\ held \in [Starts -> SUBSET Object]
      /\ ProgramFits(c) /\ (Undisturbed => NumbersFit(c))
      /\ \A n \in Starts : n = conn[c].pid => ProgramKnown(n)
      /\ TypeOK /\ PipesInherited /\ 0 \notin Starts
  BY AtTurn DEF DInv, Starts
<1>2. CASE k.turn = "answer"
  <2>1. loop' = "restarted" /\ conn' = conn
    BY <1>2 DEF handleError
  <2>2. TypeOK'
    BY <1>1, <2>1 DEF TypeOK, Procs
  <2>3. PipesInherited'
    BY <1>1, NoPipeMade
  <2> QED BY <2>1, <2>2, <2>3 DEF DInv
<1>3. CASE k.turn # "answer"
  <2> DEFINE k2 == [k EXCEPT !.turn = "answer", !.error = TRUE, !.ready = TRUE]
  <2>1. k2 \in Fields /\ conn' = [conn EXCEPT ![c] = k2] /\ loop' = loop
    BY <1>3 DEF handleError, Fields
  <2>2. /\ k2.life = "live" /\ k2.turn = "answer" /\ k2.error
        /\ k2.pid = k.pid /\ k2.socket = conn[c].socket
    BY DEF Fields
  <2>3. conn'[c] = k2
    BY <1>1, <2>1 DEF TypeOK
  <2> HIDE DEF k2
  <2>4. k2.pid \in Starts =>
          k2.pid = conn[c].pid /\ proc' = proc /\ starts' = starts
    BY <1>1, <2>2
  <2>5. ProgramFits(c)'
    BY <1>1, <2>2, <2>3, <2>4 DEF ProgramFits, Alive
  <2>6. ASSUME Undisturbed
        PROVE  ClosesOwn(c) /\ NumbersFit(c)'
    BY <1>1, <2>2, <2>3, <2>6 DEF NumbersFit, OwnSocket, ClosesOwn
  <2>7. ASSUME NEW n \in Starts, n = conn[c].pid
        PROVE  ProgramKnown(n)'
    BY <1>1, <2>2, <2>3, <2>7 DEF ProgramKnown, Alive, ProgramFits
  <2>8. /\ fds' \in Table /\ held' \in [Starts -> SUBSET Object] /\ starts' = starts
        /\ \A x \in Number : fds'[x] = fds[x]
        /\ \A n \in Starts : held'[n] \subseteq held[n]
    BY <1>1
  <2> QED BY <2>1, <2>5, <2>6, <2>7, <2>8, NothingStarted
<1> QED BY <1>2, <1>3

LEMMA BodyRefused ==
  ASSUME DInv, world' = world, NEW c \in Client, refuseBody(c)
  PROVE  DInv'
<1>1. /\ loop = "running" /\ conn[c].life = "live" /\ handleError(c, conn[c])
      /\ UNCHANGED <<fds, starts, proc, held>> /\ ~Undisturbed
  BY DEF refuseBody, Running, Undisturbed
<1>2. conn[c] \in Fields /\ proc \in Procs
  BY <1>1, AtTurn
<1> QED BY <1>1, <1>2, ErrorHandled

LEMMA WithoutPipe ==
  ASSUME DInv, world' = world, NEW c \in Client, Starting(c), NoPipe(c)
  PROVE  DInv'
<1>1. /\ loop = "running" /\ conn[c].life = "live" /\ conn[c].turn = "request"
      /\ handleError(c, conn[c]) /\ UNCHANGED <<fds, starts, proc, held>>
  BY DEF Starting, NoPipe, Running
<1>2. conn[c] \in Fields /\ proc \in Procs /\ conn[c].pid = 0 /\ 0 \notin Starts
  BY <1>1, AtTurn DEF ProgramFits, Starts
<1> QED BY <1>1, <1>2, ErrorHandled

LEMMA ProcessEnded ==
  ASSUME DInv, world' = world, NEW c \in Client, handleEndProcess(c)
  PROVE  DInv'
<1> DEFINE n == conn[c].pid
           k == [conn[c] EXCEPT !.pid = 0]
<1>1. /\ loop = "running" /\ conn[c].life = "live"
      /\ n > 0 /\ Exited(n)
      /\ proc' = [proc EXCEPT ![n] = "gone"]
      /\ \/ handleError(c, k)
         \/ /\ k.turn # "answer" /\ loop' = loop
            /\ conn' = [conn EXCEPT ![c] = [k EXCEPT !.turn = "answer"]]
      /\ UNCHANGED <<fds, starts, held>>
  BY DEF handleEndProcess, Running
<1>2. /\ conn[c] \in Fields /\ fds \in Table /\ proc \in Procs
      /\ held \in [Starts -> SUBSET Object]
      /\ ProgramFits(c) /\ (Undisturbed => NumbersFit(c)) /\ 0 \notin Starts
  BY <1>1, AtTurn DEF Starts
<1>3. n \in Starts
  BY <1>1 DEF Exited
<1>4. /\ proc' \in Procs /\ proc'[n] = "gone"
      /\ \A m \in Starts : m # n => proc'[m] = proc[m]
  BY <1>1, <1>2, <1>3 DEF Procs
<1>5. /\ k \in Fields /\ k.life = "live" /\ k.pid = 0 /\ k.socket = conn[c].socket
      /\ k.turn = conn[c].turn /\ k.error = conn[c].error
  BY <1>1, <1>2 DEF Fields, Pid
<1>6. CASE handleError(c, k)
  <2> HIDE DEF k
  <2>1. \A m \in Starts : m = conn[c].pid => proc'[m] = "gone"
    BY <1>4
  <2>2. Undisturbed => \A m \in Starts : m = k.pid => ~starts[m].registered
    BY <1>2, <1>5
  <2>3. \A m \in Starts : m # conn[c].pid => proc'[m] = proc[m]
    BY <1>4
  <2> QED BY <1>1, <1>4, <1>5, <1>6, <2>1, <2>2, <2>3, ErrorHandled
<1>7. CASE /\ k.turn # "answer" /\ loop' = loop
           /\ conn' = [conn EXCEPT ![c] = [k EXCEPT !.turn = "answer"]]
  <2> DEFINE k2 == [k EXCEPT !.turn = "answer"]
  <2>1. k2 \in Fields /\ conn' = [conn EXCEPT ![c] = k2] /\ conn'[c] = k2
    <3> HIDE DEF k
    <3> QED BY <1>5, <1>7 DEF Fields, DInv, TypeOK
  <2>2. /\ k2.life = "live" /\ k2.turn = "answer" /\ k2.pid = 0
        /\ k2.socket = conn[c].socket
    <3> HIDE DEF k
    <3> QED BY <1>5 DEF Fields
  <2> HIDE DEF k2, k
  <2>3. ProgramFits(c)'
    BY <1>2, <2>1, <2>2 DEF ProgramFits
  <2>4. Undisturbed => ClosesOwn(c) /\ NumbersFit(c)'
    BY <1>1, <1>2, <2>1, <2>2 DEF NumbersFit, OwnSocket, ClosesOwn
  <2>5. ASSUME NEW m \in Starts, m = conn[c].pid
        PROVE  ProgramKnown(m)'
    BY <1>4, <2>5 DEF ProgramKnown, Alive
  <2>6. /\ fds' \in Table /\ held' \in [Starts -> SUBSET Object] /\ starts' = starts
        /\ \A x \in Number : fds'[x] = fds[x]
        /\ \A m \in Starts : held'[m] \subseteq held[m]
    BY <1>1, <1>2
  <2> QED BY <1>1, <1>4, <2>1, <2>3, <2>4, <2>5, <2>6, NothingStarted
<1> QED BY <1>1, <1>6, <1>7

\* A pipe that is still registered is the Client's own.
LEMMA OwnPipe ==
  ASSUME DInv, NEW c \in Client, NEW x \in {0} \cup Number, NEW e \in {"inW", "outR"},
         Registered(c, x, e)
  PROVE  /\ x \in Number
         /\ \E n \in Starts : fds[x] = <<e, n>> /\ starts[n].client = c
<1>1. x \in Number /\ fds[x] \in Object
  BY DEF Registered, DInv, TypeOK, Table
<1>2. PICK n \in Starts : fds[x] = <<e, n>>
  BY <1>1 DEF Registered, Object, Free, Socket, Ends
<1> QED BY <1>1, <1>2 DEF Registered

\* The events of the pipes close the pipe they are of.
LEMMA PipeHandled ==
  ASSUME DInv, world' = world, NEW c \in Client, writePipe(c) \/ readPipe(c)
  PROVE  DInv'
<1>1. CASE Lose("killed")
  BY <1>1, LoopLost DEF Lose
<1>2. CASE ~Lose("killed")
  <2>1. PICK x \in {0} \cup Number, e \in {"inW", "outR"}, k \in Fields :
          /\ Running(c) /\ Registered(c, x, e) /\ fds' = close(fds, x)
          /\ conn' = [conn EXCEPT ![c] = k]
          /\ k.life = conn[c].life /\ k.turn = conn[c].turn /\ k.error = conn[c].error
          /\ k.pid = conn[c].pid /\ k.socket = conn[c].socket /\ k.rd = conn[c].rd
          /\ ~k.ready => e = "inW" /\ ~conn[c].ready
          /\ UNCHANGED <<loop, starts, proc, held>>
    <3>1. conn[c] \in Fields
      BY DEF DInv, TypeOK
    <3>2. conn[c].wr \in {0} \cup Number /\ conn[c].rd \in {0} \cup Number
      BY <3>1 DEF Fields
    <3>3. CASE writePipe(c)
      <4>1. /\ Running(c) /\ Registered(c, conn[c].wr, "inW")
            /\ fds' = close(fds, conn[c].wr)
            /\ UNCHANGED <<loop, starts, proc, held, conn>>
        BY <1>2, <3>3 DEF writePipe
      <4>2. conn' = [conn EXCEPT ![c] = conn[c]]
        BY <4>1 DEF DInv, TypeOK
      <4> QED BY <3>1, <3>2, <4>1, <4>2
    <3>4. CASE readPipe(c)
      <4> DEFINE k2 == [conn[c] EXCEPT !.ready = TRUE]
      <4>1. /\ Running(c) /\ Registered(c, conn[c].rd, "outR")
            /\ fds' = close(fds, conn[c].rd)
            /\ conn' = [conn EXCEPT ![c] = k2]
            /\ UNCHANGED <<loop, starts, proc, held>>
        BY <3>4 DEF readPipe, DInv, TypeOK
      <4>2. /\ k2 \in Fields /\ k2.ready
            /\ k2.life = conn[c].life /\ k2.turn = conn[c].turn
            /\ k2.error = conn[c].error /\ k2.pid = conn[c].pid
            /\ k2.socket = conn[c].socket /\ k2.rd = conn[c].rd
        BY <3>1 DEF Fields
      <4> HIDE DEF k2
      <4> QED BY <3>2, <4>1, <4>2
    <3> QED BY <3>3, <3>4
  <2>2. /\ loop = "running" /\ conn[c].life = "live" /\ TypeOK
        /\ conn[c] \in Fields /\ fds \in Table /\ proc \in Procs
        /\ held \in [Starts -> SUBSET Object]
        /\ ProgramFits(c) /\ (Undisturbed => NumbersFit(c))
        /\ \A n \in Starts : n = conn[c].pid => ProgramKnown(n)
    BY <2>1, AtTurn DEF Running, DInv
  <2>4. x \in Number /\ \E n \in Starts : fds[x] = <<e, n>> /\ starts[n].client = c
    BY <2>1, OwnPipe
  <2>5. fds' \in Table /\ \A y \in Number : fds'[y] = IF y = x THEN Free ELSE fds[y]
    BY <2>1, <2>2, Closes
  <2>6. conn'[c] = k
    BY <2>1, <2>2 DEF TypeOK
  <2>7. /\ k.life = "live" /\ k.turn = conn[c].turn /\ k.error = conn[c].error
        /\ k.pid = conn[c].pid /\ k.socket = conn[c].socket /\ k.rd = conn[c].rd
        /\ ~k.ready => e = "inW" /\ ~conn[c].ready
    BY <2>1, <2>2
  <2>8. ProgramFits(c)'
    BY <2>1, <2>2, <2>6, <2>7 DEF ProgramFits, Alive
  <2>9. ClosesOwn(c)
    BY <2>4, <2>5 DEF ClosesOwn
  <2>10. ASSUME Undisturbed
         PROVE  NumbersFit(c)'
    <3>1. NumbersFit(c) /\ conn[c].socket \in {0} \cup Number /\ conn[c].rd \in {0} \cup Number
      BY <2>2, <2>10 DEF Fields
    <3>2. k.socket # 0 /\ OwnSocket(c)'
      <4> DEFINE y == conn[c].socket
      <4>1. y # 0 /\ y \in Number /\ fds[y] = Socket(c) /\ k.socket = y
        BY <2>2, <2>7, <3>1 DEF NumbersFit, OwnSocket
      <4>2. y # x
        BY <2>4, <4>1 DEF Socket
      <4> HIDE DEF y
      <4> QED BY <2>5, <2>6, <4>1, <4>2 DEF OwnSocket
    <3>3. ASSUME k.turn = "cgi", ~k.ready
          PROVE  Registered(c, k.rd, "outR")'
      <4> DEFINE y == conn[c].rd
      <4>1. Registered(c, y, "outR") /\ e = "inW" /\ y \in {0} \cup Number /\ k.rd = y
        BY <2>2, <2>7, <3>1, <3>3 DEF NumbersFit
      <4> HIDE DEF y
      <4>2. y \in Number /\ \E n \in Starts : fds[y] = <<"outR", n>>
        BY <4>1, OwnPipe, ZenonT(60)
      <4>3. fds'[y] = fds[y]
        BY <2>4, <2>5, <4>1, <4>2
      <4>4. starts' = starts
        BY <2>1
      <4> QED BY <4>1, <4>3, <4>4 DEF Registered
    <3> QED BY <2>1, <2>6, <2>7, <3>1, <3>2, <3>3 DEF NumbersFit
  <2>11. ASSUME NEW n \in Starts, n = conn[c].pid
         PROVE  ProgramKnown(n)'
    BY <2>1, <2>2, <2>6, <2>7, <2>8, <2>11 DEF ProgramKnown, ProgramFits, Alive
  <2>12. /\ loop = "running" /\ starts' = starts
         /\ proc' \in Procs /\ held' \in [Starts -> SUBSET Object]
         /\ \A y \in Number : fds'[y] = fds[y] \/ fds'[y] = Free
         /\ \A n \in Starts : held'[n] \subseteq held[n]
         /\ \A n \in Starts : n # conn[c].pid => proc'[n] = proc[n]
    BY <2>1, <2>2, <2>5
  <2> QED BY <2>1, <2>5, <2>8, <2>9, <2>10, <2>11, <2>12, NothingStarted
<1> QED BY <1>1, <1>2

\* A Client is deleted: nobody else loses a number where nothing is disturbed,
\* and its program, if it had one that was not killed before, is killed.
LEMMA CleanedUp ==
  ASSUME DInv, loop = "running", world' = world, NEW c \in Client,
         conn[c].life = "live",
         NEW t \in Table, NEW p \in Procs, NEW h \in [Starts -> SUBSET Object],
         NEW k \in Fields,
         CleanUpClientResources(c, t, p, h, k),
         \A x \in Number : t[x] = fds[x] \/ t[x] = Free,
         \A n \in Starts : h[n] \subseteq held[n],
         \A n \in Starts : n # conn[c].pid => p[n] = proc[n],
         k.socket = conn[c].socket,
         \/ k.pid = conn[c].pid
         \/ k.pid = 0 /\ \A n \in Starts : n = conn[c].pid => p[n] = "killed",
         Undisturbed => t = fds /\ k.pid = 0
  PROVE  DInv'
<1>1. /\ conn[c] \in Fields /\ fds \in Table /\ proc \in Procs
      /\ held \in [Starts -> SUBSET Object]
      /\ ProgramFits(c) /\ (Undisturbed => NumbersFit(c)) /\ TypeOK
      /\ 0 \notin Starts
  BY AtTurn DEF DInv, Starts
<1>2. CASE Lose("dangling")
  BY <1>2, LoopLost DEF Lose
<1> DEFINE k2 == [k EXCEPT !.life = "freed", !.pid = 0]
           t1 == close(t, k.socket)
<1>3. k2 \in Fields /\ k2.life = "freed" /\ k2.pid = 0
  BY DEF Fields, Pid
<1>4. t1 \in Table /\ \A x \in Number : t1[x] = IF x = k.socket THEN Free ELSE t[x]
  BY Closes DEF Fields
<1>5. CASE ~Lose("dangling")
  <2>1. /\ conn' = [conn EXCEPT ![c] = k2]
        /\ UNCHANGED <<loop, starts>>
        /\ \/ k.pid = 0 /\ fds' = t1 /\ proc' = p /\ held' = h
           \/ /\ k.pid > 0 /\ k.pid # 0 /\ fds' = closePipeFd(t1, k)
              /\ proc' = [proc EXCEPT ![k.pid] = "killed"]
              /\ held' = [h EXCEPT ![k.pid] = {}]
    <3>1. /\ \/ k.pid = 0 /\ fds' = t1 /\ proc' = p /\ held' = h
             \/ /\ k.pid > 0 /\ fds' = closePipeFd(t1, k)
                /\ proc' = [proc EXCEPT ![k.pid] = "killed"]
                /\ held' = [h EXCEPT ![k.pid] = {}]
          /\ conn' = [conn EXCEPT ![c] = k2]
          /\ UNCHANGED <<loop, starts>>
      BY <1>5, Zenon DEF CleanUpClientResources, Killed
    <3> HIDE DEF t1, k2
    <3>2. k.pid > 0 => k.pid # 0
      BY DEF Fields, Pid
    <3> QED BY <3>1, <3>2
  <2>2. conn'[c] = k2
    BY <1>1, <2>1 DEF TypeOK
  <2>3. /\ fds' \in Table
        /\ \A x \in Number : fds'[x] = fds[x] \/ fds'[x] = Free
        /\ k.pid = 0 => \A x \in Number : fds'[x] = IF x = k.socket THEN Free ELSE t[x]
    <3>1. CASE fds' = t1
      BY <1>4, <3>1
    <3>2. CASE k.pid # 0 /\ fds' = closePipeFd(t1, k)
      <4>1. k.wr \in {0} \cup Number /\ k.rd \in {0} \cup Number
        BY DEF Fields
      <4> DEFINE t2 == close(t1, k.wr)
      <4>2. t2 \in Table /\ \A x \in Number : t2[x] = IF x = k.wr THEN Free ELSE t1[x]
        <5> HIDE DEF t1
        <5> QED BY <1>4, <4>1, Closes, ZenonT(60)
      <4>3. fds' = close(t2, k.rd)
        BY <3>2 DEF closePipeFd
      <4> HIDE DEF t1, t2
      <4>4. fds' \in Table /\ \A x \in Number : fds'[x] = IF x = k.rd THEN Free ELSE t2[x]
        BY <4>1, <4>2, <4>3, Closes, ZenonT(60)
      <4> QED BY <1>4, <3>2, <4>2, <4>4
    <3> QED BY <2>1, <3>1, <3>2
  <2>4. /\ proc' \in Procs /\ held' \in [Starts -> SUBSET Object]
        /\ \A n \in Starts : n # conn[c].pid => proc'[n] = proc[n]
        /\ \A n \in Starts : held'[n] \subseteq held[n]
        /\ \A n \in Starts : n = conn[c].pid => proc'[n] = "killed"
    <3>1. CASE k.pid = 0 /\ proc' = p /\ held' = h
      BY <1>1, <3>1
    <3>2. CASE /\ k.pid # 0 /\ proc' = [proc EXCEPT ![k.pid] = "killed"]
               /\ held' = [h EXCEPT ![k.pid] = {}]
      <4>1. k.pid = conn[c].pid
        BY <3>2
      <4> DEFINE n0 == k.pid
      <4> HIDE DEF n0
      <4>2. /\ proc' = [proc EXCEPT ![n0] = "killed"] /\ held' = [h EXCEPT ![n0] = {}]
            /\ conn[c].pid = n0
        BY <3>2, <4>1 DEF n0
      <4> QED BY <1>1, <4>2 DEF Procs
    <3> QED BY <2>1, <3>1, <3>2
  <2> HIDE DEF k2, t1
  <2>5. ProgramFits(c)' /\ (Undisturbed => NumbersFit(c)')
    BY <1>1, <1>3, <2>2 DEF ProgramFits, NumbersFit
  <2>6. ASSUME Undisturbed
        PROVE  ClosesOwn(c)
    <3>1. fds[k.socket] = Socket(c)
      BY <1>1, <2>6 DEF NumbersFit, OwnSocket
    <3>2. \A x \in Number : fds'[x] = IF x = k.socket THEN Free ELSE fds[x]
      BY <2>3, <2>6
    <3> QED BY <3>1, <3>2 DEF ClosesOwn
  <2>7. ASSUME NEW n \in Starts, n = conn[c].pid
        PROVE  ProgramKnown(n)'
    BY <2>4, <2>7 DEF ProgramKnown, Alive
  <2> QED BY <1>3, <2>1, <2>3, <2>4, <2>5, <2>6, <2>7, NothingStarted
<1> QED BY <1>2, <1>5

LEMMA TornDown ==
  ASSUME DInv, world' = world, NEW c \in Client, tearDown(c)
  PROVE  DInv'
<1>1. /\ loop = "running" /\ conn[c].life = "live" /\ ~Undisturbed
      /\ CleanUpClientResources(c, fds, proc, held, conn[c])
  BY DEF tearDown, Running, Undisturbed
<1>2. /\ conn[c] \in Fields /\ fds \in Table /\ proc \in Procs
      /\ held \in [Starts -> SUBSET Object]
  BY <1>1, AtTurn
<1> QED BY <1>1, <1>2, CleanedUp

\* send(), with what sendData has done before it.
LEMMA Sends ==
  ASSUME DInv, loop = "running", world' = world, NEW c \in Client,
         conn[c].life = "live", conn[c].turn = "answer",
         NEW t \in Table, NEW p \in Procs, NEW h \in [Starts -> SUBSET Object],
         NEW k \in Fields, sent(c, t, p, h, k),
         \A x \in Number : t[x] = fds[x] \/ t[x] = Free,
         \A n \in Starts : h[n] \subseteq held[n],
         \A n \in Starts : n # conn[c].pid => p[n] = proc[n],
         k.life = "live" /\ k.turn = "answer" /\ k.socket = conn[c].socket,
         k.pid = 0,
         \A n \in Starts : n = conn[c].pid => p[n] = "killed",
         Undisturbed => t = fds
  PROVE  DInv'
<1>1. CASE CleanUpClientResources(c, t, p, h, k)
  BY <1>1, CleanedUp
<1>2. CASE /\ fds' = t /\ proc' = p /\ held' = h
           /\ \/ conn' = [conn EXCEPT ![c] = k]
              \/ conn' = [conn EXCEPT ![c] = [k EXCEPT !.turn = "request", !.error = FALSE,
                                                       !.ready = FALSE]]
           /\ UNCHANGED <<loop, starts>>
  <2>1. PICK k2 \in Fields :
          /\ conn' = [conn EXCEPT ![c] = k2]
          /\ k2.life = "live" /\ k2.pid = 0 /\ k2.socket = conn[c].socket
          /\ k2.turn \in {"answer", "request"}
          /\ k2.turn = "request" => ~k2.error
    <3> DEFINE k3 == [k EXCEPT !.turn = "request", !.error = FALSE, !.ready = FALSE]
    <3>1. /\ k3 \in Fields /\ k3.life = "live" /\ k3.pid = 0
          /\ k3.socket = conn[c].socket /\ k3.turn = "request" /\ ~k3.error
      BY DEF Fields
    <3>2. conn' = [conn EXCEPT ![c] = k] \/ conn' = [conn EXCEPT ![c] = k3]
      BY <1>2
    <3> HIDE DEF k3
    <3> QED BY <3>1, <3>2
  <2>2. /\ TypeOK /\ conn[c] \in Fields /\ (Undisturbed => NumbersFit(c)) /\ 0 \notin Starts
    BY AtTurn DEF DInv, Starts
  <2>3. conn'[c] = k2
    BY <2>1, <2>2 DEF TypeOK
  <2>4. ProgramFits(c)'
    BY <2>1, <2>2, <2>3 DEF ProgramFits
  <2>5. ASSUME Undisturbed
        PROVE  ClosesOwn(c) /\ NumbersFit(c)'
    <3>1. fds' = fds /\ NumbersFit(c)
      BY <1>2, <2>2, <2>5
    <3> QED BY <2>1, <2>2, <2>3, <3>1 DEF NumbersFit, OwnSocket, ClosesOwn
  <2>6. ASSUME NEW n \in Starts, n = conn[c].pid
        PROVE  ProgramKnown(n)'
    BY <1>2, <2>6 DEF ProgramKnown, Alive
  <2> QED BY <1>2, <2>1, <2>4, <2>5, <2>6, NothingStarted
<1> QED BY <1>1, <1>2 DEF sent

LEMMA DataSent ==
  ASSUME DInv, world' = world, NEW c \in Client, sendData(c)
  PROVE  DInv'
<1> DEFINE k == conn[c]
<1>1. loop = "running" /\ k.life = "live" /\ k.turn = "answer"
  BY DEF sendData, Running
<1>2. /\ k \in Fields /\ fds \in Table /\ proc \in Procs
      /\ held \in [Starts -> SUBSET Object]
      /\ ProgramFits(c) /\ (Undisturbed => NumbersFit(c)) /\ 0 \notin Starts
  BY <1>1, AtTurn DEF Starts
<1>3. CASE ~mustKill(k) /\ sent(c, fds, proc, held, k)
  <2>1. k.pid = 0
    BY <1>1, <1>2, <1>3 DEF mustKill, ProgramFits
  <2>2. \A n \in Starts : n # conn[c].pid
    BY <1>2, <2>1
  <2> QED BY <1>1, <1>2, <1>3, <2>1, <2>2, Sends
<1>4. CASE /\ mustKill(k) /\ ~PidEventGone(k)
           /\ sent(c, closePipeFd(fds, k), Killed(k.pid),
                   [held EXCEPT ![k.pid] = {}], [k EXCEPT !.pid = 0])
  <2> DEFINE t == closePipeFd(fds, k)
             n == k.pid
             p == Killed(n)
             h == [held EXCEPT ![n] = {}]
             k2 == [k EXCEPT !.pid = 0]
  <2>1. n \in Starts /\ k.error /\ starts[n].registered
    BY <1>2, <1>4 DEF mustKill, PidEventGone, Fields, Pid, Starts
  <2>2. ~Undisturbed
    BY <1>2, <2>1 DEF NumbersFit
  <2>3. t \in Table /\ \A x \in Number : t[x] = fds[x] \/ t[x] = Free
    <3>1. k.wr \in {0} \cup Number /\ k.rd \in {0} \cup Number
      BY <1>2 DEF Fields
    <3> DEFINE u == close(fds, k.wr)
    <3>2. u \in Table /\ \A x \in Number : u[x] = IF x = k.wr THEN Free ELSE fds[x]
      BY <1>2, <3>1, Closes
    <3>3. t = close(u, k.rd)
      BY DEF closePipeFd
    <3> HIDE DEF t, u
    <3> QED BY <3>1, <3>2, <3>3, Closes, ZenonT(60)
  <2>4. /\ p \in Procs /\ p[n] = "killed" /\ \A m \in Starts : m # n => p[m] = proc[m]
        /\ h \in [Starts -> SUBSET Object] /\ \A m \in Starts : h[m] \subseteq held[m]
    <3> HIDE DEF n
    <3> QED BY <1>2, <2>1 DEF Killed, Procs
  <2>5. /\ k2 \in Fields /\ k2.life = "live" /\ k2.turn = "answer"
        /\ k2.socket = conn[c].socket /\ k2.pid = 0
    BY <1>1, <1>2 DEF Fields, Pid
  <2>6. sent(c, t, p, h, k2) /\ conn[c].pid = n
    BY <1>4
  <2> HIDE DEF t, p, h, k2, n
  <2> QED BY <1>1, <2>2, <2>3, <2>4, <2>5, <2>6, Sends
<1>5. CASE Lose("restarted")
  BY <1>5, LoopLost DEF Lose
<1> QED BY <1>3, <1>4, <1>5 DEF sendData

LEMMA FreedHandled ==
  ASSUME DInv, world' = world, NEW c \in Client, handleFreed(c)
  PROVE  DInv'
BY LoopLost DEF handleFreed, Lose

\* A program ends by itself: its Client still has it to wait for.
LEMMA ProgramEnds ==
  ASSUME DInv, world' = world, NEW n \in Starts, ChildExits(n)
  PROVE  DInv'
<1>1. /\ loop = "running" /\ proc[n] = "runs" /\ held' = [held EXCEPT ![n] = {}]
      /\ \E e \in {"exit0", "exit1"} : proc' = [proc EXCEPT ![n] = e]
      /\ UNCHANGED <<loop, fds, starts, conn>>
  BY DEF ChildExits
<1>2. TypeOK /\ ProgramKnown(n) /\ 0 \notin Starts
  BY <1>1 DEF DInv, Starts
<1>3. PICK c \in Client : c = starts[n].client
  <2>1. starts \in Seq(Start) /\ n \in 1 .. Len(starts)
    BY <1>1, <1>2, BoundsAssumption DEF TypeOK, Starts, ProgramKnown, Alive
  <2>2. starts[n] \in Start
    BY <2>1
  <2> QED BY <2>2 DEF Start
<1>4. n <= Len(starts) /\ conn[c].life = "live" /\ conn[c].pid = n
  BY <1>1, <1>2, <1>3 DEF ProgramKnown, Alive
<1>5. /\ conn[c] \in Fields /\ fds \in Table /\ proc \in Procs
      /\ held \in [Starts -> SUBSET Object]
      /\ ProgramFits(c) /\ (Undisturbed => NumbersFit(c))
  BY <1>1, AtTurn
<1>6. /\ proc' \in Procs /\ \A m \in Starts : m # n => proc'[m] = proc[m]
      /\ proc'[n] \in {"exit0", "exit1"}
      /\ held' \in [Starts -> SUBSET Object] /\ \A m \in Starts : held'[m] \subseteq held[m]
  BY <1>1, <1>5 DEF Procs
<1>7. conn' = [conn EXCEPT ![c] = conn[c]]
  BY <1>1, <1>2 DEF TypeOK
<1>8. ProgramFits(c)'
  <2>1. /\ conn'[c] = conn[c] /\ starts' = starts
        /\ proc'[conn[c].pid] \in {"exit0", "exit1"}
    BY <1>1, <1>4, <1>6
  <2> QED BY <1>5, <2>1 DEF ProgramFits, Alive
<1>9. Undisturbed => ClosesOwn(c) /\ NumbersFit(c)'
  <2>1. conn' = conn /\ starts' = starts /\ fds' = fds
    BY <1>1
  <2>2. ClosesOwn(c)
    BY <2>1 DEF ClosesOwn
  <2>3. NumbersFit(c) => NumbersFit(c)'
    BY <2>1 DEF NumbersFit, OwnSocket, Registered
  <2> QED BY <1>5, <2>2, <2>3
<1>10. ASSUME NEW m \in Starts, m = conn[c].pid
       PROVE  ProgramKnown(m)'
  <2>1. m = n /\ conn' = conn /\ starts' = starts
    BY <1>1, <1>4, <1>10
  <2> QED BY <1>3, <1>4, <2>1 DEF ProgramKnown
<1>11. \A m \in Starts : m # conn[c].pid => proc'[m] = proc[m]
  BY <1>4, <1>6
<1>12. loop = "running" /\ starts' = starts /\ fds' \in Table /\ conn[c] \in Fields
       /\ \A x \in Number : fds'[x] = fds[x]
  BY <1>1, <1>5
<1> QED BY <1>6, <1>7, <1>8, <1>9, <1>10, <1>11, <1>12, NothingStarted

-----------------------------------------------------------------------------
(***************************************************************************)
(* The handlers that start a program.                                      *)
(***************************************************************************)

End == {"inR", "inW", "outR", "outW"}

\* A start was made, as far as it got: with a program whose events are
\* registered, or with an error to answer and perhaps a program.
LEMMA StartMade ==
  ASSUME DInv, loop = "running", world' = world, NEW c \in Client,
         conn[c].life = "live", conn[c].turn = "request",
         NEW n \in Starts, n = Len(starts) + 1,
         NEW s \in Start, s.client = c, starts' = Append(starts, s),
         fds' \in Table,
         \A x \in Number : fds'[x] = fds[x]
                           \/ (fds[x] = Free /\ \E e \in End : fds'[x] = <<e, n>>),
         s.registered => \A x \in Number : fds'[x] # <<"outW", n>>,
         NEW k \in Fields, conn' = [conn EXCEPT ![c] = k],
         k.life = "live" /\ k.socket = conn[c].socket,
         \/ /\ s.registered /\ k.turn = "cgi" /\ ~k.error /\ k.pid = n
            /\ k.rd \in Number /\ fds'[k.rd] = <<"outR", n>>
         \/ ~s.registered /\ k.turn = "answer" /\ k.error /\ k.pid \in {-1, 0, n},
         \/ /\ k.pid = n /\ proc' = [proc EXCEPT ![n] = "runs"]
            /\ \E u \in Table :
                 /\ held' = [held EXCEPT ![n] = handlePostDup2(u, n)]
                 /\ \A x \in Number : u[x] = fds[x] \/ \E e \in End : u[x] = <<e, n>>
         \/ k.pid # n /\ UNCHANGED <<proc, held>>
  PROVE  DInv'
<1>1. /\ conn[c] \in Fields /\ fds \in Table /\ proc \in Procs
      /\ held \in [Starts -> SUBSET Object] /\ TypeOK /\ PipesInherited
      /\ ProgramFits(c) /\ (Undisturbed => NumbersFit(c))
      /\ ProgramKnown(n)
  BY AtTurn DEF DInv
<1>2. /\ conn[c].pid = 0 /\ 0 \notin Starts /\ -1 \notin Starts
      /\ n \in Nat /\ Len(starts) \in Nat /\ n <= MaxStarts
      /\ \A m \in Starts : m \in Nat
  BY <1>1, BoundsAssumption DEF ProgramFits, Starts, TypeOK
<1>3. /\ starts' \in Seq(Start) /\ Len(starts') = n /\ starts'[n] = s
      /\ \A m \in Starts : m <= Len(starts) => starts'[m] = starts[m]
  <2>1. starts \in Seq(Start)
    BY <1>1 DEF TypeOK
  <2>2. /\ Append(starts, s) \in Seq(Start)
        /\ Len(Append(starts, s)) = Len(starts) + 1
        /\ \A i \in 1 .. Len(starts) : Append(starts, s)[i] = starts[i]
        /\ Append(starts, s)[Len(starts) + 1] = s
    BY <2>1, AppendProperties
  <2>3. \A m \in Starts : m <= Len(starts) => m \in 1 .. Len(starts)
    BY <1>2, BoundsAssumption DEF Starts
  <2> QED BY <2>2, <2>3, Zenon
<1>4. /\ proc' \in Procs /\ \A m \in Starts : m # n => proc'[m] = proc[m]
      /\ held' \in [Starts -> SUBSET Object]
      /\ \A m \in Starts : m # n => held'[m] = held[m]
      /\ k.pid = n => proc'[n] = "runs"
      /\ k.pid # n => proc'[n] \notin {"runs", "exit0", "exit1"}
  <2>1. proc[n] \notin {"runs", "exit0", "exit1"}
    BY <1>1, <1>2 DEF ProgramKnown, Alive
  <2>2. \A u \in Table : handlePostDup2(u, n) \in SUBSET Object
    BY DEF handlePostDup2, Table
  <2> QED BY <1>1, <2>1, <2>2 DEF Procs
<1>5. /\ <<"inW", n>> \notin held'[n]
      /\ \A e \in End, m \in Starts :
           <<e, m>> \in held'[n] /\ m # n => \E x \in Number : fds[x] = <<e, m>>
  <2>1. CASE UNCHANGED held
    <3>1. \A e \in End, m \in Starts : <<e, m>> \notin held[n]
      <4> SUFFICES ASSUME NEW e \in End, NEW m \in Starts, <<e, m>> \in held[n]
                   PROVE  FALSE
        OBVIOUS
      <4>1. n <= Len(starts)
        BY <1>1 DEF PipesInherited, End
      <4> QED BY <1>2, <4>1
    <3> QED BY <2>1, <3>1 DEF End
  <2>2. CASE \E u \in Table :
               /\ held' = [held EXCEPT ![n] = handlePostDup2(u, n)]
               /\ \A x \in Number : u[x] = fds[x] \/ \E e \in End : u[x] = <<e, n>>
    <3>1. PICK u \in Table :
            /\ held' = [held EXCEPT ![n] = handlePostDup2(u, n)]
            /\ \A x \in Number : u[x] = fds[x] \/ \E e \in End : u[x] = <<e, n>>
      BY <2>2
    <3>2. held'[n] = {u[x] : x \in Number} \ {Free, <<"inW", n>>, <<"outR", n>>}
      BY <1>1, <3>1 DEF handlePostDup2
    <3>3. ASSUME NEW e \in End, NEW m \in Starts, <<e, m>> \in held'[n], m # n
          PROVE  \E x \in Number : fds[x] = <<e, m>>
      <4>1. PICK x \in Number : u[x] = <<e, m>>
        BY <3>2, <3>3
      <4> QED BY <3>1, <3>3, <4>1
    <3> QED BY <3>2, <3>3, ZenonT(60)
  <2> QED BY <2>1, <2>2
<1>6. PipesInherited'
  <2>1. \A x \in Number : \/ fds'[x] = fds[x]
                          \/ \E e \in {"inR", "inW", "outR", "outW"} : fds'[x] = <<e, n>>
                          \/ fds'[x] = Free
    BY DEF End
  <2>2. \A e \in {"inR", "inW", "outR", "outW"}, m \in Starts :
          <<e, m>> \in held'[n] /\ m # n => \E x \in Number : fds[x] = <<e, m>>
    BY <1>5 DEF End
  <2> QED BY <1>1, <1>4, <1>5, <2>1, <2>2, NewStart
<1>7. conn' \in [Client -> Fields] /\ conn'[c] = k
      /\ \A d \in Client \ {c} : conn'[d] = conn[d]
  BY <1>1 DEF TypeOK
<1>8. TypeOK'
  BY <1>1, <1>2, <1>3, <1>4, <1>7 DEF TypeOK, Procs
<1>9. ProgramFits(c)'
  <2>1. k.pid \in Starts => /\ k.pid = n /\ k.pid <= Len(starts')
                            /\ starts'[k.pid] = s /\ proc'[k.pid] = "runs"
    BY <1>2, <1>3, <1>4
  <2> QED BY <1>3, <1>7, <2>1 DEF ProgramFits, Alive
<1>10. ASSUME Undisturbed
       PROVE  ClosesOwn(c) /\ NumbersFit(c)'
  <2>1. ClosesOwn(c)
    BY DEF ClosesOwn
  <2>2. k.socket # 0 /\ k.socket \in Number /\ fds'[k.socket] = Socket(c)
    <3> DEFINE y == conn[c].socket
    <3>1. y # 0 /\ y \in Number /\ fds[y] = Socket(c) /\ k.socket = y
      BY <1>1, <1>10 DEF NumbersFit, OwnSocket, Fields
    <3> HIDE DEF y
    <3> QED BY <3>1 DEF Socket, Free
  <2>3. k.pid \in Starts => k.pid = n
    BY <1>2
  <2>4. k.turn = "cgi" => Registered(c, k.rd, "outR")'
    <3>1. ASSUME k.turn = "cgi"
          PROVE  /\ s.registered /\ k.rd \in Number
                 /\ fds'[k.rd] = <<"outR", n>> /\ k.rd # 0
      BY <3>1 DEF Number
    <3> QED BY <1>3, <3>1 DEF Registered
  <2> QED BY <1>3, <1>7, <2>1, <2>2, <2>3, <2>4 DEF NumbersFit, OwnSocket
<1>11. ASSUME NEW m \in Starts, m > Len(starts) \/ m = conn[c].pid
       PROVE  ProgramKnown(m)'
  <2>1. CASE m = n
    <3>1. CASE k.pid = n
      BY <1>2, <1>3, <1>7, <2>1, <3>1 DEF ProgramKnown
    <3>2. CASE k.pid # n
      BY <1>4, <2>1, <3>2 DEF ProgramKnown, Alive
    <3> QED BY <3>1, <3>2
  <2>2. CASE m # n
    <3>1. ~Alive(m)
      <4>1. m > Len(starts) /\ ProgramKnown(m)
        BY <1>2, <1>11 DEF DInv
      <4> QED BY <1>2, <4>1 DEF ProgramKnown
    <3>2. proc'[m] = proc[m]
      BY <1>4, <2>2
    <3> QED BY <3>1, <3>2 DEF ProgramKnown, Alive
  <2> QED BY <2>1, <2>2
<1>12. Len(starts) <= Len(starts')
       /\ \A m \in Starts : m <= Len(starts) /\ m # conn[c].pid => proc'[m] = proc[m]
  BY <1>2, <1>3, <1>4
<1> QED BY <1>3, <1>6, <1>7, <1>8, <1>9, <1>10, <1>11, <1>12, OneClient

\* fork() and what follows, with the pipes in t and their numbers in k.
LEMMA ChildStarted ==
  ASSUME DInv, world' = world, NEW c \in Client, Starting(c),
         NEW n \in Starts, n = Len(starts) + 1, NEW post \in BOOLEAN,
         NEW t \in Table, NEW k \in Fields, startChild(c, t, k, post),
         \A x \in Number : t[x] = fds[x]
                           \/ (fds[x] = Free /\ \E e \in End : t[x] = <<e, n>>),
         k.life = conn[c].life, k.turn = conn[c].turn, k.socket = conn[c].socket,
         k.error = conn[c].error, k.rd \in Number, t[k.rd] = <<"outR", n>>
  PROVE  DInv'
<1>1. loop = "running" /\ conn[c].life = "live" /\ conn[c].turn = "request"
  BY DEF Starting, Running
<1>2. ProgramFits(c) /\ ~k.error /\ -1 \notin Starts /\ 0 \notin Starts /\ n # -1
  BY <1>1, AtTurn, BoundsAssumption DEF ProgramFits, Starts
<1>3. ASSUME NEW p \in {-1, n}, fds' = t, Started(c, post, FALSE),
             handleError(c, [k EXCEPT !.pid = p]),
             IF p = n THEN Forked(t, n) ELSE UNCHANGED <<proc, held>>
      PROVE  DInv'
  <2> DEFINE s == [client |-> c, post |-> post, registered |-> FALSE]
             k1 == [k EXCEPT !.pid = p]
             k2 == [k1 EXCEPT !.turn = "answer", !.error = TRUE, !.ready = TRUE]
  <2>1. k1 \in Fields /\ k1.turn = "request" /\ k1.life = "live" /\ k1.pid = p
        /\ k1.socket = conn[c].socket
    BY <1>1 DEF Fields, Pid
  <2>2. handleError(c, k1)
    BY <1>3
  <2> HIDE DEF k1
  <2>3. conn' = [conn EXCEPT ![c] = k2]
    BY <2>1, <2>2 DEF handleError
  <2>4. /\ k2 \in Fields /\ k2.turn = "answer" /\ k2.error /\ k2.life = "live"
        /\ k2.pid = p /\ k2.socket = conn[c].socket
    BY <2>1 DEF Fields
  <2>5. s \in Start /\ s.client = c /\ ~s.registered /\ starts' = Append(starts, s)
    BY <1>3 DEF Start, Started
  <2> HIDE DEF k2, s
  <2>6. \/ /\ k2.pid = n /\ proc' = [proc EXCEPT ![n] = "runs"]
           /\ \E u \in Table :
                /\ held' = [held EXCEPT ![n] = handlePostDup2(u, n)]
                /\ \A x \in Number : u[x] = fds[x] \/ \E e \in End : u[x] = <<e, n>>
        \/ k2.pid # n /\ UNCHANGED <<proc, held>>
    BY <1>3, <2>4 DEF Forked
  <2>7. /\ fds' \in Table
        /\ \A x \in Number : fds'[x] = fds[x]
                              \/ (fds[x] = Free /\ \E e \in End : fds'[x] = <<e, n>>)
    BY <1>3
  <2>8. ~s.registered /\ k2.turn = "answer" /\ k2.error /\ k2.pid \in {-1, 0, n}
    BY <2>4, <2>5
  <2> QED BY <1>1, <2>3, <2>4, <2>5, <2>6, <2>7, <2>8, StartMade, ZenonT(60)
<1>4. ASSUME fds' = closeChildEnds(t, n), Started(c, post, TRUE), Forked(t, n),
             conn' = [conn EXCEPT ![c] = [k EXCEPT !.turn = "cgi", !.pid = n]]
      PROVE  DInv'
  <2> DEFINE s == [client |-> c, post |-> post, registered |-> TRUE]
             k2 == [k EXCEPT !.turn = "cgi", !.pid = n]
  <2>1. /\ k2 \in Fields /\ k2.turn = "cgi" /\ ~k2.error /\ k2.life = "live"
        /\ k2.pid = n /\ k2.socket = conn[c].socket /\ k2.rd = k.rd
    BY <1>1, <1>2 DEF Fields, Pid
  <2>2. s \in Start /\ s.client = c /\ s.registered /\ starts' = Append(starts, s)
    BY <1>4 DEF Start, Started
  <2>3. /\ fds' \in Table
        /\ \A x \in Number :
             fds'[x] = IF t[x] \in {<<"inR", n>>, <<"outW", n>>} THEN Free ELSE t[x]
    BY <1>4 DEF closeChildEnds, Table, Object
  <2>4. /\ \A x \in Number : fds'[x] # <<"outW", n>>
        /\ fds'[k.rd] = <<"outR", n>>
    BY <2>3 DEF Free
  <2>5. ASSUME NEW x \in Number
        PROVE  fds'[x] = fds[x] \/ (fds[x] = Free /\ \E e \in End : fds'[x] = <<e, n>>)
    <3>1. CASE t[x] \in {<<"inR", n>>, <<"outW", n>>}
      <4>1. fds[x] = Free
        <5>1. ASSUME fds[x] \in {<<"inR", n>>, <<"outW", n>>}
              PROVE  FALSE
          <6>1. n <= Len(starts) /\ Len(starts) \in Nat
            BY <5>1, SMTT(60) DEF DInv, PipesInherited, TypeOK
          <6> QED BY <6>1
        <5> QED BY <3>1, <5>1
      <4> QED BY <2>3, <3>1, <4>1
    <3>2. CASE t[x] \notin {<<"inR", n>>, <<"outW", n>>}
      BY <2>3, <3>2
    <3> QED BY <3>1, <3>2
  <2>6. /\ proc' = [proc EXCEPT ![n] = "runs"]
        /\ held' = [held EXCEPT ![n] = handlePostDup2(t, n)]
        /\ conn' = [conn EXCEPT ![c] = k2]
    BY <1>4 DEF Forked
  <2> HIDE DEF k2, s
  <2>7. /\ k2.pid = n /\ proc' = [proc EXCEPT ![n] = "runs"]
        /\ \E u \in Table :
             /\ held' = [held EXCEPT ![n] = handlePostDup2(u, n)]
             /\ \A x \in Number : u[x] = fds[x] \/ \E e \in End : u[x] = <<e, n>>
    BY <2>1, <2>6
  <2>8. k2.rd \in Number /\ fds'[k2.rd] = <<"outR", n>>
    BY <2>1, <2>4
  <2> QED BY <1>1, <2>1, <2>2, <2>3, <2>4, <2>5, <2>6, <2>7, <2>8, StartMade
<1>5. n = Len(starts) + 1
  OBVIOUS
<1> QED BY <1>2, <1>3, <1>4 DEF startChild

\* The next start has a number.
LEMMA NextStart ==
  ASSUME DInv, NEW c \in Client, Starting(c)
  PROVE  Len(starts) + 1 \in Starts
BY BoundsAssumption DEF Starting, DInv, TypeOK, World, Starts

LEMMA GetStarted ==
  ASSUME DInv, world' = world, NEW c \in Client, handleGetCgi(c)
  PROVE  DInv'
<1> DEFINE n == Len(starts) + 1
           t == pipe(fds, "outR", "outW", n)
           k == [conn[c] EXCEPT !.rd = NumberOf(t, <<"outR", n>>)]
<1>1. Starting(c) /\ n \in Starts
  BY NextStart DEF handleGetCgi
<1>2. CASE NoPipe(c)
  BY <1>1, <1>2, WithoutPipe
<1>3. CASE ~PipeFails(fds) /\ startChild(c, t, k, FALSE)
  <2>1. TypeOK /\ fds \in Table /\ conn[c] \in Fields
    BY DEF DInv, TypeOK
  <2>2. /\ t \in Table
        /\ \A x \in Number :
             t[x] = fds[x] \/ (fds[x] = Free /\ t[x] \in {<<"outR", n>>, <<"outW", n>>})
        /\ \E x \in Number : t[x] = <<"outR", n>>
    <3> HIDE DEF n
    <3> QED BY <1>1, <1>3, <2>1, MakesPipe
  <2> DEFINE rd == NumberOf(t, <<"outR", n>>)
  <2>3. rd \in Number /\ t[rd] = <<"outR", n>>
    <3> HIDE DEF t, n
    <3> QED BY <2>2, Named
  <2>4. \A x \in Number : t[x] = fds[x]
                          \/ (fds[x] = Free /\ \E e \in End : t[x] = <<e, n>>)
    <3> HIDE DEF t, n
    <3> QED BY <2>2 DEF End
  <2> HIDE DEF rd
  <2>5. /\ k \in Fields /\ k.life = conn[c].life /\ k.turn = conn[c].turn
        /\ k.socket = conn[c].socket /\ k.error = conn[c].error /\ k.rd = rd
    BY <2>1, <2>3 DEF Fields, rd
  <2> HIDE DEF t, k
  <2>6. n = Len(starts) + 1
    OBVIOUS
  <2> HIDE DEF n
  <2> QED BY <1>1, <1>3, <2>2, <2>3, <2>4, <2>5, <2>6, ChildStarted
<1> QED BY <1>2, <1>3 DEF handleGetCgi

LEMMA PostStarted ==
  ASSUME DInv, world' = world, NEW c \in Client, handlePostCgi(c)
  PROVE  DInv'
<1> DEFINE n == Len(starts) + 1
           t1 == pipe(fds, "inR", "inW", n)
           t2 == pipe(t1, "outR", "outW", n)
           k1 == [conn[c] EXCEPT !.wr = NumberOf(t1, <<"inW", n>>)]
           k2 == [k1 EXCEPT !.rd = NumberOf(t2, <<"outR", n>>)]
<1>1. Starting(c) /\ n \in Starts
  BY NextStart DEF handlePostCgi
<1>2. CASE NoPipe(c)
  BY <1>1, <1>2, WithoutPipe
<1>3. /\ TypeOK /\ fds \in Table /\ conn[c] \in Fields
      /\ loop = "running" /\ conn[c].life = "live" /\ conn[c].turn = "request"
      /\ ProgramFits(c)
  BY <1>1 DEF DInv, TypeOK, Starting, Running
<1>4. ASSUME ~PipeFails(fds)
      PROVE  /\ t1 \in Table
             /\ \A x \in Number :
                  t1[x] = fds[x] \/ (fds[x] = Free /\ t1[x] \in {<<"inR", n>>, <<"inW", n>>})
             /\ k1 \in Fields /\ k1.life = "live" /\ k1.turn = "request"
             /\ k1.socket = conn[c].socket /\ k1.error = conn[c].error
             /\ k1.pid = conn[c].pid
  <2>1. /\ t1 \in Table
        /\ \A x \in Number :
             t1[x] = fds[x] \/ (fds[x] = Free /\ t1[x] \in {<<"inR", n>>, <<"inW", n>>})
        /\ \E x \in Number : t1[x] = <<"inW", n>>
    <3> HIDE DEF n
    <3> QED BY <1>1, <1>3, <1>4, MakesPipe
  <2> DEFINE wr == NumberOf(t1, <<"inW", n>>)
  <2>2. wr \in Number
    <3> HIDE DEF t1, n
    <3> QED BY <2>1, Named
  <2> HIDE DEF wr
  <2>3. /\ k1 \in Fields /\ k1.life = "live" /\ k1.turn = "request"
        /\ k1.socket = conn[c].socket /\ k1.error = conn[c].error
        /\ k1.pid = conn[c].pid
    BY <1>3, <2>2 DEF Fields, wr
  <2> HIDE DEF t1, k1
  <2> QED BY <2>1, <2>3
<1>5. CASE /\ ~PipeFails(fds) /\ fds' = t1 /\ Started(c, TRUE, FALSE)
           /\ handleError(c, k1) /\ UNCHANGED <<proc, held>>
  <2> DEFINE s == [client |-> c, post |-> TRUE, registered |-> FALSE]
             k3 == [k1 EXCEPT !.turn = "answer", !.error = TRUE, !.ready = TRUE]
  <2>1. s \in Start /\ s.client = c /\ ~s.registered /\ starts' = Append(starts, s)
    BY <1>5 DEF Start, Started
  <2>2. conn[c].pid = 0 /\ 0 \notin Starts
    BY <1>3 DEF ProgramFits, Starts
  <2> HIDE DEF k1, t1
  <2>3. /\ k3 \in Fields /\ k3.turn = "answer" /\ k3.error /\ k3.life = "live"
        /\ k3.pid = 0 /\ k3.socket = conn[c].socket
    BY <1>4, <1>5, <2>2 DEF Fields
  <2>4. conn' = [conn EXCEPT ![c] = k3]
    BY <1>4, <1>5 DEF handleError
  <2>5. \A x \in Number : t1[x] = fds[x]
                          \/ (fds[x] = Free /\ \E e \in End : t1[x] = <<e, n>>)
    <3> HIDE DEF n
    <3> QED BY <1>4, <1>5 DEF End
  <2>6. n = Len(starts) + 1
    OBVIOUS
  <2> HIDE DEF n, k3, s
  <2>7. /\ fds' \in Table
        /\ \A x \in Number : fds'[x] = fds[x]
                              \/ (fds[x] = Free /\ \E e \in End : fds'[x] = <<e, n>>)
    BY <1>4, <1>5, <2>5
  <2>8. k3.pid # n /\ UNCHANGED <<proc, held>>
    BY <1>1, <1>5, <2>2, <2>3
  <2>9. ~s.registered /\ k3.turn = "answer" /\ k3.error /\ k3.pid \in {-1, 0, n}
    BY <2>1, <2>3
  <2> QED BY <1>1, <1>3, <2>1, <2>3, <2>4, <2>6, <2>7, <2>8, <2>9, StartMade
<1>6. CASE ~PipeFails(fds) /\ ~PipeFails(t1) /\ startChild(c, t2, k2, TRUE)
  <2>1. /\ t2 \in Table
        /\ \A x \in Number :
             t2[x] = t1[x] \/ (t1[x] = Free /\ t2[x] \in {<<"outR", n>>, <<"outW", n>>})
        /\ \E x \in Number : t2[x] = <<"outR", n>>
    <3> HIDE DEF n, t1
    <3> QED BY <1>1, <1>3, <1>4, <1>6, MakesPipe
  <2> DEFINE rd == NumberOf(t2, <<"outR", n>>)
  <2>2. rd \in Number /\ t2[rd] = <<"outR", n>>
    <3> HIDE DEF t2, n
    <3> QED BY <2>1, Named
  <2> HIDE DEF rd
  <2>3. /\ k2 \in Fields /\ k2.life = conn[c].life /\ k2.turn = conn[c].turn
        /\ k2.socket = conn[c].socket /\ k2.error = conn[c].error /\ k2.rd = rd
    <3> HIDE DEF k1, t2
    <3> QED BY <1>3, <1>4, <1>6, <2>2 DEF Fields, rd
  <2>4. \A x \in Number : t2[x] = fds[x]
                          \/ (fds[x] = Free /\ \E e \in End : t2[x] = <<e, n>>)
    <3> HIDE DEF n, t1, t2
    <3> QED BY <1>4, <1>6, <2>1 DEF End, Free
  <2>5. n = Len(starts) + 1
    OBVIOUS
  <2> HIDE DEF n, k1, k2, t1, t2
  <2> QED BY <1>1, <1>6, <2>1, <2>2, <2>3, <2>4, <2>5, ChildStarted
<1> QED BY <1>2, <1>5, <1>6 DEF handlePostCgi

-----------------------------------------------------------------------------
(***************************************************************************)
(* The theorems.                                                           *)
(***************************************************************************)

\* Before the first connection there is nothing open, started or recorded.
LEMMA InitFits == Init => DInv
<1> SUFFICES ASSUME Init PROVE DInv
  OBVIOUS
<1>1. world \in World /\ 0 \notin Starts
  BY WorldsAssumption DEF Init, Starts
<1>2. TypeOK
  BY <1>1, BoundsAssumption DEF Init, TypeOK, Table, Object, Fields, Pid
<1>3. PipesInherited
  BY BoundsAssumption DEF Init, PipesInherited, Free, Starts
<1>4. \A c \in Client : ProgramFits(c) /\ NumbersFit(c)
  BY <1>1 DEF Init, ProgramFits, NumbersFit
<1>5. \A n \in Starts : ProgramKnown(n)
  BY DEF Init, ProgramKnown, Alive
<1> QED BY <1>2, <1>3, <1>4, <1>5 DEF DInv

\* Every step of the server, a program or nobody keeps the invariant.
LEMMA StepFits == DInv /\ [Next]_vars => DInv'
<1> SUFFICES ASSUME DInv, [Next]_vars PROVE DInv'
  OBVIOUS
<1>1. CASE UNCHANGED vars
  BY <1>1, SMTT(60) DEF vars, DInv, TypeOK, PipesInherited, ProgramFits, NumbersFit,
     ProgramKnown, Alive, Undisturbed, OwnSocket, Registered
<1>2. ASSUME world' = world, NEW c \in Client, acceptClient(c) \/ Handle(c)
      PROVE  DInv'
  BY <1>2, Accepts, RequestHandled, GetStarted, PostStarted, BodyRefused, PipeHandled,
     ProcessEnded, DataSent, TornDown, FreedHandled DEF Handle
<1>3. ASSUME world' = world, NEW n \in Starts, ChildExits(n)
      PROVE  DInv'
  BY <1>3, ProgramEnds
<1> QED BY <1>1, <1>2, <1>3 DEF Next

\* What each Client records of its program and its numbers fits what is open and
\* running, after any handlers in any order.
THEOREM DescriptorsInvariant == Spec => []DInv
<1>1. Init => DInv
  BY InitFits
<1>2. DInv /\ [Next]_vars => DInv'
  BY StepFits
<1> QED BY <1>1, <1>2, PTL DEF Spec

\* The end of a program's output is its own end, as no younger program inherits
\* "outW" and no older one can; its input is held by younger ones at most.
THEOREM EndsOfOthers == Spec => []PipesHeld
<1>1. DInv => PipesHeld
  <2> SUFFICES ASSUME DInv, NEW n \in 1 .. Len(starts)
               PROVE  /\ starts[n].registered => Holders(<<"outW", n>>) \subseteq {n}
                      /\ Holders(<<"inW", n>>) \subseteq {Server} \cup {m \in Starts : m > n}
    BY DEF PipesHeld
  <2>1. /\ n \in Starts /\ n <= Len(starts) /\ n \in Int
        /\ \A m \in Starts : m \in Int
    BY BoundsAssumption DEF DInv, TypeOK, Starts
  <2>2. ASSUME starts[n].registered
        PROVE  Holders(<<"outW", n>>) \subseteq {n}
    <3>1. /\ \A x \in Number : fds[x] # <<"outW", n>>
          /\ \A m \in Starts : <<"outW", n>> \in held[m] => m = n
      BY <2>1, <2>2 DEF DInv, PipesInherited
    <3> QED BY <3>1 DEF Holders
  <2>3. \A m \in Starts : <<"inW", n>> \in held[m] => n <= m /\ n # m
    BY <2>1 DEF DInv, PipesInherited
  <2>4. Holders(<<"inW", n>>) \subseteq {Server} \cup {m \in Starts : m > n}
    BY <2>1, <2>3 DEF Holders
  <2> QED BY <2>2, <2>4
<1> QED BY <1>1, DescriptorsInvariant, PTL

\* A program that has ended by itself has a live Client that goes on naming it.
THEOREM EndedStillNamed == Spec => []StillNamed
<1>1. DInv => StillNamed
  <2> SUFFICES ASSUME DInv, ~Lost, NEW n \in Starts, Exited(n)
               PROVE  \E c \in Client : conn[c].life = "live" /\ conn[c].pid = n
    BY DEF StillNamed
  <2> DEFINE c == starts[n].client
  <2>1. n <= Len(starts) /\ conn[c].life = "live" /\ conn[c].pid = n
    BY DEF DInv, Lost, Exited, ProgramKnown, Alive
  <2>2. starts \in Seq(Start) /\ n \in 1 .. Len(starts)
    BY <2>1, BoundsAssumption DEF DInv, TypeOK, Starts
  <2>3. starts[n] \in Start
    BY <2>2
  <2>4. c \in Client
    BY <2>3 DEF Start
  <2> QED BY <2>1, <2>4
<1> QED BY <1>1, DescriptorsInvariant, PTL

\* Where no connection is torn down and no body refused, nobody's close() hits the
\* socket of another Client or the output it waits for.
THEOREM NumbersAreOwn == Spec => []OwnNumbers
<1>1. DInv => OwnNumbers
  BY DEF DInv, OwnNumbers, Lost, Undisturbed, NumbersFit
<1> QED BY <1>1, DescriptorsInvariant, PTL
=============================================================================
