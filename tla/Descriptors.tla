----------------------------- MODULE Descriptors -----------------------------
(***************************************************************************)
(* The descriptors behind the event loop: the server's table, in which     *)
(* pipe() and accept() take the lowest free numbers, the copies every      *)
(* CGI child inherits, since nothing is marked close-on-exec, and the      *)
(* numbers each Client goes on recording after it has closed them.         *)
(*                                                                         *)
(* What is open is an object: the socket of a connection, or an end of a   *)
(* pipe made for the n-th CGI program: "inW" leads to the "inR" that is    *)
(* its standard input, "outW" is its standard output, read at "outR".      *)
(*                                                                         *)
(* Handlers are taken for what they do to descriptors and processes; in    *)
(* what order a batch has them, and what they write, is EventLoop's and    *)
(* CgiRelay's subject.                                                     *)
(***************************************************************************)
EXTENDS Integers, Sequences, FiniteSets, FiniteSetsExt, Functions

CONSTANTS
  Client,     \* the connections
  MaxFd,      \* how many descriptors the server may have for them, at most
  MaxStarts,  \* a bound of the model: how many CGI programs are started
  Worlds      \* what the machine and the programs may be like: see World

ASSUME BoundsAssumption == MaxFd \in Nat \ {0} /\ MaxStarts \in Nat

\* fork() or kevent() fails; a program exits before the end of its input, or
\* with status 1; a body is refused; a connection is torn down by its peer, by
\* its timer, by send() failing, or after a 405.
Fault == {"fork", "kevent", "early", "status", "refused", "teardown"}

World == [numbers : 1 .. MaxFd, programs : 0 .. MaxStarts, faults : SUBSET Fault]

ASSUME WorldsAssumption == Worlds \subseteq World

VARIABLES
  world,   \* how many numbers and programs there are, and the faults
  loop,    \* "running", or how it was lost, as in EventLoop
  fds,     \* the server's descriptor table: number to object
  starts,  \* for the n-th start of a program: by which client, whether to post,
           \* and whether it got as far as being registered with its pipes
  proc,    \* what has become of the n-th program
  held,    \* the objects it holds, besides its own two pipe ends' copies
  conn     \* of each Client: its life ("new", "live" or "freed"); the turn it
           \* waits for ("request", "cgi" or "answer"); error: is _stateCode 400
           \* or more; ready: is there a _responseStr; and the numbers recorded
           \* in _socketFd, _writeFd[1] (wr), _readFd[0] (rd) and _pid, where
           \* INIT_PIPE and INIT_PID are 0 and -1 is that of a failed fork()

vars == <<world, loop, fds, starts, proc, held, conn>>

Server == 0
Starts == 1 .. MaxStarts
Number == 1 .. MaxFd
Free == <<"free", 0>>
Socket(c) == <<"socket", c>>
Ends == {"inR", "inW", "outR", "outW"} \X Starts

Init ==
  /\ world \in Worlds
  /\ loop = "running"
  /\ fds = [x \in Number |-> Free]
  /\ starts = <<>>
  /\ proc = [n \in Starts |-> "none"]
  /\ held = [n \in Starts |-> {}]
  /\ conn = [c \in Client |->
               [life |-> "new", turn |-> "request", error |-> FALSE, ready |-> FALSE,
                socket |-> 0, wr |-> 0, rd |-> 0, pid |-> 0]]

-----------------------------------------------------------------------------
(***************************************************************************)
(* The kernel's part.  t is the server's table by now.                     *)
(***************************************************************************)

FreeIn(t) == {x \in 1 .. world.numbers : t[x] = Free}

\* close() of a number that is recorded, whatever it names by now; -2 and a
\* number that is free are refused without harm.
close(t, x) == IF x = 0 THEN t ELSE [t EXCEPT ![x] = Free]

open(t, object) == [t EXCEPT ![Min(FreeIn(t))] = object]

\* The number under which t has an object.
NumberOf(t, object) == CHOOSE x \in Number : t[x] = object

\* pipe() takes the reading end first.
pipe(t, in, out, n) == open(open(t, <<in, n>>), <<out, n>>)
PipeFails(t) == Cardinality(FreeIn(t)) < 2

\* Who holds an object: the server and the programs.
Holders(object) ==
  {Server : x \in {y \in Number : fds[y] = object}}
    \cup {n \in Starts : object \in held[n]}

Exited(n) == n \in Starts /\ proc[n] \in {"exit0", "exit1"}

\* Does number x still name the pipe end e that Client c registered under it?
\* The kernel drops a knote with the descriptor.
Registered(c, x, e) ==
  /\ x # 0 /\ fds[x][1] = e
  /\ starts[fds[x][2]].client = c /\ starts[fds[x][2]].registered

-----------------------------------------------------------------------------
(***************************************************************************)
(* Ways a handler ends; k are the Client's fields by then.                 *)
(***************************************************************************)

Running(c) == loop = "running" /\ conn[c].life = "live"
OwnSocket(c) == fds[conn[c].socket] = Socket(c)

Lose(how) == loop' = how /\ UNCHANGED <<fds, starts, proc, held, conn>>

\* The knote of the socket's read side is there unless an answer is due; then
\* deleting it throws for the second time and leaves the loop.
handleError(c, k) ==
  IF k.turn = "answer"
  THEN loop' = "restarted" /\ conn' = conn
  ELSE /\ conn' = [conn EXCEPT ![c] =
                     [k EXCEPT !.turn = "answer", !.error = TRUE, !.ready = TRUE]]
       /\ loop' = loop

\* ~Client and sendData: both pipes are closed by their numbers.  (variant: only
\* the end that is read)
closePipeFdOnce(t, k) == close(t, k.rd)

closePipeFd(t, k) == close(close(t, k.wr), k.rd)

\* deletePidEvent() throws for the -1 of fork(), for a process whose event was
\* never registered, and for one whose event has been returned already.
PidEventGone(k) == k.pid = -1 \/ (k.pid > 0 /\ ~starts[k.pid].registered)

\* kill(): the child is never waited for.
Killed(n) == [proc EXCEPT ![n] = "killed"]

\* The socket is closed first, by the number the event carries.
CleanUpClientResources(c, t, p, h, k) ==
  LET t1 == close(t, k.socket)
      freed == [conn EXCEPT ![c] = [k EXCEPT !.life = "freed", !.pid = 0]]
  IN  \/ /\ k.pid = 0
         /\ fds' = t1 /\ proc' = p /\ held' = h /\ conn' = freed
         /\ UNCHANGED <<loop, starts>>
      \/ /\ k.pid > 0 /\ ~PidEventGone(k)
         /\ fds' = closePipeFd(t1, k)
         /\ proc' = Killed(k.pid) /\ held' = [h EXCEPT ![k.pid] = {}]
         /\ conn' = freed
         /\ UNCHANGED <<loop, starts>>
      \/ /\ PidEventGone(k) \/ Exited(k.pid)
         /\ Lose("dangling")

-----------------------------------------------------------------------------
(***************************************************************************)
(* The handlers.                                                           *)
(***************************************************************************)

\* accept() needs a number; without one the exception ends the program.
acceptClient(c) ==
  /\ loop = "running" /\ conn[c].life = "new"
  /\ \/ FreeIn(fds) = {} /\ Lose("exited")
     \/ /\ FreeIn(fds) # {}
        /\ fds' = open(fds, Socket(c))
        /\ conn' = [conn EXCEPT ![c].life = "live",
                                ![c].socket = NumberOf(fds', Socket(c))]
        /\ UNCHANGED <<loop, starts, proc, held>>

\* A request that needs no program is answered at once.
handleRequest(c) ==
  /\ Running(c) /\ OwnSocket(c) /\ conn[c].turn = "request"
  /\ conn' = [conn EXCEPT ![c].turn = "answer", ![c].ready = TRUE]
  /\ UNCHANGED <<loop, fds, starts, proc, held>>

\* What the child has after dup2() and its closes: all the server had, but of
\* its own pipes only the two ends it is to use.  (variant: the table as it is)
handlePostDup2Open(t, n) == {t[x] : x \in Number}

handlePostDup2(t, n) ==
  {t[x] : x \in Number} \ {Free, <<"inW", n>>, <<"outR", n>>}

\* (variant: the ends the child uses stay open)
closeChildEndsNever(t, n) == t

\* The parent closes the ends the child uses.
closeChildEnds(t, n) ==
  [x \in Number |-> IF t[x] \in {<<"inR", n>>, <<"outW", n>>} THEN Free ELSE t[x]]

\* The n-th start got this far.
Started(c, post, registered) ==
  starts' = Append(starts, [client |-> c, post |-> post, registered |-> registered])

Forked(t, n) ==
  /\ proc' = [proc EXCEPT ![n] = "runs"]
  /\ held' = [held EXCEPT ![n] = handlePostDup2(t, n)]

\* fork(), addProcessEvent() and the rest, with the pipes made in t and their
\* numbers in k.
startChild(c, t, k, post) ==
  LET n == Len(starts) + 1
  IN  \/ /\ "fork" \in world.faults
         /\ fds' = t /\ Started(c, post, FALSE)
         /\ handleError(c, [k EXCEPT !.pid = -1])
         /\ UNCHANGED <<proc, held>>
      \/ /\ "kevent" \in world.faults
         /\ fds' = t /\ Started(c, post, FALSE) /\ Forked(t, n)
         /\ handleError(c, [k EXCEPT !.pid = n])
      \/ /\ fds' = closeChildEnds(t, n) /\ Started(c, post, TRUE) /\ Forked(t, n)
         /\ conn' = [conn EXCEPT ![c] = [k EXCEPT !.turn = "cgi", !.pid = n]]
         /\ UNCHANGED loop

\* A request that starts a program; without two free numbers pipe() fails.
Starting(c) ==
  /\ Running(c) /\ OwnSocket(c) /\ conn[c].turn = "request"
  /\ Len(starts) < world.programs

NoPipe(c) ==
  /\ PipeFails(fds) /\ handleError(c, conn[c])
  /\ UNCHANGED <<fds, starts, proc, held>>

handleGetCgi(c) ==
  LET n == Len(starts) + 1
      t == pipe(fds, "outR", "outW", n)
  IN  /\ Starting(c)
      /\ \/ NoPipe(c)
         \/ /\ ~PipeFails(fds)
            /\ startChild(c, t, [conn[c] EXCEPT !.rd = NumberOf(t, <<"outR", n>>)], FALSE)

handlePostCgi(c) ==
  LET n  == Len(starts) + 1
      t1 == pipe(fds, "inR", "inW", n)
      t2 == pipe(t1, "outR", "outW", n)
      k1 == [conn[c] EXCEPT !.wr = NumberOf(t1, <<"inW", n>>)]
      k2 == [k1 EXCEPT !.rd = NumberOf(t2, <<"outR", n>>)]
  IN  /\ Starting(c)
      /\ \/ NoPipe(c)
         \/ /\ ~PipeFails(fds) /\ PipeFails(t1)
            /\ fds' = t1 /\ Started(c, TRUE, FALSE) /\ handleError(c, k1)
            /\ UNCHANGED <<proc, held>>
         \/ /\ ~PipeFails(fds) /\ ~PipeFails(t1)
            /\ startChild(c, t2, k2, TRUE)

\* A body that is too long, or whose chunks are wrong, before its end.
refuseBody(c) ==
  /\ "refused" \in world.faults
  /\ Running(c) /\ OwnSocket(c) /\ conn[c].turn = "cgi"
  /\ starts[conn[c].pid].post /\ Registered(c, conn[c].wr, "inW")
  /\ handleError(c, conn[c])
  /\ UNCHANGED <<fds, starts, proc, held>>

\* The event of the standard input: with no reader left a write is the end of
\* the program, and once the whole body has been written the pipe is closed.
writePipe(c) ==
  LET x == conn[c].wr
  IN  /\ Running(c) /\ Registered(c, x, "inW")
      /\ \/ Holders(<<"inR", fds[x][2]>>) = {} /\ Lose("killed")
         \/ /\ Holders(<<"inR", fds[x][2]>>) # {} /\ conn[c].turn = "cgi"
            /\ fds' = close(fds, x)
            /\ UNCHANGED <<loop, starts, proc, held, conn>>

\* The event of the standard output that ends it: nobody holds "outW" any more.
\* (Reading before the end changes no descriptor.)
readPipe(c) ==
  LET x == conn[c].rd
  IN  /\ Running(c) /\ Registered(c, x, "outR")
      /\ Holders(<<"outW", fds[x][2]>>) = {}
      /\ fds' = close(fds, x)
      /\ conn' = [conn EXCEPT ![c].ready = TRUE]
      /\ UNCHANGED <<loop, starts, proc, held>>

\* The exit event: the child is waited for.
handleEndProcess(c) ==
  LET n == conn[c].pid
      k == [conn[c] EXCEPT !.pid = 0]
  IN  /\ Running(c) /\ n > 0 /\ starts[n].registered /\ Exited(n)
      /\ proc' = [proc EXCEPT ![n] = "gone"]
      /\ \/ (proc[n] = "exit1" \/ k.turn = "answer") /\ handleError(c, k)
         \/ /\ proc[n] = "exit0" /\ k.turn # "answer"
            /\ conn' = [conn EXCEPT ![c] = [k EXCEPT !.turn = "answer"]]
            /\ UNCHANGED loop
      /\ UNCHANGED <<fds, starts, held>>

\* send() of an empty string, or one that fails, closes the connection; after
\* the last byte the next request is awaited.
sent(c, t, p, h, k) ==
  \/ /\ ~k.ready \/ "teardown" \in world.faults
     /\ CleanUpClientResources(c, t, p, h, k)
  \/ /\ k.ready
     /\ fds' = t /\ proc' = p /\ held' = h
     /\ \/ conn' = [conn EXCEPT ![c] = k]
        \/ conn' = [conn EXCEPT ![c] = [k EXCEPT !.turn = "request", !.error = FALSE,
                                                 !.ready = FALSE]]
     /\ UNCHANGED <<loop, starts>>

\* (variants: the child of a failed request is left alone; the pipes are closed
\* whether there is a child or not)
mustKillNever(k) == FALSE

mustKillAlways(k) == k.error

mustKill(k) == k.error /\ k.pid # 0

sendData(c) ==
  LET k == conn[c]
  IN  /\ Running(c) /\ OwnSocket(c) /\ k.turn = "answer"
      /\ \/ ~mustKill(k) /\ sent(c, fds, proc, held, k)
         \/ /\ mustKill(k) /\ ~PidEventGone(k)
            /\ sent(c, closePipeFd(fds, k), Killed(k.pid),
                    [held EXCEPT ![k.pid] = {}], [k EXCEPT !.pid = 0])
         \/ /\ mustKill(k)
            /\ PidEventGone(k) \/ Exited(k.pid)
            /\ Lose("restarted")

\* The peer hangs up, or the timer expires.
tearDown(c) ==
  /\ "teardown" \in world.faults /\ Running(c)
  /\ CleanUpClientResources(c, fds, proc, held, conn[c])

\* A pipe that outlived its Client is still registered with its address.
handleFreed(c) ==
  /\ loop = "running" /\ conn[c].life = "freed"
  /\ \E x \in Number : Registered(c, x, "inW") \/ Registered(c, x, "outR")
  /\ Lose("dangling")

\* A program ends: one that reads its input not before everybody has let go of
\* the writing end.
ChildExits(n) ==
  /\ loop = "running" /\ proc[n] = "runs"
  /\ (starts[n].post /\ "early" \notin world.faults) => Holders(<<"inW", n>>) = {}
  /\ held' = [held EXCEPT ![n] = {}]
  /\ \/ proc' = [proc EXCEPT ![n] = "exit0"]
     \/ "status" \in world.faults /\ proc' = [proc EXCEPT ![n] = "exit1"]
  /\ UNCHANGED <<loop, fds, starts, conn>>

Handle(c) ==
  \/ handleRequest(c) \/ handleGetCgi(c) \/ handlePostCgi(c) \/ refuseBody(c)
  \/ writePipe(c) \/ readPipe(c) \/ handleEndProcess(c) \/ sendData(c)
  \/ tearDown(c) \/ handleFreed(c)

Next ==
  /\ \/ \E c \in Client : acceptClient(c) \/ Handle(c)
     \/ \E n \in Starts : ChildExits(n)
  /\ UNCHANGED world

\* What is ready is handled, bodies come to their end, peers take their answers,
\* programs end; and the timer is all a connection has left whose number was
\* closed by another.  An exit event comes once only and may be lost, so nothing
\* is assumed of handleEndProcess.
Fairness ==
  /\ \A c \in Client :
       /\ WF_vars(writePipe(c) /\ UNCHANGED world)
       /\ WF_vars(readPipe(c) /\ UNCHANGED world)
       /\ WF_vars(sendData(c) /\ UNCHANGED world)
       /\ WF_vars(handleFreed(c) /\ UNCHANGED world)
       /\ WF_vars(tearDown(c) /\ ~OwnSocket(c) /\ UNCHANGED world)
  /\ \A n \in Starts : WF_vars(ChildExits(n) /\ UNCHANGED world)

Spec == Init /\ [][Next]_vars /\ Fairness

-----------------------------------------------------------------------------
Lost == loop # "running"

\* The end of a program's output is its own end: nobody else holds "outW".  And
\* the end of its input is up to the server and the programs started later.
PipesHeld ==
  \A n \in 1 .. Len(starts) :
    /\ starts[n].registered => Holders(<<"outW", n>>) \subseteq {n}
    /\ Holders(<<"inW", n>>) \subseteq {Server} \cup {m \in Starts : m > n}

\* A program that has ended by itself and was not waited for is still named by a
\* live Client, so that its exit event, if it comes, finds the right _pid: the
\* zombies nobody names are those that were killed.
StillNamed ==
  Lost \/ \A n \in Starts :
    Exited(n) => \E c \in Client : conn[c].life = "live" /\ conn[c].pid = n

\* Where no connection is torn down and no body refused, no number is closed that
\* has come to name something else: each Client keeps its socket and the output
\* it awaits.
OwnNumbers ==
  world.faults \cap {"teardown", "refused"} = {} /\ ~Lost =>
    \A c \in Client : conn[c].life = "live" =>
      /\ OwnSocket(c)
      /\ conn[c].turn = "cgi" /\ ~conn[c].ready => Registered(c, conn[c].rd, "outR")

\* When the server has closed a program's standard input the program gets to see
\* its end, whoever else holds a copy; it may take the end of younger programs.
\* And the peer of a connection that was closed gets to see that.
EndsSeen ==
  /\ \A n \in Starts :
       proc[n] = "runs" /\ Server \notin Holders(<<"inW", n>>) ~> proc[n] # "runs" \/ Lost
  /\ \A c \in Client :
       conn[c].life = "freed" ~> Holders(Socket(c)) = {} \/ Lost

PipesOpen(n) == \E e \in Ends : e[2] = n /\ \E x \in Number : fds[x] = e

\* Where programs read their input to its end and exit with 0, every pipe of a
\* program is closed by the server in the end.
PipesClosed ==
  \A n \in Starts :
    (/\ world.faults \cap {"early", "status"} = {}
     /\ n <= Len(starts) /\ starts[n].registered /\ PipesOpen(n))
    ~> (~PipesOpen(n) \/ Lost)
=============================================================================
