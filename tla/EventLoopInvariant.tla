------------------------- MODULE EventLoopInvariant --------------------------
(***************************************************************************)
(* The inductive invariant of EventLoop: what holds of one Client between  *)
(* any two handlers, as a predicate of what the loop knows about it.       *)
(***************************************************************************)
EXTENDS EventLoop

Pipes == {"pipeR", "pipeW", "lost"}

\* A connection not accepted yet has nothing but, perhaps, its first event.
NewConsistent(k, R, ch, B) ==
  R = {} /\ ch = "none" /\ k = NewConn /\ B \subseteq {"listen"}

\* The knotes of a live Client, and the events that outlive their knotes.
KnotesConsistent(k, R, ch, B) ==
  /\ "timer" \in R
  /\ ("read" \in R) # ("write" \in R)
  /\ "listen" \notin B
  /\ "write" \in B => "write" \in R
  /\ "proc" \in R => ch \notin {"none", "failed"}
  /\ "proc" \in B => ch \in {"exit0", "exit1"} /\ "proc" \notin R
  /\ "read" \in B => "read" \in R \/ k.rd # "none" \/ k.wr # "none"

\* A child is there only while the request it was started for is carried out.
ChildConsistent(k, R, ch, B) ==
  /\ k.phase = "READY" => ch = "none"
  /\ k.phase = "CREATE" => "read" \notin R \cup B
  /\ k.method = "script" /\ ~k.whole => ch = "none"
  /\ ch # "none" => k.method \in {"script", "POST"}
  /\ k.phase = "DONE" /\ k.method = "POST" => k.wr # "none"
  /\ ch # "none" /\ k.code = "ok" => k.phase = "DONE"
  /\ ch # "none" => k.rd # "none"
  /\ ch # "none" /\ k.resp = "empty" => k.rd = "open"

\* What there is to send.
AnswerConsistent(k, R, ch, B) ==
  /\ k.code # "ok" => k.resp # "empty"
  /\ "read" \in R /\ k.rd = "none" => k.buf = "empty" /\ k.resp = "empty"
  /\ "write" \in R =>
       /\ k.resp = "empty" => k.rd = "open"
       /\ k.rd = "none" => k.resp \in {"page", "error"}
       /\ k.code = "ok" => /\ ch = "none" /\ k.phase = "DONE"
                           /\ k.method = "script" => k.whole

\* A Client that was deleted leaves nothing but pipes.
FreedConsistent(k, R, ch, B) ==
  R \subseteq Pipes /\ B \subseteq Pipes /\ ch = "none"

\* A knote or an event of a pipe is there only if the pipe's number is.
PipesConsistent(k, R, ch, B) ==
  /\ "pipeR" \in R \cup B => k.rd # "none"
  /\ "pipeW" \in R \cup B => k.wr # "none"
  /\ "lost" \in R \cup B => k.rd # "none" \/ k.wr # "none"

\* l, k, R, ch and B are the life, the fields, the knotes, the child and the
\* events in the batch of one Client.
Consistent(l, k, R, ch, B) ==
  /\ l = "new" => NewConsistent(k, R, ch, B)
  /\ l = "live" => /\ KnotesConsistent(k, R, ch, B)
                   /\ ChildConsistent(k, R, ch, B)
                   /\ AnswerConsistent(k, R, ch, B)
  /\ l = "freed" => FreedConsistent(k, R, ch, B)
  /\ PipesConsistent(k, R, ch, B)

Pending(c) == {f \in Knote \cup {"listen"} : <<c, f>> \in batch}

\* The invariant itself: between any two steps of the loop everything known of
\* each Client fits together, and a loop lost to more than a failed accept() or
\* a malformed request has had to do with a CGI pipe.
IInv ==
  /\ TypeOK
  /\ Running =>
       \A c \in Client : Consistent(life[c], conn[c], reg[c], child[c], Pending(c))
  /\ FailureNeedsCgi
-----------------------------------------------------------------------------
(***************************************************************************)
(* The second invariant, of a loop whose CGI programs read all their       *)
(* input, answer and exit with 0.  o says whether the pipe from the child  *)
(* holds bytes not read yet.                                               *)
(***************************************************************************)

\* A request whose answer has not been begun: its header has not been read, or
\* it is a chunked GET or DELETE.
Untouched(k) == k.phase # "DONE" \/ (~k.whole /\ k.method # "POST")

\* The output of a child is read while its request is carried out, until it has
\* ended; what there was of it is still in the pipe or in the buffer.  A request
\* refused while its child runs is a POST whose body was still arriving.
OutputRead(k, R, ch, o) ==
  "pipeR" \in R =>
    /\ k.rd = "open" /\ k.phase = "DONE" /\ k.method \in {"script", "POST"}
    /\ k.method = "script" => k.whole
    /\ ~k.begun
    /\ k.code = "ok" => k.resp = "empty"
    /\ k.code # "ok" => ~k.whole /\ k.wr = "open" /\ ch = "running"
    /\ ch = "running" \/ o \/ k.buf # "empty"

\* The input of a child is written while the child runs, and a POST whose body
\* is not whole has a child to read it.
InputWritten(k, R, ch) ==
  /\ ch # "exit1"
  /\ "pipeW" \in R => k.wr = "open" /\ ch = "running" /\ k.method = "POST"
  /\ k.phase = "DONE" /\ k.method = "POST" /\ ~k.whole /\ k.code = "ok" =>
       k.wr = "open" /\ ch = "running"

\* An event that has outlived its knote finds nothing left to do, or the pipes
\* closed; a pipe that is reported has bytes or has ended.
EventsFit(k, R, ch, B, o) ==
  /\ "read" \in B => "read" \in R \/ (k.phase = "DONE" /\ k.whole /\ k.code = "ok")
  /\ \A f \in {"pipeR", "pipeW"} : f \in B /\ f \notin R =>
       /\ "read" \notin B /\ "pipeR" \notin R /\ "pipeW" \notin R
       /\ f = "pipeR" => k.rd # "open"
       /\ f = "pipeW" => k.wr # "open"
  /\ "pipeR" \in B /\ k.rd = "open" => o \/ ch # "running"

\* No bytes of two answers, or of half a one, and nothing left of the last.
AnswerWhole(k, R) ==
  /\ k.buf # "junk" /\ k.resp \notin {"junk", "short"}
  /\ Untouched(k) =>
       k.buf = "empty" /\ (k.code = "ok" => k.resp = "empty" /\ ~k.begun)
  /\ k.code # "ok" => "write" \in R

WellBehaved(k, R, ch, B, o) ==
  /\ "lost" \notin R
  /\ OutputRead(k, R, ch, o)
  /\ InputWritten(k, R, ch)
  /\ EventsFit(k, R, ch, B, o)
  /\ AnswerWhole(k, R)

\* Every live Client is well-behaved, a deleted one has left no more than the pipe
\* of a child that has exited, and the loop has not met a SIGPIPE.
WInv ==
  /\ NoSigPipe
  /\ Running =>
       \A c \in Client :
         /\ Live(c) => WellBehaved(conn[c], reg[c], child[c], Pending(c), out[c])
         /\ life[c] = "freed" => reg[c] \subseteq {"pipeR"}
=============================================================================
