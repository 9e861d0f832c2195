------------------------------ MODULE EventLoop ------------------------------
(***************************************************************************)
(* The kqueue event loop of Operation and the life of the Client objects   *)
(* it drives: accepting, reading and parsing a request, answering it from  *)
(* a file, by deleting one, or through a CGI child behind two pipes,       *)
(* reporting errors, timing out, and cleaning up.                          *)
(*                                                                         *)
(* One thread runs everything.  kevent() returns a batch of events, each   *)
(* carrying the Client pointer it was registered with, and handleEvent     *)
(* works through the batch.  Between the fetch of an event and its turn,   *)
(* the handlers of the events before it have run.                          *)
(*                                                                         *)
(* A batch is a set.  The order in which kevent() reports ready events is  *)
(* not under the program's control, so taking any member next gives        *)
(* exactly the behaviours of all the orders it could have been filled in.  *)
(*                                                                         *)
(* Whether a socket has data or room, and whether sixty seconds have       *)
(* passed, is the environment's choice at every poll.                      *)
(***************************************************************************)
EXTENDS Naturals, FiniteSets

CONSTANTS
  Client,     \* the connections made to the server, one Client object each
  MaxEvent,   \* MAX_EVENT: how many events one call of kevent() returns
  CgiFaults,  \* what CGI programs may do: "early" exits before their standard
              \* input has ended, "silent" before it has written anything,
              \* "failure" exits with status 1
  Asks        \* of each connection, the requests its peer may make

\* What a request is for, by its method and, for a GET, by its path: a file or
\* a directory, or a script.  PUT is handled as POST everywhere.
Target == {"file", "script", "POST", "DELETE"}

ASSUME MaxEventAssumption == MaxEvent \in Nat \ {0}
ASSUME CgiFaultsAssumption == CgiFaults \subseteq {"early", "silent", "failure"}
\* A target, and whether the body is chunked.
ASSUME AsksAssumption == Asks \in [Client -> SUBSET (Target \X BOOLEAN)]

VARIABLES
  loop,    \* "running", or how the loop was lost
  batch,   \* the events returned by the last kevent() and not yet handled
  life,    \* of each connection: "new" (not accepted), "live", "freed"
  conn,    \* the fields of each Client and of its Request
  reg,     \* the knotes in the kqueue whose udata is this Client
  child,   \* the CGI child the Client's _pid names, "none" when it is INIT_PID,
           \* "failed" when it is the -1 of a fork() that failed
  out      \* does the pipe from the CGI child hold bytes not read yet?

vars == <<loop, batch, life, conn, reg, child, out>>

(***************************************************************************)
(* How the loop can be lost:                                               *)
(*   restarted    an int left the loop; main() starts a second one, whose  *)
(*                fresh kqueue knows no connection and cannot bind a port  *)
(*   exited       a std::exception left the loop; main() returns           *)
(*   killed       SIGPIPE, which the program neither handles nor ignores   *)
(*   dangling     a Client was used after it was deleted                   *)
(*   misdirected  a descriptor number kept after its close was used again, *)
(*                and by then belonged to something else                   *)
(*   garbled      an index past the end of a vector or of a string         *)
(* What happens after any of these is outside this module.                 *)
(***************************************************************************)
Loss == {"restarted", "exited", "killed", "dangling", "misdirected", "garbled"}

\* "read", "write" and "timer" are those of the socket; "lost" is a pipe whose
\* number the Client has overwritten while it was still registered.
Knote == {"read", "write", "timer", "proc", "pipeR", "pipeW", "lost"}
Event == Client \X (Knote \cup {"listen"})

\* A pipe end: INIT_PIPE, open, or closed with its number still recorded.
PipeEnd == {"none", "open", "stale"}
\* 405 is told apart: sendData closes the connection for it.
ErrorCode == {"405", "error"}

Conn == [phase   : {"READY", "CREATE", "DONE"},           \* Request::_state
         method  : {"none"} \cup Target,                  \* _method and path
         chunked : BOOLEAN,
         whole   : BOOLEAN,   \* _chunkedEnd, or the Content-Length was met
         unsent  : BOOLEAN,   \* _requestBody has bytes past _writeIndex
         code    : {"ok"} \cup ErrorCode,                 \* _stateCode
         buf     : {"empty", "text", "junk"},             \* _responseBuffer
         resp    : {"empty", "page", "error", "junk", "short"}, \* _responseStr
         begun   : BOOLEAN,   \* 0 < _sendIndex
         wr      : PipeEnd,   \* _writeFd[1]
         rd      : PipeEnd]   \* _readFd[0]

NewConn ==
  [phase |-> "READY", method |-> "none", chunked |-> FALSE, whole |-> FALSE,
   unsent |-> FALSE, code |-> "ok", buf |-> "empty", resp |-> "empty",
   begun |-> FALSE, wr |-> "none", rd |-> "none"]

TypeOK ==
  /\ loop \in {"running"} \cup Loss
  /\ batch \subseteq Event
  /\ life \in [Client -> {"new", "live", "freed"}]
  /\ conn \in [Client -> Conn]
  /\ reg \in [Client -> SUBSET Knote]
  /\ child \in [Client -> {"none", "failed", "running", "exit0", "exit1"}]
  /\ out \in [Client -> BOOLEAN]

Init ==
  /\ loop = "running"
  /\ batch = {}
  /\ life = [c \in Client |-> "new"]
  /\ conn = [c \in Client |-> NewConn]
  /\ reg = [c \in Client |-> {}]
  /\ child = [c \in Client |-> "none"]
  /\ out = [c \in Client |-> FALSE]

-----------------------------------------------------------------------------
(***************************************************************************)
(* The ways a handler ends.                                                *)
(***************************************************************************)

\* The handler ran to its end and left Client c with fields k and knotes R.
Update(c, k, R) ==
  /\ conn' = [conn EXCEPT ![c] = k]
  /\ reg' = [reg EXCEPT ![c] = R]
  /\ UNCHANGED <<loop, life>>

\* The loop is lost.
Lose(how) ==
  /\ loop' = how
  /\ UNCHANGED <<life, conn, reg>>

\* (variant: addSocketWriteEvent() alone)
handleErrorStillReading(c, code, k, R) ==
  Update(c, [k EXCEPT !.code = code, !.resp = "error"], R \cup {"write"})

\* The handler threw an int.  handleEvent catches it and prepares the error
\* page, but its first call, deleteSocketReadEvent, throws again when the read
\* knote is gone, and that exception leaves the loop.
handleError(c, code, k, R) ==
  \/ /\ "read" \in R
     /\ Update(c, [k EXCEPT !.code = code, !.resp = "error"],
                  (R \ {"read"}) \cup {"write"})
  \/ /\ "read" \notin R
     /\ Lose("restarted")

\* (variant: addSocketWriteEvent() alone)
readyToSendStillReading(c, k, R) == Update(c, k, R \cup {"write"})

\* deleteSocketReadEvent(); addSocketWriteEvent();
readyToSend(c, k, R) ==
  \/ /\ "read" \in R
     /\ Update(c, k, (R \ {"read"}) \cup {"write"})
  \/ /\ "read" \notin R
     /\ handleError(c, "error", k, R)

\* The event has had its turn.
Handled(c, f) == batch' = batch \ {<<c, f>>}

\* (variant: _responseBuffer is not emptied)
clearClientKeepsBuffer(k) ==
  [NewConn EXCEPT !.wr = k.wr, !.rd = k.rd, !.buf = k.buf]

\* Every field but the pipe numbers goes back to its first value.
clearClient(k) == [NewConn EXCEPT !.wr = k.wr, !.rd = k.rd]

\* (variant: only the end that is read is closed)
closePipeFdReadEnd(k) ==
  [k EXCEPT !.rd = IF k.rd = "none" THEN "none" ELSE "stale"]

\* Closing leaves the numbers in place.
closePipeFd(k) ==
  [k EXCEPT !.wr = IF k.wr = "none" THEN "none" ELSE "stale",
            !.rd = IF k.rd = "none" THEN "none" ELSE "stale"]

Stale(k) == k.wr = "stale" \/ k.rd = "stale"

\* The kernel forgets the knote of a pipe end when it is closed.
Registered(k, R) ==
  {f \in R : (f = "pipeW" => k.wr = "open") /\ (f = "pipeR" => k.rd = "open")}

\* (variant: break instead of return)
ReturnByBreak(c) ==
  \E f \in {"read", "write", "timer"} :
    <<c, f>> \in batch /\ batch' = batch \ {<<c, f>>}

\* handleEvent returns, whatever the batch still holds.
Return(c) == batch' = {}

\* ~Client closes the pipes of the child that _pid still names, deletes its
\* knote and kills it; with no child left the pipes stay open and registered.  The
\* knotes of the socket go when it is closed, the timer is deleted.  A knote that is
\* already gone makes ~Client throw, and the handler of that exception uses the
\* Client just deleted.  ch is the child, k the fields, R the knotes by now.
CleanUpClientResources(c, k, R, ch) ==
  LET k2 == IF ch = "none" THEN k ELSE closePipeFd(k)
  IN  /\ Return(c)
      /\ \/ /\ ch # "none" /\ Stale(k)
            /\ Lose("misdirected")
            /\ UNCHANGED <<child, out>>
         \/ /\ "timer" \notin R \/ (ch # "none" /\ "proc" \notin R)
            /\ Lose("dangling")
            /\ UNCHANGED <<child, out>>
         \/ /\ "timer" \in R /\ (ch # "none" => "proc" \in R)
            /\ life' = [life EXCEPT ![c] = "freed"]
            /\ conn' = [conn EXCEPT ![c] = clearClient(k2)]
            /\ reg' = [reg EXCEPT ![c] =
                         Registered(k2, R)
                           \ ({"read", "write", "timer"}
                                \cup IF ch = "none" THEN {} ELSE {"proc"})]
            /\ child' = [child EXCEPT ![c] = "none"]
            /\ out' = [out EXCEPT ![c] = FALSE]
            /\ UNCHANGED loop

-----------------------------------------------------------------------------
(***************************************************************************)
(* Answering a request.                                                    *)
(***************************************************************************)

\* pipe() into _readFd: a pipe end still registered under the old number keeps
\* its knote, and events of the old number match no descriptor any more.
NewPipe(R, f) == IF f \in R THEN (R \ {f}) \cup {"lost"} ELSE R

\* A GET of a script: pipe(), fork(), and two knotes.  The -1 of a fork() that
\* failed is not INIT_PID: from then on it is taken for a child.
handleGetCgi(c, k, R) ==
  \/ /\ handleError(c, "error", k, R)                  \* pipe() failed
     /\ Handled(c, "read")
     /\ UNCHANGED <<child, out>>
  \/ LET k2 == [k EXCEPT !.rd = "open"]
         R2 == NewPipe(R, "pipeR")
     IN  /\ batch' = batch \ {<<c, "read">>, <<c, "pipeR">>}
         /\ out' = [out EXCEPT ![c] = FALSE]
         /\ \/ /\ child' = [child EXCEPT ![c] = "failed"]
               /\ handleError(c, "error", k2, R2)
            \/ /\ child' = [child EXCEPT ![c] = "running"]
               /\ \/ Update(c, k2, R2 \cup {"proc", "pipeR"})
                  \/ handleError(c, "error", k2, R2)   \* addProcessEvent failed

\* (variant: _responseStr is not set)
pushBufferOnly(k) == [k EXCEPT !.buf = IF k.buf = "empty" THEN "text" ELSE "junk"]

\* The response is appended to whatever _responseBuffer still holds.
pushBuffer(k) ==
  [k EXCEPT !.buf = IF k.buf = "empty" THEN "text" ELSE "junk",
            !.resp = IF k.buf = "empty" THEN "page" ELSE "junk"]

\* A GET of a script, or of a file, an index or a directory listing.  An empty
\* path has no last component for isFilePy to look at.
handleGet(c, k, R) ==
  \/ k.method = "script" /\ handleGetCgi(c, k, R)
  \/ /\ k.method = "file"
     /\ \/ readyToSend(c, pushBuffer(k), R)
        \/ handleError(c, "error", k, R)               \* no such file
        \/ Lose("garbled")
     /\ Handled(c, "read")
     /\ UNCHANGED <<child, out>>

\* (variant: the file is removed after the events have been changed)
handleDeleteRemovesLast(c, k, R) ==
  /\ \/ readyToSend(c, pushBuffer(k), R)
     \/ handleError(c, "error", pushBuffer(k), (R \ {"read"}) \cup {"write"})
  /\ Handled(c, "read")
  /\ UNCHANGED <<child, out>>

\* The response is ready before the file is removed.
handleDelete(c, k, R) ==
  /\ \/ readyToSend(c, pushBuffer(k), R)
     \/ handleError(c, "error", pushBuffer(k), R)      \* nothing to remove
  /\ Handled(c, "read")
  /\ UNCHANGED <<child, out>>

\* The whole body of a POST with a Content-Length is in the buffer.
handlePost(c, k, R) ==
  \E some \in BOOLEAN :
    LET k2 == [k EXCEPT !.unsent = some]
    IN  \/ some /\ handleError(c, "error", k2, R)      \* client_max_body_size
        \/ Update(c, [k2 EXCEPT !.whole = TRUE], R \cup {"pipeW"})

\* Chunks that have arrived in full are appended to the body, up to the last.
parsingChunkedData(c, k, R) ==
  \E more \in {k.unsent, TRUE} :
    LET k2 == [k EXCEPT !.unsent = more]
    IN  \/ \E end \in BOOLEAN : Update(c, [k2 EXCEPT !.whole = end], R)
        \/ handleError(c, "error", k2, R)              \* framing, body size

\* What handleResponse does without touching processes: collect the body.
CollectBody(c, k, R) ==
  \/ Update(c, k, R)                                   \* not there yet
  \/ ~k.whole /\ k.chunked /\ parsingChunkedData(c, k, R)
  \/ ~k.whole /\ ~k.chunked /\ k.method = "POST" /\ handlePost(c, k, R)

handleResponse(c, k, R) ==
  \/ /\ CollectBody(c, k, R)
     /\ Handled(c, "read")
     /\ UNCHANGED <<child, out>>
  \/ /\ ~k.whole /\ ~k.chunked
     /\ \/ k.method \in {"file", "script"} /\ handleGet(c, [k EXCEPT !.whole = TRUE], R)
        \/ k.method = "DELETE" /\ handleDelete(c, [k EXCEPT !.whole = TRUE], R)

\* A POST or PUT starts its CGI child as soon as the header is there.  A
\* failing second pipe() or fork() leaves the pipes made so far open.
handlePostCgi(c, k, R) ==
  LET kw  == [k EXCEPT !.wr = "open"]
      kwr == [kw EXCEPT !.rd = "open"]
      Rw  == NewPipe(R, "pipeW")
      Rwr == NewPipe(Rw, "pipeR")
  IN  \/ /\ handleError(c, "error", k, R)
         /\ Handled(c, "read")
         /\ UNCHANGED <<child, out>>
      \/ /\ handleError(c, "error", kw, Rw)
         /\ batch' = batch \ {<<c, "read">>, <<c, "pipeW">>}
         /\ UNCHANGED <<child, out>>
      \/ /\ batch' = batch \ {<<c, "read">>, <<c, "pipeR">>, <<c, "pipeW">>}
         /\ out' = [out EXCEPT ![c] = FALSE]
         /\ \/ /\ child' = [child EXCEPT ![c] = "failed"]
               /\ handleError(c, "error", kwr, Rwr)
            \/ /\ child' = [child EXCEPT ![c] = "running"]
               /\ \/ handleError(c, "error", kwr, Rwr)
                  \/ CollectBody(c, [kwr EXCEPT !.phase = "DONE"],
                                 Rwr \cup {"proc", "pipeR", "pipeW"})

\* findServer, findLocationPath, checkLimitExcept, then the method.
startRequest(c, k, R) ==
  \/ /\ \E code \in ErrorCode : handleError(c, code, k, R)
     /\ Handled(c, "read")
     /\ UNCHANGED <<child, out>>
  \/ k.method = "POST" /\ handlePostCgi(c, k, R)
  \/ k.method # "POST" /\ handleResponse(c, [k EXCEPT !.phase = "DONE"], R)

\* The header is incomplete, wrong, malformed beyond what the parser expects
\* (a field line without ": "), or complete.
parsingHeader(c, k, R) ==
  \/ /\ \/ Update(c, k, R)
        \/ \E code \in ErrorCode : handleError(c, code, k, R)
        \/ Lose("garbled")
     /\ Handled(c, "read")
     /\ UNCHANGED <<child, out>>
  \/ \E ask \in Asks[c] :
        startRequest(c, [k EXCEPT !.phase = "CREATE", !.method = ask[1],
                                  !.chunked = ask[2]], R)

handleRequest(c, k, R) ==
  \/ k.phase = "READY" /\ parsingHeader(c, k, R)
  \/ k.phase = "CREATE" /\ startRequest(c, k, R)
  \/ k.phase = "DONE" /\ handleResponse(c, k, R)

-----------------------------------------------------------------------------
(***************************************************************************)
(* The handlers, one per kind of event of a live Client.                   *)
(***************************************************************************)

\* The socket is readable: recv() returns bytes, or zero or an error.
handleReadEvent(c) ==
  LET R == reg[c] \cup {"timer"}                       \* resetTimerEvent
  IN  \/ handleRequest(c, conn[c], R)
      \/ CleanUpClientResources(c, conn[c], R, child[c])

\* (variant: the child is left running)
mustKillNever(c) == FALSE

\* An error response first does away with the child there may still be.
mustKill(c) == conn[c].code # "ok" /\ child[c] # "none"

\* (variant: EV_DELETE names the wrong process)
deletePidEventMissed(R) == R

deletePidEvent(R) == R \ {"proc"}

\* send() wrote nothing (always so for an empty string), a part or all; only
\* when all is written does the connection turn to its next request.
sent(c, k, R, ch) ==
  \/ CleanUpClientResources(c, k, R, ch)               \* nothing, or a 405
  \/ /\ k.code # "405" /\ k.resp # "empty"
     /\ \/ Update(c, [k EXCEPT !.begun = TRUE], R)
        \/ Update(c, clearClient(k), (R \ {"write"}) \cup {"read"})
        \/ k.resp = "short" /\ Lose("garbled")
     /\ Handled(c, "write")
     /\ child' = [child EXCEPT ![c] = ch]
     /\ out' = [out EXCEPT ![c] = (ch = child[c]) /\ @]

\* The socket has room.  Killing closes the pipes, deletes the knote of the
\* process, which throws when the process event has been returned already, and
\* never waits for the child.
sendData(c) ==
  LET R == reg[c] \cup {"timer"}                       \* resetTimerEvent
      k == closePipeFd(conn[c])
  IN  \/ ~mustKill(c) /\ sent(c, conn[c], R, child[c])
      \/ /\ mustKill(c) /\ "proc" \in R
         /\ sent(c, k, deletePidEvent(Registered(k, R)), "none")
      \/ /\ mustKill(c)
         /\ \/ Stale(conn[c]) /\ Lose("misdirected")
            \/ "proc" \notin R /\ handleError(c, "error", k, Registered(k, R))
         /\ Handled(c, "write")
         /\ UNCHANGED <<child, out>>

\* The CGI child has exited.  An int thrown for its status is answered with 400;
\* otherwise the response, if the pipe has ended by now, is to be sent.
handleEndProcess(c) ==
  /\ \/ /\ child[c] = "exit1"
        /\ handleError(c, "error", [conn[c] EXCEPT !.buf = "empty"], reg[c])
     \/ /\ child[c] # "exit1"
        /\ readyToSend(c, conn[c], reg[c])
  /\ child' = [child EXCEPT ![c] = "none"]
  /\ Handled(c, "proc")
  /\ UNCHANGED out

\* Bytes of the response reach _responseBuffer.  "junk" is what does not belong
\* to the request the Client is working on, or is not whole.
Received(k) == IF k.phase = "READY" \/ k.buf = "junk" THEN "junk" ELSE "text"

\* The CGI pipe has bytes, or has ended.  With nothing in the buffer the end
\* makes msg.substr throw past the close, after the status line was written.
readPipe(c) ==
  LET k == conn[c]
  IN  /\ \/ /\ k.rd # "open"
            /\ \/ handleError(c, "error", k, reg[c])
               \/ Lose("misdirected")
            /\ UNCHANGED out
         \/ /\ k.rd = "open" /\ out[c]
            /\ Update(c, [k EXCEPT !.buf = Received(k)], reg[c])
            /\ out' = [out EXCEPT ![c] = FALSE]
         \/ /\ k.rd = "open" /\ ~out[c] /\ k.buf = "empty"
            /\ Update(c, [k EXCEPT !.buf = "junk"], reg[c])
            /\ UNCHANGED out
         \/ /\ k.rd = "open" /\ ~out[c] /\ k.buf # "empty"
            /\ Update(c, [k EXCEPT !.resp = IF k.begun THEN "short"
                                            ELSE IF k.buf = "junk" THEN "junk"
                                            ELSE "page",
                                   !.rd = "stale"],
                         reg[c] \ {"pipeR"})
            /\ UNCHANGED out
      /\ Handled(c, "pipeR")
      /\ UNCHANGED child

\* (variant: _bodyTotalSize is not set for a chunked body)
BodyWrittenUnchunked(k) == ~k.unsent /\ k.whole /\ ~k.chunked

BodyWritten(k) == ~k.unsent /\ k.whole

\* The CGI's standard input has room.  Once the body has been written and is
\* complete, a write of nothing closes the pipe.
writePipe(c) ==
  LET k == conn[c]
  IN  /\ \/ /\ k.wr # "open"
            /\ \/ handleError(c, "error", k, reg[c])
               \/ Lose("misdirected")
         \/ /\ k.wr = "open" /\ child[c] # "running"
            /\ Lose("killed")
         \/ /\ k.wr = "open" /\ child[c] = "running" /\ k.unsent
            /\ \E rest \in BOOLEAN : Update(c, [k EXCEPT !.unsent = rest], reg[c])
         \/ /\ k.wr = "open" /\ child[c] = "running" /\ BodyWritten(k)
            /\ Update(c, [k EXCEPT !.wr = "stale"], reg[c] \ {"pipeW"})
         \/ /\ k.wr = "open" /\ child[c] = "running" /\ ~k.unsent /\ ~BodyWritten(k)
            /\ Update(c, k, reg[c])
      /\ Handled(c, "pipeW")
      /\ UNCHANGED <<child, out>>

\* (variant: the constructor starts no timer)
acceptClientUntimed(c) ==
  /\ life' = [life EXCEPT ![c] = "live"]
  /\ reg' = [reg EXCEPT ![c] = {"read"}]
  /\ Handled(c, "listen")
  /\ UNCHANGED <<loop, conn, child, out>>

\* accept() gives a socket, whose Client registers it and starts its timer; or
\* it fails, and the exception is thrown outside every try of the loop.
acceptClient(c) ==
  /\ \/ /\ life' = [life EXCEPT ![c] = "live"]
        /\ reg' = [reg EXCEPT ![c] = {"read", "timer"}]
        /\ UNCHANGED <<loop, conn>>
     \/ Lose("exited")
  /\ Handled(c, "listen")
  /\ UNCHANGED <<child, out>>

-----------------------------------------------------------------------------
(***************************************************************************)
(* The loop: one event of the batch, or the next batch.                    *)
(***************************************************************************)

HandleListen(c) ==
  loop = "running" /\ <<c, "listen">> \in batch /\ acceptClient(c)

\* An event handled for Client c, which is still there.
Turn(c, f) == loop = "running" /\ <<c, f>> \in batch /\ life[c] = "live"

HandleRead(c)  == Turn(c, "read") /\ handleReadEvent(c)
HandleWrite(c) == Turn(c, "write") /\ sendData(c)
HandleProc(c)  == Turn(c, "proc") /\ handleEndProcess(c)
HandlePipeR(c) == Turn(c, "pipeR") /\ readPipe(c)
HandlePipeW(c) == Turn(c, "pipeW") /\ writePipe(c)
HandleTimer(c) == Turn(c, "timer")
                  /\ CleanUpClientResources(c, conn[c], reg[c], child[c])

\* The descriptor of the event is neither the socket nor a pipe of the Client.
HandleLost(c) ==
  /\ Turn(c, "lost")
  /\ Handled(c, "lost")
  /\ UNCHANGED <<loop, life, conn, reg, child, out>>

\* The udata of the event is a Client that was deleted.
HandleFreed(c) ==
  /\ loop = "running" /\ life[c] = "freed"
  /\ \E f \in Knote : <<c, f>> \in batch /\ Handled(c, f)
  /\ Lose("dangling")
  /\ UNCHANGED <<child, out>>

\* Nothing is known of the sockets and the timers; a child that has exited, a
\* pipe with bytes in it or at its end, and a forgotten pipe are ready for sure.
Sure(c) ==
  {f \in reg[c] \cap {"proc", "pipeR", "lost"} :
     /\ f = "proc" => child[c] \in {"exit0", "exit1"}
     /\ f = "pipeR" => out[c] \/ child[c] # "running"}
SureEvents == UNION {{c} \X Sure(c) : c \in Client}
MayEvents ==
  (UNION {{c} \X (reg[c] \cap {"read", "write", "timer", "pipeW"}) : c \in Client})
  \cup ({c \in Client : life[c] = "new"} \X {"listen"})

\* kevent(kq, NULL, 0, tevents, MAX_EVENT, NULL): the ready events, up to
\* MaxEvent of them; each listening socket there is may be among them.  A process
\* event happens once: its knote is gone when it has been returned.
Poll ==
  /\ loop = "running" /\ batch = {}
  /\ \E S \in SUBSET (SureEvents \cup MayEvents) :
       /\ S # {} /\ Cardinality(S) <= MaxEvent
       /\ SureEvents \subseteq S \/ Cardinality(S) = MaxEvent
       /\ batch' = S
       /\ reg' = [c \in Client |->
                    IF <<c, "proc">> \in S THEN reg[c] \ {"proc"} ELSE reg[c]]
  /\ UNCHANGED <<loop, life, conn, child, out>>

-----------------------------------------------------------------------------
(***************************************************************************)
(* The CGI children run beside the loop.                                   *)
(***************************************************************************)

ChildWrites(c) ==
  /\ loop = "running" /\ child[c] = "running" /\ ~out[c]
  /\ out' = [out EXCEPT ![c] = TRUE]
  /\ UNCHANGED <<loop, batch, life, conn, reg, child>>

\* Has the child of a POST not seen the end of its standard input?
Reading(c) == conn[c].method = "POST" /\ conn[c].wr = "open"

ChildExits(c) ==
  /\ loop = "running" /\ child[c] = "running"
  /\ Reading(c) => "early" \in CgiFaults
  /\ out[c] \/ conn[c].buf # "empty" \/ "silent" \in CgiFaults
  /\ \/ child' = [child EXCEPT ![c] = "exit0"]
     \/ /\ "failure" \in CgiFaults
        /\ child' = [child EXCEPT ![c] = "exit1"]
  /\ UNCHANGED <<loop, batch, life, conn, reg, out>>

-----------------------------------------------------------------------------
Handle(c) ==
  \/ HandleListen(c)
  \/ HandleRead(c)
  \/ HandleWrite(c)
  \/ HandleProc(c)
  \/ HandlePipeR(c)
  \/ HandlePipeW(c)
  \/ HandleTimer(c)
  \/ HandleLost(c)
  \/ HandleFreed(c)

Next ==
  \/ Poll
  \/ \E c \in Client : Handle(c) \/ ChildWrites(c) \/ ChildExits(c)

Spec == Init /\ [][Next]_vars

-----------------------------------------------------------------------------
(***************************************************************************)
(* Safety.                                                                 *)
(***************************************************************************)

Running == loop = "running"
Live(c) == life[c] = "live"

\* A Client waits either for the peer's request or for room to answer it: of
\* the read and the write knote of its socket exactly one is registered,
\* whatever handlers threw on the way (deleteSocketReadEvent and
\* addSocketWriteEvent are called in pairs from five places).
OneDirection ==
  Running => \A c \in Client :
    Live(c) => ("read" \in reg[c]) # ("write" \in reg[c])

\* No event waiting in the batch is about a socket, a timer or a process of a
\* Client deleted meanwhile, and a write event still has its knote: this is
\* what the early returns of handleEvent are for.
BatchFollowsLife ==
  Running => \A c \in Client, f \in Knote :
    <<c, f>> \in batch =>
      /\ life[c] # "new"
      /\ life[c] = "freed" => f \in {"pipeR", "pipeW", "lost"}
      /\ f = "write" => "write" \in reg[c]

\* A process knote names a child that has not been waited for, and its event
\* is handled when the child has exited: waitpid() never blocks the loop and
\* never waits for INIT_PID.
WaitNeverBlocks ==
  Running => \A c \in Client :
    /\ "proc" \in reg[c] => child[c] \notin {"none", "failed"}
    /\ <<c, "proc">> \in batch => child[c] \in {"exit0", "exit1"}

\* When a connection turns to its next request no child of the last one is
\* left, so that no later process event can answer the wrong request.
NoChildBetweenRequests ==
  Running => \A c \in Client :
    Live(c) /\ conn[c].phase = "READY" => child[c] = "none"

\* A request is routed once: while its header has been parsed but an exception
\* kept it from being carried out, no read event is left that would enter
\* handleRequest in the state CREATE and fork again.
RoutedOnce ==
  Running => \A c \in Client :
    Live(c) /\ conn[c].phase = "CREATE" => <<c, "read">> \notin batch

\* With CGI programs that read all their input, answer and exit with 0, nothing of
\* a request stays in the kqueue when it is over: a connection that turns to its next
\* request has no knote of a process or a pipe left from the last, none is lost for a
\* pipe made anew, and a Client that is deleted leaves at most the pipe of a child
\* that has exited (which nobody closes any more).
KnotesFollowRequest ==
  Running => \A c \in Client :
    /\ "lost" \notin reg[c]
    /\ Live(c) /\ conn[c].phase = "READY" => reg[c] \cap {"proc", "pipeR", "pipeW"} = {}
    /\ life[c] = "freed" => reg[c] \subseteq {"pipeR"}

\* What a Client answers is ready by the time it is to be sent: it has been in
\* no contact with a CGI, or the end of the CGI's output is still to come.
AnswerReady ==
  Running => \A c \in Client :
    Live(c) /\ "write" \in reg[c] =>
      /\ conn[c].resp = "empty" => conn[c].rd = "open"
      /\ conn[c].rd = "none" => conn[c].resp \in {"page", "error"}

\* A server whose connections never start a CGI program can only be lost by
\* accept() failing or by a malformed request: restarting, SIGPIPE, and uses
\* of what was deleted or closed all take a CGI pipe.
FailureNeedsCgi ==
  loop \in Loss \ {"exited", "garbled"} =>
    \E c \in Client : conn[c].rd # "none" \/ conn[c].wr # "none"

\* With CGI programs that read all their input, answer and exit with 0, the
\* server never writes to a pipe whose reader is gone (SIGPIPE is not ignored).
NoSigPipe == loop # "killed"

\* With such CGI programs no response holds bytes of an earlier request, and
\* none is replaced after a part of it was sent.
NoJunk ==
  Running => \A c \in Client :
    Live(c) => conn[c].buf # "junk" /\ conn[c].resp \notin {"junk", "short"}

-----------------------------------------------------------------------------
(***************************************************************************)
(* The loop implements the conversation each peer is promised.             *)
(***************************************************************************)

Promised == INSTANCE Conversation WITH
  up <- Running,
  phase <- [c \in Client |->
              CASE life[c] = "new" -> "unborn"
                [] life[c] = "freed" -> "closed"
                [] OTHER -> IF "write" \in reg[c] THEN "answering"
                            ELSE "receiving"],
  answer <- [c \in Client |->
              IF Live(c) /\ "write" \in reg[c] /\ conn[c].resp # "empty"
              THEN conn[c].resp ELSE "none"]

\* With well-behaved CGI programs every connection is such a conversation: one
\* answer to a request, settled before it is sent, never taken back.
KeepsPromise == Promised!Spec

-----------------------------------------------------------------------------
(***************************************************************************)
(* Liveness.                                                               *)
(***************************************************************************)

\* The loop has no other work: it handles what it polled, and kevent() returns
\* as soon as something is ready.  Peers need not ever send or receive.
LoopFairness ==
  /\ WF_vars(Poll /\ SureEvents # {})
  /\ \A c \in Client : WF_vars(Handle(c))

\* A timer that is armed again and again expires if the peer is silent from some
\* time on.  For a peer that is not silent, nothing may be concluded from this.
TimerFairness == \A c \in Client : SF_vars(Poll /\ <<c, "timer">> \in batch')

\* CGI programs go on reading, writing, and exit in the end.
CgiFairness ==
  \A c \in Client :
    /\ WF_vars(ChildWrites(c))
    /\ WF_vars(ChildExits(c))
    /\ SF_vars(Poll /\ <<c, "pipeW">> \in batch')
    /\ SF_vars(HandlePipeW(c) /\ ~conn'[c].unsent)

TimedSpec == Spec /\ LoopFairness /\ TimerFairness
CgiSpec == Spec /\ LoopFairness /\ CgiFairness

\* A peer that falls silent is got rid of, even though the early returns of
\* handleEvent may drop its timer event from a batch.
SilentPeerClosed ==
  \A c \in Client :
    <>[](batch \cap {<<c, "read">>, <<c, "write">>} = {}) =>
      (Live(c) ~> (~Live(c) \/ ~Running))

\* A request that has arrived whole is answered, through a CGI that ends too.
\* Left out: a chunked GET or DELETE, which nothing in the code answers.
AnswerDue ==
  \A c \in Client :
    (Live(c) /\ conn[c].whole /\ (conn[c].method = "POST" \/ ~conn[c].chunked))
      ~> ("write" \in reg[c] \/ ~Live(c) \/ ~Running)
=============================================================================
