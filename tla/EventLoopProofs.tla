--------------------------- MODULE EventLoopProofs ---------------------------
(***************************************************************************)
(* What EventLoop guarantees for any number of connections, any MAX_EVENT, *)
(* any requests and any behaviour of the CGI programs; and, in the second  *)
(* half, what it guarantees when the programs read all their input, write  *)
(* an answer and exit with 0: no SIGPIPE, no bytes of two answers in one,  *)
(* and the conversation each peer is promised.                             *)
(***************************************************************************)
EXTENDS EventLoopInvariant, TLAPS

ChildState == {"none", "failed", "running", "exit0", "exit1"}

-----------------------------------------------------------------------------
(***************************************************************************)
(* One Client changes, the others keep what they had.                      *)
(***************************************************************************)

\* Taking events out of the batch never breaks what is known of a Client.
LEMMA FewerEvents ==
  ASSUME NEW l, NEW k, NEW R, NEW ch, NEW B, NEW B2, B2 \subseteq B,
         Consistent(l, k, R, ch, B)
  PROVE  Consistent(l, k, R, ch, B2)
BY DEF Consistent, NewConsistent, KnotesConsistent, ChildConsistent,
       AnswerConsistent, FreedConsistent, PipesConsistent

\* A handler that leaves its own Client consistent preserves the invariant.
LEMMA OneClient ==
  ASSUME IInv, Running, Running',
         NEW c \in Client,
         NEW l \in {"live", "freed"}, NEW k \in Conn, NEW R \in SUBSET Knote,
         NEW ch \in ChildState,
         life' = [life EXCEPT ![c] = l],
         conn' = [conn EXCEPT ![c] = k],
         reg' = [reg EXCEPT ![c] = R],
         child' = [child EXCEPT ![c] = ch],
         out' \in [Client -> BOOLEAN],
         batch' \subseteq batch,
         Consistent(l, k, R, ch, Pending(c)')
  PROVE  IInv'
<1>1. TypeOK'
  BY DEF IInv, TypeOK, Running, ChildState
<1>2. ASSUME NEW d \in Client
      PROVE  Consistent(life[d], conn[d], reg[d], child[d], Pending(d))'
  <2>1. CASE d = c
    BY <2>1 DEF IInv, TypeOK
  <2>2. CASE d # c
    <3>1. Consistent(life[d], conn[d], reg[d], child[d], Pending(d))
      BY DEF IInv
    <3>2. Pending(d)' \subseteq Pending(d)
      BY DEF Pending
    <3>3. Consistent(life[d], conn[d], reg[d], child[d], Pending(d)')
      BY <3>1, <3>2, FewerEvents
    <3>4. /\ life'[d] = life[d] /\ conn'[d] = conn[d]
          /\ reg'[d] = reg[d] /\ child'[d] = child[d]
      BY <2>2 DEF IInv, TypeOK
    <3> QED BY <3>3, <3>4
  <2> QED BY <2>1, <2>2
<1>3. FailureNeedsCgi'
  BY DEF FailureNeedsCgi, Running, Loss
<1> QED BY <1>1, <1>2, <1>3 DEF IInv

\* A handler that loses the loop preserves it, if a CGI pipe was involved.
LEMMA LoopLost ==
  ASSUME IInv, NEW how \in Loss, Lose(how),
         batch' \subseteq batch,
         child' \in [Client -> ChildState], out' \in [Client -> BOOLEAN],
         \/ how \in {"exited", "garbled"}
         \/ \E c \in Client : conn[c].rd # "none" \/ conn[c].wr # "none"
  PROVE  IInv'
<1>1. TypeOK'
  BY DEF IInv, TypeOK, Lose, ChildState
<1>2. ~Running'
  BY DEF Running, Lose, Loss
<1>3. FailureNeedsCgi'
  BY DEF FailureNeedsCgi, Lose
<1> QED BY <1>1, <1>2, <1>3 DEF IInv

\* The same for a handler that ran to its end.
LEMMA Updated ==
  ASSUME IInv, Running,
         NEW c \in Client, Live(c),
         NEW k \in Conn, NEW R \in SUBSET Knote, NEW ch \in ChildState,
         Update(c, k, R),
         child' = [child EXCEPT ![c] = ch],
         out' \in [Client -> BOOLEAN],
         batch' \subseteq batch,
         Consistent("live", k, R, ch, Pending(c)')
  PROVE  IInv'
<1>1. life' = [life EXCEPT ![c] = "live"] /\ Running'
  BY DEF IInv, TypeOK, Update, Live, Running
<1> QED BY <1>1, OneClient DEF Update

\* What makes an error page the right thing to send.
Raisable(k, R, ch, B) ==
  /\ "timer" \in R
  /\ "listen" \notin B
  /\ "proc" \in R => ch \notin {"none", "failed"}
  /\ "proc" \in B => ch \in {"exit0", "exit1"} /\ "proc" \notin R
  /\ "read" \in B => k.phase # "CREATE" /\ (k.rd # "none" \/ k.wr # "none")
  /\ k.phase = "READY" => ch = "none"
  /\ k.method = "script" /\ ~k.whole => ch = "none"
  /\ ch # "none" => k.method \in {"script", "POST"} /\ k.rd # "none"
  /\ k.phase = "DONE" /\ k.method = "POST" => k.wr # "none"
  /\ PipesConsistent(k, R, ch, B)

\* An exception that leaves its Client with a child still gives a consistent
\* Client, whose error page waits, or loses the loop with a CGI pipe about.
LEMMA Raised ==
  ASSUME IInv, Running,
         NEW c \in Client, Live(c),
         NEW k \in Conn, NEW R \in SUBSET Knote, NEW ch \in ChildState,
         NEW code \in ErrorCode, handleError(c, code, k, R),
         child' = [child EXCEPT ![c] = ch],
         out' \in [Client -> BOOLEAN],
         batch' \subseteq batch,
         Raisable(k, R, ch, Pending(c)'),
         "read" \in R \/ conn[c].rd # "none" \/ conn[c].wr # "none"
  PROVE  IInv'
<1> DEFINE k2 == [k EXCEPT !.code = code, !.resp = "error"]
           R2 == (R \ {"read"}) \cup {"write"}
<1>1. CASE Update(c, k2, R2)
  <2>1. k2 \in Conn /\ R2 \in SUBSET Knote
    BY DEF Conn, Knote, ErrorCode
  <2>2. /\ k2.phase = k.phase /\ k2.method = k.method /\ k2.whole = k.whole
        /\ k2.rd = k.rd /\ k2.wr = k.wr /\ k2.resp = "error" /\ k2.code # "ok"
    BY DEF Conn, ErrorCode
  <2>3. Consistent("live", k2, R2, ch, Pending(c)')
    BY <2>2 DEF Consistent, KnotesConsistent, ChildConsistent, AnswerConsistent,
                Raisable, PipesConsistent
  <2> QED BY <1>1, <2>1, <2>3, Updated
<1>2. CASE "read" \notin R /\ Lose("restarted")
  <2>1. child' \in [Client -> ChildState]
    BY DEF IInv, TypeOK, ChildState
  <2> QED BY <1>2, <2>1, LoopLost DEF Loss
<1> QED BY <1>1, <1>2 DEF handleError

-----------------------------------------------------------------------------
(***************************************************************************)
(* Answering a request.  The read event has been taken, k and R are what   *)
(* the handlers so far have made of the fields and the knotes.             *)
(***************************************************************************)

Entry(c, k, R) ==
  /\ k \in Conn /\ R \in SUBSET Knote
  /\ Consistent("live", k, R, child[c], Pending(c) \ {"read"})
  /\ "read" \in R \/ conn[c].rd # "none" \/ conn[c].wr # "none"

\* Handled(c, "read"), and what goes with a new pipe, in terms of one Client.
LEMMA ReadHandled ==
  ASSUME IInv, NEW c \in Client, Handled(c, "read")
  PROVE  batch' \subseteq batch /\ Pending(c)' = Pending(c) \ {"read"}
BY DEF Handled, Pending

\* Starting the CGI child of a GET, with every call that may fail on the way.
LEMMA GetCgi ==
  ASSUME IInv, Running, NEW c \in Client, Live(c), NEW k, NEW R,
         Entry(c, k, R), k.phase = "DONE", k.method = "script", k.whole,
         child[c] = "none", "write" \in R => k.code # "ok",
         handleGetCgi(c, k, R)
  PROVE  IInv'
<1> DEFINE k2 == [k EXCEPT !.rd = "open"]
           R2 == NewPipe(R, "pipeR")
<1>1. CASE handleError(c, "error", k, R) /\ Handled(c, "read")
           /\ UNCHANGED <<child, out>>
  <2>1. Raisable(k, R, child[c], Pending(c)')
    BY <1>1, ReadHandled
    DEF Entry, Consistent, KnotesConsistent, ChildConsistent, Raisable,
        PipesConsistent
  <2>2. child' = [child EXCEPT ![c] = child[c]] /\ child[c] \in ChildState
    BY <1>1 DEF IInv, TypeOK, ChildState
  <2> QED BY <1>1, <2>1, <2>2, ReadHandled, Raised DEF Entry, ErrorCode, IInv, TypeOK
<1>2. CASE /\ batch' = batch \ {<<c, "read">>, <<c, "pipeR">>}
           /\ out' = [out EXCEPT ![c] = FALSE]
           /\ \/ /\ child' = [child EXCEPT ![c] = "failed"]
                 /\ handleError(c, "error", k2, R2)
              \/ /\ child' = [child EXCEPT ![c] = "running"]
                 /\ \/ Update(c, k2, R2 \cup {"proc", "pipeR"})
                    \/ handleError(c, "error", k2, R2)
  <2>1. /\ Pending(c)' = Pending(c) \ {"read", "pipeR"}
        /\ batch' \subseteq batch
        /\ out' \in [Client -> BOOLEAN]
        /\ child = [child EXCEPT ![c] = "none"]
    BY <1>2 DEF Pending, IInv, TypeOK
  <2>2. /\ k2 \in Conn /\ R2 \in SUBSET Knote
        /\ R2 \cup {"proc", "pipeR"} \in SUBSET Knote
        /\ k2.rd = "open" /\ k2.wr = k.wr /\ k2.phase = "DONE"
        /\ k2.method = "script" /\ k2.whole
        /\ k2.code = k.code /\ k2.resp = k.resp /\ k2.buf = k.buf
    BY DEF Entry, Conn, Knote, NewPipe, PipeEnd
  <2>3. \A ch \in {"failed", "running"} : Raisable(k2, R2, ch, Pending(c)')
    BY <2>1, <2>2
    DEF Entry, Consistent, KnotesConsistent, Raisable, PipesConsistent, NewPipe
  <2>4. Consistent("live", k2, R2 \cup {"proc", "pipeR"}, "running", Pending(c)')
    BY <2>1, <2>2
    DEF Entry, Consistent, KnotesConsistent, ChildConsistent, AnswerConsistent,
        PipesConsistent, NewPipe
  <2>5. "read" \in R2 \/ conn[c].rd # "none" \/ conn[c].wr # "none"
    BY DEF Entry, NewPipe
  <2>6. {"failed", "running"} \subseteq ChildState /\ "error" \in ErrorCode
    BY DEF ChildState, ErrorCode
  <2>7. CASE child' = [child EXCEPT ![c] = "failed"]
             /\ handleError(c, "error", k2, R2)
    BY <2>7, <2>1, <2>2, <2>3, <2>5, <2>6, Raised
  <2>8. CASE child' = [child EXCEPT ![c] = "running"]
             /\ handleError(c, "error", k2, R2)
    BY <2>8, <2>1, <2>2, <2>3, <2>5, <2>6, Raised
  <2>9. CASE child' = [child EXCEPT ![c] = "running"]
             /\ Update(c, k2, R2 \cup {"proc", "pipeR"})
    BY <2>9, <2>1, <2>2, <2>4, <2>6, Updated
  <2> QED BY <1>2, <2>7, <2>8, <2>9
<1> QED BY <1>1, <1>2 DEF handleGetCgi

\* pushBuffer touches the buffer and the response, and makes a page of an empty
\* buffer.
LEMMA PushBuffer ==
  ASSUME NEW k \in Conn
  PROVE  /\ pushBuffer(k) \in Conn
         /\ pushBuffer(k).resp \in {"page", "junk"}
         /\ k.buf = "empty" => pushBuffer(k).resp = "page"
         /\ pushBuffer(k).rd = k.rd /\ pushBuffer(k).wr = k.wr
         /\ pushBuffer(k).phase = k.phase /\ pushBuffer(k).method = k.method
         /\ pushBuffer(k).whole = k.whole /\ pushBuffer(k).code = k.code
BY DEF pushBuffer, Conn

\* The other actors' part of the step is known: the child is ch from now on,
\* and the read event has left the batch.
After(c, k, R, ch) ==
  /\ k \in Conn /\ R \in SUBSET Knote /\ ch \in ChildState
  /\ child' = [child EXCEPT ![c] = ch]
  /\ out' \in [Client -> BOOLEAN]
  /\ batch' \subseteq batch
  /\ "read" \notin Pending(c)'
  /\ Consistent("live", k, R, ch, Pending(c)')
  /\ "read" \in R \/ conn[c].rd # "none" \/ conn[c].wr # "none"

\* What holds on entry to a request handler is enough for it to end at once.
LEMMA EntryAfter ==
  ASSUME IInv, NEW c \in Client, NEW k, NEW R, Entry(c, k, R),
         Handled(c, "read"), UNCHANGED <<child, out>>
  PROVE  After(c, k, R, child[c])
<1>1. child' = [child EXCEPT ![c] = child[c]] /\ child[c] \in ChildState
  BY DEF IInv, TypeOK, ChildState
<1> QED BY <1>1, ReadHandled DEF Entry, After, IInv, TypeOK

\* A request handler that ended normally.
LEMMA AfterUpdated ==
  ASSUME IInv, Running, NEW c \in Client, Live(c), NEW k, NEW R, NEW ch,
         After(c, k, R, ch), Update(c, k, R)
  PROVE  IInv'
BY Updated DEF After

\* A request handler that threw.
LEMMA AfterRaised ==
  ASSUME IInv, Running, NEW c \in Client, Live(c), NEW k, NEW R, NEW ch,
         After(c, k, R, ch), NEW code \in ErrorCode, handleError(c, code, k, R)
  PROVE  IInv'
<1>1. Raisable(k, R, ch, Pending(c)')
  BY DEF After, Consistent, KnotesConsistent, ChildConsistent, Raisable,
         PipesConsistent
<1> QED BY <1>1, Raised DEF After

\* A page from a file, or the confirmation of a DELETE.
LEMMA PageReady ==
  ASSUME IInv, Running, NEW c \in Client, Live(c), NEW k, NEW R,
         Entry(c, k, R), k.phase = "DONE", child[c] = "none", k.whole,
         readyToSend(c, pushBuffer(k), R),
         Handled(c, "read"), UNCHANGED <<child, out>>
  PROVE  IInv'
<1> DEFINE k2 == pushBuffer(k)
<1>1. k \in Conn /\ R \in SUBSET Knote
  BY DEF Entry
<1>2. CASE "read" \in R /\ Update(c, k2, (R \ {"read"}) \cup {"write"})
  <2>1. Consistent("live", k2, (R \ {"read"}) \cup {"write"}, "none", Pending(c)')
    BY <1>1, <1>2, PushBuffer, ReadHandled
    DEF Entry, Consistent, KnotesConsistent, ChildConsistent, AnswerConsistent,
        PipesConsistent, Conn
  <2>2. /\ child' = [child EXCEPT ![c] = "none"] /\ "none" \in ChildState
        /\ (R \ {"read"}) \cup {"write"} \in SUBSET Knote
        /\ out' \in [Client -> BOOLEAN]
    BY <1>1 DEF IInv, TypeOK, ChildState, Knote
  <2> QED BY <1>1, <1>2, <2>1, <2>2, PushBuffer, ReadHandled, Updated
<1>3. CASE "read" \notin R /\ handleError(c, "error", k2, R)
  <2>1. conn[c].rd # "none" \/ conn[c].wr # "none"
    BY <1>3 DEF Entry
  <2>2. Lose("restarted")
    BY <1>3 DEF handleError
  <2>3. child' \in [Client -> ChildState] /\ out' \in [Client -> BOOLEAN]
    BY DEF IInv, TypeOK, ChildState
  <2> QED BY <2>1, <2>2, <2>3, ReadHandled, LoopLost DEF Loss
<1> QED BY <1>2, <1>3 DEF readyToSend

\* An error after the response was pushed.
LEMMA PushedRaised ==
  ASSUME IInv, Running, NEW c \in Client, Live(c), NEW k, NEW R,
         Entry(c, k, R),
         handleError(c, "error", pushBuffer(k), R),
         Handled(c, "read"), UNCHANGED <<child, out>>
  PROVE  IInv'
<1>1. k \in Conn /\ R \in SUBSET Knote
  BY DEF Entry
<1>2. Raisable(pushBuffer(k), R, child[c], Pending(c)')
  BY <1>1, ReadHandled, PushBuffer
  DEF Entry, Consistent, KnotesConsistent, ChildConsistent, Raisable,
      PipesConsistent
<1>3. child' = [child EXCEPT ![c] = child[c]] /\ child[c] \in ChildState
  BY DEF IInv, TypeOK, ChildState
<1>4. out' \in [Client -> BOOLEAN] /\ "error" \in ErrorCode
  BY DEF IInv, TypeOK, ErrorCode
<1>5. "read" \in R \/ conn[c].rd # "none" \/ conn[c].wr # "none"
  BY DEF Entry
<1> QED BY <1>1, <1>2, <1>3, <1>4, <1>5, ReadHandled, PushBuffer, Raised

\* Undefined behaviour ends the model at once.
LEMMA Garbled ==
  ASSUME IInv, NEW how \in {"exited", "garbled"}, Lose(how),
         batch' \subseteq batch, UNCHANGED <<child, out>>
  PROVE  IInv'
<1>1. child' \in [Client -> ChildState] /\ out' \in [Client -> BOOLEAN]
  BY DEF IInv, TypeOK, ChildState
<1> QED BY <1>1, LoopLost DEF Loss

\* Get::handleGet, for a script and for a page.
LEMMA Get ==
  ASSUME IInv, Running, NEW c \in Client, Live(c), NEW k, NEW R,
         Entry(c, k, R), k.phase = "DONE", child[c] = "none", k.whole,
         k.method = "script" /\ "write" \in R => k.code # "ok",
         handleGet(c, k, R)
  PROVE  IInv'
<1>1. CASE k.method = "script" /\ handleGetCgi(c, k, R)
  BY <1>1, GetCgi
<1>2. CASE readyToSend(c, pushBuffer(k), R)
           /\ Handled(c, "read") /\ UNCHANGED <<child, out>>
  BY <1>2, PageReady
<1>3. CASE handleError(c, "error", k, R)
           /\ Handled(c, "read") /\ UNCHANGED <<child, out>>
  BY <1>3, EntryAfter, AfterRaised DEF ErrorCode
<1>4. CASE Lose("garbled") /\ Handled(c, "read") /\ UNCHANGED <<child, out>>
  BY <1>4, ReadHandled, Garbled
<1> QED BY <1>1, <1>2, <1>3, <1>4 DEF handleGet

\* Delete::handleDelete, whose response is ready before the file is removed.
LEMMA Delete ==
  ASSUME IInv, Running, NEW c \in Client, Live(c), NEW k, NEW R,
         Entry(c, k, R), k.phase = "DONE", child[c] = "none", k.whole,
         handleDelete(c, k, R)
  PROVE  IInv'
BY PageReady, PushedRaised DEF handleDelete

\* Collecting the body changes none of the fields the other events depend on.
LEMMA Collecting ==
  ASSUME NEW k \in Conn, NEW R, NEW ch, NEW B, Consistent("live", k, R, ch, B),
         NEW more \in BOOLEAN, NEW end \in BOOLEAN, k.whole => end
  PROVE  /\ [k EXCEPT !.unsent = more, !.whole = end] \in Conn
         /\ Consistent("live", [k EXCEPT !.unsent = more, !.whole = end], R, ch, B)
<1> DEFINE k2 == [k EXCEPT !.unsent = more, !.whole = end]
<1>1. /\ k2 \in Conn
      /\ k2.phase = k.phase /\ k2.method = k.method /\ k2.code = k.code
      /\ k2.buf = k.buf /\ k2.resp = k.resp /\ k2.rd = k.rd /\ k2.wr = k.wr
      /\ k.whole => k2.whole
  BY DEF Conn
<1> QED
  BY <1>1 DEF Consistent, KnotesConsistent, ChildConsistent, AnswerConsistent,
              PipesConsistent

\* Post::handlePost, once the body with its Content-Length is there.
LEMMA Post ==
  ASSUME IInv, Running, NEW c \in Client, Live(c), NEW k, NEW R, NEW ch,
         After(c, k, R, ch), k.phase = "DONE", k.method = "POST", ~k.whole,
         handlePost(c, k, R)
  PROVE  IInv'
<1>1. k \in Conn /\ k.whole \in BOOLEAN
  BY DEF After, Conn
<1>2. PICK some \in BOOLEAN :
        \/ some /\ handleError(c, "error", [k EXCEPT !.unsent = some], R)
        \/ Update(c, [k EXCEPT !.unsent = some, !.whole = TRUE], R \cup {"pipeW"})
  BY Zenon DEF handlePost
<1>3. CASE handleError(c, "error", [k EXCEPT !.unsent = some], R)
  <2>1. [k EXCEPT !.unsent = some] = [k EXCEPT !.unsent = some, !.whole = k.whole]
    BY <1>1 DEF Conn
  <2>2. After(c, [k EXCEPT !.unsent = some], R, ch)
    BY <1>1, <2>1, Collecting DEF After
  <2> QED BY <1>3, <2>2, AfterRaised DEF ErrorCode
<1>4. CASE Update(c, [k EXCEPT !.unsent = some, !.whole = TRUE], R \cup {"pipeW"})
  <2> DEFINE k2 == [k EXCEPT !.unsent = some, !.whole = TRUE]
  <2>1. After(c, k2, R, ch)
    BY <1>1, Collecting DEF After
  <2>2. k2.wr # "none"
    BY <1>1 DEF After, Consistent, ChildConsistent, Conn
  <2>3. After(c, k2, R \cup {"pipeW"}, ch)
    BY <2>1, <2>2
    DEF After, Consistent, KnotesConsistent, ChildConsistent, AnswerConsistent,
        PipesConsistent, Knote
  <2> QED BY <1>4, <2>3, AfterUpdated
<1> QED BY <1>2, <1>3, <1>4

\* RequestChunked::parsingChunkedData, whatever part of the body arrived.
LEMMA Chunks ==
  ASSUME IInv, Running, NEW c \in Client, Live(c), NEW k, NEW R, NEW ch,
         After(c, k, R, ch), ~k.whole, parsingChunkedData(c, k, R)
  PROVE  IInv'
<1>1. k \in Conn /\ k.whole \in BOOLEAN
  BY DEF After, Conn
<1>2. PICK more \in BOOLEAN :
        \/ \E end \in BOOLEAN :
             Update(c, [k EXCEPT !.unsent = more, !.whole = end], R)
        \/ handleError(c, "error", [k EXCEPT !.unsent = more], R)
  BY <1>1 DEF parsingChunkedData, Conn
<1>3. CASE \E end \in BOOLEAN :
             Update(c, [k EXCEPT !.unsent = more, !.whole = end], R)
  <2>1. PICK end \in BOOLEAN :
          Update(c, [k EXCEPT !.unsent = more, !.whole = end], R)
    BY <1>3
  <2>2. After(c, [k EXCEPT !.unsent = more, !.whole = end], R, ch)
    BY <1>1, Collecting DEF After
  <2> QED BY <2>1, <2>2, AfterUpdated
<1>4. CASE handleError(c, "error", [k EXCEPT !.unsent = more], R)
  <2>1. [k EXCEPT !.unsent = more] = [k EXCEPT !.unsent = more, !.whole = k.whole]
    BY <1>1 DEF Conn
  <2>2. After(c, [k EXCEPT !.unsent = more], R, ch)
    BY <1>1, <2>1, Collecting DEF After
  <2> QED BY <1>4, <2>2, AfterRaised DEF ErrorCode
<1> QED BY <1>2, <1>3, <1>4

\* Collecting the body of a POST whose child is running.
LEMMA Body ==
  ASSUME IInv, Running, NEW c \in Client, Live(c), NEW k, NEW R, NEW ch,
         After(c, k, R, ch), k.phase = "DONE", CollectBody(c, k, R)
  PROVE  IInv'
<1>1. CASE Update(c, k, R)
  BY <1>1, AfterUpdated
<1>2. CASE ~k.whole /\ k.chunked /\ parsingChunkedData(c, k, R)
  BY <1>2, Chunks
<1>3. CASE ~k.whole /\ ~k.chunked /\ k.method = "POST" /\ handlePost(c, k, R)
  BY <1>3, Post
<1> QED BY <1>1, <1>2, <1>3 DEF CollectBody

\* Client::handleResponse for every method.
LEMMA Response ==
  ASSUME IInv, Running, NEW c \in Client, Live(c), NEW k, NEW R,
         Entry(c, k, R), k.phase = "DONE", handleResponse(c, k, R)
  PROVE  IInv'
<1> DEFINE k2 == [k EXCEPT !.whole = TRUE]
<1>1. CASE CollectBody(c, k, R) /\ Handled(c, "read") /\ UNCHANGED <<child, out>>
  BY <1>1, EntryAfter, Body
<1>2. ASSUME ~k.whole, k.method \in {"file", "script", "DELETE"}
      PROVE  /\ Entry(c, k2, R) /\ k2.phase = "DONE" /\ k2.whole
             /\ child[c] = "none" /\ k2.method = k.method
             /\ k2.method = "script" /\ "write" \in R => k2.code # "ok"
  <2>1. k \in Conn
    BY DEF Entry
  <2>2. k2 = [k EXCEPT !.unsent = k.unsent, !.whole = TRUE] /\ k.unsent \in BOOLEAN
    BY <2>1 DEF Conn
  <2>3. Entry(c, k2, R)
    BY <2>1, <2>2, Collecting DEF Entry
  <2>4. /\ k2.phase = "DONE" /\ k2.whole /\ k2.method = k.method
        /\ k2.code = k.code
    BY <2>1 DEF Conn
  <2>5. child[c] = "none"
    BY <1>2 DEF Entry, Consistent, ChildConsistent
  <2>6. k.method = "script" /\ "write" \in R => k.code # "ok"
    BY <1>2 DEF Entry, Consistent, AnswerConsistent
  <2> QED BY <2>3, <2>4, <2>5, <2>6
<1>3. CASE ~k.whole /\ k.method \in {"file", "script"} /\ handleGet(c, k2, R)
  BY <1>2, <1>3, Get
<1>4. CASE ~k.whole /\ k.method = "DELETE" /\ handleDelete(c, k2, R)
  BY <1>2, <1>4, Delete
<1> QED BY <1>1, <1>3, <1>4 DEF handleResponse

\* A header has been parsed into k: no child is left of an earlier request.
Routing(c, k, R) ==
  k \in Conn /\ k.phase = "CREATE" /\ Entry(c, [k EXCEPT !.phase = "READY"], R)

\* What is known of the Client while its request is routed: no child, no
\* answer, and a read knote unless a CGI pipe was opened for it before.
LEMMA RoutingFacts ==
  ASSUME IInv, NEW c \in Client, NEW k, NEW R, Routing(c, k, R)
  PROVE  /\ R \in SUBSET Knote /\ child[c] = "none"
         /\ "read" \in R \/ conn[c].rd # "none" \/ conn[c].wr # "none"
         /\ "timer" \in R /\ ("read" \in R) # ("write" \in R)
         /\ "proc" \notin R \cup Pending(c) /\ "listen" \notin Pending(c)
         /\ "write" \in Pending(c) => "write" \in R
         /\ "write" \in R => k.code # "ok"
         /\ k.code # "ok" => k.resp # "empty"
         /\ "write" \in R /\ k.rd = "none" => k.resp \in {"page", "error"}
         /\ "read" \in R /\ k.rd = "none" => k.buf = "empty" /\ k.resp = "empty"
         /\ PipesConsistent(k, R, "none", Pending(c) \ {"read"})
<1> DEFINE k0 == [k EXCEPT !.phase = "READY"]
<1>1. /\ k0.phase = "READY" /\ k0.code = k.code /\ k0.resp = k.resp
      /\ k0.buf = k.buf /\ k0.rd = k.rd /\ k0.wr = k.wr
  BY DEF Routing, Conn
<1>2. child[c] = "none"
  BY <1>1 DEF Routing, Entry, Consistent, ChildConsistent
<1>3. KnotesConsistent(k0, R, "none", Pending(c) \ {"read"})
  BY <1>2 DEF Routing, Entry, Consistent
<1>4. AnswerConsistent(k0, R, "none", Pending(c) \ {"read"})
  BY <1>2 DEF Routing, Entry, Consistent
<1>5. PipesConsistent(k0, R, "none", Pending(c) \ {"read"})
  BY <1>2 DEF Routing, Entry, Consistent
<1> QED
  BY <1>1, <1>2, <1>3, <1>4, <1>5
  DEF Routing, Entry, KnotesConsistent, AnswerConsistent, PipesConsistent

\* An error while the request is routed.
LEMMA RoutingRaised ==
  ASSUME IInv, Running, NEW c \in Client, Live(c), NEW k, NEW R,
         Routing(c, k, R), NEW code \in ErrorCode, handleError(c, code, k, R),
         Handled(c, "read"), UNCHANGED <<child, out>>
  PROVE  IInv'
<1>1. Raisable(k, R, "none", Pending(c)')
  BY RoutingFacts, ReadHandled DEF Raisable, PipesConsistent, Routing
<1>2. /\ child' = [child EXCEPT ![c] = "none"] /\ "none" \in ChildState
      /\ out' \in [Client -> BOOLEAN]
  BY RoutingFacts DEF IInv, TypeOK, ChildState
<1> QED BY <1>1, <1>2, RoutingFacts, ReadHandled, Raised, ZenonT(60) DEF Routing

\* Post::handlePostCgi: two pipes, the child, three knotes, and the body.
LEMMA PostCgi ==
  ASSUME IInv, Running, NEW c \in Client, Live(c), NEW k, NEW R,
         Routing(c, k, R), k.method = "POST", handlePostCgi(c, k, R)
  PROVE  IInv'
<1> DEFINE kw  == [k EXCEPT !.wr = "open"]
           kwr == [kw EXCEPT !.rd = "open"]
           kd  == [kwr EXCEPT !.phase = "DONE"]
           Rw  == NewPipe(R, "pipeW")
           Rwr == NewPipe(Rw, "pipeR")
           Rd  == Rwr \cup {"proc", "pipeR", "pipeW"}
<1>0. \/ /\ handleError(c, "error", k, R) /\ Handled(c, "read")
         /\ UNCHANGED <<child, out>>
      \/ /\ handleError(c, "error", kw, Rw)
         /\ batch' = batch \ {<<c, "read">>, <<c, "pipeW">>}
         /\ UNCHANGED <<child, out>>
      \/ /\ batch' = batch \ {<<c, "read">>, <<c, "pipeR">>, <<c, "pipeW">>}
         /\ out' = [out EXCEPT ![c] = FALSE]
         /\ \/ /\ child' = [child EXCEPT ![c] = "failed"]
               /\ handleError(c, "error", kwr, Rwr)
            \/ /\ child' = [child EXCEPT ![c] = "running"]
               /\ \/ handleError(c, "error", kwr, Rwr)
                  \/ CollectBody(c, kd, Rd)
  BY Zenon DEF handlePostCgi
<1> USE RoutingFacts
<1>1. /\ kw \in Conn /\ kw.wr = "open" /\ kw.rd = k.rd
      /\ kw.phase = "CREATE" /\ kw.method = "POST"
  BY DEF Routing, Conn, PipeEnd
<1>2. /\ kwr \in Conn /\ kwr.wr = "open" /\ kwr.rd = "open"
      /\ kwr.phase = "CREATE" /\ kwr.method = "POST"
  BY DEF Routing, Conn, PipeEnd
<1>3. /\ kd \in Conn /\ kd.wr = "open" /\ kd.rd = "open"
      /\ kd.phase = "DONE" /\ kd.method = "POST" /\ kd.code = k.code
      /\ kd.resp = k.resp /\ kd.buf = k.buf
  BY DEF Routing, Conn, PipeEnd
<1>4. /\ Rw \in SUBSET Knote /\ Rwr \in SUBSET Knote /\ Rd \in SUBSET Knote
      /\ \A f \in {"read", "write", "timer", "proc"} :
           (f \in Rw <=> f \in R) /\ (f \in Rwr <=> f \in R)
      /\ "pipeW" \notin Rw \cup Rwr /\ "pipeR" \notin Rwr
      /\ "pipeR" \in Rw => "pipeR" \in R
  BY DEF NewPipe, Knote
<1>5. /\ child = [child EXCEPT ![c] = "none"] /\ out \in [Client -> BOOLEAN]
      /\ "none" \in ChildState /\ {"failed", "running"} \subseteq ChildState
      /\ "error" \in ErrorCode
  BY DEF IInv, TypeOK, ChildState, ErrorCode
<1> HIDE DEF kw, kwr, kd, Rw, Rwr, Rd
<1>6. CASE handleError(c, "error", k, R) /\ Handled(c, "read")
           /\ UNCHANGED <<child, out>>
  BY <1>5, <1>6, RoutingRaised
<1>7. CASE /\ handleError(c, "error", kw, Rw)
           /\ batch' = batch \ {<<c, "read">>, <<c, "pipeW">>}
           /\ UNCHANGED <<child, out>>
  <2>1. /\ batch' \subseteq batch
        /\ Pending(c)' = Pending(c) \ {"read", "pipeW"}
    BY <1>7 DEF Pending
  <2>2. Raisable(kw, Rw, "none", Pending(c)')
    BY <1>1, <1>4, <2>1 DEF Raisable, PipesConsistent
  <2> QED BY <1>1, <1>4, <1>5, <1>7, <2>1, <2>2, Raised, ZenonT(60)
<1>8. CASE /\ batch' = batch \ {<<c, "read">>, <<c, "pipeR">>, <<c, "pipeW">>}
           /\ out' = [out EXCEPT ![c] = FALSE]
           /\ \/ /\ child' = [child EXCEPT ![c] = "failed"]
                 /\ handleError(c, "error", kwr, Rwr)
              \/ /\ child' = [child EXCEPT ![c] = "running"]
                 /\ \/ handleError(c, "error", kwr, Rwr)
                    \/ CollectBody(c, kd, Rd)
  <2>1. /\ batch' \subseteq batch
        /\ Pending(c)' = Pending(c) \ {"read", "pipeR", "pipeW"}
        /\ out' \in [Client -> BOOLEAN]
    BY <1>5, <1>8 DEF Pending
  <2>2. \A ch \in {"failed", "running"} : Raisable(kwr, Rwr, ch, Pending(c)')
    BY <1>2, <1>4, <2>1 DEF Raisable, PipesConsistent
  <2>3. CASE child' = [child EXCEPT ![c] = "failed"]
             /\ handleError(c, "error", kwr, Rwr)
    BY <2>3, <1>2, <1>4, <1>5, <2>1, <2>2, Raised, ZenonT(60)
  <2>4. CASE child' = [child EXCEPT ![c] = "running"]
             /\ handleError(c, "error", kwr, Rwr)
    BY <2>4, <1>2, <1>4, <1>5, <2>1, <2>2, Raised, ZenonT(60)
  <2>5. CASE child' = [child EXCEPT ![c] = "running"] /\ CollectBody(c, kd, Rd)
    <3>1. Consistent("live", kd, Rd, "running", Pending(c)')
      BY <1>3, <1>4, <2>1
      DEF Consistent, KnotesConsistent, ChildConsistent, AnswerConsistent,
          PipesConsistent, Rd
    <3>2. After(c, kd, Rd, "running")
      BY <1>3, <1>4, <1>5, <2>1, <2>5, <3>1 DEF After, Rd
    <3> QED BY <1>3, <2>5, <3>2, Body
  <2> QED BY <1>8, <2>3, <2>4, <2>5
<1> QED BY <1>0, <1>6, <1>7, <1>8

\* Routing and starting a request whose header is there.
LEMMA StartRequest ==
  ASSUME IInv, Running, NEW c \in Client, Live(c), NEW k, NEW R,
         Routing(c, k, R), startRequest(c, k, R)
  PROVE  IInv'
<1>1. CASE /\ \E code \in ErrorCode : handleError(c, code, k, R)
           /\ Handled(c, "read") /\ UNCHANGED <<child, out>>
  BY <1>1, RoutingRaised
<1>2. CASE k.method = "POST" /\ handlePostCgi(c, k, R)
  BY <1>2, PostCgi
<1>3. CASE k.method # "POST" /\ handleResponse(c, [k EXCEPT !.phase = "DONE"], R)
  <2> DEFINE kd == [k EXCEPT !.phase = "DONE"]
  <2>1. /\ kd \in Conn /\ kd.phase = "DONE" /\ kd.method = k.method
        /\ kd.code = k.code /\ kd.resp = k.resp /\ kd.buf = k.buf
        /\ kd.rd = k.rd /\ kd.wr = k.wr
    BY DEF Routing, Conn
  <2>2. Consistent("live", kd, R, "none", Pending(c) \ {"read"})
    BY <1>3, <2>1, RoutingFacts
    DEF Consistent, KnotesConsistent, ChildConsistent, AnswerConsistent,
        PipesConsistent
  <2>3. Entry(c, kd, R)
    BY <2>1, <2>2, RoutingFacts DEF Entry
  <2> QED BY <1>3, <2>1, <2>3, Response
<1> QED BY <1>1, <1>2, <1>3 DEF startRequest

\* Request::parsingHeader: to be continued, refused, or routed.
LEMMA Header ==
  ASSUME IInv, Running, NEW c \in Client, Live(c), NEW k, NEW R,
         Entry(c, k, R), k.phase = "READY", parsingHeader(c, k, R)
  PROVE  IInv'
<1>1. CASE /\ \/ Update(c, k, R)
              \/ \E code \in ErrorCode : handleError(c, code, k, R)
              \/ Lose("garbled")
           /\ Handled(c, "read") /\ UNCHANGED <<child, out>>
  BY <1>1, EntryAfter, AfterUpdated, AfterRaised, ReadHandled, Garbled
<1>2. CASE \E ask \in Asks[c] :
             startRequest(c, [k EXCEPT !.phase = "CREATE", !.method = ask[1],
                                       !.chunked = ask[2]], R)
  <2>1. PICK ask \in Asks[c] :
          startRequest(c, [k EXCEPT !.phase = "CREATE", !.method = ask[1],
                                    !.chunked = ask[2]], R)
    BY <1>2
  <2> DEFINE k2 == [k EXCEPT !.phase = "CREATE", !.method = ask[1],
                             !.chunked = ask[2]]
             k0 == [k2 EXCEPT !.phase = "READY"]
  <2>2. ask[1] \in Target /\ ask[2] \in BOOLEAN /\ k \in Conn
    BY AsksAssumption DEF Entry
  <2>3. k2 \in Conn /\ k2.phase = "CREATE"
    BY <2>2 DEF Conn
  <2>4. /\ k0 \in Conn /\ k0.phase = "READY" /\ k0.code = k.code
        /\ k0.resp = k.resp /\ k0.buf = k.buf /\ k0.rd = k.rd /\ k0.wr = k.wr
        /\ k0.whole = k.whole
    BY <2>2 DEF Conn
  <2>5. Consistent("live", k0, R, child[c], Pending(c) \ {"read"})
    BY <2>4
    DEF Entry, Consistent, KnotesConsistent, ChildConsistent, AnswerConsistent,
        PipesConsistent
  <2>6. Routing(c, k2, R)
    BY <2>3, <2>4, <2>5 DEF Routing, Entry
  <2> QED BY <2>1, <2>6, StartRequest
<1> QED BY <1>1, <1>2 DEF parsingHeader

\* Request::handleRequest in each of its states.
LEMMA HandleRequest ==
  ASSUME IInv, Running, NEW c \in Client, Live(c),
         <<c, "read">> \in batch, handleRequest(c, conn[c], reg[c])
  PROVE  IInv'
<1>1. Consistent("live", conn[c], reg[c], child[c], Pending(c))
  BY DEF IInv, Live
<1>2. "read" \in Pending(c)
  BY DEF Pending, Knote
<1>3. Consistent("live", conn[c], reg[c], child[c], Pending(c) \ {"read"})
  BY <1>1, FewerEvents
<1>4. Entry(c, conn[c], reg[c]) /\ conn[c].phase # "CREATE"
  BY <1>1, <1>2, <1>3
  DEF Entry, IInv, TypeOK, Consistent, KnotesConsistent, ChildConsistent
<1> QED BY <1>4, Header, Response DEF handleRequest

-----------------------------------------------------------------------------
(***************************************************************************)
(* Cleaning up, and the other handlers.                                    *)
(***************************************************************************)

\* What Client::clearClient resets, and what it keeps.
LEMMA ClearClient ==
  ASSUME NEW k \in Conn
  PROVE  /\ clearClient(k) \in Conn
         /\ clearClient(k) = [NewConn EXCEPT !.wr = k.wr, !.rd = k.rd]
         /\ clearClient(k).phase = "READY" /\ clearClient(k).code = "ok"
         /\ clearClient(k).resp = "empty" /\ clearClient(k).buf = "empty"
         /\ clearClient(k).wr = k.wr /\ clearClient(k).rd = k.rd
         /\ clearClient(k).method = "none"
BY DEF clearClient, NewConn, Conn

\* What Client::closePipeFd leaves of the pipe numbers.
LEMMA ClosePipeFd ==
  ASSUME NEW k \in Conn
  PROVE  /\ closePipeFd(k) \in Conn
         /\ closePipeFd(k).wr # "none" <=> k.wr # "none"
         /\ closePipeFd(k).rd # "none" <=> k.rd # "none"
         /\ closePipeFd(k).wr # "open" /\ closePipeFd(k).rd # "open"
         /\ closePipeFd(k).phase = k.phase /\ closePipeFd(k).method = k.method
         /\ closePipeFd(k).whole = k.whole /\ closePipeFd(k).code = k.code
         /\ closePipeFd(k).resp = k.resp /\ closePipeFd(k).buf = k.buf
         /\ closePipeFd(k).begun = k.begun
BY ZenonT(60) DEF closePipeFd, Conn, PipeEnd

\* CleanUpClientResources, from any handler.
\* k and R are the fields and knotes on entry, except that the child may have
\* been killed and its pipes closed just before; ch is the child left.
LEMMA CleanUp ==
  ASSUME IInv, Running, NEW c \in Client, Live(c),
         NEW k \in Conn, NEW R \in SUBSET Knote, NEW ch \in ChildState,
         "timer" \in R, "proc" \in R => ch # "none",
         k.rd # "none" <=> conn[c].rd # "none",
         k.wr # "none" <=> conn[c].wr # "none",
         ch # "none" => k.rd # "none",
         PipesConsistent(k, R, ch, {}),
         CleanUpClientResources(c, k, R, ch)
  PROVE  IInv'
<1> DEFINE k2 == IF ch = "none" THEN k ELSE closePipeFd(k)
           R2 == Registered(k2, R)
                   \ ({"read", "write", "timer"} \cup IF ch = "none" THEN {} ELSE {"proc"})
<1>1. batch' = {}
  BY DEF CleanUpClientResources, Return
<1>2. child' \in [Client -> ChildState] /\ out' \in [Client -> BOOLEAN]
  BY DEF CleanUpClientResources, IInv, TypeOK, ChildState
<1>3. ASSUME NEW how \in {"misdirected", "dangling"}, Lose(how),
             ch # "none" \/ Stale(k)
      PROVE  IInv'
  <2>1. conn[c].rd # "none" \/ conn[c].wr # "none"
    BY <1>3 DEF Stale
  <2> QED BY <1>1, <1>2, <1>3, <2>1, LoopLost DEF Loss
<1>4. CASE /\ life' = [life EXCEPT ![c] = "freed"]
           /\ conn' = [conn EXCEPT ![c] = clearClient(k2)]
           /\ reg' = [reg EXCEPT ![c] = R2]
           /\ child' = [child EXCEPT ![c] = "none"]
           /\ UNCHANGED loop
  <2>1. k2 \in Conn
    BY ClosePipeFd
  <2>2. Pending(c)' = {}
    BY <1>1 DEF Pending
  <2>3. /\ "pipeR" \in R2 => k2.rd # "none"
        /\ "pipeW" \in R2 => k2.wr # "none"
        /\ "lost" \in R2 => k2.rd # "none" \/ k2.wr # "none"
    BY ClosePipeFd DEF PipesConsistent, Registered
  <2>4. R2 \in SUBSET Knote /\ R2 \subseteq Pipes
    BY DEF Registered, Knote, Pipes
  <2> HIDE DEF k2, R2
  <2>5. Consistent("freed", clearClient(k2), R2, "none", Pending(c)')
    BY <2>1, <2>2, <2>3, <2>4, ClearClient
    DEF Consistent, FreedConsistent, PipesConsistent
  <2>6. Running' /\ "none" \in ChildState /\ batch' \subseteq batch
    BY <1>1, <1>4 DEF Running, ChildState
  <2> QED BY <1>2, <1>4, <2>1, <2>4, <2>5, <2>6, ClearClient, OneClient
<1>5. \/ ch # "none" /\ Stale(k) /\ Lose("misdirected")
      \/ ("timer" \notin R \/ (ch # "none" /\ "proc" \notin R)) /\ Lose("dangling")
      \/ /\ life' = [life EXCEPT ![c] = "freed"]
         /\ conn' = [conn EXCEPT ![c] = clearClient(k2)]
         /\ reg' = [reg EXCEPT ![c] = R2]
         /\ child' = [child EXCEPT ![c] = "none"]
         /\ UNCHANGED loop
  BY Zenon DEF CleanUpClientResources
<1> QED BY <1>3, <1>4, <1>5

\* The part of Client::sendData after the child was killed, if there was one.
LEMMA Sent ==
  ASSUME IInv, Running, NEW c \in Client, Live(c),
         NEW k \in Conn, NEW R \in SUBSET Knote,
         Consistent("live", k, R, "none", Pending(c) \ {"write"}),
         k.rd # "none" <=> conn[c].rd # "none",
         k.wr # "none" <=> conn[c].wr # "none",
         sent(c, k, R, "none")
  PROVE  IInv'
<1>1. CASE CleanUpClientResources(c, k, R, "none")
  <2>1. "timer" \in R /\ "proc" \notin R /\ PipesConsistent(k, R, "none", {})
    BY DEF Consistent, KnotesConsistent, PipesConsistent
  <2> QED BY <1>1, <2>1, CleanUp DEF ChildState
<1>2. CASE /\ \/ Update(c, [k EXCEPT !.begun = TRUE], R)
              \/ Update(c, clearClient(k), (R \ {"write"}) \cup {"read"})
              \/ Lose("garbled")
           /\ Handled(c, "write")
           /\ child' = [child EXCEPT ![c] = "none"]
           /\ out' = [out EXCEPT ![c] = ("none" = child[c]) /\ @]
  <2>1. /\ batch' \subseteq batch /\ Pending(c)' = Pending(c) \ {"write"}
        /\ "none" \in ChildState
    BY <1>2 DEF Handled, Pending, ChildState
  <2>2. /\ out' \in [Client -> BOOLEAN] /\ child' \in [Client -> ChildState]
    BY <1>2 DEF IInv, TypeOK, ChildState
  <2>3. CASE Update(c, [k EXCEPT !.begun = TRUE], R)
    <3> DEFINE k2 == [k EXCEPT !.begun = TRUE]
    <3>1. /\ k2 \in Conn /\ k2.phase = k.phase /\ k2.method = k.method
          /\ k2.whole = k.whole /\ k2.code = k.code /\ k2.resp = k.resp
          /\ k2.buf = k.buf /\ k2.rd = k.rd /\ k2.wr = k.wr
      BY DEF Conn
    <3>2. Consistent("live", k2, R, "none", Pending(c)')
      BY <2>1, <3>1
      DEF Consistent, KnotesConsistent, ChildConsistent, AnswerConsistent,
          PipesConsistent
    <3> QED BY <1>2, <2>1, <2>2, <2>3, <3>1, <3>2, Updated
  <2>4. CASE Update(c, clearClient(k), (R \ {"write"}) \cup {"read"})
    <3> DEFINE R2 == (R \ {"write"}) \cup {"read"}
    <3>1. Consistent("live", clearClient(k), R2, "none", Pending(c)')
      BY <2>1, ClearClient
      DEF Consistent, KnotesConsistent, ChildConsistent, AnswerConsistent,
          PipesConsistent
    <3>2. R2 \in SUBSET Knote
      BY DEF Knote
    <3> QED BY <1>2, <2>1, <2>2, <2>4, <3>1, <3>2, ClearClient, Updated
  <2>5. CASE Lose("garbled")
    BY <2>1, <2>2, <2>5, LoopLost DEF Loss
  <2> QED BY <1>2, <2>3, <2>4, <2>5
<1> QED BY <1>1, <1>2 DEF sent

\* What is known of the Client whose event is handled.
LEMMA LiveFacts ==
  ASSUME IInv, Running, NEW c \in Client, Live(c)
  PROVE  /\ Consistent("live", conn[c], reg[c], child[c], Pending(c))
         /\ conn[c] \in Conn /\ reg[c] \in SUBSET Knote
         /\ child[c] \in ChildState
         /\ "timer" \in reg[c] /\ reg[c] \cup {"timer"} = reg[c]
BY DEF IInv, TypeOK, Live, ChildState, Consistent, KnotesConsistent

\* Client::sendData, with and without a child to kill.
LEMMA SendData ==
  ASSUME IInv, Running, NEW c \in Client, Live(c),
         <<c, "write">> \in batch, sendData(c)
  PROVE  IInv'
<1> DEFINE k == closePipeFd(conn[c])
           R == Registered(k, reg[c])
<1>1. "write" \in Pending(c) /\ "write" \in reg[c]
  BY LiveFacts DEF Pending, Knote, Consistent, KnotesConsistent
<1>2. \/ ~mustKill(c) /\ sent(c, conn[c], reg[c], child[c])
      \/ mustKill(c) /\ "proc" \in reg[c] /\ sent(c, k, R \ {"proc"}, "none")
      \/ /\ mustKill(c)
         /\ \/ Stale(conn[c]) /\ Lose("misdirected")
            \/ "proc" \notin reg[c] /\ handleError(c, "error", k, R)
         /\ Handled(c, "write")
         /\ UNCHANGED <<child, out>>
  BY LiveFacts, Zenon DEF sendData, deletePidEvent
<1>3. CASE ~mustKill(c) /\ sent(c, conn[c], reg[c], child[c])
  <2>1. child[c] = "none"
    BY <1>1, <1>3, LiveFacts DEF mustKill, Consistent, AnswerConsistent
  <2>2. Consistent("live", conn[c], reg[c], "none", Pending(c) \ {"write"})
    BY <2>1, LiveFacts, FewerEvents
  <2> QED BY <1>3, <2>1, <2>2, LiveFacts, Sent
<1> HIDE DEF k
<1>4. /\ k \in Conn
      /\ k.rd # "none" <=> conn[c].rd # "none"
      /\ k.wr # "none" <=> conn[c].wr # "none"
      /\ k.phase = conn[c].phase /\ k.method = conn[c].method
      /\ k.whole = conn[c].whole /\ k.code = conn[c].code
      /\ k.resp = conn[c].resp /\ k.buf = conn[c].buf
      /\ k.rd # "open" /\ k.wr # "open"
  BY LiveFacts, ClosePipeFd DEF k
<1>5. R \subseteq reg[c] /\ R = reg[c] \ {"pipeR", "pipeW"}
  BY <1>4 DEF Registered
<1> HIDE DEF R
<1>6. CASE mustKill(c) /\ "proc" \in reg[c] /\ sent(c, k, R \ {"proc"}, "none")
  <2>1. child[c] # "none" /\ conn[c].code # "ok"
    BY <1>6 DEF mustKill
  <2>2. Consistent("live", k, R \ {"proc"}, "none", Pending(c) \ {"write"})
    BY <1>1, <1>4, <1>5, <1>6, <2>1, LiveFacts
    DEF Consistent, KnotesConsistent, ChildConsistent, AnswerConsistent,
        PipesConsistent
  <2>3. R \ {"proc"} \in SUBSET Knote
    BY <1>5, LiveFacts
  <2> QED BY <1>4, <1>6, <2>2, <2>3, Sent
<1>7. CASE /\ mustKill(c)
           /\ \/ Stale(conn[c]) /\ Lose("misdirected")
              \/ "proc" \notin reg[c] /\ handleError(c, "error", k, R)
           /\ Handled(c, "write")
           /\ UNCHANGED <<child, out>>
  <2>1. conn[c].rd # "none"
    BY <1>7, LiveFacts DEF mustKill, Consistent, ChildConsistent
  <2>2. /\ batch' \subseteq batch /\ Pending(c)' = Pending(c) \ {"write"}
        /\ child' = [child EXCEPT ![c] = child[c]]
        /\ child' \in [Client -> ChildState] /\ out' \in [Client -> BOOLEAN]
    BY <1>7 DEF Handled, Pending, IInv, TypeOK, ChildState
  <2>3. CASE Lose("misdirected")
    BY <2>1, <2>2, <2>3, LoopLost DEF Loss
  <2>4. CASE handleError(c, "error", k, R)
    <3>1. Raisable(k, R, child[c], Pending(c)')
      BY <1>1, <1>4, <1>5, <2>1, <2>2, LiveFacts
      DEF Consistent, KnotesConsistent, ChildConsistent, AnswerConsistent,
          PipesConsistent, Raisable
    <3> QED BY <1>4, <1>5, <2>1, <2>2, <2>4, <3>1, LiveFacts, Raised DEF ErrorCode
  <2> QED BY <1>7, <2>3, <2>4
<1> QED BY <1>2, <1>3, <1>6, <1>7

\* Client::handleEndProcess, for either exit status.
LEMMA EndProcess ==
  ASSUME IInv, Running, NEW c \in Client, Live(c),
         <<c, "proc">> \in batch, handleEndProcess(c)
  PROVE  IInv'
<1>1. /\ "proc" \in Pending(c) /\ child[c] \in {"exit0", "exit1"}
      /\ "proc" \notin reg[c] /\ conn[c].rd # "none"
  BY LiveFacts DEF Pending, Knote, Consistent, KnotesConsistent, ChildConsistent
<1>2. /\ batch' \subseteq batch /\ Pending(c)' = Pending(c) \ {"proc"}
      /\ child' = [child EXCEPT ![c] = "none"] /\ "none" \in ChildState
      /\ out' \in [Client -> BOOLEAN]
  BY DEF handleEndProcess, Handled, Pending, IInv, TypeOK, ChildState
<1>3. ASSUME NEW k \in Conn, handleError(c, "error", k, reg[c]),
             k.rd = conn[c].rd, k.wr = conn[c].wr, k.phase = conn[c].phase,
             k.method = conn[c].method, k.whole = conn[c].whole
      PROVE  IInv'
  <2>1. Raisable(k, reg[c], "none", Pending(c)')
    BY <1>1, <1>2, <1>3, LiveFacts
    DEF Consistent, KnotesConsistent, ChildConsistent, PipesConsistent, Raisable
  <2> QED BY <1>1, <1>2, <1>3, <2>1, LiveFacts, Raised DEF ErrorCode
<1>4. CASE handleError(c, "error", [conn[c] EXCEPT !.buf = "empty"], reg[c])
  <2> DEFINE k == [conn[c] EXCEPT !.buf = "empty"]
  <2>1. /\ k \in Conn /\ k.rd = conn[c].rd /\ k.wr = conn[c].wr
        /\ k.phase = conn[c].phase /\ k.method = conn[c].method
        /\ k.whole = conn[c].whole
    BY LiveFacts DEF Conn
  <2> QED BY <1>3, <1>4, <2>1
<1>5. CASE child[c] # "exit1" /\ readyToSend(c, conn[c], reg[c])
  <2> DEFINE R == (reg[c] \ {"read"}) \cup {"write"}
  <2>1. CASE "read" \in reg[c] /\ Update(c, conn[c], R)
    <3>1. Consistent("live", conn[c], R, "none", Pending(c)')
      BY <1>1, <1>2, <2>1, LiveFacts
      DEF Consistent, KnotesConsistent, ChildConsistent, AnswerConsistent,
          PipesConsistent
    <3>2. R \in SUBSET Knote
      BY LiveFacts DEF Knote
    <3> QED BY <1>2, <2>1, <3>1, <3>2, LiveFacts, Updated
  <2>2. CASE handleError(c, "error", conn[c], reg[c])
    BY <2>2, <1>3, LiveFacts
  <2> QED BY <1>5, <2>1, <2>2 DEF readyToSend
<1> QED BY <1>4, <1>5 DEF handleEndProcess

\* Post::readPipe: bytes, the end, and a number that is no longer a pipe.
LEMMA ReadPipe ==
  ASSUME IInv, Running, NEW c \in Client, Live(c),
         <<c, "pipeR">> \in batch, readPipe(c)
  PROVE  IInv'
<1> DEFINE k == conn[c]
<1>1. "pipeR" \in Pending(c) /\ k.rd # "none"
  BY LiveFacts DEF Pending, Knote, Consistent, PipesConsistent
<1>2. /\ batch' \subseteq batch /\ Pending(c)' = Pending(c) \ {"pipeR"}
      /\ child' = [child EXCEPT ![c] = child[c]]
      /\ child' \in [Client -> ChildState] /\ out' \in [Client -> BOOLEAN]
  BY DEF readPipe, Handled, Pending, IInv, TypeOK, ChildState
<1>3. CASE handleError(c, "error", k, reg[c])
  <2>1. Raisable(k, reg[c], child[c], Pending(c)')
    BY <1>1, <1>2, LiveFacts
    DEF Consistent, KnotesConsistent, ChildConsistent, PipesConsistent, Raisable
  <2> QED BY <1>1, <1>2, <1>3, <2>1, LiveFacts, Raised DEF ErrorCode
<1>4. CASE Lose("misdirected")
  BY <1>1, <1>2, <1>4, LoopLost DEF Loss
<1>5. ASSUME NEW k2 \in Conn, NEW R \in SUBSET Knote, Update(c, k2, R),
             R \in {reg[c], reg[c] \ {"pipeR"}},
             k2.rd # "none", k2.wr = k.wr, k2.phase = k.phase,
             k2.method = k.method, k2.whole = k.whole, k2.code = k.code,
             \/ k2.resp = k.resp /\ k2.rd = k.rd
             \/ k2.resp # "empty"
      PROVE  IInv'
  <2>1. Consistent("live", k2, R, child[c], Pending(c)')
    BY <1>1, <1>2, <1>5, LiveFacts
    DEF Consistent, KnotesConsistent, ChildConsistent, AnswerConsistent,
        PipesConsistent
  <2> QED BY <1>2, <1>5, <2>1, LiveFacts, Updated
<1>6. ASSUME NEW b \in {"text", "junk"}, Update(c, [k EXCEPT !.buf = b], reg[c])
      PROVE  IInv'
  <2> DEFINE k2 == [k EXCEPT !.buf = b]
  <2>1. /\ k2 \in Conn /\ k2.rd = k.rd /\ k2.wr = k.wr /\ k2.phase = k.phase
        /\ k2.method = k.method /\ k2.whole = k.whole /\ k2.code = k.code
        /\ k2.resp = k.resp
    BY LiveFacts DEF Conn
  <2> QED BY <1>1, <1>5, <1>6, <2>1, LiveFacts
<1>7. ASSUME NEW r \in {"short", "junk", "page"},
             Update(c, [k EXCEPT !.resp = r, !.rd = "stale"], reg[c] \ {"pipeR"})
      PROVE  IInv'
  <2> DEFINE k2 == [k EXCEPT !.resp = r, !.rd = "stale"]
  <2>1. /\ k2 \in Conn /\ k2.rd = "stale" /\ k2.wr = k.wr /\ k2.phase = k.phase
        /\ k2.method = k.method /\ k2.whole = k.whole /\ k2.code = k.code
        /\ k2.resp = r
    <3>1. conn[c] \in Conn
      BY LiveFacts
    <3> QED BY <3>1, ZenonT(60) DEF Conn, PipeEnd
  <2>2. reg[c] \ {"pipeR"} \in SUBSET Knote
    BY LiveFacts
  <2> QED BY <1>5, <1>7, <2>1, <2>2
<1>8. Received(k) \in {"text", "junk"}
  BY DEF Received
<1>9. \/ handleError(c, "error", k, reg[c])
      \/ Lose("misdirected")
      \/ Update(c, [k EXCEPT !.buf = Received(k)], reg[c])
      \/ Update(c, [k EXCEPT !.buf = "junk"], reg[c])
      \/ \E r \in {"short", "junk", "page"} :
           Update(c, [k EXCEPT !.resp = r, !.rd = "stale"], reg[c] \ {"pipeR"})
  <2> DEFINE r == IF k.begun THEN "short"
                  ELSE IF k.buf = "junk" THEN "junk" ELSE "page"
  <2>1. \/ handleError(c, "error", k, reg[c])
        \/ Lose("misdirected")
        \/ Update(c, [k EXCEPT !.buf = Received(k)], reg[c])
        \/ Update(c, [k EXCEPT !.buf = "junk"], reg[c])
        \/ Update(c, [k EXCEPT !.resp = r, !.rd = "stale"], reg[c] \ {"pipeR"})
    BY Zenon DEF readPipe
  <2>2. r \in {"short", "junk", "page"}
    OBVIOUS
  <2> QED BY <2>1, <2>2, Zenon
<1> QED BY <1>3, <1>4, <1>6, <1>7, <1>8, <1>9

\* Post::writePipe: bytes, the close, SIGPIPE, and a number kept too long.
LEMMA WritePipe ==
  ASSUME IInv, Running, NEW c \in Client, Live(c),
         <<c, "pipeW">> \in batch, writePipe(c)
  PROVE  IInv'
<1> DEFINE k == conn[c]
<1>1. "pipeW" \in Pending(c) /\ k.wr # "none"
  BY LiveFacts DEF Pending, Knote, Consistent, PipesConsistent
<1>2. /\ batch' \subseteq batch /\ Pending(c)' = Pending(c) \ {"pipeW"}
      /\ child' = [child EXCEPT ![c] = child[c]]
      /\ child' \in [Client -> ChildState] /\ out' \in [Client -> BOOLEAN]
  BY DEF writePipe, Handled, Pending, IInv, TypeOK, ChildState
<1>3. CASE handleError(c, "error", k, reg[c])
  <2>1. Raisable(k, reg[c], child[c], Pending(c)')
    BY <1>1, <1>2, LiveFacts
    DEF Consistent, KnotesConsistent, ChildConsistent, PipesConsistent, Raisable
  <2> QED BY <1>1, <1>2, <1>3, <2>1, LiveFacts, Raised DEF ErrorCode
<1>4. ASSUME NEW how \in {"misdirected", "killed"}, Lose(how)
      PROVE  IInv'
  BY <1>1, <1>2, <1>4, LoopLost DEF Loss
<1>5. ASSUME NEW k2 \in Conn, NEW R \in SUBSET Knote, Update(c, k2, R),
             R \in {reg[c], reg[c] \ {"pipeW"}},
             k2.wr # "none", k2.rd = k.rd, k2.phase = k.phase,
             k2.method = k.method, k2.whole = k.whole, k2.code = k.code,
             k2.resp = k.resp, k2.buf = k.buf
      PROVE  IInv'
  <2>1. Consistent("live", k2, R, child[c], Pending(c)')
    BY <1>1, <1>2, <1>5, LiveFacts
    DEF Consistent, KnotesConsistent, ChildConsistent, AnswerConsistent,
        PipesConsistent
  <2> QED BY <1>2, <1>5, <2>1, LiveFacts, Updated
<1>6. ASSUME NEW rest \in BOOLEAN, Update(c, [k EXCEPT !.unsent = rest], reg[c])
      PROVE  IInv'
  <2> DEFINE k2 == [k EXCEPT !.unsent = rest]
  <2>1. /\ k2 \in Conn /\ k2.rd = k.rd /\ k2.wr = k.wr /\ k2.phase = k.phase
        /\ k2.method = k.method /\ k2.whole = k.whole /\ k2.code = k.code
        /\ k2.resp = k.resp /\ k2.buf = k.buf
    BY LiveFacts DEF Conn
  <2> QED BY <1>1, <1>5, <1>6, <2>1, LiveFacts
<1>7. CASE Update(c, [k EXCEPT !.wr = "stale"], reg[c] \ {"pipeW"})
  <2> DEFINE k2 == [k EXCEPT !.wr = "stale"]
  <2>1. /\ k2 \in Conn /\ k2.rd = k.rd /\ k2.wr = "stale" /\ k2.phase = k.phase
        /\ k2.method = k.method /\ k2.whole = k.whole /\ k2.code = k.code
        /\ k2.resp = k.resp /\ k2.buf = k.buf
    BY LiveFacts DEF Conn, PipeEnd
  <2>2. reg[c] \ {"pipeW"} \in SUBSET Knote
    BY LiveFacts
  <2> QED BY <1>5, <1>7, <2>1, <2>2
<1>8. CASE Update(c, k, reg[c])
  BY <1>1, <1>5, <1>8, LiveFacts
<1> QED BY <1>3, <1>4, <1>6, <1>7, <1>8 DEF writePipe

\* Operation::acceptClient and the constructor of Client.
LEMMA Accepted ==
  ASSUME IInv, Running, NEW c \in Client, <<c, "listen">> \in batch,
         acceptClient(c)
  PROVE  IInv'
<1>1. /\ life[c] = "new" /\ reg[c] = {} /\ child[c] = "none"
      /\ conn[c] = NewConn /\ conn[c] \in Conn /\ Pending(c) \subseteq {"listen"}
  <2>1. "listen" \in Pending(c)
    BY DEF Pending
  <2>2. Consistent(life[c], conn[c], reg[c], child[c], Pending(c))
    BY DEF IInv
  <2>3. life[c] \in {"new", "live", "freed"} /\ conn[c] \in Conn
    BY DEF IInv, TypeOK
  <2>4. life[c] = "new"
    BY <2>1, <2>2, <2>3
    DEF Consistent, KnotesConsistent, FreedConsistent, Pipes
  <2> QED BY <2>2, <2>3, <2>4 DEF Consistent, NewConsistent
<1>2. /\ batch' \subseteq batch /\ Pending(c)' = {}
      /\ child' = [child EXCEPT ![c] = "none"] /\ "none" \in ChildState
      /\ out' \in [Client -> BOOLEAN]
  BY <1>1 DEF acceptClient, Handled, Pending, IInv, TypeOK, ChildState
<1>3. CASE /\ life' = [life EXCEPT ![c] = "live"]
           /\ reg' = [reg EXCEPT ![c] = {"read", "timer"}]
           /\ UNCHANGED <<loop, conn>>
  <2>1. conn' = [conn EXCEPT ![c] = NewConn] /\ Running'
    BY <1>1, <1>3 DEF IInv, TypeOK, Running
  <2>2. Consistent("live", NewConn, {"read", "timer"}, "none", Pending(c)')
    BY <1>2
    DEF Consistent, KnotesConsistent, ChildConsistent, AnswerConsistent,
        PipesConsistent, NewConn
  <2>3. {"read", "timer"} \in SUBSET Knote /\ NewConn \in Conn
    BY <1>1 DEF Knote
  <2> QED BY <1>2, <1>3, <2>1, <2>2, <2>3, OneClient
<1>4. CASE Lose("exited")
  BY <1>2, <1>4, Garbled DEF acceptClient
<1> QED BY <1>3, <1>4 DEF acceptClient

-----------------------------------------------------------------------------
(***************************************************************************)
(* The steps of the loop and of the children.                              *)
(***************************************************************************)

\* Every event that handleEvent works on.
LEMMA HandleStep ==
  ASSUME IInv, NEW c \in Client, Handle(c)
  PROVE  IInv'
<1>1. CASE HandleListen(c)
  BY <1>1, Accepted DEF HandleListen, Running
<1>2. CASE HandleRead(c)
  <2>1. Running /\ Live(c) /\ <<c, "read">> \in batch
    BY <1>2 DEF HandleRead, Turn, Running, Live
  <2>2. CASE handleRequest(c, conn[c], reg[c])
    BY <2>1, <2>2, HandleRequest
  <2>3. CASE CleanUpClientResources(c, conn[c], reg[c], child[c])
    <3>1. child[c] # "none" => conn[c].rd # "none"
      BY <2>1, LiveFacts DEF Consistent, ChildConsistent
    <3>2. PipesConsistent(conn[c], reg[c], child[c], {})
      BY <2>1, LiveFacts DEF Consistent, PipesConsistent
    <3>3. "proc" \in reg[c] => child[c] # "none"
      BY <2>1, LiveFacts DEF Consistent, KnotesConsistent
    <3> QED BY <2>1, <2>3, <3>1, <3>2, <3>3, LiveFacts, CleanUp
  <2> QED BY <1>2, <2>1, <2>2, <2>3, LiveFacts DEF HandleRead, handleReadEvent
<1>3. CASE HandleWrite(c)
  BY <1>3, SendData DEF HandleWrite, Turn, Running, Live
<1>4. CASE HandleProc(c)
  BY <1>4, EndProcess DEF HandleProc, Turn, Running, Live
<1>5. CASE HandlePipeR(c)
  BY <1>5, ReadPipe DEF HandlePipeR, Turn, Running, Live
<1>6. CASE HandlePipeW(c)
  BY <1>6, WritePipe DEF HandlePipeW, Turn, Running, Live
<1>7. CASE HandleTimer(c)
  <2>1. Running /\ Live(c)
    BY <1>7 DEF HandleTimer, Turn, Running, Live
  <2>2. child[c] # "none" => conn[c].rd # "none"
    BY <2>1, LiveFacts DEF Consistent, ChildConsistent
  <2>3. PipesConsistent(conn[c], reg[c], child[c], {})
    BY <2>1, LiveFacts DEF Consistent, PipesConsistent
  <2>4. "proc" \in reg[c] => child[c] # "none"
    BY <2>1, LiveFacts DEF Consistent, KnotesConsistent
  <2> QED BY <1>7, <2>1, <2>2, <2>3, <2>4, LiveFacts, CleanUp DEF HandleTimer
<1>8. CASE HandleLost(c)
  <2>1. /\ Running /\ Live(c) /\ batch' \subseteq batch
        /\ Pending(c)' \subseteq Pending(c)
    BY <1>8 DEF HandleLost, Turn, Handled, Running, Live, Pending
  <2>2. Consistent("live", conn[c], reg[c], child[c], Pending(c)')
    BY <2>1, LiveFacts, FewerEvents
  <2>3. /\ life' = [life EXCEPT ![c] = "live"]
        /\ conn' = [conn EXCEPT ![c] = conn[c]]
        /\ reg' = [reg EXCEPT ![c] = reg[c]]
        /\ child' = [child EXCEPT ![c] = child[c]]
        /\ out' \in [Client -> BOOLEAN] /\ Running'
    BY <1>8, <2>1 DEF HandleLost, IInv, TypeOK, Live, Running
  <2> QED BY <2>1, <2>2, <2>3, LiveFacts, OneClient
<1>9. CASE HandleFreed(c)
  <2>1. PICK f \in Knote : <<c, f>> \in batch /\ Handled(c, f)
    BY <1>9 DEF HandleFreed
  <2>2. f \in Pipes /\ f \in Pending(c)
    BY <1>9, <2>1
    DEF HandleFreed, IInv, Running, Consistent, FreedConsistent, Pending
  <2>3. conn[c].rd # "none" \/ conn[c].wr # "none"
    BY <1>9, <2>2 DEF HandleFreed, IInv, Running, Consistent, PipesConsistent, Pipes
  <2>4. /\ batch' \subseteq batch
        /\ child' \in [Client -> ChildState] /\ out' \in [Client -> BOOLEAN]
    BY <1>9, <2>1 DEF HandleFreed, Handled, IInv, TypeOK, ChildState
  <2> QED BY <1>9, <2>3, <2>4, LoopLost DEF HandleFreed, Loss
<1> QED
  BY <1>1, <1>2, <1>3, <1>4, <1>5, <1>6, <1>7, <1>8, <1>9 DEF Handle

\* The batch is filled from what is registered, and a process knote that is
\* returned is registered no more.
LEMMA PollStep ==
  ASSUME IInv, Poll
  PROVE  IInv'
<1>1. PICK S \in SUBSET (SureEvents \cup MayEvents) :
        /\ batch' = S
        /\ reg' = [c \in Client |->
                     IF <<c, "proc">> \in S THEN reg[c] \ {"proc"} ELSE reg[c]]
  BY DEF Poll
<1>2. /\ UNCHANGED <<loop, life, conn, child, out>> /\ Running /\ batch = {}
  BY DEF Poll, Running
<1>3. ASSUME NEW c \in Client, NEW f, <<c, f>> \in S
      PROVE  /\ f \in Knote \cup {"listen"}
             /\ f = "listen" => life[c] = "new"
             /\ f # "listen" => f \in reg[c]
             /\ f = "proc" => child[c] \in {"exit0", "exit1"}
  <2>1. reg[c] \subseteq Knote
    BY DEF IInv, TypeOK
  <2>2. CASE <<c, f>> \in SureEvents
    <3>1. PICK d \in Client : <<c, f>> \in {d} \X Sure(d)
      BY <2>2 DEF SureEvents
    <3>2. d = c /\ f \in Sure(d)
      BY <3>1, Zenon
    <3>3. f \in Sure(c)
      BY <3>2, Zenon
    <3> QED BY <2>1, <3>3 DEF Sure
  <2>3. CASE <<c, f>> \in {d \in Client : life[d] = "new"} \X {"listen"}
    BY <2>3
  <2>4. CASE \E d \in Client :
               <<c, f>> \in {d} \X (reg[d] \cap {"read", "write", "timer", "pipeW"})
    <3>1. PICK d \in Client :
            <<c, f>> \in {d} \X (reg[d] \cap {"read", "write", "timer", "pipeW"})
      BY <2>4
    <3>2. c = d /\ f \in reg[d] \cap {"read", "write", "timer", "pipeW"}
      BY <3>1, Zenon
    <3> QED BY <2>1, <3>2
  <2> QED BY <1>1, <1>3, <2>2, <2>3, <2>4 DEF MayEvents
<1>4. TypeOK'
  <2>1. \A e \in SureEvents \cup MayEvents :
          e \in Client \X (Knote \cup {"listen"})
    <3>1. \A d \in Client : reg[d] \subseteq Knote
      BY DEF IInv, TypeOK
    <3> QED BY <3>1 DEF SureEvents, MayEvents, Sure
  <2> QED BY <1>1, <1>2, <2>1 DEF IInv, TypeOK, Event
<1>5. ASSUME NEW c \in Client
      PROVE  Consistent(life[c], conn[c], reg[c], child[c], Pending(c))'
  <2> DEFINE B == {f \in Knote \cup {"listen"} : <<c, f>> \in S}
             R == IF "proc" \in B THEN reg[c] \ {"proc"} ELSE reg[c]
  <2>1. Pending(c)' = B /\ reg'[c] = R
    BY <1>1 DEF Pending, Knote
  <2>2. \A f \in B : /\ f = "listen" => life[c] = "new"
                     /\ f # "listen" => f \in reg[c]
                     /\ f = "proc" => child[c] \in {"exit0", "exit1"}
    BY <1>3
  <2> HIDE DEF B
  <2>3. /\ Consistent(life[c], conn[c], reg[c], child[c], Pending(c))
        /\ life[c] \in {"new", "live", "freed"}
    BY <1>2 DEF IInv, TypeOK
  <2>4. CASE life[c] = "new"
    <3>1. reg[c] = {} /\ B \subseteq {"listen"} /\ R = {}
      BY <2>2, <2>3, <2>4 DEF Consistent, NewConsistent
    <3>2. Consistent("new", conn[c], R, child[c], B)
      BY <2>3, <2>4, <3>1 DEF Consistent, NewConsistent, PipesConsistent
    <3> QED BY <1>2, <2>1, <2>4, <3>2
  <2>5. CASE life[c] = "live"
    <3>1. B \subseteq reg[c] /\ R \subseteq reg[c] /\ reg[c] \ {"proc"} \subseteq R
          /\ ("proc" \in B => "proc" \notin R)
      BY <2>2, <2>5
    <3>2. "listen" \notin B /\ ("proc" \in B => child[c] \in {"exit0", "exit1"})
      BY <2>2, <2>5
    <3>3. Consistent("live", conn[c], R, child[c], B)
      BY <2>3, <2>5, <3>1, <3>2
      DEF Consistent, KnotesConsistent, ChildConsistent, AnswerConsistent,
          PipesConsistent
    <3> QED BY <1>2, <2>1, <2>5, <3>3
  <2>6. CASE life[c] = "freed"
    <3>1. B \subseteq reg[c] /\ R \subseteq reg[c]
      BY <2>2, <2>6
    <3>2. Consistent("freed", conn[c], R, child[c], B)
      BY <2>3, <2>6, <3>1 DEF Consistent, FreedConsistent, PipesConsistent
    <3> QED BY <1>2, <2>1, <2>6, <3>2
  <2> QED BY <2>3, <2>4, <2>5, <2>6
<1>6. FailureNeedsCgi'
  BY <1>2 DEF FailureNeedsCgi, Running, Loss
<1> QED BY <1>4, <1>5, <1>6 DEF IInv

\* A CGI child writes, or exits.
LEMMA ChildStep ==
  ASSUME IInv, NEW c \in Client, ChildWrites(c) \/ ChildExits(c)
  PROVE  IInv'
<1>1. /\ UNCHANGED <<loop, batch, life, conn, reg>> /\ Running
      /\ out' \in [Client -> BOOLEAN]
  BY DEF ChildWrites, ChildExits, Running, IInv, TypeOK
<1>2. /\ child' \in [Client -> ChildState]
      /\ \A d \in Client :
           child'[d] # child[d] =>
             child[d] = "running" /\ child'[d] \notin {"none", "failed"}
  <2>1. child \in [Client -> ChildState]
    BY DEF IInv, TypeOK, ChildState
  <2>2. CASE ChildWrites(c)
    BY <2>1, <2>2 DEF ChildWrites
  <2>3. CASE ChildExits(c)
    BY <2>1, <2>3 DEF ChildExits, ChildState
  <2> QED BY <2>2, <2>3
<1>3. TypeOK'
  BY <1>1, <1>2 DEF IInv, TypeOK, ChildState
<1>4. ASSUME NEW d \in Client
      PROVE  Consistent(life[d], conn[d], reg[d], child[d], Pending(d))'
  <2>1. Consistent(life[d], conn[d], reg[d], child[d], Pending(d))
    BY <1>1 DEF IInv
  <2>2. Pending(d)' = Pending(d)
    BY <1>1 DEF Pending
  <2> QED
    BY <1>1, <1>2, <2>1, <2>2
    DEF Consistent, NewConsistent, KnotesConsistent, ChildConsistent,
        AnswerConsistent, FreedConsistent, PipesConsistent
<1>5. FailureNeedsCgi'
  BY <1>1 DEF FailureNeedsCgi, Running, Loss
<1> QED BY <1>3, <1>4, <1>5 DEF IInv

-----------------------------------------------------------------------------
(***************************************************************************)
(* The theorems.                                                           *)
(***************************************************************************)

\* Before the first connection everything is consistent.
LEMMA InitInv == Init => IInv
<1> SUFFICES ASSUME Init PROVE IInv
  OBVIOUS
<1>1. NewConn \in Conn
  BY DEF NewConn, Conn, PipeEnd
<1>2. TypeOK
  BY <1>1 DEF Init, TypeOK
<1>3. ASSUME NEW c \in Client
      PROVE  Consistent(life[c], conn[c], reg[c], child[c], Pending(c))
  BY <1>3 DEF Init, Consistent, NewConsistent, PipesConsistent, Pending
<1>4. FailureNeedsCgi
  BY DEF Init, FailureNeedsCgi, Loss
<1> QED BY <1>2, <1>3, <1>4 DEF IInv

\* One step of the loop or of a child, or none, keeps it that way.
LEMMA StepInv == IInv /\ [Next]_vars => IInv'
<1> SUFFICES ASSUME IInv, [Next]_vars PROVE IInv'
  OBVIOUS
<1>1. CASE UNCHANGED vars
  BY <1>1
  DEF vars, IInv, TypeOK, Running, FailureNeedsCgi, Pending
<1>2. CASE Poll
  BY <1>2, PollStep
<1>3. ASSUME NEW c \in Client, Handle(c)
      PROVE  IInv'
  BY <1>3, HandleStep
<1>4. ASSUME NEW c \in Client, ChildWrites(c) \/ ChildExits(c)
      PROVE  IInv'
  BY <1>4, ChildStep
<1> QED BY <1>1, <1>2, <1>3, <1>4 DEF Next

\* The inductive invariant holds for every set of connections, size of a batch,
\* misbehaviour of CGI programs and mix of requests.
THEOREM Invariant == Spec => []IInv
BY InitInv, StepInv, PTL DEF Spec

\* Every field of every Client, and of the loop, keeps its type.
THEOREM TypeCorrect == Spec => []TypeOK
<1>1. IInv => TypeOK
  BY DEF IInv
<1> QED BY <1>1, Invariant, PTL

\* Reading and writing alternate on every socket, whichever handler threw.
THEOREM EitherReadingOrWriting == Spec => []OneDirection
<1>1. IInv => OneDirection
  BY DEF IInv, OneDirection, Live, Consistent, KnotesConsistent
<1> QED BY <1>1, Invariant, PTL

\* The early returns of handleEvent leave no event of a deleted Client's socket,
\* timer or process to be handled.
THEOREM NoEventOfTheDead == Spec => []BatchFollowsLife
<1>1. IInv => BatchFollowsLife
  <2> SUFFICES ASSUME IInv, Running, NEW c \in Client, NEW f \in Knote,
                      <<c, f>> \in batch
               PROVE  /\ life[c] # "new"
                      /\ life[c] = "freed" => f \in {"pipeR", "pipeW", "lost"}
                      /\ f = "write" => "write" \in reg[c]
    BY DEF BatchFollowsLife
  <2>1. /\ Consistent(life[c], conn[c], reg[c], child[c], Pending(c))
        /\ f \in Pending(c) /\ f # "listen"
        /\ life[c] \in {"new", "live", "freed"}
    BY DEF IInv, TypeOK, Pending, Knote
  <2> QED
    BY <2>1 DEF Consistent, NewConsistent, KnotesConsistent, FreedConsistent, Pipes
<1> QED BY <1>1, Invariant, PTL

\* waitpid() in handleEndProcess finds its child already dead.
THEOREM NeverBlocksInWait == Spec => []WaitNeverBlocks
<1>1. IInv => WaitNeverBlocks
  <2> SUFFICES ASSUME IInv, Running, NEW c \in Client
               PROVE  /\ "proc" \in reg[c] => child[c] \notin {"none", "failed"}
                      /\ <<c, "proc">> \in batch => child[c] \in {"exit0", "exit1"}
    BY DEF WaitNeverBlocks
  <2>1. /\ Consistent(life[c], conn[c], reg[c], child[c], Pending(c))
        /\ <<c, "proc">> \in batch => "proc" \in Pending(c)
        /\ life[c] \in {"new", "live", "freed"}
    BY DEF IInv, TypeOK, Pending, Knote
  <2> QED
    BY <2>1 DEF Consistent, NewConsistent, KnotesConsistent, FreedConsistent, Pipes
<1> QED BY <1>1, Invariant, PTL

\* No child outlives the request it was started for.
THEOREM ChildrenEndWithTheirRequest == Spec => []NoChildBetweenRequests
<1>1. IInv => NoChildBetweenRequests
  BY DEF IInv, NoChildBetweenRequests, Live, Consistent, ChildConsistent
<1> QED BY <1>1, Invariant, PTL

\* handleRequest is never entered in the state CREATE.
THEOREM NeverRoutedAgain == Spec => []RoutedOnce
<1>1. IInv => RoutedOnce
  <2> SUFFICES ASSUME IInv, Running, NEW c \in Client, Live(c),
                      conn[c].phase = "CREATE", <<c, "read">> \in batch
               PROVE  FALSE
    BY DEF RoutedOnce
  <2>1. /\ Consistent(life[c], conn[c], reg[c], child[c], Pending(c))
        /\ "read" \in Pending(c)
    BY DEF IInv, Pending, Knote
  <2> QED BY <2>1 DEF Live, Consistent, ChildConsistent
<1> QED BY <1>1, Invariant, PTL

\* A Client asked to write has something to write, or is about to be given it
\* by a CGI whose output has not ended.
THEOREM NothingSentUnready == Spec => []AnswerReady
<1>1. IInv => AnswerReady
  BY DEF IInv, AnswerReady, Live, Consistent, AnswerConsistent
<1> QED BY <1>1, Invariant, PTL

\* Without CGI programs the loop is lost to accept() and malformed requests only.
THEOREM OnlyCgiEndangersTheLoop == Spec => []FailureNeedsCgi
<1>1. IInv => FailureNeedsCgi
  BY DEF IInv
<1> QED BY <1>1, Invariant, PTL

-----------------------------------------------------------------------------
(***************************************************************************)
(* Programs that behave.  Every handler is shown at once to keep the       *)
(* invariant WInv and to take a step of Conversation, or none.             *)
(***************************************************************************)

\* What a step of the loop is to show.
Kept == WInv' /\ [Promised!Next]_(Promised!vars)

\* The mapping, Client by Client.
PhaseOf(l, R) ==
  CASE l = "new" -> "unborn"
    [] l = "freed" -> "closed"
    [] OTHER -> IF "write" \in R THEN "answering" ELSE "receiving"

AnswerOf(l, k, R) ==
  IF l = "live" /\ "write" \in R /\ k.resp # "empty" THEN k.resp ELSE "none"

\* A step that maps to none.
LEMMA SameConversation ==
  ASSUME Running' = Running,
         \A d \in Client : PhaseOf(life[d], reg[d])' = PhaseOf(life[d], reg[d]),
         \A d \in Client : AnswerOf(life[d], conn[d], reg[d])'
                             = AnswerOf(life[d], conn[d], reg[d])
  PROVE  [Promised!Next]_(Promised!vars)
BY DEF Promised!vars, PhaseOf, AnswerOf, Live

\* What a step of one Client may do to its phase and its answer.
Allowed(p, a, p2, a2) ==
  \/ p = p2 /\ a = a2
  \/ p = "unborn" /\ p2 = "receiving" /\ a2 = "none"
  \/ p = "receiving" /\ p2 = "answering" /\ a2 \in {"page", "error", "none"}
  \/ p = "answering" /\ a = "none" /\ p2 = "answering" /\ a2 = "page"
  \/ p = "answering" /\ a # "none" /\ p2 = "receiving" /\ a2 = "none"
  \/ p \in {"receiving", "answering"} /\ p2 = "closed" /\ a2 = "none"

\* A step of one Client that does so is a step of its conversation.
LEMMA OneConversation ==
  ASSUME TypeOK, Running, Running', NEW c \in Client,
         NEW l, NEW k, NEW R,
         life' = [life EXCEPT ![c] = l],
         conn' = [conn EXCEPT ![c] = k],
         reg' = [reg EXCEPT ![c] = R],
         Allowed(PhaseOf(life[c], reg[c]), AnswerOf(life[c], conn[c], reg[c]),
                 PhaseOf(l, R), AnswerOf(l, k, R))
  PROVE  [Promised!Next]_(Promised!vars)
<1> DEFINE phase == [d \in Client |-> PhaseOf(life[d], reg[d])]
           answer == [d \in Client |-> AnswerOf(life[d], conn[d], reg[d])]
           p == PhaseOf(l, R)
           a == AnswerOf(l, k, R)
<1>1. /\ life'[c] = l /\ conn'[c] = k /\ reg'[c] = R
      /\ \A d \in Client \ {c} :
           life'[d] = life[d] /\ conn'[d] = conn[d] /\ reg'[d] = reg[d]
  BY DEF TypeOK
<1>2. phase' = [phase EXCEPT ![c] = p] /\ answer' = [answer EXCEPT ![c] = a]
  <2>1. /\ phase' = [d \in Client |-> PhaseOf(life'[d], reg'[d])]
        /\ answer' = [d \in Client |-> AnswerOf(life'[d], conn'[d], reg'[d])]
    BY DEF PhaseOf, AnswerOf
  <2>2. /\ phase = [d \in Client |-> PhaseOf(life[d], reg[d])]
        /\ answer = [d \in Client |-> AnswerOf(life[d], conn[d], reg[d])]
    OBVIOUS
  <2>3. ASSUME NEW d \in Client
        PROVE  /\ PhaseOf(life'[d], reg'[d])
                    = IF d = c THEN p ELSE PhaseOf(life[d], reg[d])
               /\ AnswerOf(life'[d], conn'[d], reg'[d])
                    = IF d = c THEN a ELSE AnswerOf(life[d], conn[d], reg[d])
    <3>1. CASE d = c
      BY <1>1, <3>1
    <3>2. CASE d # c
      BY <1>1, <3>2
    <3> QED BY <3>1, <3>2
  <2> HIDE DEF phase, answer, p, a
  <2> QED BY <2>1, <2>2, <2>3
<1>3. phase[c] = PhaseOf(life[c], reg[c])
      /\ answer[c] = AnswerOf(life[c], conn[c], reg[c])
  OBVIOUS
<1>4. CASE phase[c] = p /\ answer[c] = a
  <2>1. \A d \in Client : /\ PhaseOf(life[d], reg[d])' = PhaseOf(life[d], reg[d])
                          /\ AnswerOf(life[d], conn[d], reg[d])'
                               = AnswerOf(life[d], conn[d], reg[d])
    BY <1>1, <1>4 DEF PhaseOf, AnswerOf
  <2> QED BY <2>1, SameConversation
<1>5. ASSUME \/ phase[c] = "unborn" /\ p = "receiving" /\ a = "none"
             \/ phase[c] = "receiving" /\ p = "answering" /\ a \in {"page", "error", "none"}
             \/ phase[c] = "answering" /\ answer[c] = "none" /\ p = "answering" /\ a = "page"
             \/ phase[c] = "answering" /\ answer[c] # "none" /\ p = "receiving" /\ a = "none"
             \/ phase[c] \in {"receiving", "answering"} /\ p = "closed" /\ a = "none"
      PROVE  Promised!Next
  <2>1. /\ Promised!Accept(c) <=> phase[c] = "unborn" /\ Promised!Move(c, "receiving", "none")
        /\ Promised!Supply(c) <=> /\ phase[c] = "answering" /\ answer[c] = "none"
                                  /\ Promised!Move(c, "answering", "page")
        /\ Promised!Complete(c) <=> /\ phase[c] = "answering" /\ answer[c] # "none"
                                    /\ Promised!Move(c, "receiving", "none")
        /\ Promised!Close(c) <=> /\ phase[c] \in {"receiving", "answering"}
                                 /\ Promised!Move(c, "closed", "none")
        /\ Promised!Announce(c) <=>
             /\ phase[c] = "receiving"
             /\ \E b \in {"page", "error", "none"} : Promised!Move(c, "answering", b)
    BY DEF Promised!Accept, Promised!Supply, Promised!Complete, Promised!Close,
           Promised!Announce, Promised!Answer, PhaseOf, AnswerOf, Live
  <2>2. Promised!Move(c, p, a)
    <3> HIDE DEF p, a
    <3> QED BY <1>2 DEF Promised!Move, PhaseOf, AnswerOf, Live
  <2> HIDE DEF p, a, phase, answer
  <2>3. Promised!Accept(c) \/ Promised!Supply(c) \/ Promised!Complete(c)
        \/ Promised!Close(c) \/ Promised!Announce(c)
    BY <1>5, <2>1, <2>2
  <2> QED BY <2>3 DEF Promised!Next
<1> QED BY <1>3, <1>4, <1>5 DEF Allowed
-----------------------------------------------------------------------------
(***************************************************************************)
(* One Client changes, the others keep what they had.                      *)
(***************************************************************************)

\* Taking events out of the batch leaves a Client well-behaved.
LEMMA FewerEventsFit ==
  ASSUME NEW k, NEW R, NEW ch, NEW B, NEW o, NEW B2, B2 \subseteq B,
         WellBehaved(k, R, ch, B, o)
  PROVE  WellBehaved(k, R, ch, B2, o)
BY DEF WellBehaved, EventsFit

\* Only the events, the child and the output of Client c may have changed.
OthersKept(c) ==
  /\ batch' \subseteq batch
  /\ \A d \in Client \ {c} : child'[d] = child[d] /\ out'[d] = out[d]

\* The handler of one Client that leaves it well-behaved, or dead.
LEMMA OneClientKept ==
  ASSUME IInv, WInv, Running, Running', NEW c \in Client,
         NEW l \in {"live", "freed"}, NEW k, NEW R,
         life' = [life EXCEPT ![c] = l],
         conn' = [conn EXCEPT ![c] = k],
         reg' = [reg EXCEPT ![c] = R],
         OthersKept(c),
         l = "live" => WellBehaved(k, R, child'[c], Pending(c)', out'[c]),
         l = "freed" => R \subseteq {"pipeR"},
         Allowed(PhaseOf(life[c], reg[c]), AnswerOf(life[c], conn[c], reg[c]),
                 PhaseOf(l, R), AnswerOf(l, k, R))
  PROVE  Kept
<1>1. TypeOK
  BY DEF IInv
<1>2. [Promised!Next]_(Promised!vars)
  BY <1>1, OneConversation
<1>3. NoSigPipe'
  BY DEF Running, NoSigPipe
<1>4. ASSUME NEW d \in Client, Live(d)'
      PROVE  WellBehaved(conn[d], reg[d], child[d], Pending(d), out[d])'
  <2>1. CASE d = c
    <3>1. life'[c] = l /\ conn'[c] = k /\ reg'[c] = R /\ l = "live"
      BY <1>1, <1>4, <2>1 DEF TypeOK, Live
    <3> QED BY <2>1, <3>1
  <2>2. CASE d # c
    <3>1. /\ life'[d] = life[d] /\ conn'[d] = conn[d] /\ reg'[d] = reg[d]
          /\ child'[d] = child[d] /\ out'[d] = out[d]
      BY <1>1, <2>2 DEF TypeOK, OthersKept
    <3>2. Pending(d)' \subseteq Pending(d)
      BY DEF Pending, OthersKept
    <3>3. WellBehaved(conn[d], reg[d], child[d], Pending(d), out[d])
      BY <1>4, <3>1 DEF WInv, Live
    <3>4. WellBehaved(conn[d], reg[d], child[d], Pending(d)', out[d])
      BY <3>2, <3>3, FewerEventsFit
    <3> QED BY <3>1, <3>4
  <2> QED BY <2>1, <2>2
<1>5. ASSUME NEW d \in Client, life'[d] = "freed"
      PROVE  reg'[d] \subseteq {"pipeR"}
  <2>1. CASE d = c
    BY <1>1, <1>5, <2>1 DEF TypeOK
  <2>2. CASE d # c
    <3>1. life'[d] = life[d] /\ reg'[d] = reg[d]
      BY <1>1, <2>2 DEF TypeOK
    <3> QED BY <1>5, <3>1 DEF WInv
  <2> QED BY <2>1, <2>2
<1> QED BY <1>2, <1>3, <1>4, <1>5 DEF Kept, WInv

\* The handler of one Client that lost the loop, not to SIGPIPE.
LEMMA LossKept ==
  ASSUME Running, NEW how \in Loss \ {"killed"}, Lose(how)
  PROVE  Kept
<1>1. ~Running' /\ NoSigPipe'
  BY DEF Lose, Loss, Running, NoSigPipe
<1>2. WInv'
  BY <1>1 DEF WInv
<1>3. Promised!Stop
  BY <1>1 DEF Promised!Stop, Lose, Live
<1>4. Promised!Next
  BY <1>3 DEF Promised!Next
<1> QED BY <1>2, <1>4 DEF Kept

\* What is known of the Client whose event is handled.
LEMMA LiveWell ==
  ASSUME IInv, WInv, Running, NEW c \in Client, Live(c)
  PROVE  /\ WellBehaved(conn[c], reg[c], child[c], Pending(c), out[c])
         /\ Consistent("live", conn[c], reg[c], child[c], Pending(c))
         /\ conn[c] \in Conn /\ reg[c] \in SUBSET Knote
         /\ child[c] \in ChildState
         /\ "timer" \in reg[c] /\ reg[c] \cup {"timer"} = reg[c]
         /\ ("read" \in reg[c]) # ("write" \in reg[c])
         /\ "read" \in reg[c] => conn[c].code = "ok"
BY LiveFacts DEF WInv, Consistent, KnotesConsistent, WellBehaved, AnswerWhole

\* A handler that ran to its end: while the answer is awaited it may become
\* known, while it is sent it stays what it was, unless it was still to come.
LEMMA UpdateKept ==
  ASSUME IInv, WInv, Running, NEW c \in Client, Live(c),
         NEW k \in Conn, NEW R, Update(c, k, R), OthersKept(c),
         WellBehaved(k, R, child'[c], Pending(c)', out'[c]),
         "write" \in reg[c] /\ "write" \in R =>
           k.resp = conn[c].resp \/ (conn[c].resp = "empty" /\ k.resp = "page"),
         "write" \in reg[c] /\ "write" \notin R => conn[c].resp # "empty"
  PROVE  Kept
<1>1. life' = [life EXCEPT ![c] = "live"] /\ Running'
  BY DEF IInv, TypeOK, Update, Live, Running
<1>2. k.resp \in {"empty", "page", "error"} /\ conn[c].resp # "none"
  BY DEF WellBehaved, AnswerWhole, Conn, IInv, TypeOK
<1>3. Allowed(PhaseOf(life[c], reg[c]), AnswerOf(life[c], conn[c], reg[c]),
              PhaseOf("live", R), AnswerOf("live", k, R))
  BY <1>2 DEF Allowed, PhaseOf, AnswerOf, Live
<1> QED BY <1>1, <1>3, OneClientKept DEF Update

\* A handler that threw: the error page of a Client that was reading, or the end
\* of the loop.
LEMMA RaiseKept ==
  ASSUME IInv, WInv, Running, NEW c \in Client, Live(c),
         NEW k \in Conn, NEW R, NEW code \in ErrorCode,
         handleError(c, code, k, R), OthersKept(c),
         "read" \in R =>
           /\ "read" \in reg[c]
           /\ WellBehaved([k EXCEPT !.code = code, !.resp = "error"],
                          (R \ {"read"}) \cup {"write"},
                          child'[c], Pending(c)', out'[c])
  PROVE  Kept
<1> DEFINE k2 == [k EXCEPT !.code = code, !.resp = "error"]
           R2 == (R \ {"read"}) \cup {"write"}
<1>1. CASE "read" \in R /\ Update(c, k2, R2)
  <2>1. k2 \in Conn
    BY DEF Conn, ErrorCode
  <2>2. "write" \notin reg[c]
    BY <1>1, LiveWell
  <2> QED BY <1>1, <2>1, <2>2, UpdateKept
<1>2. CASE Lose("restarted")
  BY <1>2, LossKept DEF Loss
<1> QED BY <1>1, <1>2 DEF handleError
-----------------------------------------------------------------------------
(***************************************************************************)
(* Answering a request that no CGI has to do with yet.                     *)
(***************************************************************************)

\* A Client with no pipe about is well-behaved if its answer is.
LEMMA QuietWell ==
  ASSUME NEW k, NEW R, NEW ch, NEW B, NEW o,
         "pipeR" \notin R, "pipeW" \notin R, "lost" \notin R,
         "pipeR" \notin B, "pipeW" \notin B, "read" \notin B,
         ch # "exit1", AnswerWhole(k, R),
         k.phase = "DONE" /\ k.method = "POST" /\ k.code = "ok" => k.whole
  PROVE  WellBehaved(k, R, ch, B, o)
BY DEF WellBehaved, OutputRead, InputWritten, EventsFit

\* The read event of Client c is handled: k and R are what the handlers so far
\* have made of the fields and the knotes, and nothing has been answered.
Fresh(c, k, R) ==
  /\ k \in Conn /\ R \in SUBSET Knote
  /\ "read" \in reg[c] /\ "read" \in R /\ "lost" \notin R
  /\ \A f \in {"pipeR", "pipeW", "write"} : f \notin R /\ f \notin Pending(c)
  /\ child[c] = "none"
  /\ k.code = "ok" /\ k.buf = "empty" /\ k.resp = "empty" /\ ~k.begun

\* The step of the read event, but for what it does to Client c.
ReadStep(c, ch) ==
  /\ batch' \subseteq batch \ {<<c, "read">>}
  /\ child' = [child EXCEPT ![c] = ch]
  /\ out' \in {out, [out EXCEPT ![c] = FALSE]}

\* What follows for the invariant.
LEMMA ReadStepKept ==
  ASSUME IInv, NEW c \in Client, NEW ch, ReadStep(c, ch)
  PROVE  /\ OthersKept(c) /\ child'[c] = ch
         /\ Pending(c)' \subseteq Pending(c) \ {"read"}
         /\ out'[c] \in {out[c], FALSE}
BY DEF ReadStep, OthersKept, Pending, IInv, TypeOK

\* Most of these handlers leave processes and pipes alone.
LEMMA PlainReadStep ==
  ASSUME IInv, NEW c \in Client, Handled(c, "read"), UNCHANGED <<child, out>>
  PROVE  ReadStep(c, child[c])
BY DEF ReadStep, Handled, IInv, TypeOK

\* An error page is all there is.
LEMMA FreshRaised ==
  ASSUME IInv, WInv, Running, NEW c \in Client, Live(c),
         NEW k0, NEW R0, Fresh(c, k0, R0),
         NEW k \in Conn, NEW R, NEW code \in ErrorCode,
         handleError(c, code, k, R),
         "pipeR" \notin R, "pipeW" \notin R, "lost" \notin R,
         k.buf # "junk", Untouched(k) => k.buf = "empty",
         NEW ch \in ChildState \ {"exit1"}, ReadStep(c, ch)
  PROVE  Kept
<1> DEFINE k2 == [k EXCEPT !.code = code, !.resp = "error"]
           R2 == (R \ {"read"}) \cup {"write"}
<1>1. /\ k2.phase = k.phase /\ k2.method = k.method /\ k2.whole = k.whole
      /\ k2.buf = k.buf /\ k2.resp = "error" /\ k2.code # "ok"
  BY DEF Conn, ErrorCode
<1>2. AnswerWhole(k2, R2)
  BY <1>1 DEF AnswerWhole, Untouched
<1>3. /\ \A f \in {"pipeR", "pipeW", "read"} : f \notin Pending(c)'
      /\ child'[c] # "exit1" /\ "read" \in reg[c]
      /\ "pipeR" \notin R2 /\ "pipeW" \notin R2 /\ "lost" \notin R2
  BY ReadStepKept DEF Fresh
<1> HIDE DEF k2, R2
<1>4. WellBehaved(k2, R2, child'[c], Pending(c)', out'[c])
  BY <1>1, <1>2, <1>3, QuietWell
<1> QED BY <1>3, <1>4, ReadStepKept, RaiseKept DEF k2, R2

\* Starting the CGI child of a GET.
LEMMA FreshGetCgi ==
  ASSUME IInv, WInv, Running, NEW c \in Client, Live(c), NEW k, NEW R,
         Fresh(c, k, R), k.phase = "DONE", k.method = "script", k.whole,
         handleGetCgi(c, k, R)
  PROVE  Kept
<1> DEFINE k2 == [k EXCEPT !.rd = "open"]
           R2 == R \cup {"proc", "pipeR"}
<1>1. NewPipe(R, "pipeR") = R
  BY DEF NewPipe, Fresh
<1>2. /\ k2 \in Conn /\ k2.rd = "open" /\ k2.phase = "DONE"
      /\ k2.method = "script" /\ k2.whole /\ k2.code = "ok"
      /\ k2.buf = "empty" /\ k2.resp = "empty" /\ ~k2.begun
  BY DEF Fresh, Conn, PipeEnd
<1>3. "error" \in ErrorCode /\ {"none", "failed", "running"} \subseteq ChildState \ {"exit1"}
  BY DEF ErrorCode, ChildState
<1>4. CASE handleError(c, "error", k, R) /\ Handled(c, "read")
           /\ UNCHANGED <<child, out>>
  BY <1>3, <1>4, PlainReadStep, FreshRaised DEF Fresh, Untouched
<1>5. CASE /\ batch' = batch \ {<<c, "read">>, <<c, "pipeR">>}
           /\ out' = [out EXCEPT ![c] = FALSE]
           /\ \/ /\ child' = [child EXCEPT ![c] = "failed"]
                 /\ handleError(c, "error", k2, R)
              \/ /\ child' = [child EXCEPT ![c] = "running"]
                 /\ \/ Update(c, k2, R2)
                    \/ handleError(c, "error", k2, R)
  <2>1. ASSUME NEW ch \in {"failed", "running"},
               child' = [child EXCEPT ![c] = ch], handleError(c, "error", k2, R)
        PROVE  Kept
    <3>1. ReadStep(c, ch)
      BY <1>5, <2>1 DEF ReadStep
    <3> QED BY <1>2, <1>3, <2>1, <3>1, FreshRaised DEF Fresh
  <2>2. CASE child' = [child EXCEPT ![c] = "running"] /\ Update(c, k2, R2)
    <3>1. ReadStep(c, "running")
      BY <1>5, <2>2 DEF ReadStep
    <3>2. WellBehaved(k2, R2, child'[c], Pending(c)', out'[c])
      <4>1. /\ \A f \in {"pipeR", "pipeW", "read"} : f \notin Pending(c)'
            /\ child'[c] = "running" /\ "pipeW" \notin R2 /\ "lost" \notin R2
        BY <3>1, ReadStepKept DEF Fresh
      <4> HIDE DEF k2, R2
      <4> QED
        BY <1>2, <4>1
        DEF WellBehaved, OutputRead, InputWritten, EventsFit, AnswerWhole, Untouched
    <3>3. "write" \notin reg[c]
      BY LiveWell DEF Fresh
    <3> QED BY <1>2, <2>2, <3>1, <3>2, <3>3, ReadStepKept, UpdateKept
  <2> QED BY <1>5, <2>1, <2>2
<1> QED BY <1>1, <1>4, <1>5 DEF handleGetCgi

\* A page from a file, or the confirmation of a DELETE, is one answer.
LEMMA FreshPage ==
  ASSUME IInv, WInv, Running, NEW c \in Client, Live(c), NEW k, NEW R,
         Fresh(c, k, R), k.phase = "DONE", k.whole, k.method # "POST",
         readyToSend(c, pushBuffer(k), R) \/ handleError(c, "error", pushBuffer(k), R),
         Handled(c, "read"), UNCHANGED <<child, out>>
  PROVE  Kept
<1> DEFINE k2 == pushBuffer(k)
           R2 == (R \ {"read"}) \cup {"write"}
<1>1. /\ k2 \in Conn /\ k2.phase = "DONE" /\ k2.whole /\ k2.method = k.method
      /\ k2.code = "ok" /\ k2.buf = "text" /\ k2.resp = "page"
  BY DEF Fresh, pushBuffer, Conn
<1>2. ReadStep(c, "none") /\ "none" \in ChildState \ {"exit1"}
  BY PlainReadStep DEF Fresh, ChildState
<1> HIDE DEF k2
<1>3. CASE handleError(c, "error", k2, R)
  BY <1>1, <1>2, <1>3, FreshRaised DEF Fresh, Untouched, ErrorCode
<1>4. CASE Update(c, k2, R2)
  <2>1. AnswerWhole(k2, R2)
    BY <1>1 DEF AnswerWhole, Untouched
  <2>2. WellBehaved(k2, R2, child'[c], Pending(c)', out'[c])
    BY <1>1, <1>2, <2>1, ReadStepKept, QuietWell DEF Fresh
  <2>3. "write" \notin reg[c]
    BY LiveWell DEF Fresh
  <2> QED BY <1>1, <1>2, <1>4, <2>2, <2>3, ReadStepKept, UpdateKept
<1>5. handleError(c, "error", k2, R) \/ Update(c, k2, R2)
  BY DEF readyToSend, k2, Fresh
<1> QED BY <1>3, <1>4, <1>5
-----------------------------------------------------------------------------
(***************************************************************************)
(* Collecting a body, and starting the child it is for.                    *)
(***************************************************************************)

\* The rest of the step of a read event: the body is collected into k.
Collected(c, k, R, ch) ==
  /\ ReadStep(c, ch)
  /\ k \in Conn /\ k.code = "ok" /\ k.phase = "DONE"
  /\ "read" \in reg[c] /\ "read" \in R
  /\ \A f \in {"pipeR", "pipeW"} : f \in Pending(c)' => f \in R
  /\ "read" \notin Pending(c)'
  /\ WellBehaved(k, R, child'[c], Pending(c)', out'[c])

\* More of the body is there, perhaps all of it; its pipe may be registered.
LEMMA MoreCollected ==
  ASSUME IInv, WInv, Running, NEW c \in Client, Live(c),
         NEW k, NEW R, NEW ch, Collected(c, k, R, ch),
         NEW some \in BOOLEAN, NEW end \in BOOLEAN, k.whole => end,
         NEW R2, R2 = R \/ (R2 = R \cup {"pipeW"} /\ k.method = "POST" /\ ~k.whole),
         Update(c, [k EXCEPT !.unsent = some, !.whole = end], R2)
  PROVE  Kept
<1> DEFINE k2 == [k EXCEPT !.unsent = some, !.whole = end]
<1>1. /\ k2 \in Conn /\ k2.phase = "DONE" /\ k2.method = k.method
      /\ k2.code = "ok" /\ k2.buf = k.buf /\ k2.resp = k.resp
      /\ k2.begun = k.begun /\ k2.rd = k.rd /\ k2.wr = k.wr
      /\ k.whole => k2.whole
  BY DEF Collected, Conn
<1>2. "write" \notin reg[c]
  BY LiveWell DEF Collected
<1> HIDE DEF k2
<1>3. WellBehaved(k2, R2, child'[c], Pending(c)', out'[c])
  BY <1>1
  DEF Collected, WellBehaved, OutputRead, InputWritten, EventsFit, AnswerWhole,
      Untouched
<1>4. Update(c, k2, R2)
  BY DEF k2
<1>5. OthersKept(c)
  BY ReadStepKept DEF Collected
<1> QED BY <1>1, <1>2, <1>3, <1>4, <1>5, UpdateKept

\* The body is refused before it is whole.
LEMMA CollectRaised ==
  ASSUME IInv, WInv, Running, NEW c \in Client, Live(c),
         NEW k, NEW R, NEW ch, Collected(c, k, R, ch), ~k.whole,
         NEW some \in BOOLEAN,
         handleError(c, "error", [k EXCEPT !.unsent = some], R)
  PROVE  Kept
<1> DEFINE k1 == [k EXCEPT !.unsent = some]
           k2 == [k1 EXCEPT !.code = "error", !.resp = "error"]
           R2 == (R \ {"read"}) \cup {"write"}
<1>1. /\ k1 \in Conn /\ k2.phase = "DONE" /\ k2.method = k.method
      /\ k2.code = "error" /\ k2.buf = k.buf /\ k2.resp = "error"
      /\ k2.begun = k.begun /\ k2.rd = k.rd /\ k2.wr = k.wr /\ k2.whole = k.whole
  BY DEF Collected, Conn
<1>2. "error" \in ErrorCode /\ "read" \in reg[c] /\ OthersKept(c)
  BY ReadStepKept DEF Collected, ErrorCode
<1>3. /\ \A f \in {"pipeR", "pipeW", "lost"} : f \in R2 <=> f \in R
      /\ "write" \in R2
  OBVIOUS
<1>4. WellBehaved(k2, R2, child'[c], Pending(c)', out'[c])
  <2> HIDE DEF k2, R2
  <2> QED
    BY <1>1, <1>3
    DEF Collected, WellBehaved, OutputRead, InputWritten, EventsFit, AnswerWhole,
        Untouched
<1> QED BY <1>1, <1>2, <1>4, RaiseKept

\* CollectBody, for every way in which the body may arrive.
LEMMA CollectKept ==
  ASSUME IInv, WInv, Running, NEW c \in Client, Live(c),
         NEW k, NEW R, NEW ch, Collected(c, k, R, ch), CollectBody(c, k, R)
  PROVE  Kept
<1>1. k \in Conn /\ k.whole \in BOOLEAN /\ k.unsent \in BOOLEAN
  BY DEF Collected, Conn
<1>2. CASE Update(c, k, R)
  <2>1. k = [k EXCEPT !.unsent = k.unsent, !.whole = k.whole]
    BY <1>1 DEF Conn
  <2>2. Update(c, [k EXCEPT !.unsent = k.unsent, !.whole = k.whole], R)
    BY <1>2, <2>1
  <2> QED BY <1>1, <2>2, MoreCollected
<1>3. CASE ~k.whole /\ parsingChunkedData(c, k, R)
  <2>1. PICK more \in BOOLEAN :
          \/ \E end \in BOOLEAN :
               Update(c, [k EXCEPT !.unsent = more, !.whole = end], R)
          \/ handleError(c, "error", [k EXCEPT !.unsent = more], R)
    BY <1>1, <1>3 DEF parsingChunkedData
  <2> QED BY <1>3, <2>1, MoreCollected, CollectRaised
<1>4. CASE ~k.whole /\ k.method = "POST" /\ handlePost(c, k, R)
  <2>1. PICK some \in BOOLEAN :
          \/ some /\ handleError(c, "error", [k EXCEPT !.unsent = some], R)
          \/ Update(c, [k EXCEPT !.unsent = some, !.whole = TRUE], R \cup {"pipeW"})
    BY <1>4, Zenon DEF handlePost
  <2> QED BY <1>4, <2>1, MoreCollected, CollectRaised
<1> QED BY <1>2, <1>3, <1>4 DEF CollectBody

\* Two pipes, the child, three knotes, and the body.
LEMMA FreshPostCgi ==
  ASSUME IInv, WInv, Running, NEW c \in Client, Live(c), NEW k, NEW R,
         Fresh(c, k, R), k.phase = "CREATE", k.method = "POST",
         handlePostCgi(c, k, R)
  PROVE  Kept
<1> DEFINE kw  == [k EXCEPT !.wr = "open"]
           kwr == [kw EXCEPT !.rd = "open"]
           kd  == [kwr EXCEPT !.phase = "DONE"]
           Rd  == R \cup {"proc", "pipeR", "pipeW"}
<1>1. NewPipe(R, "pipeW") = R /\ NewPipe(R, "pipeR") = R
  BY DEF NewPipe, Fresh
<1>2. \/ /\ handleError(c, "error", k, R) /\ Handled(c, "read")
         /\ UNCHANGED <<child, out>>
      \/ /\ handleError(c, "error", kw, R)
         /\ batch' = batch \ {<<c, "read">>, <<c, "pipeW">>}
         /\ UNCHANGED <<child, out>>
      \/ /\ batch' = batch \ {<<c, "read">>, <<c, "pipeR">>, <<c, "pipeW">>}
         /\ out' = [out EXCEPT ![c] = FALSE]
         /\ \/ /\ child' = [child EXCEPT ![c] = "failed"]
               /\ handleError(c, "error", kwr, R)
            \/ /\ child' = [child EXCEPT ![c] = "running"]
               /\ \/ handleError(c, "error", kwr, R)
                  \/ CollectBody(c, kd, Rd)
  BY <1>1, Zenon DEF handlePostCgi
<1>3. /\ k \in Conn /\ kw \in Conn /\ kwr \in Conn
      /\ k.buf = "empty" /\ kw.buf = "empty" /\ kwr.buf = "empty"
      /\ "pipeR" \notin R /\ "pipeW" \notin R /\ "lost" \notin R /\ "error" \in ErrorCode
      /\ {"none", "failed", "running"} \subseteq ChildState \ {"exit1"}
  BY DEF Fresh, Conn, PipeEnd, ErrorCode, ChildState
<1>4. /\ kd \in Conn /\ kd.phase = "DONE" /\ kd.method = "POST"
      /\ kd.rd = "open" /\ kd.wr = "open" /\ kd.code = "ok"
      /\ kd.buf = "empty" /\ kd.resp = "empty" /\ ~kd.begun
  BY DEF Fresh, Conn, PipeEnd
<1> HIDE DEF kw, kwr, kd
<1>5. CASE handleError(c, "error", k, R) /\ Handled(c, "read")
           /\ UNCHANGED <<child, out>>
  <2>1. ReadStep(c, "none")
    BY <1>5, PlainReadStep DEF Fresh
  <2> QED BY <1>3, <1>5, <2>1, FreshRaised
<1>6. CASE /\ handleError(c, "error", kw, R)
           /\ batch' = batch \ {<<c, "read">>, <<c, "pipeW">>}
           /\ UNCHANGED <<child, out>>
  <2>1. ReadStep(c, "none")
    BY <1>6 DEF Fresh, ReadStep, IInv, TypeOK
  <2> QED BY <1>3, <1>6, <2>1, FreshRaised
<1>7. ASSUME NEW ch \in {"failed", "running"},
             batch' = batch \ {<<c, "read">>, <<c, "pipeR">>, <<c, "pipeW">>},
             out' = [out EXCEPT ![c] = FALSE],
             child' = [child EXCEPT ![c] = ch],
             handleError(c, "error", kwr, R)
      PROVE  Kept
  <2>1. ReadStep(c, ch)
    BY <1>7 DEF ReadStep
  <2> QED BY <1>3, <1>7, <2>1, FreshRaised
<1>8. CASE /\ batch' = batch \ {<<c, "read">>, <<c, "pipeR">>, <<c, "pipeW">>}
           /\ out' = [out EXCEPT ![c] = FALSE]
           /\ child' = [child EXCEPT ![c] = "running"]
           /\ CollectBody(c, kd, Rd)
  <2>1. ReadStep(c, "running")
    BY <1>8 DEF ReadStep
  <2>2. /\ \A f \in {"pipeR", "pipeW", "read"} : f \notin Pending(c)'
        /\ child'[c] = "running"
    BY <2>1, ReadStepKept DEF Fresh
  <2>3. WellBehaved(kd, Rd, child'[c], Pending(c)', out'[c])
    <3>1. "lost" \notin Rd
      BY DEF Fresh
    <3> QED
      BY <1>4, <2>2, <3>1
      DEF WellBehaved, OutputRead, InputWritten, EventsFit, AnswerWhole, Untouched
  <2>4. Collected(c, kd, Rd, "running")
    BY <1>4, <2>1, <2>2, <2>3 DEF Fresh, Collected
  <2> QED BY <1>8, <2>4, CollectKept
<1> QED BY <1>2, <1>5, <1>6, <1>7, <1>8
-----------------------------------------------------------------------------
(***************************************************************************)
(* The read event.                                                         *)
(***************************************************************************)

\* A Client that reads and has no pipe registered has none reported either.
LEMMA NoPipes ==
  ASSUME IInv, WInv, Running, NEW c \in Client, Live(c),
         "read" \in Pending(c), "read" \in reg[c], Untouched(conn[c])
  PROVE  Fresh(c, conn[c], reg[c])
<1>1. conn[c].code = "ok" /\ "write" \notin reg[c]
  BY LiveWell
<1>2. child[c] = "none"
  BY LiveWell DEF Consistent, ChildConsistent, Untouched
<1>3. "pipeR" \notin reg[c] /\ "pipeW" \notin reg[c] /\ "lost" \notin reg[c]
  BY <1>2, LiveWell DEF WellBehaved, OutputRead, InputWritten, Untouched
<1>4. \A f \in {"pipeR", "pipeW", "write"} : f \notin Pending(c)
  BY <1>1, <1>3, LiveWell
  DEF WellBehaved, EventsFit, Consistent, KnotesConsistent
<1>5. conn[c].buf = "empty" /\ conn[c].resp = "empty" /\ ~conn[c].begun
  BY <1>1, LiveWell DEF WellBehaved, AnswerWhole
<1> QED BY <1>1, <1>2, <1>3, <1>4, <1>5, LiveWell DEF Fresh

\* Nothing has changed but that the event has been handled.
LEMMA SameKept ==
  ASSUME IInv, WInv, Running, NEW c \in Client, Live(c),
         Update(c, conn[c], reg[c]), batch' \subseteq batch,
         UNCHANGED <<child, out>>
  PROVE  Kept
<1>1. Pending(c)' \subseteq Pending(c) /\ OthersKept(c)
  BY DEF Pending, OthersKept
<1>2. WellBehaved(conn[c], reg[c], child'[c], Pending(c)', out'[c])
  BY <1>1, LiveWell, FewerEventsFit
<1> QED BY <1>1, <1>2, LiveWell, UpdateKept

\* A chunked GET or DELETE, or one that was just routed.
LEMMA FreshResponse ==
  ASSUME IInv, WInv, Running, NEW c \in Client, Live(c), NEW k, NEW R,
         Fresh(c, k, R), k.phase = "DONE", k.method # "POST",
         handleResponse(c, k, R)
  PROVE  Kept
<1> DEFINE k2 == [k EXCEPT !.whole = TRUE]
<1>1. CASE CollectBody(c, k, R) /\ Handled(c, "read") /\ UNCHANGED <<child, out>>
  <2>1. ReadStep(c, child[c])
    BY <1>1, PlainReadStep
  <2>2. /\ \A f \in {"pipeR", "pipeW", "read"} : f \notin Pending(c)'
        /\ child'[c] = "none"
    BY <2>1, ReadStepKept DEF Fresh
  <2>3. AnswerWhole(k, R)
    BY DEF Fresh, AnswerWhole
  <2>4. WellBehaved(k, R, child'[c], Pending(c)', out'[c])
    BY <2>2, <2>3, QuietWell DEF Fresh
  <2>5. Collected(c, k, R, child[c])
    BY <2>1, <2>2, <2>4 DEF Fresh, Collected
  <2> QED BY <1>1, <2>5, CollectKept
<1>2. /\ Fresh(c, k2, R) /\ k2.phase = "DONE" /\ k2.whole
      /\ k2.method = k.method
  BY DEF Fresh, Conn
<1> HIDE DEF k2
<1>3. CASE k.method \in {"file", "script"} /\ handleGet(c, k2, R)
  <2>1. CASE handleGetCgi(c, k2, R) /\ k2.method = "script"
    BY <1>2, <2>1, FreshGetCgi
  <2>2. CASE /\ readyToSend(c, pushBuffer(k2), R)
             /\ Handled(c, "read") /\ UNCHANGED <<child, out>>
    BY <1>2, <2>2, FreshPage
  <2>3. CASE /\ handleError(c, "error", k2, R)
             /\ Handled(c, "read") /\ UNCHANGED <<child, out>>
    <3>1. ReadStep(c, "none") /\ "none" \in ChildState \ {"exit1"}
      BY <2>3, PlainReadStep DEF Fresh, ChildState
    <3> QED BY <1>2, <2>3, <3>1, FreshRaised DEF Fresh, ErrorCode
  <2>4. CASE Lose("garbled")
    BY <2>4, LossKept DEF Loss
  <2> QED BY <1>3, <2>1, <2>2, <2>3, <2>4 DEF handleGet
<1>4. CASE k.method = "DELETE" /\ handleDelete(c, k2, R)
  BY <1>2, <1>4, FreshPage DEF handleDelete
<1> QED BY <1>1, <1>3, <1>4 DEF handleResponse, k2

\* Routing and starting a request.
LEMMA FreshStart ==
  ASSUME IInv, WInv, Running, NEW c \in Client, Live(c), NEW k, NEW R,
         Fresh(c, k, R), k.phase = "CREATE", startRequest(c, k, R)
  PROVE  Kept
<1>1. CASE /\ \E code \in ErrorCode : handleError(c, code, k, R)
           /\ Handled(c, "read") /\ UNCHANGED <<child, out>>
  <2>1. ReadStep(c, "none") /\ "none" \in ChildState \ {"exit1"}
    BY <1>1, PlainReadStep DEF Fresh, ChildState
  <2> QED BY <1>1, <2>1, FreshRaised DEF Fresh
<1>2. CASE k.method = "POST" /\ handlePostCgi(c, k, R)
  BY <1>2, FreshPostCgi
<1>3. CASE k.method # "POST" /\ handleResponse(c, [k EXCEPT !.phase = "DONE"], R)
  <2> DEFINE kd == [k EXCEPT !.phase = "DONE"]
  <2>1. Fresh(c, kd, R) /\ kd.phase = "DONE" /\ kd.method = k.method
    BY DEF Fresh, Conn
  <2> QED BY <1>3, <2>1, FreshResponse
<1> QED BY <1>1, <1>2, <1>3 DEF startRequest

\* Request::handleRequest in each of its states.
LEMMA RequestKept ==
  ASSUME IInv, WInv, Running, NEW c \in Client, Live(c),
         <<c, "read">> \in batch, handleRequest(c, conn[c], reg[c])
  PROVE  Kept
<1> DEFINE k == conn[c]
           R == reg[c]
<1>1. "read" \in Pending(c)
  BY DEF Pending, Knote
<1>2. k \in Conn /\ k.whole \in BOOLEAN
  BY LiveWell DEF Conn
<1>3. k.phase # "CREATE"
  BY <1>1, LiveWell DEF Consistent, ChildConsistent
<1>4. CASE k.phase = "READY"
  <2>1. Untouched(k)
    BY <1>4 DEF Untouched
  <2>2. "read" \in reg[c]
    BY <1>1, <1>4, LiveWell DEF WellBehaved, EventsFit
  <2>3. Fresh(c, k, R)
    BY <1>1, <2>1, <2>2, NoPipes
  <2>4. parsingHeader(c, k, R)
    BY <1>4 DEF handleRequest
  <2>5. CASE Update(c, k, R) /\ Handled(c, "read") /\ UNCHANGED <<child, out>>
    BY <2>5, SameKept DEF Handled
  <2>6. CASE /\ \E code \in ErrorCode : handleError(c, code, k, R)
             /\ Handled(c, "read") /\ UNCHANGED <<child, out>>
    <3>1. ReadStep(c, "none") /\ "none" \in ChildState \ {"exit1"}
      BY <2>3, <2>6, PlainReadStep DEF Fresh, ChildState
    <3> QED BY <2>3, <2>6, <3>1, FreshRaised DEF Fresh
  <2>7. CASE Lose("garbled")
    BY <2>7, LossKept DEF Loss
  <2>8. ASSUME NEW ask \in Asks[c],
               startRequest(c, [k EXCEPT !.phase = "CREATE", !.method = ask[1],
                                         !.chunked = ask[2]], R)
        PROVE  Kept
    <3> DEFINE k2 == [k EXCEPT !.phase = "CREATE", !.method = ask[1],
                               !.chunked = ask[2]]
    <3>1. ask[1] \in Target /\ ask[2] \in BOOLEAN
      BY AsksAssumption
    <3>2. Fresh(c, k2, R) /\ k2.phase = "CREATE"
      BY <1>2, <2>3, <3>1 DEF Fresh, Conn
    <3> QED BY <2>8, <3>2, FreshStart
  <2> QED BY <2>4, <2>5, <2>6, <2>7, <2>8 DEF parsingHeader
<1>5. CASE k.phase = "DONE"
  <2>1. handleResponse(c, k, R)
    BY <1>5 DEF handleRequest
  <2>2. CASE k.whole
    BY <2>1, <2>2, SameKept DEF handleResponse, CollectBody, Handled
  <2>3. CASE ~k.whole
    <3>1. "read" \in reg[c]
      BY <1>1, <2>3, LiveWell DEF WellBehaved, EventsFit
    <3>2. CASE k.method # "POST"
      BY <1>1, <1>5, <2>1, <2>3, <3>1, <3>2, NoPipes, FreshResponse DEF Untouched
    <3>3. CASE k.method = "POST"
      <4>1. CollectBody(c, k, R) /\ Handled(c, "read") /\ UNCHANGED <<child, out>>
        BY <2>1, <3>3 DEF handleResponse
      <4>2. ReadStep(c, child[c])
        BY <4>1, PlainReadStep
      <4>3. WellBehaved(k, R, child'[c], Pending(c)', out'[c])
        BY <4>1, <4>2, LiveWell, ReadStepKept, FewerEventsFit
      <4>4. /\ \A f \in {"pipeR", "pipeW"} : f \in Pending(c)' => f \in R
            /\ "read" \notin Pending(c)'
        BY <1>1, <4>2, LiveWell, ReadStepKept DEF WellBehaved, EventsFit
      <4>5. k.code = "ok"
        BY <3>1, LiveWell
      <4>6. Collected(c, k, R, child[c])
        BY <1>2, <1>5, <3>1, <4>2, <4>3, <4>4, <4>5 DEF Collected
      <4> QED BY <4>1, <4>6, CollectKept
    <3> QED BY <3>2, <3>3
  <2> QED BY <1>2, <2>2, <2>3
<1>6. k.phase \in {"READY", "CREATE", "DONE"}
  BY <1>2 DEF Conn
<1> QED BY <1>3, <1>4, <1>5, <1>6
-----------------------------------------------------------------------------
(***************************************************************************)
(* Cleaning up, and the other handlers.                                    *)
(***************************************************************************)

\* CleanUpClientResources closes the conversation, or loses the loop.
LEMMA CleanUpKept ==
  ASSUME IInv, WInv, Running, NEW c \in Client, Live(c),
         NEW k \in Conn, NEW R \in SUBSET Knote, NEW ch, NEW B, NEW o,
         WellBehaved(k, R, ch, B, o), Consistent("live", k, R, ch, B),
         CleanUpClientResources(c, k, R, ch)
  PROVE  Kept
<1> DEFINE k2 == IF ch = "none" THEN k ELSE closePipeFd(k)
           R2 == Registered(k2, R)
                   \ ({"read", "write", "timer"} \cup IF ch = "none" THEN {} ELSE {"proc"})
<1>1. \/ Lose("misdirected")
      \/ Lose("dangling")
      \/ /\ life' = [life EXCEPT ![c] = "freed"]
         /\ conn' = [conn EXCEPT ![c] = clearClient(k2)]
         /\ reg' = [reg EXCEPT ![c] = R2]
         /\ child' = [child EXCEPT ![c] = "none"]
         /\ out' = [out EXCEPT ![c] = FALSE]
         /\ UNCHANGED loop
  BY Zenon DEF CleanUpClientResources
<1>2. batch' = {}
  BY DEF CleanUpClientResources, Return
<1>3. CASE Lose("misdirected") \/ Lose("dangling")
  BY <1>3, LossKept DEF Loss
<1>4. CASE /\ life' = [life EXCEPT ![c] = "freed"]
           /\ conn' = [conn EXCEPT ![c] = clearClient(k2)]
           /\ reg' = [reg EXCEPT ![c] = R2]
           /\ child' = [child EXCEPT ![c] = "none"]
           /\ out' = [out EXCEPT ![c] = FALSE]
           /\ UNCHANGED loop
  <2>3. R2 \subseteq {"pipeR"}
    <3>1. /\ "lost" \notin R /\ ("proc" \in R => ch # "none")
          /\ "pipeW" \in R => ch # "none"
      BY DEF WellBehaved, InputWritten, Consistent, KnotesConsistent
    <3>2. ch # "none" => k2.wr # "open"
      BY ClosePipeFd
    <3> HIDE DEF k2
    <3> QED BY <3>1, <3>2 DEF Registered, Knote
  <2> HIDE DEF k2, R2
  <2>1. OthersKept(c) /\ Running'
    BY <1>2, <1>4 DEF OthersKept, IInv, TypeOK, Running
  <2>2. Allowed(PhaseOf(life[c], reg[c]), AnswerOf(life[c], conn[c], reg[c]),
                PhaseOf("freed", R2), AnswerOf("freed", clearClient(k2), R2))
    BY DEF Allowed, PhaseOf, AnswerOf, Live
  <2> QED BY <1>4, <2>1, <2>2, <2>3, OneClientKept
<1> QED BY <1>1, <1>3, <1>4

\* So does cleaning up before anything else was done with the Client.
LEMMA TornDown ==
  ASSUME IInv, WInv, Running, NEW c \in Client, Live(c),
         CleanUpClientResources(c, conn[c], reg[c], child[c])
  PROVE  Kept
<1> DEFINE B == Pending(c)
           o == out[c]
<1>1. /\ conn[c] \in Conn /\ reg[c] \in SUBSET Knote
      /\ WellBehaved(conn[c], reg[c], child[c], B, o)
      /\ Consistent("live", conn[c], reg[c], child[c], B)
  BY LiveWell
<1> HIDE DEF B, o
<1> QED BY <1>1, CleanUpKept

\* What Client::sendData does once no child is left: k and R are as before, or
\* as the killing of the child left them.
LEMMA SentKept ==
  ASSUME IInv, WInv, Running, NEW c \in Client, Live(c),
         NEW k \in Conn, NEW R \in SUBSET Knote, "write" \in reg[c], "write" \in R,
         WellBehaved(k, R, "none", Pending(c) \ {"write"}, TRUE),
         Consistent("live", k, R, "none", Pending(c) \ {"write"}),
         k.resp = conn[c].resp, sent(c, k, R, "none")
  PROVE  Kept
<1>1. CASE CleanUpClientResources(c, k, R, "none")
  <2> DEFINE B == Pending(c) \ {"write"}
  <2>1. WellBehaved(k, R, "none", B, TRUE) /\ Consistent("live", k, R, "none", B)
    OBVIOUS
  <2> HIDE DEF B
  <2> QED BY <1>1, <2>1, CleanUpKept
<1>2. CASE /\ k.resp # "empty"
           /\ \/ Update(c, [k EXCEPT !.begun = TRUE], R)
              \/ Update(c, clearClient(k), (R \ {"write"}) \cup {"read"})
              \/ Lose("garbled")
           /\ Handled(c, "write")
           /\ child' = [child EXCEPT ![c] = "none"]
           /\ out' = [out EXCEPT ![c] = ("none" = child[c]) /\ @]
  <2>1. /\ OthersKept(c) /\ Pending(c)' = Pending(c) \ {"write"}
        /\ child'[c] = "none"
    BY <1>2 DEF Handled, Pending, OthersKept, IInv, TypeOK
  <2>2. "pipeR" \notin R /\ "pipeW" \notin R /\ "read" \notin R /\ "lost" \notin R
    BY <1>2 DEF WellBehaved, OutputRead, InputWritten, Consistent, KnotesConsistent
  <2>3. CASE Update(c, [k EXCEPT !.begun = TRUE], R)
    <3> DEFINE k2 == [k EXCEPT !.begun = TRUE]
    <3>1. /\ k2 \in Conn /\ k2.phase = k.phase /\ k2.method = k.method
          /\ k2.whole = k.whole /\ k2.code = k.code /\ k2.resp = k.resp
          /\ k2.buf = k.buf /\ k2.rd = k.rd /\ k2.wr = k.wr
      BY DEF Conn
    <3> HIDE DEF k2
    <3>2. Untouched(k2) => k2.code # "ok"
      BY <1>2, <3>1 DEF WellBehaved, AnswerWhole, Untouched
    <3>3. WellBehaved(k2, R, child'[c], Pending(c)', out'[c])
      BY <2>1, <2>2, <3>1, <3>2
      DEF WellBehaved, OutputRead, InputWritten, EventsFit, AnswerWhole, Untouched
    <3> QED BY <2>1, <2>3, <3>1, <3>3, UpdateKept DEF k2
  <2>4. CASE Update(c, clearClient(k), (R \ {"write"}) \cup {"read"})
    <3> DEFINE k2 == clearClient(k)
               R2 == (R \ {"write"}) \cup {"read"}
    <3>1. /\ k2 \in Conn /\ k2.phase = "READY" /\ k2.code = "ok"
          /\ k2.resp = "empty" /\ k2.buf = "empty" /\ ~k2.begun
          /\ k2.wr = k.wr /\ k2.rd = k.rd /\ k2.method = "none"
      BY ClearClient DEF clearClient, NewConn
    <3>2. /\ "read" \in R2 /\ "write" \notin R2
          /\ "pipeR" \notin R2 /\ "pipeW" \notin R2 /\ "lost" \notin R2
      BY <2>2
    <3> HIDE DEF k2, R2
    <3>3. WellBehaved(k2, R2, child'[c], Pending(c)', out'[c])
      BY <2>1, <2>2, <3>1, <3>2
      DEF WellBehaved, OutputRead, InputWritten, EventsFit, AnswerWhole, Untouched
    <3> QED BY <1>2, <2>1, <2>4, <3>1, <3>2, <3>3, UpdateKept DEF k2, R2
  <2>5. CASE Lose("garbled")
    BY <2>5, LossKept DEF Loss
  <2> QED BY <1>2, <2>3, <2>4, <2>5
<1> QED BY <1>1, <1>2 DEF sent
\* Client::sendData: an error kills the child first, which may throw.
LEMMA SendDataKept ==
  ASSUME IInv, WInv, Running, NEW c \in Client, Live(c),
         <<c, "write">> \in batch, sendData(c)
  PROVE  Kept
<1> DEFINE k == closePipeFd(conn[c])
           R == Registered(k, reg[c])
<1>1. "write" \in Pending(c) /\ "write" \in reg[c] /\ "read" \notin reg[c]
  BY LiveWell DEF Pending, Knote, Consistent, KnotesConsistent
<1>2. \/ ~mustKill(c) /\ sent(c, conn[c], reg[c], child[c])
      \/ mustKill(c) /\ "proc" \in reg[c] /\ sent(c, k, R \ {"proc"}, "none")
      \/ /\ mustKill(c)
         /\ \/ Lose("misdirected")
            \/ handleError(c, "error", k, R)
         /\ Handled(c, "write")
         /\ UNCHANGED <<child, out>>
  BY LiveWell, Zenon DEF sendData, deletePidEvent
<1>3. CASE ~mustKill(c) /\ sent(c, conn[c], reg[c], child[c])
  <2>1. child[c] = "none"
    BY <1>1, <1>3, LiveWell DEF mustKill, Consistent, AnswerConsistent
  <2>2. Consistent("live", conn[c], reg[c], "none", Pending(c) \ {"write"})
    BY <2>1, LiveWell, FewerEvents
  <2>3. WellBehaved(conn[c], reg[c], "none", Pending(c), out[c])
    BY <2>1, LiveWell
  <2>4. WellBehaved(conn[c], reg[c], "none", Pending(c) \ {"write"}, TRUE)
    BY <2>3 DEF WellBehaved, OutputRead, EventsFit
  <2> QED BY <1>1, <1>3, <2>1, <2>2, <2>4, LiveWell, SentKept
<1>4. /\ k \in Conn /\ k.rd # "open" /\ k.wr # "open"
      /\ k.rd # "none" <=> conn[c].rd # "none"
      /\ k.wr # "none" <=> conn[c].wr # "none"
      /\ k.phase = conn[c].phase /\ k.method = conn[c].method
      /\ k.whole = conn[c].whole /\ k.code = conn[c].code
      /\ k.resp = conn[c].resp /\ k.buf = conn[c].buf
      /\ k.begun = conn[c].begun
  BY LiveWell, ClosePipeFd
<1> HIDE DEF k
<1>5. R = reg[c] \ {"pipeR", "pipeW"}
  BY <1>4 DEF Registered
<1> HIDE DEF R
<1>6. CASE mustKill(c) /\ "proc" \in reg[c] /\ sent(c, k, R \ {"proc"}, "none")
  <2>1. child[c] # "none" /\ k.code # "ok" /\ "write" \in R \ {"proc"}
    BY <1>1, <1>4, <1>5, <1>6 DEF mustKill
  <2>2. Consistent("live", k, R \ {"proc"}, "none", Pending(c) \ {"write"})
    BY <1>1, <1>4, <1>5, <1>6, <2>1, LiveWell
    DEF Consistent, KnotesConsistent, ChildConsistent, AnswerConsistent,
        PipesConsistent
  <2>3. WellBehaved(k, R \ {"proc"}, "none", Pending(c) \ {"write"}, TRUE)
    BY <1>1, <1>4, <1>5, <2>1, LiveWell
    DEF WellBehaved, OutputRead, InputWritten, EventsFit, AnswerWhole, Untouched
  <2>4. R \ {"proc"} \in SUBSET Knote
    BY <1>5, LiveWell
  <2> QED BY <1>1, <1>4, <1>6, <2>1, <2>2, <2>3, <2>4, SentKept
<1>7. CASE /\ Lose("misdirected") \/ handleError(c, "error", k, R)
           /\ Handled(c, "write")
           /\ UNCHANGED <<child, out>>
  <2>1. Lose("misdirected") \/ Lose("restarted")
    BY <1>1, <1>5, <1>7 DEF handleError
  <2> QED BY <2>1, LossKept DEF Loss
<1> QED BY <1>2, <1>3, <1>6, <1>7

\* Client::handleEndProcess: the child has exited with 0, after all the body was
\* written, and its answer is in the pipe or in the buffer.
LEMMA EndProcessKept ==
  ASSUME IInv, WInv, Running, NEW c \in Client, Live(c),
         <<c, "proc">> \in batch, handleEndProcess(c)
  PROVE  Kept
<1> DEFINE k == conn[c]
           R == (reg[c] \ {"read"}) \cup {"write"}
<1>1. child[c] = "exit0"
  <2>1. "proc" \in Pending(c)
    BY DEF Pending, Knote
  <2> QED BY <2>1, LiveWell DEF Consistent, KnotesConsistent, WellBehaved, InputWritten
<1>2. /\ Pending(c)' = Pending(c) \ {"proc"} /\ OthersKept(c)
      /\ child'[c] = "none" /\ out' = out
  BY DEF handleEndProcess, Handled, Pending, OthersKept, IInv, TypeOK
<1>3. CASE "read" \notin reg[c]
  <2>1. Lose("restarted")
    BY <1>1, <1>3 DEF handleEndProcess, readyToSend, handleError
  <2> QED BY <2>1, LossKept DEF Loss
<1>4. CASE "read" \in reg[c]
  <2>1. k.code = "ok" /\ "write" \notin reg[c]
    BY <1>4, LiveWell
  <2>2. k.phase = "DONE" /\ k.whole /\ k.method \in {"script", "POST"}
    <3>1. k.phase = "DONE" /\ k.method \in {"script", "POST"}
      BY <1>1, <2>1, LiveWell DEF Consistent, ChildConsistent
    <3>2. k.whole \/ k.method = "POST"
      BY <1>1, <3>1, LiveWell DEF Consistent, ChildConsistent
    <3> QED BY <1>1, <2>1, <3>1, <3>2, LiveWell DEF WellBehaved, InputWritten
  <2>3. Update(c, k, R)
    BY <1>1, <1>4 DEF handleEndProcess, readyToSend
  <2>4. WellBehaved(k, R, child'[c], Pending(c)', out'[c])
    BY <1>1, <1>2, <2>1, <2>2, LiveWell
    DEF WellBehaved, OutputRead, InputWritten, EventsFit, AnswerWhole, Untouched
  <2> QED BY <1>2, <2>1, <2>3, <2>4, LiveWell, UpdateKept
<1> QED BY <1>3, <1>4

\* A pipe event that finds its pipe closed raises an error, or hits another.
LEMMA StaleKept ==
  ASSUME IInv, WInv, Running, NEW c \in Client, Live(c),
         "read" \notin Pending(c), "pipeR" \notin reg[c], "pipeW" \notin reg[c],
         handleError(c, "error", conn[c], reg[c]) \/ Lose("misdirected"),
         OthersKept(c), UNCHANGED <<child, out>>
  PROVE  Kept
<1> DEFINE k2 == [conn[c] EXCEPT !.code = "error", !.resp = "error"]
           R2 == (reg[c] \ {"read"}) \cup {"write"}
<1>1. /\ k2.phase = conn[c].phase /\ k2.method = conn[c].method
      /\ k2.whole = conn[c].whole /\ k2.buf = conn[c].buf
      /\ k2.rd = conn[c].rd /\ k2.wr = conn[c].wr
      /\ k2.code = "error" /\ k2.resp = "error"
  BY LiveWell DEF Conn
<1>2. Pending(c)' \subseteq Pending(c)
  BY DEF OthersKept, Pending
<1>3. /\ "pipeR" \notin R2 /\ "pipeW" \notin R2 /\ "write" \in R2 /\ "lost" \notin R2
  BY LiveWell DEF WellBehaved
<1>4. WellBehaved(k2, R2, child'[c], Pending(c)', out'[c])
  <2> HIDE DEF k2, R2
  <2> QED
    BY <1>1, <1>2, <1>3, LiveWell, SMTT(60)
    DEF WellBehaved, OutputRead, InputWritten, EventsFit, AnswerWhole, Untouched
<1>5. CASE handleError(c, "error", conn[c], reg[c])
  BY <1>4, <1>5, LiveWell, RaiseKept DEF ErrorCode
<1> QED BY <1>5, LossKept DEF Loss

\* Post::readPipe: output that belongs to the request, or its end after all of
\* it has been read.
LEMMA ReadPipeKept ==
  ASSUME IInv, WInv, Running, NEW c \in Client, Live(c),
         <<c, "pipeR">> \in batch, readPipe(c)
  PROVE  Kept
<1> DEFINE k == conn[c]
<1>1. "pipeR" \in Pending(c) /\ k \in Conn
  BY LiveWell DEF Pending, Knote
<1>2. /\ Pending(c)' = Pending(c) \ {"pipeR"} /\ OthersKept(c)
      /\ child' = child
  BY DEF readPipe, Handled, Pending, OthersKept, Update, Lose, handleError, IInv, TypeOK
<1>3. CASE k.rd # "open"
  <2>1. "pipeR" \notin reg[c]
    BY <1>3, LiveWell DEF WellBehaved, OutputRead
  <2>2. "pipeW" \notin reg[c] /\ "read" \notin Pending(c)
    BY <1>1, <2>1, LiveWell DEF WellBehaved, EventsFit
  <2>3. handleError(c, "error", k, reg[c]) \/ Lose("misdirected")
    BY <1>3 DEF readPipe
  <2>4. out' = out
    BY <1>3 DEF readPipe
  <2> QED BY <1>2, <2>1, <2>2, <2>3, <2>4, StaleKept
<1>4. CASE k.rd = "open"
  <2>1. "pipeR" \in reg[c]
    BY <1>1, <1>4, LiveWell DEF WellBehaved, EventsFit
  <2>2. /\ k.phase = "DONE" /\ ~Untouched(k) /\ ~k.begun /\ k.buf # "junk"
        /\ out[c] \/ k.buf # "empty"
        /\ out[c] \/ (k.code = "ok" /\ k.resp = "empty")
    <3>1. k.phase = "DONE" /\ ~k.begun /\ k.buf # "junk"
      BY <2>1, LiveWell DEF WellBehaved, OutputRead, AnswerWhole
    <3>2. ~Untouched(k)
      BY <2>1, LiveWell DEF WellBehaved, OutputRead, Untouched
    <3>3. out[c] \/ child[c] # "running"
      BY <1>1, <1>4, LiveWell DEF WellBehaved, EventsFit
    <3>4. /\ out[c] \/ k.buf # "empty"
          /\ out[c] \/ (k.code = "ok" /\ k.resp = "empty")
      BY <2>1, <3>3, LiveWell DEF WellBehaved, OutputRead
    <3> QED BY <3>1, <3>2, <3>4
  <2>3. CASE out[c]
    <3> DEFINE k2 == [k EXCEPT !.buf = "text"]
    <3>1. Update(c, k2, reg[c]) /\ out' = [out EXCEPT ![c] = FALSE]
      BY <1>4, <2>2, <2>3 DEF readPipe, Received
    <3>2. /\ k2 \in Conn /\ k2.phase = k.phase /\ k2.method = k.method
          /\ k2.whole = k.whole /\ k2.code = k.code /\ k2.resp = k.resp
          /\ k2.begun = k.begun /\ k2.rd = k.rd /\ k2.wr = k.wr
          /\ k2.buf = "text"
      BY <1>1 DEF Conn
    <3> HIDE DEF k2
    <3>3. WellBehaved(k2, reg[c], child'[c], Pending(c)', out'[c])
      BY <1>2, <2>2, <3>2, LiveWell
      DEF WellBehaved, OutputRead, InputWritten, EventsFit, AnswerWhole, Untouched
    <3> QED BY <1>2, <3>1, <3>2, <3>3, UpdateKept
  <2>4. CASE ~out[c]
    <3> DEFINE k2 == [k EXCEPT !.resp = "page", !.rd = "stale"]
               R2 == reg[c] \ {"pipeR"}
    <3>1. Update(c, k2, R2) /\ out' = out
      BY <1>4, <2>2, <2>4 DEF readPipe
    <3>2. /\ k2 \in Conn /\ k2.phase = k.phase /\ k2.method = k.method
          /\ k2.whole = k.whole /\ k2.code = "ok" /\ k2.resp = "page"
          /\ k2.begun = k.begun /\ k2.rd = "stale" /\ k2.wr = k.wr
          /\ k2.buf = k.buf
      BY <1>1, <2>2, <2>4 DEF Conn, PipeEnd
    <3> HIDE DEF k2
    <3>3. WellBehaved(k2, R2, child'[c], Pending(c)', out'[c])
      BY <1>2, <2>1, <2>2, <3>1, <3>2, LiveWell
      DEF WellBehaved, OutputRead, InputWritten, EventsFit, AnswerWhole, Untouched
    <3> QED BY <1>2, <2>2, <2>4, <3>1, <3>2, <3>3, UpdateKept
  <2> QED BY <2>3, <2>4
<1> QED BY <1>3, <1>4

\* Post::writePipe: never to a child that is gone, and closed when all is said.
LEMMA WritePipeKept ==
  ASSUME IInv, WInv, Running, NEW c \in Client, Live(c),
         <<c, "pipeW">> \in batch, writePipe(c)
  PROVE  Kept
<1> DEFINE k == conn[c]
<1>1. "pipeW" \in Pending(c) /\ k \in Conn
  BY LiveWell DEF Pending, Knote
<1>2. /\ Pending(c)' = Pending(c) \ {"pipeW"} /\ OthersKept(c)
      /\ child' = child /\ out' = out
  BY DEF writePipe, Handled, Pending, OthersKept
<1>3. CASE k.wr # "open"
  <2>1. "pipeW" \notin reg[c]
    BY <1>3, LiveWell DEF WellBehaved, InputWritten
  <2>2. "pipeR" \notin reg[c] /\ "read" \notin Pending(c)
    BY <1>1, <2>1, LiveWell DEF WellBehaved, EventsFit
  <2>3. handleError(c, "error", k, reg[c]) \/ Lose("misdirected")
    BY <1>3 DEF writePipe
  <2> QED BY <1>2, <2>1, <2>2, <2>3, StaleKept
<1>4. CASE k.wr = "open"
  <2>1. "pipeW" \in reg[c]
    BY <1>1, <1>4, LiveWell DEF WellBehaved, EventsFit
  <2>2. child[c] = "running" /\ k.method = "POST"
    BY <2>1, LiveWell DEF WellBehaved, InputWritten
  <2>3. \/ \E rest \in BOOLEAN : Update(c, [k EXCEPT !.unsent = rest], reg[c])
        \/ k.whole /\ Update(c, [k EXCEPT !.wr = "stale"], reg[c] \ {"pipeW"})
        \/ Update(c, k, reg[c])
    BY <1>4, <2>2 DEF writePipe, BodyWritten
  <2>4. ASSUME NEW rest \in BOOLEAN, Update(c, [k EXCEPT !.unsent = rest], reg[c])
        PROVE  Kept
    <3> DEFINE k2 == [k EXCEPT !.unsent = rest]
    <3>1. /\ k2 \in Conn /\ k2.phase = k.phase /\ k2.method = k.method
          /\ k2.whole = k.whole /\ k2.code = k.code /\ k2.resp = k.resp
          /\ k2.begun = k.begun /\ k2.rd = k.rd /\ k2.wr = k.wr
          /\ k2.buf = k.buf
      BY <1>1 DEF Conn
    <3> HIDE DEF k2
    <3>2. WellBehaved(k2, reg[c], child'[c], Pending(c)', out'[c])
      BY <1>2, <3>1, LiveWell
      DEF WellBehaved, OutputRead, InputWritten, EventsFit, AnswerWhole, Untouched
    <3> QED BY <1>2, <2>4, <3>1, <3>2, UpdateKept DEF k2
  <2>5. CASE k.whole /\ Update(c, [k EXCEPT !.wr = "stale"], reg[c] \ {"pipeW"})
    <3> DEFINE k2 == [k EXCEPT !.wr = "stale"]
               R2 == reg[c] \ {"pipeW"}
    <3>1. /\ k2 \in Conn /\ k2.phase = k.phase /\ k2.method = k.method
          /\ k2.whole /\ k2.code = k.code /\ k2.resp = k.resp
          /\ k2.begun = k.begun /\ k2.rd = k.rd /\ k2.wr = "stale"
          /\ k2.buf = k.buf
      BY <1>1, <2>5 DEF Conn, PipeEnd
    <3> HIDE DEF k2
    <3>2. WellBehaved(k2, R2, child'[c], Pending(c)', out'[c])
      BY <1>2, <2>1, <2>2, <2>5, <3>1, LiveWell
      DEF WellBehaved, OutputRead, InputWritten, EventsFit, AnswerWhole, Untouched
    <3> QED BY <1>2, <2>5, <3>1, <3>2, UpdateKept DEF k2
  <2>6. CASE Update(c, k, reg[c])
    BY <1>2, <2>6, SameKept DEF OthersKept
  <2> QED BY <2>3, <2>4, <2>5, <2>6
<1> QED BY <1>3, <1>4

\* Operation::acceptClient begins a conversation.
LEMMA AcceptKept ==
  ASSUME IInv, WInv, Running, NEW c \in Client, <<c, "listen">> \in batch,
         acceptClient(c)
  PROVE  Kept
<1>1. life[c] = "new" /\ child[c] = "none" /\ conn[c] = NewConn
      /\ Pending(c) \subseteq {"listen"}
  <2>1. "listen" \in Pending(c)
    BY DEF Pending
  <2>2. /\ Consistent(life[c], conn[c], reg[c], child[c], Pending(c))
        /\ life[c] \in {"new", "live", "freed"}
    BY DEF IInv, TypeOK
  <2> QED
    BY <2>1, <2>2
    DEF Consistent, NewConsistent, KnotesConsistent, FreedConsistent, Pipes
<1>2. /\ Pending(c)' = {} /\ OthersKept(c) /\ child' = child
  BY <1>1 DEF acceptClient, Handled, Pending, OthersKept
<1>3. CASE /\ life' = [life EXCEPT ![c] = "live"]
           /\ reg' = [reg EXCEPT ![c] = {"read", "timer"}]
           /\ UNCHANGED <<loop, conn>>
  <2> DEFINE R2 == {"read", "timer"}
  <2>1. conn' = [conn EXCEPT ![c] = NewConn] /\ Running'
    BY <1>1, <1>3 DEF IInv, TypeOK, Running
  <2>2. AnswerWhole(NewConn, R2)
    BY DEF AnswerWhole, NewConn
  <2>3. WellBehaved(NewConn, R2, child'[c], Pending(c)', out'[c])
    BY <1>1, <1>2, <2>2, QuietWell DEF NewConn
  <2>4. Allowed(PhaseOf(life[c], reg[c]), AnswerOf(life[c], conn[c], reg[c]),
                PhaseOf("live", R2), AnswerOf("live", NewConn, R2))
    BY <1>1 DEF Allowed, PhaseOf, AnswerOf
  <2> QED BY <1>2, <1>3, <2>1, <2>3, <2>4, OneClientKept
<1>4. CASE Lose("exited")
  BY <1>4, LossKept DEF Loss
<1> QED BY <1>3, <1>4 DEF acceptClient
-----------------------------------------------------------------------------
(***************************************************************************)
(* The steps of the loop and of the children.                              *)
(***************************************************************************)

\* Every event that handleEvent works on.
LEMMA HandleKept ==
  ASSUME IInv, WInv, NEW c \in Client, Handle(c)
  PROVE  Kept
<1>1. CASE HandleListen(c)
  BY <1>1, AcceptKept DEF HandleListen, Running
<1>2. CASE HandleRead(c)
  <2>1. Running /\ Live(c) /\ <<c, "read">> \in batch
    BY <1>2 DEF HandleRead, Turn, Running, Live
  <2>2. \/ handleRequest(c, conn[c], reg[c])
        \/ CleanUpClientResources(c, conn[c], reg[c], child[c])
    BY <1>2, <2>1, LiveWell DEF HandleRead, handleReadEvent
  <2>3. CASE handleRequest(c, conn[c], reg[c])
    BY <2>1, <2>3, RequestKept
  <2>4. CASE CleanUpClientResources(c, conn[c], reg[c], child[c])
    BY <2>1, <2>4, TornDown
  <2> QED BY <2>2, <2>3, <2>4
<1>3. CASE HandleWrite(c)
  BY <1>3, SendDataKept DEF HandleWrite, Turn, Running, Live
<1>4. CASE HandleProc(c)
  BY <1>4, EndProcessKept DEF HandleProc, Turn, Running, Live
<1>5. CASE HandlePipeR(c)
  BY <1>5, ReadPipeKept DEF HandlePipeR, Turn, Running, Live
<1>6. CASE HandlePipeW(c)
  BY <1>6, WritePipeKept DEF HandlePipeW, Turn, Running, Live
<1>7. CASE HandleTimer(c)
  BY <1>7, TornDown DEF HandleTimer, Turn, Running, Live
<1>8. CASE HandleLost(c)
  <2>1. Running /\ Live(c) /\ batch' \subseteq batch
    BY <1>8 DEF HandleLost, Turn, Handled, Running, Live
  <2>2. Update(c, conn[c], reg[c]) /\ UNCHANGED <<child, out>>
    BY <1>8 DEF HandleLost, Update, IInv, TypeOK
  <2> QED BY <2>1, <2>2, SameKept
<1>9. CASE HandleFreed(c)
  BY <1>9, LossKept DEF HandleFreed, Loss, Running
<1> QED
  BY <1>1, <1>2, <1>3, <1>4, <1>5, <1>6, <1>7, <1>8, <1>9 DEF Handle

\* The events of a batch are those of registered knotes, and of pipes that have
\* bytes or have ended.
LEMMA PollKept ==
  ASSUME IInv, WInv, Poll
  PROVE  Kept
<1>1. PICK S \in SUBSET (SureEvents \cup MayEvents) :
        /\ batch' = S
        /\ reg' = [c \in Client |->
                     IF <<c, "proc">> \in S THEN reg[c] \ {"proc"} ELSE reg[c]]
  BY DEF Poll
<1>2. UNCHANGED <<loop, life, conn, child, out>> /\ Running
  BY DEF Poll, Running
<1>3. ASSUME NEW c \in Client, NEW f \in {"read", "pipeR", "pipeW"}, <<c, f>> \in S
      PROVE  /\ f \in reg[c]
             /\ f = "pipeR" => out[c] \/ child[c] # "running"
  <2>1. CASE <<c, f>> \in SureEvents
    <3>1. PICK d \in Client : <<c, f>> \in {d} \X Sure(d)
      BY <2>1 DEF SureEvents
    <3>2. d = c /\ f \in Sure(d)
      BY <3>1, Zenon
    <3>3. f \in Sure(c)
      BY <3>2, Zenon
    <3> QED BY <3>3 DEF Sure
  <2>2. CASE <<c, f>> \in {d \in Client : life[d] = "new"} \X {"listen"}
    BY <2>2
  <2>3. CASE \E d \in Client :
               <<c, f>> \in {d} \X (reg[d] \cap {"read", "write", "timer", "pipeW"})
    <3>1. PICK d \in Client :
            <<c, f>> \in {d} \X (reg[d] \cap {"read", "write", "timer", "pipeW"})
      BY <2>3
    <3>2. c = d /\ f \in reg[d] \cap {"read", "write", "timer", "pipeW"}
      BY <3>1, Zenon
    <3> QED BY <3>2
  <2> QED BY <1>3, <2>1, <2>2, <2>3 DEF MayEvents
<1>4. ASSUME NEW c \in Client
      PROVE  /\ \A f \in {"read", "write", "pipeR", "pipeW", "lost"} : f \in reg'[c] <=> f \in reg[c]
             /\ reg'[c] = IF <<c, "proc">> \in S THEN reg[c] \ {"proc"} ELSE reg[c]
  BY <1>1
<1>5. ASSUME NEW c \in Client, Live(c)'
      PROVE  WellBehaved(conn[c], reg[c], child[c], Pending(c), out[c])'
  <2>1. Live(c)
    BY <1>2, <1>5 DEF Live
  <2>2. \A f \in {"read", "pipeR", "pipeW"} : f \in Pending(c)' =>
          f \in reg[c] /\ (f = "pipeR" => out[c] \/ child[c] # "running")
    BY <1>1, <1>3 DEF Pending
  <2> DEFINE R == reg[c]'
             B == Pending(c)'
             k == conn[c]
             ch == child[c]
             o == out[c]
  <2>3. \A f \in {"read", "write", "pipeR", "pipeW", "lost"} : f \in R <=> f \in reg[c]
    BY <1>4
  <2>4. WellBehaved(k, reg[c], ch, Pending(c), o)
    BY <1>2, <2>1, LiveWell
  <2>5. \A f \in {"read", "pipeR", "pipeW"} : f \in B =>
          f \in reg[c] /\ (f = "pipeR" => o \/ ch # "running")
    BY <2>2
  <2> HIDE DEF R, B, k, ch, o
  <2>6. WellBehaved(k, R, ch, B, o)
    BY <2>3, <2>4, <2>5
    DEF WellBehaved, OutputRead, InputWritten, EventsFit, AnswerWhole
  <2> QED BY <1>2, <2>6 DEF R, B, k, ch, o
<1>8. ASSUME NEW c \in Client, life'[c] = "freed"
      PROVE  reg'[c] \subseteq {"pipeR"}
  <2>1. reg[c] \subseteq {"pipeR"} /\ reg'[c] \subseteq reg[c]
    BY <1>2, <1>4, <1>8 DEF WInv
  <2> QED BY <2>1
<1>6. WInv'
  BY <1>2, <1>5, <1>8 DEF WInv, NoSigPipe
<1>7. [Promised!Next]_(Promised!vars)
  BY <1>2, <1>4, SameConversation DEF PhaseOf, AnswerOf, Running
<1> QED BY <1>6, <1>7 DEF Kept

\* A CGI child writes, or exits after it has read its input and written.
LEMMA ChildKept ==
  ASSUME CgiFaults = {}, IInv, WInv, NEW c \in Client,
         ChildWrites(c) \/ ChildExits(c)
  PROVE  Kept
<1>1. /\ UNCHANGED <<loop, batch, life, conn, reg>> /\ Running
      /\ child[c] = "running"
  BY DEF ChildWrites, ChildExits, Running
<1>2. ASSUME NEW d \in Client, Live(d)'
      PROVE  WellBehaved(conn[d], reg[d], child[d], Pending(d), out[d])'
  <2>1. Live(d) /\ Pending(d)' = Pending(d)
    BY <1>1, <1>2 DEF Live, Pending
  <2>2. CASE d # c
    <3>1. child'[d] = child[d] /\ out'[d] = out[d]
      BY <2>2 DEF ChildWrites, ChildExits, IInv, TypeOK
    <3> QED BY <1>1, <2>1, <3>1, LiveWell
  <2>3. CASE d = c /\ ChildWrites(c)
    <3>1. child' = child /\ out'[c] = TRUE
      BY <2>3 DEF ChildWrites, IInv, TypeOK
    <3>2. WellBehaved(conn[c], reg[c], child[c], Pending(c), TRUE)
      BY <1>1, <2>1, <2>3, LiveWell DEF WellBehaved, OutputRead, EventsFit
    <3> QED BY <1>1, <2>1, <2>3, <3>1, <3>2
  <2>4. CASE d = c /\ ChildExits(c)
    <3>1. /\ child'[c] = "exit0" /\ out' = out
          /\ ~Reading(c) /\ (out[c] \/ conn[c].buf # "empty")
      BY <2>4 DEF ChildExits, IInv, TypeOK
    <3>2. WellBehaved(conn[c], reg[c], "exit0", Pending(c), out[c])
      BY <1>1, <2>1, <2>4, <3>1, LiveWell
      DEF WellBehaved, OutputRead, InputWritten, EventsFit, Reading
    <3> QED BY <1>1, <2>1, <2>4, <3>1, <3>2
  <2> QED BY <2>2, <2>3, <2>4
<1>3. WInv'
  BY <1>1, <1>2 DEF WInv, NoSigPipe, Running
<1>4. [Promised!Next]_(Promised!vars)
  BY <1>1, SameConversation DEF PhaseOf, AnswerOf, Running
<1> QED BY <1>3, <1>4 DEF Kept

-----------------------------------------------------------------------------
(***************************************************************************)
(* The theorems.                                                           *)
(***************************************************************************)

\* Before the first connection nothing is promised and nothing is wrong.
LEMMA InitKept == Init => WInv /\ Promised!Init
<1> SUFFICES ASSUME Init PROVE WInv /\ Promised!Init
  OBVIOUS
<1>1. WInv
  BY DEF Init, WInv, NoSigPipe, Live
<1>2. Promised!Init
  BY DEF Init, Promised!Init, Running, Live
<1> QED BY <1>1, <1>2

\* One step of the loop or of a child, or none, keeps WInv and is a step of the
\* conversation, or none.
LEMMA StepKept ==
  ASSUME CgiFaults = {}
  PROVE  IInv /\ WInv /\ [Next]_vars => Kept
<1> SUFFICES ASSUME IInv, WInv, [Next]_vars PROVE Kept
  OBVIOUS
<1>1. CASE UNCHANGED vars
  <2>1. WInv'
    BY <1>1 DEF vars, WInv, NoSigPipe, Running, Live, Pending
  <2>2. [Promised!Next]_(Promised!vars)
    BY <1>1, SameConversation DEF vars, PhaseOf, AnswerOf, Running
  <2> QED BY <2>1, <2>2 DEF Kept
<1>2. CASE Poll
  BY <1>2, PollKept
<1>3. ASSUME NEW c \in Client, Handle(c)
      PROVE  Kept
  BY <1>3, HandleKept
<1>4. ASSUME NEW c \in Client, ChildWrites(c) \/ ChildExits(c)
      PROVE  Kept
  BY <1>4, ChildKept
<1> QED BY <1>1, <1>2, <1>3, <1>4 DEF Next

\* With well-behaved CGI programs the second invariant holds, for any number of
\* connections, any MAX_EVENT and any requests.
THEOREM WellBehavedInvariant == CgiFaults = {} => (Spec => []WInv)
<1> SUFFICES ASSUME CgiFaults = {} PROVE Spec => []WInv
  OBVIOUS
<1>1. Init => WInv
  BY InitKept
<1>2. IInv /\ WInv /\ [Next]_vars => WInv'
  BY StepKept DEF Kept
<1> QED BY <1>1, <1>2, Invariant, PTL DEF Spec

\* The server never writes to a pipe whose reader is gone.
THEOREM NeverKilled == CgiFaults = {} => (Spec => []NoSigPipe)
<1> SUFFICES ASSUME CgiFaults = {} PROVE Spec => []NoSigPipe
  OBVIOUS
<1>1. WInv => NoSigPipe
  BY DEF WInv
<1>2. Spec => []WInv
  BY WellBehavedInvariant
<1> QED BY <1>1, <1>2, PTL

\* No answer holds bytes of another, and none is replaced while it is sent.
THEOREM AnswersUnmixed == CgiFaults = {} => (Spec => []NoJunk)
<1> SUFFICES ASSUME CgiFaults = {} PROVE Spec => []NoJunk
  OBVIOUS
<1>1. WInv => NoJunk
  BY DEF WInv, NoJunk, WellBehaved, AnswerWhole
<1>2. Spec => []WInv
  BY WellBehavedInvariant
<1> QED BY <1>1, <1>2, PTL

\* Nothing of a request stays in the kqueue when it is over, and nothing of a Client
\* that was deleted but the pipe of a child that had exited.
THEOREM NoKnoteLeftBehind == CgiFaults = {} => (Spec => []KnotesFollowRequest)
<1> SUFFICES ASSUME CgiFaults = {} PROVE Spec => []KnotesFollowRequest
  OBVIOUS
<1>1. IInv /\ WInv => KnotesFollowRequest
  <2> SUFFICES ASSUME IInv, WInv, Running, NEW c \in Client
               PROVE  /\ "lost" \notin reg[c]
                      /\ Live(c) /\ conn[c].phase = "READY" =>
                           reg[c] \cap {"proc", "pipeR", "pipeW"} = {}
                      /\ life[c] = "freed" => reg[c] \subseteq {"pipeR"}
    BY DEF KnotesFollowRequest
  <2>1. CASE Live(c)
    <3>1. /\ WellBehaved(conn[c], reg[c], child[c], Pending(c), out[c])
          /\ Consistent("live", conn[c], reg[c], child[c], Pending(c))
      BY <2>1, LiveWell
    <3> QED
      BY <2>1, <3>1 DEF WellBehaved, OutputRead, InputWritten, Live,
                        Consistent, KnotesConsistent, ChildConsistent
  <2>2. CASE life[c] = "freed"
    BY <2>2 DEF WInv, Live
  <2>3. CASE life[c] = "new"
    BY <2>3 DEF IInv, Consistent, NewConsistent, Live
  <2> QED BY <2>1, <2>2, <2>3 DEF IInv, TypeOK, Live
<1>2. Spec => []WInv
  BY WellBehavedInvariant
<1> QED BY <1>1, <1>2, Invariant, PTL

\* Every connection is the conversation its peer is promised: one answer to a
\* request, settled before it is sent, never taken back.
THEOREM PromiseKept == CgiFaults = {} => (Spec => KeepsPromise)
<1> SUFFICES ASSUME CgiFaults = {} PROVE Spec => KeepsPromise
  OBVIOUS
<1>1. Init => Promised!Init
  BY InitKept
<1>2. IInv /\ WInv /\ [Next]_vars => [Promised!Next]_(Promised!vars)
  BY StepKept DEF Kept
<1>3. Spec => []WInv
  BY WellBehavedInvariant
<1> QED BY <1>1, <1>2, <1>3, Invariant, PTL DEF Spec, KeepsPromise, Promised!Spec
=============================================================================
