------------------------------- MODULE CgiRelay -------------------------------
(***************************************************************************)
(* The bytes of one POST: from the request body through a pipe into the    *)
(* CGI program, from the program through a pipe into _responseBuffer, and  *)
(* from the response through the socket to the peer, with the positions    *)
(* the Client keeps of all this.                                           *)
(*                                                                         *)
(* EventLoop has the events and their order; here an event's handler is    *)
(* taken whenever the kernel could report the event.  The exit of the      *)
(* program is reported once, and the report may be missed.  The program    *)
(* reads its input to the end (src/cgi/post_cgi.py does) and exits with 0. *)
(***************************************************************************)
EXTENDS Naturals, Sequences

CONSTANTS
  Byte,      \* what bodies and outputs are made of
  Bodies,    \* the bodies of requests
  Outputs,   \* what the program may write
  PipeSize   \* what a pipe holds

ASSUME ContentAssumption == Bodies \subseteq Seq(Byte) /\ Outputs \subseteq Seq(Byte)
ASSUME PipeSizeAssumption == PipeSize \in Nat \ {0}

VARIABLES
  content,       \* the body the peer is sending, the output the program has
  requestBody,   \* Request::_requestBody
  chunkedEnd,    \* Request::_chunkedEnd
  writeIndex,    \* _writeIndex
  stdin,         \* the bytes in the pipe to the program
  wr,            \* is _writeFd[1] open?
  input,         \* what the program has read
  eof,           \* has it read the end?
  output,        \* what it has written
  exited,        \* has it exited?
  missed,        \* was the event of its exit fetched and thrown away?
  stdout,        \* the bytes in the pipe from it
  rd,            \* is _readFd[0] open?
  responseBuffer,\* _responseBuffer
  response,      \* _responseStr and its Content-Length, once readPipe set it
  sendIndex,     \* _sendIndex
  sent,          \* the bytes the socket has taken for the peer
  phase          \* "reading" or "writing" the socket, then "next" when the
                 \* Client has turned to the next request, "closed" when there
                 \* was nothing to send, "lost" when it was torn down before

inputVars  == <<requestBody, chunkedEnd, writeIndex, stdin, wr, input, eof>>
outputVars == <<output, exited, missed, stdout, rd, responseBuffer, response>>
sendVars   == <<sendIndex, sent, phase>>
vars       == <<content, inputVars, outputVars, sendVars>>

NoResponse == [text |-> <<>>, length |-> 0]

Init ==
  /\ content \in [body : Bodies, output : Outputs]
  /\ requestBody = <<>> /\ chunkedEnd = FALSE /\ writeIndex = 0
  /\ stdin = <<>> /\ wr = TRUE /\ input = <<>> /\ eof = FALSE
  /\ output = <<>> /\ exited = FALSE /\ missed = FALSE
  /\ stdout = <<>> /\ rd = TRUE /\ responseBuffer = <<>>
  /\ response = NoResponse
  /\ sendIndex = 0 /\ sent = <<>> /\ phase = "reading"

\* The Client lives; when it is torn down its program is killed.
Live == phase \notin {"closed", "lost"}

\* The first n elements of s, and the others.
Upto(s, n) == SubSeq(s, 1, n)
After(s, n) == SubSeq(s, n + 1, Len(s))

-----------------------------------------------------------------------------
(***************************************************************************)
(* Into the program.                                                       *)
(***************************************************************************)

\* A read event: bytes of the body are appended to _requestBody, n in all; or
\* handlePost takes the whole body at once.  _bodyTotalSize is its size.
Receive(n, end) ==
  /\ phase = "reading" /\ ~chunkedEnd
  /\ n >= Len(requestBody) /\ (end => n = Len(content.body))
  /\ requestBody' = Upto(content.body, n)
  /\ chunkedEnd' = end
  /\ UNCHANGED <<content, writeIndex, stdin, wr, input, eof, outputVars, sendVars>>

\* (variant: _writeIndex is set to what was written last)
advancedLast(n) == n

advanced(n) == writeIndex + n

\* (variant: the pipe is not closed for a body without bytes)
BodyWrittenSome == Len(requestBody) = writeIndex /\ chunkedEnd /\ writeIndex > 0

BodyWritten == Len(requestBody) = writeIndex /\ chunkedEnd

\* write() takes some of what is left of the body, as there is room for it; it
\* takes nothing when nothing is left, and only then the pipe may be closed.
writePipe ==
  /\ wr /\ Live /\ Len(stdin) < PipeSize
  /\ \/ /\ writeIndex < Len(requestBody)
        /\ \E n \in 1 .. PipeSize - Len(stdin) :
             /\ n <= Len(requestBody) - writeIndex
             /\ stdin' = stdin \o SubSeq(requestBody, writeIndex + 1, writeIndex + n)
             /\ writeIndex' = advanced(n)
        /\ UNCHANGED wr
     \/ /\ writeIndex = Len(requestBody)
        /\ wr' = ~BodyWritten
        /\ UNCHANGED <<stdin, writeIndex>>
  /\ UNCHANGED <<content, requestBody, chunkedEnd, input, eof, outputVars, sendVars>>

\* The program reads.
ProgramReads ==
  /\ ~exited /\ ~eof /\ Live
  /\ \/ /\ stdin # <<>>
        /\ \E n \in 1 .. Len(stdin) :
             /\ input' = input \o Upto(stdin, n)
             /\ stdin' = After(stdin, n)
        /\ UNCHANGED eof
     \/ /\ stdin = <<>> /\ ~wr
        /\ eof' = TRUE
        /\ UNCHANGED <<input, stdin>>
  /\ UNCHANGED <<content, requestBody, chunkedEnd, writeIndex, wr, outputVars, sendVars>>

-----------------------------------------------------------------------------
(***************************************************************************)
(* Out of the program.                                                     *)
(***************************************************************************)

\* The program writes as much as the pipe holds, before or after its input.
ProgramWrites ==
  /\ ~exited /\ Live
  /\ \E n \in 1 .. PipeSize - Len(stdout) :
       /\ Len(output) + n <= Len(content.output)
       /\ output' = Upto(content.output, Len(output) + n)
       /\ stdout' = stdout \o SubSeq(content.output, Len(output) + 1, Len(output) + n)
  /\ UNCHANGED <<content, inputVars, exited, missed, rd, responseBuffer, response, sendVars>>

ProgramExits ==
  /\ ~exited /\ eof /\ output = content.output /\ Live
  /\ exited' = TRUE
  /\ UNCHANGED <<content, inputVars, output, missed, stdout, rd, responseBuffer, response,
                 sendVars>>

\* The positions in msg after the first line end, and after the first empty
\* line: std::string::find() + 2 and + 4.
Found(msg, pattern) ==
  {p \in 0 .. Len(msg) - Len(pattern) :
     SubSeq(msg, p + 1, p + Len(pattern)) = pattern}
find(msg, pattern) ==
  CHOOSE p \in Found(msg, pattern) : \A q \in Found(msg, pattern) : p <= q
LineEnd == <<"CR", "LF">>
EmptyLine == LineEnd \o LineEnd

\* A CGI program ends its header with an empty line.
ASSUME HeaderAssumption == \A o \in Outputs : Found(o, EmptyLine) # {}

\* (variant: the empty line is taken to be a byte longer)
cgiBodySizeOffByOne(msg) == Len(msg) - (find(msg, EmptyLine) + 5)

cgiBodySize(msg) == Len(msg) - (find(msg, EmptyLine) + 4)

\* The first line the program wrote is replaced by the server's own.
Response(msg) ==
  [text |-> <<"status">> \o LineEnd \o <<"length">> \o LineEnd
              \o After(msg, find(msg, LineEnd) + 2),
   length |-> cgiBodySize(msg)]

\* (variant: each read replaces what was read before)
readLast(n) == Upto(stdout, n)

readSoFar(n) == responseBuffer \o Upto(stdout, n)

\* read() takes some of what is in the pipe; at the end the response is made.
readPipe ==
  /\ rd /\ Live
  /\ \/ /\ stdout # <<>>
        /\ \E n \in 1 .. Len(stdout) :
             /\ responseBuffer' = readSoFar(n)
             /\ stdout' = After(stdout, n)
        /\ UNCHANGED <<rd, response>>
     \/ /\ stdout = <<>> /\ exited
        /\ response' = Response(responseBuffer)
        /\ rd' = FALSE
        /\ UNCHANGED <<responseBuffer, stdout>>
  /\ UNCHANGED <<content, inputVars, output, exited, missed, sendVars>>

-----------------------------------------------------------------------------
(***************************************************************************)
(* To the peer.                                                            *)
(***************************************************************************)

handleEndProcess ==
  /\ exited /\ ~missed /\ phase = "reading"
  /\ phase' = "writing"
  /\ UNCHANGED <<content, inputVars, outputVars, sendIndex, sent>>

\* handleEvent returns before it comes to the event, which is not reported again.
MissExit ==
  /\ exited /\ ~missed /\ phase = "reading"
  /\ missed' = TRUE
  /\ UNCHANGED <<content, inputVars, output, exited, stdout, rd, responseBuffer, response,
                 sendVars>>

\* (variant: the position is not moved when only a part was sent)
movedWhole(n) == IF n = Len(response.text) THEN n ELSE sendIndex

moved(n) == sendIndex + n

\* send() takes some of what is left; sending nothing closes the connection, as
\* happens when the end of the output has not been read yet.
sendData ==
  /\ phase = "writing"
  /\ \/ /\ sendIndex < Len(response.text)
        /\ \E n \in 1 .. Len(response.text) - sendIndex :
             /\ sent' = sent \o SubSeq(response.text, sendIndex + 1, sendIndex + n)
             /\ sendIndex' = moved(n)
             /\ phase' = IF moved(n) = Len(response.text) THEN "next" ELSE phase
     \/ /\ sendIndex = Len(response.text)
        /\ phase' = "closed"
        /\ UNCHANGED <<sent, sendIndex>>
  /\ UNCHANGED <<content, inputVars, outputVars>>

\* The peer hangs up, send() fails though there is more to send, or the timer
\* expires: CleanUpClientResources, whatever has been sent.
CleanUpClientResources ==
  /\ phase \in {"reading", "writing"}
  /\ phase' = "lost"
  /\ UNCHANGED <<content, inputVars, outputVars, sendIndex, sent>>

-----------------------------------------------------------------------------
Loop == writePipe \/ readPipe \/ handleEndProcess \/ MissExit \/ sendData
        \/ CleanUpClientResources
Program == ProgramReads \/ ProgramWrites \/ ProgramExits
Peer == \E n \in 0 .. Len(content.body), end \in BOOLEAN : Receive(n, end)

Next == Loop \/ Program \/ Peer

Spec == Init /\ [][Next]_vars

\* The loop handles what is ready, the exit event unless it misses it; where it did,
\* nothing happens on this connection any more and its timer expires.  The program
\* goes on; the peer need not.
Fairness ==
  /\ WF_vars(writePipe) /\ WF_vars(readPipe)
  /\ WF_vars(handleEndProcess) /\ WF_vars(sendData)
  /\ WF_vars(missed /\ CleanUpClientResources)
  /\ WF_vars(ProgramReads) /\ WF_vars(ProgramWrites) /\ WF_vars(ProgramExits)

FairSpec == Spec /\ Fairness

-----------------------------------------------------------------------------
\* What a response is made of.
Sent == Byte \cup {"CR", "LF", "status", "length"}

TypeOK ==
  /\ content \in [body : Bodies, output : Outputs]
  /\ requestBody \in Seq(Byte) /\ stdin \in Seq(Byte) /\ input \in Seq(Byte)
  /\ output \in Seq(Byte) /\ stdout \in Seq(Byte) /\ responseBuffer \in Seq(Byte)
  /\ {chunkedEnd, wr, eof, exited, missed, rd} \subseteq BOOLEAN
  /\ response \in [text : Seq(Sent), length : Nat]
  /\ sent \in Seq(Sent)
  /\ writeIndex \in Nat /\ sendIndex \in Nat
  /\ phase \in {"reading", "writing", "next", "closed", "lost"}

\* What was written to the program is what it has read and what is in its pipe,
\* so _writeIndex never passes the end of the body and the unsigned subtraction
\* requestBody.size() - _writeIndex never wraps around.
InputAccounted ==
  /\ writeIndex <= Len(requestBody)
  /\ input \o stdin = Upto(requestBody, writeIndex)

\* The pipe to the program is closed when all of the body has been written.
ClosedAtEnd == ~wr => chunkedEnd /\ writeIndex = Len(requestBody)

\* Once read to its end the answer has the length it announces: the bytes after
\* its first empty line, wherever the program's own header ended.
Framed ==
  ~rd => response.length = Len(After(response.text, find(response.text, EmptyLine) + 4))

\* What a peer has been sent is the beginning of the answer to all the program wrote,
\* however pipes and socket took it: nothing before the end of the output was read,
\* the whole of it before the next request, and part of it only if the peer is
\* lost.  A response without a byte closes the connection only if the program's exit
\* was handled before the end of its output.
AnswerFromOutput ==
  LET answer == Response(content.output).text
  IN  /\ sent # <<>> => ~rd /\ sent = Upto(answer, Len(sent))
      /\ phase = "next" => sent = answer
      /\ phase = "closed" => rd /\ sent = <<>>

\* What each half of the way keeps, and the sending of the response.
InputInv ==
  /\ requestBody = Upto(content.body, Len(requestBody))
  /\ InputAccounted /\ ClosedAtEnd
  /\ eof => ~wr /\ stdin = <<>>
OutputInv ==
  /\ output = Upto(content.output, Len(output))
  /\ responseBuffer \o stdout = output
  /\ exited => output = content.output
  /\ ~rd => exited /\ stdout = <<>>
AnswerInv ==
  /\ rd => response = NoResponse
  /\ sendIndex <= Len(response.text) /\ sent = Upto(response.text, sendIndex)
  /\ phase \in {"reading", "closed"} => sendIndex = 0
  /\ phase = "writing" => sendIndex = 0 \/ sendIndex < Len(response.text)
  /\ phase = "next" => sendIndex = Len(response.text) /\ ~rd

\* The inductive invariant.
RelayInv == TypeOK /\ InputInv /\ OutputInv /\ AnswerInv

\* Three relays: body to program, program to _responseBuffer, response to peer.
Input == INSTANCE Relay WITH put <- requestBody, finished <- chunkedEnd,
                             got <- input, over <- eof
Output == INSTANCE Relay WITH put <- output, finished <- exited,
                              got <- responseBuffer, over <- ~rd
Answer == INSTANCE Relay WITH put <- response.text, finished <- ~rd,
                              got <- sent, over <- phase = "next"

\* Each is a lossless relay, whatever pieces write(), read() and send() take.
Relayed == Input!Spec /\ Output!Spec /\ Answer!Spec

\* A body that has ended is read to its end by the program, although its pipe is
\* closed only by a write of nothing after everything else; and then the peer has
\* its answer, or its connection is closed.  Only the loss of the peer ends either
\* of it, a missed exit among the causes.
Settled ==
  /\ chunkedEnd ~> eof \/ phase = "lost"
  /\ chunkedEnd ~> phase \in {"next", "closed", "lost"}
=============================================================================
