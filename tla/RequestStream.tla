---------------------------- MODULE RequestStream ----------------------------
(***************************************************************************)
(* The bytes of one connection and the requests read from them: a TCP      *)
(* stream cut into pieces anywhere, Request's buffer and positions, and    *)
(* clearRequest between two requests.                                      *)
(*                                                                         *)
(* A request line, a field line, an empty line and a unit of a body are    *)
(* one cell each; the text of a body is not taken for a request line.      *)
(* Bodies have a Content-Length (ChunkedBody has the chunked ones).        *)
(***************************************************************************)
EXTENDS Naturals, Sequences, SequencesExt, FiniteSetsExt

CONSTANT
  Dialogues   \* the sequences of requests a peer may make

\* What is asked for, and the length of the body; a length of zero may be left
\* unsaid.
Ask == [method : {"GET", "POST"}, length : Nat, declared : BOOLEAN]

ASSUME DialoguesAssumption ==
  \A d \in Dialogues :
    d \in Seq(Ask) /\ \A i \in DOMAIN d : d[i].declared \/ d[i].length = 0

Cell == [of : Nat, part : {"line", "length", "blank", "body"}]

\* What the peer sends for its i-th request.
Sends(dialogue, i) ==
  LET cell(part) == [of |-> i, part |-> part]
  IN  <<cell("line")>> \o (IF dialogue[i].declared THEN <<cell("length")>> ELSE <<>>)
      \o <<cell("blank")>> \o [j \in 1 .. dialogue[i].length |-> cell("body")]

VARIABLES
  polite,         \* does the peer wait for each answer before it asks again?
  asks,           \* the requests the peer makes
  sent,           \* the cells of all of them
  received,       \* how many of these the server has read
  requestBuffer,  \* _requestBuffer
  state,          \* _state: "READY" or "DONE"
  current,        \* the request whose line was parsed, 0 when there is none
  bodyStartIndex, \* _bodyStartIndex
  contentLength,  \* _contentLength as a number
  requestBody,    \* _requestBody
  doing,          \* "reading", "cgi" (reading on while the program of a body
                  \* that was taken runs), "writing" or "closed"
  response,       \* the answer being sent
  answers         \* the answers the peer has

requestVars == <<requestBuffer, state, current, bodyStartIndex, contentLength, requestBody>>
vars == <<polite, asks, sent, received, requestVars, doing, response, answers>>

\* Of the codes that refuse a request, 400 stands for all but 405.
Fresh == [to |-> 0, body |-> <<>>, code |-> 200]

Refused(answer) == answer.code # 200

Init ==
  /\ polite \in BOOLEAN /\ asks \in Dialogues
  /\ sent = FlattenSeq([i \in DOMAIN asks |-> Sends(asks, i)])
  /\ received = 0
  /\ requestBuffer = <<>> /\ state = "READY" /\ current = 0
  /\ bodyStartIndex = 0 /\ contentLength = 0 /\ requestBody = <<>>
  /\ doing = "reading" /\ response = Fresh /\ answers = <<>>

\* How many cells can be there to be read.
Available ==
  IF polite THEN Cardinality({p \in DOMAIN sent : sent[p].of <= Len(answers) + 1})
            ELSE Len(sent)

-----------------------------------------------------------------------------
\* deleteSocketReadEvent(); addSocketWriteEvent();
readyToSend(answer) == doing' = "writing" /\ response' = answer

Refuse(codes) ==
  \E code \in codes : readyToSend([to |-> current', body |-> <<>>, code |-> code])

\* The position of the first empty line in the buffer, 0 when there is none; it is
\* an empty line only behind the end of another.
headerEnd(buffer) ==
  LET I == {p \in 2 .. Len(buffer) : buffer[p].part = "blank"}
  IN  IF I = {} THEN 0 ELSE Min(I)

\* The declared length, or what _contentLength still holds.
DeclaredLength(buffer) ==
  IF \E p \in 1 .. headerEnd(buffer) : buffer[p].part = "length"
  THEN asks[buffer[1].of].length ELSE contentLength

\* handleResponse's comparison.
BodyArrived(buffer) == Len(buffer) - bodyStartIndex' = contentLength'

\* When the body is there a request may still be refused (no such file, body too
\* large); a GET is answered at once, a POST when its program exits.  When the body
\* of a POST has been taken, bytes that follow only lengthen the buffer.
handleResponse(buffer) ==
  \/ /\ ~BodyArrived(buffer)
     /\ UNCHANGED <<requestBody, doing, response>>
  \/ /\ BodyArrived(buffer)
     /\ Refuse({400})
     /\ UNCHANGED requestBody
  \/ /\ BodyArrived(buffer) /\ asks[current'].method = "GET"
     /\ readyToSend([to |-> current', body |-> <<>>, code |-> 200])
     /\ UNCHANGED requestBody
  \/ /\ BodyArrived(buffer) /\ asks[current'].method = "POST"
     /\ requestBody' = SubSeq(buffer, bodyStartIndex' + 1, bodyStartIndex' + contentLength')
     /\ doing' = "cgi"
     /\ UNCHANGED response

\* The header, once its empty line is there.  Whatever else is in the place of a
\* request line has not three words, or, when it is the text of a body with the
\* next request line behind it, no known method.
parsingHeader(buffer) ==
  \/ /\ headerEnd(buffer) = 0
     /\ UNCHANGED <<state, current, bodyStartIndex, contentLength, requestBody, doing, response>>
  \/ /\ headerEnd(buffer) # 0 /\ buffer[1].part # "line"
     /\ current' = current
     /\ Refuse(IF buffer[1].part = "body" THEN {400, 405} ELSE {400})
     /\ UNCHANGED <<state, bodyStartIndex, contentLength, requestBody>>
  \/ /\ headerEnd(buffer) # 0 /\ buffer[1].part = "line"
     /\ current' = buffer[1].of
     /\ contentLength' = DeclaredLength(buffer)
     /\ bodyStartIndex' = headerEnd(buffer)
     /\ \/ /\ Refuse({400, 405})                 \* no location, limit_except
           /\ UNCHANGED <<state, requestBody>>
        \/ state' = "DONE" /\ handleResponse(buffer)

\* A read event: n cells are appended and what can be done is done.
handleRequest(n) ==
  /\ doing \in {"reading", "cgi"}
  /\ LET buffer == requestBuffer \o SubSeq(sent, received + 1, received + n)
     IN  /\ received' = received + n
         /\ requestBuffer' = buffer
         /\ \/ state = "READY" /\ parsingHeader(buffer)
            \/ /\ state = "DONE"
               /\ UNCHANGED <<state, current, bodyStartIndex, contentLength>>
               /\ handleResponse(buffer)
  /\ UNCHANGED <<polite, asks, sent, answers>>

\* The program of a POST exits, maybe before its body has arrived; with status 1
\* the request is refused.
handleEndProcess ==
  /\ doing \in {"reading", "cgi"} /\ state = "DONE" /\ asks[current].method = "POST"
  /\ UNCHANGED <<polite, asks, sent, received, requestVars, answers>>
  /\ \/ readyToSend([to |-> current, body |-> requestBody, code |-> 200])
     \/ Refuse({400})

\* (variant: _contentLength is not cleared)
clearRequestKeepsLength ==
  /\ requestBuffer' = <<>> /\ state' = "READY" /\ current' = 0
  /\ bodyStartIndex' = 0 /\ requestBody' = <<>>
  /\ UNCHANGED contentLength

\* (variant: _requestBuffer is not cleared)
clearRequestKeepsBuffer ==
  /\ state' = "READY" /\ current' = 0
  /\ bodyStartIndex' = 0 /\ contentLength' = 0 /\ requestBody' = <<>>
  /\ UNCHANGED requestBuffer

clearRequest ==
  /\ requestBuffer' = <<>> /\ state' = "READY" /\ current' = 0
  /\ bodyStartIndex' = 0 /\ contentLength' = 0 /\ requestBody' = <<>>

\* The last of the answer is sent; after a 405, or a part of it, the connection is
\* closed.
sendData ==
  /\ doing = "writing"
  /\ answers' = Append(answers, response)
  /\ clearRequest
  /\ doing' = IF response.code = 405 THEN "closed" ELSE "reading"
  /\ response' = Fresh
  /\ UNCHANGED <<polite, asks, sent, received>>

\* The timer, a hang-up or a send() that fails.
cleanUpClientResources ==
  /\ doing # "closed"
  /\ doing' = "closed"
  /\ UNCHANGED <<polite, asks, sent, received, requestVars, response, answers>>

Read == \E n \in 1 .. Available - received : handleRequest(n)

Next == Read \/ handleEndProcess \/ sendData \/ cleanUpClientResources

\* What has been sent arrives, there is room to write, and a program that has the
\* whole body exits; if its exit event is dropped, the timer closes the connection.
Fairness ==
  /\ WF_vars(Read) /\ WF_vars(sendData)
  /\ WF_vars(doing = "cgi" /\ (handleEndProcess \/ cleanUpClientResources))

Spec == Init /\ [][Next]_vars /\ Fairness

-----------------------------------------------------------------------------
\* The cells of the body of request i.
BodyOf(i) == [j \in 1 .. asks[i].length |-> [of |-> i, part |-> "body"]]

\* Was the request carried out with all of its body?
TookAll(answer) ==
  ~Refused(answer) /\ (asks[answer.to].method = "POST" => answer.body = BodyOf(answer.to))

\* An answer that carries a request out carries out one the peer made, with the
\* whole of that request's body and no byte of another (or nothing, when the program
\* did not wait for it), however the stream was cut and whatever clearRequest threw
\* away; and none is carried out twice.
NeverMixed ==
  \A k \in DOMAIN answers : ~Refused(answers[k]) =>
    /\ answers[k].to # 0
    /\ asks[answers[k].to].method = "POST" => answers[k].body \in {<<>>, BodyOf(answers[k].to)}
    /\ \A j \in 1 .. k - 1 : answers[j].to < answers[k].to

\* A peer that waits for each answer before it sends more has the answers in the
\* order of its requests, up to the first that is given without the whole of the
\* body: what is left of it is then read as the next request.
AnswersInOrder ==
  polite => \A k \in DOMAIN answers :
    (\A j \in 1 .. k - 1 : TookAll(answers[j])) => answers[k].to = k

\* Such a peer gets an answer to every request, be it a refusal, unless the
\* connection is closed: no length, position or state of an earlier request, and no
\* body left in front of it, keeps the server waiting for more of a later one.
AllAnswered == polite => <>(Len(answers) = Len(asks) \/ doing = "closed")
=============================================================================
