------------------------------- MODULE Answers -------------------------------
(***************************************************************************)
(* What a connection is answered when no CGI program is involved: the      *)
(* GET of a file or of a directory, DELETE, and the error pages, put       *)
(* together in fields that live as long as the Client, and sent in as      *)
(* many pieces as the socket takes.                                        *)
(*                                                                         *)
(* A response is a sequence of cells: one for its head, with the code and  *)
(* the Content-Length it declares, and one for each piece of its body.     *)
(***************************************************************************)
EXTENDS Naturals, Sequences, SequencesExt, FiniteSets, FiniteSetsExt

CONSTANTS
  File,        \* names of files, all in one directory below the root
  Length,      \* how many pieces each has
  PageLength,  \* and the error page has
  MaxRequests  \* a bound of the model: the requests of one connection

ASSUME LengthAssumption ==
  /\ "" \notin File /\ "/" \notin File /\ "directory" \notin File
  /\ IsFiniteSet(File) /\ Length \in [File -> Nat] /\ PageLength \in Nat

Directory == "directory"
Path == File \cup {Directory}
\* Refusals that reach a Client without a path: the request line, the fields,
\* routing and the body.
Refusal == {400, 405, 413, 505}
Ask == ({"GET", "DELETE"} \X Path) \cup ({"refused"} \X Refusal)

VARIABLES
  conf,     \* what the configuration and the machine are like: see Conf
  files,    \* the files that exist
  exists,   \* whether their directory does
  turn,     \* "request", "answer", or "closed"
  code,     \* _stateCode
  length,   \* _contentLength
  buffer,   \* _responseBuffer
  str,      \* _responseStr
  index,    \* _sendIndex
  wire,     \* all the peer has been sent
  asked,    \* how many requests it has made
  due       \* and the answers they deserve, one after the other

fields == <<code, length, buffer, str, index>>
vars == <<conf, files, exists, turn, fields, wire, asked, due>>

\* Of the location: try_files, index, autoindex; of the server: its index; and
\* whether the error pages can be opened, and a directory like a file.
Conf == [tryFiles : {"", "/"} \cup File, index : {""} \cup File,
         serverIndex : {""} \cup File, autoindex : BOOLEAN,
         page : BOOLEAN, opens : BOOLEAN]

Init ==
  /\ conf \in Conf /\ files \in SUBSET File
  /\ exists \in BOOLEAN /\ (files # {} => exists)
  /\ turn = "request"
  /\ code = 200 /\ length = 0 /\ buffer = <<>> /\ str = <<>> /\ index = 0
  /\ wire = <<>> /\ asked = 0 /\ due = <<>>

-----------------------------------------------------------------------------
StatusLine(c, l) == [is |-> "head", code |-> c, length |-> l]
Pieces(name, n) == [i \in 1 .. n |-> [is |-> "body", of |-> name, at |-> i]]
Content(f) == Pieces(f, Length[f])
Page == Pieces("error page", PageLength)
Listing(there) == Pieces("listing", Cardinality(there))
NoBody == Pieces(Directory, 0)

\* The codes whose page is sent.
Paged(c) == c \in {400, 404, 413, 500}

-----------------------------------------------------------------------------
(***************************************************************************)
(* The handlers' parts.                                                    *)
(***************************************************************************)

\* handleError and pushErrorBuffer; s is what _responseStr holds by now, and
\* goes on holding when the page cannot be opened.
handleError(c, s) ==
  LET l == IF Paged(c) THEN length + PageLength ELSE 0
  IN  /\ code' = c
      /\ IF conf.page
         THEN /\ length' = l
              /\ str' = <<StatusLine(c, {l})>> \o (IF Paged(c) THEN Page ELSE <<>>)
         ELSE length' = length /\ str' = s
      /\ UNCHANGED index

\* pushBuffer: the response is appended to what _responseBuffer holds.
pushBuffer(l, body) ==
  /\ length' = l
  /\ buffer' = buffer \o <<StatusLine(code, {l})>> \o body
  /\ str' = buffer'
  /\ UNCHANGED <<code, index>>

\* handleFile, when the file can be opened: its length is added.
handleFile(body) == pushBuffer(length + Len(body), body)

\* The file that stands for the directory; "" is the directory itself.
indexFile ==
  IF conf.tryFiles \notin {"", "/"} THEN conf.tryFiles
  ELSE IF conf.index # "" THEN conf.index
  ELSE conf.serverIndex

\* handleDir: autoindex goes before any file, and sets the length.
handleDir ==
  \/ /\ conf.autoindex
     /\ pushBuffer(Cardinality(files), Listing(files))
  \/ /\ ~conf.autoindex
     /\ \/ indexFile \in files /\ handleFile(Content(indexFile))
        \/ indexFile = "" /\ conf.opens /\ handleFile(NoBody)
        \/ /\ indexFile \notin files /\ ~(indexFile = "" /\ conf.opens)
           /\ handleError(404, str) /\ UNCHANGED buffer

\* opendir() or the stream opens something.
Found(path) == path \in files \/ (path = Directory /\ exists)

handleGet(path) ==
  /\ \/ path = Directory /\ exists /\ handleDir
     \/ path \in files /\ handleFile(Content(path))
     \/ ~Found(path) /\ handleError(404, str) /\ UNCHANGED buffer
  /\ UNCHANGED <<files, exists>>

\* What std::remove() can remove: a file, and a directory that is empty.
Removable(path) == path \in files \/ (path = Directory /\ exists /\ files = {})

\* The 200 is there before anything is removed.
handleDelete(path) ==
  LET answer == buffer \o <<StatusLine(code, {})>>
  IN  /\ buffer' = answer
      /\ \/ /\ Removable(path)
            /\ files' = files \ {path}
            /\ exists' = (exists /\ path # Directory)
            /\ str' = answer
            /\ UNCHANGED <<code, length, index>>
         \/ /\ ~Removable(path)
            /\ handleError(404, answer)
            /\ UNCHANGED <<files, exists>>

-----------------------------------------------------------------------------
(***************************************************************************)
(* What an answer should be.                                               *)
(***************************************************************************)

Whole(c, body) == <<StatusLine(c, {Len(body)})>> \o body

\* Without a page to send there is no answer: the connection will be closed.
Error(c) ==
  IF conf.page THEN Whole(c, IF Paged(c) THEN Page ELSE <<>>) ELSE <<>>

\* What the GET of the directory stands for: the listing, or the first name
\* given by try_files ("/" gives none), the location, the server.
Names == <<conf.tryFiles, conf.index, conf.serverIndex>>
Given == {i \in 1 .. 3 : Names[i] \notin {"", "/"}}

DirectoryAnswer ==
  CASE conf.autoindex -> Whole(200, Listing(files))
    [] ~conf.autoindex /\ Given = {} -> IF conf.opens THEN Whole(200, NoBody) ELSE Error(404)
    [] ~conf.autoindex /\ Given # {} ->
         LET name == Names[Min(Given)]
         IN  IF name \in files THEN Whole(200, Content(name)) ELSE Error(404)

\* A DELETE is answered without a length.  One that removes nothing deserves an
\* error; if its page cannot be opened, the 200 made before is what is left.
Deserved(ask) ==
  CASE ask[1] = "refused" -> Error(ask[2])
    [] ask[1] = "GET" -> IF ~Found(ask[2]) THEN Error(404)
                         ELSE IF ask[2] = Directory THEN DirectoryAnswer
                         ELSE Whole(200, Content(ask[2]))
    [] ask[1] = "DELETE" -> IF Removable(ask[2]) \/ ~conf.page
                            THEN <<StatusLine(200, {})>> ELSE Error(404)

-----------------------------------------------------------------------------
(***************************************************************************)
(* The Client.                                                             *)
(***************************************************************************)

\* A request is there in full, or has been refused.
handleResponse(ask) ==
  /\ turn = "request" /\ asked < MaxRequests
  /\ \/ ask[1] = "GET" /\ handleGet(ask[2])
     \/ ask[1] = "DELETE" /\ handleDelete(ask[2])
     \/ ask[1] = "refused" /\ handleError(ask[2], str) /\ UNCHANGED <<buffer, files, exists>>
  /\ turn' = "answer"
  /\ asked' = asked + 1
  /\ due' = due \o Deserved(ask)
  /\ UNCHANGED <<conf, wire>>

\* (variant: the length is forgotten)
clearClientKeepsLength ==
  code' = 200 /\ buffer' = <<>> /\ str' = <<>> /\ index' = 0 /\ length' = length

clearClient ==
  code' = 200 /\ buffer' = <<>> /\ str' = <<>> /\ length' = 0 /\ index' = 0

\* CleanUpClientResources.
Close == turn' = "closed" /\ clearClient

\* send() takes n pieces of what is left.  With none, as of an empty string, or
\* if it fails, and after a 405 in any case, the connection is closed.
sendData(n) ==
  /\ turn = "answer" /\ n <= Len(str) - index
  /\ wire' = wire \o SubSeq(str, index + 1, index + n)
  /\ \/ /\ n = 0 \/ code = 405
        /\ Close
     \/ /\ n > 0 /\ code # 405 /\ index + n < Len(str)
        /\ index' = index + n
        /\ UNCHANGED <<turn, code, length, buffer, str>>
     \/ /\ n > 0 /\ code # 405 /\ index + n = Len(str)
        /\ turn' = "request" /\ clearClient
  /\ UNCHANGED <<conf, files, exists, asked, due>>

\* The peer hangs up, or the timer expires.
HangUp ==
  /\ turn # "closed" /\ Close
  /\ UNCHANGED <<conf, files, exists, wire, asked, due>>

\* Another connection, or anybody else, makes or removes a file or the directory.
Elsewhere ==
  /\ \/ /\ exists /\ UNCHANGED exists
        /\ \E f \in File : files' \in {files \cup {f}, files \ {f}} \ {files}
     \/ /\ files = {} /\ UNCHANGED files
        /\ exists' = ~exists
  /\ UNCHANGED <<conf, turn, fields, wire, asked, due>>

Next ==
  \/ \E ask \in Ask : handleResponse(ask)
  \/ \E n \in 0 .. Len(str) : sendData(n)
  \/ HangUp
  \/ Elsewhere

Spec == Init /\ [][Next]_vars

-----------------------------------------------------------------------------
TypeOK ==
  /\ conf \in Conf /\ files \subseteq File
  /\ exists \in BOOLEAN /\ (files # {} => exists)
  /\ turn \in {"request", "answer", "closed"}
  /\ code \in {200, 404} \cup Refusal
  /\ length \in Nat /\ index \in 0 .. Len(str)
  /\ turn # "answer" => str = <<>> /\ buffer = <<>>

\* A peer is sent the answers its requests deserve, each of them whole and with
\* the length of its body, before the next is asked for; only of the last it may
\* be sent less, and then the connection is closed.
AnswersWhole ==
  /\ IsPrefix(wire, due)
  /\ turn = "request" => wire = due
=============================================================================
