---------------------------- MODULE Conversation -----------------------------
(***************************************************************************)
(* What the server promises about each connection, with no kqueue, buffers *)
(* or children: requests are taken one at a time; each is answered by one  *)
(* page or one error, settled before its first byte is sent and unchanged  *)
(* from then on; only an answer that exists is completed, and only then is *)
(* the next request taken.  The connection may be closed at any time, and  *)
(* it stays closed.  The server may stop.                                  *)
(***************************************************************************)
CONSTANT Client     \* the connections made to the server

VARIABLES
  up,      \* is the server serving?
  phase,   \* of each connection
  answer   \* of each connection, the answer it is being sent

vars == <<up, phase, answer>>

Answer == {"page", "error"}

Init ==
  /\ up = TRUE
  /\ phase = [c \in Client |-> "unborn"]
  /\ answer = [c \in Client |-> "none"]

Move(c, p, a) ==
  /\ phase' = [phase EXCEPT ![c] = p]
  /\ answer' = [answer EXCEPT ![c] = a]
  /\ UNCHANGED up

Accept(c) == phase[c] = "unborn" /\ Move(c, "receiving", "none")

\* The answer may be announced before it is known: a CGI child has exited and
\* the end of its output has not been read.
Announce(c) ==
  phase[c] = "receiving"
  /\ \E a \in Answer \cup {"none"} : Move(c, "answering", a)

Supply(c) ==
  phase[c] = "answering" /\ answer[c] = "none" /\ Move(c, "answering", "page")

Complete(c) ==
  phase[c] = "answering" /\ answer[c] # "none" /\ Move(c, "receiving", "none")

Close(c) ==
  phase[c] \in {"receiving", "answering"} /\ Move(c, "closed", "none")

Stop == up' = FALSE /\ UNCHANGED <<phase, answer>>

Next ==
  /\ up
  /\ \/ \E c \in Client :
          Accept(c) \/ Announce(c) \/ Supply(c) \/ Complete(c) \/ Close(c)
     \/ Stop

Spec == Init /\ [][Next]_vars
=============================================================================
