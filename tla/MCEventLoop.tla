----------------------------- MODULE MCEventLoop -----------------------------
(***************************************************************************)
(* Small instances of EventLoop for TLC: one or two connections, which may *)
(* ask for different things.                                               *)
(***************************************************************************)
EXTENDS EventLoopInvariant

CONSTANTS c1, c2

\* What CGI programs may do wrong.
NoFault == {}
ReadsAll == {"silent", "failure"}
AnyFault == {"early", "silent", "failure"}

\* Every request there is, chunked or not.
Everything == [c \in Client |-> Target \X BOOLEAN]

\* Every request on one connection, beside one that asks for a page.
EverythingBesidePage ==
  [c \in Client |-> IF c = c1 THEN Target \X BOOLEAN ELSE {<<"file", FALSE>>}]

\* Chunked POSTs on both connections, on one of them pages and scripts as well.
PostBesidePost ==
  [c \in Client |-> {<<"POST", TRUE>>}
                      \cup IF c = c1 THEN {<<"file", FALSE>>, <<"script", FALSE>>} ELSE {}]
=============================================================================
