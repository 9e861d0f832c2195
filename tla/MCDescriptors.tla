---------------------------- MODULE MCDescriptors ----------------------------
(***************************************************************************)
(* Two connections that start programs between them: two programs, room    *)
(* for both and nearly every fault; three programs that may exit as they   *)
(* like for connections that last; and three programs where there is room  *)
(* for less than is asked.                                                 *)
(***************************************************************************)
EXTENDS Descriptors

CONSTANTS c1, c2

TwoClients == {c1, c2}

SomeWorlds ==
  {[numbers |-> 8, programs |-> 2, faults |-> Fault \ {"early"}],
   [numbers |-> 8, programs |-> 2, faults |-> {"fork", "kevent", "early", "status"}],
   [numbers |-> 5, programs |-> 3, faults |-> {"fork", "kevent", "refused", "teardown"}]}
=============================================================================
