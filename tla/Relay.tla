-------------------------------- MODULE Relay --------------------------------
(***************************************************************************)
(* What a relay of bytes promises: the taker gets, in order, bytes the     *)
(* giver put, and is told of the end only when the giver has finished and  *)
(* the taker has got everything.                                           *)
(***************************************************************************)
EXTENDS Naturals, Sequences

VARIABLES
  put,       \* the bytes put so far
  finished,  \* has the giver put all it will?
  got,       \* the bytes taken so far
  over       \* has the taker been told of the end?

vars == <<put, finished, got, over>>

Init ==
  /\ put = <<>> /\ got = <<>>
  /\ finished = FALSE /\ over = FALSE

Put ==
  /\ ~finished
  /\ finished' \in BOOLEAN
  /\ Len(put) <= Len(put') /\ put = SubSeq(put', 1, Len(put))
  /\ UNCHANGED <<got, over>>

Take ==
  /\ ~over
  /\ \E n \in Len(got) .. Len(put) : got' = SubSeq(put, 1, n)
  /\ UNCHANGED <<put, finished, over>>

\* The end is told with the last byte or after it.
End ==
  /\ finished
  /\ got' = put /\ over' = TRUE
  /\ UNCHANGED <<put, finished>>

Next == Put \/ Take \/ End

Spec == Init /\ [][Next]_vars

\* What has been finished is delivered to its end.
Delivered == finished ~> over
=============================================================================
