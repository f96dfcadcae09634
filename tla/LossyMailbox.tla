---------------------------- MODULE LossyMailbox ----------------------------
(***************************************************************************)
(* What the input queue of the web interface promises to browsers.  Each   *)
(* connection numbers the messages it puts; a message of it is taken at    *)
(* most once, after it was put and never after a later one of the same     *)
(* connection.  A message may be lost: nothing says that it is taken.      *)
(***************************************************************************)
EXTENDS Naturals, Sequences

CONSTANT Connection

VARIABLES
  sent,    \* sent[c]: number of messages connection c has put
  taken    \* the messages that were taken, in that order

Init == sent = [c \in Connection |-> 0] /\ taken = <<>>

Put(c) == sent' = [sent EXCEPT ![c] = @ + 1] /\ UNCHANGED taken

(* the n-th message of c is newer than all of c's that were taken *)
Newer(c, n) == \A k \in 1..Len(taken) : taken[k].from = c => taken[k].n < n

Take(c) ==
  /\ \E n \in 1..sent[c] :
       Newer(c, n) /\ taken' = Append(taken, [from |-> c, n |-> n])
  /\ UNCHANGED sent

Next == \E c \in Connection : Put(c) \/ Take(c)

Spec == Init /\ [][Next]_<<sent, taken>>
=============================================================================
