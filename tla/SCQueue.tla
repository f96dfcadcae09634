------------------------------- MODULE SCQueue -------------------------------
(***************************************************************************)
(* The queues of src/src/sc_tools.c, step by step, as used for the input   *)
(* queue of the web interface: every HTTP connection runs in a thread of   *)
(* its own and calls queue_put() from writeData(); the web manager polls   *)
(* with queue_get().  No lock protects the queue, so a step is an access   *)
(* to a shared word (q->last_out, q->first_out, q->last_index).            *)
(*                                                                         *)
(* Items are numbered in the order they are allocated; an item's message   *)
(* is its number.  Allocation failures are not modelled.                   *)
(***************************************************************************)
EXTENDS Integers, Sequences, FiniteSets

CONSTANTS
  Http,       \* HTTP connection threads
  MaxItems    \* bound on the number of messages put

ASSUME QueueAssumption == MaxItems \in Nat

Item == 1..MaxItems
Null == 0

VARIABLES
  next,       \* item->next of the items allocated so far
  owner,      \* history: the thread that put each item
  index,      \* item->index
  freed,      \* items given back by free()
  first_out, last_out, last_index,    \* the queue_t
  ppc, pitem, \* where each HTTP thread is in queue_put(), and its item
  gpc, gitem, \* where the web manager is in queue_get(), and its item
  gmsg,       \* the message it is about to return
  got         \* history: the messages queue_get() returned, in order

vars == <<next, owner, index, freed, first_out, last_out, last_index,
          ppc, pitem, gpc, gitem, gmsg, got>>

TypeOK ==
  /\ next \in Seq(Item \cup {Null}) /\ Len(next) <= MaxItems
  /\ owner \in Seq(Http) /\ Len(owner) = Len(next)
  /\ index \in Seq(Nat) /\ Len(index) = Len(next)
  /\ freed \subseteq 1..Len(next)
  /\ {first_out, last_out} \subseteq 0..Len(next)
  /\ last_index \in Nat
  /\ ppc \in [Http -> {"idle", "link", "last", "first"}]
  /\ pitem \in [Http -> 0..Len(next)]
  /\ gpc \in {"test", "read", "advance", "clear", "free"}
  /\ gpc \in {"read", "advance"} => first_out # Null
  /\ gitem \in 0..Len(next)
  /\ gmsg \in 0..Len(next)
  /\ got \in Seq(Item)

Init ==
  /\ next = <<>> /\ owner = <<>> /\ index = <<>> /\ freed = {}
  /\ first_out = Null /\ last_out = Null /\ last_index = 0
  /\ ppc = [h \in Http |-> "idle"] /\ pitem = [h \in Http |-> Null]
  /\ gpc = "test" /\ gitem = Null /\ gmsg = Null
  /\ got = <<>>

-----------------------------------------------------------------------------
(* queue_put()                                                             *)

PutAlloc(h) ==
  /\ ppc[h] = "idle" /\ Len(next) < MaxItems
  /\ next' = Append(next, Null)
  /\ owner' = Append(owner, h)
  /\ index' = Append(index, last_index)
  /\ last_index' = last_index + 1
  /\ pitem' = [pitem EXCEPT ![h] = Len(next) + 1]
  /\ ppc' = [ppc EXCEPT ![h] = "link"]
  /\ UNCHANGED <<freed, first_out, last_out, gpc, gitem, gmsg, got>>

(* item->next=q->last_out *)
PutLink(h) ==
  /\ ppc[h] = "link"
  /\ next' = [next EXCEPT ![pitem[h]] = last_out]
  /\ ppc' = [ppc EXCEPT ![h] = "last"]
  /\ UNCHANGED <<owner, index, freed, first_out, last_out, last_index, pitem, gpc, gitem, gmsg, got>>

(* q->last_out=item *)
PutLast(h) ==
  /\ ppc[h] = "last"
  /\ last_out' = pitem[h]
  /\ ppc' = [ppc EXCEPT ![h] = "first"]
  /\ UNCHANGED <<next, owner, index, freed, first_out, last_index, pitem, gpc, gitem, gmsg, got>>

(* if (!item->next) q->first_out=item *)
PutFirst(h) ==
  /\ ppc[h] = "first"
  /\ first_out' = IF next[pitem[h]] = Null THEN pitem[h] ELSE first_out
  /\ pitem' = [pitem EXCEPT ![h] = Null]
  /\ ppc' = [ppc EXCEPT ![h] = "idle"]
  /\ UNCHANGED <<next, owner, index, freed, last_out, last_index, gpc, gitem, gmsg, got>>

-----------------------------------------------------------------------------
(* queue_get().  q->first_out is read three times; only this thread sets it*)
(* to NULL, so the pointer is not NULL once the test has passed.           *)

(* mutant of GetTest: the empty queue is told by its other end *)
GetTest_LastOut ==
  /\ gpc = "test" /\ last_out # Null
  /\ gitem' = first_out
  /\ gpc' = "read"
  /\ UNCHANGED <<next, owner, index, freed, first_out, last_out, last_index, ppc, pitem, gmsg, got>>

GetTest ==
  /\ gpc = "test" /\ first_out # Null
  /\ gitem' = first_out
  /\ gpc' = "read"
  /\ UNCHANGED <<next, owner, index, freed, first_out, last_out, last_index, ppc, pitem, gmsg, got>>

(* msg=q->first_out->msg *)
GetRead ==
  /\ gpc = "read"
  /\ gmsg' = first_out
  /\ gpc' = "advance"
  /\ UNCHANGED <<next, owner, index, freed, first_out, last_out, last_index, ppc, pitem, gitem, got>>

(* mutant of GetAdvance: the element is not unlinked *)
GetAdvance_Keep ==
  /\ gpc = "advance"
  /\ gpc' = "clear"
  /\ UNCHANGED <<next, owner, index, freed, first_out, last_out, last_index, ppc, pitem, gitem,
                 gmsg, got>>

(* q->first_out=q->first_out->next *)
GetAdvance ==
  /\ gpc = "advance"
  /\ first_out' = next[first_out]
  /\ gpc' = "clear"
  /\ UNCHANGED <<next, owner, index, freed, last_out, last_index, ppc, pitem, gitem, gmsg, got>>

(* if (!q->first_out) q->last_out=NULL *)
GetClear ==
  /\ gpc = "clear"
  /\ last_out' = IF first_out = Null THEN Null ELSE last_out
  /\ gpc' = "free"
  /\ UNCHANGED <<next, owner, index, freed, first_out, last_index, ppc, pitem, gitem, gmsg, got>>

(* free(item); the message is returned and sent to the main thread *)
GetFree ==
  /\ gpc = "free"
  /\ freed' = freed \cup {gitem}
  /\ got' = Append(got, gmsg)
  /\ gitem' = Null /\ gmsg' = Null
  /\ gpc' = "test"
  /\ UNCHANGED <<next, owner, index, first_out, last_out, last_index, ppc, pitem>>

-----------------------------------------------------------------------------
Put(h) == PutAlloc(h) \/ PutLink(h) \/ PutLast(h) \/ PutFirst(h)
Get == GetTest \/ GetRead \/ GetAdvance \/ GetClear \/ GetFree

Next == (\E h \in Http : Put(h)) \/ Get

Spec == Init /\ [][Next]_vars

-----------------------------------------------------------------------------
RankOf(m) == Cardinality({i \in 1..m : owner[i] = owner[m]})
SentBy(h) == Cardinality({i \in 1..Len(owner) : owner[i] = h})

Mailbox == INSTANCE LossyMailbox WITH
  Connection <- Http,
  sent  <- [h \in Http |-> SentBy(h)],
  taken <- [k \in 1..Len(got) |-> [from |-> owner[got[k]], n |-> RankOf(got[k])]]

(* No browser command is taken twice (main() would apply a relative one    *)
(* such as "fault +" twice) or after a later one of the same connection,   *)
(* whatever the interleaving of the threads: the queue implements a mailbox*)
(* that may lose messages.                                                 *)
AtMostOnceInOrder == Mailbox!Spec

(* The web manager never reads or frees an item it has already freed: it is*)
(* the only one that frees, and what it takes was unlinked before.         *)
NoUseAfterFree ==
  /\ first_out \notin freed
  /\ gpc # "test" => gitem \notin freed

(* "fifo queue management" (sc_tools.c): what has been taken is what was   *)
(* put, in order, with nothing skipped.                                    *)
Fifo == \A i \in 1..Len(got) : got[i] = i
=============================================================================
