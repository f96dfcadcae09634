----------------------------- MODULE WebDisplay -----------------------------
(***************************************************************************)
(* What browsers see of the commands: the output queue of the web manager  *)
(* (src/src/web_mgr.c, sc_tools.c), the readData service (web_server.c) and*)
(* the polling loop of the page (html/crono.js).  The main thread puts     *)
(* every command that did not come from the web; each page asks for        *)
(* message lastID and shows the one it is given; the web manager expires   *)
(* old messages after every command a browser sends.  The program may be   *)
(* restarted while pages are open.                                         *)
(*                                                                         *)
(* queue_put() in the main thread and queue_expire() in the web manager    *)
(* share the queue's words without a lock, and interleave here word by     *)
(* word; queue_pick(), in the threads of the connections, is one step (it  *)
(* may otherwise walk over items being freed).  A message is its           *)
(* item->index; items are numbered in the order of the puts, so the list   *)
(* from last_out down to first_out is an interval.  Abstracted: the texts, *)
(* the F/R/E/D counters that every answer carries, and what a page does    *)
(* with a command once it is parsed.                                       *)
(***************************************************************************)
EXTENDS Integers, Sequences, FiniteSets

CONSTANTS
  Browser,      \* pages that poll the web interface
  MaxMessages,  \* bound on the number of messages put by one run of the program
  MaxRestarts   \* bound on the number of restarts

ASSUME DisplayAssumption == MaxMessages \in Nat /\ MaxRestarts \in Nat

Message == 0..MaxMessages - 1
None    == -1

VARIABLES
  first_out, last_out, last_index, \* output_queue
  ppc, link,  \* where the main thread is in queue_put(), and item->next
  epc,        \* where the web manager is in queue_expire()
  stale,      \* messages below this index were put more than 15 seconds ago
  gone,       \* history: messages below this index are no longer to be shown
  cut,        \* history: a removal and a put have overlapped
  restarts,   \* number of times the program was restarted
  page,       \* page[b]: closed, waiting for its timer, asking, or answered
  lastID,     \* lastID of each page
  answer,     \* the message in the answer to each page, or None
  from,       \* history: lastID of each page when it met this run of the program
  shown       \* history: the messages of this run each page has parsed

queue == <<first_out, last_out, last_index, ppc, link, epc>>
program == <<queue, stale, gone, cut, restarts>>
pages == <<page, lastID, answer, from, shown>>
vars == <<program, pages>>

TypeOK ==
  /\ {first_out, last_out, link} \subseteq Message \cup {None}
  /\ last_index \in 0..MaxMessages
  /\ ppc \in {"idle", "last", "first"}
  /\ epc \in {"idle", "clear"}
  /\ stale \in 0..last_index
  /\ gone \in 0..last_index
  /\ cut \in BOOLEAN
  /\ restarts \in 0..MaxRestarts
  /\ page \in [Browser -> {"closed", "timer", "asking", "answered"}]
  /\ lastID \in [Browser -> 0..MaxMessages]
  /\ answer \in [Browser -> Message \cup {None}]
  /\ from \in [Browser -> 0..MaxMessages]
  /\ shown \in [Browser -> Seq(Message)]

Init ==
  /\ first_out = None /\ last_out = None /\ last_index = 0
  /\ ppc = "idle" /\ link = None /\ epc = "idle"
  /\ stale = 0 /\ gone = 0 /\ cut = FALSE /\ restarts = 0
  /\ page = [b \in Browser |-> "closed"]
  /\ lastID = [b \in Browser |-> 0]
  /\ answer = [b \in Browser |-> None]
  /\ from = [b \in Browser |-> 0]
  /\ shown = [b \in Browser |-> <<>>]

-----------------------------------------------------------------------------
(* queue_put(), in the main thread                                         *)

(* item->index=q->last_index++, item->next=q->last_out.  An item that is   *)
(* linked to one being removed is lost.                                    *)
PutLink ==
  /\ ppc = "idle" /\ last_index < MaxMessages
  /\ last_index' = last_index + 1
  /\ link' = last_out
  /\ ppc' = "last"
  /\ gone' = IF epc = "clear" THEN last_index' ELSE gone
  /\ cut' = (cut \/ epc = "clear")
  /\ UNCHANGED <<first_out, last_out, epc, stale, restarts, pages>>

(* q->last_out=item *)
PutLast ==
  /\ ppc = "last"
  /\ last_out' = last_index - 1
  /\ ppc' = "first"
  /\ UNCHANGED <<first_out, last_index, link, epc, stale, gone, cut, restarts, pages>>

(* if (!item->next) q->first_out=item *)
PutFirst ==
  /\ ppc = "first"
  /\ first_out' = IF link = None THEN last_out ELSE first_out
  /\ link' = None
  /\ ppc' = "idle"
  /\ UNCHANGED <<last_out, last_index, epc, stale, gone, cut, restarts, pages>>

(* a handler of the web manager, called by the main thread, begins to put  *)
web_mgr_sendMsg == PutLink

-----------------------------------------------------------------------------
(* queue_expire(), in the web manager's loop once a command some browser   *)
(* sent was answered                                                       *)

(* The oldest message is stale: q->first_out=q->first_out->next, and the   *)
(* oldest item is the last of the linked list, so nothing is left.         *)
Expire ==
  /\ epc = "idle" /\ first_out # None /\ first_out < stale
  /\ first_out' = None
  /\ epc' = "clear"
  /\ gone' = last_index
  /\ cut' = (cut \/ ppc = "last")
  /\ UNCHANGED <<last_out, last_index, ppc, link, stale, restarts, pages>>

(* mutant of ExpireClear: last_out is not cleaned *)
ExpireClear_KeepLast ==
  /\ epc = "clear"
  /\ epc' = "idle"
  /\ UNCHANGED <<first_out, last_out, last_index, ppc, link, stale, gone, cut, restarts, pages>>

(* if (!q->first_out) q->last_out=NULL *)
ExpireClear ==
  /\ epc = "clear"
  /\ last_out' = IF first_out = None THEN None ELSE last_out
  /\ epc' = "idle"
  /\ UNCHANGED <<first_out, last_index, ppc, link, stale, gone, cut, restarts, pages>>

-----------------------------------------------------------------------------
(* queue_pick(), in the threads of the connections                         *)

(* the items between the ends of the list *)
Queued == IF first_out = None THEN {} ELSE first_out..last_out

(* nearest is looked for from the newest item to the oldest *)
Nearest(id) == CHOOSE m \in Queued : m >= id /\ \A k \in Queued : k >= id => m <= k

(* mutant of queue_pick: messages newer than the one asked for *)
queue_pick_Newer(id) ==
  IF first_out = None THEN None
  ELSE IF id < 0 THEN first_out
  ELSE IF last_out < id THEN None
  ELSE last_out

(* mutant of queue_pick: only the very message asked for *)
queue_pick_Exact(id) ==
  IF first_out = None THEN None ELSE IF id < 0 THEN first_out
  ELSE IF id \in Queued THEN id ELSE None

queue_pick(id) ==
  IF first_out = None THEN None
  ELSE IF id < 0 THEN first_out
  ELSE IF last_out < id THEN None
  ELSE Nearest(id)

-----------------------------------------------------------------------------
(* fifteen seconds have gone by for some messages *)
Age ==
  /\ \E n \in 1..MaxMessages : stale + n <= last_index /\ stale' = stale + n
  /\ UNCHANGED <<queue, gone, cut, restarts, pages>>

(* The program ends and is started again: a queue of its own, numbered from*)
(* 0.  Pages stay open and keep their lastID; an answer on its way is lost.*)
Restart ==
  /\ restarts < MaxRestarts
  /\ restarts' = restarts + 1
  /\ first_out' = None /\ last_out' = None /\ last_index' = 0
  /\ ppc' = "idle" /\ link' = None /\ epc' = "idle"
  /\ stale' = 0 /\ gone' = 0 /\ cut' = FALSE
  /\ page' = [b \in Browser |-> IF page[b] = "answered" THEN "timer" ELSE page[b]]
  /\ answer' = [b \in Browser |-> None]
  /\ from' = lastID
  /\ shown' = [b \in Browser |-> <<>>]
  /\ UNCHANGED lastID

(* initialize() of the page, and its end *)
Open(b) ==
  /\ page[b] = "closed"
  /\ page' = [page EXCEPT ![b] = "timer"]
  /\ UNCHANGED <<program, lastID, answer, from, shown>>

Close(b) ==
  /\ page[b] # "closed"
  /\ page' = [page EXCEPT ![b] = "closed"]
  /\ lastID' = [lastID EXCEPT ![b] = 0]
  /\ answer' = [answer EXCEPT ![b] = None]
  /\ from' = [from EXCEPT ![b] = 0]
  /\ shown' = [shown EXCEPT ![b] = <<>>]
  /\ UNCHANGED program

Ask(b) ==
  /\ page[b] = "timer"
  /\ page' = [page EXCEPT ![b] = "asking"]
  /\ UNCHANGED <<program, lastID, answer, from, shown>>

(* the readData service: ID 0 asks for the oldest message *)
readData(b) ==
  /\ page[b] = "asking"
  /\ answer' = [answer EXCEPT ![b] = queue_pick(IF lastID[b] <= 0 THEN -1 ELSE lastID[b])]
  /\ page' = [page EXCEPT ![b] = "answered"]
  /\ UNCHANGED <<program, lastID, from, shown>>

(* mutant of Success: every answer advances lastID *)
Success_AlwaysAdvance(b) ==
  /\ page[b] = "answered"
  /\ lastID' = [lastID EXCEPT ![b] = @ + 1]
  /\ shown' = IF answer[b] = None THEN shown ELSE [shown EXCEPT ![b] = Append(@, answer[b])]
  /\ answer' = [answer EXCEPT ![b] = None]
  /\ page' = [page EXCEPT ![b] = "timer"]
  /\ UNCHANGED <<program, from>>

(* mutant of Success: lastID is not advanced *)
Success_SameId(b) ==
  /\ page[b] = "answered"
  /\ shown' = IF answer[b] = None THEN shown ELSE [shown EXCEPT ![b] = Append(@, answer[b])]
  /\ UNCHANGED lastID
  /\ answer' = [answer EXCEPT ![b] = None]
  /\ page' = [page EXCEPT ![b] = "timer"]
  /\ UNCHANGED <<program, from>>

(* the answer echoes the ID asked for; parseCommand() adds one to it *)
Success(b) ==
  /\ page[b] = "answered"
  /\ IF answer[b] = None THEN UNCHANGED <<lastID, shown>>
     ELSE /\ lastID' = [lastID EXCEPT ![b] = @ + 1]
          /\ shown' = [shown EXCEPT ![b] = Append(@, answer[b])]
  /\ answer' = [answer EXCEPT ![b] = None]
  /\ page' = [page EXCEPT ![b] = "timer"]
  /\ UNCHANGED <<program, from>>

(* the request or its answer is lost; the page asks again later *)
Error(b) ==
  /\ page[b] \in {"asking", "answered"}
  /\ answer' = [answer EXCEPT ![b] = None]
  /\ page' = [page EXCEPT ![b] = "timer"]
  /\ UNCHANGED <<program, lastID, from, shown>>

Next ==
  \/ web_mgr_sendMsg \/ PutLast \/ PutFirst \/ Expire \/ ExpireClear \/ Age \/ Restart
  \/ \E b \in Browser : Open(b) \/ Close(b) \/ Ask(b) \/ readData(b) \/ Success(b) \/ Error(b)

Spec == Init /\ [][Next]_vars

(* The threads go on with what they are doing; an open page asks for ever, *)
(* the server answers, and of the requests that are repeated for ever some *)
(* get through.                                                            *)
FairSpec ==
  /\ Spec
  /\ WF_vars(PutLast \/ PutFirst) /\ WF_vars(ExpireClear)
  /\ \A b \in Browser : WF_vars(Ask(b)) /\ SF_vars(readData(b)) /\ SF_vars(Success(b))

-----------------------------------------------------------------------------
(* Until something expires, each page shows the commands in order, each one*)
(* once and none left out, from the first one on or, if it was open before *)
(* a restart of the program, from where its counter stood: whatever        *)
(* requests and answers are lost or repeated and whenever it was opened.   *)
PrefixUntilExpiry ==
  gone = 0 => \A b \in Browser : \A i \in 1..Len(shown[b]) : shown[b][i] = from[b] + i - 1

(* A page goes back to no older command, and skips one only if it is no    *)
(* longer in the queue: also after the queue has been emptied, when lastID *)
(* counts less than the index of the message.                              *)
SkipsOnlyRemoved ==
  \A b \in Browser : \A i \in 1..Len(shown[b]) - 1 :
    /\ shown[b][i] <= shown[b][i + 1]
    /\ \A m \in Queued : ~(shown[b][i] < m /\ m < shown[b][i + 1])

(* Empty for its reader and never again filled: last_out is set, so that   *)
(* no put sets first_out.                                                  *)
Wedged == ppc = "idle" /\ epc = "idle" /\ first_out = None /\ last_out # None

(* With neither thread inside a queue operation, the queue holds every     *)
(* message no expiry has taken (queue_put(), queue_get(), sc_tools.c),     *)
(* unless a put overlapped a removal: then it may be wedged.               *)
IntactUnlessCut ==
  ppc = "idle" /\ epc = "idle" =>
    /\ Wedged => cut
    /\ ~Wedged => Queued = gone..last_index - 1

(* A command that is put is shown by every page that stays open, unless    *)
(* its removal, which takes the whole queue and the message a put is       *)
(* linking to it, comes before, or the queue is wedged; also by a page     *)
(* that has to repeat others first.  A page that was open before a restart *)
(* of the program starts again with the command its counter stood at.      *)
EveryMessageShown ==
  \A b \in Browser : \A m \in Message :
    (page[b] # "closed" /\ m \in gone..last_index - 1 /\ m >= from[b])
      ~> \/ page[b] = "closed"
         \/ m \notin gone..last_index - 1
         \/ Wedged
         \/ \E i \in 1..Len(shown[b]) : shown[b][i] = m
=============================================================================
