-------------------------- MODULE WebDisplayProofs --------------------------
(***************************************************************************)
(* Theorems of the pages that follow the output queue, for any number of   *)
(* pages, messages and restarts.                                           *)
(***************************************************************************)
EXTENDS WebDisplay, SequenceTheorems, TLAPS

(* Messages below this index may have been seen in the queue.              *)
Linked ==
  IF ppc = "last" \/ (ppc = "first" /\ link = None) THEN last_index - 1 ELSE last_index

(* While its oldest item is there the queue is whole, with what is linked  *)
(* but not yet published left out, and a put links to an item in it.       *)
WholeInv ==
  first_out # None =>
    /\ epc = "idle" /\ first_out = gone /\ gone <= last_out
    /\ last_out = IF ppc = "last" THEN last_index - 2 ELSE last_index - 1
    /\ ppc # "idle" => link # None

(* Between the two writes of a removal puts link to what is being removed. *)
ClearInv ==
  epc = "clear" =>
    /\ first_out = None /\ last_out # None /\ gone = last_index
    /\ ppc # "idle" => link # None
    /\ ppc = "last" => cut

(* An empty queue is ready for the next message, or wedged.                *)
EmptyInv ==
  first_out = None /\ epc = "idle" =>
    /\ ppc = "idle" => IF last_out = None THEN gone = last_index ELSE cut
    /\ ppc # "idle" /\ link = None =>
         gone = last_index - 1 /\ last_out = IF ppc = "last" THEN None ELSE last_index - 1
    /\ ppc = "last" /\ link # None => cut
    /\ ppc = "first" /\ link # None => IF last_out = None THEN gone = last_index ELSE cut

QueueInv ==
  /\ ppc # "idle" => last_index > 0
  /\ WholeInv /\ ClearInv /\ EmptyInv

Latest(b) == shown[b][Len(shown[b])]

(* A page's counter counts what it has shown.  It stands no further than   *)
(* behind the message shown last, and the queue has nothing in between.    *)
ShownInv(b) ==
  /\ lastID[b] = from[b] + Len(shown[b])
  /\ \A i \in 1..Len(shown[b]) : shown[b][i] < Linked
  /\ shown[b] # <<>> =>
       /\ lastID[b] <= Latest(b) + 1
       /\ \A m \in Queued : lastID[b] <= m => Latest(b) <= m

(* An answer on its way is the oldest message from the counter on, whatever*)
(* was put or removed since it was given; before an expiry, the very one.  *)
AnswerInv(b) ==
  answer[b] # None =>
    /\ lastID[b] <= answer[b] /\ answer[b] < Linked
    /\ gone = 0 => answer[b] = lastID[b]
    /\ \A m \in Queued : lastID[b] <= m => answer[b] <= m
    /\ shown[b] # <<>> => Latest(b) <= answer[b]

(* The two properties of pages, page by page.                              *)
InOrder(b) == gone = 0 => \A i \in 1..Len(shown[b]) : shown[b][i] = from[b] + i - 1
NoSkip(b) ==
  \A i \in 1..Len(shown[b]) - 1 :
    /\ shown[b][i] <= shown[b][i + 1]
    /\ \A m \in Queued : ~(shown[b][i] < m /\ m < shown[b][i + 1])

PageOf(b) == ShownInv(b) /\ AnswerInv(b) /\ InOrder(b) /\ NoSkip(b)
PageInv == \A b \in Browser : PageOf(b)

Inv == TypeOK /\ QueueInv /\ PageInv

LEMMA InitInv == Init => Inv
<1> SUFFICES ASSUME Init PROVE Inv
  OBVIOUS
<1>1. TypeOK
  <2>1. cut \in BOOLEAN
    BY DEF Init
  <2>2. QED
    BY <2>1, DisplayAssumption DEF Init, TypeOK, Message, None
<1>2. QueueInv
  BY DEF Init, QueueInv, WholeInv, ClearInv, EmptyInv
<1>3. ASSUME NEW b \in Browser PROVE PageOf(b)
  BY DEF Init, PageOf, ShownInv, AnswerInv, InOrder, NoSkip
<1>4. QED
  BY <1>1, <1>2, <1>3 DEF Inv, PageInv, PageOf

(* The variables' types as the provers take them.                          *)
LEMMA QueueTypes ==
  ASSUME TypeOK, QueueInv
  PROVE  /\ last_index \in Nat /\ last_index <= MaxMessages /\ gone \in Nat /\ gone <= last_index
         /\ first_out \in Int /\ last_out \in Int /\ link \in Int /\ None \in Int
         /\ Linked \in Int /\ Linked <= last_index
         /\ Queued \subseteq Nat
         /\ \A m \in Queued : gone <= m /\ m < Linked
<1>1. /\ last_index \in Nat /\ last_index <= MaxMessages /\ gone \in Nat /\ gone <= last_index
      /\ first_out \in Int /\ last_out \in Int /\ link \in Int /\ None \in Int
  BY DisplayAssumption DEF TypeOK, Message, None
<1>2. Linked \in Int /\ Linked <= last_index
  BY <1>1 DEF Linked
<1>3. ASSUME first_out # None
      PROVE  /\ Queued = first_out..last_out /\ first_out = gone
             /\ last_out < Linked
  <2>1. /\ first_out = gone /\ (ppc # "idle" => link # None)
        /\ last_out = IF ppc = "last" THEN last_index - 2 ELSE last_index - 1
    BY <1>3 DEF QueueInv, WholeInv
  <2>2. ppc \in {"idle", "last", "first"}
    BY DEF TypeOK
  <2>3. last_out < Linked
    BY <1>1, <2>1, <2>2 DEF Linked
  <2>4. Queued = first_out..last_out
    BY <1>3 DEF Queued
  <2>5. QED
    BY <2>1, <2>3, <2>4
<1>4. first_out = None => Queued = {}
  BY DEF Queued
<1>5. \A m \in Queued : m \in Nat /\ gone <= m /\ m < Linked
  BY <1>1, <1>2, <1>3, <1>4
<1>6. QED
  BY <1>1, <1>2, <1>5

LEMMA PageTypes ==
  ASSUME TypeOK, NEW b \in Browser
  PROVE  /\ lastID[b] \in Nat /\ from[b] \in Nat /\ answer[b] \in Int
         /\ shown[b] \in Seq(Message) /\ Len(shown[b]) \in Nat
         /\ \A i \in 1..Len(shown[b]) : shown[b][i] \in Nat
         /\ shown[b] # <<>> => Len(shown[b]) > 0 /\ Latest(b) \in Nat
<1>1. Message \subseteq Nat
  BY DEF Message
<1>2. lastID[b] \in Nat /\ from[b] \in Nat /\ answer[b] \in Int /\ shown[b] \in Seq(Message)
  BY DEF TypeOK, Message, None
<1>3. \A i \in 1..Len(shown[b]) : shown[b][i] \in Nat
  BY <1>1, <1>2, ElementOfSeq
<1>4. shown[b] # <<>> => Len(shown[b]) > 0
  BY <1>2, EmptySeq
<1>5. QED
  BY <1>2, <1>3, <1>4 DEF Latest

(* What becomes of the queue in one run of the program: it grows by newer  *)
(* messages or shrinks.                                                    *)
QueueMoves ==
  /\ Linked \in Int /\ Linked' \in Int /\ Linked <= Linked'
  /\ Queued \subseteq Nat /\ Queued' \subseteq Nat
  /\ \A m \in Queued' : m >= Linked \/ m \in Queued

(* What the queue did not have from lo up to x, it does not get.           *)
LEMMA NothingBetween ==
  ASSUME QueueMoves, NEW lo \in Int, NEW x \in Int, x <= Linked,
         \A m \in Queued : lo <= m => x <= m
  PROVE  \A m \in Queued' : lo <= m => x <= m
<1> SUFFICES ASSUME NEW m \in Queued', lo <= m PROVE x <= m
  OBVIOUS
<1>1. m \in Nat /\ Linked \in Int /\ (m >= Linked \/ m \in Queued)
  BY DEF QueueMoves
<1>2. QED
  BY <1>1

(* Pages to which nothing happens keep their invariant.                    *)
LEMMA PageKept ==
  ASSUME TypeOK, NEW b \in Browser, PageOf(b), QueueMoves, gone' = 0 => gone = 0,
         lastID'[b] = lastID[b], from'[b] = from[b], shown'[b] = shown[b],
         answer'[b] \in {answer[b], None}
  PROVE  PageOf(b)'
<1>0. ShownInv(b) /\ AnswerInv(b) /\ InOrder(b) /\ NoSkip(b)
  BY DEF PageOf
<1>a. /\ lastID[b] \in Nat /\ from[b] \in Nat /\ answer[b] \in Int /\ Len(shown[b]) \in Nat
      /\ \A i \in 1..Len(shown[b]) : shown[b][i] \in Nat
      /\ shown[b] # <<>> => Len(shown[b]) > 0 /\ Latest(b) \in Nat
  BY PageTypes
<1>b. Linked \in Int /\ Linked' \in Int /\ Linked <= Linked' /\ Queued \subseteq Nat /\ Queued' \subseteq Nat
  BY DEF QueueMoves
<1>1. ShownInv(b)'
  <2>1. lastID'[b] = from'[b] + Len(shown'[b])
    BY <1>0 DEF ShownInv
  <2>2. \A i \in 1..Len(shown[b]) : shown[b][i] < Linked'
    <3> SUFFICES ASSUME NEW i \in 1..Len(shown[b]) PROVE shown[b][i] < Linked'
      OBVIOUS
    <3>1. shown[b][i] < Linked /\ shown[b][i] \in Nat
      BY <1>0, <1>a DEF ShownInv
    <3>2. QED
      BY <1>b, <3>1
  <2>3. ASSUME shown[b] # <<>>
        PROVE  /\ lastID[b] <= Latest(b) + 1
               /\ \A m \in Queued' : lastID[b] <= m => Latest(b) <= m
    <3>1. Latest(b) < Linked /\ Latest(b) \in Nat
      BY <1>0, <2>3, <1>a DEF ShownInv, Latest
    <3>2. \A m \in Queued : lastID[b] <= m => Latest(b) <= m
      BY <1>0, <2>3 DEF ShownInv
    <3> DEFINE x == Latest(b)
               lo == lastID[b]
    <3>x. x \in Int /\ lo \in Int /\ x <= Linked
      BY <1>a, <1>b, <3>1
    <3> HIDE DEF x, lo
    <3>3. \A m \in Queued' : lo <= m => x <= m
      BY <3>x, <3>2, NothingBetween, Zenon DEF x, lo
    <3>4. QED
      BY <1>0, <2>3, <3>3 DEF ShownInv, x, lo
  <2>4. QED
    BY <2>1, <2>2, <2>3 DEF ShownInv, Latest
<1>2. AnswerInv(b)'
  <2>1. ASSUME answer'[b] # None
        PROVE  /\ answer'[b] = answer[b] /\ answer[b] # None
               /\ answer[b] < Linked'
               /\ \A m \in Queued' : lastID[b] <= m => answer[b] <= m
    <3>1. answer'[b] = answer[b] /\ answer[b] # None
      BY <2>1
    <3>2. answer[b] < Linked /\ \A m \in Queued : lastID[b] <= m => answer[b] <= m
      BY <1>0, <3>1 DEF AnswerInv
    <3>x. answer[b] \in Int /\ lastID[b] \in Int /\ answer[b] <= Linked
      BY <1>a, <1>b, <3>2
    <3>3. \A m \in Queued' : lastID[b] <= m => answer[b] <= m
      BY <3>x, <3>2, NothingBetween, Zenon
    <3>4. QED
      BY <1>a, <1>b, <3>1, <3>2, <3>3
  <2>2. QED
    BY <1>0, <2>1 DEF AnswerInv, Latest
<1>3. InOrder(b)'
  BY <1>0 DEF InOrder
<1>4. NoSkip(b)'
  <2> SUFFICES ASSUME NEW i \in 1..Len(shown[b]) - 1
               PROVE  /\ shown[b][i] <= shown[b][i + 1]
                      /\ \A m \in Queued' : ~(shown[b][i] < m /\ m < shown[b][i + 1])
    BY DEF NoSkip
  <2>1. i \in 1..Len(shown[b]) /\ i + 1 \in 1..Len(shown[b])
    BY <1>a
  <2>2. shown[b][i + 1] < Linked /\ shown[b][i + 1] \in Nat /\ shown[b][i] \in Nat
    BY <1>0, <2>1, <1>a DEF ShownInv
  <2>3. \A m \in Queued : ~(shown[b][i] < m /\ m < shown[b][i + 1])
    BY <1>0 DEF NoSkip
  <2>4. shown[b][i] <= shown[b][i + 1]
    BY <1>0 DEF NoSkip
  <2> DEFINE x == shown[b][i]
             y == shown[b][i + 1]
  <2>x. x + 1 \in Int /\ x \in Nat /\ y \in Int /\ y <= Linked
    BY SMTT(20), <1>b, <2>2
  <2> HIDE DEF x, y
  <2>5. \A m \in Queued : x + 1 <= m => y <= m
    BY <1>b, <2>x, <2>3 DEF x, y
  <2>6. \A m \in Queued' : x + 1 <= m => y <= m
    BY <2>x, <2>5, NothingBetween, Zenon
  <2>7. \A m \in Queued' : ~(x < m /\ m < y)
    BY <1>b, <2>x, <2>6
  <2>8. QED
    BY <2>4, <2>7 DEF x, y
<1>5. QED
  BY <1>1, <1>2, <1>3, <1>4 DEF PageOf

-----------------------------------------------------------------------------
(* queue_pick(): the oldest message from the number asked for on, and,     *)
(* before an expiry, when every number is there, that very message.        *)
LEMMA Picks ==
  ASSUME TypeOK, QueueInv, NEW id \in Nat, NEW a,
         a = queue_pick(IF id <= 0 THEN -1 ELSE id), a # None
  PROVE  /\ a \in Queued /\ id <= a
         /\ \A m \in Queued : id <= m => a <= m
         /\ gone = 0 => a = id
<1>1. first_out # None
  BY DEF queue_pick
<1>2. Queued = first_out..last_out /\ first_out = gone /\ gone <= last_out /\ gone \in Nat /\ last_out \in Int
  BY <1>1, QueueTypes DEF Queued, QueueInv, WholeInv
<1>3. CASE id = 0
  <2>1. a = first_out
    BY <1>1, <1>3 DEF queue_pick
  <2>2. QED
    BY <1>2, <1>3, <2>1
<1>4. CASE id > 0
  <2>1. ~(last_out < id) /\ a = Nearest(id)
    BY <1>1, <1>4 DEF queue_pick
  <2> DEFINE k0 == IF id <= gone THEN gone ELSE id
             Is(m) == m >= id /\ \A k \in Queued : k >= id => m <= k
  <2>2. k0 \in Queued /\ Is(k0)
    BY <1>2, <2>1
  <2>3. a = CHOOSE m \in Queued : Is(m)
    BY <2>1 DEF Nearest
  <2> HIDE DEF k0, Is
  <2>4. a \in Queued /\ Is(a)
    BY <2>2, <2>3, Zenon
  <2>5. a \in Nat /\ id <= a /\ \A m \in Queued : id <= m => a <= m
    BY <1>2, <2>4 DEF Is
  <2>6. gone = 0 => a = id
    BY <1>2, <2>1, <2>5
  <2>7. QED
    BY <2>4, <2>5, <2>6
<1>5. QED
  BY <1>3, <1>4

-----------------------------------------------------------------------------
(* Steps of the program.                                                   *)

(* A step that leaves the pages alone.                                     *)
LEMMA ProgramStep ==
  ASSUME Inv, TypeOK', QueueInv', UNCHANGED pages, Linked <= Linked', gone' = 0 => gone = 0,
         \A m \in Queued' : m >= Linked \/ m \in Queued
  PROVE  Inv'
<1>0. TypeOK /\ QueueInv /\ PageInv
  BY DEF Inv
<1>1. Linked \in Int /\ Queued \subseteq Nat
  BY <1>0, QueueTypes
<1>2. (Linked \in Int /\ Queued \subseteq Nat)'
  BY QueueTypes, PTL
<1>3. QueueMoves
  BY <1>1, <1>2 DEF QueueMoves
<1>4. ASSUME NEW b \in Browser PROVE PageOf(b)'
  <2>1. lastID' = lastID /\ from' = from /\ shown' = shown /\ answer' = answer
    BY DEF pages
  <2>2. PageOf(b)
    BY <1>0 DEF PageInv
  <2>3. QED
    BY <1>0, <1>3, <2>1, <2>2, PageKept
<1>5. QED
  BY <1>4 DEF Inv, PageInv

LEMMA SendInv == Inv /\ web_mgr_sendMsg => Inv'
<1> SUFFICES ASSUME Inv, PutLink PROVE Inv'
  BY DEF web_mgr_sendMsg
<1>0. TypeOK /\ QueueInv
  BY DEF Inv
<1>1. /\ ppc = "idle" /\ ppc' = "last" /\ last_index < MaxMessages /\ last_index' = last_index + 1
      /\ link' = last_out /\ gone' = (IF epc = "clear" THEN last_index' ELSE gone)
      /\ (cut => cut') /\ (epc = "clear" => cut') /\ cut' \in BOOLEAN
      /\ UNCHANGED <<first_out, last_out, epc, stale, restarts, pages>>
  BY Zenon DEF PutLink
<1>2. /\ last_index \in Nat /\ gone \in Nat /\ gone <= last_index /\ None \in Int
      /\ first_out \in Int /\ last_out \in Int
  BY <1>0, QueueTypes
<1>3. TypeOK'
  <2>1. last_index' \in 0..MaxMessages /\ stale' \in 0..last_index' /\ gone' \in 0..last_index'
    BY <1>0, <1>1, <1>2, DisplayAssumption DEF TypeOK
  <2>2. QED
    BY <1>0, <1>1, <2>1 DEF TypeOK, pages
<1>4. QueueInv'
  <2>1. epc \in {"idle", "clear"}
    BY <1>0 DEF TypeOK
  <2>2. WholeInv'
    BY <1>0, <1>1, <1>2, <2>1 DEF QueueInv, WholeInv, None
  <2>3. ClearInv'
    BY <1>0, <1>1, <1>2 DEF QueueInv, ClearInv
  <2>4. EmptyInv'
    BY <1>0, <1>1, <1>2 DEF QueueInv, EmptyInv
  <2>5. QED
    BY <1>1, <1>2, <2>2, <2>3, <2>4 DEF QueueInv
<1>5. Linked' = Linked /\ Queued' = Queued
  BY <1>1, <1>2 DEF Linked, Queued
<1>6. gone' = 0 => gone = 0
  BY <1>1, <1>2
<1>7. QED
  BY <1>1, <1>2, <1>3, <1>4, <1>5, <1>6, QueueTypes, ProgramStep DEF Inv

(* The message becomes one of the queue, unless the queue is empty.        *)
LEMMA PutLastInv == Inv /\ PutLast => Inv'
<1> SUFFICES ASSUME Inv, PutLast PROVE Inv'
  OBVIOUS
<1>0. TypeOK /\ QueueInv
  BY DEF Inv
<1>1. /\ ppc = "last" /\ ppc' = "first" /\ last_out' = last_index - 1
      /\ UNCHANGED <<first_out, last_index, link, epc, stale, gone, cut, restarts, pages>>
  BY DEF PutLast
<1>2. /\ last_index \in Nat /\ last_index > 0 /\ last_index <= MaxMessages
      /\ gone \in Nat /\ gone <= last_index
      /\ first_out \in Int /\ last_out \in Int /\ MaxMessages \in Nat
  BY <1>0, <1>1, QueueTypes, DisplayAssumption DEF QueueInv
<1>3. TypeOK'
  <2>1. last_out' \in Message
    BY <1>1, <1>2 DEF Message
  <2>2. QED
    BY <1>0, <1>1, <2>1 DEF TypeOK, pages
<1>4. QueueInv'
  <2>1. WholeInv'
    BY <1>0, <1>1, <1>2 DEF QueueInv, WholeInv
  <2>2. ClearInv'
    BY <1>0, <1>1, <1>2 DEF QueueInv, ClearInv, None
  <2>3. EmptyInv'
    BY <1>0, <1>1, <1>2 DEF QueueInv, EmptyInv, None
  <2>4. QED
    BY <1>1, <1>2, <2>1, <2>2, <2>3 DEF QueueInv
<1>5. Linked <= Linked'
  BY <1>1, <1>2 DEF Linked
<1>6. \A m \in Queued' : m >= Linked \/ m \in Queued
  <2>1. CASE first_out = None
    BY <1>1, <2>1 DEF Queued
  <2>2. CASE first_out # None
    <3>1. last_out = last_index - 2 /\ Linked = last_index - 1
      BY <1>0, <1>1, <2>2 DEF QueueInv, WholeInv, Linked
    <3>2. Queued = first_out..last_out /\ Queued' = first_out..last_index - 1
      BY <1>1, <2>2 DEF Queued
    <3>3. QED
      BY <1>2, <3>1, <3>2
  <2>3. QED
    BY <2>1, <2>2
<1>7. QED
  BY <1>1, <1>3, <1>4, <1>5, <1>6, ProgramStep

(* Only an empty queue gets a new oldest message, the one just put.        *)
LEMMA PutFirstInv == Inv /\ PutFirst => Inv'
<1> SUFFICES ASSUME Inv, PutFirst PROVE Inv'
  OBVIOUS
<1>0. TypeOK /\ QueueInv
  BY DEF Inv
<1>1. /\ ppc = "first" /\ ppc' = "idle" /\ link' = None
      /\ first_out' = (IF link = None THEN last_out ELSE first_out)
      /\ UNCHANGED <<last_out, last_index, epc, stale, gone, cut, restarts, pages>>
  BY DEF PutFirst
<1>2. /\ last_index \in Nat /\ last_index > 0 /\ gone \in Nat /\ gone <= last_index
      /\ first_out \in Int /\ last_out \in Int /\ link \in Int
  BY <1>0, <1>1, QueueTypes DEF QueueInv
<1>3. TypeOK'
  BY <1>0, <1>1 DEF TypeOK, pages
<1>4. link = None => /\ first_out = None /\ epc = "idle"
                     /\ last_out = last_index - 1 /\ gone = last_index - 1
  <2> SUFFICES ASSUME link = None PROVE /\ first_out = None /\ epc = "idle"
                                        /\ last_out = last_index - 1 /\ gone = last_index - 1
    OBVIOUS
  <2>1. first_out = None
    BY <1>0, <1>1 DEF QueueInv, WholeInv
  <2>2. epc = "idle"
    BY <1>0, <1>1 DEF QueueInv, ClearInv, TypeOK
  <2>3. QED
    BY <1>0, <1>1, <2>1, <2>2 DEF QueueInv, EmptyInv
<1>5. QueueInv'
  <2>1. WholeInv'
    BY <1>0, <1>1, <1>2, <1>4 DEF QueueInv, WholeInv
  <2>2. ClearInv'
    BY <1>0, <1>1, <1>4 DEF QueueInv, ClearInv
  <2>3. EmptyInv'
    BY <1>0, <1>1, <1>2, <1>4 DEF QueueInv, EmptyInv, None
  <2>4. QED
    BY <1>1, <2>1, <2>2, <2>3 DEF QueueInv
<1>6. Linked <= Linked'
  BY <1>1, <1>2 DEF Linked
<1>7. \A m \in Queued' : m >= Linked \/ m \in Queued
  <2>1. CASE link = None
    <3>1. Linked = last_index - 1 /\ Queued' = last_index - 1..last_index - 1
      BY <1>1, <1>2, <1>4, <2>1 DEF Linked, Queued, None
    <3>2. QED
      BY <1>2, <3>1
  <2>2. CASE link # None
    BY <1>1, <2>2 DEF Queued
  <2>3. QED
    BY <2>1, <2>2
<1>8. QED
  BY <1>1, <1>3, <1>5, <1>6, <1>7, ProgramStep

LEMMA ExpireInv == Inv /\ Expire => Inv'
<1> SUFFICES ASSUME Inv, Expire PROVE Inv'
  OBVIOUS
<1>0. TypeOK /\ QueueInv
  BY DEF Inv
<1>1. /\ epc = "idle" /\ first_out # None /\ first_out' = None /\ epc' = "clear" /\ gone' = last_index
      /\ (cut => cut') /\ (ppc = "last" => cut') /\ cut' \in BOOLEAN
      /\ UNCHANGED <<last_out, last_index, ppc, link, stale, restarts, pages>>
  BY Zenon DEF Expire
<1>2. /\ last_index \in Nat /\ gone \in Nat /\ gone <= last_index
      /\ last_out \in Int /\ None \notin Nat
  BY <1>0, QueueTypes DEF None
<1>3. TypeOK'
  <2>1. gone' \in 0..last_index'
    BY <1>1, <1>2
  <2>2. QED
    BY <1>0, <1>1, <2>1 DEF TypeOK, pages
<1>4. first_out = gone /\ gone <= last_out /\ (ppc # "idle" => link # None) /\ last_out < last_index
  BY <1>0, <1>1, <1>2 DEF QueueInv, WholeInv
<1>5. QueueInv'
  <2>1. ClearInv'
    BY <1>1, <1>2, <1>4 DEF ClearInv
  <2>2. QED
    BY <1>0, <1>1, <2>1 DEF QueueInv, WholeInv, EmptyInv
<1>6. Linked' = Linked /\ Queued' = {} /\ Linked \in Int
  BY <1>0, <1>1, QueueTypes DEF Linked, Queued
<1>7. gone' # 0
  BY <1>1, <1>2, <1>4
<1>8. QED
  BY <1>1, <1>3, <1>5, <1>6, <1>7, ProgramStep

LEMMA ExpireClearInv == Inv /\ ExpireClear => Inv'
<1> SUFFICES ASSUME Inv, ExpireClear PROVE Inv'
  OBVIOUS
<1>0. TypeOK /\ QueueInv
  BY DEF Inv
<1>1. /\ epc = "clear" /\ epc' = "idle"
      /\ first_out = None /\ last_out' = None /\ gone = last_index
      /\ (ppc # "idle" => link # None) /\ (ppc = "last" => cut)
      /\ UNCHANGED <<first_out, last_index, ppc, link, stale, gone, cut, restarts, pages>>
  BY <1>0 DEF ExpireClear, QueueInv, ClearInv
<1>2. TypeOK'
  BY <1>0, <1>1 DEF TypeOK, pages
<1>3. QueueInv'
  BY <1>0, <1>1 DEF QueueInv, WholeInv, ClearInv, EmptyInv
<1>4. Linked' = Linked /\ Queued' = {} /\ Linked \in Int
  BY <1>0, <1>1, QueueTypes DEF Linked, Queued
<1>5. QED
  BY <1>1, <1>2, <1>3, <1>4, ProgramStep

LEMMA AgeInv == Inv /\ Age => Inv'
<1> SUFFICES ASSUME Inv, Age PROVE Inv'
  OBVIOUS
<1>0. TypeOK /\ QueueInv
  BY DEF Inv
<1>1. stale' \in 0..last_index /\ UNCHANGED <<queue, gone, cut, restarts, pages>>
  BY DEF Age, Inv, TypeOK
<1>2. TypeOK'
  BY <1>0, <1>1 DEF TypeOK, queue, pages
<1>3. QueueInv'
  BY <1>0, <1>1 DEF QueueInv, WholeInv, ClearInv, EmptyInv, queue
<1>4. Linked' = Linked /\ Queued' = Queued /\ Linked \in Int
  BY <1>0, <1>1, QueueTypes DEF Linked, Queued, queue
<1>5. QED
  BY <1>1, <1>2, <1>3, <1>4, ProgramStep

(* A new run of the program has shown no page anything.                    *)
LEMMA RestartInv == Inv /\ Restart => Inv'
<1> SUFFICES ASSUME Inv, Restart PROVE Inv'
  OBVIOUS
<1>0. TypeOK
  BY DEF Inv
<1>1. /\ first_out' = None /\ last_out' = None /\ last_index' = 0
      /\ ppc' = "idle" /\ link' = None /\ epc' = "idle"
      /\ stale' = 0 /\ gone' = 0 /\ cut' = FALSE /\ restarts' \in 0..MaxRestarts
      /\ answer' = [b \in Browser |-> None] /\ from' = lastID /\ lastID' = lastID
      /\ shown' = [b \in Browser |-> <<>>]
  BY <1>0, DisplayAssumption DEF Restart, TypeOK
<1>2. page' \in [Browser -> {"closed", "timer", "asking", "answered"}]
  BY <1>0 DEF Restart, TypeOK
<1>3. TypeOK'
  <2>1. stale' \in 0..last_index' /\ gone' \in 0..last_index' /\ last_index' \in 0..MaxMessages
    BY <1>1, DisplayAssumption
  <2>2. cut' \in BOOLEAN
    BY <1>1, Zenon
  <2>3. answer' \in [Browser -> Message \cup {None}] /\ shown' \in [Browser -> Seq(Message)]
    BY <1>1
  <2>4. lastID' \in [Browser -> 0..MaxMessages] /\ from' \in [Browser -> 0..MaxMessages]
    BY <1>0, <1>1 DEF TypeOK
  <2>5. QED
    BY <1>1, <1>2, <2>1, <2>2, <2>3, <2>4 DEF TypeOK
<1>4. QueueInv'
  BY <1>1 DEF QueueInv, WholeInv, ClearInv, EmptyInv
<1>5. ASSUME NEW b \in Browser PROVE PageOf(b)'
  BY <1>0, <1>1, PageTypes DEF PageOf, ShownInv, AnswerInv, InOrder, NoSkip
<1>6. QED
  BY <1>3, <1>4, <1>5 DEF Inv, PageInv

-----------------------------------------------------------------------------
(* Steps of a page.  The program and the other pages do not move.          *)
LEMMA ProgramKept ==
  ASSUME TypeOK, QueueInv, UNCHANGED program
  PROVE  QueueInv' /\ QueueMoves /\ Linked' = Linked /\ Queued' = Queued /\ gone' = gone
<1>1. UNCHANGED <<first_out, last_out, last_index, ppc, link, epc, gone, cut>>
  BY DEF program, queue
<1>2. QueueInv'
  BY <1>1 DEF QueueInv, WholeInv, ClearInv, EmptyInv
<1>3. Linked' = Linked /\ Queued' = Queued
  BY <1>1 DEF Linked, Queued
<1>4. QueueMoves
  BY <1>3, QueueTypes DEF QueueMoves
<1>5. QED
  BY <1>1, <1>2, <1>3, <1>4

LEMMA OthersKept ==
  ASSUME Inv, TypeOK', UNCHANGED program, NEW b \in Browser, PageOf(b)',
         \A c \in Browser : c # b =>
           /\ lastID'[c] = lastID[c] /\ from'[c] = from[c]
           /\ shown'[c] = shown[c] /\ answer'[c] = answer[c]
  PROVE  Inv'
<1>0. TypeOK /\ QueueInv /\ PageInv
  BY DEF Inv
<1>1. QueueInv' /\ QueueMoves /\ gone' = gone
  BY <1>0, ProgramKept
<1>4. ASSUME NEW c \in Browser, c # b PROVE PageOf(c)'
  <2>1. /\ lastID'[c] = lastID[c] /\ from'[c] = from[c]
        /\ shown'[c] = shown[c] /\ answer'[c] = answer[c]
    BY <1>4
  <2>2. PageOf(c)
    BY <1>0 DEF PageInv
  <2>3. QED
    BY <1>0, <1>1, <2>1, <2>2, PageKept
<1>5. \A c \in Browser : PageOf(c)'
  BY <1>4
<1>6. QED
  BY <1>1, <1>5 DEF Inv, PageInv

(* Steps that bring a page no command: opening, asking, losing an answer.  *)
LEMMA NoCommandInv ==
  ASSUME Inv, UNCHANGED <<program, lastID, from, shown>>,
         page' \in [Browser -> {"closed", "timer", "asking", "answered"}],
         answer' \in [Browser -> Message \cup {None}],
         \A c \in Browser : answer'[c] \in {answer[c], None}
  PROVE  Inv'
<1>0. TypeOK /\ QueueInv /\ PageInv
  BY DEF Inv
<1>1. QueueInv' /\ QueueMoves /\ gone' = gone
  BY <1>0, ProgramKept
<1>2. TypeOK'
  BY <1>0 DEF TypeOK, program, queue
<1>3. ASSUME NEW c \in Browser PROVE PageOf(c)'
  <2>1. PageOf(c)
    BY <1>0 DEF PageInv
  <2>2. QED
    BY <1>0, <1>1, <2>1, PageKept
<1>4. QED
  BY <1>1, <1>2, <1>3 DEF Inv, PageInv

LEMMA OpenInv == ASSUME Inv, NEW b \in Browser, Open(b) PROVE Inv'
BY NoCommandInv DEF Open, Inv, TypeOK, program

LEMMA AskInv == ASSUME Inv, NEW b \in Browser, Ask(b) PROVE Inv'
BY NoCommandInv DEF Ask, Inv, TypeOK, program

LEMMA ErrorInv == ASSUME Inv, NEW b \in Browser, Error(b) PROVE Inv'
BY NoCommandInv DEF Error, Inv, TypeOK, program

LEMMA CloseInv == ASSUME Inv, NEW b \in Browser, Close(b) PROVE Inv'
<1>0. TypeOK
  BY DEF Inv
<1>1. UNCHANGED program
  BY DEF Close
<1>2. /\ lastID'[b] = 0 /\ from'[b] = 0 /\ answer'[b] = None /\ shown'[b] = <<>>
      /\ \A c \in Browser : c # b =>
           /\ lastID'[c] = lastID[c] /\ from'[c] = from[c]
           /\ shown'[c] = shown[c] /\ answer'[c] = answer[c]
  BY <1>0 DEF Close, TypeOK
<1>3. TypeOK'
  <2>1. lastID' \in [Browser -> 0..MaxMessages] /\ from' \in [Browser -> 0..MaxMessages]
    BY <1>0, DisplayAssumption DEF Close, TypeOK
  <2>2. /\ page' \in [Browser -> {"closed", "timer", "asking", "answered"}]
        /\ answer' \in [Browser -> Message \cup {None}]
    BY <1>0 DEF Close, TypeOK
  <2>3. shown' \in [Browser -> Seq(Message)]
    <3>1. <<>> \in Seq(Message)
      OBVIOUS
    <3>2. QED
      BY <1>0, <3>1 DEF Close, TypeOK
  <2>4. QED
    BY <1>0, <1>1, <2>1, <2>2, <2>3 DEF TypeOK, program, queue
<1>4. PageOf(b)'
  BY <1>2 DEF PageOf, ShownInv, AnswerInv, InOrder, NoSkip
<1>5. QED
  BY <1>1, <1>2, <1>3, <1>4, OthersKept

(* The answer is the oldest message from the page's counter on.            *)
LEMMA readDataInv == ASSUME Inv, NEW b \in Browser, readData(b) PROVE Inv'
<1>0. /\ TypeOK /\ QueueInv /\ PageInv /\ PageOf(b)
      /\ ShownInv(b) /\ InOrder(b) /\ NoSkip(b)
  BY DEF Inv, PageInv, PageOf
<1>a. UNCHANGED <<program, lastID, from, shown>>
  BY DEF readData
<1>b. Linked' = Linked /\ Queued' = Queued /\ gone' = gone
  BY <1>0, <1>a, ProgramKept
<1> DEFINE a == queue_pick(IF lastID[b] <= 0 THEN -1 ELSE lastID[b])
           id == lastID[b]
<1>1. answer' = [answer EXCEPT ![b] = a]
  BY DEF readData
<1>2. /\ id \in Nat /\ last_index <= MaxMessages /\ last_index \in Nat
      /\ Linked \in Int /\ Linked <= last_index /\ Queued \subseteq Nat
      /\ \A m \in Queued : m < Linked
  BY <1>0, QueueTypes, PageTypes
<1>3. a # None => /\ a \in Queued /\ id <= a
                  /\ \A m \in Queued : id <= m => a <= m
                  /\ gone = 0 => a = id
  <2>1. a = queue_pick(IF id <= 0 THEN -1 ELSE id)
    BY Zenon DEF a
  <2> HIDE DEF a, id
  <2>2. QED
    BY <1>0, <1>2, <2>1, Picks, Zenon
<1>4. a # None => a \in Nat /\ a < Linked
  <2> HIDE DEF a
  <2>1. QED
    BY <1>2, <1>3
<1> HIDE DEF a
<1>5. a \in Message \cup {None}
  <2>1. CASE a = None
    BY <2>1
  <2>2. CASE a # None
    BY <1>2, <1>4, <2>2, DisplayAssumption DEF Message
  <2>3. QED
    BY <2>1, <2>2
<1>6. TypeOK'
  <2>1. answer' \in [Browser -> Message \cup {None}]
    BY <1>0, <1>1, <1>5 DEF TypeOK
  <2>2. page' \in [Browser -> {"closed", "timer", "asking", "answered"}]
    BY <1>0 DEF readData, TypeOK
  <2>3. QED
    BY <1>0, <1>a, <2>1, <2>2 DEF TypeOK, program, queue
<1>7. PageOf(b)'
  <2>1. answer'[b] = a
    BY <1>0, <1>1 DEF TypeOK
  <2>2. shown[b] # <<>> /\ a # None => Latest(b) <= a
    BY <1>0, <1>3 DEF ShownInv
  <2>3. AnswerInv(b)'
    BY <1>a, <1>b, <1>3, <1>4, <2>1, <2>2 DEF AnswerInv, Latest
  <2>4. ShownInv(b)' /\ InOrder(b)' /\ NoSkip(b)'
    BY <1>0, <1>a, <1>b DEF ShownInv, InOrder, NoSkip, Latest
  <2>5. QED
    BY <2>3, <2>4 DEF PageOf
<1>8. \A c \in Browser : c # b =>
        /\ lastID'[c] = lastID[c] /\ from'[c] = from[c]
        /\ shown'[c] = shown[c] /\ answer'[c] = answer[c]
  BY <1>0, <1>1, <1>a DEF TypeOK
<1>9. QED
  BY <1>a, <1>6, <1>7, <1>8, OthersKept

(* What the page shows next is what it was given, its counter goes one on. *)
LEMMA SuccessInv == ASSUME Inv, NEW b \in Browser, Success(b) PROVE Inv'
<1>0. /\ TypeOK /\ QueueInv /\ PageInv /\ PageOf(b)
      /\ ShownInv(b) /\ AnswerInv(b) /\ InOrder(b) /\ NoSkip(b)
  BY DEF Inv, PageInv, PageOf
<1>1. CASE answer[b] = None
  BY <1>0, <1>1, NoCommandInv DEF Success, TypeOK
<1>2. CASE answer[b] # None
  <2> DEFINE a == answer[b]
             n == Len(shown[b])
  <2>1. /\ UNCHANGED <<program, from>>
        /\ lastID' = [lastID EXCEPT ![b] = @ + 1]
        /\ shown' = [shown EXCEPT ![b] = Append(@, a)]
        /\ answer' = [answer EXCEPT ![b] = None]
        /\ page' = [page EXCEPT ![b] = "timer"]
    BY <1>2 DEF Success
  <2>2. Linked' = Linked /\ Queued' = Queued /\ gone' = gone
    BY <1>0, <2>1, ProgramKept
  <2>3. /\ lastID[b] \in Nat /\ from[b] \in Nat /\ a \in Nat /\ n \in Nat /\ a \in Message
        /\ last_index \in Nat /\ last_index <= MaxMessages
        /\ Linked \in Int /\ Linked <= last_index
        /\ shown[b] \in Seq(Message) /\ (shown[b] # <<>> => n > 0)
        /\ Queued \subseteq Nat
        /\ \A i \in 1..n : shown[b][i] \in Nat
    <3>1. a \in Message /\ a \in Nat
      BY <1>0, <1>2 DEF TypeOK, Message
    <3>2. QED
      BY <1>0, <3>1, QueueTypes, PageTypes
  <2>4. /\ lastID[b] <= a /\ a < Linked
        /\ gone = 0 => a = lastID[b]
        /\ \A m \in Queued : lastID[b] <= m => a <= m
        /\ shown[b] # <<>> => Latest(b) <= a
    BY <1>0, <1>2 DEF AnswerInv
  <2>5. /\ lastID'[b] = lastID[b] + 1 /\ from'[b] = from[b] /\ answer'[b] = None
        /\ shown'[b] = Append(shown[b], a)
        /\ \A c \in Browser : c # b =>
             /\ lastID'[c] = lastID[c] /\ from'[c] = from[c]
             /\ shown'[c] = shown[c] /\ answer'[c] = answer[c]
    BY <1>0, <2>1 DEF TypeOK
  <2>6. /\ shown'[b] \in Seq(Message) /\ Len(shown'[b]) = n + 1 /\ shown'[b][n + 1] = a
        /\ \A i \in 1..n : shown'[b][i] = shown[b][i]
    BY <2>3, <2>5, AppendProperties
  <2>7. TypeOK'
    <3>1. lastID[b] + 1 \in 0..MaxMessages
      BY <2>3, <2>4, DisplayAssumption
    <3>2. lastID' \in [Browser -> 0..MaxMessages]
      BY <1>0, <2>1, <3>1 DEF TypeOK
    <3>3. shown' \in [Browser -> Seq(Message)]
      <4>1. Append(shown[b], a) \in Seq(Message)
        BY <2>5, <2>6
      <4>2. QED
        BY <1>0, <2>1, <4>1 DEF TypeOK
    <3>4. /\ answer' \in [Browser -> Message \cup {None}]
          /\ page' \in [Browser -> {"closed", "timer", "asking", "answered"}]
      BY <1>0, <2>1 DEF TypeOK
    <3>5. from' = from
      BY <2>1
    <3>6. QED
      BY <1>0, <2>1, <3>2, <3>3, <3>4, <3>5 DEF TypeOK, program, queue
  <2>8. shown'[b] # <<>> /\ Latest(b)' = a
    <3>1. shown'[b] # <<>>
      BY <2>3, <2>6
    <3>2. QED
      BY <2>6, <3>1 DEF Latest
  <2>9. lastID[b] = from[b] + n /\ (\A i \in 1..n : shown[b][i] < Linked)
    BY <1>0 DEF ShownInv
  <2> HIDE DEF a, n
  <2>10. ShownInv(b)'
    <3>1. lastID'[b] = from'[b] + Len(shown'[b])
      BY SMTT(20), <2>3, <2>5, <2>6, <2>9
    <3>2. \A i \in 1..Len(shown'[b]) : shown'[b][i] < Linked'
      <4>1. \A i \in 1..n : shown'[b][i] < Linked
        BY <2>6, <2>9
      <4>2. \A i \in 1..n + 1 : i \in 1..n \/ i = n + 1
        BY <2>3
      <4>3. QED
        BY <2>2, <2>4, <2>6, <4>1, <4>2
    <3>3. lastID'[b] <= a + 1 /\ \A m \in Queued : lastID'[b] <= m => a <= m
      BY <2>3, <2>4, <2>5
    <3>4. QED
      BY <2>2, <2>8, <3>1, <3>2, <3>3 DEF ShownInv
  <2>11. AnswerInv(b)'
    BY <2>5 DEF AnswerInv
  <2>12. InOrder(b)'
    <3> SUFFICES ASSUME gone = 0 PROVE \A i \in 1..n + 1 : shown'[b][i] = from[b] + i - 1
      BY <2>2, <2>5, <2>6 DEF InOrder
    <3>1. \A i \in 1..n : shown[b][i] = from[b] + i - 1
      BY <1>0 DEF InOrder, n
    <3>2. shown'[b][n + 1] = from[b] + (n + 1) - 1
      BY <2>3, <2>4, <2>6, <2>9
    <3>3. \A i \in 1..n : shown'[b][i] = from[b] + i - 1
      BY <2>6, <3>1
    <3>4. \A i \in 1..n + 1 : i \in 1..n \/ i = n + 1
      BY <2>3
    <3>5. QED
      BY <3>2, <3>3, <3>4
  <2>13. NoSkip(b)'
    <3> SUFFICES ASSUME NEW i \in 1..n
                 PROVE  /\ shown'[b][i] <= shown'[b][i + 1]
                        /\ \A m \in Queued : ~(shown'[b][i] < m /\ m < shown'[b][i + 1])
      <4>1. Len(shown'[b]) - 1 = n
        BY <2>3, <2>6
      <4>2. QED
        BY <2>2, <4>1, Zenon DEF NoSkip
    <3>1. CASE i \in 1..n - 1
      <4>1. i \in 1..n /\ i + 1 \in 1..n
        BY <2>3, <3>1
      <4>2. shown'[b][i] = shown[b][i] /\ shown'[b][i + 1] = shown[b][i + 1]
        BY <2>6, <4>1
      <4>3. QED
        BY <1>0, <3>1, <4>2 DEF NoSkip, n
    <3>2. CASE i = n
      <4>1. shown[b] # <<>> /\ shown'[b][i] = Latest(b) /\ shown'[b][i + 1] = a
        BY <2>3, <2>6, <3>2 DEF Latest, n
      <4>2. Latest(b) \in Nat /\ lastID[b] <= Latest(b) + 1 /\ Latest(b) <= a
        BY <1>0, <2>4, <4>1, PageTypes DEF ShownInv
      <4>3. QED
        BY SMTT(20), <2>3, <2>4, <4>1, <4>2
    <3>3. QED
      BY <2>3, <3>1, <3>2
  <2>14. PageOf(b)'
    BY <2>10, <2>11, <2>12, <2>13 DEF PageOf
  <2>15. QED
    BY <2>1, <2>5, <2>7, <2>14, OthersKept
<1>3. QED
  BY <1>1, <1>2

-----------------------------------------------------------------------------
LEMMA NextInv == Inv /\ [Next]_vars => Inv'
<1> SUFFICES ASSUME Inv, [Next]_vars PROVE Inv'
  OBVIOUS
<1>1. CASE UNCHANGED vars
  BY <1>1, NoCommandInv DEF vars, pages, Inv, TypeOK
<1>2. CASE \/ web_mgr_sendMsg \/ PutLast \/ PutFirst \/ Expire \/ ExpireClear
           \/ Age \/ Restart
  BY <1>2, SendInv, PutLastInv, PutFirstInv, ExpireInv, ExpireClearInv, AgeInv, RestartInv
<1>3. CASE \E b \in Browser :
             Open(b) \/ Close(b) \/ Ask(b) \/ readData(b) \/ Success(b) \/ Error(b)
  BY <1>3, OpenInv, CloseInv, AskInv, readDataInv, SuccessInv, ErrorInv
<1>4. QED
  BY <1>1, <1>2, <1>3 DEF Next

LEMMA InvAlways == Spec => []Inv
BY InitInv, NextInv, PTL DEF Spec

(* Type correctness: the queue, what pages keep and what is on its way to  *)
(* them stay in their sets, in particular no page's counter passes the     *)
(* number of messages there can be, across restarts.                       *)
THEOREM TypeCorrect == Spec => []TypeOK
<1>1. Inv => TypeOK
  BY DEF Inv
<1>2. QED
  BY <1>1, InvAlways, PTL

(* Until something expires every page shows the commands in order, each    *)
(* once, none left out (readData, web_server.c; parseCommand, crono.js).   *)
THEOREM PrefixInOrder == Spec => []PrefixUntilExpiry
<1>1. Inv => PrefixUntilExpiry
  BY DEF Inv, PageInv, PageOf, InOrder, PrefixUntilExpiry
<1>2. QED
  BY <1>1, InvAlways, PTL

(* A page never goes back to an older command nor passes over one that the *)
(* queue still has (queue_pick(), sc_tools.c), after an expiry either.     *)
THEOREM SkipsOnlyTheRemoved == Spec => []SkipsOnlyRemoved
<1>1. Inv => SkipsOnlyRemoved
  BY DEF Inv, PageInv, PageOf, NoSkip, SkipsOnlyRemoved
<1>2. QED
  BY <1>1, InvAlways, PTL

(* Between queue operations the queue holds all that no expiry has taken,  *)
(* unless a put overlapped a removal, however often and wherever the main  *)
(* thread and the web manager interleave (queue_put(), queue_expire(),     *)
(* sc_tools.c).                                                            *)
THEOREM QueueIntact == Spec => []IntactUnlessCut
<1>1. ASSUME Inv, ppc = "idle", epc = "idle"
      PROVE  (Wedged => cut) /\ (~Wedged => Queued = gone..last_index - 1)
  <2>0. TypeOK /\ QueueInv
    BY <1>1 DEF Inv
  <2>1. Wedged => cut
    BY <1>1, <2>0 DEF Wedged, QueueInv, EmptyInv
  <2>2. CASE first_out = None /\ last_out = None
    <3>1. gone = last_index /\ last_index \in Nat /\ Queued = {}
      BY <1>1, <2>0, <2>2, QueueTypes DEF QueueInv, EmptyInv, Queued
    <3>2. gone..last_index - 1 = {}
      BY <3>1
    <3>3. QED
      BY <2>1, <3>1, <3>2
  <2>3. CASE first_out # None
    BY <1>1, <2>0, <2>1, <2>3 DEF QueueInv, WholeInv, Queued
  <2>4. CASE first_out = None /\ last_out # None
    BY <1>1, <2>1, <2>4 DEF Wedged
  <2>5. QED
    BY <2>2, <2>3, <2>4
<1>2. Inv => IntactUnlessCut
  BY <1>1 DEF IntactUnlessCut
<1>3. QED
  BY <1>2, InvAlways, PTL
=============================================================================
