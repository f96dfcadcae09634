--------------------------- MODULE SCQueueProofs ---------------------------
(***************************************************************************)
(* Theorems of the input queue, for any number of connections and messages:*)
(* what the reader of the queue may rely on although nothing is locked.    *)
(***************************************************************************)
EXTENDS SCQueue, SequenceTheorems, FiniteSetTheorems, TLAPS

Allocated == 1..Len(next)

(* An item is published once its queue_put() is over.  Only published items*)
(* are read, and nobody writes to one any more.                            *)
Published(i) == pitem[owner[i]] # i

(* queue_put(): a thread's item in hand is its own and its latest.         *)
PutInv ==
  \A h \in Http :
    /\ ppc[h] = "idle" <=> pitem[h] = Null
    /\ pitem[h] # Null =>
         /\ owner[pitem[h]] = h
         /\ \A i \in Allocated : owner[i] = h => i <= pitem[h]

(* The head of the list ends it: what was queued behind it is not linked   *)
(* from it.  So an item is the head once at most.                          *)
HeadInv == first_out # Null => next[first_out] = Null /\ Published(first_out)

(* queue_get(): what it holds is published, and no longer the head once it *)
(* has been unlinked, although another item may have become the head.      *)
GetInv ==
  /\ gpc = "test" => gitem = Null
  /\ gpc # "test" => gitem # Null /\ Published(gitem)
  /\ gpc \in {"clear", "free"} => first_out # gitem
  /\ gpc \in {"advance", "clear", "free"} => gmsg # Null /\ Published(gmsg)

FreedInv == NoUseAfterFree /\ \A i \in freed : Published(i)

(* Of two messages of a connection a comes before b.                       *)
Before(a, b) == owner[a] = owner[b] => a < b

(* Messages that were returned, the one about to be and the head are in the*)
(* order in which their connection put them.                               *)
OrderInv ==
  /\ \A i \in 1..Len(got) : got[i] \in Allocated /\ Published(got[i])
  /\ \A i, j \in 1..Len(got) : i < j => Before(got[i], got[j])
  /\ first_out # Null => \A i \in 1..Len(got) : Before(got[i], first_out)
  /\ gpc \in {"advance", "clear", "free"} => \A i \in 1..Len(got) : Before(got[i], gmsg)
  /\ gpc \in {"clear", "free"} /\ first_out # Null => Before(gmsg, first_out)

Inv == TypeOK /\ PutInv /\ HeadInv /\ GetInv /\ FreedInv /\ OrderInv
-----------------------------------------------------------------------------
LEMMA InitInv == Init => Inv
<1> SUFFICES ASSUME Init PROVE Inv
  OBVIOUS
<1>1. Len(next) = 0 /\ Len(owner) = 0 /\ Len(index) = 0 /\ Len(got) = 0
  BY DEF Init
<1>2. TypeOK
  BY <1>1, QueueAssumption DEF Init, TypeOK, Null, Item
<1>3. PutInv /\ HeadInv /\ GetInv /\ FreedInv
  BY <1>1 DEF Init, PutInv, HeadInv, GetInv, FreedInv, NoUseAfterFree
<1>4. OrderInv
  BY <1>1 DEF Init, OrderInv
<1>5. QED
  BY <1>2, <1>3, <1>4 DEF Inv

(* The variables' types as the provers take them.                          *)
LEMMA Lengths ==
  ASSUME TypeOK
  PROVE  /\ Len(next) \in Nat /\ Len(got) \in Nat
         /\ Len(owner) = Len(next) /\ Len(index) = Len(next)
         /\ \A i \in Allocated : owner[i] \in Http
         /\ Allocated \subseteq Item
         /\ first_out # Null => first_out \in Allocated
         /\ gitem # Null => gitem \in Allocated
         /\ gmsg # Null => gmsg \in Allocated
         /\ \A h \in Http : pitem[h] # Null => pitem[h] \in Allocated
<1>1. Len(next) \in Nat /\ Len(got) \in Nat /\ Len(owner) = Len(next) /\ Len(index) = Len(next)
  BY DEF TypeOK
<1>2. \A i \in Allocated : owner[i] \in Http
  BY <1>1, ElementOfSeq DEF TypeOK, Allocated
<1>3. QED
  BY SMTT(20), <1>1, <1>2, QueueAssumption DEF TypeOK, Allocated, Item, Null

(* A step that returns nothing and leaves the head alone keeps the order.  *)
LEMMA OrderKept ==
  ASSUME TypeOK, GetInv, OrderInv, UNCHANGED <<first_out, gpc, gmsg, got>>,
         \A i \in Allocated : i \in Allocated' /\ owner'[i] = owner[i],
         \A i \in Allocated : Published(i) => Published(i)'
  PROVE  OrderInv'
<1>0. \A a, b \in Allocated : Before(a, b) => Before(a, b)'
  BY DEF Before
<1>1. /\ \A i \in 1..Len(got) : got[i] \in Allocated /\ Published(got[i])
      /\ first_out # Null => first_out \in Allocated
      /\ gpc \in {"advance", "clear", "free"} => gmsg \in Allocated
  BY Lengths DEF OrderInv, GetInv
<1>2. \A i \in 1..Len(got) : got'[i] \in Allocated' /\ Published(got[i])'
  BY <1>1
<1>3. \A i, j \in 1..Len(got) : i < j => Before(got[i], got[j])'
  BY <1>0, <1>1 DEF OrderInv
<1>4. first_out # Null => \A i \in 1..Len(got) : Before(got[i], first_out)'
  BY <1>0, <1>1 DEF OrderInv
<1>5. gpc \in {"advance", "clear", "free"} => \A i \in 1..Len(got) : Before(got[i], gmsg)'
  BY <1>0, <1>1 DEF OrderInv
<1>6. gpc \in {"clear", "free"} /\ first_out # Null => Before(gmsg, first_out)'
  BY <1>0, <1>1 DEF OrderInv
<1>7. QED
  BY <1>2, <1>3, <1>4, <1>5, <1>6 DEF OrderInv

(* queue_put() of a thread between its accesses to the queue: a new item,  *)
(* or a link of the item in hand.                                          *)
LEMMA AllocInv ==
  ASSUME Inv, NEW h \in Http, PutAlloc(h)
  PROVE  Inv'
<1> DEFINE n == Len(next)
<1>0. TypeOK /\ PutInv /\ HeadInv /\ GetInv /\ FreedInv /\ OrderInv
  BY DEF Inv
<1>1. n \in Nat /\ Len(got) \in Nat /\ Len(owner) = n /\ Len(index) = n /\ n + 1 <= MaxItems
  BY <1>0, Lengths, QueueAssumption DEF PutAlloc
<1>2. /\ next' \in Seq(Item \cup {Null}) /\ Len(next') = n + 1
      /\ \A i \in Allocated : next'[i] = next[i]
  BY <1>0, <1>1, AppendProperties DEF PutAlloc, TypeOK, Allocated
<1>3. /\ owner' \in Seq(Http) /\ Len(owner') = n + 1 /\ owner'[n + 1] = h
      /\ \A i \in Allocated : owner'[i] = owner[i]
  BY <1>0, <1>1, AppendProperties DEF PutAlloc, TypeOK, Allocated
<1>4. index' \in Seq(Nat) /\ Len(index') = n + 1 /\ last_index' \in Nat
  BY <1>0, <1>1, AppendProperties DEF PutAlloc, TypeOK
<1>5. /\ pitem' \in [Http -> 0..n + 1] /\ ppc' \in [Http -> {"idle", "link", "last", "first"}]
      /\ pitem'[h] = n + 1 /\ ppc'[h] = "link"
      /\ \A g \in Http \ {h} : pitem'[g] = pitem[g] /\ ppc'[g] = ppc[g]
  BY <1>0, <1>1 DEF PutAlloc, TypeOK
<1>6. UNCHANGED <<freed, first_out, last_out, gpc, gitem, gmsg, got>>
  BY DEF PutAlloc
<1> HIDE DEF n
<1>7. TypeOK'
  <2>1. freed \subseteq 1..n + 1 /\ {first_out, last_out, gitem, gmsg} \subseteq 0..n + 1
    BY <1>0, <1>1 DEF TypeOK, n
  <2>2. QED
    BY <1>0, <1>1, <1>2, <1>3, <1>4, <1>5, <1>6, <2>1 DEF TypeOK
<1>8. Allocated = 1..n /\ Allocated' = 1..n + 1 /\ (\A i \in Allocated : owner[i] \in Http)
  BY <1>0, <1>2, Lengths DEF Allocated, n
<1>9. \A i \in Allocated : Published(i) => Published(i)'
  BY <1>1, <1>3, <1>5, <1>8 DEF Published
<1>10. PutInv'
  <2> SUFFICES ASSUME NEW g \in Http
               PROVE  /\ ppc'[g] = "idle" <=> pitem'[g] = Null
                      /\ pitem'[g] # Null =>
                           /\ owner'[pitem'[g]] = g
                           /\ \A i \in Allocated' : owner'[i] = g => i <= pitem'[g]
    BY DEF PutInv
  <2>1. CASE g = h
    BY <1>1, <1>3, <1>5, <1>8, <2>1 DEF Null
  <2>2. CASE g # h
    <3>1. pitem[g] # Null => pitem[g] \in Allocated
      BY <1>0, Lengths
    <3>2. QED
      BY SMTT(20), <1>0, <1>1, <1>3, <1>5, <1>8, <2>2, <3>1 DEF PutInv
  <2>3. QED
    BY <2>1, <2>2
<1>11. HeadInv' /\ GetInv' /\ FreedInv'
  BY <1>0, <1>2, <1>6, <1>8, <1>9, Lengths DEF HeadInv, GetInv, FreedInv, NoUseAfterFree, TypeOK, Allocated
<1>12. OrderInv'
  BY <1>0, <1>1, <1>3, <1>6, <1>8, <1>9, OrderKept
<1>13. QED
  BY <1>7, <1>10, <1>11, <1>12 DEF Inv

LEMMA LinkInv ==
  ASSUME Inv, NEW h \in Http, PutLink(h)
  PROVE  Inv'
<1>0. TypeOK /\ PutInv /\ HeadInv /\ GetInv /\ FreedInv /\ OrderInv
  BY DEF Inv
<1>1. pitem[h] \in Allocated /\ last_out \in Item \cup {Null}
  BY SMTT(20), <1>0, Lengths DEF PutLink, PutInv, TypeOK, Allocated, Item, Null
<1>2. /\ next' \in Seq(Item \cup {Null}) /\ Len(next') = Len(next)
      /\ \A i \in Allocated : i # pitem[h] => next'[i] = next[i]
  BY <1>0, <1>1, ExceptSeq DEF PutLink, TypeOK, Allocated
<1>3. /\ ppc' \in [Http -> {"idle", "link", "last", "first"}]
      /\ \A g \in Http : ppc'[g] = "idle" <=> ppc[g] = "idle"
  BY <1>0 DEF PutLink, TypeOK
<1>4. UNCHANGED <<owner, index, freed, first_out, last_out, last_index, pitem, gpc, gitem, gmsg, got>>
  BY DEF PutLink
<1>5. Allocated' = Allocated
  BY <1>2 DEF Allocated
<1>6. TypeOK'
  BY <1>0, <1>2, <1>3, <1>4 DEF TypeOK
<1>7. PutInv'
  BY <1>0, <1>3, <1>4, <1>5 DEF PutInv
<1>8. HeadInv'
  <2>1. first_out # Null => first_out \in Allocated /\ first_out # pitem[h]
    BY <1>0, <1>1, Lengths DEF HeadInv, PutInv, Published, Null, Allocated
  <2>2. QED
    BY <1>0, <1>2, <1>4, <2>1 DEF HeadInv, Published
<1>9. GetInv' /\ FreedInv' /\ OrderInv'
  BY <1>0, <1>4, <1>5 DEF GetInv, FreedInv, NoUseAfterFree, OrderInv, Before, Published
<1>10. QED
  BY <1>6, <1>7, <1>8, <1>9 DEF Inv

LEMMA LastInv ==
  ASSUME Inv, NEW h \in Http, PutLast(h)
  PROVE  Inv'
<1>0. TypeOK /\ PutInv /\ HeadInv /\ GetInv /\ FreedInv /\ OrderInv
  BY DEF Inv
<1>1. UNCHANGED <<next, owner, index, freed, first_out, last_index, pitem, gpc, gitem, gmsg, got>>
  BY DEF PutLast
<1>2. /\ ppc' \in [Http -> {"idle", "link", "last", "first"}]
      /\ \A g \in Http : ppc'[g] = "idle" <=> ppc[g] = "idle"
  BY <1>0 DEF PutLast, TypeOK
<1>3. TypeOK'
  <2>1. last_out' \in 0..Len(next)
    BY <1>0 DEF PutLast, TypeOK
  <2>2. QED
    BY <1>0, <1>1, <1>2, <2>1 DEF TypeOK
<1>4. PutInv' /\ HeadInv' /\ GetInv' /\ FreedInv' /\ OrderInv'
  BY <1>0, <1>1, <1>2 DEF PutInv, HeadInv, GetInv, FreedInv, NoUseAfterFree, OrderInv, Before,
                          Published, Allocated
<1>5. QED
  BY <1>3, <1>4 DEF Inv

(* The end of queue_put(): the item is published, and is the head if it    *)
(* was linked to nothing.                                                  *)
LEMMA FirstInv ==
  ASSUME Inv, NEW h \in Http, PutFirst(h)
  PROVE  Inv'
<1> DEFINE p == pitem[h]
<1>0. TypeOK /\ PutInv /\ HeadInv /\ GetInv /\ FreedInv /\ OrderInv
  BY DEF Inv
<1>1. /\ UNCHANGED <<next, owner, index, freed, last_out, last_index, gpc, gitem, gmsg, got>>
      /\ Allocated' = Allocated
  BY DEF PutFirst, Allocated
<1>2. p \in Allocated /\ p # Null /\ owner[p] = h /\ ~Published(p)
  BY <1>0, Lengths DEF PutFirst, PutInv, Published
<1>3. /\ ppc' \in [Http -> {"idle", "link", "last", "first"}] /\ ppc'[h] = "idle"
      /\ pitem' \in [Http -> 0..Len(next)] /\ pitem'[h] = Null
      /\ \A g \in Http \ {h} : ppc'[g] = ppc[g] /\ pitem'[g] = pitem[g]
  BY <1>0, Lengths DEF PutFirst, TypeOK, Null
<1>4. \/ first_out' = p /\ next[p] = Null
      \/ first_out' = first_out
  BY DEF PutFirst
<1> HIDE DEF p
<1>5. TypeOK'
  <2>1. first_out' \in 0..Len(next) /\ (first_out # Null => first_out' # Null)
    BY SMTT(20), <1>0, <1>2, <1>4, Lengths DEF TypeOK, Allocated
  <2>2. QED
    BY <1>0, <1>1, <1>3, <2>1 DEF TypeOK
<1>6. PutInv'
  BY <1>0, <1>1, <1>3 DEF PutInv
<1>7. \A i \in Allocated : Published(i)' <=> (Published(i) \/ i = p)
  <2>1. \A i \in Allocated : i # Null /\ owner[i] \in Http
    BY <1>0, Lengths DEF Allocated, Null
  <2>2. QED
    BY <1>0, <1>1, <1>2, <1>3, <2>1 DEF Published, p
<1>8. /\ \A i \in 1..Len(got) : got[i] \in Allocated /\ Published(got[i])
      /\ first_out # Null => first_out \in Allocated /\ Published(first_out)
      /\ gpc # "test" => gitem \in Allocated /\ Published(gitem)
      /\ gpc \in {"advance", "clear", "free"} => gmsg \in Allocated /\ Published(gmsg)
      /\ \A i \in freed : i \in Allocated /\ Published(i)
  BY <1>0, Lengths DEF OrderInv, HeadInv, GetInv, FreedInv, TypeOK, Allocated
<1>9. HeadInv'
  BY <1>1, <1>2, <1>4, <1>7, <1>8, <1>0 DEF HeadInv
<1>10. GetInv'
  BY <1>0, <1>1, <1>2, <1>4, <1>7, <1>8 DEF GetInv
<1>11. FreedInv'
  <2>1. first_out' \notin freed
    BY <1>0, <1>2, <1>4, <1>8 DEF FreedInv, NoUseAfterFree
  <2>2. QED
    BY <1>0, <1>1, <1>7, <1>8, <2>1 DEF FreedInv, NoUseAfterFree
<1>12. OrderInv'
  <2>1. \A i \in Allocated : Published(i) => Before(i, p)
    <3>1. \A i \in Allocated : owner[i] = h => i <= p
      BY <1>0, <1>2 DEF PutInv, p
    <3>2. QED
      BY <1>2, <3>1, Lengths, <1>0 DEF Before, Allocated
  <2>2. \A a, b : Before(a, b)' <=> Before(a, b)
    BY <1>1 DEF Before
  <2>3. \A i \in 1..Len(got) : got'[i] \in Allocated' /\ Published(got[i])'
    BY <1>1, <1>7, <1>8
  <2>4. \A i, j \in 1..Len(got) : i < j => Before(got[i], got[j])
    BY <1>0 DEF OrderInv
  <2>5. first_out' # Null => \A i \in 1..Len(got) : Before(got[i], first_out')
    BY <1>0, <1>4, <1>8, <2>1 DEF OrderInv
  <2>6. gpc \in {"advance", "clear", "free"} => \A i \in 1..Len(got) : Before(got[i], gmsg)
    BY <1>0 DEF OrderInv
  <2>7. gpc \in {"clear", "free"} /\ first_out' # Null => Before(gmsg, first_out')
    BY <1>0, <1>4, <1>8, <2>1 DEF OrderInv
  <2>8. QED
    BY <1>1, <2>2, <2>3, <2>4, <2>5, <2>6, <2>7 DEF OrderInv, Before
<1>13. QED
  BY <1>5, <1>6, <1>9, <1>10, <1>11, <1>12 DEF Inv

-----------------------------------------------------------------------------
(* queue_get().  These steps leave the items and the writers alone.        *)
Writers == <<next, owner, index, last_index, ppc, pitem>>

LEMMA WritersKept ==
  ASSUME UNCHANGED Writers
  PROVE  /\ Allocated' = Allocated
         /\ \A i : Published(i)' <=> Published(i)
         /\ \A a, b : Before(a, b)' <=> Before(a, b)
         /\ PutInv => PutInv'
BY DEF Writers, Allocated, Published, Before, PutInv

LEMMA TestInv == Inv /\ GetTest => Inv'
<1> SUFFICES ASSUME Inv, GetTest PROVE Inv'
  OBVIOUS
<1>0. TypeOK /\ PutInv /\ HeadInv /\ GetInv /\ FreedInv /\ OrderInv
  BY DEF Inv
<1>1. UNCHANGED Writers /\ UNCHANGED <<freed, first_out, last_out, gmsg, got>>
      /\ gpc = "test" /\ gpc' = "read" /\ first_out # Null /\ gitem' = first_out
  BY DEF GetTest, Writers
<1>2. TypeOK'
  BY <1>0, <1>1 DEF TypeOK, Writers
<1>3. HeadInv' /\ GetInv' /\ FreedInv'
  BY <1>0, <1>1, WritersKept DEF HeadInv, GetInv, FreedInv, NoUseAfterFree, Writers
<1>4. OrderInv'
  BY <1>0, <1>1, WritersKept DEF OrderInv
<1>5. QED
  BY <1>0, <1>1, <1>2, <1>3, <1>4, WritersKept DEF Inv

LEMMA ReadInv == Inv /\ GetRead => Inv'
<1> SUFFICES ASSUME Inv, GetRead PROVE Inv'
  OBVIOUS
<1>0. TypeOK /\ PutInv /\ HeadInv /\ GetInv /\ FreedInv /\ OrderInv
  BY DEF Inv
<1>1. UNCHANGED Writers /\ UNCHANGED <<freed, first_out, last_out, gitem, got>>
      /\ gpc = "read" /\ gpc' = "advance" /\ gmsg' = first_out
  BY DEF GetRead, Writers
<1>2. first_out # Null
  BY <1>0, <1>1 DEF TypeOK
<1>3. TypeOK'
  BY <1>0, <1>1, <1>2 DEF TypeOK, Writers
<1>4. HeadInv' /\ GetInv' /\ FreedInv'
  BY <1>0, <1>1, <1>2, WritersKept DEF HeadInv, GetInv, FreedInv, NoUseAfterFree, Writers
<1>5. OrderInv'
  BY <1>0, <1>1, <1>2, WritersKept DEF OrderInv
<1>6. QED
  BY <1>0, <1>1, <1>3, <1>4, <1>5, WritersKept DEF Inv

(* What the head is linked to is nothing: the queue is empty afterwards.   *)
LEMMA AdvanceInv == Inv /\ GetAdvance => Inv'
<1> SUFFICES ASSUME Inv, GetAdvance PROVE Inv'
  OBVIOUS
<1>0. TypeOK /\ PutInv /\ HeadInv /\ GetInv /\ FreedInv /\ OrderInv
  BY DEF Inv
<1>1. UNCHANGED Writers /\ UNCHANGED <<freed, last_out, gitem, gmsg, got>>
      /\ gpc = "advance" /\ gpc' = "clear" /\ first_out' = next[first_out]
  BY DEF GetAdvance, Writers
<1>2. first_out' = Null
  BY <1>0, <1>1 DEF TypeOK, HeadInv
<1>3. TypeOK'
  <2>1. first_out' \in 0..Len(next)
    BY <1>0, <1>2, Lengths DEF Null
  <2>2. QED
    BY <1>0, <1>1, <2>1 DEF TypeOK, Writers
<1>4. HeadInv' /\ GetInv'
  BY <1>0, <1>1, <1>2, WritersKept DEF HeadInv, GetInv
<1>5. FreedInv'
  <2>1. Null \notin freed
    BY <1>0, Lengths DEF TypeOK, Null
  <2>2. QED
    BY <1>0, <1>1, <1>2, <2>1, WritersKept DEF FreedInv, NoUseAfterFree
<1>6. OrderInv'
  BY <1>0, <1>1, <1>2, WritersKept DEF OrderInv
<1>7. QED
  BY <1>0, <1>1, <1>3, <1>4, <1>5, <1>6, WritersKept DEF Inv

LEMMA ClearInv == Inv /\ GetClear => Inv'
<1> SUFFICES ASSUME Inv, GetClear PROVE Inv'
  OBVIOUS
<1>0. TypeOK /\ PutInv /\ HeadInv /\ GetInv /\ FreedInv /\ OrderInv
  BY DEF Inv
<1>1. UNCHANGED Writers /\ UNCHANGED <<freed, first_out, gitem, gmsg, got>>
      /\ gpc = "clear" /\ gpc' = "free" /\ last_out' \in {Null, last_out}
  BY DEF GetClear, Writers
<1>2. TypeOK'
  <2>1. last_out' \in 0..Len(next)
    BY <1>0, <1>1, Lengths DEF TypeOK, Null
  <2>2. QED
    BY <1>0, <1>1, <2>1 DEF TypeOK, Writers
<1>3. HeadInv' /\ GetInv' /\ FreedInv'
  BY <1>0, <1>1, WritersKept DEF HeadInv, GetInv, FreedInv, NoUseAfterFree, Writers
<1>4. OrderInv'
  BY <1>0, <1>1, WritersKept DEF OrderInv
<1>5. QED
  BY <1>0, <1>1, <1>2, <1>3, <1>4, WritersKept DEF Inv

LEMMA FreeInv == Inv /\ GetFree => Inv'
<1> SUFFICES ASSUME Inv, GetFree PROVE Inv'
  OBVIOUS
<1>0. TypeOK /\ PutInv /\ HeadInv /\ GetInv /\ FreedInv /\ OrderInv
  BY DEF Inv
<1>1. UNCHANGED Writers /\ UNCHANGED <<first_out, last_out>>
      /\ gpc = "free" /\ gpc' = "test" /\ gitem' = Null /\ gmsg' = Null
      /\ freed' = freed \cup {gitem}
  BY DEF GetFree, Writers
<1>2. /\ gitem \in Allocated /\ Published(gitem) /\ gitem # first_out
      /\ gmsg \in Allocated /\ Published(gmsg)
  BY <1>0, <1>1, Lengths DEF GetInv
<1>3. /\ got' \in Seq(Item) /\ Len(got') = Len(got) + 1 /\ got'[Len(got) + 1] = gmsg
      /\ \A i \in 1..Len(got) : got'[i] = got[i]
  BY <1>0, <1>2, Lengths, AppendProperties DEF GetFree, TypeOK
<1>4. TypeOK'
  <2>1. freed' \subseteq 1..Len(next) /\ Null \in 0..Len(next)
    BY SMTT(20), <1>0, <1>1, <1>2, Lengths DEF TypeOK, Allocated, Null
  <2>2. QED
    BY <1>0, <1>1, <1>3, <2>1 DEF TypeOK, Writers
<1>5. HeadInv' /\ GetInv'
  BY <1>0, <1>1, WritersKept DEF HeadInv, GetInv, Writers
<1>6. FreedInv'
  BY <1>0, <1>1, <1>2, WritersKept DEF FreedInv, NoUseAfterFree
<1>7. OrderInv'
  <2> DEFINE n == Len(got)
  <2>1. n \in Nat /\ Len(got') = n + 1
    BY <1>0, <1>3, Lengths
  <2>2. \A i \in 1..n + 1 : got'[i] = IF i = n + 1 THEN gmsg ELSE got[i]
    BY <1>3, <2>1
  <2>3. \A i \in 1..n : got[i] \in Allocated /\ Published(got[i]) /\ Before(got[i], gmsg)
    BY <1>0, <1>1 DEF OrderInv
  <2>4. \A i, j \in 1..n : i < j => Before(got[i], got[j])
    BY <1>0 DEF OrderInv
  <2>5. first_out # Null => Before(gmsg, first_out) /\ \A i \in 1..n : Before(got[i], first_out)
    BY <1>0, <1>1 DEF OrderInv
  <2> HIDE DEF n
  <2>6. \A i \in 1..n + 1 : got'[i] \in Allocated /\ Published(got'[i])
    BY <1>2, <2>1, <2>2, <2>3
  <2>7. \A i, j \in 1..n + 1 : i < j => Before(got'[i], got'[j])
    BY <2>1, <2>2, <2>3, <2>4
  <2>8. first_out # Null => \A i \in 1..n + 1 : Before(got'[i], first_out)
    BY <2>1, <2>2, <2>5
  <2>9. QED
    BY <1>1, <2>1, <2>6, <2>7, <2>8, WritersKept DEF OrderInv
<1>8. QED
  BY <1>0, <1>1, <1>4, <1>5, <1>6, <1>7, WritersKept DEF Inv

-----------------------------------------------------------------------------
LEMMA NextInv == Inv /\ [Next]_vars => Inv'
<1> SUFFICES ASSUME Inv, [Next]_vars PROVE Inv'
  OBVIOUS
<1>1. ASSUME NEW h \in Http, Put(h) PROVE Inv'
  BY <1>1, AllocInv, LinkInv, LastInv, FirstInv DEF Put
<1>2. CASE Get
  BY <1>2, TestInv, ReadInv, AdvanceInv, ClearInv, FreeInv DEF Get
<1>3. CASE UNCHANGED vars
  BY <1>3 DEF vars, Inv, TypeOK, PutInv, HeadInv, GetInv, FreedInv, NoUseAfterFree, OrderInv,
              Before, Published, Allocated
<1>4. QED
  BY <1>1, <1>2, <1>3 DEF Next

LEMMA InvAlways == Spec => []Inv
<1>1. Inv /\ [Next]_vars => Inv'
  BY NextInv
<1>2. QED
  BY InitInv, <1>1, PTL DEF Spec

(* The types of the queue, and that queue_get() follows no NULL pointer:   *)
(* between its test and the last use of q->first_out nobody else clears it.*)
THEOREM TypeCorrect == Spec => []TypeOK
<1>1. Inv => TypeOK
  BY DEF Inv
<1>2. QED
  BY <1>1, InvAlways, PTL

(* Whatever the threads of the connections do, and with no lock, the web   *)
(* manager never frees or reads an item that it has freed.                 *)
THEOREM NeverUsedAfterFree == Spec => []NoUseAfterFree
<1>1. Inv => NoUseAfterFree
  BY DEF Inv, FreedInv
<1>2. QED
  BY <1>1, InvAlways, PTL

-----------------------------------------------------------------------------
(* The refinement.  The abstract state, as SCQueue maps it.                *)
Sent  == [h \in Http |-> SentBy(h)]
Taken == [k \in 1..Len(got) |-> [from |-> owner[got[k]], n |-> RankOf(got[k])]]

Own(m) == {i \in 1..m : owner[i] = owner[m]}

(* Ranks count the messages of a connection: from one up to those it sent, *)
(* in order.                                                               *)
LEMMA Ranks ==
  ASSUME TypeOK
  PROVE  /\ \A m \in Allocated : RankOf(m) \in 1..SentBy(owner[m])
         /\ \A a, b \in Allocated : owner[a] = owner[b] /\ a < b => RankOf(a) < RankOf(b)
         /\ \A h \in Http : SentBy(h) \in Nat
<1> DEFINE Of(h) == {i \in 1..Len(owner) : owner[i] = h}
<1>0. Len(owner) = Len(next) /\ Len(next) \in Nat /\ Allocated = 1..Len(owner)
  BY Lengths DEF Allocated
<1>1. \A h : IsFiniteSet(Of(h)) /\ Cardinality(Of(h)) \in Nat
  <2> SUFFICES ASSUME NEW h PROVE IsFiniteSet(Of(h)) /\ Cardinality(Of(h)) \in Nat
    OBVIOUS
  <2>1. IsFiniteSet(1..Len(owner))
    BY <1>0, FS_Interval
  <2>2. Of(h) \in SUBSET (1..Len(owner))
    OBVIOUS
  <2>3. IsFiniteSet(Of(h))
    BY <2>1, <2>2, FS_Subset
  <2>4. QED
    BY <2>3, FS_CardinalityType
<1>2. \A m \in Allocated : Own(m) \in SUBSET Of(owner[m]) /\ m \in Own(m)
  BY <1>0 DEF Own
<1>3. \A m \in Allocated : IsFiniteSet(Own(m)) /\ Cardinality(Own(m)) \in Nat
                            /\ Cardinality(Own(m)) <= Cardinality(Of(owner[m]))
  BY <1>1, <1>2, FS_Subset, FS_CardinalityType
<1>4. \A m \in Allocated : Cardinality(Own(m)) # 0
  BY <1>2, <1>3, FS_EmptySet
<1>5. \A a, b \in Allocated : owner[a] = owner[b] /\ a < b =>
         Own(a) \in SUBSET Own(b) /\ Own(a) # Own(b)
  BY <1>0 DEF Own
<1>6. \A a, b \in Allocated : owner[a] = owner[b] /\ a < b =>
         Cardinality(Own(a)) <= Cardinality(Own(b)) /\ Cardinality(Own(a)) # Cardinality(Own(b))
  BY <1>3, <1>5, FS_Subset
<1>7. /\ \A m : RankOf(m) = Cardinality(Own(m))
      /\ \A h : SentBy(h) = Cardinality(Of(h))
  BY DEF RankOf, SentBy, Own
<1> HIDE DEF Of
<1>8. QED
  BY <1>1, <1>3, <1>4, <1>6, <1>7

(* A new item is one more of its connection, and changes no rank.          *)
LEMMA AllocMaps ==
  ASSUME Inv, NEW h \in Http, PutAlloc(h)
  PROVE  Sent' = [Sent EXCEPT ![h] = @ + 1] /\ Taken' = Taken
<1> DEFINE n == Len(next)
           Of(g) == {i \in 1..n : owner[i] = g}
<1>0. TypeOK /\ OrderInv
  BY DEF Inv
<1>1. n \in Nat /\ Len(owner) = n /\ Allocated = 1..n
  BY <1>0, Lengths DEF Allocated
<1>2. /\ Len(owner') = n + 1 /\ owner'[n + 1] = h /\ got' = got
      /\ \A i \in 1..n : owner'[i] = owner[i]
  BY <1>0, <1>1, AppendProperties DEF PutAlloc, TypeOK
<1> HIDE DEF n
<1>3. \A g \in Http : {i \in 1..n + 1 : owner'[i] = g}
                       = IF g = h THEN Of(g) \cup {n + 1} ELSE Of(g)
  BY <1>1, <1>2
<1>4. \A g \in Http : IsFiniteSet(Of(g)) /\ n + 1 \notin Of(g)
  <2>1. IsFiniteSet(1..n)
    BY <1>1, FS_Interval
  <2>2. \A g \in Http : Of(g) \in SUBSET (1..n)
    OBVIOUS
  <2>3. QED
    BY <1>1, <2>1, <2>2, FS_Subset
<1>5. \A g \in Http : SentBy(g) = Cardinality(Of(g))
  BY <1>1 DEF SentBy
<1>6. \A g \in Http : SentBy(g)' = IF g = h THEN SentBy(g) + 1 ELSE SentBy(g)
  <2>1. \A g \in Http : SentBy(g)' = Cardinality({i \in 1..n + 1 : owner'[i] = g})
    BY <1>2 DEF SentBy
  <2>2. \A g \in Http : Cardinality(Of(g) \cup {n + 1}) = Cardinality(Of(g)) + 1
    BY <1>4, FS_AddElement
  <2> HIDE DEF Of
  <2>3. QED
    BY <1>3, <1>5, <2>1, <2>2
<1>7. Sent' = [Sent EXCEPT ![h] = @ + 1]
  BY <1>6 DEF Sent
<1>8. \A m \in 1..n : RankOf(m)' = RankOf(m)
  <2> SUFFICES ASSUME NEW m \in 1..n
               PROVE  {i \in 1..m : owner'[i] = owner'[m]} = {i \in 1..m : owner[i] = owner[m]}
    BY DEF RankOf
  <2>1. \A i \in 1..m : owner'[i] = owner[i]
    BY <1>1, <1>2
  <2>2. QED
    BY <1>1, <1>2, <2>1
<1>9. \A k \in 1..Len(got) : owner'[got[k]] = owner[got[k]] /\ RankOf(got[k])' = RankOf(got[k])
  BY <1>0, <1>1, <1>2, <1>8 DEF OrderInv
<1>10. Taken' = Taken
  BY <1>2, <1>9 DEF Taken
<1>11. QED
  BY <1>7, <1>10

(* A message returned is taken, and newer than those taken before.         *)
LEMMA FreeMaps ==
  ASSUME Inv, GetFree
  PROVE  /\ owner[gmsg] \in Http
         /\ RankOf(gmsg) \in 1..Sent[owner[gmsg]]
         /\ \A k \in 1..Len(Taken) : Taken[k].from = owner[gmsg] => Taken[k].n < RankOf(gmsg)
         /\ Taken' = Append(Taken, [from |-> owner[gmsg], n |-> RankOf(gmsg)])
         /\ Sent' = Sent
<1> DEFINE n == Len(got)
           e == [from |-> owner[gmsg], n |-> RankOf(gmsg)]
<1>0. TypeOK /\ GetInv /\ OrderInv
  BY DEF Inv
<1>1. n \in Nat /\ gmsg \in Allocated /\ owner[gmsg] \in Http /\ got \in Seq(Item) /\ gmsg \in Item
  BY <1>0, Lengths DEF GetFree, GetInv, TypeOK
<1>2. owner' = owner /\ Sent' = Sent /\ \A m : RankOf(m)' = RankOf(m)
  BY DEF GetFree, Sent, SentBy, RankOf
<1>3. RankOf(gmsg) \in 1..Sent[owner[gmsg]]
  BY <1>0, <1>1, Ranks DEF Sent
<1>4. \A k \in 1..n : got[k] \in Allocated /\ Before(got[k], gmsg)
  BY <1>0 DEF GetFree, OrderInv
<1>5. \A k \in 1..n : RankOf(got[k]) \in Nat
  BY <1>0, <1>4, Ranks, Lengths
<1>6. Taken \in Seq([from : Http, n : Nat]) /\ Len(Taken) = n
  <2>1. \A k \in 1..n : owner[got[k]] \in Http
    BY <1>0, <1>4, Lengths
  <2>2. \A k \in 1..n : [from |-> owner[got[k]], n |-> RankOf(got[k])] \in [from : Http, n : Nat]
    BY <1>5, <2>1
  <2>3. QED
    BY <1>1, <2>2 DEF Taken
<1>7. \A k \in 1..n : Taken[k].from = owner[gmsg] => Taken[k].n < RankOf(gmsg)
  <2>1. \A k \in 1..n : Taken[k].from = owner[got[k]] /\ Taken[k].n = RankOf(got[k])
    BY DEF Taken
  <2>2. \A k \in 1..n : owner[got[k]] = owner[gmsg] => RankOf(got[k]) < RankOf(gmsg)
    BY <1>0, <1>1, <1>4, Ranks DEF Before
  <2>3. QED
    BY <2>1, <2>2
<1>8. /\ Len(got') = n + 1 /\ got'[n + 1] = gmsg
      /\ \A k \in 1..n : got'[k] = got[k]
  BY <1>1, AppendProperties DEF GetFree
<1> HIDE DEF n
<1>9. Taken' = [k \in 1..n + 1 |-> IF k = n + 1 THEN e ELSE Taken[k]]
  <2>1. \A k \in 1..n : [from |-> owner'[got'[k]], n |-> RankOf(got'[k])] = Taken[k]
    BY <1>2, <1>8 DEF Taken, n
  <2>2. [from |-> owner'[got'[n + 1]], n |-> RankOf(got'[n + 1])] = e
    BY <1>2, <1>8
  <2>3. Taken' = [k \in 1..n + 1 |-> [from |-> owner'[got'[k]], n |-> RankOf(got'[k])]]
    BY <1>2, <1>8 DEF Taken, RankOf
  <2>4. QED
    BY <1>1, <2>1, <2>2, <2>3
<1>10. e \in [from : Http, n : Nat]
  BY <1>0, <1>1, <1>3, Ranks
<1>11. Taken' = Append(Taken, e)
  <2> HIDE DEF e
  <2> DEFINE t == [k \in 1..n + 1 |-> IF k = n + 1 THEN e ELSE Taken[k]]
             T == [from : Http, n : Nat]
  <2>1. \A k \in 1..n : Taken[k] \in T
    BY <1>1, <1>6, ElementOfSeq
  <2>2. t \in Seq(T) /\ Len(t) = n + 1
    BY <1>1, <1>10, <2>1
  <2>3. /\ Append(Taken, e) \in Seq(T) /\ Len(Append(Taken, e)) = n + 1
        /\ \A k \in 1..n : Append(Taken, e)[k] = Taken[k]
        /\ Append(Taken, e)[n + 1] = e
    BY <1>6, <1>10, AppendProperties
  <2>4. \A k \in 1..n + 1 : t[k] = Append(Taken, e)[k]
    BY <1>1, <2>3
  <2> HIDE DEF t, T
  <2>5. t = Append(Taken, e)
    BY <2>2, <2>3, <2>4, SeqEqual
  <2>6. QED
    BY <1>9, <2>5 DEF t
<1>12. QED
  BY <1>1, <1>2, <1>3, <1>6, <1>7, <1>11

LEMMA InitMaps == Init => Mailbox!Init
<1> SUFFICES ASSUME Init PROVE Mailbox!Init
  OBVIOUS
<1>1. Len(owner) = 0 /\ Len(got) = 0
  BY DEF Init
<1>2. \A h \in Http : SentBy(h) = 0
  <2>1. \A h \in Http : {i \in 1..Len(owner) : owner[i] = h} = {}
    BY <1>1
  <2>2. QED
    BY <2>1, FS_EmptySet DEF SentBy
<1>3. Taken = <<>>
  BY <1>1 DEF Taken
<1>4. Sent = [h \in Http |-> 0]
  BY <1>2 DEF Sent
<1>5. QED
  BY <1>3, <1>4 DEF Mailbox!Init, Taken, Sent

LEMMA StepMaps == Inv /\ [Next]_vars => [Mailbox!Next]_<<Sent, Taken>>
<1> SUFFICES ASSUME Inv, [Next]_vars PROVE [Mailbox!Next]_<<Sent, Taken>>
  OBVIOUS
<1>1. ASSUME NEW h \in Http, PutAlloc(h) PROVE Mailbox!Next
  <2>1. Mailbox!Put(h)
    BY <1>1, AllocMaps DEF Mailbox!Put, Sent, Taken
  <2>2. QED
    BY <2>1 DEF Mailbox!Next
<1>2. ASSUME GetFree PROVE Mailbox!Next
  <2>1. PICK c \in Http : c = owner[gmsg]
    BY <1>2, FreeMaps
  <2>2. Mailbox!Take(c)
    BY <1>2, <2>1, FreeMaps DEF Mailbox!Take, Mailbox!Newer, Sent, Taken
  <2>3. QED
    BY <2>2 DEF Mailbox!Next
<1>3. ASSUME UNCHANGED <<owner, got>> PROVE UNCHANGED <<Sent, Taken>>
  BY <1>3 DEF Sent, Taken, SentBy, RankOf
<1>4. ASSUME NEW h \in Http, PutLink(h) \/ PutLast(h) \/ PutFirst(h)
      PROVE  UNCHANGED <<owner, got>>
  BY <1>4 DEF PutLink, PutLast, PutFirst
<1>5. CASE GetTest \/ GetRead \/ GetAdvance \/ GetClear \/ UNCHANGED vars
  BY <1>3, <1>5 DEF GetTest, GetRead, GetAdvance, GetClear, vars
<1>6. QED
  BY <1>1, <1>2, <1>3, <1>4, <1>5 DEF Next, Put, Get

(* The queue implements a mailbox that may lose messages, but from which   *)
(* the web manager takes none twice and none behind a later one of the same*)
(* connection: each step of the threads is a put, a take or nothing.       *)
THEOREM ImplementsMailbox == Spec => AtMostOnceInOrder
<1>1. Init => Mailbox!Init
  BY InitMaps
<1>2. Inv /\ [Next]_vars => [Mailbox!Next]_<<Sent, Taken>>
  BY StepMaps
<1>3. QED
  BY <1>1, <1>2, InvAlways, PTL DEF Spec, AtMostOnceInOrder, Mailbox!Spec, Sent, Taken
=============================================================================
