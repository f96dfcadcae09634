--------------------------- MODULE CanometroProofs ---------------------------
(***************************************************************************)
(* Theorems of the canometro module, for every set of commands, every clock*)
(* range and any number of things that happen at the chronometer.          *)
(***************************************************************************)
EXTENDS Canometro, ChronoStatusProofs, TLAPS

(* What the chronometer answers, or becomes at its start/stop input, is a  *)
(* reading; its counts do not change by either.                            *)
LEMMA ClockType ==
  ASSUME NEW c \in Reading, NEW x \in Clock(c)
  PROVE  x \in Reading /\ MarksOf(x) = MarksOf(c)
<1>1. CASE c.running = 1
  <2>1. PICK t \in (IF c.tiempo = 0 THEN 0 ELSE 1)..MaxTime : x = [c EXCEPT !.tiempo = t]
    BY <1>1 DEF Clock
  <2>2. t \in 0..MaxTime
    BY CanometroAssumption
  <2>3. QED
    BY <2>1, <2>2 DEF Reading, MarksOf
<1>2. CASE c.running # 1
  BY <1>2 DEF Clock
<1>3. QED
  BY <1>1, <1>2

LEMMA StartStopType ==
  ASSUME NEW c \in Reading, NEW x \in StartStop(c)
  PROVE  x \in Reading
<1>1. 0 \in 0..MaxTime /\ 1..MaxTime \subseteq 0..MaxTime
  BY CanometroAssumption
<1>2. CASE c.running = 0
  BY <1>1, <1>2 DEF StartStop, Reading
<1>3. CASE c.running # 0
  <2>1. PICK t \in 1..MaxTime : x = [c EXCEPT !.running = 0, !.tiempo = t]
    BY <1>3 DEF StartStop
  <2>2. QED
    BY <1>1, <2>1 DEF Reading
<1>4. QED
  BY <1>2, <1>3

LEMMA Zeros ==
  /\ Zero \in Reading /\ PollOf(Zero) \in Poll /\ MarksOf(Zero) \in Marks
  /\ NoOrder \in Order /\ DefaultStatus \in Status /\ DefaultStatus.eliminated = 0
BY CanometroAssumption
   DEF Zero, Reading, Poll, PollOf, Marks, MarksOf, NoOrder, Order, NetCmd, NoArg, Arg,
       ArgKind, Status, DefaultStatus

LEMMA Parts ==
  ASSUME NEW c \in Reading
  PROVE  PollOf(c) \in Poll /\ MarksOf(c) \in Marks
BY DEF Reading, Poll, PollOf, Marks, MarksOf

(* What a poll has to tell is a command.                                   *)
LEMMA ChangesType ==
  ASSUME NEW c \in Reading, NEW p \in Poll
  PROVE  Changes(p, c) \subseteq Order
<1>1. \A t \in 0..MaxTime : Num(t) \in Arg
  BY CanometroAssumption DEF Num, Arg, ArgKind
<1>2. NoArg \in Arg /\ Num(0) \in Arg
  BY <1>1, CanometroAssumption DEF NoArg, Arg, ArgKind
<1>3. c.tiempo \in 0..MaxTime
  BY DEF Reading
<1>4. {"start", "reset", "stop", "int"} \subseteq NetCmd
  BY DEF NetCmd
<1>5. QED
  BY <1>1, <1>2, <1>3, <1>4 DEF Changes, Order

LEMMA ScoreMessage ==
  ASSUME NEW c \in Reading
  PROVE  [name |-> "data", arg |-> FRE(c.faltas, c.rehuses, c.eliminado)] \in Order
BY DEF Reading, Order, NetCmd, FRE, Arg, ArgKind

(* One turn of a loop of synchronize_chrono() keeps the counts counts.     *)
LEMMA TowardType ==
  ASSUME NEW s \in Marks, status \in Status, status.eliminated \in {0, 1}
  PROVE  Toward(s) \in Marks
<1> DEFINE f == Delta(ShownFaults(status), s.faltas)
           r == Delta(status.refusals, s.rehuses)
<1>1. f \in Int /\ r \in Int
  BY DEF Delta
<1>2. \A x \in Int : /\ [s EXCEPT !.faltas = @ + x] \in Marks
                     /\ [s EXCEPT !.rehuses = @ + x] \in Marks
  BY DEF Marks
<1>3. [s EXCEPT !.eliminado = status.eliminated] \in Marks
  BY DEF Marks
<1> HIDE DEF f, r
<1>4. Toward(s) = IF f # 0 THEN [s EXCEPT !.faltas = @ + f]
                  ELSE IF r # 0 THEN [s EXCEPT !.rehuses = @ + r]
                  ELSE [s EXCEPT !.eliminado = status.eliminated]
  BY DEF Toward, f, r
<1>5. QED
  BY <1>1, <1>2, <1>3, <1>4

(* The chronometer after the transfers that move its counts.               *)
LEMMA MovedType ==
  ASSUME NEW c \in Reading, NEW x \in Marks, NEW y \in Marks
  PROVE  [c EXCEPT !.faltas    = AtLeast0(@ + x.faltas - y.faltas),
                   !.rehuses   = AtLeast0(@ + x.rehuses - y.rehuses),
                   !.eliminado = IF x.eliminado = y.eliminado THEN @ ELSE 1 - @] \in Reading
<1>1. \A n \in Int : AtLeast0(n) \in Int
  BY DEF AtLeast0
<1>2. /\ AtLeast0(c.faltas + x.faltas - y.faltas) \in Int
      /\ AtLeast0(c.rehuses + x.rehuses - y.rehuses) \in Int
      /\ (IF x.eliminado = y.eliminado THEN c.eliminado ELSE 1 - c.eliminado) \in {0, 1}
  BY <1>1 DEF Reading, Marks
<1>3. \A f, r \in Int : \A e \in {0, 1} :
        [c EXCEPT !.faltas = f, !.rehuses = r, !.eliminado = e] \in Reading
  BY DEF Reading
<1>4. QED
  BY <1>2, <1>3, Zenon

(* The status keeps its type and its 0-or-1 elimination whoever's command  *)
(* is applied.                                                             *)
LEMMA AppliedType ==
  ASSUME status \in Status, status.eliminated \in {0, 1}, NEW c \in Order
  PROVE  /\ MainApply(status, c.name, c.arg) \in Status
         /\ MainApply(status, c.name, c.arg).eliminated \in {0, 1}
         /\ Applied(c) \in Status /\ Applied(c).eliminated \in {0, 1}
<1>1. c.arg \in Arg
  BY DEF Order
<1>2. /\ MainApply(status, c.name, c.arg) \in Status
      /\ MainApply(status, c.name, c.arg).eliminated \in {0, 1}
  BY <1>1, MainApplyType, MainApplyEliminated
<1>3. QED
  BY <1>2 DEF Applied
-----------------------------------------------------------------------------
(* Type correctness.  TypeOK alone is not inductive: the elimination that  *)
(* synchronize_chrono() copies is 0 or 1 only because main_mgr keeps it so.*)
Inv == TypeOK /\ status.eliminated \in {0, 1}

LEMMA InvInit == Init => Inv
<1> SUFFICES ASSUME Init PROVE Inv
  OBVIOUS
<1>1. /\ status \in Status /\ status.eliminated = 0
      /\ crono \in Reading /\ cw_data \in Poll /\ data \in Reading
      /\ msg \in Order /\ cmd \in Order /\ cur \in Marks
  BY Zeros, Zenon DEF Init
<1>2. orders \in 0..MaxOrders /\ presses \in 0..MaxPresses
  BY CanometroAssumption DEF Init
<1>3. QED
  BY <1>1, <1>2 DEF Init, Inv, TypeOK

LEMMA InvPress == Inv /\ Press => Inv'
<1> SUFFICES ASSUME Inv, Press PROVE Inv'
  OBVIOUS
<1>1. crono' \in Reading
  <2>1. ASSUME crono' = [crono EXCEPT !.faltas = @ + 1] PROVE crono' \in Reading
    BY <2>1 DEF Inv, TypeOK, Reading
  <2>2. ASSUME crono' = [crono EXCEPT !.eliminado = 1 - @] PROVE crono' \in Reading
    BY <2>2 DEF Inv, TypeOK, Reading
  <2>3. QED
    BY <2>1, <2>2, Zeros, StartStopType DEF Inv, TypeOK, Press
<1>2. presses' \in 0..MaxPresses
  BY CanometroAssumption DEF Inv, TypeOK, Press
<1>3. QED
  BY <1>1, <1>2 DEF Inv, TypeOK, Press, reader, main

LEMMA InvHang == Inv /\ Hang => Inv'
BY DEF Inv, TypeOK, Hang, reader, main

LEMMA InvReader == Inv /\ Reader => Inv'
<1> SUFFICES ASSUME Inv, Reader PROVE Inv'
  OBVIOUS
<1>1. CASE ReadWait
  BY <1>1 DEF Inv, TypeOK, ReadWait, main
<1>2. CASE ReadQuery
  <2>1. crono' \in Reading /\ data' \in Reading
    BY <1>2, ClockType DEF Inv, TypeOK, ReadQuery
  <2>2. QED
    BY <1>2, <2>1 DEF Inv, TypeOK, ReadQuery, main
<1>3. CASE ReadFails
  BY <1>3 DEF Inv, TypeOK, ReadFails, main
<1>4. CASE ReadCompare
  <2>1. Changes(cw_data, data) \subseteq Order
    BY ChangesType DEF Inv, TypeOK
  <2>2. [name |-> "data", arg |-> FRE(data.faltas, data.rehuses, data.eliminado)] \in Order
    BY ScoreMessage DEF Inv, TypeOK
  <2>3. msg' \in Order /\ sem' \in {0, 1} /\ rpc' \in {"send", "sleep"}
    BY <1>4, <2>1, <2>2 DEF ReadCompare, Inv, TypeOK
  <2>4. cw_data' \in Poll /\ data' \in Reading
    BY <1>4, Parts, Zeros DEF ReadCompare, Inv, TypeOK
  <2>5. UNCHANGED <<status, crono, main, orders, presses, lost, hung, clean>>
    BY <1>4 DEF ReadCompare
  <2>6. QED
    BY <2>3, <2>4, <2>5 DEF Inv, TypeOK, main
<1>5. CASE ReadSleep
  BY <1>5 DEF Inv, TypeOK, ReadSleep, main
<1>6. QED
  BY <1>1, <1>2, <1>3, <1>4, <1>5 DEF Reader

LEMMA InvServe == Inv /\ (ServeChrono \/ ServeOrder \/ WriteWait) => Inv'
<1> SUFFICES ASSUME Inv, ServeChrono \/ ServeOrder \/ WriteWait PROVE Inv'
  OBVIOUS
<1>1. CASE ServeChrono
  <2>1. status' \in Status /\ status'.eliminated \in {0, 1} /\ msg' \in Order
    BY <1>1, AppliedType, Zeros DEF ServeChrono, Inv, TypeOK
  <2>2. QED
    BY <1>1, <2>1 DEF ServeChrono, Inv, TypeOK, main
<1>2. CASE ServeOrder
  <2>1. /\ status' \in Status /\ status'.eliminated \in {0, 1}
        /\ cmd' \in Order /\ mpc' \in {"idle", "handler"}
    BY <1>2, AppliedType, CanometroAssumption DEF ServeOrder, Inv, TypeOK
  <2>2. orders' \in 0..MaxOrders
    BY <1>2, CanometroAssumption DEF ServeOrder, Inv, TypeOK
  <2>3. UNCHANGED <<crono, cw_data, sem, reader, cur, presses, lost, hung, clean>>
    BY <1>2 DEF ServeOrder
  <2>4. QED
    BY <2>1, <2>2, <2>3 DEF Inv, TypeOK, reader
<1>3. CASE WriteWait
  BY <1>3 DEF Inv, TypeOK, WriteWait, reader
<1>4. QED
  BY <1>1, <1>2, <1>3

(* sem_post() and the end of the handler *)
LEMMA InvReturn ==
  ASSUME Inv, Return, crono' \in Reading, cw_data' \in Poll
  PROVE  Inv'
BY Zeros DEF Inv, TypeOK, Return, Forget, reader

LEMMA InvWrite == Inv /\ Write => Inv'
<1> SUFFICES ASSUME Inv, Write PROVE Inv'
  OBVIOUS
<1>1. CASE WriteStartStop
  <2>1. crono' \in Reading /\ cw_data' \in Poll
    BY <1>1, StartStopType DEF WriteStartStop, Sent, Inv, TypeOK
  <2>2. QED
    BY <1>1, <2>1, InvReturn DEF WriteStartStop
<1>2. CASE WriteReset
  <2>1. crono' \in Reading /\ cw_data' \in Poll
    BY <1>2, Zeros DEF WriteReset, Sent, Inv, TypeOK
  <2>2. QED
    BY <1>2, <2>1, InvReturn DEF WriteReset
<1>3. CASE WriteOther
  BY <1>3, InvReturn DEF WriteOther, Inv, TypeOK
<1>4. CASE WriteStatus
  <2>1. crono' \in Reading /\ cw_data' \in Poll
    BY <1>4, ClockType, Parts DEF WriteStatus, Inv, TypeOK
  <2>2. QED
    BY <1>4, <2>1, InvReturn DEF WriteStatus
<1>5. CASE SyncQuery
  <2>1. crono' \in Reading /\ cur' \in Marks
    BY <1>5, ClockType, Parts DEF SyncQuery, Inv, TypeOK
  <2>2. QED
    BY <1>5, <2>1 DEF SyncQuery, Inv, TypeOK, reader
<1>6. CASE SyncFails
  BY <1>6, Zeros DEF SyncFails, Forget, Inv, TypeOK, reader
<1>7. CASE SyncPut
  <2>1. cur' \in Marks
    BY <1>7, TowardType DEF SyncPut, Inv, TypeOK
  <2>2. crono' \in Reading
    <3> DEFINE moved == [crono EXCEPT
                 !.faltas    = AtLeast0(@ + cur'.faltas - cur.faltas),
                 !.rehuses   = AtLeast0(@ + cur'.rehuses - cur.rehuses),
                 !.eliminado = IF cur'.eliminado = cur.eliminado THEN @ ELSE 1 - @]
    <3>1. moved \in Reading
      BY <2>1, MovedType, Zenon DEF Inv, TypeOK
    <3>2. crono' = moved \/ crono' = crono
      BY <1>7, Zenon DEF SyncPut
    <3>3. QED
      BY <3>1, <3>2, Zenon DEF Inv, TypeOK
  <2>3. clean' \in BOOLEAN
    BY <1>7, Zenon DEF SyncPut, Inv, TypeOK
  <2>4. mpc = "sync" /\ UNCHANGED <<status, cw_data, sem, reader, mpc, cmd, orders, presses, lost, hung>>
    BY <1>7 DEF SyncPut
  <2>5. QED
    BY <2>1, <2>2, <2>3, <2>4 DEF Inv, TypeOK, reader
<1>8. CASE SyncEnd
  BY <1>8, InvReturn DEF SyncEnd, Inv, TypeOK
<1>9. QED
  BY <1>1, <1>2, <1>3, <1>4, <1>5, <1>6, <1>7, <1>8 DEF Write

LEMMA InvStep == Inv /\ [Next]_vars => Inv'
<1>1. Inv /\ UNCHANGED vars => Inv'
  BY DEF Inv, TypeOK, vars, reader, main
<1>2. QED
  BY <1>1, InvPress, InvHang, InvReader, InvServe, InvWrite DEF Next

LEMMA InvAlways == Spec => []Inv
BY InvInit, InvStep, PTL DEF Spec

(* The status, the chronometer, the two threads and the semaphore keep     *)
(* their types: the semaphore is never given back twice.                   *)
THEOREM TypeCorrect == Spec => []TypeOK
<1>1. Inv => TypeOK
  BY DEF Inv
<1>2. QED
  BY <1>1, InvAlways, PTL
-----------------------------------------------------------------------------
(* The semaphore.                                                          *)
Polling == rpc \in {"query", "compare", "sleep"}
Writing == mpc \in {"write", "sync"}

(* What LockAccounted says, case by case.                                  *)
LEMMA LockCases ==
  ASSUME TypeOK
  PROVE  LockAccounted <=>
           \/ sem = 1 /\ ~Polling /\ ~Writing /\ ~lost
           \/ sem = 0 /\ Polling  /\ ~Writing /\ ~lost
           \/ sem = 0 /\ ~Polling /\ Writing  /\ ~lost
           \/ sem = 0 /\ ~Polling /\ ~Writing /\ lost
BY DEF TypeOK, LockAccounted, Polling, Writing
(* The holder, as the semaphore accounts for it.                           *)
LEMMA HolderCases ==
  ASSUME TypeOK, LockAccounted
  PROVE  /\ sem = 1 => Holder = "nobody" /\ ~Polling /\ ~Writing
         /\ Polling => Holder = "reader" /\ ~Writing /\ sem = 0 /\ ~lost
         /\ Writing => Holder = "main" /\ ~Polling /\ sem = 0 /\ ~lost
<1>1. \/ sem = 1 /\ ~Polling /\ ~Writing /\ ~lost
      \/ sem = 0 /\ Polling  /\ ~Writing /\ ~lost
      \/ sem = 0 /\ ~Polling /\ Writing  /\ ~lost
      \/ sem = 0 /\ ~Polling /\ ~Writing /\ lost
  BY LockCases
<1>2. QED
  BY <1>1 DEF Holder, Polling, Writing

(* Nothing about the semaphore changes.                                    *)
LockSame == UNCHANGED <<sem, lost>> /\ (Polling' <=> Polling) /\ (Writing' <=> Writing)

LEMMA LockKept ==
  ASSUME TypeOK, LockAccounted, LockSame
  PROVE  LockAccounted' /\ UNCHANGED Holder
BY DEF LockSame, LockAccounted, Holder, Polling, Writing, TypeOK

(* A thread that finds it free takes it; one that has it gives it back.    *)
LEMMA LockTaken ==
  ASSUME TypeOK, LockAccounted, sem = 1, sem' = 0, UNCHANGED lost,
         \/ Polling' /\ ~Writing' /\ Holder' = "reader"
         \/ ~Polling' /\ Writing' /\ Holder' = "main"
  PROVE  LockAccounted' /\ Device!Next
<1>1. Holder = "nobody" /\ ~Polling /\ ~Writing /\ ~lost
  BY HolderCases, LockCases
<1>2. LockAccounted'
  BY <1>1 DEF LockAccounted, Polling, Writing
<1>3. Device!Next
  BY <1>1 DEF Device!Next, Device!Take
<1>4. QED
  BY <1>2, <1>3

LEMMA LockGiven ==
  ASSUME TypeOK, LockAccounted, Polling \/ Writing, sem' = 1, UNCHANGED lost,
         ~Polling', ~Writing'
  PROVE  LockAccounted' /\ Device!Next
<1>1. ~lost /\ Holder \in {"reader", "main"}
  BY HolderCases
<1>2. LockAccounted' /\ Holder' = "nobody"
  BY <1>1 DEF LockAccounted, Polling, Writing, Holder
<1>3. Device!Next
  BY <1>1, <1>2 DEF Device!Next, Device!Give
<1>4. QED
  BY <1>2, <1>3

LEMMA ReaderLock ==
  ASSUME TypeOK, LockAccounted, Reader
  PROVE  LockAccounted' /\ (Device!Next \/ UNCHANGED Holder)
<1>1. CASE ReadWait
  <2>1. sem = 1 /\ sem' = 0 /\ lost' = lost /\ rpc' = "query" /\ mpc' = mpc
    BY <1>1 DEF ReadWait, main
  <2>2. ~Writing /\ ~lost
    BY <2>1, HolderCases, LockCases
  <2>3. Polling' /\ ~Writing' /\ Holder' = "reader"
    BY <2>1, <2>2 DEF Polling, Writing, Holder
  <2>4. QED
    BY <2>1, <2>3, LockTaken
<1>2. CASE ReadQuery
  <2>1. LockSame
    BY <1>2 DEF ReadQuery, main, LockSame, Polling, Writing
  <2>2. QED
    BY <2>1, LockKept
<1>3. CASE ReadFails \/ ReadSleep \/ (ReadCompare /\ rpc' = "send")
  <2>1. Polling /\ sem' = 1 /\ lost' = lost /\ rpc' \in {"poll", "send"} /\ mpc' = mpc
    BY <1>3 DEF ReadFails, ReadSleep, ReadCompare, main, Polling
  <2>2. ~Writing
    BY <2>1, HolderCases
  <2>3. ~Polling' /\ ~Writing'
    BY <2>1, <2>2 DEF Polling, Writing
  <2>4. QED
    BY <2>1, <2>3, LockGiven
<1>4. CASE ReadCompare /\ rpc' # "send"
  <2>1. LockSame
    BY <1>4 DEF ReadCompare, main, LockSame, Polling, Writing
  <2>2. QED
    BY <2>1, LockKept
<1>5. QED
  BY <1>1, <1>2, <1>3, <1>4 DEF Reader

LEMMA WriteLock ==
  ASSUME TypeOK, LockAccounted, WriteWait \/ Write
  PROVE  LockAccounted' /\ (Device!Next \/ UNCHANGED Holder)
<1>1. CASE WriteWait
  <2>1. sem = 1 /\ sem' = 0 /\ lost' = lost /\ mpc' = "write" /\ rpc' = rpc
    BY <1>1 DEF WriteWait, reader
  <2>2. ~Polling /\ ~lost
    BY <2>1, HolderCases, LockCases
  <2>3. ~Polling' /\ Writing' /\ Holder' = "main"
    BY <2>1, <2>2 DEF Polling, Writing, Holder
  <2>4. QED
    BY <2>1, <2>3, LockTaken
<1>2. CASE WriteStartStop \/ WriteReset \/ WriteOther \/ WriteStatus \/ SyncEnd
  <2>1. Writing /\ Return
    BY <1>2 DEF WriteStartStop, WriteReset, WriteOther, WriteStatus, SyncEnd, Writes, Writing
  <2>2. sem' = 1 /\ lost' = lost /\ mpc' = "idle" /\ rpc' = rpc
    BY <2>1 DEF Return, Forget, reader
  <2>3. ~Polling
    BY <2>1, HolderCases
  <2>4. ~Polling' /\ ~Writing'
    BY <2>2, <2>3 DEF Polling, Writing
  <2>5. QED
    BY <2>1, <2>2, <2>4, LockGiven
<1>3. CASE SyncQuery \/ SyncPut
  <2>1. LockSame
    BY <1>3 DEF SyncQuery, SyncPut, Writes, reader, LockSame, Polling, Writing
  <2>2. QED
    BY <2>1, LockKept
<1>4. CASE SyncFails
  <2>1. Writing /\ lost' /\ sem' = sem /\ mpc' = "idle" /\ rpc' = rpc
    BY <1>4 DEF SyncFails, Forget, Writes, Writing, reader
  <2>2. Holder = "main" /\ ~Polling /\ sem = 0
    BY <2>1, HolderCases
  <2>3. Holder' = "gone" /\ LockAccounted'
    BY <2>1, <2>2 DEF Holder, LockAccounted, Polling, Writing
  <2>4. QED
    BY <2>2, <2>3 DEF Device!Next, Device!Drop
<1>5. QED
  BY <1>1, <1>2, <1>3, <1>4 DEF Write

LEMMA LockStep ==
  ASSUME TypeOK, LockAccounted, [Next]_vars
  PROVE  LockAccounted' /\ (Device!Next \/ UNCHANGED Holder)
<1>1. CASE Press \/ Hang \/ ServeOrder \/ ServeChrono \/ UNCHANGED vars
  <2>1. LockSame
    BY <1>1 DEF Press, Hang, ServeOrder, ServeChrono, vars, reader, main, LockSame, Polling, Writing
  <2>2. QED
    BY <2>1, LockKept
<1>2. QED
  BY <1>1, ReaderLock, WriteLock DEF Next

LEMMA LockInit == Init => LockAccounted /\ Holder = "nobody"
BY DEF Init, LockAccounted, Holder

(* The semaphore is free when no operation is under way, unless the failed *)
(* synchronisation has kept it.                                            *)
THEOREM LockIsAccounted == Spec => []LockAccounted
<1>1. TypeOK /\ TypeOK' /\ LockAccounted /\ [Next]_vars => LockAccounted'
  BY LockStep
<1>2. QED
  BY <1>1, LockInit, TypeCorrect, PTL DEF Spec

(* The module implements the shared device: however polls and commands     *)
(* meet, one thread at a time talks to the chronometer.                    *)
THEOREM OneUser == Spec => OneUserAtATime
<1>1. Init => Device!Init
  BY LockInit DEF Device!Init
<1>2. TypeOK /\ LockAccounted /\ [Next]_vars => [Device!Next]_Holder
  BY LockStep
<1>3. QED
  BY <1>1, <1>2, TypeCorrect, LockIsAccounted, PTL DEF Spec, OneUserAtATime, Device!Spec
-----------------------------------------------------------------------------
(* Synchronisation.  The chronometer does not count below zero, so the     *)
(* steps are exact only towards counts that are not negative: DATA with a  *)
(* negative count is the one command that main_mgr stores as it comes.     *)
CountsSent == \A c \in Orders : c.name = "data" => c.arg.n >= 0 /\ c.arg.r >= 0

StatusCounts == ShownFaults(status) >= 0 /\ status.refusals >= 0
DeviceCounts ==
  /\ crono.faltas >= 0 /\ crono.rehuses >= 0
  /\ data.faltas >= 0 /\ data.rehuses >= 0
  /\ msg.name = "data" => msg.arg.n >= 0 /\ msg.arg.r >= 0
SyncInv ==
  /\ StatusCounts /\ DeviceCounts
  /\ mpc = "sync" /\ clean => MarksOf(crono) = cur

LEMMA SyncInit == Init => SyncInv
BY DEF Init, SyncInv, StatusCounts, DeviceCounts, DefaultStatus, ShownFaults, Zero, NoOrder

(* The two counts of what the chronometer answers or becomes.              *)
LEMMA ClockCounts ==
  ASSUME NEW c \in Reading, NEW x \in Clock(c)
  PROVE  x.faltas = c.faltas /\ x.rehuses = c.rehuses
BY ClockType DEF MarksOf

LEMMA StartStopCounts ==
  ASSUME NEW c \in Reading, NEW x \in StartStop(c)
  PROVE  x.faltas = c.faltas /\ x.rehuses = c.rehuses
<1>1. CASE c.running = 0
  BY <1>1 DEF StartStop, Reading
<1>2. CASE c.running # 0
  <2>1. PICK t \in 1..MaxTime : x = [c EXCEPT !.running = 0, !.tiempo = t]
    BY <1>2 DEF StartStop
  <2>2. QED
    BY <2>1 DEF Reading
<1>3. QED
  BY <1>1, <1>2

(* A transfer that arrives keeps the chronometer at the counts             *)
(* synchronize_chrono() believes it has.                                   *)
LEMMA MovedExact ==
  ASSUME NEW c \in Reading, NEW x \in Marks, MarksOf(c) = x,
         c.faltas >= 0, c.rehuses >= 0,
         status \in Status, status.eliminated \in {0, 1}, StatusCounts
  PROVE  MarksOf([c EXCEPT
           !.faltas    = AtLeast0(@ + Toward(x).faltas - x.faltas),
           !.rehuses   = AtLeast0(@ + Toward(x).rehuses - x.rehuses),
           !.eliminado = IF Toward(x).eliminado = x.eliminado THEN @ ELSE 1 - @]) = Toward(x)
<1> DEFINE y == Toward(x)
<1>1. x.faltas = c.faltas /\ x.rehuses = c.rehuses /\ x.eliminado = c.eliminado
  BY DEF MarksOf
<1>2. y \in Marks
  BY TowardType
<1>3. y.faltas >= 0 /\ y.rehuses >= 0
  <2>1. ShownFaults(status) \in Int /\ status.refusals \in Int
    BY DEF ShownFaults, Status
  <2>2. QED
    BY <1>1, <2>1 DEF Toward, Delta, Marks, StatusCounts
<1> HIDE DEF y
<1>4. AtLeast0(c.faltas + y.faltas - x.faltas) = y.faltas
  BY <1>1, <1>2, <1>3 DEF AtLeast0, Marks, Reading
<1>5. AtLeast0(c.rehuses + y.rehuses - x.rehuses) = y.rehuses
  BY <1>1, <1>2, <1>3 DEF AtLeast0, Marks, Reading
<1>6. (IF y.eliminado = x.eliminado THEN c.eliminado ELSE 1 - c.eliminado) = y.eliminado
  BY <1>1, <1>2 DEF Marks, Reading
<1>7. y = [faltas |-> y.faltas, rehuses |-> y.rehuses, eliminado |-> y.eliminado]
  BY <1>2 DEF Marks
<1>8. MarksOf([c EXCEPT !.faltas    = AtLeast0(@ + y.faltas - x.faltas),
                        !.rehuses   = AtLeast0(@ + y.rehuses - x.rehuses),
                        !.eliminado = IF y.eliminado = x.eliminado THEN @ ELSE 1 - @]) = y
  <2> DEFINE f == AtLeast0(c.faltas + y.faltas - x.faltas)
             r == AtLeast0(c.rehuses + y.rehuses - x.rehuses)
             e == IF y.eliminado = x.eliminado THEN c.eliminado ELSE 1 - c.eliminado
  <2>1. MarksOf([c EXCEPT !.faltas = f, !.rehuses = r, !.eliminado = e])
          = [faltas |-> f, rehuses |-> r, eliminado |-> e]
    <3> HIDE DEF f, r, e
    <3>1. QED
      BY DEF MarksOf, Reading
  <2>2. f = y.faltas /\ r = y.rehuses /\ e = y.eliminado
    BY <1>4, <1>5, <1>6
  <2>3. [faltas |-> f, rehuses |-> r, eliminado |-> e] = y
    <3> HIDE DEF f, r, e
    <3>1. QED
      BY <1>7, <2>2
  <2>4. QED
    BY <2>1, <2>3, Zenon
<1>9. QED
  BY <1>8 DEF y

LEMMA SyncPress == Inv /\ SyncInv /\ Press => SyncInv'
<1> SUFFICES ASSUME Inv, SyncInv, Press PROVE SyncInv'
  OBVIOUS
<1>1. crono'.faltas >= 0 /\ crono'.rehuses >= 0
  <2>1. CASE crono' \in StartStop(crono)
    BY <2>1, StartStopCounts DEF Inv, TypeOK, SyncInv, DeviceCounts
  <2>2. CASE crono' = Zero
    BY <2>2 DEF Zero
  <2>3. CASE crono' = [crono EXCEPT !.faltas = @ + 1]
    BY <2>3 DEF Inv, TypeOK, SyncInv, DeviceCounts, Reading
  <2>4. CASE crono' = [crono EXCEPT !.eliminado = 1 - @]
    BY <2>4 DEF Inv, TypeOK, SyncInv, DeviceCounts, Reading
  <2>5. QED
    BY <2>1, <2>2, <2>3, <2>4 DEF Press
<1>2. ~clean' /\ UNCHANGED <<status, data, msg>>
  BY DEF Press, reader
<1>3. QED
  BY <1>1, <1>2 DEF SyncInv, StatusCounts, DeviceCounts

LEMMA SyncReader == Inv /\ SyncInv /\ Reader => SyncInv'
<1> SUFFICES ASSUME Inv, SyncInv, Reader PROVE SyncInv'
  OBVIOUS
<1>1. CASE ReadWait \/ ReadFails \/ ReadSleep
  BY <1>1 DEF ReadWait, ReadFails, ReadSleep, main, SyncInv, StatusCounts, DeviceCounts
<1>2. CASE ReadQuery
  <2>1. /\ crono'.faltas = crono.faltas /\ crono'.rehuses = crono.rehuses
        /\ MarksOf(crono') = MarksOf(crono) /\ data' = crono'
    BY <1>2, ClockType, ClockCounts DEF ReadQuery, Inv, TypeOK
  <2>2. UNCHANGED <<status, msg, mpc, cur, clean>>
    BY <1>2 DEF ReadQuery, main
  <2>3. QED
    BY <2>1, <2>2 DEF SyncInv, StatusCounts, DeviceCounts
<1>3. CASE ReadCompare
  <2>1. \A m \in Changes(cw_data, data) : m.name # "data"
    BY DEF Changes
  <2>2. msg'.name = "data" => msg'.arg.n >= 0 /\ msg'.arg.r >= 0
    <3>1. CASE msg' \in Changes(cw_data, data)
      BY <2>1, <3>1
    <3>2. CASE msg' = [name |-> "data", arg |-> FRE(data.faltas, data.rehuses, data.eliminado)]
      BY <3>2 DEF FRE, SyncInv, DeviceCounts
    <3>3. CASE msg' = msg
      BY <3>3 DEF SyncInv, DeviceCounts
    <3>4. QED
      BY <1>3, <3>1, <3>2, <3>3, Zenon DEF ReadCompare
  <2>3. data'.faltas >= 0 /\ data'.rehuses >= 0
    BY <1>3 DEF ReadCompare, Zero
  <2>4. UNCHANGED <<status, crono, mpc, cur, clean>>
    BY <1>3 DEF ReadCompare, main
  <2>5. QED
    BY <2>2, <2>3, <2>4 DEF SyncInv, StatusCounts, DeviceCounts
<1>4. QED
  BY <1>1, <1>2, <1>3 DEF Reader

LEMMA SyncServe ==
  ASSUME CountsSent, Inv, SyncInv, ServeChrono \/ ServeOrder \/ WriteWait
  PROVE  SyncInv'
<1>1. CASE ServeChrono
  <2>1. StatusCounts'
    <3>1. msg \in Order /\ msg.arg \in Arg /\ status \in Status
      BY DEF Inv, TypeOK, Order
    <3>2. /\ ShownFaults(MainApply(status, msg.name, msg.arg)) >= 0
          /\ MainApply(status, msg.name, msg.arg).refusals >= 0
      BY <3>1, ApplyCounts DEF SyncInv, StatusCounts, DeviceCounts
    <3>3. QED
      BY <1>1, <3>2 DEF ServeChrono, Applied, SyncInv, StatusCounts, ShownFaults
  <2>2. msg' = NoOrder /\ mpc' # "sync" /\ UNCHANGED <<crono, data>>
    BY <1>1 DEF ServeChrono, main
  <2>3. QED
    BY <2>1, <2>2 DEF SyncInv, DeviceCounts, NoOrder
<1>2. CASE ServeOrder
  <2>1. StatusCounts'
    <3>1. PICK c \in Orders : status' \in {MainApply(status, c.name, c.arg), status}
      BY <1>2 DEF ServeOrder
    <3>2. c.arg \in Arg /\ status \in Status
      BY CanometroAssumption DEF Inv, TypeOK, Order
    <3>3. /\ ShownFaults(MainApply(status, c.name, c.arg)) >= 0
          /\ MainApply(status, c.name, c.arg).refusals >= 0
      BY <3>2, ApplyCounts DEF CountsSent, SyncInv, StatusCounts
    <3>4. QED
      BY <3>1, <3>3 DEF SyncInv, StatusCounts, ShownFaults
  <2>2. mpc' # "sync" /\ UNCHANGED <<crono, data, msg>>
    BY <1>2 DEF ServeOrder, reader
  <2>3. QED
    BY <2>1, <2>2 DEF SyncInv, DeviceCounts
<1>3. CASE WriteWait
  BY <1>3 DEF WriteWait, reader, SyncInv, StatusCounts, DeviceCounts
<1>4. QED
  BY <1>1, <1>2, <1>3

LEMMA SyncWrite == Inv /\ SyncInv /\ Write => SyncInv'
<1> SUFFICES ASSUME Inv, SyncInv, Write PROVE SyncInv'
  OBVIOUS
<1>1. ASSUME mpc' = "idle", UNCHANGED <<status, reader>>,
             crono'.faltas >= 0, crono'.rehuses >= 0
      PROVE  SyncInv'
  BY <1>1 DEF reader, SyncInv, StatusCounts, DeviceCounts
<1>2. Return => mpc' = "idle" /\ UNCHANGED <<status, reader>>
  BY DEF Return, Forget
<1>3. CASE WriteStartStop
  <2>1. crono' \in StartStop(crono) \cup {crono}
    BY <1>3 DEF WriteStartStop, Sent
  <2>2. crono'.faltas >= 0 /\ crono'.rehuses >= 0
    BY <2>1, StartStopCounts DEF Inv, TypeOK, SyncInv, DeviceCounts
  <2>3. QED
    BY <1>1, <1>2, <1>3, <2>2 DEF WriteStartStop
<1>4. CASE WriteReset
  <2>1. crono'.faltas >= 0 /\ crono'.rehuses >= 0
    BY <1>4 DEF WriteReset, Sent, Zero, SyncInv, DeviceCounts
  <2>2. QED
    BY <1>1, <1>2, <1>4, <2>1 DEF WriteReset
<1>5. CASE WriteOther \/ SyncEnd
  BY <1>1, <1>2, <1>5 DEF WriteOther, SyncEnd, SyncInv, DeviceCounts
<1>6. CASE WriteStatus
  <2>1. crono' = crono \/ crono' \in Clock(crono)
    BY <1>6 DEF WriteStatus
  <2>2. crono'.faltas >= 0 /\ crono'.rehuses >= 0
    BY <2>1, ClockCounts DEF Inv, TypeOK, SyncInv, DeviceCounts
  <2>3. QED
    BY <1>1, <1>2, <1>6, <2>2 DEF WriteStatus
<1>7. CASE SyncFails
  BY <1>1, <1>7 DEF SyncFails, Forget, SyncInv, DeviceCounts
<1>8. CASE SyncQuery
  <2>1. crono'.faltas = crono.faltas /\ crono'.rehuses = crono.rehuses
    BY <1>8, ClockCounts DEF SyncQuery, Inv, TypeOK
  <2>2. cur' = MarksOf(crono') /\ UNCHANGED <<status, data, msg>>
    BY <1>8 DEF SyncQuery, reader
  <2>3. QED
    BY <2>1, <2>2 DEF SyncInv, StatusCounts, DeviceCounts
<1>9. CASE SyncPut
  <2> DEFINE moved == [crono EXCEPT
               !.faltas    = AtLeast0(@ + cur'.faltas - cur.faltas),
               !.rehuses   = AtLeast0(@ + cur'.rehuses - cur.rehuses),
               !.eliminado = IF cur'.eliminado = cur.eliminado THEN @ ELSE 1 - @]
  <2>1. \/ crono' = moved /\ clean' = clean
        \/ crono' = crono /\ clean' = FALSE
    BY <1>9, Zenon DEF SyncPut
  <2>2. mpc = "sync" /\ cur' = Toward(cur) /\ UNCHANGED <<status, data, msg, mpc>>
    BY <1>9 DEF SyncPut, reader
  <2>3. moved.faltas >= 0 /\ moved.rehuses >= 0
    <3>1. cur' \in Marks /\ cur \in Marks /\ crono \in Reading
      BY <2>2, TowardType DEF Inv, TypeOK
    <3>2. /\ moved.faltas = AtLeast0(crono.faltas + cur'.faltas - cur.faltas)
          /\ moved.rehuses = AtLeast0(crono.rehuses + cur'.rehuses - cur.rehuses)
      BY <3>1 DEF Reading
    <3>3. QED
      BY <3>1, <3>2 DEF AtLeast0, Marks, Reading
  <2>4. ASSUME MarksOf(crono) = cur PROVE MarksOf(moved) = cur'
    BY <2>2, <2>4, MovedExact DEF Inv, TypeOK, SyncInv, StatusCounts, DeviceCounts
  <2> HIDE DEF moved
  <2>5. QED
    BY <2>1, <2>2, <2>3, <2>4 DEF SyncInv, StatusCounts, DeviceCounts
<1>10. QED
  BY <1>3, <1>4, <1>5, <1>6, <1>7, <1>8, <1>9 DEF Write

LEMMA SyncStep == CountsSent /\ Inv /\ SyncInv /\ [Next]_vars => SyncInv'
<1>1. Inv /\ SyncInv /\ UNCHANGED vars => SyncInv'
  BY DEF vars, reader, main, SyncInv, StatusCounts, DeviceCounts
<1>2. Inv /\ SyncInv /\ Hang => SyncInv'
  BY DEF Hang, reader, main, SyncInv, StatusCounts, DeviceCounts
<1>3. QED
  BY <1>1, <1>2, SyncPress, SyncReader, SyncServe, SyncWrite DEF Next

(* If no command asks for negative counts, a synchronisation all of whose  *)
(* transfers arrive ends with the chronometer showing the counts of the    *)
(* status, from whatever counts it had and in any order of the threads.    *)
THEOREM SyncIsExact == ASSUME CountsSent PROVE Spec => []SyncExact
<1>1. Inv /\ SyncInv /\ [Next]_vars => SyncInv'
  BY CountsSent, SyncStep
<1>2. SyncInv => SyncExact
  BY DEF SyncInv, SyncExact, SameMarks, MarksOf
<1>3. QED
  BY <1>1, <1>2, SyncInit, InvAlways, PTL DEF Spec
=============================================================================
