------------------------------ MODULE Canometro ------------------------------
(***************************************************************************)
(* The canometro module (src/src/modules/canometroweb.c) between the thread*)
(* of the network manager, which polls the chronometer with module_read(), *)
(* and the main thread, whose handlers call module_write().  Both talk to  *)
(* the chronometer through sendrec(), one HTTP transfer, under the         *)
(* semaphore sem.                                                          *)
(*                                                                         *)
(* External: the chronometer itself, with its start/stop input, its reset  *)
(* and the marks judges enter on it.  Abstracted: the XML, the             *)
(* configuration (it is stored and never changes what follows), the copy of*)
(* the marks in cw_data (never read), displays of walk and countdown.      *)
(***************************************************************************)
EXTENDS ChronoStatus

CONSTANTS
  Orders,      \* commands of other managers: records [name, arg]
  MaxOrders,   \* bound on their number
  MaxPresses,  \* bound on what happens at the chronometer by itself
  MaxTime      \* bound on the times it shows

NetCmd == {"start", "int", "stop", "msg", "walk", "down", "fault", "refusal", "elim", "data",
           "reset", "config", "status", "turn", "bright", "clock"}
Order == [name : NetCmd, arg : Arg]

ASSUME CanometroAssumption ==
  /\ Orders \subseteq Order
  /\ MaxOrders \in Nat /\ MaxPresses \in Nat
  /\ MaxTime \in Nat \ {0}

VARIABLES
  status,   \* config->status
  crono,    \* external: what the chronometer would answer
  cw_data,  \* what the last poll stored of it: running, tiempo
  sem,      \* value of the semaphore
  rpc,      \* network thread: poll, query, compare, sleep, send
  data,     \* its parsed answer
  msg,      \* the command it sends to the main thread
  mpc,      \* main thread: idle, handler, write, sync
  cmd,      \* the command its handler passes to module_write()
  cur,      \* counts synchronize_chrono() believes the chronometer has
  orders, presses,  \* counters for the bounds
  lost,     \* history: module_write() has returned without releasing sem
  hung,     \* the transfer under way never ends
  clean     \* history: since the query of synchronize_chrono() every transfer arrived and
            \* nobody touched the chronometer

reader == <<rpc, data, msg>>
main   == <<mpc, cmd, cur>>
vars   == <<status, crono, cw_data, sem, reader, main, orders, presses, lost, hung, clean>>

Marks   == [faltas : Int, rehuses : Int, eliminado : {0, 1}]
Poll    == [running : {0, 1}, tiempo : 0..MaxTime]
Reading == [running : {0, 1}, tiempo : 0..MaxTime,
            faltas : Int, rehuses : Int, eliminado : {0, 1}]

Zero == [running |-> 0, tiempo |-> 0, faltas |-> 0, rehuses |-> 0, eliminado |-> 0]
PollOf(c)  == [running |-> c.running, tiempo |-> c.tiempo]
MarksOf(c) == [faltas |-> c.faltas, rehuses |-> c.rehuses, eliminado |-> c.eliminado]
NoOrder == [name |-> "int", arg |-> NoArg]

TypeOK ==
  /\ status \in Status
  /\ crono \in Reading
  /\ cw_data \in Poll
  /\ sem \in {0, 1}
  /\ rpc \in {"poll", "query", "compare", "sleep", "send"}
  /\ data \in Reading
  /\ msg \in Order
  /\ mpc \in {"idle", "handler", "write", "sync"}
  /\ cmd \in Order
  /\ cur \in Marks
  /\ orders \in 0..MaxOrders /\ presses \in 0..MaxPresses
  /\ lost \in BOOLEAN /\ hung \in BOOLEAN /\ clean \in BOOLEAN

(* module_open() has reset the chronometer and stored its answer *)
Init ==
  /\ status = DefaultStatus
  /\ crono = Zero /\ cw_data = PollOf(Zero)
  /\ sem = 1
  /\ rpc = "poll" /\ data = Zero /\ msg = NoOrder
  /\ mpc = "idle" /\ cmd = NoOrder /\ cur = MarksOf(Zero)
  /\ orders = 0 /\ presses = 0
  /\ lost = FALSE /\ hung = FALSE /\ clean = FALSE

-----------------------------------------------------------------------------
(* The chronometer.                                                        *)

(* what it may answer now: while it runs its time moves on, but for the    *)
(* intermediate times it shows for a while                                 *)
Clock(c) ==
  IF c.running = 1
  THEN {[c EXCEPT !.tiempo = t] : t \in (IF c.tiempo = 0 THEN 0 ELSE 1)..MaxTime}
  ELSE {c}

(* its start/stop input *)
StartStop(c) ==
  IF c.running = 0
  THEN {[c EXCEPT !.running = 1, !.tiempo = 0]}
  ELSE {[c EXCEPT !.running = 0, !.tiempo = t] : t \in 1..MaxTime}

(* sendrec() ignores the outcome of the transfer: the request may be lost *)
Sent(S) == {crono} \cup S

(* sensors, its reset, and its keys for marks *)
Press ==
  /\ presses < MaxPresses
  /\ crono' \in StartStop(crono) \cup
                {Zero, [crono EXCEPT !.faltas = @ + 1],
                 [crono EXCEPT !.eliminado = 1 - @]}
  /\ presses' = presses + 1
  /\ clean' = FALSE
  /\ UNCHANGED <<status, cw_data, sem, reader, main, orders, lost, hung>>

(* sendrec() sets no time limit: a chronometer that took the connection and*)
(* does not answer keeps the thread, and the semaphore.  Every command but *)
(* BRIGHT ends with a transfer.                                            *)
Transferring == rpc = "query" \/ mpc = "sync" \/ (mpc = "write" /\ cmd.name # "bright")

Hang ==
  /\ Transferring /\ ~hung
  /\ hung' = TRUE
  /\ UNCHANGED <<status, crono, cw_data, sem, reader, main, orders, presses, lost, clean>>

-----------------------------------------------------------------------------
(* module_read(), called for ever by network_manager_thread().             *)

(* mutant of ReadWait: sem_trywait() with its result ignored *)
ReadWait_Try ==
  /\ rpc = "poll"
  /\ sem' = sem - 1
  /\ rpc' = "query"
  /\ UNCHANGED <<status, crono, cw_data, data, msg, main, orders, presses, lost, hung, clean>>

ReadWait ==
  /\ rpc = "poll" /\ sem = 1
  /\ sem' = 0
  /\ rpc' = "query"
  /\ UNCHANGED <<status, crono, cw_data, data, msg, main, orders, presses, lost, hung, clean>>

ReadQuery ==
  /\ rpc = "query" /\ ~hung
  /\ crono' \in Clock(crono)
  /\ data' = crono'
  /\ rpc' = "compare"
  /\ UNCHANGED <<status, cw_data, sem, msg, main, orders, presses, lost, hung, clean>>

(* mutant of ReadFails: returns without releasing the semaphore *)
ReadFails_NoPost ==
  /\ rpc = "query" /\ ~hung
  /\ rpc' = "poll"
  /\ UNCHANGED <<status, crono, cw_data, sem, data, msg, main, orders, presses, lost, hung, clean>>

(* nothing, or nothing that parses, was received *)
ReadFails ==
  /\ rpc = "query" /\ ~hung
  /\ sem' = 1
  /\ rpc' = "poll"
  /\ UNCHANGED <<status, crono, cw_data, data, msg, main, orders, presses, lost, hung, clean>>

(* the command that tells the main thread of a change, if any *)
Changes(old, new) ==
  LET was == old.running = 1  had == old.tiempo # 0
      is  == new.running = 1  has == new.tiempo # 0
  IN  CASE \/ ~was /\ is
           \/ was /\ is /\ had /\ ~has    -> {[name |-> "start", arg |-> Num(0)]}
        [] ~is /\ ~has /\ (was \/ had)   -> {[name |-> "reset", arg |-> NoArg]}
        [] was /\ ~is /\ had /\ has       -> {[name |-> "stop", arg |-> Num(new.tiempo)]}
        [] was /\ is /\ had /\ old.tiempo = new.tiempo
                                         -> {[name |-> "int", arg |-> Num(new.tiempo)]}
        [] OTHER                         -> {}

SameMarks(c) ==
  /\ c.faltas = ShownFaults(status)
  /\ c.rehuses = status.refusals
  /\ c.eliminado = status.eliminated

(* mutant of ReadCompare: the marks are not compared *)
ReadCompare_ClockOnly ==
  /\ rpc = "compare"
  /\ cw_data' = PollOf(data)
  /\ LET changes == Changes(cw_data, data) IN
       \/ /\ changes # {}
          /\ msg' \in changes
          /\ rpc' = "send" /\ sem' = 1
       \/ /\ changes = {}
          /\ rpc' = "sleep"
          /\ UNCHANGED <<msg, sem>>
  /\ data' = Zero
  /\ UNCHANGED <<status, crono, main, orders, presses, lost, hung, clean>>

(* the changes of the clock first; the marks, compared with a status that  *)
(* the main thread may be changing, only when there are none               *)
ReadCompare ==
  /\ rpc = "compare"
  /\ cw_data' = PollOf(data)
  /\ LET changes == Changes(cw_data, data) IN
       \/ /\ changes # {}
          /\ msg' \in changes
          /\ rpc' = "send" /\ sem' = 1
       \/ /\ changes = {} /\ ~SameMarks(data)
          /\ msg' = [name |-> "data", arg |-> FRE(data.faltas, data.rehuses, data.eliminado)]
          /\ rpc' = "send" /\ sem' = 1
       \/ /\ changes = {} /\ SameMarks(data)
          /\ rpc' = "sleep"
          /\ UNCHANGED <<msg, sem>>
  /\ data' = Zero
  /\ UNCHANGED <<status, crono, main, orders, presses, lost, hung, clean>>

(* mutant of ReadSleep: no sem_post() after usleep() *)
ReadSleep_NoPost ==
  /\ rpc = "sleep"
  /\ rpc' = "poll"
  /\ UNCHANGED <<status, crono, cw_data, sem, data, msg, main, orders, presses, lost, hung, clean>>

(* usleep() with the semaphore taken *)
ReadSleep ==
  /\ rpc = "sleep"
  /\ sem' = 1
  /\ rpc' = "poll"
  /\ UNCHANGED <<status, crono, cw_data, data, msg, main, orders, presses, lost, hung, clean>>

-----------------------------------------------------------------------------
(* The main thread: a command is applied to the status and then passed to  *)
(* the network manager's handler, unless it comes from there.              *)

Applied(c) == IF MainAccepts(status, c.name, c.arg) THEN MainApply(status, c.name, c.arg)
              ELSE status

ServeChrono ==
  /\ mpc = "idle" /\ rpc = "send"
  /\ status' = Applied(msg)
  /\ msg' = NoOrder
  /\ rpc' = "poll"
  /\ UNCHANGED <<crono, cw_data, sem, data, main, orders, presses, lost, hung, clean>>

ServeOrder ==
  /\ mpc = "idle" /\ orders < MaxOrders
  /\ \E c \in Orders :
       \/ /\ MainAccepts(status, c.name, c.arg)
          /\ status' = MainApply(status, c.name, c.arg)
          /\ cmd' = c
          /\ mpc' = "handler"
       \/ /\ ~MainAccepts(status, c.name, c.arg)
          /\ UNCHANGED <<status, cmd, mpc>>
  /\ orders' = orders + 1
  /\ UNCHANGED <<crono, cw_data, sem, reader, cur, presses, lost, hung, clean>>

-----------------------------------------------------------------------------
(* module_write()                                                          *)

(* mutant of WriteWait: module_write() does not wait for the semaphore *)
WriteWait_NoWait ==
  /\ mpc = "handler"
  /\ sem' = 0
  /\ mpc' = "write"
  /\ UNCHANGED <<status, crono, cw_data, reader, cmd, cur, orders, presses, lost, hung, clean>>

WriteWait ==
  /\ mpc = "handler" /\ sem = 1
  /\ sem' = 0
  /\ mpc' = "write"
  /\ UNCHANGED <<status, crono, cw_data, reader, cmd, cur, orders, presses, lost, hung, clean>>

Writes(names) == mpc = "write" /\ cmd.name \in names /\ ~hung
(* end of the handler: its locals are gone *)
Forget == mpc' = "idle" /\ cmd' = NoOrder /\ cur' = MarksOf(Zero) /\ clean' = FALSE
Return ==
  /\ sem' = 1
  /\ Forget
  /\ UNCHANGED <<status, reader, orders, presses, lost, hung>>

(* START and STOP both press "startstop", when cw_data says that the       *)
(* chronometer is not where it should be                                   *)
WriteStartStop ==
  /\ Writes({"start", "stop"})
  /\ crono' \in IF cw_data.running = (IF cmd.name = "start" THEN 0 ELSE 1)
                THEN Sent(StartStop(crono)) ELSE {crono}
  /\ UNCHANGED cw_data
  /\ Return

(* WALK for less than a minute, and net_mgr_walk() makes it 420 seconds when*)
(* it does not say                                                         *)
NoMinutes(c) == c.arg.kind # "none" /\ c.arg.n \in -59..59

(* WALK 0 ends a course walk with a reset *)
WriteReset ==
  /\ Writes({"reset", "walk"})
  /\ cmd.name = "walk" => NoMinutes(cmd)
  /\ crono' \in Sent({Zero})
  /\ UNCHANGED cw_data
  /\ Return

(* nothing that polls would show: displays, configuration, unsupported *)
WriteOther ==
  /\ Writes({"int", "msg", "walk", "down", "config", "turn", "bright", "clock"})
  /\ cmd.name = "walk" => ~NoMinutes(cmd)
  /\ UNCHANGED <<crono, cw_data>>
  /\ Return

(* STATUS stores the answer where module_read() looks for changes *)
WriteStatus ==
  /\ Writes({"status"})
  /\ \/ UNCHANGED <<crono, cw_data>>
     \/ crono' \in Clock(crono) /\ cw_data' = PollOf(crono')
  /\ Return

Score == {"fault", "refusal", "elim", "data"}

(* mutant of SyncQuery: the chronometer is taken to have no marks *)
SyncQuery_FromZero ==
  /\ Writes(Score)
  /\ crono' \in Clock(crono)
  /\ cur' = MarksOf(Zero)
  /\ clean' = TRUE
  /\ mpc' = "sync"
  /\ UNCHANGED <<status, cw_data, sem, reader, cmd, orders, presses, lost, hung>>

(* synchronize_chrono() asks for the marks of the chronometer *)
SyncQuery ==
  /\ Writes(Score)
  /\ crono' \in Clock(crono)
  /\ cur' = MarksOf(crono')
  /\ clean' = TRUE
  /\ mpc' = "sync"
  /\ UNCHANGED <<status, cw_data, sem, reader, cmd, orders, presses, lost, hung>>

(* it fails, and module_write() returns -1 without sem_post() *)
SyncFails ==
  /\ Writes(Score)
  /\ Forget
  /\ lost' = TRUE
  /\ UNCHANGED <<status, crono, cw_data, sem, reader, orders, presses, hung>>

Delta(x, y) == IF x > y THEN 1 ELSE IF x < y THEN -1 ELSE 0

(* one turn of its loops, faults first: F and R are relative, E toggles *)
Toward(c) ==
  LET f == Delta(ShownFaults(status), c.faltas)
      r == Delta(status.refusals, c.rehuses)
  IN IF f # 0 THEN [c EXCEPT !.faltas = @ + f]
     ELSE IF r # 0 THEN [c EXCEPT !.rehuses = @ + r]
     ELSE [c EXCEPT !.eliminado = status.eliminated]

SyncPut ==
  /\ mpc = "sync" /\ ~hung /\ ~SameMarks(cur)
  /\ cur' = Toward(cur)
  /\ LET moved == [crono EXCEPT !.faltas    = AtLeast0(@ + cur'.faltas - cur.faltas),
                                !.rehuses   = AtLeast0(@ + cur'.rehuses - cur.rehuses),
                                !.eliminado = IF cur'.eliminado = cur.eliminado THEN @ ELSE 1 - @]
     IN  \/ crono' = moved /\ UNCHANGED clean
         \/ UNCHANGED crono /\ clean' = FALSE
  /\ UNCHANGED <<status, cw_data, sem, reader, mpc, cmd, orders, presses, lost, hung>>

SyncEnd ==
  /\ mpc = "sync" /\ ~hung /\ SameMarks(cur)
  /\ UNCHANGED <<crono, cw_data>>
  /\ Return

-----------------------------------------------------------------------------
Reader == ReadWait \/ ReadQuery \/ ReadFails \/ ReadCompare \/ ReadSleep
Write  == WriteStartStop \/ WriteReset \/ WriteOther \/ WriteStatus
          \/ SyncQuery \/ SyncFails \/ SyncPut \/ SyncEnd
Next   == Press \/ Hang \/ Reader \/ ServeChrono \/ ServeOrder \/ WriteWait \/ Write

Spec == Init /\ [][Next]_vars

(* a poll that is answered, with a time other than the last one: neither   *)
(* failed polls nor intermediate times go on for ever                      *)
FreshQuery == ReadQuery /\ (crono.running = 1 => crono'.tiempo # cw_data.tiempo)

(* Threads run, but for the one whose transfer never ends, and one that    *)
(* waits for the semaphore gets it at last.  Nothing says that a transfer  *)
(* ends: Hang may take its place.                                          *)
FairSpec ==
  /\ Spec
  /\ SF_vars(ReadWait) /\ SF_vars(FreshQuery) /\ WF_vars(Reader)
  /\ WF_vars(ServeChrono)
  /\ SF_vars(WriteWait) /\ WF_vars(Write)
-----------------------------------------------------------------------------
(* One thread at a time talks to the chronometer, from the query of an     *)
(* operation to its last transfer.                                         *)
Holder ==
  CASE lost                                -> "gone"
    [] rpc \in {"query", "compare", "sleep"} -> "reader"
    [] mpc \in {"write", "sync"}             -> "main"
    [] OTHER                                -> "nobody"

Device == INSTANCE SharedDevice WITH Thread <- {"reader", "main"}, holder <- Holder

OneUserAtATime == Device!Spec

(* "semaphore used to block sendrec while data is being sent or receive":  *)
(* every path through module_read() and module_write() gives back what it  *)
(* took, the failed synchronisation apart; after that nobody gets in.      *)
LockAccounted ==
  LET Holding(b) == IF b THEN 1 ELSE 0 IN
  sem + Holding(rpc \in {"query", "compare", "sleep"}) + Holding(mpc \in {"write", "sync"})
    = Holding(~lost)

(* "set FTRE data in crono to be equal to internal data": relative steps   *)
(* and a toggle bring the chronometer to the counts of the status, whatever*)
(* it had, if all of them arrive and nobody touches it meanwhile.          *)
SyncExact == mpc = "sync" /\ SameMarks(cur) /\ clean => SameMarks(crono)

(* When commands and judges come to rest the status and the chronometer    *)
(* have the same marks, whatever transfers failed and however polls fell   *)
(* between commands, unless the semaphore was lost or a transfer never     *)
(* ends.                                                                   *)
MarksConverge == <>[](SameMarks(crono) \/ lost \/ hung)

(* What may keep the main thread in the network manager's handler is a lost*)
(* semaphore or a transfer that never ends, its own or one of the poller,  *)
(* which holds the semaphore then; failed polls and polls that find        *)
(* something to tell or nothing give it back.                              *)
HandlerReturns == mpc = "handler" ~> (mpc = "idle" \/ lost \/ hung)

(* "make sure that any operation from/to chrono is atomic"                 *)
(* (canometroweb.c): the semaphore is free when no operation is under way. *)
FreeBetweenOperations ==
  mpc \in {"idle", "handler"} /\ rpc \in {"poll", "send"} => sem = 1

(* "si el cronometro esta corriendo no hacer nada" (canometroweb.c): START *)
(* does not stop a chronometer that runs.                                  *)
StartKeepsRunning ==
  [][Writes({"start"}) /\ WriteStartStop => crono'.running >= crono.running]_vars
=============================================================================
