-------------------------- MODULE AjaxBridgeProofs --------------------------
(***************************************************************************)
(* Theorems of the link with the AgilityContest server, for any events of  *)
(* the server's operators and any commands of the other managers.          *)
(***************************************************************************)
EXTENDS AjaxBridge, ChronoStatusProofs, SequenceTheorems

(***************************************************************************)
(* The inductive invariant.                                                *)
(***************************************************************************)
(* Before the session is opened nothing has been fetched.                  *)
Unopened == apc \in {"select", "perms", "connect", "ended"}

(* The batch is the part of the log that follows evtid.                    *)
BatchInv ==
  /\ apc = "parse" <=> batch # <<>>
  /\ \A i \in 1..Len(batch) : batch[i] = log[evtid + i]
  /\ Unopened => evtid = 0 /\ first = 0 /\ executed = <<>> /\ refused = {}
  /\ Unopened \/ apc = "poll" => cmds = <<>>

(* Without a licence nothing is fetched, the commands are no event's.      *)
LicenseInv ==
  license < 0 =>
    /\ evtid = first /\ executed = <<>> /\ refused = {} /\ apc # "parse"
    /\ \A i \in 1..Len(cmds) : cmds[i].id = 0 /\ cmds[i].name \in {"msg", "exit"}

Asks(k) == ~log[k].own /\ log[k].type \in {"datos", "llamada", "start", "crono_reset"}

(* What was executed and what waits to be sent are, in order, the events up*)
(* to evtid that ask for a command, but for the refused ones.              *)
OrderInv ==
  license >= 0 =>
    /\ \A i \in 1..Len(executed) : executed[i] \in first + 1..evtid /\ Asks(executed[i])
    /\ \A i \in 1..Len(cmds) : cmds[i].id \in first + 1..evtid /\ Asks(cmds[i].id)
    /\ \A i, j \in 1..Len(executed) : i < j => executed[i] < executed[j]
    /\ \A i, j \in 1..Len(cmds) : i < j => cmds[i].id < cmds[j].id
    /\ \A i \in 1..Len(executed), j \in 1..Len(cmds) : executed[i] < cmds[j].id
    /\ \A k \in first + 1..evtid : Asks(k) =>
         \/ \E i \in 1..Len(executed) : executed[i] = k
         \/ \E i \in 1..Len(cmds) : cmds[i].id = k
         \/ k \in refused

(* What was refused was not executed, and precedes what waits.             *)
DropInv ==
  license >= 0 =>
    /\ \A k \in refused : k \in first + 1..evtid /\ Asks(k)
    /\ \A k \in refused, i \in 1..Len(executed) : executed[i] # k
    /\ \A k \in refused, j \in 1..Len(cmds) : k < cmds[j].id

EventInv == BatchInv /\ LicenseInv /\ OrderInv /\ DropInv

(* What is asked of the marks for the scores to agree: no DATA asks for    *)
(* negative counts, an elimination is 0 or 1, and either events with marks *)
(* leave the touches alone or all of them carry both faults and touches    *)
(* (the program never stores the touches of datos).                        *)
MarksSent ==
  /\ \A c \in LocalCommands : c.name = "data" => c.arg.n >= 0 /\ c.arg.r >= 0
  /\ \A e \in OperatorEvents : e.eli \in {Keep, 0, 1}
  /\ \/ \A e \in OperatorEvents : e.type = "datos" => e.toc = Keep
     \/ \A e \in OperatorEvents : e.type \in {"datos", "llamada"} => e.flt # Keep /\ e.toc # Keep

Marks(s) == [flt |-> s.faults, toc |-> s.touchs, reh |-> s.refusals, eli |-> s.eliminated]

(* The status shows the score; also its touches are the score's if no datos*)
(* brings any.                                                             *)
Agree(s, sc) ==
  /\ ShownFaults(s) = sc.flt + sc.toc /\ s.refusals = sc.reh
  /\ s.eliminated = sc.eli /\ s.eliminated \in {0, 1}
  /\ (\A e \in OperatorEvents : e.type = "datos" => e.toc = Keep) => s.touchs = sc.toc

(* The score after each event of the log.                                  *)
History(sc) ==
  /\ sc \in [0..Len(log) -> Score] /\ sc[0] = Zero /\ sc[Len(log)] = srv
  /\ \A k \in 1..Len(log) : sc[k] = ServerScore(sc[k - 1], log[k])

(* If answers hold one event, the status is the score at evtid, once the   *)
(* command that is on its way has been executed, unless it lags behind.    *)
Followed(sc) ==
  /\ batch # <<>> => cmds = <<>> /\ Len(batch) = 1
  /\ cmds # <<>> => /\ Len(cmds) = 1
                    /\ cmds[1].name \in {"data", "reset", "turn", "start", "msg", "exit"}
  /\ ~lag /\ cmds = <<>> => Agree(status, sc[evtid])
  /\ ~lag /\ cmds # <<>> => /\ MainAccepts(status, cmds[1].name, cmds[1].arg)
                            /\ Agree(MainApply(status, cmds[1].name, cmds[1].arg), sc[evtid])

OperatorInv ==
  nlocal = 0 =>
    /\ mpc \in {"idle", "done"} /\ status.eliminated \in {0, 1}
    /\ \A i \in 1..Len(log) : log[i] \in OperatorEvents
    /\ \E sc : History(sc) /\ (alone => Followed(sc))

(* While only own events were read, the marks are the local commands'.  The*)
(* event being put carries them, and the server has them once it took it.  *)
Undisturbed == \A k \in first + 1..evtid : log[k].own

CutInv     == ~alone => evtid + Len(batch) > first
LagInv     == lag => evtid > first
PutInv     ==
  /\ url.own
  /\ mpc \in {"fan", "put"} => nlocal > 0 /\ url.type \in {"datos", "crono_reset"}
BehindInv  == mpc \in {"fan", "put"} => behind
ReachedInv == ~behind => (nlocal > 0 => \E i \in 1..Len(log) : log[i].own)
CleanMarks(s) == s.touchs = 0 /\ s.faults >= 0 /\ s.refusals >= 0 /\ s.eliminated \in {0, 1}
LocalInv ==
  Undisturbed =>
    /\ CleanMarks(status)
    /\ mpc \in {"fan", "put"} /\ url.type = "crono_reset" => Marks(status) = Zero
    /\ mpc = "put" => /\ url.flt = status.faults /\ url.toc = status.touchs
                      /\ url.reh = status.refusals /\ url.eli = status.eliminated
LastInv ==
  ~behind => (Undisturbed /\ nlocal > 0 /\ Len(log) > 0 /\ log[Len(log)].own => Marks(status) = srv)

ScoreInv ==
  OperatorInv /\ CutInv /\ LagInv /\ PutInv /\ BehindInv /\ ReachedInv /\ LocalInv /\ LastInv

(***************************************************************************)
(* The types.                                                              *)
(***************************************************************************)
Place == {"select", "perms", "connect", "poll", "parse", "send", "wait", "ended"}
Pending == [name : CmdName, arg : Arg, id : Nat]

ServerTypes == status \in Status /\ log \in Seq(Event) /\ srv \in Score
LinkTypes ==
  /\ license \in {0, -1, -2} /\ apc \in Place
  /\ evtid \in 0..Len(log) /\ first \in 0..evtid
  /\ batch \in Seq(Event) /\ evtid + Len(batch) <= Len(log)
CmdTypes == cmds \in Seq(Pending) /\ (apc = "wait" => cmds # <<>>)
MainTypes ==
  /\ mpc \in {"idle", "fan", "put", "done"} /\ url \in Event
  /\ nlocal \in 0..MaxLocal /\ executed \in Seq(Nat)
FlagTypes ==
  /\ session \in BOOLEAN /\ behind \in BOOLEAN /\ alone \in BOOLEAN
  /\ refused \subseteq Nat /\ lag \in BOOLEAN

LEMMA TypeParts ==
  TypeOK <=> ServerTypes /\ LinkTypes /\ CmdTypes /\ MainTypes /\ FlagTypes
BY Zenon DEF TypeOK, ServerTypes, LinkTypes, CmdTypes, MainTypes, FlagTypes, Place, Pending

LEMMA TypeNext ==
  ASSUME ServerTypes', LinkTypes', CmdTypes', MainTypes', FlagTypes'
  PROVE  TypeOK'
BY Zenon DEF TypeOK, ServerTypes, LinkTypes, CmdTypes, MainTypes, FlagTypes, Place, Pending

LEMMA Typed ==
  /\ Zero \in Score /\ DefaultStatus \in Status
  /\ \A t \in EventType, o \in BOOLEAN, s \in Score : Complete(t, o, s) \in Event
  /\ NoArg \in Arg /\ \A n \in Int : Num(n) \in Arg
  /\ \A f, r, e \in Int : FRE(f, r, e) \in Arg
<1>1. Zero \in Score /\ DefaultStatus \in Status
  BY DEF Zero, Score, DefaultStatus, Status
<1>2. \A t \in EventType, o \in BOOLEAN, s \in Score : Complete(t, o, s) \in Event
  <2> SUFFICES ASSUME NEW t \in EventType, NEW o \in BOOLEAN, NEW s \in Score
               PROVE  Complete(t, o, s) \in Event
    OBVIOUS
  <2>1. s.flt \in Int /\ s.toc \in Int /\ s.reh \in Int /\ s.eli \in Int
    BY DEF Score
  <2>2. QED
    BY <2>1, Zenon DEF Complete, Event
<1>3. NoArg \in Arg /\ (\A n \in Int : Num(n) \in Arg) /\ \A f, r, e \in Int : FRE(f, r, e) \in Arg
  BY DEF NoArg, Num, FRE, Arg, ArgKind
<1>4. QED
  BY <1>1, <1>2, <1>3

(* What the server makes of an event, what the event writes and asks for.  *)
LEMMA EventTypes ==
  ASSUME NEW e \in Event, NEW s \in Status
  PROVE  /\ \A sc \in Score : ServerScore(sc, e) \in Score
         /\ EventWrites(s, e) \in Status
         /\ EventCommand(s, e).arg \in Arg
         /\ EventCommand(s, e) = NoCommand
              <=> e.type \notin {"datos", "llamada", "start", "crono_reset"}
         /\ EventCommand(s, e) # NoCommand => EventCommand(s, e).name \in CmdName
<1>0. e.flt \in Int /\ e.toc \in Int /\ e.reh \in Int /\ e.eli \in Int
  BY DEF Event
<1>a. \A x, y \in Int : Or(x, y) \in Int
  BY DEF Or
<1>b. s.faults \in Int /\ s.touchs \in Int /\ s.refusals \in Int /\ s.eliminated \in Int
  BY DEF Status
<1>c. /\ Or(e.flt, s.faults) \in Int /\ Or(e.toc, s.touchs) \in Int
      /\ Or(e.reh, s.refusals) \in Int /\ Or(e.eli, s.eliminated) \in Int
  BY <1>0, <1>a, <1>b, Zenon
<1>1. \A sc \in Score : ServerScore(sc, e) \in Score
  <2> SUFFICES ASSUME NEW sc \in Score PROVE ServerScore(sc, e) \in Score
    OBVIOUS
  <2>1. [flt |-> Or(e.flt, sc.flt), toc |-> Or(e.toc, sc.toc),
         reh |-> Or(e.reh, sc.reh), eli |-> Or(e.eli, sc.eli)] \in Score
    BY <1>0, <1>a DEF Score
  <2>2. QED
    BY <2>1, Typed DEF ServerScore
<1>2. EventWrites(s, e) \in Status
  <2>z. 0 \in Int /\ 1 \in Int
    OBVIOUS
  <2>0. \A u \in Status : \A x \in Int :
          [u EXCEPT !.faults = x, !.touchs = x, !.refusals = x,
                    !.eliminated = x, !.notpresent = x] \in Status
    BY DEF Status
  <2>1. NoMarks(s) \in Status
    BY <2>0, <2>z, Zenon DEF NoMarks
  <2>a. \A u \in Status : \A x \in Int : [u EXCEPT !.numero = x, !.dorsal = x] \in Status
    BY DEF Status
  <2>2. [NoMarks(s) EXCEPT !.numero = 0, !.dorsal = 0] \in Status
    BY <2>1, <2>a, <2>z, Zenon
  <2>3. \A u \in Status : \A d, f, t, r, l, n \in Int :
          [u EXCEPT !.dorsal = d, !.faults = f, !.touchs = t, !.refusals = r,
                    !.eliminated = l, !.notpresent = n] \in Status
    BY ZenonT(60) DEF Status
  <2>4. /\ Or(e.flt, s.faults) \in Int /\ Or(e.toc, s.touchs) \in Int
        /\ Or(e.reh, s.refusals) \in Int /\ Or(e.eli, s.eliminated) \in Int
        /\ (IF e.flt = Keep THEN s.notpresent ELSE 0) \in Int
    BY <1>c DEF Status
  <2> DEFINE f == Or(e.flt, s.faults)
             t == Or(e.toc, s.touchs)
             r == Or(e.reh, s.refusals)
             l == Or(e.eli, s.eliminated)
             n == IF e.flt = Keep THEN s.notpresent ELSE 0
  <2> HIDE DEF f, t, r, l, n
  <2>b. [s EXCEPT !.dorsal = 1, !.faults = f, !.touchs = t, !.refusals = r,
                  !.eliminated = l, !.notpresent = n] \in Status
    <3>1. f \in Int /\ t \in Int /\ r \in Int /\ l \in Int /\ n \in Int
      BY <2>4 DEF f, t, r, l, n
    <3>2. QED
      BY <2>3, <2>z, <3>1, Zenon
  <2>5. [s EXCEPT !.dorsal = 1,
                  !.faults = Or(e.flt, @), !.touchs = Or(e.toc, @),
                  !.refusals = Or(e.reh, @), !.eliminated = Or(e.eli, @),
                  !.notpresent = IF e.flt = Keep THEN @ ELSE 0] \in Status
    BY <2>b, Zenon DEF f, t, r, l, n
  <2>6. QED
    BY <2>2, <2>5 DEF EventWrites
<1>3. EventCommand(s, e).arg \in Arg
  <2>1. /\ Or(e.flt, s.faults) + Or(e.toc, s.touchs) \in Int
        /\ Or(e.reh, s.refusals) \in Int /\ Or(e.eli, s.eliminated) \in Int
    BY <1>c
  <2>2. FRE(Or(e.flt, s.faults) + Or(e.toc, s.touchs),
            Or(e.reh, s.refusals), Or(e.eli, s.eliminated)) \in Arg
    BY <2>1, Typed, Zenon
  <2>3. QED
    BY <2>2, Typed DEF EventCommand, NoCommand, CmdOf
<1>4. EventCommand(s, e).name =
        CASE e.type = "datos"       -> "data"
          [] e.type = "llamada"     -> "turn"
          [] e.type = "start"       -> "start"
          [] e.type = "crono_reset" -> "reset"
          [] OTHER                  -> "none"
  BY DEF EventCommand, NoCommand, CmdOf
<1>5. NoCommand.name = "none"
  BY DEF NoCommand, CmdOf
<1>6. EventCommand(s, e) = NoCommand
        <=> e.type \notin {"datos", "llamada", "start", "crono_reset"}
  <2>1. CASE e.type \in {"datos", "llamada", "start", "crono_reset"}
    BY <1>4, <1>5, <2>1
  <2>2. CASE e.type \notin {"datos", "llamada", "start", "crono_reset"}
    BY <2>2 DEF EventCommand
  <2>3. QED
    BY <2>1, <2>2
<1>7. EventCommand(s, e) # NoCommand => EventCommand(s, e).name \in CmdName
  BY <1>4, <1>6 DEF CmdName
<1>8. QED
  BY <1>1, <1>2, <1>3, <1>6, <1>7

LEMMA InitTypes == Init => TypeOK
<1> SUFFICES ASSUME Init PROVE TypeOK
  OBVIOUS
<1>1. ServerTypes /\ CmdTypes
  BY Typed DEF Init, ServerTypes, CmdTypes
<1>2. LinkTypes
  BY DEF Init, LinkTypes, Place
<1>3. MainTypes
  <2>1. "datos" \in EventType /\ TRUE \in BOOLEAN
    BY DEF EventType
  <2>2. url \in Event
    BY <2>1, Typed, Zenon DEF Init
  <2>3. mpc = "idle" /\ nlocal = 0 /\ executed = <<>>
    BY Zenon DEF Init
  <2>4. QED
    BY <2>2, <2>3, BridgeAssumption DEF MainTypes
<1>4. FlagTypes
  BY Zenon DEF Init, FlagTypes
<1>5. QED
  BY <1>1, <1>2, <1>3, <1>4, TypeParts

(* A new event at the end of the log.                                      *)
LEMMA RecordTypes ==
  ASSUME ServerTypes, LinkTypes, NEW e \in Event, Record(e)
  PROVE  /\ log' \in Seq(Event) /\ srv' \in Score
         /\ Len(log') = Len(log) + 1 /\ Len(log) \in Nat
         /\ log'[Len(log) + 1] = e /\ \A i \in 1..Len(log) : log'[i] = log[i]
         /\ evtid \in 0..Len(log') /\ evtid + Len(batch) <= Len(log')
<1>1. /\ log' \in Seq(Event) /\ Len(log') = Len(log) + 1 /\ Len(log) \in Nat
      /\ log'[Len(log) + 1] = e /\ \A i \in 1..Len(log) : log'[i] = log[i]
  BY AppendProperties DEF Record, ServerTypes
<1>2. srv' \in Score
  BY EventTypes, Typed DEF Record, ServerTypes
<1>3. Len(batch) \in Nat
  BY DEF LinkTypes
<1>4. QED
  BY <1>1, <1>2, <1>3 DEF LinkTypes

LEMMA SelectTypes == TypeOK /\ BatchInv /\ (Select \/ AskPermissions \/ OpenSession) => TypeOK'
<1> SUFFICES ASSUME TypeOK, BatchInv, Select \/ AskPermissions \/ OpenSession PROVE TypeOK'
  OBVIOUS
<1>0. ServerTypes /\ LinkTypes /\ CmdTypes /\ MainTypes /\ FlagTypes
  BY TypeParts
<1>1. UNCHANGED <<status, log, srv, batch, cmds, alone, refused, lag, mpc, url, nlocal,
                  behind, executed>>
  BY DEF Select, AskPermissions, OpenSession, server, main, dropped
<1>2. ServerTypes' /\ MainTypes'
  BY <1>0, <1>1 DEF ServerTypes, MainTypes
<1>3. CmdTypes'
  BY <1>0, <1>1 DEF CmdTypes, Select, AskPermissions, OpenSession
<1>4. FlagTypes'
  BY <1>0, <1>1, Zenon DEF FlagTypes, Select, AskPermissions, OpenSession
<1>5. LinkTypes'
  <2>1. CASE Select \/ AskPermissions
    BY <1>0, <1>1, <2>1 DEF LinkTypes, Place, Select, AskPermissions
  <2>2. CASE OpenSession
    <3>1. CASE UNCHANGED <<evtid, first>> /\ apc' = "ended" /\ license' = license
      BY <1>0, <1>1, <3>1 DEF LinkTypes, Place
    <3>2. ASSUME NEW i \in 1..Len(log), evtid' = i, first' = i, apc' = "poll"
          PROVE  LinkTypes'
      <4>1. apc = "connect" /\ license' = license
        BY <2>2 DEF OpenSession
      <4>2. batch = <<>>
        BY <4>1 DEF BatchInv
      <4>3. QED
        BY <1>0, <1>1, <3>2, <4>1, <4>2 DEF LinkTypes, Place
    <3>3. QED
      BY <2>2, <3>1, <3>2 DEF OpenSession
  <2>3. QED
    BY <2>1, <2>2
<1>6. QED
  BY <1>2, <1>3, <1>4, <1>5, TypeNext, Zenon

LEMMA LinkStepTypes == TypeOK /\ (Refused \/ Fetch \/ SendNext) => TypeOK'
<1> SUFFICES ASSUME TypeOK, Refused \/ Fetch \/ SendNext PROVE TypeOK'
  OBVIOUS
<1>0. ServerTypes /\ LinkTypes /\ CmdTypes /\ MainTypes /\ FlagTypes
  BY TypeParts
<1>1. UNCHANGED <<status, log, srv, session, evtid, first, refused, lag, mpc, url, nlocal, behind,
                  executed>>
  BY DEF Refused, Fetch, SendNext, server, main, dropped
<1>2. ServerTypes' /\ MainTypes'
  BY <1>0, <1>1 DEF ServerTypes, MainTypes
<1>3. CASE Refused
  <2>1. cmds' \in Seq(Pending)
    <3>1. [name |-> IF license = -1 THEN "msg" ELSE "exit", arg |-> NoArg, id |-> 0] \in Pending
      BY Typed DEF Pending, CmdName
    <3>2. QED
      BY <1>3, <3>1 DEF Refused
  <2>2. CmdTypes' /\ LinkTypes'
    BY <1>0, <1>1, <1>3, <2>1 DEF Refused, CmdTypes, LinkTypes, Place
  <2>3. FlagTypes'
    BY <1>0, <1>1, <1>3, Zenon DEF Refused, FlagTypes
  <2>4. QED
    BY <1>2, <2>2, <2>3, TypeNext, Zenon
<1>4. CASE Fetch
  <2>1. PICK n \in 1..MaxBatch : evtid + n <= Len(log) /\ batch' = SubSeq(log, evtid + 1, evtid + n)
    BY <1>4 DEF Fetch
  <2>2. n \in Nat /\ evtid \in Nat /\ Len(log) \in Nat
    BY <1>0, <2>1, BridgeAssumption DEF LinkTypes, ServerTypes
  <2>3. batch' \in Seq(Event) /\ Len(batch') = n
    BY <1>0, <2>1, <2>2, SubSeqProperties DEF ServerTypes
  <2>4. LinkTypes'
    BY <1>0, <1>1, <1>4, <2>1, <2>2, <2>3 DEF Fetch, LinkTypes, Place
  <2>5. CmdTypes'
    BY <1>0, <1>4 DEF Fetch, CmdTypes
  <2>6. FlagTypes'
    BY <1>0, <1>1, <1>4, Zenon DEF Fetch, FlagTypes
  <2>7. QED
    BY <1>2, <2>4, <2>5, <2>6, TypeNext, Zenon
<1>5. CASE SendNext
  <2>1. CmdTypes' /\ LinkTypes'
    BY <1>0, <1>1, <1>5 DEF SendNext, CmdTypes, LinkTypes, Place
  <2>2. FlagTypes'
    BY <1>0, <1>1, <1>5, Zenon DEF SendNext, FlagTypes
  <2>3. QED
    BY <1>2, <2>1, <2>2, TypeNext, Zenon
<1>6. QED
  BY <1>3, <1>4, <1>5

(* The event that is parsed, and the command that is appended for it.      *)
LEMMA Parsed ==
  ASSUME TypeOK, BatchInv, ParseEvent
  PROVE  /\ Len(batch) \in Nat /\ Len(batch) > 0 /\ evtid + 1 \in 1..Len(log)
         /\ batch' \in Seq(Event) /\ Len(batch') = Len(batch) - 1
         /\ \A i \in 1..Len(batch') : batch'[i] = batch[i + 1]
         /\ log[evtid + 1] \in Event /\ Head(batch) = log[evtid + 1]
         /\ log[evtid + 1].own => cmds' = cmds /\ status' = status
         /\ ~log[evtid + 1].own => status' = EventWrites(status, log[evtid + 1])
         /\ cmds' = cmds \/ \E c \in Pending : cmds' = Append(cmds, c)
<1>0. ServerTypes /\ LinkTypes /\ CmdTypes
  BY TypeParts
<1>1. batch \in Seq(Event) /\ batch # <<>> /\ evtid \in Nat /\ evtid + Len(batch) <= Len(log)
  BY <1>0 DEF ParseEvent, LinkTypes
<1>2. /\ Head(batch) \in Event /\ Head(batch) = batch[1] /\ Tail(batch) \in Seq(Event)
      /\ Len(batch) \in Nat /\ Len(batch) > 0 /\ Len(Tail(batch)) = Len(batch) - 1
      /\ \A i \in 1..Len(Tail(batch)) : Tail(batch)[i] = batch[i + 1]
  BY <1>1, HeadTailProperties, EmptySeq
<1>3. batch' = Tail(batch) /\ evtid' = evtid + 1
  BY DEF ParseEvent
<1>4. 1 \in 1..Len(batch) /\ Head(batch) = log[evtid + 1]
  BY <1>2 DEF BatchInv
<1>5. Len(log) \in Nat /\ evtid + 1 \in 1..Len(log)
  BY <1>0, <1>1, <1>2 DEF ServerTypes
<1> DEFINE e == Head(batch)
           c == EventCommand(status, e)
<1>6. IF e.own THEN UNCHANGED <<status, cmds>>
      ELSE /\ status' = EventWrites(status, e)
           /\ cmds' = IF c = NoCommand THEN cmds
                      ELSE Append(cmds, [name |-> c.name, arg |-> c.arg, id |-> evtid'])
  BY DEF ParseEvent
<1>7. c # NoCommand => [name |-> c.name, arg |-> c.arg, id |-> evtid'] \in Pending
  <2>1. c.arg \in Arg /\ (c # NoCommand => c.name \in CmdName)
    BY <1>0, <1>2, EventTypes, Zenon DEF ServerTypes
  <2>2. evtid' \in Nat
    BY <1>1, <1>3
  <2> HIDE DEF c
  <2>3. QED
    BY <2>1, <2>2, Zenon DEF Pending
<1> HIDE DEF e, c
<1>8. cmds' = cmds \/ \E d \in Pending : cmds' = Append(cmds, d)
  BY <1>6, <1>7
<1>9. e = log[evtid + 1]
  BY <1>4 DEF e
<1>10. QED
  BY <1>2, <1>3, <1>4, <1>5, <1>6, <1>8, <1>9

LEMMA ParseTypes == TypeOK /\ BatchInv /\ ParseEvent => TypeOK'
<1> SUFFICES ASSUME TypeOK, BatchInv, ParseEvent PROVE TypeOK'
  OBVIOUS
<1>0. ServerTypes /\ LinkTypes /\ CmdTypes /\ MainTypes /\ FlagTypes
  BY TypeParts
<1>1. UNCHANGED <<log, srv, session, license, first, alone, refused, mpc, url, nlocal, behind, executed>>
  BY DEF ParseEvent, server, main
<1>2. evtid' = evtid + 1 /\ apc' \in {"send", "parse"}
  BY DEF ParseEvent
<1>3. MainTypes'
  BY <1>0, <1>1 DEF MainTypes
<1>4. FlagTypes'
  <2>1. lag' = (lag /\ ~Whole(Head(batch)))
    BY Zenon DEF ParseEvent
  <2>2. QED
    BY <1>0, <1>1, <2>1, Zenon DEF FlagTypes
<1>5. LinkTypes'
  BY <1>0, <1>1, <1>2, Parsed DEF LinkTypes, Place
<1>6. CmdTypes'
  <2>1. cmds' = cmds \/ \E c \in Pending : cmds' = Append(cmds, c)
    BY Parsed
  <2>2. cmds' \in Seq(Pending)
    BY <1>0, <2>1, AppendProperties DEF CmdTypes
  <2>3. QED
    BY <1>2, <2>2 DEF CmdTypes
<1>7. ServerTypes'
  <2>1. EventWrites(status, log[evtid + 1]) \in Status
    BY <1>0, Parsed, EventTypes DEF ServerTypes
  <2>2. status' \in Status
    BY <1>0, <2>1, Parsed DEF ServerTypes
  <2>3. QED
    BY <1>0, <1>1, <2>2 DEF ServerTypes
<1>8. QED
  BY <1>3, <1>4, <1>5, <1>6, <1>7, TypeNext, Zenon

(* The commands that are left.                                             *)
LEMMA Rest ==
  ASSUME TypeOK, cmds # <<>>, cmds' = Tail(cmds)
  PROVE  /\ Head(cmds) \in Pending /\ Head(cmds) = cmds[1]
         /\ cmds' \in Seq(Pending) /\ Len(cmds) \in Nat /\ Len(cmds) > 0
         /\ Len(cmds') = Len(cmds) - 1
         /\ \A i \in 1..Len(cmds') : cmds'[i] = cmds[i + 1]
<1>1. cmds \in Seq(Pending)
  BY TypeParts DEF CmdTypes
<1>2. QED
  BY <1>1, HeadTailProperties, EmptySeq

LEMMA RefuseTypes == TypeOK /\ SendRefused => TypeOK'
<1> SUFFICES ASSUME TypeOK, SendRefused PROVE TypeOK'
  OBVIOUS
<1>0. ServerTypes /\ LinkTypes /\ CmdTypes /\ MainTypes /\ FlagTypes
  BY TypeParts
<1>1. /\ UNCHANGED <<status, log, srv, session, license, apc, evtid, first, batch, alone, mpc, url,
                     nlocal, behind, executed>>
      /\ cmds # <<>> /\ cmds' = Tail(cmds) /\ apc = "send"
  BY DEF SendRefused, server, main
<1>2. ServerTypes' /\ LinkTypes' /\ MainTypes'
  BY <1>0, <1>1 DEF ServerTypes, LinkTypes, MainTypes
<1>3. CmdTypes'
  BY <1>1, Rest DEF CmdTypes
<1>4. FlagTypes'
  <2>1. refused' = refused \cup ({Head(cmds).id} \ {0}) /\ lag' \in BOOLEAN
    BY <1>0, Zenon DEF SendRefused, FlagTypes
  <2>2. Head(cmds).id \in Nat
    BY <1>1, Rest DEF Pending
  <2>3. refused' \subseteq Nat
    BY <1>0, <2>1, <2>2 DEF FlagTypes
  <2>4. QED
    BY <1>0, <1>1, <2>1, <2>3, Zenon DEF FlagTypes
<1>5. QED
  BY <1>2, <1>3, <1>4, TypeNext, Zenon

(* The command that is executed, and the ones that are left.               *)
LEMMA Served ==
  ASSUME TypeOK, ServeServer
  PROVE  /\ Head(cmds) \in Pending /\ Head(cmds) = cmds[1]
         /\ cmds' \in Seq(Pending) /\ Len(cmds) \in Nat /\ Len(cmds) > 0
         /\ Len(cmds') = Len(cmds) - 1
         /\ \A i \in 1..Len(cmds') : cmds'[i] = cmds[i + 1]
         /\ executed' \in Seq(Nat)
         /\ cmds[1].id = 0 => executed' = executed
         /\ cmds[1].id # 0 => executed' = Append(executed, cmds[1].id)
         /\ status' = IF MainAccepts(status, cmds[1].name, cmds[1].arg)
                      THEN MainApply(status, cmds[1].name, cmds[1].arg) ELSE status
         /\ status' \in Status
<1>0. ServerTypes /\ LinkTypes /\ CmdTypes /\ MainTypes
  BY TypeParts
<1>1. cmds \in Seq(Pending) /\ cmds # <<>> /\ cmds' = Tail(cmds)
  BY <1>0 DEF ServeServer, CmdTypes
<1>2. /\ Head(cmds) \in Pending /\ Head(cmds) = cmds[1]
      /\ cmds' \in Seq(Pending) /\ Len(cmds) \in Nat /\ Len(cmds) > 0
      /\ Len(cmds') = Len(cmds) - 1
      /\ \A i \in 1..Len(cmds') : cmds'[i] = cmds[i + 1]
  BY <1>1, Rest
<1>3. cmds[1].id \in Nat /\ cmds[1].arg \in Arg
  BY <1>2 DEF Pending
<1>4. /\ executed' = IF cmds[1].id = 0 THEN executed ELSE Append(executed, cmds[1].id)
      /\ status' = IF MainAccepts(status, cmds[1].name, cmds[1].arg)
                   THEN MainApply(status, cmds[1].name, cmds[1].arg) ELSE status
  BY <1>2 DEF ServeServer
<1>5. executed' \in Seq(Nat)
  BY <1>0, <1>3, <1>4, AppendProperties DEF MainTypes
<1>6. status' \in Status
  BY <1>0, <1>3, <1>4, MainApplyType DEF ServerTypes
<1>7. QED
  BY <1>2, <1>4, <1>5, <1>6

LEMMA ServeTypes == TypeOK /\ ServeServer => TypeOK'
<1> SUFFICES ASSUME TypeOK, ServeServer PROVE TypeOK'
  OBVIOUS
<1>0. ServerTypes /\ LinkTypes /\ CmdTypes /\ MainTypes /\ FlagTypes
  BY TypeParts
<1>1. /\ UNCHANGED <<log, srv, session, license, evtid, first, batch, alone, refused, lag, url,
                     nlocal, behind>>
      /\ apc' = "send" /\ mpc' \in {"idle", "done"}
  BY DEF ServeServer, server, dropped
<1>2. ServerTypes'
  BY <1>0, <1>1, Served DEF ServerTypes
<1>3. LinkTypes'
  BY <1>0, <1>1 DEF LinkTypes, Place
<1>4. CmdTypes'
  BY <1>1, Served DEF CmdTypes
<1>5. MainTypes'
  BY <1>0, <1>1, Served DEF MainTypes
<1>6. FlagTypes'
  BY <1>0, <1>1, Zenon DEF FlagTypes
<1>7. QED
  BY <1>2, <1>3, <1>4, <1>5, <1>6, TypeNext, Zenon

LEMMA LocalTypes == TypeOK /\ (ServeLocal \/ Compose) => TypeOK'
<1> SUFFICES ASSUME TypeOK, ServeLocal \/ Compose PROVE TypeOK'
  OBVIOUS
<1>0. ServerTypes /\ LinkTypes /\ CmdTypes /\ MainTypes /\ FlagTypes
  BY TypeParts
<1>1. UNCHANGED <<log, srv, session, license, apc, evtid, batch, cmds, first, alone, refused, lag,
                  executed>>
  BY DEF ServeLocal, Compose, server, ajax, dropped
<1>2. LinkTypes' /\ CmdTypes'
  BY <1>0, <1>1 DEF LinkTypes, CmdTypes
<1>3. CASE ServeLocal
  <2>1. PICK c \in LocalCommands :
          /\ status' = MainApply(status, c.name, c.arg)
          /\ url' = [url EXCEPT !.type = IF c.name = "reset" THEN "crono_reset" ELSE "datos"]
    BY <1>3 DEF ServeLocal
  <2>2. c.arg \in Arg
    BY BridgeAssumption DEF Local
  <2>3. ServerTypes'
    BY <1>0, <1>1, <2>1, <2>2, MainApplyType DEF ServerTypes
  <2>4. url' \in Event
    <3>1. \A u \in Event : \A t \in EventType : [u EXCEPT !.type = t] \in Event
      BY DEF Event
    <3>2. (IF c.name = "reset" THEN "crono_reset" ELSE "datos") \in EventType
      BY DEF EventType
    <3>3. QED
      BY <1>0, <2>1, <3>1, <3>2, Zenon DEF MainTypes
  <2>5. MainTypes'
    BY <1>0, <1>1, <1>3, <2>4, BridgeAssumption DEF ServeLocal, MainTypes
  <2>6. FlagTypes'
    BY <1>0, <1>1, <1>3, Zenon DEF ServeLocal, FlagTypes
  <2>7. QED
    BY <1>2, <2>3, <2>5, <2>6, TypeNext, Zenon
<1>4. CASE Compose
  <2>1. ServerTypes'
    BY <1>0, <1>1, <1>4 DEF Compose, ServerTypes
  <2>2. url' \in Event
    <3>1. [flt |-> status.faults, toc |-> status.touchs,
           reh |-> status.refusals, eli |-> status.eliminated] \in Score
      BY <1>0 DEF ServerTypes, Status, Score
    <3>2. url.type \in EventType
      BY <1>0 DEF MainTypes, Event
    <3>3. TRUE \in BOOLEAN
      BY Zenon
    <3>4. QED
      BY <1>4, <3>1, <3>2, <3>3, Typed, Zenon DEF Compose
  <2>3. MainTypes'
    BY <1>0, <1>1, <1>4, <2>2 DEF Compose, MainTypes
  <2>4. FlagTypes'
    BY <1>0, <1>1, <1>4, Zenon DEF Compose, FlagTypes
  <2>5. QED
    BY <1>2, <2>1, <2>3, <2>4, TypeNext, Zenon
<1>5. QED
  BY <1>3, <1>4

(* An event that the log gets is an operator's or the one composed.        *)
LEMMA LogGrows ==
  ASSUME TypeOK, OperatorEvent \/ PutOk \/ PutFails
  PROVE  \/ UNCHANGED <<log, srv>>
         \/ \E e \in Event : /\ Record(e)
                             /\ \/ OperatorEvent /\ e \in OperatorEvents
                                \/ PutOk /\ session /\ e = url
<1>0. url \in Event
  BY TypeParts DEF MainTypes
<1>1. CASE OperatorEvent
  BY <1>1, BridgeAssumption DEF OperatorEvent
<1>2. CASE PutOk
  BY <1>0, <1>2 DEF PutOk, server
<1>3. CASE PutFails
  BY <1>3 DEF PutFails, server
<1>4. QED
  BY <1>1, <1>2, <1>3

LEMMA PutTypes == TypeOK /\ (OperatorEvent \/ PutOk \/ PutFails) => TypeOK'
<1> SUFFICES ASSUME TypeOK, OperatorEvent \/ PutOk \/ PutFails PROVE TypeOK'
  OBVIOUS
<1>0. ServerTypes /\ LinkTypes /\ CmdTypes /\ MainTypes /\ FlagTypes
  BY TypeParts
<1>1. UNCHANGED <<status, session, license, apc, evtid, batch, cmds, first, alone, refused, lag,
                  url, nlocal, executed>>
  BY DEF OperatorEvent, PutOk, PutFails, ajax, main, dropped
<1>2. CmdTypes'
  BY <1>0, <1>1 DEF CmdTypes
<1>3. MainTypes'
  BY <1>0, <1>1 DEF MainTypes, OperatorEvent, PutOk, PutFails, main
<1>4. FlagTypes'
  BY <1>0, <1>1, Zenon DEF FlagTypes, OperatorEvent, PutOk, PutFails, main
<1>5. ServerTypes' /\ LinkTypes'
  <2>1. CASE UNCHANGED <<log, srv>>
    BY <1>0, <1>1, <2>1 DEF ServerTypes, LinkTypes
  <2>2. ASSUME NEW e \in Event, Record(e) PROVE ServerTypes' /\ LinkTypes'
    BY <1>0, <1>1, <2>2, RecordTypes DEF ServerTypes, LinkTypes
  <2>3. QED
    BY <2>1, <2>2, LogGrows
<1>6. QED
  BY <1>2, <1>3, <1>4, <1>5, TypeNext, Zenon

LEMMA NextTypes == TypeOK /\ BatchInv /\ [Next]_vars => TypeOK'
<1> SUFFICES ASSUME TypeOK, BatchInv, [Next]_vars PROVE TypeOK'
  OBVIOUS
<1>1. CASE UNCHANGED vars
  BY <1>1, ZenonT(60) DEF vars, server, ajax, main, dropped, TypeOK
<1>2. CASE Next
  BY <1>2, SelectTypes, LinkStepTypes, RefuseTypes, ParseTypes, ServeTypes, LocalTypes, PutTypes
  DEF Next, ServerThread, MainThread
<1>3. QED
  BY <1>1, <1>2

-----------------------------------------------------------------------------
(* Every event once: the steps of the invariant.                           *)
LEMMA InitEvents == Init => EventInv
<1> SUFFICES ASSUME Init PROVE EventInv
  OBVIOUS
<1>1. /\ apc = "select" /\ evtid = 0 /\ first = 0 /\ batch = <<>> /\ cmds = <<>>
      /\ executed = <<>> /\ refused = {} /\ license = 0
  BY Zenon DEF Init
<1>2. QED
  BY <1>1 DEF EventInv, BatchInv, LicenseInv, OrderInv, DropInv, Unopened

(* Nothing of what the events have led to changes, and nothing of the log  *)
(* that was there.                                                         *)
LEMMA EventsKept ==
  ASSUME TypeOK, EventInv,
         UNCHANGED <<license, apc, evtid, batch, cmds, first, executed, refused>>,
         \A i \in 1..Len(log) : log'[i] = log[i]
  PROVE  EventInv'
<1>0. evtid \in Nat /\ first \in Nat /\ Len(batch) \in Nat /\ evtid + Len(batch) <= Len(log)
  BY TypeParts DEF LinkTypes, ServerTypes
<1>1. BatchInv /\ LicenseInv /\ OrderInv /\ DropInv
  BY DEF EventInv
<1>2. \A i \in 1..Len(batch) : evtid + i \in 1..Len(log)
  BY <1>0, TypeParts DEF ServerTypes
<1>3. BatchInv'
  BY <1>1, <1>2 DEF BatchInv, Unopened
<1>4. LicenseInv'
  BY <1>1 DEF LicenseInv
<1>5. \A k \in first + 1..evtid : log'[k] = log[k]
  BY <1>0, TypeParts DEF ServerTypes
<1>6. \A k \in first + 1..evtid : Asks(k)' <=> Asks(k)
  BY <1>5 DEF Asks
<1>7. OrderInv'
  BY <1>1, <1>6 DEF OrderInv
<1>8. DropInv'
  BY <1>1, <1>6 DEF DropInv
<1>9. QED
  BY <1>3, <1>4, <1>7, <1>8 DEF EventInv

LEMMA SelectEvents ==
  TypeOK /\ EventInv /\ (Select \/ AskPermissions \/ OpenSession) => EventInv'
<1> SUFFICES ASSUME TypeOK, EventInv, Select \/ AskPermissions \/ OpenSession PROVE EventInv'
  OBVIOUS
<1>0. BatchInv /\ Unopened /\ apc \in {"select", "perms", "connect"}
  BY DEF EventInv, Select, AskPermissions, OpenSession, Unopened
<1>1. batch = <<>> /\ cmds = <<>> /\ executed = <<>> /\ refused = {} /\ evtid = first
  BY <1>0 DEF BatchInv, Unopened
<1>2. batch' = <<>> /\ cmds' = <<>> /\ executed' = <<>> /\ refused' = {}
  BY <1>1 DEF Select, AskPermissions, OpenSession, main, dropped
<1>3. /\ evtid' = first' /\ first' \in Int
      /\ \/ apc' \in {"perms", "connect", "ended"} /\ evtid' = 0
         \/ apc' = "poll"
  <2>1. evtid = 0 /\ first = 0
    BY <1>0 DEF BatchInv
  <2>2. QED
    BY <2>1 DEF Select, AskPermissions, OpenSession
<1>4. BatchInv'
  BY <1>2, <1>3 DEF BatchInv, Unopened
<1>5. LicenseInv'
  BY <1>2, <1>3 DEF LicenseInv
<1>6. OrderInv'
  <2>0. \A x \in Int : x + 1..x = {}
    OBVIOUS
  <2>1. first' + 1..evtid' = {}
    BY <1>3, <2>0, Zenon
  <2>2. Len(cmds') = 0 /\ Len(executed') = 0
    BY <1>2
  <2>3. QED
    BY <2>1, <2>2 DEF OrderInv
<1>7. DropInv'
  BY <1>2 DEF DropInv
<1>8. QED
  BY <1>4, <1>5, <1>6, <1>7 DEF EventInv

LEMMA LinkStepEvents ==
  TypeOK /\ EventInv /\ (Refused \/ Fetch \/ SendNext) => EventInv'
<1> SUFFICES ASSUME TypeOK, EventInv, Refused \/ Fetch \/ SendNext PROVE EventInv'
  OBVIOUS
<1>0. /\ BatchInv /\ LicenseInv /\ OrderInv /\ DropInv
      /\ ServerTypes /\ LinkTypes /\ CmdTypes
  BY TypeParts DEF EventInv
<1>1. UNCHANGED <<log, evtid, first, executed, refused>>
  BY DEF Refused, Fetch, SendNext, server, main, dropped
<1>2. CASE Refused
  <2>1. /\ apc = "poll" /\ license < 0 /\ license' = -2 /\ apc' = "send" /\ batch' = batch
        /\ Len(cmds') = 1 /\ cmds'[1].id = 0 /\ cmds'[1].name \in {"msg", "exit"}
    BY <1>2 DEF Refused
  <2>2. batch = <<>>
    BY <1>0, <2>1 DEF BatchInv
  <2>3. BatchInv'
    BY <2>1, <2>2 DEF BatchInv, Unopened
  <2>4. LicenseInv'
    BY <1>0, <1>1, <2>1 DEF LicenseInv
  <2>5. OrderInv' /\ DropInv'
    BY <2>1 DEF OrderInv, DropInv
  <2>6. QED
    BY <2>3, <2>4, <2>5 DEF EventInv
<1>3. CASE Fetch
  <2>1. PICK n \in 1..MaxBatch : evtid + n <= Len(log) /\ batch' = SubSeq(log, evtid + 1, evtid + n)
    BY <1>3 DEF Fetch
  <2>2. n \in Nat /\ n > 0 /\ evtid \in Nat /\ Len(log) \in Nat
    BY <1>0, <2>1, BridgeAssumption DEF LinkTypes, ServerTypes
  <2>3. Len(batch') = n /\ \A i \in 1..n : batch'[i] = log[evtid + i]
    <3>1. /\ Len(SubSeq(log, evtid + 1, evtid + n)) = n
          /\ \A i \in 1..n : SubSeq(log, evtid + 1, evtid + n)[i] = log[evtid + 1 + i - 1]
      BY <1>0, <2>1, <2>2, SubSeqProperties DEF ServerTypes
    <3>2. \A i \in 1..n : evtid + 1 + i - 1 = evtid + i
      BY <2>2
    <3>3. QED
      BY <2>1, <3>1, <3>2
  <2>4. apc = "poll" /\ apc' = "parse" /\ license >= 0 /\ license' = license /\ cmds' = cmds
    BY <1>3 DEF Fetch
  <2>5. BatchInv'
    BY <1>1, <2>2, <2>3, <2>4 DEF BatchInv, Unopened
  <2>6. LicenseInv'
    BY <1>0, <2>4 DEF LicenseInv, LinkTypes
  <2>7. OrderInv' /\ DropInv'
    BY <1>0, <1>1, <2>4 DEF OrderInv, DropInv, Asks
  <2>8. QED
    BY <2>5, <2>6, <2>7 DEF EventInv
<1>4. CASE SendNext
  <2>1. /\ apc = "send" /\ apc' = IF cmds = <<>> THEN "poll" ELSE "wait"
        /\ UNCHANGED <<license, batch, cmds>>
    BY <1>4 DEF SendNext
  <2>2. BatchInv'
    BY <1>0, <1>1, <2>1 DEF BatchInv, Unopened
  <2>3. LicenseInv'
    BY <1>0, <1>1, <2>1 DEF LicenseInv
  <2>4. OrderInv' /\ DropInv'
    BY <1>0, <1>1, <2>1 DEF OrderInv, DropInv, Asks
  <2>5. QED
    BY <2>2, <2>3, <2>4 DEF EventInv
<1>5. QED
  BY <1>2, <1>3, <1>4

(* The command of the event that is parsed is the last one to be sent.     *)
LEMMA ParsedCommand ==
  ASSUME TypeOK, EventInv, ParseEvent
  PROVE  \/ cmds' = cmds /\ ~Asks(evtid + 1)
         \/ /\ Asks(evtid + 1)
            /\ \E c \in Pending :
                 /\ c = [name |-> EventCommand(status, log[evtid + 1]).name,
                         arg |-> EventCommand(status, log[evtid + 1]).arg, id |-> evtid + 1]
                 /\ cmds' = Append(cmds, c)
<1> DEFINE e == log[evtid + 1]
           c == EventCommand(status, e)
           p == [name |-> c.name, arg |-> c.arg, id |-> evtid + 1]
<1>0. ServerTypes /\ LinkTypes
  BY TypeParts
<1>1. e \in Event /\ Head(batch) = e /\ evtid + 1 \in Nat
  BY <1>0, Parsed DEF EventInv, LinkTypes
<1>2. evtid' = evtid + 1
  BY DEF ParseEvent
<1>3. IF e.own THEN cmds' = cmds
      ELSE cmds' = IF c = NoCommand THEN cmds ELSE Append(cmds, p)
  BY <1>1, <1>2, Zenon DEF ParseEvent
<1>4. /\ c.arg \in Arg
      /\ c = NoCommand <=> e.type \notin {"datos", "llamada", "start", "crono_reset"}
      /\ c # NoCommand => c.name \in CmdName
  BY <1>0, <1>1, EventTypes, Zenon DEF ServerTypes
<1>5. Asks(evtid + 1) <=> ~e.own /\ c # NoCommand
  BY <1>4, Zenon DEF Asks
<1>6. c # NoCommand => p \in Pending
  <2> HIDE DEF c
  <2>1. QED
    BY <1>1, <1>4, Zenon DEF Pending
<1> HIDE DEF c, e
<1>7. CASE Asks(evtid + 1)
  <2>1. cmds' = Append(cmds, p) /\ p \in Pending
    BY <1>3, <1>5, <1>6, <1>7
  <2>2. QED
    BY <1>7, <2>1, Zenon DEF c, e
<1>8. CASE ~Asks(evtid + 1)
  BY <1>3, <1>5, <1>8
<1>9. QED
  BY <1>7, <1>8

LEMMA ParseEvents == TypeOK /\ EventInv /\ ParseEvent => EventInv'
<1> SUFFICES ASSUME TypeOK, EventInv, ParseEvent PROVE EventInv'
  OBVIOUS
<1>0. /\ BatchInv /\ LicenseInv /\ OrderInv /\ DropInv
      /\ ServerTypes /\ LinkTypes /\ CmdTypes
  BY TypeParts DEF EventInv
<1> DEFINE m == Len(cmds)
           n == Len(executed)
<1>1. /\ apc = "parse" /\ evtid' = evtid + 1
      /\ apc' = IF batch' = <<>> THEN "send" ELSE "parse"
      /\ UNCHANGED <<log, license, first, executed, refused>>
  BY DEF ParseEvent, server, main
<1>2. /\ Len(batch) \in Nat /\ Len(batch) > 0 /\ batch' \in Seq(Event)
      /\ Len(batch') = Len(batch) - 1 /\ \A i \in 1..Len(batch') : batch'[i] = batch[i + 1]
  BY <1>0, Parsed
<1>3. evtid \in Nat /\ first \in Nat /\ first <= evtid /\ m \in Nat
  BY <1>0 DEF LinkTypes, ServerTypes, CmdTypes
<1>4. license >= 0 /\ license \in Int
  BY <1>0, <1>1 DEF LicenseInv, LinkTypes
<1>5. BatchInv'
  <2>1. \A i \in 1..Len(batch') : batch'[i] = log[evtid + 1 + i]
    <3> SUFFICES ASSUME NEW i \in 1..Len(batch') PROVE batch'[i] = log[evtid + 1 + i]
      OBVIOUS
    <3>0. Len(batch) \in Nat /\ i \in 1..Len(batch) - 1
      BY <1>2
    <3>1. i + 1 \in 1..Len(batch) /\ evtid + (i + 1) = evtid + 1 + i
      BY <1>3, <3>0
    <3>2. batch[i + 1] = log[evtid + (i + 1)]
      BY <1>0, <3>1 DEF BatchInv
    <3>3. QED
      BY <1>2, <3>1, <3>2
  <2>2. batch' # <<>> <=> apc' = "parse"
    BY <1>1
  <2>3. apc' \in {"send", "parse"}
    BY <1>1
  <2>4. QED
    BY <1>1, <2>1, <2>2, <2>3 DEF BatchInv, Unopened
<1>6. LicenseInv'
  BY <1>1, <1>4 DEF LicenseInv
<1>7. OrderInv'
  <2>1. /\ \A i \in 1..n : executed[i] \in first + 1..evtid /\ Asks(executed[i])
        /\ \A i \in 1..m : cmds[i].id \in first + 1..evtid /\ Asks(cmds[i].id)
        /\ \A i, j \in 1..n : i < j => executed[i] < executed[j]
        /\ \A i, j \in 1..m : i < j => cmds[i].id < cmds[j].id
        /\ \A i \in 1..n, j \in 1..m : executed[i] < cmds[j].id
        /\ \A k \in first + 1..evtid : Asks(k) =>
             \/ \E i \in 1..n : executed[i] = k
             \/ \E i \in 1..m : cmds[i].id = k
             \/ k \in refused
    BY <1>0, <1>4 DEF OrderInv
  <2>2. \A k : Asks(k)' <=> Asks(k)
    BY <1>1 DEF Asks
  <2>3. first + 1..evtid + 1 = (first + 1..evtid) \cup {evtid + 1}
    BY <1>3
  <2>4. CASE cmds' = cmds /\ ~Asks(evtid + 1)
    <3>1. \A k \in first + 1..evtid + 1 : Asks(k) =>
            \/ \E i \in 1..n : executed[i] = k
            \/ \E i \in 1..m : cmds[i].id = k
            \/ k \in refused
      BY <2>1, <2>3, <2>4
    <3> HIDE DEF m, n
    <3>2. QED
      BY <1>1, <2>1, <2>2, <2>3, <2>4, <3>1 DEF OrderInv, m, n
  <2>5. ASSUME NEW c \in Pending, c.id = evtid + 1, cmds' = Append(cmds, c), Asks(evtid + 1)
        PROVE  OrderInv'
    <3>1. /\ Len(cmds') = m + 1 /\ cmds'[m + 1] = c
          /\ \A i \in 1..m : cmds'[i] = cmds[i]
      BY <1>0, <2>5, AppendProperties DEF CmdTypes
    <3>2. \A i \in 1..m + 1 : i \in 1..m \/ i = m + 1
      BY <1>3
    <3> HIDE DEF m, n
    <3>3. \A i \in 1..n : executed[i] \in first + 1..evtid + 1 /\ executed[i] < evtid + 1
      BY <1>3, <2>1
    <3>4. \A i \in 1..m : cmds[i].id \in first + 1..evtid + 1 /\ cmds[i].id < evtid + 1
      BY <1>3, <2>1
    <3>5. evtid + 1 \in first + 1..evtid + 1
      BY <1>3
    <3>6. \A i \in 1..m + 1 : cmds'[i].id \in first + 1..evtid + 1 /\ Asks(cmds'[i].id)
      BY <2>1, <2>5, <3>1, <3>2, <3>4, <3>5
    <3>7. \A i, j \in 1..m + 1 : i < j => cmds'[i].id < cmds'[j].id
      <4> SUFFICES ASSUME NEW i \in 1..m + 1, NEW j \in 1..m + 1, i < j
                   PROVE  cmds'[i].id < cmds'[j].id
        OBVIOUS
      <4>1. i \in 1..m
        BY <1>3
      <4>2. CASE j \in 1..m
        BY <2>1, <3>1, <4>1, <4>2
      <4>3. CASE j = m + 1
        BY <2>5, <3>1, <3>4, <4>1, <4>3
      <4>4. QED
        BY <3>2, <4>2, <4>3
    <3>8. \A i \in 1..n, j \in 1..m + 1 : executed[i] < cmds'[j].id
      BY <2>1, <2>5, <3>1, <3>2, <3>3
    <3>9. \A k \in first + 1..evtid + 1 : Asks(k) =>
            \/ \E i \in 1..n : executed[i] = k
            \/ \E i \in 1..m + 1 : cmds'[i].id = k
            \/ k \in refused
      <4> SUFFICES ASSUME NEW k \in first + 1..evtid + 1, Asks(k)
                   PROVE  \/ \E i \in 1..n : executed[i] = k
                          \/ \E i \in 1..m + 1 : cmds'[i].id = k
                          \/ k \in refused
        OBVIOUS
      <4>1. CASE k = evtid + 1
        <5>1. m + 1 \in 1..m + 1
          BY <1>3
        <5>2. QED
          BY <2>5, <3>1, <4>1, <5>1
      <4>2. CASE k \in first + 1..evtid
        <5>1. \A i \in 1..m : i \in 1..m + 1
          BY <1>3
        <5>2. QED
          BY <2>1, <3>1, <4>2, <5>1
      <4>3. QED
        BY <2>3, <4>1, <4>2
    <3>10. QED
      BY <1>1, <2>1, <2>2, <3>1, <3>3, <3>6, <3>7, <3>8, <3>9 DEF OrderInv, n
  <2>6. QED
    <3>1. CASE cmds' = cmds /\ ~Asks(evtid + 1)
      BY <2>4, <3>1
    <3>2. CASE \E c \in Pending :
                 /\ c = [name |-> EventCommand(status, log[evtid + 1]).name,
                         arg |-> EventCommand(status, log[evtid + 1]).arg, id |-> evtid + 1]
                 /\ cmds' = Append(cmds, c) /\ Asks(evtid + 1)
      BY <2>5, <3>2
    <3>3. QED
      BY <3>1, <3>2, ParsedCommand, Zenon
<1>8. DropInv'
  <2>1. /\ \A k \in refused : k \in first + 1..evtid /\ Asks(k)
        /\ \A k \in refused, i \in 1..n : executed[i] # k
        /\ \A k \in refused, j \in 1..m : k < cmds[j].id
    BY <1>0, <1>4 DEF DropInv
  <2>2. \A k : Asks(k)' <=> Asks(k)
    BY <1>1 DEF Asks
  <2>3. \A k \in refused : k \in first + 1..evtid + 1 /\ k < evtid + 1
    BY <1>3, <2>1
  <2>4. \A k \in refused, j \in 1..Len(cmds') : k < cmds'[j].id
    <3>1. CASE cmds' = cmds
      BY <2>1, <3>1
    <3>2. ASSUME NEW c \in Pending, c.id = evtid + 1, cmds' = Append(cmds, c)
          PROVE  \A k \in refused, j \in 1..Len(cmds') : k < cmds'[j].id
      <4>1. /\ Len(cmds') = m + 1 /\ cmds'[m + 1] = c
            /\ \A i \in 1..m : cmds'[i] = cmds[i]
        BY <1>0, <3>2, AppendProperties DEF CmdTypes
      <4>2. \A j \in 1..m + 1 : j \in 1..m \/ j = m + 1
        BY <1>3
      <4> HIDE DEF m, n
      <4>3. QED
        BY <2>1, <2>3, <3>2, <4>1, <4>2
    <3>3. CASE \E c \in Pending :
                 /\ c = [name |-> EventCommand(status, log[evtid + 1]).name,
                         arg |-> EventCommand(status, log[evtid + 1]).arg, id |-> evtid + 1]
                 /\ cmds' = Append(cmds, c)
      BY <3>2, <3>3
    <3>4. QED
      BY <3>1, <3>3, ParsedCommand, Zenon
  <2>5. QED
    BY <1>1, <2>1, <2>2, <2>3, <2>4 DEF DropInv, n
<1>9. QED
  BY <1>5, <1>6, <1>7, <1>8 DEF EventInv

(* The first command to be sent, and the ones that follow it.              *)
LEMMA RestOrdered ==
  ASSUME TypeOK, OrderInv, DropInv, license >= 0, cmds # <<>>, cmds' = Tail(cmds)
  PROVE  /\ cmds[1].id \in first + 1..evtid /\ Asks(cmds[1].id) /\ cmds[1].id # 0
         /\ \A i \in 1..Len(executed) : executed[i] < cmds[1].id
         /\ \A k \in refused : k < cmds[1].id
         /\ \A j \in 1..Len(cmds') :
              /\ cmds[1].id < cmds'[j].id
              /\ cmds'[j].id \in first + 1..evtid /\ Asks(cmds'[j].id)
         /\ \A i, j \in 1..Len(cmds') : i < j => cmds'[i].id < cmds'[j].id
         /\ \A i \in 1..Len(executed), j \in 1..Len(cmds') : executed[i] < cmds'[j].id
         /\ \A k \in refused, j \in 1..Len(cmds') : k < cmds'[j].id
         /\ \A k \in first + 1..evtid : Asks(k) =>
              \/ \E i \in 1..Len(executed) : executed[i] = k
              \/ k = cmds[1].id
              \/ \E j \in 1..Len(cmds') : cmds'[j].id = k
              \/ k \in refused
<1> DEFINE m == Len(cmds)
           n == Len(executed)
           c == cmds[1].id
<1>1. /\ m \in Nat /\ m > 0 /\ Len(cmds') = m - 1 /\ \A i \in 1..m - 1 : cmds'[i] = cmds[i + 1]
  BY Rest
<1>2. /\ \A i \in 1..m : cmds[i].id \in first + 1..evtid /\ Asks(cmds[i].id)
      /\ \A i, j \in 1..m : i < j => cmds[i].id < cmds[j].id
      /\ \A i \in 1..n, j \in 1..m : executed[i] < cmds[j].id
      /\ \A k \in first + 1..evtid : Asks(k) =>
           \/ \E i \in 1..n : executed[i] = k
           \/ \E i \in 1..m : cmds[i].id = k
           \/ k \in refused
      /\ \A k \in refused, j \in 1..m : k < cmds[j].id
  BY DEF OrderInv, DropInv
<1>3. first \in Nat /\ evtid \in Nat
  BY TypeParts DEF LinkTypes, ServerTypes
<1> HIDE DEF m, n
<1>4. 1 \in 1..m
  BY <1>1
<1>5. c \in first + 1..evtid /\ Asks(c) /\ c # 0
  BY <1>2, <1>3, <1>4
<1>6. \A j \in 1..m - 1 : j + 1 \in 1..m /\ 1 < j + 1 /\ cmds'[j] = cmds[j + 1]
  BY <1>1
<1>7. \A j \in 1..m - 1 : /\ c < cmds'[j].id
                          /\ cmds'[j].id \in first + 1..evtid /\ Asks(cmds'[j].id)
  <2> SUFFICES ASSUME NEW j \in 1..m - 1
               PROVE  /\ c < cmds'[j].id
                      /\ cmds'[j].id \in first + 1..evtid /\ Asks(cmds'[j].id)
    OBVIOUS
  <2>1. j + 1 \in 1..m /\ 1 < j + 1 /\ cmds'[j] = cmds[j + 1]
    BY <1>6
  <2>2. QED
    BY <1>2, <1>4, <2>1
<1>8. \A i, j \in 1..m - 1 : i < j => cmds'[i].id < cmds'[j].id
  <2> SUFFICES ASSUME NEW i \in 1..m - 1, NEW j \in 1..m - 1, i < j
               PROVE  cmds'[i].id < cmds'[j].id
    OBVIOUS
  <2>1. i + 1 < j + 1
    BY <1>1
  <2>2. cmds[i + 1].id < cmds[j + 1].id
    BY <1>2, <1>6, <2>1
  <2>3. QED
    BY <1>6, <2>2
<1>9. \A i \in 1..n, j \in 1..m - 1 : executed[i] < cmds'[j].id
  BY <1>2, <1>6
<1>10. \A k \in refused, j \in 1..m - 1 : k < cmds'[j].id
  BY <1>2, <1>6
<1>11. \A k \in first + 1..evtid : Asks(k) =>
         \/ \E i \in 1..n : executed[i] = k
         \/ k = c
         \/ \E j \in 1..m - 1 : cmds'[j].id = k
         \/ k \in refused
  <2> SUFFICES ASSUME NEW i \in 1..m, i # 1 PROVE \E j \in 1..m - 1 : cmds'[j].id = cmds[i].id
    BY <1>2
  <2>1. i - 1 \in 1..m - 1 /\ (i - 1) + 1 = i
    BY <1>1
  <2>2. cmds'[i - 1] = cmds[i]
    BY <1>6, <2>1
  <2>3. QED
    BY <2>1, <2>2
<1>12. QED
  BY <1>1, <1>2, <1>4, <1>5, <1>7, <1>8, <1>9, <1>10, <1>11 DEF m, n

LEMMA ServeEvents == TypeOK /\ EventInv /\ ServeServer => EventInv'
<1> SUFFICES ASSUME TypeOK, EventInv, ServeServer PROVE EventInv'
  OBVIOUS
<1>0. /\ BatchInv /\ LicenseInv /\ OrderInv /\ DropInv
      /\ ServerTypes /\ LinkTypes /\ CmdTypes /\ MainTypes
  BY TypeParts DEF EventInv
<1> DEFINE m == Len(cmds)
           n == Len(executed)
           c == cmds[1].id
<1>1. /\ apc = "wait" /\ apc' = "send" /\ cmds # <<>> /\ cmds' = Tail(cmds)
      /\ UNCHANGED <<log, license, evtid, batch, first, refused>>
  BY <1>0 DEF ServeServer, server, dropped, CmdTypes
<1>2. /\ m \in Nat /\ m > 0 /\ Len(cmds') = m - 1 /\ \A i \in 1..m - 1 : cmds'[i] = cmds[i + 1]
      /\ c = 0 => executed' = executed
      /\ c # 0 => executed' = Append(executed, c)
  BY Served
<1>3. evtid \in Nat /\ first \in Nat /\ n \in Nat /\ c \in Nat /\ license \in Int
  <2>1. c \in Nat
    BY Served DEF Pending
  <2>2. QED
    BY <1>0, <2>1 DEF LinkTypes, MainTypes
<1>4. BatchInv'
  BY <1>0, <1>1 DEF BatchInv, Unopened
<1>5. \A i \in 1..m - 1 : i + 1 \in 1..m
  BY <1>2
<1>6. LicenseInv'
  <2> SUFFICES ASSUME license < 0 PROVE LicenseInv'
    BY <1>1 DEF LicenseInv
  <2>1. /\ evtid = first /\ executed = <<>> /\ refused = {} /\ apc # "parse"
        /\ \A i \in 1..m : cmds[i].id = 0 /\ cmds[i].name \in {"msg", "exit"}
    BY <1>0 DEF LicenseInv
  <2>2. c = 0
    BY <1>2, <2>1
  <2> HIDE DEF m
  <2>3. \A i \in 1..m - 1 : cmds'[i].id = 0 /\ cmds'[i].name \in {"msg", "exit"}
    BY <1>2, <1>5, <2>1
  <2>4. executed' = <<>> /\ apc' # "parse"
    BY <1>1, <1>2, <2>1, <2>2
  <2>5. QED
    BY <1>1, <1>2, <2>1, <2>3, <2>4 DEF LicenseInv
<1>7. OrderInv' /\ DropInv'
  <2> SUFFICES ASSUME license >= 0 PROVE OrderInv' /\ DropInv'
    BY <1>1 DEF OrderInv, DropInv
  <2>1. /\ \A i \in 1..n : executed[i] \in first + 1..evtid /\ Asks(executed[i])
        /\ \A i, j \in 1..n : i < j => executed[i] < executed[j]
    BY <1>0 DEF OrderInv
  <2>2. \A k : Asks(k)' <=> Asks(k)
    BY <1>1 DEF Asks
  <2>3. /\ c \in first + 1..evtid /\ Asks(c) /\ c # 0
        /\ \A i \in 1..n : executed[i] < c
        /\ \A k \in refused : k < c
        /\ \A j \in 1..m - 1 : /\ c < cmds'[j].id
                               /\ cmds'[j].id \in first + 1..evtid /\ Asks(cmds'[j].id)
        /\ \A i, j \in 1..m - 1 : i < j => cmds'[i].id < cmds'[j].id
        /\ \A i \in 1..n, j \in 1..m - 1 : executed[i] < cmds'[j].id
        /\ \A k \in refused, j \in 1..m - 1 : k < cmds'[j].id
        /\ \A k \in first + 1..evtid : Asks(k) =>
             \/ \E i \in 1..n : executed[i] = k
             \/ k = c
             \/ \E j \in 1..m - 1 : cmds'[j].id = k
             \/ k \in refused
    BY <1>0, <1>1, <1>2, RestOrdered
  <2>4. /\ Len(executed') = n + 1 /\ executed'[n + 1] = c
        /\ \A i \in 1..n : executed'[i] = executed[i]
    BY <1>0, <1>2, <1>3, <2>3, AppendProperties DEF MainTypes
  <2>5. \A i \in 1..n + 1 : i \in 1..n \/ i = n + 1
    BY <1>3
  <2> HIDE DEF m, n, c
  <2>6. \A i \in 1..n + 1 : executed'[i] \in first + 1..evtid /\ Asks(executed'[i])
    BY <2>1, <2>3, <2>4, <2>5
  <2>7. \A i, j \in 1..n + 1 : i < j => executed'[i] < executed'[j]
    <3> SUFFICES ASSUME NEW i \in 1..n + 1, NEW j \in 1..n + 1, i < j
                 PROVE  executed'[i] < executed'[j]
      OBVIOUS
    <3>1. i \in 1..n
      BY <1>3
    <3>2. CASE j \in 1..n
      BY <2>1, <2>4, <3>1, <3>2
    <3>3. CASE j = n + 1
      BY <2>3, <2>4, <3>1, <3>3
    <3>4. QED
      BY <2>5, <3>2, <3>3
  <2>8. \A i \in 1..n + 1, j \in 1..m - 1 : executed'[i] < cmds'[j].id
    <3> SUFFICES ASSUME NEW i \in 1..n + 1, NEW j \in 1..m - 1
                 PROVE  executed'[i] < cmds'[j].id
      OBVIOUS
    <3>1. CASE i \in 1..n
      BY <2>3, <2>4, <3>1
    <3>2. CASE i = n + 1
      BY <2>3, <2>4, <3>2
    <3>3. QED
      BY <2>5, <3>1, <3>2
  <2>9. \A k \in first + 1..evtid : Asks(k) =>
          \/ \E i \in 1..n + 1 : executed'[i] = k
          \/ \E j \in 1..m - 1 : cmds'[j].id = k
          \/ k \in refused
    <3>1. n + 1 \in 1..n + 1 /\ \A i \in 1..n : i \in 1..n + 1
      BY <1>3
    <3>2. QED
      BY <2>3, <2>4, <3>1
  <2>10. OrderInv'
    BY <1>1, <1>2, <2>2, <2>3, <2>4, <2>6, <2>7, <2>8, <2>9 DEF OrderInv
  <2>11. DropInv'
    <3>1. /\ \A k \in refused : k \in first + 1..evtid /\ Asks(k)
          /\ \A k \in refused, i \in 1..n : executed[i] # k
      BY <1>0 DEF DropInv, n
    <3>2. \A k \in refused : k # c
      BY <1>3, <2>3, <3>1
    <3>3. \A k \in refused, i \in 1..n + 1 : executed'[i] # k
      BY <2>4, <2>5, <3>1, <3>2
    <3>4. QED
      BY <1>1, <1>2, <2>2, <2>3, <2>4, <3>1, <3>3 DEF DropInv
  <2>12. QED
    BY <2>10, <2>11
<1>8. QED
  BY <1>4, <1>6, <1>7 DEF EventInv

(* A refused command is out of the list, and nothing was executed.         *)
LEMMA RefuseEvents == TypeOK /\ EventInv /\ SendRefused => EventInv'
<1> SUFFICES ASSUME TypeOK, EventInv, SendRefused PROVE EventInv'
  OBVIOUS
<1>0. BatchInv /\ LicenseInv /\ OrderInv /\ DropInv /\ LinkTypes /\ FlagTypes
  BY TypeParts DEF EventInv
<1> DEFINE c == cmds[1].id
<1>1. /\ apc = "send" /\ cmds # <<>> /\ cmds' = Tail(cmds)
      /\ UNCHANGED <<log, license, apc, evtid, batch, first, executed>>
  BY DEF SendRefused, server, main
<1>2. /\ refused' = refused \cup ({c} \ {0}) /\ c \in Nat
      /\ Len(cmds) \in Nat /\ Len(cmds) > 0 /\ Len(cmds') = Len(cmds) - 1
      /\ \A i \in 1..Len(cmds') : cmds'[i] = cmds[i + 1]
  BY <1>1, Rest DEF SendRefused, Pending
<1>3. BatchInv'
  BY <1>0, <1>1 DEF BatchInv, Unopened
<1>4. LicenseInv'
  <2> SUFFICES ASSUME license < 0 PROVE LicenseInv'
    BY <1>1 DEF LicenseInv
  <2>1. 1 \in 1..Len(cmds) /\ \A i \in 1..Len(cmds') : i + 1 \in 1..Len(cmds)
    BY <1>2
  <2>2. /\ evtid = first /\ executed = <<>> /\ refused = {} /\ apc # "parse"
        /\ \A i \in 1..Len(cmds) : cmds[i].id = 0 /\ cmds[i].name \in {"msg", "exit"}
    BY <1>0 DEF LicenseInv
  <2>3. refused' = {}
    BY <1>2, <2>1, <2>2
  <2>4. \A i \in 1..Len(cmds') : cmds'[i].id = 0 /\ cmds'[i].name \in {"msg", "exit"}
    BY <1>2, <2>1, <2>2
  <2>5. QED
    BY <1>1, <2>2, <2>3, <2>4 DEF LicenseInv
<1>5. OrderInv' /\ DropInv'
  <2> SUFFICES ASSUME license >= 0 PROVE OrderInv' /\ DropInv'
    BY <1>1 DEF OrderInv, DropInv
  <2>1. /\ c \in first + 1..evtid /\ Asks(c) /\ c # 0
        /\ \A i \in 1..Len(executed) : executed[i] < c
        /\ \A k \in refused : k < c
        /\ \A j \in 1..Len(cmds') :
             /\ c < cmds'[j].id
             /\ cmds'[j].id \in first + 1..evtid /\ Asks(cmds'[j].id)
        /\ \A i, j \in 1..Len(cmds') : i < j => cmds'[i].id < cmds'[j].id
        /\ \A i \in 1..Len(executed), j \in 1..Len(cmds') : executed[i] < cmds'[j].id
        /\ \A k \in refused, j \in 1..Len(cmds') : k < cmds'[j].id
        /\ \A k \in first + 1..evtid : Asks(k) =>
             \/ \E i \in 1..Len(executed) : executed[i] = k
             \/ k = c
             \/ \E j \in 1..Len(cmds') : cmds'[j].id = k
             \/ k \in refused
    BY <1>0, <1>1, RestOrdered
  <2>2. /\ \A i \in 1..Len(executed) : executed[i] \in first + 1..evtid /\ Asks(executed[i])
        /\ \A i, j \in 1..Len(executed) : i < j => executed[i] < executed[j]
        /\ \A k \in refused : k \in first + 1..evtid /\ Asks(k)
        /\ \A k \in refused, i \in 1..Len(executed) : executed[i] # k
    BY <1>0 DEF OrderInv, DropInv
  <2>3. \A k : Asks(k)' <=> Asks(k)
    BY <1>1 DEF Asks
  <2>4. refused' = refused \cup {c}
    BY <1>2, <2>1
  <2>5. \A i \in 1..Len(executed) : executed[i] # c
    BY <2>1, <2>2
  <2> HIDE DEF c
  <2>6. OrderInv'
    BY <1>1, <2>1, <2>2, <2>3, <2>4 DEF OrderInv
  <2>7. DropInv'
    BY <1>1, <2>1, <2>2, <2>3, <2>4, <2>5 DEF DropInv
  <2>8. QED
    BY <2>6, <2>7
<1>6. QED
  BY <1>3, <1>4, <1>5 DEF EventInv

LEMMA NextEvents == TypeOK /\ EventInv /\ [Next]_vars => EventInv'
<1> SUFFICES ASSUME TypeOK, EventInv, [Next]_vars PROVE EventInv'
  OBVIOUS
<1>1. CASE UNCHANGED vars \/ ServeLocal \/ Compose
  BY <1>1, EventsKept DEF vars, server, ajax, main, dropped, ServeLocal, Compose
<1>2. CASE OperatorEvent \/ PutOk \/ PutFails
  <2>1. UNCHANGED <<license, apc, evtid, batch, cmds, first, executed, refused>>
    BY <1>2 DEF OperatorEvent, PutOk, PutFails, ajax, main, dropped
  <2>2. \A i \in 1..Len(log) : log'[i] = log[i]
    BY <1>2, LogGrows, RecordTypes, TypeParts
  <2>3. QED
    BY <2>1, <2>2, EventsKept
<1>3. CASE ServerThread \/ ServeServer
  BY <1>3, SelectEvents, LinkStepEvents, RefuseEvents, ParseEvents, ServeEvents DEF ServerThread
<1>4. QED
  BY <1>1, <1>2, <1>3 DEF Next, MainThread

LEMMA EventsAlways == Spec => [](TypeOK /\ EventInv)
<1>1. EventInv => BatchInv
  BY DEF EventInv
<1>2. QED
  BY <1>1, InitTypes, NextTypes, InitEvents, NextEvents, PTL DEF Spec

(* Type correctness: the link's places, ids and commands stay in their     *)
(* sets, in particular evtid and the batch never pass the end of the log   *)
(* and the thread never waits for a command that it has not got.           *)
THEOREM TypeCorrect == Spec => []TypeOK
BY EventsAlways, PTL

(* The commands of the server's events are executed in the order of the log*)
(* and none twice; each event that asks for one has it executed, or refused*)
(* by the local socket and then never executed, and the program's own      *)
(* events have neither (parse_events(), ajax_json.c; the server thread's   *)
(* loop with its two ways to drop a command, ajax_mgr.c).                  *)
THEOREM EachEventOnce == Spec => []EventsOnce
<1>1. TypeOK /\ EventInv => EventsOnce
  <2> SUFFICES ASSUME TypeOK, EventInv PROVE EventsOnce
    OBVIOUS
  <2>0. BatchInv /\ LicenseInv /\ OrderInv /\ DropInv /\ LinkTypes /\ ServerTypes /\ MainTypes
    BY TypeParts DEF EventInv
  <2> DEFINE done == {executed[i] : i \in 1..Len(executed)}
  <2>1. CASE license < 0
    <3>1. executed = <<>> /\ refused = {} /\ evtid = first /\ first \in Nat
      BY <2>0, <2>1 DEF LicenseInv, LinkTypes
    <3>2. \A x \in Int : x + 1..x = {}
      OBVIOUS
    <3>3. first + 1..evtid = {}
      BY <3>1, <3>2
    <3>4. QED
      BY <3>1, <3>3 DEF EventsOnce
  <2>2. CASE license >= 0
    <3>1. \A i, j \in 1..Len(executed) : i < j => executed[i] < executed[j]
      BY <2>0, <2>2 DEF OrderInv
    <3>2. done \cap refused = {}
      BY <2>0, <2>2 DEF DropInv
    <3>3. ASSUME Quiet
          PROVE  done \cup refused =
                   {k \in first + 1..evtid : ~log[k].own /\ EventCommand(status, log[k]) # NoCommand}
      <4>1. Len(cmds) = 0
        BY <2>0, <3>3 DEF Quiet, BatchInv
      <4>2. /\ \A i \in 1..Len(executed) : executed[i] \in first + 1..evtid /\ Asks(executed[i])
            /\ \A k \in first + 1..evtid : Asks(k) =>
                 k \in refused \/ \E i \in 1..Len(executed) : executed[i] = k
            /\ \A k \in refused : k \in first + 1..evtid /\ Asks(k)
        BY <2>0, <2>2, <4>1 DEF OrderInv, DropInv
      <4>3. \A k \in first + 1..evtid :
              Asks(k) <=> ~log[k].own /\ EventCommand(status, log[k]) # NoCommand
        <5> SUFFICES ASSUME NEW k \in first + 1..evtid
                     PROVE  Asks(k) <=> ~log[k].own /\ EventCommand(status, log[k]) # NoCommand
          OBVIOUS
        <5>1. k \in 1..Len(log)
          BY <2>0 DEF LinkTypes, ServerTypes
        <5>2. log[k] \in Event
          BY <2>0, <5>1, ElementOfSeq DEF ServerTypes
        <5>3. EventCommand(status, log[k]) = NoCommand
                <=> log[k].type \notin {"datos", "llamada", "start", "crono_reset"}
          BY <2>0, <5>2, EventTypes, Zenon DEF ServerTypes
        <5>4. QED
          BY <5>3, Zenon DEF Asks
      <4>4. done \cup refused = {k \in first + 1..evtid : Asks(k)}
        BY <4>2
      <4>5. {k \in first + 1..evtid : Asks(k)} =
              {k \in first + 1..evtid : ~log[k].own /\ EventCommand(status, log[k]) # NoCommand}
        BY <4>3
      <4>6. QED
        BY <4>4, <4>5, Zenon
    <3>4. QED
      BY <3>1, <3>2, <3>3, Zenon DEF EventsOnce
  <2>3. QED
    BY <2>0, <2>1, <2>2 DEF LinkTypes
<1>2. QED
  BY <1>1, EventsAlways, PTL

-----------------------------------------------------------------------------
(* The scores: what one command or event does to the marks.                *)
LEMMA AppliedMarks ==
  ASSUME NEW s \in Status, NEW a \in Arg
  PROVE  /\ \A name \in {"none", "msg", "exit"} : MainApply(s, name, a) = s
         /\ \A name \in {"start", "turn"} : Marks(MainApply(s, name, a)) = Marks(s)
         /\ Marks(MainApply(s, "reset", a)) = Zero
         /\ Marks(MainApply(s, "data", a)) =
              [flt |-> a.n - s.touchs, toc |-> s.touchs, reh |-> a.r, eli |-> Flag(a.e)]
<1>1. \A name \in {"none", "msg", "exit"} : MainApply(s, name, a) = s
  BY DEF MainApply
<1>2. Marks(main_mgr_start(s, a)) = Marks(s) /\ Marks(main_mgr_numero(s, a)) = Marks(s)
  BY DEF Marks, main_mgr_start, main_mgr_numero, Status
<1>3. Marks(main_mgr_reset(s)) = Zero
  BY DEF Marks, main_mgr_reset, NoMarks, NoTimes, Zero, Status
<1>4. Marks(main_mgr_data(s, a)) =
        [flt |-> a.n - s.touchs, toc |-> s.touchs, reh |-> a.r, eli |-> Flag(a.e)]
  BY DEF Marks, main_mgr_data, Status
<1>5. /\ MainApply(s, "start", a) = main_mgr_start(s, a)
      /\ MainApply(s, "turn", a) = main_mgr_numero(s, a)
      /\ MainApply(s, "reset", a) = main_mgr_reset(s)
      /\ MainApply(s, "data", a) = main_mgr_data(s, a)
  BY DEF MainApply
<1>6. QED
  BY <1>1, <1>2, <1>3, <1>4, <1>5

(* Agreement depends on the marks alone.                                   *)
LEMMA AgreeByMarks ==
  ASSUME NEW s, NEW t, NEW sc, Marks(t) = Marks(s), Agree(s, sc)
  PROVE  Agree(t, sc)
<1>1. /\ t.faults = s.faults /\ t.touchs = s.touchs
      /\ t.refusals = s.refusals /\ t.eliminated = s.eliminated
  BY DEF Marks
<1>2. QED
  BY <1>1, Zenon DEF Agree, ShownFaults

(* What an event makes of the status, command included, is what it makes of*)
(* the score.                                                              *)
LEMMA EventAgrees ==
  ASSUME MarksSent, NEW e \in OperatorEvents, NEW s \in Status, NEW sc \in Score, Agree(s, sc)
  PROVE  LET t == EventWrites(s, e)
             c == EventCommand(s, e)
         IN  /\ MainAccepts(t, c.name, c.arg)
             /\ Agree(MainApply(t, c.name, c.arg), ServerScore(sc, e))
<1> DEFINE t == EventWrites(s, e)
           c == EventCommand(s, e)
           d == ServerScore(sc, e)
           Quietly == \A x \in OperatorEvents : x.type = "datos" => x.toc = Keep
<1>0. e \in Event /\ ~e.own /\ e.eli \in {Keep, 0, 1}
  BY BridgeAssumption DEF MarksSent
<1>1. /\ e.flt \in Int /\ e.toc \in Int /\ e.reh \in Int /\ e.type \in EventType
      /\ s.faults \in Int /\ s.touchs \in Int /\ s.refusals \in Int
      /\ sc.flt \in Int /\ sc.toc \in Int /\ sc.reh \in Int
  BY <1>0 DEF Event, Status, Score
<1>2. t \in Status /\ c.arg \in Arg
  BY <1>0, EventTypes, Zenon
<1>3. /\ s.faults + s.touchs = sc.flt + sc.toc /\ s.refusals = sc.reh
      /\ s.eliminated = sc.eli /\ s.eliminated \in {0, 1}
      /\ Quietly => s.touchs = sc.toc
  BY DEF Agree, ShownFaults
<1>4. SUFFICES MainAccepts(t, c.name, c.arg) /\ Agree(MainApply(t, c.name, c.arg), d)
  OBVIOUS
<1>5. CASE e.type \in {"init", "open"}
  <2>1. c = NoCommand /\ d = Zero
    BY <1>5 DEF EventCommand, ServerScore
  <2>2. Marks(t) = Zero
    <3>1. t = [NoMarks(s) EXCEPT !.numero = 0, !.dorsal = 0]
      BY <1>5 DEF EventWrites
    <3>2. \A u \in Status : /\ u.faults = 0 /\ u.touchs = 0 /\ u.refusals = 0 /\ u.eliminated = 0
                            => Marks([u EXCEPT !.numero = 0, !.dorsal = 0]) = Zero
      BY DEF Status, Marks, Zero
    <3>3. /\ NoMarks(s) \in Status /\ NoMarks(s).faults = 0 /\ NoMarks(s).touchs = 0
          /\ NoMarks(s).refusals = 0 /\ NoMarks(s).eliminated = 0
      <4>1. \A u \in Status : \A x \in Int :
              LET v == [u EXCEPT !.faults = x, !.touchs = x, !.refusals = x,
                                 !.eliminated = x, !.notpresent = x]
              IN  /\ v \in Status /\ v.faults = x /\ v.touchs = x
                  /\ v.refusals = x /\ v.eliminated = x
        BY ZenonT(60) DEF Status
      <4>2. 0 \in Int
        OBVIOUS
      <4>3. QED
        BY <4>1, <4>2, Zenon DEF NoMarks
    <3>4. QED
      BY <3>1, <3>2, <3>3
  <2>3. MainApply(t, c.name, c.arg) = t /\ MainAccepts(t, c.name, c.arg)
    BY <1>2, <2>1, AppliedMarks DEF NoCommand, CmdOf, MainAccepts
  <2>4. Agree(t, Zero)
    BY <2>2 DEF Marks, Agree, Zero, ShownFaults
  <2>5. QED
    BY <2>1, <2>3, <2>4
<1>6. CASE e.type = "llamada"
  <2>1. c = CmdOf("turn", Num(1))
    BY <1>6 DEF EventCommand
  <2>2. Marks(t) = [flt |-> Or(e.flt, s.faults), toc |-> Or(e.toc, s.touchs),
                    reh |-> Or(e.reh, s.refusals), eli |-> Or(e.eli, s.eliminated)]
    <3>1. t = [s EXCEPT !.dorsal = 1,
                        !.faults = Or(e.flt, @), !.touchs = Or(e.toc, @),
                        !.refusals = Or(e.reh, @), !.eliminated = Or(e.eli, @),
                        !.notpresent = IF e.flt = Keep THEN @ ELSE 0]
      BY <1>6 DEF EventWrites
    <3>2. QED
      BY <3>1 DEF Marks, Status
  <2>3. d = [flt |-> Or(e.flt, sc.flt), toc |-> Or(e.toc, sc.toc),
             reh |-> Or(e.reh, sc.reh), eli |-> Or(e.eli, sc.eli)]
    BY <1>6 DEF ServerScore
  <2>4. Agree(t, d)
    <3>1. /\ t.faults = Or(e.flt, s.faults) /\ t.touchs = Or(e.toc, s.touchs)
          /\ t.refusals = Or(e.reh, s.refusals) /\ t.eliminated = Or(e.eli, s.eliminated)
      BY <2>2 DEF Marks
    <3>2. t.refusals = d.reh /\ t.eliminated = d.eli /\ t.eliminated \in {0, 1}
      BY <1>0, <1>3, <2>3, <3>1 DEF Or, Keep
    <3>3. Quietly => t.touchs = d.toc
      BY <1>3, <2>3, <3>1 DEF Or
    <3>4. t.faults + t.touchs = d.flt + d.toc
      <4>1. CASE Quietly
        <5>1. s.touchs = sc.toc /\ s.faults = sc.flt
          BY <1>1, <1>3, <4>1
        <5>2. QED
          BY <2>3, <3>1, <5>1
      <4>2. CASE ~Quietly
        <5>1. e.flt # Keep /\ e.toc # Keep
          BY <1>6, <4>2 DEF MarksSent
        <5>2. QED
          BY <2>3, <3>1, <5>1 DEF Or
      <4>3. QED
        BY <4>1, <4>2
    <3>5. QED
      BY <3>2, <3>3, <3>4 DEF Agree, ShownFaults
  <2>5. c.name = "turn" /\ MainAccepts(t, c.name, c.arg)
    BY <2>1 DEF CmdOf, MainAccepts
  <2>6. Marks(MainApply(t, c.name, c.arg)) = Marks(t)
    BY <1>2, <2>5, AppliedMarks
  <2>7. QED
    BY <2>4, <2>5, <2>6, AgreeByMarks
<1>7. CASE e.type = "datos"
  <2>1. t = s /\ c = CmdOf("data", FRE(Or(e.flt, s.faults) + Or(e.toc, s.touchs),
                                       Or(e.reh, s.refusals), Or(e.eli, s.eliminated)))
    BY <1>7 DEF EventWrites, EventCommand
  <2>2. d = [flt |-> Or(e.flt, sc.flt), toc |-> Or(e.toc, sc.toc),
             reh |-> Or(e.reh, sc.reh), eli |-> Or(e.eli, sc.eli)]
    BY <1>7 DEF ServerScore
  <2>3. /\ c.name = "data" /\ c.arg.kind = "fre" /\ c.arg.r = Or(e.reh, s.refusals)
        /\ c.arg.n = Or(e.flt, s.faults) + Or(e.toc, s.touchs)
        /\ c.arg.e = Or(e.eli, s.eliminated)
    BY <2>1 DEF CmdOf, FRE
  <2>4. MainAccepts(t, c.name, c.arg)
    BY <2>3 DEF MainAccepts
  <2> DEFINE u == MainApply(t, c.name, c.arg)
  <2>5. Marks(u) = [flt |-> c.arg.n - s.touchs, toc |-> s.touchs,
                    reh |-> c.arg.r, eli |-> Flag(c.arg.e)]
    BY <1>2, <2>1, <2>3, AppliedMarks
  <2>6. /\ u.faults = c.arg.n - s.touchs /\ u.touchs = s.touchs
        /\ u.refusals = c.arg.r /\ u.eliminated = Flag(c.arg.e)
    BY <2>5 DEF Marks
  <2> HIDE DEF u
  <2>7. u.refusals = d.reh /\ u.eliminated = d.eli /\ u.eliminated \in {0, 1}
    BY <1>0, <1>3, <2>2, <2>3, <2>6 DEF Or, Keep, Flag
  <2>8. u.faults + u.touchs = Or(e.flt, s.faults) + Or(e.toc, s.touchs)
    <3>1. Or(e.flt, s.faults) \in Int /\ Or(e.toc, s.touchs) \in Int
      BY <1>1 DEF Or
    <3>2. QED
      BY <1>1, <2>3, <2>6, <3>1
  <2>9. Or(e.flt, s.faults) + Or(e.toc, s.touchs) = d.flt + d.toc /\ (Quietly => u.touchs = d.toc)
    <3>1. CASE Quietly
      <4>1. s.touchs = sc.toc /\ s.faults = sc.flt /\ e.toc = Keep
        BY <1>1, <1>3, <1>7, <3>1
      <4>2. QED
        BY <2>2, <2>6, <4>1 DEF Or
    <3>2. CASE ~Quietly
      <4>1. e.flt # Keep /\ e.toc # Keep
        BY <1>7, <3>2 DEF MarksSent
      <4>2. QED
        BY <2>2, <3>2, <4>1 DEF Or
    <3>3. QED
      BY <3>1, <3>2
  <2>10. QED
    BY <2>4, <2>7, <2>8, <2>9 DEF Agree, ShownFaults, u
<1>8. CASE e.type = "crono_reset"
  <2>1. t = s /\ c.name = "reset" /\ d = Zero
    BY <1>8 DEF EventWrites, EventCommand, CmdOf, ServerScore
  <2>2. Marks(MainApply(t, c.name, c.arg)) = Zero
    BY <1>2, <2>1, AppliedMarks
  <2>3. Agree(MainApply(t, c.name, c.arg), Zero)
    BY <2>2 DEF Marks, Agree, Zero, ShownFaults
  <2>4. QED
    BY <2>1, <2>3 DEF MainAccepts
<1>9. CASE e.type \in {"start", "close"}
  <2>1. t = s /\ d = sc /\ c.name \in {"start", "none"}
    BY <1>9 DEF EventWrites, EventCommand, NoCommand, CmdOf, ServerScore
  <2>2. Marks(MainApply(t, c.name, c.arg)) = Marks(s)
    BY <1>2, <2>1, AppliedMarks
  <2>3. QED
    BY <2>1, <2>2, AgreeByMarks DEF MainAccepts
<1>10. QED
  BY <1>1, <1>5, <1>6, <1>7, <1>8, <1>9 DEF EventType

(* An event that says everything of the score makes them agree, whatever   *)
(* the status was: it is as if the score had been the status' own marks.   *)
LEMMA WholeAgrees ==
  ASSUME MarksSent, NEW e \in OperatorEvents, NEW s \in Status, s.eliminated \in {0, 1},
         NEW sc \in Score, Whole(e)
  PROVE  LET t == EventWrites(s, e)
             c == EventCommand(s, e)
         IN  /\ MainAccepts(t, c.name, c.arg)
             /\ Agree(MainApply(t, c.name, c.arg), ServerScore(sc, e))
<1>1. Marks(s) \in Score /\ Agree(s, Marks(s))
  BY DEF Marks, Score, Status, Agree, ShownFaults
<1>2. ServerScore(Marks(s), e) = ServerScore(sc, e)
  BY DEF Whole, ServerScore, Or
<1> DEFINE x == Marks(s)
<1>3. x \in Score /\ Agree(s, x) /\ ServerScore(x, e) = ServerScore(sc, e)
  BY <1>1, <1>2
<1> HIDE DEF x
<1>4. QED
  BY <1>3, EventAgrees

(* An elimination is 0 or 1 after an operator's event as it was before.    *)
LEMMA EliminatedKept ==
  ASSUME MarksSent, NEW e \in OperatorEvents, NEW s \in Status, s.eliminated \in {0, 1}
  PROVE  EventWrites(s, e).eliminated \in {0, 1}
<1>1. e.eli \in {Keep, 0, 1}
  BY DEF MarksSent
<1>2. CASE e.type \in {"init", "open"}
  <2>1. [NoMarks(s) EXCEPT !.numero = 0, !.dorsal = 0].eliminated = 0
    BY DEF NoMarks, Status
  <2>2. QED
    BY <1>2, <2>1 DEF EventWrites
<1>3. CASE e.type = "llamada"
  <2>1. Or(e.eli, s.eliminated) \in {0, 1}
    BY <1>1 DEF Or, Keep
  <2>2. QED
    BY <1>3, <2>1 DEF EventWrites, Status
<1>4. CASE e.type \notin {"init", "open", "llamada"}
  BY <1>4 DEF EventWrites
<1>5. QED
  BY <1>2, <1>3, <1>4

-----------------------------------------------------------------------------
(* The steps of the scores' invariant: what operators cause.               *)
LEMMA InitScores == Init => ScoreInv
<1> SUFFICES ASSUME Init PROVE ScoreInv
  OBVIOUS
<1>1. /\ status = DefaultStatus /\ log = <<>> /\ srv = Zero /\ apc = "select"
      /\ evtid = 0 /\ first = 0 /\ batch = <<>> /\ cmds = <<>> /\ mpc = "idle" /\ nlocal = 0
  BY Zenon DEF Init
<1>2. behind = FALSE /\ alone = TRUE /\ lag = FALSE
  BY Zenon DEF Init
<1>3. OperatorInv
  <2> DEFINE sc == [k \in 0..0 |-> Zero]
  <2>1. History(sc)
    BY <1>1, Typed DEF History
  <2>2. Agree(DefaultStatus, Zero)
    BY DEF Agree, DefaultStatus, Zero, ShownFaults
  <2>3. Followed(sc)
    BY <1>1, <2>2 DEF Followed
  <2>4. \A i \in 1..Len(log) : log[i] \in OperatorEvents
    BY <1>1
  <2>5. status.eliminated \in {0, 1}
    BY <1>1 DEF DefaultStatus
  <2>6. QED
    BY <1>1, <2>1, <2>3, <2>4, <2>5 DEF OperatorInv
<1>4. CutInv /\ LagInv
  BY <1>2, Zenon DEF CutInv, LagInv
<1>5. PutInv /\ BehindInv
  <2>1. url.own
    BY DEF Init, Complete
  <2>2. QED
    BY <1>1, <2>1 DEF PutInv, BehindInv
<1>6. ReachedInv /\ LastInv
  BY <1>1 DEF ReachedInv, LastInv
<1>7. LocalInv
  BY <1>1 DEF LocalInv, CleanMarks, DefaultStatus
<1>8. QED
  BY <1>3, <1>4, <1>5, <1>6, <1>7 DEF ScoreInv

(* Steps that change neither the log nor the number of local commands.     *)
LEMMA FollowedKept ==
  ASSUME OperatorInv, UNCHANGED <<log, srv, nlocal>>, mpc' \in {mpc, "idle", "done"},
         alone' => alone,
         nlocal = 0 /\ status.eliminated \in {0, 1} => status'.eliminated \in {0, 1},
         \A sc : History(sc) /\ alone' /\ nlocal = 0 /\ Followed(sc) => Followed(sc)'
  PROVE  OperatorInv'
<1> SUFFICES ASSUME nlocal = 0 PROVE OperatorInv'
  BY DEF OperatorInv
<1>1. /\ mpc \in {"idle", "done"} /\ status.eliminated \in {0, 1}
      /\ \A i \in 1..Len(log) : log[i] \in OperatorEvents
  BY DEF OperatorInv
<1>2. PICK sc : History(sc) /\ (alone => Followed(sc))
  BY DEF OperatorInv
<1>3. History(sc)'
  BY <1>2 DEF History
<1>4. alone' => Followed(sc)'
  BY <1>2, Zenon
<1>5. QED
  BY <1>1, <1>3, <1>4 DEF OperatorInv

LEMMA SelectOperator ==
  TypeOK /\ BatchInv /\ OperatorInv /\ (Select \/ AskPermissions \/ OpenSession) => OperatorInv'
<1> SUFFICES ASSUME TypeOK, BatchInv, OperatorInv, Select \/ AskPermissions \/ OpenSession
             PROVE  OperatorInv'
  OBVIOUS
<1>1. UNCHANGED <<status, log, srv, batch, cmds, alone, lag, mpc, nlocal>>
  BY DEF Select, AskPermissions, OpenSession, server, main, dropped
<1>2. batch = <<>> /\ cmds = <<>> /\ evtid = 0
  BY DEF BatchInv, Unopened, Select, AskPermissions, OpenSession
<1>3. ASSUME NEW sc, History(sc), Followed(sc) PROVE Followed(sc)'
  <2>1. sc[0] = Zero /\ \A k \in 1..Len(log) : sc[k] = ServerScore(sc[k - 1], log[k])
    BY <1>3 DEF History
  <2>2. ~lag => Agree(status, Zero)
    BY <1>2, <1>3, <2>1 DEF Followed
  <2>3. evtid' = evtid \/ \E i \in 1..Len(log) : evtid' = i /\ log[i].type = "init"
    BY DEF Select, AskPermissions, OpenSession
  <2>4. sc[evtid'] = Zero
    BY <1>2, <2>1, <2>3 DEF ServerScore
  <2>5. QED
    BY <1>1, <1>2, <2>2, <2>4 DEF Followed
<1>4. QED
  BY <1>1, <1>3, FollowedKept

LEMMA LinkStepOperator ==
  TypeOK /\ BatchInv /\ OperatorInv /\ (Refused \/ Fetch \/ SendNext) => OperatorInv'
<1> SUFFICES ASSUME TypeOK, BatchInv, OperatorInv, Refused \/ Fetch \/ SendNext
             PROVE  OperatorInv'
  OBVIOUS
<1>1. UNCHANGED <<status, log, srv, evtid, lag, mpc, nlocal>>
  BY DEF Refused, Fetch, SendNext, server, main, dropped
<1>2. CASE Refused
  <2>1. batch = <<>> /\ cmds = <<>> /\ batch' = batch
    BY <1>2 DEF BatchInv, Refused
  <2>2. /\ Len(cmds') = 1 /\ cmds' # <<>> /\ cmds'[1].name \in {"msg", "exit"}
        /\ cmds'[1].arg \in Arg
    BY <1>2, Typed DEF Refused
  <2>3. MainApply(status, cmds'[1].name, cmds'[1].arg) = status
    BY <2>2, AppliedMarks, TypeParts DEF ServerTypes
  <2>4. MainAccepts(status, cmds'[1].name, cmds'[1].arg)
    BY <2>2 DEF MainAccepts
  <2>5. \A sc : Followed(sc) => Followed(sc)'
    BY <1>1, <2>1, <2>2, <2>3, <2>4 DEF Followed
  <2>6. alone' => alone
    BY <1>2, Zenon DEF Refused
  <2>7. QED
    BY <1>1, <2>5, <2>6, FollowedKept
<1>3. CASE Fetch
  <2>1. cmds = <<>> /\ cmds' = <<>>
    BY <1>3 DEF BatchInv, Fetch
  <2>2. alone' => alone /\ Len(batch') = 1
    BY <1>3, Zenon DEF Fetch
  <2>3. \A sc : alone' /\ Followed(sc) => Followed(sc)'
    <3> SUFFICES ASSUME NEW sc, alone', Followed(sc) PROVE Followed(sc)'
      BY Zenon
    <3>1. Len(batch') = 1
      BY <2>2, Zenon
    <3>2. QED
      BY <1>1, <2>1, <3>1 DEF Followed
  <2>4. QED
    BY <1>1, <2>2, <2>3, FollowedKept
<1>4. CASE SendNext
  <2>1. batch' = batch /\ cmds' = cmds
    BY <1>4 DEF SendNext
  <2>2. \A sc : Followed(sc) => Followed(sc)'
    BY <1>1, <2>1 DEF Followed
  <2>3. alone' => alone
    BY <1>4, Zenon DEF SendNext
  <2>4. QED
    BY <1>1, <2>2, <2>3, FollowedKept
<1>5. QED
  BY <1>2, <1>3, <1>4

(* A refused command leaves the marks as they are; they lag if it had any. *)
LEMMA RefuseOperator == TypeOK /\ BatchInv /\ OperatorInv /\ SendRefused => OperatorInv'
<1> SUFFICES ASSUME TypeOK, BatchInv, OperatorInv, SendRefused PROVE OperatorInv'
  OBVIOUS
<1>1. /\ UNCHANGED <<status, log, srv, evtid, batch, alone, mpc, nlocal>>
      /\ apc = "send" /\ cmds # <<>> /\ cmds' = Tail(cmds)
  BY DEF SendRefused, server, main
<1>2. batch = <<>>
  BY <1>1 DEF BatchInv
<1>3. /\ Head(cmds) = cmds[1] /\ cmds[1] \in Pending /\ cmds' \in Seq(Pending)
      /\ Len(cmds) \in Nat /\ Len(cmds') = Len(cmds) - 1
  BY <1>1, Rest
<1>4. lag' = (lag \/ cmds[1].name \in {"data", "reset"})
  BY <1>3, Zenon DEF SendRefused
<1>5. \A sc : Followed(sc) => Followed(sc)'
  <2> SUFFICES ASSUME NEW sc, Followed(sc) PROVE Followed(sc)'
    OBVIOUS
  <2>1. Len(cmds) = 1 /\ cmds[1].name \in {"data", "reset", "turn", "start", "msg", "exit"}
    BY <1>1 DEF Followed
  <2>2. cmds' = <<>>
    BY <1>3, <2>1, EmptySeq
  <2>3. ASSUME ~lag' PROVE Agree(status, sc[evtid])
    <3>1. ~lag /\ cmds[1].name \in {"turn", "start", "msg", "exit"}
      BY <1>4, <2>1, <2>3, Zenon
    <3>2. Agree(MainApply(status, cmds[1].name, cmds[1].arg), sc[evtid])
      BY <1>1, <3>1 DEF Followed
    <3>3. status \in Status /\ cmds[1].arg \in Arg
      BY <1>3, TypeParts DEF ServerTypes, Pending
    <3>4. Marks(MainApply(status, cmds[1].name, cmds[1].arg)) = Marks(status)
      BY <3>1, <3>3, AppliedMarks
    <3>5. QED
      BY <3>2, <3>4, AgreeByMarks
  <2>4. QED
    BY <1>1, <1>2, <2>2, <2>3 DEF Followed
<1>6. QED
  BY <1>1, <1>5, FollowedKept

LEMMA ParseOperator ==
  MarksSent /\ TypeOK /\ EventInv /\ OperatorInv /\ ParseEvent => OperatorInv'
<1> SUFFICES ASSUME MarksSent, TypeOK, EventInv, OperatorInv, ParseEvent
             PROVE  OperatorInv'
  OBVIOUS
<1>0. BatchInv /\ ServerTypes /\ LinkTypes
  BY TypeParts DEF EventInv
<1>1. UNCHANGED <<log, srv, alone, mpc, nlocal>> /\ evtid' = evtid + 1
  BY DEF ParseEvent, server, main
<1> DEFINE e == log[evtid + 1]
           c == EventCommand(status, e)
<1>2. ASSUME NEW sc, History(sc), nlocal = 0, Followed(sc) PROVE Followed(sc)'
  <2>1. /\ batch # <<>> /\ Len(batch') = Len(batch) - 1 /\ batch' \in Seq(Event)
        /\ evtid + 1 \in 1..Len(log)
    BY <1>0, Parsed DEF ParseEvent
  <2>2. cmds = <<>> /\ Len(batch) = 1 /\ (~lag => Agree(status, sc[evtid]))
    BY <1>2, <2>1 DEF Followed
  <2>3. batch' = <<>>
    BY <2>1, <2>2, EmptySeq
  <2>4. e \in OperatorEvents /\ e \in Event /\ ~e.own
    BY <1>2, <2>1, BridgeAssumption DEF OperatorInv
  <2>5. evtid \in 0..Len(log) /\ sc[evtid] \in Score
    BY <1>0, <1>2 DEF LinkTypes, History
  <2>6. sc[evtid'] = ServerScore(sc[evtid], e)
    <3>1. (evtid + 1) - 1 = evtid
      BY <2>5
    <3>2. QED
      BY <1>1, <1>2, <2>1, <3>1 DEF History
  <2>7. status' = EventWrites(status, e)
    BY <1>0, <2>4, Parsed
  <2>8. ASSUME ~lag'
        PROVE  /\ MainAccepts(status', c.name, c.arg)
               /\ Agree(MainApply(status', c.name, c.arg), sc[evtid'])
    <3>1. status \in Status /\ status.eliminated \in {0, 1}
      BY <1>0, <1>2 DEF ServerTypes, OperatorInv
    <3>2. ~lag \/ Whole(e)
      <4>1. Head(batch) = e
        BY <1>0, Parsed
      <4>2. QED
        BY <2>8, <4>1, Zenon DEF ParseEvent
    <3> DEFINE x == sc[evtid]
    <3>3. x \in Score /\ (~lag => Agree(status, x))
      BY <2>2, <2>5
    <3> HIDE DEF x, e
    <3>4. /\ MainAccepts(EventWrites(status, e), c.name, c.arg)
          /\ Agree(MainApply(EventWrites(status, e), c.name, c.arg), ServerScore(x, e))
      <4>1. CASE Whole(e)
        BY <2>4, <3>1, <3>3, <4>1, WholeAgrees, Zenon
      <4>2. CASE ~lag
        BY <2>4, <3>1, <3>3, <4>2, EventAgrees, Zenon
      <4>3. QED
        BY <3>2, <4>1, <4>2
    <3>5. QED
      BY <2>6, <2>7, <3>4, Zenon DEF x
  <2>9. CASE cmds' = cmds /\ ~Asks(evtid + 1)
    <3>1. c = NoCommand
      <4>1. c = NoCommand <=> e.type \notin {"datos", "llamada", "start", "crono_reset"}
        BY <1>0, <2>4, EventTypes, Zenon DEF ServerTypes
      <4>2. QED
        BY <2>4, <2>9, <4>1, Zenon DEF Asks
    <3>2. MainApply(status', c.name, c.arg) = status'
      <4>1. c.name = "none" /\ c.arg \in Arg
        BY <3>1, Typed DEF NoCommand, CmdOf
      <4>2. status' \in Status
        BY <1>0, <2>4, <2>7, EventTypes DEF ServerTypes
      <4> HIDE DEF c
      <4>3. QED
        BY <4>1, <4>2, AppliedMarks
    <3>3. QED
      BY <2>2, <2>3, <2>8, <2>9, <3>2 DEF Followed
  <2>10. CASE /\ Asks(evtid + 1)
              /\ \E p \in Pending : /\ p = [name |-> c.name, arg |-> c.arg, id |-> evtid + 1]
                                   /\ cmds' = Append(cmds, p)
    <3> HIDE DEF c
    <3>1. PICK p \in Pending : /\ p = [name |-> c.name, arg |-> c.arg, id |-> evtid + 1]
                               /\ cmds' = Append(cmds, p)
      BY <2>10
    <3>2. cmds' = <<p>> /\ p.name = c.name /\ p.arg = c.arg
      BY <2>2, <3>1
    <3>3. Len(cmds') = 1 /\ cmds' # <<>> /\ cmds'[1] = p
      BY <3>2
    <3>4. c.name \in {"data", "turn", "start", "reset"}
      <4>1. c.name \in {"data", "turn", "start", "reset"} \/ c = NoCommand
        BY DEF c, EventCommand, CmdOf
      <4>2. Asks(evtid + 1)
        BY <2>10
      <4>3. c # NoCommand
        <5>1. c = NoCommand <=> e.type \notin {"datos", "llamada", "start", "crono_reset"}
          BY <1>0, <2>4, EventTypes, Zenon DEF ServerTypes, c
        <5>2. QED
          BY <4>2, <5>1, Zenon DEF Asks
      <4>4. QED
        BY <4>1, <4>3
    <3>5. QED
      BY <2>3, <2>8, <3>2, <3>3, <3>4 DEF Followed
  <2>11. QED
    BY <2>9, <2>10, ParsedCommand, Zenon
<1>3. ASSUME nlocal = 0, status.eliminated \in {0, 1} PROVE status'.eliminated \in {0, 1}
  <2>1. e \in OperatorEvents /\ ~e.own /\ status \in Status
    <3>1. evtid + 1 \in 1..Len(log)
      BY <1>0, Parsed
    <3>2. QED
      BY <1>0, <1>3, <3>1, BridgeAssumption DEF OperatorInv, ServerTypes
  <2>2. status' = EventWrites(status, e)
    BY <1>0, <2>1, Parsed
  <2> HIDE DEF e
  <2>3. QED
    BY <1>3, <2>1, <2>2, EliminatedKept
<1>4. QED
  BY <1>1, <1>2, <1>3, FollowedKept

LEMMA ServeOperator == TypeOK /\ BatchInv /\ OperatorInv /\ ServeServer => OperatorInv'
<1> SUFFICES ASSUME TypeOK, BatchInv, OperatorInv, ServeServer PROVE OperatorInv'
  OBVIOUS
<1>1. /\ UNCHANGED <<log, srv, alone, lag, nlocal, evtid, batch>>
      /\ mpc' \in {"idle", "done"} /\ apc = "wait"
  BY DEF ServeServer, server, dropped
<1>2. batch = <<>>
  BY <1>1 DEF BatchInv
<1>3. /\ Len(cmds) \in Nat /\ Len(cmds) > 0 /\ Len(cmds') = Len(cmds) - 1 /\ cmds' \in Seq(Pending)
      /\ status' = IF MainAccepts(status, cmds[1].name, cmds[1].arg)
                   THEN MainApply(status, cmds[1].name, cmds[1].arg) ELSE status
  BY Served
<1>4. \A sc : Followed(sc) => Followed(sc)'
  <2> SUFFICES ASSUME NEW sc, Followed(sc) PROVE Followed(sc)'
    OBVIOUS
  <2>1. cmds # <<>>
    BY <1>3
  <2>2. Len(cmds) = 1 /\ (~lag => Agree(status', sc[evtid]))
    BY <1>3, <2>1 DEF Followed
  <2>3. cmds' = <<>>
    BY <1>3, <2>2, EmptySeq
  <2>4. QED
    BY <1>1, <1>2, <2>2, <2>3 DEF Followed
<1>5. ASSUME status.eliminated \in {0, 1} PROVE status'.eliminated \in {0, 1}
  <2>1. status \in Status /\ cmds[1].arg \in Arg
    BY Served, TypeParts DEF ServerTypes, Pending
  <2>2. MainApply(status, cmds[1].name, cmds[1].arg).eliminated \in {0, 1}
    BY <1>5, <2>1, MainApplyEliminated
  <2>3. QED
    BY <1>3, <1>5, <2>2
<1>6. QED
  BY <1>1, <1>4, <1>5, FollowedKept

(* An operator's event makes the history one score longer.                 *)
LEMMA EventOperator == TypeOK /\ OperatorInv /\ OperatorEvent => OperatorInv'
<1> SUFFICES ASSUME TypeOK, OperatorInv, OperatorEvent PROVE OperatorInv'
  OBVIOUS
<1>1. UNCHANGED <<status, evtid, batch, cmds, mpc, nlocal, alone, lag>>
  BY DEF OperatorEvent, ajax, main, dropped
<1> SUFFICES ASSUME nlocal = 0 PROVE OperatorInv'
  BY <1>1 DEF OperatorInv
<1>2. PICK e \in OperatorEvents : Record(e)
  BY DEF OperatorEvent
<1>3. e \in Event
  BY BridgeAssumption
<1> DEFINE n == Len(log)
<1>4. /\ n \in Nat /\ Len(log') = n + 1 /\ log'[n + 1] = e /\ evtid \in 0..n
      /\ \A i \in 1..n : log'[i] = log[i]
      /\ srv' = ServerScore(srv, e) /\ srv' \in Score
  BY <1>2, <1>3, RecordTypes, TypeParts DEF Record, LinkTypes, ServerTypes
<1>5. /\ mpc \in {"idle", "done"} /\ status.eliminated \in {0, 1} /\ \A i \in 1..n : log[i] \in OperatorEvents
  BY DEF OperatorInv
<1>6. PICK sc : History(sc) /\ (alone => Followed(sc))
  BY DEF OperatorInv
<1>7. /\ sc \in [0..n -> Score] /\ sc[0] = Zero /\ sc[n] = srv
      /\ \A k \in 1..n : sc[k] = ServerScore(sc[k - 1], log[k])
  BY <1>6 DEF History
<1>d. PICK sd : sd = [k \in 0..n + 1 |-> IF k <= n THEN sc[k] ELSE srv']
  OBVIOUS
<1> HIDE DEF n
<1>8. /\ sd \in [0..n + 1 -> Score] /\ sd[n + 1] = srv'
      /\ \A k \in 0..n : sd[k] = sc[k]
  BY <1>4, <1>7, <1>d
<1>9. \A k \in 1..n + 1 : k \in 1..n \/ k = n + 1
  BY <1>4
<1>10. \A k \in 1..n + 1 : sd[k] = ServerScore(sd[k - 1], log'[k])
  <2>1. ASSUME NEW k \in 1..n PROVE sd[k] = ServerScore(sd[k - 1], log'[k])
    <3>1. k \in 0..n /\ k - 1 \in 0..n
      BY <1>4
    <3>2. QED
      BY <1>4, <1>7, <1>8, <3>1
  <2>2. sd[n + 1] = ServerScore(sd[(n + 1) - 1], log'[n + 1])
    <3>1. (n + 1) - 1 = n /\ n \in 0..n
      BY <1>4
    <3>2. QED
      BY <1>4, <1>7, <1>8, <3>1
  <2>3. QED
    BY <1>9, <2>1, <2>2
<1>11. History(sd)'
  <2>1. 0 \in 0..n
    BY <1>4
  <2>2. QED
    BY <1>4, <1>7, <1>8, <1>10, <2>1 DEF History
<1>12. sd[evtid] = sc[evtid]
  BY <1>4, <1>8
<1>13. Followed(sc) => Followed(sd)'
  BY <1>1, <1>12 DEF Followed
<1>14. alone' => Followed(sd)'
  BY <1>1, <1>6, <1>13, Zenon
<1>15. \A i \in 1..n + 1 : log'[i] \in OperatorEvents
  BY <1>4, <1>5, <1>9
<1>16. QED
  BY <1>1, <1>4, <1>5, <1>11, <1>14, <1>15 DEF OperatorInv

-----------------------------------------------------------------------------
(* The steps of the scores' invariant: what is marked here.                *)
MarksInv == PutInv /\ BehindInv /\ ReachedInv /\ LocalInv /\ LastInv

(* Steps that leave what is marked and what the server has of it.          *)
LEMMA MarksKept ==
  ASSUME MarksInv, UNCHANGED <<log, srv, url, nlocal>>, mpc' \in {mpc, "idle", "done"},
         behind' = behind, Undisturbed' => Undisturbed /\ status' = status
  PROVE  MarksInv'
<1>1. PutInv' /\ BehindInv'
  <2>1. PutInv'
    BY DEF MarksInv, PutInv
  <2>2. BehindInv'
    BY DEF MarksInv, BehindInv
  <2>3. QED
    BY <2>1, <2>2
<1>2. ReachedInv'
  BY Zenon DEF MarksInv, ReachedInv
<1>3. LocalInv'
  BY DEF MarksInv, LocalInv
<1>4. LastInv'
  BY Zenon DEF MarksInv, LastInv
<1>5. QED
  BY <1>1, <1>2, <1>3, <1>4 DEF MarksInv

(* A command of another manager keeps the marks clean.                     *)
LEMMA AppliedClean ==
  ASSUME MarksSent, NEW s \in Status, CleanMarks(s), NEW c \in LocalCommands
  PROVE  LET t == MainApply(s, c.name, c.arg)
         IN  CleanMarks(t) /\ (c.name = "reset" => Marks(t) = Zero)
<1> DEFINE t == MainApply(s, c.name, c.arg)
<1>1. c.arg \in Arg /\ c.name \in {"fault", "refusal", "elim", "data", "reset"}
  BY BridgeAssumption DEF Local
<1>2. s.faults \in Int /\ s.touchs \in Int /\ s.refusals \in Int
  BY DEF Status
<1>3. ShownFaults(s) >= 0 /\ s.refusals >= 0 /\ s.touchs = 0 /\ s.eliminated \in {0, 1}
  BY <1>2 DEF CleanMarks, ShownFaults
<1>4. c.name = "data" => c.arg.n >= 0 /\ c.arg.r >= 0
  BY DEF MarksSent
<1>5. ShownFaults(t) >= 0 /\ t.refusals >= 0
  BY <1>1, <1>3, <1>4, ApplyCounts
<1>6. t.eliminated \in {0, 1}
  BY <1>1, <1>3, MainApplyEliminated
<1>7. t \in Status
  BY <1>1, MainApplyType
<1>8. t.touchs = 0
  <2>1. main_mgr_fault(s, c.arg).touchs = 0
    <3> DEFINE f == CASE c.arg.kind \in {"none", "plus"} -> s.faults + 1
                      [] c.arg.kind = "minus" -> IF s.faults > 0 THEN s.faults - 1 ELSE s.faults
                      [] OTHER                -> c.arg.n - s.touchs
               x == IF c.arg.kind = "minus" /\ ~(s.faults > 0) /\ s.touchs > 0
                    THEN s.touchs - 1 ELSE s.touchs
    <3>1. x = 0
      BY <1>3
    <3>2. main_mgr_fault(s, c.arg) = [s EXCEPT !.faults = AtLeast0(f), !.touchs = AtLeast0(x)]
      BY DEF main_mgr_fault
    <3> HIDE DEF f, x
    <3>3. AtLeast0(x) = 0
      BY <3>1 DEF AtLeast0
    <3>4. QED
      BY <3>2, <3>3 DEF Status
  <2>2. /\ main_mgr_refusal(s, c.arg).touchs = 0
        /\ main_mgr_elim(s, c.arg).touchs = 0
        /\ main_mgr_data(s, c.arg).touchs = 0
        /\ main_mgr_reset(s).touchs = 0
    BY <1>3 DEF main_mgr_refusal, main_mgr_elim, main_mgr_data, main_mgr_reset, NoMarks, NoTimes,
                Status
  <2>3. QED
    BY <1>1, <2>1, <2>2 DEF MainApply
<1>9. c.name = "reset" => Marks(t) = Zero
  BY <1>1, AppliedMarks
<1>10. t.faults >= 0
  <2> HIDE DEF t
  <2>1. t.faults \in Int
    BY <1>7 DEF Status
  <2>2. QED
    BY <1>5, <1>8, <2>1 DEF ShownFaults
<1>11. QED
  BY <1>5, <1>6, <1>8, <1>9, <1>10 DEF CleanMarks

LEMMA LocalMarks == MarksSent /\ TypeOK /\ MarksInv /\ (ServeLocal \/ Compose) => MarksInv'
<1> SUFFICES ASSUME MarksSent, TypeOK, MarksInv, ServeLocal \/ Compose PROVE MarksInv'
  OBVIOUS
<1>0. /\ PutInv /\ BehindInv /\ LocalInv /\ ReachedInv /\ LastInv
      /\ ServerTypes /\ MainTypes
  BY TypeParts DEF MarksInv
<1>1. UNCHANGED <<log, srv, evtid, first>>
  BY DEF ServeLocal, Compose, server, ajax
<1>2. Undisturbed' <=> Undisturbed
  BY <1>1 DEF Undisturbed
<1>3. CASE ServeLocal
  <2>1. PICK c \in LocalCommands :
          /\ status' = MainApply(status, c.name, c.arg)
          /\ url' = [url EXCEPT !.type = IF c.name = "reset" THEN "crono_reset" ELSE "datos"]
    BY <1>3 DEF ServeLocal
  <2>2. behind' = TRUE
    BY <1>3, Zenon DEF ServeLocal
  <2>3. mpc' = "fan" /\ nlocal' = nlocal + 1 /\ nlocal \in Nat
    BY <1>0, <1>3, BridgeAssumption DEF ServeLocal, MainTypes
  <2>4. BehindInv' /\ ReachedInv' /\ LastInv'
    BY <2>2, Zenon DEF BehindInv, ReachedInv, LastInv
  <2>5. url'.type = (IF c.name = "reset" THEN "crono_reset" ELSE "datos") /\ url'.own
    BY <1>0, <2>1 DEF MainTypes, Event, PutInv
  <2>6. PutInv'
    BY <2>3, <2>5 DEF PutInv
  <2>7. Undisturbed => CleanMarks(status') /\ (c.name = "reset" => Marks(status') = Zero)
    BY <1>0, <2>1, AppliedClean DEF LocalInv, ServerTypes
  <2>8. LocalInv'
    BY <1>2, <2>3, <2>5, <2>7 DEF LocalInv, CleanMarks, Marks
  <2>9. QED
    BY <2>4, <2>6, <2>8 DEF MarksInv
<1>4. CASE Compose
  <2>1. behind' = behind
    BY <1>4 DEF Compose
  <2>2. /\ mpc = "fan" /\ mpc' = "put" /\ status' = status /\ nlocal' = nlocal
        /\ url' = Complete(url.type, TRUE, [flt |-> status.faults, toc |-> status.touchs,
                                            reh |-> status.refusals, eli |-> status.eliminated])
    BY <1>4 DEF Compose
  <2>3. /\ url'.type = url.type /\ url'.own
        /\ url'.flt = status.faults /\ url'.toc = status.touchs
        /\ url'.reh = status.refusals /\ url'.eli = status.eliminated
    BY <2>2 DEF Complete
  <2>4. PutInv'
    BY <1>0, <2>2, <2>3 DEF PutInv
  <2>5. behind /\ BehindInv'
    BY <1>0, <2>1, <2>2, Zenon DEF BehindInv
  <2>6. ReachedInv' /\ LastInv'
    BY <2>1, <2>5, Zenon DEF ReachedInv, LastInv
  <2>7. LocalInv'
    BY <1>0, <1>2, <2>2, <2>3 DEF LocalInv, CleanMarks, Marks
  <2>8. QED
    BY <2>4, <2>5, <2>6, <2>7 DEF MarksInv
<1>5. QED
  BY <1>3, <1>4

(* What was read of the log stays, also when it grows.                     *)
LEMMA UndisturbedKept ==
  ASSUME TypeOK, UNCHANGED <<evtid, first>>, \A i \in 1..Len(log) : log'[i] = log[i]
  PROVE  Undisturbed' <=> Undisturbed
<1>1. \A k \in first + 1..evtid : k \in 1..Len(log)
  BY TypeParts DEF LinkTypes, ServerTypes
<1>2. QED
  BY <1>1 DEF Undisturbed

LEMMA PutMarks ==
  TypeOK /\ MarksInv /\ (OperatorEvent \/ PutOk \/ PutFails) => MarksInv'
<1> SUFFICES ASSUME TypeOK, MarksInv, OperatorEvent \/ PutOk \/ PutFails PROVE MarksInv'
  OBVIOUS
<1>0. /\ PutInv /\ BehindInv /\ LocalInv /\ ReachedInv /\ LastInv
      /\ ServerTypes /\ LinkTypes /\ MainTypes
  BY TypeParts DEF MarksInv
<1>1. UNCHANGED <<status, evtid, first, url, nlocal>> /\ mpc' \in {mpc, "idle"}
  BY DEF OperatorEvent, PutOk, PutFails, ajax, main
<1>2. CASE UNCHANGED <<log, srv>> /\ behind' = behind
  <2>1. Undisturbed' => Undisturbed
    BY <1>1, <1>2 DEF Undisturbed
  <2>2. QED
    BY <1>1, <1>2, <2>1, MarksKept
<1>3. ASSUME NEW e \in Event, Record(e),
             (OperatorEvent /\ ~e.own) \/ (PutOk /\ session /\ e = url)
      PROVE  MarksInv'
  <2>1. /\ Len(log') = Len(log) + 1 /\ Len(log) \in Nat /\ log'[Len(log) + 1] = e
        /\ \A i \in 1..Len(log) : log'[i] = log[i]
    BY <1>0, <1>3, RecordTypes
  <2>2. Undisturbed' <=> Undisturbed
    BY <1>1, <2>1, UndisturbedKept
  <2>3. PutInv'
    BY <1>0, <1>1 DEF PutInv
  <2>4. LocalInv'
    BY <1>0, <1>1, <2>2 DEF LocalInv, CleanMarks, Marks
  <2>5. \A i \in 1..Len(log) : i \in 1..Len(log')
    BY <2>1
  <2>6. CASE OperatorEvent /\ ~e.own
    <3>1. mpc' = mpc /\ behind' = behind
      BY <2>6 DEF OperatorEvent, main
    <3>2. BehindInv'
      BY <1>0, <3>1, Zenon DEF BehindInv
    <3>3. (\E i \in 1..Len(log) : log[i].own) => \E i \in 1..Len(log') : log'[i].own
      BY <2>1, <2>5
    <3>4. ReachedInv'
      BY <1>0, <1>1, <3>1, <3>3, Zenon DEF ReachedInv
    <3>5. ~log'[Len(log')].own
      BY <2>1, <2>6
    <3>6. LastInv'
      BY <3>5, Zenon DEF LastInv
    <3>7. QED
      BY <2>3, <2>4, <3>2, <3>4, <3>6 DEF MarksInv
  <2>7. CASE PutOk /\ session /\ e = url
    <3>1. mpc = "put" /\ mpc' = "idle"
      BY <2>7 DEF PutOk
    <3>2. BehindInv'
      BY <3>1 DEF BehindInv
    <3>3. e.own /\ e.type \in {"datos", "crono_reset"}
      BY <1>0, <2>7, <3>1 DEF PutInv
    <3>4. \E i \in 1..Len(log') : log'[i].own
      <4>1. Len(log) + 1 \in 1..Len(log')
        BY <2>1
      <4>2. QED
        BY <2>1, <3>3, <4>1
    <3>5. ReachedInv'
      BY <3>4, Zenon DEF ReachedInv
    <3>6. Undisturbed => Marks(status) = ServerScore(srv, e)
      <4> SUFFICES ASSUME Undisturbed PROVE Marks(status) = ServerScore(srv, e)
        OBVIOUS
      <4>1. CleanMarks(status) /\ (url.type = "crono_reset" => Marks(status) = Zero)
        BY <1>0, <3>1 DEF LocalInv
      <4>2. /\ e.flt = status.faults /\ e.toc = status.touchs
            /\ e.reh = status.refusals /\ e.eli = status.eliminated
        BY <1>0, <2>7, <3>1 DEF LocalInv
      <4>3. CASE e.type = "crono_reset"
        BY <2>7, <4>1, <4>3 DEF ServerScore
      <4>4. CASE e.type = "datos"
        <5>1. ServerScore(srv, e) = [flt |-> Or(e.flt, srv.flt), toc |-> Or(e.toc, srv.toc),
                                     reh |-> Or(e.reh, srv.reh), eli |-> Or(e.eli, srv.eli)]
          BY <4>4 DEF ServerScore
        <5>2. e.flt # Keep /\ e.toc # Keep /\ e.reh # Keep /\ e.eli # Keep
          BY <4>1, <4>2 DEF CleanMarks, Keep
        <5>3. QED
          BY <4>2, <5>1, <5>2 DEF Or, Marks
      <4>5. QED
        BY <3>3, <4>3, <4>4
    <3>7. srv' = ServerScore(srv, e)
      BY <1>3 DEF Record
    <3>8. Marks(status') = Marks(status)
      BY <1>1 DEF Marks
    <3>9. LastInv'
      BY <2>2, <3>6, <3>7, <3>8, Zenon DEF LastInv
    <3>10. QED
      BY <2>3, <2>4, <3>2, <3>5, <3>9 DEF MarksInv
  <2>8. QED
    BY <1>3, <2>6, <2>7
<1>4. CASE OperatorEvent
  <2>1. PICK e \in OperatorEvents : Record(e)
    BY <1>4 DEF OperatorEvent
  <2>2. e \in Event /\ ~e.own
    BY BridgeAssumption
  <2>3. /\ e \in Event /\ Record(e)
        /\ (OperatorEvent /\ ~e.own) \/ (PutOk /\ session /\ e = url)
    BY <1>4, <2>1, <2>2
  <2>4. QED
    BY <1>3, <2>3
<1>5. CASE PutFails
  BY <1>2, <1>5 DEF PutFails, server
<1>6. CASE PutOk
  <2>1. CASE session
    <3>1. Record(url) /\ url \in Event
      BY <1>0, <1>6, <2>1 DEF PutOk, MainTypes
    <3>2. QED
      BY <1>3, <1>6, <2>1, <3>1
  <2>2. CASE ~session
    BY <1>2, <1>6, <2>2 DEF PutOk, server
  <2>3. QED
    BY <2>1, <2>2
<1>7. QED
  BY <1>4, <1>5, <1>6

LEMMA LinkMarks ==
  TypeOK /\ EventInv /\ MarksInv /\ (ServerThread \/ ServeServer) => MarksInv'
<1> SUFFICES ASSUME TypeOK, EventInv, MarksInv, ServerThread \/ ServeServer PROVE MarksInv'
  OBVIOUS
<1>0. BatchInv /\ LicenseInv /\ OrderInv /\ LinkTypes /\ ServerTypes /\ CmdTypes
  BY TypeParts DEF EventInv
<1>1. /\ UNCHANGED <<log, srv, url, nlocal>> /\ mpc' \in {mpc, "idle", "done"}
      /\ behind' = behind
  BY DEF ServerThread, Select, AskPermissions, OpenSession, Refused, Fetch, ParseEvent, SendNext,
         SendRefused, ServeServer, server, main
<1>2. Undisturbed' => Undisturbed /\ status' = status
  <2>1. CASE Select \/ AskPermissions \/ OpenSession
    <3>1. evtid = 0 /\ first = 0 /\ status' = status
      BY <1>0, <2>1 DEF BatchInv, Unopened, Select, AskPermissions, OpenSession
    <3>2. \A x \in Int : x + 1..x = {}
      OBVIOUS
    <3>3. first + 1..evtid = {}
      BY <3>1, <3>2
    <3>4. QED
      BY <3>1, <3>3 DEF Undisturbed
  <2>2. CASE Refused \/ Fetch \/ SendNext \/ SendRefused
    BY <1>1, <2>2 DEF Undisturbed, Refused, Fetch, SendNext, SendRefused
  <2>3. CASE ParseEvent
    <3>1. evtid' = evtid + 1 /\ first' = first
      BY <2>3 DEF ParseEvent
    <3>2. /\ evtid + 1 \in first + 1..evtid + 1
          /\ \A k \in first + 1..evtid : k \in first + 1..evtid + 1
      BY <1>0 DEF LinkTypes, ServerTypes
    <3>3. Undisturbed' => Undisturbed /\ log[evtid + 1].own
      BY <1>1, <3>1, <3>2 DEF Undisturbed
    <3>4. log[evtid + 1].own => status' = status
      BY <1>0, <2>3, Parsed
    <3>5. QED
      BY <3>3, <3>4
  <2>4. CASE ServeServer
    <3>1. UNCHANGED <<evtid, first>>
      BY <2>4 DEF ServeServer
    <3>2. Undisturbed' => Undisturbed
      BY <1>1, <3>1 DEF Undisturbed
    <3>3. /\ Len(cmds) \in Nat /\ Len(cmds) > 0 /\ cmds[1] \in Pending
          /\ status' = IF MainAccepts(status, cmds[1].name, cmds[1].arg)
                       THEN MainApply(status, cmds[1].name, cmds[1].arg) ELSE status
      BY <2>4, Served
    <3>4. 1 \in 1..Len(cmds)
      BY <3>3
    <3>5. CASE license < 0
      <4>1. cmds[1].name \in {"msg", "exit"} /\ cmds[1].arg \in Arg
        BY <1>0, <3>3, <3>4, <3>5 DEF LicenseInv, Pending
      <4>2. MainApply(status, cmds[1].name, cmds[1].arg) = status
        BY <1>0, <4>1, AppliedMarks DEF ServerTypes
      <4>3. QED
        BY <3>2, <3>3, <4>2
    <3>6. CASE license >= 0
      <4>1. cmds[1].id \in first + 1..evtid /\ ~log[cmds[1].id].own
        BY <1>0, <3>4, <3>6 DEF OrderInv, Asks
      <4>2. ~Undisturbed
        BY <4>1 DEF Undisturbed
      <4>3. QED
        BY <3>2, <4>2
    <3>7. QED
      BY <1>0, <3>5, <3>6 DEF LinkTypes
  <2>5. QED
    BY <2>1, <2>2, <2>3, <2>4 DEF ServerThread
<1>3. QED
  BY <1>1, <1>2, MarksKept

-----------------------------------------------------------------------------
LEMMA NextOperator ==
  MarksSent /\ TypeOK /\ EventInv /\ OperatorInv /\ [Next]_vars => OperatorInv'
<1> SUFFICES ASSUME MarksSent, TypeOK, EventInv, OperatorInv, [Next]_vars PROVE OperatorInv'
  OBVIOUS
<1>0. BatchInv /\ nlocal \in Nat
  BY TypeParts, BridgeAssumption DEF EventInv, MainTypes
<1>1. CASE UNCHANGED vars
  <2>1. UNCHANGED <<status, log, srv, nlocal, mpc, evtid, batch, cmds, lag>> /\ (alone' => alone)
    BY <1>1, Zenon DEF vars, server, ajax, main, dropped
  <2>2. \A sc : Followed(sc) => Followed(sc)'
    BY <2>1 DEF Followed
  <2>3. QED
    BY <2>1, <2>2, FollowedKept
<1>2. CASE ServeLocal
  <2>1. nlocal' # 0
    BY <1>0, <1>2 DEF ServeLocal
  <2>2. QED
    BY <2>1 DEF OperatorInv
<1>3. CASE Compose \/ PutOk \/ PutFails
  <2>1. mpc \in {"fan", "put"} /\ nlocal' = nlocal
    BY <1>3 DEF Compose, PutOk, PutFails
  <2>2. QED
    BY <2>1 DEF OperatorInv
<1>4. CASE OperatorEvent \/ ServeServer \/ ServerThread
  BY <1>0, <1>4, SelectOperator, LinkStepOperator, RefuseOperator, ParseOperator, ServeOperator,
     EventOperator
  DEF ServerThread
<1>5. QED
  BY <1>1, <1>2, <1>3, <1>4 DEF Next, MainThread

LEMMA NextCut == TypeOK /\ EventInv /\ CutInv /\ [Next]_vars => CutInv'
<1> SUFFICES ASSUME TypeOK, EventInv, CutInv, [Next]_vars PROVE CutInv'
  OBVIOUS
<1>0. BatchInv /\ LinkTypes /\ ServerTypes
  BY TypeParts DEF EventInv
<1>1. evtid \in Nat /\ first \in Nat /\ first <= evtid /\ Len(batch) \in Nat
  BY <1>0 DEF LinkTypes, ServerTypes
<1>2. CASE Select \/ AskPermissions \/ OpenSession
  <2>1. evtid = 0 /\ first = 0 /\ batch = <<>>
    BY <1>0, <1>2 DEF BatchInv, Unopened, Select, AskPermissions, OpenSession
  <2>2. ~(evtid + Len(batch) > first)
    BY <2>1
  <2>3. alone' = alone
    BY <1>2 DEF Select, AskPermissions, OpenSession
  <2>4. QED
    BY <2>2, <2>3, Zenon DEF CutInv
<1>3. CASE Fetch
  <2>1. PICK n \in 1..MaxBatch : evtid + n <= Len(log) /\ batch' = SubSeq(log, evtid + 1, evtid + n)
    BY <1>3 DEF Fetch
  <2>2. n \in Nat /\ n > 0 /\ Len(log) \in Nat
    BY <1>0, <2>1, BridgeAssumption DEF ServerTypes
  <2>3. Len(batch') = n
    BY <1>0, <1>1, <2>1, <2>2, SubSeqProperties DEF ServerTypes
  <2>4. evtid' = evtid /\ first' = first
    BY <1>3 DEF Fetch
  <2>5. evtid' + Len(batch') > first'
    BY <1>1, <2>2, <2>3, <2>4
  <2>6. QED
    BY <2>5, Zenon DEF CutInv
<1>4. CASE ParseEvent
  <2>1. evtid' + Len(batch') = evtid + Len(batch) /\ first' = first /\ alone' = alone
    <3>1. Len(batch') = Len(batch) - 1
      BY <1>0, <1>4, Parsed
    <3>2. evtid' = evtid + 1 /\ first' = first /\ alone' = alone
      BY <1>4 DEF ParseEvent
    <3>3. QED
      BY <1>1, <3>1, <3>2
  <2>2. QED
    BY <2>1, Zenon DEF CutInv
<1>5. CASE UNCHANGED vars \/ OperatorEvent \/ Refused \/ SendNext \/ SendRefused \/ MainThread
  <2>1. UNCHANGED <<evtid, batch, first, alone>>
    BY <1>5 DEF vars, ajax, OperatorEvent, Refused, SendNext, SendRefused, MainThread, ServeServer, ServeLocal,
                Compose, PutOk, PutFails
  <2>2. QED
    BY <2>1, Zenon DEF CutInv
<1>6. QED
  BY <1>2, <1>3, <1>4, <1>5 DEF Next, ServerThread

(* Only an event's command can leave the marks behind.                     *)
LEMMA NextLag == TypeOK /\ EventInv /\ LagInv /\ [Next]_vars => LagInv'
<1> SUFFICES ASSUME TypeOK, EventInv, LagInv, [Next]_vars PROVE LagInv'
  OBVIOUS
<1>0. BatchInv /\ LicenseInv /\ OrderInv /\ LinkTypes /\ ServerTypes /\ FlagTypes
  BY TypeParts DEF EventInv
<1>1. evtid \in Nat /\ first \in Nat /\ license \in Int
  BY <1>0 DEF LinkTypes, ServerTypes
<1>2. CASE Select \/ AskPermissions \/ OpenSession
  <2>1. evtid = 0 /\ first = 0
    BY <1>0, <1>2 DEF BatchInv, Unopened, Select, AskPermissions, OpenSession
  <2>2. ~(evtid > first)
    BY <2>1
  <2>3. lag' = lag
    BY <1>2 DEF Select, AskPermissions, OpenSession, dropped
  <2>4. QED
    BY <2>2, <2>3, Zenon DEF LagInv
<1>3. CASE ParseEvent
  <2>1. (lag' => lag) /\ evtid' = evtid + 1 /\ first' = first
    BY <1>3, Zenon DEF ParseEvent
  <2>2. (evtid > first) => (evtid' > first')
    BY <1>1, <2>1
  <2>3. QED
    BY <2>1, <2>2, Zenon DEF LagInv
<1>4. CASE SendRefused
  <2>1. cmds # <<>> /\ cmds' = Tail(cmds) /\ evtid' = evtid /\ first' = first
    BY <1>4 DEF SendRefused
  <2>2. Head(cmds) = cmds[1] /\ 1 \in 1..Len(cmds)
    BY <2>1, Rest
  <2>3. CASE license < 0
    <3>1. Head(cmds).name \in {"msg", "exit"}
      BY <1>0, <2>2, <2>3 DEF LicenseInv
    <3>2. Head(cmds).name \notin {"data", "reset"}
      BY <3>1
    <3>3. lag' = (lag \/ Head(cmds).name \in {"data", "reset"})
      BY <1>4, Zenon DEF SendRefused
    <3>4. lag' => lag
      BY <3>2, <3>3, Zenon
    <3>5. QED
      BY <2>1, <3>4, Zenon DEF LagInv
  <2>4. CASE license >= 0
    <3>1. cmds[1].id \in first + 1..evtid
      BY <1>0, <2>2, <2>4 DEF OrderInv
    <3>2. evtid' > first'
      BY <1>1, <2>1, <3>1
    <3>3. QED
      BY <3>2, Zenon DEF LagInv
  <2>5. QED
    BY <1>1, <2>3, <2>4
<1>5. CASE UNCHANGED vars \/ OperatorEvent \/ Refused \/ Fetch \/ SendNext \/ MainThread
  <2>1. UNCHANGED <<evtid, first, lag>>
    BY <1>5 DEF vars, ajax, dropped, OperatorEvent, Refused, Fetch, SendNext, MainThread,
                ServeServer, ServeLocal, Compose, PutOk, PutFails
  <2>2. QED
    BY <2>1, Zenon DEF LagInv
<1>6. QED
  BY <1>2, <1>3, <1>4, <1>5 DEF Next, ServerThread

LEMMA NextMarks == MarksSent /\ TypeOK /\ EventInv /\ MarksInv /\ [Next]_vars => MarksInv'
<1> SUFFICES ASSUME MarksSent, TypeOK, EventInv, MarksInv, [Next]_vars PROVE MarksInv'
  OBVIOUS
<1>1. CASE UNCHANGED vars
  <2>1. UNCHANGED <<status, log, srv, url, nlocal, mpc, behind, evtid, first>>
    BY <1>1 DEF vars, server, ajax, main
  <2>2. Undisturbed' => Undisturbed
    BY <2>1 DEF Undisturbed
  <2>3. QED
    BY <2>1, <2>2, MarksKept
<1>2. CASE Next
  BY <1>2, LinkMarks, LocalMarks, PutMarks DEF Next, MainThread
<1>3. QED
  BY <1>1, <1>2

LEMMA ScoresAlways == ASSUME MarksSent PROVE Spec => []ScoreInv
<1>1. TypeOK /\ EventInv /\ ScoreInv /\ [Next]_vars => ScoreInv'
  BY MarksSent, NextOperator, NextCut, NextLag, NextMarks DEF ScoreInv, MarksInv
<1>2. QED
  BY <1>1, InitScores, EventsAlways, PTL DEF Spec

(* Caught up with the server, the program shows the server's score, if only*)
(* one side marks, the marks are of the kind that MarksSent asks for, and  *)
(* no refused command has left the status behind: one that did makes up for*)
(* it with the next event that says the whole score (ajax_put_event(),     *)
(* ajax_curl.c; parse_events(), ajax_json.c; the loop over the commands,   *)
(* ajax_mgr.c).                                                            *)
THEOREM ScoresAgree == ASSUME MarksSent PROVE Spec => []ScoreAgrees
<1>1. TypeOK /\ EventInv /\ ScoreInv => ScoreAgrees
  <2> SUFFICES ASSUME TypeOK, EventInv, ScoreInv, Quiet, license = 0,
                      (nlocal = 0 /\ alone /\ ~lag) \/ (OnlyLocal /\ ~behind)
               PROVE  SameScore
    BY Zenon DEF ScoreAgrees
  <2>0. /\ BatchInv /\ LinkTypes /\ ServerTypes /\ MainTypes
        /\ OperatorInv /\ CutInv /\ LagInv /\ ReachedInv /\ LastInv
    BY TypeParts DEF EventInv, ScoreInv
  <2>1. /\ evtid = Len(log) /\ batch = <<>> /\ cmds = <<>>
        /\ first \in Nat /\ Len(log) \in Nat /\ first <= Len(log)
    BY <2>0 DEF Quiet, BatchInv, LinkTypes, ServerTypes
  <2>2. CASE nlocal = 0 /\ alone /\ ~lag
    <3>1. PICK sc : History(sc) /\ Followed(sc)
      BY <2>0, <2>2, Zenon DEF OperatorInv
    <3>2. sc[Len(log)] = srv
      BY <3>1 DEF History
    <3>3. Agree(status, sc[evtid])
      BY <2>1, <2>2, <3>1, Zenon DEF Followed
    <3>4. Agree(status, srv)
      BY <2>1, <3>2, <3>3
    <3>5. QED
      BY <3>4 DEF Agree, SameScore
  <2>3. CASE nlocal = 0 /\ (~alone \/ lag)
    <3>1. evtid + Len(batch) > first \/ evtid > first
      BY <2>0, <2>3, Zenon DEF CutInv, LagInv
    <3>2. Len(log) \in 1..Len(log) /\ Len(log) > first
      BY <2>1, <3>1
    <3>3. log[Len(log)].own
      <4>1. OnlyLocal
        BY <2>3, Zenon
      <4>2. QED
        BY <3>2, <4>1 DEF OnlyLocal
    <3>4. log[Len(log)] \in OperatorEvents
      BY <2>0, <2>3, <3>2 DEF OperatorInv
    <3>5. QED
      BY <3>3, <3>4, BridgeAssumption
  <2>4. CASE nlocal # 0 /\ OnlyLocal /\ ~behind
    <3>1. nlocal > 0
      BY <2>0, <2>4, BridgeAssumption DEF MainTypes
    <3>2. PICK i \in 1..Len(log) : log[i].own
      BY <2>0, <2>4, <3>1, Zenon DEF ReachedInv
    <3>3. i > first
      BY <2>4, <3>2 DEF OnlyLocal
    <3>4. Len(log) > 0 /\ Len(log) \in 1..Len(log) /\ Len(log) > first
      BY <2>1, <3>2, <3>3
    <3>5. log[Len(log)].own
      BY <2>4, <3>4 DEF OnlyLocal
    <3>6. Undisturbed
      <4>1. \A k \in first + 1..evtid : k \in 1..Len(log) /\ k > first
        BY <2>1
      <4>2. QED
        BY <2>4, <4>1 DEF OnlyLocal, Undisturbed
    <3>7. Marks(status) = srv
      BY <2>0, <2>4, <3>1, <3>4, <3>5, <3>6, Zenon DEF LastInv
    <3>8. QED
      BY <3>7 DEF Marks, SameScore, ShownFaults
  <2>5. QED
    BY <2>2, <2>3, <2>4, Zenon
<1>2. QED
  BY <1>1, ScoresAlways, EventsAlways, PTL
=============================================================================
