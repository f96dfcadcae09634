----------------------------- MODULE AjaxBridge -----------------------------
(***************************************************************************)
(* The link with the AgilityContest server: the server thread              *)
(* (src/src/ajax_mgr.c) polls for events and turns a batch of them into    *)
(* commands (ajax_json.c), which it sends to the main thread one by one;   *)
(* the main thread executes these and the local commands, and its server   *)
(* handlers put the local ones as events (ajax_curl.c).                    *)
(*                                                                         *)
(* The server is external: a log of events and the score they leave.  An   *)
(* event carries four counters, Keep for the ones it leaves as they are.   *)
(* Abstracted: the other managers, the texts of URLs and JSON, the crono_  *)
(* events that lead to the same commands (crono_dat is datos here), times  *)
(* and the other fields of the status.  Reading or writing the status for  *)
(* one event is one step.                                                  *)
(***************************************************************************)
EXTENDS ChronoStatus, Sequences, FiniteSets

CONSTANTS
  OperatorEvents,  \* events the server's operators may cause
  LocalCommands,   \* commands of the other managers
  MaxEvents,       \* bound on the server's log
  MaxLocal,        \* bound on the number of local commands
  MaxBatch         \* how many events one answer of the server may hold

Keep == -1
EventType == {"init", "open", "llamada", "datos", "crono_reset", "start", "close"}
Event == [type : EventType, own : BOOLEAN, flt : Int, toc : Int, reh : Int, eli : Int]
Score == [flt : Int, toc : Int, reh : Int, eli : Int]
Local == [name : {"fault", "refusal", "elim", "data", "reset"}, arg : Arg]

ASSUME BridgeAssumption ==
  /\ OperatorEvents \subseteq {e \in Event : ~e.own}
  /\ LocalCommands \subseteq Local
  /\ MaxEvents \in Nat /\ MaxLocal \in Nat /\ MaxBatch \in Nat \ {0}

VARIABLES
  status,     \* config->status
  log,        \* server: events of this ring, oldest first
  srv,        \* server: the score that the events leave
  session,    \* status.sessionID is known
  license,    \* license_options: 0 accepted, -1 refused, -2 refusal shown
  apc,        \* where the server thread is
  evtid,      \* the server thread's evtid
  batch,      \* events of the last answer that are still to be parsed
  cmds,       \* commands still to be sent, each with the id of its event
  mpc,        \* where the main thread is
  url,        \* the event that ajax_put_event() has composed
  nlocal,     \* number of local commands
  behind,     \* history: the last local command did not reach the server
  first,      \* history: evtid when the session was opened
  executed,   \* history: ids of the events whose commands were executed
  alone,      \* history: no answer held more than one event
  refused,    \* history: ids of the events whose commands were refused
  lag         \* history: a refused command left the marks behind those of the log

server   == <<log, srv>>
dropped  == <<refused, lag>>
ajax     == <<session, license, apc, evtid, batch, cmds, first, alone, dropped>>
main     == <<mpc, url, nlocal, behind, executed>>
vars     == <<status, server, ajax, main>>

CmdOf(n, a) == [name |-> n, arg |-> a]
NoCommand   == CmdOf("none", NoArg)

TypeOK ==
  /\ status \in Status
  /\ log \in Seq(Event) /\ srv \in Score
  /\ session \in BOOLEAN
  /\ license \in {0, -1, -2}
  /\ apc \in {"select", "perms", "connect", "poll", "parse", "send", "wait", "ended"}
  /\ evtid \in 0..Len(log) /\ first \in 0..evtid
  /\ batch \in Seq(Event) /\ evtid + Len(batch) <= Len(log)
  /\ cmds \in Seq([name : CmdName, arg : Arg, id : Nat])
  /\ apc = "wait" => cmds # <<>>
  /\ mpc \in {"idle", "fan", "put", "done"}
  /\ url \in Event
  /\ nlocal \in 0..MaxLocal
  /\ behind \in BOOLEAN
  /\ executed \in Seq(Nat)
  /\ alone \in BOOLEAN
  /\ refused \subseteq Nat
  /\ lag \in BOOLEAN

Zero == [flt |-> 0, toc |-> 0, reh |-> 0, eli |-> 0]
Complete(t, o, s) ==
  [type |-> t, own |-> o, flt |-> s.flt, toc |-> s.toc, reh |-> s.reh, eli |-> s.eli]

Init ==
  /\ status = DefaultStatus
  /\ log = <<>> /\ srv = Zero
  /\ session = FALSE /\ license = 0
  /\ apc = "select" /\ evtid = 0 /\ first = 0 /\ batch = <<>> /\ cmds = <<>>
  /\ mpc = "idle" /\ url = Complete("datos", TRUE, Zero)
  /\ nlocal = 0 /\ behind = FALSE /\ executed = <<>> /\ alone = TRUE
  /\ refused = {} /\ lag = FALSE

-----------------------------------------------------------------------------
(* The server.                                                             *)

Or(x, old) == IF x = Keep THEN old ELSE x

ServerScore(s, e) ==
  CASE e.type \in {"init", "open", "crono_reset"} -> Zero
    [] e.type \in {"llamada", "datos"} ->
         [flt |-> Or(e.flt, s.flt), toc |-> Or(e.toc, s.toc),
          reh |-> Or(e.reh, s.reh), eli |-> Or(e.eli, s.eli)]
    [] OTHER -> s

Record(e) ==
  /\ log' = Append(log, e)
  /\ srv' = ServerScore(srv, e)

OperatorEvent ==
  /\ mpc # "done" /\ Len(log) < MaxEvents
  /\ \E e \in OperatorEvents : Record(e)
  /\ UNCHANGED <<status, ajax, main>>

-----------------------------------------------------------------------------
(* process_eventData(): what an event writes into the status at once, and  *)
(* the command made from it and from the status as it is then.             *)

EventWrites(s, e) ==
  CASE e.type \in {"init", "open"} -> [NoMarks(s) EXCEPT !.numero = 0, !.dorsal = 0]
    [] e.type = "llamada" ->
         [s EXCEPT !.dorsal = 1,
                   !.faults = Or(e.flt, @), !.touchs = Or(e.toc, @),
                   !.refusals = Or(e.reh, @), !.eliminated = Or(e.eli, @),
                   !.notpresent = IF e.flt = Keep THEN @ ELSE 0]
    [] OTHER -> s

(* mutant of EventCommand: the touches are left to the stored ones *)
EventCommand_NoTouchs(s, e) ==
  CASE e.type = "datos" ->
         CmdOf("data", FRE(Or(e.flt, s.faults), Or(e.reh, s.refusals), Or(e.eli, s.eliminated)))
    [] e.type = "llamada"     -> CmdOf("turn", Num(1))
    [] e.type = "start"       -> CmdOf("start", Num(0))
    [] e.type = "crono_reset" -> CmdOf("reset", NoArg)
    [] OTHER                  -> NoCommand

EventCommand(s, e) ==
  CASE e.type = "datos" ->
         CmdOf("data", FRE(Or(e.flt, s.faults) + Or(e.toc, s.touchs),
                           Or(e.reh, s.refusals), Or(e.eli, s.eliminated)))
    [] e.type = "llamada"     -> CmdOf("turn", Num(1))
    [] e.type = "start"       -> CmdOf("start", Num(0))
    [] e.type = "crono_reset" -> CmdOf("reset", NoArg)
    [] OTHER                  -> NoCommand

(* an event that says all there is to know of the score *)
Whole(e) ==
  /\ ~e.own
  /\ \/ e.type \in {"init", "open", "crono_reset"}
     \/ e.type \in {"llamada", "datos"} /\ Keep \notin {e.flt, e.toc, e.reh, e.eli}

-----------------------------------------------------------------------------
(* The server thread.                                                      *)

(* ajax_connect_server(): without a session the thread ends *)
Select ==
  /\ mpc # "done" /\ apc = "select"
  /\ \/ session' = TRUE /\ apc' = "perms"
     \/ session' = session /\ apc' = "ended"
  /\ UNCHANGED <<status, server, license, evtid, batch, cmds, first, alone, dropped, main>>

(* ajax_get_permissions(): -1, the result of a failed query, has the bit *)
(* that is asked for, and counts as permission                            *)
AskPermissions ==
  /\ mpc # "done" /\ apc = "perms"
  /\ license' \in {0, -1}
  /\ apc' = "connect"
  /\ UNCHANGED <<status, server, session, evtid, batch, cmds, first, alone, dropped, main>>

(* ajax_open_session(): the last init event; none yet, ask again *)
OpenSession ==
  /\ mpc # "done" /\ apc = "connect"
  /\ \/ \E i \in 1..Len(log) :
          /\ log[i].type = "init"
          /\ \A j \in i + 1..Len(log) : log[j].type # "init"
          /\ evtid' = i /\ first' = i /\ apc' = "poll"
     \/ apc' = "ended" /\ UNCHANGED <<evtid, first>>
  /\ UNCHANGED <<status, server, session, license, batch, cmds, alone, dropped, main>>

(* mutant of Refused: the refusal is announced for ever *)
Refused_Again ==
  /\ mpc # "done" /\ apc = "poll" /\ license < 0
  /\ cmds' = <<[name |-> IF license = -1 THEN "msg" ELSE "exit", arg |-> NoArg, id |-> 0]>>
  /\ apc' = "send"
  /\ UNCHANGED <<status, server, session, license, evtid, batch, first, alone, dropped, main>>

(* no chronometer licence on the server: a message, then a forced exit *)
Refused ==
  /\ mpc # "done" /\ apc = "poll" /\ license < 0
  /\ cmds' = <<[name |-> IF license = -1 THEN "msg" ELSE "exit", arg |-> NoArg, id |-> 0]>>
  /\ license' = -2
  /\ apc' = "send"
  /\ UNCHANGED <<status, server, session, evtid, batch, first, alone, dropped, main>>

(* ajax_wait_for_events(): some of the events after evtid.  A failed query *)
(* or an empty answer changes nothing.                                     *)
Fetch ==
  /\ mpc # "done" /\ apc = "poll" /\ license >= 0
  /\ \E n \in 1..MaxBatch :
       /\ evtid + n <= Len(log)
       /\ batch' = SubSeq(log, evtid + 1, evtid + n)
  /\ alone' = (alone /\ Len(batch') = 1)
  /\ apc' = "parse"
  /\ UNCHANGED <<status, server, session, license, evtid, cmds, first, dropped, main>>

(* mutant of ParseEvent: own events do not advance evtid *)
ParseEvent_SkipOwn ==
  /\ mpc # "done" /\ apc = "parse" /\ batch # <<>>
  /\ LET e == Head(batch) IN
       IF e.own THEN UNCHANGED <<evtid, status, cmds>>
       ELSE /\ evtid' = evtid + 1
            /\ status' = EventWrites(status, e)
            /\ LET c == EventCommand(status, e) IN
                 cmds' = IF c = NoCommand THEN cmds
                         ELSE Append(cmds, [name |-> c.name, arg |-> c.arg, id |-> evtid'])
  /\ batch' = Tail(batch)
  /\ lag' = (lag /\ ~Whole(Head(batch)))
  /\ apc' = IF batch' = <<>> THEN "send" ELSE "parse"
  /\ UNCHANGED <<server, session, license, first, alone, refused, main>>

(* one event of parse_events(); the program's own events are ignored *)
ParseEvent ==
  /\ mpc # "done" /\ apc = "parse" /\ batch # <<>>
  /\ evtid' = evtid + 1
  /\ LET e == Head(batch) IN
       IF e.own THEN UNCHANGED <<status, cmds>>
       ELSE /\ status' = EventWrites(status, e)
            /\ LET c == EventCommand(status, e) IN
                 cmds' = IF c = NoCommand THEN cmds
                         ELSE Append(cmds, [name |-> c.name, arg |-> c.arg, id |-> evtid'])
  /\ batch' = Tail(batch)
  /\ lag' = (lag /\ ~Whole(Head(batch)))
  /\ apc' = IF batch' = <<>> THEN "send" ELSE "parse"
  /\ UNCHANGED <<server, session, license, first, alone, refused, main>>

(* mutant of SendNext: the end of the list is tested after sending *)
SendNext_TestAfter ==
  /\ mpc # "done" /\ apc = "send"
  /\ apc' = "wait"
  /\ UNCHANGED <<status, server, session, license, evtid, batch, cmds, first, alone, dropped, main>>

(* send() of the next command and recv(), or the next poll *)
SendNext ==
  /\ mpc # "done" /\ apc = "send"
  /\ apc' = IF cmds = <<>> THEN "poll" ELSE "wait"
  /\ UNCHANGED <<status, server, session, license, evtid, batch, cmds, first, alone, dropped, main>>

(* mutant of SendRefused: a failure ends the loop over the commands *)
SendRefused_All ==
  /\ mpc # "done" /\ apc = "send" /\ cmds # <<>>
  /\ refused' = refused \cup ({Head(cmds).id} \ {0})
  /\ lag' = (lag \/ Head(cmds).name \in {"data", "reset"})
  /\ cmds' = <<>>
  /\ UNCHANGED <<status, server, session, license, apc, evtid, batch, first, alone, main>>

(* send() fails, or recv() does because the datagram was refused: the loop *)
(* goes on with the next command, and evtid has passed the event           *)
SendRefused ==
  /\ mpc # "done" /\ apc = "send" /\ cmds # <<>>
  /\ refused' = refused \cup ({Head(cmds).id} \ {0})
  /\ lag' = (lag \/ Head(cmds).name \in {"data", "reset"})
  /\ cmds' = Tail(cmds)
  /\ UNCHANGED <<status, server, session, license, apc, evtid, batch, first, alone, main>>

-----------------------------------------------------------------------------
(* The main thread.                                                        *)

(* a command of the server thread: its own handlers do not put it back *)
ServeServer ==
  /\ mpc = "idle" /\ apc = "wait"
  /\ LET c == Head(cmds) IN
       /\ status' = IF MainAccepts(status, c.name, c.arg)
                    THEN MainApply(status, c.name, c.arg) ELSE status
       /\ executed' = IF c.id = 0 THEN executed ELSE Append(executed, c.id)
       /\ mpc' = IF c.name = "exit" THEN "done" ELSE "idle"
  /\ cmds' = Tail(cmds)
  /\ apc' = "send"
  /\ UNCHANGED <<server, session, license, evtid, batch, first, alone, dropped, url, nlocal, behind>>

(* a command of another manager *)
ServeLocal ==
  /\ mpc = "idle" /\ nlocal < MaxLocal
  /\ \E c \in LocalCommands :
       /\ MainAccepts(status, c.name, c.arg)
       /\ status' = MainApply(status, c.name, c.arg)
       /\ url' = [url EXCEPT !.type = IF c.name = "reset" THEN "crono_reset" ELSE "datos"]
  /\ nlocal' = nlocal + 1
  /\ mpc' = "fan" /\ behind' = TRUE
  /\ UNCHANGED <<server, ajax, executed>>

(* ajax_put_event() writes the status, as it finds it, into the URL *)
Compose ==
  /\ mpc = "fan"
  /\ url' = Complete(url.type, TRUE, [flt |-> status.faults, toc |-> status.touchs,
                                      reh |-> status.refusals, eli |-> status.eliminated])
  /\ mpc' = "put"
  /\ UNCHANGED <<status, server, ajax, nlocal, behind, executed>>

(* the server takes the event, unless the session is not known yet *)
PutOk ==
  /\ mpc = "put" /\ Len(log) < MaxEvents
  /\ IF session THEN Record(url) /\ behind' = FALSE
     ELSE UNCHANGED <<server, behind>>
  /\ mpc' = "idle"
  /\ UNCHANGED <<status, ajax, url, nlocal, executed>>

PutFails ==
  /\ mpc = "put"
  /\ mpc' = "idle"
  /\ UNCHANGED <<status, server, ajax, url, nlocal, behind, executed>>

ServerThread == Select \/ AskPermissions \/ OpenSession \/ Refused \/ Fetch \/ ParseEvent
                \/ SendNext \/ SendRefused
MainThread   == ServeServer \/ ServeLocal \/ Compose \/ PutOk \/ PutFails

Next == OperatorEvent \/ ServerThread \/ MainThread

Spec == Init /\ [][Next]_vars

(* Both threads run; of the server's answers some get through, and of the  *)
(* commands sent again and again some arrive.  Nothing obliges a user or an*)
(* operator to act.                                                        *)
FairSpec ==
  /\ Spec
  /\ WF_vars(ServerThread) /\ SF_vars(SendNext /\ cmds # <<>>)
  /\ WF_vars(ServeServer) /\ WF_vars(Compose \/ PutOk \/ PutFails)

-----------------------------------------------------------------------------
(* Properties.                                                             *)

(* The thread has turned every event of the log into commands and these    *)
(* have been executed; no command is being executed.                       *)
Quiet == apc = "poll" /\ evtid = Len(log) /\ mpc = "idle"

OnlyLocal == \A i \in 1..Len(log) : log[i].own <=> i > first

SameScore ==
  /\ ShownFaults(status) = srv.flt + srv.toc
  /\ status.refusals = srv.reh
  /\ status.eliminated = srv.eli

(* The score that this program shows is the server's, once it has caught   *)
(* up, if only one side marks: all marks are the operators' and come one at*)
(* a time, or all since the session was opened are local ones and the last *)
(* one reached the server.  Own events that come back and queries that fail*)
(* do not spoil it; a refused command with marks does, until the next event*)
(* that says them all.                                                     *)
ScoreAgrees ==
  /\ Quiet /\ license = 0
  /\ (nlocal = 0 /\ alone /\ ~lag) \/ (OnlyLocal /\ ~behind)
  => SameScore

(* The commands of the server's events are executed in the order of the log*)
(* and none twice, whatever queries fail and however the log is cut into   *)
(* answers.  Every event that asks for a command has it executed, or       *)
(* refused by the local socket and then never; the program's own events    *)
(* have neither.                                                           *)
EventsOnce ==
  LET done == {executed[i] : i \in 1..Len(executed)} IN
  /\ \A i, j \in 1..Len(executed) : i < j => executed[i] < executed[j]
  /\ done \cap refused = {}
  /\ Quiet => done \cup refused =
       {k \in first + 1..evtid : ~log[k].own /\ EventCommand(status, log[k]) # NoCommand}

(* The thread gets to every event of the server, own ones in between or    *)
(* not, unless it gave up or the program was ended for want of a licence.  *)
EventsReachHub ==
  \A k \in 1..MaxEvents :
    (Len(log) >= k /\ apc = "poll" /\ license = 0) ~> (evtid >= k \/ mpc = "done")

(* A server without a chronometer licence makes the program end, although  *)
(* the message or the exit may be refused: the exit is sent again.         *)
UnlicensedExits == (apc = "poll" /\ license < 0) ~> mpc = "done"
=============================================================================
