----------------------------- MODULE CommandBus -----------------------------
(***************************************************************************)
(* The command bus of src/src/main.c: the main thread starts the manager   *)
(* threads, binds a UDP socket and then serves one command at a time.      *)
(* Each manager is a client: it sends a datagram "source command [arg]"    *)
(* and blocks in recv() for the answer.  The main thread applies the       *)
(* command to the shared status (ChronoStatus) and then calls, slot by     *)
(* slot, the handler that every manager published in its slot.             *)
(*                                                                         *)
(* Abstracted: the text of commands (a record), printing and logging, the  *)
(* devices behind the handlers (a handler that talks to one may succeed or *)
(* fail), the status values other threads write directly.                  *)
(***************************************************************************)
EXTENDS ChronoStatus, Sequences

CONSTANTS
  Configured,   \* the managers the configuration asks for
  Networked,    \* TRUE: slot 1 runs network_manager_thread, FALSE: serial_manager_thread
  Sends,        \* Sends[m]: the commands that manager m's user or device may issue
  MaxRequests   \* bound on the number of commands issued

Manager == {"console", "chrono", "web", "ajax", "qrcode"}

(* sc_threads[]: which manager main() starts in which slot *)
SlotName == [n \in 0..4 |-> CASE n = 0 -> "console"
                              [] n = 1 -> "chrono"
                              [] n = 2 -> "web"
                              [] n = 3 -> "ajax"
                              [] n = 4 -> "qrcode"]

(* A datagram.  "short" has one token only, "empty" an empty command token,*)
(* "unknown" a name not in command_list; exit says that the text "exit"    *)
(* occurs somewhere in it.                                                 *)
Name    == CmdName \cup {"short", "empty", "unknown"}
Command == [name : Name, arg : Arg, exit : BOOLEAN]
Request == [src : Manager, name : Name, arg : Arg, exit : BOOLEAN]

ASSUME BusAssumption ==
  /\ Configured \subseteq Manager
  /\ Networked \in BOOLEAN
  /\ Sends \in [Manager -> SUBSET Command]
  /\ \A m \in Manager : \A c \in Sends[m] : c.name = "exit" => c.exit
  /\ MaxRequests \in Nat

VARIABLES
  status,     \* config->status
  idx,        \* idx[m]: sc_threads[slot].index >= 0
  entries,    \* entries[m]: sc_threads[slot].entries # NULL
  thr,        \* where the thread of each manager is
  line,       \* the console's request buffer: last line not empty, end of input met
  sock,       \* datagrams in the main thread's UDP socket
  mpc,        \* where the main thread is
  slot,       \* loop index over slots (creation and fan-out)
  cur,        \* the request in the main thread's hands
  tok2,       \* tokens[2], shared by the handlers of one request
  resp,       \* the answer to send
  alive,      \* threads found alive in this fan-out
  loop,       \* main()'s loop flag
  sent,       \* number of commands issued
  accepted,   \* history: number of commands main_mgr accepted
  due,        \* history: managers that must see the current command
  delivered   \* history: delivered[m], numbers of the commands m's handlers took

mainVars == <<mpc, slot, cur, tok2, resp, alive, loop>>
history  == <<accepted, due, delivered>>
vars == <<status, idx, entries, thr, line, sock, mainVars, sent, history>>

Phase == {"none", "created", "init", "loaded", "loop", "wait", "ended"}

TypeOK ==
  /\ status \in Status
  /\ idx \in [Manager -> BOOLEAN]
  /\ entries \in [Manager -> BOOLEAN]
  /\ thr \in [Manager -> Phase]
  /\ line \in [typed : BOOLEAN, eof : BOOLEAN]
  /\ sock \in Seq(Request)
  /\ mpc \in {"create", "recv", "fan", "reply", "done", "abort", "crash"}
  /\ slot \in 0..5
  /\ cur \in Request
  /\ tok2 \in Arg
  /\ resp \in {"OK", "ERROR", "main_mgr_ERROR"}
  /\ alive \in 0..4
  /\ mpc = "fan" => slot \in 0..4 /\ alive <= slot
  /\ loop \in BOOLEAN
  /\ sent \in 0..MaxRequests
  /\ accepted \in Nat
  /\ due \in SUBSET Manager
  /\ delivered \in [Manager -> Seq(Nat)]

Running == mpc \notin {"done", "abort", "crash"}

NoRequest == [src |-> "console", name |-> "empty", arg |-> NoArg, exit |-> FALSE]

Init ==
  /\ status = DefaultStatus
  /\ idx = [m \in Manager |-> FALSE]
  /\ entries = [m \in Manager |-> FALSE]
  /\ thr = [m \in Manager |-> "none"]
  /\ line = [typed |-> FALSE, eof |-> FALSE]
  /\ sock = <<>>
  /\ mpc = "create" /\ slot = 0
  /\ cur = NoRequest /\ tok2 = NoArg /\ resp = "OK"
  /\ alive = 0 /\ loop = TRUE
  /\ sent = 0 /\ accepted = 0 /\ due = {}
  /\ delivered = [m \in Manager |-> <<>>]

-----------------------------------------------------------------------------
(* Start-up.  sc_thread_create() publishes the slot index before the new   *)
(* thread runs; main() binds its socket after all threads are started.     *)

CreateThread ==
  /\ mpc = "create" /\ slot < 5
  /\ slot' = slot + 1
  /\ LET m == SlotName[slot] IN
       IF m \in Configured
       THEN /\ idx' = [idx EXCEPT ![m] = TRUE]
            /\ thr' = [thr EXCEPT ![m] = "created"]
       ELSE UNCHANGED <<idx, thr>>
  /\ UNCHANGED <<status, entries, line, sock, mpc, cur, tok2, resp, alive, loop, sent, history>>

BindSocket ==
  /\ mpc = "create" /\ slot = 5
  /\ mpc' \in {"recv", "abort"}
  /\ UNCHANGED <<status, idx, entries, thr, line, sock, slot, cur, tok2, resp,
                 alive, loop, sent, history>>

PublishEntries(m) ==
  /\ Running /\ thr[m] = "created"
  /\ entries' = [entries EXCEPT ![m] = TRUE]
  /\ thr' = [thr EXCEPT ![m] = "init"]
  /\ UNCHANGED <<status, idx, line, sock, mainVars, sent, history>>

(* dlopen() and dlsym() fill the module's entry points *)
LoadModule ==
  /\ Running /\ thr["chrono"] = "init"
  /\ thr' = [thr EXCEPT !["chrono"] = "loaded"]
  /\ UNCHANGED <<status, idx, entries, line, sock, mainVars, sent, history>>

EnterLoop(m) ==
  /\ Running
  /\ thr[m] = IF m = "chrono" THEN "loaded" ELSE "init"
  /\ thr' = [thr EXCEPT ![m] = "loop"]
  /\ idx' = [idx EXCEPT ![m] = TRUE]
  /\ UNCHANGED <<status, entries, line, sock, mainVars, sent, history>>

(* socket, module or device failure: the chronometer clears its slot index *)
ChronoInitFails ==
  /\ Running /\ thr["chrono"] \in {"init", "loaded"}
  /\ thr' = [thr EXCEPT !["chrono"] = "ended"]
  /\ idx' = [idx EXCEPT !["chrono"] = FALSE]
  /\ UNCHANGED <<status, entries, line, sock, mainVars, sent, history>>

(* socket, queue, reader or server failure: the others just return *)
InitFails(m) ==
  /\ Running /\ m # "chrono" /\ thr[m] = "init"
  /\ thr' = [thr EXCEPT ![m] = "ended"]
  /\ UNCHANGED <<status, idx, entries, line, sock, mainVars, sent, history>>

-----------------------------------------------------------------------------
(* Managers.                                                               *)

(* A console line stays in the request buffer after it was sent. *)
KeepLine(m) == IF m = "console" THEN [line EXCEPT !.typed = TRUE] ELSE line

(* mutant of SendRequest: send without waiting for the answer *)
SendRequest_NoWait(m) ==
  /\ Running /\ mpc # "create"
  /\ thr[m] = "loop" /\ sent < MaxRequests
  /\ m = "console" => ~line.eof
  /\ \E c \in Sends[m] :
       sock' = Append(sock, [src |-> m, name |-> c.name, arg |-> c.arg, exit |-> c.exit])
  /\ line' = KeepLine(m)
  /\ sent' = sent + 1
  /\ UNCHANGED <<status, idx, entries, thr, mainVars, history>>

(* send() and then recv(); an end of input met before spoils the prefix of *)
(* the console's buffer for good                                           *)
SendRequest(m) ==
  /\ Running /\ mpc # "create"
  /\ thr[m] = "loop" /\ sent < MaxRequests
  /\ m = "console" => ~line.eof
  /\ \E c \in Sends[m] :
       sock' = Append(sock, [src |-> m, name |-> c.name, arg |-> c.arg, exit |-> c.exit])
  /\ line' = KeepLine(m)
  /\ thr' = [thr EXCEPT ![m] = "wait"]
  /\ sent' = sent + 1
  /\ UNCHANGED <<status, idx, entries, mainVars, history>>

(* Nobody has bound the port yet: recv() fails with "connection refused".  *)
(* Console and qrcode leave their loop, the others drop the command.       *)
SendRefused(m) ==
  /\ mpc = "create" /\ thr[m] = "loop" /\ sent < MaxRequests
  /\ m = "console" => ~line.eof
  /\ Sends[m] # {}
  /\ line' = KeepLine(m)
  /\ IF m \in {"console", "qrcode"}
     THEN /\ thr' = [thr EXCEPT ![m] = "ended"]
          /\ idx' = [idx EXCEPT ![m] = FALSE]
     ELSE UNCHANGED <<thr, idx>>
  /\ sent' = sent + 1
  /\ UNCHANGED <<status, entries, sock, mainVars, history>>

(* fgets() meets the end of input: the buffer becomes "exit", without the  *)
(* source prefix, and is sent only if the previous line is still there     *)
ConsoleEof ==
  /\ Running /\ thr["console"] = "loop"
  /\ line' = [line EXCEPT !.eof = TRUE]
  /\ IF line.typed
     THEN /\ sock' = Append(sock, [src |-> "console", name |-> "short",
                                   arg |-> NoArg, exit |-> TRUE])
          /\ thr' = [thr EXCEPT !["console"] = "wait"]
     ELSE UNCHANGED <<sock, thr>>
  /\ UNCHANGED <<status, idx, entries, mainVars, sent, history>>

(* an empty console line is not sent, but it empties the buffer *)
ConsoleEmptyLine ==
  /\ Running /\ thr["console"] = "loop" /\ ~line.eof
  /\ line' = [line EXCEPT !.typed = FALSE]
  /\ UNCHANGED <<status, idx, entries, thr, sock, mainVars, sent, history>>

(* the reader's port fails, or the code read has no dorsal in it *)
QrReadFails ==
  /\ Running /\ thr["qrcode"] = "loop"
  /\ thr' = [thr EXCEPT !["qrcode"] = "ended"]
  /\ idx' = [idx EXCEPT !["qrcode"] = FALSE]
  /\ UNCHANGED <<status, entries, line, sock, mainVars, sent, history>>

-----------------------------------------------------------------------------
(* The handlers, entries[] of each manager.                                *)

Common == {"start", "int", "stop", "fail", "ok", "msg", "walk", "down", "reset", "turn", "exit"}
Score  == {"fault", "refusal", "elim", "data"}

ConsoleEntries == CmdName
SerialEntries  == Common \cup Score \cup {"bright", "clock"}
NetworkEntries == SerialEntries \cup {"config", "status"}
WebEntries     == Common \cup {"bright"}
AjaxEntries    == Common \cup Score
QrcodeEntries  == {"exit"}

Entries(m) == CASE m = "console" -> ConsoleEntries
                [] m = "chrono"  -> IF Networked THEN NetworkEntries ELSE SerialEntries
                [] m = "web"     -> WebEntries
                [] m = "ajax"    -> AjaxEntries
                [] OTHER         -> QrcodeEntries

(* the exit handlers of these managers report an error, on purpose *)
ExitRefused(m, src) ==
  \/ m \in {"web", "ajax"}
  \/ m = "chrono" /\ src # "chrono"

(* The handler passes the command on to its device, display or server: it  *)
(* is not the manager's own command coming back, nor one it only logs.     *)
Forwards(m, name, src) ==
  /\ name \in Entries(m)
  /\ m # "console" => m # src /\ name # "exit"
  /\ m = "chrono" => name \notin {"fail", "ok"}

(* argument that serial_mgr/net_mgr store in the shared tokens when absent *)
DefaultArg(name) ==
  CASE name \in {"fault", "refusal", "elim", "turn", "bright"} -> Plus
    [] name = "start" -> Num(0)
    [] name = "walk"  -> Num(420)
    [] name = "down"  -> Num(15)
    [] OTHER          -> NoArg

(* a NULL module_write, or atoi(NULL) in ajax_mgr_turn *)
HandlerCrashes(m) ==
  \/ m = "chrono" /\ thr[m] = "init"
  \/ m = "ajax" /\ cur.name = "turn" /\ tok2.kind = "none"

Active(m) == idx[m] /\ entries[m]

-----------------------------------------------------------------------------
(* The main loop.                                                          *)

(* recvfrom(), tokenising, command lookup and the main_mgr handler.  The   *)
(* lookup of an unknown name reads command_list[-1].index: a negative value*)
(* fails the request; otherwise main_mgr_entries[-1] is called if it is not*)
(* NULL, and the fan-out finds no handler if it is.  main_mgr_data()       *)
(* dereferences the ':' it looks for in its argument.                      *)
Receive ==
  /\ mpc = "recv" /\ sock # <<>>
  /\ LET c == Head(sock) IN
       /\ cur' = c
       /\ tok2' = c.arg
       /\ \/ /\ c.name \in {"short", "unknown"}
             /\ resp' = "ERROR" /\ mpc' = "reply" /\ due' = {}
             /\ UNCHANGED <<status, accepted>>
          \/ /\ c.name = "empty"
             /\ resp' = "OK" /\ mpc' = "reply" /\ due' = {}
             /\ UNCHANGED <<status, accepted>>
          \/ /\ c.name = "unknown" \/ (c.name = "data" /\ c.arg.kind \notin {"none", "fre"})
             /\ mpc' = "crash" /\ due' = {}
             /\ UNCHANGED <<status, accepted, resp>>
          \/ /\ c.name \in CmdName /\ ~MainAccepts(status, c.name, c.arg)
             /\ resp' = "main_mgr_ERROR" /\ mpc' = "reply" /\ due' = {}
             /\ UNCHANGED <<status, accepted>>
          \/ /\ \/ c.name = "unknown"
                \/ /\ c.name \in CmdName /\ MainAccepts(status, c.name, c.arg)
                   /\ c.name = "data" => c.arg.kind = "fre"
             /\ status' = MainApply(status, c.name, c.arg)
             /\ resp' = "OK" /\ mpc' = "fan"
             /\ accepted' = accepted + 1
             /\ due' = {m \in Manager \ {"qrcode"} : Active(m) /\ Forwards(m, c.name, c.src)}
  /\ sock' = Tail(sock)
  /\ slot' = 0 /\ alive' = 0
  /\ UNCHANGED <<idx, entries, thr, line, loop, sent, delivered>>

(* mutant of FanOut: the server's handler is tried again when it fails *)
FanOut_Retry ==
  /\ mpc = "fan" /\ slot < 4
  /\ LET m == SlotName[slot] IN
       IF Active(m) /\ Forwards(m, cur.name, cur.src)
       THEN /\ delivered' = [delivered EXCEPT ![m] = Append(@, accepted)]
            /\ \/ slot' = slot + 1 /\ alive' = alive + 1 /\ resp' = resp
               \/ m = "ajax" /\ resp = "OK" /\ UNCHANGED <<slot, alive>> /\ resp' = "ERROR"
       ELSE slot' = slot + 1 /\ UNCHANGED <<alive, resp, delivered>>
  /\ UNCHANGED <<mpc, tok2, status, idx, entries, thr, line, sock, cur, loop, sent,
                 accepted, due>>

(* mutant of FanOut: all five slots count as managers *)
FanOut_FiveSlots ==
  /\ mpc = "fan" /\ slot < 5
  /\ slot' = slot + 1
  /\ alive' = IF Active(SlotName[slot]) THEN alive + 1 ELSE alive
  /\ UNCHANGED <<mpc, tok2, resp, status, idx, entries, thr, line, sock, cur, loop, sent,
                 history>>

(* one iteration of the loop over slots 0..3 *)
FanOut ==
  /\ mpc = "fan" /\ slot < 4
  /\ LET m == SlotName[slot] IN
       \/ /\ ~Active(m)
          /\ slot' = slot + 1
          /\ UNCHANGED <<mpc, tok2, resp, alive, status, delivered>>
       \/ /\ Active(m) /\ ~Forwards(m, cur.name, cur.src)
          /\ resp' = IF cur.name = "exit" /\ ExitRefused(m, cur.src) THEN "ERROR" ELSE resp
          /\ slot' = slot + 1 /\ alive' = alive + 1
          /\ UNCHANGED <<mpc, tok2, status, delivered>>
       \/ /\ Active(m) /\ Forwards(m, cur.name, cur.src) /\ HandlerCrashes(m)
          /\ mpc' = "crash"
          /\ UNCHANGED <<slot, tok2, resp, alive, status, delivered>>
       \/ /\ Active(m) /\ Forwards(m, cur.name, cur.src) /\ ~HandlerCrashes(m)
          /\ tok2' = IF m = "chrono" /\ tok2.kind = "none" THEN DefaultArg(cur.name) ELSE tok2
          /\ status' = IF m = "ajax" /\ cur.name = "turn"
                       THEN [status EXCEPT !.dorsal = tok2.n] ELSE status
          /\ \/ resp' = resp
             \/ m \in {"chrono", "ajax"} /\ resp' = "ERROR"
          /\ delivered' = [delivered EXCEPT ![m] = Append(@, accepted)]
          /\ slot' = slot + 1 /\ alive' = alive + 1
          /\ UNCHANGED mpc
  /\ UNCHANGED <<idx, entries, thr, line, sock, cur, loop, sent, accepted, due>>

(* mutant of EndFanOut: an error of some manager keeps the program running *)
EndFanOut_ErrorVetoesExit ==
  /\ mpc = "fan" /\ slot = 4
  /\ loop' = (loop /\ alive # 0 /\ ~(cur.exit /\ resp = "OK"))
  /\ mpc' = "reply"
  /\ UNCHANGED <<status, idx, entries, thr, line, sock, slot, cur, tok2, resp,
                 alive, sent, history>>

(* mutant of EndFanOut: the slots are taken to be 0..2 *)
EndFanOut_OffByOne ==
  /\ mpc = "fan" /\ slot = 3
  /\ loop' = (loop /\ alive # 0 /\ ~cur.exit)
  /\ mpc' = "reply"
  /\ UNCHANGED <<status, idx, entries, thr, line, sock, slot, cur, tok2, resp,
                 alive, sent, history>>

(* no thread alive, or "exit" anywhere in the datagram, ends the loop *)
EndFanOut ==
  /\ mpc = "fan" /\ slot = 4
  /\ loop' = (loop /\ alive # 0 /\ ~cur.exit)
  /\ mpc' = "reply"
  /\ UNCHANGED <<status, idx, entries, thr, line, sock, slot, cur, tok2, resp,
                 alive, sent, history>>

(* mutant of Reply: an answer "ERROR" is not sent *)
Reply_OnlyOk ==
  /\ mpc = "reply"
  /\ thr' = IF resp = "OK" THEN [thr EXCEPT ![cur.src] = "loop"] ELSE thr
  /\ mpc' = IF loop THEN "recv" ELSE "done"
  /\ UNCHANGED <<status, idx, entries, line, sock, slot, cur, tok2, resp,
                 alive, loop, sent, history>>

(* sendto(); the client's recv() returns and it checks its slot index; when*)
(* the loop flag is down main() returns and the process ends               *)
Reply ==
  /\ mpc = "reply"
  /\ thr' = [thr EXCEPT ![cur.src] = IF idx[cur.src] THEN "loop" ELSE "ended"]
  /\ mpc' = IF loop THEN "recv" ELSE "done"
  /\ UNCHANGED <<status, idx, entries, line, sock, slot, cur, tok2, resp,
                 alive, loop, sent, history>>

Main == CreateThread \/ BindSocket \/ Receive \/ FanOut \/ EndFanOut \/ Reply

Starting(m) ==
  \/ PublishEntries(m) \/ EnterLoop(m) \/ InitFails(m)
  \/ m = "chrono" /\ (LoadModule \/ ChronoInitFails)

Next ==
  \/ Main
  \/ \E m \in Manager : Starting(m) \/ SendRequest(m) \/ SendRefused(m)
  \/ ConsoleEof \/ ConsoleEmptyLine \/ QrReadFails

Spec == Init /\ [][Next]_vars

(* The scheduler runs every thread that can run: the main thread, threads  *)
(* that are starting, and the console once its input is at an end.  Nothing*)
(* obliges a user, a device or a server to issue commands.                 *)
FairSpec ==
  /\ Spec
  /\ WF_vars(Main)
  /\ \A m \in Manager : WF_vars(Starting(m))
  /\ WF_vars(line.eof /\ ConsoleEof)

-----------------------------------------------------------------------------
(* Properties.                                                             *)

InHands == mpc \in {"fan", "reply"}

(* main()'s recvfrom()/sendto() pair against the managers' send()/recv():  *)
(* a manager blocked in recv() has exactly one request outstanding, in the *)
(* socket or in the main thread's hands, and whoever is about to be        *)
(* answered is waiting.  An answer is never left in a manager's socket to  *)
(* be taken for the answer to a later command.                             *)
RequestAccounting ==
  /\ \A i \in 1..Len(sock) : thr[sock[i].src] = "wait"
  /\ \A i, j \in 1..Len(sock) : sock[i].src = sock[j].src => i = j
  /\ InHands => /\ thr[cur.src] = "wait"
                /\ \A i \in 1..Len(sock) : sock[i].src # cur.src
  /\ Running => \A m \in Manager : thr[m] = "wait" =>
        \/ InHands /\ cur.src = m
        \/ \E i \in 1..Len(sock) : sock[i].src = m

(* The handlers of each manager get the commands main_mgr accepted in the  *)
(* order they were accepted, each one at most once, although its handlers fail, other *)
(* managers start or end meanwhile, and commands come from all sides.      *)
DeliveredInOrder ==
  \A m \in Manager :
    /\ \A i \in 1..Len(delivered[m]) : delivered[m][i] <= accepted
    /\ \A i, j \in 1..Len(delivered[m]) : i < j => delivered[m][i] < delivered[m][j]

(* When main() answers, every manager that was active with a handler for   *)
(* the command when it was accepted, and whose slot was not withdrawn in   *)
(* the meantime, has had its handler called, whatever the handlers before  *)
(* it returned.                                                            *)
FanOutComplete ==
  mpc = "reply" => \A m \in due : idx[m] =>
    /\ Len(delivered[m]) > 0
    /\ delivered[m][Len(delivered[m])] = accepted

(* A manager that waits for an answer gets one, or the program ends.       *)
EveryRequestAnswered ==
  \A m \in Manager : thr[m] = "wait" ~> (thr[m] # "wait" \/ ~Running)

(* An exit command in the socket ends the program, although the exit       *)
(* handlers of the web, server and chronometer managers report an error.   *)
ExitEndsProgram ==
  (\E i \in 1..Len(sock) : sock[i].name = "exit") ~> ~Running

(* "mark thread alive before entering loop" (serial_mgr.c) and "skip non   *)
(* active threads" (main.c): a handler is called only once its manager has *)
(* what the handler needs.                                                 *)
ReadyWhenDispatched == ~(mpc = "crash" /\ slot < 4 /\ SlotName[slot] = "chrono")
=============================================================================
