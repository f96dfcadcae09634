------------------------------- MODULE Digican -------------------------------
(***************************************************************************)
(* The digican module (src/src/modules/digican.c) between the thread of the*)
(* serial manager, which reads lines from the chronometer, and the main    *)
(* thread, whose handlers write to it.  The chronometer understands only   *)
(* steps of faults and refusals, so the module keeps a count of its own of *)
(* what it has sent.  Another writer of the status is the AgilityContest   *)
(* client, which sets the marks when a dog is called or a round is opened. *)
(*                                                                         *)
(* External: the chronometer and its panel.  Abstracted: times, and the    *)
(* texts other than where a line begins.                                   *)
(***************************************************************************)
EXTENDS ChronoStatus, Sequences

CONSTANTS
  Orders,    \* commands of other managers: records [name, arg]
  Calls,     \* marks of the dogs that are called: records [flt, toc, reh, eli]
  MaxOrders, \* bound on commands and calls
  MaxLines   \* bound on the lines the chronometer sends

SerialCmd == {"start", "int", "stop", "msg", "walk", "down", "fault", "refusal", "elim",
              "data", "reset", "turn", "bright", "clock"}
Order == [name : SerialCmd, arg : Arg]
Score == {"fault", "refusal", "elim", "data"}

(* what the chronometer sends, and the tail of a line that was cut *)
Line == {"START", "PARAR", "RESET", "INICI", "ELIMI", "tail"}

ASSUME DigicanAssumption ==
  /\ Orders \subseteq Order
  /\ Calls \subseteq [flt : Nat, toc : Nat, reh : Nat, eli : {0, 1}]
  /\ MaxOrders \in Nat /\ MaxLines \in Nat

VARIABLES
  status,   \* config->status
  digican,  \* digican_faltas and digican_rehuses
  panel,    \* external: what the chronometer shows
  wire,     \* lines sent by the chronometer and not yet read
  rpc, msg, \* serial thread: read or send, and the command it sends
  mpc, cmd, \* main thread: idle or handler, and the command of the handler
  orders, lines,  \* counters for the bounds
  apart,    \* history: the panel was reset, or missed a write, without the module knowing
  written   \* history: the last command about marks that was written, until the marks in
            \* the status change or the panel is cleared

vars == <<status, digican, panel, wire, rpc, msg, mpc, cmd, orders, lines, apart, written>>

Counts  == [faltas : Int, rehuses : Int]
NoOrder == [name |-> "int", arg |-> NoArg]
NoCounts == [faltas |-> 0, rehuses |-> 0]
Blank    == [faltas |-> 0, rehuses |-> 0, eliminado |-> 0]

TypeOK ==
  /\ status \in Status
  /\ digican \in Counts
  /\ panel \in [faltas : Nat, rehuses : Nat, eliminado : {0, 1}]
  /\ wire \in Seq(Line)
  /\ rpc \in {"read", "send"} /\ msg \in Order
  /\ mpc \in {"idle", "handler"} /\ cmd \in Order
  /\ orders \in 0..MaxOrders /\ lines \in 0..MaxLines
  /\ apart \in BOOLEAN
  /\ written \in Score \cup {"none"}

Init ==
  /\ status = DefaultStatus
  /\ digican = NoCounts
  /\ panel = Blank
  /\ wire = <<>>
  /\ rpc = "read" /\ msg = NoOrder
  /\ mpc = "idle" /\ cmd = NoOrder
  /\ orders = 0 /\ lines = 0
  /\ apart = FALSE
  /\ written = "none"

Marked(s, t) ==
  \/ s.faults # t.faults \/ s.touchs # t.touchs
  \/ s.refusals # t.refusals \/ s.eliminated # t.eliminated
Unless(changed) == written' = IF changed THEN "none" ELSE written

-----------------------------------------------------------------------------
(* The chronometer: sensors and keys.  Its reset clears what it shows.     *)
Press ==
  /\ lines < MaxLines
  /\ \E l \in Line \ {"tail"} :
       /\ wire' = Append(wire, l)
       /\ panel' = CASE l = "RESET" -> Blank
                     [] l = "ELIMI" -> [panel EXCEPT !.eliminado = 1]
                     [] OTHER       -> panel
       /\ apart' = (apart \/ (l = "RESET" /\ digican # NoCounts))
  /\ lines' = lines + 1
  /\ UNCHANGED <<status, digican, rpc, msg, mpc, cmd, orders, written>>

(* what module_read() makes of the text it finds at the start of its       *)
(* buffer; digits, also those of a line that was cut, are a STOP           *)
Parsed(l) ==
  CASE l = "START" -> {[name |-> "start", arg |-> Num(0)]}
    [] l = "PARAR" -> {[name |-> "stop", arg |-> Num(1)]}
    [] l = "RESET" -> {[name |-> "reset", arg |-> NoArg]}
    [] l = "INICI" -> {[name |-> "down", arg |-> NoArg]}
    [] l = "ELIMI" -> {[name |-> "elim", arg |-> NoArg]}
    [] OTHER       -> {[name |-> "stop", arg |-> Num(1)], NoOrder}

(* sp_blocking_read() returns what arrives in half a second.  Only its     *)
(* first line counts; it ends anywhere, so a line may be cut after or      *)
(* before the five letters that tell what it is.  Errors read as nothing.  *)
module_read ==
  /\ rpc = "read" /\ wire # <<>>
  /\ \/ /\ \E n \in 1..Len(wire) : wire' = SubSeq(wire, n + 1, Len(wire))
        /\ msg' \in Parsed(Head(wire))
     \/ /\ Head(wire) # "tail"
        /\ wire' = <<"tail">> \o Tail(wire)
        /\ msg' \in Parsed(Head(wire)) \cup {NoOrder}
  /\ rpc' = IF msg' = NoOrder THEN "read" ELSE "send"
  /\ UNCHANGED <<status, digican, panel, mpc, cmd, orders, lines, apart, written>>

-----------------------------------------------------------------------------
(* The main thread, and the events of the server that set marks directly.  *)

(* a command of the chronometer does not go back to it *)
ServeChrono ==
  /\ mpc = "idle" /\ rpc = "send"
  /\ status' = IF MainAccepts(status, msg.name, msg.arg)
               THEN MainApply(status, msg.name, msg.arg) ELSE status
  /\ Unless(Marked(status, status'))
  /\ msg' = NoOrder
  /\ rpc' = "read"
  /\ UNCHANGED <<digican, panel, wire, mpc, cmd, orders, lines, apart>>

ServeOrder ==
  /\ mpc = "idle" /\ orders < MaxOrders
  /\ \E c \in Orders :
       /\ MainAccepts(status, c.name, c.arg)
       /\ status' = MainApply(status, c.name, c.arg)
       /\ cmd' = c
  /\ Unless(Marked(status, status'))
  /\ mpc' = "handler"
  /\ orders' = orders + 1
  /\ UNCHANGED <<digican, panel, wire, rpc, msg, lines, apart>>

Call ==
  /\ orders < MaxOrders
  /\ \E c \in Calls :
       status' = [status EXCEPT !.faults = c.flt, !.touchs = c.toc,
                                !.refusals = c.reh, !.eliminated = c.eli]
  /\ Unless(Marked(status, status'))
  /\ orders' = orders + 1
  /\ UNCHANGED <<digican, panel, wire, rpc, msg, mpc, cmd, lines, apart>>

-----------------------------------------------------------------------------
(* module_write()                                                          *)

(* FAULT compares its count with the faults, but goes as far as faults and *)
(* touches: between the two nothing is sent                                *)
FaultCount ==
  LET ft == ShownFaults(status)
  IN  IF digican.faltas < status.faults \/ digican.faltas > ft THEN ft ELSE digican.faltas

(* mutant of NewCounts: RELOJ does not clear the counts *)
NewCounts_ClockKeeps(name) ==
  CASE name = "fault"   -> [digican EXCEPT !.faltas = FaultCount]
    [] name = "refusal" -> [digican EXCEPT !.rehuses = status.refusals]
    [] name = "data"    -> [faltas |-> ShownFaults(status), rehuses |-> status.refusals]
    [] name = "reset"   -> NoCounts
    [] OTHER            -> digican

(* mutant of NewCounts: DATA does not count the touches *)
NewCounts_NoTouchs(name) ==
  CASE name = "fault"            -> [digican EXCEPT !.faltas = FaultCount]
    [] name = "refusal"          -> [digican EXCEPT !.rehuses = status.refusals]
    [] name = "data"             -> [faltas |-> status.faults, rehuses |-> status.refusals]
    [] name \in {"reset", "clock"} -> NoCounts
    [] OTHER                     -> digican

NewCounts(name) ==
  CASE name = "fault"            -> [digican EXCEPT !.faltas = FaultCount]
    [] name = "refusal"          -> [digican EXCEPT !.rehuses = status.refusals]
    [] name = "data"             -> [faltas  |-> ShownFaults(status),
                                     rehuses |-> status.refusals]
    [] name \in {"reset", "clock"} -> NoCounts
    [] OTHER                     -> digican

(* mutant of Shown: each ELIMI adds to the eliminations *)
Shown_ElimAdds(name, new) ==
  IF name \in {"reset", "clock"} THEN Blank
  ELSE [faltas    |-> AtLeast0(panel.faltas + new.faltas - digican.faltas),
        rehuses   |-> AtLeast0(panel.rehuses + new.rehuses - digican.rehuses),
        eliminado |-> IF name = "elim" THEN panel.eliminado + 1 ELSE panel.eliminado]

(* what the panel makes of it: steps, ELIMI whatever the argument of ELIM, *)
(* and a clean start at RESET and RELOJ                                    *)
Shown(name, new) ==
  IF name \in {"reset", "clock"} THEN Blank
  ELSE [faltas    |-> AtLeast0(panel.faltas + new.faltas - digican.faltas),
        rehuses   |-> AtLeast0(panel.rehuses + new.rehuses - digican.rehuses),
        eliminado |-> IF name = "elim" \/ (name = "data" /\ status.eliminated # 0)
                      THEN 1 ELSE panel.eliminado]

(* the counts change before sp_blocking_write() is tried *)
module_write ==
  /\ mpc = "handler"
  /\ digican' = NewCounts(cmd.name)
  /\ \/ /\ panel' = Shown(cmd.name, digican')
        /\ apart' = (apart /\ cmd.name \notin {"reset", "clock"})
     \/ /\ UNCHANGED panel
        /\ apart' = TRUE
  /\ written' = CASE cmd.name \in Score              -> cmd.name
                  [] cmd.name \in {"reset", "clock"} -> "none"
                  [] OTHER                           -> written
  /\ mpc' = "idle"
  /\ cmd' = NoOrder
  /\ UNCHANGED <<status, wire, rpc, msg, orders, lines>>

Next == Press \/ module_read \/ ServeChrono \/ ServeOrder \/ Call \/ module_write

Spec == Init /\ [][Next]_vars

-----------------------------------------------------------------------------
(* As long as no write failed and the chronometer was not reset by hand the*)
(* counts of the module are what the panel shows, through resets by others,*)
(* clock mode, calls of other dogs and steps in both directions.           *)
CountsArePanel ==
  ~apart => digican.faltas = panel.faltas /\ digican.rehuses = panel.rehuses

(* After REFUSAL and DATA the panel shows what the status has, touches     *)
(* included, whatever it showed before (other dogs' marks, too), until the *)
(* marks change again.                                                     *)
MarksShown ==
  ~apart =>
    /\ written \in {"refusal", "data"} => panel.rehuses = status.refusals
    /\ written = "data" => panel.faltas = ShownFaults(status)
=============================================================================
