------------------------------ MODULE PageClock ------------------------------
(***************************************************************************)
(* The clock of the browser page: what parseCommand() and the buttons of   *)
(* html/crono.js do with the chronometer (html/jquery-chronometer.js) and  *)
(* the two countdowns (html/countdown.js), which all write the same field  *)
(* from timers of their own.                                               *)
(*                                                                         *)
(* JavaScript runs one callback at a time: a command, a click or a timer is*)
(* a step.  Abstracted: time values, other fields of the page, the copy of *)
(* the clock in a window of its own, what a click sends to the program.    *)
(***************************************************************************)
EXTENDS Integers

CONSTANTS
  MaxCommands,  \* bound on commands and clicks
  Seconds       \* length of a countdown, in turns of its timer

ASSUME PageAssumption == MaxCommands \in Nat /\ Seconds \in Nat \ {0}

(* what arrives; WALK 0 and DOWN 0 end a countdown *)
Command == {"reset", "start", "int", "stop", "walk", "walk0", "down", "down0"}

VARIABLES
  running, paused,  \* of the chronometer
  ticks,      \* pending timeouts of run_chrono()
  resumes,    \* pending timeouts that end an intermediate time
  timed,      \* startTime comes from a START
  marked,     \* so does stopTime - startTime from a STOP after it
  c_llamada, c_reconocimiento,   \* countdowns: interval set, count
  clock,      \* what the field #Clock shows
  buttons,    \* the argument of handle_buttons() that the buttons look like
  commands,   \* number of commands and clicks
  last,       \* history: the last one
  ended       \* history: it was a STOP that found only a running chronometer, started by START

chrono == <<running, paused, ticks, resumes, timed, marked>>
counts == <<c_llamada, c_reconocimiento>>
vars == <<chrono, counts, clock, buttons, commands, last, ended>>

Countdown == [on : BOOLEAN, count : 0..Seconds]
Still == [on |-> FALSE, count |-> 0]
Fresh == [on |-> TRUE, count |-> Seconds]

TypeOK ==
  /\ running \in BOOLEAN /\ paused \in BOOLEAN /\ timed \in BOOLEAN /\ marked \in BOOLEAN
  /\ ticks \in Nat /\ resumes \in 0..MaxCommands
  /\ c_llamada \in Countdown /\ c_reconocimiento \in Countdown
  /\ clock \in {"page", "zero", "running", "intermediate", "final", "call", "walk"}
  /\ buttons \in {"all", "stop", "start", "down", "walk"}
  /\ commands \in 0..MaxCommands
  /\ last \in Command \cup {"none"}
  /\ ended \in BOOLEAN

Init ==
  /\ running = FALSE /\ paused = FALSE /\ ticks = 0 /\ resumes = 0
  /\ timed = FALSE /\ marked = FALSE
  /\ c_llamada = Still /\ c_reconocimiento = Still
  /\ clock = "page" /\ buttons = "all"
  /\ commands = 0 /\ last = "none" /\ ended = FALSE

started(c) == c.count > 0

-----------------------------------------------------------------------------
(* Commands.                                                               *)

c_reset ==
  /\ c_llamada' = Still /\ c_reconocimiento' = Still
  /\ running' = FALSE /\ paused' = FALSE /\ timed' = FALSE /\ marked' = FALSE
  /\ clock' = "zero"
  /\ buttons' = "stop"
  /\ UNCHANGED <<ticks, resumes>>

(* run_chrono() shows the time and sets the next timeout, next to one that *)
(* is still pending                                                        *)
start_run ==
  /\ c_llamada' = Still /\ c_reconocimiento' = Still
  /\ running' = TRUE /\ paused' = FALSE /\ timed' = TRUE /\ marked' = FALSE
  /\ ticks' = ticks + 1
  /\ clock' = "running"
  /\ buttons' = "start"
  /\ UNCHANGED resumes

int_run ==
  /\ IF running \/ paused
     THEN running' = FALSE /\ paused' = TRUE /\ resumes' = resumes + 1
     ELSE UNCHANGED <<running, paused, resumes>>
  /\ buttons' = "start"
  /\ UNCHANGED <<ticks, timed, marked, counts, clock>>

(* mutant of stop_run: the timeout of run_chrono() is cleared *)
stop_run_ClearTimeout ==
  /\ IF running \/ paused
     THEN running' = FALSE /\ paused' = FALSE /\ marked' = timed /\ ticks' = 0
     ELSE UNCHANGED <<running, paused, marked, ticks>>
  /\ buttons' = "stop"
  /\ UNCHANGED <<resumes, timed, counts, clock>>

stop_run ==
  /\ IF running \/ paused
     THEN running' = FALSE /\ paused' = FALSE /\ marked' = timed
     ELSE UNCHANGED <<running, paused, marked>>
  /\ buttons' = "stop"
  /\ UNCHANGED <<ticks, resumes, timed, counts, clock>>

(* stop() of a countdown shows zero *)
Stopped == IF started(c_llamada) \/ started(c_reconocimiento) THEN "zero" ELSE clock
Halted(c) == IF started(c) THEN Still ELSE c

reconocimiento(go) ==
  /\ c_llamada' = Halted(c_llamada)
  /\ c_reconocimiento' = IF go THEN Fresh ELSE Halted(c_reconocimiento)
  /\ clock' = Stopped
  /\ buttons' = "walk"
  /\ UNCHANGED chrono

llamada(go) ==
  /\ c_reconocimiento' = Halted(c_reconocimiento)
  /\ c_llamada' = IF go THEN Fresh ELSE Halted(c_llamada)
  /\ clock' = Stopped
  /\ buttons' = "down"
  /\ UNCHANGED chrono

Execute(c) ==
  \/ c = "reset" /\ c_reset
  \/ c = "start" /\ start_run
  \/ c = "int"   /\ int_run
  \/ c = "stop"  /\ stop_run
  \/ c \in {"walk", "walk0"} /\ reconocimiento(c = "walk")
  \/ c \in {"down", "down0"} /\ llamada(c = "down")

Note(c) ==
  /\ commands < MaxCommands
  /\ commands' = commands + 1
  /\ last' = c
  /\ ended' = (/\ c = "stop" /\ running /\ timed /\ resumes = 0
               /\ ~c_llamada.on /\ ~c_reconocimiento.on)

(* a command in the answer to a poll *)
parseCommand == \E c \in Command : Note(c) /\ Execute(c)

(* which buttons handle_buttons() leaves enabled; the page loads with all *)
Enabled(b) ==
  CASE b = "all"         -> Command \ {"walk0", "down0"}
    [] b = "stop"        -> {"reset", "start", "down", "walk"}
    [] b = "start"       -> {"reset", "int", "stop"}
    [] b = "down"        -> {"reset", "start", "down"}
    [] OTHER             -> {"reset", "walk"}

Click == \E c \in Enabled(buttons) : Note(c) /\ Execute(c)

-----------------------------------------------------------------------------
(* Timers.                                                                 *)

(* mutant of resume: only a clock that runs is started again *)
resume_IfRunning ==
  /\ resumes > 0
  /\ resumes' = resumes - 1
  /\ IF running
     THEN ticks' = ticks + 1 /\ clock' = "running"
     ELSE UNCHANGED <<ticks, clock>>
  /\ UNCHANGED <<running, paused, timed, marked, counts, buttons, commands, last, ended>>

(* mutant of resume: the time is not shown again *)
resume_NoRunChrono ==
  /\ resumes > 0
  /\ resumes' = resumes - 1
  /\ running' = TRUE /\ paused' = FALSE
  /\ UNCHANGED <<ticks, clock, timed, marked, counts, buttons, commands, last, ended>>

(* five seconds after an intermediate time, whatever has come since *)
resume ==
  /\ resumes > 0
  /\ resumes' = resumes - 1
  /\ running' = TRUE /\ paused' = FALSE
  /\ ticks' = ticks + 1
  /\ clock' = "running"
  /\ UNCHANGED <<timed, marked, counts, buttons, commands, last, ended>>

run_chrono ==
  /\ ticks > 0
  /\ \/ /\ running
        /\ clock' = "running"
        /\ UNCHANGED ticks
     \/ /\ ~running
        /\ clock' = IF paused THEN "intermediate" ELSE IF marked THEN "final" ELSE "zero"
        /\ ticks' = ticks - 1
  /\ UNCHANGED <<running, paused, resumes, timed, marked, counts, buttons, commands, last, ended>>

(* mutant of decrementCounter: it does not stop at zero *)
decrementCounter_NoEnd(c) == [c EXCEPT !.count = @ - 1]

(* at zero the countdown ends and stops itself *)
decrementCounter(c) ==
  IF c.count = 0 THEN Still ELSE [c EXCEPT !.count = @ - 1]

CountCall ==
  /\ c_llamada.on
  /\ c_llamada' = decrementCounter(c_llamada)
  /\ clock' = IF c_llamada.count = 0 THEN "zero" ELSE "call"
  /\ UNCHANGED <<chrono, c_reconocimiento, buttons, commands, last, ended>>

CountWalk ==
  /\ c_reconocimiento.on
  /\ c_reconocimiento' = decrementCounter(c_reconocimiento)
  /\ clock' = IF c_reconocimiento.count = 0 THEN "zero" ELSE "walk"
  /\ UNCHANGED <<chrono, c_llamada, buttons, commands, last, ended>>

Next == parseCommand \/ Click \/ resume \/ run_chrono \/ CountCall \/ CountWalk

Spec == Init /\ [][Next]_vars

(* the browser's timers fire *)
FairSpec ==
  /\ Spec
  /\ WF_vars(resume) /\ WF_vars(run_chrono) /\ WF_vars(CountCall) /\ WF_vars(CountWalk)

-----------------------------------------------------------------------------
(* A chronometer that runs is being shown: a timeout of run_chrono() is    *)
(* pending through starts, intermediate times that overlap, and countdowns.*)
RunningClockTicks == running => ticks > 0

(* An intermediate time is not shown for ever: the clock runs again, or    *)
(* another command ends the run, however many intermediate times overlap.  *)
IntermediateEnds == paused ~> ~paused

(* "Time shown is timestamp - start" (README.md): after a STOP the page    *)
(* comes to show the measured time and keeps it until the next command, if *)
(* the clock was started by START and neither an intermediate time nor a   *)
(* countdown was under way.                                                *)
FinalShown == <>[](ended => clock = "final")

(* "Stop and clears chronometer" (README.md): after RESET the clock does   *)
(* not run until it is started.                                            *)
ResetStops == last = "reset" => ~running
=============================================================================
