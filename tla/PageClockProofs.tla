-------------------------- MODULE PageClockProofs --------------------------
(***************************************************************************)
(* Theorems of the page's clock, for any number of commands and clicks and *)
(* countdowns of any length.                                               *)
(***************************************************************************)
EXTENDS PageClock, TLAPS

(* The type invariant in parts: flags are for one prover, numbers for the  *)
(* other.                                                                  *)
Flags ==
  /\ running \in BOOLEAN /\ paused \in BOOLEAN /\ timed \in BOOLEAN
  /\ marked \in BOOLEAN /\ ended \in BOOLEAN
Numbers ==
  ticks \in Nat /\ resumes \in 0..MaxCommands /\ commands \in 0..MaxCommands
Countdowns == c_llamada \in Countdown /\ c_reconocimiento \in Countdown
Shown ==
  /\ clock \in {"page", "zero", "running", "intermediate", "final", "call", "walk"}
  /\ buttons \in {"all", "stop", "start", "down", "walk"}
  /\ last \in Command \cup {"none"}

(* An intermediate time takes a command each: hence the bound on resumes.  *)
Bounded == resumes <= commands

(* A paused clock has a timeout pending that makes it run again.           *)
Modes ==
  /\ paused => resumes > 0
  /\ ~(running /\ paused)
  /\ RunningClockTicks

Inv == Flags /\ Numbers /\ Countdowns /\ Shown /\ Bounded /\ Modes

LEMMA InvTypes == Inv => TypeOK
BY Zenon DEF Inv, Flags, Numbers, Countdowns, Shown, TypeOK

LEMMA CountdownTypes ==
  /\ Still \in Countdown /\ Fresh \in Countdown
  /\ \A c \in Countdown : decrementCounter(c) \in Countdown /\ Halted(c) \in Countdown
BY PageAssumption DEF Still, Fresh, Countdown, decrementCounter, Halted, started

(* The cases of Modes, in the form in which the steps give them.           *)
LEMMA ModesCases ==
  ASSUME ~paused' \/ (resumes' > 0 /\ ~running'),
         ~running' \/ ticks' > 0
  PROVE  Modes'
BY Zenon DEF Modes, RunningClockTicks

LEMMA InitInv == Init => Inv
<1> SUFFICES ASSUME Init PROVE Inv
  OBVIOUS
<1>1. Flags
  BY DEF Init, Flags
<1>2. Numbers /\ Bounded
  BY PageAssumption DEF Init, Numbers, Bounded
<1>3. Countdowns
  BY CountdownTypes DEF Init, Countdowns
<1>4. Shown
  BY DEF Init, Shown
<1>5. Modes
  BY Zenon DEF Init, Modes, RunningClockTicks
<1>6. QED
  BY <1>1, <1>2, <1>3, <1>4, <1>5, Zenon DEF Inv

(* A command, or a click, which is a command too.                          *)
LEMMA ExecuteInv ==
  ASSUME Inv, NEW c \in Command, Note(c), Execute(c)
  PROVE  Inv'
<1>0. Flags /\ Numbers /\ Countdowns /\ Shown /\ Bounded /\ Modes
  BY Zenon DEF Inv
<1>1. commands' = commands + 1 /\ last' = c /\ commands < MaxCommands
  BY DEF Note
<1>2. ended' \in BOOLEAN
  BY Zenon DEF Note
<1>3. last' \in Command \cup {"none"}
  BY <1>1
<1>4. CASE c_reset
  <2>1. Flags'
    BY <1>2, <1>4 DEF c_reset, Flags
  <2>2. Numbers' /\ Bounded'
    BY <1>0, <1>1, <1>4, PageAssumption DEF c_reset, Numbers, Bounded
  <2>3. Countdowns'
    BY <1>4, CountdownTypes DEF c_reset, Countdowns
  <2>4. Shown'
    BY <1>3, <1>4 DEF c_reset, Shown
  <2>5. Modes'
    BY <1>4, ModesCases, Zenon DEF c_reset
  <2>6. QED
    BY <2>1, <2>2, <2>3, <2>4, <2>5, Zenon DEF Inv
<1>5. CASE start_run
  <2>1. Flags'
    BY <1>2, <1>5 DEF start_run, Flags
  <2>2. Numbers' /\ Bounded' /\ ticks' > 0
    BY <1>0, <1>1, <1>5, PageAssumption DEF start_run, Numbers, Bounded
  <2>3. Countdowns'
    BY <1>5, CountdownTypes DEF start_run, Countdowns
  <2>4. Shown'
    BY <1>3, <1>5 DEF start_run, Shown
  <2>5. ~paused'
    BY <1>5, Zenon DEF start_run
  <2>6. Modes'
    BY <2>2, <2>5, ModesCases, Zenon
  <2>7. QED
    BY <2>1, <2>2, <2>3, <2>4, <2>6, Zenon DEF Inv
<1>6. CASE int_run
  <2>1. Countdowns'
    BY <1>0, <1>6, Zenon DEF int_run, counts, Countdowns
  <2>2. Shown'
    BY <1>0, <1>3, <1>6 DEF int_run, Shown
  <2>3. CASE running \/ paused
    <3>1. running' = FALSE /\ paused' = TRUE /\ resumes' = resumes + 1
          /\ ticks' = ticks /\ timed' = timed /\ marked' = marked
      BY <1>6, <2>3, Zenon DEF int_run
    <3>2. Flags'
      BY <1>0, <1>2, <3>1 DEF Flags
    <3>3. Numbers' /\ Bounded' /\ resumes' > 0
      BY <1>0, <1>1, <3>1, PageAssumption DEF Numbers, Bounded
    <3>4. Modes'
      BY <3>1, <3>3, ModesCases, Zenon
    <3>5. QED
      BY <2>1, <2>2, <3>2, <3>3, <3>4, Zenon DEF Inv
  <2>4. CASE ~(running \/ paused)
    <3>1. running' = running /\ paused' = paused /\ resumes' = resumes
          /\ ticks' = ticks /\ timed' = timed /\ marked' = marked
      BY <1>6, <2>4, Zenon DEF int_run
    <3>2. Flags'
      BY <1>0, <1>2, <3>1, Zenon DEF Flags
    <3>3. Numbers' /\ Bounded'
      BY <1>0, <1>1, <3>1, PageAssumption DEF Numbers, Bounded
    <3>4. Modes'
      BY <2>4, <3>1, ModesCases, Zenon
    <3>5. QED
      BY <2>1, <2>2, <3>2, <3>3, <3>4, Zenon DEF Inv
  <2>5. QED
    BY <2>3, <2>4
<1>7. CASE stop_run
  <2>1. ~running' /\ ~paused'
    <3>1. CASE running \/ paused
      BY <1>7, <3>1, Zenon DEF stop_run
    <3>2. CASE ~(running \/ paused)
      BY <1>7, <3>2, Zenon DEF stop_run
    <3>3. QED
      BY <3>1, <3>2
  <2>2. Flags'
    <3>0. timed' = timed /\ timed \in BOOLEAN
      BY <1>0, <1>7, Zenon DEF stop_run, Flags
    <3>1. marked' \in BOOLEAN
      <4>1. CASE running \/ paused
        BY <1>7, <3>0, <4>1, Zenon DEF stop_run
      <4>2. CASE ~(running \/ paused)
        BY <1>0, <1>7, <4>2, Zenon DEF stop_run, Flags
      <4>3. QED
        BY <4>1, <4>2
    <3>2. running' \in BOOLEAN /\ paused' \in BOOLEAN
      <4>1. CASE running \/ paused
        BY <1>7, <4>1, Zenon DEF stop_run
      <4>2. CASE ~(running \/ paused)
        BY <1>0, <1>7, <4>2, Zenon DEF stop_run, Flags
      <4>3. QED
        BY <4>1, <4>2
    <3>3. QED
      BY <1>2, <3>0, <3>1, <3>2, Zenon DEF Flags
  <2>3. Numbers' /\ Bounded'
    BY <1>0, <1>1, <1>7, PageAssumption DEF stop_run, Numbers, Bounded
  <2>4. Countdowns'
    BY <1>0, <1>7, Zenon DEF stop_run, counts, Countdowns
  <2>5. Shown'
    BY <1>0, <1>3, <1>7 DEF stop_run, Shown
  <2>6. Modes'
    BY <2>1, ModesCases, Zenon
  <2>7. QED
    BY <2>2, <2>3, <2>4, <2>5, <2>6, Zenon DEF Inv
<1>8. CASE \E go \in BOOLEAN : reconocimiento(go) \/ llamada(go)
  <2>1. /\ c_llamada' \in Countdown /\ c_reconocimiento' \in Countdown
        /\ clock' \in {clock, "zero"} /\ buttons' \in {"walk", "down"}
    BY <1>0, <1>8, CountdownTypes DEF reconocimiento, llamada, Stopped, Countdowns
  <2>2. running' = running /\ paused' = paused /\ ticks' = ticks
        /\ resumes' = resumes /\ timed' = timed /\ marked' = marked
    BY <1>8, Zenon DEF reconocimiento, llamada, chrono
  <2>3. Flags' /\ Modes'
    BY <1>0, <1>2, <2>2, Zenon DEF Flags, Modes, RunningClockTicks
  <2>4. Numbers' /\ Bounded'
    BY <1>0, <1>1, <2>2, PageAssumption DEF Numbers, Bounded
  <2>5. Countdowns' /\ Shown'
    BY <1>0, <1>3, <2>1 DEF Countdowns, Shown
  <2>6. QED
    BY <2>3, <2>4, <2>5, Zenon DEF Inv
<1>9. QED
  BY <1>4, <1>5, <1>6, <1>7, <1>8 DEF Execute

LEMMA TimerInv ==
  ASSUME Inv, resume \/ run_chrono \/ CountCall \/ CountWalk
  PROVE  Inv'
<1>0. Flags /\ Numbers /\ Countdowns /\ Shown /\ Bounded /\ Modes
  BY Zenon DEF Inv
<1>1. CASE resume
  <2>1. Flags'
    BY <1>0, <1>1 DEF resume, Flags
  <2>2. Numbers' /\ Bounded' /\ ticks' > 0
    BY <1>0, <1>1, PageAssumption DEF resume, Numbers, Bounded
  <2>3. Countdowns' /\ Shown'
    <3>1. UNCHANGED <<counts, buttons, last>> /\ clock' = "running"
      BY <1>1, Zenon DEF resume
    <3>2. Countdowns'
      BY <1>0, <3>1, Zenon DEF counts, Countdowns
    <3>3. Shown'
      BY <1>0, <3>1 DEF Shown
    <3>4. QED
      BY <3>2, <3>3
  <2>4. ~paused'
    BY <1>1, Zenon DEF resume
  <2>5. Modes'
    BY <2>2, <2>4, ModesCases, Zenon
  <2>6. QED
    BY <2>1, <2>2, <2>3, <2>5, Zenon DEF Inv
<1>2. CASE run_chrono
  <2>1. Numbers' /\ Bounded'
    BY <1>0, <1>2 DEF run_chrono, Numbers, Bounded
  <2>2. Countdowns' /\ Shown'
    BY <1>0, <1>2 DEF run_chrono, counts, Countdowns, Shown
  <2>3. running' = running /\ paused' = paused /\ timed' = timed /\ marked' = marked
        /\ ended' = ended /\ resumes' = resumes
    BY <1>2, Zenon DEF run_chrono
  <2>4. ticks' = ticks \/ ~running
    BY <1>2, Zenon DEF run_chrono
  <2>5. Flags' /\ Modes'
    BY <1>0, <2>3, <2>4, Zenon DEF Flags, Modes, RunningClockTicks
  <2>6. QED
    BY <2>1, <2>2, <2>5, Zenon DEF Inv
<1>3. CASE CountCall \/ CountWalk
  <2>1. Countdowns' /\ Shown'
    BY <1>0, <1>3, CountdownTypes DEF CountCall, CountWalk, Countdowns, Shown
  <2>2. running' = running /\ paused' = paused /\ timed' = timed /\ marked' = marked
        /\ ended' = ended
        /\ ticks' = ticks /\ resumes' = resumes /\ commands' = commands
    BY <1>3, Zenon DEF CountCall, CountWalk, chrono
  <2>3. Flags' /\ Numbers' /\ Bounded' /\ Modes'
    BY <1>0, <2>2, Zenon DEF Flags, Numbers, Bounded, Modes, RunningClockTicks
  <2>4. QED
    BY <2>1, <2>3, Zenon DEF Inv
<1>4. QED
  BY <1>1, <1>2, <1>3

LEMMA StepInv == Inv /\ [Next]_vars => Inv'
<1> SUFFICES ASSUME Inv, [Next]_vars PROVE Inv'
  OBVIOUS
<1>1. CASE parseCommand \/ Click
  <2>1. Enabled(buttons) \subseteq Command
    BY DEF Enabled, Command
  <2>2. PICK c \in Command : Note(c) /\ Execute(c)
    BY <1>1, <2>1 DEF parseCommand, Click
  <2>3. QED
    BY <2>2, ExecuteInv
<1>2. CASE UNCHANGED vars
  BY <1>2, ZenonT(30)
  DEF vars, chrono, counts, Inv, Flags, Numbers, Countdowns, Shown, Bounded, Modes,
      RunningClockTicks
<1>3. QED
  BY <1>1, <1>2, TimerInv DEF Next

LEMMA Always == Spec => []Inv
BY InitInv, StepInv, PTL DEF Spec

(* The flags, timers and counts keep their types; no countdown goes below  *)
(* zero.                                                                   *)
THEOREM TypeCorrect == Spec => []TypeOK
BY InvTypes, Always, PTL

(* A clock that runs is being shown, whatever timers commands leave behind.*)
THEOREM ClockTicks == Spec => []RunningClockTicks
<1>1. Inv => RunningClockTicks
  BY DEF Inv, Modes
<1>2. QED
  BY <1>1, Always, PTL
=============================================================================
