---------------------------- MODULE ChronoStatus ----------------------------
(***************************************************************************)
(* The shared chronometer status (config->status, plus config->bright) and *)
(* what the main controller (src/src/main_mgr.c) does to it on each        *)
(* command.  Pure operators, no state: the modules that schedule commands  *)
(* apply them.                                                             *)
(***************************************************************************)
EXTENDS Integers

(***************************************************************************)
(* tokens[2], the argument of a command.  "none" is a missing token, "fre" *)
(* the faults:refusals:elimination triple of DATA.  n is what atoi() or    *)
(* strtol() returns for the token, hence 0 for "+" and "-".                *)
(***************************************************************************)
ArgKind == {"none", "plus", "minus", "num", "fre"}
Arg == [kind : ArgKind, n : Int, r : Int, e : Int]

NoArg         == [kind |-> "none",  n |-> 0, r |-> 0, e |-> 0]
Plus          == [kind |-> "plus",  n |-> 0, r |-> 0, e |-> 0]
Minus         == [kind |-> "minus", n |-> 0, r |-> 0, e |-> 0]
Num(k)        == [kind |-> "num",   n |-> k, r |-> 0, e |-> 0]
FRE(f, r, e)  == [kind |-> "fre",   n |-> f, r |-> r, e |-> e]

(* command_list of src/src/parser.c *)
CmdName ==
  {"start", "int", "stop", "fail", "ok", "msg", "walk", "down", "fault",
   "refusal", "elim", "data", "reset", "help", "version", "exit", "server",
   "ports", "config", "status", "turn", "bright", "clock", "debug"}

Status ==
  [start_time : Int, int_time : Int, stop_time : Int,
   faults : Int, touchs : Int, refusals : Int, eliminated : Int,
   notpresent : Int, numero : Int, dorsal : Int, bright : Int]

(* default_options(): calloc() zeroes what is not assigned *)
DefaultStatus ==
  [start_time |-> -1, int_time |-> 0, stop_time |-> 0,
   faults |-> 0, touchs |-> 0, refusals |-> 0, eliminated |-> 0,
   notpresent |-> 0, numero |-> 0, dorsal |-> 0, bright |-> 0]

-----------------------------------------------------------------------------
AtLeast0(x) == IF x < 0 THEN 0 ELSE x
AtMost9(x)  == IF x > 9 THEN 9 ELSE x
Flag(x)     == IF x = 0 THEN 0 ELSE 1

(* "+", "-", absolute value, or nothing: the shape of REFUSAL, TURN, BRIGHT *)
Step(old, a) ==
  CASE a.kind \in {"none", "plus"} -> old + 1
    [] a.kind = "minus"            -> old - 1
    [] OTHER                       -> a.n

main_mgr_start(s, a) == [s EXCEPT !.start_time = IF a.kind = "none" THEN 0 ELSE a.n]
main_mgr_int(s, a)   == [s EXCEPT !.int_time = a.n]
main_mgr_stop(s, a)  == [s EXCEPT !.stop_time = a.n]

(* FAULT - takes a touch away when no fault is left; FAULT n leaves the     *)
(* touches alone and sets the faults to the difference; both counters are  *)
(* clamped at zero afterwards.                                             *)
main_mgr_fault(s, a) ==
  LET f == CASE a.kind \in {"none", "plus"} -> s.faults + 1
             [] a.kind = "minus" -> IF s.faults > 0 THEN s.faults - 1 ELSE s.faults
             [] OTHER            -> a.n - s.touchs
      t == IF a.kind = "minus" /\ ~(s.faults > 0) /\ s.touchs > 0
           THEN s.touchs - 1 ELSE s.touchs
  IN [s EXCEPT !.faults = AtLeast0(f), !.touchs = AtLeast0(t)]

main_mgr_refusal(s, a) == [s EXCEPT !.refusals = AtLeast0(Step(s.refusals, a))]

main_mgr_elim(s, a) ==
  [s EXCEPT !.eliminated = CASE a.kind \in {"none", "plus"} -> 1
                             [] a.kind = "minus"            -> 0
                             [] OTHER                       -> Flag(a.n)]

(* no clamping here: fewer faults than stored touches gives faults < 0 *)
main_mgr_data(s, a) ==
  [s EXCEPT !.faults = a.n - s.touchs, !.refusals = a.r, !.eliminated = Flag(a.e)]

NoTimes(s) == [s EXCEPT !.start_time = -1, !.int_time = 0, !.stop_time = 0]
NoMarks(s) == [s EXCEPT !.faults = 0, !.touchs = 0, !.refusals = 0,
                        !.eliminated = 0, !.notpresent = 0]
main_mgr_reset(s) == NoMarks(NoTimes(s))

main_mgr_numero(s, a) == [s EXCEPT !.numero = AtLeast0(Step(s.numero, a))]
main_mgr_bright(s, a) == [s EXCEPT !.bright = AtMost9(AtLeast0(Step(s.bright, a)))]

-----------------------------------------------------------------------------
(* the handler's result is not negative *)
MainAccepts(s, name, a) ==
  /\ name \in {"int", "stop"} => s.start_time >= 0 /\ a.kind # "none"
  /\ name = "data" => a.kind # "none"

(* main_mgr_entries[]: the remaining handlers only log *)
MainApply(s, name, a) ==
  CASE name = "start"   -> main_mgr_start(s, a)
    [] name = "int"     -> main_mgr_int(s, a)
    [] name = "stop"    -> main_mgr_stop(s, a)
    [] name = "fault"   -> main_mgr_fault(s, a)
    [] name = "refusal" -> main_mgr_refusal(s, a)
    [] name = "elim"    -> main_mgr_elim(s, a)
    [] name = "data"    -> main_mgr_data(s, a)
    [] name = "reset"   -> main_mgr_reset(s)
    [] name = "turn"    -> main_mgr_numero(s, a)
    [] name = "bright"  -> main_mgr_bright(s, a)
    [] OTHER            -> s

(* what every display and the server shows as the fault count *)
ShownFaults(s) == s.faults + s.touchs
=============================================================================
