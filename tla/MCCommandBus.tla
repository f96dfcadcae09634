---------------------------- MODULE MCCommandBus ----------------------------
(* Instances of CommandBus for TLC: which managers run and what they send. *)
EXTENDS CommandBus

Cmd(name, a) == [name |-> name, arg |-> a, exit |-> name = "exit"]
Nothing == [m \in Manager |-> {}]

(* The console types, the networked chronometer measures, the server marks *)
(* and resets, the reader reads a code without a dorsal.                   *)
FourManagers == {"console", "chrono", "ajax", "qrcode"}
FourSends ==
  [Nothing EXCEPT
     !["console"] = {Cmd("exit", NoArg), Cmd("unknown", NoArg), Cmd("data", Plus)},
     !["chrono"]  = {Cmd("int", Num(9)), Cmd("start", NoArg)},
     !["ajax"]    = {Cmd("data", FRE(1, 0, 0))},
     !["qrcode"]  = {Cmd("turn", NoArg)}]

(* a command typed while the chronometer module is being loaded *)
ConsoleAndChrono == {"console", "chrono"}
EarlySends == [Nothing EXCEPT !["console"] = {Cmd("start", Num(0))}]
=============================================================================
