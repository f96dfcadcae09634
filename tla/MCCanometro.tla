----------------------------- MODULE MCCanometro -----------------------------
(* Instances of Canometro for TLC: the commands other managers send.       *)
EXTENDS Canometro

Mark(name) == [name |-> name, arg |-> Plus]

(* a judge's marks, a reset, and what the operator does to the clock *)
RingOrders ==
  {Mark("fault"),
   [name |-> "data", arg |-> FRE(0, 1, 1)],
   [name |-> "start", arg |-> Num(0)],
   [name |-> "stop", arg |-> Num(9)],
   [name |-> "walk", arg |-> Num(0)],
   [name |-> "down", arg |-> NoArg],
   [name |-> "status", arg |-> NoArg]}

(* an operator who starts the clock by hand *)
ManualStart == {[name |-> "start", arg |-> Num(0)]}
=============================================================================
