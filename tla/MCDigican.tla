------------------------------ MODULE MCDigican ------------------------------
(* Instances of Digican for TLC: commands of others and dogs that are      *)
(* called.                                                                 *)
EXTENDS Digican

RoundOrders ==
  {[name |-> "fault", arg |-> Plus], [name |-> "fault", arg |-> Minus],
   [name |-> "refusal", arg |-> Plus], [name |-> "elim", arg |-> Plus],
   [name |-> "data", arg |-> FRE(2, 1, 1)],
   [name |-> "reset", arg |-> NoArg], [name |-> "clock", arg |-> NoArg]}

(* a dog without marks and one that has some already *)
RoundCalls == {[flt |-> 0, toc |-> 0, reh |-> 0, eli |-> 0],
               [flt |-> 0, toc |-> 2, reh |-> 1, eli |-> 0]}
=============================================================================
