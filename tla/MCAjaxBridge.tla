---------------------------- MODULE MCAjaxBridge ----------------------------
(* Instances of AjaxBridge for TLC: what operators and managers do.        *)
EXTENDS AjaxBridge

Ev(t, f, c, r, e) == [type |-> t, own |-> FALSE, flt |-> f, toc |-> c, reh |-> r, eli |-> e]

(* a session opens, a dog is called with marks it already has, is marked,  *)
(* and the chronometer is reset; no touches are marked on their own        *)
RoundEvents ==
  {Ev("init", 0, 0, 0, 0), Ev("llamada", 1, 1, 0, 0), Ev("datos", 2, Keep, 1, Keep),
   Ev("crono_reset", 0, 0, 0, 0)}

LocalMarks ==
  {[name |-> "fault", arg |-> Plus], [name |-> "reset", arg |-> NoArg]}
=============================================================================
