---------------------------- MODULE SharedDevice ----------------------------
(***************************************************************************)
(* What the canometro module promises of its chronometer: two threads use  *)
(* it, one at a time, and each use ends before the next one begins.  The   *)
(* one way out is that the main thread drops it in the middle of a use;    *)
(* nobody uses it afterwards.                                              *)
(***************************************************************************)
CONSTANT Thread

VARIABLE holder   \* the thread that uses the device, "nobody", or "gone"

Init == holder = "nobody"

Take(t) == holder = "nobody" /\ holder' = t
Give(t) == holder = t /\ holder' = "nobody"
Drop    == holder = "main" /\ holder' = "gone"

Next == (\E t \in Thread : Take(t) \/ Give(t)) \/ Drop

Spec == Init /\ [][Next]_holder
=============================================================================
