------------------------------ MODULE MCSCQueue ------------------------------
(* Instances of SCQueue for TLC: connections are model values.             *)
EXTENDS SCQueue
=============================================================================
