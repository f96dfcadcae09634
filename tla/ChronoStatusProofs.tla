------------------------- MODULE ChronoStatusProofs -------------------------
(***************************************************************************)
(* Lemmas about what main_mgr.c does to the shared status.                 *)
(***************************************************************************)
EXTENDS ChronoStatus, TLAPS

(* Whatever command it applies, main_mgr keeps the status a status.        *)
LEMMA MainApplyType ==
  ASSUME NEW s \in Status, NEW name, NEW a \in Arg
  PROVE  MainApply(s, name, a) \in Status
<1>1. main_mgr_start(s, a) \in Status
  BY DEF Status, Arg, main_mgr_start
<1>2. main_mgr_int(s, a) \in Status /\ main_mgr_stop(s, a) \in Status
  BY DEF Status, Arg, main_mgr_int, main_mgr_stop
<1>3. main_mgr_fault(s, a) \in Status
  <2> DEFINE f == CASE a.kind \in {"none", "plus"} -> s.faults + 1
                    [] a.kind = "minus" -> IF s.faults > 0 THEN s.faults - 1 ELSE s.faults
                    [] OTHER            -> a.n - s.touchs
             t == IF a.kind = "minus" /\ ~(s.faults > 0) /\ s.touchs > 0
                  THEN s.touchs - 1 ELSE s.touchs
  <2>1. f \in Int /\ t \in Int
    BY DEF Status, Arg
  <2>2. AtLeast0(f) \in Int /\ AtLeast0(t) \in Int
    BY <2>1 DEF AtLeast0
  <2>3. main_mgr_fault(s, a) = [s EXCEPT !.faults = AtLeast0(f), !.touchs = AtLeast0(t)]
    BY DEF main_mgr_fault
  <2> HIDE DEF f, t
  <2>4. QED
    BY <2>2, <2>3 DEF Status
<1>4. ASSUME NEW x \in Int
      PROVE  Step(x, a) \in Int /\ AtLeast0(x) \in Int /\ AtMost9(x) \in Int /\ Flag(x) \in Int
  BY DEF Step, AtLeast0, AtMost9, Flag, Arg
<1>5. /\ main_mgr_refusal(s, a) \in Status
      /\ main_mgr_numero(s, a) \in Status
      /\ main_mgr_bright(s, a) \in Status
  <2>1. /\ AtLeast0(Step(s.refusals, a)) \in Int
        /\ AtLeast0(Step(s.numero, a)) \in Int
        /\ AtMost9(AtLeast0(Step(s.bright, a))) \in Int
    BY <1>4 DEF Status
  <2>2. QED
    BY <2>1 DEF Status, main_mgr_refusal, main_mgr_numero, main_mgr_bright
<1>6. main_mgr_elim(s, a) \in Status
  BY <1>4 DEF Status, Arg, main_mgr_elim
<1>7. main_mgr_data(s, a) \in Status
  <2>1. a.n - s.touchs \in Int /\ a.r \in Int /\ Flag(a.e) \in Int
    BY <1>4 DEF Status, Arg
  <2>2. QED
    BY <2>1 DEF Status, main_mgr_data
<1>8. main_mgr_reset(s) \in Status
  <2>1. \A x, y, z \in Int : \A u \in Status :
          [u EXCEPT !.start_time = x, !.int_time = y, !.stop_time = z] \in Status
    BY DEF Status
  <2>2. \A x \in Int : \A u \in Status :
          [u EXCEPT !.faults = x, !.touchs = x, !.refusals = x,
                    !.eliminated = x, !.notpresent = x] \in Status
    BY DEF Status
  <2>3. 0 \in Int /\ -1 \in Int
    OBVIOUS
  <2>4. NoTimes(s) \in Status
    BY <2>1, <2>3, Zenon DEF NoTimes
  <2>5. NoMarks(NoTimes(s)) \in Status
    BY <2>2, <2>3, <2>4, Zenon DEF NoMarks
  <2>6. QED
    BY <2>5 DEF main_mgr_reset
<1>9. QED
  BY <1>1, <1>2, <1>3, <1>5, <1>6, <1>7, <1>8 DEF MainApply

(* The elimination mark stays 0 or 1, which synchronize_chrono() relies on *)
(* to bring it about by a toggle.                                          *)
LEMMA MainApplyEliminated ==
  ASSUME NEW s \in Status, NEW name, NEW a \in Arg, s.eliminated \in {0, 1}
  PROVE  MainApply(s, name, a).eliminated \in {0, 1}
<1>1. main_mgr_elim(s, a).eliminated \in {0, 1}
  BY DEF Status, Arg, main_mgr_elim, Flag
<1>2. main_mgr_data(s, a).eliminated \in {0, 1}
  BY DEF Status, Arg, main_mgr_data, Flag
<1>3. main_mgr_reset(s).eliminated \in {0, 1}
  BY DEF Status, main_mgr_reset, NoMarks, NoTimes
<1>4. /\ main_mgr_start(s, a).eliminated = s.eliminated
      /\ main_mgr_int(s, a).eliminated = s.eliminated
      /\ main_mgr_stop(s, a).eliminated = s.eliminated
      /\ main_mgr_fault(s, a).eliminated = s.eliminated
      /\ main_mgr_refusal(s, a).eliminated = s.eliminated
      /\ main_mgr_numero(s, a).eliminated = s.eliminated
      /\ main_mgr_bright(s, a).eliminated = s.eliminated
  BY DEF Status, main_mgr_start, main_mgr_int, main_mgr_stop, main_mgr_fault,
         main_mgr_refusal, main_mgr_numero, main_mgr_bright
<1>5. QED
  BY <1>1, <1>2, <1>3, <1>4 DEF MainApply

(* The fault count that is shown and the refusals stay at zero or above, if*)
(* no DATA asks for less: the other handlers clamp.                        *)
LEMMA ApplyCounts ==
  ASSUME NEW s \in Status, ShownFaults(s) >= 0, s.refusals >= 0, NEW name, NEW a \in Arg,
         name = "data" => a.n >= 0 /\ a.r >= 0
  PROVE  /\ ShownFaults(MainApply(s, name, a)) >= 0
         /\ MainApply(s, name, a).refusals >= 0
<1> DEFINE Ok(t) == ShownFaults(t) >= 0 /\ t.refusals >= 0
<1>1. \A x \in Int : AtLeast0(x) \in Int /\ AtLeast0(x) >= 0
  BY DEF AtLeast0
<1>2. Ok(main_mgr_fault(s, a))
  <2> DEFINE f == CASE a.kind \in {"none", "plus"} -> s.faults + 1
                    [] a.kind = "minus" -> IF s.faults > 0 THEN s.faults - 1 ELSE s.faults
                    [] OTHER            -> a.n - s.touchs
             t == IF a.kind = "minus" /\ ~(s.faults > 0) /\ s.touchs > 0
                  THEN s.touchs - 1 ELSE s.touchs
  <2>1. f \in Int /\ t \in Int
    BY DEF Status, Arg
  <2>2. main_mgr_fault(s, a) = [s EXCEPT !.faults = AtLeast0(f), !.touchs = AtLeast0(t)]
    BY DEF main_mgr_fault
  <2> HIDE DEF f, t
  <2>3. QED
    BY <1>1, <2>1, <2>2 DEF Status, ShownFaults
<1>3. Ok(main_mgr_refusal(s, a))
  <2>1. Step(s.refusals, a) \in Int
    BY DEF Step, Status, Arg
  <2>2. QED
    BY <1>1, <2>1 DEF main_mgr_refusal, Status, ShownFaults
<1>4. name = "data" => Ok(main_mgr_data(s, a))
  BY DEF main_mgr_data, Status, Arg, ShownFaults
<1>5. Ok(main_mgr_reset(s))
  BY DEF main_mgr_reset, NoMarks, NoTimes, Status, ShownFaults
<1>6. Ok(main_mgr_elim(s, a))
  BY DEF main_mgr_elim, Status, ShownFaults
<1>7. /\ Ok(main_mgr_start(s, a)) /\ Ok(main_mgr_int(s, a)) /\ Ok(main_mgr_stop(s, a))
      /\ Ok(main_mgr_numero(s, a)) /\ Ok(main_mgr_bright(s, a))
  BY DEF main_mgr_start, main_mgr_int, main_mgr_stop, main_mgr_numero, main_mgr_bright,
         Status, ShownFaults
<1>8. QED
  BY <1>2, <1>3, <1>4, <1>5, <1>6, <1>7 DEF MainApply
=============================================================================
