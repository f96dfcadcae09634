---------------------------- MODULE DigicanProofs ----------------------------
(***************************************************************************)
(* Theorems of the digican module, for every set of commands and of dogs   *)
(* that are called.                                                        *)
(***************************************************************************)
EXTENDS Digican, ChronoStatusProofs, SequenceTheorems

(***************************************************************************)
(* The types.                                                              *)
(***************************************************************************)
StatusTypes == status \in Status
CountTypes ==
  /\ digican \in Counts
  /\ panel \in [faltas : Nat, rehuses : Nat, eliminado : {0, 1}]
WireTypes == wire \in Seq(Line)
ThreadTypes ==
  /\ rpc \in {"read", "send"} /\ msg \in Order
  /\ mpc \in {"idle", "handler"} /\ cmd \in Order
Bounds == orders \in 0..MaxOrders /\ lines \in 0..MaxLines
HistoryTypes == apart \in BOOLEAN /\ written \in Score \cup {"none"}

LEMMA TypeParts ==
  TypeOK <=> /\ StatusTypes /\ CountTypes /\ WireTypes
             /\ ThreadTypes /\ Bounds /\ HistoryTypes
BY Zenon DEF TypeOK, StatusTypes, CountTypes, WireTypes, ThreadTypes, Bounds, HistoryTypes

LEMMA TypeNext ==
  ASSUME StatusTypes', CountTypes', WireTypes', ThreadTypes', Bounds', HistoryTypes'
  PROVE  TypeOK'
BY Zenon DEF TypeOK, StatusTypes, CountTypes, WireTypes, ThreadTypes, Bounds, HistoryTypes

LEMMA Orderly ==
  /\ NoOrder \in Order
  /\ \A l \in Line : Parsed(l) \subseteq Order
  /\ \A c \in Order : c.name \in SerialCmd /\ c.arg \in Arg
  /\ NoCounts \in Counts
  /\ Blank \in [faltas : Nat, rehuses : Nat, eliminado : {0, 1}]
<1>1. NoArg \in Arg /\ Num(0) \in Arg /\ Num(1) \in Arg
  BY DEF NoArg, Num, Arg, ArgKind
<1>2. NoOrder \in Order
  BY <1>1 DEF NoOrder, Order, SerialCmd
<1>3. \A l \in Line : Parsed(l) \subseteq Order
  BY <1>1, <1>2 DEF Parsed, Order, SerialCmd
<1>4. \A c \in Order : c.name \in SerialCmd /\ c.arg \in Arg
  BY DEF Order
<1>5. NoCounts \in Counts /\ Blank \in [faltas : Nat, rehuses : Nat, eliminado : {0, 1}]
  BY DEF NoCounts, Blank, Counts
<1>6. QED
  BY <1>2, <1>3, <1>4, <1>5

(* What a write makes of the counts and of the panel.                      *)
LEMMA WriteTypes ==
  ASSUME StatusTypes, CountTypes, NEW name
  PROVE  /\ NewCounts(name) \in Counts
         /\ Shown(name, NewCounts(name)) \in [faltas : Nat, rehuses : Nat, eliminado : {0, 1}]
<1>1. ShownFaults(status) \in Int /\ status.refusals \in Int
  BY DEF StatusTypes, Status, ShownFaults
<1>2. FaultCount \in Int
  BY <1>1 DEF FaultCount, CountTypes, Counts
<1>3. NewCounts(name) \in Counts
  BY <1>1, <1>2, Orderly DEF NewCounts, CountTypes, Counts
<1>4. \A x \in Int : AtLeast0(x) \in Nat
  BY DEF AtLeast0
<1>5. \A n \in Counts :
        Shown(name, n) \in [faltas : Nat, rehuses : Nat, eliminado : {0, 1}]
  BY <1>4, Orderly DEF Shown, CountTypes, Counts
<1>6. QED
  BY <1>3, <1>5

LEMMA InitTypes == Init => TypeOK
<1> SUFFICES ASSUME Init PROVE TypeOK
  OBVIOUS
<1>1. StatusTypes
  BY DEF Init, StatusTypes, DefaultStatus, Status
<1>2. CountTypes
  BY Orderly DEF Init, CountTypes
<1>3. WireTypes /\ Bounds
  BY DigicanAssumption DEF Init, WireTypes, Bounds
<1>4. ThreadTypes /\ HistoryTypes
  BY Orderly DEF Init, ThreadTypes, HistoryTypes
<1>5. QED
  BY <1>1, <1>2, <1>3, <1>4, TypeParts

LEMMA NextTypes == TypeOK /\ [Next]_vars => TypeOK'
<1> SUFFICES ASSUME TypeOK, [Next]_vars PROVE TypeOK'
  OBVIOUS
<1>0. StatusTypes /\ CountTypes /\ WireTypes /\ ThreadTypes /\ Bounds /\ HistoryTypes
  BY TypeParts
<1> USE <1>0
<1>1. CASE Press
  <2>1. StatusTypes' /\ ThreadTypes'
    BY <1>1 DEF Press, StatusTypes, ThreadTypes
  <2>2. CountTypes'
    BY <1>1, Orderly DEF Press, CountTypes
  <2>3. WireTypes' /\ Bounds'
    BY <1>1, AppendProperties, DigicanAssumption DEF Press, WireTypes, Bounds
  <2>4. HistoryTypes'
    BY <1>1, Zenon DEF Press, HistoryTypes
  <2>5. QED
    BY <2>1, <2>2, <2>3, <2>4, TypeNext, Zenon
<1>2. CASE module_read
  <2>1. StatusTypes' /\ CountTypes' /\ Bounds'
    BY <1>2 DEF module_read, StatusTypes, CountTypes, Bounds
  <2>2. WireTypes'
    <3>1. CASE \E n \in 1..Len(wire) : wire' = SubSeq(wire, n + 1, Len(wire))
      BY <3>1, SubSeqProperties DEF WireTypes
    <3>2. CASE wire' = <<"tail">> \o Tail(wire)
      <4>1. <<"tail">> \in Seq(Line) /\ Tail(wire) \in Seq(Line)
        BY <1>2, HeadTailProperties DEF module_read, WireTypes, Line
      <4>2. QED
        BY <3>2, <4>1, ConcatProperties DEF WireTypes
    <3>3. QED
      BY <1>2, <3>1, <3>2 DEF module_read
  <2>3. ThreadTypes'
    <3>1. Head(wire) \in Line
      BY <1>2, HeadTailProperties DEF module_read, WireTypes
    <3>2. msg' \in Order
      BY <1>2, <3>1, Orderly DEF module_read
    <3>3. QED
      BY <1>2, <3>2 DEF module_read, ThreadTypes
  <2>4. HistoryTypes'
    BY <1>2, Zenon DEF module_read, HistoryTypes
  <2>5. QED
    BY <2>1, <2>2, <2>3, <2>4, TypeNext, Zenon
<1>3. CASE ServeChrono
  <2>1. StatusTypes'
    BY <1>3, MainApplyType, Orderly DEF ServeChrono, StatusTypes, ThreadTypes
  <2>2. CountTypes' /\ WireTypes' /\ Bounds'
    BY <1>3 DEF ServeChrono, CountTypes, WireTypes, Bounds
  <2>3. ThreadTypes'
    BY <1>3, Orderly DEF ServeChrono, ThreadTypes
  <2>4. HistoryTypes'
    BY <1>3 DEF ServeChrono, HistoryTypes, Unless
  <2>5. QED
    BY <2>1, <2>2, <2>3, <2>4, TypeNext, Zenon
<1>4. CASE ServeOrder
  <2>1. PICK c \in Orders : status' = MainApply(status, c.name, c.arg) /\ cmd' = c
    BY <1>4 DEF ServeOrder
  <2>2. c \in Order
    BY DigicanAssumption
  <2>3. StatusTypes'
    BY <2>1, <2>2, MainApplyType, Orderly DEF StatusTypes
  <2>4. CountTypes' /\ WireTypes'
    BY <1>4 DEF ServeOrder, CountTypes, WireTypes
  <2>5. Bounds'
    BY <1>4, DigicanAssumption DEF ServeOrder, Bounds
  <2>6. ThreadTypes'
    BY <1>4, <2>1, <2>2 DEF ServeOrder, ThreadTypes
  <2>7. HistoryTypes'
    BY <1>4 DEF ServeOrder, HistoryTypes, Unless
  <2>8. QED
    BY <2>3, <2>4, <2>5, <2>6, <2>7, TypeNext, Zenon
<1>5. CASE Call
  <2>1. PICK c \in Calls :
          status' = [status EXCEPT !.faults = c.flt, !.touchs = c.toc,
                                   !.refusals = c.reh, !.eliminated = c.eli]
    BY <1>5 DEF Call
  <2>2. c.flt \in Int /\ c.toc \in Int /\ c.reh \in Int /\ c.eli \in Int
    BY DigicanAssumption
  <2>3. StatusTypes'
    BY <2>1, <2>2 DEF StatusTypes, Status
  <2>4. CountTypes' /\ WireTypes' /\ ThreadTypes'
    BY <1>5 DEF Call, CountTypes, WireTypes, ThreadTypes
  <2>5. Bounds'
    BY <1>5, DigicanAssumption DEF Call, Bounds
  <2>6. HistoryTypes'
    BY <1>5 DEF Call, HistoryTypes, Unless
  <2>7. QED
    BY <2>3, <2>4, <2>5, <2>6, TypeNext, Zenon
<1>6. CASE module_write
  <2>1. StatusTypes' /\ WireTypes' /\ Bounds'
    BY <1>6 DEF module_write, StatusTypes, WireTypes, Bounds
  <2>2. CountTypes'
    <3>1. panel' \in {panel, Shown(cmd.name, digican')} /\ digican' = NewCounts(cmd.name)
      BY <1>6 DEF module_write
    <3>2. QED
      BY <3>1, WriteTypes DEF CountTypes
  <2>3. ThreadTypes'
    BY <1>6, Orderly DEF module_write, ThreadTypes
  <2>4. HistoryTypes'
    <3>1. apart' \in BOOLEAN
      BY <1>6, Zenon DEF module_write
    <3>2. written' \in Score \cup {"none"}
      BY <1>6 DEF module_write, HistoryTypes
    <3>3. QED
      BY <3>1, <3>2 DEF HistoryTypes
  <2>5. QED
    BY <2>1, <2>2, <2>3, <2>4, TypeNext, Zenon
<1>7. CASE UNCHANGED vars
  BY <1>7, Zenon DEF vars, TypeOK
<1>8. QED
  BY <1>1, <1>2, <1>3, <1>4, <1>5, <1>6, <1>7 DEF Next

(* The counts of the module stay numbers and the panel shows no count below*)
(* zero, whatever lines are cut or read together and whichever writes fail.*)
THEOREM TypeCorrect == Spec => []TypeOK
BY InitTypes, NextTypes, PTL DEF Spec

(***************************************************************************)
(* The counts.  A panel never counts below zero, so the module's own counts*)
(* must not either; and the marks of the last command that was written are *)
(* in them until the status changes.                                       *)
(***************************************************************************)
CountsSent == \A c \in Orders : c.name = "data" => c.arg.n >= 0 /\ c.arg.r >= 0

StatusCounts == ShownFaults(status) >= 0 /\ status.refusals >= 0
OwnCounts == digican.faltas >= 0 /\ digican.rehuses >= 0
Sent ==
  /\ written \in {"refusal", "data"} => digican.rehuses = status.refusals
  /\ written = "data" => digican.faltas = ShownFaults(status)

(* the chronometer sends no marks *)
Plain == msg.name # "data"

CountInv == Plain /\ StatusCounts /\ OwnCounts /\ Sent /\ CountsArePanel

LEMMA InitCounts == Init => CountInv
<1> SUFFICES ASSUME Init PROVE CountInv
  OBVIOUS
<1>1. StatusCounts
  BY DEF Init, StatusCounts, DefaultStatus, ShownFaults
<1>2. Plain /\ OwnCounts /\ Sent
  BY DEF Init, NoOrder, NoCounts, Plain, OwnCounts, Sent
<1>3. CountsArePanel
  BY DEF Init, NoCounts, Blank, CountsArePanel
<1>4. QED
  BY <1>1, <1>2, <1>3 DEF CountInv

(* Marks that do not change leave what was written true.                   *)
LEMMA SentKept ==
  ASSUME Sent, TypeOK, status' \in Status, Unless(Marked(status, status')), digican' = digican
  PROVE  Sent'
<1>1. CASE Marked(status, status')
  <2>1. written' = "none"
    BY <1>1, Zenon DEF Unless
  <2>2. QED
    BY <2>1 DEF Sent
<1>2. CASE ~Marked(status, status')
  <2>1. written' = written
    BY <1>2, Zenon DEF Unless
  <2>2. /\ status'.refusals = status.refusals
        /\ status'.faults = status.faults /\ status'.touchs = status.touchs
    BY <1>2 DEF Marked
  <2>3. QED
    BY <2>1, <2>2 DEF Sent, ShownFaults
<1>3. QED
  BY <1>1, <1>2

(* A write that arrives moves the panel by as much as the counts.          *)
LEMMA WriteCounts ==
  ASSUME TypeOK, StatusCounts, OwnCounts, NEW name
  PROVE  /\ NewCounts(name).faltas >= 0 /\ NewCounts(name).rehuses >= 0
         /\ name = "refusal" => NewCounts(name).rehuses = status.refusals
         /\ name = "data" => /\ NewCounts(name).rehuses = status.refusals
                             /\ NewCounts(name).faltas = ShownFaults(status)
         /\ name \notin {"fault", "refusal", "data", "reset", "clock"} => NewCounts(name) = digican
         /\ name \in {"reset", "clock"} => NewCounts(name) = NoCounts
<1>1. ShownFaults(status) \in Int /\ status.refusals \in Int
  BY SMTT(20) DEF TypeOK, Status, ShownFaults
<1>2. FaultCount >= 0 /\ FaultCount \in Int
  BY <1>1 DEF FaultCount, TypeOK, Counts, StatusCounts, OwnCounts
<1>3. QED
  BY <1>1, <1>2 DEF NewCounts, NoCounts, TypeOK, Counts, StatusCounts, OwnCounts

LEMMA ShownCounts ==
  ASSUME TypeOK, NEW n \in Counts, n.faltas >= 0, n.rehuses >= 0, NEW name,
         name \in {"reset", "clock"} => n = NoCounts,
         \/ digican.faltas = panel.faltas /\ digican.rehuses = panel.rehuses
         \/ name \in {"reset", "clock"}
  PROVE  Shown(name, n).faltas = n.faltas /\ Shown(name, n).rehuses = n.rehuses
<1>1. CASE name \in {"reset", "clock"}
  BY <1>1 DEF Shown, Blank, NoCounts
<1>2. CASE name \notin {"reset", "clock"}
  <2>1. panel.faltas + n.faltas - digican.faltas = n.faltas
    BY <1>2 DEF TypeOK, Counts
  <2>2. panel.rehuses + n.rehuses - digican.rehuses = n.rehuses
    BY <1>2 DEF TypeOK, Counts
  <2>3. AtLeast0(n.faltas) = n.faltas /\ AtLeast0(n.rehuses) = n.rehuses
    BY DEF AtLeast0, Counts
  <2>4. QED
    BY <1>2, <2>1, <2>2, <2>3 DEF Shown
<1>3. QED
  BY <1>1, <1>2

LEMMA PanelKept ==
  ASSUME CountsArePanel, digican' = digican,
         panel'.faltas = panel.faltas, panel'.rehuses = panel.rehuses, ~apart' => ~apart
  PROVE  CountsArePanel'
BY Zenon DEF CountsArePanel

LEMMA PressCounts == ASSUME TypeOK, CountInv, Press PROVE CountInv'
<1>0. Plain /\ StatusCounts /\ OwnCounts /\ Sent /\ CountsArePanel
  BY DEF CountInv
<1>1. digican' = digican /\ status' = status /\ written' = written /\ msg' = msg
  BY DEF Press
<1>2. Plain' /\ StatusCounts' /\ OwnCounts' /\ Sent'
  BY <1>0, <1>1 DEF Plain, StatusCounts, ShownFaults, OwnCounts, Sent
<1>3. PICK l \in Line \ {"tail"} :
        /\ panel' = CASE l = "RESET" -> Blank
                      [] l = "ELIMI" -> [panel EXCEPT !.eliminado = 1]
                      [] OTHER       -> panel
        /\ apart' = (apart \/ (l = "RESET" /\ digican # NoCounts))
  BY Zenon DEF Press
<1>4. CASE l = "RESET"
  <2>1. panel' = Blank
    BY <1>3, <1>4
  <2>2. ~apart' => digican = NoCounts
    BY <1>3, <1>4, Zenon
  <2>3. Blank.faltas = NoCounts.faltas /\ Blank.rehuses = NoCounts.rehuses
    BY DEF Blank, NoCounts
  <2>4. CountsArePanel'
    BY <1>1, <2>1, <2>2, <2>3, Zenon DEF CountsArePanel
  <2>5. QED
    BY <1>2, <2>4, Zenon DEF CountInv
<1>5. CASE l # "RESET"
  <2>1. panel'.faltas = panel.faltas /\ panel'.rehuses = panel.rehuses
    BY <1>3, <1>5 DEF TypeOK
  <2>2. ~apart' => ~apart
    BY <1>3, Zenon
  <2>3. QED
    BY <1>0, <1>1, <1>2, <2>1, <2>2, PanelKept, Zenon DEF CountInv
<1>6. QED
  BY <1>4, <1>5

LEMMA ReadCounts == ASSUME TypeOK, CountInv, module_read PROVE CountInv'
<1>0. Plain /\ StatusCounts /\ OwnCounts /\ Sent /\ CountsArePanel
  BY DEF CountInv
<1>1. /\ digican' = digican /\ status' = status /\ written' = written
      /\ panel' = panel /\ apart' = apart
  BY Zenon DEF module_read
<1>2. StatusCounts' /\ OwnCounts' /\ Sent' /\ CountsArePanel'
  BY <1>0, <1>1, Zenon DEF StatusCounts, OwnCounts, Sent, CountsArePanel, ShownFaults
<1>3. Plain'
  <2>1. Head(wire) \in Line
    BY HeadTailProperties DEF module_read, TypeOK
  <2>2. msg' \in Parsed(Head(wire)) \cup {NoOrder}
    BY DEF module_read
  <2>3. QED
    BY <2>1, <2>2 DEF Parsed, NoOrder, Plain
<1>4. QED
  BY <1>2, <1>3, Zenon DEF CountInv

(* A command or a call that changes the status only.                       *)
LEMMA StatusStep ==
  ASSUME TypeOK, CountInv, Plain', status' \in Status,
         ShownFaults(status') >= 0, status'.refusals >= 0,
         Unless(Marked(status, status')), UNCHANGED <<digican, panel, apart>>
  PROVE  CountInv'
<1>0. OwnCounts /\ Sent /\ CountsArePanel
  BY DEF CountInv
<1>1. StatusCounts'
  BY DEF StatusCounts, ShownFaults
<1>2. OwnCounts' /\ CountsArePanel'
  BY <1>0, Zenon DEF OwnCounts, CountsArePanel
<1>3. Sent'
  BY <1>0, SentKept
<1>4. QED
  BY <1>1, <1>2, <1>3, Zenon DEF CountInv

LEMMA ServeCounts ==
  ASSUME CountsSent, TypeOK, CountInv, ServeChrono \/ ServeOrder \/ Call
  PROVE  CountInv'
<1>0. /\ status \in Status /\ msg \in Order
      /\ ShownFaults(status) >= 0 /\ status.refusals >= 0 /\ msg.name # "data"
  BY DEF TypeOK, CountInv, StatusCounts, Plain
<1>1. CASE ServeChrono
  <2>1. msg.arg \in Arg
    BY <1>0, Orderly
  <2>2. LET s == MainApply(status, msg.name, msg.arg)
        IN  s \in Status /\ ShownFaults(s) >= 0 /\ s.refusals >= 0
    BY <1>0, <2>1, MainApplyType, ApplyCounts
  <2>3. status' \in Status /\ ShownFaults(status') >= 0 /\ status'.refusals >= 0
    BY <1>0, <1>1, <2>2 DEF ServeChrono
  <2>4. Plain'
    BY <1>1 DEF ServeChrono, NoOrder, Plain
  <2>5. Unless(Marked(status, status')) /\ UNCHANGED <<digican, panel, apart>>
    BY <1>1, Zenon DEF ServeChrono
  <2>6. QED
    BY <2>3, <2>4, <2>5, StatusStep
<1>2. CASE ServeOrder
  <2>1. PICK c \in Orders : status' = MainApply(status, c.name, c.arg)
    BY <1>2 DEF ServeOrder
  <2>2. c.arg \in Arg /\ (c.name = "data" => c.arg.n >= 0 /\ c.arg.r >= 0)
    BY DigicanAssumption, Orderly DEF CountsSent
  <2>3. status' \in Status /\ ShownFaults(status') >= 0 /\ status'.refusals >= 0
    BY <1>0, <2>1, <2>2, MainApplyType, ApplyCounts
  <2>4. Plain'
    BY <1>0, <1>2 DEF ServeOrder, Plain
  <2>5. Unless(Marked(status, status')) /\ UNCHANGED <<digican, panel, apart>>
    BY <1>2, Zenon DEF ServeOrder
  <2>6. QED
    BY <2>3, <2>4, <2>5, StatusStep
<1>3. CASE Call
  <2>1. PICK c \in Calls :
          status' = [status EXCEPT !.faults = c.flt, !.touchs = c.toc,
                                   !.refusals = c.reh, !.eliminated = c.eli]
    BY <1>3 DEF Call
  <2>2. c.flt \in Nat /\ c.toc \in Nat /\ c.reh \in Nat /\ c.eli \in Int
    BY DigicanAssumption
  <2>3. status' \in Status /\ ShownFaults(status') >= 0 /\ status'.refusals >= 0
    <3>1. status' \in Status
      <4>1. c.flt \in Int /\ c.toc \in Int /\ c.reh \in Int /\ c.eli \in Int
        BY <2>2
      <4>2. status \in Status
        BY <1>0
      <4>3. QED
        BY <2>1, <4>1, <4>2 DEF Status
    <3>2. status'.faults = c.flt /\ status'.touchs = c.toc /\ status'.refusals = c.reh
      BY <1>0, <2>1 DEF Status
    <3>3. QED
      BY <2>2, <3>1, <3>2 DEF ShownFaults
  <2>4. Plain'
    BY <1>0, <1>3 DEF Call, Plain
  <2>5. Unless(Marked(status, status')) /\ UNCHANGED <<digican, panel, apart>>
    BY <1>3, Zenon DEF Call
  <2>6. QED
    BY <2>3, <2>4, <2>5, StatusStep
<1>4. QED
  BY <1>1, <1>2, <1>3

LEMMA WriteStep == ASSUME TypeOK, CountInv, module_write PROVE CountInv'
<1>0. Plain /\ StatusCounts /\ OwnCounts /\ Sent /\ CountsArePanel
  BY DEF CountInv
<1> DEFINE name == cmd.name
           new == NewCounts(name)
<1>1. digican' = new /\ status' = status /\ msg' = msg
  BY DEF module_write
<1>2. /\ new \in Counts /\ new.faltas >= 0 /\ new.rehuses >= 0
      /\ name = "refusal" => new.rehuses = status.refusals
      /\ name = "data" => new.rehuses = status.refusals /\ new.faltas = ShownFaults(status)
      /\ name \notin {"fault", "refusal", "data", "reset", "clock"} => new = digican
      /\ name \in {"reset", "clock"} => new = NoCounts
  BY <1>0, WriteCounts, WriteTypes DEF TypeOK, StatusTypes, CountTypes
<1>3. written' = CASE name \in Score              -> name
                   [] name \in {"reset", "clock"} -> "none"
                   [] OTHER                       -> written
  BY DEF module_write
<1>4. \/ panel' = Shown(name, new) /\ apart' = (apart /\ name \notin {"reset", "clock"})
      \/ panel' = panel /\ apart' = TRUE
  BY <1>1, Zenon DEF module_write
<1> HIDE DEF new, name
<1>5. Plain' /\ StatusCounts' /\ OwnCounts'
  BY <1>0, <1>1, <1>2 DEF Plain, StatusCounts, OwnCounts, ShownFaults
<1>6. Sent'
  <2>1. CASE name \in {"refusal", "data"}
    BY <1>1, <1>2, <1>3, <2>1 DEF Sent, Score, ShownFaults
  <2>2. CASE name \in {"fault", "elim", "reset", "clock"}
    BY <1>3, <2>2 DEF Sent, Score
  <2>3. CASE name \notin {"fault", "refusal", "elim", "data", "reset", "clock"}
    <3>1. written' = written /\ digican' = digican
      BY <1>1, <1>2, <1>3, <2>3 DEF Score
    <3>2. QED
      BY <1>0, <1>1, <3>1 DEF Sent, ShownFaults
  <2>4. QED
    BY <2>1, <2>2, <2>3
<1>7. CountsArePanel'
  <2>1. CASE apart' = TRUE
    BY <2>1, Zenon DEF CountsArePanel
  <2>2. CASE panel' = Shown(name, new) /\ apart' = (apart /\ name \notin {"reset", "clock"})
    <3>1. CASE ~apart \/ name \in {"reset", "clock"}
      <4>1. \/ digican.faltas = panel.faltas /\ digican.rehuses = panel.rehuses
            \/ name \in {"reset", "clock"}
        BY <1>0, <3>1, Zenon DEF CountsArePanel
      <4>2. panel'.faltas = new.faltas /\ panel'.rehuses = new.rehuses
        BY <1>2, <2>2, <4>1, ShownCounts
      <4>3. QED
        BY <1>1, <4>2, Zenon DEF CountsArePanel
    <3>2. CASE ~(~apart \/ name \in {"reset", "clock"})
      BY <2>2, <3>2, Zenon DEF CountsArePanel
    <3>3. QED
      BY <3>1, <3>2
  <2>3. QED
    BY <1>4, <2>1, <2>2
<1>8. QED
  BY <1>5, <1>6, <1>7, Zenon DEF CountInv

LEMMA NextCounts == CountsSent /\ TypeOK /\ CountInv /\ [Next]_vars => CountInv'
<1>1. ASSUME CountInv, UNCHANGED vars PROVE CountInv'
  BY <1>1, Zenon
  DEF vars, CountInv, Plain, StatusCounts, OwnCounts, Sent, CountsArePanel
<1>2. QED
  BY <1>1, PressCounts, ReadCounts, ServeCounts, WriteStep DEF Next

LEMMA CountsAlways == ASSUME CountsSent PROVE Spec => []CountInv
<1>1. TypeOK /\ CountInv /\ [Next]_vars => CountInv'
  BY CountsSent, NextCounts
<1>2. QED
  BY <1>1, InitCounts, TypeCorrect, PTL DEF Spec

(* The module's own counts are what the panel shows until a write fails or *)
(* the chronometer is reset by hand, if no DATA asks for negative counts.  *)
THEOREM CountsAreShown == ASSUME CountsSent PROVE Spec => []CountsArePanel
<1>1. CountInv => CountsArePanel
  BY DEF CountInv
<1>2. QED
  BY <1>1, CountsAlways, PTL

(* After REFUSAL and DATA the panel shows the marks of the status.         *)
THEOREM WrittenMarksShown == ASSUME CountsSent PROVE Spec => []MarksShown
<1>1. CountInv => MarksShown
  <2> SUFFICES ASSUME CountInv PROVE MarksShown
    OBVIOUS
  <2>2. Sent /\ CountsArePanel
    BY DEF CountInv
  <2>3. CASE apart
    BY <2>3, Zenon DEF MarksShown
  <2>4. CASE ~apart
    <3>1. digican.faltas = panel.faltas /\ digican.rehuses = panel.rehuses
      BY <2>2, <2>4, Zenon DEF CountsArePanel
    <3>2. QED
      BY <2>2, <3>1 DEF Sent, MarksShown
  <2>5. QED
    BY <2>3, <2>4
<1>2. QED
  BY <1>1, CountsAlways, PTL
=============================================================================
