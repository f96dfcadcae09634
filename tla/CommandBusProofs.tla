-------------------------- MODULE CommandBusProofs --------------------------
(***************************************************************************)
(* Theorems of the command bus, for every set of configured managers and   *)
(* every set of commands they send.                                        *)
(***************************************************************************)
EXTENDS CommandBus, ChronoStatusProofs, SequenceTheorems, TLAPS

(* The arguments the chronometer managers supply are arguments.            *)
LEMMA DefaultArgType ==
  ASSUME NEW name PROVE DefaultArg(name) \in Arg
BY DEF DefaultArg, Arg, ArgKind, Plus, Num, NoArg

(* Every slot that main() fills belongs to a manager.                      *)
LEMMA SlotNameType ==
  \A n \in 0..4 : SlotName[n] \in Manager
BY DEF SlotName, Manager

-----------------------------------------------------------------------------
(* Type correctness: in particular the answer, the slot index and the      *)
(* number of live threads stay in range, and what managers put on the      *)
(* socket is always a request of a manager.                                *)
THEOREM TypeCorrect == Spec => []TypeOK
<1>1. Init => TypeOK
  <2> SUFFICES ASSUME Init PROVE TypeOK
    OBVIOUS
  <2>1. status \in Status
    BY SMT DEF Init, DefaultStatus, Status
  <2>2. cur \in Request /\ tok2 \in Arg
    BY DEF Init, NoRequest, NoArg, Request, Arg, ArgKind, Name, Manager
  <2>3. QED
    BY <2>1, <2>2, BusAssumption DEF Init, TypeOK, Phase
<1>2. TypeOK /\ [Next]_vars => TypeOK'
  <2> SUFFICES ASSUME TypeOK, [Next]_vars PROVE TypeOK'
    OBVIOUS
  <2> USE BusAssumption DEF TypeOK, Phase, mainVars, history
  <2>1. CASE CreateThread
    <3>1. slot' \in 0..5
      BY <2>1 DEF CreateThread
    <3>2. idx' \in [Manager -> BOOLEAN] /\ thr' \in [Manager -> Phase]
      BY <2>1 DEF CreateThread
    <3>3. /\ mpc' = mpc /\ mpc # "fan"
          /\ UNCHANGED <<status, entries, line, sock, cur, tok2, resp, alive, loop, sent, history>>
      BY <2>1, Zenon DEF CreateThread
    <3>4. QED
      BY <3>1, <3>2, <3>3
  <2>2. CASE BindSocket
    BY <2>2 DEF BindSocket
  <2>3. CASE Receive
    <3> DEFINE c == Head(sock)
    <3>1. sock # <<>> /\ c \in Request /\ Tail(sock) \in Seq(Request)
      <4>1. sock # <<>> /\ sock \in Seq(Request)
        BY <2>3 DEF Receive
      <4> QED
        BY <4>1, HeadTailProperties
    <3> HIDE DEF c
    <3>2. c.arg \in Arg /\ cur' = c /\ tok2' = c.arg /\ sock' = Tail(sock)
      BY <2>3, <3>1 DEF Receive, Request, c
    <3>3. status' \in Status
      <4>1. status' = status \/ status' = MainApply(status, c.name, c.arg)
        BY <2>3, Zenon DEF Receive, c
      <4> QED
        BY <3>2, <4>1, MainApplyType
    <3>4. accepted' \in Nat
      <4>1. accepted' = accepted \/ accepted' = accepted + 1
        BY <2>3, Zenon DEF Receive
      <4> QED
        BY <4>1
    <3>5. due' \in SUBSET Manager
      BY <2>3, Zenon DEF Receive
    <3>6. mpc' \in {"reply", "crash", "fan"} /\ resp' \in {"OK", "ERROR", "main_mgr_ERROR"}
      BY <2>3, Zenon DEF Receive
    <3>7. /\ slot' = 0 /\ alive' = 0
          /\ UNCHANGED <<idx, entries, thr, line, loop, sent, delivered>>
      BY <2>3, Zenon DEF Receive
    <3>8. QED
      BY <3>1, <3>2, <3>3, <3>4, <3>5, <3>6, <3>7
  <2>4. CASE FanOut
    <3> DEFINE m == SlotName[slot]
    <3>1. slot \in 0..3 /\ mpc = "fan"
      BY <2>4 DEF FanOut
    <3>2. m \in Manager
      BY <3>1, SlotNameType
    <3> HIDE DEF m
    <3>3. \/ slot' = slot + 1 /\ mpc' = mpc /\ alive' \in {alive, alive + 1}
          \/ slot' = slot /\ alive' = alive /\ mpc' = "crash"
      BY <2>4, Zenon DEF FanOut
    <3>4. status' \in Status
      <4>1. status' = status \/ status' = [status EXCEPT !.dorsal = tok2.n]
        BY <2>4, Zenon DEF FanOut
      <4>2. tok2.n \in Int
        BY DEF Arg
      <4>3. QED
        BY SMTT(20), <4>1, <4>2 DEF Status
    <3>5. tok2' \in Arg
      <4>1. tok2' = tok2 \/ tok2' = DefaultArg(cur.name)
        BY <2>4, Zenon DEF FanOut
      <4>2. QED
        BY <4>1, DefaultArgType
    <3>6. delivered' \in [Manager -> Seq(Nat)]
      <4>1. delivered' = delivered \/ delivered' = [delivered EXCEPT ![m] = Append(delivered[m], accepted)]
        BY <2>4, Zenon DEF FanOut, m
      <4>2. delivered[m] \in Seq(Nat) /\ accepted \in Nat
        BY <3>2
      <4>3. Append(delivered[m], accepted) \in Seq(Nat)
        BY <4>2, AppendProperties
      <4>4. QED
        BY <4>1, <4>3
    <3>7. resp' \in {"OK", "ERROR", "main_mgr_ERROR"}
      BY <2>4, Zenon DEF FanOut
    <3>8. UNCHANGED <<idx, entries, thr, line, sock, cur, loop, sent, accepted, due>>
      BY <2>4, Zenon DEF FanOut
    <3>9. QED
      BY <3>1, <3>3, <3>4, <3>5, <3>6, <3>7, <3>8
  <2>5. CASE EndFanOut
    BY <2>5 DEF EndFanOut
  <2>6. CASE Reply
    BY <2>6 DEF Reply, Request
  <2>7. ASSUME NEW m \in Manager, Starting(m) PROVE TypeOK'
    <3>1. CASE PublishEntries(m)
      BY <3>1 DEF PublishEntries
    <3>2. CASE EnterLoop(m)
      BY <3>2 DEF EnterLoop
    <3>3. CASE InitFails(m)
      BY <3>3 DEF InitFails
    <3>4. CASE ChronoInitFails
      BY <3>4 DEF ChronoInitFails
    <3>5. CASE LoadModule
      BY <3>5 DEF LoadModule
    <3>6. QED
      BY <2>7, <3>1, <3>2, <3>3, <3>4, <3>5 DEF Starting
  <2>8. ASSUME NEW m \in Manager, SendRequest(m) PROVE TypeOK'
    <3>1. PICK c \in Sends[m] :
            sock' = Append(sock, [src |-> m, name |-> c.name, arg |-> c.arg, exit |-> c.exit])
      BY <2>8 DEF SendRequest
    <3>2. sock' \in Seq(Request)
      <4>1. c \in Command
        BY <3>1
      <4>2. [src |-> m, name |-> c.name, arg |-> c.arg, exit |-> c.exit] \in Request
        BY <4>1 DEF Command, Request
      <4> QED
        BY <3>1, <4>2, AppendProperties
    <3>3. line' \in [typed : BOOLEAN, eof : BOOLEAN]
      BY <2>8 DEF SendRequest, KeepLine
    <3>4. QED
      BY <2>8, <3>2, <3>3 DEF SendRequest
  <2>9. ASSUME NEW m \in Manager, SendRefused(m) PROVE TypeOK'
    <3>1. line' \in [typed : BOOLEAN, eof : BOOLEAN]
      BY <2>9 DEF SendRefused, KeepLine
    <3>2. thr' \in [Manager -> Phase] /\ idx' \in [Manager -> BOOLEAN]
      BY <2>9 DEF SendRefused
    <3>3. sent' \in 0..MaxRequests
      BY <2>9 DEF SendRefused
    <3>4. UNCHANGED <<status, entries, sock, mainVars, history>>
      BY <2>9, Zenon DEF SendRefused
    <3>5. QED
      BY <3>1, <3>2, <3>3, <3>4
  <2>10. CASE ConsoleEof
    <3>1. [src |-> "console", name |-> "short", arg |-> NoArg, exit |-> TRUE] \in Request
      <4>1. NoArg \in Arg
        BY DEF NoArg, Arg, ArgKind
      <4> QED
        BY <4>1, Zenon DEF Request, Manager, Name
    <3>2. sock' \in Seq(Request)
      <4> DEFINE r == [src |-> "console", name |-> "short", arg |-> NoArg, exit |-> TRUE]
      <4>1. Append(sock, r) \in Seq(Request)
        <5> HIDE DEF r
        <5> QED
          BY <3>1, AppendProperties DEF r
      <4>2. sock' = Append(sock, r) \/ sock' = sock
        BY <2>10, Zenon DEF ConsoleEof
      <4>3. QED
        BY <4>1, <4>2
    <3>3. QED
      BY <2>10, <3>2 DEF ConsoleEof
  <2>11. CASE ConsoleEmptyLine
    BY <2>11 DEF ConsoleEmptyLine
  <2>12. CASE QrReadFails
    BY <2>12 DEF QrReadFails
  <2>13. CASE UNCHANGED vars
    BY <2>13 DEF vars
  <2>14. QED
    BY <2>1, <2>2, <2>3, <2>4, <2>5, <2>6, <2>7, <2>8, <2>9, <2>10, <2>11, <2>12, <2>13
       DEF Next, Main
<1>3. QED
  BY <1>1, <1>2, PTL DEF Spec

-----------------------------------------------------------------------------
(* Request accounting.  The strengthening says what holds before the       *)
(* socket is bound: nothing is in it, a console line that was refused has  *)
(* ended the console, and slots not reached yet have no thread.            *)
StartUp ==
  mpc = "create" => /\ sock = <<>>
                    /\ line.typed => thr["console"] = "ended"
                    /\ \A n \in slot..4 : thr[SlotName[n]] = "none"

(* What is in the socket, and in hands, comes from a manager.              *)
LEMMA Sources ==
  ASSUME TypeOK
  PROVE  /\ sock \in Seq(Request) /\ Len(sock) \in Nat
         /\ \A i \in 1..Len(sock) : sock[i] \in Request /\ sock[i].src \in Manager
         /\ cur.src \in Manager
         /\ thr \in [Manager -> Phase]
<1>1. sock \in Seq(Request) /\ cur \in Request /\ thr \in [Manager -> Phase]
  BY DEF TypeOK
<1>2. Len(sock) \in Nat
  BY <1>1, LenProperties
<1>3. \A i \in 1..Len(sock) : sock[i] \in Request
  BY <1>1, ElementOfSeq
<1>4. \A r \in Request : r.src \in Manager
  BY DEF Request
<1>5. QED
  BY <1>1, <1>2, <1>3, <1>4

(* Who waits and what is outstanding do not change.                        *)
LEMMA QuietStep ==
  ASSUME TypeOK, TypeOK', RequestAccounting,
         sock' = sock, cur' = cur, InHands' => InHands,
         Running' => Running /\ (InHands => InHands'),
         \A m \in Manager : thr'[m] = "wait" <=> thr[m] = "wait"
  PROVE  RequestAccounting'
<1>1. QED
  BY Sources DEF RequestAccounting

(* A thread that is not waiting puts one request on the socket and waits.  *)
LEMMA SendStep ==
  ASSUME TypeOK, RequestAccounting, NEW m \in Manager, NEW r \in Request,
         r.src = m, thr[m] # "wait",
         sock' = Append(sock, r), thr' = [thr EXCEPT ![m] = "wait"],
         cur' = cur, InHands' <=> InHands, Running' <=> Running
  PROVE  RequestAccounting'
<1>1. /\ sock \in Seq(Request) /\ cur.src \in Manager
      /\ thr \in [Manager -> Phase]
  BY Sources
<1>2. /\ Len(sock') = Len(sock) + 1
      /\ sock'[Len(sock) + 1] = r
      /\ \A i \in 1..Len(sock) : sock'[i] = sock[i]
  BY <1>1, AppendProperties
<1>3. \A i \in 1..Len(sock) : sock[i].src \in Manager /\ sock[i].src # m
  BY Sources DEF RequestAccounting
<1>4. /\ thr'[m] = "wait"
      /\ \A k \in Manager : k # m => thr'[k] = thr[k]
  BY <1>1
<1>5. Len(sock) \in Nat /\ 1..Len(sock') = 1..Len(sock) \cup {Len(sock) + 1}
  BY <1>1, <1>2, LenProperties
<1>6. \A i \in 1..Len(sock') : thr'[sock'[i].src] = "wait"
  BY <1>2, <1>3, <1>4, <1>5 DEF RequestAccounting
<1>7. \A i, j \in 1..Len(sock') : sock'[i].src = sock'[j].src => i = j
  BY <1>2, <1>3, <1>5 DEF RequestAccounting
<1>8. InHands' => /\ thr'[cur'.src] = "wait"
                  /\ \A i \in 1..Len(sock') : sock'[i].src # cur'.src
  BY <1>1, <1>2, <1>4, <1>5 DEF RequestAccounting
<1>9. Running' => \A k \in Manager : thr'[k] = "wait" =>
          \/ InHands' /\ cur'.src = k
          \/ \E i \in 1..Len(sock') : sock'[i].src = k
  <2> SUFFICES ASSUME Running, NEW k \in Manager, thr'[k] = "wait"
               PROVE  \/ InHands /\ cur.src = k
                      \/ \E i \in 1..Len(sock') : sock'[i].src = k
    OBVIOUS
  <2>1. CASE k = m
    BY <2>1, <1>2, <1>5
  <2>2. CASE k # m
    BY <2>2, <1>2, <1>4, <1>5 DEF RequestAccounting
  <2>3. QED
    BY <2>1, <2>2
<1>10. QED
  BY <1>6, <1>7, <1>8, <1>9 DEF RequestAccounting

(* The main thread takes the first request off the socket; whether it goes *)
(* on to the fan-out, to the answer or dies, the request's sender waits.   *)
LEMMA ReceiveStep ==
  ASSUME TypeOK, RequestAccounting, Receive PROVE RequestAccounting'
<1>1. /\ sock \in Seq(Request) /\ sock # <<>>
      /\ sock' = Tail(sock) /\ cur' = sock[1] /\ thr' = thr /\ mpc = "recv"
  BY DEF TypeOK, Receive
<1>2. InHands' \/ ~Running'
  BY Zenon DEF Receive, InHands, Running
<1>3. /\ Len(sock) \in Nat /\ Len(sock) >= 1 /\ Len(sock') = Len(sock) - 1
      /\ \A i \in 1..Len(sock') : sock'[i] = sock[i + 1]
  BY <1>1, LenProperties, HeadTailProperties
<1>4. \A i \in 1..Len(sock) : i = 1 \/ (i - 1 \in 1..Len(sock') /\ sock[i] = sock'[i - 1])
  BY <1>1, <1>3
<1>5. \A i \in 1..Len(sock') : i + 1 \in 1..Len(sock) /\ i + 1 # 1
  BY <1>3
<1>6. 1 \in 1..Len(sock)
  BY <1>3
<1>7. \A i \in 1..Len(sock') : thr'[sock'[i].src] = "wait"
  BY <1>1, <1>3, <1>5 DEF RequestAccounting
<1>8. \A i, j \in 1..Len(sock') : sock'[i].src = sock'[j].src => i = j
  <2> TAKE i, j \in 1..Len(sock')
  <2>1. /\ i + 1 \in 1..Len(sock) /\ sock'[i] = sock[i + 1]
        /\ j + 1 \in 1..Len(sock) /\ sock'[j] = sock[j + 1]
    BY <1>3, <1>5
  <2>2. sock[i + 1].src = sock[j + 1].src => i + 1 = j + 1
    BY <2>1, Zenon DEF RequestAccounting
  <2>3. i \in Int /\ j \in Int
    BY <1>3
  <2>4. QED
    BY <2>1, <2>2, <2>3
<1>9. /\ thr'[cur'.src] = "wait"
      /\ \A i \in 1..Len(sock') : sock'[i].src # cur'.src
  BY <1>1, <1>3, <1>5, <1>6 DEF RequestAccounting
<1>10. Running' => \A m \in Manager : thr'[m] = "wait" =>
          \/ InHands' /\ cur'.src = m
          \/ \E i \in 1..Len(sock') : sock'[i].src = m
  <2> SUFFICES ASSUME Running', NEW m \in Manager, thr[m] = "wait"
               PROVE  \/ cur'.src = m
                      \/ \E i \in 1..Len(sock') : sock'[i].src = m
    BY <1>1, <1>2
  <2>1. PICK i \in 1..Len(sock) : sock[i].src = m
    BY <1>1 DEF RequestAccounting, InHands, Running
  <2>2. QED
    BY <2>1, <1>1, <1>4
<1>11. QED
  BY <1>7, <1>8, <1>9, <1>10 DEF RequestAccounting

(* The client is answered: it no longer waits, and it had nothing else in  *)
(* the socket.                                                             *)
LEMMA ReplyStep ==
  ASSUME TypeOK, RequestAccounting, Reply PROVE RequestAccounting'
<1>1. /\ thr \in [Manager -> Phase] /\ cur.src \in Manager /\ InHands
      /\ \A i \in 1..Len(sock) : sock[i].src \in Manager
  BY Sources DEF Reply, InHands
<1>2. sock' = sock /\ cur' = cur /\ ~InHands'
  BY DEF Reply, InHands
<1>3. /\ thr'[cur.src] # "wait"
      /\ \A m \in Manager : m # cur.src => thr'[m] = thr[m]
  BY <1>1 DEF Reply
<1>4. \A i \in 1..Len(sock) : sock[i].src # cur.src
  BY <1>1 DEF RequestAccounting
<1>5. Running
  BY DEF Reply, Running
<1>6. QED
  BY <1>1, <1>2, <1>3, <1>4, <1>5 DEF RequestAccounting

(* Until the socket is bound nothing is on it, the threads of the slots    *)
(* still to be filled do not exist, and a console that typed a line has    *)
(* been refused and is gone.                                               *)
LEMMA StartUpStep ==
  ASSUME TypeOK, StartUp, [Next]_vars PROVE StartUp'
<1> SUFFICES ASSUME mpc' = "create"
             PROVE  /\ sock' = <<>>
                    /\ line'.typed => thr'["console"] = "ended"
                    /\ \A n \in slot'..4 : thr'[SlotName[n]] = "none"
  BY DEF StartUp
<1> USE DEF TypeOK
<1>1. mpc = "create"
  BY Zenon DEF Next, Main, CreateThread, BindSocket, Receive, FanOut, EndFanOut, Reply,
     Starting, PublishEntries, EnterLoop, InitFails, ChronoInitFails, LoadModule, SendRequest, SendRefused,
     ConsoleEof, ConsoleEmptyLine, QrReadFails, vars, mainVars
<1>2. /\ sock = <<>> /\ (line.typed => thr["console"] = "ended")
      /\ \A n \in slot..4 : thr[SlotName[n]] = "none"
      /\ slot \in 0..5
  BY <1>1 DEF StartUp
<1>3. CASE CreateThread
  <2>1. /\ slot \in 0..4 /\ slot' = slot + 1 /\ sock' = sock /\ line' = line
    BY <1>2, <1>3 DEF CreateThread
  <2>2. \A n \in slot'..4 : n \in slot..4 /\ n # slot /\ n \in 0..4
    BY <2>1
  <2>3. \A i, j \in 0..4 : SlotName[i] = SlotName[j] => i = j
    BY DEF SlotName
  <2>4. \A n \in slot'..4 : SlotName[n] # SlotName[slot] /\ SlotName[n] \in Manager
    BY <2>1, <2>2, <2>3, SlotNameType
  <2>5. thr[SlotName[slot]] = "none" /\ SlotName[slot] \in Manager
    BY <1>2, <2>1, SlotNameType
  <2>6. thr' = thr \/ thr' = [thr EXCEPT ![SlotName[slot]] = "created"]
    BY <1>3, Zenon DEF CreateThread
  <2>7. \A m \in Manager : m # SlotName[slot] => thr'[m] = thr[m]
    BY <2>6
  <2>8. "console" \in Manager
    BY DEF Manager
  <2>9. line.typed => "console" # SlotName[slot]
    BY <1>2, <2>5
  <2>10. QED
    BY <1>2, <2>1, <2>2, <2>4, <2>7, <2>8, <2>9
<1>4. ASSUME NEW m \in Manager, thr[m] # "none", m = "console" => thr[m] # "ended",
             NEW p \in Phase, thr' = [thr EXCEPT ![m] = p],
             sock' = sock, line' = line, slot' = slot
      PROVE  /\ sock' = <<>>
             /\ line'.typed => thr'["console"] = "ended"
             /\ \A n \in slot'..4 : thr'[SlotName[n]] = "none"
  <2>1. \A n \in slot..4 : SlotName[n] \in Manager /\ SlotName[n] # m
    BY SMTT(20), <1>2, <1>4, SlotNameType
  <2>2. \A k \in Manager : k # m => thr'[k] = thr[k]
    BY <1>4
  <2>3. "console" \in Manager
    BY DEF Manager
  <2>4. QED
    BY <1>2, <1>4, <2>1, <2>2, <2>3
<1>5. ASSUME NEW m \in Manager, Starting(m)
      PROVE  /\ sock' = <<>>
             /\ line'.typed => thr'["console"] = "ended"
             /\ \A n \in slot'..4 : thr'[SlotName[n]] = "none"
  <2>1. /\ sock' = sock /\ line' = line /\ slot' = slot
    BY <1>5, Zenon DEF Starting, PublishEntries, EnterLoop, InitFails, ChronoInitFails, LoadModule, mainVars
  <2>2. \E k \in Manager, p \in Phase :
          thr[k] \notin {"none", "ended"} /\ thr' = [thr EXCEPT ![k] = p]
    BY <1>5 DEF Starting, PublishEntries, EnterLoop, InitFails, ChronoInitFails, LoadModule, Manager, Phase
  <2>3. QED
    BY <1>4, <2>1, <2>2
<1>6. ASSUME NEW m \in Manager, SendRefused(m)
      PROVE  /\ sock' = <<>>
             /\ line'.typed => thr'["console"] = "ended"
             /\ \A n \in slot'..4 : thr'[SlotName[n]] = "none"
  <2>1. /\ sock' = sock /\ slot' = slot /\ thr[m] = "loop"
    BY <1>6, Zenon DEF SendRefused, mainVars
  <2>2. "console" \in Manager /\ "ended" \in Phase
    BY DEF Manager, Phase
  <2>3. CASE m \in {"console", "qrcode"}
    <3>1. thr' = [thr EXCEPT ![m] = "ended"]
      BY <1>6, <2>3, Zenon DEF SendRefused
    <3>2. m # "console" => line' = line
      BY <1>6 DEF SendRefused, KeepLine
    <3>3. \A n \in slot..4 : SlotName[n] \in Manager /\ SlotName[n] # m
      <4> HIDE DEF TypeOK
      <4>1. \A n \in slot..4 : n \in 0..4
        BY <1>2
      <4>2. QED
        BY <1>2, <2>1, <4>1, SlotNameType
    <3>4. QED
      BY <1>2, <2>1, <2>2, <3>1, <3>2, <3>3
  <2>4. CASE m \notin {"console", "qrcode"}
    <3>1. thr' = thr /\ line' = line
      BY <1>6, <2>4 DEF SendRefused, KeepLine
    <3>2. QED
      BY <1>2, <2>1, <3>1
  <2>5. QED
    BY <2>3, <2>4
<1>7. CASE ConsoleEof
  <2>1. ~line.typed
    BY <1>2, <1>7 DEF ConsoleEof
  <2>2. /\ sock' = sock /\ thr' = thr /\ slot' = slot
        /\ line' = [line EXCEPT !.eof = TRUE]
    BY <1>7, <2>1, Zenon DEF ConsoleEof, mainVars
  <2>3. QED
    BY <1>2, <2>1, <2>2
<1>8. CASE ConsoleEmptyLine
  BY <1>2, <1>8 DEF ConsoleEmptyLine, mainVars
<1>9. CASE QrReadFails
  <2>1. /\ sock' = sock /\ line' = line /\ slot' = slot /\ thr["qrcode"] = "loop"
        /\ thr' = [thr EXCEPT !["qrcode"] = "ended"]
    BY <1>9, Zenon DEF QrReadFails, mainVars
  <2>2. "qrcode" \in Manager /\ "ended" \in Phase
    BY DEF Manager, Phase
  <2>3. QED
    BY <1>4, <2>1, <2>2
<1>10. CASE UNCHANGED vars
  BY <1>2, <1>10, Zenon DEF vars, mainVars
<1>11. ~BindSocket /\ ~Receive /\ ~FanOut /\ ~EndFanOut /\ ~Reply
       /\ \A m \in Manager : ~SendRequest(m)
  BY <1>1 DEF BindSocket, Receive, FanOut, EndFanOut, Reply, SendRequest
<1>12. QED
  BY <1>3, <1>5, <1>6, <1>7, <1>8, <1>9, <1>10, <1>11 DEF Next, Main

(* The send()/recv() discipline holds whatever managers are configured and *)
(* whatever they send: every waiting manager has exactly one request       *)
(* outstanding and only a waiting manager is answered.                     *)
THEOREM RequestsAccounted == Spec => []RequestAccounting
<1>1. Init => RequestAccounting /\ StartUp
  <2> SUFFICES ASSUME Init PROVE RequestAccounting /\ StartUp
    OBVIOUS
  <2>1. sock = <<>> /\ Len(sock) = 0 /\ ~InHands /\ mpc = "create" /\ ~line.typed
    BY DEF Init, InHands
  <2>2. \A m \in Manager : thr[m] = "none"
    BY DEF Init
  <2>3. RequestAccounting
    BY <2>1, <2>2 DEF RequestAccounting
  <2>4. StartUp
    BY <2>1, <2>2, SlotNameType DEF StartUp, Init
  <2>5. QED
    BY <2>3, <2>4
<1>2. /\ TypeOK /\ TypeOK' /\ RequestAccounting /\ StartUp /\ [Next]_vars
      => RequestAccounting' /\ StartUp'
  <2> SUFFICES ASSUME TypeOK, TypeOK', RequestAccounting, StartUp, [Next]_vars
               PROVE  RequestAccounting'
    BY StartUpStep
  <2> USE DEF InHands, Running
  <2>0. thr \in [Manager -> Phase]
    BY DEF TypeOK
  <2>1. CASE CreateThread
    <3>1. /\ mpc = "create" /\ mpc' = mpc /\ sock' = sock /\ cur' = cur /\ slot \in 0..4
      BY <2>1 DEF CreateThread, TypeOK
    <3>2. thr[SlotName[slot]] = "none"
      BY <3>1 DEF StartUp
    <3>3. thr' = thr \/ thr' = [thr EXCEPT ![SlotName[slot]] = "created"]
      BY <2>1, Zenon DEF CreateThread
    <3>4. \A m \in Manager : thr'[m] = "wait" <=> thr[m] = "wait"
      BY <2>0, <3>2, <3>3
    <3>5. QED
      BY <3>1, <3>4, QuietStep
  <2>2. CASE BindSocket
    <3>1. mpc = "create" /\ mpc' \in {"recv", "abort"} /\ thr' = thr /\ sock' = sock /\ cur' = cur
      BY <2>2 DEF BindSocket
    <3>2. QED
      BY <3>1, QuietStep
  <2>3. CASE Receive
    BY <2>3, ReceiveStep
  <2>4. CASE FanOut
    <3>1. /\ mpc = "fan" /\ mpc' \in {"fan", "crash"}
          /\ UNCHANGED <<idx, entries, thr, line, sock, cur, loop, sent, accepted, due>>
      BY <2>4, Zenon DEF FanOut
    <3>2. QED
      BY <3>1, QuietStep
  <2>5. CASE EndFanOut
    <3>1. mpc = "fan" /\ mpc' = "reply" /\ thr' = thr /\ sock' = sock /\ cur' = cur
      BY <2>5 DEF EndFanOut
    <3>2. QED
      BY <3>1, QuietStep
  <2>6. CASE Reply
    BY <2>6, ReplyStep
  <2>7. ASSUME NEW m \in Manager, NEW p \in Phase \ {"wait"}, thr[m] # "wait",
               thr' = [thr EXCEPT ![m] = p], sock' = sock, cur' = cur, mpc' = mpc
        PROVE  RequestAccounting'
    <3>1. \A k \in Manager : thr'[k] = "wait" <=> thr[k] = "wait"
      BY <2>0, <2>7
    <3>2. QED
      BY <2>7, <3>1, QuietStep
  <2>8. ASSUME thr' = thr, sock' = sock, cur' = cur, mpc' = mpc PROVE RequestAccounting'
    BY <2>8, QuietStep
  <2>9. ASSUME NEW m \in Manager, Starting(m) PROVE RequestAccounting'
    <3>1. sock' = sock /\ cur' = cur /\ mpc' = mpc
      BY <2>9, Zenon DEF Starting, PublishEntries, EnterLoop, InitFails, ChronoInitFails, LoadModule, mainVars
    <3>2. \E k \in Manager, p \in Phase \ {"wait"} :
            thr[k] # "wait" /\ thr' = [thr EXCEPT ![k] = p]
      BY <2>9 DEF Starting, PublishEntries, EnterLoop, InitFails, ChronoInitFails, LoadModule, Manager, Phase
    <3>3. QED
      BY <2>7, <3>1, <3>2
  <2>10. ASSUME NEW m \in Manager, SendRequest(m) PROVE RequestAccounting'
    <3>1. PICK c \in Sends[m] :
            sock' = Append(sock, [src |-> m, name |-> c.name, arg |-> c.arg, exit |-> c.exit])
      BY <2>10 DEF SendRequest
    <3>2. c \in Command
      BY BusAssumption
    <3> DEFINE r == [src |-> m, name |-> c.name, arg |-> c.arg, exit |-> c.exit]
    <3>3. r \in Request /\ r.src = m
      BY <3>2 DEF Command, Request
    <3>4. sock' = Append(sock, r)
      BY <3>1
    <3> HIDE DEF r
    <3>5. thr[m] # "wait" /\ thr' = [thr EXCEPT ![m] = "wait"] /\ cur' = cur /\ mpc' = mpc
      BY <2>10 DEF SendRequest, mainVars
    <3>6. QED
      BY <3>3, <3>4, <3>5, SendStep
  <2>11. ASSUME NEW m \in Manager, SendRefused(m) PROVE RequestAccounting'
    <3>1. thr[m] = "loop" /\ sock' = sock /\ cur' = cur /\ mpc' = mpc
      BY <2>11, Zenon DEF SendRefused, mainVars
    <3>2. thr' = thr \/ thr' = [thr EXCEPT ![m] = "ended"]
      BY <2>11, Zenon DEF SendRefused
    <3>3. "ended" \in Phase \ {"wait"} /\ thr[m] # "wait"
      BY <3>1 DEF Phase
    <3>4. QED
      BY <2>7, <2>8, <3>1, <3>2, <3>3
  <2>12. CASE ConsoleEof
    <3> DEFINE r == [src |-> "console", name |-> "short", arg |-> NoArg, exit |-> TRUE]
    <3>1. r.src = "console" /\ "console" \in Manager
      BY DEF Manager
    <3>2. r \in Request
      <4>1. NoArg \in Arg
        BY DEF NoArg, Arg, ArgKind
      <4>2. QED
        BY <4>1, Zenon DEF Request, Manager, Name
    <3>3. \/ sock' = Append(sock, r) /\ thr' = [thr EXCEPT !["console"] = "wait"]
          \/ sock' = sock /\ thr' = thr
      BY <2>12, Zenon DEF ConsoleEof
    <3>4. thr["console"] # "wait" /\ cur' = cur /\ mpc' = mpc
      BY <2>12 DEF ConsoleEof, mainVars
    <3> HIDE DEF r
    <3>5. QED
      BY <2>8, <3>1, <3>2, <3>3, <3>4, SendStep
  <2>13. CASE ConsoleEmptyLine
    BY <2>8, <2>13, Zenon DEF ConsoleEmptyLine, mainVars
  <2>14. CASE QrReadFails
    <3>1. /\ thr["qrcode"] = "loop" /\ sock' = sock /\ cur' = cur /\ mpc' = mpc
          /\ thr' = [thr EXCEPT !["qrcode"] = "ended"]
      BY <2>14, Zenon DEF QrReadFails, mainVars
    <3>2. "qrcode" \in Manager /\ "ended" \in Phase \ {"wait"} /\ thr["qrcode"] # "wait"
      BY <3>1 DEF Manager, Phase
    <3>3. QED
      BY <2>7, <3>1, <3>2
  <2>15. CASE UNCHANGED vars
    BY <2>8, <2>15, Zenon DEF vars, mainVars
  <2>16. QED
    BY <2>1, <2>2, <2>3, <2>4, <2>5, <2>6, <2>9, <2>10, <2>11, <2>12, <2>13, <2>14, <2>15
       DEF Next, Main
<1>3. QED
  BY <1>1, <1>2, TypeCorrect, PTL DEF Spec

-----------------------------------------------------------------------------
(* Delivery.  What has been delivered to the slots the fan-out has still   *)
(* to visit is older than the command in hand.                             *)
OlderAhead ==
  mpc = "fan" => \A n \in slot..3 :
    \A i \in 1..Len(delivered[SlotName[n]]) : delivered[SlotName[n]][i] < accepted

(* No manager has two slots.                                               *)
LEMMA SlotNameInjective ==
  \A i, j \in 0..4 : SlotName[i] = SlotName[j] => i = j
BY DEF SlotName

(* Every manager the fan-out serves has one of the slots 0..3.             *)
LEMMA SlotNameOnto ==
  \A m \in Manager \ {"qrcode"} : \E n \in 0..3 : m = SlotName[n]
<1>1. /\ SlotName[0] = "console" /\ SlotName[1] = "chrono"
      /\ SlotName[2] = "web" /\ SlotName[3] = "ajax"
  BY DEF SlotName
<1>2. QED
  BY <1>1 DEF Manager

(* What the managers' threads do leaves the main thread's state and the    *)
(* histories alone.                                                        *)
LEMMA ThreadSteps ==
  ASSUME [Next]_vars PROVE Main \/ UNCHANGED <<mainVars, history>>
<1>1. ASSUME NEW m \in Manager, Starting(m) PROVE UNCHANGED <<mainVars, history>>
  BY <1>1, Zenon DEF Starting, PublishEntries, EnterLoop, InitFails, ChronoInitFails, LoadModule
<1>2. ASSUME NEW m \in Manager, SendRequest(m) PROVE UNCHANGED <<mainVars, history>>
  BY <1>2, Zenon DEF SendRequest
<1>3. ASSUME NEW m \in Manager, SendRefused(m) PROVE UNCHANGED <<mainVars, history>>
  BY <1>3, Zenon DEF SendRefused
<1>4. ConsoleEof \/ ConsoleEmptyLine \/ QrReadFails \/ UNCHANGED vars
      => UNCHANGED <<mainVars, history>>
  BY Zenon DEF ConsoleEof, ConsoleEmptyLine, QrReadFails, vars
<1>5. QED
  BY <1>1, <1>2, <1>3, <1>4, Zenon DEF Next

(* Commands reach every manager in the order main_mgr accepted them, each  *)
(* at most once, for every configuration and every load.                   *)
THEOREM DeliveryInOrder == Spec => []DeliveredInOrder
<1>1. Init => DeliveredInOrder /\ OlderAhead
  BY DEF Init, DeliveredInOrder, OlderAhead
<1>2. TypeOK /\ DeliveredInOrder /\ OlderAhead /\ [Next]_vars
      => DeliveredInOrder' /\ OlderAhead'
  <2> SUFFICES ASSUME TypeOK, DeliveredInOrder, OlderAhead, [Next]_vars
               PROVE  DeliveredInOrder' /\ OlderAhead'
    OBVIOUS
  <2>0. /\ accepted \in Nat /\ slot \in 0..5 /\ delivered \in [Manager -> Seq(Nat)]
        /\ mpc = "fan" => slot \in 0..4
    BY DEF TypeOK
  <2>1. \A m \in Manager : /\ delivered[m] \in Seq(Nat) /\ Len(delivered[m]) \in Nat
                           /\ \A i \in 1..Len(delivered[m]) : delivered[m][i] \in Nat
    BY <2>0, LenProperties, ElementOfSeq
  <2>2. CASE Receive
    <3>1. delivered' = delivered /\ slot' = 0
      BY <2>2, Zenon DEF Receive
    <3>2. \/ accepted' = accepted /\ mpc' # "fan"
          \/ accepted' = accepted + 1
      BY <2>2 DEF Receive
    <3>3. \A m \in Manager : \A i \in 1..Len(delivered[m]) :
             delivered[m][i] <= accepted /\ delivered[m][i] \in Nat
      BY <2>1 DEF DeliveredInOrder
    <3>4. DeliveredInOrder'
      <4>1. accepted <= accepted' /\ accepted' \in Nat
        BY <2>0, <3>2
      <4>2. \A m \in Manager : \A i \in 1..Len(delivered[m]) : delivered[m][i] <= accepted'
        BY <2>0, <3>3, <4>1
      <4>3. QED
        BY <3>1, <4>2 DEF DeliveredInOrder
    <3>5. OlderAhead'
      <4> SUFFICES ASSUME accepted' = accepted + 1, NEW n \in 0..3,
                          NEW i \in 1..Len(delivered[SlotName[n]])
                   PROVE  delivered[SlotName[n]][i] < accepted'
        BY <3>1, <3>2 DEF OlderAhead
      <4>1. SlotName[n] \in Manager
        BY SlotNameType
      <4>2. QED
        BY <2>0, <3>3, <4>1
    <3>6. QED
      BY <3>4, <3>5
  <2>3. CASE FanOut
    <3> DEFINE m == SlotName[slot]
               d == Append(delivered[m], accepted)
    <3>1. /\ mpc = "fan" /\ slot \in 0..3 /\ accepted' = accepted
          /\ mpc' = "crash" \/ slot' = slot + 1
      <4>1. /\ mpc = "fan" /\ slot < 4 /\ accepted' = accepted
            /\ mpc' = "crash" \/ slot' = slot + 1
        BY <2>3, Zenon DEF FanOut
      <4>2. QED
        BY <2>0, <4>1
    <3>2. m \in Manager
      BY <3>1, SlotNameType
    <3>3. delivered' = delivered \/ delivered' = [delivered EXCEPT ![m] = d]
      BY <2>3, Zenon DEF FanOut
    <3>4. \A i \in 1..Len(delivered[m]) : delivered[m][i] < accepted
      BY <3>1 DEF OlderAhead
    <3> HIDE DEF m
    <3>5. /\ Len(d) = Len(delivered[m]) + 1 /\ d[Len(d)] = accepted
          /\ \A i \in 1..Len(delivered[m]) : d[i] = delivered[m][i]
          /\ Len(delivered[m]) \in Nat
      BY <2>0, <2>1, <3>2, AppendProperties
    <3>6. /\ \A i \in 1..Len(d) : d[i] <= accepted
          /\ \A i, j \in 1..Len(d) : i < j => d[i] < d[j]
      <4>1. \A i \in 1..Len(d) : i \in 1..Len(delivered[m]) \/ i = Len(d)
        BY <3>5
      <4>2. \A i \in 1..Len(delivered[m]) : d[i] < accepted /\ d[i] \in Nat
        BY <2>1, <3>2, <3>4, <3>5
      <4>3. \A i \in 1..Len(d) : d[i] <= accepted
        BY <2>0, <3>5, <4>1, <4>2
      <4>4. ASSUME NEW i \in 1..Len(d), NEW j \in 1..Len(d), i < j PROVE d[i] < d[j]
        <5>1. i \in 1..Len(delivered[m])
          BY <3>5, <4>4
        <5>2. CASE j \in 1..Len(delivered[m])
          BY <3>2, <3>5, <4>4, <5>1, <5>2 DEF DeliveredInOrder
        <5>3. CASE j = Len(d)
          BY <3>5, <4>2, <5>1, <5>3
        <5>4. QED
          BY <4>1, <5>2, <5>3
      <4>5. QED
        BY <4>3, <4>4
    <3> HIDE DEF d
    <3>7. \A k \in Manager : delivered'[k] = delivered[k] \/ (k = m /\ delivered'[k] = d)
      BY <2>0, <3>2, <3>3
    <3>8. DeliveredInOrder'
      BY <3>1, <3>6, <3>7 DEF DeliveredInOrder
    <3>9. OlderAhead'
      <4> SUFFICES ASSUME slot' = slot + 1, NEW n \in slot'..3,
                          NEW i \in 1..Len(delivered'[SlotName[n]])
                   PROVE  delivered'[SlotName[n]][i] < accepted'
        BY <3>1 DEF OlderAhead
      <4>1. n \in 0..4 /\ n # slot /\ n \in slot..3 /\ slot \in 0..4
        BY <3>1
      <4>2. SlotName[n] \in Manager /\ SlotName[n] # m
        BY <4>1, SlotNameType, SlotNameInjective DEF m
      <4>3. delivered'[SlotName[n]] = delivered[SlotName[n]]
        BY <3>7, <4>2
      <4>4. QED
        BY <3>1, <4>1, <4>3 DEF OlderAhead
    <3>10. QED
      BY <3>8, <3>9
  <2>4. CASE CreateThread \/ BindSocket \/ EndFanOut \/ Reply
    <3>1. delivered' = delivered /\ accepted' = accepted /\ mpc' # "fan"
      BY <2>4 DEF CreateThread, BindSocket, EndFanOut, Reply, history
    <3>2. QED
      BY <3>1 DEF DeliveredInOrder, OlderAhead
  <2>5. CASE UNCHANGED <<mainVars, history>>
    BY <2>5, Zenon DEF DeliveredInOrder, OlderAhead, mainVars, history
  <2>6. QED
    BY <2>2, <2>3, <2>4, <2>5, ThreadSteps DEF Main
<1>3. QED
  BY <1>1, <1>2, TypeCorrect, PTL DEF Spec

-----------------------------------------------------------------------------
(* Completeness of the fan-out.  A thread that runs has its slot index set;*)
(* the managers due have a handler that forwards; those already visited    *)
(* have the command, or have withdrawn their slot.                         *)
HasIt(m) ==
  idx[m] => Len(delivered[m]) > 0 /\ delivered[m][Len(delivered[m])] = accepted

Alive == \A m \in Manager : thr[m] \notin {"none", "ended"} => idx[m]

Visited ==
  mpc = "fan" =>
    /\ \A m \in due : m # "qrcode" /\ entries[m] /\ Forwards(m, cur.name, cur.src)
    /\ \A n \in 0..3 : n < slot /\ SlotName[n] \in due => HasIt(SlotName[n])

(* A thread that runs has its index set; an index, once withdrawn, is not  *)
(* set again after start-up; published entries stay.                       *)
SlotsKept ==
  /\ Alive'
  /\ mpc # "create" => \A m \in Manager : idx'[m] => idx[m]
  /\ \A m \in Manager : entries[m] => entries'[m]

(* Every step keeps the slots: after start-up an index that was withdrawn  *)
(* is not set again, and entries that were published stay published.       *)
LEMMA SlotSteps ==
  ASSUME TypeOK, Alive, [Next]_vars PROVE SlotsKept
<1>0. /\ idx \in [Manager -> BOOLEAN] /\ entries \in [Manager -> BOOLEAN]
      /\ thr \in [Manager -> Phase] /\ cur.src \in Manager
  BY DEF TypeOK, Request
<1> USE <1>0
<1>1. CreateThread => SlotsKept
  <2> HAVE CreateThread
  <2>1. /\ mpc = "create" /\ entries' = entries
        /\ \/ UNCHANGED <<idx, thr>>
           \/ /\ idx' = [idx EXCEPT ![SlotName[slot]] = TRUE]
              /\ thr' = [thr EXCEPT ![SlotName[slot]] = "created"]
    BY Zenon DEF CreateThread
  <2>2. QED
    BY <2>1 DEF Alive, SlotsKept
<1>2. ASSUME UNCHANGED <<idx, entries, thr>> PROVE SlotsKept
  BY <1>2 DEF Alive, SlotsKept
<1>3. (BindSocket \/ Receive \/ FanOut \/ EndFanOut) => SlotsKept
  <2> HAVE BindSocket \/ Receive \/ FanOut \/ EndFanOut
  <2>1. UNCHANGED <<idx, entries, thr>>
    BY Zenon DEF BindSocket, Receive, FanOut, EndFanOut
  <2>2. QED
    BY <1>2, <2>1
<1>4. Reply => SlotsKept
  <2> HAVE Reply
  <2>1. /\ idx' = idx /\ entries' = entries
        /\ thr' = [thr EXCEPT ![cur.src] = IF idx[cur.src] THEN "loop" ELSE "ended"]
    BY Zenon DEF Reply
  <2>2. QED
    BY <2>1 DEF Alive, SlotsKept
<1>5. ASSUME NEW m \in Manager, Starting(m) PROVE SlotsKept
  <2>1. CASE PublishEntries(m)
    BY <2>1 DEF PublishEntries, Alive, SlotsKept
  <2>2. CASE EnterLoop(m)
    BY <2>2 DEF EnterLoop, Alive, SlotsKept
  <2>3. CASE InitFails(m)
    BY <2>3 DEF InitFails, Alive, SlotsKept
  <2>4. CASE ChronoInitFails
    BY <2>4 DEF ChronoInitFails, Alive, SlotsKept
  <2>5. CASE LoadModule
    BY <2>5 DEF LoadModule, Alive, SlotsKept
  <2>6. QED
    BY <1>5, <2>1, <2>2, <2>3, <2>4, <2>5 DEF Starting
<1>6. ASSUME NEW m \in Manager, SendRequest(m) PROVE SlotsKept
  <2>1. /\ thr[m] = "loop" /\ thr' = [thr EXCEPT ![m] = "wait"]
        /\ idx' = idx /\ entries' = entries
    BY <1>6, Zenon DEF SendRequest
  <2>2. QED
    BY <2>1 DEF Alive, SlotsKept
<1>7. ASSUME NEW m \in Manager, SendRefused(m) PROVE SlotsKept
  <2>1. /\ mpc = "create" /\ entries' = entries
        /\ \/ UNCHANGED <<thr, idx>>
           \/ thr' = [thr EXCEPT ![m] = "ended"] /\ idx' = [idx EXCEPT ![m] = FALSE]
    BY <1>7, Zenon DEF SendRefused
  <2>2. QED
    BY <2>1 DEF Alive, SlotsKept
<1>8. ConsoleEof => SlotsKept
  <2> HAVE ConsoleEof
  <2>1. /\ thr["console"] = "loop" /\ idx' = idx /\ entries' = entries
        /\ thr' = thr \/ thr' = [thr EXCEPT !["console"] = "wait"]
    BY Zenon DEF ConsoleEof
  <2>2. "console" \in Manager
    BY DEF Manager
  <2>3. QED
    BY <2>1, <2>2 DEF Alive, SlotsKept
<1>9. (ConsoleEmptyLine \/ UNCHANGED vars) => SlotsKept
  <2> HAVE ConsoleEmptyLine \/ UNCHANGED vars
  <2>1. UNCHANGED <<idx, entries, thr>>
    BY Zenon DEF ConsoleEmptyLine, vars
  <2>2. QED
    BY <1>2, <2>1
<1>10. QrReadFails => SlotsKept
  <2> HAVE QrReadFails
  <2>1. /\ entries' = entries /\ idx' = [idx EXCEPT !["qrcode"] = FALSE]
        /\ thr' = [thr EXCEPT !["qrcode"] = "ended"]
    BY Zenon DEF QrReadFails
  <2>2. QED
    BY <2>1 DEF Alive, SlotsKept
<1>11. QED
  BY <1>1, <1>3, <1>4, <1>5, <1>6, <1>7, <1>8, <1>9, <1>10 DEF Next, Main

(* When main() answers, nobody who was due has been left out, whatever the *)
(* handlers returned, for every configuration and every load.              *)
THEOREM FanOutIsComplete == Spec => []FanOutComplete
<1>1. Init => Alive /\ Visited /\ FanOutComplete
  BY DEF Init, Alive, Visited, FanOutComplete
<1>2. /\ TypeOK /\ Alive /\ Visited /\ FanOutComplete /\ [Next]_vars
      => Alive' /\ Visited' /\ FanOutComplete'
  <2> SUFFICES ASSUME TypeOK, Alive, Visited, FanOutComplete, [Next]_vars
               PROVE  Visited' /\ FanOutComplete'
    BY SlotSteps DEF SlotsKept
  <2>1. /\ mpc # "create" => \A m \in Manager : idx'[m] => idx[m]
        /\ \A m \in Manager : entries[m] => entries'[m]
    BY SlotSteps DEF SlotsKept
  <2>2. /\ accepted \in Nat /\ slot \in 0..5 /\ delivered \in [Manager -> Seq(Nat)]
        /\ due \in SUBSET Manager
        /\ mpc = "fan" => slot \in 0..4
    BY DEF TypeOK
  <2>3. CASE Receive
    <3>1. slot' = 0
      BY <2>3, Zenon DEF Receive
    <3>2. \/ due' = {} /\ mpc' # "fan"
          \/ /\ mpc' = "fan" /\ cur' = Head(sock) /\ entries' = entries
             /\ due' = {m \in Manager \ {"qrcode"} :
                          Active(m) /\ Forwards(m, Head(sock).name, Head(sock).src)}
      BY <2>3, Zenon DEF Receive
    <3>3. mpc' = "fan" =>
            \A m \in due' : m # "qrcode" /\ entries'[m] /\ Forwards(m, cur'.name, cur'.src)
      BY <3>2 DEF Active
    <3>4. QED
      BY <3>1, <3>2, <3>3 DEF Visited, FanOutComplete, Forwards
  <2>4. CASE FanOut
    <3>1. /\ mpc = "fan" /\ slot \in 0..3 /\ accepted' = accepted /\ due' = due
          /\ cur' = cur /\ entries' = entries /\ idx' = idx
          /\ mpc' = "crash" \/ (mpc' = "fan" /\ slot' = slot + 1)
      <4>1. /\ mpc = "fan" /\ slot < 4 /\ accepted' = accepted /\ due' = due
            /\ cur' = cur /\ entries' = entries /\ idx' = idx
            /\ mpc' = "crash" \/ (mpc' = mpc /\ slot' = slot + 1)
        BY <2>4, Zenon DEF FanOut
      <4>2. QED
        BY <2>2, <4>1
    <3>2. PICK m \in Manager : m = SlotName[slot]
      BY <3>1, SlotNameType
    <3> DEFINE d == Append(delivered[m], accepted)
    <3>3. \/ delivered' = delivered /\ mpc' # "crash"
             /\ (~Active(m) \/ ~Forwards(m, cur.name, cur.src))
          \/ mpc' = "crash"
          \/ delivered' = [delivered EXCEPT ![m] = d]
      BY <2>4, <3>2, Zenon DEF FanOut
    <3>4. Len(d) > 0 /\ d[Len(d)] = accepted
      <4>1. delivered[m] \in Seq(Nat)
        BY <2>2, <3>2
      <4>2. QED
        BY <2>2, <4>1, AppendProperties, LenProperties
    <3> HIDE DEF d
    <3>5. mpc' = "fan" /\ m \in due => HasIt(m)'
      <4> SUFFICES ASSUME mpc' = "fan", m \in due, idx[m] PROVE HasIt(m)'
        BY <3>1 DEF HasIt
      <4>1. Active(m) /\ Forwards(m, cur.name, cur.src)
        BY <3>1 DEF Visited, Active
      <4>2. delivered' = [delivered EXCEPT ![m] = d]
        BY <3>3, <4>1
      <4>3. delivered'[m] = d
        BY <2>2, <3>2, <4>2
      <4>4. QED
        BY <3>1, <3>4, <4>3 DEF HasIt
    <3>6. \A k \in Manager : k # m /\ HasIt(k) /\ mpc' = "fan" => HasIt(k)'
      <4>1. mpc' = "fan" => \A k \in Manager : k # m => delivered'[k] = delivered[k]
        BY <2>2, <3>2, <3>3
      <4>2. QED
        BY <3>1, <4>1 DEF HasIt
    <3>7. ASSUME mpc' = "fan", NEW n \in 0..3, n < slot', SlotName[n] \in due
          PROVE  HasIt(SlotName[n])'
      <4>1. CASE n = slot
        BY <3>2, <3>5, <3>7, <4>1
      <4>2. CASE n # slot
        <5>1. n < slot /\ n \in 0..4 /\ slot \in 0..4
          BY <3>1, <3>7, <4>2
        <5>2. SlotName[n] # m /\ SlotName[n] \in Manager
          BY <3>2, <4>2, <5>1, SlotNameInjective, SlotNameType
        <5>3. HasIt(SlotName[n])
          BY <3>1, <3>7, <5>1 DEF Visited
        <5>4. QED
          BY <3>6, <3>7, <5>2, <5>3
      <4>3. QED
        BY <4>1, <4>2
    <3>8. Visited'
      <4>1. mpc' = "fan" =>
              \A k \in due' : k # "qrcode" /\ entries'[k] /\ Forwards(k, cur'.name, cur'.src)
        BY <3>1, Zenon DEF Visited
      <4>2. mpc' = "fan" => \A n \in 0..3 : n < slot' /\ SlotName[n] \in due' => HasIt(SlotName[n])'
        BY <3>1, <3>7
      <4>3. QED
        BY <4>1, <4>2, Zenon DEF Visited, Forwards
    <3>9. FanOutComplete'
      BY <3>1 DEF FanOutComplete
    <3>10. QED
      BY <3>8, <3>9
  <2>5. CASE EndFanOut
    <3>1. /\ mpc = "fan" /\ slot = 4 /\ mpc' = "reply"
          /\ UNCHANGED <<due, idx, delivered, accepted>>
      BY <2>5, Zenon DEF EndFanOut, history
    <3>2. \A m \in due : HasIt(m)
      <4> SUFFICES ASSUME NEW m \in due PROVE HasIt(m)
        OBVIOUS
      <4>1. m \in Manager \ {"qrcode"}
        BY <2>2, <3>1 DEF Visited
      <4>2. PICK n \in 0..3 : m = SlotName[n]
        BY <4>1, SlotNameOnto
      <4>3. QED
        BY <3>1, <4>2 DEF Visited
    <3>3. QED
      BY <3>1, <3>2 DEF Visited, FanOutComplete, HasIt
  <2>6. CASE CreateThread \/ BindSocket \/ Reply
    <3>1. mpc' \notin {"fan", "reply"}
      BY <2>6 DEF CreateThread, BindSocket, Reply
    <3>2. QED
      BY <3>1 DEF Visited, FanOutComplete
  <2>7. CASE UNCHANGED <<mainVars, history>>
    <3>1. UNCHANGED <<mpc, slot, cur, accepted, due, delivered>>
      BY <2>7, Zenon DEF mainVars, history
    <3>2. mpc # "create" => \A m \in Manager : HasIt(m) => HasIt(m)'
      BY <2>1, <3>1 DEF HasIt
    <3>3. mpc = "fan" =>
            \A m \in due : m # "qrcode" /\ entries'[m] /\ Forwards(m, cur.name, cur.src)
      BY <2>1, <2>2 DEF Visited
    <3>4. mpc = "fan" => \A n \in 0..3 : n < slot /\ SlotName[n] \in due => HasIt(SlotName[n])'
      BY <2>2, <3>2 DEF Visited
    <3>5. Visited'
      BY <3>1, <3>3, <3>4, Zenon DEF Visited, Forwards
    <3>6. FanOutComplete'
      BY <2>1, <2>2, <3>1 DEF FanOutComplete
    <3>7. QED
      BY <3>5, <3>6
  <2>8. QED
    BY <2>3, <2>4, <2>5, <2>6, <2>7, ThreadSteps DEF Main
<1>3. QED
  BY <1>1, <1>2, TypeCorrect, PTL DEF Spec
=============================================================================
