----------------------------- MODULE Areas_proof -----------------------------
(***************************************************************************)
(* The port is open when both threads have left it, the drawn area is that *)
(* of the last flags, and the board is not told to drive with the velocity *)
(* of an earlier rescue - for any cells, any depth of the topics and any   *)
(* number of rescues and requests.                                         *)
(***************************************************************************)
EXTENDS MCAreas, Integers, TLAPS

-----------------------------------------------------------------------------
(* The serial port. *)

SerialType ==
  /\ serialPort \in {"open", "closed"}
  /\ DOMAIN pc = Serial!Threads

(* A port that is closed is about to be opened by one of the threads. *)
ClosedIsReopened ==
  ok /\ ~exited /\ serialPort # "open" => \E t \in Serial!Threads : pc[t] \in Serial!Reopening

SerialInv == SerialType /\ ClosedIsReopened

LEMMA SerialInit == Serial!Init => SerialInv
  BY DEF Serial!Init, SerialInv, SerialType, ClosedIsReopened, Serial!Threads

(* A step of a thread that does not close the port, and leaves reopenPort   *)
(* for an open port only. *)
LEMMA GotoKeeps ==
  ASSUME SerialInv, NEW t \in Serial!Threads, NEW l, Serial!Goto(t, l),
         UNCHANGED <<ok, exited>>, serialPort' \in {"open", "closed"},
         serialPort' = "closed" => \/ l \in Serial!Reopening
                                   \/ ~ok \/ exited
                                   \/ serialPort = "closed" /\ pc[t] \notin Serial!Reopening
  PROVE  SerialInv'
<1>1. DOMAIN pc' = Serial!Threads /\ pc'[t] = l /\ \A u \in Serial!Threads \ {t} : pc'[u] = pc[u]
  BY DEF Serial!Goto, SerialInv, SerialType
<1>2. ClosedIsReopened'
  <2> SUFFICES ASSUME ok, ~exited, serialPort' # "open"
               PROVE  \E u \in Serial!Threads : pc'[u] \in Serial!Reopening
    BY DEF ClosedIsReopened
  <2>1. CASE l \in Serial!Reopening BY <1>1, <2>1
  <2>2. CASE serialPort = "closed" /\ pc[t] \notin Serial!Reopening
    <3>1. PICK u \in Serial!Threads : pc[u] \in Serial!Reopening
      BY <2>2 DEF SerialInv, ClosedIsReopened
    <3> QED BY <1>1, <2>2, <3>1
  <2> QED BY <2>1, <2>2
<1> QED BY <1>1, <1>2 DEF SerialInv, SerialType

LEMMA SerialStep == SerialInv /\ [Serial!Next]_serialVars => SerialInv'
<1> SUFFICES ASSUME SerialInv, [Serial!Next]_serialVars PROVE SerialInv' OBVIOUS
<1> USE DEF Serial!Threads, Serial!Reopening
<1>0. serialPort \in {"open", "closed"} BY DEF SerialInv, SerialType
<1>1. CASE UNCHANGED serialVars
  BY <1>1 DEF serialVars, SerialInv, SerialType, ClosedIsReopened
<1>2. CASE Serial!Loop BY <1>0, <1>2, GotoKeeps DEF Serial!Loop
<1>3. ASSUME NEW h \in Serial!Headers, Serial!ReceiveHeader(h) PROVE SerialInv'
  BY <1>0, <1>3, GotoKeeps DEF Serial!ReceiveHeader
<1>4. ASSUME NEW h \in Serial!Headers, NEW intact \in BOOLEAN, Serial!Publish(h, intact)
      PROVE  SerialInv'
  BY <1>0, <1>4, GotoKeeps DEF Serial!Publish
<1>5. CASE Serial!SkipInvalid BY <1>0, <1>5, GotoKeeps DEF Serial!SkipInvalid
<1>6. CASE Serial!ReceiveError BY <1>0, <1>6, GotoKeeps DEF Serial!ReceiveError
<1>7. CASE Serial!SendFails BY <1>0, <1>7, GotoKeeps DEF Serial!SendFails
<1>8. ASSUME NEW t \in Serial!Threads, Serial!IsOpen(t) PROVE SerialInv'
  BY <1>0, <1>8, GotoKeeps DEF Serial!IsOpen
<1>9. ASSUME NEW t \in Serial!Threads, Serial!Close(t) PROVE SerialInv'
  BY <1>9, GotoKeeps DEF Serial!Close
<1>10. ASSUME NEW t \in Serial!Threads, Serial!Open(t) PROVE SerialInv'
  <2>1. CASE device /\ serialPort = "closed" BY <1>10, <2>1, GotoKeeps DEF Serial!Open
  <2>2. CASE ~(device /\ serialPort = "closed")
    BY <1>0, <1>10, <2>2, GotoKeeps DEF Serial!Open, Serial!AfterFailure
  <2> QED BY <2>1, <2>2
<1>11. ASSUME NEW t \in Serial!Threads, Serial!Retry(t) PROVE SerialInv'
  BY <1>0, <1>11, GotoKeeps DEF Serial!Retry
<1>12. CASE Serial!Destroy BY <1>12 DEF Serial!Destroy, SerialInv, SerialType, ClosedIsReopened
<1>13. CASE \/ Serial!Hear \/ Serial!DeviceChanges \/ Serial!FallSilent \/ Serial!Shutdown
            \/ \E at \in {"in", "margin", "out"} : Serial!UpdateNavForceArea(at)
  BY <1>13 DEF Serial!Hear, Serial!DeviceChanges, Serial!FallSilent, Serial!Shutdown,
               Serial!UpdateNavForceArea, Serial!threads, SerialInv, SerialType, ClosedIsReopened
<1> QED
  BY <1>1, <1>2, <1>3, <1>4, <1>5, <1>6, <1>7, <1>8, <1>9, <1>10, <1>11, <1>12, <1>13 DEF Serial!Next

(* Whichever thread closes the port, and whenever the device comes and      *)
(* goes: nobody returns from reopenPort to a port that stays closed. *)
THEOREM PortIsReopened == Serial!Init /\ [][Serial!Next]_serialVars => []PortOpenAtRest
<1>1. SerialInv => PortOpenAtRest
  BY DEF SerialInv, ClosedIsReopened, PortOpenAtRest, Serial!PortOpenAtRest
<1> QED BY SerialInit, SerialStep, <1>1, PTL

-----------------------------------------------------------------------------
(* The area in the static layer. *)

(* A callback that has changed what is to be drawn, or the update it asked  *)
(* for, is still to come. *)
Pending == callback.changes \/ has_updated_data_

Wanted == IF Static!Active(flag) THEN Cells ELSE {}

(* A callback knows the other flag as it is: it excludes the other one. *)
CallbackKnows ==
  \/ callback = Static!NoCallback
  \/ callback.flag \in Static!Flags /\ callback.other = flag[Static!Other(callback.flag)]

(* What the costmap shows of the area in each phase of an update, if nothing *)
(* is pending and the update has seen one of the flags at least. *)
Drawn ==
  ~Pending /\ ~crossed =>
    /\ phase = "idle" => open = Wanted
    /\ phase = "costs" => open \ bounds = Wanted \ bounds
    /\ phase \in {"first", "second", "clear"} => open = Wanted \ bounds

(* Between the two reads: the first one found the task closed, and a task   *)
(* that has opened the area alone since then has asked for an update. *)
BetweenReads ==
  phase = "second" =>
    /\ flag["task"] => "task" \in between
    /\ ~Pending /\ "task" \in between /\ "fortress" \notin between => flag["fortress"]

(* Cells are cleared for a flag that is set, or an update is to come. *)
ClearsForFlag == phase = "clear" /\ ~Pending => Static!Active(flag)

StaticInv == Static!TypeOK /\ CallbackKnows /\ Drawn /\ BetweenReads /\ ClearsForFlag

LEMMA OtherFlag == Static!Other("task") = "fortress" /\ Static!Other("fortress") = "task"
  BY DEF Static!Other, Static!Flags

LEMMA ActiveIs ==
  /\ Static!Active(flag) <=> flag["task"] \/ flag["fortress"]
  /\ Static!Active(flag') <=> flag'["task"] \/ flag'["fortress"]
  BY DEF Static!Active, Static!Flags

LEMMA StaticInit == Static!Init => StaticInv
<1> SUFFICES ASSUME Static!Init PROVE StaticInv OBVIOUS
<1> USE DEF Static!Init
<1>1. Static!TypeOK BY DEF Static!TypeOK, Static!NoCallback, Static!Flags
<1>2. CallbackKnows BY DEF CallbackKnows
<1>3. Drawn /\ BetweenReads /\ ClearsForFlag BY DEF Drawn, Pending, BetweenReads, ClearsForFlag
<1> QED BY <1>1, <1>2, <1>3 DEF StaticInv

LEMMA LoadOtherStep ==
  ASSUME StaticInv, NEW f \in Static!Flags, Static!LoadOther(f)
  PROVE  StaticInv'
<1> USE DEF StaticInv, Static!LoadOther
<1>1. flag[Static!Other(f)] \in BOOLEAN BY OtherFlag DEF Static!TypeOK, Static!Flags
<1>2. Static!TypeOK' BY <1>1 DEF Static!TypeOK
<1>3. CallbackKnows' BY DEF CallbackKnows
<1>4. Pending' = Pending BY DEF Pending, Static!NoCallback
<1>5. Wanted' = Wanted BY DEF Wanted
<1>6. Drawn' BY <1>4, <1>5 DEF Drawn
<1>7. BetweenReads' /\ ClearsForFlag' BY <1>4 DEF BetweenReads, ClearsForFlag
<1> QED BY <1>2, <1>3, <1>6, <1>7

LEMMA ExchangeStep ==
  ASSUME StaticInv, NEW f \in Static!Flags, NEW v \in BOOLEAN, Static!Exchange(f, v)
  PROVE  StaticInv'
<1> USE DEF StaticInv
<1>0. /\ callback.flag = f /\ ~callback.changes
      /\ flag' = [flag EXCEPT ![f] = v]
      /\ between' = IF flag[f] # v THEN between \cup {f} ELSE between
      /\ UNCHANGED <<has_updated_data_, current_, phase, bounds, open, crossed>>
  BY DEF Static!Exchange
<1>1. flag \in [Static!Flags -> BOOLEAN] /\ flag' \in [Static!Flags -> BOOLEAN]
  BY <1>0 DEF Static!TypeOK
<1>2. callback.other = flag[Static!Other(f)]
  BY <1>0 DEF CallbackKnows, Static!NoCallback, Static!Flags
<1>3. Static!Changes(flag[f], v, callback.other) <=> Static!Active(flag) # Static!Active(flag')
  <2>1. CASE f = "task"
    BY <1>0, <1>1, <1>2, <2>1, OtherFlag, ActiveIs DEF Static!Changes, Static!Flags
  <2>2. CASE f = "fortress"
    BY <1>0, <1>1, <1>2, <2>2, OtherFlag, ActiveIs DEF Static!Changes, Static!Flags
  <2> QED BY <2>1, <2>2 DEF Static!Flags
<1>4. callback' = IF Static!Active(flag) # Static!Active(flag')
                  THEN [callback EXCEPT !.changes = TRUE] ELSE Static!NoCallback
  BY <1>3 DEF Static!Exchange
<1>5. callback' \in [flag : Static!Flags \cup {"none"}, other : BOOLEAN, changes : BOOLEAN]
  BY <1>4 DEF Static!TypeOK, Static!NoCallback
<1>6. Static!TypeOK' BY <1>0, <1>1, <1>5 DEF Static!TypeOK
<1>7. CallbackKnows'
  <2>1. Static!Other(f) # f /\ Static!Other(f) \in Static!Flags BY OtherFlag DEF Static!Flags
  <2>2. flag'[Static!Other(f)] = flag[Static!Other(f)] BY <1>0, <1>1, <2>1
  <2>3. callback' = Static!NoCallback \/ (callback'.flag = f /\ callback'.other = callback.other)
    BY <1>0, <1>4 DEF Static!TypeOK
  <2> QED BY <1>2, <2>2, <2>3 DEF CallbackKnows
<1>8. ~Pending' => ~Pending /\ Static!Active(flag') = Static!Active(flag)
  BY <1>0, <1>4 DEF Pending, Static!TypeOK
<1>9. Drawn'
  <2>1. ~Pending' => Wanted' = Wanted BY <1>8 DEF Wanted
  <2> QED BY <1>0, <1>8, <2>1 DEF Drawn
<1>10. BetweenReads'
  <2> SUFFICES ASSUME phase = "second"
               PROVE  /\ flag'["task"] => "task" \in between'
                      /\ ~Pending' /\ "task" \in between' /\ "fortress" \notin between'
                           => flag'["fortress"]
    BY <1>0 DEF BetweenReads
  <2>1. flag'["task"] => "task" \in between'
    BY <1>0, <1>1 DEF BetweenReads, Static!Flags
  <2>2. ASSUME ~Pending', "task" \in between', "fortress" \notin between' PROVE flag'["fortress"]
    <3>1. flag'["fortress"] = flag["fortress"] BY <1>0, <1>1, <2>2 DEF Static!Flags
    <3>2. CASE "task" \in between BY <1>0, <1>8, <2>2, <3>1, <3>2 DEF BetweenReads
    <3>3. CASE "task" \notin between
      <4>1. f = "task" /\ flag["task"] # v BY <1>0, <2>2, <3>3
      <4>2. flag'["task"] # flag["task"] BY <1>0, <1>1, <4>1 DEF Static!Flags
      <4> QED BY <1>1, <1>8, <2>2, <3>1, <4>2, ActiveIs DEF Static!Flags
    <3> QED BY <3>2, <3>3
  <2> QED BY <2>1, <2>2
<1>11. ClearsForFlag' BY <1>0, <1>8 DEF ClearsForFlag
<1> QED BY <1>6, <1>7, <1>9, <1>10, <1>11

LEMMA AskForUpdateStep == StaticInv /\ Static!AskForUpdate => StaticInv'
<1> SUFFICES ASSUME StaticInv, Static!AskForUpdate PROVE StaticInv' OBVIOUS
<1> USE DEF StaticInv, Static!AskForUpdate
<1>1. Pending /\ Pending' BY DEF Pending
<1>2. Static!TypeOK' BY DEF Static!TypeOK, Static!NoCallback
<1>3. CallbackKnows' BY DEF CallbackKnows
<1>4. Drawn' /\ BetweenReads' /\ ClearsForFlag' BY <1>1 DEF Drawn, BetweenReads, ClearsForFlag
<1> QED BY <1>2, <1>3, <1>4

(* A step of the update, which leaves flags and callbacks alone. *)
LEMMA UpdateStep ==
  ASSUME StaticInv, UNCHANGED <<flag, callback>>,
         \/ Static!UpdateBounds \/ Static!DrawMap \/ Static!LoadTask
         \/ Static!LoadFortress \/ Static!ClearRegion
  PROVE  StaticInv'
<1> USE DEF StaticInv
<1>1. CallbackKnows' BY DEF CallbackKnows
<1>2. Wanted' = Wanted /\ Static!Active(flag)' = Static!Active(flag)
  BY DEF Wanted, Static!Active
<1>3. Wanted \subseteq Cells /\ flag["task"] \in BOOLEAN /\ flag["fortress"] \in BOOLEAN
  BY DEF Wanted, Static!TypeOK, Static!Flags
<1>4. CASE Static!UpdateBounds
  <2>1. bounds' \subseteq Cells /\ (has_updated_data_ => bounds' = Cells)
    BY <1>4 DEF Static!UpdateBounds
  <2>2. Static!TypeOK' BY <1>4, <2>1 DEF Static!UpdateBounds, Static!TypeOK
  <2>3. Drawn'
    <3> SUFFICES ASSUME ~Pending', ~crossed' PROVE open' \ bounds' = Wanted' \ bounds'
      BY <1>4 DEF Drawn, Static!UpdateBounds
    <3>1. CASE bounds' = Cells BY <1>2, <1>3, <2>2, <3>1 DEF Static!TypeOK
    <3>2. CASE bounds' # Cells
      <4>1. ~Pending /\ ~crossed BY <1>4, <2>1, <3>2 DEF Pending, Static!UpdateBounds
      <4> QED BY <1>2, <1>4, <4>1 DEF Drawn, Static!UpdateBounds
    <3> QED BY <3>1, <3>2
  <2>4. BetweenReads' /\ ClearsForFlag' BY <1>4 DEF BetweenReads, ClearsForFlag, Static!UpdateBounds
  <2> QED BY <1>1, <2>2, <2>3, <2>4
<1>5. CASE Static!DrawMap
  <2>1. Static!TypeOK' BY <1>5 DEF Static!DrawMap, Static!TypeOK
  <2>2. Pending' = Pending BY <1>5 DEF Pending, Static!DrawMap
  <2>3. Drawn' BY <1>2, <1>5, <2>2 DEF Drawn, Static!DrawMap
  <2>4. BetweenReads' /\ ClearsForFlag' BY <1>5 DEF BetweenReads, ClearsForFlag, Static!DrawMap
  <2> QED BY <1>1, <2>1, <2>3, <2>4
<1>6. CASE Static!LoadTask
  <2>1. Static!TypeOK' BY <1>6 DEF Static!LoadTask, Static!TypeOK
  <2>2. Pending' = Pending BY <1>6 DEF Pending, Static!LoadTask
  <2>3. Drawn' BY <1>2, <1>6, <2>2 DEF Drawn, Static!LoadTask
  <2>4. BetweenReads' BY <1>6 DEF BetweenReads, Static!LoadTask
  <2>5. ClearsForFlag' BY <1>2, <1>6, ActiveIs DEF ClearsForFlag, Static!LoadTask
  <2> QED BY <1>1, <2>1, <2>3, <2>4, <2>5
<1>7. CASE Static!LoadFortress
  <2>1. Static!TypeOK' BY <1>7 DEF Static!LoadFortress, Static!TypeOK
  <2>2. Pending' = Pending BY <1>7 DEF Pending, Static!LoadFortress
  <2>3. Drawn'
    <3> SUFFICES ASSUME ~Pending, ~crossed'
                 PROVE  /\ phase' = "idle" => open' = Wanted'
                        /\ phase' = "clear" => open' = Wanted' \ bounds'
      BY <1>7, <2>2 DEF Drawn, Static!LoadFortress
    <3>1. open = Wanted \ bounds /\ open' = open /\ bounds' = bounds
      BY <1>7 DEF Drawn, Static!LoadFortress
    <3>2. ASSUME phase' = "idle" PROVE open' = Wanted'
      <4>1. ~flag["fortress"] BY <1>7, <3>2 DEF Static!LoadFortress
      <4>2. between # Static!Flags BY <1>7 DEF Static!LoadFortress
      <4>3. ~flag["task"]
        <5> SUFFICES ASSUME flag["task"] PROVE FALSE OBVIOUS
        <5>1. "task" \in between BY <1>7 DEF BetweenReads, Static!LoadFortress
        <5>2. "fortress" \notin between
          BY <4>2, <5>1 DEF Static!TypeOK, Static!Flags
        <5> QED BY <1>7, <4>1, <5>1, <5>2 DEF BetweenReads, Static!LoadFortress
      <4>4. Wanted = {} BY <4>1, <4>3, ActiveIs DEF Wanted
      <4> QED BY <1>2, <3>1, <4>4
    <3> QED BY <1>2, <3>1, <3>2
  <2>4. BetweenReads' BY <1>7 DEF BetweenReads, Static!LoadFortress
  <2>5. ClearsForFlag' BY <1>2, <1>7, ActiveIs DEF ClearsForFlag, Static!LoadFortress
  <2> QED BY <1>1, <2>1, <2>3, <2>4, <2>5
<1>8. CASE Static!ClearRegion
  <2>1. Static!TypeOK' BY <1>8 DEF Static!ClearRegion, Static!TypeOK
  <2>2. Pending' = Pending BY <1>8 DEF Pending, Static!ClearRegion
  <2>3. Drawn'
    <3> SUFFICES ASSUME ~Pending, ~crossed PROVE open' = Wanted'
      BY <1>8, <2>2 DEF Drawn, Static!ClearRegion
    <3>1. open = Wanted \ bounds /\ Wanted = Cells
      BY <1>8 DEF Drawn, ClearsForFlag, Wanted, Static!ClearRegion
    <3> QED BY <1>2, <1>8, <3>1 DEF Static!ClearRegion, Static!TypeOK
  <2>4. BetweenReads' /\ ClearsForFlag' BY <1>8 DEF BetweenReads, ClearsForFlag, Static!ClearRegion
  <2> QED BY <1>1, <2>1, <2>3, <2>4
<1> QED BY <1>4, <1>5, <1>6, <1>7, <1>8

LEMMA StaticStep == StaticInv /\ [Static!Next]_staticVars => StaticInv'
<1> SUFFICES ASSUME StaticInv, [Static!Next]_staticVars PROVE StaticInv' OBVIOUS
<1>1. CASE UNCHANGED staticVars
  BY <1>1 DEF staticVars, StaticInv, Static!TypeOK, CallbackKnows, Drawn, Pending, Wanted,
              BetweenReads, ClearsForFlag, Static!Active
<1>2. ASSUME NEW f \in Static!Flags, Static!LoadOther(f) PROVE StaticInv' BY <1>2, LoadOtherStep
<1>3. ASSUME NEW f \in Static!Flags, NEW v \in BOOLEAN, Static!Exchange(f, v) PROVE StaticInv'
  BY <1>3, ExchangeStep
<1>4. CASE Static!AskForUpdate BY <1>4, AskForUpdateStep
<1>5. CASE \/ Static!UpdateBounds \/ Static!DrawMap \/ Static!LoadTask
           \/ Static!LoadFortress \/ Static!ClearRegion
  BY <1>5, UpdateStep
     DEF Static!UpdateBounds, Static!DrawMap, Static!LoadTask, Static!LoadFortress, Static!ClearRegion
<1> QED BY <1>1, <1>2, <1>3, <1>4, <1>5 DEF Static!Next

(* The update reads the two flags one at a time and without the lock of the *)
(* callbacks; what it draws follows them all the same, unless both change   *)
(* between its reads. *)
THEOREM AreaIsDrawn == Static!Init /\ [][Static!Next]_staticVars => []AreaFollowsFlags
<1>1. StaticInv => AreaFollowsFlags
  <2> SUFFICES ASSUME StaticInv PROVE Static!AreaFollowsFlags BY DEF AreaFollowsFlags
  <2>1. callback = Static!NoCallback => ~callback.changes BY DEF Static!NoCallback
  <2> QED BY <2>1 DEF StaticInv, Drawn, Pending, Wanted, Static!AreaFollowsFlags
<1> QED BY StaticInit, StaticStep, <1>1, PTL

-----------------------------------------------------------------------------
(* The rescue command. *)

(* The status in use and those that are still to come, in order. *)
StatusLine ==
  [i \in 0 .. Len(topic["status"]) |-> IF i = 0 THEN self_save_status ELSE topic["status"][i]]

(* The velocity in use, those in the queue, and the one not yet published. *)
VelocityLine ==
  [i \in 0 .. Len(topic["save"]) + Len(publishing) |->
     IF i = 0 THEN speed_save
     ELSE IF i <= Len(topic["save"]) THEN topic["save"][i] ELSE publishing[1]]

StatusesAhead == Len(topic["status"])
VelocitiesAhead == Len(topic["save"]) + Len(publishing)

(* By how many verdicts the velocity in use is older than the status. *)
Lag == VelocitiesAhead - StatusesAhead

(* The newest status and the newest velocity are those of the last verdict. *)
EndsAgree ==
  /\ StatusLine[StatusesAhead] = [stuck |-> rescuing, rescue |-> rescue]
  /\ VelocityLine[VelocitiesAhead] = [drive |-> rescuing, rescue |-> rescue]

(* Two verdicts in a row that the robot is stuck belong to one rescue; the  *)
(* status in use may be older than that after a loss, and so may the        *)
(* velocity until the queue has been empty. *)
StatusChain ==
  \A i \in 0 .. StatusesAhead - 1 :
    i > 0 \/ ~overflowed =>
      (StatusLine[i].stuck /\ StatusLine[i + 1].stuck => StatusLine[i].rescue = StatusLine[i + 1].rescue)

VelocityChain ==
  \A i \in 0 .. VelocitiesAhead - 1 :
    i > 0 \/ ~overflowed \/ Len(topic["save"]) = 0 =>
      (VelocityLine[i].drive /\ VelocityLine[i + 1].drive
         => VelocityLine[i].rescue = VelocityLine[i + 1].rescue)

(* Counted from the newest, statuses and velocities are of the same verdicts. *)
Matching ==
  ~overflowed =>
    \A i \in 0 .. StatusesAhead, j \in 0 .. VelocitiesAhead :
      StatusesAhead - i = VelocitiesAhead - j =>
        VelocityLine[j] = [drive |-> StatusLine[i].stuck, rescue |-> StatusLine[i].rescue]

(* The velocity in use is never more than one verdict away from the status: *)
(* the executor takes one message of each topic for each wait, the velocity *)
(* first, and the status of a verdict is published before its velocity. *)
Lagging ==
  ~overflowed =>
    /\ ready = {} \/ ready = Subscriptions => Lag \in {0, 1}
    /\ ready = {"status"} => Lag \in {-1, 0}
    /\ ready = {"save"} => Lag = 1

ReadyHolds == \A s \in ready : topic[s] # <<>>

RescueInv ==
  /\ TypeOK /\ DOMAIN topic = Subscriptions
  /\ EndsAgree /\ StatusChain /\ VelocityChain /\ Matching /\ Lagging /\ ReadyHolds

LEMMA KeepLastIs ==
  ASSUME NEW T, NEW q \in Seq(T), NEW m \in T, Len(q) <= Depth
  PROVE  /\ KeepLast(q, m) \in Seq(T) /\ KeepLast(q, m) # <<>> /\ Len(KeepLast(q, m)) <= Depth
         /\ KeepLast(q, m)[Len(KeepLast(q, m))] = m
         /\ Len(q) < Depth => /\ Len(KeepLast(q, m)) = Len(q) + 1
                              /\ \A i \in 1 .. Len(q) : KeepLast(q, m)[i] = q[i]
         /\ Len(q) = Depth => /\ Len(KeepLast(q, m)) = Len(q)
                              /\ \A i \in 1 .. Len(q) - 1 : KeepLast(q, m)[i] = q[i + 1]
<1>0. Depth \in Nat \ {0} /\ Len(q) \in Nat BY DepthAssumption
<1>1. CASE Len(q) < Depth
  <2>1. KeepLast(q, m) = Append(q, m) BY <1>1 DEF KeepLast
  <2> QED BY <1>0, <1>1, <2>1
<1>2. CASE Len(q) = Depth
  <2>0. q # <<>> BY <1>0, <1>2
  <2>1. KeepLast(q, m) = Append(Tail(q), m) BY <1>0, <1>2 DEF KeepLast
  <2>2. Tail(q) \in Seq(T) /\ Len(Tail(q)) = Len(q) - 1 /\ \A i \in 1 .. Len(q) - 1 : Tail(q)[i] = q[i + 1]
    BY <1>0, <2>0
  <2> QED BY <1>0, <1>2, <2>1, <2>2
<1> QED BY <1>0, <1>1, <1>2

LEMMA RescueInit == Init => RescueInv
<1> SUFFICES ASSUME Init PROVE RescueInv OBVIOUS
<1> USE DEF Init
<1>1. TypeOK /\ DOMAIN topic = Subscriptions
  <2>1. 0 \in 0 .. MaxRequests /\ 0 \in 0 .. MaxRescues BY BoundAssumption
  <2>2. Standing \in Velocities /\ Free \in Verdicts
    BY <2>1 DEF Standing, Free, Velocities, Verdicts
  <2>3. Depth \in Nat BY DepthAssumption
  <2>4. \A s \in Subscriptions : Len(topic[s]) <= Depth BY <2>3 DEF Subscriptions
  <2>5. topic.save = <<>> /\ topic.status = <<>> /\ DOMAIN topic = Subscriptions
    BY DEF Subscriptions
  <2>6. /\ topic.save \in Seq(Velocities) /\ topic.status \in Seq(Verdicts)
        /\ publishing \in Seq(Velocities) /\ Len(publishing) <= 1
    BY <2>5
  <2> HIDE DEF Init
  <2> QED BY <2>1, <2>2, <2>4, <2>5, <2>6 DEF TypeOK, Init
<1>2. StatusesAhead = 0 /\ VelocitiesAhead = 0 BY DEF StatusesAhead, VelocitiesAhead
<1>8. StatusLine[0] = Free /\ VelocityLine[0] = Standing
  <2>1. Len(topic["status"]) = 0 /\ Len(topic["save"]) = 0 /\ Len(publishing) = 0 OBVIOUS
  <2> QED BY <2>1 DEF StatusLine, VelocityLine
<1>3. EndsAgree BY <1>2, <1>8 DEF EndsAgree, Standing, Free
<1>4. StatusChain /\ VelocityChain BY <1>2 DEF StatusChain, VelocityChain
<1>5. Matching
  <2> SUFFICES ASSUME NEW i \in 0 .. 0, NEW j \in 0 .. 0
               PROVE  VelocityLine[j] = [drive |-> StatusLine[i].stuck, rescue |-> StatusLine[i].rescue]
    BY <1>2 DEF Matching
  <2>1. i = 0 /\ j = 0 OBVIOUS
  <2>2. StatusLine[i].stuck = FALSE /\ StatusLine[i].rescue = 0 BY <1>8, <2>1 DEF Free
  <2> QED BY <1>8, <2>1, <2>2 DEF Standing
<1>6. Lagging BY <1>2 DEF Lagging, Lag, Subscriptions
<1>7. ReadyHolds BY DEF ReadyHolds
<1> QED BY <1>1, <1>3, <1>4, <1>5, <1>6, <1>7 DEF RescueInv

(* Steps that leave messages and what was taken of them alone. *)
LEMMA QuietStep ==
  ASSUME RescueInv, TypeOK',
         UNCHANGED <<topic, publishing, speed_save, self_save_status, rescue, rescuing, overflowed>>,
         Lagging', ReadyHolds'
  PROVE  RescueInv'
<1> USE DEF RescueInv
<1>0. UNCHANGED <<StatusLine, VelocityLine, StatusesAhead, VelocitiesAhead>>
  BY DEF StatusLine, VelocityLine, StatusesAhead, VelocitiesAhead
<1>1. EndsAgree' BY <1>0 DEF EndsAgree
<1>2. StatusChain' BY <1>0 DEF StatusChain
<1>3. VelocityChain' BY <1>0 DEF VelocityChain
<1>4. Matching' BY <1>0 DEF Matching
<1> QED BY <1>1, <1>2, <1>3, <1>4

LEMMA WaitStep == RescueInv /\ Wait => RescueInv'
<1> SUFFICES ASSUME RescueInv, Wait PROVE RescueInv' OBVIOUS
<1> USE DEF RescueInv
<1>0. UNCHANGED <<topic, publishing, speed_save, self_save_status, rescue, rescuing, overflowed>>
  BY DEF Wait, area
<1>1. ready' = {s \in Subscriptions : topic[s] # <<>>} BY DEF Wait
<1>2. TypeOK' BY DEF Wait, TypeOK, world, area
<1>3. ReadyHolds' BY <1>0, <1>1 DEF ReadyHolds
<1>4. Lagging'
  <2>0. Lag' = Lag BY <1>0 DEF Lag, VelocitiesAhead, StatusesAhead
  <2> SUFFICES ASSUME ~overflowed
               PROVE  /\ ready' = {} \/ ready' = Subscriptions => Lag \in {0, 1}
                      /\ ready' = {"status"} => Lag \in {-1, 0}
                      /\ ready' = {"save"} => Lag = 1
    BY <1>0, <2>0 DEF Lagging
  <2>1. Lag \in {0, 1} BY DEF Wait, Lagging
  <2>2. /\ topic["save"] \in Seq(Velocities) /\ topic["status"] \in Seq(Verdicts)
        /\ publishing \in Seq(Velocities) /\ Len(publishing) <= 1
    BY DEF TypeOK
  <2>3. ASSUME ready' = {"status"} PROVE Lag \in {-1, 0}
    <3>1. topic["save"] = <<>> /\ topic["status"] # <<>> BY <1>1, <2>3 DEF Subscriptions
    <3>2. Len(topic["status"]) >= 1 /\ Len(topic["save"]) = 0 BY <2>2, <3>1
    <3> QED BY <2>1, <2>2, <3>2 DEF Lag, VelocitiesAhead, StatusesAhead
  <2>4. ASSUME ready' = {"save"} PROVE Lag = 1
    <3>1. topic["status"] = <<>> /\ topic["save"] # <<>> BY <1>1, <2>4 DEF Subscriptions
    <3>2. Len(topic["save"]) >= 1 /\ Len(topic["status"]) = 0 BY <2>2, <3>1
    <3> QED BY <2>1, <2>2, <3>2 DEF Lag, VelocitiesAhead, StatusesAhead
  <2> QED BY <2>1, <2>3, <2>4
<1> QED BY <1>0, <1>2, <1>3, <1>4, QuietStep

(* The type of what a step leaves alone, and the lengths as numbers. *)
LEMMA Lengths ==
  ASSUME TypeOK
  PROVE  /\ topic["save"] \in Seq(Velocities) /\ topic["status"] \in Seq(Verdicts)
         /\ publishing \in Seq(Velocities) /\ Len(publishing) \in {0, 1}
         /\ Len(topic["save"]) \in 0 .. Depth /\ Len(topic["status"]) \in 0 .. Depth
         /\ Depth \in Nat \ {0}
         /\ StatusesAhead \in Nat /\ VelocitiesAhead \in Nat
<1>1. Depth \in Nat \ {0} BY DepthAssumption
<1>2. /\ topic["save"] \in Seq(Velocities) /\ topic["status"] \in Seq(Verdicts)
      /\ publishing \in Seq(Velocities) /\ Len(publishing) <= 1
  BY DEF TypeOK
<1>3. Len(topic["save"]) <= Depth /\ Len(topic["status"]) <= Depth BY DEF TypeOK, Subscriptions
<1>4. Len(topic["save"]) \in Nat /\ Len(topic["status"]) \in Nat /\ Len(publishing) \in Nat BY <1>2
<1>5. StatusesAhead \in Nat /\ VelocitiesAhead \in Nat BY <1>4 DEF StatusesAhead, VelocitiesAhead
<1>6. Len(publishing) \in {0, 1}
  <2>1. \A k \in Nat : k <= 1 => k \in {0, 1} OBVIOUS
  <2> QED BY <1>2, <1>4, <2>1
<1>7. Len(topic["save"]) \in 0 .. Depth /\ Len(topic["status"]) \in 0 .. Depth BY <1>1, <1>3, <1>4
<1> QED BY <1>1, <1>2, <1>5, <1>6, <1>7

LEMMA JudgeStep == RescueInv /\ Judge => RescueInv'
<1> SUFFICES ASSUME RescueInv, Judge PROVE RescueInv' OBVIOUS
<1> DEFINE number == IF stuck /\ ~rescuing THEN rescue + 1 ELSE rescue
           verdict == [stuck |-> stuck, rescue |-> number]
           velocity == [drive |-> stuck, rescue |-> number]
           n == StatusesAhead
           m == VelocitiesAhead
<1>1. /\ publishing = <<>> /\ number <= MaxRescues
      /\ rescue' = number /\ rescuing' = stuck
      /\ publishing' = << velocity >>
      /\ topic' = [topic EXCEPT !["status"] = KeepLast(topic["status"], verdict)]
      /\ overflowed' = (overflowed \/ Len(topic["status"]) = Depth)
      /\ UNCHANGED <<world, serial>>
  BY DEF Judge, VelocityOf, PublishesStatus, Publish
<1>2. requests' \in 0 .. MaxRequests
  <2>1. requests \in 0 .. MaxRequests /\ requests > 0 /\ requests' = requests - 1
    BY DEF Judge, RescueInv, TypeOK
  <2> QED BY <2>1, BoundAssumption
<1>3. number \in 0 .. MaxRescues
  <2>1. rescue \in 0 .. MaxRescues BY DEF RescueInv, TypeOK
  <2> QED BY <1>1, <2>1, BoundAssumption
<1>4. stuck \in BOOLEAN /\ verdict \in Verdicts /\ velocity \in Velocities
  BY <1>3 DEF RescueInv, TypeOK, Verdicts, Velocities
<1> DEFINE q == topic["status"]
<1>5. TypeOK BY DEF RescueInv
<1>6. q \in Seq(Verdicts) /\ Len(q) <= Depth /\ n = Len(q) /\ n \in Nat /\ m \in Nat
      /\ topic["save"] \in Seq(Velocities) /\ m = Len(topic["save"]) /\ Depth \in Nat \ {0}
  BY <1>1, <1>5, Lengths DEF StatusesAhead, VelocitiesAhead
<1> HIDE DEF number, verdict, velocity
<1>7. /\ topic'["status"] = KeepLast(q, verdict) /\ topic'["save"] = topic["save"]
      /\ DOMAIN topic' = Subscriptions
  BY <1>1 DEF RescueInv, Subscriptions
<1>8. /\ topic'["status"] \in Seq(Verdicts) /\ topic'["status"] # <<>> /\ Len(topic'["status"]) <= Depth
      /\ topic'["status"][Len(topic'["status"])] = verdict
      /\ n < Depth => /\ Len(topic'["status"]) = n + 1
                      /\ \A i \in 1 .. n : topic'["status"][i] = q[i]
      /\ n = Depth => /\ Len(topic'["status"]) = n
                      /\ \A i \in 1 .. n - 1 : topic'["status"][i] = q[i + 1]
  <2> DEFINE k == KeepLast(q, verdict)
  <2> HIDE DEF q, n
  <2>1. /\ k \in Seq(Verdicts) /\ k # <<>> /\ Len(k) <= Depth
        /\ k[Len(k)] = verdict
        /\ Len(q) < Depth => Len(k) = Len(q) + 1 /\ \A i \in 1 .. Len(q) : k[i] = q[i]
        /\ Len(q) = Depth => Len(k) = Len(q) /\ \A i \in 1 .. Len(q) - 1 : k[i] = q[i + 1]
    <3>1. q \in Seq(Verdicts) /\ verdict \in Verdicts /\ Len(q) <= Depth BY <1>4, <1>6
    <3> QED BY <3>1, KeepLastIs, ZenonT(60)
  <2> HIDE DEF k
  <2> QED BY <1>6, <1>7, <2>1 DEF k
<1>9. TypeOK'
  <2>1. publishing' \in Seq(Velocities) /\ Len(publishing') <= 1 BY <1>1, <1>4
  <2>2. \A s \in Subscriptions : Len(topic'[s]) <= Depth
    BY <1>5, <1>7, <1>8 DEF TypeOK, Subscriptions
  <2>3. topic'.save \in Seq(Velocities) /\ topic'.status \in Seq(Verdicts) BY <1>6, <1>7, <1>8
  <2>4. rescue' \in 0 .. MaxRescues /\ rescuing' \in BOOLEAN BY <1>1, <1>3, <1>4
  <2>5. overflowed' \in BOOLEAN BY <1>1, <1>5 DEF TypeOK
  <2>6. UNCHANGED <<stuck, service, ready, port, speed_save, self_save_status, sent>>
    BY <1>1 DEF world, serial
  <2> QED BY <1>2, <1>5, <2>1, <2>2, <2>3, <2>4, <2>5, <2>6 DEF TypeOK
<1>10. StatusesAhead' = Len(topic'["status"]) /\ VelocitiesAhead' = m + 1
  BY <1>1, <1>6, <1>7 DEF StatusesAhead, VelocitiesAhead
<1>11. UNCHANGED <<speed_save, self_save_status, ready>> BY <1>1 DEF serial
<1>12. /\ \A i \in 0 .. m : VelocityLine'[i] = VelocityLine[i]
       /\ VelocityLine'[m + 1] = velocity
  BY <1>1, <1>6, <1>7, <1>11 DEF VelocityLine
<1>13. StatusLine'[Len(topic'["status"])] = verdict
  <2>1. Len(topic'["status"]) # 0 BY <1>8
  <2> QED BY <1>8, <2>1 DEF StatusLine
<1>14. n < Depth => \A i \in 0 .. n : StatusLine'[i] = StatusLine[i]
  BY <1>6, <1>8, <1>11 DEF StatusLine
<1>15. n = Depth => \A i \in 1 .. n - 1 : StatusLine'[i] = StatusLine[i + 1]
  BY <1>6, <1>8 DEF StatusLine
<1>16. /\ StatusLine[n] = [stuck |-> rescuing, rescue |-> rescue]
       /\ VelocityLine[m] = [drive |-> rescuing, rescue |-> rescue]
  BY DEF RescueInv, EndsAgree
<1>17. verdict.stuck = stuck /\ verdict.rescue = number /\ velocity.drive = stuck /\ velocity.rescue = number
  BY DEF verdict, velocity
<1>18. rescuing /\ stuck => number = rescue BY DEF number
<1>19. EndsAgree'
  <2>1. rescue' = verdict.rescue /\ rescuing' = verdict.stuck BY <1>1, <1>17
  <2>2. verdict = [stuck |-> rescuing', rescue |-> rescue']
        /\ velocity = [drive |-> rescuing', rescue |-> rescue']
    BY <1>1 DEF verdict, velocity
  <2> QED BY <1>10, <1>12, <1>13, <2>2 DEF EndsAgree
<1>20. StatusChain'
  <2> SUFFICES ASSUME NEW i \in 0 .. Len(topic'["status"]) - 1, i > 0 \/ ~overflowed',
                      StatusLine'[i].stuck, StatusLine'[i + 1].stuck
               PROVE  StatusLine'[i].rescue = StatusLine'[i + 1].rescue
    BY <1>10 DEF StatusChain
  <2>1. CASE n < Depth
    <3>1. CASE i = n BY <1>6, <1>8, <1>13, <1>14, <1>16, <1>17, <1>18, <2>1, <3>1
    <3>2. CASE i < n
      <4>1. i \in 0 .. n - 1 /\ i \in 0 .. n /\ i + 1 \in 0 .. n BY <1>6, <3>2
      <4>2. i > 0 \/ ~overflowed BY <1>1
      <4>3. StatusLine'[i] = StatusLine[i] /\ StatusLine'[i + 1] = StatusLine[i + 1] BY <1>14, <2>1, <4>1
      <4> QED BY <4>1, <4>2, <4>3 DEF RescueInv, StatusChain
    <3> QED BY <1>6, <1>8, <2>1, <3>1, <3>2
  <2>2. CASE n = Depth
    <3>1. i > 0 BY <1>1, <1>6, <2>2
    <3>2. StatusLine'[i] = StatusLine[i + 1] BY <1>6, <1>8, <1>15, <2>2, <3>1
    <3>3. CASE i = n - 1
      <4>1. StatusLine'[i + 1] = verdict BY <1>6, <1>8, <1>13, <2>2, <3>3
      <4> QED BY <1>6, <1>16, <1>17, <1>18, <3>2, <3>3, <4>1
    <3>4. CASE i < n - 1
      <4>1. i + 1 \in 0 .. n - 1 /\ i + 1 > 0 /\ i + 1 \in 1 .. n - 1 BY <1>6, <3>1, <3>4
      <4>2. StatusLine'[i + 1] = StatusLine[(i + 1) + 1] BY <1>15, <2>2, <4>1
      <4> QED BY <3>2, <4>1, <4>2 DEF RescueInv, StatusChain
    <3> QED BY <1>6, <1>8, <2>2, <3>3, <3>4
  <2> QED BY <1>6, <2>1, <2>2
<1>21. VelocityChain'
  <2> SUFFICES ASSUME NEW i \in 0 .. m,
                      i > 0 \/ ~overflowed' \/ Len(topic'["save"]) = 0,
                      VelocityLine'[i].drive, VelocityLine'[i + 1].drive
               PROVE  VelocityLine'[i].rescue = VelocityLine'[i + 1].rescue
    BY <1>6, <1>10 DEF VelocityChain
  <2>1. CASE i = m BY <1>6, <1>12, <1>16, <1>17, <1>18, <2>1
  <2>2. CASE i < m
    <3>1. i \in 0 .. m - 1 /\ i + 1 \in 0 .. m BY <1>6, <2>2
    <3>2. VelocityLine'[i] = VelocityLine[i] /\ VelocityLine'[i + 1] = VelocityLine[i + 1] BY <1>12, <3>1
    <3>3. i > 0 \/ ~overflowed \/ Len(topic["save"]) = 0 BY <1>1, <1>7
    <3> QED BY <3>1, <3>2, <3>3 DEF RescueInv, VelocityChain
  <2> QED BY <1>6, <2>1, <2>2
<1>22. Matching'
  <2> SUFFICES ASSUME ~overflowed', NEW i \in 0 .. Len(topic'["status"]), NEW j \in 0 .. m + 1,
                      Len(topic'["status"]) - i = (m + 1) - j
               PROVE  VelocityLine'[j] = [drive |-> StatusLine'[i].stuck, rescue |-> StatusLine'[i].rescue]
    BY <1>10 DEF Matching
  <2>0. ~overflowed /\ Len(topic["status"]) # Depth BY <1>1
  <2>1. ~overflowed /\ n < Depth BY <1>6, <2>0
  <2>2. CASE j = m + 1
    <3>1. i = Len(topic'["status"]) BY <1>6, <1>8, <2>2
    <3>2. StatusLine'[i] = verdict /\ VelocityLine'[j] = velocity BY <1>12, <1>13, <2>2, <3>1
    <3> QED BY <1>17, <3>2 DEF velocity
  <2>3. CASE j # m + 1
    <3>0. n \in Nat /\ m \in Nat /\ Len(topic'["status"]) = n + 1 BY <1>6, <1>8, <2>1
    <3>1. j \in 0 .. m /\ i \in 0 .. n /\ n - i = m - j
      <4> HIDE DEF n, m
      <4> QED BY <2>3, <3>0
    <3>2. StatusLine'[i] = StatusLine[i] /\ VelocityLine'[j] = VelocityLine[j] BY <1>12, <1>14, <2>1, <3>1
    <3> QED BY <2>1, <3>1, <3>2 DEF RescueInv, Matching
  <2> QED BY <2>2, <2>3
<1>23. Lagging'
  <2> SUFFICES ASSUME ~overflowed' PROVE ~overflowed /\ Lag' = Lag
    BY <1>11 DEF RescueInv, Lagging
  <2>0. ~overflowed /\ Len(topic["status"]) # Depth BY <1>1
  <2>1. ~overflowed /\ n < Depth BY <1>6, <2>0
  <2>2. n \in Nat /\ m \in Nat /\ StatusesAhead' = n + 1 /\ VelocitiesAhead' = m + 1
    BY <1>6, <1>8, <1>10, <2>1
  <2>3. Lag' = VelocitiesAhead' - StatusesAhead' BY DEF Lag
  <2>4. Lag = m - n BY DEF Lag
  <2> HIDE DEF n, m
  <2> QED BY <2>0, <2>2, <2>3, <2>4
<1>24. ReadyHolds'
  <2> SUFFICES ASSUME NEW s \in ready PROVE topic'[s] # <<>> BY <1>11 DEF ReadyHolds
  <2>1. s \in Subscriptions BY <1>5 DEF TypeOK
  <2> QED BY <1>7, <1>8, <2>1 DEF RescueInv, ReadyHolds, Subscriptions
<1> QED BY <1>7, <1>9, <1>19, <1>20, <1>21, <1>22, <1>23, <1>24 DEF RescueInv

LEMMA PublishVelocityStep == RescueInv /\ PublishVelocity => RescueInv'
<1> SUFFICES ASSUME RescueInv, PublishVelocity PROVE RescueInv' OBVIOUS
<1> DEFINE q == topic["save"]
           w == Head(publishing)
           m == Len(topic["save"])
<1>1. /\ publishing # <<>> /\ publishing' = <<>>
      /\ topic' = [topic EXCEPT !["save"] = KeepLast(topic["save"], w)]
      /\ overflowed' = (overflowed \/ Len(topic["save"]) = Depth)
      /\ UNCHANGED <<world, requests, rescue, rescuing, serial>>
  BY DEF PublishVelocity, Publish
<1>2. TypeOK /\ DOMAIN topic = Subscriptions BY DEF RescueInv
<1>3. /\ q \in Seq(Velocities) /\ Len(q) <= Depth /\ m = Len(q) /\ m \in Nat /\ Depth \in Nat \ {0}
      /\ publishing \in Seq(Velocities) /\ Len(publishing) = 1
  BY <1>1, <1>2, Lengths
<1>4. w \in Velocities /\ w = publishing[1] BY <1>3
<1>5. /\ topic'["save"] = KeepLast(q, w) /\ topic'["status"] = topic["status"]
      /\ DOMAIN topic' = Subscriptions
  BY <1>1, <1>2 DEF Subscriptions
<1>6. UNCHANGED <<speed_save, self_save_status, ready>> BY <1>1 DEF serial
<1> DEFINE k == topic'["save"]
<1> HIDE DEF w
<1>7. /\ k \in Seq(Velocities) /\ k # <<>> /\ Len(k) <= Depth
      /\ k[Len(k)] = w
      /\ Len(q) < Depth => /\ Len(k) = Len(q) + 1
                           /\ \A i \in 1 .. Len(q) : k[i] = q[i]
      /\ Len(q) = Depth => /\ Len(k) = Len(q)
                           /\ \A i \in 1 .. Len(q) - 1 : k[i] = q[i + 1]
  <2> HIDE DEF q
  <2> DEFINE kk == KeepLast(q, w)
  <2>1. /\ kk \in Seq(Velocities) /\ kk # <<>> /\ Len(kk) <= Depth
        /\ kk[Len(kk)] = w
        /\ Len(q) < Depth => /\ Len(kk) = Len(q) + 1
                             /\ \A i \in 1 .. Len(q) : kk[i] = q[i]
        /\ Len(q) = Depth => /\ Len(kk) = Len(q)
                             /\ \A i \in 1 .. Len(q) - 1 : kk[i] = q[i + 1]
    <3>1. q \in Seq(Velocities) /\ w \in Velocities /\ Len(q) <= Depth BY <1>3, <1>4
    <3> QED BY <3>1, KeepLastIs, ZenonT(60)
  <2>2. k = kk BY <1>5
  <2> HIDE DEF kk, k
  <2> QED BY <2>1, <2>2
<1>8. Len(publishing') = 0 /\ Len(k) \in Nat BY <1>1, <1>7
<1>9. TypeOK'
  <2>1. publishing' \in Seq(Velocities) /\ Len(publishing') <= 1 BY <1>1, <1>8
  <2>2. \A s \in Subscriptions : Len(topic'[s]) <= Depth
    BY <1>2, <1>5, <1>7 DEF TypeOK, Subscriptions
  <2>3. topic'.save \in Seq(Velocities) /\ topic'.status \in Seq(Verdicts)
    BY <1>2, <1>5, <1>7 DEF TypeOK
  <2>4. overflowed' \in BOOLEAN BY <1>1, <1>2 DEF TypeOK
  <2>5. UNCHANGED <<stuck, service, requests, rescue, rescuing, ready, port, speed_save,
                    self_save_status, sent>>
    BY <1>1 DEF world, serial
  <2> QED BY <1>2, <2>1, <2>2, <2>3, <2>4, <2>5 DEF TypeOK
<1>10. UNCHANGED <<StatusLine, StatusesAhead>> /\ StatusesAhead \in Nat
  <2>1. UNCHANGED <<StatusLine, StatusesAhead>> BY <1>5, <1>6 DEF StatusLine, StatusesAhead
  <2> QED BY <1>2, <2>1, Lengths
<1>11. VelocitiesAhead = m + 1 /\ VelocitiesAhead' = Len(k)
  <2>1. VelocitiesAhead = m + Len(publishing) /\ VelocitiesAhead' = Len(k) + Len(publishing')
    BY DEF VelocitiesAhead
  <2> HIDE DEF m, k
  <2> QED BY <1>3, <1>8, <2>1
<1>12. m < Depth => Len(k) = m + 1 /\ \A i \in 0 .. m + 1 : VelocityLine'[i] = VelocityLine[i]
  <2> SUFFICES ASSUME m < Depth, NEW i \in 0 .. m + 1 PROVE VelocityLine'[i] = VelocityLine[i]
    BY <1>3, <1>7
  <2>1. Len(k) = m + 1 /\ Len(publishing) = 1 /\ Len(publishing') = 0 BY <1>3, <1>7, <1>8
  <2>2. VelocityLine'[i] = IF i = 0 THEN speed_save' ELSE k[i]
    BY <1>3, <2>1 DEF VelocityLine
  <2>3. VelocityLine[i] = IF i = 0 THEN speed_save ELSE IF i <= m THEN q[i] ELSE w
    BY <1>3, <1>4, <2>1 DEF VelocityLine
  <2>4. CASE i = m + 1 BY <1>3, <1>7, <2>1, <2>2, <2>3, <2>4
  <2>5. CASE i \in 1 .. m BY <1>3, <1>7, <2>2, <2>3, <2>5
  <2>6. CASE i = 0 BY <1>6, <2>2, <2>3, <2>6
  <2> QED BY <1>3, <2>4, <2>5, <2>6
<1>13. m = Depth => Len(k) = m /\ \A i \in 1 .. m : VelocityLine'[i] = VelocityLine[i + 1]
  <2> SUFFICES ASSUME m = Depth, NEW i \in 1 .. m PROVE VelocityLine'[i] = VelocityLine[i + 1]
    BY <1>3, <1>7
  <2>1. Len(k) = m /\ Len(publishing) = 1 /\ Len(publishing') = 0 BY <1>3, <1>7, <1>8
  <2>2. VelocityLine'[i] = k[i] BY <1>3, <2>1 DEF VelocityLine
  <2>3. VelocityLine[i + 1] = IF i + 1 <= m THEN q[i + 1] ELSE w
    BY <1>3, <1>4, <2>1 DEF VelocityLine
  <2>4. CASE i = m BY <1>3, <1>7, <2>1, <2>2, <2>3, <2>4
  <2>5. CASE i \in 1 .. m - 1 BY <1>3, <1>7, <2>2, <2>3, <2>5
  <2> QED BY <1>3, <2>4, <2>5
<1> HIDE DEF m, k, q
<1>14. EndsAgree'
  <2>1. VelocityLine'[Len(k)] = VelocityLine[m + 1] BY <1>3, <1>12, <1>13
  <2>2. rescue' = rescue /\ rescuing' = rescuing BY <1>1
  <2> QED BY <1>10, <1>11, <2>1, <2>2 DEF RescueInv, EndsAgree
<1>15. StatusChain' BY <1>1, <1>10 DEF RescueInv, StatusChain
<1>16. VelocityChain'
  <2>0. Len(k) # 0 BY <1>3, <1>12, <1>13
  <2> SUFFICES ASSUME NEW i \in 0 .. Len(k) - 1, i > 0 \/ ~overflowed',
                      VelocityLine'[i].drive, VelocityLine'[i + 1].drive
               PROVE  VelocityLine'[i].rescue = VelocityLine'[i + 1].rescue
    BY <1>11, <2>0 DEF VelocityChain, k
  <2>1. CASE m < Depth
    <3>1. i \in 0 .. m /\ i \in 0 .. m + 1 /\ i + 1 \in 0 .. m + 1 BY <1>3, <1>12, <2>1
    <3>2. VelocityLine'[i] = VelocityLine[i] /\ VelocityLine'[i + 1] = VelocityLine[i + 1]
      BY <1>12, <2>1, <3>1
    <3>3. i > 0 \/ ~overflowed BY <1>1
    <3>4. i \in 0 .. VelocitiesAhead - 1 BY <1>3, <1>11, <3>1
    <3> QED BY <3>2, <3>3, <3>4 DEF RescueInv, VelocityChain
  <2>2. CASE m = Depth
    <3>1. i > 0 BY <1>1, <2>2 DEF m
    <3>2. i \in 1 .. m /\ i + 1 \in 1 .. m /\ i + 1 > 0 BY <1>3, <1>13, <2>2, <3>1
    <3>3. VelocityLine'[i] = VelocityLine[i + 1] /\ VelocityLine'[i + 1] = VelocityLine[(i + 1) + 1]
      BY <1>13, <2>2, <3>2
    <3>4. i + 1 \in 0 .. VelocitiesAhead - 1 BY <1>3, <1>11, <3>2
    <3> QED BY <3>2, <3>3, <3>4 DEF RescueInv, VelocityChain
  <2> QED BY <1>3, <2>1, <2>2 DEF m
<1>17. ~overflowed' => ~overflowed /\ m < Depth
  <2>1. ~overflowed' => ~overflowed /\ m # Depth BY <1>1 DEF m
  <2> QED BY <1>3, <2>1
<1>18. Matching'
  <2> SUFFICES ASSUME ~overflowed', NEW i \in 0 .. StatusesAhead, NEW j \in 0 .. m + 1,
                      StatusesAhead - i = (m + 1) - j
               PROVE  VelocityLine'[j] = [drive |-> StatusLine'[i].stuck, rescue |-> StatusLine'[i].rescue]
    BY <1>10, <1>11, <1>12, <1>17 DEF Matching
  <2> QED BY <1>10, <1>11, <1>12, <1>17 DEF RescueInv, Matching
<1>19. Lagging'
  <2> SUFFICES ASSUME ~overflowed' PROVE ~overflowed /\ Lag' = Lag
    BY <1>6 DEF RescueInv, Lagging
  <2>1. VelocitiesAhead' = VelocitiesAhead BY <1>11, <1>12, <1>17
  <2> QED BY <1>10, <1>17, <2>1 DEF Lag
<1>20. ReadyHolds'
  <2> SUFFICES ASSUME NEW s \in ready PROVE topic'[s] # <<>> BY <1>6 DEF ReadyHolds
  <2>1. s \in Subscriptions BY <1>2 DEF TypeOK
  <2> QED BY <1>5, <1>7, <2>1 DEF RescueInv, ReadyHolds, Subscriptions, k
<1> QED BY <1>5, <1>9, <1>14, <1>15, <1>16, <1>18, <1>19, <1>20 DEF RescueInv

(* When a backlog that lost messages has been worked off, both queues are   *)
(* empty, so that nothing is ready. *)
LEMMA Caught ==
  ASSUME RescueInv, NEW s \in Subscriptions, Take(s), overflowed, ~overflowed'
  PROVE  /\ topic'["save"] = <<>> /\ topic'["status"] = <<>>
         /\ topic["save"] # <<>> => s = "save"
         /\ topic["status"] # <<>> => s = "status"
         /\ ready' = {}
<1>1. \A t \in Subscriptions : topic'[t] = <<>> BY DEF Take
<1>2. topic' = [topic EXCEPT ![s] = Tail(topic[s])] /\ ready' = ready \ {s} BY DEF Take
<1>3. \A t \in Subscriptions \ {s} : topic[t] = <<>> BY <1>1, <1>2 DEF RescueInv
<1>4. ready \subseteq Subscriptions BY DEF RescueInv, TypeOK
<1> QED BY <1>1, <1>2, <1>3, <1>4 DEF RescueInv, ReadyHolds, Subscriptions

LEMMA TakeVelocityStep == RescueInv /\ TakeVelocity => RescueInv'
<1> SUFFICES ASSUME RescueInv, TakeVelocity PROVE RescueInv' OBVIOUS
<1> DEFINE q == topic["save"]
           m == VelocitiesAhead
<1>1. /\ Take("save") /\ "save" \in ready /\ ready' = ready \ {"save"}
      /\ topic' = [topic EXCEPT !["save"] = Tail(topic["save"])]
      /\ overflowed' = (overflowed /\ \E t \in Subscriptions : topic'[t] # <<>>)
      /\ speed_save' = Head(topic["save"])
      /\ UNCHANGED <<world, area, port, sent, self_save_status>>
  BY DEF TakeVelocity, Take
<1>2. TypeOK /\ DOMAIN topic = Subscriptions BY DEF RescueInv
<1>3. /\ q # <<>> /\ q \in Seq(Velocities) /\ Len(q) \in 1 .. Depth /\ Depth \in Nat
      /\ m = Len(q) + Len(publishing) /\ Len(publishing) \in {0, 1} /\ m \in Nat \ {0}
  <2>1. q # <<>> BY <1>1 DEF RescueInv, ReadyHolds
  <2>2. /\ q \in Seq(Velocities) /\ Len(q) \in 0 .. Depth /\ Depth \in Nat \ {0}
        /\ Len(publishing) \in {0, 1}
    BY <1>2, Lengths
  <2>3. Len(q) # 0 BY <2>1, <2>2
  <2>4. m = Len(q) + Len(publishing) BY DEF VelocitiesAhead
  <2> HIDE DEF q, m
  <2> QED BY <2>1, <2>2, <2>3, <2>4
<1>4. /\ topic'["save"] = Tail(q) /\ topic'["status"] = topic["status"] /\ DOMAIN topic' = Subscriptions
  BY <1>1, <1>2 DEF Subscriptions
<1>5. /\ Tail(q) \in Seq(Velocities) /\ Len(Tail(q)) = Len(q) - 1
      /\ \A i \in 1 .. Len(q) - 1 : Tail(q)[i] = q[i + 1]
      /\ Head(q) = q[1] /\ Head(q) \in Velocities
  BY <1>3
<1>6. UNCHANGED <<publishing, self_save_status, rescue, rescuing>> BY <1>1 DEF area
<1>7. TypeOK'
  <2>1. \A s \in Subscriptions : Len(topic'[s]) <= Depth
    BY <1>2, <1>3, <1>4, <1>5 DEF TypeOK, Subscriptions
  <2>2. topic'.save \in Seq(Velocities) /\ topic'.status \in Seq(Verdicts)
    BY <1>2, <1>4, <1>5 DEF TypeOK
  <2>3. ready' \subseteq Subscriptions /\ overflowed' \in BOOLEAN /\ speed_save' \in Velocities
    BY <1>1, <1>2, <1>5 DEF TypeOK
  <2>4. UNCHANGED <<stuck, service, requests, rescue, rescuing, publishing, port, self_save_status, sent>>
    BY <1>1 DEF world, area
  <2> QED BY <1>2, <2>1, <2>2, <2>3, <2>4 DEF TypeOK
<1>8. UNCHANGED <<StatusLine, StatusesAhead>> /\ StatusesAhead \in Nat
  <2>1. UNCHANGED <<StatusLine, StatusesAhead>> BY <1>4, <1>6 DEF StatusLine, StatusesAhead
  <2> QED BY <1>2, <2>1, Lengths
<1>9. VelocitiesAhead' = m - 1
  <2>1. VelocitiesAhead' = Len(Tail(q)) + Len(publishing) BY <1>4, <1>6 DEF VelocitiesAhead
  <2> HIDE DEF q, m
  <2> QED BY <1>3, <1>5, <2>1
<1>10. \A i \in 0 .. m - 1 : VelocityLine'[i] = VelocityLine[i + 1]
  <2> SUFFICES ASSUME NEW i \in 0 .. m - 1 PROVE VelocityLine'[i] = VelocityLine[i + 1]
    OBVIOUS
  <2>0. i \in 0 .. Len(Tail(q)) + Len(publishing) /\ i + 1 \in 0 .. Len(q) + Len(publishing)
    <3> HIDE DEF q, m
    <3> QED BY <1>3, <1>5
  <2>1. VelocityLine'[i] = IF i = 0 THEN Head(q) ELSE IF i <= Len(q) - 1 THEN Tail(q)[i] ELSE publishing[1]
    <3>1. VelocityLine'[i] = IF i = 0 THEN speed_save'
                             ELSE IF i <= Len(topic'["save"]) THEN topic'["save"][i] ELSE publishing'[1]
      BY <1>4, <1>6, <2>0 DEF VelocityLine
    <3> QED BY <1>1, <1>4, <1>5, <1>6, <3>1
  <2>2. VelocityLine[i + 1] = IF i + 1 <= Len(q) THEN q[i + 1] ELSE publishing[1]
    BY <2>0 DEF VelocityLine
  <2> HIDE DEF q, m
  <2>3. CASE i = 0 BY <1>3, <1>5, <2>1, <2>2, <2>3
  <2>4. CASE i \in 1 .. Len(q) - 1 BY <1>3, <1>5, <2>1, <2>2, <2>4
  <2>5. CASE i > 0 /\ i > Len(q) - 1 BY <1>3, <1>5, <2>1, <2>2, <2>5
  <2> QED BY <1>3, <2>3, <2>4, <2>5
<1> HIDE DEF q, m
<1>11. EndsAgree'
  <2>1. VelocityLine'[m - 1] = VelocityLine[m] BY <1>3, <1>10
  <2> QED BY <1>6, <1>8, <1>9, <2>1 DEF RescueInv, EndsAgree, m
<1>12. StatusChain'
  <2> SUFFICES ASSUME NEW i \in 0 .. StatusesAhead - 1, i > 0 \/ ~overflowed',
                      StatusLine[i].stuck, StatusLine[i + 1].stuck
               PROVE  StatusLine[i].rescue = StatusLine[i + 1].rescue
    BY <1>8 DEF StatusChain
  <2>1. CASE overflowed /\ ~overflowed'
    <3>1. topic["status"] = <<>> BY <1>1, <2>1, Caught DEF Subscriptions
    <3>2. StatusesAhead = 0 BY <3>1 DEF StatusesAhead
    <3> QED BY <3>2
  <2>2. CASE ~(overflowed /\ ~overflowed') BY <2>2 DEF RescueInv, StatusChain
  <2> QED BY <2>1, <2>2
<1>13. VelocityChain'
  <2> SUFFICES ASSUME NEW i \in 0 .. m - 2, VelocityLine'[i].drive, VelocityLine'[i + 1].drive
               PROVE  VelocityLine'[i].rescue = VelocityLine'[i + 1].rescue
    BY <1>3, <1>9 DEF VelocityChain
  <2>1. i \in 0 .. m - 1 /\ i + 1 \in 0 .. m - 1 /\ i + 1 > 0 BY <1>3
  <2>2. VelocityLine'[i] = VelocityLine[i + 1] /\ VelocityLine'[i + 1] = VelocityLine[(i + 1) + 1]
    BY <1>10, <2>1
  <2> QED BY <2>1, <2>2 DEF RescueInv, VelocityChain, m
<1>14. Matching'
  <2> SUFFICES ASSUME ~overflowed', NEW i \in 0 .. StatusesAhead, NEW j \in 0 .. m - 1,
                      StatusesAhead - i = (m - 1) - j
               PROVE  VelocityLine'[j] = [drive |-> StatusLine[i].stuck, rescue |-> StatusLine[i].rescue]
    BY <1>8, <1>9 DEF Matching
  <2>1. VelocityLine'[j] = VelocityLine[j + 1] /\ j + 1 \in 0 .. m /\ StatusesAhead - i = m - (j + 1)
    BY <1>3, <1>8, <1>10
  <2>2. CASE ~overflowed BY <2>1, <2>2 DEF RescueInv, Matching, m
  <2>3. CASE overflowed
    <3>1. topic["status"] = <<>> BY <1>1, <2>3, Caught DEF Subscriptions
    <3>2. StatusesAhead = 0 BY <3>1 DEF StatusesAhead
    <3>3. i = 0 /\ j + 1 = m BY <1>3, <2>1, <3>2
    <3> QED BY <2>1, <3>2, <3>3 DEF RescueInv, EndsAgree, m
  <2> QED BY <2>2, <2>3
<1>15. Lagging'
  <2> SUFFICES ASSUME ~overflowed'
               PROVE  /\ ready' = {} \/ ready' = Subscriptions => Lag' \in {0, 1}
                      /\ ready' = {"status"} => Lag' \in {-1, 0}
                      /\ ready' = {"save"} => Lag' = 1
    BY DEF Lagging
  <2>0. Lag = m - StatusesAhead /\ Lag' = (m - 1) - StatusesAhead BY <1>8, <1>9 DEF Lag, m
  <2>1. CASE ~overflowed
    <3>1. ready = Subscriptions \/ ready = {"save"} BY <1>1, <1>2 DEF TypeOK, Subscriptions
    <3>2. ready = Subscriptions => Lag \in {0, 1} BY <2>1 DEF RescueInv, Lagging
    <3>3. ready = {"save"} => Lag = 1 BY <2>1 DEF RescueInv, Lagging
    <3>4. Lag' = Lag - 1 BY <1>3, <1>8, <2>0
    <3>5. CASE ready = Subscriptions
      <4>1. ready' = {"status"} BY <1>1, <3>5 DEF Subscriptions
      <4>2. Lag' \in {-1, 0} BY <3>2, <3>4, <3>5
      <4> QED BY <4>1, <4>2 DEF Subscriptions
    <3>6. CASE ready = {"save"}
      <4>1. ready' = {} BY <1>1, <3>6
      <4>2. Lag' = 0 BY <3>3, <3>4, <3>6
      <4> QED BY <4>1, <4>2
    <3> QED BY <3>1, <3>5, <3>6
  <2>2. CASE overflowed
    <3>1. ready' = {} /\ topic'["save"] = <<>> /\ topic["status"] = <<>>
      BY <1>1, <2>2, Caught DEF Subscriptions
    <3>2. StatusesAhead = 0 BY <3>1 DEF StatusesAhead
    <3>3. Len(q) = 1 BY <1>3, <1>4, <1>5, <3>1
    <3>4. Lag' \in {0, 1} BY <1>3, <2>0, <3>2, <3>3
    <3> QED BY <3>1, <3>4
  <2> QED BY <2>1, <2>2
<1>16. ReadyHolds'
  <2> SUFFICES ASSUME NEW s \in ready, s # "save" PROVE topic'[s] # <<>> BY <1>1 DEF ReadyHolds
  <2>1. s \in Subscriptions BY <1>2 DEF TypeOK
  <2> QED BY <1>4, <2>1 DEF RescueInv, ReadyHolds, Subscriptions
<1> QED BY <1>4, <1>7, <1>11, <1>12, <1>13, <1>14, <1>15, <1>16 DEF RescueInv

LEMMA TakeStatusStep == RescueInv /\ TakeStatus => RescueInv'
<1> SUFFICES ASSUME RescueInv, TakeStatus PROVE RescueInv' OBVIOUS
<1> DEFINE q == topic["status"]
           n == StatusesAhead
           m == VelocitiesAhead
<1>1. /\ Take("status") /\ "status" \in ready /\ "save" \notin ready /\ ready' = ready \ {"status"}
      /\ topic' = [topic EXCEPT !["status"] = Tail(topic["status"])]
      /\ overflowed' = (overflowed /\ \E t \in Subscriptions : topic'[t] # <<>>)
      /\ self_save_status' = Head(topic["status"])
      /\ UNCHANGED <<world, area, port, sent, speed_save>>
  BY DEF TakeStatus, Take
<1>2. TypeOK /\ DOMAIN topic = Subscriptions BY DEF RescueInv
<1>3. /\ q # <<>> /\ q \in Seq(Verdicts) /\ Len(q) \in 1 .. Depth /\ Depth \in Nat
      /\ n = Len(q) /\ n \in Nat \ {0} /\ m \in Nat
  <2>1. q # <<>> BY <1>1 DEF RescueInv, ReadyHolds
  <2>2. q \in Seq(Verdicts) /\ Len(q) \in 0 .. Depth /\ Depth \in Nat \ {0} /\ m \in Nat
    BY <1>2, Lengths
  <2>3. Len(q) # 0 BY <2>1, <2>2
  <2>4. n = Len(q) BY DEF StatusesAhead
  <2> HIDE DEF q, n, m
  <2> QED BY <2>1, <2>2, <2>3, <2>4
<1>4. topic'["status"] = Tail(q) /\ topic'["save"] = topic["save"] /\ DOMAIN topic' = Subscriptions
  BY <1>1, <1>2 DEF Subscriptions
<1>5. /\ Tail(q) \in Seq(Verdicts) /\ Len(Tail(q)) = Len(q) - 1
      /\ \A i \in 1 .. Len(q) - 1 : Tail(q)[i] = q[i + 1]
      /\ Head(q) = q[1] /\ Head(q) \in Verdicts
  BY <1>3
<1>6. UNCHANGED <<publishing, speed_save, rescue, rescuing>> BY <1>1 DEF area
<1>7. TypeOK'
  <2>1. \A s \in Subscriptions : Len(topic'[s]) <= Depth
    BY <1>2, <1>3, <1>4, <1>5 DEF TypeOK, Subscriptions
  <2>2. topic'.save \in Seq(Velocities) /\ topic'.status \in Seq(Verdicts)
    BY <1>2, <1>4, <1>5 DEF TypeOK
  <2>3. ready' \subseteq Subscriptions /\ overflowed' \in BOOLEAN /\ self_save_status' \in Verdicts
    BY <1>1, <1>2, <1>5 DEF TypeOK
  <2>4. UNCHANGED <<stuck, service, requests, rescue, rescuing, publishing, port, speed_save, sent>>
    BY <1>1 DEF world, area
  <2> QED BY <1>2, <2>1, <2>2, <2>3, <2>4 DEF TypeOK
<1>8. UNCHANGED <<VelocityLine, VelocitiesAhead>> BY <1>4, <1>6 DEF VelocityLine, VelocitiesAhead
<1>9. StatusesAhead' = n - 1 BY <1>3, <1>4, <1>5 DEF StatusesAhead
<1>10. \A i \in 0 .. n - 1 : StatusLine'[i] = StatusLine[i + 1]
  <2> SUFFICES ASSUME NEW i \in 0 .. n - 1 PROVE StatusLine'[i] = StatusLine[i + 1]
    OBVIOUS
  <2>0. i \in 0 .. Len(Tail(q)) /\ i + 1 \in 0 .. Len(q)
    <3> HIDE DEF q, n
    <3> QED BY <1>3, <1>5
  <2>1. StatusLine'[i] = IF i = 0 THEN Head(q) ELSE Tail(q)[i]
    <3>1. StatusLine'[i] = IF i = 0 THEN self_save_status' ELSE topic'["status"][i]
      BY <1>4, <2>0 DEF StatusLine
    <3> QED BY <1>1, <1>4, <3>1
  <2>2. StatusLine[i + 1] = q[i + 1] BY <2>0 DEF StatusLine
  <2> HIDE DEF q, n
  <2>3. CASE i = 0 BY <1>5, <2>1, <2>2, <2>3
  <2>4. CASE i # 0
    <3>1. i \in 1 .. Len(q) - 1 BY <1>3, <2>4
    <3> QED BY <1>5, <2>1, <2>2, <2>4, <3>1
  <2> QED BY <2>3, <2>4
<1> HIDE DEF q, n, m
<1>11. EndsAgree'
  <2>1. StatusLine'[n - 1] = StatusLine[n] BY <1>3, <1>10
  <2> QED BY <1>6, <1>8, <1>9, <2>1 DEF RescueInv, EndsAgree, n
<1>12. StatusChain'
  <2> SUFFICES ASSUME NEW i \in 0 .. n - 2, StatusLine'[i].stuck, StatusLine'[i + 1].stuck
               PROVE  StatusLine'[i].rescue = StatusLine'[i + 1].rescue
    BY <1>3, <1>9 DEF StatusChain
  <2>1. i \in 0 .. n - 1 /\ i + 1 \in 0 .. n - 1 /\ i + 1 > 0 BY <1>3
  <2>2. StatusLine'[i] = StatusLine[i + 1] /\ StatusLine'[i + 1] = StatusLine[(i + 1) + 1]
    BY <1>10, <2>1
  <2> QED BY <2>1, <2>2 DEF RescueInv, StatusChain, n
<1>13. VelocityChain'
  <2> SUFFICES ASSUME NEW i \in 0 .. m - 1, i > 0 \/ ~overflowed' \/ Len(topic["save"]) = 0,
                      VelocityLine[i].drive, VelocityLine[i + 1].drive
               PROVE  VelocityLine[i].rescue = VelocityLine[i + 1].rescue
    BY <1>4, <1>8 DEF VelocityChain, m
  <2>1. i > 0 \/ ~overflowed \/ Len(topic["save"]) = 0
    <3>1. CASE overflowed /\ ~overflowed'
      <4>1. topic["save"] = <<>> BY <1>1, <3>1, Caught DEF Subscriptions
      <4> QED BY <4>1
    <3> QED BY <3>1
  <2> QED BY <2>1 DEF RescueInv, VelocityChain, m
<1>14. Matching'
  <2> SUFFICES ASSUME ~overflowed', NEW i \in 0 .. n - 1, NEW j \in 0 .. m, (n - 1) - i = m - j
               PROVE  VelocityLine[j] = [drive |-> StatusLine'[i].stuck, rescue |-> StatusLine'[i].rescue]
    BY <1>8, <1>9 DEF Matching, m
  <2>1. StatusLine'[i] = StatusLine[i + 1] /\ i + 1 \in 0 .. n /\ n - (i + 1) = m - j
    BY <1>3, <1>10
  <2>2. CASE ~overflowed BY <2>1, <2>2 DEF RescueInv, Matching, n, m
  <2>3. CASE overflowed
    <3>1. topic'["status"] = <<>> BY <1>1, <2>3, Caught DEF Subscriptions
    <3>2. n = 1 BY <1>3, <1>4, <1>5, <3>1
    <3>3. i + 1 = n /\ j = m BY <1>3, <2>1, <3>2
    <3>4. /\ StatusLine[n] = [stuck |-> rescuing, rescue |-> rescue]
          /\ VelocityLine[m] = [drive |-> rescuing, rescue |-> rescue]
      BY DEF RescueInv, EndsAgree, n, m
    <3> QED BY <2>1, <3>3, <3>4
  <2> QED BY <2>2, <2>3
<1>15. Lagging'
  <2> SUFFICES ASSUME ~overflowed'
               PROVE  /\ ready' = {} \/ ready' = Subscriptions => Lag' \in {0, 1}
                      /\ ready' = {"status"} => Lag' \in {-1, 0}
                      /\ ready' = {"save"} => Lag' = 1
    BY DEF Lagging
  <2>0. Lag = m - n /\ Lag' = m - (n - 1) BY <1>8, <1>9 DEF Lag, n, m
  <2>1. ready = {"status"} /\ ready' = {} BY <1>1, <1>2 DEF TypeOK, Subscriptions
  <2>2. Lag' \in {0, 1}
    <3>1. CASE ~overflowed
      <4>1. Lag \in {-1, 0} BY <2>1, <3>1 DEF RescueInv, Lagging
      <4>2. Lag' = Lag + 1 BY <1>3, <2>0
      <4> QED BY <4>1, <4>2
    <3>2. CASE overflowed
      <4>1. topic["save"] = <<>> /\ topic'["status"] = <<>> BY <1>1, <3>2, Caught DEF Subscriptions
      <4>2. m = Len(publishing) BY <1>2, <4>1, Lengths DEF m, VelocitiesAhead
      <4>3. n = 1 BY <1>3, <1>4, <1>5, <4>1
      <4>4. m \in {0, 1} BY <1>2, <4>2, Lengths
      <4> QED BY <2>0, <4>3, <4>4
    <3> QED BY <3>1, <3>2
  <2> QED BY <2>1, <2>2 DEF Subscriptions
<1>16. ReadyHolds'
  <2> SUFFICES ASSUME NEW s \in ready, s # "status" PROVE topic'[s] # <<>> BY <1>1 DEF ReadyHolds
  <2>1. s \in Subscriptions BY <1>2 DEF TypeOK
  <2> QED BY <1>4, <2>1 DEF RescueInv, ReadyHolds, Subscriptions
<1> QED BY <1>4, <1>7, <1>11, <1>12, <1>13, <1>14, <1>15, <1>16 DEF RescueInv

LEMMA RescueStep == RescueInv /\ [Next]_vars => RescueInv'
<1> SUFFICES ASSUME RescueInv, [Next]_vars PROVE RescueInv' OBVIOUS
<1>0. TypeOK BY DEF RescueInv
<1>1. ASSUME TypeOK',
             UNCHANGED <<topic, ready, publishing, speed_save, self_save_status,
                         rescue, rescuing, overflowed>>
      PROVE  RescueInv'
  <2>1. ReadyHolds' BY <1>1 DEF RescueInv, ReadyHolds
  <2>2. Lag' = Lag BY <1>1 DEF Lag, VelocitiesAhead, StatusesAhead
  <2>3. Lagging' BY <1>1, <2>2 DEF RescueInv, Lagging
  <2> QED BY <1>1, <2>1, <2>3, QuietStep
<1>2. requests \in Nat /\ MaxRequests \in Nat BY <1>0, BoundAssumption DEF TypeOK
<1>3. CASE UNCHANGED vars
  <2>1. TypeOK' BY <1>0, <1>3 DEF TypeOK, vars, world, area, serial
  <2> QED BY <1>1, <1>3, <2>1 DEF vars, area, serial
<1>4. CASE Save
  <2>1. requests' \in 0 .. MaxRequests BY <1>2, <1>4 DEF Save
  <2>2. TypeOK' BY <1>0, <1>4, <2>1 DEF TypeOK, Save, world, serial
  <2> QED BY <1>1, <1>4, <2>2 DEF Save, serial
<1>5. CASE JudgeWithoutPose
  <2>1. requests' \in 0 .. MaxRequests BY <1>0, <1>2, <1>5 DEF JudgeWithoutPose, TypeOK
  <2>2. TypeOK' BY <1>0, <1>5, <2>1 DEF TypeOK, JudgeWithoutPose, world, serial
  <2> QED BY <1>1, <1>5, <2>2 DEF JudgeWithoutPose, serial
<1>6. CASE SendData
  <2>1. TypeOK' BY <1>0, <1>6 DEF TypeOK, SendData, Packet, world, area
  <2> QED BY <1>1, <1>6, <2>1 DEF SendData, area
<1>7. CASE SendFails \/ ReopenPort
  <2>1. TypeOK' BY <1>0, <1>7 DEF TypeOK, SendFails, ReopenPort, world, area
  <2> QED BY <1>1, <1>7, <2>1 DEF SendFails, ReopenPort, area
<1>8. CASE StuckChanges \/ ServiceUp
  <2>1. TypeOK' BY <1>0, <1>8 DEF TypeOK, StuckChanges, ServiceUp, area, serial
  <2> QED BY <1>1, <1>8, <2>1 DEF StuckChanges, ServiceUp, area, serial
<1>9. CASE ServiceDown
  <2>1. requests' \in 0 .. MaxRequests BY <1>2, <1>9 DEF ServiceDown
  <2>2. TypeOK' BY <1>0, <1>9, <2>1 DEF TypeOK, ServiceDown, serial
  <2> QED BY <1>1, <1>9, <2>2 DEF ServiceDown, serial
<1> QED
  BY <1>3, <1>4, <1>5, <1>6, <1>7, <1>8, <1>9, JudgeStep, PublishVelocityStep, WaitStep,
     TakeVelocityStep, TakeStatusStep
  DEF Next

(* The types of topics, requests and what the serial driver keeps. *)
THEOREM TypeCorrect == Spec => []TypeOK
<1>1. RescueInv => TypeOK BY DEF RescueInv
<1> QED BY RescueInit, RescueStep, <1>1, PTL DEF Spec

(* Neither a status without its velocity nor a velocity without its status  *)
(* makes the board drive with the velocity of an earlier rescue, for any    *)
(* depth of the queues, as long as no queue has overflowed. *)
THEOREM NoStaleRescue == Spec => []RescueNotStale
<1>1. RescueInv => RescueNotStale
  <2> SUFFICES ASSUME RescueInv, ~overflowed, self_save_status.stuck, speed_save.drive
               PROVE  speed_save.rescue = self_save_status.rescue
    <3>1. Packet.source = "save" => self_save_status.stuck BY DEF Packet
    <3>2. Packet.speed = speed_save /\ Packet.status = self_save_status BY DEF Packet
    <3> QED BY <3>1, <3>2 DEF RescueNotStale
  <2>1. TypeOK /\ StatusesAhead \in Nat /\ VelocitiesAhead \in Nat BY Lengths DEF RescueInv
  <2>2. StatusLine[0] = self_save_status /\ VelocityLine[0] = speed_save
    BY <2>1, Lengths DEF StatusLine, VelocityLine
  <2>3. Lag \in {-1, 0, 1}
    BY <2>1 DEF RescueInv, Lagging, TypeOK, Subscriptions
  <2> DEFINE n == StatusesAhead
             m == VelocitiesAhead
  <2>4. Lag = m - n BY DEF Lag
  <2>5. \A i \in 0 .. n, j \in 0 .. m :
          n - i = m - j => VelocityLine[j] = [drive |-> StatusLine[i].stuck, rescue |-> StatusLine[i].rescue]
    BY DEF RescueInv, Matching
  <2>6. m > 0 => (VelocityLine[0].drive /\ VelocityLine[1].drive
                    => VelocityLine[0].rescue = VelocityLine[1].rescue)
    BY <2>1 DEF RescueInv, VelocityChain
  <2>7. n > 0 => (StatusLine[0].stuck /\ StatusLine[1].stuck
                    => StatusLine[0].rescue = StatusLine[1].rescue)
    BY <2>1 DEF RescueInv, StatusChain
  <2> HIDE DEF n, m
  <2>8. n \in Nat /\ m \in Nat BY <2>1 DEF n, m
  <2>9. CASE Lag = 0
    <3>1. n - 0 = m - 0 /\ 0 \in 0 .. n /\ 0 \in 0 .. m BY <2>4, <2>8, <2>9
    <3>2. VelocityLine[0] = [drive |-> StatusLine[0].stuck, rescue |-> StatusLine[0].rescue]
      BY <2>5, <3>1
    <3> QED BY <2>2, <3>2
  <2>10. CASE Lag = 1
    <3>1. n - 0 = m - 1 /\ 0 \in 0 .. n /\ 1 \in 0 .. m /\ m > 0 BY <2>4, <2>8, <2>10
    <3>2. VelocityLine[1] = [drive |-> StatusLine[0].stuck, rescue |-> StatusLine[0].rescue]
      BY <2>5, <3>1
    <3> QED BY <2>2, <2>6, <3>1, <3>2
  <2>11. CASE Lag = -1
    <3>1. n - 1 = m - 0 /\ 1 \in 0 .. n /\ 0 \in 0 .. m /\ n > 0 BY <2>4, <2>8, <2>11
    <3>2. VelocityLine[0] = [drive |-> StatusLine[1].stuck, rescue |-> StatusLine[1].rescue]
      BY <2>5, <3>1
    <3> QED BY <2>2, <2>7, <3>1, <3>2
  <2> QED BY <2>3, <2>9, <2>10, <2>11
<1> QED BY RescueInit, RescueStep, <1>1, PTL DEF Spec

-----------------------------------------------------------------------------
(* In the run of the four modules each one behaves as it does alone. *)
LEMMA Composed ==
  MCSpec => /\ Spec
            /\ Static!Init /\ [][Static!Next]_staticVars
            /\ Serial!Init /\ [][Serial!Next]_serialVars
<1>1. MCInit => Init /\ Static!Init /\ Serial!Init BY DEF MCInit
<1>2. [MCNext]_allVars => [Next]_vars /\ [Static!Next]_staticVars /\ [Serial!Next]_serialVars
  BY DEF MCNext, allVars
<1> QED BY <1>1, <1>2, PTL DEF MCSpec, Spec

(* The three properties hold of the run's specification, for any constants. *)
THEOREM AllHold == MCSpec => []RescueNotStale /\ []AreaFollowsFlags /\ []PortOpenAtRest
BY Composed, NoStaleRescue, AreaIsDrawn, PortIsReopened, PTL
=============================================================================
