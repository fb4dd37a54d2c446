--------------------- MODULE IntensityVoxelLayer_proof ---------------------
(***************************************************************************)
(* TypeOK, NoGhostObstacle and NoDynamicObstacleWhileTilted hold for every  *)
(* map, every placement of the configured areas and every parameter.       *)
(***************************************************************************)
EXTENDS IntensityVoxelLayer, TLAPS

\* A tilted layer remembers nothing: the strengthening that turns
\* NoGhostObstacle into NoDynamicObstacleWhileTilted.
NothingRememberedWhileTilted == suppressed => active = {}

IInv == TypeOK /\ NoGhostObstacle /\ NothingRememberedWhileTilted

----------------------------------------------------------------------------
(* Operators.                                                              *)

\* The square marked around a cell lies in the box of its touched corners.
LEMMA ExpandInBox ==
    ASSUME NEW a \in Cells, NEW touched, ExpandCorners(a) \subseteq touched
    PROVE  Expand(a) \subseteq Box(touched)
<1> DEFINE low  == <<a[1] - ObstacleExpandSize, a[2] - ObstacleExpandSize>>
           high == <<a[1] + ObstacleExpandSize, a[2] + ObstacleExpandSize>>
<1>1. low \in touched /\ high \in touched
  BY DEF ExpandCorners, SquareCorners
<1>2. SUFFICES ASSUME NEW c \in Expand(a) PROVE c \in Box(touched)
  OBVIOUS
<1>3. /\ c \in Cells
      /\ low[1] <= c[1] /\ c[1] <= high[1]
      /\ low[2] <= c[2] /\ c[2] <= high[2]
  BY DEF Expand, Square
<1> HIDE DEF low, high
<1>4. QED
  BY <1>1, <1>3 DEF Box

\* A rewritten cell is lethal only if the static map or a mark makes it so.
LEMMA LethalHasSource ==
    ASSUME NEW c \in Cells, NEW marked, NEW cleared,
           Boost(c, MaxCombine(Base[c], LayerCost(c, marked, cleared)))
               = LETHAL_OBSTACLE
    PROVE  Base[c] = LETHAL_OBSTACLE \/ c \in marked
<1> DEFINE v == MaxCombine(Base[c], LayerCost(c, marked, cleared))
<1>1. v = Base[c] \/ v = LayerCost(c, marked, cleared)
  BY DEF MaxCombine
<1>2. v \in Costs
  BY <1>1, BaseAssumption
     DEF LayerCost, Costs, FREE_SPACE, LETHAL_OBSTACLE, NO_INFORMATION
<1>3. v = LETHAL_OBSTACLE
  BY <1>2 DEF Boost, Costs, LETHAL_OBSTACLE, INSCRIBED_INFLATED_OBSTACLE,
              AdditionalCost
<1>4. QED
  BY <1>1, <1>3 DEF LayerCost, FREE_SPACE, LETHAL_OBSTACLE, NO_INFORMATION

\* The master costmap after an update.
LEMMA UpdateMapIs ==
    ASSUME NEW touched, NEW marked, NEW cleared, UpdateMap(touched, marked, cleared)
    PROVE  /\ master' = [c \in Cells |->
                 IF c \in (IF staticDirty THEN Cells ELSE Box(touched))
                 THEN Boost(c, MaxCombine(Base[c], LayerCost(c, marked, cleared)))
                 ELSE master[c]]
           /\ staticDirty' = FALSE
<1>1. PICK points \in {touched}, marks \in {marked}, clears \in {cleared} :
         \E bounds \in {IF staticDirty THEN Cells ELSE Box(points)} :
            master' = [c \in Cells |->
               IF c \in bounds
               THEN Boost(c, MaxCombine(Base[c], LayerCost(c, marks, clears)))
               ELSE master[c]]
  BY Zenon DEF UpdateMap
<1>2. points = touched /\ marks = marked /\ clears = cleared
  BY <1>1
<1>3. QED
  BY <1>1, <1>2, Zenon DEF UpdateMap

\* The rewritten costs are costs.
LEMMA UpdateMapType ==
    ASSUME NEW touched, NEW marked, NEW cleared,
           master \in [Cells -> Costs], UpdateMap(touched, marked, cleared)
    PROVE  master' \in [Cells -> Costs] /\ staticDirty' = FALSE
<1>1. ASSUME NEW c \in Cells
      PROVE Boost(c, MaxCombine(Base[c], LayerCost(c, marked, cleared))) \in Costs
  BY BaseAssumption
     DEF Boost, MaxCombine, LayerCost, Costs, FREE_SPACE, LETHAL_OBSTACLE,
         NO_INFORMATION, INSCRIBED_INFLATED_OBSTACLE, AdditionalCost
<1>2. /\ master' = [c \in Cells |->
            IF c \in (IF staticDirty THEN Cells ELSE Box(touched))
            THEN Boost(c, MaxCombine(Base[c], LayerCost(c, marked, cleared)))
            ELSE master[c]]
      /\ staticDirty' = FALSE
  BY UpdateMapIs, Zenon
<1>3. QED
  BY <1>1, <1>2

\* The heart of the argument: a rewrite that marks only owned cells and
\* touches every forgotten one leaves no ghost behind.
LEMMA UpdateKeepsOwnership ==
    ASSUME NEW touched, NEW marked, NEW cleared, NEW A,
           TypeOK, NoGhostObstacle,
           UpdateMap(touched, marked, cleared),
           marked \subseteq Configured \cup Expanded(A),
           TouchCells(active \ A) \subseteq touched
    PROVE  Lethal' \subseteq Configured \cup Expanded(A)
<1> DEFINE bounds == IF staticDirty THEN Cells ELSE Box(touched)
<1>m. master' = [c \in Cells |->
         IF c \in (IF staticDirty THEN Cells ELSE Box(touched))
         THEN Boost(c, MaxCombine(Base[c], LayerCost(c, marked, cleared)))
         ELSE master[c]]
  BY UpdateMapIs, Zenon
<1>1. SUFFICES ASSUME NEW c \in Cells, master'[c] = LETHAL_OBSTACLE
               PROVE  c \in Configured \cup Expanded(A)
  BY DEF Lethal
<1>2. CASE c \in bounds
  <2>1. Boost(c, MaxCombine(Base[c], LayerCost(c, marked, cleared)))
            = LETHAL_OBSTACLE
    BY <1>1, <1>2, <1>m
  <2>2. Base[c] = LETHAL_OBSTACLE \/ c \in marked
    BY <2>1, LethalHasSource
  <2>3. QED
    BY <2>2 DEF Configured, StaticMapLethal
<1>3. CASE c \notin bounds
  <2>1. master[c] = LETHAL_OBSTACLE
    BY <1>1, <1>3, <1>m
  <2>2. c \in Configured \cup Expanded(active)
    BY <2>1 DEF NoGhostObstacle, Lethal
  <2>3. ASSUME NEW a \in active, c \in Expand(a) PROVE a \in A
    <3>1. SUFFICES ASSUME a \notin A PROVE FALSE
      OBVIOUS
    <3>2. ExpandCorners(a) \subseteq touched
      BY <2>3, <3>1 DEF TouchCells
    <3>3. a \in Cells
      BY <2>3 DEF TypeOK
    <3>4. c \in Box(touched)
      BY <2>3, <3>2, <3>3, ExpandInBox
    <3>5. QED
      BY <1>3, <3>4
  <2>4. QED
    BY <2>2, <2>3 DEF Expanded
<1>4. QED
  BY <1>2, <1>3

\* What the early-return cycles mark is part of the configuration.
LEMMA ConfiguredMarks ==
    ASSUME NEW t1, NEW t2
    PROVE  StaticMarks(t1) \cup ForcedMarks(t2) \subseteq Configured
BY DEF StaticMarks, ForcedMarks, Configured

LEMMA TouchedMoved ==
    ASSUME NEW S, NEW R, S \subseteq R
    PROVE  TouchCells(S) \subseteq Touched(R)
BY DEF TouchCells, Touched

LEMMA AgeTypes ==
    ASSUME TypeOK, NEW S, NEW H
    PROVE  KeepAges(S, H) \in [Cells -> 0..MaxAge]
BY ParameterAssumption DEF KeepAges, TypeOK, MaxAge

\* The cells that survive a clear of the forced areas were remembered before.
LEMMA AfterForcedSubset ==
    ASSUME TypeOK, NEW t, NEW tilt
    PROVE  AfterForced(t, tilt) \subseteq active
BY DEF AfterForced, AfterTilt

LEMMA HistoryTypes ==
    ASSUME TypeOK, NEW near
    PROVE  FilteredHistory(near) \in
               [Cells -> [occupied : BOOLEAN, free : -1..StableFreeDuration,
                          seen : -1..HistoryRetention + 1]]
<1> DEFINE State == [occupied : BOOLEAN, free : -1..StableFreeDuration,
                     seen : -1..HistoryRetention + 1]
<1>1. ASSUME NEW c \in Cells PROVE history[c] \in State
  BY DEF TypeOK
<1>2. ASSUME NEW h \in State PROVE Pruned(h) \in State
  BY <1>2, SuddenAssumption DEF Pruned, UnknownState
<1>3. ASSUME NEW h \in State, NEW b \in BOOLEAN PROVE Observed(h, b) \in State
  <2>1. h.free \in -1..StableFreeDuration
    OBVIOUS
  <2>2. (IF b THEN -1 ELSE IF h.occupied \/ h.free < 0 THEN 0 ELSE h.free)
            \in -1..StableFreeDuration
    BY <2>1, SuddenAssumption
  <2>3. 0 \in -1..HistoryRetention + 1
    BY SuddenAssumption
  <2>4. QED
    BY <2>2, <2>3 DEF Observed
<1>4. ASSUME NEW c \in Cells
      PROVE (~DropFrame(near) /\ c \in near) \in BOOLEAN
  OBVIOUS
<1> HIDE DEF State
<1>5. QED
  BY <1>1, <1>2, <1>3, <1>4, Zenon DEF FilteredHistory, State

LEMMA NoHistoryType ==
    NoHistory \in [Cells -> [occupied : BOOLEAN, free : -1..StableFreeDuration,
                             seen : -1..HistoryRetention + 1]]
BY SuddenAssumption DEF NoHistory, UnknownState

----------------------------------------------------------------------------
(* The invariant is inductive.                                             *)

LEMMA InitIInv == Init => IInv
<1> SUFFICES ASSUME Init PROVE IInv
  OBVIOUS
<1>1. TypeOK
  <2>1. master \in [Cells -> Costs]
    BY DEF Init, Costs, NO_INFORMATION
  <2>2. age \in [Cells -> 0..MaxAge]
    BY ParameterAssumption DEF Init, MaxAge
  <2>3. history \in [Cells -> [occupied : BOOLEAN, free : -1..StableFreeDuration,
                               seen : -1..HistoryRetention + 1]]
    BY NoHistoryType DEF Init
  <2>4. accelLeft \in -1..AccelHoldTime
    BY ParameterAssumption DEF Init
  <2>5. lastFrame \in [dropped : BOOLEAN, near : SUBSET Cells, ticked : BOOLEAN]
    BY DEF Init, NoFrame
  <2>6. QED
    BY <2>1, <2>2, <2>3, <2>4, <2>5 DEF Init, TypeOK
<1>2. NoGhostObstacle
  BY DEF Init, NoGhostObstacle, Lethal, NO_INFORMATION, LETHAL_OBSTACLE
<1>3. NothingRememberedWhileTilted
  BY DEF Init, NothingRememberedWhileTilted
<1>4. QED
  BY <1>1, <1>2, <1>3 DEF IInv

\* An action that leaves the map and the obstacles alone keeps ownership.
LEMMA UntouchedOwnership ==
    ASSUME IInv, UNCHANGED <<master, active, suppressed>>
    PROVE  NoGhostObstacle' /\ NothingRememberedWhileTilted'
BY DEF IInv, NoGhostObstacle, NothingRememberedWhileTilted, Lethal, Expanded

LEMMA DisabledCycleKeeps == IInv /\ DisabledCycle => IInv'
<1> SUFFICES ASSUME IInv, DisabledCycle PROVE IInv'
  OBVIOUS
<1>1. TypeOK'
  <2>1. master' \in [Cells -> Costs] /\ staticDirty' = FALSE
    BY UpdateMapType DEF IInv, TypeOK, DisabledCycle
  <2>2. QED
    BY <2>1 DEF IInv, TypeOK, DisabledCycle, EnabledCycles
<1>2. NoGhostObstacle'
  <2>1. TouchCells(active \ active) \subseteq {}
    BY DEF TouchCells
  <2>2. Lethal' \subseteq Configured \cup Expanded(active)
    BY <2>1, UpdateKeepsOwnership, Zenon DEF IInv, DisabledCycle
  <2>3. QED
    BY <2>2 DEF NoGhostObstacle, DisabledCycle
<1>3. NothingRememberedWhileTilted'
  BY DEF IInv, NothingRememberedWhileTilted, DisabledCycle
<1>4. QED
  BY <1>1, <1>2, <1>3 DEF IInv

LEMMA ClearOtherCycleKeeps == IInv /\ ClearOtherCycle => IInv'
<1> SUFFICES ASSUME IInv, ClearOtherCycle PROVE IInv'
  OBVIOUS
<1>1. PICK t1 \in Tasks, t2 \in Tasks, tilt \in TiltReadings :
         /\ active' = AfterForced(t2, tilt) \cap ForcedArea
         /\ age' = KeepAges(active', {})
         /\ suppressed' = TiltState(tilt)
         /\ history' = NoHistory
         /\ UpdateMap(Touched(active \ active'),
                      StaticMarks(t1) \cup ForcedMarks(t2), Footprint(robot))
         /\ cycle' = "clear_other"
         /\ lastFrame' = NoFrame
         /\ UNCHANGED <<enabled, accelLeft, robot>>
  BY Zenon DEF ClearOtherCycle
<1>2. active' \subseteq active
  BY <1>1, AfterForcedSubset DEF IInv
<1>3. TypeOK'
  <2>1. master' \in [Cells -> Costs] /\ staticDirty' = FALSE
    BY <1>1, UpdateMapType DEF IInv, TypeOK
  <2>2. age' \in [Cells -> 0..MaxAge]
    BY <1>1, AgeTypes DEF IInv
  <2>3. suppressed' \in BOOLEAN
    BY <1>1 DEF TiltState
  <2>4. lastFrame' \in [dropped : BOOLEAN, near : SUBSET Cells, ticked : BOOLEAN]
    BY <1>1 DEF NoFrame
  <2>5. history' \in [Cells -> [occupied : BOOLEAN, free : -1..StableFreeDuration,
                                seen : -1..HistoryRetention + 1]]
    BY <1>1, NoHistoryType
  <2>6. QED
    BY <1>1, <1>2, <2>1, <2>2, <2>3, <2>4, <2>5 DEF IInv, TypeOK, EnabledCycles
<1>4. NoGhostObstacle'
  <2>1. TouchCells(active \ active') \subseteq Touched(active \ active')
    BY TouchedMoved
  <2>2. StaticMarks(t1) \cup ForcedMarks(t2) \subseteq Configured \cup Expanded(active')
    BY ConfiguredMarks
  <2>3. Lethal' \subseteq Configured \cup Expanded(active')
    BY <1>1, <2>1, <2>2, UpdateKeepsOwnership DEF IInv
  <2>4. QED
    BY <2>3 DEF NoGhostObstacle, Expanded, Expand
<1>5. NothingRememberedWhileTilted'
  <2>1. SUFFICES ASSUME TiltState(tilt) PROVE active' = {}
    BY <1>1 DEF NothingRememberedWhileTilted
  <2>2. AfterTilt(tilt) = {}
    BY <2>1 DEF AfterTilt, IInv, NothingRememberedWhileTilted
  <2>3. QED
    BY <1>1, <2>2 DEF AfterForced
<1>6. QED
  BY <1>3, <1>4, <1>5 DEF IInv

LEMMA TiltedCycleKeeps == IInv /\ TiltedCycle => IInv'
<1> SUFFICES ASSUME IInv, TiltedCycle PROVE IInv'
  OBVIOUS
<1>1. PICK t1 \in Tasks, t2 \in Tasks, tilt \in TiltReadings :
         /\ TiltState(tilt)
         /\ active' = AfterForced(t2, tilt)
         /\ age' = KeepAges(active', {})
         /\ suppressed' = TRUE
         /\ history' = IF suppressed THEN history ELSE NoHistory
         /\ UpdateMap(Touched(active \ active'),
                      StaticMarks(t1) \cup ForcedMarks(t2), Footprint(robot))
         /\ cycle' = "tilted"
         /\ lastFrame' = NoFrame
         /\ UNCHANGED <<enabled, accelLeft, robot>>
  BY Zenon DEF TiltedCycle
<1>2. active' = {}
  <2>1. AfterTilt(tilt) = {}
    BY <1>1 DEF AfterTilt, IInv, NothingRememberedWhileTilted
  <2>2. QED
    BY <1>1, <2>1 DEF AfterForced
<1>3. TypeOK'
  <2>1. master' \in [Cells -> Costs] /\ staticDirty' = FALSE
    BY <1>1, UpdateMapType DEF IInv, TypeOK
  <2>2. age' \in [Cells -> 0..MaxAge]
    BY <1>1, AgeTypes DEF IInv
  <2>3. lastFrame' \in [dropped : BOOLEAN, near : SUBSET Cells, ticked : BOOLEAN]
    BY <1>1 DEF NoFrame
  <2>4. history' \in [Cells -> [occupied : BOOLEAN, free : -1..StableFreeDuration,
                                seen : -1..HistoryRetention + 1]]
    BY <1>1, NoHistoryType DEF IInv, TypeOK
  <2>5. QED
    BY <1>1, <1>2, <2>1, <2>2, <2>3, <2>4 DEF IInv, TypeOK, EnabledCycles
<1>4. NoGhostObstacle'
  <2>1. TouchCells(active \ active') \subseteq Touched(active \ active')
    BY TouchedMoved
  <2>2. StaticMarks(t1) \cup ForcedMarks(t2) \subseteq Configured \cup Expanded(active')
    BY ConfiguredMarks
  <2>3. Lethal' \subseteq Configured \cup Expanded(active')
    BY <1>1, <2>1, <2>2, UpdateKeepsOwnership DEF IInv
  <2>4. QED
    BY <2>3 DEF NoGhostObstacle, Expanded, Expand
<1>5. NothingRememberedWhileTilted'
  BY <1>2 DEF NothingRememberedWhileTilted
<1>6. QED
  BY <1>3, <1>4, <1>5 DEF IInv

\* MergeAndMark with its intermediate sets named.
Merged(accepted, t1, t2, near, masked, hits, known, ages, expired) ==
    LET seen == {c \in accepted : Near(c)} IN
    /\ masked = IF near THEN {c \in Cells : InEffectiveClearRadius(c)} ELSE {}
    /\ hits \subseteq accepted
    /\ known = (AfterForced(t2, "level") \ masked) \cup hits
    /\ ages = KeepAges(known, hits)
    /\ expired = {c \in known : Expired(ages[c], c)}
    /\ active' = known \ expired
    /\ age' = KeepAges(active', hits)
    /\ history' = FilteredHistory(seen)
    /\ lastFrame' = [dropped |-> DropFrame(seen),
                     near |-> IF DropFrame(seen) THEN seen ELSE {},
                     ticked |-> FALSE]
    /\ UpdateMap(Touched((active \ active') \cup active' \cup expired),
                 StaticMarks(t1) \cup ForcedMarks(t2) \cup Expanded(active'),
                 Footprint(robot))

LEMMA MergeIs ==
    ASSUME NEW accepted, NEW t1, NEW t2, NEW near, MergeAndMark(accepted, t1, t2, near)
    PROVE  \E masked, hits, known, ages, expired :
              Merged(accepted, t1, t2, near, masked, hits, known, ages, expired)
<1> DEFINE seen == {c \in accepted : Near(c)}
           disc == IF near THEN {c \in Cells : InEffectiveClearRadius(c)} ELSE {}
           Rest(f, h, e) ==
              /\ age' = KeepAges(active', h)
              /\ history' = FilteredHistory(f)
              /\ lastFrame' = [dropped |-> DropFrame(f),
                               near |-> IF DropFrame(f) THEN f ELSE {},
                               ticked |-> FALSE]
              /\ UpdateMap(Touched((active \ active') \cup active' \cup e),
                           StaticMarks(t1) \cup ForcedMarks(t2) \cup Expanded(active'),
                           Footprint(robot))
<1>1. PICK frame \in {seen}, masked \in {disc} :
      \E h \in {(IF DropFrame(frame) THEN {} ELSE accepted) \ masked} :
      \E k \in {(AfterForced(t2, "level") \ masked) \cup h} :
      \E g \in {KeepAges(k, h)} :
      \E e \in {{c \in k : Expired(g[c], c)}} : active' = k \ e /\ Rest(frame, h, e)
  BY Zenon DEF MergeAndMark
<1> HIDE DEF Rest
<1>2. PICK hits \in {(IF DropFrame(frame) THEN {} ELSE accepted) \ masked} :
      \E k \in {(AfterForced(t2, "level") \ masked) \cup hits} :
      \E g \in {KeepAges(k, hits)} :
      \E e \in {{c \in k : Expired(g[c], c)}} : active' = k \ e /\ Rest(frame, hits, e)
  BY <1>1, Zenon
<1>3. PICK known \in {(AfterForced(t2, "level") \ masked) \cup hits} :
      \E g \in {KeepAges(known, hits)} :
      \E e \in {{c \in known : Expired(g[c], c)}} :
         active' = known \ e /\ Rest(frame, hits, e)
  BY <1>2, Zenon
<1>4. PICK ages \in {KeepAges(known, hits)} :
      \E e \in {{c \in known : Expired(ages[c], c)}} :
         active' = known \ e /\ Rest(frame, hits, e)
  BY <1>3, Zenon
<1>5. PICK expired \in {{c \in known : Expired(ages[c], c)}} :
         active' = known \ expired /\ Rest(frame, hits, expired)
  BY <1>4, Zenon
<1>6. /\ frame = seen
      /\ masked = disc
      /\ hits \subseteq accepted
      /\ known = (AfterForced(t2, "level") \ masked) \cup hits
      /\ ages = KeepAges(known, hits)
  BY <1>1, <1>2, <1>3, <1>4
<1>7. expired = {c \in known : Expired(ages[c], c)}
  BY <1>5, Zenon
<1>8. active' = known \ expired /\ Rest(seen, hits, expired)
  BY <1>5, <1>6, Zenon
<1>9. Merged(accepted, t1, t2, near, masked, hits, known, ages, expired)
  BY <1>6, <1>7, <1>8, Zenon DEF Rest, Merged
<1>10. QED
  BY <1>9, Zenon

\* One accepted set of cells, whatever was accepted, keeps the map owned.
LEMMA MergeKeeps ==
    ASSUME IInv, NEW accepted \in SUBSET Cells, NEW t1 \in Tasks, NEW t2 \in Tasks,
           NEW near \in BOOLEAN, MergeAndMark(accepted, t1, t2, near)
    PROVE  /\ active' \subseteq Cells
           /\ age' \in [Cells -> 0..MaxAge]
           /\ history' \in [Cells -> [occupied : BOOLEAN,
                                      free : -1..StableFreeDuration,
                                      seen : -1..HistoryRetention + 1]]
           /\ lastFrame' \in [dropped : BOOLEAN, near : SUBSET Cells,
                               ticked : BOOLEAN]
           /\ master' \in [Cells -> Costs] /\ staticDirty' = FALSE
           /\ NoGhostObstacle'
<1> DEFINE seen == {c \in accepted : Near(c)}
           marks == StaticMarks(t1) \cup ForcedMarks(t2) \cup Expanded(active')
<1>0. PICK masked, hits, known, ages, expired :
         Merged(accepted, t1, t2, near, masked, hits, known, ages, expired)
  BY MergeIs, Zenon
<1>1.    /\ hits \subseteq accepted
         /\ known = (AfterForced(t2, "level") \ masked) \cup hits
         /\ active' = known \ expired
         /\ age' = KeepAges(active', hits)
         /\ history' = FilteredHistory(seen)
         /\ lastFrame' = [dropped |-> DropFrame(seen),
                          near |-> IF DropFrame(seen) THEN seen ELSE {},
                          ticked |-> FALSE]
         /\ UpdateMap(Touched((active \ active') \cup active' \cup expired), marks,
                      Footprint(robot))
  BY <1>0, Zenon DEF Merged
<1> DEFINE moved == (active \ active') \cup active' \cup expired
<1>2. known \subseteq Cells
  <2>1. AfterForced(t2, "level") \subseteq Cells
    BY AfterForcedSubset DEF IInv, TypeOK
  <2>2. QED
    BY <2>1, <1>1
<1>3. active' \subseteq Cells
  BY <1>1, <1>2
<1>4. age' \in [Cells -> 0..MaxAge]
  BY <1>1, AgeTypes DEF IInv
<1>5. history' \in [Cells -> [occupied : BOOLEAN, free : -1..StableFreeDuration,
                              seen : -1..HistoryRetention + 1]]
  BY <1>1, HistoryTypes DEF IInv
<1>6. lastFrame' \in [dropped : BOOLEAN, near : SUBSET Cells, ticked : BOOLEAN]
  <2>1. DropFrame(seen) \in BOOLEAN
    BY DEF DropFrame
  <2>2. seen \subseteq Cells
    OBVIOUS
  <2>3. QED
    BY <1>1, <2>1, <2>2
<1>7. master' \in [Cells -> Costs] /\ staticDirty' = FALSE
  BY <1>1, UpdateMapType DEF IInv, TypeOK
<1>8. NoGhostObstacle'
  <2>1. TouchCells(active \ active') \subseteq Touched(moved)
    BY TouchedMoved
  <2>2. marks \subseteq Configured \cup Expanded(active')
    BY ConfiguredMarks
  <2>3. Lethal' \subseteq Configured \cup Expanded(active')
    BY <1>1, <2>1, <2>2, UpdateKeepsOwnership DEF IInv
  <2>4. QED
    BY <2>3 DEF NoGhostObstacle, Expanded, Expand
<1>9. QED
  BY <1>3, <1>4, <1>5, <1>6, <1>7, <1>8

LEMMA FullCycleKeeps == IInv /\ FullCycle => IInv'
<1> SUFFICES ASSUME IInv, FullCycle PROVE IInv'
  OBVIOUS
<1>1. PICK t1 \in Tasks, t2 \in Tasks, triggered \in BOOLEAN, frame \in Frames :
         /\ suppressed' = FALSE
         /\ accelLeft' = SuppressUntil(triggered)
         /\ \E accepted \in SUBSET Candidates(frame, t2, accelLeft' >= 0) :
               MergeAndMark(accepted, t1, t2, accelLeft' >= 0)
         /\ cycle' = "full"
         /\ UNCHANGED <<enabled, robot>>
  BY Zenon DEF FullCycle
<1>2. PICK accepted \in SUBSET Candidates(frame, t2, accelLeft' >= 0) :
         MergeAndMark(accepted, t1, t2, accelLeft' >= 0)
  BY <1>1
<1>3. accepted \in SUBSET Cells
  BY <1>2, RegionAssumption DEF Candidates
<1>4. (accelLeft' >= 0) \in BOOLEAN
  OBVIOUS
<1>5. /\ active' \subseteq Cells
      /\ age' \in [Cells -> 0..MaxAge]
      /\ history' \in [Cells -> [occupied : BOOLEAN,
                                 free : -1..StableFreeDuration,
                                 seen : -1..HistoryRetention + 1]]
      /\ lastFrame' \in [dropped : BOOLEAN, near : SUBSET Cells,
                          ticked : BOOLEAN]
      /\ master' \in [Cells -> Costs] /\ staticDirty' = FALSE
      /\ NoGhostObstacle'
  BY <1>2, <1>3, <1>4, MergeKeeps
<1>6. accelLeft' \in -1..AccelHoldTime
  BY <1>1, ParameterAssumption DEF IInv, TypeOK, SuppressUntil
<1>7. TypeOK'
  BY <1>1, <1>5, <1>6 DEF IInv, TypeOK, EnabledCycles
<1>8. NothingRememberedWhileTilted'
  BY <1>1 DEF NothingRememberedWhileTilted
<1>9. QED
  BY <1>5, <1>7, <1>8 DEF IInv

\* Reset and MatchSize forget the obstacles and the costmap together.
LEMMA ClearedCostmapKeeps == IInv /\ (Reset \/ MatchSize) => IInv'
<1> SUFFICES ASSUME IInv, Reset \/ MatchSize PROVE IInv'
  OBVIOUS
<1>1. /\ master' = [c \in Cells |-> NO_INFORMATION]
      /\ staticDirty' = TRUE
      /\ active' = {}
      /\ age' = [c \in Cells |-> 0]
      /\ history' = NoHistory
      /\ cycle' = "idle"
      /\ lastFrame' = NoFrame
      /\ accelLeft' \in {accelLeft, -1}
      /\ UNCHANGED <<enabled, suppressed, robot>>
  BY DEF Reset, MatchSize
<1>2. TypeOK'
  <2>1. master' \in [Cells -> Costs]
    BY <1>1 DEF Costs, NO_INFORMATION
  <2>2. age' \in [Cells -> 0..MaxAge]
    BY <1>1, ParameterAssumption DEF MaxAge
  <2>3. history' \in [Cells -> [occupied : BOOLEAN, free : -1..StableFreeDuration,
                                seen : -1..HistoryRetention + 1]]
    BY <1>1, NoHistoryType
  <2>4. lastFrame' \in [dropped : BOOLEAN, near : SUBSET Cells, ticked : BOOLEAN]
    BY <1>1 DEF NoFrame
  <2>5. accelLeft' \in -1..AccelHoldTime
    BY <1>1, ParameterAssumption DEF IInv, TypeOK
  <2>6. QED
    BY <1>1, <2>1, <2>2, <2>3, <2>4, <2>5 DEF IInv, TypeOK
<1>3. NoGhostObstacle'
  BY <1>1 DEF NoGhostObstacle, Lethal, NO_INFORMATION, LETHAL_OBSTACLE
<1>4. NothingRememberedWhileTilted'
  BY <1>1 DEF NothingRememberedWhileTilted
<1>5. QED
  BY <1>2, <1>3, <1>4 DEF IInv

LEMMA EnvironmentKeeps == IInv /\ (SetEnabled \/ MoveRobot) => IInv'
<1> SUFFICES ASSUME IInv, SetEnabled \/ MoveRobot PROVE IInv'
  OBVIOUS
<1>1. TypeOK'
  <2>1. NoFrame \in [dropped : BOOLEAN, near : SUBSET Cells, ticked : BOOLEAN]
    BY DEF NoFrame
  <2>2. CASE SetEnabled
    BY <2>2 DEF IInv, TypeOK, SetEnabled
  <2>3. CASE MoveRobot
    BY <2>1, <2>3 DEF IInv, TypeOK, MoveRobot
  <2>4. QED
    BY <2>2, <2>3
<1>2. NoGhostObstacle' /\ NothingRememberedWhileTilted'
  BY UntouchedOwnership DEF SetEnabled, MoveRobot
<1>3. QED
  BY <1>1, <1>2 DEF IInv

LEMMA TickKeeps == IInv /\ Tick => IInv'
<1> SUFFICES ASSUME IInv, Tick PROVE IInv'
  OBVIOUS
<1>1. ASSUME NEW cap \in Nat, NEW low \in {-1, 0}, NEW v \in low..cap
      PROVE  Older(v, cap) \in low..cap
  BY <1>1 DEF Older
<1>2. age' \in [Cells -> 0..MaxAge]
  <2>1. MaxAge \in Nat
    BY ParameterAssumption DEF MaxAge
  <2>2. ASSUME NEW c \in Cells
        PROVE  (IF c \in active THEN Older(age[c], MaxAge) ELSE 0) \in 0..MaxAge
    <3>1. age[c] \in 0..MaxAge
      BY DEF IInv, TypeOK
    <3>2. Older(age[c], MaxAge) \in 0..MaxAge
      BY <1>1, <2>1, <3>1
    <3>3. QED
      BY <2>1, <3>2
  <2>3. QED
    BY <2>2 DEF Tick
<1>3. history' \in [Cells -> [occupied : BOOLEAN, free : -1..StableFreeDuration,
                              seen : -1..HistoryRetention + 1]]
  <2> DEFINE State == [occupied : BOOLEAN, free : -1..StableFreeDuration,
                       seen : -1..HistoryRetention + 1]
  <2>1. ASSUME NEW h \in State
        PROVE [h EXCEPT
                 !.free = IF @ >= 0 THEN Older(@, StableFreeDuration) ELSE @,
                 !.seen = IF @ >= 0 THEN Older(@, HistoryRetention + 1) ELSE @]
              \in State
    <3>1. Older(h.free, StableFreeDuration) \in -1..StableFreeDuration
      BY <1>1, SuddenAssumption
    <3>2. Older(h.seen, HistoryRetention + 1) \in -1..HistoryRetention + 1
      BY <1>1, SuddenAssumption
    <3>3. QED
      BY <3>1, <3>2
  <2>2. ASSUME NEW c \in Cells PROVE history[c] \in State
    BY DEF IInv, TypeOK
  <2> HIDE DEF State
  <2>3. QED
    BY <2>1, <2>2 DEF Tick, State
<1>4. lastFrame' \in [dropped : BOOLEAN, near : SUBSET Cells, ticked : BOOLEAN]
  BY DEF Tick, IInv, TypeOK
<1>5. accelLeft' \in -1..AccelHoldTime
  <2>1. accelLeft \in -1..AccelHoldTime
    BY DEF IInv, TypeOK
  <2>2. accelLeft' = IF accelLeft >= 0 THEN accelLeft - 1 ELSE -1
    BY DEF Tick
  <2>3. QED
    BY <2>1, <2>2, ParameterAssumption
<1>6. TypeOK'
  BY <1>2, <1>3, <1>4, <1>5 DEF Tick, IInv, TypeOK
<1>7. NoGhostObstacle' /\ NothingRememberedWhileTilted'
  BY UntouchedOwnership DEF Tick
<1>8. QED
  BY <1>6, <1>7 DEF IInv

LEMMA StutterKeeps == IInv /\ UNCHANGED vars => IInv'
<1> SUFFICES ASSUME IInv, UNCHANGED vars PROVE IInv'
  OBVIOUS
<1>1. TypeOK'
  BY DEF IInv, TypeOK, vars
<1>2. NoGhostObstacle' /\ NothingRememberedWhileTilted'
  BY UntouchedOwnership DEF vars
<1>3. QED
  BY <1>1, <1>2 DEF IInv

LEMMA NextKeeps == IInv /\ [Next]_vars => IInv'
BY DisabledCycleKeeps, ClearOtherCycleKeeps, TiltedCycleKeeps, FullCycleKeeps,
   ClearedCostmapKeeps, EnvironmentKeeps, TickKeeps, StutterKeeps DEF Next

LEMMA Inductive == Spec => []IInv
BY InitIInv, NextKeeps, PTL DEF Spec

----------------------------------------------------------------------------
(* The results.                                                            *)

\* Every state of the layer, for every map and parameters, has its type.
THEOREM TypeCorrect == Spec => []TypeOK
<1>1. IInv => TypeOK
  BY DEF IInv
<1>2. QED
  BY <1>1, Inductive, PTL

\* For every map, placement of the areas and parameters: a lethal cell of the
\* master costmap is part of the configuration or of a remembered obstacle.
THEOREM GhostFree == Spec => []NoGhostObstacle
<1>1. IInv => NoGhostObstacle
  BY DEF IInv
<1>2. QED
  BY <1>1, Inductive, PTL

\* While the layer is suppressed by tilt nothing dynamic is lethal in the
\* master costmap (updateBounds 500-506, 573-579).
THEOREM TiltClearsTheMap == Spec => []NoDynamicObstacleWhileTilted
<1>1. IInv => NoDynamicObstacleWhileTilted
  BY DEF IInv, NoGhostObstacle, NothingRememberedWhileTilted,
         NoDynamicObstacleWhileTilted, Expanded
<1>2. QED
  BY <1>1, Inductive, PTL

----------------------------------------------------------------------------
(* What a full cycle forgets, and when.                                    *)

\* A full cycle with its inputs named.
LEMMA FullCycleIs ==
    ASSUME TypeOK, FullCycle
    PROVE  \E t1 \in Tasks, t2 \in Tasks, accepted \in SUBSET Cells :
              /\ MergeAndMark(accepted, t1, t2, accelLeft' >= 0)
              /\ ClearForced(t2) => accepted \cap ForcedArea = {}
              /\ cycle' = "full"
              /\ robot' = robot
<1>1. PICK t1 \in Tasks, t2 \in Tasks, triggered \in BOOLEAN, frame \in Frames :
         /\ \E accepted \in SUBSET Candidates(frame, t2, accelLeft' >= 0) :
               MergeAndMark(accepted, t1, t2, accelLeft' >= 0)
         /\ cycle' = "full"
         /\ UNCHANGED <<enabled, robot>>
  BY Zenon DEF FullCycle
<1>2. PICK accepted \in SUBSET Candidates(frame, t2, accelLeft' >= 0) :
         MergeAndMark(accepted, t1, t2, accelLeft' >= 0)
  BY <1>1
<1>3. accepted \in SUBSET Cells
  BY <1>2, RegionAssumption DEF Candidates
<1>4. ClearForced(t2) => accepted \cap ForcedArea = {}
  BY <1>2 DEF Candidates
<1>5. QED
  BY <1>1, <1>2, <1>3, <1>4, Zenon

\* Only a full cycle ends with cycle = "full".
LEMMA OnlyFullCycles ==
    ASSUME Next, cycle' = "full"
    PROVE  FullCycle
<1>1. ~DisabledCycle /\ ~Reset /\ ~MatchSize /\ ~SetEnabled /\ ~MoveRobot /\ ~Tick
  BY DEF DisabledCycle, Reset, MatchSize, SetEnabled, MoveRobot, Tick
<1>2. ClearOtherCycle => cycle' = "clear_other"
  BY Zenon DEF ClearOtherCycle
<1>3. TiltedCycle => cycle' = "tilted"
  BY Zenon DEF TiltedCycle
<1>4. QED
  BY <1>1, <1>2, <1>3 DEF Next

\* What is remembered after a full cycle was hit within the hold time and bonus.
FreshWhenFull ==
    cycle = "full" => \A a \in active : age[a] <= ObstacleHoldTime + FarHoldTimeBonus

LEMMA FullCycleKeepsFresh == TypeOK /\ FullCycle => FreshWhenFull'
<1> SUFFICES ASSUME TypeOK, FullCycle PROVE FreshWhenFull'
  OBVIOUS
<1>1. PICK t1 \in Tasks, t2 \in Tasks, accepted \in SUBSET Cells :
         MergeAndMark(accepted, t1, t2, accelLeft' >= 0)
  BY FullCycleIs, Zenon
<1>m. PICK masked, hits, known, ages, expired :
         Merged(accepted, t1, t2, accelLeft' >= 0, masked, hits, known, ages, expired)
  BY <1>1, MergeIs, Zenon
<1>2.    /\ hits \subseteq accepted
         /\ known = (AfterForced(t2, "level") \ masked) \cup hits
         /\ ages = KeepAges(known, hits)
         /\ expired = {c \in known : Expired(ages[c], c)}
         /\ active' = known \ expired
         /\ age' = KeepAges(active', hits)
  BY <1>m, Zenon DEF Merged
<1>3. known \subseteq Cells
  <2>1. AfterForced(t2, "level") \subseteq Cells
    BY AfterForcedSubset DEF TypeOK
  <2>2. QED
    BY <2>1, <1>2
<1>4. ASSUME NEW a \in active' PROVE age'[a] <= ObstacleHoldTime + FarHoldTimeBonus
  <2>1. a \in known /\ a \in Cells /\ ~Expired(ages[a], a)
    BY <1>2, <1>3
  <2>2. age'[a] = IF a \in hits THEN 0 ELSE age[a]
    BY <1>2, <2>1 DEF KeepAges
  <2>3. ages[a] = IF a \in hits THEN 0 ELSE age[a]
    BY <1>2, <2>1 DEF KeepAges
  <2>4. ages[a] \in Int
    BY <2>1, <2>3 DEF TypeOK
  <2>5. ages[a] - ObstacleHoldTime <= 0 \/ ~(ages[a] - ObstacleHoldTime > FarHoldTimeBonus)
    BY <2>1, <2>4, ParameterAssumption DEF Expired
  <2>6. QED
    BY <2>2, <2>3, <2>4, <2>5, ParameterAssumption
<1>5. QED
  BY <1>4 DEF FreshWhenFull

LEMMA NextKeepsFresh == TypeOK /\ FreshWhenFull /\ [Next]_vars => FreshWhenFull'
<1> SUFFICES ASSUME TypeOK, FreshWhenFull, [Next]_vars PROVE FreshWhenFull'
  OBVIOUS
<1>1. CASE UNCHANGED vars
  BY <1>1 DEF vars, FreshWhenFull
<1>2. CASE Next /\ cycle' = "full"
  BY <1>2, OnlyFullCycles, FullCycleKeepsFresh
<1>3. CASE cycle' # "full"
  BY <1>3 DEF FreshWhenFull
<1>4. QED
  BY <1>1, <1>2, <1>3

\* For every map and parameters: a full cycle leaves no dynamic obstacle that
\* was last hit before the hold time and the far bonus (updateBounds 1000-1019).
THEOREM StaleIsForgotten == Spec => []NoStaleObstacle
<1>1. Init => FreshWhenFull
  BY DEF Init, FreshWhenFull
<1>2. IInv => TypeOK
  BY DEF IInv
<1>3. IInv /\ FreshWhenFull => NoStaleObstacle
  BY DEF IInv, FreshWhenFull, NoGhostObstacle, NoStaleObstacle, Expanded
<1>4. QED
  BY <1>1, <1>2, <1>3, NextKeepsFresh, Inductive, PTL DEF Spec

\* A remembered cell leaves the memory in a full cycle only by its age, by the
\* acceleration clear, or because its forced area opens.
LEMMA FullCycleHolds ==
    ASSUME TypeOK, FullCycle, NEW c \in active \ active', c \notin ForcedArea,
           ~(accelLeft' >= 0 /\ InEffectiveClearRadius(c))
    PROVE  age[c] > ObstacleHoldTime
<1>1. PICK t1 \in Tasks, t2 \in Tasks, accepted \in SUBSET Cells :
         MergeAndMark(accepted, t1, t2, accelLeft' >= 0)
  BY FullCycleIs, Zenon
<1>m. PICK masked, hits, known, ages, expired :
         Merged(accepted, t1, t2, accelLeft' >= 0, masked, hits, known, ages, expired)
  BY <1>1, MergeIs, Zenon
<1>2.    /\ masked = IF accelLeft' >= 0 THEN {d \in Cells : InEffectiveClearRadius(d)} ELSE {}
         /\ hits \subseteq accepted
         /\ known = (AfterForced(t2, "level") \ masked) \cup hits
         /\ ages = KeepAges(known, hits)
         /\ expired = {d \in known : Expired(ages[d], d)}
         /\ active' = known \ expired
  BY <1>m, Zenon DEF Merged
<1>3. c \in active /\ c \in Cells
  BY DEF TypeOK
<1>4. c \in AfterForced(t2, "level")
  <2>1. ~TiltState("level")
    BY DEF TiltState
  <2>2. QED
    BY <1>3, <2>1 DEF AfterForced, AfterTilt
<1>5. c \notin masked
  BY <1>2
<1>6. c \in known /\ c \in expired
  BY <1>2, <1>4, <1>5
<1>7. Expired(ages[c], c)
  BY <1>2, <1>6
<1>8. ages[c] = IF c \in hits THEN 0 ELSE age[c]
  BY <1>2, <1>3, <1>6 DEF KeepAges
<1>9. age[c] \in Nat
  BY <1>3 DEF TypeOK
<1>10. ages[c] - ObstacleHoldTime > 0
  BY <1>7 DEF Expired
<1>11. QED
  BY <1>8, <1>9, <1>10, ParameterAssumption

\* For every map and parameters: no frame that misses an obstacle, and none
\* dropped by the sudden obstacle filter, removes it before its hold time.
THEOREM ObstaclesAreHeld == Spec => HeldForHoldTime
<1>1. IInv /\ [Next]_vars =>
         [\A c \in active \ active' :
             \/ cycle' # "full"
             \/ age[c] > ObstacleHoldTime
             \/ accelLeft' >= 0 /\ InEffectiveClearRadius(c)
             \/ c \in ForcedArea]_vars
  <2>1. SUFFICES ASSUME IInv, Next, NEW c \in active \ active', cycle' = "full",
                        c \notin ForcedArea,
                        ~(accelLeft' >= 0 /\ InEffectiveClearRadius(c))
                 PROVE  age[c] > ObstacleHoldTime
    BY Zenon
  <2>2. FullCycle
    BY <2>1, OnlyFullCycles
  <2>3. QED
    BY <2>1, <2>2, FullCycleHolds DEF IInv
<1>2. QED
  BY <1>1, Inductive, PTL DEF Spec, HeldForHoldTime

----------------------------------------------------------------------------
(* The areas follow the robot.                                             *)

\* The forced rectangles are touched by every enabled cycle, so that every
\* cell of the box around them is written again.
LEMMA ForcedCellsInBox == ForcedCells \subseteq Box(TouchRects(ForcedRects))
<1> SUFFICES ASSUME NEW r \in ForcedRects, NEW c \in RectCells(r)
             PROVE  c \in Box(TouchRects(ForcedRects))
  BY DEF ForcedCells, AllRectCells
<1> DEFINE low  == <<r.x1, r.y1>>
           high == <<r.x2, r.y2>>
<1>1. low \in TouchRects(ForcedRects) /\ high \in TouchRects(ForcedRects)
  BY DEF TouchRects, RectCorners
<1>2. /\ c \in Cells
      /\ low[1] <= c[1] /\ c[1] <= high[1]
      /\ low[2] <= c[2] /\ c[2] <= high[2]
  BY DEF RectCells
<1> HIDE DEF low, high
<1>3. QED
  BY <1>1, <1>2 DEF Box

LEMMA BoxGrows ==
    ASSUME NEW S, NEW R, S \subseteq R PROVE Box(S) \subseteq Box(R)
BY DEF Box

\* What is lethal after an enabled cycle: marked in it, or left where the
\* cycle wrote nothing.
LEMMA AfterCycle ==
    ASSUME TypeOK, NoGhostObstacle, NEW moved, active \ active' \subseteq moved,
           NEW marked, NEW cleared, UpdateMap(Touched(moved), marked, cleared),
           NEW c \in Lethal'
    PROVE  \/ c \in StaticMapLethal \cup marked
           \/ /\ c \notin Box(TouchRects(ForcedRects))
              /\ \/ c \in StaticCells
                 \/ \E a \in active \cap active' : c \in Expand(a)
<1> DEFINE bounds == IF staticDirty THEN Cells ELSE Box(Touched(moved))
<1>1. c \in Cells /\ master'[c] = LETHAL_OBSTACLE
  BY DEF Lethal
<1>2. master' = [d \in Cells |->
         IF d \in (IF staticDirty THEN Cells ELSE Box(Touched(moved)))
         THEN Boost(d, MaxCombine(Base[d], LayerCost(d, marked, cleared)))
         ELSE master[d]]
  BY UpdateMapIs, Zenon
<1>3. CASE c \in bounds
  <2>1. Boost(c, MaxCombine(Base[c], LayerCost(c, marked, cleared))) = LETHAL_OBSTACLE
    BY <1>1, <1>2, <1>3
  <2>2. Base[c] = LETHAL_OBSTACLE \/ c \in marked
    BY <2>1, <1>1, LethalHasSource
  <2>3. QED
    BY <2>2, <1>1 DEF StaticMapLethal
<1>4. CASE c \notin bounds
  <2>1. c \notin Box(Touched(moved))
    BY <1>1, <1>4
  <2>2. master[c] = LETHAL_OBSTACLE
    BY <1>1, <1>2, <1>4
  <2>3. c \in StaticMapLethal \cup ForcedCells \cup StaticCells \cup Expanded(active)
    BY <1>1, <2>2 DEF NoGhostObstacle, Lethal, Configured
  <2>4. c \notin Box(TouchRects(ForcedRects))
    <3>1. TouchRects(ForcedRects) \subseteq Touched(moved)
      BY DEF Touched
    <3>2. QED
      BY <2>1, <3>1, BoxGrows
  <2>5. ASSUME NEW a \in active, c \in Expand(a) PROVE a \in active'
    <3>1. SUFFICES ASSUME a \notin active' PROVE FALSE
      OBVIOUS
    <3>2. ExpandCorners(a) \subseteq Touched(moved)
      BY <3>1 DEF Touched, TouchCells
    <3>3. a \in Cells
      BY DEF TypeOK
    <3>4. QED
      BY <2>1, <2>5, <3>2, <3>3, ExpandInBox
  <2>6. c \in ForcedCells => FALSE
    BY <2>4, ForcedCellsInBox
  <2>7. QED
    BY <2>3, <2>4, <2>5, <2>6 DEF Expanded
<1>5. QED
  BY <1>3, <1>4

\* Where the robot opens a forced area, the area holds no remembered cell.
OpenWhereRobotEnters == active \cap ForcedArea = {}

\* The static_obs areas lie inside the box around the forced rectangles, as the
\* deployed ones do (the rectangles of 1505-1507 span x 1.9..18.3, y -7.7..6.6;
\* nav_params.yaml 641-648 puts the areas at x 4..5, y -6.1..-5.75 and
\* x 15.5..17, y 4.75..4.9).  Without it nothing rewrites an area once the
\* robot has left the region that asked for it.
StaticAreasInForcedBox == StaticCells \subseteq Box(TouchRects(ForcedRects))

\* One enabled cycle, from what it marks and what it keeps.
LEMMA CycleFollows ==
    ASSUME TypeOK, NoGhostObstacle, StaticAreasInForcedBox, NEW t1, NEW t2,
           NEW moved, active \ active' \subseteq moved, robot' = robot,
           ClearForced(t2) => OpenWhereRobotEnters',
           NEW marked, marked \subseteq Expanded(active'),
           UpdateMap(Touched(moved), StaticMarks(t1) \cup ForcedMarks(t2) \cup marked,
                     Footprint(robot))
    PROVE  AreasFollowRobot'
<1>1. ASSUME NEW c \in Lethal'
      PROVE  \/ c \in StaticMapLethal \cup StaticMarks(t1) \cup ForcedMarks(t2)
             \/ c \in Expanded(active')
             \/ c \in StaticCells /\ c \notin Box(TouchRects(ForcedRects))
  BY AfterCycle DEF Expanded
<1>2. ASSUME robot \in ForcedClearTrigger, NEW c \in ForcedArea \cap Lethal'
      PROVE  c \in StaticMapLethal \cup StaticCells \cup Expanded(active' \ ForcedArea)
  <2>1. ForcedMarks(t2) = {} /\ active' \ ForcedArea = active'
    BY <1>2 DEF ForcedMarks, ClearForced, OpenWhereRobotEnters
  <2>2. StaticMarks(t1) \subseteq StaticCells
    BY DEF StaticMarks
  <2>3. QED
    BY <1>1, <2>1, <2>2
<1>3. ASSUME robot \notin StaticTrigger, NEW c \in StaticCells \cap Lethal'
      PROVE  c \in StaticMapLethal \cup ForcedCells \cup Expanded(active')
  <2>1. StaticMarks(t1) = {} /\ ForcedMarks(t2) \subseteq ForcedCells
    BY <1>3 DEF StaticMarks, ForcedMarks
  <2>2. c \in Box(TouchRects(ForcedRects))
    BY DEF StaticAreasInForcedBox
  <2>3. QED
    BY <1>1, <2>1, <2>2
<1>4. QED
  BY <1>2, <1>3 DEF AreasFollowRobot, Expanded, Expand

LEMMA EarlyCyclesFollow ==
    ASSUME IInv, StaticAreasInForcedBox, ClearOtherCycle \/ TiltedCycle
    PROVE  AreasFollowRobot'
<1>1. PICK t1 \in Tasks, t2 \in Tasks, tilt \in TiltReadings :
         /\ active' \in {AfterForced(t2, tilt) \cap ForcedArea, AfterForced(t2, tilt)}
         /\ UpdateMap(Touched(active \ active'),
                      StaticMarks(t1) \cup ForcedMarks(t2), Footprint(robot))
         /\ robot' = robot
  <2>1. CASE ClearOtherCycle
    <3>1. PICK t1 \in Tasks, t2 \in Tasks, tilt \in TiltReadings :
             /\ active' = AfterForced(t2, tilt) \cap ForcedArea
             /\ UpdateMap(Touched(active \ active'),
                          StaticMarks(t1) \cup ForcedMarks(t2), Footprint(robot))
             /\ UNCHANGED <<enabled, accelLeft, robot>>
      BY <2>1, Zenon DEF ClearOtherCycle
    <3>2. active' \in {AfterForced(t2, tilt) \cap ForcedArea, AfterForced(t2, tilt)}
      BY <3>1, Zenon
    <3>3. QED
      BY <3>1, <3>2, Zenon
  <2>2. CASE TiltedCycle
    <3>1. PICK t1 \in Tasks, t2 \in Tasks, tilt \in TiltReadings :
             /\ active' = AfterForced(t2, tilt)
             /\ UpdateMap(Touched(active \ active'),
                          StaticMarks(t1) \cup ForcedMarks(t2), Footprint(robot))
             /\ UNCHANGED <<enabled, accelLeft, robot>>
      BY <2>2, Zenon DEF TiltedCycle
    <3>2. active' \in {AfterForced(t2, tilt) \cap ForcedArea, AfterForced(t2, tilt)}
      BY <3>1, Zenon
    <3>3. QED
      BY <3>1, <3>2, Zenon
  <2>3. QED
    BY <2>1, <2>2
<1>2. ASSUME ClearForced(t2) PROVE OpenWhereRobotEnters'
  BY <1>1, <1>2 DEF AfterForced, OpenWhereRobotEnters
<1>3. StaticMarks(t1) \cup ForcedMarks(t2) = StaticMarks(t1) \cup ForcedMarks(t2) \cup {}
  OBVIOUS
<1>4. UpdateMap(Touched(active \ active'), StaticMarks(t1) \cup ForcedMarks(t2) \cup {},
                Footprint(robot))
  BY <1>1, <1>3
<1>5. TypeOK /\ NoGhostObstacle
  BY DEF IInv
<1>6. ASSUME NEW moved, moved = active \ active', NEW marked, marked = {}
      PROVE  AreasFollowRobot'
  <2>1. active \ active' \subseteq moved /\ marked \subseteq Expanded(active')
    BY <1>6
  <2>2. UpdateMap(Touched(moved), StaticMarks(t1) \cup ForcedMarks(t2) \cup marked,
                  Footprint(robot))
    BY <1>4, <1>6
  <2>3. robot' = robot
    BY <1>1
  <2>4. QED
    BY <1>2, <1>5, <2>1, <2>2, <2>3, CycleFollows
<1>7. QED
  BY <1>6, Zenon

LEMMA FullCycleFollows ==
    ASSUME IInv, StaticAreasInForcedBox, FullCycle
    PROVE  AreasFollowRobot'
<1>0. TypeOK /\ NoGhostObstacle
  BY DEF IInv
<1>1. PICK t1 \in Tasks, t2 \in Tasks, accepted \in SUBSET Cells :
         /\ MergeAndMark(accepted, t1, t2, accelLeft' >= 0)
         /\ ClearForced(t2) => accepted \cap ForcedArea = {}
         /\ robot' = robot
  BY <1>0, FullCycleIs, Zenon
<1>2. PICK masked, hits, known, ages, expired :
         Merged(accepted, t1, t2, accelLeft' >= 0, masked, hits, known, ages, expired)
  BY <1>1, MergeIs, Zenon
<1> DEFINE moved == (active \ active') \cup active' \cup expired
<1>3. /\ hits \subseteq accepted
      /\ known = (AfterForced(t2, "level") \ masked) \cup hits
      /\ active' = known \ expired
      /\ UpdateMap(Touched(moved), StaticMarks(t1) \cup ForcedMarks(t2) \cup Expanded(active'),
                   Footprint(robot))
  BY <1>2, Zenon DEF Merged
<1>4. ASSUME ClearForced(t2) PROVE OpenWhereRobotEnters'
  BY <1>1, <1>3, <1>4 DEF AfterForced, OpenWhereRobotEnters
<1>5. active \ active' \subseteq moved
  OBVIOUS
<1> HIDE DEF moved
<1>6. QED
  BY <1>0, <1>1, <1>3, <1>4, <1>5, CycleFollows

LEMMA NextFollows ==
    IInv /\ AreasFollowRobot /\ StaticAreasInForcedBox /\ [Next]_vars => AreasFollowRobot'
<1> SUFFICES ASSUME IInv, AreasFollowRobot, StaticAreasInForcedBox, [Next]_vars
             PROVE  AreasFollowRobot'
  OBVIOUS
<1>1. CASE UNCHANGED vars
  BY <1>1 DEF vars, AreasFollowRobot, Lethal, Expanded
<1>2. CASE DisabledCycle \/ Reset \/ MatchSize \/ SetEnabled \/ MoveRobot \/ Tick
  <2>1. cycle' \in {"disabled", "idle"}
    BY <1>2 DEF DisabledCycle, Reset, MatchSize, SetEnabled, MoveRobot, Tick
  <2>2. QED
    BY <2>1 DEF AreasFollowRobot, EnabledCycles
<1>3. QED
  BY <1>1, <1>2, EarlyCyclesFollow, FullCycleFollows DEF Next

\* For every map and parameters whose static_obs areas lie inside the box of
\* the forced rectangles: after any enabled cycle the forced area is open where
\* the robot stands in its entry region, and no static_obs area outlives the
\* robot's stay in the region that asked for it (336-434, 510-524).
THEOREM AreasAreFollowed ==
    ASSUME StaticAreasInForcedBox PROVE Spec => []AreasFollowRobot
<1>1. Init => AreasFollowRobot
  BY DEF Init, AreasFollowRobot, EnabledCycles
<1>2. IInv /\ AreasFollowRobot /\ [Next]_vars => AreasFollowRobot'
  BY NextFollows
<1>3. QED
  BY <1>1, <1>2, Inductive, PTL DEF Spec
=============================================================================
