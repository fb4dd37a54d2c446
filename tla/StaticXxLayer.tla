---------------------------- MODULE StaticXxLayer ----------------------------
(***************************************************************************)
(* The static layer of the costmap with an area that a task, or the        *)
(* fortress flag, opens: the cells of the area are free while one of the   *)
(* two is set and as the static map has them otherwise.                    *)
(*                                                                         *)
(* The callbacks of the two subscriptions exclude each other but not the   *)
(* thread that updates the costmap; both sides read and write the two      *)
(* atomics one at a time.                                                  *)
(***************************************************************************)
EXTENDS Naturals, FiniteSets

CONSTANT Cells  \* the cells of the area

VARIABLES
  flag,              \* rm_task_value_ = clear_task_value_, fortress_enable_value_ # 0
  callback,          \* a callback that has read the other flag, or written its own
  has_updated_data_, \* the next update has to cover the whole map
  current_,
  phase, bounds,     \* the update of the costmap and the cells of the area it covers
  between,           \* history: the flags written since that update read the first
  open,              \* the cells of the area that the costmap shows free
  crossed            \* history: both flags changed between the reads of one update

vars == <<flag, callback, has_updated_data_, current_, phase, bounds, between, open, crossed>>

-----------------------------------------------------------------------------
Flags == {"task", "fortress"}
Other(f) == CHOOSE g \in Flags : g # f
Active(fs) == \E f \in Flags : fs[f]
NoCallback == [flag |-> "none", other |-> FALSE, changes |-> FALSE]

TypeOK ==
  /\ flag \in [Flags -> BOOLEAN]
  /\ callback \in [flag : Flags \cup {"none"}, other : BOOLEAN, changes : BOOLEAN]
  /\ has_updated_data_ \in BOOLEAN /\ current_ \in BOOLEAN /\ crossed \in BOOLEAN
  /\ phase \in {"idle", "costs", "first", "second", "clear"}
  /\ bounds \subseteq Cells /\ open \subseteq Cells /\ between \subseteq Flags

(* onInitialize: the map has been received and not yet been drawn. *)
Init ==
  /\ flag = [f \in Flags |-> FALSE]
  /\ callback = NoCallback
  /\ has_updated_data_ = TRUE /\ current_ = FALSE
  /\ phase = "idle" /\ bounds = {} /\ between = {}
  /\ open = {} /\ crossed = FALSE

(* A mutant: a callback compares with the value the flag had before only. *)
Changes_OwnOnly(old, new, other) == new /\ ~old

(* Whether a new value of a flag changes what the update has to draw. *)
Changes(old, new, other) == (old \/ other) # (new \/ other)

-----------------------------------------------------------------------------
(* The callbacks: they load the other flag, ... *)
LoadOther(f) ==
  /\ callback = NoCallback
  /\ callback' = [flag |-> f, other |-> flag[Other(f)], changes |-> FALSE]
  /\ UNCHANGED <<flag, has_updated_data_, current_, phase, bounds, between, open, crossed>>

(* ... exchange their own, ... *)
Exchange(f, v) ==
  /\ callback.flag = f /\ ~callback.changes
  /\ flag' = [flag EXCEPT ![f] = v]
  /\ callback' = IF Changes(flag[f], v, callback.other) THEN [callback EXCEPT !.changes = TRUE] ELSE NoCallback
  /\ between' = IF flag[f] # v THEN between \cup {f} ELSE between
  /\ UNCHANGED <<has_updated_data_, current_, phase, bounds, open, crossed>>

(* ... and ask for an update, under the costmap's lock. *)
AskForUpdate ==
  /\ callback.changes
  /\ has_updated_data_' = TRUE
  /\ current_' = FALSE
  /\ callback' = NoCallback
  /\ UNCHANGED <<flag, phase, bounds, between, open, crossed>>

-----------------------------------------------------------------------------
(* The update of the costmap: the layer covers the whole map after a change *)
(* and what the other layers have touched otherwise. *)
UpdateBounds ==
  /\ phase = "idle"
  /\ \E touched \in SUBSET Cells :
       /\ bounds' = IF has_updated_data_ THEN Cells ELSE touched
       /\ bounds' # {}
  /\ has_updated_data_' = FALSE
  /\ crossed' = (crossed /\ bounds' # Cells)
  /\ phase' = "costs"
  /\ UNCHANGED <<flag, callback, current_, between, open>>

(* StaticLayer::updateCosts draws the map as it was received. *)
DrawMap ==
  /\ phase = "costs"
  /\ open' = open \ bounds
  /\ current_' = TRUE
  /\ phase' = "first"
  /\ UNCHANGED <<flag, callback, has_updated_data_, bounds, between, crossed>>

(* The task is read first, and the fortress flag only if it does not open. *)
LoadTask ==
  /\ phase = "first"
  /\ phase' = IF flag["task"] THEN "clear" ELSE "second"
  /\ between' = {}
  /\ UNCHANGED <<flag, callback, has_updated_data_, current_, bounds, open, crossed>>

LoadFortress ==
  /\ phase = "second"
  /\ phase' = IF flag["fortress"] THEN "clear" ELSE "idle"
  /\ crossed' = (crossed \/ between = Flags)
  /\ UNCHANGED <<flag, callback, has_updated_data_, current_, bounds, between, open>>

(* clearRegion *)
ClearRegion ==
  /\ phase = "clear"
  /\ open' = open \cup bounds
  /\ phase' = "idle"
  /\ UNCHANGED <<flag, callback, has_updated_data_, current_, bounds, between, crossed>>

Next ==
  \/ \E f \in Flags : LoadOther(f)
  \/ \E f \in Flags, v \in BOOLEAN : Exchange(f, v)
  \/ AskForUpdate
  \/ UpdateBounds \/ DrawMap \/ LoadTask \/ LoadFortress \/ ClearRegion

Spec == Init /\ [][Next]_vars

-----------------------------------------------------------------------------
(* When the callbacks have returned and no update is under way or asked    *)
(* for, the costmap shows the area as the two flags want it, although the  *)
(* update reads them one at a time and without the lock - unless both have *)
(* changed between its two reads and it saw neither, which no later update *)
(* that covers only what other layers touch repairs. *)
AreaFollowsFlags ==
  callback = NoCallback /\ phase = "idle" /\ ~has_updated_data_ /\ ~crossed
    => open = IF Active(flag) THEN Cells ELSE {}
=============================================================================
