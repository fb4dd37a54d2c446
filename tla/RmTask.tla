-------------------------------- MODULE RmTask --------------------------------
(***************************************************************************)
(* The task that the controller hears on /rm_task.  The callback stores    *)
(* the value and then the time in two atomics while a cycle of the         *)
(* controller may be reading them in another thread, the time first.       *)
(***************************************************************************)
EXTENDS Integers, Sequences

CONSTANTS
  Tasks,    \* values that are published; 1 and 2 ask for the direct drive
  Timeout   \* rm_task_timeout_sec_

TimeoutAssumption == Timeout \in Nat \ {0}

Outdated == Timeout + 1   \* ages are counted up to here

VARIABLES
  rm_task_value_, value_age,     \* the value, and the age of its message
  receive_age,                   \* age of last_rm_task_receive_time_ns_
  message, message_age,          \* what the callback holds, and which store is next
  stored,
  reader, fresh, task            \* the cycle: its progress, what it decided

vars == <<rm_task_value_, value_age, receive_age, message, message_age, stored, reader, fresh, task>>

listening == <<message, message_age, stored>>

Init ==
  /\ rm_task_value_ = 0 /\ value_age = Outdated
  /\ receive_age = Outdated
  /\ message = 0 /\ message_age = Outdated /\ stored = 2
  /\ reader = "idle" /\ fresh = FALSE /\ task = 0

-----------------------------------------------------------------------------
(* A mutant: the time is stored first. *)
Stores_Swapped == <<"time", "value">>

(* The order of the stores in the callback. *)
Stores == <<"value", "time">>

Hear(t) ==
  /\ stored = 2
  /\ message' = t /\ message_age' = 0 /\ stored' = 0
  /\ UNCHANGED <<rm_task_value_, value_age, receive_age, reader, fresh, task>>

Store ==
  /\ stored < 2
  /\ \/ /\ Stores[stored + 1] = "value"
        /\ rm_task_value_' = message /\ value_age' = message_age
        /\ UNCHANGED receive_age
     \/ /\ Stores[stored + 1] = "time"
        /\ receive_age' = message_age
        /\ UNCHANGED <<rm_task_value_, value_age>>
  /\ stored' = stored + 1
  /\ UNCHANGED <<message, message_age, reader, fresh, task>>

(* computeVelocityCommands: is the last message recent enough? *)
ReadTime ==
  /\ reader = "idle"
  /\ fresh' = (receive_age <= Timeout)
  /\ reader' = "timed" /\ task' = 0
  /\ UNCHANGED <<rm_task_value_, value_age, receive_age, listening>>

(* Then the value, without a lock. *)
ReadValue ==
  /\ reader = "timed"
  /\ task' = IF fresh THEN rm_task_value_ ELSE 0
  /\ reader' = "read"
  /\ UNCHANGED <<rm_task_value_, value_age, receive_age, listening, fresh>>

(* A direct drive for 1 or 2, and the end of the cycle. *)
direct_drive_request == reader = "read" /\ task \in {1, 2}

EndCycle ==
  /\ reader = "read"
  /\ reader' = "idle" /\ task' = 0 /\ fresh' = FALSE
  /\ UNCHANGED <<rm_task_value_, value_age, receive_age, listening>>

(* Time passes, but not within a cycle: it is short. *)
Tick ==
  /\ reader = "idle"
  /\ value_age' = IF value_age < Outdated THEN value_age + 1 ELSE value_age
  /\ receive_age' = IF receive_age < Outdated THEN receive_age + 1 ELSE receive_age
  /\ message_age' = IF message_age < Outdated THEN message_age + 1 ELSE message_age
  /\ UNCHANGED <<rm_task_value_, message, stored, reader, fresh, task>>

Next ==
  \/ \E t \in Tasks : Hear(t)
  \/ Store
  \/ ReadTime \/ ReadValue \/ EndCycle
  \/ Tick

Spec == Init /\ [][Next]_vars

-----------------------------------------------------------------------------
(* The controller drives straight only for a task that it was told within  *)
(* the timeout, also when a message comes in between its two reads. *)
TaskIsCurrent == direct_drive_request => value_age <= Timeout
=============================================================================
