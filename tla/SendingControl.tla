--------------------------- MODULE SendingControl ----------------------------
(***************************************************************************)
(* The durable switch that says whether the program may send               *)
(* (database.py: sending_control and sending_control_events).  A missing   *)
(* sending_control row and an enabled one behave alike in every method     *)
(* that reads it, so both are "enabled"; a disabled row is its reason.     *)
(***************************************************************************)
EXTENDS Integers, Sequences

VARIABLES
  control,  \* "enabled", or the reason sending is disabled for
  events    \* sending_control_events: the values control took, oldest first

controlVars == <<control, events>>

DisableReason == {"stop_command", "blocked_by_user", "admin_kill_switch"}

ControlValues == {"enabled"} \cup DisableReason

SendingEnabled == control = "enabled"

ControlInit ==
  /\ control = "enabled"
  /\ events = <<>>

\* The upsert of the row and the insert of its audit event, in one
\* transaction.
Switch(value) ==
  /\ control' = value
  /\ events' = Append(events, value)

\* Fault: disabling is not idempotent.
FaultDisableAgain(reason) == Switch(reason)

\* disable_sending: a no-op when already disabled, the first reason stays.
DisableSending(reason) ==
  \/ SendingEnabled /\ Switch(reason)
  \/ ~SendingEnabled /\ UNCHANGED controlVars

\* enable_sending, the owner's audited re-enable: a no-op when enabled.
EnableSending ==
  \/ ~SendingEnabled /\ Switch("enabled")
  \/ SendingEnabled /\ UNCHANGED controlVars
=============================================================================
