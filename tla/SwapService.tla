----------------------------- MODULE SwapService -----------------------------
(***************************************************************************)
(* What the phone may count on while any number of shells re-configure its  *)
(* swap device: the device's configuration changes only while it is off,    *)
(* it comes back on complete, and it is lost only through a failure whose   *)
(* cause lies outside the scripts.  ZramAlgo implements this specification. *)
(***************************************************************************)
CONSTANT Complete       \* the configurations a swap device can work with

VARIABLES
  state,      \* "absent", "on", "rebuilding" or "lost"
  config,     \* compressor, size and streams of the device
  faulted     \* a call has failed for an outside reason

vars == <<state, config, faulted>>

Init ==
  /\ \/ state = "absent"
     \/ state = "on" /\ config \in Complete
  /\ faulted = FALSE

TakeDown == state = "on" /\ state' = "rebuilding" /\ UNCHANGED <<config, faulted>>

Rebuild == state = "rebuilding" /\ state' = "rebuilding" /\ UNCHANGED faulted

BringBack ==
  /\ state = "rebuilding" /\ state' = "on"
  /\ config \in Complete
  /\ UNCHANGED <<config, faulted>>

\* Somebody runs the script again after a failure.
Retry == state = "lost" /\ state' = "rebuilding" /\ UNCHANGED <<config, faulted>>

\* A failure: noticed by nobody, survived, or the end of the service.  Once
\* one has happened a rebuild may end with the device still off.
Fail ==
  /\ faulted' = TRUE
  /\ \/ UNCHANGED <<state, config>>
     \/ state = "rebuilding" /\ state' \in {"rebuilding", "lost"}

Next == TakeDown \/ Rebuild \/ BringBack \/ Retry \/ Fail

Spec == Init /\ [][Next]_vars
=============================================================================
