--------------------------- MODULE ConfigRegister ---------------------------
(***************************************************************************)
(* What the management API promises about the configuration that requests  *)
(* are served with: it is a valid one, it changes only by taking over what *)
(* the database holds at that instant, and a restart takes it from the     *)
(* database, when that holds a valid one and can be read, or else from the *)
(* fallback.                                                               *)
(***************************************************************************)
CONSTANTS
    Valid(_),   \* the configurations that can be loaded
    Fallback    \* the configuration of the YAML file

VARIABLES
    durable,    \* what the database holds
    active,     \* what requests are served with
    running     \* the process is up

vars == <<durable, active, running>>

\* The process has not been started yet.
Init == ~running

\* The database changes; requests do not notice.
Write == running /\ UNCHANGED <<active, running>>

\* The configuration that requests are served with becomes the database's.
Publish ==
    /\ running /\ Valid(durable)
    /\ active' = durable
    /\ UNCHANGED <<durable, running>>

Crash == running /\ ~running' /\ UNCHANGED <<durable, active>>

Restart ==
    /\ ~running /\ running'
    /\ \/ Valid(durable) /\ active' = durable
       \/ active' = Fallback
    /\ UNCHANGED durable

Next == Write \/ Publish \/ Crash \/ Restart

Spec == Init /\ [][Next]_vars
=============================================================================
