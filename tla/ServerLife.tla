------------------------------- MODULE ServerLife -------------------------------
(***************************************************************************)
(* What the clients of a machine see of syncupd's control server, however  *)
(* often the daemon is started: one server at most takes sessions, a       *)
(* connection gets one session at most, a server that stops begins none,   *)
(* and it is gone only when its sessions are, unless it is killed.  It     *)
(* does not say that a client has one session: the server cannot tell two  *)
(* connections of one client from those of two.                            *)
(* CtrlServer is how one server does it; Daemon is the instances that may  *)
(* run beside and after each other.                                        *)
(***************************************************************************)

CONSTANT Client     \* the connections of clients, with a session each

VARIABLES
    phase,      \* "off", "serving", "stopping", or "failed" when stop() has raised
    active      \* those whose session may use its system

vars == <<phase, active>>

Listen == /\ phase = "off"
          /\ phase' = "serving"
          /\ UNCHANGED active

Begin(k) == /\ phase = "serving"
            /\ k \notin active
            /\ active' = active \cup {k}
            /\ UNCHANGED phase

(* Sessions may end at any time, and do so even after stop() has raised. *)
End(k) == /\ k \in active
          /\ active' = active \ {k}
          /\ UNCHANGED phase

Stop == /\ phase = "serving"
        /\ phase' = "stopping"
        /\ UNCHANGED active

(* stop() raises; the sessions go on. *)
Fail == /\ phase = "stopping"
        /\ phase' = "failed"
        /\ UNCHANGED active

(* stop() returns, or the process ends, which waits for its threads. *)
Close == /\ phase \in {"stopping", "failed"}
         /\ active = {}
         /\ phase' = "off"
         /\ UNCHANGED active

Kill == /\ phase # "off"
        /\ phase' = "off"
        /\ active' = {}

(* A model may begin before or after the server has been started. *)
Init == phase \in {"off", "serving"} /\ active = {}

Next == \/ Listen \/ Stop \/ Fail \/ Close \/ Kill
        \/ \E k \in Client : Begin(k) \/ End(k)

Spec == Init /\ [][Next]_vars
===============================================================================
