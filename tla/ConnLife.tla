-------------------------------- MODULE ConnLife --------------------------------
(***************************************************************************)
(* What becomes of a connection to syncupd: it is accepted, shakes hands,  *)
(* and is then given to one session, which may close it, or it is stuck:   *)
(* its socket stays open, and nobody will touch it again.  This is where   *)
(* the TLS handshaker (HandShaker) and the control server (CtrlServer)     *)
(* meet: both have to keep to it, and each relies on the other to do so.   *)
(***************************************************************************)

CONSTANT Conn   \* the connections

VARIABLE state  \* what has become of each

Move(c, from, to) == /\ state[c] = from
                     /\ state' = [state EXCEPT ![c] = to]

Accept(c) == Move(c, "none", "shaking")

(* onHandShakeComplete makes a session of the connection. *)
Serve(c) == Move(c, "shaking", "served")

(* The handshake fails, or onHandShakeComplete raises. *)
Fail(c) == Move(c, "shaking", "stuck")

(* The last thing a session does. *)
Close(c) == Move(c, "served", "closed")

Init == state = [c \in Conn |-> "none"]

Next == \E c \in Conn : Accept(c) \/ Serve(c) \/ Fail(c) \/ Close(c)

Spec == Init /\ [][Next]_state
===============================================================================
