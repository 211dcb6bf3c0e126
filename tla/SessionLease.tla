----------------------------- MODULE SessionLease -----------------------------
(***************************************************************************)
(* What a syncupd control session promises, seen from the services it      *)
(* starts for its client: the session is in one stage at a time, it grants *)
(* only the services of that stage, it withdraws all of them before the    *)
(* stage changes, and an ended session grants nothing again.  It withdraws *)
(* them before it ends, too, except that it may lose the file reader and   *)
(* end with the shell and the read-only rsyncd still granted: the promise  *)
(* is the one the code keeps, not the one its comments make.  CtrlSession  *)
(* is the session thread that has to keep it.                              *)
(***************************************************************************)

VARIABLES
    phase,      \* "none", "syncup", "working", and "closed" when it is over
    granted     \* the services that run for the client

vars == <<phase, granted>>

(* The writable rsyncd of the upload; the shell, the read-only rsyncd and   *)
(* the file reader of the working stage.                                    *)
ServicesOf(s) == CASE s = "syncup"  -> {"rsyncUp"}
                   [] s = "working" -> {"ssh", "rsyncDown", "catfile"}
                   [] OTHER         -> {}

Init == phase = "none" /\ granted = {}

Grant(s) == /\ s \in ServicesOf(phase) \ granted
            /\ granted' = granted \cup {s}
            /\ UNCHANGED phase

Withdraw == /\ granted # {}
            /\ granted' = {}
            /\ UNCHANGED phase

(* The withdrawal gets stuck once the file reader is gone: the stage stays, or *)
(* the session ends as it is.                                                  *)
WithdrawReader == /\ granted = ServicesOf("working")
                  /\ granted' = granted \ {"catfile"}
                  /\ phase' \in {phase, "closed"}

(* The next stage begins, or a stage that could not start is given up.      *)
Change == /\ granted = {}
          /\ \/ phase = "none"    /\ phase' = "syncup"
             \/ phase = "syncup"  /\ phase' \in {"working", "none"}
             \/ phase = "working" /\ phase' = "none"
          /\ UNCHANGED granted

Close == /\ granted = {}
         /\ phase # "closed"
         /\ phase' = "closed"
         /\ UNCHANGED granted

Next == \/ \E s \in {"rsyncUp", "rsyncDown", "ssh", "catfile"} : Grant(s)
        \/ Withdraw
        \/ WithdrawReader
        \/ Change
        \/ Close

Spec == Init /\ [][Next]_vars
===============================================================================
