----------------------------- MODULE MCServicePorts -----------------------------
(* Instances of ServicePorts for TLC: the daemons of two sessions, in the       *)
(* working stage (without the sshd, which is one more process) and in the       *)
(* upload.                                                                      *)
EXTENDS ServicePorts

WorkingStage == <<"process", "tunnel", "thread", "tunnel">>
SyncupStage  == <<"process", "tunnel">>
===============================================================================
