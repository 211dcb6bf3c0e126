------------------------------ MODULE ServicePorts ------------------------------
(***************************************************************************)
(* How the session threads of syncupd find ports for the daemons of their  *)
(* services and wait for them (GbsUtil.getFreeTcpPort and waitTcpPort, the *)
(* start() and stop() of rsyncd.py, sshd.py and catfiled.py).  A port is   *)
(* picked by binding it and letting it go again; the daemon binds it later *)
(* by itself, and what start() waits for is that somebody listens there.   *)
(*                                                                         *)
(* A session starts its daemons one after the other.  A "tunnel" is the    *)
(* stunnel in front of the daemon before it; all tunnels of a session read *)
(* the same configuration file, <uuid>-stunnel.conf.                       *)
(*                                                                         *)
(* A process is started by a shell (Popen(shell=True)), and stop() signals *)
(* the shell: whether the daemon ends with it depends on the shell.  It    *)
(* does if the shell became the daemon; bash does not become a command     *)
(* with a redirection, such as the tunnel's "2>/dev/null".                 *)
(***************************************************************************)
EXTENDS Naturals, Sequences

CONSTANTS
    Session,
    Role,       \* the daemons of a session in starting order: "process" (rsyncd,
                \* sshd), "thread" (catfiled, which binds within start()), "tunnel"
    MaxPort,    \* ports 1..MaxPort
    Outlives    \* the roles whose daemon outlives the shell that started it

Daemon == 1..Len(Role)
Port   == 1..MaxPort
NoPort == 0

ASSUME RoleAssumption == /\ Role \in Seq({"process", "thread", "tunnel"}) /\ Role # <<>>
                         /\ \A d \in Daemon :
                              Role[d] = "tunnel" => d > 1 /\ Role[d - 1] # "tunnel"
ASSUME PortAssumption == MaxPort \in Nat
ASSUME ShellAssumption == Outlives \subseteq {"process", "tunnel"}

VARIABLES
    pc,         \* where the session thread is
    at,         \* the daemon it is starting or stopping
    port,       \* the port the service object has picked for a daemon
    proc,       \* a daemon's process: "none", "starting", "running" or "dead"
    listens,    \* the port it listens on
    target,     \* the port a tunnel connects to
    conf,       \* the configuration file of the tunnels, <<accept, connect>>
    clash       \* history: the sessions that ever held a port at the same time as
                \* another session

vars == <<pc, at, port, proc, listens, target, conf, clash>>

-------------------------------------------------------------------------------
Taken(p) == \E s \in Session, d \in Daemon : listens[s][d] = p
(* Mutant of Free: the range of ports ends one too late. *)
FreePastEnd == {p \in 1..(MaxPort + 1) : ~Taken(p)}

Free == {p \in Port : ~Taken(p)}

Starting(s) == pc[s] \in {"pick", "launch", "wait"}

(* The client has asked for the stage. *)
Begin(s) == /\ pc[s] = "idle"
            /\ pc' = [pc EXCEPT ![s] = "pick"]
            /\ at' = [at EXCEPT ![s] = 1]
            /\ UNCHANGED <<port, proc, listens, target, conf, clash>>

(* The sessions whose services were given port p. *)
Holders(p) == {s \in Session : \E d \in Daemon : port[s][d] = p}

(* getFreeTcpPort tries the ports in order.  A port that was given to another  *)
(* session, whose daemon has not bound it yet, is as free as any.               *)
PickPort(s) == /\ pc[s] = "pick"
               /\ \E p \in Free : /\ \A q \in Free : p <= q
                                  /\ port' = [port EXCEPT ![s][at[s]] = p]
                                  /\ clash' = IF Holders(p) \subseteq {s} THEN clash
                                              ELSE clash \cup Holders(p) \cup {s}
               /\ pc' = [pc EXCEPT ![s] = "launch"]
               /\ UNCHANGED <<at, proc, listens, target, conf>>

(* No port is left, or a command such as ssh-keygen fails: what was started is   *)
(* stopped again.                                                                *)
StartFails(s) == /\ pc[s] = "pick"
                 /\ pc' = [pc EXCEPT ![s] = "stop"]
                 /\ UNCHANGED <<at, port, proc, listens, target, conf, clash>>

LaunchProcess(s) == /\ pc[s] = "launch" /\ Role[at[s]] # "thread"
                    /\ proc' = [proc EXCEPT ![s][at[s]] = "starting"]
                    /\ conf' = IF Role[at[s]] = "tunnel"
                                 THEN [conf EXCEPT ![s] = <<port[s][at[s]], port[s][at[s] - 1]>>]
                                 ELSE conf
                    /\ pc' = [pc EXCEPT ![s] = "wait"]
                    /\ UNCHANGED <<at, port, listens, target, clash>>

(* The file reader binds its port itself; that it could not is swallowed. *)
LaunchThread(s) == /\ pc[s] = "launch" /\ Role[at[s]] = "thread"
                   /\ LET p == port[s][at[s]]
                          v == IF Taken(p) THEN <<"dead", NoPort>> ELSE <<"running", p>>
                      IN  /\ proc' = [proc EXCEPT ![s][at[s]] = v[1]]
                          /\ listens' = [listens EXCEPT ![s][at[s]] = v[2]]
                   /\ pc' = [pc EXCEPT ![s] = "wait"]
                   /\ UNCHANGED <<at, port, target, conf, clash>>

(* The process reads its configuration and binds its port.  It ends if it *)
(* cannot, or if the configuration is deleted already.                     *)
Bind(s, d, p, t) == /\ proc[s][d] = "starting"
                    /\ IF p = NoPort \/ Taken(p)
                         THEN /\ proc' = [proc EXCEPT ![s][d] = "dead"]
                              /\ UNCHANGED <<listens, target>>
                         ELSE /\ proc' = [proc EXCEPT ![s][d] = "running"]
                              /\ listens' = [listens EXCEPT ![s][d] = p]
                              /\ target' = [target EXCEPT ![s][d] = t]
                    /\ UNCHANGED <<pc, at, port, conf, clash>>

DaemonBinds(s, d) == \/ Role[d] = "tunnel" /\ Bind(s, d, conf[s][1], conf[s][2])
                     \/ Role[d] = "process" /\ Bind(s, d, port[s][d], NoPort)

(* It ends before that for a reason of its own: its certificate, its log file. *)
DaemonFails(s, d) == /\ proc[s][d] = "starting"
                     /\ proc' = [proc EXCEPT ![s][d] = "dead"]
                     /\ UNCHANGED <<pc, at, port, listens, target, conf, clash>>

Proceed(s) == /\ pc' = [pc EXCEPT ![s] = IF at[s] = Len(Role) THEN "up" ELSE "pick"]
              /\ at' = [at EXCEPT ![s] = IF at[s] = Len(Role) THEN at[s] ELSE at[s] + 1]
              /\ UNCHANGED <<port, proc, listens, target, conf, clash>>

(* Mutant of Wait: start() does not wait for the port of a tunnel. *)
WaitNotForTunnel(s) == /\ pc[s] = "wait"
                       /\ Role[at[s]] = "tunnel" \/ Taken(port[s][at[s]])
                       /\ Proceed(s)

(* Mutant of Wait: start() waits for another port than the daemon was given. *)
WaitForNext(s) == /\ pc[s] = "wait"
                  /\ Taken(port[s][at[s]] + 1)
                  /\ Proceed(s)

(* waitTcpPort: a connection to the port succeeds.  It is tried until it does,  *)
(* also when the daemon has ended.                                              *)
Wait(s) == /\ pc[s] = "wait"
           /\ Taken(port[s][at[s]])
           /\ Proceed(s)

-------------------------------------------------------------------------------
(* The end of the stage. *)
BeginStop(s) == /\ pc[s] = "up"
                /\ pc' = [pc EXCEPT ![s] = "stop"]
                /\ UNCHANGED <<at, port, proc, listens, target, conf, clash>>

(* The service object and the configuration are deleted. *)
Drop(s) == /\ port' = [port EXCEPT ![s][at[s]] = NoPort]
           /\ conf' = [conf EXCEPT ![s] = <<NoPort, NoPort>>]
           /\ IF at[s] = 1 THEN pc' = [pc EXCEPT ![s] = "over"] /\ UNCHANGED at
                           ELSE at' = [at EXCEPT ![s] = at[s] - 1] /\ UNCHANGED pc
           /\ UNCHANGED clash

(* The daemon ends. *)
End(s, d) == /\ proc' = [proc EXCEPT ![s][d] = "none"]
             /\ listens' = [listens EXCEPT ![s][d] = NoPort]
             /\ target' = [target EXCEPT ![s][d] = NoPort]

(* Mutant of StopDaemon: stop() looks at the tunnel only. *)
StopTunnelOnly(s) ==
    /\ pc[s] = "stop"
    /\ \/ Role[at[s]] = "tunnel" /\ Role[at[s]] \notin Outlives /\ End(s, at[s])
       \/ Role[at[s]] # "tunnel" /\ UNCHANGED <<proc, listens, target>>
       \/ Role[at[s]] \in Outlives /\ UNCHANGED <<proc, listens, target>>
    /\ Drop(s)

(* What was started is terminated in the reverse order, and its files deleted. *)
(* terminate() reaches the shell, and wait() waits for the shell.              *)
StopDaemon(s) ==
    /\ pc[s] = "stop"
    /\ \/ Role[at[s]] \notin Outlives /\ End(s, at[s])
       \/ Role[at[s]] \in Outlives /\ UNCHANGED <<proc, listens, target>>
    /\ Drop(s)

-------------------------------------------------------------------------------
Nothing(v) == [s \in Session |-> [d \in Daemon |-> v]]

Init == /\ pc = [s \in Session |-> "idle"]
        /\ at = [s \in Session |-> 1]
        /\ port = Nothing(NoPort)
        /\ proc = Nothing("none")
        /\ listens = Nothing(NoPort)
        /\ target = Nothing(NoPort)
        /\ conf = [s \in Session |-> <<NoPort, NoPort>>]
        /\ clash = {}

(* What a session thread does without waiting for a request. *)
ThreadStep(s) == \/ PickPort(s) \/ StartFails(s) \/ LaunchProcess(s) \/ LaunchThread(s)
                 \/ Wait(s) \/ StopDaemon(s)

(* waitTcpPort waits for a daemon that has ended. *)
Hangs(s) == pc[s] = "wait" /\ proc[s][at[s]] = "dead"

Over == (\A s \in Session : pc[s] = "over" \/ Hangs(s)) /\ UNCHANGED vars

Next == \/ \E s \in Session : \/ Begin(s) \/ BeginStop(s) \/ ThreadStep(s)
                              \/ \E d \in Daemon : DaemonBinds(s, d) \/ DaemonFails(s, d)
        \/ Over

Spec == Init /\ [][Next]_vars

(* Threads and processes are scheduled. *)
LiveSpec == Spec /\ \A s \in Session : /\ WF_vars(ThreadStep(s))
                                       /\ \A d \in Daemon : WF_vars(DaemonBinds(s, d))

-------------------------------------------------------------------------------
(* Properties. *)

(* Every variable keeps its type. *)
TypeOK ==
    /\ pc \in [Session -> {"idle", "pick", "launch", "wait", "up", "stop", "over"}]
    /\ at \in [Session -> Daemon]
    /\ port \in [Session -> [Daemon -> Port \cup {NoPort}]]
    /\ proc \in [Session -> [Daemon -> {"none", "starting", "running", "dead"}]]
    /\ listens \in [Session -> [Daemon -> Port \cup {NoPort}]]
    /\ target \in [Session -> [Daemon -> Port \cup {NoPort}]]
    /\ conf \in [Session -> (Port \cup {NoPort}) \X (Port \cup {NoPort})]
    /\ clash \subseteq Session

(* The ports client s is told lead to its own daemons, and each of its tunnels *)
(* to the daemon it was started for, although all read the same file.          *)
Own(s) == \A d \in Daemon : /\ listens[s][d] = port[s][d]
                            /\ Role[d] = "tunnel" => target[s][d] = port[s][d - 1]

(* "rsync all system files of the client machine into it": the ports a client *)
(* is told lead to its own daemons.                                           *)
OwnDaemons == \A s \in Session : pc[s] = "up" => Own(s)

(* They do unless another session was given one of them in the window between  *)
(* getFreeTcpPort and the daemon's own bind, whatever other sessions start and *)
(* stop meanwhile, whatever daemons fail, and with tunnels of former sessions  *)
(* around that go on listening.                                                *)
OwnUnlessClash == \A s \in Session \ clash : pc[s] = "up" => Own(s)

(* stop() and the undo of a start that failed half-way leave no daemon behind *)
(* but those that outlive their shell, whatever became of the ports.          *)
NothingLeft == \A s \in Session : pc[s] = "over" =>
                   \A d \in Daemon : proc[s][d] = "none" \/ Role[d] \in Outlives

(* start() returns or raises, unless the daemon it waits for has ended: then *)
(* waitTcpPort tries forever.                                                *)
StartReturns == \A s \in Session : Starting(s) ~> ~Starting(s) \/ Hangs(s)
===============================================================================
