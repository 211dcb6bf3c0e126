--------------------------- MODULE ServicePortsProofs ---------------------------
(***************************************************************************)
(* Proofs about ServicePorts, for any sessions, daemons and ports.         *)
(***************************************************************************)
EXTENDS ServicePorts, TLAPS

(* A daemon that was not started yet is nothing; one that was stopped is nothing *)
(* unless it outlives its shell.                                                 *)
NotStarted(s, d) == \/ pc[s] = "idle"
                    \/ pc[s] \in {"pick", "launch"} /\ d >= at[s]
                    \/ pc[s] = "wait" /\ d > at[s]

Stopped(s, d) == pc[s] = "over" \/ (pc[s] = "stop" /\ d > at[s])

ProcInv == /\ \A s \in Session, d \in Daemon :
                NotStarted(s, d) \/ (Stopped(s, d) /\ Role[d] \notin Outlives)
                  => proc[s][d] = "none" /\ listens[s][d] = NoPort
           /\ \A s \in Session : pc[s] = "up" => at[s] = Len(Role)
           /\ \A s \in Session : pc[s] \in {"idle", "over"} => at[s] = 1

(* A service that was not given a port yet, or was stopped, has none, and the *)
(* configuration of the tunnels names a port the session has.                 *)
Held == /\ \A s \in Session, d \in Daemon :
             d > at[s] \/ (d = at[s] /\ pc[s] \in {"idle", "pick", "over"})
               => port[s][d] = NoPort
        /\ \A s \in Session : conf[s][1] # NoPort => \E d \in Daemon : port[s][d] = conf[s][1]

(* Nobody else was given, and nobody else listens on, a port of session s. *)
Alone(s) == \A r \in Session \ {s}, d, e \in Daemon :
                port[s][d] # NoPort => port[r][e] # port[s][d] /\ listens[r][e] # port[s][d]

(* A daemon that listens where its session thinks it does. *)
Good(s, d) == /\ listens[s][d] = port[s][d]
              /\ Role[d] = "tunnel" => target[s][d] = port[s][d - 1]

(* The session itself listens nowhere on the port it has just been given. *)
Vacant(s) == \A e \in Daemon : listens[s][e] # port[s][at[s]]

(* What start() has got so far: the port it has picked stays vacant until its *)
(* own daemon binds it.                                                       *)
Sound(s) ==
    /\ pc[s] \in {"launch", "wait"} => port[s][at[s]] \in Port
    /\ pc[s] = "launch" => Vacant(s)
    /\ pc[s] = "wait" /\ proc[s][at[s]] \in {"starting", "dead"} => Vacant(s)
    /\ pc[s] = "wait" /\ proc[s][at[s]] = "starting" /\ Role[at[s]] = "tunnel"
         => conf[s] = <<port[s][at[s]], port[s][at[s] - 1]>>
    /\ pc[s] = "wait" => proc[s][at[s]] \in {"starting", "dead"} \/ Good(s, at[s])
    /\ \A d \in Daemon : (pc[s] = "up" \/ Starting(s)) /\ proc[s][d] = "starting"
                          => pc[s] = "wait" /\ at[s] = d
    /\ \A d \in Daemon : pc[s] = "up" \/ (Starting(s) /\ d < at[s]) => Good(s, d)

PortInv == \A s \in Session \ clash : Alone(s) /\ Sound(s)

-------------------------------------------------------------------------------
(* There is a first and a last daemon, and a tunnel has one before it. *)
LEMMA Daemons == /\ Len(Role) \in Nat /\ Len(Role) >= 1
                 /\ 1 \in Daemon /\ Len(Role) \in Daemon
                 /\ \A d \in Daemon : Role[d] = "tunnel" => d - 1 \in Daemon
<1>1. Role \in Seq({"process", "thread", "tunnel"}) /\ Role # <<>>
  BY RoleAssumption
<1>2. Len(Role) \in Nat /\ Len(Role) >= 1
  BY <1>1
<1>3. \A d \in Daemon : Role[d] = "tunnel" => d > 1
  BY RoleAssumption
<1>4. QED
  BY <1>2, <1>3 DEF Daemon

(* Changing one daemon's entry of a table keeps the table's type. *)
LEMMA Entry == ASSUME NEW V, NEW f \in [Session -> [Daemon -> V]],
                      NEW s \in Session, NEW d \in Daemon, NEW v \in V
               PROVE  [f EXCEPT ![s][d] = v] \in [Session -> [Daemon -> V]]
OBVIOUS

(* Every variable keeps its type. *)
LEMMA StepType == ASSUME TypeOK, [Next]_vars PROVE TypeOK'
<1> USE Daemons DEF TypeOK
<1>1. ASSUME NEW s \in Session, Begin(s) \/ StartFails(s) \/ BeginStop(s) PROVE TypeOK'
  BY <1>1 DEF Begin, StartFails, BeginStop
<1>2. ASSUME NEW s \in Session, PickPort(s) PROVE TypeOK'
  BY <1>2 DEF PickPort, Free, Holders
<1>3. ASSUME NEW s \in Session, LaunchProcess(s) PROVE TypeOK'
  <2>1. at[s] \in Daemon /\ (Role[at[s]] = "tunnel" => at[s] - 1 \in Daemon)
    BY <1>3
  <2>2. conf' \in [Session -> (Port \cup {NoPort}) \X (Port \cup {NoPort})]
    BY <1>3, <2>1 DEF LaunchProcess
  <2>3. QED
    BY <1>3, <2>2 DEF LaunchProcess
<1>4. ASSUME NEW s \in Session, LaunchThread(s) PROVE TypeOK'
  BY <1>4 DEF LaunchThread, NoPort
<1>5. ASSUME NEW s \in Session, NEW d \in Daemon, DaemonBinds(s, d) PROVE TypeOK'
  <2>1. conf[s][1] \in Port \cup {NoPort} /\ conf[s][2] \in Port \cup {NoPort}
    OBVIOUS
  <2>2. ASSUME NEW p \in Port \cup {NoPort}, NEW t \in Port \cup {NoPort}, Bind(s, d, p, t)
        PROVE  TypeOK'
    <3>1. [proc EXCEPT ![s][d] = "dead"]
            \in [Session -> [Daemon -> {"none", "starting", "running", "dead"}]]
      BY Entry
    <3>2. [proc EXCEPT ![s][d] = "running"]
            \in [Session -> [Daemon -> {"none", "starting", "running", "dead"}]]
      BY Entry
    <3>3. [listens EXCEPT ![s][d] = p] \in [Session -> [Daemon -> Port \cup {NoPort}]]
      BY Entry
    <3>4. [target EXCEPT ![s][d] = t] \in [Session -> [Daemon -> Port \cup {NoPort}]]
      BY Entry
    <3>5. CASE p = NoPort \/ Taken(p)
      BY <2>2, <3>1, <3>5 DEF Bind
    <3>6. CASE ~(p = NoPort \/ Taken(p))
      BY <2>2, <3>2, <3>3, <3>4, <3>6 DEF Bind
    <3>7. QED
      BY <3>5, <3>6
  <2>3. NoPort \in Port \cup {NoPort} /\ port[s][d] \in Port \cup {NoPort}
    OBVIOUS
  <2>4. QED
    BY <1>5, <2>1, <2>2, <2>3 DEF DaemonBinds
<1>6. ASSUME NEW s \in Session, Wait(s) PROVE TypeOK'
  <2>1. at[s] # Len(Role) => at[s] + 1 \in Daemon
    BY DEF Daemon
  <2>2. QED
    BY <1>6, <2>1 DEF Wait, Proceed
<1>7. ASSUME NEW s \in Session, StopDaemon(s) PROVE TypeOK'
  <2>1. at[s] # 1 => at[s] - 1 \in Daemon
    BY DEF Daemon
  <2>2. <<NoPort, NoPort>> \in (Port \cup {NoPort}) \X (Port \cup {NoPort})
    OBVIOUS
  <2>3. ASSUME NEW d \in Daemon, End(s, d)
        PROVE  /\ proc' \in [Session -> [Daemon -> {"none", "starting", "running", "dead"}]]
               /\ listens' \in [Session -> [Daemon -> Port \cup {NoPort}]]
               /\ target' \in [Session -> [Daemon -> Port \cup {NoPort}]]
    <3>1. "none" \in {"none", "starting", "running", "dead"} /\ NoPort \in Port \cup {NoPort}
      OBVIOUS
    <3>2. QED
      BY <2>3, <3>1, Entry DEF End
  <2>4. /\ proc' \in [Session -> [Daemon -> {"none", "starting", "running", "dead"}]]
        /\ listens' \in [Session -> [Daemon -> Port \cup {NoPort}]]
        /\ target' \in [Session -> [Daemon -> Port \cup {NoPort}]]
    BY <1>7, <2>3 DEF StopDaemon
  <2>5. QED
    BY <1>7, <2>1, <2>2, <2>4 DEF StopDaemon, Drop
<1>8. ASSUME NEW s \in Session, NEW d \in Daemon, DaemonFails(s, d) PROVE TypeOK'
  BY <1>8 DEF DaemonFails
<1>9. CASE Over \/ UNCHANGED vars
  BY <1>9 DEF Over, vars
<1>10. QED
  BY <1>1, <1>2, <1>3, <1>4, <1>5, <1>6, <1>7, <1>8, <1>9 DEF Next, ThreadStep

(* A daemon is touched only between its launch and its stop, or if it outlives *)
(* its shell.                                                                  *)
LEMMA StepProc == ASSUME TypeOK, TypeOK', ProcInv, [Next]_vars PROVE ProcInv'
<1> USE Daemons DEF TypeOK, ProcInv, NotStarted, Stopped, Daemon
<1>1. ASSUME NEW s \in Session, Begin(s) \/ StartFails(s) \/ BeginStop(s) PROVE ProcInv'
  BY <1>1 DEF Begin, StartFails, BeginStop
<1>2. ASSUME NEW s \in Session, PickPort(s) PROVE ProcInv'
  BY <1>2 DEF PickPort
<1>3. ASSUME NEW s \in Session, LaunchProcess(s) PROVE ProcInv'
  BY <1>3 DEF LaunchProcess
<1>4. ASSUME NEW s \in Session, LaunchThread(s) PROVE ProcInv'
  BY <1>4 DEF LaunchThread
<1>5. ASSUME NEW s \in Session, NEW d \in Daemon, DaemonBinds(s, d) \/ DaemonFails(s, d)
      PROVE  ProcInv'
  <2>1. proc[s][d] = "starting" /\ UNCHANGED <<pc, at>>
    BY <1>5 DEF DaemonBinds, DaemonFails, Bind
  <2>2. ~NotStarted(s, d) /\ ~(Stopped(s, d) /\ Role[d] \notin Outlives)
    BY <2>1
  <2>3. \A r \in Session, e \in Daemon :
          r # s \/ e # d => proc'[r][e] = proc[r][e] /\ listens'[r][e] = listens[r][e]
    <3>1. ASSUME NEW p, NEW t, Bind(s, d, p, t)
          PROVE  \A r \in Session, e \in Daemon :
                   r # s \/ e # d => proc'[r][e] = proc[r][e] /\ listens'[r][e] = listens[r][e]
      BY <3>1 DEF Bind
    <3>2. QED
      BY <1>5, <3>1 DEF DaemonBinds, DaemonFails
  <2>4. QED
    BY <2>1, <2>2, <2>3
<1>6. ASSUME NEW s \in Session, Wait(s) PROVE ProcInv'
  BY <1>6 DEF Wait, Proceed
<1>7. ASSUME NEW s \in Session, StopDaemon(s) PROVE ProcInv'
  <2>1. /\ pc[s] = "stop" /\ at[s] \in Daemon
        /\ \/ at[s] = 1 /\ pc' = [pc EXCEPT ![s] = "over"] /\ at' = at
           \/ at[s] # 1 /\ pc' = pc /\ at' = [at EXCEPT ![s] = at[s] - 1]
    BY <1>7 DEF StopDaemon, Drop
  <2>2. /\ \A r \in Session, e \in Daemon :
             r # s \/ e # at[s] => proc'[r][e] = proc[r][e] /\ listens'[r][e] = listens[r][e]
        /\ Role[at[s]] \notin Outlives => proc'[s][at[s]] = "none" /\ listens'[s][at[s]] = NoPort
    BY <1>7 DEF StopDaemon, End
  <2>3. ASSUME NEW r \in Session \ {s} PROVE pc'[r] = pc[r] /\ at'[r] = at[r]
    BY <2>1
  <2>4. \A d \in Daemon : ~NotStarted(s, d)' /\ (Stopped(s, d)' => d = at[s] \/ Stopped(s, d))
    BY <2>1
  <2>5. pc'[s] \in {"stop", "over"} /\ (pc'[s] = "over" => at'[s] = 1)
    BY <2>1
  <2>6. ASSUME NEW r \in Session, NEW d \in Daemon,
               NotStarted(r, d)' \/ (Stopped(r, d)' /\ Role[d] \notin Outlives)
        PROVE  proc'[r][d] = "none" /\ listens'[r][d] = NoPort
    <3>1. CASE r = s /\ d = at[s]
      BY <2>2, <2>4, <2>6, <3>1
    <3>2. CASE r = s /\ d # at[s]
      BY <2>2, <2>4, <2>6, <3>2
    <3>3. CASE r # s
      BY <2>2, <2>3, <2>6, <3>3
    <3>4. QED
      BY <3>1, <3>2, <3>3
  <2>7. \A r \in Session : /\ pc'[r] = "up" => at'[r] = Len(Role)
                           /\ pc'[r] \in {"idle", "over"} => at'[r] = 1
    <3>1. ASSUME NEW r \in Session
          PROVE  /\ pc[r] = "up" => at[r] = Len(Role)
                 /\ pc[r] \in {"idle", "over"} => at[r] = 1
      OBVIOUS
    <3>2. QED
      BY <2>3, <2>5, <3>1
  <2>8. QED
    BY <2>6, <2>7
<1>8. CASE Over \/ UNCHANGED vars
  BY <1>8 DEF Over, vars
<1>9. QED
  BY <1>1, <1>2, <1>3, <1>4, <1>5, <1>6, <1>7, <1>8 DEF Next, ThreadStep

(* Types and the bookkeeping of processes are invariant, contended or not. *)
THEOREM Inductive == Spec => [](TypeOK /\ ProcInv)
<1>1. Init => TypeOK /\ ProcInv
  BY Daemons DEF Init, Nothing, TypeOK, ProcInv, NotStarted
<1>2. TypeOK /\ ProcInv /\ [Next]_vars => (TypeOK /\ ProcInv)'
  BY StepType, StepProc
<1>3. QED
  BY <1>1, <1>2, PTL DEF Spec

(* A session that is over has no daemon left but those that outlive their shell, *)
(* for any such roles, and however ports were contended.                         *)
THEOREM NothingIsLeft == Spec => []NothingLeft
<1>1. TypeOK /\ ProcInv => NothingLeft
  BY DEF ProcInv, Stopped, NothingLeft
<1>2. QED
  BY <1>1, Inductive, PTL

-------------------------------------------------------------------------------
(* What a session leaves alone in another one. *)
Same(r) == /\ pc'[r] = pc[r] /\ at'[r] = at[r] /\ port'[r] = port[r] /\ proc'[r] = proc[r]
           /\ listens'[r] = listens[r] /\ target'[r] = target[r] /\ conf'[r] = conf[r]

(* A step of one session, or of one of its daemons, leaves the others alone. *)
LEMMA OthersSame == ASSUME TypeOK, NEW s \in Session,
                           \/ Begin(s) \/ BeginStop(s) \/ ThreadStep(s)
                           \/ \E d \in Daemon : DaemonBinds(s, d) \/ DaemonFails(s, d)
                    PROVE  \A r \in Session \ {s} : Same(r)
<1> USE DEF Same, TypeOK
<1>1. CASE Begin(s) \/ BeginStop(s)
  BY <1>1 DEF Begin, BeginStop
<1>2. CASE ThreadStep(s)
  BY <1>2 DEF ThreadStep, PickPort, StartFails, LaunchProcess, LaunchThread, Wait, Proceed,
              StopDaemon, Drop, End
<1>3. ASSUME NEW d \in Daemon, DaemonBinds(s, d) \/ DaemonFails(s, d)
      PROVE  \A r \in Session \ {s} : Same(r)
  BY <1>3 DEF DaemonBinds, Bind, DaemonFails
<1>4. QED
  BY <1>1, <1>2, <1>3

(* What start() has got so far depends on the session alone. *)
LEMMA OthersSound == ASSUME NEW r \in Session, Sound(r), Same(r) PROVE Sound(r)'
BY DEF Sound, Same, Starting, Good, Vacant

(* A port that was handed out is on record until its service is stopped. *)
LEMMA StepHeld == ASSUME TypeOK, TypeOK', ProcInv, Held, [Next]_vars PROVE Held'
<1> USE Daemons DEF TypeOK, Held, Daemon
<1>1. ASSUME NEW s \in Session, Begin(s) \/ StartFails(s) \/ BeginStop(s) PROVE Held'
  BY <1>1 DEF Begin, StartFails, BeginStop, ProcInv
<1>2. ASSUME NEW s \in Session, PickPort(s) PROVE Held'
  BY <1>2 DEF PickPort, Free
<1>3. ASSUME NEW s \in Session, LaunchProcess(s) PROVE Held'
  BY <1>3 DEF LaunchProcess
<1>4. ASSUME NEW s \in Session, LaunchThread(s) PROVE Held'
  BY <1>4 DEF LaunchThread
<1>5. ASSUME NEW s \in Session, NEW d \in Daemon, DaemonBinds(s, d) \/ DaemonFails(s, d)
      PROVE  Held'
  <2>1. UNCHANGED <<pc, at, port, conf>>
    BY <1>5 DEF DaemonBinds, Bind, DaemonFails
  <2>2. QED
    BY <2>1
<1>6. ASSUME NEW s \in Session, Wait(s) PROVE Held'
  <2>1. /\ pc[s] = "wait" /\ at'[s] >= at[s] /\ (pc'[s] = "pick" => at'[s] > at[s])
        /\ pc'[s] \in {"up", "pick"} /\ UNCHANGED <<port, conf>>
    BY <1>6 DEF Wait, Proceed
  <2>2. \A r \in Session \ {s} : pc'[r] = pc[r] /\ at'[r] = at[r]
    BY <1>6 DEF Wait, Proceed
  <2>3. ASSUME NEW r \in Session, NEW d \in Daemon,
               d > at'[r] \/ (d = at'[r] /\ pc'[r] \in {"idle", "pick", "over"})
        PROVE  port[r][d] = NoPort
    <3>1. CASE r = s
      <4>1. at[s] \in Nat /\ at'[s] \in Nat /\ d \in Nat
        OBVIOUS
      <4>2. d > at[s]
        BY <2>1, <2>3, <3>1, <4>1
      <4>3. QED
        BY <3>1, <4>2
    <3>2. CASE r # s
      <4>1. pc'[r] = pc[r] /\ at'[r] = at[r]
        BY <2>2, <3>2
      <4>2. QED
        BY <2>3, <4>1
    <3>3. QED
      BY <3>1, <3>2
  <2>4. QED
    BY <2>1, <2>3
<1>7. ASSUME NEW s \in Session, StopDaemon(s) PROVE Held'
  <2>1. /\ pc[s] = "stop" /\ port' = [port EXCEPT ![s][at[s]] = NoPort]
        /\ conf' = [conf EXCEPT ![s] = <<NoPort, NoPort>>]
        /\ \/ at[s] = 1 /\ pc' = [pc EXCEPT ![s] = "over"] /\ at' = at
           \/ at[s] # 1 /\ pc' = pc /\ at' = [at EXCEPT ![s] = at[s] - 1]
    BY <1>7 DEF StopDaemon, Drop
  <2>2. ASSUME NEW r \in Session, NEW d \in Daemon,
               d > at'[r] \/ (d = at'[r] /\ pc'[r] \in {"idle", "pick", "over"})
        PROVE  port'[r][d] = NoPort
    <3>1. CASE r = s
      <4>1. at[s] \in Nat /\ at'[s] \in Nat /\ d \in Nat
        OBVIOUS
      <4>2. d = at[s] \/ d > at[s]
        BY <2>1, <2>2, <3>1, <4>1
      <4>3. QED
        BY <2>1, <3>1, <4>2
    <3>2. CASE r # s
      BY <2>1, <2>2, <3>2
    <3>3. QED
      BY <3>1, <3>2
  <2>3. ASSUME NEW r \in Session, conf'[r][1] # NoPort
        PROVE  \E d \in Daemon : port'[r][d] = conf'[r][1]
    <3>1. r # s
      BY <2>1, <2>3
    <3>2. conf'[r] = conf[r] /\ port'[r] = port[r]
      BY <2>1, <3>1
    <3>3. QED
      BY <2>3, <3>2
  <2>4. QED
    BY <2>2, <2>3
<1>8. CASE Over \/ UNCHANGED vars
  BY <1>8 DEF Over, vars
<1>9. QED
  BY <1>1, <1>2, <1>3, <1>4, <1>5, <1>6, <1>7, <1>8 DEF Next, ThreadStep

(* A port of a session that never clashed stays its own. *)
LEMMA StepAlone == ASSUME TypeOK, TypeOK', Held, PortInv, [Next]_vars
                   PROVE  \A s \in Session \ clash' : Alone(s)'
<1> USE Daemons DEF TypeOK
<1> DEFINE Goal == \A q \in Session \ clash' : Alone(q)'
<1>1. ASSUME NEW s \in Session, PickPort(s) PROVE Goal
  <2>1. PICK p \in Free : /\ port' = [port EXCEPT ![s][at[s]] = p]
                          /\ clash' = IF Holders(p) \subseteq {s} THEN clash
                                      ELSE clash \cup Holders(p) \cup {s}
                          /\ listens' = listens
    BY <1>1 DEF PickPort
  <2>2. \A r \in Session, e \in Daemon : listens[r][e] # p
    BY <2>1 DEF Free, Taken
  <2>3. ASSUME NEW q \in Session \ clash', NEW r \in Session \ {q}, NEW d \in Daemon,
               NEW e \in Daemon, port'[q][d] # NoPort
        PROVE  port'[r][e] # port'[q][d] /\ listens'[r][e] # port'[q][d]
    <3>1. q \notin clash
      BY <2>1, <2>3
    <3>2. \A f \in Session, g \in Daemon : f # s \/ g # at[s] => port'[f][g] = port[f][g]
      BY <2>1
    <3>3. port'[s][at[s]] = p
      BY <2>1
    <3>4. CASE q = s /\ d = at[s]
      <4>1. port[r][e] # p
        BY <2>1, <2>3, <3>4 DEF Holders
      <4>2. QED
        BY <2>1, <2>2, <3>2, <3>3, <3>4, <4>1
    <3>5. CASE r = s /\ e = at[s]
      <4>1. port'[q][d] = port[q][d]
        BY <2>3, <3>2, <3>5
      <4>2. port[q][d] # p
        BY <2>1, <2>3, <3>5 DEF Holders
      <4>3. listens[r][e] # port[q][d]
        BY <2>3, <3>1, <4>1 DEF PortInv, Alone
      <4>4. QED
        BY <2>1, <3>3, <3>5, <4>1, <4>2, <4>3
    <3>6. CASE ~(q = s /\ d = at[s]) /\ ~(r = s /\ e = at[s])
      <4>1. port'[q][d] = port[q][d] /\ port'[r][e] = port[r][e]
        BY <3>2, <3>6
      <4>2. QED
        BY <2>1, <2>3, <3>1, <4>1 DEF PortInv, Alone
    <3>7. QED
      BY <3>4, <3>5, <3>6
  <2>4. QED
    BY <2>3 DEF Alone
<1>2. ASSUME \A r \in Session, e \in Daemon :
               /\ port'[r][e] \in {port[r][e], NoPort}
               /\ listens'[r][e] \in {listens[r][e], NoPort} \cup {port[r][g] : g \in Daemon},
             clash' = clash
      PROVE  Goal
  <2>1. ASSUME NEW q \in Session \ clash, NEW r \in Session \ {q}, NEW d \in Daemon,
               NEW e \in Daemon, port'[q][d] # NoPort
        PROVE  port'[r][e] # port'[q][d] /\ listens'[r][e] # port'[q][d]
    <3>1. port'[q][d] = port[q][d]
      BY <1>2, <2>1
    <3>2. port[r][e] # port[q][d] /\ listens[r][e] # port[q][d]
      BY <2>1, <3>1 DEF PortInv, Alone
    <3>3. \A g \in Daemon : port[r][g] # port[q][d]
      BY <2>1, <3>1 DEF PortInv, Alone
    <3>4. QED
      BY <1>2, <2>1, <3>1, <3>2, <3>3
  <2>2. QED
    BY <1>2, <2>1 DEF Alone
<1>3. ASSUME NEW s \in Session, \/ Begin(s) \/ StartFails(s) \/ BeginStop(s)
                                \/ LaunchProcess(s) \/ Wait(s)
      PROVE  Goal
  BY <1>2, <1>3 DEF Begin, StartFails, BeginStop, LaunchProcess, Wait, Proceed
<1>4. ASSUME NEW s \in Session, LaunchThread(s) PROVE Goal
  <2>1. port' = port /\ clash' = clash
    BY <1>4 DEF LaunchThread
  <2>2. \A r \in Session, e \in Daemon :
          listens'[r][e] \in {listens[r][e], NoPort, port[r][e]}
    BY <1>4 DEF LaunchThread
  <2>3. QED
    BY <1>2, <2>1, <2>2
<1>5. ASSUME NEW s \in Session, NEW d \in Daemon, DaemonBinds(s, d) \/ DaemonFails(s, d)
      PROVE  Goal
  <2>1. port' = port /\ clash' = clash
    BY <1>5 DEF DaemonBinds, Bind, DaemonFails
  <2>2. ASSUME NEW p, NEW t, Bind(s, d, p, t), p # NoPort => \E g \in Daemon : port[s][g] = p
        PROVE  \A r \in Session, e \in Daemon :
                 listens'[r][e] \in {listens[r][e]} \cup {port[r][g] : g \in Daemon}
    <3>1. \A r \in Session, e \in Daemon :
            \/ listens'[r][e] = listens[r][e]
            \/ r = s /\ p # NoPort /\ listens'[r][e] = p
      BY <2>2 DEF Bind
    <3>2. QED
      BY <2>2, <3>1
  <2>3. conf[s][1] # NoPort => \E g \in Daemon : port[s][g] = conf[s][1]
    BY DEF Held
  <2>4. \A r \in Session, e \in Daemon :
          listens'[r][e] \in {listens[r][e]} \cup {port[r][g] : g \in Daemon}
    <3>1. CASE DaemonBinds(s, d)
      BY <2>2, <2>3, <3>1 DEF DaemonBinds
    <3>2. CASE DaemonFails(s, d)
      BY <3>2 DEF DaemonFails
    <3>3. QED
      BY <1>5, <3>1, <3>2
  <2>5. QED
    BY <1>2, <2>1, <2>4
<1>6. ASSUME NEW s \in Session, StopDaemon(s) PROVE Goal
  <2>1. \A r \in Session, e \in Daemon : listens'[r][e] \in {listens[r][e], NoPort}
    BY <1>6 DEF StopDaemon, End
  <2>2. port' = [port EXCEPT ![s][at[s]] = NoPort] /\ clash' = clash
    BY <1>6 DEF StopDaemon, Drop
  <2>3. \A r \in Session, e \in Daemon : port'[r][e] \in {port[r][e], NoPort}
    BY <2>2
  <2>4. QED
    BY <1>2, <2>1, <2>2, <2>3
<1>7. CASE Over \/ UNCHANGED vars
  BY <1>2, <1>7 DEF Over, vars
<1>8. QED
  BY <1>1, <1>3, <1>4, <1>5, <1>6, <1>7 DEF Next, ThreadStep
(* Sessions that clashed are remembered. *)
LEMMA ClashGrows == ASSUME [Next]_vars PROVE clash \subseteq clash'
<1>1. ASSUME NEW s \in Session, ThreadStep(s) PROVE clash \subseteq clash'
  BY <1>1 DEF ThreadStep, PickPort, StartFails, LaunchProcess, LaunchThread, Wait, Proceed,
              StopDaemon, Drop
<1>2. ASSUME NEW s \in Session, Begin(s) \/ BeginStop(s) PROVE clash \subseteq clash'
  BY <1>2 DEF Begin, BeginStop
<1>3. ASSUME NEW s \in Session, NEW d \in Daemon, DaemonBinds(s, d) \/ DaemonFails(s, d)
      PROVE  clash \subseteq clash'
  BY <1>3 DEF DaemonBinds, Bind, DaemonFails
<1>4. QED
  BY <1>1, <1>2, <1>3 DEF Next, Over, vars

(* A port nobody else has is taken by the session's own daemons only. *)
LEMMA TakenByOwn == ASSUME NEW s \in Session, Alone(s), NEW d \in Daemon,
                           port[s][d] # NoPort, Taken(port[s][d])
                    PROVE  \E e \in Daemon : listens[s][e] = port[s][d]
BY DEF Alone, Taken

(* Each step of a start keeps what the start has got so far, unless it clashed. *)
LEMMA StepSound == ASSUME TypeOK, TypeOK', ProcInv, PortInv, [Next]_vars
                   PROVE  \A s \in Session \ clash' : Sound(s)'
<1> USE Daemons DEF TypeOK, Daemon
<1> DEFINE Kept(s) == s \notin clash /\ Alone(s) /\ Sound(s) => Sound(s)'
<1>1. ASSUME NEW s \in Session, Begin(s) \/ StartFails(s) \/ BeginStop(s) PROVE Kept(s)
  BY <1>1 DEF Begin, StartFails, BeginStop, Sound, Starting, ProcInv, NotStarted
<1>2. ASSUME NEW s \in Session, PickPort(s) PROVE Kept(s)
  <2>1. PICK p \in Port : /\ ~Taken(p)
                          /\ port' = [port EXCEPT ![s][at[s]] = p]
    BY <1>2 DEF PickPort, Free
  <2>2. /\ pc[s] = "pick" /\ pc' = [pc EXCEPT ![s] = "launch"]
        /\ UNCHANGED <<at, proc, listens, target, conf>>
    BY <1>2 DEF PickPort
  <2>3. port'[s][at[s]] = p /\ \A e \in Daemon \ {at[s]} : port'[s][e] = port[s][e]
    BY <2>1
  <2>4. Vacant(s)'
    BY <2>1, <2>2, <2>3 DEF Vacant, Taken
  <2>5. ASSUME NEW d \in Daemon, d < at[s], Good(s, d) PROVE Good(s, d)'
    <3>1. port'[s][d] = port[s][d]
      BY <2>3, <2>5
    <3>2. Role[d] = "tunnel" => d - 1 \in Daemon /\ d - 1 # at[s]
      BY <2>5
    <3>3. Role[d] = "tunnel" => port'[s][d - 1] = port[s][d - 1]
      BY <2>3, <3>2
    <3>4. QED
      BY <2>2, <2>5, <3>1, <3>3 DEF Good
  <2>6. SUFFICES ASSUME Sound(s) PROVE Sound(s)'
    OBVIOUS
  <2>7. pc'[s] = "launch" /\ at'[s] = at[s] /\ proc'[s] = proc[s]
    BY <2>2
  <2>8. port'[s][at'[s]] \in Port
    BY <2>3, <2>7
  <2>9. \A d \in Daemon : proc[s][d] # "starting" /\ (d < at[s] => Good(s, d))
    BY <2>2, <2>6 DEF Sound, Starting
  <2>10. QED
    BY <2>4, <2>5, <2>7, <2>8, <2>9 DEF Sound, Starting
<1>3. ASSUME NEW s \in Session, LaunchProcess(s) PROVE Kept(s)
  <2>1. /\ pc[s] = "launch" /\ pc' = [pc EXCEPT ![s] = "wait"]
        /\ proc' = [proc EXCEPT ![s][at[s]] = "starting"]
        /\ Role[at[s]] = "tunnel" => conf'[s] = <<port[s][at[s]], port[s][at[s] - 1]>>
        /\ UNCHANGED <<at, port, listens, target>>
    BY <1>3 DEF LaunchProcess
  <2>2. proc'[s][at[s]] = "starting" /\ \A e \in Daemon \ {at[s]} : proc'[s][e] = proc[s][e]
    BY <2>1
  <2>3. QED
    BY <2>1, <2>2 DEF Sound, Starting, Good, Vacant
<1>4. ASSUME NEW s \in Session, LaunchThread(s) PROVE Kept(s)
  <2>1. SUFFICES ASSUME s \notin clash, Alone(s), Sound(s) PROVE Sound(s)'
    OBVIOUS
  <2>2. /\ pc[s] = "launch" /\ Role[at[s]] = "thread" /\ at[s] \in Daemon
        /\ port[s][at[s]] \in Port /\ port[s][at[s]] # NoPort
    BY <1>4, <2>1 DEF LaunchThread, Sound, Port, NoPort
  <2>3. ~Taken(port[s][at[s]])
    BY <2>1, <2>2, TakenByOwn DEF Sound, Vacant
  <2>4. /\ pc' = [pc EXCEPT ![s] = "wait"] /\ UNCHANGED <<at, port, target, conf>>
        /\ proc' = [proc EXCEPT ![s][at[s]] = "running"]
        /\ listens' = [listens EXCEPT ![s][at[s]] = port[s][at[s]]]
    BY <1>4, <2>3 DEF LaunchThread
  <2>5. QED
    BY <2>1, <2>2, <2>4 DEF Sound, Good, Starting
<1>5. ASSUME NEW s \in Session, NEW d \in Daemon, DaemonBinds(s, d) PROVE Kept(s)
  <2>1. SUFFICES ASSUME s \notin clash, Alone(s), Sound(s) PROVE Sound(s)'
    OBVIOUS
  <2>2. PICK p, t : /\ Bind(s, d, p, t)
                    /\ \/ Role[d] = "tunnel" /\ p = conf[s][1] /\ t = conf[s][2]
                       \/ Role[d] = "process" /\ p = port[s][d]
    BY <1>5 DEF DaemonBinds
  <2>3. proc[s][d] = "starting" /\ UNCHANGED <<pc, at, port, conf>>
    BY <2>2 DEF Bind
  <2>4. CASE ~(pc[s] = "up" \/ Starting(s))
    BY <2>3, <2>4 DEF Sound, Starting
  <2>5. CASE pc[s] = "up" \/ Starting(s)
    <3>1. pc[s] = "wait" /\ at[s] = d
      BY <2>1, <2>3, <2>5 DEF Sound
    <3>2. /\ p = port[s][d] /\ p # NoPort
          /\ Role[d] = "tunnel" => t = port[s][d - 1]
      BY <2>1, <2>2, <2>3, <3>1 DEF Sound, Port, NoPort
    <3>3. ~Taken(p)
      BY <2>1, <2>3, <3>1, <3>2, TakenByOwn DEF Sound, Vacant
    <3>4. /\ proc' = [proc EXCEPT ![s][d] = "running"]
          /\ listens' = [listens EXCEPT ![s][d] = p]
          /\ target' = [target EXCEPT ![s][d] = t]
      BY <2>2, <3>2, <3>3 DEF Bind
    <3>5. /\ proc'[s][d] = "running" /\ listens'[s][d] = port[s][d] /\ target'[s][d] = t
          /\ \A e \in Daemon \ {d} : /\ proc'[s][e] = proc[s][e]
                                     /\ listens'[s][e] = listens[s][e]
                                     /\ target'[s][e] = target[s][e]
      BY <3>2, <3>4
    <3>6. Good(s, d)' /\ \A e \in Daemon \ {d} : Good(s, e) => Good(s, e)'
      BY <2>3, <3>2, <3>5 DEF Good
    <3>7. \A e \in Daemon : proc'[s][e] # "starting"
      BY <2>1, <2>5, <3>1, <3>5 DEF Sound
    <3>8. QED
      BY <2>1, <2>3, <3>1, <3>5, <3>6, <3>7 DEF Sound, Starting
  <2>6. QED
    BY <2>4, <2>5
<1>6. ASSUME NEW s \in Session, NEW d \in Daemon, DaemonFails(s, d) PROVE Kept(s)
  <2>1. /\ proc'[s][d] = "dead" /\ \A e \in Daemon \ {d} : proc'[s][e] = proc[s][e]
        /\ proc[s][d] = "starting" /\ UNCHANGED <<pc, at, port, listens, target, conf>>
    BY <1>6 DEF DaemonFails
  <2>2. QED
    BY <2>1 DEF Sound, Starting, Good, Vacant
<1>7. ASSUME NEW s \in Session, Wait(s) PROVE Kept(s)
  <2>1. SUFFICES ASSUME s \notin clash, Alone(s), Sound(s) PROVE Sound(s)'
    OBVIOUS
  <2>2. /\ pc[s] = "wait" /\ port[s][at[s]] # NoPort /\ Taken(port[s][at[s]])
    BY <1>7, <2>1 DEF Wait, Sound, Port, NoPort
  <2>3. ~Vacant(s)
    BY <2>1, <2>2, TakenByOwn DEF Vacant
  <2>4. Good(s, at[s]) /\ \A d \in Daemon : proc[s][d] # "starting"
    BY <2>1, <2>2, <2>3 DEF Sound, Starting
  <2>5. /\ pc'[s] = IF at[s] = Len(Role) THEN "up" ELSE "pick"
        /\ at'[s] = IF at[s] = Len(Role) THEN at[s] ELSE at[s] + 1
        /\ UNCHANGED <<port, proc, listens, target, conf>>
    BY <1>7 DEF Wait, Proceed
  <2>6. \A d \in Daemon : d <= at[s] => Good(s, d)
    BY <2>1, <2>2, <2>4 DEF Sound, Starting
  <2>7. QED
    BY <2>4, <2>5, <2>6 DEF Sound, Good, Starting
<1>8. ASSUME NEW s \in Session, StopDaemon(s) PROVE Kept(s)
  <2>1. pc'[s] \in {"stop", "over"}
    BY <1>8 DEF StopDaemon, Drop
  <2>2. QED
    BY <2>1 DEF Sound, Starting
<1>9. ASSUME NEW s \in Session, \/ Begin(s) \/ BeginStop(s) \/ ThreadStep(s)
                               \/ \E d \in Daemon : DaemonBinds(s, d) \/ DaemonFails(s, d)
      PROVE  \A q \in Session \ clash' : Sound(q)'
  <2>1. Kept(s)
    BY <1>1, <1>2, <1>3, <1>4, <1>5, <1>6, <1>7, <1>8, <1>9 DEF ThreadStep
  <2>2. \A q \in Session \ {s} : Sound(q) => Sound(q)'
    BY <1>9, OthersSame, OthersSound
  <2>3. QED
    BY <2>1, <2>2, ClashGrows DEF PortInv
<1>10. CASE Over \/ UNCHANGED vars
  BY <1>10 DEF Over, vars, PortInv, Sound, Starting, Good, Vacant
<1>11. QED
  BY <1>9, <1>10 DEF Next

(* The ports a client is told lead to its own daemons unless another session was *)
(* given one of them meanwhile: for any sessions, daemons, ports and shells.     *)
THEOREM PortsAreOwn == Spec => []OwnUnlessClash
<1>1. Init => Held /\ PortInv
  BY DEF Init, Nothing, Held, PortInv, Alone, Sound, Starting
<1>2. TypeOK /\ ProcInv /\ TypeOK' /\ Held /\ PortInv /\ [Next]_vars => (Held /\ PortInv)'
  BY StepHeld, StepAlone, StepSound DEF PortInv
<1>3. PortInv => OwnUnlessClash
  BY DEF PortInv, Sound, Good, OwnUnlessClash, Own
<1>4. QED
  BY <1>1, <1>2, <1>3, Inductive, PTL DEF Spec

(* Every variable keeps its type. *)
THEOREM TypeCorrect == Spec => []TypeOK
<1>1. TypeOK /\ ProcInv => TypeOK
  OBVIOUS
<1>2. QED
  BY <1>1, Inductive, PTL
===============================================================================
