------------------------------ MODULE DaemonProofs ------------------------------
(***************************************************************************)
(* Proofs about Daemon, for any set of instances and any bounds.           *)
(***************************************************************************)
EXTENDS Daemon, TLAPS

(* Who has the port, and what that says of the sessions: an instance that has  *)
(* one keeps the port until it has joined it or ends.                          *)
PortInv ==
    \A d \in Daemons :
        /\ port = d => pc[d] \in {"announce", "serving", "avahiStop", "ctrlStop", "outer", "exit"}
        /\ pc[d] \in {"announce", "serving"} => port = d
        /\ session[d] # "none" =>
              port = d /\ pc[d] \in {"serving", "avahiStop", "ctrlStop", "outer", "exit"}

(* Each instance removes its own tmpDir and no other, at its very end.         *)
TmpDirInv ==
    \A d \in Daemons :
        /\ pc[d] \notin {"off", "outer", "exit"} => d \in tmpDirs
        /\ session[d] # "none" /\ pc[d] \in {"outer", "exit"} => d \in abandoned

(* What exists has somebody left who will remove it.                           *)
LeftInv ==
    ~killed =>
        /\ \A d \in tmpDirs : pc[d] \notin {"off", "exit"}
        /\ runDir # "absent" => \E d \in Daemons : pc[d] \notin {"off", "exit"}
        /\ disk => unreleased \/ \E d \in Daemons : session[d] = "mounted"

(* The certificate on disk is that of the one who writes the key; if nobody is *)
(* writing, the two belong together, or one of them is missing and nobody has  *)
(* looked at them yet.                                                         *)
NobodyWrites == \A p \in Procs : pc[p] \notin Writing

KeysInv ==
    /\ \A p \in Procs : pc[p] \in Writing => made[p] > 0
    /\ ~spoiled =>
        /\ \A p \in Procs : pc[p] \in {"openKey", "fillKey"} => cert = made[p]
        /\ NobodyWrites =>
              \/ cert = key /\ cert > 0
              \/ /\ cert = Absent \/ key = Absent
                 /\ \A d \in Daemons : pc[d] \notin {"bind", "announce", "serving"}

-------------------------------------------------------------------------------
(* Every variable keeps its type. *)
LEMMA InitTypes == Init => TypeOK
<1> SUFFICES ASSUME Init PROVE TypeOK
  OBVIOUS
<1>1. MaxKeys \in Nat \ {0}
  BY BoundAssumption
<1>2. {0, 1} \subseteq Torn..MaxKeys /\ Absent \in 0..MaxKeys
  BY <1>1 DEF Absent, Torn
<1>3. {cert, key} \subseteq Torn..MaxKeys
  BY <1>2 DEF Init, Absent
<1>4. made \in [Procs -> 0..MaxKeys]
  BY <1>2 DEF Init
<1>5. {disk, killed, spoiled, unreleased} \subseteq BOOLEAN
  BY DEF Init
<1>6. {started, generated} \subseteq Nat
  BY DEF Init
<1>7. /\ pc \in [Procs -> {"off"}] /\ pc[Ctl] = "off"
      /\ avahiObj \in [Procs -> {"none"}] /\ session \in [Daemons -> {"none"}]
  BY DEF Init, Procs
<1>8. tmpDirs = {} /\ abandoned = {} /\ stale = {} /\ runDir = "absent" /\ port = "free"
  BY DEF Init
<1>9. QED
  BY <1>3, <1>4, <1>5, <1>6, <1>7, <1>8 DEF TypeOK

(* Every step keeps the types. *)
LEMMA StepTypes ==
  ASSUME TypeOK, [Next]_vars
  PROVE  TypeOK'
<1> USE ProcessAssumption, BoundAssumption DEF TypeOK, Procs, Goto
<1>1. ASSUME NEW p \in Procs, Generate(p)
      PROVE  /\ generated' \in Nat /\ made' \in [Procs -> 0..MaxKeys]
             /\ pc' = [pc EXCEPT ![p] = "openCert"]
  BY <1>1 DEF Generate
<1>2. ASSUME NEW p \in Procs, DumpKeys(p)
      PROVE  TypeOK'
  <2>1. made[p] \in Torn..MaxKeys /\ Torn \in Torn..MaxKeys
    BY DEF Torn
  <2>2. cert' \in Torn..MaxKeys /\ key' \in Torn..MaxKeys
    BY <1>2, <2>1 DEF DumpKeys
  <2>3. made' \in [Procs -> 0..MaxKeys]
    BY <1>2 DEF DumpKeys, Absent
  <2>4. \E to \in {"fillCert", "openKey", "fillKey", Written(p)} : pc' = [pc EXCEPT ![p] = to]
    BY <1>2 DEF DumpKeys
  <2>5. spoiled' \in BOOLEAN
    BY <1>2 DEF DumpKeys, Overlap
  <2>6. QED
    BY <1>2, <2>2, <2>3, <2>4, <2>5
       DEF DumpKeys, Written, Writing, objects, dirs, clients, history
<1>3. ASSUME NEW p \in Procs, DumpFails(p)
      PROVE  TypeOK'
  BY <1>3 DEF DumpFails, Writing, Absent, objects, dirs, clients, history
<1>4. ASSUME NEW p \in Procs, Kill(p)
      PROVE  TypeOK'
  <2>1. spoiled' \in BOOLEAN /\ killed' \in BOOLEAN
    BY <1>4 DEF Kill
  <2>2. port' \in Daemons \cup {"free", "waiting"}
    BY <1>4 DEF Kill, Release
  <2>3. made' \in [Procs -> 0..MaxKeys] /\ avahiObj' \in [Procs -> {"none", "made", "started"}]
        /\ abandoned' \subseteq Daemons /\ stale' \subseteq Daemons
    BY <1>4 DEF Kill, Forget, Absent
  <2>4. session' \in [Daemons -> {"none", "open", "mounted"}]
    BY <1>4 DEF Kill
  <2>5. QED
    BY <1>4, <2>1, <2>2, <2>3, <2>4 DEF Kill, dirs
<1>5. ASSUME NEW d \in Daemons, Start(d) \/ ClearRunDir(d) \/ WritePidFile(d) \/ Bind(d)
      PROVE  TypeOK'
  BY <1>5 DEF Start, ClearRunDir, WritePidFile, Bind,
              process, objects, keys, dirs, clients, history
<1>6. ASSUME NEW d \in Daemons, CheckKeys(d)
      PROVE  TypeOK'
  BY <1>6, <1>1 DEF CheckKeys, Writing, objects, dirs, clients, history
<1>7. ASSUME NEW d \in Daemons, Announce(d) \/ Quit(d) \/ AvahiStop(d)
      PROVE  TypeOK'
  BY <1>7 DEF Announce, Quit, AvahiStop, Skip, process, objects, keys, dirs, clients, history
<1>8. ASSUME NEW d \in Daemons, CtrlStop(d) \/ Clean(d) \/ Outer(d)
      PROVE  TypeOK'
  BY <1>8 DEF CtrlStop, Release, Skip, Clean, Outer, process, objects, keys, dirs, clients, history
<1>9. ASSUME NEW d \in Daemons, Exit(d)
      PROVE  TypeOK'
  BY <1>9 DEF Exit, Release, Forget, Absent, keys, dirs, clients, history
<1>10. ASSUME NEW d \in Daemons, OpenSession(d) \/ MountDisk(d)
       PROVE  TypeOK'
  BY <1>10, ZenonT(40) DEF OpenSession, MountDisk, process, objects, keys, dirs, history
<1>11. ASSUME NEW d \in Daemons, EndSession(d) \/ EndFails(d)
       PROVE  TypeOK'
  <2>1. disk' \in BOOLEAN /\ unreleased' \in BOOLEAN
    BY <1>11 DEF EndSession, EndFails, history
  <2>2. session' \in [Daemons -> {"none", "open", "mounted"}] /\ stale' \subseteq Daemons
    BY <1>11 DEF EndSession, EndFails, process, objects
  <2>3. UNCHANGED <<pc, made, avahiObj, abandoned, keys, dirs, port, started, killed>>
    BY <1>11 DEF EndSession, EndFails, process, objects, history
  <2>4. QED
    BY <2>1, <2>2, <2>3 DEF keys, dirs
<1>12. CASE Initialize
  BY <1>12, <1>1 DEF Initialize, Writing, objects, dirs, clients, history
<1>13. CASE PortExpires
  BY <1>13 DEF PortExpires, process, objects, keys, dirs, clients, history
<1>14. CASE UNCHANGED vars
  BY <1>14 DEF vars, process, objects, keys, dirs, clients, history
<1>15. QED
  BY <1>2, <1>3, <1>4, <1>5, <1>6, <1>7, <1>8, <1>9, <1>10, <1>11, <1>12, <1>13, <1>14
     DEF Next, MainStep

-------------------------------------------------------------------------------
(* The port, the sessions and the tmpDirs: each step changes what belongs to   *)
(* one instance only, and the port it takes is free.                           *)
LEMMA ResourceStep ==
  ASSUME TypeOK, PortInv, TmpDirInv, [Next]_vars
  PROVE  PortInv' /\ TmpDirInv'
<1> USE ProcessAssumption DEF TypeOK, PortInv, TmpDirInv, Procs, Goto, Writing
<1>1. ASSUME NEW p \in Procs, DumpKeys(p)
      PROVE  PortInv' /\ TmpDirInv'
  <2>1. \E to \in {"fillCert", "openKey", "fillKey", Written(p)} : pc' = [pc EXCEPT ![p] = to]
    BY <1>1 DEF DumpKeys
  <2>2. pc[p] \in Writing
    BY <1>1 DEF DumpKeys
  <2>3. QED
    BY <1>1, <2>1, <2>2 DEF DumpKeys, Written, objects, dirs, clients
<1>2. ASSUME NEW p \in Procs, DumpFails(p)
      PROVE  PortInv' /\ TmpDirInv'
  BY <1>2 DEF DumpFails, objects, dirs, clients
<1>3. ASSUME NEW p \in Procs, Kill(p)
      PROVE  PortInv' /\ TmpDirInv'
  <2>1. port' \in {port, "free", "waiting"} /\ (p \in Daemons => port' # p)
    BY <1>3 DEF Kill, Release
  <2>2. /\ pc' = [pc EXCEPT ![p] = "off"]
        /\ session' = [q \in Daemons |-> IF q = p THEN "none" ELSE session[q]]
    BY <1>3 DEF Kill
  <2>3. abandoned' = abandoned \ {p} /\ UNCHANGED tmpDirs
    BY <1>3 DEF Kill, Forget, dirs
  <2>4. port = p \/ port' = port
    BY <1>3 DEF Kill, Release
  <2>5. QED
    BY <2>1, <2>2, <2>3, <2>4
<1>4. ASSUME NEW d \in Daemons, Start(d) \/ ClearRunDir(d) \/ WritePidFile(d)
      PROVE  PortInv' /\ TmpDirInv'
  BY <1>4 DEF Start, ClearRunDir, WritePidFile, process, objects, clients
<1>5. ASSUME NEW d \in Daemons, CheckKeys(d)
      PROVE  PortInv' /\ TmpDirInv'
  BY <1>5 DEF CheckKeys, Generate, objects, dirs, clients
<1>6. ASSUME NEW d \in Daemons, Bind(d)
      PROVE  PortInv' /\ TmpDirInv'
  BY <1>6 DEF Bind, process, objects, dirs, clients
<1>7. ASSUME NEW d \in Daemons, Announce(d) \/ Quit(d) \/ AvahiStop(d)
      PROVE  PortInv' /\ TmpDirInv'
  BY <1>7 DEF Announce, Quit, AvahiStop, Skip, process, objects, dirs, clients
<1>8. ASSUME NEW d \in Daemons, CtrlStop(d)
      PROVE  PortInv' /\ TmpDirInv'
  BY <1>8 DEF CtrlStop, Release, Skip, dirs, clients
<1>9. ASSUME NEW d \in Daemons, Clean(d) \/ Outer(d)
      PROVE  PortInv' /\ TmpDirInv'
  BY <1>9 DEF Clean, Outer, process, objects, clients
<1>10. ASSUME NEW d \in Daemons, Exit(d)
       PROVE  PortInv' /\ TmpDirInv'
  BY <1>10 DEF Exit, Release, Forget, dirs, clients
<1>11. ASSUME NEW d \in Daemons, OpenSession(d) \/ MountDisk(d) \/ EndSession(d) \/ EndFails(d)
       PROVE  PortInv' /\ TmpDirInv'
  BY <1>11 DEF OpenSession, MountDisk, EndSession, EndFails, process, objects, dirs
<1>12. CASE Initialize
  BY <1>12 DEF Initialize, Generate, objects, dirs, clients
<1>13. CASE PortExpires
  BY <1>13 DEF PortExpires, process, objects, dirs, clients
<1>14. CASE UNCHANGED vars
  BY <1>14 DEF vars, process, objects, dirs, clients
<1>15. QED
  BY <1>1, <1>2, <1>3, <1>4, <1>5, <1>6, <1>7, <1>8, <1>9, <1>10, <1>11, <1>12, <1>13, <1>14
     DEF Next, MainStep

(* Until an instance is killed, what it leaves is what somebody will remove.   *)
LEMMA LeftStep ==
  ASSUME TypeOK, PortInv, LeftInv, [Next]_vars
  PROVE  LeftInv'
<1> SUFFICES ASSUME ~killed' PROVE LeftInv'
  BY DEF LeftInv
<1> USE ProcessAssumption DEF TypeOK, LeftInv, Procs, Goto, Writing
<1>0. killed => killed'
  BY ZenonT(40) DEF Next, MainStep, Start, ClearRunDir, WritePidFile, CheckKeys, DumpKeys,
                    DumpFails, Bind, Announce, AvahiStop, CtrlStop, Clean, Outer, Exit, Quit,
                    Kill, OpenSession, MountDisk, EndSession, EndFails, Initialize, PortExpires, vars,
                    history
<1>1. ~killed
  BY <1>0
(* A step that ends nobody and leaves everything in its place. *)
<1>2. ASSUME \A d \in Daemons : pc[d] \notin {"off", "exit"} => pc'[d] \notin {"off", "exit"},
             UNCHANGED <<tmpDirs, runDir, disk, session, unreleased>>
      PROVE  LeftInv'
  BY <1>1, <1>2
<1>3. ASSUME NEW p \in Procs, DumpKeys(p) \/ DumpFails(p)
      PROVE  LeftInv'
  BY <1>2, <1>3 DEF DumpKeys, DumpFails, Written, dirs, clients, history
<1>4. ASSUME NEW p \in Procs, Kill(p)
      PROVE  LeftInv'
  <2>1. p = Ctl
    BY <1>4 DEF Kill
  <2>2. session' = session
    BY <1>4, <2>1 DEF Kill
  <2>3. QED
    BY <1>2, <1>4, <2>1, <2>2 DEF Kill, dirs, history
<1>5. ASSUME NEW d \in Daemons, Start(d) \/ ClearRunDir(d) \/ WritePidFile(d)
      PROVE  LeftInv'
  BY <1>1, <1>5 DEF Start, ClearRunDir, WritePidFile, process, objects, clients, history
<1>6. ASSUME NEW d \in Daemons, CheckKeys(d)
      PROVE  LeftInv'
  BY <1>2, <1>6 DEF CheckKeys, Generate, dirs, clients, history
<1>7. ASSUME NEW d \in Daemons, Bind(d) \/ Announce(d) \/ Quit(d)
      PROVE  LeftInv'
  BY <1>2, <1>7 DEF Bind, Announce, Quit, process, objects, dirs, clients, history
<1>8. ASSUME NEW d \in Daemons, AvahiStop(d) \/ CtrlStop(d)
      PROVE  LeftInv'
  BY <1>2, <1>8 DEF AvahiStop, CtrlStop, Skip, dirs, clients, history
<1>9. ASSUME NEW d \in Daemons, Clean(d) \/ Outer(d)
      PROVE  LeftInv'
  BY <1>1, <1>9 DEF Clean, Outer, process, objects, clients, history
<1>10. ASSUME NEW d \in Daemons, Exit(d)
       PROVE  LeftInv'
  BY <1>2, <1>10 DEF Exit, dirs, clients, history
<1>11. ASSUME NEW d \in Daemons, OpenSession(d) \/ MountDisk(d) \/ EndSession(d) \/ EndFails(d)
       PROVE  LeftInv'
  BY <1>1, <1>11 DEF OpenSession, MountDisk, EndSession, EndFails, process, objects, dirs, history
<1>12. CASE Initialize
  BY <1>2, <1>12 DEF Initialize, Generate, dirs, clients, history
<1>13. CASE PortExpires \/ UNCHANGED vars
  BY <1>1, <1>13 DEF PortExpires, vars, process, objects, dirs, clients, history
<1>14. QED
  BY <1>3, <1>4, <1>5, <1>6, <1>7, <1>8, <1>9, <1>10, <1>11, <1>12, <1>13 DEF Next, MainStep

-------------------------------------------------------------------------------
(* The last step of writing a pair leaves one that belongs together, because   *)
(* whoever else was writing would have spoiled it.                             *)
LEMMA DumpKeepsKeys ==
  ASSUME TypeOK, KeysInv, NEW p \in Procs, DumpKeys(p)
  PROVE  KeysInv'
<1> USE ProcessAssumption DEF TypeOK, Procs
<1>0. pc[p] \in Writing /\ made[p] > 0 /\ (\A q \in Procs \ {p} : pc'[q] = pc[q])
  BY DEF DumpKeys, KeysInv, Goto, Writing
<1>1. ASSUME NEW q \in Procs, pc'[q] \in Writing
      PROVE  made'[q] > 0
  <2>1. pc[q] \in Writing /\ made'[q] = made[q]
    BY <1>0, <1>1 DEF DumpKeys
  <2>2. QED
    BY <2>1 DEF KeysInv
<1>2. ASSUME ~spoiled'
      PROVE  /\ \A q \in Procs : pc'[q] \in {"openKey", "fillKey"} => cert' = made'[q]
             /\ NobodyWrites' => cert' = key' /\ cert' > 0
  <2>1. ~spoiled /\ \A q \in Procs \ {p} : pc[q] \notin Writing
    BY <1>2 DEF DumpKeys, Overlap
  <2>2. \A q \in Procs \ {p} : pc'[q] \notin {"openKey", "fillKey"}
    BY <1>0, <2>1 DEF Writing
  <2>3. CASE pc[p] \in {"openCert", "fillCert", "openKey"}
    <3>1. pc'[p] \in Writing /\ made' = made
      BY <2>3 DEF DumpKeys, Goto, Writing
    <3>2. pc'[p] \in {"openKey", "fillKey"} => cert' = made[p]
      BY <2>1, <2>3 DEF DumpKeys, Goto, KeysInv
    <3>3. QED
      BY <2>2, <3>1, <3>2 DEF NobodyWrites
  <2>4. CASE pc[p] = "fillKey"
    <3>1. cert' = cert /\ cert = made[p] /\ key' = made[p]
      BY <2>1, <2>4 DEF DumpKeys, KeysInv
    <3>2. pc'[p] \notin Writing
      BY <2>4 DEF DumpKeys, Goto, Written, Writing
    <3>3. QED
      BY <1>0, <2>2, <3>1, <3>2 DEF Writing
  <2>5. QED
    BY <1>0, <2>3, <2>4 DEF Writing
<1>3. QED
  BY <1>1, <1>2 DEF KeysInv

(* KeysInv is preserved. *)
LEMMA KeysStep ==
  ASSUME TypeOK, KeysInv, [Next]_vars
  PROVE  KeysInv'
<1> USE ProcessAssumption DEF TypeOK, Procs, Goto
(* A step that writes nothing and lets nobody past the check. *)
<1>1. ASSUME UNCHANGED <<cert, key, spoiled>>,
             \A p \in Procs : pc[p] \in Writing \/ pc'[p] \in Writing
                             => pc'[p] = pc[p] /\ made'[p] = made[p],
             \A d \in Daemons : pc'[d] \in {"bind", "announce", "serving"}
                                 => pc[d] \in {"bind", "announce", "serving"}
      PROVE  KeysInv'
  <2>1. \A p \in Procs : pc'[p] \in {"openKey", "fillKey"}
                            => pc[p] \in {"openKey", "fillKey"} /\ made'[p] = made[p]
    BY <1>1 DEF Writing
  <2>2. NobodyWrites' => NobodyWrites
    BY <1>1 DEF NobodyWrites
  <2>3. QED
    BY <1>1, <2>1, <2>2 DEF KeysInv
<1>2. ASSUME NEW p \in Procs, Generate(p), pc[p] \notin Writing, UNCHANGED <<cert, key, spoiled>>
      PROVE  KeysInv'
  <2>1. /\ pc'[p] = "openCert" /\ made'[p] > 0
        /\ \A q \in Procs \ {p} : pc'[q] = pc[q] /\ made'[q] = made[q]
    BY <1>2 DEF Generate
  <2>2. ~NobodyWrites'
    BY <2>1 DEF NobodyWrites, Writing
  <2>3. QED
    BY <1>2, <2>1, <2>2 DEF KeysInv
<1>3. ASSUME NEW p \in Procs, DumpFails(p) \/ Kill(p)
      PROVE  KeysInv'
  <2>1. /\ pc'[p] \notin Writing \cup {"bind", "announce", "serving"}
        /\ \A q \in Procs \ {p} : pc'[q] = pc[q] /\ made'[q] = made[q]
        /\ pc[p] \in Writing => spoiled'
        /\ ~spoiled' => ~spoiled
        /\ UNCHANGED <<cert, key>>
    BY <1>3, ZenonT(40) DEF DumpFails, Kill, Forget, Writing
  <2>2. \A q \in Procs : pc'[q] \in Writing => made'[q] > 0
    BY <2>1 DEF KeysInv
  <2>3. CASE spoiled'
    BY <2>2, <2>3 DEF KeysInv
  <2>4. CASE ~spoiled'
    <3>1. NobodyWrites' => NobodyWrites
      BY <2>1, <2>4 DEF NobodyWrites
    <3>2. \A q \in Procs : pc'[q] \in {"openKey", "fillKey"} => cert' = made'[q]
      BY <2>1, <2>4 DEF KeysInv, Writing
    <3>3. QED
      BY <2>1, <2>2, <2>4, <3>1, <3>2 DEF KeysInv
  <2>5. QED
    BY <2>3, <2>4
<1>4. ASSUME NEW d \in Daemons, CheckKeys(d)
      PROVE  KeysInv'
  <2>1. CASE cert # Absent /\ key # Absent
    <3>1. /\ pc' = [pc EXCEPT ![d] = "bind"] /\ pc[d] = "check"
          /\ UNCHANGED <<made, cert, key, spoiled>>
      BY <1>4, <2>1 DEF CheckKeys
    <3>2. \A p \in Procs : pc'[p] \in Writing => pc'[p] = pc[p]
      BY <3>1 DEF Writing
    <3>3. NobodyWrites' => NobodyWrites
      BY <3>1 DEF NobodyWrites, Writing
    <3>4. QED
      BY <2>1, <3>1, <3>2, <3>3 DEF KeysInv, Writing
  <2>2. CASE ~(cert # Absent /\ key # Absent)
    BY <1>2, <1>4, <2>2 DEF CheckKeys, Writing
  <2>3. QED
    BY <2>1, <2>2
<1>5. ASSUME NEW d \in Daemons, Start(d) \/ ClearRunDir(d) \/ WritePidFile(d)
      PROVE  KeysInv'
  BY <1>1, <1>5 DEF Start, ClearRunDir, WritePidFile, Writing, process, objects, keys
<1>6. ASSUME NEW d \in Daemons, Bind(d) \/ Announce(d) \/ Quit(d)
      PROVE  KeysInv'
  BY <1>1, <1>6 DEF Bind, Announce, Quit, Writing, process, objects, keys
<1>7. ASSUME NEW d \in Daemons, AvahiStop(d) \/ CtrlStop(d) \/ Clean(d) \/ Outer(d)
      PROVE  KeysInv'
  BY <1>1, <1>7 DEF AvahiStop, CtrlStop, Skip, Clean, Outer, Writing, process, objects, keys
<1>8. ASSUME NEW d \in Daemons, Exit(d)
      PROVE  KeysInv'
  BY <1>1, <1>8 DEF Exit, Forget, Writing, keys
<1>9. CASE Initialize
  BY <1>2, <1>9 DEF Initialize, Writing
<1>10. ASSUME NEW d \in Daemons, OpenSession(d) \/ MountDisk(d) \/ EndSession(d) \/ EndFails(d)
       PROVE  KeysInv'
  BY <1>1, <1>10 DEF OpenSession, MountDisk, EndSession, EndFails, process, objects, keys
<1>11. CASE PortExpires \/ UNCHANGED vars
  BY <1>1, <1>11 DEF PortExpires, vars, process, objects, keys
<1>12. QED
  BY <1>3, <1>4, <1>5, <1>6, <1>7, <1>8, <1>9, <1>10, <1>11, DumpKeepsKeys
     DEF Next, MainStep

-------------------------------------------------------------------------------
(* The inductive invariant. *)
IInv == TypeOK /\ PortInv /\ TmpDirInv /\ LeftInv /\ KeysInv

(* It holds in every reachable state. *)
THEOREM Inductive == Spec => []IInv
<1>1. Init => IInv
  <2> SUFFICES ASSUME Init PROVE IInv
    OBVIOUS
  <2>1. TypeOK
    BY InitTypes
  <2>2. PortInv /\ TmpDirInv /\ LeftInv
    BY ProcessAssumption DEF Init, PortInv, TmpDirInv, LeftInv, Procs
  <2>3. KeysInv
    BY DEF Init, KeysInv, Procs, Writing, Absent
  <2>4. QED
    BY <2>1, <2>2, <2>3 DEF IInv
<1>2. IInv /\ [Next]_vars => IInv'
  BY StepTypes, ResourceStep, LeftStep, KeysStep DEF IInv
<1>3. QED
  BY <1>1, <1>2, PTL DEF Spec

(* The types hold, the client has sessions with one instance at a time, and    *)
(* the files of a session are there unless a step of the finally clause raised *)
(* before it was joined.                                                       *)
THEOREM SessionsAreServed == Spec => []SessionsServed
<1>1. IInv => SessionsServed
  <2> SUFFICES ASSUME IInv PROVE SessionsServed
    OBVIOUS
  <2>1. OneServer
    BY DEF IInv, PortInv, OneServer
  <2>2. TmpDirOutlivesSessions
    BY DEF IInv, PortInv, TmpDirInv, TmpDirOutlivesSessions
  <2>3. QED
    BY <2>1, <2>2 DEF IInv, SessionsServed
<1>2. QED
  BY <1>1, Inductive, PTL

(* However the instances ended, unless one was killed: no tmpDir, no runDir,   *)
(* no port, and no mounted disk but one whose session's end has raised.         *)
THEOREM NothingIsLeftBehind == Spec => []NothingLeftBehind
<1>1. IInv => NothingLeftBehind
  <2> SUFFICES ASSUME IInv, ~killed, \A d \in Daemons : pc[d] = "off"
               PROVE  tmpDirs = {} /\ runDir = "absent" /\ port \notin Daemons /\ (disk => unreleased)
    BY DEF NothingLeftBehind
  <2>1. tmpDirs = {} /\ runDir = "absent"
    BY DEF IInv, TypeOK, LeftInv
  <2>2. port \notin Daemons
    BY DEF IInv, PortInv
  <2>3. disk => unreleased
    BY DEF IInv, PortInv, LeftInv
  <2>4. QED
    BY <2>1, <2>2, <2>3
<1>2. QED
  BY <1>1, Inductive, PTL

(* An instance serves with a certificate and a key that belong together,       *)
(* unless writing a pair was cut short or two were written at once.            *)
THEOREM KeysDoBelongTogether == Spec => []KeysBelongTogether
<1>1. IInv => KeysBelongTogether
  BY DEF IInv, KeysInv, NobodyWrites, KeysBelongTogether
<1>2. QED
  BY <1>1, Inductive, PTL

-------------------------------------------------------------------------------
(* Daemon implements ServerLife.                                               *)

(* The control server of the instance that has the port. *)
PhaseAt(step) == IF step \in {"announce", "serving"} THEN "serving"
                 ELSE IF step \in {"avahiStop", "ctrlStop"} THEN "stopping"
                 ELSE "failed"

(* No instance has the port: there is no server. *)
Phase == IF port \in Daemons THEN PhaseAt(pc[port]) ELSE "off"

(* The one client of Daemon, if it has a session. *)
ActiveClients == IF \E d \in Daemons : session[d] # "none" THEN {"client"} ELSE {}

Service == INSTANCE ServerLife WITH
    Client <- {"client"}, phase <- Phase, active <- ActiveClients

(* A session is one of the instance that has the port. *)
LEMMA ActiveHasPort ==
  ASSUME PortInv, ActiveClients # {}
  PROVE  /\ port \in Daemons /\ session[port] # "none"
         /\ \A d \in Daemons \ {port} : session[d] = "none"
<1>1. PICK d \in Daemons : session[d] # "none"
  BY DEF ActiveClients
<1>2. port = d
  BY <1>1 DEF PortInv
<1>3. QED
  BY <1>1, <1>2 DEF PortInv

(* Every step of an instance is one of ServerLife, or none. *)
LEMMA ServiceSimulation ==
  ASSUME TypeOK, PortInv, [Next]_vars
  PROVE  [Service!Next]_(Service!vars)
<1> USE ProcessAssumption DEF TypeOK, Procs, Goto, Service!Next, Service!vars
<1>0. UNCHANGED <<Phase, ActiveClients>> => UNCHANGED Service!vars
  OBVIOUS
<1>1. ASSUME UNCHANGED session
      PROVE  UNCHANGED ActiveClients
  BY <1>1 DEF ActiveClients
(* A step of a process that does not have the port, or leaves its phase.       *)
<1>2. ASSUME NEW p \in Procs, NEW to, pc' = [pc EXCEPT ![p] = to],
             UNCHANGED <<port, session>>,
             port = p /\ p \in Daemons => PhaseAt(to) = PhaseAt(pc[p])
      PROVE  UNCHANGED <<Phase, ActiveClients>>
  <2>1. CASE port \in Daemons
    <3>1. PhaseAt(pc'[port]) = PhaseAt(pc[port])
      BY <1>2, <2>1
    <3>2. QED
      BY <1>1, <1>2, <2>1, <3>1 DEF Phase
  <2>2. CASE port \notin Daemons
    BY <1>1, <1>2, <2>2 DEF Phase
  <2>3. QED
    BY <2>1, <2>2
<1>3. ASSUME NEW p \in Procs, DumpKeys(p) \/ DumpFails(p)
      PROVE  UNCHANGED <<Phase, ActiveClients>>
  <2>1. pc[p] \in Writing /\ UNCHANGED <<port, session>>
    BY <1>3 DEF DumpKeys, DumpFails, Writing, clients
  <2>2. PICK to : pc' = [pc EXCEPT ![p] = to]
    BY <1>3 DEF DumpKeys, DumpFails
  <2>3. p \in Daemons => port # p
    BY <2>1 DEF PortInv, Writing
  <2>4. QED
    BY <1>2, <2>1, <2>2, <2>3
<1>4. ASSUME NEW d \in Daemons, Start(d) \/ ClearRunDir(d) \/ WritePidFile(d) \/ CheckKeys(d)
      PROVE  UNCHANGED <<Phase, ActiveClients>>
  <2>1. pc[d] \in {"off", "clear", "pid", "check"} /\ UNCHANGED <<port, session>>
    BY <1>4 DEF Start, ClearRunDir, WritePidFile, CheckKeys, clients
  <2>2. PICK to : pc' = [pc EXCEPT ![d] = to]
    BY <1>4 DEF Start, ClearRunDir, WritePidFile, CheckKeys, Generate
  <2>3. port # d
    BY <2>1 DEF PortInv
  <2>4. QED
    BY <1>2, <2>1, <2>2, <2>3
<1>5. ASSUME NEW d \in Daemons, Bind(d)
      PROVE  [Service!Next]_(Service!vars)
  <2>1. pc[d] = "bind" /\ session' = session
    BY <1>5 DEF Bind, clients
  <2>2. CASE port = "free"
    <3>1. port' = d /\ pc'[d] = "announce"
      BY <1>5, <2>2 DEF Bind
    <3>2. Phase = "off" /\ Phase' = "serving"
      BY <2>2, <3>1 DEF Phase, PhaseAt
    <3>3. QED
      BY <1>1, <2>1, <3>2 DEF Service!Listen
  <2>3. CASE port # "free"
    <3>1. port' = port /\ pc' = [pc EXCEPT ![d] = "avahiStop"] /\ port # d
      BY <1>5, <2>1, <2>3 DEF Bind, PortInv
    <3>2. QED
      BY <1>2, <2>1, <3>1
  <2>4. QED
    BY <2>2, <2>3
<1>6. ASSUME NEW d \in Daemons, Announce(d) \/ Quit(d)
      PROVE  [Service!Next]_(Service!vars)
  <2>1. pc[d] \in {"announce", "serving"} /\ port = d /\ UNCHANGED <<port, session>>
    BY <1>6 DEF Announce, Quit, PortInv, clients
  <2>2. pc'[d] \in {"serving", "avahiStop"}
    BY <1>6 DEF Announce, Quit
  <2>3. Phase = "serving" /\ Phase' \in {"serving", "stopping"}
    BY <2>1, <2>2 DEF Phase, PhaseAt
  <2>4. QED
    BY <1>1, <2>1, <2>3 DEF Service!Stop
<1>7. ASSUME NEW d \in Daemons, AvahiStop(d)
      PROVE  [Service!Next]_(Service!vars)
  <2>1. /\ pc[d] = "avahiStop" /\ UNCHANGED <<port, session>>
        /\ \E to \in {"outer", "ctrlStop"} : pc' = [pc EXCEPT ![d] = to]
    BY <1>7 DEF AvahiStop, Skip, clients
  <2>2. CASE port = d
    <3>1. pc'[d] \in {"outer", "ctrlStop"}
      BY <2>1
    <3>2. Phase = "stopping" /\ Phase' \in {"stopping", "failed"}
      BY <2>1, <2>2, <3>1 DEF Phase, PhaseAt
    <3>3. QED
      BY <1>1, <2>1, <3>2 DEF Service!Fail
  <2>3. CASE port # d
    BY <1>2, <2>1, <2>3
  <2>4. QED
    BY <2>2, <2>3
<1>8. ASSUME NEW d \in Daemons, CtrlStop(d)
      PROVE  [Service!Next]_(Service!vars)
  <2>1. pc[d] = "ctrlStop" /\ session' = session
    BY <1>8 DEF CtrlStop, clients
  <2>2. CASE Skip(d) /\ port' = port /\ port = d
    <3>1. pc'[d] = "outer"
      BY <2>1, <2>2 DEF Skip
    <3>2. Phase = "stopping" /\ Phase' = "failed"
      BY <2>1, <2>2, <3>1 DEF Phase, PhaseAt
    <3>3. QED
      BY <1>1, <2>1, <3>2 DEF Service!Fail
  <2>3. CASE session[d] = "none" /\ Release(d) /\ port = d
    <3>1. ActiveClients = {}
      BY <2>3, ActiveHasPort
    <3>2. port' \in {"free", "waiting"}
      BY <2>3 DEF Release
    <3>3. Phase = "stopping" /\ Phase' = "off"
      BY <2>1, <2>3, <3>2 DEF Phase, PhaseAt
    <3>4. QED
      BY <1>1, <2>1, <3>1, <3>3 DEF Service!Close
  <2>4. CASE port # d
    <3>1. port' = port /\ \E to \in {"clean", "outer"} : pc' = [pc EXCEPT ![d] = to]
      BY <1>8, <2>4 DEF CtrlStop, Release, Skip
    <3>2. QED
      BY <1>2, <2>1, <2>4, <3>1
  <2>5. QED
    BY <1>8, <2>2, <2>3, <2>4 DEF CtrlStop
<1>9. ASSUME NEW d \in Daemons, Clean(d) \/ Outer(d)
      PROVE  UNCHANGED <<Phase, ActiveClients>>
  <2>1. UNCHANGED <<port, session>>
    BY <1>9 DEF Clean, Outer, clients
  <2>2. CASE Clean(d)
    <3>1. pc' = [pc EXCEPT ![d] = "outer"] /\ port # d
      BY <2>2 DEF Clean, PortInv
    <3>2. QED
      BY <1>2, <2>1, <3>1
  <2>3. CASE Outer(d)
    <3>1. pc' = [pc EXCEPT ![d] = "exit"] /\ PhaseAt("exit") = PhaseAt(pc[d])
      BY <2>3 DEF Outer, PhaseAt
    <3>2. QED
      BY <1>2, <2>1, <3>1
  <2>4. QED
    BY <1>9, <2>2, <2>3
<1>10. ASSUME NEW d \in Daemons, Exit(d)
       PROVE  [Service!Next]_(Service!vars)
  <2>1. /\ pc[d] = "exit" /\ session[d] = "none"
        /\ session' = session /\ pc' = [pc EXCEPT ![d] = "off"]
    BY <1>10 DEF Exit, clients
  <2>2. CASE port = d
    <3>1. ActiveClients = {}
      BY <2>1, <2>2, ActiveHasPort
    <3>2. port' \in {"free", "waiting"}
      BY <1>10, <2>2 DEF Exit, Release
    <3>3. Phase = "failed" /\ Phase' = "off"
      BY <2>1, <2>2, <3>2 DEF Phase, PhaseAt
    <3>4. QED
      BY <1>1, <2>1, <3>1, <3>3 DEF Service!Close
  <2>3. CASE port # d
    <3>1. port' = port
      BY <1>10, <2>3 DEF Exit, Release
    <3>2. QED
      BY <1>2, <2>1, <2>3, <3>1
  <2>4. QED
    BY <2>2, <2>3
<1>11. ASSUME NEW d \in Daemons, OpenSession(d)
       PROVE  Service!Begin("client")
  <2>1. /\ pc[d] = "serving" /\ port = d /\ session[d] = "none"
        /\ session'[d] = "open" /\ UNCHANGED <<pc, port>>
    BY <1>11 DEF OpenSession, PortInv
  <2>2. ActiveClients = {}
    BY <2>1, ActiveHasPort
  <2>3. ActiveClients' = {"client"}
    BY <2>1 DEF ActiveClients
  <2>4. Phase = "serving" /\ Phase' = "serving"
    BY <2>1 DEF Phase, PhaseAt
  <2>5. QED
    BY <2>2, <2>3, <2>4 DEF Service!Begin
<1>12. ASSUME NEW d \in Daemons, MountDisk(d)
       PROVE  UNCHANGED <<Phase, ActiveClients>>
  <2>1. /\ session[d] # "none" /\ session'[d] # "none" /\ UNCHANGED <<pc, port>>
    BY <1>12 DEF MountDisk
  <2>2. ActiveClients = {"client"} /\ ActiveClients' = {"client"}
    BY <2>1 DEF ActiveClients
  <2>3. QED
    BY <2>1, <2>2 DEF Phase
<1>13. ASSUME NEW d \in Daemons, EndSession(d) \/ EndFails(d)
       PROVE  Service!End("client")
  <2>1. /\ session[d] # "none" /\ session' = [session EXCEPT ![d] = "none"]
        /\ UNCHANGED <<pc, port>>
    BY <1>13 DEF EndSession, EndFails
  <2>2. ActiveClients = {"client"}
    BY <2>1 DEF ActiveClients
  <2>3. \A e \in Daemons : session'[e] = "none"
    BY <2>1, <2>2, ActiveHasPort
  <2>4. ActiveClients' = {}
    BY <2>3 DEF ActiveClients
  <2>5. UNCHANGED Phase
    BY <2>1 DEF Phase
  <2>6. QED
    BY <2>2, <2>4, <2>5 DEF Service!End
<1>14. ASSUME NEW p \in Procs, Kill(p)
       PROVE  [Service!Next]_(Service!vars)
  <2>1. /\ pc' = [pc EXCEPT ![p] = "off"]
        /\ session' = [q \in Daemons |-> IF q = p THEN "none" ELSE session[q]]
        /\ port' \in IF port = p THEN {"free", "waiting"} ELSE {port}
    BY <1>14 DEF Kill, Release
  <2>2. CASE p \in Daemons /\ port = p
    <3>1. \A e \in Daemons : session'[e] = "none"
      BY <2>1, <2>2 DEF PortInv
    <3>2. ActiveClients' = {}
      BY <3>1 DEF ActiveClients
    <3>3. Phase # "off" /\ Phase' = "off"
      BY <2>1, <2>2 DEF Phase, PhaseAt
    <3>4. QED
      BY <3>2, <3>3 DEF Service!Kill
  <2>3. CASE p \notin Daemons
    <3>1. session' = session
      BY <2>1, <2>3
    <3>2. Phase' = Phase
      BY <2>1, <2>3 DEF Phase
    <3>3. QED
      BY <1>1, <3>1, <3>2
  <2>4. CASE p \in Daemons /\ port # p
    <3>1. session[p] = "none"
      BY <2>4 DEF PortInv
    <3>2. session' = session /\ port' = port
      BY <2>1, <2>4, <3>1
    <3>3. QED
      BY <1>2, <2>1, <2>4, <3>2
  <2>5. QED
    BY <2>2, <2>3, <2>4
<1>15. CASE Initialize
  <2>1. pc' = [pc EXCEPT ![Ctl] = "openCert"] /\ UNCHANGED <<port, session>>
    BY <1>15 DEF Initialize, Generate, clients
  <2>2. CASE port \in Daemons
    BY <1>2, <2>1, <2>2
  <2>3. CASE port \notin Daemons
    BY <1>1, <2>1, <2>3 DEF Phase
  <2>4. QED
    BY <2>2, <2>3
<1>16. CASE PortExpires
  <2>1. port \notin Daemons /\ port' \notin Daemons /\ session' = session
    BY <1>16 DEF PortExpires, clients
  <2>2. QED
    BY <1>1, <2>1 DEF Phase
<1>17. CASE UNCHANGED vars
  BY <1>1, <1>17 DEF vars, clients, Phase
<1>18. QED
  BY <1>3, <1>4, <1>5, <1>6, <1>7, <1>8, <1>9, <1>10, <1>11, <1>12, <1>13, <1>14, <1>15, <1>16,
     <1>17 DEF Next, MainStep

(* However many instances are started beside and after each other, whatever    *)
(* fails and whoever is killed, the clients see one server, as CtrlServer is.  *)
THEOREM InstancesKeepTheService == Spec => Service!Spec
<1>1. Init => Service!Init
  BY ProcessAssumption DEF Init, Service!Init, Phase, ActiveClients
<1>2. IInv /\ [Next]_vars => [Service!Next]_(Service!vars)
  BY ServiceSimulation DEF IInv
<1>3. QED
  BY <1>1, <1>2, Inductive, PTL DEF Spec, Service!Spec
===============================================================================
