--------------------------- MODULE CtrlSessionProofs ---------------------------
(***************************************************************************)
(* Proofs about CtrlSession, for any number of special directories, any    *)
(* choice of the lazily unmounted ones, and any client, plugin and kernel  *)
(* that the constants allow.                                               *)
(***************************************************************************)
EXTENDS CtrlSession, TLAPS

(* Where the thread can be in which stage and on whose behalf. *)
ControlInv ==
    /\ pc = "fini" => ctx \in {"init", "final"}
    /\ pc \in {"stop", "pluginEnd"} => /\ stage \in {"syncup", "working"}
                                       /\ ctx \in {"switch", "undo", "final"}
                                       /\ ctx = "switch" => stage = "syncup"
    /\ pc = "unprep" => stage = "working" /\ ctx \in {"prep", "undo", "final"}
    /\ pc = "prep" => stage = "working"
    /\ pc \in {"pluginStart", "startServ", "waitPort"} => stage \in {"syncup", "working"}

(* Only the services of the stage are held, the file reader with the two that  *)
(* start before it, and none while the stage's resources are built or torn     *)
(* down, nor once run() is past its end handlers, nor, unless the reader's     *)
(* stop() raised, at the end.                                                  *)
ServiceInv ==
    /\ services \subseteq ServicesOf(stage)
    /\ "catfile" \in services => services = ServicesOf("working")
    /\ pc \in {"pluginEnd", "unprep", "prep", "pluginStart", "del", "close"} => services = {}
    /\ pc = "fini" /\ ctx = "final" => services = {}
    /\ ServicesStopped

(* The mounts and the attributes of prepareRoot belong to the working stage. *)
WorkingInv ==
    /\ attrs => stage = "working" /\ loopDev
    /\ SpecialMounted => stage = "working"

IInv == TypeOK /\ ControlInv /\ ServiceInv /\ WorkingInv

(* On top of IInv: while no cleanup has raised, the resources are the stage's  *)
(* wherever the thread is not busy changing them,                              *)
Settled == /\ services = ServicesOf(stage)
           /\ attrs <=> (stage = "working")
           /\ \A d \in Special : dirs[d] = "mounted" <=> stage = "working"

SettledInv ==
    broke = {} =>
        /\ pc \in {"select", "load", "mount", "finishInit"} \/ (pc = "fini" /\ ctx = "init")
             => Settled
        /\ pc \in {"pluginStart", "startServ", "waitPort"} /\ stage = "working"
             => attrs /\ \A d \in Special : dirs[d] = "mounted"

(* and each step of the finally clause leaves its part behind clean.           *)
CleanInv ==
    /\ broke = {} /\ mounted => loopDev
    /\ pc = "fini" /\ ctx = "final" => ~SpecialMounted
    /\ pc \in {"del", "close"} => ~SpecialMounted /\ (broke = {} => ~mounted)
    /\ pc = "close" => entry = "removed"
    /\ CleanDeath

-------------------------------------------------------------------------------
(* A tree in which nothing is mounted is a tree. *)
LEMMA PlainTrees == PlainTree \subseteq [Special -> {"absent", "plain", "mounted"}]
  BY DEF PlainTree

(* Every variable keeps its type: TypeOK is inductive on its own. *)
THEOREM TypeCorrect == Spec => []TypeOK
<1>1. Init => TypeOK
  BY PlainTrees DEF Init, TypeOK
<1>2. TypeOK /\ [Next]_vars => TypeOK'
  <2> SUFFICES ASSUME TypeOK, [Next]_vars PROVE TypeOK'
    OBVIOUS
  <2> USE DEF TypeOK
  <2>1. CASE Environment \/ UNCHANGED vars
    <3>1. CASE ClientSync
      BY <3>1, PlainTrees DEF ClientSync, request, shared
    <3>2. CASE ClientLeaves
      <4>1. connected' \in BOOLEAN
        BY <3>2 DEF ClientLeaves
      <4>2. QED
        BY <3>2, <4>1 DEF ClientLeaves, request, disk, shared
    <3>3. CASE Register
      BY <3>3 DEF Register, request, disk, shared
    <3>4. CASE UNCHANGED vars
      BY <3>4 DEF vars, request, disk, shared
    <3>5. QED
      BY <2>1, <3>1, <3>2, <3>3, <3>4 DEF Environment
  <2>2. CASE Request
    BY <2>2, ZenonT(40) DEF Request, RecvInit, RecvSyncup, RecvWorking, RecvOutOfOrder, RecvQuit,
                            RecvOther, Receive, Accepted, Following, ReplyError, Goto, request,
                            disk, shared
  <2>3. CASE ThreadStep
    <3>1. CASE SendReply \/ PeerGone
      BY <3>1 DEF SendReply, PeerGone, Goto, request, disk, shared
    <3>2. CASE LoadPlugin \/ FinishInit
      BY <3>2, ZenonT(40) DEF LoadPlugin, FinishInit, ReplyOk, Goto, NoReply, request, disk,
                              shared
    <3>3. CASE Mount
      BY <3>3, PlainTrees, ZenonT(40) DEF Mount, MountFails, MountSucceeds, LoopDeviceMissing,
                                          Goto, NoReply, disk, shared
    <3>4. CASE Fini
      BY <3>4, PlainTrees, ZenonT(40) DEF Fini, FiniReturns, FiniRaises, Unmounted, ReplyError,
                                          Goto, NoReply, disk, shared
    <3>5. CASE StopServices
      BY <3>5, ZenonT(40) DEF StopServices, StopReader, EndAbandoned, ReplyError, Goto, NoReply,
                              disk, shared
    <3>6. CASE PluginStageEnd
      BY <3>6, ZenonT(40) DEF PluginStageEnd, EndReturns, EndRaises, EndAbandoned, ReplyError, Goto, NoReply,
                              disk, shared
    <3>7. CASE UnPrepareRoot
      <4>1. dirs' \in [Special -> {"absent", "plain", "mounted"}] /\ attrs' \in BOOLEAN
            /\ UNCHANGED <<loopDev, mounted>>
        BY <3>7 DEF UnPrepareRoot, UnPrepareDone, UnPrepareStuck, UnPrepareRefused, Bare, Special, disk
      <4>2. QED
        BY <3>7, <4>1, ZenonT(40) DEF UnPrepareRoot, EndReturns, EndRaises, EndAbandoned, ReplyError, Goto,
                                      NoReply, shared
    <3>8. CASE PrepareRoot
      BY <3>8, ZenonT(40) DEF PrepareRoot, PrepareRefused, PrepareRedundant, PrepareFails,
                              PrepareSucceeds, Goto, NoReply, Special, disk, shared
    <3>9. CASE PluginStageStart
      BY <3>9 DEF PluginStageStart, Goto, NoReply, disk, shared
    <3>10. ASSUME NEW s \in {"rsyncUp", "rsyncDown", "ssh", "catfile"}, StartService(s)
           PROVE TypeOK'
      BY <3>10, ZenonT(40) DEF StartService, StartEnds, ReplyOk, Goto, NoReply, disk, shared
    <3>11. CASE Final \/ Del \/ Close
      BY <3>11 DEF Final, Del, Close, Goto, request, disk, shared
    <3>12. QED
      BY <2>3, <3>1, <3>2, <3>3, <3>4, <3>5, <3>6, <3>7, <3>8, <3>9, <3>10, <3>11 DEF ThreadStep
  <2>4. CASE LoopRaises
    BY <2>4 DEF LoopRaises, Goto, request, disk, shared
  <2>5. ASSUME NEW s \in {"rsyncUp", "rsyncDown", "ssh", "catfile"}, PortAnswered(s)
        PROVE TypeOK'
    BY <2>5, ZenonT(40) DEF PortAnswered, StartEnds, ReplyOk, Goto, NoReply, disk, shared
  <2>6. QED
    BY <2>1, <2>2, <2>3, <2>4, <2>5 DEF Next, Over, Answer
<1>3. QED
  BY <1>1, <1>2, PTL DEF Spec

-------------------------------------------------------------------------------
(* The control part of IInv holds initially and each step preserves it. *)
LEMMA InitInv == Init => ControlInv /\ ServiceInv /\ WorkingInv
  BY DEF Init, ControlInv, ServiceInv, WorkingInv, ServicesStopped, ServicesOf, SpecialMounted,
         PlainTree

(* Each step preserves the control part. *)
LEMMA StepInv ==
  ASSUME TypeOK, ControlInv, ServiceInv, WorkingInv, [Next]_vars
  PROVE  ControlInv' /\ ServiceInv' /\ WorkingInv'
<1> USE DEF ControlInv, ServiceInv, ServicesStopped, WorkingInv
<1>1. ASSUME NEW s \in {"rsyncUp", "rsyncDown", "ssh", "catfile"},
             pc \in {"startServ", "waitPort"}, NextService(s),
             StartEnds(s) \/ (UNCHANGED services /\ Goto("waitPort", "none") /\ NoReply),
             UNCHANGED <<stage, bQuit, broke, connected, plugin, disk, shared>>
      PROVE  ControlInv' /\ ServiceInv' /\ WorkingInv'
  <2>1. pc' \in {"select", "startServ", "waitPort"} \/ (pc' = "stop" /\ ctx' = "undo")
    BY <1>1 DEF StartEnds, ReplyOk, Goto
  <2>2. services' \subseteq ServicesOf(stage)
        /\ ("catfile" \in services' => services' = ServicesOf("working"))
    BY <1>1 DEF StartEnds, NextService, Before, ServicesOf
  <2>3. QED
    BY <1>1, <2>1, <2>2 DEF SpecialMounted, ServicesStopped, ServicesOf, disk, shared
<1>2. CASE Environment
  <2>1. CASE ClientSync
    BY <2>1 DEF ClientSync, SpecialMounted, PlainTree, request, shared
  <2>2. CASE ClientLeaves
    BY <2>2 DEF ClientLeaves, SpecialMounted, request, disk, shared
  <2>3. CASE Register
    BY <2>3 DEF Register, SpecialMounted, request, disk, shared
  <2>4. QED
    BY <1>2, <2>1, <2>2, <2>3 DEF Environment
<1>3. CASE Request
  <2>1. CASE RecvInit \/ RecvQuit \/ RecvOther
    BY <2>1 DEF RecvInit, RecvQuit, RecvOther, Receive, Goto, SpecialMounted, request, disk, shared
  <2>2. CASE RecvSyncup
    BY <2>2 DEF RecvSyncup, Receive, Goto, ServicesOf, SpecialMounted, disk, shared
  <2>3. CASE RecvWorking
    BY <2>3 DEF RecvWorking, Receive, Goto, SpecialMounted, disk, shared
  <2>4. CASE RecvOutOfOrder
    BY <2>4 DEF RecvOutOfOrder, Receive, ReplyError, Goto, SpecialMounted, disk, shared
  <2>5. QED
    BY <1>3, <2>1, <2>2, <2>3, <2>4 DEF Request
<1>4. CASE ThreadStep
  <2>1. CASE SendReply \/ PeerGone
    BY <2>1 DEF SendReply, PeerGone, Goto, SpecialMounted, request, disk, shared
  <2>2. CASE LoadPlugin \/ FinishInit
    <3>1. CASE LoadPlugin
      BY <3>1 DEF LoadPlugin, Goto, SpecialMounted, disk
    <3>2. CASE FinishInit
      BY <3>2 DEF FinishInit, ReplyOk, Goto, SpecialMounted, disk
    <3>3. QED
      BY <2>2, <3>1, <3>2
  <2>3. CASE Mount
    BY <2>3 DEF Mount, MountFails, MountSucceeds, LoopDeviceMissing, Goto, NoReply,
                SpecialMounted, PlainTree, disk, shared
  <2>4. CASE FiniReturns
    BY <2>4 DEF FiniReturns, Unmounted, ReplyError, Goto, NoReply, SpecialMounted, PlainTree,
                disk, shared
  <2>5. CASE FiniRaises
    BY <2>5 DEF FiniRaises, Goto, NoReply, SpecialMounted, disk, shared
  <2>6. CASE StopServices
    <3>1. CASE services' = services \ Stopped /\ Goto("pluginEnd", ctx) /\ UNCHANGED stage
      BY <2>6, <3>1 DEF StopServices, Stopped, ServicesOf, ServicesStopped, Goto, SpecialMounted,
                        disk
    <3>2. CASE stage = "working" /\ StopReader
      <4>1. services' = {"ssh", "rsyncDown"} /\ "catfileStop" \in broke' /\ stage' = "working"
        BY <3>2 DEF StopReader, EndAbandoned, ServicesOf
      <4>2. pc' \in {"select", "dead"} /\ UNCHANGED disk
        BY <2>6, <3>2 DEF StopServices, StopReader, EndAbandoned, ReplyError, Goto
      <4>3. QED
        BY <4>1, <4>2 DEF ServicesOf, ServicesStopped, SpecialMounted, disk
    <3>3. QED
      BY <2>6, <3>1, <3>2 DEF StopServices
  <2>7. CASE PluginStageEnd
    BY <2>7 DEF PluginStageEnd, EndReturns, EndRaises, EndAbandoned, ServicesOf, ReplyError, Goto, NoReply,
                SpecialMounted, disk, shared
  <2>8. CASE UnPrepareRoot
    <3>1. /\ pc = "unprep" /\ stage = "working" /\ services' = {}
          /\ ctx \in {"prep", "undo", "final"}
      BY <2>8 DEF UnPrepareRoot
    <3>2. CASE UnPrepareDone
      <4>1. ~SpecialMounted' /\ ~attrs'
        BY <3>2 DEF UnPrepareDone, SpecialMounted, Bare
      <4>2. QED
        BY <2>8, <3>1, <4>1 DEF UnPrepareRoot, EndReturns, EndRaises, EndAbandoned, ReplyError, Goto, NoReply
    <3>3. CASE UnPrepareStuck \/ UnPrepareRefused
      <4>1. attrs' => loopDev'
        BY <3>3 DEF UnPrepareStuck, UnPrepareRefused, disk
      <4>2. CASE ctx = "prep"
        BY <2>8, <3>1, <4>1, <4>2 DEF UnPrepareRoot, Goto
      <4>3. CASE ctx # "prep" /\ EndRaises
        BY <3>1, <4>1, <4>3 DEF EndRaises, EndAbandoned, ReplyError, Goto
      <4>4. CASE ctx # "prep" /\ UnPrepareDone
        BY <4>4, <3>3 DEF UnPrepareDone, UnPrepareStuck, UnPrepareRefused, disk
      <4>5. QED
        BY <2>8, <4>2, <4>3, <4>4 DEF UnPrepareRoot
    <3>4. QED
      BY <2>8, <3>2, <3>3 DEF UnPrepareRoot
  <2>9. CASE PrepareRoot
    BY <2>9 DEF PrepareRoot, PrepareRefused, PrepareRedundant, PrepareFails, PrepareSucceeds,
                Goto, NoReply, disk, shared
  <2>10. CASE PluginStageStart
    BY <2>10 DEF PluginStageStart, Goto, NoReply, SpecialMounted, disk, shared
  <2>11. ASSUME NEW s \in {"rsyncUp", "rsyncDown", "ssh", "catfile"}, StartService(s)
         PROVE  ControlInv' /\ ServiceInv' /\ WorkingInv'
    BY <2>11, <1>1 DEF StartService
  <2>12. CASE Final
    BY <2>12 DEF Final, Goto, ServicesOf, SpecialMounted, TypeOK, request, disk, shared
  <2>13. CASE Del \/ Close
    BY <2>13 DEF Del, Close, Goto, SpecialMounted, request, disk, shared
  <2>14. QED
    BY <1>4, <2>1, <2>2, <2>3, <2>4, <2>5, <2>6, <2>7, <2>8, <2>9, <2>10, <2>11, <2>12, <2>13
       DEF ThreadStep, Fini
<1>5. CASE LoopRaises
  BY <1>5 DEF LoopRaises, Goto, SpecialMounted, request, disk, shared
<1>6. CASE UNCHANGED vars
  BY <1>6 DEF SpecialMounted, ServicesStopped, vars, request, disk, shared
<1>7. CASE Answer
  BY <1>7, <1>1 DEF Answer, PortAnswered
<1>8. QED
  BY <1>2, <1>3, <1>4, <1>5, <1>6, <1>7 DEF Next, Over

(* The inductive invariant. *)
THEOREM Inductive == Spec => []IInv
<1>1. Init => ControlInv /\ ServiceInv /\ WorkingInv
  BY InitInv
<1>2. TypeOK /\ (ControlInv /\ ServiceInv /\ WorkingInv) /\ [Next]_vars
        => (ControlInv /\ ServiceInv /\ WorkingInv)'
  BY StepInv
<1>3. QED
  BY <1>1, <1>2, TypeCorrect, PTL DEF Spec, IInv

(* A session that is over has stopped every service of its client, but for     *)
(* sshd and the read-only rsyncd behind a catfileServ.stop() that raised.      *)
THEOREM ServicesEnd == Spec => []ServicesStopped
<1>1. IInv => ServicesStopped
  BY DEF IInv, ServiceInv
<1>2. QED
  BY <1>1, Inductive, PTL

(* The writable upload daemon never runs over the host's own directories, nor  *)
(* beside the daemons of the working stage.                                    *)
THEOREM UploadIsExclusive == Spec => []UploadExclusive
<1>1. IInv => UploadExclusive
  BY DEF IInv, TypeOK, ServiceInv, WorkingInv, ServicesOf, UploadExclusive
<1>2. QED
  BY <1>1, Inductive, PTL

-------------------------------------------------------------------------------
(* Every step of the session is a step of its lease, or none. *)
LEMMA LeaseStep == IInv /\ [Next]_vars => [Lease!Next]_Lease!vars
<1> SUFFICES ASSUME IInv, [Next]_vars PROVE [Lease!Next]_Lease!vars
  OBVIOUS
<1> USE DEF IInv, ServiceInv, ControlInv, Lease!vars
<1>1. CASE pc' # "dead" /\ pc # "dead" /\ UNCHANGED <<stage, services>>
  BY <1>1
<1>2. CASE UNCHANGED <<pc, stage, services>>
  BY <1>2
<1>3. ASSUME pc # "dead", pc' = "dead", services = {}, UNCHANGED services
      PROVE  Lease!Next
  BY <1>3 DEF TypeOK, Lease!Next, Lease!Close
<1>4. ASSUME pc # "dead", pc' # "dead", services = {}, UNCHANGED services,
             \/ stage = "none" /\ stage' = "syncup"
             \/ stage = "syncup" /\ stage' \in {"working", "none"}
             \/ stage = "working" /\ stage' = "none"
      PROVE  Lease!Next
  BY <1>4 DEF Lease!Next, Lease!Change
<1>5. ASSUME NEW s \in {"rsyncUp", "rsyncDown", "ssh", "catfile"}, NextService(s),
             pc \in {"startServ", "waitPort"}, UNCHANGED stage,
             StartEnds(s) \/ (UNCHANGED services /\ pc' = "waitPort")
      PROVE  [Lease!Next]_Lease!vars
  <2>1. pc' # "dead"
    BY <1>5 DEF StartEnds, ReplyOk, Goto
  <2>2. CASE services' = services
    BY <1>5, <2>1, <2>2, <1>1
  <2>3. CASE services' = services \cup {s}
    BY <1>5, <2>1, <2>3 DEF NextService, ServicesOf, Lease!ServicesOf, Lease!Next, Lease!Grant
  <2>4. QED
    BY <1>5, <2>2, <2>3 DEF StartEnds
<1>6. CASE Environment \/ LoopRaises \/ UNCHANGED vars
  BY <1>6, <1>1, <1>2 DEF Environment, ClientLeaves, ClientSync, Register, LoopRaises, Goto, vars
<1>7. CASE Request
  <2>1. CASE RecvSyncup
    BY <2>1, <1>4 DEF RecvSyncup, Receive, Goto, ServicesOf
  <2>2. CASE RecvInit \/ RecvWorking \/ RecvOutOfOrder \/ RecvQuit \/ RecvOther
    BY <2>2, <1>1 DEF RecvInit, RecvWorking, RecvOutOfOrder, RecvQuit, RecvOther, Receive,
                      ReplyError, Goto
  <2>3. QED
    BY <1>7, <2>1, <2>2 DEF Request
<1>8. CASE ThreadStep
  <2>1. CASE SendReply \/ PeerGone \/ Final
    BY <2>1, <1>1 DEF SendReply, PeerGone, Final, Goto
  <2>2. CASE LoadPlugin \/ Mount \/ FinishInit
    BY <2>2, <1>1 DEF LoadPlugin, Mount, MountFails, MountSucceeds, LoopDeviceMissing, FinishInit,
                      ReplyOk, Goto
  <2>3. CASE FiniReturns
    BY <2>3, <1>1 DEF FiniReturns, ReplyError, Goto
  <2>4. CASE FiniRaises
    BY <2>4, <1>1, <1>3 DEF FiniRaises, Goto
  <2>5. CASE StopServices
    <3>1. CASE services' = services \ Stopped /\ Goto("pluginEnd", ctx) /\ UNCHANGED stage
      <4>1. services' = {}
        BY <2>5, <3>1 DEF StopServices, Stopped, ServicesOf
      <4>2. CASE services = {}
        BY <2>5, <3>1, <4>1, <4>2, <1>1 DEF StopServices, Goto
      <4>3. CASE services # {}
        BY <2>5, <3>1, <4>1, <4>3 DEF StopServices, Goto, Lease!Next, Lease!Withdraw
      <4>4. QED
        BY <4>2, <4>3
    <3>2. CASE stage = "working" /\ StopReader
      <4>1. /\ services = Lease!ServicesOf("working")
            /\ services' = services \ {"catfile"}
            /\ stage' = "working"
            /\ pc' \in {"select", "dead"}
        BY <3>2 DEF StopReader, EndAbandoned, ReplyError, Goto, ServicesOf, Lease!ServicesOf
      <4>2. QED
        BY <2>5, <3>2, <4>1 DEF StopServices, Lease!Next, Lease!WithdrawReader
    <3>3. QED
      BY <2>5, <3>1, <3>2 DEF StopServices
  <2>6. ASSUME pc \in {"pluginEnd", "unprep"}, EndReturns, stage \in {"syncup", "working"},
               ctx = "switch" => stage = "syncup", UNCHANGED services
        PROVE  [Lease!Next]_Lease!vars
    BY <2>6, <1>1, <1>4 DEF EndReturns, ReplyError, Goto
  <2>7. ASSUME pc \in {"pluginEnd", "unprep"}, EndRaises, UNCHANGED services
        PROVE  [Lease!Next]_Lease!vars
    BY <2>7, <1>1, <1>3 DEF EndRaises, EndAbandoned, ReplyError, Goto
  <2>8. CASE PluginStageEnd
    BY <2>8, <2>6, <2>7, <1>1 DEF PluginStageEnd, Goto
  <2>9. CASE UnPrepareRoot
    BY <2>9, <2>6, <2>7, <1>1 DEF UnPrepareRoot, Goto
  <2>10. CASE PrepareRoot \/ PluginStageStart
    BY <2>10, <1>1 DEF PrepareRoot, PrepareRefused, PrepareRedundant, PrepareFails,
                       PrepareSucceeds, PluginStageStart, Goto
  <2>11. ASSUME NEW s \in {"rsyncUp", "rsyncDown", "ssh", "catfile"}, StartService(s)
         PROVE  [Lease!Next]_Lease!vars
    BY <2>11, <1>5 DEF StartService, Goto
  <2>12. CASE Del \/ Close
    BY <2>12, <1>1, <1>3 DEF Del, Close, Goto
  <2>13. QED
    BY <1>8, <2>1, <2>2, <2>3, <2>4, <2>5, <2>8, <2>9, <2>10, <2>11, <2>12 DEF ThreadStep, Fini
<1>9. CASE Answer
  BY <1>9, <1>5 DEF Answer, PortAnswered
<1>10. QED
  BY <1>6, <1>7, <1>8, <1>9 DEF Next, Over

(* The session implements its lease: services only in their stage, all         *)
(* withdrawn before the stage changes and, unless the file reader is lost on   *)
(* the way, before the session ends; none granted afterwards.                  *)
THEOREM Refinement == Spec => LeaseSpec
<1>1. Init => Lease!Init
  BY DEF Init, Lease!Init
<1>2. QED
  BY <1>1, LeaseStep, Inductive, PTL DEF Spec, LeaseSpec, Lease!Spec

-------------------------------------------------------------------------------
(* SettledInv is preserved.  Most steps keep services, attrs and dirs and go   *)
(* from one settled place to another, or leave the settled places.             *)
LEMMA SettledStep ==
  ASSUME IInv, SettledInv, [Next]_vars
  PROVE  SettledInv'
<1> SUFFICES ASSUME broke' = {} PROVE SettledInv'
  BY DEF SettledInv
<1> DEFINE Places == pc \in {"select", "load", "mount", "finishInit"} \/ (pc = "fini" /\ ctx = "init")
           Prepared == pc \in {"pluginStart", "startServ", "waitPort"} /\ stage = "working"
<1>1. IInv /\ SettledInv
  OBVIOUS
<1> USE DEF IInv, ControlInv, SettledInv
<1>2. CASE ~Places' /\ ~Prepared'
  BY <1>2
<1>3. CASE broke = {} /\ Places /\ ~Prepared' /\ UNCHANGED <<services, stage, attrs, dirs>>
  BY <1>3 DEF Settled
<1>4. CASE broke = {} /\ Prepared /\ ~Places' /\ UNCHANGED <<attrs, dirs>>
  BY <1>4
<1>5. CASE UNCHANGED <<pc, ctx, stage, broke, services, attrs, dirs>>
  BY <1>5 DEF Settled
<1>6. ASSUME NEW s \in {"rsyncUp", "rsyncDown", "ssh", "catfile"},
              pc \in {"startServ", "waitPort"}, UNCHANGED <<stage, broke, attrs, dirs>>,
              StartEnds(s) \/ Goto("waitPort", "none")
       PROVE  SettledInv'
  <2>1. broke = {}
    BY <1>6
  <2>2. CASE Goto("startServ", "none") \/ Goto("waitPort", "none") \/ Goto("stop", "undo")
    BY <1>6, <2>1, <2>2, <1>2, <1>4 DEF Goto
  <2>3. CASE services' = ServicesOf(stage) /\ ReplyOk
    <3>1. attrs <=> (stage = "working")
      BY <1>6, <2>1 DEF WorkingInv
    <3>2. \A d \in Special : dirs[d] = "mounted" <=> stage = "working"
      BY <1>6, <2>1 DEF WorkingInv, SpecialMounted
    <3>3. QED
      BY <1>6, <2>1, <2>3, <3>1, <3>2 DEF ReplyOk, Goto, Settled
  <2>4. QED
    BY <1>6, <2>2, <2>3 DEF StartEnds
<1>7. CASE Environment
  <2>1. CASE ClientSync
    <3>1. \A d \in Special : dirs[d] # "mounted" /\ dirs'[d] # "mounted"
      BY <2>1 DEF ClientSync, SpecialMounted, PlainTree
    <3>2. QED
      BY <2>1, <3>1 DEF ClientSync, Settled, ServiceInv, request, shared
  <2>2. CASE ClientLeaves \/ Register
    BY <2>2, <1>5 DEF ClientLeaves, Register, disk
  <2>3. QED
    BY <1>7, <2>1, <2>2 DEF Environment
<1>8. CASE Request
  <2>1. CASE RecvInit \/ RecvOutOfOrder \/ RecvQuit
    BY <2>1, <1>3 DEF RecvInit, RecvOutOfOrder, RecvQuit, Receive, ReplyError, Goto, disk
  <2>2. CASE RecvSyncup \/ RecvWorking \/ RecvOther
    BY <2>2, <1>2 DEF RecvSyncup, RecvWorking, RecvOther, Receive, Goto
  <2>3. QED
    BY <1>8, <2>1, <2>2 DEF Request
<1>9. CASE ThreadStep
  <2>1. CASE SendReply
    BY <2>1, <1>2, <1>3 DEF SendReply, Goto, disk
  <2>2. CASE PeerGone \/ Final \/ StopServices \/ Del \/ Close
    <3>1. CASE PeerGone \/ Final
      BY <3>1, <1>2 DEF PeerGone, Final, Goto
    <3>2. CASE StopServices \/ Del \/ Close
      BY <3>2, <1>2 DEF StopServices, StopReader, EndAbandoned, Del, Close, Goto
    <3>3. QED
      BY <2>2, <3>1, <3>2
  <2>3. CASE LoadPlugin \/ FinishInit
    BY <2>3, <1>3 DEF LoadPlugin, FinishInit, ReplyOk, Goto, disk
  <2>4. CASE Mount
    <3>1. CASE MountFails
      BY <2>4, <3>1, <1>3 DEF Mount, MountFails, Goto, disk
    <3>2. CASE MountSucceeds
      <4>1. broke = {} /\ stage # "working" /\ Settled
        BY <2>4, <3>2 DEF Mount, MountSucceeds, Settled, WorkingInv
      <4>2. \A d \in Special : dirs'[d] # "mounted"
        BY <3>2 DEF MountSucceeds, PlainTree
      <4>3. QED
        BY <2>4, <3>2, <4>1, <4>2 DEF Mount, MountSucceeds, Settled, Goto
    <3>3. CASE LoopDeviceMissing
      BY <2>4, <3>3, <1>3 DEF Mount, LoopDeviceMissing, Goto, disk
    <3>4. QED
      BY <2>4, <3>1, <3>2, <3>3 DEF Mount
  <2>5. CASE FiniReturns
    <3>1. CASE ctx = "final"
      BY <2>5, <3>1, <1>2 DEF FiniReturns, Goto
    <3>2. CASE ctx = "init" /\ UNCHANGED disk
      BY <2>5, <3>2, <1>3 DEF FiniReturns, ReplyError, Goto, disk
    <3>3. CASE ctx = "init" /\ ~SpecialMounted /\ dirs' \in PlainTree /\ UNCHANGED attrs
      <4>1. broke = {} /\ Settled /\ pc' = "select" /\ UNCHANGED <<services, stage>>
        BY <2>5, <3>3 DEF FiniReturns, ReplyError, Goto
      <4>2. stage # "working"
        BY <4>1, <3>3, SpecialAssumption DEF Settled, SpecialMounted, Special
      <4>3. \A d \in Special : dirs'[d] # "mounted"
        BY <3>3 DEF PlainTree
      <4>4. QED
        BY <4>1, <4>2, <4>3, <3>3 DEF Settled
    <3>4. QED
      BY <2>5, <3>1, <3>2, <3>3 DEF FiniReturns, Unmounted
  <2>6. CASE FiniRaises
    BY <2>6 DEF FiniRaises
  <2>7. CASE EndRaises
    BY <2>7 DEF EndRaises, EndAbandoned
  <2>8. CASE PluginStageEnd
    <3>1. CASE stage = "syncup" /\ EndReturns
      <4>1. \A d \in Special : dirs[d] # "mounted"
        BY <3>1 DEF WorkingInv, SpecialMounted
      <4>2. services' = {} /\ ~attrs /\ UNCHANGED <<attrs, dirs>>
        BY <2>8, <3>1 DEF PluginStageEnd, ServiceInv, WorkingInv, disk
      <4>3. QED
        BY <3>1, <4>1, <4>2, <1>2 DEF EndReturns, ReplyError, Goto, Settled, ServicesOf
    <3>2. CASE Goto("unprep", ctx)
      BY <3>2, <1>2 DEF Goto
    <3>3. QED
      BY <2>8, <2>7, <3>1, <3>2 DEF PluginStageEnd
  <2>9. CASE UnPrepareRoot
    <3>1. CASE ctx = "prep"
      BY <2>9, <3>1, <1>2 DEF UnPrepareRoot, Goto
    <3>2. CASE UnPrepareDone /\ EndReturns
      <4>1. ~attrs' /\ \A d \in Special : dirs'[d] # "mounted"
        BY <3>2 DEF UnPrepareDone, Bare
      <4>2. services' = {} /\ stage = "working" /\ pc = "unprep"
        BY <2>9 DEF UnPrepareRoot, ServiceInv
      <4>3. QED
        BY <3>2, <4>1, <4>2, <1>2 DEF EndReturns, ReplyError, Goto, Settled, ServicesOf
    <3>3. QED
      BY <2>9, <2>7, <3>1, <3>2 DEF UnPrepareRoot
  <2>10. CASE PrepareRoot
    <3>1. CASE PrepareSucceeds
      <4>1. attrs' /\ \A d \in Special : dirs'[d] = "mounted"
        BY <3>1 DEF PrepareSucceeds
      <4>2. QED
        BY <2>10, <3>1, <4>1 DEF PrepareRoot, PrepareSucceeds, Goto
    <3>2. CASE PrepareRefused \/ PrepareRedundant \/ PrepareFails
      BY <3>2, <1>2 DEF PrepareRefused, PrepareRedundant, PrepareFails, Goto
    <3>3. QED
      BY <2>10, <3>1, <3>2 DEF PrepareRoot
  <2>11. CASE PluginStageStart
    BY <2>11, <1>2, <1>4 DEF PluginStageStart, Goto, disk
  <2>12. ASSUME NEW s \in {"rsyncUp", "rsyncDown", "ssh", "catfile"}, StartService(s)
         PROVE  SettledInv'
    BY <2>12, <1>6 DEF StartService, disk
  <2>13. QED
    BY <1>9, <2>1, <2>2, <2>3, <2>4, <2>5, <2>6, <2>8, <2>9, <2>10, <2>11, <2>12
       DEF ThreadStep, Fini
<1>10. CASE LoopRaises
  BY <1>10, <1>2 DEF LoopRaises, Goto
<1>11. CASE UNCHANGED vars
  BY <1>11, <1>5 DEF vars, disk
<1>12. CASE Answer
  BY <1>12, <1>6 DEF Answer, PortAnswered, disk
<1>13. QED
  BY <1>7, <1>8, <1>9, <1>10, <1>11, <1>12 DEF Next, Over

(* Whenever the thread waits for a request and no cleanup has raised, the      *)
(* session holds exactly what its stage needs.                                 *)
THEOREM StageIsSettled == Spec => []SettledStage
<1>1. Init => SettledInv
  BY DEF Init, SettledInv, Settled, ServicesOf, PlainTree
<1>2. IInv /\ SettledInv /\ [Next]_vars => SettledInv'
  BY SettledStep
<1>3. SettledInv => SettledStage
  BY DEF SettledInv, Settled, SettledStage
<1>4. QED
  BY <1>1, <1>2, <1>3, Inductive, PTL DEF Spec

-------------------------------------------------------------------------------
(* CleanInv is preserved: only the steps of the finally clause lead to its     *)
(* places, and the disk is mounted only with loopDev set.                      *)
LEMMA CleanStep ==
  ASSUME IInv, CleanInv, [Next]_vars
  PROVE  CleanInv'
<1> USE DEF IInv, CleanInv, CleanDeath
<1>1. ASSUME pc' \notin {"fini", "del", "close", "dead"}, UNCHANGED <<broke, loopDev, mounted>>
      PROVE  CleanInv'
  BY <1>1
<1>2. ASSUME pc' = "fini", ctx' = "final" => ~SpecialMounted',
             broke' = {} => broke = {}, UNCHANGED <<loopDev, mounted>>
      PROVE  CleanInv'
  BY <1>2
<1>3. ASSUME pc' = "dead", broke' # {}
      PROVE  CleanInv'
  BY <1>3
<1>4. CASE Environment
  <2>1. CASE ClientSync
    <3>1. ~SpecialMounted'
      BY <2>1 DEF ClientSync, SpecialMounted, PlainTree
    <3>2. QED
      BY <2>1, <3>1 DEF ClientSync, shared
  <2>2. CASE ClientLeaves
    BY <2>2 DEF ClientLeaves, SpecialMounted, disk, shared
  <2>3. CASE Register
    BY <2>3 DEF Register, SpecialMounted, disk
  <2>4. QED
    BY <1>4, <2>1, <2>2, <2>3 DEF Environment
<1>5. CASE Request
  <2>1. CASE RecvInit \/ RecvSyncup \/ RecvWorking
    BY <2>1, <1>1 DEF RecvInit, RecvSyncup, RecvWorking, Receive, Goto, disk
  <2>2. CASE RecvOutOfOrder \/ RecvQuit \/ RecvOther
    BY <2>2, <1>1 DEF RecvOutOfOrder, RecvQuit, RecvOther, Receive, ReplyError, Goto, disk
  <2>3. QED
    BY <1>5, <2>1, <2>2 DEF Request
<1>6. CASE ThreadStep
  <2>1. CASE SendReply \/ PeerGone
    BY <2>1, <1>1 DEF SendReply, PeerGone, Goto, disk
  <2>2. CASE LoadPlugin
    BY <2>2, <1>1, <1>2 DEF LoadPlugin, Goto, disk
  <2>3. CASE FinishInit
    BY <2>3, <1>1, <1>2 DEF FinishInit, ReplyOk, Goto, disk
  <2>4. CASE Mount
    <3>1. CASE MountFails
      BY <3>1, <1>2 DEF MountFails, Goto, disk
    <3>2. CASE MountSucceeds
      BY <3>2 DEF MountSucceeds, Goto
    <3>3. CASE LoopDeviceMissing
      BY <3>3, <1>2 DEF LoopDeviceMissing, Goto, disk
    <3>4. QED
      BY <2>4, <3>1, <3>2, <3>3 DEF Mount
  <2>5. CASE FiniReturns
    <3>1. CASE ctx = "init" /\ ReplyError
      BY <2>5, <3>1 DEF FiniReturns, Unmounted, ReplyError, Goto, disk
    <3>2. CASE ctx = "final" /\ pc' = "del"
      <4>1. ~SpecialMounted'
        BY <2>5, <3>2 DEF FiniReturns, Unmounted, SpecialMounted, PlainTree, disk
      <4>2. (broke = {} => ~mounted') /\ UNCHANGED broke
        BY <2>5 DEF FiniReturns, Unmounted, disk
      <4>3. QED
        BY <3>2, <4>1, <4>2
    <3>3. QED
      BY <2>5, <3>1, <3>2 DEF FiniReturns, Goto
  <2>6. CASE FiniRaises
    <3>1. broke' # {}
      BY <2>6 DEF FiniRaises
    <3>2. pc' \in {"final", "dead"}
      BY <2>6 DEF FiniRaises, Goto
    <3>3. QED
      BY <3>1, <3>2
  <2>7. CASE StopServices
    <3>1. CASE Goto("pluginEnd", ctx) /\ UNCHANGED broke
      BY <2>7, <3>1, <1>1 DEF StopServices, Goto, disk
    <3>2. CASE StopReader
      BY <2>7, <3>2 DEF StopServices, StopReader, EndAbandoned, ReplyError, Goto, disk
    <3>3. QED
      BY <2>7, <3>1, <3>2 DEF StopServices
  <2>8. CASE PluginStageEnd
    <3>1. CASE stage = "syncup" /\ EndReturns
      <4>1. ~SpecialMounted'
        BY <2>8, <3>1 DEF PluginStageEnd, WorkingInv, SpecialMounted, disk
      <4>2. QED
        BY <2>8, <3>1, <4>1, <1>1, <1>2 DEF PluginStageEnd, EndReturns, ReplyError, Goto, disk
    <3>2. CASE Goto("unprep", ctx) /\ UNCHANGED broke
      BY <2>8, <3>2, <1>1 DEF PluginStageEnd, Goto, disk
    <3>3. CASE EndRaises
      BY <3>3 DEF EndRaises, EndAbandoned, ReplyError, Goto
    <3>4. QED
      BY <2>8, <3>1, <3>2, <3>3 DEF PluginStageEnd
  <2>9. CASE UnPrepareRoot
    <3>1. CASE ctx = "prep" /\ Goto("stop", "undo") /\ UNCHANGED broke
      BY <2>9, <3>1, <1>1 DEF UnPrepareRoot, UnPrepareDone, UnPrepareStuck, UnPrepareRefused,
                              Goto, disk
    <3>2. CASE UnPrepareDone /\ EndReturns
      <4>1. ~SpecialMounted'
        BY <3>2 DEF UnPrepareDone, SpecialMounted, Bare
      <4>2. QED
        BY <3>2, <4>1, <1>1, <1>2 DEF UnPrepareDone, EndReturns, ReplyError, Goto
    <3>3. CASE EndRaises
      BY <3>3 DEF EndRaises, EndAbandoned, ReplyError, Goto
    <3>4. QED
      BY <2>9, <3>1, <3>2, <3>3 DEF UnPrepareRoot
  <2>10. CASE PrepareRoot
    BY <2>10, <1>1 DEF PrepareRoot, PrepareRefused, PrepareRedundant, PrepareFails,
                       PrepareSucceeds, Goto, disk
  <2>11. CASE PluginStageStart
    BY <2>11, <1>1 DEF PluginStageStart, Goto, disk
  <2>12. ASSUME NEW s \in {"rsyncUp", "rsyncDown", "ssh", "catfile"}, StartService(s)
         PROVE  CleanInv'
    BY <2>12, <1>1 DEF StartService, StartEnds, ReplyOk, Goto, disk
  <2>13. CASE Final
    <3>1. stage = "none" => ~SpecialMounted
      BY DEF WorkingInv
    <3>2. QED
      BY <2>13, <3>1, <1>1, <1>2 DEF Final, Goto, SpecialMounted, disk
  <2>14. CASE Del
    BY <2>14 DEF Del, Goto, SpecialMounted, disk
  <2>15. CASE Close
    BY <2>15 DEF Close, Goto, SpecialMounted, disk
  <2>16. QED
    BY <1>6, <2>1, <2>2, <2>3, <2>4, <2>5, <2>6, <2>7, <2>8, <2>9, <2>10, <2>11, <2>12, <2>13,
       <2>14, <2>15 DEF ThreadStep, Fini
<1>7. CASE LoopRaises
  BY <1>7, <1>1 DEF LoopRaises, Goto, disk
<1>8. CASE UNCHANGED vars
  BY <1>8 DEF SpecialMounted, vars, disk, shared
<1>9. CASE Answer
  BY <1>9, <1>1 DEF Answer, PortAnswered, StartEnds, ReplyOk, Goto, disk
<1>10. QED
  BY <1>4, <1>5, <1>6, <1>7, <1>8, <1>9 DEF Next, Over

(* A session that is over, and none of whose cleanup steps raised, leaves      *)
(* nothing mounted, no entry in sessionDict and no open socket.                *)
THEOREM DeathIsClean == Spec => []CleanDeath
<1>1. Init => CleanInv
  BY DEF Init, CleanInv, CleanDeath
<1>2. IInv /\ CleanInv /\ [Next]_vars => CleanInv'
  BY CleanStep
<1>3. CleanInv => CleanDeath
  BY DEF CleanInv
<1>4. QED
  BY <1>1, <1>2, <1>3, Inductive, PTL DEF Spec
-------------------------------------------------------------------------------
(* With a client that keeps the order of examples/remote-emerge.py: the disk   *)
(* is mounted before the first stage can be asked for, no stage is current     *)
(* while cmdInit may still unmount it, and only the finally clause unmounts it *)
(* under a stage, once it has stopped the services.                            *)
DiskInv ==
    ~AnyOrder =>
        /\ script = "init" => stage = "none"
        /\ pc \in {"load", "mount", "finishInit"} \/ (pc = "fini" /\ ctx = "init")
             => stage = "none"
        /\ pc = "finishInit" => mounted
        /\ pc = "select" /\ script = "stage-syncup" => mounted
        /\ stage # "none" /\ (pc \notin {"del", "close", "dead"} \/ services # {}) => mounted

(* DiskInv is preserved. *)
LEMMA DiskStep ==
  ASSUME IInv, DiskInv, [Next]_vars
  PROVE  DiskInv'
<1> USE DEF IInv, DiskInv, AnyOrder
<1>1. ASSUME UNCHANGED <<stage, script, mounted>>,
             pc' \notin {"select", "load", "mount", "finishInit"} \/ pc' = pc,
             pc' = "fini" /\ ctx' = "init" => stage = "none",
             pc \in {"del", "close", "dead"}
               => pc' \in {"del", "close", "dead"} /\ UNCHANGED services
      PROVE  DiskInv'
  BY <1>1
<1>2. CASE Environment
  BY <1>2, <1>1 DEF Environment, ClientLeaves, ClientSync, Register, request, disk
<1>3. CASE Request
  <2>1. CASE RecvInit
    BY <2>1 DEF RecvInit, Receive, Accepted, Following, Goto, disk
  <2>2. CASE RecvSyncup
    BY <2>2 DEF RecvSyncup, Receive, Accepted, Following, Goto, disk
  <2>3. CASE RecvWorking
    BY <2>3 DEF RecvWorking, Receive, Accepted, Following, Goto, disk
  <2>4. CASE RecvOutOfOrder
    BY <2>4 DEF RecvOutOfOrder, Receive, ReplyError, Goto, disk
  <2>5. CASE RecvQuit
    BY <2>5 DEF RecvQuit, Receive, Accepted, Following, Goto, disk
  <2>6. CASE RecvOther
    BY <2>6 DEF RecvOther, Receive, Goto, request, disk
  <2>7. QED
    BY <1>3, <2>1, <2>2, <2>3, <2>4, <2>5, <2>6 DEF Request
<1>4. CASE ThreadStep
  <2>1. CASE SendReply \/ PeerGone
    BY <2>1, <1>1 DEF SendReply, PeerGone, Goto, request, disk
  <2>2. CASE LoadPlugin
    BY <2>2 DEF LoadPlugin, Goto, NoReply, disk
  <2>3. CASE Mount
    BY <2>3 DEF Mount, MountFails, MountSucceeds, LoopDeviceMissing, Goto, NoReply, disk
  <2>4. CASE FinishInit
    BY <2>4 DEF FinishInit, ReplyOk, Goto, NoReply, disk
  <2>5. CASE FiniReturns
    BY <2>5 DEF FiniReturns, Unmounted, ServiceInv, ReplyError, Goto, NoReply, disk
  <2>6. CASE FiniRaises
    BY <2>6, <1>1 DEF FiniRaises, Goto, NoReply, disk
  <2>7. CASE StopServices
    BY <2>7, <1>1 DEF StopServices, StopReader, EndAbandoned, ControlInv, ReplyError, Goto,
                      NoReply, disk
  <2>8. ASSUME EndReturns \/ EndRaises, pc \in {"pluginEnd", "unprep"}, UNCHANGED mounted
        PROVE  DiskInv'
    BY <2>8 DEF EndReturns, EndRaises, EndAbandoned, ControlInv, ReplyError, Goto, NoReply
  <2>9. CASE PluginStageEnd
    BY <2>9, <2>8, <1>1 DEF PluginStageEnd, Goto, NoReply, disk
  <2>10. CASE UnPrepareRoot
    <3>1. mounted' = mounted
      BY <2>10 DEF UnPrepareRoot, UnPrepareDone, UnPrepareStuck, UnPrepareRefused, disk
    <3>2. QED
      BY <2>10, <3>1, <2>8, <1>1 DEF UnPrepareRoot, Goto, NoReply
  <2>11. CASE PrepareRoot
    BY <2>11, <1>1 DEF PrepareRoot, PrepareRefused, PrepareRedundant, PrepareFails,
                       PrepareSucceeds, Goto, NoReply, disk
  <2>12. CASE PluginStageStart
    BY <2>12, <1>1 DEF PluginStageStart, Goto, NoReply, disk
  <2>13. ASSUME NEW s \in {"rsyncUp", "rsyncDown", "ssh", "catfile"}, StartService(s)
         PROVE  DiskInv'
    BY <2>13 DEF StartService, StartEnds, ControlInv, ReplyOk, Goto, NoReply, disk
  <2>14. CASE Final \/ Del \/ Close
    BY <2>14, <1>1 DEF Final, Del, Close, Goto, request, disk
  <2>15. QED
    BY <1>4, <2>1, <2>2, <2>3, <2>4, <2>5, <2>6, <2>7, <2>9, <2>10, <2>11, <2>12, <2>13, <2>14
       DEF ThreadStep, Fini
<1>5. CASE LoopRaises
  BY <1>5, <1>1 DEF LoopRaises, Goto, request, disk
<1>6. CASE UNCHANGED vars
  BY <1>6, <1>1 DEF vars, request, disk
<1>7. CASE Answer
  BY <1>7 DEF Answer, PortAnswered, StartEnds, ControlInv, ReplyOk, Goto, NoReply, disk
<1>8. QED
  BY <1>2, <1>3, <1>4, <1>5, <1>6, <1>7 DEF Next, Over

(* With the client of examples/remote-emerge.py, whatever the daemons serve is *)
(* the client's disk, never the bare directory it is mounted on.               *)
THEOREM ServedDisk == Spec => []ServedDiskIsMounted
<1>1. Init => DiskInv
  BY DEF Init, DiskInv
<1>2. IInv /\ DiskInv /\ [Next]_vars => DiskInv'
  BY DiskStep
<1>3. IInv /\ DiskInv => ServedDiskIsMounted
  BY DEF IInv, ServiceInv, ServicesStopped, ServicesOf, DiskInv, ServedDiskIsMounted
<1>4. QED
  BY <1>1, <1>2, <1>3, Inductive, PTL DEF Spec

-------------------------------------------------------------------------------
(* The session as CtrlServer knows it: a thread that runs, ends, and deletes   *)
(* its entry; a disk that it has mounted, or has mounted and does not know of. *)
ThreadLife == CASE pc = "dead" -> "dead"
                [] pc = "waitPort" -> "hung"
                [] pc \in {"del", "close"} -> pc
                [] pc = "final" \/ (ctx = "final" /\ pc \in {"stop", "pluginEnd", "unprep", "fini"})
                     -> "ending"
                [] OTHER -> "running"

DiskHolder == IF ~mounted THEN "nobody" ELSE IF loopDev THEN "self" ELSE "stray"

(* CtrlServer with this session as its only connection, from the moment at     *)
(* which the main thread has started it.                                       *)
Server == INSTANCE CtrlServer WITH
    Conn <- {"self"}, Key <- {"own"}, Nobody <- "nobody", Stray <- "stray",
    CleanupRaises <- TRUE,
    main <- IF entry = "pending" THEN "register" ELSE "loop",
    cur <- "self", todo <- {}, atStart <- {},
    sessionDict <- IF entry = "present" THEN {"self"} ELSE {},
    conn <- [c \in {"self"} |-> IF sockOpen THEN "served" ELSE "closed"],
    client <- IF connected THEN {"self"} ELSE {},
    key <- [c \in {"self"} |-> "own"],
    life <- [c \in {"self"} |-> ThreadLife],
    disk <- [k \in {"own"} |-> DiskHolder]

(* What CtrlServer lets a session, its client and Register do.                 *)
ServerStep == Server!SessionStep("self") \/ Server!ClientLeaves("self") \/ Server!Register

(* It starts as a thread that runs and has no disk, and takes such steps only. *)
ServerThread == /\ Server!TypeOK /\ ThreadLife = "running" /\ DiskHolder = "nobody"
                /\ [][ServerStep]_Server!vars

(* Every step of the session is a step of CtrlServer, or leaves it unchanged. *)
LEMMA ServerSimulation == [Next]_vars => [ServerStep]_Server!vars
<1> SUFFICES ASSUME [Next]_vars PROVE [ServerStep]_Server!vars
  OBVIOUS
<1> DEFINE Same == UNCHANGED <<entry, sockOpen, connected>>
<1>1. ASSUME Same, UNCHANGED <<ThreadLife, DiskHolder>>
      PROVE  UNCHANGED Server!vars
  BY <1>1 DEF Server!vars, Server!mainVars
<1>2. ASSUME Same, ThreadLife = "running", ThreadLife' = "ending", UNCHANGED DiskHolder
      PROVE  ServerStep
  BY <1>2 DEF ServerStep, Server!SessionStep, Server!LeaveLoop, Server!mainVars
<1>3. ASSUME Same, ThreadLife = "ending", ThreadLife' = "dead", UNCHANGED DiskHolder
      PROVE  ServerStep
  BY <1>3 DEF ServerStep, Server!SessionStep, Server!EndStep, Server!CleanupFails,
              Server!mainVars
<1>4. ASSUME Same, ThreadLife = "ending", ThreadLife' = "del",
             DiskHolder' = IF DiskHolder = "self" THEN "nobody" ELSE DiskHolder
      PROVE  ServerStep
  BY <1>4 DEF ServerStep, Server!SessionStep, Server!EndStep, Server!Cleanup, Server!mainVars
<1>5. ASSUME Same, ThreadLife = "running", UNCHANGED ThreadLife,
             \/ DiskHolder = "nobody" /\ DiskHolder' \in {"self", "stray"}
             \/ DiskHolder = "self" /\ DiskHolder' = "nobody"
      PROVE  ServerStep
  BY <1>5 DEF ServerStep, Server!SessionStep, Server!MountDisk, Server!MountUndoFails,
              Server!InitFails, Server!mainVars
<1>6. ASSUME Same, UNCHANGED DiskHolder,
              \/ ThreadLife = "running" /\ ThreadLife' = "hung"
              \/ ThreadLife = "hung" /\ ThreadLife' = "running"
       PROVE  ServerStep
  BY <1>6 DEF ServerStep, Server!SessionStep, Server!StartHangs, Server!PortAnswered,
               Server!mainVars
<1>7. CASE Environment
  <2>1. CASE ClientLeaves
    BY <2>1 DEF ClientLeaves, disk, shared, ThreadLife, DiskHolder, ServerStep,
                Server!ClientLeaves, Server!mainVars
  <2>2. CASE ClientSync
    BY <2>2, <1>1 DEF ClientSync, shared, ThreadLife, DiskHolder
  <2>3. CASE Register
    BY <2>3 DEF Register, disk, ThreadLife, DiskHolder, ServerStep, Server!Register
  <2>4. QED
    BY <1>7, <2>1, <2>2, <2>3 DEF Environment
<1> USE DEF Goto, disk, shared
<1>8. ASSUME UNCHANGED <<connected, disk, shared>>
      PROVE  Same /\ UNCHANGED DiskHolder
  BY <1>8 DEF DiskHolder
<1>9. CASE Request \/ LoopRaises
  <2>1. CASE RecvOther \/ LoopRaises
    BY <2>1, <1>2, <1>8 DEF RecvOther, Receive, LoopRaises, ThreadLife
  <2>2. CASE RecvInit \/ RecvSyncup \/ RecvWorking \/ RecvOutOfOrder \/ RecvQuit
    BY <2>2, <1>1, <1>8 DEF RecvInit, RecvSyncup, RecvWorking, RecvOutOfOrder, RecvQuit, Receive,
                            ReplyError, ThreadLife
  <2>3. QED
    BY <1>9, <2>1, <2>2 DEF Request
<1>10. CASE ThreadStep
  <2>1. CASE SendReply \/ PeerGone
    BY <2>1, <1>1, <1>2, <1>8 DEF SendReply, PeerGone, ThreadLife
  <2>2. CASE LoadPlugin \/ FinishInit
    <3>1. /\ pc \in {"load", "finishInit"}
          /\ pc' \in {"mount", "select"} \/ (pc' = "fini" /\ ctx' = "init")
      BY <2>2 DEF LoadPlugin, FinishInit, ReplyOk
    <3>2. UNCHANGED ThreadLife
      BY <3>1 DEF ThreadLife
    <3>3. UNCHANGED <<connected, disk, shared>>
      BY <2>2 DEF LoadPlugin, FinishInit
    <3>4. QED
      BY <3>2, <3>3, <1>1, <1>8
  <2>3. CASE Mount
    <3>1. Same /\ ThreadLife = "running" /\ UNCHANGED ThreadLife
      BY <2>3 DEF Mount, MountFails, MountSucceeds, LoopDeviceMissing, ThreadLife
    <3>2. UNCHANGED DiskHolder \/ (DiskHolder = "nobody" /\ DiskHolder' \in {"self", "stray"})
      BY <2>3 DEF Mount, MountFails, MountSucceeds, LoopDeviceMissing, DiskHolder
    <3>3. QED
      BY <3>1, <3>2, <1>1, <1>5
  <2>4. CASE FiniReturns
    <3>1. Same
      BY <2>4 DEF FiniReturns
    <3>2. UNCHANGED DiskHolder \/ (DiskHolder = "self" /\ DiskHolder' = "nobody")
      BY <2>4 DEF FiniReturns, Unmounted, DiskHolder
    <3>3. DiskHolder = "self" => DiskHolder' = "nobody"
      BY <2>4 DEF FiniReturns, Unmounted, DiskHolder
    <3>4. CASE ctx = "init"
      <4>1. ThreadLife = "running" /\ UNCHANGED ThreadLife
        BY <2>4, <3>4 DEF FiniReturns, ReplyError, ThreadLife
      <4>2. QED
        BY <3>1, <3>2, <4>1, <1>1, <1>5
    <3>5. CASE ctx = "final"
      <4>1. ThreadLife = "ending" /\ ThreadLife' = "del"
        BY <2>4, <3>5 DEF FiniReturns, ThreadLife
      <4>2. QED
        BY <3>1, <3>2, <3>3, <4>1, <1>4
    <3>6. QED
      BY <2>4, <3>4, <3>5 DEF FiniReturns
  <2>5. CASE FiniRaises
    BY <2>5, <1>2, <1>3, <1>8 DEF FiniRaises, ThreadLife
  <2>6. CASE StopServices \/ Final
    <3>1. CASE Goto("pluginEnd", ctx) \/ Final
      BY <2>6, <3>1, <1>1, <1>8 DEF StopServices, Final, ThreadLife
    <3>2. CASE StopServices /\ StopReader
      <4>1. pc = "stop" /\ UNCHANGED <<connected, disk, shared>>
        BY <3>2 DEF StopServices
      <4>2. \/ ctx \in {"switch", "undo"} /\ pc' = "select"
            \/ ctx = "final" /\ pc' = "dead"
        BY <3>2 DEF StopReader, EndAbandoned, ReplyError
      <4>3. QED
        BY <4>1, <4>2, <1>1, <1>3, <1>8 DEF ThreadLife
    <3>3. QED
      BY <2>6, <3>1, <3>2 DEF StopServices
  <2>7. ASSUME pc \in {"pluginEnd", "unprep"}, EndReturns, Same, UNCHANGED DiskHolder
        PROVE  [ServerStep]_Server!vars
    BY <2>7, <1>1 DEF EndReturns, ReplyError, ThreadLife
  <2>8. ASSUME pc \in {"pluginEnd", "unprep"}, EndRaises, Same, UNCHANGED DiskHolder
        PROVE  [ServerStep]_Server!vars
    BY <2>8, <1>1, <1>3 DEF EndRaises, EndAbandoned, ReplyError, ThreadLife
  <2>9. CASE PluginStageEnd
    <3>1. Same /\ UNCHANGED DiskHolder
      BY <2>9, <1>8 DEF PluginStageEnd
    <3>2. QED
      BY <2>9, <3>1, <2>7, <2>8, <1>1 DEF PluginStageEnd, ThreadLife
  <2>10. CASE UnPrepareRoot
    <3>1. Same /\ UNCHANGED DiskHolder
      BY <2>10 DEF UnPrepareRoot, UnPrepareDone, UnPrepareStuck, UnPrepareRefused, DiskHolder
    <3>2. QED
      BY <2>10, <3>1, <2>7, <2>8, <1>1 DEF UnPrepareRoot, ThreadLife
  <2>11. CASE PrepareRoot
    <3>1. Same /\ UNCHANGED DiskHolder
      BY <2>11 DEF PrepareRoot, PrepareRefused, PrepareRedundant, PrepareFails, PrepareSucceeds,
                   DiskHolder
    <3>2. UNCHANGED ThreadLife
      BY <2>11 DEF PrepareRoot, PrepareRefused, PrepareRedundant, PrepareFails, PrepareSucceeds,
                   ThreadLife
    <3>3. QED
      BY <3>1, <3>2, <1>1
  <2>12. CASE PluginStageStart
    BY <2>12, <1>1, <1>8 DEF PluginStageStart, ThreadLife
  <2>13. ASSUME NEW s \in {"rsyncUp", "rsyncDown", "ssh", "catfile"}, StartService(s)
         PROVE  [ServerStep]_Server!vars
    <3>1. CASE StartEnds(s)
      <4>1. UNCHANGED ThreadLife
        BY <2>13, <3>1 DEF StartService, StartEnds, ReplyOk, ThreadLife
      <4>2. QED
        BY <2>13, <4>1, <1>1, <1>8 DEF StartService
    <3>2. CASE Goto("waitPort", "none")
      <4>1. ThreadLife = "running" /\ ThreadLife' = "hung"
        BY <2>13, <3>2 DEF StartService, ThreadLife
      <4>2. QED
        BY <2>13, <4>1, <1>8, <1>6 DEF StartService
    <3>3. QED
      BY <2>13, <3>1, <3>2 DEF StartService
  <2>14. CASE Del
    <3>1. UNCHANGED <<DiskHolder, sockOpen, connected>>
      BY <2>14 DEF Del, DiskHolder
    <3>2. ThreadLife = "del" /\ ThreadLife' = IF entry = "present" THEN "close" ELSE "dead"
      BY <2>14 DEF Del, ThreadLife
    <3>3. CASE entry = "present"
      <4>1. entry' = "removed"
        BY <2>14, <3>3 DEF Del
      <4>2. QED
        BY <3>1, <3>2, <3>3, <4>1 DEF ServerStep, Server!SessionStep, Server!EndStep,
                                      Server!DelEntry, Server!mainVars
    <3>4. CASE entry = "pending"
      <4>1. UNCHANGED entry
        BY <2>14, <3>4 DEF Del
      <4>2. QED
        BY <3>1, <3>2, <3>4, <4>1 DEF ServerStep, Server!SessionStep, Server!EndStep,
                                      Server!DelTooEarly, Server!mainVars
    <3>5. QED
      BY <2>14, <3>3, <3>4 DEF Del
  <2>15. CASE Close
    <3>1. UNCHANGED <<DiskHolder, entry, connected>> /\ sockOpen' = FALSE
      BY <2>15 DEF Close, DiskHolder
    <3>2. ThreadLife = "close" /\ ThreadLife' = "dead"
      BY <2>15 DEF Close, ThreadLife
    <3>3. QED
      BY <3>1, <3>2 DEF ServerStep, Server!SessionStep, Server!EndStep, Server!CloseSocket,
                        Server!mainVars
  <2>16. QED
    BY <1>10, <2>1, <2>2, <2>3, <2>4, <2>5, <2>6, <2>9, <2>10, <2>11, <2>12, <2>13, <2>14, <2>15
       DEF ThreadStep, Fini
<1>11. CASE UNCHANGED vars
  BY <1>11, <1>1, <1>8 DEF vars, ThreadLife
<1>12. CASE Answer
  <2>1. ThreadLife = "hung" /\ ThreadLife' = "running"
    BY <1>12 DEF Answer, PortAnswered, StartEnds, ReplyOk, ThreadLife
  <2>2. QED
    BY <1>12, <2>1, <1>8, <1>6 DEF Answer, PortAnswered
<1>13. QED
  BY <1>7, <1>9, <1>10, <1>11, <1>12 DEF Next, Over

(* The session does what CtrlServer assumes of a session thread: it mounts at  *)
(* most its own disk, gives it back or raises in its cleanup, and deletes its  *)
(* entry after that and before it closes the socket.                           *)
THEOREM ServesTheServer == Spec => ServerThread
<1>1. Init => Server!TypeOK /\ ThreadLife = "running" /\ DiskHolder = "nobody"
  BY DEF Init, ThreadLife, DiskHolder, Server!TypeOK
<1>2. QED
  BY <1>1, ServerSimulation, PTL DEF Spec, ServerThread
===============================================================================
