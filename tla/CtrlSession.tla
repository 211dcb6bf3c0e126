------------------------------ MODULE CtrlSession ------------------------------
(***************************************************************************)
(* One control session of syncupd: the thread GbsCtrlSession of            *)
(* gbs_ctrl_server.py together with the GbsSystem it owns (the client's    *)
(* disk image, gbs_common.py) and the daemons it starts for the client.    *)
(*                                                                         *)
(* The thread is sequential.  pc says where in run() it is, ctx on whose   *)
(* behalf a cleanup handler runs, because the same handlers are called by  *)
(* cmdInit, by cmdStage (twice) and by the finally clause of run(), and    *)
(* what an exception does differs in each.  Client, kernel and main thread *)
(* act between any two of its steps.                                       *)
(*                                                                         *)
(* The five directories prepareRoot mounts over are 1..NumSpecial in the   *)
(* order it mounts them (proc, sys, dev, run, tmp); /var, /var/tmp, /root  *)
(* and /lost+found are not tracked, their effects are failures of          *)
(* prepareRoot.  A service is held from the return of its start() until    *)
(* its stop(): what of its processes a stop() leaves alive is in           *)
(* ServicePorts.                                                           *)
(***************************************************************************)
EXTENDS Naturals

CONSTANTS
    NumSpecial,     \* how many directories prepareRoot mounts over
    Lazy,           \* those unmounted with "umount -l", which is never busy
    PluginRaises,   \* the plugin's end and fini callbacks may raise
    UmountBusy      \* umount of a mounted directory may fail, e.g. because a
                    \* process the client left behind still uses it

ASSUME SpecialAssumption == NumSpecial \in Nat \ {0} /\ Lazy \subseteq 1..NumSpecial
ASSUME SwitchAssumption == {PluginRaises, UmountBusy} \subseteq BOOLEAN

VARIABLES
    pc,         \* the next step of the thread
    ctx,        \* who called the handler that runs, "none" outside handlers
    stage,      \* self.stage
    bQuit,      \* self.bQuit
    sendBuf,    \* self.sendBuf is not empty
    broke,      \* history: the cleanup steps that raised
    connected,  \* the client still holds its end of the connection
    script,     \* what the client asks next, "any" if it keeps no order
    plugin,     \* self.plugin is not None
    services,   \* the services started and not yet stopped
    loopDev,    \* sysObj.loopDev is not None
    mounted,    \* the disk image is mounted on mntDir
    attrs,      \* sysObj has the attributes prepareRoot sets (procDir, ...)
    dirs,       \* what is at each special directory under mntDir
    entry,      \* this session in parent.sessionDict
    sockOpen    \* sslSock is open

request == <<bQuit, sendBuf, script>>
disk    == <<loopDev, mounted, attrs, dirs>>
shared  == <<entry, sockOpen>>
vars == <<pc, ctx, stage, broke, connected, plugin, services, request, disk, shared>>

-------------------------------------------------------------------------------
(* Helpers. *)

Special   == 1..NumSpecial
PlainTree == [Special -> {"absent", "plain"}]       \* any tree, nothing mounted in it
Bare      == [d \in Special |-> "absent"]
SpecialMounted == \E d \in Special : dirs[d] = "mounted"

(* A client that keeps no order sends any request at any time.  The client of  *)
(* examples/remote-emerge.py follows its script, waits for each answer and     *)
(* asks nothing after an error.                                                *)
AnyOrder == script = "any"

Following(cmd) == CASE cmd = "init"          -> "stage-syncup"
                    [] cmd = "stage-syncup"  -> "stage-working"
                    [] cmd = "stage-working" -> "quit"
                    [] OTHER                 -> "nothing"

ServicesOf(s) == CASE s = "syncup"  -> {"rsyncUp"}
                   [] s = "working" -> {"ssh", "rsyncDown", "catfile"}
                   [] OTHER         -> {}

(* The services started before s in the same stage. *)
Before(s) == CASE s = "rsyncDown" -> {"ssh"}
               [] s = "catfile"   -> {"ssh", "rsyncDown"}
               [] OTHER           -> {}

(* Mutant of Stopped: the end handler of "syncup" tests the wrong attribute.   *)
NothingStoppedAfterSyncup ==
    IF stage = "syncup" THEN {} ELSE {"rsyncUp", "rsyncDown", "ssh", "catfile"}

(* The services that the end handler of the current stage stops: the up and  *)
(* the down rsyncd are kept in the same attribute, rsyncServ.                *)
Stopped == IF stage = "syncup" THEN {"rsyncUp", "rsyncDown"}
                               ELSE {"rsyncUp", "rsyncDown", "ssh", "catfile"}

Goto(p, c) == pc' = p /\ ctx' = c

ReplyOk == /\ Goto("select", "none")
           /\ sendBuf' = TRUE
           /\ UNCHANGED script

ReplyError == /\ Goto("select", "none")
              /\ sendBuf' = TRUE
              /\ script' = IF AnyOrder THEN script ELSE "nothing"

NoReply == UNCHANGED <<sendBuf, script>>

-------------------------------------------------------------------------------
(* The client and the main thread. *)

ClientLeaves == /\ connected
                /\ connected' = FALSE
                /\ UNCHANGED <<pc, ctx, stage, broke, plugin, services, request, disk, shared>>

(* rsync writes into mntDir whatever it is given, as root. *)
ClientSync == /\ connected
              /\ "rsyncUp" \in services
              /\ ~SpecialMounted
              /\ dirs' \in PlainTree \ {dirs}
              /\ UNCHANGED <<pc, ctx, stage, broke, connected, plugin, services, request,
                             loopDev, mounted, attrs, shared>>

(* onHandShakeComplete enters the session into sessionDict after start(), so  *)
(* the thread may be anywhere by then, even over.                             *)
Register == /\ entry = "pending"
            /\ entry' = "present"
            /\ UNCHANGED <<pc, ctx, stage, broke, connected, plugin, services, request, disk,
                           sockOpen>>

-------------------------------------------------------------------------------
(* The request loop. *)

Receive(cmd) == /\ pc = "select" /\ connected /\ ~bQuit
                /\ AnyOrder \/ (~sendBuf /\ script = cmd)
                /\ UNCHANGED <<broke, connected, plugin, services, disk, shared>>

Accepted == script' = IF AnyOrder THEN script ELSE Following(script)

RecvInit == /\ Receive("init")
            /\ Goto("load", "init")
            /\ Accepted
            /\ UNCHANGED <<stage, bQuit, sendBuf>>

RecvSyncup == /\ Receive("stage-syncup")
              /\ stage = "none"
              /\ stage' = "syncup"
              /\ Goto("pluginStart", "none")
              /\ Accepted
              /\ UNCHANGED <<bQuit, sendBuf>>

(* Mutant of RecvWorking: "working" starts without ending "syncup". *)
RecvWorkingNoEnd == /\ Receive("stage-working")
                    /\ stage = "syncup"
                    /\ stage' = "working"
                    /\ Goto("prep", "none")
                    /\ Accepted
                    /\ UNCHANGED <<bQuit, sendBuf>>

RecvWorking == /\ Receive("stage-working")
               /\ stage = "syncup"
               /\ Goto("stop", "switch")
               /\ Accepted
               /\ UNCHANGED <<stage, bQuit, sendBuf>>

RecvOutOfOrder == /\ \/ Receive("stage-syncup") /\ stage # "none"
                     \/ Receive("stage-working") /\ stage # "syncup"
                  /\ ReplyError
                  /\ UNCHANGED <<stage, bQuit>>

RecvQuit == /\ Receive("quit")
            /\ bQuit' = TRUE
            /\ Goto("select", "none")
            /\ sendBuf' = TRUE
            /\ Accepted
            /\ UNCHANGED stage

(* An unknown command, or bytes that are no request, end the session. *)
RecvOther == /\ AnyOrder
             /\ Receive("other")
             /\ Goto("final", "final")
             /\ UNCHANGED <<stage, request>>

(* Mutant of SendReply: run() does not return once the answer to "quit" is out. *)
SendReplyStays == /\ pc = "select" /\ sendBuf
                  /\ sendBuf' = FALSE
                  /\ UNCHANGED <<pc, ctx, stage, broke, connected, plugin, services, bQuit, script,
                                 disk, shared>>

SendReply == /\ pc = "select" /\ sendBuf
             /\ sendBuf' = FALSE
             /\ Goto(IF bQuit THEN "final" ELSE "select", IF bQuit THEN "final" ELSE "none")
             /\ UNCHANGED <<stage, broke, connected, plugin, services, bQuit, script, disk, shared>>

PeerGone == /\ pc = "select" /\ ~connected /\ ~bQuit
            /\ Goto("final", "final")
            /\ UNCHANGED <<stage, broke, connected, plugin, services, request, disk, shared>>

(* A socket error, an SSL error, or enlarge() failing. *)
LoopRaises == /\ pc = "select"
              /\ Goto("final", "final")
              /\ UNCHANGED <<stage, broke, connected, plugin, services, request, disk, shared>>

-------------------------------------------------------------------------------
(* cmdInit: load the plugin, mount the disk, let the plugin initialise.  Any   *)
(* exception on the way runs _finiHandler before the error is answered.        *)

LoadPlugin == /\ pc = "load"
              /\ \/ plugin' \in {plugin, TRUE} /\ Goto("mount", "init")
                 \/ UNCHANGED plugin /\ Goto("fini", "init")
              /\ NoReply
              /\ UNCHANGED <<stage, bQuit, broke, connected, services, disk, shared>>

(* Mutant of MountFails: the failure of mount(8) is not noticed. *)
MountFailureIgnored == /\ pc = "mount"
                       /\ Goto("finishInit", "init")
                       /\ UNCHANGED <<broke, disk>>

(* The assertion that the disk is not attached yet, or a mount(8) that fails:  *)
(* nothing is mounted.                                                         *)
MountFails == /\ pc = "mount"
              /\ Goto("fini", "init")
              /\ UNCHANGED <<broke, disk>>

MountSucceeds == /\ pc = "mount" /\ ~loopDev /\ ~mounted
                 /\ loopDev' = TRUE /\ mounted' = TRUE
                 /\ dirs' \in PlainTree
                 /\ Goto("finishInit", "init")
                 /\ UNCHANGED <<broke, attrs>>

(* The loop device of the mounted disk is not found.  mount() unmounts again;  *)
(* if even that fails the disk stays mounted and loopDev stays None.           *)
LoopDeviceMissing == /\ pc = "mount" /\ ~loopDev /\ ~mounted
                     /\ \/ UNCHANGED <<broke, disk>>
                        \/ /\ UmountBusy
                           /\ mounted' = TRUE
                           /\ dirs' \in PlainTree
                           /\ broke' = broke \cup {"mountUndo"}
                           /\ UNCHANGED <<loopDev, attrs>>
                     /\ Goto("fini", "init")

Mount == /\ MountFails \/ MountSucceeds \/ LoopDeviceMissing
         /\ NoReply
         /\ UNCHANGED <<stage, bQuit, connected, plugin, services, shared>>

(* commitClientInfo and the plugin's init_handler. *)
FinishInit == /\ pc = "finishInit"
              /\ \/ ReplyOk
                 \/ NoReply /\ Goto("fini", "init")
              /\ UNCHANGED <<stage, bQuit, broke, connected, plugin, services, disk, shared>>

-------------------------------------------------------------------------------
(* _finiHandler: the plugin's fini_handler, then unmount().  unmount() leaves  *)
(* loopDev set, so a second one finds nothing mounted and raises.              *)

Unmounted == \/ ~loopDev /\ UNCHANGED disk
             \/ /\ loopDev /\ mounted /\ ~SpecialMounted
                /\ mounted' = FALSE
                /\ dirs' \in PlainTree           \* what the bare mntDir holds
                /\ UNCHANGED <<loopDev, attrs>>

FiniReturns == /\ pc = "fini"
               /\ Unmounted
               /\ \/ ctx = "init" /\ ReplyError
                  \/ ctx = "final" /\ Goto("del", "final") /\ NoReply
               /\ UNCHANGED <<stage, bQuit, broke, connected, plugin, services, shared>>

UnmountRaises == loopDev /\ (~mounted \/ SpecialMounted \/ services # {} \/ UmountBusy)

(* An exception of _finiHandler leaves cmdInit and run()'s loop for the       *)
(* finally clause, or the finally clause for good.                            *)
FiniRaises == /\ pc = "fini"
              /\ (plugin /\ PluginRaises) \/ UnmountRaises
              /\ broke' = broke \cup {"fini"}
              /\ \/ ctx = "init" /\ Goto("final", "final")
                 \/ ctx = "final" /\ Goto("dead", "none")
              /\ NoReply
              /\ UNCHANGED <<stage, bQuit, connected, plugin, services, disk, shared>>

Fini == FiniReturns \/ FiniRaises

-------------------------------------------------------------------------------
(* The end handlers of the stages.  They run to end "syncup" when "working"    *)
(* is requested (ctx = "switch"), to undo a stage that failed to start         *)
(* ("undo"), and in the finally clause ("final").                              *)

(* An exception leaves the handler: cmdStage answers with an error and keeps   *)
(* the stage, the finally clause is over at once.                              *)
EndAbandoned(step) == /\ broke' = broke \cup {step}
                      /\ \/ ctx \in {"switch", "undo"} /\ ReplyError
                         \/ ctx = "final" /\ Goto("dead", "none") /\ NoReply
                      /\ UNCHANGED stage

(* Mutant of StopReader: the handler catches the exception and goes on, but    *)
(* the services it had not come to stay.                                       *)
StopReaderCaught == /\ "catfile" \in services
                    /\ services' = services \ {"catfile"}
                    /\ Goto("pluginEnd", ctx)
                    /\ NoReply
                    /\ UNCHANGED <<stage, broke>>

(* The file reader is stopped first.  Its stop() raises if the reader's thread *)
(* has just given up its socket itself (CatFile): the reader is gone, the      *)
(* read-only rsyncd and sshd have not been stopped.                            *)
StopReader == /\ "catfile" \in services
              /\ services' = services \ {"catfile"}
              /\ EndAbandoned("catfileStop")

StopServices == /\ pc = "stop"
                /\ \/ /\ services' = services \ Stopped
                      /\ Goto("pluginEnd", ctx)
                      /\ NoReply
                      /\ UNCHANGED <<stage, broke>>
                   \/ stage = "working" /\ StopReader
                /\ UNCHANGED <<bQuit, connected, plugin, disk, shared>>

(* Mutant of EndReturns: the undone stage stays the current one. *)
EndReturnsKeepsStage == /\ \/ /\ ctx = "switch"
                              /\ stage' = "working"
                              /\ Goto("prep", "none")
                              /\ NoReply
                           \/ /\ ctx = "undo"
                              /\ ReplyError
                              /\ UNCHANGED stage
                           \/ /\ ctx = "final"
                              /\ Goto("fini", "final")
                              /\ NoReply
                              /\ UNCHANGED stage
                        /\ UNCHANGED broke

EndReturns == /\ \/ /\ ctx = "switch"
                    /\ stage' = "working"
                    /\ Goto("prep", "none")
                    /\ NoReply
                 \/ /\ ctx = "undo"
                    /\ stage' = "none"
                    /\ ReplyError
                 \/ /\ ctx = "final"
                    /\ Goto("fini", "final")
                    /\ NoReply
                    /\ UNCHANGED stage
              /\ UNCHANGED broke

EndRaises == EndAbandoned(IF stage = "syncup" THEN "syncupEnd" ELSE "workingEnd")

PluginStageEnd == /\ pc = "pluginEnd"
                  /\ \/ stage = "syncup" /\ EndReturns
                     \/ stage = "working" /\ Goto("unprep", ctx)
                        /\ NoReply /\ UNCHANGED <<stage, broke>>
                     \/ plugin /\ PluginRaises /\ EndRaises
                  /\ UNCHANGED <<bQuit, connected, plugin, services, disk, shared>>

(* unPrepareRoot undoes every mount and then deletes the attributes that       *)
(* prepareRoot set; called again it does not find them.                        *)
UnPrepareDone == /\ loopDev /\ attrs
                 /\ \A d \in Special : dirs[d] # "plain"
                 /\ attrs' = FALSE
                 /\ dirs' = Bare
                 /\ UNCHANGED <<loopDev, mounted>>

(* It works from the last directory to the first and stops at one that is not  *)
(* a mount point, or is busy.                                                  *)
UnPrepareStuck == /\ loopDev /\ attrs
                  /\ \E d \in Special :
                       /\ \/ dirs[d] = "plain"
                          \/ dirs[d] = "mounted" /\ d \notin Lazy /\ UmountBusy
                       /\ \A e \in Special : e > d => dirs[e] # "plain"
                       /\ dirs' = [e \in Special |-> IF e > d THEN "absent" ELSE dirs[e]]
                  /\ UNCHANGED <<loopDev, mounted, attrs>>

UnPrepareRefused == ~(loopDev /\ attrs) /\ UNCHANGED disk

(* Called by prepareRoot (ctx = "prep"), its outcome is masked by the          *)
(* exception that prepareRoot is about to raise either way.                    *)
UnPrepareRoot == /\ pc = "unprep"
                 /\ \/ /\ ctx = "prep"
                       /\ UnPrepareDone \/ UnPrepareStuck \/ UnPrepareRefused
                       /\ Goto("stop", "undo")
                       /\ NoReply
                       /\ UNCHANGED <<stage, broke>>
                    \/ ctx # "prep" /\ UnPrepareDone /\ EndReturns
                    \/ ctx # "prep" /\ (UnPrepareStuck \/ UnPrepareRefused) /\ EndRaises
                 /\ UNCHANGED <<bQuit, connected, plugin, services, shared>>

-------------------------------------------------------------------------------
(* The start handlers of the stages. *)

PrepareRefused == ~loopDev /\ UNCHANGED disk /\ Goto("stop", "undo")

(* A directory that must not have been synced up exists. *)
PrepareRedundant == /\ loopDev
                    /\ dirs # Bare
                    /\ attrs' = TRUE
                    /\ UNCHANGED <<loopDev, mounted, dirs>>
                    /\ Goto("unprep", "prep")

(* mkdir or mount fails at directory k, or --make-rslave fails after the mount  *)
(* of one that is bound recursively, or what follows the last mount fails.      *)
PrepareFails == /\ loopDev
                /\ dirs = Bare
                /\ \E k \in 1..(NumSpecial + 1) :
                     \E left \in {"absent", "plain"} \cup IF k \in Lazy THEN {"mounted"} ELSE {} :
                       dirs' = [d \in Special |-> IF d < k THEN "mounted"
                                                  ELSE IF d = k THEN left ELSE "absent"]
                /\ attrs' = TRUE
                /\ UNCHANGED <<loopDev, mounted>>
                /\ Goto("unprep", "prep")

(* Mutant of PrepareSucceeds: one more directory is mounted than is known. *)
PrepareOneTooMany == /\ loopDev
                     /\ dirs = Bare
                     /\ dirs' = [d \in 1..(NumSpecial + 1) |-> "mounted"]
                     /\ attrs' = TRUE
                     /\ UNCHANGED <<loopDev, mounted>>
                     /\ Goto("pluginStart", "none")

PrepareSucceeds == /\ loopDev
                   /\ dirs = Bare
                   /\ dirs' = [d \in Special |-> "mounted"]
                   /\ attrs' = TRUE
                   /\ UNCHANGED <<loopDev, mounted>>
                   /\ Goto("pluginStart", "none")

PrepareRoot == /\ pc = "prep"
               /\ PrepareRefused \/ PrepareRedundant \/ PrepareFails \/ PrepareSucceeds
               /\ NoReply
               /\ UNCHANGED <<stage, bQuit, broke, connected, plugin, services, shared>>

PluginStageStart == /\ pc = "pluginStart"
                    /\ \/ Goto("startServ", "none")
                       \/ plugin /\ Goto("stop", "undo")
                    /\ NoReply
                    /\ UNCHANGED <<stage, bQuit, broke, connected, plugin, services, disk, shared>>

(* The one service of the stage whose turn it is.                              *)
NextService(s) == /\ s \in ServicesOf(stage) \ services
                  /\ Before(s) \cap ServicesOf(stage) \subseteq services

(* start() returns and the port is put in the reply, or it raises and has      *)
(* undone its own work.  If the plugin's answer already has the key, the       *)
(* daemons do run.                                                             *)
StartEnds(s) ==
    \/ /\ services' = services \cup {s}
       /\ \/ services' = ServicesOf(stage) /\ ReplyOk
          \/ services' # ServicesOf(stage) /\ Goto("startServ", "none") /\ NoReply
          \/ plugin /\ Goto("stop", "undo") /\ NoReply
    \/ UNCHANGED services /\ Goto("stop", "undo") /\ NoReply

(* A daemon that has ended before it listens is waited for all the same.       *)
StartService(s) ==
    /\ pc = "startServ"
    /\ NextService(s)
    /\ StartEnds(s) \/ (UNCHANGED services /\ Goto("waitPort", "none") /\ NoReply)
    /\ UNCHANGED <<stage, bQuit, broke, connected, plugin, disk, shared>>

(* Somebody else has come to listen on the port that waitTcpPort tries.        *)
PortAnswered(s) ==
    /\ pc = "waitPort"
    /\ NextService(s)
    /\ StartEnds(s)
    /\ UNCHANGED <<stage, bQuit, broke, connected, plugin, disk, shared>>

-------------------------------------------------------------------------------
(* The finally clause of run(). *)

Final == /\ pc = "final"
         /\ Goto(IF stage = "none" THEN "fini" ELSE "stop", "final")
         /\ UNCHANGED <<stage, broke, connected, plugin, services, request, disk, shared>>

(* Mutant of Del: sessionDict.pop(sslSock, None), which hides the race. *)
DelQuietly == /\ pc = "del"
              /\ entry' = IF entry = "present" THEN "removed" ELSE entry
              /\ Goto("close", "final")
              /\ UNCHANGED <<stage, broke, connected, plugin, services, request, disk, sockOpen>>

(* del sessionDict[sslSock] raises KeyError if the main thread has not entered  *)
(* the session yet.                                                             *)
Del == /\ pc = "del"
       /\ \/ entry = "present" /\ entry' = "removed" /\ Goto("close", "final") /\ UNCHANGED broke
          \/ entry = "pending" /\ broke' = broke \cup {"del"} /\ Goto("dead", "none")
             /\ UNCHANGED entry
       /\ UNCHANGED <<stage, connected, plugin, services, request, disk, sockOpen>>

Close == /\ pc = "close"
         /\ sockOpen' = FALSE
         /\ Goto("dead", "none")
         /\ UNCHANGED <<stage, broke, connected, plugin, services, request, disk, entry>>

-------------------------------------------------------------------------------
Init == /\ pc = "select" /\ ctx = "none"
        /\ stage = "none" /\ bQuit = FALSE /\ sendBuf = FALSE
        /\ broke = {}
        /\ connected = TRUE /\ script \in {"init", "any"}
        /\ plugin = FALSE
        /\ services = {}
        /\ loopDev = FALSE /\ mounted = FALSE /\ attrs = FALSE
        /\ dirs \in PlainTree
        /\ entry = "pending" /\ sockOpen = TRUE

Environment == ClientLeaves \/ ClientSync \/ Register

Request == \/ RecvInit \/ RecvSyncup \/ RecvWorking
           \/ RecvOutOfOrder \/ RecvQuit \/ RecvOther

(* What the thread does without waiting for a request. *)
ThreadStep == \/ SendReply \/ PeerGone
              \/ LoadPlugin \/ Mount \/ FinishInit \/ Fini
              \/ StopServices \/ PluginStageEnd \/ UnPrepareRoot
              \/ PrepareRoot \/ PluginStageStart
              \/ \E s \in {"rsyncUp", "rsyncDown", "ssh", "catfile"} : StartService(s)
              \/ Final \/ Del \/ Close

(* A session that is over and whose client has left does nothing more. *)
Over == pc = "dead" /\ ~connected /\ entry # "pending" /\ UNCHANGED vars

(* A thread that waits for a port of its own dead daemon: nobody has to take   *)
(* the port, so the step is not one of ThreadStep's.                           *)
Answer == \E s \in {"rsyncUp", "rsyncDown", "ssh", "catfile"} : PortAnswered(s)

Next == Environment \/ Request \/ ThreadStep \/ LoopRaises \/ Answer \/ Over

Spec == Init /\ [][Next]_vars

(* The operating system schedules the thread, and the commands it waits for    *)
(* finish or fail.  Nothing says so of the port of a daemon that has ended.    *)
LiveSpec == Spec /\ WF_vars(ThreadStep)

-------------------------------------------------------------------------------
(* Properties. *)

(* Every variable keeps its type. *)
TypeOK ==
    /\ pc \in {"select", "load", "mount", "finishInit", "fini", "stop", "pluginEnd", "unprep",
               "prep", "pluginStart", "startServ", "waitPort", "final", "del", "close", "dead"}
    /\ ctx \in {"none", "init", "prep", "switch", "undo", "final"}
    /\ stage \in {"none", "syncup", "working"}
    /\ broke \subseteq {"mountUndo", "fini", "catfileStop", "syncupEnd", "workingEnd", "del"}
    /\ services \subseteq {"rsyncUp", "rsyncDown", "ssh", "catfile"}
    /\ dirs \in [Special -> {"absent", "plain", "mounted"}]
    /\ entry \in {"pending", "present", "removed"}
    /\ script \in {"init", "stage-syncup", "stage-working", "quit", "nothing", "any"}
    /\ {bQuit, sendBuf, connected, plugin, loopDev, mounted, attrs, sockOpen} \subseteq BOOLEAN

(* A session that is over has stopped every service of its client, on whichever *)
(* path it ended, but for one: if catfileServ.stop() raised, sshd and the        *)
(* read-only rsyncd may have been left running, and only these two.              *)
ServicesStopped ==
    pc = "dead" => services = {} \/ ("catfileStop" \in broke /\ services = {"ssh", "rsyncDown"})

(* The upload daemon, a writable rsyncd that runs as root, never runs while   *)
(* prepareRoot has the host's /dev, /sys, ... mounted under its root, nor     *)
(* together with the daemons of the working stage.                            *)
UploadExclusive == "rsyncUp" \in services => services = {"rsyncUp"} /\ ~SpecialMounted

(* Whenever the thread waits for a request and no cleanup has raised, the     *)
(* session holds exactly what its stage needs: all the daemons of the stage,  *)
(* and the mounts and attributes of prepareRoot in "working" and only there.  *)
SettledStage ==
    (pc = "select" /\ broke = {}) =>
        /\ services = ServicesOf(stage)
        /\ attrs <=> (stage = "working")
        /\ \A d \in Special : dirs[d] = "mounted" <=> stage = "working"

(* If no cleanup step raised, a session that is over leaves nothing behind:   *)
(* no disk mounted, no directory mounted, no entry in sessionDict, no socket. *)
CleanDeath == (pc = "dead" /\ broke = {}) => /\ ~mounted /\ ~SpecialMounted
                                             /\ entry = "removed" /\ ~sockOpen

(* With the client of examples/remote-emerge.py, the daemons always serve the *)
(* client's disk, never the bare directory it is mounted on (README, "How     *)
(* does it work?": the client's files are synced into a disk image).          *)
ServedDiskIsMounted == (~AnyOrder /\ services # {}) => mounted

(* With that client, _workingStageEndHandler of gbs_ctrl_server.py keeps its   *)
(* comment, "should raise no exception".                                       *)
WorkingEndRaisesNothing == ~AnyOrder => "workingEnd" \notin broke

(* A session whose client has gone ends, and so does one that was asked to     *)
(* quit, even if the client stays, whatever it was doing; unless it waits, from *)
(* some time on for ever, for the port of a daemon that has ended.             *)
SessionEnds == (~connected \/ bQuit) ~> (pc = "dead" \/ [](pc = "waitPort"))

(* The session implements its lease. *)
Lease == INSTANCE SessionLease WITH phase <- IF pc = "dead" THEN "closed" ELSE stage,
                                    granted <- services
LeaseSpec == Lease!Spec
===============================================================================
