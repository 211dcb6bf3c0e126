--------------------------------- MODULE Daemon ---------------------------------
(***************************************************************************)
(* The life of syncupd (syncupd, GbsDaemon of gbs_daemon.py) as a process  *)
(* among others: what it shares with an instance started beside it or      *)
(* after it, and with "syncupctl initialize" of gbs_cmd.py, which writes   *)
(* the same certificate and key.                                           *)
(*                                                                         *)
(* pc is the next step of a process.  The steps from "pid" to "serving"    *)
(* are the try clause of GbsDaemon.run; "avahiStop", "ctrlStop" and        *)
(* "clean" its finally clause, of which a step that raises skips the rest; *)
(* "outer" and "exit" are the finally clause of syncupd and the end of the *)
(* process, which waits for the session threads.  A file holds a key pair  *)
(* by its number; it is Torn from when it is opened to when it is written. *)
(* One client has sessions; its disk stays mounted if nobody unmounts it.  *)
(***************************************************************************)
EXTENDS Integers

CONSTANTS
    Daemons,        \* instances of syncupd
    Ctl,            \* "syncupctl initialize"
    MaxStarts,      \* bound on the processes started
    MaxKeys         \* bound on the key pairs generated

ASSUME ProcessAssumption == /\ Ctl \notin Daemons
                            /\ Daemons \cap {"free", "waiting", "absent", "empty"} = {}
ASSUME BoundAssumption == {MaxStarts, MaxKeys} \subseteq Nat \ {0}

Absent == 0
Torn   == -1

VARIABLES
    pc,
    made,       \* the key pair the process has generated
    avahiObj,   \* self.avahiObj: "none", "made", or "started"
    session,    \* the client's session with the instance: none, "open", or "mounted"
    stale,      \* instances whose sessionDict still has a session that has ended
    tmpDirs,    \* instances whose tmpDir exists
    runDir,     \* "absent", "empty", or the instance the pid file in it names
    cert, key,  \* certFile and privkeyFile
    port,       \* "free", "waiting" for old connections, or the instance that has it
    disk,       \* the client's disk is mounted
    started, generated,
    abandoned,  \* instances whose finally clause raised before sessions were joined
    killed,     \* history: an instance was killed
    unreleased, \* history: a session's end has raised before it unmounted the disk
    spoiled     \* history: writing a pair was cut short, or two were written at once

objects == <<avahiObj, abandoned, stale>>
process == <<made, objects>>
keys    == <<cert, key, generated, spoiled>>
dirs    == <<tmpDirs, runDir>>
clients == <<session, disk>>
history == <<started, killed, unreleased>>
vars    == <<pc, process, keys, dirs, port, clients, history>>

Procs   == Daemons \cup {Ctl}
Writing == {"openCert", "fillCert", "openKey", "fillKey"}

Goto(p, to) == pc' = [pc EXCEPT ![p] = to]

-------------------------------------------------------------------------------
(* Starting. *)

(* syncupd makes a tmpDir of its own. *)
Start(d) == /\ pc[d] = "off" /\ started < MaxStarts
            /\ started' = started + 1
            /\ Goto(d, "clear")
            /\ tmpDirs' = tmpDirs \cup {d}
            /\ UNCHANGED <<process, keys, runDir, port, clients, killed, unreleased>>

(* runDir is everybody's; it is cleared before the try clause. *)
ClearRunDir(d) == /\ pc[d] = "clear"
                  /\ \/ runDir' = "empty" /\ Goto(d, "pid")
                     \/ UNCHANGED runDir /\ Goto(d, "outer")
                  /\ UNCHANGED <<process, keys, tmpDirs, port, clients, history>>

WritePidFile(d) == /\ pc[d] = "pid"
                   /\ IF runDir = "absent" THEN Goto(d, "avahiStop") /\ UNCHANGED runDir
                                           ELSE Goto(d, "check") /\ runDir' = d
                   /\ UNCHANGED <<process, keys, tmpDirs, port, clients, history>>

Generate(p) == /\ generated < MaxKeys
               /\ generated' = generated + 1
               /\ made' = [made EXCEPT ![p] = generated']
               /\ Goto(p, "openCert")

(* Mutant of CheckKeys: only the certificate is looked for. *)
CheckCertOnly(d) == /\ pc[d] = "check"
                    /\ IF cert # Absent THEN Goto(d, "bind") /\ UNCHANGED <<made, generated>>
                                        ELSE Generate(d)
                    /\ UNCHANGED <<objects, cert, key, spoiled, dirs, port, clients, history>>

CheckKeys(d) == /\ pc[d] = "check"
                /\ IF cert # Absent /\ key # Absent
                     THEN Goto(d, "bind") /\ UNCHANGED <<made, generated>>
                     ELSE Generate(d)
                /\ UNCHANGED <<objects, cert, key, spoiled, dirs, port, clients, history>>

Initialize == /\ pc[Ctl] = "off"
              /\ Generate(Ctl)
              /\ UNCHANGED <<objects, cert, key, spoiled, dirs, port, clients, history>>

Written(p) == IF p = Ctl THEN "off" ELSE "bind"

Overlap(p) == \E q \in Procs \ {p} : pc[q] \in Writing

(* dumpCertAndKey. *)
DumpKeys(p) ==
    /\ \/ pc[p] = "openCert" /\ cert' = Torn    /\ UNCHANGED key  /\ Goto(p, "fillCert")
       \/ pc[p] = "fillCert" /\ cert' = made[p] /\ UNCHANGED key  /\ Goto(p, "openKey")
       \/ pc[p] = "openKey"  /\ key'  = Torn    /\ UNCHANGED cert /\ Goto(p, "fillKey")
       \/ pc[p] = "fillKey"  /\ key'  = made[p] /\ UNCHANGED cert /\ Goto(p, Written(p))
    /\ spoiled' = (spoiled \/ Overlap(p))
    /\ made' = IF pc'[p] \in Writing THEN made ELSE [made EXCEPT ![p] = Absent]
    /\ UNCHANGED <<objects, generated, dirs, port, clients, history>>

(* As on a full disk. *)
DumpFails(p) == /\ pc[p] \in Writing
                /\ Goto(p, IF p = Ctl THEN "off" ELSE "avahiStop")
                /\ spoiled' = TRUE
                /\ made' = [made EXCEPT ![p] = Absent]
                /\ UNCHANGED <<objects, cert, key, generated, dirs, port, clients, history>>

(* GbsCtrlServer.start: the address is not reused while old connections wait. *)
Bind(d) == /\ pc[d] = "bind"
           /\ IF port = "free" THEN port' = d /\ Goto(d, "announce")
                               ELSE UNCHANGED port /\ Goto(d, "avahiStop")
           /\ UNCHANGED <<process, keys, dirs, clients, history>>

(* The list of plugins and AvahiServiceRegister.start may raise. *)
Announce(d) == /\ pc[d] = "announce"
               /\ \/ avahiObj' = [avahiObj EXCEPT ![d] = "started"]
                     /\ \E to \in {"serving", "avahiStop"} : Goto(d, to)
                  \/ avahiObj' = [avahiObj EXCEPT ![d] = "made"] /\ Goto(d, "avahiStop")
               /\ UNCHANGED <<made, abandoned, stale, keys, dirs, port, clients, history>>

-------------------------------------------------------------------------------
(* Sessions.  The main loop opens them; their threads go on without it. *)

OpenSession(d) == /\ pc[d] = "serving" /\ session[d] = "none"
                  /\ cert = key /\ cert > 0
                  /\ session' = [session EXCEPT ![d] = "open"]
                  /\ UNCHANGED <<pc, process, keys, dirs, port, disk, history>>

(* The kernel refuses to mount what is mounted already. *)
MountDisk(d) == /\ session[d] = "open" /\ ~disk
                /\ session' = [session EXCEPT ![d] = "mounted"]
                /\ disk' = TRUE
                /\ UNCHANGED <<pc, process, keys, dirs, port, history>>

EndSession(d) == /\ session[d] # "none"
                 /\ session' = [session EXCEPT ![d] = "none"]
                 /\ disk' = (disk /\ session[d] # "mounted")
                 /\ UNCHANGED <<pc, process, keys, dirs, port, history>>

(* The session's finally clause raises, before or after it has unmounted the   *)
(* disk: its entry stays in sessionDict.                                       *)
EndFails(d) == /\ session[d] # "none"
               /\ session' = [session EXCEPT ![d] = "none"]
               /\ stale' = stale \cup {d}
               /\ \/ disk' = (disk /\ session[d] # "mounted") /\ UNCHANGED unreleased
                  \/ session[d] = "mounted" /\ unreleased' = TRUE /\ UNCHANGED disk
               /\ UNCHANGED <<pc, made, avahiObj, abandoned, keys, dirs, port, started, killed>>

-------------------------------------------------------------------------------
(* Stopping. *)

Quit(d) == /\ pc[d] = "serving"
           /\ Goto(d, "avahiStop")
           /\ UNCHANGED <<process, keys, dirs, port, clients, history>>

(* Mutant of Skip: syncupd has no finally clause of its own. *)
SkipAll(d) == /\ Goto(d, "exit")
              /\ abandoned' = abandoned \cup {d}

Skip(d) == /\ Goto(d, "outer")
           /\ abandoned' = abandoned \cup {d}

(* Before start() has run, the object lacks what stop() looks at. *)
AvahiStop(d) == /\ pc[d] = "avahiStop"
                /\ IF avahiObj[d] = "made" THEN Skip(d)
                                           ELSE Goto(d, "ctrlStop") /\ UNCHANGED abandoned
                /\ UNCHANGED <<made, avahiObj, stale, keys, dirs, port, clients, history>>

Release(d) == port' \in IF port = d THEN {"free", "waiting"} ELSE {port}

(* Mutants of CtrlStop: the sessions are not joined; the server socket is      *)
(* closed before they are; stop() waits for sessionDict to become empty.       *)
CtrlStopNoJoin(d) == /\ pc[d] = "ctrlStop"
                     /\ Release(d) /\ Goto(d, "clean")
                     /\ UNCHANGED <<process, keys, dirs, clients, history>>

CtrlStopClosesFirst(d) == /\ pc[d] = "ctrlStop"
                          /\ Release(d)
                          /\ \/ session[d] = "none" /\ Goto(d, "clean") /\ UNCHANGED abandoned
                             \/ session[d] # "none" /\ Skip(d)
                          /\ UNCHANGED <<made, avahiObj, stale, keys, dirs, clients, history>>

CtrlStopWaitsEmpty(d) == /\ pc[d] = "ctrlStop"
                         /\ session[d] = "none" /\ d \notin stale
                         /\ Release(d) /\ Goto(d, "clean")
                         /\ UNCHANGED <<process, keys, dirs, clients, history>>

(* GbsCtrlServer.stop joins every session.  It raises if the dictionary changes *)
(* under its loop, or if shutdown() fails on a broken connection, be it that of *)
(* a session that has ended and is still entered.                               *)
CtrlStop(d) == /\ pc[d] = "ctrlStop"
               /\ \/ session[d] = "none" /\ Release(d) /\ Goto(d, "clean") /\ UNCHANGED abandoned
                  \/ (session[d] # "none" \/ d \in stale) /\ Skip(d) /\ UNCHANGED port
               /\ UNCHANGED <<made, avahiObj, stale, keys, dirs, clients, history>>

(* The memory of a process that ends. *)
Forget(p) == /\ made' = [made EXCEPT ![p] = Absent]
             /\ avahiObj' = [avahiObj EXCEPT ![p] = "none"]
             /\ abandoned' = abandoned \ {p}
             /\ stale' = stale \ {p}

(* rmtree raises for a runDir that another instance has removed. *)
Clean(d) == /\ pc[d] = "clean"
            /\ Goto(d, "outer")
            /\ runDir' = "absent"
            /\ tmpDirs' = IF runDir = "absent" THEN tmpDirs ELSE tmpDirs \ {d}
            /\ UNCHANGED <<process, keys, port, clients, history>>

Outer(d) == /\ pc[d] = "outer"
            /\ Goto(d, "exit")
            /\ tmpDirs' = tmpDirs \ {d}
            /\ runDir' = "absent"
            /\ UNCHANGED <<process, keys, port, clients, history>>

Exit(d) == /\ pc[d] = "exit" /\ session[d] = "none"
           /\ Goto(d, "off")
           /\ Release(d)
           /\ Forget(d)
           /\ UNCHANGED <<keys, dirs, clients, history>>

-------------------------------------------------------------------------------
(* What nothing in the code does. *)

Kill(p) == /\ pc[p] # "off"
           /\ Goto(p, "off")
           /\ spoiled' = (spoiled \/ pc[p] \in Writing)
           /\ killed' = (killed \/ p \in Daemons)
           /\ Release(p)
           /\ session' = [q \in Daemons |-> IF q = p THEN "none" ELSE session[q]]
           /\ Forget(p)
           /\ UNCHANGED <<cert, key, generated, dirs, disk, started, unreleased>>

PortExpires == /\ port = "waiting"
               /\ port' = "free"
               /\ UNCHANGED <<pc, process, keys, dirs, clients, history>>

-------------------------------------------------------------------------------
Init == /\ pc = [p \in Procs |-> "off"]
        /\ made = [p \in Procs |-> Absent]
        /\ avahiObj = [p \in Procs |-> "none"]
        /\ session = [d \in Daemons |-> "none"]
        /\ tmpDirs = {} /\ runDir = "absent"
        /\ cert \in {Absent, 1} /\ key \in {Absent, 1}
        /\ port = "free"
        /\ disk = FALSE
        /\ started = 0 /\ generated = 1
        /\ killed = FALSE /\ spoiled = FALSE
        /\ abandoned = {} /\ stale = {} /\ unreleased = FALSE

MainStep(d) == \/ ClearRunDir(d) \/ WritePidFile(d) \/ CheckKeys(d) \/ DumpKeys(d) \/ DumpFails(d)
               \/ Bind(d) \/ Announce(d)
               \/ AvahiStop(d) \/ CtrlStop(d) \/ Clean(d) \/ Outer(d) \/ Exit(d)

Next == \/ \E d \in Daemons : \/ Start(d) \/ MainStep(d) \/ Quit(d) \/ Kill(d)
                              \/ OpenSession(d) \/ MountDisk(d)
                              \/ EndSession(d) \/ EndFails(d)
        \/ Initialize \/ DumpKeys(Ctl) \/ DumpFails(Ctl) \/ Kill(Ctl)
        \/ PortExpires

Spec == Init /\ [][Next]_vars

(* The process is scheduled; that a client leaves is nowhere promised. *)
LiveSpec == Spec /\ \A d \in Daemons : WF_vars(MainStep(d))
-------------------------------------------------------------------------------
(* Properties. *)

(* Every variable keeps its type. *)
TypeOK == /\ pc \in [Procs -> Writing \cup {"off", "clear", "pid", "check", "bind", "announce",
                                           "serving", "avahiStop", "ctrlStop", "clean", "outer",
                                           "exit"}]
          /\ pc[Ctl] \in Writing \cup {"off"}
          /\ made \in [Procs -> 0..MaxKeys]
          /\ avahiObj \in [Procs -> {"none", "made", "started"}]
          /\ session \in [Daemons -> {"none", "open", "mounted"}]
          /\ tmpDirs \subseteq Daemons /\ abandoned \subseteq Daemons /\ stale \subseteq Daemons
          /\ runDir \in Daemons \cup {"absent", "empty"}
          /\ {cert, key} \subseteq Torn..MaxKeys
          /\ port \in Daemons \cup {"free", "waiting"}
          /\ {disk, killed, spoiled, unreleased} \subseteq BOOLEAN
          /\ {started, generated} \subseteq Nat

(* An instance serves with a certificate and a key that belong together,       *)
(* however often it was killed and whoever else writes them: only a pair whose *)
(* writing was cut short, or that two processes wrote at once, is spoiled.     *)
KeysBelongTogether == \/ spoiled
                      \/ \E p \in Procs : pc[p] \in Writing
                      \/ \A d \in Daemons : pc[d] = "serving" => cert = key /\ cert > 0

(* The client has sessions with one instance at a time, even with one that is  *)
(* still ending: two would serve the same disk.                                *)
OneServer == \A d, e \in Daemons : (session[d] # "none" /\ session[e] # "none") => d = e

(* If none was killed, the instances have left nothing behind once all of them *)
(* have ended, wherever they failed: except the mounted disk of a session      *)
(* whose own end raised before it unmounted it.                                *)
NothingLeftBehind == (~killed /\ \A d \in Daemons : pc[d] = "off") =>
                   /\ tmpDirs = {} /\ runDir = "absent"
                   /\ port \notin Daemons /\ (disk => unreleased)

(* The files of a session's services are there as long as the session, unless  *)
(* a step of the finally clause has raised before it was joined.               *)
TmpDirOutlivesSessions ==
    \A d \in Daemons : session[d] # "none" => d \in tmpDirs \/ d \in abandoned

(* The types hold, and every session has one instance and its files.           *)
SessionsServed == TypeOK /\ OneServer /\ TmpDirOutlivesSessions

(* An instance that was asked to end does once its last session is over, also   *)
(* if a session's end has raised and left its entry behind.  While a client     *)
(* stays, it does not: stop() and the process wait for the session thread.      *)
ProcessEnds == \A d \in Daemons :
    pc[d] \in {"avahiStop", "ctrlStop", "clean", "outer", "exit"} /\ session[d] = "none"
        ~> pc[d] = "off"
===============================================================================
