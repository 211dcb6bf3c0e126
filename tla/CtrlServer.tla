------------------------------- MODULE CtrlServer -------------------------------
(***************************************************************************)
(* The control server of syncupd: the main thread of GbsCtrlServer         *)
(* (gbs_ctrl_server.py), which takes completed handshakes, looks for a     *)
(* session of the same client, starts session threads and ends them when   *)
(* the daemon stops, against the session threads, which remove themselves  *)
(* from the dictionary it iterates over.                                   *)
(*                                                                         *)
(* A session thread is cut down to what it shares with others: the disk of *)
(* its system and its entry in sessionDict; CtrlSession is the whole of    *)
(* it.  A system is the key its client authenticates with: GbsSystem finds *)
(* the directory in the cache by the public key.  The interpreter may      *)
(* switch threads between any two elements of a loop.                      *)
(***************************************************************************)
EXTENDS Naturals, FiniteSets

CONSTANTS
    Conn,           \* connections, one session object each
    Key,            \* the public keys of the clients, one system each
    Nobody,         \* not a connection: no session has the disk mounted
    Stray,          \* not one either: it is mounted, but no session knows of it
    CleanupRaises   \* the finally clause of run() may raise before the entry is
                    \* deleted (CtrlSession: FiniRaises, EndRaises), and so may
                    \* the umount by which mount() undoes itself

ASSUME NobodyAssumption == {Nobody, Stray} \cap Conn = {}
ASSUME FlagAssumption == CleanupRaises \in BOOLEAN

VARIABLES
    main,           \* where the main thread is
    cur,            \* the connection whose handshake it completes
    todo,           \* what is left of the loop it is in
    atStart,        \* sessionDict when the loop began
    sessionDict,    \* the connections with an entry in sessionDict
    conn,           \* a connection, as the server sees it
    client,         \* the clients that still hold their end of a connection
    key,            \* the key the client of a connection authenticates with
    life,           \* a session thread
    disk            \* the session that has the disk of a system mounted

mainVars == <<main, cur, todo, atStart>>
vars == <<mainVars, sessionDict, conn, client, key, life, disk>>

(* Sessions whose thread has not finished its finally clause's cleanup. *)
Active(c) == life[c] \in {"running", "hung", "ending"}

-------------------------------------------------------------------------------
(* Clients, and the handshake, which the main thread drives by callbacks. *)

ClientLeaves(c) == /\ c \in client
                   /\ client' = client \ {c}
                   /\ UNCHANGED <<mainVars, sessionDict, conn, key, life, disk>>

Accept(c) == /\ main = "loop"
             /\ conn[c] = "none"
             /\ conn' = [conn EXCEPT ![c] = "shaking"]
             /\ UNCHANGED <<mainVars, sessionDict, client, key, life, disk>>

(* _onEvent's own error handling raises (exceptions have no "message"), so the *)
(* socket of a failed handshake is neither closed nor forgotten.               *)
HandshakeFails(c) == /\ main = "loop"
                     /\ conn[c] = "shaking"
                     /\ conn' = [conn EXCEPT ![c] = "stuck"]
                     /\ UNCHANGED <<mainVars, sessionDict, client, key, life, disk>>

-------------------------------------------------------------------------------
(* onHandShakeComplete. *)

HandshakeComplete(c) == /\ main = "loop"
                        /\ conn[c] = "shaking"
                        /\ main' = "check"
                        /\ cur' = c
                        /\ todo' = sessionDict
                        /\ atStart' = sessionDict
                        /\ UNCHANGED <<sessionDict, conn, client, key, life, disk>>

(* An exception leaves the callback: the main loop goes on, the socket stays    *)
(* open and in the handshaker's table.                                          *)
CallbackRaises == /\ main' = "loop"
                  /\ conn' = [conn EXCEPT ![cur] = "stuck"]
                  /\ UNCHANGED <<cur, todo, atStart, sessionDict, client, key, life, disk>>

(* A dictionary refuses to be iterated on once its size has changed. *)
DictChanged == sessionDict # atStart

CheckInterrupted == main = "check" /\ DictChanged /\ CallbackRaises

(* No session is found a duplicate: pyOpenSSL's PKey defines no equality, and   *)
(* each connection makes a key object of its own, so the comparison of two of   *)
(* them is false even if the keys are the same.                                 *)
CheckPasses(c) == /\ main = "check" /\ ~DictChanged
                  /\ c \in todo
                  /\ todo' = todo \ {c}
                  /\ UNCHANGED <<main, cur, atStart, sessionDict, conn, client, key, life, disk>>

CheckDone == /\ main = "check" /\ ~DictChanged
             /\ todo = {}
             /\ main' = "create"
             /\ UNCHANGED <<cur, todo, atStart, sessionDict, conn, client, key, life, disk>>

(* GbsSystem cannot be created or read, or the client's address is gone. *)
CreateFails == main = "create" /\ CallbackRaises

(* The session object is made and its thread started: it runs from here on. *)
StartSession == /\ main = "create"
                /\ life' = [life EXCEPT ![cur] = "running"]
                /\ conn' = [conn EXCEPT ![cur] = "served"]
                /\ main' = "register"
                /\ UNCHANGED <<cur, todo, atStart, sessionDict, client, key, disk>>

(* Mutant of Register: the entry is made under the key, where the message about *)
(* a duplicate would look for it.                                               *)
RegisterKey == /\ main = "register"
               /\ sessionDict' = sessionDict \cup {key[cur]}
               /\ main' = "loop"
               /\ UNCHANGED <<cur, todo, atStart, conn, client, key, life, disk>>

(* Only now it enters sessionDict, even if its thread is over by then. *)
Register == /\ main = "register"
            /\ sessionDict' = sessionDict \cup {cur}
            /\ main' = "loop"
            /\ UNCHANGED <<cur, todo, atStart, conn, client, key, life, disk>>

-------------------------------------------------------------------------------
(* A session thread. *)

(* "init" mounts the disk of the system unless it is mounted already. *)
MountDisk(c) == /\ life[c] = "running"
                /\ disk[key[c]] = Nobody
                /\ disk' = [disk EXCEPT ![key[c]] = c]
                /\ UNCHANGED <<mainVars, sessionDict, conn, client, key, life>>

(* mount() finds no loop device of the disk it has mounted, and its umount      *)
(* fails: loopDev stays None, so nobody will unmount the disk.                  *)
MountUndoFails(c) == /\ CleanupRaises
                     /\ life[c] = "running"
                     /\ disk[key[c]] = Nobody
                     /\ disk' = [disk EXCEPT ![key[c]] = Stray]
                     /\ UNCHANGED <<mainVars, sessionDict, conn, client, key, life>>

(* An "init" that fails, or comes a second time, runs _finiHandler. *)
InitFails(c) == /\ life[c] = "running"
                /\ disk[key[c]] = c
                /\ disk' = [disk EXCEPT ![key[c]] = Nobody]
                /\ UNCHANGED <<mainVars, sessionDict, conn, client, key, life>>

(* A service's start() waits for the port of a daemon that has ended, for ever  *)
(* unless somebody else comes to listen on it (CtrlSession, "waitPort").        *)
StartHangs(c) == /\ life[c] = "running"
                 /\ life' = [life EXCEPT ![c] = "hung"]
                 /\ UNCHANGED <<mainVars, sessionDict, conn, client, key, disk>>

PortAnswered(c) == /\ life[c] = "hung"
                   /\ life' = [life EXCEPT ![c] = "running"]
                   /\ UNCHANGED <<mainVars, sessionDict, conn, client, key, disk>>

(* Mutant of LeaveLoop: the finally clause deletes the entry first. *)
LeaveLoopAndEntry(c) == /\ life[c] = "running"
                        /\ life' = [life EXCEPT ![c] = "ending"]
                        /\ sessionDict' = sessionDict \ {c}
                        /\ UNCHANGED <<mainVars, conn, client, key, disk>>

(* The client left, asked to quit, or made the request loop fail. *)
LeaveLoop(c) == /\ life[c] = "running"
                /\ life' = [life EXCEPT ![c] = "ending"]
                /\ UNCHANGED <<mainVars, sessionDict, conn, client, key, disk>>

(* Mutant of Cleanup: the disk stays mounted. *)
CleanupNoUnmount(c) == /\ life[c] = "ending"
                       /\ life' = [life EXCEPT ![c] = "del"]
                       /\ UNCHANGED <<mainVars, sessionDict, conn, client, key, disk>>

(* The end handler of the stage and _finiHandler. *)
Cleanup(c) == /\ life[c] = "ending"
              /\ life' = [life EXCEPT ![c] = "del"]
              /\ disk' = IF disk[key[c]] = c THEN [disk EXCEPT ![key[c]] = Nobody] ELSE disk
              /\ UNCHANGED <<mainVars, sessionDict, conn, client, key>>

CleanupFails(c) == /\ CleanupRaises
                   /\ life[c] = "ending"
                   /\ life' = [life EXCEPT ![c] = "dead"]
                   /\ UNCHANGED <<mainVars, sessionDict, conn, client, key, disk>>

DelEntry(c) == /\ life[c] = "del"
               /\ c \in sessionDict
               /\ sessionDict' = sessionDict \ {c}
               /\ life' = [life EXCEPT ![c] = "close"]
               /\ UNCHANGED <<mainVars, conn, client, key, disk>>

(* KeyError: the main thread has not entered the session yet. *)
DelTooEarly(c) == /\ life[c] = "del"
                  /\ c \notin sessionDict
                  /\ life' = [life EXCEPT ![c] = "dead"]
                  /\ UNCHANGED <<mainVars, sessionDict, conn, client, key, disk>>

CloseSocket(c) == /\ life[c] = "close"
                  /\ conn' = [conn EXCEPT ![c] = "closed"]
                  /\ life' = [life EXCEPT ![c] = "dead"]
                  /\ UNCHANGED <<mainVars, sessionDict, client, key, disk>>

-------------------------------------------------------------------------------
(* stop(), called once the main loop has been quit by a signal. *)

Stop == /\ main = "loop"
        /\ main' = "shutdown"
        /\ todo' = sessionDict
        /\ atStart' = sessionDict
        /\ UNCHANGED <<cur, sessionDict, conn, client, key, life, disk>>

(* sessObj.stop() sends the client a close_notify, nothing else. *)
ShutdownSession(c) == /\ main = "shutdown" /\ ~DictChanged
                      /\ c \in todo
                      /\ todo' = todo \ {c}
                      /\ UNCHANGED <<main, cur, atStart, sessionDict, conn, client, key, life, disk>>

(* ... which fails on a connection that is broken. *)
ShutdownFails(c) == /\ main = "shutdown" /\ ~DictChanged
                    /\ c \in todo /\ c \notin client
                    /\ main' = "sslError"
                    /\ UNCHANGED <<cur, todo, atStart, sessionDict, conn, client, key, life, disk>>

ShutdownInterrupted == /\ main = "shutdown" /\ DictChanged
                       /\ main' = "loopError"
                       /\ UNCHANGED <<cur, todo, atStart, sessionDict, conn, client, key, life, disk>>

(* Mutant of ShutdownDone: stop() waits for no session. *)
ShutdownNoJoin == /\ main = "shutdown" /\ ~DictChanged
                  /\ todo = {}
                  /\ main' = "join"
                  /\ UNCHANGED <<cur, todo, atStart, sessionDict, conn, client, key, life, disk>>

(* The second loop iterates over a copy. *)
ShutdownDone == /\ main = "shutdown" /\ ~DictChanged
                /\ todo = {}
                /\ main' = "join"
                /\ todo' = sessionDict
                /\ UNCHANGED <<cur, atStart, sessionDict, conn, client, key, life, disk>>

(* Mutant of JoinSession: stop() waits for the entry to go, not for the thread. *)
JoinEntry(c) == /\ main = "join"
                /\ c \in todo \ sessionDict
                /\ todo' = todo \ {c}
                /\ UNCHANGED <<main, cur, atStart, sessionDict, conn, client, key, life, disk>>

JoinSession(c) == /\ main = "join"
                  /\ c \in todo
                  /\ life[c] = "dead"
                  /\ todo' = todo \ {c}
                  /\ UNCHANGED <<main, cur, atStart, sessionDict, conn, client, key, life, disk>>

JoinDone == /\ main = "join"
            /\ todo = {}
            /\ main' = "stopped"
            /\ UNCHANGED <<cur, todo, atStart, sessionDict, conn, client, key, life, disk>>

-------------------------------------------------------------------------------
Init == /\ main = "loop" /\ cur = Nobody /\ todo = {} /\ atStart = {}
        /\ sessionDict = {}
        /\ conn = [c \in Conn |-> "none"]
        /\ client = Conn
        /\ key \in [Conn -> Key]
        /\ life = [c \in Conn |-> "unborn"]
        /\ disk = [k \in Key |-> Nobody]

(* What the main thread does without waiting for an event. *)
MainStep == \/ CheckInterrupted \/ CheckDone
            \/ CreateFails \/ StartSession \/ Register
            \/ ShutdownInterrupted \/ ShutdownDone \/ JoinDone
            \/ \E c \in Conn : \/ CheckPasses(c)
                               \/ ShutdownSession(c) \/ ShutdownFails(c) \/ JoinSession(c)

(* What a session thread does once its request loop is over. *)
EndStep(c) == Cleanup(c) \/ CleanupFails(c) \/ DelEntry(c) \/ DelTooEarly(c) \/ CloseSocket(c)

SessionStep(c) == \/ MountDisk(c) \/ MountUndoFails(c) \/ InitFails(c)
                  \/ StartHangs(c) \/ PortAnswered(c)
                  \/ LeaveLoop(c) \/ EndStep(c)

(* The process waits for its session threads after stop() or an exception in it. *)
Over == /\ main \in {"stopped", "sslError", "loopError"}
        /\ UNCHANGED vars

Next == \/ MainStep
        \/ Stop
        \/ Over
        \/ \E c \in Conn : \/ ClientLeaves(c) \/ Accept(c)
                           \/ HandshakeFails(c) \/ HandshakeComplete(c)
                           \/ SessionStep(c)

Spec == Init /\ [][Next]_vars

(* Both kinds of threads are scheduled, and a request loop notices that its     *)
(* client has left (CtrlSession, SessionEnds).  Nothing is assumed of the       *)
(* clients, nor of a port that a thread waits for.                              *)
LiveSpec == /\ Spec
            /\ WF_vars(MainStep)
            /\ \A c \in Conn : /\ WF_vars(EndStep(c))
                               /\ WF_vars(c \notin client /\ LeaveLoop(c))

-------------------------------------------------------------------------------
(* Properties. *)

(* Every variable keeps its type. *)
TypeOK ==
    /\ main \in {"loop", "check", "create", "register", "shutdown", "join",
                 "stopped", "sslError", "loopError"}
    /\ cur \in Conn \cup {Nobody}
    /\ todo \subseteq Conn /\ atStart \subseteq Conn
    /\ sessionDict \subseteq Conn /\ client \subseteq Conn
    /\ conn \in [Conn -> {"none", "shaking", "served", "closed", "stuck"}]
    /\ key \in [Conn -> Key]
    /\ life \in [Conn -> {"unborn", "running", "hung", "ending", "del", "close", "dead"}]
    /\ disk \in [Key -> Conn \cup {Nobody, Stray}]

(* stop() can reach every session that still has something to release: it is   *)
(* in sessionDict, unless the main thread is just about to enter it.           *)
ActiveSessionsKnown ==
    \A c \in Conn : Active(c) => c \in sessionDict \/ (main = "register" /\ cur = c)

(* When stop() has returned, every session is past its cleanup, and a session  *)
(* has its disk still mounted only if that cleanup raised.                     *)
StopReleasesAll ==
    main = "stopped" => /\ \A c \in Conn : ~Active(c)
                        /\ \A k \in Key : disk[k] \in Conn => disk[k] \in sessionDict

(* stop() returns, or fails with an SSL error or an interrupted loop, provided *)
(* all clients leave, for it waits for each of them, and no session waits for  *)
(* the port of a dead daemon for good.                                         *)
StopEnds == <>[](client = {} /\ \A c \in Conn : life[c] # "hung") =>
            (main = "shutdown" ~> main \in {"stopped", "sslError", "loopError"})

(* A client that leaves gives its disk back, unless the cleanup raises or is   *)
(* never come to because the thread waits for a port for good.                 *)
DiskIsGivenBack == \A c \in Conn :
    <>[](life[c] # "hung") =>
        ((c \notin client /\ disk[key[c]] = c) ~>
            disk[key[c]] # c \/ (life[c] = "dead" /\ c \in sessionDict))
===============================================================================
