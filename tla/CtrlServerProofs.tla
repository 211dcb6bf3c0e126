---------------------------- MODULE CtrlServerProofs ----------------------------
(***************************************************************************)
(* Proofs about CtrlServer, for any connections and keys, whether or not   *)
(* cleanups raise.                                                         *)
(***************************************************************************)
EXTENDS CtrlServer, TLAPS

(* The session the main thread has started and not yet entered. *)
Entering(c) == main = "register" /\ cur = c

(* While onHandShakeComplete runs, cur is the connection it was called for. *)
CurInv == main \in {"check", "create", "register"} => cur \in Conn

(* No entry belongs to a thread that was never started, and a connection that  *)
(* is not through its handshake has no session.                                *)
BirthInv ==
    /\ main \in {"check", "create"} => conn[cur] = "shaking"
    /\ \A c \in Conn : conn[c] \in {"none", "shaking"} => life[c] = "unborn"
    /\ main = "register" => life[cur] # "unborn"
    /\ \A c \in sessionDict : life[c] # "unborn"

(* A mounted disk is the disk of a session that is not past its cleanup, or    *)
(* whose cleanup raised, and whose entry is there or about to be made.         *)
DiskInv ==
    \A k \in Key : disk[k] \in Conn =>
        /\ key[disk[k]] = k
        /\ life[disk[k]] \in {"running", "hung", "ending", "dead"}
        /\ disk[k] \in sessionDict \/ Entering(disk[k])

(* stop() has not joined a session that is active. *)
JoinInv == /\ main = "join" => \A c \in Conn : Active(c) => c \in todo
           /\ main = "stopped" => \A c \in Conn : ~Active(c)

IInv == /\ BirthInv
        /\ ActiveSessionsKnown
        /\ DiskInv
        /\ JoinInv

-------------------------------------------------------------------------------
(* Whoever moves, the variables keep their types, and onHandShakeComplete is   *)
(* called for a connection.                                                    *)
LEMMA TypeStep ==
  ASSUME TypeOK, CurInv, [Next]_vars
  PROVE  TypeOK' /\ CurInv'
<1> USE DEF TypeOK, CurInv, mainVars
<1>1. ASSUME NEW c \in Conn, SessionStep(c)
      PROVE  TypeOK' /\ CurInv'
  BY <1>1 DEF SessionStep, EndStep, MountDisk, MountUndoFails, InitFails, StartHangs, PortAnswered,
              LeaveLoop, Cleanup, CleanupFails, DelEntry, DelTooEarly, CloseSocket
<1>2. ASSUME NEW c \in Conn, ClientLeaves(c) \/ Accept(c) \/ HandshakeFails(c) \/ HandshakeComplete(c)
      PROVE  TypeOK' /\ CurInv'
  BY <1>2 DEF ClientLeaves, Accept, HandshakeFails, HandshakeComplete
<1>3. ASSUME MainStep \/ Stop
      PROVE  TypeOK' /\ CurInv'
  <2>1. CASE CheckInterrupted \/ CreateFails
    BY <2>1 DEF CheckInterrupted, CreateFails, CallbackRaises
  <2>2. CASE CheckDone \/ StartSession \/ Register
    BY <2>2 DEF CheckDone, StartSession, Register
  <2>3. CASE Stop \/ ShutdownInterrupted \/ ShutdownDone \/ JoinDone
    BY <2>3 DEF Stop, ShutdownInterrupted, ShutdownDone, JoinDone
  <2>4. ASSUME NEW c \in Conn,
               CheckPasses(c) \/ ShutdownSession(c) \/ ShutdownFails(c) \/ JoinSession(c)
        PROVE  TypeOK' /\ CurInv'
    BY <2>4 DEF CheckPasses, ShutdownSession, ShutdownFails, JoinSession
  <2>5. QED
    BY <1>3, <2>1, <2>2, <2>3, <2>4 DEF MainStep
<1>4. UNCHANGED vars => TypeOK' /\ CurInv'
  BY DEF vars
<1>5. QED
  BY <1>1, <1>2, <1>3, <1>4 DEF Next, Over

(* Every variable keeps its type; onHandShakeComplete enters a connection.     *)
THEOREM TypeInductive == Spec => [](TypeOK /\ CurInv)
<1>1. TypeOK /\ CurInv /\ [Next]_vars => (TypeOK /\ CurInv)'
  BY TypeStep
<1>2. Init => TypeOK /\ CurInv
  BY DEF Init, TypeOK, CurInv
<1>3. QED
  BY <1>1, <1>2, PTL DEF Spec

-------------------------------------------------------------------------------
(* The register window, the sessions and the stop loops preserve the rest of   *)
(* the invariant.                                                              *)
LEMMA StepInv ==
  ASSUME TypeOK, CurInv, IInv, [Next]_vars
  PROVE  IInv'
<1> USE DEF TypeOK, CurInv, IInv, mainVars, Active, Entering
<1> USE NobodyAssumption
<1>1. CASE CheckInterrupted \/ CreateFails
  <2>1. /\ CallbackRaises
        /\ main \in {"check", "create"}
    BY <1>1 DEF CheckInterrupted, CreateFails
  <2>2. BirthInv'
    BY <2>1 DEF CallbackRaises, BirthInv
  <2>3. ActiveSessionsKnown' /\ DiskInv' /\ JoinInv'
    BY <2>1 DEF CallbackRaises, ActiveSessionsKnown, DiskInv, JoinInv
  <2>4. QED
    BY <2>2, <2>3
<1>2. CASE CheckDone
  BY <1>2 DEF CheckDone, BirthInv, ActiveSessionsKnown, DiskInv, JoinInv
<1>3. CASE StartSession
  <2>1. BirthInv'
    BY <1>3 DEF StartSession, BirthInv
  <2>2. ActiveSessionsKnown' /\ JoinInv'
    BY <1>3 DEF StartSession, ActiveSessionsKnown, JoinInv
  <2>3. DiskInv'
    BY <1>3 DEF StartSession, DiskInv, BirthInv
  <2>4. QED
    BY <2>1, <2>2, <2>3
<1>4. CASE Register
  <2>1. life[cur] # "unborn"
    BY <1>4 DEF Register, BirthInv
  <2>2. BirthInv'
    BY <1>4, <2>1 DEF Register, BirthInv
  <2>3. ActiveSessionsKnown' /\ DiskInv' /\ JoinInv'
    BY <1>4 DEF Register, ActiveSessionsKnown, DiskInv, JoinInv
  <2>4. QED
    BY <2>2, <2>3
<1>5. CASE Stop \/ ShutdownInterrupted
  BY <1>5 DEF Stop, ShutdownInterrupted, BirthInv, ActiveSessionsKnown, DiskInv, JoinInv
<1>6. CASE ShutdownDone \/ JoinDone
  BY <1>6 DEF ShutdownDone, JoinDone, BirthInv, ActiveSessionsKnown, DiskInv, JoinInv
<1>7. ASSUME NEW c \in Conn, CheckPasses(c)
      PROVE  IInv'
  BY <1>7 DEF CheckPasses, BirthInv, ActiveSessionsKnown, DiskInv, JoinInv
<1>8. ASSUME NEW c \in Conn, ShutdownSession(c) \/ ShutdownFails(c) \/ JoinSession(c)
      PROVE  IInv'
  BY <1>8 DEF ShutdownSession, ShutdownFails, JoinSession, BirthInv, ActiveSessionsKnown, DiskInv, JoinInv
<1>9. ASSUME NEW c \in Conn, ClientLeaves(c)
      PROVE  IInv'
  BY <1>9 DEF ClientLeaves, BirthInv, ActiveSessionsKnown, DiskInv, JoinInv
<1>10. ASSUME NEW c \in Conn, Accept(c) \/ HandshakeFails(c) \/ HandshakeComplete(c)
       PROVE  IInv'
  <2>1. BirthInv'
    BY <1>10 DEF Accept, HandshakeFails, HandshakeComplete, BirthInv
  <2>2. ActiveSessionsKnown' /\ DiskInv' /\ JoinInv'
    BY <1>10 DEF Accept, HandshakeFails, HandshakeComplete, ActiveSessionsKnown,
                 DiskInv, JoinInv
  <2>3. QED
    BY <2>1, <2>2
<1>11. ASSUME NEW c \in Conn, MountDisk(c)
       PROVE  IInv'
  <2>1. DiskInv'
    BY <1>11 DEF MountDisk, DiskInv, ActiveSessionsKnown
  <2>2. BirthInv' /\ ActiveSessionsKnown' /\ JoinInv'
    BY <1>11 DEF MountDisk, BirthInv, ActiveSessionsKnown, JoinInv
  <2>3. QED
    BY <2>1, <2>2
<1>12. ASSUME NEW c \in Conn, MountUndoFails(c) \/ InitFails(c)
       PROVE  IInv'
  BY <1>12 DEF MountUndoFails, InitFails, BirthInv, ActiveSessionsKnown, DiskInv, JoinInv
<1>13. ASSUME NEW c \in Conn, StartHangs(c) \/ PortAnswered(c) \/ LeaveLoop(c) \/ CleanupFails(c)
       PROVE  IInv'
  BY <1>13 DEF StartHangs, PortAnswered, LeaveLoop, CleanupFails, BirthInv, ActiveSessionsKnown, DiskInv, JoinInv
<1>14. ASSUME NEW c \in Conn, Cleanup(c)
       PROVE  IInv'
  <2>1. DiskInv'
    BY <1>14 DEF Cleanup, DiskInv
  <2>2. BirthInv' /\ ActiveSessionsKnown' /\ JoinInv'
    BY <1>14 DEF Cleanup, BirthInv, ActiveSessionsKnown, JoinInv
  <2>3. QED
    BY <2>1, <2>2
<1>15. ASSUME NEW c \in Conn, DelEntry(c) \/ DelTooEarly(c)
       PROVE  IInv'
  <2>1. BirthInv' /\ ActiveSessionsKnown' /\ JoinInv'
    BY <1>15 DEF DelEntry, DelTooEarly, BirthInv, ActiveSessionsKnown, JoinInv
  <2>2. DiskInv'
    BY <1>15 DEF DelEntry, DelTooEarly, DiskInv
  <2>3. QED
    BY <2>1, <2>2
<1>16. ASSUME NEW c \in Conn, CloseSocket(c)
       PROVE  IInv'
  BY <1>16 DEF CloseSocket, BirthInv, ActiveSessionsKnown, DiskInv, JoinInv
<1>17. CASE UNCHANGED vars
  BY <1>17 DEF vars, BirthInv, ActiveSessionsKnown, DiskInv, JoinInv
<1>18. QED
  BY <1>1, <1>2, <1>3, <1>4, <1>5, <1>6, <1>7, <1>8, <1>9, <1>10, <1>11, <1>12, <1>13, <1>14,
     <1>15, <1>16, <1>17 DEF Next, MainStep, SessionStep, EndStep, Over

(* The inductive invariant. *)
THEOREM Inductive == Spec => [](TypeOK /\ CurInv /\ IInv)
<1>1. Init => IInv
  BY NobodyAssumption DEF Init, IInv, BirthInv, ActiveSessionsKnown, DiskInv, JoinInv, Active
<1>2. TypeOK /\ CurInv /\ IInv /\ [Next]_vars => IInv'
  BY StepInv
<1>3. QED
  BY <1>1, <1>2, TypeInductive, PTL DEF Spec

(* Every session that still has something to release is known to stop(). *)
THEOREM SessionsKnown == Spec => []ActiveSessionsKnown
<1>1. IInv => ActiveSessionsKnown
  BY DEF IInv
<1>2. QED
  BY <1>1, Inductive, PTL

(* When stop() has returned no session is active, and one that still has its    *)
(* disk mounted is one whose cleanup raised.                                    *)
THEOREM StopReleases == Spec => []StopReleasesAll
<1>1. TypeOK /\ CurInv /\ IInv => StopReleasesAll
  BY DEF IInv, TypeOK, JoinInv, DiskInv, Entering, StopReleasesAll
<1>2. QED
  BY <1>1, Inductive, PTL

(* Every variable keeps its type. *)
THEOREM TypeCorrect == Spec => []TypeOK
<1>1. TypeOK /\ CurInv => TypeOK
  OBVIOUS
<1>2. QED
  BY <1>1, TypeInductive, PTL

-------------------------------------------------------------------------------
(* CtrlServer implements ConnLife.                                             *)

Life == INSTANCE ConnLife WITH state <- conn

(* A session that has not closed its connection has it. *)
ServedInv ==
    \A c \in Conn : life[c] \in {"running", "hung", "ending", "del", "close"} => conn[c] = "served"

(* Every step moves one connection on in its life, or none. *)
LEMMA LifeStep ==
  ASSUME TypeOK, CurInv, BirthInv, ServedInv, [Next]_vars
  PROVE  ServedInv' /\ [Life!Next]_conn
<1> USE DEF TypeOK, ServedInv
<1>1. ASSUME NEW c \in Conn, Accept(c) \/ HandshakeFails(c)
      PROVE  ServedInv' /\ Life!Next
  <2>1. \/ conn[c] = "none" /\ conn' = [conn EXCEPT ![c] = "shaking"]
        \/ conn[c] = "shaking" /\ conn' = [conn EXCEPT ![c] = "stuck"]
    BY <1>1 DEF Accept, HandshakeFails
  <2>2. life' = life /\ life[c] = "unborn"
    BY <1>1, <2>1 DEF Accept, HandshakeFails, BirthInv
  <2>3. ServedInv'
    BY <2>1, <2>2
  <2>4. Life!Accept(c) \/ Life!Fail(c)
    BY <2>1 DEF Life!Accept, Life!Fail, Life!Move
  <2>5. QED
    BY <2>3, <2>4 DEF Life!Next
<1>2. CASE CheckInterrupted \/ CreateFails
  <2>1. main \in {"check", "create"} /\ CallbackRaises
    BY <1>2 DEF CheckInterrupted, CreateFails
  <2>2. /\ cur \in Conn /\ conn[cur] = "shaking" /\ life[cur] = "unborn"
        /\ conn' = [conn EXCEPT ![cur] = "stuck"] /\ life' = life
    BY <2>1 DEF CurInv, BirthInv, CallbackRaises
  <2>3. ServedInv'
    BY <2>2
  <2>4. Life!Fail(cur)
    BY <2>2 DEF Life!Fail, Life!Move
  <2>5. QED
    BY <2>2, <2>3, <2>4 DEF Life!Next
<1>3. CASE StartSession
  <2>1. /\ cur \in Conn /\ conn[cur] = "shaking"
        /\ conn' = [conn EXCEPT ![cur] = "served"]
        /\ life' = [life EXCEPT ![cur] = "running"]
    BY <1>3 DEF CurInv, BirthInv, StartSession
  <2>2. ServedInv'
    BY <2>1
  <2>3. Life!Serve(cur)
    BY <2>1 DEF Life!Serve, Life!Move
  <2>4. QED
    BY <2>1, <2>2, <2>3 DEF Life!Next
<1>4. ASSUME NEW c \in Conn, CloseSocket(c)
      PROVE  ServedInv' /\ Life!Next
  <2>1. /\ conn[c] = "served"
        /\ conn' = [conn EXCEPT ![c] = "closed"]
        /\ life' = [life EXCEPT ![c] = "dead"]
    BY <1>4 DEF CloseSocket
  <2>2. ServedInv'
    BY <2>1
  <2>3. Life!Close(c)
    BY <2>1 DEF Life!Close, Life!Move
  <2>4. QED
    BY <2>2, <2>3 DEF Life!Next
<1>5. ASSUME NEW c \in Conn,
             \/ StartHangs(c) \/ PortAnswered(c) \/ LeaveLoop(c)
             \/ Cleanup(c) \/ CleanupFails(c) \/ DelEntry(c) \/ DelTooEarly(c)
      PROVE  ServedInv' /\ UNCHANGED conn
  <2>1. /\ life[c] \in {"running", "hung", "ending", "del"}
        /\ \E to \in {"running", "hung", "ending", "del", "close", "dead"} :
             life' = [life EXCEPT ![c] = to]
        /\ conn' = conn
    BY <1>5 DEF StartHangs, PortAnswered, LeaveLoop, Cleanup, CleanupFails, DelEntry, DelTooEarly
  <2>2. QED
    BY <2>1
<1>6. ASSUME UNCHANGED <<life, conn>>
      PROVE  ServedInv' /\ UNCHANGED conn
  BY <1>6
<1>7. CASE CheckDone \/ Register \/ ShutdownInterrupted \/ ShutdownDone \/ JoinDone \/ Stop
  BY <1>6, <1>7 DEF CheckDone, Register, ShutdownInterrupted, ShutdownDone, JoinDone, Stop
<1>8. ASSUME NEW c \in Conn,
             \/ CheckPasses(c) \/ ShutdownSession(c) \/ ShutdownFails(c) \/ JoinSession(c)
             \/ ClientLeaves(c) \/ HandshakeComplete(c)
             \/ MountDisk(c) \/ MountUndoFails(c) \/ InitFails(c)
      PROVE  ServedInv' /\ UNCHANGED conn
  BY <1>6, <1>8 DEF CheckPasses, ShutdownSession, ShutdownFails, JoinSession, ClientLeaves,
                    HandshakeComplete, MountDisk, MountUndoFails, InitFails
<1>9. CASE UNCHANGED vars
  BY <1>6, <1>9 DEF vars
<1>10. QED
  BY <1>1, <1>2, <1>3, <1>4, <1>5, <1>7, <1>8, <1>9
     DEF Next, MainStep, SessionStep, EndStep, Over

(* The server and its sessions keep to the life of a connection, too: a        *)
(* session has one connection, which nobody else gets, and closes it last.     *)
THEOREM ServerKeepsTheLife == Spec => Life!Spec
<1>1. Init => ServedInv /\ Life!Init
  BY DEF Init, ServedInv, Life!Init
<1>2. TypeOK /\ CurInv /\ BirthInv /\ ServedInv /\ [Next]_vars => ServedInv' /\ [Life!Next]_conn
  BY LifeStep
<1>3. IInv => BirthInv
  BY DEF IInv
<1>4. QED
  BY <1>1, <1>2, <1>3, Inductive, PTL DEF Spec, Life!Spec

-------------------------------------------------------------------------------
(* CtrlServer implements ServerLife.                                           *)

(* How far the server is. *)
Phase == IF main \in {"loop", "check", "create", "register"} THEN "serving"
         ELSE IF main \in {"shutdown", "join"} THEN "stopping"
         ELSE IF main = "stopped" THEN "off"
         ELSE "failed"

(* The connections whose session may use its system. *)
ActiveConns == {c \in Conn : Active(c)}

Service == INSTANCE ServerLife WITH
    Client <- Conn, phase <- Phase, active <- ActiveConns

(* Every step of the main thread or a session is one of ServerLife, or none.   *)
LEMMA ServiceSimulation ==
  ASSUME TypeOK, CurInv, IInv, [Next]_vars
  PROVE  [Service!Next]_(Service!vars)
<1> USE DEF Service!Next, Service!vars, mainVars
<1>1. ASSUME UNCHANGED life
      PROVE  UNCHANGED ActiveConns
  BY <1>1 DEF ActiveConns, Active
<1>2. CASE CheckInterrupted \/ CreateFails
  <2>1. main \in {"check", "create"} /\ CallbackRaises
    BY <1>2 DEF CheckInterrupted, CreateFails
  <2>2. main' = "loop" /\ UNCHANGED life
    BY <2>1 DEF CallbackRaises
  <2>3. QED
    BY <1>1, <2>1, <2>2 DEF Phase
<1>3. CASE CheckDone \/ Register
  <2>1. main \in {"check", "register"} /\ main' \in {"create", "loop"} /\ UNCHANGED life
    BY <1>3 DEF CheckDone, Register
  <2>2. QED
    BY <1>1, <2>1 DEF Phase
<1>4. CASE StartSession
  <2>1. /\ main = "create" /\ main' = "register" /\ cur \in Conn
        /\ life[cur] = "unborn" /\ life' = [life EXCEPT ![cur] = "running"]
    BY <1>4 DEF StartSession, CurInv, IInv, BirthInv
  <2>2. cur \notin ActiveConns /\ ActiveConns' = ActiveConns \cup {cur}
    BY <2>1 DEF ActiveConns, Active, TypeOK
  <2>3. Service!Begin(cur)
    BY <2>1, <2>2 DEF Service!Begin, Phase
  <2>4. QED
    BY <2>1, <2>3
<1>5. CASE Stop
  <2>1. main = "loop" /\ main' = "shutdown" /\ UNCHANGED life
    BY <1>5 DEF Stop
  <2>2. QED
    BY <1>1, <2>1 DEF Phase, Service!Stop
<1>6. CASE ShutdownInterrupted \/ \E c \in Conn : ShutdownFails(c)
  <2>1. main = "shutdown" /\ main' \in {"loopError", "sslError"} /\ UNCHANGED life
    BY <1>6 DEF ShutdownInterrupted, ShutdownFails
  <2>2. QED
    BY <1>1, <2>1 DEF Phase, Service!Fail
<1>7. CASE ShutdownDone
  <2>1. main = "shutdown" /\ main' = "join" /\ UNCHANGED life
    BY <1>7 DEF ShutdownDone
  <2>2. QED
    BY <1>1, <2>1 DEF Phase
<1>8. CASE JoinDone
  <2>1. main = "join" /\ todo = {} /\ main' = "stopped" /\ UNCHANGED life
    BY <1>8 DEF JoinDone
  <2>2. ActiveConns = {}
    BY <2>1 DEF IInv, JoinInv, ActiveConns
  <2>3. QED
    BY <1>1, <2>1, <2>2 DEF Phase, Service!Close
<1>9. ASSUME NEW c \in Conn, Cleanup(c) \/ CleanupFails(c)
      PROVE  Service!End(c)
  <2>1. /\ life[c] = "ending" /\ UNCHANGED main
        /\ \E to \in {"del", "dead"} : life' = [life EXCEPT ![c] = to]
    BY <1>9 DEF Cleanup, CleanupFails
  <2>2. c \in ActiveConns /\ ActiveConns' = ActiveConns \ {c}
    BY <2>1 DEF ActiveConns, Active, TypeOK
  <2>3. QED
    BY <2>1, <2>2 DEF Service!End, Phase
<1>10. ASSUME NEW c \in Conn,
              \/ StartHangs(c) \/ PortAnswered(c) \/ LeaveLoop(c)
              \/ DelEntry(c) \/ DelTooEarly(c) \/ CloseSocket(c)
       PROVE  UNCHANGED <<Phase, ActiveConns>>
  <2>1. /\ \/ /\ life[c] \in {"running", "hung"}
              /\ \E to \in {"running", "hung", "ending"} : life' = [life EXCEPT ![c] = to]
           \/ /\ life[c] \in {"del", "close"}
              /\ \E to \in {"close", "dead"} : life' = [life EXCEPT ![c] = to]
        /\ UNCHANGED main
    BY <1>10 DEF StartHangs, PortAnswered, LeaveLoop, DelEntry, DelTooEarly, CloseSocket
  <2>2. \A d \in Conn : Active(d)' <=> Active(d)
    BY <2>1 DEF Active, TypeOK
  <2>3. QED
    BY <2>1, <2>2 DEF ActiveConns, Phase
<1>11. ASSUME NEW c \in Conn,
              \/ CheckPasses(c) \/ ShutdownSession(c) \/ JoinSession(c)
              \/ ClientLeaves(c) \/ Accept(c) \/ HandshakeFails(c) \/ HandshakeComplete(c)
              \/ MountDisk(c) \/ MountUndoFails(c) \/ InitFails(c)
       PROVE  UNCHANGED <<Phase, ActiveConns>>
  <2>1. /\ main' = main \/ (main = "loop" /\ main' = "check")
        /\ UNCHANGED life
    BY <1>11 DEF CheckPasses, ShutdownSession, JoinSession, ClientLeaves, Accept, HandshakeFails,
                 HandshakeComplete, MountDisk, MountUndoFails, InitFails
  <2>2. QED
    BY <1>1, <2>1 DEF Phase
<1>12. CASE UNCHANGED vars
  BY <1>1, <1>12 DEF vars, Phase
<1>13. QED
  BY <1>2, <1>3, <1>4, <1>5, <1>6, <1>7, <1>8, <1>9, <1>10, <1>11, <1>12
     DEF Next, MainStep, SessionStep, EndStep, Over

(* The server keeps what ServerLife says: one session for each connection,     *)
(* none begun once it stops, and stop() returns when all are over.             *)
THEOREM ServerKeepsTheService == Spec => Service!Spec
<1>1. Init => Service!Init
  BY DEF Init, Service!Init, Phase, ActiveConns, Active
<1>2. TypeOK /\ CurInv /\ IInv /\ [Next]_vars => [Service!Next]_(Service!vars)
  BY ServiceSimulation
<1>3. QED
  BY <1>1, <1>2, Inductive, PTL DEF Spec, Service!Spec
===============================================================================
