-------------------------------- MODULE CatFile --------------------------------
(***************************************************************************)
(* The file reader of the working stage, catfiled.py: a thread that serves *)
(* one connection at a time (_CatFileThread), and the session thread that  *)
(* starts it and later stops and joins it while it may be anywhere.        *)
(*                                                                         *)
(* Bytes are counted, not named: a request is LenSize bytes of length and  *)
(* NameSize bytes of name, an answer HeaderSize bytes of code and length   *)
(* and DataSize bytes of data.  recv() on the non-blocking socket takes    *)
(* what has arrived, and raises if nothing has.                            *)
(***************************************************************************)
EXTENDS Naturals

CONSTANTS LenSize, NameSize, HeaderSize, DataSize,
          AcceptFails   \* accept() may fail on its own, e.g. without file descriptors

ASSUME SizeAssumption == /\ {LenSize, NameSize, HeaderSize} \subseteq Nat \ {0}
                         /\ DataSize \in Nat
                         /\ AcceptFails \in BOOLEAN

VARIABLES
    thread,     \* where run() is
    serverSock, \* self.serverSock: "open", "closed" or "none" (None)
    stopper,    \* where the session thread is
    field,      \* what the thread is receiving, or "answer"
    got,        \* bytes received of that field
    sent,       \* bytes of the answer sent
    unsent,     \* bytes of the request the client has not sent yet
    inbox,      \* bytes that have arrived and were not received
    peer,       \* the client: "none" (no connection), "open" or "gone"
    outcome,    \* history: how the last connection ended
    failed      \* history: accept() failed on its own

session == <<field, got, sent, unsent, inbox, peer, outcome>>
vars == <<thread, serverSock, stopper, session, failed>>

-------------------------------------------------------------------------------
(* The client of the connection being served. *)

ClientSends == /\ peer = "open"
               /\ \E n \in 1..unsent : unsent' = unsent - n /\ inbox' = inbox + n
               /\ UNCHANGED <<thread, serverSock, stopper, field, got, sent, peer, outcome, failed>>

ClientLeaves == /\ peer = "open"
                /\ peer' = "gone"
                /\ UNCHANGED <<thread, serverSock, stopper, field, got, sent, unsent, inbox,
                               outcome, failed>>

-------------------------------------------------------------------------------
(* run(), outside a connection. *)

Top == /\ thread = "top"
       /\ thread' = IF serverSock = "none" THEN "dead" ELSE "poll"
       /\ UNCHANGED <<serverSock, stopper, session, failed>>

(* select() on the server socket: somebody waits, or the 10 seconds are over; a *)
(* socket that was closed or dropped in between raises.                         *)
Poll == /\ thread = "poll"
        /\ IF serverSock = "open" THEN thread' \in {"accept", "top"} ELSE thread' = "except"
        /\ UNCHANGED <<serverSock, stopper, session, failed>>

Accept == /\ thread = "accept" /\ serverSock = "open"
          /\ thread' = "session"
          /\ field' = "len" /\ got' = 0 /\ sent' = 0
          /\ unsent' = LenSize + NameSize /\ inbox' = 0
          /\ peer' = "open" /\ outcome' = "none"
          /\ UNCHANGED <<serverSock, stopper, failed>>

AcceptRaises == /\ thread = "accept"
                /\ serverSock # "open" \/ AcceptFails
                /\ failed' = (failed \/ serverSock = "open")
                /\ thread' = "except"
                /\ UNCHANGED <<serverSock, stopper, session>>

Except == /\ thread = "except"
          /\ serverSock' = "none"
          /\ thread' = "dead"
          /\ UNCHANGED <<stopper, session, failed>>

-------------------------------------------------------------------------------
(* A connection.  After every incomplete receive or send, and every timeout of  *)
(* select(), the thread looks whether it was stopped.                           *)

Look == thread' = IF serverSock = "none" THEN "dead" ELSE "session"

Connected(f) == /\ thread = "session" /\ field \in f
                /\ UNCHANGED <<serverSock, stopper, failed>>

Continue(f, g, s) == /\ field' = f /\ got' = g /\ sent' = s /\ inbox' = 0
                     /\ Look
                     /\ UNCHANGED <<unsent, peer, outcome>>

EndConnection(how) == /\ thread' = "top"
                      /\ outcome' = how
                      /\ peer' = "none" /\ field' = "none"
                      /\ got' = 0 /\ sent' = 0 /\ unsent' = 0 /\ inbox' = 0

(* Mutant of Answer: the length of the answer is one too large. *)
AnswerOneMore(from) == \E n \in (from + 1)..(HeaderSize + DataSize + 1) :
                          IF n = HeaderSize + DataSize THEN EndConnection("answered")
                                                       ELSE Continue("answer", 0, n)

(* Some of what is left of the answer is sent, or all of it. *)
Answer(from) == \E n \in (from + 1)..(HeaderSize + DataSize) :
                   IF n = HeaderSize + DataSize THEN EndConnection("answered")
                                                ELSE Continue("answer", 0, n)

(* recv() of the name, when g bytes of it were received and b have arrived; a   *)
(* client that has left without sending them is told from one that was slow.    *)
RecvName(g, b) == \/ b = 0 /\ EndConnection(IF peer = "gone" THEN "left" ELSE "dropped")
                  \/ b > 0 /\ g + b < NameSize /\ Continue("name", g + b, 0)
                  \/ b > 0 /\ g + b = NameSize /\ Answer(0)

(* Mutant of RecvLenPart: the bytes received before are forgotten. *)
RecvLenPartForgets == /\ Connected({"len"})
                      /\ inbox > 0 /\ got + inbox < LenSize
                      /\ Continue("len", 0, 0)

RecvLenPart == /\ Connected({"len"})
               /\ inbox > 0 /\ got + inbox < LenSize
               /\ Continue("len", got + inbox, 0)

(* With the length complete, the thread receives the name at once. *)
RecvLen == /\ Connected({"len"})
           /\ got + inbox >= LenSize
           /\ RecvName(0, got + inbox - LenSize)

RecvRest == /\ Connected({"name"})
            /\ inbox > 0
            /\ RecvName(got, inbox)

(* Mutant of RecvEof: the end of a connection is not caught. *)
RecvEofFatal == /\ Connected({"len", "name"})
                /\ inbox = 0 /\ peer = "gone"
                /\ thread' = "except"
                /\ UNCHANGED session

RecvEof == /\ Connected({"len", "name"})
           /\ inbox = 0 /\ peer = "gone"
           /\ EndConnection("left")

SendRest == Connected({"answer"}) /\ Answer(sent)

SendRaises == Connected({"answer"}) /\ peer = "gone" /\ EndConnection("left")

(* Mutant of Timeout: only a ready socket wakes the thread. *)
TimeoutIgnored == FALSE

(* Nothing can be received or sent for 10 seconds. *)
Timeout == /\ Connected({"len", "name", "answer"})
           /\ field # "answer" => inbox = 0 /\ peer = "open"
           /\ Look
           /\ UNCHANGED session

-------------------------------------------------------------------------------
(* The session thread: CatFileService.start() and stop(). *)

(* The thread is only started on a port it could bind; the failure is swallowed. *)
Start == /\ stopper = "starting"
         /\ stopper' = "running"
         /\ \/ thread' = "top" /\ serverSock' = "open"
            \/ UNCHANGED <<thread, serverSock>>
         /\ UNCHANGED <<session, failed>>

StopCheck == /\ stopper = "running"
             /\ stopper' = IF serverSock = "none" THEN "join" ELSE "close"
             /\ UNCHANGED <<thread, serverSock, session, failed>>

(* None has no close(): the thread has dropped the socket meanwhile. *)
StopClose == /\ stopper = "close"
             /\ IF serverSock = "none" THEN stopper' = "raised" /\ UNCHANGED serverSock
                                       ELSE stopper' = "clear" /\ serverSock' = "closed"
             /\ UNCHANGED <<thread, session, failed>>

StopClear == /\ stopper = "clear"
             /\ serverSock' = "none"
             /\ stopper' = "join"
             /\ UNCHANGED <<thread, session, failed>>

Join == /\ stopper = "join"
        /\ thread \in {"off", "dead"}
        /\ stopper' = "done"
        /\ UNCHANGED <<thread, serverSock, session, failed>>

-------------------------------------------------------------------------------
Init == /\ thread = "off" /\ serverSock = "none" /\ stopper = "starting"
        /\ field = "none" /\ got = 0 /\ sent = 0 /\ unsent = 0 /\ inbox = 0
        /\ peer = "none" /\ outcome = "none"
        /\ failed = FALSE

ThreadStep == \/ Top \/ Poll \/ Accept \/ AcceptRaises \/ Except
              \/ RecvLenPart \/ RecvLen \/ RecvRest \/ RecvEof
              \/ SendRest \/ SendRaises \/ Timeout

StopStep == StopClose \/ StopClear \/ Join

Over == stopper \in {"done", "raised"} /\ thread \in {"off", "dead"} /\ UNCHANGED vars

Next == ClientSends \/ ClientLeaves \/ ThreadStep \/ Start \/ StopCheck \/ StopStep \/ Over

Spec == Init /\ [][Next]_vars

(* Both threads are scheduled; a client that is owed an answer reads it. *)
LiveSpec == Spec /\ WF_vars(ThreadStep) /\ WF_vars(SendRest) /\ WF_vars(StopStep)

-------------------------------------------------------------------------------
(* Properties. *)

(* Every variable keeps its type. *)
TypeOK ==
    /\ thread \in {"off", "top", "poll", "accept", "session", "except", "dead"}
    /\ serverSock \in {"open", "closed", "none"}
    /\ stopper \in {"starting", "running", "close", "clear", "join", "done", "raised"}
    /\ field \in {"none", "len", "name", "answer"}
    /\ got \in 0..(LenSize + NameSize) /\ sent \in 0..(HeaderSize + DataSize)
    /\ unsent \in 0..(LenSize + NameSize) /\ inbox \in 0..(LenSize + NameSize)
    /\ peer \in {"none", "open", "gone"}
    /\ outcome \in {"none", "answered", "left", "dropped"}
    /\ failed \in BOOLEAN

(* However the thread ended, nobody can connect to a service without a thread. *)
DeadThreadListensNoMore == thread = "dead" => serverSock = "none"

(* stop() raises nothing unless accept() had failed, however the thread and it  *)
(* are interleaved and whatever the clients did. If it had failed, stop() may   *)
(* raise in _workingStageEndHandler of gbs_ctrl_server.py, which calls it first *)
(* of all and "should raise no exception" (StopReader of CtrlSession).          *)
StopRaisesOnlyAfterFailure == stopper = "raised" => failed

(* stop() returns, whatever the client of the current connection does or not. *)
StopReturns == stopper \in {"close", "join"} ~> stopper \in {"done", "raised"}

(* A request that was sent to the end is settled, in however many pieces it    *)
(* arrived: the client does not wait forever.                                  *)
RequestIsSettled == peer = "open" /\ unsent = 0 ~> peer # "open" \/ thread = "dead"
===============================================================================
