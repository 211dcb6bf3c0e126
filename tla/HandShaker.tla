------------------------------- MODULE HandShaker -------------------------------
(***************************************************************************)
(* _HandShaker of gbs_ctrl_server.py: the TLS handshakes that the main     *)
(* loop of syncupd drives, from accept() until the connection is given to  *)
(* onHandShakeComplete, against clients that are slow, break off or send   *)
(* anything else than a handshake.                                         *)
(*                                                                         *)
(* A GLib watch fires once and is added again for what the handshake waits *)
(* for.  A callback that raises loses its watch.  Each error path of       *)
(* _onEvent raises: _ConnException has no attribute "message" in Python 3, *)
(* nor have the errors of pyOpenSSL, so handShakeErrorFunc is never        *)
(* reached, nor is the entry deleted.                                      *)
(***************************************************************************)
EXTENDS Naturals, FiniteSets

CONSTANTS
    Conn,       \* the connections
    Honest,     \* those whose clients carry the handshake through
    Flights,    \* how often a client has to send something in a handshake
    MaxFiles    \* how many sockets the process may have open

ASSUME HonestAssumption == Honest \subseteq Conn /\ IsFiniteSet(Conn)
ASSUME BoundAssumption  == Flights \in Nat \ {0} /\ MaxFiles \in Nat \ {0}

VARIABLES
    backlog,    \* connections accept() has still to return
    sockDict,   \* keys of self.sockDict
    state,      \* info.state of those in sockDict
    watch,      \* the conditions watched for, besides errors; {} without a watch
    handed,     \* those given to handShakeCompleteFunc that have a session
    raised,     \* history: those whose callback raised
    missing,    \* what the handshake still has to read from the client
    inbox,      \* what has arrived of it
    full,       \* connections whose send buffer is full
    peer,       \* what the client has done to its end
    keyUsable   \* the private key file can be loaded

table  == <<backlog, sockDict, state, watch, handed, raised>>
client == <<missing, inbox, full, peer, keyUsable>>
vars   == <<table, client>>

-------------------------------------------------------------------------------
(* The clients and the network. *)

Connect(c) == /\ peer[c] = "away"
              /\ peer' = [peer EXCEPT ![c] = "open"]
              /\ backlog' = backlog \cup {c}
              /\ UNCHANGED <<sockDict, state, watch, handed, raised, missing, inbox, full, keyUsable>>

(* The first flight, or the next once the server has answered. *)
ClientSends(c) == /\ peer[c] = "open"
                  /\ inbox[c] = 0 /\ missing[c] > 0
                  /\ missing[c] < Flights => state[c] = "WANT_READ"
                  /\ inbox' = [inbox EXCEPT ![c] = 1]
                  /\ UNCHANGED <<table, missing, full, peer, keyUsable>>

(* The end of the stream, or a reset, which GLib reports as an error. *)
ClientBreaks(c) == /\ c \notin Honest
                   /\ peer[c] = "open"
                   /\ \E how \in {"closed", "reset"} : peer' = [peer EXCEPT ![c] = how]
                   /\ UNCHANGED <<table, missing, inbox, full, keyUsable>>

ClientReads(c) == /\ c \in full
                  /\ full' = full \ {c}
                  /\ UNCHANGED <<table, missing, inbox, peer, keyUsable>>

-------------------------------------------------------------------------------
(* onServerAccept and addSocket.  Without a file to be had accept() fails, and  *)
(* the connection stays in the backlog.                                        *)

Open == sockDict \cup handed

AddSocket(c) == /\ sockDict' = sockDict \cup {c}
                /\ state' = [state EXCEPT ![c] = "NONE"]
                /\ watch' = [watch EXCEPT ![c] = {"IN", "OUT"}]

Accept(c) == /\ c \in backlog
             /\ Cardinality(Open) < MaxFiles
             /\ backlog' = backlog \ {c}
             /\ AddSocket(c)
             /\ UNCHANGED <<handed, raised, client>>

-------------------------------------------------------------------------------
(* _onEvent. *)

Condition(c) == watch[c] \cap ((IF inbox[c] > 0 \/ peer[c] # "open" THEN {"IN"} ELSE {})
                                 \cup IF c \in full THEN {} ELSE {"OUT"})

Raise(c) == /\ watch' = [watch EXCEPT ![c] = {}]
            /\ raised' = raised \cup {c}
            /\ UNCHANGED <<backlog, sockDict, handed>>

SocketError(c) == /\ watch[c] # {} /\ peer[c] = "reset"
                  /\ Raise(c)
                  /\ UNCHANGED <<state, client>>

KeyFails(c) == /\ Condition(c) # {} /\ peer[c] # "reset"
               /\ state[c] = "NONE"
               /\ ~keyUsable
               /\ Raise(c)
               /\ UNCHANGED <<state, client>>

(* Mutant of WaitFor: the watch is only added again to read. *)
WaitForReadOnly(c, condition) ==
    /\ state' = [state EXCEPT ![c] = IF condition = "IN" THEN "WANT_READ" ELSE "WANT_WRITE"]
    /\ watch' = [watch EXCEPT ![c] = {condition} \ {"OUT"}]
    /\ UNCHANGED <<backlog, sockDict, handed, raised>>

(* The watch is added again for what the handshake waits for. *)
WaitFor(c, condition) ==
    /\ state' = [state EXCEPT ![c] = IF condition = "IN" THEN "WANT_READ" ELSE "WANT_WRITE"]
    /\ watch' = [watch EXCEPT ![c] = {condition}]
    /\ UNCHANGED <<backlog, sockDict, handed, raised>>

(* A new socket can be written to, so that the first event starts it already.  *)
DoHandshake(c) == /\ peer[c] # "reset"
                  /\ \/ state[c] = "NONE" /\ "OUT" \in Condition(c) /\ keyUsable
                     \/ state[c] = "WANT_WRITE" /\ "OUT" \in Condition(c)
                     \/ state[c] = "WANT_READ" /\ "IN" \in Condition(c)
                  /\ UNCHANGED <<peer, keyUsable>>

(* Mutant of Read: each event has an SSL.Connection of its own. *)
ReadForgets(c) == inbox' = [inbox EXCEPT ![c] = 0] /\ UNCHANGED missing

Read(c) == /\ missing' = [missing EXCEPT ![c] = @ - inbox[c]]
           /\ inbox' = [inbox EXCEPT ![c] = 0]

WantRead(c) == /\ DoHandshake(c)
               /\ peer[c] = "open" /\ inbox[c] < missing[c]
               /\ Read(c)
               /\ WaitFor(c, "IN")
               /\ UNCHANGED full

(* Mutant of WantWrite: taken for the other of the two exceptions. *)
WantWriteReads(c) == /\ DoHandshake(c)
                     /\ inbox[c] > 0
                     /\ Read(c)
                     /\ full' = full \cup {c}
                     /\ WaitFor(c, "IN")

(* The answer to what was read does not fit into the send buffer. *)
WantWrite(c) == /\ DoHandshake(c)
                /\ inbox[c] > 0
                /\ Read(c)
                /\ full' = full \cup {c}
                /\ WaitFor(c, "OUT")

(* The stream ends too early, or is no handshake. *)
HandshakeFails(c) == /\ DoHandshake(c)
                     /\ c \notin Honest
                     /\ peer[c] = "closed" \/ inbox[c] > 0
                     /\ state' = [state EXCEPT ![c] = IF @ = "NONE" THEN "WANT_WRITE" ELSE @]
                     /\ Raise(c)
                     /\ UNCHANGED <<missing, inbox, full>>

(* Mutant of Complete: a handshake that wants to read is taken for a finished   *)
(* one.                                                                        *)
CompleteEarly(c) == /\ DoHandshake(c)
                    /\ Read(c)
                    /\ UNCHANGED <<full, backlog, raised>>
                    /\ state' = [state EXCEPT ![c] = "COMPLETE"]
                    /\ handed' = handed \cup {c}
                    /\ sockDict' = sockDict \ {c}
                    /\ watch' = [watch EXCEPT ![c] = {}]

(* onHandShakeComplete makes a session of the connection; or it raises, as it  *)
(* does for a client that has one already.                                     *)
Complete(c) == /\ DoHandshake(c)
               /\ inbox[c] = missing[c]
               /\ Read(c)
               /\ UNCHANGED full
               /\ state' = [state EXCEPT ![c] = "COMPLETE"]
               /\ \/ Raise(c)
                  \/ /\ handed' = handed \cup {c}
                     /\ sockDict' = sockDict \ {c}
                     /\ watch' = [watch EXCEPT ![c] = {}]
                     /\ UNCHANGED <<backlog, raised>>

(* The session closes the connection in the end. *)
SessionEnds(c) == /\ c \in handed
                  /\ handed' = handed \ {c}
                  /\ UNCHANGED <<backlog, sockDict, state, watch, raised, client>>

-------------------------------------------------------------------------------
Init == /\ backlog = {} /\ sockDict = {} /\ handed = {} /\ raised = {}
        /\ state = [c \in Conn |-> "NONE"]
        /\ watch = [c \in Conn |-> {}]
        /\ missing = [c \in Conn |-> Flights]
        /\ inbox = [c \in Conn |-> 0]
        /\ full = {}
        /\ peer = [c \in Conn |-> "away"]
        /\ keyUsable \in BOOLEAN

Client(c) == Connect(c) \/ ClientSends(c) \/ ClientBreaks(c) \/ ClientReads(c)

OnEvent(c) == \/ SocketError(c) \/ KeyFails(c)
              \/ WantRead(c) \/ WantWrite(c) \/ HandshakeFails(c) \/ Complete(c)

(* Nothing has to happen while no handshake with an honest client is under way. *)
Over == (\A c \in Honest : watch[c] = {}) /\ UNCHANGED vars

Next == (\E c \in Conn : Client(c) \/ Accept(c) \/ OnEvent(c) \/ SessionEnds(c)) \/ Over

Spec == Init /\ [][Next]_vars

(* The main loop serves each watch and the listening socket; honest clients    *)
(* send and read.                                                              *)
LiveSpec == /\ Spec
            /\ \A c \in Conn : SF_vars(Accept(c)) /\ WF_vars(OnEvent(c))
            /\ \A c \in Honest : WF_vars(ClientSends(c)) /\ WF_vars(ClientReads(c))

-------------------------------------------------------------------------------
(* Properties. *)

(* Every variable keeps its type. *)
TypeOK == /\ {backlog, sockDict, handed, raised, full} \subseteq SUBSET Conn
          /\ state \in [Conn -> {"NONE", "WANT_READ", "WANT_WRITE", "COMPLETE"}]
          /\ watch \in [Conn -> SUBSET {"IN", "OUT"}]
          /\ missing \in [Conn -> 0..Flights]
          /\ inbox \in [Conn -> 0..1]
          /\ peer \in [Conn -> {"away", "open", "closed", "reset"}]
          /\ keyUsable \in BOOLEAN

(* A watch that fires finds its entry in sockDict, in a state that it is the   *)
(* watch of: _onEvent neither fails to look the connection up nor reaches its  *)
(* "assert False".  A connection that was given away is no longer watched.     *)
WatchedIsKnown ==
    \A c \in Conn : watch[c] # {} =>
        /\ c \in sockDict \ (handed \cup raised)
        /\ watch[c] = CASE state[c] = "NONE"       -> {"IN", "OUT"}
                         [] state[c] = "WANT_READ"  -> {"IN"}
                         [] state[c] = "WANT_WRITE" -> {"OUT"}
                         [] OTHER                   -> {}

(* A connection stays in sockDict without a watch, for good, only if its own   *)
(* callback raised: no handshake loses its watch to another one.               *)
StuckOnlyAfterRaise == \A c \in sockDict : watch[c] = {} => c \in raised

(* The server and an honest client never wait for each other.                  *)
NoMutualWait ==
    \A c \in Honest \cap sockDict : watch[c] # {} =>
        \/ Condition(c) # {}
        \/ c \in full
        \/ inbox[c] = 0 /\ missing[c] > 0 /\ (missing[c] = Flights \/ state[c] = "WANT_READ")

(* "give socket to handShakeCompleteFunc": when all of the handshake has been  *)
(* read, and the handshaker does not keep it.                                  *)
GivenWhenComplete == \A c \in handed : missing[c] = 0 /\ c \notin sockDict

(* The types hold, and the table, the watches and the sessions fit together.   *)
TableConsistent == TypeOK /\ WatchedIsKnown /\ StuckOnlyAfterRaise /\ GivenWhenComplete

(* The handshake of an honest client is finished, whatever the others do.      *)
HonestFinishes ==
    \A c \in Honest :
        c \in sockDict ~> c \in handed \/ (c \in raised /\ (state[c] = "COMPLETE" \/ ~keyUsable))
===============================================================================
