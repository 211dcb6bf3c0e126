---------------------------- MODULE ConnectionProofs --------------------------
(***************************************************************************)
(* Proofs about what a client's connection goes through: its handshake     *)
(* (HandShaker), and then the loop of its session (RequestLoop).  They     *)
(* hold for any connections, any number of flights or of requests, any     *)
(* limit of open files and any sizes that fit together.                    *)
(***************************************************************************)
EXTENDS HandShaker, RequestLoop, SequenceTheorems, TLAPS

-------------------------------------------------------------------------------
(* HandShaker: the inductive invariant.                                        *)

(* A connection that is not accepted yet is in none of the handshaker's sets,  *)
(* and waits in the backlog only once its client has connected.                *)
NewIsUntouched ==
    \A c \in Conn :
        /\ c \in backlog => peer[c] # "away"
        /\ c \in backlog \/ peer[c] = "away" => c \notin sockDict \cup handed \cup raised

(* What arrives is what the handshake has still to read. *)
ArrivedIsMissing == \A c \in Conn : inbox[c] > 0 => missing[c] > 0

(* Who is watched for reading only has something to read. *)
ReadingMissesSome ==
    \A c \in Conn : watch[c] # {} /\ state[c] = "WANT_READ" => missing[c] > 0

(* The inductive invariant of the handshaker. *)
HInv == TableConsistent /\ NewIsUntouched /\ ArrivedIsMissing /\ ReadingMissesSome

-------------------------------------------------------------------------------
(* Reading keeps what is missing within its bounds, and empties the inbox. *)
LEMMA ReadBounds ==
  ASSUME NEW c \in Conn, TypeOK, ArrivedIsMissing, Read(c)
  PROVE  /\ missing' \in [Conn -> 0..Flights] /\ inbox' \in [Conn -> 0..1]
         /\ inbox'[c] = 0 /\ missing'[c] = missing[c] - inbox[c]
         /\ \A d \in Conn \ {c} : inbox'[d] = inbox[d] /\ missing'[d] = missing[d]
<1>1. missing[c] - inbox[c] \in 0..Flights
  BY BoundAssumption DEF TypeOK, ArrivedIsMissing
<1>2. QED
  BY <1>1 DEF TypeOK, Read

(* Every variable keeps its type. *)
LEMMA StepTypes ==
  ASSUME TypeOK, ArrivedIsMissing, [Next]_vars
  PROVE  TypeOK'
<1> USE DEF TypeOK
<1>1. ASSUME NEW c \in Conn, Client(c)
      PROVE  TypeOK'
  BY <1>1 DEF Client, Connect, ClientSends, ClientBreaks, ClientReads, table
<1>2. ASSUME NEW c \in Conn, Accept(c) \/ SessionEnds(c)
      PROVE  TypeOK'
  BY <1>2 DEF Accept, AddSocket, SessionEnds, client
<1>3. ASSUME NEW c \in Conn, OnEvent(c)
      PROVE  TypeOK'
  <2>1. CASE SocketError(c) \/ KeyFails(c)
    BY <1>3, <2>1 DEF SocketError, KeyFails, Raise, client
  <2>2. CASE WantRead(c) \/ WantWrite(c)
    BY <1>3, <2>2, ReadBounds DEF WantRead, WantWrite, DoHandshake, WaitFor
  <2>3. CASE HandshakeFails(c)
    BY <1>3, <2>3 DEF HandshakeFails, DoHandshake, Raise
  <2>4. CASE Complete(c)
    BY <1>3, <2>4, ReadBounds DEF Complete, DoHandshake, Raise
  <2>5. QED
    BY <1>3, <2>1, <2>2, <2>3, <2>4 DEF OnEvent
<1>4. CASE UNCHANGED vars
  BY <1>4 DEF vars, table, client
<1>5. QED
  BY <1>1, <1>2, <1>3, <1>4 DEF Next, Over

(* An event happens only to a connection that is watched. *)
LEMMA EventIsWatched ==
  ASSUME NEW c \in Conn, OnEvent(c)
  PROVE  watch[c] # {}
  BY DEF OnEvent, SocketError, KeyFails, WantRead, WantWrite, HandshakeFails, Complete,
         DoHandshake, Condition

(* HInv is preserved. *)
LEMMA HStep == HInv /\ [Next]_vars => HInv'
<1> SUFFICES ASSUME HInv, [Next]_vars PROVE HInv'
  OBVIOUS
<1> USE DEF HInv, TableConsistent
<1>1. TypeOK'
  BY StepTypes
<1> USE DEF TypeOK, WatchedIsKnown, StuckOnlyAfterRaise, GivenWhenComplete, NewIsUntouched,
            ArrivedIsMissing, ReadingMissesSome
<1>2. ASSUME NEW c \in Conn, Client(c)
      PROVE  HInv'
  <2>1. CASE Connect(c)
    BY <1>1, <2>1 DEF Connect
  <2>2. CASE ClientSends(c)
    BY <1>1, <2>2 DEF ClientSends, table
  <2>3. CASE ClientBreaks(c) \/ ClientReads(c)
    BY <1>1, <2>3 DEF ClientBreaks, ClientReads, table
  <2>4. QED
    BY <1>2, <2>1, <2>2, <2>3 DEF Client
<1>3. ASSUME NEW c \in Conn, Accept(c)
      PROVE  HInv'
  <2>1. /\ sockDict' = sockDict \cup {c} /\ backlog' = backlog \ {c} /\ c \in backlog
        /\ watch'[c] = {"IN", "OUT"} /\ state'[c] = "NONE"
        /\ \A d \in Conn \ {c} : watch'[d] = watch[d] /\ state'[d] = state[d]
        /\ UNCHANGED <<handed, raised, peer, missing, inbox>>
    BY <1>3 DEF Accept, AddSocket, client
  <2>2. c \notin sockDict \cup handed \cup raised
    BY <2>1
  <2>3. WatchedIsKnown' /\ StuckOnlyAfterRaise'
    BY <2>1, <2>2
  <2>4. GivenWhenComplete'
    BY <2>1, <2>2
  <2>5. NewIsUntouched'
    BY <2>1
  <2>6. ArrivedIsMissing' /\ ReadingMissesSome'
    BY <2>1
  <2>7. QED
    BY <1>1, <2>3, <2>4, <2>5, <2>6
<1>4. ASSUME NEW c \in Conn, SessionEnds(c)
      PROVE  HInv'
  BY <1>1, <1>4 DEF SessionEnds, client
<1>5. ASSUME NEW c \in Conn, OnEvent(c)
      PROVE  HInv'
  <2>0. c \in sockDict \ (handed \cup raised) /\ c \notin backlog /\ peer[c] # "away"
    BY <1>5, EventIsWatched
  <2>1. CASE SocketError(c) \/ KeyFails(c)
    BY <1>1, <2>0, <2>1 DEF SocketError, KeyFails, Raise, client
  <2>2. CASE WantRead(c)
    <3>1. inbox'[c] = 0 /\ \A d \in Conn \ {c} : inbox'[d] = inbox[d] /\ missing'[d] = missing[d]
      BY <2>2, ReadBounds DEF WantRead
    <3>2. /\ watch'[c] = {"IN"} /\ state'[c] = "WANT_READ"
          /\ \A d \in Conn \ {c} : watch'[d] = watch[d] /\ state'[d] = state[d]
          /\ UNCHANGED <<backlog, sockDict, handed, raised, peer>>
      BY <2>2 DEF WantRead, WaitFor, DoHandshake
    <3>3. missing'[c] > 0
      BY <2>2, ReadBounds DEF WantRead
    <3>4. WatchedIsKnown' /\ StuckOnlyAfterRaise'
      BY <2>0, <3>2
    <3>5. GivenWhenComplete' /\ NewIsUntouched'
      BY <2>0, <3>1, <3>2
    <3>6. ArrivedIsMissing' /\ ReadingMissesSome'
      BY <3>1, <3>2, <3>3
    <3>7. QED
      BY <1>1, <3>4, <3>5, <3>6
  <2>3. CASE WantWrite(c)
    <3>1. inbox'[c] = 0 /\ \A d \in Conn \ {c} : inbox'[d] = inbox[d] /\ missing'[d] = missing[d]
      BY <2>3, ReadBounds DEF WantWrite
    <3>2. /\ watch'[c] = {"OUT"} /\ state'[c] = "WANT_WRITE"
          /\ \A d \in Conn \ {c} : watch'[d] = watch[d] /\ state'[d] = state[d]
          /\ UNCHANGED <<backlog, sockDict, handed, raised, peer>>
      BY <2>3 DEF WantWrite, WaitFor, DoHandshake
    <3>3. WatchedIsKnown' /\ StuckOnlyAfterRaise'
      BY <2>0, <3>2
    <3>4. GivenWhenComplete' /\ NewIsUntouched'
      BY <2>0, <3>1, <3>2
    <3>5. ArrivedIsMissing' /\ ReadingMissesSome'
      BY <3>1, <3>2
    <3>6. QED
      BY <1>1, <3>3, <3>4, <3>5
  <2>4. CASE HandshakeFails(c)
    <3>1. /\ watch'[c] = {} /\ raised' = raised \cup {c}
          /\ \A d \in Conn \ {c} : watch'[d] = watch[d] /\ state'[d] = state[d]
          /\ UNCHANGED <<backlog, sockDict, handed, missing, inbox, peer>>
      BY <2>4 DEF HandshakeFails, Raise, DoHandshake
    <3>2. WatchedIsKnown' /\ StuckOnlyAfterRaise'
      BY <2>0, <3>1
    <3>3. GivenWhenComplete' /\ NewIsUntouched' /\ ArrivedIsMissing' /\ ReadingMissesSome'
      BY <2>0, <3>1
    <3>4. QED
      BY <1>1, <3>2, <3>3
  <2>5. CASE Complete(c)
    BY <1>1, <2>0, <2>5, ReadBounds DEF Complete, Raise, DoHandshake
  <2>6. QED
    BY <1>5, <2>1, <2>2, <2>3, <2>4, <2>5 DEF OnEvent
<1>6. CASE UNCHANGED vars
  BY <1>6 DEF vars, table, client
<1>7. QED
  BY <1>2, <1>3, <1>4, <1>5, <1>6 DEF Next, Over

(* HInv holds initially. *)
LEMMA HInit == Init => HInv
  BY BoundAssumption
     DEF Init, HInv, TableConsistent, TypeOK, WatchedIsKnown, StuckOnlyAfterRaise,
         GivenWhenComplete, NewIsUntouched, ArrivedIsMissing, ReadingMissesSome

(* The inductive invariant. *)
THEOREM Inductive == Spec => []HInv
  BY HInit, HStep, PTL DEF Spec

(* The types hold; a watch that fires finds its entry, in a state it belongs   *)
(* to; a connection is stuck only by its own exception; and it is given away   *)
(* when its handshake is complete, and forgotten then.                         *)
THEOREM TableIsConsistent == Spec => []TableConsistent
<1>1. HInv => TableConsistent
  BY DEF HInv
<1>2. QED
  BY <1>1, Inductive, PTL

(* The handshaker and an honest client never wait for each other.              *)
THEOREM NoOneWaitsForEachOther == Spec => []NoMutualWait
<1>1. HInv => NoMutualWait
  <2> SUFFICES ASSUME HInv, NEW c \in Conn, c \in sockDict, watch[c] # {},
                      Condition(c) = {}, c \notin full
               PROVE  inbox[c] = 0 /\ missing[c] > 0 /\ state[c] = "WANT_READ"
    BY HonestAssumption DEF NoMutualWait
  <2>1. "OUT" \notin watch[c]
    BY DEF Condition
  <2>2. watch[c] = {"IN"} /\ state[c] = "WANT_READ"
    BY <2>1 DEF HInv, TableConsistent, TypeOK, WatchedIsKnown
  <2>3. ~(inbox[c] > 0)
    BY <2>2 DEF Condition
  <2>4. QED
    BY <2>2, <2>3 DEF HInv, TableConsistent, TypeOK, ReadingMissesSome
<1>2. QED
  BY <1>1, Inductive, PTL

-------------------------------------------------------------------------------
(* HandShaker implements ConnLife.                                             *)

(* What has become of a connection, as the handshaker's sets tell it.          *)
ConnState(c) == IF c \in raised THEN "stuck"
                ELSE IF c \in handed THEN "served"
                ELSE IF c \in sockDict THEN "shaking"
                ELSE IF c \in backlog \/ peer[c] = "away" THEN "none"
                ELSE "closed"

(* The refinement mapping. *)
States == [c \in Conn |-> ConnState(c)]

Life == INSTANCE ConnLife WITH state <- States

(* A connection whose callback raised stays in sockDict. *)
RaisedStay == raised \subseteq sockDict

(* The invariant the mapping needs. *)
LifeInv == HInv /\ RaisedStay

(* Whoever is watched is shaking hands. *)
LEMMA WatchedShakes ==
  ASSUME HInv, NEW c \in Conn, watch[c] # {}
  PROVE  c \in sockDict \ (handed \cup raised) /\ ConnState(c) = "shaking"
  BY DEF HInv, TableConsistent, WatchedIsKnown, ConnState

(* A step that changes what has become of one connection. *)
LEMMA OneMoves ==
  ASSUME NEW c \in Conn, NEW from, NEW to,
         ConnState(c) = from, ConnState(c)' = to,
         \A d \in Conn \ {c} : ConnState(d)' = ConnState(d)
  PROVE  Life!Move(c, from, to)
  BY DEF Life!Move, States

(* A step that changes what has become of no connection. *)
LEMMA NoneMoves ==
  ASSUME \A d \in Conn : ConnState(d)' = ConnState(d)
  PROVE  UNCHANGED States
  BY DEF States

(* RaisedStay is preserved: only what is watched is deleted from sockDict. *)
LEMMA RaisedStep == HInv /\ RaisedStay /\ [Next]_vars => RaisedStay'
<1> SUFFICES ASSUME HInv, RaisedStay, [Next]_vars PROVE RaisedStay'
  OBVIOUS
<1> USE DEF RaisedStay
<1>1. ASSUME NEW c \in Conn, Client(c) \/ SessionEnds(c)
      PROVE  RaisedStay'
  BY <1>1 DEF Client, Connect, ClientSends, ClientBreaks, ClientReads, SessionEnds, table
<1>2. ASSUME NEW c \in Conn, Accept(c)
      PROVE  RaisedStay'
  BY <1>2 DEF Accept, AddSocket
<1>3. ASSUME NEW c \in Conn, OnEvent(c)
      PROVE  RaisedStay'
  <2>1. c \in sockDict \ raised
    BY <1>3, EventIsWatched, WatchedShakes
  <2>2. CASE SocketError(c) \/ KeyFails(c) \/ HandshakeFails(c)
    BY <2>1, <2>2 DEF SocketError, KeyFails, HandshakeFails, Raise
  <2>3. CASE WantRead(c) \/ WantWrite(c)
    BY <2>3 DEF WantRead, WantWrite, WaitFor
  <2>4. CASE Complete(c)
    BY <2>1, <2>4 DEF Complete, Raise
  <2>5. QED
    BY <1>3, <2>2, <2>3, <2>4 DEF OnEvent
<1>4. CASE UNCHANGED vars
  BY <1>4 DEF vars, table
<1>5. QED
  BY <1>1, <1>2, <1>3, <1>4 DEF Next, Over

(* Every step of the handshaker, a client or a session moves one connection on *)
(* in its life, or none.                                                       *)
LEMMA LifeSimulation == LifeInv /\ [Next]_vars => [Life!Next]_States
<1> SUFFICES ASSUME LifeInv, [Next]_vars PROVE Life!Next \/ UNCHANGED States
  OBVIOUS
<1>1. ASSUME NEW c \in Conn, Client(c)
      PROVE  UNCHANGED States
  <2>1. CASE Connect(c)
    BY <2>1, NoneMoves DEF Connect, ConnState
  <2>2. CASE ClientSends(c) \/ ClientReads(c)
    BY <2>2, NoneMoves DEF ClientSends, ClientReads, table, ConnState
  <2>3. CASE ClientBreaks(c)
    <3>1. peer[c] # "away" /\ peer'[c] # "away" /\ \A d \in Conn \ {c} : peer'[d] = peer[d]
      BY <2>3 DEF ClientBreaks, LifeInv, HInv, TableConsistent, TypeOK
    <3>2. UNCHANGED <<raised, handed, sockDict, backlog>>
      BY <2>3 DEF ClientBreaks, table
    <3>3. QED
      BY <3>1, <3>2, NoneMoves DEF ConnState
  <2>4. QED
    BY <1>1, <2>1, <2>2, <2>3 DEF Client
<1>2. ASSUME NEW c \in Conn, Accept(c)
      PROVE  Life!Accept(c)
  <2>1. /\ c \in backlog /\ backlog' = backlog \ {c} /\ sockDict' = sockDict \cup {c}
        /\ UNCHANGED <<handed, raised, peer>>
    BY <1>2 DEF Accept, AddSocket, client
  <2>2. c \notin sockDict \cup handed \cup raised
    BY <2>1 DEF LifeInv, HInv, NewIsUntouched
  <2>3. /\ ConnState(c) = "none" /\ ConnState(c)' = "shaking"
        /\ \A d \in Conn \ {c} : ConnState(d)' = ConnState(d)
    BY <2>1, <2>2 DEF ConnState
  <2>4. QED
    BY <2>3, OneMoves DEF Life!Accept
<1>3. ASSUME NEW c \in Conn, SessionEnds(c)
      PROVE  Life!Close(c)
  <2>1. /\ c \in handed /\ handed' = handed \ {c}
        /\ UNCHANGED <<backlog, sockDict, raised, peer>>
    BY <1>3 DEF SessionEnds, client
  <2>2. c \notin sockDict \cup raised /\ c \notin backlog /\ peer[c] # "away"
    BY <2>1 DEF LifeInv, RaisedStay, HInv, TableConsistent, GivenWhenComplete, NewIsUntouched
  <2>3. /\ ConnState(c) = "served" /\ ConnState(c)' = "closed"
        /\ \A d \in Conn \ {c} : ConnState(d)' = ConnState(d)
    BY <2>1, <2>2 DEF ConnState
  <2>4. QED
    BY <2>3, OneMoves DEF Life!Close
<1>4. ASSUME NEW c \in Conn, OnEvent(c)
      PROVE  Life!Fail(c) \/ Life!Serve(c) \/ UNCHANGED States
  <2>1. c \in sockDict \ (handed \cup raised) /\ ConnState(c) = "shaking"
    BY <1>4, EventIsWatched, WatchedShakes DEF LifeInv
  <2>2. ASSUME Raise(c), peer' = peer
        PROVE  Life!Fail(c)
    <3>1. /\ ConnState(c)' = "stuck"
          /\ \A d \in Conn \ {c} : ConnState(d)' = ConnState(d)
      BY <2>2 DEF Raise, ConnState
    <3>2. QED
      BY <2>1, <3>1, OneMoves DEF Life!Fail
  <2>3. CASE SocketError(c) \/ KeyFails(c) \/ HandshakeFails(c)
    BY <2>2, <2>3 DEF SocketError, KeyFails, HandshakeFails, DoHandshake, client
  <2>4. CASE WantRead(c) \/ WantWrite(c)
    BY <2>4, NoneMoves DEF WantRead, WantWrite, WaitFor, DoHandshake, ConnState
  <2>5. CASE Complete(c)
    <3>1. peer' = peer
      BY <2>5 DEF Complete, DoHandshake
    <3>2. CASE Raise(c)
      BY <2>2, <3>1, <3>2
    <3>3. CASE /\ handed' = handed \cup {c} /\ sockDict' = sockDict \ {c}
               /\ UNCHANGED <<backlog, raised>>
      <4>1. /\ ConnState(c)' = "served"
            /\ \A d \in Conn \ {c} : ConnState(d)' = ConnState(d)
        BY <2>1, <3>1, <3>3 DEF ConnState
      <4>2. QED
        BY <2>1, <4>1, OneMoves DEF Life!Serve
    <3>4. QED
      BY <2>5, <3>2, <3>3 DEF Complete
  <2>6. QED
    BY <1>4, <2>3, <2>4, <2>5 DEF OnEvent
<1>5. CASE UNCHANGED vars
  BY <1>5, NoneMoves DEF vars, table, client, ConnState
<1>6. QED
  BY <1>1, <1>2, <1>3, <1>4, <1>5 DEF Next, Over, Life!Next

(* A connection is given to at most one session, after its handshake; only     *)
(* sessions close one; and one whose handshake failed, or whose callback       *)
(* raised, stays as it is.                                                     *)
THEOREM HandshakesKeepTheLife == Spec => Life!Spec
<1>1. Init => LifeInv /\ Life!Init
  BY HInit DEF Init, LifeInv, RaisedStay, Life!Init, States, ConnState
<1>2. LifeInv /\ [Next]_vars => LifeInv'
  BY HStep, RaisedStep DEF LifeInv
<1>3. QED
  BY <1>1, <1>2, LifeSimulation, PTL DEF Spec, Life!Spec

-------------------------------------------------------------------------------
(* RequestLoop: the inductive invariant, in four parts.                        *)

(* The parts of the types that are not numbers. *)
Places == /\ pc \in {"select", "recv", "handle", "send", "enlarge", "losetup", "resize2fs",
                     "quit", "gone", "raised"}
          /\ ready \subseteq {"read", "write"}
          /\ manners \in {"polite", "pipelined", "large"}
          /\ {bQuit, open, attached} \subseteq BOOLEAN

(* What has arrived and what is pending are chunks, no record is empty.         *)
Stream == /\ kernel \in Seq(Seq(Chunks) \ {<<>>})
          /\ pending \in Seq(Chunks)

(* A request is handled when there is one. *)
HandleInv == pc = "handle" => recvBuf > 0

(* The requests on their way. *)
StreamInv == /\ {recvBuf, answered, asked} \subseteq Nat
             /\ Stream
             /\ StreamIsWhole
             /\ HandleInv

(* The answers on their way. *)
AnswerInv == /\ {sendBuf, got} \subseteq Nat
             /\ answered = got + sendBuf
             /\ pc = "quit" => sendBuf = 0

(* enlarge() goes on only with the disk attached, and resize2fs finds the loop *)
(* device as large as the image.                                               *)
SizesInv == /\ {image, loop, fs, used} \subseteq Nat
            /\ used <= fs /\ fs <= image
            /\ attached => fs <= loop /\ loop <= image
            /\ pc \in {"losetup", "resize2fs"} => attached
            /\ pc = "resize2fs" => loop = image

(* The inductive invariant of the loop. *)
LoopInv == Places /\ StreamInv /\ AnswerInv /\ SizesInv

-------------------------------------------------------------------------------
(* The chunks of a new record. *)
LEMMA NewRecord ==
  ASSUME asked \in Nat, Places, NEW record \in Records
  PROVE  /\ record \in Seq(Chunks) \ {<<>>}
         /\ End(asked, record) \in Nat
         /\ Follows(record, asked)
<1>1. asked \in Nat /\ manners \in {"polite", "pipelined", "large"}
  BY DEF Places
<1>2. \A n \in {asked, asked + 1, asked + 2} :
        Chunk(asked, n) \in Chunks
  BY <1>1 DEF Chunk, Chunks
<1>3. \/ \E n \in {asked, asked + 1, asked + 2} : record = <<Chunk(asked, n)>>
      \/ record = <<Chunk(asked, asked), Chunk(asked, asked + 1)>>
  BY <1>1 DEF Records
<1>4. CASE record = <<Chunk(asked, asked), Chunk(asked, asked + 1)>>
  <2>1. /\ record \in Seq(Chunks) /\ Len(record) = 2 /\ record # <<>>
        /\ record[1] = Chunk(asked, asked) /\ record[2] = Chunk(asked, asked + 1)
    BY <1>2, <1>4
  <2>2. QED
    BY <1>1, <2>1 DEF End, Follows, Chunk
<1>5. ASSUME NEW n \in {asked, asked + 1, asked + 2}, record = <<Chunk(asked, n)>>
      PROVE  /\ record \in Seq(Chunks) \ {<<>>}
             /\ End(asked, record) \in Nat
             /\ Follows(record, asked)
  <2>1. /\ record \in Seq(Chunks) /\ Len(record) = 1 /\ record # <<>>
        /\ record[1] = Chunk(asked, n)
    BY <1>2, <1>5
  <2>2. QED
    BY <1>1, <2>1 DEF End, Follows, Chunk
<1>6. QED
  BY <1>3, <1>4, <1>5

(* recv() takes the first chunk of what follows n. *)
LEMMA TakeChunk ==
  ASSUME NEW n \in Nat, NEW chunks \in Seq(Chunks) \ {<<>>}, Follows(chunks, n)
  PROVE  /\ Head(chunks).from = n /\ Head(chunks).to \in Nat /\ n <= Head(chunks).to
         /\ Tail(chunks) \in Seq(Chunks)
         /\ Follows(Tail(chunks), Head(chunks).to)
         /\ End(Head(chunks).to, Tail(chunks)) = End(n, chunks)
<1>1. /\ Len(chunks) \in Nat \ {0} /\ Head(chunks) = chunks[1]
      /\ \A i \in 1..Len(chunks) : chunks[i] \in Chunks
  OBVIOUS
<1>2. /\ Head(chunks).from = n /\ Head(chunks).to \in Nat /\ n <= Head(chunks).to
  BY <1>1 DEF Follows, Chunks
<1>3. /\ Tail(chunks) \in Seq(Chunks)
      /\ Len(Tail(chunks)) = Len(chunks) - 1
      /\ \A i \in 1..Len(Tail(chunks)) : Tail(chunks)[i] = chunks[i + 1]
  BY <1>1
<1>4. Follows(Tail(chunks), Head(chunks).to)
  <2> SUFFICES ASSUME NEW i \in 1..Len(Tail(chunks))
               PROVE  /\ Tail(chunks)[i].from
                            = (IF i = 1 THEN Head(chunks).to ELSE Tail(chunks)[i - 1].to)
                      /\ Tail(chunks)[i].from <= Tail(chunks)[i].to
    BY DEF Follows
  <2>1. /\ i + 1 \in 1..Len(chunks) /\ i + 1 # 1 /\ (i + 1) - 1 = i
        /\ Tail(chunks)[i] = chunks[i + 1]
    BY <1>1, <1>3
  <2>2. chunks[i + 1].from = chunks[i].to /\ chunks[i + 1].from <= chunks[i + 1].to
    BY <2>1 DEF Follows
  <2>3. CASE i = 1
    BY <1>1, <2>1, <2>2, <2>3
  <2>4. CASE i # 1
    <3>1. i - 1 \in 1..Len(Tail(chunks)) /\ (i - 1) + 1 = i
      BY <1>3, <2>4
    <3>2. Tail(chunks)[i - 1] = chunks[i]
      BY <1>3, <3>1
    <3>3. QED
      BY <2>1, <2>2, <2>4, <3>2
  <2>5. QED
    BY <2>3, <2>4
<1>5. End(Head(chunks).to, Tail(chunks)) = End(n, chunks)
  <2>1. CASE Len(chunks) = 1
    <3>1. Len(Tail(chunks)) = 0
      BY <1>3, <2>1
    <3>2. Tail(chunks) = <<>>
      BY <1>3, <3>1, EmptySeq
    <3>3. QED
      BY <1>1, <2>1, <3>2 DEF End
  <2>2. CASE Len(chunks) # 1
    <3>1. Len(Tail(chunks)) \in 1..Len(Tail(chunks)) /\ Tail(chunks) # <<>>
      <4>1. Len(Tail(chunks)) \in Nat \ {0}
        BY <1>1, <1>3, <2>2
      <4>2. Tail(chunks) # <<>>
        BY <4>1, EmptySeq
      <4>3. QED
        BY <4>1, <4>2
    <3>2. Tail(chunks)[Len(Tail(chunks))] = chunks[Len(chunks)]
      BY <1>1, <1>3, <3>1
    <3>3. QED
      BY <3>1, <3>2 DEF End
  <2>3. QED
    BY <2>1, <2>2
<1>6. QED
  BY <1>2, <1>3, <1>4, <1>5

-------------------------------------------------------------------------------
(* The places keep their types. *)
LEMMA PlacesStep ==
  ASSUME Places, [LoopNext]_loopVars
  PROVE  Places'
<1> USE DEF Places
<1>1. CASE Select
  <2>1. /\ ready' \subseteq {"read", "write"} /\ pc' \in {"recv", "send"}
        /\ UNCHANGED <<manners, bQuit, open, attached>>
    BY <1>1 DEF Select, buffers, asker, disk
  <2>2. QED
    BY <2>1
<1>2. ASSUME NEW chunk, Receive(chunk)
      PROVE  Places'
  <2>1. /\ pc' \in {"handle", "send"}
        /\ UNCHANGED <<ready, manners, bQuit, open, attached>>
    BY <1>2 DEF Receive, asker, disk
  <2>2. QED
    BY <2>1
<1>3. CASE RecvPending \/ RecvRecord
  BY <1>2, <1>3 DEF RecvPending, RecvRecord
<1>4. CASE Handle
  <2>1. bQuit' \in BOOLEAN /\ attached' \in BOOLEAN
    BY <1>4 DEF Handle
  <2>2. pc' = "send" /\ UNCHANGED <<ready, manners, open>>
    BY <1>4 DEF Handle, asker
  <2>3. QED
    BY <2>1, <2>2
<1>5. CASE Send
  <2>1. /\ pc' \in {"quit", "enlarge"}
        /\ UNCHANGED <<ready, manners, bQuit, open, attached>>
    BY <1>5 DEF Send, asker, disk
  <2>2. QED
    BY <2>1
<1>6. CASE RecvNothing \/ NothingToSend \/ LargeEnough
  BY <1>6 DEF RecvNothing, NothingToSend, LargeEnough,
              buffers, asker, disk
<1>7. CASE RecvRaises \/ HandleRaises \/ SendRaises \/ EnlargeFails
  BY <1>7 DEF RecvRaises, HandleRaises, SendRaises, EnlargeFails,
              LoopRaises, buffers, asker, disk
<1>8. CASE GrowImage \/ GrowLoop \/ GrowFs
  BY <1>8 DEF GrowImage, GrowLoop, GrowFs, buffers, asker
<1>9. CASE ClientAsks \/ ClientLeaves \/ ClientFills
  BY <1>9 DEF ClientAsks, ClientLeaves, ClientFills,
              buffers, asker, disk
<1>10. CASE UNCHANGED loopVars
  BY <1>10 DEF loopVars, asker, disk, buffers
<1>11. QED
  BY <1>1, <1>3, <1>4, <1>5, <1>6, <1>7, <1>8, <1>9, <1>10 DEF LoopNext, LoopStep, LoopOver

(* The requests on their way change in four steps, and only recv() leads to    *)
(* the handling of one.                                                        *)
StreamUnchanged == /\ UNCHANGED <<recvBuf, answered, asked, kernel, pending>>
                   /\ pc' # "handle" \/ pc' = pc

(* Every step is one of the four, or leaves the requests as they are.          *)
LEMMA StreamChanges ==
  ASSUME [LoopNext]_loopVars
  PROVE  \/ RecvPending \/ RecvRecord \/ Handle \/ ClientAsks
         \/ StreamUnchanged
<1> USE DEF StreamUnchanged, buffers, asker, disk
<1>1. CASE Select
  <2>1. pc' \in {"recv", "send"} /\ UNCHANGED <<recvBuf, answered, asked, kernel, pending>>
    BY <1>1 DEF Select
  <2>2. QED
    BY <2>1
<1>2. CASE RecvNothing \/ NothingToSend \/ LargeEnough
  BY <1>2 DEF RecvNothing, NothingToSend, LargeEnough
<1>3. CASE RecvRaises \/ HandleRaises \/ SendRaises \/ EnlargeFails
  BY <1>3 DEF RecvRaises, HandleRaises, SendRaises, EnlargeFails,
              LoopRaises
<1>4. CASE Send
  <2>1. pc' \in {"quit", "enlarge"} /\ UNCHANGED <<recvBuf, answered, asked, kernel, pending>>
    BY <1>4 DEF Send
  <2>2. QED
    BY <2>1
<1>5. CASE GrowImage \/ GrowLoop \/ GrowFs
  BY <1>5 DEF GrowImage, GrowLoop, GrowFs
<1>6. CASE ClientLeaves \/ ClientFills
  BY <1>6 DEF ClientLeaves, ClientFills
<1>7. CASE UNCHANGED loopVars
  BY <1>7 DEF loopVars
<1>8. QED
  BY <1>1, <1>2, <1>3, <1>4, <1>5, <1>6, <1>7 DEF LoopNext, LoopStep, LoopOver

(* recv() takes what follows next, from what is pending or from a new record.  *)
LEMMA RecvPendingStream == StreamInv /\ RecvPending => StreamInv'
<1> SUFFICES ASSUME StreamInv, RecvPending PROVE StreamInv'
  OBVIOUS
<1> DEFINE n == answered + recvBuf
<1>1. /\ n \in Nat /\ pending \in Seq(Chunks) \ {<<>>} /\ Follows(pending, n)
      /\ {recvBuf, answered, asked} \subseteq Nat
  BY DEF StreamInv, Stream, RecvPending, StreamIsWhole
<1>2. /\ Head(pending).from = n /\ Head(pending).to \in Nat /\ n <= Head(pending).to
      /\ Tail(pending) \in Seq(Chunks)
      /\ Follows(Tail(pending), Head(pending).to)
      /\ End(Head(pending).to, Tail(pending)) = End(n, pending)
  BY <1>1, TakeChunk
<1>3. /\ recvBuf' = recvBuf + (Head(pending).to - Head(pending).from)
      /\ pc' = (IF recvBuf' > 0 THEN "handle" ELSE "send")
      /\ pending' = Tail(pending) /\ UNCHANGED <<answered, asked, kernel>>
  BY DEF RecvPending, Receive, asker
<1>4. recvBuf' \in Nat /\ answered' + recvBuf' = Head(pending).to
  <2>1. recvBuf \in Nat /\ answered \in Nat /\ answered' = answered
    BY <1>1, <1>3
  <2>2. recvBuf' = recvBuf + (Head(pending).to - (answered + recvBuf))
    BY <1>2, <1>3
  <2>3. Head(pending).to \in Nat /\ answered + recvBuf <= Head(pending).to
    BY <1>2
  <2>4. QED
    BY <2>1, <2>2, <2>3
<1>5. {recvBuf, answered, asked}' \subseteq Nat /\ Stream' /\ HandleInv'
  <2>1. {recvBuf, answered, asked}' \subseteq Nat
    BY <1>1, <1>3, <1>4
  <2>2. Stream'
    BY <1>2, <1>3 DEF StreamInv, Stream
  <2>3. HandleInv'
    BY <1>3 DEF HandleInv
  <2>4. QED
    BY <2>1, <2>2, <2>3
<1>6. \A i : Arrived(i)' = Arrived(i)
  BY <1>2, <1>3, <1>4 DEF Arrived, End
<1>7. Follows(pending, answered + recvBuf)'
  BY <1>2, <1>3, <1>4 DEF Follows
<1>8. \A i \in 1..Len(kernel') : Follows(kernel[i], Arrived(i - 1))'
  <2>1. kernel' = kernel
    BY <1>3
  <2>2. ASSUME NEW i \in 1..Len(kernel)
        PROVE  Follows(kernel[i], Arrived(i - 1))'
    <3>1. Follows(kernel[i], Arrived(i - 1))
      BY DEF StreamInv, StreamIsWhole
    <3>2. Arrived(i - 1)' = Arrived(i - 1)
      BY <1>6
    <3>3. QED
      BY <2>1, <3>1, <3>2 DEF Follows
  <2>3. QED
    BY <2>1, <2>2
<1>9. asked' = Arrived(Len(kernel))'
  BY <1>3, <1>6 DEF StreamInv, StreamIsWhole
<1>10. QED
  BY <1>5, <1>7, <1>8, <1>9 DEF StreamInv, StreamIsWhole

(* From a new record, recv() leaves pending what it has not returned.          *)
LEMMA RecvRecordStream == StreamInv /\ RecvRecord => StreamInv'
<1> SUFFICES ASSUME StreamInv, RecvRecord PROVE StreamInv'
  OBVIOUS
<1> DEFINE n == answered + recvBuf
<1> DEFINE first == kernel[1]
<1>1. /\ n \in Nat /\ kernel \in Seq(Seq(Chunks) \ {<<>>}) /\ kernel # <<>>
      /\ {recvBuf, answered, asked} \subseteq Nat
      /\ Arrived(0) = n
  BY DEF StreamInv, Stream, RecvRecord, Arrived, End
<1>2. /\ Len(kernel) \in Nat \ {0} /\ Head(kernel) = first
      /\ first \in Seq(Chunks) \ {<<>>}
      /\ Tail(kernel) \in Seq(Seq(Chunks) \ {<<>>})
      /\ Len(Tail(kernel)) = Len(kernel) - 1
      /\ \A i \in 1..Len(Tail(kernel)) : Tail(kernel)[i] = kernel[i + 1]
  BY <1>1
<1> HIDE DEF first
<1>3. Follows(first, n)
  <2>1. 1 \in 1..Len(kernel) /\ 1 - 1 = 0
    BY <1>2
  <2>2. QED
    BY <1>1, <2>1 DEF first, StreamInv, StreamIsWhole
<1>4. /\ Head(first).from = n /\ Head(first).to \in Nat /\ n <= Head(first).to
      /\ Tail(first) \in Seq(Chunks)
      /\ Follows(Tail(first), Head(first).to)
      /\ End(Head(first).to, Tail(first)) = End(n, first)
  BY <1>1, <1>2, <1>3, TakeChunk
<1>5. /\ recvBuf' = recvBuf + (Head(first).to - Head(first).from)
      /\ pc' = (IF recvBuf' > 0 THEN "handle" ELSE "send")
      /\ pending' = Tail(first) /\ kernel' = Tail(kernel) /\ UNCHANGED <<answered, asked>>
  BY <1>2 DEF RecvRecord, Receive, asker
<1>6. recvBuf' \in Nat /\ answered' + recvBuf' = Head(first).to
  <2>1. recvBuf \in Nat /\ answered \in Nat /\ answered' = answered
    BY <1>1, <1>5
  <2>2. recvBuf' = recvBuf + (Head(first).to - (answered + recvBuf))
    BY <1>4, <1>5
  <2>3. Head(first).to \in Nat /\ answered + recvBuf <= Head(first).to
    BY <1>4
  <2>4. QED
    BY <2>1, <2>2, <2>3
<1>7. {recvBuf, answered, asked}' \subseteq Nat /\ Stream' /\ HandleInv'
  BY <1>1, <1>2, <1>4, <1>5, <1>6 DEF Stream, HandleInv
<1>8. \A i \in 0..Len(kernel') : Arrived(i)' = Arrived(i + 1)
  <2> SUFFICES ASSUME NEW i \in 0..Len(kernel')
               PROVE  Arrived(i)' = Arrived(i + 1)
    OBVIOUS
  <2>1. CASE i = 0
    <3>1. Arrived(i)' = End(Head(first).to, Tail(first))
      BY <1>5, <1>6, <2>1 DEF Arrived, End
    <3>2. Arrived(i + 1) = End(0, first)
      BY <2>1 DEF first, Arrived
    <3>3. End(0, first) = End(n, first)
      BY <1>2 DEF End
    <3>4. QED
      BY <1>4, <3>1, <3>2, <3>3
  <2>2. CASE i # 0
    <3>1. i \in 1..Len(Tail(kernel)) /\ i + 1 # 0
      BY <1>2, <1>5, <2>2
    <3>2. kernel'[i] = kernel[i + 1]
      BY <1>2, <1>5, <3>1
    <3>3. QED
      BY <2>2, <3>1, <3>2 DEF Arrived, End
  <2>3. QED
    BY <2>1, <2>2
<1>9. Follows(pending, answered + recvBuf)'
  BY <1>4, <1>5, <1>6 DEF Follows
<1>10. \A i \in 1..Len(kernel') : Follows(kernel[i], Arrived(i - 1))'
  <2> SUFFICES ASSUME NEW i \in 1..Len(kernel')
               PROVE  Follows(kernel[i], Arrived(i - 1))'
    OBVIOUS
  <2>0. Len(kernel) \in Nat /\ Len(kernel') = Len(kernel) - 1 /\ kernel' = Tail(kernel)
    BY <1>2, <1>5
  <2>1. /\ i - 1 \in 0..Len(kernel') /\ (i - 1) + 1 = i /\ (i + 1) - 1 = i
        /\ i + 1 \in 1..Len(kernel) /\ kernel'[i] = kernel[i + 1]
    <3>1. i \in Nat \ {0} /\ i <= Len(kernel) - 1
      BY <2>0
    <3>2. kernel'[i] = kernel[i + 1]
      BY <1>2, <2>0
    <3>3. QED
      BY <2>0, <3>1, <3>2
  <2>2. Arrived(i - 1)' = Arrived(i)
    BY <1>8, <2>1
  <2>3. Follows(kernel[i + 1], Arrived(i))
    BY <2>1 DEF StreamInv, StreamIsWhole
  <2>4. QED
    BY <2>1, <2>2, <2>3 DEF Follows
<1>11. asked' = Arrived(Len(kernel))'
  <2>1. Len(kernel') \in 0..Len(kernel') /\ Len(kernel') + 1 = Len(kernel)
    BY <1>2, <1>5
  <2>2. QED
    BY <1>5, <1>8, <2>1 DEF StreamInv, StreamIsWhole
<1>12. QED
  BY <1>7, <1>9, <1>10, <1>11 DEF StreamInv, StreamIsWhole

(* What a client sends follows what it has sent before. *)
LEMMA ClientSendsStream == StreamInv /\ Places /\ ClientAsks => StreamInv'
<1> SUFFICES ASSUME StreamInv, Places, ClientAsks PROVE StreamInv'
  OBVIOUS
<1>1. PICK record \in Records : /\ kernel' = Append(kernel, record)
                                     /\ asked' = End(asked, record)
  BY DEF ClientAsks
<1>2. UNCHANGED <<pc, recvBuf, answered, pending>>
  BY DEF ClientAsks
<1>3. /\ kernel \in Seq(Seq(Chunks) \ {<<>>}) /\ asked \in Nat
      /\ {recvBuf, answered, asked} \subseteq Nat
  BY DEF StreamInv, Stream
<1>4. /\ record \in Seq(Chunks) \ {<<>>}
      /\ End(asked, record) \in Nat
      /\ Follows(record, asked)
  BY <1>3, NewRecord
<1>5. /\ Len(kernel) \in Nat /\ Len(kernel') = Len(kernel) + 1
      /\ kernel' \in Seq(Seq(Chunks) \ {<<>>})
      /\ kernel'[Len(kernel')] = record
      /\ \A i \in 1..Len(kernel) : kernel'[i] = kernel[i]
  BY <1>1, <1>3, <1>4
<1>6. {recvBuf, answered, asked}' \subseteq Nat /\ Stream' /\ HandleInv'
  BY <1>1, <1>2, <1>3, <1>4, <1>5 DEF StreamInv, Stream, HandleInv
<1>7. \A i \in 0..Len(kernel) : Arrived(i)' = Arrived(i)
  BY <1>2, <1>5 DEF Arrived, End
<1>8. Follows(pending, answered + recvBuf)'
  BY <1>2 DEF StreamInv, StreamIsWhole, Follows
<1>9. \A i \in 1..Len(kernel') : Follows(kernel[i], Arrived(i - 1))'
  <2> SUFFICES ASSUME NEW i \in 1..Len(kernel')
               PROVE  Follows(kernel[i], Arrived(i - 1))'
    OBVIOUS
  <2>1. i - 1 \in 0..Len(kernel)
    BY <1>5
  <2>2. Arrived(i - 1)' = Arrived(i - 1)
    BY <1>7, <2>1
  <2>3. CASE i \in 1..Len(kernel)
    <3>1. kernel'[i] = kernel[i] /\ Follows(kernel[i], Arrived(i - 1))
      BY <1>5, <2>3 DEF StreamInv, StreamIsWhole
    <3>2. QED
      BY <2>2, <3>1 DEF Follows
  <2>4. CASE i = Len(kernel')
    <3>1. kernel'[i] = record /\ i - 1 = Len(kernel)
      BY <1>5, <2>4
    <3>2. Arrived(i - 1) = asked
      BY <3>1 DEF StreamInv, StreamIsWhole
    <3>3. QED
      BY <1>4, <2>2, <3>1, <3>2 DEF Follows
  <2>5. QED
    BY <1>5, <2>3, <2>4
<1>10. asked' = Arrived(Len(kernel))'
  <2>1. Arrived(Len(kernel))' = End(0, record)
    BY <1>5 DEF Arrived, End
  <2>2. QED
    BY <1>1, <1>4, <2>1 DEF End
<1>11. QED
  BY <1>6, <1>8, <1>9, <1>10 DEF StreamInv, StreamIsWhole

(* A request that is handled moves from recvBuf to the answered ones. *)
LEMMA StreamStep == StreamInv /\ Places /\ [LoopNext]_loopVars => StreamInv'
<1> SUFFICES ASSUME StreamInv, Places, [LoopNext]_loopVars PROVE StreamInv'
  OBVIOUS
<1>1. ASSUME UNCHANGED <<asked, kernel, pending>>, answered' + recvBuf' = answered + recvBuf
      PROVE  Stream' /\ StreamIsWhole'
  <2>1. \A i : Arrived(i)' = Arrived(i)
    BY <1>1 DEF Arrived, End
  <2>2. QED
    BY <1>1, <2>1 DEF StreamInv, Stream, StreamIsWhole, Follows
<1>2. CASE Handle
  <2>1. /\ {recvBuf, answered, asked} \subseteq Nat /\ recvBuf > 0
        /\ recvBuf' = recvBuf - 1 /\ answered' = answered + 1 /\ pc' = "send"
        /\ UNCHANGED <<asked, kernel, pending>>
    BY <1>2 DEF StreamInv, HandleInv, Handle, asker
  <2>2. {recvBuf, answered, asked}' \subseteq Nat /\ answered' + recvBuf' = answered + recvBuf
    BY <2>1
  <2>3. QED
    BY <1>1, <2>1, <2>2 DEF StreamInv, HandleInv
<1>3. CASE StreamUnchanged
  BY <1>1, <1>3 DEF StreamUnchanged, StreamInv, HandleInv
<1>4. QED
  BY <1>2, <1>3, StreamChanges, RecvPendingStream, RecvRecordStream, ClientSendsStream

-------------------------------------------------------------------------------
(* The answers change when a request is handled and when they are sent.        *)
LEMMA AnswerChanges ==
  ASSUME [LoopNext]_loopVars
  PROVE  \/ Handle \/ Send
         \/ UNCHANGED <<answered, sendBuf, got>> /\ (pc' # "quit" \/ pc' = pc)
<1> USE DEF buffers, asker, disk
<1>1. CASE Select
  <2>1. pc' \in {"recv", "send"} /\ UNCHANGED <<answered, sendBuf, got>>
    BY <1>1 DEF Select
  <2>2. QED
    BY <2>1
<1>2. ASSUME NEW chunk, Receive(chunk)
      PROVE  UNCHANGED <<answered, sendBuf, got>> /\ pc' # "quit"
  <2>1. pc' \in {"handle", "send"} /\ UNCHANGED <<answered, sendBuf, got>>
    BY <1>2 DEF Receive
  <2>2. QED
    BY <2>1
<1>3. CASE RecvPending \/ RecvRecord
  BY <1>2, <1>3 DEF RecvPending, RecvRecord
<1>4. CASE RecvNothing \/ NothingToSend \/ LargeEnough
  BY <1>4 DEF RecvNothing, NothingToSend, LargeEnough
<1>5. CASE RecvRaises \/ HandleRaises \/ SendRaises \/ EnlargeFails
  BY <1>5 DEF RecvRaises, HandleRaises, SendRaises, EnlargeFails,
              LoopRaises
<1>6. CASE GrowImage \/ GrowLoop \/ GrowFs
  BY <1>6 DEF GrowImage, GrowLoop, GrowFs
<1>7. CASE ClientAsks \/ ClientLeaves \/ ClientFills
  BY <1>7 DEF ClientAsks, ClientLeaves, ClientFills
<1>8. CASE UNCHANGED loopVars
  BY <1>8 DEF loopVars
<1>9. QED
  BY <1>1, <1>3, <1>4, <1>5, <1>6, <1>7, <1>8 DEF LoopNext, LoopStep, LoopOver

(* Each answer is in sendBuf or sent. *)
LEMMA AnswerStep ==
  ASSUME AnswerInv, answered \in Nat, [LoopNext]_loopVars
  PROVE  AnswerInv'
<1>1. sendBuf \in Nat /\ got \in Nat /\ answered = got + sendBuf
  BY DEF AnswerInv
<1>2. CASE Handle
  <2>1. /\ sendBuf' = sendBuf + 1 /\ answered' = answered + 1 /\ got' = got
        /\ pc' = "send"
    BY <1>2 DEF Handle
  <2>2. QED
    BY <1>1, <2>1 DEF AnswerInv
<1>3. CASE Send
  <2>1. sendBuf' = 0 /\ got' = got + sendBuf /\ answered' = answered
    BY <1>3 DEF Send
  <2>2. QED
    BY <1>1, <2>1 DEF AnswerInv
<1>4. CASE UNCHANGED <<answered, sendBuf, got>> /\ (pc' # "quit" \/ pc' = pc)
  BY <1>4 DEF AnswerInv
<1>5. QED
  BY <1>2, <1>3, <1>4, AnswerChanges

-------------------------------------------------------------------------------
(* The sizes change in five steps; and only enlarge() goes on to its next.     *)
LEMMA SizeChanges ==
  ASSUME [LoopNext]_loopVars
  PROVE  \/ Handle \/ ClientFills
         \/ GrowImage \/ GrowLoop \/ GrowFs
         \/ /\ UNCHANGED <<attached, image, loop, fs, used>>
            /\ pc' \notin {"losetup", "resize2fs"} \/ pc' = pc
<1> USE DEF disk
<1>1. CASE Select
  <2>1. pc' \in {"recv", "send"} /\ UNCHANGED <<attached, image, loop, fs, used>>
    BY <1>1 DEF Select
  <2>2. QED
    BY <2>1
<1>2. ASSUME NEW chunk, Receive(chunk)
      PROVE  /\ UNCHANGED <<attached, image, loop, fs, used>>
             /\ pc' \notin {"losetup", "resize2fs"}
  <2>1. pc' \in {"handle", "send"} /\ UNCHANGED <<attached, image, loop, fs, used>>
    BY <1>2 DEF Receive
  <2>2. QED
    BY <2>1
<1>3. CASE RecvPending \/ RecvRecord
  BY <1>2, <1>3 DEF RecvPending, RecvRecord
<1>4. CASE RecvNothing \/ NothingToSend \/ LargeEnough
  BY <1>4 DEF RecvNothing, NothingToSend, LargeEnough
<1>5. CASE RecvRaises \/ HandleRaises \/ SendRaises \/ EnlargeFails
  BY <1>5 DEF RecvRaises, HandleRaises, SendRaises, EnlargeFails,
              LoopRaises
<1>6. CASE Send
  <2>1. pc' \in {"quit", "enlarge"} /\ UNCHANGED <<attached, image, loop, fs, used>>
    BY <1>6 DEF Send
  <2>2. QED
    BY <2>1
<1>7. CASE ClientAsks \/ ClientLeaves
  BY <1>7 DEF ClientAsks, ClientLeaves
<1>8. CASE UNCHANGED loopVars
  BY <1>8 DEF loopVars
<1>9. QED
  BY <1>1, <1>3, <1>4, <1>5, <1>6, <1>7, <1>8 DEF LoopNext, LoopStep, LoopOver

(* The file system stays within the loop device, and that within the image.    *)
LEMMA SizesStep ==
  ASSUME SizesInv, [LoopNext]_loopVars
  PROVE  SizesInv'
<1> USE DEF SizesInv
<1>1. CASE Handle
  <2>1. pc' = "send" /\ UNCHANGED <<image, fs, used>>
    BY <1>1 DEF Handle
  <2>2. UNCHANGED <<attached, loop>> \/ loop' = image
    BY <1>1 DEF Handle
  <2>3. QED
    BY <2>1, <2>2
<1>2. CASE ClientFills
  BY <1>2 DEF ClientFills
<1>3. CASE GrowImage
  <2>1. /\ attached /\ image' = image + Step /\ pc' = "losetup"
        /\ UNCHANGED <<attached, loop, fs, used>>
    BY <1>3 DEF GrowImage, Low
  <2>2. image' \in Nat /\ image <= image'
    BY <2>1, SizeAssumption
  <2>3. QED
    BY <2>1, <2>2
<1>4. CASE GrowLoop
  <2>1. /\ pc = "losetup" /\ loop' = image /\ pc' = "resize2fs"
        /\ UNCHANGED <<attached, image, fs, used>>
    BY <1>4 DEF GrowLoop
  <2>2. QED
    BY <2>1
<1>5. CASE GrowFs
  <2>1. /\ pc = "resize2fs" /\ fs' = image /\ pc' = "select"
        /\ UNCHANGED <<attached, image, loop, used>>
    BY <1>5 DEF GrowFs
  <2>2. QED
    BY <2>1
<1>6. CASE /\ UNCHANGED <<attached, image, loop, fs, used>>
           /\ pc' \notin {"losetup", "resize2fs"} \/ pc' = pc
  BY <1>6
<1>7. QED
  BY <1>1, <1>2, <1>3, <1>4, <1>5, <1>6, SizeChanges

-------------------------------------------------------------------------------
(* The inductive invariant of the request loop. *)
THEOREM LoopInductive == LoopSpec => []LoopInv
<1>1. LoopInit => LoopInv
  <2> SUFFICES ASSUME LoopInit PROVE LoopInv
    OBVIOUS
  <2>1. Places
    BY DEF LoopInit, Places
  <2>2. StreamInv
    <3>1. /\ pc = "select" /\ recvBuf = 0 /\ answered = 0 /\ asked = 0
          /\ kernel = <<>> /\ pending = <<>>
      BY DEF LoopInit
    <3>2. Stream
      BY <3>1 DEF Stream
    <3>3. StreamIsWhole
      BY <3>1 DEF StreamIsWhole, Follows, Arrived, End
    <3>4. QED
      BY <3>1, <3>2, <3>3 DEF StreamInv, HandleInv
  <2>3. AnswerInv
    BY DEF LoopInit, AnswerInv
  <2>4. SizesInv
    <3>1. {fs, image} \subseteq Nat /\ fs <= image
      BY SizeAssumption DEF LoopInit
    <3>2. pc = "select" /\ attached = FALSE /\ loop = 0 /\ used \in 0..fs
      BY DEF LoopInit
    <3>3. QED
      BY <3>1, <3>2 DEF SizesInv
  <2>5. QED
    BY <2>1, <2>2, <2>3, <2>4 DEF LoopInv
<1>2. LoopInv /\ [LoopNext]_loopVars => LoopInv'
  <2> SUFFICES ASSUME LoopInv, [LoopNext]_loopVars PROVE LoopInv'
    OBVIOUS
  <2>1. Places'
    BY PlacesStep DEF LoopInv
  <2>2. StreamInv'
    BY StreamStep DEF LoopInv
  <2>3. AnswerInv'
    BY AnswerStep DEF LoopInv, StreamInv
  <2>4. SizesInv'
    BY SizesStep DEF LoopInv
  <2>5. QED
    BY <2>1, <2>2, <2>3, <2>4 DEF LoopInv
<1>3. QED
  BY <1>1, <1>2, PTL DEF LoopSpec

(* Each request is answered once and in its turn, no request and no answer is  *)
(* lost on the way, and a session that quits has sent its last answer.         *)
THEOREM EachIsAnsweredOnce == LoopSpec => []OneAnswerEach
<1>1. LoopInv => OneAnswerEach
  BY DEF LoopInv, StreamInv, AnswerInv, OneAnswerEach
<1>2. QED
  BY <1>1, LoopInductive, PTL

(* The file system never exceeds the loop device, nor that the image, wherever *)
(* an enlarge() is, and an earlier one has failed.                             *)
THEOREM SizesAreOrdered == LoopSpec => []SizesOrdered
<1>1. LoopInv => SizesOrdered
  BY DEF LoopInv, Places, StreamInv, Stream, AnswerInv, SizesInv, SizesOrdered, LoopTypes
<1>2. QED
  BY <1>1, LoopInductive, PTL
===============================================================================
