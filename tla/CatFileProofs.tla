----------------------------- MODULE CatFileProofs -----------------------------
(***************************************************************************)
(* Proofs about CatFile, for requests and answers of any size.             *)
(***************************************************************************)
EXTENDS CatFile, TLAPS

(* Who may have dropped the server socket: it is closed only between two steps *)
(* of stop(), and before stop() only a failing thread gives it up.             *)
SocketInv ==
    /\ serverSock \in {"open", "closed", "none"} /\ failed \in BOOLEAN
    /\ stopper = "starting" => thread = "off" /\ serverSock = "none"
    /\ serverSock = "closed" => stopper = "clear"
    /\ stopper \in {"running", "close"} =>
          /\ thread = "except" => failed
          /\ serverSock = "none" => failed \/ thread = "off"
    /\ stopper = "close" /\ serverSock = "none" => failed
    /\ thread = "off" => serverSock = "none"

IInv == SocketInv /\ DeadThreadListensNoMore /\ StopRaisesOnlyAfterFailure

-------------------------------------------------------------------------------
(* The steps inside a connection decide where the thread goes by serverSock     *)
(* and leave the rest of what IInv speaks of alone.                             *)
LEMMA ConnectionStep ==
  ASSUME RecvLenPart \/ RecvLen \/ RecvRest \/ RecvEof \/ SendRest \/ SendRaises \/ Timeout
  PROVE  /\ thread = "session"
         /\ thread' \in {"top", "session"} \/ (thread' = "dead" /\ serverSock = "none")
         /\ UNCHANGED <<serverSock, stopper, failed>>
<1> USE DEF Connected, Continue, Look, EndConnection
<1>1. ASSUME NEW from, Answer(from)
      PROVE  thread' \in {"top", "session"} \/ (thread' = "dead" /\ serverSock = "none")
  BY <1>1 DEF Answer
<1>2. ASSUME NEW g, NEW b, RecvName(g, b)
      PROVE  thread' \in {"top", "session"} \/ (thread' = "dead" /\ serverSock = "none")
  BY <1>1, <1>2 DEF RecvName
<1>3. CASE RecvLenPart
  BY <1>3 DEF RecvLenPart
<1>4. CASE RecvLen
  BY <1>2, <1>4 DEF RecvLen
<1>5. CASE RecvRest
  BY <1>2, <1>5 DEF RecvRest
<1>6. CASE RecvEof \/ SendRaises
  BY <1>6 DEF RecvEof, SendRaises
<1>7. CASE SendRest
  BY <1>1, <1>7 DEF SendRest
<1>8. CASE Timeout
  BY <1>8 DEF Timeout
<1>9. QED
  BY <1>3, <1>4, <1>5, <1>6, <1>7, <1>8

(* Each step preserves it. *)
LEMMA StepInv == ASSUME IInv, [Next]_vars PROVE IInv'
<1> USE DEF IInv, SocketInv, DeadThreadListensNoMore, StopRaisesOnlyAfterFailure
<1>1. CASE ClientSends \/ ClientLeaves
  BY <1>1 DEF ClientSends, ClientLeaves
<1>2. CASE Top \/ Poll \/ Accept \/ AcceptRaises \/ Except
  <2>1. CASE Top \/ Accept
    BY <2>1 DEF Top, Accept
  <2>2. CASE Poll
    BY <2>2 DEF Poll
  <2>3. CASE AcceptRaises
    <3>1. CASE serverSock = "open"
      BY <2>3, <3>1 DEF AcceptRaises
    <3>2. CASE serverSock # "open"
      BY <2>3, <3>2 DEF AcceptRaises
    <3>3. QED
      BY <3>1, <3>2
  <2>4. CASE Except
    BY <2>4 DEF Except
  <2>5. QED
    BY <1>2, <2>1, <2>2, <2>3, <2>4
<1>3. CASE RecvLenPart \/ RecvLen \/ RecvRest \/ RecvEof \/ SendRest \/ SendRaises \/ Timeout
  BY <1>3, ConnectionStep
<1>4. CASE Start \/ StopCheck \/ StopStep
  BY <1>4 DEF Start, StopCheck, StopStep, StopClose, StopClear, Join
<1>5. CASE Over \/ UNCHANGED vars
  BY <1>5 DEF Over, vars
<1>6. QED
  BY <1>1, <1>2, <1>3, <1>4, <1>5 DEF Next, ThreadStep

(* The invariant is inductive. *)
THEOREM Inductive == Spec => []IInv
<1>1. Init => IInv
  BY DEF Init, IInv, SocketInv, DeadThreadListensNoMore, StopRaisesOnlyAfterFailure
<1>2. QED
  BY <1>1, StepInv, PTL DEF Spec

(* A thread that is over, on whichever path, has given up the server socket. *)
THEOREM NobodyListens == Spec => []DeadThreadListensNoMore
<1>1. IInv => DeadThreadListensNoMore
  BY DEF IInv
<1>2. QED
  BY <1>1, Inductive, PTL

(* stop() raises nothing unless accept() had failed before. *)
THEOREM StopIsQuiet == Spec => []StopRaisesOnlyAfterFailure
<1>1. IInv => StopRaisesOnlyAfterFailure
  BY DEF IInv
<1>2. QED
  BY <1>1, Inductive, PTL

-------------------------------------------------------------------------------
(* Where the bytes of a request are: each is with the client, has arrived, or   *)
(* was received, as part of the length or of the name.                          *)
ByteInv ==
    /\ {got, sent, unsent, inbox} \subseteq Nat
    /\ sent <= HeaderSize + DataSize
    /\ field \in {"none", "answer"} => got = 0 /\ unsent = 0 /\ inbox = 0
    /\ field = "len"  => got + inbox + unsent = LenSize + NameSize
    /\ field = "name" => got + inbox + unsent = NameSize

PlaceInv == /\ thread \in {"off", "top", "poll", "accept", "session", "except", "dead"}
            /\ stopper \in {"starting", "running", "close", "clear", "join", "done", "raised"}
            /\ field \in {"none", "len", "name", "answer"}
            /\ peer \in {"none", "open", "gone"}
            /\ outcome \in {"none", "answered", "left", "dropped"}

(* SizeAssumption, number by number. *)
LEMMA Sizes == /\ LenSize \in Nat /\ NameSize \in Nat
               /\ HeaderSize \in Nat /\ DataSize \in Nat
               /\ LenSize > 0 /\ NameSize > 0 /\ HeaderSize > 0
BY SizeAssumption

(* The two ways in which a step of a connection ends.                           *)
LEMMA EndKeepsBytes == ASSUME NEW how, EndConnection(how) PROVE ByteInv'
BY Sizes DEF EndConnection, ByteInv

(* The bytes still add up when a part of the answer was sent, *)
LEMMA AnswerKeepsBytes ==
  ASSUME NEW from \in Nat, Answer(from), unsent = 0 PROVE ByteInv'
<1>1. PICK n \in (from + 1)..(HeaderSize + DataSize) :
         IF n = HeaderSize + DataSize THEN EndConnection("answered") ELSE Continue("answer", 0, n)
  BY DEF Answer
<1>2. CASE n = HeaderSize + DataSize
  BY <1>1, <1>2, EndKeepsBytes
<1>3. CASE n # HeaderSize + DataSize
  BY <1>1, <1>3, Sizes DEF Continue, ByteInv
<1>4. QED
  BY <1>2, <1>3

(* and when a part of the name was received. *)
LEMMA NameKeepsBytes ==
  ASSUME NEW g \in Nat, NEW b \in Nat, unsent \in Nat, g + b + unsent = NameSize, RecvName(g, b)
  PROVE  ByteInv'
<1>1. CASE b = 0 /\ EndConnection(IF peer = "gone" THEN "left" ELSE "dropped")
  BY <1>1, EndKeepsBytes
<1>2. CASE b > 0 /\ g + b < NameSize /\ Continue("name", g + b, 0)
  BY <1>2, Sizes DEF Continue, ByteInv
<1>3. CASE b > 0 /\ g + b = NameSize /\ Answer(0)
  BY <1>3, AnswerKeepsBytes, Sizes
<1>4. QED
  BY <1>1, <1>2, <1>3 DEF RecvName

(* So every step keeps their sums, *)
LEMMA StepBytes == ASSUME ByteInv, [Next]_vars PROVE ByteInv'
<1>1. CASE ClientSends
  BY <1>1, Sizes DEF ClientSends, ByteInv
<1>2. CASE ClientLeaves \/ Timeout
  BY <1>2 DEF ClientLeaves, Timeout, session, ByteInv
<1>3. CASE Top \/ Poll \/ AcceptRaises \/ Except
  BY <1>3 DEF Top, Poll, AcceptRaises, Except, session, ByteInv
<1>4. CASE Accept
  BY <1>4, Sizes DEF Accept, ByteInv
<1>5. CASE RecvLenPart
  BY <1>5, Sizes DEF RecvLenPart, Connected, Continue, ByteInv
<1>6. CASE RecvLen
  <2>1. /\ RecvName(0, got + inbox - LenSize)
        /\ got + inbox - LenSize \in Nat
        /\ 0 + (got + inbox - LenSize) + unsent = NameSize
        /\ unsent \in Nat
    BY <1>6, Sizes DEF RecvLen, Connected, ByteInv
  <2>2. QED
    BY <2>1, NameKeepsBytes
<1>7. CASE RecvRest
  <2>1. /\ RecvName(got, inbox)
        /\ got \in Nat /\ inbox \in Nat /\ unsent \in Nat
        /\ got + inbox + unsent = NameSize
    BY <1>7 DEF RecvRest, Connected, ByteInv
  <2>2. QED
    BY <2>1, NameKeepsBytes
<1>8. CASE RecvEof \/ SendRaises
  BY <1>8, EndKeepsBytes DEF RecvEof, SendRaises
<1>9. CASE SendRest
  <2>1. Answer(sent) /\ sent \in Nat /\ unsent = 0
    BY <1>9 DEF SendRest, Connected, ByteInv
  <2>2. QED
    BY <2>1, AnswerKeepsBytes
<1>10. CASE Start \/ StopCheck \/ StopStep \/ Over \/ UNCHANGED vars
  BY <1>10 DEF Start, StopCheck, StopStep, StopClose, StopClear, Join, Over, vars, session, ByteInv
<1>11. QED
  BY <1>1, <1>2, <1>3, <1>4, <1>5, <1>6, <1>7, <1>8, <1>9, <1>10 DEF Next, ThreadStep

(* and the places of both threads keep their types. *)
LEMMA StepPlaces == ASSUME PlaceInv, [Next]_vars PROVE PlaceInv'
<1> USE DEF PlaceInv, Continue, EndConnection, Look, Connected
<1>1. ASSUME NEW from, Answer(from), UNCHANGED stopper PROVE PlaceInv'
  BY <1>1 DEF Answer
<1>2. ASSUME NEW g, NEW b, RecvName(g, b), UNCHANGED stopper PROVE PlaceInv'
  BY <1>1, <1>2 DEF RecvName
<1>3. CASE ClientSends \/ ClientLeaves
  BY <1>3 DEF ClientSends, ClientLeaves
<1>4. CASE Top \/ Poll \/ Accept \/ AcceptRaises \/ Except
  BY <1>4 DEF Top, Poll, Accept, AcceptRaises, Except, session
<1>5. CASE RecvLenPart
  BY <1>5 DEF RecvLenPart
<1>6. CASE RecvLen \/ RecvRest
  BY <1>2, <1>6 DEF RecvLen, RecvRest
<1>7. CASE RecvEof \/ SendRaises
  BY <1>7 DEF RecvEof, SendRaises
<1>8. CASE SendRest
  BY <1>1, <1>8 DEF SendRest
<1>9. CASE Timeout
  BY <1>9 DEF Timeout, session
<1>10. CASE Start \/ StopCheck \/ StopStep \/ Over \/ UNCHANGED vars
  BY <1>10 DEF Start, StopCheck, StopStep, StopClose, StopClear, Join, Over, vars, session
<1>11. QED
  BY <1>3, <1>4, <1>5, <1>6, <1>7, <1>8, <1>9, <1>10 DEF Next, ThreadStep

(* The counts of bytes never exceed what they count, so TypeOK holds.           *)
THEOREM TypeCorrect == Spec => []TypeOK
<1>1. Init => ByteInv /\ PlaceInv
  BY Sizes DEF Init, ByteInv, PlaceInv
<1>2. IInv /\ ByteInv /\ PlaceInv => TypeOK
  <2> SUFFICES ASSUME IInv, ByteInv, PlaceInv PROVE TypeOK
    OBVIOUS
  <2>1. got \in 0..(LenSize + NameSize)
    BY Sizes DEF ByteInv, PlaceInv
  <2>2. unsent \in 0..(LenSize + NameSize) /\ inbox \in 0..(LenSize + NameSize)
    BY Sizes DEF ByteInv, PlaceInv
  <2>3. sent \in 0..(HeaderSize + DataSize)
    BY Sizes DEF ByteInv
  <2>4. QED
    BY <2>1, <2>2, <2>3 DEF IInv, SocketInv, PlaceInv, TypeOK
<1>3. QED
  BY <1>1, <1>2, Inductive, StepBytes, StepPlaces, PTL DEF Spec
===============================================================================
