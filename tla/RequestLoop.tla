------------------------------- MODULE RequestLoop -------------------------------
(***************************************************************************)
(* The loop of GbsCtrlSession.run (gbs_ctrl_server.py): the buffers        *)
(* between the TLS connection and onRequest, and enlarge() of              *)
(* gbs_common.py, which each pass of the loop ends with.                   *)
(*                                                                         *)
(* A client sends TLS records.  recv(4096) returns one chunk of a record;  *)
(* the rest stays in the TLS layer (pending), where select() does not see  *)
(* it.  A client's requests are numbered; what counts of a chunk is which  *)
(* of them end in it.  What the requests are is left to CtrlSession: one   *)
(* may attach the disk or quit.                                            *)
(* Sizes are those of the image file, of the loop device on it and of the  *)
(* file system in it.  The socket does not block, so reading a record that *)
(* has arrived only in part raises and ends the session, as does a send    *)
(* that does not fit.                                                      *)
(*                                                                         *)
(* The loop follows on the handshake: the names are such that a module can *)
(* extend HandShaker and this one.                                         *)
(***************************************************************************)
EXTENDS Naturals, Sequences

CONSTANTS
    MaxRequests,    \* bound on the requests of a client
    Step,           \* imageSizeStep
    MinRemain,      \* imageSizeMinimalRemain
    MaxImage        \* bound on the size of the image

ASSUME SizeAssumption ==
    /\ {Step, MinRemain, MaxImage, MaxRequests} \subseteq Nat
    /\ 0 < MinRemain /\ MinRemain <= Step /\ Step <= MaxImage

VARIABLES
    pc,         \* where in the loop; "quit", "gone" and "raised" are its ends
    ready,      \* what select() has returned
    recvBuf,    \* complete requests in self.recvBuf
    sendBuf,    \* answers in self.sendBuf
    bQuit,      \* self.bQuit
    answered,   \* how many requests were handled and answered
    manners,    \* how the client sends its requests
    asked,      \* how many it has sent
    got,        \* how many answers it was sent
    open,       \* its end of the connection is open
    kernel,     \* records that have arrived
    pending,    \* chunks of a record that recv() has begun
    attached,   \* sysObj.loopDev is not None
    image, loop, fs,    \* sizes
    used        \* what the client has filled of the file system

buffers == <<recvBuf, sendBuf, bQuit, answered, kernel, pending, got>>
asker   == <<manners, asked, open>>
disk    == <<attached, image, loop, fs, used>>
loopVars == <<pc, ready, buffers, asker, disk>>

-------------------------------------------------------------------------------
(* The client. *)

(* The requests after "from", up to "to", end in the chunk.                    *)
Chunk(from, to) == [from |-> from, to |-> to]

Chunks == [from : Nat, to : Nat]

Records == LET a == asked
           IN  CASE manners = "polite"    -> {<<Chunk(a, a + 1)>>, <<Chunk(a, a)>>}
                 [] manners = "pipelined" -> {<<Chunk(a, a + 1)>>, <<Chunk(a, a + 2)>>}
                 [] manners = "large"     -> {<<Chunk(a, a + 1)>>,
                                          <<Chunk(a, a), Chunk(a, a + 1)>>}

(* Where the requests of some chunks end that begin after n.                   *)
End(n, chunks) == IF chunks = <<>> THEN n ELSE chunks[Len(chunks)].to

(* A polite client waits for each answer, and what it sends fits one recv().   *)
ClientAsks == /\ open
              /\ manners = "polite" => got = asked
              /\ \E record \in Records :
                   /\ End(asked, record) <= MaxRequests
                   /\ Len(kernel) < MaxRequests
                   /\ kernel' = Append(kernel, record)
                   /\ asked' = End(asked, record)
              /\ UNCHANGED <<pc, ready, recvBuf, sendBuf, bQuit, answered, pending, got,
                             manners, open, disk>>

ClientLeaves == /\ open
                /\ open' = FALSE
                /\ UNCHANGED <<pc, ready, buffers, manners, asked, disk>>

ClientFills == /\ attached /\ used < fs
               /\ used' = used + 1
               /\ UNCHANGED <<pc, ready, buffers, asker, attached, image, loop, fs>>

-------------------------------------------------------------------------------
(* run(): select, read, write, enlarge. *)

Ended == pc \in {"quit", "gone", "raised"}

LoopRaises == pc' = "raised" /\ UNCHANGED <<ready, asker, disk>>

(* Within ten seconds select() returns with nothing. *)
Select == /\ pc = "select"
          /\ ready' = (IF kernel # <<>> \/ ~open THEN {"read"} ELSE {})
                        \cup IF sendBuf > 0 THEN {"write"} ELSE {}
          /\ pc' = IF "read" \in ready' /\ ~bQuit THEN "recv" ELSE "send"
          /\ UNCHANGED <<buffers, asker, disk>>

(* A mutant of Receive: the request is left for the next pass.                  *)
ReceiveLater(chunk) == /\ recvBuf' = recvBuf + (chunk.to - chunk.from)
                       /\ pc' = IF recvBuf > 0 THEN "handle" ELSE "send"
                       /\ UNCHANGED <<ready, sendBuf, bQuit, answered, got, asker, disk>>

Receive(chunk) == /\ recvBuf' = recvBuf + (chunk.to - chunk.from)
                  /\ pc' = IF recvBuf' > 0 THEN "handle" ELSE "send"
                  /\ UNCHANGED <<ready, sendBuf, bQuit, answered, got, asker, disk>>

RecvPending == /\ pc = "recv" /\ pending # <<>>
               /\ Receive(Head(pending))
               /\ pending' = Tail(pending)
               /\ UNCHANGED kernel

(* A mutant of RecvRecord: what recv() did not return is thrown away.           *)
RecvDrops == /\ pc = "recv" /\ pending = <<>> /\ kernel # <<>>
             /\ Receive(Head(Head(kernel)))
             /\ kernel' = Tail(kernel)
             /\ UNCHANGED pending

RecvRecord == /\ pc = "recv" /\ pending = <<>> /\ kernel # <<>>
              /\ Receive(Head(Head(kernel)))
              /\ pending' = Tail(Head(kernel))
              /\ kernel' = Tail(kernel)

RecvRaises == /\ pc = "recv" /\ pending = <<>>
              /\ LoopRaises
              /\ UNCHANGED buffers

RecvNothing == /\ pc = "recv" /\ pending = <<>> /\ kernel = <<>> /\ ~open
               /\ pc' = "gone"
               /\ UNCHANGED <<ready, buffers, asker, disk>>

(* One request for each recv(). *)
Handle == /\ pc = "handle"
          /\ recvBuf' = recvBuf - 1
          /\ sendBuf' = sendBuf + 1
          /\ answered' = answered + 1
          /\ pc' = "send"
          /\ \/ UNCHANGED <<bQuit, attached, loop>>
             \/ bQuit' = TRUE /\ UNCHANGED <<attached, loop>>
             \/ ~attached /\ attached' = TRUE /\ loop' = image /\ UNCHANGED bQuit
          /\ UNCHANGED <<ready, kernel, pending, got, asker, image, fs, used>>

HandleRaises == /\ pc = "handle"
                /\ LoopRaises
                /\ UNCHANGED buffers

(* A mutant of Send: the last answer is not waited for.                         *)
SendQuitsFirst == /\ pc = "send" /\ "write" \in ready
                  /\ IF bQuit THEN pc' = "quit" /\ UNCHANGED <<sendBuf, got>>
                              ELSE pc' = "enlarge" /\ got' = got + sendBuf /\ sendBuf' = 0
                  /\ UNCHANGED <<ready, recvBuf, bQuit, answered, kernel, pending, asker, disk>>

Send == /\ pc = "send" /\ "write" \in ready
        /\ got' = got + sendBuf
        /\ sendBuf' = 0
        /\ pc' = IF bQuit THEN "quit" ELSE "enlarge"
        /\ UNCHANGED <<ready, recvBuf, bQuit, answered, kernel, pending, asker, disk>>

SendRaises == /\ pc = "send" /\ "write" \in ready
              /\ LoopRaises
              /\ UNCHANGED buffers

(* A mutant of NothingToSend: the disk is not looked at when the loop idles.    *)
IdleNeverEnlarges == /\ pc = "send" /\ "write" \notin ready
                     /\ pc' = "select"
                     /\ UNCHANGED <<ready, buffers, asker, disk>>

NothingToSend == /\ pc = "send" /\ "write" \notin ready
                 /\ pc' = "enlarge"
                 /\ UNCHANGED <<ready, buffers, asker, disk>>

-------------------------------------------------------------------------------
(* enlarge(). *)

Low == attached /\ fs - used < MinRemain

LargeEnough == /\ pc = "enlarge" /\ ~Low
               /\ pc' = "select"
               /\ UNCHANGED <<ready, buffers, asker, disk>>

EnlargeFails == /\ (pc = "enlarge" /\ Low) \/ pc \in {"losetup", "resize2fs"}
                /\ LoopRaises
                /\ UNCHANGED buffers

GrowImage == /\ pc = "enlarge" /\ Low
             /\ image + Step <= MaxImage
             /\ image' = image + Step
             /\ pc' = "losetup"
             /\ UNCHANGED <<ready, buffers, asker, attached, loop, fs, used>>

(* A mutant of GrowLoop: "losetup -c" is run on the wrong loop device.          *)
GrowWrongLoop == /\ pc = "losetup"
                 /\ pc' = "resize2fs"
                 /\ UNCHANGED <<ready, buffers, asker, disk>>

GrowLoop == /\ pc = "losetup"
            /\ loop' = image
            /\ pc' = "resize2fs"
            /\ UNCHANGED <<ready, buffers, asker, attached, image, fs, used>>

GrowFs == /\ pc = "resize2fs"
          /\ fs' = image
          /\ pc' = "select"
          /\ UNCHANGED <<ready, buffers, asker, attached, image, loop, used>>

-------------------------------------------------------------------------------
(* The image may have been left larger than its file system by an enlarge()    *)
(* of an earlier session that failed.                                          *)
LoopInit == /\ pc = "select" /\ ready = {}
            /\ recvBuf = 0 /\ sendBuf = 0 /\ bQuit = FALSE /\ answered = 0
            /\ manners \in {"polite", "pipelined", "large"}
            /\ asked = 0 /\ got = 0 /\ open = TRUE
            /\ kernel = <<>> /\ pending = <<>>
            /\ attached = FALSE /\ loop = 0
            /\ fs \in {Step, MaxImage}
            /\ image \in {s \in {Step, 2 * Step, MaxImage} : fs <= s /\ s <= MaxImage}
            /\ used \in 0..fs

LoopStep == \/ Select
            \/ RecvPending \/ RecvRecord \/ RecvRaises \/ RecvNothing
            \/ Handle \/ HandleRaises
            \/ Send \/ SendRaises \/ NothingToSend
            \/ LargeEnough \/ EnlargeFails \/ GrowImage \/ GrowLoop \/ GrowFs

LoopOver == Ended /\ UNCHANGED loopVars

LoopNext == ClientAsks \/ ClientLeaves \/ ClientFills \/ LoopStep \/ LoopOver

LoopSpec == LoopInit /\ [][LoopNext]_loopVars

(* The thread is scheduled; select() has a timeout. *)
LoopLiveSpec == LoopSpec /\ WF_loopVars(LoopStep)

-------------------------------------------------------------------------------
(* Properties. *)

(* Every variable keeps its type. *)
LoopTypes == /\ pc \in {"select", "recv", "handle", "send", "enlarge", "losetup", "resize2fs",
                        "quit", "gone", "raised"}
             /\ ready \subseteq {"read", "write"}
             /\ {recvBuf, sendBuf, answered, asked, got, image, loop, fs, used} \subseteq Nat
             /\ manners \in {"polite", "pipelined", "large"}
             /\ {bQuit, open, attached} \subseteq BOOLEAN
             /\ kernel \in Seq(Seq(Chunks) \ {<<>>})
             /\ pending \in Seq(Chunks)

(* The chunks hold the requests after n, in order and without a gap.           *)
Follows(chunks, n) ==
    \A i \in 1..Len(chunks) :
        /\ chunks[i].from = (IF i = 1 THEN n ELSE chunks[i - 1].to)
        /\ chunks[i].from <= chunks[i].to

(* Where the first i records that have arrived end.                            *)
Arrived(i) == IF i = 0 THEN End(answered + recvBuf, pending) ELSE End(0, kernel[i])

(* Those that are answered or in recvBuf, then those pending, then those of    *)
(* each record that has arrived are, in this order, all that the client sent.  *)
StreamIsWhole == /\ Follows(pending, answered + recvBuf)
                 /\ \A i \in 1..Len(kernel) : Follows(kernel[i], Arrived(i - 1))
                 /\ asked = Arrived(Len(kernel))

(* No request is lost in the buffers, answered twice or before it was asked,   *)
(* and no answer is lost; a session that ends because it was asked to has sent *)
(* all of them.                                                                *)
OneAnswerEach == /\ StreamIsWhole
                 /\ answered = got + sendBuf
                 /\ pc = "quit" => sendBuf = 0

(* The types hold, and the file system never exceeds the loop device, nor that *)
(* the image.                                                                  *)
SizesOrdered == /\ LoopTypes
                /\ used <= fs /\ fs <= image
                /\ attached => (fs <= loop /\ loop <= image)

(* A polite client is answered, or the session ends.                           *)
PoliteIsAnswered == (manners = "polite" /\ got < asked) ~> (got = asked \/ Ended)

(* A disk that has become too full is enlarged, or the session ends.           *)
SpaceIsRelieved == Low ~> (~Low \/ Ended)
===============================================================================
