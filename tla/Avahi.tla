--------------------------------- MODULE Avahi ---------------------------------
(***************************************************************************)
(* AvahiServiceRegister of gbs_util.py: syncupd announces itself through   *)
(* the Avahi daemon, over D-Bus, from callbacks of the main loop.          *)
(*                                                                         *)
(* Signals reach the main loop in the order the bus sent them (signals),   *)
(* but a blocking call is answered at once, so what a call sees may be     *)
(* newer than the signals still waiting.  pc is the blocking call the main *)
(* loop is in, "idle" between two callbacks.  Avahi acts at any moment;    *)
(* calls to it fail when it is gone and may fail while it is sick.         *)
(* connect_to_signal and add_signal_receiver only send a match rule and    *)
(* never fail, but nothing is delivered for what happened before.          *)
(***************************************************************************)
EXTENDS Naturals, Sequences

CONSTANT MaxSignals     \* bound on the signals that wait

ASSUME MaxSignalsAssumption == MaxSignals \in Nat \ {0}

VARIABLES
    pc,             \* the call the main loop is in
    server,         \* self._server: to this Avahi ("live"), to one that is gone ("stale")
    group,          \* self._entryGroup, and what became of the group in Avahi
    createTimer,    \* self._retryCreateServerTimer is not None
    registerTimer,  \* self._retryRegisterServiceTimer is not None
    watching,       \* NameOwnerChanged is subscribed to
    signals,        \* those sent and not dispatched
    avahi,          \* the Avahi daemon
    subscriptions,  \* how often its StateChanged is subscribed to
    sick,           \* its calls may fail
    lost            \* history: nobody will be told of a change that matters

own      == <<pc, server, group, createTimer, registerTimer, watching>>
external == <<avahi, subscriptions, sick>>
vars == <<own, signals, external, lost>>

-------------------------------------------------------------------------------
(* The Avahi daemon. *)

Room(n) == Len(signals) + n <= MaxSignals

Notify(signal, receivers) == /\ Room(receivers)
                             /\ signals' = signals \o [i \in 1..receivers |-> signal]

NotifyOwner(signal) == Notify(signal, IF watching THEN 1 ELSE 0)

(* start() misses the appearance when it has found no owner already. *)
AvahiStarts == /\ avahi = "down"
               /\ avahi' = "starting"
               /\ NotifyOwner("up")
               /\ lost' = (lost \/ (pc = "watch" /\ ~createTimer))
               /\ UNCHANGED <<own, subscriptions, sick>>

AvahiDies == /\ avahi # "down"
             /\ avahi' = "down"
             /\ NotifyOwner("down")
             /\ subscriptions' = 0
             /\ server' = IF server = "none" THEN "none" ELSE "stale"
             /\ group' = IF group = "none" THEN "none" ELSE "stale"
             /\ lost' = (lost \/ (~watching /\ server = "live"))
             /\ UNCHANGED <<pc, createTimer, registerTimer, watching, sick>>

(* Its host name is settled, or has to be settled again. *)
AvahiChanges == \E new \in {"starting", "running"} \ {avahi} :
                  /\ avahi # "down"
                  /\ avahi' = new
                  /\ Notify(IF new = "running" THEN "running" ELSE "other", subscriptions)
                  /\ lost' = (lost \/ (server = "live" /\ subscriptions = 0))
                  /\ UNCHANGED <<own, subscriptions, sick>>

(* Another host announces the same name, or Avahi gives the group up. *)
GroupChanges == /\ group = "live"
                /\ \/ group' = "collided" /\ Notify("collision", 1)
                   \/ group' = "failed" /\ Notify("failure", 1)
                /\ UNCHANGED <<pc, server, createTimer, registerTimer, watching, external, lost>>

AvahiSickens == sick' = ~sick /\ UNCHANGED <<own, signals, avahi, subscriptions, lost>>

-------------------------------------------------------------------------------
(* start() and _createServer. *)

Start == /\ pc = "start"
         /\ pc' = IF avahi = "down" THEN "watch" ELSE "getState"
         /\ UNCHANGED <<server, group, createTimer, registerTimer, watching, signals, external, lost>>

Watch == /\ pc = "watch"
         /\ watching' = TRUE
         /\ pc' = "idle"
         /\ UNCHANGED <<server, group, createTimer, registerTimer, signals, external, lost>>

Created == pc' = IF watching THEN "idle" ELSE "watch"

(* The proxy is to the Avahi that answers now. *)
GetState == /\ pc = "getState"
            /\ avahi # "down"
            /\ server' = "live"
            /\ pc' = IF avahi = "running" THEN "createRegister" ELSE "subscribe"
            /\ UNCHANGED <<group, createTimer, registerTimer, watching, signals, external, lost>>

(* Mutant of CreateFails: no retry. *)
CreateFailsForGood == /\ server' = "none"
                      /\ Created
                      /\ UNCHANGED <<group, createTimer, registerTimer, watching, signals, external, lost>>

CreateFails == /\ server' = "none"
               /\ createTimer' = TRUE
               /\ Created
               /\ UNCHANGED <<group, registerTimer, watching, signals, external, lost>>

GetStateFails == /\ pc = "getState"
                 /\ avahi = "down" \/ sick
                 /\ CreateFails

Subscribe == /\ pc = "subscribe"
             /\ subscriptions' = IF server = "live" THEN subscriptions + 1 ELSE subscriptions
             /\ Created
             /\ UNCHANGED <<server, group, createTimer, registerTimer, watching, signals, avahi, sick,
                            lost>>

-------------------------------------------------------------------------------
(* _registerService, from _createServer and from callbacks. *)

Registered == pc' = IF pc = "createRegister" THEN "subscribe" ELSE "idle"

(* The group may collide after Commit, before its signals are subscribed to.   *)
Register == /\ pc \in {"createRegister", "register"}
            /\ ~registerTimer
            /\ server = "live"
            /\ \/ group' = "live" /\ UNCHANGED lost
               \/ group' = "collided" /\ lost' = TRUE
            /\ Registered
            /\ UNCHANGED <<server, createTimer, registerTimer, watching, signals, external>>

(* Without a server even the attempt raises; it is retried all the same. *)
RegisterFails == /\ pc \in {"createRegister", "register"}
                 /\ ~registerTimer
                 /\ server # "live" \/ sick \/ avahi # "running"
                 /\ registerTimer' = TRUE
                 /\ Registered
                 /\ UNCHANGED <<server, group, createTimer, watching, signals, external, lost>>

(* The assertion of _registerService fails, and _createServer handles that like *)
(* any exception.                                                               *)
RegisterAsserts == /\ pc = "createRegister"
                   /\ registerTimer
                   /\ CreateFails

-------------------------------------------------------------------------------
(* Callbacks of the main loop. *)

Dispatch(signal) == /\ pc = "idle"
                    /\ signals # <<>>
                    /\ Head(signals) = signal
                    /\ signals' = Tail(signals)
                    /\ UNCHANGED <<watching, external>>

(* Mutant of Unregister: the timer is kept. *)
UnregisterKeepsTimer == group' = "none" /\ UNCHANGED registerTimer

(* _unregisterService: what Avahi answers is ignored. *)
Unregister == group' = "none" /\ registerTimer' = FALSE

(* A server object that exists is kept. *)
OwnerAppears == /\ Dispatch("up")
                /\ server = "none" => ~createTimer
                /\ pc' = IF server = "none" THEN "getState" ELSE "idle"
                /\ UNCHANGED <<server, group, createTimer, registerTimer, lost>>

(* With a retry pending the assertion of _createServer fails outside its try,  *)
(* and out of the callback; the retry stays pending.                           *)
OwnerAsserts == /\ Dispatch("up")
                /\ server = "none" /\ createTimer
                /\ UNCHANGED <<pc, server, group, createTimer, registerTimer, lost>>

(* _releaseServer. *)
ReleaseServer == server' = "none" /\ createTimer' = FALSE

OwnerGone == /\ Dispatch("down")
             /\ Unregister
             /\ ReleaseServer
             /\ lost' = FALSE
             /\ UNCHANGED pc

ServerRunning == /\ Dispatch("running")
                 /\ Unregister
                 /\ pc' = "register"
                 /\ lost' = (lost /\ server # "live")
                 /\ UNCHANGED <<server, createTimer>>

ServerOther == /\ Dispatch("other")
               /\ Unregister
               /\ UNCHANGED <<pc, server, createTimer, lost>>

GroupCollision == /\ Dispatch("collision")
                  /\ group' = "none"
                  /\ registerTimer' = TRUE
                  /\ UNCHANGED <<pc, server, createTimer, lost>>

(* "assert False". *)
GroupFailure == /\ Dispatch("failure")
                /\ lost' = TRUE
                /\ UNCHANGED <<pc, server, group, createTimer, registerTimer>>

(* Mutant of CreateTimeout: it returns True without creating anything. *)
CreateTimeoutIdles == pc = "idle" /\ createTimer /\ UNCHANGED vars

CreateTimeout == /\ pc = "idle" /\ createTimer
                 /\ createTimer' = FALSE
                 /\ pc' = "getState"
                 /\ UNCHANGED <<server, group, registerTimer, watching, signals, external, lost>>

RegisterTimeout == /\ pc = "idle" /\ registerTimer
                   /\ registerTimer' = FALSE
                   /\ pc' = "register"
                   /\ UNCHANGED <<server, group, createTimer, watching, signals, external, lost>>

Stop == /\ pc = "idle"
        /\ pc' = "stopped"
        /\ Unregister
        /\ ReleaseServer
        /\ watching' = FALSE
        /\ UNCHANGED <<signals, external, lost>>

-------------------------------------------------------------------------------
Init == /\ pc = "start"
        /\ server = "none" /\ group = "none"
        /\ createTimer = FALSE /\ registerTimer = FALSE /\ watching = FALSE
        /\ signals = <<>>
        /\ avahi \in {"down", "starting", "running"}
        /\ subscriptions = 0
        /\ sick = FALSE
        /\ lost = FALSE

Environment == AvahiStarts \/ AvahiDies \/ AvahiChanges \/ GroupChanges \/ AvahiSickens

Call == \/ Start \/ Watch \/ GetState \/ GetStateFails \/ Subscribe
        \/ Register \/ RegisterFails \/ RegisterAsserts

Signal == \/ OwnerAppears \/ OwnerAsserts \/ OwnerGone \/ ServerRunning \/ ServerOther
          \/ GroupCollision \/ GroupFailure

Next == Environment \/ Call \/ Signal \/ CreateTimeout \/ RegisterTimeout \/ Stop

Spec == Init /\ [][Next]_vars

(* Calls return, and the main loop serves its sources in turn.                 *)
LiveSpec == /\ Spec
            /\ WF_vars(Call)
            /\ SF_vars(Signal) /\ SF_vars(CreateTimeout) /\ SF_vars(RegisterTimeout)

-------------------------------------------------------------------------------
(* Properties. *)

(* Every variable keeps its type. *)
TypeOK == /\ pc \in {"start", "watch", "getState", "subscribe", "createRegister", "register",
                     "idle", "stopped"}
          /\ server \in {"none", "live", "stale"}
          /\ group \in {"none", "live", "collided", "failed", "stale"}
          /\ {createTimer, registerTimer, watching, sick, lost} \subseteq BOOLEAN
          /\ signals \in Seq({"up", "down", "running", "other", "collision", "failure"})
          /\ avahi \in {"down", "starting", "running"}
          /\ subscriptions \in Nat

(* What is being retried is not there, and no group outlives its server       *)
(* object: the assertions of _createServer on the group, of _releaseServer,   *)
(* _retryCreateServer and _retryRegisterService.                              *)
RetriesAreExclusive == /\ registerTimer => group = "none"
                       /\ createTimer => server = "none"
                       /\ server = "none" => group = "none"

(* "no exception in self._createServer()", "no exception in                   *)
(* self._registerService()": what the timers and onSeverStateChanged call, and *)
(* a _createServer past its own assertions, finds what it asserts.            *)
CallbacksAssertNothing ==
    /\ pc = "getState" => server = "none" /\ ~createTimer /\ group = "none"
    /\ pc = "register" => group = "none" /\ ~registerTimer

(* The types hold, and of all assertions in the code only three can fail: that *)
(* at the head of _createServer when the owner appears while a retry is       *)
(* pending (OwnerAsserts), that at the head of _registerService when          *)
(* _createServer calls it (CreateFindsNoRetry), and the "assert False" of     *)
(* onEntryGroupStateChanged (GroupFailure).                                   *)
AssertionsHold == TypeOK /\ RetriesAreExclusive /\ CallbacksAssertNothing

(* While Avahi runs and no signal waits, syncupd is announced or a retry is   *)
(* pending, unless they have lost track of each other.                        *)
NeverForgotten == (pc = "idle" /\ signals = <<>> /\ avahi = "running" /\ ~lost)
                    => group = "live" \/ createTimer \/ registerTimer

(* Each retry keeps the other from succeeding: one to register without a      *)
(* server object, one to create it that asserts there is no other retry.      *)
Crossed == /\ registerTimer \/ pc = "register"
           /\ server = "none" \/ pc = "createRegister"

(* If Avahi comes to stay and to answer, syncupd is announced again and again *)
(* after whatever name collisions there are, or its retries stay crossed for  *)
(* good (see CreateFindsNoRetry).                                             *)
EventuallyRegistered ==
    <>[](avahi = "running" /\ ~sick /\ ~lost /\ pc # "stopped")
      => []<>(group = "live") \/ <>[]Crossed

(* "assert self._entryGroup is None and self._retryRegisterServiceTimer is    *)
(* None", in _registerService called by _createServer.                        *)
CreateFindsNoRetry == pc = "createRegister" => group = "none" /\ ~registerTimer
===============================================================================
