------------------------------ MODULE AvahiProofs ------------------------------
(***************************************************************************)
(* Proofs about Avahi, for any bound on the signals that wait.             *)
(***************************************************************************)
EXTENDS Avahi, SequenceTheorems, TLAPS

Kinds == {"up", "down", "running", "other", "collision", "failure"}

(* What the assertions rest on: the first attempt starts from nothing, and a   *)
(* registration inside _createServer from no group.                            *)
AttemptInv == /\ pc = "start" => server = "none" /\ ~createTimer
              /\ pc = "createRegister" => group = "none"

AssertInv == AssertionsHold /\ AttemptInv

-------------------------------------------------------------------------------
(* The signals that wait. *)
Pending(kinds)     == \E i \in DOMAIN signals : signals[i] \in kinds
Followed(i, kinds) == \E j \in DOMAIN signals : j > i /\ signals[j] \in kinds

(* Until start() is through, it is the first attempt, nothing is heard of the  *)
(* owner, and nothing of the state but while start() subscribes to the owner.  *)
StartInv ==
    pc # "stopped" =>
        /\ pc \in {"idle", "register"} => watching
        /\ pc \in {"start", "watch"} => ~watching
        /\ pc \in {"createRegister", "subscribe"} => server # "none"
        /\ ~watching => /\ ~Pending({"up", "down"})
                        /\ pc \in {"start", "getState", "createRegister"} => ~registerTimer
                        /\ pc # "watch" \/ server = "none"
                              => subscriptions = 0 /\ ~Pending({"other"})

(* The news of an Avahi that went before syncupd watched it, and of which it   *)
(* will hear nothing more.                                                     *)
Orphan(i) == /\ server = "stale" /\ pc \notin {"createRegister", "subscribe"}
             /\ \A k \in DOMAIN signals : k < i => signals[k] # "down"

(* Bad news are followed by the good news: that Avahi is gone by that it is    *)
(* back, that it does not run by that it runs, or is gone.                     *)
OrderInv ==
    pc # "stopped" =>
        \A i \in DOMAIN signals :
            /\ signals[i] = "down" /\ avahi # "down" => Followed(i, {"up"})
            /\ signals[i] = "other" /\ avahi = "running"
                  => Followed(i, {"running", "down"}) \/ Orphan(i)
            /\ signals[i] = "other" /\ subscriptions = 0
                  => Followed(i, {"down"}) \/ Orphan(i)

(* Whatever server object there is, something is under way that leads to the   *)
(* registration.                                                               *)
PromiseInv ==
    pc # "stopped" /\ ~lost =>
        /\ server = "none" /\ avahi # "down"
              => createTimer \/ pc \in {"start", "getState"} \/ Pending({"up"})
        /\ server = "stale" => Pending({"down"})
        /\ server = "live" /\ avahi = "running"
              => \/ group = "live" \/ registerTimer \/ pc \in {"createRegister", "register"}
                 \/ Pending({"running", "down", "collision", "failure"})

-------------------------------------------------------------------------------
(* What is sent comes after what waits already. *)
LEMMA NotifyAppends ==
  ASSUME signals \in Seq(Kinds), NEW signal \in Kinds, NEW n \in Nat, Notify(signal, n)
  PROVE  /\ signals' \in Seq(Kinds)
         /\ Len(signals') = Len(signals) + n
         /\ \A i \in DOMAIN signals : signals'[i] = signals[i]
         /\ \A i \in DOMAIN signals' : i > Len(signals) => signals'[i] = signal
<1> DEFINE new == [i \in 1..n |-> signal]
<1>1. new \in Seq(Kinds) /\ Len(new) = n
  OBVIOUS
<1>2. signals' = signals \o new
  BY DEF Notify
<1> HIDE DEF new
<1>3. signals' \in Seq(Kinds) /\ Len(signals') = Len(signals) + n
  BY <1>1, <1>2, ConcatProperties
<1>4. \A i \in DOMAIN signals : signals'[i] = signals[i]
  BY <1>1, <1>2, ConcatProperties
<1>5. ASSUME NEW i \in DOMAIN signals', i > Len(signals)
      PROVE  signals'[i] = signal
  <2>1. i - Len(signals) \in 1..n /\ signals'[i] = new[i - Len(signals)]
    BY <1>1, <1>2, <1>3, <1>5, ConcatProperties
  <2>2. QED
    BY <2>1 DEF new
<1>6. QED
  BY <1>3, <1>4, <1>5

(* What is dispatched is the first of what waits. *)
LEMMA DispatchTakes ==
  ASSUME signals \in Seq(Kinds), NEW signal \in Kinds, Dispatch(signal)
  PROVE  /\ signals' \in Seq(Kinds)
         /\ Len(signals') = Len(signals) - 1
         /\ signals[1] = signal /\ 1 \in DOMAIN signals
         /\ \A i \in DOMAIN signals' : i + 1 \in DOMAIN signals /\ signals'[i] = signals[i + 1]
         /\ \A i \in DOMAIN signals : i > 1 => i - 1 \in DOMAIN signals'
                                             /\ signals'[i - 1] = signals[i]
  BY DEF Dispatch

(* The signals that wait are of their kinds, whatever is sent or dispatched. *)
LEMMA SignalTypes ==
  ASSUME TypeOK, [Next]_vars
  PROVE  signals' \in Seq(Kinds)
<1>1. signals \in Seq(Kinds) /\ subscriptions \in Nat
  BY DEF TypeOK, Kinds
<1>2. CASE UNCHANGED signals
  BY <1>1, <1>2
<1>3. ASSUME NEW signal \in Kinds, NEW n \in Nat, Notify(signal, n)
      PROVE  signals' \in Seq(Kinds)
  BY <1>1, <1>3, NotifyAppends
<1>4. ASSUME NEW signal \in Kinds, Dispatch(signal)
      PROVE  signals' \in Seq(Kinds)
  BY <1>1, <1>4, DispatchTakes
<1>5. CASE Environment
  BY <1>1, <1>2, <1>3, <1>5
     DEF Environment, AvahiStarts, AvahiDies, NotifyOwner, AvahiChanges, GroupChanges,
         AvahiSickens, Kinds
<1>6. CASE Call
  BY <1>2, <1>6
     DEF Call, Start, Watch, GetState, GetStateFails, Subscribe, Register, RegisterFails,
         RegisterAsserts, CreateFails
<1>7. CASE Signal
  BY <1>4, <1>7
     DEF Signal, OwnerAppears, OwnerAsserts, OwnerGone, ServerRunning, ServerOther,
         GroupCollision, GroupFailure, Kinds
<1>8. CASE CreateTimeout \/ RegisterTimeout \/ Stop \/ UNCHANGED vars
  BY <1>2, <1>8 DEF CreateTimeout, RegisterTimeout, Stop, vars
<1>9. QED
  BY <1>5, <1>6, <1>7, <1>8 DEF Next

(* Only two steps change how often the state is subscribed to. *)
LEMMA SubscriptionTypes ==
  ASSUME TypeOK, [Next]_vars
  PROVE  subscriptions' \in Nat
<1>1. subscriptions \in Nat
  BY DEF TypeOK
<1>2. CASE AvahiDies \/ Subscribe
  BY <1>1, <1>2 DEF AvahiDies, Subscribe
<1>3. CASE AvahiStarts \/ AvahiChanges \/ GroupChanges \/ AvahiSickens
  BY <1>1, <1>3 DEF AvahiStarts, AvahiChanges, GroupChanges, AvahiSickens, external
<1>4. CASE Start \/ Watch \/ GetState \/ GetStateFails \/ Register \/ RegisterFails \/ RegisterAsserts
  BY <1>1, <1>4 DEF Start, Watch, GetState, GetStateFails, Register, RegisterFails,
                    RegisterAsserts, CreateFails, external
<1>5. CASE Signal
  BY <1>1, <1>5 DEF Signal, OwnerAppears, OwnerAsserts, OwnerGone, ServerRunning,
                    ServerOther, GroupCollision, GroupFailure, Dispatch, external
<1>6. CASE CreateTimeout \/ RegisterTimeout \/ Stop \/ UNCHANGED vars
  BY <1>1, <1>6 DEF CreateTimeout, RegisterTimeout, Stop, vars, external
<1>7. QED
  BY <1>2, <1>3, <1>4, <1>5, <1>6 DEF Next, Environment, Call

(* The rest of TypeOK. *)
PlaceTypes ==
    /\ pc \in {"start", "watch", "getState", "subscribe", "createRegister", "register",
              "idle", "stopped"}
    /\ server \in {"none", "live", "stale"}
    /\ group \in {"none", "live", "collided", "failed", "stale"}
    /\ {createTimer, registerTimer, watching, sick, lost} \subseteq BOOLEAN
    /\ avahi \in {"down", "starting", "running"}

(* What TypeOK says of the places is preserved by every step, *)
LEMMA PlaceStep ==
  ASSUME PlaceTypes, [Next]_vars
  PROVE  PlaceTypes'
<1> USE DEF PlaceTypes
<1>1. CASE AvahiStarts \/ AvahiChanges \/ AvahiSickens
  BY <1>1 DEF AvahiStarts, AvahiChanges, AvahiSickens, own, external
<1>2. CASE AvahiDies \/ GroupChanges
  BY <1>2 DEF AvahiDies, GroupChanges, external
<1>3. CASE Start \/ Watch \/ Subscribe
  BY <1>3 DEF Start, Watch, Subscribe, Created, external
<1>4. CASE GetState \/ GetStateFails \/ RegisterAsserts
  BY <1>4 DEF GetState, GetStateFails, RegisterAsserts, CreateFails, Created, external
<1>5. CASE Register \/ RegisterFails
  BY <1>5 DEF Register, RegisterFails, Registered, external
<1>6. CASE OwnerAppears \/ OwnerAsserts \/ GroupFailure
  BY <1>6 DEF OwnerAppears, OwnerAsserts, GroupFailure, Dispatch, external
<1>7. CASE OwnerGone \/ ServerRunning \/ ServerOther \/ GroupCollision
  BY <1>7 DEF OwnerGone, ServerRunning, ServerOther, GroupCollision, Dispatch, Unregister,
              ReleaseServer, external
<1>8. CASE CreateTimeout \/ RegisterTimeout \/ Stop
  BY <1>8 DEF CreateTimeout, RegisterTimeout, Stop, Unregister, ReleaseServer, external
<1>9. CASE UNCHANGED vars
  BY <1>9 DEF vars, own, external
<1>10. QED
  BY <1>1, <1>2, <1>3, <1>4, <1>5, <1>6, <1>7, <1>8, <1>9
     DEF Next, Environment, Call, Signal

(* and so is what keeps the assertions. *)
LEMMA AssertPlaces ==
  ASSUME PlaceTypes, AttemptInv, RetriesAreExclusive, CallbacksAssertNothing, [Next]_vars
  PROVE  AttemptInv' /\ RetriesAreExclusive' /\ CallbacksAssertNothing'
<1> USE DEF PlaceTypes, AttemptInv, RetriesAreExclusive, CallbacksAssertNothing
<1>1. CASE AvahiStarts \/ AvahiChanges \/ AvahiSickens
  BY <1>1 DEF AvahiStarts, AvahiChanges, AvahiSickens, own, external
<1>2. CASE AvahiDies \/ GroupChanges
  BY <1>2 DEF AvahiDies, GroupChanges, external
<1>3. CASE Start \/ Watch \/ Subscribe
  BY <1>3 DEF Start, Watch, Subscribe, Created, external
<1>4. CASE GetState \/ GetStateFails \/ RegisterAsserts
  BY <1>4 DEF GetState, GetStateFails, RegisterAsserts, CreateFails, Created, external
<1>5. CASE Register \/ RegisterFails
  BY <1>5 DEF Register, RegisterFails, Registered, external
<1>6. CASE OwnerAppears \/ OwnerAsserts \/ GroupFailure
  BY <1>6 DEF OwnerAppears, OwnerAsserts, GroupFailure, Dispatch, external
<1>7. CASE OwnerGone \/ ServerRunning \/ ServerOther \/ GroupCollision
  BY <1>7 DEF OwnerGone, ServerRunning, ServerOther, GroupCollision, Dispatch, Unregister,
              ReleaseServer, external
<1>8. CASE CreateTimeout \/ RegisterTimeout \/ Stop
  BY <1>8 DEF CreateTimeout, RegisterTimeout, Stop, Unregister, ReleaseServer, external
<1>9. CASE UNCHANGED vars
  BY <1>9 DEF vars, own, external
<1>10. QED
  BY <1>1, <1>2, <1>3, <1>4, <1>5, <1>6, <1>7, <1>8, <1>9
     DEF Next, Environment, Call, Signal

(* AssertInv is preserved. *)
LEMMA AssertStep == AssertInv /\ [Next]_vars => AssertInv'
<1>1. TypeOK <=> PlaceTypes /\ signals \in Seq(Kinds) /\ subscriptions \in Nat
  BY DEF TypeOK, PlaceTypes, Kinds
<1>2. TypeOK' <=> PlaceTypes' /\ signals' \in Seq(Kinds) /\ subscriptions' \in Nat
  BY DEF TypeOK, PlaceTypes, Kinds
<1>3. QED
  BY <1>1, <1>2, PlaceStep, AssertPlaces, SignalTypes, SubscriptionTypes DEF AssertInv, AssertionsHold

(* It holds at first. *)
LEMMA InitAsserts == Init => AssertInv
<1> SUFFICES ASSUME Init PROVE AssertInv
  OBVIOUS
<1>1. signals \in Seq(Kinds) /\ subscriptions \in Nat
  BY DEF Init
<1>2. PlaceTypes
  BY DEF Init, PlaceTypes
<1>3. TypeOK
  BY <1>1, <1>2 DEF TypeOK, PlaceTypes, Kinds
<1>4. QED
  BY <1>3 DEF Init, AssertInv, AssertionsHold, AttemptInv, RetriesAreExclusive,
              CallbacksAssertNothing

(* The types hold, and no assertion of the class fails but that at the head of *)
(* _createServer, for the owner that appears, that at the head of              *)
(* _registerService, for _createServer, and that of onEntryGroupStateChanged.  *)
THEOREM AssertionsDoHold == Spec => []AssertionsHold
<1>1. AssertInv => AssertionsHold
  BY DEF AssertInv
<1>2. QED
  BY <1>1, InitAsserts, AssertStep, PTL DEF Spec

-------------------------------------------------------------------------------
(* What waits, and what follows what, after a signal was sent, *)
LEMMA NotifyPending ==
  ASSUME signals \in Seq(Kinds), NEW signal \in Kinds, NEW n \in Nat, Notify(signal, n),
         NEW kinds
  PROVE  /\ Pending(kinds)' => Pending(kinds) \/ (n > 0 /\ signal \in kinds)
         /\ Pending(kinds) \/ (n > 0 /\ signal \in kinds) => Pending(kinds)'
         /\ \A i \in DOMAIN signals : Followed(i, kinds) \/ (n > 0 /\ signal \in kinds)
                                       => Followed(i, kinds)'
<1>1. /\ signals' \in Seq(Kinds) /\ Len(signals') = Len(signals) + n
      /\ \A i \in DOMAIN signals : signals'[i] = signals[i]
      /\ \A i \in DOMAIN signals' : i > Len(signals) => signals'[i] = signal
  BY NotifyAppends
<1>2. DOMAIN signals = 1..Len(signals) /\ DOMAIN signals' = 1..(Len(signals) + n)
      /\ Len(signals) \in Nat
  BY <1>1
<1>3. n > 0 => /\ Len(signals) + n \in DOMAIN signals' /\ signals'[Len(signals) + n] = signal
               /\ \A i \in DOMAIN signals : i < Len(signals) + n
  BY <1>1, <1>2
<1>4. DOMAIN signals \subseteq DOMAIN signals'
  BY <1>2
<1>5. \A i \in DOMAIN signals' \ DOMAIN signals : n > 0 /\ signals'[i] = signal
  BY <1>1, <1>2
<1>6. QED
  BY <1>1, <1>3, <1>4, <1>5 DEF Pending, Followed

(* and after one was dispatched. *)
LEMMA DispatchPending ==
  ASSUME signals \in Seq(Kinds), NEW signal \in Kinds, Dispatch(signal), NEW kinds
  PROVE  /\ Pending(kinds)' => Pending(kinds)
         /\ Pending(kinds) => signal \in kinds \/ Pending(kinds)'
         /\ Followed(1, kinds) => Pending(kinds)'
         /\ \A i \in DOMAIN signals' : Followed(i + 1, kinds) => Followed(i, kinds)'
<1>1. /\ signals[1] = signal
      /\ \A i \in DOMAIN signals' : i + 1 \in DOMAIN signals /\ signals'[i] = signals[i + 1]
      /\ \A i \in DOMAIN signals : i > 1 => i - 1 \in DOMAIN signals' /\ signals'[i - 1] = signals[i]
  BY DispatchTakes
<1>2. DOMAIN signals \subseteq Nat \ {0} /\ DOMAIN signals' \subseteq Nat \ {0}
  BY DispatchTakes
<1>3. Pending(kinds)' => Pending(kinds)
  BY <1>1 DEF Pending
<1>4. Pending(kinds) => signal \in kinds \/ Pending(kinds)'
  BY <1>1, <1>2 DEF Pending
<1>5. Followed(1, kinds) => Pending(kinds)'
  BY <1>1 DEF Pending, Followed
<1>6. ASSUME NEW i \in DOMAIN signals', Followed(i + 1, kinds)
      PROVE  Followed(i, kinds)'
  <2>1. PICK j \in DOMAIN signals : j > i + 1 /\ signals[j] \in kinds
    BY <1>6 DEF Followed
  <2>2. j - 1 \in DOMAIN signals' /\ j - 1 > i /\ signals'[j - 1] \in kinds
    BY <1>1, <1>2, <2>1
  <2>3. QED
    BY <2>2 DEF Followed
<1>7. QED
  BY <1>3, <1>4, <1>5, <1>6

(* StartInv is preserved. *)
LEMMA StartStep ==
  ASSUME AssertInv, StartInv, [Next]_vars
  PROVE  StartInv'
<1>1. signals \in Seq(Kinds) /\ subscriptions \in Nat /\ PlaceTypes
  BY DEF AssertInv, AssertionsHold, TypeOK, PlaceTypes, Kinds
<1>2. RetriesAreExclusive /\ CallbacksAssertNothing /\ AttemptInv
  BY DEF AssertInv, AssertionsHold
<1> USE DEF StartInv
<1>3. CASE Environment
  <2>1. ASSUME NEW signal \in Kinds, NEW n \in Nat, Notify(signal, n),
               UNCHANGED <<pc, watching, registerTimer>>,
               server' = server \/ (server # "none" /\ server' # "none"),
               subscriptions' \in {0, subscriptions},
               ~watching => signal \notin {"up", "down"} \/ n = 0,
               signal = "other" => n = subscriptions
        PROVE  StartInv'
    <3>1. ~Pending({"up", "down"}) /\ ~watching => ~Pending({"up", "down"})'
      BY <1>1, <2>1, NotifyPending
    <3>2. ~Pending({"other"}) /\ subscriptions = 0 => ~Pending({"other"})'
      BY <1>1, <2>1, NotifyPending
    <3>3. QED
      BY <2>1, <3>1, <3>2
  <2>2. CASE AvahiStarts
    <3>1. Notify("up", IF watching THEN 1 ELSE 0)
      BY <2>2 DEF AvahiStarts, NotifyOwner
    <3>2. QED
      BY <2>1, <2>2, <3>1 DEF AvahiStarts, own, Kinds
  <2>3. CASE AvahiDies
    <3>1. Notify("down", IF watching THEN 1 ELSE 0)
      BY <2>3 DEF AvahiDies, NotifyOwner
    <3>2. QED
      BY <2>1, <2>3, <3>1 DEF AvahiDies, Kinds
  <2>4. CASE AvahiChanges
    <3>1. PICK signal \in {"running", "other"} : Notify(signal, subscriptions)
      BY <2>4 DEF AvahiChanges
    <3>2. QED
      BY <1>1, <2>1, <2>4, <3>1 DEF AvahiChanges, own, Kinds
  <2>5. CASE GroupChanges
    <3>1. PICK signal \in {"collision", "failure"} : Notify(signal, 1)
      BY <2>5 DEF GroupChanges
    <3>2. QED
      BY <2>1, <2>5, <3>1 DEF GroupChanges, external, Kinds
  <2>6. CASE AvahiSickens
    BY <2>6 DEF AvahiSickens, own, Pending
  <2>7. QED
    BY <1>3, <2>2, <2>3, <2>4, <2>5, <2>6 DEF Environment
<1>4. CASE Start \/ Watch \/ Subscribe
  BY <1>2, <1>4 DEF Start, Watch, Subscribe, Created, AttemptInv, Pending, external
<1>5. CASE GetState \/ GetStateFails \/ RegisterAsserts
  BY <1>5 DEF GetState, GetStateFails, RegisterAsserts, CreateFails, Created, Pending, external
<1>6. CASE Register \/ RegisterFails
  BY <1>6 DEF Register, RegisterFails, Registered, Pending, external
<1>7. CASE Signal
  <2>1. pc = "idle" /\ pc' \in {"idle", "getState", "register"} /\ watching' = watching
    BY <1>7 DEF Signal, OwnerAppears, OwnerAsserts, OwnerGone, ServerRunning, ServerOther,
                GroupCollision, GroupFailure, Dispatch
  <2>2. QED
    BY <2>1
<1>8. CASE CreateTimeout \/ RegisterTimeout \/ Stop
  BY <1>8 DEF CreateTimeout, RegisterTimeout, Stop
<1>9. CASE UNCHANGED vars
  BY <1>9 DEF Pending, vars, own, external
<1>10. QED
  BY <1>3, <1>4, <1>5, <1>6, <1>7, <1>8, <1>9 DEF Next, Call

(* What has been sent does not change what was true of an older signal.        *)
LEMMA OrphanKept ==
  ASSUME signals \in Seq(Kinds), NEW signal \in Kinds, NEW n \in Nat, Notify(signal, n),
         NEW i \in DOMAIN signals, Orphan(i), UNCHANGED pc, server' = "stale"
  PROVE  Orphan(i)'
<1>1. \A k \in DOMAIN signals' : k < i => k \in DOMAIN signals /\ signals'[k] = signals[k]
  BY NotifyAppends
<1>2. QED
  BY <1>1 DEF Orphan

(* OrderInv is preserved by what Avahi does, *)
LEMMA OrderEnvironment ==
  ASSUME AssertInv, StartInv, OrderInv, Environment, pc # "stopped"
  PROVE  OrderInv'
<1>1. signals \in Seq(Kinds) /\ subscriptions \in Nat
  BY DEF AssertInv, AssertionsHold, TypeOK, Kinds
<1> USE DEF OrderInv
<1>2. CASE AvahiStarts
  <2>1. Notify("up", IF watching THEN 1 ELSE 0) /\ "up" \in Kinds
        /\ UNCHANGED <<pc, server, subscriptions>> /\ avahi' = "starting"
    BY <1>2 DEF AvahiStarts, NotifyOwner, Kinds, own
  <2>2. SUFFICES ASSUME NEW i \in DOMAIN signals'
                 PROVE  /\ signals'[i] = "down" => Followed(i, {"up"})'
                        /\ signals'[i] = "other" /\ subscriptions = 0
                              => Followed(i, {"down"})' \/ Orphan(i)'
    BY <2>1
  <2>3. CASE i \in DOMAIN signals
    <3>1. signals'[i] = signals[i]
      BY <1>1, <2>1, <2>3, NotifyAppends
    <3>2. signals[i] = "down" => watching
      BY <2>3 DEF StartInv, Pending
    <3>3. ASSUME watching PROVE Followed(i, {"up"})'
      <4>1. Notify("up", 1)
        BY <2>1, <3>3
      <4>2. QED
        BY <1>1, <2>1, <2>3, <4>1, NotifyPending
    <3>4. Followed(i, {"down"}) => Followed(i, {"down"})'
      BY <1>1, <2>1, <2>3, NotifyPending
    <3>5. Orphan(i) => Orphan(i)'
      BY <1>1, <2>1, <2>3, OrphanKept DEF Orphan
    <3>6. QED
      BY <2>3, <3>1, <3>2, <3>3, <3>4, <3>5
  <2>4. CASE i \notin DOMAIN signals
    BY <1>1, <2>1, <2>4, NotifyAppends
  <2>5. QED
    BY <2>3, <2>4
<1>3. CASE AvahiDies
  <2>1. Notify("down", IF watching THEN 1 ELSE 0) /\ "down" \in Kinds
        /\ UNCHANGED pc /\ avahi' = "down" /\ server' = IF server = "none" THEN "none" ELSE "stale"
    BY <1>3 DEF AvahiDies, NotifyOwner, Kinds
  <2>2. SUFFICES ASSUME NEW i \in DOMAIN signals', signals'[i] = "other"
                 PROVE  Followed(i, {"down"})' \/ Orphan(i)'
    BY <2>1
  <2>3. i \in DOMAIN signals /\ signals[i] = "other"
    BY <1>1, <2>1, <2>2, NotifyAppends
  <2>4. CASE watching
    <3>1. Notify("down", 1) /\ signals \in Seq(Kinds) /\ "down" \in Kinds
      BY <1>1, <2>1, <2>4
    <3>2. Followed(i, {"down"})'
      BY <2>3, <3>1, NotifyPending
    <3>3. QED
      BY <3>2
  <2>5. CASE ~watching
    <3>1. pc = "watch" /\ server # "none" /\ ~Pending({"up", "down"})
      BY <2>3, <2>5 DEF StartInv, Pending
    <3>2. \A k \in DOMAIN signals' : k < i => k \in DOMAIN signals /\ signals'[k] = signals[k]
      BY <1>1, <2>1, <2>3, NotifyAppends
    <3>3. QED
      BY <2>1, <3>1, <3>2 DEF Orphan, Pending
  <2>6. QED
    BY <2>4, <2>5
<1>4. CASE AvahiChanges
  <2>1. PICK signal \in {"running", "other"} :
          /\ Notify(signal, subscriptions) /\ signal \in Kinds
          /\ avahi # "down" /\ avahi' = (IF signal = "running" THEN "running" ELSE "starting")
          /\ UNCHANGED <<pc, server, subscriptions>>
    BY <1>4 DEF AvahiChanges, Kinds, own
  <2>2. SUFFICES ASSUME NEW i \in DOMAIN signals'
                 PROVE  /\ signals'[i] = "down" => Followed(i, {"up"})'
                        /\ signals'[i] = "other" /\ signal = "running"
                              => Followed(i, {"running", "down"})' \/ Orphan(i)'
                        /\ signals'[i] = "other" /\ subscriptions = 0
                              => Followed(i, {"down"})' \/ Orphan(i)'
    BY <2>1
  <2>3. CASE i \in DOMAIN signals
    <3>1. signals'[i] = signals[i]
      BY <1>1, <2>1, <2>3, NotifyAppends
    <3>2. Followed(i, {"up"}) => Followed(i, {"up"})'
      BY <1>1, <2>1, <2>3, NotifyPending
    <3>3. Followed(i, {"down"}) => Followed(i, {"down"})'
      BY <1>1, <2>1, <2>3, NotifyPending
    <3>4. subscriptions > 0 /\ signal = "running" => Followed(i, {"running", "down"})'
      BY <1>1, <2>1, <2>3, NotifyPending
    <3>5. Followed(i, {"down"})' => Followed(i, {"running", "down"})'
      BY DEF Followed
    <3>6. Orphan(i) => Orphan(i)'
      BY <1>1, <2>1, <2>3, OrphanKept DEF Orphan
    <3>7. subscriptions = 0 \/ subscriptions > 0
      BY <1>1
    <3>8. QED
      BY <2>1, <2>3, <3>1, <3>2, <3>3, <3>4, <3>5, <3>6, <3>7
  <2>4. CASE i \notin DOMAIN signals
    <3>1. signals'[i] = signal /\ subscriptions # 0
      BY <1>1, <2>1, <2>4, NotifyAppends
    <3>2. QED
      BY <2>1, <3>1
  <2>5. QED
    BY <2>3, <2>4
<1>5. CASE GroupChanges
  <2>1. PICK signal \in {"collision", "failure"} : Notify(signal, 1) /\ signal \in Kinds
    BY <1>5 DEF GroupChanges, Kinds
  <2>2. UNCHANGED <<pc, server, avahi, subscriptions>>
    BY <1>5 DEF GroupChanges, external
  <2>3. ASSUME NEW i \in DOMAIN signals', signals'[i] \in {"down", "other"}
        PROVE  /\ i \in DOMAIN signals /\ signals'[i] = signals[i]
               /\ Followed(i, {"up"}) => Followed(i, {"up"})'
               /\ Followed(i, {"down"}) => Followed(i, {"down"})'
               /\ Followed(i, {"running", "down"}) => Followed(i, {"running", "down"})'
               /\ Orphan(i) => Orphan(i)'
    <3>1. i \in DOMAIN signals /\ signals'[i] = signals[i]
      BY <1>1, <2>1, <2>3, NotifyAppends
    <3>2. Orphan(i) => Orphan(i)'
      BY <1>1, <2>1, <2>2, <3>1, OrphanKept DEF Orphan
    <3>3. QED
      BY <1>1, <2>1, <3>1, <3>2, NotifyPending
  <2>4. QED
    BY <2>2, <2>3
<1>6. CASE AvahiSickens
  BY <1>6 DEF AvahiSickens, own, Followed, Orphan
<1>7. QED
  BY <1>2, <1>3, <1>4, <1>5, <1>6 DEF Environment

(* by the dispatch of a signal, *)
LEMMA OrderSignal ==
  ASSUME AssertInv, OrderInv, Signal, pc # "stopped"
  PROVE  OrderInv'
<1>1. signals \in Seq(Kinds)
  BY DEF AssertInv, AssertionsHold, TypeOK, Kinds
<1>2. /\ UNCHANGED <<avahi, subscriptions>> /\ pc' \in {"idle", "getState", "register"}
      /\ \E signal \in Kinds : Dispatch(signal) /\ (server' = server \/ signal = "down")
  BY DEF Signal, OwnerAppears, OwnerAsserts, OwnerGone, ServerRunning, ServerOther, GroupCollision,
         GroupFailure, Dispatch, external, Kinds
<1>3. PICK signal \in Kinds : Dispatch(signal) /\ (server' = server \/ signal = "down")
  BY <1>2
<1>4. /\ signals[1] = signal /\ 1 \in DOMAIN signals
      /\ \A i \in DOMAIN signals' : i \in Nat \ {0} /\ i + 1 \in DOMAIN signals
                                                 /\ signals'[i] = signals[i + 1]
  BY <1>1, <1>3, DispatchTakes
<1>5. ASSUME NEW i \in DOMAIN signals'
      PROVE  /\ Followed(i + 1, {"up"}) => Followed(i, {"up"})'
             /\ Followed(i + 1, {"down"}) => Followed(i, {"down"})'
             /\ Followed(i + 1, {"running", "down"}) => Followed(i, {"running", "down"})'
  BY <1>1, <1>3, DispatchPending
<1>6. ASSUME NEW i \in DOMAIN signals', Orphan(i + 1)
      PROVE  Orphan(i)'
  <2>1. signal # "down"
    BY <1>4, <1>6 DEF Orphan
  <2>2. \A k \in DOMAIN signals' : k < i => signals'[k] # "down"
    BY <1>4, <1>6 DEF Orphan
  <2>3. QED
    BY <1>2, <1>3, <1>6, <2>1, <2>2 DEF Orphan
<1>7. QED
  BY <1>2, <1>4, <1>5, <1>6 DEF OrderInv

(* and by what syncupd does in between. *)
LEMMA OrderOwn ==
  ASSUME AssertInv, OrderInv, Call \/ CreateTimeout \/ RegisterTimeout \/ Stop, pc # "stopped"
  PROVE  OrderInv'
<1>1. signals' = signals /\ avahi' = avahi
  BY DEF Call, Start, Watch, GetState, GetStateFails, Subscribe, Register, RegisterFails,
         RegisterAsserts, CreateFails, CreateTimeout, RegisterTimeout, Stop, external
<1>2. \A i \in DOMAIN signals : /\ Followed(i, {"up"})' = Followed(i, {"up"})
                               /\ Followed(i, {"down"})' = Followed(i, {"down"})
                               /\ Followed(i, {"running", "down"})' = Followed(i, {"running", "down"})
  BY <1>1 DEF Followed
<1>3. subscriptions' = 0 => subscriptions = 0
  <2>1. subscriptions \in Nat
    BY DEF AssertInv, AssertionsHold, TypeOK
  <2>2. CASE Subscribe
    BY <2>1, <2>2 DEF Subscribe
  <2>3. CASE ~Subscribe
    BY <2>3 DEF Call, Start, Watch, GetState, GetStateFails, Register, RegisterFails,
                RegisterAsserts, CreateFails, CreateTimeout, RegisterTimeout, Stop, external
  <2>4. QED
    BY <2>2, <2>3
<1>4. ASSUME NEW i \in DOMAIN signals, Orphan(i), pc' # "stopped"
      PROVE  Orphan(i)'
  <2>1. server = "stale" /\ pc \notin {"start", "getState", "createRegister", "subscribe"}
        /\ ~createTimer
    BY <1>4 DEF Orphan, AssertInv, AssertionsHold, AttemptInv, RetriesAreExclusive,
                CallbacksAssertNothing
  <2>2. server' = "stale" /\ pc' \in {"idle", "register"}
    BY <1>4, <2>1
       DEF Call, Start, Watch, GetState, GetStateFails, Subscribe, Register, RegisterFails,
           RegisterAsserts, Registered, CreateTimeout, RegisterTimeout, Stop
  <2>3. QED
    BY <1>1, <1>4, <2>2 DEF Orphan
<1>5. QED
  BY <1>1, <1>2, <1>3, <1>4 DEF OrderInv

(* Once stopped, syncupd stays so. *)
LEMMA StoppedStays == pc = "stopped" /\ [Next]_vars => pc' = "stopped"
  BY DEF Next, Environment, AvahiStarts, AvahiDies, AvahiChanges, GroupChanges, AvahiSickens,
         Call, Start, Watch, GetState, GetStateFails, Subscribe, Register, RegisterFails,
         RegisterAsserts, Signal, OwnerAppears, OwnerAsserts, OwnerGone, ServerRunning,
         ServerOther, GroupCollision, GroupFailure, Dispatch, CreateTimeout, RegisterTimeout, Stop, vars, own

(* So OrderInv is preserved. *)
LEMMA OrderStep == AssertInv /\ StartInv /\ OrderInv /\ [Next]_vars => OrderInv'
<1> SUFFICES ASSUME AssertInv, StartInv, OrderInv, [Next]_vars PROVE OrderInv'
  OBVIOUS
<1>1. CASE pc = "stopped"
  BY <1>1, StoppedStays DEF OrderInv
<1>2. CASE UNCHANGED vars
  BY <1>2 DEF OrderInv, Followed, Orphan, vars, own, external
<1>3. QED
  BY <1>1, <1>2, OrderEnvironment, OrderSignal, OrderOwn DEF Next

-------------------------------------------------------------------------------
(* PromiseInv is preserved by what Avahi does: whatever ends one promise sends *)
(* a signal that is another, or it is lost.                                    *)
LEMMA PromiseEnvironment ==
  ASSUME AssertInv, StartInv, PromiseInv, Environment, pc # "stopped"
  PROVE  PromiseInv'
<1>1. signals \in Seq(Kinds) /\ subscriptions \in Nat
  BY DEF AssertInv, AssertionsHold, TypeOK, Kinds
<1>2. CASE AvahiSickens
  BY <1>2 DEF AvahiSickens, PromiseInv, Pending, own
<1>3. SUFFICES ASSUME ~lost', ~AvahiSickens PROVE PromiseInv'
  BY <1>2 DEF PromiseInv
<1>4. ~lost /\ UNCHANGED <<pc, createTimer, registerTimer>>
  <2>1. CASE AvahiStarts
    BY <1>3, <2>1 DEF AvahiStarts, own
  <2>2. CASE AvahiDies
    BY <1>3, <2>2 DEF AvahiDies
  <2>3. CASE AvahiChanges
    BY <1>3, <2>3 DEF AvahiChanges, own
  <2>4. CASE GroupChanges
    BY <1>3, <2>4 DEF GroupChanges
  <2>5. QED
    BY <1>3, <2>1, <2>2, <2>3, <2>4 DEF Environment
<1>5. PICK signal \in Kinds, n \in Nat : Notify(signal, n)
  <2>1. CASE watching
    BY <1>1, <1>3, <2>1
       DEF Environment, AvahiStarts, AvahiDies, NotifyOwner, AvahiChanges, GroupChanges, Kinds
  <2>2. CASE ~watching
    BY <1>1, <1>3, <2>2
       DEF Environment, AvahiStarts, AvahiDies, NotifyOwner, AvahiChanges, GroupChanges, Kinds
  <2>3. QED
    BY <2>1, <2>2
<1>6. /\ Pending({"up"}) => Pending({"up"})'
      /\ Pending({"down"}) => Pending({"down"})'
      /\ Pending({"running", "down", "collision", "failure"})
           => Pending({"running", "down", "collision", "failure"})'
  BY <1>1, <1>5, NotifyPending
<1> USE DEF PromiseInv
<1>7. CASE AvahiStarts
  <2>1. watching => Pending({"up"})'
    <3>1. watching => Notify("up", 1)
      BY <1>7 DEF AvahiStarts, NotifyOwner
    <3>2. QED
      BY <1>1, <3>1, NotifyPending DEF Kinds
  <2>2. ~watching /\ server = "none" => pc \in {"start", "getState"} \/ createTimer
    BY <1>3, <1>7 DEF AvahiStarts, StartInv, AssertInv, AssertionsHold, TypeOK
  <2>3. QED
    BY <1>4, <1>6, <1>7, <2>1, <2>2 DEF AvahiStarts, own
<1>8. CASE AvahiDies
  <2>1. watching => Pending({"down"})'
    <3>1. watching => Notify("down", 1)
      BY <1>8 DEF AvahiDies, NotifyOwner
    <3>2. QED
      BY <1>1, <3>1, NotifyPending DEF Kinds
  <2>2. ~watching /\ server' = "stale" => server = "stale"
    BY <1>3, <1>8 DEF AvahiDies, AssertInv, AssertionsHold, TypeOK
  <2>3. server' # "live" /\ avahi' = "down"
    BY <1>8 DEF AvahiDies
  <2>4. QED
    BY <1>4, <1>6, <2>1, <2>2, <2>3
<1>9. CASE AvahiChanges
  <2>1. avahi # "down" /\ UNCHANGED <<server, group>>
    BY <1>9 DEF AvahiChanges, own
  <2>2. ASSUME server = "live", avahi' = "running"
        PROVE  Pending({"running", "down", "collision", "failure"})'
    <3>1. subscriptions # 0
      BY <1>3, <1>9, <2>2 DEF AvahiChanges
    <3>2. Notify("running", subscriptions)
      BY <1>9, <2>2 DEF AvahiChanges
    <3>3. QED
      BY <1>1, <3>1, <3>2, NotifyPending DEF Kinds
  <2>3. QED
    BY <1>4, <1>6, <2>1, <2>2
<1>10. CASE GroupChanges
  <2>1. Pending({"running", "down", "collision", "failure"})'
    <3>1. Notify("collision", 1) \/ Notify("failure", 1)
      BY <1>10 DEF GroupChanges
    <3>2. QED
      BY <1>1, <3>1, NotifyPending DEF Kinds
  <2>2. QED
    BY <1>4, <1>6, <1>10, <2>1 DEF GroupChanges, external
<1>11. QED
  BY <1>3, <1>7, <1>8, <1>9, <1>10 DEF Environment

(* A signal that ends a promise leads to another, or is followed by one, or it *)
(* is lost.                                                                    *)
LEMMA PromiseSignal ==
  ASSUME AssertInv, OrderInv, PromiseInv, Signal, pc # "stopped"
  PROVE  PromiseInv'
<1>1. signals \in Seq(Kinds) /\ pc = "idle" /\ avahi' = avahi
  BY DEF AssertInv, AssertionsHold, TypeOK, Kinds, Signal, OwnerAppears, OwnerAsserts, OwnerGone,
         ServerRunning, ServerOther, GroupCollision, GroupFailure, Dispatch, external
<1>2. ASSUME NEW signal \in Kinds, Dispatch(signal)
      PROVE  /\ signals[1] = signal /\ 1 \in DOMAIN signals
             /\ Pending({"up"}) => signal = "up" \/ Pending({"up"})'
             /\ Pending({"down"}) => signal = "down" \/ Pending({"down"})'
             /\ Pending({"running", "down", "collision", "failure"})
                  => \/ signal \in {"running", "down", "collision", "failure"}
                     \/ Pending({"running", "down", "collision", "failure"})'
             /\ Followed(1, {"up"}) => Pending({"up"})'
             /\ Followed(1, {"running", "down"}) => Pending({"running", "down"})'
  <2>1. signals[1] = signal /\ 1 \in DOMAIN signals
    BY <1>1, <1>2, DispatchTakes
  <2>2. QED
    BY <1>1, <1>2, <2>1, DispatchPending
<1>3. Pending({"running", "down"})' => Pending({"running", "down", "collision", "failure"})'
  BY DEF Pending
<1> USE DEF PromiseInv
<1>4. CASE OwnerAppears \/ OwnerAsserts
  <2>1. Dispatch("up") /\ "up" \in Kinds
    BY <1>4 DEF OwnerAppears, OwnerAsserts, Kinds
  <2>2. QED
    BY <1>1, <1>2, <1>4, <2>1 DEF OwnerAppears, OwnerAsserts
<1>5. CASE OwnerGone
  <2>1. Dispatch("down") /\ "down" \in Kinds
    BY <1>5 DEF OwnerGone, Kinds
  <2>2. avahi # "down" => Pending({"up"})'
    BY <1>2, <2>1 DEF OrderInv
  <2>3. QED
    BY <1>1, <1>5, <2>2 DEF OwnerGone, ReleaseServer
<1>6. CASE ServerRunning
  <2>1. Dispatch("running") /\ "running" \in Kinds
    BY <1>6 DEF ServerRunning, Kinds
  <2>2. QED
    BY <1>1, <1>2, <1>6, <2>1 DEF ServerRunning
<1>7. CASE ServerOther
  <2>1. Dispatch("other") /\ "other" \in Kinds
    BY <1>7 DEF ServerOther, Kinds
  <2>2. server = "live" /\ avahi = "running" => Pending({"running", "down"})'
    BY <1>2, <2>1 DEF OrderInv, Orphan
  <2>3. QED
    BY <1>1, <1>2, <1>3, <1>7, <2>1, <2>2 DEF ServerOther
<1>8. CASE GroupCollision
  <2>1. Dispatch("collision") /\ "collision" \in Kinds
    BY <1>8 DEF GroupCollision, Kinds
  <2>2. QED
    BY <1>1, <1>2, <1>8, <2>1 DEF GroupCollision
<1>9. CASE GroupFailure
  BY <1>9 DEF GroupFailure
<1>10. QED
  BY <1>4, <1>5, <1>6, <1>7, <1>8, <1>9 DEF Signal

(* What syncupd does in between keeps its promise or makes another.            *)
LEMMA PromiseOwn ==
  ASSUME AssertInv, StartInv, PromiseInv, Call \/ CreateTimeout \/ RegisterTimeout \/ Stop,
         pc # "stopped"
  PROVE  PromiseInv'
<1>1. signals' = signals /\ avahi' = avahi
  BY DEF Call, Start, Watch, GetState, GetStateFails, Subscribe, Register, RegisterFails,
         RegisterAsserts, CreateFails, CreateTimeout, RegisterTimeout, Stop, external
<1>2. /\ Pending({"up"})' = Pending({"up"})
      /\ Pending({"down"})' = Pending({"down"})
      /\ Pending({"running", "down", "collision", "failure"})'
           = Pending({"running", "down", "collision", "failure"})
  BY <1>1 DEF Pending
<1> USE <1>1, <1>2 DEF PromiseInv
<1>3. CASE Start \/ Watch
  BY <1>3 DEF Start, Watch, AssertInv, AttemptInv
<1>4. CASE GetState
  BY <1>4 DEF GetState
<1>5. CASE GetStateFails \/ RegisterAsserts
  BY <1>5 DEF GetStateFails, RegisterAsserts, CreateFails
<1>6. CASE Subscribe
  BY <1>6 DEF Subscribe, StartInv
<1>7. CASE Register
  BY <1>7 DEF Register
<1>8. CASE RegisterFails
  BY <1>8 DEF RegisterFails
<1>9. CASE CreateTimeout
  BY <1>9 DEF CreateTimeout, AssertInv, AssertionsHold, RetriesAreExclusive
<1>10. CASE RegisterTimeout
  BY <1>10 DEF RegisterTimeout
<1>11. CASE Stop
  BY <1>11 DEF Stop
<1>12. QED
  BY <1>3, <1>4, <1>5, <1>6, <1>7, <1>8, <1>9, <1>10, <1>11 DEF Call

(* So it is preserved. *)
LEMMA PromiseStep == AssertInv /\ StartInv /\ OrderInv /\ PromiseInv /\ [Next]_vars => PromiseInv'
<1> SUFFICES ASSUME AssertInv, StartInv, OrderInv, PromiseInv, [Next]_vars PROVE PromiseInv'
  OBVIOUS
<1>1. CASE pc = "stopped"
  BY <1>1, StoppedStays DEF PromiseInv
<1>2. CASE UNCHANGED vars
  BY <1>2 DEF PromiseInv, Pending, vars, own, external
<1>3. QED
  BY <1>1, <1>2, PromiseEnvironment, PromiseSignal, PromiseOwn DEF Next

-------------------------------------------------------------------------------
(* The inductive invariant. *)
IInv == AssertInv /\ StartInv /\ OrderInv /\ PromiseInv

(* It holds: whatever waits or is retried leads to the registration, or a      *)
(* change was lost.                                                            *)
THEOREM Inductive == Spec => []IInv
<1>1. Init => IInv
  <2> SUFFICES ASSUME Init PROVE IInv
    OBVIOUS
  <2>1. DOMAIN signals = {}
    BY DEF Init
  <2>2. QED
    BY <2>1, InitAsserts DEF Init, IInv, StartInv, OrderInv, PromiseInv, Pending
<1>2. IInv /\ [Next]_vars => IInv'
  BY AssertStep, StartStep, OrderStep, PromiseStep DEF IInv
<1>3. QED
  BY <1>1, <1>2, PTL DEF Spec

(* While Avahi runs and no signal waits, syncupd is announced or a retry is    *)
(* pending, unless they have lost track of each other.                         *)
THEOREM NeverIsForgotten == Spec => []NeverForgotten
<1>1. IInv => NeverForgotten
  <2> SUFFICES ASSUME IInv, pc = "idle", signals = <<>>, avahi = "running", ~lost
               PROVE  group = "live" \/ createTimer \/ registerTimer
    BY DEF NeverForgotten
  <2>1. DOMAIN signals = {}
    OBVIOUS
  <2>2. server \in {"none", "live", "stale"}
    BY DEF IInv, AssertInv, AssertionsHold, TypeOK
  <2>3. QED
    BY <2>1, <2>2 DEF IInv, PromiseInv, Pending
<1>2. QED
  BY <1>1, Inductive, PTL
===============================================================================
