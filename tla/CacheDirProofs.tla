----------------------------- MODULE CacheDirProofs -----------------------------
(***************************************************************************)
(* Proofs about CacheDir, for any clients, any number of directories and   *)
(* any number of failures and crashes.                                     *)
(***************************************************************************)
EXTENDS CacheDir, TLAPS

(* The steps of GbsSystem.__init__ after self.uuid is set. *)
Placed == {"pubkey", "image", "mkfs", "info", "mntdir", "load"}

(* What the scan has established: a directory with the wanted key is still to  *)
(* be looked at, or is the one that was found or made.                         *)
KeyInv ==
    /\ pc \in Placed => here \in Uuid /\ "dir" \in has[here]
    /\ \A u \in Uuid : pub[u] # NoKey => "dir" \in has[u]
    /\ pc = "scan" => \A u \in Uuid : pub[u] = want => u \in todo
    /\ pc = "pubkey" => pub[here] = NoKey /\ \A u \in Uuid : pub[u] # want
    /\ pc \in Placed \ {"pubkey"} => pub[here] = want

(* The information file is the evidence that the file system was made. *)
OrderInv ==
    /\ \A u \in Uuid : "info" \in has[u] => "fs" \in has[u]
    /\ pc \in {"info", "mntdir"} => "fs" \in has[here]

(* What a finished directory holds, and how far the one being made has come.   *)
FinishInv ==
    /\ \A u \in Uuid : "mnt" \in has[u] => {"pubkey", "image", "info"} \subseteq has[u]
    /\ pc = "scan" => todo \subseteq Existing
    /\ pc \in {"image", "mkfs", "info", "mntdir"} => "pubkey" \in has[here]
    /\ pc \in {"mkfs", "info", "mntdir"} => "image" \in has[here]
    /\ pc = "mntdir" => "info" \in has[here]
    /\ pc \notin {"idle", "down"} => ~refused

RemainsInv == TypeOK /\ KeyInv /\ FinishInv /\ OnlyRemainsRefuse

IInv == TypeOK /\ KeyInv /\ OneSystemPerKey /\ OrderInv /\ GivenSystemIsFormatted

-------------------------------------------------------------------------------
(* Every variable keeps its type, and self.uuid is set where it is used. *)
LEMMA StepType ==
  ASSUME TypeOK, pc \in Placed => here \in Uuid, [Next]_vars
  PROVE  TypeOK' /\ (pc \in Placed => here \in Uuid)'
<1> USE NoKeyAssumption DEF TypeOK, Placed
<1>1. ASSUME NEW k \in Key, Lookup(k) PROVE TypeOK' /\ (pc \in Placed => here \in Uuid)'
  BY <1>1 DEF Lookup, Existing
<1>2. CASE ScanRaises \/ LoadRaises
  BY <1>2 DEF ScanRaises, LoadRaises, Raise
<1>3. ASSUME NEW u \in Uuid, ScanPasses(u) \/ ScanFinds(u) \/ NewDir(u)
      PROVE  TypeOK' /\ (pc \in Placed => here \in Uuid)'
  BY <1>3 DEF ScanPasses, ScanFinds, NewDir
<1>4. CASE RecordKey
  BY <1>4 DEF RecordKey
<1>5. CASE FinishDir
  BY <1>5 DEF FinishDir, Make
<1>6. CASE Load
  BY <1>6 DEF Load
<1>7. CASE CreationStops
  BY <1>7 DEF CreationStops, Interrupted
<1>8. CASE Crash \/ Restart \/ UNCHANGED vars
  BY <1>8 DEF Crash, Restart, vars
<1>9. QED
  BY <1>1, <1>2, <1>3, <1>4, <1>5, <1>6, <1>7, <1>8 DEF Next

(* Directories only fill up, and keys stay as they are but for the one that is *)
(* recorded.                                                                   *)
LEMMA StepInv == ASSUME IInv, [Next]_vars PROVE IInv'
<1>1. TypeOK' /\ (pc \in Placed => here \in Uuid)'
  BY StepType DEF IInv, KeyInv
<1> DEFINE Rest == KeyInv /\ OneSystemPerKey /\ OrderInv /\ GivenSystemIsFormatted
<1> SUFFICES Rest'
  BY <1>1 DEF IInv
<1> USE <1>1, NoKeyAssumption, NoneAssumption DEF Placed, IInv, TypeOK, KeyInv, OneSystemPerKey, OrderInv, GivenSystemIsFormatted
<1>2. ASSUME NEW k \in Key, Lookup(k) PROVE Rest'
  BY <1>2 DEF Lookup, Existing
<1>3. CASE ScanRaises \/ LoadRaises
  BY <1>3 DEF ScanRaises, LoadRaises, Raise
<1>4. ASSUME NEW u \in Uuid, ScanPasses(u) \/ ScanFinds(u) PROVE Rest'
  BY <1>4 DEF ScanPasses, ScanFinds
<1>5. ASSUME NEW u \in Uuid, NewDir(u) PROVE Rest'
  BY <1>5 DEF NewDir
<1>6. CASE RecordKey
  BY <1>6 DEF RecordKey
<1>7. CASE FinishDir
  <2>1. CASE Make("image", "image", "mkfs")
    BY <2>1 DEF Make
  <2>2. CASE Make("mkfs", "fs", "info")
    BY <2>2 DEF Make
  <2>3. CASE Make("info", "info", "mntdir")
    BY <2>3 DEF Make
  <2>4. CASE Make("mntdir", "mnt", "load")
    BY <2>4 DEF Make
  <2>5. QED
    BY <1>7, <2>1, <2>2, <2>3, <2>4 DEF FinishDir
<1>8. CASE Load
  BY <1>8 DEF Load
<1>9. CASE CreationStops
  BY <1>9 DEF CreationStops, Interrupted
<1>10. CASE Crash \/ Restart \/ UNCHANGED vars
  BY <1>10 DEF Crash, Restart, vars
<1>11. QED
  BY <1>2, <1>3, <1>4, <1>5, <1>6, <1>7, <1>8, <1>9, <1>10 DEF Next

(* The invariant is inductive: keys recorded, order of creation, systems given. *)
THEOREM Inductive == Spec => []IInv
<1>1. Init => IInv
  BY NoKeyAssumption, NoneAssumption
     DEF Init, IInv, TypeOK, KeyInv, OneSystemPerKey, OrderInv, GivenSystemIsFormatted, Placed
<1>2. IInv /\ [Next]_vars => IInv'
  BY StepInv
<1>3. QED
  BY <1>1, <1>2, PTL DEF Spec

(* No client ever has two systems, however often creation was cut short. *)
THEOREM NoSecondSystem == Spec => []OneSystemPerKey
<1>1. IInv => OneSystemPerKey
  BY DEF IInv
<1>2. QED
  BY <1>1, Inductive, PTL

(* A session is only given a formatted image, and the one of its client. *)
THEOREM GivenFormatted == Spec => []GivenSystemIsFormatted
<1>1. IInv => GivenSystemIsFormatted
  BY DEF IInv
<1>2. QED
  BY <1>1, Inductive, PTL

(* A client keeps its system: only the directory with its key can be given to  *)
(* it, and there is only one.                                                  *)
THEOREM SystemKept == Spec => KeepsItsSystem
<1> DEFINE Keeps == \A k \in Key : given[k] # None => given'[k] = given[k]
<1>1. IInv /\ [Next]_vars => [Keeps]_vars
  <2> SUFFICES ASSUME IInv, [Next]_vars PROVE [Keeps]_vars
    OBVIOUS
  <2> USE DEF IInv, TypeOK
  <2>1. CASE Load
    <3> SUFFICES ASSUME NEW k \in Key, given[k] # None PROVE given'[k] = given[k]
      OBVIOUS
    <3>1. CASE k = want
      <4>1. pub[here] = want /\ here \in Uuid
        BY <2>1 DEF Load, KeyInv, Placed
      <4>2. pub[given[k]] = want /\ given[k] \in Uuid
        BY <3>1 DEF GivenSystemIsFormatted
      <4>3. given[k] = here
        BY <4>1, <4>2, NoKeyAssumption DEF OneSystemPerKey
      <4>4. QED
        BY <2>1, <3>1, <4>3 DEF Load
    <3>2. CASE k # want
      BY <2>1, <3>2 DEF Load
    <3>3. QED
      BY <3>1, <3>2
  <2>2. CASE ~Load
    <3>1. given' = given
      BY <2>2 DEF Next, Lookup, ScanRaises, LoadRaises, Raise, ScanPasses, ScanFinds, NewDir,
                  RecordKey, FinishDir, Make, CreationStops, Interrupted, Crash, Restart, vars
    <3>2. QED
      BY <3>1
  <2>3. QED
    BY <2>1, <2>2
<1>2. QED
  BY <1>1, Inductive, PTL DEF Spec, KeepsItsSystem

(* Until a creation is cut short, every directory but the one being made is    *)
(* finished.                                                                   *)
LEMMA StepRemains == ASSUME IInv, RemainsInv, [Next]_vars PROVE (FinishInv /\ OnlyRemainsRefuse)'
<1> DEFINE Rest == FinishInv /\ OnlyRemainsRefuse
<1> SUFFICES Rest'
  OBVIOUS
<1>1. TypeOK' /\ (pc \in Placed => here \in Uuid)'
  BY StepType DEF IInv, KeyInv
<1> USE <1>1, NoneAssumption DEF Placed, RemainsInv, TypeOK, KeyInv, FinishInv, OnlyRemainsRefuse, Existing
<1>2. ASSUME NEW k \in Key, Lookup(k) PROVE Rest'
  BY <1>2 DEF Lookup
<1>3. CASE ScanRaises
  BY <1>3 DEF ScanRaises, Raise
<1>4. CASE LoadRaises
  BY <1>4 DEF LoadRaises, Raise
<1>5. ASSUME NEW u \in Uuid, ScanPasses(u) \/ ScanFinds(u) PROVE Rest'
  BY <1>5 DEF ScanPasses, ScanFinds
<1>6. ASSUME NEW u \in Uuid, NewDir(u) PROVE Rest'
  BY <1>6 DEF NewDir
<1>7. CASE RecordKey
  BY <1>7 DEF RecordKey
<1>8. CASE FinishDir
  <2>1. CASE Make("image", "image", "mkfs")
    BY <2>1 DEF Make
  <2>2. CASE Make("mkfs", "fs", "info")
    BY <2>2 DEF Make
  <2>3. CASE Make("info", "info", "mntdir")
    BY <2>3 DEF Make
  <2>4. CASE Make("mntdir", "mnt", "load")
    BY <2>4 DEF Make
  <2>5. QED
    BY <1>8, <2>1, <2>2, <2>3, <2>4 DEF FinishDir
<1>9. CASE Load
  BY <1>9 DEF Load
<1>10. CASE CreationStops
  BY <1>10 DEF CreationStops, Interrupted
<1>11. CASE Crash \/ Restart \/ UNCHANGED vars
  BY <1>11 DEF Crash, Restart, vars
<1>12. QED
  BY <1>2, <1>3, <1>4, <1>5, <1>6, <1>7, <1>8, <1>9, <1>10, <1>11 DEF Next

(* A client is refused only over the remains of a creation that was cut short. *)
THEOREM RefusedByRemains == Spec => []OnlyRemainsRefuse
<1>1. Init => RemainsInv
  BY NoKeyAssumption, NoneAssumption
     DEF Init, RemainsInv, TypeOK, KeyInv, FinishInv, OnlyRemainsRefuse, Existing, Placed
<1>2. IInv /\ IInv' /\ RemainsInv /\ [Next]_vars => RemainsInv'
  BY StepRemains DEF IInv, RemainsInv
<1>3. RemainsInv => OnlyRemainsRefuse
  BY DEF RemainsInv
<1>4. QED
  BY <1>1, <1>2, <1>3, Inductive, PTL DEF Spec

(* Every variable keeps its type. *)
THEOREM TypeCorrect == Spec => []TypeOK
<1>1. IInv => TypeOK
  BY DEF IInv
<1>2. QED
  BY <1>1, Inductive, PTL
===============================================================================
