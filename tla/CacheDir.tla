-------------------------------- MODULE CacheDir --------------------------------
(***************************************************************************)
(* The cache directory of syncupd: one directory for each client system,   *)
(* found by the public key recorded in it (GbsSystem.__init__ of           *)
(* gbs_common.py).  The main thread of the daemon looks a client's system  *)
(* up, or creates its directory file by file; a failing command or a crash *)
(* of the daemon leaves behind whatever is there by then, and nothing ever *)
(* completes or removes it.                                                *)
(***************************************************************************)
CONSTANTS
    Key,        \* the public keys of clients
    NoKey,      \* what is read from a key file that was not written to the end
    Uuid        \* names of directories, enough for every one ever created

ASSUME NoKeyAssumption == NoKey \notin Key

None == "none"
ASSUME NoneAssumption == None \notin Uuid

VARIABLES
    pc,         \* where GbsSystem.__init__ is; "idle" between calls, "down" after a crash
    want,       \* the key it was called with
    here,       \* self.uuid
    todo,       \* what is left of the listing of the cache directory
    has,        \* what is in a directory; "fs" is the file system in the image
    pub,        \* the key recorded in it
    given,      \* history: the directory a client's session was last given
    refused     \* history: the last call raised before it created anything

vars == <<pc, want, here, todo, has, pub, given, refused>>

-------------------------------------------------------------------------------
Existing == {u \in Uuid : "dir" \in has[u]}

(* A client has connected: list the cache directory. *)
Lookup(k) == /\ pc = "idle"
             /\ pc' = "scan"
             /\ want' = k
             /\ todo' = Existing
             /\ refused' = FALSE
             /\ UNCHANGED <<here, has, pub, given>>

Raise == pc' = "idle" /\ refused' = TRUE /\ UNCHANGED <<want, here, todo, has, pub, given>>

(* The key file of a listed directory cannot be opened. *)
ScanRaises == /\ pc = "scan"
              /\ \E u \in todo : "pubkey" \notin has[u]
              /\ Raise

(* Mutant of ScanPasses: the key read is compared as text, never equal. *)
ScanPassesAny(u) == /\ pc = "scan"
                    /\ u \in todo
                    /\ "pubkey" \in has[u]
                    /\ todo' = todo \ {u}
                    /\ UNCHANGED <<pc, want, here, has, pub, given, refused>>

ScanPasses(u) == /\ pc = "scan"
                 /\ u \in todo
                 /\ "pubkey" \in has[u] /\ pub[u] # want
                 /\ todo' = todo \ {u}
                 /\ UNCHANGED <<pc, want, here, has, pub, given, refused>>

ScanFinds(u) == /\ pc = "scan"
                /\ u \in todo
                /\ "pubkey" \in has[u] /\ pub[u] = want
                /\ here' = u
                /\ pc' = "load"
                /\ UNCHANGED <<want, todo, has, pub, given, refused>>

(* Mutant of NewDir: a new system is created at the first key that differs. *)
NewDirEarly(u) == /\ pc = "scan"
                  /\ todo = {} \/ \E v \in todo : "pubkey" \in has[v] /\ pub[v] # want
                  /\ has[u] = {}
                  /\ has' = [has EXCEPT ![u] = {"dir"}]
                  /\ here' = u
                  /\ pc' = "pubkey"
                  /\ UNCHANGED <<want, todo, pub, given, refused>>

(* No directory has the key: os.makedirs of a new one. *)
NewDir(u) == /\ pc = "scan"
             /\ todo = {}
             /\ has[u] = {}
             /\ has' = [has EXCEPT ![u] = {"dir"}]
             /\ here' = u
             /\ pc' = "pubkey"
             /\ UNCHANGED <<want, todo, pub, given, refused>>

RecordKey == /\ pc = "pubkey"
             /\ has' = [has EXCEPT ![here] = @ \cup {"pubkey"}]
             /\ pub' = [pub EXCEPT ![here] = want]
             /\ pc' = "image"
             /\ UNCHANGED <<want, here, todo, given, refused>>

(* Add one thing to the directory and go on. *)
Make(p, thing, q) == /\ pc = p
                     /\ has' = [has EXCEPT ![here] = @ \cup {thing}]
                     /\ pc' = q
                     /\ UNCHANGED <<want, here, todo, pub, given, refused>>

(* Mutant of FinishDir: the information file is created before the file system. *)
FinishDirInfoFirst == \/ Make("image", "image", "info")      \* dd
                      \/ Make("info", "info", "mkfs")        \* touchFile
                      \/ Make("mkfs", "fs", "mntdir")        \* mkfs.ext4
                      \/ Make("mntdir", "mnt", "load")       \* ensureDir

(* Mutant of FinishDir: the mount directory is created under another name. *)
FinishDirMisnamed == \/ Make("image", "image", "mkfs")
                     \/ Make("mkfs", "fs", "info")
                     \/ Make("info", "info", "mntdir")
                     \/ Make("mntdir", "mntdir", "load")

(* Mutant of FinishDir: the mount directory is created before the information  *)
(* file.                                                                       *)
FinishDirMountFirst == \/ Make("image", "image", "mkfs")
                       \/ Make("mkfs", "fs", "mntdir")
                       \/ Make("mntdir", "mnt", "info")
                       \/ Make("info", "info", "load")

FinishDir == \/ Make("image", "image", "mkfs")      \* dd
             \/ Make("mkfs", "fs", "info")          \* mkfs.ext4
             \/ Make("info", "info", "mntdir")      \* touchFile
             \/ Make("mntdir", "mnt", "load")       \* ensureDir

(* _loadClientInfo opens the information file and asks for the image's size;  *)
(* then the session has its system.                                           *)
Load == /\ pc = "load"
        /\ {"info", "image"} \subseteq has[here]
        /\ given' = [given EXCEPT ![want] = here]
        /\ pc' = "idle"
        /\ UNCHANGED <<want, here, todo, has, pub, refused>>

LoadRaises == /\ pc = "load"
              /\ ~({"info", "image"} \subseteq has[here])
              /\ Raise

(* A command or a write fails, or the daemon is killed, with the file it was  *)
(* working on absent or incomplete.                                           *)
Interrupted(p, left) == /\ pc = p
                        /\ pc' \in {"idle", "down"}
                        /\ has' = [has EXCEPT ![here] = @ \cup left]
                        /\ UNCHANGED <<want, here, todo, pub, given, refused>>

CreationStops == \/ \E left \in {{}, {"pubkey"}} : Interrupted("pubkey", left)
                 \/ \E left \in {{}, {"image"}} : Interrupted("image", left)
                 \/ \E p \in {"mkfs", "info", "mntdir"} : Interrupted(p, {})

Crash == /\ pc \in {"idle", "scan", "load"}
         /\ pc' = "down"
         /\ UNCHANGED <<want, here, todo, has, pub, given, refused>>

(* The daemon starts again; it clears its temporary directories, not this one. *)
Restart == /\ pc = "down"
           /\ pc' = "idle"
           /\ UNCHANGED <<want, here, todo, has, pub, given, refused>>

-------------------------------------------------------------------------------
Init == /\ pc = "idle"
        /\ want \in Key
        /\ here = None
        /\ todo = {}
        /\ has = [u \in Uuid |-> {}]
        /\ pub = [u \in Uuid |-> NoKey]
        /\ given = [k \in Key |-> None]
        /\ refused = FALSE

Next == \/ \E k \in Key : Lookup(k)
        \/ ScanRaises
        \/ \E u \in Uuid : ScanPasses(u) \/ ScanFinds(u) \/ NewDir(u)
        \/ RecordKey \/ FinishDir
        \/ Load \/ LoadRaises
        \/ CreationStops \/ Crash \/ Restart

Spec == Init /\ [][Next]_vars

-------------------------------------------------------------------------------
(* Properties. *)

(* Every variable keeps its type. *)
TypeOK ==
    /\ pc \in {"idle", "down", "scan", "pubkey", "image", "mkfs", "info", "mntdir", "load"}
    /\ want \in Key
    /\ here \in Uuid \cup {None}
    /\ todo \subseteq Uuid
    /\ has \in [Uuid -> SUBSET {"dir", "pubkey", "image", "fs", "info", "mnt"}]
    /\ pub \in [Uuid -> Key \cup {NoKey}]
    /\ given \in [Key -> Uuid \cup {None}]
    /\ refused \in BOOLEAN

(* However often creation was cut short, no client ever has two systems: the   *)
(* image that was synced up and the one a later session mounts are the same.   *)
OneSystemPerKey == \A u, v \in Uuid : pub[u] # NoKey /\ pub[u] = pub[v] => u = v

(* A session is only ever given a system whose image holds a file system, and  *)
(* whose directory records the key of that client.                             *)
GivenSystemIsFormatted ==
    \A k \in Key : given[k] # None => /\ "fs" \in has[given[k]]
                                      /\ pub[given[k]] = k

(* A client keeps the system it was given, across failures and restarts ("the  *)
(* disk image is cached on server", README).                                   *)
KeepsItsSystem ==
    [][\A k \in Key : given[k] # None => given'[k] = given[k]]_vars

(* A client is refused without a new system only if the creation of some       *)
(* system was cut short before its last step: as long as none was, everybody   *)
(* is served, the regulars too.                                                *)
OnlyRemainsRefuse == refused => \E u \in Existing : "mnt" \notin has[u]
===============================================================================
