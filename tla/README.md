# syncupd in TLA+

This directory holds TLA+ models of *syncupd* (gentoo-build-server), the daemon that keeps a disk
image of a client machine, lets the client upload its system into it, work in it over ssh, and
download the result. The models are written from the code in `src/`; TLC checks them on small
instances, and the TLA+ proof system (TLAPS) proves the main safety properties for all instances.

`PROJECT.json` lists, machine-readably, the components, every run with its properties, the source
lines each definition stands for, the hazards of the code with the properties aimed at them, the
findings and the theorems. This file says how to read it all.

## 1. The system

### Components, their state and their operations

| Component | Source | State it keeps | Operations |
| --- | --- | --- | --- |
| Control server, main thread | `lib/gbs_ctrl_server.py` `GbsCtrlServer` | listening socket, `sessionDict` | accept, `onHandShakeComplete`, `onHandShakeError`, `stop` |
| TLS handshaker | same file, `_HandShaker` | `sockDict` (connections in handshake), GLib watches | `addSocket`, `_onEvent`, `dispose` |
| Control session, one thread per client | same file, `GbsCtrlSession` | `stage`, `plugin`, service objects, buffers, `bQuit` | requests `init`, `stage-syncup`, `stage-working`, `quit`; stage start and end handlers; the finally clause of `run()` |
| Client system: disk and root directory | `lib/gbs_common.py` `GbsSystem` | `loopDev`, mounts, `procDir`... | `mount`, `unmount`, `prepareRoot`, `unPrepareRoot`, `enlarge` |
| Client system: cache directory | same file, `GbsSystem.__init__`, `GbsSystemDatabase` | `/var/cache/syncupd/<uuid>`: key, image, information file, mount directory | look up by public key, create, list |
| Services | `lib/services/rsyncd.py`, `sshd.py`, `catfiled.py`, `GbsUtil` | ports, child processes, configuration files | `start`, `stop`, `getPort` |
| File reader thread | `lib/services/catfiled.py` `_CatFileThread` | `serverSock`, the connection, receive and send buffers | `start`, `stop`, `run` |
| Avahi registration | `lib/gbs_util.py` `AvahiServiceRegister` | server and entry-group proxies, retry timers | D-Bus signals and timeouts |
| Daemon | `syncupd`, `lib/gbs_daemon.py` | the process, its temporary and run directories, pid file, certificate and key, port | start, stop on SIGINT/SIGTERM, a start that fails half-way |
| Control tool | `syncupctl`, `lib/gbs_cmd.py` | certificate and key files | `show-clients`, `initialize` |
| Plugins | separate packages | their own | stage and fini callbacks |
| Example client | `examples/remote-emerge.py` | none | the request script the server is meant for |

### How they interact

The **main thread** runs a GLib main loop. It accepts connections, drives the TLS handshakes and
the registration with Avahi by callbacks, and starts one **session thread** for each client that
completed a handshake. The session threads and the main thread share `sessionDict` with no lock:
the main thread iterates over it and inserts into it, a session thread deletes itself from it.
Session threads share with each other the disks (a mount on a client's image) and the TCP port
space. A session owns a `GbsSystem` and up to three services; a service owns child processes, or
in one case a second thread. The client acts at any moment, the kernel may refuse an unmount, and
Avahi comes and goes. A killed daemon leaves the cache directory, its own directories and the
mounted disks as they are; a second instance, or `syncupctl initialize`, writes to the same files.

### What is hard in it

* *Interleaving without locks*: `sessionDict`; a session is entered in it after its thread has
  started; a port is found free, released, and bound later by another process; `stop()` of the
  file reader takes its socket away while it runs; two instances share one run directory.
* *Callbacks*: a watch that fires once and must be added again for the right condition; a callback
  that raises and is never called again; two retry timers and two signals that each start the same
  work.
* *Cleanup that fails in the middle*: the end handler of a stage is called from four places, and
  an exception in it means something else in each; `prepareRoot` cleans up after itself and is
  then cleaned up after again; a step of the daemon's finally clause that raises skips the rest.
* *Buffers*: what is in the TLS layer is not seen by `select()`; one request is taken for each
  `recv()`; the last answer must still go out.
* *Requests in any order*: the stages assume an order the server only partly enforces.
* *Crashes* in the creation of a client's directory, in writing the key files, anywhere in the
  daemon.
* *Endings*: a vanished client, `quit`, a signal; each must lead to released disks.

The full list, each at its line with the properties aimed at it, is `hazards` in `PROJECT.json`.

### What makes each component correct

* *Session*: when it ends, its services have been stopped; the writable upload daemon never runs
  over the host's mounted `/dev`, `/sys`; what it holds matches its stage; it ends when the client
  goes or quits, or waits for a dead daemon's port; if no cleanup raises, it leaves nothing behind.
* *Request loop*: each request is answered once; whoever waits for an answer gets it; a disk that
  fills up is enlarged.
* *Server*: `stop()` reaches every session, waits for its cleanup, and ends once the clients have
  gone. (That two sessions never share a client's system is meant, and not achieved: section 6.)
* *Handshaker*: table, watches and sockets fit together; it never waits for a client that waits
  for it; an honest client gets through beside any other.
* *Cache directory*: one system for a client, for good; only a formatted image is given out; only
  the remains of a failed creation can make the lookup fail.
* *Services*: a client's ports lead to its own daemons (not always: finding 2); `start()` returns,
  unless the daemon it waits for has ended; what `stop()` leaves are at most daemons that outlive
  the shell it terminates.
* *File reader*: `stop()` is safe at any moment, unless `accept()` has failed (section 6); a
  complete request is settled.
* *Avahi registration*: a pending retry excludes what it retries; once Avahi stays, and unless a
  change was lost before, the service is announced again and again or the two retries stay crossed
  for good (finding 3).
* *Daemon*: one instance serves at a time; sessions keep their files; instances that ended without
  being killed leave no directory, no port and no disk behind, except a disk that a session failed
  to unmount; the key files belong together.

## 2. The modules

| Module | Models | Used by |
| --- | --- | --- |
| `SessionLease` | abstract promise of a session: stages and the services granted in them | refined by `CtrlSession` |
| `CtrlSession` | the session thread with its disk and services | `CtrlSessionProofs` |
| `RequestLoop` | the buffers of the session's loop, and `enlarge()` | `ConnectionProofs` |
| `ServerLife` | abstract promise of the control server: one session for each connection, none begun once it stops, gone only when all are over | refined by `CtrlServer` and by `Daemon` |
| `ConnLife` | what becomes of a connection: shaking hands, then served and closed, or stuck | refined by `HandShaker` and by `CtrlServer` |
| `CtrlServer` | main thread and `sessionDict` against session threads cut down to what they share | its thread is refined by `CtrlSession`; `CtrlServerProofs` |
| `HandShaker` | TLS handshakes driven by watches of the main loop | `ConnectionProofs` |
| `Daemon` | the process from start to end, beside other processes and after killed ones | `DaemonProofs` |
| `CacheDir` | lookup and creation of a client's directory, failures, crashes, restarts | `MCCacheDir`, `CacheDirProofs` |
| `ServicePorts` | free ports, daemons, tunnels, `start()` and `stop()` of the services in several sessions | `MCServicePorts`, `ServicePortsProofs` |
| `CatFile` | the file reader thread, its protocol, and the session thread stopping it | `CatFileProofs` |
| `Avahi` | the registration with the Avahi daemon over D-Bus | `AvahiProofs` |

An `MC` module adds what TLC needs (symmetry sets, sequences as constants); a `Proofs` module
holds the theorems about the module it extends, `ConnectionProofs` about the two that it extends
(whence the names of `RequestLoop`: `LoopInit`, `LoopNext`...). Operators named in a comment
"Mutant of X" are deliberate faults: put in place of X, the named property of a run must break.
They are not part of any specification.

Where two modules meet, each has its own idea of the other, and mostly the two are proved to
agree:

* `CtrlServer` has a session thread in it that is cut down to what it shares. `CtrlSession` does
  nothing else (`ServesTheServer`).
* `CtrlServer` has the outcomes of handshakes, `HandShaker` the end of a session. Both keep to
  `ConnLife` (`HandshakesKeepTheLife`, `ServerKeepsTheLife`): a connection is handed over once at
  most, only its session closes it, and one whose callback raised stays as it is.
* `Daemon` has a control server in it that is one variable, `session`. `Daemon` and `CtrlServer`
  both keep to `ServerLife` (`InstancesKeepTheService`, `ServerKeepsTheService`): a server that
  returns from `stop()`, or whose process ends by itself, has no active session left.

What remains is taken over without such a proof: from `CtrlSession` that a session whose client
has gone ends or waits for a port for good (`SessionEnds`, liveness), from `ServicePorts` that a
service start succeeds, undoes itself or waits for the port of a dead daemon, from `CatFile` that
the file reader's `stop()` may raise. `RequestLoop` leaves to `CtrlSession` what a request does.

### CtrlSession and the code

`pc` is where the thread is, one value for each place at which an exception or another actor
matters.

| `pc` | Code | Actions |
| --- | --- | --- |
| `select` | the loop of `run()` (99-147) | `RecvInit`, `RecvSyncup`, `RecvWorking`, `RecvQuit`, `RecvOutOfOrder`, `RecvOther`, `SendReply`, `PeerGone`, `LoopRaises` |
| `load`, `mount`, `finishInit` | `_initHandler` (233-252) | `LoadPlugin`, `Mount`, `FinishInit` |
| `fini` | `_finiHandler` (254-258) | `Fini` |
| `prep` | `prepareRoot` | `PrepareRoot` = `PrepareRefused`, `PrepareRedundant`, `PrepareFails` or `PrepareSucceeds` |
| `pluginStart`, `startServ` | the start handlers (260-326) | `PluginStageStart`, `StartService(s)` |
| `waitPort` | `waitTcpPort` (`gbs_util.py` 73-83), once the daemon it waits for has ended | `PortAnswered(s)` |
| `stop`, `pluginEnd`, `unprep` | the end handlers (279-341) | `StopServices`, with `StopReader`; `PluginStageEnd`, `UnPrepareRoot` |
| `final`, `del`, `close`, `dead` | the finally clause (148-157) | `Final`, `Del`, `Close` |

`ctx` records on whose behalf a cleanup runs (`init`'s error path, a stage switch, the undo of a
failed start, the finally clause): its exceptions and its continuation differ in each. `broke` is a
history variable, the cleanup steps that raised. `StopReader` is the file reader's `stop()` raising,
first of all in the end handler of "working": sshd and the read-only rsyncd are not stopped then,
and `SessionLease` says so (`WithdrawReader`). `StartService` goes to `waitPort` when the daemon has
ended; a thread only leaves that place if somebody else comes to listen on the port, so
`PortAnswered` is not among the steps that fairness is assumed of. `dirs` is what `prepareRoot` has
made and mounted at `/proc`, `/sys`, `/dev`, `/run`, `/tmp`, in that order; the client may upload
any tree below them. A directory unmounted with `umount -l` (`Lazy`) is never busy. Between any two
steps the client may leave or upload, and the main thread may enter the session in `sessionDict`.

`script` is the client: "any" sends requests in any order (`AnyOrder`), the others are the places
in the script of `examples/remote-emerge.py`. Both kinds are initial states of one run.

Abstracted: the byte buffers (`RequestLoop` has them), the contents of requests and answers,
`/var`, `/var/tmp`, `/root` and `/lost+found` (their effects are failures of `prepareRoot`), and
the ports and processes of a service: one start that succeeds, fails and undoes itself, or waits;
`services` are those whose `stop()` is still due. Which processes end with it is up to
`ServicePorts`.

### CtrlServer and the code

`main` follows the main thread through `onHandShakeComplete` (63-72: `HandshakeComplete`,
`CheckPasses`, `CheckInterrupted`, `CheckDone`, `CreateFails`, `StartSession`, `Register`) and
`stop()` (35-43: `Stop`, `ShutdownSession`, `ShutdownFails`, `ShutdownInterrupted`, `ShutdownDone`,
`JoinSession`, `JoinDone`). A loop over the dictionary is one step for each element; `atStart` is
the dictionary when the loop began, and a changed dictionary raises at the next element, as in
CPython. The check passes every session: line 64 compares pyOpenSSL `PKey` objects, which define no
equality and are made anew for each connection, so no client is found a duplicate. A session thread
is reduced to `life` (running, hung, ending, cleaned up, entry deleted, dead) and the disk it
mounts: `MountDisk`, `MountUndoFails` (the disk is mounted and no session knows of it: `Stray`),
`InitFails`, `StartHangs` and `PortAnswered` (a service start that waits for the port of a dead
daemon), `LeaveLoop`, and the finally clause `Cleanup`, `CleanupFails`, `DelEntry`, `DelTooEarly`,
`CloseSocket`. `ServesTheServer` proves that a `CtrlSession` does nothing else.

### CacheDir and the code

`has[u]` is what exists in directory `u`; `pub[u]` the key in it. `Lookup`, `ScanPasses`,
`ScanFinds`, `ScanRaises` are the loop of lines 135-143 of `gbs_common.py`, `NewDir`, `RecordKey`
and the four cases of `FinishDir` the creation of lines 146-169, and `Load` reading the client
information. `CreationStops` ends a creation at any step, by an exception or by the death of the
daemon, with the file it was writing absent or incomplete. A key file that was not completed reads
as a key that is nobody's.

### ServicePorts and the code

A session runs through the daemons of its stage (`Role`: sshd; rsyncd and its tunnel; the file
reader and its tunnel), and for each picks a port (`PickPort`), launches it (`LaunchProcess`, or
`LaunchThread`, which binds within the call) and waits until *somebody* listens on that port
(`Wait`). `DaemonBinds` is the child process reading its configuration and binding, later, by
itself; `DaemonFails` its end before that, for any reason of its own. `waitTcpPort` does not look
at the process: `Hangs` is a session that waits for a daemon that has ended. `conf[s]` is
`<uuid>-stunnel.conf`, which the tunnels of a session share.

`stop()` terminates what `Popen(shell=True)` has started, which is a shell, and waits for it.
Whether the daemon ends with it depends on the shell: one that has replaced itself with the
command is the daemon; bash does so for a plain command (sshd, rsyncd) but not for one with a
redirection, as stunnel's `2>/dev/null` is (`rsyncd.py` 112, `catfiled.py` 89). `Outlives` names the
roles whose daemon survives its shell, and keeps its port: `{"tunnel"}` in the runs (Gentoo's
`/bin/sh` is bash), any roles in the proofs. `clash` is a history variable: the sessions that were
given a port another session had been given and had not dropped yet. Ports are picked without a
lock, so this happens, and what a client may then be served is finding 2.

### CatFile and the code

`thread` is the place in `run()`, `stopper` the session thread in `stop()` and `join()`, statement
by statement because they share `serverSock` without a lock. Bytes are counted: `LenSize`,
`NameSize`, `HeaderSize` and `DataSize` are parameters. A client sends a request in any pieces,
and may leave at any time.

### RequestLoop and the code

`pc` follows a pass of the loop in `run()` (99-147): `Select`, then a `recv()` (`RecvPending` from
what the TLS layer holds already, `RecvRecord` from a new record, `RecvRaises`, `RecvNothing`),
`Handle` of at most one request, `Send` or `NothingToSend`, and `enlarge()` step by step
(`LargeEnough`, `GrowImage`, `GrowLoop`, `GrowFs`, each of which may be where `EnlargeFails`). A
chunk is what one `recv(4096)` returns. A client's requests are numbered, and a chunk is the numbers
between which the requests end that end in it (`from`, `to`; equal if none does). A record is a
sequence of chunks; `select()` only sees records of which none was taken. `RecvRaises` covers the
`WantReadError` of a record that has arrived in part. `manners` is the kind of client: one that
waits for each answer, one that pipelines, one whose records exceed 4096 bytes. Any request may
attach the disk or quit. Sizes are in steps, and `MaxImage` is the file that no longer grows.

### HandShaker and the code

One action for each way through `_onEvent` (392-448): `SocketError`, `KeyFails`, `WantRead`,
`WantWrite`, `HandshakeFails`, `Complete`. `watch[c]` is the condition of the GLib watch, which
`WaitFor` adds again. The error path does not do what it was written for: `_ConnException` has no
`message` in Python 3, nor have the errors of pyOpenSSL, so it raises itself; the entry and the
socket stay, without a watch (`Raise`, `raised`). `dispose()` is never called. `Complete` may
raise as well: `onHandShakeComplete` does, for a certificate in use. `MaxFiles` is the limit on
open sockets: at the limit `accept()` fails and the connection waits in the backlog.

### Daemon and the code

`pc[d]` is the next step of an instance: `ClearRunDir`, `WritePidFile`, `CheckKeys` (with
`Generate` and the four steps of `DumpKeys`), `Bind`, `Announce` are the start in `GbsDaemon.run`;
`AvahiStop`, `CtrlStop`, `Clean` its finally clause, of which a step that raises skips the rest
(`Skip`, `abandoned`); `Outer` the finally clause of `syncupd`; `Exit` the end of the process,
which waits for threads that were not joined. `Kill` may hit any process at any step. A
certificate and a key are the number of the pair they belong to, or `Torn`. The client has one
disk. `EndSession` is a session's finally clause going through, `EndFails` one that raises: the
session's entry stays (`stale`), which may make `shutdown()` and so `CtrlStop` raise later, and the
disk may stay mounted (`unreleased`, a history variable).

### Avahi and the code

`pc` is the blocking D-Bus call that the main loop is in: what a call sees may be newer than the
signals that still wait. `Start` and `Watch` are `start()`; `GetState`, `Subscribe`, `CreateFails`
are `_createServer` (378-389), `Register`, `RegisterFails`, `RegisterAsserts` `_registerService`
(405-425), which is also called from signals and from its timer. Each D-Bus callback and timeout
is an action (`OwnerAppears`, `OwnerAsserts`, `OwnerGone`, `ServerRunning`, `ServerOther`,
`GroupCollision`, `GroupFailure`, `CreateTimeout`, `RegisterTimeout`). Three assertions can fail:
at the head of `_createServer`, when the owner appears with a retry pending (`OwnerAsserts`, 379),
at the head of `_registerService`, when `_createServer` calls it (`RegisterAsserts`, 406), and for
a group in state FAILURE (`GroupFailure`, 451). An object outlives the Avahi it was made for
as `"stale"`. `lost` is a history variable: it is set in the windows in which the code cannot be
told of a change (between the look for an owner and the subscription, 353-355; between `GetState`
and the subscription, 383-385; between `Commit` and the subscription, 420-421; a group in state
FAILURE, 451), and cleared when Avahi's disappearance starts everything anew. Nothing else sets it;
a registration without a server object (406, 448) does not.

## 3. The runs

Passing runs:

| Run | Question | Properties |
| --- | --- | --- |
| `session_any` | What does a session guarantee against any client, and against the client of `examples/remote-emerge.py`, with a plugin whose callbacks raise and a kernel that refuses unmounts? | `TypeOK`, `ServicesStopped`, `UploadExclusive`, `SettledStage`, `CleanDeath`, `ServedDiskIsMounted`, `LeaseSpec` (refinement), `SessionEnds` |
| `requests` | Is each request answered, and does a filling disk grow, for polite, pipelining and large-record clients? | `OneAnswerEach`, `SizesOrdered`, `PoliteIsAnswered`, `SpaceIsRelieved` |
| `server` | Do new sessions, `stop()` and self-removing sessions work together? Does `stop()` end once the clients have left, and is a disk given back? | `TypeOK`, `ActiveSessionsKnown`, `StopReleasesAll`, `StopEnds`, `DiskIsGivenBack` |
| `handshakes` | Do honest clients get through beside one that does anything? | `TableConsistent`, `NoMutualWait`, `HonestFinishes` |
| `daemon` | What do instances that start, fail, are killed and stop leave to each other? | `KeysBelongTogether`, `SessionsServed`, `NothingLeftBehind`, `ProcessEnds` |
| `cachedir_crash` | Does the cache survive failures and crashes? | `TypeOK`, `OneSystemPerKey`, `GivenSystemIsFormatted`, `OnlyRemainsRefuse`, `KeepsItsSystem` |
| `ports_two` | Two sessions start and stop services in any interleaving, daemons fail, tunnels outlive their shell: whose daemons does a client get, what is left, does `start()` return? | `TypeOK`, `OwnUnlessClash`, `NothingLeft`, `StartReturns` |
| `catfile_stop` | Can the file reader be stopped at any moment? | `TypeOK`, `StopRaisesOnlyAfterFailure`, `StopReturns`, `RequestIsSettled` |
| `avahi_retry` | Is syncupd announced, or at least trying, whatever Avahi does? | `AssertionsHold`, `NeverForgotten`, `EventuallyRegistered` |

Runs that end in a counterexample; each is a finding (section 6): `session_working_end`
(`WorkingEndRaisesNothing`), `ports_contended` (`OwnDaemons`) and `avahi_assert`
(`CreateFindsNoRetry`).

The premises of the liveness properties say what the code does not provide for. `SessionEnds`: the
thread ends or, from some time on, waits for a port for ever. `StopEnds` and `DiskIsGivenBack`: no
session waits like that, and for `StopEnds` all clients leave. `StartReturns`: the daemon has not
ended. `ProcessEnds`: the instance's session is over. `EventuallyRegistered`: Avahi stays and
answers, nothing was lost, and the retries are not crossed (`Crossed`).

`TableConsistent`, `SizesOrdered`, `SessionsServed` and `AssertionsHold` contain the type
invariant of their modules.

### Bounds, and why they are enough

* `session_*`: five special directories, as in the code, two of them unmounted lazily. There is no
  other bound: the state of a session is finite, and requests repeat without limit.
* `requests`: three requests of a client, so that one may wait in the TLS layer, one in the buffer
  and one be handled; an image of two, four or six units, grown by two, so that it grows, grows
  again, and can no longer grow.
* `server`: two connections, two keys, in every assignment. Two connections of one client share
  its disk, two of different clients change `sessionDict` under
  each other's check and under `stop()`. A session object is used once, so connections are not
  reused. No symmetry (it is unsound for liveness). Its safety properties are proved for any number
  of connections and keys.
* `handshakes`: two honest clients and one that is not, with two sockets, so that one of them has
  to wait for a socket; two flights, so that a client has to answer the server once.
* `daemon`: two instances and two starts in all (`MaxStarts`): beside each other, after each
  other, or one restarted; three key pairs (`MaxKeys`): the one that was there, one of an
  instance, one of `syncupctl initialize` or of the other. More starts repeat what two can do to
  each other.
* `cachedir_crash`: two clients and four names. A client needs one directory, so two creations may
  be cut short. When the names are used up a client waits at the lookup: nothing else is lost, since
  the other steps do not depend on free names.
* `ports_two`: two sessions with four daemons each, one of each kind and a tunnel behind the
  process and behind the thread, as rsyncd and the file reader have (sshd is a process more), and
  six ports, fewer than the eight that both use together, so that a session is refused and takes
  released ports. `ports_contended` has two daemons and eight ports, more than enough: the
  counterexample does not depend on scarcity.
* `catfile_stop`: two bytes of length, three of name, two of header and three of data: each field
  can arrive, or leave, in at least two pieces.
* `avahi_*`: four waiting signals (`MaxSignals`). A disappearance, an appearance and a change of
  state, twice over in part, may wait together while a call sees what came after them.

Deadlock is checked in every run but `daemon`, which stops when every instance has ended and no
start is left; where a component is over (`Over`) it stutters explicitly.

### Fairness, and why the code justifies it

* `CtrlSession`: `WF(ThreadStep)`. The thread is scheduled and the commands it runs return.
  Requests are not in it: no client has to send anything. Nor is `Answer`: nobody has to come and
  listen on the port of a daemon that has ended.
* `RequestLoop`: `WF(LoopStep)`. The thread is scheduled and `select()` has a timeout of ten
  seconds. Clients are not fair.
* `CtrlServer`: `WF(MainStep)`, `WF(EndStep(c))`, and `WF(c \notin client /\ LeaveLoop(c))`:
  `select()` in the loop wakes up every ten seconds or at the end of the connection; that a
  session then does end is `SessionEnds` of `CtrlSession`. Clients are never fair, nor is a hung
  service start; `StopEnds` therefore assumes that clients leave and no start hangs, which is what
  the code depends on.
* `HandShaker`: `WF(OnEvent(c))` for each watch and `SF(Accept(c))`, since room for a socket may
  come and go: GLib dispatches the sources of equal priority that are ready in turn. Only honest
  clients send and read fairly.
* `Daemon`: `WF` of each instance's `MainStep`: the process is scheduled. No session has to end.
* `ServicePorts`: `WF` of each session thread and of each child process, which binds or ends;
  that it fails (`DaemonFails`) may happen and does not have to.
* `CatFile`: `WF(ThreadStep)`, `WF(StopStep)` (threads are scheduled, `select()` has a timeout of
  ten seconds) and `WF(SendRest)`: a client that is owed an answer reads it. Without the last, the
  thread may stay in `Timeout` steps, as it does in the code.
* `Avahi`: `WF(Call)`: a D-Bus call returns or times out; `SF` of signals and of both timers: the
  main loop dispatches them in turn, whatever arrives meanwhile. That Avahi stays is the premise
  of `EventuallyRegistered`, not an assumption.

## 4. What is proved

All theorems are checked by TLAPS to the last leaf, for all values of the constants that satisfy
the named assumptions of the modules. Every one is `Spec => []...` or a refinement, from an
inductive invariant.

**CtrlSessionProofs** (`SpecialAssumption`, `SwitchAssumption`). `TypeCorrect` gives the types.
`Inductive` proves `IInv` = types, `ControlInv` (which `pc` goes with which `ctx` and `stage`),
`ServiceInv` (only services of the current stage run, and none at the places where the stage or the
mounts change, but for what an abandoned `stop()` of the file reader left) and `WorkingInv` (mounts
and attributes occur only in "working"). The properties alone are not inductive: that nothing runs
at `dead` needs that nothing runs after `stop` on each of the paths there. From it follow
`ServicesEnd` (every service has been stopped, or `StopReader` has raised and exactly sshd and the
read-only rsyncd are left) and `UploadIsExclusive`, and `Refinement`: every step of the thread is a
step of `SessionLease` or leaves it unchanged. `StageIsSettled` adds `SettledInv` (between the steps
of a stage's start and end, what is there so far while nothing has raised) and `DeathIsClean` adds
`CleanInv` (what each step of the finally clause has already released). `ServedDisk`
(`ServedDiskIsMounted`) adds `DiskInv`: for a client that keeps the script, the disk is mounted
before a stage can be asked for, no stage is current while a failing `init` may still unmount it,
and only the finally clause unmounts it under a stage. `ServesTheServer` is a second refinement:
under the mapping `Server`, in which the session is the only connection of `CtrlServer`, every step
is one of that module's session thread, of `ClientLeaves` or of `Register`, or changes nothing
there. It needs no invariant. Its initial state is not that of `CtrlServer` but the one in which the
main thread has started the session.

**CtrlServerProofs** (`NobodyAssumption`: `Nobody` and `Stray` are no connections;
`FlagAssumption`). `TypeCorrect`, `Inductive`, `SessionsKnown` (`ActiveSessionsKnown`) and
`StopReleases` (`StopReleasesAll`). `BirthInv` says which connections have a session thread,
`DiskInv` that a disk is mounted by a session with an entry or about to get one, `JoinInv` that
while `stop()` joins, every active session is still ahead of it. `ServerKeepsTheLife` adds
`ServedInv` (a session that has not closed its connection has it). `ServerKeepsTheService`: `Close`
is possible because `stop()` has joined everybody. `ServerLife` speaks of connections, not of
clients: the server cannot tell two connections of one client from those of two.

**CacheDirProofs** (`NoKeyAssumption`, `NoneAssumption`). `TypeCorrect`, `NoSecondSystem`,
`GivenFormatted`, `SystemKept`, `RefusedByRemains`, from `KeyInv` (while the lookup scans, a
directory with the wanted key is still ahead of it, so a new one is only made where none exists),
`OrderInv` (the information file exists only after the file system), `FinishInv` (what a finished
directory holds, and how far the one being made has come) and `RemainsInv`, which adds
`OnlyRemainsRefuse` to it.

**ServicePortsProofs** (`RoleAssumption`, `PortAssumption`, `ShellAssumption`). `TypeCorrect`.
`NothingIsLeft` holds for any `Outlives`: `ProcInv` says which daemons can be touched at all.
`PortsAreOwn` (`OwnUnlessClash`) assumes nothing about how sessions are interleaved: `PortInv` says
of each session outside `clash` that the ports it has been given are given to nobody else (`Alone`)
and that what listens on them is its own (`Sound`); a port in use, even by a tunnel left over, is
not given to anybody.

**CatFileProofs** (`SizeAssumption`). `NobodyListens` and `StopIsQuiet`, from `SocketInv`, which
relates where the two threads are to what `serverSock` may be. `TypeCorrect` needs `ByteInv`: the
bytes of a request are with the client, have arrived or were received, and together are what the
current field and those after it are long; without it the counts have no bounds.

**ConnectionProofs**, on the handshake (`HonestAssumption`, `BoundAssumption`).
`TableIsConsistent` and `NoOneWaitsForEachOther`, from `HInv`, which adds to `TableConsistent` that
a connection not yet accepted is in none of the handshaker's sets (`NewIsUntouched`; else accepting
one could bring back a connection that was handed over), that what has arrived belongs to what the
handshake still misses (`ArrivedIsMissing`; else the count of missing flights could fall below
zero), and that whoever is watched for reading only has something to read (`ReadingMissesSome`,
which is `NoMutualWait` before it is known who is honest). `HandshakesKeepTheLife` maps the sets of
the handshaker to the states of `ConnLife`; it needs `HInv` and that a connection whose callback
raised stays in `sockDict` (`RaisedStay`), without which one could be served and stuck at the same
time.

On the request loop (`SizeAssumption`): `EachIsAnsweredOnce` and `SizesAreOrdered`, from `LoopInv`.
`StreamIsWhole`, a part of the property itself, says where each request is: those answered and in
`recvBuf`, those pending in the TLS layer, and those of each record that has arrived follow on each
other without a gap and end with the last request the client has sent. It says so chunk by chunk, so
that nothing has to be added up, and a step of `recv()` only has to take the first chunk
(`TakeChunk`). `HandleInv` keeps `recvBuf` from falling below zero; `SizesInv` adds to the order of
the three sizes that `enlarge()` goes on only with the disk attached, and that the file system is
only grown on a loop device as large as the image.

**DaemonProofs** (`ProcessAssumption`: instances, `syncupctl` and the marks of free ports and absent
directories are different; `BoundAssumption`). `SessionsAreServed`, `NothingIsLeftBehind` and
`KeysDoBelongTogether`. `PortInv` says who can have the port, and that a session's instance has it:
two instances cannot both have sessions because one port cannot have two owners. `TmpDirInv` says
that a temporary directory lives from the start of its instance to its last step. `LeftInv` says,
unless a process was killed, that whatever exists still has somebody who will remove it, the disk of
a session whose end raised excepted (`unreleased`). `KeysInv` says whose certificate is on the disk
while somebody writes, and that with nobody writing the two files belong together, or one is missing
and nobody has passed `CheckKeys` yet; `spoiled` marks the two ways in which that is lost.
`InstancesKeepTheService` maps the instance that has the port to the server of `ServerLife`. It
rests on `PortInv` alone: nobody else has a session (`ActiveHasPort`), and the steps of a process
without the port change nothing that clients see. A `stop()` that raised is "failed" there, until
its process ends.

**AvahiProofs** (`MaxSignalsAssumption`). `AssertionsDoHold` from `AttemptInv`: the first attempt
finds nothing, and `_createServer` registers without a group. It covers the assertions but the
three that can fail; a retry of the creation and one of the registration do not exclude each
other. `NeverIsForgotten` needs what waits
in the queue of signals. `PromiseInv`: whatever server object there is, something is under way
that leads to the registration: a timer, a call, or a waiting signal. `OrderInv`: a waiting signal
of bad news is followed by the good news if that is how things are now, so that dispatching the
first does not lose the promise; the exception, `Orphan`, is the state change of an Avahi that
went before syncupd watched it, whose end waits in the queue as well. `StartInv` says what cannot
be there before `start()` is through. Each is proved once for signals that are added
(`NotifyAppends`) and once for the first being taken (`DispatchTakes`).

## 5. What is only model-checked

Liveness (`SessionEnds`, `PoliteIsAnswered`, `SpaceIsRelieved`, `StopEnds`, `DiskIsGivenBack`,
`HonestFinishes`, `ProcessEnds`, `StartReturns`, `StopReturns`, `RequestIsSettled`,
`EventuallyRegistered`): the prover does not handle fairness and `ENABLED`. Every safety property
of a passing run is proved. The findings are counterexamples on small instances, which is all they
need.

Some results are proved and are not properties of a run: that a file reader that is over has given
up its socket (`NobodyListens`), and the five refinements by which modules agree on each other,
listed in section 2.

## 6. Findings

1. `session_working_end`: `_workingStageEndHandler` ("should raise no exception") raises after
   every failed `prepareRoot`, because `unPrepareRoot` runs a second time. The finally clause then
   fails in the same place and the session's entry, socket and disk are never released.
2. `ports_contended`: two sessions that start services at the same time may pick the same port;
   the second is satisfied with the daemon of the first, and its client uploads into the other
   client's image.
3. `avahi_assert`: a signal of an Avahi that has come back may be dispatched before a server
   object exists; the registration fails, its retry is set, and the assertion at the head of
   `_registerService` then fails in `_createServer`, which takes that for a failure of its own and
   retries too. With an Avahi that stays, the two retries go on like that for good (`Crossed`):
   `EventuallyRegistered` without that alternative is violated.

Further facts shaped the models without a run of their own:

* `onHandShakeComplete` means to turn away a client that has a session, but the comparison of
  line 64 is never true: pyOpenSSL's `PKey` objects define no equality. Two sessions of one client
  run on the same system; the files of their services, such as `<uuid>-stunnel.conf`, have the same
  names (`CheckPasses`; no property of any run assumes that clients have one session each).
* After a failed `accept()` the file reader drops its socket (`catfiled.py` 239) while `stop()` is
  between its test of `serverSock` and its use (117-118), and `stop()` raises. In the end handler of
  "working" ("should raise no exception") that skips everything else: the rsync and ssh services
  are not stopped, and in the finally clause the entry, the socket and the disk stay (`StopReader`
  of `CtrlSession`). `StopRaisesOnlyAfterFailure` says that nothing else makes `stop()` raise.
* `_finiHandler` ("should raise no exception") raises when it runs a second time after a failed
  `init`, since `unmount()` does not reset `loopDev` (`gbs_common.py` 198): the session's entry and
  socket are never released.
* When Avahi appears while a retry of `_createServer` is pending, the assertion at the head of
  `_createServer` (`gbs_util.py` 379) fails out of the callback (`OwnerAsserts`); syncupd is
  announced by the retry only.
* The first loop of `stop()` iterates over the live `sessionDict` although the comment on the
  second loop knows that sessions remove themselves (`gbs_ctrl_server.py` 38):
  `ShutdownInterrupted`, and `CtrlStop` of `Daemon`.
* A directory left without a key file makes the lookup raise for clients that were served before
  (`gbs_common.py` 136). `OnlyRemainsRefuse` says that nothing else does.
* A file request whose length arrives before its name is dropped (`catfiled.py` 184):
  `RequestIsSettled` counts that as settled.
* The server accepts `stage-syncup` without `init`; the upload then goes into the directory below
  the mount point (`ServedDiskIsMounted` holds for the example client only).
* `waitTcpPort` (`gbs_util.py` 73-83) tries the port until somebody listens, also when the daemon
  has ended, whatever the reason: the session thread then neither notices that its client has left
  nor that the daemon is stopping (`waitPort`, `hung`, `Hangs`).
* A tunnel survives the `stop()` that terminates its shell (`Outlives`): it keeps its port and
  connects whoever comes to the port of a daemon that is gone, and which another session's daemon
  may be given later.
* A handshake that fails leaves its entry and its socket for good, and there is no timeout for one
  that never ends (`raised`, `StuckOnlyAfterRaise`).
* A second request in one record waits for the next byte of the client (so `PoliteIsAnswered` is
  about clients that wait for their answers); a record that has arrived in part ends the session.
* A disk whose loop device `mount()` does not find, and cannot unmount again, stays mounted with
  no session knowing of it (`Stray` of `CtrlServer`): its session may end regularly.
* A session whose finally clause raises may leave its disk mounted for the instances after it, and
  its entry may make `stop()` raise (`EndFails`, `stale`).
* A killed daemon's disk stays mounted: the next instance refuses its client until somebody
  unmounts it. A second instance clears and removes the run directory and the pid file of the
  first. A pair of key files that was cut short is used for ever after (`spoiled`). A start fails
  while connections of an earlier instance wait to expire (`port = "waiting"`).
* Changes of Avahi in the windows listed under `Avahi` above are never noticed, and a group that
  ends in FAILURE is never registered again.

## 7. What is not modelled, and why

* `prepareRoot` and `unPrepareRoot` on `/var`, `/var/tmp`, `/root` and `/lost+found`: their
  effects on the session are failures of `prepareRoot`, and those are modelled. What the error
  path does to the client's `/var/tmp` (`gbs_common.py` 281) is data of the image.
* `syncupctl show-clients` only reads; what it can meet are the states of `CacheDir`. The contents
  of the client information have no control flow.
* The number of connections that rsyncd serves (`max connections = 1`, against the probe of
  `gbs_util.py` 74), and rsync, sshd, stunnel and the shell a client gets: outside `src/`; only
  their ports and their life are modelled, as far as the code depends on them.
* The command line. `--port` is kept as a string, with which `bind()` raises: a failing `Bind`.
* Plugins are separate packages: their callbacks are modelled where the code calls them.
* The example client's work over the services (rsync, ssh): only its requests and its reaction to
  error answers are modelled.
* File helpers of `GbsUtil`: one-shot, sequential, without state.
* The integration tests call an interface the source no longer has; build scripts and the systemd
  unit are not part of the running system.

## 8. What could come next

The model covers every component with control flow of its own, and every safety property of a
passing run is proved for all instances. Two interfaces are left without a refinement: between
`CtrlSession` and `ServicePorts` (a service start is one step in the first and a race for ports in
the second, where it may succeed with somebody else's daemon, finding 2, and where what `stop()` has
stopped may still run), and between `CtrlSession` and `RequestLoop` (what a request does, and that
one is handled at a time). The liveness properties need a prover that handles fairness.
