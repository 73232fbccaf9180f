# TLA+ models of the replicated block store

The system is a block store with two servers, a primary and a backup, and a
client library. This directory holds TLA+ models of the servers and clients, the
TLC configurations that check them and the proofs about them for TLAPS. `PROJECT.json`
lists the components, the runs, the mutants, the source lines of every
definition, the findings, the hazards and the theorems.

## The system

| component | state | operations | talks to |
|---|---|---|---|
| `FileStorage` | one file, `mtx` | `init`, `write_data`, `read_data` | called by all RPC handlers and by the sync thread |
| `PairedServer` (both servers) | `repl_state`, `stateMutex`, `recovery`, `recoveryMutex` | `Recover`, `TriggerSync`, `BeginSynchronization`, `SyncBlock`, `FinishSync` | the same code at the other server |
| `ReplicationModule` | `dirtySet`, `dirtyVec` | `MarkDirty`, `ClearDirty`, `TryPerformSync`, one `TrySend…` per RPC, `PingOnce` | the other server |
| `PrimaryServer` | | `Write` with `BackupIfPossible`, `Read`, `Heartbeat` | `BackupWrite` at the backup |
| `BackupServer` | | `Write`, `Read`, `BackupWrite`, `SafeSetState`, `HandlePartnerRecovered` | |
| `HeartbeatHelper` | `iter` | `Start` (a thread), `HeartbeatOnce` | `Heartbeat` at the primary |
| `server.cc`, `run-*.sh` | | start states, storage init, restart loop | |
| `Crash.cc` | `crash_flag`, a sentinel file | instrumented crashes | |
| client library (`client.cc`) | `use_backup` | `Read`, `Write`: retry, alternating servers; test programs, benchmark | both servers |
| older clients (`client_basic.cc`, `client/client.cc`) | | `Read`, `Write` without retry; a test program | one server |

In normal operation the primary answers clients and sends each write on with
`BackupWrite`; the backup sends heartbeats. A server that finds the other gone
(a failed `BackupWrite` or heartbeat) becomes `Standalone`, answers clients
alone and collects the addresses written in its dirty list. A server that
restarts is `Recovering`: it draws a sync id and sends `TriggerSync`; the other
server (the *helper*) starts a sync thread that sends a `SyncBlock` per dirty
entry and, with its lock held, `FinishSync`; then both are `Normal`, and the
backup starts a new heartbeat loop.

What is hard in it: handler threads, sync threads, heartbeat loops and Recover
run concurrently on both servers; locks are given up around calls; a call may
be executed and its answer lost; threads of an abandoned attempt, or of a dead
incarnation of the partner, are still at work during a new attempt; either
server may crash at any step. `PROJECT.json` lists these hazards line by line.

Clients may be many.

What makes each component correct: the storage must return the block last
written whatever the threads and restarts do; a recovery must deliver all that
was written meanwhile and hand the service over without a gap; at most one
server may answer clients, as long as each judges the other by the state it is in;
the loss of a server must be noticed; and after all
crashes the service must come back. To a client the pair is to look like one
block store: a call takes effect once, at one moment before it returns, and what
has been acknowledged stays.

## The modules

**`FileStorage`** is the file at the level of bytes, because what the file
holds depends on them: the stream is opened in a mode that truncates, and both
directions use `strcpy`. A call has two steps, up to the opening of the stream
and the rest, with `mtx` held between them. `Garbage` is an uninitialised byte.
A block that has no NUL is copied on past the end of its source and of its target, as
far as the bytes there happen to go: `overrun` says that this has happened
(`CopyPast`). What it does to the process is undefined, and the properties are
about executions in which it does no harm. `Restart` is a crash at any point
followed by `main`.

**`Resync`** (with `MCResync`, which adds the symmetry sets) is the recovery
protocol between a helper that stays up and a partner that crashes and
restarts. `role` says which server the helper is, either of the two; it changes the
write handler: the primary's `Write` holds no lock while it stores, the backup's
holds `stateMutex` shared throughout. When the primary is brought back the backup's
heartbeat loops are there too: a heartbeat that is refused or lost
(`HeartbeatFails`), a loop that finds itself replaced (`HbReplaced`), and the change to
`Standalone` (`HbGivesUp`), for which the loop has to wait for the lock. `hasty`
remembers that a recovery timer has fired while the sync thread of its attempt was at
work. Each handler is cut where the code gives
up a lock or waits for an answer: `TryPerformSync` is `NextEntry`, `SendBlock`,
`BlockAnswered`, `SendFinish`; the partner's handlers are `SyncBlock` and
`FinishSync`. A call in flight is the program counter of its caller with the
epoch of the partner it was sent to; when that epoch is over the call fails,
also after it has been executed. `MarkDirty` under the shared lock takes two
steps, since the lock does not keep two handlers apart. Blocks are the numbers
of the writes; the storage has the truncation of `FileStorage`.

**`PairedServers`** has both servers as processes: states, locks, recovery of
either by the other, heartbeat loops, `BackupWrite` calls, crashes, restarts
and the `exit(1)` calls (`events` remembers them). Data is left out: the loop
over the dirty list is one step, which `Resync` has in detail. It ends in
`FinishSync`, sent with the lock held and whatever the partner is doing (`SendFinish`),
since an empty or exhausted list makes no call that could fail; or in a `SyncBlock`
that fails (`SyncRejected`). `events` also remembers that a server has been
*misjudged*: the other one has put itself in `Standalone`, on a failed call or on a
late `TriggerSync`, while this one was in service. A sync id numbers an attempt, its sync thread and the heartbeat loop its
success starts. A thread is a record of where it is and which incarnation of
the other server its call was sent to. A call whose caller has died is an
orphan: it may still be handled, and nobody waits for the answer.

**`Clients`** puts data and clients on top of `PairedServers`: every action of
`PairedServers` is taken up with what it does to the storage file, the dirty
list and the crash flag of the server, and the actions `Begin`, `CallFails`,
`SwitchNodes` and `Receive` are the retry loop of `BlockStorageClient`, with
the `Read` and `Write` handlers between them (`ReadBlock`, `StoreBlock`,
`Replicate`, `StandaloneWrite`, `Replicated`, `GiveUpBackup`). The crash points
and the sentinel file are part of the handlers they are compiled into. What the
clients call is the `scenario`: free use of one block, the benchmark
(`readWriteBenchmark`), the test programs `seq0` to `seq5` of
`client-consistency/client.cc`, the older `seq1` of `client/client.cc`, or a sequence
(`demo`) that makes a server crash as it recovers. The file keeps only the block last written
(the truncation that `FileStorage` shows), and a sync leaves the block of the
last dirty entry at an arbitrary address (the index that `Resync` shows).

**`SyncIds`** is the same recovery when sync ids repeat. `Recover` seeds `rand()`
with the time in seconds, so starts within one second draw the same ids, and a
sync thread begun for an earlier start passes for the current one. A thread is
known by the start and the draw it was asked for with, its id is the draw. The
test of the state and the counting of a block in `SyncBlock` are two steps
(`CheckState`, `CommitBlock`). Blocks have no contents here; an entry is its place
in `dirtyVec`.

**`BlockStore`** is the abstract specification, what a client may rely on for one
block: a register whose calls take effect at one moment between their beginning
and their return. When the server that serves fails, the register may fall back
to an earlier write, but not to one that an acknowledged write has replaced;
calls that had taken effect are done again, or are *doubtful*: their answer may
have got through.

**`Replication`** has many clients on a pair that is `Normal`, and one block: the
path of a write through `PrimaryServer::Write`, `BackupIfPossible` and `BackupWrite`,
cut where another handler can come in between, the test of the state and the
write of `BackupWrite` included. The program counter of a client is the place
its call is at, on whichever server. Either server may crash; when it is the
primary, its `BackupWrite` calls become `late` and still arrive, even after the
backup has taken over. Recovery is left to the other modules. `Atomic` says that it
implements `BlockStore`, under this mapping:

| `BlockStore` | `Replication` |
|---|---|
| `value` | the primary's block while it is up, then the backup's |
| `failing` | no server answers clients: the primary is down, the backup not `Standalone` |
| `call[c].pc` | `sent` is `pending`; once the server that serves has stored or read the block, `done`; an answer of a server that is gone is `doubtful` |
| `begun`, `acked`, `before` | the writes begun and returned, and which had returned when a write began |
| `Fail`, `Resume` | the crash of the serving server, the take-over |
| `Lose` | a late `BackupWrite` that is stored before the take-over |
| `Redo` | a client that sends an answered call again |

**`FileStorageProofs`**, **`ResyncProofs`**, **`PairedServersProofs`**,
**`ClientsProofs`**, **`SyncIdsProofs`** and **`ReplicationProofs`** prove properties of the modules they are named after.
**`HandoverProofs`** extends `PairedServersProofs` by who is in service during and after a recovery,
and **`CrashPointProofs`** extends `ClientsProofs` by the test programs.

### Assumptions that the constants name

* `Prompt = FALSE` in `PairedServers` puts no limit on the length of calls and of thread delays.
  `Prompt = TRUE` assumes two things: the recovery timer, which each block received renews
  (10 s, PairedServer.cc:181), fires only once the sync thread of the attempt is over, and
  a request dies with its sender. Nothing is assumed about handlers: with either value a heartbeat or a
  `BackupWrite` that a recovering server has refused may be acted upon after the hand-over,
  since the code has nothing against that. `Clients` assumes `Prompt`, so that a `BackupWrite` does not
  outlive the client call it belongs to. `Resync` has no such constant: delays are of any length there.
* `Prompt` in `Replication` says
  only that no `BackupWrite` of a dead primary is between its test of the
  state and its write at the moment the backup takes over; others may arrive as
  late as they like.
* `OneAtATime = TRUE` is the fault model of `report.pdf`: a server crashes only
  while the other one is `Normal` or `Standalone`.
* `rand()` for sync ids is taken to be fresh at each attempt, but for `SyncIds`.
* A call ends in its answer or in a failure; it fails only if the server it was
  sent to has died. There is no partition.

## The runs

Runs that pass:

| run | checks | instance |
|---|---|---|
| `FileStorage` | `TypeOK`, `ReadReturnsLastWrite`: a read completed at the offset last written returns that block, never the emptied file | 2 threads, blocks of 2 bytes, 3 offsets (equal, overlapping, disjoint), 2 writes, 1 restart |
| `Resync` | `TypeOK`, `OnlyCompleteRecoveries`, `CountsAgree`, `DirtyKeptUntilDelivered`, `HandoverWaitsForWriters`, `SyncInOtherModeIsStale` | either server as helper, any delays, 2 addresses, 2 writers, 2 attempts, 2 starts, 2 writes |
| `PairedServers_slow` | `TypeOK`, `SplitOnlyByMisjudgment`, `Watched`, `BackupTakesOver` | any delays, crashes at any time, 3 attempts, 1 crash of each server |
| `PairedServers_prompt` | `PartitionOnlyByMisjudgment`, `RecoveryFindsHelper`, `LocksNeverCross`, `ServiceResumes` | `Prompt`, `OneAtATime`, restarts, 4 attempts, 2 crashes of each server |
| `Clients_blocks` | `AckedWriteServed`, `ReadsOwnWrite` | one client, 3 calls on one block or the benchmark on two, a crash of each server at any point, 3 attempts |
| `Clients_tests` | `CTypeOK`, `OnlyNamedCrashes`, `CrashesHidden` | all test programs, one iteration, and `demo`; crashes at the crash points only |
| `Replication` | `TypeOK`, `NoStaleBlock`, `MissedWritesMarked`, `CallsReturn`, `Atomic` | 2 clients, 4 writes and any number of reads, a crash of either server and late calls |
| `SyncIds` | `EveryEntryReceived` | 3 starts, up to 2 attempts each and 3 in all, 3 addresses marked |

`ReadReturnsLastWrite` is about one run of the process (a restart empties the
file, below) and about a block up to its first NUL, which is what the two `strcpy` calls carry;
of a block without a NUL it is the whole block.

`DirtyKeptUntilDelivered` has two exceptions. One is that the partner has confirmed the list;
the other is what the code gets wrong: two handlers that overlap in `MarkDirty`
(`Overtaken`), under a lock that does not keep them apart, put back a list
without the other's entry. The property says that nothing else loses an entry.

`SplitOnlyByMisjudgment` and `PartitionOnlyByMisjudgment` have the same form: a failure handled too late
leads to a split brain and to exits that blame a partition, and *only* that does. The first
holds whatever the delays. The second needs `Prompt`, as do `RecoveryFindsHelper` and
`LocksNeverCross`: a recovery timer that fires during a sync lets a `Normal` server start one more
attempt (PairedServer.cc:181). `RecoveryFindsHelper` also needs `OneAtATime`, because two
crashes close together leave nobody, which is what the exit is for. `ServiceResumes` has no
exception: with the restart scripts some server always answers again, misjudged or not.
The invariants of `PairedServers_prompt` other than `RecoveryFindsHelper` also hold with crashes of both
servers at any time (85,157 states).

`AckedWriteServed` is about the servers
in `whole`: those that have not crashed, or whose file was the same as their
helper's when they were brought back. Of the others nothing can be said, since a
restart zeroes the file and the sync does not bring back what was in it; so the
property says that failover itself loses nothing. It, `ReadsOwnWrite` and `OnlyNamedCrashes` also
have the condition that no server has been misjudged. It is needed: after an outdated heartbeat the backup answers
next to the primary, and a write acknowledged by one of them is not on the other
(`AckedWriteServed` without the condition fails after one crash, in 20 steps).
`CallsReturn` is about calls as long as there is a server: a late `BackupWrite` makes
a backup in `Standalone` exit (BackupServer.cc:150-153), and then there is none.
`EveryEntryReceived` is about recoveries in which at most one sync thread of an
earlier start has a part; with two of them it fails, below.

The bounds: two addresses are the least with which an entry can be confused
with its neighbour and a list can grow while it is sent; two writers the least
that collide in `MarkDirty`; two starts and two attempts give a sync thread
of a dead incarnation, or of an abandoned attempt, next to the current one; with three attempts,
which give both at once, the invariants of `Resync` hold as well (6.4 million states, more than
a run should take). In `PairedServers`
two crashes of each server let either recover the other, and be recovered, in
both orders. With any delays one crash of each is what fits the time, and the
three attempts still give two old sync threads next to the current one. Three
calls give a client a write, a second write in the middle of which a server
crashes, and a call after it. A test program repeats itself ten times; with
two rounds the invariants of `Clients_tests` hold as well (1,462,882 states), which
is left out for the time its liveness property takes. In `Replication` four writes of
two clients let a write replace an acknowledged one on either side of the
take-over while another is doubtful; two clients are the least whose
`BackupWrite` calls overtake each other. In `SyncIds` three starts are the least that leave two old threads, and three entries
make a repeated one and a missing one possible next to one in order; the property
also holds for four starts with one attempt each (19,011,220 states) and for four
attempts over three starts with two addresses (5,710,209).

`CHECK_DEADLOCK FALSE` is in every configuration but those of `Replication`, where a
client can always call again: the other behaviours end at the
bounds, and a system without clients or crashes has nothing left to do. That
threads do not wait for each other is the business of `LocksNeverCross`
and `ServiceResumes`.

Runs that TLC must find violated, each a sentence of the repository that the
code does not keep (the `findings` give the lines):

* `Resync_FilesIdenticalAgain`: `dirtyVec[i]` is sent after `i++`, so blocks go
  to the wrong address; this takes one write and one sync.
* `Replication_ReplicasAgree`: nothing orders the `BackupWrite` calls of two
  requests, so two acknowledged writes leave the two `Normal` servers with different
  blocks, for good (PrimaryServer.cc:98). Neither block is stale, which is what
  `NoStaleBlock` and `Atomic` say.
* `PairedServers_NoPartitionSuspected`: the recovering primary refuses a heartbeat; its loop waits for the
  `stateMutex` that the backup's sync thread holds around `FinishSync`, and then makes
  the backup `Standalone` next to a `Normal` primary (HeartbeatHelper.cc:63-70,
  BackupServer.cc:50-53). The next `BackupWrite` makes the backup exit and blame a
  partition. One crash and prompt calls are enough; the same happens to a refused `BackupWrite`
  (PrimaryServer.cc:129-134).
* `Clients_CrashesAsPrinted`: `seq3` ends without a crash of the backup, as no server tests
  `CRASH_BACKUP_AFTER_BACKUP` (BackupServer.cc:145). Taken one by one, `seq0`, `seq1` and `seq2` crash
  the server they print; `seq4` and `seq5` ("once, then again as it recovers") crash it
  once, because the sentinel needs `crash_flag`, which they set one call too late
  (PrimaryServer.cc:104-109, client.cc:268-271); the older `seq1` ("Crashing primary after
  write") crashes nothing, as its write of the target is commented out (client/client.cc:155).

Seen with the same models, and not kept as runs. Where a property is named, it is a
definition of the module (its comment begins with "Not so"), and TLC refutes it under
the constants given:

* A write truncates the file, so that only one block survives (FileStorage.cc:57;
  `EveryBlockKept` under the constants of `FileStorage`).
* A block without a NUL byte, which is what the clients send, is copied past the end of the
  buffers (FileStorage.cc:58 and 80; `CopiesFit`), and one with a NUL is cut there, where
  README:94 promises 4 KB blocks.
* With a recovery timer that fires during a sync the two servers can hold their locks, each
  with a `FinishSync` to the other under way, for ever: an empty dirty list makes no call that
  would tell a sync thread that it is outdated (ReplicationModule.cc:140-163;
  `LocksNeverCross` of `PairedServers` with `Prompt = FALSE` and 3 attempts, and `NoDeadlock` with 4).
  With the same constants `PartitionOnlyByMisjudgment` and `RecoveryFindsHelper` fail.
* A reader gets a block that only the primary has stored so far; the primary crashes,
  and the reader's next read, from the backup, returns the block before it
  (PrimaryServer.cc:76; `ReadsNeverGoBack` of `Clients` with a reader and `blocks`). This
  is the fall-back of `BlockStore`.
* A late `BackupWrite` that has passed the test of the state stores its block after
  the take-over, over an acknowledged newer one (BackupServer.cc:139;
  `NoStaleBlock` and `Atomic` of `Replication` with `Prompt = FALSE` and 2 writes).
* Two sync threads of earlier starts can send one entry twice, and a `FinishSync` is
  accepted with another entry missing (PairedServer.cc:165; `EveryEntryReceived`
  without its condition on `Leftover`, for three starts). After a restart within the
  second a block of an earlier start is stored by a server that has just become `Normal`
  (PairedServer.cc:109; `StoredWhileRecovering`, for two starts).
* `main` zeroes the file at every start (server.cc:119), where FileStorage.cc:20
  speaks of the first start.
* A known address written again while its older block is being sent is not appended
  again, and its block is not sent (ReplicationModule.cc:75;
  `RewrittenBlockSentAgain` of `Resync`, two writes).

That a recovery ends with both servers in service is checked in `PairedServers` (`ServiceResumes`: some server
answers) and `Clients_tests` (`CrashesHidden`: both are `Normal` for good unless one has been misjudged). A property
of `Resync` that both end `Normal` would be false: a heartbeat, or a `BackupWrite`, refused during the
recovery may make the helper `Standalone` after it, and it stays so until the other one restarts.

### Fairness

`FairSpec` assumes what the operating system and gRPC give: threads that can
run are scheduled and calls end. This is weak fairness of each thread's steps; none needs more, since the
attempts are bounded and a lock is in the end left alone. Crashes and client requests
are never forced. `Start` is fair in `RestartSpec` only, where it
stands for the `while true` of `run-primary.sh` and `run-backup.sh`; it is not
in `FairSpec` of `PairedServers`, so that `BackupTakesOver` does not rest on a
restart. `CSpec` is `RestartSpec` with the client's steps: a call that has begun
goes on, a test program does not stop half-way, and the thread of `crash_after`
gets to its end. `CrashesHidden` needs all of it.
In `Replication` `TakeOver` is fair because the heartbeat loop runs.

## The proofs

Every theorem holds for all values of the constants that the named assumption of its module
admits; a condition beyond that is given with it. The inductive invariants were checked with
TLC, as invariants of the runs, before they were proved.

| module | theorem | property | under |
|---|---|---|---|
| `FileStorageProofs` | `TypeCorrect`, `ReadsAreWhole` | `TypeOK`, `ReadReturnsLastWrite` | |
| `ResyncProofs` | `TypeCorrect`, `RecoveriesComplete`, `CountsMatch` | `TypeOK`, `OnlyCompleteRecoveries`, `CountsAgree` | |
| | `HandoverSafe`, `StaleOnly`, `DirtyKept` | `HandoverWaitsForWriters`, `SyncInOtherModeIsStale`, `DirtyKeptUntilDelivered` | |
| `PairedServersProofs` | `TypeCorrect`, `AlwaysWatched` | `TypeOK`, `Watched` | |
| `HandoverProofs` | `OneServer` | `SplitOnlyByMisjudgment` | |
| | `NoFalsePartition`, `NoCrossedLocks` | `PartitionOnlyByMisjudgment`, `LocksNeverCross` | `Prompt` |
| | `HelperFound` | `RecoveryFindsHelper` | `Prompt`, `OneAtATime` |
| `ClientsProofs` | `ClientTypeCorrect`, `AckedServed`, `OwnWriteRead` | `CTypeOK`, `AckedWriteServed`, `ReadsOwnWrite` | (`Clients` assumes `Prompt`) |
| `CrashPointProofs` | `NamedCrashes` | `OnlyNamedCrashes` | `MaxDeaths = 0` |
| `SyncIdsProofs` | `EntriesReceived` | `EveryEntryReceived` | |
| `ReplicationProofs` | `TypeCorrect`, `MissedWritesOnList` | `TypeOK`, `MissedWritesMarked` | |
| | `AckedWritesLast`, `AtomicRegister` | `NoStaleBlock`, `Atomic` | `Prompt` |

### FileStorage

`ReadReturnsLastWrite` compares what a call returns with a write that may be long past, so
the invariant has to say what is in the file meanwhile: `LastIsThere` (when no write is
under way, the file is what the last write of this run leaves), which needs `Exclusive` (a
call under way holds `mtx`) and `RunsPast` (no write is of a run to come, so none counts
after a restart). `ReadBack` is the lemma about the bytes: what `write_data` leaves at an
offset is, read back through both `strcpy` calls, the block given up to and with its first NUL.
`TypeCorrect` is what `mtx` is for: a call under way holds it, so nobody meets the emptied file of another.

### Resync

The theorems hold for any number of addresses, writers, attempts, starts and writes, for any
delays and with either server as the helper. They rest on `Invariance`:
`Spec => []IInv`, where `IInv` is inductive and says, besides `TypeOK`:

* `Ids`: the attempts drawn, the pending triggers, the sync threads and the
  current `recovery.sync_id` are in step: nothing exists for an id that has not
  been drawn, and an id has either a pending trigger or a thread;
* `Locals`: what the local variables of a thread hold at each program point;
* `Held`: a thread between `SendFinish` and its answer holds `stateMutex`, and
  nobody else does, neither exclusively nor shared;
* `Settled`: while the lock is so held, the dirty list is as long as the index
  the thread has reached, so nothing is added to it behind its back;
* `Counted`: `got` is exactly `1..blocks_received`, and the current thread's
  index is that count or, with a block under way, one more;
* `Covered`: no thread's index is beyond the dirty list.

`OnlyCompleteRecoveries` needs all of them: `FinishSync` succeeds for the thread
of the current id, whose index is the count received (`Counted`) and the length
of the list (`Settled`, because of `Held`). The invariant is not obvious because
older threads, with indices of their own, go on after a crash: they never reach
`recovery`, which `Ids` says. `TypeStep`, `IdsStep`, `HeldStep`, `SettledStep`,
`CountedStep` and `CoveredStep` are the preservation lemmas, one case per action.

`CountsMatch` is `Counted` read at the other end: a `FinishSync` of the current attempt carries the count
that the server has, so none is refused for it.

`StaleOnly` adds `Rounds` to `IInv`: as long as no timer has fired during a sync (`~hasty`, the condition of
the property), `Recover` draws a new id only when nothing of the last attempt is left, so no
thread of the current attempt is at work once the server is `Normal`.

`DirtyKept` adds `ListKept`: a thread that has been told of the success has gone
through the whole list, and a handler about to append has the list as it is or has been overtaken
by another one, which is the case that the property names.

### PairedServers

`PairedServersProofs` needs no assumption on delays or on the order of crashes. Its `IInv` adds
two facts to `TypeOK` and `Watched`: ids are handed out in order (`IdsInOrder`), so a
thread or heartbeat loop of an id begins once; and the server that runs a sync thread is
`Normal` or `Standalone` (`HelperInService`), so it does not itself recover.
`Watched` is kept because the loop that replaces the one that gives up is
started in the step that makes the backup `Normal`.

`HandoverProofs` goes on from there in three steps, each with an invariant of its own.

`HInv` holds whatever the delays and the crashes, and gives `OneServer`:

* `LockHeld`: a sync thread at its `FinishSync` has the lock of its server, so that this one
  answers nobody meanwhile;
* `Exclusive`: of two sync threads of different servers one is stale; `OrphanStale`: so is a
  `FinishSync` that has survived its sender;
* `CallersInService`: heartbeats and `BackupWrite` calls have callers in service, so a failure
  that is acted upon makes a server `Standalone` that was in service already;
* `Alone`: next to a `Standalone` server the other one is in service only for the moment
  between its success in `FinishSync` and the helper's answer, when the lock is held. Unlike the others it
  holds only until a server is misjudged. That it is kept is the content of the theorem: every step other than a
  misjudgment keeps it, a `FinishSync` of an old thread or incarnation included.

`PInv` adds what `Prompt` gives, for `NoFalsePartition` and `NoCrossedLocks`: no call survives its sender (`NoOrphans`),
where `Recover` is follows from the state of its server and the thread of its attempt (`RecoverInStep`,
`TriggerInStep`), and sync threads run at one server only (`RunOneWay`). The last is what a timer that
fires during a sync breaks, and then the locks can cross.

`FInv` adds the fault model, for `HelperFound`: one server is always in service (`OneGone`) and a `TriggerSync` has not
lost its receiver (`TriggerCurrent`), unless one has been misjudged.

### Clients

`ClientsProofs` proves that no acknowledged write is lost in a failover (`AckedServed`) and
that a program reads back what it wrote (`OwnWriteRead`), for any scenarios, readers, rounds,
attempts and crashes, whether or not a server crashes only while the other is in service. The
one writing client is part of `ClientsAssumption`: with two there are the orders of
`Replication_ReplicasAgree`.

The servers are not proved about again. `ServerSteps` says that each step of `CNext` is a step
of `PairedServers`, a process that dies, or no step of the servers at all; a process may
also die by a crash point, which `Crash` of `PairedServers` with its bound does not cover.
So `ServersInv` carries `PInv` of `HandoverProofs` over. To it `TInv` adds `CTypeOK` and `Calls`, which
always hold:

* `Calls`: where a call can be, and that only the writing client stores.

The rest, `Data`, holds as long as no server has been misjudged, which is the condition of both
properties; `DInv == TInv /\ (Misjudged \/ Data)` is inductive. `Data` says:

* `Numbered`: no block is newer than the write under way or, when there is none, the last
  one that was acknowledged;
* `Stored`: while a write waits for its answer its block is on the primary, which is in
  service; and once `BackupWrite` has succeeded on the backup too;
* `WholeInService`: a server in `whole` has not lost the service;
* `LastWritten`: every server in `whole` has the last acknowledged write, or the one that is
  being answered. Of the two properties this is the core: it is kept when a write is
  answered because of `Stored` if the backup took the block, and because the backup is not in
  service, hence not in `whole`, if it was given up. The last step is where `Alone` is used, and
  what a misjudged backup breaks;
* `WrongReads`: a read that got something else came from a server that is not whole, and which
  stays so while the answer is on its way. `ReadBlock` takes the block, `ReadsOwnWrite` looks
  at `whole` until the answer is received: a server brought back whole in between would
  refute it. It is not, because a primary that has come back meanwhile has nothing but
  zeros, and an acknowledged write is not zero;
* `DirtyAtBackup`: the backup has a dirty list only in `Standalone` and while the writing client
  stays with it, so a sync gives such a primary no blocks.

`Calls` and the parts of `Data` were checked with TLC before the proof, on more than four million states,
without going through all of them.

### The test programs

`NamedCrashes` is `CSpec => []OnlyNamedCrashes`, for any number of rounds and recoveries, and
whether or not a server crashes only while the other is in service. It assumes `MaxDeaths = 0`,
as in the run `Clients_tests`: servers crash at their crash points only, since a crash at any
other moment may hit either server and makes the property meaningless. To `TInv` and
`PartitionOnlyByMisjudgment` the invariant `NInv` adds, until a server is misjudged:

* `Beginning`: until the first call no server has crashed, nothing can make one crash, and a backup
  that recovers at the start finds the primary;
* `Spared`: the server that is not named has no flag, no doomed process and no sentinel, and is in
  service from the first call on. This is what could be wrong: the call that arms the backup is
  stored at the primary first, and a call that has crashed the primary is sent again to the backup.

`DeathReasons` goes through every way in which a process can end: the crash points, which an unarmed
server does not reach; the exits of `Recover` and `TriggerSync`, which a server in service does not
take; and those that blame a partition, which follow a misjudgment.

### SyncIds

`EntriesReceived` is `Spec => EveryEntryReceived`: when starts of the partner draw the same ids,
a recovery with at most one leftover thread in it still ends only with every entry received.
The invariant describes what each thread has had received in the current attempt as a run
of entries without gaps: that of the current thread begins with the first entry
(`FromFirst`), that of any other ends with the entry the thread has reached (`UpToLast`). Each
block counted is another one (`Counted`), and around `FinishSync` the list does not grow
(`Held`). `FinishSync` succeeds when the number of blocks is the entry reached, n, which is
at least the length of the list. If the current thread sent it, it has had all n received.
If a leftover thread sent it, an entry x that nobody sent lies above the run of the
current thread and below that of the leftover one, and these are at most (x-1) + (n-x)
blocks, fewer than n (`Gap`). With a second leftover thread the runs may overlap, and the
count proves nothing.

### Replication

`ReplicationProofs` proves, for any set of clients and any number of writes,

* `TypeCorrect`: `Spec => []TypeOK`,
* `MissedWritesOnList`: `Spec => []MissedWritesMarked`, by the invariant `Marked`: a write
  is answered, or about to be, only if the backup has stored it or it is marked,

from `ReplicationAssumption` only, and, assuming `Prompt`,

* `AckedWritesLast`: `Spec => []NoStaleBlock`,
* `AtomicRegister`: `Spec => Atomic`, that is, `Replication` implements `BlockStore`.

The inductive invariant `IInv` of the last two says, besides `TypeOK` and `NoStaleBlock`:

* `Numbered`, `Own`: writes are numbered as they begin, one under way belongs to one
  client and has not returned;
* `Paired`: at most one server is `Standalone`, and the other one is then down;
* `LateWaits`: until the take-over the writer of a late block still waits for its
  answer, so its write is not acknowledged; afterwards no late block is stored. This
  is where `Prompt` is used, and what fails without it;
* `Replaced`: a write has replaced everything older at the primary once it has been
  stored there, and at every live server once it is answered.

`NoStaleBlock` is not inductive without them: it is about acknowledged writes, and what
makes `Return` keep it is what `Replaced` has said of the call since it was answered.
The refinement adds `Stored` (what a server holds has been written) and
`Answered` (a backup answers nobody while its primary is there), and maps each step to a
step or a stutter of `BlockStore`: `RegisterStep`, with `FailStep` for the two ways in which
nobody is left to serve.

### Only model-checked

* All liveness properties: `ServiceResumes`, `BackupTakesOver`,
  `CrashesHidden`, `CallsReturn`. The prover has neither liveness
  under fairness nor `ENABLED`.

What a theorem assumes beyond its module is in the last column of the table.

## Not modelled

* Partitions: the code's claims are made for crashes only.
* Several writing clients together with recovery: `Replication` has the clients,
  `Clients` the recovery. Clients on a slow network with data and recovery
  (`Prompt = FALSE` in `Clients`).
* `Read` in `Resync` (it changes nothing) and the block length check: every client
  of the repository sends whole blocks.
* The window between the state check and the write of a `BackupWrite` outside of
  `Replication`, of a `SyncBlock` outside of `SyncIds`, and between the check and the read
  in `Read`: one step each.
* Writes during a sync in `Clients`, where the sync loop is one step; `Resync` has
  them.
* Block reads during a sync that run into another writer of the file: `mtx`
  excludes them, which `FileStorage` shows.
* `consistencyTest` (client.cc:211-263), whose call is commented out (client.cc:333-336), and the client
  without retry of `client_basic.cc`, which is not built.
* What a `strcpy` past the end of a buffer does to the process.
* `src/scraps` (an older disk module), `client_bak.cc` (a demo of three calls of one
  server) and the build files: not part of the build, or without state.

## Plan

1. (done) `FileStorage`, `Resync`, `PairedServers`, `Clients`, the proofs about
   `Resync`.
2. (done) `BlockStore` and `Replication`, with the proof of the refinement; `SyncIds`;
   the benchmark and the older test program in `Clients`.
3. (done) `PairedServersProofs`, `HandoverProofs`, `FileStorageProofs`, `SyncIdsProofs`.
4. (done) `ClientsProofs`, on top of `HandoverProofs`.
5. (done) `CrashPointProofs`.
6. `Clients` with calls that outlive their sender (`Prompt = FALSE`), for which `HInv` of `HandoverProofs` is the start.
