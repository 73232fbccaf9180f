------------------------------- MODULE Resync -------------------------------
(***************************************************************************)
(* The crash recovery protocol (PairedServer.cc, ReplicationModule.cc, and *)
(* the write handlers of PrimaryServer.cc and BackupServer.cc).            *)
(*                                                                         *)
(* One server, the helper, stays up and serves clients; its partner        *)
(* crashes and restarts and is brought back with TriggerSync, SyncBlock    *)
(* and FinishSync.  Either server can be the helper: role says which one.  *)
(* The helper runs one thread per TriggerSync it answered (TryPerformSync),*)
(* the handler threads of client writes (Writer) and, as the backup, the   *)
(* heartbeat loop of each recovery; the partner runs Recover and its RPC   *)
(* handlers.                                                               *)
(*                                                                         *)
(* A handler is split where the code gives up a lock or waits for an RPC.  *)
(* An RPC in flight is the program counter of its caller, together with    *)
(* the epoch of the partner it was sent to: a crash of the partner makes   *)
(* the calls sent to it fail, answered or not.                             *)
(*                                                                         *)
(* A block is the number of the write that produced it (0: the zeros of    *)
(* init); Lost is a block that FileStorage has truncated away.  A sync id  *)
(* is the number of the recovery attempt: rand() is taken to be fresh.     *)
(*                                                                         *)
(* There is no limit on how long a call or a handler takes: the recovery   *)
(* timer (10 s without progress) may fire while the sync it waits for is   *)
(* still at work, and hasty remembers that it did; a TriggerSync may be    *)
(* answered long after its sender died.                                    *)
(*                                                                         *)
(* Bounds: MaxAttempts (recovery attempts), MaxStarts (starts of the       *)
(* partner), MaxWrites (client writes).                                    *)
(***************************************************************************)
EXTENDS Integers, Sequences

CONSTANTS Address, Writer, Lost,
          Elsewhere,    \* an address no client uses
          MaxAttempts, MaxStarts, MaxWrites

ASSUME ResyncAssumption ==
  /\ {MaxAttempts, MaxStarts, MaxWrites} \subseteq Nat
  /\ Elsewhere \notin Address
  /\ Lost \notin Int

VARIABLES
  role,         \* which server the helper is
  \* the helper
  repl_state,   \* "Normal" or "Standalone"
  stateMutex,   \* the sync thread holding it exclusively, or 0
  dirtySet, dirtyVec,
  disk,
  sync_pc, sync_i, sync_msg,         \* the sync threads, by sync id
  w_pc, w_addr, w_data, w_snap, w_epoch,   \* the client write handlers
  nwrites,      \* client writes so far
  \* the partner
  r_state,      \* "Down", "Recovering" or "Normal"
  r_pc,         \* the thread running Recover
  recovery,     \* RecoveryState
  r_disk,
  epoch,        \* starts of the partner
  attempt,      \* sync ids drawn
  triggers,     \* TriggerSync requests in flight
  got,          \* history: the dirtyVec positions received in this attempt
  \* the heartbeat loops of a helper that is the backup
  hb,           \* by the sync id of the recovery that started the loop
  hasty         \* history: the recovery timer once fired during the sync

helper  == <<repl_state, stateMutex, dirtySet, dirtyVec, disk>>
syncers == <<sync_pc, sync_i, sync_msg>>
writers == <<w_pc, w_addr, w_data, w_snap, w_epoch, nwrites>>
partner == <<r_state, r_pc, recovery, r_disk, epoch, attempt, triggers, got>>
vars == <<role, helper, syncers, writers, partner, hb, hasty>>

Attempt == 1..MaxAttempts
Block   == 0..MaxWrites \union {Lost}
FreshRecovery(id) == [sync_id |-> id, blocks_received |-> 0, done |-> FALSE]
Msg(a, b, e) == [address |-> a, block |-> b, epoch |-> e]
NoMsg == Msg(Elsewhere, 0, 0)
NoSnap == [known |-> FALSE, vec |-> <<>>]

----------------------------------------------------------------------------
(***************************************************************************)
(* Locks, storage and the dirty list.                                      *)
(***************************************************************************)

\* Handlers holding stateMutex in shared mode: BackupServer::Write from its
\* first line on, PrimaryServer::BackupIfPossible around MarkDirty.
SharedHolder(w) == w_pc[w] = "marking" \/ (role = "backup" /\ w_pc[w] = "stored")

\* std::unique_lock / std::shared_lock on stateMutex would not block.
\* Mutation CanLock_IgnoresReaders: only exclusive holders are waited for.
CanLock_IgnoresReaders == stateMutex = 0
CanLock  == stateMutex = 0 /\ \A w \in Writer : ~ SharedHolder(w)
CanShare == stateMutex = 0

\* FileStorage at the level of blocks: a write leaves no other block.
WriteData(d, a, block) == [x \in Address |-> IF x = a THEN block ELSE Lost]
ZeroedFile == [x \in Address |-> 0]

\* MarkDirty under the exclusive lock.
MarkDirty(a) ==
  /\ dirtySet' = dirtySet \union {a}
  /\ dirtyVec' = IF a \in dirtySet THEN dirtyVec ELSE Append(dirtyVec, a)

\* MarkDirty under the shared lock, in two steps since another handler can be
\* in it too: first the lookup in dirtySet and the read of the vector's end,
\* then both insertions.  A colliding insertion overwrites the other one.
LookUpDirty(w) ==
  w_snap' = [w_snap EXCEPT ![w] = [known |-> w_addr[w] \in dirtySet, vec |-> dirtyVec]]
InsertDirty(w) ==
  /\ dirtySet' = dirtySet \union {w_addr[w]}
  /\ dirtyVec' = IF w_snap[w].known THEN dirtyVec ELSE Append(w_snap[w].vec, w_addr[w])

\* The address TryPerformSync puts in a SyncBlock: dirtyVec[i] after i++, so
\* the entry after the one it read the block of.  Past the end, or while a handler
\* that inserts may be moving the vector, it is whatever is there.
SentAddress(i) ==
  IF i < Len(dirtyVec) /\ \A w \in Writer : w_pc[w] # "marking"
  THEN {dirtyVec[i + 1]}
  ELSE Address \union {Elsewhere}

\* A thread ends: its local variables are gone.
EndSync(t) ==
  /\ sync_pc' = [sync_pc EXCEPT ![t] = "over"]
  /\ sync_i' = [sync_i EXCEPT ![t] = 0]
  /\ sync_msg' = [sync_msg EXCEPT ![t] = NoMsg]
EndWrite(w) ==
  /\ w_pc' = [w_pc EXCEPT ![w] = "idle"]
  /\ w_addr' = [w_addr EXCEPT ![w] = Elsewhere]
  /\ w_data' = [w_data EXCEPT ![w] = 0]
  /\ w_snap' = [w_snap EXCEPT ![w] = NoSnap]
  /\ w_epoch' = [w_epoch EXCEPT ![w] = 0]
  /\ UNCHANGED nwrites

----------------------------------------------------------------------------
(***************************************************************************)
(* Initially the helper is alone, and the partner has not started yet.     *)
(***************************************************************************)
Init ==
  /\ role \in {"primary", "backup"}
  /\ repl_state = "Standalone" /\ stateMutex = 0
  /\ dirtySet = {} /\ dirtyVec = <<>>
  /\ disk = ZeroedFile
  /\ sync_pc = [t \in Attempt |-> "none"]
  /\ sync_i = [t \in Attempt |-> 0]
  /\ sync_msg = [t \in Attempt |-> NoMsg]
  /\ w_pc = [w \in Writer |-> "idle"]
  /\ w_addr = [w \in Writer |-> Elsewhere]
  /\ w_data = [w \in Writer |-> 0]
  /\ w_snap = [w \in Writer |-> NoSnap]
  /\ w_epoch = [w \in Writer |-> 0]
  /\ nwrites = 0
  /\ r_state = "Down" /\ r_pc = "off"
  /\ recovery = FreshRecovery(0)
  /\ r_disk = ZeroedFile
  /\ epoch = 0 /\ attempt = 0 /\ triggers = {} /\ got = {}
  /\ hb = [t \in Attempt |-> "none"]
  /\ hasty = FALSE

----------------------------------------------------------------------------
(***************************************************************************)
(* The partner: main, Recover and its RPC handlers.                        *)
(***************************************************************************)

\* main: the storage is initialised, the state is Recovering, Recover starts.
Start ==
  /\ r_state = "Down" /\ epoch < MaxStarts
  /\ r_state' = "Recovering" /\ r_pc' = "begin"
  /\ epoch' = epoch + 1
  /\ r_disk' = ZeroedFile
  /\ UNCHANGED <<recovery, got, attempt, triggers, helper, syncers, writers, hb, hasty>>

\* The process dies with all but its file; a TriggerSync it sent may still be
\* answered.
Crash ==
  /\ r_state # "Down"
  /\ r_state' = "Down" /\ r_pc' = "off"
  /\ recovery' = FreshRecovery(0) /\ got' = {}
  /\ UNCHANGED <<r_disk, epoch, attempt, triggers, helper, syncers, writers, hb, hasty>>

\* Mutation NewRound_KeepsCount: the blocks of earlier rounds still count.
NewRound_KeepsCount(id) == [recovery EXCEPT !.sync_id = id, !.done = FALSE]
NewRound(id) == FreshRecovery(id)

\* One round of Recover: a new RecoveryState with a new id, and TriggerSync.
BeginAttempt ==
  /\ r_pc = "begin" /\ attempt < MaxAttempts
  /\ attempt' = attempt + 1
  /\ recovery' = NewRound(attempt + 1)
  /\ triggers' = triggers \union {attempt + 1}
  /\ r_pc' = "trigger"
  /\ got' = {}
  /\ UNCHANGED <<r_state, r_disk, epoch, helper, syncers, writers, hb, hasty>>

\* No progress for RECOVERY_TIMEOUT_MS and recovery.done still FALSE in the
\* loop condition: the next round begins.  done is read without recoveryMutex,
\* so FinishSync may be handled between this step and BeginAttempt.
Timeout ==
  /\ r_pc = "wait" /\ ~ recovery.done
  /\ hasty' = (hasty \/ sync_pc[recovery.sync_id] # "over")
  /\ r_pc' = "begin"
  /\ UNCHANGED <<r_state, recovery, r_disk, epoch, attempt, triggers, got, helper, syncers, writers, hb>>

\* The wait loop sees recovery.done, and Recover returns.
ConfirmRecovery ==
  /\ r_pc = "wait" /\ recovery.done
  /\ r_pc' = "done"
  /\ UNCHANGED <<r_state, recovery, r_disk, epoch, attempt, triggers, got, helper, syncers, writers, hb, hasty>>

\* The sync id check of SyncBlock and FinishSync.
\* Mutation CurrentSync_Unchecked: any id is accepted.
CurrentSync_Unchecked(t) == r_state = "Recovering"
CurrentSync(t) == r_state = "Recovering" /\ t = recovery.sync_id

\* A request of sync thread t has reached the partner it was sent to.
Arrived(t, pc) == sync_pc[t] = pc /\ r_state # "Down" /\ sync_msg[t].epoch = epoch
Reply(t, pc) == sync_pc' = [sync_pc EXCEPT ![t] = pc]

SyncBlock(t) ==
  /\ Arrived(t, "block")
  /\ \/ /\ CurrentSync(t)
        /\ r_disk' = WriteData(r_disk, sync_msg[t].address, sync_msg[t].block)
        /\ recovery' = [recovery EXCEPT !.blocks_received = @ + 1]
        /\ got' = got \union {sync_i[t]}
        /\ Reply(t, "block_ok")
     \/ /\ ~ CurrentSync(t)
        /\ Reply(t, "block_failed")
        /\ UNCHANGED <<r_disk, recovery, got>>
  /\ UNCHANGED <<r_state, r_pc, epoch, attempt, triggers, sync_i, sync_msg, helper, writers, hb, hasty>>

\* The total of FinishSync is the sender's i.
AllBlocksHere(t) == sync_i[t] = recovery.blocks_received

FinishSync(t) ==
  /\ Arrived(t, "finish")
  /\ \/ /\ CurrentSync(t) /\ AllBlocksHere(t)
        /\ recovery' = [recovery EXCEPT !.done = TRUE]
        /\ r_state' = "Normal"
        /\ Reply(t, "finish_ok")
     \/ /\ ~ (CurrentSync(t) /\ AllBlocksHere(t))
        /\ Reply(t, "finish_failed")
        /\ UNCHANGED <<recovery, r_state>>
  /\ UNCHANGED <<r_pc, r_disk, epoch, attempt, triggers, got, sync_i, sync_msg, helper, writers, hb, hasty>>

\* BackupWrite at the partner (the backup when the helper is the primary).
BackupWrite(w) ==
  /\ w_pc[w] = "call" /\ r_state # "Down" /\ w_epoch[w] = epoch
  /\ \/ /\ r_state = "Normal"
        /\ r_disk' = WriteData(r_disk, w_addr[w], w_data[w])
        /\ EndWrite(w)
     \/ /\ r_state = "Recovering"
        /\ w_pc' = [w_pc EXCEPT ![w] = "call_failed"]
        /\ UNCHANGED <<r_disk, w_addr, w_data, w_snap, w_epoch, nwrites>>
  /\ UNCHANGED <<r_state, r_pc, recovery, epoch, attempt, triggers, got, helper, syncers, hb, hasty>>

----------------------------------------------------------------------------
(***************************************************************************)
(* The helper: TriggerSync, the sync threads (BeginSynchronization with    *)
(* TryPerformSync) and the failure of their calls.                         *)
(***************************************************************************)

\* The state of a server that runs a sync.
\* Mutation WhileSyncing_Own: the value ReplState has for it, which no switch knows.
WhileSyncing_Own == "SendingSync"
WhileSyncing == "Standalone"

\* Answers the request and starts the sync thread.
TriggerSync(t) ==
  /\ t \in triggers /\ CanLock
  /\ triggers' = triggers \ {t}
  /\ repl_state' = WhileSyncing
  /\ Reply(t, "loop")
  /\ r_pc' = IF r_pc = "trigger" /\ recovery.sync_id = t THEN "wait" ELSE r_pc
  /\ UNCHANGED <<stateMutex, dirtySet, dirtyVec, disk, sync_i, sync_msg,
                 r_state, recovery, r_disk, epoch, attempt, got, writers, hb, hasty>>

\* Top of the loop, entries left: take the next address, give up the lock.
NextEntry(t) ==
  /\ sync_pc[t] = "loop" /\ CanLock
  /\ sync_i[t] < Len(dirtyVec)
  /\ sync_i' = [sync_i EXCEPT ![t] = @ + 1]
  /\ sync_msg' = [sync_msg EXCEPT ![t] = Msg(dirtyVec[sync_i[t] + 1], 0, 0)]
  /\ Reply(t, "read")
  /\ UNCHANGED <<helper, writers, partner, hb, hasty>>

\* read_data and the SyncBlock call, without the lock.
SendBlock(t) ==
  /\ sync_pc[t] = "read"
  /\ \E a \in SentAddress(sync_i[t]) :
       sync_msg' = [sync_msg EXCEPT ![t] = Msg(a, disk[sync_msg[t].address], epoch)]
  /\ Reply(t, "block")
  /\ UNCHANGED <<sync_i, helper, writers, partner, hb, hasty>>

\* Top of the loop, no entry left: call FinishSync holding the lock.
\* Mutation KeepLock_Dropped: the lock is released before the call.
KeepLock_Dropped(t) == UNCHANGED stateMutex
KeepLock(t) == stateMutex' = t
SendFinish(t) ==
  /\ sync_pc[t] = "loop" /\ CanLock
  /\ sync_i[t] >= Len(dirtyVec)
  /\ KeepLock(t)
  /\ sync_msg' = [sync_msg EXCEPT ![t] = Msg(Elsewhere, 0, epoch)]
  /\ Reply(t, "finish")
  /\ UNCHANGED <<repl_state, dirtySet, dirtyVec, disk, sync_i, writers, partner, hb, hasty>>

\* The partner a call of t was sent to is gone: the call fails, even if it
\* had been answered.
SyncCallFails(t) ==
  /\ r_state = "Down" \/ sync_msg[t].epoch # epoch
  /\ \/ sync_pc[t] \in {"block", "block_ok"} /\ Reply(t, "block_failed")
     \/ sync_pc[t] \in {"finish", "finish_ok"} /\ Reply(t, "finish_failed")
  /\ UNCHANGED <<sync_i, sync_msg, helper, writers, partner, hb, hasty>>

BlockAnswered(t) ==
  /\ \/ /\ sync_pc[t] = "block_ok" /\ Reply(t, "loop")
        /\ sync_msg' = [sync_msg EXCEPT ![t] = NoMsg]
        /\ UNCHANGED sync_i
     \/ sync_pc[t] = "block_failed" /\ EndSync(t)
  /\ UNCHANGED <<helper, writers, partner, hb, hasty>>

\* BackupServer::HandlePartnerRecovered: a heartbeat loop starts, which ends the
\* older ones (iter).
HandlePartnerRecovered(t) ==
  hb' = IF role = "backup" THEN [hb EXCEPT ![t] = "running"] ELSE hb

\* BeginSynchronization after TryPerformSync: ClearDirty and Normal on success.
\* Mutation FinishAnswered_Optimistic: the result of the call is not looked at.
FinishAnswered_Optimistic(t) ==
  /\ sync_pc[t] \in {"finish_ok", "finish_failed"}
  /\ repl_state' = "Normal" /\ dirtySet' = {} /\ dirtyVec' = <<>>
  /\ stateMutex' = 0 /\ EndSync(t) /\ HandlePartnerRecovered(t)
  /\ UNCHANGED <<disk, writers, partner, hasty>>
FinishAnswered(t) ==
  /\ \/ /\ sync_pc[t] = "finish_ok"
        /\ repl_state' = "Normal" /\ dirtySet' = {} /\ dirtyVec' = <<>>
        /\ HandlePartnerRecovered(t)
     \/ /\ sync_pc[t] = "finish_failed"
        /\ UNCHANGED <<repl_state, dirtySet, dirtyVec, hb>>
  /\ stateMutex' = 0 /\ EndSync(t)
  /\ UNCHANGED <<disk, writers, partner, hasty>>

----------------------------------------------------------------------------
(***************************************************************************)
(* The helper: client writes and the detection of the partner's failure.   *)
(***************************************************************************)

\* PrimaryServer::Write or BackupServer::Write up to write_data.  The primary
\* checks for Recovering only, which the helper never is, and takes no lock.
StoreLocally(w) ==
  /\ w_pc[w] = "idle" /\ nwrites < MaxWrites
  /\ role = "backup" => CanShare /\ repl_state = "Standalone"
  /\ nwrites' = nwrites + 1
  /\ \E a \in Address :
       /\ w_addr' = [w_addr EXCEPT ![w] = a]
       /\ disk' = WriteData(disk, a, nwrites + 1)
  /\ w_data' = [w_data EXCEPT ![w] = nwrites + 1]
  /\ w_pc' = [w_pc EXCEPT ![w] = "stored"]
  /\ UNCHANGED <<w_snap, w_epoch, repl_state, stateMutex, dirtySet, dirtyVec, syncers, partner, hb, hasty>>

\* BackupIfPossible in Normal: the BackupWrite call, without the lock.
CallBackup(w) ==
  /\ w_pc[w] = "stored" /\ role = "primary" /\ CanShare
  /\ repl_state = "Normal"
  /\ w_epoch' = [w_epoch EXCEPT ![w] = epoch]
  /\ w_pc' = [w_pc EXCEPT ![w] = "call"]
  /\ UNCHANGED <<w_addr, w_data, w_snap, nwrites, helper, syncers, partner, hb, hasty>>

\* BackupIfPossible in Standalone, or the end of BackupServer::Write:
\* MarkDirty under the shared lock.
BeginMark(w) ==
  /\ w_pc[w] = "stored" /\ CanShare
  /\ role = "primary" => repl_state = "Standalone"
  /\ LookUpDirty(w)
  /\ w_pc' = [w_pc EXCEPT ![w] = "marking"]
  /\ UNCHANGED <<w_addr, w_data, w_epoch, nwrites, helper, syncers, partner, hb, hasty>>

EndMark(w) ==
  /\ w_pc[w] = "marking"
  /\ InsertDirty(w) /\ EndWrite(w)
  /\ UNCHANGED <<repl_state, stateMutex, disk, syncers, partner, hb, hasty>>

WriteCallFails(w) ==
  /\ w_pc[w] = "call" /\ (r_state = "Down" \/ w_epoch[w] # epoch)
  /\ w_pc' = [w_pc EXCEPT ![w] = "call_failed"]
  /\ UNCHANGED <<w_addr, w_data, w_snap, w_epoch, nwrites, helper, syncers, partner, hb, hasty>>

\* BackupIfPossible after a failed call: Standalone, under the exclusive lock.
AssumePartnerDown(w) ==
  /\ w_pc[w] = "call_failed" /\ CanLock
  /\ repl_state' = "Standalone"
  /\ MarkDirty(w_addr[w]) /\ EndWrite(w)
  /\ UNCHANGED <<stateMutex, disk, syncers, partner, hb, hasty>>

\* A heartbeat to a partner that is down or refuses it, being in recovery.
HeartbeatFails(t) ==
  /\ hb[t] = "running" /\ r_state # "Normal"
  /\ hb' = [hb EXCEPT ![t] = "failed"]
  /\ UNCHANGED <<helper, syncers, writers, partner, hasty>>

\* The loop sees that a newer one has been started.
HbReplaced(t) ==
  /\ hb[t] = "running" /\ \E u \in Attempt : u > t /\ hb[u] # "none"
  /\ hb' = [hb EXCEPT ![t] = "over"]
  /\ UNCHANGED <<helper, syncers, writers, partner, hasty>>

\* The end of a loop after a failed heartbeat: Standalone, whenever the lock is
\* free and whatever has happened since the failure.
HbGivesUp(t) ==
  /\ hb[t] = "failed" /\ CanLock
  /\ repl_state' = "Standalone"
  /\ hb' = [hb EXCEPT ![t] = "over"]
  /\ UNCHANGED <<stateMutex, dirtySet, dirtyVec, disk, syncers, writers, partner, hasty>>

----------------------------------------------------------------------------
PartnerStep == BeginAttempt \/ Timeout \/ ConfirmRecovery
SyncStep(t) ==
  \/ TriggerSync(t) \/ NextEntry(t) \/ SendBlock(t) \/ SendFinish(t)
  \/ SyncBlock(t) \/ FinishSync(t)
  \/ SyncCallFails(t) \/ BlockAnswered(t) \/ FinishAnswered(t)
HbStep(t) == HeartbeatFails(t) \/ HbReplaced(t) \/ HbGivesUp(t)
WriteStep(w) ==
  \/ CallBackup(w) \/ BackupWrite(w) \/ BeginMark(w) \/ EndMark(w)
  \/ WriteCallFails(w) \/ AssumePartnerDown(w)

Step ==
  \/ Start \/ Crash \/ PartnerStep
  \/ \E t \in Attempt : SyncStep(t) \/ HbStep(t)
  \/ \E w \in Writer : StoreLocally(w) \/ WriteStep(w)

Next == role' = role /\ Step

Spec == Init /\ [][Next]_vars

----------------------------------------------------------------------------
(***************************************************************************)
(* Properties.                                                             *)
(***************************************************************************)

HelperTypeOK ==
  /\ repl_state \in {"Normal", "Standalone"}
  /\ stateMutex \in 0..MaxAttempts
  /\ dirtySet \subseteq Address
  /\ dirtyVec \in Seq(Address)
  /\ disk \in [Address -> Block]

SyncersTypeOK ==
  /\ sync_pc \in [Attempt -> {"none", "loop", "read", "block", "block_ok", "block_failed",
                              "finish", "finish_ok", "finish_failed", "over"}]
  /\ sync_i \in [Attempt -> Nat]
  /\ sync_msg \in [Attempt -> [address : Address \union {Elsewhere}, block : Block,
                               epoch : 0..MaxStarts]]

WritersTypeOK ==
  /\ w_pc \in [Writer -> {"idle", "stored", "marking", "call", "call_failed"}]
  /\ w_addr \in [Writer -> Address \union {Elsewhere}]
  /\ w_data \in [Writer -> 0..MaxWrites]
  /\ w_snap \in [Writer -> [known : BOOLEAN, vec : Seq(Address)]]
  /\ w_epoch \in [Writer -> 0..MaxStarts]
  /\ nwrites \in 0..MaxWrites

PartnerTypeOK ==
  /\ r_state \in {"Down", "Recovering", "Normal"}
  /\ r_pc \in {"off", "begin", "trigger", "wait", "done"}
  /\ recovery \in [sync_id : 0..MaxAttempts, blocks_received : Nat, done : BOOLEAN]
  /\ r_disk \in [Address -> Block]
  /\ epoch \in 0..MaxStarts
  /\ attempt \in 0..MaxAttempts
  /\ triggers \subseteq Attempt
  /\ got \subseteq Nat

\* The shape of the state of the helper, its threads and the partner; the
\* helper is never in a state other than Normal or Standalone (PairedServer.cc
\* lines 57-99, PrimaryServer.cc lines 124-144).
TypeOK ==
  /\ HelperTypeOK /\ SyncersTypeOK /\ WritersTypeOK /\ PartnerTypeOK
  /\ role \in {"primary", "backup"} /\ hasty \in BOOLEAN
  /\ hb \in [Attempt -> {"none", "running", "failed", "over"}]

\* A recovering server resumes normal function only when, in its current
\* attempt, it has received a block for every entry of the helper's dirty list,
\* including the entries added while the sync was running: the id and count
\* checks of FinishSync and the lock held around the call see to it, whatever
\* older sync threads, crashes and restarts do meanwhile.
OnlyCompleteRecoveries ==
  [][r_state = "Recovering" /\ r_state' = "Normal" => got = 1..Len(dirtyVec)]_vars

\* An address leaves the dirty list only when a sync thread has been told that
\* the partner took the whole list, or when a handler in MarkDirty overwrites
\* what another one has inserted since its own lookup (the shared lock lets both
\* in, BackupServer.cc:116 and PrimaryServer.cc:139): no failed sync, stale sync
\* thread, late failure or crash of the partner loses an entry, and one handler
\* alone never does.
Overtaken(w) ==
  w_pc[w] = "marking" /\ w_pc'[w] = "idle" /\ w_snap[w].vec # dirtyVec
DirtyKeptUntilDelivered ==
  [][\A n \in 1..Len(dirtyVec) :
       \/ n <= Len(dirtyVec') /\ dirtyVec'[n] = dirtyVec[n]
       \/ \E t \in Attempt : sync_pc[t] = "finish_ok" /\ sync_i[t] = Len(dirtyVec)
       \/ \E w \in Writer : Overtaken(w)]_vars

\* "This prevents a transition from Standalone to Normal from happening before
\* we finish writing the data" (BackupServer.cc:84): no write is between its
\* check for Standalone and its entry in the dirty list when the helper goes
\* Normal and empties that list.
HandoverWaitsForWriters ==
  [][repl_state = "Standalone" /\ repl_state' = "Normal" =>
       \A w \in Writer : ~ SharedHolder(w)]_vars

\* "If received in another mode, this req must be stale" (PairedServer.cc:110):
\* no SyncBlock or FinishSync of the current attempt reaches a server that is
\* Normal already, as long as the recovery timer never fired during a sync.
SyncInOtherModeIsStale ==
  ~ hasty /\ r_state = "Normal" =>
    \A t \in Attempt : Arrived(t, "block") \/ Arrived(t, "finish") => t # recovery.sync_id

\* The count check of FinishSync (PairedServer.cc, lines 141-146) refuses no
\* call of the current attempt: sender and receiver have counted the same
\* blocks, whatever became of earlier attempts and of the list since.  Were they
\* to differ, no recovery of this partner would ever end.
CountsAgree ==
  \A t \in Attempt : CurrentSync(t) /\ Arrived(t, "finish") => AllBlocksHere(t)

\* "... so that after that server recovers from the crash, it retrieves and
\* replays all the writes in the map and files will be identical again"
\* (FileStorage.cc:25): once both servers are Normal and no write is under way,
\* both files hold the same blocks.
FilesIdenticalAgain ==
  /\ repl_state = "Normal" /\ r_state = "Normal"
  /\ \A w \in Writer : w_pc[w] = "idle"
  => disk = r_disk

\* Not so: "... and is sent the updated blocks before resuming its normal function"
\* (README:43): when a write enters its address in the dirty list while the
\* current sync is sending an older block of that address, a later entry of the
\* list still names it (MarkDirty, ReplicationModule.cc lines 73-78).
RewrittenBlockSentAgain ==
  [][\A w \in Writer, t \in Attempt :
       /\ w_pc[w] = "marking" /\ w_pc'[w] = "idle"
       /\ t = recovery.sync_id /\ sync_pc[t] = "block"
       /\ dirtyVec[sync_i[t]] = w_addr[w] /\ sync_msg[t].block \notin w_data[w]..MaxWrites
       => \E n \in sync_i[t] + 1..Len(dirtyVec') : dirtyVec'[n] = w_addr[w]]_vars
=============================================================================
