------------------------------ MODULE Replication ------------------------------
(***************************************************************************)
(* Many clients on a pair of servers that are both Normal: the path of a   *)
(* block through PrimaryServer::Write, BackupIfPossible and BackupWrite,   *)
(* with every point at which another handler, a crash or the take-over by  *)
(* the backup can come in between.  One server may crash; recovery is left *)
(* to Resync and PairedServers.                                            *)
(*                                                                         *)
(* One block is enough to see what is lost or out of order.  A write is    *)
(* known by its number, and 0 stands for the zeros of FileStorage::init.   *)
(* write_data is one step: the file's mutex and its failures are those of  *)
(* FileStorage.  stateMutex is never held across a step here, as there is  *)
(* no sync.                                                                *)
(*                                                                         *)
(* A client's program counter is that of its call: "sent" until a handler  *)
(* has done something for it, then the place of the primary's handler, at  *)
(* "forward" and "checked" that of the backup's handler too.  When the     *)
(* primary dies, a BackupWrite it has sent is late: it still arrives.      *)
(* Prompt = TRUE says that none is between the two steps of its handler    *)
(* when the backup takes over.                                             *)
(*                                                                         *)
(* Crashes is the set of servers that may crash, MaxCalls bounds the       *)
(* number of writes.                                                       *)
(***************************************************************************)
EXTENDS Integers

CONSTANTS Client, Crashes, Prompt, MaxCalls

Server == {"primary", "backup"}

ASSUME ReplicationAssumption ==
  /\ Crashes \subseteq Server
  /\ Prompt \in BOOLEAN
  /\ MaxCalls \in Nat

VARIABLES
  repl_state,  \* per server; "Down" when there is no process
  disk,        \* per server: the block in its storage file
  dirty,       \* the primary's dirty list has the block
  client,      \* per client: its call and the server it goes to
  late,        \* BackupWrites of the dead primary
  calls,       \* the number of writes begun
  acked,       \* history: the writes that have returned
  before,      \* history, per write: those that had returned when it began
  received     \* history: the writes the backup has stored

servers == <<repl_state, disk, dirty, late>>
history == <<calls, acked, before, received>>
vars == <<servers, client, history>>

Block == 0..MaxCalls
Up(s) == repl_state[s] # "Down"

Init ==
  /\ repl_state = [s \in Server |-> "Normal"]
  /\ disk = [s \in Server |-> 0]
  /\ dirty = FALSE
  /\ \E use_backup \in [Client -> BOOLEAN] :
       client = [c \in Client |->
         [pc |-> "idle", op |-> "Read", block |-> 0, use_backup |-> use_backup[c]]]
  /\ late = {}
  /\ calls = 0
  /\ acked = {0}
  /\ before = [v \in Block |-> {}]
  /\ received = {0}

----------------------------------------------------------------------------
(***************************************************************************)
(* BlockStorageClient: Read and Write with their retry loop.               *)
(***************************************************************************)
ServerOf(c) == IF client[c].use_backup THEN "backup" ELSE "primary"

\* What the server answers now; otherwise it says "switch nodes".
\* Mutation Serves_Normal: a backup in Normal answers, too.
Serves_Normal(s) == Up(s)
Serves(s) ==
  \/ repl_state[s] = "Standalone"
  \/ s = "primary" /\ repl_state[s] = "Normal"

Goes(c, pc) == client' = [client EXCEPT ![c].pc = pc]

Request(c, op, v) ==
  client' = [client EXCEPT ![c] =
    [pc |-> "sent", op |-> op, block |-> v, use_backup |-> @.use_backup]]

BeginRead(c) ==
  /\ client[c].pc = "idle"
  /\ Request(c, "Read", 0)
  /\ UNCHANGED <<servers, history>>

BeginWrite(c) ==
  /\ client[c].pc = "idle" /\ calls < MaxCalls
  /\ Request(c, "Write", calls + 1)
  /\ calls' = calls + 1
  /\ before' = [before EXCEPT ![calls + 1] = acked]
  /\ UNCHANGED <<servers, acked, received>>

\* No answer, or "switch nodes": the same request to the other server.
\* Mutation NextServer_Same: the client tries the same server again.
NextServer_Same(c) == client[c].use_backup
NextServer(c) == ~ client[c].use_backup
Resend(c) ==
  /\ \/ client[c].pc = "sent" /\ ~ Serves(ServerOf(c))
     \/ client[c].pc = "answered" /\ ~ Up(ServerOf(c))
  /\ client' = [client EXCEPT ![c].pc = "sent", ![c].use_backup = NextServer(c)]
  /\ UNCHANGED <<servers, history>>

Return(c) ==
  /\ client[c].pc = "answered"
  /\ Goes(c, "idle")
  /\ acked' = IF client[c].op = "Write" THEN acked \union {client[c].block} ELSE acked
  /\ UNCHANGED <<servers, calls, before, received>>

----------------------------------------------------------------------------
(***************************************************************************)
(* The handlers of a request.                                              *)
(***************************************************************************)
Handled(c, op, s) ==
  client[c].pc = "sent" /\ client[c].op = op /\ ServerOf(c) = s /\ Serves(s)

\* write_data.
Store(s, v) == disk' = [disk EXCEPT ![s] = v]

ReadBlock(c) ==
  \E s \in Server :
    /\ Handled(c, "Read", s)
    /\ client' = [client EXCEPT ![c] = [@ EXCEPT !.pc = "answered", !.block = disk[s]]]
    /\ UNCHANGED <<servers, history>>

\* BackupServer::Write holds the lock from the test of the state on.
WriteAtBackup(c) ==
  /\ Handled(c, "Write", "backup")
  /\ Store("backup", client[c].block)
  /\ Goes(c, "answered")
  /\ received' = received \union {client[c].block}
  /\ UNCHANGED <<repl_state, dirty, late, calls, acked, before>>

\* Mutation WriteAtPrimary_Backup: a backup in Standalone handles the write as
\* a primary does.
WriteAtPrimary_Backup(c) ==
  /\ \E s \in Server : Handled(c, "Write", s)
  /\ Store(ServerOf(c), client[c].block)
  /\ Goes(c, "stored")
  /\ UNCHANGED <<repl_state, dirty, late, history>>
WriteAtPrimary(c) ==
  /\ Handled(c, "Write", "primary")
  /\ Store("primary", client[c].block)
  /\ Goes(c, "stored")
  /\ UNCHANGED <<repl_state, dirty, late, history>>

\* BackupIfPossible in Normal: the lock is released for the call.
\* Mutation CallBackup_NoWait: the client is answered at once.
CallBackup_NoWait(c) ==
  /\ client[c].pc = "stored" /\ repl_state["primary"] = "Normal"
  /\ Goes(c, "answered")
  /\ UNCHANGED <<servers, history>>
CallBackup(c) ==
  /\ client[c].pc = "stored" /\ repl_state["primary"] = "Normal"
  /\ Goes(c, "forward")
  /\ UNCHANGED <<servers, history>>

\* BackupIfPossible in Standalone.
MarkStandaloneWrite(c) ==
  /\ client[c].pc = "stored" /\ repl_state["primary"] = "Standalone"
  /\ dirty' = TRUE
  /\ Goes(c, "answered")
  /\ UNCHANGED <<repl_state, disk, late, history>>

\* BackupWrite: the state is read and the lock released, then the block is
\* stored.  As long as the primary is there the backup is Normal or gone.
CheckBackupState(c) ==
  /\ client[c].pc = "forward" /\ repl_state["backup"] = "Normal"
  /\ Goes(c, "checked")
  /\ UNCHANGED <<servers, history>>

BackupStores(c) ==
  /\ client[c].pc = "checked" /\ Up("backup")
  /\ Store("backup", client[c].block)
  /\ Goes(c, "backed")
  /\ received' = received \union {client[c].block}
  /\ UNCHANGED <<repl_state, dirty, late, calls, acked, before>>

BackupAnswers(c) ==
  /\ client[c].pc = "backed" /\ Up("backup")
  /\ Goes(c, "answered")
  /\ UNCHANGED <<servers, history>>

\* The backup is gone, perhaps after storing the block.
BackupCallFails(c) ==
  /\ client[c].pc \in {"forward", "checked", "backed"} /\ ~ Up("backup")
  /\ Goes(c, "refused")
  /\ UNCHANGED <<servers, history>>

\* Mutation AssumeBackupDown_Unmarked: only later writes are marked.
AssumeBackupDown_Unmarked(c) ==
  /\ client[c].pc = "refused"
  /\ repl_state' = [repl_state EXCEPT !["primary"] = "Standalone"]
  /\ Goes(c, "answered")
  /\ UNCHANGED <<dirty, disk, late, history>>
AssumeBackupDown(c) ==
  /\ client[c].pc = "refused"
  /\ repl_state' = [repl_state EXCEPT !["primary"] = "Standalone"]
  /\ dirty' = TRUE
  /\ Goes(c, "answered")
  /\ UNCHANGED <<disk, late, history>>

----------------------------------------------------------------------------
(***************************************************************************)
(* Crashes, and what they leave behind.                                    *)
(***************************************************************************)
AtPrimary == {"stored", "forward", "checked", "backed", "refused"}

\* With the primary its handlers are gone, but not the calls they have made.
Crash(s) ==
  /\ s \in Crashes /\ \A r \in Server : Up(r)
  /\ repl_state' = [repl_state EXCEPT ![s] = "Down"]
  /\ IF s = "primary"
     THEN /\ client' = [c \in Client |->
               IF client[c].pc \in AtPrimary THEN [client[c] EXCEPT !.pc = "sent"] ELSE client[c]]
          /\ late' = {[pc |-> client[c].pc, block |-> client[c].block] :
                        c \in {k \in Client : client[k].pc \in {"forward", "checked"}}}
     ELSE UNCHANGED <<client, late>>
  /\ UNCHANGED <<disk, dirty, history>>

\* A heartbeat has failed.
TakeOver ==
  /\ repl_state["backup"] = "Normal" /\ ~ Up("primary")
  /\ Prompt => \A l \in late : l.pc = "forward"
  /\ repl_state' = [repl_state EXCEPT !["backup"] = "Standalone"]
  /\ UNCHANGED <<disk, dirty, late, client, history>>

\* A late BackupWrite in its two steps; in Standalone it ends the server
\* ("Assumption violated").
LateCheck(l) ==
  /\ l.pc = "forward" /\ Up("backup")
  /\ \/ /\ repl_state["backup"] = "Normal"
        /\ late' = (late \ {l}) \union {[l EXCEPT !.pc = "checked"]}
        /\ UNCHANGED repl_state
     \/ /\ repl_state["backup"] = "Standalone"
        /\ repl_state' = [repl_state EXCEPT !["backup"] = "Down"]
        /\ late' = {}
  /\ UNCHANGED <<disk, dirty, client, history>>

LateStore(l) ==
  /\ l.pc = "checked" /\ Up("backup")
  /\ Store("backup", l.block)
  /\ late' = late \ {l}
  /\ received' = received \union {l.block}
  /\ UNCHANGED <<repl_state, dirty, client, calls, acked, before>>

----------------------------------------------------------------------------
BackUp(c) ==
  \/ CallBackup(c) \/ MarkStandaloneWrite(c) \/ CheckBackupState(c) \/ BackupStores(c)
  \/ BackupAnswers(c) \/ BackupCallFails(c) \/ AssumeBackupDown(c)
Call(c) ==
  Resend(c) \/ ReadBlock(c) \/ WriteAtBackup(c) \/ WriteAtPrimary(c) \/ BackUp(c) \/ Return(c)

Next ==
  \/ \E c \in Client : BeginRead(c) \/ BeginWrite(c) \/ Call(c)
  \/ \E s \in Server : Crash(s)
  \/ \E l \in late : LateCheck(l) \/ LateStore(l)
  \/ TakeOver

Spec == Init /\ [][Next]_vars

\* Threads are scheduled, calls end, and the heartbeat loop runs.
FairSpec ==
  /\ Spec
  /\ \A c \in Client : WF_vars(Call(c))
  /\ WF_vars(\E l \in late : LateCheck(l) \/ LateStore(l))
  /\ WF_vars(TakeOver)

----------------------------------------------------------------------------
(***************************************************************************)
(* Properties.                                                             *)
(***************************************************************************)

CallType == [pc : {"idle", "sent", "answered"} \union AtPrimary,
             op : {"Read", "Write"}, block : Block, use_backup : BOOLEAN]

\* The shape of the state, with what the places of the threads imply: a
\* handler runs on a live server, and a late call is one of a dead primary.
TypeOK ==
  /\ repl_state \in [Server -> {"Normal", "Standalone", "Down"}]
  /\ disk \in [Server -> Block]
  /\ dirty \in BOOLEAN
  /\ client \in [Client -> CallType]
  /\ late \subseteq [pc : {"forward", "checked"}, block : Block]
  /\ calls \in Block
  /\ acked \in SUBSET Block /\ received \in SUBSET Block
  /\ before \in [Block -> SUBSET Block]
  /\ \A c \in Client :
       client[c].pc \in AtPrimary =>
         Up("primary") /\ client[c].op = "Write" /\ ~ client[c].use_backup
  /\ late # {} => ~ Up("primary")

\* An acknowledged write is not undone by an older one: a server never holds
\* a block whose write had returned before an acknowledged write began.
\* Crashes, retries at the other server and the concurrent handlers of
\* PrimaryServer.cc lines 81-140 and BackupServer.cc lines 127-148 allow many
\* orders of the writes, but not this one.
NoStaleBlock ==
  \A s \in Server : Up(s) => \A v \in acked : disk[s] \notin before[v]

\* What an acknowledged write has not brought to the backup is on the dirty
\* list, from which the backup will get it (PrimaryServer.cc lines 124-140).
MissedWritesMarked ==
  Up("primary") => \A v \in acked : v \in received \/ dirty

\* Not so: "Data is fully persisted to disk and replicated to the backup before
\* replying to the client" (README:18): with no write under way, two Normal
\* servers have the same block.
ReplicasAgree ==
  (\A s \in Server : repl_state[s] = "Normal")
    /\ (\A c \in Client : client[c].op = "Write" => client[c].pc = "idle")
  => disk["primary"] = disk["backup"]

\* Every call returns as long as there is a server, whichever one has crashed
\* and whichever one the client starts with (client.cc lines 68-84,
\* HeartbeatHelper.cc lines 60-71).  A late BackupWrite can end the last one.
CallsReturn ==
  \A c \in Client :
    client[c].pc # "idle" ~> client[c].pc = "idle" \/ \A s \in Server : ~ Up(s)

\* The pair is the register of BlockStore (PrimaryServer.cc lines 68-140,
\* BackupServer.cc lines 95-148).  Calls take effect at the storage file of the
\* server that serves.  Between the primary's crash and the take-over nobody
\* does: the block is then what the backup has, so a write that was not
\* acknowledged may be gone, but what replaced an acknowledged one is not.
Serving == Up("primary") \/ repl_state["backup"] = "Standalone"
Phase(c) ==
  CASE client[c].pc = "idle" -> "idle"
    [] client[c].pc = "sent" -> "pending"
    [] client[c].pc = "answered" /\ ~ Up(ServerOf(c)) -> "doubtful"
    [] OTHER -> "done"
Image(c) == [pc |-> Phase(c), op |-> client[c].op, block |-> client[c].block]
Register == INSTANCE BlockStore WITH
  Zeros <- 0,
  value <- IF Up("primary") THEN disk["primary"] ELSE disk["backup"],
  failing <- ~ Serving,
  call <- [c \in Client |-> Image(c)],
  begun <- 0..calls
Atomic == Register!Spec
=============================================================================
