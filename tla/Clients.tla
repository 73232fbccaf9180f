------------------------------- MODULE Clients -------------------------------
(***************************************************************************)
(* Clients that read and write blocks through the retry loop of            *)
(* BlockStorageClient, on the two servers of PairedServers with their      *)
(* data: the storage file and the dirty list of each, and the crash points *)
(* that the test programs of client-consistency reach by writing to        *)
(* certain addresses.                                                      *)
(*                                                                         *)
(* A value is the number of the call that wrote it (there is one writing   *)
(* client); 0 stands for zeros and for the undefined bytes that a read     *)
(* past the end of the file returns.                                       *)
(*                                                                         *)
(* Every action of PairedServers is taken up here with what it does to the *)
(* data.  The loop of TryPerformSync is one step there and is one here.    *)
(* A call of a client fails only because its server is gone; Prompt is     *)
(* assumed, so that no BackupWrite outlives the call it belongs to.        *)
(*                                                                         *)
(* Bounds: Rounds (how often a client runs its program), and those of      *)
(* PairedServers.                                                          *)
(***************************************************************************)
EXTENDS PairedServers, Sequences

CONSTANTS Reader, Scenarios, Rounds

ASSUME ClientsAssumption ==
  /\ Prompt /\ Writer \intersect Reader = {}
  /\ \E w \in Writer : Writer = {w}
  /\ Rounds \in Nat
  /\ Scenarios \subseteq {"blocks", "benchmark", "demo", "seq0", "seq1", "seq2", "seq3", "seq4",
                          "seq5", "old_seq1"}

VARIABLES
  scenario,  \* what the clients run
  client,    \* per client: its call, and the handler of it at the server
  disk,      \* per server: the storage file
  memory,    \* per server: what dies with the process
  sentinel,  \* the servers with a crash_sentinel file
  acked,     \* history: the last write that has returned
  seen,      \* history, per reader: the newest value a read has returned
  whole      \* history: the servers brought back with their helper's contents

data == <<scenario, client, disk, memory, sentinel, acked, seen, whole>>
cvars == <<vars, data>>

Client == Writer \union Reader
W == CHOOSE w \in Writer : TRUE

----------------------------------------------------------------------------
(***************************************************************************)
(* The programs.  "blocks" stands for any use of one ordinary block.       *)
(***************************************************************************)
Write(a) == [op |-> "Write", address |-> a]
Read(a)  == [op |-> "Read", address |-> a]

RunMain(prep, target) == <<Write(prep), Write(target), Read(target)>>
RunRest(prep, target) == <<Write("PREP_CRASH_ON_NEXT_RECOVER")>> \o RunMain(prep, target)

\* run_main of client/client.cc: the write of target is commented out.
RunMainOld(prep, target) == <<Write(prep), Read(prep)>>

\* readWriteBenchmark; two of its six offsets are enough to tell one from the next.
ReadWriteBenchmark == <<Write("block"), Read("block"), Write("block2"), Read("block2")>>

TestProgram ==
  [seq0 |-> RunMain("PREP_CRASH_ON_MESSAGE_PRIMARY", "CRASH_PRIMARY_BEFORE_BACKUP"),
   seq1 |-> RunMain("PREP_CRASH_ON_MESSAGE_PRIMARY", "CRASH_PRIMARY_AFTER_WRITE"),
   seq2 |-> RunMain("PREP_CRASH_ON_MESSAGE_BACKUP", "CRASH_BACKUP_DURING_BACKUP"),
   seq3 |-> RunMain("PREP_CRASH_ON_MESSAGE_BACKUP", "CRASH_BACKUP_AFTER_BACKUP"),
   seq4 |-> RunRest("PREP_CRASH_ON_MESSAGE_PRIMARY", "CRASH_PRIMARY_BEFORE_BACKUP"),
   seq5 |-> RunRest("PREP_CRASH_ON_MESSAGE_BACKUP", "CRASH_BACKUP_DURING_BACKUP"),
   old_seq1 |-> RunMainOld("PREP_CRASH_ON_MESSAGE_PRIMARY", "CRASH_PRIMARY_AFTER_WRITE")]

\* A sequence of writes that does make the sentinel.
DemoProgram ==
  <<Write("PREP_CRASH_ON_MESSAGE_PRIMARY"), Write("PREP_CRASH_ON_NEXT_RECOVER"),
    Write("CRASH_PRIMARY_BEFORE_BACKUP")>>

Program ==
  CASE scenario = "demo" -> DemoProgram
    [] scenario = "benchmark" -> ReadWriteBenchmark
    [] OTHER -> TestProgram[scenario]
Address == {"block", "block2", "PREP_CRASH_ON_NEXT_RECOVER", "PREP_CRASH_ON_MESSAGE_PRIMARY",
            "PREP_CRASH_ON_MESSAGE_BACKUP", "CRASH_PRIMARY_BEFORE_BACKUP",
            "CRASH_PRIMARY_AFTER_WRITE", "CRASH_BACKUP_DURING_BACKUP", "CRASH_BACKUP_AFTER_BACKUP"}

\* What client k may call next.  The tests run on a pair that is up.
NextCalls(k) ==
  LET n == client[k].calls IN
  IF scenario = "blocks"
  THEN IF n = Rounds THEN {}
       ELSE {Read("block")} \union (IF k \in Writer THEN {Write("block")} ELSE {})
  ELSE IF k \in Reader \/ n = Len(Program) * (IF scenario \in {"demo", "benchmark"} THEN 1 ELSE Rounds) THEN {}
       ELSE IF n = 0 /\ \E s \in Server : repl_state[s] # "Normal" THEN {}
       ELSE {Program[(n % Len(Program)) + 1]}

NoCall == [op |-> "none", address |-> "block"]
Idle(calls, use_backup) ==
  [pc |-> "idle", to |-> 0, use_backup |-> use_backup, calls |-> calls, req |-> NoCall, reply |-> 0]

----------------------------------------------------------------------------
(***************************************************************************)
(* The data of a server.                                                   *)
(***************************************************************************)

\* write_data: opening the file truncates it, so that nothing but the block
\* written is left.
WriteData(a, v) == [b \in Address |-> IF b = a THEN v ELSE 0]
Zeros == [b \in Address |-> 0]

NewProcess == [dirty |-> << >>, crash_flag |-> FALSE, doomed |-> FALSE]

\* A step that changes memory to new, and in which a server may die.
Memory(new) ==
  memory' = [s \in Server |-> IF deaths'[s] = deaths[s] THEN new[s] ELSE NewProcess]

MarkDirty(s, a) ==
  LET dirty == memory[s].dirty IN
  IF \E i \in DOMAIN dirty : dirty[i] = a THEN dirty ELSE Append(dirty, a)

\* crash_after(1) at the end of both Write methods.
CrashAfterWrite(s, a) == memory[s].crash_flag /\ a = "CRASH_PRIMARY_AFTER_WRITE"
Doomed(s, a) == memory[s].doomed \/ CrashAfterWrite(s, a)

\* The file of the recovering server after the blocks of dirty were sent: the
\* block of each entry goes to the address of the next one, that of the last
\* entry to whatever is past the end of dirtyVec, and the last one is left.
Synced(s, h) ==
  LET dirty == memory[h].dirty IN
  IF dirty = << >> THEN {disk[s]}
  ELSE {WriteData(a, disk[h][dirty[Len(dirty)]]) : a \in Address \union {"elsewhere"}}

----------------------------------------------------------------------------
CInit ==
  /\ Init
  /\ scenario \in Scenarios
  /\ client = [k \in Client |-> Idle(0, FALSE)]
  /\ disk = [s \in Server |-> Zeros]
  /\ memory = [s \in Server |-> NewProcess]
  /\ sentinel = {}
  /\ acked = 0
  /\ seen = [r \in Reader |-> 0]
  /\ whole = {"primary"}

----------------------------------------------------------------------------
(***************************************************************************)
(* The servers, with their data.                                           *)
(***************************************************************************)

\* What a step that writes no file does to the data.  A server that dies is
\* not whole any more.
Alive == {s \in Server : deaths'[s] = deaths[s]}
NoWrite ==
  /\ whole' = whole \intersect Alive
  /\ UNCHANGED <<scenario, client, disk, sentinel, acked, seen>>
NoData == Memory(memory) /\ NoWrite

CrashServer(s) == Crash(s) /\ NoData
Recovers(s)    == RecoverStep(s) /\ NoData
Heartbeats(t)  == HbStep(t) /\ NoData
SyncBegins(t)  == TriggerSync(t) /\ NoData
SyncFails(t)   == FinishCallFails(t) /\ NoData
BackupGone(w)  == WriteCallFails(w) /\ NoData

\* main fills the storage file with zeros before the server is made.
StartServer(s) ==
  /\ Start(s)
  /\ disk' = [disk EXCEPT ![s] = Zeros]
  /\ UNCHANGED <<scenario, client, memory, sentinel, acked, seen, whole>>

\* crash_after: the detached thread crashes the process after its sleep.
CrashAfter(s) ==
  /\ memory[s].doomed
  /\ Die(s) /\ UNCHANGED events
  /\ Memory(memory)
  /\ NoWrite

\* The blocks of the dirty list, which count for the current sync only, and FinishSync.
DeliverBlocks(t) ==
  LET s == requester[t] IN
  /\ SendFinish(t)
  /\ IF CurrentSync(t)
     THEN \E file \in Synced(s, Host(t)) : disk' = [disk EXCEPT ![s] = file]
     ELSE UNCHANGED disk
  /\ UNCHANGED <<scenario, client, memory, sentinel, acked, seen, whole>>

\* No SyncBlock is sent, and so none can fail, when the dirty list is empty.
SyncStops(t) == SyncRejected(t) /\ memory[Host(t)].dirty # << >> /\ NoData

\* FinishSync: the sentinel is removed, and the server crashes; otherwise it
\* resumes.
\* Mutation RemoveSentinel_Never: the server crashes without removing it.
RemoveSentinel_Never(s) == UNCHANGED sentinel
RemoveSentinel(s) == sentinel' = sentinel \ {s}
FinishSyncCrash(t) ==
  LET s == requester[t] IN
  /\ sync[t].pc = "finish" /\ ~ Lost(s, sync[t].to) /\ CanLock(s) /\ CurrentSync(t)
  /\ s \in sentinel
  /\ RemoveSentinel(s)
  /\ Die(s) /\ UNCHANGED events
  /\ Memory(memory)
  /\ whole' = whole \intersect Alive
  /\ UNCHANGED <<scenario, client, disk, acked, seen>>

Resume(t) ==
  LET s == requester[t]  h == Host(t) IN
  /\ FinishSync(t)
  /\ CurrentSync(t) => s \notin sentinel
  /\ whole' = IF CurrentSync(t) /\ h \in whole /\ disk[s] = disk[h]
              THEN whole \union {s} ELSE whole
  /\ UNCHANGED <<scenario, client, disk, memory, sentinel, acked, seen>>

\* ClearDirty.
HelperResumes(t) ==
  LET h == Host(t) IN
  /\ FinishAnswered(t)
  /\ memory' = IF sync[t].pc = "finish_ok" THEN [memory EXCEPT ![h].dirty = << >>] ELSE memory
  /\ NoWrite

----------------------------------------------------------------------------
(***************************************************************************)
(* The retry loop of BlockStorageClient.                                   *)
(***************************************************************************)
ServerOf(k) == IF client[k].use_backup THEN "backup" ELSE "primary"
CallAlive(k) == ~ Lost(ServerOf(k), client[k].to)

\* The request of client k is being handled, and the handler has the state.
Handled(k, op) ==
  /\ client[k].pc = "sent" /\ client[k].req.op = op
  /\ CallAlive(k) /\ CanLock(ServerOf(k))

Begin(k) ==
  /\ client[k].pc = "idle"
  /\ \E c \in NextCalls(k) :
       client' = [client EXCEPT ![k] = [@ EXCEPT !.pc = "sent", !.to = Incarnation(ServerOf(k)),
                                                 !.calls = client[k].calls + 1, !.req = c]]
  /\ UNCHANGED <<vars, scenario, disk, memory, sentinel, acked, seen, whole>>

\* Not ok: the same request goes to the other server.
\* Mutation NextServer_Same: the client tries the same server again.
NextServer_Same(k) == client[k].use_backup
NextServer(k) == ~ client[k].use_backup
Resend(k) ==
  LET use_backup == NextServer(k) IN
  /\ client' = [client EXCEPT ![k] =
       [@ EXCEPT !.pc = "sent", !.use_backup = use_backup,
                 !.to = Incarnation(IF use_backup THEN "backup" ELSE "primary")]]
  /\ UNCHANGED <<vars, scenario, disk, memory, sentinel, acked, seen, whole>>

CallFails(k) == client[k].pc # "idle" /\ ~ CallAlive(k) /\ Resend(k)

\* "switch nodes"
\* Mutation SwitchNodes_Ok: the server that does not serve answers ok.
SwitchNodes_Ok(k) ==
  /\ \E op \in {"Read", "Write"} : Handled(k, op)
  /\ ~ Serves(ServerOf(k))
  /\ client' = [client EXCEPT ![k].pc = "answered"]
  /\ UNCHANGED <<vars, scenario, disk, memory, sentinel, acked, seen, whole>>
SwitchNodes(k) ==
  /\ \E op \in {"Read", "Write"} : Handled(k, op)
  /\ ~ Serves(ServerOf(k))
  /\ Resend(k)

Receive(k) ==
  LET c == client[k] IN
  /\ c.pc = "answered"
  /\ client' = [client EXCEPT ![k] = Idle(c.calls, c.use_backup)]
  /\ acked' = IF c.req.op = "Write" THEN c.calls ELSE acked
  /\ seen' = IF k \in Reader /\ c.reply > seen[k] THEN [seen EXCEPT ![k] = c.reply] ELSE seen
  /\ UNCHANGED <<vars, scenario, disk, memory, sentinel, whole>>

----------------------------------------------------------------------------
(***************************************************************************)
(* The handlers of Read and Write.                                         *)
(***************************************************************************)
ReadBlock(k) ==
  LET s == ServerOf(k) IN
  /\ Handled(k, "Read") /\ Serves(s)
  /\ client' = [client EXCEPT ![k].pc = "answered", ![k].reply = disk[s][client[k].req.address]]
  /\ UNCHANGED <<vars, scenario, disk, memory, sentinel, acked, seen, whole>>

\* The write that sets crash_flag at s.
\* Mutation Prep_Primary: one address sets it at both servers.
Prep_Primary(s) == "PREP_CRASH_ON_MESSAGE_PRIMARY"
Prep(s) == IF s = "primary" THEN "PREP_CRASH_ON_MESSAGE_PRIMARY" ELSE "PREP_CRASH_ON_MESSAGE_BACKUP"
CrashesInWrite(s, a) == memory[s].crash_flag /\ a = "CRASH_PRIMARY_BEFORE_BACKUP"

\* write_data and the crash points after it; the primary goes on to
\* BackupIfPossible, the backup, which holds the lock in shared mode, to
\* MarkDirty and the end of its Write.
StoreBlock(k) ==
  LET s == ServerOf(k)  a == client[k].req.address IN
  /\ Handled(k, "Write") /\ Serves(s)
  /\ disk' = [disk EXCEPT ![s] = WriteData(a, client[k].calls)]
  /\ \/ /\ CrashesInWrite(s, a)
        /\ Die(s)
        /\ Memory(memory)
        /\ whole' = whole \ {s}
        /\ UNCHANGED <<client, events, sentinel>>
     \/ /\ ~ CrashesInWrite(s, a)
        /\ sentinel' = IF memory[s].crash_flag /\ a = "PREP_CRASH_ON_NEXT_RECOVER"
                       THEN sentinel \union {s} ELSE sentinel
        /\ memory' = [memory EXCEPT ![s] =
             [dirty      |-> IF s = "backup" THEN MarkDirty(s, a) ELSE @.dirty,
              crash_flag |-> @.crash_flag \/ a = Prep(s),
              doomed     |-> IF s = "backup" THEN Doomed(s, a) ELSE @.doomed]]
        /\ client' = [client EXCEPT ![k].pc = IF s = "backup" THEN "answered" ELSE "stored"]
        /\ UNCHANGED <<vars, whole>>
  /\ UNCHANGED <<scenario, acked, seen>>

\* BackupIfPossible in Normal.
\* Mutation AfterCall_Answered: the client is answered without waiting for the backup.
AfterCall_Answered == "answered"
AfterCall == "replicating"
Replicate(k) ==
  /\ client[k].pc = "stored" /\ CallAlive(k)
  /\ CallBackup(k)
  /\ client' = [client EXCEPT ![k].pc = AfterCall]
  /\ UNCHANGED <<scenario, disk, memory, sentinel, acked, seen, whole>>

\* The end of the primary's Write.
Answer(k, dirty) ==
  LET a == client[k].req.address IN
  /\ client' = [client EXCEPT ![k].pc = "answered"]
  /\ memory' = [memory EXCEPT !["primary"].dirty = dirty, !["primary"].doomed = Doomed("primary", a)]
  /\ UNCHANGED <<scenario, disk, sentinel, acked, seen, whole>>

\* BackupIfPossible in Standalone.
StandaloneWrite(k) ==
  /\ client[k].pc = "stored" /\ CallAlive(k) /\ CanLock("primary")
  /\ repl_state["primary"] = "Standalone"
  /\ Answer(k, MarkDirty("primary", client[k].req.address))
  /\ UNCHANGED vars

Replicated(k) ==
  /\ BackupWriteReturns(k)
  /\ Answer(k, memory["primary"].dirty)

\* The backup is given up, and the write that has failed is marked.
GiveUpBackup(k) ==
  /\ AssumePartnerDown(k)
  /\ Answer(k, MarkDirty("primary", client[k].req.address))

\* BackupWrite: the crash points, which come before the state is looked at,
\* and the write.  (The crash point after the write has the condition of the
\* one before it, and so is never reached.)
BackupWriteCrash(k) ==
  LET a == client[k].req.address IN
  /\ wr[k].pc = "call" /\ ~ Lost("backup", wr[k].to)
  /\ memory["backup"].crash_flag /\ a = "CRASH_BACKUP_DURING_BACKUP"
  /\ Die("backup") /\ UNCHANGED events
  /\ Memory(memory)
  /\ NoWrite

BackupStores(k) ==
  LET a == client[k].req.address IN
  /\ BackupWrite(k)
  /\ ~ (memory["backup"].crash_flag /\ a = "CRASH_BACKUP_DURING_BACKUP")
  /\ Memory([memory EXCEPT !["backup"].crash_flag = @ \/ a = Prep("backup")])
  /\ disk' = IF repl_state["backup"] = "Normal"
             THEN [disk EXCEPT !["backup"] = WriteData(a, client[k].calls)] ELSE disk
  /\ whole' = whole \intersect Alive
  /\ UNCHANGED <<scenario, client, sentinel, acked, seen>>

----------------------------------------------------------------------------
SyncWithData(t) ==
  \/ SyncBegins(t) \/ DeliverBlocks(t) \/ SyncStops(t) \/ FinishSyncCrash(t) \/ Resume(t)
  \/ SyncFails(t) \/ HelperResumes(t)
Replication(w) ==
  BackupStores(w) \/ BackupWriteCrash(w) \/ BackupGone(w) \/ Replicated(w) \/ GiveUpBackup(w)
Call(k) ==
  \/ CallFails(k) \/ SwitchNodes(k) \/ ReadBlock(k) \/ StoreBlock(k) \/ Replicate(k)
  \/ StandaloneWrite(k) \/ Receive(k)

CNext ==
  \/ \E s \in Server : CrashServer(s) \/ StartServer(s) \/ CrashAfter(s) \/ Recovers(s)
  \/ \E t \in Attempt : SyncWithData(t) \/ Heartbeats(t)
  \/ \E w \in Writer : Replication(w)
  \/ \E k \in Client : Begin(k) \/ Call(k)

\* As in RestartSpec; a call that has begun goes on, the test programs do not
\* stop half-way, and crash_after comes to its end.
CSpec ==
  /\ CInit /\ [][CNext]_cvars
  /\ \A s \in Server : WF_cvars(StartServer(s)) /\ WF_cvars(CrashAfter(s)) /\ WF_cvars(Recovers(s))
  /\ \A t \in Attempt : WF_cvars(SyncWithData(t)) /\ WF_cvars(Heartbeats(t))
  /\ \A w \in Writer : WF_cvars(Replication(w))
  /\ \A k \in Client : WF_cvars(Call(k)) /\ WF_cvars(Begin(k))

----------------------------------------------------------------------------
(***************************************************************************)
(* Properties.                                                             *)
(***************************************************************************)

\* The shape of the state: a server without a process has lost its memory, and
\* a BackupWrite call belongs to a client whose primary is alive.
CTypeOK ==
  /\ TypeOK
  /\ scenario \in Scenarios
  /\ client \in [Client -> [pc : {"idle", "sent", "stored", "replicating", "answered"},
                           to : Int, use_backup : BOOLEAN, calls : Nat,
                           req : [op : {"none", "Read", "Write"}, address : Address], reply : Nat]]
  /\ disk \in [Server -> [Address -> Nat]]
  /\ memory \in [Server -> [dirty : Seq(Address), crash_flag : BOOLEAN, doomed : BOOLEAN]]
  /\ \A s \in Server : ~ Up(s) => memory[s] = NewProcess
  /\ sentinel \subseteq Server /\ whole \subseteq Server
  /\ acked \in Nat /\ seen \in [Reader -> Nat]
  /\ \A w \in Writer : wr[w].pc # "idle" => client[w].pc = "replicating" /\ CallAlive(w)

\* As long as no server has misjudged the other, no acknowledged write is lost
\* in a failover: a server that never crashed, or was brought back with the same
\* contents as its helper, serves the last acknowledged write or a later one
\* (PrimaryServer::Write replies after BackupIfPossible, PrimaryServer.cc lines
\* 98-122; "replicated to the backup before replying to the client").
AckedWriteServed ==
  scenario = "blocks" /\ ~ Misjudged => \A s \in whole : Serves(s) => disk[s]["block"] >= acked

\* A program that writes a block and reads it back gets what it wrote ("write &
\* read successful!", "OK: took"), whichever server it is switched to between
\* the two calls and whatever was sent again, as long as that server never
\* crashed or was brought back whole, and none was misjudged (client.cc lines
\* 191-202 and 246-257).
ReadsOwnWrite ==
  client[W].pc = "answered" /\ client[W].req.op = "Read" /\ ServerOf(W) \in whole /\ ~ Misjudged
    => client[W].reply = acked

\* Not so: "Strong consistency is ensured by our crash recovery protocol"
\* (README:37): a reader never gets an older block than it has got before (the Read methods,
\* PrimaryServer.cc lines 68-79, BackupServer.cc lines 69-80).
ReadsNeverGoBack ==
  \A r \in Reader : client[r].pc = "answered" => client[r].reply >= seen[r]

\* The writing client's program has ended.
Done == client[W].pc = "idle" /\ client[W].calls > 0 /\ NextCalls(W) = {}

\* The server a test program is to crash, by the line it prints.
Victim == IF scenario \in {"seq0", "seq1", "seq4", "old_seq1"} THEN "primary" ELSE "backup"

\* Only the server that a test program names crashes, although prep addresses
\* are replicated and requests are sent again to the other server, unless that
\* one is misjudged (client.cc lines 287-315, PrimaryServer.cc lines 100-119,
\* BackupServer.cc lines 103-146).
OnlyNamedCrashes == scenario \in DOMAIN TestProgram /\ ~ Misjudged => deaths[Other(Victim)] = 0

\* Not so: a test program makes the server it names crash as often as it prints
\* (client.cc lines 291, 295, 299, 303, 308 and 313).
Printed == IF scenario \in {"seq4", "seq5"} THEN 2 ELSE 1
CrashesAsPrinted == <>(scenario \in DOMAIN TestProgram => deaths[Victim] >= Printed)

\* Crashes stay hidden: a client whose requests crash the servers, once or again
\* as a server recovers, gets all its answers, and both servers are Normal again
\* for good unless one has been misjudged (client.cc lines 58-119,
\* PairedServer.cc lines 148-153, where the sentinel is removed before the crash).
CrashesHidden ==
  /\ <>[]Done
  /\ <>Misjudged \/ <>[](\A s \in Server : repl_state[s] = "Normal")
=============================================================================
