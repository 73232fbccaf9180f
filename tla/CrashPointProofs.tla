--------------------------- MODULE CrashPointProofs ---------------------------
(***************************************************************************)
(* The proof of OnlyNamedCrashes: when servers crash only at their crash   *)
(* points (MaxDeaths = 0), a test program crashes no server but the one    *)
(* that it names, as long as none is misjudged.                            *)
(*                                                                         *)
(* Before the first call nothing can crash a server, the recovery of the   *)
(* backup at the start included (Beginning).  From then on the server that *)
(* is not named has neither a flag, a doomed process nor a sentinel        *)
(* (Spared), although the writes that arm the other one pass through it.   *)
(* It therefore stays in service, which excludes the exits of Recover and  *)
(* TriggerSync; those that blame a partition are excluded by               *)
(* PartitionOnlyByMisjudgment.                                             *)
(***************************************************************************)
EXTENDS ClientsProofs

Testing == scenario \in DOMAIN TestProgram
Spare   == Other(Victim)

\* Nothing at s can make it crash.
Unarmed(s) == ~ memory[s].crash_flag /\ ~ memory[s].doomed /\ s \notin sentinel

\* Until the first call no server has crashed, and a backup that recovers
\* finds the primary.
Beginning ==
  client[W].calls = 0 =>
    /\ \A s \in Server : deaths[s] = 0 /\ Unarmed(s)
    /\ InService("primary")
    /\ r_pc["backup"] = "trigger" => sync[recovery["backup"].sync_id].to = 0

\* The server that is not named has nothing to crash it, and is in service
\* from the first call on.
Spared ==
  /\ deaths[Spare] = 0 /\ Unarmed(Spare)
  /\ client[W].calls > 0 => InService(Spare)

Named == Beginning /\ Spared
NInv == TInv /\ PartitionOnlyByMisjudgment /\ (Testing => Misjudged \/ Named)

----------------------------------------------------------------------------
(***************************************************************************)
(* The test programs.                                                      *)
(***************************************************************************)
LEMMA Tests ==
  ASSUME Testing
  PROVE  /\ scenario \in {"seq0", "seq1", "seq2", "seq3", "seq4", "seq5", "old_seq1"}
         /\ scenario \notin {"blocks", "demo", "benchmark"} /\ Program = TestProgram[scenario]
<1>1. DOMAIN TestProgram = {"seq0", "seq1", "seq2", "seq3", "seq4", "seq5", "old_seq1"}
  BY DEF TestProgram
<1> QED
  BY <1>1 DEF Testing, Program

LEMMA Victims ==
  /\ Victim \in Server /\ Spare \in Server /\ Victim # Spare
  /\ "primary" \in Server /\ "backup" \in Server
BY DEF Victim, Spare, Other, Server

\* What the three shapes of program write and read.
Uses(p, a, b) ==
  \A i \in 1..Len(p) : p[i].address \in {a, b, "PREP_CRASH_ON_NEXT_RECOVER"}

LEMMA Shapes ==
  ASSUME NEW a \in Address, NEW b \in Address
  PROVE  Uses(RunMain(a, b), a, b) /\ Uses(RunMainOld(a, b), a, b) /\ Uses(RunRest(a, b), a, b)
<1> DEFINE next == "PREP_CRASH_ON_NEXT_RECOVER"
           x == <<Write(next)>>
           y == RunMain(a, b)
<1>1. \A c \in Address : /\ Write(c).address = c /\ Read(c).address = c
                         /\ Write(c) \in Requests /\ Read(c) \in Requests
  BY DEF Write, Read, Requests
<1>2. Uses(RunMain(a, b), a, b) /\ Uses(RunMainOld(a, b), a, b)
  BY <1>1 DEF Uses, RunMain, RunMainOld
<1>3. /\ x \in Seq(Requests) /\ y \in Seq(Requests) /\ Len(x) = 1 /\ Len(y) = 3
      /\ x[1].address = next
  BY <1>1 DEF RunMain, Address
<1>4. RunRest(a, b) = x \o y /\ Uses(y, a, b)
  BY <1>2 DEF RunRest
<1> HIDE DEF x, y
<1>5. /\ Len(x \o y) = 4
      /\ \A i \in 1..4 : (x \o y)[i] = IF i <= 1 THEN x[i] ELSE y[i - 1]
  <2>1. Len(x \o y) = Len(x) + Len(y)
    BY <1>3, ConcatProperties
  <2>2. \A i \in 1..(Len(x) + Len(y)) :
          (x \o y)[i] = IF i <= Len(x) THEN x[i] ELSE y[i - Len(x)]
    BY <1>3, ConcatProperties, Zenon
  <2> QED
    BY <1>3, <2>1, <2>2
<1>6. Uses(x \o y, a, b)
  <2> SUFFICES ASSUME NEW i \in 1..4 PROVE (x \o y)[i].address \in {a, b, next}
    BY <1>5 DEF Uses
  <2>1. CASE i = 1
    BY <1>3, <1>5, <2>1
  <2>2. CASE i # 1
    <3>1. (x \o y)[i] = y[i - 1] /\ i - 1 \in 1..Len(y)
      BY <1>3, <1>5, <2>2
    <3> QED
      BY <1>4, <3>1 DEF Uses
  <2> QED
    BY <2>1, <2>2
<1> QED
  BY <1>2, <1>4, <1>6

\* No test program writes the address that arms the server it does not name.
LEMMA ProgramFacts ==
  ASSUME Testing
  PROVE  \A i \in 1..Len(Program) : Program[i].address # Prep(Spare)
<1>1. /\ scenario \in {"seq0", "seq1", "seq2", "seq3", "seq4", "seq5", "old_seq1"}
      /\ Program = TestProgram[scenario]
  BY Tests
<1>2. CASE Victim = "primary"
  <2>1. Prep(Spare) = "PREP_CRASH_ON_MESSAGE_BACKUP"
    BY <1>2 DEF Prep, Spare, Other
  <2>2. \E a, b \in Address :
          /\ "PREP_CRASH_ON_MESSAGE_BACKUP" \notin {a, b, "PREP_CRASH_ON_NEXT_RECOVER"}
          /\ Program \in {RunMain(a, b), RunMainOld(a, b), RunRest(a, b)}
    <3>1. \E b \in Address :
            /\ b # "PREP_CRASH_ON_MESSAGE_BACKUP"
            /\ Program \in {RunMain("PREP_CRASH_ON_MESSAGE_PRIMARY", b),
                            RunMainOld("PREP_CRASH_ON_MESSAGE_PRIMARY", b),
                            RunRest("PREP_CRASH_ON_MESSAGE_PRIMARY", b)}
      BY <1>1, <1>2 DEF Victim, TestProgram, Address
    <3> QED
      BY <3>1 DEF Address
  <2> QED
    BY <2>1, <2>2, Shapes DEF Uses
<1>3. CASE Victim # "primary"
  <2>1. Prep(Spare) = "PREP_CRASH_ON_MESSAGE_PRIMARY"
    BY <1>3 DEF Victim, Prep, Spare, Other
  <2>2. \E a, b \in Address :
          /\ "PREP_CRASH_ON_MESSAGE_PRIMARY" \notin {a, b, "PREP_CRASH_ON_NEXT_RECOVER"}
          /\ Program \in {RunMain(a, b), RunMainOld(a, b), RunRest(a, b)}
    <3>1. \E b \in Address :
            /\ b # "PREP_CRASH_ON_MESSAGE_PRIMARY"
            /\ Program \in {RunMain("PREP_CRASH_ON_MESSAGE_BACKUP", b),
                            RunMainOld("PREP_CRASH_ON_MESSAGE_BACKUP", b),
                            RunRest("PREP_CRASH_ON_MESSAGE_BACKUP", b)}
      BY <1>1, <1>3 DEF Victim, TestProgram, Address
    <3> QED
      BY <3>1 DEF Address
  <2> QED
    BY <2>1, <2>2, Shapes DEF Uses
<1> QED
  BY <1>2, <1>3

Requesting(a) == Sending(W) /\ client[W].req.address = a

LEMMA NeverRequested ==
  ASSUME TInv, Testing
  PROVE  ~ Requesting(Prep(Spare))
<1> SUFFICES ASSUME Sending(W) PROVE client[W].req.address # Prep(Spare)
  BY DEF Requesting
<1> DEFINE n == client[W].calls
<1>1. n \in Nat /\ n > 0 /\ client[W].req.address = Target(n) /\ Len(Program) \in {2, 3, 4}
  BY Tests, DataTypes, ProgramTypes DEF TInv, Calls
<1>2. Target(n) = Program[((n - 1) % Len(Program)) + 1].address
  BY Tests DEF Target
<1>3. ((n - 1) % Len(Program)) + 1 \in 1..Len(Program)
  <2> HIDE DEF n
  <2>1. n - 1 \in Nat
    BY <1>1
  <2> QED
    BY <1>1, <2>1, Remainders
<1> QED
  BY <1>1, <1>2, <1>3, ProgramFacts

----------------------------------------------------------------------------
(***************************************************************************)
(* Why a process ends.                                                     *)
(***************************************************************************)

\* The exits of a recovery that finds no helper, and of a helper that is
\* recovering itself.
RecoveryExit(s) ==
  \/ r_pc[s] = "trigger" /\ Lost(Other(s), sync[recovery[s].sync_id].to)
  \/ repl_state[s] = "Recovering" /\ \E t \in Attempt : sync[t].pc = "trigger" /\ Host(t) = s

\* The exits that blame a partition.
PartitionExit(s) == \E why \in {"heartbeat in Standalone", "BackupWrite in Standalone"} : Exit(s, why)

LEMMA DeathReasons ==
  ASSUME MaxDeaths = 0, TInv, CNext, NEW s \in Server, deaths'[s] # deaths[s]
  PROVE  ~ Unarmed(s) \/ RecoveryExit(s) \/ PartitionExit(s)
<1> DEFINE Reason == ~ Unarmed(s) \/ RecoveryExit(s) \/ PartitionExit(s)
<1>1. /\ TypeOK /\ deaths \in [Server -> Nat] /\ Calls
      /\ "primary" \in Server /\ "backup" \in Server
  BY Types, DataTypes DEF TInv
<1>2. ASSUME NEW r \in Server, Die(r) PROVE s = r
  BY <1>1, <1>2 DEF Die
<1>3. ASSUME UNCHANGED deaths PROVE FALSE
  BY <1>3
<1>4. ASSUME NEW r \in Server, CrashServer(r) \/ StartServer(r) \/ CrashAfter(r) \/ Recovers(r)
      PROVE  Reason
  <2>1. CASE CrashServer(r)
    BY <1>1, <2>1 DEF CrashServer, Crash
  <2>2. CASE TriggerFails(r)
    BY <1>2, <2>2 DEF TriggerFails, Exit, RecoveryExit
  <2>3. CASE CrashAfter(r)
    BY <1>2, <2>3 DEF CrashAfter, Unarmed
  <2> QED
    BY <1>3, <1>4, <2>1, <2>2, <2>3
       DEF StartServer, Start, Recovers, RecoverStep, BeginAttempt, Timeout, ConfirmRecovery, procs
<1>5. ASSUME NEW t \in Attempt, SyncWithData(t) \/ Heartbeats(t) PROVE Reason
  <2>0. Host(t) \in Server /\ requester[t] \in Server
    BY <1>1, Hosting
  <2>1. CASE TriggerSync(t)
    <3>1. Exit(Host(t), "both recovering") /\ repl_state[Host(t)] = "Recovering"
      BY <1>3, <2>1 DEF TriggerSync
    <3>2. s = Host(t) /\ sync[t].pc = "trigger"
      BY <1>2, <2>0, <2>1, <3>1 DEF TriggerSync, Exit
    <3> QED
      BY <3>1, <3>2 DEF RecoveryExit
  <2>2. CASE FinishSyncCrash(t)
    BY <1>2, <2>0, <2>2 DEF FinishSyncCrash, Unarmed
  <2>3. CASE Heartbeat(t)
    <3>1. Exit("primary", "heartbeat in Standalone")
      BY <1>3, <2>3 DEF Heartbeat, procs
    <3> QED
      BY <1>1, <1>2, <3>1 DEF Exit, PartitionExit
  <2>4. CASE Heartbeats(t) /\ ~ Heartbeat(t)
    BY <1>3, <2>4 DEF Heartbeats, HbStep, HbStart, HbCallFails, HbNext, HbGivesUp, procs
  <2> QED
    BY <1>3, <1>5, <2>1, <2>2, <2>3, <2>4
       DEF SyncWithData, SyncBegins, DeliverBlocks, SendFinish, SyncStops, SyncRejected, Resume,
           FinishSync, SyncFails, FinishCallFails, HelperResumes, FinishAnswered, procs
<1>6. ASSUME NEW w \in Writer, Replication(w) PROVE Reason
  <2>1. CASE BackupWriteCrash(w)
    BY <1>1, <1>2, <2>1 DEF BackupWriteCrash, Unarmed
  <2>2. CASE BackupWrite(w)
    <3>1. Exit("backup", "BackupWrite in Standalone")
      BY <1>3, <2>2 DEF BackupWrite, procs
    <3> QED
      BY <1>1, <1>2, <3>1 DEF Exit, PartitionExit
  <2> QED
    BY <1>3, <1>6, <2>1, <2>2
       DEF Replication, BackupStores, BackupGone, WriteCallFails, Replicated,
           BackupWriteReturns, GiveUpBackup, AssumePartnerDown, procs
<1>7. ASSUME NEW k \in Client, Begin(k) \/ Call(k) PROVE Reason
  <2>1. CASE StoreBlock(k)
    <3>1. Die(ServerOf(k)) /\ CrashesInWrite(ServerOf(k), client[k].req.address)
      BY <1>3, <2>1 DEF StoreBlock, vars, procs
    <3> QED
      BY <1>2, <3>1, ServerOfType DEF CrashesInWrite, Unarmed
  <2> QED
    BY <1>3, <1>7, <2>1
       DEF Begin, Call, CallFails, SwitchNodes, Resend, ReadBlock, Replicate, CallBackup,
           StandaloneWrite, Receive, vars, procs
<1> QED
  BY <1>4, <1>5, <1>6, <1>7 DEF CNext

\* The exits that blame a partition follow a misjudgment.
LEMMA PartitionKept ==
  ASSUME TInv, PartitionOnlyByMisjudgment, [CNext]_cvars
  PROVE  PartitionOnlyByMisjudgment'
<1>1. Prompt /\ PInv
  BY ClientsAssumption DEF TInv
<1>2. CASE UNCHANGED events
  BY <1>2 DEF PartitionOnlyByMisjudgment, Misjudged
<1> QED
  BY <1>1, <1>2, ServerSteps, PartitionStep

\* As long as no server is misjudged the one that is not named never dies; nor
\* does any server before the first call.
LEMMA NamedDeaths ==
  ASSUME MaxDeaths = 0, NInv, CNext, Testing, ~ Misjudged', Named
  PROVE  /\ deaths'[Spare] = deaths[Spare]
         /\ client[W].calls = 0 => UNCHANGED deaths
<1>1. /\ TypeOK /\ deaths \in [Server -> Nat] /\ deaths' \in [Server -> Nat]
      /\ RecoverInStep /\ TriggerInStep /\ client[W].calls \in Nat /\ PartitionOnlyByMisjudgment'
  <2>1. TInv /\ TypeOK /\ client[W].calls \in Nat
    BY DataTypes DEF NInv, TInv
  <2>2. PInv' /\ PartitionOnlyByMisjudgment'
    BY <2>1, ServersInv, PartitionKept DEF NInv
  <2>3. TypeOK'
    BY <2>2 DEF PInv, HInv, IInv
  <2> QED
    BY <2>1, <2>2, <2>3, Types DEF TInv, PInv, TypeOK
<1>2. ASSUME NEW s \in Server, Unarmed(s), ~ RecoveryExit(s) PROVE deaths'[s] = deaths[s]
  <2>1. ~ PartitionExit(s)
    BY <1>1 DEF PartitionExit, Exit, PartitionOnlyByMisjudgment
  <2> QED
    BY <1>2, <2>1, DeathReasons DEF NInv
<1>3. ASSUME NEW s \in Server, InService(s) PROVE ~ RecoveryExit(s)
  BY <1>1, <1>3 DEF RecoveryExit, InService, RecoverInStep
<1>4. ASSUME client[W].calls = 0 PROVE ~ RecoveryExit("backup")
  <2>1. InService("primary") /\ deaths["primary"] = 0 /\ Other("backup") = "primary"
    BY <1>4, Victims DEF Named, Beginning, Other
  <2>2. r_pc["backup"] = "trigger" => ~ Lost("primary", sync[recovery["backup"].sync_id].to)
    BY <1>4, <2>1 DEF Named, Beginning, Lost, InService, Up
  <2>3. ASSUME NEW t \in Attempt, sync[t].pc = "trigger", Host(t) = "backup" PROVE FALSE
    <3>1. requester[t] = "primary"
      BY <1>1, <2>3, Hosting DEF Other
    <3>2. r_pc["primary"] = "trigger"
      BY <1>1, <2>3, <3>1 DEF TriggerInStep
    <3> QED
      BY <1>1, <2>1, <3>2, Victims DEF RecoverInStep, InService
  <2> QED
    BY <2>1, <2>2, <2>3 DEF RecoveryExit
<1>5. ASSUME client[W].calls = 0 PROVE UNCHANGED deaths
  <2>1. \A s \in Server : Unarmed(s) /\ (s = "primary" \/ s = "backup")
    BY <1>5 DEF Named, Beginning, Server
  <2>2. ~ RecoveryExit("primary")
    BY <1>3, <1>5, Victims DEF Named, Beginning
  <2>3. \A s \in Server : deaths'[s] = deaths[s]
    BY <1>2, <1>4, <1>5, <2>1, <2>2
  <2> QED
    BY <1>1, <2>3
<1>6. deaths'[Spare] = deaths[Spare]
  <2>1. CASE client[W].calls = 0
    BY <1>5, <2>1
  <2>2. CASE client[W].calls > 0
    BY <1>2, <1>3, <2>2, Victims DEF Named, Spared
  <2> QED
    BY <1>1, <2>1, <2>2
<1> QED
  BY <1>5, <1>6

----------------------------------------------------------------------------
(***************************************************************************)
(* What can make a server crash later: only the request that arms it.      *)
(***************************************************************************)
LEMMA StaysUnarmed ==
  ASSUME TInv, CNext, NEW s \in Server, Unarmed(s), ~ Requesting(Prep(s))
  PROVE  Unarmed(s)'
<1>1. /\ CTypeOK /\ NoOrphans /\ memory \in [Server -> MemoryRecord]
      /\ "primary" \in Server /\ "backup" \in Server /\ W \in Writer
      /\ ~ NewProcess.crash_flag /\ ~ NewProcess.doomed
  BY ServerTypes, DataTypes, OneWriter DEF TInv, NewProcess
<1>2. ASSUME NEW new \in [Server -> MemoryRecord], Memory(new), sentinel' \subseteq sentinel,
             ~ new[s].crash_flag, ~ new[s].doomed
      PROVE  Unarmed(s)'
  BY <1>1, <1>2, MemoryType DEF Unarmed
<1>3. ASSUME UNCHANGED <<memory, sentinel>> PROVE Unarmed(s)'
  BY <1>3 DEF Unarmed
<1>4. Quiet => Unarmed(s)'
  BY <1>1, <1>2 DEF Quiet, Unarmed
<1>5. ASSUME NEW r \in Server, CrashServer(r) \/ StartServer(r) \/ CrashAfter(r) \/ Recovers(r)
      PROVE  Unarmed(s)'
  BY <1>1, <1>3, <1>4, <1>5, QuietSteps DEF StartServer
<1>6. ASSUME NEW t \in Attempt, SyncWithData(t) \/ Heartbeats(t) PROVE Unarmed(s)'
  <2>1. CASE HelperResumes(t)
    <3> DEFINE none == << >>
    <3>1. /\ sentinel' = sentinel /\ none \in Seq(Address) /\ Host(t) \in Server
          /\ memory' = memory \/ memory' = [memory EXCEPT ![Host(t)].dirty = none]
      BY <1>1, <2>1, DataTypes, Hosting DEF HelperResumes, NoWrite
    <3> HIDE DEF none
    <3>2. memory'[s].crash_flag = memory[s].crash_flag /\ memory'[s].doomed = memory[s].doomed
      <4>1. CASE memory' = [memory EXCEPT ![Host(t)].dirty = none]
        BY <1>1, <3>1, <4>1 DEF MemoryRecord
      <4> QED
        BY <3>1, <4>1
    <3> QED
      BY <3>1, <3>2 DEF Unarmed
  <2> QED
    BY <1>1, <1>3, <1>4, <1>6, <2>1, QuietSteps DEF SyncWithData, DeliverBlocks, Resume
<1>7. ASSUME NEW dirty \in Seq(Address), Answer(W, dirty) PROVE Unarmed(s)'
  <2> DEFINE d == Doomed("primary", client[W].req.address)
  <2>1. /\ sentinel' = sentinel /\ d \in BOOLEAN
        /\ memory' = [memory EXCEPT !["primary"].dirty = dirty, !["primary"].doomed = d]
    BY <1>1, <1>7 DEF Answer, Doomed, CrashAfterWrite, MemoryRecord
  <2>2. s = "primary" => ~ d
    BY DEF Doomed, CrashAfterWrite, Unarmed
  <2> HIDE DEF d
  <2>3. /\ memory'[s].crash_flag = memory[s].crash_flag
        /\ s = "primary" => memory'[s].doomed = d
        /\ s # "primary" => memory'[s].doomed = memory[s].doomed
    BY <1>1, <2>1 DEF MemoryRecord
  <2> QED
    BY <2>1, <2>2, <2>3 DEF Unarmed
<1>8. memory["primary"].dirty \in Seq(Address) /\ MarkDirty("primary", client[W].req.address) \in Seq(Address)
  BY <1>1, DataTypes, MarkDirtyType DEF MemoryRecord, ClientRecord
<1>9. ASSUME NEW w \in Writer, Replication(w) PROVE Unarmed(s)'
  <2>1. w = W
    BY OneWriter
  <2>2. CASE BackupStores(w)
    <3> DEFINE f == memory["backup"].crash_flag \/ client[w].req.address = Prep("backup")
               new == [memory EXCEPT !["backup"].crash_flag = f]
    <3>1. sentinel' = sentinel /\ Memory(new) /\ f \in BOOLEAN
      BY <1>1, <2>2 DEF BackupStores, MemoryRecord
    <3>2. Sending(W)
      BY <1>1, <2>1, <2>2, DataTypes DEF BackupStores, BackupWrite, Sending
    <3>3. s = "backup" => ~ f
      BY <2>1, <3>2 DEF Requesting, Unarmed
    <3> HIDE DEF f
    <3>4. /\ new \in [Server -> MemoryRecord] /\ new[s].doomed = memory[s].doomed
          /\ new[s].crash_flag = IF s = "backup" THEN f ELSE memory[s].crash_flag
      BY <1>1, <3>1 DEF MemoryRecord
    <3> HIDE DEF new
    <3> QED
      BY <1>2, <3>1, <3>3, <3>4 DEF Unarmed
  <2> QED
    BY <1>1, <1>4, <1>7, <1>8, <1>9, <2>1, <2>2, QuietSteps DEF Replication, Replicated, GiveUpBackup
<1>10. ASSUME NEW k \in Client, Begin(k) \/ Call(k) PROVE Unarmed(s)'
  <2>1. CASE StandaloneWrite(k)
    <3>1. k = W
      BY <2>1, Writers DEF StandaloneWrite, TInv
    <3> QED
      BY <1>7, <1>8, <2>1, <3>1 DEF StandaloneWrite
  <2>2. CASE StoreBlock(k)
    <3> DEFINE r == ServerOf(k)
               a == client[k].req.address
    <3>1. k = W /\ Sending(W) /\ r \in Server
      BY <2>2, Writers, ServerOfType DEF StoreBlock, Handled, Sending, TInv
    <3>2. CASE CrashesInWrite(r, a)
      BY <1>1, <1>2, <2>2, <3>2 DEF StoreBlock, Unarmed
    <3>3. CASE ~ CrashesInWrite(r, a)
      <4>1. /\ sentinel' = IF memory[r].crash_flag /\ a = "PREP_CRASH_ON_NEXT_RECOVER"
                           THEN sentinel \union {r} ELSE sentinel
            /\ s # r => memory'[s] = memory[s]
            /\ s = r => /\ memory'[s].crash_flag = (memory[s].crash_flag \/ a = Prep(s))
                        /\ memory'[s].doomed = IF s = "backup" THEN Doomed(s, a) ELSE memory[s].doomed
        BY <1>1, <2>2, <3>1, <3>3 DEF StoreBlock
      <4> QED
        BY <3>1, <4>1 DEF Unarmed, Requesting, Doomed, CrashAfterWrite
    <3> QED
      BY <3>2, <3>3
  <2> QED
    BY <1>3, <1>10, <2>1, <2>2
       DEF Begin, Call, CallFails, SwitchNodes, Resend, ReadBlock, Replicate, Receive
<1> QED
  BY <1>5, <1>6, <1>9, <1>10 DEF CNext

----------------------------------------------------------------------------
(***************************************************************************)
(* The first call, and the recovery before it.                             *)
(***************************************************************************)

\* A test begins when both servers are Normal; only Begin counts a call.
LEMMA CallNumbers ==
  ASSUME TInv, CNext
  PROVE  \/ client'[W].calls = client[W].calls
         \/ /\ UNCHANGED vars /\ client'[W].calls = client[W].calls + 1
            /\ Testing /\ client[W].calls = 0 => \A s \in Server : repl_state[s] = "Normal"
<1> DEFINE Same == client'[W].calls = client[W].calls
<1>1. client \in [Client -> ClientRecord] /\ W \in Client
  BY DataTypes, OneWriter DEF TInv
<1>2. ASSUME UNCHANGED client PROVE Same
  BY <1>2
<1>3. ASSUME NEW k \in Client, NEW v, client' = [client EXCEPT ![k] = v], v.calls = client[k].calls
      PROVE  Same
  BY <1>1, <1>3
<1>4. ASSUME NEW k \in Client, NEW pc, client' = [client EXCEPT ![k].pc = pc] PROVE Same
  BY <1>1, <1>4 DEF ClientRecord
<1>5. ASSUME NEW s \in Server, CrashServer(s) \/ StartServer(s) \/ CrashAfter(s) \/ Recovers(s) PROVE Same
  BY <1>2, <1>5 DEF CrashServer, StartServer, CrashAfter, Recovers, NoData, NoWrite
<1>6. ASSUME NEW t \in Attempt, SyncWithData(t) \/ Heartbeats(t) PROVE Same
  BY <1>2, <1>6
     DEF SyncWithData, SyncBegins, DeliverBlocks, SyncStops, FinishSyncCrash, Resume, SyncFails,
         HelperResumes, Heartbeats, NoData, NoWrite
<1>7. ASSUME NEW w \in Writer, Replication(w) PROVE Same
  <2>1. w \in Client
    BY DEF Client
  <2> QED
    BY <1>2, <1>4, <1>7, <2>1
       DEF Replication, BackupStores, BackupWriteCrash, BackupGone, Replicated, GiveUpBackup,
           Answer, NoData, NoWrite
<1>8. ASSUME NEW k \in Client, Call(k) PROVE Same
  <2>1. CASE CallFails(k) \/ SwitchNodes(k)
    <3>1. Resend(k)
      BY <2>1 DEF CallFails, SwitchNodes
    <3> QED
      BY <1>1, <3>1 DEF Resend, ClientRecord
  <2>2. CASE ReadBlock(k)
    BY <1>1, <2>2 DEF ReadBlock, ClientRecord
  <2>3. CASE Receive(k)
    BY <1>1, <2>3 DEF Receive, Idle
  <2> QED
    BY <1>2, <1>4, <1>8, <2>1, <2>2, <2>3 DEF Call, StoreBlock, Replicate, StandaloneWrite, Answer
<1>9. ASSUME NEW k \in Client, Begin(k)
      PROVE  \/ Same
             \/ /\ UNCHANGED vars /\ client'[W].calls = client[W].calls + 1
                /\ Testing /\ client[W].calls = 0 => \A s \in Server : repl_state[s] = "Normal"
  <2>1. PICK c \in NextCalls(k) :
          client' = [client EXCEPT ![k] = [@ EXCEPT !.pc = "sent", !.to = Incarnation(ServerOf(k)),
                                                    !.calls = client[k].calls + 1, !.req = c]]
    BY <1>9 DEF Begin
  <2>2. CASE k = W
    <3>1. client'[W].calls = client[W].calls + 1 /\ UNCHANGED vars
      BY <1>1, <1>9, <2>1, <2>2 DEF Begin, ClientRecord
    <3>2. ASSUME Testing, client[W].calls = 0 PROVE \A s \in Server : repl_state[s] = "Normal"
      BY <2>1, <2>2, <3>2, Tests DEF NextCalls
    <3> QED
      BY <3>1, <3>2
  <2> QED
    BY <1>1, <2>1, <2>2
<1> QED
  BY <1>5, <1>6, <1>7, <1>8, <1>9 DEF CNext

\* A TriggerSync that waits was sent before, or goes to the helper of now.
LEMMA TriggerKept ==
  ASSUME TypeOK, IdsInOrder, RecoverInStep, TriggerInStep, StepKinds, UNCHANGED deaths,
         NEW s \in Server, r_pc'[s] = "trigger"
  PROVE  \/ /\ r_pc[s] = "trigger"
            /\ sync'[recovery'[s].sync_id].to = sync[recovery[s].sync_id].to
         \/ sync'[recovery'[s].sync_id].to = Incarnation(Other(s))
<1> DEFINE id == recovery[s].sync_id
           Same == r_pc[s] = "trigger" /\ sync'[recovery'[s].sync_id].to = sync[id].to
<1>1. /\ sync \in [Attempt -> SyncRecord]
      /\ r_pc \in [Server -> {"off", "begin", "trigger", "wait", "done"}]
      /\ recovery \in [Server -> [sync_id : 0..MaxAttempts, done : BOOLEAN]]
      /\ requester \in [Attempt -> Server]
  BY Types
<1>2. r_pc[s] = "trigger" => id \in Attempt /\ requester[id] = s /\ sync[id].pc = "trigger"
  BY OwnAttempt
<1>3. ASSUME NEW r \in Server, Ends(r) PROVE FALSE
  BY <1>3, DieCounts DEF Ends
<1>4. ASSUME UNCHANGED <<r_pc, recovery, sync>> PROVE Same
  BY <1>4
<1>5. ASSUME NEW r \in Server, BeginAttempt(r)
      PROVE  Same \/ sync'[recovery'[s].sync_id].to = Incarnation(Other(s))
  <2>1. attempt + 1 \in Attempt /\ sync[attempt + 1].pc = "none"
    <3>1. attempt + 1 \in Attempt /\ attempt + 1 > attempt
      BY <1>5, Types, Bounds DEF BeginAttempt, Attempt
    <3> QED
      BY <3>1 DEF IdsInOrder
  <2>2. CASE r = s
    <3>1. recovery'[s].sync_id = attempt + 1 /\ sync'[attempt + 1] = CallTo(Other(s), "trigger")
      BY <1>1, <1>5, <2>1, <2>2 DEF BeginAttempt, FreshRecovery
    <3> QED
      BY <3>1 DEF CallTo
  <2>3. CASE r # s
    <3>1. r_pc[s] = "trigger" /\ recovery'[s] = recovery[s]
      BY <1>1, <1>5, <2>3 DEF BeginAttempt
    <3>2. attempt + 1 # id
      BY <1>2, <2>1, <3>1
    <3> QED
      BY <1>1, <1>2, <1>5, <3>1, <3>2 DEF BeginAttempt
  <2> QED
    BY <2>2, <2>3
<1>6. ASSUME NEW t \in Attempt, TriggerSync(t) PROVE Same
  <2>1. Host(t) \in Server /\ requester[t] \in Server
    BY Hosting
  <2>2. r_pc[requester[t]] = "trigger" /\ recovery[requester[t]].sync_id = t
    BY <1>6 DEF TriggerSync, TriggerInStep
  <2>3. /\ UNCHANGED recovery /\ sync' = [sync EXCEPT ![t] = Thread("deliver")]
        /\ r_pc' = [r_pc EXCEPT ![requester[t]] = "wait"]
    BY <1>6, <2>1, <2>2, DieCounts DEF TriggerSync, Exit
  <2>4. r_pc[s] = "trigger" /\ s # requester[t]
    BY <1>1, <2>1, <2>3
  <2> QED
    BY <1>1, <1>2, <2>3, <2>4
<1>7. ASSUME NEW t \in Attempt,
             \/ SendFinish(t) \/ SyncRejected(t)
             \/ FinishSync(t) \/ FinishCallFails(t) \/ FinishAnswered(t)
      PROVE  Same
  <2>1. requester[t] \in Server
    BY Hosting
  <2>2. /\ UNCHANGED r_pc /\ sync[t].pc # "trigger"
        /\ \A u \in Attempt : u # t => sync'[u] = sync[u]
        /\ recovery'[s].sync_id = recovery[s].sync_id
    BY <1>1, <1>7, <2>1
       DEF SendFinish, SyncRejected, FinishSync, FinishCallFails, FinishAnswered, recovers
  <2> QED
    BY <1>2, <2>2
<1>8. ASSUME NEW r \in Server, Start(r) \/ Timeout(r) \/ ConfirmRecovery(r) PROVE Same
  BY <1>1, <1>8 DEF Start, Timeout, ConfirmRecovery, syncers
<1> QED
  BY <1>3, <1>4, <1>5, <1>6, <1>7, <1>8 DEF StepKinds, CallsOnly, GivesUp, recovers, syncers

----------------------------------------------------------------------------
(***************************************************************************)
(* The theorem.                                                            *)
(***************************************************************************)
LEMMA NamedInit == CInit => NInv
<1> SUFFICES ASSUME CInit PROVE NInv
  OBVIOUS
<1>1. TInv /\ PartitionOnlyByMisjudgment
  BY ClientsInit, PromptInit, ClientsAssumption DEF DInv, CInit
<1>2. /\ \A s \in Server : deaths[s] = 0 /\ memory[s] = NewProcess /\ r_pc[s] = "off"
      /\ repl_state["primary"] = "Standalone" /\ sentinel = {}
      /\ client[W].calls = 0
  BY OneWriter, Victims DEF CInit, Init, Idle
<1>3. \A s \in Server : Unarmed(s)
  BY <1>2 DEF Unarmed, NewProcess
<1>4. Beginning /\ Spared
  BY <1>2, <1>3, Victims DEF Beginning, Spared, InService
<1> QED
  BY <1>1, <1>4 DEF NInv, Named

LEMMA SameTest ==
  ASSUME CNext
  PROVE  (Testing' <=> Testing) /\ Victim' = Victim /\ Spare' = Spare
<1>1. scenario' = scenario
  BY DEF CNext, CrashServer, StartServer, CrashAfter, Recovers, NoData, NoWrite, SyncWithData,
         SyncBegins, DeliverBlocks, SyncStops, FinishSyncCrash, Resume, SyncFails, HelperResumes,
         Heartbeats, Replication, BackupStores, BackupWriteCrash, BackupGone, Replicated,
         GiveUpBackup, Answer, Begin, Call, CallFails, SwitchNodes, Resend, ReadBlock, StoreBlock,
         Replicate, StandaloneWrite, Receive
<1> QED
  BY <1>1 DEF Testing, Victim, Spare

LEMMA NamedStep ==
  ASSUME MaxDeaths = 0, NInv, CNext, Testing, ~ Misjudged', Named
  PROVE  Named'
<1>1. /\ TInv /\ TypeOK /\ IdsInOrder /\ RecoverInStep /\ TriggerInStep /\ StepKinds
      /\ client[W].calls \in Nat /\ deaths \in [Server -> Nat]
  <2>1. TInv /\ TypeOK /\ client[W].calls \in Nat
    BY DataTypes DEF NInv, TInv
  <2> QED
    BY <2>1, ServersInv, ServerTypes, Types DEF TInv, PInv, IInv
<1>2. /\ deaths'[Spare] = deaths[Spare] /\ (client[W].calls = 0 => UNCHANGED deaths)
      /\ Spare' = Spare /\ ~ Requesting(Prep(Spare))
  BY <1>1, NamedDeaths, SameTest, NeverRequested
<1>3. client'[W].calls \in Nat /\ (client'[W].calls = 0 => client[W].calls = 0)
  BY <1>1, CallNumbers
<1>4. Spared'
  <2>1. Unarmed(Spare)'
    BY <1>1, <1>2, StaysUnarmed, Victims DEF Named, Spared
  <2>2. ASSUME client'[W].calls > 0 PROVE InService(Spare)'
    <3>1. CASE client[W].calls = 0
      <4>1. UNCHANGED vars /\ repl_state[Spare] = "Normal"
        BY <1>1, <2>2, <3>1, CallNumbers, Victims
      <4> QED
        BY <1>2, <4>1 DEF InService, vars, procs
    <3>2. CASE client[W].calls # 0
      BY <1>1, <1>2, <3>2, Lives, Victims DEF Named, Spared
    <3> QED
      BY <3>1, <3>2
  <2>3. deaths'[Spare] = 0
    BY <1>2 DEF Named, Spared
  <2> QED
    BY <1>2, <2>1, <2>2, <2>3 DEF Spared
<1>5. Beginning'
  <2> SUFFICES ASSUME client'[W].calls = 0
               PROVE  /\ \A s \in Server : deaths'[s] = 0 /\ Unarmed(s)'
                      /\ InService("primary")'
                      /\ r_pc'["backup"] = "trigger" =>
                           sync'[recovery'["backup"].sync_id].to = 0
    BY DEF Beginning
  <2>1. /\ UNCHANGED deaths /\ \A s \in Server : deaths[s] = 0 /\ Unarmed(s)
        /\ InService("primary") /\ ~ Sending(W)
        /\ r_pc["backup"] = "trigger" => sync[recovery["backup"].sync_id].to = 0
    BY <1>1, <1>2, <1>3 DEF Named, Beginning, TInv, Calls
  <2>2. \A s \in Server : Unarmed(s)'
    BY <1>1, <2>1, StaysUnarmed DEF Requesting
  <2>3. InService("primary")'
    BY <1>1, <2>1, Lives, Victims
  <2>4. Incarnation(Other("backup")) = 0
    BY <2>1, Victims DEF Incarnation, InService, Up, Other
  <2>5. r_pc'["backup"] = "trigger" => sync'[recovery'["backup"].sync_id].to = 0
    BY <1>1, <2>1, <2>4, TriggerKept, Victims
  <2> QED
    BY <2>1, <2>2, <2>3, <2>5
<1> QED
  BY <1>4, <1>5 DEF Named

LEMMA NamedNext ==
  ASSUME MaxDeaths = 0
  PROVE  NInv /\ [CNext]_cvars => NInv'
<1> SUFFICES ASSUME NInv, [CNext]_cvars PROVE NInv'
  OBVIOUS
<1>1. TInv' /\ PartitionOnlyByMisjudgment' /\ (Misjudged => Misjudged')
  BY ServersInv, StepKeeps, PartitionKept DEF NInv, Kept
<1>2. CASE CNext
  BY <1>1, <1>2, SameTest, NamedStep DEF NInv
<1>3. CASE UNCHANGED cvars
  <2>1. Testing' = Testing /\ Misjudged' = Misjudged /\ Spare' = Spare
    BY <1>3 DEF Testing, Misjudged, Spare, Victim, cvars, vars, data
  <2>2. Named' = Named
    BY <1>3, <2>1
       DEF Named, Beginning, Spared, Unarmed, InService, cvars, vars, data, procs, recovers, syncers
  <2> QED
    BY <1>1, <2>1, <2>2 DEF NInv
<1> QED
  BY <1>2, <1>3

LEMMA NamedInvariance ==
  ASSUME MaxDeaths = 0
  PROVE  CSpec => []NInv
<1>1. CSpec => CInit /\ [][CNext]_cvars
  BY PTL DEF CSpec
<1>2. CInit /\ [][CNext]_cvars => []NInv
  BY NamedInit, NamedNext, PTL
<1> QED
  BY <1>1, <1>2, PTL

\* When servers crash at their crash points only, a test program crashes no
\* server but the one it names unless one is misjudged, for any number of rounds,
\* recoveries and restarts, although prep addresses are replicated and requests
\* are sent again to the other server (client.cc lines 287-315, PrimaryServer.cc
\* lines 100-119, BackupServer.cc lines 103-146).
THEOREM NamedCrashes ==
  ASSUME MaxDeaths = 0
  PROVE  CSpec => []OnlyNamedCrashes
<1>1. NInv => OnlyNamedCrashes
  BY DEF NInv, Named, Spared, OnlyNamedCrashes, Testing, Spare
<1> QED
  BY <1>1, NamedInvariance, PTL
=============================================================================
