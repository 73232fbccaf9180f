---------------------------- MODULE ClientsProofs ----------------------------
(***************************************************************************)
(* Proofs about Clients for any set of readers and scenarios, any number   *)
(* of rounds, attempts and crashes, and crashes in any order: the type     *)
(* invariant, AckedWriteServed and ReadsOwnWrite.                          *)
(*                                                                         *)
(* Every step of the system is one of PairedServers, or a process that     *)
(* dies (ServerSteps), so PInv of HandoverProofs goes on to hold           *)
(* (ServersInv) and the proofs are about the data only.  TInv, the types   *)
(* and where calls can be, holds always; Data holds until a server is      *)
(* misjudged.  It follows the block from the server that stores it         *)
(* (Stored) to the answer (LastWritten): every server in whole is in       *)
(* service and has the last acknowledged write, or the one that is being   *)
(* answered.  What the client has been told about a block of another       *)
(* server is in WrongReads.  There is a lemma for each kind of step, which *)
(* says that it keeps TInv and, unless one has been misjudged, Data.       *)
(***************************************************************************)
EXTENDS Clients, HandoverProofs, SequenceTheorems

\* Incarnation n of s has been there, or there was none to send to.
Sent(s, n) == n < deaths[s] \/ (n = deaths[s] /\ Up(s))

Sending(k) == client[k].pc # "idle"
Writing    == client[W].req.op = "Write"

\* The block that call n of the writing client is about.
Target(n) == IF scenario = "blocks" THEN "block" ELSE Program[((n - 1) % Len(Program)) + 1].address

\* Where a call can be.
Calls ==
  /\ \A k \in Client : Sending(k) => Sent(ServerOf(k), client[k].to)
  /\ wr[W].pc \in {"call", "ok"} => Sent("backup", wr[W].to)
  /\ \A k \in Reader : client[k].req.op # "Write"
  /\ \A k \in Client : client[k].pc \in {"stored", "replicating"} =>
       ~ client[k].use_backup /\ client[k].req.op = "Write"
  /\ client[W].pc = "idle" => ~ Writing
  /\ Sending(W) => client[W].calls > 0 /\ client[W].req.address = Target(client[W].calls)

TInv == PInv /\ CTypeOK /\ Calls

\* No block is newer than the write under way, or the last one that has returned.
Newest == IF Writing THEN client[W].calls ELSE acked
Numbered ==
  /\ acked <= client[W].calls
  /\ \A s \in Server, a \in Address : disk[s][a] <= Newest
  /\ client[W].pc = "answered" /\ ~ Writing => client[W].reply <= acked

\* Where the block of a write is before it is answered.
Stored ==
  /\ client[W].pc \in {"stored", "replicating"} /\ CallAlive(W) =>
       InService("primary") /\ disk["primary"][client[W].req.address] = client[W].calls
  /\ wr[W].pc = "ok" /\ (~ Lost("backup", wr[W].to) \/ "backup" \in whole) =>
       InService("backup") /\ disk["backup"][client[W].req.address] = client[W].calls

\* A server that has its contents from before a crash, or its helper's, is in service.
WholeInService == \A s \in whole : InService(s)

\* Such a server has the last acknowledged write, or a later one.
LastWritten ==
  \A s \in whole :
    /\ scenario = "blocks" => disk[s]["block"] >= acked
    /\ client[W].pc = "answered" /\ Writing =>
         disk[s][client[W].req.address] = client[W].calls
    /\ ~ Writing /\ (scenario = "blocks" \/ client[W].calls > 0) =>
         disk[s][Target(client[W].calls)] = acked

\* The backup has dirty entries only in Standalone, and as long as the writing
\* client stays with it.
DirtyAtBackup ==
  memory["backup"].dirty # << >> =>
    /\ repl_state["backup"] = "Standalone" /\ client[W].use_backup
    /\ Sending(W) => CallAlive(W)

\* A read that got something else was answered by a server that is not whole
\* and will not be while the answer is on its way.
WrongRead == client[W].pc = "answered" /\ ~ Writing /\ client[W].reply # acked
WrongReads ==
  WrongRead =>
    IF client[W].use_backup THEN whole = {}
    ELSE /\ "primary" \notin whole
         /\ repl_state["primary"] = "Recovering" => disk["primary"] = Zeros

Data == Numbered /\ Stored /\ WholeInService /\ LastWritten /\ DirtyAtBackup /\ WrongReads

\* While no server has been misjudged, and always.
CInv == TInv /\ Alone /\ Data
DInv == TInv /\ (Misjudged \/ Data)

----------------------------------------------------------------------------
(***************************************************************************)
(* The operators of the model.                                             *)
(***************************************************************************)
Requests == [op : {"Read", "Write"}, address : Address]
ClientRecord ==
  [pc : {"idle", "sent", "stored", "replicating", "answered"}, to : Int, use_backup : BOOLEAN,
   calls : Nat, req : [op : {"none", "Read", "Write"}, address : Address], reply : Nat]
MemoryRecord == [dirty : Seq(Address), crash_flag : BOOLEAN, doomed : BOOLEAN]

LEMMA OneWriter == W \in Writer /\ Writer = {W} /\ W \in Client /\ W \notin Reader
<1>1. PICK w \in Writer : Writer = {w}
  BY ClientsAssumption
<1>2. W \in Writer
  BY <1>1 DEF W
<1> QED
  BY <1>1, <1>2, ClientsAssumption DEF Client

LEMMA ServerOfType == \A k \in Client : ServerOf(k) \in Server
BY DEF ServerOf, Server

LEMMA ProgramTypes ==
  ASSUME scenario \in Scenarios, scenario # "blocks"
  PROVE  /\ Len(Program) \in {2, 3, 4}
         /\ \A i \in 1..Len(Program) : Program[i] \in Requests
         /\ \A i \in 1..Len(Program) : Program[i].op = "Read" =>
              i > 1 /\ Program[i - 1].address = Program[i].address
<1> DEFINE Good(p) == /\ Len(p) \in {2, 3, 4}
                      /\ \A i \in 1..Len(p) : p[i] \in Requests
                      /\ \A i \in 1..Len(p) : p[i].op = "Read" =>
                           i > 1 /\ p[i - 1].address = p[i].address
<1>1. \A a \in Address : /\ Read(a) \in Requests /\ Write(a) \in Requests
                         /\ Read(a).op = "Read" /\ Write(a).op = "Write"
                         /\ Read(a).address = a /\ Write(a).address = a
  BY DEF Read, Write, Requests
<1>2. \A a, b \in Address : Good(RunMain(a, b)) /\ Good(RunMainOld(a, b))
  BY <1>1 DEF RunMain, RunMainOld
<1>3. \A a, b \in Address : Good(RunRest(a, b))
  <2> SUFFICES ASSUME NEW a \in Address, NEW b \in Address PROVE Good(RunRest(a, b))
    OBVIOUS
  <2> DEFINE x == <<Write("PREP_CRASH_ON_NEXT_RECOVER")>>
             y == <<Write(a), Write(b), Read(b)>>
  <2>1. x \in Seq(Requests) /\ y \in Seq(Requests) /\ Len(x) = 1 /\ Len(y) = 3
    BY <1>1 DEF Address
  <2>2. RunRest(a, b) = x \o y
    BY DEF RunRest, RunMain
  <2>3. Len(x \o y) = 4 /\ \A i \in 1..4 : (x \o y)[i] = IF i <= 1 THEN x[i] ELSE y[i - 1]
    <3> HIDE DEF x, y
    <3>1. Len(x \o y) = Len(x) + Len(y)
      BY <2>1, ConcatProperties
    <3>2. \A i \in 1..(Len(x) + Len(y)) :
            (x \o y)[i] = IF i <= Len(x) THEN x[i] ELSE y[i - Len(x)]
      BY <2>1, ConcatProperties, Zenon
    <3> QED
      BY <2>1, <3>1, <3>2
  <2>4. /\ (x \o y)[1] = Write("PREP_CRASH_ON_NEXT_RECOVER") /\ (x \o y)[2] = Write(a)
        /\ (x \o y)[3] = Write(b) /\ (x \o y)[4] = Read(b)
    BY <2>3
  <2> DEFINE z == x \o y
  <2>5. "PREP_CRASH_ON_NEXT_RECOVER" \in Address
    BY DEF Address
  <2>6. /\ Len(z) = 4 /\ z[1] = Write("PREP_CRASH_ON_NEXT_RECOVER")
        /\ z[2] = Write(a) /\ z[3] = Write(b) /\ z[4] = Read(b)
    BY <2>3, <2>4
  <2> HIDE DEF x, y, z
  <2>7. Good(z)
    <3>1. \A i \in 1..4 : z[i] \in Requests
      BY <1>1, <2>5, <2>6
    <3>2. \A i \in 1..4 : z[i].op = "Read" => i = 4
      BY <1>1, <2>5, <2>6
    <3>3. z[4 - 1].address = z[4].address
      BY <1>1, <2>6
    <3> QED
      BY <2>6, <3>1, <3>2, <3>3
  <2> QED
    BY <2>2, <2>7 DEF z
<1>4. Good(ReadWriteBenchmark) /\ Good(DemoProgram)
  <2>1. Good(ReadWriteBenchmark)
    BY <1>1 DEF ReadWriteBenchmark, Address
  <2>2. Good(DemoProgram)
    BY <1>1 DEF DemoProgram, Address
  <2> QED
    BY <2>1, <2>2
<1>5. scenario \in {"benchmark", "demo", "seq0", "seq1", "seq2", "seq3", "seq4", "seq5", "old_seq1"}
  BY ClientsAssumption
<1>6. CASE scenario = "demo"
  BY <1>4, <1>6 DEF Program
<1>7. CASE scenario = "benchmark"
  BY <1>4, <1>7 DEF Program
<1>8. CASE scenario \notin {"demo", "benchmark"}
  <2>1. Program = TestProgram[scenario]
    BY <1>8 DEF Program
  <2> HIDE DEF Good
  <2>2. \A n \in {"seq0", "seq1", "seq2", "seq3"} : \E a, b \in Address : TestProgram[n] = RunMain(a, b)
    BY DEF TestProgram, Address
  <2>3. \A n \in {"seq4", "seq5"} : \E a, b \in Address : TestProgram[n] = RunRest(a, b)
    BY DEF TestProgram, Address
  <2>4. \E a, b \in Address : TestProgram["old_seq1"] = RunMainOld(a, b)
    BY DEF TestProgram, Address
  <2>5. CASE scenario \in {"seq0", "seq1", "seq2", "seq3"}
    <3>1. Good(Program)
      BY <1>2, <2>1, <2>2, <2>5
    <3> QED
      BY <3>1 DEF Good
  <2>6. CASE scenario \in {"seq4", "seq5"}
    <3>1. Good(Program)
      BY <1>3, <2>1, <2>3, <2>6
    <3> QED
      BY <3>1 DEF Good
  <2>7. CASE scenario = "old_seq1"
    <3>1. Good(Program)
      BY <1>2, <2>1, <2>4, <2>7
    <3> QED
      BY <3>1 DEF Good
  <2> QED
    BY <1>5, <1>8, <2>5, <2>6, <2>7
<1> QED
  BY <1>6, <1>7, <1>8

LEMMA Remainders ==
  ASSUME NEW n \in Nat, NEW m \in {2, 3, 4}
  PROVE  /\ (n % m) + 1 \in 1..m
         /\ n % m > 0 => n > 0 /\ (n - 1) % m = (n % m) - 1
<1>1. CASE m = 2
  BY <1>1
<1>2. CASE m = 3
  BY <1>2
<1>3. CASE m = 4
  BY <1>3
<1> QED
  BY <1>1, <1>2, <1>3

\* The next call: a read follows a write of the same block.
LEMMA NextCallFacts ==
  ASSUME CTypeOK, NEW k \in Client, NEW c \in NextCalls(k)
  PROVE  /\ c \in Requests
         /\ k \in Reader => c.op = "Read"
         /\ k = W => /\ c.address = Target(client[W].calls + 1)
                     /\ c.op = "Read" =>
                          /\ scenario = "blocks" \/ client[W].calls > 0
                          /\ Target(client[W].calls + 1) = Target(client[W].calls)
<1> DEFINE n == client[k].calls
<1>1. n \in Nat /\ scenario \in Scenarios
  BY DEF CTypeOK
<1>2. CASE scenario = "blocks"
  <2>1. c = Read("block") \/ (k \in Writer /\ c = Write("block"))
    BY <1>2 DEF NextCalls
  <2>2. "block" \in Address
    BY DEF Address
  <2> QED
    BY <1>2, <2>1, <2>2, ClientsAssumption DEF Target, Read, Write, Requests
<1>3. CASE scenario # "blocks"
  <2>1. k \notin Reader /\ c = Program[(n % Len(Program)) + 1]
    BY <1>3 DEF NextCalls
  <2>2. (n % Len(Program)) + 1 \in 1..Len(Program) /\ Len(Program) \in {2, 3, 4}
    BY <1>1, <1>3, ProgramTypes, Remainders
  <2>3. c \in Requests
    BY <1>1, <1>3, <2>1, <2>2, ProgramTypes
  <2>4. k = W => c.address = Target(client[W].calls + 1)
    BY <1>1, <1>3, <2>1 DEF Target
  <2>5. ASSUME k = W, c.op = "Read"
        PROVE  client[W].calls > 0 /\ Target(client[W].calls + 1) = Target(client[W].calls)
    <3>1. n % Len(Program) > 0 /\ n % Len(Program) \in Nat
      BY <1>1, <1>3, <2>1, <2>2, <2>5, ProgramTypes
    <3>2. n > 0 /\ (n - 1) % Len(Program) = (n % Len(Program)) - 1
      BY <1>1, <2>2, <3>1, Remainders
    <3>3. Program[n % Len(Program)].address = Program[(n % Len(Program)) + 1].address
      <4>1. Program[((n % Len(Program)) + 1) - 1].address = Program[(n % Len(Program)) + 1].address
        BY <1>1, <1>3, <2>1, <2>2, <2>5, ProgramTypes
      <4> QED
        BY <3>1, <4>1
    <3> QED
      BY <1>1, <1>3, <2>5, <3>1, <3>2, <3>3 DEF Target
  <2> QED
    BY <2>1, <2>3, <2>4, <2>5
<1> QED
  BY <1>2, <1>3

----------------------------------------------------------------------------
(***************************************************************************)
(* The servers: every step is one of PairedServers, or a process dies.     *)
(***************************************************************************)
LEMMA Writers ==
  ASSUME Calls, NEW k \in Client,
         client[k].req.op = "Write" \/ client[k].pc \in {"stored", "replicating"}
  PROVE  k = W
BY OneWriter DEF Calls, Client

LEMMA ServerTypes ==
  ASSUME PInv
  PROVE  /\ HInv /\ IInv /\ TypeOK /\ NoOrphans /\ CallersInService /\ events \subseteq Events
         /\ Misjudged \/ Alone
BY EventTypes DEF PInv, HInv, IInv, Threads

LEMMA ServerSteps ==
  ASSUME TInv, [CNext]_cvars
  PROVE  [Next]_vars \/ \E s \in Server : Die(s) /\ UNCHANGED events
<1> DEFINE ServerStep == Next \/ UNCHANGED vars \/ \E s \in Server : Die(s) /\ UNCHANGED events
<1>0. Calls /\ TypeOK
  BY ServerTypes DEF TInv
<1>1. ASSUME NEW s \in Server, Die(s), UNCHANGED events PROVE ServerStep
  BY <1>1
<1>2. ASSUME NEW s \in Server, CrashServer(s) \/ StartServer(s) \/ CrashAfter(s) \/ Recovers(s)
      PROVE  ServerStep
  BY <1>1, <1>2 DEF CrashServer, StartServer, CrashAfter, Recovers, Next
<1>3. ASSUME NEW t \in Attempt, SyncWithData(t) \/ Heartbeats(t) PROVE ServerStep
  <2>1. CASE FinishSyncCrash(t)
    <3>1. Die(requester[t]) /\ UNCHANGED events /\ requester[t] \in Server
      BY <1>0, <2>1, Hosting DEF FinishSyncCrash
    <3> QED
      BY <1>1, <3>1
  <2>2. CASE ~ FinishSyncCrash(t)
    <3>1. SyncStep(t) \/ HbStep(t)
      BY <1>3, <2>2
         DEF SyncWithData, SyncBegins, DeliverBlocks, SyncStops, Resume, SyncFails,
             HelperResumes, Heartbeats, SyncStep
    <3> QED
      BY <3>1 DEF Next
  <2> QED
    BY <2>1, <2>2
<1>4. ASSUME NEW w \in Writer, Replication(w) PROVE ServerStep
  <2>1. CASE BackupWriteCrash(w)
    BY <1>1, <2>1 DEF BackupWriteCrash, Server
  <2>2. CASE ~ BackupWriteCrash(w)
    <3>1. WriteStep(w)
      BY <1>4, <2>2
         DEF Replication, BackupStores, BackupGone, Replicated, GiveUpBackup, WriteStep
    <3> QED
      BY <3>1 DEF Next
  <2> QED
    BY <2>1, <2>2
<1>5. ASSUME NEW k \in Client, Begin(k) \/ Call(k) PROVE ServerStep
  <2>1. CASE StoreBlock(k)
    <3>1. UNCHANGED vars \/ (Die(ServerOf(k)) /\ UNCHANGED events)
      BY <2>1 DEF StoreBlock
    <3> QED
      BY <1>1, <3>1, ServerOfType
  <2>2. CASE Replicate(k)
    <3>1. k \in Writer /\ CallBackup(k)
      BY <1>0, <2>2, Writers, OneWriter DEF Replicate
    <3> QED
      BY <3>1 DEF Next
  <2>3. CASE ~ StoreBlock(k) /\ ~ Replicate(k)
    BY <1>5, <2>3
       DEF Begin, Call, CallFails, SwitchNodes, Resend, ReadBlock, StandaloneWrite, Receive
  <2> QED
    BY <2>1, <2>2, <2>3
<1>6. CASE UNCHANGED cvars
  BY <1>6 DEF cvars
<1> QED
  BY <1>2, <1>3, <1>4, <1>5, <1>6 DEF CNext

\* A step of the servers, by what it does to their states: a server stays up and
\* in service until it dies, and no event is forgotten.
LEMMA ServerLife ==
  ASSUME TypeOK, StepKinds
  PROVE  /\ events \subseteq events'
         /\ \/ /\ UNCHANGED deaths
               /\ \A s \in Server : (Up(s) => Up(s)') /\ (InService(s) => InService(s)')
            \/ \E s \in Server : Die(s)
<1>1. repl_state \in [Server -> {"Down", "Recovering", "Normal", "Standalone"}]
  BY Types
<1> DEFINE Stays == /\ UNCHANGED deaths
                    /\ \A s \in Server : (Up(s) => Up(s)') /\ (InService(s) => InService(s)')
<1> USE DEF Up, InService
<1>2. ASSUME UNCHANGED procs PROVE Stays
  BY <1>2 DEF procs
<1>3. ASSUME UNCHANGED deaths, NEW s \in Server, NEW st \in {"Normal", "Standalone"},
             repl_state' = [repl_state EXCEPT ![s] = st]
      PROVE  Stays
  BY <1>1, <1>3
<1>4. CASE CallsOnly
  BY <1>2, <1>4 DEF CallsOnly
<1>5. ASSUME NEW s \in Server, GivesUp(s) PROVE Stays /\ events \subseteq events'
  BY <1>3, <1>5 DEF GivesUp, GiveUp
<1>6. ASSUME NEW s \in Server, Start(s) PROVE Stays /\ events' = events
  BY <1>1, <1>6 DEF Start
<1>7. ASSUME NEW s \in Server, BeginAttempt(s) \/ Timeout(s) \/ ConfirmRecovery(s)
      PROVE  Stays /\ events' = events
  BY <1>2, <1>7 DEF BeginAttempt, Timeout, ConfirmRecovery
<1>8. ASSUME NEW t \in Attempt, TriggerSync(t), UNCHANGED deaths
      PROVE  Stays /\ events \subseteq events'
  <2>1. Host(t) \in Server /\ ~ Exit(Host(t), "both recovering")
    BY <1>8, Hosting, DieCounts DEF Exit
  <2>2. repl_state' = [repl_state EXCEPT ![Host(t)] = "Standalone"] /\ GiveUp(requester[t])
    BY <1>8, <2>1 DEF TriggerSync
  <2> QED
    BY <1>3, <1>8, <2>1, <2>2 DEF GiveUp
<1>9. ASSUME NEW t \in Attempt,
             \/ SendFinish(t) \/ SyncRejected(t)
             \/ FinishSync(t) \/ FinishCallFails(t) \/ FinishAnswered(t)
      PROVE  Stays /\ events' = events
  <2>1. Host(t) \in Server /\ requester[t] \in Server
    BY Hosting
  <2>2. CASE SendFinish(t) \/ SyncRejected(t) \/ FinishCallFails(t)
    BY <1>2, <2>2 DEF SendFinish, SyncRejected, FinishCallFails, procs
  <2>3. CASE FinishSync(t)
    BY <1>1, <1>3, <2>1, <2>3 DEF FinishSync
  <2>4. CASE FinishAnswered(t)
    BY <1>1, <1>3, <2>1, <2>4 DEF FinishAnswered
  <2> QED
    BY <1>9, <2>2, <2>3, <2>4
<1> HIDE DEF Stays
<1>10. CASE CallsOnly
  BY <1>4, <1>10 DEF CallsOnly, Stays
<1>11. ASSUME NEW s \in Server, Ends(s) PROVE events \subseteq events' /\ Die(s)
  BY <1>11 DEF Ends
<1> QED
  BY <1>5, <1>6, <1>7, <1>8, <1>9, <1>10, <1>11 DEF StepKinds, Stays

LEMMA ServersInv ==
  ASSUME TInv, [CNext]_cvars
  PROVE  StepKinds /\ PInv' /\ (Misjudged => Misjudged')
<1>1. Prompt /\ PInv /\ HInv /\ IInv /\ TypeOK /\ CallersInService /\ events \subseteq Events
  BY ClientsAssumption, ServerTypes DEF TInv
<1>2. CASE [Next]_vars
  <2>1. StepKinds /\ HInv'
    BY <1>1, <1>2, Kinds, HandoverNext
  <2> QED
    BY <1>1, <2>1, PromptKinds, ServerLife DEF Misjudged
<1>3. ASSUME NEW s \in Server, Die(s), UNCHANGED events
      PROVE  StepKinds /\ PInv' /\ (Misjudged => Misjudged')
  <2>1. Ends(s) /\ StepKinds
    BY <1>1, <1>3 DEF Ends, StepKinds
  <2>2. IInv'
    BY <1>1, <1>3, DieStep
  <2>3. HInv'
    BY <1>1, <2>1, <2>2, EndHandover
  <2> QED
    BY <1>1, <1>3, <2>1, <2>3, PromptKinds DEF Misjudged
<1> QED
  BY <1>2, <1>3, ServerSteps

\* A process stays up and in service until it dies, and every death counts.
LEMMA Lives ==
  ASSUME TypeOK, StepKinds, NEW s \in Server
  PROVE  /\ deaths[s] \in Nat
         /\ \/ /\ deaths'[s] = deaths[s] /\ (Up(s) => Up(s)')
               /\ (InService(s) => InService(s)')
            \/ deaths'[s] = deaths[s] + 1 /\ repl_state'[s] = "Down" /\ ~ Up(s)'
<1>1. /\ deaths \in [Server -> Nat]
      /\ repl_state \in [Server -> {"Down", "Recovering", "Normal", "Standalone"}]
  BY Types
<1>2. ASSUME NEW r \in Server, Die(r)
      PROVE  IF s = r THEN deaths'[s] = deaths[s] + 1 /\ repl_state'[s] = "Down"
                      ELSE deaths'[s] = deaths[s] /\ repl_state'[s] = repl_state[s]
  BY <1>1, <1>2 DEF Die
<1> QED
  BY <1>1, <1>2, ServerLife DEF Up, InService

\* What has been sent stays sent, and a call that has lost its server will
\* never find it again.
LEMMA Receivers ==
  ASSUME TypeOK, StepKinds, NEW s \in Server, NEW n \in Int, Sent(s, n)
  PROVE  Sent(s, n)' /\ (Lost(s, n) => Lost(s, n)')
BY Lives DEF Sent, Lost

LEMMA SentNow ==
  ASSUME TypeOK, NEW s \in Server
  PROVE  /\ Sent(s, Incarnation(s)) /\ Incarnation(s) \in Int
         /\ Lost(s, Incarnation(s)) => ~ Up(s)
<1>1. deaths[s] \in Nat
  BY Types
<1>2. CASE Up(s)
  BY <1>1, <1>2 DEF Sent, Incarnation, Lost
<1>3. CASE ~ Up(s)
  BY <1>1, <1>3 DEF Sent, Incarnation
<1> QED
  BY <1>2, <1>3

----------------------------------------------------------------------------
(***************************************************************************)
(* Types.                                                                  *)
(***************************************************************************)
LEMMA DataTypes ==
  ASSUME CTypeOK
  PROVE  /\ TypeOK /\ scenario \in Scenarios
         /\ client \in [Client -> ClientRecord] /\ disk \in [Server -> [Address -> Nat]]
         /\ memory \in [Server -> MemoryRecord] /\ \A s \in Server : ~ Up(s) => memory[s] = NewProcess
         /\ NewProcess \in MemoryRecord /\ NewProcess.dirty = << >>
         /\ whole \subseteq Server /\ acked \in Nat
         /\ client[W] \in ClientRecord /\ client[W].calls \in Nat
         /\ wr[W].pc # "idle" => client[W].pc = "replicating" /\ CallAlive(W)
         /\ "primary" \in Server /\ "backup" \in Server
<1>1. NewProcess \in MemoryRecord /\ NewProcess.dirty = << >>
  BY DEF NewProcess, MemoryRecord
<1>2. client \in [Client -> ClientRecord] /\ memory \in [Server -> MemoryRecord]
  BY DEF CTypeOK, ClientRecord, MemoryRecord
<1>3. client[W] \in ClientRecord /\ client[W].calls \in Nat
  BY <1>2, OneWriter DEF ClientRecord
<1> QED
  BY <1>1, <1>2, <1>3, OneWriter DEF CTypeOK, Server

\* A server that has no process after a step has lost its memory.
LEMMA DeadMemory ==
  ASSUME CTypeOK, StepKinds, NEW s \in Server,
         \/ memory'[s] = NewProcess
         \/ Up(s) /\ deaths'[s] = deaths[s]
         \/ memory'[s] = memory[s] /\ deaths'[s] = deaths[s]
  PROVE  ~ Up(s)' => memory'[s] = NewProcess
<1>1. TypeOK
  BY DataTypes
<1>2. CASE deaths'[s] = deaths[s]
  <2>1. Up(s) => Up(s)'
    BY <1>1, <1>2, Lives
  <2> QED
    BY <2>1, DataTypes
<1> QED
  BY <1>2

\* A step of the servers that leaves the clients alone keeps the types, if it
\* keeps those of the files and of the memory.
LEMMA TypesFrame ==
  ASSUME TInv, PInv', StepKinds, UNCHANGED <<scenario, client, acked, seen>>,
         wr[W].pc = "idle" => wr'[W].pc = "idle",
         disk' \in [Server -> [Address -> Nat]], memory' \in [Server -> MemoryRecord],
         \A s \in Server : \/ memory'[s] = NewProcess
                           \/ Up(s) /\ deaths'[s] = deaths[s]
                           \/ memory'[s] = memory[s] /\ deaths'[s] = deaths[s],
         sentinel' \subseteq Server, whole' \subseteq Server
  PROVE  CTypeOK'
<1>1. TypeOK' /\ TypeOK
  BY ServerTypes DEF TInv, PInv, HInv, IInv
<1>2. \A s \in Server : ~ Up(s)' => memory'[s] = NewProcess
  BY DeadMemory DEF TInv
<1>3. ASSUME wr'[W].pc # "idle" PROVE client'[W].pc = "replicating" /\ CallAlive(W)'
  <2>1. client[W].pc = "replicating" /\ CallAlive(W)
    BY <1>3, DataTypes DEF TInv
  <2>2. InService("primary")' /\ Up("primary")'
    BY <1>3, OneWriter
       DEF PInv, HInv, Threads, NoOrphans, CallersInService, Writes, InService, Up
  <2>3. ServerOf(W) = "primary" /\ ServerOf(W)' = "primary"
    BY <2>1, OneWriter DEF TInv, Calls, ServerOf
  <2>4. deaths'["primary"] = deaths["primary"]
    BY <1>1, <2>2, Lives DEF Server
  <2> QED
    BY <2>1, <2>2, <2>3, <2>4 DEF CallAlive, Lost
<1>4. \A w \in Writer : w = W
  BY OneWriter
<1> QED
  BY <1>1, <1>2, <1>3, <1>4 DEF TInv, CTypeOK, ClientRecord, MemoryRecord

LEMMA MemoryType ==
  ASSUME CTypeOK, NEW new \in [Server -> MemoryRecord], Memory(new)
  PROVE  /\ memory' \in [Server -> MemoryRecord]
         /\ \A s \in Server : memory'[s] = IF deaths'[s] = deaths[s] THEN new[s] ELSE NewProcess
BY DataTypes DEF Memory

----------------------------------------------------------------------------
(***************************************************************************)
(* Steps of the servers that write no file.                                *)
(***************************************************************************)
Quiet ==
  /\ UNCHANGED <<scenario, client, disk, acked, seen>> /\ Memory(memory)
  /\ whole' = whole \intersect Alive /\ sentinel' \subseteq sentinel
  /\ \/ UNCHANGED procs
     \/ \E r \in Server : Die(r)
     \/ /\ UNCHANGED deaths
        /\ \E r \in Server : repl_state' = [repl_state EXCEPT ![r] = "Standalone"]
  /\ \/ wr'[W] = wr[W]
     \/ wr'[W].pc = "idle"
     \/ wr'[W].pc = "failed" /\ wr[W].pc # "idle"

LEMMA DyingWriter ==
  ASSUME NoOrphans, NEW s, Die(s)
  PROVE  wr'[W] = wr[W] \/ wr'[W].pc = "idle"
<1>1. Prompt
  BY ClientsAssumption
<1>2. wr'[W] = IF s = "primary" /\ wr[W].pc # "orphan" THEN Thread("idle") ELSE wr[W]
  BY <1>1, OneWriter DEF Die, Killed
<1> QED
  BY <1>2 DEF Thread

LEMMA QuietSteps ==
  /\ \A s \in Server : CTypeOK /\ NoOrphans /\ (CrashServer(s) \/ CrashAfter(s) \/ Recovers(s)) => Quiet
  /\ \A t \in Attempt :
       CTypeOK /\ NoOrphans /\ (Heartbeats(t) \/ SyncBegins(t) \/ SyncStops(t) \/ SyncFails(t)
                                  \/ FinishSyncCrash(t)) => Quiet
  /\ \A w \in Writer : CTypeOK /\ NoOrphans /\ (BackupGone(w) \/ BackupWriteCrash(w)) => Quiet
<1> SUFFICES ASSUME CTypeOK, NoOrphans
             PROVE  /\ \A s \in Server : CrashServer(s) \/ CrashAfter(s) \/ Recovers(s) => Quiet
                    /\ \A t \in Attempt : Heartbeats(t) \/ SyncBegins(t) \/ SyncStops(t)
                                            \/ SyncFails(t) \/ FinishSyncCrash(t) => Quiet
                    /\ \A w \in Writer : BackupGone(w) \/ BackupWriteCrash(w) => Quiet
  OBVIOUS
<1> DEFINE Unwritten == /\ UNCHANGED <<scenario, client, disk, acked, seen>> /\ Memory(memory)
                        /\ whole' = whole \intersect Alive /\ sentinel' \subseteq sentinel
<1>1. NoData => Unwritten
  BY DEF NoData, NoWrite
<1>2. ASSUME NEW s \in Server, Die(s), Unwritten PROVE Quiet
  BY <1>2, DyingWriter DEF Quiet
<1>3. ASSUME Unwritten, UNCHANGED <<procs, wr>> PROVE Quiet
  BY <1>3 DEF Quiet
<1>4. ASSUME NEW s \in Server, CrashServer(s) \/ CrashAfter(s) \/ Recovers(s) PROVE Quiet
  <2>1. Unwritten
    BY <1>1, <1>4 DEF CrashServer, CrashAfter, Recovers, NoWrite
  <2>2. CASE CrashServer(s) \/ CrashAfter(s) \/ TriggerFails(s)
    BY <1>2, <2>1, <2>2 DEF CrashServer, Crash, CrashAfter, TriggerFails, Exit
  <2>3. CASE BeginAttempt(s) \/ Timeout(s) \/ ConfirmRecovery(s)
    BY <1>3, <2>1, <2>3 DEF BeginAttempt, Timeout, ConfirmRecovery
  <2> QED
    BY <1>4, <2>2, <2>3 DEF Recovers, RecoverStep
<1>5. ASSUME NEW t \in Attempt,
             Heartbeats(t) \/ SyncBegins(t) \/ SyncStops(t) \/ SyncFails(t) \/ FinishSyncCrash(t)
      PROVE  Quiet
  <2>0. Host(t) \in Server /\ requester[t] \in Server /\ {"primary", "backup"} = Server
    BY DataTypes, Hosting DEF Server
  <2>1. Unwritten
    BY <1>1, <1>5 DEF Heartbeats, SyncBegins, SyncStops, SyncFails, FinishSyncCrash, RemoveSentinel
  <2>2. CASE FinishSyncCrash(t)
    BY <1>2, <2>0, <2>1, <2>2 DEF FinishSyncCrash
  <2>3. CASE SyncStops(t) \/ SyncFails(t)
    BY <1>3, <2>1, <2>3 DEF SyncStops, SyncRejected, SyncFails, FinishCallFails
  <2>4. CASE TriggerSync(t)
    <3>1. CASE Exit(Host(t), "both recovering")
      BY <1>2, <2>0, <2>1, <3>1 DEF Exit
    <3>2. CASE ~ Exit(Host(t), "both recovering")
      BY <2>0, <2>1, <2>4, <3>2 DEF TriggerSync, Quiet
    <3> QED
      BY <3>1, <3>2
  <2>5. CASE HbStart(t) \/ HbCallFails(t) \/ HbNext(t)
    BY <1>3, <2>1, <2>5 DEF HbStart, HbCallFails, HbNext
  <2>6. CASE Heartbeat(t)
    <3>1. CASE Exit("primary", "heartbeat in Standalone")
      BY <1>2, <2>0, <2>1, <3>1 DEF Exit
    <3>2. CASE ~ Exit("primary", "heartbeat in Standalone")
      BY <1>3, <2>1, <2>6, <3>2 DEF Heartbeat
    <3> QED
      BY <3>1, <3>2
  <2>7. CASE HbGivesUp(t)
    BY <2>0, <2>1, <2>7 DEF HbGivesUp, Quiet
  <2> QED
    BY <1>5, <2>2, <2>3, <2>4, <2>5, <2>6, <2>7 DEF Heartbeats, HbStep, SyncBegins
<1>6. ASSUME NEW w \in Writer, BackupGone(w) \/ BackupWriteCrash(w) PROVE Quiet
  <2>1. w = W /\ wr \in [Writer -> WrRecord] /\ "backup" \in Server
    BY OneWriter, DataTypes, Types DEF Server
  <2>2. Unwritten
    BY <1>1, <1>6 DEF BackupGone, BackupWriteCrash, NoWrite
  <2>3. CASE BackupWriteCrash(w)
    BY <1>2, <2>1, <2>2, <2>3 DEF BackupWriteCrash
  <2>4. CASE WriteCallFails(w)
    <3>1. wr'[W] = [wr[W] EXCEPT !.pc = "failed"] /\ wr[W].pc # "idle"
      BY <2>1, <2>4, OneWriter DEF WriteCallFails, Return, NoOrphans
    <3>2. wr[W] \in WrRecord
      BY <2>1, OneWriter
    <3>3. wr'[W].pc = "failed"
      BY <3>1, <3>2 DEF WrRecord
    <3> QED
      BY <2>2, <2>4, <3>1, <3>3 DEF WriteCallFails, Quiet
  <2> QED
    BY <1>6, <2>3, <2>4 DEF BackupGone
<1> QED
  BY <1>4, <1>5, <1>6

----------------------------------------------------------------------------
(***************************************************************************)
(* Steps of the servers: what each may do to the data.                     *)
(***************************************************************************)

\* What is shown of each step.
Kept == TInv' /\ (CInv => (Misjudged \/ Data)')

LEMMA CallsFrame ==
  ASSUME TInv, StepKinds, UNCHANGED <<scenario, client>>,
         wr'[W].pc \in {"call", "ok"} => wr[W].pc \in {"call", "ok"} /\ wr'[W].to = wr[W].to
  PROVE  Calls'
<1>1. TypeOK /\ \A k \in Client : ServerOf(k) \in Server /\ client[k].to \in Int
  BY DataTypes, ServerTypes, ServerOfType DEF TInv, ClientRecord
<1>2. \A n : Target(n)' = Target(n)
  BY DEF Target, Program
<1>3. ASSUME NEW k \in Client, Sending(k) PROVE Sent(ServerOf(k), client[k].to)'
  <2>1. Sent(ServerOf(k), client[k].to)
    BY <1>3 DEF TInv, Calls
  <2>2. \A s \in Server, n \in Int : Sent(s, n) => Sent(s, n)'
    BY <1>1, Receivers
  <2>3. ServerOf(k)' = ServerOf(k)
    BY DEF ServerOf
  <2> QED
    BY <1>1, <2>1, <2>2, <2>3 DEF Sent, Up
<1>4. ASSUME wr'[W].pc \in {"call", "ok"} PROVE Sent("backup", wr[W].to)'
  <2>1. PICK n \in Int : n = wr[W].to /\ n = wr'[W].to
    BY <1>1, <1>4, OneWriter, Types DEF WrRecord
  <2>2. Sent("backup", n)'
    BY <1>1, <1>4, <2>1, Receivers DEF TInv, Calls, Server
  <2> QED
    BY <2>1, <2>2 DEF Sent
<1> QED
  BY <1>2, <1>3, <1>4 DEF TInv, Calls, Sending, Writing, Sent

\* A step leaves the clients alone and writes no file of a server in service;
\* a server that is whole after it has what one that was whole had before.
LEMMA DataFrame ==
  ASSUME CInv, StepKinds, UNCHANGED <<scenario, client, acked>>,
         \A s \in Server : \/ disk'[s] = disk[s]
                           \/ ~ InService(s) /\ \A a \in Address : disk'[s][a] <= Newest,
         \A s \in whole' : InService(s)' /\ \E r \in whole : disk'[s] = disk[r],
         WrongRead /\ ~ client[W].use_backup => "primary" \notin whole',
         wr'[W].pc = "ok" => wr'[W] = wr[W],
         memory'["backup"].dirty # << >> =>
           /\ memory["backup"].dirty # << >> /\ repl_state'["backup"] = "Standalone"
           /\ deaths'["backup"] = deaths["backup"],
         WrongRead /\ ~ client[W].use_backup /\ repl_state'["primary"] = "Recovering" =>
           disk'["primary"] = Zeros
  PROVE  Data'
<1> TInv /\ Data
  BY DEF CInv
<1>1. /\ TypeOK /\ W \in Client /\ W \in Writer
      /\ "primary" \in Server /\ "backup" \in Server /\ client[W].to \in Int
  BY OneWriter, DataTypes, ServerTypes DEF TInv, ClientRecord
<1>2. \A n : Target(n)' = Target(n)
  BY DEF Target, Program
<1>3. Numbered'
  BY DEF Data, Numbered, Newest, Writing
<1>4. \A s \in Server : InService(s) => disk'[s] = disk[s]
  OBVIOUS
<1>5. Stored'
  <2>1. ASSUME client[W].pc \in {"stored", "replicating"}, CallAlive(W)'
        PROVE  InService("primary")' /\ disk'["primary"][client[W].req.address] = client[W].calls
    <3>1. ServerOf(W) = "primary" /\ Sent("primary", client[W].to)
      BY <1>1, <2>1 DEF TInv, Calls, Sending, ServerOf
    <3>2. ~ Lost("primary", client[W].to)' /\ ~ Lost("primary", client[W].to)
      BY <1>1, <2>1, <3>1, Receivers DEF CallAlive, ServerOf, Lost, Up
    <3>3. InService("primary") /\ disk["primary"][client[W].req.address] = client[W].calls
      BY <2>1, <3>1, <3>2 DEF Data, Stored, CallAlive
    <3>4. deaths'["primary"] = deaths["primary"]
      BY <3>2 DEF Lost
    <3>5. InService("primary")'
      BY <1>1, <3>3, <3>4, Lives
    <3> QED
      BY <1>1, <1>4, <3>3, <3>5
  <2>2. ASSUME wr'[W].pc = "ok", ~ Lost("backup", wr[W].to)' \/ "backup" \in whole'
        PROVE  InService("backup")' /\ disk'["backup"][client[W].req.address] = client[W].calls
    <3>1. /\ wr[W].pc = "ok" /\ wr[W].to \in Int /\ Sent("backup", wr[W].to)
          /\ client[W].pc = "replicating" /\ CallAlive(W)
      BY <1>1, <2>2, Types, DataTypes DEF TInv, Calls, WrRecord
    <3>2. CASE ~ Lost("backup", wr[W].to)'
      <4>1. ~ Lost("backup", wr[W].to) /\ deaths'["backup"] = deaths["backup"]
        BY <1>1, <2>2, <3>1, <3>2, Receivers DEF Lost
      <4>2. InService("backup") /\ disk["backup"][client[W].req.address] = client[W].calls
        BY <3>1, <4>1 DEF Data, Stored
      <4>3. InService("backup")'
        BY <1>1, <4>1, <4>2, Lives
      <4> QED
        BY <1>1, <1>4, <4>2, <4>3
    <3>3. CASE "backup" \in whole'
      <4>1. PICK r \in whole : disk'["backup"] = disk[r]
        BY <3>3
      <4>2. r \in {"primary", "backup"}
        BY DataTypes DEF TInv, Server
      <4>3. disk[r][client[W].req.address] = client[W].calls
        BY <3>1, <4>1, <4>2 DEF Data, Stored
      <4> QED
        BY <3>3, <4>1, <4>3
    <3> QED
      BY <2>2, <3>2, <3>3
  <2> QED
    BY <2>1, <2>2 DEF Stored, Lost, Up
<1>6. WholeInService'
  BY DEF WholeInService
<1>7. LastWritten'
  <2> SUFFICES ASSUME NEW s \in whole'
               PROVE  /\ scenario = "blocks" => disk'[s]["block"] >= acked
                      /\ client[W].pc = "answered" /\ Writing =>
                           disk'[s][client[W].req.address] = client[W].calls
                      /\ ~ Writing /\ (scenario = "blocks" \/ client[W].calls > 0) =>
                           disk'[s][Target(client[W].calls)] = acked
    BY <1>2 DEF LastWritten, Writing
  <2>1. PICK r \in whole : disk'[s] = disk[r]
    OBVIOUS
  <2> QED
    BY <2>1 DEF Data, LastWritten
<1>8. DirtyAtBackup'
  <2> SUFFICES ASSUME memory'["backup"].dirty # << >>
               PROVE  /\ repl_state'["backup"] = "Standalone" /\ client[W].use_backup
                      /\ Sending(W) => CallAlive(W)'
    BY DEF DirtyAtBackup, Sending
  <2>1. client[W].use_backup /\ (Sending(W) => CallAlive(W)) /\ ServerOf(W) = "backup"
    BY DEF Data, DirtyAtBackup, ServerOf
  <2>2. Up("backup")' /\ ServerOf(W)' = "backup"
    BY <2>1 DEF Up, ServerOf
  <2> QED
    BY <1>1, <2>1, <2>2 DEF CallAlive, Lost
<1>9. WrongReads'
  BY DEF Data, WrongReads, WrongRead, Writing
<1> QED
  BY <1>3, <1>5, <1>6, <1>7, <1>8, <1>9 DEF Data

\* The same of a step that brings no server back whole.
LEMMA ServerFrame ==
  ASSUME CInv, StepKinds, UNCHANGED <<scenario, client, acked>>,
         \A s \in Server : \/ disk'[s] = disk[s]
                           \/ ~ InService(s) /\ \A a \in Address : disk'[s][a] <= Newest,
         \A s \in whole' : s \in whole /\ deaths'[s] = deaths[s],
         wr'[W].pc = "ok" => wr'[W] = wr[W],
         memory'["backup"].dirty # << >> =>
           /\ memory["backup"].dirty # << >> /\ repl_state'["backup"] = "Standalone"
           /\ deaths'["backup"] = deaths["backup"],
         WrongRead /\ ~ client[W].use_backup /\ repl_state'["primary"] = "Recovering" =>
           disk'["primary"] = Zeros
  PROVE  Data'
<1> TInv /\ Data
  BY DEF CInv
<1>1. \A s \in whole' : InService(s)' /\ disk'[s] = disk[s] /\ s \in whole
  BY DataTypes, ServerTypes, Lives DEF Data, TInv, WholeInService
<1>2. WrongRead /\ ~ client[W].use_backup => "primary" \notin whole'
  BY DEF Data, WrongReads
<1> QED
  BY <1>1, <1>2, DataFrame

LEMMA QuietStep ==
  ASSUME TInv, PInv', StepKinds, Quiet
  PROVE  Kept
<1>1. /\ TypeOK /\ repl_state \in [Server -> {"Down", "Recovering", "Normal", "Standalone"}]
      /\ deaths \in [Server -> Nat] /\ memory \in [Server -> MemoryRecord] /\ W \in Writer
      /\ NewProcess.dirty = << >> /\ "backup" \in Server /\ "primary" \in Server
  BY DataTypes, Types, OneWriter DEF TInv
<1>2. /\ memory' \in [Server -> MemoryRecord]
      /\ \A s \in Server : memory'[s] = IF deaths'[s] = deaths[s] THEN memory[s] ELSE NewProcess
  BY <1>1, MemoryType DEF TInv, Quiet
<1>3. \A s \in Server :
        /\ repl_state'[s] = "Recovering" => repl_state[s] = "Recovering"
        /\ repl_state[s] = "Standalone" /\ deaths'[s] = deaths[s] => repl_state'[s] = "Standalone"
  BY <1>1 DEF Quiet, procs, Die
<1>4. \A s \in whole' : s \in whole /\ s \in Server /\ deaths'[s] = deaths[s]
  BY DEF Quiet, Alive
<1>5. CTypeOK'
  <2>1. wr[W].pc = "idle" => wr'[W].pc = "idle"
    BY DEF Quiet
  <2>2. sentinel' \subseteq Server /\ whole' \subseteq Server /\ disk' \in [Server -> [Address -> Nat]]
    BY <1>4 DEF TInv, CTypeOK, Quiet
  <2> QED
    BY <1>2, <2>1, <2>2, TypesFrame DEF TInv, Quiet
<1>6. CInv => Data'
  <2> SUFFICES ASSUME CInv PROVE Data'
    OBVIOUS
  <2> Data
    BY DEF CInv
  <2>1. wr'[W].pc = "ok" => wr'[W] = wr[W]
    BY DEF Quiet
  <2>2. memory'["backup"].dirty # << >> =>
          /\ memory["backup"].dirty # << >> /\ repl_state'["backup"] = "Standalone"
          /\ deaths'["backup"] = deaths["backup"]
    BY <1>1, <1>2, <1>3 DEF Data, DirtyAtBackup
  <2>3. WrongRead /\ ~ client[W].use_backup /\ repl_state'["primary"] = "Recovering" =>
          disk'["primary"] = Zeros
    BY <1>1, <1>3 DEF Data, WrongReads, Quiet
  <2> QED
    BY <1>4, <2>1, <2>2, <2>3, ServerFrame DEF Quiet
<1>7. Calls'
  BY CallsFrame DEF Quiet
<1> QED
  BY <1>5, <1>6, <1>7 DEF Kept, TInv

LEMMA NoNewer == \A v \in Nat : \A x : x = v \/ x = 0 => x <= v
OBVIOUS

LEMMA WriteDataTypes ==
  /\ Zeros \in [Address -> Nat] /\ \A a \in Address : Zeros[a] = 0
  /\ \A a, v : v \in Nat =>
       /\ WriteData(a, v) \in [Address -> Nat]
       /\ \A b \in Address : WriteData(a, v)[b] = IF b = a THEN v ELSE 0
BY DEF Zeros, WriteData

LEMMA StartServerStep ==
  ASSUME TInv, PInv', StepKinds, NEW r \in Server, StartServer(r)
  PROVE  Kept
<1>1. /\ repl_state \in [Server -> {"Down", "Recovering", "Normal", "Standalone"}]
      /\ disk \in [Server -> [Address -> Nat]] /\ memory \in [Server -> MemoryRecord]
      /\ "backup" \in Server /\ "primary" \in Server
  BY DataTypes, Types DEF TInv
<1>2. /\ ~ Up(r) /\ ~ InService(r) /\ disk' = [disk EXCEPT ![r] = Zeros]
      /\ repl_state' = [repl_state EXCEPT ![r] = "Recovering"]
      /\ UNCHANGED <<deaths, wr, scenario, client, acked, seen, memory, sentinel, whole>>
  BY DEF StartServer, Start, Up, InService
<1>3. disk' \in [Server -> [Address -> Nat]] /\ disk'[r] = Zeros
  BY <1>1, <1>2, WriteDataTypes
<1>4. CTypeOK'
  <2>1. sentinel' \subseteq Server /\ whole' \subseteq Server
    BY <1>2 DEF TInv, CTypeOK
  <2> QED
    BY <1>1, <1>2, <1>3, <2>1, TypesFrame DEF TInv
<1>5. \A s \in Server : \/ disk'[s] = disk[s]
                        \/ ~ InService(s) /\ \A a \in Address : disk'[s][a] <= Newest
  <2>1. Newest \in Nat
    BY DataTypes DEF TInv, Newest
  <2> QED
    BY <1>1, <1>2, <1>3, <2>1, WriteDataTypes
<1>6. CInv => Data'
  <2> SUFFICES ASSUME CInv PROVE Data'
    OBVIOUS
  <2> Data
    BY DEF CInv
  <2>1. memory'["backup"].dirty # << >> =>
          /\ memory["backup"].dirty # << >> /\ repl_state'["backup"] = "Standalone"
          /\ deaths'["backup"] = deaths["backup"]
    BY <1>1, <1>2 DEF Data, DirtyAtBackup, Up
  <2>2. WrongRead /\ ~ client[W].use_backup /\ repl_state'["primary"] = "Recovering" =>
          disk'["primary"] = Zeros
    BY <1>1, <1>2, <1>3 DEF Data, WrongReads
  <2>3. /\ \A s \in whole' : s \in whole /\ deaths'[s] = deaths[s]
        /\ wr'[W].pc = "ok" => wr'[W] = wr[W]
    BY <1>2
  <2> QED
    BY <1>2, <1>5, <2>1, <2>2, <2>3, ServerFrame
<1>7. Calls'
  BY <1>2, CallsFrame
<1> QED
  BY <1>4, <1>6, <1>7 DEF Kept, TInv

\* The file of a server after a sync: each block comes from the helper's.
LEMMA SyncedFacts ==
  ASSUME TInv, NEW s \in Server, NEW h \in Server, NEW file \in Synced(s, h)
  PROVE  /\ file \in [Address -> Nat]
         /\ Numbered => \A a \in Address : file[a] <= Newest
         /\ memory[h].dirty = << >> => file = disk[s]
<1>1. /\ disk[s] \in [Address -> Nat] /\ disk[h] \in [Address -> Nat] /\ Newest \in Nat
      /\ memory[h].dirty \in Seq(Address)
      /\ Numbered => \A r \in Server, a \in Address : disk[r][a] <= Newest
  BY DataTypes DEF TInv, Newest, MemoryRecord, Numbered
<1> DEFINE dirty == memory[h].dirty
<1>2. CASE dirty = << >>
  BY <1>1, <1>2 DEF Synced
<1>3. CASE dirty # << >>
  <2>1. dirty[Len(dirty)] \in Address
    BY <1>1, <1>3
  <2>2. PICK a \in Address \union {"elsewhere"} : file = WriteData(a, disk[h][dirty[Len(dirty)]])
    BY <1>3 DEF Synced
  <2> DEFINE v == disk[h][dirty[Len(dirty)]]
  <2>3. v \in Nat /\ (Numbered => v <= Newest)
    BY <1>1, <2>1
  <2>4. file = WriteData(a, v)
    BY <2>2
  <2> HIDE DEF v
  <2>5. file \in [Address -> Nat] /\ \A b \in Address : file[b] = IF b = a THEN v ELSE 0
    BY <2>3, <2>4, WriteDataTypes
  <2>6. ASSUME Numbered, NEW b \in Address PROVE file[b] <= Newest
    <3>1. file[b] = v \/ file[b] = 0
      BY <2>5
    <3> QED
      BY <1>1, <2>3, <2>6, <3>1
  <2> QED
    BY <1>3, <2>5, <2>6
<1> QED
  BY <1>2, <1>3

LEMMA DeliverBlocksStep ==
  ASSUME TInv, PInv', StepKinds, NEW t \in Attempt, DeliverBlocks(t)
  PROVE  Kept
<1> DEFINE r == requester[t]
<1>1. /\ disk \in [Server -> [Address -> Nat]] /\ memory \in [Server -> MemoryRecord]
      /\ "backup" \in Server /\ "primary" \in Server
      /\ r \in Server /\ Host(t) \in Server /\ Host(t) = Other(r)
  BY DataTypes, Hosting DEF TInv
<1>2. UNCHANGED <<repl_state, deaths, wr, scenario, client, acked, seen, memory, sentinel, whole>>
  BY DEF DeliverBlocks, SendFinish
<1>3. PICK file \in [Address -> Nat] :
        /\ Numbered => \A a \in Address : file[a] <= Newest
        /\ memory[Host(t)].dirty = << >> => file = disk[r]
        /\ disk' = disk \/ (disk' = [disk EXCEPT ![r] = file] /\ repl_state[r] = "Recovering")
  <2>1. CASE CurrentSync(t)
    BY <1>1, <2>1, SyncedFacts DEF DeliverBlocks, CurrentSync
  <2>2. CASE ~ CurrentSync(t)
    <3>1. disk[r] \in [Address -> Nat] /\ (Numbered => \A a \in Address : disk[r][a] <= Newest)
      BY <1>1 DEF Numbered
    <3> QED
      BY <2>2, <3>1 DEF DeliverBlocks
  <2> QED
    BY <2>1, <2>2
<1>4. disk' \in [Server -> [Address -> Nat]]
  BY <1>1, <1>3
<1>5. CTypeOK'
  <2>1. sentinel' \subseteq Server /\ whole' \subseteq Server
    BY <1>2 DEF TInv, CTypeOK
  <2> QED
    BY <1>1, <1>2, <1>4, <2>1, TypesFrame DEF TInv
<1>6. CInv => Data'
  <2> SUFFICES ASSUME CInv PROVE Data'
    OBVIOUS
  <2> Data
    BY DEF CInv
  <2>1. \A s \in Server : \/ disk'[s] = disk[s]
                          \/ ~ InService(s) /\ \A a \in Address : disk'[s][a] <= Newest
    BY <1>1, <1>3 DEF Data, InService
  <2>2. memory'["backup"].dirty # << >> =>
          memory["backup"].dirty # << >> /\ repl_state'["backup"] = "Standalone"
    BY <1>2 DEF Data, DirtyAtBackup
\* The backup, which would send the blocks, has none while the client is not with it.
  <2>3. WrongRead /\ ~ client[W].use_backup /\ repl_state'["primary"] = "Recovering" =>
          disk'["primary"] = Zeros
    <3>1. ~ client[W].use_backup /\ r = "primary" => disk'["primary"] = disk["primary"]
      BY <1>1, <1>3 DEF Data, DirtyAtBackup, Other
    <3>2. r # "primary" => disk'["primary"] = disk["primary"]
      BY <1>1, <1>3
    <3> QED
      BY <1>2, <3>1, <3>2 DEF Data, WrongReads
  <2>4. /\ \A s \in whole' : s \in whole /\ deaths'[s] = deaths[s]
        /\ wr'[W].pc = "ok" => wr'[W] = wr[W]
        /\ deaths'["backup"] = deaths["backup"]
    BY <1>2
  <2> QED
    BY <1>2, <2>1, <2>2, <2>3, <2>4, ServerFrame
<1>7. Calls'
  BY <1>2, CallsFrame
<1> QED
  BY <1>5, <1>6, <1>7 DEF Kept, TInv

LEMMA HelperResumesStep ==
  ASSUME TInv, PInv', StepKinds, NEW t \in Attempt, HelperResumes(t)
  PROVE  Kept
<1> DEFINE h == Host(t)
<1>1. /\ disk \in [Server -> [Address -> Nat]] /\ memory \in [Server -> MemoryRecord]
      /\ repl_state \in [Server -> {"Down", "Recovering", "Normal", "Standalone"}]
      /\ "backup" \in Server /\ "primary" \in Server /\ h \in Server
  BY DataTypes, Types, Hosting DEF TInv
<1>2. /\ UNCHANGED <<deaths, wr, scenario, client, disk, acked, seen, sentinel>>
      /\ whole' = whole
  <2>1. whole' = whole \intersect Alive /\ whole \subseteq Server /\ UNCHANGED deaths
    BY DataTypes DEF TInv, HelperResumes, NoWrite, FinishAnswered
  <2> QED
    BY <2>1 DEF HelperResumes, NoWrite, FinishAnswered, Alive
<1>3. \/ /\ repl_state' = [repl_state EXCEPT ![h] = "Normal"]
         /\ memory' = [memory EXCEPT ![h].dirty = << >>] /\ SyncRunning(t)
      \/ UNCHANGED <<repl_state, memory>>
  BY DEF HelperResumes, FinishAnswered, SyncRunning
<1>4. memory' \in [Server -> MemoryRecord]
  <2>1. [memory[h] EXCEPT !.dirty = << >>] \in MemoryRecord
    <3>1. << >> \in Seq(Address)
      BY EmptySeq
    <3> HIDE DEF h
    <3> QED
      BY <1>1, <3>1 DEF MemoryRecord
  <2> QED
    BY <1>1, <1>3, <2>1
<1>5. CTypeOK'
  <2>1. sentinel' \subseteq Server /\ whole' \subseteq Server
    BY <1>2 DEF TInv, CTypeOK
  <2>2. SyncRunning(t) => Up(h)
    BY ServerTypes DEF TInv, IInv, HelperInService, InService, Up
  <2>3. \A s \in Server : Up(s) \/ memory'[s] = memory[s]
    BY <1>1, <1>3, <2>2
  <2> QED
    BY <1>1, <1>2, <1>4, <2>1, <2>3, TypesFrame DEF TInv
<1>6. CInv => Data'
  <2> SUFFICES ASSUME CInv PROVE Data'
    OBVIOUS
  <2> Data
    BY DEF CInv
  <2>1. memory'["backup"].dirty # << >> =>
          memory["backup"].dirty # << >> /\ repl_state'["backup"] = "Standalone"
    <3>1. h = "backup" /\ ~ UNCHANGED <<repl_state, memory>> => memory'["backup"].dirty = << >>
      BY <1>1, <1>3 DEF MemoryRecord
    <3>2. h # "backup" \/ UNCHANGED <<repl_state, memory>> =>
            memory'["backup"] = memory["backup"] /\ repl_state'["backup"] = repl_state["backup"]
      BY <1>1, <1>3
    <3> QED
      BY <3>1, <3>2 DEF Data, DirtyAtBackup
  <2>2. WrongRead /\ ~ client[W].use_backup /\ repl_state'["primary"] = "Recovering" =>
          disk'["primary"] = Zeros
    <3>1. repl_state'["primary"] = "Recovering" => repl_state["primary"] = "Recovering"
      BY <1>1, <1>3
    <3> QED
      BY <1>2, <3>1 DEF Data, WrongReads
  <2>3. /\ \A s \in whole' : s \in whole /\ deaths'[s] = deaths[s]
        /\ wr'[W].pc = "ok" => wr'[W] = wr[W]
        /\ deaths'["backup"] = deaths["backup"]
    BY <1>2
  <2> QED
    BY <1>2, <2>1, <2>2, <2>3, ServerFrame
<1>7. Calls'
  BY <1>2, CallsFrame
<1> QED
  BY <1>5, <1>6, <1>7 DEF Kept, TInv

\* The block of a call is the one that Target names.
LEMMA TargetOfCall ==
  ASSUME TInv, Sending(W)
  PROVE  /\ client[W].req.address = Target(client[W].calls)
         /\ client[W].req.address \in Address /\ client[W].calls > 0
         /\ scenario = "blocks" => client[W].req.address = "block"
BY DataTypes DEF TInv, Calls, ClientRecord, Target

LEMMA ResumeStep ==
  ASSUME TInv, PInv', StepKinds, NEW t \in Attempt, Resume(t)
  PROVE  Kept
<1> DEFINE p == requester[t]
           h == Host(t)
<1>1. /\ disk \in [Server -> [Address -> Nat]] /\ memory \in [Server -> MemoryRecord]
      /\ repl_state \in [Server -> {"Down", "Recovering", "Normal", "Standalone"}]
      /\ "backup" \in Server /\ "primary" \in Server /\ p \in Server /\ h \in Server
      /\ whole \subseteq Server
  BY DataTypes, Types, Hosting DEF TInv
<1>2. /\ UNCHANGED <<deaths, wr, scenario, client, disk, acked, seen, memory, sentinel>>
      /\ whole' = IF CurrentSync(t) /\ h \in whole /\ disk[p] = disk[h]
                  THEN whole \union {p} ELSE whole
      /\ FinishSync(t)
  BY DEF Resume, FinishSync
<1>3. \/ /\ CurrentSync(t) /\ repl_state[p] = "Recovering"
         /\ repl_state' = [repl_state EXCEPT ![p] = "Normal"]
      \/ ~ CurrentSync(t) /\ repl_state' = repl_state
  BY <1>2 DEF FinishSync, CurrentSync
<1>4. CTypeOK'
  <2>1. sentinel' \subseteq Server /\ whole' \subseteq Server
    BY <1>1, <1>2 DEF TInv, CTypeOK
  <2> QED
    BY <1>1, <1>2, <2>1, TypesFrame DEF TInv
<1>5. CInv => Data'
  <2> SUFFICES ASSUME CInv PROVE Data'
    OBVIOUS
  <2> Data
    BY DEF CInv
  <2>1. \A s \in whole' : InService(s)' /\ \E r \in whole : disk'[s] = disk[r]
    <3>1. \A s \in whole : InService(s)'
      BY <1>1, <1>3 DEF Data, WholeInService, InService
    <3>2. CurrentSync(t) => repl_state'[p] = "Normal"
      BY <1>1, <1>3
    <3> QED
      BY <1>1, <1>2, <3>1, <3>2 DEF InService
\* The primary is not brought back whole while a wrong answer of it is on its
\* way: it would have the zeros of its restart, which are what the backup, if
\* it was whole, would have been given last.
  <2>2. WrongRead /\ ~ client[W].use_backup => "primary" \notin whole'
    <3> SUFFICES ASSUME WrongRead, ~ client[W].use_backup, "primary" \in whole'
                 PROVE  FALSE
      OBVIOUS
    <3>1. "primary" \notin whole /\ (repl_state["primary"] = "Recovering" => disk["primary"] = Zeros)
      BY DEF Data, WrongReads
    <3>2. p = "primary" /\ h \in whole /\ disk[h] = Zeros
      BY <1>2, <1>3, <3>1
    <3>3. Sending(W) /\ ~ Writing /\ client[W].reply # acked /\ client[W].reply <= acked
      BY DEF WrongRead, Sending, Data, Numbered
    <3>4. client[W].calls > 0 /\ Target(client[W].calls) \in Address
      BY <3>3, TargetOfCall
    <3>5. disk[h][Target(client[W].calls)] = acked
      BY <3>2, <3>3, <3>4 DEF Data, LastWritten
    <3>6. acked = 0
      BY <3>2, <3>4, <3>5, WriteDataTypes
    <3>7. client[W].reply \in Nat
      BY DataTypes DEF TInv, ClientRecord
    <3> QED
      BY <3>3, <3>6, <3>7
  <2>3. memory'["backup"].dirty # << >> =>
          memory["backup"].dirty # << >> /\ repl_state'["backup"] = "Standalone"
    BY <1>1, <1>2, <1>3 DEF Data, DirtyAtBackup
  <2>4. WrongRead /\ ~ client[W].use_backup /\ repl_state'["primary"] = "Recovering" =>
          disk'["primary"] = Zeros
    <3>1. repl_state'["primary"] = "Recovering" => repl_state["primary"] = "Recovering"
      BY <1>1, <1>3
    <3> QED
      BY <1>2, <3>1 DEF Data, WrongReads
  <2>5. \A s \in Server : disk'[s] = disk[s]
    BY <1>2
  <2>6. wr'[W].pc = "ok" => wr'[W] = wr[W]
    BY <1>2
  <2> QED
    BY <1>2, <2>1, <2>2, <2>3, <2>4, <2>5, <2>6, DataFrame
<1>6. Calls'
  BY <1>2, CallsFrame
<1> QED
  BY <1>4, <1>5, <1>6 DEF Kept, TInv

\* A BackupWrite in Standalone ends the backup and stores nothing.
LEMMA BackupExits ==
  ASSUME TInv, NEW w \in Writer, BackupStores(w), Exit("backup", "BackupWrite in Standalone")
  PROVE  Quiet
<1> DEFINE m == [memory EXCEPT !["backup"].crash_flag = @ \/ client[w].req.address = Prep("backup")]
<1>1. /\ TypeOK /\ NoOrphans /\ "backup" \in Server /\ Die("backup")
      /\ deaths'["backup"] # deaths["backup"]
  BY ServerTypes, DieCounts DEF TInv, Exit, Server
<1>2. repl_state["backup"] # "Normal"
  <2>1. CASE repl_state["backup"] = "Normal" /\ UNCHANGED procs
    BY <1>1, <2>1, DieCounts DEF procs
  <2> QED
    BY <1>1, <2>1 DEF BackupStores, BackupWrite
<1>3. \A s \in Server : s # "backup" => m[s] = memory[s]
  BY DataTypes DEF TInv
<1>4. Memory(m)
  BY DEF BackupStores
<1> HIDE DEF m
<1>5. Memory(memory)
  BY <1>1, <1>3, <1>4 DEF Memory
<1>6. wr'[W] = wr[W] \/ wr'[W].pc = "idle"
  BY <1>1, DyingWriter
<1> QED
  BY <1>1, <1>2, <1>5, <1>6 DEF BackupStores, Quiet

\* The writing client waits for the answer at the primary.
LEMMA BackupAnswers ==
  ASSUME TInv, PInv', StepKinds, NEW w \in Writer, BackupStores(w),
         ~ Exit("backup", "BackupWrite in Standalone")
  PROVE  Kept
<1> DEFINE a == client[W].req.address
<1>1. /\ disk \in [Server -> [Address -> Nat]] /\ memory \in [Server -> MemoryRecord]
      /\ repl_state \in [Server -> {"Down", "Recovering", "Normal", "Standalone"}]
      /\ "backup" \in Server /\ "primary" \in Server /\ whole \subseteq Server
      /\ w = W /\ wr[W] \in WrRecord /\ wr \in [Writer -> WrRecord] /\ W \in Writer
  BY DataTypes, Types, OneWriter DEF TInv
<1>2. /\ UNCHANGED <<scenario, client, acked, seen, sentinel>> /\ BackupWrite(W)
      /\ whole' = whole \intersect Alive
      /\ Memory([memory EXCEPT !["backup"].crash_flag = @ \/ a = Prep("backup")])
      /\ disk' = IF repl_state["backup"] = "Normal"
                 THEN [disk EXCEPT !["backup"] = WriteData(a, client[W].calls)] ELSE disk
  BY <1>1 DEF BackupStores
<1>3. wr[W].pc = "call" /\ ~ Lost("backup", wr[W].to)
  BY <1>1, <1>2, ServerTypes DEF BackupWrite, TInv, NoOrphans
<1>5. UNCHANGED procs
  BY <1>2 DEF BackupWrite
<1>6. whole' = whole /\ UNCHANGED <<repl_state, deaths>>
  BY <1>1, <1>2, <1>5 DEF Alive, procs
<1>7. PICK pc \in {"ok", "failed"} :
        /\ wr'[W].pc = pc /\ wr'[W].to = wr[W].to
        /\ repl_state["backup"] = IF pc = "ok" THEN "Normal" ELSE "Recovering"
  <2>1. \A pc \in {"ok", "failed"} :
          /\ Return(wr[W], pc, Thread("idle")).pc = pc
          /\ Return(wr[W], pc, Thread("idle")).to = wr[W].to
    BY <1>1, <1>3 DEF Return, WrRecord
  <2> QED
    BY <1>1, <1>2, <2>1 DEF BackupWrite
<1>8. /\ client[W].pc = "replicating" /\ Sending(W) /\ Writing /\ Newest = client[W].calls
      /\ a \in Address /\ client[W].calls \in Nat
      /\ scenario = "blocks" => a = "block"
  <2>1. client[W].pc = "replicating" /\ client[W].calls \in Nat
    BY <1>3, DataTypes DEF TInv
  <2>2. Writing
    BY <2>1, OneWriter DEF TInv, Calls, Writing
  <2> QED
    BY <2>1, <2>2, TargetOfCall DEF Sending, Newest
<1>9. /\ memory' \in [Server -> MemoryRecord] /\ memory'["backup"].dirty = memory["backup"].dirty
      /\ memory'["primary"] = memory["primary"]
  <2> DEFINE m == [memory EXCEPT !["backup"].crash_flag = @ \/ a = Prep("backup")]
  <2>1. (memory["backup"].crash_flag \/ a = Prep("backup")) \in BOOLEAN
    BY <1>1 DEF MemoryRecord
  <2>2. /\ m \in [Server -> MemoryRecord] /\ m["backup"].dirty = memory["backup"].dirty
        /\ m["primary"] = memory["primary"]
    BY <1>1, <2>1 DEF MemoryRecord
  <2>3. Memory(m)
    BY <1>2
  <2> HIDE DEF m
  <2>4. memory' = [s \in Server |-> m[s]]
    BY <1>6, <2>3 DEF Memory
  <2> QED
    BY <1>1, <2>2, <2>4
<1>10. disk' \in [Server -> [Address -> Nat]]
  BY <1>1, <1>2, <1>8, WriteDataTypes
<1>11. CTypeOK'
  <2>1. sentinel' \subseteq Server /\ whole' \subseteq Server
    BY <1>1, <1>2, <1>6 DEF TInv, CTypeOK
  <2>2. Up("backup") /\ \A s \in Server : s = "primary" \/ s = "backup"
    BY <1>3 DEF Lost, Server
  <2>3. \A s \in Server : deaths'[s] = deaths[s] /\ (Up(s) \/ memory'[s] = memory[s])
    BY <1>6, <1>9, <2>2
  <2> QED
    BY <1>2, <1>3, <1>9, <1>10, <2>1, <2>3, TypesFrame DEF TInv
<1>12. Calls'
  BY <1>2, <1>3, <1>7, CallsFrame
<1>13. CInv => Data'
  <2> SUFFICES ASSUME CInv PROVE Data'
    OBVIOUS
  <2> Data
    BY DEF CInv
  <2>1. CASE pc = "failed"
    <3>1. /\ \A s \in Server : disk'[s] = disk[s]
          /\ \A s \in whole' : s \in whole /\ deaths'[s] = deaths[s]
          /\ ~ WrongRead
      BY <1>2, <1>6, <1>7, <1>8, <2>1 DEF WrongRead
    <3>2. memory'["backup"].dirty # << >> =>
            /\ memory["backup"].dirty # << >> /\ repl_state'["backup"] = "Standalone"
            /\ deaths'["backup"] = deaths["backup"]
      BY <1>6, <1>9 DEF Data, DirtyAtBackup
    <3> QED
      BY <1>2, <1>7, <2>1, <3>1, <3>2, ServerFrame
  <2>2. CASE pc = "ok"
    <3>1. /\ disk'["primary"] = disk["primary"]
          /\ disk'["backup"] = WriteData(a, client[W].calls)
          /\ \A b \in Address : disk'["backup"][b] = IF b = a THEN client[W].calls ELSE 0
      <4>1. disk' = [disk EXCEPT !["backup"] = WriteData(a, client[W].calls)]
        BY <1>2, <1>7, <2>2
      <4>2. \A b \in Address : WriteData(a, client[W].calls)[b] = IF b = a THEN client[W].calls ELSE 0
        BY DEF WriteData
      <4> QED
        BY <1>1, <4>1, <4>2
    <3>2. \A s \in Server : s = "primary" \/ s = "backup"
      BY DEF Server
    <3>3. Numbered'
      <4>1. ASSUME NEW s \in Server, NEW b \in Address PROVE disk'[s][b] <= client[W].calls
        <5>1. disk[s][b] <= client[W].calls
          BY <1>8 DEF Data, Numbered
        <5>2. disk'["backup"][b] = client[W].calls \/ disk'["backup"][b] = 0
          BY <3>1
        <5>3. CASE s = "backup"
          BY <1>8, <5>2, <5>3, NoNewer
        <5>4. CASE s = "primary"
          BY <3>1, <5>1, <5>4
        <5> QED
          BY <3>2, <5>3, <5>4
      <4> QED
        BY <1>2, <1>8, <4>1 DEF Data, Numbered, Newest, Writing
    <3>4. Stored'
      <4>1. CallAlive(W)' => CallAlive(W) /\ UNCHANGED <<client, repl_state>>
        BY <1>2, <1>6 DEF CallAlive, ServerOf, Lost, Up
      <4>2. InService("backup")' /\ disk'["backup"][a] = client[W].calls
        BY <1>6, <1>7, <1>8, <2>2, <3>1 DEF InService
      <4> QED
        BY <1>2, <3>1, <4>1, <4>2 DEF Data, Stored, InService
    <3>5. WholeInService'
      BY <1>6 DEF Data, WholeInService, InService
    <3>6. LastWritten'
      <4>1. "block" \in Address
        BY DEF Address
      <4>2. acked \in Nat /\ acked <= client[W].calls
        BY DataTypes DEF TInv, Data, Numbered
      <4>3. ASSUME NEW s \in whole, scenario = "blocks" PROVE disk'[s]["block"] >= acked
        <5>1. CASE s = "backup"
          BY <1>8, <3>1, <4>1, <4>2, <4>3, <5>1
        <5>2. CASE s # "backup"
          BY <1>1, <3>1, <3>2, <4>3, <5>2 DEF Data, LastWritten
        <5> QED
          BY <5>1, <5>2
      <4> QED
        BY <1>2, <1>6, <1>8, <4>3 DEF LastWritten, Writing
    <3>7. DirtyAtBackup' /\ WrongReads'
      BY <1>2, <1>7, <1>8, <1>9, <2>2 DEF Data, DirtyAtBackup, WrongReads, WrongRead
    <3> QED
      BY <3>3, <3>4, <3>5, <3>6, <3>7 DEF Data
  <2> QED
    BY <1>7, <2>1, <2>2
<1> QED
  BY <1>11, <1>12, <1>13 DEF Kept, TInv

LEMMA BackupStoresStep ==
  ASSUME TInv, PInv', StepKinds, NEW w \in Writer, BackupStores(w)
  PROVE  Kept
BY BackupExits, BackupAnswers, QuietStep

----------------------------------------------------------------------------
(***************************************************************************)
(* Steps of the clients.                                                   *)
(***************************************************************************)
\* The server that a client calls.
ServerFor(use_backup) == IF use_backup THEN "backup" ELSE "primary"

\* A server in Standalone whose lock is free has the service for itself.
LEMMA ServesAlone ==
  ASSUME PInv, Alone, NEW s \in Server, CanLock(s), repl_state[s] = "Standalone"
  PROVE  ~ InService(Other(s))
<1> SUFFICES ASSUME InService(Other(s)) PROVE FALSE
  OBVIOUS
<1>1. PICK t \in Attempt : requester[t] = Other(s) /\ sync[t].pc = "finish_ok"
  BY DEF Alone, HandsBack
<1>2. Host(t) = s /\ Finishing(t)
  BY <1>1, Others DEF Host, Finishing
<1> QED
  BY <1>2, Bounds DEF PInv, HInv, Threads, LockHeld, CanLock

\* A step of a client that does not store or replicate a block.
LEMMA CallerFrame ==
  ASSUME TInv, PInv', NEW k \in Client, NEW c \in ClientRecord,
         client' = [client EXCEPT ![k] = c],
         UNCHANGED <<vars, scenario, disk, memory, sentinel, whole>>,
         acked' \in Nat, seen' \in [Reader -> Nat],
         c.pc \in {"idle", "sent", "answered"},
         c.pc # "idle" => Sent(ServerFor(c.use_backup), c.to),
         k \in Reader => c.req.op # "Write",
         k = W => /\ wr[W].pc = "idle" /\ (c.pc = "idle" => c.req.op # "Write")
                  /\ c.pc # "idle" => c.calls > 0 /\ c.req.address = Target(c.calls),
         CInv => Numbered' /\ LastWritten' /\ DirtyAtBackup' /\ WrongReads'
  PROVE  Kept
<1>1. /\ client \in [Client -> ClientRecord] /\ W \in Client /\ W \notin Reader
      /\ client'[k] = c /\ \A j \in Client : j # k => client'[j] = client[j]
      /\ \A j \in Reader : j \in Client
  BY DataTypes, OneWriter DEF TInv, Client
<1>2. client' \in [Client -> ClientRecord]
  BY <1>1
<1>3. UNCHANGED <<repl_state, deaths, wr>>
  BY DEF vars, procs
<1>4. ASSUME wr[W].pc # "idle"
      PROVE  client'[W] = client[W] /\ client[W].pc = "replicating" /\ CallAlive(W)
  BY <1>1, <1>4, DataTypes DEF TInv
<1>5. CTypeOK'
  <2>1. TypeOK' /\ \A w \in Writer : w = W
    BY OneWriter DEF PInv, HInv, IInv
  <2>2. wr'[W].pc # "idle" => client'[W].pc = "replicating" /\ CallAlive(W)'
    BY <1>3, <1>4 DEF CallAlive, ServerOf, Lost, Up
  <2> QED
    BY <1>2, <1>3, <2>1, <2>2 DEF TInv, CTypeOK, ClientRecord, Up
<1>6. \A n : Target(n)' = Target(n)
  BY DEF Target, Program
<1>7. Calls'
  <2>1. ASSUME NEW j \in Client, client'[j].pc # "idle"
        PROVE  Sent(ServerFor(client'[j].use_backup), client'[j].to)
    <3>1. CASE j = k
      BY <1>1, <2>1, <3>1
    <3>2. CASE j # k
      BY <1>1, <2>1, <3>2 DEF TInv, Calls, Sending, ServerOf, ServerFor
    <3> QED
      BY <3>1, <3>2
  <2>2. \A j \in Client : Sending(j)' => Sent(ServerOf(j), client[j].to)'
    BY <1>3, <2>1 DEF Sending, ServerOf, ServerFor, Sent, Up
  <2>3. /\ \A j \in Reader : client'[j].req.op # "Write"
        /\ \A j \in Client : client'[j].pc \in {"stored", "replicating"} =>
             ~ client'[j].use_backup /\ client'[j].req.op = "Write"
    BY <1>1 DEF TInv, Calls
  <2>4. /\ client'[W].pc = "idle" => client'[W].req.op # "Write"
        /\ client'[W].pc # "idle" =>
             client'[W].calls > 0 /\ client'[W].req.address = Target(client'[W].calls)
    BY <1>1 DEF TInv, Calls, Sending, Writing
  <2>5. wr'[W].pc \in {"call", "ok"} => Sent("backup", wr[W].to)'
    BY <1>3 DEF TInv, Calls, Sent, Up
  <2> QED
    BY <1>6, <2>2, <2>3, <2>4, <2>5 DEF Calls, Sending, Writing
<1>8. CInv => Stored'
  <2>1. client'[W] = client[W] \/ client'[W].pc \notin {"stored", "replicating"}
    BY <1>1
  <2>2. wr[W].pc = "ok" => client'[W] = client[W]
    BY <1>4
  <2> QED
    BY <1>3, <2>1, <2>2 DEF CInv, Data, Stored, CallAlive, ServerOf, Lost, Up, InService
<1>9. CInv => WholeInService'
  BY <1>3 DEF CInv, Data, WholeInService, InService
<1> QED
  BY <1>5, <1>7, <1>8, <1>9 DEF Kept, TInv, Data

\* The readers change nothing that the writing client relies on.
LEMMA ReaderFrame ==
  ASSUME TInv, PInv', NEW k \in Client, k # W, NEW c \in ClientRecord,
         client' = [client EXCEPT ![k] = c],
         UNCHANGED <<vars, scenario, disk, memory, sentinel, whole, acked>>,
         seen' \in [Reader -> Nat],
         c.pc \in {"idle", "sent", "answered"}, c.req.op # "Write",
         c.pc # "idle" => Sent(ServerFor(c.use_backup), c.to)
  PROVE  Kept
<1>1. W \in Client /\ client'[W] = client[W] /\ client \in [Client -> ClientRecord] /\ acked \in Nat
  BY DataTypes, OneWriter DEF TInv
<1>2. UNCHANGED <<repl_state, deaths, wr>> /\ \A n : Target(n)' = Target(n)
  BY DEF vars, procs, Target, Program
<1>3. CInv => Numbered'
  BY <1>1 DEF CInv, Data, Numbered, Newest, Writing
<1>4. CInv => LastWritten'
  BY <1>1, <1>2 DEF CInv, Data, LastWritten, Writing
<1>5. CInv => DirtyAtBackup'
  BY <1>1, <1>2 DEF CInv, Data, DirtyAtBackup, Sending, CallAlive, ServerOf, Lost, Up
<1>6. CInv => WrongReads'
  BY <1>1, <1>2 DEF CInv, Data, WrongReads, WrongRead, Writing
<1> QED
  BY <1>1, <1>3, <1>4, <1>5, <1>6, CallerFrame

LEMMA BeginCallStep ==
  ASSUME TInv, PInv', NEW k \in Client, Begin(k)
  PROVE  Kept
<1>1. /\ client \in [Client -> ClientRecord] /\ client[k] \in ClientRecord /\ client[k].pc = "idle"
      /\ ServerOf(k) \in Server /\ TypeOK /\ acked \in Nat
      /\ "backup" \in Server /\ (k \in Reader \/ k = W)
  BY DataTypes, OneWriter, ServerOfType DEF TInv, Begin, Client
<1>2. PICK q \in NextCalls(k) :
        client' = [client EXCEPT ![k] = [@ EXCEPT !.pc = "sent", !.to = Incarnation(ServerOf(k)),
                                                  !.calls = client[k].calls + 1, !.req = q]]
  BY DEF Begin
<1> DEFINE c == [client[k] EXCEPT !.pc = "sent", !.to = Incarnation(ServerOf(k)),
                                  !.calls = client[k].calls + 1, !.req = q]
<1>3. /\ q \in Requests /\ (k \in Reader => q.op = "Read")
      /\ k = W => /\ q.address = Target(client[W].calls + 1)
                  /\ q.op = "Read" => /\ scenario = "blocks" \/ client[W].calls > 0
                                      /\ Target(client[W].calls + 1) = Target(client[W].calls)
  BY NextCallFacts DEF TInv
<1>4. /\ c \in ClientRecord /\ c.pc = "sent" /\ c.to = Incarnation(ServerOf(k))
      /\ c.calls = client[k].calls + 1 /\ c.req = q /\ c.use_backup = client[k].use_backup
      /\ client' = [client EXCEPT ![k] = c]
  <2>1. Incarnation(ServerOf(k)) \in Int
    BY <1>1, SentNow
  <2>2. q \in [op : {"none", "Read", "Write"}, address : Address]
    BY <1>3 DEF Requests
  <2>3. client' = [client EXCEPT ![k] = c]
    BY <1>2
  <2>4. /\ c \in ClientRecord /\ c.pc = "sent" /\ c.to = Incarnation(ServerOf(k))
        /\ c.calls = client[k].calls + 1 /\ c.req = q /\ c.use_backup = client[k].use_backup
    <3> DEFINE r == client[k]
               n == Incarnation(ServerOf(k))
               m == r.calls + 1
    <3>1. /\ c = [r EXCEPT !.pc = "sent", !.to = n, !.calls = m, !.req = q]
          /\ r \in ClientRecord /\ n \in Int /\ m \in Nat
      BY <1>1, <2>1 DEF ClientRecord
    <3> HIDE DEF c, r, n, m
    <3>2. c \in ClientRecord
      BY <2>2, <3>1 DEF ClientRecord
    <3>3. /\ c.pc = "sent" /\ c.to = n
          /\ c.calls = m /\ c.req = q /\ c.use_backup = r.use_backup
      BY <2>2, <3>1 DEF ClientRecord
    <3> QED
      BY <3>2, <3>3 DEF r, n, m
  <2> QED
    BY <2>3, <2>4
<1> HIDE DEF c
<1>5. /\ UNCHANGED <<vars, scenario, disk, memory, sentinel, acked, seen, whole>>
      /\ seen \in [Reader -> Nat]
  BY DEF Begin, TInv, CTypeOK
<1>6. Sent(ServerFor(c.use_backup), c.to)
  BY <1>1, <1>4, SentNow DEF ServerFor, ServerOf
<1>7. CASE k # W
  BY <1>1, <1>3, <1>4, <1>5, <1>6, <1>7, ReaderFrame
<1>8. CASE k = W
  <2>1. /\ client'[W] = c /\ ~ Writing /\ client[W].calls \in Nat /\ wr[W].pc = "idle"
        /\ q.op \in {"Read", "Write"}
    BY <1>1, <1>3, <1>4, <1>8, DataTypes DEF TInv, Calls, ClientRecord, Requests
  <2>2. /\ Writing' <=> q.op = "Write"
        /\ \A n : Target(n)' = Target(n)
    BY <1>4, <1>5, <2>1 DEF Writing, Target, Program
  <2>3. CInv => Numbered'
    <3> SUFFICES ASSUME CInv PROVE Numbered'
      OBVIOUS
    <3>1. /\ acked <= client[W].calls /\ \A s \in Server, a \in Address : disk[s][a] <= acked
          /\ Newest' \in {acked, client[W].calls + 1}
      BY <1>4, <1>5, <1>8, <2>1, <2>2 DEF CInv, Data, Numbered, Newest
    <3>2. disk \in [Server -> [Address -> Nat]]
      BY DataTypes DEF TInv
    <3>3. \A s \in Server, a \in Address : disk[s][a] <= Newest'
      BY <1>1, <2>1, <3>1, <3>2
    <3> QED
      BY <1>1, <1>4, <1>5, <1>8, <2>1, <3>1, <3>3 DEF Numbered
  <2>4. CInv => LastWritten'
    BY <1>3, <1>4, <1>5, <1>8, <2>1, <2>2 DEF CInv, Data, LastWritten
  <2>5. CInv => DirtyAtBackup'
    <3> SUFFICES ASSUME CInv, memory["backup"].dirty # << >>
                 PROVE  /\ repl_state["backup"] = "Standalone" /\ c.use_backup
                        /\ ~ Lost("backup", c.to)
      BY <1>5, <2>1 DEF DirtyAtBackup, CallAlive, ServerOf, Lost, Up, vars, procs
    <3>1. repl_state["backup"] = "Standalone" /\ c.use_backup
      BY <1>4, <1>8 DEF CInv, Data, DirtyAtBackup
    <3> QED
      BY <1>1, <1>4, <1>8, <3>1, SentNow DEF ServerOf, Up
  <2>6. CInv => WrongReads'
    BY <1>4, <2>1 DEF WrongReads, WrongRead
  <2>7. c.calls > 0 /\ c.req.address = Target(c.calls)
    BY <1>3, <1>4, <1>8, <2>1
  <2> QED
    BY <1>1, <1>3, <1>4, <1>5, <1>6, <1>8, <2>1, <2>3, <2>4, <2>5, <2>6, <2>7, OneWriter, CallerFrame
<1> QED
  BY <1>7, <1>8

\* A request goes to the other server.  It is not one that the backup could have
\* answered if the backup has dirty entries.
LEMMA ResendStep ==
  ASSUME TInv, PInv', NEW k \in Client, CallFails(k) \/ SwitchNodes(k)
  PROVE  Kept
<1>1. /\ client \in [Client -> ClientRecord] /\ client[k] \in ClientRecord /\ Sending(k)
      /\ TypeOK /\ acked \in Nat /\ "backup" \in Server /\ "primary" \in Server
      /\ k \in Reader \/ k = W
  BY DataTypes, OneWriter DEF TInv, CallFails, SwitchNodes, Handled, Sending, Client
<1> DEFINE b == NextServer(k)
           c == [client[k] EXCEPT !.pc = "sent", !.use_backup = b,
                                  !.to = Incarnation(IF b THEN "backup" ELSE "primary")]
<1>2. client' = [client EXCEPT ![k] = c]
  BY DEF CallFails, SwitchNodes, Resend
<1>3. /\ UNCHANGED <<vars, scenario, disk, memory, sentinel, acked, seen, whole>>
      /\ seen \in [Reader -> Nat]
  BY DEF CallFails, SwitchNodes, Resend, TInv, CTypeOK
<1>4. b \in BOOLEAN /\ ServerFor(b) \in Server
  BY <1>1 DEF NextServer, ServerFor
<1>5. /\ c \in ClientRecord /\ c.pc = "sent" /\ c.to = Incarnation(ServerFor(b))
      /\ c.calls = client[k].calls /\ c.req = client[k].req /\ c.use_backup = b
  <2>1. Incarnation(ServerFor(b)) \in Int /\ (IF b THEN "backup" ELSE "primary") = ServerFor(b)
    BY <1>1, <1>4, SentNow DEF ServerFor
  <2> HIDE DEF b
  <2> QED
    BY <1>1, <1>4, <2>1 DEF ClientRecord
<1> HIDE DEF c, b
<1>6. Sent(ServerFor(c.use_backup), c.to)
  BY <1>1, <1>4, <1>5, SentNow
<1>7. CASE k # W
  <2>1. client[k].req.op # "Write"
    BY <1>1, <1>7 DEF TInv, Calls
  <2> QED
    BY <1>1, <1>2, <1>3, <1>5, <1>6, <1>7, <2>1, ReaderFrame
<1>8. CASE k = W
  <2>1. client'[W] = c /\ wr[W].pc = "idle" /\ client[W].calls \in Nat
    BY <1>1, <1>2, <1>8, DataTypes, OneWriter DEF TInv, CallFails, SwitchNodes, Handled
  <2>2. (Writing' <=> Writing) /\ \A n : Target(n)' = Target(n)
    BY <1>3, <1>5, <1>8, <2>1 DEF Writing, Target, Program
  <2>3. CInv => Numbered'
    BY <1>3, <1>5, <1>8, <2>1, <2>2 DEF CInv, Data, Numbered, Newest
  <2>4. CInv => LastWritten'
    BY <1>3, <1>5, <1>8, <2>1, <2>2 DEF CInv, Data, LastWritten
  <2>5. CInv => memory["backup"].dirty = << >>
    <3> SUFFICES ASSUME CInv, memory["backup"].dirty # << >> PROVE FALSE
      OBVIOUS
    <3>1. repl_state["backup"] = "Standalone" /\ ServerOf(W) = "backup" /\ CallAlive(W)
      BY <1>1, <1>8 DEF CInv, Data, DirtyAtBackup, ServerOf
    <3> QED
      BY <1>8, <3>1 DEF CallFails, SwitchNodes, Handled, Serves
  <2>6. CInv => DirtyAtBackup' /\ WrongReads'
    BY <1>3, <1>5, <2>1, <2>5 DEF DirtyAtBackup, WrongReads, WrongRead
  <2>7. c.calls > 0 /\ c.req.address = Target(c.calls)
    BY <1>1, <1>5, <1>8, TargetOfCall
  <2> QED
    BY <1>1, <1>2, <1>3, <1>5, <1>6, <1>8, <2>1, <2>3, <2>4, <2>6, <2>7, OneWriter, CallerFrame
<1> QED
  BY <1>7, <1>8

\* A wrong answer comes from a server that is not whole; the backup gives one
\* only when it has the service for itself.
LEMMA ReadStep ==
  ASSUME TInv, PInv', NEW k \in Client, ReadBlock(k)
  PROVE  Kept
<1> DEFINE a == client[k].req.address
           v == disk[ServerOf(k)][a]
           c == [client[k] EXCEPT !.pc = "answered", !.reply = v]
<1>1. /\ client \in [Client -> ClientRecord] /\ client[k] \in ClientRecord
      /\ client[k].pc = "sent" /\ client[k].req.op = "Read" /\ Sending(k) /\ Serves(ServerOf(k))
      /\ ServerOf(k) \in Server /\ a \in Address /\ v \in Nat /\ acked \in Nat
      /\ k \in Reader \/ k = W
  <2>1. client[k] \in ClientRecord /\ disk \in [Server -> [Address -> Nat]] /\ ServerOf(k) \in Server
    BY DataTypes, ServerOfType DEF TInv
  <2>2. a \in Address
    BY <2>1 DEF ClientRecord
  <2> QED
    BY <2>1, <2>2, DataTypes, OneWriter DEF TInv, ReadBlock, Handled, Sending, Client
<1>2. client' = [client EXCEPT ![k] = c]
  BY <1>1 DEF ReadBlock, ClientRecord
<1>3. /\ UNCHANGED <<vars, scenario, disk, memory, sentinel, acked, seen, whole>>
      /\ seen \in [Reader -> Nat]
  BY DEF ReadBlock, TInv, CTypeOK
<1> HIDE DEF v
<1>4. /\ c \in ClientRecord /\ c.pc = "answered" /\ c.to = client[k].to /\ c.reply = v
      /\ c.calls = client[k].calls /\ c.req = client[k].req /\ c.use_backup = client[k].use_backup
  BY <1>1 DEF ClientRecord
<1> HIDE DEF c
<1>5. Sent(ServerFor(c.use_backup), c.to)
  BY <1>1, <1>4 DEF TInv, Calls, ServerFor, ServerOf
<1>6. CASE k # W
  BY <1>1, <1>2, <1>3, <1>4, <1>5, <1>6, ReaderFrame
<1>7. CASE k = W
  <2>1. /\ client'[W] = c /\ wr[W].pc = "idle" /\ client[W].calls \in Nat
        /\ ~ Writing /\ a = Target(client[W].calls) /\ client[W].calls > 0
    BY <1>1, <1>2, <1>7, DataTypes, OneWriter, TargetOfCall DEF TInv, Writing
  <2>2. (Writing' <=> Writing) /\ \A n : Target(n)' = Target(n)
    BY <1>3, <1>4, <1>7, <2>1 DEF Writing, Target, Program
  <2>3. CInv => v <= acked
    BY <1>1, <2>1 DEF CInv, Data, Numbered, Newest, v
  <2>4. CInv => Numbered'
    BY <1>3, <1>4, <1>7, <2>1, <2>2, <2>3 DEF CInv, Data, Numbered, Newest
  <2>5. CInv => LastWritten'
    BY <1>3, <1>4, <1>7, <2>1, <2>2 DEF CInv, Data, LastWritten
  <2>6. CInv => DirtyAtBackup'
    BY <1>1, <1>3, <1>4, <1>7, <2>1
       DEF CInv, Data, DirtyAtBackup, Sending, CallAlive, ServerOf, Lost, Up, vars, procs
  <2>7. CInv => WrongReads'
    <3> SUFFICES ASSUME CInv, v # acked
                 PROVE  IF client[W].use_backup THEN whole = {}
                        ELSE "primary" \notin whole /\ repl_state["primary"] # "Recovering"
      BY <1>3, <1>4, <1>7, <2>1 DEF WrongReads, WrongRead, vars, procs
    <3>1. ServerOf(k) \notin whole
      BY <1>7, <2>1 DEF CInv, Data, LastWritten, v
    <3>2. CASE client[W].use_backup
      <4>1. ServerOf(k) = "backup" /\ repl_state["backup"] = "Standalone" /\ CanLock("backup")
        BY <1>1, <1>7, <3>2 DEF ServerOf, Serves
      <4>2. ~ InService("primary") /\ \A s \in Server : s = "primary" \/ s = "backup"
        BY <4>1, ServesAlone DEF CInv, TInv, Other, Server
      <4> QED
        BY <3>1, <3>2, <4>1, <4>2, DataTypes DEF CInv, Data, TInv, WholeInService
    <3>3. CASE ~ client[W].use_backup
      BY <1>1, <1>7, <3>1, <3>3 DEF ServerOf, Serves
    <3> QED
      BY <3>2, <3>3
  <2> QED
    BY <1>1, <1>2, <1>3, <1>4, <1>5, <1>7, <2>1, <2>4, <2>5, <2>6, <2>7, OneWriter, CallerFrame
<1> QED
  BY <1>1, <1>6, <1>7

LEMMA ReceiveStep ==
  ASSUME TInv, PInv', NEW k \in Client, Receive(k)
  PROVE  Kept
<1> DEFINE c == Idle(client[k].calls, client[k].use_backup)
<1>1. /\ client \in [Client -> ClientRecord] /\ client[k] \in ClientRecord
      /\ client[k].pc = "answered" /\ Sending(k) /\ acked \in Nat /\ seen \in [Reader -> Nat]
      /\ k \in Reader \/ k = W
  BY DataTypes, OneWriter DEF TInv, CTypeOK, Receive, Sending, Client
<1>2. /\ client' = [client EXCEPT ![k] = c]
      /\ UNCHANGED <<vars, scenario, disk, memory, sentinel, whole>>
      /\ acked' = IF client[k].req.op = "Write" THEN client[k].calls ELSE acked
  BY DEF Receive
<1>3. acked' \in Nat /\ seen' \in [Reader -> Nat]
  BY <1>1, <1>2 DEF Receive, ClientRecord
<1>4. /\ c \in ClientRecord /\ c.pc = "idle" /\ c.req.op = "none"
      /\ c.calls = client[k].calls /\ c.use_backup = client[k].use_backup
  <2>1. "block" \in Address
    BY DEF Address
  <2> QED
    BY <1>1, <2>1 DEF Idle, NoCall, ClientRecord
<1> HIDE DEF c
<1>5. CASE k # W
  <2>1. acked' = acked
    BY <1>1, <1>2, <1>5 DEF TInv, Calls
  <2> QED
    BY <1>1, <1>2, <1>3, <1>4, <1>5, <2>1, ReaderFrame
<1>6. CASE k = W
  <2>1. /\ client'[W] = c /\ wr[W].pc = "idle" /\ client[W].calls \in Nat /\ ~ Writing'
        /\ client[W].req.address = Target(client[W].calls)
        /\ scenario = "blocks" => client[W].req.address = "block"
        /\ acked' = IF Writing THEN client[W].calls ELSE acked
        /\ \A n : Target(n)' = Target(n)
    BY <1>1, <1>2, <1>4, <1>6, DataTypes, OneWriter, TargetOfCall
       DEF TInv, Writing, Target, Program
  <2>2. CInv => Numbered'
    BY <1>1, <1>2, <1>4, <1>6, <2>1 DEF CInv, Data, Numbered, Newest
  <2>3. CInv => LastWritten'
    <3>1. ASSUME CInv, NEW s \in whole
          PROVE  /\ scenario = "blocks" => disk[s]["block"] >= acked'
                 /\ scenario = "blocks" \/ client[W].calls > 0 =>
                      disk[s][Target(client[W].calls)] = acked'
      BY <1>1, <1>6, <2>1, <3>1 DEF CInv, Data, LastWritten
    <3> QED
      BY <1>2, <1>4, <1>6, <2>1, <3>1 DEF LastWritten
  <2>4. CInv => DirtyAtBackup'
    BY <1>2, <1>4, <1>6, <2>1 DEF CInv, Data, DirtyAtBackup, Sending, vars, procs
  <2>5. CInv => WrongReads'
    BY <1>4, <2>1 DEF WrongReads, WrongRead
  <2> QED
    BY <1>1, <1>2, <1>3, <1>4, <1>6, <2>1, <2>2, <2>3, <2>4, <2>5, OneWriter, CallerFrame
<1> QED
  BY <1>1, <1>5, <1>6

\* MarkDirty keeps a list of addresses.
LEMMA MarkDirtyType ==
  ASSUME CTypeOK, NEW s \in Server, NEW a \in Address
  PROVE  MarkDirty(s, a) \in Seq(Address) /\ memory[s].dirty \in Seq(Address)
<1>1. memory[s].dirty \in Seq(Address)
  BY DataTypes DEF MemoryRecord
<1>2. Append(memory[s].dirty, a) \in Seq(Address)
  BY <1>1
<1> QED
  BY <1>1, <1>2 DEF MarkDirty

\* The end of the primary's Write: the block is at every server that is whole.
LEMMA AnswerStep ==
  ASSUME TInv, PInv', NEW dirty \in Seq(Address), Answer(W, dirty),
         client[W].pc \in {"stored", "replicating"}, CallAlive(W), wr'[W].pc = "idle",
         UNCHANGED deaths,
         repl_state' = repl_state \/ repl_state' = [repl_state EXCEPT !["primary"] = "Standalone"],
         CInv /\ ~ Misjudged' /\ "backup" \in whole =>
           disk["backup"][client[W].req.address] = client[W].calls
  PROVE  Kept
<1> DEFINE c == [client[W] EXCEPT !.pc = "answered"]
           a == client[W].req.address
           m == [memory EXCEPT !["primary"].dirty = dirty, !["primary"].doomed = Doomed("primary", a)]
<1>1. /\ client \in [Client -> ClientRecord] /\ client[W] \in ClientRecord /\ W \in Client
      /\ memory \in [Server -> MemoryRecord] /\ "primary" \in Server /\ "backup" \in Server
      /\ repl_state \in [Server -> {"Down", "Recovering", "Normal", "Standalone"}]
      /\ \A s \in Server : s = "primary" \/ s = "backup"
      /\ W \notin Reader /\ \A r \in Reader : r \in Client
  BY DataTypes, Types, OneWriter DEF TInv, Server, Client
<1>2. /\ client' = [client EXCEPT ![W] = c] /\ memory' = m
      /\ UNCHANGED <<scenario, disk, sentinel, acked, seen, whole>>
  BY <1>1 DEF Answer, ClientRecord
<1>3. /\ c \in ClientRecord /\ c.pc = "answered" /\ c.to = client[W].to /\ c.calls = client[W].calls
      /\ c.req = client[W].req /\ c.use_backup = client[W].use_backup
  BY <1>1 DEF ClientRecord
<1>4. m \in [Server -> MemoryRecord] /\ m["backup"] = memory["backup"]
  <2>1. Doomed("primary", a) \in BOOLEAN
    BY <1>1 DEF Doomed, CrashAfterWrite, MemoryRecord
  <2> DEFINE d == Doomed("primary", a)
  <2> HIDE DEF d
  <2>2. [memory EXCEPT !["primary"].dirty = dirty, !["primary"].doomed = d] \in [Server -> MemoryRecord]
    <3>1. d \in BOOLEAN /\ memory["primary"] \in MemoryRecord
      BY <1>1, <2>1 DEF d
    <3>2. [memory["primary"] EXCEPT !.dirty = dirty, !.doomed = d] \in MemoryRecord
      BY <3>1 DEF MemoryRecord
    <3>3. [memory EXCEPT !["primary"].dirty = dirty, !["primary"].doomed = d]
          = [memory EXCEPT !["primary"] = [memory["primary"] EXCEPT !.dirty = dirty, !.doomed = d]]
      BY <1>1, <3>1 DEF MemoryRecord
    <3> QED
      BY <1>1, <3>2, <3>3
  <2> QED
    BY <1>1, <2>2 DEF d
<1> HIDE DEF c, m
<1>5. /\ client'[W] = c /\ \A j \in Client : j # W => client'[j] = client[j]
      /\ client' \in [Client -> ClientRecord]
  BY <1>1, <1>2, <1>3
<1>6. /\ Writing /\ Writing' /\ Sending(W) /\ ~ client[W].use_backup
      /\ a \in Address /\ a = Target(client[W].calls) /\ client[W].calls > 0
      /\ \A n : Target(n)' = Target(n)
  <2>1. Writing /\ ~ client[W].use_backup /\ Sending(W)
    BY <1>1 DEF TInv, Calls, Writing, Sending
  <2> QED
    BY <1>2, <1>3, <1>5, <2>1, TargetOfCall DEF Writing, Target, Program
<1>7. Up("primary") /\ (CInv => InService("primary") /\ disk["primary"][a] = client[W].calls)
  BY <1>1, <1>6 DEF CInv, Data, Stored, CallAlive, ServerOf, Lost
<1>8. /\ \A s \in Server : (Up(s)' <=> Up(s)) /\ (InService(s) => InService(s)')
      /\ repl_state'["backup"] = repl_state["backup"]
  BY <1>1, <1>7 DEF Up, InService
<1>9. CTypeOK'
  <2>1. TypeOK' /\ \A w \in Writer : w = W
    BY OneWriter DEF PInv, HInv, IInv
  <2>2. \A s \in Server : ~ Up(s)' => memory'[s] = NewProcess
    BY <1>1, <1>2, <1>4, <1>7, <1>8, DataTypes DEF TInv, Up
  <2> QED
    BY <1>2, <1>4, <1>5, <2>1, <2>2 DEF TInv, CTypeOK, ClientRecord, MemoryRecord
<1>10. Calls'
  <2>1. \A j \in Client : Sending(j)' => Sent(ServerOf(j), client[j].to)'
    <3> SUFFICES ASSUME NEW j \in Client, Sending(j)' PROVE Sent(ServerOf(j), client[j].to)'
      OBVIOUS
    <3>1. /\ Sending(j) /\ client'[j].to = client[j].to
          /\ client'[j].use_backup = client[j].use_backup
      BY <1>3, <1>5, <1>6 DEF Sending
    <3>2. Sent(ServerOf(j), client[j].to)
      BY <3>1 DEF TInv, Calls
    <3> QED
      BY <1>8, <3>1, <3>2, ServerOfType DEF Sent, ServerOf
  <2>2. /\ \A j \in Reader : client'[j].req.op # "Write"
        /\ \A j \in Client : client'[j].pc \in {"stored", "replicating"} =>
             ~ client'[j].use_backup /\ client'[j].req.op = "Write"
    BY <1>1, <1>3, <1>5 DEF TInv, Calls
  <2>3. wr'[W].pc \in {"call", "ok"} => Sent("backup", wr[W].to)'
    OBVIOUS
  <2> QED
    BY <1>3, <1>5, <1>6, <2>1, <2>2, <2>3 DEF Calls, Sending
<1>11. CInv => Numbered'
  BY <1>2, <1>3, <1>5, <1>6 DEF CInv, Data, Numbered, Newest
<1>12. Stored'
  BY <1>3, <1>5 DEF Stored
<1>13. CInv => WholeInService'
  BY <1>1, <1>2, <1>8, DataTypes DEF CInv, Data, TInv, WholeInService
<1>14. CInv /\ ~ Misjudged' => LastWritten'
  <2> SUFFICES ASSUME CInv, ~ Misjudged' PROVE LastWritten'
    OBVIOUS
  <2>1. \A s \in whole : disk[s][a] = client[W].calls
    BY <1>1, <1>7, DataTypes DEF TInv
  <2> QED
    BY <1>2, <1>3, <1>5, <1>6, <2>1 DEF CInv, Data, LastWritten
<1>15. CInv => DirtyAtBackup' /\ WrongReads'
  BY <1>2, <1>4, <1>6 DEF CInv, Data, DirtyAtBackup, WrongReads, WrongRead
<1> QED
  BY <1>9, <1>10, <1>11, <1>12, <1>13, <1>14, <1>15 DEF Kept, TInv, Data

\* The primary's Write answers in three cases.
LEMMA AnsweringSteps ==
  ASSUME TInv, PInv', StandaloneWrite(W) \/ Replicated(W) \/ GiveUpBackup(W)
  PROVE  Kept
<1> DEFINE a == client[W].req.address
<1>1. /\ W \in Writer /\ wr \in [Writer -> WrRecord] /\ wr[W] \in WrRecord
      /\ "primary" \in Server /\ "backup" \in Server /\ client[W] \in ClientRecord
      /\ MarkDirty("primary", a) \in Seq(Address) /\ memory["primary"].dirty \in Seq(Address)
  <2>1. client[W] \in ClientRecord /\ "primary" \in Server
    BY DataTypes DEF TInv
  <2>2. a \in Address
    BY <2>1 DEF ClientRecord
  <2> QED
    BY <2>1, <2>2, DataTypes, Types, OneWriter, MarkDirtyType DEF TInv
<1>2. Thread("idle").pc = "idle"
  BY DEF Thread
\* Standalone: the backup is not in service.
<1>3. CASE StandaloneWrite(W)
  <2>1. /\ Answer(W, MarkDirty("primary", a)) /\ client[W].pc = "stored" /\ CallAlive(W)
        /\ CanLock("primary") /\ repl_state["primary"] = "Standalone"
        /\ UNCHANGED <<repl_state, deaths, wr>>
    BY <1>3 DEF StandaloneWrite, vars, procs
  <2>2. wr'[W].pc = "idle"
    BY <2>1, DataTypes DEF TInv
  <2>3. CInv => ~ InService("backup")
    BY <1>1, <2>1, ServesAlone DEF CInv, TInv, Other
  <2>4. CInv => "backup" \notin whole
    BY <2>3 DEF CInv, Data, WholeInService
  <2> QED
    BY <1>1, <2>1, <2>2, <2>4, AnswerStep
\* The backup has stored the block, or is gone since.
<1>4. CASE Replicated(W)
  <2>1. /\ Answer(W, memory["primary"].dirty) /\ wr[W].pc = "ok" /\ wr'[W].pc = "idle"
        /\ UNCHANGED <<repl_state, deaths>>
    BY <1>1, <1>2, <1>4 DEF Replicated, BackupWriteReturns, procs
  <2>2. client[W].pc = "replicating" /\ CallAlive(W)
    BY <2>1, DataTypes DEF TInv
  <2>3. CInv /\ "backup" \in whole => disk["backup"][a] = client[W].calls
    BY <2>1 DEF CInv, Data, Stored
  <2> QED
    BY <1>1, <2>1, <2>2, <2>3, AnswerStep
\* The backup is not in service.
<1>5. CASE GiveUpBackup(W)
  <2>1. /\ Answer(W, MarkDirty("primary", a)) /\ wr[W].pc = "failed" /\ wr'[W].pc = "idle"
        /\ repl_state' = [repl_state EXCEPT !["primary"] = "Standalone"] /\ UNCHANGED deaths
    BY <1>1, <1>2, <1>5 DEF GiveUpBackup, AssumePartnerDown
  <2>2. client[W].pc = "replicating" /\ CallAlive(W)
    BY <2>1, DataTypes DEF TInv
  <2>3. InService("backup") => Misjudged'
    BY <1>5 DEF GiveUpBackup, AssumePartnerDown, GiveUp, Misjudged
  <2>4. CInv /\ ~ Misjudged' => "backup" \notin whole
    BY <2>3 DEF CInv, Data, WholeInService
  <2> QED
    BY <1>1, <2>1, <2>2, <2>4, AnswerStep
<1> QED
  BY <1>3, <1>4, <1>5

LEMMA ReplicateStep ==
  ASSUME TInv, PInv', StepKinds, NEW k \in Client, Replicate(k)
  PROVE  Kept
<1> DEFINE c == [client[W] EXCEPT !.pc = "replicating"]
<1>1. k = W
  BY Writers DEF TInv, Replicate
<1>2. /\ client \in [Client -> ClientRecord] /\ client[W] \in ClientRecord /\ W \in Client
      /\ W \in Writer /\ wr \in [Writer -> WrRecord] /\ client[W].pc = "stored" /\ CallAlive(W)
      /\ wr' = [wr EXCEPT ![W] = CallTo("backup", "call")]
      /\ UNCHANGED <<repl_state, deaths, scenario, disk, memory, sentinel, acked, seen, whole>>
  BY <1>1, DataTypes, Types, OneWriter DEF TInv, Replicate, CallBackup, procs
<1>3. client' = [client EXCEPT ![W] = c]
  BY <1>1, <1>2 DEF Replicate, AfterCall, ClientRecord
<1>4. /\ c \in ClientRecord /\ c.pc = "replicating" /\ c.to = client[W].to /\ c.calls = client[W].calls
      /\ c.req = client[W].req /\ c.use_backup = client[W].use_backup
  BY <1>2 DEF ClientRecord
<1> HIDE DEF c
<1>5. /\ client'[W] = c /\ \A j \in Client : j # W => client'[j] = client[j]
      /\ client' \in [Client -> ClientRecord] /\ wr'[W].pc = "call"
  BY <1>2, <1>3, <1>4 DEF CallTo
<1>6. /\ Writing /\ Writing' /\ ~ client[W].use_backup /\ Sending(W)
      /\ \A n : Target(n)' = Target(n)
  BY <1>2, <1>4, <1>5 DEF TInv, Calls, Writing, Sending, Target, Program
<1>7. CallAlive(W)' /\ \A j \in Client : ServerOf(j)' = ServerOf(j)
  BY <1>2, <1>4, <1>5 DEF CallAlive, ServerOf, Lost, Up
<1>8. CTypeOK'
  <2>1. TypeOK' /\ \A w \in Writer : w = W
    BY OneWriter DEF PInv, HInv, IInv
  <2> QED
    BY <1>2, <1>4, <1>5, <1>7, <2>1 DEF TInv, CTypeOK, ClientRecord, Up
<1>9. Calls'
  <2>1. \A j \in Client : Sending(j)' => Sent(ServerOf(j), client[j].to)'
    <3> SUFFICES ASSUME NEW j \in Client, Sending(j)' PROVE Sent(ServerOf(j), client[j].to)'
      OBVIOUS
    <3>1. Sending(j) /\ client'[j].to = client[j].to /\ ServerOf(j)' = ServerOf(j)
      BY <1>4, <1>5, <1>6, <1>7 DEF Sending
    <3>2. Sent(ServerOf(j), client[j].to)
      BY <3>1 DEF TInv, Calls
    <3> QED
      BY <1>2, <3>1, <3>2 DEF Sent, Up
  <2>2. /\ \A j \in Reader : client'[j].req.op # "Write"
        /\ \A j \in Client : client'[j].pc \in {"stored", "replicating"} =>
             ~ client'[j].use_backup /\ client'[j].req.op = "Write"
    BY <1>4, <1>5, <1>6, OneWriter DEF TInv, Calls, Client, Writing
  <2>3. wr'[W].to = Incarnation("backup") /\ "backup" \in Server /\ TypeOK
    BY <1>2, DataTypes DEF TInv, CallTo
  <2>4. Sent("backup", wr[W].to)'
    BY <1>2, <2>3, SentNow DEF Sent, Up
  <2> QED
    BY <1>4, <1>5, <1>6, <2>1, <2>2, <2>4 DEF TInv, Calls, Sending
<1>10. CInv => Numbered'
  BY <1>2, <1>4, <1>5, <1>6 DEF CInv, Data, Numbered, Newest
<1>11. CInv => Stored'
  BY <1>2, <1>4, <1>5 DEF CInv, Data, Stored, InService
<1>12. CInv => WholeInService' /\ LastWritten'
  BY <1>2, <1>4, <1>5, <1>6 DEF CInv, Data, WholeInService, InService, LastWritten
<1>13. CInv => DirtyAtBackup' /\ WrongReads'
  BY <1>2, <1>4, <1>5, <1>6, <1>7 DEF CInv, Data, DirtyAtBackup, WrongReads, WrongRead
<1> QED
  BY <1>8, <1>9, <1>10, <1>11, <1>12, <1>13 DEF Kept, TInv, Data

\* write_data at the server that serves: it is the primary, or the backup alone.
LEMMA StoreFacts ==
  ASSUME TInv, NEW k \in Client, Handled(k, "Write"), Serves(ServerOf(k))
  PROVE  /\ k = W /\ Writing /\ Sending(W) /\ client[W].pc = "sent" /\ wr[W].pc = "idle"
         /\ CallAlive(W) /\ ServerOf(W) \in {"primary", "backup"}
         /\ InService(ServerOf(W)) /\ Up(ServerOf(W))
         /\ client[W].use_backup => ServerOf(W) = "backup" /\ repl_state["backup"] = "Standalone"
         /\ ~ client[W].use_backup => ServerOf(W) = "primary"
         /\ CInv => /\ client[W].use_backup => "primary" \notin whole
                    /\ ~ client[W].use_backup => memory["backup"].dirty = << >>
<1>1. k = W /\ Writing /\ Sending(W) /\ client[W].pc = "sent" /\ CallAlive(W)
  <2>1. k = W
    BY Writers DEF TInv, Handled
  <2> QED
    BY <2>1 DEF Handled, Writing, Sending
<1>2. wr[W].pc = "idle"
  BY <1>1, DataTypes DEF TInv
<1>3. /\ ServerOf(W) \in {"primary", "backup"} /\ InService(ServerOf(W)) /\ Up(ServerOf(W))
      /\ client[W].use_backup => ServerOf(W) = "backup" /\ repl_state["backup"] = "Standalone"
      /\ ~ client[W].use_backup => ServerOf(W) = "primary"
  BY <1>1 DEF ServerOf, Serves, InService, Up
<1>4. CInv /\ client[W].use_backup => "primary" \notin whole
  BY <1>1, <1>3, ServesAlone, DataTypes DEF CInv, Data, TInv, WholeInService, Serves, Other
<1>5. CInv /\ ~ client[W].use_backup => memory["backup"].dirty = << >>
  BY DEF CInv, Data, DirtyAtBackup
<1> QED
  BY <1>1, <1>2, <1>3, <1>4, <1>5

\* The crash before the backup is told.
LEMMA StoreAndCrash ==
  ASSUME TInv, PInv', StepKinds, NEW k \in Client, StoreBlock(k),
         Die(ServerOf(k)), Memory(memory), whole' = whole \ {ServerOf(k)},
         UNCHANGED <<client, events, sentinel>>
  PROVE  Kept
<1> DEFINE v == client[W].calls
           a == client[W].req.address
<1>0. PICK p \in Server : p = ServerOf(k)
  BY ServerOfType
<1>1. /\ k = W /\ Writing /\ Sending(W) /\ client[W].pc = "sent" /\ wr[W].pc = "idle" /\ Up(p)
      /\ client[W].use_backup => p = "backup"
      /\ ~ client[W].use_backup => p = "primary" /\ (CInv => memory["backup"].dirty = << >>)
  BY <1>0, StoreFacts DEF StoreBlock
<1>2. /\ UNCHANGED <<scenario, client, acked, seen, sentinel>>
      /\ disk' = [disk EXCEPT ![p] = WriteData(a, v)] /\ Die(p) /\ whole' = whole \ {p}
  BY <1>0, <1>1 DEF StoreBlock
<1>3. /\ disk \in [Server -> [Address -> Nat]] /\ v \in Nat /\ whole \subseteq Server
      /\ repl_state \in [Server -> {"Down", "Recovering", "Normal", "Standalone"}]
      /\ deaths \in [Server -> Nat] /\ memory \in [Server -> MemoryRecord] /\ NewProcess.dirty = << >>
      /\ "backup" \in Server
  BY DataTypes, Types DEF TInv
<1>4. /\ WriteData(a, v) \in [Address -> Nat]
      /\ \A b \in Address : WriteData(a, v)[b] = IF b = a THEN v ELSE 0
  BY <1>3, WriteDataTypes
<1>5. /\ disk' \in [Server -> [Address -> Nat]] /\ disk'[p] = WriteData(a, v)
      /\ \A s \in Server : s # p => disk'[s] = disk[s]
  BY <1>2, <1>3, <1>4
<1>6. /\ deaths'[p] # deaths[p]
      /\ \A s \in Server : s # p => repl_state'[s] = repl_state[s] /\ deaths'[s] = deaths[s]
  BY <1>2, <1>3 DEF Die
<1>7. /\ memory' \in [Server -> MemoryRecord]
      /\ \A s \in Server : memory'[s] = IF deaths'[s] = deaths[s] THEN memory[s] ELSE NewProcess
  BY <1>3, MemoryType DEF TInv
<1>8. wr'[W].pc = "idle"
  BY <1>1, <1>2, DyingWriter, ServerTypes DEF TInv
<1>9. CTypeOK'
  <2>1. sentinel' \subseteq Server /\ whole' \subseteq Server
    BY <1>2, <1>3 DEF TInv, CTypeOK
  <2> QED
    BY <1>2, <1>5, <1>7, <1>8, <2>1, TypesFrame DEF TInv
<1>10. Calls'
  BY <1>1, <1>2, <1>8, CallsFrame
<1>11. CInv => Numbered'
  <2> SUFFICES ASSUME CInv PROVE Numbered'
    OBVIOUS
  <2>1. ASSUME NEW s \in Server, NEW b \in Address PROVE disk'[s][b] <= v
    <3>1. disk[s][b] <= v
      BY <1>1 DEF CInv, Data, Numbered, Newest
    <3>2. disk'[p][b] = v \/ disk'[p][b] = 0
      BY <1>4, <1>5
    <3>3. CASE s = p
      BY <1>3, <3>2, <3>3
    <3>4. CASE s # p
      BY <1>5, <3>1, <3>4
    <3> QED
      BY <3>3, <3>4
  <2> QED
    BY <1>1, <1>2, <2>1 DEF CInv, Data, Numbered, Newest, Writing
<1>12. Stored' /\ WrongReads'
  BY <1>1, <1>2, <1>8 DEF Stored, WrongReads, WrongRead
<1>13. CInv => WholeInService'
  BY <1>2, <1>3, <1>6 DEF CInv, Data, WholeInService, InService
<1>14. CInv => LastWritten'
  <2>1. \A n : Target(n)' = Target(n)
    BY <1>2 DEF Target, Program
  <2> QED
    BY <1>1, <1>2, <1>3, <1>5, <2>1 DEF CInv, Data, LastWritten, Writing
<1>15. CInv => DirtyAtBackup'
  BY <1>1, <1>3, <1>6, <1>7 DEF DirtyAtBackup
<1> QED
  BY <1>9, <1>10, <1>11, <1>12, <1>13, <1>14, <1>15 DEF Kept, TInv, Data

LEMMA StoreAndGoOn ==
  ASSUME TInv, PInv', NEW k \in Client, StoreBlock(k), ~ Die(ServerOf(k))
  PROVE  Kept
<1> DEFINE v == client[W].calls
           a == client[W].req.address
<1>0. PICK p \in Server : p = ServerOf(k)
  BY ServerOfType
<1>1. /\ k = W /\ Writing /\ Sending(W) /\ client[W].pc = "sent" /\ wr[W].pc = "idle" /\ Up(p)
      /\ InService(p) /\ CallAlive(W)
      /\ client[W].use_backup =>
           /\ p = "backup" /\ repl_state["backup"] = "Standalone"
           /\ CInv => "primary" \notin whole
      /\ ~ client[W].use_backup => p = "primary" /\ (CInv => memory["backup"].dirty = << >>)
      /\ p = ServerOf(W)
  BY <1>0, StoreFacts DEF StoreBlock
<1> DEFINE pc == IF p = "backup" THEN "answered" ELSE "stored"
           c == [client[W] EXCEPT !.pc = pc]
           m == [dirty      |-> IF p = "backup" THEN MarkDirty(p, a) ELSE memory[p].dirty,
                 crash_flag |-> memory[p].crash_flag \/ a = Prep(p),
                 doomed     |-> IF p = "backup" THEN Doomed(p, a) ELSE memory[p].doomed]
<1>2. /\ client \in [Client -> ClientRecord] /\ client[W] \in ClientRecord /\ W \in Client
      /\ disk \in [Server -> [Address -> Nat]] /\ v \in Nat /\ whole \subseteq Server
      /\ memory \in [Server -> MemoryRecord] /\ "backup" \in Server /\ "primary" \in Server
      /\ \A s \in Server : s = "primary" \/ s = "backup"
      /\ a \in Address /\ a = Target(v) /\ v > 0 /\ (scenario = "blocks" => a = "block")
  BY <1>1, DataTypes, OneWriter, TargetOfCall DEF TInv, Server
<1>3. /\ disk' = [disk EXCEPT ![p] = WriteData(a, v)]
      /\ memory' = [memory EXCEPT ![p] = m]
      /\ client' = [client EXCEPT ![W].pc = pc]
      /\ sentinel' = IF memory[p].crash_flag /\ a = "PREP_CRASH_ON_NEXT_RECOVER"
                     THEN sentinel \union {p} ELSE sentinel
      /\ UNCHANGED <<scenario, acked, seen, whole>>
      /\ UNCHANGED <<repl_state, deaths, wr>>
  BY <1>0, <1>1, <1>2 DEF StoreBlock, vars, procs
<1>4. client' = [client EXCEPT ![W] = c]
  BY <1>2, <1>3 DEF ClientRecord
<1>5. /\ c \in ClientRecord /\ c.pc = pc /\ c.to = client[W].to /\ c.calls = client[W].calls
      /\ c.req = client[W].req /\ c.use_backup = client[W].use_backup
  BY <1>2 DEF ClientRecord
<1>6. m \in MemoryRecord /\ (p # "backup" => m.dirty = memory[p].dirty)
  <2>1. memory[p] \in MemoryRecord /\ MarkDirty(p, a) \in Seq(Address)
    BY <1>2, MarkDirtyType DEF TInv
  <2>2. Doomed(p, a) \in BOOLEAN /\ (memory[p].crash_flag \/ a = Prep(p)) \in BOOLEAN
    BY <2>1 DEF Doomed, CrashAfterWrite, MemoryRecord
  <2> QED
    BY <2>1, <2>2 DEF MemoryRecord
<1> HIDE DEF c, m
<1>7. /\ memory' \in [Server -> MemoryRecord]
      /\ \A s \in Server : s # p => memory'[s] = memory[s]
  BY <1>2, <1>3, <1>6
<1>8. /\ WriteData(a, v) \in [Address -> Nat]
      /\ \A b \in Address : WriteData(a, v)[b] = IF b = a THEN v ELSE 0
  BY <1>2, WriteDataTypes
<1>9. /\ disk' \in [Server -> [Address -> Nat]] /\ disk'[p] = WriteData(a, v) /\ disk'[p][a] = v
      /\ \A s \in Server : s # p => disk'[s] = disk[s]
  BY <1>2, <1>3, <1>8
<1>10. /\ client'[W] = c /\ \A j \in Client : j # W => client'[j] = client[j]
       /\ client' \in [Client -> ClientRecord]
  BY <1>2, <1>4, <1>5
<1>11. /\ Writing' /\ \A n : Target(n)' = Target(n)
       /\ \A j \in Client : ServerOf(j)' = ServerOf(j) /\ (Sending(j)' => Sending(j))
       /\ CallAlive(W)' <=> CallAlive(W)
  BY <1>1, <1>3, <1>5, <1>10 DEF Writing, Target, Program, ServerOf, Sending, CallAlive, Lost, Up
<1>12. CTypeOK'
  <2>1. TypeOK' /\ \A w \in Writer : w = W
    BY OneWriter DEF PInv, HInv, IInv
  <2>2. \A s \in Server : ~ Up(s)' => memory'[s] = NewProcess
    BY <1>1, <1>3, <1>7, DataTypes DEF TInv, Up
  <2>3. sentinel' \subseteq Server
    BY <1>3 DEF TInv, CTypeOK
  <2>4. wr'[W].pc = "idle"
    BY <1>1, <1>3
  <2> QED
    BY <1>3, <1>7, <1>9, <1>10, <2>1, <2>2, <2>3, <2>4 DEF TInv, CTypeOK, ClientRecord, MemoryRecord
<1>13. Calls'
  <2>1. \A j \in Client : Sending(j)' => Sent(ServerOf(j), client[j].to)'
    <3> SUFFICES ASSUME NEW j \in Client, Sending(j)' PROVE Sent(ServerOf(j), client[j].to)'
      OBVIOUS
    <3>1. Sending(j) /\ client'[j].to = client[j].to /\ ServerOf(j)' = ServerOf(j)
      BY <1>5, <1>10, <1>11
    <3>2. Sent(ServerOf(j), client[j].to)
      BY <3>1 DEF TInv, Calls
    <3> QED
      BY <1>3, <3>1, <3>2 DEF Sent, Up
  <2>2. /\ \A j \in Reader : client'[j].req.op # "Write"
        /\ \A j \in Client : client'[j].pc \in {"stored", "replicating"} =>
             ~ client'[j].use_backup /\ client'[j].req.op = "Write"
    BY <1>1, <1>5, <1>10, OneWriter DEF TInv, Calls, Client, Writing
  <2>3. wr'[W].pc = "idle"
    BY <1>1, <1>3
  <2> QED
    BY <1>2, <1>5, <1>10, <1>11, <2>1, <2>2, <2>3 DEF Calls, Sending
<1>14. CInv => Numbered'
  <2> SUFFICES ASSUME CInv PROVE Numbered'
    OBVIOUS
  <2>1. ASSUME NEW s \in Server, NEW b \in Address PROVE disk'[s][b] <= v
    <3>1. disk[s][b] <= v
      BY <1>1 DEF CInv, Data, Numbered, Newest
    <3>2. disk'[p][b] = v \/ disk'[p][b] = 0
      BY <1>8, <1>9
    <3>3. CASE s = p
      BY <1>2, <3>2, <3>3
    <3>4. CASE s # p
      BY <1>9, <3>1, <3>4
    <3> QED
      BY <3>3, <3>4
  <2> QED
    BY <1>1, <1>3, <1>5, <1>10, <1>11, <2>1 DEF CInv, Data, Numbered, Newest
<1>15. Stored'
  <2>1. client'[W].pc = "stored" => p = "primary"
    BY <1>1, <1>2, <1>5, <1>10
  <2> QED
    BY <1>1, <1>3, <1>5, <1>9, <1>10, <2>1 DEF Stored, InService
<1>16. CInv => WholeInService' /\ WrongReads'
  BY <1>3, <1>11 DEF CInv, Data, WholeInService, InService, WrongReads, WrongRead
<1>17. CInv => LastWritten'
  <2> SUFFICES ASSUME CInv, NEW s \in whole
               PROVE  /\ scenario = "blocks" => disk'[s]["block"] >= acked
                      /\ pc = "answered" => disk'[s][a] = v
    BY <1>3, <1>5, <1>10, <1>11 DEF LastWritten
  <2>1. acked \in Nat /\ acked <= v /\ s \in Server
    BY <1>2, DataTypes DEF CInv, Data, TInv, Numbered
  <2>2. CASE s = p
    BY <1>2, <1>9, <2>1, <2>2
  <2>3. CASE s # p
    BY <1>1, <1>2, <1>9, <2>1, <2>3 DEF CInv, Data, LastWritten
  <2> QED
    BY <2>2, <2>3
<1>18. CInv => DirtyAtBackup'
  <2> SUFFICES ASSUME CInv PROVE DirtyAtBackup'
    OBVIOUS
  <2>1. CASE client[W].use_backup
    BY <1>1, <1>3, <1>5, <1>10, <1>11, <2>1 DEF DirtyAtBackup
  <2>2. CASE ~ client[W].use_backup
    BY <1>1, <1>2, <1>7, <2>2 DEF DirtyAtBackup
  <2> QED
    BY <2>1, <2>2
<1> QED
  BY <1>12, <1>13, <1>14, <1>15, <1>16, <1>17, <1>18 DEF Kept, TInv, Data

LEMMA StoreBlockStep ==
  ASSUME TInv, PInv', StepKinds, NEW k \in Client, StoreBlock(k)
  PROVE  Kept
<1>1. CASE Die(ServerOf(k))
  <2>1. TypeOK /\ ServerOf(k) \in Server /\ deaths[ServerOf(k)] \in Nat
    BY DataTypes, Types, ServerOfType DEF TInv
  <2>2. deaths' # deaths
    BY <1>1, <2>1, DieCounts
  <2> QED
    BY <1>1, <2>2, StoreAndCrash DEF StoreBlock, vars, procs
<1>2. CASE ~ Die(ServerOf(k))
  BY <1>2, StoreAndGoOn
<1> QED
  BY <1>1, <1>2

----------------------------------------------------------------------------
(***************************************************************************)
(* The results.                                                            *)
(***************************************************************************)
LEMMA ClientsInit == CInit => DInv
<1> SUFFICES ASSUME CInit PROVE DInv
  OBVIOUS
<1>1. PInv /\ ~ Misjudged
  BY ClientsAssumption, PromptInit DEF CInit, Init, Misjudged
<1>2. /\ W \in Writer /\ W \in Client /\ Writer = {W} /\ "block" \in Address
      /\ "backup" \in Server /\ "primary" \in Server
  BY OneWriter DEF Address, Server
<1>3. /\ \A k \in Client : /\ client[k].pc = "idle" /\ client[k].calls = 0 /\ client[k].reply = 0
                           /\ client[k].req.op = "none" /\ ~ client[k].use_backup
      /\ client \in [Client -> ClientRecord]
  BY <1>2 DEF CInit, Idle, NoCall, ClientRecord
<1>4. NewProcess \in MemoryRecord /\ NewProcess.dirty = << >>
  <2>1. << >> \in Seq(Address)
    BY EmptySeq
  <2> QED
    BY <2>1 DEF NewProcess, MemoryRecord
<1>5. /\ \A s \in Server : disk[s] = Zeros /\ memory[s] = NewProcess
      /\ disk \in [Server -> [Address -> Nat]] /\ memory \in [Server -> MemoryRecord]
      /\ acked = 0 /\ sentinel = {} /\ whole = {"primary"} /\ scenario \in Scenarios
      /\ seen \in [Reader -> Nat]
  BY <1>4, WriteDataTypes DEF CInit
<1>6. wr[W].pc = "idle" /\ repl_state["primary"] = "Standalone"
  BY <1>2 DEF CInit, Init, Thread
<1>7. CTypeOK
  BY <1>1, <1>2, <1>3, <1>5, <1>6, ServerTypes DEF CTypeOK, ClientRecord, MemoryRecord
<1>8. Calls
  BY <1>2, <1>3, <1>6 DEF Calls, Sending, Writing, Client
<1>9. Numbered
  BY <1>2, <1>3, <1>5, WriteDataTypes DEF Numbered, Newest, Writing
<1>10. Stored /\ WholeInService /\ DirtyAtBackup /\ WrongReads
  BY <1>2, <1>3, <1>4, <1>5, <1>6
     DEF Stored, WholeInService, InService, DirtyAtBackup, WrongReads, WrongRead
<1>11. LastWritten
  <2>1. scenario = "blocks" => Target(0) = "block"
    BY DEF Target
  <2> QED
    BY <1>2, <1>3, <1>5, <2>1, WriteDataTypes DEF LastWritten, Writing
<1> QED
  BY <1>1, <1>7, <1>8, <1>9, <1>10, <1>11 DEF DInv, TInv, Data

LEMMA ClientsStutter ==
  ASSUME TInv, PInv', StepKinds, UNCHANGED cvars
  PROVE  Kept
<1>2. UNCHANGED <<vars, scenario, client, disk, memory, sentinel, acked, seen, whole>>
  BY DEF cvars, data
<1>3. UNCHANGED <<repl_state, deaths, wr>>
  BY <1>2 DEF vars, procs
<1>4. CTypeOK'
  BY <1>2, <1>3 DEF TInv, CTypeOK, PInv, HInv, IInv, CallAlive, ServerOf, Lost, Up
<1>5. Calls'
  BY <1>2, <1>3, CallsFrame
<1>6. CInv => Data'
  <2> SUFFICES ASSUME CInv PROVE Data'
    OBVIOUS
  <2>1. \A s \in whole' : s \in whole /\ deaths'[s] = deaths[s]
    BY <1>2, <1>3
  <2>2. memory'["backup"].dirty # << >> =>
          /\ memory["backup"].dirty # << >> /\ repl_state'["backup"] = "Standalone"
          /\ deaths'["backup"] = deaths["backup"]
    BY <1>2, <1>3 DEF CInv, Data, DirtyAtBackup
  <2>3. WrongRead /\ ~ client[W].use_backup /\ repl_state'["primary"] = "Recovering" =>
          disk'["primary"] = Zeros
    BY <1>2, <1>3 DEF CInv, Data, WrongReads
  <2> QED
    BY <1>2, <1>3, <2>1, <2>2, <2>3, ServerFrame
<1> QED
  BY <1>4, <1>5, <1>6 DEF Kept, TInv

LEMMA StepKeeps ==
  ASSUME TInv, PInv', StepKinds, [CNext]_cvars
  PROVE  Kept
<1>1. CTypeOK /\ NoOrphans
  BY ServerTypes DEF TInv
<1>2. ASSUME NEW s \in Server, CrashServer(s) \/ StartServer(s) \/ CrashAfter(s) \/ Recovers(s)
      PROVE  Kept
  BY <1>1, <1>2, QuietSteps, QuietStep, StartServerStep
<1>3. ASSUME NEW t \in Attempt, SyncWithData(t) \/ Heartbeats(t) PROVE Kept
  BY <1>1, <1>3, QuietSteps, QuietStep, DeliverBlocksStep, ResumeStep, HelperResumesStep
     DEF SyncWithData
<1>4. ASSUME NEW w \in Writer, Replication(w) PROVE Kept
  <2>1. w = W
    BY OneWriter
  <2> QED
    BY <1>1, <1>4, <2>1, QuietSteps, QuietStep, BackupStoresStep, AnsweringSteps DEF Replication
<1>5. ASSUME NEW k \in Client, Begin(k) \/ Call(k) PROVE Kept
  <2>1. CASE StandaloneWrite(k)
    <3>1. k = W
      BY <2>1, Writers DEF StandaloneWrite, TInv
    <3> QED
      BY <2>1, <3>1, AnsweringSteps
  <2>2. CASE ~ StandaloneWrite(k)
    BY <1>5, <2>2, BeginCallStep, ResendStep, ReadStep, StoreBlockStep, ReplicateStep, ReceiveStep
       DEF Call
  <2> QED
    BY <2>1, <2>2
<1>6. CASE UNCHANGED cvars
  BY <1>6, ClientsStutter
<1> QED
  BY <1>2, <1>3, <1>4, <1>5, <1>6 DEF CNext

LEMMA ClientsNext == DInv /\ [CNext]_cvars => DInv'
<1> SUFFICES ASSUME DInv, [CNext]_cvars PROVE DInv'
  OBVIOUS
<1>1. TInv /\ (Misjudged \/ CInv)
  BY ServerTypes DEF DInv, TInv, CInv
<1>2. StepKinds /\ PInv' /\ (Misjudged => Misjudged')
  BY <1>1, ServersInv
<1>3. Kept
  BY <1>1, <1>2, StepKeeps
<1> QED
  BY <1>1, <1>2, <1>3 DEF DInv, Kept

LEMMA ClientsInvariance == CSpec => []DInv
<1>1. CSpec => CInit /\ [][CNext]_cvars
  BY PTL DEF CSpec
<1>2. CInit /\ [][CNext]_cvars => []DInv
  BY ClientsInit, ClientsNext, PTL
<1> QED
  BY <1>1, <1>2, PTL

\* The types of the clients and of the data, and that a BackupWrite belongs to
\* a client whose primary is alive (BlockStorageClient and both Write methods).
THEOREM ClientTypeCorrect == CSpec => []CTypeOK
<1>1. DInv => CTypeOK
  BY DEF DInv, TInv
<1> QED
  BY <1>1, ClientsInvariance, PTL

\* Until a server is misjudged no acknowledged write is lost in a failover,
\* however many crashes there are: a server that never crashed, or that was
\* brought back with its helper's contents, serves the last acknowledged write
\* or a later one (PrimaryServer.cc lines 98-134, ReplicationModule.cc lines
\* 140-164).
THEOREM AckedServed == CSpec => []AckedWriteServed
<1>1. DInv => AckedWriteServed
  BY DEF DInv, Data, LastWritten, AckedWriteServed
<1> QED
  BY <1>1, ClientsInvariance, PTL

\* Until a server is misjudged, a program that reads the block it has just
\* written gets what it wrote, from whichever server it was switched to, if
\* that server never crashed or was brought back whole (client.cc lines 191-202
\* and 246-257).
THEOREM OwnWriteRead == CSpec => []ReadsOwnWrite
<1>1. DInv => ReadsOwnWrite
  <2> SUFFICES ASSUME DInv, ~ Misjudged, client[W].pc = "answered", client[W].req.op = "Read",
                      ServerOf(W) \in whole
               PROVE  client[W].reply = acked
    BY DEF ReadsOwnWrite
  <2>1. ~ Writing
    BY DEF Writing
  <2> QED
    BY <2>1 DEF DInv, Data, WrongReads, WrongRead, ServerOf
<1> QED
  BY <1>1, ClientsInvariance, PTL
=============================================================================
