---------------------------- MODULE HandoverProofs ----------------------------
(***************************************************************************)
(* Proofs about PairedServers: who is in service during and after a        *)
(* recovery.  Like PairedServersProofs they hold for any set of write      *)
(* handlers and any bounds.                                                *)
(*                                                                         *)
(* HInv holds whatever the delays and the crashes.  A sync thread at its   *)
(* FinishSync has the lock of its server (LockHeld); of two sync threads   *)
(* of different servers one is stale (Exclusive), and so is a FinishSync   *)
(* that has survived its sender (OrphanStale); so two servers are in       *)
(* service only when both are Normal, or the helper is about to follow its *)
(* partner and still has its lock, or one has misjudged the other (Alone). *)
(*                                                                         *)
(* PInv adds what Prompt gives: the thread of Recover and the attempt that *)
(* it waits for go in step, so that only one server recovers the other.    *)
(* FInv adds the fault model: one server is always in service.             *)
(***************************************************************************)
EXTENDS PairedServersProofs

Past(t) == sync[t].pc \notin {"none", "trigger"}

FreshWhenDown == \A s \in Server : ~ Up(s) => recovery[s].sync_id = 0

LockHeld == \A t \in Attempt : Finishing(t) => stateMutex[Host(t)] = t

\* Only a server in service sends heartbeats or BackupWrite calls.
Writes(w) == wr[w].pc \notin {"idle", "orphan"}
CallersInService ==
  /\ \A t \in Attempt : HbRunning(t) => InService("backup")
  /\ \A w \in Writer : Writes(w) => InService("primary")

Exclusive ==
  \A t, u \in Attempt :
    Past(t) /\ Past(u) /\ CurrentSync(t) /\ CurrentSync(u) => requester[t] = requester[u]

OrphanStale ==
  \A t \in Attempt : sync[t].pc = "orphan" /\ CurrentSync(t) => ~ InService(Host(t))

\* The helper of s has the answer to its FinishSync, and s is alive.
HandsBack(s, t) == requester[t] = s /\ sync[t].pc = "finish_ok" /\ ~ Lost(s, sync[t].to)

\* A Standalone server has the service for itself, but for the end of a recovery.
Alone ==
  \A s \in Server : repl_state[s] = "Standalone" /\ InService(Other(s)) =>
    repl_state[Other(s)] = "Normal" /\ \E t \in Attempt : HandsBack(Other(s), t)

Threads == FreshWhenDown /\ LockHeld /\ CallersInService /\ Exclusive /\ OrphanStale
HInv == IInv /\ Threads /\ (Misjudged \/ Alone)

NoOrphans ==
  /\ \A t \in Attempt : sync[t].pc # "orphan" /\ hb[t].pc # "orphan"
  /\ \A w \in Writer : wr[w].pc # "orphan"

\* Where Recover is follows from the state of its server and of its attempt.
RecoverInStep ==
  \A s \in Server :
    /\ r_pc[s] \in {"begin", "trigger"} \/ (r_pc[s] = "wait" /\ ~ recovery[s].done)
         => repl_state[s] = "Recovering"
    /\ r_pc[s] = "begin" =>
         recovery[s].sync_id = 0 \/ sync[recovery[s].sync_id].pc = "over"
    /\ r_pc[s] = "trigger" =>
         /\ recovery[s].sync_id # 0 /\ sync[recovery[s].sync_id].pc = "trigger"
         /\ requester[recovery[s].sync_id] = s

TriggerInStep ==
  \A t \in Attempt : sync[t].pc = "trigger" =>
    r_pc[requester[t]] = "trigger" /\ recovery[requester[t]].sync_id = t

\* Never both servers recover the other one.
RunOneWay ==
  \A t, u \in Attempt : SyncRunning(t) /\ SyncRunning(u) => requester[t] = requester[u]

PInv == HInv /\ NoOrphans /\ RecoverInStep /\ TriggerInStep /\ RunOneWay

\* One server is in service, and a TriggerSync has not lost its receiver.
OneGone == \A s \in Server : InService(s) \/ InService(Other(s))
TriggerCurrent == \A t \in Attempt : sync[t].pc = "trigger" => sync[t].to = deaths[Host(t)]

FInv == PInv /\ PartitionOnlyByMisjudgment /\ (Misjudged \/ (OneGone /\ TriggerCurrent))
        /\ RecoveryFindsHelper

----------------------------------------------------------------------------
(***************************************************************************)
(* The steps, by what they do to the servers and the threads.              *)
(***************************************************************************)

\* A step of the heartbeats or of the BackupWrite calls that changes no server.
CallsOnly ==
  /\ UNCHANGED <<procs, recovers, syncers, events>>
  /\ \A t \in Attempt : /\ HbRunning(t)' => HbRunning(t)
                        /\ hb'[t].pc = "orphan" => hb[t].pc = "orphan"
  /\ \A w \in Writer : /\ Writes(w)' => Writes(w) \/ InService("primary")
                       /\ wr'[w].pc = "orphan" => wr[w].pc = "orphan"

\* A server is made Standalone by the failure of a call.
GivesUp(s) ==
  /\ InService(s)
  /\ repl_state' = [repl_state EXCEPT ![s] = "Standalone"]
  /\ GiveUp(Other(s))
  /\ UNCHANGED <<stateMutex, deaths, recovers, syncers>>
  /\ \A t \in Attempt : /\ HbRunning(t)' => HbRunning(t)
                        /\ hb'[t].pc = "orphan" => hb[t].pc = "orphan"
  /\ \A w \in Writer : /\ Writes(w)' => Writes(w)
                       /\ wr'[w].pc = "orphan" => wr[w].pc = "orphan"

\* A process ends, for a reason that events may record.
Ends(s) ==
  /\ Die(s)
  /\ events \subseteq events' /\ events' \subseteq Events

LEMMA HeartbeatCalls ==
  ASSUME TypeOK, NEW t \in Attempt,
         HbStart(t) \/ HbCallFails(t) \/ HbNext(t) \/ (Heartbeat(t) /\ UNCHANGED procs)
  PROVE  CallsOnly
<1>1. hb \in [Attempt -> HbRecord] /\ hb[t] \in HbRecord
  BY Types
<1>2. Heartbeat(t) /\ UNCHANGED procs => ~ Exit("primary", "heartbeat in Standalone")
  BY DieCounts DEF Exit, procs, Server
<1>3. UNCHANGED <<procs, recovers, syncers, events, wr>>
  BY <1>2 DEF HbStart, HbCallFails, HbNext, Heartbeat
<1>4. /\ \A u \in Attempt : u # t => hb'[u] = hb[u]
      /\ hb'[t].pc \in {"spawned", "call", "ok", "failed"} => HbRunning(t)
      /\ hb'[t].pc = "orphan" => hb[t].pc = "orphan"
  <2>1. CASE HbStart(t)
    BY <1>1, <2>1 DEF HbStart, SendHeartbeat, HbRunning, HbRecord
  <2>2. CASE HbCallFails(t)
    BY <1>1, <2>2 DEF HbCallFails, Return, Loop, HbRunning, HbRecord
  <2>3. CASE HbNext(t)
    BY <1>1, <2>3 DEF HbNext, SendHeartbeat, Loop, HbRunning, HbRecord
  <2>4. CASE Heartbeat(t) /\ UNCHANGED procs
    <3>1. hb[t].pc \in {"call", "orphan"}
      BY <2>4 DEF Heartbeat
    <3>2. PICK pc \in {"ok", "failed"} : hb' = [hb EXCEPT ![t] = Return(@, pc, Loop("over"))]
      BY <1>2, <2>4 DEF Heartbeat
    <3> QED
      BY <1>1, <3>1, <3>2 DEF Return, Loop, HbRunning, HbRecord
  <2> QED
    BY <2>1, <2>2, <2>3, <2>4
<1>5. \A u \in Attempt : /\ HbRunning(u)' => HbRunning(u)
                         /\ hb'[u].pc = "orphan" => hb[u].pc = "orphan"
  BY <1>4 DEF HbRunning
<1> QED
  BY <1>3, <1>5 DEF CallsOnly, Writes

LEMMA WriteCalls ==
  ASSUME TypeOK, NEW w \in Writer,
         CallBackup(w) \/ (BackupWrite(w) /\ UNCHANGED procs)
         \/ BackupWriteReturns(w) \/ WriteCallFails(w)
  PROVE  CallsOnly
<1>1. wr \in [Writer -> WrRecord] /\ wr[w] \in WrRecord
  BY Types
<1>2. BackupWrite(w) /\ UNCHANGED procs => ~ Exit("backup", "BackupWrite in Standalone")
  BY DieCounts DEF Exit, procs, Server
<1>3. UNCHANGED <<procs, recovers, syncers, events, hb>>
  BY <1>2 DEF CallBackup, BackupWrite, BackupWriteReturns, WriteCallFails
<1>4. /\ \A v \in Writer : v # w => wr'[v] = wr[v]
      /\ Writes(w)' => Writes(w) \/ InService("primary")
      /\ wr'[w].pc = "orphan" => wr[w].pc = "orphan"
  <2>1. CASE CallBackup(w)
    BY <1>1, <2>1 DEF CallBackup, CallTo, InService
  <2>2. CASE BackupWrite(w) /\ UNCHANGED procs
    <3>1. wr[w].pc \in {"call", "orphan"}
      BY <2>2 DEF BackupWrite
    <3>2. PICK pc \in {"ok", "failed"} : wr' = [wr EXCEPT ![w] = Return(@, pc, Thread("idle"))]
      BY <1>2, <2>2 DEF BackupWrite
    <3> QED
      BY <1>1, <3>1, <3>2 DEF Return, Thread, Writes, WrRecord
  <2>3. CASE BackupWriteReturns(w)
    BY <1>1, <2>3 DEF BackupWriteReturns, Thread, Writes
  <2>4. CASE WriteCallFails(w)
    BY <1>1, <2>4 DEF WriteCallFails, Return, Thread, Writes, WrRecord
  <2> QED
    BY <2>1, <2>2, <2>3, <2>4
<1>5. \A v \in Writer : /\ Writes(v)' => Writes(v) \/ InService("primary")
                        /\ wr'[v].pc = "orphan" => wr[v].pc = "orphan"
  BY <1>4 DEF Writes
<1> QED
  BY <1>3, <1>5 DEF CallsOnly, HbRunning

LEMMA GivingUp ==
  ASSUME IInv, CallersInService
  PROVE  /\ \A t \in Attempt : HbGivesUp(t) => GivesUp("backup")
         /\ \A w \in Writer : AssumePartnerDown(w) => GivesUp("primary")
<1>1. hb \in [Attempt -> HbRecord] /\ wr \in [Writer -> WrRecord]
  BY Types DEF IInv
<1>2. ASSUME NEW t \in Attempt, HbGivesUp(t) PROVE GivesUp("backup")
  <2>1. hb' = [hb EXCEPT ![t] = Loop("over")] /\ hb[t].pc = "failed"
    BY <1>2 DEF HbGivesUp
  <2>2. \A u \in Attempt : /\ HbRunning(u)' => HbRunning(u)
                           /\ hb'[u].pc = "orphan" => hb[u].pc = "orphan"
    BY <1>1, <2>1 DEF HbRunning, Loop
  <2>3. InService("backup")
    BY <2>1 DEF CallersInService, HbRunning
  <2> QED
    BY <1>2, <2>2, <2>3 DEF HbGivesUp, GivesUp, Writes, Other
<1>3. ASSUME NEW w \in Writer, AssumePartnerDown(w) PROVE GivesUp("primary")
  <2>1. wr' = [wr EXCEPT ![w] = Thread("idle")] /\ wr[w].pc = "failed"
    BY <1>3 DEF AssumePartnerDown
  <2>2. \A v \in Writer : /\ Writes(v)' => Writes(v)
                          /\ wr'[v].pc = "orphan" => wr[v].pc = "orphan"
    BY <1>1, <2>1 DEF Writes, Thread
  <2>3. InService("primary")
    BY <2>1 DEF CallersInService, Writes
  <2> QED
    BY <1>3, <2>2, <2>3 DEF AssumePartnerDown, GivesUp, HbRunning, Other
<1> QED
  BY <1>2, <1>3

\* Every step of the system is of one of these kinds.
StepKinds ==
  \/ CallsOnly
  \/ \E s \in Server : GivesUp(s) \/ Start(s) \/ BeginAttempt(s) \/ Timeout(s) \/ ConfirmRecovery(s)
  \/ \E s \in Server : Ends(s)
  \/ \E t \in Attempt : \/ TriggerSync(t) /\ UNCHANGED deaths
                        \/ SendFinish(t) \/ SyncRejected(t)
                        \/ FinishSync(t) \/ FinishCallFails(t) \/ FinishAnswered(t)

LEMMA Kinds ==
  ASSUME IInv, CallersInService, [Next]_vars
  PROVE  StepKinds
<1>1. TypeOK /\ events \subseteq Events /\ "primary" \in Server /\ "backup" \in Server
  BY EventTypes DEF IInv, Server
<1>2. ASSUME NEW s \in Server, Crash(s) \/ Start(s) \/ RecoverStep(s) PROVE StepKinds
  <2>1. CASE Crash(s)
    BY <1>1, <2>1 DEF Crash, Ends, StepKinds
  <2>2. CASE TriggerFails(s)
    BY <1>1, <2>2 DEF TriggerFails, Exit, Ends, StepKinds, Events
  <2> QED
    BY <1>2, <2>1, <2>2 DEF RecoverStep, StepKinds
<1>3. ASSUME NEW t \in Attempt, SyncStep(t) PROVE StepKinds
  <2>1. CASE TriggerSync(t)
    <3>1. CASE Exit(Host(t), "both recovering")
      <4>1. Host(t) \in Server
        BY <1>1, Hosting
      <4> QED
        BY <1>1, <3>1, <4>1 DEF Exit, Ends, StepKinds, Events
    <3>2. CASE UNCHANGED deaths
      BY <2>1, <3>2 DEF StepKinds
    <3> QED
      BY <2>1, <3>1, <3>2 DEF TriggerSync
  <2> QED
    BY <1>3, <2>1 DEF SyncStep, StepKinds
<1>4. ASSUME NEW t \in Attempt, HbStep(t) PROVE StepKinds
  <2>1. CASE Heartbeat(t)
    <3>1. CASE Exit("primary", "heartbeat in Standalone")
      BY <1>1, <3>1 DEF Exit, Ends, StepKinds, Events
    <3>2. CASE UNCHANGED procs
      BY <1>1, <2>1, <3>2, HeartbeatCalls DEF StepKinds
    <3> QED
      BY <2>1, <3>1, <3>2 DEF Heartbeat
  <2>2. CASE HbGivesUp(t)
    BY <1>1, <2>2, GivingUp DEF StepKinds
  <2> QED
    BY <1>1, <1>4, <2>1, <2>2, HeartbeatCalls DEF HbStep, StepKinds
<1>5. ASSUME NEW w \in Writer, CallBackup(w) \/ WriteStep(w) PROVE StepKinds
  <2>1. CASE BackupWrite(w)
    <3>1. CASE Exit("backup", "BackupWrite in Standalone")
      BY <1>1, <3>1 DEF Exit, Ends, StepKinds, Events
    <3>2. CASE UNCHANGED procs
      BY <1>1, <2>1, <3>2, WriteCalls DEF StepKinds
    <3> QED
      BY <2>1, <3>1, <3>2 DEF BackupWrite
  <2>2. CASE AssumePartnerDown(w)
    BY <1>1, <2>2, GivingUp DEF StepKinds
  <2> QED
    BY <1>1, <1>5, <2>1, <2>2, WriteCalls DEF WriteStep, StepKinds
<1>6. CASE UNCHANGED vars
  BY <1>6 DEF vars, CallsOnly, HbRunning, Writes, StepKinds
<1> QED
  BY <1>2, <1>3, <1>4, <1>5, <1>6 DEF Next
----------------------------------------------------------------------------
(***************************************************************************)
(* Any delays: HInv.                                                       *)
(***************************************************************************)

\* A step at which no process ends or starts and no id is drawn.
LEMMA ThreadsFrame ==
  ASSUME TypeOK, Threads, UNCHANGED <<deaths, requester>>,
         \A s \in Server : /\ recovery'[s].sync_id = recovery[s].sync_id
                           /\ repl_state'[s] = "Recovering" => repl_state[s] = "Recovering"
                           /\ Up(s) => Up(s)'
                           /\ InService(s)' => \/ InService(s)
                                               \/ \A u \in Attempt : ~ (/\ sync[u].pc = "orphan"
                                                                        /\ Host(u) = s
                                                                        /\ CurrentSync(u)),
         \A t \in Attempt : /\ Past(t)' => Past(t) \/ InService(Host(t))
                            /\ sync'[t].pc = "orphan" => sync[t].pc = "orphan",
         LockHeld', CallersInService'
  PROVE  Threads'
<1>1. \A t \in Attempt : requester[t] \in Server /\ Host(t) \in Server /\ Host(t)' = Host(t)
  BY Hosting DEF Host
<1>2. \A t \in Attempt : CurrentSync(t)' => CurrentSync(t)
  BY <1>1 DEF CurrentSync
<1>3. FreshWhenDown'
  BY DEF FreshWhenDown, Threads
<1>4. Exclusive'
  <2> SUFFICES ASSUME NEW t \in Attempt, NEW u \in Attempt, Past(t)', Past(u)',
                      CurrentSync(t)', CurrentSync(u)', requester[t] # requester[u]
               PROVE  FALSE
    BY DEF Exclusive
  <2>1. CurrentSync(t) /\ CurrentSync(u)
    BY <1>2
  <2>2. Host(t) = requester[u] /\ Host(u) = requester[t]
    BY Hosting, Others
  <2>3. ~ InService(Host(t)) /\ ~ InService(Host(u))
    BY <2>1, <2>2 DEF CurrentSync, InService
  <2> QED
    BY <2>1, <2>3 DEF Exclusive, Threads
<1>5. OrphanStale'
  <2> SUFFICES ASSUME NEW t \in Attempt, sync'[t].pc = "orphan", CurrentSync(t)', InService(Host(t))'
               PROVE  FALSE
    BY DEF OrphanStale
  <2>1. sync[t].pc = "orphan" /\ CurrentSync(t) /\ ~ InService(Host(t))
    BY <1>2 DEF OrphanStale, Threads
  <2> QED
    BY <1>1, <2>1 DEF InService
<1> QED
  BY <1>3, <1>4, <1>5 DEF Threads

\* The states stay, and the end of a recovery is not passed.
LEMMA AloneFrame ==
  ASSUME TypeOK, Misjudged \/ Alone, events \subseteq events',
         UNCHANGED <<repl_state, deaths, requester>>,
         \A s \in Server, t \in Attempt : HandsBack(s, t) => sync'[t] = sync[t]
  PROVE  (Misjudged \/ Alone)'
<1>1. CASE Misjudged
  BY <1>1 DEF Misjudged
<1>2. CASE Alone
  <2> SUFFICES ASSUME NEW s \in Server, repl_state[s] = "Standalone", InService(Other(s))
               PROVE  repl_state[Other(s)] = "Normal" /\ \E t \in Attempt : HandsBack(Other(s), t)'
    BY DEF Alone, InService
  <2>1. PICK t \in Attempt : HandsBack(Other(s), t) /\ repl_state[Other(s)] = "Normal"
    BY <1>2 DEF Alone
  <2>2. HandsBack(Other(s), t)'
    BY <2>1, Others DEF HandsBack, Lost, Up
  <2> QED
    BY <2>1, <2>2
<1> QED
  BY <1>1, <1>2

LEMMA CallsHandover ==
  ASSUME HInv, CallsOnly, IInv'
  PROVE  HInv'
<1>1. LockHeld'
  BY DEF HInv, Threads, LockHeld, CallsOnly, procs, syncers, Finishing, Host
<1>2. CallersInService'
  BY DEF HInv, Threads, CallersInService, CallsOnly, procs, InService
<1>3. Threads'
  BY <1>1, <1>2, ThreadsFrame
     DEF HInv, IInv, CallsOnly, procs, recovers, syncers, Up, InService, Past
<1>4. (Misjudged \/ Alone)'
  BY AloneFrame DEF HInv, IInv, CallsOnly, procs, syncers
<1> QED
  BY <1>3, <1>4 DEF HInv

LEMMA GivesUpHandover ==
  ASSUME HInv, NEW s \in Server, GivesUp(s), IInv'
  PROVE  HInv'
<1>1. /\ repl_state \in [Server -> {"Down", "Recovering", "Normal", "Standalone"}]
      /\ repl_state' = [repl_state EXCEPT ![s] = "Standalone"] /\ InService(s)
      /\ UNCHANGED <<stateMutex, deaths, recovers, syncers>>
      /\ Other(s) \in Server /\ Other(s) # s /\ \A r \in Server : r = s \/ r = Other(s)
  BY Types, Others DEF HInv, IInv, GivesUp
<1>2. \A r \in Server : /\ InService(r)' <=> InService(r)
                        /\ Up(r)' <=> Up(r)
                        /\ repl_state'[r] = "Recovering" => repl_state[r] = "Recovering"
  BY <1>1 DEF InService, Up
<1>3. LockHeld'
  BY <1>1 DEF HInv, Threads, LockHeld, syncers, Finishing, Host
<1>4. CallersInService'
  BY <1>2 DEF HInv, Threads, CallersInService, GivesUp, Server
<1>5. Threads'
  BY <1>1, <1>2, <1>3, <1>4, ThreadsFrame DEF HInv, IInv, recovers, syncers, Past
<1>6. (Misjudged \/ Alone)'
  <2>1. CASE InService(Other(s)) \/ Misjudged
    BY <2>1 DEF GivesUp, GiveUp, Misjudged
  <2>2. CASE ~ InService(Other(s))
    <3>1. \A r \in Server : ~ (repl_state'[r] = "Standalone" /\ InService(Other(r))')
      BY <1>1, <1>2, <2>2, Others DEF InService
    <3> QED
      BY <3>1 DEF Alone
  <2> QED
    BY <2>1, <2>2
<1> QED
  BY <1>5, <1>6 DEF HInv

LEMMA StartHandover ==
  ASSUME HInv, NEW s \in Server, Start(s), IInv'
  PROVE  HInv'
<1>1. /\ repl_state \in [Server -> {"Down", "Recovering", "Normal", "Standalone"}]
      /\ repl_state' = [repl_state EXCEPT ![s] = "Recovering"] /\ ~ Up(s)
      /\ UNCHANGED <<stateMutex, deaths, recovery, syncers, iter, hb, wr, events>>
      /\ recovery[s].sync_id = 0
  BY Types DEF HInv, IInv, Start, Threads, FreshWhenDown
<1>2. \A r \in Server : /\ InService(r)' <=> InService(r)
                        /\ r # s => repl_state'[r] = repl_state[r]
  BY <1>1 DEF InService, Up
<1>3. \A t \in Attempt : CurrentSync(t)' => CurrentSync(t) /\ Host(t) \in Server
  <2>1. \A t \in Attempt : requester[t] = s => ~ CurrentSync(t)'
    BY <1>1, Bounds DEF CurrentSync, syncers
  <2> QED
    BY <1>1, <1>2, <2>1, Hosting DEF CurrentSync, syncers, HInv, IInv
<1>4. FreshWhenDown' /\ LockHeld'
  BY <1>1, <1>2 DEF HInv, Threads, FreshWhenDown, LockHeld, Up, syncers, Finishing, Host
<1>5. CallersInService'
  BY <1>1, <1>2 DEF HInv, Threads, CallersInService, HbRunning, Writes, Server
<1>6. Exclusive' /\ OrphanStale'
  BY <1>1, <1>2, <1>3 DEF HInv, Threads, Exclusive, OrphanStale, Past, syncers, Host
<1>7. (Misjudged \/ Alone)'
  <2>1. CASE Misjudged
    BY <1>1, <2>1 DEF Misjudged
  <2>2. CASE Alone
    <3> SUFFICES ASSUME NEW r \in Server, repl_state'[r] = "Standalone", InService(Other(r))'
                 PROVE  /\ repl_state'[Other(r)] = "Normal"
                        /\ \E t \in Attempt : HandsBack(Other(r), t)'
      BY DEF Alone
    <3>1. r # s /\ Other(r) # s /\ Other(r) \in Server
      BY <1>1, Others DEF InService
    <3>2. PICK t \in Attempt : HandsBack(Other(r), t) /\ repl_state[Other(r)] = "Normal"
      BY <1>2, <2>2, <3>1 DEF Alone
    <3> QED
      BY <1>1, <1>2, <3>1, <3>2 DEF HandsBack, Lost, Up, syncers
  <2> QED
    BY <2>1, <2>2 DEF HInv
<1> QED
  BY <1>4, <1>5, <1>6, <1>7 DEF HInv, Threads

LEMMA BeginHandover ==
  ASSUME HInv, NEW s \in Server, BeginAttempt(s), IInv'
  PROVE  HInv'
<1> DEFINE n == attempt + 1
<1>1. /\ TypeOK /\ attempt \in 0..MaxAttempts /\ attempt < MaxAttempts
      /\ recovery \in [Server -> [sync_id : 0..MaxAttempts, done : BOOLEAN]]
      /\ sync \in [Attempt -> SyncRecord] /\ requester \in [Attempt -> Server]
      /\ UNCHANGED <<procs, iter, hb, wr, events>>
  BY Types DEF HInv, IInv, BeginAttempt
<1>2. n \in Attempt /\ n > attempt /\ sync[n].pc = "none" /\ sync'[n].pc = "trigger"
  <2>1. n \in Attempt /\ n > attempt
    BY <1>1, Bounds DEF Attempt
  <2> QED
    BY <1>1, <2>1 DEF BeginAttempt, CallTo, HInv, IInv, IdsInOrder
<1>3. \A t \in Attempt : t # n => /\ sync'[t] = sync[t] /\ requester'[t] = requester[t]
                                  /\ Host(t)' = Host(t)
                                  /\ CurrentSync(t)' => CurrentSync(t)
  <2>1. \A t \in Attempt : t # n => sync'[t] = sync[t] /\ requester'[t] = requester[t]
    BY <1>1 DEF BeginAttempt
  <2>2. \A r \in Server : r # s => recovery'[r] = recovery[r]
    BY <1>1 DEF BeginAttempt
  <2>3. recovery'[s].sync_id = n
    BY <1>1 DEF BeginAttempt, FreshRecovery
  <2> QED
    BY <1>1, <2>1, <2>2, <2>3 DEF CurrentSync, Host, procs
<1>4. FreshWhenDown'
  <2>1. Up(s) /\ \A r \in Server : r # s => recovery'[r] = recovery[r]
    BY <1>1, Processes DEF BeginAttempt
  <2> QED
    BY <1>1, <2>1 DEF HInv, Threads, FreshWhenDown, Up, procs
<1>5. LockHeld'
  <2> SUFFICES ASSUME NEW t \in Attempt, Finishing(t)' PROVE stateMutex'[Host(t)'] = t
    BY DEF LockHeld
  <2> QED
    BY <1>1, <1>2, <1>3 DEF Finishing, HInv, Threads, LockHeld, procs
<1>6. CallersInService'
  BY <1>1 DEF HInv, Threads, CallersInService, HbRunning, Writes, InService, procs
<1>7. Exclusive' /\ OrphanStale'
  BY <1>1, <1>2, <1>3 DEF HInv, Threads, Exclusive, OrphanStale, Past, InService, procs
<1>8. (Misjudged \/ Alone)'
  <2>1. \A r \in Server, t \in Attempt : HandsBack(r, t) => HandsBack(r, t)'
    BY <1>1, <1>2, <1>3 DEF HandsBack, Lost, Up, procs
  <2> QED
    BY <1>1, <2>1, Others DEF HInv, Misjudged, Alone, InService, procs
<1> QED
  BY <1>4, <1>5, <1>6, <1>7, <1>8 DEF HInv, Threads

LEMMA TimerHandover ==
  ASSUME HInv, NEW s \in Server, Timeout(s) \/ ConfirmRecovery(s), IInv'
  PROVE  HInv'
<1>1. UNCHANGED <<procs, recovery, syncers, iter, hb, wr, events>>
  BY DEF Timeout, ConfirmRecovery
<1>2. LockHeld' /\ CallersInService'
  BY <1>1 DEF HInv, Threads, LockHeld, CallersInService, procs, syncers, Finishing, Host,
              HbRunning, Writes, InService
<1>3. Threads'
  BY <1>1, <1>2, ThreadsFrame DEF HInv, IInv, procs, syncers, Up, InService, Past
<1>4. (Misjudged \/ Alone)'
  BY <1>1, AloneFrame DEF HInv, IInv, procs, syncers
<1> QED
  BY <1>3, <1>4 DEF HInv

LEMMA EndHandover ==
  ASSUME HInv, NEW s \in Server, Ends(s), IInv'
  PROVE  HInv'
<1>1. /\ TypeOK /\ Die(s) /\ events \subseteq events'
      /\ repl_state \in [Server -> {"Down", "Recovering", "Normal", "Standalone"}]
      /\ deaths \in [Server -> Nat] /\ stateMutex \in [Server -> 0..MaxAttempts]
      /\ recovery \in [Server -> [sync_id : 0..MaxAttempts, done : BOOLEAN]]
      /\ sync \in [Attempt -> SyncRecord]
      /\ UNCHANGED requester
  BY Types DEF HInv, IInv, Ends, Die
<1>2. /\ repl_state'[s] = "Down" /\ recovery'[s].sync_id = 0 /\ ~ InService(s)'
      /\ \A r \in Server : r # s =>
           /\ repl_state'[r] = repl_state[r] /\ recovery'[r] = recovery[r]
           /\ deaths'[r] = deaths[r] /\ stateMutex'[r] = stateMutex[r]
           /\ InService(r)' <=> InService(r)
  BY <1>1 DEF Die, FreshRecovery, InService
<1>3. \A t \in Attempt : CurrentSync(t)' =>
        CurrentSync(t) /\ requester[t] # s /\ Host(t) = s /\ Host(t)' = s
  <2> SUFFICES ASSUME NEW t \in Attempt, CurrentSync(t)'
               PROVE  CurrentSync(t) /\ requester[t] # s /\ Host(t) = s /\ Host(t)' = s
    OBVIOUS
  <2>1. requester[t] \in Server /\ requester[t] # s
    BY <1>1, <1>2, Hosting DEF CurrentSync
  <2> QED
    BY <1>1, <1>2, <2>1, Hosting, Others DEF CurrentSync, Host
<1>4. FreshWhenDown'
  BY <1>2 DEF HInv, Threads, FreshWhenDown, Up
<1>5. LockHeld'
  <2> SUFFICES ASSUME NEW t \in Attempt, Finishing(t)' PROVE stateMutex'[Host(t)'] = t
    BY DEF LockHeld
  <2>1. SyncRunning(t)'
    BY DEF Finishing, SyncRunning
  <2>2. SyncRunning(t) /\ Host(t) # s /\ sync'[t] = sync[t] /\ Host(t) \in Server /\ Host(t)' = Host(t)
    BY <1>1, <2>1, DieKills, Hosting DEF Host
  <2> QED
    BY <1>2, <2>2 DEF Finishing, HInv, Threads, LockHeld
<1>6. CallersInService'
  <2>1. ASSUME NEW t \in Attempt, HbRunning(t)' PROVE InService("backup")'
    <3>1. hb \in [Attempt -> HbRecord]
      BY <1>1, Types
    <3>2. s # "backup" /\ hb'[t] = hb[t]
      <4>1. hb'[t] = IF s = "backup" /\ HbRunning(t)
                     THEN Killed(hb[t], "call", Loop("over")) ELSE hb[t]
        BY <1>1 DEF Die
      <4>2. Killed(hb[t], "call", Loop("over")).pc \in {"over", "orphan"}
        BY <3>1, KilledTypes
      <4> QED
        BY <2>1, <4>1, <4>2 DEF HbRunning
    <3> QED
      BY <1>2, <2>1, <3>2 DEF HInv, Threads, CallersInService, HbRunning, Server
  <2>2. ASSUME NEW w \in Writer, Writes(w)' PROVE InService("primary")'
    <3>1. wr \in [Writer -> WrRecord]
      BY <1>1, Types
    <3>2. s # "primary" /\ wr'[w] = wr[w]
      <4>1. wr'[w] = IF s = "primary" /\ wr[w].pc # "orphan"
                     THEN Killed(wr[w], "call", Thread("idle")) ELSE wr[w]
        BY <1>1 DEF Die
      <4>2. Killed(wr[w], "call", Thread("idle")).pc \in {"idle", "orphan"}
        BY <3>1, KilledTypes
      <4> QED
        BY <2>2, <4>1, <4>2 DEF Writes
    <3> QED
      BY <1>2, <2>2, <3>2 DEF HInv, Threads, CallersInService, Writes, Server
  <2> QED
    BY <2>1, <2>2 DEF CallersInService
<1>7. Exclusive'
  BY <1>3, Hosting, Others, <1>1 DEF Exclusive
<1>8. OrphanStale'
  BY <1>2, <1>3 DEF OrphanStale
<1>9. (Misjudged \/ Alone)'
  <2>1. Alone'
    BY <1>2, Others DEF Alone, InService
  <2> QED
    BY <2>1
<1> QED
  BY <1>4, <1>5, <1>6, <1>7, <1>8, <1>9 DEF HInv, Threads

LEMMA TriggerHandover ==
  ASSUME HInv, NEW t \in Attempt, TriggerSync(t), UNCHANGED deaths, IInv'
  PROVE  HInv'
<1> DEFINE h == Host(t)  s == requester[t]
<1>1. /\ TypeOK /\ h \in Server /\ s \in Server /\ h # s /\ h = Other(s) /\ s = Other(h)
      /\ repl_state \in [Server -> {"Down", "Recovering", "Normal", "Standalone"}]
      /\ sync \in [Attempt -> SyncRecord]
  BY Types, Hosting DEF HInv, IInv
<1>2. ~ Exit(h, "both recovering")
  BY <1>1, DieCounts DEF Exit
<1>3. /\ sync[t].pc = "trigger" /\ InService(h)
      /\ repl_state' = [repl_state EXCEPT ![h] = "Standalone"]
      /\ sync' = [sync EXCEPT ![t] = Thread("deliver")]
      /\ GiveUp(s)
      /\ UNCHANGED <<stateMutex, deaths, recovery, attempt, requester, iter, hb, wr>>
  BY <1>1, <1>2 DEF TriggerSync, InService
<1>4. \A r \in Server : /\ InService(r)' <=> InService(r)
                        /\ Up(r)' <=> Up(r)
                        /\ repl_state'[r] = "Recovering" => repl_state[r] = "Recovering"
  BY <1>1, <1>3 DEF InService, Up
<1>5. sync'[t].pc = "deliver" /\ \A u \in Attempt : u # t => sync'[u] = sync[u]
  BY <1>1, <1>3 DEF Thread
<1>6. LockHeld'
  BY <1>3, <1>5 DEF HInv, Threads, LockHeld, Finishing, Host
<1>7. CallersInService'
  BY <1>3, <1>4 DEF HInv, Threads, CallersInService, HbRunning, Writes, Server
<1>8. Threads'
  BY <1>1, <1>3, <1>4, <1>5, <1>6, <1>7, ThreadsFrame DEF HInv, Past
<1>9. (Misjudged \/ Alone)'
  <2>1. CASE InService(s) \/ Misjudged
    BY <1>3, <2>1 DEF GiveUp, Misjudged
  <2>2. CASE ~ InService(s)
    <3>1. \A r \in Server : ~ (repl_state'[r] = "Standalone" /\ InService(Other(r))')
      BY <1>1, <1>3, <1>4, <2>2, Others DEF InService
    <3> QED
      BY <3>1 DEF Alone
  <2> QED
    BY <2>1, <2>2
<1> QED
  BY <1>8, <1>9 DEF HInv

LEMMA SendFinishHandover ==
  ASSUME HInv, NEW t \in Attempt, SendFinish(t), IInv'
  PROVE  HInv'
<1>1. /\ TypeOK /\ stateMutex \in [Server -> 0..MaxAttempts] /\ sync \in [Attempt -> SyncRecord]
      /\ Host(t) \in Server /\ sync[t].pc = "deliver" /\ stateMutex[Host(t)] = 0
      /\ stateMutex' = [stateMutex EXCEPT ![Host(t)] = t]
      /\ UNCHANGED <<repl_state, deaths, recovers, attempt, requester, iter, hb, wr, events>>
  BY Types, Hosting DEF HInv, IInv, SendFinish, CanLock, KeepLock
<1>2. sync'[t].pc = "finish" /\ \A u \in Attempt : u # t => sync'[u] = sync[u]
  BY <1>1 DEF SendFinish, CallTo
<1>3. LockHeld'
  <2> SUFFICES ASSUME NEW u \in Attempt, Finishing(u)' PROVE stateMutex'[Host(u)] = u
    BY <1>1 DEF LockHeld, Host
  <2>1. CASE u = t
    BY <1>1, <2>1
  <2>2. CASE u # t
    <3>1. stateMutex[Host(u)] = u /\ Host(u) \in Server /\ u # 0
      BY <1>1, <1>2, <2>2, Hosting, Bounds DEF Finishing, HInv, Threads, LockHeld
    <3> QED
      BY <1>1, <3>1
  <2> QED
    BY <2>1, <2>2
<1>4. CallersInService'
  BY <1>1 DEF HInv, Threads, CallersInService, HbRunning, Writes, InService
<1>5. Threads'
  BY <1>1, <1>2, <1>3, <1>4, ThreadsFrame DEF HInv, Past, Up, InService, recovers
<1>6. (Misjudged \/ Alone)'
  BY <1>1, <1>2, AloneFrame DEF HInv, HandsBack
<1> QED
  BY <1>5, <1>6 DEF HInv

LEMMA RejectedHandover ==
  ASSUME HInv, NEW t \in Attempt, SyncRejected(t), IInv'
  PROVE  HInv'
<1>1. /\ TypeOK /\ sync \in [Attempt -> SyncRecord] /\ sync[t].pc = "deliver"
      /\ UNCHANGED <<procs, recovers, attempt, requester, iter, hb, wr, events>>
  BY Types DEF HInv, IInv, SyncRejected
<1>2. sync'[t].pc = "over" /\ \A u \in Attempt : u # t => sync'[u] = sync[u]
  BY <1>1 DEF SyncRejected, Thread
<1>3. LockHeld'
  BY <1>1, <1>2 DEF HInv, Threads, LockHeld, Finishing, Host, procs
<1>4. CallersInService'
  BY <1>1 DEF HInv, Threads, CallersInService, HbRunning, Writes, InService, procs
<1>5. Threads'
  BY <1>1, <1>2, <1>3, <1>4, ThreadsFrame DEF HInv, Past, Up, InService, recovers, procs
<1>6. (Misjudged \/ Alone)'
  BY <1>1, <1>2, AloneFrame DEF HInv, HandsBack, procs
<1> QED
  BY <1>5, <1>6 DEF HInv

\* What becomes of a FinishSync call.
LEMMA FinishReturns ==
  ASSUME TypeOK, NEW t \in Attempt, FinishSync(t) \/ FinishCallFails(t)
  PROVE  /\ \A u \in Attempt : u # t => sync'[u] = sync[u]
         /\ sync[t].pc = "orphan" => sync'[t].pc = "over"
         /\ sync[t].pc # "orphan" => Finishing(t) /\ Finishing(t)' /\ sync'[t].to = sync[t].to
         /\ sync[t].pc \in {"finish", "orphan", "finish_ok"}
         /\ sync'[t].pc \in {"over", "finish_ok", "finish_failed"}
<1>1. sync \in [Attempt -> SyncRecord] /\ sync[t] \in SyncRecord
  BY Types
<1>2. PICK pc \in {"finish_ok", "finish_failed"} :
        sync' = [sync EXCEPT ![t] = Return(@, pc, Thread("over"))]
  BY DEF FinishSync, FinishCallFails
<1>3. sync[t].pc \in {"finish", "orphan", "finish_ok"}
  BY DEF FinishSync, FinishCallFails
<1> QED
  BY <1>1, <1>2, <1>3 DEF Return, Thread, Finishing, SyncRecord

LEMMA FinishFailsHandover ==
  ASSUME HInv, NEW t \in Attempt, FinishCallFails(t), IInv'
  PROVE  HInv'
<1>1. /\ TypeOK /\ Lost(requester[t], sync[t].to)
      /\ UNCHANGED <<procs, recovers, attempt, requester, iter, hb, wr, events>>
  BY DEF HInv, IInv, FinishCallFails
<1>2. LockHeld'
  BY <1>1, FinishReturns DEF HInv, Threads, LockHeld, Finishing, Host, procs
<1>3. CallersInService'
  BY <1>1 DEF HInv, Threads, CallersInService, HbRunning, Writes, InService, procs
<1>4. \A u \in Attempt : /\ Past(u)' => Past(u)
                         /\ sync'[u].pc = "orphan" => sync[u].pc = "orphan"
  BY <1>1, FinishReturns DEF Past
<1>5. Threads'
  BY <1>1, <1>2, <1>3, <1>4, ThreadsFrame DEF HInv, Up, InService, recovers, procs
<1>6. (Misjudged \/ Alone)'
  <2>1. \A s \in Server, u \in Attempt : HandsBack(s, u) => sync'[u] = sync[u]
    BY <1>1, FinishReturns DEF HandsBack
  <2> QED
    BY <1>1, <2>1, AloneFrame DEF HInv, procs
<1> QED
  BY <1>5, <1>6 DEF HInv

\* The recovering server goes into Normal: its helper has its lock and follows.
LEMMA FinishHandover ==
  ASSUME HInv, NEW t \in Attempt, FinishSync(t), IInv'
  PROVE  HInv'
<1> DEFINE h == Host(t)  s == requester[t]
<1>1. /\ TypeOK /\ h \in Server /\ s \in Server /\ h # s /\ h = Other(s) /\ s = Other(h)
      /\ repl_state \in [Server -> {"Down", "Recovering", "Normal", "Standalone"}]
      /\ recovery \in [Server -> [sync_id : 0..MaxAttempts, done : BOOLEAN]]
      /\ sync \in [Attempt -> SyncRecord] /\ hb \in [Attempt -> HbRecord]
  BY Types, Hosting DEF HInv, IInv
<1>2. /\ sync[t].pc \in {"finish", "orphan"} /\ ~ Lost(s, sync[t].to)
      /\ UNCHANGED <<stateMutex, deaths, r_pc, attempt, requester, iter, wr, events>>
  BY DEF FinishSync
<1>3. \/ ~ CurrentSync(t) /\ UNCHANGED <<repl_state, recovery, hb>>
      \/ /\ CurrentSync(t) /\ repl_state' = [repl_state EXCEPT ![s] = "Normal"]
         /\ recovery' = [recovery EXCEPT ![s].done = TRUE]
         /\ hb' = IF s = "backup" THEN [hb EXCEPT ![t] = Loop("spawned")] ELSE hb
         /\ sync' = [sync EXCEPT ![t] = Return(@, "finish_ok", Thread("over"))]
  BY DEF FinishSync
<1>4. /\ \A u \in Attempt : /\ Past(u)' => Past(u)
                            /\ sync'[u].pc = "orphan" => sync[u].pc = "orphan"
      /\ \A u \in Attempt : u # t => sync'[u] = sync[u]
  BY <1>1, FinishReturns DEF Past
<1>5. \A r \in Server : /\ recovery'[r].sync_id = recovery[r].sync_id
                        /\ repl_state'[r] = "Recovering" => repl_state[r] = "Recovering"
                        /\ Up(r) => Up(r)'
                        /\ InService(r) => InService(r)'
                        /\ r # s => repl_state'[r] = repl_state[r]
  BY <1>1, <1>3 DEF Up, InService
<1>6. \A r \in Server : InService(r)' =>
        \/ InService(r)
        \/ \A u \in Attempt : ~ (sync[u].pc = "orphan" /\ Host(u) = r /\ CurrentSync(u))
  <2> SUFFICES ASSUME InService(s)', ~ InService(s), NEW u \in Attempt,
                      sync[u].pc = "orphan", Host(u) = s, CurrentSync(u)
               PROVE  FALSE
    BY <1>2, <1>5 DEF InService
  <2>1. CurrentSync(t) /\ requester[u] = h
    BY <1>1, <1>2, <1>3, Hosting DEF InService
  <2> QED
    BY <1>1, <1>2, <2>1 DEF HInv, Threads, Exclusive, Past
<1>7. LockHeld'
  BY <1>1, <1>2, FinishReturns DEF HInv, Threads, LockHeld, Host, Finishing
<1>8. CallersInService'
  <2>1. \A u \in Attempt : HbRunning(u)' => HbRunning(u) \/ InService("backup")'
    <3>1. CASE hb' = hb
      BY <3>1 DEF HbRunning
    <3>2. CASE s = "backup" /\ repl_state' = [repl_state EXCEPT ![s] = "Normal"]
      BY <1>1, <3>2 DEF InService
    <3> QED
      BY <1>3, <3>1, <3>2
  <2>2. \A r \in Server : InService(r) => InService(r)'
    BY <1>5
  <2>3. "primary" \in Server /\ "backup" \in Server
    BY DEF Server
  <2>4. \A w \in Writer : Writes(w)' <=> Writes(w)
    BY <1>2 DEF Writes
  <2> QED
    BY <2>1, <2>2, <2>3, <2>4 DEF HInv, Threads, CallersInService
<1>9. Threads'
  BY <1>1, <1>2, <1>4, <1>5, <1>6, <1>7, <1>8, ThreadsFrame DEF HInv
<1>10. (Misjudged \/ Alone)'
  <2>1. \A r \in Server, u \in Attempt : HandsBack(r, u) => HandsBack(r, u)'
    <3> SUFFICES ASSUME NEW r \in Server, NEW u \in Attempt, HandsBack(r, u)
                 PROVE  HandsBack(r, u)'
      OBVIOUS
    <3>1. u # t /\ sync'[u] = sync[u]
      BY <1>2, <1>4 DEF HandsBack
    <3> QED
      BY <1>2, <1>5, <3>1 DEF HandsBack, Lost
  <2>2. CASE UNCHANGED repl_state
    BY <1>2, <2>1, <2>2, Others DEF HInv, Misjudged, Alone, InService
  <2>3. CASE CurrentSync(t) /\ repl_state' = [repl_state EXCEPT ![s] = "Normal"]
             /\ sync' = [sync EXCEPT ![t] = Return(@, "finish_ok", Thread("over"))]
    <3>1. repl_state'[s] = "Normal" /\ repl_state[s] = "Recovering"
      BY <1>1, <2>3 DEF CurrentSync
    <3>2. CASE Misjudged
      BY <1>2, <3>2 DEF Misjudged
    <3>3. CASE sync[t].pc = "orphan"
      <4>1. ~ InService(h)'
        BY <1>1, <1>2, <1>5, <2>3, <3>3 DEF HInv, Threads, OrphanStale, InService, Host
      <4>2. Alone'
        BY <1>1, <1>2, <3>1, <4>1, Others DEF Alone, InService, Host
      <4> QED
        BY <4>2
    <3>4. CASE sync[t].pc = "finish"
      <4>1. sync'[t].pc = "finish_ok" /\ sync'[t].to = sync[t].to
        <5>1. sync[t] \in SyncRecord /\ sync'[t] = [sync[t] EXCEPT !.pc = "finish_ok"]
          BY <1>1, <2>3, <3>4 DEF Return
        <5> QED
          BY <5>1 DEF SyncRecord
      <4> SUFFICES ASSUME NEW r \in Server, repl_state'[r] = "Standalone"
                   PROVE  /\ repl_state'[Other(r)] = "Normal"
                          /\ \E u \in Attempt : HandsBack(Other(r), u)'
        BY DEF Alone
      <4>2. Other(r) = s
        BY <1>1, <3>1, Others
      <4>3. HandsBack(Other(r), t)'
        BY <1>1, <1>2, <1>5, <4>1, <4>2 DEF HandsBack, Lost
      <4> QED
        BY <3>1, <4>2, <4>3
    <3> QED
      BY <1>2, <3>3, <3>4
  <2> QED
    BY <1>3, <2>2, <2>3
<1> QED
  BY <1>9, <1>10 DEF HInv

\* The helper follows, and releases its lock.
LEMMA AnsweredHandover ==
  ASSUME HInv, NEW t \in Attempt, FinishAnswered(t), IInv'
  PROVE  HInv'
<1> DEFINE h == Host(t)  s == requester[t]
<1>1. /\ TypeOK /\ h \in Server /\ s \in Server /\ h # s /\ h = Other(s) /\ s = Other(h)
      /\ repl_state \in [Server -> {"Down", "Recovering", "Normal", "Standalone"}]
      /\ stateMutex \in [Server -> 0..MaxAttempts]
      /\ sync \in [Attempt -> SyncRecord] /\ hb \in [Attempt -> HbRecord]
  BY Types, Hosting DEF HInv, IInv
<1>2. /\ Finishing(t) /\ SyncRunning(t)
      /\ stateMutex' = [stateMutex EXCEPT ![h] = 0]
      /\ UNCHANGED <<deaths, recovers, attempt, requester, iter, wr, events>>
  BY DEF FinishAnswered, ReleaseLock, Finishing, SyncRunning
<1>3. InService(h)
  BY <1>2 DEF HInv, IInv, HelperInService
<1>4. \/ sync[t].pc = "finish_failed" /\ UNCHANGED <<repl_state, hb>>
      \/ /\ sync[t].pc = "finish_ok" /\ repl_state' = [repl_state EXCEPT ![h] = "Normal"]
         /\ hb' = IF h = "backup" THEN [hb EXCEPT ![t] = Loop("spawned")] ELSE hb
  BY DEF FinishAnswered, HandlePartnerRecovered
<1>5. sync'[t].pc = "over" /\ \A u \in Attempt : u # t => sync'[u] = sync[u]
  BY <1>1 DEF FinishAnswered, Thread
<1>6. \A r \in Server : /\ InService(r)' <=> InService(r)
                        /\ Up(r)' <=> Up(r)
                        /\ repl_state'[r] = "Recovering" => repl_state[r] = "Recovering"
                        /\ r # h => repl_state'[r] = repl_state[r]
  BY <1>1, <1>3, <1>4 DEF InService, Up
<1>7. LockHeld'
  <2> SUFFICES ASSUME NEW u \in Attempt, Finishing(u)' PROVE stateMutex'[Host(u)] = u
    BY <1>2 DEF LockHeld, Host
  <2>1. u # t /\ Finishing(u) /\ Host(u) \in Server
    BY <1>1, <1>5, Hosting DEF Finishing
  <2>2. stateMutex[Host(u)] = u /\ stateMutex[h] = t
    BY <1>2, <2>1 DEF HInv, Threads, LockHeld
  <2> QED
    BY <1>1, <1>2, <2>1, <2>2
<1>8. CallersInService'
  <2>1. \A u \in Attempt : HbRunning(u)' => HbRunning(u) \/ InService("backup")'
    <3>1. CASE hb' = hb
      BY <3>1 DEF HbRunning
    <3>2. CASE h = "backup"
      BY <1>1, <1>3, <1>6, <3>2 DEF InService
    <3> QED
      BY <1>4, <3>1, <3>2
  <2> QED
    BY <1>2, <1>6, <2>1 DEF HInv, Threads, CallersInService, Writes, Server
<1>9. Threads'
  BY <1>1, <1>2, <1>5, <1>6, <1>7, <1>8, ThreadsFrame
     DEF HInv, Past, recovers, Finishing
<1>10. (Misjudged \/ Alone)'
  <2>1. CASE Misjudged
    BY <1>2, <2>1 DEF Misjudged
  <2>2. CASE Alone
    <3> SUFFICES ASSUME NEW r \in Server, repl_state'[r] = "Standalone", InService(Other(r))'
                 PROVE  /\ repl_state'[Other(r)] = "Normal"
                        /\ \E u \in Attempt : HandsBack(Other(r), u)'
      BY DEF Alone
    <3>1. repl_state[r] = "Standalone" /\ InService(Other(r)) /\ Other(r) \in Server
      BY <1>1, <1>4, <1>6, Others
    <3>2. PICK u \in Attempt : HandsBack(Other(r), u) /\ repl_state[Other(r)] = "Normal"
      BY <2>2, <3>1 DEF Alone
    <3>3. u # t
      <4>1. CASE sync[t].pc = "finish_failed"
        BY <3>2, <4>1 DEF HandsBack
      <4>2. CASE sync[t].pc = "finish_ok"
        <5>1. r # h
          BY <1>1, <1>4, <4>2
        <5> QED
          BY <1>1, <3>2, <5>1, Others DEF HandsBack
      <4> QED
        BY <1>4, <4>1, <4>2
    <3>4. HandsBack(Other(r), u)'
      BY <1>2, <1>5, <1>6, <3>1, <3>2, <3>3 DEF HandsBack, Lost
    <3>5. repl_state'[Other(r)] = "Normal"
      BY <1>1, <1>4, <3>1, <3>2
    <3> QED
      BY <3>4, <3>5
  <2> QED
    BY <2>1, <2>2 DEF HInv
<1> QED
  BY <1>9, <1>10 DEF HInv

LEMMA HandoverInit == Init => HInv
<1> SUFFICES ASSUME Init PROVE HInv
  OBVIOUS
<1>1. IInv
  BY InitInv
<1>2. Threads
  BY DEF Init, Threads, FreshWhenDown, LockHeld, CallersInService, Exclusive, OrphanStale,
         Finishing, HbRunning, Writes, Past, Thread, Loop, FreshRecovery
<1>3. Alone
  BY DEF Init, Alone, InService, Other, Server
<1> QED
  BY <1>1, <1>2, <1>3 DEF HInv

LEMMA HandoverNext == HInv /\ [Next]_vars => HInv'
<1> SUFFICES ASSUME HInv, [Next]_vars PROVE HInv'
  OBVIOUS
<1>1. IInv'
  BY NextInv DEF HInv
<1>2. StepKinds
  BY Kinds DEF HInv, Threads
<1> QED
  BY <1>1, <1>2, CallsHandover, GivesUpHandover, StartHandover, BeginHandover, TimerHandover,
     EndHandover, TriggerHandover, SendFinishHandover, RejectedHandover, FinishHandover,
     FinishFailsHandover, AnsweredHandover
     DEF StepKinds

\* The invariant that the theorems rest on.
THEOREM HandoverInvariance == Spec => []HInv
BY HandoverInit, HandoverNext, PTL DEF Spec

\* Whatever the delays and the crashes, both servers answer clients at the same
\* time only after one of them has given the other up while it was in service:
\* the recovery, which hands the service from one to the other, does not split
\* it (ReplicationModule.cc lines 147-164, PairedServer.cc lines 81-99).
THEOREM OneServer == Spec => []SplitOnlyByMisjudgment
<1>1. HInv => SplitOnlyByMisjudgment
  <2> SUFFICES ASSUME HInv, Serves("primary"), Serves("backup"), ~ Misjudged PROVE FALSE
    BY DEF SplitOnlyByMisjudgment, SplitBrain
  <2>1. /\ repl_state["backup"] = "Standalone" /\ stateMutex["backup"] = 0
        /\ InService("primary") /\ "backup" \in Server /\ Other("backup") = "primary"
    BY DEF Serves, CanLock, InService, Server, Other
  <2>2. PICK t \in Attempt : requester[t] = "primary" /\ sync[t].pc = "finish_ok"
    BY <2>1 DEF HInv, Alone, HandsBack
  <2>3. Host(t) = "backup" /\ Finishing(t)
    BY <2>2 DEF Host, Other, Finishing
  <2> QED
    BY <2>1, <2>3, Bounds DEF HInv, Threads, LockHeld
<1> QED
  BY <1>1, HandoverInvariance, PTL

----------------------------------------------------------------------------
(***************************************************************************)
(* Prompt: PInv.                                                           *)
(***************************************************************************)

InStep == RecoverInStep /\ TriggerInStep /\ RunOneWay

\* The attempt of a server whose Recover is before it or in TriggerSync.
LEMMA OwnAttempt ==
  ASSUME TypeOK, RecoverInStep, NEW s \in Server, r_pc[s] = "trigger"
  PROVE  /\ recovery[s].sync_id \in Attempt /\ repl_state[s] = "Recovering"
         /\ requester[recovery[s].sync_id] = s /\ sync[recovery[s].sync_id].pc = "trigger"
<1>1. recovery[s].sync_id \in 0..MaxAttempts /\ recovery[s].sync_id # 0
  BY Types DEF RecoverInStep
<1>2. recovery[s].sync_id \in Attempt
  BY <1>1, Bounds DEF Attempt
<1> QED
  BY <1>2 DEF RecoverInStep

LEMMA InStepFrame ==
  ASSUME TypeOK, InStep, UNCHANGED <<r_pc, recovery, requester>>,
         \A s \in Server : repl_state[s] = "Recovering" => repl_state'[s] = "Recovering",
         \A t \in Attempt : /\ sync[t].pc \in {"over", "trigger"} => sync'[t] = sync[t]
                            /\ sync'[t].pc = "trigger" => sync[t].pc = "trigger"
                            /\ SyncRunning(t)' => SyncRunning(t)
  PROVE  InStep'
<1>1. \A s \in Server : recovery[s].sync_id # 0 => recovery[s].sync_id \in Attempt
  <2>1. \A s \in Server : recovery[s].sync_id \in 0..MaxAttempts
    BY Types
  <2> QED
    BY <2>1, Bounds DEF Attempt
<1>2. RecoverInStep'
  BY <1>1 DEF InStep, RecoverInStep
<1>3. TriggerInStep' /\ RunOneWay'
  BY DEF InStep, TriggerInStep, RunOneWay
<1> QED
  BY <1>2, <1>3 DEF InStep

LEMMA StartInStep ==
  ASSUME HInv, InStep, NEW s \in Server, Start(s)
  PROVE  InStep'
<1>1. /\ TypeOK /\ repl_state \in [Server -> {"Down", "Recovering", "Normal", "Standalone"}]
      /\ r_pc \in [Server -> {"off", "begin", "trigger", "wait", "done"}]
      /\ ~ Up(s) /\ repl_state' = [repl_state EXCEPT ![s] = "Recovering"]
      /\ r_pc' = [r_pc EXCEPT ![s] = "begin"]
      /\ UNCHANGED <<recovery, requester, sync>>
      /\ r_pc[s] = "off" /\ recovery[s].sync_id = 0
  BY Types, Processes DEF HInv, IInv, Start, syncers, Threads, FreshWhenDown
<1>2. RecoverInStep'
  BY <1>1 DEF InStep, RecoverInStep
<1>3. TriggerInStep' /\ RunOneWay'
  BY <1>1, Types DEF InStep, TriggerInStep, RunOneWay, SyncRunning
<1> QED
  BY <1>2, <1>3 DEF InStep

LEMMA BeginInStep ==
  ASSUME HInv, InStep, NEW s \in Server, BeginAttempt(s)
  PROVE  InStep'
<1> DEFINE n == attempt + 1
<1>1. /\ TypeOK /\ attempt \in 0..MaxAttempts /\ attempt < MaxAttempts
      /\ recovery \in [Server -> [sync_id : 0..MaxAttempts, done : BOOLEAN]]
      /\ r_pc \in [Server -> {"off", "begin", "trigger", "wait", "done"}]
      /\ sync \in [Attempt -> SyncRecord] /\ requester \in [Attempt -> Server]
      /\ UNCHANGED repl_state
  BY Types DEF HInv, IInv, BeginAttempt, procs
<1>2. n \in Attempt /\ sync[n].pc = "none"
  <2>1. n \in Attempt /\ n > attempt
    BY <1>1, Bounds DEF Attempt
  <2> QED
    BY <2>1 DEF HInv, IInv, IdsInOrder
<1>3. /\ r_pc[s] = "begin" /\ r_pc'[s] = "trigger"
      /\ recovery'[s].sync_id = n /\ requester'[n] = s /\ sync'[n].pc = "trigger"
      /\ \A t \in Attempt : t # n => sync'[t] = sync[t] /\ requester'[t] = requester[t]
      /\ \A r \in Server : r # s => recovery'[r] = recovery[r] /\ r_pc'[r] = r_pc[r]
  BY <1>1, <1>2 DEF BeginAttempt, FreshRecovery, CallTo
<1>4. \A r \in Server : recovery[r].sync_id # 0 => recovery[r].sync_id \in Attempt
  <2>1. \A r \in Server : recovery[r].sync_id \in 0..MaxAttempts
    BY <1>1
  <2> QED
    BY <2>1, Bounds DEF Attempt
<1>5. RecoverInStep'
  <2> SUFFICES ASSUME NEW r \in Server
               PROVE  /\ r_pc'[r] \in {"begin", "trigger"} \/ (r_pc'[r] = "wait" /\ ~ recovery'[r].done)
                           => repl_state'[r] = "Recovering"
                      /\ r_pc'[r] = "begin" =>
                           recovery'[r].sync_id = 0 \/ sync'[recovery'[r].sync_id].pc = "over"
                      /\ r_pc'[r] = "trigger" =>
                           /\ recovery'[r].sync_id # 0 /\ sync'[recovery'[r].sync_id].pc = "trigger"
                           /\ requester'[recovery'[r].sync_id] = r
    BY DEF RecoverInStep
  <2>1. CASE r = s
    BY <1>1, <1>2, <1>3, <2>1, Bounds DEF InStep, RecoverInStep
  <2>2. CASE r # s
    BY <1>1, <1>2, <1>3, <1>4, <2>2 DEF InStep, RecoverInStep
  <2> QED
    BY <2>1, <2>2
<1>6. TriggerInStep'
  BY <1>1, <1>2, <1>3 DEF InStep, TriggerInStep
<1>7. RunOneWay'
  BY <1>1, <1>2, <1>3 DEF InStep, RunOneWay, SyncRunning
<1> QED
  BY <1>5, <1>6, <1>7 DEF InStep

LEMMA TimerInStep ==
  ASSUME Prompt, HInv, InStep, NEW s \in Server, Timeout(s) \/ ConfirmRecovery(s)
  PROVE  InStep'
<1>1. /\ TypeOK /\ r_pc \in [Server -> {"off", "begin", "trigger", "wait", "done"}]
      /\ r_pc[s] = "wait" /\ UNCHANGED <<repl_state, recovery, requester, sync>>
      /\ \/ /\ r_pc' = [r_pc EXCEPT ![s] = "begin"]
            /\ sync[recovery[s].sync_id].pc = "over" /\ ~ recovery[s].done
         \/ r_pc' = [r_pc EXCEPT ![s] = "done"]
  BY Types DEF HInv, IInv, Timeout, ConfirmRecovery, TimerFires, procs, syncers
<1>2. RecoverInStep'
  BY <1>1 DEF InStep, RecoverInStep
<1>3. TriggerInStep' /\ RunOneWay'
  BY <1>1, Types DEF InStep, TriggerInStep, RunOneWay, SyncRunning
<1> QED
  BY <1>2, <1>3 DEF InStep

LEMMA EndInStep ==
  ASSUME Prompt, HInv, InStep, NEW s \in Server, Ends(s)
  PROVE  InStep'
<1>1. /\ TypeOK /\ Die(s) /\ UNCHANGED requester
      /\ repl_state \in [Server -> {"Down", "Recovering", "Normal", "Standalone"}]
      /\ r_pc \in [Server -> {"off", "begin", "trigger", "wait", "done"}]
      /\ recovery \in [Server -> [sync_id : 0..MaxAttempts, done : BOOLEAN]]
  BY Types DEF HInv, IInv, Ends, Die
<1>2. /\ r_pc'[s] = "off"
      /\ \A r \in Server : r # s => /\ repl_state'[r] = repl_state[r] /\ r_pc'[r] = r_pc[r]
                                    /\ recovery'[r] = recovery[r]
  BY <1>1 DEF Die
<1>3. \A t \in Attempt :
        /\ sync[t].pc = "over" => sync'[t].pc = "over"
        /\ sync[t].pc = "trigger" /\ requester[t] # s => sync'[t] = sync[t]
        /\ sync'[t].pc = "trigger" => sync[t].pc = "trigger" /\ requester[t] # s
  <2> SUFFICES ASSUME NEW t \in Attempt
               PROVE  /\ sync[t].pc = "over" => sync'[t].pc = "over"
                      /\ sync[t].pc = "trigger" /\ requester[t] # s => sync'[t] = sync[t]
                      /\ sync'[t].pc = "trigger" => sync[t].pc = "trigger" /\ requester[t] # s
    OBVIOUS
  <2>1. CASE SyncRunning(t)
    BY <1>1, <2>1, DieKills DEF SyncRunning
  <2>2. CASE ~ SyncRunning(t)
    <3>1. sync'[t] = IF sync[t].pc = "trigger" /\ requester[t] = s THEN Thread("over") ELSE sync[t]
      BY <1>1, <2>2 DEF Die
    <3> QED
      BY <3>1 DEF Thread
  <2> QED
    BY <2>1, <2>2
<1>4. \A r \in Server : recovery[r].sync_id # 0 => recovery[r].sync_id \in Attempt
  <2>1. \A r \in Server : recovery[r].sync_id \in 0..MaxAttempts
    BY <1>1
  <2> QED
    BY <2>1, Bounds DEF Attempt
<1>5. RecoverInStep'
  BY <1>1, <1>2, <1>3, <1>4 DEF InStep, RecoverInStep
<1>6. TriggerInStep'
  BY <1>1, <1>2, <1>3, Types DEF InStep, TriggerInStep
<1>7. RunOneWay'
  BY <1>1, DieKills DEF InStep, RunOneWay
<1> QED
  BY <1>5, <1>6, <1>7 DEF InStep

\* The sync begins: its requester still recovers, and so runs no sync itself.
LEMMA TriggerStepIn ==
  ASSUME HInv, InStep, NEW t \in Attempt, TriggerSync(t), UNCHANGED deaths
  PROVE  InStep'
<1> DEFINE h == Host(t)  s == requester[t]
<1>1. /\ TypeOK /\ h \in Server /\ s \in Server /\ h # s /\ h = Other(s) /\ s = Other(h)
      /\ repl_state \in [Server -> {"Down", "Recovering", "Normal", "Standalone"}]
      /\ r_pc \in [Server -> {"off", "begin", "trigger", "wait", "done"}]
      /\ recovery \in [Server -> [sync_id : 0..MaxAttempts, done : BOOLEAN]]
      /\ sync \in [Attempt -> SyncRecord]
  BY Types, Hosting DEF HInv, IInv
<1>2. ~ Exit(h, "both recovering")
  BY <1>1, DieCounts DEF Exit
<1>3. sync[t].pc = "trigger" /\ r_pc[s] = "trigger" /\ recovery[s].sync_id = t
      /\ repl_state[s] = "Recovering"
  BY <1>1 DEF TriggerSync, InStep, TriggerInStep, RecoverInStep
<1>4. /\ InService(h)
      /\ repl_state' = [repl_state EXCEPT ![h] = "Standalone"]
      /\ sync' = [sync EXCEPT ![t] = Thread("deliver")]
      /\ r_pc' = [r_pc EXCEPT ![s] = "wait"]
      /\ UNCHANGED <<recovery, requester>>
  BY <1>2, <1>3 DEF TriggerSync, InService
<1>5. sync'[t].pc = "deliver" /\ \A u \in Attempt : u # t => sync'[u] = sync[u]
  BY <1>1, <1>4 DEF Thread
<1>6. \A r \in Server : recovery[r].sync_id # 0 => recovery[r].sync_id \in Attempt
  <2>1. \A r \in Server : recovery[r].sync_id \in 0..MaxAttempts
    BY <1>1
  <2> QED
    BY <2>1, Bounds DEF Attempt
<1>7. RecoverInStep'
  <2> SUFFICES ASSUME NEW r \in Server
               PROVE  /\ r_pc'[r] \in {"begin", "trigger"} \/ (r_pc'[r] = "wait" /\ ~ recovery[r].done)
                           => repl_state'[r] = "Recovering"
                      /\ r_pc'[r] = "begin" =>
                           recovery[r].sync_id = 0 \/ sync'[recovery[r].sync_id].pc = "over"
                      /\ r_pc'[r] = "trigger" =>
                           /\ recovery[r].sync_id # 0 /\ sync'[recovery[r].sync_id].pc = "trigger"
                           /\ requester[recovery[r].sync_id] = r
    BY <1>4 DEF RecoverInStep
  <2>1. CASE r = s
    BY <1>1, <1>3, <1>4, <2>1
  <2>2. CASE r # s
    <3>1. r = h /\ r_pc'[r] = r_pc[r] /\ repl_state[r] # "Recovering"
      BY <1>1, <1>4, <2>2, Others DEF InService
    <3> QED
      BY <3>1 DEF InStep, RecoverInStep
  <2> QED
    BY <2>1, <2>2
<1>8. TriggerInStep'
  BY <1>1, <1>3, <1>4, <1>5, Types DEF InStep, TriggerInStep
<1>9. RunOneWay'
  <2>1. \A u \in Attempt : SyncRunning(u) => requester[u] = s
    BY <1>1, <1>3, Hosting, Others DEF HInv, IInv, HelperInService, InService
  <2>2. \A u \in Attempt : SyncRunning(u)' => requester'[u] = s
    BY <1>4, <1>5, <2>1 DEF SyncRunning
  <2> QED
    BY <2>2 DEF RunOneWay
<1> QED
  BY <1>7, <1>8, <1>9 DEF InStep

LEMMA FinishInStep ==
  ASSUME HInv, InStep, NoOrphans, NEW t \in Attempt, FinishSync(t)
  PROVE  InStep'
<1> DEFINE s == requester[t]
<1>1. /\ TypeOK /\ s \in Server
      /\ repl_state \in [Server -> {"Down", "Recovering", "Normal", "Standalone"}]
      /\ recovery \in [Server -> [sync_id : 0..MaxAttempts, done : BOOLEAN]]
      /\ UNCHANGED <<r_pc, requester>> /\ sync[t].pc = "finish"
  BY Types DEF HInv, IInv, FinishSync, NoOrphans
<1>2. \A u \in Attempt : /\ sync[u].pc \in {"over", "trigger"} => sync'[u] = sync[u]
                         /\ sync'[u].pc = "trigger" => sync[u].pc = "trigger"
                         /\ SyncRunning(u)' => SyncRunning(u)
  BY <1>1, FinishReturns DEF SyncRunning
<1>3. CASE UNCHANGED <<repl_state, recovery>>
  BY <1>1, <1>2, <1>3, InStepFrame
<1>4. CASE ~ UNCHANGED <<repl_state, recovery>>
  <2>1. /\ recovery[s].sync_id = t /\ repl_state[s] = "Recovering"
        /\ repl_state' = [repl_state EXCEPT ![s] = "Normal"]
        /\ recovery' = [recovery EXCEPT ![s].done = TRUE]
    BY <1>4 DEF FinishSync, CurrentSync
  <2>2. t # 0 /\ r_pc[s] \notin {"begin", "trigger"}
    BY <1>1, <2>1, Bounds DEF InStep, RecoverInStep
  <2>3. recovery'[s].done /\ \A r \in Server : /\ recovery'[r].sync_id = recovery[r].sync_id
                                               /\ r # s => recovery'[r] = recovery[r]
                                               /\ r # s => repl_state'[r] = repl_state[r]
    BY <1>1, <2>1
  <2>4. \A r \in Server : recovery[r].sync_id # 0 => recovery[r].sync_id \in Attempt
    <3>1. \A r \in Server : recovery[r].sync_id \in 0..MaxAttempts
      BY <1>1
    <3> QED
      BY <3>1, Bounds DEF Attempt
  <2>5. RecoverInStep'
    BY <1>1, <1>2, <2>2, <2>3, <2>4 DEF InStep, RecoverInStep
  <2>6. TriggerInStep' /\ RunOneWay'
    BY <1>1, <1>2, <2>3, Types DEF InStep, TriggerInStep, RunOneWay
  <2> QED
    BY <2>5, <2>6 DEF InStep
<1> QED
  BY <1>3, <1>4

LEMMA OtherSyncsInStep ==
  ASSUME HInv, InStep, NoOrphans, NEW t \in Attempt,
         SendFinish(t) \/ SyncRejected(t) \/ FinishCallFails(t) \/ FinishAnswered(t)
  PROVE  InStep'
<1>1. /\ TypeOK /\ sync \in [Attempt -> SyncRecord] /\ Host(t) \in Server
      /\ repl_state \in [Server -> {"Down", "Recovering", "Normal", "Standalone"}]
      /\ UNCHANGED <<r_pc, recovery, requester>>
  BY Types, Hosting
     DEF HInv, IInv, SendFinish, SyncRejected, FinishCallFails, FinishAnswered, recovers
<1>2. /\ \A u \in Attempt : u # t => sync'[u] = sync[u]
      /\ SyncRunning(t) /\ sync'[t].pc \in {"finish", "over", "finish_ok", "finish_failed"}
  <2>1. CASE SendFinish(t)
    BY <1>1, <2>1 DEF SendFinish, CallTo, SyncRunning
  <2>2. CASE SyncRejected(t)
    BY <1>1, <2>2 DEF SyncRejected, Thread, SyncRunning
  <2>3. CASE FinishCallFails(t)
    BY <1>1, <2>3, FinishReturns DEF SyncRunning, NoOrphans
  <2>4. CASE FinishAnswered(t)
    BY <1>1, <2>4 DEF FinishAnswered, Thread, SyncRunning
  <2> QED
    BY <2>1, <2>2, <2>3, <2>4
<1>3. \A u \in Attempt : /\ sync[u].pc \in {"over", "trigger"} => sync'[u] = sync[u]
                         /\ sync'[u].pc = "trigger" => sync[u].pc = "trigger"
                         /\ SyncRunning(u)' => SyncRunning(u)
  BY <1>2 DEF SyncRunning
<1>4. \A s \in Server : repl_state[s] = "Recovering" => repl_state'[s] = "Recovering"
  <2>1. CASE FinishAnswered(t)
    <3>1. InService(Host(t))
      BY <1>2 DEF HInv, IInv, HelperInService
    <3> QED
      BY <1>1, <2>1, <3>1 DEF FinishAnswered, InService
  <2>2. CASE ~ FinishAnswered(t)
    BY <2>2 DEF SendFinish, SyncRejected, FinishCallFails, procs
  <2> QED
    BY <2>1, <2>2
<1> QED
  BY <1>1, <1>3, <1>4, InStepFrame

LEMMA StepsInStep ==
  ASSUME Prompt, HInv, InStep, NoOrphans, StepKinds
  PROVE  InStep'
<1>1. CASE CallsOnly
  BY <1>1, InStepFrame DEF CallsOnly, HInv, IInv, procs, recovers, syncers, SyncRunning
<1>2. ASSUME NEW s \in Server, GivesUp(s) PROVE InStep'
  <2>1. repl_state \in [Server -> {"Down", "Recovering", "Normal", "Standalone"}]
    BY Types DEF HInv, IInv
  <2> QED
    BY <1>2, <2>1, InStepFrame
       DEF GivesUp, HInv, IInv, procs, recovers, syncers, SyncRunning, InService
<1> QED
  BY <1>1, <1>2, StartInStep, BeginInStep, TimerInStep, EndInStep, TriggerStepIn, FinishInStep,
     OtherSyncsInStep DEF StepKinds

LEMMA OrphansNever ==
  ASSUME Prompt, HInv, NoOrphans, StepKinds
  PROVE  NoOrphans'
<1>1. /\ TypeOK /\ sync \in [Attempt -> SyncRecord] /\ hb \in [Attempt -> HbRecord]
      /\ wr \in [Writer -> WrRecord]
  BY Types DEF HInv, IInv
<1>2. CASE CallsOnly
  BY <1>2 DEF CallsOnly, NoOrphans, syncers
<1>3. ASSUME NEW s \in Server,
             GivesUp(s) \/ Start(s) \/ BeginAttempt(s) \/ Timeout(s) \/ ConfirmRecovery(s)
      PROVE  NoOrphans'
  <2>1. CASE GivesUp(s)
    BY <2>1 DEF GivesUp, NoOrphans, syncers
  <2>2. CASE BeginAttempt(s)
    BY <1>1, <2>2 DEF BeginAttempt, NoOrphans, CallTo
  <2> QED
    BY <1>3, <2>1, <2>2 DEF Start, Timeout, ConfirmRecovery, NoOrphans, syncers
<1>4. ASSUME NEW s \in Server, Ends(s) PROVE NoOrphans'
  <2>1. \A t \in Attempt : sync'[t] = sync[t] \/ sync'[t] = Thread("over")
    BY <1>4 DEF Ends, Die, Killed
  <2>2. \A t \in Attempt : hb'[t] = hb[t] \/ hb'[t] = Loop("over")
    BY <1>4 DEF Ends, Die, Killed
  <2>3. \A w \in Writer : wr'[w] = wr[w] \/ wr'[w] = Thread("idle")
    BY <1>4 DEF Ends, Die, Killed
  <2> QED
    BY <2>1, <2>2, <2>3 DEF NoOrphans, Thread, Loop
<1>5. ASSUME NEW t \in Attempt, TriggerSync(t), UNCHANGED deaths PROVE NoOrphans'
  <2>1. ~ Exit(Host(t), "both recovering")
    BY <1>1, <1>5, Hosting, DieCounts DEF Exit
  <2>2. sync' = [sync EXCEPT ![t] = Thread("deliver")] /\ UNCHANGED <<hb, wr>>
    BY <1>5, <2>1 DEF TriggerSync
  <2> QED
    BY <1>1, <2>2 DEF NoOrphans, Thread
<1>6. ASSUME NEW t \in Attempt,
             \/ SendFinish(t) \/ SyncRejected(t)
             \/ FinishSync(t) \/ FinishCallFails(t) \/ FinishAnswered(t)
      PROVE  NoOrphans'
  <2>1. \A u \in Attempt : sync'[u].pc # "orphan"
    <3>1. CASE FinishSync(t) \/ FinishCallFails(t)
      BY <1>1, <3>1, FinishReturns DEF NoOrphans
    <3>2. CASE SendFinish(t) \/ SyncRejected(t) \/ FinishAnswered(t)
      BY <1>1, <3>2 DEF SendFinish, SyncRejected, FinishAnswered, NoOrphans, Thread, CallTo
    <3> QED
      BY <1>6, <3>1, <3>2
  <2>2. hb' = hb \/ hb' = [hb EXCEPT ![t] = Loop("spawned")]
    BY <1>6 DEF SendFinish, SyncRejected, FinishSync, FinishCallFails, FinishAnswered,
                HandlePartnerRecovered
  <2>3. UNCHANGED wr
    BY <1>6 DEF SendFinish, SyncRejected, FinishSync, FinishCallFails, FinishAnswered
  <2> QED
    BY <1>1, <2>1, <2>2, <2>3 DEF NoOrphans, Loop
<1> QED
  BY <1>2, <1>3, <1>4, <1>5, <1>6 DEF StepKinds

LEMMA PromptInit == Init => PInv /\ PartitionOnlyByMisjudgment
<1> SUFFICES ASSUME Init PROVE PInv /\ PartitionOnlyByMisjudgment
  OBVIOUS
<1>1. NoOrphans /\ InStep
  BY DEF Init, NoOrphans, InStep, RecoverInStep, TriggerInStep, RunOneWay, SyncRunning,
         Thread, Loop
<1>2. PartitionOnlyByMisjudgment
  BY DEF Init, PartitionOnlyByMisjudgment
<1> QED
  BY <1>1, <1>2, HandoverInit DEF PInv, InStep

\* The two exits that report a partition need a Standalone server, in whose
\* hands the lock is not, and a caller in service.
LEMMA PartitionStep ==
  ASSUME Prompt, PInv, [Next]_vars, PartitionOnlyByMisjudgment
  PROVE  PartitionOnlyByMisjudgment'
<1> DEFINE Suspected == {"heartbeat in Standalone", "BackupWrite in Standalone"}
<1>1. HInv /\ IInv /\ TypeOK /\ "primary" \in Server /\ "backup" \in Server
  BY DEF PInv, HInv, IInv, Server
<1>2. ASSUME NEW s \in Server, repl_state[s] = "Standalone", CanLock(s), InService(Other(s))
      PROVE  Misjudged
  <2>1. SUFFICES ASSUME Alone PROVE FALSE
    BY <1>1 DEF HInv
  <2>2. PICK t \in Attempt : requester[t] = Other(s) /\ sync[t].pc = "finish_ok"
    BY <1>2, <2>1 DEF Alone, HandsBack
  <2>3. Host(t) = s /\ Finishing(t) /\ t # 0
    BY <2>2, Others, Bounds DEF Host, Finishing
  <2> QED
    BY <1>1, <1>2, <2>3 DEF HInv, Threads, LockHeld, CanLock
<1>3. ASSUME NEW t \in Attempt, Heartbeat(t), Exit("primary", "heartbeat in Standalone")
      PROVE  Misjudged
  <2>1. HbRunning(t)
    BY <1>3 DEF Heartbeat, HbRunning, PInv, NoOrphans
  <2>2. InService("backup") /\ CanLock("primary") /\ Other("primary") = "backup"
    BY <1>1, <1>3, <2>1 DEF HInv, Threads, CallersInService, Heartbeat, Other
  <2>3. repl_state["primary"] = "Standalone"
    BY <1>1, <1>3, DieCounts DEF Heartbeat, Exit, procs
  <2> QED
    BY <1>1, <1>2, <2>2, <2>3
<1>4. ASSUME NEW w \in Writer, BackupWrite(w), Exit("backup", "BackupWrite in Standalone")
      PROVE  Misjudged
  <2>1. Writes(w)
    BY <1>4 DEF BackupWrite, Writes, PInv, NoOrphans
  <2>2. InService("primary") /\ CanLock("backup") /\ Other("backup") = "primary"
    BY <1>1, <1>4, <2>1 DEF HInv, Threads, CallersInService, BackupWrite, Other
  <2>3. repl_state["backup"] = "Standalone"
    BY <1>1, <1>4, DieCounts DEF BackupWrite, Exit, procs
  <2> QED
    BY <1>1, <1>2, <2>2, <2>3
<1>5. /\ events \subseteq events'
      /\ \/ events' \intersect Suspected = events \intersect Suspected
         \/ Misjudged
  <2>1. ASSUME NEW s \in Server, Crash(s) \/ Start(s) \/ RecoverStep(s)
        PROVE  events \subseteq events' /\ events' \intersect Suspected = events \intersect Suspected
    BY <2>1 DEF Crash, Start, RecoverStep, BeginAttempt, TriggerFails, Exit, Timeout, ConfirmRecovery
  <2>2. ASSUME NEW t \in Attempt, SyncStep(t)
        PROVE  events \subseteq events' /\ events' \intersect Suspected = events \intersect Suspected
    BY <2>2 DEF SyncStep, TriggerSync, Exit, GiveUp, SendFinish, SyncRejected, FinishSync,
                FinishCallFails, FinishAnswered
  <2>3. ASSUME NEW t \in Attempt, HbStep(t)
        PROVE  /\ events \subseteq events'
               /\ events' \intersect Suspected = events \intersect Suspected \/ Misjudged
    <3>1. CASE Heartbeat(t)
      BY <1>3, <3>1 DEF Heartbeat, Exit
    <3> QED
      BY <2>3, <3>1 DEF HbStep, HbStart, HbCallFails, HbNext, HbGivesUp, GiveUp
  <2>4. ASSUME NEW w \in Writer, CallBackup(w) \/ WriteStep(w)
        PROVE  /\ events \subseteq events'
               /\ events' \intersect Suspected = events \intersect Suspected \/ Misjudged
    <3>1. CASE BackupWrite(w)
      BY <1>4, <3>1 DEF BackupWrite, Exit
    <3> QED
      BY <2>4, <3>1 DEF WriteStep, CallBackup, BackupWriteReturns, WriteCallFails,
                        AssumePartnerDown, GiveUp
  <2>5. CASE UNCHANGED vars
    BY <2>5 DEF vars
  <2> QED
    BY <2>1, <2>2, <2>3, <2>4, <2>5 DEF Next
<1> QED
  BY <1>5 DEF PartitionOnlyByMisjudgment, Misjudged

LEMMA PromptKinds ==
  ASSUME Prompt, PInv, StepKinds, HInv'
  PROVE  PInv'
BY StepsInStep, OrphansNever DEF PInv, InStep

LEMMA PromptNext ==
  ASSUME Prompt
  PROVE  PInv /\ PartitionOnlyByMisjudgment /\ [Next]_vars
           => PInv' /\ PartitionOnlyByMisjudgment'
<1> SUFFICES ASSUME PInv, PartitionOnlyByMisjudgment, [Next]_vars
             PROVE  PInv' /\ PartitionOnlyByMisjudgment'
  OBVIOUS
<1>1. HInv' /\ StepKinds
  BY HandoverNext, Kinds DEF PInv, HInv, Threads
<1> QED
  BY <1>1, PromptKinds, PartitionStep

THEOREM PromptInvariance ==
  ASSUME Prompt
  PROVE  Spec => [](PInv /\ PartitionOnlyByMisjudgment)
BY PromptInit, PromptNext, PTL DEF Spec

\* When no request outlives its sender and the recovery timer waits for the
\* sync, a server exits because it suspects a network partition only after one
\* has given the other up while it was in service (PrimaryServer.cc lines 55-58,
\* BackupServer.cc lines 150-153).
THEOREM NoFalsePartition ==
  ASSUME Prompt
  PROVE  Spec => []PartitionOnlyByMisjudgment
BY PromptInvariance, PTL

\* Under the same condition the servers never hold their locks at the same time,
\* so neither waits for the other's (ReplicationModule.cc lines 147-164,
\* PairedServer.cc lines 102-105 and 129-133).
THEOREM NoCrossedLocks ==
  ASSUME Prompt
  PROVE  Spec => []LocksNeverCross
<1>1. PInv => LocksNeverCross
  <2> SUFFICES ASSUME PInv, \A s \in Server : stateMutex[s] # 0 PROVE FALSE
    BY DEF LocksNeverCross
  <2> DEFINE t == stateMutex["primary"]  u == stateMutex["backup"]
  <2>1. TypeOK /\ "primary" \in Server /\ "backup" \in Server
    BY DEF PInv, HInv, IInv, Server
  <2>2. t \in Attempt /\ Host(t) = "primary" /\ Finishing(t)
    BY <2>1, Processes
  <2>3. u \in Attempt /\ Host(u) = "backup" /\ Finishing(u)
    BY <2>1, Processes
  <2> QED
    BY <2>2, <2>3 DEF PInv, RunOneWay, SyncRunning, Finishing, Host
<1> QED
  BY <1>1, PromptInvariance, PTL

----------------------------------------------------------------------------
(***************************************************************************)
(* The fault model of report.pdf: a server crashes only while the other    *)
(* one is healthy.                                                         *)
(***************************************************************************)

Alarms == {"recovering alone", "both recovering"}

\* A step at which no process ends and no attempt begins: nobody leaves the
\* service, and a TriggerSync call under way is the same as before.
LEMMA StepsKeepService ==
  ASSUME PInv, StepKinds, UNCHANGED deaths, \A s \in Server : ~ BeginAttempt(s)
  PROVE  /\ events \subseteq events' /\ events' \intersect Alarms = events \intersect Alarms
         /\ \A s \in Server : InService(s) => InService(s)'
         /\ \A t \in Attempt : sync'[t].pc = "trigger" =>
              sync'[t] = sync[t] /\ requester'[t] = requester[t]
<1> DEFINE Kept == /\ events \subseteq events' /\ events' \intersect Alarms = events \intersect Alarms
                   /\ \A s \in Server : InService(s) => InService(s)'
                   /\ \A t \in Attempt : sync'[t].pc = "trigger" =>
                        sync'[t] = sync[t] /\ requester'[t] = requester[t]
<1>1. /\ HInv /\ IInv /\ TypeOK /\ sync \in [Attempt -> SyncRecord]
      /\ repl_state \in [Server -> {"Down", "Recovering", "Normal", "Standalone"}]
  BY Types DEF PInv, HInv, IInv
<1>2. CASE CallsOnly
  BY <1>2 DEF CallsOnly, procs, syncers, InService
<1>3. ASSUME NEW s \in Server, GivesUp(s) PROVE Kept
  BY <1>1, <1>3 DEF GivesUp, GiveUp, syncers, InService, Alarms
<1>4. ASSUME NEW s \in Server, Start(s) \/ Timeout(s) \/ ConfirmRecovery(s) PROVE Kept
  BY <1>1, <1>4 DEF Start, Timeout, ConfirmRecovery, procs, syncers, InService, Up
<1>5. ASSUME NEW s \in Server, Ends(s) PROVE FALSE
  BY <1>1, <1>5, DieCounts DEF Ends
<1>6. ASSUME NEW t \in Attempt, TriggerSync(t) PROVE Kept
  <2>1. ~ Exit(Host(t), "both recovering") /\ Host(t) \in Server
    BY <1>1, Hosting, DieCounts DEF Exit
  <2>2. /\ repl_state' = [repl_state EXCEPT ![Host(t)] = "Standalone"]
        /\ sync' = [sync EXCEPT ![t] = Thread("deliver")]
        /\ GiveUp(requester[t]) /\ UNCHANGED requester
    BY <1>6, <2>1 DEF TriggerSync
  <2> QED
    BY <1>1, <2>1, <2>2 DEF GiveUp, InService, Alarms, Thread
<1>7. ASSUME NEW t \in Attempt,
             \/ SendFinish(t) \/ SyncRejected(t)
             \/ FinishSync(t) \/ FinishCallFails(t) \/ FinishAnswered(t)
      PROVE  Kept
  <2>1. UNCHANGED <<events, requester>>
    BY <1>7 DEF SendFinish, SyncRejected, FinishSync, FinishCallFails, FinishAnswered
  <2>2. \A s \in Server : InService(s) => InService(s)'
    BY <1>1, <1>7
       DEF SendFinish, SyncRejected, FinishSync, FinishCallFails, FinishAnswered, procs, InService
  <2>3. /\ \A u \in Attempt : u # t => sync'[u] = sync[u]
        /\ sync'[t].pc # "trigger"
    <3>1. CASE FinishSync(t) \/ FinishCallFails(t)
      BY <1>1, <3>1, FinishReturns
    <3>2. CASE SendFinish(t) \/ SyncRejected(t) \/ FinishAnswered(t)
      BY <1>1, <3>2 DEF SendFinish, SyncRejected, FinishAnswered, Thread, CallTo
    <3> QED
      BY <1>7, <3>1, <3>2
  <2> QED
    BY <2>1, <2>2, <2>3
<1> QED
  BY <1>2, <1>3, <1>4, <1>5, <1>6, <1>7 DEF StepKinds

LEMMA FaultInit == Init => FInv
<1> SUFFICES ASSUME Init PROVE OneGone /\ TriggerCurrent /\ RecoveryFindsHelper
  BY PromptInit DEF FInv
<1> QED
  BY DEF Init, OneGone, TriggerCurrent, RecoveryFindsHelper, InService, Other, Server, Thread

LEMMA FaultNext ==
  ASSUME Prompt, OneAtATime
  PROVE  FInv /\ [Next]_vars => FInv'
<1> SUFFICES ASSUME FInv, [Next]_vars
             PROVE  Misjudged' \/ (OneGone' /\ TriggerCurrent' /\ RecoveryFindsHelper')
  BY PromptNext DEF FInv, RecoveryFindsHelper
<1>1. /\ PInv /\ HInv /\ IInv /\ TypeOK /\ RecoveryFindsHelper /\ StepKinds
      /\ PInv' /\ PartitionOnlyByMisjudgment'
      /\ repl_state \in [Server -> {"Down", "Recovering", "Normal", "Standalone"}]
      /\ deaths \in [Server -> Nat] /\ sync \in [Attempt -> SyncRecord]
      /\ recovery \in [Server -> [sync_id : 0..MaxAttempts, done : BOOLEAN]]
      /\ requester \in [Attempt -> Server]
  BY PromptNext, Kinds, Types DEF FInv, PInv, HInv, IInv, Threads
<1>2. CASE Misjudged
  <2>1. events \subseteq events'
    <3>1. ASSUME NEW s \in Server, GivesUp(s) \/ Ends(s) PROVE events \subseteq events'
      BY <3>1 DEF GivesUp, GiveUp, Ends
    <3>2. CASE UNCHANGED deaths /\ \A s \in Server : ~ BeginAttempt(s)
      BY <1>1, <3>2, StepsKeepService
    <3>3. ASSUME NEW s \in Server, BeginAttempt(s) PROVE events \subseteq events'
      BY <3>3 DEF BeginAttempt
    <3>4. CASE ~ UNCHANGED deaths /\ \A s \in Server : ~ Ends(s)
      BY <1>1, <3>4
         DEF StepKinds, CallsOnly, GivesUp, Start, BeginAttempt, Timeout, ConfirmRecovery,
             SendFinish, SyncRejected, FinishSync, FinishCallFails, FinishAnswered, procs
    <3> QED
      BY <3>1, <3>2, <3>3, <3>4
  <2> QED
    BY <1>2, <2>1 DEF Misjudged
<1>3. CASE ~ Misjudged
  <2>1. OneGone /\ TriggerCurrent /\ events \intersect Alarms = {}
    BY <1>1, <1>3 DEF FInv, RecoveryFindsHelper, Alarms
  <2>2. \A s \in Server : r_pc[s] = "trigger" =>
          /\ recovery[s].sync_id \in Attempt /\ ~ InService(s)
          /\ InService(Other(s)) /\ Host(recovery[s].sync_id) = Other(s)
          /\ ~ Lost(Other(s), sync[recovery[s].sync_id].to)
    <3> SUFFICES ASSUME NEW s \in Server, r_pc[s] = "trigger"
                 PROVE  /\ recovery[s].sync_id \in Attempt /\ ~ InService(s)
                        /\ InService(Other(s)) /\ Host(recovery[s].sync_id) = Other(s)
                        /\ ~ Lost(Other(s), sync[recovery[s].sync_id].to)
      OBVIOUS
    <3>1. /\ recovery[s].sync_id \in Attempt /\ repl_state[s] = "Recovering"
          /\ requester[recovery[s].sync_id] = s /\ sync[recovery[s].sync_id].pc = "trigger"
      BY <1>1, OwnAttempt DEF PInv
    <3>2. InService(Other(s)) /\ ~ InService(s)
      BY <2>1, <3>1 DEF OneGone, InService
    <3> QED
      BY <2>1, <3>1, <3>2 DEF TriggerCurrent, Lost, Host, Up, InService
  <2>3. ASSUME NEW s \in Server, TriggerFails(s) PROVE FALSE
    BY <2>2, <2>3 DEF TriggerFails
  <2>4. ASSUME NEW t \in Attempt, TriggerSync(t), Exit(Host(t), "both recovering") PROVE FALSE
    <3>1. r_pc[requester[t]] = "trigger" /\ requester[t] \in Server
      BY <1>1, <2>4 DEF PInv, TriggerInStep, TriggerSync
    <3>2. InService(Host(t))
      BY <1>1, <2>2, <3>1 DEF Host
    <3>3. repl_state[Host(t)] = "Recovering"
      <4>1. deaths' # deaths
        BY <1>1, <2>4, Hosting, DieCounts DEF Exit
      <4> QED
        BY <2>4, <4>1 DEF TriggerSync
    <3> QED
      BY <3>2, <3>3 DEF InService
  <2>5. ASSUME NEW s \in Server, Crash(s) PROVE OneGone' /\ TriggerCurrent' /\ RecoveryFindsHelper'
    <3>1. /\ Die(s) /\ UNCHANGED events /\ Other(s) \in Server /\ Other(s) # s
          /\ InService(Other(s)) /\ \A r \in Server : r = s \/ r = Other(s)
      BY <2>5, Others DEF Crash, InService
    <3>2. repl_state'[s] = "Down" /\ InService(Other(s))'
      BY <1>1, <3>1 DEF Die, InService
    <3>3. OneGone'
      BY <3>1, <3>2, Others DEF OneGone
    <3>4. ASSUME NEW t \in Attempt, sync'[t].pc = "trigger" PROVE FALSE
      <4>1. requester'[t] \in Server /\ repl_state'[requester'[t]] = "Recovering"
        BY <1>1, <3>1, <3>4 DEF PInv, TriggerInStep, RecoverInStep, Die
      <4> QED
        BY <3>1, <3>2, <4>1 DEF InService
    <3> QED
      BY <1>1, <3>1, <3>3, <3>4 DEF TriggerCurrent, RecoveryFindsHelper, Misjudged
  <2>6. ASSUME NEW s \in Server, BeginAttempt(s)
        PROVE  OneGone' /\ TriggerCurrent' /\ RecoveryFindsHelper'
    <3> DEFINE n == attempt + 1
    <3>1. n \in Attempt /\ Other(s) \in Server
      <4>1. attempt \in Nat /\ attempt < MaxAttempts
        BY <1>1, <2>6, Types DEF BeginAttempt
      <4> QED
        BY <4>1, Others, Bounds DEF Attempt
    <3>2. /\ UNCHANGED <<procs, events>> /\ repl_state[s] = "Recovering"
          /\ \A t \in Attempt : t # n => sync'[t] = sync[t] /\ requester'[t] = requester[t]
          /\ requester'[n] = s /\ sync'[n] = CallTo(Other(s), "trigger")
      BY <1>1, <2>6, <3>1 DEF BeginAttempt, PInv, RecoverInStep
    <3>3. Up(Other(s)) /\ sync'[n].to = deaths[Other(s)]
      BY <2>1, <3>2 DEF OneGone, InService, CallTo, Incarnation, Up
    <3>4. OneGone' /\ RecoveryFindsHelper'
      BY <1>1, <2>1, <3>2 DEF OneGone, InService, RecoveryFindsHelper, Misjudged, procs
    <3>5. TriggerCurrent'
      BY <2>1, <3>1, <3>2, <3>3 DEF TriggerCurrent, Host, procs
    <3> QED
      BY <3>4, <3>5
  <2>7. CASE UNCHANGED deaths /\ \A s \in Server : ~ BeginAttempt(s)
    <3>1. /\ events \subseteq events' /\ events' \intersect Alarms = {}
          /\ \A s \in Server : InService(s) => InService(s)'
          /\ \A t \in Attempt : sync'[t].pc = "trigger" =>
               sync'[t] = sync[t] /\ requester'[t] = requester[t]
      BY <1>1, <2>1, <2>7, StepsKeepService
    <3>2. OneGone'
      BY <2>1, <3>1, Others DEF OneGone
    <3>3. TriggerCurrent'
      BY <2>1, <2>7, <3>1 DEF TriggerCurrent, Host
    <3>4. RecoveryFindsHelper'
      BY <3>1 DEF RecoveryFindsHelper, Alarms
    <3> QED
      BY <3>2, <3>3, <3>4
  <2>8. CASE ~ UNCHANGED deaths
    <3>1. ASSUME NEW t \in Attempt, Heartbeat(t) PROVE Misjudged'
      BY <1>1, <2>8, <3>1 DEF Heartbeat, Exit, PartitionOnlyByMisjudgment, procs
    <3>2. ASSUME NEW w \in Writer, BackupWrite(w) PROVE Misjudged'
      BY <1>1, <2>8, <3>2 DEF BackupWrite, Exit, PartitionOnlyByMisjudgment, procs
    <3>3. ASSUME NEW s \in Server, Crash(s) \/ Start(s) \/ RecoverStep(s)
          PROVE  OneGone' /\ TriggerCurrent' /\ RecoveryFindsHelper'
      BY <2>3, <2>5, <2>8, <3>3
         DEF Start, RecoverStep, BeginAttempt, Timeout, ConfirmRecovery, procs
    <3>4. ASSUME NEW t \in Attempt, SyncStep(t) PROVE FALSE
      BY <2>4, <2>8, <3>4 DEF SyncStep, TriggerSync, SendFinish, SyncRejected, FinishSync,
                              FinishCallFails, FinishAnswered, procs
    <3>5. ASSUME NEW t \in Attempt, HbStep(t) PROVE Misjudged'
      BY <2>8, <3>1, <3>5 DEF HbStep, HbStart, HbCallFails, HbNext, HbGivesUp, procs
    <3>6. ASSUME NEW w \in Writer, CallBackup(w) \/ WriteStep(w) PROVE Misjudged'
      BY <2>8, <3>2, <3>6 DEF WriteStep, CallBackup, BackupWriteReturns, WriteCallFails,
                              AssumePartnerDown, procs
    <3>7. CASE UNCHANGED vars
      BY <2>8, <3>7 DEF vars, procs
    <3> QED
      BY <3>3, <3>4, <3>5, <3>6, <3>7 DEF Next
  <2> QED
    BY <2>6, <2>7, <2>8
<1> QED
  BY <1>2, <1>3

\* Under the fault model of report.pdf a recovery finds its helper: a server
\* exits because both were down or recovering only after one has given the
\* other up while it was in service (PairedServer.cc lines 72-75 and 174-178).
THEOREM HelperFound ==
  ASSUME Prompt, OneAtATime
  PROVE  Spec => []RecoveryFindsHelper
<1>1. FInv => RecoveryFindsHelper
  BY DEF FInv
<1> QED
  BY <1>1, FaultInit, FaultNext, PTL DEF Spec
=============================================================================
