------------------------- MODULE PairedServersProofs -------------------------
(***************************************************************************)
(* Proofs about PairedServers for any set of write handlers and any        *)
(* bounds, whatever the delays and the order of the crashes (Prompt and    *)
(* OneAtATime either way): the type invariant and Watched.  HandoverProofs *)
(* adds what holds of the hand-over of the service.                        *)
(***************************************************************************)
EXTENDS PairedServers, TLAPS

Finishing(t) == sync[t].pc \in {"finish", "finish_ok", "finish_failed"}

\* Sync ids are handed out in order: no thread has one that is still to come.
IdsInOrder == \A t \in Attempt : t > attempt => sync[t].pc = "none"

\* The server that runs a sync thread does not itself recover.
HelperInService == \A t \in Attempt : SyncRunning(t) => InService(Host(t))

IInv == TypeOK /\ IdsInOrder /\ HelperInService /\ Watched

SyncRecord == [pc : {"none", "trigger", "deliver", "finish", "finish_ok",
                     "finish_failed", "orphan", "over"}, to : Int]
HbRecord == [pc : {"none", "spawned", "call", "orphan", "ok", "failed", "over"},
             to : Int, my_iter : Nat]
Events == {"recovering alone", "both recovering", "heartbeat in Standalone",
           "BackupWrite in Standalone", "misjudged"}
WrRecord == [pc : {"idle", "call", "orphan", "ok", "failed"}, to : Int]

----------------------------------------------------------------------------
(***************************************************************************)
(* The operators of the model.                                             *)
(***************************************************************************)

LEMMA Bounds ==
  /\ MaxAttempts \in Nat /\ MaxDeaths \in Nat
  /\ Attempt \subseteq Nat /\ 0 \notin Attempt
  /\ 0 \in 0..MaxAttempts /\ Attempt \subseteq 0..MaxAttempts
BY PairedAssumption DEF Attempt

\* TypeOK by name: the types of the variables, and the two facts about processes.
LEMMA Types ==
  ASSUME TypeOK
  PROVE  /\ repl_state \in [Server -> {"Down", "Recovering", "Normal", "Standalone"}]
         /\ stateMutex \in [Server -> 0..MaxAttempts] /\ deaths \in [Server -> Nat]
         /\ r_pc \in [Server -> {"off", "begin", "trigger", "wait", "done"}]
         /\ recovery \in [Server -> [sync_id : 0..MaxAttempts, done : BOOLEAN]]
         /\ attempt \in 0..MaxAttempts /\ requester \in [Attempt -> Server]
         /\ sync \in [Attempt -> SyncRecord] /\ hb \in [Attempt -> HbRecord]
         /\ wr \in [Writer -> WrRecord] /\ iter \in Nat
BY DEF TypeOK, SyncRecord, HbRecord, WrRecord

LEMMA Processes ==
  ASSUME TypeOK, NEW s \in Server
  PROVE  /\ stateMutex[s] # 0 => /\ stateMutex[s] \in Attempt
                                 /\ Host(stateMutex[s]) = s /\ Finishing(stateMutex[s])
         /\ ~ Up(s) => r_pc[s] = "off"
<1>1. stateMutex[s] \in 0..MaxAttempts
  BY Types
<1>2. stateMutex[s] # 0 => stateMutex[s] \in Attempt
  BY <1>1, Bounds DEF Attempt
<1> QED
  BY <1>2 DEF TypeOK, Finishing

LEMMA Others ==
  ASSUME NEW s \in Server
  PROVE  Other(s) \in Server /\ Other(s) # s /\ Other(Other(s)) = s
         /\ \A r \in Server : r = s \/ r = Other(s)
BY DEF Server, Other

LEMMA Hosting ==
  ASSUME TypeOK, NEW t \in Attempt
  PROVE  /\ requester[t] \in Server /\ Host(t) \in Server
         /\ Host(t) # requester[t] /\ Host(t) = Other(requester[t])
         /\ requester[t] = Other(Host(t))
BY Others DEF TypeOK, Host

LEMMA EventTypes == TypeOK => events \subseteq Events
BY DEF TypeOK, Events

LEMMA ThreadTypes ==
  /\ \A pc \in {"none", "trigger", "deliver", "over"} : Thread(pc) \in SyncRecord
  /\ \A pc \in {"none", "spawned", "over"} : Loop(pc) \in HbRecord
  /\ Thread("idle") \in WrRecord
  /\ \A id \in 0..MaxAttempts :
       FreshRecovery(id) \in [sync_id : 0..MaxAttempts, done : BOOLEAN]
BY DEF Thread, Loop, SyncRecord, HbRecord, WrRecord, FreshRecovery

LEMMA CallTypes ==
  ASSUME TypeOK, NEW s \in Server
  PROVE  /\ Incarnation(s) \in Int
         /\ \A pc \in {"trigger", "finish"} : CallTo(s, pc) \in SyncRecord
         /\ CallTo(s, "call") \in WrRecord
         /\ \A pc : CallTo(s, pc).pc = pc
<1>1. Incarnation(s) \in Int
  BY Types DEF Incarnation
<1> QED
  BY <1>1 DEF CallTo, SyncRecord, WrRecord

LEMMA ReturnTypes ==
  /\ \A th \in SyncRecord, pc \in {"finish_ok", "finish_failed"} :
       Return(th, pc, Thread("over")) \in SyncRecord
  /\ \A th \in HbRecord, pc \in {"ok", "failed"} :
       Return(th, pc, Loop("over")) \in HbRecord
  /\ \A th \in WrRecord, pc \in {"ok", "failed"} :
       Return(th, pc, Thread("idle")) \in WrRecord
BY ThreadTypes DEF Return, SyncRecord, HbRecord, WrRecord

LEMMA KilledTypes ==
  /\ \A th \in SyncRecord : /\ Killed(th, "finish", Thread("over")) \in SyncRecord
                            /\ Killed(th, "finish", Thread("over")).pc \in {"over", "orphan"}
  /\ \A th \in HbRecord : /\ Killed(th, "call", Loop("over")) \in HbRecord
                          /\ Killed(th, "call", Loop("over")).pc \in {"over", "orphan"}
  /\ \A th \in WrRecord : /\ Killed(th, "call", Thread("idle")) \in WrRecord
                          /\ Killed(th, "call", Thread("idle")).pc \in {"idle", "orphan"}
BY DEF Killed, Thread, Loop, SyncRecord, HbRecord, WrRecord

----------------------------------------------------------------------------
(***************************************************************************)
(* The end of a process.                                                   *)
(***************************************************************************)

LEMMA DieKills ==
  ASSUME TypeOK, NEW s \in Server, Die(s), NEW t \in Attempt
  PROVE  /\ sync'[t] \in SyncRecord
         /\ SyncRunning(t) /\ Host(t) = s => sync'[t].pc \in {"over", "orphan"}
         /\ SyncRunning(t) /\ Host(t) # s => sync'[t] = sync[t]
         /\ ~ SyncRunning(t) => sync'[t] = sync[t] \/ sync'[t] = Thread("over")
         /\ SyncRunning(t)' => SyncRunning(t) /\ Host(t) # s
<1>1. sync[t] \in SyncRecord
  BY Types
<1>2. CASE SyncRunning(t) /\ Host(t) = s
  <2>1. sync'[t] = Killed(sync[t], "finish", Thread("over"))
    BY <1>2 DEF Die
  <2> QED
    BY <1>1, <1>2, <2>1, KilledTypes DEF SyncRunning
<1>3. CASE SyncRunning(t) /\ Host(t) # s
  BY <1>1, <1>3 DEF Die, SyncRunning
<1>4. CASE ~ SyncRunning(t)
  <2>1. sync'[t] = sync[t] \/ sync'[t] = Thread("over")
    BY <1>4 DEF Die
  <2> QED
    BY <1>1, <1>4, <2>1, ThreadTypes DEF SyncRunning, Thread
<1> QED
  BY <1>2, <1>3, <1>4

LEMMA DieCounts ==
  ASSUME TypeOK, NEW s \in Server, Die(s)
  PROVE  deaths'[s] # deaths[s] /\ deaths' # deaths
<1>1. deaths' = [deaths EXCEPT ![s] = @ + 1] /\ deaths \in [Server -> Nat]
  BY Types DEF Die
<1> QED
  BY <1>1

LEMMA DieStep ==
  ASSUME IInv, NEW s \in Server, Die(s), events' \subseteq Events
  PROVE  IInv'
<1>1. TypeOK /\ UNCHANGED <<attempt, requester>>
  BY DEF IInv, Die
<1>2. \A r \in Server : r # s => /\ repl_state'[r] = repl_state[r]
                                 /\ stateMutex'[r] = stateMutex[r] /\ r_pc'[r] = r_pc[r]
  BY <1>1, Types DEF Die
<1>3. repl_state'[s] = "Down" /\ stateMutex'[s] = 0 /\ r_pc'[s] = "off"
  BY <1>1, Types DEF Die
<1>4. \A r \in Server : (stateMutex[r] # 0 => Host(stateMutex[r]) = r /\ Finishing(stateMutex[r]))'
  <2> SUFFICES ASSUME NEW r \in Server, stateMutex'[r] # 0
               PROVE  Host(stateMutex[r])' = r /\ Finishing(stateMutex[r])'
    OBVIOUS
  <2>1. r # s /\ stateMutex'[r] = stateMutex[r]
    BY <1>2, <1>3
  <2>2. stateMutex[r] \in Attempt /\ Host(stateMutex[r]) = r /\ Finishing(stateMutex[r])
    BY <1>1, <2>1, Processes
  <2>3. sync'[stateMutex[r]] = sync[stateMutex[r]]
    BY <1>1, <2>1, <2>2, DieKills DEF Finishing, SyncRunning
  <2> QED
    BY <1>1, <2>1, <2>2, <2>3 DEF Host, Finishing
<1>5. TypeOK'
  <2>1. sync' \in [Attempt -> SyncRecord]
    BY <1>1, DieKills DEF Die
  <2>2. hb' \in [Attempt -> HbRecord]
    <3>1. hb' = [t \in Attempt |-> IF s = "backup" /\ HbRunning(t)
                                  THEN Killed(hb[t], "call", Loop("over")) ELSE hb[t]]
      BY DEF Die
    <3> QED
      BY <1>1, <3>1, Types, KilledTypes
  <2>3. wr' \in [Writer -> WrRecord]
    <3>1. wr' = [w \in Writer |-> IF s = "primary" /\ wr[w].pc # "orphan"
                                 THEN Killed(wr[w], "call", Thread("idle")) ELSE wr[w]]
      BY DEF Die
    <3> QED
      BY <1>1, <3>1, Types, KilledTypes
  <2>4. recovery' \in [Server -> [sync_id : 0..MaxAttempts, done : BOOLEAN]]
    <3>1. FreshRecovery(0) \in [sync_id : 0..MaxAttempts, done : BOOLEAN]
      BY ThreadTypes, Bounds
    <3>2. recovery' = [recovery EXCEPT ![s] = FreshRecovery(0)]
      BY DEF Die
    <3> QED
      BY <1>1, <3>1, <3>2, Types
  <2>5. \A r \in Server : ~ Up(r)' => r_pc'[r] = "off"
    BY <1>1, <1>2, <1>3, Processes DEF Up
  <2>6. stateMutex' \in [Server -> 0..MaxAttempts]
    BY <1>1, Types, Bounds DEF Die
  <2>7. /\ repl_state' \in [Server -> {"Down", "Recovering", "Normal", "Standalone"}]
        /\ r_pc' \in [Server -> {"off", "begin", "trigger", "wait", "done"}]
    BY <1>1, Types DEF Die
  <2>8. deaths' \in [Server -> Nat] /\ iter' \in Nat
    <3>1. deaths' \in [Server -> Nat]
      <4>1. deaths' = [deaths EXCEPT ![s] = @ + 1] /\ deaths \in [Server -> Nat]
        BY <1>1, Types DEF Die
      <4>2. deaths[s] + 1 \in Nat
        BY <4>1
      <4> QED
        BY <4>1, <4>2
    <3>2. iter' \in Nat
      BY <1>1, Types DEF Die
    <3> QED
      BY <3>1, <3>2
  <2>9. attempt' \in 0..MaxAttempts /\ requester' \in [Attempt -> Server]
    BY <1>1, Types
  <2> QED
    BY <1>4, <2>1, <2>2, <2>3, <2>4, <2>5, <2>6, <2>7, <2>8, <2>9
       DEF TypeOK, Finishing, SyncRecord, HbRecord, WrRecord, Events
<1>6. IdsInOrder'
  <2>1. \A t \in Attempt : sync[t].pc = "none" => sync'[t].pc = "none"
    BY <1>1, Types DEF Die, SyncRunning
  <2> QED
    BY <1>1, <2>1 DEF IdsInOrder, IInv
<1>7. HelperInService'
  <2> SUFFICES ASSUME NEW t \in Attempt, SyncRunning(t)' PROVE InService(Host(t))'
    BY DEF HelperInService
  <2>1. SyncRunning(t) /\ Host(t) # s /\ Host(t) \in Server
    BY <1>1, DieKills, Hosting
  <2> QED
    BY <1>1, <1>2, <2>1 DEF HelperInService, InService, Host, IInv
<1>8. Watched'
  <2>1. CASE s = "backup"
    BY <1>3, <2>1 DEF Watched
  <2>2. CASE s # "backup"
    BY <1>1, <1>2, <2>2, Types DEF Watched, Server, IInv, Die
  <2> QED
    BY <2>1, <2>2
<1> QED
  BY <1>5, <1>6, <1>7, <1>8 DEF IInv

----------------------------------------------------------------------------
(***************************************************************************)
(* The steps at which no process ends.  Most of them neither draw an id    *)
(* nor touch a lock; what such a step must keep is in Frame.               *)
(***************************************************************************)

LEMMA Frame ==
  ASSUME IInv,
         UNCHANGED <<stateMutex, deaths, attempt, requester>>, events' \subseteq Events,
         repl_state' \in [Server -> {"Down", "Recovering", "Normal", "Standalone"}],
         r_pc' \in [Server -> {"off", "begin", "trigger", "wait", "done"}],
         recovery' \in [Server -> [sync_id : 0..MaxAttempts, done : BOOLEAN]],
         sync' \in [Attempt -> SyncRecord], hb' \in [Attempt -> HbRecord],
         wr' \in [Writer -> WrRecord], iter' \in Nat,
         \A s \in Server : ~ Up(s)' => r_pc'[s] = "off",
         \A s \in Server : InService(s) => InService(s)',
         \A t \in Attempt : /\ Finishing(t) => Finishing(t)'
                            /\ SyncRunning(t)' => SyncRunning(t) \/ InService(Host(t))
                            /\ sync[t].pc = "none" => sync'[t].pc = "none",
         Watched'
  PROVE  IInv'
<1>1. TypeOK
  BY DEF IInv
<1>2. TypeOK'
  <2>1. \A s \in Server : (stateMutex[s] # 0 => Host(stateMutex[s]) = s /\ Finishing(stateMutex[s]))'
    <3> SUFFICES ASSUME NEW s \in Server, stateMutex[s] # 0
                 PROVE  (Host(stateMutex[s]) = s /\ Finishing(stateMutex[s]))'
      OBVIOUS
    <3>1. stateMutex[s] \in Attempt /\ Host(stateMutex[s]) = s /\ Finishing(stateMutex[s])
      BY <1>1, Processes
    <3> QED
      BY <3>1 DEF Host, Finishing
  <2>2. /\ stateMutex' \in [Server -> 0..MaxAttempts] /\ deaths' \in [Server -> Nat]
        /\ attempt' \in 0..MaxAttempts /\ requester' \in [Attempt -> Server]
        /\ events' \subseteq Events
    BY <1>1, Types
  <2> QED
    BY <2>1, <2>2 DEF TypeOK, Finishing, SyncRecord, HbRecord, WrRecord, Events
<1>3. IdsInOrder'
  <2>1. \A t \in Attempt : t > attempt => sync[t].pc = "none"
    BY DEF IdsInOrder, IInv
  <2> QED
    BY <2>1 DEF IdsInOrder, Finishing, SyncRunning, InService
<1>4. HelperInService'
  <2> SUFFICES ASSUME NEW t \in Attempt, SyncRunning(t)' PROVE InService(Host(t))'
    BY DEF HelperInService
  <2>1. InService(Host(t)) /\ Host(t) \in Server
    BY <1>1, Hosting DEF HelperInService, IInv, SyncRunning, InService
  <2>2. Host(t)' = Host(t)
    BY DEF Host
  <2> QED
    BY <2>1, <2>2 DEF InService
<1> QED
  BY <1>2, <1>3, <1>4 DEF IInv

\* A step that changes neither a server nor a sync thread.
LEMMA QuietFrame ==
  ASSUME IInv, UNCHANGED <<procs, recovers, syncers, events>>,
         hb' \in [Attempt -> HbRecord], wr' \in [Writer -> WrRecord], iter' \in Nat, Watched'
  PROVE  IInv'
<1>1. TypeOK
  BY DEF IInv
<1>2. \A s \in Server : ~ Up(s)' => r_pc'[s] = "off"
  BY <1>1, Processes DEF Up, procs, recovers
<1>3. \A s \in Server : InService(s) => InService(s)'
  BY DEF InService, procs
<1>4. \A t \in Attempt : /\ Finishing(t) => Finishing(t)'
                         /\ SyncRunning(t)' => SyncRunning(t)
                         /\ sync[t].pc = "none" => sync'[t].pc = "none"
  BY DEF Finishing, SyncRunning, syncers
<1> QED
  BY <1>1, <1>2, <1>3, <1>4, Types, EventTypes, Frame DEF procs, recovers, syncers

LEMMA WatchKept ==
  ASSUME Watched, UNCHANGED <<repl_state, iter>>, hb \in [Attempt -> HbRecord],
         \A t \in Attempt : \/ hb'[t] = hb[t]
                            \/ hb'[t].pc \in {"spawned", "failed"}
                            \/ hb[t].pc = "orphan"
                            \/ /\ hb[t].pc \in {"call", "ok"} /\ hb'[t].pc \in {"call", "ok"}
                               /\ hb'[t].my_iter = hb[t].my_iter
                            \/ hb[t].pc = "ok" /\ hb[t].my_iter # iter
  PROVE  Watched'
<1> SUFFICES ASSUME repl_state'["backup"] = "Normal"
             PROVE  \E t \in Attempt : \/ hb'[t].pc \in {"spawned", "failed"}
                                       \/ hb'[t].pc \in {"call", "ok"} /\ hb'[t].my_iter = iter'
  BY DEF Watched
<1>1. PICK t \in Attempt : \/ hb[t].pc \in {"spawned", "failed"}
                           \/ hb[t].pc \in {"call", "ok"} /\ hb[t].my_iter = iter
  BY DEF Watched
<1>2. CASE hb[t].pc \in {"spawned", "failed"}
  BY <1>1, <1>2
<1>3. CASE hb[t].pc \in {"call", "ok"} /\ hb[t].my_iter = iter
  BY <1>1, <1>3
<1> QED
  BY <1>1, <1>2, <1>3

LEMMA HeartbeatSteps ==
  ASSUME IInv, NEW t \in Attempt,
         HbStart(t) \/ HbCallFails(t) \/ HbNext(t) \/ (Heartbeat(t) /\ UNCHANGED procs)
  PROVE  IInv'
<1>1. TypeOK /\ Watched /\ hb \in [Attempt -> HbRecord] /\ hb[t] \in HbRecord
  BY Types DEF IInv
<1>2. "primary" \in Server /\ Incarnation("primary") \in Int
  BY <1>1, CallTypes DEF Server
<1>3. CASE HbStart(t)
  <2>1. hb'[t].pc = "call" /\ hb'[t].my_iter = iter'
    BY <1>1, <1>3 DEF HbStart, SendHeartbeat, HbRecord
  <2>2. iter' = iter + 1 /\ hb' \in [Attempt -> HbRecord]
    <3>1. iter + 1 \in Nat
      BY <1>1, Types
    <3>2. SendHeartbeat([hb[t] EXCEPT !.my_iter = iter + 1]) \in HbRecord
      BY <1>1, <1>2, <3>1 DEF SendHeartbeat, HbRecord
    <3> QED
      BY <1>1, <1>3, <3>2 DEF HbStart
  <2>3. Watched'
    <3>1. (hb[t].pc \in {"call", "ok"} /\ hb[t].my_iter = iter)'
      BY <2>1
    <3> QED
      BY <3>1 DEF Watched
  <2>4. iter' \in Nat
    BY <1>1, <2>2, Types
  <2> QED
    BY <1>1, <1>3, <2>2, <2>3, <2>4, QuietFrame, Types DEF HbStart
<1>4. CASE HbCallFails(t)
  <2>1. hb' \in [Attempt -> HbRecord] /\ hb' = [hb EXCEPT ![t] = hb'[t]]
    BY <1>1, <1>4, ReturnTypes DEF HbCallFails
  <2>2. hb[t].pc = "orphan" \/ hb'[t].pc = "failed"
    BY <1>1, <1>4 DEF HbCallFails, Return, HbRecord
  <2>3. Watched'
    BY <1>1, <1>4, <2>1, <2>2, WatchKept DEF HbCallFails, procs
  <2> QED
    BY <1>1, <1>4, <2>1, <2>3, QuietFrame, Types DEF HbCallFails
<1>5. CASE HbNext(t)
  <2>1. SendHeartbeat(hb[t]) \in HbRecord
    BY <1>1, <1>2 DEF SendHeartbeat, HbRecord
  <2>2. hb' \in [Attempt -> HbRecord] /\ hb' = [hb EXCEPT ![t] = hb'[t]]
    BY <1>1, <1>5, <2>1, ThreadTypes DEF HbNext
  <2>3. \/ hb[t].pc = "ok" /\ hb[t].my_iter # iter
        \/ hb'[t].my_iter = hb[t].my_iter /\ hb'[t].pc = "call"
    BY <1>1, <1>5 DEF HbNext, SendHeartbeat, IsNewest, HbRecord
  <2>4. Watched'
    BY <1>1, <1>5, <2>2, <2>3, WatchKept DEF HbNext, procs
  <2> QED
    BY <1>1, <1>5, <2>2, <2>4, QuietFrame, Types DEF HbNext
<1>6. CASE Heartbeat(t) /\ UNCHANGED procs
  <2>1. ~ Exit("primary", "heartbeat in Standalone")
    BY <1>1, <1>2, <1>6, DieCounts DEF Exit, procs
  <2>2. PICK pc \in {"ok", "failed"} : hb' = [hb EXCEPT ![t] = Return(@, pc, Loop("over"))]
    BY <1>6, <2>1 DEF Heartbeat
  <2>3. hb' \in [Attempt -> HbRecord] /\ hb' = [hb EXCEPT ![t] = hb'[t]]
    BY <1>1, <2>2, ReturnTypes
  <2>4. \/ hb[t].pc = "orphan" \/ hb'[t].pc = "failed"
        \/ hb[t].pc = "call" /\ hb'[t].my_iter = hb[t].my_iter /\ hb'[t].pc = "ok"
    BY <1>1, <1>6, <2>2 DEF Return, HbRecord, Heartbeat
  <2>5. UNCHANGED <<recovers, syncers, iter, wr, events>>
    BY <1>6, <2>1 DEF Heartbeat
  <2>6. Watched'
    BY <1>1, <1>6, <2>3, <2>4, <2>5, WatchKept DEF procs
  <2> QED
    BY <1>1, <1>6, <2>3, <2>5, <2>6, QuietFrame, Types
<1> QED
  BY <1>3, <1>4, <1>5, <1>6

LEMMA WriteSteps ==
  ASSUME IInv, NEW w \in Writer,
         CallBackup(w) \/ (BackupWrite(w) /\ UNCHANGED procs)
         \/ BackupWriteReturns(w) \/ WriteCallFails(w)
  PROVE  IInv'
<1>1. TypeOK /\ Watched /\ wr \in [Writer -> WrRecord] /\ wr[w] \in WrRecord
  BY Types DEF IInv
<1>2. Server = {"primary", "backup"}
  BY DEF Server
<1>3. ~ Exit("backup", "BackupWrite in Standalone") \/ ~ UNCHANGED procs
  BY <1>1, <1>2, DieCounts DEF Exit, procs
<1>4. UNCHANGED <<procs, recovers, syncers, iter, hb, events>>
  BY <1>3 DEF CallBackup, BackupWrite, BackupWriteReturns, WriteCallFails
<1>5. \E th \in WrRecord : wr' = [wr EXCEPT ![w] = th]
  <2>1. CASE CallBackup(w)
    BY <1>1, <1>2, <2>1, CallTypes DEF CallBackup
  <2>2. CASE BackupWrite(w) /\ UNCHANGED procs
    BY <1>1, <1>3, <2>2, ReturnTypes DEF BackupWrite
  <2>3. CASE BackupWriteReturns(w)
    BY <1>1, <2>3, ThreadTypes DEF BackupWriteReturns
  <2>4. CASE WriteCallFails(w)
    BY <1>1, <2>4, ReturnTypes DEF WriteCallFails
  <2> QED
    BY <2>1, <2>2, <2>3, <2>4
<1>6. wr' \in [Writer -> WrRecord]
  BY <1>1, <1>5
<1>7. Watched'
  BY <1>1, <1>4 DEF Watched, procs
<1> QED
  BY <1>1, <1>4, <1>6, <1>7, QuietFrame, Types

\* A failed heartbeat or BackupWrite makes the server Standalone.
LEMMA GiveUpSteps ==
  ASSUME IInv, NEW s \in Server,
         repl_state' = [repl_state EXCEPT ![s] = "Standalone"],
         UNCHANGED <<stateMutex, deaths, recovers, syncers, iter>>, events' \subseteq Events,
         hb' \in [Attempt -> HbRecord], wr' \in [Writer -> WrRecord],
         s = "primary" => UNCHANGED hb
  PROVE  IInv'
<1>1. TypeOK /\ Watched
  BY DEF IInv
<1>2. /\ repl_state \in [Server -> {"Down", "Recovering", "Normal", "Standalone"}]
      /\ repl_state' \in [Server -> {"Down", "Recovering", "Normal", "Standalone"}]
  BY <1>1, Types
<1>3. \A r \in Server : ~ Up(r)' => r_pc'[r] = "off"
  BY <1>1, <1>2, Processes DEF Up, recovers
<1>4. \A r \in Server : InService(r) => InService(r)'
  BY <1>2 DEF InService
<1>5. \A t \in Attempt : /\ Finishing(t) => Finishing(t)'
                         /\ SyncRunning(t)' => SyncRunning(t)
                         /\ sync[t].pc = "none" => sync'[t].pc = "none"
  BY DEF Finishing, SyncRunning, syncers
<1>6. Watched'
  BY <1>1, <1>2 DEF Watched, Server, recovers
<1> QED
  BY <1>1, <1>2, <1>3, <1>4, <1>5, <1>6, Types, EventTypes, Frame DEF recovers, syncers

LEMMA SyncSteps ==
  ASSUME IInv, NEW t \in Attempt, FinishSync(t) \/ FinishCallFails(t)
  PROVE  IInv'
<1> DEFINE s == requester[t]
<1>1. /\ TypeOK /\ Watched /\ s \in Server
      /\ repl_state \in [Server -> {"Down", "Recovering", "Normal", "Standalone"}]
      /\ recovery \in [Server -> [sync_id : 0..MaxAttempts, done : BOOLEAN]]
      /\ sync \in [Attempt -> SyncRecord] /\ sync[t] \in SyncRecord
      /\ hb \in [Attempt -> HbRecord]
  BY Types DEF IInv
<1>2. PICK pc \in {"finish_ok", "finish_failed"} :
        sync' = [sync EXCEPT ![t] = Return(@, pc, Thread("over"))]
  BY DEF FinishSync, FinishCallFails
<1>3. sync' \in [Attempt -> SyncRecord]
  BY <1>1, <1>2, ReturnTypes
<1>4. \A u \in Attempt : /\ Finishing(u) => Finishing(u)'
                         /\ SyncRunning(u)' => SyncRunning(u)
                         /\ sync[u].pc = "none" => sync'[u].pc = "none"
  <2> SUFFICES ASSUME NEW u \in Attempt
               PROVE  /\ Finishing(u) => Finishing(u)'
                      /\ SyncRunning(u)' => SyncRunning(u)
                      /\ sync[u].pc = "none" => sync'[u].pc = "none"
    OBVIOUS
  <2>1. CASE u # t
    <3>1. sync'[u] = sync[u]
      BY <1>1, <1>2, <2>1
    <3> QED
      BY <3>1 DEF Finishing, SyncRunning
  <2>2. CASE u = t
    <3>1. sync[t].pc \in {"finish", "finish_ok", "orphan"}
      BY DEF FinishSync, FinishCallFails
    <3>2. IF sync[t].pc = "orphan" THEN sync'[t].pc = "over" ELSE sync'[t].pc = pc
      BY <1>1, <1>2 DEF Return, Thread, SyncRecord
    <3> QED
      BY <2>2, <3>1, <3>2 DEF Finishing, SyncRunning
  <2> QED
    BY <2>1, <2>2
<1>5. \/ UNCHANGED <<repl_state, recovery, hb>>
      \/ /\ repl_state[s] = "Recovering" /\ repl_state' = [repl_state EXCEPT ![s] = "Normal"]
         /\ recovery' = [recovery EXCEPT ![s].done = TRUE]
         /\ hb' = IF s = "backup" THEN [hb EXCEPT ![t] = Loop("spawned")] ELSE hb
  BY DEF FinishSync, FinishCallFails, CurrentSync, procs, recovers
<1>6. UNCHANGED <<stateMutex, deaths, r_pc, attempt, requester, iter, wr, events>>
  BY DEF FinishSync, FinishCallFails, procs, recovers
<1>7. /\ repl_state' \in [Server -> {"Down", "Recovering", "Normal", "Standalone"}]
      /\ \A r \in Server : InService(r) => InService(r)'
      /\ \A r \in Server : ~ Up(r)' => ~ Up(r)
  BY <1>1, <1>5 DEF InService, Up
<1>8. recovery' \in [Server -> [sync_id : 0..MaxAttempts, done : BOOLEAN]]
  <2>1. [recovery[s] EXCEPT !.done = TRUE] \in [sync_id : 0..MaxAttempts, done : BOOLEAN]
    BY <1>1
  <2>2. recovery' = recovery \/ recovery' = [recovery EXCEPT ![s] = [recovery[s] EXCEPT !.done = TRUE]]
    BY <1>5
  <2> QED
    BY <1>1, <2>1, <2>2
<1>9. hb' \in [Attempt -> HbRecord]
  BY <1>1, <1>5, ThreadTypes
<1>10. Watched'
  <2>1. CASE UNCHANGED <<repl_state, hb>>
    BY <1>1, <1>6, <2>1 DEF Watched
  <2>2. CASE s = "backup" /\ hb' = [hb EXCEPT ![t] = Loop("spawned")]
    BY <1>1, <2>2 DEF Watched, Loop
  <2>3. CASE s # "backup" /\ hb' = hb /\ repl_state' = [repl_state EXCEPT ![s] = "Normal"]
    BY <1>1, <1>6, <2>3 DEF Watched
  <2> QED
    BY <1>5, <2>1, <2>2, <2>3
<1>11. \A r \in Server : ~ Up(r)' => r_pc'[r] = "off"
  BY <1>1, <1>6, <1>7, Processes
<1> QED
  BY <1>1, <1>3, <1>4, <1>6, <1>7, <1>8, <1>9, <1>10, <1>11, Types, EventTypes, Frame

LEMMA StartStep ==
  ASSUME IInv, NEW s \in Server, Start(s)
  PROVE  IInv'
<1>1. /\ TypeOK /\ Watched
      /\ repl_state \in [Server -> {"Down", "Recovering", "Normal", "Standalone"}]
      /\ r_pc \in [Server -> {"off", "begin", "trigger", "wait", "done"}]
  BY Types DEF IInv
<1>2. /\ ~ Up(s) /\ repl_state' = [repl_state EXCEPT ![s] = "Recovering"]
      /\ r_pc' = [r_pc EXCEPT ![s] = "begin"]
      /\ UNCHANGED <<stateMutex, deaths, recovery, syncers, iter, hb, wr, events>>
  BY DEF Start
<1>3. \A r \in Server : ~ Up(r)' => r_pc'[r] = "off"
  BY <1>1, <1>2, Processes DEF Up
<1>4. \A r \in Server : InService(r) => InService(r)'
  BY <1>1, <1>2 DEF InService, Up
<1>5. \A t \in Attempt : /\ Finishing(t) => Finishing(t)'
                         /\ SyncRunning(t)' => SyncRunning(t)
                         /\ sync[t].pc = "none" => sync'[t].pc = "none"
  BY <1>2 DEF Finishing, SyncRunning, syncers
<1>6. Watched'
  BY <1>1, <1>2 DEF Watched
<1>7. /\ repl_state' \in [Server -> {"Down", "Recovering", "Normal", "Standalone"}]
      /\ r_pc' \in [Server -> {"off", "begin", "trigger", "wait", "done"}]
  BY <1>1, <1>2
<1> QED
  BY <1>1, <1>2, <1>3, <1>4, <1>5, <1>6, <1>7, Types, EventTypes, Frame DEF syncers

LEMMA TimerSteps ==
  ASSUME IInv, NEW s \in Server, Timeout(s) \/ ConfirmRecovery(s)
  PROVE  IInv'
<1>1. TypeOK /\ Watched /\ r_pc \in [Server -> {"off", "begin", "trigger", "wait", "done"}]
  BY Types DEF IInv
<1>2. /\ r_pc[s] = "wait" /\ \E pc \in {"begin", "done"} : r_pc' = [r_pc EXCEPT ![s] = pc]
      /\ UNCHANGED <<procs, recovery, syncers, iter, hb, wr, events>>
  BY DEF Timeout, ConfirmRecovery
<1>3. \A r \in Server : ~ Up(r)' => r_pc'[r] = "off"
  <2>1. Up(s) /\ \A r \in Server : Up(r)' <=> Up(r)
    BY <1>1, <1>2, Processes DEF Up, procs
  <2> QED
    BY <1>1, <1>2, <2>1, Processes
<1>4. \A r \in Server : InService(r) => InService(r)'
  BY <1>2 DEF InService, procs
<1>5. \A t \in Attempt : /\ Finishing(t) => Finishing(t)'
                         /\ SyncRunning(t)' => SyncRunning(t)
                         /\ sync[t].pc = "none" => sync'[t].pc = "none"
  BY <1>2 DEF Finishing, SyncRunning, syncers
<1>6. Watched'
  BY <1>1, <1>2 DEF Watched, procs
<1>7. r_pc' \in [Server -> {"off", "begin", "trigger", "wait", "done"}]
  BY <1>1, <1>2
<1> QED
  BY <1>1, <1>2, <1>3, <1>4, <1>5, <1>6, <1>7, Types, EventTypes, Frame DEF procs, syncers

LEMMA TriggerStep ==
  ASSUME IInv, NEW t \in Attempt, TriggerSync(t), UNCHANGED deaths
  PROVE  IInv'
<1> DEFINE h == Host(t)  s == requester[t]
<1>1. /\ TypeOK /\ Watched /\ h \in Server /\ s \in Server
      /\ repl_state \in [Server -> {"Down", "Recovering", "Normal", "Standalone"}]
      /\ r_pc \in [Server -> {"off", "begin", "trigger", "wait", "done"}]
      /\ sync \in [Attempt -> SyncRecord]
  BY Types, Hosting DEF IInv
<1>2. ~ Exit(h, "both recovering")
  BY <1>1, DieCounts DEF Exit
<1>3. /\ sync[t].pc = "trigger" /\ InService(h)
      /\ repl_state' = [repl_state EXCEPT ![h] = "Standalone"]
      /\ sync' = [sync EXCEPT ![t] = Thread("deliver")]
      /\ r_pc' = IF r_pc[s] = "trigger" /\ recovery[s].sync_id = t
                 THEN [r_pc EXCEPT ![s] = "wait"] ELSE r_pc
      /\ UNCHANGED <<stateMutex, deaths, recovery, attempt, requester, iter, hb, wr>>
      /\ events' \subseteq Events
  BY <1>1, <1>2, EventTypes DEF TriggerSync, InService, GiveUp, Events
<1>4. /\ repl_state' \in [Server -> {"Down", "Recovering", "Normal", "Standalone"}]
      /\ r_pc' \in [Server -> {"off", "begin", "trigger", "wait", "done"}]
      /\ sync' \in [Attempt -> SyncRecord]
  BY <1>1, <1>3, ThreadTypes
<1>5. \A r \in Server : ~ Up(r)' => r_pc'[r] = "off"
  <2>1. \A r \in Server : Up(r)' <=> Up(r)
    BY <1>1, <1>3 DEF Up, InService
  <2>2. r_pc[s] = "trigger" => Up(s)
    BY <1>1, Processes
  <2> QED
    BY <1>1, <1>3, <2>1, <2>2, Processes
<1>6. \A r \in Server : InService(r) => InService(r)'
  BY <1>1, <1>3 DEF InService
<1>7. \A u \in Attempt : /\ Finishing(u) => Finishing(u)'
                         /\ SyncRunning(u)' => SyncRunning(u) \/ InService(Host(u))
                         /\ sync[u].pc = "none" => sync'[u].pc = "none"
  <2>1. \A u \in Attempt : u # t => sync'[u] = sync[u]
    BY <1>1, <1>3
  <2> QED
    BY <1>3, <2>1 DEF Finishing, SyncRunning
<1>8. Watched'
  BY <1>1, <1>3 DEF Watched
<1> QED
  BY <1>1, <1>3, <1>4, <1>5, <1>6, <1>7, <1>8, Types, EventTypes, Frame

----------------------------------------------------------------------------
(***************************************************************************)
(* The steps that draw an id, take the lock and release it.                *)
(***************************************************************************)

LEMMA BeginStep ==
  ASSUME IInv, NEW s \in Server, BeginAttempt(s)
  PROVE  IInv'
<1> DEFINE t == attempt + 1
<1>1. /\ TypeOK /\ Watched
      /\ r_pc \in [Server -> {"off", "begin", "trigger", "wait", "done"}]
      /\ recovery \in [Server -> [sync_id : 0..MaxAttempts, done : BOOLEAN]]
      /\ attempt \in 0..MaxAttempts /\ requester \in [Attempt -> Server]
      /\ sync \in [Attempt -> SyncRecord]
  BY Types DEF IInv
<1>2. /\ r_pc[s] = "begin" /\ attempt < MaxAttempts /\ attempt' = t
      /\ recovery' = [recovery EXCEPT ![s] = FreshRecovery(t)]
      /\ requester' = [requester EXCEPT ![t] = s]
      /\ sync' = [sync EXCEPT ![t] = CallTo(Other(s), "trigger")]
      /\ r_pc' = [r_pc EXCEPT ![s] = "trigger"]
      /\ UNCHANGED <<repl_state, stateMutex, deaths, iter, hb, wr, events>>
  BY DEF BeginAttempt, procs
<1>3. t \in Attempt /\ t \in 0..MaxAttempts /\ t > attempt
  BY <1>1, <1>2, Bounds DEF Attempt
<1>4. sync[t].pc = "none"
  BY <1>3 DEF IInv, IdsInOrder
<1>5. sync'[t].pc = "trigger" /\ \A u \in Attempt : u # t => sync'[u] = sync[u] /\ requester'[u] = requester[u]
  BY <1>1, <1>2, <1>3 DEF CallTo
<1>6. TypeOK'
  <2>1. sync' \in [Attempt -> SyncRecord]
    <3>1. CallTo(Other(s), "trigger") \in SyncRecord
      BY <1>1, Others, CallTypes
    <3> QED
      BY <1>1, <1>2, <3>1
  <2>2. recovery' \in [Server -> [sync_id : 0..MaxAttempts, done : BOOLEAN]]
    <3>1. FreshRecovery(t) \in [sync_id : 0..MaxAttempts, done : BOOLEAN]
      BY <1>3, ThreadTypes
    <3> QED
      BY <1>1, <1>2, <3>1
  <2>3. /\ requester' \in [Attempt -> Server] /\ attempt' \in 0..MaxAttempts
        /\ r_pc' \in [Server -> {"off", "begin", "trigger", "wait", "done"}]
    BY <1>1, <1>2, <1>3
  <2>4. \A r \in Server : (stateMutex[r] # 0 => Host(stateMutex[r]) = r /\ Finishing(stateMutex[r]))'
    <3> SUFFICES ASSUME NEW r \in Server, stateMutex[r] # 0
                 PROVE  (Host(stateMutex[r]) = r /\ Finishing(stateMutex[r]))'
      BY <1>2
    <3>1. stateMutex[r] \in Attempt /\ Host(stateMutex[r]) = r /\ Finishing(stateMutex[r])
      BY <1>1, Processes
    <3>2. stateMutex[r] # t
      BY <1>4, <3>1 DEF Finishing
    <3> QED
      BY <1>2, <1>5, <3>1, <3>2 DEF Host, Finishing
  <2>5. \A r \in Server : ~ Up(r)' => r_pc'[r] = "off"
    <3>1. Up(s) /\ \A r \in Server : Up(r)' <=> Up(r)
      BY <1>1, <1>2, Processes DEF Up
    <3> QED
      BY <1>1, <1>2, <3>1, Processes
  <2>6. /\ repl_state' \in [Server -> {"Down", "Recovering", "Normal", "Standalone"}]
        /\ stateMutex' \in [Server -> 0..MaxAttempts] /\ deaths' \in [Server -> Nat]
        /\ hb' \in [Attempt -> HbRecord] /\ wr' \in [Writer -> WrRecord] /\ iter' \in Nat
    BY <1>1, <1>2, Types
  <2>7. events' \subseteq Events
    BY <1>1, <1>2 DEF TypeOK, Events
  <2> QED
    BY <2>1, <2>2, <2>3, <2>4, <2>5, <2>6, <2>7
       DEF TypeOK, Finishing, SyncRecord, HbRecord, WrRecord, Events
<1>7. IdsInOrder'
  <2> SUFFICES ASSUME NEW u \in Attempt, u > t PROVE sync'[u].pc = "none"
    BY <1>2 DEF IdsInOrder
  <2>1. u # t /\ u > attempt
    BY <1>1, Bounds
  <2> QED
    BY <1>5, <2>1 DEF IdsInOrder, IInv
<1>8. HelperInService'
  <2> SUFFICES ASSUME NEW u \in Attempt, SyncRunning(u)' PROVE InService(Host(u))'
    BY DEF HelperInService
  <2>1. u # t /\ SyncRunning(u)
    BY <1>5 DEF SyncRunning
  <2> QED
    BY <1>2, <1>5, <2>1 DEF HelperInService, IInv, InService, Host
<1>9. Watched'
  BY <1>1, <1>2 DEF Watched
<1> QED
  BY <1>6, <1>7, <1>8, <1>9 DEF IInv

LEMMA SendFinishStep ==
  ASSUME IInv, NEW t \in Attempt, SendFinish(t)
  PROVE  IInv'
<1> DEFINE h == Host(t)  s == requester[t]
<1>1. /\ TypeOK /\ Watched /\ h \in Server /\ s \in Server /\ h # s /\ s = Other(h)
      /\ stateMutex \in [Server -> 0..MaxAttempts]
      /\ sync \in [Attempt -> SyncRecord]
  BY Types, Hosting DEF IInv
<1>2. /\ sync[t].pc = "deliver" /\ stateMutex[h] = 0
      /\ UNCHANGED <<repl_state, deaths, recovers, attempt, requester, iter, hb, wr, events>>
  BY DEF SendFinish, CanLock
<1>3. sync'[t].pc = "finish" /\ stateMutex' = [stateMutex EXCEPT ![h] = t]
  BY <1>1 DEF SendFinish, CallTo, KeepLock
<1>4. sync' \in [Attempt -> SyncRecord] /\ \A u \in Attempt : u # t => sync'[u] = sync[u]
  BY <1>1, CallTypes DEF SendFinish
<1>5. \A u \in Attempt : /\ Finishing(u) => Finishing(u)'
                         /\ SyncRunning(u)' => SyncRunning(u)
                         /\ sync[u].pc = "none" => sync'[u].pc = "none"
  BY <1>2, <1>3, <1>4 DEF Finishing, SyncRunning
<1>6. \A r \in Server : (stateMutex[r] # 0 => Host(stateMutex[r]) = r /\ Finishing(stateMutex[r]))'
  <2> SUFFICES ASSUME NEW r \in Server, stateMutex'[r] # 0
               PROVE  (Host(stateMutex[r]) = r /\ Finishing(stateMutex[r]))'
    OBVIOUS
  <2>1. CASE stateMutex'[r] = stateMutex[r]
    <3>1. stateMutex[r] \in Attempt /\ Host(stateMutex[r]) = r /\ Finishing(stateMutex[r])
      BY <1>1, <2>1, Processes
    <3> QED
      BY <1>2, <1>5, <2>1, <3>1 DEF Host, Finishing
  <2>2. CASE stateMutex'[r] # stateMutex[r]
    <3>1. r = h /\ stateMutex'[r] = t /\ sync'[t].pc = "finish"
      BY <1>1, <1>3, <2>2
    <3> QED
      BY <1>1, <1>2, <3>1 DEF Host, Finishing
  <2> QED
    BY <2>1, <2>2
<1>7. TypeOK'
  <2>1. stateMutex' \in [Server -> 0..MaxAttempts]
    BY <1>1, <1>3, Bounds
  <2>2. /\ repl_state' \in [Server -> {"Down", "Recovering", "Normal", "Standalone"}]
        /\ deaths' \in [Server -> Nat] /\ attempt' \in 0..MaxAttempts
        /\ r_pc' \in [Server -> {"off", "begin", "trigger", "wait", "done"}]
        /\ recovery' \in [Server -> [sync_id : 0..MaxAttempts, done : BOOLEAN]]
        /\ requester' \in [Attempt -> Server] /\ hb' \in [Attempt -> HbRecord]
        /\ wr' \in [Writer -> WrRecord] /\ iter' \in Nat
    BY <1>1, <1>2, Types DEF recovers
  <2>3. events' \subseteq Events /\ \A r \in Server : ~ Up(r)' => r_pc'[r] = "off"
    BY <1>1, <1>2 DEF TypeOK, Events, recovers, Up
  <2> QED
    BY <1>4, <1>6, <2>1, <2>2, <2>3
       DEF TypeOK, Finishing, SyncRecord, HbRecord, WrRecord, Events
<1>8. IdsInOrder'
  BY <1>2, <1>5 DEF IdsInOrder, IInv
<1>9. HelperInService'
  BY <1>2, <1>5 DEF HelperInService, IInv, SyncRunning, InService, Host
<1>10. Watched'
  BY <1>1, <1>2 DEF Watched
<1> QED
  BY <1>7, <1>8, <1>9, <1>10 DEF IInv

LEMMA RejectedStep ==
  ASSUME IInv, NEW t \in Attempt, SyncRejected(t)
  PROVE  IInv'
<1>1. TypeOK /\ Watched /\ sync \in [Attempt -> SyncRecord] /\ sync[t].pc = "deliver"
  BY Types DEF IInv, SyncRejected
<1>2. /\ sync' = [sync EXCEPT ![t] = Thread("over")] /\ sync' \in [Attempt -> SyncRecord]
      /\ UNCHANGED <<procs, recovers, attempt, requester, iter, hb, wr, events>>
  BY <1>1, ThreadTypes DEF SyncRejected
<1>3. sync'[t].pc = "over" /\ \A u \in Attempt : u # t => sync'[u] = sync[u]
  BY <1>1, <1>2 DEF Thread
<1>4. \A u \in Attempt : /\ Finishing(u) => Finishing(u)'
                         /\ SyncRunning(u)' => SyncRunning(u)
                         /\ sync[u].pc = "none" => sync'[u].pc = "none"
  BY <1>1, <1>3 DEF Finishing, SyncRunning
<1>5. /\ \A s \in Server : ~ Up(s)' => r_pc'[s] = "off"
      /\ \A s \in Server : InService(s) => InService(s)'
  BY <1>1, <1>2, Processes DEF Up, InService, procs, recovers
<1>6. Watched'
  BY <1>1, <1>2 DEF Watched, procs
<1> QED
  BY <1>1, <1>2, <1>4, <1>5, <1>6, Types, EventTypes, Frame DEF procs, recovers

LEMMA AnsweredStep ==
  ASSUME IInv, NEW t \in Attempt, FinishAnswered(t)
  PROVE  IInv'
<1> DEFINE h == Host(t)
<1>1. /\ TypeOK /\ Watched /\ h \in Server
      /\ stateMutex \in [Server -> 0..MaxAttempts]
      /\ repl_state \in [Server -> {"Down", "Recovering", "Normal", "Standalone"}]
      /\ sync \in [Attempt -> SyncRecord] /\ hb \in [Attempt -> HbRecord]
  BY Types, Hosting DEF IInv
<1>2. /\ Finishing(t) /\ sync' = [sync EXCEPT ![t] = Thread("over")]
      /\ stateMutex' = [stateMutex EXCEPT ![h] = 0]
      /\ UNCHANGED <<deaths, recovers, attempt, requester, iter, wr, events>>
  BY DEF FinishAnswered, ReleaseLock, Finishing
<1>3. \/ UNCHANGED <<repl_state, hb>>
      \/ /\ repl_state' = [repl_state EXCEPT ![h] = "Normal"]
         /\ hb' = IF h = "backup" THEN [hb EXCEPT ![t] = Loop("spawned")] ELSE hb
  BY DEF FinishAnswered, HandlePartnerRecovered
<1>4. /\ sync' \in [Attempt -> SyncRecord] /\ sync'[t].pc = "over"
      /\ \A u \in Attempt : u # t => sync'[u] = sync[u]
  BY <1>1, <1>2, ThreadTypes DEF Thread
<1>5. InService(h)
  BY <1>2 DEF Finishing, SyncRunning, HelperInService, IInv
<1>6. /\ repl_state' \in [Server -> {"Down", "Recovering", "Normal", "Standalone"}]
      /\ \A r \in Server : InService(r) => InService(r)'
      /\ \A r \in Server : Up(r)' <=> Up(r)
  BY <1>1, <1>3, <1>5 DEF InService, Up
<1>7. \A r \in Server : (stateMutex[r] # 0 => Host(stateMutex[r]) = r /\ Finishing(stateMutex[r]))'
  <2> SUFFICES ASSUME NEW r \in Server, stateMutex'[r] # 0
               PROVE  (Host(stateMutex[r]) = r /\ Finishing(stateMutex[r]))'
    OBVIOUS
  <2>1. r # h /\ stateMutex'[r] = stateMutex[r]
    BY <1>1, <1>2
  <2>2. stateMutex[r] \in Attempt /\ Host(stateMutex[r]) = r /\ Finishing(stateMutex[r])
    BY <1>1, <2>1, Processes
  <2> QED
    BY <1>2, <1>4, <2>1, <2>2 DEF Host, Finishing
<1>8. TypeOK'
  <2>1. stateMutex' \in [Server -> 0..MaxAttempts]
    BY <1>1, <1>2, Bounds
  <2>2. hb' \in [Attempt -> HbRecord]
    BY <1>1, <1>3, ThreadTypes
  <2>3. /\ deaths' \in [Server -> Nat] /\ attempt' \in 0..MaxAttempts
        /\ r_pc' \in [Server -> {"off", "begin", "trigger", "wait", "done"}]
        /\ recovery' \in [Server -> [sync_id : 0..MaxAttempts, done : BOOLEAN]]
        /\ requester' \in [Attempt -> Server]
        /\ wr' \in [Writer -> WrRecord] /\ iter' \in Nat
    BY <1>1, <1>2, Types DEF recovers
  <2>4. events' \subseteq Events
    BY <1>1, <1>2 DEF TypeOK, Events
  <2>5. \A r \in Server : ~ Up(r)' => r_pc'[r] = "off"
    BY <1>1, <1>2, <1>6, Processes DEF recovers
  <2> QED
    BY <1>4, <1>6, <1>7, <2>1, <2>2, <2>3, <2>4, <2>5
       DEF TypeOK, Finishing, SyncRecord, HbRecord, WrRecord, Events
<1>9. IdsInOrder'
  BY <1>2, <1>4 DEF IdsInOrder, IInv, Finishing
<1>10. HelperInService'
  <2> SUFFICES ASSUME NEW u \in Attempt, SyncRunning(u)' PROVE InService(Host(u))'
    BY DEF HelperInService
  <2>1. SyncRunning(u) /\ Host(u)' = Host(u) /\ Host(u) \in Server
    BY <1>1, <1>2, <1>4, Hosting DEF SyncRunning, Host
  <2> QED
    BY <1>6, <2>1 DEF HelperInService, IInv, InService
<1>11. Watched'
  <2>1. CASE UNCHANGED <<repl_state, hb>>
    BY <1>1, <1>2, <2>1 DEF Watched
  <2>2. CASE h = "backup" /\ hb' = [hb EXCEPT ![t] = Loop("spawned")]
    BY <1>1, <2>2 DEF Watched, Loop
  <2>3. CASE h # "backup" /\ hb' = hb /\ repl_state' = [repl_state EXCEPT ![h] = "Normal"]
    BY <1>1, <1>2, <2>3 DEF Watched
  <2> QED
    BY <1>3, <2>1, <2>2, <2>3
<1> QED
  BY <1>8, <1>9, <1>10, <1>11 DEF IInv

----------------------------------------------------------------------------
(***************************************************************************)
(* The theorems.                                                           *)
(***************************************************************************)

LEMMA InitInv == Init => IInv
<1> SUFFICES ASSUME Init PROVE IInv
  OBVIOUS
<1>1. TypeOK
  BY Bounds DEF Init, TypeOK, Thread, Loop, FreshRecovery, Up, Server
<1>2. IdsInOrder /\ HelperInService
  BY DEF Init, IdsInOrder, HelperInService, SyncRunning, Thread
<1>3. Watched
  BY DEF Init, Watched, Server
<1> QED
  BY <1>1, <1>2, <1>3 DEF IInv

LEMMA NextInv == IInv /\ [Next]_vars => IInv'
<1> SUFFICES ASSUME IInv, [Next]_vars PROVE IInv'
  OBVIOUS
<1>1. TypeOK /\ events \subseteq Events
  BY DEF IInv, TypeOK, Events
<1>2. ASSUME NEW s \in Server, Crash(s) PROVE IInv'
  BY <1>1, <1>2, DieStep DEF Crash
<1>3. ASSUME NEW s \in Server, Start(s) PROVE IInv'
  BY <1>3, StartStep
<1>4. ASSUME NEW s \in Server, RecoverStep(s) PROVE IInv'
  <2>1. CASE TriggerFails(s)
    BY <1>1, <2>1, DieStep DEF TriggerFails, Exit, Events
  <2> QED
    BY <1>4, <2>1, BeginStep, TimerSteps DEF RecoverStep
<1>5. ASSUME NEW t \in Attempt, SyncStep(t) PROVE IInv'
  <2>1. CASE TriggerSync(t)
    <3>1. CASE Exit(Host(t), "both recovering")
      <4>1. Host(t) \in Server /\ events' \subseteq Events
        BY <1>1, <3>1, Hosting DEF Exit, Events
      <4> QED
        BY <3>1, <4>1, DieStep DEF Exit
    <3>2. CASE UNCHANGED deaths
      BY <2>1, <3>2, TriggerStep
    <3> QED
      BY <2>1, <3>1, <3>2 DEF TriggerSync
  <2> QED
    BY <1>5, <2>1, SendFinishStep, RejectedStep, SyncSteps, AnsweredStep DEF SyncStep
<1>6. ASSUME NEW t \in Attempt, HbStep(t) PROVE IInv'
  <2>1. CASE Heartbeat(t)
    <3>1. CASE Exit("primary", "heartbeat in Standalone")
      BY <1>1, <3>1, DieStep DEF Exit, Events, Server
    <3> QED
      BY <2>1, <3>1, HeartbeatSteps DEF Heartbeat
  <2>2. CASE HbGivesUp(t)
    <3>1. hb' \in [Attempt -> HbRecord]
      BY <1>1, <2>2, Types, ThreadTypes DEF HbGivesUp
    <3> QED
      BY <1>1, <2>2, <3>1, GiveUpSteps, Types DEF HbGivesUp, GiveUp, Events, Server
  <2> QED
    BY <1>6, <2>1, <2>2, HeartbeatSteps DEF HbStep
<1>7. ASSUME NEW w \in Writer, CallBackup(w) \/ WriteStep(w) PROVE IInv'
  <2>1. CASE BackupWrite(w)
    <3>1. CASE Exit("backup", "BackupWrite in Standalone")
      BY <1>1, <3>1, DieStep DEF Exit, Events, Server
    <3> QED
      BY <2>1, <3>1, WriteSteps DEF BackupWrite
  <2>2. CASE AssumePartnerDown(w)
    <3>1. wr' \in [Writer -> WrRecord]
      BY <1>1, <2>2, Types, ThreadTypes DEF AssumePartnerDown
    <3> QED
      BY <1>1, <2>2, <3>1, GiveUpSteps, Types DEF AssumePartnerDown, GiveUp, Events, Server
  <2> QED
    BY <1>7, <2>1, <2>2, WriteSteps DEF WriteStep
<1>8. CASE UNCHANGED vars
  BY <1>8 DEF vars, procs, recovers, syncers, IInv, TypeOK, IdsInOrder, HelperInService,
              Watched, Up, Host, SyncRunning, InService
<1> QED
  BY <1>2, <1>3, <1>4, <1>5, <1>6, <1>7, <1>8 DEF Next

\* The invariant that the theorems rest on.
THEOREM Invariance == Spec => []IInv
BY InitInv, NextInv, PTL DEF Spec

\* The state always has the shape that the code's types and lock scopes give
\* it; a held lock belongs to a live sync thread at its FinishSync.
THEOREM TypeCorrect == Spec => []TypeOK
<1>1. IInv => TypeOK
  BY DEF IInv
<1> QED
  BY <1>1, Invariance, PTL

\* A backup in Normal always has a heartbeat loop that will not stop as
\* replaced, however many loops its recoveries have started
\* (HeartbeatHelper.cc lines 55-72).
THEOREM AlwaysWatched == Spec => []Watched
<1>1. IInv => Watched
  BY DEF IInv
<1> QED
  BY <1>1, Invariance, PTL
=============================================================================
