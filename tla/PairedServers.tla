---------------------------- MODULE PairedServers ----------------------------
(***************************************************************************)
(* The two servers as processes that crash, exit and restart: the states   *)
(* of PairedServer, the recovery of either server by the other, the        *)
(* backup's heartbeat loops and the primary's BackupWrite calls.  Which    *)
(* server answers clients follows from the states; data is left to Resync, *)
(* whose loop over the dirty list is one step here (SendFinish).           *)
(*                                                                         *)
(* A sync id numbers a recovery attempt of either server, the thread that  *)
(* answers it at the other server, and the heartbeat loop that its success *)
(* starts: each exists once per id.  An RPC in flight is the program       *)
(* counter of its caller with the incarnation it was sent to; when that    *)
(* incarnation is gone the call fails.  When its caller is gone it is an   *)
(* orphan: it may still be handled, and nobody waits for the answer.       *)
(*                                                                         *)
(* events records which of the servers' exit(1) calls have been made, and  *)
(* that a server has put itself in Standalone, on a failed or late call,   *)
(* while the other one is in service ("misjudged"): nothing in the code     *)
(* keeps a failure from being handled long after it was one.               *)
(*                                                                         *)
(* Prompt = FALSE puts no limit on how long a call or the handling of its  *)
(* result takes.  Prompt = TRUE assumes two things of timers and network:  *)
(* the recovery timer fires only once the sync is over, and a request dies *)
(* with its sender.  How long a handler takes is open all the same.        *)
(*                                                                         *)
(* OneAtATime = TRUE is the fault model of report.pdf: a server crashes    *)
(* only while the other one is healthy.                                    *)
(*                                                                         *)
(* Bounds: MaxAttempts (recovery attempts of both servers together),       *)
(* MaxDeaths (a server that has died that often crashes no more; its exits *)
(* are bounded by MaxAttempts).                                            *)
(***************************************************************************)
EXTENDS Integers, FiniteSets

CONSTANTS Writer, Prompt, OneAtATime, MaxAttempts, MaxDeaths

ASSUME PairedAssumption ==
  /\ Prompt \in BOOLEAN /\ OneAtATime \in BOOLEAN
  /\ MaxAttempts \in Nat /\ MaxDeaths \in Nat

VARIABLES
  repl_state,   \* per server; "Down" when there is no process
  stateMutex,   \* per server: the sync thread holding it exclusively, or 0
  deaths,       \* per server: how many incarnations are gone
  r_pc,         \* per server: its thread running Recover
  recovery,     \* per server: RecoveryState
  attempt,      \* sync ids drawn so far
  requester,    \* per sync id: the server it recovers
  sync,         \* per sync id: the thread at the other server
  iter,         \* HeartbeatHelper::iter of the backup
  hb,           \* per sync id: the heartbeat loop
  wr,           \* the primary's write handlers
  events        \* history: the exit(1) calls made, and "misjudged"

procs    == <<repl_state, stateMutex, deaths>>
recovers == <<r_pc, recovery>>
syncers  == <<attempt, requester, sync>>
vars == <<procs, recovers, syncers, iter, hb, wr, events>>

Server  == {"primary", "backup"}
Attempt == 1..MaxAttempts
Other(s) == IF s = "primary" THEN "backup" ELSE "primary"
Host(t)  == Other(requester[t])

\* A thread: where it is, and the incarnation its call was sent to; for a
\* heartbeat loop also its my_iter.
Thread(pc) == [pc |-> pc, to |-> 0]
Loop(pc)   == [pc |-> pc, to |-> 0, my_iter |-> 0]

FreshRecovery(id) == [sync_id |-> id, done |-> FALSE]
Up(s) == repl_state[s] # "Down"
InService(s) == repl_state[s] \in {"Normal", "Standalone"}

\* A call sent to incarnation n of s has lost its receiver.
Lost(s, n) == ~ Up(s) \/ deaths[s] # n

\* stateMutex of s can be taken in shared mode, or exclusively: all shared
\* holders at this level hold it for one step only.
CanLock(s) == stateMutex[s] = 0

----------------------------------------------------------------------------
Init ==
  /\ repl_state = [s \in Server |-> IF s = "primary" THEN "Standalone" ELSE "Down"]
  /\ stateMutex = [s \in Server |-> 0]
  /\ deaths = [s \in Server |-> 0]
  /\ r_pc = [s \in Server |-> "off"]
  /\ recovery = [s \in Server |-> FreshRecovery(0)]
  /\ attempt = 0
  /\ requester = [t \in Attempt |-> "backup"]
  /\ sync = [t \in Attempt |-> Thread("none")]
  /\ iter = 0
  /\ hb = [t \in Attempt |-> Loop("none")]
  /\ wr = [w \in Writer |-> Thread("idle")]
  /\ events = {}

----------------------------------------------------------------------------
(***************************************************************************)
(* The end of a process, with every thread in it.                          *)
(***************************************************************************)

SyncRunning(t) == sync[t].pc \in {"deliver", "finish", "finish_ok", "finish_failed"}
HbRunning(t)   == hb[t].pc \in {"spawned", "call", "ok", "failed"}

\* What becomes of a thread at the death of its server: a call it was waiting
\* for may become an orphan.
Killed(thread, calling, ended) ==
  IF thread.pc = calling /\ ~ Prompt THEN [thread EXCEPT !.pc = "orphan"] ELSE ended

Die(s) ==
  /\ repl_state' = [repl_state EXCEPT ![s] = "Down"]
  /\ stateMutex' = [stateMutex EXCEPT ![s] = 0]
  /\ deaths' = [deaths EXCEPT ![s] = @ + 1]
  /\ r_pc' = [r_pc EXCEPT ![s] = "off"]
  /\ recovery' = [recovery EXCEPT ![s] = FreshRecovery(0)]
  /\ sync' = [t \in Attempt |->
       IF SyncRunning(t) /\ Host(t) = s THEN Killed(sync[t], "finish", Thread("over"))
       ELSE IF Prompt /\ sync[t].pc = "trigger" /\ requester[t] = s THEN Thread("over")
       ELSE sync[t]]
  /\ hb' = [t \in Attempt |->
       IF s = "backup" /\ HbRunning(t) THEN Killed(hb[t], "call", Loop("over")) ELSE hb[t]]
  /\ iter' = IF s = "backup" THEN 0 ELSE iter
  /\ wr' = [w \in Writer |->
       IF s = "primary" /\ wr[w].pc # "orphan"
       THEN Killed(wr[w], "call", Thread("idle")) ELSE wr[w]]
  /\ UNCHANGED <<attempt, requester>>

\* A crash, from outside or at a crash point.
Crash(s) ==
  /\ Up(s) /\ deaths[s] < MaxDeaths
  /\ OneAtATime => repl_state[Other(s)] \in {"Normal", "Standalone"}
  /\ Die(s)
  /\ UNCHANGED events

Exit(s, why) == Die(s) /\ events' = events \union {why}

\* The backup pings the primary until it answers.
PingOnce(s) == s = "backup" => Up("primary")

\* main: a restarted primary gets --recover; the backup always starts as
\* Recovering, once PingOnce has found the primary.
Start(s) ==
  /\ ~ Up(s)
  /\ PingOnce(s)
  /\ repl_state' = [repl_state EXCEPT ![s] = "Recovering"]
  /\ r_pc' = [r_pc EXCEPT ![s] = "begin"]
  /\ UNCHANGED <<stateMutex, deaths, recovery, syncers, iter, hb, wr, events>>

----------------------------------------------------------------------------
(***************************************************************************)
(* Calls.  A call to a server that is down is sent to no incarnation.      *)
(***************************************************************************)
Incarnation(s) == IF Up(s) THEN deaths[s] ELSE -1
CallTo(s, pc)  == [pc |-> pc, to |-> Incarnation(s)]

\* A server goes on without s, which is in service if the news of it is old.
GiveUp(s) == events' = IF InService(s) THEN events \union {"misjudged"} ELSE events

\* Answered or lost, a call takes its caller to pc, unless the caller is gone.
Return(thread, pc, ended) ==
  IF thread.pc = "orphan" THEN ended ELSE [thread EXCEPT !.pc = pc]

----------------------------------------------------------------------------
(***************************************************************************)
(* Recover, at a recovering server.                                        *)
(***************************************************************************)

\* A new sync id, and TriggerSync with it.
BeginAttempt(s) ==
  /\ r_pc[s] = "begin" /\ attempt < MaxAttempts
  /\ attempt' = attempt + 1
  /\ recovery' = [recovery EXCEPT ![s] = FreshRecovery(attempt + 1)]
  /\ requester' = [requester EXCEPT ![attempt + 1] = s]
  /\ sync' = [sync EXCEPT ![attempt + 1] = CallTo(Other(s), "trigger")]
  /\ r_pc' = [r_pc EXCEPT ![s] = "trigger"]
  /\ UNCHANGED <<procs, iter, hb, wr, events>>

\* "Unable to start recovery process": the other server is not available.
TriggerFails(s) ==
  /\ r_pc[s] = "trigger"
  /\ Lost(Other(s), sync[recovery[s].sync_id].to)
  /\ Exit(s, "recovering alone")

\* The recovery timer fires although recovery.done may become TRUE any time.
\* Mutation TimerFires_Always: a block received does not renew last_progress, so
\* a long sync is taken for a dead one.
TimerFires_Always(s) == TRUE
TimerFires(s) == Prompt => sync[recovery[s].sync_id].pc = "over"
Timeout(s) ==
  /\ r_pc[s] = "wait" /\ ~ recovery[s].done
  /\ TimerFires(s)
  /\ r_pc' = [r_pc EXCEPT ![s] = "begin"]
  /\ UNCHANGED <<procs, recovery, syncers, iter, hb, wr, events>>

ConfirmRecovery(s) ==
  /\ r_pc[s] = "wait" /\ recovery[s].done
  /\ r_pc' = [r_pc EXCEPT ![s] = "done"]
  /\ UNCHANGED <<procs, recovery, syncers, iter, hb, wr, events>>

----------------------------------------------------------------------------
(***************************************************************************)
(* TriggerSync and the sync thread, at the other server.                   *)
(***************************************************************************)

TriggerSync(t) ==
  LET h == Host(t)  s == requester[t] IN
  /\ sync[t].pc = "trigger" /\ ~ Lost(h, sync[t].to) /\ CanLock(h)
  /\ \/ /\ repl_state[h] = "Recovering"
        /\ Exit(h, "both recovering")
     \/ /\ repl_state[h] \in {"Normal", "Standalone"}
        /\ repl_state' = [repl_state EXCEPT ![h] = "Standalone"]
        /\ sync' = [sync EXCEPT ![t] = Thread("deliver")]
        /\ r_pc' = IF r_pc[s] = "trigger" /\ recovery[s].sync_id = t
                   THEN [r_pc EXCEPT ![s] = "wait"] ELSE r_pc
        /\ GiveUp(s)
        /\ UNCHANGED <<stateMutex, deaths, recovery, attempt, requester, iter, hb, wr>>

\* The state and sync id checks of SyncBlock and FinishSync.
CurrentSync(t) ==
  LET s == requester[t] IN repl_state[s] = "Recovering" /\ recovery[s].sync_id = t

\* The loop of TryPerformSync ends at the end of the dirty list, which may be
\* empty: FinishSync is sent, with the lock held, whatever the partner is doing.
\* Mutation KeepLock_Dropped: the lock is released before FinishSync is sent.
KeepLock_Dropped(h, t) == UNCHANGED stateMutex
KeepLock(h, t) == stateMutex' = [stateMutex EXCEPT ![h] = t]
SendFinish(t) ==
  /\ sync[t].pc = "deliver" /\ CanLock(Host(t))
  /\ KeepLock(Host(t), t)
  /\ sync' = [sync EXCEPT ![t] = CallTo(requester[t], "finish")]
  /\ UNCHANGED <<repl_state, deaths, recovers, attempt, requester, iter, hb, wr, events>>

\* Or a SyncBlock call has failed; the lock is not held.
SyncRejected(t) ==
  /\ sync[t].pc = "deliver" /\ ~ CurrentSync(t)
  /\ sync' = [sync EXCEPT ![t] = Thread("over")]
  /\ UNCHANGED <<procs, recovers, attempt, requester, iter, hb, wr, events>>

\* The FinishSync handler; the backup's starts a heartbeat loop on success.
FinishSync(t) ==
  LET s == requester[t] IN
  /\ sync[t].pc \in {"finish", "orphan"} /\ ~ Lost(s, sync[t].to) /\ CanLock(s)
  /\ \/ /\ CurrentSync(t)
        /\ repl_state' = [repl_state EXCEPT ![s] = "Normal"]
        /\ recovery' = [recovery EXCEPT ![s].done = TRUE]
        /\ sync' = [sync EXCEPT ![t] = Return(@, "finish_ok", Thread("over"))]
        /\ hb' = IF s = "backup" THEN [hb EXCEPT ![t] = Loop("spawned")] ELSE hb
     \/ /\ ~ CurrentSync(t)
        /\ sync' = [sync EXCEPT ![t] = Return(@, "finish_failed", Thread("over"))]
        /\ UNCHANGED <<repl_state, recovery, hb>>
  /\ UNCHANGED <<stateMutex, deaths, r_pc, attempt, requester, iter, wr, events>>

FinishCallFails(t) ==
  /\ sync[t].pc \in {"finish", "finish_ok", "orphan"} /\ Lost(requester[t], sync[t].to)
  /\ sync' = [sync EXCEPT ![t] = Return(@, "finish_failed", Thread("over"))]
  /\ UNCHANGED <<procs, recovers, attempt, requester, iter, hb, wr, events>>

\* HandlePartnerRecovered: the backup starts a heartbeat loop, the primary nothing.
\* Mutation HandlePartnerRecovered_Base: the empty method of PairedServer is called.
HandlePartnerRecovered_Base(h, t) == UNCHANGED hb
HandlePartnerRecovered(h, t) ==
  hb' = IF h = "backup" THEN [hb EXCEPT ![t] = Loop("spawned")] ELSE hb

\* BeginSynchronization after TryPerformSync; the lock is released either way.
\* Mutation ReleaseLock_OnSuccess: a failed FinishSync leaves the lock held.
ReleaseLock_OnSuccess(h, t) ==
  stateMutex' = IF sync[t].pc = "finish_ok" THEN [stateMutex EXCEPT ![h] = 0] ELSE stateMutex
ReleaseLock(h, t) == stateMutex' = [stateMutex EXCEPT ![h] = 0]
FinishAnswered(t) ==
  LET h == Host(t) IN
  /\ \/ /\ sync[t].pc = "finish_ok"
        /\ repl_state' = [repl_state EXCEPT ![h] = "Normal"]
        /\ HandlePartnerRecovered(h, t)
     \/ /\ sync[t].pc = "finish_failed"
        /\ UNCHANGED <<repl_state, hb>>
  /\ ReleaseLock(h, t)
  /\ sync' = [sync EXCEPT ![t] = Thread("over")]
  /\ UNCHANGED <<deaths, recovers, attempt, requester, iter, wr, events>>

----------------------------------------------------------------------------
(***************************************************************************)
(* The backup's heartbeat loops (HeartbeatHelper::Start).                  *)
(***************************************************************************)

SendHeartbeat(loop) == [loop EXCEPT !.pc = "call", !.to = Incarnation("primary")]

\* A new loop: it draws its iter and sends its first heartbeat.
HbStart(t) ==
  /\ hb[t].pc = "spawned"
  /\ iter' = iter + 1
  /\ hb' = [hb EXCEPT ![t] = SendHeartbeat([@ EXCEPT !.my_iter = iter + 1])]
  /\ UNCHANGED <<procs, recovers, syncers, wr, events>>

\* PrimaryServer::Heartbeat.
Heartbeat(t) ==
  /\ hb[t].pc \in {"call", "orphan"} /\ ~ Lost("primary", hb[t].to) /\ CanLock("primary")
  /\ \/ /\ repl_state["primary"] = "Standalone"
        /\ Exit("primary", "heartbeat in Standalone")
     \/ /\ repl_state["primary"] = "Normal"
        /\ hb' = [hb EXCEPT ![t] = Return(@, "ok", Loop("over"))]
        /\ UNCHANGED <<procs, recovers, syncers, iter, wr, events>>
     \/ /\ repl_state["primary"] = "Recovering"
        /\ hb' = [hb EXCEPT ![t] = Return(@, "failed", Loop("over"))]
        /\ UNCHANGED <<procs, recovers, syncers, iter, wr, events>>

HbCallFails(t) ==
  /\ hb[t].pc \in {"call", "orphan"} /\ Lost("primary", hb[t].to)
  /\ hb' = [hb EXCEPT ![t] = Return(@, "failed", Loop("over"))]
  /\ UNCHANGED <<procs, recovers, syncers, iter, wr, events>>

\* The loop condition after a heartbeat that went well: sleep and send the
\* next one, or stop because a newer loop runs.
\* Mutation IsNewest_Inverted: the test of iter is the wrong way round.
IsNewest_Inverted(t) == iter # hb[t].my_iter
IsNewest(t) == iter = hb[t].my_iter
HbNext(t) ==
  /\ hb[t].pc = "ok"
  /\ hb' = [hb EXCEPT ![t] = IF IsNewest(t) THEN SendHeartbeat(@) ELSE Loop("over")]
  /\ UNCHANGED <<procs, recovers, syncers, iter, wr, events>>

\* A failed heartbeat: SafeSetState(Standalone), replaced loop or not.
HbGivesUp(t) ==
  /\ hb[t].pc = "failed" /\ CanLock("backup")
  /\ repl_state' = [repl_state EXCEPT !["backup"] = "Standalone"]
  /\ hb' = [hb EXCEPT ![t] = Loop("over")]
  /\ GiveUp("primary")
  /\ UNCHANGED <<stateMutex, deaths, recovers, syncers, iter, wr>>

----------------------------------------------------------------------------
(***************************************************************************)
(* The primary's writes (Write, BackupIfPossible).                         *)
(***************************************************************************)

\* In Normal, the BackupWrite call; in Standalone a write ends in MarkDirty.
CallBackup(w) ==
  /\ wr[w].pc = "idle"
  /\ repl_state["primary"] = "Normal" /\ CanLock("primary")
  /\ wr' = [wr EXCEPT ![w] = CallTo("backup", "call")]
  /\ UNCHANGED <<procs, recovers, syncers, iter, hb, events>>

\* BackupServer::BackupWrite.
BackupWrite(w) ==
  /\ wr[w].pc \in {"call", "orphan"} /\ ~ Lost("backup", wr[w].to) /\ CanLock("backup")
  /\ \/ /\ repl_state["backup"] = "Standalone"
        /\ Exit("backup", "BackupWrite in Standalone")
     \/ /\ repl_state["backup"] = "Normal"
        /\ wr' = [wr EXCEPT ![w] = Return(@, "ok", Thread("idle"))]
        /\ UNCHANGED <<procs, recovers, syncers, iter, hb, events>>
     \/ /\ repl_state["backup"] = "Recovering"
        /\ wr' = [wr EXCEPT ![w] = Return(@, "failed", Thread("idle"))]
        /\ UNCHANGED <<procs, recovers, syncers, iter, hb, events>>

BackupWriteReturns(w) ==
  /\ wr[w].pc = "ok"
  /\ wr' = [wr EXCEPT ![w] = Thread("idle")]
  /\ UNCHANGED <<procs, recovers, syncers, iter, hb, events>>

\* The backup is gone, perhaps after storing the block.
WriteCallFails(w) ==
  /\ wr[w].pc \in {"call", "ok", "orphan"} /\ Lost("backup", wr[w].to)
  /\ wr' = [wr EXCEPT ![w] = Return(@, "failed", Thread("idle"))]
  /\ UNCHANGED <<procs, recovers, syncers, iter, hb, events>>

AssumePartnerDown(w) ==
  /\ wr[w].pc = "failed" /\ CanLock("primary")
  /\ repl_state' = [repl_state EXCEPT !["primary"] = "Standalone"]
  /\ wr' = [wr EXCEPT ![w] = Thread("idle")]
  /\ GiveUp("backup")
  /\ UNCHANGED <<stateMutex, deaths, recovers, syncers, iter, hb>>

----------------------------------------------------------------------------
RecoverStep(s) == BeginAttempt(s) \/ TriggerFails(s) \/ Timeout(s) \/ ConfirmRecovery(s)
SyncStep(t) ==
  \/ TriggerSync(t) \/ SendFinish(t) \/ SyncRejected(t)
  \/ FinishSync(t) \/ FinishCallFails(t) \/ FinishAnswered(t)
HbStep(t) == HbStart(t) \/ Heartbeat(t) \/ HbCallFails(t) \/ HbNext(t) \/ HbGivesUp(t)
WriteStep(w) ==
  BackupWrite(w) \/ BackupWriteReturns(w) \/ WriteCallFails(w) \/ AssumePartnerDown(w)

Next ==
  \/ \E s \in Server : Crash(s) \/ Start(s) \/ RecoverStep(s)
  \/ \E t \in Attempt : SyncStep(t) \/ HbStep(t)
  \/ \E w \in Writer : CallBackup(w) \/ WriteStep(w)

Spec == Init /\ [][Next]_vars

\* Threads are scheduled and calls end; crashes, client requests and restarts
\* are not forced.  Weak fairness is enough: the attempts are bounded, and with
\* them the times that a handler finds its lock taken.
Fairness ==
  /\ \A s \in Server : WF_vars(RecoverStep(s))
  /\ \A t \in Attempt : WF_vars(SyncStep(t)) /\ WF_vars(HbStep(t))
  /\ \A w \in Writer : WF_vars(WriteStep(w))
FairSpec == Spec /\ Fairness

\* With run-primary.sh and run-backup.sh, which restart the servers for ever.
RestartSpec == FairSpec /\ \A s \in Server : WF_vars(Start(s))

----------------------------------------------------------------------------
(***************************************************************************)
(* Properties.                                                             *)
(***************************************************************************)

\* The shape of the state, with what the threads may claim: a held lock
\* belongs to a live sync thread waiting for its FinishSync (PairedServer.cc
\* lines 87-93), a server without a process runs no thread (Crash.cc), and
\* only a recovering or recovered server has a Recover thread.
TypeOK ==
  /\ repl_state \in [Server -> {"Down", "Recovering", "Normal", "Standalone"}]
  /\ stateMutex \in [Server -> 0..MaxAttempts]
  /\ deaths \in [Server -> Nat]
  /\ r_pc \in [Server -> {"off", "begin", "trigger", "wait", "done"}]
  /\ recovery \in [Server -> [sync_id : 0..MaxAttempts, done : BOOLEAN]]
  /\ attempt \in 0..MaxAttempts
  /\ requester \in [Attempt -> Server]
  /\ sync \in [Attempt -> [pc : {"none", "trigger", "deliver", "finish", "finish_ok",
                                 "finish_failed", "orphan", "over"}, to : Int]]
  /\ iter \in Nat
  /\ hb \in [Attempt -> [pc : {"none", "spawned", "call", "orphan", "ok", "failed", "over"},
                         to : Int, my_iter : Nat]]
  /\ wr \in [Writer -> [pc : {"idle", "call", "orphan", "ok", "failed"}, to : Int]]
  /\ events \subseteq {"recovering alone", "both recovering", "heartbeat in Standalone",
                      "BackupWrite in Standalone", "misjudged"}
  /\ \A s \in Server : stateMutex[s] # 0 =>
       Host(stateMutex[s]) = s /\ sync[stateMutex[s]].pc \in {"finish", "finish_ok", "finish_failed"}
  /\ \A s \in Server : ~ Up(s) => r_pc[s] = "off"

\* The server would answer a client's Read or Write now (the states in which
\* PrimaryServer::Read and BackupServer::Read do not say "switch nodes").
Serves(s) ==
  /\ CanLock(s)
  /\ \/ repl_state[s] = "Standalone"
     \/ s = "primary" /\ repl_state[s] = "Normal"

\* No split brain, primary and backup answering clients at the same time, and
\* its cause.
SplitBrain == Serves("primary") /\ Serves("backup")
Misjudged  == "misjudged" \in events

\* Whatever the delays, the recovery itself never makes the two servers answer
\* clients at the same time: not while it hands the service back, when the
\* helper keeps its lock until its state has followed the partner's, and not
\* with attempts and crashes that overlap (ReplicationModule.cc lines 147-164,
\* PairedServer.cc lines 81-99).  The one way into a split brain is a server
\* that gives the other up on the strength of an outdated failure
\* (HeartbeatHelper.cc line 70, PrimaryServer.cc lines 129-134).
SplitOnlyByMisjudgment == SplitBrain => Misjudged

\* The exits whose messages report a network partition are taken only after
\* such a misjudgment (PrimaryServer.cc lines 55-58, BackupServer.cc lines
\* 150-153).
PartitionOnlyByMisjudgment ==
  events \intersect {"heartbeat in Standalone", "BackupWrite in Standalone"} # {} => Misjudged

\* The exits whose messages say that both servers were down or recovering are
\* taken only after such a misjudgment, when a server crashes only while the
\* other one is healthy (PairedServer.cc lines 72-75 and 174-178).
RecoveryFindsHelper ==
  events \intersect {"recovering alone", "both recovering"} # {} => Misjudged

\* Not so: "This suggests that a network partition has occurred"
\* (PrimaryServer.cc:57, BackupServer.cc:152): without a partition the exits
\* that say so are never taken.
NoPartitionSuspected ==
  events \intersect {"heartbeat in Standalone", "BackupWrite in Standalone"} = {}

\* A backup in Normal is always watching the primary: of the heartbeat loops
\* that its recoveries have started, one is about to start, is about to give
\* up, or is the newest and so will not stop as replaced
\* (HeartbeatHelper.cc lines 55-72, BackupServer.cc lines 55-62 and 165-169).
Watched ==
  repl_state["backup"] = "Normal" =>
    \E t \in Attempt : \/ hb[t].pc \in {"spawned", "failed"}
                       \/ hb[t].pc \in {"call", "ok"} /\ hb[t].my_iter = iter

\* The two servers never hold their locks at the same time: each lock is held
\* over a call whose handler takes the other server's lock, so the calls
\* would wait for each other for ever (ReplicationModule.cc lines 147-164,
\* PairedServer.cc lines 102-105 and 129-133).  It is so when Prompt.
LocksNeverCross == ~ \A s \in Server : stateMutex[s] # 0

\* Not so when ~Prompt: "any overlapping sync attempts will terminate
\* automatically when their reqs are rejected by the counterpart"
\* (PairedServer.cc:84-85).  Two attempts with nothing to send wait for each
\* other's lock, and no step of either server can end that.
NoDeadlock ==
  ~ \A s \in Server :
      LET t == stateMutex[s] IN
      t # 0 /\ sync[t].pc = "finish" /\ ~ Lost(requester[t], sync[t].to)

\* A backup whose primary is down takes over, unless the primary comes back
\* first (HeartbeatHelper.cc lines 60-71).
BackupTakesOver ==
  (repl_state["backup"] = "Normal" /\ ~ Up("primary")) ~>
    (repl_state["backup"] # "Normal" \/ Up("primary"))

\* After any crashes, one at a time and with prompt calls, some server answers
\* clients again, misjudged or not (run-primary.sh, run-backup.sh and the whole
\* of the recovery).
ServiceResumes == []<>(Serves("primary") \/ Serves("backup"))
=============================================================================
