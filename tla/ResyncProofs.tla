---------------------------- MODULE ResyncProofs ----------------------------
(***************************************************************************)
(* Proofs about Resync, for every set of addresses and of write handlers,  *)
(* both roles, every bound and calls of any length: the type invariant and *)
(* its five properties.                                                    *)
(*                                                                         *)
(* They follow from one inductive invariant, IInv.  Its core is Counted:   *)
(* the sync thread of the current attempt and the recovering server agree  *)
(* on how many blocks have been delivered.  It needs Ids (a thread of an   *)
(* earlier attempt never becomes current again), Held and Settled (what    *)
(* the lock kept around FinishSync excludes) and Covered (the dirty list   *)
(* does not shrink below what has been delivered, not even when two        *)
(* handlers insert into it at once).                                       *)
(***************************************************************************)
EXTENDS Resync, TLAPS

Finishing(t) == sync_pc[t] \in {"finish", "finish_ok", "finish_failed"}
Active(t)    == r_state = "Recovering" /\ t = recovery.sync_id

\* Sync ids are handed out in order, each to at most one thread.
Ids ==
  /\ \A t \in Attempt : t \in triggers \/ sync_pc[t] # "none" => t <= attempt
  /\ \A t \in triggers : sync_pc[t] = "none"
  /\ recovery.sync_id \in {0, attempt}
  /\ r_state = "Down" => r_pc = "off"

\* The local variables of the threads.
SyncLocals ==
  \A t \in Attempt :
    /\ sync_pc[t] = "none" => sync_i[t] = 0
    /\ sync_pc[t] = "read" => sync_msg[t].address \in Address
WriteLocals ==
  \A w \in Writer : w_pc[w] # "idle" => w_addr[w] \in Address
Locals == SyncLocals /\ WriteLocals

\* The lock is held around FinishSync, and shared holders exclude it.
Held ==
  /\ \A t \in Attempt : Finishing(t) => stateMutex = t
  /\ stateMutex # 0 => \A w \in Writer : ~ SharedHolder(w)

\* At FinishSync nothing is left in the dirty list; after a successful one no
\* newer thread runs.
Settled ==
  /\ \A t \in Attempt : sync_pc[t] = "finish" => sync_i[t] >= Len(dirtyVec)
  /\ \A t, u \in Attempt : sync_pc[t] = "finish_ok" /\ t < u => sync_pc[u] = "none"

\* Sender and receiver of the current attempt count the same blocks.
Counted ==
  /\ r_state # "Normal" => got = 1..recovery.blocks_received
  /\ r_state = "Down" => recovery.sync_id = 0
  /\ \A t \in Attempt : Active(t) =>
       /\ sync_pc[t] \in {"none", "loop", "block_ok", "finish"} =>
            sync_i[t] = recovery.blocks_received
       /\ sync_pc[t] \in {"read", "block"} =>
            sync_i[t] = recovery.blocks_received + 1

\* What the current thread has gone through is still in the dirty list, and in
\* every copy of it that a handler is about to append to.
Going(t) == sync_pc[t] \in {"loop", "read", "block", "block_ok", "finish"}
Covered ==
  \A t \in Attempt : Active(t) /\ Going(t) =>
    /\ sync_i[t] <= Len(dirtyVec)
    /\ \A w \in Writer : w_pc[w] = "marking" => sync_i[t] <= Len(w_snap[w].vec)

IInv == TypeOK /\ Ids /\ Locals /\ Held /\ Settled /\ Counted /\ Covered

----------------------------------------------------------------------------
(***************************************************************************)
(* Types.  Locals is needed because the code uses the local variables of   *)
(* its threads as addresses.                                               *)
(***************************************************************************)

LEMMA BoundsNat ==
  /\ MaxAttempts \in Nat /\ MaxStarts \in Nat /\ MaxWrites \in Nat
  /\ 0 \in Block /\ 0 \in 0..MaxStarts /\ 0 \in 0..MaxAttempts
BY ResyncAssumption DEF Block

Message == [address : Address \union {Elsewhere}, block : Block, epoch : 0..MaxStarts]

LEMMA MsgType ==
  ASSUME NEW a \in Address \union {Elsewhere}, NEW b \in Block, NEW e \in 0..MaxStarts
  PROVE  Msg(a, b, e) \in Message
BY DEF Msg, Message

RecoveryRecord == [sync_id : 0..MaxAttempts, blocks_received : Nat, done : BOOLEAN]

LEMMA CountUpType ==
  ASSUME NEW r \in RecoveryRecord
  PROVE  [r EXCEPT !.blocks_received = @ + 1] \in RecoveryRecord
BY DEF RecoveryRecord

LEMMA EndSyncType ==
  ASSUME SyncersTypeOK, SyncLocals, NEW t \in Attempt, EndSync(t)
  PROVE  SyncersTypeOK' /\ SyncLocals'
<1>1. NoMsg \in Message
  BY MsgType, BoundsNat DEF NoMsg, Block
<1> QED
  BY <1>1 DEF SyncersTypeOK, SyncLocals, EndSync, Message

LEMMA EndWriteType ==
  ASSUME WritersTypeOK, WriteLocals, NEW w \in Writer, EndWrite(w)
  PROVE  WritersTypeOK' /\ WriteLocals'
<1>1. NoSnap \in [known : BOOLEAN, vec : Seq(Address)]
  BY DEF NoSnap
<1> QED
  BY <1>1, BoundsNat DEF WritersTypeOK, WriteLocals, EndWrite

ServersTypeOK == HelperTypeOK /\ SyncersTypeOK /\ WritersTypeOK /\ PartnerTypeOK

LEMMA ServersTypeStep ==
  ServersTypeOK /\ Locals /\ [Next]_vars => ServersTypeOK' /\ Locals'
<1> SUFFICES ASSUME ServersTypeOK, Locals, [Next]_vars PROVE ServersTypeOK' /\ Locals'
  OBVIOUS
<1> USE BoundsNat DEF ServersTypeOK, Locals, Attempt, HelperTypeOK, SyncersTypeOK, WritersTypeOK,
                      PartnerTypeOK, SyncLocals, WriteLocals, helper, syncers, writers, partner,
                      Message
<1>1. CASE Start
  <2>1. PartnerTypeOK'
    BY <1>1 DEF Start, ZeroedFile, Block
  <2>2. UNCHANGED <<helper, syncers, writers>>
    BY <1>1 DEF Start
  <2> QED
    BY <2>1, <2>2
<1>2. CASE Crash
  <2>1. PartnerTypeOK'
    <3>1. FreshRecovery(0) \in [sync_id : 0..MaxAttempts, blocks_received : Nat, done : BOOLEAN]
      BY DEF FreshRecovery
    <3>2. triggers' \subseteq Attempt
      BY <1>2 DEF Crash
    <3> QED
      BY <1>2, <3>1, <3>2 DEF Crash
  <2>2. UNCHANGED <<helper, syncers, writers>>
    BY <1>2 DEF Crash
  <2> QED
    BY <2>1, <2>2
<1>3. CASE BeginAttempt
  <2>1. PartnerTypeOK'
    BY <1>3 DEF BeginAttempt, NewRound, FreshRecovery
  <2>2. UNCHANGED <<helper, syncers, writers>>
    BY <1>3 DEF BeginAttempt
  <2> QED
    BY <2>1, <2>2
<1>4. CASE Timeout
  <2>1. PartnerTypeOK'
    BY <1>4 DEF Timeout
  <2>2. UNCHANGED <<helper, syncers, writers>>
    BY <1>4 DEF Timeout
  <2> QED
    BY <2>1, <2>2
<1>5. CASE ConfirmRecovery
  <2>1. PartnerTypeOK'
    BY <1>5 DEF ConfirmRecovery
  <2>2. UNCHANGED <<helper, syncers, writers>>
    BY <1>5 DEF ConfirmRecovery
  <2> QED
    BY <2>1, <2>2
<1>6. ASSUME NEW t \in Attempt, HbStep(t)
      PROVE  ServersTypeOK' /\ Locals'
  <2>1. HelperTypeOK'
    BY <1>6 DEF HbStep, HeartbeatFails, HbReplaced, HbGivesUp
  <2>2. UNCHANGED <<syncers, writers, partner>>
    BY <1>6 DEF HbStep, HeartbeatFails, HbReplaced, HbGivesUp
  <2> QED
    BY <2>1, <2>2
<1>7. ASSUME NEW t \in Attempt, TriggerSync(t)
      PROVE  ServersTypeOK' /\ Locals'
  <2>1. HelperTypeOK'
    BY <1>7 DEF TriggerSync, WhileSyncing
  <2>2. SyncersTypeOK' /\ SyncLocals'
    BY <1>7 DEF TriggerSync, Reply, WhileSyncing
  <2>3. PartnerTypeOK'
    BY <1>7 DEF TriggerSync, Reply, WhileSyncing
  <2>4. UNCHANGED writers
    BY <1>7 DEF TriggerSync
  <2> QED
    BY <2>1, <2>2, <2>3, <2>4
<1>8. ASSUME NEW t \in Attempt, NextEntry(t)
      PROVE  ServersTypeOK' /\ Locals'
  <2>1. SyncersTypeOK' /\ SyncLocals'
    <3>1. dirtyVec[sync_i[t] + 1] \in Address
      BY <1>8 DEF NextEntry
    <3>2. Msg(dirtyVec[sync_i[t] + 1], 0, 0) \in Message
      BY <3>1, MsgType
    <3> QED
      BY <1>8, <3>1, <3>2 DEF NextEntry, Reply, Msg
  <2>2. UNCHANGED <<helper, writers, partner>>
    BY <1>8 DEF NextEntry
  <2> QED
    BY <2>1, <2>2
<1>9. ASSUME NEW t \in Attempt, SendBlock(t)
      PROVE  ServersTypeOK' /\ Locals'
  <2>1. SyncersTypeOK' /\ SyncLocals'
    <3>1. disk[sync_msg[t].address] \in Block
      BY <1>9 DEF SendBlock
    <3>2. SentAddress(sync_i[t]) \subseteq Address \union {Elsewhere}
      BY DEF SentAddress
    <3>3. \A a \in SentAddress(sync_i[t]) : Msg(a, disk[sync_msg[t].address], epoch) \in Message
      BY <3>1, <3>2, MsgType
    <3> QED
      BY <1>9, <3>3 DEF SendBlock, Reply
  <2>2. UNCHANGED <<helper, writers, partner>>
    BY <1>9 DEF SendBlock
  <2> QED
    BY <2>1, <2>2
<1>10. ASSUME NEW t \in Attempt, SendFinish(t)
      PROVE  ServersTypeOK' /\ Locals'
  <2>1. HelperTypeOK'
    BY <1>10 DEF SendFinish, KeepLock
  <2>2. SyncersTypeOK' /\ SyncLocals'
    <3>1. Msg(Elsewhere, 0, epoch) \in Message
      BY MsgType
    <3> QED
      BY <1>10, <3>1 DEF SendFinish, Reply
  <2>3. UNCHANGED <<writers, partner>>
    BY <1>10 DEF SendFinish
  <2> QED
    BY <2>1, <2>2, <2>3
<1>11. ASSUME NEW t \in Attempt, SyncBlock(t)
      PROVE  ServersTypeOK' /\ Locals'
  <2>1. SyncersTypeOK' /\ SyncLocals'
    BY <1>11 DEF SyncBlock, Reply, Arrived, WriteData, Block
  <2>2. PartnerTypeOK'
    <3>1. CASE CurrentSync(t)
      <4>1. sync_msg[t].block \in Block
        OBVIOUS
      <4>2. r_disk' \in [Address -> Block]
        BY <1>11, <3>1, <4>1 DEF SyncBlock, WriteData, Block
      <4>3. recovery' = [recovery EXCEPT !.blocks_received = @ + 1]
        BY <1>11, <3>1 DEF SyncBlock
      <4>4. got' \subseteq Nat
        BY <1>11, <3>1 DEF SyncBlock
      <4>5. UNCHANGED <<r_state, r_pc, epoch, attempt, triggers>>
        BY <1>11 DEF SyncBlock
      <4>6. recovery' \in RecoveryRecord
        <5>1. recovery \in RecoveryRecord
          BY DEF RecoveryRecord
        <5> QED
          BY <4>3, <5>1, CountUpType
      <4> QED
        BY <4>2, <4>4, <4>5, <4>6 DEF RecoveryRecord
    <3>2. CASE ~ CurrentSync(t)
      BY <1>11, <3>2 DEF SyncBlock
    <3> QED
      BY <3>1, <3>2
  <2>3. UNCHANGED <<helper, writers>>
    BY <1>11 DEF SyncBlock
  <2> QED
    BY <2>1, <2>2, <2>3
<1>12. ASSUME NEW t \in Attempt, FinishSync(t)
      PROVE  ServersTypeOK' /\ Locals'
  <2>1. SyncersTypeOK' /\ SyncLocals'
    BY <1>12 DEF FinishSync, Reply
  <2>2. PartnerTypeOK'
    BY <1>12 DEF FinishSync, Reply
  <2>3. UNCHANGED <<helper, writers>>
    BY <1>12 DEF FinishSync
  <2> QED
    BY <2>1, <2>2, <2>3
<1>13. ASSUME NEW t \in Attempt, SyncCallFails(t)
      PROVE  ServersTypeOK' /\ Locals'
  <2>1. SyncersTypeOK' /\ SyncLocals'
    BY <1>13 DEF SyncCallFails, Reply
  <2>2. UNCHANGED <<helper, writers, partner>>
    BY <1>13 DEF SyncCallFails
  <2> QED
    BY <2>1, <2>2
<1>14. ASSUME NEW t \in Attempt, BlockAnswered(t)
      PROVE  ServersTypeOK' /\ Locals'
  <2>1. SyncersTypeOK' /\ SyncLocals'
    <3>1. CASE EndSync(t)
      BY <3>1, EndSyncType
    <3>2. CASE ~ EndSync(t)
      <4>1. NoMsg \in Message
        BY MsgType DEF NoMsg
      <4>2. /\ sync_pc' = [sync_pc EXCEPT ![t] = "loop"]
            /\ sync_msg' = [sync_msg EXCEPT ![t] = NoMsg]
            /\ sync_i' = sync_i
        BY <1>14, <3>2 DEF BlockAnswered, Reply
      <4> QED
        BY <4>1, <4>2
    <3> QED
      BY <3>1, <3>2
  <2>2. UNCHANGED <<helper, writers, partner>>
    BY <1>14 DEF BlockAnswered
  <2> QED
    BY <2>1, <2>2
<1>15. ASSUME NEW t \in Attempt, FinishAnswered(t)
      PROVE  ServersTypeOK' /\ Locals'
  <2>1. HelperTypeOK'
    <3>1. dirtySet' \subseteq Address /\ dirtyVec' \in Seq(Address)
      <4>1. CASE dirtySet' = {} /\ dirtyVec' = <<>>
        BY <4>1
      <4>2. CASE UNCHANGED <<dirtySet, dirtyVec>>
        BY <4>2
      <4> QED
        BY <1>15, <4>1, <4>2 DEF FinishAnswered
    <3>2. repl_state' \in {"Normal", "Standalone"} /\ stateMutex' = 0 /\ UNCHANGED disk
      BY <1>15 DEF FinishAnswered
    <3> QED
      BY <3>1, <3>2
  <2>2. SyncersTypeOK' /\ SyncLocals'
    BY <1>15, EndSyncType DEF FinishAnswered
  <2>3. UNCHANGED <<writers, partner>>
    BY <1>15 DEF FinishAnswered
  <2> QED
    BY <2>1, <2>2, <2>3
<1>16. ASSUME NEW w \in Writer, StoreLocally(w)
      PROVE  ServersTypeOK' /\ Locals'
  <2>1. HelperTypeOK'
    BY <1>16 DEF StoreLocally, WriteData, Block
  <2>2. WritersTypeOK' /\ WriteLocals'
    BY <1>16 DEF StoreLocally, WriteData, Block
  <2>3. UNCHANGED <<syncers, partner>>
    BY <1>16 DEF StoreLocally
  <2> QED
    BY <2>1, <2>2, <2>3
<1>17. ASSUME NEW w \in Writer, CallBackup(w)
      PROVE  ServersTypeOK' /\ Locals'
  <2>1. WritersTypeOK' /\ WriteLocals'
    BY <1>17 DEF CallBackup
  <2>2. UNCHANGED <<helper, syncers, partner>>
    BY <1>17 DEF CallBackup
  <2> QED
    BY <2>1, <2>2
<1>18. ASSUME NEW w \in Writer, BackupWrite(w)
      PROVE  ServersTypeOK' /\ Locals'
  <2>1. WritersTypeOK' /\ WriteLocals'
    <3>1. CASE EndWrite(w)
      BY <3>1, EndWriteType
    <3>2. CASE ~ EndWrite(w)
      BY <1>18, <3>2 DEF BackupWrite
    <3> QED
      BY <3>1, <3>2
  <2>2. PartnerTypeOK'
    BY <1>18 DEF BackupWrite, WriteData, Block
  <2>3. UNCHANGED <<helper, syncers>>
    BY <1>18 DEF BackupWrite
  <2> QED
    BY <2>1, <2>2, <2>3
<1>19. ASSUME NEW w \in Writer, BeginMark(w)
      PROVE  ServersTypeOK' /\ Locals'
  <2>1. WritersTypeOK' /\ WriteLocals'
    BY <1>19 DEF BeginMark, LookUpDirty
  <2>2. UNCHANGED <<helper, syncers, partner>>
    BY <1>19 DEF BeginMark
  <2> QED
    BY <2>1, <2>2
<1>20. ASSUME NEW w \in Writer, EndMark(w)
      PROVE  ServersTypeOK' /\ Locals'
  <2>1. HelperTypeOK'
    BY <1>20 DEF EndMark, InsertDirty
  <2>2. WritersTypeOK' /\ WriteLocals'
    BY <1>20, EndWriteType DEF EndMark
  <2>3. UNCHANGED <<syncers, partner>>
    BY <1>20 DEF EndMark
  <2> QED
    BY <2>1, <2>2, <2>3
<1>21. ASSUME NEW w \in Writer, WriteCallFails(w)
      PROVE  ServersTypeOK' /\ Locals'
  <2>1. WritersTypeOK' /\ WriteLocals'
    BY <1>21 DEF WriteCallFails
  <2>2. UNCHANGED <<helper, syncers, partner>>
    BY <1>21 DEF WriteCallFails
  <2> QED
    BY <2>1, <2>2
<1>22. ASSUME NEW w \in Writer, AssumePartnerDown(w)
      PROVE  ServersTypeOK' /\ Locals'
  <2>1. HelperTypeOK'
    BY <1>22 DEF AssumePartnerDown, MarkDirty
  <2>2. WritersTypeOK' /\ WriteLocals'
    BY <1>22, EndWriteType DEF AssumePartnerDown
  <2>3. UNCHANGED <<syncers, partner>>
    BY <1>22 DEF AssumePartnerDown
  <2> QED
    BY <2>1, <2>2, <2>3
<1>23. CASE UNCHANGED vars
  BY <1>23 DEF vars
<1> QED
  BY <1>1, <1>2, <1>3, <1>4, <1>5, <1>6, <1>7, <1>8, <1>9, <1>10, <1>11, <1>12, <1>13, <1>14, <1>15, <1>16, <1>17, <1>18, <1>19, <1>20, <1>21, <1>22, <1>23 DEF Next, Step, PartnerStep, SyncStep, WriteStep

LEMMA LoopsTypeStep ==
  ASSUME TypeOK, [Next]_vars
  PROVE  /\ role' \in {"primary", "backup"} /\ hasty' \in BOOLEAN
         /\ hb' \in [Attempt -> {"none", "running", "failed", "over"}]
<1> USE DEF TypeOK
<1>1. CASE UNCHANGED vars
  BY <1>1 DEF vars
<1>2. role' = role
  BY DEF Next, vars
<1>3. CASE Timeout
  BY <1>2, <1>3 DEF Timeout
<1>4. CASE Start \/ Crash \/ BeginAttempt \/ ConfirmRecovery
  BY <1>2, <1>4 DEF Start, Crash, BeginAttempt, ConfirmRecovery
<1>5. ASSUME NEW t \in Attempt, HbStep(t) PROVE UNCHANGED hasty /\ hb' \in [Attempt -> {"none", "running", "failed", "over"}]
  BY <1>5 DEF HbStep, HeartbeatFails, HbReplaced, HbGivesUp
<1>6. ASSUME NEW t \in Attempt, FinishAnswered(t) PROVE UNCHANGED hasty /\ hb' \in [Attempt -> {"none", "running", "failed", "over"}]
  BY <1>6 DEF FinishAnswered, HandlePartnerRecovered
<1>7. ASSUME NEW t \in Attempt, SyncStep(t), ~ FinishAnswered(t) PROVE UNCHANGED <<hasty, hb>>
  BY <1>7 DEF SyncStep, TriggerSync, NextEntry, SendBlock, SendFinish, SyncBlock, FinishSync,
              SyncCallFails, BlockAnswered
<1>8. ASSUME NEW w \in Writer, StoreLocally(w) \/ WriteStep(w) PROVE UNCHANGED <<hasty, hb>>
  BY <1>8 DEF StoreLocally, WriteStep, CallBackup, BackupWrite, BeginMark, EndMark, WriteCallFails,
              AssumePartnerDown
<1> QED
  BY <1>1, <1>2, <1>3, <1>4, <1>5, <1>6, <1>7, <1>8 DEF Next, Step, PartnerStep

LEMMA TypeStep == TypeOK /\ Locals /\ [Next]_vars => TypeOK' /\ Locals'
BY ServersTypeStep, LoopsTypeStep DEF TypeOK, ServersTypeOK

----------------------------------------------------------------------------
(***************************************************************************)
(* What each group of steps leaves alone.                                  *)
(***************************************************************************)

LEMMA PartnerFrame ==
  ASSUME Start \/ Crash \/ PartnerStep
  PROVE  UNCHANGED <<helper, syncers, writers>>
BY DEF Start, Crash, PartnerStep, BeginAttempt, Timeout, ConfirmRecovery

LEMMA HbFrame ==
  ASSUME NEW t \in Attempt, HbStep(t)
  PROVE  /\ UNCHANGED <<dirtySet, dirtyVec, disk, stateMutex, syncers, writers, partner>>
         /\ repl_state' \in {repl_state, "Standalone"}
BY DEF HbStep, HeartbeatFails, HbReplaced, HbGivesUp, helper

LEMMA WriterFrame ==
  ASSUME NEW w \in Writer, StoreLocally(w) \/ WriteStep(w)
  PROVE  /\ UNCHANGED <<syncers, stateMutex, r_state, r_pc, recovery, attempt, triggers, got>>
         /\ UNCHANGED dirtyVec \/ EndMark(w) \/ AssumePartnerDown(w)
<1> USE DEF syncers, partner, helper
<1>1. CASE StoreLocally(w)
  BY <1>1 DEF StoreLocally
<1>2. CASE CallBackup(w)
  BY <1>2 DEF CallBackup
<1>3. CASE BackupWrite(w)
  BY <1>3 DEF BackupWrite
<1>4. CASE BeginMark(w)
  BY <1>4 DEF BeginMark
<1>5. CASE EndMark(w)
  BY <1>5 DEF EndMark
<1>6. CASE WriteCallFails(w)
  BY <1>6 DEF WriteCallFails
<1>7. CASE AssumePartnerDown(w)
  BY <1>7 DEF AssumePartnerDown
<1> QED
  BY <1>1, <1>2, <1>3, <1>4, <1>5, <1>6, <1>7 DEF WriteStep

\* Once it has started, a sync thread changes nothing but its own counter.
LEMMA SyncFrame ==
  ASSUME NEW t \in Attempt, SyncStep(t), ~ TriggerSync(t), TypeOK
  PROVE  /\ sync_pc[t] # "none"
         /\ \E pc \in {"loop", "read", "block", "block_ok", "block_failed", "finish",
                       "finish_ok", "finish_failed", "over"} :
              sync_pc' = [sync_pc EXCEPT ![t] = pc]
         /\ UNCHANGED <<attempt, triggers, r_pc, writers>>
         /\ recovery'.sync_id = recovery.sync_id
         /\ r_state' = "Down" => r_state = "Down"
<1> USE DEF TypeOK, PartnerTypeOK, partner, writers
<1>1. CASE NextEntry(t)
  BY <1>1 DEF NextEntry, Reply
<1>2. CASE SendBlock(t)
  BY <1>2 DEF SendBlock, Reply
<1>3. CASE SendFinish(t)
  BY <1>3 DEF SendFinish, Reply
<1>4. CASE SyncBlock(t)
  BY <1>4 DEF SyncBlock, Arrived, Reply
<1>5. CASE FinishSync(t)
  BY <1>5 DEF FinishSync, Arrived, Reply
<1>6. CASE SyncCallFails(t)
  BY <1>6 DEF SyncCallFails, Reply
<1>7. CASE BlockAnswered(t)
  BY <1>7 DEF BlockAnswered, Reply, EndSync
<1>8. CASE FinishAnswered(t)
  BY <1>8 DEF FinishAnswered, EndSync
<1> QED
  BY <1>1, <1>2, <1>3, <1>4, <1>5, <1>6, <1>7, <1>8 DEF SyncStep

----------------------------------------------------------------------------
(***************************************************************************)
(* The parts of the inductive invariant, one lemma each.                   *)
(***************************************************************************)

LEMMA IdsStep == TypeOK /\ Ids /\ [Next]_vars => Ids'
<1> SUFFICES ASSUME TypeOK, Ids, [Next]_vars PROVE Ids'
  OBVIOUS
<1> USE BoundsNat DEF TypeOK, SyncersTypeOK, PartnerTypeOK, Ids, Attempt
<1>1. CASE Start
  BY <1>1 DEF Start, syncers
<1>2. CASE Crash
  BY <1>2 DEF Crash, FreshRecovery, syncers
<1>3. CASE BeginAttempt
  \* the new id is above all others, so its thread does not exist yet
  <2>1. attempt + 1 \in Attempt /\ sync_pc[attempt + 1] = "none"
    BY <1>3 DEF BeginAttempt
  <2> QED
    BY <1>3, <2>1 DEF BeginAttempt, NewRound, FreshRecovery, syncers
<1>4. CASE Timeout \/ ConfirmRecovery \/ \E t \in Attempt : HbStep(t)
  BY <1>4, HbFrame DEF Timeout, ConfirmRecovery, syncers, partner
<1>5. ASSUME NEW t \in Attempt, TriggerSync(t) PROVE Ids'
  BY <1>5 DEF TriggerSync, Reply
<1>6. ASSUME NEW t \in Attempt, SyncStep(t), ~ TriggerSync(t) PROVE Ids'
  <2>1. /\ sync_pc[t] # "none"
        /\ \A u \in Attempt : u # t => sync_pc'[u] = sync_pc[u]
        /\ UNCHANGED <<attempt, triggers, r_pc>> /\ recovery'.sync_id = recovery.sync_id
        /\ r_state' = "Down" => r_state = "Down"
    BY <1>6, SyncFrame
  <2> QED
    BY <2>1
<1>7. ASSUME NEW w \in Writer, StoreLocally(w) \/ WriteStep(w) PROVE Ids'
  <2>1. UNCHANGED <<sync_pc, recovery, attempt, triggers, r_state, r_pc>>
    BY <1>7, WriterFrame DEF syncers
  <2> QED
    BY <2>1
<1>8. CASE UNCHANGED vars
  BY <1>8 DEF vars, syncers, partner
<1> QED
  BY <1>1, <1>2, <1>3, <1>4, <1>5, <1>6, <1>7, <1>8 DEF Next, Step, PartnerStep

LEMMA HeldStep == TypeOK /\ Held /\ [Next]_vars => Held'
<1> SUFFICES ASSUME TypeOK, Held, [Next]_vars PROVE Held'
  OBVIOUS
<1> USE BoundsNat DEF TypeOK, HelperTypeOK, SyncersTypeOK, WritersTypeOK, Held, Finishing,
                      SharedHolder, Attempt
<1>0. role' = role
  BY DEF Next, vars
<1> USE <1>0
<1>1. CASE Start \/ Crash \/ PartnerStep
  BY <1>1, PartnerFrame DEF helper, syncers, writers
<1>2. ASSUME NEW t \in Attempt, HbStep(t) PROVE Held'
  BY <1>2, HbFrame DEF syncers, writers
<1>3. ASSUME NEW t \in Attempt, TriggerSync(t) PROVE Held'
  BY <1>3 DEF TriggerSync, Reply, writers
<1>4. ASSUME NEW t \in Attempt, NextEntry(t) PROVE Held'
  BY <1>4 DEF NextEntry, Reply, helper, writers
<1>5. ASSUME NEW t \in Attempt, SendBlock(t) PROVE Held'
  BY <1>5 DEF SendBlock, Reply, helper, writers
<1>6. ASSUME NEW t \in Attempt, SendFinish(t) PROVE Held'
  BY <1>6 DEF SendFinish, KeepLock, CanLock, Reply, writers
<1>7. ASSUME NEW t \in Attempt, SyncBlock(t) PROVE Held'
  BY <1>7 DEF SyncBlock, Arrived, Reply, helper, writers
<1>8. ASSUME NEW t \in Attempt, FinishSync(t) PROVE Held'
  BY <1>8 DEF FinishSync, Arrived, Reply, helper, writers
<1>9. ASSUME NEW t \in Attempt, SyncCallFails(t) PROVE Held'
  BY <1>9 DEF SyncCallFails, Reply, helper, writers
<1>10. ASSUME NEW t \in Attempt, BlockAnswered(t) PROVE Held'
  BY <1>10 DEF BlockAnswered, EndSync, Reply, helper, writers
<1>11. ASSUME NEW t \in Attempt, FinishAnswered(t) PROVE Held'
  \* t is the only finishing thread: any other one would hold the lock as well
  <2>1. \A u \in Attempt : u # t => ~ Finishing(u)
    BY <1>11 DEF FinishAnswered
  <2> QED
    BY <1>11, <2>1 DEF FinishAnswered, EndSync, writers
<1>12. ASSUME NEW w \in Writer, StoreLocally(w) PROVE Held'
  BY <1>12 DEF StoreLocally, CanShare, syncers
<1>13. ASSUME NEW w \in Writer, CallBackup(w) PROVE Held'
  BY <1>13 DEF CallBackup, helper, syncers
<1>14. ASSUME NEW w \in Writer, BackupWrite(w) PROVE Held'
  BY <1>14 DEF BackupWrite, EndWrite, helper, syncers
<1>15. ASSUME NEW w \in Writer, BeginMark(w) PROVE Held'
  BY <1>15 DEF BeginMark, CanShare, helper, syncers
<1>16. ASSUME NEW w \in Writer, EndMark(w) PROVE Held'
  BY <1>16 DEF EndMark, EndWrite, syncers
<1>17. ASSUME NEW w \in Writer, WriteCallFails(w) PROVE Held'
  BY <1>17 DEF WriteCallFails, helper, syncers
<1>18. ASSUME NEW w \in Writer, AssumePartnerDown(w) PROVE Held'
  BY <1>18 DEF AssumePartnerDown, EndWrite, syncers
<1>19. CASE UNCHANGED vars
  BY <1>19 DEF vars, helper, syncers, writers
<1> QED
  BY <1>1, <1>2, <1>3, <1>4, <1>5, <1>6, <1>7, <1>8, <1>9, <1>10, <1>11, <1>12, <1>13,
     <1>14, <1>15, <1>16, <1>17, <1>18, <1>19 DEF Next, Step, SyncStep, WriteStep

LEMMA SettledStep ==
  TypeOK /\ Ids /\ Held /\ Settled /\ [Next]_vars => Settled'
<1> SUFFICES ASSUME TypeOK, Ids, Held, Settled, [Next]_vars PROVE Settled'
  OBVIOUS
<1> USE BoundsNat DEF TypeOK, HelperTypeOK, SyncersTypeOK, Settled, Finishing, Attempt
<1>1. CASE Start \/ Crash \/ PartnerStep
  BY <1>1, PartnerFrame DEF helper, syncers
<1>2. ASSUME NEW t \in Attempt, HbStep(t) PROVE Settled'
  BY <1>2, HbFrame DEF syncers
<1>3. ASSUME NEW t \in Attempt, TriggerSync(t) PROVE Settled'
  \* no thread is finishing: it would hold the lock that TriggerSync takes
  <2>1. \A u \in Attempt : ~ Finishing(u)
    BY <1>3 DEF TriggerSync, CanLock, Held
  <2> QED
    BY <1>3, <2>1 DEF TriggerSync, Reply
<1>4. ASSUME NEW t \in Attempt, NextEntry(t) PROVE Settled'
  BY <1>4 DEF NextEntry, Reply, helper
<1>5. ASSUME NEW t \in Attempt, SendBlock(t) PROVE Settled'
  BY <1>5 DEF SendBlock, Reply, helper
<1>6. ASSUME NEW t \in Attempt, SendFinish(t) PROVE Settled'
  BY <1>6 DEF SendFinish, Reply
<1>7. ASSUME NEW t \in Attempt, SyncBlock(t) PROVE Settled'
  BY <1>7 DEF SyncBlock, Arrived, Reply, helper
<1>8. ASSUME NEW t \in Attempt, FinishSync(t) PROVE Settled'
  <2>1. CASE CurrentSync(t) /\ AllBlocksHere(t)
    \* t is the newest id: the threads after it do not exist
    <3>1. \A u \in Attempt : t < u => sync_pc[u] = "none"
      BY <2>1 DEF CurrentSync, Ids, PartnerTypeOK
    <3> QED
      BY <1>8, <2>1, <3>1 DEF FinishSync, Arrived, Reply, helper
  <2>2. CASE ~ (CurrentSync(t) /\ AllBlocksHere(t))
    BY <1>8, <2>2 DEF FinishSync, Arrived, Reply, helper
  <2> QED
    BY <2>1, <2>2
<1>9. ASSUME NEW t \in Attempt, SyncCallFails(t) PROVE Settled'
  BY <1>9 DEF SyncCallFails, Reply, helper
<1>10. ASSUME NEW t \in Attempt, BlockAnswered(t) PROVE Settled'
  BY <1>10 DEF BlockAnswered, EndSync, Reply, helper
<1>11. ASSUME NEW t \in Attempt, FinishAnswered(t) PROVE Settled'
  <2>1. \A u \in Attempt : u # t => ~ Finishing(u)
    BY <1>11 DEF FinishAnswered, Held
  <2> QED
    BY <1>11, <2>1 DEF FinishAnswered, EndSync
<1>12. ASSUME NEW w \in Writer, StoreLocally(w) \/ WriteStep(w) PROVE Settled'
  <2>1. UNCHANGED <<sync_pc, sync_i>>
    BY <1>12, WriterFrame DEF syncers
  \* whoever changes the dirty list found the lock free or shares it
  <2>2. UNCHANGED dirtyVec \/ \A u \in Attempt : ~ Finishing(u)
    BY <1>12, WriterFrame DEF Held, EndMark, AssumePartnerDown, CanLock, SharedHolder
  <2> QED
    BY <2>1, <2>2
<1>13. CASE UNCHANGED vars
  BY <1>13 DEF vars, helper, syncers
<1> QED
  BY <1>1, <1>2, <1>3, <1>4, <1>5, <1>6, <1>7, <1>8, <1>9, <1>10, <1>11, <1>12, <1>13
     DEF Next, Step, SyncStep

LEMMA CountedStep ==
  TypeOK /\ Ids /\ SyncLocals /\ Counted /\ [Next]_vars => Counted'
<1> SUFFICES ASSUME TypeOK, Ids, SyncLocals, Counted, [Next]_vars PROVE Counted'
  OBVIOUS
<1> USE BoundsNat DEF TypeOK, SyncersTypeOK, PartnerTypeOK, Counted, Active, Attempt
<1>1. CASE Start
  \* no attempt yet
  BY <1>1 DEF Start, syncers
<1>2. CASE Crash
  BY <1>2 DEF Crash, FreshRecovery
<1>3. CASE BeginAttempt
  \* a new attempt starts from zero on both sides
  <2>1. attempt + 1 \in Attempt /\ sync_pc[attempt + 1] = "none" /\ sync_i[attempt + 1] = 0
    BY <1>3 DEF BeginAttempt, Ids, SyncLocals
  <2> QED
    BY <1>3, <2>1 DEF BeginAttempt, NewRound, FreshRecovery, Ids, syncers
<1>4. CASE Timeout \/ ConfirmRecovery \/ \E t \in Attempt : HbStep(t)
  BY <1>4, HbFrame DEF Timeout, ConfirmRecovery, syncers, partner
<1>5. ASSUME NEW t \in Attempt, TriggerSync(t) PROVE Counted'
  BY <1>5 DEF TriggerSync, Reply, Ids, SyncLocals
<1>6. ASSUME NEW t \in Attempt, NextEntry(t) PROVE Counted'
  BY <1>6 DEF NextEntry, Reply, partner
<1>7. ASSUME NEW t \in Attempt, SendBlock(t) PROVE Counted'
  BY <1>7 DEF SendBlock, Reply, partner
<1>8. ASSUME NEW t \in Attempt, SendFinish(t) PROVE Counted'
  BY <1>8 DEF SendFinish, Reply, partner
<1>9. ASSUME NEW t \in Attempt, SyncBlock(t) PROVE Counted'
  <2>1. CASE CurrentSync(t)
    <3>1. sync_i[t] = recovery.blocks_received + 1
      BY <1>9, <2>1 DEF SyncBlock, Arrived, CurrentSync
    <3>2. /\ recovery'.blocks_received = recovery.blocks_received + 1
          /\ recovery'.sync_id = recovery.sync_id
      BY <1>9, <2>1 DEF SyncBlock
    <3>3. got' = 1..(recovery.blocks_received + 1)
      <4>1. got = 1..recovery.blocks_received /\ recovery.blocks_received \in Nat
        BY <2>1 DEF CurrentSync
      <4>2. got' = got \union {recovery.blocks_received + 1}
        BY <1>9, <2>1, <3>1 DEF SyncBlock
      <4> QED
        BY <4>1, <4>2
    <3> QED
      BY <1>9, <2>1, <3>1, <3>2, <3>3 DEF SyncBlock, CurrentSync, Reply
  <2>2. CASE ~ CurrentSync(t)
    BY <1>9, <2>2 DEF SyncBlock, CurrentSync, Reply
  <2> QED
    BY <2>1, <2>2
<1>10. ASSUME NEW t \in Attempt, FinishSync(t) PROVE Counted'
  <2>1. CASE CurrentSync(t) /\ AllBlocksHere(t)
    BY <1>10, <2>1 DEF FinishSync
  <2>2. CASE ~ (CurrentSync(t) /\ AllBlocksHere(t))
    BY <1>10, <2>2 DEF FinishSync, Reply
  <2> QED
    BY <2>1, <2>2
<1>11. ASSUME NEW t \in Attempt, SyncCallFails(t) PROVE Counted'
  BY <1>11 DEF SyncCallFails, Reply, partner
<1>12. ASSUME NEW t \in Attempt, BlockAnswered(t) PROVE Counted'
  BY <1>12 DEF BlockAnswered, EndSync, Reply, partner
<1>13. ASSUME NEW t \in Attempt, FinishAnswered(t) PROVE Counted'
  BY <1>13 DEF FinishAnswered, EndSync, partner
<1>14. ASSUME NEW w \in Writer, StoreLocally(w) \/ WriteStep(w) PROVE Counted'
  <2>1. UNCHANGED <<sync_pc, sync_i, r_state, recovery, got>>
    BY <1>14, WriterFrame DEF syncers
  <2> QED
    BY <2>1
<1>15. CASE UNCHANGED vars
  BY <1>15 DEF vars, syncers, partner
<1> QED
  BY <1>1, <1>2, <1>3, <1>4, <1>5, <1>6, <1>7, <1>8, <1>9, <1>10, <1>11, <1>12, <1>13,
     <1>14, <1>15 DEF Next, Step, PartnerStep, SyncStep

\* Covered is kept by a step of a handler that leaves the list long enough and
\* starts no insertion.
LEMMA CoveredKept ==
  ASSUME Covered, UNCHANGED <<sync_pc, sync_i, r_state, recovery>>,
         \/ UNCHANGED dirtyVec
         \/ \A t \in Attempt : Active(t) /\ Going(t) => sync_i[t] <= Len(dirtyVec'),
         \A v \in Writer : w_pc'[v] = "marking" => w_pc[v] = "marking" /\ w_snap'[v] = w_snap[v]
  PROVE  Covered'
<1> SUFFICES ASSUME NEW t \in Attempt, Active(t)', Going(t)'
             PROVE  /\ sync_i'[t] <= Len(dirtyVec')
                    /\ \A v \in Writer : w_pc'[v] = "marking" => sync_i'[t] <= Len(w_snap'[v].vec)
  BY DEF Covered
<1>1. Active(t) /\ Going(t)
  BY DEF Active, Going
<1> QED
  BY <1>1 DEF Covered

LEMMA CoveredStep == IInv /\ [Next]_vars => Covered'
<1> SUFFICES ASSUME IInv, [Next]_vars PROVE Covered'
  OBVIOUS
<1> USE BoundsNat DEF IInv, TypeOK, HelperTypeOK, SyncersTypeOK, WritersTypeOK, PartnerTypeOK,
                      Covered, Active, Going, Attempt
<1>1. CASE Start
  BY <1>1 DEF Start, Counted
<1>2. CASE Crash
  BY <1>2 DEF Crash
<1>3. CASE BeginAttempt
  <2>1. sync_pc[attempt + 1] = "none"
    BY <1>3 DEF BeginAttempt, Ids
  <2> QED
    BY <1>3, <2>1 DEF BeginAttempt, NewRound, FreshRecovery, syncers
<1>4. CASE Timeout \/ ConfirmRecovery \/ \E t \in Attempt : HbStep(t)
  BY <1>4, HbFrame DEF Timeout, ConfirmRecovery, helper, syncers, writers, partner
<1>5. ASSUME NEW t \in Attempt, TriggerSync(t) PROVE Covered'
  <2>1. sync_i[t] = 0
    BY <1>5 DEF TriggerSync, Ids, Locals, SyncLocals
  <2>2. Len(dirtyVec) >= 0 /\ \A w \in Writer : Len(w_snap[w].vec) >= 0
    OBVIOUS
  <2> QED
    BY <1>5, <2>1, <2>2 DEF TriggerSync, Reply, writers
<1>6. ASSUME NEW t \in Attempt, NextEntry(t) PROVE Covered'
  \* the lock is free, so no handler is between lookup and insertion
  <2>1. \A w \in Writer : w_pc[w] # "marking"
    BY <1>6 DEF NextEntry, CanLock, SharedHolder
  <2> QED
    BY <1>6, <2>1 DEF NextEntry, Reply, helper, writers, partner
<1>7. ASSUME NEW t \in Attempt, SendBlock(t) PROVE Covered'
  BY <1>7 DEF SendBlock, Reply, helper, writers, partner
<1>8. ASSUME NEW t \in Attempt, SendFinish(t) PROVE Covered'
  BY <1>8 DEF SendFinish, Reply, writers, partner
<1>9. ASSUME NEW t \in Attempt, SyncBlock(t) PROVE Covered'
  BY <1>9, SyncFrame DEF SyncBlock, SyncStep, Arrived, Reply, helper, writers
<1>10. ASSUME NEW t \in Attempt, FinishSync(t) PROVE Covered'
  BY <1>10 DEF FinishSync, Reply, helper, writers
<1>11. ASSUME NEW t \in Attempt, SyncCallFails(t) PROVE Covered'
  BY <1>11 DEF SyncCallFails, Reply, helper, writers, partner
<1>12. ASSUME NEW t \in Attempt, BlockAnswered(t) PROVE Covered'
  BY <1>12 DEF BlockAnswered, EndSync, Reply, helper, writers, partner
<1>13. ASSUME NEW t \in Attempt, FinishAnswered(t) PROVE Covered'
  <2>1. CASE sync_pc[t] = "finish_ok"
    \* the list is emptied, but the current thread is t or has not started
    <3>1. \A u \in Attempt : Active(u) /\ u # t => sync_pc[u] = "none"
      <4>1. t <= attempt
        BY <2>1 DEF Ids
      <4>2. \A u \in Attempt : Active(u) => u = attempt
        BY DEF Ids
      <4>3. \A u \in Attempt : t < u => sync_pc[u] = "none"
        BY <2>1 DEF Settled
      <4> QED
        BY <4>1, <4>2, <4>3
    <3> QED
      BY <1>13, <2>1, <3>1 DEF FinishAnswered, EndSync, writers, partner
  <2>2. CASE sync_pc[t] = "finish_failed"
    BY <1>13, <2>2 DEF FinishAnswered, EndSync, writers, partner
  <2> QED
    BY <1>13, <2>1, <2>2 DEF FinishAnswered
<1>14. ASSUME NEW w \in Writer, StoreLocally(w) \/ CallBackup(w) \/ BackupWrite(w) \/ WriteCallFails(w)
       PROVE Covered'
  <2>1. UNCHANGED <<dirtyVec, sync_pc, sync_i, r_state, recovery>>
    BY <1>14 DEF StoreLocally, CallBackup, BackupWrite, WriteCallFails, helper, syncers, partner
  <2>2. \A v \in Writer : w_pc'[v] = "marking" => w_pc[v] = "marking" /\ w_snap'[v] = w_snap[v]
    BY <1>14 DEF StoreLocally, CallBackup, BackupWrite, WriteCallFails, EndWrite
  <2> QED
    BY <2>1, <2>2, CoveredKept
<1>15. ASSUME NEW w \in Writer, BeginMark(w) PROVE Covered'
  BY <1>15 DEF BeginMark, LookUpDirty, helper, syncers, partner
<1>16. ASSUME NEW w \in Writer, EndMark(w) PROVE Covered'
  \* the copy that w appends to covers everything delivered, so the result does
  <2>1. UNCHANGED dirtyVec \/ Len(dirtyVec') = Len(w_snap[w].vec) + 1
    BY <1>16 DEF EndMark, InsertDirty, Locals, WriteLocals
  <2>2. \A v \in Writer : w_pc'[v] = "marking" => w_pc[v] = "marking" /\ w_snap'[v] = w_snap[v]
    BY <1>16 DEF EndMark, EndWrite
  <2>3. UNCHANGED <<sync_pc, sync_i, r_state, recovery>> /\ w_pc[w] = "marking"
    BY <1>16 DEF EndMark, syncers, partner
  <2>4. Len(w_snap[w].vec) \in Nat
    OBVIOUS
  <2>5. ASSUME NEW t \in Attempt, Active(t), Going(t) PROVE sync_i[t] <= Len(dirtyVec')
    BY <2>1, <2>3, <2>4, <2>5
  <2> QED
    BY <2>2, <2>3, <2>5, CoveredKept
<1>17. ASSUME NEW w \in Writer, AssumePartnerDown(w) PROVE Covered'
  <2>1. UNCHANGED dirtyVec \/ Len(dirtyVec') = Len(dirtyVec) + 1
    BY <1>17 DEF AssumePartnerDown, MarkDirty, Locals, WriteLocals
  <2>2. \A v \in Writer : w_pc'[v] = "marking" => w_pc[v] = "marking" /\ w_snap'[v] = w_snap[v]
    BY <1>17 DEF AssumePartnerDown, EndWrite
  <2>3. UNCHANGED <<sync_pc, sync_i, r_state, recovery>>
    BY <1>17 DEF AssumePartnerDown, syncers, partner
  <2>4. Len(dirtyVec) \in Nat
    OBVIOUS
  <2>5. ASSUME NEW t \in Attempt, Active(t), Going(t) PROVE sync_i[t] <= Len(dirtyVec')
    <3>1. sync_i[t] <= Len(dirtyVec) /\ sync_i[t] \in Nat
      BY <2>5
    <3>2. Len(dirtyVec') = Len(dirtyVec) \/ Len(dirtyVec') = Len(dirtyVec) + 1
      BY <2>1
    <3> QED
      BY <2>4, <3>1, <3>2
  <2> QED
    BY <2>2, <2>3, <2>5, CoveredKept
<1>18. CASE UNCHANGED vars
  BY <1>18 DEF vars, helper, syncers, writers, partner
<1> QED
  BY <1>1, <1>2, <1>3, <1>4, <1>5, <1>6, <1>7, <1>8, <1>9, <1>10, <1>11, <1>12, <1>13,
     <1>14, <1>15, <1>16, <1>17, <1>18 DEF Next, Step, PartnerStep, SyncStep, WriteStep

----------------------------------------------------------------------------
(***************************************************************************)
(* The invariant and the theorems.                                         *)
(***************************************************************************)

LEMMA Initially == Init => IInv
<1> SUFFICES ASSUME Init PROVE IInv
  OBVIOUS
<1> USE BoundsNat DEF Init
<1>1. HelperTypeOK
  BY DEF HelperTypeOK, ZeroedFile
<1>2. SyncersTypeOK
  <2>1. NoMsg \in [address : Address \union {Elsewhere}, block : Block, epoch : 0..MaxStarts]
    BY MsgType DEF NoMsg, Message
  <2> QED
    BY <2>1 DEF SyncersTypeOK
<1>3. WritersTypeOK
  BY DEF WritersTypeOK, NoSnap
<1>4. PartnerTypeOK
  BY DEF PartnerTypeOK, FreshRecovery, ZeroedFile
<1>5. Ids /\ Locals /\ Held /\ Settled /\ Counted /\ Covered
  BY DEF Ids, Locals, SyncLocals, WriteLocals, Held, Finishing, Settled, Counted, Covered,
         Active, Going, FreshRecovery, Attempt, SharedHolder
<1> QED
  BY <1>1, <1>2, <1>3, <1>4, <1>5 DEF IInv, TypeOK

LEMMA InvariantStep == IInv /\ [Next]_vars => IInv'
BY TypeStep, IdsStep, HeldStep, SettledStep, CountedStep, CoveredStep DEF IInv, Locals

\* The inductive invariant holds of every reachable state.
THEOREM Invariance == Spec => []IInv
BY Initially, InvariantStep, PTL DEF Spec

\* Every variable keeps its type: the model of the recovery protocol never
\* leaves the states of the two servers' classes.
THEOREM TypeCorrect == Spec => []TypeOK
<1>1. IInv => TypeOK
  BY DEF IInv
<1> QED
  BY <1>1, Invariance, PTL

\* A recovering server goes Normal in FinishSync only when it has received a
\* block for every entry of the helper's dirty list in its current attempt.
THEOREM RecoveriesComplete == Spec => OnlyCompleteRecoveries
<1> DEFINE Complete == r_state = "Recovering" /\ r_state' = "Normal" => got = 1..Len(dirtyVec)
<1>1. IInv /\ [Next]_vars => [Complete]_vars
  <2> SUFFICES ASSUME IInv, Next, r_state = "Recovering", r_state' = "Normal"
               PROVE  got = 1..Len(dirtyVec)
    OBVIOUS
  <2>1. PICK t \in Attempt : FinishSync(t) /\ CurrentSync(t) /\ AllBlocksHere(t)
    \* no other step makes the state Normal
    <3>1. \A t \in Attempt : SyncStep(t) => FinishSync(t)
      BY DEF SyncStep, TriggerSync, NextEntry, SendBlock, SendFinish, SyncBlock, SyncCallFails,
             BlockAnswered, FinishAnswered, partner
    <3>2. \A w \in Writer : ~ (StoreLocally(w) \/ WriteStep(w))
      BY WriterFrame
    <3>3. ~ (Start \/ Crash \/ PartnerStep \/ \E t \in Attempt : HbStep(t))
      BY HbFrame DEF Start, Crash, PartnerStep, BeginAttempt, Timeout, ConfirmRecovery, partner
    <3>4. PICK t \in Attempt : FinishSync(t)
      BY <3>1, <3>2, <3>3 DEF Next, Step
    <3> QED
      BY <3>4 DEF FinishSync
  <2>2. Active(t) /\ sync_pc[t] = "finish"
    BY <2>1 DEF FinishSync, Arrived, CurrentSync, Active
  \* all entries have been gone through, each delivered and counted
  <2>3. sync_i[t] = recovery.blocks_received /\ got = 1..recovery.blocks_received
    BY <2>2 DEF IInv, Counted
  <2>4. sync_i[t] >= Len(dirtyVec) /\ sync_i[t] <= Len(dirtyVec)
    BY <2>2 DEF IInv, Settled, Covered, Going
  <2>5. sync_i[t] \in Nat /\ Len(dirtyVec) \in Nat
    BY DEF IInv, TypeOK, HelperTypeOK, SyncersTypeOK
  <2> QED
    BY <2>3, <2>4, <2>5
<1> QED
  BY <1>1, Invariance, PTL DEF Spec, OnlyCompleteRecoveries

\* The count check of FinishSync never refuses the sync thread of the current
\* attempt (PairedServer.cc, lines 141-146).
THEOREM CountsMatch == Spec => []CountsAgree
<1>1. IInv => CountsAgree
  BY DEF IInv, Counted, Active, CountsAgree, CurrentSync, Arrived, AllBlocksHere
<1> QED
  BY <1>1, Invariance, PTL

\* The helper leaves Standalone, and empties its dirty list, only while no
\* write handler holds the lock in shared mode.
THEOREM HandoverSafe == Spec => HandoverWaitsForWriters
<1> DEFINE Waits == repl_state = "Standalone" /\ repl_state' = "Normal" =>
                      \A w \in Writer : ~ SharedHolder(w)
<1>1. IInv /\ [Next]_vars => [Waits]_vars
  <2> SUFFICES ASSUME IInv, Next, repl_state = "Standalone", repl_state' = "Normal"
               PROVE  \A w \in Writer : ~ SharedHolder(w)
    OBVIOUS
  <2>1. PICK t \in Attempt : FinishAnswered(t)
    <3>1. \A t \in Attempt : SyncStep(t) => FinishAnswered(t)
      BY DEF SyncStep, TriggerSync, WhileSyncing, NextEntry, SendBlock, SendFinish, SyncBlock,
             FinishSync, SyncCallFails, BlockAnswered, helper
    <3>2. \A w \in Writer : ~ (StoreLocally(w) \/ WriteStep(w))
      BY DEF StoreLocally, WriteStep, CallBackup, BackupWrite, BeginMark, EndMark,
             WriteCallFails, AssumePartnerDown, helper
    <3>3. ~ (Start \/ Crash \/ PartnerStep \/ \E t \in Attempt : HbStep(t))
      BY PartnerFrame, HbFrame DEF helper
    <3> QED
      BY <3>1, <3>2, <3>3 DEF Next, Step
  <2>2. Finishing(t) /\ t # 0
    BY <2>1 DEF FinishAnswered, Finishing, Attempt
  <2> QED
    BY <2>2 DEF IInv, Held
<1> QED
  BY <1>1, Invariance, PTL DEF Spec, HandoverWaitsForWriters

----------------------------------------------------------------------------
(***************************************************************************)
(* As long as the recovery timer has not fired during a sync.              *)
(***************************************************************************)

Silent(id) == sync_pc[id] = "over"

\* Where Recover is: it starts a new round only when nothing of the last one
\* is left, and after FinishSync it only confirms the recovery.
Rounds ==
  /\ r_pc = "trigger" => recovery.sync_id \in triggers
  /\ r_pc = "begin" => recovery.sync_id = 0 \/ Silent(recovery.sync_id)
  /\ r_state # "Normal" => ~ recovery.done
  /\ r_state = "Recovering" => r_pc \in {"begin", "trigger", "wait"}
  /\ r_state = "Normal" =>
       /\ recovery.done /\ r_pc \in {"wait", "done"} /\ recovery.sync_id \in Attempt
       /\ sync_pc[recovery.sync_id] \in {"finish_ok", "finish_failed", "over"}

LEMMA RoundsStep ==
  ASSUME TypeOK, Ids, Counted, Rounds, [Next]_vars, ~ hasty'
  PROVE  Rounds'
<1>1. /\ sync_pc \in [Attempt -> {"none", "loop", "read", "block", "block_ok", "block_failed",
                                  "finish", "finish_ok", "finish_failed", "over"}]
      /\ recovery \in RecoveryRecord /\ attempt \in 0..MaxAttempts /\ triggers \subseteq Attempt
      /\ r_state \in {"Down", "Recovering", "Normal"}
      /\ r_pc \in {"off", "begin", "trigger", "wait", "done"}
      /\ 0 \notin Attempt
  BY BoundsNat DEF TypeOK, SyncersTypeOK, PartnerTypeOK, RecoveryRecord, Attempt
<1>2. CASE Start
  <2>1. recovery.sync_id = 0 /\ UNCHANGED <<recovery, triggers, sync_pc>>
    BY <1>2 DEF Start, Counted, syncers
  <2> QED
    BY <1>2, <2>1 DEF Start, Rounds, Silent
<1>3. CASE Crash
  BY <1>3 DEF Crash, Rounds, FreshRecovery
<1>4. CASE BeginAttempt
  <2>1. /\ r_pc' = "trigger" /\ recovery' = FreshRecovery(attempt + 1)
        /\ triggers' = triggers \union {attempt + 1} /\ r_state' = r_state
    BY <1>4 DEF BeginAttempt, NewRound
  <2>2. r_state # "Normal"
    BY <1>4 DEF BeginAttempt, Rounds
  <2> QED
    BY <2>1, <2>2 DEF Rounds, FreshRecovery
<1>5. CASE Timeout
  <2>1. /\ r_pc = "wait" /\ ~ recovery.done /\ Silent(recovery.sync_id) /\ r_pc' = "begin"
        /\ UNCHANGED <<r_state, recovery, triggers, sync_pc>>
    BY <1>5 DEF Timeout, Silent, syncers
  <2> QED
    BY <2>1 DEF Rounds, Silent
<1>6. CASE ConfirmRecovery
  BY <1>6 DEF ConfirmRecovery, Rounds, syncers
<1>7. ASSUME NEW t \in Attempt, HbStep(t) PROVE Rounds'
  BY <1>7, HbFrame DEF Rounds, Silent, syncers, partner
<1>8. ASSUME NEW t \in Attempt, TriggerSync(t) PROVE Rounds'
  <2>1. /\ t \in triggers /\ triggers' = triggers \ {t} /\ sync_pc' = [sync_pc EXCEPT ![t] = "loop"]
        /\ r_pc' = IF r_pc = "trigger" /\ recovery.sync_id = t THEN "wait" ELSE r_pc
        /\ UNCHANGED <<r_state, recovery>>
    BY <1>8 DEF TriggerSync, Reply
  <2>2. sync_pc[t] = "none"
    BY <2>1 DEF Ids
  <2>3. r_pc = "begin" /\ recovery.sync_id # 0 => recovery.sync_id # t /\ recovery.sync_id \in Attempt
    BY <1>1, <2>2 DEF Rounds, Silent, RecoveryRecord, Attempt
  <2>4. r_state = "Normal" => recovery.sync_id # t
    BY <2>2 DEF Rounds
  <2> QED
    BY <1>1, <2>1, <2>3, <2>4 DEF Rounds, Silent
<1>9. ASSUME NEW t \in Attempt, FinishSync(t), CurrentSync(t), AllBlocksHere(t) PROVE Rounds'
  <2>1. /\ sync_pc[t] = "finish" /\ sync_pc' = [sync_pc EXCEPT ![t] = "finish_ok"]
        /\ recovery' = [recovery EXCEPT !.done = TRUE] /\ r_state' = "Normal"
        /\ UNCHANGED <<r_pc, triggers>> /\ r_state = "Recovering" /\ recovery.sync_id = t
    BY <1>9 DEF FinishSync, Arrived, Reply, CurrentSync
  <2>2. recovery'.sync_id = t /\ recovery'.done
    BY <1>1, <2>1 DEF RecoveryRecord
  <2>3. r_pc = "wait"
    <3>1. t \notin triggers
      BY <2>1 DEF Ids
    <3>2. r_pc # "trigger"
      BY <2>1, <3>1 DEF Rounds
    <3>3. r_pc # "begin"
      BY <1>1, <2>1 DEF Rounds, Silent
    <3> QED
      BY <2>1, <3>2, <3>3 DEF Rounds
  <2> QED
    BY <1>1, <2>1, <2>2, <2>3 DEF Rounds
<1>10. ASSUME NEW t \in Attempt, SyncStep(t), ~ TriggerSync(t), UNCHANGED r_state PROVE Rounds'
  <2>1. /\ UNCHANGED <<triggers, r_pc>> /\ recovery'.sync_id = recovery.sync_id
        /\ \A u \in Attempt : u # t => sync_pc'[u] = sync_pc[u]
    BY <1>1, <1>10, SyncFrame
  <2>2. /\ sync_pc[t] # "over"
        /\ sync_pc[t] \in {"finish_ok", "finish_failed"} => sync_pc'[t] \in {"finish_failed", "over"}
    BY <1>1, <1>10
       DEF SyncStep, NextEntry, SendBlock, SendFinish, SyncBlock, FinishSync, SyncCallFails,
           BlockAnswered, FinishAnswered, Arrived, Reply, EndSync
  <2>3. recovery'.done = recovery.done
    <3>1. CASE SyncBlock(t)
      BY <1>1, <3>1 DEF SyncBlock, RecoveryRecord
    <3>2. CASE FinishSync(t)
      BY <1>1, <1>10, <3>2 DEF FinishSync, CurrentSync
    <3>3. CASE ~ SyncBlock(t) /\ ~ FinishSync(t)
      BY <1>10, <3>3
         DEF SyncStep, NextEntry, SendBlock, SendFinish, SyncCallFails, BlockAnswered,
             FinishAnswered, partner
    <3> QED
      BY <3>1, <3>2, <3>3
  <2>4. recovery.sync_id # 0 => recovery.sync_id \in Attempt
    BY <1>1 DEF RecoveryRecord, Attempt
  <2> QED
    BY <1>1, <1>10, <2>1, <2>2, <2>3, <2>4 DEF Rounds, Silent
<1>11. ASSUME NEW t \in Attempt, SyncStep(t) PROVE Rounds'
  <2>1. CASE TriggerSync(t)
    BY <1>8, <2>1
  <2>2. CASE FinishSync(t) /\ CurrentSync(t) /\ AllBlocksHere(t)
    BY <1>9, <2>2
  <2>3. CASE ~ TriggerSync(t) /\ ~ (FinishSync(t) /\ CurrentSync(t) /\ AllBlocksHere(t))
    <3>1. UNCHANGED r_state
      BY <1>11, <2>3
         DEF SyncStep, NextEntry, SendBlock, SendFinish, SyncBlock, FinishSync, SyncCallFails,
             BlockAnswered, FinishAnswered, partner
    <3> QED
      BY <1>10, <1>11, <2>3, <3>1
  <2> QED
    BY <2>1, <2>2, <2>3
<1>12. ASSUME NEW w \in Writer, StoreLocally(w) \/ WriteStep(w) PROVE Rounds'
  <2>1. UNCHANGED <<sync_pc, recovery, triggers, r_state, r_pc>>
    BY <1>12, WriterFrame DEF syncers
  <2> QED
    BY <2>1 DEF Rounds, Silent
<1>13. CASE UNCHANGED vars
  BY <1>13 DEF vars, Rounds, Silent, syncers, partner
<1> QED
  BY <1>2, <1>3, <1>4, <1>5, <1>6, <1>7, <1>11, <1>12, <1>13 DEF Next, Step, PartnerStep

\* A timer that once fired during a sync is not forgotten.
LEMMA HastyStays ==
  ASSUME [Next]_vars, hasty
  PROVE  hasty'
<1>1. CASE UNCHANGED vars
  BY <1>1 DEF vars
<1>2. CASE Start \/ Crash \/ PartnerStep
  BY <1>2 DEF Start, Crash, PartnerStep, BeginAttempt, Timeout, ConfirmRecovery
<1>3. ASSUME NEW t \in Attempt, SyncStep(t) \/ HbStep(t) PROVE hasty'
  BY <1>3 DEF SyncStep, TriggerSync, NextEntry, SendBlock, SendFinish, SyncBlock, FinishSync,
              SyncCallFails, BlockAnswered, FinishAnswered, HbStep, HeartbeatFails, HbReplaced,
              HbGivesUp
<1>4. ASSUME NEW w \in Writer, StoreLocally(w) \/ WriteStep(w) PROVE hasty'
  BY <1>4 DEF StoreLocally, WriteStep, CallBackup, BackupWrite, BeginMark, EndMark, WriteCallFails,
              AssumePartnerDown
<1> QED
  BY <1>1, <1>2, <1>3, <1>4 DEF Next, Step

\* As long as the recovery timer has never fired during a sync, a SyncBlock or
\* FinishSync that reaches a server in Normal is of an earlier attempt, as the
\* comment on PairedServer.cc line 110 has it.
THEOREM StaleOnly == Spec => []SyncInOtherModeIsStale
<1> DEFINE R == hasty \/ Rounds
<1>1. Init => R
  BY DEF Init, Rounds, FreshRecovery
<1>2. IInv /\ R /\ [Next]_vars => R'
  BY RoundsStep, HastyStays DEF IInv
<1>3. R => SyncInOtherModeIsStale
  BY DEF Rounds, SyncInOtherModeIsStale, Arrived
<1> QED
  BY <1>1, <1>2, <1>3, Invariance, PTL DEF Spec

----------------------------------------------------------------------------
(***************************************************************************)
(* The dirty list, whatever the number of handlers.                        *)
(***************************************************************************)

\* A sync thread that has been told the partner took the list has gone through
\* all of it: from its FinishSync on it holds the lock, which whoever changes
\* the list needs.
ListKept ==
  \A t \in Attempt : sync_pc[t] = "finish_ok" => sync_i[t] = Len(dirtyVec)

LEMMA ListKeptStep == IInv /\ ListKept /\ [Next]_vars => ListKept'
<1> SUFFICES ASSUME IInv, ListKept, [Next]_vars PROVE ListKept'
  OBVIOUS
<1>1. /\ sync_pc \in [Attempt -> {"none", "loop", "read", "block", "block_ok", "block_failed",
                                  "finish", "finish_ok", "finish_failed", "over"}]
      /\ sync_i \in [Attempt -> Nat] /\ Len(dirtyVec) \in Nat
      /\ 0 \notin Attempt
  BY DEF IInv, TypeOK, HelperTypeOK, SyncersTypeOK, Attempt
<1>2. \A t \in Attempt : Finishing(t) => stateMutex = t /\ \A w \in Writer : ~ SharedHolder(w)
  BY <1>1 DEF IInv, Held
<1>3. CASE Start \/ Crash \/ PartnerStep
  BY <1>3, PartnerFrame DEF ListKept, helper, syncers
<1>4. ASSUME NEW t \in Attempt, HbStep(t) PROVE ListKept'
  BY <1>4, HbFrame DEF ListKept, syncers
<1>5. ASSUME NEW t \in Attempt, FinishSync(t) PROVE ListKept'
  <2>1. UNCHANGED <<sync_i, dirtyVec>> /\ sync_pc[t] = "finish"
    BY <1>5 DEF FinishSync, Arrived, helper
  <2>2. CASE CurrentSync(t) /\ AllBlocksHere(t)
    \* the thread has gone through the whole list: Settled and Covered
    <3>1. sync_i[t] = Len(dirtyVec)
      BY <1>1, <2>1, <2>2 DEF IInv, Settled, Covered, Going, Active, CurrentSync
    <3> QED
      BY <1>1, <1>5, <2>1, <2>2, <3>1 DEF FinishSync, ListKept, Reply
  <2>3. CASE ~ (CurrentSync(t) /\ AllBlocksHere(t))
    BY <1>1, <1>5, <2>1, <2>3 DEF FinishSync, ListKept, Reply
  <2> QED
    BY <2>2, <2>3
<1>6. ASSUME NEW t \in Attempt, FinishAnswered(t) PROVE ListKept'
  \* the lock is t's: no other thread finishes
  <2>1. sync_pc' = [sync_pc EXCEPT ![t] = "over"] /\ Finishing(t)
    BY <1>6 DEF FinishAnswered, EndSync, Finishing
  <2>2. \A u \in Attempt : sync_pc'[u] # "finish_ok"
    BY <1>1, <1>2, <2>1 DEF Finishing
  <2> QED
    BY <2>2 DEF ListKept
<1>7. ASSUME NEW t \in Attempt, SyncStep(t), ~ FinishSync(t), ~ FinishAnswered(t) PROVE ListKept'
  <2>1. /\ UNCHANGED dirtyVec
        /\ \A u \in Attempt : sync_pc'[u] = "finish_ok" => sync_pc[u] = "finish_ok"
        /\ \A u \in Attempt : sync_pc[u] = "finish_ok" => sync_i'[u] = sync_i[u] \/ sync_pc'[u] # "finish_ok"
    <3> USE <1>1 DEF helper, Reply
    <3>1. CASE TriggerSync(t)
      BY <3>1 DEF TriggerSync
    <3>2. CASE NextEntry(t)
      BY <3>2 DEF NextEntry
    <3>3. CASE SendBlock(t)
      BY <3>3 DEF SendBlock
    <3>4. CASE SendFinish(t)
      BY <3>4 DEF SendFinish
    <3>5. CASE SyncBlock(t)
      BY <3>5 DEF SyncBlock
    <3>6. CASE SyncCallFails(t)
      BY <3>6 DEF SyncCallFails
    <3>7. CASE BlockAnswered(t)
      BY <3>7 DEF BlockAnswered, EndSync
    <3> QED
      BY <1>7, <3>1, <3>2, <3>3, <3>4, <3>5, <3>6, <3>7 DEF SyncStep
  <2> QED
    BY <2>1 DEF ListKept
<1>8. ASSUME NEW w \in Writer, StoreLocally(w) \/ WriteStep(w) PROVE ListKept'
  <2>1. UNCHANGED <<sync_pc, sync_i>>
    BY <1>8, WriterFrame DEF syncers
  \* whoever changes the list found no thread finishing
  <2>2. UNCHANGED dirtyVec \/ \A t \in Attempt : ~ Finishing(t)
    BY <1>1, <1>2, <1>8, WriterFrame DEF EndMark, AssumePartnerDown, CanLock, SharedHolder
  <2> QED
    BY <2>1, <2>2 DEF ListKept, Finishing
<1>9. CASE UNCHANGED vars
  BY <1>9 DEF vars, ListKept, helper, syncers
<1> QED
  BY <1>3, <1>4, <1>5, <1>6, <1>7, <1>8, <1>9 DEF Next, Step

\* An address leaves the dirty list only when a sync thread has been told that
\* the partner took the whole list (ClearDirty in BeginSynchronization,
\* PairedServer.cc), or when a write handler in MarkDirty overwrites what another
\* one has inserted since its lookup (ReplicationModule.cc, lines 73-78, under
\* the shared lock).  Any number of handlers.
THEOREM DirtyKept == Spec => DirtyKeptUntilDelivered
<1> DEFINE Kept == \A n \in 1..Len(dirtyVec) :
                     \/ n <= Len(dirtyVec') /\ dirtyVec'[n] = dirtyVec[n]
                     \/ \E t \in Attempt : sync_pc[t] = "finish_ok" /\ sync_i[t] = Len(dirtyVec)
                     \/ \E w \in Writer : Overtaken(w)
<1>1. Init => ListKept
  BY DEF Init, ListKept
<1>2. IInv /\ ListKept /\ [Next]_vars => ListKept'
  BY ListKeptStep
<1>3. IInv /\ ListKept /\ [Next]_vars => [Kept]_vars
  <2> SUFFICES ASSUME IInv, ListKept, Next PROVE Kept
    OBVIOUS
  <2>1. dirtyVec \in Seq(Address) /\ Len(dirtyVec) \in Nat
    BY DEF IInv, TypeOK, HelperTypeOK
  <2>2. CASE UNCHANGED dirtyVec
    BY <2>1, <2>2
  \* an entry is added at the end of the list as it is
  <2>3. ASSUME NEW a \in Address, dirtyVec' = Append(dirtyVec, a) PROVE Kept
    BY <2>1, <2>3
  <2>4. ASSUME NEW w \in Writer, EndMark(w) \/ AssumePartnerDown(w) PROVE Kept
    <3>1. w_addr[w] \in Address
      BY <2>4 DEF IInv, Locals, WriteLocals, EndMark, AssumePartnerDown
    <3>2. Overtaken(w) \/ dirtyVec' = dirtyVec \/ dirtyVec' = Append(dirtyVec, w_addr[w])
      <4>1. CASE AssumePartnerDown(w)
        BY <4>1 DEF AssumePartnerDown, MarkDirty
      <4>2. CASE EndMark(w)
        <5>1. w_pc[w] = "marking" /\ w_pc'[w] = "idle"
          BY <4>2 DEF EndMark, EndWrite, IInv, TypeOK, WritersTypeOK
        <5> QED
          BY <4>2, <5>1 DEF EndMark, InsertDirty, Overtaken
      <4> QED
        BY <2>4, <4>1, <4>2
    <3> QED
      BY <2>2, <2>3, <3>1, <3>2
  <2>5. ASSUME NEW t \in Attempt, FinishAnswered(t) PROVE Kept
    <3>1. dirtyVec' = dirtyVec \/ sync_pc[t] = "finish_ok"
      BY <2>5 DEF FinishAnswered
    <3>2. sync_pc[t] = "finish_ok" => sync_i[t] = Len(dirtyVec)
      BY DEF ListKept
    <3> QED
      BY <2>2, <3>1, <3>2
  <2>6. ASSUME NEW t \in Attempt, SyncStep(t), ~ FinishAnswered(t) PROVE UNCHANGED dirtyVec
    BY <2>6
       DEF SyncStep, TriggerSync, NextEntry, SendBlock, SendFinish, SyncBlock, FinishSync,
           SyncCallFails, BlockAnswered, helper
  <2>7. ASSUME Start \/ Crash \/ PartnerStep \/ \E t \in Attempt : HbStep(t)
        PROVE  UNCHANGED dirtyVec
    BY <2>7, PartnerFrame, HbFrame DEF helper
  <2> QED
    BY <2>2, <2>4, <2>5, <2>6, <2>7, WriterFrame DEF Next, Step
<1> QED
  BY <1>1, <1>2, <1>3, Invariance, PTL DEF Spec, DirtyKeptUntilDelivered
=============================================================================
