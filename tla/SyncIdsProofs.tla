---------------------------- MODULE SyncIdsProofs ----------------------------
(***************************************************************************)
(* The proof of EveryEntryReceived of SyncIds for any number of starts,    *)
(* draws, attempts and entries.                                            *)
(*                                                                         *)
(* What one thread has had received in an attempt is a run of entries: the *)
(* current thread's begins with the first entry (FromFirst), that of a     *)
(* leftover thread ends with the entry it has reached (UpToLast).  As      *)
(* FinishSync compares the length of the list with the number of blocks,   *)
(* two such runs that leave a gap are too short.                           *)
(***************************************************************************)
EXTENDS SyncIds, FiniteSetTheorems, TLAPS

ThreadRecord ==
  [pc : {"none", "asked", "loop", "read", "block", "checked", "finish", "finish_ok",
         "finish_failed", "over"}, i : Nat, to : Int]
Sending(t)   == thread[t].pc \in {"read", "block", "checked"}
Finishing(t) == thread[t].pc \in {"finish", "finish_ok", "finish_failed"}

\* The entries a thread has behind it.
Reached(t) == IF Sending(t) THEN thread[t].i - 1 ELSE thread[t].i

TypeOK ==
  /\ size \in Nat /\ stateMutex \in {"free", "held"}
  /\ thread \in [Thread -> ThreadRecord]
  /\ repl_state \in {"Down", "Recovering", "Normal"} /\ start \in Nat
  /\ recovery \in [sync_id : Nat, blocks_received : Nat]
  /\ received \subseteq Thread \X Nat

\* A thread exists from the draw of its id; what is ahead of it is the list.
Threads ==
  \A t \in Thread :
    /\ t[1] > start \/ (t[1] = start /\ SyncId(t) > recovery.sync_id) => thread[t].pc = "none"
    /\ thread[t].pc \in {"none", "asked"} => thread[t].i = 0
    /\ Sending(t) => thread[t].i > 0

\* Around FinishSync the lock is held, by one thread, and the list does not grow.
Held ==
  /\ \A t \in Thread : Finishing(t) => stateMutex = "held"
  /\ \A t, u \in Thread : Finishing(t) /\ Finishing(u) => t = u
  /\ \A t \in Thread : thread[t].pc = "finish" => thread[t].i >= size

\* Every block that is counted is another one, of a thread with the current id.
Counted ==
  /\ IsFiniteSet(received) /\ recovery.blocks_received = Cardinality(received)
  /\ \A r \in received : Current(r[1]) /\ r[2] \in 1..Reached(r[1])

\* A thread that goes on leaves out no entry.
UpToLast ==
  \A t \in Thread, i, j \in Nat :
    <<t, i>> \in received /\ i < j /\ j <= Reached(t) /\ thread[t].pc # "over"
      => <<t, j>> \in received

\* The current thread begins with the first one.
FromFirst ==
  \A t \in Thread : t[1] = start /\ Current(t) =>
    /\ \A i, j \in Nat : <<t, i>> \in received /\ 1 <= j /\ j < i => <<t, j>> \in received
    /\ thread[t].pc # "over" => \A j \in 1..Reached(t) : <<t, j>> \in received

IInv == TypeOK /\ Threads /\ Held /\ Counted /\ UpToLast /\ FromFirst

----------------------------------------------------------------------------
(***************************************************************************)
(* Facts about one state.                                                  *)
(***************************************************************************)

LEMMA Bounds == MaxStarts \in Nat /\ MaxDraws \in Nat /\ MaxAttempts \in Nat /\ MaxWrites \in Nat
BY SyncIdsAssumption

LEMMA ThreadFacts ==
  ASSUME NEW t \in Thread
  PROVE  t[1] \in Nat /\ t[2] \in Nat /\ t[1] > 0 /\ t[2] > 0 /\ t = <<t[1], t[2]>>
BY Bounds DEF Thread

LEMMA ThreadType ==
  ASSUME TypeOK, NEW t \in Thread
  PROVE  /\ thread[t] \in ThreadRecord /\ thread[t].i \in Nat /\ Reached(t) \in Int
         /\ thread[t].pc \in {"none", "asked", "loop", "read", "block", "checked", "finish",
                              "finish_ok", "finish_failed", "over"}
<1>1. thread[t] \in ThreadRecord
  BY DEF TypeOK
<1> QED
  BY <1>1 DEF ThreadRecord, Reached

----------------------------------------------------------------------------
(***************************************************************************)
(* The invariant.                                                          *)
(***************************************************************************)

LEMMA Initially == Init => IInv
<1> SUFFICES ASSUME Init PROVE IInv
  OBVIOUS
<1>1. /\ \A t \in Thread : thread[t] = [pc |-> "none", i |-> 0, to |-> 0]
      /\ received = {} /\ size = 0 /\ start = 0 /\ recovery = [sync_id |-> 0, blocks_received |-> 0]
      /\ repl_state = "Down" /\ stateMutex = "free"
  BY DEF Init, Fresh
<1>2. TypeOK
  BY <1>1 DEF Init, TypeOK, ThreadRecord
<1>3. \A t \in Thread : thread[t].pc = "none" /\ thread[t].i = 0 /\ ~ Sending(t) /\ ~ Finishing(t)
  BY <1>1 DEF Sending, Finishing
<1>4. Threads /\ Held
  BY <1>3 DEF Threads, Held
<1>5. Counted
  BY <1>1, FS_EmptySet DEF Counted
<1>6. UpToLast /\ FromFirst
  BY <1>1, <1>3, ThreadFacts DEF UpToLast, FromFirst, Reached
<1> QED
  BY <1>2, <1>4, <1>5, <1>6 DEF IInv

\* What becomes of one thread when no block is counted.
LEMMA ThreadFrame ==
  ASSUME IInv, UNCHANGED <<start, recovery, received>>,
         size' \in Nat, stateMutex' \in {"free", "held"},
         repl_state' \in {"Down", "Recovering", "Normal"},
         NEW t \in Thread, NEW th \in ThreadRecord, thread' = [thread EXCEPT ![t] = th],
         thread[t].pc \notin {"none", "over"}, th.pc \notin {"none", "asked"},
         th.pc \in {"read", "block", "checked"} => th.i > 0,
         \/ Reached(t)' = Reached(t)
         \/ th.pc = "over" /\ th.i = thread[t].i,
         Held'
  PROVE  IInv'
<1>1. /\ thread \in [Thread -> ThreadRecord] /\ thread' \in [Thread -> ThreadRecord]
      /\ thread'[t] = th /\ \A u \in Thread : u # t => thread'[u] = thread[u]
  BY DEF IInv, TypeOK
<1>2. TypeOK'
  BY <1>1 DEF IInv, TypeOK
<1>3. \A u \in Thread : u # t => Sending(u)' = Sending(u) /\ Reached(u)' = Reached(u)
  BY <1>1 DEF Sending, Reached
<1>4. Reached(t) \in Int /\ Reached(t)' \in Int /\ Reached(t) <= Reached(t)'
  <2>1. TypeOK /\ TypeOK'
    BY <1>2 DEF IInv
  <2>2. Reached(t) \in Int /\ Reached(t)' \in Int /\ thread[t].i \in Nat
    BY <1>1, <2>1, ThreadType DEF ThreadRecord, Reached
  <2>3. th.pc = "over" /\ th.i = thread[t].i => Reached(t)' = thread[t].i
    BY <1>1 DEF Reached, Sending
  <2>4. Reached(t) <= thread[t].i
    BY <2>2 DEF Reached
  <2> QED
    BY <2>2, <2>3, <2>4
<1>5. Threads'
  BY <1>1, <1>3 DEF IInv, Threads, Sending, SyncId
<1>6. Counted'
  <2>1. ASSUME NEW r \in received PROVE Current(r[1])' /\ r[2] \in 1..Reached(r[1])'
    <3>1. Current(r[1]) /\ r[2] \in 1..Reached(r[1]) /\ r[1] \in Thread
      BY DEF IInv, Counted, TypeOK
    <3>2. Reached(r[1]) \in Int
      BY <3>1, ThreadType DEF IInv
    <3>3. r[1] # t => Reached(r[1])' = Reached(r[1])
      BY <1>3, <3>1
    <3> QED
      BY <1>4, <3>1, <3>2, <3>3 DEF Current
  <2> QED
    BY <2>1 DEF IInv, Counted
<1>7. UpToLast'
  BY <1>1, <1>3 DEF IInv, UpToLast
<1>8. FromFirst'
  BY <1>1, <1>3 DEF IInv, FromFirst, Current
<1> QED
  BY <1>2, <1>5, <1>6, <1>7, <1>8 DEF IInv

\* A step that leaves the threads as they are.
LEMMA QuietFrame ==
  ASSUME IInv, UNCHANGED <<thread, start, recovery, received>>,
         size' \in Nat, stateMutex' = stateMutex,
         repl_state' \in {"Down", "Recovering", "Normal"},
         size' = size \/ stateMutex = "free"
  PROVE  IInv'
<1>1. Held'
  BY DEF IInv, Held, Finishing
<1>2. TypeOK' /\ Threads' /\ Counted' /\ UpToLast' /\ FromFirst'
  BY DEF IInv, TypeOK, Threads, Counted, UpToLast, FromFirst, Sending, SyncId, Current, Reached
<1> QED
  BY <1>1, <1>2 DEF IInv

\* The partner forgets an attempt.
LEMMA StartStep == IInv /\ Start => IInv'
<1> SUFFICES ASSUME IInv, Start PROVE IInv'
  OBVIOUS
<1>1. /\ start' = start + 1 /\ recovery' = [sync_id |-> 0, blocks_received |-> 0]
      /\ received' = {} /\ repl_state' = "Recovering" /\ UNCHANGED <<size, stateMutex, thread>>
      /\ start \in Nat
  BY DEF Start, Fresh, helper, IInv, TypeOK
<1>2. TypeOK' /\ Held'
  BY <1>1 DEF IInv, TypeOK, Held, Finishing
<1>3. Threads'
  BY <1>1, ThreadFacts DEF IInv, Threads, Sending, SyncId
<1>4. Counted' /\ UpToLast'
  BY <1>1, FS_EmptySet DEF Counted, UpToLast
<1>5. FromFirst'
  BY <1>1, ThreadFacts DEF FromFirst, Current, SyncId
<1> QED
  BY <1>2, <1>3, <1>4, <1>5 DEF IInv

LEMMA BeginAttemptStep == IInv /\ BeginAttempt => IInv'
<1> SUFFICES ASSUME IInv, BeginAttempt PROVE IInv'
  OBVIOUS
<1> DEFINE draw == recovery.sync_id + 1
           c == <<start, draw>>
<1>1. /\ recovery' = [sync_id |-> draw, blocks_received |-> 0] /\ draw \in Nat
      /\ received' = {} /\ UNCHANGED <<size, stateMutex, repl_state, start>>
      /\ thread' = [thread EXCEPT ![c].pc = "asked"] /\ start \in Nat
      /\ thread \in [Thread -> ThreadRecord]
  BY DEF BeginAttempt, Fresh, helper, IInv, TypeOK
<1>2. c \in Thread => thread[c].pc = "none" /\ thread[c].i = 0
  BY <1>1 DEF IInv, Threads, SyncId, TypeOK
<1>3. /\ \A t \in Thread : t # c => thread'[t] = thread[t]
      /\ c \in Thread => thread'[c].pc = "asked" /\ thread'[c].i = 0
  BY <1>1, <1>2 DEF ThreadRecord
<1>4. TypeOK'
  <2>1. thread' \in [Thread -> ThreadRecord]
    BY <1>1 DEF ThreadRecord
  <2> QED
    BY <1>1, <2>1 DEF IInv, TypeOK
<1>5. Threads'
  <2>1. ASSUME NEW t \in Thread, t[1] > start \/ (t[1] = start /\ SyncId(t) > draw)
        PROVE  t # c /\ thread[t].pc = "none"
    BY <1>1, <2>1, ThreadFacts DEF IInv, Threads, SyncId, TypeOK
  <2>2. \A t \in Thread : thread'[t].pc \in {"none", "asked"} => thread'[t].i = 0
    BY <1>3 DEF IInv, Threads
  <2>3. \A t \in Thread : Sending(t)' => thread'[t].i > 0
    BY <1>3 DEF IInv, Threads, Sending
  <2> QED
    BY <1>1, <1>3, <2>1, <2>2, <2>3 DEF Threads, SyncId
<1>6. Held'
  <2>1. \A t \in Thread : Finishing(t)' => Finishing(t) /\ thread'[t] = thread[t]
    BY <1>3 DEF Finishing
  <2>2. \A t \in Thread : thread'[t].pc = "finish" => thread[t].pc = "finish" /\ thread'[t] = thread[t]
    BY <1>3
  <2> QED
    BY <1>1, <2>1, <2>2 DEF IInv, Held
<1>7. Counted' /\ UpToLast'
  BY <1>1, FS_EmptySet DEF Counted, UpToLast
<1>8. FromFirst'
  <2>1. ASSUME NEW t \in Thread, t[1] = start', Current(t)' PROVE Reached(t)' = 0
    <3>1. t = c
      BY <1>1, <2>1, ThreadFacts DEF Current, SyncId
    <3> QED
      BY <1>3, <3>1 DEF Reached, Sending
  <2> QED
    BY <1>1, <2>1 DEF FromFirst
<1> QED
  BY <1>4, <1>5, <1>6, <1>7, <1>8 DEF IInv

\* Another block is counted.
LEMMA CommitStep ==
  ASSUME IInv, NEW t \in Thread, CommitBlock(t)
  PROVE  IInv'
<1>1. /\ thread \in [Thread -> ThreadRecord] /\ thread[t].pc = "checked" /\ thread[t].i \in Nat
      /\ thread[t].i > 0 /\ t \in Thread /\ TypeOK
      /\ UNCHANGED <<size, stateMutex, repl_state, start>>
  BY ThreadType DEF IInv, TypeOK, CommitBlock, Arrived, Threads, Sending, helper
<1>2. CASE ~ Current(t)
  <2> DEFINE th == [thread[t] EXCEPT !.pc = "over"]
  <2>1. /\ thread' = [thread EXCEPT ![t] = th] /\ th \in ThreadRecord /\ th.pc = "over"
        /\ th.i = thread[t].i /\ UNCHANGED <<recovery, received>>
    BY <1>1, <1>2 DEF CommitBlock, Goes, ThreadRecord
  <2>2. Held'
    BY <1>1, <2>1 DEF IInv, Held, Finishing
  <2> QED
    BY <1>1, <2>1, <2>2, ThreadFrame DEF IInv, TypeOK
<1>3. CASE Current(t)
  <2> DEFINE n == thread[t].i
  <2>1. /\ recovery' = [recovery EXCEPT !.blocks_received = @ + 1]
        /\ received' = received \union {<<t, n>>}
        /\ thread' = [thread EXCEPT ![t].pc = "loop"]
    BY <1>3 DEF CommitBlock, Goes
  <2>2. /\ thread' \in [Thread -> ThreadRecord] /\ thread'[t].pc = "loop" /\ thread'[t].i = n
        /\ \A u \in Thread : u # t => thread'[u] = thread[u]
    BY <1>1, <2>1 DEF ThreadRecord
  <2>3. /\ Reached(t) = n - 1 /\ Reached(t)' = n
        /\ \A u \in Thread : u # t => Reached(u)' = Reached(u) /\ Sending(u)' = Sending(u)
        /\ ~ Sending(t)'
    BY <1>1, <2>2 DEF Reached, Sending
  <2>4. /\ recovery'.sync_id = recovery.sync_id
        /\ recovery'.blocks_received = recovery.blocks_received + 1
        /\ recovery' \in [sync_id : Nat, blocks_received : Nat]
    BY <2>1 DEF IInv, TypeOK
  <2>5. TypeOK'
    BY <1>1, <2>1, <2>2, <2>4 DEF TypeOK
  <2>6. Threads'
    BY <1>1, <2>2, <2>3, <2>4 DEF IInv, Threads, SyncId
  <2>7. Held'
    BY <1>1, <2>2 DEF IInv, Held, Finishing
  <2>8. ASSUME NEW r \in received
        PROVE  r[1] \in Thread /\ r[2] \in Nat /\ Current(r[1]) /\ r[2] \in 1..Reached(r[1])
               /\ r = <<r[1], r[2]>> /\ Reached(r[1]) \in Int
    <3>1. r[1] \in Thread /\ r[2] \in Nat /\ r = <<r[1], r[2]>>
      BY DEF IInv, TypeOK
    <3> QED
      BY <1>1, <3>1, ThreadType DEF IInv, Counted
  <2>9. <<t, n>> \notin received
    BY <1>1, <2>3, <2>8
  <2>10. Counted'
    <3>1. ASSUME NEW r \in received' PROVE Current(r[1])' /\ r[2] \in 1..Reached(r[1])'
      <4>1. CASE r \in received
        <5>1. r[1] # t => Reached(r[1])' = Reached(r[1])
          BY <2>3, <2>8, <4>1
        <5> QED
          BY <1>1, <2>3, <2>4, <2>8, <4>1, <5>1 DEF Current
      <4>2. CASE r = <<t, n>>
        BY <1>1, <1>3, <2>3, <2>4, <4>2 DEF Current
      <4> QED
        BY <2>1, <4>1, <4>2
    <3>2. IsFiniteSet(received') /\ Cardinality(received') = Cardinality(received) + 1
      BY <2>1, <2>9, FS_AddElement DEF IInv, Counted
    <3> QED
      BY <2>4, <3>1, <3>2 DEF IInv, Counted
  <2>11. UpToLast'
    <3> SUFFICES ASSUME NEW u \in Thread, NEW i \in Nat, NEW j \in Nat, <<u, i>> \in received',
                        i < j, j <= Reached(u)', thread'[u].pc # "over"
                 PROVE  <<u, j>> \in received'
      BY DEF UpToLast
    <3>1. CASE u # t
      <4>1. <<u, i>> \in received /\ thread[u].pc # "over" /\ j <= Reached(u)
        BY <2>1, <2>2, <2>3, <3>1
      <4> QED
        BY <2>1, <4>1 DEF IInv, UpToLast
    <3>2. CASE u = t /\ j # n
      <4>1. j <= Reached(t) /\ i # n
        BY <1>1, <2>3, <3>2
      <4>2. <<t, i>> \in received
        BY <2>1, <3>2, <4>1
      <4> QED
        BY <1>1, <2>1, <3>2, <4>1, <4>2 DEF IInv, UpToLast
    <3>3. CASE u = t /\ j = n
      BY <2>1, <3>3
    <3> QED
      BY <3>1, <3>2, <3>3
  <2>12. FromFirst'
    <3> SUFFICES ASSUME NEW u \in Thread, u[1] = start, Current(u)
                 PROVE  /\ \A i, j \in Nat : <<u, i>> \in received' /\ 1 <= j /\ j < i =>
                             <<u, j>> \in received'
                        /\ thread'[u].pc # "over" => \A j \in 1..Reached(u)' : <<u, j>> \in received'
      BY <1>1, <2>4 DEF FromFirst, Current
    <3>1. /\ \A i, j \in Nat : <<u, i>> \in received /\ 1 <= j /\ j < i => <<u, j>> \in received
          /\ thread[u].pc # "over" => \A j \in 1..Reached(u) : <<u, j>> \in received
      BY DEF IInv, FromFirst
    <3>2. CASE u # t
      BY <2>1, <2>2, <2>3, <3>1, <3>2
    <3>3. CASE u = t
      <4>1. \A j \in 1..n : <<t, j>> \in received'
        <5> SUFFICES ASSUME NEW j \in 1..n PROVE <<t, j>> \in received'
          OBVIOUS
        <5>1. j # n => j \in 1..Reached(t)
          BY <1>1, <2>3
        <5> QED
          BY <1>1, <2>1, <3>1, <3>3, <5>1
      <4>2. ASSUME NEW i \in Nat, NEW j \in Nat, <<t, i>> \in received', 1 <= j, j < i
            PROVE  <<t, j>> \in received'
        <5>1. CASE <<t, i>> \in received
          BY <2>1, <3>1, <3>3, <4>2, <5>1
        <5>2. CASE i = n
          BY <1>1, <4>1, <4>2, <5>2
        <5> QED
          BY <2>1, <4>2, <5>1, <5>2
      <4> QED
        BY <2>3, <3>3, <4>1, <4>2
    <3> QED
      BY <3>2, <3>3
  <2> QED
    BY <2>5, <2>6, <2>7, <2>10, <2>11, <2>12 DEF IInv
<1> QED
  BY <1>2, <1>3

\* A thread gets where it does not finish, or goes on finishing.
LEMMA HeldFrame ==
  ASSUME IInv, UNCHANGED <<size, stateMutex>>, NEW t \in Thread, NEW th \in ThreadRecord,
         thread' = [thread EXCEPT ![t] = th], th.i = thread[t].i \/ th.pc # "finish",
         th.pc \in {"finish_ok", "finish_failed"} => Finishing(t), th.pc # "finish"
  PROVE  Held'
<1>1. /\ thread'[t] = th /\ \A u \in Thread : u # t => thread'[u] = thread[u]
  BY DEF IInv, TypeOK
<1>2. \A u \in Thread : Finishing(u)' => Finishing(u)
  BY <1>1 DEF Finishing
<1> QED
  BY <1>1, <1>2 DEF IInv, Held

\* A thread that makes a call.
LEMMA SentTo ==
  ASSUME NEW th \in ThreadRecord, NEW pc \in {"block", "finish"}, NEW n \in Int
  PROVE  /\ [th EXCEPT !.pc = pc, !.to = n] \in ThreadRecord
         /\ [th EXCEPT !.pc = pc, !.to = n].pc = pc
         /\ [th EXCEPT !.pc = pc, !.to = n].i = th.i
BY DEF ThreadRecord

LEMMA ThreadSteps ==
  ASSUME IInv, NEW t \in Thread,
         TriggerSync(t) \/ NextEntry(t) \/ SendBlock(t) \/ SendFinish(t) \/ CheckState(t)
           \/ FinishSync(t) \/ FinishAnswered(t) \/ CallFails(t)
  PROVE  IInv'
<1>1. /\ TypeOK /\ thread \in [Thread -> ThreadRecord] /\ thread[t] \in ThreadRecord
      /\ thread[t].i \in Nat /\ size \in Nat /\ start \in Nat
      /\ stateMutex \in {"free", "held"} /\ repl_state \in {"Down", "Recovering", "Normal"}
      /\ Sending(t) => thread[t].i > 0
  BY ThreadType DEF IInv, TypeOK, Threads
<1>2. thread[t] \in ThreadRecord /\ start \in Int
  BY <1>1
\* A thread that only goes to another place.
<1>3. ASSUME NEW pc, Goes(t, pc), UNCHANGED <<size, stateMutex, start, recovery, received>>,
             repl_state' \in {"Down", "Recovering", "Normal"}, thread[t].pc \notin {"none", "over"},
             pc \in {"loop", "checked", "finish_ok", "finish_failed", "over"},
             pc = "loop" => thread[t].pc = "asked",
             pc = "checked" => thread[t].pc = "block",
             pc \in {"finish_ok", "finish_failed"} => Finishing(t)
      PROVE  IInv'
  <2> DEFINE th == [thread[t] EXCEPT !.pc = pc]
  <2>1. thread' = [thread EXCEPT ![t] = th] /\ th \in ThreadRecord /\ th.pc = pc /\ th.i = thread[t].i
    BY <1>1, <1>3 DEF Goes, ThreadRecord
  <2> HIDE DEF th
  <2>2. Held'
    BY <1>3, <2>1, HeldFrame
  <2>3. thread'[t] = th
    BY <1>1, <2>1
  <2>4. Reached(t)' = Reached(t) \/ pc = "over"
    BY <1>3, <2>1, <2>3 DEF Reached, Sending, Finishing
  <2>5. pc = "checked" => th.i > 0
    BY <1>1, <1>3, <2>1 DEF Sending
  <2> QED
    BY <1>1, <1>3, <2>1, <2>2, <2>4, <2>5, ThreadFrame
<1>4. CASE TriggerSync(t)
  BY <1>1, <1>3, <1>4 DEF TriggerSync, helper
<1>5. CASE CheckState(t)
  <2>1. /\ thread[t].pc = "block"
        /\ Goes(t, "checked") \/ Goes(t, "over")
        /\ UNCHANGED <<size, stateMutex, repl_state, start, recovery, received>>
    BY <1>5 DEF CheckState, Arrived, helper
  <2>2. Goes(t, "checked") => IInv'
    BY <1>1, <1>3, <2>1
  <2>3. Goes(t, "over") => IInv'
    BY <1>1, <1>3, <2>1
  <2> QED
    BY <2>1, <2>2, <2>3
<1>6. CASE FinishSync(t)
  <2>1. /\ thread[t].pc = "finish"
        /\ Goes(t, "finish_ok") \/ Goes(t, "finish_failed")
        /\ repl_state' = "Normal" \/ repl_state' = repl_state
        /\ UNCHANGED <<size, stateMutex, start, recovery, received>>
    BY <1>6 DEF FinishSync, Arrived, helper
  <2>2. Goes(t, "finish_ok") => IInv'
    BY <1>1, <1>3, <2>1 DEF Finishing
  <2>3. Goes(t, "finish_failed") => IInv'
    BY <1>1, <1>3, <2>1 DEF Finishing
  <2> QED
    BY <2>1, <2>2, <2>3
<1>7. CASE CallFails(t)
  <2>1. /\ \/ thread[t].pc \in {"block", "checked"} /\ Goes(t, "over")
           \/ thread[t].pc \in {"finish", "finish_ok"} /\ Goes(t, "finish_failed")
        /\ UNCHANGED <<size, stateMutex, repl_state, start, recovery, received>>
    BY <1>7 DEF CallFails, helper
  <2>2. CASE thread[t].pc \in {"block", "checked"} /\ Goes(t, "over")
    BY <1>1, <1>3, <2>1, <2>2
  <2>3. CASE thread[t].pc \in {"finish", "finish_ok"} /\ Goes(t, "finish_failed")
    BY <1>1, <1>3, <2>1, <2>3 DEF Finishing
  <2> QED
    BY <2>1, <2>2, <2>3
<1>8. CASE NextEntry(t)
  <2> DEFINE th == [pc |-> "read", i |-> thread[t].i + 1, to |-> 0]
  <2>1. /\ thread[t].pc = "loop" /\ thread' = [thread EXCEPT ![t] = th]
        /\ UNCHANGED <<size, stateMutex, repl_state, start, recovery, received>>
    BY <1>8 DEF NextEntry, helper
  <2>2. th \in ThreadRecord /\ th.pc = "read" /\ th.i > 0
    BY <1>1 DEF ThreadRecord
  <2>3. thread'[t] = th
    BY <1>1, <2>1
  <2>4. Reached(t)' = Reached(t)
    BY <1>1, <2>1, <2>3 DEF Reached, Sending
  <2>5. Held'
    BY <2>1, <2>2, HeldFrame
  <2> QED
    BY <1>1, <2>1, <2>2, <2>4, <2>5, ThreadFrame
<1>9. CASE SendBlock(t)
  <2> DEFINE th == [thread[t] EXCEPT !.pc = "block", !.to = start]
  <2>1. /\ thread[t].pc = "read" /\ thread' = [thread EXCEPT ![t] = th]
        /\ UNCHANGED <<size, stateMutex, repl_state, start, recovery, received>>
    BY <1>1, <1>9 DEF SendBlock, helper
  <2>2. th \in ThreadRecord /\ th.pc = "block" /\ th.i = thread[t].i
    BY <1>2, SentTo
  <2>3. thread'[t] = th
    BY <1>1, <2>1
  <2>4. Reached(t)' = Reached(t) /\ th.i > 0
    BY <1>1, <2>1, <2>2, <2>3 DEF Reached, Sending
  <2>5. Held'
    BY <2>1, <2>2, HeldFrame
  <2> QED
    BY <1>1, <2>1, <2>2, <2>4, <2>5, ThreadFrame
<1>10. CASE SendFinish(t)
  <2> DEFINE th == [thread[t] EXCEPT !.pc = "finish", !.to = start]
  <2>1. /\ thread[t].pc = "loop" /\ thread' = [thread EXCEPT ![t] = th]
        /\ stateMutex = "free" /\ stateMutex' = "held" /\ thread[t].i >= size
        /\ UNCHANGED <<size, repl_state, start, recovery, received>>
    BY <1>1, <1>10 DEF SendFinish, helper
  <2>2. th \in ThreadRecord /\ th.pc = "finish" /\ th.i = thread[t].i
    BY <1>2, SentTo
  <2>3. thread'[t] = th /\ \A u \in Thread : u # t => thread'[u] = thread[u]
    BY <1>1, <2>1
  <2>4. Reached(t)' = Reached(t)
    BY <2>1, <2>2, <2>3 DEF Reached, Sending
  <2>5. Held'
    <3>1. \A u \in Thread : ~ Finishing(u)
      BY <2>1 DEF IInv, Held
    <3>2. \A u \in Thread : Finishing(u)' => u = t
      BY <2>3, <3>1 DEF Finishing
    <3>3. \A u \in Thread : thread'[u].pc = "finish" => u = t
      BY <3>2 DEF Finishing
    <3> QED
      BY <2>1, <2>2, <2>3, <3>2, <3>3 DEF Held
  <2> QED
    BY <1>1, <2>1, <2>2, <2>4, <2>5, ThreadFrame
<1>11. CASE FinishAnswered(t)
  <2> DEFINE th == [thread[t] EXCEPT !.pc = "over"]
  <2>1. /\ Finishing(t) /\ thread' = [thread EXCEPT ![t] = th]
        /\ stateMutex' = "free" /\ size' \in {0, size}
        /\ UNCHANGED <<repl_state, start, recovery, received>>
    BY <1>1, <1>11 DEF FinishAnswered, Arrived, Goes, Finishing
  <2>2. th \in ThreadRecord /\ th.pc = "over" /\ th.i = thread[t].i
    BY <1>1 DEF ThreadRecord
  <2>3. thread'[t] = th /\ \A u \in Thread : u # t => thread'[u] = thread[u]
    BY <1>1, <2>1
  <2>4. Held'
    <3>1. \A u \in Thread : ~ Finishing(u)'
      BY <2>1, <2>2, <2>3 DEF IInv, Held, Finishing
    <3> QED
      BY <3>1 DEF Held, Finishing
  <2>5. thread[t].pc \notin {"none", "over"} /\ size' \in Nat
    BY <1>1, <2>1 DEF Finishing
  <2> HIDE DEF th
  <2> QED
    BY <1>1, <2>1, <2>2, <2>4, <2>5, ThreadFrame
<1> QED
  BY <1>4, <1>5, <1>6, <1>7, <1>8, <1>9, <1>10, <1>11

LEMMA InvariantStep == IInv /\ [Next]_vars => IInv'
<1> SUFFICES ASSUME IInv, [Next]_vars PROVE IInv'
  OBVIOUS
<1>1. CASE MarkDirty
  <2>1. /\ size' = size + 1 /\ stateMutex = "free" /\ stateMutex' = stateMutex
        /\ UNCHANGED <<thread, start, recovery, received, repl_state>>
    BY <1>1 DEF MarkDirty
  <2> QED
    BY <2>1, QuietFrame DEF IInv, TypeOK
<1>2. CASE Crash
  <2>1. /\ size' = size /\ stateMutex' = stateMutex /\ repl_state' = "Down"
        /\ UNCHANGED <<thread, start, recovery, received>>
    BY <1>2 DEF Crash, helper
  <2> QED
    BY <2>1, QuietFrame DEF IInv, TypeOK
<1>3. CASE UNCHANGED vars
  BY <1>3, QuietFrame DEF IInv, TypeOK, vars, helper
<1> QED
  BY <1>1, <1>2, <1>3, StartStep, BeginAttemptStep, CommitStep, ThreadSteps DEF Next

LEMMA Invariance == Spec => []IInv
BY Initially, InvariantStep, PTL DEF Spec

----------------------------------------------------------------------------
(***************************************************************************)
(* The end of a recovery.                                                  *)
(***************************************************************************)

LEMMA ThreadsFinite == IsFiniteSet(Thread)
<1>1. IsFiniteSet(1..MaxStarts) /\ IsFiniteSet(1..MaxDraws)
  BY Bounds, FS_Interval
<1> QED
  BY <1>1, FS_Product DEF Thread

LEMMA RowSize ==
  ASSUME NEW c, NEW I, IsFiniteSet(I)
  PROVE  IsFiniteSet({c} \X I) /\ Cardinality({c} \X I) = Cardinality(I)
<1>1. IsFiniteSet({c}) /\ Cardinality({c}) = 1
  BY FS_Singleton
<1>2. IsFiniteSet({c} \X I) /\ Cardinality({c} \X I) = Cardinality({c}) * Cardinality(I)
  BY <1>1, FS_Product, Zenon
<1>3. Cardinality(I) \in Nat
  BY FS_CardinalityType
<1> QED
  BY <1>1, <1>2, <1>3

\* Of the entries up to n, one thread has sent none from x on, the other one none
\* up to x: they have sent less than n.
LEMMA Gap ==
  ASSUME NEW c, NEW l, NEW n \in Nat, NEW x \in 1..n, NEW S,
         S \subseteq ({c} \X (1..x-1)) \union ({l} \X (x+1..n))
  PROVE  IsFiniteSet(S) /\ Cardinality(S) < n
<1> DEFINE A == {c} \X (1..x-1)
           B == {l} \X (x+1..n)
<1>1. IsFiniteSet(1..x-1) /\ Cardinality(1..x-1) = x - 1
  BY FS_Interval
<1>2. IsFiniteSet(x+1..n) /\ Cardinality(x+1..n) = n - x
  BY FS_Interval
<1>3. IsFiniteSet(A) /\ Cardinality(A) = x - 1
  BY <1>1, RowSize
<1>4. IsFiniteSet(B) /\ Cardinality(B) = n - x
  BY <1>2, RowSize
<1> HIDE DEF A, B
<1>5. /\ IsFiniteSet(A \union B) /\ IsFiniteSet(A \cap B) /\ Cardinality(A \cap B) \in Nat
      /\ Cardinality(A \union B) = (x - 1) + (n - x) - Cardinality(A \cap B)
  BY <1>3, <1>4, FS_Union, FS_Intersection, FS_CardinalityType
<1>6. S \subseteq A \union B
  BY DEF A, B
<1>7. IsFiniteSet(S) /\ Cardinality(S) <= Cardinality(A \union B) /\ Cardinality(S) \in Nat
  BY <1>5, <1>6, FS_Subset, FS_CardinalityType
<1> QED
  BY <1>5, <1>7

\* Two leftover threads with a part in a recovery are counted twice.
LEMMA OneLeftover ==
  ASSUME NEW S, S \subseteq Thread, Cardinality(S) <= 1, NEW t \in S, NEW u \in S
  PROVE  t = u
<1> SUFFICES ASSUME t # u PROVE FALSE
  OBVIOUS
<1>1. IsFiniteSet(S) /\ Cardinality(S) \in Nat
  BY ThreadsFinite, FS_Subset, FS_CardinalityType
<1>2. Cardinality(S) # 0
  BY <1>1, FS_EmptySet
<1>3. PICK v : S = {v}
  BY <1>1, <1>2, FS_Singleton
<1> QED
  BY <1>3

\* The thread whose FinishSync ends a recovery, as the current or a leftover one.
LEMMA AllReceived ==
  ASSUME IInv, NEW f \in Thread, FinishSync(f),
         repl_state = "Recovering", repl_state' = "Normal", Cardinality(Leftover) <= 1
  PROVE  1..size \subseteq {r[2] : r \in received}
<1> DEFINE n == thread[f].i
<1>1. /\ thread[f].pc = "finish" /\ Current(f) /\ n = recovery.blocks_received
      /\ thread' = [thread EXCEPT ![f].pc = "finish_ok"]
  BY DEF FinishSync, AllBlocksHere, Arrived, Goes
<1>2. /\ n \in Nat /\ size \in Nat /\ size <= n /\ Reached(f) = n /\ TypeOK
      /\ start \in Nat /\ received \subseteq Thread \X Nat /\ thread \in [Thread -> ThreadRecord]
      /\ IsFiniteSet(received) /\ Cardinality(received) = n
  BY <1>1, ThreadType DEF IInv, TypeOK, Held, Reached, Sending, Counted
<1>3. Finisher(f)
  <2>1. thread'[f].pc = "finish_ok"
    BY <1>1, <1>2 DEF ThreadRecord
  <2> QED
    BY <1>1, <2>1 DEF Finisher
<1>4. f[1] <= start
  BY <1>1, <1>2, ThreadFacts DEF IInv, Threads
<1>5. ASSUME NEW r \in received
      PROVE  /\ r[1] \in Thread /\ r[2] \in Nat /\ r = <<r[1], r[2]>> /\ Current(r[1])
             /\ r[2] \in 1..Reached(r[1]) /\ Reached(r[1]) \in Int /\ r[1][1] <= start
  <2>1. r[1] \in Thread /\ r[2] \in Nat /\ r = <<r[1], r[2]>> /\ Current(r[1]) /\ r[2] \in 1..Reached(r[1])
    BY <1>2 DEF IInv, Counted
  <2>2. Reached(r[1]) \in Int /\ r[1][1] \in Nat
    BY <1>2, <2>1, ThreadType, ThreadFacts
  <2>3. r[1][1] > start => thread[r[1]].i = 0 /\ ~ Sending(r[1])
    BY <2>1 DEF IInv, Threads, Sending
  <2> QED
    BY <1>2, <2>1, <2>2, <2>3 DEF Reached
<1>6. SUFFICES ASSUME NEW x \in 1..n PROVE \E r \in received : r[2] = x
  BY <1>2
\* The current thread has sent everything up to where it is.
<1>7. CASE f[1] = start
  <2>1. <<f, x>> \in received
    BY <1>1, <1>2, <1>7 DEF IInv, FromFirst
  <2> QED
    BY <2>1
\* What f left out is what the current thread had sent before.
<1>8. CASE f[1] # start
  <2>1. f[1] < start /\ f \in Leftover
    BY <1>2, <1>3, <1>4, <1>8, ThreadFacts DEF Leftover
  <2> SUFFICES ASSUME \A r \in received : r[2] # x PROVE FALSE
    OBVIOUS
  <2> DEFINE c == <<start, recovery.sync_id>>
  <2>2. ASSUME NEW r \in received PROVE r[1] = f \/ r[1] = c
    <3>1. CASE r[1][1] = start
      BY <1>5, <3>1, ThreadFacts DEF Current, SyncId
    <3>2. CASE r[1][1] # start
      <4>1. r[1][1] < start /\ r[1] \in Thread
        BY <1>2, <1>5, <3>2, ThreadFacts
      <4>2. r[1] \in Leftover
        BY <4>1 DEF Leftover, Senders
      <4> QED
        BY <2>1, <4>2, OneLeftover DEF Leftover
    <3> QED
      BY <3>1, <3>2
  <2>3. ASSUME NEW r \in received, r[1] = f PROVE r[2] \in x+1..n
    <3>1. r[2] \in 1..n /\ <<f, r[2]>> \in received
      BY <1>2, <1>5, <2>3
    <3>2. r[2] < x => <<f, x>> \in received
      BY <1>1, <1>2, <3>1 DEF IInv, UpToLast
    <3> QED
      BY <3>1, <3>2
  <2>4. ASSUME NEW r \in received, r[1] = c PROVE r[2] \in 1..x-1
    <3>1. r[2] \in Nat /\ r[2] >= 1 /\ <<c, r[2]>> \in received /\ c \in Thread
      BY <1>5, <2>4
    <3>2. r[2] > x => <<c, x>> \in received
      BY <3>1 DEF IInv, FromFirst, Current, SyncId
    <3> QED
      BY <3>1, <3>2
  <2>5. received \subseteq ({c} \X (1..x-1)) \union ({f} \X (x+1..n))
    BY <1>5, <2>2, <2>3, <2>4
  <2> HIDE DEF c, n
  <2>6. Cardinality(received) < n
    BY <1>2, <2>5, Gap
  <2> QED
    BY <1>2, <2>6
<1> QED
  BY <1>7, <1>8

\* A server goes Normal only when it has received every entry of the dirty list in
\* its attempt, although its FinishSync and some of the blocks may come from a
\* thread begun for an earlier start with the same sync id, as long as there is one
\* such thread (SyncBlock and FinishSync, PairedServer.cc lines 108-160).
THEOREM EntriesReceived == Spec => EveryEntryReceived
<1> DEFINE Complete == repl_state = "Recovering" /\ repl_state' = "Normal" /\ Cardinality(Leftover) <= 1
                         => 1..size \subseteq {r[2] : r \in received}
<1>1. IInv /\ [Next]_vars => [Complete]_vars
  <2> SUFFICES ASSUME IInv, Next, repl_state = "Recovering", repl_state' = "Normal",
                      Cardinality(Leftover) <= 1
               PROVE  1..size \subseteq {r[2] : r \in received}
    OBVIOUS
  <2>1. PICK f \in Thread : FinishSync(f)
    BY DEF Next, Start, Crash, BeginAttempt, MarkDirty, TriggerSync, NextEntry, SendBlock,
           SendFinish, CheckState, CommitBlock, FinishAnswered, CallFails
  <2> QED
    BY <2>1, AllReceived
<1> QED
  BY <1>1, Invariance, PTL DEF Spec, EveryEntryReceived
=============================================================================
