-------------------------------- MODULE SyncIds --------------------------------
(***************************************************************************)
(* Recovery when sync ids repeat.  Recover seeds rand() with the time in   *)
(* seconds, and run-primary.sh restarts a server that has crashed at once: *)
(* starts within one second draw the same ids, in the same order, and a    *)
(* sync thread that the helper has begun for an earlier start goes on as   *)
(* if it had been asked for by this one.  Resync has the protocol in       *)
(* detail, with ids that are fresh.                                        *)
(*                                                                         *)
(* A sync thread is known by the start and the draw it was asked for with; *)
(* its id is the draw.  An entry of dirtyVec is known by its place in it.  *)
(*                                                                         *)
(* Bounds: MaxStarts (starts of the partner within the second), MaxDraws   *)
(* (attempts of one start), MaxAttempts (attempts in all), MaxWrites       *)
(* (addresses the helper marks).                                           *)
(***************************************************************************)
EXTENDS Integers, FiniteSets

CONSTANTS MaxStarts, MaxDraws, MaxAttempts, MaxWrites

ASSUME SyncIdsAssumption == {MaxStarts, MaxDraws, MaxAttempts, MaxWrites} \subseteq Nat

VARIABLES
  size,        \* of dirtyVec at the helper
  writes,      \* addresses marked so far
  stateMutex,  \* of the helper: free, or held around a FinishSync
  thread,      \* per sync thread: where it is, its i, the start its call went to
  repl_state,  \* of the partner; "Down"
  start,       \* starts of the partner
  recovery,    \* of the partner
  received     \* history: the entries received in this attempt, with their senders

helper == <<size, writes, stateMutex>>
vars == <<helper, thread, repl_state, start, recovery, received>>

Thread == (1..MaxStarts) \X (1..MaxDraws)
SyncId(t) == t[2]
Fresh(id) == [sync_id |-> id, blocks_received |-> 0]

Init ==
  /\ size = 0 /\ writes = 0 /\ stateMutex = "free"
  /\ thread = [t \in Thread |-> [pc |-> "none", i |-> 0, to |-> 0]]
  /\ repl_state = "Down" /\ start = 0
  /\ recovery = Fresh(0) /\ received = {}

----------------------------------------------------------------------------
(***************************************************************************)
(* The partner.                                                            *)
(***************************************************************************)
Start ==
  /\ repl_state = "Down" /\ start < MaxStarts
  /\ repl_state' = "Recovering" /\ start' = start + 1
  /\ recovery' = Fresh(0) /\ received' = {}
  /\ UNCHANGED <<helper, thread>>

Crash ==
  /\ repl_state # "Down" /\ repl_state' = "Down"
  /\ UNCHANGED <<helper, thread, start, recovery, received>>

\* The next draw, once TriggerSync of the last one has returned and its timer
\* has run out.
BeginAttempt ==
  LET draw == recovery.sync_id + 1 IN
  /\ repl_state = "Recovering" /\ draw <= MaxDraws
  /\ Cardinality({t \in Thread : thread[t].pc # "none"}) < MaxAttempts
  /\ draw > 1 => thread[<<start, draw - 1>>].pc # "asked"
  /\ recovery' = Fresh(draw) /\ received' = {}
  /\ thread' = [thread EXCEPT ![<<start, draw>>].pc = "asked"]
  /\ UNCHANGED <<helper, repl_state, start>>

\* A call of t has reached the partner it was made to.
Arrived(t, pc) == thread[t].pc = pc /\ thread[t].to = start /\ repl_state # "Down"
Goes(t, pc) == thread' = [thread EXCEPT ![t].pc = pc]
Current(t) == SyncId(t) = recovery.sync_id

\* SyncBlock: the state is looked at first, without recoveryMutex.
CheckState(t) ==
  /\ Arrived(t, "block")
  /\ Goes(t, IF repl_state = "Recovering" THEN "checked" ELSE "over")
  /\ UNCHANGED <<helper, repl_state, start, recovery, received>>

CommitBlock(t) ==
  /\ Arrived(t, "checked")
  /\ \/ /\ Current(t)
        /\ recovery' = [recovery EXCEPT !.blocks_received = @ + 1]
        /\ received' = received \union {<<t, thread[t].i>>}
        /\ Goes(t, "loop")
     \/ ~ Current(t) /\ Goes(t, "over") /\ UNCHANGED <<recovery, received>>
  /\ UNCHANGED <<helper, repl_state, start>>

\* Mutation AllBlocksHere_Unchecked: the total is not compared.
AllBlocksHere_Unchecked(t) == TRUE
AllBlocksHere(t) == thread[t].i = recovery.blocks_received
FinishSync(t) ==
  LET ok == repl_state = "Recovering" /\ Current(t) /\ AllBlocksHere(t) IN
  /\ Arrived(t, "finish")
  /\ repl_state' = IF ok THEN "Normal" ELSE repl_state
  /\ Goes(t, IF ok THEN "finish_ok" ELSE "finish_failed")
  /\ UNCHANGED <<helper, start, recovery, received>>

----------------------------------------------------------------------------
(***************************************************************************)
(* The helper.                                                             *)
(***************************************************************************)
MarkDirty ==
  /\ stateMutex = "free" /\ writes < MaxWrites
  /\ writes' = writes + 1 /\ size' = size + 1
  /\ UNCHANGED <<stateMutex, thread, repl_state, start, recovery, received>>

TriggerSync(t) ==
  /\ thread[t].pc = "asked" /\ stateMutex = "free"
  /\ Goes(t, "loop")
  /\ UNCHANGED <<helper, repl_state, start, recovery, received>>

NextEntry(t) ==
  /\ thread[t].pc = "loop" /\ stateMutex = "free" /\ thread[t].i < size
  /\ thread' = [thread EXCEPT ![t] = [pc |-> "read", i |-> @.i + 1, to |-> 0]]
  /\ UNCHANGED <<helper, repl_state, start, recovery, received>>

SendBlock(t) ==
  /\ thread[t].pc = "read"
  /\ thread' = [thread EXCEPT ![t].pc = "block", ![t].to = start]
  /\ UNCHANGED <<helper, repl_state, start, recovery, received>>

SendFinish(t) ==
  /\ thread[t].pc = "loop" /\ stateMutex = "free" /\ thread[t].i >= size
  /\ stateMutex' = "held"
  /\ thread' = [thread EXCEPT ![t].pc = "finish", ![t].to = start]
  /\ UNCHANGED <<size, writes, repl_state, start, recovery, received>>

\* ClearDirty on success; the lock is released.
FinishAnswered(t) ==
  /\ \/ Arrived(t, "finish_ok") /\ size' = 0
     \/ thread[t].pc = "finish_failed" /\ UNCHANGED size
  /\ stateMutex' = "free"
  /\ Goes(t, "over")
  /\ UNCHANGED <<writes, repl_state, start, recovery, received>>

\* The partner has died: the call fails, answered or not.
CallFails(t) ==
  /\ ~ Arrived(t, thread[t].pc)
  /\ \/ thread[t].pc \in {"block", "checked"} /\ Goes(t, "over")
     \/ thread[t].pc \in {"finish", "finish_ok"} /\ Goes(t, "finish_failed")
  /\ UNCHANGED <<helper, repl_state, start, recovery, received>>

Next ==
  \/ Start \/ Crash \/ BeginAttempt \/ MarkDirty
  \/ \E t \in Thread :
       \/ TriggerSync(t) \/ NextEntry(t) \/ SendBlock(t) \/ SendFinish(t)
       \/ CheckState(t) \/ CommitBlock(t) \/ FinishSync(t)
       \/ FinishAnswered(t) \/ CallFails(t)

Spec == Init /\ [][Next]_vars

----------------------------------------------------------------------------
(***************************************************************************)
(* Properties.                                                             *)
(***************************************************************************)

\* The threads of earlier starts that have a part in a recovery: they have sent a
\* block of it, or the FinishSync that ends it.
Senders == {r[1] : r \in received}
Finisher(t) == thread[t].pc = "finish" /\ thread'[t].pc = "finish_ok"
Leftover == {t \in Thread : t[1] < start /\ (t \in Senders \/ Finisher(t))}

\* "... is sent the updated blocks before resuming its normal function"
\* (README:43): a server resumes only when every entry of the dirty list has
\* been received in its attempt, and not one of them twice in place of another,
\* although FinishSync compares numbers and the id does not tell a leftover thread
\* from the current one (PairedServer.cc lines 114-146).  Two leftover threads
\* are too many for that.
EveryEntryReceived ==
  [][repl_state = "Recovering" /\ repl_state' = "Normal" /\ Cardinality(Leftover) <= 1
     => 1..size \subseteq {r[2] : r \in received}]_vars

\* Not so: "Received while this node is recovering" (PairedServer.cc:107): no block of a
\* sync is stored by a server that is Normal.
StoredWhileRecovering ==
  [][recovery.blocks_received # recovery'.blocks_received => repl_state = "Recovering"]_vars
=============================================================================
