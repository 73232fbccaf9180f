--------------------------- MODULE ReplicationProofs ---------------------------
(***************************************************************************)
(* Proofs about Replication, for any set of clients and any number of      *)
(* writes: type correctness, that an acknowledged write is not undone by   *)
(* an older one, that what the backup misses is marked, and that the pair  *)
(* implements BlockStore, through the crash of either server.              *)
(***************************************************************************)
EXTENDS Replication, TLAPS

----------------------------------------------------------------------------
(***************************************************************************)
(* The inductive invariant.                                                *)
(***************************************************************************)
Writing(c) == client[c].pc # "idle" /\ client[c].op = "Write"

\* Writes are numbered as they begin, and only those that have returned come
\* before another one.
Numbered ==
  /\ acked \subseteq 0..calls
  /\ \A v \in Block : before[v] \subseteq acked

\* A write under way is nobody else's, and has not returned.
Own ==
  /\ \A c \in Client : Writing(c) => client[c].block \in (0..calls) \ acked
  /\ \A c, d \in Client : Writing(c) /\ Writing(d) /\ client[c].block = client[d].block => c = d

\* Only one of the servers is ever gone or alone.
Paired ==
  /\ repl_state["primary"] = "Standalone" => ~ Up("backup")
  /\ repl_state["backup"] = "Standalone" => ~ Up("primary")
  /\ \A c \in Client : client[c].pc = "refused" => ~ Up("backup")

\* The writer of a late block waits for an answer, which it does not get before
\* the backup takes over; from then on no late block is stored.
LateWaits ==
  IF repl_state["backup"] = "Standalone"
  THEN \A l \in late : l.pc = "forward"
  ELSE \A l \in late : \E c \in Client :
         client[c].pc = "sent" /\ client[c].op = "Write" /\ client[c].block = l.block

\* A write under way has replaced everything older where it has been.
Replaced ==
  \A c \in Client : client[c].op = "Write" =>
    LET old == before[client[c].block] IN
    /\ client[c].pc \in {"stored", "forward", "checked", "refused"} => disk["primary"] \notin old
    /\ client[c].pc \in {"backed", "answered"} => \A s \in Server : Up(s) => disk[s] \notin old

IInv == TypeOK /\ Numbered /\ Own /\ Paired /\ LateWaits /\ Replaced /\ NoStaleBlock
----------------------------------------------------------------------------
(***************************************************************************)
(* Type correctness.                                                       *)
(***************************************************************************)

\* Every step keeps TypeOK.
LEMMA TypeStep == TypeOK /\ [Next]_vars => TypeOK'
<1> SUFFICES ASSUME TypeOK, [Next]_vars PROVE TypeOK'
  OBVIOUS
<1> USE ReplicationAssumption DEF TypeOK, CallType, Block, Server, Up, AtPrimary, servers, history
<1>1. ASSUME NEW c \in Client, BeginRead(c) PROVE TypeOK'
  BY <1>1 DEF BeginRead, Request
<1>2. ASSUME NEW c \in Client, BeginWrite(c) PROVE TypeOK'
  BY <1>2 DEF BeginWrite, Request
<1>3. ASSUME NEW c \in Client, Resend(c) PROVE TypeOK'
  BY <1>3 DEF Resend, Serves, ServerOf, NextServer
<1>4. ASSUME NEW c \in Client, ReadBlock(c) PROVE TypeOK'
  <2>1. PICK s \in Server :
          client' = [client EXCEPT ![c] = [@ EXCEPT !.pc = "answered", !.block = disk[s]]]
    BY <1>4 DEF ReadBlock
  <2>5. [client[c] EXCEPT !.pc = "answered", !.block = disk[s]] \in CallType
    OBVIOUS
  <2>2. UNCHANGED <<servers, history>>
    BY <1>4 DEF ReadBlock
  <2>3. client' \in [Client -> CallType]
    <3> HIDE DEF CallType
    <3> QED
      BY <2>1, <2>5
  <2>4. \A d \in Client : client'[d].pc \in AtPrimary => client'[d] = client[d]
    BY <2>1
  <2> HIDE DEF AtPrimary, CallType
  <2> QED
    BY <2>2, <2>3, <2>4
<1>5. ASSUME NEW c \in Client, WriteAtBackup(c) PROVE TypeOK'
  BY <1>5 DEF WriteAtBackup, Handled, Serves, ServerOf, Store, Goes
<1>6. ASSUME NEW c \in Client, WriteAtPrimary(c) PROVE TypeOK'
  BY <1>6 DEF WriteAtPrimary, Handled, Serves, ServerOf, Store, Goes
<1>7. ASSUME NEW c \in Client, CallBackup(c) PROVE TypeOK'
  BY <1>7 DEF CallBackup, Goes
<1>8. ASSUME NEW c \in Client, MarkStandaloneWrite(c) PROVE TypeOK'
  BY <1>8 DEF MarkStandaloneWrite, Goes
<1>9. ASSUME NEW c \in Client, CheckBackupState(c) PROVE TypeOK'
  BY <1>9 DEF CheckBackupState, Goes
<1>10. ASSUME NEW c \in Client, BackupStores(c) PROVE TypeOK'
  BY <1>10 DEF BackupStores, Store, Goes
<1>11. ASSUME NEW c \in Client, BackupAnswers(c) PROVE TypeOK'
  BY <1>11 DEF BackupAnswers, Goes
<1>12. ASSUME NEW c \in Client, BackupCallFails(c) PROVE TypeOK'
  BY <1>12 DEF BackupCallFails, Goes
<1>13. ASSUME NEW c \in Client, AssumeBackupDown(c) PROVE TypeOK'
  <2>1. repl_state' \in [Server -> {"Normal", "Standalone", "Down"}] /\ repl_state'["primary"] = "Standalone"
    BY <1>13 DEF AssumeBackupDown
  <2>2. client' = [client EXCEPT ![c].pc = "answered"] /\ UNCHANGED <<disk, late, history>> /\ dirty' = TRUE
    BY <1>13 DEF AssumeBackupDown, Goes
  <2>3. late = {} /\ client' \in [Client -> CallType]
    BY <1>13, <2>2 DEF AssumeBackupDown
  <2>4. \A d \in Client : client'[d].pc \in AtPrimary => client'[d] = client[d]
    BY <2>2
  <2> HIDE DEF AtPrimary, CallType
  <2> QED
    BY <2>1, <2>2, <2>3, <2>4
<1>14. ASSUME NEW c \in Client, Return(c) PROVE TypeOK'
  BY <1>14 DEF Return, Goes
<1>15. ASSUME NEW s \in Server, Crash(s) PROVE TypeOK'
  <2>1. CASE s = "primary"
    <3>1. client' = [c \in Client |->
              IF client[c].pc \in AtPrimary THEN [client[c] EXCEPT !.pc = "sent"] ELSE client[c]]
      BY <1>15, <2>1 DEF Crash
    <3>2. client' \in [Client -> CallType]
      <4>1. ASSUME NEW c \in Client PROVE [client[c] EXCEPT !.pc = "sent"] \in CallType
        OBVIOUS
      <4> HIDE DEF CallType
      <4> QED
        BY <3>1, <4>1
    <3>3. \A c \in Client : client'[c].pc \notin AtPrimary
      BY <3>1
    <3>4. late' \subseteq [pc : {"forward", "checked"}, block : Block]
      BY <1>15, <2>1 DEF Crash
    <3>5. repl_state' = [repl_state EXCEPT !["primary"] = "Down"] /\ UNCHANGED <<disk, dirty, history>>
      BY <1>15, <2>1 DEF Crash
    <3> QED
      BY <3>2, <3>3, <3>4, <3>5
  <2>2. CASE s = "backup"
    BY <1>15, <2>2 DEF Crash
  <2> QED
    BY <2>1, <2>2
<1>16. CASE TakeOver
  BY <1>16 DEF TakeOver
<1>17. ASSUME NEW l \in late, LateCheck(l) PROVE TypeOK'
  BY <1>17 DEF LateCheck
<1>18. ASSUME NEW l \in late, LateStore(l) PROVE TypeOK'
  BY <1>18 DEF LateStore, Store
<1>19. CASE UNCHANGED vars
  BY <1>19 DEF vars
<1> QED
  BY <1>1, <1>2, <1>3, <1>4, <1>5, <1>6, <1>7, <1>8, <1>9, <1>10, <1>11, <1>12, <1>13, <1>14, <1>15, <1>16, <1>17, <1>18, <1>19 DEF Next, Call, BackUp

\* The initial states have TypeOK.
LEMMA TypeInit == Init => TypeOK
<1> SUFFICES ASSUME Init PROVE TypeOK
  OBVIOUS
<1> USE ReplicationAssumption DEF Init, Block
<1>1. client \in [Client -> CallType] /\ \A c \in Client : client[c].pc \notin AtPrimary
  BY DEF CallType, AtPrimary
<1>2. disk \in [Server -> Block] /\ received \in SUBSET Block /\ acked \in SUBSET Block
  OBVIOUS
<1> QED
  BY <1>1, <1>2 DEF TypeOK, Server, Up

\* Spec => []TypeOK: every handler runs on a live server, and a late call is
\* one of a dead primary, for any clients, crashes and timing.
THEOREM TypeCorrect == Spec => []TypeOK
BY TypeInit, TypeStep, PTL DEF Spec

----------------------------------------------------------------------------
(***************************************************************************)
(* No acknowledged write is undone by an older one.                        *)
(***************************************************************************)

\* The block of a write under way is older than no other write.
LEMMA UnderWay ==
  ASSUME IInv, NEW c \in Client, Writing(c), NEW v \in Block
  PROVE  client[c].block \notin before[v]
BY DEF IInv, Own, Numbered

\* A step of one call that stores nothing and returns nothing keeps IInv, if
\* the call has been where it now claims to have been.
LEMMA MoveStep ==
  ASSUME IInv, TypeOK', NEW c \in Client, client[c].pc # "idle",
         \A d \in Client : d # c => client'[d] = client[d],
         client'[c].op = client[c].op,
         client[c].op = "Write" => client'[c].block = client[c].block,
         UNCHANGED <<disk, acked, calls, before, late>>,
         \A s \in Server : Up(s)' => Up(s),
         Paired',
         repl_state'["backup"] = repl_state["backup"],
         client[c].pc = "sent" => client'[c].pc = "sent",
         client[c].op = "Write" =>
           LET old == before[client[c].block] IN
           /\ client'[c].pc \in {"stored", "forward", "checked", "refused"} =>
                disk["primary"] \notin old
           /\ client'[c].pc \in {"backed", "answered"} =>
                \A s \in Server : Up(s)' => disk[s] \notin old
  PROVE  IInv'
<1>1. Numbered'
  BY DEF IInv, Numbered
<1>2. Own'
  BY DEF IInv, Own, Writing
<1>3. LateWaits'
  <2>1. ASSUME NEW d \in Client, client[d].pc = "sent", client[d].op = "Write"
        PROVE  client'[d].pc = "sent" /\ client'[d].op = "Write" /\ client'[d].block = client[d].block
    BY <2>1
  <2> QED
    BY <2>1 DEF IInv, LateWaits
<1>4. Replaced'
  BY DEF IInv, Replaced
<1>5. NoStaleBlock'
  BY DEF IInv, NoStaleBlock
<1> QED
  BY <1>1, <1>2, <1>3, <1>4, <1>5 DEF IInv

\* A step that stores the block of a write under way at s keeps what has been
\* replaced, and every acknowledged write.
LEMMA StoreStep ==
  ASSUME IInv, NEW s \in Server, NEW c \in Client, Writing(c),
         disk' = [disk EXCEPT ![s] = client[c].block],
         UNCHANGED <<repl_state, acked, before>>
  PROVE  /\ NoStaleBlock'
         /\ \A v \in Block : disk'[s] \notin before[v]
         /\ \A v \in Block, r \in Server : disk[r] \notin before[v] => disk'[r] \notin before[v]
<1> USE DEF Server
<1>1. disk \in [Server -> Block] /\ acked \subseteq Block
  BY DEF IInv, TypeOK
<1>2. \A v \in Block : disk'[s] \notin before[v]
  BY <1>1, UnderWay
<1>3. \A v \in Block, r \in Server : disk[r] \notin before[v] => disk'[r] \notin before[v]
  BY <1>1, <1>2
<1> QED
  BY <1>1, <1>2, <1>3 DEF IInv, NoStaleBlock, Up

\* Replaced is kept by a step of one call in which blocks stay replaced, if it
\* holds for that call.
LEMMA ReplacedStep ==
  ASSUME Replaced, NEW c \in Client,
         \A d \in Client : /\ client'[d].block = client[d].block /\ client'[d].op = client[d].op
                           /\ client[d].block \in Block
                           /\ d # c => client'[d].pc = client[d].pc,
         UNCHANGED <<repl_state, before>>,
         \A v \in Block, r \in Server : disk[r] \notin before[v] => disk'[r] \notin before[v],
         LET old == before[client[c].block] IN
         /\ client'[c].pc \in {"stored", "forward", "checked", "refused"} =>
              disk'["primary"] \notin old
         /\ client'[c].pc \in {"backed", "answered"} =>
              \A s \in Server : Up(s) => disk'[s] \notin old
  PROVE  Replaced'
<1> SUFFICES ASSUME NEW d \in Client, client[d].op = "Write"
             PROVE  LET old == before[client[d].block] IN
                    /\ client'[d].pc \in {"stored", "forward", "checked", "refused"} =>
                         disk'["primary"] \notin old
                    /\ client'[d].pc \in {"backed", "answered"} =>
                         \A s \in Server : Up(s) => disk'[s] \notin old
  BY DEF Replaced, Up
<1>1. CASE d = c
  BY <1>1
<1>2. CASE d # c
  <2>1. client[d].block \in Block /\ client'[d].pc = client[d].pc
    BY <1>2
  <2> QED
    BY <2>1 DEF Replaced, Server
<1> QED
  BY <1>1, <1>2

\* Every step of a prompt system keeps IInv.
LEMMA InvStep == ASSUME Prompt, IInv, TypeOK', [Next]_vars PROVE IInv'
<1> USE DEF Block, servers, history
<1>0. /\ client \in [Client -> CallType] /\ disk \in [Server -> Block]
      /\ repl_state \in [Server -> {"Normal", "Standalone", "Down"}]
      /\ acked \subseteq Block /\ calls \in Block /\ MaxCalls \in Nat
      /\ before \in [Block -> SUBSET Block]
  BY ReplicationAssumption DEF IInv, TypeOK
<1>T. \A c \in Client : client[c].pc \in AtPrimary =>
        Up("primary") /\ client[c].op = "Write" /\ ~ client[c].use_backup
  BY DEF IInv, TypeOK
<1>L. late # {} => ~ Up("primary")
  BY DEF IInv, TypeOK
<1>1. ASSUME NEW c \in Client, BeginRead(c) PROVE IInv'
  <2>1. /\ client' = [client EXCEPT ![c] = [pc |-> "sent", op |-> "Read", block |-> 0,
                                          use_backup |-> @.use_backup]]
        /\ client[c].pc = "idle"
        /\ UNCHANGED <<repl_state, disk, late, calls, acked, before>>
    BY <1>1 DEF BeginRead, Request
  <2>2. Numbered' /\ Paired' /\ NoStaleBlock'
    BY <2>1, <1>0 DEF IInv, Numbered, Paired, NoStaleBlock, Up
  <2>3. Own'
    BY <2>1, <1>0 DEF IInv, Own, Writing
  <2>4. LateWaits'
    BY <2>1, <1>0 DEF IInv, LateWaits
  <2>5. Replaced'
    BY <2>1, <1>0 DEF IInv, Replaced, Up
  <2> QED
    BY <2>2, <2>3, <2>4, <2>5 DEF IInv
<1>2. ASSUME NEW c \in Client, BeginWrite(c) PROVE IInv'
  <2>1. /\ client' = [client EXCEPT ![c] = [pc |-> "sent", op |-> "Write", block |-> calls + 1,
                                          use_backup |-> @.use_backup]]
        /\ client[c].pc = "idle" /\ calls < MaxCalls /\ calls' = calls + 1
        /\ before' = [before EXCEPT ![calls + 1] = acked]
        /\ UNCHANGED <<repl_state, disk, late, acked>>
    BY <1>2 DEF BeginWrite, Request
  <2>2. acked \subseteq 0..calls /\ calls + 1 \notin acked
    BY <1>0 DEF IInv, Numbered
  <2>3. Numbered' /\ Paired'
    BY <2>1, <2>2, <1>0 DEF IInv, Numbered, Paired, Up
  <2>4. NoStaleBlock'
    BY <2>1, <2>2, <1>0 DEF IInv, NoStaleBlock, Up
  <2>5. Own'
    BY <2>1, <2>2, <1>0 DEF IInv, Own, Writing
  <2>6. LateWaits'
    BY <2>1, <1>0 DEF IInv, LateWaits
  <2>7. Replaced'
    <3> SUFFICES ASSUME NEW d \in Client, client'[d].op = "Write", d # c, client[d].pc # "idle"
                 PROVE  before'[client[d].block] = before[client[d].block] /\ client'[d] = client[d]
      BY <2>1, <1>0 DEF IInv, Replaced, Up
    <3>1. client[d].block \in 0..calls
      BY <2>1, <1>0 DEF IInv, Own, Writing
    <3> QED
      BY <3>1, <2>1, <1>0
  <2> QED
    BY <2>3, <2>4, <2>5, <2>6, <2>7 DEF IInv
<1>3. ASSUME NEW c \in Client, Resend(c) PROVE IInv'
  <2>1. /\ client' = [client EXCEPT ![c] = [@ EXCEPT !.pc = "sent", !.use_backup = NextServer(c)]]
        /\ UNCHANGED <<repl_state, disk, late, calls, acked, before>> /\ client[c].pc # "idle"
    BY <1>3 DEF Resend
  <2>2. Paired'
    BY <2>1, <1>0 DEF IInv, Paired, Up
  <2> QED
    BY <2>1, <2>2, <1>0, MoveStep DEF Up, IInv, LateWaits
<1>4. ASSUME NEW c \in Client, ReadBlock(c) PROVE IInv'
  <2>1. PICK s \in Server :
          /\ client' = [client EXCEPT ![c] = [@ EXCEPT !.pc = "answered", !.block = disk[s]]]
          /\ client[c].pc = "sent" /\ client[c].op = "Read"
          /\ UNCHANGED <<repl_state, disk, late, calls, acked, before>>
    BY <1>4 DEF ReadBlock, Handled
  <2>2. Numbered' /\ Paired' /\ NoStaleBlock'
    BY <2>1, <1>0 DEF IInv, Numbered, Paired, NoStaleBlock, Up
  <2>3. Own'
    BY <2>1, <1>0 DEF IInv, Own, Writing
  <2>4. LateWaits'
    BY <2>1, <1>0 DEF IInv, LateWaits
  <2>5. Replaced'
    BY <2>1, <1>0 DEF IInv, Replaced, Up
  <2> QED
    BY <2>2, <2>3, <2>4, <2>5 DEF IInv
<1>5. ASSUME NEW c \in Client, WriteAtBackup(c) PROVE IInv'
  <2>1. /\ client' = [client EXCEPT ![c].pc = "answered"] /\ Writing(c) /\ client[c].pc = "sent"
        /\ disk' = [disk EXCEPT !["backup"] = client[c].block]
        /\ UNCHANGED <<repl_state, late, calls, acked, before>>
    BY <1>5, <1>T DEF WriteAtBackup, Handled, Goes, Store, Writing, AtPrimary
  <2>2. /\ NoStaleBlock'
        /\ \A v \in Block : disk'["backup"] \notin before[v]
        /\ \A v \in Block, r \in Server : disk[r] \notin before[v] => disk'[r] \notin before[v]
    BY <2>1, StoreStep DEF Server
  <2>3. Numbered' /\ Paired'
    BY <2>1, <1>0 DEF IInv, Numbered, Paired, Up
  <2>4. Own'
    BY <2>1, <1>0 DEF IInv, Own, Writing
  <2>5. LateWaits'
    BY <2>1, <1>5 DEF WriteAtBackup, Handled, Serves, IInv, LateWaits
  <2>6. Replaced'
    <3>1. \A d \in Client : /\ client'[d].block = client[d].block /\ client'[d].op = client[d].op
                            /\ client[d].block \in Block
                            /\ d # c => client'[d].pc = client[d].pc
      BY <2>1, <1>0 DEF CallType
    <3>2. repl_state["backup"] = "Standalone" /\ ~ Up("primary")
      BY <1>5 DEF WriteAtBackup, Handled, Serves, IInv, Paired
    <3>3. LET old == before[client[c].block] IN
          /\ client'[c].pc \in {"stored", "forward", "checked", "refused"} =>
               disk'["primary"] \notin old
          /\ client'[c].pc \in {"backed", "answered"} =>
               \A s \in Server : Up(s) => disk'[s] \notin old
      <4>1. client[c].block \in Block
        BY <3>1
      <4> QED
        BY <4>1, <3>2, <2>1, <2>2, <1>0 DEF Up, Server
    <3> QED
      BY <3>1, <3>3, <2>1, <2>2, ReplacedStep DEF IInv
  <2> QED
    BY <2>2, <2>3, <2>4, <2>5, <2>6 DEF IInv
<1>6. ASSUME NEW c \in Client, WriteAtPrimary(c) PROVE IInv'
  <2>1. /\ client' = [client EXCEPT ![c].pc = "stored"] /\ Writing(c) /\ client[c].pc = "sent"
        /\ disk' = [disk EXCEPT !["primary"] = client[c].block]
        /\ UNCHANGED <<repl_state, late, calls, acked, before>>
    BY <1>6, <1>T DEF WriteAtPrimary, Handled, Goes, Store, Writing, AtPrimary
  <2>2. /\ NoStaleBlock'
        /\ \A v \in Block : disk'["primary"] \notin before[v]
        /\ \A v \in Block, r \in Server : disk[r] \notin before[v] => disk'[r] \notin before[v]
    BY <2>1, StoreStep DEF Server
  <2>3. Numbered' /\ Paired'
    BY <2>1, <1>0 DEF IInv, Numbered, Paired, Up
  <2>4. Own'
    BY <2>1, <1>0 DEF IInv, Own, Writing
  <2>5. LateWaits'
    <3>1. late = {}
      BY <1>6, <1>L, <1>0, <1>T DEF WriteAtPrimary, Handled, Serves, IInv, LateWaits, Up, AtPrimary, Server
    <3> QED
      BY <3>1, <2>1 DEF LateWaits
  <2>6. Replaced'
    <3>1. \A d \in Client : /\ client'[d].block = client[d].block /\ client'[d].op = client[d].op
                            /\ client[d].block \in Block
                            /\ d # c => client'[d].pc = client[d].pc
      BY <2>1, <1>0 DEF CallType
    <3>2. client'[c].pc = "stored"
      BY <2>1, <1>0
    <3>3. LET old == before[client[c].block] IN
          /\ client'[c].pc \in {"stored", "forward", "checked", "refused"} =>
               disk'["primary"] \notin old
          /\ client'[c].pc \in {"backed", "answered"} =>
               \A s \in Server : Up(s) => disk'[s] \notin old
      <4>1. client[c].block \in Block
        BY <3>1
      <4> QED
        BY <4>1, <3>2, <2>1, <2>2, <1>0 DEF Up, Server
    <3> QED
      BY <3>1, <3>3, <2>1, <2>2, ReplacedStep DEF IInv
  <2> QED
    BY <2>2, <2>3, <2>4, <2>5, <2>6 DEF IInv
<1>7. ASSUME NEW c \in Client, BackupStores(c) PROVE IInv'
  <2>1. /\ client' = [client EXCEPT ![c].pc = "backed"] /\ Writing(c) /\ client[c].pc = "checked"
        /\ disk' = [disk EXCEPT !["backup"] = client[c].block]
        /\ UNCHANGED <<repl_state, late, calls, acked, before>>
    BY <1>7, <1>T DEF BackupStores, Handled, Goes, Store, Writing, AtPrimary
  <2>2. /\ NoStaleBlock'
        /\ \A v \in Block : disk'["backup"] \notin before[v]
        /\ \A v \in Block, r \in Server : disk[r] \notin before[v] => disk'[r] \notin before[v]
    BY <2>1, StoreStep DEF Server
  <2>3. Numbered' /\ Paired'
    BY <2>1, <1>0 DEF IInv, Numbered, Paired, Up
  <2>4. Own'
    BY <2>1, <1>0 DEF IInv, Own, Writing
  <2>5. LateWaits'
    <3>1. late = {}
      BY <1>7, <1>L, <1>0, <1>T DEF BackupStores, Handled, Serves, IInv, LateWaits, Up, AtPrimary, Server
    <3> QED
      BY <3>1, <2>1 DEF LateWaits
  <2>6. Replaced'
    <3>1. \A d \in Client : /\ client'[d].block = client[d].block /\ client'[d].op = client[d].op
                            /\ client[d].block \in Block
                            /\ d # c => client'[d].pc = client[d].pc
      BY <2>1, <1>0 DEF CallType
    <3>2. disk["primary"] \notin before[client[c].block]
      BY <2>1 DEF IInv, Replaced, Writing
    <3>3. LET old == before[client[c].block] IN
          /\ client'[c].pc \in {"stored", "forward", "checked", "refused"} =>
               disk'["primary"] \notin old
          /\ client'[c].pc \in {"backed", "answered"} =>
               \A s \in Server : Up(s) => disk'[s] \notin old
      <4>1. client[c].block \in Block
        BY <3>1
      <4> QED
        BY <4>1, <3>2, <2>1, <2>2, <1>0 DEF Up, Server
    <3> QED
      BY <3>1, <3>3, <2>1, <2>2, ReplacedStep DEF IInv
  <2> QED
    BY <2>2, <2>3, <2>4, <2>5, <2>6 DEF IInv
<1>8. ASSUME NEW c \in Client, CallBackup(c) PROVE IInv'
  <2>1. /\ client' = [client EXCEPT ![c].pc = "forward"] /\ client[c].pc = "stored"
        /\ UNCHANGED <<disk, late, calls, acked, before>>
        /\ UNCHANGED repl_state
    BY <1>8 DEF CallBackup, Goes
  <2>2. late = {} /\ Up("primary")
    BY <2>1, <1>T, <1>L DEF AtPrimary
  <2>3. Paired'
    BY <1>8, <2>1, <1>0, <2>2 DEF IInv, Paired, Up, CallBackup, Server
  <2>4. LET old == before[client[c].block] IN
        /\ client'[c].pc \in {"stored", "forward", "checked", "refused"} => disk["primary"] \notin old
        /\ client'[c].pc \in {"backed", "answered"} => \A s \in Server : Up(s)' => disk[s] \notin old
    BY <1>8, <2>1, <2>2, <1>0, <1>T DEF IInv, Replaced, Paired, Up, CallBackup, Server, AtPrimary
  <2>5. \A s \in Server : Up(s)' => Up(s)
    BY <2>1, <2>2, <1>0 DEF Up, Server
  <2>6. repl_state'["backup"] = repl_state["backup"]
    BY <2>1, <1>0 DEF Server
  <2>7. /\ \A d \in Client : d # c => client'[d] = client[d]
        /\ client'[c].op = client[c].op /\ client'[c].block = client[c].block
    BY <2>1, <1>0 DEF CallType
  <2> QED
    BY <2>1, <2>2, <2>3, <2>4, <2>5, <2>6, <2>7, MoveStep
<1>9. ASSUME NEW c \in Client, MarkStandaloneWrite(c) PROVE IInv'
  <2>1. /\ client' = [client EXCEPT ![c].pc = "answered"] /\ client[c].pc = "stored"
        /\ UNCHANGED <<disk, late, calls, acked, before>>
        /\ UNCHANGED repl_state
    BY <1>9 DEF MarkStandaloneWrite, Goes
  <2>2. late = {} /\ Up("primary")
    BY <2>1, <1>T, <1>L DEF AtPrimary
  <2>3. Paired'
    BY <1>9, <2>1, <1>0, <2>2 DEF IInv, Paired, Up, MarkStandaloneWrite, Server
  <2>4. LET old == before[client[c].block] IN
        /\ client'[c].pc \in {"stored", "forward", "checked", "refused"} => disk["primary"] \notin old
        /\ client'[c].pc \in {"backed", "answered"} => \A s \in Server : Up(s)' => disk[s] \notin old
    BY <1>9, <2>1, <2>2, <1>0, <1>T DEF IInv, Replaced, Paired, Up, MarkStandaloneWrite, Server, AtPrimary
  <2>5. \A s \in Server : Up(s)' => Up(s)
    BY <2>1, <2>2, <1>0 DEF Up, Server
  <2>6. repl_state'["backup"] = repl_state["backup"]
    BY <2>1, <1>0 DEF Server
  <2>7. /\ \A d \in Client : d # c => client'[d] = client[d]
        /\ client'[c].op = client[c].op /\ client'[c].block = client[c].block
    BY <2>1, <1>0 DEF CallType
  <2> QED
    BY <2>1, <2>2, <2>3, <2>4, <2>5, <2>6, <2>7, MoveStep
<1>10. ASSUME NEW c \in Client, CheckBackupState(c) PROVE IInv'
  <2>1. /\ client' = [client EXCEPT ![c].pc = "checked"] /\ client[c].pc = "forward"
        /\ UNCHANGED <<disk, late, calls, acked, before>>
        /\ UNCHANGED repl_state
    BY <1>10 DEF CheckBackupState, Goes
  <2>2. late = {} /\ Up("primary")
    BY <2>1, <1>T, <1>L DEF AtPrimary
  <2>3. Paired'
    BY <1>10, <2>1, <1>0, <2>2 DEF IInv, Paired, Up, CheckBackupState, Server
  <2>4. LET old == before[client[c].block] IN
        /\ client'[c].pc \in {"stored", "forward", "checked", "refused"} => disk["primary"] \notin old
        /\ client'[c].pc \in {"backed", "answered"} => \A s \in Server : Up(s)' => disk[s] \notin old
    BY <1>10, <2>1, <2>2, <1>0, <1>T DEF IInv, Replaced, Paired, Up, CheckBackupState, Server, AtPrimary
  <2>5. \A s \in Server : Up(s)' => Up(s)
    BY <2>1, <2>2, <1>0 DEF Up, Server
  <2>6. repl_state'["backup"] = repl_state["backup"]
    BY <2>1, <1>0 DEF Server
  <2>7. /\ \A d \in Client : d # c => client'[d] = client[d]
        /\ client'[c].op = client[c].op /\ client'[c].block = client[c].block
    BY <2>1, <1>0 DEF CallType
  <2> QED
    BY <2>1, <2>2, <2>3, <2>4, <2>5, <2>6, <2>7, MoveStep
<1>11. ASSUME NEW c \in Client, BackupAnswers(c) PROVE IInv'
  <2>1. /\ client' = [client EXCEPT ![c].pc = "answered"] /\ client[c].pc = "backed"
        /\ UNCHANGED <<disk, late, calls, acked, before>>
        /\ UNCHANGED repl_state
    BY <1>11 DEF BackupAnswers, Goes
  <2>2. late = {} /\ Up("primary")
    BY <2>1, <1>T, <1>L DEF AtPrimary
  <2>3. Paired'
    BY <1>11, <2>1, <1>0, <2>2 DEF IInv, Paired, Up, BackupAnswers, Server
  <2>4. LET old == before[client[c].block] IN
        /\ client'[c].pc \in {"stored", "forward", "checked", "refused"} => disk["primary"] \notin old
        /\ client'[c].pc \in {"backed", "answered"} => \A s \in Server : Up(s)' => disk[s] \notin old
    BY <1>11, <2>1, <2>2, <1>0, <1>T DEF IInv, Replaced, Paired, Up, BackupAnswers, Server, AtPrimary
  <2>5. \A s \in Server : Up(s)' => Up(s)
    BY <2>1, <2>2, <1>0 DEF Up, Server
  <2>6. repl_state'["backup"] = repl_state["backup"]
    BY <2>1, <1>0 DEF Server
  <2>7. /\ \A d \in Client : d # c => client'[d] = client[d]
        /\ client'[c].op = client[c].op /\ client'[c].block = client[c].block
    BY <2>1, <1>0 DEF CallType
  <2> QED
    BY <2>1, <2>2, <2>3, <2>4, <2>5, <2>6, <2>7, MoveStep
<1>12. ASSUME NEW c \in Client, BackupCallFails(c) PROVE IInv'
  <2>1. /\ client' = [client EXCEPT ![c].pc = "refused"] /\ client[c].pc \in {"forward", "checked", "backed"}
        /\ UNCHANGED <<disk, late, calls, acked, before>>
        /\ UNCHANGED repl_state
    BY <1>12 DEF BackupCallFails, Goes
  <2>2. late = {} /\ Up("primary")
    BY <2>1, <1>T, <1>L DEF AtPrimary
  <2>3. Paired'
    BY <1>12, <2>1, <1>0, <2>2 DEF IInv, Paired, Up, BackupCallFails, Server
  <2>4. LET old == before[client[c].block] IN
        /\ client'[c].pc \in {"stored", "forward", "checked", "refused"} => disk["primary"] \notin old
        /\ client'[c].pc \in {"backed", "answered"} => \A s \in Server : Up(s)' => disk[s] \notin old
    BY <1>12, <2>1, <2>2, <1>0, <1>T DEF IInv, Replaced, Paired, Up, BackupCallFails, Server, AtPrimary
  <2>5. \A s \in Server : Up(s)' => Up(s)
    BY <2>1, <2>2, <1>0 DEF Up, Server
  <2>6. repl_state'["backup"] = repl_state["backup"]
    BY <2>1, <1>0 DEF Server
  <2>7. /\ \A d \in Client : d # c => client'[d] = client[d]
        /\ client'[c].op = client[c].op /\ client'[c].block = client[c].block
    BY <2>1, <1>0 DEF CallType
  <2> QED
    BY <2>1, <2>2, <2>3, <2>4, <2>5, <2>6, <2>7, MoveStep
<1>13. ASSUME NEW c \in Client, AssumeBackupDown(c) PROVE IInv'
  <2>1. /\ client' = [client EXCEPT ![c].pc = "answered"] /\ client[c].pc = "refused"
        /\ UNCHANGED <<disk, late, calls, acked, before>>
        /\ repl_state' = [repl_state EXCEPT !["primary"] = "Standalone"]
    BY <1>13 DEF AssumeBackupDown, Goes
  <2>2. late = {} /\ Up("primary")
    BY <2>1, <1>T, <1>L DEF AtPrimary
  <2>3. Paired'
    BY <1>13, <2>1, <1>0, <2>2 DEF IInv, Paired, Up, AssumeBackupDown, Server
  <2>4. LET old == before[client[c].block] IN
        /\ client'[c].pc \in {"stored", "forward", "checked", "refused"} => disk["primary"] \notin old
        /\ client'[c].pc \in {"backed", "answered"} => \A s \in Server : Up(s)' => disk[s] \notin old
    BY <1>13, <2>1, <2>2, <1>0, <1>T DEF IInv, Replaced, Paired, Up, AssumeBackupDown, Server, AtPrimary
  <2>5. \A s \in Server : Up(s)' => Up(s)
    BY <2>1, <2>2, <1>0 DEF Up, Server
  <2>6. repl_state'["backup"] = repl_state["backup"]
    BY <2>1, <1>0 DEF Server
  <2>7. /\ \A d \in Client : d # c => client'[d] = client[d]
        /\ client'[c].op = client[c].op /\ client'[c].block = client[c].block
    BY <2>1, <1>0 DEF CallType
  <2> QED
    BY <2>1, <2>2, <2>3, <2>4, <2>5, <2>6, <2>7, MoveStep
<1>14. ASSUME NEW c \in Client, Return(c) PROVE IInv'
  <2>1. /\ client' = [client EXCEPT ![c].pc = "idle"] /\ client[c].pc = "answered"
        /\ UNCHANGED <<repl_state, disk, late, calls, before>>
        /\ acked' = IF client[c].op = "Write" THEN acked \union {client[c].block} ELSE acked
    BY <1>14 DEF Return, Goes
  <2>2. client[c].op = "Write" =>
          /\ client[c].block \in 0..calls
          /\ \A d \in Client : Writing(d) /\ client[d].block = client[c].block => d = c
    BY <2>1 DEF IInv, Own, Writing
  <2>3. Numbered' /\ Paired'
    BY <2>1, <2>2, <1>0 DEF IInv, Numbered, Paired, Up
  <2>4. NoStaleBlock'
    BY <2>1, <1>0 DEF IInv, NoStaleBlock, Replaced, Up
  <2>5. Own'
    BY <2>1, <2>2, <1>0 DEF IInv, Own, Writing
  <2>6. LateWaits'
    BY <2>1, <1>0 DEF IInv, LateWaits
  <2>7. Replaced'
    BY <2>1, <1>0 DEF IInv, Replaced, Up
  <2> QED
    BY <2>3, <2>4, <2>5, <2>6, <2>7 DEF IInv
<1>15. ASSUME NEW s \in Server, Crash(s) PROVE IInv'
  <2>1. /\ repl_state' = [repl_state EXCEPT ![s] = "Down"]
        /\ \A r \in Server : Up(r)
        /\ UNCHANGED <<disk, calls, acked, before>>
    BY <1>15 DEF Crash
  <2>2. \A d \in Client : /\ client'[d].op = client[d].op /\ client'[d].block = client[d].block
                          /\ \/ client'[d].pc = client[d].pc
                             \/ client[d].pc \in AtPrimary /\ client'[d].pc = "sent"
    <3>1. CASE s = "primary"
      <4>1. \A d \in Client : client'[d] =
              IF client[d].pc \in AtPrimary THEN [client[d] EXCEPT !.pc = "sent"] ELSE client[d]
        BY <1>15, <3>1 DEF Crash
      <4>2. \A d \in Client : client[d] \in CallType
        BY <1>0
      <4>3. ASSUME NEW d \in Client, client[d].pc \in AtPrimary
            PROVE  /\ client'[d].op = client[d].op /\ client'[d].block = client[d].block
                   /\ client'[d].pc = "sent"
        <5>1. client'[d] = [client[d] EXCEPT !.pc = "sent"]
          BY <4>1, <4>3
        <5>2. client[d] \in CallType
          BY <4>2
        <5> QED
          BY <5>1, <5>2 DEF CallType
      <4> QED
        BY <4>1, <4>3
    <3>2. CASE s = "backup"
      BY <1>15, <3>2 DEF Crash
    <3> QED
      BY <3>1, <3>2 DEF Server
  <2>3. Numbered'
    BY <2>1 DEF IInv, Numbered
  <2>4. Paired'
    BY <2>1, <2>2, <1>0 DEF IInv, Paired, Up, Server
  <2>5. NoStaleBlock'
    BY <2>1, <1>0 DEF IInv, NoStaleBlock, Up
  <2>6. Own'
    BY <2>1, <2>2 DEF IInv, Own, Writing, AtPrimary
  <2>7. Replaced'
    BY <2>1, <2>2, <1>0 DEF IInv, Replaced, Up
  <2>8. LateWaits'
    <3>1. late = {} /\ repl_state["backup"] # "Standalone"
      BY <2>1, <1>L DEF IInv, Paired, Server
    <3>2. CASE s = "primary"
      <4>1. \A c \in Client : client'[c] =
              IF client[c].pc \in AtPrimary THEN [client[c] EXCEPT !.pc = "sent"] ELSE client[c]
        BY <1>15, <3>2 DEF Crash
      <4>2. late' = {[pc |-> client[c].pc, block |-> client[c].block] :
                       c \in {k \in Client : client[k].pc \in {"forward", "checked"}}}
        BY <1>15, <3>2 DEF Crash
      <4>3. ASSUME NEW l \in late'
            PROVE  \E c \in Client :
                     client'[c].pc = "sent" /\ client'[c].op = "Write" /\ client'[c].block = l.block
        <5>1. PICK c \in Client : client[c].pc \in {"forward", "checked"} /\ l.block = client[c].block
          BY <4>2
        <5> QED
          BY <5>1, <4>1, <1>T, <1>0 DEF AtPrimary, CallType
      <4> QED
        BY <4>3, <3>1, <3>2, <2>1, <1>0 DEF LateWaits, Server
    <3>3. CASE s = "backup"
      BY <1>15, <3>1, <3>3 DEF Crash, LateWaits
    <3> QED
      BY <3>2, <3>3 DEF Server
  <2> QED
    BY <2>3, <2>4, <2>5, <2>6, <2>7, <2>8 DEF IInv
<1>16. CASE TakeOver
  <2>1. /\ repl_state' = [repl_state EXCEPT !["backup"] = "Standalone"] /\ ~ Up("primary")
        /\ repl_state["backup"] = "Normal" /\ \A l \in late : l.pc = "forward"
        /\ UNCHANGED <<disk, late, client, calls, acked, before>>
    BY <1>16 DEF TakeOver
  <2>2. Paired'
    BY <2>1, <1>0 DEF IInv, Paired, Up, Server
  <2>3. Numbered' /\ Own' /\ LateWaits'
    BY <2>1, <1>0 DEF IInv, Numbered, Own, Writing, LateWaits, Server
  <2>4. NoStaleBlock' /\ Replaced'
    BY <2>1, <1>0 DEF IInv, NoStaleBlock, Replaced, Up, Server
  <2> QED
    BY <2>2, <2>3, <2>4 DEF IInv
<1>17. ASSUME NEW l \in late, LateCheck(l) PROVE IInv'
  <2>1. CASE repl_state["backup"] = "Normal"
    <3>1. /\ UNCHANGED repl_state /\ late' = (late \ {l}) \union {[l EXCEPT !.pc = "checked"]}
          /\ UNCHANGED <<disk, client, calls, acked, before>>
      BY <1>17, <2>1 DEF LateCheck
    <3>2. Numbered' /\ Own' /\ Paired'
      BY <3>1 DEF IInv, Numbered, Own, Writing, Paired, Up
    <3>3. NoStaleBlock' /\ Replaced'
      BY <3>1 DEF IInv, NoStaleBlock, Replaced, Up
    <3>4. LateWaits'
      <4>1. [l EXCEPT !.pc = "checked"].block = l.block
        <5>1. l \in [pc : {"forward", "checked"}, block : Block]
          BY DEF IInv, TypeOK
        <5> QED
          BY <5>1
      <4>2. \A k \in late' : \E m \in late : k.block = m.block
        BY <4>1, <3>1
      <4> QED
        BY <4>2, <3>1, <2>1 DEF IInv, LateWaits
    <3> QED
      BY <3>2, <3>3, <3>4 DEF IInv
  <2>2. CASE repl_state["backup"] = "Standalone"
    <3>1. /\ repl_state' = [repl_state EXCEPT !["backup"] = "Down"] /\ late' = {}
          /\ UNCHANGED <<disk, client, calls, acked, before>>
      BY <1>17, <2>2 DEF LateCheck
    <3>2. Numbered' /\ Own' /\ LateWaits'
      BY <3>1 DEF IInv, Numbered, Own, Writing, LateWaits
    <3>3. Paired'
      BY <3>1, <1>0 DEF IInv, Paired, Up, Server
    <3>4. NoStaleBlock' /\ Replaced'
      BY <3>1, <1>0 DEF IInv, NoStaleBlock, Replaced, Up, Server
    <3> QED
      BY <3>2, <3>3, <3>4 DEF IInv
  <2> QED
    BY <1>17, <2>1, <2>2 DEF LateCheck
<1>18. ASSUME NEW l \in late, LateStore(l) PROVE IInv'
  <2>1. /\ disk' = [disk EXCEPT !["backup"] = l.block] /\ late' = late \ {l}
        /\ UNCHANGED <<repl_state, client, calls, acked, before>>
    BY <1>18 DEF LateStore, Store
  <2>2. PICK c \in Client : client[c].pc = "sent" /\ client[c].op = "Write" /\ client[c].block = l.block
    BY <1>18 DEF LateStore, IInv, LateWaits
  <2>3. /\ NoStaleBlock'
        /\ \A v \in Block, r \in Server : disk[r] \notin before[v] => disk'[r] \notin before[v]
    BY <2>1, <2>2, StoreStep DEF Server, Writing
  <2>4. Numbered' /\ Own' /\ Paired' /\ LateWaits'
    BY <2>1 DEF IInv, Numbered, Own, Writing, Paired, LateWaits, Up
  <2>5. Replaced'
    <3>1. \A d \in Client : client[d].block \in Block
      BY <1>0 DEF CallType
    <3> QED
      BY <3>1, <2>1, <2>3 DEF IInv, Replaced, Up, Server
  <2> QED
    BY <2>3, <2>4, <2>5 DEF IInv
<1>19. CASE UNCHANGED vars
  BY <1>19 DEF vars, IInv, Numbered, Own, Writing, Paired, LateWaits, Replaced, NoStaleBlock, Up
<1> QED
  BY <1>1, <1>2, <1>3, <1>4, <1>5, <1>6, <1>7, <1>8, <1>9, <1>10, <1>11, <1>12, <1>13, <1>14, <1>15, <1>16, <1>17, <1>18, <1>19 DEF Next, Call, BackUp

\* The initial states have the invariant.
LEMMA InitInv == Init => IInv
<1> SUFFICES ASSUME Init PROVE IInv
  OBVIOUS
<1>1. TypeOK
  BY TypeInit
<1>2. Numbered /\ Own /\ Paired /\ LateWaits /\ Replaced /\ NoStaleBlock
  BY ReplicationAssumption
  DEF Init, Block, Numbered, Own, Writing, Paired, LateWaits, Replaced, NoStaleBlock, Up, Server
<1> QED
  BY <1>1, <1>2 DEF IInv

\* No acknowledged write is undone by an older one, for any number of clients
\* and writes and whichever server crashes, if no BackupWrite of a dead
\* primary is between its test and its write when the backup takes over.
THEOREM AckedWritesLast == ASSUME Prompt PROVE Spec => []NoStaleBlock
<1>1. Init => IInv
  BY InitInv
<1>2. IInv /\ [Next]_vars => IInv'
  BY TypeStep, InvStep DEF IInv
<1>3. IInv => NoStaleBlock
  BY DEF IInv
<1> QED
  BY <1>1, <1>2, <1>3, PTL DEF Spec

----------------------------------------------------------------------------
(***************************************************************************)
(* What the backup has missed is marked.                                   *)
(***************************************************************************)

\* Each write that is answered, or about to be, has reached the backup or is
\* marked.
Marked ==
  /\ 0 \in received
  /\ \A c \in Client :
       client[c].op = "Write" /\ client[c].pc \in {"backed", "answered"} =>
         client[c].block \in received \/ dirty
  /\ \A v \in acked : v \in received \/ dirty

\* Every step keeps Marked.
LEMMA MarkedStep == ASSUME TypeOK, Marked, [Next]_vars PROVE Marked'
<1> USE DEF Marked, servers, history, Goes
<1>0. client \in [Client -> CallType] /\ dirty \in BOOLEAN
  BY DEF TypeOK
<1>1. ASSUME NEW c \in Client, BeginRead(c) PROVE Marked'
  BY <1>1, <1>0 DEF BeginRead, Request
<1>2. ASSUME NEW c \in Client, BeginWrite(c) PROVE Marked'
  BY <1>2, <1>0 DEF BeginWrite, Request
<1>3. ASSUME NEW c \in Client, Resend(c) PROVE Marked'
  <2>1. /\ client' = [client EXCEPT ![c] = [@ EXCEPT !.pc = "sent", !.use_backup = NextServer(c)]]
        /\ UNCHANGED <<servers, history>>
    BY <1>3 DEF Resend
  <2> QED
    BY <2>1, <1>0
<1>4. ASSUME NEW c \in Client, ReadBlock(c) PROVE Marked'
  <2>1. PICK s \in Server :
          client' = [client EXCEPT ![c] = [@ EXCEPT !.pc = "answered", !.block = disk[s]]]
    BY <1>4 DEF ReadBlock
  <2>2. client[c].op = "Read" /\ UNCHANGED <<servers, history>>
    BY <1>4 DEF ReadBlock, Handled
  <2>3. client'[c].op = "Read" /\ \A d \in Client : d # c => client'[d] = client[d]
    BY <2>1, <2>2, <1>0 DEF CallType
  <2> QED
    BY <2>2, <2>3
<1>5. ASSUME NEW c \in Client, WriteAtBackup(c) PROVE Marked'
  BY <1>5, <1>0 DEF WriteAtBackup
<1>6. ASSUME NEW c \in Client, WriteAtPrimary(c) PROVE Marked'
  BY <1>6, <1>0 DEF WriteAtPrimary
<1>7. ASSUME NEW c \in Client, CallBackup(c) PROVE Marked'
  BY <1>7, <1>0 DEF CallBackup
<1>8. ASSUME NEW c \in Client, MarkStandaloneWrite(c) PROVE Marked'
  BY <1>8, <1>0 DEF MarkStandaloneWrite
<1>9. ASSUME NEW c \in Client, CheckBackupState(c) PROVE Marked'
  BY <1>9, <1>0 DEF CheckBackupState
<1>10. ASSUME NEW c \in Client, BackupStores(c) PROVE Marked'
  BY <1>10, <1>0 DEF BackupStores
<1>11. ASSUME NEW c \in Client, BackupAnswers(c) PROVE Marked'
  BY <1>11, <1>0 DEF BackupAnswers
<1>12. ASSUME NEW c \in Client, BackupCallFails(c) PROVE Marked'
  BY <1>12, <1>0 DEF BackupCallFails
<1>13. ASSUME NEW c \in Client, AssumeBackupDown(c) PROVE Marked'
  BY <1>13, <1>0 DEF AssumeBackupDown
<1>14. ASSUME NEW c \in Client, Return(c) PROVE Marked'
  BY <1>14, <1>0 DEF Return
<1>15. ASSUME NEW s \in Server, Crash(s) PROVE Marked'
  <2>1. UNCHANGED <<dirty, received, acked>>
    BY <1>15 DEF Crash
  <2>2. ASSUME NEW c \in Client, client'[c].pc \in {"backed", "answered"} PROVE client'[c] = client[c]
    <3>1. CASE client' = client
      BY <3>1
    <3>2. CASE client' = [d \in Client |->
                 IF client[d].pc \in AtPrimary THEN [client[d] EXCEPT !.pc = "sent"] ELSE client[d]]
      <4>1. CASE client[c].pc \in AtPrimary
        <5>1. client'[c] = [client[c] EXCEPT !.pc = "sent"] /\ client[c] \in CallType
          BY <3>2, <4>1, <1>0
        <5> QED
          BY <5>1, <2>2 DEF CallType
      <4> QED
        BY <3>2, <4>1
    <3> QED
      BY <1>15, <3>1, <3>2 DEF Crash
  <2> QED
    BY <2>1, <2>2
<1>16. CASE TakeOver
  BY <1>16 DEF TakeOver
<1>17. ASSUME NEW l \in late, LateCheck(l) PROVE Marked'
  BY <1>17 DEF LateCheck
<1>18. ASSUME NEW l \in late, LateStore(l) PROVE Marked'
  BY <1>18 DEF LateStore
<1>19. CASE UNCHANGED vars
  BY <1>19 DEF vars
<1> QED
  BY <1>1, <1>2, <1>3, <1>4, <1>5, <1>6, <1>7, <1>8, <1>9, <1>10, <1>11, <1>12, <1>13, <1>14, <1>15, <1>16, <1>17, <1>18, <1>19 DEF Next, Call, BackUp

\* Whatever an acknowledged write has not brought to the backup is on the
\* primary's dirty list, for any clients, crashes and timing.
THEOREM MissedWritesOnList == Spec => []MissedWritesMarked
<1>1. Init => Marked
  BY DEF Init, Marked
<1>2. TypeOK /\ Marked /\ [Next]_vars => Marked'
  BY MarkedStep
<1>3. Marked => MissedWritesMarked
  BY DEF Marked, MissedWritesMarked
<1> QED
  BY <1>1, <1>2, <1>3, TypeCorrect, PTL DEF Spec

----------------------------------------------------------------------------
(***************************************************************************)
(* The pair implements BlockStore.                                         *)
(***************************************************************************)

\* What the servers store has been written.
Stored == \A s \in Server : disk[s] \in 0..calls

\* Nobody has an answer of a backup whose primary is there.
Answered ==
  Up("primary") => \A c \in Client : client[c].pc = "answered" => ~ client[c].use_backup

RInv == IInv /\ Stored /\ Answered

\* The block of a write under way, or of a late BackupWrite that can still be
\* stored, has been begun and is older than no other write.
LEMMA LateBlock ==
  ASSUME IInv, NEW l \in late, LateStore(l)
  PROVE  l.block \in 0..calls /\ \A v \in Block : l.block \notin before[v]
<1>1. PICK c \in Client : client[c].pc = "sent" /\ client[c].op = "Write" /\ client[c].block = l.block
  BY DEF LateStore, IInv, LateWaits
<1> QED
  BY <1>1, UnderWay DEF IInv, Own, Writing

\* What the primary's handler does once it has stored the block: nothing that
\* another client or a reader of the primary could see.
LEMMA BackUpMoves ==
  ASSUME IInv, NEW c \in Client, BackUp(c)
  PROVE  /\ Up("primary") /\ client[c].pc \in AtPrimary /\ ~ client[c].use_backup
         /\ client'[c].pc \in AtPrimary \union {"answered"}
         /\ client'[c].op = client[c].op /\ client'[c].block = client[c].block
         /\ ~ client'[c].use_backup
         /\ \A d \in Client : d # c => client'[d] = client[d]
         /\ disk'["primary"] = disk["primary"]
         /\ \A s \in Server : Up(s)' = Up(s)
         /\ UNCHANGED <<calls, acked, before>>
<1>0. /\ client \in [Client -> CallType] /\ disk \in [Server -> Block]
      /\ repl_state \in [Server -> {"Normal", "Standalone", "Down"}]
  BY DEF IInv, TypeOK
<1>1. Up("primary") /\ client[c].pc \in AtPrimary /\ ~ client[c].use_backup
  <2>1. client[c].pc \in AtPrimary
    BY DEF BackUp, CallBackup, MarkStandaloneWrite, CheckBackupState, BackupStores,
           BackupAnswers, BackupCallFails, AssumeBackupDown, AtPrimary
  <2> QED
    BY <2>1 DEF IInv, TypeOK
<1> USE <1>0, <1>1 DEF Goes, servers, history
<1>2. \E pc \in AtPrimary \union {"answered"} : Goes(c, pc)
  BY DEF BackUp, CallBackup, MarkStandaloneWrite, CheckBackupState, BackupStores,
         BackupAnswers, BackupCallFails, AssumeBackupDown, AtPrimary
<1>3. /\ client'[c].pc \in AtPrimary \union {"answered"}
      /\ client'[c].op = client[c].op /\ client'[c].block = client[c].block
      /\ ~ client'[c].use_backup
      /\ \A d \in Client : d # c => client'[d] = client[d]
  BY <1>2 DEF CallType
<1>4. disk'["primary"] = disk["primary"] /\ UNCHANGED <<calls, acked, before>>
  BY DEF BackUp, CallBackup, MarkStandaloneWrite, CheckBackupState, BackupStores,
         BackupAnswers, BackupCallFails, AssumeBackupDown, Store, Server
<1>5. UNCHANGED repl_state \/ repl_state' = [repl_state EXCEPT !["primary"] = "Standalone"]
  BY DEF BackUp, CallBackup, MarkStandaloneWrite, CheckBackupState, BackupStores,
         BackupAnswers, BackupCallFails, AssumeBackupDown
<1> QED
  BY <1>3, <1>4, <1>5 DEF Up, Server

\* Every step keeps Stored.
LEMMA StoredStep == ASSUME IInv, Stored, [Next]_vars PROVE Stored'
<1> USE DEF servers, history
<1>0. disk \in [Server -> Block] /\ calls \in Nat
  BY ReplicationAssumption DEF IInv, TypeOK, Block
<1>1. SUFFICES /\ calls' \in Nat /\ calls' >= calls
               /\ \/ disk' = disk
                  \/ \E s \in Server, b \in 0..calls : disk' = [disk EXCEPT ![s] = b]
  BY <1>0, <1>1 DEF Stored
<1>2. ASSUME NEW c \in Client, NEW s \in Server, client[c].op = "Write", client[c].pc # "idle",
             Store(s, client[c].block), calls' = calls
      PROVE  \E b \in 0..calls : disk' = [disk EXCEPT ![s] = b]
  BY <1>2 DEF IInv, Own, Writing, Store
<1>3. ASSUME NEW c \in Client, WriteAtBackup(c) \/ WriteAtPrimary(c) \/ BackupStores(c)
      PROVE  calls' = calls /\ \E s \in Server, b \in 0..calls : disk' = [disk EXCEPT ![s] = b]
  <2>1. client[c].op = "Write" /\ client[c].pc # "idle" /\ calls' = calls
    BY <1>3 DEF WriteAtBackup, WriteAtPrimary, BackupStores, Handled, IInv, TypeOK, AtPrimary
  <2>2. Store("backup", client[c].block) \/ Store("primary", client[c].block)
    BY <1>3 DEF WriteAtBackup, WriteAtPrimary, BackupStores
  <2> QED
    BY <1>2, <2>1, <2>2 DEF Server
<1>4. ASSUME NEW l \in late, LateStore(l)
      PROVE  calls' = calls /\ \E s \in Server, b \in 0..calls : disk' = [disk EXCEPT ![s] = b]
  BY <1>4, LateBlock DEF LateStore, Store, Server
<1>5. ASSUME NEW c \in Client, BeginWrite(c)
      PROVE  calls' = calls + 1 /\ disk' = disk
  BY <1>5 DEF BeginWrite
<1>6. ASSUME NEW c \in Client,
             \/ BeginRead(c) \/ Resend(c) \/ ReadBlock(c) \/ CallBackup(c) \/ MarkStandaloneWrite(c)
             \/ CheckBackupState(c) \/ BackupAnswers(c) \/ BackupCallFails(c) \/ AssumeBackupDown(c)
             \/ Return(c)
      PROVE  calls' = calls /\ disk' = disk
  BY <1>6 DEF BeginRead, Resend, ReadBlock, CallBackup, MarkStandaloneWrite, CheckBackupState,
              BackupAnswers, BackupCallFails, AssumeBackupDown, Return
<1>7. ASSUME \/ \E s \in Server : Crash(s)
             \/ TakeOver
             \/ \E l \in late : LateCheck(l)
             \/ UNCHANGED vars
      PROVE  calls' = calls /\ disk' = disk
  BY <1>7 DEF Crash, TakeOver, LateCheck, vars
<1> QED
  BY <1>0, <1>3, <1>4, <1>5, <1>6, <1>7 DEF Next, Call, BackUp

\* Every step keeps Answered.
LEMMA AnsweredStep == ASSUME IInv, Answered, [Next]_vars PROVE Answered'
<1> USE DEF Goes, servers, history, AtPrimary
<1>0. /\ client \in [Client -> CallType] /\ repl_state \in [Server -> {"Normal", "Standalone", "Down"}]
      /\ \A c \in Client : client[c].pc \in AtPrimary => ~ client[c].use_backup
      /\ Up("primary") => repl_state["backup"] # "Standalone"
  BY DEF IInv, TypeOK, Paired
<1>1. SUFFICES ASSUME NEW d \in Client, Up("primary")', client'[d].pc = "answered"
               PROVE  ~ client'[d].use_backup
  BY DEF Answered
<1>2. ASSUME Up("primary") PROVE client[d].pc = "answered" => ~ client[d].use_backup
  BY <1>2 DEF Answered
<1> USE DEF Up
<1>3. ASSUME NEW c \in Client, BeginRead(c) \/ BeginWrite(c) PROVE ~ client'[d].use_backup
  BY <1>1, <1>2, <1>3, <1>0 DEF BeginRead, BeginWrite, Request, CallType
<1>4. ASSUME NEW c \in Client, Resend(c) PROVE ~ client'[d].use_backup
  <2>1. /\ client' = [client EXCEPT ![c] = [@ EXCEPT !.pc = "sent", !.use_backup = NextServer(c)]]
        /\ UNCHANGED repl_state
    BY <1>4 DEF Resend
  <2>2. d # c
    BY <1>1, <2>1, <1>0 DEF CallType
  <2> QED
    BY <1>1, <1>2, <2>1, <2>2, <1>0
<1>5. ASSUME NEW c \in Client, ReadBlock(c) PROVE ~ client'[d].use_backup
  <2>1. PICK s \in Server :
          /\ client' = [client EXCEPT ![c] = [@ EXCEPT !.pc = "answered", !.block = disk[s]]]
          /\ ServerOf(c) = s /\ Serves(s)
          /\ UNCHANGED repl_state
    BY <1>5 DEF ReadBlock, Handled
  <2>2. ~ client[c].use_backup
    BY <1>1, <1>0, <2>1 DEF ServerOf, Serves
  <2>3. client'[c].use_backup = client[c].use_backup
    BY <2>1, <1>0 DEF CallType
  <2> QED
    BY <1>1, <1>2, <1>0, <2>1, <2>2, <2>3
<1>6. ASSUME NEW c \in Client, WriteAtBackup(c) PROVE ~ client'[d].use_backup
  BY <1>1, <1>0, <1>6 DEF WriteAtBackup, Handled, Serves
<1>7. ASSUME NEW c \in Client, WriteAtPrimary(c) PROVE ~ client'[d].use_backup
  BY <1>1, <1>2, <1>0, <1>7 DEF WriteAtPrimary, CallType
<1>8. ASSUME NEW c \in Client, BackUp(c) PROVE ~ client'[d].use_backup
  BY <1>1, <1>2, <1>8, BackUpMoves
<1>9. ASSUME NEW c \in Client, Return(c) PROVE ~ client'[d].use_backup
  BY <1>1, <1>2, <1>0, <1>9 DEF Return, CallType
<1>10. ASSUME NEW s \in Server, Crash(s) PROVE ~ client'[d].use_backup
  BY <1>1, <1>2, <1>0, <1>10 DEF Crash, Server
<1>11. CASE TakeOver
  BY <1>1, <1>2, <1>0, <1>11 DEF TakeOver
<1>12. ASSUME NEW l \in late, LateCheck(l) \/ LateStore(l) PROVE ~ client'[d].use_backup
  BY <1>1, <1>2, <1>0, <1>12 DEF LateCheck, LateStore, Server
<1>13. CASE UNCHANGED vars
  BY <1>1, <1>2, <1>13 DEF vars
<1> QED
  BY <1>3, <1>4, <1>5, <1>6, <1>7, <1>8, <1>9, <1>10, <1>11, <1>12, <1>13 DEF Next, Call

\* In a step of one call in which no server goes, BlockStore's calls change in
\* that call alone.
LEMMA ImageStep ==
  ASSUME NEW c \in Client, \A d \in Client : d # c => client'[d] = client[d],
         \A s \in Server : Up(s)' = Up(s)
  PROVE  [d \in Client |-> Image(d)]' = [[d \in Client |-> Image(d)] EXCEPT ![c] = Image(c)']
<1>1. ASSUME NEW d \in Client, d # c PROVE Image(d)' = Image(d)
  BY <1>1 DEF Image, Phase, ServerOf, Server
<1> QED
  BY <1>1

\* When the last server that serves goes, all answers become doubtful, and what
\* was under way at the primary is to be done again.
LEMMA FailStep ==
  ASSUME RInv, Serving, ~ Serving', Up("backup"), UNCHANGED <<disk, calls, acked, before>>,
         \A c \in Client : /\ client'[c].op = client[c].op /\ client'[c].block = client[c].block
                           /\ client'[c].pc = "answered" => client[c].pc = "answered"
                           /\ Phase(c)' \in Register!After(Phase(c))
  PROVE  Register!Fail
<1> DEFINE value == IF Up("primary") THEN disk["primary"] ELSE disk["backup"]
<1>1. value' = disk["backup"]
  BY DEF Serving
<1>2. value' \in 0..calls
  BY <1>1 DEF RInv, Stored, Server
<1>3. \A v \in acked : value' \notin before[v]
  BY <1>1 DEF RInv, IInv, NoStaleBlock, Server
<1>4. ASSUME NEW c \in Client, Phase(c)' = "doubtful", client'[c].op = "Write"
      PROVE  value' \notin before[client'[c].block]
  <2>1. client[c].pc = "answered" /\ client[c].op = "Write" /\ client'[c].block = client[c].block
    BY <1>4 DEF Phase
  <2> QED
    BY <1>1, <2>1 DEF RInv, IInv, Replaced, Server
<1>5. Register!FallBack
  BY <1>2, <1>3, <1>4 DEF Register!FallBack, Image
<1>6. \A c \in Client : Phase(c)' \in {"idle", "pending", "done", "doubtful"}
  BY DEF Phase
<1>7. \A c \in Client : Image(c)' = [Image(c) EXCEPT !.pc = Phase(c)']
  BY DEF Image
<1>8. [c \in Client |-> Phase(c)'] \in [Client -> {"idle", "pending", "done", "doubtful"}]
  BY <1>6
<1>9. /\ \A c \in Client : [k \in Client |-> Phase(k)'][c] \in Register!After(Image(c).pc)
      /\ [c \in Client |-> Image(c)]' =
           [c \in Client |-> [[k \in Client |-> Image(k)][c] EXCEPT !.pc = [k \in Client |-> Phase(k)'][c]]]
  BY <1>7 DEF Image
<1> QED
  BY <1>5, <1>8, <1>9 DEF Register!Fail

\* Every step is a step or a stutter of BlockStore.
LEMMA RegisterStep ==
  ASSUME RInv, [Next]_vars
  PROVE  [Register!Next]_(Register!bsvars)
<1> USE DEF servers, history
<1>0. /\ client \in [Client -> CallType] /\ disk \in [Server -> Block]
      /\ repl_state \in [Server -> {"Normal", "Standalone", "Down"}]
      /\ calls \in Block /\ MaxCalls \in Nat /\ Block = 0..MaxCalls
      /\ before \in [Block -> SUBSET Block]
      /\ late # {} => ~ Up("primary")
      /\ \A c \in Client : client[c].pc \in AtPrimary => Up("primary") /\ ~ client[c].use_backup
  BY ReplicationAssumption DEF RInv, IInv, TypeOK, Block
<1>P. repl_state["backup"] = "Standalone" => ~ Up("primary")
  BY DEF RInv, IInv, Paired
<1>1. ASSUME NEW c \in Client, BeginRead(c) PROVE Register!Next
  <2>1. /\ client' = [client EXCEPT ![c] = [pc |-> "sent", op |-> "Read", block |-> 0,
                                          use_backup |-> @.use_backup]]
        /\ client[c].pc = "idle" /\ UNCHANGED <<repl_state, disk, calls, acked, before>>
    BY <1>1 DEF BeginRead, Request
  <2>2. Image(c)' = [pc |-> "pending", op |-> "Read", block |-> 0]
    BY <2>1, <1>0 DEF Image, Phase
  <2>3. Register!InvokeRead(c)
    BY <2>1, <2>2, <1>0, ImageStep
    DEF Register!InvokeRead, Register!Invoke, Image, Phase, Up, Serving
  <2> QED
    BY <2>3 DEF Register!Next
<1>2. ASSUME NEW c \in Client, BeginWrite(c) PROVE Register!Next
  <2>1. /\ client' = [client EXCEPT ![c] = [pc |-> "sent", op |-> "Write", block |-> calls + 1,
                                          use_backup |-> @.use_backup]]
        /\ client[c].pc = "idle" /\ UNCHANGED <<repl_state, disk, acked>>
        /\ calls' = calls + 1 /\ before' = [before EXCEPT ![calls + 1] = acked] /\ calls < MaxCalls
    BY <1>2 DEF BeginWrite, Request
  <2>2. Image(c)' = [pc |-> "pending", op |-> "Write", block |-> calls + 1]
    BY <2>1, <1>0 DEF Image, Phase
  <2>3. Register!Invoke(c, "Write", calls + 1)
    BY <2>1, <2>2, <1>0, ImageStep DEF Register!Invoke, Image, Phase, Up, Serving
  <2>4. calls + 1 \in Block /\ calls + 1 \notin 0..calls /\ 0..calls' = (0..calls) \union {calls + 1}
    BY <2>1, <1>0
  <2>5. Register!InvokeWrite(c, calls + 1)
    BY <2>1, <2>3, <2>4 DEF Register!InvokeWrite
  <2> QED
    BY <2>4, <2>5 DEF Register!Next
<1>3. ASSUME NEW c \in Client, Resend(c) PROVE [Register!Next]_(Register!bsvars)
  <2>1. /\ client' = [client EXCEPT ![c] = [@ EXCEPT !.pc = "sent", !.use_backup = NextServer(c)]]
        /\ UNCHANGED <<repl_state, disk, calls, acked, before>>
    BY <1>3 DEF Resend
  <2>2. /\ client'[c].pc = "sent" /\ client'[c].op = client[c].op /\ client'[c].block = client[c].block
        /\ \A d \in Client : d # c => client'[d] = client[d]
    BY <2>1, <1>0 DEF CallType
  <2>3. Image(c)' = [pc |-> "pending", op |-> client[c].op, block |-> client[c].block]
    BY <2>2 DEF Image, Phase
  <2>4. CASE client[c].pc = "sent"
    <3>1. Image(c)' = Image(c)
      BY <2>3, <2>4 DEF Image, Phase
    <3> QED
      BY <3>1, <2>1, <2>2, ImageStep DEF Register!bsvars, Up, Serving
  <2>5. CASE client[c].pc = "answered" /\ ~ Up(ServerOf(c))
    <3>1. Image(c) = [pc |-> "doubtful", op |-> client[c].op, block |-> client[c].block]
      BY <2>5 DEF Image, Phase
    <3>2. Register!Redo(c)
      BY <3>1, <2>1, <2>2, <2>3, ImageStep DEF Register!Redo, Up, Serving
    <3> QED
      BY <3>2 DEF Register!Next
  <2> QED
    BY <2>4, <2>5, <1>3 DEF Resend
<1>4. ASSUME NEW c \in Client, ReadBlock(c) PROVE Register!Next
  <2>1. PICK s \in Server :
          /\ client' = [client EXCEPT ![c] = [@ EXCEPT !.pc = "answered", !.block = disk[s]]]
          /\ client[c].pc = "sent" /\ client[c].op = "Read" /\ ServerOf(c) = s /\ Serves(s)
          /\ UNCHANGED <<repl_state, disk, calls, acked, before>>
    BY <1>4 DEF ReadBlock, Handled
  <2>2. /\ client'[c].pc = "answered" /\ client'[c].op = "Read" /\ client'[c].block = disk[s]
        /\ client'[c].use_backup = client[c].use_backup
        /\ \A d \in Client : d # c => client'[d] = client[d]
    BY <2>1, <1>0 DEF CallType
  <2>3. Up(s) /\ Serving /\ (IF Up("primary") THEN disk["primary"] ELSE disk["backup"]) = disk[s]
    BY <2>1, <1>0, <1>P DEF Serves, Serving, Server, Up
  <2>4. /\ Image(c)' = [pc |-> "done", op |-> "Read", block |-> disk[s]]
        /\ Image(c) = [pc |-> "pending", op |-> "Read", block |-> client[c].block]
    BY <2>1, <2>2, <2>3 DEF Image, Phase, ServerOf, Up
  <2>5. Register!TakeEffect(c)
    BY <2>1, <2>2, <2>3, <2>4, ImageStep DEF Register!TakeEffect, Up, Serving
  <2> QED
    BY <2>5 DEF Register!Next
<1>5. ASSUME NEW c \in Client, NEW s \in Server, Handled(c, "Write", s), Store(s, client[c].block),
             client'[c] = [client[c] EXCEPT !.pc = IF s = "primary" THEN "stored" ELSE "answered"],
             \A d \in Client : d # c => client'[d] = client[d],
             UNCHANGED <<repl_state, calls, acked, before>>
      PROVE  Register!Next
  <2>1. /\ client[c].pc = "sent" /\ client[c].op = "Write" /\ ServerOf(c) = s /\ Serves(s)
        /\ disk' = [disk EXCEPT ![s] = client[c].block]
    BY <1>5 DEF Handled, Store
  <2>2. /\ client'[c].pc = IF s = "primary" THEN "stored" ELSE "answered"
        /\ client'[c].op = client[c].op /\ client'[c].block = client[c].block
        /\ client'[c].use_backup = client[c].use_backup
    BY <1>5, <1>0 DEF CallType
  <2>3. /\ Up(s) /\ Serving
        /\ (IF Up("primary") THEN disk["primary"] ELSE disk["backup"])' = client[c].block
    BY <2>1, <1>5, <1>0, <1>P DEF Serves, Serving, Server, Up
  <2>4. /\ Image(c)' = [pc |-> "done", op |-> "Write", block |-> client[c].block]
        /\ Image(c) = [pc |-> "pending", op |-> "Write", block |-> client[c].block]
    BY <2>1, <2>2, <2>3, <1>5 DEF Image, Phase, ServerOf, Up
  <2>5. [d \in Client |-> Image(d)]' = [[d \in Client |-> Image(d)] EXCEPT ![c] = Image(c)']
    BY <1>5, ImageStep DEF Up
  <2>6. [d \in Client |-> Image(d)]' = [[d \in Client |-> Image(d)] EXCEPT ![c].pc = "done"]
    <3>1. Image(c)' = [Image(c) EXCEPT !.pc = "done"]
      BY <2>4
    <3>2. [d \in Client |-> Image(d)][c] = Image(c)
      OBVIOUS
    <3> QED
      BY <2>5, <3>1, <3>2, Zenon
  <2>7. Register!TakeEffect(c)
    BY <2>3, <2>4, <2>6, <1>5 DEF Register!TakeEffect, Up, Serving
  <2> QED
    BY <2>7 DEF Register!Next
<1>6. ASSUME NEW c \in Client, WriteAtBackup(c) \/ WriteAtPrimary(c) PROVE Register!Next
  <2>1. CASE WriteAtBackup(c)
    BY <2>1, <1>5, <1>0 DEF WriteAtBackup, Goes, Server
  <2>2. CASE WriteAtPrimary(c)
    BY <2>2, <1>5, <1>0 DEF WriteAtPrimary, Goes, Server
  <2> QED
    BY <1>6, <2>1, <2>2
<1>7. ASSUME NEW c \in Client, BackUp(c) PROVE UNCHANGED Register!bsvars
  <2>1. /\ Up("primary") /\ client[c].pc \in AtPrimary /\ ~ client[c].use_backup
        /\ client'[c].pc \in AtPrimary \union {"answered"}
        /\ client'[c].op = client[c].op /\ client'[c].block = client[c].block
        /\ ~ client'[c].use_backup
        /\ \A d \in Client : d # c => client'[d] = client[d]
        /\ disk'["primary"] = disk["primary"]
        /\ \A s \in Server : Up(s)' = Up(s)
        /\ UNCHANGED <<calls, acked, before>>
    BY <1>7, BackUpMoves DEF RInv
  <2>2. Image(c)' = Image(c)
    BY <2>1 DEF Image, Phase, ServerOf, AtPrimary, Server
  <2>3. [d \in Client |-> Image(d)]' = [d \in Client |-> Image(d)]
    BY <2>1, <2>2, ImageStep
  <2> QED
    BY <2>1, <2>3 DEF Register!bsvars, Serving, Server
<1>8. ASSUME NEW c \in Client, Return(c) PROVE Register!Next
  <2>1. /\ client' = [client EXCEPT ![c].pc = "idle"] /\ client[c].pc = "answered"
        /\ UNCHANGED <<repl_state, disk, calls, before>>
        /\ acked' = IF client[c].op = "Write" THEN acked \union {client[c].block} ELSE acked
    BY <1>8 DEF Return, Goes
  <2>2. /\ Image(c)' = [pc |-> "idle", op |-> client[c].op, block |-> client[c].block]
        /\ Image(c).pc \in {"done", "doubtful"}
        /\ Image(c).op = client[c].op /\ Image(c).block = client[c].block
    BY <2>1, <1>0 DEF Image, Phase, CallType
  <2>3. Register!Return(c)
    BY <2>1, <2>2, <1>0, ImageStep DEF Register!Return, Up, Serving, Image
  <2> QED
    BY <2>3 DEF Register!Next
<1>9. ASSUME Crash("primary") PROVE Register!Next
  <2>1. /\ repl_state' = [repl_state EXCEPT !["primary"] = "Down"]
        /\ \A s \in Server : Up(s)
        /\ UNCHANGED <<disk, calls, acked, before>>
        /\ client' = [c \in Client |->
             IF client[c].pc \in AtPrimary THEN [client[c] EXCEPT !.pc = "sent"] ELSE client[c]]
    BY <1>9 DEF Crash
  <2>2. Serving /\ ~ Serving' /\ Up("primary") /\ Up("backup") /\ ~ Up("primary")'
    BY <2>1, <1>0, <1>P DEF Serving, Up, Server
  <2>3. ASSUME NEW c \in Client
        PROVE  /\ client'[c].op = client[c].op /\ client'[c].block = client[c].block
               /\ client'[c].pc = "answered" => client[c].pc = "answered"
               /\ Phase(c)' \in Register!After(Phase(c))
    <3>1. CASE client[c].pc \in AtPrimary
      <4>1. client'[c] = [client[c] EXCEPT !.pc = "sent"] /\ client[c] \in CallType
        BY <2>1, <3>1, <1>0
      <4>2. client'[c].op = client[c].op /\ client'[c].block = client[c].block /\ client'[c].pc = "sent"
        BY <4>1 DEF CallType
      <4>3. Phase(c)' = "pending" /\ Phase(c) = "done"
        BY <4>2, <3>1 DEF Phase, AtPrimary
      <4> QED
        BY <4>2, <4>3 DEF Register!After
    <3>2. CASE client[c].pc \notin AtPrimary
      <4>1. client'[c] = client[c] /\ client[c] \in CallType
        BY <2>1, <3>2, <1>0
      <4>2. CASE client[c].pc = "answered"
        <5>1. ~ client[c].use_backup
          BY <4>2, <2>2 DEF RInv, Answered
        <5>2. Phase(c)' = "doubtful" /\ Phase(c) = "done"
          BY <5>1, <4>1, <4>2, <2>2 DEF Phase, ServerOf
        <5> QED
          BY <4>1, <5>2 DEF Register!After
      <4>3. CASE client[c].pc \in {"idle", "sent"}
        BY <4>1, <4>3 DEF Phase, Register!After
      <4> QED
        BY <4>1, <4>2, <4>3, <3>2 DEF CallType
    <3> QED
      BY <3>1, <3>2
  <2>4. Register!Fail
    BY <2>1, <2>2, <2>3, FailStep
  <2> QED
    BY <2>4 DEF Register!Next
<1>10. ASSUME Crash("backup") PROVE UNCHANGED Register!bsvars
  <2>1. /\ repl_state' = [repl_state EXCEPT !["backup"] = "Down"]
        /\ Up("primary") /\ UNCHANGED <<disk, client, calls, acked, before>>
    BY <1>10 DEF Crash, Server
  <2>2. Up("primary")'
    BY <2>1, <1>0 DEF Up, Server
  <2>3. ASSUME NEW c \in Client PROVE Image(c)' = Image(c)
    <3>1. client[c].pc = "answered" => ~ client[c].use_backup
      BY <2>1 DEF RInv, Answered
    <3> QED
      BY <3>1, <2>1, <2>2 DEF Image, Phase, ServerOf
  <2> QED
    BY <2>1, <2>2, <2>3 DEF Register!bsvars, Serving
<1>11. ASSUME TakeOver PROVE Register!Next
  <2>1. /\ repl_state' = [repl_state EXCEPT !["backup"] = "Standalone"] /\ ~ Up("primary")
        /\ repl_state["backup"] = "Normal"
        /\ UNCHANGED <<disk, client, calls, acked, before>>
    BY <1>11 DEF TakeOver
  <2>2. ~ Serving /\ Serving' /\ \A s \in Server : Up(s)' = Up(s)
    BY <2>1, <1>0 DEF Serving, Up, Server
  <2>3. \A c \in Client : Image(c)' = Image(c)
    BY <2>1, <2>2 DEF Image, Phase, ServerOf, Server
  <2>4. Register!Resume
    BY <2>1, <2>2, <2>3 DEF Register!Resume, Server
  <2> QED
    BY <2>4 DEF Register!Next
<1>12. ASSUME NEW l \in late, LateCheck(l) PROVE [Register!Next]_(Register!bsvars)
  <2>1. ~ Up("primary") /\ UNCHANGED <<disk, client, calls, acked, before>>
    BY <1>12, <1>0 DEF LateCheck
  <2>2. CASE UNCHANGED repl_state
    BY <2>1, <2>2 DEF Register!bsvars, Image, Phase, ServerOf, Serving, Up
  <2>3. CASE repl_state["backup"] = "Standalone" /\ repl_state' = [repl_state EXCEPT !["backup"] = "Down"]
    <3>1. Serving /\ ~ Serving' /\ Up("backup") /\ \A s \in Server : ~ Up(s)'
      BY <2>1, <2>3, <1>0 DEF Serving, Up, Server
    <3>2. ASSUME NEW c \in Client PROVE Phase(c)' \in Register!After(Phase(c))
      <4>1. client[c].pc \notin AtPrimary /\ client[c] \in CallType /\ client'[c] = client[c]
        BY <2>1, <1>0
      <4>2. CASE client[c].pc = "answered"
        <5>1. Phase(c)' = "doubtful" /\ Phase(c) \in {"done", "doubtful"}
          BY <4>1, <4>2, <3>1 DEF Phase, ServerOf, Server
        <5> QED
          BY <5>1 DEF Register!After
      <4>3. CASE client[c].pc \in {"idle", "sent"}
        BY <4>1, <4>3 DEF Phase, Register!After
      <4> QED
        BY <4>1, <4>2, <4>3 DEF CallType
    <3>3. Register!Fail
      BY <2>1, <3>1, <3>2, FailStep
    <3> QED
      BY <3>3 DEF Register!Next
  <2> QED
    BY <1>12, <2>2, <2>3 DEF LateCheck
<1>13. ASSUME NEW l \in late, LateStore(l) PROVE Register!Next
  <2>1. /\ disk' = [disk EXCEPT !["backup"] = l.block] /\ ~ Up("primary") /\ l.pc = "checked"
        /\ UNCHANGED <<repl_state, client, calls, acked, before>>
    BY <1>13, <1>0 DEF LateStore, Store
  <2>2. ~ Serving
    BY <2>1 DEF Serving, RInv, IInv, LateWaits
  <2>3. l.block \in 0..calls /\ \A v \in Block : l.block \notin before[v]
    BY <1>13, LateBlock DEF RInv
  <2>4. (IF Up("primary") THEN disk["primary"] ELSE disk["backup"])' = l.block
    BY <2>1, <1>0 DEF Up, Server
  <2>5. /\ acked \subseteq Block
        /\ \A c \in Client : client[c].block \in Block
    BY <1>0 DEF RInv, IInv, TypeOK, CallType
  <2>6. [c \in Client |-> Image(c)]' = [c \in Client |-> Image(c)]
    BY <2>1 DEF Image, Phase, ServerOf, Up
  <2>7. Register!FallBack
    BY <2>1, <2>3, <2>4, <2>5, <2>6 DEF Register!FallBack, Image
  <2>8. Register!Lose
    BY <2>1, <2>2, <2>6, <2>7 DEF Register!Lose, Serving, Up
  <2> QED
    BY <2>8 DEF Register!Next
<1>14. CASE UNCHANGED vars
  BY <1>14 DEF vars, Register!bsvars, Image, Phase, ServerOf, Serving, Up
<1> QED
  BY <1>1, <1>2, <1>3, <1>4, <1>6, <1>7, <1>8, <1>9, <1>10, <1>11, <1>12, <1>13, <1>14 DEF Next, Call, Server

\* The calls of any number of clients take effect one after the other, each
\* between its beginning and its return; when a server fails, a write that was
\* not acknowledged may be undone, but not what replaced an acknowledged one.
THEOREM AtomicRegister == ASSUME Prompt PROVE Spec => Atomic
<1>1. Init => RInv /\ Register!Init
  <2> SUFFICES ASSUME Init PROVE RInv /\ Register!Init
    OBVIOUS
  <2>1. IInv /\ Stored /\ Answered
    BY InitInv DEF Init, Stored, Answered
  <2>2. Register!Init
    BY ReplicationAssumption DEF Init, Register!Init, Image, Phase, Serving, Up, Server
  <2> QED
    BY <2>1, <2>2 DEF RInv
<1>2. RInv /\ [Next]_vars => RInv'
  BY TypeStep, InvStep, StoredStep, AnsweredStep DEF RInv, IInv
<1>3. RInv /\ [Next]_vars => [Register!Next]_(Register!bsvars)
  BY RegisterStep
<1> QED
  BY <1>1, <1>2, <1>3, PTL DEF Spec, Atomic, Register!Spec
=============================================================================
