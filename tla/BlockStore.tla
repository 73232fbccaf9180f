------------------------------ MODULE BlockStore ------------------------------
(***************************************************************************)
(* What a client may rely on, for one block: a register that many clients  *)
(* read and write, where a call takes effect at one moment between its     *)
(* beginning and its return, however many servers and retries it took.     *)
(*                                                                         *)
(* When the server that serves fails, the register may fall back to an     *)
(* earlier write, but not to one that an acknowledged write has replaced.  *)
(* A call that took effect before is then done again, or it is doubtful:   *)
(* its answer may have got through, and if not it is done again as well.   *)
(***************************************************************************)
CONSTANTS Client, Block, Zeros

VARIABLES
  value,    \* the contents of the block
  failing,  \* nobody serves
  call,     \* per client: its call, with the block it writes or has read
  begun,    \* the blocks that writes have brought
  acked,    \* the blocks whose writes have returned
  before    \* per block: those whose writes had returned when its own began

bsvars == <<value, failing, call, begun, acked, before>>

Init ==
  /\ value = Zeros
  /\ failing = FALSE
  /\ call = [c \in Client |-> [pc |-> "idle", op |-> "Read", block |-> Zeros]]
  /\ begun = {Zeros} /\ acked = {Zeros}
  /\ before = [b \in Block |-> {}]

Invoke(c, op, block) ==
  /\ call[c].pc = "idle"
  /\ call' = [call EXCEPT ![c] = [pc |-> "pending", op |-> op, block |-> block]]
  /\ UNCHANGED <<value, failing, acked>>

InvokeRead(c) == Invoke(c, "Read", Zeros) /\ UNCHANGED <<begun, before>>

\* No two writes bring the same block.
InvokeWrite(c, block) ==
  /\ block \notin begun
  /\ Invoke(c, "Write", block)
  /\ begun' = begun \union {block}
  /\ before' = [before EXCEPT ![block] = acked]

TakeEffect(c) ==
  /\ ~ failing /\ call[c].pc = "pending"
  /\ \/ /\ call[c].op = "Write"
        /\ value' = call[c].block
        /\ call' = [call EXCEPT ![c].pc = "done"]
     \/ /\ call[c].op = "Read"
        /\ call' = [call EXCEPT ![c] = [pc |-> "done", op |-> "Read", block |-> value]]
        /\ UNCHANGED value
  /\ UNCHANGED <<failing, begun, acked, before>>

Return(c) ==
  /\ call[c].pc \in {"done", "doubtful"}
  /\ call' = [call EXCEPT ![c].pc = "idle"]
  /\ acked' = IF call[c].op = "Write" THEN acked \union {call[c].block} ELSE acked
  /\ UNCHANGED <<value, failing, begun, before>>

\* Doubtful writes may have been acknowledged.
FallBack ==
  /\ value' \in begun
  /\ \A v \in acked : value' \notin before[v]
  /\ \A c \in Client : call'[c].pc = "doubtful" /\ call'[c].op = "Write" =>
       value' \notin before[call'[c].block]
  /\ UNCHANGED <<begun, acked, before>>

After(pc) == IF pc = "done" THEN {"pending", "doubtful"} ELSE {pc}
Fail ==
  /\ ~ failing /\ failing' = TRUE
  /\ \E pcs \in [Client -> {"idle", "pending", "done", "doubtful"}] :
       /\ \A c \in Client : pcs[c] \in After(call[c].pc)
       /\ call' = [c \in Client |-> [call[c] EXCEPT !.pc = pcs[c]]]
  /\ FallBack

\* What was on its way when the server failed still arrives.
Lose == failing /\ FallBack /\ UNCHANGED <<failing, call>>

Redo(c) ==
  /\ call[c].pc = "doubtful"
  /\ call' = [call EXCEPT ![c].pc = "pending"]
  /\ UNCHANGED <<value, failing, begun, acked, before>>

Resume == failing /\ failing' = FALSE /\ UNCHANGED <<value, call, begun, acked, before>>

Next ==
  \/ \E c \in Client :
       \/ InvokeRead(c) \/ TakeEffect(c) \/ Return(c) \/ Redo(c)
       \/ \E block \in Block : InvokeWrite(c, block)
  \/ Fail \/ Lose \/ Resume

Spec == Init /\ [][Next]_bsvars
=============================================================================
