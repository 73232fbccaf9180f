---------------------------- MODULE FileStorage ----------------------------
(***************************************************************************)
(* The storage file of one server (src/src/server/FileStorage.cc): blocks  *)
(* of BlockSize bytes at arbitrary byte offsets of one file, reached by    *)
(* the RPC handler threads through write_data and read_data.               *)
(*                                                                         *)
(* The model is at the level of bytes because what the file ends up        *)
(* holding depends on them: std::ofstream opened with binary|out truncates *)
(* the file, and both directions copy the block with strcpy, which stops   *)
(* at the first NUL.  A byte the code leaves uninitialised is Garbage,     *)
(* which stands for any byte: whether a copy stops at one does not matter, *)
(* since what follows it, copied or not, is uninitialised too.             *)
(*                                                                         *)
(* A block without a NUL makes strcpy write past the end of its target     *)
(* (one byte at least: the terminator of the string a write is given, or   *)
(* whatever follows the block that was read).  That is undefined; overrun  *)
(* remembers it.  The process goes on with the block intact, or dies,      *)
(* which Restart does at any point.                                        *)
(*                                                                         *)
(* Bounds: MaxOffset (largest offset a client uses), MaxWrites (writes     *)
(* completed in a behaviour), MaxRestarts.                                 *)
(***************************************************************************)
EXTENDS Integers, Sequences

CONSTANTS Thread,       \* handler threads
          Byte,         \* the non-NUL byte values clients send
          Garbage,      \* the content of an uninitialised byte
          Nobody,       \* "no thread holds mtx"
          BlockSize, FileBytes, MaxOffset, MaxWrites, MaxRestarts

Nul == 0

ASSUME StorageAssumption ==
  /\ {BlockSize, FileBytes} \subseteq Nat \ {0}
  /\ {MaxOffset, MaxWrites, MaxRestarts} \subseteq Nat
  /\ Nul \notin Byte /\ Garbage \notin Byte \union {Nul}
  /\ Nobody \notin Thread

VARIABLES file,      \* the bytes of the storage file
          mtx,       \* the thread holding FileStorage::mtx, or Nobody
          pc,        \* where each handler thread is
          arg,       \* the offset and the buffer of its call
          overrun,   \* history: a copy has run past the end of its target
          writes,    \* history: the writes completed, oldest first
          restarts   \* history: how often the server has been restarted

vars == <<file, mtx, pc, arg, overrun, writes, restarts>>

Payload == [1..BlockSize -> Byte \union {Nul}]
Call    == [offset : 0..MaxOffset, data : [1..BlockSize -> Byte \union {Nul, Garbage}]]
Uninit  == [i \in 1..BlockSize |-> Garbage]
Zeros(n) == [i \in 1..n |-> Nul]

----------------------------------------------------------------------------
(***************************************************************************)
(* The two copies and the file contents.                                   *)
(***************************************************************************)

\* strcpy(dst, src): everything up to and including the first NUL of src, as far
\* as the target has room for it; CopyPast says when there is more.
\* Mutation StrCpy_MissesLast: the copy is one byte short.
StrCpy_MissesLast(dst, src) ==
  [i \in 1..BlockSize |-> IF i < BlockSize /\ \A j \in 1..(i-1) : src[j] # Nul
                          THEN src[i] ELSE dst[i]]
StrCpy(dst, src) ==
  [i \in 1..BlockSize |-> IF \A j \in 1..(i-1) : src[j] # Nul THEN src[i] ELSE dst[i]]

\* Whether the copy of src runs past the end: it does if no byte of src is a
\* NUL, and an uninitialised byte may be one or not.
CopyPast(src) ==
  \/ overrun' = overrun /\ \E i \in 1..BlockSize : src[i] \in {Nul, Garbage}
  \/ overrun' = TRUE /\ \A i \in 1..BlockSize : src[i] # Nul

\* FileStorage::init: the file is truncated and filled with zeros.
InitFile == Zeros(FileBytes)

\* The file once write_data has closed it: the open truncated it, the seek
\* left a hole of zeros, and one block follows.
Written(offset, in) == Zeros(offset) \o StrCpy(Uninit, in)

\* What read_data finds in its block: the bytes past the end of the file stay
\* uninitialised.
BytesAt(bytes, offset) ==
  [i \in 1..BlockSize |-> IF offset + i <= Len(bytes) THEN bytes[offset + i] ELSE Garbage]

\* read_data's result.
ReadData(bytes, offset) == StrCpy(Uninit, BytesAt(bytes, offset))

----------------------------------------------------------------------------
(***************************************************************************)
(* The calls.  Each holds mtx from its first to its last step.             *)
(***************************************************************************)

Init ==
  /\ file = InitFile
  /\ mtx = Nobody
  /\ pc = [t \in Thread |-> "idle"]
  /\ arg = [t \in Thread |-> [offset |-> 0, data |-> Uninit]]
  /\ overrun = FALSE
  /\ writes = <<>>
  /\ restarts = 0

\* mtx.lock().
\* Mutation Lock_Missing: the call proceeds without the mutex.
Lock_Missing(t) == mtx' = mtx
Lock(t) == mtx = Nobody /\ mtx' = t

\* write_data up to the opening of the stream, which empties the file.
OpenForWrite(t) ==
  /\ pc[t] = "idle"
  /\ Len(writes) < MaxWrites
  /\ Lock(t)
  /\ \E o \in 0..MaxOffset, d \in Payload :
       arg' = [arg EXCEPT ![t] = [offset |-> o, data |-> d]]
  /\ file' = <<>>
  /\ pc' = [pc EXCEPT ![t] = "writing"]
  /\ UNCHANGED <<overrun, writes, restarts>>

\* The rest of write_data: copy, seek, write, close, unlock.
FinishWrite(t) ==
  /\ pc[t] = "writing"
  /\ file' = Written(arg[t].offset, arg[t].data)
  /\ CopyPast(arg[t].data)
  /\ writes' = Append(writes, [call |-> arg[t], run |-> restarts])
  /\ pc' = [pc EXCEPT ![t] = "idle"]
  /\ mtx' = Nobody
  /\ UNCHANGED <<arg, restarts>>

\* read_data up to the opening of the stream.
OpenForRead(t) ==
  /\ pc[t] = "idle"
  /\ Lock(t)
  /\ \E o \in 0..MaxOffset : arg' = [arg EXCEPT ![t] = [offset |-> o, data |-> Uninit]]
  /\ pc' = [pc EXCEPT ![t] = "reading"]
  /\ UNCHANGED <<file, overrun, writes, restarts>>

\* The rest of read_data: seek, read, copy out, close, unlock.
FinishRead(t) ==
  /\ pc[t] = "reading"
  /\ arg' = [arg EXCEPT ![t].data = ReadData(file, arg[t].offset)]
  /\ CopyPast(BytesAt(file, arg[t].offset))
  /\ pc' = [pc EXCEPT ![t] = "idle"]
  /\ mtx' = Nobody
  /\ UNCHANGED <<file, writes, restarts>>

\* The process dies at any point and main constructs and inits the storage
\* again: the mutex and the threads are new, the file is filled with zeros.
Restart ==
  /\ restarts < MaxRestarts
  /\ restarts' = restarts + 1
  /\ file' = InitFile
  /\ mtx' = Nobody
  /\ pc' = [t \in Thread |-> "idle"]
  /\ arg' = [t \in Thread |-> [offset |-> 0, data |-> Uninit]]
  /\ UNCHANGED <<overrun, writes>>

Next ==
  \/ Restart
  \/ \E t \in Thread : OpenForWrite(t) \/ FinishWrite(t) \/ OpenForRead(t) \/ FinishRead(t)

Spec == Init /\ [][Next]_vars

----------------------------------------------------------------------------
(***************************************************************************)
(* Properties.                                                             *)
(***************************************************************************)

\* The shape of the state; in particular mtx is held by a thread exactly while
\* it is inside write_data or read_data (FileStorage.cc lines 53-83), so at most
\* one is.
HeldInCalls == \A t \in Thread : mtx = t <=> pc[t] # "idle"
TypeOK ==
  /\ file \in Seq(Byte \union {Nul, Garbage})
  /\ mtx \in Thread \union {Nobody} /\ HeldInCalls
  /\ pc \in [Thread -> {"idle", "writing", "reading"}]
  /\ arg \in [Thread -> Call]
  /\ overrun \in BOOLEAN
  /\ writes \in Seq([call : Call, run : 0..MaxRestarts])
  /\ restarts \in 0..MaxRestarts

IsText(d) == \A i \in 1..BlockSize : d[i] # Nul
Readable(w) == ReadData(file, w.call.offset) = w.call.data
Overlap(v, w) == v.call.offset - w.call.offset \in (1 - BlockSize)..(BlockSize - 1)
LastWrite == writes[Len(writes)]
NoWriter == \A t \in Thread : pc[t] # "writing"

\* d up to and including its first NUL is the same in e.
SameText(d, e) == \A i \in 1..BlockSize : (\A j \in 1..(i-1) : d[j] # Nul) => e[i] = d[i]

\* A read never observes a write half done: whenever a thread completes
\* read_data at the offset last written in this run of the process, it gets that
\* block up to and including its first NUL (all of it, if there is none; what
\* follows a NUL is lost), although the writing thread empties the file before
\* it fills it.  This is what mtx is for.
ReadReturnsLastWrite ==
  [][\A t \in Thread :
       /\ pc[t] = "reading" /\ pc'[t] = "idle" /\ restarts' = restarts
       /\ writes # <<>> /\ LastWrite.run = restarts
       /\ arg[t].offset = LastWrite.call.offset
       => SameText(LastWrite.call.data, arg'[t].data)]_vars

\* Not so: a Block, and the caller's buffer, have room for what strcpy copies
\* into them (FileStorage.cc lines 58 and 80).  Every block of 4096 bytes other
\* than NUL breaks it.
CopiesFit == ~ overrun

\* Not so: "All blocks are stored within this large file at some specific offsets"
\* (FileStorage.cc:19): every block written in this run, not overlapped since,
\* can be read back.  The code truncates the file at each write, so it cannot.
EveryBlockKept ==
  NoWriter =>
    \A i \in 1..Len(writes) :
      /\ writes[i].run = restarts /\ IsText(writes[i].call.data)
      /\ \A j \in (i+1)..Len(writes) : ~ Overlap(writes[i], writes[j])
      => Readable(writes[i])
=============================================================================
