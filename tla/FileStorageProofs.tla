--------------------------- MODULE FileStorageProofs ---------------------------
(***************************************************************************)
(* Proofs about FileStorage for any number of threads, any block size and  *)
(* any bounds: its type invariant and ReadReturnsLastWrite.                *)
(*                                                                         *)
(* Between its first and its last step a call holds mtx (HeldInCalls, a    *)
(* part of the type invariant); so whoever reads finds the file as the     *)
(* last write left it (LastIsThere), and what the last write left is, read *)
(* back, what it was given up to its first NUL (ReadBack).                 *)
(***************************************************************************)
EXTENDS FileStorage, SequenceTheorems, TLAPS

Content == Byte \union {Nul, Garbage}
BlockOf(S) == [1..BlockSize -> S]
WriteRecord == [call : Call, run : 0..MaxRestarts]

\* No write is of a run to come.
RunsPast == \A n \in 1..Len(writes) : writes[n].run <= restarts

\* What the last write of this run has left in the file.
LastIsThere ==
  writes # <<>> /\ LastWrite.run = restarts /\ NoWriter
    => file = Written(LastWrite.call.offset, LastWrite.call.data)

IInv == TypeOK /\ RunsPast /\ LastIsThere

----------------------------------------------------------------------------
(***************************************************************************)
(* The copies and the file contents.                                       *)
(***************************************************************************)

LEMMA Sizes ==
  /\ BlockSize \in Nat /\ FileBytes \in Nat /\ MaxOffset \in Nat
  /\ MaxWrites \in Nat /\ MaxRestarts \in Nat /\ Nobody \notin Thread
BY StorageAssumption

LEMMA ZerosType ==
  ASSUME NEW n \in Nat
  PROVE  Zeros(n) \in Seq(Content) /\ Len(Zeros(n)) = n
BY DEF Zeros, Content

LEMMA UninitType == Uninit \in BlockOf(Content)
BY DEF Uninit, BlockOf, Content

LEMMA StrCpyType ==
  ASSUME NEW dst \in BlockOf(Content), NEW src \in BlockOf(Content)
  PROVE  StrCpy(dst, src) \in BlockOf(Content)
BY DEF StrCpy, BlockOf

LEMMA BlockIsSeq ==
  ASSUME NEW d \in BlockOf(Content)
  PROVE  d \in Seq(Content) /\ Len(d) = BlockSize
BY Sizes DEF BlockOf

LEMMA WrittenType ==
  ASSUME NEW o \in Nat, NEW d \in BlockOf(Content)
  PROVE  /\ Written(o, d) \in Seq(Content)
         /\ Len(Written(o, d)) = o + BlockSize
         /\ \A i \in 1..BlockSize : Written(o, d)[o + i] = StrCpy(Uninit, d)[i]
<1>1. Zeros(o) \in Seq(Content) /\ Len(Zeros(o)) = o
  BY ZerosType
<1>2. StrCpy(Uninit, d) \in Seq(Content) /\ Len(StrCpy(Uninit, d)) = BlockSize
  BY UninitType, StrCpyType, BlockIsSeq
<1> DEFINE z == Zeros(o)  c == StrCpy(Uninit, d)
<1>3. /\ z \o c \in Seq(Content) /\ Len(z \o c) = Len(z) + Len(c)
      /\ \A i \in 1..Len(z) + Len(c) : (z \o c)[i] = IF i <= Len(z) THEN z[i] ELSE c[i - Len(z)]
  BY <1>1, <1>2, ConcatProperties
<1>4. Written(o, d) = z \o c
  BY DEF Written
<1> HIDE DEF z, c
<1>5. ASSUME NEW i \in 1..BlockSize PROVE (z \o c)[o + i] = c[i]
  BY <1>1, <1>2, <1>3, Sizes DEF z, c
<1> QED
  BY <1>1, <1>2, <1>3, <1>4, <1>5 DEF z, c

LEMMA BytesAtType ==
  ASSUME NEW bytes \in Seq(Content), NEW o \in Nat
  PROVE  BytesAt(bytes, o) \in BlockOf(Content)
<1>1. ASSUME NEW i \in 1..BlockSize, o + i <= Len(bytes) PROVE bytes[o + i] \in Content
  <2>1. o + i \in 1..Len(bytes)
    BY <1>1, Sizes
  <2> QED
    BY <2>1
<1> QED
  BY <1>1 DEF BytesAt, BlockOf, Content

LEMMA ReadDataType ==
  ASSUME NEW bytes \in Seq(Content), NEW o \in Nat
  PROVE  ReadData(bytes, o) \in BlockOf(Content)
BY BytesAtType, UninitType, StrCpyType DEF ReadData

\* A block is read back as it was written, as far as strcpy copied it.
LEMMA ReadBack ==
  ASSUME NEW o \in Nat, NEW d \in BlockOf(Content)
  PROVE  SameText(d, ReadData(Written(o, d), o))
<1> DEFINE c == StrCpy(Uninit, d)
<1>1. BytesAt(Written(o, d), o) = c
  <2>1. \A i \in 1..BlockSize : o + i <= Len(Written(o, d)) /\ Written(o, d)[o + i] = c[i]
    BY WrittenType, Sizes
  <2>2. BytesAt(Written(o, d), o) = [i \in 1..BlockSize |-> c[i]]
    BY <2>1 DEF BytesAt
  <2> QED
    BY <2>2 DEF StrCpy
<1>2. ASSUME NEW i \in 1..BlockSize, \A j \in 1..(i-1) : d[j] # Nul
      PROVE  StrCpy(Uninit, c)[i] = d[i]
  \* up to i both copies are faithful
  <2>1. ASSUME NEW j \in 1..i PROVE j \in 1..BlockSize /\ c[j] = d[j]
    <3>1. j \in 1..BlockSize /\ \A k \in 1..(j-1) : k \in 1..(i-1)
      BY Sizes
    <3> QED
      BY <1>2, <3>1 DEF StrCpy
  <2>2. \A j \in 1..(i-1) : j \in 1..i
    BY Sizes
  <2>3. c[i] = d[i] /\ \A j \in 1..(i-1) : c[j] # Nul
    <3>1. i \in 1..i
      BY Sizes
    <3> QED
      BY <1>2, <2>1, <2>2, <3>1
  <2> HIDE DEF c
  <2> QED
    BY <2>3 DEF StrCpy
<1> QED
  BY <1>1, <1>2 DEF ReadData, SameText

----------------------------------------------------------------------------
(***************************************************************************)
(* The invariant.                                                          *)
(***************************************************************************)

LEMMA Types ==
  ASSUME TypeOK
  PROVE  /\ file \in Seq(Content) /\ mtx \in Thread \union {Nobody}
         /\ pc \in [Thread -> {"idle", "writing", "reading"}]
         /\ arg \in [Thread -> Call] /\ writes \in Seq(WriteRecord)
         /\ restarts \in 0..MaxRestarts /\ overrun \in BOOLEAN /\ HeldInCalls
BY DEF TypeOK, Content, WriteRecord

LEMMA CallIs == Call = [offset : 0..MaxOffset, data : BlockOf(Content)]
BY DEF Call, BlockOf, Content

LEMMA Initially == Init => IInv
<1> SUFFICES ASSUME Init PROVE IInv
  OBVIOUS
<1>1. file \in Seq(Content) /\ [offset |-> 0, data |-> Uninit] \in Call
  BY Sizes, ZerosType, UninitType, CallIs DEF Init, InitFile
<1>2. TypeOK
  <2>1. HeldInCalls
    BY Sizes DEF Init, HeldInCalls
  <2>2. restarts \in 0..MaxRestarts
    BY Sizes, SMT DEF Init
  <2>3. mtx \in Thread \union {Nobody} /\ overrun \in BOOLEAN
    BY Zenon DEF Init
  <2>4. pc \in [Thread -> {"idle", "writing", "reading"}] /\ arg \in [Thread -> Call]
    BY <1>1 DEF Init
  <2>5. writes \in Seq(WriteRecord)
    BY DEF Init
  <2> QED
    BY <1>1, <2>1, <2>2, <2>4, <2>5, <2>3 DEF TypeOK, Content, WriteRecord, Init
<1>3. RunsPast /\ LastIsThere
  BY DEF Init, RunsPast, LastIsThere
<1> QED
  BY <1>2, <1>3 DEF IInv

LEMMA OpenStep ==
  ASSUME IInv, NEW t \in Thread, OpenForWrite(t) \/ OpenForRead(t)
  PROVE  IInv'
<1>1. /\ file \in Seq(Content) /\ pc \in [Thread -> {"idle", "writing", "reading"}]
      /\ arg \in [Thread -> Call] /\ mtx = Nobody /\ mtx' = t /\ pc[t] = "idle"
      /\ UNCHANGED <<overrun, writes, restarts>> /\ overrun \in BOOLEAN /\ HeldInCalls
  BY Types DEF IInv, OpenForWrite, OpenForRead, Lock
<1>2. PICK o \in 0..MaxOffset, d \in BlockOf(Content) :
        arg' = [arg EXCEPT ![t] = [offset |-> o, data |-> d]]
  <2>1. Payload \subseteq BlockOf(Content)
    BY DEF Payload, BlockOf, Content
  <2> QED
    BY <2>1, UninitType DEF OpenForWrite, OpenForRead
<1>3. \/ pc' = [pc EXCEPT ![t] = "writing"] /\ file' = <<>>
      \/ pc' = [pc EXCEPT ![t] = "reading"] /\ file' = file
  BY DEF OpenForWrite, OpenForRead
<1>5. HeldInCalls'
  BY <1>1, <1>3, Sizes DEF HeldInCalls
<1>4. TypeOK'
  <2>1. arg' \in [Thread -> Call]
    BY <1>1, <1>2, CallIs
  <2>2. file' \in Seq(Content)
    <3>1. <<>> \in Seq(Content)
      OBVIOUS
    <3> QED
      BY <1>1, <1>3, <3>1
  <2>3. pc' \in [Thread -> {"idle", "writing", "reading"}]
    BY <1>1, <1>3
  <2> QED
    BY <1>1, <1>5, <2>1, <2>2, <2>3 DEF IInv, TypeOK, Content
<1>6. RunsPast'
  BY <1>1 DEF IInv, RunsPast
<1>7. LastIsThere'
  <2>1. CASE pc' = [pc EXCEPT ![t] = "writing"]
    BY <1>1, <2>1 DEF LastIsThere, NoWriter
  <2>2. CASE pc' = [pc EXCEPT ![t] = "reading"] /\ file' = file
    <3>1. NoWriter
      BY <1>1, Sizes DEF HeldInCalls, NoWriter
    <3> QED
      BY <1>1, <2>2, <3>1 DEF IInv, LastIsThere, LastWrite
  <2> QED
    BY <1>3, <2>1, <2>2
<1> QED
  BY <1>4, <1>6, <1>7 DEF IInv

LEMMA FinishStep ==
  ASSUME IInv, NEW t \in Thread, FinishWrite(t) \/ FinishRead(t)
  PROVE  IInv'
<1>1. /\ file \in Seq(Content) /\ pc \in [Thread -> {"idle", "writing", "reading"}]
      /\ arg \in [Thread -> Call] /\ writes \in Seq(WriteRecord) /\ restarts \in 0..MaxRestarts
      /\ pc[t] # "idle" /\ pc' = [pc EXCEPT ![t] = "idle"] /\ mtx' = Nobody /\ restarts' = restarts
  BY Types DEF IInv, FinishWrite, FinishRead
<1> overrun' \in BOOLEAN
  BY Types DEF IInv, FinishWrite, FinishRead, CopyPast
<1>2. arg[t].offset \in Nat /\ arg[t].data \in BlockOf(Content)
  BY <1>1, CallIs, Sizes
<1>3. \A u \in Thread : u # t => pc[u] = "idle"
  BY <1>1, Types, Sizes DEF IInv, HeldInCalls
<1>4. HeldInCalls'
  BY <1>1, <1>3, Sizes DEF HeldInCalls
<1>5. CASE FinishWrite(t)
  <2>1. /\ file' = Written(arg[t].offset, arg[t].data) /\ arg' = arg
        /\ writes' = Append(writes, [call |-> arg[t], run |-> restarts])
    BY <1>5 DEF FinishWrite
  <2>2. [call |-> arg[t], run |-> restarts] \in WriteRecord
    BY <1>1 DEF WriteRecord
  <2>3. /\ writes' \in Seq(WriteRecord) /\ Len(writes') = Len(writes) + 1
        /\ writes'[Len(writes')] = [call |-> arg[t], run |-> restarts]
        /\ \A n \in 1..Len(writes) : writes'[n] = writes[n]
    BY <1>1, <2>1, <2>2, AppendProperties
  <2>4. TypeOK'
    BY <1>1, <1>2, <1>4, <2>1, <2>3, WrittenType DEF TypeOK, Content, WriteRecord
  <2>5. RunsPast'
    <3> restarts' = restarts /\ restarts \in Nat /\ Len(writes) \in Nat
      BY <1>1, <2>3 DEF TypeOK
    <3> SUFFICES ASSUME NEW n \in 1..Len(writes')
                 PROVE  writes'[n].run <= restarts
      BY DEF RunsPast
    <3>1. CASE n = Len(writes')
      BY <2>3, <3>1
    <3>2. CASE n # Len(writes')
      <4>1. n \in 1..Len(writes)
        BY <2>3, <3>2
      <4>2. writes[n].run <= restarts
        BY <4>1 DEF IInv, RunsPast
      <4> QED
        BY <2>3, <4>1, <4>2
    <3> QED
      BY <3>1, <3>2
  <2>6. LastIsThere'
    BY <2>1, <2>3 DEF LastIsThere, LastWrite
  <2> QED
    BY <2>4, <2>5, <2>6 DEF IInv
<1>6. CASE FinishRead(t)
  <2>1. /\ arg' = [arg EXCEPT ![t].data = ReadData(file, arg[t].offset)]
        /\ UNCHANGED <<file, writes>> /\ pc[t] = "reading"
    BY <1>6 DEF FinishRead
  <2>2. arg' \in [Thread -> Call]
    <3>1. ReadData(file, arg[t].offset) \in BlockOf(Content)
      BY <1>1, <1>2, ReadDataType
    <3> QED
      BY <1>1, <2>1, <3>1, CallIs
  <2>3. TypeOK'
    BY <1>1, <1>4, <2>1, <2>2 DEF TypeOK, Content, WriteRecord
  <2>4. RunsPast'
    BY <1>1, <2>1 DEF IInv, RunsPast
  <2>5. NoWriter
    BY <1>3, <2>1 DEF NoWriter
  <2>6. LastIsThere'
    BY <1>1, <2>1, <2>5 DEF IInv, LastIsThere, LastWrite
  <2> QED
    BY <2>3, <2>4, <2>6 DEF IInv
<1> QED
  BY <1>5, <1>6

LEMMA RestartStep ==
  ASSUME IInv, Restart
  PROVE  IInv'
<1>1. /\ writes \in Seq(WriteRecord) /\ restarts \in 0..MaxRestarts /\ restarts < MaxRestarts
      /\ restarts' = restarts + 1 /\ writes' = writes
      /\ file' = InitFile /\ mtx' = Nobody /\ pc' = [t \in Thread |-> "idle"]
      /\ arg' = [t \in Thread |-> [offset |-> 0, data |-> Uninit]]
  BY Types DEF IInv, Restart
<1>2. file' \in Seq(Content) /\ [offset |-> 0, data |-> Uninit] \in Call
  BY <1>1, Sizes, ZerosType, UninitType, CallIs DEF InitFile
<1>3. restarts' \in 0..MaxRestarts
  BY <1>1, Sizes
<1>4. HeldInCalls' /\ overrun' \in BOOLEAN
  BY <1>1, Types, Sizes DEF IInv, Restart, HeldInCalls
<1>5. TypeOK'
  BY <1>1, <1>2, <1>3, <1>4 DEF TypeOK, Content, WriteRecord
<1>6. \A n \in 1..Len(writes) : writes[n].run <= restarts /\ writes[n].run \in Int
  <2>1. \A n \in 1..Len(writes) : writes[n] \in WriteRecord
    BY <1>1
  <2> QED
    BY <2>1, Sizes DEF IInv, RunsPast, WriteRecord
<1>7. RunsPast'
  BY <1>1, <1>6 DEF RunsPast
<1>8. LastIsThere'
  <2>1. writes # <<>> => Len(writes) \in 1..Len(writes)
    BY <1>1
  <2>2. writes # <<>> => LastWrite.run # restarts'
    BY <1>1, <1>6, <2>1 DEF LastWrite
  <2> QED
    BY <1>1, <2>2 DEF LastIsThere, LastWrite
<1> QED
  BY <1>5, <1>7, <1>8 DEF IInv

LEMMA InvariantStep == IInv /\ [Next]_vars => IInv'
<1> SUFFICES ASSUME IInv, [Next]_vars PROVE IInv'
  OBVIOUS
<1>1. CASE UNCHANGED vars
  BY <1>1 DEF IInv, TypeOK, HeldInCalls, RunsPast, LastIsThere, LastWrite, NoWriter, vars
<1> QED
  BY <1>1, OpenStep, FinishStep, RestartStep DEF Next

\* The invariant that the theorems rest on.
THEOREM Invariance == Spec => []IInv
BY Initially, InvariantStep, PTL DEF Spec

\* Every variable keeps its type, and mtx is held exactly by the thread that is
\* inside write_data or read_data: no two calls are at work on the file at once
\* (FileStorage.cc lines 53-83).
THEOREM TypeCorrect == Spec => []TypeOK
<1>1. IInv => TypeOK
  BY DEF IInv
<1> QED
  BY <1>1, Invariance, PTL

\* A read never observes a write half done: at the offset last written in this
\* run it returns the block written, up to and including its first NUL
\* (FileStorage.cc lines 53-83, where mtx is held).
THEOREM ReadsAreWhole == Spec => ReadReturnsLastWrite
<1> DEFINE A == \A t \in Thread :
       /\ pc[t] = "reading" /\ pc'[t] = "idle" /\ restarts' = restarts
       /\ writes # <<>> /\ LastWrite.run = restarts
       /\ arg[t].offset = LastWrite.call.offset
       => SameText(LastWrite.call.data, arg'[t].data)
<1>1. IInv /\ [Next]_vars => [A]_vars
  <2> SUFFICES ASSUME IInv, Next, NEW t \in Thread,
                      pc[t] = "reading", pc'[t] = "idle", restarts' = restarts,
                      writes # <<>>, LastWrite.run = restarts,
                      arg[t].offset = LastWrite.call.offset
               PROVE  SameText(LastWrite.call.data, arg'[t].data)
    OBVIOUS
  <2>1. /\ TypeOK /\ pc \in [Thread -> {"idle", "writing", "reading"}] /\ arg \in [Thread -> Call]
        /\ writes \in Seq(WriteRecord) /\ restarts \in Nat
    BY Types, Sizes DEF IInv
  <2>2. FinishRead(t)
    <3>1. ~ Restart
      BY <2>1 DEF Restart
    <3>2. PICK u \in Thread : OpenForWrite(u) \/ FinishWrite(u) \/ OpenForRead(u) \/ FinishRead(u)
      BY <3>1 DEF Next
    <3>3. u = t
      BY <2>1, <3>2 DEF OpenForWrite, FinishWrite, OpenForRead, FinishRead
    <3> QED
      BY <2>1, <3>2, <3>3 DEF OpenForWrite, FinishWrite, OpenForRead
  <2>3. NoWriter
    BY <2>1, Types, Sizes DEF HeldInCalls, NoWriter
  <2>4. file = Written(LastWrite.call.offset, LastWrite.call.data)
    BY <2>3 DEF IInv, LastIsThere
  <2>5. LastWrite.call.offset \in Nat /\ LastWrite.call.data \in BlockOf(Content)
    <3>1. Len(writes) \in 1..Len(writes)
      BY <2>1
    <3>2. LastWrite \in WriteRecord
      BY <2>1, <3>1 DEF LastWrite
    <3>3. LastWrite.call \in Call
      BY <3>2 DEF WriteRecord
    <3> QED
      BY <3>3, CallIs, Sizes
  <2>6. arg'[t].data = ReadData(file, arg[t].offset)
    BY <2>1, <2>2 DEF FinishRead, Call
  <2> QED
    BY <2>4, <2>5, <2>6, ReadBack
<1>2. IInv /\ [Next]_vars => [A]_vars
  BY <1>1
<1> QED
  BY <1>2, Invariance, PTL DEF Spec, ReadReturnsLastWrite
=============================================================================
