------------------------ MODULE ChunkAssemblerProofs ------------------------
(***************************************************************************)
(* What holds of the chunk assembler for every number of threads, sessions *)
(* and chunks.                                                             *)
(***************************************************************************)
EXTENDS ChunkAssembler, FiniteSetTheorems, TLAPS

\* The positions of a session's chunks.
Range0(total) == {i \in Slots : i < total}

\* A call in progress has the arguments its next step reads.
CallShape ==
  \A t \in Threads :
    /\ call[t].op # "idle"   => call[t].id \in Ids /\ call[t].ctx \in Ctxs
    /\ call[t].op = "process" => call[t].chunk \in Chunks

\* The counter counts the bitmap, which holds no index out of range.
Counted ==
  \A p \in Ctxs : /\ heap[p].received \subseteq Range0(heap[p].total)
                  /\ heap[p].count = Cardinality(heap[p].received)

\* The three together are inductive.
TInv == TypeOK /\ CallShape /\ Counted

-----------------------------------------------------------------------------
\* A session of n chunks has n positions.
LEMMA RangeCardinality ==
  ASSUME NEW n \in Slots
  PROVE  IsFiniteSet(Range0(n)) /\ Cardinality(Range0(n)) = n
<1>1. Slots \subseteq Nat /\ n \in Nat /\ n - 1 \in Int
  BY ConstantsAssumption DEF Slots
<1>2. Range0(n) = 0..(n - 1)
  BY <1>1, ConstantsAssumption DEF Range0, Slots
<1>3. QED
  BY <1>1, <1>2, FS_Interval

\* Cardinality of a bitmap: at most the total, and equal only when nothing is missing.
LEMMA BitmapCardinality ==
  ASSUME NEW n \in Slots, NEW R \in SUBSET Range0(n)
  PROVE  /\ IsFiniteSet(R)
         /\ Cardinality(R) \in Nat
         /\ Cardinality(R) <= n
         /\ Cardinality(R) = n <=> Range0(n) \ R = {}
<1>1. IsFiniteSet(R) /\ Cardinality(R) <= n /\ (Cardinality(R) = n => R = Range0(n))
  BY RangeCardinality, FS_Subset
<1>2. Cardinality(R) \in Nat
  BY <1>1, FS_CardinalityType
<1>3. Range0(n) \ R = {} => R = Range0(n)
  OBVIOUS
<1>4. QED
  BY <1>1, <1>2, <1>3, RangeCardinality

\* Recording an index that was missing keeps the counter in step and in range.
LEMMA CountStep ==
  ASSUME NEW n \in Slots, NEW R \in SUBSET Range0(n), NEW i \in Range0(n), i \notin R
  PROVE  /\ R \cup {i} \in SUBSET Range0(n)
         /\ Cardinality(R \cup {i}) = Cardinality(R) + 1
         /\ Cardinality(R) + 1 \in Slots
<1>1. R \cup {i} \in SUBSET Range0(n)
  OBVIOUS
<1>2. Cardinality(R \cup {i}) = Cardinality(R) + 1
  BY BitmapCardinality, FS_AddElement
<1>3. Cardinality(R) + 1 <= n /\ Cardinality(R) \in Nat
  BY <1>1, <1>2, BitmapCardinality
<1>4. QED
  BY <1>1, <1>2, <1>3, ConstantsAssumption DEF Slots

\* What the file operations build is the content of a file.
LEMMA ContentClosed ==
  /\ NoData \in Content
  /\ \A n \in Slots : Preallocated(n) \in Content
  /\ \A d \in Content, s \in Slots, x \in Piece \cup {Zero, Absent, Garbage} : WriteAt(d, s, x) \in Content
  /\ \A d \in Content, L \in SUBSET Slots : [s \in Slots |-> IF s \in L THEN Zero ELSE d[s]] \in Content
BY DEF NoData, Preallocated, WriteAt, Content

\* The values that stand for nothing have their types.
LEMMA FreeTypes ==
  /\ FreeCtx \in CtxType
  /\ FreeCtx.received = {} /\ FreeCtx.count = 0 /\ FreeCtx.total = 0 /\ ~FreeCtx.live
  /\ NoTemp \in TempType
  /\ NoFinal \in FinalType
  /\ IdleCall \in CallType /\ IdleCall.op = "idle"
BY ContentClosed, ConstantsAssumption DEF FreeCtx, CtxType, NoTemp, TempType, NoFinal, FinalType,
   IdleCall, CallType, Slots, Hashes

-----------------------------------------------------------------------------
\* A new assembler has no session, no call and no file.
LEMMA TInvInit == Init => TInv
<1> SUFFICES ASSUME Init PROVE TInv
  OBVIOUS
<1>1. TypeOK
  BY FreeTypes DEF Init, TypeOK
<1>2. CallShape
  BY FreeTypes DEF Init, CallShape
<1>3. Counted
  BY FreeTypes, FS_EmptySet DEF Init, Counted
<1>4. QED
  BY <1>1, <1>2, <1>3 DEF TInv

\* Every step keeps the types, the locals of the calls and the counters right.
LEMMA TInvStep == TInv /\ [Next]_vars => TInv'
<1> SUFFICES ASSUME TInv, [Next]_vars PROVE TInv'
  OBVIOUS
<1> USE FreeTypes, ContentClosed
<1>1. ASSUME NEW t \in Threads, NEW id \in Ids, NEW name \in Names, NEW total \in Slots,
             StartSession(t, id, name, total)
      PROVE  TInv'
  <2>1. PICK p \in Ctxs, file \in {"open", "bad"} :
          /\ contexts' = [contexts EXCEPT ![id] = p]
          /\ heap' = [heap EXCEPT ![p] = [live |-> TRUE, name |-> name, total |-> total,
                                          received |-> {}, count |-> 0, file |-> file,
                                          spoiled |-> FALSE]]
          /\ temp' = [temp EXCEPT ![p] = [exists |-> TRUE, data |-> Preallocated(total)]]
    BY <1>1 DEF StartSession
  <2>2. UNCHANGED <<final, lock, call>>
    BY <1>1 DEF StartSession
  <2>3. TypeOK'
    BY <2>1, <2>2, ConstantsAssumption DEF TInv, TypeOK, CtxType, TempType, Slots
  <2>4. Counted'
    BY <2>1, <2>2, FS_EmptySet DEF TInv, TypeOK, Counted
  <2>5. CallShape'
    BY <2>2 DEF TInv, CallShape
  <2>6. QED
    BY <2>3, <2>4, <2>5 DEF TInv
<1>2. ASSUME NEW t \in Threads, NEW c \in Chunks, LookupContext(t, c) PROVE TInv'
  <2>1. c.id \in Ids /\ contexts[c.id] \in Ctxs
    BY <1>2, ConstantsAssumption DEF LookupContext, HasSession, TInv, TypeOK
  <2>2. QED
    BY <1>2, <2>1 DEF LookupContext, TInv, TypeOK, CallShape, Counted, CallType, Hashes
<1>3. ASSUME NEW t \in Threads, ProcessChunk(t) PROVE TInv'
  <2> DEFINE c == call[t].chunk
             p == call[t].ctx
  <2>1. /\ c \in [id : Ids, index : Slots, slot : Slots, intact : BOOLEAN]
        /\ p \in Ctxs
        /\ heap[p] \in CtxType
        /\ temp[p] \in TempType
    BY <1>3, ConstantsAssumption DEF ProcessChunk, TInv, CallShape, TypeOK
  <2>2. CallShape'
    BY <1>3 DEF ProcessChunk, Return, TInv, TypeOK, CallShape
  <2>3. CASE Refused(heap[p], c) /\ UNCHANGED <<heap, temp>>
    BY <1>3, <2>2, <2>3 DEF ProcessChunk, Return, TInv, TypeOK, Counted
  <2>4. CASE ~Refused(heap[p], c) /\ Store(p, c)
    <3>1. /\ c.index \in Range0(heap[p].total)
          /\ c.index \notin heap[p].received
          /\ heap[p].received \in SUBSET Range0(heap[p].total)
          /\ heap[p].count = Cardinality(heap[p].received)
          /\ heap[p].total \in Slots
      BY <2>1, <2>4, ConstantsAssumption DEF Refused, Range0, Slots, TInv, Counted, CtxType
    <3>2. /\ heap[p].received \cup {c.index} \in SUBSET Range0(heap[p].total)
          /\ heap[p].count + 1 = Cardinality(heap[p].received \cup {c.index})
          /\ heap[p].count + 1 \in Slots
      <4> DEFINE n == heap[p].total
                 R == heap[p].received
                 i == c.index
      <4>1. n \in Slots /\ R \in SUBSET Range0(n) /\ i \in Range0(n) /\ i \notin R
        BY <3>1
      <4> HIDE DEF n, R, i
      <4>2. /\ R \cup {i} \in SUBSET Range0(n)
            /\ Cardinality(R \cup {i}) = Cardinality(R) + 1
            /\ Cardinality(R) + 1 \in Slots
        BY <4>1, CountStep
      <4>3. QED
        BY <3>1, <4>2 DEF n, R, i
    <3>3. heap' = [heap EXCEPT ![p].received = @ \cup {c.index}, ![p].count = @ + 1,
                              ![p].spoiled = @ \/ Misplaced(p, c)]
      BY <2>4 DEF Store
    <3> DEFINE spoiled == heap[p].spoiled \/ Misplaced(p, c)
    <3>9. spoiled \in BOOLEAN
      BY <2>1 DEF CtxType, Misplaced
    <3>10. heap' = [heap EXCEPT ![p].received = @ \cup {c.index}, ![p].count = @ + 1,
                                ![p].spoiled = spoiled]
      BY <3>3
    <3> HIDE DEF spoiled
    <3>4. heap' \in [Ctxs -> CtxType]
      BY <2>1, <3>2, <3>9, <3>10 DEF TInv, TypeOK, CtxType, Range0
    <3>5. Counted'
      BY <2>1, <3>2, <3>10 DEF TInv, TypeOK, Counted, CtxType
    <3>6. Bytes(c) \in Piece \cup {Zero, Absent, Garbage}
      BY <2>1 DEF Bytes, Piece
    <3>7. temp' \in [Ctxs -> TempType]
      BY <2>1, <2>4, <3>6 DEF Store, TInv, TypeOK, TempType
    <3>8. QED
      BY <1>3, <2>2, <3>4, <3>5, <3>7 DEF ProcessChunk, Return, TInv, TypeOK
  <2>5. CASE ~Refused(heap[p], c) /\ FailedWrite(p, c)
    <3> DEFINE spoiled == heap[p].spoiled \/ Misplaced(p, c)
    <3>7. spoiled \in BOOLEAN
      BY <2>1 DEF CtxType, Misplaced
    <3>1. heap' = [heap EXCEPT ![p].file = "bad", ![p].spoiled = spoiled]
      BY <2>5 DEF FailedWrite
    <3> HIDE DEF spoiled
    <3>2. heap' \in [Ctxs -> CtxType] /\ Counted'
      BY <2>1, <3>1, <3>7 DEF TInv, TypeOK, Counted, CtxType
    <3>3. PICK cell \in {Garbage, temp[p].data[c.slot]} :
            temp' = [temp EXCEPT ![p].data = WriteAt(@, c.slot, cell)]
      BY <2>5 DEF FailedWrite
    <3>4. cell \in Piece \cup {Zero, Absent, Garbage}
      BY <2>1, <3>3 DEF TempType, Content
    <3>5. temp' \in [Ctxs -> TempType]
      BY <2>1, <3>3, <3>4 DEF TInv, TypeOK, TempType
    <3>6. QED
      BY <1>3, <2>2, <3>2, <3>5 DEF ProcessChunk, Return, TInv, TypeOK
  <2>6. QED
    BY <1>3, <2>3, <2>4, <2>5 DEF ProcessChunk
<1>4. ASSUME NEW t \in Threads, ProcessChunkInFreedContext(t) PROVE TInv'
  BY <1>4 DEF ProcessChunkInFreedContext, Return, TInv, TypeOK, CallShape, Counted
<1>5. ASSUME NEW t \in Threads, NEW id \in Ids, NEW hash \in Hashes, FinalizeBegin(t, id, hash)
      PROVE  TInv'
  <2> DEFINE p == contexts[id]
  <2>1. p \in Ctxs /\ heap[p] \in CtxType /\ temp[p] \in TempType
    BY <1>5 DEF FinalizeBegin, IsComplete, HasSession, TInv, TypeOK
  <2>4. PICK lost \in SUBSET (IF IOFaults /\ heap[p].file # "closed" THEN heap[p].received ELSE {}) :
          /\ heap' = [heap EXCEPT ![p].file = "closed", ![p].spoiled = @ \/ lost # {}]
          /\ temp' = [temp EXCEPT ![p].data = [s \in Slots |-> IF s \in lost THEN Zero ELSE @[s]]]
    BY <1>5 DEF FinalizeBegin, Close
  <2>3. heap' \in [Ctxs -> CtxType] /\ Counted'
    BY <2>1, <2>4 DEF TInv, TypeOK, Counted, CtxType
  <2>5. lost \in SUBSET Slots
    BY <2>1, <2>4 DEF CtxType
  <2>6. temp' \in [Ctxs -> TempType]
    BY <2>1, <2>4, <2>5 DEF TInv, TypeOK, TempType
  <2>7. QED
    BY <1>5, <2>1, <2>3, <2>6 DEF FinalizeBegin, TInv, TypeOK, CallShape, CallType
<1>6. ASSUME NEW t \in Threads, FinalizeVerify(t) PROVE TInv'
  <2>1. call[t].ctx \in Ctxs /\ call[t].id \in Ids
    BY <1>6 DEF FinalizeVerify, TInv, CallShape
  <2>2. CASE call' = [call EXCEPT ![t].op = "remove"] /\ UNCHANGED <<contexts, heap, temp, lock>>
    BY <1>6, <2>1, <2>2 DEF FinalizeVerify, TInv, TypeOK, CallShape, Counted, CallType
  <2>3. CASE /\ temp' = [temp EXCEPT ![call[t].ctx] = NoTemp]
             /\ Erase(call[t].id, call[t].ctx)
             /\ lock' = None
             /\ Return(t)
    BY <1>6, <2>1, <2>3, FS_EmptySet
    DEF FinalizeVerify, Erase, Return, TInv, TypeOK, CallShape, Counted
  <2>4. QED
    BY <1>6, <2>2, <2>3 DEF FinalizeVerify
<1>7. ASSUME NEW t \in Threads, FinalizeRemoveOld(t) PROVE TInv'
  BY <1>7 DEF FinalizeRemoveOld, TInv, TypeOK, CallShape, Counted, CallType
<1>8. ASSUME NEW t \in Threads, FinalizeRename(t) PROVE TInv'
  <2> DEFINE p == call[t].ctx
  <2>1. p \in Ctxs /\ call[t].id \in Ids /\ heap[p] \in CtxType /\ temp[p] \in TempType
    BY <1>8 DEF FinalizeRename, TInv, CallShape, TypeOK
  <2>2. CASE /\ final' = [final EXCEPT ![heap[p].name] =
                            [exists |-> TRUE, id |-> call[t].id, total |-> heap[p].total,
                             verified |-> call[t].hash = "given", spoiled |-> heap[p].spoiled,
                             data |-> temp[p].data]]
             /\ temp' = [temp EXCEPT ![p] = NoTemp]
             /\ Erase(call[t].id, p)
             /\ Return(t)
    <3>1. final' \in [Names -> FinalType]
      BY <2>1, <2>2 DEF TInv, TypeOK, FinalType, CtxType, TempType
    <3>2. QED
      BY <1>8, <2>1, <2>2, <3>1, FS_EmptySet
      DEF FinalizeRename, Erase, Return, TInv, TypeOK, CallShape, Counted
  <2>3. CASE Return(t) /\ UNCHANGED <<contexts, heap, temp, final>>
    BY <1>8, <2>3 DEF FinalizeRename, Return, TInv, TypeOK, CallShape, Counted
  <2>4. QED
    BY <1>8, <2>2, <2>3 DEF FinalizeRename
<1>9. ASSUME NEW t \in Threads, NEW id \in Ids, CancelSession(t, id) PROVE TInv'
  <2>1. contexts[id] \in Ctxs
    BY <1>9 DEF CancelSession, HasSession, TInv, TypeOK
  <2>2. QED
    BY <1>9, <2>1, FS_EmptySet DEF CancelSession, Erase, TInv, TypeOK, CallShape, Counted
<1>10. CASE Destroy
  BY <1>10, FS_EmptySet DEF Destroy, TInv, TypeOK, CallShape, Counted
<1>11. CASE Crash
  BY <1>11, FS_EmptySet DEF Crash, TInv, TypeOK, CallShape, Counted
<1>12. CASE UNCHANGED vars
  BY <1>12 DEF vars, TInv, TypeOK, CallShape, Counted
<1>13. QED
  BY <1>1, <1>2, <1>3, <1>4, <1>5, <1>6, <1>7, <1>8, <1>9, <1>10, <1>11, <1>12
  DEF Next, ThreadStep

\* The invariant holds throughout.
LEMMA TInvAlways == Spec => []TInv
BY TInvInit, TInvStep, PTL DEF Spec

(* The assembler's memory, its calls and the disk keep their types; in      *)
(* particular received_count never passes MaxChunks, because a duplicate    *)
(* or out-of-range chunk is never counted.                                  *)
THEOREM TypeCorrect == Spec => []TypeOK
<1>1. TInv => TypeOK
  BY DEF TInv
<1>2. QED
  BY <1>1, TInvAlways, PTL

(* is_complete and get_missing_chunks agree in every state, because the     *)
(* counter is the cardinality of the bitmap.                                *)
THEOREM CounterTellsTheBitmap == Spec => []QueriesAgree
<1>1. TInv => QueriesAgree
  <2> SUFFICES ASSUME TInv, NEW id \in Ids, HasSession(id)
               PROVE  IsComplete(id) <=> GetMissingChunks(id) = {}
    BY DEF QueriesAgree
  <2> DEFINE p == contexts[id]
  <2>1. p \in Ctxs /\ heap[p] \in CtxType
    BY DEF HasSession, TInv, TypeOK
  <2>2. heap[p].total \in Slots /\ heap[p].received \in SUBSET Range0(heap[p].total)
    BY <2>1 DEF TInv, Counted, CtxType
  <2>3. Cardinality(heap[p].received) = heap[p].total
          <=> Range0(heap[p].total) \ heap[p].received = {}
    BY <2>2, BitmapCardinality
  <2>4. QED
    BY <2>1, <2>3 DEF IsComplete, GetMissingChunks, Range0, TInv, Counted
<1>2. QED
  BY <1>1, TInvAlways, PTL

-----------------------------------------------------------------------------
\* finalize, after it closed the file and until it returns
Finalizing(t) == call[t].op \in {"verify", "remove", "rename"}

(* What finalize relies on between its steps: it holds contexts_mutex_, so  *)
(* its context stays the session's; the context's file is closed and its    *)
(* count complete, so a process_chunk that got the pointer earlier changes  *)
(* nothing; and a hash it has checked still describes the temp file.        *)
FInv ==
  \A t \in Threads : Finalizing(t) =>
    /\ lock = t
    /\ contexts[call[t].id] = call[t].ctx
    /\ heap[call[t].ctx].file = "closed"
    /\ heap[call[t].ctx].count = heap[call[t].ctx].total
    /\ call[t].op # "verify" /\ call[t].hash = "given" =>
         temp[call[t].ctx].data = SentFile(call[t].id, heap[call[t].ctx].total)

\* A step of process_chunk leaves a context whose file is closed, and its temp file, as they are.
LEMMA ClosedContextKept ==
  ASSUME TInv, NEW t \in Threads, ProcessChunk(t), NEW p \in Ctxs, heap[p].file = "closed"
  PROVE  heap'[p] = heap[p] /\ temp'[p] = temp[p]
<1>1. call[t].ctx \in Ctxs
  BY DEF ProcessChunk, TInv, CallShape
<1>2. CASE UNCHANGED <<heap, temp>>
  BY <1>2
<1>3. CASE ~Refused(heap[call[t].ctx], call[t].chunk) /\ Store(call[t].ctx, call[t].chunk)
  <2>1. call[t].ctx # p
    BY <1>3 DEF Refused
  <2>2. QED
    BY <1>1, <1>3, <2>1 DEF Store, TInv, TypeOK
<1>4. CASE ~Refused(heap[call[t].ctx], call[t].chunk) /\ FailedWrite(call[t].ctx, call[t].chunk)
  <2>1. call[t].ctx # p
    BY <1>4 DEF Refused
  <2>2. QED
    BY <1>1, <1>4, <2>1 DEF FailedWrite, TInv, TypeOK
<1>5. QED
  BY <1>2, <1>3, <1>4 DEF ProcessChunk

\* No finalize is under way at first, and no file is published.
LEMMA FInvInit == Init => FInv /\ VerifiedFileIntact
BY FreeTypes DEF Init, FInv, Finalizing, VerifiedFileIntact, NoFinal

\* Every step keeps what finalize relies on and, with it, the published files.
LEMMA FInvStep ==
  ASSUME TInv, FInv, VerifiedFileIntact, [Next]_vars
  PROVE  FInv' /\ VerifiedFileIntact'
<1> USE FreeTypes
<1>0. TypeOK /\ CallShape
  BY DEF TInv
<1>1. ASSUME NEW t \in Threads, NEW id \in Ids, NEW name \in Names, NEW total \in Slots,
             StartSession(t, id, name, total)
      PROVE  FInv' /\ VerifiedFileIntact'
  <2>1. lock = None /\ UNCHANGED <<final, lock, call>>
    BY <1>1 DEF StartSession
  <2>2. \A u \in Threads : ~Finalizing(u)
    BY <2>1, ConstantsAssumption DEF FInv
  <2>3. QED
    BY <2>1, <2>2 DEF FInv, Finalizing, VerifiedFileIntact
<1>2. ASSUME NEW t \in Threads, NEW c \in Chunks, LookupContext(t, c)
      PROVE  FInv' /\ VerifiedFileIntact'
  BY <1>0, <1>2 DEF LookupContext, TypeOK, FInv, Finalizing, VerifiedFileIntact
<1>3. ASSUME NEW t \in Threads, ProcessChunk(t) PROVE FInv' /\ VerifiedFileIntact'
  <2>1. /\ call' = [call EXCEPT ![t] = IdleCall]
        /\ UNCHANGED <<contexts, final, lock>>
    BY <1>3 DEF ProcessChunk, Return
  <2>2. ASSUME NEW u \in Threads, Finalizing(u)'
        PROVE  /\ Finalizing(u) /\ call'[u] = call[u] /\ call[u].ctx \in Ctxs
               /\ heap'[call[u].ctx] = heap[call[u].ctx]
               /\ temp'[call[u].ctx] = temp[call[u].ctx]
    <3>1. u # t /\ Finalizing(u) /\ call'[u] = call[u]
      BY <1>0, <2>1, <2>2 DEF Finalizing, TypeOK
    <3>2. call[u].ctx \in Ctxs /\ heap[call[u].ctx].file = "closed"
      BY <1>0, <3>1 DEF CallShape, Finalizing, FInv
    <3>3. QED
      BY <1>3, <3>1, <3>2, ClosedContextKept
  <2>3. FInv'
    BY <2>1, <2>2 DEF FInv
  <2>4. QED
    BY <2>1, <2>3 DEF VerifiedFileIntact
<1>4. ASSUME NEW t \in Threads, ProcessChunkInFreedContext(t) PROVE FInv' /\ VerifiedFileIntact'
  BY <1>0, <1>4 DEF ProcessChunkInFreedContext, Return, TypeOK, FInv, Finalizing, VerifiedFileIntact
<1>5. ASSUME NEW t \in Threads, NEW id \in Ids, NEW hash \in Hashes, FinalizeBegin(t, id, hash)
      PROVE  FInv' /\ VerifiedFileIntact'
  <2>6. contexts[id] \in Ctxs /\ heap[contexts[id]] \in CtxType
    BY <1>0, <1>5 DEF FinalizeBegin, IsComplete, HasSession, TypeOK
  <2>1. /\ lock = None /\ lock' = t
        /\ heap[contexts[id]].count = heap[contexts[id]].total
        /\ \E b \in BOOLEAN : heap' = [heap EXCEPT ![contexts[id]].file = "closed",
                                                  ![contexts[id]].spoiled = b]
        /\ call' = [call EXCEPT ![t] = [op |-> "verify", id |-> id, chunk |-> None,
                                        ctx |-> contexts[id], hash |-> hash]]
        /\ UNCHANGED <<contexts, final>>
    BY <1>5, <2>6 DEF FinalizeBegin, Close, IsComplete, CtxType
  <2>2. \A u \in Threads : ~Finalizing(u)
    BY <2>1, ConstantsAssumption DEF FInv
  <2>4. FInv'
    BY <1>0, <2>1, <2>2, <2>6 DEF FInv, Finalizing, TypeOK, CtxType
  <2>5. QED
    BY <2>1, <2>4 DEF VerifiedFileIntact
<1>6. ASSUME NEW t \in Threads, FinalizeVerify(t) PROVE FInv' /\ VerifiedFileIntact'
  <2>1. /\ Finalizing(t) /\ call[t].op = "verify" /\ lock = t
        /\ call[t].ctx \in Ctxs /\ UNCHANGED final
    BY <1>0, <1>6 DEF FinalizeVerify, Finalizing, FInv, CallShape
  <2>2. \A u \in Threads : Finalizing(u) => u = t
    BY <2>1 DEF FInv
  <2>3. CASE /\ call[t].hash = "none" \/ temp[call[t].ctx].data = SentFile(call[t].id, heap[call[t].ctx].total)
             /\ call' = [call EXCEPT ![t].op = "remove"]
             /\ UNCHANGED <<contexts, heap, temp, lock>>
    <3>1. /\ call'[t].op = "remove" /\ call'[t].id = call[t].id
          /\ call'[t].ctx = call[t].ctx /\ call'[t].hash = call[t].hash
          /\ \A u \in Threads \ {t} : call'[u] = call[u]
      BY <1>0, <2>3 DEF TypeOK, CallType
    <3>2. FInv'
      BY <2>1, <2>2, <2>3, <3>1 DEF FInv, Finalizing
    <3>3. QED
      BY <2>1, <3>2 DEF VerifiedFileIntact
  <2>4. CASE Return(t)
    BY <1>0, <2>1, <2>2, <2>4 DEF Return, TypeOK, FInv, Finalizing, VerifiedFileIntact
  <2>5. QED
    BY <1>6, <2>3, <2>4 DEF FinalizeVerify, VerifySha256
<1>7. ASSUME NEW t \in Threads, FinalizeRemoveOld(t) PROVE FInv' /\ VerifiedFileIntact'
  <2>1. /\ call[t].op = "remove" /\ UNCHANGED <<contexts, heap, temp, lock>>
        /\ call'[t].op = "rename" /\ call'[t].id = call[t].id
        /\ call'[t].ctx = call[t].ctx /\ call'[t].hash = call[t].hash
        /\ \A u \in Threads \ {t} : call'[u] = call[u]
    BY <1>0, <1>7 DEF FinalizeRemoveOld, TypeOK, CallType
  <2>2. FInv'
    BY <2>1 DEF FInv, Finalizing
  <2>3. VerifiedFileIntact'
    BY <1>0, <1>7 DEF FinalizeRemoveOld, TypeOK, VerifiedFileIntact, NoFinal
  <2>4. QED
    BY <2>2, <2>3
<1>8. ASSUME NEW t \in Threads, FinalizeRename(t) PROVE FInv' /\ VerifiedFileIntact'
  <2>1. Finalizing(t) /\ call[t].op = "rename" /\ lock = t /\ Return(t)
    BY <1>8 DEF FinalizeRename, Finalizing, FInv
  <2>2. \A u \in Threads : ~Finalizing(u)'
    BY <1>0, <2>1 DEF FInv, Finalizing, Return, TypeOK
  <2>3. FInv'
    BY <2>2 DEF FInv
  <2>4. CASE final' = [final EXCEPT ![heap[call[t].ctx].name] =
                 [exists |-> TRUE, id |-> call[t].id, total |-> heap[call[t].ctx].total,
                  verified |-> call[t].hash = "given", spoiled |-> heap[call[t].ctx].spoiled,
                  data |-> temp[call[t].ctx].data]]
    BY <1>0, <2>1, <2>3, <2>4 DEF FInv, TypeOK, VerifiedFileIntact
  <2>5. CASE UNCHANGED final
    BY <2>3, <2>5 DEF VerifiedFileIntact
  <2>6. QED
    BY <1>8, <2>4, <2>5 DEF FinalizeRename
<1>9. ASSUME NEW t \in Threads, NEW id \in Ids, CancelSession(t, id)
      PROVE  FInv' /\ VerifiedFileIntact'
  <2>1. lock = None /\ UNCHANGED <<final, lock, call>>
    BY <1>9 DEF CancelSession
  <2>2. \A u \in Threads : ~Finalizing(u)
    BY <2>1, ConstantsAssumption DEF FInv
  <2>3. QED
    BY <2>1, <2>2 DEF FInv, Finalizing, VerifiedFileIntact
<1>10. CASE Destroy
  BY <1>10 DEF Destroy, Quiescent, Idle, FInv, Finalizing, VerifiedFileIntact
<1>11. CASE Crash
  BY <1>11 DEF Crash, FInv, Finalizing, VerifiedFileIntact
<1>12. CASE UNCHANGED vars
  BY <1>12 DEF vars, FInv, Finalizing, VerifiedFileIntact
<1>13. QED
  BY <1>1, <1>2, <1>3, <1>4, <1>5, <1>6, <1>7, <1>8, <1>9, <1>10, <1>11, <1>12
  DEF Next, ThreadStep

(* A file published after its SHA-256 was checked is the sender's file,     *)
(* with any number of threads and sessions, whatever the callers overlap,   *)
(* whatever I/O fails, wherever the process crashes.                        *)
THEOREM VerifiedFilesAreIntact == Spec => []VerifiedFileIntact
<1>1. TInv /\ FInv /\ VerifiedFileIntact /\ [Next]_vars => (FInv /\ VerifiedFileIntact)'
  BY FInvStep
<1>2. QED
  BY <1>1, FInvInit, TInvAlways, PTL DEF Spec
-----------------------------------------------------------------------------
(* Sessions and their contexts: each has a live context of its own, and its *)
(* temp file is there.                                                      *)
Owned ==
  \A i \in Ids : HasSession(i) =>
    /\ heap[contexts[i]].live /\ temp[contexts[i]].exists
    /\ \A j \in Ids : contexts[j] = contexts[i] => j = i

\* Steps that leave the map alone, and take no context and no file away.
LEMMA OwnedSame ==
  ASSUME TInv, Owned, contexts' = contexts,
         \A p \in Ctxs : /\ heap[p].live => heap'[p].live
                         /\ temp[p].exists => temp'[p].exists
  PROVE  Owned'
<1>1. \A i \in Ids : HasSession(i) => contexts[i] \in Ctxs
  BY DEF HasSession, TInv, TypeOK
<1>2. QED BY <1>1 DEF Owned, HasSession

\* The end of a session: no other session's context or file is touched.
LEMMA OwnedErased ==
  ASSUME TInv, Owned, NEW id \in Ids, HasSession(id), Erase(id, contexts[id]),
         temp' = [temp EXCEPT ![contexts[id]] = NoTemp]
  PROVE  /\ Owned'
         /\ \A i \in Ids : HasSession(i)' => /\ i # id /\ HasSession(i) /\ contexts'[i] = contexts[i]
                                             /\ contexts[i] \in Ctxs
                                             /\ heap'[contexts[i]] = heap[contexts[i]]
                                             /\ temp'[contexts[i]] = temp[contexts[i]]
<1>1. contexts' = [contexts EXCEPT ![id] = None] /\ heap' = [heap EXCEPT ![contexts[id]] = FreeCtx]
  BY DEF Erase
<1>2. ASSUME NEW i \in Ids, HasSession(i)'
      PROVE  /\ i # id /\ HasSession(i) /\ contexts'[i] = contexts[i] /\ contexts[i] \in Ctxs
             /\ heap'[contexts[i]] = heap[contexts[i]]
             /\ temp'[contexts[i]] = temp[contexts[i]]
  <2>1. i # id /\ contexts'[i] = contexts[i] /\ HasSession(i)
    BY <1>1, <1>2 DEF HasSession, TInv, TypeOK
  <2>2. contexts[i] \in Ctxs /\ contexts[i] # contexts[id]
    BY <2>1 DEF HasSession, TInv, TypeOK, Owned
  <2>3. QED BY <1>1, <2>1, <2>2 DEF TInv, TypeOK
<1>3. ASSUME NEW i \in Ids, HasSession(i)', NEW j \in Ids, contexts'[j] = contexts'[i] PROVE j = i
  <2>1. HasSession(j)' BY <1>3 DEF HasSession
  <2>2. QED BY <1>2, <1>3, <2>1 DEF Owned
<1>4. QED BY <1>2, <1>3 DEF Owned

\* process_chunk and close keep every context and file where it is.
LEMMA ProcessKeepsPlaces ==
  ASSUME TInv, NEW t \in Threads, ProcessChunk(t), NEW p \in Ctxs
  PROVE  heap'[p].live = heap[p].live /\ temp'[p].exists = temp[p].exists
<1>1. call[t].ctx \in Ctxs /\ heap[p] \in CtxType /\ temp[p] \in TempType
  BY DEF ProcessChunk, TInv, CallShape, TypeOK
<1>2. CASE UNCHANGED <<heap, temp>> BY <1>2
<1>3. CASE Store(call[t].ctx, call[t].chunk)
  BY <1>1, <1>3 DEF Store, TInv, TypeOK, CtxType, TempType
<1>4. CASE FailedWrite(call[t].ctx, call[t].chunk)
  BY <1>1, <1>4 DEF FailedWrite, TInv, TypeOK, CtxType, TempType
<1>5. QED BY <1>2, <1>3, <1>4 DEF ProcessChunk

\* A session that starts takes a context nobody has.
LEMMA OwnedStart ==
  ASSUME TInv, Owned, NEW t \in Threads, NEW id \in Ids, NEW name \in Names, NEW total \in Slots,
         StartSession(t, id, name, total)
  PROVE  /\ Owned' /\ contexts'[id] \in Ctxs
         /\ heap'[contexts'[id]].total = total /\ heap'[contexts'[id]].received = {}
         /\ temp'[contexts'[id]].data = Preallocated(total)
         /\ \A i \in Ids \ {id} : /\ contexts'[i] = contexts[i]
                                  /\ HasSession(i) => /\ contexts[i] \in Ctxs
                                                      /\ heap'[contexts[i]] = heap[contexts[i]]
                                                      /\ temp'[contexts[i]] = temp[contexts[i]]
<1>1. PICK p \in Ctxs, file \in {"open", "bad"} :
        /\ ~heap[p].live
        /\ contexts' = [contexts EXCEPT ![id] = p]
        /\ heap' = [heap EXCEPT ![p] = [live |-> TRUE, name |-> name, total |-> total,
                                        received |-> {}, count |-> 0, file |-> file,
                                        spoiled |-> FALSE]]
        /\ temp' = [temp EXCEPT ![p] = [exists |-> TRUE, data |-> Preallocated(total)]]
  BY DEF StartSession
<1>2. /\ contexts'[id] = p /\ heap'[p].live /\ temp'[p].exists
      /\ heap'[p].total = total /\ heap'[p].received = {} /\ temp'[p].data = Preallocated(total)
  BY <1>1 DEF TInv, TypeOK
<1>3. ASSUME NEW i \in Ids \ {id}
      PROVE  /\ contexts'[i] = contexts[i]
             /\ HasSession(i) => /\ contexts[i] \in Ctxs /\ contexts[i] # p
                                 /\ heap'[contexts[i]] = heap[contexts[i]]
                                 /\ temp'[contexts[i]] = temp[contexts[i]]
  <2>1. contexts'[i] = contexts[i] BY <1>1 DEF TInv, TypeOK
  <2>2. HasSession(i) => contexts[i] \in Ctxs /\ contexts[i] # p
    BY <1>1 DEF HasSession, TInv, TypeOK, Owned
  <2>3. QED BY <1>1, <2>1, <2>2 DEF TInv, TypeOK
<1>4. ASSUME NEW i \in Ids, HasSession(i)'
      PROVE  /\ heap'[contexts'[i]].live /\ temp'[contexts'[i]].exists
             /\ \A j \in Ids : contexts'[j] = contexts'[i] => j = i
  <2>1. CASE i = id
    <3>1. ASSUME NEW j \in Ids, j # id PROVE contexts'[j] # p
      BY <1>1, <1>3, <3>1, ConstantsAssumption DEF HasSession
    <3>2. QED BY <1>2, <2>1, <3>1
  <2>2. CASE i # id
    <3>1. HasSession(i) /\ contexts'[i] = contexts[i] /\ contexts[i] # p
      BY <1>3, <1>4, <2>2 DEF HasSession
    <3>2. ASSUME NEW j \in Ids, contexts'[j] = contexts'[i] PROVE j = i
      <4>1. j # id BY <1>2, <3>1, <3>2
      <4>2. QED BY <1>3, <3>1, <3>2, <4>1 DEF Owned
    <3>3. QED BY <1>3, <2>2, <3>1, <3>2 DEF Owned
  <2>3. QED BY <2>1, <2>2
<1>5. QED BY <1>1, <1>2, <1>3, <1>4 DEF Owned

\* The thread in finalize is the only one, and its context is its session's.
LEMMA Finalizer ==
  ASSUME TInv, FInv, NEW t \in Threads, Finalizing(t)
  PROVE  /\ call[t].id \in Ids /\ HasSession(call[t].id) /\ contexts[call[t].id] = call[t].ctx
         /\ \A u \in Threads : Finalizing(u) => u = t
<1>1. call[t].id \in Ids /\ call[t].ctx \in Ctxs
  BY DEF TInv, CallShape, Finalizing
<1>2. QED BY <1>1, ConstantsAssumption DEF FInv, HasSession

\* FinalizeBegin closes the stream of a complete session.
LEMMA BeginKeepsPlaces ==
  ASSUME TInv, NEW t \in Threads, NEW id \in Ids, NEW hash \in Hashes, FinalizeBegin(t, id, hash), NEW p \in Ctxs
  PROVE  /\ heap'[p].live = heap[p].live /\ temp'[p].exists = temp[p].exists
         /\ heap'[p].received = heap[p].received /\ heap'[p].total = heap[p].total
         /\ ~heap'[p].spoiled => ~heap[p].spoiled /\ temp'[p].data = temp[p].data
<1>1. heap[p] \in CtxType /\ temp[p] \in TempType /\ contexts[id] \in Ctxs
  BY DEF FinalizeBegin, IsComplete, HasSession, TInv, TypeOK
<1>2. PICK lost \in SUBSET (IF IOFaults /\ heap[contexts[id]].file # "closed" THEN heap[contexts[id]].received ELSE {}) :
        /\ heap' = [heap EXCEPT ![contexts[id]].file = "closed", ![contexts[id]].spoiled = @ \/ lost # {}]
        /\ temp' = [temp EXCEPT ![contexts[id]].data = [s \in Slots |-> IF s \in lost THEN Zero ELSE @[s]]]
  BY DEF FinalizeBegin, Close
<1>3. temp'[p].exists = temp[p].exists
  BY <1>1, <1>2 DEF TInv, TypeOK, TempType
<1>4. heap'[p].live = heap[p].live /\ heap'[p].received = heap[p].received /\ heap'[p].total = heap[p].total
  BY <1>1, <1>2 DEF TInv, TypeOK, CtxType
<1>5. ASSUME ~heap'[p].spoiled PROVE ~heap[p].spoiled /\ temp'[p].data = temp[p].data
  <2>1. CASE p = contexts[id]
    <3>1. ~heap[p].spoiled /\ lost = {}
      BY <1>1, <1>2, <1>5, <2>1 DEF TInv, TypeOK, CtxType
    <3>2. temp'[p].data = [s \in Slots |-> temp[p].data[s]]
      BY <1>1, <1>2, <2>1, <3>1 DEF TInv, TypeOK, TempType
    <3>3. temp[p].data = [s \in Slots |-> temp[p].data[s]] BY <1>1 DEF TempType, Content
    <3>4. QED BY <3>1, <3>2, <3>3
  <2>2. CASE p # contexts[id]
    BY <1>1, <1>2, <1>5, <2>2 DEF TInv, TypeOK
  <2>3. QED BY <2>1, <2>2
<1>6. QED BY <1>3, <1>4, <1>5

LEMMA OwnedStep ==
  ASSUME TInv, FInv, Owned, [Next]_vars
  PROVE  Owned'
<1>1. ASSUME NEW t \in Threads, NEW id \in Ids, NEW name \in Names, NEW total \in Slots,
             StartSession(t, id, name, total)
      PROVE  Owned'
  BY <1>1, OwnedStart
<1>2. ASSUME NEW t \in Threads, ProcessChunk(t) PROVE Owned'
  BY <1>2, ProcessKeepsPlaces, OwnedSame DEF ProcessChunk
<1>3. ASSUME NEW t \in Threads, NEW id \in Ids, NEW hash \in Hashes, FinalizeBegin(t, id, hash) PROVE Owned'
  BY <1>3, BeginKeepsPlaces, OwnedSame DEF FinalizeBegin
<1>4. ASSUME NEW t \in Threads, FinalizeVerify(t) \/ FinalizeRename(t) PROVE Owned'
  <2>1. Finalizing(t) BY <1>4 DEF FinalizeVerify, FinalizeRename, Finalizing
  <2>2. HasSession(call[t].id) /\ contexts[call[t].id] = call[t].ctx /\ call[t].id \in Ids
    BY <2>1, Finalizer
  <2>3. \/ UNCHANGED <<contexts, heap, temp>>
        \/ Erase(call[t].id, call[t].ctx) /\ temp' = [temp EXCEPT ![call[t].ctx] = NoTemp]
    BY <1>4 DEF FinalizeVerify, FinalizeRename
  <2>4. QED BY <2>2, <2>3, OwnedErased, OwnedSame
<1>5. ASSUME NEW t \in Threads, NEW id \in Ids, CancelSession(t, id) PROVE Owned'
  BY <1>5, OwnedErased DEF CancelSession
<1>6. CASE Destroy \/ Crash
  BY <1>6 DEF Destroy, Crash, Owned, HasSession
<1>7. CASE UNCHANGED <<contexts, heap, temp>>
  BY <1>7, OwnedSame
<1>8. QED
  BY <1>1, <1>2, <1>3, <1>4, <1>5, <1>6, <1>7
  DEF Next, ThreadStep, vars, LookupContext, ProcessChunkInFreedContext, FinalizeRemoveOld

\* No session at first.
LEMMA OwnedInit == Init => Owned
BY DEF Init, Owned, HasSession

\* What remove(final) relies on.
LEMMA RemoveStep ==
  ASSUME TInv, FInv, Owned, [Next]_vars, NEW n \in Names, final[n].exists, ~final'[n].exists
  PROVE  \E id \in Ids : /\ HasSession(id) /\ GetMissingChunks(id) = {}
                         /\ heap[contexts[id]].name = n
                         /\ heap[contexts[id]].file = "closed"
                         /\ temp[contexts[id]].exists
<1>1. ASSUME NEW t \in Threads, FinalizeRename(t) PROVE FALSE
  <2>1. final' # final OBVIOUS
  <2>2. final' = [final EXCEPT ![heap[call[t].ctx].name] =
                       [exists |-> TRUE, id |-> call[t].id, total |-> heap[call[t].ctx].total,
                        verified |-> call[t].hash = "given", spoiled |-> heap[call[t].ctx].spoiled,
                  data |-> temp[call[t].ctx].data]]
    BY <1>1, <2>1 DEF FinalizeRename
  <2>3. QED BY <2>2 DEF TInv, TypeOK
<1>2. PICK t \in Threads : FinalizeRemoveOld(t)
  BY <1>1 DEF Next, ThreadStep, vars, StartSession, LookupContext, ProcessChunk, ProcessChunkInFreedContext,
     FinalizeBegin, FinalizeVerify, CancelSession, Destroy, Crash
<1> DEFINE id == call[t].id
           p  == call[t].ctx
<1>3. Finalizing(t) BY <1>2 DEF FinalizeRemoveOld, Finalizing
<1>4. id \in Ids /\ HasSession(id) /\ contexts[id] = p
  BY <1>3, Finalizer
<1>5. heap[p].file = "closed" /\ heap[p].count = heap[p].total
  BY <1>3 DEF FInv
<1>6. heap[p].name = n
  BY <1>2 DEF FinalizeRemoveOld, TInv, TypeOK
<1>7. GetMissingChunks(id) = {}
  <2>1. p \in Ctxs BY <1>4 DEF HasSession, TInv, TypeOK
  <2>2. heap[p].total \in Slots /\ heap[p].received \in SUBSET Range0(heap[p].total)
    BY <2>1 DEF TInv, TypeOK, Counted, CtxType
  <2>3. Range0(heap[p].total) \ heap[p].received = {}
    BY <1>5, <2>1, <2>2, BitmapCardinality DEF TInv, Counted
  <2>4. QED BY <1>4, <2>3 DEF GetMissingChunks, Range0
<1>8. QED BY <1>4, <1>5, <1>6, <1>7 DEF Owned

LEMMA OwnedAlways == Spec => [](TInv /\ FInv /\ Owned)
<1>1. TInv /\ FInv /\ VerifiedFileIntact /\ Owned /\ [Next]_vars => (FInv /\ VerifiedFileIntact /\ Owned)'
  BY FInvStep, OwnedStep
<1>2. QED
  BY <1>1, FInvInit, OwnedInit, TInvAlways, PTL DEF Spec

(* finalize removes a file that is already stored only when a complete and *)
(* closed replacement lies in the temp directory, for any threads, sessions *)
(* and callers, with file errors and crashes.                               *)
THEOREM OldFilesAreReplaced == Spec => RemovedOnlyForReplacement
<1>1. TInv /\ FInv /\ Owned /\ [Next]_vars
        => [\A n \in Names : final[n].exists /\ ~final'[n].exists =>
              \E id \in Ids : /\ HasSession(id) /\ GetMissingChunks(id) = {}
                              /\ heap[contexts[id]].name = n
                              /\ heap[contexts[id]].file = "closed"
                              /\ temp[contexts[id]].exists]_vars
  BY RemoveStep
<1>2. QED
  BY <1>1, OwnedAlways, PTL DEF Spec, RemovedOnlyForReplacement
-----------------------------------------------------------------------------
(* From its close to its rename finalize works with the current context of *)
(* its transfer, alive and closed, for any threads, sessions and callers,   *)
(* with file errors and crashes.                                            *)
THEOREM FinalizeOwnsItsContext == Spec => []FinalizeKeepsContext
<1>1. TInv /\ FInv /\ Owned => FinalizeKeepsContext
  <2> SUFFICES ASSUME TInv, FInv, Owned, NEW t \in Threads, Finalizing(t)
               PROVE  /\ contexts[call[t].id] = call[t].ctx
                      /\ heap[call[t].ctx].live /\ heap[call[t].ctx].file = "closed"
                      /\ temp[call[t].ctx].exists
    BY DEF FinalizeKeepsContext, Finalizing
  <2>1. call[t].id \in Ids /\ HasSession(call[t].id) /\ contexts[call[t].id] = call[t].ctx
    BY Finalizer
  <2>2. QED BY <2>1 DEF FInv, Owned
<1>2. QED BY <1>1, OwnedAlways, PTL
-----------------------------------------------------------------------------
(* The content of the temp files, where nothing but CRC32 is checked. *)

\* The chunks recorded as received are in the file, which ends where it should.
Holds(data, id, total, received) ==
  \A s \in Slots : IF s < total THEN s \in received => data[s] = [id |-> id, index |-> s]
                                ELSE data[s] = Absent

\* Unless it was spoiled, a session's temp file has what its bitmap says.
Stored ==
  \A i \in Ids : HasSession(i) /\ ~heap[contexts[i]].spoiled =>
    Holds(temp[contexts[i]].data, i, heap[contexts[i]].total, heap[contexts[i]].received)

IntactInv == Stored /\ FinalFileIntact

\* A slot inside the file is written; those already recorded keep what they have.
LEMMA WriteHolds ==
  ASSUME NEW data \in Content, NEW id \in Ids, NEW total \in Slots, NEW R \in SUBSET Slots,
         NEW i \in Slots, i < total, i \notin R, NEW cell, Holds(data, id, total, R)
  PROVE  /\ Holds(WriteAt(data, i, cell), id, total, R)
         /\ cell = [id |-> id, index |-> i] => Holds(WriteAt(data, i, cell), id, total, R \cup {i})
<1>1. Slots \subseteq Nat /\ total \in Nat /\ i \in Nat
  BY ConstantsAssumption DEF Slots
<1> DEFINE piece(s) == [id |-> id, index |-> s]
<1>2. \A s \in Slots : piece(s) # Absent
  BY ConstantsAssumption DEF Piece
<1>3. \A s \in Slots : IF s < total THEN s \in R => data[s] = piece(s) ELSE data[s] = Absent
  BY DEF Holds
<1>4. cell = [id |-> id, index |-> i] <=> cell = piece(i)
  OBVIOUS
<1> HIDE DEF piece
<1>5. \A s \in Slots : WriteAt(data, i, cell)[s]
                       = IF s = i THEN cell ELSE IF s < i /\ data[s] = Absent THEN Zero ELSE data[s]
  BY DEF WriteAt
<1>6. \A s \in Slots : IF s < total THEN s \in R => WriteAt(data, i, cell)[s] = piece(s)
                                    ELSE WriteAt(data, i, cell)[s] = Absent
  BY <1>1, <1>2, <1>3, <1>5
<1>7. cell = piece(i) =>
        \A s \in Slots : IF s < total THEN s \in R \cup {i} => WriteAt(data, i, cell)[s] = piece(s)
                                      ELSE WriteAt(data, i, cell)[s] = Absent
  BY <1>5, <1>6
<1>8. QED BY <1>4, <1>6, <1>7 DEF Holds, piece

\* A file in which nothing is missing is the sender's.
LEMMA HoldsComplete ==
  ASSUME NEW data \in Content, NEW id \in Ids, NEW total \in Slots, NEW R \in SUBSET Range0(total),
         Range0(total) \ R = {}, Holds(data, id, total, R)
  PROVE  data = SentFile(id, total)
<1>1. \A s \in Slots : s < total => s \in R
  BY DEF Range0
<1>2. \A s \in Slots : data[s] = SentFile(id, total)[s]
  BY <1>1 DEF Holds, SentFile
<1>3. QED BY <1>2 DEF SentFile, Content

\* The end of a session leaves the others' files as they are.
LEMMA StoredErased ==
  ASSUME TInv, Owned, Stored, NEW id \in Ids, HasSession(id), Erase(id, contexts[id]),
         temp' = [temp EXCEPT ![contexts[id]] = NoTemp]
  PROVE  Stored'
<1>1. \A i \in Ids : HasSession(i)' => /\ HasSession(i) /\ contexts'[i] = contexts[i]
                                       /\ heap'[contexts[i]] = heap[contexts[i]]
                                       /\ temp'[contexts[i]] = temp[contexts[i]]
  BY OwnedErased
<1>2. SUFFICES ASSUME NEW i \in Ids, HasSession(i)', ~heap'[contexts'[i]].spoiled
               PROVE  Holds(temp'[contexts'[i]].data, i,
                            heap'[contexts'[i]].total, heap'[contexts'[i]].received)
  BY DEF Stored
<1>3. Holds(temp[contexts[i]].data, i, heap[contexts[i]].total, heap[contexts[i]].received)
  BY <1>1, <1>2 DEF Stored
<1>4. QED BY <1>1, <1>2, <1>3

\* So does a step that changes no content, and marks what it spoils.
LEMMA StoredSame ==
  ASSUME TInv, Stored, contexts' = contexts,
         \A p \in Ctxs : /\ heap'[p].total = heap[p].total /\ heap'[p].received = heap[p].received
                         /\ ~heap'[p].spoiled => ~heap[p].spoiled /\ temp'[p].data = temp[p].data
  PROVE  Stored'
<1>1. \A i \in Ids : HasSession(i) => contexts[i] \in Ctxs
  BY DEF HasSession, TInv, TypeOK
<1>2. QED BY <1>1 DEF Stored, HasSession

(* process_chunk writes where the chunk belongs in its own session's file,  *)
(* or marks the file as spoiled.                                            *)
LEMMA ProcessStores ==
  ASSUME TInv, Owned, Stored, NEW t \in Threads, ProcessChunk(t)
  PROVE  Stored'
<1> DEFINE c == call[t].chunk
           p == call[t].ctx
<1>1. /\ c \in Chunks /\ c.id \in Ids /\ c.index \in Slots /\ c.slot \in Slots /\ p \in Ctxs
      /\ UNCHANGED contexts
  BY ConstantsAssumption DEF ProcessChunk, TInv, CallShape
<1>2. heap[p] \in CtxType /\ temp[p] \in TempType
  BY <1>1 DEF TInv, TypeOK
<1>3. CASE UNCHANGED <<heap, temp>>
  BY <1>1, <1>3 DEF Stored, HasSession
<1>4. ASSUME ~Refused(heap[p], c), Store(p, c) \/ FailedWrite(p, c) PROVE Stored'
  <2>1. /\ c.index < heap[p].total /\ c.index \notin heap[p].received /\ c.intact
        /\ heap[p].total \in Slots /\ heap[p].received \in SUBSET Slots
    BY <1>1, <1>2, <1>4, ConstantsAssumption DEF Refused, CtxType, Slots
  <2>2. PICK cell :
          /\ heap'[p].total = heap[p].total
          /\ heap'[p].spoiled = (heap[p].spoiled \/ Misplaced(p, c))
          /\ temp'[p].data = WriteAt(temp[p].data, c.slot, cell)
          /\ \A q \in Ctxs : q # p => heap'[q] = heap[q] /\ temp'[q] = temp[q]
          /\ \/ heap'[p].received = heap[p].received
             \/ heap'[p].received = heap[p].received \cup {c.index} /\ cell = Bytes(c)
    <3>1. CASE Store(p, c)
      BY <1>1, <1>2, <3>1 DEF Store, TInv, TypeOK, CtxType, TempType
    <3>2. CASE FailedWrite(p, c)
      <4>1. PICK cell \in {Garbage, temp[p].data[c.slot]} :
              temp' = [temp EXCEPT ![p].data = WriteAt(@, c.slot, cell)]
        BY <3>2 DEF FailedWrite
      <4>2. heap' = [heap EXCEPT ![p].file = "bad", ![p].spoiled = @ \/ Misplaced(p, c)]
        BY <3>2 DEF FailedWrite
      <4>3. temp'[p].data = WriteAt(temp[p].data, c.slot, cell)
        BY <1>1, <1>2, <4>1 DEF TInv, TypeOK, TempType
      <4>4. \A q \in Ctxs : q # p => heap'[q] = heap[q] /\ temp'[q] = temp[q]
        BY <1>1, <4>1, <4>2 DEF TInv, TypeOK
      <4>5. /\ heap'[p].total = heap[p].total /\ heap'[p].received = heap[p].received
            /\ heap'[p].spoiled = (heap[p].spoiled \/ Misplaced(p, c))
        BY <1>1, <1>2, <4>2 DEF TInv, TypeOK, CtxType
      <4>6. QED BY <4>3, <4>4, <4>5
    <3>3. QED BY <1>4, <3>1, <3>2
  <2>3. ASSUME NEW i \in Ids, HasSession(i)', ~heap'[contexts'[i]].spoiled
        PROVE  Holds(temp'[contexts'[i]].data, i,
                     heap'[contexts'[i]].total, heap'[contexts'[i]].received)
    <3>1. HasSession(i) /\ contexts'[i] = contexts[i] /\ contexts[i] \in Ctxs
      BY <1>1, <2>3 DEF HasSession, TInv, TypeOK
    <3>2. CASE contexts[i] # p
      BY <2>2, <2>3, <3>1, <3>2 DEF Stored
    <3>3. CASE contexts[i] = p
      <4>1. ~heap[p].spoiled /\ ~Misplaced(p, c)
        BY <1>2, <2>2, <2>3, <3>1, <3>3 DEF Misplaced, CtxType
      <4>2. c.slot = c.index /\ contexts[c.id] = p
        BY <4>1 DEF Misplaced
      <4>3. c.id = i
        BY <1>1, <3>1, <3>3, <4>2 DEF Owned
      <4>4. Holds(temp[p].data, i, heap[p].total, heap[p].received)
        BY <3>1, <3>3, <4>1 DEF Stored
      <4> DEFINE data == temp[p].data
                 total == heap[p].total
                 R == heap[p].received
                 k == c.index
      <4>5. /\ data \in Content /\ total \in Slots /\ R \in SUBSET Slots /\ k \in Slots
            /\ k < total /\ k \notin R /\ Holds(data, i, total, R)
        BY <1>1, <1>2, <2>1, <4>4 DEF TempType
      <4>6. Bytes(c) = [id |-> i, index |-> k]
        BY <2>1, <4>3 DEF Bytes
      <4> HIDE DEF data, total, R, k
      <4>7. /\ Holds(WriteAt(data, k, cell), i, total, R)
            /\ cell = [id |-> i, index |-> k] => Holds(WriteAt(data, k, cell), i, total, R \cup {k})
        BY <4>5, WriteHolds
      <4>8. QED BY <2>2, <3>1, <3>3, <4>2, <4>6, <4>7 DEF data, total, R, k
    <3>4. QED BY <3>2, <3>3
  <2>4. QED BY <2>3 DEF Stored
<1>5. QED BY <1>3, <1>4 DEF ProcessChunk

LEMMA IntactStep ==
  ASSUME TInv, FInv, Owned, IntactInv, [Next]_vars
  PROVE  IntactInv'
<1> SUFFICES Stored' /\ FinalFileIntact'
  BY DEF IntactInv
<1>0. TypeOK /\ Stored /\ FinalFileIntact
  BY DEF TInv, IntactInv
<1>1. UNCHANGED final => FinalFileIntact'
  BY <1>0 DEF FinalFileIntact
<1>2. ASSUME NEW t \in Threads, NEW id \in Ids, NEW name \in Names, NEW total \in Slots,
             StartSession(t, id, name, total)
      PROVE  Stored' /\ FinalFileIntact'
  <2>1. Holds(Preallocated(total), id, total, {})
    BY DEF Preallocated, Holds
  <2>2. UNCHANGED final BY <1>2 DEF StartSession
  <2>3. ASSUME NEW i \in Ids, HasSession(i)', ~heap'[contexts'[i]].spoiled
        PROVE  Holds(temp'[contexts'[i]].data, i,
                     heap'[contexts'[i]].total, heap'[contexts'[i]].received)
    <3>1. CASE i = id
      <4>1. /\ heap'[contexts'[id]].total = total /\ heap'[contexts'[id]].received = {}
            /\ temp'[contexts'[id]].data = Preallocated(total)
        BY <1>2, OwnedStart DEF TInv
      <4>2. QED BY <2>1, <3>1, <4>1
    <3>2. CASE i # id
      <4>1. contexts'[i] = contexts[i] /\ HasSession(i)
        BY <1>2, <2>3, <3>2, OwnedStart DEF HasSession
      <4>2. heap'[contexts[i]] = heap[contexts[i]] /\ temp'[contexts[i]] = temp[contexts[i]]
        BY <1>2, <3>2, <4>1, OwnedStart
      <4>3. QED BY <1>0, <2>3, <4>1, <4>2 DEF Stored
    <3>3. QED BY <3>1, <3>2
  <2>4. QED BY <1>1, <2>2, <2>3 DEF Stored
<1>3. ASSUME NEW t \in Threads, ProcessChunk(t) PROVE Stored' /\ FinalFileIntact'
  <2>1. UNCHANGED final BY <1>3 DEF ProcessChunk
  <2>2. QED BY <1>0, <1>1, <1>3, <2>1, ProcessStores
<1>4. ASSUME NEW t \in Threads, NEW id \in Ids, NEW hash \in Hashes, FinalizeBegin(t, id, hash)
      PROVE  Stored' /\ FinalFileIntact'
  <2>1. UNCHANGED <<contexts, final>> BY <1>4 DEF FinalizeBegin
  <2>2. QED BY <1>0, <1>1, <1>4, <2>1, BeginKeepsPlaces, StoredSame
<1>5. ASSUME NEW t \in Threads, FinalizeVerify(t) PROVE Stored' /\ FinalFileIntact'
  <2>1. Finalizing(t) /\ UNCHANGED final BY <1>5 DEF FinalizeVerify, Finalizing
  <2>2. HasSession(call[t].id) /\ contexts[call[t].id] = call[t].ctx /\ call[t].id \in Ids
    BY <2>1, Finalizer
  <2>3. \/ UNCHANGED <<contexts, heap, temp>>
        \/ Erase(call[t].id, call[t].ctx) /\ temp' = [temp EXCEPT ![call[t].ctx] = NoTemp]
    BY <1>5 DEF FinalizeVerify
  <2>4. QED BY <1>0, <1>1, <2>1, <2>2, <2>3, StoredErased, StoredSame
<1>6. ASSUME NEW t \in Threads, FinalizeRemoveOld(t) PROVE Stored' /\ FinalFileIntact'
  <2>1. UNCHANGED <<contexts, heap, temp>> BY <1>6 DEF FinalizeRemoveOld
  <2>2. FinalFileIntact'
    BY <1>0, <1>6 DEF FinalizeRemoveOld, TypeOK, FinalFileIntact, NoFinal
  <2>3. QED BY <1>0, <2>1, <2>2, StoredSame
<1>7. ASSUME NEW t \in Threads, FinalizeRename(t) PROVE Stored' /\ FinalFileIntact'
  <2> DEFINE id == call[t].id
             p  == call[t].ctx
             new == [exists |-> TRUE, id |-> id, total |-> heap[p].total,
                     verified |-> call[t].hash = "given", spoiled |-> heap[p].spoiled,
                     data |-> temp[p].data]
  <2>1. Finalizing(t) BY <1>7 DEF FinalizeRename, Finalizing
  <2>2. HasSession(id) /\ contexts[id] = p /\ id \in Ids /\ p \in Ctxs
    BY <1>0, <2>1, Finalizer DEF HasSession, TypeOK
  <2>3. CASE /\ final' = [final EXCEPT ![heap[p].name] = new]
             /\ Erase(id, p) /\ temp' = [temp EXCEPT ![p] = NoTemp]
    <3>1. ~new.spoiled => new.data = SentFile(new.id, new.total)
      <4> SUFFICES ASSUME ~heap[p].spoiled PROVE temp[p].data = SentFile(id, heap[p].total)
        OBVIOUS
      <4>1. heap[p].total \in Slots /\ heap[p].received \in SUBSET Range0(heap[p].total)
        BY <1>0, <2>2 DEF TInv, TypeOK, Counted, CtxType
      <4>2. heap[p].count = heap[p].total /\ heap[p].count = Cardinality(heap[p].received)
        BY <2>1, <2>2 DEF FInv, TInv, Counted
      <4>3. Range0(heap[p].total) \ heap[p].received = {}
        BY <4>1, <4>2, BitmapCardinality
      <4>4. Holds(temp[p].data, id, heap[p].total, heap[p].received)
        BY <1>0, <2>2 DEF Stored
      <4>5. temp[p].data \in Content
        BY <1>0, <2>2 DEF TypeOK, TempType
      <4>6. QED BY <2>2, <4>1, <4>3, <4>4, <4>5, HoldsComplete
    <3> HIDE DEF new
    <3>2. FinalFileIntact'
      BY <1>0, <2>3, <3>1 DEF FinalFileIntact, TypeOK
    <3>3. QED BY <1>0, <2>2, <2>3, <3>2, StoredErased
  <2>4. CASE UNCHANGED <<contexts, heap, temp, final>>
    BY <1>0, <1>1, <2>4, StoredSame
  <2>5. QED BY <1>7, <2>3, <2>4 DEF FinalizeRename
<1>8. ASSUME NEW t \in Threads, NEW id \in Ids, CancelSession(t, id) PROVE Stored' /\ FinalFileIntact'
  BY <1>0, <1>1, <1>8, StoredErased DEF CancelSession
<1>9. CASE Destroy \/ Crash
  <2>1. UNCHANGED final /\ contexts' = [id \in Ids |-> None] BY <1>9 DEF Destroy, Crash
  <2>2. QED BY <1>1, <2>1 DEF Stored, HasSession
<1>10. CASE UNCHANGED <<contexts, heap, temp, final>>
  BY <1>0, <1>1, <1>10, StoredSame
<1>11. QED
  BY <1>2, <1>3, <1>4, <1>5, <1>6, <1>7, <1>8, <1>9, <1>10
  DEF Next, ThreadStep, vars, LookupContext, ProcessChunkInFreedContext

LEMMA IntactInit == Init => IntactInv
BY DEF Init, IntactInv, Stored, HasSession, FinalFileIntact, NoFinal

(* Every file finalize publishes is the sender's, whether a hash was given  *)
(* or not, unless a chunk with a wrong offset, a pointer that outlived its  *)
(* session or a lossy close spoiled it: for any threads, sessions, chunks   *)
(* and callers, with failed writes and renames and crashes.                 *)
THEOREM PublishedFilesAreIntact == Spec => []FinalFileIntact
<1>1. TInv /\ FInv /\ Owned /\ IntactInv /\ [Next]_vars => IntactInv'
  BY IntactStep
<1>2. IntactInv => FinalFileIntact
  BY DEF IntactInv
<1>3. QED BY <1>1, <1>2, IntactInit, OwnedAlways, PTL DEF Spec
=============================================================================
