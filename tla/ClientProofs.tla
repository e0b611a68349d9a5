----------------------------- MODULE ClientProofs -----------------------------
(***************************************************************************)
(* The client.  A download reported as complete has every chunk, for any   *)
(* number of threads and chunks, though cancel_download removes the        *)
(* temporary file without a lock.  A batch counts its files as their       *)
(* results say, and stays cancelled, for any threads, batches and          *)
(* transfers, though its operations go through the transfers one by one.   *)
(***************************************************************************)
EXTENDS ClientDownload, ClientTransfers, FiniteSetTheorems, SequenceTheorems, TLAPS

Contents == (SUBSET Nat) \cup {None}
Places   == {"idle", "metadata", "chunk", "finalize", "move", "pausing", "resuming", "remove",
             "remove_unlock", "unlock", "waiting"} \cup UserCalls

Types ==
  /\ total \in Nat /\ temp \in Contents /\ local \in Contents
  /\ call \in [Threads -> [at : Places, chunk : Nat]]
  /\ results \in Seq([success : BOOLEAN, known : BOOLEAN, local : Contents])

(* Between the comparison of the hash and the move finalize_download holds  *)
(* the context's mutex; the temporary file stays what it compared, or goes. *)
Verified ==
  \A t \in Threads : At(t, "move") =>
    /\ ctxlock = t
    /\ VerifyHash /\ total > 0 => temp \in {Indexes, None}

VInv == Types /\ Verified /\ CompletedIntact

-----------------------------------------------------------------------------
\* What is told of a download is told once, and the earlier results stay.
LEMMA Told ==
  ASSUME VInv, NEW success \in BOOLEAN, local' \in Contents, Tell(success),
         VerifyHash /\ success /\ total > 0 => local' = Indexes
  PROVE  /\ results' \in Seq([success : BOOLEAN, known : BOOLEAN, local : Contents])
         /\ CompletedIntact'
<1> DEFINE R == [success : BOOLEAN, known : BOOLEAN, local : Contents]
           r == [success |-> success, known |-> total > 0, local |-> local']
<1>1. results \in Seq(R) /\ results' = Append(results, r) BY DEF VInv, Types, Tell
<1>2. r \in R /\ (VerifyHash => (r.success /\ r.known => r.local = Indexes))
  <2>1. (total > 0) \in BOOLEAN BY DEF VInv, Types
  <2>2. r \in R BY <2>1
  <2>3. r.success = success /\ r.known = (total > 0) /\ r.local = local' OBVIOUS
  <2>4. VerifyHash => (r.success /\ r.known => r.local = Indexes)
    <3> HIDE DEF r
    <3>1. QED BY <2>3
  <2>5. QED BY <2>2, <2>4
<1> HIDE DEF r, R
<1>3. /\ results' \in Seq(R) /\ Len(results) \in Nat /\ Len(results') = Len(results) + 1
      /\ \A k \in 1..Len(results) : results'[k] = results[k]
      /\ results'[Len(results) + 1] = r
  BY <1>1, <1>2, AppendProperties, LenProperties
<1>4. DOMAIN results = 1..Len(results) /\ DOMAIN results' = 1..(Len(results) + 1)
  BY <1>1, <1>3, LenProperties
<1>5. ASSUME VerifyHash, NEW k \in DOMAIN results', results'[k].success, results'[k].known
      PROVE  results'[k].local = Indexes
  <2>1. CASE k = Len(results) + 1 BY <1>2, <1>3, <1>5, <2>1
  <2>2. CASE k # Len(results) + 1
    <3>1. k \in DOMAIN results /\ results'[k] = results[k] BY <1>3, <1>4, <1>5, <2>2
    <3>2. QED BY <1>5, <3>1 DEF VInv, CompletedIntact
  <2>3. QED BY <2>1, <2>2
<1>6. QED BY <1>3, <1>5 DEF CompletedIntact, R

\* The ways a call goes on: nobody but the caller enters or leaves the move.
LEMMA Goes ==
  ASSUME Types, NEW t \in Threads, NEW at \in Places,
         \/ Goto(t, at)
         \/ at = "idle" /\ (Return(t) \/ NotifyAndReturn(t))
  PROVE  /\ call' \in [Threads -> [at : Places, chunk : Nat]] /\ call'[t].at = at
         /\ \A u \in Threads : u # t => (At(u, "move")' => At(u, "move"))
<1>1. call \in [Threads -> [at : Places, chunk : Nat]] BY DEF Types
<1>2. Idle \in [at : Places, chunk : Nat] /\ Idle.at = "idle" BY DEF Idle, Places
<1>3. CASE Goto(t, at) BY <1>1, <1>3 DEF Goto, At
<1>4. CASE at = "idle" /\ Return(t) BY <1>1, <1>2, <1>4 DEF Return, At
<1>5. CASE at = "idle" /\ NotifyAndReturn(t)
  <2> DEFINE woken(u) == [call[u] EXCEPT !.at = "wait"]
  <2>1. \A u \in Threads : woken(u) \in [at : Places, chunk : Nat] /\ woken(u).at = "wait"
    BY <1>1 DEF Places, UserCalls
  <2>2. call' = [u \in Threads |-> IF u = t THEN Idle ELSE IF call[u].at = "waiting" THEN woken(u) ELSE call[u]]
    BY <1>5 DEF NotifyAndReturn
  <2> HIDE DEF woken
  <2>3. QED BY <1>1, <1>2, <1>5, <2>1, <2>2 DEF At
<1>6. QED BY <1>3, <1>4, <1>5

\* While nobody holds the context's mutex, or one not in the move does, nobody is in the move.
LEMMA NobodyMoves ==
  ASSUME Verified, ctxlock = None \/ \E t \in Threads : ctxlock = t /\ ~At(t, "move")
  PROVE  \A u \in Threads : ~At(u, "move")
BY ConstantsAssumption DEF Verified

LEMMA StepKeepsVInv ==
  ASSUME VInv, NEW t \in Threads, Step(t) \/ Call(t)
  PROVE  VInv'
<1>0. Types /\ Verified /\ CompletedIntact BY DEF VInv
<1> DEFINE T == [at : Places, chunk : Nat]
<1>1. UNCHANGED results => CompletedIntact'
  BY <1>0 DEF CompletedIntact
<1>2. ASSUME NEW where \in Places \ {"move"}, NEW i \in Nat, Enter(t, where, i)
      PROVE  VInv'
  <2>1. /\ call' = [call EXCEPT ![t] = [at |-> where, chunk |-> i]]
        /\ UNCHANGED <<total, ctxlock, temp, local, results>>
    BY <1>2 DEF Enter, context, locks, files
  <2>2. call' \in [Threads -> T] BY <1>0, <2>1 DEF Types
  <2>3. \A u \in Threads : At(u, "move")' => At(u, "move")
    BY <1>0, <1>2, <2>1 DEF At, Types
  <2>4. Verified' BY <1>0, <2>1, <2>3 DEF Verified
  <2>5. QED BY <1>0, <1>1, <2>1, <2>2, <2>4 DEF VInv, Types
<1>3. CASE Call(t)
  <2>1. Indexes \subseteq Nat /\ 0 \in Nat /\ UserCalls \subseteq Places \ {"move"}
    BY DEF Indexes, Places, UserCalls
  <2>2. "metadata" \in Places \ {"move"} /\ "chunk" \in Places \ {"move"} BY DEF Places
  <2>3. QED BY <1>2, <1>3, <2>1, <2>2 DEF Call, CallMetadata, CallChunk, CallAgain, CallOther
<1>4. ASSUME NEW at \in Places \ {"move"}, Goto(t, at) \/ (at = "idle" /\ (Return(t) \/ NotifyAndReturn(t))),
             UNCHANGED <<local, results>>, temp' \in Contents, total' \in Nat,
             \/ ctxlock = None
             \/ ctxlock = t /\ ~At(t, "move")
             \/ UNCHANGED <<ctxlock, total>> /\ (temp' = temp \/ temp' = None)
      PROVE  VInv'
  <2>1. call' \in [Threads -> T] /\ \A u \in Threads : At(u, "move")' => At(u, "move")
    BY <1>0, <1>4, Goes DEF At
  <2>2. Verified'
    <3>1. CASE ctxlock = None \/ (ctxlock = t /\ ~At(t, "move"))
      BY <1>0, <2>1, <3>1, NobodyMoves DEF Verified
    <3>2. CASE UNCHANGED <<ctxlock, total>> /\ (temp' = temp \/ temp' = None)
      BY <1>0, <2>1, <3>2 DEF Verified
    <3>3. QED BY <1>4, <3>1, <3>2
  <2>3. QED BY <1>0, <1>1, <1>4, <2>1, <2>2 DEF VInv, Types
<1>5. /\ {"idle", "finalize", "pausing", "resuming", "unlock", "waiting"} \subseteq Places \ {"move"}
      /\ None \in Contents /\ {} \in Contents
  BY DEF Places, Contents
<1>6. CASE SetDownloadMetadata(t)
  BY <1>0, <1>4, <1>5, <1>6, ConstantsAssumption DEF SetDownloadMetadata, Types
<1>7. CASE ChunkRefused(t)
  <2>1. Opened \in Contents BY <1>0 DEF Opened, Types, Contents
  <2>2. temp' \in Contents BY <1>0, <1>7, <2>1 DEF ChunkRefused, Types
  <2>3. QED BY <1>0, <1>4, <1>5, <1>7, <2>2 DEF ChunkRefused, context, Types
<1>8. CASE ChunkStored(t)
  <2>1. Opened \in SUBSET Nat /\ call[t].chunk \in Nat
    BY <1>0 DEF Opened, Types, Contents
  <2>2. temp' \in Contents BY <1>8, <2>1 DEF ChunkStored, Stored, Contents
  <2>3. QED BY <1>0, <1>4, <1>5, <1>8, <2>2 DEF ChunkStored, Types
<1>9. CASE FinalizeVerify(t)
  <2>1. \A u \in Threads : ~At(u, "move") BY <1>0, <1>9, NobodyMoves DEF FinalizeVerify
  <2>2. CASE Return(t) /\ Tell(FALSE) /\ temp' = None /\ UNCHANGED local
    <3>1. call' \in [Threads -> T] /\ \A u \in Threads : ~At(u, "move")'
      BY <1>0, <1>5, <2>1, <2>2, Goes DEF At
    <3>2. local' \in Contents BY <1>0, <2>2 DEF Types
    <3>3. /\ results' \in Seq([success : BOOLEAN, known : BOOLEAN, local : Contents])
          /\ CompletedIntact'
      BY <2>2, <3>2, Told
    <3>4. total' \in Nat BY <1>0, <1>9 DEF FinalizeVerify, Types
    <3>5. QED BY <1>5, <2>2, <3>1, <3>2, <3>3, <3>4 DEF VInv, Types, Verified
  <2>3. CASE /\ ~(VerifyHash /\ total > 0 /\ temp # Indexes) /\ ctxlock' = t /\ Goto(t, "move")
             /\ UNCHANGED <<files, results>>
    <3>1. "move" \in Places BY DEF Places
    <3>2. call' \in [Threads -> T] /\ \A u \in Threads : At(u, "move")' => u = t
      BY <1>0, <2>1, <2>3, <3>1, Goes
    <3>3. total' = total /\ temp' = temp BY <1>9, <2>3 DEF FinalizeVerify, files
    <3>4. Verified' BY <2>3, <3>2, <3>3 DEF Verified
    <3>5. QED BY <1>0, <1>1, <2>3, <3>2, <3>3, <3>4 DEF VInv, Types, files
  <2>4. QED BY <1>9, <2>2, <2>3 DEF FinalizeVerify
<1>10. CASE FinalizeThrows(t)
  <2>1. ~At(t, "move") BY <1>10 DEF FinalizeThrows, At
  <2>2. QED BY <1>0, <1>4, <1>5, <1>10, <2>1 DEF FinalizeThrows, context, files, Types
<1>11. CASE FinalizeMove(t)
  <2>1. At(t, "move") /\ ctxlock = t /\ (VerifyHash /\ total > 0 => temp \in {Indexes, None})
    BY <1>0, <1>11 DEF FinalizeMove, Verified
  <2>2. \A u \in Threads : At(u, "move") => u = t BY <1>0, <2>1 DEF Verified
  <2>3. Return(t) \/ NotifyAndReturn(t) BY <1>11 DEF FinalizeMove
  <2>4. call' \in [Threads -> T] /\ \A u \in Threads : ~At(u, "move")'
    BY <1>0, <1>5, <2>2, <2>3, Goes DEF At
  <2>5. temp' \in Contents /\ local' \in Contents /\ total' \in Nat
    BY <1>0, <1>5, <1>11 DEF FinalizeMove, Types
  <2>6. \/ Tell(TRUE) /\ temp # None /\ local' = temp
        \/ Tell(FALSE)
    BY <1>11 DEF FinalizeMove
  <2>7. /\ results' \in Seq([success : BOOLEAN, known : BOOLEAN, local : Contents])
        /\ CompletedIntact'
    <3>1. CASE Tell(TRUE) /\ temp # None /\ local' = temp
      BY <2>1, <2>5, <3>1, Told
    <3>2. CASE Tell(FALSE) BY <2>5, <3>2, Told
    <3>3. QED BY <2>6, <3>1, <3>2
  <2>8. QED BY <2>4, <2>5, <2>7 DEF VInv, Types, Verified
<1>12. CASE LockMap(t)
  BY <1>0, <1>4, <1>5, <1>12 DEF LockMap, context, files, Types
<1>13. CASE PauseTransfer(t)
  BY <1>0, <1>4, <1>5, <1>13 DEF PauseTransfer, files, Types
<1>14. CASE ResumeTransfer(t)
  BY <1>0, <1>4, <1>5, <1>14 DEF ResumeTransfer, files, Types
<1>15. CASE CancelDownload(t)
  <2> DEFINE removing == [call[t] EXCEPT !.at = IF @ = "cancel_download" THEN "remove" ELSE "remove_unlock"]
             woken(u) == [call[u] EXCEPT !.at = "wait"]
  <2>1. /\ removing \in T /\ removing.at # "move"
        /\ \A u \in Threads : woken(u) \in T /\ woken(u).at # "move"
    BY <1>0 DEF Types, Places, UserCalls
  <2>2. call' = [u \in Threads |-> IF u = t THEN removing ELSE IF call[u].at = "waiting" THEN woken(u) ELSE call[u]]
    BY <1>15 DEF CancelDownload
  <2> HIDE DEF removing, woken
  <2>3. \A u \in Threads : ~At(u, "move") BY <1>0, <1>15, NobodyMoves DEF CancelDownload
  <2>4. call' \in [Threads -> T] BY <1>0, <2>1, <2>2 DEF Types
  <2>5. \A u \in Threads : ~At(u, "move")' BY <2>1, <2>2, <2>3 DEF At
  <2>6. UNCHANGED <<total, temp, local, results>> BY <1>15 DEF CancelDownload, files
  <2>7. QED BY <1>0, <1>1, <2>4, <2>5, <2>6 DEF VInv, Types, Verified
<1>16. CASE CancelRemoves(t)
  BY <1>0, <1>4, <1>5, <1>16 DEF CancelRemoves, context, locks, Types
<1>17. CASE UnlockAgain(t)
  BY <1>0, <1>4, <1>5, <1>17 DEF UnlockAgain, context, files, Types
<1>18. CASE WaitForTransfer(t)
  BY <1>0, <1>4, <1>5, <1>18 DEF WaitForTransfer, context, locks, files, Types
<1>19. QED
  BY <1>3, <1>6, <1>7, <1>8, <1>9, <1>10, <1>11, <1>12, <1>13, <1>14, <1>15, <1>16, <1>17, <1>18 DEF Step

LEMMA VInvAlways == Spec => []VInv
<1>1. Init => VInv
  <2> SUFFICES ASSUME Init PROVE VInv OBVIOUS
  <2>1. Types BY DEF Init, Types, Contents, Places, Idle, Old
  <2>2. Verified /\ CompletedIntact BY DEF Init, Verified, CompletedIntact, At, Idle
  <2>3. QED BY <2>1, <2>2 DEF VInv
<1>2. VInv /\ [Next]_vars => VInv'
  <2> SUFFICES ASSUME VInv, [Next]_vars PROVE VInv' OBVIOUS
  <2>1. CASE Next BY <2>1, StepKeepsVInv DEF Next
  <2>2. CASE UNCHANGED vars BY <2>2 DEF vars, VInv, Types, Verified, CompletedIntact, At
  <2>3. QED BY <2>1, <2>2
<1>3. QED BY <1>1, <1>2, PTL DEF Spec

(* With verification on and the hash known, complete_callback reports      *)
(* success only with every chunk in the file, for any threads and chunks:  *)
(* finalize_download holds the context's mutex from the comparison to the  *)
(* move, and cancel_download can only make the move fail.                  *)
THEOREM CompletedAreIntact == Spec => []CompletedIntact
<1>1. VInv => CompletedIntact BY DEF VInv
<1>2. QED BY <1>1, VInvAlways, PTL

-----------------------------------------------------------------------------
(* Batches.  The contexts of transfers and batches, and the calls.         *)
Runs      == {"transferring", "paused", "cancelled"}
States    == {"initializing", "transferring", "paused", "verifying", "completing"} \cup Terminal
Contexts  == {c \in [dir : {"up", "down"}, state : States, cancelled : BOOLEAN] : c.dir = "up" => c.state \in Runs}
Batches   == [dir : {"up", "down"}, ids : Seq(Nat), completed : Nat, failed : Nat, running : Nat,
              results : Seq({NotStarted, Succeeded, Failed}), cancelled : BOOLEAN, paused : BOOLEAN]

Simple  == {"idle", "connecting", "starting", "stopping"}
Changes == {"pause", "resume", "cancel"}
Waiting == {"next", "wait", "asleep"}
SimpleOps == [pc : Simple]
FillOps   == [pc : {"fill"}, batch : Batches, n : Nat, max : Nat, i : Nat, continue : BOOLEAN]
ChangeOps == [pc : Changes, b : Nat, i : Nat, go : BOOLEAN]
WaitOps   == [pc : Waiting, b : Nat, i : Nat, id : Nat, timed : BOOLEAN]
Ops == SimpleOps \cup FillOps \cup ChangeOps \cup WaitOps

\* The entries of a batch that stand for a transfer: each has a result, and is a transfer of the batch's direction.
Entries(x)  == {j \in DOMAIN x.ids : x.ids[j] # 0}
Fits(x, ts) == \A j \in Entries(x) : /\ j \in DOMAIN x.results /\ x.ids[j] \in DOMAIN ts
                                     /\ ts[x.ids[j]].dir = x.dir

Having(x, r) == {j \in DOMAIN x.results : x.results[j] = r}
Tallied(x)   == x.completed = Cardinality(Having(x, Succeeded)) /\ x.failed = Cardinality(Having(x, Failed))
\* No result yet for an entry from i on.
Unread(x, i) == \A j \in Entries(x) : j >= i => x.results[j] = NotStarted

\* The transfers of the entries before i are cancelled.
CancelledTo(x, i, ts) == \A j \in Entries(x) : j < i => ts[x.ids[j]].state = "cancelled"
Cancelled(x, ts)      == x.dir = "up" => \A j \in Entries(x) : ts[x.ids[j]].state = "cancelled"

FillHolds(o, ts) ==
  /\ Fits(o.batch, ts) /\ Tallied(o.batch) /\ Unread(o.batch, 1)
  /\ Len(o.batch.ids) + 1 = o.i /\ o.i <= o.n + 1 /\ Len(o.batch.results) = o.n
  /\ \A j \in o.i..o.n : o.batch.results[j] = NotStarted
ChangeHolds(o, ts, bs) ==
  /\ o.b \in DOMAIN bs /\ o.i >= 1
  /\ o.go => o.i \in Entries(bs[o.b])
  /\ o.pc = "cancel" /\ bs[o.b].dir = "up" => CancelledTo(bs[o.b], o.i, ts)
WaitHolds(o, bs, ws) ==
  /\ o.b \in DOMAIN bs /\ o.i >= 1 /\ ws[o.b] >= 1
  /\ o.pc # "next" => o.i \in Entries(bs[o.b]) /\ o.id = bs[o.b].ids[o.i]
  /\ ws[o.b] = 1 => Unread(bs[o.b], o.i)
OpHolds(o, ts, bs, ws) ==
  /\ o.pc = "fill" => FillHolds(o, ts)
  /\ o.pc \in Changes => ChangeHolds(o, ts, bs)
  /\ o.pc \in Waiting => WaitHolds(o, bs, ws)
BatchHolds(x, w, ts) ==
  /\ Fits(x, ts)
  /\ w <= 1 => Tallied(x)
  /\ w = 0 => Unread(x, 1)

TType ==
  /\ transfers \in Seq(Contexts) /\ batches \in Seq(Batches) /\ waits \in Seq(Nat) /\ Len(waits) = Len(batches)
  /\ op \in [Threads -> Ops] /\ gone \subseteq DOMAIN batches
BatchesHold == \A b \in DOMAIN batches : BatchHolds(batches[b], waits[b], transfers)
OpsHold     == \A t \in Threads : OpHolds(op[t], transfers, batches, waits)
\* Who waits for a batch that was waited for once is alone.
AloneIn(o)  == \A t, u \in Threads :
  o[t].pc \in Waiting /\ o[u].pc \in Waiting /\ o[t].b = o[u].b /\ waits[o[t].b] = 1 => t = u
OneWaits    == AloneIn(op)
GoneHold    == \A b \in gone : Cancelled(batches[b], transfers)

TInv == TType /\ BatchesHold /\ OpsHold /\ OneWaits /\ GoneHold

-----------------------------------------------------------------------------
(* Transfers are added and go on, and an upload that was cancelled stays so. *)
GoOn(ts, us) ==
  /\ us \in Seq(Contexts) /\ Len(ts) <= Len(us)
  /\ \A id \in DOMAIN ts : /\ us[id].dir = ts[id].dir
                           /\ ts[id].dir = "up" /\ ts[id].state = "cancelled" => us[id].state = "cancelled"

Woken(o, p) == p = o \/ (o.pc = "asleep" /\ p = [o EXCEPT !.pc = "wait"])
\* Batches are added, and keep their entries and how many results they have.
SameFiles(x, y) == y.dir = x.dir /\ y.ids = x.ids /\ DOMAIN y.results = DOMAIN x.results
Kept(bs, cs)    == /\ cs \in Seq(Batches) /\ Len(bs) <= Len(cs)
                   /\ \A b \in DOMAIN bs : SameFiles(bs[b], cs[b])

LEMMA OpKinds ==
  ASSUME NEW o \in Ops
  PROVE  /\ o.pc \in Simple \cup {"fill"} \cup Changes \cup Waiting
         /\ o.pc \in Simple => o \in SimpleOps
         /\ o.pc = "fill" => o \in FillOps
         /\ o.pc \in Changes => o \in ChangeOps
         /\ o.pc \in Waiting => o \in WaitOps
<1> USE DEF Simple, Changes, Waiting
<1>1. CASE o \in SimpleOps  BY <1>1 DEF SimpleOps
<1>2. CASE o \in FillOps    BY <1>2 DEF FillOps
<1>3. CASE o \in ChangeOps  BY <1>3 DEF ChangeOps
<1>4. CASE o \in WaitOps    BY <1>4 DEF WaitOps
<1> QED BY <1>1, <1>2, <1>3, <1>4 DEF Ops

LEMMA GoOnSame ==
  ASSUME NEW ts \in Seq(Contexts)
  PROVE  GoOn(ts, ts)
BY DEF GoOn

LEMMA KeptSame ==
  ASSUME NEW bs \in Seq(Batches)
  PROVE  Kept(bs, bs)
BY DEF Kept, SameFiles

LEMMA Domains ==
  ASSUME NEW S, NEW s \in Seq(S)
  PROVE  /\ DOMAIN s = 1..Len(s) /\ Len(s) \in Nat
         /\ \A i \in DOMAIN s : s[i] \in S /\ i \in Nat /\ i >= 1
OBVIOUS

LEMMA FitsGoOn ==
  ASSUME NEW ts \in Seq(Contexts), NEW us, GoOn(ts, us), NEW x, NEW y, SameFiles(x, y), Fits(x, ts)
  PROVE  Fits(y, us)
<1>1. DOMAIN ts \subseteq DOMAIN us
  BY DEF GoOn
<1>2. Entries(y) = Entries(x)
  BY DEF SameFiles, Entries
<1> QED BY <1>1, <1>2 DEF GoOn, Fits, SameFiles

LEMMA CancelledGoesOn ==
  ASSUME NEW ts \in Seq(Contexts), NEW us, GoOn(ts, us), NEW x, NEW y, SameFiles(x, y), Fits(x, ts), x.dir = "up"
  PROVE  \A j \in Entries(y) : /\ j \in Entries(x) /\ y.ids[j] = x.ids[j]
                               /\ ts[x.ids[j]].state = "cancelled" => us[y.ids[j]].state = "cancelled"
<1>2. Entries(y) = Entries(x)
  BY DEF SameFiles, Entries
<1> QED BY <1>2 DEF GoOn, Fits, SameFiles

LEMMA WokenKinds ==
  ASSUME NEW o \in Ops, NEW p, Woken(o, p)
  PROVE  /\ p \in Ops
         /\ p.pc \in Waiting <=> o.pc \in Waiting
         /\ p.pc \in Waiting => p.b = o.b /\ p.i = o.i /\ p.id = o.id /\ (p.pc = "next" <=> o.pc = "next")
         /\ p.pc \notin Waiting => p = o
<1>1. CASE p = o
  BY <1>1
<1>2. CASE o.pc = "asleep" /\ p = [o EXCEPT !.pc = "wait"]
  <2>1. o \in WaitOps
    BY <1>2, OpKinds DEF Waiting
  <2>2. /\ p \in WaitOps /\ p.pc = "wait" /\ p.b = o.b /\ p.i = o.i /\ p.id = o.id
    BY <1>2, <2>1 DEF WaitOps, Waiting
  <2> QED BY <1>2, <2>2 DEF Ops, Waiting
<1> QED BY <1>1, <1>2 DEF Woken

(* What holds of a call still does after a step of another thread. *)
LEMMA OpGoesOn ==
  ASSUME NEW ts \in Seq(Contexts), NEW us, GoOn(ts, us),
         NEW bs \in Seq(Batches), NEW cs, Kept(bs, cs),
         NEW ws \in Seq(Nat), NEW vs \in Seq(Nat), Len(ws) = Len(bs), Len(vs) = Len(cs),
         \A b \in DOMAIN bs : vs[b] >= ws[b] /\ Fits(bs[b], ts),
         NEW o \in Ops, NEW p, Woken(o, p), OpHolds(o, ts, bs, ws),
         o.pc \in Waiting /\ vs[o.b] = 1 => cs[o.b].results = bs[o.b].results
  PROVE  OpHolds(p, us, cs, vs)
<1>d. DOMAIN bs \subseteq DOMAIN cs /\ DOMAIN bs = DOMAIN ws
  BY DEF Kept
<1>e. \A b \in DOMAIN bs : Entries(cs[b]) = Entries(bs[b]) /\ cs[b].ids = bs[b].ids /\ cs[b].dir = bs[b].dir
  BY DEF Kept, SameFiles, Entries
<1>w. /\ p \in Ops
      /\ p.pc \in Waiting <=> o.pc \in Waiting
      /\ p.pc \in Waiting => p.b = o.b /\ p.i = o.i /\ p.id = o.id /\ (p.pc = "next" <=> o.pc = "next")
      /\ p.pc \notin Waiting => p = o
  BY WokenKinds
<1>1. ASSUME p.pc = "fill"
      PROVE  FillHolds(p, us)
  <2>1. p = o /\ FillHolds(o, ts)
    BY <1>1, <1>w DEF Waiting, OpHolds
  <2>2. Fits(o.batch, us)
    BY <2>1, FitsGoOn DEF FillHolds, SameFiles
  <2> QED BY <2>1, <2>2 DEF FillHolds
<1>2. ASSUME p.pc \in Changes
      PROVE  ChangeHolds(p, us, cs)
  <2>1. p = o /\ ChangeHolds(o, ts, bs)
    BY <1>2, <1>w DEF Waiting, Changes, OpHolds
  <2>2. o.b \in DOMAIN bs /\ Fits(bs[o.b], ts) /\ SameFiles(bs[o.b], cs[o.b])
    BY <2>1 DEF ChangeHolds, Kept
  <2>3. ASSUME o.pc = "cancel", cs[o.b].dir = "up"
        PROVE  CancelledTo(cs[o.b], o.i, us)
    <3>1. CancelledTo(bs[o.b], o.i, ts) /\ bs[o.b].dir = "up"
      BY <2>1, <2>2, <2>3, <1>e DEF ChangeHolds
    <3> DEFINE x == bs[o.b]
               y == cs[o.b]
    <3>2. \A j \in Entries(y) : /\ j \in Entries(x) /\ y.ids[j] = x.ids[j]
                                /\ ts[x.ids[j]].state = "cancelled" => us[y.ids[j]].state = "cancelled"
      <4>1. SameFiles(x, y) /\ Fits(x, ts) /\ x.dir = "up"
        BY <2>2, <3>1
      <4> HIDE DEF x, y
      <4> QED BY <4>1, CancelledGoesOn
    <3>3. \A j \in Entries(bs[o.b]) : j < o.i => ts[bs[o.b].ids[j]].state = "cancelled"
      BY <3>1 DEF CancelledTo
    <3>4. \A j \in Entries(cs[o.b]) : j < o.i => us[cs[o.b].ids[j]].state = "cancelled"
      BY <3>2, <3>3
    <3> QED BY <3>4 DEF CancelledTo
  <2> QED BY <1>d, <1>e, <2>1, <2>2, <2>3 DEF ChangeHolds
<1>3. ASSUME p.pc \in Waiting
      PROVE  WaitHolds(p, cs, vs)
  <2>1. WaitHolds(o, bs, ws) /\ p.b = o.b /\ p.i = o.i /\ p.id = o.id /\ (p.pc = "next" <=> o.pc = "next")
    BY <1>3, <1>w DEF OpHolds
  <2>2. o.b \in DOMAIN bs /\ ws[o.b] >= 1 /\ ws[o.b] \in Nat /\ vs[o.b] \in Nat /\ vs[o.b] >= ws[o.b]
    BY <2>1, <1>d DEF WaitHolds, Kept
  <2>3. vs[o.b] >= 1 /\ (vs[o.b] = 1 => ws[o.b] = 1)
    BY <2>2
  <2>4. vs[o.b] = 1 => Unread(cs[o.b], o.i)
    BY <1>3, <1>w, <2>1, <2>2, <2>3, <1>e DEF WaitHolds, Unread
  <2> QED BY <1>d, <1>e, <2>1, <2>2, <2>3, <2>4 DEF WaitHolds
<1> QED BY <1>1, <1>2, <1>3 DEF OpHolds
-----------------------------------------------------------------------------
(* The steps, by what they may disturb.                                    *)
OthersGoOn(t) == op' \in [Threads -> Ops] /\ \A u \in Threads \ {t} : Woken(op[u], op'[u])
Grows  == GoOn(transfers, transfers') /\ Kept(batches, batches')
          /\ waits' \in Seq(Nat) /\ Len(waits') = Len(batches')
          /\ \A b \in DOMAIN batches : waits'[b] >= waits[b]
\* Nobody else's wait loses its results.
Minds(t) == \A u \in Threads \ {t} :
  op[u].pc \in Waiting /\ waits'[op[u].b] = 1 => batches'[op[u].b].results = batches[op[u].b].results
OwnHolds(t) == OpHolds(op'[t], transfers', batches', waits')
GoneGrows   == gone' = gone
WaitsOn(t)  == /\ op'[t].pc \in Waiting => op[t].pc \in Waiting /\ op'[t].b = op[t].b
               /\ \A b \in DOMAIN batches : waits'[b] = waits[b]

LEMMA OpsHoldOn ==
  ASSUME TInv, NEW t, Grows, OthersGoOn(t), Minds(t), t \in Threads => OwnHolds(t)
  PROVE  OpsHold'
<1>1. ASSUME NEW u \in Threads, u # t
      PROVE  OpHolds(op'[u], transfers', batches', waits')
  <2>1. /\ transfers \in Seq(Contexts) /\ batches \in Seq(Batches) /\ waits \in Seq(Nat) /\ Len(waits) = Len(batches)
        /\ op[u] \in Ops
    BY DEF TInv, TType
  <2>2. \A b \in DOMAIN batches : waits'[b] >= waits[b] /\ Fits(batches[b], transfers)
    BY DEF TInv, BatchesHold, BatchHolds, Grows
  <2>3. Woken(op[u], op'[u]) /\ OpHolds(op[u], transfers, batches, waits)
    BY <1>1 DEF OthersGoOn, TInv, OpsHold
  <2>4. op[u].pc \in Waiting /\ waits'[op[u].b] = 1 => batches'[op[u].b].results = batches[op[u].b].results
    BY <1>1 DEF Minds
  <2> QED BY <2>1, <2>2, <2>3, <2>4, OpGoesOn DEF Grows
<1> QED BY <1>1 DEF OpsHold, OwnHolds

LEMMA GoneHoldOn ==
  ASSUME TInv, Grows, NEW b \in gone
  PROVE  b \in DOMAIN batches' /\ Cancelled(batches'[b], transfers')
<1>1. b \in DOMAIN batches /\ Cancelled(batches[b], transfers) /\ Fits(batches[b], transfers)
  BY DEF TInv, TType, GoneHold, BatchesHold, BatchHolds
<1>2. SameFiles(batches[b], batches'[b]) /\ b \in DOMAIN batches'
  BY <1>1 DEF TInv, TType, Grows, Kept
<1>3. ASSUME batches'[b].dir = "up"
      PROVE  \A j \in Entries(batches'[b]) : transfers'[batches'[b].ids[j]].state = "cancelled"
  <2>1. batches[b].dir = "up" /\ transfers \in Seq(Contexts) /\ GoOn(transfers, transfers')
    BY <1>2, <1>3 DEF SameFiles, TInv, TType, Grows
  <2>2. \A j \in Entries(batches'[b]) :
           /\ j \in Entries(batches[b]) /\ batches'[b].ids[j] = batches[b].ids[j]
           /\ transfers[batches[b].ids[j]].state = "cancelled" => transfers'[batches'[b].ids[j]].state = "cancelled"
    BY <1>1, <1>2, <2>1, CancelledGoesOn
  <2> QED BY <1>1, <2>1, <2>2 DEF Cancelled
<1> QED BY <1>2, <1>3 DEF Cancelled

(* Who waits is the same as before, on batches waited for as often.        *)
LEMMA OneWaitsOn ==
  ASSUME TInv, NEW t, OthersGoOn(t), Grows, t \in Threads => WaitsOn(t), t \notin Threads => UNCHANGED waits
  PROVE  OneWaits'
<1>1. ASSUME NEW u \in Threads, op'[u].pc \in Waiting
      PROVE  /\ op[u].pc \in Waiting /\ op'[u].b = op[u].b /\ waits'[op[u].b] = waits[op[u].b]
  <2>1. op[u].pc \in Waiting /\ op'[u].b = op[u].b
    <3>1. CASE u = t
      BY <1>1, <3>1 DEF WaitsOn
    <3>2. CASE u # t
      <4>1. op[u] \in Ops /\ Woken(op[u], op'[u])
        BY <3>2 DEF TInv, TType, OthersGoOn
      <4> QED BY <1>1, <4>1, WokenKinds
    <3> QED BY <3>1, <3>2
  <2>2. op[u].b \in DOMAIN batches
    BY <2>1 DEF TInv, OpsHold, OpHolds, WaitHolds
  <2> QED BY <2>1, <2>2 DEF WaitsOn
<1>2. AloneIn(op)
  BY DEF TInv, OneWaits
<1>3. SUFFICES ASSUME NEW u \in Threads, NEW v \in Threads,
                      op'[u].pc \in Waiting, op'[v].pc \in Waiting, op'[u].b = op'[v].b, waits'[op'[u].b] = 1
               PROVE  u = v
  BY DEF OneWaits, AloneIn
<1> QED BY <1>1, <1>2, <1>3 DEF AloneIn

(* A step that changes transfers and a call, and no batch. *)
Works(t) ==
  /\ GoOn(transfers, transfers') /\ UNCHANGED <<batches, waits, gone>>
  /\ OthersGoOn(t)
  /\ t \in Threads => OwnHolds(t) /\ (op'[t].pc \in Waiting => op[t].pc \in Waiting /\ op'[t].b = op[t].b)

LEMMA WorksKeeps ==
  ASSUME TInv, NEW t, Works(t)
  PROVE  TInv'
<1>1. Grows
  BY KeptSame DEF Grows, Works, TInv, TType
<1>2. OthersGoOn(t) /\ Minds(t) /\ (t \in Threads => OwnHolds(t) /\ WaitsOn(t))
  BY DEF Works, Minds, WaitsOn
<1>3. TType'
  BY DEF TType, TInv, Works, OthersGoOn, GoOn
<1>4. OpsHold'
  BY <1>1, <1>2, OpsHoldOn
<1>5. OneWaits'
  BY <1>1, <1>2, OneWaitsOn DEF Works
<1>6. GoneHold'
  BY <1>1, GoneHoldOn DEF GoneHold, Works
<1>7. BatchesHold'
  <2>1. ASSUME NEW b \in DOMAIN batches
        PROVE  BatchHolds(batches[b], waits[b], transfers')
    <3>1. BatchHolds(batches[b], waits[b], transfers) /\ transfers \in Seq(Contexts)
      BY DEF TInv, TType, BatchesHold
    <3>2. Fits(batches[b], transfers')
      BY <3>1, FitsGoOn DEF Works, SameFiles, BatchHolds
    <3> QED BY <3>1, <3>2 DEF BatchHolds
  <2> QED BY <2>1 DEF BatchesHold, Works
<1> QED BY <1>3, <1>4, <1>5, <1>6, <1>7 DEF TInv
-----------------------------------------------------------------------------
(* A batch is stored, with no wait of it begun. *)
Stores(t) == \E x \in Batches :
  /\ batches' = Append(batches, x) /\ waits' = Append(waits, 0)
  /\ Fits(x, transfers) /\ Tallied(x) /\ Unread(x, 1)
  /\ UNCHANGED <<transfers, gone>> /\ op' = [op EXCEPT ![t] = NoOp]

LEMMA StoresKeeps ==
  ASSUME TInv, NEW t \in Threads, Stores(t)
  PROVE  TInv'
<1>0. PICK x \in Batches :
        /\ batches' = Append(batches, x) /\ waits' = Append(waits, 0)
        /\ Fits(x, transfers) /\ Tallied(x) /\ Unread(x, 1)
        /\ UNCHANGED <<transfers, gone>> /\ op' = [op EXCEPT ![t] = NoOp]
  BY DEF Stores
<1>a. /\ transfers \in Seq(Contexts) /\ batches \in Seq(Batches) /\ waits \in Seq(Nat) /\ Len(waits) = Len(batches)
      /\ op \in [Threads -> Ops] /\ gone \subseteq DOMAIN batches
  BY DEF TInv, TType
<1>b. /\ batches' \in Seq(Batches) /\ waits' \in Seq(Nat) /\ Len(waits') = Len(batches')
      /\ Len(batches) <= Len(batches') /\ DOMAIN batches' = 1..(Len(batches) + 1)
      /\ DOMAIN batches = 1..Len(batches)
      /\ \A b \in DOMAIN batches : batches'[b] = batches[b] /\ waits'[b] = waits[b]
      /\ batches'[Len(batches) + 1] = x /\ waits'[Len(batches) + 1] = 0
  BY <1>0, <1>a
<1>c. NoOp \in Ops /\ NoOp.pc = "idle"
  BY DEF Ops, SimpleOps, Simple, NoOp
<1>1. Grows
  BY <1>0, <1>a, <1>b, GoOnSame DEF Grows, Kept, SameFiles
<1>2. OthersGoOn(t)
  BY <1>0, <1>a, <1>c DEF OthersGoOn, Woken
<1>3. Minds(t)
  <2>1. \A u \in Threads : op[u].pc \in Waiting => op[u].b \in DOMAIN batches
    BY DEF TInv, OpsHold, OpHolds, WaitHolds
  <2> QED BY <1>b, <2>1 DEF Minds
<1>4. op'[t] = NoOp /\ OwnHolds(t) /\ WaitsOn(t)
  BY <1>0, <1>a, <1>b, <1>c DEF OwnHolds, OpHolds, Changes, Waiting, WaitsOn
<1>5. TType'
  BY <1>0, <1>a, <1>b, <1>2 DEF TType, OthersGoOn
<1>6. OpsHold'
  BY <1>1, <1>2, <1>3, <1>4, OpsHoldOn
<1>7. OneWaits'
  BY <1>1, <1>2, <1>4, OneWaitsOn
<1>8. GoneHold'
  BY <1>0, <1>1, GoneHoldOn DEF GoneHold
<1>9. BatchesHold'
  <2>1. ASSUME NEW b \in DOMAIN batches'
        PROVE  BatchHolds(batches'[b], waits'[b], transfers)
    <3>1. CASE b \in DOMAIN batches
      BY <1>b, <3>1 DEF TInv, BatchesHold
    <3>2. CASE b = Len(batches) + 1
      BY <1>0, <1>b, <3>2 DEF BatchHolds
    <3> QED BY <1>a, <1>b, <3>1, <3>2
  <2> QED BY <1>0, <2>1 DEF BatchesHold
<1> QED BY <1>5, <1>6, <1>7, <1>8, <1>9 DEF TInv

(* The flags of a batch are changed, and a call goes through its transfers. *)
SetsFlags(t, b) == \E p \in BOOLEAN, c \in BOOLEAN :
  /\ batches' = [batches EXCEPT ![b] = [batches[b] EXCEPT !.paused = p, !.cancelled = c]]
  /\ \E what \in Changes : op' = [op EXCEPT ![t] = [pc |-> what, b |-> b, i |-> 1, go |-> FALSE]]
  /\ UNCHANGED <<transfers, waits, gone>>

LEMMA SetsFlagsKeeps ==
  ASSUME TInv, NEW t \in Threads, NEW b \in DOMAIN batches, SetsFlags(t, b)
  PROVE  TInv'
<1>0. PICK p \in BOOLEAN, c \in BOOLEAN, what \in Changes :
        /\ batches' = [batches EXCEPT ![b] = [batches[b] EXCEPT !.paused = p, !.cancelled = c]]
        /\ op' = [op EXCEPT ![t] = [pc |-> what, b |-> b, i |-> 1, go |-> FALSE]]
        /\ UNCHANGED <<transfers, waits, gone>>
  BY DEF SetsFlags
<1>a. /\ transfers \in Seq(Contexts) /\ batches \in Seq(Batches) /\ waits \in Seq(Nat) /\ Len(waits) = Len(batches)
      /\ op \in [Threads -> Ops] /\ gone \subseteq DOMAIN batches
  BY DEF TInv, TType
<1> DEFINE x == batches[b]
           y == [x EXCEPT !.paused = p, !.cancelled = c]
<1>b. x \in Batches /\ b \in Nat
  BY <1>a
<1>c. y \in Batches /\ SameFiles(x, y) /\ y.results = x.results /\ y.completed = x.completed /\ y.failed = x.failed
  BY <1>b DEF Batches, SameFiles
<1>e. batches' = [batches EXCEPT ![b] = y]
  BY <1>0
<1> HIDE DEF y
<1>f. /\ batches' \in Seq(Batches) /\ Len(batches') = Len(batches) /\ DOMAIN batches' = DOMAIN batches
      /\ batches'[b] = y /\ \A d \in DOMAIN batches : d # b => batches'[d] = batches[d]
  BY <1>a, <1>c, <1>e
<1>g. \A d \in DOMAIN batches : /\ SameFiles(batches[d], batches'[d])
                                /\ batches'[d].results = batches[d].results
                                /\ batches'[d].completed = batches[d].completed
                                /\ batches'[d].failed = batches[d].failed
  BY <1>c, <1>f DEF SameFiles
<1> DEFINE o == [pc |-> what, b |-> b, i |-> 1, go |-> FALSE]
<1>h. o \in Ops /\ o.pc \in Changes /\ o.b = b /\ o.i = 1 /\ o.go = FALSE /\ op' = [op EXCEPT ![t] = o]
  BY <1>0, <1>b DEF Ops, ChangeOps
<1> HIDE DEF o, x
<1>1. Grows
  BY <1>0, <1>a, <1>f, <1>g, GoOnSame DEF Grows, Kept
<1>2. OthersGoOn(t) /\ op'[t] = o
  BY <1>a, <1>h DEF OthersGoOn, Woken
<1>3. Minds(t)
  <2>1. \A u \in Threads : op[u].pc \in Waiting => op[u].b \in DOMAIN batches
    BY DEF TInv, OpsHold, OpHolds, WaitHolds
  <2> QED BY <1>g, <2>1 DEF Minds
<1>4. OwnHolds(t) /\ WaitsOn(t)
  <2>1. CancelledTo(batches'[b], 1, transfers')
    <3>1. \A j \in Entries(batches'[b]) : ~(j < 1)
      BY <1>c, <1>f DEF Entries, Batches
    <3> QED BY <3>1 DEF CancelledTo
  <2> QED BY <1>0, <1>2, <1>f, <1>h, <2>1 DEF OwnHolds, OpHolds, ChangeHolds, Changes, Waiting, WaitsOn
<1>5. TType'
  BY <1>0, <1>a, <1>f, <1>2 DEF TType, OthersGoOn
<1>6. OpsHold'
  BY <1>1, <1>2, <1>3, <1>4, OpsHoldOn
<1>7. OneWaits'
  BY <1>1, <1>2, <1>4, OneWaitsOn
<1>8. GoneHold'
  BY <1>0, <1>1, GoneHoldOn DEF GoneHold
<1>9. BatchesHold'
  <2>1. ASSUME NEW d \in DOMAIN batches
        PROVE  BatchHolds(batches'[d], waits[d], transfers)
    <3>1. BatchHolds(batches[d], waits[d], transfers)
      BY DEF TInv, BatchesHold
    <3>2. Fits(batches'[d], transfers)
      BY <1>a, <1>g, <3>1, FitsGoOn, GoOnSame DEF BatchHolds
    <3> QED BY <1>g, <3>1, <3>2 DEF BatchHolds, Tallied, Having, Unread, Entries, SameFiles
  <2> QED BY <1>0, <1>f, <2>1 DEF BatchesHold
<1> QED BY <1>5, <1>6, <1>7, <1>8, <1>9 DEF TInv
-----------------------------------------------------------------------------
(* A wait of a batch begins. *)
Begins(t, b) == \E timed \in BOOLEAN :
  /\ waits' = [waits EXCEPT ![b] = @ + 1]
  /\ op' = [op EXCEPT ![t] = [pc |-> "next", b |-> b, i |-> 1, id |-> 0, timed |-> timed]]
  /\ op[t].pc = "idle" /\ UNCHANGED <<transfers, batches, gone>>

LEMMA BeginsKeeps ==
  ASSUME TInv, NEW t \in Threads, NEW b \in DOMAIN batches, Begins(t, b)
  PROVE  TInv'
<1>0. PICK timed \in BOOLEAN :
        /\ waits' = [waits EXCEPT ![b] = @ + 1]
        /\ op' = [op EXCEPT ![t] = [pc |-> "next", b |-> b, i |-> 1, id |-> 0, timed |-> timed]]
        /\ op[t].pc = "idle" /\ UNCHANGED <<transfers, batches, gone>>
  BY DEF Begins
<1>a. /\ transfers \in Seq(Contexts) /\ batches \in Seq(Batches) /\ waits \in Seq(Nat) /\ Len(waits) = Len(batches)
      /\ op \in [Threads -> Ops] /\ gone \subseteq DOMAIN batches
  BY DEF TInv, TType
<1>b. /\ waits' \in Seq(Nat) /\ Len(waits') = Len(waits) /\ waits'[b] = waits[b] + 1 /\ waits[b] \in Nat
      /\ \A d \in DOMAIN batches : waits[d] \in Nat /\ (d # b => waits'[d] = waits[d])
  BY <1>0, <1>a
<1> DEFINE o == [pc |-> "next", b |-> b, i |-> 1, id |-> 0, timed |-> timed]
<1>h. o \in Ops /\ o.pc = "next" /\ o.b = b /\ o.i = 1 /\ op' = [op EXCEPT ![t] = o]
  BY <1>0, <1>a DEF Ops, WaitOps, Waiting
<1> HIDE DEF o
<1>1. Grows
  BY <1>0, <1>a, <1>b, GoOnSame, KeptSame DEF Grows
<1>2. OthersGoOn(t) /\ op'[t] = o
  BY <1>a, <1>h DEF OthersGoOn, Woken
<1>3. Minds(t)
  BY <1>0 DEF Minds
<1>4. OwnHolds(t)
  BY <1>0, <1>b, <1>h, <1>2 DEF OwnHolds, OpHolds, WaitHolds, Changes, Waiting, TInv, BatchesHold, BatchHolds
<1>5. TType'
  BY <1>0, <1>a, <1>b, <1>2 DEF TType, OthersGoOn
<1>6. OpsHold'
  BY <1>1, <1>2, <1>3, <1>4, OpsHoldOn
<1>7. OneWaits'
  <2>1. ASSUME NEW u \in Threads, u # t, op'[u].pc \in Waiting
        PROVE  /\ op[u].pc \in Waiting /\ op'[u].b = op[u].b /\ waits[op[u].b] >= 1
    BY <1>a, <1>h, <2>1 DEF TInv, OpsHold, OpHolds, WaitHolds
  <2>2. ASSUME NEW u \in Threads, u # t, op'[u].pc \in Waiting, op'[u].b = b
        PROVE  waits'[b] # 1
    BY <1>b, <2>1, <2>2
  <2>3. SUFFICES ASSUME NEW u \in Threads, NEW v \in Threads,
                        op'[u].pc \in Waiting, op'[v].pc \in Waiting, op'[u].b = op'[v].b, waits'[op'[u].b] = 1
                 PROVE  u = v
    BY DEF OneWaits, AloneIn
  <2>4. CASE u = t \/ v = t
    BY <1>2, <1>h, <2>2, <2>3, <2>4
  <2>5. CASE u # t /\ v # t
    <3>1. op'[u].b # b
      BY <2>2, <2>3, <2>5
    <3>2. op[u].b \in DOMAIN batches
      BY <2>1, <2>3, <2>5 DEF TInv, OpsHold, OpHolds, WaitHolds
    <3> QED BY <1>b, <2>1, <2>3, <2>5, <3>1, <3>2 DEF TInv, OneWaits, AloneIn
  <2> QED BY <2>4, <2>5
<1>8. GoneHold'
  BY <1>0, <1>1, GoneHoldOn DEF GoneHold
<1>9. BatchesHold'
  BY <1>0, <1>a, <1>b DEF TInv, BatchesHold, BatchHolds
<1> QED BY <1>5, <1>6, <1>7, <1>8, <1>9 DEF TInv

(* A wait writes down what it got of an entry. *)
Records(t, ok) ==
  /\ op[t].pc \in {"wait", "asleep"} /\ Recorded(t, ok)
  /\ op' = [op EXCEPT ![t] = [Following(t) EXCEPT !.pc = "next"]]
  /\ UNCHANGED <<transfers, waits, gone>>

\* The three results differ, and say of themselves whether they are named and a success.
LEMMA ResultsDiffer ==
  /\ NotStarted # Succeeded /\ NotStarted # Failed /\ Succeeded # Failed
  /\ Succeeded.success /\ Succeeded.named
  /\ ~Failed.success /\ Failed.named
  /\ ~NotStarted.success /\ ~NotStarted.named
<1>1. /\ Succeeded.success = TRUE /\ Succeeded.named = TRUE
      /\ Failed.success = FALSE /\ Failed.named = TRUE
      /\ NotStarted.success = FALSE /\ NotStarted.named = FALSE
  BY DEF NotStarted, Succeeded, Failed
<1> QED BY <1>1

\* One more result counted, where there was none.
LEMMA TallyOne ==
  ASSUME NEW x \in Batches, NEW y \in Batches, NEW i \in DOMAIN x.results, x.results[i] = NotStarted, NEW ok \in BOOLEAN,
         y.results = [x.results EXCEPT ![i] = IF ok THEN Succeeded ELSE Failed],
         y.completed = x.completed + (IF ok THEN 1 ELSE 0), y.failed = x.failed + (IF ok THEN 0 ELSE 1),
         Tallied(x)
  PROVE  Tallied(y)
<1>1. x.results \in Seq({NotStarted, Succeeded, Failed}) /\ x.completed \in Nat /\ x.failed \in Nat
  BY DEF Batches
<1>2. \A r \in {Succeeded, Failed} : IsFiniteSet(Having(x, r)) /\ i \notin Having(x, r)
  <2>0. i \notin Having(x, Succeeded) /\ i \notin Having(x, Failed)
    BY ResultsDiffer DEF Having
  <2>1. IsFiniteSet(DOMAIN x.results)
    <3>1. DOMAIN x.results = 1..Len(x.results) /\ Len(x.results) \in Nat
      BY <1>1
    <3> QED BY <3>1, FS_Interval
  <2> QED BY <2>0, <2>1, FS_Subset DEF Having
<1>3. CASE ok
  <2>1. Having(y, Succeeded) = Having(x, Succeeded) \cup {i} /\ Having(y, Failed) = Having(x, Failed)
    BY <1>1, <1>2, <1>3, ResultsDiffer DEF Having
  <2>2. Cardinality(Having(y, Succeeded)) = Cardinality(Having(x, Succeeded)) + 1
    BY <1>2, <2>1, FS_AddElement
  <2> QED BY <1>1, <1>3, <2>1, <2>2 DEF Tallied
<1>4. CASE ~ok
  <2>1. Having(y, Failed) = Having(x, Failed) \cup {i} /\ Having(y, Succeeded) = Having(x, Succeeded)
    BY <1>1, <1>2, <1>4, ResultsDiffer DEF Having
  <2>2. Cardinality(Having(y, Failed)) = Cardinality(Having(x, Failed)) + 1
    BY <1>2, <2>1, FS_AddElement
  <2> QED BY <1>1, <1>4, <2>1, <2>2 DEF Tallied
<1> QED BY <1>3, <1>4

LEMMA RecordsKeeps ==
  ASSUME TInv, NEW t \in Threads, NEW ok \in BOOLEAN, Records(t, ok)
  PROVE  TInv'
<1>a. /\ transfers \in Seq(Contexts) /\ batches \in Seq(Batches) /\ waits \in Seq(Nat) /\ Len(waits) = Len(batches)
      /\ op \in [Threads -> Ops] /\ gone \subseteq DOMAIN batches
  BY DEF TInv, TType
<1> DEFINE o == op[t]
           b == o.b
           i == o.i
           x == batches[b]
<1>b. /\ o \in WaitOps /\ o.pc # "next" /\ WaitHolds(o, batches, waits)
  <2>1. o \in Ops /\ o.pc \in Waiting /\ o.pc # "next"
    BY <1>a DEF Records, Waiting
  <2> QED BY <2>1, OpKinds DEF TInv, OpsHold, OpHolds
<1>c. /\ b \in DOMAIN batches /\ i \in Entries(x) /\ waits[b] >= 1 /\ waits[b] \in Nat
      /\ waits[b] = 1 => Unread(x, i)
  BY <1>a, <1>b DEF WaitHolds
<1>d. x \in Batches /\ Fits(x, transfers) /\ (waits[b] <= 1 => Tallied(x)) /\ i \in DOMAIN x.results /\ i \in Nat
  BY <1>a, <1>b, <1>c DEF TInv, BatchesHold, BatchHolds, Fits, WaitOps
<1> DEFINE y == WithResult(x, i, ok)
<1>e. batches' = [batches EXCEPT ![b] = y]
  BY <1>c DEF Records, Recorded
<1>f. /\ y \in Batches /\ y.dir = x.dir /\ y.ids = x.ids
      /\ y.results = [x.results EXCEPT ![i] = IF ok THEN Succeeded ELSE Failed]
      /\ y.completed = x.completed + (IF ok THEN 1 ELSE 0) /\ y.failed = x.failed + (IF ok THEN 0 ELSE 1)
  <2>1. [x.results EXCEPT ![i] = IF ok THEN Succeeded ELSE Failed] \in Seq({NotStarted, Succeeded, Failed})
    BY <1>d DEF Batches
  <2>2. (IF x.running > 0 THEN x.running - 1 ELSE 0) \in Nat
    BY <1>d DEF Batches
  <2>3. x.completed + (IF ok THEN 1 ELSE 0) \in Nat /\ x.failed + (IF ok THEN 0 ELSE 1) \in Nat
    BY <1>d DEF Batches
  <2> DEFINE k == x.completed + (IF ok THEN 1 ELSE 0)
             l == x.failed + (IF ok THEN 0 ELSE 1)
             m == IF x.running > 0 THEN x.running - 1 ELSE 0
             r == [x.results EXCEPT ![i] = IF ok THEN Succeeded ELSE Failed]
  <2>4. y = [x EXCEPT !.completed = k, !.failed = l, !.running = m, !.results = r]
    BY DEF WithResult
  <2>5. k \in Nat /\ l \in Nat /\ m \in Nat /\ r \in Seq({NotStarted, Succeeded, Failed})
    BY <2>1, <2>2, <2>3
  <2> HIDE DEF k, l, m, r, x, y
  <2>6. y \in Batches /\ y.dir = x.dir /\ y.ids = x.ids /\ y.results = r /\ y.completed = k /\ y.failed = l
    BY <1>d, <2>4, <2>5 DEF Batches
  <2> QED BY <2>6 DEF r, k, l
<1> HIDE DEF y
<1>g. /\ batches' \in Seq(Batches) /\ Len(batches') = Len(batches) /\ DOMAIN batches' = DOMAIN batches
      /\ batches'[b] = y /\ \A d \in DOMAIN batches : d # b => batches'[d] = batches[d]
  BY <1>a, <1>c, <1>e, <1>f
<1>h. SameFiles(x, y)
  BY <1>f DEF SameFiles
<1> DEFINE p == [Following(t) EXCEPT !.pc = "next"]
<1>i. /\ p \in Ops /\ p.pc = "next" /\ p.b = b /\ p.i = i + 1 /\ op' = [op EXCEPT ![t] = p]
  <2>1. p = [o EXCEPT !.i = i + 1, !.pc = "next"] /\ i + 1 \in Nat
    BY <1>b DEF Following, WaitOps
  <2>2. p \in WaitOps /\ p.pc = "next" /\ p.b = b /\ p.i = i + 1
    BY <1>b, <2>1 DEF WaitOps, Waiting
  <2> QED BY <2>2 DEF Records, Ops
<1>j. UNCHANGED <<transfers, waits, gone>>
  BY DEF Records
<1> HIDE DEF p, o, b, i, x
<1>1. Grows
  <2>1. \A d \in DOMAIN batches : SameFiles(batches[d], batches'[d])
    BY <1>g, <1>h DEF SameFiles, x
  <2> QED BY <1>a, <1>g, <1>j, <2>1, GoOnSame DEF Grows, Kept
<1>2. OthersGoOn(t) /\ op'[t] = p
  BY <1>a, <1>i DEF OthersGoOn, Woken
<1>3. Minds(t)
  <2>1. ASSUME NEW u \in Threads \ {t}, op[u].pc \in Waiting, waits[op[u].b] = 1
        PROVE  op[u].b \in DOMAIN batches /\ op[u].b # b
    <3>1. op[t].pc \in Waiting
      BY DEF Records, Waiting
    <3> QED BY <2>1, <3>1 DEF TInv, OneWaits, AloneIn, b, o, OpsHold, OpHolds, WaitHolds
  <2> QED BY <1>g, <1>j, <2>1 DEF Minds
<1>4. OwnHolds(t) /\ WaitsOn(t)
  <2>1. ASSUME waits[b] = 1
        PROVE  Unread(y, i + 1)
    <3>1. Entries(y) = Entries(x)
      BY <1>f DEF Entries
    <3>2. ASSUME NEW j \in Entries(x), j >= i + 1
          PROVE  y.results[j] = NotStarted
      <4>1. j \in DOMAIN x.results /\ j \in Nat /\ j # i /\ j >= i
        BY <1>d, <3>2 DEF Fits, Batches
      <4>2. x.results[j] = NotStarted
        BY <1>c, <2>1, <3>2, <4>1 DEF Unread
      <4> QED BY <1>d, <1>f, <4>1, <4>2 DEF Batches
    <3> QED BY <3>1, <3>2 DEF Unread
  <2>2. WaitHolds(p, batches', waits')
    BY <1>a, <1>c, <1>d, <1>g, <1>i, <1>j, <2>1 DEF WaitHolds
  <2>3. op[t].pc \in Waiting /\ op[t].b = b
    BY DEF Records, Waiting, b, o
  <2> QED BY <1>2, <1>i, <1>j, <2>2, <2>3 DEF OwnHolds, OpHolds, Changes, WaitsOn, Waiting
<1>5. TType'
  BY <1>a, <1>g, <1>j, <1>2 DEF TType, OthersGoOn
<1>6. OpsHold'
  BY <1>1, <1>2, <1>3, <1>4, OpsHoldOn
<1>7. OneWaits'
  BY <1>1, <1>2, <1>4, OneWaitsOn
<1>8. GoneHold'
  BY <1>1, <1>j, GoneHoldOn DEF GoneHold
<1>9. BatchesHold'
  <2>1. BatchHolds(y, waits[b], transfers)
    <3>1. Fits(y, transfers)
      BY <1>a, <1>d, <1>h, FitsGoOn, GoOnSame
    <3>2. ASSUME waits[b] = 1
          PROVE  Tallied(y)
      <4>1. x.results[i] = NotStarted
        BY <1>c, <1>d, <3>2 DEF Unread
      <4> QED BY <1>d, <1>f, <3>2, <4>1, TallyOne
    <3> QED BY <1>c, <3>1, <3>2 DEF BatchHolds
  <2>2. ASSUME NEW d \in DOMAIN batches, d # b
        PROVE  BatchHolds(batches[d], waits[d], transfers)
    BY DEF TInv, BatchesHold
  <2>3. \A d \in DOMAIN batches : BatchHolds(batches'[d], waits[d], transfers)
    BY <1>g, <2>1, <2>2
  <2> QED BY <1>g, <1>j, <2>3 DEF BatchesHold
<1> QED BY <1>5, <1>6, <1>7, <1>8, <1>9 DEF TInv

LEMMA EachDoneKeeps ==
  ASSUME TInv, NEW t \in Threads, EachDone(t)
  PROVE  TInv'
<1>a. /\ transfers \in Seq(Contexts) /\ batches \in Seq(Batches) /\ waits \in Seq(Nat) /\ Len(waits) = Len(batches)
      /\ op \in [Threads -> Ops] /\ gone \subseteq DOMAIN batches
  BY DEF TInv, TType
<1>b. /\ op[t] \in ChangeOps /\ ChangeHolds(op[t], transfers, batches)
  BY <1>a, OpKinds DEF EachDone, Changes, TInv, OpsHold, OpHolds
<1>c. UNCHANGED <<transfers, batches, waits>> /\ op' = [op EXCEPT ![t] = NoOp]
  BY DEF EachDone, Returns
<1>d. NoOp \in Ops /\ NoOp.pc = "idle"
  BY DEF Ops, SimpleOps, Simple, NoOp
<1>1. Grows
  BY <1>a, <1>c, GoOnSame, KeptSame DEF Grows
<1>2. OthersGoOn(t) /\ op'[t] = NoOp
  BY <1>a, <1>c, <1>d DEF OthersGoOn, Woken
<1>3. Minds(t)
  BY <1>c DEF Minds
<1>4. OwnHolds(t) /\ WaitsOn(t)
  BY <1>2, <1>c, <1>d DEF OwnHolds, OpHolds, WaitsOn, Changes, Waiting
<1>5. op[t].b \in DOMAIN batches
  BY <1>b DEF ChangeHolds
<1>6. TType'
  BY <1>a, <1>c, <1>2, <1>5 DEF TType, OthersGoOn, EachDone
<1>7. OpsHold'
  BY <1>1, <1>2, <1>3, <1>4, OpsHoldOn
<1>8. OneWaits'
  BY <1>1, <1>2, <1>4, OneWaitsOn
<1>9. GoneHold'
  <2>1. \A b \in gone : Cancelled(batches[b], transfers)
    BY DEF TInv, GoneHold
  <2>2. ASSUME op[t].pc = "cancel"
        PROVE  Cancelled(batches[op[t].b], transfers)
    <3>1. \A j \in Entries(batches[op[t].b]) : j < op[t].i
      <4>1. ~(op[t].i <= Len(batches[op[t].b].ids))
        BY DEF EachDone, Left
      <4>2. op[t].i \in Nat /\ batches[op[t].b] \in Batches
        BY <1>a, <1>b, <1>5 DEF ChangeOps
      <4>3. batches[op[t].b].ids \in Seq(Nat)
        BY <4>2 DEF Batches
      <4> QED BY <4>1, <4>2, <4>3 DEF Entries
    <3>2. batches[op[t].b].dir = "up" => CancelledTo(batches[op[t].b], op[t].i, transfers)
      BY <1>b, <2>2 DEF ChangeHolds
    <3> QED BY <3>1, <3>2 DEF Cancelled, CancelledTo
  <2> QED BY <1>c, <2>1, <2>2 DEF GoneHold, EachDone, OpAt
<1>10. BatchesHold'
  BY <1>c DEF TInv, BatchesHold
<1> QED BY <1>6, <1>7, <1>8, <1>9, <1>10 DEF TInv
-----------------------------------------------------------------------------
(* One transfer. *)
LEMMA StateSetGoesOn ==
  ASSUME TType, NEW id \in DOMAIN transfers, NEW s \in States, NEW c \in BOOLEAN,
         transfers' = [transfers EXCEPT ![id] = [state |-> s, dir |-> transfers[id].dir, cancelled |-> c]],
         transfers[id].dir = "up" => s = "cancelled" \/ (s \in Runs /\ transfers[id].state # "cancelled")
  PROVE  GoOn(transfers, transfers')
<1>1. transfers \in Seq(Contexts) /\ transfers[id] \in Contexts
  BY DEF TType
<1> DEFINE x == [state |-> s, dir |-> transfers[id].dir, cancelled |-> c]
<1>2. x \in Contexts /\ x.dir = transfers[id].dir /\ x.state = s
  BY <1>1 DEF Contexts, Runs
<1>3. transfers' = [transfers EXCEPT ![id] = x]
  OBVIOUS
<1> HIDE DEF x
<1>4. transfers' \in Seq(Contexts) /\ Len(transfers') = Len(transfers) /\ transfers'[id] = x
      /\ \A d \in DOMAIN transfers : d # id => transfers'[d] = transfers[d]
  BY <1>1, <1>2, <1>3
<1> QED BY <1>1, <1>2, <1>4 DEF GoOn

LEMMA SetsAsRecord ==
  ASSUME TType, NEW id \in DOMAIN transfers, NEW s
  PROVE  /\ StateSet(id, s) <=> transfers' = [transfers EXCEPT ![id] =
               [state |-> s, dir |-> transfers[id].dir, cancelled |-> transfers[id].cancelled]]
         /\ [transfers EXCEPT ![id].state = s, ![id].cancelled = TRUE] = [transfers EXCEPT ![id] =
               [state |-> s, dir |-> transfers[id].dir, cancelled |-> TRUE]]
         /\ transfers[id].cancelled \in BOOLEAN /\ transfers[id].state \in States
         /\ transfers[id].dir \in {"up", "down"} /\ (transfers[id].dir = "up" => transfers[id].state \in Runs)
<1>1. transfers \in Seq(Contexts) /\ transfers[id] \in Contexts
  BY DEF TType
<1>2. [transfers[id] EXCEPT !.state = s]
        = [state |-> s, dir |-> transfers[id].dir, cancelled |-> transfers[id].cancelled]
  BY <1>1 DEF Contexts
<1>3. [transfers[id] EXCEPT !.state = s, !.cancelled = TRUE]
        = [state |-> s, dir |-> transfers[id].dir, cancelled |-> TRUE]
  <2> DEFINE x == [transfers[id] EXCEPT !.state = s]
  <2>1. x = [state |-> s, dir |-> transfers[id].dir, cancelled |-> transfers[id].cancelled]
    BY <1>2
  <2>2. [x EXCEPT !.cancelled = TRUE] = [state |-> s, dir |-> transfers[id].dir, cancelled |-> TRUE]
    <3>1. \A k, m : [[state |-> s, dir |-> transfers[id].dir, cancelled |-> k] EXCEPT !.cancelled = m]
                       = [state |-> s, dir |-> transfers[id].dir, cancelled |-> m]
      OBVIOUS
    <3> HIDE DEF x
    <3> QED BY <2>1, <3>1
  <2>3. [transfers[id] EXCEPT !.state = s, !.cancelled = TRUE] = [x EXCEPT !.cancelled = TRUE]
    OBVIOUS
  <2> QED BY <2>2, <2>3
<1>4. [transfers EXCEPT ![id].state = s] = [transfers EXCEPT ![id] = [transfers[id] EXCEPT !.state = s]]
  OBVIOUS
<1>5. [transfers EXCEPT ![id].state = s, ![id].cancelled = TRUE]
        = [transfers EXCEPT ![id] = [transfers[id] EXCEPT !.state = s, !.cancelled = TRUE]]
  BY <1>1
<1> QED BY <1>1, <1>2, <1>3, <1>4, <1>5 DEF StateSet, Contexts

LEMMA NotifyGoesOn ==
  ASSUME TType, NEW t \in Threads, NEW id, NEW c \in Ops, NotifyAll(t, id, c)
  PROVE  OthersGoOn(t) /\ op'[t] = c
<1>1. op \in [Threads -> Ops]
  BY DEF TType
<1>2. ASSUME NEW u \in Threads, u # t
      PROVE  Woken(op[u], op'[u])
  BY <1>2 DEF NotifyAll, Woken
<1>3. op' = [u \in Threads |-> op'[u]] /\ op'[t] = c
  BY DEF NotifyAll
<1>4. \A u \in Threads : op'[u] \in Ops
  BY <1>1, <1>2, <1>3, WokenKinds
<1>5. op' \in [Threads -> Ops]
  BY <1>3, <1>4
<1> QED BY <1>2, <1>3, <1>5 DEF OthersGoOn

LEMMA ProceedsGoesOn ==
  ASSUME TType, NEW t \in Threads, NEW c \in Ops, op' = [op EXCEPT ![t] = c]
  PROVE  OthersGoOn(t) /\ op'[t] = c
BY DEF TType, OthersGoOn, Woken

(* Whichever of the three a transfer gets. *)
LEMMA TransferGoesOn ==
  ASSUME TType, NEW t \in Threads, NEW id \in DOMAIN transfers, NEW c \in Ops,
         PauseOne(t, id, c) \/ ResumeOne(t, id, c) \/ CancelOne(t, id, c)
  PROVE  /\ GoOn(transfers, transfers') /\ OthersGoOn(t) /\ op'[t] = c
         /\ CancelOne(t, id, c) /\ transfers[id].dir = "up" => transfers'[id].state = "cancelled"
<1>0. /\ transfers \in Seq(Contexts) /\ transfers[id].state \in States
      /\ transfers[id].dir = "up" => transfers[id].state \in Runs
      /\ transfers[id].cancelled \in BOOLEAN
  BY SetsAsRecord DEF TType
<1>1. ASSUME UNCHANGED transfers
      PROVE  GoOn(transfers, transfers')
  BY <1>0, <1>1, GoOnSame
<1>2. ASSUME NEW s \in {"paused", "transferring", "cancelled"}, MayBecome(id, s), StateSet(id, s)
      PROVE  GoOn(transfers, transfers') /\ transfers'[id].state = s
  <2>1. transfers[id].state # "cancelled" /\ s \in States /\ s \in Runs
    BY <1>2 DEF MayBecome, IsValidTransition, Terminal, States, Runs
  <2>2. transfers' = [transfers EXCEPT ![id] =
               [state |-> s, dir |-> transfers[id].dir, cancelled |-> transfers[id].cancelled]]
    BY <1>2, SetsAsRecord
  <2> QED BY <1>0, <2>1, <2>2, StateSetGoesOn
<1>3. ASSUME transfers' = [transfers EXCEPT ![id].state = "cancelled", ![id].cancelled = TRUE]
      PROVE  GoOn(transfers, transfers') /\ transfers'[id].state = "cancelled"
  <2>1. "cancelled" \in States
    BY DEF States, Terminal
  <2>2. transfers' = [transfers EXCEPT ![id] =
               [state |-> "cancelled", dir |-> transfers[id].dir, cancelled |-> TRUE]]
    BY <1>3, SetsAsRecord
  <2> QED BY <1>0, <2>1, <2>2, StateSetGoesOn
<1>4. ASSUME CancelOne(t, id, c), transfers[id].dir = "up"
      PROVE  transfers'[id].state = "cancelled"
  <2>1. CASE MayBecome(id, "cancelled")
    BY <1>2, <1>4, <2>1 DEF CancelOne
  <2>2. CASE ~MayBecome(id, "cancelled")
    BY <1>0, <1>4, <2>2 DEF CancelOne, MayBecome, IsValidTransition, Terminal, Runs
  <2> QED BY <2>1, <2>2
<1>5. CASE PauseOne(t, id, c)
  <2>1. OthersGoOn(t) /\ op'[t] = c
    BY <1>5, ProceedsGoesOn DEF PauseOne, Proceeds
  <2>2. GoOn(transfers, transfers')
    BY <1>1, <1>2, <1>5 DEF PauseOne
  <2> QED BY <1>4, <2>1, <2>2
<1>6. CASE ResumeOne(t, id, c)
  <2>1. OthersGoOn(t) /\ op'[t] = c
    BY <1>6, ProceedsGoesOn, NotifyGoesOn DEF ResumeOne, Proceeds
  <2>2. GoOn(transfers, transfers')
    BY <1>1, <1>2, <1>6 DEF ResumeOne
  <2> QED BY <1>4, <2>1, <2>2
<1>7. CASE CancelOne(t, id, c)
  <2>1. OthersGoOn(t) /\ op'[t] = c
    BY <1>7, ProceedsGoesOn, NotifyGoesOn DEF CancelOne, Proceeds
  <2>2. CASE transfers[id].dir = "down"
    BY <1>3, <1>7, <2>1, <2>2 DEF CancelOne
  <2>3. CASE transfers[id].dir # "down" /\ MayBecome(id, "cancelled")
    BY <1>2, <1>7, <2>1, <2>3 DEF CancelOne
  <2>4. CASE transfers[id].dir # "down" /\ ~MayBecome(id, "cancelled")
    BY <1>0, <1>1, <1>7, <2>1, <2>4 DEF CancelOne, MayBecome, IsValidTransition, Terminal, Runs
  <2> QED BY <2>2, <2>3, <2>4
<1> QED BY <1>5, <1>6, <1>7
-----------------------------------------------------------------------------
(* The steps of calls that change no batch.                                *)
LEMMA SimpleKinds ==
  ASSUME NEW p \in Simple, NEW ts, NEW bs, NEW ws
  PROVE  [pc |-> p] \in Ops /\ OpHolds([pc |-> p], ts, bs, ws) /\ [pc |-> p].pc \notin Waiting
<1>1. [pc |-> p] \in SimpleOps /\ [pc |-> p].pc = p
  BY DEF SimpleOps
<1>2. p \notin Changes /\ p \notin Waiting /\ p # "fill"
  BY DEF Simple, Changes, Waiting
<1> QED BY <1>1, <1>2 DEF Ops, OpHolds

LEMMA WorksWith ==
  ASSUME TInv, NEW t \in Threads, NEW c \in Ops, OthersGoOn(t), op'[t] = c, GoOn(transfers, transfers'),
         UNCHANGED <<batches, waits, gone>>, OpHolds(c, transfers', batches, waits),
         c.pc \in Waiting => op[t].pc \in Waiting /\ c.b = op[t].b
  PROVE  TInv'
BY WorksKeeps DEF Works, OwnHolds

LEMMA SimpleKeeps ==
  ASSUME TInv, NEW t \in Threads,
         Connect(t) \/ ConnectBegins(t) \/ ConnectEnds(t) \/ Disconnect(t) \/ DisconnectEnds(t)
  PROVE  TInv'
<1>0. TType /\ transfers \in Seq(Contexts) /\ op \in [Threads -> Ops]
  BY DEF TInv, TType
<1>1. UNCHANGED <<transfers, batches, waits, gone>> /\ GoOn(transfers, transfers')
  BY <1>0, GoOnSame DEF Connect, ConnectBegins, ConnectEnds, Disconnect, DisconnectEnds
<1>2. \E p \in Simple : op' = [op EXCEPT ![t] = [pc |-> p]]
  <2>1. Connect(t) => op' = [op EXCEPT ![t] = [pc |-> "connecting"]]
    BY DEF Connect, Called
  <2>2. ConnectBegins(t) => op' = [op EXCEPT ![t] = [pc |-> "starting"]]
    <3>1. SUFFICES ASSUME ConnectBegins(t) PROVE op' = [op EXCEPT ![t] = [pc |-> "starting"]]
      OBVIOUS
    <3>2. op[t] \in SimpleOps
      BY <1>0, <3>1, OpKinds DEF ConnectBegins, OpAt, Simple
    <3>3. [op[t] EXCEPT !.pc = "starting"] = [pc |-> "starting"]
      BY <3>2 DEF SimpleOps
    <3> QED BY <3>1, <3>3 DEF ConnectBegins, OpGoes
  <2>3. Disconnect(t) => op' = [op EXCEPT ![t] = [pc |-> "stopping"]]
    BY DEF Disconnect, Called
  <2>4. ConnectEnds(t) \/ DisconnectEnds(t) => op' = [op EXCEPT ![t] = [pc |-> "idle"]]
    BY DEF ConnectEnds, DisconnectEnds, Returns, NoOp
  <2> QED BY <2>1, <2>2, <2>3, <2>4 DEF Simple
<1>3. PICK p \in Simple : op' = [op EXCEPT ![t] = [pc |-> p]]
  BY <1>2
<1> DEFINE c == [pc |-> p]
<1>4. c \in Ops /\ OpHolds(c, transfers', batches, waits) /\ c.pc \notin Waiting
  BY SimpleKinds
<1> HIDE DEF c
<1>5. OthersGoOn(t) /\ op'[t] = c
  BY <1>0, <1>3, <1>4, ProceedsGoesOn DEF c
<1> QED BY <1>1, <1>4, <1>5, WorksWith

LEMMA UploadFileKeeps ==
  ASSUME TInv, NEW t \in Threads, UploadFile(t)
  PROVE  TInv'
<1>0. TType /\ transfers \in Seq(Contexts)
  BY DEF TInv, TType
<1>1. NewContext("up") \in Contexts
  BY DEF NewContext, Contexts, States, Runs
<1>2. GoOn(transfers, transfers')
  BY <1>0, <1>1 DEF UploadFile, GoOn
<1>3. NoOp \in Ops /\ OpHolds(NoOp, transfers', batches, waits) /\ NoOp.pc \notin Waiting
  BY SimpleKinds DEF NoOp, Simple
<1>4. OthersGoOn(t) /\ op'[t] = NoOp
  BY <1>0, <1>3, ProceedsGoesOn DEF UploadFile, Called
<1> QED BY <1>2, <1>3, <1>4, WorksWith DEF UploadFile

LEMMA OneTransferKeeps ==
  ASSUME TInv, NEW t \in Threads, NEW id \in DOMAIN transfers, OneTransfer(t, id)
  PROVE  TInv'
<1>0. TType
  BY DEF TInv
<1>1. NoOp \in Ops /\ OpHolds(NoOp, transfers', batches, waits) /\ NoOp.pc \notin Waiting
  BY SimpleKinds DEF NoOp, Simple
<1>2. GoOn(transfers, transfers') /\ OthersGoOn(t) /\ op'[t] = NoOp
  BY <1>0, <1>1, TransferGoesOn DEF OneTransfer
<1> QED BY <1>1, <1>2, WorksWith DEF OneTransfer

(* The calls that go through the transfers of a batch. *)
LEMMA LookAtKeeps ==
  ASSUME TInv, NEW t \in Threads, LookAt(t)
  PROVE  TInv'
<1> DEFINE o == op[t]
           x == batches[o.b]
<1>0. /\ TType /\ transfers \in Seq(Contexts) /\ op \in [Threads -> Ops] /\ batches \in Seq(Batches)
      /\ UNCHANGED <<transfers, batches, waits, gone>> /\ GoOn(transfers, transfers')
  BY GoOnSame DEF TInv, TType, LookAt
<1>1. o \in ChangeOps /\ ChangeHolds(o, transfers, batches) /\ ~o.go /\ o.b \in DOMAIN batches
  BY <1>0, OpKinds DEF LookAt, Changes, TInv, OpsHold, OpHolds, ChangeHolds
<1>2. o.i \in DOMAIN x.ids /\ x \in Batches /\ Fits(x, transfers)
  <2>1. x \in Batches
    BY <1>0, <1>1
  <2>2. x.ids \in Seq(Nat) /\ o.i \in Nat /\ o.i >= 1 /\ o.i <= Len(x.ids)
    BY <1>1, <2>1 DEF Batches, ChangeOps, ChangeHolds, LookAt, Left
  <2> QED BY <1>1, <2>1, <2>2 DEF TInv, BatchesHold, BatchHolds
<1> DEFINE looks == IdNow(t) # 0 /\ Wanted(o.pc, transfers[IdNow(t)].state)
<1>3. IdNow(t) = x.ids[o.i] /\ op' = [op EXCEPT ![t] = IF looks THEN [o EXCEPT !.go = TRUE] ELSE [o EXCEPT !.i = o.i + 1]]
  BY DEF IdNow, LookAt, Proceeds, Following
<1>4. CASE looks
  <2> DEFINE c == [o EXCEPT !.go = TRUE]
  <2>1. c \in ChangeOps /\ c.b = o.b /\ c.i = o.i /\ c.pc = o.pc
    BY <1>1 DEF ChangeOps
  <2>2. ChangeHolds(c, transfers, batches)
    BY <1>1, <1>2, <1>3, <1>4, <2>1 DEF ChangeHolds, Entries
  <2>3. c \in Ops /\ OpHolds(c, transfers', batches, waits) /\ c.pc \notin Waiting
    BY <1>0, <1>1, <2>1, <2>2 DEF Ops, ChangeOps, Changes, Waiting, OpHolds
  <2>4. op' = [op EXCEPT ![t] = c]
    BY <1>3, <1>4
  <2> HIDE DEF c
  <2> QED BY <1>0, <2>3, <2>4, ProceedsGoesOn, WorksWith
<1>5. CASE ~looks
  <2> DEFINE c == [o EXCEPT !.i = o.i + 1]
  <2>1. c \in ChangeOps /\ c.b = o.b /\ c.i = o.i + 1 /\ c.pc = o.pc /\ c.go = o.go
    BY <1>1 DEF ChangeOps
  <2>2. ASSUME o.pc = "cancel", x.dir = "up"
        PROVE  CancelledTo(x, o.i + 1, transfers)
    <3>1. ASSUME o.i \in Entries(x)
          PROVE  transfers[x.ids[o.i]].state = "cancelled"
      <4>1. x.ids[o.i] \in DOMAIN transfers /\ transfers[x.ids[o.i]].dir = "up"
        BY <1>2, <2>2, <3>1 DEF Fits
      <4>2. transfers[x.ids[o.i]].state \in Terminal
        BY <1>3, <1>5, <2>2, <3>1 DEF Entries, Wanted
      <4> QED BY <1>0, <4>1, <4>2 DEF Contexts, Runs, Terminal
    <3>2. ASSUME NEW j \in Entries(x), j < o.i + 1
          PROVE  j < o.i \/ j = o.i
      BY <1>1, <1>2, <3>2 DEF Entries, Batches, ChangeOps
    <3> QED BY <1>1, <2>2, <3>1, <3>2 DEF ChangeHolds, CancelledTo
  <2>3. ChangeHolds(c, transfers, batches)
    BY <1>1, <2>1, <2>2 DEF ChangeHolds, ChangeOps
  <2>4. c \in Ops /\ OpHolds(c, transfers', batches, waits) /\ c.pc \notin Waiting
    BY <1>0, <1>1, <2>1, <2>3 DEF Ops, ChangeOps, Changes, Waiting, OpHolds
  <2>5. op' = [op EXCEPT ![t] = c]
    BY <1>3, <1>5
  <2> HIDE DEF c
  <2> QED BY <1>0, <2>4, <2>5, ProceedsGoesOn, WorksWith
<1> QED BY <1>4, <1>5
LEMMA ChangeKeeps ==
  ASSUME TInv, NEW t \in Threads, Change(t)
  PROVE  TInv'
<1> DEFINE o == op[t]
           x == batches[o.b]
           id == IdNow(t)
           c == [Following(t) EXCEPT !.go = FALSE]
<1>0. /\ TType /\ transfers \in Seq(Contexts) /\ op \in [Threads -> Ops] /\ batches \in Seq(Batches)
      /\ UNCHANGED <<batches, waits, gone>>
  BY DEF TInv, TType, Change
<1>1. o \in ChangeOps /\ ChangeHolds(o, transfers, batches) /\ o.go /\ o.b \in DOMAIN batches
  BY <1>0, OpKinds DEF Change, Changes, TInv, OpsHold, OpHolds, ChangeHolds
<1>2. x \in Batches /\ Fits(x, transfers) /\ o.i \in Entries(x)
  BY <1>0, <1>1 DEF ChangeHolds, TInv, BatchesHold, BatchHolds
<1>3. id = x.ids[o.i] /\ id \in DOMAIN transfers /\ transfers[id].dir = x.dir
  BY <1>2 DEF IdNow, Fits
<1>4. c \in ChangeOps /\ c.b = o.b /\ c.i = o.i + 1 /\ c.pc = o.pc /\ c.go = FALSE
  <2>1. c = [o EXCEPT !.i = o.i + 1, !.go = FALSE] /\ o.i + 1 \in Nat
    BY <1>1 DEF Following, ChangeOps
  <2> HIDE DEF o, c
  <2> QED BY <1>1, <2>1 DEF ChangeOps
<1>5. c \in Ops /\ c.pc \notin Waiting /\ c.pc \in Changes
  BY <1>4 DEF Ops, ChangeOps, Changes, Waiting
<1>6. /\ PauseOne(t, id, c) \/ ResumeOne(t, id, c) \/ CancelOne(t, id, c)
      /\ o.pc = "cancel" => CancelOne(t, id, c)
  BY DEF Change, OpAt
<1> HIDE DEF o, x, id, c
<1>7. /\ GoOn(transfers, transfers') /\ OthersGoOn(t) /\ op'[t] = c
      /\ o.pc = "cancel" /\ transfers[id].dir = "up" => transfers'[id].state = "cancelled"
  BY <1>0, <1>3, <1>5, <1>6, TransferGoesOn
<1>8. ASSUME o.pc = "cancel", x.dir = "up"
      PROVE  CancelledTo(x, o.i + 1, transfers')
  <2>1. ASSUME NEW j \in Entries(x), j < o.i + 1
        PROVE  transfers'[x.ids[j]].state = "cancelled"
    <3>1. j < o.i \/ j = o.i
      BY <1>1, <1>2, <2>1 DEF Entries, Batches, ChangeOps
    <3>2. CASE j = o.i
      BY <1>3, <1>7, <1>8, <3>2
    <3>3. CASE j < o.i
      <4>1. transfers[x.ids[j]].state = "cancelled"
        BY <1>1, <1>8, <3>3 DEF ChangeHolds, CancelledTo, x
      <4> QED BY <1>0, <1>2, <1>7, <1>8, <4>1, CancelledGoesOn DEF SameFiles
    <3> QED BY <3>1, <3>2, <3>3
  <2> QED BY <2>1 DEF CancelledTo
<1>9. ChangeHolds(c, transfers', batches)
  BY <1>1, <1>4, <1>8 DEF ChangeHolds, ChangeOps, x
<1>10. OpHolds(c, transfers', batches, waits)
  BY <1>5, <1>9 DEF OpHolds, Changes
<1> QED BY <1>0, <1>5, <1>7, <1>10, WorksWith

(* The calls that start the transfers of a batch. *)
LEMMA AppendOne ==
  ASSUME NEW S, NEW s \in Seq(S), NEW e \in S
  PROVE  /\ DOMAIN Append(s, e) = DOMAIN s \cup {Len(s) + 1} /\ Append(s, e)[Len(s) + 1] = e
         /\ \A j \in DOMAIN s : Append(s, e)[j] = s[j] /\ j < Len(s) + 1 /\ j \in Nat
OBVIOUS

LEMMA FillKinds ==
  ASSUME NEW c \in FillOps, NEW ts, NEW bs, NEW ws, FillHolds(c, ts)
  PROVE  c \in Ops /\ OpHolds(c, ts, bs, ws) /\ c.pc \notin Waiting
BY DEF FillOps, Ops, OpHolds, Changes, Waiting

LEMMA StartBatchKeeps ==
  ASSUME TInv, ClientAssumption, NEW t \in Threads, NEW dir \in {"up", "down"}, NEW n \in BatchSizes,
         NEW max \in MaxConcurrent, NEW continue \in BOOLEAN, StartBatch(t, dir, n, max, continue)
  PROVE  TInv'
<1> DEFINE x == NewBatch(dir, n)
           c == [pc |-> "fill", batch |-> x, n |-> n, max |-> max, i |-> 1, continue |-> continue]
<1>0. /\ TType /\ transfers \in Seq(Contexts) /\ GoOn(transfers, transfers')
      /\ UNCHANGED <<transfers, batches, waits, gone>>
  BY GoOnSame DEF TInv, TType, StartBatch
<1>1. n \in Nat /\ n >= 1 /\ max \in Nat
  BY DEF ClientAssumption
<1>2. /\ x.ids = <<>> /\ x.completed = 0 /\ x.failed = 0 /\ x.results = [i \in 1..n |-> NotStarted] /\ x \in Batches
  <2>1. [i \in 1..n |-> NotStarted] \in Seq({NotStarted, Succeeded, Failed}) /\ <<>> \in Seq(Nat)
    BY <1>1
  <2> QED BY <2>1 DEF NewBatch, Batches
<1>3. Entries(x) = {} /\ Having(x, Succeeded) = {} /\ Having(x, Failed) = {}
  BY <1>2, ResultsDiffer DEF Entries, Having
<1>4. Fits(x, transfers) /\ Tallied(x) /\ Unread(x, 1)
  BY <1>2, <1>3, FS_EmptySet DEF Fits, Tallied, Unread
<1>5. Len(x.ids) = 0 /\ Len(x.results) = n /\ \A j \in 1..n : x.results[j] = NotStarted
  BY <1>1, <1>2
<1> HIDE DEF x
<1>6. c \in FillOps /\ FillHolds(c, transfers)
  BY <1>1, <1>2, <1>4, <1>5 DEF FillOps, FillHolds
<1>7. op' = [op EXCEPT ![t] = c]
  BY DEF StartBatch, Called, x
<1> HIDE DEF c
<1>8. c \in Ops /\ OpHolds(c, transfers', batches, waits) /\ c.pc \notin Waiting
  BY <1>0, <1>6, FillKinds
<1> QED BY <1>0, <1>7, <1>8, ProceedsGoesOn, WorksWith

LEMMA StartOneKeeps ==
  ASSUME TInv, NEW t \in Threads, StartOne(t)
  PROVE  TInv'
<1> DEFINE o == op[t]
           x == o.batch
           id == Len(transfers) + 1
           y == [x EXCEPT !.ids = Append(@, id), !.running = @ + 1]
           c == [o EXCEPT !.i = @ + 1, !.batch = y]
<1>0. /\ TType /\ transfers \in Seq(Contexts) /\ op \in [Threads -> Ops]
      /\ UNCHANGED <<batches, waits, gone>>
  BY DEF TInv, TType, StartOne
<1>1. o \in FillOps /\ FillHolds(o, transfers) /\ o.i <= o.n
  BY <1>0, OpKinds DEF StartOne, OpAt, More, TInv, OpsHold, OpHolds
<1>2. x \in Batches /\ o.i \in Nat /\ o.n \in Nat
  BY <1>1 DEF FillOps
<1>3. /\ y \in Batches /\ y.dir = x.dir /\ y.ids = Append(x.ids, id) /\ y.results = x.results
      /\ y.completed = x.completed /\ y.failed = x.failed /\ id \in Nat /\ id # 0
  <2> DEFINE ids == Append(x.ids, id)
             k == x.running + 1
  <2>1. ids \in Seq(Nat) /\ k \in Nat /\ id \in Nat /\ id # 0
    BY <1>0, <1>2 DEF Batches
  <2>2. y = [x EXCEPT !.ids = ids, !.running = k]
    OBVIOUS
  <2> HIDE DEF ids, k, x, y
  <2>3. y \in Batches /\ y.dir = x.dir /\ y.ids = ids /\ y.results = x.results
        /\ y.completed = x.completed /\ y.failed = x.failed
    BY <1>2, <2>1, <2>2 DEF Batches
  <2> QED BY <2>1, <2>3 DEF ids
<1>4. c \in FillOps /\ c.batch = y /\ c.n = o.n /\ c.i = o.i + 1
  <2> DEFINE k == o.i + 1
  <2>1. c = [o EXCEPT !.i = k, !.batch = y] /\ k \in Nat
    BY <1>1, <1>2
  <2> HIDE DEF k, o, y, c
  <2>2. c \in FillOps /\ c.batch = y /\ c.n = o.n /\ c.i = k
    BY <1>1, <1>3, <2>1 DEF FillOps
  <2> QED BY <2>2 DEF k
<1>5. op' = [op EXCEPT ![t] = c]
  <2>1. op' = [op EXCEPT ![t].i = @ + 1, ![t].batch = y]
    BY DEF StartOne
  <2> QED BY <1>0, <2>1
<1>6. transfers' = Append(transfers, NewContext(x.dir))
  BY DEF StartOne
<1>7. NewContext(x.dir) \in Contexts /\ NewContext(x.dir).dir = x.dir
  BY <1>2 DEF NewContext, Contexts, Batches, States, Runs
<1> HIDE DEF c, y
<1>8. GoOn(transfers, transfers') /\ id \in DOMAIN transfers' /\ transfers'[id].dir = x.dir
  BY <1>0, <1>6, <1>7 DEF GoOn
<1>9. x.ids \in Seq(Nat) /\ x.results \in Seq({NotStarted, Succeeded, Failed})
  BY <1>2 DEF Batches
<1>10. /\ Len(y.ids) = Len(x.ids) + 1 /\ Len(x.ids) + 1 = o.i /\ y.ids[o.i] = id
       /\ \A j \in 1..Len(x.ids) : y.ids[j] = x.ids[j]
  BY <1>1, <1>2, <1>3, <1>9 DEF FillHolds
<1>11. Entries(y) = Entries(x) \cup {o.i} /\ \A j \in Entries(x) : y.ids[j] = x.ids[j] /\ j < o.i /\ j \in Nat
  <2>1. /\ DOMAIN y.ids = DOMAIN x.ids \cup {o.i} /\ y.ids[o.i] = id
        /\ \A j \in DOMAIN x.ids : y.ids[j] = x.ids[j] /\ j < o.i /\ j \in Nat
    <3>1. x.ids \in Seq(Nat) /\ id \in Nat /\ Len(x.ids) + 1 = o.i /\ y.ids = Append(x.ids, id)
      BY <1>3, <1>9, <1>10
    <3> HIDE DEF x, o, id
    <3>2. /\ DOMAIN Append(x.ids, id) = DOMAIN x.ids \cup {Len(x.ids) + 1}
          /\ Append(x.ids, id)[Len(x.ids) + 1] = id
          /\ \A j \in DOMAIN x.ids : Append(x.ids, id)[j] = x.ids[j] /\ j < Len(x.ids) + 1 /\ j \in Nat
      BY <3>1, AppendOne
    <3> QED BY <3>1, <3>2
  <2> QED BY <1>3, <2>1 DEF Entries
<1>12. o.i \in DOMAIN x.results /\ x.results[o.i] = NotStarted
  <2>1. o.i >= 1 /\ o.i <= Len(x.results)
    BY <1>1, <1>2, <1>9, <1>10 DEF FillHolds
  <2>2. o.i \in o.i..o.n
    BY <1>1, <1>2
  <2>3. x.results[o.i] = NotStarted
    BY <1>1, <2>2 DEF FillHolds
  <2> QED BY <1>2, <1>9, <2>1, <2>3
<1>13. Fits(y, transfers')
  <2>1. Fits(x, transfers')
    BY <1>0, <1>1, <1>8, FitsGoOn DEF FillHolds, SameFiles
  <2> QED BY <1>3, <1>8, <1>10, <1>11, <1>12, <2>1 DEF Fits
<1>14. Tallied(y) /\ Unread(y, 1)
  BY <1>1, <1>3, <1>11, <1>12 DEF FillHolds, Tallied, Having, Unread
<1>15. FillHolds(c, transfers')
  <2>1. \A j \in (o.i + 1)..o.n : y.results[j] = NotStarted
    BY <1>1, <1>2, <1>3 DEF FillHolds
  <2>2. Len(y.ids) + 1 = o.i + 1 /\ o.i + 1 <= o.n + 1 /\ Len(y.results) = o.n
    BY <1>1, <1>2, <1>3, <1>10 DEF FillHolds
  <2> QED BY <1>4, <1>13, <1>14, <2>1, <2>2 DEF FillHolds
<1>16. c \in Ops /\ OpHolds(c, transfers', batches, waits) /\ c.pc \notin Waiting
  BY <1>4, <1>15, FillKinds
<1> QED BY <1>0, <1>5, <1>8, <1>16, ProceedsGoesOn, WorksWith

LEMMA StartFailsKeeps ==
  ASSUME TInv, NEW t \in Threads, StartFails(t)
  PROVE  TInv'
<1> DEFINE o == op[t]
           x == o.batch
           y == WithoutFile(o)
           c == [o EXCEPT !.i = @ + 1, !.batch = y]
<1>0. /\ TType /\ transfers \in Seq(Contexts) /\ op \in [Threads -> Ops]
      /\ UNCHANGED <<transfers, batches, waits, gone>> /\ GoOn(transfers, transfers')
  BY GoOnSame DEF TInv, TType, StartFails
<1>1. o \in FillOps /\ FillHolds(o, transfers) /\ o.i <= o.n
  BY <1>0, OpKinds DEF StartFails, OpAt, More, TInv, OpsHold, OpHolds
<1>2. x \in Batches /\ o.i \in Nat /\ o.n \in Nat /\ x.failed \in Nat /\ x.completed \in Nat
  BY <1>1 DEF FillOps, Batches
<1>9. x.ids \in Seq(Nat) /\ x.results \in Seq({NotStarted, Succeeded, Failed}) /\ Len(x.ids) + 1 = o.i
  BY <1>1, <1>2 DEF Batches, FillHolds
<1>12. o.i \in DOMAIN x.results /\ x.results[o.i] = NotStarted /\ o.i >= 1
  <2>1. o.i >= 1 /\ o.i <= Len(x.results)
    BY <1>1, <1>2, <1>9 DEF FillHolds
  <2>2. o.i \in o.i..o.n
    BY <1>1, <1>2
  <2>3. x.results[o.i] = NotStarted
    BY <1>1, <2>2 DEF FillHolds
  <2> QED BY <1>2, <1>9, <2>1, <2>3
<1>3. /\ y \in Batches /\ y.dir = x.dir /\ y.ids = Append(x.ids, 0)
      /\ y.results = [x.results EXCEPT ![o.i] = Failed]
      /\ y.completed = x.completed /\ y.failed = x.failed + 1
  <2> DEFINE ids == Append(x.ids, 0)
             k == x.failed + 1
             r == [x.results EXCEPT ![o.i] = Failed]
  <2>1. ids \in Seq(Nat) /\ k \in Nat /\ r \in Seq({NotStarted, Succeeded, Failed})
    BY <1>2, <1>9, <1>12
  <2>2. y = [x EXCEPT !.ids = ids, !.failed = k, !.results = r]
    BY DEF WithoutFile
  <2> HIDE DEF ids, k, r, x, y
  <2>3. y \in Batches /\ y.dir = x.dir /\ y.ids = ids /\ y.results = r /\ y.completed = x.completed /\ y.failed = k
    BY <1>2, <2>1, <2>2 DEF Batches
  <2> QED BY <2>3 DEF ids, k, r
<1>4. CASE o.continue
  <2>1. c \in FillOps /\ c.batch = y /\ c.n = o.n /\ c.i = o.i + 1
    <3> DEFINE k == o.i + 1
    <3>1. c = [o EXCEPT !.i = k, !.batch = y] /\ k \in Nat
      BY <1>1, <1>2
    <3> HIDE DEF k, o, y, c
    <3>2. c \in FillOps /\ c.batch = y /\ c.n = o.n /\ c.i = k
      BY <1>1, <1>3, <3>1 DEF FillOps
    <3> QED BY <3>2 DEF k
  <2>2. op' = [op EXCEPT ![t] = c]
    <3>1. op' = [op EXCEPT ![t].i = @ + 1, ![t].batch = y]
      BY <1>4 DEF StartFails
    <3> HIDE DEF y
    <3> QED BY <1>0, <3>1
  <2> HIDE DEF c, y, x
  <2>3. Entries(y) = Entries(x) /\ \A j \in Entries(x) : y.ids[j] = x.ids[j] /\ j # o.i
    <3>1. /\ DOMAIN y.ids = DOMAIN x.ids \cup {o.i} /\ o.i \notin DOMAIN x.ids /\ y.ids[o.i] = 0
          /\ \A j \in DOMAIN x.ids : y.ids[j] = x.ids[j]
      BY <1>3, <1>9
    <3> QED BY <3>1 DEF Entries
  <2>4. DOMAIN y.results = DOMAIN x.results /\ Len(y.results) = Len(x.results)
        /\ \A j \in DOMAIN x.results : j # o.i => y.results[j] = x.results[j]
    BY <1>3, <1>9, <1>12
  <2>5. Fits(x, transfers) /\ Tallied(x) /\ Unread(x, 1)
    BY <1>1 DEF FillHolds, x
  <2>6. Fits(y, transfers)
    BY <1>3, <2>3, <2>4, <2>5 DEF Fits
  <2>7. Tallied(y)
    <3>1. /\ y.results = [x.results EXCEPT ![o.i] = IF FALSE THEN Succeeded ELSE Failed]
          /\ y.completed = x.completed + (IF FALSE THEN 1 ELSE 0) /\ y.failed = x.failed + (IF FALSE THEN 0 ELSE 1)
      BY <1>2, <1>3 DEF x
    <3>2. x \in Batches /\ o.i \in DOMAIN x.results /\ x.results[o.i] = NotStarted
      BY <1>2, <1>12 DEF x
    <3> QED BY <1>3, <2>5, <3>1, <3>2, TallyOne
  <2>8. Unread(y, 1)
    BY <2>3, <2>4, <2>5 DEF Unread, Fits
  <2>9. FillHolds(c, transfers)
    <3>0. /\ Len(x.results) = o.n /\ \A j \in o.i..o.n : x.results[j] = NotStarted
      BY <1>1 DEF FillHolds, x
    <3>1. ASSUME NEW j \in (o.i + 1)..o.n
          PROVE  y.results[j] = NotStarted
      <4>1. j \in o.i..o.n /\ j # o.i /\ j \in 1..o.n
        BY <1>2, <1>12
      <4>2. j \in DOMAIN x.results
        BY <1>9, <3>0, <4>1
      <4> QED BY <2>4, <3>0, <4>1, <4>2
    <3>2. Len(y.ids) + 1 = o.i + 1 /\ o.i + 1 <= o.n + 1
      BY <1>1, <1>2, <1>3, <1>9
    <3> QED BY <2>1, <2>4, <2>6, <2>7, <2>8, <3>0, <3>1, <3>2 DEF FillHolds
  <2>10. c \in Ops /\ OpHolds(c, transfers', batches, waits) /\ c.pc \notin Waiting
    BY <1>0, <2>1, <2>9, FillKinds
  <2> QED BY <1>0, <2>2, <2>10, ProceedsGoesOn, WorksWith
<1>5. CASE ~o.continue
  <2>1. NoOp \in Ops /\ OpHolds(NoOp, transfers', batches, waits) /\ NoOp.pc \notin Waiting
    BY SimpleKinds DEF NoOp, Simple
  <2>2. op' = [op EXCEPT ![t] = NoOp]
    BY <1>5 DEF StartFails, Returns
  <2> QED BY <1>0, <2>1, <2>2, ProceedsGoesOn, WorksWith
<1> QED BY <1>4, <1>5
LEMMA StoreBatchKeeps ==
  ASSUME TInv, NEW t \in Threads, StoreBatch(t)
  PROVE  TInv'
<1> DEFINE o == op[t]
           x == o.batch
           y == [x EXCEPT !.ids = @ \o Queued(o)]
<1>0. op[t] \in Ops
  BY DEF TInv, TType
<1>1. o \in FillOps /\ FillHolds(o, transfers)
  BY <1>0, OpKinds DEF StoreBatch, OpAt, TInv, OpsHold, OpHolds
<1>2. x \in Batches /\ o.n \in Nat /\ x.running \in Nat /\ x.ids \in Seq(Nat)
  BY <1>1 DEF FillOps, Batches
<1>3. Queued(o) \in Seq(Nat) /\ \A j \in DOMAIN Queued(o) : Queued(o)[j] = 0
  <2> DEFINE m == o.n - x.running
  <2>1. m \in Int
    BY <1>2
  <2> HIDE DEF m
  <2>2. Queued(o) = [i \in 1..m |-> 0]
    BY DEF Queued, m
  <2>3. [i \in 1..m |-> 0] \in Seq(Nat)
    <3>1. CASE m >= 0
      BY <2>1, <3>1
    <3>2. CASE m < 0
      <4>1. 1..m = {}
        BY <2>1, <3>2
      <4>2. [i \in 1..m |-> 0] = [i \in 1..0 |-> 0]
        BY <4>1
      <4>3. [i \in 1..0 |-> 0] \in Seq(Nat)
        OBVIOUS
      <4> QED BY <4>2, <4>3
    <3> QED BY <2>1, <3>1, <3>2
  <2> QED BY <2>2, <2>3
<1>4. /\ y \in Batches /\ y.dir = x.dir /\ y.results = x.results /\ y.completed = x.completed /\ y.failed = x.failed
      /\ y.ids = x.ids \o Queued(o)
  <2> DEFINE ids == x.ids \o Queued(o)
  <2>1. ids \in Seq(Nat)
    BY <1>2, <1>3
  <2>2. y = [x EXCEPT !.ids = ids]
    OBVIOUS
  <2> HIDE DEF ids, x, y
  <2>3. y \in Batches /\ y.dir = x.dir /\ y.results = x.results /\ y.completed = x.completed /\ y.failed = x.failed
        /\ y.ids = ids
    BY <1>2, <2>1, <2>2 DEF Batches
  <2> QED BY <2>3 DEF ids
<1>5. Entries(y) = Entries(x) /\ \A j \in Entries(x) : y.ids[j] = x.ids[j]
  <2> DEFINE q == Queued(o)
             s == x.ids
  <2>0. s \in Seq(Nat) /\ q \in Seq(Nat) /\ (\A j \in DOMAIN q : q[j] = 0) /\ y.ids = s \o q
    BY <1>2, <1>3, <1>4
  <2> HIDE DEF q, s, x, y
  <2>1. /\ DOMAIN y.ids = 1..(Len(s) + Len(q)) /\ Len(s) \in Nat /\ Len(q) \in Nat
        /\ DOMAIN s = 1..Len(s)
    BY <2>0
  <2>2. \A j \in DOMAIN s : j \in DOMAIN y.ids /\ y.ids[j] = s[j]
    BY <2>0, <2>1
  <2>3. ASSUME NEW j \in DOMAIN y.ids, j \notin DOMAIN s
        PROVE  y.ids[j] = 0
    <3>1. j \in Nat /\ j > Len(s) /\ j <= Len(s) + Len(q)
      BY <2>1, <2>3
    <3>2. y.ids[j] = q[j - Len(s)] /\ j - Len(s) \in 1..Len(q)
      BY <2>0, <2>1, <3>1
    <3> QED BY <2>0, <3>2
  <2> QED BY <2>2, <2>3 DEF Entries, s
<1>6. Fits(y, transfers) /\ Tallied(y) /\ Unread(y, 1)
  BY <1>1, <1>4, <1>5 DEF FillHolds, Fits, Tallied, Having, Unread
<1>7. /\ batches' = Append(batches, y) /\ waits' = Append(waits, 0)
      /\ UNCHANGED <<transfers, gone>> /\ op' = [op EXCEPT ![t] = NoOp]
  BY DEF StoreBatch, Returns
<1> HIDE DEF y
<1> QED BY <1>4, <1>6, <1>7, StoresKeeps DEF Stores

LEMMA EachOfKeeps ==
  ASSUME TInv, NEW t \in Threads, NEW b \in DOMAIN batches, NEW what \in {"pause", "resume", "cancel"}, EachOf(t, what, b)
  PROVE  TInv'
<1> DEFINE x == batches[b]
           p == IF what = "pause" THEN TRUE ELSE IF what = "resume" THEN FALSE ELSE x.paused
           c == x.cancelled \/ what = "cancel"
<1>1. x \in Batches
  BY DEF TInv, TType
<1>2. p \in BOOLEAN /\ c \in BOOLEAN /\ what \in Changes
  BY <1>1 DEF Batches, Changes
<1>3. batches' = [batches EXCEPT ![b].paused = p, ![b].cancelled = c]
  BY DEF EachOf
<1>4. [batches EXCEPT ![b].paused = p, ![b].cancelled = c]
        = [batches EXCEPT ![b] = [batches[b] EXCEPT !.paused = p, !.cancelled = c]]
  <2>1. batches \in Seq(Batches)
    BY DEF TInv, TType
  <2> HIDE DEF p, c
  <2> QED BY <2>1
<1>5. op' = [op EXCEPT ![t] = [pc |-> what, b |-> b, i |-> 1, go |-> FALSE]]
  BY DEF EachOf, Called
<1> HIDE DEF p, c
<1> QED BY <1>2, <1>3, <1>4, <1>5, SetsFlagsKeeps DEF SetsFlags, EachOf

(* The calls that wait for the transfers of a batch. *)
LEMMA WaitForBatchKeeps ==
  ASSUME TInv, NEW t \in Threads, NEW b \in DOMAIN batches, NEW timed \in BOOLEAN, WaitForBatch(t, b, timed)
  PROVE  TInv'
<1>1. Begins(t, b)
  BY DEF Begins, WaitForBatch, Called, OpAt
<1> QED BY <1>1, BeginsKeeps

LEMMA WaitKinds ==
  ASSUME NEW c \in WaitOps, NEW ts, NEW bs, NEW ws, WaitHolds(c, bs, ws)
  PROVE  c \in Ops /\ OpHolds(c, ts, bs, ws)
BY DEF WaitOps, Ops, OpHolds, Changes, Waiting

LEMMA WaitNextKeeps ==
  ASSUME TInv, NEW t \in Threads, WaitNext(t)
  PROVE  TInv'
<1> DEFINE o == op[t]
           x == batches[o.b]
<1>0. /\ TType /\ transfers \in Seq(Contexts) /\ op \in [Threads -> Ops] /\ batches \in Seq(Batches)
      /\ UNCHANGED <<transfers, batches, waits, gone>> /\ GoOn(transfers, transfers')
  BY GoOnSame DEF TInv, TType, WaitNext
<1>1. o \in WaitOps /\ o.pc = "next" /\ o.pc \in Waiting /\ WaitHolds(o, batches, waits) /\ o.b \in DOMAIN batches
  BY <1>0, OpKinds DEF WaitNext, OpAt, Waiting, TInv, OpsHold, OpHolds, WaitHolds
<1>2. x \in Batches /\ o.i \in Nat /\ o.i >= 1 /\ x.ids \in Seq(Nat)
  <2>1. x \in Batches
    BY <1>0, <1>1
  <2> QED BY <1>1, <2>1 DEF WaitOps, WaitHolds, Batches
<1>3. op' = [op EXCEPT ![t] = IF ~Left(t) THEN NoOp
                             ELSE IF IdNow(t) = 0 THEN Following(t)
                             ELSE [op[t] EXCEPT !.pc = "wait", !.id = IdNow(t)]]
  BY DEF WaitNext
<1>4. CASE ~Left(t)
  <2>1. NoOp \in Ops /\ OpHolds(NoOp, transfers', batches, waits) /\ NoOp.pc \notin Waiting
    BY SimpleKinds DEF NoOp, Simple
  <2>2. op' = [op EXCEPT ![t] = NoOp]
    BY <1>3, <1>4
  <2> QED BY <1>0, <2>1, <2>2, ProceedsGoesOn, WorksWith
<1>5. CASE Left(t) /\ IdNow(t) = 0
  <2> DEFINE c == [o EXCEPT !.i = o.i + 1]
  <2>1. c \in WaitOps /\ c.b = o.b /\ c.pc = "next" /\ c.i = o.i + 1
    <3> HIDE DEF o
    <3> QED BY <1>1, <1>2 DEF WaitOps
  <2>2. op' = [op EXCEPT ![t] = c]
    BY <1>3, <1>5 DEF Following
  <2>3. waits[o.b] = 1 => Unread(x, o.i + 1)
    <3>1. \A j \in Entries(x) : j \in Nat /\ (j >= o.i + 1 => j >= o.i)
      BY <1>2 DEF Entries
    <3> QED BY <1>1, <3>1 DEF WaitHolds, Unread
  <2>4. WaitHolds(c, batches, waits)
    BY <1>1, <1>2, <2>1, <2>3 DEF WaitHolds
  <2> HIDE DEF c
  <2>5. c \in Ops /\ OpHolds(c, transfers', batches, waits)
    BY <2>1, <2>4, WaitKinds
  <2> QED BY <1>0, <1>1, <2>1, <2>2, <2>5, ProceedsGoesOn, WorksWith
<1>6. CASE Left(t) /\ IdNow(t) # 0
  <2> DEFINE c == [o EXCEPT !.pc = "wait", !.id = IdNow(t)]
  <2>0. IdNow(t) = x.ids[o.i] /\ o.i \in DOMAIN x.ids /\ IdNow(t) \in Nat /\ o.i \in Entries(x)
    <3>1. IdNow(t) = x.ids[o.i] /\ o.i <= Len(x.ids)
      BY <1>6 DEF Left, IdNow
    <3> HIDE DEF x, o
    <3>2. o.i \in DOMAIN x.ids /\ x.ids[o.i] \in Nat
      BY <1>2, <3>1
    <3> QED BY <1>6, <3>1, <3>2 DEF Entries
  <2>1. c \in WaitOps /\ c.b = o.b /\ c.pc = "wait" /\ c.i = o.i /\ c.id = x.ids[o.i]
    <3> DEFINE id == IdNow(t)
    <3>1. c = [o EXCEPT !.pc = "wait", !.id = id] /\ id = x.ids[o.i] /\ id \in Nat
      BY <2>0
    <3> HIDE DEF o, id, c
    <3>2. c \in WaitOps /\ c.b = o.b /\ c.pc = "wait" /\ c.i = o.i /\ c.id = id
      BY <1>1, <3>1 DEF WaitOps, Waiting
    <3> QED BY <3>1, <3>2
  <2>2. op' = [op EXCEPT ![t] = c]
    BY <1>3, <1>6
  <2>4. WaitHolds(c, batches, waits)
    BY <1>1, <1>2, <2>0, <2>1 DEF WaitHolds
  <2> HIDE DEF c
  <2>5. c \in Ops /\ OpHolds(c, transfers', batches, waits)
    BY <2>1, <2>4, WaitKinds
  <2> QED BY <1>0, <1>1, <2>1, <2>2, <2>5, ProceedsGoesOn, WorksWith
<1> QED BY <1>4, <1>5, <1>6
LEMMA ResultKeeps ==
  ASSUME TInv, NEW t \in Threads, op[t].pc \in {"wait", "asleep"}, NEW ok \in BOOLEAN, Recorded(t, ok),
         op' = [op EXCEPT ![t] = [Following(t) EXCEPT !.pc = "next"]], UNCHANGED <<transfers, waits, gone>>
  PROVE  TInv'
BY RecordsKeeps DEF Records

LEMMA WaitForTransferKeeps ==
  ASSUME TInv, NEW t \in Threads, WaitForOne(t)
  PROVE  TInv'
<1> DEFINE o == op[t]
<1>1. CASE transfers[o.id].state \in Terminal
  <2> DEFINE ok == transfers[o.id].state = "completed"
  <2>1. Recorded(t, ok) /\ op' = [op EXCEPT ![t] = [Following(t) EXCEPT !.pc = "next"]]
    BY <1>1 DEF WaitForOne
  <2>2. op[t].pc \in {"wait", "asleep"} /\ UNCHANGED <<transfers, waits, gone>> /\ ok \in BOOLEAN
    BY DEF WaitForOne, OpAt
  <2> HIDE DEF ok
  <2> QED BY <2>1, <2>2, ResultKeeps
<1>2. CASE transfers[o.id].state \notin Terminal
  <2>0. /\ TType /\ transfers \in Seq(Contexts) /\ op \in [Threads -> Ops]
        /\ UNCHANGED <<transfers, batches, waits, gone>> /\ GoOn(transfers, transfers')
    BY <1>2, GoOnSame DEF TInv, TType, WaitForOne
  <2>1. o \in WaitOps /\ o.pc = "wait" /\ o.pc \in Waiting /\ WaitHolds(o, batches, waits)
    BY <2>0, OpKinds DEF WaitForOne, OpAt, Waiting, TInv, OpsHold, OpHolds
  <2> DEFINE c == [o EXCEPT !.pc = "asleep"]
  <2>2. c \in WaitOps /\ c.b = o.b /\ c.pc = "asleep" /\ c.i = o.i /\ c.id = o.id
    <3> HIDE DEF o
    <3> QED BY <2>1 DEF WaitOps, Waiting
  <2>3. op' = [op EXCEPT ![t] = c]
    BY <1>2, <2>0 DEF WaitForOne, OpGoes
  <2>4. WaitHolds(c, batches, waits)
    BY <2>1, <2>2 DEF WaitHolds
  <2> HIDE DEF c
  <2>5. c \in Ops /\ OpHolds(c, transfers', batches, waits)
    BY <2>2, <2>4, WaitKinds
  <2> QED BY <2>0, <2>1, <2>2, <2>3, <2>5, ProceedsGoesOn, WorksWith
<1> QED BY <1>1, <1>2

LEMMA WaitTimesOutKeeps ==
  ASSUME TInv, NEW t \in Threads, WaitTimesOut(t)
  PROVE  TInv'
<1>1. CASE Recorded(t, FALSE) /\ op' = [op EXCEPT ![t] = [Following(t) EXCEPT !.pc = "next"]]
  BY <1>1, ResultKeeps DEF WaitTimesOut, OpAt
<1>2. CASE Returns(t) /\ UNCHANGED batches
  <2>1. /\ TType /\ UNCHANGED <<transfers, batches, waits, gone>> /\ GoOn(transfers, transfers')
    BY <1>2, GoOnSame DEF TInv, TType, WaitTimesOut
  <2>2. NoOp \in Ops /\ OpHolds(NoOp, transfers', batches, waits) /\ NoOp.pc \notin Waiting
    BY SimpleKinds DEF NoOp, Simple
  <2>3. op' = [op EXCEPT ![t] = NoOp]
    BY <1>2 DEF Returns
  <2> QED BY <2>1, <2>2, <2>3, ProceedsGoesOn, WorksWith
<1> QED BY <1>1, <1>2 DEF WaitTimesOut

(* The server's messages: no thread's step. *)
LEMMA ServerKeeps ==
  ASSUME TInv, NEW id \in DOMAIN transfers, DownloadGoesOn(id) \/ DownloadFails(id) \/ DownloadCompletes(id)
  PROVE  TInv'
<1>0. TType /\ transfers \in Seq(Contexts) /\ op \in [Threads -> Ops]
  BY DEF TInv, TType
<1>1. UNCHANGED <<batches, waits, gone>> /\ transfers[id].dir = "down"
  BY DEF DownloadGoesOn, DownloadFails, DownloadCompletes
<1>2. PICK s \in States : StateSet(id, s)
  BY DEF DownloadGoesOn, DownloadFails, DownloadCompletes, States, Terminal
<1>3. GoOn(transfers, transfers')
  <2>1. /\ transfers' = [transfers EXCEPT ![id] =
               [state |-> s, dir |-> transfers[id].dir, cancelled |-> transfers[id].cancelled]]
        /\ transfers[id].cancelled \in BOOLEAN
    BY <1>0, <1>2, SetsAsRecord
  <2> QED BY <1>0, <1>1, <2>1, StateSetGoesOn
<1>4. PICK t : t \notin Threads
  BY NoSetContainsEverything
<1>5. \A u \in Threads : Woken(op[u], op'[u])
  BY <1>0 DEF DownloadGoesOn, DownloadFails, DownloadCompletes, Woken
<1>6. op' = [u \in Threads |-> op'[u]]
  BY <1>0 DEF DownloadGoesOn, DownloadFails, DownloadCompletes
<1>7. op' \in [Threads -> Ops]
  <2>1. \A u \in Threads : op'[u] \in Ops
    BY <1>0, <1>5, WokenKinds
  <2> QED BY <1>6, <2>1
<1> QED BY <1>1, <1>3, <1>4, <1>5, <1>7, WorksKeeps DEF Works, OthersGoOn

-----------------------------------------------------------------------------
LEMMA TInvInit == ASSUME TransfersInit PROVE TInv
<1>1. NoOp \in Ops /\ OpHolds(NoOp, transfers, batches, waits) /\ NoOp.pc \notin Waiting
  BY SimpleKinds DEF NoOp, Simple
<1>2. TType
  <2>1. transfers \in Seq(Contexts) /\ batches \in Seq(Batches) /\ waits \in Seq(Nat)
    BY DEF TransfersInit
  <2>2. op \in [Threads -> Ops]
    BY <1>1 DEF TransfersInit
  <2> QED BY <2>1, <2>2 DEF TType, TransfersInit
<1>3. BatchesHold /\ GoneHold
  BY DEF TransfersInit, BatchesHold, GoneHold
<1>4. \A t \in Threads : op[t] = NoOp
  BY DEF TransfersInit
<1> QED BY <1>1, <1>2, <1>3, <1>4 DEF TInv, OpsHold, OneWaits, AloneIn

LEMMA TInvNext == ASSUME ClientAssumption, TInv, [TransfersNext]_transfersVars PROVE TInv'
<1>1. ASSUME NEW t \in Threads, User(t)
      PROVE  TInv'
  <2>1. CASE Connect(t) \/ Disconnect(t)
    BY <2>1, SimpleKeeps
  <2>2. CASE UploadFile(t)
    BY <2>2, UploadFileKeeps
  <2>3. CASE \E dir \in {"up", "down"}, n \in BatchSizes, max \in MaxConcurrent, c \in BOOLEAN :
               StartBatch(t, dir, n, max, c)
    BY <2>3, StartBatchKeeps
  <2>4. CASE ByHandle(t)
    BY <2>4, OneTransferKeeps DEF ByHandle
  <2>5. CASE ByBatchHandle(t)
    BY <2>5, EachOfKeeps, WaitForBatchKeeps DEF ByBatchHandle
  <2> QED BY <1>1, <2>1, <2>2, <2>3, <2>4, <2>5 DEF User
<1>2. ASSUME NEW t \in Threads, OpStep(t)
      PROVE  TInv'
  <2>1. CASE ConnectBegins(t) \/ ConnectEnds(t) \/ DisconnectEnds(t)
    BY <2>1, SimpleKeeps
  <2>2. CASE StartOne(t) \/ StartFails(t) \/ StoreBatch(t)
    BY <2>2, StartOneKeeps, StartFailsKeeps, StoreBatchKeeps
  <2>3. CASE LookAt(t) \/ Change(t) \/ EachDone(t)
    BY <2>3, LookAtKeeps, ChangeKeeps, EachDoneKeeps
  <2>4. CASE WaitNext(t) \/ WaitForOne(t) \/ WaitTimesOut(t)
    BY <2>4, WaitNextKeeps, WaitForTransferKeeps, WaitTimesOutKeeps
  <2> QED BY <1>2, <2>1, <2>2, <2>3, <2>4 DEF OpStep
<1>3. CASE Server
  BY <1>3, ServerKeeps DEF Server
<1>4. CASE UNCHANGED transfersVars
  BY <1>4 DEF transfersVars, TInv, TType, BatchesHold, OpsHold, OneWaits, AloneIn, GoneHold
<1> QED BY <1>1, <1>2, <1>3, <1>4 DEF TransfersNext

LEMMA TInvAlways == ASSUME ClientAssumption PROVE TransfersSpec => []TInv
<1>1. TransfersInit => TInv
  BY TInvInit
<1>2. TInv /\ [TransfersNext]_transfersVars => TInv'
  BY TInvNext
<1> QED BY <1>1, <1>2, PTL DEF TransfersSpec

(* wait_for_batch counts each file of a batch once and as its result says, *)
(* for any threads and batches, whatever is paused, cancelled or failing   *)
(* meanwhile: as long as a batch was waited for once, what get_result      *)
(* reports as succeeded and failed is what it lists, the files without a   *)
(* name, which were never started or not waited for, left out.             *)
THEOREM CountsAreResults == ASSUME ClientAssumption PROVE TransfersSpec => []CountsMatchResults
<1>1. TInv => CountsMatchResults
  <2> SUFFICES ASSUME TInv, NEW b \in DOMAIN batches, waits[b] <= 1
               PROVE  /\ batches[b].completed = Cardinality({i \in DOMAIN batches[b].results : batches[b].results[i].success})
                      /\ batches[b].failed = Cardinality({i \in DOMAIN batches[b].results :
                                                           batches[b].results[i].named /\ ~batches[b].results[i].success})
    BY DEF CountsMatchResults, GetResult
  <2> DEFINE x == batches[b]
  <2>1. Tallied(x)
    BY DEF TInv, BatchesHold, BatchHolds
  <2>2. x.results \in Seq({NotStarted, Succeeded, Failed})
    <3>1. batches \in Seq(Batches)
      BY DEF TInv, TType
    <3>2. x \in Batches
      BY <3>1
    <3> QED BY <3>2 DEF Batches
  <2>3. \A i \in DOMAIN x.results : x.results[i] \in {NotStarted, Succeeded, Failed}
    BY <2>2
  <2>4. Having(x, Succeeded) = {i \in DOMAIN x.results : x.results[i].success}
    BY <2>3, ResultsDiffer DEF Having
  <2>5. Having(x, Failed) = {i \in DOMAIN x.results : x.results[i].named /\ ~x.results[i].success}
    BY <2>3, ResultsDiffer DEF Having
  <2> QED BY <2>1, <2>4, <2>5 DEF Tallied
<1> QED BY <1>1, TInvAlways, PTL

(* Once cancel_batch has returned no upload of the batch runs and none     *)
(* runs again, for any threads and batches, though pause_batch and         *)
(* resume_batch act on a status they read earlier: is_valid_transition     *)
(* lets no cancelled transfer go on.                                       *)
THEOREM CancelledForGood == ASSUME ClientAssumption PROVE TransfersSpec => []CancelledStays
<1>1. TInv => CancelledStays
  <2>1. SUFFICES ASSUME TInv, NEW b \in gone, batches[b].dir = "up", NEW id \in Handles(b)
                 PROVE  transfers[id].state = "cancelled"
    BY DEF CancelledStays
  <2>2. PICK j \in DOMAIN batches[b].ids : id = batches[b].ids[j] /\ j \in Entries(batches[b])
    BY DEF Handles, Entries
  <2> QED BY <2>1, <2>2 DEF TInv, GoneHold, Cancelled
<1> QED BY <1>1, TInvAlways, PTL
=============================================================================
