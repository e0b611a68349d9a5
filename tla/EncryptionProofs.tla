-------------------------- MODULE EncryptionProofs --------------------------
(***************************************************************************)
(* What an engine shared by threads and the manager its keys come from     *)
(* promise, for any number of threads, keys, nonce sizes and pieces, with  *)
(* cipher faults and rotations under way: nonces repeat only after the     *)
(* counter has turned over, what a decrypting stream vouches for is what   *)
(* was sealed, the keys of what was sealed stay in reach, and a key        *)
(* derived again is one that is stored or set aside.                       *)
(***************************************************************************)
EXTENDS Encryption, Integers, TLAPS

\* What a call has, once it has begun, and the contexts of streams.
JobFields    == {"kind", "n", "body", "iv", "drawn"}
StreamFields == {"by", "encrypting", "key", "iv", "aad", "keyed", "body", "tag", "of"}

CounterNonce(r) == r.drawn \in Nat /\ r.drawn < counter /\ r.iv = Iv("counter", CounterPart(r.drawn), ivSize)

\* A text in the making whose nonce was drawn.
Drawing(t) == job[t] # NoJob /\ job[t].kind = "text" /\ job[t].iv # NoJob

\* Each value of the counter was drawn once, by a call underway or a sealed text.
DrawnOnce ==
  /\ counter \in Nat
  /\ \A t \in Sealers : Drawing(t) => CounterNonce(job[t])
  /\ \A c \in sealed : c.kind = "text" => CounterNonce(c)
  /\ \A t, u \in Sealers : Drawing(t) /\ Drawing(u) /\ job[t].drawn = job[u].drawn => t = u
  /\ \A t \in Sealers : Drawing(t) => \A c \in sealed : c.kind = "text" => c.drawn # job[t].drawn
  /\ \A c, d \in sealed : c.kind = "text" /\ d.kind = "text" /\ c.drawn = d.drawn => c = d

\* A tag is of the text it was computed from, and a decrypting stream has its ciphertext's tag or none.
TagsBind ==
  /\ \A c \in sealed : c.tag.body = c.body
  /\ stream # NoJob /\ ~stream.encrypting /\ stream.tag # NoTag => stream.tag.body = stream.of.body

EInv ==
  /\ job = [t \in Sealers |-> job[t]]
  /\ \A t \in Sealers : job[t] # NoJob => JobFields \subseteq DOMAIN job[t]
  /\ stream # NoJob => DOMAIN stream = StreamFields
  /\ DrawnOnce /\ TagsBind /\ OpenedIsSealed

-----------------------------------------------------------------------------
\* Numbers that are a multiple of n apart are equal or at least n apart.
LEMMA Apart ==
  ASSUME NEW n \in Nat \ {0}, NEW q \in Nat, NEW p \in Nat, q > p
  PROVE  n * q >= n * p + n
<1>1. q = p + 1 + (q - p - 1) /\ q - p - 1 \in Nat OBVIOUS
<1>2. PICK d \in Nat : q = p + 1 + d BY <1>1
<1>3. n * q = n * p + n + n * d BY <1>2
<1>4. n * d >= 0 OBVIOUS
<1>5. QED BY <1>3, <1>4

LEMMA Division ==
  ASSUME NEW n \in Nat \ {0}, NEW a \in Nat
  PROVE  a % n \in Nat /\ \E q \in Nat : a = n * q + (a % n)
<1> DEFINE q == a \div n
           r == a % n
<1>1. r \in Nat /\ q \in Nat OBVIOUS
<1>2. r = a - n * q BY SMTT(30)
<1> HIDE DEF q, r
<1>3. a = n * q + r BY <1>1, <1>2
<1>4. QED BY <1>1, <1>3 DEF r

LEMMA SameRemainder ==
  ASSUME NEW n \in Nat \ {0}, NEW a \in Nat, NEW b \in Nat, a % n = b % n, a # b
  PROVE  a >= b + n \/ b >= a + n
<1>1. PICK q \in Nat, p \in Nat, r \in Nat : a = n * q + r /\ b = n * p + r
  <2> DEFINE r == a % n
  <2>1. PICK q \in Nat : a = n * q + (a % n) BY Division, Zenon
  <2>2. PICK p \in Nat : b = n * p + (b % n) BY Division, Zenon
  <2>3. r \in Nat /\ b % n = r BY Division
  <2> HIDE DEF r
  <2>4. a = n * q + r /\ b = n * p + r BY <2>1, <2>2, <2>3 DEF r
  <2>5. QED BY <2>3, <2>4
<1>2. q > p \/ p > q BY <1>1
<1>3. n * q \in Nat /\ n * p \in Nat OBVIOUS
<1>4. QED BY <1>1, <1>2, <1>3, Apart

-----------------------------------------------------------------------------
LEMMA InitEInv == Init => EInv
BY DEF Init, EngineInit, EInv, DrawnOnce, TagsBind, OpenedIsSealed, Drawing

LEMMA StaysEInv == EInv /\ UNCHANGED engineVars => EInv'
BY DEF EInv, engineVars, DrawnOnce, TagsBind, OpenedIsSealed, Drawing, CounterNonce, CounterPart

\* Calls that begin or end, and leave nonces and texts alone.
LEMMA JobReplaced ==
  ASSUME EInv, NEW t \in Sealers, NEW j, job' = [job EXCEPT ![t] = j],
         j = NoJob \/ (JobFields \subseteq DOMAIN j /\ (j.kind # "text" \/ j.iv = NoJob)),
         UNCHANGED <<ivSize, counter, sealed, stream, opened>>
  PROVE  EInv'
<1>1. \A u \in Sealers : job'[u] = IF u = t THEN j ELSE job[u] BY DEF EInv
<1>2. /\ job' = [u \in Sealers |-> job'[u]]
      /\ \A u \in Sealers : job'[u] # NoJob => JobFields \subseteq DOMAIN job'[u]
  BY <1>1 DEF EInv
<1>3. \A u \in Sealers : Drawing(u)' => Drawing(u) /\ job'[u] = job[u] BY <1>1 DEF Drawing
<1>4. DrawnOnce' BY <1>3 DEF EInv, DrawnOnce, CounterNonce, CounterPart
<1>5. QED BY <1>2, <1>4 DEF EInv, TagsBind, OpenedIsSealed

LEMMA DrawKeepsEInv ==
  ASSUME EInv, NEW t \in Sealers, generate_counter_iv(t)
  PROVE  EInv'
<1> DEFINE iv == Iv("counter", CounterPart(counter), ivSize)
<1>1. \A u \in Sealers : u # t => job'[u] = job[u] BY DEF EInv, generate_counter_iv
<1>2. /\ job'[t].kind = job[t].kind /\ job'[t].iv = iv /\ job'[t].drawn = counter
      /\ DOMAIN job'[t] = DOMAIN job[t]
  BY DEF EInv, generate_counter_iv, JobFields
<1>3. counter' = counter + 1 /\ counter \in Nat /\ UNCHANGED <<ivSize, sealed, stream, opened>>
  BY DEF EInv, generate_counter_iv, DrawnOnce
<1>4. job' = [u \in Sealers |-> job'[u]] BY DEF EInv, generate_counter_iv
<1>5. \A u \in Sealers : job'[u] # NoJob => JobFields \subseteq DOMAIN job'[u]
  BY <1>1, <1>2 DEF EInv, generate_counter_iv
<1>6. \A u \in Sealers : Drawing(u)' => IF u = t THEN job'[u].drawn = counter /\ job'[u].iv = iv
                                        ELSE Drawing(u) /\ job'[u] = job[u]
  BY <1>1, <1>2 DEF Drawing
<1>7. \A r : CounterNonce(r) => r.drawn \in Nat /\ r.drawn < counter /\ r.drawn < counter' /\ r.drawn # counter
  BY <1>3 DEF CounterNonce
<1>8. DrawnOnce' BY <1>3, <1>6, <1>7 DEF EInv, DrawnOnce, CounterNonce, CounterPart
<1>9. QED BY <1>3, <1>4, <1>5, <1>8 DEF EInv, TagsBind, OpenedIsSealed

LEMMA ChunkNonceKeepsEInv ==
  ASSUME EInv, NEW t \in Sealers, derive_chunk_iv(t)
  PROVE  EInv'
<1>1. \A u \in Sealers : u # t => job'[u] = job[u] BY DEF EInv, derive_chunk_iv
<1>2. job'[t].kind = "chunk" /\ DOMAIN job'[t] = DOMAIN job[t] BY DEF EInv, derive_chunk_iv, JobFields
<1>3. job' = [u \in Sealers |-> job'[u]] BY DEF EInv, derive_chunk_iv
<1>4. \A u \in Sealers : job'[u] # NoJob => JobFields \subseteq DOMAIN job'[u]
  BY <1>1, <1>2 DEF EInv, derive_chunk_iv
<1>5. \A u \in Sealers : Drawing(u)' => Drawing(u) /\ job'[u] = job[u] BY <1>1, <1>2 DEF Drawing
<1>6. UNCHANGED <<ivSize, counter, sealed, stream, opened>> BY DEF derive_chunk_iv
<1>7. \A r : CounterNonce(r)' <=> CounterNonce(r) BY <1>6 DEF CounterNonce, CounterPart
<1>8. DrawnOnce' BY <1>5, <1>6, <1>7 DEF EInv, DrawnOnce
<1>9. QED BY <1>3, <1>4, <1>6, <1>8 DEF EInv, TagsBind, OpenedIsSealed

LEMMA SealKeepsEInv ==
  ASSUME EInv, NEW t \in Sealers, NEW kind \in {"text", "chunk"}, NEW length, FinishSeal(t, kind, length)
  PROVE  EInv'
<1>1. job[t] # NoJob /\ job[t].kind = kind /\ job[t].iv # NoJob /\ job' = [job EXCEPT ![t] = NoJob]
      /\ UNCHANGED <<ivSize, counter, stream, opened>>
  BY DEF FinishSeal
<1>2. \A u \in Sealers : job'[u] = IF u = t THEN NoJob ELSE job[u] BY <1>1 DEF EInv
<1>3. /\ job' = [u \in Sealers |-> job'[u]]
      /\ \A u \in Sealers : job'[u] # NoJob => JobFields \subseteq DOMAIN job'[u]
  BY <1>1, <1>2 DEF EInv
<1>4. \A u \in Sealers : Drawing(u)' => u # t /\ Drawing(u) /\ job'[u] = job[u] BY <1>2 DEF Drawing
<1>5. CASE sealed' = sealed
  BY <1>1, <1>3, <1>4, <1>5 DEF EInv, DrawnOnce, CounterNonce, CounterPart, TagsBind, OpenedIsSealed
<1>6. CASE sealed' # sealed
  <2> DEFINE c == [kind |-> kind, n |-> job[t].n, under |-> key, iv |-> job[t].iv, drawn |-> job[t].drawn,
                   aad |-> AadOf(kind), body |-> job[t].body, tag |-> Tag(key, job[t].iv, length, AadOf(kind), job[t].body)]
  <2>1. sealed' = sealed \cup {c} BY <1>6 DEF FinishSeal
  <2>2. c.kind = kind /\ c.iv = job[t].iv /\ c.drawn = job[t].drawn /\ c.tag.body = c.body BY DEF Tag
  <2> HIDE DEF c
  <2>3. kind = "text" => Drawing(t) BY <1>1 DEF Drawing
  <2>4. DrawnOnce'
    <3>1. \A d \in sealed' : d.kind = "text" => CounterNonce(d)'
      BY <1>1, <2>1, <2>2, <2>3 DEF EInv, DrawnOnce, CounterNonce, CounterPart
    <3>2. \A u \in Sealers : Drawing(u)' => \A d \in sealed' : d.kind = "text" => d.drawn # job'[u].drawn
      BY <1>1, <1>4, <2>1, <2>2, <2>3 DEF EInv, DrawnOnce
    <3>3. \A d, e \in sealed' : d.kind = "text" /\ e.kind = "text" /\ d.drawn = e.drawn => d = e
      BY <2>1, <2>2, <2>3 DEF EInv, DrawnOnce
    <3>4. QED BY <1>1, <1>4, <3>1, <3>2, <3>3 DEF EInv, DrawnOnce, CounterNonce, CounterPart
  <2>5. TagsBind' /\ OpenedIsSealed' BY <1>1, <2>1, <2>2 DEF EInv, TagsBind, OpenedIsSealed
  <2>6. QED BY <1>1, <1>3, <2>4, <2>5 DEF EInv
<1>7. QED BY <1>5, <1>6

\* A stream begins, is fed or ends.
LEMMA StreamKeepsEInv ==
  ASSUME EInv, UNCHANGED <<ivSize, counter, job>>,
         stream' # NoJob => DOMAIN stream' = StreamFields,
         stream' # NoJob /\ ~stream'.encrypting /\ stream'.tag # NoTag => stream'.tag.body = stream'.of.body,
         sealed' = sealed \/ \E c : sealed' = sealed \cup {c} /\ c.kind = "stream" /\ c.tag.body = c.body,
         opened' = opened \/ \E p : opened' = opened \cup {p} /\ p[2] = p[1].body
  PROVE  EInv'
<1>1. \A c \in sealed' : c.tag.body = c.body /\ (c.kind = "text" => c \in sealed) BY DEF EInv, TagsBind
<1>2. \A p \in opened' : p[2] = p[1].body BY DEF EInv, OpenedIsSealed
<1>3. DrawnOnce' BY <1>1 DEF EInv, DrawnOnce, Drawing, CounterNonce, CounterPart
<1>4. QED BY <1>1, <1>2, <1>3 DEF EInv, TagsBind, OpenedIsSealed

LEMMA StreamStepKeepsEInv ==
  ASSUME EInv, NEW t \in Sealers, StreamStep(t)
  PROVE  EInv'
<1>1. CASE \E piece \in Texts : process_chunk(t, piece)
  <2>1. PICK piece \in Texts : process_chunk(t, piece) BY <1>1
  <2>2. stream # NoJob /\ stream' = [stream EXCEPT !.body = Append(@, piece)] BY <2>1 DEF process_chunk
  <2>3. DOMAIN stream' = StreamFields /\ stream'.encrypting = stream.encrypting /\ stream'.tag = stream.tag
        /\ stream'.of = stream.of
    BY <2>2 DEF EInv, StreamFields
  <2>4. QED BY <2>1, <2>2, <2>3, StreamKeepsEInv DEF process_chunk, EInv, TagsBind
<1>2. CASE finalize_encrypt(t)
  <2> DEFINE c == [kind |-> "stream", n |-> stream.iv.n, under |-> stream.key, iv |-> stream.iv, drawn |-> 0,
                   aad |-> Aad, body |-> stream.body, tag |-> Tag(stream.key, stream.iv, ivSize, stream.aad, stream.body)]
  <2>1. sealed' = sealed \/ sealed' = sealed \cup {c} BY <1>2 DEF finalize_encrypt
  <2>2. c.kind = "stream" /\ c.tag.body = c.body BY DEF Tag
  <2> HIDE DEF c
  <2>3. QED BY <1>2, <2>1, <2>2, StreamKeepsEInv DEF finalize_encrypt, EndStream
<1>3. CASE finalize_decrypt(t)
  <2>1. stream # NoJob /\ stream.encrypting = FALSE /\ stream' = NoJob /\ UNCHANGED <<ivSize, counter, job, sealed>>
    BY <1>3 DEF finalize_decrypt, EndStream
  <2>2. opened' = opened \/ (opened' = opened \cup {<<stream.of, stream.body>>} /\ Authentic(stream))
    BY <1>3 DEF finalize_decrypt
  <2>3. Authentic(stream) => stream.tag # NoTag /\ stream.tag.body = stream.body BY DEF Authentic, Tag
  <2>4. stream.tag # NoTag => stream.tag.body = stream.of.body BY <2>1 DEF EInv, TagsBind
  <2> DEFINE p == <<stream.of, stream.body>>
  <2>5. p[1] = stream.of /\ p[2] = stream.body OBVIOUS
  <2> HIDE DEF p
  <2>6. opened' = opened \/ (opened' = opened \cup {p} /\ p[2] = p[1].body)
    BY <2>2, <2>3, <2>4, <2>5 DEF p
  <2>7. QED BY <2>1, <2>6, StreamKeepsEInv
<1>4. QED BY <1>1, <1>2, <1>3 DEF StreamStep

\* However far initialize got, only the fields it is about differ.
LEMMA InitializedOf ==
  ASSUME NEW context, NEW s \in Initialized(context), DOMAIN context = StreamFields
  PROVE  /\ DOMAIN s = StreamFields /\ s.encrypting = context.encrypting /\ s.key = context.key
         /\ s.iv = context.iv /\ s.of = context.of /\ (s.tag = context.tag \/ s.tag = NoTag)
BY DEF Initialized, StreamFields

LEMMA EngineStepKeepsEInv ==
  ASSUME EInv, NEW t \in Sealers, EngineStep(t)
  PROVE  EInv'
<1>1. CASE encrypt(t) \/ encrypt_chunk(t)
  <2>1. PICK kind \in {"text", "chunk"} : BeginSeal(t, kind) BY <1>1 DEF encrypt, encrypt_chunk
  <2> DEFINE j == [kind |-> kind, n |-> seals, body |-> <<Text>>, iv |-> NoJob, drawn |-> 0]
  <2>2. DOMAIN j = JobFields /\ j.iv = NoJob BY DEF JobFields
  <2>3. job' = [job EXCEPT ![t] = j] /\ UNCHANGED <<ivSize, counter, sealed, stream, opened>>
    BY <2>1 DEF BeginSeal
  <2> HIDE DEF j
  <2>4. QED BY <2>2, <2>3, JobReplaced
<1>2. CASE \E c \in sealed : decrypt(t, c)
  <2>1. PICK c \in sealed : decrypt(t, c) BY <1>2
  <2> DEFINE j == [kind |-> "open", n |-> seals, body |-> c.body, iv |-> c.iv, drawn |-> 0, ok |-> Opens(key, c)]
  <2>2. JobFields \subseteq DOMAIN j /\ j.kind # "text" BY DEF JobFields
  <2>3. job' = [job EXCEPT ![t] = j] /\ UNCHANGED <<ivSize, counter, sealed, stream, opened>>
    BY <2>1 DEF decrypt
  <2> HIDE DEF j
  <2>4. QED BY <2>2, <2>3, JobReplaced
<1>3. CASE decrypt_finish(t)
  BY <1>3, JobReplaced DEF decrypt_finish
<1>4. CASE encrypt_finish(t) \/ encrypt_chunk_finish(t)
  BY <1>4, SealKeepsEInv DEF encrypt_finish, encrypt_chunk_finish
<1>5. CASE create_encrypt_stream(t) \/ \E c \in sealed : create_decrypt_stream(t, c)
  <2>1. CASE create_encrypt_stream(t)
    <3>1. stream' \in Initialized(SealingContext(t)) /\ UNCHANGED <<ivSize, counter, job, sealed, opened>>
      BY <2>1 DEF create_encrypt_stream, CreateStream
    <3>2. DOMAIN stream' = StreamFields /\ stream'.encrypting = TRUE
      BY <3>1, InitializedOf DEF SealingContext, StreamFields
    <3>3. QED BY <3>1, <3>2, StreamKeepsEInv
  <2>2. CASE \E c \in sealed : create_decrypt_stream(t, c)
    <3>1. PICK c \in sealed : create_decrypt_stream(t, c) BY <2>2
    <3>2. stream' \in Initialized(OpeningContext(t, c)) /\ UNCHANGED <<ivSize, counter, job, sealed, opened>>
      BY <3>1 DEF create_decrypt_stream, CreateStream
    <3>3. DOMAIN stream' = StreamFields /\ stream'.of = c /\ (stream'.tag = c.tag \/ stream'.tag = NoTag)
      BY <3>2, InitializedOf DEF OpeningContext, StreamFields
    <3>4. c.tag.body = c.body BY DEF EInv, TagsBind
    <3>5. QED BY <3>2, <3>3, <3>4, StreamKeepsEInv
  <2>3. QED BY <1>5, <2>1, <2>2
<1>6. QED
  BY <1>1, <1>2, <1>3, <1>4, <1>5, DrawKeepsEInv, ChunkNonceKeepsEInv, StreamStepKeepsEInv DEF EngineStep

LEMMA NextKeepsEInv == EInv /\ [Next]_vars => EInv'
<1> SUFFICES ASSUME EInv, [Next]_vars PROVE EInv' OBVIOUS
<1>1. CASE UNCHANGED vars BY <1>1, StaysEInv DEF vars
<1>2. CASE DropKey
  BY <1>2 DEF DropKey, clear_key, EInv, DrawnOnce, TagsBind, OpenedIsSealed, Drawing, CounterNonce, CounterPart
<1>3. ASSUME NEW t \in Threads, UseKey(t) PROVE EInv'
  BY <1>3 DEF UseKey, set_key, EInv, DrawnOnce, TagsBind, OpenedIsSealed, Drawing, CounterNonce, CounterPart
<1>4. ASSUME NEW t \in Threads, Manage(t) PROVE EInv' BY <1>4, StaysEInv DEF Manage
<1>5. ASSUME NEW t \in Threads, Seal(t) PROVE EInv'
  BY <1>5, EngineStepKeepsEInv, ThreadsSeal DEF Seal
<1>6. QED BY <1>1, <1>2, <1>3, <1>4, <1>5 DEF Next

LEMMA AlwaysEInv == Spec => []EInv
BY InitEInv, NextKeepsEInv, PTL DEF Spec

(* Two texts sealed under one key with one nonce (of at least 12 bytes)    *)
(* were a whole turn of the counter's four bytes apart, whatever the       *)
(* threads' steps: fetch_add gives each call a value of its own            *)
(* (generate_counter_iv).                                                  *)
THEOREM NoncesAreApart == Spec => []NoncesApart
<1>1. EInv => NoncesApart
  <2> SUFFICES ASSUME EInv, NEW c \in sealed, NEW d \in sealed, ivSize >= 12, c.kind = "text", d.kind = "text",
                      c.iv = d.iv, c # d
               PROVE  c.drawn >= d.drawn + CounterWrap \/ d.drawn >= c.drawn + CounterWrap
    BY DEF NoncesApart
  <2>1. c.drawn \in Nat /\ d.drawn \in Nat /\ c.drawn # d.drawn /\ CounterWrap \in Nat \ {0}
    BY EngineAssumption DEF EInv, DrawnOnce, CounterNonce, CounterPart
  <2>2. \A r : CounterNonce(r) => r.iv.n = r.drawn % CounterWrap BY DEF CounterNonce, CounterPart, Iv
  <2>3. c.drawn % CounterWrap = d.drawn % CounterWrap BY <2>2 DEF EInv, DrawnOnce
  <2>4. QED BY <2>1, <2>3, SameRemainder
<1>2. QED BY <1>1, AlwaysEInv, PTL

(* A decrypting stream whose tag matched gave out the text that was        *)
(* sealed, in whatever order its pieces came (finalize_decrypt).           *)
THEOREM OpenedAreSealed == Spec => []OpenedIsSealed
<1>1. EInv => OpenedIsSealed BY DEF EInv
<1>2. QED BY <1>1, AlwaysEInv, PTL
-----------------------------------------------------------------------------
(* Where the keys of earlier handles are.  A handle made before the last d *)
(* rotations of its id has the d-th last key set aside, if that many are   *)
(* kept; one made since has the key stored.                                *)
KeyTypes ==
  /\ stored \in [Ids -> Keys \cup {None}] /\ meta \in [Ids -> Metadata \cup {None}]
  /\ versions \in [Ids -> Seq([key : Keys, version : Nat])] /\ keep \in Nat
  /\ call \in [Threads -> CallRecords \cup {None}] /\ held \in [Threads -> Handles \cup {None}]
  /\ draws \in Nat
  /\ trail \in [pushes : [Ids -> Nat], epoch : [Ids -> Nat], least : Nat]

\* The d-th last of the keys that were set aside.
Last(s, d) == s[Len(s) - d + 1].key

\* The handle's key k is where d rotations since leave it.
Found(k, d, current, aside, least) ==
  /\ d >= 0 /\ (d = 0 => k = current)
  /\ d >= 1 /\ d <= least => d <= Len(aside) /\ Last(aside, d) = k

\* The ids whose key was set aside and has no successor yet.
Between == {id \in Ids : SettingAside(id)}

Reach(h, st, vs, tr, between) ==
  /\ h.epoch <= tr.epoch[h.id]
  /\ h.epoch = tr.epoch[h.id] =>
       LET d == tr.pushes[h.id] - h.since IN
       /\ st[h.id] # None
       /\ Found(h.key, d, st[h.id], vs[h.id], tr.least)
       /\ d = 0 => h.id \notin between

InReach(h) == Reach(h, stored, versions, trail, Between)

\* A key that was derived goes with the parameters it was derived with.
MadeBy(k, params) ==
  params # NoParams =>
    \E config \in KdfConfigs, password \in Passwords, n \in Numbers, native \in BOOLEAN :
      k = derive_key(config, password, n, native) /\ params = key_derivation_params(config, n)

Rederived(k, params, password) ==
  params # NoParams /\ (k # None => \E native \in BOOLEAN : k = derive_key_with_params(params, password, native))

\* A key that params go with has been in reach since the position of.
DescribedBy(params, id, of, st, vs, tr, between) ==
  params # NoParams =>
    \E k \in Keys : /\ MadeBy(k, params)
                    /\ Reach([id |-> id, key |-> k, epoch |-> of.epoch, since |-> of.since], st, vs, tr, between)

Describes(params, id, of) == DescribedBy(params, id, of, stored, versions, trail, Between)

\* What the steps of a call may rely on.
CallFits(t) ==
  LET c == call[t] IN
  /\ c \in StoreCalls \cup DeleteCalls \cup RotateCalls => t = Owner
  /\ c \in StoreCalls => c.key = stored[c.id] /\ MadeBy(c.key, c.params)
  /\ c \in GetCalls => InReach(c.handle)
  /\ c \in DeleteCalls => stored[c.id] = None
  /\ c \in RotateCalls => c.key = stored[c.id]
  /\ c \in RederiveCalls => Rederived(c.key, c.params, c.password) /\ Describes(c.params, c.id, c.of)

\* The key being rotated was set aside, if keys are.
AsideFirst ==
  \A id \in Between :
    /\ trail.pushes[id] >= 1
    /\ trail.least >= 1 => Len(versions[id]) >= 1 /\ Last(versions[id], 1) = stored[id]

MetaDescribes == \A id \in Ids : meta[id] # None => Describes(meta[id].params, id, meta[id].of)

HeldInReach == \A t \in Threads : held[t] # None => InReach(held[t])

ManagerInv ==
  /\ KeyTypes /\ trail.least <= keep /\ AsideFirst /\ MetaDescribes /\ HeldInReach
  /\ \A t \in Threads : CallFits(t)

\* A handle that is used is one that was given.
Good(h) == h \in Handles /\ InReach(h)

EngineKeys ==
  /\ key # NoKey => Good(key)
  /\ \A t \in Sealers : job[t] # NoJob =>
       /\ key # NoKey
       /\ job[t].kind = "chunk" /\ job[t].iv # NoJob => job[t].iv.size = ivSize
  /\ stream # NoJob => /\ Good(stream.key)
                       /\ stream.encrypting => stream.iv.size = ivSize
  /\ \A c \in sealed :
       /\ Good(c.under)
       /\ (c.kind = "chunk" => ivSize = 12) /\ c.tag.aad = c.aad => c.tag = Tag(c.under, c.iv, c.iv.size, c.aad, c.body)

-----------------------------------------------------------------------------
LEMMA Kinds ==
  ASSUME NEW c \in CallRecords
  PROVE  /\ c # None
         /\ c \in StoreCalls <=> c.op \in {"generate", "derive"}
         /\ c \in GetCalls <=> c.op = "get"
         /\ c \in DeleteCalls <=> c.op = "delete"
         /\ c \in RotateCalls <=> c.op = "rotate"
         /\ c \in RederiveCalls <=> c.op = "rederive"
<1>1. c # None BY NoneIsNothing
<1>2. CASE c \in StoreCalls BY <1>1, <1>2 DEF StoreCalls, GetCalls, DeleteCalls, RotateCalls, RederiveCalls
<1>3. CASE c \in GetCalls BY <1>1, <1>3 DEF StoreCalls, GetCalls, DeleteCalls, RotateCalls, RederiveCalls
<1>4. CASE c \in DeleteCalls BY <1>1, <1>4 DEF StoreCalls, GetCalls, DeleteCalls, RotateCalls, RederiveCalls
<1>5. CASE c \in RotateCalls BY <1>1, <1>5 DEF StoreCalls, GetCalls, DeleteCalls, RotateCalls, RederiveCalls
<1>6. CASE c \in RederiveCalls BY <1>1, <1>6 DEF StoreCalls, GetCalls, DeleteCalls, RotateCalls, RederiveCalls
<1>7. QED BY <1>2, <1>3, <1>4, <1>5, <1>6 DEF CallRecords

\* What a call's kind is told by, a call that is idle included.
LEMMA KindsOfCalls ==
  ASSUME KeyTypes, NEW t \in Threads
  PROVE  /\ None \notin CallRecords
         /\ call[t] # None <=> call[t] \in CallRecords
         /\ call[t] \in StoreCalls <=> call[t] # None /\ call[t].op \in {"generate", "derive"}
         /\ call[t] \in GetCalls <=> call[t] # None /\ call[t].op = "get"
         /\ call[t] \in DeleteCalls <=> call[t] # None /\ call[t].op = "delete"
         /\ call[t] \in RotateCalls <=> call[t] # None /\ call[t].op = "rotate"
         /\ call[t] \in RederiveCalls <=> call[t] # None /\ call[t].op = "rederive"
<1>1. None \notin CallRecords BY NoneIsNothing
<1>2. call[t] \in CallRecords \cup {None} BY DEF KeyTypes
<1>3. CASE call[t] \in CallRecords BY <1>1, <1>3, Kinds
<1>4. CASE call[t] = None BY <1>1, <1>4 DEF CallRecords
<1>5. QED BY <1>2, <1>3, <1>4

\* Whose key is between two steps of a rotation.
LEMMA BetweenIs ==
  ASSUME KeyTypes, NEW id \in Ids
  PROVE  id \in Between <=> call[Owner] \in RotateCalls /\ call[Owner].id = id /\ call[Owner].step = "generate"
<1>1. Owner \in Threads BY KeyManagerAssumption
<1>2. QED BY <1>1, KindsOfCalls DEF Between, SettingAside

LEMMA KeysMade ==
  /\ None \notin Keys
  /\ \A n \in Numbers : RandomKey(n) \in Keys
  /\ \A config \in KdfConfigs, password \in Passwords, n \in Numbers, native \in BOOLEAN :
       derive_key(config, password, n, native) \in Keys
<1>1. None \notin Keys BY NoneIsNothing
<1>2. QED BY <1>1 DEF Keys

\* A key is derived again as it was derived, from the same password by the same function.
LEMMA DerivedAgain ==
  ASSUME NEW config, NEW password, NEW n, NEW native
  PROVE  derive_key_with_params(key_derivation_params(config, n), password, native)
           = derive_key(config, password, n, native)
BY DEF derive_key_with_params, key_derivation_params, derive_key, argon2_with_params, pbkdf2_with_params,
       DeriveArgon2, DerivePbkdf2, argon2_config, pbkdf2_config

LEMMA DerivedAlike ==
  ASSUME NEW config, NEW password, NEW n, NEW a \in BOOLEAN, NEW b \in BOOLEAN,
         derive_key(config, password, n, a).function = derive_key(config, password, n, b).function
  PROVE  derive_key(config, password, n, a) = derive_key(config, password, n, b)
BY DEF derive_key, DeriveArgon2, DerivePbkdf2, Stretch

LEMMA PasswordOfDerived ==
  ASSUME NEW config, NEW password, NEW n, NEW native
  PROVE  derive_key(config, password, n, native).password = password
BY DEF derive_key, DeriveArgon2, DerivePbkdf2, Stretch

-----------------------------------------------------------------------------
\* A handle of the stored key is in reach.
LEMMA NewHandle ==
  ASSUME ManagerInv, NEW id \in Ids, stored[id] # None
  PROVE  Good(Handle(id, stored[id]))
<1> DEFINE h == Handle(id, stored[id])
           P == trail.pushes[id]
<1>1. /\ stored[id] \in Keys /\ P \in Nat /\ trail.epoch[id] \in Nat /\ trail.least \in Nat
  BY DEF ManagerInv, KeyTypes
<1>2. /\ h.id = id /\ h.key = stored[id] /\ h.epoch = trail.epoch[id]
      /\ h.since = IF id \in Between THEN P - 1 ELSE P
  BY <1>1 DEF Handle, Between
<1>3. h \in Handles
  <2>1. id \in Between => P >= 1 BY DEF ManagerInv, AsideFirst
  <2>2. h.since \in Nat BY <1>1, <1>2, <2>1
  <2>3. h = [id |-> id, key |-> stored[id], epoch |-> trail.epoch[id], since |-> h.since] BY DEF Handle
  <2> HIDE DEF h
  <2>4. QED BY <1>1, <2>2, <2>3 DEF Handles
<1> HIDE DEF h
<1>4. CASE id \in Between
  <2>1. P - h.since = 1 BY <1>1, <1>2, <1>4
  <2>2. trail.least >= 1 => 1 <= Len(versions[id]) /\ Last(versions[id], 1) = h.key
    BY <1>1, <1>2, <1>4 DEF ManagerInv, AsideFirst
  <2>3. Found(h.key, 1, stored[id], versions[id], trail.least) BY <2>2 DEF Found
  <2>4. Reach(h, stored, versions, trail, Between) BY <1>1, <1>2, <2>1, <2>3 DEF Reach
  <2>5. QED BY <1>3, <2>4 DEF Good, InReach, h
<1>5. CASE id \notin Between
  <2>1. P - h.since = 0 BY <1>1, <1>2, <1>5
  <2>2. Found(h.key, 0, stored[id], versions[id], trail.least) BY <1>2 DEF Found
  <2>3. Reach(h, stored, versions, trail, Between) BY <1>1, <1>2, <1>5, <2>1, <2>2 DEF Reach
  <2>4. QED BY <1>3, <2>3 DEF Good, InReach, h
<1>6. QED BY <1>4, <1>5

\* Steps that move no key leave it in reach.
LEMMA SameReach ==
  ASSUME UNCHANGED <<stored, versions, trail>>, Between' \subseteq Between, NEW h \in Handles, InReach(h)
  PROVE  InReach(h)'
<1>1. h.id \in Ids BY DEF Handles
<1>2. QED BY <1>1 DEF InReach, Reach

\* What was described stays described while the keys in reach stay in reach.
LEMMA StaysDescribed ==
  ASSUME \A h \in Handles : InReach(h) => InReach(h)', NEW id \in Ids, NEW of \in Positions,
         NEW params, Describes(params, id, of)
  PROVE  DescribedBy(params, id, of, stored', versions', trail', Between')
<1>1. CASE params = NoParams BY <1>1 DEF DescribedBy
<1>2. CASE params # NoParams
  <2>1. PICK k \in Keys : /\ MadeBy(k, params)
                          /\ InReach([id |-> id, key |-> k, epoch |-> of.epoch, since |-> of.since])
    BY <1>2 DEF Describes, DescribedBy, InReach
  <2> DEFINE h == [id |-> id, key |-> k, epoch |-> of.epoch, since |-> of.since]
  <2>2. h \in Handles BY DEF Handles, Positions
  <2> HIDE DEF h
  <2>3. \A g \in Handles : InReach(g) => Reach(g, stored', versions', trail', Between') BY DEF InReach
  <2>4. Reach(h, stored', versions', trail', Between') BY <2>1, <2>2, <2>3 DEF h
  <2>5. QED BY <2>1, <2>4 DEF DescribedBy, h
<1>3. QED BY <1>1, <1>2

\* Metadata that describe a key in reach, when the keys in reach stay there.
LEMMA DescriptionsStay ==
  ASSUME \A h \in Handles : InReach(h) => InReach(h)',
         \A id \in Ids : meta'[id] # None =>
           meta'[id].of \in Positions /\ Describes(meta'[id].params, id, meta'[id].of)
  PROVE  MetaDescribes'
<1>1. ASSUME NEW id \in Ids, NEW m, m # None => m.of \in Positions /\ Describes(m.params, id, m.of), m # None
      PROVE  DescribedBy(m.params, id, m.of, stored', versions', trail', Between')
  BY <1>1, StaysDescribed
<1>2. \A id \in Ids : meta'[id] # None =>
        DescribedBy(meta'[id].params, id, meta'[id].of, stored', versions', trail', Between')
  BY <1>1
<1>3. QED BY <1>2 DEF MetaDescribes, Describes

\* The metadata there are may also go, or go with a key that was not derived.
LEMMA MetadataStay ==
  ASSUME ManagerInv, \A h \in Handles : InReach(h) => InReach(h)',
         \A id \in Ids : \/ meta'[id] = meta[id] \/ meta'[id] = None
                         \/ meta'[id].params = NoParams /\ meta'[id].of \in Positions
  PROVE  MetaDescribes'
<1>1. \A id \in Ids : meta[id] # None => meta[id].of \in Positions /\ Describes(meta[id].params, id, meta[id].of)
  BY DEF ManagerInv, KeyTypes, MetaDescribes, Metadata
<1>2. \A id, of : Describes(NoParams, id, of) BY DEF Describes, DescribedBy
<1>3. QED BY <1>1, <1>2, DescriptionsStay

\* What a step has to show of its own call.
LEMMA StepKeeps ==
  ASSUME ManagerInv, NEW t \in Threads, NEW c \in CallRecords \cup {None}, call' = [call EXCEPT ![t] = c],
         KeyTypes', (trail.least <= keep)', AsideFirst', MetaDescribes', CallFits(t)',
         stored' = stored \/ t = Owner,
         \A h \in Handles : InReach(h) => InReach(h)',
         held' = held \/ (\E h \in Handles \cup {None} : held' = [held EXCEPT ![t] = h] /\ (h # None => InReach(h)'))
  PROVE  ManagerInv'
<1>1. ASSUME NEW u \in Threads, u # t PROVE CallFits(u)'
  <2>1. call'[u] = call[u] BY <1>1 DEF ManagerInv, KeyTypes
  <2>2. CallFits(u) BY DEF ManagerInv
  <2>3. call[u] \in GetCalls => call[u].handle \in Handles BY DEF GetCalls
  <2>7. ASSUME NEW c1, c1 \in RederiveCalls => Describes(c1.params, c1.id, c1.of), c1 \in RederiveCalls
        PROVE  DescribedBy(c1.params, c1.id, c1.of, stored', versions', trail', Between')
    <3>1. c1.id \in Ids /\ c1.of \in Positions BY <2>7 DEF RederiveCalls
    <3>2. QED BY <2>7, <3>1, StaysDescribed
  <2>8. call'[u] \in RederiveCalls =>
          DescribedBy(call'[u].params, call'[u].id, call'[u].of, stored', versions', trail', Between')
    BY <2>1, <2>2, <2>7 DEF CallFits
  <2>4. CASE stored' = stored
    <3>1. call[u] \in GetCalls => InReach(call[u].handle)' 
      BY <2>1, <2>2, <2>3 DEF CallFits, InReach
    <3>2. QED BY <2>1, <2>2, <2>4, <2>8, <3>1 DEF CallFits, InReach, Describes
  <2>5. CASE t = Owner
    <3>1. call[u] \in GetCalls => InReach(call[u].handle)' 
      BY <2>1, <2>2, <2>3 DEF CallFits, InReach
    <3>2. call[u] \notin StoreCalls \cup DeleteCalls \cup RotateCalls BY <1>1, <2>2, <2>5 DEF CallFits
    <3>3. QED BY <2>1, <2>2, <2>8, <3>1, <3>2 DEF CallFits, InReach, Describes
  <2>6. QED BY <2>4, <2>5
<1>2. HeldInReach'
  <2>1. \A u \in Threads : held[u] # None => held[u] \in Handles /\ InReach(held[u])
    BY DEF ManagerInv, KeyTypes, HeldInReach
  <2>2. CASE held' = held BY <2>1, <2>2 DEF HeldInReach, InReach
  <2>3. CASE held' # held
    <3>1. PICK h \in Handles \cup {None} : held' = [held EXCEPT ![t] = h] /\ (h # None => InReach(h)')
      BY <2>3
    <3>2. \A u \in Threads : held'[u] = IF u = t THEN h ELSE held[u] BY <3>1 DEF ManagerInv, KeyTypes
    <3>3. QED BY <2>1, <3>1, <3>2 DEF HeldInReach, InReach
  <2>4. QED BY <2>2, <2>3
<1>3. QED BY <1>1, <1>2 DEF ManagerInv

-----------------------------------------------------------------------------
(* The steps of the key manager. *)

\* A call begins, goes on or ends elsewhere than between setting aside and the successor.
LEMMA NotBetween ==
  ASSUME ManagerInv, NEW t \in Threads, NEW c, call' = [call EXCEPT ![t] = c],
         c = None \/ c.op # "rotate" \/ c.step # "generate"
  PROVE  Between' \subseteq Between /\ (t = Owner => Between' = {})
<1>1. Owner \in Threads /\ \A u \in Threads : call'[u] = IF u = t THEN c ELSE call[u]
  BY KeyManagerAssumption DEF ManagerInv, KeyTypes
<1>2. QED BY <1>1 DEF Between, SettingAside

LEMMA IdleOwner ==
  ASSUME ManagerInv, call[Owner] = None \/ call[Owner].op \in {"get", "rederive"}
  PROVE  Between = {}
<1>1. Owner \in Threads BY KeyManagerAssumption
<1>2. call[Owner] # None /\ call[Owner].op = "rederive" => call[Owner].step \in {"derive", "return"}
  BY <1>1, KindsOfCalls DEF ManagerInv, RederiveCalls
<1>3. QED BY <1>2 DEF Between, SettingAside

\* Steps that change no key and no metadata, of calls that only read.
LEMMA ReadKeeps ==
  ASSUME ManagerInv, NEW t \in Threads, NEW c \in CallRecords \cup {None}, call' = [call EXCEPT ![t] = c],
         c = None \/ c.op \in {"get", "rederive"},
         call[t] = None \/ call[t].op \in {"get", "rederive"},
         UNCHANGED <<stored, meta, versions, keep, draws, trail>>, CallFits(t)',
         held' = held \/ (\E h \in Handles \cup {None} : held' = [held EXCEPT ![t] = h] /\ (h # None => InReach(h)))
  PROVE  ManagerInv' /\ \A h \in Handles : InReach(h) => InReach(h)'
<1>1. Between' \subseteq Between BY NotBetween
<1>2. \A h \in Handles : InReach(h) => InReach(h)' BY <1>1, SameReach
<1>3. KeyTypes' BY DEF ManagerInv, KeyTypes
<1>4. AsideFirst' BY <1>1 DEF ManagerInv, AsideFirst
<1>5. MetaDescribes' BY <1>2, MetadataStay
<1>6. held' = held \/ (\E h \in Handles \cup {None} : held' = [held EXCEPT ![t] = h] /\ (h # None => InReach(h)'))
  BY <1>2
<1>7. (trail.least <= keep)' BY DEF ManagerInv
<1>8. QED BY <1>1, <1>2, <1>3, <1>4, <1>5, <1>6, <1>7, StepKeeps

\* store_key: a new key is stored, and the earlier handles are given up.
LEMMA StoreKeeps ==
  ASSUME ManagerInv, NEW id \in Ids, NEW k \in Keys, call[Owner] = None, NEW c \in StoreCalls,
         c.id = id, c.key = k, MadeBy(k, c.params),
         stored' = [stored EXCEPT ![id] = k], GiveUp(id), call' = [call EXCEPT ![Owner] = c],
         draws' = draws + 1, UNCHANGED <<meta, versions, keep, held>>
  PROVE  ManagerInv' /\ \A h \in Handles : InReach(h) => InReach(h)'
<1>1. Owner \in Threads /\ c \in CallRecords /\ c.op \in {"generate", "derive"} /\ c.step = "metadata"
  BY KeyManagerAssumption DEF StoreCalls, CallRecords
<1>2. /\ \A i \in Ids : stored'[i] = IF i = id THEN k ELSE stored[i]
      /\ \A i \in Ids : trail'.epoch[i] = IF i = id /\ stored[id] # None THEN trail.epoch[i] + 1 ELSE trail.epoch[i]
      /\ trail'.pushes = trail.pushes /\ trail'.least = trail.least
      /\ trail.epoch \in [Ids -> Nat]
  BY DEF ManagerInv, KeyTypes, GiveUp
<1>3. Between' = {} BY <1>1, NotBetween
<1>4. ASSUME NEW h \in Handles, InReach(h) PROVE InReach(h)'
  <2>1. h.id \in Ids /\ h.epoch \in Nat BY DEF Handles
  <2>2. CASE h.id # id BY <1>2, <1>3, <1>4, <2>1, <2>2 DEF InReach, Reach
  <2>3. CASE h.id = id
    <3>1. h.epoch <= trail.epoch[id] /\ (stored[id] = None => h.epoch # trail.epoch[id])
      BY <1>4, <2>3 DEF InReach, Reach
    <3>2. h.epoch <= trail'.epoch[id] /\ h.epoch # trail'.epoch[id] BY <1>2, <2>1, <3>1
    <3>3. QED BY <2>3, <3>2 DEF InReach, Reach
  <2>4. QED BY <2>2, <2>3
<1>5. KeyTypes'
  <2>1. trail' \in [pushes : [Ids -> Nat], epoch : [Ids -> Nat], least : Nat]
    <3> DEFINE e == IF stored[id] = None THEN trail.epoch[id] ELSE trail.epoch[id] + 1
    <3>1. e \in Nat /\ trail \in [pushes : [Ids -> Nat], epoch : [Ids -> Nat], least : Nat]
      BY DEF ManagerInv, KeyTypes
    <3>2. trail' = [trail EXCEPT !.epoch = [trail.epoch EXCEPT ![id] = e]] BY DEF GiveUp
    <3> HIDE DEF e
    <3>3. QED BY <3>1, <3>2
  <2>2. call' \in [Threads -> CallRecords \cup {None}] BY <1>1 DEF ManagerInv, KeyTypes
  <2>3. stored' \in [Ids -> Keys \cup {None}] /\ draws' \in Nat BY DEF ManagerInv, KeyTypes
  <2>4. QED BY <2>1, <2>2, <2>3 DEF ManagerInv, KeyTypes
<1>6. AsideFirst' BY <1>3 DEF AsideFirst
<1>7. call'[Owner] = c BY <1>1 DEF ManagerInv, KeyTypes
<1>8. CallFits(Owner)' BY <1>1, <1>2, <1>7, Kinds DEF CallFits
<1>9. MetaDescribes' BY <1>4, MetadataStay
<1>10. (trail.least <= keep)' BY <1>2 DEF ManagerInv
<1>11. QED BY <1>1, <1>4, <1>5, <1>6, <1>8, <1>9, <1>10, StepKeeps

LEMMA MetadataOf ==
  ASSUME KeyTypes, NEW id \in Ids, NEW params \in Derivations, NEW n \in Nat
  PROVE  /\ key_metadata(id, params) \in Metadata /\ key_metadata(id, params).params = params
         /\ key_metadata(id, params).of \in Positions
         /\ key_metadata(id, params).of.epoch = trail.epoch[id]
         /\ key_metadata(id, params).of.since = trail.pushes[id]
         /\ [key_metadata(id, params) EXCEPT !.version = n] \in Metadata
         /\ [key_metadata(id, params) EXCEPT !.version = n].params = params
<1>1. trail.epoch[id] \in Nat /\ trail.pushes[id] \in Nat BY DEF KeyTypes
<1>2. QED BY <1>1 DEF key_metadata, Metadata, Positions

LEMMA GenerateKeeps ==
  ASSUME ManagerInv, NEW t \in Threads, NEW id \in Ids, generate_key(t, id)
  PROVE  ManagerInv' /\ \A h \in Handles : InReach(h) => InReach(h)'
<1> DEFINE c == [op |-> "generate", step |-> "metadata", id |-> id,
                 key |-> RandomKey(draws), params |-> NoParams]
<1>1. draws \in Numbers BY KeyManagerAssumption DEF generate_key, ManagerInv, KeyTypes, Numbers
<1>2. RandomKey(draws) \in Keys BY <1>1, KeysMade
<1>3. NoParams \in Derivations BY DEF Derivations
<1>4. c \in StoreCalls /\ c.id = id /\ c.key = RandomKey(draws) /\ c.params = NoParams
  BY <1>2, <1>3 DEF StoreCalls
<1>5. MadeBy(RandomKey(draws), c.params) BY <1>4 DEF MadeBy
<1>6. /\ t = Owner /\ call[Owner] = None /\ call' = [call EXCEPT ![Owner] = c]
      /\ stored' = [stored EXCEPT ![id] = RandomKey(draws)] /\ GiveUp(id) /\ draws' = draws + 1
      /\ UNCHANGED <<meta, versions, keep, held>>
  BY DEF generate_key, Begins, Idle, memory_key_storage_store
<1> HIDE DEF c
<1>7. QED BY <1>2, <1>4, <1>5, <1>6, StoreKeeps

LEMMA DeriveKeeps ==
  ASSUME ManagerInv, NEW t \in Threads, NEW id \in Ids, NEW config \in KdfConfigs, NEW password \in Passwords,
         Derive(t, id, config, password)
  PROVE  ManagerInv' /\ \A h \in Handles : InReach(h) => InReach(h)'
<1>1. PICK native \in BOOLEAN :
        LET bytes == derive_key(config, password, draws, native) IN
          /\ memory_key_storage_store(id, bytes) /\ GiveUp(id)
          /\ call' = [call EXCEPT ![t] = [op |-> "derive", step |-> "metadata", id |-> id, key |-> bytes,
                        params |-> key_derivation_params(config, draws)]]
  BY KeyManagerAssumption DEF Derive
<1> DEFINE k == derive_key(config, password, draws, native)
           p == key_derivation_params(config, draws)
           c == [op |-> "derive", step |-> "metadata", id |-> id, key |-> k, params |-> p]
<1>2. draws \in Numbers BY KeyManagerAssumption DEF Derive, ManagerInv, KeyTypes, Numbers
<1>3. k \in Keys BY <1>2, KeysMade
<1>4. p \in Derivations BY <1>2 DEF Derivations
<1>5. MadeBy(k, p) BY <1>2 DEF MadeBy
<1>6. /\ t = Owner /\ call[Owner] = None /\ call' = [call EXCEPT ![Owner] = c]
      /\ stored' = [stored EXCEPT ![id] = k] /\ GiveUp(id) /\ draws' = draws + 1
      /\ UNCHANGED <<meta, versions, keep, held>>
  BY <1>1 DEF Derive, Begins, Idle, memory_key_storage_store
<1> HIDE DEF k, p
<1>7. c \in StoreCalls /\ c.id = id /\ c.key = k /\ c.params = p
  BY <1>3, <1>4 DEF StoreCalls
<1> HIDE DEF c
<1>8. QED BY <1>3, <1>5, <1>6, <1>7, StoreKeeps

LEMMA StoredMetadataKeeps ==
  ASSUME ManagerInv, NEW t \in Threads, store_key_metadata(t)
  PROVE  ManagerInv' /\ \A h \in Handles : InReach(h) => InReach(h)'
<1> DEFINE id == call[t].id
           h1 == Handle(id, call[t].key)
           m == key_metadata(id, call[t].params)
<1>1. call[t] \in StoreCalls BY KindsOfCalls DEF ManagerInv, store_key_metadata, Idle
<1>2. /\ t = Owner /\ call[t].key = stored[id] /\ MadeBy(call[t].key, call[t].params)
      /\ id \in Ids /\ call[t].params \in Derivations /\ call[t].key \in Keys
  BY <1>1 DEF ManagerInv, CallFits, StoreCalls
<1>3. Good(h1) BY <1>2, NewHandle, KeysMade
<1>4. /\ call' = [call EXCEPT ![t] = None] /\ meta' = [meta EXCEPT ![id] = m]
      /\ held' = [held EXCEPT ![t] = IF h1 = None THEN @ ELSE h1]
      /\ UNCHANGED <<stored, versions, keep, draws, trail>>
  BY DEF store_key_metadata, Return
<1>5. Between' \subseteq Between /\ Between' = {} BY <1>2, <1>4, NotBetween
<1>6. \A h \in Handles : InReach(h) => InReach(h)' BY <1>4, <1>5, SameReach
<1>7. h1 \in Handles BY <1>3 DEF Good
<1> HIDE DEF h1
<1>8. held' = held \/ held' = [held EXCEPT ![t] = h1] BY <1>4 DEF ManagerInv, KeyTypes
<1>14. /\ m \in Metadata /\ m.params = call[t].params /\ m.of \in Positions
       /\ m.of.epoch = trail.epoch[id] /\ m.of.since = trail.pushes[id]
  <2>1. 0 \in Nat OBVIOUS
  <2>2. QED BY <1>2, <2>1, MetadataOf DEF ManagerInv
<1>17. Describes(m.params, id, m.of)
  <2>1. Between = {}
    <3>1. call[t].op # "rotate" BY DEF store_key_metadata
    <3>2. QED BY <1>2, <3>1 DEF Between, SettingAside
  <2>2. h1 = [id |-> id, key |-> call[t].key, epoch |-> m.of.epoch, since |-> m.of.since]
    <3>1. ~SettingAside(id) BY <1>2, <2>1 DEF Between
    <3>2. trail.pushes[id] \in Nat BY <1>2 DEF ManagerInv, KeyTypes
    <3>3. trail.pushes[id] - 0 = trail.pushes[id] BY <3>2
    <3> HIDE DEF m
    <3>4. QED BY <1>14, <3>1, <3>3 DEF Handle, h1
  <2>3. Reach(h1, stored, versions, trail, Between) BY <1>3 DEF Good, InReach
  <2> HIDE DEF m
  <2>4. QED BY <1>2, <1>14, <2>2, <2>3 DEF Describes, DescribedBy
<1> HIDE DEF m
<1>9. KeyTypes' BY <1>2, <1>4, <1>7, <1>8, <1>14 DEF ManagerInv, KeyTypes
<1>10. AsideFirst' BY <1>5 DEF AsideFirst
<1>11. MetaDescribes'
  <2>1. \A i \in Ids : meta'[i] = IF i = id THEN m ELSE meta[i] BY <1>4 DEF ManagerInv, KeyTypes
  <2>2. \A i \in Ids : meta[i] # None => meta[i].of \in Positions /\ Describes(meta[i].params, i, meta[i].of)
    BY DEF ManagerInv, KeyTypes, MetaDescribes, Metadata
  <2>3. \A i \in Ids : meta'[i] # None => meta'[i].of \in Positions /\ Describes(meta'[i].params, i, meta'[i].of)
    BY <1>14, <1>17, <2>1, <2>2
  <2>4. QED BY <1>6, <2>3, DescriptionsStay
<1>12. CallFits(t)'
  <2>1. call'[t] = None BY <1>4 DEF ManagerInv, KeyTypes
  <2>2. QED BY <2>1, NoneIsNothing DEF CallFits, CallRecords
<1>13. (trail.least <= keep)' BY <1>4 DEF ManagerInv
<1>15. held' = held \/ (\E h \in Handles \cup {None} : held' = [held EXCEPT ![t] = h] /\ (h # None => InReach(h)'))
  <2>1. InReach(h1) BY <1>3 DEF Good
  <2>2. \A h : h = h1 => (h \in Handles /\ InReach(h)') BY <1>6, <1>7, <2>1
  <2>3. PICK h : h = h1 OBVIOUS
  <2>4. QED BY <1>8, <2>2, <2>3
<1>16. QED BY <1>4, <1>6, <1>9, <1>10, <1>11, <1>12, <1>13, <1>15, StepKeeps

LEMMA RetrieveKeeps ==
  ASSUME ManagerInv, NEW t \in Threads, NEW id \in Ids, retrieve(t, id)
  PROVE  ManagerInv' /\ \A h \in Handles : InReach(h) => InReach(h)'
<1> DEFINE h1 == Handle(id, stored[id])
           c == [op |-> "get", step |-> "metadata", id |-> id, handle |-> h1]
<1>1. Good(h1) BY NewHandle DEF retrieve
<1>2. /\ call[t] = None /\ call' = [call EXCEPT ![t] = c]
      /\ UNCHANGED <<stored, meta, versions, keep, held, draws, trail>>
  BY DEF retrieve, Begins, Idle
<1> HIDE DEF h1
<1>3. c \in GetCalls /\ c \in CallRecords /\ c.op = "get" /\ c.handle = h1
  BY <1>1 DEF Good, GetCalls, CallRecords
<1> HIDE DEF c
<1>4. Between' \subseteq Between BY <1>2, <1>3, NotBetween
<1>5. Reach(h1, stored', versions', trail', Between')
  <2>1. \A h \in Handles : InReach(h) => Reach(h, stored', versions', trail', Between')
    BY <1>2, <1>4, SameReach DEF InReach
  <2>2. QED BY <1>1, <2>1 DEF Good
<1>6. CallFits(t)'
  <2>1. call'[t] = c BY <1>2 DEF ManagerInv, KeyTypes
  <2>2. InReach(call[t].handle)' BY <1>3, <1>5, <2>1 DEF InReach
  <2>3. QED BY <1>3, <2>1, <2>2, Kinds DEF CallFits
<1>7. QED BY <1>2, <1>3, <1>6, ReadKeeps

LEMMA GetMetadataKeeps ==
  ASSUME ManagerInv, NEW t \in Threads, get_key_metadata(t)
  PROVE  ManagerInv' /\ \A h \in Handles : InReach(h) => InReach(h)'
<1>1. call[t] \in GetCalls /\ call[t].op = "get" BY KindsOfCalls DEF ManagerInv, get_key_metadata, Idle
<1>2. PICK h \in Handles \cup {None} : /\ Return(t, h)
                                       /\ h # None => InReach(h)
  BY <1>1 DEF get_key_metadata, GetCalls, ManagerInv, CallFits
<1>3. /\ call' = [call EXCEPT ![t] = None] /\ held' = [held EXCEPT ![t] = IF h = None THEN @ ELSE h]
      /\ UNCHANGED <<stored, meta, versions, keep, draws, trail>>
  BY <1>2 DEF get_key_metadata, Return
<1>4. CallFits(t)'
  <2>1. call'[t] = None BY <1>3 DEF ManagerInv, KeyTypes
  <2>2. QED BY <2>1, NoneIsNothing DEF CallFits, CallRecords
<1>5. held' = held \/ held' = [held EXCEPT ![t] = h] BY <1>3 DEF ManagerInv, KeyTypes
<1>6. QED BY <1>1, <1>2, <1>3, <1>4, <1>5, ReadKeeps

LEMMA ReadsDescribe ==
  ASSUME ManagerInv, NEW t \in Threads, NEW c \in RederiveCalls, c.op = "rederive", call' = [call EXCEPT ![t] = c],
         UNCHANGED <<stored, versions, trail>>, Describes(c.params, c.id, c.of)
  PROVE  DescribedBy(c.params, c.id, c.of, stored', versions', trail', Between')
<1>1. Between' \subseteq Between BY NotBetween
<1>2. \A h \in Handles : InReach(h) => InReach(h)' BY <1>1, SameReach
<1>3. c.id \in Ids /\ c.of \in Positions BY DEF RederiveCalls
<1>4. QED BY <1>2, <1>3, StaysDescribed

LEMMA RederiveKeeps ==
  ASSUME ManagerInv, NEW t \in Threads,
         \/ \E id \in Ids, password \in Passwords : rederive_key_find(t, id, password)
         \/ rederive_key(t) \/ rederive_key_return(t)
  PROVE  ManagerInv' /\ \A h \in Handles : InReach(h) => InReach(h)'
<1>1. CASE \E id \in Ids, password \in Passwords : rederive_key_find(t, id, password)
  <2>1. PICK id \in Ids, password \in Passwords : rederive_key_find(t, id, password) BY <1>1
  <2> DEFINE c == [op |-> "rederive", step |-> "derive", id |-> id,
                   password |-> password, params |-> meta[id].params, of |-> meta[id].of, key |-> None]
  <2>2. /\ call[t] = None /\ call' = [call EXCEPT ![t] = c]
        /\ meta[id] # None /\ meta[id].params # NoParams
        /\ UNCHANGED <<stored, meta, versions, keep, held, draws, trail>>
    BY <2>1 DEF rederive_key_find, Begins, Idle
  <2>3. meta[id].params \in Derivations /\ meta[id].of \in Positions BY <2>2 DEF ManagerInv, KeyTypes, Metadata
  <2>4. c \in RederiveCalls /\ c \in CallRecords /\ c.op = "rederive" /\ Rederived(c.key, c.params, c.password)
    BY <2>2, <2>3 DEF RederiveCalls, CallRecords, Rederived
  <2>7. Describes(c.params, c.id, c.of) BY <2>2 DEF ManagerInv, MetaDescribes
  <2> HIDE DEF c
  <2>5. CallFits(t)'
    <3>1. call'[t] = c BY <2>2 DEF ManagerInv, KeyTypes
    <3>2. DescribedBy(c.params, c.id, c.of, stored', versions', trail', Between')
      BY <2>2, <2>4, <2>7, ReadsDescribe
    <3>3. QED BY <2>4, <3>1, <3>2, Kinds DEF CallFits, Describes
  <2>6. QED BY <2>2, <2>4, <2>5, ReadKeeps
<1>2. CASE rederive_key(t)
  <2>1. call[t] \in RederiveCalls /\ call[t] # None /\ call[t].op = "rederive"
    BY <1>2, KindsOfCalls DEF ManagerInv, rederive_key, Idle
  <2>2. PICK native \in BOOLEAN :
          call' = [call EXCEPT ![t].step = "return", ![t].key =
                     IF meta[call[t].id] # None /\ meta[call[t].id].params = call[t].params
                     THEN derive_key_with_params(call[t].params, call[t].password, native) ELSE None]
    BY <1>2, KeyManagerAssumption DEF rederive_key
  <2> DEFINE k == IF meta[call[t].id] # None /\ meta[call[t].id].params = call[t].params
                  THEN derive_key_with_params(call[t].params, call[t].password, native) ELSE None
             c == [[call[t] EXCEPT !.step = "return"] EXCEPT !.key = k]
  <2>3. call' = [call EXCEPT ![t] = c] BY <2>2 DEF ManagerInv, KeyTypes
  <2>4. Rederived(call[t].key, call[t].params, call[t].password)
        /\ call[t].params \in Derivations /\ call[t].password \in Passwords
    BY <2>1 DEF ManagerInv, CallFits, RederiveCalls
  <2>5. k \in Keys \cup {None} /\ Rederived(k, call[t].params, call[t].password)
    <3>1. call[t].params # NoParams BY <2>4 DEF Rederived
    <3>2. PICK config \in KdfConfigs, n \in Numbers : call[t].params = key_derivation_params(config, n)
      BY <2>4, <3>1 DEF Derivations
    <3>3. derive_key_with_params(call[t].params, call[t].password, native)
            = derive_key(config, call[t].password, n, native)
      BY <3>2, DerivedAgain
    <3>4. QED BY <2>4, <3>1, <3>3, KeysMade DEF Rederived
  <2> HIDE DEF k
  <2>6. c \in RederiveCalls /\ c.op = "rederive" /\ c.key = k /\ c.params = call[t].params /\ c.password = call[t].password
        /\ c.id = call[t].id /\ c.of = call[t].of
    BY <2>1, <2>5 DEF RederiveCalls
  <2>7. c \in CallRecords BY <2>6 DEF CallRecords
  <2> HIDE DEF c
  <2>9. UNCHANGED <<stored, meta, versions, keep, held, draws, trail>> BY <1>2 DEF rederive_key
  <2>8. CallFits(t)'
    <3>1. call'[t] = c BY <2>3 DEF ManagerInv, KeyTypes
    <3>2. Describes(c.params, c.id, c.of) BY <2>1, <2>6 DEF ManagerInv, CallFits
    <3>3. DescribedBy(c.params, c.id, c.of, stored', versions', trail', Between')
      BY <2>3, <2>6, <2>9, <3>2, ReadsDescribe
    <3>4. QED BY <2>5, <2>6, <2>7, <3>1, <3>3, Kinds DEF CallFits, Describes
  <2>10. QED BY <2>1, <2>3, <2>6, <2>7, <2>8, <2>9, ReadKeeps
<1>3. CASE rederive_key_return(t)
  <2>1. call[t] \in RederiveCalls /\ call[t].op = "rederive"
    BY <1>3, KindsOfCalls DEF ManagerInv, rederive_key_return, Idle
  <2>2. /\ call' = [call EXCEPT ![t] = None] /\ held' = [held EXCEPT ![t] = @]
        /\ UNCHANGED <<stored, meta, versions, keep, draws, trail>>
    BY <1>3 DEF rederive_key_return, Return
  <2>3. CallFits(t)'
    <3>1. call'[t] = None BY <2>2 DEF ManagerInv, KeyTypes
    <3>2. QED BY <3>1, NoneIsNothing DEF CallFits, CallRecords
  <2>4. held' = held BY <2>2 DEF ManagerInv, KeyTypes
  <2>5. QED BY <2>1, <2>2, <2>3, <2>4, ReadKeeps
<1>4. QED BY <1>1, <1>2, <1>3

\* Steps of which no call remains between two others, seen from the calls.
LEMMA CallsStay ==
  ASSUME ManagerInv, UNCHANGED <<call, held, stored>>, \A h \in Handles : InReach(h) => InReach(h)'
  PROVE  HeldInReach' /\ \A t \in Threads : CallFits(t)'
<1>1. \A h \in Handles : InReach(h) => Reach(h, stored', versions', trail', Between') BY DEF InReach
<1>2. HeldInReach'
  BY <1>1 DEF ManagerInv, KeyTypes, HeldInReach, InReach
<1>3. ASSUME NEW t \in Threads PROVE CallFits(t)'
  <2>1. CallFits(t) BY DEF ManagerInv
  <2>2. call[t] \in GetCalls => InReach(call[t].handle)' BY <1>1, <2>1 DEF CallFits, GetCalls, InReach
  <2>3. ASSUME NEW c, c \in RederiveCalls => Describes(c.params, c.id, c.of), c \in RederiveCalls
        PROVE  DescribedBy(c.params, c.id, c.of, stored', versions', trail', Between')
    <3>1. c.id \in Ids /\ c.of \in Positions BY <2>3 DEF RederiveCalls
    <3>2. QED BY <2>3, <3>1, StaysDescribed
  <2>4. call[t] \in RederiveCalls =>
          DescribedBy(call[t].params, call[t].id, call[t].of, stored', versions', trail', Between')
    BY <2>1, <2>3 DEF CallFits
  <2>5. QED BY <2>1, <2>2, <2>4 DEF CallFits, InReach, Describes
<1>4. QED BY <1>2, <1>3

LEMMA UsageKeeps ==
  ASSUME ManagerInv, NEW t \in Threads, NEW id \in Ids, record_usage(t, id)
  PROVE  ManagerInv' /\ \A h \in Handles : InReach(h) => InReach(h)'
<1>1. meta[id] \in Metadata BY DEF record_usage, ManagerInv, KeyTypes
<1> DEFINE m == [meta[id] EXCEPT !.uses = @ + 1]
<1>2. m \in Metadata /\ m.params = meta[id].params /\ m.of = meta[id].of BY <1>1 DEF Metadata
<1>3. meta' = [meta EXCEPT ![id] = m] /\ UNCHANGED <<stored, versions, keep, call, held, draws, trail>>
  BY DEF record_usage, ManagerInv, KeyTypes
<1> HIDE DEF m
<1>4. Between' = Between BY <1>3 DEF Between, SettingAside
<1>5. \A h \in Handles : InReach(h) => InReach(h)' BY <1>3, <1>4, SameReach
<1>6. KeyTypes' BY <1>2, <1>3 DEF ManagerInv, KeyTypes
<1>7. AsideFirst' BY <1>3, <1>4 DEF ManagerInv, AsideFirst
<1>8. MetaDescribes'
  <2>1. \A i \in Ids : meta'[i] = IF i = id THEN m ELSE meta[i] BY <1>3 DEF ManagerInv, KeyTypes
  <2>2. meta[id] # None BY DEF record_usage
  <2>3. \A i \in Ids : meta[i] # None => meta[i].of \in Positions /\ Describes(meta[i].params, i, meta[i].of)
    BY DEF ManagerInv, KeyTypes, MetaDescribes, Metadata
  <2>4. \A i \in Ids : meta'[i] # None => meta'[i].of \in Positions /\ Describes(meta'[i].params, i, meta'[i].of)
    BY <1>2, <2>1, <2>2, <2>3
  <2>5. QED BY <1>5, <2>4, DescriptionsStay
<1>9. QED BY <1>3, <1>5, <1>6, <1>7, <1>8, CallsStay DEF ManagerInv

LEMMA PolicyKeeps ==
  ASSUME ManagerInv, NEW t \in Threads, NEW n \in Keeps, set_rotation_policy(t, n)
  PROVE  ManagerInv' /\ \A h \in Handles : InReach(h) => InReach(h)'
<1> DEFINE least == IF n < trail.least THEN n ELSE trail.least
<1>1. n \in Nat BY KeyManagerAssumption
<1>2. trail \in [pushes : [Ids -> Nat], epoch : [Ids -> Nat], least : Nat] BY DEF ManagerInv, KeyTypes
<1>3. keep' = n /\ trail' = [trail EXCEPT !.least = least]
      /\ UNCHANGED <<stored, meta, versions, call, held, draws>>
  BY DEF set_rotation_policy
<1>4. least \in Nat /\ least <= n /\ least <= trail.least BY <1>1, <1>2
<1> HIDE DEF least
<1>5. /\ trail' \in [pushes : [Ids -> Nat], epoch : [Ids -> Nat], least : Nat]
      /\ trail'.pushes = trail.pushes /\ trail'.epoch = trail.epoch /\ trail'.least = least
  BY <1>2, <1>3, <1>4
<1>6. Between' = Between BY <1>3 DEF Between, SettingAside
<1>7. ASSUME NEW h \in Handles, InReach(h) PROVE InReach(h)'
  <2>1. h.id \in Ids /\ h.epoch \in Nat /\ h.since \in Nat BY DEF Handles
  <2>2. trail.pushes[h.id] \in Nat /\ trail.least \in Nat BY <1>2, <2>1
  <2>3. ASSUME NEW k, NEW d \in Int, NEW cur, NEW s, Found(k, d, cur, s, trail.least)
        PROVE  Found(k, d, cur, s, least)
    BY <1>4, <2>2, <2>3 DEF Found
  <2>4. trail.pushes[h.id] - h.since \in Int BY <2>1, <2>2
  <2>5. QED BY <1>3, <1>5, <1>6, <1>7, <2>1, <2>3, <2>4 DEF InReach, Reach
<1>8. KeyTypes' BY <1>1, <1>3, <1>5 DEF ManagerInv, KeyTypes
<1>9. AsideFirst' BY <1>2, <1>3, <1>4, <1>5, <1>6 DEF ManagerInv, AsideFirst
<1>10. MetaDescribes' BY <1>3, <1>7, MetadataStay
<1>11. (trail.least <= keep)' BY <1>3, <1>4, <1>5
<1>12. QED BY <1>3, <1>7, <1>8, <1>9, <1>10, <1>11, CallsStay DEF ManagerInv

LEMMA DeleteKeeps ==
  ASSUME ManagerInv, NEW t \in Threads, NEW id \in Ids, delete_key_bytes(t, id)
  PROVE  ManagerInv' /\ \A h \in Handles : InReach(h) => InReach(h)'
<1> DEFINE c == [op |-> "delete", step |-> "erase", id |-> id]
<1>1. /\ t = Owner /\ call[Owner] = None /\ call' = [call EXCEPT ![t] = c] /\ stored[id] # None
      /\ stored' = [stored EXCEPT ![id] = None] /\ GiveUp(id)
      /\ UNCHANGED <<meta, versions, keep, held, draws>>
  BY DEF delete_key_bytes, Begins, Idle, memory_key_storage_remove
<1>2. c \in DeleteCalls /\ c \in CallRecords /\ c.op = "delete" /\ c.step = "erase" /\ c.id = id
  BY DEF DeleteCalls, CallRecords
<1> HIDE DEF c
<1>3. Owner \in Threads BY KeyManagerAssumption
<1>4. trail \in [pushes : [Ids -> Nat], epoch : [Ids -> Nat], least : Nat] BY DEF ManagerInv, KeyTypes
<1>5. trail' = [trail EXCEPT !.epoch = [trail.epoch EXCEPT ![id] = @ + 1]] BY <1>1, <1>4 DEF GiveUp
<1>6. /\ trail' \in [pushes : [Ids -> Nat], epoch : [Ids -> Nat], least : Nat]
      /\ trail'.pushes = trail.pushes /\ trail'.least = trail.least
      /\ \A i \in Ids : trail'.epoch[i] = IF i = id THEN trail.epoch[i] + 1 ELSE trail.epoch[i]
  BY <1>4, <1>5
<1>7. \A i \in Ids : stored'[i] = IF i = id THEN None ELSE stored[i] BY <1>1 DEF ManagerInv, KeyTypes
<1>8. Between' = {} BY <1>1, <1>2, NotBetween
<1>9. ASSUME NEW h \in Handles, InReach(h) PROVE InReach(h)'
  <2>1. h.id \in Ids /\ h.epoch \in Nat BY DEF Handles
  <2>2. CASE h.id # id BY <1>1, <1>6, <1>7, <1>8, <1>9, <2>1, <2>2 DEF InReach, Reach
  <2>3. CASE h.id = id
    <3>1. h.epoch <= trail.epoch[id] BY <1>9, <2>3 DEF InReach, Reach
    <3>2. trail.epoch[id] \in Nat BY <1>4
    <3>3. h.epoch <= trail'.epoch[id] /\ h.epoch # trail'.epoch[id] BY <1>6, <2>1, <3>1, <3>2
    <3>4. QED BY <2>3, <3>3 DEF InReach, Reach
  <2>4. QED BY <2>2, <2>3
<1>10. KeyTypes' BY <1>1, <1>2, <1>6 DEF ManagerInv, KeyTypes
<1>11. AsideFirst' BY <1>8 DEF AsideFirst
<1>12. CallFits(t)'
  <2>1. call'[t] = c BY <1>1 DEF ManagerInv, KeyTypes
  <2>2. QED BY <1>1, <1>2, <1>7, <2>1, Kinds DEF CallFits
<1>13. MetaDescribes' BY <1>1, <1>9, MetadataStay
<1>14. (trail.least <= keep)' BY <1>1, <1>6 DEF ManagerInv
<1>15. QED BY <1>1, <1>2, <1>9, <1>10, <1>11, <1>12, <1>13, <1>14, StepKeeps

LEMMA EraseKeeps ==
  ASSUME ManagerInv, NEW t \in Threads, delete_key_erase(t)
  PROVE  ManagerInv' /\ \A h \in Handles : InReach(h) => InReach(h)'
<1> DEFINE id == call[t].id
<1>1. call[t] \in DeleteCalls BY KindsOfCalls DEF ManagerInv, delete_key_erase, Idle
<1>2. t = Owner /\ id \in Ids /\ stored[id] = None BY <1>1 DEF ManagerInv, CallFits, DeleteCalls
<1>3. /\ call' = [call EXCEPT ![t] = None] /\ held' = [held EXCEPT ![t] = @]
      /\ meta' = [meta EXCEPT ![id] = None] /\ versions' = [versions EXCEPT ![id] = <<>>]
      /\ UNCHANGED <<stored, keep, draws, trail>>
  BY DEF delete_key_erase, Return
<1> HIDE DEF id
<1>4. held' = held BY <1>3 DEF ManagerInv, KeyTypes
<1>5. \A i \in Ids : /\ versions'[i] = IF i = id THEN <<>> ELSE versions[i]
                     /\ meta'[i] = IF i = id THEN None ELSE meta[i]
  BY <1>3 DEF ManagerInv, KeyTypes
<1>6. Between' = {} /\ Between' \subseteq Between BY <1>2, <1>3, NotBetween
<1>7. ASSUME NEW h \in Handles, InReach(h) PROVE InReach(h)'
  <2>1. h.id \in Ids BY DEF Handles
  <2>2. QED BY <1>2, <1>3, <1>5, <1>6, <1>7, <2>1 DEF InReach, Reach
<1>8. KeyTypes'
  <2> DEFINE S == Seq([key : Keys, version : Nat])
  <2>1. <<>> \in S OBVIOUS
  <2>2. versions \in [Ids -> S] BY DEF ManagerInv, KeyTypes
  <2> HIDE DEF S
  <2>3. versions' \in [Ids -> S] BY <1>3, <2>1, <2>2
  <2>4. /\ meta' \in [Ids -> Metadata \cup {None}] /\ call' \in [Threads -> CallRecords \cup {None}]
        /\ held' \in [Threads -> Handles \cup {None}]
    BY <1>3, <1>4 DEF ManagerInv, KeyTypes
  <2>5. QED BY <1>3, <2>3, <2>4 DEF ManagerInv, KeyTypes, S
<1>9. AsideFirst' BY <1>6 DEF AsideFirst
<1>10. MetaDescribes' BY <1>5, <1>7, MetadataStay
<1>11. CallFits(t)'
  <2>1. call'[t] = None BY <1>3 DEF ManagerInv, KeyTypes
  <2>2. QED BY <2>1, NoneIsNothing DEF CallFits, CallRecords
<1>12. (trail.least <= keep)' BY <1>3 DEF ManagerInv
<1>13. QED BY <1>3, <1>4, <1>7, <1>8, <1>9, <1>10, <1>11, <1>12, StepKeeps

\* Trimming keeps the last n keys, and what was the d-th last stays that.
LEMMA KeptKeepsTheLast ==
  ASSUME NEW S, NEW s \in Seq(S), keep \in Nat
  PROVE  /\ Kept(s) \in Seq(S)
         /\ \A d \in Nat : d >= 1 /\ d <= keep /\ d <= Len(s) =>
              d <= Len(Kept(s)) /\ Last(Kept(s), d) = Last(s, d)
<1>1. CASE Len(s) <= keep BY <1>1 DEF Kept
<1>2. CASE Len(s) > keep
  <2> DEFINE a == Len(s) - keep + 1
             k == SubSeq(s, a, Len(s))
  <2>1. a \in 1..(Len(s) + 1) /\ Len(s) \in Nat BY <1>2
  <2>2. k \in Seq(S) /\ Len(k) = keep /\ \A i \in 1..keep : k[i] = s[a + i - 1] BY <1>2, <2>1
  <2>3. Kept(s) = k BY <1>2 DEF Kept
  <2> HIDE DEF k
  <2>4. ASSUME NEW d \in Nat, d >= 1, d <= keep PROVE d <= Len(k) /\ Last(k, d) = Last(s, d)
    <3>1. keep - d + 1 \in 1..keep /\ a + (keep - d + 1) - 1 = Len(s) - d + 1 BY <2>1, <2>4
    <3>2. k[keep - d + 1] = s[Len(s) - d + 1] BY <2>2, <3>1
    <3>3. QED BY <2>2, <2>4, <3>2 DEF Last
  <2>5. QED BY <2>2, <2>3, <2>4
<1>3. Len(s) \in Nat OBVIOUS
<1>4. QED BY <1>1, <1>2, <1>3

LEMMA AppendMovesTheLast ==
  ASSUME NEW S, NEW s \in Seq(S), NEW e \in S
  PROVE  /\ Append(s, e) \in Seq(S) /\ Len(Append(s, e)) = Len(s) + 1
         /\ Last(Append(s, e), 1) = e.key
         /\ \A d \in Nat : d >= 1 /\ d <= Len(s) => Last(Append(s, e), d + 1) = Last(s, d)
<1>1. Len(s) \in Nat /\ Append(s, e) \in Seq(S) /\ Len(Append(s, e)) = Len(s) + 1 OBVIOUS
<1>2. Append(s, e)[Len(s) + 1] = e /\ \A i \in 1..Len(s) : Append(s, e)[i] = s[i] OBVIOUS
<1>3. ASSUME NEW d \in Nat, d >= 1, d <= Len(s) PROVE Last(Append(s, e), d + 1) = Last(s, d)
  <2>1. Len(s) - d + 1 \in 1..Len(s) /\ Len(s) + 1 - (d + 1) + 1 = Len(s) - d + 1 BY <1>1, <1>3
  <2>2. QED BY <1>1, <1>2, <2>1 DEF Last
<1>4. Len(s) + 1 - 1 + 1 = Len(s) + 1 BY <1>1
<1>5. QED BY <1>1, <1>2, <1>3, <1>4 DEF Last

\* rotate_key begins with the key stored.
LEMMA RotationBegins ==
  ASSUME ManagerInv, NEW t \in Threads, NEW id \in Ids, rotate_key_get(t, id)
  PROVE  ManagerInv' /\ \A h \in Handles : InReach(h) => InReach(h)'
<1> DEFINE c == [op |-> "rotate", step |-> "aside", id |-> id, key |-> stored[id], version |-> meta[id].version]
<1>1. /\ t = Owner /\ call[t] = None /\ call' = [call EXCEPT ![t] = c] /\ stored[id] # None /\ meta[id] # None
      /\ UNCHANGED <<stored, meta, versions, keep, held, draws, trail>>
  BY DEF rotate_key_get, Begins, Idle
<1>2. stored[id] \in Keys /\ meta[id].version \in Nat BY <1>1 DEF ManagerInv, KeyTypes, Metadata
<1>3. c \in RotateCalls /\ c \in CallRecords /\ c.op = "rotate" /\ c.step = "aside" /\ c.id = id /\ c.key = stored[id]
  BY <1>2 DEF RotateCalls, CallRecords
<1> HIDE DEF c
<1>4. Between' \subseteq Between /\ Between' = {} BY <1>1, <1>3, NotBetween
<1>5. \A h \in Handles : InReach(h) => InReach(h)' BY <1>1, <1>4, SameReach
<1>6. KeyTypes' BY <1>1, <1>3 DEF ManagerInv, KeyTypes
<1>7. AsideFirst' BY <1>4 DEF AsideFirst
<1>8. CallFits(t)'
  <2>1. call'[t] = c BY <1>1 DEF ManagerInv, KeyTypes
  <2>2. QED BY <1>1, <1>3, <2>1, Kinds DEF CallFits
<1>9. MetaDescribes' BY <1>1, <1>5, MetadataStay
<1>10. (trail.least <= keep)' BY <1>1 DEF ManagerInv
<1>11. QED BY <1>1, <1>3, <1>5, <1>6, <1>7, <1>8, <1>9, <1>10, StepKeeps

\* A rotation goes on or ends.
LEMMA RotationOf ==
  ASSUME ManagerInv, NEW t \in Threads, ~Idle(t), call[t].op = "rotate"
  PROVE  /\ call[t] \in RotateCalls /\ t = Owner /\ call[t].id \in Ids
         /\ call[t].key = stored[call[t].id] /\ call[t].key \in Keys /\ call[t].version \in Nat
         /\ Between = IF call[t].step = "generate" THEN {call[t].id} ELSE {}
<1>1. call[t] \in RotateCalls BY KindsOfCalls DEF ManagerInv, Idle
<1>2. t = Owner /\ call[t].id \in Ids /\ call[t].key = stored[call[t].id] /\ call[t].key \in Keys
      /\ call[t].version \in Nat
  BY <1>1 DEF ManagerInv, CallFits, RotateCalls
<1>3. QED BY <1>1, <1>2 DEF Idle, Between, SettingAside

\* The key stored is set aside: what was the d-th last is now the d+1-th.
LEMMA AsideKeeps ==
  ASSUME ManagerInv, NEW t \in Threads, rotate_key_aside(t)
  PROVE  ManagerInv' /\ \A h \in Handles : InReach(h) => InReach(h)'
<1> DEFINE id == call[t].id
           S == [key : Keys, version : Nat]
           e == [key |-> call[t].key, version |-> call[t].version]
           v == Kept(Append(versions[id], e))
           c == [call[t] EXCEPT !.step = "generate"]
<1>1. ~Idle(t) /\ call[t].op = "rotate" /\ call[t].step = "aside" BY DEF rotate_key_aside
<1>2. /\ call[t] \in RotateCalls /\ t = Owner /\ id \in Ids /\ call[t].key = stored[id] /\ call[t].key \in Keys
      /\ e \in S /\ e.key = call[t].key
  BY <1>1, RotationOf
<1>3. /\ versions' = [versions EXCEPT ![id] = v] /\ call' = [call EXCEPT ![t] = c]
      /\ trail' = [trail EXCEPT !.pushes = [trail.pushes EXCEPT ![id] = @ + 1]]
      /\ UNCHANGED <<stored, meta, keep, held, draws>>
  BY DEF rotate_key_aside, ManagerInv, KeyTypes
<1>4. c \in RotateCalls /\ c \in CallRecords /\ c.op = "rotate" /\ c.step = "generate" /\ c.id = id /\ c.key = stored[id]
  BY <1>2 DEF RotateCalls, CallRecords
<1> HIDE DEF c
<1>5. /\ trail \in [pushes : [Ids -> Nat], epoch : [Ids -> Nat], least : Nat] /\ keep \in Nat
      /\ trail.least <= keep /\ versions \in [Ids -> Seq(S)] /\ versions[id] \in Seq(S)
  BY <1>2 DEF ManagerInv, KeyTypes
<1>6. /\ trail' \in [pushes : [Ids -> Nat], epoch : [Ids -> Nat], least : Nat]
      /\ trail'.epoch = trail.epoch /\ trail'.least = trail.least
      /\ \A i \in Ids : trail'.pushes[i] = IF i = id THEN trail.pushes[i] + 1 ELSE trail.pushes[i]
  <2> DEFINE p == [trail.pushes EXCEPT ![id] = @ + 1]
  <2>1. p \in [Ids -> Nat] /\ \A i \in Ids : p[i] = IF i = id THEN trail.pushes[i] + 1 ELSE trail.pushes[i]
    BY <1>2, <1>5
  <2>2. trail' = [trail EXCEPT !.pushes = p] BY <1>3
  <2> HIDE DEF p
  <2>3. QED BY <1>5, <2>1, <2>2
<1>7. /\ v \in Seq(S)
      /\ keep >= 1 => 1 <= Len(v) /\ Last(v, 1) = call[t].key
      /\ \A d \in Nat : d >= 1 /\ d <= Len(versions[id]) /\ d + 1 <= keep =>
           d + 1 <= Len(v) /\ Last(v, d + 1) = Last(versions[id], d)
  <2> DEFINE a == Append(versions[id], e)
  <2> HIDE DEF S, e
  <2>1. /\ a \in Seq(S) /\ Len(a) = Len(versions[id]) + 1 /\ Last(a, 1) = e.key /\ Len(versions[id]) \in Nat
        /\ \A d \in Nat : d >= 1 /\ d <= Len(versions[id]) => Last(a, d + 1) = Last(versions[id], d)
    BY <1>2, <1>5, AppendMovesTheLast
  <2> HIDE DEF a
  <2>2. /\ Kept(a) \in Seq(S)
        /\ \A d \in Nat : d >= 1 /\ d <= keep /\ d <= Len(a) =>
             d <= Len(Kept(a)) /\ Last(Kept(a), d) = Last(a, d)
    BY <1>5, <2>1, KeptKeepsTheLast
  <2>3. v = Kept(a) BY DEF a
  <2> HIDE DEF v
  <2>4. keep >= 1 => 1 <= Len(v) /\ Last(v, 1) = call[t].key BY <1>2, <1>5, <2>1, <2>2, <2>3
  <2>5. ASSUME NEW d \in Nat, d >= 1, d <= Len(versions[id]), d + 1 <= keep
        PROVE  d + 1 <= Len(v) /\ Last(v, d + 1) = Last(versions[id], d)
    BY <1>5, <2>1, <2>2, <2>3, <2>5
  <2>6. QED BY <2>2, <2>3, <2>4, <2>5
<1> HIDE DEF v, e, S
<1>8. \A i \in Ids : versions'[i] = IF i = id THEN v ELSE versions[i] BY <1>3, <1>5
<1>9. call'[t] = c BY <1>3 DEF ManagerInv, KeyTypes
<1>10. Between' = {id}
  <2>1. c # None BY <1>4, Kinds
  <2>2. QED BY <1>2, <1>4, <1>9, <2>1 DEF Between, SettingAside
<1>11. ASSUME NEW h \in Handles, InReach(h) PROVE InReach(h)'
  <2>1. h.id \in Ids /\ h.since \in Nat BY DEF Handles
  <2>2. CASE h.id # id
    <3>1. /\ versions'[h.id] = versions[h.id] /\ trail'.pushes[h.id] = trail.pushes[h.id]
          /\ trail'.epoch[h.id] = trail.epoch[h.id] /\ h.id \notin Between'
      BY <1>6, <1>8, <1>10, <2>1, <2>2
    <3>2. QED BY <1>3, <1>6, <1>11, <3>1 DEF InReach, Reach
  <2>3. CASE h.id = id
    <3> DEFINE d == trail.pushes[id] - h.since
    <3>1. trail.pushes[id] \in Nat /\ d \in Int /\ trail'.pushes[id] - h.since = d + 1 /\ trail.least \in Nat
      BY <1>5, <1>6, <2>1, <2>3
    <3>2. CASE h.epoch # trail.epoch[id]
      <4>1. h.epoch <= trail.epoch[id] BY <1>11, <2>3 DEF InReach, Reach
      <4>2. QED BY <1>6, <2>3, <3>2, <4>1 DEF InReach, Reach
    <3>3. CASE h.epoch = trail.epoch[id]
      <4>1. stored[id] # None /\ Found(h.key, d, stored[id], versions[id], trail.least) /\ h.epoch <= trail.epoch[id]
        BY <1>11, <2>3, <3>3 DEF InReach, Reach
      <4> HIDE DEF d
      <4>2. Found(h.key, d + 1, stored[id], v, trail.least)
        <5>1. CASE d = 0 BY <1>2, <1>5, <1>7, <3>1, <4>1, <5>1 DEF Found
        <5>2. CASE d >= 1
          <6>1. d \in Nat BY <3>1, <5>2
          <6>2. ASSUME d + 1 <= trail.least PROVE d + 1 <= Len(v) /\ Last(v, d + 1) = h.key
            <7>1. d <= Len(versions[id]) /\ Last(versions[id], d) = h.key
              BY <3>1, <4>1, <5>2, <6>1, <6>2 DEF Found
            <7>2. d + 1 <= keep BY <1>5, <3>1, <6>1, <6>2
            <7>3. QED BY <1>7, <5>2, <6>1, <7>1, <7>2
          <6>3. QED BY <3>1, <5>2, <6>1, <6>2 DEF Found
        <5>3. d >= 0 BY <4>1 DEF Found
        <5>4. QED BY <3>1, <5>1, <5>2, <5>3
      <4>3. d + 1 # 0 BY <3>1, <4>1 DEF Found
      <4>4. /\ trail'.pushes[h.id] - h.since = d + 1 /\ versions'[h.id] = v /\ stored'[h.id] = stored[id]
            /\ trail'.epoch[h.id] = trail.epoch[id] /\ trail'.least = trail.least
        BY <1>2, <1>3, <1>6, <1>8, <2>3, <3>1
      <4>5. Reach(h, stored', versions', trail', Between') BY <4>1, <4>2, <4>3, <4>4 DEF Reach
      <4>6. QED BY <4>5 DEF InReach
    <3>4. QED BY <3>2, <3>3
  <2>4. QED BY <2>2, <2>3
<1>12. KeyTypes'
  <2>1. versions' \in [Ids -> Seq(S)] BY <1>3, <1>5, <1>7
  <2>2. QED BY <1>3, <1>4, <1>6, <2>1 DEF ManagerInv, KeyTypes, S
<1>13. AsideFirst'
  <2>1. trail'.pushes[id] >= 1 BY <1>2, <1>5, <1>6
  <2>2. trail'.least >= 1 => Len(v) >= 1 /\ Last(v, 1) = stored[id]
    <3>1. trail.least \in Nat /\ (trail.least >= 1 => keep >= 1) BY <1>5
    <3>2. Len(v) \in Nat BY <1>7
    <3>3. QED BY <1>2, <1>6, <1>7, <3>1, <3>2
  <2>3. QED BY <1>2, <1>3, <1>8, <1>10, <2>1, <2>2 DEF AsideFirst
<1>14. MetaDescribes' BY <1>3, <1>11, MetadataStay
<1>15. CallFits(t)' BY <1>2, <1>3, <1>4, <1>9, Kinds DEF CallFits
<1>16. (trail.least <= keep)' BY <1>3, <1>5, <1>6
<1>17. QED BY <1>2, <1>3, <1>4, <1>11, <1>12, <1>13, <1>14, <1>15, <1>16, StepKeeps

\* The successor is stored, or none is made and the rotation ends.
LEMMA SuccessorKeeps ==
  ASSUME ManagerInv, NEW t \in Threads, rotate_key_generate(t)
  PROVE  ManagerInv' /\ \A h \in Handles : InReach(h) => InReach(h)'
<1> DEFINE id == call[t].id
<1>1. ~Idle(t) /\ call[t].op = "rotate" /\ call[t].step = "generate" /\ UNCHANGED <<meta, versions, keep, trail>>
  BY DEF rotate_key_generate
<1>2. /\ call[t] \in RotateCalls /\ t = Owner /\ id \in Ids /\ call[t].key = stored[id] /\ call[t].key \in Keys
      /\ Between = {id}
  BY <1>1, RotationOf
<1>3. CASE Return(t, None) /\ UNCHANGED <<stored, draws>>
  <2>1. call' = [call EXCEPT ![t] = None] /\ held' = held
    BY <1>3 DEF Return, ManagerInv, KeyTypes
  <2>2. Between' \subseteq Between /\ Between' = {} BY <1>2, <2>1, NotBetween
  <2>3. \A h \in Handles : InReach(h) => InReach(h)' BY <1>1, <1>3, <2>2, SameReach
  <2>4. KeyTypes' BY <1>1, <1>3, <2>1 DEF ManagerInv, KeyTypes
  <2>5. AsideFirst' BY <2>2 DEF AsideFirst
  <2>6. MetaDescribes' BY <1>1, <2>3, MetadataStay
  <2>7. CallFits(t)'
    <3>1. call'[t] = None BY <2>1 DEF ManagerInv, KeyTypes
    <3>2. QED BY <3>1, NoneIsNothing DEF CallFits, CallRecords
  <2>8. (trail.least <= keep)' BY <1>1 DEF ManagerInv
  <2>9. QED BY <1>3, <2>1, <2>3, <2>4, <2>5, <2>6, <2>7, <2>8, StepKeeps
<1>4. CASE /\ draws < MaxKeys /\ draws' = draws + 1
           /\ memory_key_storage_store(id, RandomKey(draws))
           /\ call' = [call EXCEPT ![t] = [call[t] EXCEPT !.step = "metadata", !.key = RandomKey(draws)]]
           /\ UNCHANGED held
  <2> DEFINE k == RandomKey(draws)
             c == [[call[t] EXCEPT !.step = "metadata"] EXCEPT !.key = k]
  <2>1. draws \in Numbers /\ draws' \in Nat BY <1>4, KeyManagerAssumption DEF ManagerInv, KeyTypes, Numbers
  <2>2. k \in Keys /\ k # None BY <2>1, KeysMade
  <2>3. stored' = [stored EXCEPT ![id] = k] /\ call' = [call EXCEPT ![t] = c]
    BY <1>4 DEF memory_key_storage_store
  <2> HIDE DEF k
  <2>4. c \in RotateCalls /\ c \in CallRecords /\ c.op = "rotate" /\ c.step = "metadata" /\ c.id = id /\ c.key = k
    BY <1>2, <2>2 DEF RotateCalls, CallRecords
  <2> HIDE DEF c
  <2>5. \A i \in Ids : stored'[i] = IF i = id THEN k ELSE stored[i] BY <2>3 DEF ManagerInv, KeyTypes
  <2>6. Between' = {} BY <1>2, <2>3, <2>4, NotBetween
  <2>7. ASSUME NEW h \in Handles, InReach(h) PROVE InReach(h)'
    <3>1. h.id \in Ids BY DEF Handles
    <3>2. CASE h.id # id BY <1>1, <2>5, <2>6, <2>7, <3>1, <3>2 DEF InReach, Reach
    <3>3. CASE h.id = id
      <4> DEFINE d == trail.pushes[id] - h.since
      <4>1. h.epoch = trail.epoch[id] => Found(h.key, d, stored[id], versions[id], trail.least) /\ d # 0
        BY <1>2, <2>7, <3>3 DEF InReach, Reach
      <4>2. Found(h.key, d, stored[id], versions[id], trail.least) /\ d # 0 =>
              Found(h.key, d, k, versions[id], trail.least)
        BY DEF Found
      <4>3. stored'[h.id] = k /\ h.epoch <= trail.epoch[h.id] BY <2>5, <2>7, <3>1, <3>3 DEF InReach, Reach
      <4>4. Reach(h, stored', versions', trail', Between')
        BY <1>1, <2>2, <2>6, <3>3, <4>1, <4>2, <4>3 DEF Reach
      <4>5. QED BY <4>4 DEF InReach
    <3>4. QED BY <3>2, <3>3
  <2>8. KeyTypes' BY <1>1, <1>4, <2>1, <2>2, <2>3, <2>4 DEF ManagerInv, KeyTypes
  <2>9. AsideFirst' BY <2>6 DEF AsideFirst
  <2>10. MetaDescribes' BY <1>1, <2>7, MetadataStay
  <2>11. CallFits(t)'
    <3>1. call'[t] = c BY <2>3 DEF ManagerInv, KeyTypes
    <3>2. QED BY <1>2, <2>4, <2>5, <3>1, Kinds DEF CallFits
  <2>12. (trail.least <= keep)' BY <1>1 DEF ManagerInv
  <2>13. QED BY <1>2, <1>4, <2>3, <2>4, <2>7, <2>8, <2>9, <2>10, <2>11, <2>12, StepKeeps
<1>5. QED BY <1>3, <1>4 DEF rotate_key_generate

\* The successor's metadata are written twice, and it is handed out.
LEMMA RotationMetadataKeeps ==
  ASSUME ManagerInv, NEW t \in Threads, rotate_key_metadata(t)
  PROVE  ManagerInv' /\ \A h \in Handles : InReach(h) => InReach(h)'
<1> DEFINE id == call[t].id
<1>1. ~Idle(t) /\ call[t].op = "rotate" /\ UNCHANGED <<stored, versions, keep, draws, trail>>
      /\ call[t].step \in {"metadata", "version"}
  BY DEF rotate_key_metadata
<1>2. /\ call[t] \in RotateCalls /\ t = Owner /\ id \in Ids /\ call[t].key = stored[id] /\ call[t].key \in Keys
      /\ call[t].version \in Nat /\ Between = {}
  BY <1>1, RotationOf
<1>3. NoParams \in Derivations BY DEF Derivations
<1>4. ASSUME NEW m \in Metadata, m.params = NoParams, meta' = [meta EXCEPT ![id] = m],
             \A h \in Handles : InReach(h) => InReach(h)'
      PROVE  meta' \in [Ids -> Metadata \cup {None}] /\ MetaDescribes'
  <2>1. \A i \in Ids : meta'[i] = IF i = id THEN m ELSE meta[i] BY <1>4 DEF ManagerInv, KeyTypes
  <2>2. m.of \in Positions BY DEF Metadata
  <2>3. MetaDescribes' BY <1>4, <2>1, <2>2, MetadataStay
  <2>4. QED BY <1>4, <2>3 DEF ManagerInv, KeyTypes
<1>5. (trail.least <= keep)' BY <1>1 DEF ManagerInv
<1>6. CASE /\ call[t].step = "metadata" /\ meta' = [meta EXCEPT ![id] = key_metadata(id, NoParams)]
           /\ call' = [call EXCEPT ![t].step = "version"] /\ UNCHANGED held
  <2> DEFINE c == [call[t] EXCEPT !.step = "version"]
  <2>1. call' = [call EXCEPT ![t] = c] BY <1>6 DEF ManagerInv, KeyTypes
  <2>2. c \in RotateCalls /\ c \in CallRecords /\ c.op = "rotate" /\ c.step = "version" /\ c.id = id /\ c.key = stored[id]
    BY <1>2 DEF RotateCalls, CallRecords
  <2> HIDE DEF c
  <2>3. Between' \subseteq Between /\ Between' = {} BY <1>2, <2>1, <2>2, NotBetween
  <2>4. \A h \in Handles : InReach(h) => InReach(h)' BY <1>1, <2>3, SameReach
  <2>5. meta' \in [Ids -> Metadata \cup {None}] /\ MetaDescribes'
    <3>1. key_metadata(id, NoParams) \in Metadata /\ key_metadata(id, NoParams).params = NoParams
      BY <1>2, <1>3, MetadataOf DEF ManagerInv
    <3>2. QED BY <1>4, <1>6, <2>4, <3>1
  <2>6. KeyTypes' BY <1>1, <1>6, <2>1, <2>2, <2>5 DEF ManagerInv, KeyTypes
  <2>7. AsideFirst' BY <2>3 DEF AsideFirst
  <2>8. CallFits(t)'
    <3>1. call'[t] = c BY <2>1 DEF ManagerInv, KeyTypes
    <3>2. QED BY <1>1, <1>2, <2>2, <3>1, Kinds DEF CallFits
  <2>9. QED BY <1>1, <1>5, <1>6, <2>1, <2>2, <2>4, <2>5, <2>6, <2>7, <2>8, StepKeeps
<1>7. CASE /\ call[t].step = "version"
           /\ meta' = [meta EXCEPT ![id] = [key_metadata(id, NoParams) EXCEPT !.version = call[t].version + 1]]
           /\ Return(t, Handle(id, call[t].key))
  <2> DEFINE h1 == Handle(id, call[t].key)
  <2>1. Good(h1) BY <1>2, KeysMade, NewHandle
  <2>2. call' = [call EXCEPT ![t] = None] /\ held' = [held EXCEPT ![t] = IF h1 = None THEN @ ELSE h1]
    BY <1>7 DEF Return
  <2> HIDE DEF h1
  <2>3. held' = held \/ held' = [held EXCEPT ![t] = h1] BY <2>2 DEF ManagerInv, KeyTypes
  <2>4. Between' \subseteq Between /\ Between' = {} BY <1>2, <2>2, NotBetween
  <2>5. \A h \in Handles : InReach(h) => InReach(h)' BY <1>1, <2>4, SameReach
  <2>6. call[t].version + 1 \in Nat BY <1>2
  <2>7. meta' \in [Ids -> Metadata \cup {None}] /\ MetaDescribes'
    <3> DEFINE m == [key_metadata(id, NoParams) EXCEPT !.version = call[t].version + 1]
    <3>1. m \in Metadata /\ m.params = NoParams BY <1>2, <1>3, <2>6, MetadataOf DEF ManagerInv
    <3>2. meta' = [meta EXCEPT ![id] = m] BY <1>7
    <3> HIDE DEF m
    <3>3. QED BY <1>4, <2>5, <3>1, <3>2
  <2>8. KeyTypes' BY <1>1, <2>1, <2>2, <2>3, <2>7 DEF Good, ManagerInv, KeyTypes
  <2>9. AsideFirst' BY <2>4 DEF AsideFirst
  <2>10. CallFits(t)'
    <3>1. call'[t] = None BY <2>2 DEF ManagerInv, KeyTypes
    <3>2. QED BY <3>1, NoneIsNothing DEF CallFits, CallRecords
  <2>11. held' = held \/ (\E h \in Handles \cup {None} : held' = [held EXCEPT ![t] = h] /\ (h # None => InReach(h)'))
    <3>1. PICK h : h = h1 OBVIOUS
    <3>2. h \in Handles /\ InReach(h)' BY <2>1, <2>5, <3>1 DEF Good
    <3>3. QED BY <2>3, <3>1, <3>2
  <2>12. QED BY <1>1, <1>5, <2>2, <2>5, <2>7, <2>8, <2>9, <2>10, <2>11, StepKeeps
<1>8. QED BY <1>6, <1>7 DEF rotate_key_metadata

LEMMA KeyStepKeeps ==
  ASSUME ManagerInv, NEW t \in Threads, KeyStep(t)
  PROVE  ManagerInv' /\ \A h \in Handles : InReach(h) => InReach(h)'
<1>1. CASE \E id \in Ids, config \in KdfConfigs, password \in Passwords :
             derive_key_from_password(t, id, config, password) \/ derive_key_pbkdf2(t, id, config, password)
  BY <1>1, DeriveKeeps DEF derive_key_from_password, derive_key_pbkdf2
<1>2. CASE \E id \in Ids : \/ generate_key(t, id) \/ retrieve(t, id) \/ delete_key_bytes(t, id)
                           \/ rotate_key_get(t, id) \/ record_usage(t, id)
                           \/ \E password \in Passwords : rederive_key_find(t, id, password)
  BY <1>2, GenerateKeeps, RetrieveKeeps, DeleteKeeps, RotationBegins, UsageKeeps, RederiveKeeps
<1>3. CASE \/ store_key_metadata(t) \/ get_key_metadata(t) \/ delete_key_erase(t)
           \/ rotate_key_aside(t) \/ rotate_key_generate(t) \/ rotate_key_metadata(t)
  BY <1>3, StoredMetadataKeeps, GetMetadataKeeps, EraseKeeps, AsideKeeps, SuccessorKeeps, RotationMetadataKeeps
<1>4. CASE rederive_key(t) \/ rederive_key_return(t) BY <1>4, RederiveKeeps
<1>5. CASE \E n \in Keeps \ {keep} : set_rotation_policy(t, n) BY <1>5, PolicyKeeps
<1>6. QED BY <1>1, <1>2, <1>3, <1>4, <1>5 DEF KeyStep

-----------------------------------------------------------------------------
(* The engine: what it seals, it seals with a handle it was given. *)
LEMMA InitKeyInv == Init => ManagerInv /\ EngineKeys
<1> SUFFICES ASSUME Init PROVE ManagerInv /\ EngineKeys OBVIOUS
<1> USE DEF Init, KeyManagerInit, EngineInit
<1>1. Keep \in Nat BY KeyManagerAssumption
<1>2. KeyTypes
  <2>1. <<>> \in Seq([key : Keys, version : Nat]) OBVIOUS
  <2>2. versions \in [Ids -> Seq([key : Keys, version : Nat])] BY <2>1
  <2>3. trail \in [pushes : [Ids -> Nat], epoch : [Ids -> Nat], least : Nat] BY <1>1
  <2>4. QED BY <1>1, <2>2, <2>3 DEF KeyTypes
<1>3. Owner \in Threads /\ \A t \in Threads : call[t] = None /\ held[t] = None BY KeyManagerAssumption
<1>4. Between = {} BY <1>3 DEF Between, SettingAside
<1>5. AsideFirst /\ MetaDescribes /\ HeldInReach BY <1>3, <1>4 DEF AsideFirst, MetaDescribes, HeldInReach
<1>6. \A t \in Threads : CallFits(t) BY <1>3, NoneIsNothing DEF CallFits, CallRecords
<1>7. trail.least <= keep BY <1>1
<1>8. EngineKeys BY DEF EngineKeys
<1>9. QED BY <1>2, <1>5, <1>6, <1>7, <1>8 DEF ManagerInv

\* Steps of the key manager take nothing from the engine.
LEMMA ManagerKeepsEngine ==
  ASSUME EngineKeys, UNCHANGED engineVars, \A h \in Handles : InReach(h) => InReach(h)'
  PROVE  EngineKeys'
<1>1. \A h : Good(h) => h \in Handles /\ Reach(h, stored', versions', trail', Between') BY DEF Good, InReach
<1>2. QED BY <1>1 DEF EngineKeys, engineVars, Good, InReach

LEMMA ManagerRests ==
  ASSUME UNCHANGED kmVars
  PROVE  /\ ManagerInv => ManagerInv'
         /\ Between' = Between /\ UNCHANGED <<stored, versions, trail>>
<1>1. Between' = Between /\ UNCHANGED <<stored, versions, trail>> BY DEF kmVars, Between, SettingAside
<1>2. ManagerInv => ManagerInv'
  BY <1>1 DEF kmVars, ManagerInv, KeyTypes, AsideFirst, MetaDescribes, Describes, HeldInReach, CallFits, InReach
<1>3. QED BY <1>1, <1>2

\* Steps that replace a job, or a stream, and seal at most one text.
LEMMA EngineStepKeepsKeys ==
  ASSUME EngineKeys, UNCHANGED kmVars, ivSize' = ivSize, key' = key,
         \A t \in Sealers : job'[t] # NoJob =>
           /\ key # NoKey
           /\ job'[t].kind = "chunk" /\ job'[t].iv # NoJob => job'[t].iv.size = ivSize,
         stream' # NoJob => Good(stream'.key) /\ (stream'.encrypting => stream'.iv.size = ivSize),
         sealed' = sealed \/ \E c : /\ sealed' = sealed \cup {c} /\ Good(c.under)
                                    /\ (c.kind = "chunk" => ivSize = 12) /\ c.tag.aad = c.aad => c.tag = Tag(c.under, c.iv, c.iv.size, c.aad, c.body)
  PROVE  EngineKeys'
<1>1. \A h : Good(h) <=> h \in Handles /\ Reach(h, stored', versions', trail', Between')
  BY ManagerRests DEF Good, InReach
<1>2. \A c \in sealed' : /\ Good(c.under)
                         /\ (c.kind = "chunk" => ivSize = 12) /\ c.tag.aad = c.aad => c.tag = Tag(c.under, c.iv, c.iv.size, c.aad, c.body)
  BY DEF EngineKeys
<1>3. key' # NoKey => Good(key) BY DEF EngineKeys
<1>4. QED BY <1>1, <1>2, <1>3 DEF EngineKeys, Good, InReach

LEMMA JobsKeepKeys ==
  ASSUME EInv, EngineKeys, UNCHANGED kmVars, NEW t \in Sealers,
         encrypt(t) \/ encrypt_chunk(t) \/ generate_counter_iv(t) \/ derive_chunk_iv(t)
           \/ decrypt_finish(t) \/ (\E c \in sealed : decrypt(t, c))
  PROVE  EngineKeys'
<1>1. job = [u \in Sealers |-> job[u]] /\ (job[t] # NoJob => JobFields \subseteq DOMAIN job[t]) BY DEF EInv
<1>2. UNCHANGED <<ivSize, key, sealed, stream>>
  BY DEF encrypt, encrypt_chunk, BeginSeal, decrypt, decrypt_finish, generate_counter_iv, derive_chunk_iv
<1>3. \A u \in Sealers : u # t => job'[u] = job[u]
  BY <1>1 DEF encrypt, encrypt_chunk, BeginSeal, decrypt, decrypt_finish, generate_counter_iv, derive_chunk_iv
<1>4. job'[t] # NoJob => /\ key # NoKey
                         /\ job'[t].kind = "chunk" /\ job'[t].iv # NoJob => job'[t].iv.size = ivSize
  <2>1. CASE encrypt(t) \/ encrypt_chunk(t) BY <1>1, <2>1 DEF encrypt, encrypt_chunk, BeginSeal, has_key
  <2>2. CASE \E c \in sealed : decrypt(t, c) BY <1>1, <2>2 DEF decrypt, has_key
  <2>3. CASE decrypt_finish(t) BY <1>1, <2>3 DEF decrypt_finish
  <2>4. CASE generate_counter_iv(t) BY <1>1, <2>4 DEF generate_counter_iv, EngineKeys, JobFields
  <2>5. CASE derive_chunk_iv(t)
    <3>1. job[t] # NoJob /\ job' = [job EXCEPT ![t].iv = Iv("chunk", 0, ivSize)] BY <2>5 DEF derive_chunk_iv
    <3>2. "iv" \in DOMAIN job[t] BY <1>1, <3>1 DEF JobFields
    <3>3. job'[t].iv = Iv("chunk", 0, ivSize) BY <1>1, <3>1, <3>2
    <3>4. QED BY <3>1, <3>3 DEF EngineKeys, Iv
  <2>6. QED BY <2>1, <2>2, <2>3, <2>4, <2>5
<1>5. \A u \in Sealers : job'[u] # NoJob =>
        /\ key # NoKey
        /\ job'[u].kind = "chunk" /\ job'[u].iv # NoJob => job'[u].iv.size = ivSize
  BY <1>3, <1>4 DEF EngineKeys
<1>6. stream' # NoJob => Good(stream'.key) /\ (stream'.encrypting => stream'.iv.size = ivSize)
  BY <1>2 DEF EngineKeys
<1>7. QED BY <1>2, <1>5, <1>6, EngineStepKeepsKeys

LEMMA SealKeepsKeys ==
  ASSUME EInv, EngineKeys, UNCHANGED kmVars, NEW t \in Sealers, NEW kind, NEW length,
         FinishSeal(t, kind, length), (kind = "text" /\ length = ivSize) \/ (kind = "chunk" /\ length = 12)
  PROVE  EngineKeys'
<1> DEFINE c == [kind |-> kind, n |-> job[t].n, under |-> key, iv |-> job[t].iv, drawn |-> job[t].drawn,
                 aad |-> AadOf(kind), body |-> job[t].body, tag |-> Tag(key, job[t].iv, length, AadOf(kind), job[t].body)]
<1>1. /\ job[t] # NoJob /\ job[t].kind = kind /\ job[t].iv # NoJob /\ job' = [job EXCEPT ![t] = NoJob]
      /\ UNCHANGED <<ivSize, key, stream>>
      /\ sealed' = sealed \/ sealed' = sealed \cup {c}
  BY DEF FinishSeal
<1>2. Good(key) BY <1>1 DEF EngineKeys
<1>3. job[t].iv.size = ivSize
  <2>1. CASE kind = "text"
    <3>1. Drawing(t) BY <1>1, <2>1 DEF Drawing
    <3>2. CounterNonce(job[t]) BY <3>1 DEF EInv, DrawnOnce
    <3>3. QED BY <3>2 DEF CounterNonce, Iv
  <2>2. CASE kind = "chunk" BY <1>1, <2>2 DEF EngineKeys
  <2>3. QED BY <2>1, <2>2
<1>4. /\ c.under = key
      /\ (c.kind = "chunk" => ivSize = 12) /\ c.tag.aad = c.aad => c.tag = Tag(c.under, c.iv, c.iv.size, c.aad, c.body)
  BY <1>3
<1> HIDE DEF c
<1>5. \A u \in Sealers : job'[u] = IF u = t THEN NoJob ELSE job[u] BY <1>1 DEF EInv
<1>6. \A u \in Sealers : job'[u] # NoJob =>
        /\ key # NoKey
        /\ job'[u].kind = "chunk" /\ job'[u].iv # NoJob => job'[u].iv.size = ivSize
  BY <1>5 DEF EngineKeys
<1>7. stream' # NoJob => Good(stream'.key) /\ (stream'.encrypting => stream'.iv.size = ivSize)
  BY <1>1 DEF EngineKeys
<1>8. QED BY <1>1, <1>2, <1>4, <1>6, <1>7, EngineStepKeepsKeys

LEMMA StreamsKeepKeys ==
  ASSUME EInv, EngineKeys, UNCHANGED kmVars, NEW t \in Sealers,
         create_encrypt_stream(t) \/ (\E c \in sealed : create_decrypt_stream(t, c)) \/ StreamStep(t)
  PROVE  EngineKeys'
<1>1. \A u \in Sealers : job[u] # NoJob =>
        /\ key # NoKey
        /\ job[u].kind = "chunk" /\ job[u].iv # NoJob => job[u].iv.size = ivSize
  BY DEF EngineKeys
<1>2. CASE create_encrypt_stream(t)
  <2>1. key # NoKey /\ stream' \in Initialized(SealingContext(t)) /\ UNCHANGED <<ivSize, key, job, sealed>>
    BY <1>2 DEF create_encrypt_stream, CreateStream, has_key
  <2>2. stream'.key = key /\ stream'.iv.size = ivSize BY <2>1, InitializedOf DEF SealingContext, StreamFields, Iv
  <2>3. Good(key) BY <2>1 DEF EngineKeys
  <2>4. QED BY <1>1, <2>1, <2>2, <2>3, EngineStepKeepsKeys
<1>3. CASE \E c \in sealed : create_decrypt_stream(t, c)
  <2>1. PICK c \in sealed : create_decrypt_stream(t, c) BY <1>3
  <2>2. key # NoKey /\ stream' \in Initialized(OpeningContext(t, c)) /\ UNCHANGED <<ivSize, key, job, sealed>>
    BY <2>1 DEF create_decrypt_stream, CreateStream, has_key
  <2>3. stream'.key = key /\ stream'.encrypting = FALSE BY <2>2, InitializedOf DEF OpeningContext, StreamFields
  <2>4. Good(key) BY <2>2 DEF EngineKeys
  <2>5. QED BY <1>1, <2>2, <2>3, <2>4, EngineStepKeepsKeys
<1>4. CASE \E piece \in Texts : process_chunk(t, piece)
  <2>1. PICK piece \in Texts : process_chunk(t, piece) BY <1>4
  <2>2. stream # NoJob /\ stream' = [stream EXCEPT !.body = Append(@, piece)]
        /\ UNCHANGED <<ivSize, key, job, sealed>>
    BY <2>1 DEF process_chunk
  <2>3. DOMAIN stream = StreamFields BY <2>2 DEF EInv
  <2>4. stream'.key = stream.key /\ stream'.encrypting = stream.encrypting /\ stream'.iv = stream.iv
    BY <2>2, <2>3 DEF StreamFields
  <2>5. Good(stream'.key) /\ (stream'.encrypting => stream'.iv.size = ivSize) BY <2>2, <2>4 DEF EngineKeys
  <2>6. QED BY <1>1, <2>2, <2>5, EngineStepKeepsKeys
<1>5. CASE finalize_encrypt(t)
  <2> DEFINE c == [kind |-> "stream", n |-> stream.iv.n, under |-> stream.key, iv |-> stream.iv, drawn |-> 0,
                   aad |-> Aad, body |-> stream.body, tag |-> Tag(stream.key, stream.iv, ivSize, stream.aad, stream.body)]
  <2>1. /\ stream # NoJob /\ stream.encrypting = TRUE /\ stream' = NoJob /\ UNCHANGED <<ivSize, key, job>>
        /\ sealed' = sealed \/ sealed' = sealed \cup {c}
    BY <1>5 DEF finalize_encrypt, EndStream
  <2>2. Good(stream.key) /\ stream.iv.size = ivSize BY <2>1 DEF EngineKeys
  <2>3. Good(c.under) /\ (c.tag.aad = c.aad => c.tag = Tag(c.under, c.iv, c.iv.size, c.aad, c.body)) BY <2>2 DEF Tag
  <2> HIDE DEF c
  <2>4. QED BY <1>1, <2>1, <2>3, EngineStepKeepsKeys
<1>6. CASE finalize_decrypt(t)
  <2>1. stream' = NoJob /\ UNCHANGED <<ivSize, key, job, sealed>> BY <1>6 DEF finalize_decrypt, EndStream
  <2>2. QED BY <1>1, <2>1, EngineStepKeepsKeys
<1>7. QED BY <1>2, <1>3, <1>4, <1>5, <1>6 DEF StreamStep

LEMMA NextKeepsKeyInv == EInv /\ ManagerInv /\ EngineKeys /\ [Next]_vars => ManagerInv' /\ EngineKeys'
<1> SUFFICES ASSUME EInv, ManagerInv, EngineKeys, [Next]_vars PROVE ManagerInv' /\ EngineKeys' OBVIOUS
<1>1. CASE UNCHANGED vars
  <2>1. UNCHANGED kmVars /\ UNCHANGED engineVars BY <1>1 DEF vars
  <2>2. ManagerInv' BY <2>1, ManagerRests
  <2>3. \A h \in Handles : InReach(h) => InReach(h)' BY <2>1, ManagerRests DEF InReach
  <2>4. QED BY <2>1, <2>2, <2>3, ManagerKeepsEngine
<1>2. CASE DropKey
  <2>1. UNCHANGED kmVars /\ Quiet /\ key' = NoKey /\ UNCHANGED <<ivSize, job, sealed, stream>>
    BY <1>2 DEF DropKey, clear_key
  <2>2. ManagerInv' BY <2>1, ManagerRests
  <2>3. \A h : Good(h) => h \in Handles /\ Reach(h, stored', versions', trail', Between')
    BY <2>1, ManagerRests DEF Good, InReach
  <2>4. EngineKeys' BY <2>1, <2>3 DEF EngineKeys, Quiet, Good, InReach
  <2>5. QED BY <2>2, <2>4
<1>3. ASSUME NEW t \in Threads, UseKey(t) PROVE ManagerInv' /\ EngineKeys'
  <2>1. UNCHANGED kmVars /\ Quiet /\ held[t] # None /\ key' = held[t] /\ UNCHANGED <<ivSize, job, sealed, stream>>
    BY <1>3 DEF UseKey, set_key
  <2>2. ManagerInv' BY <2>1, ManagerRests
  <2>3. Good(held[t]) BY <2>1 DEF ManagerInv, KeyTypes, HeldInReach, Good
  <2>4. \A h : Good(h) => h \in Handles /\ Reach(h, stored', versions', trail', Between')
    BY <2>1, ManagerRests DEF Good, InReach
  <2>5. EngineKeys' BY <2>1, <2>3, <2>4 DEF EngineKeys, Quiet, Good, InReach
  <2>6. QED BY <2>2, <2>5
<1>4. ASSUME NEW t \in Threads, Manage(t) PROVE ManagerInv' /\ EngineKeys'
  BY <1>4, KeyStepKeeps, ManagerKeepsEngine DEF Manage
<1>5. ASSUME NEW t \in Threads, Seal(t) PROVE ManagerInv' /\ EngineKeys'
  <2>1. UNCHANGED kmVars /\ EngineStep(t) /\ t \in Sealers BY <1>5, ThreadsSeal DEF Seal
  <2>2. ManagerInv' BY <2>1, ManagerRests
  <2>3. CASE encrypt_finish(t)
    <3>1. FinishSeal(t, "text", ivSize) BY <2>3 DEF encrypt_finish
    <3>2. QED BY <2>1, <2>2, <3>1, SealKeepsKeys
  <2>4. CASE encrypt_chunk_finish(t)
    <3>1. FinishSeal(t, "chunk", 12) BY <2>4 DEF encrypt_chunk_finish
    <3>2. QED BY <2>1, <2>2, <3>1, SealKeepsKeys
  <2>5. CASE encrypt(t) \/ encrypt_chunk(t) \/ generate_counter_iv(t) \/ derive_chunk_iv(t)
               \/ decrypt_finish(t) \/ (\E c \in sealed : decrypt(t, c))
    BY <2>1, <2>2, <2>5, JobsKeepKeys
  <2>6. CASE create_encrypt_stream(t) \/ (\E c \in sealed : create_decrypt_stream(t, c)) \/ StreamStep(t)
    BY <2>1, <2>2, <2>6, StreamsKeepKeys
  <2>7. QED BY <2>1, <2>3, <2>4, <2>5, <2>6 DEF EngineStep
<1>6. QED BY <1>1, <1>2, <1>3, <1>4, <1>5 DEF Next

LEMMA AlwaysKeyInv == Spec => [](ManagerInv /\ EngineKeys)
BY AlwaysEInv, InitKeyInv, NextKeepsKeyInv, PTL DEF Spec

\* A key in reach that rotations have not carried out of the versions is stored or set aside.
LEMMA KeyIsKept ==
  ASSUME ManagerInv, NEW h \in Handles, InReach(h), h.epoch = trail.epoch[h.id],
         trail.pushes[h.id] - h.since <= trail.least
  PROVE  h.key \in (get_key_versions(h.id) \cup {stored[h.id]}) \ {None}
<1> DEFINE d == trail.pushes[h.id] - h.since
           v == versions[h.id]
<1>1. h.id \in Ids /\ h.since \in Nat /\ h.key \in Keys BY DEF Handles
<1>2. Found(h.key, d, stored[h.id], v, trail.least) BY DEF InReach, Reach
<1>3. trail.pushes[h.id] \in Nat /\ v \in Seq([key : Keys, version : Nat]) BY <1>1 DEF ManagerInv, KeyTypes
<1>4. d \in Nat /\ Len(v) \in Nat BY <1>1, <1>2, <1>3 DEF Found
<1>5. d <= trail.least OBVIOUS
<1>6. h.key \in get_key_versions(h.id) \cup {stored[h.id]}
  <2> HIDE DEF d
  <2>1. CASE d = 0 BY <1>2, <2>1 DEF Found
  <2>2. CASE d >= 1
    <3>1. d <= Len(v) /\ Last(v, d) = h.key BY <1>2, <1>5, <2>2 DEF Found
    <3>2. Len(v) - d + 1 \in DOMAIN v BY <1>3, <1>4, <2>2, <3>1
    <3>3. QED BY <3>1, <3>2 DEF Last, get_key_versions
  <2>3. QED BY <1>4, <2>1, <2>2
<1>7. h.key # None BY <1>1, KeysMade
<1>8. QED BY <1>6, <1>7

(* What was sealed under a key of the manager can be opened with the id's  *)
(* current key or one set aside, also in the middle of a rotation and after *)
(* one that failed, until the id is deleted, given a new key outright, or   *)
(* rotated more often than versions are kept (rotate_key, get_key).         *)
THEOREM SealedTextsStayReadable == Spec => []SealedStaysReadable
<1>1. ManagerInv /\ EngineKeys => SealedStaysReadable
  <2> SUFFICES ASSUME ManagerInv, EngineKeys, NEW c \in sealed,
                      c.under.epoch = trail.epoch[c.under.id],
                      trail.pushes[c.under.id] - c.under.since <= trail.least,
                      c.kind = "chunk" => ivSize = 12, c.tag.aad = c.aad
               PROVE  \E k \in (get_key_versions(c.under.id) \cup {stored[c.under.id]}) \ {None} : Opens([key |-> k], c)
    BY DEF SealedStaysReadable
  <2>1. /\ c.under \in Handles /\ InReach(c.under)
        /\ c.tag = Tag(c.under, c.iv, c.iv.size, c.aad, c.body)
    BY DEF EngineKeys, Good
  <2>2. Opens([key |-> c.under.key], c) BY <2>1 DEF Opens, Tag
  <2>3. c.under.key \in (get_key_versions(c.under.id) \cup {stored[c.under.id]}) \ {None} BY <2>1, KeyIsKept
  <2>4. QED BY <2>2, <2>3
<1>2. QED BY <1>1, AlwaysKeyInv, PTL

\* What a key that goes with params looks like, and who else derives it.
LEMMA KeyOfParams ==
  ASSUME NEW k, NEW params, params # NoParams, MadeBy(k, params), NEW password, NEW again \in Keys,
         Rederived(again, params, password)
  PROVE  /\ k.function # "random" /\ k.salt = params.salt
         /\ password = k.password /\ again.function = k.function => again = k
<1>1. PICK config \in KdfConfigs, own \in Passwords, n \in Numbers, a \in BOOLEAN :
        k = derive_key(config, own, n, a) /\ params = key_derivation_params(config, n)
  BY DEF MadeBy
<1>2. again # None BY KeysMade
<1>3. PICK b \in BOOLEAN : again = derive_key_with_params(params, password, b) BY <1>2 DEF Rederived
<1>4. k.function # "random" /\ k.salt = params.salt
  BY <1>1 DEF derive_key, DeriveArgon2, DerivePbkdf2, Stretch, key_derivation_params
<1>5. ASSUME password = k.password, again.function = k.function PROVE again = k
  <2>1. password = own BY <1>1, <1>5, PasswordOfDerived
  <2>2. again = derive_key(config, own, n, b) BY <1>1, <1>3, <2>1, DerivedAgain
  <2>3. QED BY <1>1, <1>5, <2>2, DerivedAlike
<1>6. QED BY <1>4, <1>5

(* A key that rederive_key gives is one stored or set aside for the id,     *)
(* when the password is that key's: through rotations that go on meanwhile, *)
(* completed or not, as long as no more began since the parameters were     *)
(* written than versions are kept (derive_key_from_password, rotate_key,    *)
(* rederive_key, get_key_versions).                                         *)
THEOREM RederivedKeysAreKept == Spec => []RederivedIsKept
<1>1. ManagerInv => RederivedIsKept
  <2> SUFFICES ASSUME ManagerInv, NEW t \in Threads, NEW c, c = call[t], c # None,
                      c.op = "rederive", c.key # None,
                      c.of.epoch = trail.epoch[c.id], trail.pushes[c.id] - c.of.since <= trail.least
               PROVE  \E k \in (get_key_versions(c.id) \cup {stored[c.id]}) \ {None} :
                        /\ k.function # "random" /\ k.salt = c.params.salt
                        /\ c.password = k.password /\ c.key.function = k.function => c.key = k
    BY DEF RederivedIsKept
  <2>1. c \in RederiveCalls BY KindsOfCalls DEF ManagerInv
  <2>2. /\ c.key \in Keys /\ c.id \in Ids /\ c.of \in Positions
        /\ Rederived(c.key, c.params, c.password) /\ Describes(c.params, c.id, c.of)
    BY <2>1 DEF ManagerInv, CallFits, RederiveCalls
  <2>3. c.params # NoParams BY <2>2 DEF Rederived
  <2>4. PICK k \in Keys : /\ MadeBy(k, c.params)
                          /\ InReach([id |-> c.id, key |-> k, epoch |-> c.of.epoch, since |-> c.of.since])
    BY <2>2, <2>3 DEF Describes, DescribedBy, InReach
  <2> DEFINE h == [id |-> c.id, key |-> k, epoch |-> c.of.epoch, since |-> c.of.since]
  <2>5. h \in Handles /\ h.id = c.id /\ h.key = k /\ h.epoch = c.of.epoch /\ h.since = c.of.since
    BY <2>2 DEF Handles, Positions
  <2>6. InReach(h) BY <2>4
  <2> HIDE DEF h
  <2>7. k \in (get_key_versions(c.id) \cup {stored[c.id]}) \ {None} BY <2>5, <2>6, KeyIsKept
  <2>8. /\ k.function # "random" /\ k.salt = c.params.salt
        /\ c.password = k.password /\ c.key.function = k.function => c.key = k
    BY <2>2, <2>3, <2>4, KeyOfParams
  <2>9. QED BY <2>7, <2>8
<1>2. QED BY <1>1, AlwaysKeyInv, PTL

=============================================================================
