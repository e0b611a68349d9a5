---------------------------- MODULE AesGcmEngine ----------------------------
(* One aes_gcm_engine shared by several threads, and the stream contexts it *)
(* makes.  OpenSSL's AES-256-GCM is external: a tag stands for the key, the *)
(* nonce with the length it was used at, the associated data and the text,  *)
(* and opening succeeds exactly when the tag presented is the one computed. *)
(* The random part of a nonce is left out, as if it were always the same.   *)
EXTENDS Naturals, Sequences

CONSTANTS
  Sealers,      \* threads that call the engine
  Texts,        \* pieces fed to a stream
  Text,         \* what encrypt and encrypt_chunk are given
  Aad,          \* the associated data given to encrypt and to streams
  IvSizes,      \* values of aes_gcm_config::iv_size; encrypt writes 8 bytes into a nonce of any size
  CounterWrap,  \* 2^32: four bytes of the 64-bit counter go into the nonce
  CipherFaults, \* OpenSSL calls may fail
  MaxSeals,     \* bound: encryptions and streams begun
  MaxStreams,   \* bound: sealing streams are among the first MaxStreams of them
  MaxPieces,    \* bound: pieces fed to a stream
  NoKey, NoTag, NoJob, NoAad

ASSUME EngineAssumption ==
  /\ IvSizes \subseteq {n \in Nat : n >= 8} /\ CounterWrap \in Nat \ {0}
  /\ CipherFaults \in BOOLEAN

VARIABLES
  ivSize,   \* config.iv_size
  key,      \* the engine's key (with its owner's marks), or NoKey
  state,    \* current_state
  counter,  \* iv_counter
  job,      \* the encrypt or encrypt_chunk each thread is in
  sealed,   \* everything encrypted so far: ciphertext and metadata (n: the how-manieth)
  stream,   \* the stream context in use, or NoJob
  opened,   \* what streams gave out whose tag matched: <<ciphertext, text>>
  seals     \* encryptions and streams begun so far

engineVars == <<ivSize, key, state, counter, job, sealed, stream, opened, seals>>

EngineInit ==
  /\ ivSize \in IvSizes /\ key = NoKey /\ state = "uninitialized" /\ counter = 0
  /\ job = [t \in Sealers |-> NoJob] /\ sealed = {} /\ stream = NoJob
  /\ opened = {} /\ seals = 0

has_key == key # NoKey

\* The bytes of the nonce that tell it apart, and its size.
Iv(kind, n, size) == [kind |-> kind, n |-> n, size |-> size]
Tag(k, iv, length, aad, body) == [key |-> k.key, iv |-> iv, length |-> length, aad |-> aad, body |-> body]

(***************************************************************************)
(* set_key and clear_key, which the documentation wants exclusive          *)
(***************************************************************************)
Quiet == \A t \in Sealers : job[t] = NoJob

set_key(k) ==
  /\ Quiet /\ key' = k /\ state' = "ready"
  /\ UNCHANGED <<ivSize, counter, job, sealed, stream, opened, seals>>

clear_key ==
  /\ Quiet /\ has_key /\ key' = NoKey /\ state' = "uninitialized"
  /\ UNCHANGED <<ivSize, counter, job, sealed, stream, opened, seals>>

(***************************************************************************)
(* encrypt (also what encrypt_async runs on its own thread) and            *)
(* encrypt_chunk: the key is checked, a nonce made, the text sealed.       *)
(***************************************************************************)
BeginSeal(t, kind) ==
  /\ job[t] = NoJob /\ has_key /\ seals < MaxSeals
  /\ job' = [job EXCEPT ![t] = [kind |-> kind, n |-> seals, body |-> <<Text>>, iv |-> NoJob, drawn |-> 0]]
  /\ state' = "processing" /\ seals' = seals + 1
  /\ UNCHANGED <<ivSize, key, counter, sealed, stream, opened>>

encrypt(t)       == BeginSeal(t, "text")
encrypt_chunk(t) == BeginSeal(t, "chunk")

\* The low four bytes of a counter's value; a nonce of less than 12 bytes has none of them.
CounterPart(n) == IF ivSize >= 12 THEN n % CounterWrap ELSE 0

\* Mutant: the counter is read and not advanced.
generate_counter_iv_loaded(t) ==
  /\ job[t] # NoJob /\ job[t].iv = NoJob /\ job[t].kind = "text"
  /\ job' = [job EXCEPT ![t].iv = Iv("counter", CounterPart(counter), ivSize), ![t].drawn = counter]
  /\ UNCHANGED <<ivSize, key, state, counter, sealed, stream, opened, seals>>

\* fetch_add, and what of its result goes into the nonce
generate_counter_iv(t) ==
  /\ job[t] # NoJob /\ job[t].iv = NoJob /\ job[t].kind = "text"
  /\ job' = [job EXCEPT ![t].iv = Iv("counter", CounterPart(counter), ivSize), ![t].drawn = counter]
  /\ counter' = counter + 1
  /\ UNCHANGED <<ivSize, key, state, sealed, stream, opened, seals>>

\* the chunk's index (here always 0) in the last four bytes, if there are 12
derive_chunk_iv(t) ==
  /\ job[t] # NoJob /\ job[t].iv = NoJob /\ job[t].kind = "chunk"
  /\ job' = [job EXCEPT ![t].iv = Iv("chunk", 0, ivSize)]
  /\ UNCHANGED <<ivSize, key, state, counter, sealed, stream, opened, seals>>

\* encrypt_chunk takes no associated data.
AadOf(kind) == IF kind = "chunk" THEN NoAad ELSE Aad

\* The steps through OpenSSL; any of them may fail, and then the engine is in error.
FinishSeal(t, kind, length) ==
  LET j == job[t] IN
  /\ j # NoJob /\ j.kind = kind /\ j.iv # NoJob
  /\ \/ /\ sealed' = sealed \cup {[kind |-> kind, n |-> j.n, under |-> key, iv |-> j.iv, drawn |-> j.drawn,
                                   aad |-> AadOf(kind), body |-> j.body,
                                   tag |-> Tag(key, j.iv, length, AadOf(kind), j.body)]}
        /\ state' = "ready"
     \/ CipherFaults /\ state' = "error" /\ UNCHANGED sealed
  /\ job' = [job EXCEPT ![t] = NoJob]
  /\ UNCHANGED <<ivSize, key, counter, stream, opened, seals>>

\* encrypt sets the nonce's length, encrypt_chunk leaves OpenSSL's default of 12.
encrypt_finish(t)       == FinishSeal(t, "text", ivSize)
encrypt_chunk_finish(t) == FinishSeal(t, "chunk", 12)

\* Does key k open c?  The nonce's length is the size of the nonce in the metadata.
Opens(k, c) == c.tag = Tag(k, c.iv, c.iv.size, c.aad, c.body)

\* decrypt, which decrypt_chunk and verify_tag call and decrypt_async runs on a thread
decrypt(t, c) ==
  /\ job[t] = NoJob /\ has_key /\ seals < MaxSeals /\ seals' = seals + 1
  /\ state' = "processing"
  /\ job' = [job EXCEPT ![t] = [kind |-> "open", n |-> seals, body |-> c.body, iv |-> c.iv, drawn |-> 0, ok |-> Opens(key, c)]]
  /\ UNCHANGED <<ivSize, key, counter, sealed, stream, opened>>

decrypt_finish(t) ==
  /\ job[t] # NoJob /\ job[t].kind = "open"
  /\ \/ state' = IF job[t].ok THEN "ready" ELSE "error"
     \/ CipherFaults /\ state' = "error"
  /\ job' = [job EXCEPT ![t] = NoJob]
  /\ UNCHANGED <<ivSize, key, counter, sealed, stream, opened, seals>>

(***************************************************************************)
(* Stream contexts keep their own copy of the key.                         *)
(***************************************************************************)
(* A context for sealing draws a nonce; one for opening takes nonce and tag *)
(* from the metadata.  aad is what the cipher was given of the associated   *)
(* data, keyed whether it was given its key and nonce.                      *)
SealingContext(t) ==
  [by |-> t, encrypting |-> TRUE, key |-> key, iv |-> Iv("random", seals, ivSize), aad |-> Aad,
   keyed |-> TRUE, body |-> <<>>, tag |-> NoTag, of |-> NoJob]

OpeningContext(t, c) ==
  [by |-> t, encrypting |-> FALSE, key |-> key, iv |-> c.iv, aad |-> c.aad,
   keyed |-> TRUE, body |-> <<>>, tag |-> c.tag, of |-> c]

(* What initialize leaves behind: it may stop before the key is set, or     *)
(* before the associated data are given (and then before the tag is; one    *)
(* that stops between the two opens nothing either).  Nobody looks at its   *)
(* result.                                                                  *)
Initialized(context) ==
  {context} \cup (IF CipherFaults THEN {[context EXCEPT !.keyed = FALSE],
                                        [context EXCEPT !.aad = NoAad, !.tag = NoTag]} ELSE {})

CreateStream(t, context) ==
  /\ job[t] = NoJob /\ stream = NoJob /\ has_key /\ seals < MaxSeals /\ seals' = seals + 1
  /\ stream' \in Initialized(context)
  /\ UNCHANGED <<ivSize, key, state, counter, job, sealed, opened>>

create_encrypt_stream(t)    == seals < MaxStreams /\ CreateStream(t, SealingContext(t))
create_decrypt_stream(t, c) == CreateStream(t, OpeningContext(t, c))

\* The pieces of a ciphertext may arrive in any order, or not at all.
process_chunk(t, piece) ==
  /\ stream # NoJob /\ stream.by = t /\ stream.keyed /\ Len(stream.body) < MaxPieces
  /\ ~stream.encrypting => \E i \in 1..Len(stream.of.body) : piece = stream.of.body[i]
  /\ stream' = [stream EXCEPT !.body = Append(@, piece)]
  /\ UNCHANGED <<ivSize, key, state, counter, job, sealed, opened, seals>>

\* Mutant: a tag is asked for and not compared.
AuthenticUnchecked(s) == s.tag # NoTag

Authentic(s) == s.tag # NoTag /\ s.tag = Tag(s.key, s.iv, s.iv.size, s.aad, s.body)

EndStream(t, encrypting) ==
  /\ stream # NoJob /\ stream.by = t /\ stream.encrypting = encrypting /\ stream' = NoJob
  /\ UNCHANGED <<ivSize, key, state, counter, job, seals>>

\* Sealing ends by recording the tag; the metadata have named the associated data from the start.
finalize_encrypt(t) ==
  /\ EndStream(t, TRUE) /\ UNCHANGED opened
  /\ \/ /\ stream.keyed
        /\ sealed' = sealed \cup {[kind |-> "stream", n |-> stream.iv.n, under |-> stream.key, iv |-> stream.iv, drawn |-> 0,
                                   aad |-> Aad, body |-> stream.body,
                                   tag |-> Tag(stream.key, stream.iv, ivSize, stream.aad, stream.body)]}
     \/ CipherFaults /\ UNCHANGED sealed

\* Opening ends by checking it: a stream whose tag does not match is refused, its user drops it.
finalize_decrypt(t) ==
  /\ EndStream(t, FALSE) /\ UNCHANGED sealed
  /\ \/ stream.keyed /\ Authentic(stream) /\ opened' = opened \cup {<<stream.of, stream.body>>}
     \/ (CipherFaults \/ ~Authentic(stream)) /\ UNCHANGED opened

\* encryption_stream_context
StreamStep(t) ==
  (\E piece \in Texts : process_chunk(t, piece)) \/ finalize_encrypt(t) \/ finalize_decrypt(t)

EngineStep(t) ==
  \/ encrypt(t) \/ generate_counter_iv(t) \/ encrypt_finish(t)
  \/ encrypt_chunk(t) \/ derive_chunk_iv(t) \/ encrypt_chunk_finish(t)
  \/ \E c \in sealed : decrypt(t, c) \/ create_decrypt_stream(t, c)
  \/ decrypt_finish(t) \/ create_encrypt_stream(t) \/ StreamStep(t)
=============================================================================
