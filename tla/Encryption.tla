----------------------------- MODULE Encryption -----------------------------
(* The encryption layer as its documentation puts it together: keys come    *)
(* from the key manager, are set in an engine, and are rotated while texts  *)
(* sealed under earlier keys are still to be read.                          *)
EXTENDS KeyManager, AesGcmEngine

CONSTANT MaxWork   \* bound: calls of the key manager and the engine together

\* Every thread may call the engine.
ASSUME ThreadsSeal == Threads = Sealers /\ MaxWork \in Nat

vars == <<kmVars, engineVars>>

Init == KeyManagerInit /\ EngineInit

Affordable == keyCalls' + seals' <= MaxWork

UseKey(t) ==
  /\ Idle(t) /\ job[t] = NoJob /\ held[t] # None /\ key # held[t]
  /\ set_key(held[t]) /\ UNCHANGED kmVars

Manage(t) == job[t] = NoJob /\ KeyStep(t) /\ UNCHANGED engineVars /\ Affordable
Seal(t)   == Idle(t) /\ EngineStep(t) /\ UNCHANGED kmVars /\ Affordable
DropKey   == clear_key /\ UNCHANGED kmVars

Next == DropKey \/ \E t \in Threads : UseKey(t) \/ Manage(t) \/ Seal(t)

Spec == Init /\ [][Next]_vars
-----------------------------------------------------------------------------
(* Whatever was sealed under a key of the manager can be opened with the    *)
(* id's current key or with a version set aside, at every moment of every   *)
(* call, a failed rotation included: until the id is deleted or given a new *)
(* key outright, or more rotations began than versions are kept.  A chunk   *)
(* counts only if nonces have 12 bytes, the length encrypt_chunk assumes,   *)
(* and a stream only if its cipher got the associated data its metadata     *)
(* name: create_encrypt_stream hands the context out though it did not.     *)
SealedStaysReadable ==
  \A c \in sealed :
    /\ c.under.epoch = trail.epoch[c.under.id]
    /\ trail.pushes[c.under.id] - c.under.since <= trail.least
    /\ c.kind = "chunk" => ivSize = 12
    /\ c.tag.aad = c.aad
    => \E k \in (get_key_versions(c.under.id) \cup {stored[c.under.id]}) \ {None} : Opens([key |-> k], c)

(* A key that rederive_key gives is one the manager still has: of the keys  *)
(* stored and set aside for the id, one was derived with the parameters it  *)
(* read, and with that one's password it is that key, though the id was     *)
(* rotated before, in between or is being rotated (unless OpenSSL's Argon2  *)
(* answered one derivation and not the other).  The limits are those of     *)
(* reading sealed texts: the id was deleted or given another key, or was    *)
(* rotated more often than versions are kept, since the parameters were     *)
(* written.                                                                 *)
RederivedIsKept ==
  \A t \in Threads :
    LET c == call[t] IN
    c # None =>
      (/\ c.op = "rederive" /\ c.step = "return" /\ c.key # None
       /\ c.of.epoch = trail.epoch[c.id]
       /\ trail.pushes[c.id] - c.of.since <= trail.least
       => \E k \in (get_key_versions(c.id) \cup {stored[c.id]}) \ {None} :
            /\ k.function # "random" /\ k.salt = c.params.salt
            /\ c.password = k.password /\ c.key.function = k.function => c.key = k)

(* Two texts sealed under one key with the same nonce were at least a whole *)
(* turn of the four-byte counter apart, whatever the threads' steps; in a   *)
(* nonce of less than 12 bytes there is no counter.                         *)
NoncesApart ==
  \A c, d \in sealed :
    ivSize >= 12 /\ c.kind = "text" /\ d.kind = "text" /\ c.under.key = d.under.key /\ c.iv = d.iv /\ c # d
      => c.drawn >= d.drawn + CounterWrap \/ d.drawn >= c.drawn + CounterWrap

(* What a decrypting stream vouched for is the text that was sealed, though *)
(* its pieces may arrive in any order, twice or not at all.                 *)
OpenedIsSealed == \A p \in opened : p[2] = p[1].body
=============================================================================
