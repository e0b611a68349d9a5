---------------------------- MODULE MCEncryption ----------------------------
(* An instance of Encryption for TLC. *)
EXTENDS Encryption

\* 11 * 100000 overflows the small word: the fallback then takes the default count.
Configs == {argon2_config(11, 4), pbkdf2_config(1000)}
=============================================================================
