--------------------------- MODULE KeyDerivation ---------------------------
(* The password-based derivations of key_manager.cpp: PBKDF2, and Argon2id  *)
(* that falls back to PBKDF2 when OpenSSL has no Argon2 or fails at it.     *)
(* A derived key is the record of everything that went into it: two         *)
(* derivations give the same key exactly when these records are equal.      *)
EXTENDS Naturals

CONSTANTS
  Word,         \* 2^32, the width of time_cost
  NoPassword,   \* the empty password
  NoParams      \* a key that was not derived

PBKDF2_DEFAULT_ITERATIONS == 600000

\* time_cost * 100000u is taken modulo the word.
FallbackIterations(time_cost) ==
  LET product == (time_cost * 100000) % Word
  IN  IF product > PBKDF2_DEFAULT_ITERATIONS THEN product ELSE PBKDF2_DEFAULT_ITERATIONS

pbkdf2_config(iterations) == [kdf |-> "pbkdf2", iterations |-> iterations, lanes |-> 0]

\* lanes stands for the memory cost and the parallelism together.
argon2_config(time_cost, lanes) == [kdf |-> "argon2id", iterations |-> time_cost, lanes |-> lanes]

\* PKCS5_PBKDF2_HMAC and EVP_KDF_derive: the key depends on every argument.
Stretch(function, password, salt, iterations, lanes) ==
  [function |-> function, password |-> password, salt |-> salt,
   iterations |-> iterations, lanes |-> lanes]

\* Derivation parameters as they are kept in the key's metadata.
key_derivation_params(config, salt) ==
  [kdf |-> config.kdf, salt |-> salt, iterations |-> config.iterations, lanes |-> config.lanes]

\* An empty password is refused. (A salt shorter than 8 bytes is too; generate_salt makes 32.)
Refused(password) == password = NoPassword

DerivePbkdf2(config, password, salt) ==
  Stretch("pbkdf2", password, salt, config.iterations, 0)

(* Argon2id when OpenSSL offers it and answers (native), PBKDF2 otherwise;  *)
(* the parameters say argon2id either way.                                  *)
DeriveArgon2(config, password, salt, native) ==
  IF native
  THEN Stretch("argon2id", password, salt, config.iterations, config.lanes)
  ELSE DerivePbkdf2(pbkdf2_config(FallbackIterations(config.iterations)), password, salt)

derive_key(config, password, salt, native) ==
  IF config.kdf = "argon2id" THEN DeriveArgon2(config, password, salt, native)
                             ELSE DerivePbkdf2(config, password, salt)

\* The configuration is rebuilt from the stored parameters.
pbkdf2_with_params(params, password) ==
  DerivePbkdf2(pbkdf2_config(params.iterations), password, params.salt)

argon2_with_params(params, password, native) ==
  DeriveArgon2(argon2_config(params.iterations, params.lanes), password, params.salt, native)

derive_key_with_params(params, password, native) ==
  IF params.kdf = "argon2id" THEN argon2_with_params(params, password, native)
                             ELSE pbkdf2_with_params(params, password)
=============================================================================
