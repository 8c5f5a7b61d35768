------------------------------- MODULE Crypt -------------------------------
(***************************************************************************)
(* WindWalkerCrypt, the one provider of the CryptManager: how settings     *)
(* become a text that any worker process can open.                         *)
(*                                                                         *)
(* Every process has an object of its own.  All share the secret key, so   *)
(* the key that signs a text is told by the salt it is derived from: the   *)
(* object's own salt, drawn at random when it first encrypts, or the salt  *)
(* a text brings along.  The object keeps the signing key it derived last, *)
(* be it for a text it made or for one it opened.  What is signed and what *)
(* is encrypted is told by the token it contains.                          *)
(***************************************************************************)
CONSTANTS
    Salts,      \* salts an object may draw
    NoSalt      \* none drawn, nothing derived

ASSUME SaltAssumption == NoSalt \notin Salts

\* The object of a process: pbkdf2Salt and secureHMACKey
Crypts == [salt : Salts \cup {NoSalt}, hmacKey : Salts \cup {NoSalt}]

FreshCrypt == [salt |-> NoSalt, hmacKey |-> NoSalt]

\* A text: the salt it names, the key that signed it, and what it contains
Texts(Data) == [salt : Salts, hmac : Salts, data : Data]

\* Mutant: the key is derived only when there is none yet.
DeriveOnce(k, s) == [k EXCEPT !.hmacKey = IF @ = NoSalt THEN s ELSE @]

\* derivativeSecureKeys(): whether the derived key is still cached or not
DerivativeSecureKeys(k, s) == [k EXCEPT !.hmacKey = s]

\* getPbkdf2Salt(): s is drawn unless there is a salt
Salted(k, s) == [k EXCEPT !.salt = IF @ = NoSalt THEN s ELSE @]

\* The object after encrypt(), s being the salt it may have drawn
AfterEncrypt(k, s) == DerivativeSecureKeys(Salted(k, s), Salted(k, s).salt)

\* encrypt(data), the object being k afterwards
Encrypt(k, data) == [salt |-> k.salt, hmac |-> k.hmacKey, data |-> data]

\* The object after decrypt(text), and whether the signature is the one it
\* expects then
AfterDecrypt(k, text) == DerivativeSecureKeys(k, text.salt)

Decrypts(k, text) == AfterDecrypt(k, text).hmacKey = text.hmac
=============================================================================
