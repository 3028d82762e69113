------------------------------ MODULE VerifySig ------------------------------
(***************************************************************************)
(* verify-sig.c: the exit status of verify-sig <sha256-hex> <file>.        *)
(*                                                                         *)
(* A digest stands for the data it was taken of, so it is the name of an   *)
(* image; unhex's 64 characters are the only length the caller's           *)
(* `sha256sum | cut -c1-64' gives, or none when sha256sum failed.  A       *)
(* signature file is [size, of, ours]: its bytes, the image whose digest   *)
(* was signed, and whether the compiled-in key's owner signed it.          *)
(***************************************************************************)
EXTENDS Integers

crypto_sign_BYTES == 64

NoSig == [size |-> 0, of |-> "none", ours |-> FALSE]      \* fopen fails
NoDigest == "unreadable"                    \* an argument of no characters

\* TweetNaCl: the signature is checked against the digest appended to it,
\* and the message it hands back is that digest.
crypto_sign_open(sig, digest) == sig.ours /\ sig.of = digest

\* fread of 64 bytes, and of one more when there were 64.
got(sig) == IF sig.size <= crypto_sign_BYTES THEN sig.size ELSE crypto_sign_BYTES + 1

Status(digest, sig) ==
    IF digest = NoDigest \/ sig = NoSig \/ got(sig) # crypto_sign_BYTES THEN 2
    ELSE IF crypto_sign_open(sig, digest) THEN 0
    ELSE 1
==============================================================================
