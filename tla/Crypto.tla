------------------------------- MODULE Crypto -------------------------------
(***************************************************************************)
(* The two ciphers of src/src/crypto/srpt_crypto.cpp, over an ideal        *)
(* authenticated cipher in the place of libsodium's: a masked byte gives   *)
(* its plaintext only to its key, nonce and position, and a tag fits only  *)
(* what it was made of.  An initialisation vector is a number with a size. *)
(***************************************************************************)
EXTENDS Naturals, Sequences

CONSTANT TagSize  \* crypto_aead_chacha20poly1305_ABYTES

ASSUME TagSizeAssumption == TagSize \in Nat \ {0}

Exception == <<"exception">>
Unused == [byte |-> "unused"]  \* a byte of a vector, not written to

(* libsodium, external to the repository.                                  *)
Masked(key, iv, plaintext) ==
    [i \in 1 .. Len(plaintext) |->
        [key |-> key, iv |-> iv, position |-> i, byte |-> plaintext[i]]]

TagOf(key, iv, ciphertext, aad) ==
    [key |-> key, iv |-> iv, body |-> ciphertext, aad |-> aad]

Unmasked(ciphertext) == [i \in 1 .. Len(ciphertext) |-> ciphertext[i].byte]

Opened(key, iv, ciphertext, aad, tag) ==
    IF tag = TagOf(key, iv, ciphertext, aad) THEN Unmasked(ciphertext) ELSE Exception

(* std::vector::resize.                                                    *)
Resized(v, n) == [i \in 1 .. n |-> IF i <= Len(v) THEN v[i] ELSE Unused]

-----------------------------------------------------------------------------
(* The ciphertext cut to the length of the tag.                            *)
EncryptAESGCMFaulty(key, iv, plaintext, aad) ==
    LET c == Masked(key, iv, plaintext)
    IN  [ciphertext |-> Resized(c, TagSize), tag |-> TagOf(key, iv, c, aad)]

(* A key and a vector shorter than the cipher's are read past their end,   *)
(* so the caller has to see to the sizes.  On a host without the           *)
(* instructions libsodium's AES-GCM needs, this and decryptAESGCM throw;   *)
(* the hosts here have them.                                               *)
EncryptAESGCM(key, iv, plaintext, aad) ==
    LET c == Masked(key, iv, plaintext)
    IN  [ciphertext |-> c, tag |-> TagOf(key, iv, c, aad)]

DecryptAESGCM(key, iv, ciphertext, aad, tag) == Opened(key, iv, ciphertext, aad, tag)

KeyBytes == 32
NonceBytes == 8  \* crypto_aead_chacha20poly1305_NPUBBYTES

(* Both functions throw std::invalid_argument otherwise.                   *)
SizesFit(keySize, iv) == keySize = KeyBytes /\ iv.size = NonceBytes

(* The length by which the ciphertext is cut is the one that libsodium     *)
(* returns for the tag.                                                    *)
EncryptChaCha20Poly1305(key, iv, plaintext, aad) ==
    LET c == Masked(key, iv, plaintext)
    IN  [ciphertext |-> Resized(Resized(c, Len(c) + TagSize), TagSize),
         tag |-> TagOf(key, iv, c, aad)]

(* The tag is one that was made above, so its size is right.               *)
DecryptChaCha20Poly1305(key, iv, ciphertext, aad, tag) ==
    Opened(key, iv, ciphertext, aad, tag)
=============================================================================
