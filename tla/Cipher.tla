------------------------------- MODULE Cipher -------------------------------
(***************************************************************************)
(* The post-handshake stream cipher, mt5-native/src/cipher.rs              *)
(* `SessionCipher`.  Its state is a key and a position that never resets;  *)
(* a payload deciphers only when both ends stand at the same position of   *)
(* the same key, because the feedback byte is the previous plaintext.      *)
(* Bytes are abstracted to chunks, so a position counts chunks.            *)
(***************************************************************************)
EXTENDS Naturals, Sequences

CONSTANTS Material,       \* key material a broker can hand out
          EmptyMaterial,  \* the zero-length TLV value
          NoKey,          \* Option::None for a key
          Garbled         \* what a payload deciphers to out of step

ASSUME MaterialAssumption == EmptyMaterial \in Material /\ NoKey \notin Material

NewCipher(key) == [key |-> key, pos |-> 0]
NoCipher == NewCipher(NoKey)

Ciphers == [key : Material \union {NoKey}, pos : Nat]

\* What `encrypt` writes: the plaintext, bound to where the cipher stood.
Sealed(c, plain) == [key |-> c.key, at |-> c.pos, plain |-> plain]

Advanced(c, plain) == [c EXCEPT !.pos = @ + Len(plain)]

InStep(c, box) == c.key = box.key /\ c.pos = box.at

\* `decrypt`: an empty payload deciphers to itself wherever the cipher stands.
Opened(c, box) ==
    IF InStep(c, box) \/ box.plain = <<>> THEN box.plain ELSE <<Garbled>>

=============================================================================
