----------------------------- MODULE CodeCipher -----------------------------
(***************************************************************************)
(* The way of a program from the server into the sandbox, which hides it   *)
(* from whoever sees the frame or the script: encrypt_code in crypto.rs,   *)
(* and _xor in the worker, which undoes it chunk by chunk.  A byte string  *)
(* of length n is a function on 0..n-1.  The base64 text that carries the  *)
(* bytes is left out: a library writes it and a library reads it.          *)
(***************************************************************************)
EXTENDS Integers

CONSTANTS
    Byte,        \* the byte values
    Xor(_, _),   \* exclusive or on them
    ChunkSize    \* what _xor takes at once, 65536, before it is aligned

ASSUME CipherAssumption ==
    /\ ChunkSize \in Nat
    /\ \A a, b \in Byte : Xor(a, b) \in Byte /\ Xor(Xor(a, b), b) = a

VARIABLES
    code, n,   \* the program and its length
    key, kl,   \* the key and its length
    data,      \* the program as it travels
    i, out     \* of _xor: the position, the bytes decrypted before it

cipherVars == <<code, n, key, kl, data, i, out>>

\* encrypt_code
encrypt_code(c, len) == [j \in 0..len-1 |-> Xor(c[j], key[j % kl])]

\* Mutant of chunk: not aligned to the key.
plain_chunk == IF ChunkSize < kl THEN kl ELSE ChunkSize

\* chunk = max(kl, (65536 // kl) * kl)
chunk ==
    LET aligned == (ChunkSize \div kl) * kl
    IN  IF aligned < kl THEN kl ELSE aligned

\* key * (seg_len // kl) + key[: seg_len % kl]
keystream(seg_len) ==
    LET whole == (seg_len \div kl) * kl
    IN  [j \in 0..seg_len-1 |-> IF j < whole THEN key[j % kl] ELSE key[j - whole]]

end == IF i + chunk > n THEN n ELSE i + chunk

\* One turn of the loop of _xor.
XorStep ==
    /\ i < n
    /\ out' = [j \in 0..n-1 |->
                  IF j \in i..end-1 THEN Xor(data[j], keystream(end - i)[j - i]) ELSE out[j]]
    /\ i' = end
    /\ UNCHANGED <<code, n, key, kl, data>>

\* decrypt in prescript.py, byte by byte.
decrypt == [j \in 0..n-1 |-> Xor(data[j], key[j % kl])]

\* _xor on its own: any program, any key that is not empty.
CipherInit ==
    /\ n \in Nat /\ kl \in Nat \ {0}
    /\ code \in [0..n-1 -> Byte]
    /\ key \in [0..kl-1 -> Byte]
    /\ data = encrypt_code(code, n)
    /\ i = 0
    /\ out \in [0..n-1 -> Byte]

CipherSpec == CipherInit /\ [][XorStep]_cipherVars

\* What _xor has written so far is the program, byte for byte: encryption in
\* the server and the chunked decryption in the worker agree on the key
\* byte of every position.
DecryptsCode == \A j \in 0..i-1 : out[j] = code[j]
=============================================================================
