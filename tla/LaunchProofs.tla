---------------------------- MODULE LaunchProofs ----------------------------
(***************************************************************************)
(* From a request to the code that runs for it (Launch), for every         *)
(* configuration, request, refused call and division of the stream.        *)
(*                                                                         *)
(* _xor in the zygote worker undoes encrypt_code of the server: its loop   *)
(* starts each chunk with the first byte of the key, so what has to be     *)
(* known of the position is that it is a multiple of the length of the     *)
(* key, unless the loop is over.                                           *)
(*                                                                         *)
(* The program arrives as it was sent: however the stream is cut, the      *)
(* worker yields the frames in the order they were written and unchanged,  *)
(* the one RUN frame starts the one process, and what that process runs is *)
(* the program, byte for byte.  The bytes that are under way are divided   *)
(* by a list of offsets, and between two offsets lies the encoding of one  *)
(* frame.                                                                  *)
(*                                                                         *)
(* Code runs in a confined process only and gets what the configuration    *)
(* grants it: the calls made so far are a prefix of Bootstrap(opts), each  *)
(* of them has left its mark on the process, and the process has the right *)
(* to the ones that follow.                                                *)
(***************************************************************************)
EXTENDS Launch, TLAPS

-----------------------------------------------------------------------------
(* The cipher *)

\* The loop invariant of _xor.
LoopInv ==
    /\ n \in Nat /\ kl \in Nat \ {0}
    /\ code \in [0..n-1 -> Byte]
    /\ key \in [0..kl-1 -> Byte]
    /\ data = encrypt_code(code, n)
    /\ i \in 0..n
    /\ i = n \/ \E m \in Nat : i = m * kl
    /\ DecryptsCode

-----------------------------------------------------------------------------

\* Quotient and remainder, as // and % in the code have them.
LEMMA DivMod ==
    ASSUME NEW a \in Nat, NEW b \in Nat \ {0}
    PROVE  /\ a \div b \in Nat
           /\ a % b \in 0..b-1
           /\ a = (a \div b) * b + (a % b)
BY Z3

\* A remainder is determined by being smaller than the divisor: key[j % kl]
\* is the byte at the offset of j in its turn of the key.
LEMMA Remainder ==
    ASSUME NEW b \in Nat \ {0}, NEW q \in Nat, NEW r \in 0..b-1
    PROVE  (q * b + r) % b = r
<1> DEFINE a == q * b + r
           p == a \div b
           s == a % b
<1>1. a \in Nat
  OBVIOUS
<1>2. p \in Nat /\ s \in 0..b-1 /\ q * b + r = p * b + s
  BY <1>1, DivMod, ZenonT(30)
<1> HIDE DEF p, s, a
<1>3. ~(p > q)
  <2> SUFFICES ASSUME p > q PROVE FALSE
    OBVIOUS
  <2>1. PICK d \in Nat : p = q + 1 + d
    BY <1>2
  <2>2. p * b = q * b + b + d * b
    BY <1>2, <2>1
  <2>3. d * b \in Nat
    BY <2>1
  <2> QED
    BY <1>2, <2>2, <2>3
<1>4. ~(p < q)
  <2> SUFFICES ASSUME p < q PROVE FALSE
    OBVIOUS
  <2>1. PICK d \in Nat : q = p + 1 + d
    BY <1>2
  <2>2. q * b = p * b + b + d * b
    BY <1>2, <2>1
  <2>3. d * b \in Nat
    BY <2>1
  <2> QED
    BY <1>2, <2>2, <2>3
<1>5. p = q
  BY <1>2, <1>3, <1>4
<1>6. s = r
  BY <1>2, <1>5
<1> QED
  BY <1>6 DEF s, a
-----------------------------------------------------------------------------

\* chunk is a positive multiple of the length of the key.
LEMMA ChunkAligned ==
    ASSUME LoopInv
    PROVE  \E c \in Nat \ {0} : chunk = c * kl
<1> DEFINE q == ChunkSize \div kl
<1>1. q \in Nat /\ kl \in Nat \ {0}
  BY DivMod, CipherAssumption, ZenonT(30) DEF LoopInv
<1>2. CASE q * kl < kl
  <2>1. chunk = 1 * kl
    BY <1>1, <1>2 DEF chunk
  <2> QED
    BY <2>1
<1>3. CASE ~(q * kl < kl)
  <2>1. chunk = q * kl
    BY <1>1, <1>3 DEF chunk
  <2>2. q # 0
    BY <1>1, <1>3
  <2> QED
    BY <1>1, <2>1, <2>2
<1> QED
  BY <1>2, <1>3

\* The keystream of a segment has the byte of the key that its offset in the
\* segment asks for.
LEMMA KeystreamByte ==
    ASSUME LoopInv, NEW len \in Nat, NEW d \in 0..len-1
    PROVE  keystream(len)[d] = key[d % kl]
<1> DEFINE q == len \div kl
           whole == q * kl
<1>1. kl \in Nat \ {0}
  BY DEF LoopInv
<1>2. q \in Nat /\ (len % kl) \in 0..kl-1 /\ len = q * kl + (len % kl)
  BY <1>1, DivMod, ZenonT(30)
<1>3. CASE d < whole
  BY <1>3 DEF keystream
<1>4. CASE ~(d < whole)
  <2>1. d - whole \in 0..kl-1 /\ d = q * kl + (d - whole)
    BY <1>1, <1>2, <1>4
  <2>2. (q * kl + (d - whole)) % kl = d - whole
    BY <1>1, <1>2, <2>1, Remainder, ZenonT(30)
  <2>3. d % kl = d - whole
    BY <2>1, <2>2
  <2> QED
    BY <1>4, <2>3 DEF keystream
<1> QED
  BY <1>3, <1>4

\* Position j of the program and its offset in a chunk that starts at a
\* multiple of the length of the key ask for the same byte of the key.
LEMMA SameKeyByte ==
    ASSUME NEW b \in Nat \ {0}, NEW m \in Nat, NEW d \in Nat
    PROVE  (m * b + d) % b = d % b
<1> DEFINE q == d \div b
           r == d % b
<1>1. q \in Nat /\ r \in 0..b-1 /\ d = q * b + r
  BY DivMod, ZenonT(30)
<1> HIDE DEF q, r
<1>2. m * b + d = (m + q) * b + r
  BY <1>1
<1>3. ((m + q) * b + r) % b = r
  BY <1>1, Remainder
<1> QED
  BY <1>2, <1>3 DEF r

\* A turn of the loop of _xor keeps the invariant.
LEMMA TurnKeepsLoopInv ==
    ASSUME LoopInv, XorStep
    PROVE  LoopInv'
<1>1. PICK m \in Nat : i = m * kl
  BY DEF LoopInv, XorStep
<1>2. PICK c \in Nat \ {0} : chunk = c * kl
  BY ChunkAligned
<1>3. n \in Nat /\ kl \in Nat \ {0} /\ i \in 0..n /\ i < n /\ i' = end
  BY DEF LoopInv, XorStep
<1>4. chunk \in Nat /\ chunk > 0
  BY <1>2, <1>3
<1>5. end \in i+1..n
  BY <1>3, <1>4 DEF end
<1>6. end = n \/ end = (m + c) * kl
  <2>1. (m + c) * kl = m * kl + c * kl
    BY <1>1, <1>2, <1>3
  <2> QED
    BY <1>1, <1>2, <2>1 DEF end
<1>7. ASSUME NEW j \in i..end-1
      PROVE  Xor(data[j], keystream(end - i)[j - i]) = code[j]
  <2>1. j \in 0..n-1 /\ j - i \in Nat /\ end - i \in Nat /\ j - i \in 0..(end-i)-1
    BY <1>3, <1>5, <1>7
  <2>2. keystream(end - i)[j - i] = key[(j - i) % kl]
    BY <2>1, KeystreamByte
  <2>3. (m * kl + (j - i)) % kl = (j - i) % kl
    BY <1>3, <2>1, SameKeyByte, ZenonT(30)
  <2>4. j = m * kl + (j - i)
    BY <1>1, <1>3, <2>1
  <2>5. (j % kl) \in 0..kl-1
    BY <1>3, <2>1, DivMod
  <2>6. data[j] = Xor(code[j], key[j % kl])
    BY <2>1 DEF LoopInv, encrypt_code
  <2>7. code[j] \in Byte /\ key[j % kl] \in Byte
    BY <2>1, <2>5 DEF LoopInv
  <2> QED
    BY <2>2, <2>3, <2>4, <2>6, <2>7, CipherAssumption
<1>8. DecryptsCode'
  <2> SUFFICES ASSUME NEW j \in 0..end-1
               PROVE  out'[j] = code[j]
    BY <1>3, ZenonT(30) DEF DecryptsCode, XorStep
  <2>1. j \in 0..n-1
    BY <1>3, <1>5
  <2>2. CASE j \in i..end-1
    BY <1>7, <2>1, <2>2 DEF XorStep
  <2>3. CASE j \notin i..end-1
    <3>1. j \in 0..i-1
      BY <1>3, <1>5, <2>3
    <3> QED
      BY <2>1, <2>3, <3>1 DEF XorStep, LoopInv, DecryptsCode
  <2> QED
    BY <2>2, <2>3
<1>9. i' \in 0..n /\ (i' = n \/ \E k \in Nat : i' = k * kl)
  <2>1. i' \in 0..n
    BY <1>3, <1>5
  <2>2. m + c \in Nat
    OBVIOUS
  <2>3. ASSUME end = (m + c) * kl PROVE \E k \in Nat : i' = k * kl
    <3> WITNESS m + c \in Nat
    <3> QED
      BY <1>3, <2>3
  <2> QED
    BY <1>3, <1>6, <2>1, <2>3
<1> QED
  BY <1>8, <1>9, ZenonT(30) DEF LoopInv, XorStep, encrypt_code

\* _xor gives back the program that encrypt_code was given, byte for byte,
\* for every program, key and chunk size: whatever it has written at any
\* point of its loop is a prefix of the program.
THEOREM XorUndoesEncryption == CipherSpec => []DecryptsCode
<1>1. CipherInit => LoopInv
  BY DEF CipherInit, LoopInv, DecryptsCode
<1>2. LoopInv /\ [XorStep]_cipherVars => LoopInv'
  <2>1. ASSUME LoopInv, UNCHANGED cipherVars PROVE LoopInv'
    BY <2>1 DEF LoopInv, DecryptsCode, cipherVars, encrypt_code
  <2> QED
    BY <2>1, TurnKeepsLoopInv
<1>3. LoopInv => DecryptsCode
  BY DEF LoopInv
<1> QED
  BY <1>1, <1>2, <1>3, PTL DEF CipherSpec

-----------------------------------------------------------------------------
(* The delivery of the program *)

\* Header bytes are numbers, payload bytes are bytes.
Octet == Nat \cup Byte
Frames == [type : Nat, id : Nat, payload : Seq(Octet)]

Size(f) == HEADER_SIZE + Len(f.payload)

\* The bytes from position a of u on are those of frame f.
LiesAt(f, u, a) == \A j \in 1..Size(f) : u[a + j] = encode_frame(f)[j]

\* The offsets off divide u into the encodings of the frames p.
Divides(off, u, p) ==
    /\ off \in [0..Len(p) -> 0..Len(u)]
    /\ off[0] = 0 /\ off[Len(p)] = Len(u)
    /\ \A k \in 0..Len(p) : \A j \in 0..k : off[j] <= off[k]
    /\ \A k \in 1..Len(p) : off[k] = off[k-1] + Size(p[k]) /\ LiesAt(p[k], u, off[k-1])

Framed(u, p) == \E off : Divides(off, u, p)

\* The frames that were sent and not yet yielded, and their bytes.
Pending == SubSeq(sent, Len(got) + 1, Len(sent))
Unread == recv_buf \o (sock \o tosend)

\* The worker has yielded the first frames that were sent; the bytes under
\* way are those of the others.
StreamInv ==
    /\ sent \in Seq(Frames)
    /\ {tosend, sock, recv_buf} \subseteq Seq(Octet)
    /\ Len(got) \in 0..Len(sent) /\ got = SubSeq(sent, 1, Len(got))
    /\ Framed(Unread, Pending)

RunFrame == [type |-> RUN, id |-> 1, payload |-> [k \in 1..n |-> encrypt_code(code, n)[k-1]]]
KillFrame == [type |-> KILL, id |-> 1, payload |-> <<>>]

\* The program and the key of the request.
ProgramInv ==
    /\ n \in Nat /\ kl \in Nat \ {0}
    /\ code \in [0..n-1 -> Byte]
    /\ key \in [0..kl-1 -> Byte]

\* On the fast path, RUN is sent first and once, and KILL after it.  It is
\* the RUN frame that ends the wait for the worker.
RoutedInv ==
    /\ path = "none" <=> stage \in {"request", "refused"}
    /\ path # "fast" => sent = <<>>
    /\ path = "fast" =>
          /\ sent # <<>> /\ sent[1] = RunFrame
          /\ \A k \in 2..Len(sent) : sent[k] = KillFrame
          /\ got = <<>> => stage = "send"
    /\ stage = "send" => path = "fast" /\ got = <<>>

\* What travels, and what has been decoded of it.
DecodeInv ==
    /\ out = [j \in 0..n-1 |-> out[j]]
    /\ path = "none" => i = 0
    /\ path = "fast" => LoopInv
    /\ path = "slow" => data = encrypt_code(code, n)
    /\ path = "node" => data = code
    /\ path \in {"none", "fast", "slow", "node"}
    /\ CodeIntact

DeliveryInv == StreamInv /\ ProgramInv /\ RoutedInv /\ DecodeInv

-----------------------------------------------------------------------------
(* Sequences *)

\* Sequences of the same length with the same elements are equal.
LEMMA SameSeq ==
    ASSUME NEW S, NEW s \in Seq(S), NEW t \in Seq(S), Len(s) = Len(t),
           \A j \in 1..Len(s) : s[j] = t[j]
    PROVE  s = t
OBVIOUS

\* Where the elements of a concatenation come from.
LEMMA ConcatElements ==
    ASSUME NEW S, NEW s \in Seq(S), NEW t \in Seq(S)
    PROVE  /\ s \o t \in Seq(S)
           /\ Len(s) \in Nat /\ Len(t) \in Nat
           /\ Len(s \o t) = Len(s) + Len(t)
           /\ \A j \in 1..Len(s) : (s \o t)[j] = s[j]
           /\ \A j \in 1..Len(t) : (s \o t)[Len(s) + j] = t[j]
           /\ \A j \in Len(s)+1..Len(s)+Len(t) : (s \o t)[j] = t[j - Len(s)]
OBVIOUS

\* recv and the kernel move bytes along; none changes its place in the stream.
LEMMA ConcatAssociates ==
    ASSUME NEW S, NEW r \in Seq(S), NEW s \in Seq(S), NEW t \in Seq(S)
    PROVE  (r \o s) \o t = r \o (s \o t)
<1> DEFINE a == (r \o s) \o t
           b == r \o (s \o t)
<1>1. r \o s \in Seq(S) /\ s \o t \in Seq(S)
  BY ConcatElements, Zenon
<1>2. a \in Seq(S) /\ b \in Seq(S) /\ Len(a) = Len(b) /\ Len(a) = Len(r) + Len(s) + Len(t)
  BY <1>1, ConcatElements
<1>3. ASSUME NEW j \in 1..Len(a) PROVE a[j] = b[j]
  BY <1>1, <1>2, ConcatElements, SMTT(60)
<1> HIDE DEF a, b
<1>4. a = b
  BY <1>2, <1>3, SameSeq, ZenonT(30)
<1> QED
  BY <1>4, Zenon DEF a, b

\* What is left of a sequence without its first k elements.
LEMMA WithoutFirst ==
    ASSUME NEW S, NEW s \in Seq(S), NEW k \in 0..Len(s)
    PROVE  /\ SubSeq(s, k + 1, Len(s)) \in Seq(S)
           /\ Len(SubSeq(s, k + 1, Len(s))) = Len(s) - k
           /\ \A j \in 1..Len(s)-k : SubSeq(s, k + 1, Len(s))[j] = s[k + j]
OBVIOUS

\* A sequence is its first k elements and the others.
LEMMA SplitSeq ==
    ASSUME NEW S, NEW s \in Seq(S), NEW k \in 0..Len(s)
    PROVE  /\ SubSeq(s, 1, k) \in Seq(S)
           /\ SubSeq(s, k + 1, Len(s)) \in Seq(S)
           /\ SubSeq(s, 1, k) \o SubSeq(s, k + 1, Len(s)) = s
<1> DEFINE a == SubSeq(s, 1, k)
           b == SubSeq(s, k + 1, Len(s))
<1>1. /\ a \in Seq(S) /\ Len(a) = k /\ \A j \in 1..k : a[j] = s[j]
      /\ b \in Seq(S) /\ Len(b) = Len(s) - k /\ \A j \in 1..Len(s)-k : b[j] = s[k + j]
  OBVIOUS
<1> HIDE DEF a, b
<1>2. /\ a \o b \in Seq(S) /\ Len(a \o b) = Len(s)
      /\ \A j \in 1..k : (a \o b)[j] = a[j]
      /\ \A j \in 1..Len(s)-k : (a \o b)[k + j] = b[j]
  BY <1>1, ConcatElements
<1>3. ASSUME NEW j \in 1..Len(s) PROVE (a \o b)[j] = s[j]
  <2>1. CASE j \in 1..k
    BY <1>1, <1>2, <2>1, Zenon
  <2>2. CASE j \in k+1..Len(s)
    <3>1. PICK d \in 1..Len(s)-k : j = k + d
      <4>1. j - k \in 1..Len(s)-k /\ j = k + (j - k)
        BY <2>2
      <4> QED
        BY <4>1, Zenon
    <3> QED
      BY <1>1, <1>2, <3>1, Zenon
  <2>3. j \in 1..k \/ j \in k+1..Len(s)
    OBVIOUS
  <2> QED
    BY <2>1, <2>2, <2>3, ZenonT(30)
<1>4. a \o b = s
  BY <1>2, <1>3, SameSeq, ZenonT(30)
<1> QED
  BY <1>1, <1>4, ZenonT(30) DEF a, b

\* The frames sent are one more: those behind the first k are one more, too.
LEMMA OneMore ==
    ASSUME NEW S, NEW s \in Seq(S), NEW k \in 0..Len(s), NEW f \in S
    PROVE  /\ SubSeq(Append(s, f), k + 1, Len(Append(s, f)))
                = Append(SubSeq(s, k + 1, Len(s)), f)
           /\ SubSeq(Append(s, f), 1, k) = SubSeq(s, 1, k)
           /\ k \in 0..Len(Append(s, f))
<1> DEFINE t == Append(s, f)
           a == SubSeq(t, k + 1, Len(t))
           b == SubSeq(s, k + 1, Len(s))
<1>1. /\ t \in Seq(S) /\ Len(t) = Len(s) + 1 /\ t[Len(s) + 1] = f /\ Len(s) \in Nat
      /\ \A j \in 1..Len(s) : t[j] = s[j]
  OBVIOUS
<1> HIDE DEF t
<1>2. k \in 0..Len(t)
  BY <1>1
<1>3. /\ a \in Seq(S) /\ Len(a) = Len(t) - k /\ \A j \in 1..Len(t)-k : a[j] = t[k + j]
      /\ b \in Seq(S) /\ Len(b) = Len(s) - k /\ \A j \in 1..Len(s)-k : b[j] = s[k + j]
  BY <1>1, <1>2, WithoutFirst, ZenonT(30)
<1> HIDE DEF a, b
<1>4. a = Append(b, f)
  <2> DEFINE c == Append(b, f)
  <2>1. /\ c \in Seq(S) /\ Len(c) = Len(b) + 1 /\ c[Len(b) + 1] = f
        /\ \A j \in 1..Len(b) : c[j] = b[j]
    BY <1>3
  <2> HIDE DEF c
  <2>2. ASSUME NEW j \in 1..Len(a) PROVE a[j] = c[j]
    <3>1. CASE j = Len(b) + 1
      BY <1>1, <1>3, <2>1, <3>1, SMTT(30)
    <3>2. CASE j \in 1..Len(b)
      BY <1>1, <1>3, <2>1, <3>2, SMTT(30)
    <3> QED
      BY <1>1, <1>3, <3>1, <3>2
  <2>3. Len(a) = Len(c)
    BY <1>1, <1>3, <2>1
  <2>4. a = c
    BY <1>3, <2>1, <2>2, <2>3, SameSeq, Zenon
  <2> QED
    BY <2>4, Zenon DEF c
<1>5. SubSeq(t, 1, k) = SubSeq(s, 1, k)
  BY <1>1, <1>2
<1> QED
  BY <1>2, <1>4, <1>5, ZenonT(30) DEF a, b, t

\* The frames yielded are one more: the others are one less.
LEMMA OneLess ==
    ASSUME NEW S, NEW s \in Seq(S), NEW k \in 0..Len(s), SubSeq(s, k + 1, Len(s)) # <<>>
    PROVE  /\ k + 1 \in 0..Len(s)
           /\ SubSeq(s, k + 1, Len(s))[1] = s[k + 1]
           /\ SubSeq(s, (k + 1) + 1, Len(s)) = Tail(SubSeq(s, k + 1, Len(s)))
           /\ SubSeq(s, 1, k + 1) = Append(SubSeq(s, 1, k), s[k + 1])
           /\ Len(Append(SubSeq(s, 1, k), s[k + 1])) = k + 1
<1> DEFINE b == SubSeq(s, k + 1, Len(s))
           c == SubSeq(s, (k + 1) + 1, Len(s))
           d == SubSeq(s, 1, k + 1)
           e == SubSeq(s, 1, k)
<1>1. /\ b \in Seq(S) /\ Len(b) = Len(s) - k /\ \A j \in 1..Len(s)-k : b[j] = s[k + j]
  BY WithoutFirst, Zenon
<1>2. b # <<>>
  OBVIOUS
<1> HIDE DEF b
<1>3. k + 1 \in 0..Len(s) /\ b[1] = s[k + 1] /\ s[k + 1] \in S
  <2>1. Len(b) # 0
    BY <1>1, <1>2
  <2> QED
    BY <1>1, <2>1
<1>4. /\ c \in Seq(S) /\ Len(c) = Len(s) - (k + 1)
      /\ \A j \in 1..Len(s)-(k+1) : c[j] = s[(k + 1) + j]
  BY <1>3, WithoutFirst, Zenon
<1> HIDE DEF c
<1>5. c = Tail(b)
  <2> DEFINE t == Tail(b)
  <2>1. t \in Seq(S) /\ Len(t) = Len(b) - 1 /\ \A j \in 1..Len(b)-1 : t[j] = b[j + 1]
    BY <1>1, <1>2
  <2> HIDE DEF t
  <2>2. ASSUME NEW j \in 1..Len(c) PROVE c[j] = t[j]
    <3>1. j \in 1..Len(b)-1 /\ j + 1 \in 1..Len(s)-k /\ k + (j + 1) = (k + 1) + j
      BY <1>1, <1>4
    <3> QED
      BY <1>1, <1>4, <2>1, <3>1, Zenon
  <2>3. Len(c) = Len(t)
    BY <1>1, <1>4, <2>1
  <2>4. c = t
    BY <1>4, <2>1, <2>2, <2>3, SameSeq, ZenonT(30)
  <2> QED
    BY <2>4, Zenon DEF t
<1>6. /\ d \in Seq(S) /\ Len(d) = k + 1 /\ \A j \in 1..k+1 : d[j] = s[j]
      /\ e \in Seq(S) /\ Len(e) = k /\ \A j \in 1..k : e[j] = s[j]
  BY <1>3, SMTT(30)
<1> HIDE DEF d, e
<1>7. d = Append(e, s[k + 1]) /\ Len(Append(e, s[k + 1])) = k + 1
  <2> DEFINE g == Append(e, s[k + 1])
  <2>1. /\ g \in Seq(S) /\ Len(g) = k + 1 /\ g[k + 1] = s[k + 1]
        /\ \A j \in 1..k : g[j] = e[j]
    BY <1>3, <1>6, SMTT(30)
  <2> HIDE DEF g
  <2>2. ASSUME NEW j \in 1..k+1 PROVE d[j] = g[j]
    BY <1>6, <2>1, SMTT(30)
  <2>3. d = g
    BY <1>6, <2>1, <2>2, SameSeq, Zenon
  <2> QED
    BY <2>1, <2>3, Zenon DEF g
<1> QED
  BY <1>3, <1>5, <1>7, Zenon DEF b, c, d, e

-----------------------------------------------------------------------------
(* Frames *)

\* encode_frame: the header holds the length, the type and the request.
LEMMA Encoded ==
    ASSUME NEW f \in Frames
    PROVE  /\ encode_frame(f) \in Seq(Octet)
           /\ Len(f.payload) \in Nat
           /\ Size(f) \in Nat /\ Size(f) >= HEADER_SIZE
           /\ Len(encode_frame(f)) = Size(f)
           /\ plen_of(encode_frame(f)) = Len(f.payload)
           /\ encode_frame(f)[3] = f.type /\ encode_frame(f)[4] = f.id
           /\ \A j \in 1..Len(f.payload) : encode_frame(f)[HEADER_SIZE + j] = f.payload[j]
<1> DEFINE l == Len(f.payload)
           q == l \div Base
           r == l % Base
           h == <<q, r, f.type, f.id>>
<1>1. /\ f.payload \in Seq(Octet) /\ f.type \in Nat /\ f.id \in Nat
      /\ l \in Nat /\ Base \in Nat \ {0}
  BY StreamAssumption DEF Frames
<1>2. q \in Nat /\ r \in 0..Base-1 /\ l = q * Base + r
  BY <1>1, DivMod, ZenonT(30)
<1> HIDE DEF q, r, l
<1>3. q \in Nat /\ r \in Nat /\ l = q * Base + r
  BY <1>1, <1>2
<1>4. /\ h \in Seq(Octet) /\ Len(h) = 4
      /\ h[1] = q /\ h[2] = r /\ h[3] = f.type /\ h[4] = f.id
  BY <1>1, <1>3 DEF Octet
<1> DEFINE e == encode_frame(f)
<1>5. e = h \o f.payload
  BY Zenon DEF encode_frame, l, q, r
<1> HIDE DEF h, e
<1>6. /\ e \in Seq(Octet) /\ Len(e) = Len(h) + Len(f.payload)
      /\ \A j \in 1..Len(h) : e[j] = h[j]
      /\ \A j \in 1..Len(f.payload) : e[Len(h) + j] = f.payload[j]
  <2> DEFINE b == f.payload
  <2>1. h \in Seq(Octet) /\ b \in Seq(Octet)
    BY <1>1, <1>4, Zenon
  <2>2. e = h \o b
    BY <1>5, Zenon
  <2> HIDE DEF b
  <2>3. /\ e \in Seq(Octet) /\ Len(e) = Len(h) + Len(b)
        /\ \A j \in 1..Len(h) : e[j] = h[j]
        /\ \A j \in 1..Len(b) : e[Len(h) + j] = b[j]
    BY <2>1, <2>2, ConcatElements
  <2> QED
    BY <2>3, Zenon DEF b
<1>7. /\ e \in Seq(Octet) /\ Len(e) = 4 + l
      /\ e[1] = q /\ e[2] = r /\ e[3] = f.type /\ e[4] = f.id
      /\ \A j \in 1..l : e[4 + j] = f.payload[j]
  BY <1>4, <1>6 DEF l
<1>8. plen_of(e) = l
  BY <1>3, <1>7, Zenon DEF plen_of
<1>9. Size(f) = 4 + l /\ HEADER_SIZE = 4
  BY Zenon DEF Size, HEADER_SIZE, l
<1> QED
  BY <1>1, <1>7, <1>8, <1>9 DEF l, e

\* A frame that is written after whole frames: its bytes are the last ones.
LEMMA FramedAppend ==
    ASSUME NEW u \in Seq(Octet), NEW p \in Seq(Frames), NEW f \in Frames, Framed(u, p)
    PROVE  Framed(u \o encode_frame(f), Append(p, f))
<1> DEFINE v == u \o encode_frame(f)
           m == Len(p)
           q == Append(p, f)
<1>1. /\ encode_frame(f) \in Seq(Octet) /\ Size(f) \in Nat
      /\ Len(encode_frame(f)) = Size(f)
  BY Encoded, Zenon
<1>2. /\ m \in Nat /\ Len(q) = m + 1 /\ q[m + 1] = f
      /\ \A k \in 1..m : q[k] = p[k] /\ p[k] \in Frames
  OBVIOUS
<1>3. /\ Len(u) \in Nat /\ Len(v) = Len(u) + Size(f)
      /\ \A j \in 1..Len(u) : v[j] = u[j]
      /\ \A j \in 1..Size(f) : v[Len(u) + j] = encode_frame(f)[j]
  <2> DEFINE e == encode_frame(f)
  <2> HIDE DEF e
  <2>1. /\ Len(u) \in Nat /\ Len(u \o e) = Len(u) + Len(e)
        /\ \A j \in 1..Len(u) : (u \o e)[j] = u[j]
        /\ \A j \in 1..Len(e) : (u \o e)[Len(u) + j] = e[j]
    <3>1. u \in Seq(Octet) /\ e \in Seq(Octet)
      BY <1>1, Zenon DEF e
    <3> QED
      BY <3>1, ConcatElements
  <2> QED
    BY <1>1, <2>1, Zenon DEF e
<1>4. PICK off : Divides(off, u, p)
  BY Zenon DEF Framed
<1> DEFINE new == [k \in 0..m+1 |-> IF k = m + 1 THEN Len(v) ELSE off[k]]
<1> HIDE DEF v, q, m
<1>5. /\ off \in [0..m -> 0..Len(u)] /\ off[0] = 0 /\ off[m] = Len(u)
      /\ \A k \in 0..m : \A j \in 0..k : off[j] <= off[k]
      /\ \A k \in 1..m : off[k] = off[k-1] + Size(p[k]) /\ LiesAt(p[k], u, off[k-1])
  BY <1>4, Zenon DEF Divides, m
<1>6. /\ new \in [0..m+1 -> 0..Len(v)] /\ new[0] = 0 /\ new[m + 1] = Len(v)
      /\ \A k \in 0..m : new[k] = off[k]
  BY <1>1, <1>2, <1>3, <1>5, SMTT(30)
<1> HIDE DEF new
<1>7. ASSUME NEW k \in 1..m+1
      PROVE  new[k] = new[k-1] + Size(q[k]) /\ LiesAt(q[k], v, new[k-1])
  <2>1. CASE k = m + 1
    <3>1. new[k-1] = Len(u) /\ q[k] = f
      BY <1>2, <1>5, <1>6, <2>1
    <3>2. new[k] = Len(u) + Size(f)
      BY <1>3, <1>6, <2>1, Zenon
    <3> QED
      BY <1>3, <3>1, <3>2, Zenon DEF LiesAt
  <2>2. CASE k \in 1..m
    <3>0. k \in 0..m /\ k-1 \in 0..m
      BY <1>2, <2>2
    <3>1. new[k] = off[k] /\ new[k-1] = off[k-1] /\ q[k] = p[k]
      BY <1>2, <1>6, <2>2, <3>0, Zenon
    <3>3. off[k] = off[k-1] + Size(p[k]) /\ LiesAt(p[k], u, off[k-1]) /\ Size(p[k]) \in Nat
      BY <1>2, <1>5, <2>2, Encoded, Zenon
    <3>2. off[k-1] \in 0..Len(u) /\ off[k] \in 0..Len(u)
      BY <1>2, <1>5, <2>2
    <3>4. \A j \in 1..Size(p[k]) : v[off[k-1] + j] = u[off[k-1] + j]
      <4>1. \A j \in 1..Size(p[k]) : off[k-1] + j \in 1..Len(u)
        BY <1>3, <3>2, <3>3, SMTT(30)
      <4> QED
        BY <1>3, <4>1, Zenon
    <3> QED
      BY <3>1, <3>3, <3>4, Zenon DEF LiesAt
  <2> QED
    BY <1>2, <2>1, <2>2
<1>8. ASSUME NEW k \in 0..m+1, NEW j \in 0..k PROVE new[j] <= new[k]
  <2>1. CASE k = m + 1
    <3>1. j \in 0..m+1 /\ new[k] = Len(v) /\ Len(v) \in Nat
      BY <1>1, <1>2, <1>3, <1>6, <2>1
    <3>2. new[j] \in 0..Len(v)
      BY <1>6, <3>1, Zenon
    <3> QED
      BY <3>1, <3>2
  <2>2. CASE k \in 0..m
    <3>1. j \in 0..m /\ off[j] <= off[k]
      BY <1>2, <1>5, <2>2
    <3> QED
      BY <1>6, <2>2, <3>1, Zenon
  <2> QED
    BY <1>2, <2>1, <2>2
<1>9. Divides(new, v, q)
  BY <1>2, <1>6, <1>7, <1>8, Zenon DEF Divides
<1> QED
  BY <1>9, Zenon DEF Framed, v, q

\* _read_ctrl_frames: a complete frame at the front of the buffer is the
\* first one that is under way, and behind it lie the others.
LEMMA FirstFrameYielded ==
    ASSUME NEW b \in Seq(Octet), NEW r \in Seq(Octet), NEW p \in Seq(Frames),
           Framed(b \o r, p), Complete(b)
    PROVE  /\ p # <<>>
           /\ FirstFrame(b) = p[1]
           /\ SubSeq(b, HEADER_SIZE + plen_of(b) + 1, Len(b)) \in Seq(Octet)
           /\ Framed(SubSeq(b, HEADER_SIZE + plen_of(b) + 1, Len(b)) \o r, Tail(p))
<1> DEFINE u == b \o r
           f == p[1]
           m == Len(p)
<1>1. /\ u \in Seq(Octet) /\ Len(b) \in Nat /\ Len(r) \in Nat /\ Len(u) = Len(b) + Len(r)
      /\ \A j \in 1..Len(b) : u[j] = b[j]
      /\ \A j \in 1..Len(r) : u[Len(b) + j] = r[j]
  BY ConcatElements
<1>2. PICK off : Divides(off, u, p)
  BY Zenon DEF Framed
<1> HIDE DEF u
<1>3. /\ m \in Nat /\ off \in [0..m -> 0..Len(u)] /\ off[0] = 0 /\ off[m] = Len(u)
      /\ \A k \in 0..m : \A j \in 0..k : off[j] <= off[k]
      /\ \A k \in 1..m : off[k] = off[k-1] + Size(p[k]) /\ LiesAt(p[k], u, off[k-1])
  BY <1>2 DEF Divides
<1>4. HEADER_SIZE = 4 /\ Len(b) >= 4 /\ Len(b) >= 4 + plen_of(b)
  BY Zenon DEF Complete, HEADER_SIZE
<1>5. m > 0 /\ p # <<>> /\ f \in Frames
  <2>1. m # 0
    BY <1>1, <1>3, <1>4
  <2> QED
    BY <1>3, <2>1
<1> HIDE DEF m, f
<1>6. /\ Len(f.payload) \in Nat /\ Size(f) = 4 + Len(f.payload)
      /\ plen_of(encode_frame(f)) = Len(f.payload)
      /\ encode_frame(f)[3] = f.type /\ encode_frame(f)[4] = f.id
      /\ \A j \in 1..Len(f.payload) : encode_frame(f)[4 + j] = f.payload[j]
  BY <1>4, <1>5, Encoded, Zenon DEF Size
<1>7. off[1] = Size(f) /\ \A j \in 1..Size(f) : u[j] = encode_frame(f)[j]
  <2>1. off[1] = off[0] + Size(f) /\ LiesAt(f, u, off[0])
    BY <1>3, <1>5 DEF f
  <2> QED
    BY <1>3, <1>6, <2>1 DEF LiesAt
<1>8. \A j \in 1..4 : b[j] = encode_frame(f)[j]
  <2>1. \A j \in 1..4 : j \in 1..Len(b) /\ j \in 1..Size(f)
    BY <1>1, <1>4, <1>6, SMTT(30)
  <2> QED
    BY <1>1, <1>7, <2>1, Zenon
<1>9. plen_of(b) = Len(f.payload) /\ b[3] = f.type /\ b[4] = f.id
  BY <1>6, <1>8 DEF plen_of
<1> DEFINE l == Len(f.payload)
           rest == SubSeq(b, 4 + l + 1, Len(b))
           tail == SubSeq(b, 5, Len(b))
<1>10. /\ l \in Nat /\ 4 + l <= Len(b)
       /\ rest \in Seq(Octet) /\ Len(rest) = Len(b) - (4 + l)
       /\ \A j \in 1..Len(b)-(4+l) : rest[j] = b[4 + l + j]
  <2>1. l \in Nat /\ 4 + l <= Len(b) /\ 4 + l \in 0..Len(b)
    BY <1>1, <1>4, <1>6, <1>9
  <2> HIDE DEF l
  <2> QED
    BY <2>1, WithoutFirst, Zenon
<1>11. FirstFrame(b) = f
  <2>1. tail \in Seq(Octet) /\ Len(tail) = Len(b) - 4 /\ \A j \in 1..Len(b)-4 : tail[j] = b[4 + j]
    <3>1. 4 \in 0..Len(b) /\ 4 + 1 = 5
      BY <1>1, <1>4
    <3> QED
      BY <3>1, WithoutFirst, ZenonT(30)
  <2> HIDE DEF l, tail
  <2>2. Upto(tail, l) = SubSeq(tail, 1, l)
    BY <1>10, <2>1 DEF Upto
  <2> DEFINE x == SubSeq(tail, 1, l)
  <2>3. x \in Seq(Octet) /\ Len(x) = l /\ \A j \in 1..l : x[j] = tail[j]
    BY <1>10, <2>1, SMTT(30)
  <2>4. ASSUME NEW j \in 1..l PROVE x[j] = f.payload[j]
    <3>1. j \in 1..Len(b)-4 /\ 4 + j \in 1..Len(b) /\ 4 + j \in 1..Size(f)
      BY <1>1, <1>6, <1>10, SMTT(30) DEF l
    <3>2. b[4 + j] = encode_frame(f)[4 + j]
      BY <1>1, <1>7, <3>1, Zenon
    <3> QED
      BY <1>6, <2>1, <2>3, <3>1, <3>2, Zenon DEF l
  <2> HIDE DEF x
  <2>5. x = f.payload
    <3>1. f.payload \in Seq(Octet)
      BY <1>5, Zenon DEF Frames
    <3> QED
      BY <2>3, <2>4, <3>1, SameSeq, Zenon DEF l
  <2>6. Upto(SubSeq(b, HEADER_SIZE + 1, Len(b)), plen_of(b)) = f.payload
    <3>1. SubSeq(b, HEADER_SIZE + 1, Len(b)) = tail
      BY <1>4 DEF tail
    <3> QED
      BY <1>9, <2>2, <2>5, <3>1, ZenonT(30) DEF l, x
  <2>7. FirstFrame(b) = [type |-> f.type, id |-> f.id, payload |-> f.payload]
    BY <1>9, <2>6, Zenon DEF FirstFrame
  <2> QED
    BY <1>5, <2>7, Zenon DEF Frames
<1> DEFINE w == rest \o r
           q == Tail(p)
<1>12. /\ q \in Seq(Frames) /\ Len(q) = m - 1 /\ \A k \in 1..m-1 : q[k] = p[k + 1]
  BY <1>3, <1>5 DEF m
<1> HIDE DEF rest, l, q
<1>13. /\ w \in Seq(Octet) /\ Len(w) = Len(u) - off[1]
       /\ \A j \in 1..Len(rest) : w[j] = rest[j]
       /\ \A j \in 1..Len(r) : w[Len(rest) + j] = r[j]
  <2>1. /\ w \in Seq(Octet) /\ Len(w) = Len(rest) + Len(r)
        /\ \A j \in 1..Len(rest) : w[j] = rest[j]
        /\ \A j \in 1..Len(r) : w[Len(rest) + j] = r[j]
    <3>1. rest \in Seq(Octet) /\ r \in Seq(Octet)
      BY <1>10, Zenon
    <3> QED
      BY <3>1, ConcatElements
  <2> HIDE DEF w
  <2>2. off[1] = 4 + l
    BY <1>6, <1>7, Zenon DEF l
  <2> QED
    BY <1>1, <1>10, <2>1, <2>2
<1> HIDE DEF w
<1>14. ASSUME NEW j \in 1..Len(u)-off[1] PROVE w[j] = u[off[1] + j]
  <2>1. off[1] = 4 + l /\ off[1] \in Nat
    BY <1>6, <1>7, <1>10 DEF l
  <2>2. CASE j \in 1..Len(rest)
    <3>1. off[1] + j \in 1..Len(b) /\ j \in 1..Len(b)-(4+l)
      BY <1>1, <1>10, <2>1, <2>2
    <3> QED
      BY <1>1, <1>10, <1>13, <2>1, <2>2, <3>1, ZenonT(30)
  <2>3. CASE j \in Len(rest)+1..Len(u)-off[1]
    <3>1. PICK d \in 1..Len(r) : j = Len(rest) + d
      <4>1. j - Len(rest) \in 1..Len(r) /\ j = Len(rest) + (j - Len(rest))
        BY <1>1, <1>10, <2>1, <2>3
      <4> QED
        BY <4>1, ZenonT(30)
    <3>2. off[1] + j = Len(b) + d
      BY <1>1, <1>10, <2>1, <3>1
    <3> QED
      BY <1>1, <1>13, <3>1, <3>2, Zenon
  <2> QED
    BY <1>1, <1>10, <2>1, <2>2, <2>3
<1> DEFINE new == [k \in 0..m-1 |-> off[k + 1] - off[1]]
<1>15. ASSUME NEW k \in 0..m-1
       PROVE  /\ k + 1 \in 0..m /\ 1 \in 0..k+1
              /\ off[k + 1] \in Nat /\ off[1] \in Nat /\ off[1] <= off[k + 1]
              /\ off[k + 1] <= Len(u)
  <2>1. k + 1 \in 0..m /\ 1 \in 0..k+1 /\ 1 \in 0..m /\ Len(u) \in Nat
    BY <1>1, <1>3, <1>5 DEF m
  <2> QED
    BY <1>3, <2>1, SMTT(30) DEF m
<1>16. /\ new \in [0..m-1 -> 0..Len(w)] /\ new[0] = 0 /\ new[m - 1] = Len(w)
       /\ \A k \in 0..m-1 : new[k] = off[k + 1] - off[1]
  <2>1. ASSUME NEW k \in 0..m-1 PROVE off[k + 1] - off[1] \in 0..Len(w)
    <3>1. /\ off[k + 1] \in Nat /\ off[1] \in Nat /\ off[1] <= off[k + 1]
          /\ off[k + 1] <= Len(u) /\ Len(u) \in Nat
      BY <1>1, <1>15
    <3> QED
      BY <1>13, <3>1, SMTT(30)
  <2>2. 0 \in 0..m-1 /\ m - 1 \in 0..m-1 /\ (m - 1) + 1 = m
    BY <1>3, <1>5 DEF m
  <2>3. off[1] - off[1] = 0 /\ off[m] - off[1] = Len(w)
    <3>1. off[1] \in Nat
      BY <1>15, <2>2, Zenon
    <3>2. off[m] = Len(u) /\ Len(u) \in Nat
      BY <1>1, <1>3 DEF m
    <3> QED
      BY <1>13, <3>1, <3>2
  <2>4. new[0] = off[1] - off[1] /\ new[m - 1] = off[m] - off[1]
    BY <2>2
  <2> QED
    BY <2>1, <2>3, <2>4
<1> HIDE DEF new
<1>17. ASSUME NEW k \in 0..m-1, NEW j \in 0..k PROVE new[j] <= new[k]
  <2>1. j \in 0..m-1 /\ k + 1 \in 0..m /\ j + 1 \in 0..k+1
    BY <1>3, <1>5 DEF m
  <2>2. off[j + 1] <= off[k + 1]
    BY <1>3, <2>1, Zenon DEF m
  <2> QED
    BY <1>15, <1>16, <2>1, <2>2, SMTT(30)
<1>18. ASSUME NEW k \in 1..m-1
       PROVE  new[k] = new[k-1] + Size(q[k]) /\ LiesAt(q[k], w, new[k-1])
  <2>1. k \in 0..m-1 /\ k-1 \in 0..m-1 /\ k + 1 \in 1..m /\ (k-1) + 1 = k /\ (k+1)-1 = k
    BY <1>3, <1>5 DEF m
  <2>2. /\ off[k + 1] = off[k] + Size(p[k + 1]) /\ LiesAt(p[k + 1], u, off[k])
        /\ p[k + 1] \in Frames /\ q[k] = p[k + 1]
    BY <1>3, <1>12, <2>1 DEF m
  <2>3. Size(q[k]) \in Nat
    BY <2>2, Encoded, Zenon
  <2>4. /\ new[k] = off[k + 1] - off[1] /\ new[k-1] = off[k] - off[1]
        /\ off[k] \in Nat /\ off[1] \in Nat /\ off[1] <= off[k] /\ off[k + 1] <= Len(u)
    BY <1>15, <1>16, <2>1, Zenon
  <2>5. new[k] = new[k-1] + Size(q[k])
    BY <2>2, <2>3, <2>4
  <2>6. ASSUME NEW j \in 1..Size(q[k]) PROVE w[new[k-1] + j] = encode_frame(q[k])[j]
    <3>1. new[k-1] + j \in 1..Len(u)-off[1] /\ off[1] + (new[k-1] + j) = off[k] + j
      <4>1. j \in Nat \ {0} /\ j <= Size(q[k]) /\ Len(u) \in Nat
        BY <1>1, <2>3
      <4>2. off[k] + j <= Len(u)
        BY <2>2, <2>3, <2>4, <4>1, SMTT(30)
      <4> QED
        BY <2>4, <4>1, <4>2, SMTT(30)
    <3>2. w[new[k-1] + j] = u[off[k] + j]
      BY <1>14, <3>1, Zenon
    <3> QED
      BY <2>2, <3>2, Zenon DEF LiesAt
  <2> QED
    BY <2>5, <2>6, Zenon DEF LiesAt
<1>19. Divides(new, w, q)
  BY <1>12, <1>16, <1>17, <1>18, Zenon DEF Divides
<1>20. Framed(w, q)
  BY <1>19, Zenon DEF Framed
<1>21. SubSeq(b, HEADER_SIZE + plen_of(b) + 1, Len(b)) = rest
  BY <1>4, <1>9, Zenon DEF rest, l
<1> QED
  BY <1>5, <1>10, <1>11, <1>20, <1>21, ZenonT(30) DEF w, q, f

-----------------------------------------------------------------------------
(* The stream *)

\* The types of what is under way.
LEMMA UnreadTypes ==
    ASSUME StreamInv
    PROVE  Pending \in Seq(Frames) /\ Unread \in Seq(Octet) /\ sock \o tosend \in Seq(Octet)
<1>1. /\ sent \in Seq(Frames) /\ Len(got) \in 0..Len(sent)
      /\ recv_buf \in Seq(Octet) /\ sock \in Seq(Octet) /\ tosend \in Seq(Octet)
  BY Zenon DEF StreamInv
<1>2. sock \o tosend \in Seq(Octet)
  BY <1>1, ConcatElements, Zenon
<1>3. Unread \in Seq(Octet)
  BY <1>1, <1>2, ConcatElements, Zenon DEF Unread
<1>4. Pending \in Seq(Frames)
  BY <1>1, WithoutFirst, Zenon DEF Pending
<1> QED
  BY <1>2, <1>3, <1>4, Zenon

\* SendFrame: a frame is written after whole frames.
LEMMA SendStream ==
    ASSUME StreamInv, NEW f \in Frames, SendFrame(f)
    PROVE  StreamInv'
<1>1. /\ tosend = <<>> /\ sent' = Append(sent, f) /\ tosend' = encode_frame(f)
      /\ UNCHANGED <<sock, recv_buf, got>>
  BY Zenon DEF SendFrame
<1>2. /\ sent \in Seq(Frames) /\ sock \in Seq(Octet) /\ recv_buf \in Seq(Octet)
      /\ Len(got) \in 0..Len(sent) /\ got = SubSeq(sent, 1, Len(got))
      /\ encode_frame(f) \in Seq(Octet)
  BY Encoded, Zenon DEF StreamInv
<1> DEFINE e == encode_frame(f)
<1> HIDE DEF e
<1>3. Unread' = Unread \o e
  <2>1. Unread = recv_buf \o sock
    <3>1. sock \o <<>> = sock
      BY <1>2
    <3> QED
      BY <1>1, <3>1, Zenon DEF Unread
  <2>2. Unread' = recv_buf \o (sock \o e)
    BY <1>1, Zenon DEF Unread, e
  <2>3. (recv_buf \o sock) \o e = recv_buf \o (sock \o e)
    <3>1. recv_buf \in Seq(Octet) /\ sock \in Seq(Octet) /\ e \in Seq(Octet)
      BY <1>2, Zenon DEF e
    <3> QED
      BY <3>1, ConcatAssociates, SMTT(30)
  <2> QED
    BY <2>1, <2>2, <2>3, Zenon
<1>4. /\ Pending' = Append(Pending, f)
      /\ Len(got) \in 0..Len(sent') /\ got = SubSeq(sent', 1, Len(got))
  <2> DEFINE s == sent
             k == Len(got)
             t == Append(s, f)
  <2>1. s \in Seq(Frames) /\ k \in 0..Len(s)
    BY <1>2, Zenon
  <2> HIDE DEF s, k
  <2>2. /\ SubSeq(t, k + 1, Len(t)) = Append(SubSeq(s, k + 1, Len(s)), f)
        /\ SubSeq(t, 1, k) = SubSeq(s, 1, k)
        /\ k \in 0..Len(t)
    BY <2>1, OneMore, ZenonT(30)
  <2>3. sent' = t /\ sent = s /\ Len(got) = k /\ Len(got)' = k
    BY <1>1, Zenon DEF s, k
  <2> HIDE DEF t
  <2> QED
    BY <1>2, <2>2, <2>3, ZenonT(30) DEF Pending
<1>5. Framed(Unread, Pending) /\ Pending \in Seq(Frames) /\ Unread \in Seq(Octet)
  BY UnreadTypes, Zenon DEF StreamInv
<1>6. Framed(Unread', Pending')
  BY <1>3, <1>4, <1>5, FramedAppend, Zenon DEF e
<1> QED
  BY <1>1, <1>2, <1>4, <1>6 DEF StreamInv

\* WriteSome and Recv move bytes from one place to the next.
LEMMA MoveStream ==
    ASSUME StreamInv, WriteSome \/ Recv
    PROVE  StreamInv'
<1>1. /\ recv_buf \in Seq(Octet) /\ sock \in Seq(Octet) /\ tosend \in Seq(Octet)
      /\ UNCHANGED <<sent, got>>
  BY Zenon DEF StreamInv, WriteSome, Recv
<1>2. CASE WriteSome
  <2>1. PICK k \in 1..Len(tosend) :
           /\ sock' = sock \o SubSeq(tosend, 1, k)
           /\ tosend' = SubSeq(tosend, k + 1, Len(tosend))
    BY <1>2, Zenon DEF WriteSome
  <2> DEFINE a == SubSeq(tosend, 1, k)
             b == SubSeq(tosend, k + 1, Len(tosend))
  <2>2. a \in Seq(Octet) /\ b \in Seq(Octet) /\ a \o b = tosend
    <3>1. k \in 0..Len(tosend)
      BY <1>1
    <3> QED
      BY <1>1, <3>1, SplitSeq, Zenon
  <2>3. sock' = sock \o a /\ tosend' = b /\ recv_buf' = recv_buf
    BY <1>2, <2>1, ZenonT(30) DEF WriteSome
  <2> HIDE DEF a, b
  <2>4. (sock \o a) \o b = sock \o (a \o b) /\ sock \o a \in Seq(Octet)
    <3>1. sock \in Seq(Octet) /\ a \in Seq(Octet) /\ b \in Seq(Octet)
      BY <1>1, <2>2, Zenon
    <3>2. sock \o a \in Seq(Octet)
      BY <3>1, ConcatElements, Zenon
    <3> QED
      BY <3>1, <3>2, ConcatAssociates, SMTT(30)
  <2>5. Unread' = Unread
    BY <2>2, <2>3, <2>4, Zenon DEF Unread
  <2> QED
    BY <1>1, <2>2, <2>3, <2>4, <2>5, Zenon DEF StreamInv, Pending
<1>3. CASE Recv
  <2>1. /\ recv_buf' = recv_buf \o sock /\ sock' = <<>> /\ tosend' = tosend
    BY <1>3, Zenon DEF Recv
  <2>2. <<>> \in Seq(Octet) /\ <<>> \o tosend = tosend
    BY <1>1
  <2>3. (recv_buf \o sock) \o tosend = recv_buf \o (sock \o tosend)
    BY <1>1, ConcatAssociates, SMTT(30)
  <2>4. Unread' = Unread /\ recv_buf \o sock \in Seq(Octet)
    BY <1>1, <2>1, <2>2, <2>3, ConcatElements, Zenon DEF Unread
  <2> QED
    BY <1>1, <2>1, <2>2, <2>4, Zenon DEF StreamInv, Pending
<1> QED
  BY <1>2, <1>3, Zenon

\* Yield: the frame that the worker takes from its buffer is the next one
\* that was sent.
LEMMA YieldStream ==
    ASSUME StreamInv, Yield
    PROVE  /\ StreamInv'
           /\ Len(got) + 1 \in 1..Len(sent)
           /\ FirstFrame(recv_buf) = sent[Len(got) + 1]
           /\ Len(got') = Len(got) + 1
<1> DEFINE r == sock \o tosend
           b == recv_buf
           rest == SubSeq(b, HEADER_SIZE + plen_of(b) + 1, Len(b))
           s == sent
           k == Len(got)
           p == SubSeq(s, k + 1, Len(s))
<1>1. /\ b \in Seq(Octet) /\ r \in Seq(Octet) /\ p \in Seq(Frames) /\ s \in Seq(Frames)
      /\ k \in 0..Len(s) /\ got = SubSeq(s, 1, k)
      /\ Framed(b \o r, p) /\ Complete(b)
      /\ sock \in Seq(Octet) /\ tosend \in Seq(Octet)
  BY UnreadTypes, Zenon DEF StreamInv, Unread, Pending, Yield
<1>2. /\ got' = Append(got, FirstFrame(b)) /\ recv_buf' = rest
      /\ sent' = s /\ sock' = sock /\ tosend' = tosend
  BY Zenon DEF Yield
<1>3. /\ p # <<>> /\ FirstFrame(b) = p[1] /\ rest \in Seq(Octet)
      /\ Framed(rest \o r, Tail(p))
  <2> HIDE DEF b, r, p
  <2> QED
    BY <1>1, FirstFrameYielded, Zenon
<1>4. Unread' = rest \o r
  BY <1>2, Zenon DEF Unread
<1>5. sent = s /\ Len(got) = k
  OBVIOUS
<1> HIDE DEF s, k, rest, r
<1>6. /\ k + 1 \in 0..Len(s) /\ p[1] = s[k + 1]
      /\ SubSeq(s, (k + 1) + 1, Len(s)) = Tail(p)
      /\ SubSeq(s, 1, k + 1) = Append(SubSeq(s, 1, k), s[k + 1])
      /\ Len(Append(SubSeq(s, 1, k), s[k + 1])) = k + 1
  BY <1>1, <1>3, OneLess, ZenonT(30)
<1>7. Len(got)' = k + 1 /\ got' = SubSeq(s, 1, k + 1)
  BY <1>1, <1>2, <1>3, <1>6, Zenon
<1>8. Pending' = Tail(p)
  BY <1>2, <1>6, <1>7, Zenon DEF Pending
<1>9. StreamInv'
  BY <1>1, <1>2, <1>3, <1>4, <1>6, <1>7, <1>8, ZenonT(30) DEF StreamInv
<1>10. k + 1 \in 1..Len(s)
  BY ONLY <1>1, <1>6, SMTT(30)
<1>11. FirstFrame(b) = s[k + 1] /\ Len(got') = k + 1
  BY <1>3, <1>6, <1>7, Zenon
<1> QED
  BY <1>5, <1>9, <1>10, <1>11, Zenon

-----------------------------------------------------------------------------
(* The request *)

\* encrypt_code makes bytes of bytes, and decrypt in prescript.py undoes it.
LEMMA DecryptUndoes ==
    ASSUME ProgramInv
    PROVE  /\ encrypt_code(code, n) \in [0..n-1 -> Byte]
           /\ data = encrypt_code(code, n) => decrypt = code
<1>1. n \in Nat /\ kl \in Nat \ {0} /\ code \in [0..n-1 -> Byte] /\ key \in [0..kl-1 -> Byte]
  BY Zenon DEF ProgramInv
<1>2. ASSUME NEW j \in 0..n-1
      PROVE  code[j] \in Byte /\ key[j % kl] \in Byte
  <2>1. j \in Nat
    BY <1>1
  <2>2. (j % kl) \in 0..kl-1
    BY <1>1, <2>1, DivMod, ZenonT(30)
  <2> QED
    BY <1>1, <2>2, Zenon
<1>3. ASSUME NEW j \in 0..n-1
      PROVE  /\ Xor(code[j], key[j % kl]) \in Byte
             /\ Xor(Xor(code[j], key[j % kl]), key[j % kl]) = code[j]
  BY <1>2, CipherAssumption, ZenonT(30)
<1>4. encrypt_code(code, n) \in [0..n-1 -> Byte]
  BY <1>3, ZenonT(30) DEF encrypt_code
<1>5. ASSUME data = encrypt_code(code, n) PROVE decrypt = code
  <2>1. ASSUME NEW j \in 0..n-1 PROVE decrypt[j] = code[j]
    BY <1>3, <1>5, ZenonT(30) DEF decrypt, encrypt_code
  <2>2. decrypt = [j \in 0..n-1 |-> decrypt[j]]
    BY ZenonT(30) DEF decrypt
  <2>3. code = [j \in 0..n-1 |-> code[j]]
    BY <1>1, Zenon
  <2> HIDE DEF decrypt
  <2> QED
    BY <2>1, <2>2, <2>3, ZenonT(30)
<1> QED
  BY <1>4, <1>5, Zenon

\* The payload of the RUN frame is the encrypted program.
LEMMA RunFramePayload ==
    ASSUME ProgramInv
    PROVE  /\ RunFrame \in Frames /\ RunFrame.type = RUN
           /\ AsBytes(RunFrame.payload) = encrypt_code(code, n)
<1> DEFINE c == encrypt_code(code, n)
           b == [k \in 1..n |-> c[k-1]]
<1>1. c \in [0..n-1 -> Byte] /\ n \in Nat
  BY DecryptUndoes, Zenon DEF ProgramInv
<1> HIDE DEF c
<1>2. \A k \in 1..n : k-1 \in 0..n-1 /\ c[k-1] \in Octet
  BY <1>1 DEF Octet
<1>3. b \in Seq(Octet) /\ Len(b) = n /\ \A k \in 1..n : b[k] = c[k-1]
  BY <1>1, <1>2
<1> HIDE DEF b
<1>4. AsBytes(b) = c
  <2>1. AsBytes(b) = [j \in 0..n-1 |-> b[j+1]]
    BY <1>3, Zenon DEF AsBytes
  <2>2. \A j \in 0..n-1 : j+1 \in 1..n /\ (j+1)-1 = j
    BY <1>1
  <2> QED
    BY <1>1, <1>3, <2>1, <2>2
<1>5. RunFrame = [type |-> RUN, id |-> 1, payload |-> b]
  BY Zenon DEF RunFrame, b, c
<1> QED
  BY <1>3, <1>4, <1>5, Zenon DEF Frames, RUN, c

\* A KILL frame has no payload.
LEMMA KillFramePayload == KillFrame \in Frames /\ KillFrame.type = KILL
BY DEF KillFrame, KILL, Frames

\* LaunchInit: nothing has been sent, and nothing decoded.
LEMMA InitDelivery == LaunchInit => DeliveryInv
<1> SUFFICES ASSUME LaunchInit PROVE DeliveryInv
  OBVIOUS
<1>1. ProgramInv
  <2> DEFINE c == input.code
             w == input.key
  <2>1. c \in Seq(Byte) /\ w \in Seq(Byte) /\ w # <<>>
    BY LaunchAssumption, Zenon DEF LaunchInit
  <2>2. code = AsBytes(c) /\ n = Len(c) /\ key = AsBytes(w) /\ kl = Len(w)
    BY Zenon DEF LaunchInit
  <2> HIDE DEF c, w
  <2>3. ASSUME NEW b \in Seq(Byte) PROVE Len(b) \in Nat /\ AsBytes(b) \in [0..Len(b)-1 -> Byte]
    <3>1. \A j \in 0..Len(b)-1 : j+1 \in 1..Len(b)
      OBVIOUS
    <3>2. \A j \in 1..Len(b) : b[j] \in Byte
      OBVIOUS
    <3> QED
      BY <3>1, <3>2 DEF AsBytes
  <2>4. Len(w) # 0
    BY <2>1
  <2> QED
    BY <2>1, <2>2, <2>3, <2>4, Zenon DEF ProgramInv
<1>2. StreamInv
  <2>1. sent = <<>> /\ got = <<>> /\ tosend = <<>> /\ sock = <<>> /\ recv_buf = <<>>
    BY Zenon DEF LaunchInit, StreamInit
  <2>2. Unread = <<>> /\ Pending = <<>>
    BY <2>1 DEF Unread, Pending
  <2>3. Framed(<<>>, <<>>)
    <3>1. Divides([k \in 0..0 |-> 0], <<>>, <<>>)
      BY DEF Divides
    <3> QED
      BY <3>1, Zenon DEF Framed
  <2> QED
    BY <2>1, <2>2, <2>3 DEF StreamInv
<1>3. RoutedInv
  BY Zenon DEF LaunchInit, StreamInit, RoutedInv
<1>4. DecodeInv
  <2>1. out = [j \in 0..n-1 |-> 0]
    BY Zenon DEF LaunchInit
  <2>2. out = [j \in 0..n-1 |-> out[j]]
    BY <2>1, ZenonT(30)
  <2> QED
    BY <2>2, Zenon DEF LaunchInit, DecodeInv, CodeIntact
<1> QED
  BY <1>1, <1>2, <1>3, <1>4, Zenon DEF DeliveryInv

\* Steps that neither send nor receive nor decode.
LEMMA OtherDelivery ==
    ASSUME DeliveryInv, UNCHANGED <<streamVars, cipherVars, path>>,
           \/ stage' = stage
           \/ stage # "send" /\ stage' \notin {"request", "send", "user"}
              /\ (path = "none" <=> stage' = "refused")
    PROVE  DeliveryInv'
<1>1. UNCHANGED <<sent, tosend, sock, recv_buf, got>> /\ UNCHANGED <<code, n, key, kl, data, i, out>>
  BY Zenon DEF streamVars, cipherVars
<1>2. StreamInv'
  BY <1>1, Zenon DEF DeliveryInv, StreamInv, Unread, Pending
<1>3. ProgramInv'
  BY <1>1, Zenon DEF DeliveryInv, ProgramInv
<1>4. RunFrame' = RunFrame
  BY <1>1 DEF RunFrame, encrypt_code
<1>5. RoutedInv'
  BY <1>1, <1>4, Zenon DEF DeliveryInv, RoutedInv
<1>6. DecodeInv'
  <2>1. LoopInv => LoopInv'
    BY <1>1, Zenon DEF LoopInv, DecryptsCode, encrypt_code
  <2>2. encrypt_code(code, n)' = encrypt_code(code, n)
    BY <1>1, Zenon DEF encrypt_code
  <2>3. CodeIntact'
    BY <1>1, Zenon DEF DeliveryInv, DecodeInv, CodeIntact
  <2> QED
    BY <1>1, <2>1, <2>2, <2>3, Zenon DEF DeliveryInv, DecodeInv
<1> QED
  BY <1>2, <1>3, <1>5, <1>6 DEF DeliveryInv

\* Transfer: bytes move along.
LEMMA TransferDelivery ==
    ASSUME DeliveryInv, Transfer
    PROVE  DeliveryInv'
<1>1. /\ UNCHANGED <<code, n, key, kl, data, i, out, path, stage, sent, got>>
      /\ WriteSome \/ Recv \/ Drained
  BY Zenon DEF Transfer, cipherVars, StreamStep, WriteSome, Recv, Drained
<1>2. StreamInv'
  <2>1. CASE WriteSome \/ Recv
    BY <2>1, MoveStream, Zenon DEF DeliveryInv
  <2>2. CASE Drained
    BY <2>2, Zenon DEF Drained, DeliveryInv, StreamInv, Unread, Pending
  <2> QED
    BY <1>1, <2>1, <2>2, Zenon
<1>3. ProgramInv'
  BY <1>1, Zenon DEF DeliveryInv, ProgramInv
<1>4. RunFrame' = RunFrame /\ encrypt_code(code, n)' = encrypt_code(code, n)
  BY <1>1 DEF RunFrame, encrypt_code
<1>5. RoutedInv'
  BY <1>1, <1>4, Zenon DEF DeliveryInv, RoutedInv
<1>6. DecodeInv'
  <2>1. LoopInv => LoopInv'
    BY <1>1, Zenon DEF LoopInv, DecryptsCode, encrypt_code
  <2> QED
    BY <1>1, <1>4, <2>1, Zenon DEF DeliveryInv, DecodeInv, CodeIntact
<1> QED
  BY <1>2, <1>3, <1>5, <1>6, Zenon DEF DeliveryInv

\* Route: the program is encrypted, and on the fast path sent.
LEMMA RouteDelivery ==
    ASSUME DeliveryInv, Route
    PROVE  DeliveryInv'
<1>1. /\ stage = "request" /\ path = "none" /\ sent = <<>> /\ i = 0
      /\ UNCHANGED <<code, n, key, kl, i, out>>
  BY Zenon DEF DeliveryInv, RoutedInv, DecodeInv, Route
<1>2. /\ path' \in {"fast", "slow", "node"}
      /\ data' = IF path' = "node" THEN code ELSE encrypt_code(code, n)
      /\ stage' = IF path' = "fast" THEN "send" ELSE "boot"
      /\ path' = "fast" => SendFrame([type |-> RUN, id |-> 1,
                                      payload |-> [k \in 1..n |-> data'[k-1]]])
      /\ path' # "fast" => UNCHANGED streamVars
  BY Zenon DEF Route
<1>3. ProgramInv /\ ProgramInv'
  BY <1>1, Zenon DEF DeliveryInv, ProgramInv
<1>4. /\ RunFrame' = RunFrame /\ encrypt_code(code, n)' = encrypt_code(code, n)
      /\ path' = "fast" => SendFrame(RunFrame)
  <2>1. RunFrame' = RunFrame /\ encrypt_code(code, n)' = encrypt_code(code, n)
    BY <1>1 DEF RunFrame, encrypt_code
  <2>2. path' = "fast" => data' = encrypt_code(code, n)
    BY <1>2, Zenon
  <2> QED
    BY <1>2, <2>1, <2>2, ZenonT(30) DEF RunFrame
<1>5. StreamInv'
  <2>1. CASE path' = "fast"
    BY <1>3, <1>4, <2>1, SendStream, RunFramePayload, Zenon DEF DeliveryInv
  <2>2. CASE path' # "fast"
    BY <1>2, <2>2, Zenon DEF DeliveryInv, StreamInv, Unread, Pending, streamVars
  <2> QED
    BY <2>1, <2>2, Zenon
<1>6. RoutedInv'
  <2>1. CASE path' = "fast"
    <3>1. sent' = <<RunFrame>> /\ got' = got
      BY <1>1, <1>4, <2>1 DEF SendFrame
    <3>2. got = <<>>
      BY <1>1 DEF DeliveryInv, StreamInv
    <3>3. sent' # <<>> /\ sent'[1] = RunFrame /\ 2..Len(sent') = {}
      BY <3>1
    <3> QED
      BY <1>2, <1>4, <2>1, <3>1, <3>2, <3>3, Zenon DEF RoutedInv
  <2>2. CASE path' # "fast"
    BY <1>1, <1>2, <2>2, Zenon DEF RoutedInv, streamVars
  <2> QED
    BY <2>1, <2>2, Zenon
<1>7. DecodeInv'
  <2>1. out' = [j \in 0..n'-1 |-> out'[j]]
    BY <1>1, Zenon DEF DeliveryInv, DecodeInv
  <2>2. path' = "fast" => LoopInv'
    <3> SUFFICES ASSUME path' = "fast" PROVE LoopInv'
      OBVIOUS
    <3>1. data' = encrypt_code(code, n)' /\ i' = 0
      BY <1>1, <1>2, <1>4, Zenon
    <3>2. i' \in 0..n' /\ DecryptsCode'
      BY <1>3, <3>1 DEF ProgramInv, DecryptsCode
    <3>3. \E m \in Nat : i' = m * kl'
      <4>1. kl' \in Nat
        BY <1>3, Zenon DEF ProgramInv
      <4>2. \A b \in Nat : 0 * b = 0
        OBVIOUS
      <4> QED
        BY <3>1, <4>1, <4>2, ZenonT(30)
    <3> QED
      BY <1>3, <3>1, <3>2, <3>3, Zenon DEF LoopInv, ProgramInv
  <2>3. CodeIntact'
    BY <1>2, Zenon DEF CodeIntact
  <2>4. /\ path' = "slow" => data' = encrypt_code(code, n)'
        /\ path' = "node" => data' = code'
    BY <1>1, <1>2, <1>4, Zenon
  <2> QED
    BY <1>2, <2>1, <2>2, <2>3, <2>4, Zenon DEF DecodeInv
<1> QED
  BY <1>3, <1>5, <1>6, <1>7, Zenon DEF DeliveryInv

\* The worker sees one RUN frame, the first one, while the server waits for
\* it; every other frame is a KILL.
LEMMA RunComesFirst ==
    ASSUME DeliveryInv, Yield
    PROVE  /\ StreamInv' /\ sent' = sent /\ got' # <<>> /\ path = "fast"
           /\ \/ FirstFrame(recv_buf) = RunFrame /\ stage = "send"
              \/ FirstFrame(recv_buf) = KillFrame /\ stage # "send"
<1> DEFINE k == Len(got) + 1
<1>1. /\ StreamInv' /\ k \in 1..Len(sent) /\ FirstFrame(recv_buf) = sent[k] /\ Len(got') = k
  BY YieldStream, Zenon DEF DeliveryInv
<1>2. sent' = sent /\ path = "fast"
  BY <1>1 DEF Yield, DeliveryInv, RoutedInv
<1>3. got' # <<>>
  BY <1>1
<1>4. CASE k = 1
  <2>1. Len(got) = 0 /\ got = <<>>
    BY <1>4 DEF DeliveryInv, StreamInv
  <2> QED
    BY <1>1, <1>2, <1>3, <1>4, <2>1, Zenon DEF DeliveryInv, RoutedInv
<1>5. CASE k \in 2..Len(sent)
  <2>1. got # <<>>
    BY <1>5
  <2> QED
    BY <1>1, <1>2, <1>3, <1>5, <2>1, Zenon DEF DeliveryInv, RoutedInv
<1> QED
  BY <1>1, <1>4, <1>5

\* Handle: RUN starts the process with the program as it was sent.
LEMMA HandleDelivery ==
    ASSUME DeliveryInv, Handle
    PROVE  DeliveryInv'
<1>1. Yield /\ UNCHANGED <<code, n, key, kl, i, out, path>>
  BY Zenon DEF Handle
<1>2. /\ StreamInv' /\ sent' = sent /\ got' # <<>> /\ path = "fast"
      /\ \/ FirstFrame(recv_buf) = RunFrame /\ stage = "send"
         \/ FirstFrame(recv_buf) = KillFrame /\ stage # "send"
  BY <1>1, RunComesFirst, Zenon
<1>3. ProgramInv /\ ProgramInv' /\ LoopInv
  BY <1>1, <1>2, Zenon DEF DeliveryInv, ProgramInv, DecodeInv
<1>4. /\ data' = data
      /\ \/ stage' = "boot"
         \/ stage' \in {"killed", stage} /\ stage # "send"
  <2>1. CASE FirstFrame(recv_buf) = RunFrame /\ stage = "send"
    <3>1. stage' = "boot" /\ data' = AsBytes(RunFrame.payload)
      <4>1. RunFrame.type = RUN
        BY <1>3, RunFramePayload, Zenon
      <4> QED
        BY <2>1, <4>1 DEF Handle, RUN, KILL
    <3> QED
      BY <1>3, <3>1, RunFramePayload, Zenon DEF LoopInv
  <2>2. CASE FirstFrame(recv_buf) = KillFrame /\ stage # "send"
    BY <2>2, KillFramePayload DEF Handle, RUN, KILL
  <2> QED
    BY <1>2, <2>1, <2>2, Zenon
<1>5. RunFrame' = RunFrame /\ encrypt_code(code, n)' = encrypt_code(code, n)
  BY <1>1 DEF RunFrame, encrypt_code
<1>6. RoutedInv'
  BY <1>1, <1>2, <1>4, <1>5, Zenon DEF DeliveryInv, RoutedInv
<1>7. DecodeInv'
  <2>1. LoopInv'
    BY <1>1, <1>3, <1>4, Zenon DEF LoopInv, DecryptsCode, encrypt_code
  <2>2. CodeIntact'
    BY <1>1, <1>4, Zenon DEF DeliveryInv, DecodeInv, CodeIntact
  <2> QED
    BY <1>1, <1>2, <2>1, <2>2 DEF DeliveryInv, DecodeInv
<1> QED
  BY <1>2, <1>3, <1>6, <1>7, Zenon DEF DeliveryInv

\* Decode: one chunk of _xor, the end of _xor, or all at once on the other
\* two paths.
LEMMA DecodeDelivery ==
    ASSUME DeliveryInv, Decode
    PROVE  DeliveryInv'
<1>1. /\ stage = "decode" /\ stage' \in {"decode", "user"}
      /\ UNCHANGED <<code, n, key, kl, data, path, sent, tosend, sock, recv_buf, got>>
  BY Zenon DEF Decode, XorStep, cipherVars, streamVars
<1>2. ProgramInv /\ ProgramInv'
  BY <1>1, Zenon DEF DeliveryInv, ProgramInv
<1>3. StreamInv'
  BY <1>1, Zenon DEF DeliveryInv, StreamInv, Unread, Pending
<1>4. RunFrame' = RunFrame /\ encrypt_code(code, n)' = encrypt_code(code, n)
  BY <1>1 DEF RunFrame, encrypt_code
<1>5. RoutedInv'
  BY <1>1, <1>4, Zenon DEF DeliveryInv, RoutedInv
<1>6. DecodeInv'
  <2>1. CASE path = "fast" /\ XorStep /\ UNCHANGED stage
    <3>1. LoopInv'
      BY <2>1, TurnKeepsLoopInv, Zenon DEF DeliveryInv, DecodeInv
    <3>2. out' = [j \in 0..n'-1 |-> out'[j]]
      <4>1. DOMAIN out' = 0..n-1 /\ out' = [j \in DOMAIN out' |-> out'[j]]
        BY <2>1, Zenon DEF XorStep
      <4> QED
        BY <1>1, <4>1, ZenonT(30)
    <3> QED
      BY <1>1, <2>1, <3>1, <3>2, Zenon DEF DecodeInv, CodeIntact
  <2>2. CASE path = "fast" /\ i = n /\ stage' = "user" /\ UNCHANGED cipherVars
    <3>1. LoopInv /\ out = [j \in 0..n-1 |-> out[j]] /\ code = [j \in 0..n-1 |-> code[j]]
      BY <1>2, <2>2, Zenon DEF DeliveryInv, DecodeInv, ProgramInv
    <3>2. \A j \in 0..n-1 : out[j] = code[j]
      BY <2>2, <3>1, Zenon DEF LoopInv, DecryptsCode
    <3>3. out = code
      BY <3>1, <3>2, ZenonT(30)
    <3>4. LoopInv' /\ CodeIntact'
      BY <2>2, <3>1, <3>3, Zenon DEF cipherVars, LoopInv, DecryptsCode, encrypt_code, CodeIntact
    <3> QED
      BY <1>1, <2>2, <3>1, <3>4, Zenon DEF DecodeInv, cipherVars
  <2>3. CASE path # "fast" /\ out' = IF path = "slow" THEN decrypt ELSE data
    <3>1. path # "none"
      BY <1>1, Zenon DEF DeliveryInv, RoutedInv
    <3>2. out' = code
      BY <1>2, <2>3, <3>1, DecryptUndoes, Zenon DEF DeliveryInv, DecodeInv
    <3>3. code = [j \in 0..n-1 |-> code[j]]
      BY <1>2, Zenon DEF ProgramInv
    <3> QED
      BY <1>1, <1>4, <2>3, <3>1, <3>2, <3>3, Zenon DEF DeliveryInv, DecodeInv, CodeIntact
  <2> QED
    BY <2>1, <2>2, <2>3, Zenon DEF Decode
<1> QED
  BY <1>2, <1>3, <1>5, <1>6, Zenon DEF DeliveryInv

\* Timeout: KILL goes after RUN, or the process is dropped.
LEMMA TimeoutDelivery ==
    ASSUME DeliveryInv, Timeout
    PROVE  DeliveryInv'
<1>1. CASE path # "fast"
  <2>1. stage # "send"
    BY <1>1, Zenon DEF DeliveryInv, RoutedInv
  <2> QED
    BY <1>1, <2>1, OtherDelivery, Zenon DEF Timeout, Alive, DeliveryInv, RoutedInv
<1>2. CASE path = "fast"
  <2>1. /\ SendFrame(KillFrame)
        /\ UNCHANGED <<stage, path, code, n, key, kl, data, i, out>>
    BY <1>2, Zenon DEF Timeout, KillFrame, cipherVars
  <2>2. StreamInv' /\ sent' = Append(sent, KillFrame) /\ got' = got
    BY <2>1, SendStream, KillFramePayload, Zenon DEF DeliveryInv, SendFrame
  <2>3. ProgramInv'
    BY <2>1, Zenon DEF DeliveryInv, ProgramInv
  <2>4. RunFrame' = RunFrame /\ KillFrame' = KillFrame
    BY <2>1 DEF RunFrame, encrypt_code, KillFrame, KILL
  <2>5. RoutedInv'
    <3> DEFINE s == sent
               t == sent'
    <3>1. /\ s \in Seq(Frames) /\ t = Append(s, KillFrame) /\ s # <<>>
          /\ s[1] = RunFrame /\ \A k \in 2..Len(s) : s[k] = KillFrame
      BY <1>2, <2>2, Zenon DEF DeliveryInv, StreamInv, RoutedInv
    <3> HIDE DEF s, t
    <3>2. /\ Len(t) = Len(s) + 1 /\ t[Len(s) + 1] = KillFrame /\ Len(s) \in Nat /\ Len(s) # 0
          /\ \A k \in 1..Len(s) : t[k] = s[k]
      BY <3>1, KillFramePayload
    <3>3. t # <<>> /\ t[1] = RunFrame
      BY <3>1, <3>2
    <3>4. ASSUME NEW k \in 2..Len(t) PROVE t[k] = KillFrame
      BY <3>1, <3>2
    <3> QED
      BY <1>2, <2>1, <2>2, <2>4, <3>3, <3>4, Zenon DEF DeliveryInv, RoutedInv, t
  <2>6. DecodeInv'
    <3>1. LoopInv => LoopInv'
      BY <2>1, Zenon DEF LoopInv, DecryptsCode, encrypt_code
    <3> QED
      BY <1>2, <2>1, <3>1, Zenon DEF DeliveryInv, DecodeInv, CodeIntact
  <2> QED
    BY <2>2, <2>3, <2>5, <2>6, Zenon DEF DeliveryInv
<1> QED
  BY <1>1, <1>2, Zenon

\* The invariant of the way of a program into its process.
THEOREM DeliveryInvariant == LaunchSpec => []DeliveryInv
<1>1. DeliveryInv /\ [LaunchNext]_launchVars => DeliveryInv'
  <2> SUFFICES ASSUME DeliveryInv, [LaunchNext]_launchVars PROVE DeliveryInv'
    OBVIOUS
  <2>1. CASE Route
    BY <2>1, RouteDelivery, Zenon
  <2>2. CASE Handle
    BY <2>2, HandleDelivery, Zenon
  <2>3. CASE Transfer
    BY <2>3, TransferDelivery, Zenon
  <2>4. CASE Decode
    BY <2>4, DecodeDelivery, Zenon
  <2>5. CASE Timeout
    BY <2>5, TimeoutDelivery, Zenon
  <2>6. CASE Refuse \/ PreloadDone \/ UserEnds
    BY <2>6, OtherDelivery, Zenon DEF Refuse, PreloadDone, UserEnds, DeliveryInv, RoutedInv
  <2>7. CASE Confine
    BY <2>7, OtherDelivery, Zenon DEF Confine
  <2>8. CASE Booted
    BY <2>8, OtherDelivery, Zenon DEF Booted, DeliveryInv, RoutedInv
  <2>9. ASSUME NEW c \in UserCalls, UserCall(c) PROVE DeliveryInv'
    BY <2>9, OtherDelivery, Zenon DEF UserCall, DeliveryInv, RoutedInv
  <2>10. CASE UNCHANGED launchVars
    BY <2>10, OtherDelivery, Zenon DEF launchVars
  <2> QED
    BY <2>1, <2>2, <2>3, <2>4, <2>5, <2>6, <2>7, <2>8, <2>9, <2>10, Zenon DEF LaunchNext, Step
<1> QED
  BY InitDelivery, <1>1, PTL DEF LaunchSpec

\* The process runs the program of the request, byte for byte, on each of
\* the three paths: for every program and key, every chunk size of _xor,
\* every base of the length field and every division of the stream.
THEOREM ProgramArrivesIntact == LaunchSpec => []CodeIntact
<1>1. DeliveryInv => CodeIntact
  BY Zenon DEF DeliveryInv, DecodeInv
<1> QED
  BY <1>1, DeliveryInvariant, PTL

\* The frames the worker has handled so far.
FramesInOrder == Len(got) <= Len(sent) /\ got = SubSeq(sent, 1, Len(got))

\* _read_ctrl_frames yields the frames that encode_frame wrote, unchanged, in
\* their order, each one once, wherever recv cuts the stream.
THEOREM FramesArriveInOrder == LaunchSpec => []FramesInOrder
<1>1. DeliveryInv => FramesInOrder
  BY DEF DeliveryInv, StreamInv, FramesInOrder
<1> QED
  BY <1>1, DeliveryInvariant, PTL

\* A process is started out of a request or out of the wait for the worker,
\* never a second time.
StartsOnce == stage' = "boot" /\ stage # "boot" => stage \in {"request", "send"}

\* A RUN frame is never taken for another one or handled twice: no step of
\* the worker starts a second process for the request.
THEOREM RequestStartsOnce == LaunchSpec => [][StartsOnce]_launchVars
<1>1. DeliveryInv /\ [LaunchNext]_launchVars => [StartsOnce]_launchVars
  <2> SUFFICES ASSUME DeliveryInv, LaunchNext, stage' = "boot", stage # "boot"
               PROVE  stage \in {"request", "send"}
    BY Zenon DEF StartsOnce
  <2>1. CASE Handle
    <3>1. CASE FirstFrame(recv_buf) = KillFrame
      BY <2>1, <3>1, KillFramePayload DEF Handle, RUN, KILL
    <3> QED
      BY <2>1, <3>1, RunComesFirst, Zenon DEF Handle
  <2>2. CASE Route
    BY <2>2, Zenon DEF Route
  <2>3. CASE Refuse \/ Transfer \/ Confine \/ PreloadDone \/ UserEnds
    BY <2>3, Zenon DEF Refuse, Transfer, Confine, PreloadDone, UserEnds
  <2>4. CASE Booted \/ Decode \/ Timeout
    BY <2>4, Zenon DEF Booted, Decode, Timeout
  <2>5. ASSUME NEW c \in UserCalls, UserCall(c) PROVE FALSE
    BY <2>5, Zenon DEF UserCall
  <2> QED
    BY <2>1, <2>2, <2>3, <2>4, <2>5, Zenon DEF LaunchNext, Step
<1> QED
  BY <1>1, DeliveryInvariant, PTL DEF LaunchSpec

-----------------------------------------------------------------------------
(* Confinement *)

Calls == {"setrlimit", "chroot", "chdir", "no_new_privs", "dumpable", "setgroups", "setgid",
          "setuid", "seccomp", "landlock"}

Procs ==
    [as : BOOLEAN, root : BOOLEAN, cwd : {"lib", "/", "jail"}, nnp : BOOLEAN,
     dumpable : BOOLEAN, groups : BOOLEAN, gid : {"root", "user", "sandbox"},
     uid : {"root", "user", "sandbox"}, landlock : BOOLEAN, filter : BOOLEAN]

\* The mark a call leaves on a process.
Done(call, p) ==
    \/ call = "setrlimit" /\ p.as
    \/ call = "chroot" /\ p.root
    \/ call = "chdir" /\ p.cwd = "jail"
    \/ call = "no_new_privs" /\ p.nnp
    \/ call = "dumpable" /\ ~p.dumpable
    \/ call = "setgroups" /\ ~p.groups
    \/ call = "setgid" /\ p.gid = "sandbox"
    \/ call = "setuid" /\ p.uid = "sandbox"
    \/ call = "landlock" /\ p.landlock
    \/ call = "seccomp" /\ p.filter

\* The calls a mode depends on.
Needed(o) ==
    {"no_new_privs", "dumpable", "seccomp"}
    \cup (IF o.privilege THEN {"chroot", "chdir", "setgroups", "setgid", "setuid"}
          ELSE {"landlock"})
    \cup (IF o.max_as > 0 THEN {"setrlimit"} ELSE {})

CallsIn(s) == {s[j] : j \in 1..Len(s)}

\* A chdir comes after a chroot.
Ordered(s) == \A j \in 1..Len(s) : s[j] = "chdir" => \E l \in 1..j-1 : s[l] = "chroot"

\* The calls that are for root come before the setuid, and a filter is loaded
\* after no_new_privs.
RootCalls == {"chroot", "setgroups", "setgid", "setuid"}
RootFirst(s) == \A j \in 1..Len(s) : s[j] \in RootCalls => \A l \in 1..j-1 : s[l] # "setuid"
NnpFirst(s) == \A j \in 1..Len(s) : s[j] = "seccomp" => \E l \in 1..j-1 : s[l] = "no_new_privs"

\* The calls from the k-th on are still to be made, the others are done;
\* until the setuid, a process with privileges is root.
At(o, t, p) ==
    \E k \in 1..Len(Bootstrap(o))+1 :
        /\ t = SubSeq(Bootstrap(o), k, Len(Bootstrap(o)))
        /\ \A j \in 1..k-1 : Done(Bootstrap(o)[j], p)
        /\ o.privilege /\ (\A j \in 1..k-1 : Bootstrap(o)[j] # "setuid") => p.uid = "root"

Progress == At(opts, todo, proc)

\* The inductive invariant.
ConfinementInv ==
    /\ proc \in Procs
    /\ stage = "send" => proc = Unconfined(opts)
    /\ stage = "boot" => Progress \/ (rc # 0 /\ todo = <<>>)
    /\ OnlyConfinedCode
    /\ InitInOrder

-----------------------------------------------------------------------------

\* Process q has every mark of process p.
Keeps(p, q) ==
    /\ p.as => q.as
    /\ p.root => q.root
    /\ p.cwd = "jail" => q.cwd = "jail"
    /\ p.nnp => q.nnp
    /\ ~p.dumpable => ~q.dumpable
    /\ ~p.groups => ~q.groups
    /\ p.gid = "sandbox" => q.gid = "sandbox"
    /\ p.uid = "sandbox" => q.uid = "sandbox"
    /\ p.landlock => q.landlock
    /\ p.filter => q.filter

\* With the marks, the calls stay done.
LEMMA MarksStay ==
    ASSUME NEW p, NEW q, Keeps(p, q)
    PROVE  \A c \in Calls : Done(c, p) => Done(c, q)
BY ZenonT(30) DEF Keeps, Done

\* A call that succeeds leaves its mark and wipes no other.
LEMMA EffectLeavesMarks ==
    ASSUME NEW call \in Calls, NEW p \in Procs, call = "chdir" => p.root
    PROVE  /\ Effect(call, p) \in Procs
           /\ Done(call, Effect(call, p))
           /\ \A c \in Calls : Done(c, p) => Done(c, Effect(call, p))
<1>1. CASE call = "setrlimit"
  <2>1. Effect(call, p) = [p EXCEPT !.as = TRUE]
    BY <1>1, Zenon DEF Effect
  <2>2. Effect(call, p) \in Procs
    BY <2>1, ZenonT(30) DEF Procs
  <2>4. Keeps(p, Effect(call, p))
    BY <2>1, Zenon DEF Procs, Keeps
  <2>3. Done(call, Effect(call, p))
    BY <1>1, <2>1, SMTT(30) DEF Procs, Done
  <2> QED
    BY <2>2, <2>3, <2>4, MarksStay, SMTT(30)
<1>2. CASE call = "chroot"
  <2>1. Effect(call, p) = [p EXCEPT !.root = TRUE]
    BY <1>2, Zenon DEF Effect
  <2>2. Effect(call, p) \in Procs
    BY <2>1, ZenonT(30) DEF Procs
  <2>4. Keeps(p, Effect(call, p))
    BY <2>1, Zenon DEF Procs, Keeps
  <2>3. Done(call, Effect(call, p))
    BY <1>2, <2>1, SMTT(30) DEF Procs, Done
  <2> QED
    BY <2>2, <2>3, <2>4, MarksStay, SMTT(30)
<1>3. CASE call = "chdir"
  <2>1. Effect(call, p) = [p EXCEPT !.cwd = "jail"]
    BY <1>3, Zenon DEF Effect
  <2>2. Effect(call, p) \in Procs
    BY <2>1, Zenon DEF Procs
  <2>4. Keeps(p, Effect(call, p))
    BY <2>1, ZenonT(30) DEF Procs, Keeps
  <2>3. Done(call, Effect(call, p))
    BY <1>3, <2>1, SMTT(30) DEF Procs, Done
  <2> QED
    BY <2>2, <2>3, <2>4, MarksStay, SMTT(30)
<1>4. CASE call = "no_new_privs"
  <2>1. Effect(call, p) = [p EXCEPT !.nnp = TRUE]
    BY <1>4, Zenon DEF Effect
  <2>2. Effect(call, p) \in Procs
    BY <2>1, ZenonT(30) DEF Procs
  <2>4. Keeps(p, Effect(call, p))
    BY <2>1, Zenon DEF Procs, Keeps
  <2>3. Done(call, Effect(call, p))
    BY <1>4, <2>1, SMTT(30) DEF Procs, Done
  <2> QED
    BY <2>2, <2>3, <2>4, MarksStay, SMTT(30)
<1>5. CASE call = "dumpable"
  <2>1. Effect(call, p) = [p EXCEPT !.dumpable = FALSE]
    BY <1>5, Zenon DEF Effect
  <2>2. Effect(call, p) \in Procs
    BY <2>1, ZenonT(30) DEF Procs
  <2>4. Keeps(p, Effect(call, p))
    BY <2>1, Zenon DEF Procs, Keeps
  <2>3. Done(call, Effect(call, p))
    BY <1>5, <2>1, SMTT(30) DEF Procs, Done
  <2> QED
    BY <2>2, <2>3, <2>4, MarksStay, SMTT(30)
<1>6. CASE call = "setgroups"
  <2>1. Effect(call, p) = [p EXCEPT !.groups = FALSE]
    BY <1>6, Zenon DEF Effect
  <2>2. Effect(call, p) \in Procs
    BY <2>1, ZenonT(30) DEF Procs
  <2>4. Keeps(p, Effect(call, p))
    BY <2>1, Zenon DEF Procs, Keeps
  <2>3. Done(call, Effect(call, p))
    BY <1>6, <2>1, SMTT(30) DEF Procs, Done
  <2> QED
    BY <2>2, <2>3, <2>4, MarksStay, SMTT(30)
<1>7. CASE call = "setgid"
  <2>1. Effect(call, p) = [p EXCEPT !.gid = "sandbox"]
    BY <1>7, Zenon DEF Effect
  <2>2. Effect(call, p) \in Procs
    BY <2>1, Zenon DEF Procs
  <2>4. Keeps(p, Effect(call, p))
    BY <2>1, ZenonT(30) DEF Procs, Keeps
  <2>3. Done(call, Effect(call, p))
    BY <1>7, <2>1, SMTT(30) DEF Procs, Done
  <2> QED
    BY <2>2, <2>3, <2>4, MarksStay, SMTT(30)
<1>8. CASE call = "setuid"
  <2>1. Effect(call, p) = [p EXCEPT !.uid = "sandbox"]
    BY <1>8, Zenon DEF Effect
  <2>2. Effect(call, p) \in Procs
    BY <2>1, Zenon DEF Procs
  <2>4. Keeps(p, Effect(call, p))
    BY <2>1, ZenonT(30) DEF Procs, Keeps
  <2>3. Done(call, Effect(call, p))
    BY <1>8, <2>1, SMTT(30) DEF Procs, Done
  <2> QED
    BY <2>2, <2>3, <2>4, MarksStay, SMTT(30)
<1>9. CASE call = "seccomp"
  <2>1. Effect(call, p) = [p EXCEPT !.filter = TRUE]
    BY <1>9, Zenon DEF Effect
  <2>2. Effect(call, p) \in Procs
    BY <2>1, ZenonT(30) DEF Procs
  <2>4. Keeps(p, Effect(call, p))
    BY <2>1, Zenon DEF Procs, Keeps
  <2>3. Done(call, Effect(call, p))
    BY <1>9, <2>1, SMTT(30) DEF Procs, Done
  <2> QED
    BY <2>2, <2>3, <2>4, MarksStay, SMTT(30)
<1>10. CASE call = "landlock"
  <2>1. Effect(call, p) = [p EXCEPT !.landlock = TRUE, !.nnp = TRUE]
    BY <1>10, Zenon DEF Effect
  <2>2. Effect(call, p) \in Procs
    BY <2>1, ZenonT(30) DEF Procs
  <2>4. Keeps(p, Effect(call, p))
    BY <2>1, Zenon DEF Procs, Keeps
  <2>3. Done(call, Effect(call, p))
    BY <1>10, <2>1, ZenonT(30) DEF Procs, Done
  <2> QED
    BY <2>2, <2>3, <2>4, MarksStay, SMTT(30)
<1> QED
  BY <1>1, <1>2, <1>3, <1>4, <1>5, <1>6, <1>7, <1>8, <1>9, <1>10, SMTT(30) DEF Calls

\* Putting lists of calls one after the other adds up their calls and keeps
\* every chdir after a chroot.
LEMMA Concatenation ==
    ASSUME NEW s \in Seq(Calls), NEW t \in Seq(Calls)
    PROVE  /\ s \o t \in Seq(Calls)
           /\ CallsIn(s \o t) = CallsIn(s) \cup CallsIn(t)
           /\ Ordered(s) /\ Ordered(t) => Ordered(s \o t)
<1>1. /\ s \o t \in Seq(Calls)
      /\ Len(s) \in Nat /\ Len(t) \in Nat
      /\ Len(s \o t) = Len(s) + Len(t)
  OBVIOUS
<1>2. \A k \in 1..Len(s) : (s \o t)[k] = s[k]
  BY <1>1
<1>3. \A k \in 1..Len(t) : (s \o t)[Len(s) + k] = t[k]
  BY <1>1
<1>4. \A k \in Len(s)+1..Len(s)+Len(t) : k - Len(s) \in 1..Len(t) /\ (s \o t)[k] = t[k - Len(s)]
  BY <1>1
<1> DEFINE u == s \o t
<1> HIDE DEF u
<1>5. CallsIn(u) = CallsIn(s) \cup CallsIn(t)
  <2>1. ASSUME NEW k \in 1..Len(u) PROVE u[k] \in CallsIn(s) \cup CallsIn(t)
    BY <1>1, <1>2, <1>4 DEF CallsIn, u
  <2>2. ASSUME NEW k \in 1..Len(s) PROVE s[k] \in CallsIn(u)
    <3>1. k \in 1..Len(u) /\ u[k] = s[k]
      BY <1>1, <1>2 DEF u
    <3> QED
      BY <3>1, ZenonT(30) DEF CallsIn
  <2>3. ASSUME NEW k \in 1..Len(t) PROVE t[k] \in CallsIn(u)
    <3>1. Len(s) + k \in 1..Len(u) /\ u[Len(s) + k] = t[k]
      BY <1>1, <1>3 DEF u
    <3> QED
      BY <3>1, Zenon DEF CallsIn
  <2> QED
    BY <2>1, <2>2, <2>3, ZenonT(30) DEF CallsIn
<1>6. ASSUME Ordered(s), Ordered(t), NEW j \in 1..Len(u), u[j] = "chdir"
      PROVE  \E l \in 1..j-1 : u[l] = "chroot"
  <2>1. CASE j \in 1..Len(s)
    <3>1. PICK l \in 1..j-1 : s[l] = "chroot"
      BY <1>2, <1>6, <2>1, SMTT(30) DEF Ordered, u
    <3>2. u[l] = "chroot"
      BY <1>1, <1>2, <2>1, <3>1, SMTT(30) DEF u
    <3> QED
      BY <3>2, Zenon
  <2>2. CASE j \in Len(s)+1..Len(s)+Len(t)
    <3>1. PICK l \in 1..(j-Len(s))-1 : t[l] = "chroot"
      BY <1>4, <1>6, <2>2, SMTT(30) DEF Ordered, u
    <3>2. Len(s) + l \in 1..j-1 /\ u[Len(s) + l] = "chroot"
      BY <1>1, <1>3, <2>2, <3>1, SMTT(30) DEF u
    <3> QED
      BY <3>2, Zenon
  <2> QED
    BY <1>1, <2>1, <2>2, SMTT(30) DEF u
<1> QED
  BY <1>1, <1>5, <1>6, ZenonT(30) DEF Ordered, u

\* When lists of calls are put one after the other: the root calls stay
\* before a setuid unless one of them comes after the other list's setuid, and
\* the seccomp after a no_new_privs.
LEMMA ConcatenationRights ==
    ASSUME NEW s \in Seq(Calls), NEW t \in Seq(Calls), RootFirst(s), RootFirst(t), NnpFirst(s),
           "setuid" \notin CallsIn(s) \/ CallsIn(t) \cap RootCalls = {},
           "no_new_privs" \in CallsIn(s) \/ NnpFirst(t)
    PROVE  RootFirst(s \o t) /\ NnpFirst(s \o t)
<1> DEFINE u == s \o t
<1>1. /\ Len(s) \in Nat /\ Len(t) \in Nat /\ Len(u) = Len(s) + Len(t)
      /\ \A k \in 1..Len(s) : u[k] = s[k]
      /\ \A k \in 1..Len(t) : u[Len(s) + k] = t[k]
      /\ \A k \in Len(s)+1..Len(s)+Len(t) : u[k] = t[k - Len(s)]
  BY ConcatElements
<1> HIDE DEF u
<1>2. ASSUME NEW k \in Len(s)+1..Len(s)+Len(t) PROVE k - Len(s) \in 1..Len(t)
  BY <1>1
<1>3. RootFirst(u)
  <2> SUFFICES ASSUME NEW j \in 1..Len(u), u[j] \in RootCalls, NEW l \in 1..j-1,
                      u[l] = "setuid"
               PROVE  FALSE
    BY Zenon DEF RootFirst
  <2>1. CASE j \in 1..Len(s)
    BY <1>1, <2>1, SMTT(30) DEF RootFirst
  <2>2. CASE j \in Len(s)+1..Len(s)+Len(t)
    <3>1. j - Len(s) \in 1..Len(t) /\ t[j - Len(s)] \in RootCalls
      BY <1>1, <1>2, <2>2, Zenon
    <3>2. CASE l \in 1..Len(s)
      BY <1>1, <3>1, <3>2, SMTT(30) DEF CallsIn
    <3>3. CASE l \in Len(s)+1..Len(s)+Len(t)
      <4>1. l - Len(s) \in 1..(j-Len(s))-1 /\ t[l - Len(s)] = "setuid"
        BY <1>1, <1>2, <3>3
      <4> QED
        BY <3>1, <4>1, ZenonT(30) DEF RootFirst
    <3> QED
      BY <1>1, <2>2, <3>2, <3>3
  <2> QED
    BY <1>1, <2>1, <2>2
<1>4. NnpFirst(u)
  <2> SUFFICES ASSUME NEW j \in 1..Len(u), u[j] = "seccomp"
               PROVE  \E l \in 1..j-1 : u[l] = "no_new_privs"
    BY Zenon DEF NnpFirst
  <2>1. CASE j \in 1..Len(s)
    <3>1. PICK l \in 1..j-1 : s[l] = "no_new_privs"
      BY <1>1, <2>1, SMTT(30) DEF NnpFirst
    <3>2. u[l] = "no_new_privs"
      BY <1>1, <2>1, <3>1, SMTT(30)
    <3> QED
      BY <3>2, Zenon
  <2>2. CASE j \in Len(s)+1..Len(s)+Len(t)
    <3>1. CASE "no_new_privs" \in CallsIn(s)
      <4>1. PICK l \in 1..Len(s) : s[l] = "no_new_privs"
        BY <3>1 DEF CallsIn
      <4>2. l \in 1..j-1 /\ u[l] = "no_new_privs"
        BY <1>1, <2>2, <4>1, SMTT(30)
      <4> QED
        BY <4>2
    <3>2. CASE NnpFirst(t)
      <4>1. PICK l \in 1..(j-Len(s))-1 : t[l] = "no_new_privs"
        BY <1>1, <1>2, <2>2, <3>2, SMTT(30) DEF NnpFirst
      <4>2. Len(s) + l \in 1..j-1 /\ u[Len(s) + l] = "no_new_privs"
        BY <1>1, <2>2, <4>1, SMTT(30)
      <4> QED
        BY <4>2
    <3> QED
      BY <3>1, <3>2, Zenon
  <2> QED
    BY <1>1, <2>1, <2>2
<1> QED
  BY <1>3, <1>4, Zenon DEF u

\* The calls of the bootstrap are those the mode depends on, chdir after
\* chroot, the calls for root before the setuid, seccomp after no_new_privs.
LEMMA BootstrapShape ==
    ASSUME NEW o
    PROVE  /\ Bootstrap(o) \in Seq(Calls)
           /\ Ordered(Bootstrap(o))
           /\ Needed(o) = CallsIn(Bootstrap(o))
           /\ RootFirst(Bootstrap(o)) /\ NnpFirst(Bootstrap(o))
<1> DEFINE a == IF o.max_as > 0 THEN <<"setrlimit">> ELSE <<>>
           b == IF o.privilege THEN <<"chroot", "chdir">> ELSE <<>>
           c == <<"no_new_privs", "dumpable">>
           d == IF o.privilege THEN <<"setgroups", "setgid", "setuid">> ELSE <<>>
           e == <<"seccomp">>
           l == IF o.privilege THEN <<>> ELSE <<"landlock">>
<1>1. a \in Seq(Calls) /\ Ordered(a) /\ CallsIn(a) = IF o.max_as > 0 THEN {"setrlimit"} ELSE {}
  <2>1. CASE o.max_as > 0
    <3>1. a = <<"setrlimit">>
      BY <2>1, Zenon
    <3> HIDE DEF a
    <3>2. a \in Seq(Calls) /\ Ordered(a) /\ CallsIn(a) = {"setrlimit"}
      BY <3>1 DEF Calls, Ordered, CallsIn
    <3> QED
      BY <2>1, <3>2, Zenon
  <2>2. CASE ~(o.max_as > 0)
    BY <2>2, SMTT(30) DEF Calls, Ordered, CallsIn
  <2> QED
    BY <2>1, <2>2, Zenon
<1>2. b \in Seq(Calls) /\ Ordered(b) /\ CallsIn(b) = IF o.privilege THEN {"chroot", "chdir"} ELSE {}
  <2>1. CASE o.privilege
    BY <2>1 DEF Calls, Ordered, CallsIn
  <2>2. CASE ~(o.privilege)
    BY <2>2 DEF Calls, Ordered, CallsIn
  <2> QED
    BY <2>1, <2>2, SMTT(30)
<1>3. c \in Seq(Calls) /\ Ordered(c) /\ CallsIn(c) = {"no_new_privs", "dumpable"}
  BY DEF Calls, Ordered, CallsIn
<1>4. /\ d \in Seq(Calls) /\ Ordered(d)
      /\ CallsIn(d) = IF o.privilege THEN {"setgroups", "setgid", "setuid"} ELSE {}
  <2>1. CASE o.privilege
    BY <2>1 DEF Calls, Ordered, CallsIn
  <2>2. CASE ~(o.privilege)
    BY <2>2 DEF Calls, Ordered, CallsIn
  <2> QED
    BY <2>1, <2>2, Zenon
<1>5. e \in Seq(Calls) /\ Ordered(e) /\ CallsIn(e) = {"seccomp"}
  BY DEF Calls, Ordered, CallsIn
<1>6. l \in Seq(Calls) /\ Ordered(l) /\ CallsIn(l) = IF o.privilege THEN {} ELSE {"landlock"}
  <2>1. CASE o.privilege
    BY <2>1 DEF Calls, Ordered, CallsIn
  <2>2. CASE ~(o.privilege)
    BY <2>2 DEF Calls, Ordered, CallsIn
  <2> QED
    BY <2>1, <2>2, Zenon
<1>7. Bootstrap(o) = l \o (a \o b \o c \o d \o e)
  BY Zenon DEF Bootstrap, init_seccomp
<1> HIDE DEF a, b, c, d, e, l
<1>8. /\ Bootstrap(o) \in Seq(Calls) /\ Ordered(Bootstrap(o))
      /\ CallsIn(Bootstrap(o)) = CallsIn(l) \cup CallsIn(a) \cup CallsIn(b) \cup CallsIn(c)
                                  \cup CallsIn(d) \cup CallsIn(e)
  <2>1. /\ a \o b \in Seq(Calls) /\ Ordered(a \o b)
        /\ CallsIn(a \o b) = CallsIn(a) \cup CallsIn(b)
    BY <1>1, <1>2, Concatenation, SMTT(30)
  <2>2. /\ a \o b \o c \in Seq(Calls) /\ Ordered(a \o b \o c)
        /\ CallsIn(a \o b \o c) = CallsIn(a \o b) \cup CallsIn(c)
    BY <1>3, <2>1, Concatenation, ZenonT(30)
  <2>3. /\ a \o b \o c \o d \in Seq(Calls) /\ Ordered(a \o b \o c \o d)
        /\ CallsIn(a \o b \o c \o d) = CallsIn(a \o b \o c) \cup CallsIn(d)
    BY <1>4, <2>2, Concatenation, ZenonT(30)
  <2>4. /\ a \o b \o c \o d \o e \in Seq(Calls) /\ Ordered(a \o b \o c \o d \o e)
        /\ CallsIn(a \o b \o c \o d \o e) = CallsIn(a \o b \o c \o d) \cup CallsIn(e)
    BY <1>5, <2>3, Concatenation, ZenonT(30)
  <2>5. /\ Bootstrap(o) \in Seq(Calls) /\ Ordered(Bootstrap(o))
        /\ CallsIn(Bootstrap(o)) = CallsIn(l) \cup CallsIn(a \o b \o c \o d \o e)
    BY <1>6, <1>7, <2>4, Concatenation, ZenonT(30)
  <2> QED
    BY <2>1, <2>2, <2>3, <2>4, <2>5, SMTT(30)
<1>9. RootFirst(Bootstrap(o)) /\ NnpFirst(Bootstrap(o))
  <2>1. ASSUME NEW x \in Seq(Calls), "setuid" \notin CallsIn(x), "seccomp" \notin CallsIn(x)
        PROVE  RootFirst(x) /\ NnpFirst(x)
    BY <2>1 DEF RootFirst, NnpFirst, CallsIn
  <2>2. RootFirst(d) /\ NnpFirst(d)
    <3>1. CASE o.privilege
      BY <3>1 DEF d, RootFirst, NnpFirst
    <3>2. CASE ~o.privilege
      BY <3>2 DEF d, RootFirst, NnpFirst
    <3> QED
      BY <3>1, <3>2, Zenon
  <2>3. RootFirst(e)
    BY DEF e, RootFirst
  <2> DEFINE ab == a \o b
             abc == ab \o c
             abcd == abc \o d
             abcde == abcd \o e
  <2>4. /\ ab \in Seq(Calls) /\ CallsIn(ab) = CallsIn(a) \cup CallsIn(b)
        /\ abc \in Seq(Calls) /\ CallsIn(abc) = CallsIn(a) \cup CallsIn(b) \cup CallsIn(c)
        /\ abcd \in Seq(Calls) /\ CallsIn(abcd) = CallsIn(abc) \cup CallsIn(d)
        /\ abcde \in Seq(Calls)
    <3>1. ab \in Seq(Calls) /\ CallsIn(ab) = CallsIn(a) \cup CallsIn(b)
      BY <1>1, <1>2, Concatenation, ZenonT(30)
    <3>2. abc \in Seq(Calls) /\ CallsIn(abc) = CallsIn(ab) \cup CallsIn(c)
      BY <1>3, <3>1, Concatenation, ZenonT(30)
    <3>3. abcd \in Seq(Calls) /\ CallsIn(abcd) = CallsIn(abc) \cup CallsIn(d)
      BY <1>4, <3>2, Concatenation, ZenonT(30)
    <3>4. abcde \in Seq(Calls)
      BY <1>5, <3>3, Concatenation, ZenonT(30)
    <3> QED
      BY ONLY <3>1, <3>2, <3>3, <3>4, Zenon
  <2>5. RootFirst(abc) /\ NnpFirst(abc)
    BY <1>1, <1>2, <1>3, <2>1, <2>4, ZenonT(30)
  <2> HIDE DEF abc
  <2>6. RootFirst(abcd) /\ NnpFirst(abcd)
    <3>1. "setuid" \notin CallsIn(abc)
      BY <1>1, <1>2, <1>3, <2>4
    <3> QED
      BY <1>4, <2>2, <2>4, <2>5, <3>1, ConcatenationRights, Zenon
  <2> HIDE DEF abcd
  <2>7. RootFirst(abcde) /\ NnpFirst(abcde)
    <3>1. "no_new_privs" \in CallsIn(abcd) /\ CallsIn(e) \cap RootCalls = {}
      BY <1>3, <1>5, <2>4, Zenon DEF RootCalls
    <3> QED
      BY <1>5, <2>3, <2>4, <2>6, <3>1, ConcatenationRights, Zenon
  <2> HIDE DEF abcde
  <2>8. RootFirst(l) /\ NnpFirst(l) /\ "setuid" \notin CallsIn(l)
    BY <1>6, <2>1
  <2>9. Bootstrap(o) = l \o abcde
    BY <1>7, Zenon DEF abcde, abcd, abc
  <2> QED
    BY <1>6, <2>4, <2>7, <2>8, <2>9, ConcatenationRights
<1> QED
  BY <1>1, <1>2, <1>3, <1>4, <1>5, <1>6, <1>8, <1>9, SMTT(30) DEF Needed

\* With all its calls done, the process is what the mode promises.
LEMMA AllDoneIsConfined ==
    ASSUME \A c \in Needed(opts) : Done(c, proc)
    PROVE  Confined
BY DEF Needed, Done, Confined

\* Only setuid takes root from a process.
LEMMA OnlySetuidChangesUid ==
    ASSUME NEW call \in Calls, NEW p \in Procs, call # "setuid"
    PROVE  Effect(call, p).uid = p.uid
BY SMTT(30) DEF Calls, Effect, Procs

\* A process that starts the bootstrap is at its first call.
LEMMA AtFirstCall ==
    ASSUME NEW o
    PROVE  At(o, Bootstrap(o), Unconfined(o))
<1> DEFINE S == Bootstrap(o)
<1>1. S \in Seq(Calls)
  BY BootstrapShape, Zenon
<1>2. 1 \in 1..Len(S)+1 /\ S = SubSeq(S, 1, Len(S)) /\ 1..1-1 = {}
  BY <1>1
<1>3. o.privilege => Unconfined(o).uid = "root"
  BY Zenon DEF Unconfined
<1> QED
  BY <1>2, <1>3, Zenon DEF At

\* InitStep goes one call on, or fails and leaves nothing to do; it fails
\* only with the call that the kernel refuses in this run.
LEMMA InitStepGoesOn ==
    ASSUME proc \in Procs, Progress, InitStep
    PROVE  /\ proc' \in Procs
           /\ \/ Progress' /\ rc' = rc
              \/ rc' # 0 /\ todo' = <<>> /\ fault # "none" /\ rc' = Status[fault]
<1> DEFINE S == Bootstrap(opts)
<1>1. /\ S \in Seq(Calls) /\ Ordered(S) /\ RootFirst(S) /\ NnpFirst(S)
      /\ Needed(opts) = CallsIn(S) /\ Len(S) \in Nat
  BY BootstrapShape
<1>2. PICK k \in 1..Len(S)+1 :
         /\ todo = SubSeq(S, k, Len(S))
         /\ \A j \in 1..k-1 : Done(S[j], proc)
         /\ opts.privilege /\ (\A j \in 1..k-1 : S[j] # "setuid") => proc.uid = "root"
  BY Zenon DEF Progress, At
<1>3. opts' = opts /\ Bootstrap(opts)' = S
  BY ZenonT(30) DEF InitStep
<1> HIDE DEF S
<1>4. k \in 1..Len(S)
  BY <1>1, <1>2, SMTT(30) DEF InitStep
<1>5. S[k] \in Calls /\ Head(todo) = S[k] /\ Tail(todo) = SubSeq(S, k+1, Len(S))
  BY <1>1, <1>2, <1>4, SMTT(30)
<1>6. CASE proc' = Effect(Head(todo), proc) /\ todo' = Tail(todo) /\ UNCHANGED rc
  <2>1. S[k] = "chdir" => proc.root
    <3> SUFFICES ASSUME S[k] = "chdir" PROVE proc.root
      OBVIOUS
    <3>1. PICK l \in 1..k-1 : S[l] = "chroot"
      BY <1>1, <1>4, SMTT(30) DEF Ordered
    <3>2. Done("chroot", proc)
      BY <1>2, <3>1, SMTT(30)
    <3> QED
      BY <3>2, Zenon DEF Done
  <2>2. /\ proc' \in Procs
        /\ Done(S[k], proc')
        /\ \A c \in Calls : Done(c, proc) => Done(c, proc')
    BY <1>5, <1>6, <2>1, EffectLeavesMarks, SMTT(30)
  <2>3. ASSUME NEW j \in 1..(k+1)-1 PROVE Done(S[j], proc')
    <3>1. S[j] \in Calls
      BY <1>1, <1>4
    <3> QED
      BY <1>2, <1>4, <2>2, <3>1, SMTT(30)
  <2>4. k + 1 \in 1..Len(S)+1
    BY <1>1, <1>4, SMTT(30)
  <2>5. opts.privilege /\ (\A j \in 1..(k+1)-1 : S[j] # "setuid") => proc'.uid = "root"
    <3> SUFFICES ASSUME opts.privilege, \A j \in 1..(k+1)-1 : S[j] # "setuid"
                 PROVE  proc'.uid = "root"
      OBVIOUS
    <3>1. S[k] # "setuid" /\ proc.uid = "root"
      BY <1>1, <1>2, <1>4, SMTT(30)
    <3> QED
      BY <1>5, <1>6, <3>1, OnlySetuidChangesUid, ZenonT(30)
  <2>6. Progress'
    BY <1>3, <1>5, <1>6, <2>3, <2>4, <2>5, ZenonT(30) DEF Progress, At
  <2> QED
    BY <1>6, <2>2, <2>6, Zenon
<1>7. Permitted(S[k], proc)
  <2>1. ASSUME S[k] \in RootCalls PROVE proc.uid = "root"
    <3>1. \A j \in 1..k-1 : S[j] # "setuid"
      BY <1>1, <1>4, <2>1, SMTT(30) DEF RootFirst
    <3>2. S[k] \in CallsIn(S)
      BY <1>4, Zenon DEF CallsIn
    <3>3. opts.privilege
      BY <1>1, <2>1, <3>2, SMTT(30) DEF Needed, RootCalls
    <3> QED
      BY <1>2, <3>1, <3>3, ZenonT(30)
  <2>2. ASSUME S[k] = "seccomp" PROVE proc.nnp
    <3>1. PICK j \in 1..k-1 : S[j] = "no_new_privs"
      BY <1>1, <1>4, <2>2, SMTT(30) DEF NnpFirst
    <3>2. Done("no_new_privs", proc)
      BY <1>2, <3>1, SMTT(30)
    <3> QED
      BY <3>2 DEF Done
  <2> QED
    BY <2>1, <2>2 DEF Permitted, RootCalls
<1>8. CASE Head(todo) = fault /\ rc' = Status[Head(todo)] /\ todo' = <<>> /\ UNCHANGED proc
  <2>1. fault \in Calls
    BY <1>5, <1>8, SMTT(30)
  <2>2. fault # "none" /\ Status[fault] # 0
    BY <2>1, SMTT(30) DEF Calls, Status
  <2> QED
    BY <1>8, <2>2, Zenon
<1> QED
  BY <1>5, <1>6, <1>7, <1>8, SMTT(30) DEF InitStep

\* Nothing left to do and no failure: the process is confined.
LEMMA BootstrapConfines ==
    ASSUME Progress, todo = <<>>
    PROVE  Confined
<1> DEFINE S == Bootstrap(opts)
<1>1. S \in Seq(Calls) /\ Needed(opts) = CallsIn(S) /\ Len(S) \in Nat
  BY BootstrapShape
<1>2. PICK k \in 1..Len(S)+1 :
         /\ todo = SubSeq(S, k, Len(S))
         /\ \A j \in 1..k-1 : Done(S[j], proc)
  BY ZenonT(30) DEF Progress, At
<1> HIDE DEF S
<1>3. k = Len(S) + 1
  <2> DEFINE rest == SubSeq(S, k, Len(S))
  <2>1. Len(rest) = IF k <= Len(S) THEN Len(S) - k + 1 ELSE 0
    BY <1>1
  <2>2. rest = <<>>
    BY <1>2, Zenon
  <2> HIDE DEF rest
  <2>3. Len(rest) = 0
    BY <2>2, Zenon
  <2> QED
    BY <1>1, <2>1, <2>3, SMTT(30)
<1>4. \A c \in Needed(opts) : Done(c, proc)
  BY <1>1, <1>2, <1>3, SMTT(30) DEF CallsIn
<1> QED
  BY <1>4, AllDoneIsConfined, Zenon

-----------------------------------------------------------------------------

\* Route starts the bootstrap with a fresh process, or sends the frame.
LEMMA RouteKeeps ==
    ASSUME ConfinementInv, Route
    PROVE  ConfinementInv'
<1>1. proc' \in Procs /\ proc' = Unconfined(opts')
  BY SMTT(30) DEF Route, Unconfined, Procs
<1>2. stage' \in {"send", "boot"} /\ UNCHANGED <<rc, fault>>
  BY Zenon DEF Route
<1>3. ASSUME stage' = "boot" PROVE Progress'
  <2>1. todo' = Bootstrap(opts')
    BY <1>3, Zenon DEF Route
  <2> QED
    BY <1>1, <2>1, AtFirstCall, SMTT(30) DEF Progress
<1>4. InitInOrder'
  BY <1>2, Zenon DEF ConfinementInv, InitInOrder
<1>5. Unconfined(opts)' = Unconfined(opts')
  BY Zenon DEF Unconfined
<1> QED
  BY <1>1, <1>2, <1>3, <1>4, <1>5, SMTT(30) DEF ConfinementInv, OnlyConfinedCode

\* Steps that leave the process and what it has to do alone.
LEMMA OthersKeep ==
    ASSUME ConfinementInv, UNCHANGED <<opts, proc, todo, rc, fault>>,
           \/ stage' = stage
           \/ stage' \in {"refused", "failed", "killed", "exited"}
           \/ stage \in {"preload", "decode"} /\ stage' \in {"decode", "user"}
    PROVE  ConfinementInv'
<1>1. OnlyConfinedCode'
  BY Zenon DEF ConfinementInv, OnlyConfinedCode, Confined
<1>2. InitInOrder' /\ Unconfined(opts)' = Unconfined(opts) /\ Progress' = Progress
  BY Zenon DEF ConfinementInv, InitInOrder, Unconfined, Progress
<1> QED
  BY <1>1, <1>2 DEF ConfinementInv

\* Handle starts the bootstrap of a forked child, once, or ends it.
LEMMA HandleKeeps ==
    ASSUME ConfinementInv, DeliveryInv, Handle
    PROVE  ConfinementInv'
<1>1. Yield /\ UNCHANGED <<opts, proc, rc, fault>>
  BY Zenon DEF Handle
<1>2. CASE FirstFrame(recv_buf) = RunFrame /\ stage = "send"
  <2>1. RunFrame.type = RUN
    BY Zenon DEF RunFrame
  <2>2. stage' = "boot" /\ todo' = Bootstrap(opts')
    BY <1>1, <1>2, <2>1 DEF Handle, RUN, KILL
  <2>3. proc' = Unconfined(opts') /\ proc' \in Procs
    BY <1>1, <1>2, SMTT(30) DEF ConfinementInv
  <2>4. Progress'
    BY <2>2, <2>3, AtFirstCall, ZenonT(30) DEF Progress
  <2>5. InitInOrder'
    BY <1>1, Zenon DEF ConfinementInv, InitInOrder
  <2> QED
    BY <2>2, <2>3, <2>4, <2>5, SMTT(30) DEF ConfinementInv, OnlyConfinedCode
<1>3. CASE FirstFrame(recv_buf) = KillFrame
  <2>1. UNCHANGED todo /\ stage' \in {"killed", stage}
    BY <1>3, KillFramePayload DEF Handle, RUN, KILL
  <2> QED
    BY <1>1, <2>1, OthersKeep
<1> QED
  BY <1>1, <1>2, <1>3, RunComesFirst, Zenon

\* Confine makes one call of the bootstrap (InitStep).
LEMMA ConfineKeeps ==
    ASSUME ConfinementInv, Confine
    PROVE  ConfinementInv'
<1>1. Progress /\ stage = "boot" /\ stage' = "boot" /\ fault' = fault
  BY Zenon DEF ConfinementInv, Confine, InitStep
<1>2. /\ proc' \in Procs
      /\ \/ Progress' /\ rc' = rc
         \/ rc' # 0 /\ todo' = <<>> /\ fault # "none" /\ rc' = Status[fault]
  BY <1>1, InitStepGoesOn, SMTT(30) DEF ConfinementInv, Confine
<1>3. InitInOrder'
  BY <1>1, <1>2, Zenon DEF ConfinementInv, InitInOrder, Status
<1> QED
  BY <1>1, <1>2, <1>3, Zenon DEF ConfinementInv, OnlyConfinedCode

\* Booted goes on to code of the request only from a bootstrap without failure.
LEMMA BootedKeeps ==
    ASSUME ConfinementInv, Booted
    PROVE  ConfinementInv'
<1>1. UNCHANGED <<opts, proc, todo, rc, fault>>
  BY Zenon DEF Booted, initVars
<1>2. CASE stage' \in {"killed", "failed"}
  BY <1>1, <1>2, OthersKeep, SMTT(30)
<1>3. CASE stage' \in {"preload", "decode"} /\ rc = 0
  <2>1. Confined
    BY <1>3, BootstrapConfines, SMTT(30) DEF ConfinementInv, Booted
  <2>2. OnlyConfinedCode' /\ InitInOrder'
    BY <1>1, <2>1, SMTT(30) DEF ConfinementInv, OnlyConfinedCode, Confined, InitInOrder
  <2> QED
    BY <1>1, <1>3, <2>2, ZenonT(30) DEF ConfinementInv
<1> QED
  BY <1>2, <1>3, SMTT(30) DEF Booted

\* The process goes through the bootstrap of its mode, with the right to
\* every call when it makes it.
THEOREM ConfinementInvariant == LaunchSpec => []ConfinementInv
<1>1. LaunchInit => ConfinementInv
  BY DEF LaunchInit, ConfinementInv, OnlyConfinedCode, InitInOrder, Unconfined, Procs
<1>2. ConfinementInv /\ DeliveryInv /\ [LaunchNext]_launchVars => ConfinementInv'
  <2> SUFFICES ASSUME ConfinementInv, DeliveryInv, [LaunchNext]_launchVars
               PROVE  ConfinementInv'
    OBVIOUS
  <2>1. CASE Route
    BY <2>1, RouteKeeps
  <2>2. CASE Handle
    BY <2>2, HandleKeeps, SMTT(30)
  <2>3. CASE Confine
    BY <2>3, ConfineKeeps, ZenonT(30)
  <2>4. CASE Booted
    BY <2>4, BootedKeeps
  <2>5. CASE Refuse
    BY <2>5, OthersKeep, SMTT(30) DEF Refuse, initVars
  <2>6. CASE Transfer
    BY <2>6, OthersKeep, SMTT(30) DEF Transfer, initVars
  <2>7. CASE Decode
    BY <2>7, OthersKeep, SMTT(30) DEF Decode, initVars
  <2>8. CASE Timeout
    BY <2>8, OthersKeep, SMTT(30) DEF Timeout, initVars
  <2>9. CASE PreloadDone
    BY <2>9, OthersKeep, SMTT(30) DEF PreloadDone, initVars
  <2>10. CASE UserEnds
    BY <2>10, OthersKeep, SMTT(30) DEF UserEnds, initVars
  <2>11. ASSUME NEW c \in UserCalls, UserCall(c) PROVE ConfinementInv'
    BY <2>11, OthersKeep DEF UserCall, initVars
  <2>12. CASE UNCHANGED launchVars
    BY <2>12, OthersKeep, Zenon DEF launchVars, initVars
  <2> QED
    BY <2>1, <2>2, <2>3, <2>4, <2>5, <2>6, <2>7, <2>8, <2>9, <2>10, <2>11, <2>12, SMTT(30)
       DEF LaunchNext, Step
<1> QED
  BY <1>1, <1>2, DeliveryInvariant, PTL DEF LaunchSpec

\* OnlyConfinedCode for every configuration, request, refused call and set
\* of user calls: the program is decrypted and run, and a preload is run,
\* only after every call of the bootstrap of the mode has succeeded.
THEOREM OnlyConfinedCodeRuns == LaunchSpec => []OnlyConfinedCode
<1>1. ConfinementInv => OnlyConfinedCode
  BY Zenon DEF ConfinementInv
<1> QED
  BY <1>1, ConfinementInvariant, PTL

\* In both modes the process has the right to every call of its bootstrap
\* when it makes it: initialisation fails only with the call the kernel
\* refuses for a reason of its own, and reports the status of that call.
THEOREM BootstrapInOrder == LaunchSpec => []InitInOrder
<1>1. ConfinementInv => InitInOrder
  BY Zenon DEF ConfinementInv
<1> QED
  BY <1>1, ConfinementInvariant, PTL

-----------------------------------------------------------------------------
(* What the configuration grants, and what the filter lets pass *)

\* The environment of a child has no ALLOWED_SYSCALLS: the spawns clear it, and
\* the tables of the library decide.
LEMMA TablesDecide ==
    ASSUME NEW c
    PROVE  Judge(c) = Verdict(Lang, opts.net, {}, c[1], c[2])
<1>1. ASSUME NEW v \in proxy_env_vars(config) PROVE v[1] \in {"HTTPS_PROXY", "HTTP_PROXY"}
  <2>1. \E x : v = <<"HTTPS_PROXY", x>> \/ v = <<"HTTP_PROXY", x>>
    BY <1>1, Zenon DEF proxy_env_vars
  <2> QED
    BY <2>1
<1>2. "ALLOWED_SYSCALLS" \notin child_env
  BY <1>1, Zenon DEF child_env
<1> QED
  BY <1>2, Zenon DEF Judge

\* A socket is in the network tables only.
LEMMA SocketNeedsNetwork ==
    ASSUME NEW lang, NEW net, Verdict(lang, net, {}, "socket", "plain") = "ALLOW"
    PROVE  net
<1>1. "socket" \notin Always(lang)
  BY DEF Always, python_ALLOW_SYSCALLS, nodejs_ALLOW_SYSCALLS
<1>2. "socket" \in get_allowed_syscalls(lang, net, {})
  BY ZenonT(30) DEF Verdict
<1> QED
  BY <1>1, <1>2, Zenon DEF get_allowed_syscalls

\* What an interpreter does on its own has a rule in both languages.
LEMMA RuntimeProvidedFor ==
    ASSUME NEW lang, NEW net, NEW c \in RuntimeCalls
    PROVE  Verdict(lang, net, {}, c[1], c[2]) # "KILL"
<1>1. c[1] \in get_allowed_syscalls(lang, net, {})
  <2>1. c[1] \in Always(lang)
    BY SMTT(30) DEF RuntimeCalls, Always, python_ALLOW_SYSCALLS, nodejs_ALLOW_SYSCALLS
  <2> QED
    BY <2>1, Zenon DEF get_allowed_syscalls
<1>2. \E r \in Rules(c[1]) : c[2] \in r.on /\ r.act \in {"ALLOW", "EPERM"}
  <2>1. CASE c = <<"ioctl", "TCGETS">>
    <3>1. [act |-> "EPERM", on |-> Args \ {"FIONBIO"}] \in Rules(c[1])
      BY <2>1 DEF Rules
    <3>2. c[2] \in Args \ {"FIONBIO"}
      BY <2>1, Zenon DEF Args
    <3> QED
      BY <3>1, <3>2, Zenon
  <2>2. CASE c = <<"openat", "plain">>
    <3>1. [act |-> "ALLOW", on |-> Args \ {"O_CREAT"}] \in Rules(c[1])
      BY <2>2, Zenon DEF Rules
    <3>2. c[2] \in Args \ {"O_CREAT"}
      BY <2>2, Zenon DEF Args
    <3> QED
      BY <3>1, <3>2, Zenon
  <2>3. CASE c[1] \notin {"ioctl", "openat", "open"} /\ c[2] = "plain"
    <3>1. [act |-> "ALLOW", on |-> Args] \in Rules(c[1])
      BY <2>3, Zenon DEF Rules
    <3>2. c[2] \in Args
      BY <2>3, SMTT(30) DEF Args
    <3> QED
      BY <3>1, <3>2, Zenon
  <2> QED
    BY <2>1, <2>2, <2>3 DEF RuntimeCalls
<1> QED
  BY <1>1, <1>2, SMTT(30) DEF Verdict

\* Config::load: for a flag, the environment goes before the file, and the
\* file before the default.
LEMMA FlagLoaded ==
    ASSUME NEW file, NEW env
    PROVE  /\ load(file, env).enable_network =
                  Flag(env, "ENABLE_NETWORK", FromFile(file, "enable_network"))
           /\ load(file, env).enable_preload =
                  Flag(env, "ENABLE_PRELOAD", FromFile(file, "enable_preload"))
           /\ Defaults.enable_network = TRUE /\ Defaults.enable_preload = FALSE
<1>1. {"enable_network", "enable_preload"} \subseteq Fields
  BY DEF Fields, Defaults
<1> QED
  BY <1>1, SMTT(30) DEF load, FlagVars, Defaults

\* What the request may have was decided by Route, from the configuration.
GatesInv ==
    /\ stage \notin {"request", "refused"} => opts.net = NetworkAllowed
    /\ <<"socket", "plain">> \in granted => NetworkAllowed
    /\ stage = "preload" => checked_preload
    /\ BootstrapSurvives

\* Every step keeps what Route decided; a socket passes the filter only in a
\* process with network access, and no call of the interpreter is fatal.
LEMMA GatesKeep ==
    ASSUME GatesInv, ConfinementInv, DeliveryInv, [LaunchNext]_launchVars
    PROVE  GatesInv'
<1>1. ASSUME UNCHANGED <<opts, input, granted, killer>>,
             stage' # "preload" \/ stage = "preload",
             stage' \in {"request", "refused"} \/ stage \notin {"request", "refused"}
      PROVE  GatesInv'
  <2>1. NetworkAllowed' = NetworkAllowed /\ checked_preload' = checked_preload
    BY <1>1, SMTT(30) DEF NetworkAllowed, checked_preload, config, request
  <2> QED
    BY <1>1, <2>1, SMTT(30) DEF GatesInv, BootstrapSurvives
<1>2. CASE Route
  <2>1. /\ opts'.net = NetworkAllowed /\ stage' \in {"send", "boot"}
        /\ UNCHANGED <<input, granted, killer>>
    BY <1>2, Zenon DEF Route
  <2>2. NetworkAllowed' = NetworkAllowed
    BY <2>1, ZenonT(30) DEF NetworkAllowed, config, request
  <2> QED
    BY <2>1, <2>2 DEF GatesInv, BootstrapSurvives
<1>3. CASE Booted
  <2>1. ~ \E c \in RuntimeCalls : Judge(c) = "KILL"
    BY TablesDecide, RuntimeProvidedFor
  <2>2. /\ UNCHANGED <<opts, input, granted, killer, path>> /\ stage = "boot"
        /\ stage' \in {"failed", "preload", "decode"}
        /\ stage' = "preload" => checked_preload
    BY <1>3, <2>1 DEF Booted, initVars
  <2>3. NetworkAllowed' = NetworkAllowed /\ checked_preload' = checked_preload
    BY <2>2, Zenon DEF NetworkAllowed, checked_preload, config, request
  <2> QED
    BY <2>2, <2>3 DEF GatesInv, BootstrapSurvives
<1>4. ASSUME NEW c \in UserCalls, UserCall(c) PROVE GatesInv'
  <2>1. /\ stage \in {"preload", "user"} /\ stage' \in {stage, "killed"}
        /\ UNCHANGED <<opts, input>>
        /\ killer' \in {killer, "user"}
    BY <1>4, Zenon DEF UserCall, initVars
  <2>2. proc.filter
    BY <2>1, Zenon DEF ConfinementInv, OnlyConfinedCode, Confined
  <2>3. granted' = granted \/ (Judge(c) = "ALLOW" /\ granted' = granted \cup {c})
    BY <1>4, <2>2, ZenonT(30) DEF UserCall
  <2>4. NetworkAllowed' = NetworkAllowed /\ checked_preload' = checked_preload
    BY <2>1 DEF NetworkAllowed, checked_preload, config, request
  <2>5. opts.net = NetworkAllowed
    BY <2>1, Zenon DEF GatesInv
  <2>6. ASSUME <<"socket", "plain">> \in granted' PROVE NetworkAllowed
    <3>1. CASE <<"socket", "plain">> \in granted
      BY <3>1, Zenon DEF GatesInv
    <3>2. CASE c = <<"socket", "plain">> /\ Judge(c) = "ALLOW"
      <4>1. c[1] = "socket" /\ c[2] = "plain"
        BY <3>2, ZenonT(30)
      <4>2. opts.net
        BY <3>2, <4>1, TablesDecide, SocketNeedsNetwork, SMTT(30)
      <4> QED
        BY <2>5, <4>2
    <3> QED
      BY <2>3, <2>6, <3>1, <3>2, Zenon
  <2> QED
    BY <2>1, <2>4, <2>5, <2>6, Zenon DEF GatesInv, BootstrapSurvives
<1>5. CASE Handle
  <2>1. stage \notin {"request", "refused"}
    BY <1>5, RunComesFirst, Zenon DEF Handle, DeliveryInv, RoutedInv
  <2>2. stage' \in {"boot", "killed", stage} /\ UNCHANGED <<opts, input, granted, killer>>
    BY <1>5, ZenonT(30) DEF Handle
  <2> QED
    BY <1>1, <2>1, <2>2
<1>6. CASE Refuse \/ Transfer \/ Confine \/ PreloadDone \/ UserEnds
  BY <1>1, <1>6, SMTT(30) DEF Refuse, Transfer, Confine, InitStep, PreloadDone, UserEnds, initVars
<1>7. CASE Decode \/ Timeout
  BY <1>1, <1>7, SMTT(30) DEF Decode, Timeout, Alive, initVars
<1>8. CASE UNCHANGED launchVars
  BY <1>1, <1>8 DEF launchVars, initVars
<1> QED
  BY <1>2, <1>3, <1>4, <1>5, <1>6, <1>7, <1>8, ZenonT(30) DEF LaunchNext, Step

\* What Route decided holds for the life of the process.
THEOREM GatesInvariant == LaunchSpec => []GatesInv
<1>1. LaunchInit => GatesInv
  BY Zenon DEF LaunchInit, GatesInv, BootstrapSurvives
<1>2. GatesInv /\ ConfinementInv /\ DeliveryInv /\ [LaunchNext]_launchVars => GatesInv'
  BY GatesKeep, Zenon
<1> QED
  BY <1>1, <1>2, ConfinementInvariant, DeliveryInvariant, PTL DEF LaunchSpec

\* A socket is for requests that ask for it under a configuration that grants
\* it, and a preload runs only where the configuration has it, for every file
\* and every environment: the last of the three to say so decides.
THEOREM GatesDecide == LaunchSpec => []GatesHold
<1>1. GatesInv => GatesHold
  BY FlagLoaded, ZenonT(30) DEF GatesInv, GatesHold, NetworkAllowed, checked_preload, config, Flag, FromFile
<1> QED
  BY <1>1, GatesInvariant, PTL

\* In both languages, with and without network access, the filter has a rule
\* for all an interpreter does on its own after it is loaded.
THEOREM InterpreterSurvivesFilter == LaunchSpec => []BootstrapSurvives
<1>1. GatesInv => BootstrapSurvives
  BY Zenon DEF GatesInv
<1> QED
  BY <1>1, GatesInvariant, PTL

-----------------------------------------------------------------------------
(* The bytes of the stream *)

LOCAL INSTANCE WellFoundedInduction

\* Induction up to N, for a set of numbers.
LEMMA UpTo ==
    ASSUME NEW N \in Nat, NEW S, 0 \in S, \A k \in 1..N : k - 1 \in S => k \in S
    PROVE  0..N \subseteq S
<1> DEFINE R == OpToRel(<, Nat)
           T == {k \in 0..N : k \notin S}
<1>1. IsWellFoundedOn(R, Nat)
  BY NatLessThanWellFounded, ZenonT(30)
<1>2. \A x, y \in Nat : y < x => <<y, x>> \in R
  BY Zenon DEF OpToRel
<1>3. T \subseteq Nat
  BY DEF T
<1> HIDE DEF R, T
<1>4. SUFFICES ASSUME T # {} PROVE FALSE
  BY Zenon DEF T
<1>5. PICK x \in T : \A y \in T : ~(<<y, x>> \in R)
  BY <1>1, <1>3, <1>4, WFMin, ZenonT(30)
<1>6. x \in 0..N /\ x \notin S /\ x # 0
  BY <1>5, Zenon DEF T
<1>7. x - 1 \in 0..N /\ x \in 1..N /\ x - 1 < x /\ x \in Nat /\ x - 1 \in Nat
  BY <1>6
<1>8. x - 1 \notin T
  BY <1>2, <1>5, <1>7, Zenon
<1> QED
  BY <1>6, <1>7, <1>8, Zenon DEF T

\* The bytes of the first k frames, for every k up to m.
Unrolls(g, frames, m) ==
    g = [k \in 0..m |-> IF k = 0 THEN <<>> ELSE g[k-1] \o encode_frame(frames[k])]

\* Two such functions agree as far as their frames do.
LEMMA UnrollsOnce ==
    ASSUME NEW m \in Nat, NEW l \in Nat, m <= l, NEW p, NEW q, NEW f, NEW g,
           Unrolls(f, p, m), Unrolls(g, q, l), \A k \in 1..m : p[k] = q[k]
    PROVE  \A k \in 0..m : f[k] = g[k]
<1> DEFINE S == {k \in 0..m : f[k] = g[k]}
<1>1. 0 \in S
  <2>1. f[0] = <<>> /\ g[0] = <<>> /\ 0 \in 0..m
    BY DEF Unrolls
  <2> QED
    BY <2>1, ZenonT(30)
<1>2. ASSUME NEW k \in 1..m, k - 1 \in S PROVE k \in S
  <2>1. k \in 0..m /\ k \in 0..l /\ k # 0 /\ f[k-1] = g[k-1] /\ p[k] = q[k]
    BY <1>2
  <2>2. f[k] = f[k-1] \o encode_frame(p[k])
    BY <2>1, Zenon DEF Unrolls
  <2>3. g[k] = g[k-1] \o encode_frame(q[k])
    BY <2>1, Zenon DEF Unrolls
  <2> QED
    BY <2>1, <2>2, <2>3, ZenonT(30)
<1> HIDE DEF S
<1>3. 0..m \subseteq S
  BY <1>1, <1>2, UpTo, Zenon
<1> QED
  BY <1>3, Zenon DEF S

\* There is such a function, and its values are bytes.
LEMMA UnrollsToBytes ==
    ASSUME NEW p \in Seq(Frames)
    PROVE  \E g \in [0..Len(p) -> Seq(Octet)] : Unrolls(g, p, Len(p))
<1> DEFINE N == Len(p)
           S == {m \in 0..N : \E g \in [0..m -> Seq(Octet)] : Unrolls(g, p, m)}
<1>0. N \in Nat /\ <<>> \in Seq(Octet)
  OBVIOUS
<1>1. 0 \in S
  <2> DEFINE g == [k \in 0..0 |-> <<>>]
  <2>1. g \in [0..0 -> Seq(Octet)]
    BY <1>0
  <2>2. Unrolls(g, p, 0)
    BY DEF Unrolls
  <2>3. 0 \in 0..N
    BY <1>0
  <2> QED
    BY <2>1, <2>2, <2>3, Zenon
<1>2. ASSUME NEW m \in 1..N, m - 1 \in S PROVE m \in S
  <2>1. PICK f \in [0..m-1 -> Seq(Octet)] : Unrolls(f, p, m - 1)
    BY <1>2, ZenonT(30)
  <2>2. p[m] \in Frames /\ m \in Nat /\ m # 0 /\ m - 1 \in 0..m-1 /\ m \in 0..N
    BY <1>0, <1>2, SMTT(30)
  <2>3. encode_frame(p[m]) \in Seq(Octet)
    BY <2>2, Encoded, ZenonT(30)
  <2> DEFINE b == f[m-1] \o encode_frame(p[m])
             g == [k \in 0..m |-> IF k = m THEN b ELSE f[k]]
  <2>4. b \in Seq(Octet)
    <3>1. f[m-1] \in Seq(Octet)
      BY <2>2, ZenonT(30)
    <3> QED
      BY <2>3, <3>1, ConcatElements, Zenon
  <2>5. \A k \in 0..m-1 : f[k] = IF k = 0 THEN <<>> ELSE f[k-1] \o encode_frame(p[k])
    BY <2>1, ZenonT(30) DEF Unrolls
  <2> HIDE DEF b
  <2>6. g \in [0..m -> Seq(Octet)]
    <3> SUFFICES ASSUME NEW k \in 0..m PROVE g[k] \in Seq(Octet)
      BY ZenonT(30)
    <3>1. k = m \/ k \in 0..m-1
      BY <2>2
    <3> QED
      BY <2>4, <3>1, ZenonT(30)
  <2>7. ASSUME NEW k \in 0..m
        PROVE  g[k] = IF k = 0 THEN <<>> ELSE g[k-1] \o encode_frame(p[k])
    <3>1. CASE k = m
      <4>1. g[k] = b /\ g[k-1] = f[k-1]
        BY <2>2, <3>1
      <4> QED
        BY <2>2, <3>1, <4>1, ZenonT(30) DEF b
    <3>2. CASE k # m
      <4>1. k \in 0..m-1 /\ (k # 0 => k - 1 \in 0..m /\ k - 1 # m)
        BY <2>2, <3>2
      <4> QED
        BY <2>5, <3>2, <4>1, ZenonT(30)
    <3> QED
      BY <3>1, <3>2, Zenon
  <2>8. Unrolls(g, p, m)
    BY <2>7, Zenon DEF Unrolls
  <2> HIDE DEF g
  <2> QED
    BY <2>2, <2>6, <2>8, ZenonT(30)
<1> HIDE DEF S
<1>3. 0..N \subseteq S
  BY <1>0, <1>1, <1>2, UpTo, ZenonT(30)
<1>4. N \in S
  BY <1>0, <1>3
<1> QED
  BY <1>4, ZenonT(30) DEF S

\* Bytes is what its recursion says.
LEMMA BytesUnroll ==
    ASSUME NEW p \in Seq(Frames)
    PROVE  /\ Unrolls(BytesUpto(p), p, Len(p))
           /\ \A k \in 0..Len(p) : BytesUpto(p)[k] \in Seq(Octet)
<1>1. PICK g \in [0..Len(p) -> Seq(Octet)] : Unrolls(g, p, Len(p))
  BY UnrollsToBytes, Zenon
<1> DEFINE f == BytesUpto(p)
<1>2. f = CHOOSE h : Unrolls(h, p, Len(p))
  BY DEF BytesUpto, Unrolls
<1>3. Unrolls(f, p, Len(p))
  BY <1>1, <1>2, Zenon
<1> HIDE DEF f
<1>4. PICK m \in Nat : m = Len(p) /\ m <= m /\ \A k \in 1..m : p[k] = p[k]
  OBVIOUS
<1>5. \A k \in 0..m : f[k] = g[k]
  BY <1>1, <1>3, <1>4, UnrollsOnce, SMTT(30)
<1> QED
  BY <1>1, <1>3, <1>4, <1>5, ZenonT(30) DEF f

\* Pieces of the stream may be put together in any order.
LEMMA OctetsAssociate ==
    ASSUME NEW r \in Seq(Octet), NEW s \in Seq(Octet), NEW t \in Seq(Octet)
    PROVE  (r \o s) \o t = r \o (s \o t)
BY ConcatAssociates, SMTT(30)

\* A frame that lies in the stream adds its encoding to what is before it.
LEMMA NextBytes ==
    ASSUME NEW f \in Frames, NEW u \in Seq(Octet), NEW a \in Nat,
           a + Size(f) <= Len(u), LiesAt(f, u, a)
    PROVE  SubSeq(u, 1, a) \o encode_frame(f) = SubSeq(u, 1, a + Size(f))
<1> DEFINE e == encode_frame(f)
           z == Size(f)
           c == SubSeq(u, 1, a)
           s == c \o e
           t == SubSeq(u, 1, a + z)
<1>1. e \in Seq(Octet) /\ z \in Nat /\ Len(e) = z
  BY Encoded, Zenon
<1>2. \A j \in 1..z : u[a + j] = e[j]
  BY Zenon DEF LiesAt
<1>3. a + z <= Len(u)
  BY ZenonT(30)
<1> HIDE DEF e, z
<1>4. c \in Seq(Octet) /\ Len(c) = a /\ \A j \in 1..a : c[j] = u[j]
  BY <1>1, <1>3, SMTT(30)
<1>5. /\ t \in Seq(Octet) /\ Len(t) = a + z
      /\ \A j \in 1..a+z : t[j] = u[j]
  BY <1>1, <1>3
<1> HIDE DEF c
<1>6. /\ s \in Seq(Octet) /\ Len(s) = a + z
      /\ \A j \in 1..a : s[j] = u[j]
      /\ \A j \in 1..z : s[a + j] = e[j]
  <2>1. s = c \o e
    OBVIOUS
  <2> HIDE DEF s
  <2>2. /\ s \in Seq(Octet) /\ Len(s) = Len(c) + Len(e)
        /\ \A j \in 1..Len(c) : s[j] = c[j]
        /\ \A j \in 1..Len(e) : s[Len(c) + j] = e[j]
    BY <1>1, <1>4, <2>1, ConcatElements, SMTT(30)
  <2> QED
    BY <1>1, <1>4, <2>2, ZenonT(30)
<1> HIDE DEF s, t
<1>7. ASSUME NEW j \in 1..a+z PROVE s[j] = t[j]
  <2>1. CASE j \in 1..a
    BY <1>5, <1>6, <1>7, <2>1, ZenonT(30)
  <2>2. CASE j \notin 1..a
    <3>1. j - a \in 1..z /\ a + (j - a) = j
      BY <1>1, <1>7, <2>2
    <3>2. s[j] = e[j - a] /\ u[j] = e[j - a]
      BY <1>2, <1>6, <3>1, ZenonT(30)
    <3> QED
      BY <1>5, <1>7, <3>2, ZenonT(30)
  <2> QED
    BY <2>1, <2>2, Zenon
<1>8. s = t
  BY <1>5, <1>6, <1>7, SameSeq, ZenonT(30)
<1> QED
  BY <1>8, Zenon DEF s, t, c, e, z

\* The frames that were yielded, and the bytes that are under way, make up
\* the bytes that were sent.
LEMMA StreamAddsUp == StreamInv => StreamIntact
<1> SUFFICES ASSUME StreamInv PROVE StreamIntact
  OBVIOUS
<1> DEFINE B == BytesUpto(sent)
           G == BytesUpto(got)
           L == Len(got)
           P == Pending
           U == Unread
<1>1. /\ sent \in Seq(Frames) /\ L \in 0..Len(sent) /\ L \in Nat
      /\ got \in Seq(Frames) /\ \A k \in 1..L : got[k] = sent[k]
  <2>1. /\ sent \in Seq(Frames) /\ L \in 0..Len(sent) /\ got = SubSeq(sent, 1, L)
    BY ZenonT(30) DEF StreamInv
  <2>2. SubSeq(sent, 1, L) \in Seq(Frames) /\ \A k \in 1..L : SubSeq(sent, 1, L)[k] = sent[k]
    BY <2>1
  <2>3. L \in Nat
    BY <2>1
  <2> QED
    BY <2>1, <2>2, <2>3, Zenon
<1>2. /\ P \in Seq(Frames) /\ Len(P) = Len(sent) - L /\ Len(P) \in Nat
      /\ \A k \in 1..Len(P) : P[k] = sent[L + k] /\ P[k] \in Frames
  BY <1>1 DEF Pending
<1>3. /\ U \in Seq(Octet) /\ recv_buf \in Seq(Octet) /\ sock \in Seq(Octet)
      /\ tosend \in Seq(Octet)
  BY UnreadTypes, Zenon DEF StreamInv
<1>4. PICK off : Divides(off, U, P)
  BY Zenon DEF StreamInv, Framed
<1>5. /\ Unrolls(B, sent, Len(sent)) /\ \A k \in 0..Len(sent) : B[k] \in Seq(Octet)
      /\ Unrolls(G, got, L)
  BY <1>1, BytesUnroll, Zenon
<1>6. Bytes(got) = G[L] /\ Bytes(sent) = B[Len(sent)]
  BY Zenon DEF Bytes
<1> HIDE DEF B, G, L, P, U
<1>7. G[L] = B[L] /\ B[L] \in Seq(Octet)
  <2>1. Len(sent) \in Nat /\ L <= Len(sent) /\ L \in 0..L
    BY <1>1, SMTT(30)
  <2>2. \A k \in 0..L : G[k] = B[k]
    BY <1>1, <1>5, <2>1, UnrollsOnce
  <2> QED
    BY <1>1, <1>5, <2>1, <2>2, ZenonT(30)
<1> DEFINE S == {k \in 0..Len(P) : B[L + k] = B[L] \o SubSeq(U, 1, off[k])}
<1>8. 0 \in S
  <2>1. SubSeq(U, 1, off[0]) = <<>>
    BY <1>3, <1>4, SMTT(30) DEF Divides
  <2>2. B[L] \o <<>> = B[L]
    BY <1>7, SMTT(30)
  <2>3. L + 0 = L /\ 0 \in 0..Len(P)
    BY <1>1, <1>2
  <2>4. B[L + 0] = B[L]
    BY ONLY <2>3, Zenon
  <2>5. B[L] \o SubSeq(U, 1, off[0]) = B[L]
    BY ONLY <2>1, <2>2, Zenon
  <2> QED
    BY <2>3, <2>4, <2>5, ZenonT(30)
<1>9. ASSUME NEW k \in 1..Len(P), k - 1 \in S PROVE k \in S
  <2> DEFINE a == off[k-1]
             f == P[k]
             c == SubSeq(U, 1, a)
             e == encode_frame(f)
  <2>0. k \in 1..Len(P)
    BY Zenon
  <2>1. B[L + (k-1)] = B[L] \o c
    BY <1>9, Zenon
  <2> HIDE DEF S
  <2>2. /\ a \in Nat /\ off[k] = a + Size(f) /\ LiesAt(f, U, a) /\ off[k] \in 0..Len(U)
        /\ f \in Frames /\ f = sent[L + k] /\ a \in 0..Len(U)
    <3>1. k - 1 \in 0..Len(P) /\ k \in 0..Len(P) /\ \A x \in 0..Len(U) : x \in Nat
      BY <1>2, <1>3, <2>0
    <3>2. off \in [0..Len(P) -> 0..Len(U)] /\ off[k] = a + Size(f) /\ LiesAt(f, U, a)
      BY <1>4, <2>0, ZenonT(30) DEF Divides
    <3> QED
      BY <1>2, <2>0, <3>1, <3>2, ZenonT(30)
  <2>3. /\ L + k \in 0..Len(sent) /\ L + k # 0 /\ (L + k) - 1 = L + (k-1)
        /\ k \in 0..Len(P)
    BY <1>1, <1>2, <2>0
  <2>4. B[L + k] = B[L + (k-1)] \o e
    BY <1>5, <2>2, <2>3, Zenon DEF Unrolls
  <2>5. c \in Seq(Octet) /\ e \in Seq(Octet)
    <3>1. c \in Seq(Octet)
      BY <1>3, <2>2, SplitSeq, Zenon
    <3> QED
      BY <2>2, <3>1, Encoded, ZenonT(30)
  <2>6. c \o e = SubSeq(U, 1, off[k])
    <3>1. a + Size(f) <= Len(U)
      BY <2>2
    <3>2. SubSeq(U, 1, a) \o encode_frame(f) = SubSeq(U, 1, a + Size(f))
      BY <1>3, <2>2, <3>1, NextBytes, ZenonT(30)
    <3> QED
      BY <2>2, <3>2, ZenonT(30)
  <2> HIDE DEF c, e
  <2>7. (B[L] \o c) \o e = B[L] \o (c \o e)
    BY <1>7, <2>5, OctetsAssociate, Zenon
  <2> QED
    BY <2>1, <2>3, <2>4, <2>6, <2>7, ZenonT(30) DEF S
<1> HIDE DEF S
<1>10. 0..Len(P) \subseteq S
  BY <1>2, <1>8, <1>9, UpTo, Zenon
<1>11. B[Len(sent)] = B[L] \o U
  <2>1. Len(P) \in S /\ L + Len(P) = Len(sent)
    BY <1>1, <1>2, <1>10, SMTT(30)
  <2>2. off[Len(P)] = Len(U)
    BY <1>4, Zenon DEF Divides
  <2>3. SubSeq(U, 1, Len(U)) = U
    BY <1>3
  <2>4. B[L + Len(P)] = B[L] \o SubSeq(U, 1, off[Len(P)])
    BY <2>1, Zenon DEF S
  <2>5. B[Len(sent)] = B[L + Len(P)]
    BY ONLY <2>1, Zenon
  <2>6. SubSeq(U, 1, off[Len(P)]) = U
    BY ONLY <2>2, <2>3, Zenon
  <2> QED
    BY ONLY <2>4, <2>5, <2>6, ZenonT(30)
<1>12. ((B[L] \o recv_buf) \o sock) \o tosend = B[L] \o U
  <2>1. PICK b \in Seq(Octet), r \in Seq(Octet), s \in Seq(Octet), t \in Seq(Octet) :
           b = B[L] /\ r = recv_buf /\ s = sock /\ t = tosend
    BY <1>3, <1>7, Zenon
  <2>2. PICK w \in Seq(Octet), x \in Seq(Octet) : w = b \o r /\ x = s \o t
    BY ConcatElements, Zenon
  <2>3. w \in Seq(Octet) /\ s \in Seq(Octet) /\ t \in Seq(Octet)
    BY Zenon
  <2>4. b \in Seq(Octet) /\ r \in Seq(Octet) /\ x \in Seq(Octet)
    BY Zenon
  <2>5. (w \o s) \o t = w \o (s \o t)
    BY ONLY <2>3, OctetsAssociate, SMTT(60)
  <2>6. (b \o r) \o x = b \o (r \o x)
    BY ONLY <2>4, OctetsAssociate, SMTT(60)
  <2> QED
    BY <2>1, <2>2, <2>5, <2>6, ZenonT(30) DEF U, Unread
<1> QED
  BY <1>6, <1>7, <1>11, <1>12, ZenonT(30) DEF StreamIntact

\* However the stream is cut, no byte is lost, repeated or changed between
\* write_all of the server and _read_ctrl_frames of the worker.
THEOREM StreamStaysIntact == LaunchSpec => []StreamIntact
<1>1. DeliveryInv => StreamIntact
  BY StreamAddsUp, Zenon DEF DeliveryInv
<1> QED
  BY <1>1, DeliveryInvariant, PTL
=============================================================================
