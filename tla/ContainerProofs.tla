--------------------------- MODULE ContainerProofs ---------------------------
(***************************************************************************)
(* Proofs of the properties of Container, for any copies, texts, chunk     *)
(* size, keys and bounds.                                                  *)
(***************************************************************************)
EXTENDS Container, SequenceTheorems, TLAPS

-----------------------------------------------------------------------------
(***************************************************************************)
(* The inductive invariant                                                 *)
(***************************************************************************)

\* The headers and the frames of the containers in S.
HeadersOf(S) == {s.ctr.header : s \in S}
FramesOf(S) == UNION {{s.ctr.frames[i] : i \in 1..Len(s.ctr.frames)} : s \in S}

\* A header as seal() makes it, with one of the first n draws: its nonce prefix, and the key of
\* its name and its envelope.
Made(n, h) ==
    /\ h.np \in 1..n
    /\ h.ver \in Nat \ {0} /\ h.plen \in Nat
    /\ (h.ver = 1) = (h.prev = <<>>)
    /\ h.name = Encrypt(h.np, nonce(h.np, NAME_INDEX), "name", "report.docx")
    /\ h.env = <<Envelope(h.opub, h.np, h.fid)>>

\* Every container that was written is the sealing of a text, of which s.text is the part that
\* was measured.
Written(n, s) ==
    /\ Made(n, s.ctr.header)
    /\ \E t \in Text : /\ s.ctr.header.plen <= Len(t)
                       /\ s.ctr = SealSigned(s.ctr.header, s.ctr.header.np, t)
                       /\ s.text = SubSeq(t, 1, s.ctr.header.plen)
WrittenInv == \A s \in sealed : Written(drawn, s)

\* No two of them share a draw.
UniqueInv == \A s, t \in sealed : s.ctr.header.np = t.ctr.header.np => s = t

\* p is a version chain that ends in h, from first to last for one owner.
EndsIn(p, h) ==
    /\ verify_version_chain(p)
    /\ p[Len(p)] = h
    /\ p[1].opub = h.opub
Behind(S, p, h) == p \in Seq(HeadersOf(S)) /\ EndsIn(p, h)

\* Whatever happened to a copy, its header and its frames are some that were written.
Held(S, ctr, p) ==
    /\ ctr.header \in HeadersOf(S)
    /\ ctr.frames \in Seq(FramesOf(S))
    /\ Behind(S, p, ctr.header)
CopyInv == \A c \in Copy : disk[c] # None => Held(sealed, disk[c], hist[c])

\* A write under way is about to put a container that was written in place.
Waits(S, j) == \E s \in S : j.ctr = s.ctr /\ Behind(S, j.hist, s.ctr.header)
JobInv == \A c \in Copy : job[c] # None => Waits(sealed, job[c])

\* A key handed out is the one drawn for the version it was handed out for.
GrantInv == \A g \in grants : g.hash \in HeadersOf(sealed) /\ g.dek = g.hash.np

\* Without an accident every copy is one that was written.
SoundInv == damage = 0 => \A c \in Copy : disk[c] # None => Undamaged(c)

\* The keychain holds the key of the owner, and a backup that authenticates that of its owner.
KeyInv ==
    /\ mine \in OwnerKey
    /\ key # NoKey => key = mine
    /\ backup # None =>
          /\ backup \in [sealing : OwnerKey, authentic : BOOLEAN, of : OwnerKey]
          /\ backup.authentic => backup.sealing = backup.of

ShapeInv ==
    /\ disk = [c \in Copy |-> disk[c]]
    /\ job = [c \in Copy |-> job[c]]
    /\ hist = [c \in Copy |-> hist[c]]
    /\ drawn \in Nat /\ damage \in Nat

ContainerInv ==
    /\ ShapeInv /\ WrittenInv /\ UniqueInv /\ CopyInv /\ JobInv /\ GrantInv /\ SoundInv /\ KeyInv

-----------------------------------------------------------------------------
(***************************************************************************)
(* Chunks                                                                  *)
(***************************************************************************)

\* Quotient and remainder.
LEMMA DivFacts ==
    ASSUME NEW n \in Nat, NEW m \in Nat \ {0}
    PROVE  /\ n \div m \in Nat /\ n % m \in 0 .. (m - 1)
           /\ n = (n \div m) * m + (n % m)
<1>1. n \div m \in Nat /\ n % m \in 0 .. (m - 1)
  BY SMT
<1>2. n = m * (n \div m) + (n % m)
  BY SMT
<1> QED
  BY <1>1, <1>2, SMT

\* Multiples keep the order.
LEMMA TimesMonotone ==
    ASSUME NEW i \in Nat, NEW j \in Nat, NEW m \in Nat, i <= j PROVE i * m <= j * m
<1>1. PICK d \in Nat : j = i + d
  BY SMT
<1>2. j * m = i * m + d * m /\ d * m \in Nat
  BY <1>1, SMT
<1> QED
  BY <1>2, SMT

\* The chunks cover the text, and every chunk but the last is full.
LEMMA ChunkFacts ==
    ASSUME NEW plen \in Nat
    PROVE  LET total == chunk_count(plen) IN
           /\ total \in Nat \ {0}
           /\ (total - 1) * ChunkSize <= plen /\ plen <= (total - 1) * ChunkSize + ChunkSize
           /\ \A i \in 0 .. (total - 1) :
                 /\ i * ChunkSize \in Nat /\ i * ChunkSize <= plen
                 /\ ChunkLen(plen, i) \in Nat /\ i * ChunkSize + ChunkLen(plen, i) <= plen
                 /\ i < total - 1 => ChunkLen(plen, i) = ChunkSize
           /\ ChunkLen(plen, total - 1) = plen - (total - 1) * ChunkSize
<1> DEFINE total == chunk_count(plen)
<1>0. ChunkSize \in Nat \ {0}
  BY ChunkAssumption
<1>1. /\ total \in Nat \ {0}
      /\ (total - 1) * ChunkSize <= plen /\ plen <= (total - 1) * ChunkSize + ChunkSize
  <2>1. CASE plen = 0
    <3>1. total = 1
      BY <2>1 DEF chunk_count
    <3> QED
      BY <1>0, <2>1, <3>1
  <2>2. CASE plen # 0
    <3> DEFINE n == plen + ChunkSize - 1
    <3>1. total = n \div ChunkSize /\ n \in Nat
      BY <1>0, <2>2 DEF chunk_count
    <3> HIDE DEF n, total
    <3>2. /\ total \in Nat /\ n % ChunkSize \in 0 .. (ChunkSize - 1)
          /\ n = total * ChunkSize + (n % ChunkSize)
      BY <1>0, <3>1, DivFacts
    <3>3. total # 0
      BY <1>0, <2>2, <3>2 DEF n
    <3>4. (total - 1) * ChunkSize = total * ChunkSize - ChunkSize
      BY <1>0, <3>2
    <3>5. total * ChunkSize \in Nat
      BY <1>0, <3>2
    <3> QED
      BY <1>0, <2>2, <3>2, <3>3, <3>4, <3>5 DEF n
  <2> QED
    BY <2>1, <2>2
<1> HIDE DEF total
<1>2. ASSUME NEW i \in 0 .. (total - 1)
      PROVE  i * ChunkSize \in Nat /\ i * ChunkSize <= plen
             /\ (i < total - 1 => i * ChunkSize + ChunkSize <= plen)
  <2>1. i * ChunkSize \in Nat /\ (i + 1) * ChunkSize = i * ChunkSize + ChunkSize
    BY <1>0, <1>1
  <2>2. i * ChunkSize <= (total - 1) * ChunkSize
    BY <1>0, <1>1, TimesMonotone
  <2>3. i < total - 1 => (i + 1) * ChunkSize <= (total - 1) * ChunkSize
    BY <1>0, <1>1, TimesMonotone
  <2>4. (total - 1) * ChunkSize \in Nat
    BY <1>0, <1>1
  <2> QED
    BY <1>0, <1>1, <2>1, <2>2, <2>3, <2>4
<1>3. ASSUME NEW i \in 0 .. (total - 1)
      PROVE  ChunkLen(plen, i) \in Nat /\ i * ChunkSize + ChunkLen(plen, i) <= plen
             /\ (i < total - 1 => ChunkLen(plen, i) = ChunkSize)
  BY <1>0, <1>2 DEF ChunkLen
<1>4. ChunkLen(plen, total - 1) = plen - (total - 1) * ChunkSize
  <2>1. (total - 1) * ChunkSize \in Nat
    BY <1>0, <1>1
  <2> QED
    BY <1>0, <1>1, <2>1 DEF ChunkLen
<1> QED
  BY <1>1, <1>2, <1>3, <1>4 DEF total

\* A chunk is the stretch of the text it stands for.
LEMMA ChunkBytes ==
    ASSUME NEW t \in Seq(Nat), NEW plen \in Nat, plen <= Len(t), NEW i \in 0 .. (chunk_count(plen) - 1)
    PROVE  /\ Len(Chunk(t, plen, i)) = ChunkLen(plen, i)
           /\ \A r \in 1 .. ChunkLen(plen, i) : Chunk(t, plen, i)[r] = t[i * ChunkSize + r]
<1>1. /\ i * ChunkSize \in Nat /\ ChunkLen(plen, i) \in Nat
      /\ i * ChunkSize + ChunkLen(plen, i) <= plen
  BY ChunkFacts
<1> DEFINE a == i * ChunkSize + 1
           b == i * ChunkSize + ChunkLen(plen, i)
<1>2. a \in Int /\ b \in Int /\ b - a + 1 = ChunkLen(plen, i) /\ b <= Len(t) /\ a >= 1
  BY <1>1
<1>3. Chunk(t, plen, i) = SubSeq(t, a, b)
  BY DEF Chunk
<1>4. \A r \in 1 .. ChunkLen(plen, i) : a + r - 1 = i * ChunkSize + r
  BY <1>1
<1> HIDE DEF a, b
<1>5. \A j \in a .. b : t[j] \in Nat
  BY <1>2
<1>6. /\ Len(SubSeq(t, a, b)) = IF a <= b THEN b - a + 1 ELSE 0
      /\ \A r \in 1 .. (b - a + 1) : SubSeq(t, a, b)[r] = t[a + r - 1]
  BY <1>2, <1>5, SubSeqProperties
<1>7. Len(SubSeq(t, a, b)) = ChunkLen(plen, i)
  BY <1>1, <1>2, <1>6
<1> QED
  BY <1>2, <1>3, <1>4, <1>6, <1>7

\* A function on 1 .. n is a sequence of length n.
LEMMA FunctionIsSeq ==
    ASSUME NEW S, NEW n \in Nat, NEW f \in [1 .. n -> S] PROVE f \in Seq(S) /\ Len(f) = n
<1>1. f \in Seq(S)
  BY SeqDef
<1>2. Len(f) \in Nat /\ DOMAIN f = 1 .. Len(f)
  BY <1>1, LenProperties
<1> QED
  BY <1>1, <1>2

\* What seal_signed writes.
Sealing(ctr, h, dek, t) ==
    LET total == chunk_count(h.plen) IN
    /\ ctr = [header |-> h, intact |-> TRUE, frames |-> ctr.frames, trailer |-> ctr.trailer]
    /\ ctr.trailer = <<[hash |-> h, total |-> total, digest |-> ctr.frames]>>
    /\ Len(ctr.frames) = total /\ DOMAIN ctr.frames = 1 .. total /\ total \in Nat \ {0}
    /\ ctr.frames \in Seq({ctr.frames[i] : i \in 1 .. Len(ctr.frames)})
    /\ \A i \in 1 .. total :
          ctr.frames[i] = [dek |-> dek, nonce |-> <<h.np, i - 1>>, aad |-> <<h, i - 1, i = total>>,
                           msg |-> Chunk(t, h.plen, i - 1)]

\* seal_signed writes such a container.
LEMMA SealFacts ==
    ASSUME NEW h, NEW dek, NEW t, h.plen \in Nat
    PROVE  Sealing(SealSigned(h, dek, t), h, dek, t)
<1> DEFINE total == chunk_count(h.plen)
           ctr == SealSigned(h, dek, t)
           F == [i \in 1 .. total |->
                   [dek |-> dek, nonce |-> <<h.np, i - 1>>, aad |-> <<h, i - 1, i = total>>,
                    msg |-> Chunk(t, h.plen, i - 1)]]
           S == {F[i] : i \in 1 .. total}
<1>1. total \in Nat \ {0}
  BY ChunkFacts
<1>2. ctr = [header |-> h, intact |-> TRUE, frames |-> F,
             trailer |-> <<[hash |-> h, total |-> total, digest |-> F]>>]
  BY DEF SealSigned, HeaderHash, Encrypt, nonce, chunk_aad
<1> HIDE DEF total, ctr
<1>3. F \in [1 .. total -> S]
  OBVIOUS
<1>4. F \in Seq(S) /\ Len(F) = total
  <2> HIDE DEF F, S
  <2> QED
    BY <1>1, <1>3, FunctionIsSeq
<1>5. ctr.frames = F /\ ctr.trailer = <<[hash |-> h, total |-> total, digest |-> F]>>
  BY <1>2
<1>6. \A i \in 1 .. total : F[i] = [dek |-> dek, nonce |-> <<h.np, i - 1>>,
                                      aad |-> <<h, i - 1, i = total>>, msg |-> Chunk(t, h.plen, i - 1)]
  OBVIOUS
<1>7. S = {F[i] : i \in 1 .. Len(F)}
  BY <1>4
<1> HIDE DEF F, S
<1>8. DOMAIN F = 1 .. total
  BY <1>3
<1> QED
  BY <1>1, <1>2, <1>4, <1>5, <1>6, <1>7, <1>8 DEF Sealing, ctr, total

\* The key of a container opens it.
LEMMA SealedOpens ==
    ASSUME NEW h, NEW n, Made(n, h), NEW t \in Seq(Nat), h.plen <= Len(t), SealSigned(h, h.np, t) # None
    PROVE  OpensWithDek(SealSigned(h, h.np, t), h.np)
<1> DEFINE total == chunk_count(h.plen)
           ctr == SealSigned(h, h.np, t)
<1>0. h.plen \in Nat /\ h.ver \in Nat \ {0} /\ (h.ver = 1) = (h.prev = <<>>)
      /\ h.env = <<Envelope(h.opub, h.np, h.fid)>>
  BY DEF Made
<1>a. Sealing(ctr, h, h.np, t)
  BY <1>0, SealFacts
<1>3. ctr # None
  OBVIOUS
<1> HIDE DEF ctr
<1>1. /\ ctr = [header |-> h, intact |-> TRUE, frames |-> ctr.frames, trailer |-> ctr.trailer]
      /\ ctr.trailer = <<[hash |-> h, total |-> total, digest |-> ctr.frames]>>
      /\ Len(ctr.frames) = total /\ total \in Nat \ {0}
      /\ \A i \in 1 .. total :
            ctr.frames[i] = [dek |-> h.np, nonce |-> <<h.np, i - 1>>, aad |-> <<h, i - 1, i = total>>,
                             msg |-> Chunk(t, h.plen, i - 1)]
  BY <1>a DEF Sealing
<1>2. \A i \in 1 .. total : Len(Chunk(t, h.plen, i - 1)) = ChunkLen(h.plen, i - 1)
  <2> SUFFICES ASSUME NEW i \in 1 .. total PROVE Len(Chunk(t, h.plen, i - 1)) = ChunkLen(h.plen, i - 1)
    OBVIOUS
  <2>1. i - 1 \in 0 .. (total - 1)
    BY <1>1
  <2> QED
    BY <1>0, <2>1, ChunkBytes
<1> HIDE DEF total
<1>4. ctr.header = h /\ ctr.intact
  BY <1>1
<1>5. Readable(ctr)
  <2>1. Len(h.env) = 1
    BY <1>0
  <2>2. h.ver >= 1 /\ Len(h.env) > 0
    BY <1>0, <2>1
  <2>3. validate_header(h)
    BY <1>0, <2>2, Zenon DEF validate_header
  <2> QED
    BY <1>3, <1>4, <2>3 DEF Readable
<1>6. decrypt_name(h, h.np)
  BY DEF Made, decrypt_name, Decrypts, Encrypt
<1>7. ASSUME NEW i \in 1 .. total
      PROVE  /\ Len(ctr.frames[i].msg) = ChunkLen(h.plen, i - 1)
             /\ Decrypts(ctr.frames[i], h.np, nonce(h.np, i - 1), chunk_aad(h, i - 1, i = total))
  <2> DEFINE f == ctr.frames[i]
  <2>1. f = [dek |-> h.np, nonce |-> <<h.np, i - 1>>, aad |-> <<h, i - 1, i = total>>,
             msg |-> Chunk(t, h.plen, i - 1)]
    BY <1>1
  <2> HIDE DEF f
  <2>2. f.dek = h.np /\ f.nonce = <<h.np, i - 1>> /\ f.aad = <<h, i - 1, i = total>>
        /\ f.msg = Chunk(t, h.plen, i - 1)
    BY <2>1
  <2>3. Len(f.msg) = ChunkLen(h.plen, i - 1)
    BY <1>2, <2>2
  <2> QED
    BY <2>2, <2>3 DEF f, Decrypts, nonce, chunk_aad
<1>8. OpensWithDek(ctr, h.np)
  BY <1>1, <1>4, <1>5, <1>6, <1>7 DEF OpensWithDek, HeaderHash, total
<1> QED
  BY <1>8 DEF ctr

\* Its chunks, one after the other, are the text that was measured.
LEMMA SealedPlain ==
    ASSUME NEW h, h.plen \in Nat, NEW dek, NEW t \in Seq(Nat), h.plen <= Len(t)
    PROVE  Plain(SealSigned(h, dek, t)) = SubSeq(t, 1, h.plen)
<1> DEFINE plen == h.plen
           total == chunk_count(plen)
           ctr == SealSigned(h, dek, t)
           F == ctr.frames
<1>0. ChunkSize \in Nat \ {0} /\ plen \in Nat
  BY ChunkAssumption
<1>1. /\ Len(F) = total /\ total \in Nat \ {0}
      /\ \A i \in 1 .. total : F[i].msg = Chunk(t, plen, i - 1)
  <2>1. Sealing(ctr, h, dek, t)
    BY SealFacts
  <2> HIDE DEF ctr
  <2>2. /\ Len(F) = total /\ total \in Nat \ {0}
        /\ \A i \in 1 .. total : F[i] = [dek |-> dek, nonce |-> <<h.np, i - 1>>,
                                        aad |-> <<h, i - 1, i = total>>, msg |-> Chunk(t, plen, i - 1)]
    BY <2>1 DEF Sealing
  <2> HIDE DEF F, total, plen
  <2>3. ASSUME NEW i \in 1 .. total PROVE F[i].msg = Chunk(t, plen, i - 1)
    <3> DEFINE f == F[i]
    <3>1. f = [dek |-> dek, nonce |-> <<h.np, i - 1>>, aad |-> <<h, i - 1, i = total>>,
               msg |-> Chunk(t, plen, i - 1)]
      BY <2>2
    <3> HIDE DEF f
    <3>2. f.msg = Chunk(t, plen, i - 1)
      BY <3>1
    <3> QED
      BY <3>2 DEF f
  <2> QED
    BY <2>2, <2>3
<1>2. /\ (total - 1) * ChunkSize \in Nat /\ plen <= (total - 1) * ChunkSize + ChunkSize
      /\ ChunkLen(plen, total - 1) = plen - (total - 1) * ChunkSize
  <2>1. /\ plen <= (total - 1) * ChunkSize + ChunkSize
        /\ ChunkLen(plen, total - 1) = plen - (total - 1) * ChunkSize
    BY ChunkFacts
  <2> HIDE DEF total
  <2> QED
    BY <1>0, <1>1, <2>1
<1> HIDE DEF F, total
<1>3. (total - 1) * ChunkSize + Len(F[total].msg) = plen
  <2>1. total - 1 \in 0 .. (total - 1) /\ F[total].msg = Chunk(t, plen, total - 1)
    BY <1>1
  <2>2. Len(Chunk(t, plen, total - 1)) = ChunkLen(plen, total - 1)
    BY <1>0, <2>1, ChunkBytes DEF total
  <2> QED
    BY <1>0, <1>2, <2>1, <2>2
<1>4. ASSUME NEW k \in 1 .. plen
      PROVE  F[(k - 1) \div ChunkSize + 1].msg[((k - 1) % ChunkSize) + 1] = t[k]
  <2> DEFINE q == (k - 1) \div ChunkSize
             r == (k - 1) % ChunkSize
  <2>1. k - 1 \in Nat
    BY <1>0
  <2>2. q \in Nat /\ r \in 0 .. (ChunkSize - 1) /\ k - 1 = q * ChunkSize + r
    BY <1>0, <2>1, DivFacts
  <2> HIDE DEF q, r
  <2>3. q * ChunkSize \in Nat
    BY <1>0, <2>2
  <2>4. q <= total - 1
    <3> SUFFICES ASSUME q > total - 1 PROVE FALSE
      BY <1>1, <2>2
    <3>1. total * ChunkSize <= q * ChunkSize
      BY <1>0, <1>1, <2>2, TimesMonotone
    <3>2. total * ChunkSize = (total - 1) * ChunkSize + ChunkSize
      BY <1>0, <1>1
    <3> QED
      BY <1>0, <1>2, <2>2, <2>3, <3>1, <3>2
  <2>5. q \in 0 .. (total - 1) /\ q + 1 \in 1 .. total
    BY <1>1, <2>2, <2>4
  <2>6. ChunkLen(plen, q) \in Nat /\ (q < total - 1 => ChunkLen(plen, q) = ChunkSize)
    BY <1>0, <2>5, ChunkFacts DEF total
  <2>7. r + 1 \in 1 .. ChunkLen(plen, q)
    <3>1. CASE q < total - 1
      BY <1>0, <2>2, <2>6, <3>1
    <3>2. CASE q = total - 1
      <4> DEFINE z == q * ChunkSize
                 len == ChunkLen(plen, q)
      <4>1. z \in Nat /\ k - 1 = z + r /\ len = plen - z
        BY <1>2, <2>2, <2>3, <3>2
      <4> HIDE DEF z, len
      <4>2. r + 1 \in 1 .. len
        BY <1>0, <2>2, <4>1
      <4> QED
        BY <4>2 DEF len
    <3> QED
      BY <1>1, <2>2, <2>4, <3>1, <3>2
  <2>8. Chunk(t, plen, q)[r + 1] = t[q * ChunkSize + (r + 1)]
    BY <1>0, <2>5, <2>7, ChunkBytes DEF total
  <2>9. F[q + 1].msg = Chunk(t, plen, q)
    <3>1. F[q + 1].msg = Chunk(t, plen, (q + 1) - 1) /\ (q + 1) - 1 = q
      BY <1>1, <2>2, <2>5
    <3> QED
      BY <3>1
  <2>10. q * ChunkSize + (r + 1) = k
    <3> DEFINE z == q * ChunkSize
    <3>1. z \in Nat /\ k - 1 = z + r
      BY <2>2, <2>3
    <3> HIDE DEF z
    <3>2. z + (r + 1) = k
      BY <1>0, <2>2, <3>1
    <3> QED
      BY <3>2 DEF z
  <2> QED
    BY <2>8, <2>9, <2>10 DEF q, r
<1>5. Plain(SealSigned(h, dek, t)) = [k \in 1 .. plen |-> t[k]]
  <2>1. Plain(SealSigned(h, dek, t)) =
          [k \in 1 .. ((total - 1) * ChunkSize + Len(F[total].msg)) |->
              F[(k - 1) \div ChunkSize + 1].msg[((k - 1) % ChunkSize) + 1]]
    BY <1>1 DEF Plain, F, ctr
  <2> QED
    BY <1>3, <1>4, <2>1
<1>6. SubSeq(t, 1, plen) = [k \in 1 .. plen |-> t[k]]
  <2>1. plen \in 0 .. Len(t)
    BY <1>0
  <2> QED
    BY <2>1, SubSeqRestrict DEF Restrict
<1> QED
  BY <1>5, <1>6

-----------------------------------------------------------------------------
(***************************************************************************)
(* Version chains                                                          *)
(***************************************************************************)

\* What was written stays behind the copies when more is written.
LEMMA Growth ==
    ASSUME NEW S, NEW T, S \subseteq T
    PROVE  /\ HeadersOf(S) \subseteq HeadersOf(T)
           /\ \A p, h : Behind(S, p, h) => Behind(T, p, h)
           /\ \A ctr, p : Held(S, ctr, p) => Held(T, ctr, p)
           /\ \A j : Waits(S, j) => Waits(T, j)
<1>1. HeadersOf(S) \subseteq HeadersOf(T)
  BY DEF HeadersOf
<1>2. FramesOf(S) \subseteq FramesOf(T)
  BY DEF FramesOf
<1>3. Seq(HeadersOf(S)) \subseteq Seq(HeadersOf(T)) /\ Seq(FramesOf(S)) \subseteq Seq(FramesOf(T))
  <2> DEFINE A == HeadersOf(S)
             B == HeadersOf(T)
             C == FramesOf(S)
             D == FramesOf(T)
  <2>1. A \subseteq B /\ C \subseteq D
    BY <1>1, <1>2
  <2> HIDE DEF A, B, C, D
  <2>2. \A x \in Seq(A) : x \in Seq(B)
    BY <2>1
  <2>3. \A x \in Seq(C) : x \in Seq(D)
    BY <2>1
  <2> QED
    BY <2>2, <2>3 DEF A, B, C, D
<1>4. \A p, h : Behind(S, p, h) => Behind(T, p, h)
  BY <1>3 DEF Behind
<1>5. \A ctr, p : Held(S, ctr, p) => Held(T, ctr, p)
  BY <1>1, <1>3, <1>4 DEF Held
<1>6. \A j : Waits(S, j) => Waits(T, j)
  BY <1>4 DEF Waits
<1> QED
  BY <1>1, <1>4, <1>5, <1>6

\* A first version starts a chain.
LEMMA FirstVersion ==
    ASSUME NEW h, h.ver = 1, h.prev = <<>>
    PROVE  EndsIn(<<h>>, h)
<1>1. Len(<<h>>) = 1 /\ <<h>>[1] = h /\ <<h>> # <<>>
  OBVIOUS
<1>2. verify_version_chain(<<h>>)
  BY <1>1 DEF verify_version_chain
<1> QED
  BY <1>1, <1>2 DEF EndsIn

\* The version after the last one lengthens it.
LEMMA NextVersion ==
    ASSUME NEW H, NEW p \in Seq(H), NEW g, EndsIn(p, g), NEW h,
           h.ver = g.ver + 1, h.prev = <<g>>, h.fid = g.fid, h.opub = g.opub
    PROVE  EndsIn(Append(p, h), h)
<1> DEFINE q == Append(p, h)
           n == Len(p)
<1>1. /\ p # <<>> /\ p[1].ver = 1 /\ p[1].prev = <<>> /\ p[n] = g /\ p[1].opub = g.opub
      /\ \A i \in 2..n : p[i].ver = p[i - 1].ver + 1 /\ p[i].prev = <<p[i - 1]>> /\ p[i].fid = p[i - 1].fid
  BY DEF EndsIn, verify_version_chain, HeaderHash
<1>2. n \in Nat \ {0}
  BY <1>1
<1>3. Len(q) = n + 1 /\ q[n + 1] = h /\ q # <<>> /\ \A i \in 1..n : q[i] = p[i]
  OBVIOUS
<1> HIDE DEF q, n
<1>4. q[1] = p[1]
  BY <1>2, <1>3
<1>5. ASSUME NEW i \in 2..Len(q)
      PROVE  q[i].ver = q[i - 1].ver + 1 /\ q[i].prev = <<q[i - 1]>> /\ q[i].fid = q[i - 1].fid
  <2>1. CASE i \in 2..n
    <3>1. q[i] = p[i] /\ q[i - 1] = p[i - 1]
      <4>1. i \in 1..n /\ i - 1 \in 1..n
        BY <1>2, <2>1
      <4> QED
        BY <1>3, <4>1
    <3> QED
      BY <1>1, <2>1, <3>1
  <2>2. CASE i = n + 1
    <3>1. i - 1 = n /\ n \in 1..n
      BY <1>2, <2>2
    <3>2. q[i] = h /\ q[i - 1] = g
      BY <1>1, <1>3, <2>2, <3>1
    <3> QED
      BY <3>2
  <2> QED
    BY <1>2, <1>3, <2>1, <2>2
<1>6. verify_version_chain(q)
  BY <1>1, <1>3, <1>4, <1>5 DEF verify_version_chain, HeaderHash
<1>7. q[Len(q)] = h /\ q[1].opub = h.opub
  BY <1>1, <1>3, <1>4
<1> QED
  BY <1>6, <1>7 DEF EndsIn, q

-----------------------------------------------------------------------------
(***************************************************************************)
(* The steps                                                               *)
(***************************************************************************)

\* What a container that was written holds.
LEMMA WrittenFacts ==
    ASSUME WrittenInv, NEW s \in sealed
    PROVE  /\ Made(drawn, s.ctr.header)
           /\ \E t \in Text : /\ t \in Seq(Nat)
                              /\ s.ctr.header.plen <= Len(t)
                              /\ Sealing(s.ctr, s.ctr.header, s.ctr.header.np, t)
                              /\ s.ctr = SealSigned(s.ctr.header, s.ctr.header.np, t)
                              /\ s.text = SubSeq(t, 1, s.ctr.header.plen)
           /\ s.ctr.header \in HeadersOf(sealed)
           /\ s.ctr.frames \in Seq(FramesOf(sealed)) /\ Len(s.ctr.frames) > 0
<1> DEFINE h == s.ctr.header
<1>1. Written(drawn, s)
  BY DEF WrittenInv
<1>2. Made(drawn, h) /\ h.plen \in Nat
  BY <1>1 DEF Written, Made
<1>3. PICK t \in Text : h.plen <= Len(t) /\ s.ctr = SealSigned(h, h.np, t) /\ s.text = SubSeq(t, 1, h.plen)
  BY <1>1 DEF Written
<1>4. t \in Seq(Nat)
  BY TextAssumption
<1>5. Sealing(s.ctr, h, h.np, t)
  <2>1. Sealing(SealSigned(h, h.np, t), h, h.np, t)
    BY <1>2, SealFacts
  <2> QED
    BY <1>3, <2>1
<1>6. h \in HeadersOf(sealed)
  BY DEF HeadersOf
<1>7. s.ctr.frames \in Seq(FramesOf(sealed)) /\ Len(s.ctr.frames) > 0
  <2> DEFINE A == {s.ctr.frames[i] : i \in 1 .. Len(s.ctr.frames)}
             B == FramesOf(sealed)
             f == s.ctr.frames
  <2>1. f \in Seq(A) /\ Len(f) \in Nat \ {0}
    BY <1>5 DEF Sealing
  <2>2. A \subseteq B
    BY DEF FramesOf
  <2> HIDE DEF A, B, f
  <2>3. f \in Seq(B) /\ Len(f) > 0
    BY <2>1, <2>2
  <2> QED
    BY <2>3 DEF f, B
<1> QED
  BY <1>2, <1>3, <1>4, <1>5, <1>6, <1>7

\* What seal() puts into a header after a version that was written, or as the first one.
LEMMA HeaderFacts ==
    ASSUME NEW owner_pk, NEW signer, NEW prev, NEW plen \in Nat, NEW n \in Nat \ {0},
           prev.ver \in Nat, (prev.ver = 0) = (prev.hash = <<>>)
    PROVE  LET h == SealHeader(owner_pk, signer, prev, plen, n, n) IN
           /\ Made(n, h) /\ h.np = n /\ h.plen = plen
           /\ h.ver = prev.ver + 1 /\ h.prev = prev.hash /\ h.opub = owner_pk
           /\ prev.hash # <<>> => h.fid = prev.fid
<1> DEFINE h == SealHeader(owner_pk, signer, prev, plen, n, n)
<1>1. /\ h.np = n /\ h.plen = plen /\ h.ver = prev.ver + 1 /\ h.prev = prev.hash /\ h.opub = owner_pk
      /\ h.name = Encrypt(n, nonce(n, NAME_INDEX), "name", "report.docx")
      /\ h.env = <<Envelope(owner_pk, n, h.fid)>>
      /\ h.fid = IF prev.hash = <<>> THEN n ELSE prev.fid
  BY DEF SealHeader
<1> HIDE DEF h
<1>2. (h.ver = 1) = (prev.ver = 0) /\ h.ver \in Nat \ {0} /\ n \in 1..n
  BY <1>1
<1>3. Made(n, h)
  BY <1>1, <1>2, Zenon DEF Made
<1> QED
  BY <1>1, <1>3 DEF h

\* What a next version may be made from: nothing, or a version that was written, for its owner.
After(S, owner_pk, prev, past) ==
    \/ prev = NoVersion /\ past = <<>>
    \/ \E g \in HeadersOf(S) : prev = PrevVersion(g) /\ Behind(S, past, g) /\ owner_pk = g.opub

\* Version numbers start at 1, and only the first version follows none.
LEMMA AfterFacts ==
    ASSUME WrittenInv, NEW owner_pk, NEW prev, NEW past, After(sealed, owner_pk, prev, past)
    PROVE  prev.ver \in Nat /\ (prev.ver = 0) = (prev.hash = <<>>)
<1>1. CASE prev = NoVersion
  BY <1>1 DEF NoVersion
<1>2. CASE \E g \in HeadersOf(sealed) : prev = PrevVersion(g)
  <2>1. PICK s \in sealed : prev = PrevVersion(s.ctr.header)
    BY <1>2 DEF HeadersOf
  <2>2. Made(drawn, s.ctr.header)
    BY WrittenFacts
  <2>3. prev.ver = s.ctr.header.ver /\ prev.hash = <<s.ctr.header>>
    BY <2>1 DEF PrevVersion, HeaderHash
  <2>4. s.ctr.header.ver \in Nat \ {0}
    BY <2>2 DEF Made
  <2>5. prev.ver \in Nat /\ prev.ver # 0 /\ prev.hash # <<>>
    BY <2>3, <2>4
  <2> QED
    BY <2>5
<1> QED
  BY <1>1, <1>2 DEF After

\* Writing a version keeps the invariant.
LEMMA StartWriteStep ==
    ASSUME ContainerInv, NEW c \in Copy, NEW owner_pk, NEW signer, NEW prev, NEW before \in Text,
           NEW after \in Text, NEW past, After(sealed, owner_pk, prev, past),
           StartWrite(c, owner_pk, signer, prev, before, after, past)
    PROVE  ContainerInv'
<1> DEFINE n == drawn + 1
           h == SealHeader(owner_pk, signer, prev, Len(before), n, n)
           ctr == SealSigned(h, n, after)
           new == [ctr |-> ctr, text |-> SubSeq(after, 1, Len(before))]
           past2 == Append(past, h)
<1>0. drawn \in Nat /\ before \in Seq(Nat) /\ after \in Seq(Nat)
  BY TextAssumption DEF ContainerInv, ShapeInv
<1>1. /\ Len(after) >= Len(before)
      /\ job' = [job EXCEPT ![c] = [ctr |-> ctr, hist |-> past2]]
      /\ sealed' = sealed \cup {new} /\ drawn' = n
      /\ UNCHANGED <<disk, hist, key, backup, grants, mine, damage>>
  BY DEF StartWrite, DekGenerate, WriteTmp
<1>2. n \in Nat \ {0} /\ Len(before) \in Nat /\ Len(before) <= Len(after)
  BY <1>0, <1>1
<1>3. prev.ver \in Nat /\ (prev.ver = 0) = (prev.hash = <<>>)
  BY AfterFacts DEF ContainerInv
<1> HIDE DEF n
<1>4. /\ Made(n, h) /\ h.np = n /\ h.plen = Len(before)
      /\ h.ver = prev.ver + 1 /\ h.prev = prev.hash /\ h.opub = owner_pk
      /\ prev.hash # <<>> => h.fid = prev.fid
  BY <1>2, <1>3, HeaderFacts
<1> HIDE DEF h
<1>5. Sealing(ctr, h, n, after)
  BY <1>2, <1>4, SealFacts
<1>6. ctr.header = h
  BY <1>5 DEF Sealing
<1>7. Written(n, new)
  <2>1. new.ctr = ctr /\ new.text = SubSeq(after, 1, Len(before))
    OBVIOUS
  <2>2. new.ctr = SealSigned(h, h.np, after)
    BY <1>4, <2>1
  <2> HIDE DEF ctr, new
  <2>3. new.ctr.header = h
    BY <1>6, <2>1
  <2> QED
    BY <1>2, <1>4, <2>1, <2>2, <2>3 DEF Written
<1>8. new.ctr = ctr /\ new \in sealed'
  BY <1>1
<1> HIDE DEF new, ctr
<1>9. /\ HeadersOf(sealed) \subseteq HeadersOf(sealed')
      /\ \A p, g : Behind(sealed, p, g) => Behind(sealed', p, g)
      /\ \A x, p : Held(sealed, x, p) => Held(sealed', x, p)
      /\ \A j : Waits(sealed, j) => Waits(sealed', j)
  <2>1. sealed \subseteq sealed'
    BY <1>1
  <2> QED
    BY <2>1, Growth
<1>10. WrittenInv'
  <2> SUFFICES ASSUME NEW s \in sealed' PROVE Written(n, s)
    BY <1>1 DEF WrittenInv
  <2>1. CASE s \in sealed
    <3>1. Written(drawn, s)
      BY <2>1 DEF ContainerInv, WrittenInv
    <3>2. 1..drawn \subseteq 1..n
      BY <1>0 DEF n
    <3> QED
      BY <3>1, <3>2 DEF Written, Made
  <2> QED
    BY <1>1, <1>7, <2>1
<1>11. UniqueInv'
  <2>1. ASSUME NEW s \in sealed PROVE s.ctr.header.np # n
    <3>1. s.ctr.header.np \in 1..drawn
      BY DEF ContainerInv, WrittenInv, Written, Made
    <3> QED
      BY <1>0, <3>1 DEF n
  <2>2. new.ctr.header.np = n
    BY <1>4, <1>6, <1>8
  <2> QED
    BY <1>1, <2>1, <2>2 DEF ContainerInv, UniqueInv
<1>12. Behind(sealed', past2, h)
  <2>1. h \in HeadersOf(sealed')
    BY <1>6, <1>8 DEF HeadersOf
  <2>2. CASE prev = NoVersion /\ past = <<>>
    <3>1. past2 = <<h>>
      BY <2>2
    <3>2. h.ver = 1 /\ h.prev = <<>>
      BY <1>4, <2>2 DEF NoVersion
    <3>3. EndsIn(past2, h)
      BY <3>1, <3>2, FirstVersion
    <3> HIDE DEF past2
    <3>4. past2 \in Seq(HeadersOf(sealed'))
      BY <2>1, <3>1
    <3> QED
      BY <3>3, <3>4 DEF Behind
  <2>3. ASSUME NEW g \in HeadersOf(sealed), prev = PrevVersion(g), Behind(sealed, past, g), owner_pk = g.opub
        PROVE  Behind(sealed', past2, h)
    <3>1. past \in Seq(HeadersOf(sealed')) /\ EndsIn(past, g)
      BY <1>9, <2>3 DEF Behind
    <3>2. prev.ver = g.ver /\ prev.hash = <<g>> /\ prev.fid = g.fid /\ prev.hash # <<>>
      BY <2>3 DEF PrevVersion, HeaderHash
    <3>3. h.ver = g.ver + 1 /\ h.prev = <<g>> /\ h.fid = g.fid /\ h.opub = g.opub
      BY <1>4, <2>3, <3>2
    <3>4. EndsIn(past2, h)
      BY <3>1, <3>3, NextVersion
    <3>5. past2 \in Seq(HeadersOf(sealed'))
      BY <2>1, <3>1
    <3> QED
      BY <3>4, <3>5 DEF Behind
  <2> QED
    BY <2>2, <2>3 DEF After
<1> HIDE DEF past2
<1>13. JobInv'
  <2> SUFFICES ASSUME NEW e \in Copy, job'[e] # None PROVE Waits(sealed', job'[e])
    BY DEF JobInv
  <2>1. CASE e = c
    <3>1. job'[e] = [ctr |-> ctr, hist |-> past2]
      BY <1>1, <2>1 DEF ContainerInv, ShapeInv
    <3>2. job'[e].ctr = new.ctr /\ job'[e].hist = past2
      BY <1>8, <3>1
    <3> QED
      BY <1>6, <1>8, <1>12, <3>2 DEF Waits
  <2>2. CASE e # c
    <3>1. job'[e] = job[e]
      BY <1>1, <2>2 DEF ContainerInv, ShapeInv
    <3>2. Waits(sealed, job[e])
      BY <3>1 DEF ContainerInv, JobInv
    <3> QED
      BY <1>9, <3>1, <3>2
  <2> QED
    BY <2>1, <2>2
<1>14. CopyInv'
  BY <1>1, <1>9 DEF ContainerInv, CopyInv
<1>15. GrantInv'
  BY <1>1, <1>9 DEF ContainerInv, GrantInv
<1>16. SoundInv'
  BY <1>1 DEF ContainerInv, SoundInv, Undamaged
<1>17. ShapeInv' /\ KeyInv'
  BY <1>0, <1>1, <1>2 DEF ContainerInv, ShapeInv, KeyInv
<1> QED
  BY <1>10, <1>11, <1>13, <1>14, <1>15, <1>16, <1>17 DEF ContainerInv

\* A readable copy: its header was written, with what belongs behind it.
LEMMA ReadableCopy ==
    ASSUME ContainerInv, NEW c \in Copy, Readable(disk[c])
    PROVE  /\ disk[c].header \in HeadersOf(sealed)
           /\ Behind(sealed, hist[c], disk[c].header)
           /\ \A k : \A dek \in DeksFor(disk[c].header, k) :
                 k = disk[c].header.opub /\ dek = disk[c].header.np
<1>1. Held(sealed, disk[c], hist[c])
  BY DEF Readable, ContainerInv, CopyInv
<1>2. PICK s \in sealed : disk[c].header = s.ctr.header
  BY <1>1 DEF Held, HeadersOf
<1> DEFINE h == disk[c].header
<1>3. h.env = <<Envelope(h.opub, h.np, h.fid)>>
  <2>1. Made(drawn, h)
    BY <1>2, WrittenFacts DEF ContainerInv
  <2> QED
    BY <2>1 DEF Made
<1>4. ASSUME NEW k, NEW dek \in DeksFor(h, k) PROVE k = h.opub /\ dek = h.np
  <2> HIDE DEF h
  <2>1. PICK i \in 1..Len(h.env) : EnvelopeOpens(h.env[i], k, h.fid) /\ dek = h.env[i].dek
    BY DEF DeksFor
  <2>2. i = 1 /\ h.env[1] = Envelope(h.opub, h.np, h.fid)
    BY <1>3, <2>1
  <2> QED
    BY <2>1, <2>2 DEF EnvelopeOpens, Envelope
<1> QED
  BY <1>1, <1>4 DEF Held

\* Locking starts a chain, for the key at hand.
LEMMA LockStep ==
    ASSUME ContainerInv, NEW c \in Copy, NEW before \in Text, NEW after \in Text, Lock(c, before, after)
    PROVE  ContainerInv'
<1>1. StartWrite(c, key, "owner", NoVersion, before, after, <<>>)
  BY DEF Lock
<1>2. After(sealed, key, NoVersion, <<>>)
  BY DEF After
<1> QED
  BY <1>1, <1>2, StartWriteStep

\* The owner lengthens the chain: an envelope that opens was made for the key at hand.
LEMMA OwnerResealsStep ==
    ASSUME ContainerInv, NEW c \in Copy, NEW before \in Text, NEW after \in Text,
           OwnerReseals(c, before, after)
    PROVE  ContainerInv'
<1> DEFINE h == disk[c].header
<1>1. PICK dek \in DeksFor(h, key) :
         StartWrite(c, key, "owner", PrevVersion(h), before, after, hist[c])
  BY DEF OwnerReseals
<1>2. Readable(disk[c])
  BY DEF OwnerReseals
<1>3. After(sealed, key, PrevVersion(h), hist[c])
  BY <1>1, <1>2, ReadableCopy DEF After
<1> QED
  BY <1>1, <1>3, StartWriteStep

\* A recipient lengthens it for the key the previous header names.
LEMMA RecipientResealsStep ==
    ASSUME ContainerInv, NEW c \in Copy, NEW before \in Text, NEW after \in Text,
           RecipientReseals(c, before, after)
    PROVE  ContainerInv'
<1> DEFINE h == disk[c].header
<1>1. StartWrite(c, h.opub, "device", PrevVersion(h), before, after, hist[c])
  BY DEF RecipientReseals
<1>2. Readable(disk[c])
  BY DEF RecipientReseals
<1>3. After(sealed, h.opub, PrevVersion(h), hist[c])
  BY <1>2, ReadableCopy DEF After
<1> QED
  BY <1>1, <1>3, StartWriteStep

\* A step that writes no new version leaves what was written alone.
LEMMA QuietStep ==
    ASSUME ContainerInv, UNCHANGED <<sealed, drawn>>
    PROVE  WrittenInv' /\ UniqueInv'
BY DEF ContainerInv, WrittenInv, UniqueInv

\* The rename puts a whole container, and the chain behind it, in place of the copy.
LEMMA RenameStep ==
    ASSUME ContainerInv, NEW c \in Copy, Rename(c)
    PROVE  ContainerInv'
<1>1. /\ job[c] # None
      /\ disk' = [disk EXCEPT ![c] = job[c].ctr] /\ hist' = [hist EXCEPT ![c] = job[c].hist]
      /\ job' = [job EXCEPT ![c] = None]
      /\ UNCHANGED <<key, backup, grants, sealed, mine, drawn, damage>>
  BY DEF Rename
<1>2. WrittenInv' /\ UniqueInv'
  BY <1>1, QuietStep
<1>3. PICK s \in sealed : job[c].ctr = s.ctr /\ Behind(sealed, job[c].hist, s.ctr.header)
  BY <1>1 DEF ContainerInv, JobInv, Waits
<1>4. disk'[c] = s.ctr /\ hist'[c] = job[c].hist
  BY <1>1, <1>3 DEF ContainerInv, ShapeInv
<1>5. \A e \in Copy \ {c} : disk'[e] = disk[e] /\ hist'[e] = hist[e]
  BY <1>1 DEF ContainerInv, ShapeInv
<1>6. Held(sealed, disk'[c], hist'[c])
  BY <1>3, <1>4, WrittenFacts DEF ContainerInv, Held
<1>7. CopyInv'
  BY <1>1, <1>5, <1>6 DEF ContainerInv, CopyInv
<1>8. JobInv'
  BY <1>1 DEF ContainerInv, JobInv, ShapeInv
<1>9. SoundInv'
  <2> SUFFICES ASSUME damage = 0, NEW e \in Copy, disk'[e] # None PROVE \E w \in sealed : w.ctr = disk'[e]
    BY <1>1 DEF SoundInv, Undamaged
  <2> QED
    BY <1>4, <1>5 DEF ContainerInv, SoundInv, Undamaged
<1>10. GrantInv' /\ KeyInv' /\ ShapeInv'
  BY <1>1 DEF ContainerInv, GrantInv, KeyInv, ShapeInv
<1> QED
  BY <1>2, <1>7, <1>8, <1>9, <1>10 DEF ContainerInv

\* A write cut short leaves the copy alone.
LEMMA AbandonStep ==
    ASSUME ContainerInv, NEW c \in Copy, Abandon(c)
    PROVE  ContainerInv'
<1>1. /\ job' = [job EXCEPT ![c] = None]
      /\ UNCHANGED <<disk, key, backup, grants, hist, sealed, mine, drawn, damage>>
  BY DEF Abandon
<1>2. WrittenInv' /\ UniqueInv'
  BY <1>1, QuietStep
<1>3. JobInv'
  BY <1>1 DEF ContainerInv, JobInv, ShapeInv
<1>4. CopyInv' /\ GrantInv' /\ KeyInv' /\ ShapeInv'
  BY <1>1 DEF ContainerInv, CopyInv, GrantInv, KeyInv, ShapeInv
<1>5. SoundInv'
  BY <1>1 DEF ContainerInv, SoundInv, Undamaged
<1> QED
  BY <1>2, <1>3, <1>4, <1>5 DEF ContainerInv

\* An approval hands out the key drawn for the version at hand.
LEMMA ApproveStep ==
    ASSUME ContainerInv, NEW c \in Copy, Approve(c)
    PROVE  ContainerInv'
<1> DEFINE h == disk[c].header
<1>1. UNCHANGED <<disk, job, key, backup, hist, sealed, mine, drawn, damage>> /\ Readable(disk[c])
  BY DEF Approve
<1>2. PICK dek \in DeksFor(h, key) : grants' = grants \cup {[dek |-> dek, hash |-> h]}
  BY DEF Approve, HeaderHash
<1>3. h \in HeadersOf(sealed) /\ dek = h.np
  BY <1>1, <1>2, ReadableCopy
<1>4. GrantInv'
  <2> SUFFICES ASSUME NEW g \in grants' PROVE g.hash \in HeadersOf(sealed) /\ g.dek = g.hash.np
    BY <1>1 DEF GrantInv
  <2>1. CASE g \in grants
    BY <2>1 DEF ContainerInv, GrantInv
  <2>2. CASE g = [dek |-> dek, hash |-> h]
    BY <1>3, <2>2
  <2> QED
    BY <1>2, <2>1, <2>2
<1>5. WrittenInv' /\ UniqueInv'
  BY <1>1, QuietStep
<1>6. CopyInv' /\ JobInv' /\ KeyInv' /\ ShapeInv'
  BY <1>1 DEF ContainerInv, CopyInv, JobInv, KeyInv, ShapeInv
<1>7. SoundInv'
  BY <1>1 DEF ContainerInv, SoundInv, Undamaged
<1> QED
  BY <1>4, <1>5, <1>6, <1>7 DEF ContainerInv

\* A copy put in the place of another keeps what is behind it.
LEMMA SendStep ==
    ASSUME ContainerInv, NEW c \in Copy, NEW d \in Copy, Send(c, d)
    PROVE  ContainerInv'
<1>1. /\ disk[c] # None
      /\ disk' = [disk EXCEPT ![d] = disk[c]] /\ hist' = [hist EXCEPT ![d] = hist[c]]
      /\ UNCHANGED <<job, key, backup, grants, sealed, mine, drawn, damage>>
  BY DEF Send
<1>2. WrittenInv' /\ UniqueInv'
  BY <1>1, QuietStep
<1>3. \A e \in Copy : \E f \in Copy : disk'[e] = disk[f] /\ hist'[e] = hist[f]
  BY <1>1 DEF ContainerInv, ShapeInv
<1>4. CopyInv'
  BY <1>1, <1>3 DEF ContainerInv, CopyInv
<1>5. SoundInv'
  <2> SUFFICES ASSUME damage = 0, NEW e \in Copy, disk'[e] # None PROVE \E w \in sealed : w.ctr = disk'[e]
    BY <1>1 DEF SoundInv, Undamaged
  <2> QED
    BY <1>3 DEF ContainerInv, SoundInv, Undamaged
<1>6. JobInv' /\ GrantInv' /\ KeyInv' /\ ShapeInv'
  BY <1>1 DEF ContainerInv, JobInv, GrantInv, KeyInv, ShapeInv
<1> QED
  BY <1>2, <1>4, <1>5, <1>6 DEF ContainerInv

\* The key actions touch nothing but the owner's keys and the count of accidents.
LEMMA KeyStep ==
    ASSUME ContainerInv,
           ExportBackup \/ RestoreBackup \/ LoseKeys \/ SetUpAgain \/ DamageBackup
    PROVE  ContainerInv'
<1>1. /\ UNCHANGED <<disk, job, grants, hist, sealed, drawn>>
      /\ damage' \in Nat /\ (damage' = 0 => damage = 0)
  <2>1. damage \in Nat
    BY DEF ContainerInv, ShapeInv
  <2>2. UNCHANGED <<disk, job, grants, hist, sealed, drawn>> /\ damage' \in {damage, damage + 1}
    BY DEF ExportBackup, RestoreBackup, LoseKeys, SetUpAgain, DamageBackup
  <2> QED
    BY <2>1, <2>2
<1>2. WrittenInv' /\ UniqueInv'
  BY <1>1, QuietStep
<1>3. CopyInv' /\ JobInv' /\ GrantInv' /\ ShapeInv'
  BY <1>1 DEF ContainerInv, CopyInv, JobInv, GrantInv, ShapeInv
<1>4. SoundInv'
  BY <1>1 DEF ContainerInv, SoundInv, Undamaged
<1>5. KeyInv'
  <2>0. KeyInv
    BY DEF ContainerInv
  <2>1. CASE ExportBackup
    BY <2>0, <2>1 DEF ExportBackup, KeyInv
  <2>2. CASE RestoreBackup
    BY <2>0, <2>2 DEF RestoreBackup, KeyInv
  <2>3. CASE LoseKeys
    BY <2>0, <2>3 DEF LoseKeys, KeyInv
  <2>4. CASE SetUpAgain
    BY <2>0, <2>4 DEF SetUpAgain, KeyInv
  <2>5. CASE DamageBackup
    BY <2>0, <2>5 DEF DamageBackup, KeyInv
  <2> QED
    BY <2>1, <2>2, <2>3, <2>4, <2>5
<1> QED
  BY <1>2, <1>3, <1>4, <1>5 DEF ContainerInv

\* Damage mixes up what was written and makes nothing new.
LEMMA DamagedFacts ==
    ASSUME NEW F, NEW h, NEW f \in Seq(F), Len(f) > 0, NEW tr, NEW b, b.frames \in Seq(F),
           NEW x \in Damaged([header |-> h, intact |-> TRUE, frames |-> f, trailer |-> tr], b)
    PROVE  x.header \in {h, b.header} /\ x.frames \in Seq(F)
<1> DEFINE a == [header |-> h, intact |-> TRUE, frames |-> f, trailer |-> tr]
           cut == SubSeq(f, 1, Len(f) - 1)
<1>1. cut \in Seq(F) /\ Append(f, f[1]) \in Seq(F)
  OBVIOUS
<1>2. CASE x = [a EXCEPT !.intact = FALSE]
  BY <1>2
<1>3. CASE x = [a EXCEPT !.trailer = <<>>]
  BY <1>3
<1>4. CASE x = [a EXCEPT !.frames = Append(f, f[1])]
  <2> HIDE DEF cut
  <2> QED
    BY <1>1, <1>4
<1>5. CASE x = [a EXCEPT !.frames = cut]
  <2> HIDE DEF cut
  <2> QED
    BY <1>1, <1>5
<1>6. CASE x = [a EXCEPT !.frames = cut, !.trailer[1].digest = SubSeq(@, 1, Len(@) - 1)]
  <2> HIDE DEF cut
  <2> QED
    BY <1>1, <1>6
<1>7. CASE x = [a EXCEPT !.frames = b.frames]
  BY <1>7
<1>8. CASE x = [a EXCEPT !.frames = b.frames, !.trailer = b.trailer]
  BY <1>8
<1>9. CASE x = [a EXCEPT !.header = b.header]
  BY <1>9
<1> QED
  BY <1>2, <1>3, <1>4, <1>5, <1>6, <1>7, <1>8, <1>9 DEF Damaged

\* A damaged copy still has a header and frames that were written.
LEMMA DamageCopyStep ==
    ASSUME ContainerInv, NEW c \in Copy, DamageCopy(c)
    PROVE  ContainerInv'
<1>1. /\ Undamaged(c) /\ disk[c] # None /\ damage' = damage + 1
      /\ UNCHANGED <<job, key, backup, grants, sealed, mine, drawn>>
  BY DEF DamageCopy
<1>a. PICK d \in {e \in Copy : disk[e] # None} : \E x \in Damaged(disk[c], disk[d]) :
         /\ disk' = [disk EXCEPT ![c] = x]
         /\ hist' = [hist EXCEPT ![c] = IF x.header = disk[c].header THEN hist[c] ELSE hist[d]]
  BY DEF DamageCopy
<1>2. PICK x \in Damaged(disk[c], disk[d]) :
         /\ disk' = [disk EXCEPT ![c] = x]
         /\ hist' = [hist EXCEPT ![c] = IF x.header = disk[c].header THEN hist[c] ELSE hist[d]]
  BY <1>a
<1>3. damage \in Nat /\ damage' # 0
  BY <1>1 DEF ContainerInv, ShapeInv
<1>4. Held(sealed, disk[c], hist[c]) /\ Held(sealed, disk[d], hist[d])
  BY <1>1, <1>2 DEF ContainerInv, CopyInv
<1>5. PICK s \in sealed : s.ctr = disk[c]
  BY <1>1 DEF Undamaged
<1>6. x.header \in {disk[c].header, disk[d].header} /\ x.frames \in Seq(FramesOf(sealed))
  <2> DEFINE a == disk[c]
             b == disk[d]
             F == FramesOf(sealed)
  <2>1. a.frames \in Seq(F) /\ Len(a.frames) > 0 /\ b.frames \in Seq(F)
    BY <1>4, <1>5, WrittenFacts DEF ContainerInv, Held
  <2>2. a = [header |-> a.header, intact |-> TRUE, frames |-> a.frames, trailer |-> a.trailer]
    <3>1. PICK t : Sealing(s.ctr, s.ctr.header, s.ctr.header.np, t)
      BY WrittenFacts DEF ContainerInv
    <3> QED
      BY <1>5, <3>1 DEF Sealing
  <2>3. x \in Damaged([header |-> a.header, intact |-> TRUE, frames |-> a.frames, trailer |-> a.trailer], b)
    BY <1>2, <2>2
  <2> HIDE DEF a, b, F
  <2>4. x.header \in {a.header, b.header} /\ x.frames \in Seq(F)
    BY <2>1, <2>3, DamagedFacts
  <2> QED
    BY <2>4 DEF a, b, F
<1>7. disk'[c] = x /\ hist'[c] = IF x.header = disk[c].header THEN hist[c] ELSE hist[d]
  BY <1>2 DEF ContainerInv, ShapeInv
<1>8. Held(sealed, disk'[c], hist'[c])
  BY <1>4, <1>6, <1>7 DEF Held
<1>9. \A e \in Copy \ {c} : disk'[e] = disk[e] /\ hist'[e] = hist[e]
  BY <1>2 DEF ContainerInv, ShapeInv
<1>10. CopyInv'
  BY <1>1, <1>8, <1>9 DEF ContainerInv, CopyInv
<1>11. WrittenInv' /\ UniqueInv'
  BY <1>1, QuietStep
<1>12. JobInv' /\ GrantInv' /\ KeyInv'
  BY <1>1 DEF ContainerInv, JobInv, GrantInv, KeyInv
<1>13. SoundInv'
  BY <1>3 DEF SoundInv
<1>14. ShapeInv'
  <2>1. disk' = [e \in Copy |-> disk'[e]] /\ hist' = [e \in Copy |-> hist'[e]]
    BY <1>2 DEF ContainerInv, ShapeInv
  <2>2. damage' \in Nat
    BY <1>1, <1>3
  <2> QED
    BY <1>1, <2>1, <2>2 DEF ContainerInv, ShapeInv
<1> QED
  BY <1>10, <1>11, <1>12, <1>13, <1>14 DEF ContainerInv

\* What is on disk, under way or handed out was written by seal_signed under a draw of its own,
\* and stands at the end of a chain of such versions.
THEOREM ContainerInvariant == Spec => []ContainerInv
<1>1. Init => ContainerInv
  <2> SUFFICES ASSUME Init PROVE ContainerInv
    OBVIOUS
  <2>1. ShapeInv /\ KeyInv
    BY DEF Init, ShapeInv, KeyInv
  <2>2. WrittenInv /\ UniqueInv /\ GrantInv
    BY DEF Init, WrittenInv, UniqueInv, GrantInv
  <2>3. CopyInv /\ JobInv /\ SoundInv
    BY DEF Init, CopyInv, JobInv, SoundInv
  <2> QED
    BY <2>1, <2>2, <2>3 DEF ContainerInv
<1>2. ContainerInv /\ [Next]_vars => ContainerInv'
  <2> SUFFICES ASSUME ContainerInv, [Next]_vars PROVE ContainerInv'
    OBVIOUS
  <2>1. CASE UNCHANGED vars
    BY <2>1 DEF vars, ContainerInv, ShapeInv, WrittenInv, UniqueInv, CopyInv, JobInv, GrantInv, SoundInv,
                KeyInv, Undamaged
  <2>2. ASSUME NEW c \in Copy, NEW before \in Text, NEW after \in Text,
               Lock(c, before, after) \/ OwnerReseals(c, before, after) \/ RecipientReseals(c, before, after)
        PROVE  ContainerInv'
    BY <2>2, LockStep, OwnerResealsStep, RecipientResealsStep
  <2>3. ASSUME NEW c \in Copy, Rename(c) \/ Abandon(c) \/ Approve(c) \/ DamageCopy(c) PROVE ContainerInv'
    BY <2>3, RenameStep, AbandonStep, ApproveStep, DamageCopyStep
  <2>4. ASSUME NEW c \in Copy, NEW d \in Copy, Send(c, d) PROVE ContainerInv'
    BY <2>4, SendStep
  <2>5. CASE ExportBackup \/ RestoreBackup \/ LoseKeys \/ SetUpAgain \/ DamageBackup
    BY <2>5, KeyStep
  <2> QED
    BY <2>1, <2>2, <2>3, <2>4, <2>5 DEF Next
<1> QED
  BY <1>1, <1>2, PTL DEF Spec

-----------------------------------------------------------------------------
(***************************************************************************)
(* What the invariant gives                                                *)
(***************************************************************************)

\* open_with_dek accepts a copy only with the whole text sealed under its header: every chunk's
\* associated data names header, place and end, so no chunk of another container, another place or
\* a shortened container passes, and the chunks put together are the text.
THEOREM WholeTheorem == Spec => []OpenIsWhole
<1>1. ContainerInv => OpenIsWhole
  <2> SUFFICES ASSUME ContainerInv, NEW c \in Copy, NEW dek, disk[c] # None, OpensWithDek(disk[c], dek)
               PROVE  \E s \in sealed : s.ctr.header = disk[c].header /\ Plain(disk[c]) = s.text
    BY DEF OpenIsWhole
  <2> DEFINE x == disk[c]
             h == x.header
             total == chunk_count(h.plen)
  <2>0. WrittenInv /\ UniqueInv
    BY DEF ContainerInv
  <2>1. Held(sealed, x, hist[c])
    BY DEF ContainerInv, CopyInv
  <2>2. PICK s \in sealed : h = s.ctr.header
    BY <2>1 DEF Held, HeadersOf
  <2>3. PICK t \in Seq(Nat) : /\ h.plen <= Len(t) /\ Sealing(s.ctr, h, h.np, t)
                             /\ s.ctr = SealSigned(h, h.np, t) /\ s.text = SubSeq(t, 1, h.plen)
    BY <2>0, <2>2, WrittenFacts
  <2>4. h.plen \in Nat
    BY <2>0, <2>2, WrittenFacts DEF Made
  <2>5. x.frames \in Seq(FramesOf(sealed)) /\ Len(x.frames) = total
    BY <2>1 DEF Held, OpensWithDek
  <2>6. /\ s.ctr.frames \in Seq(FramesOf(sealed)) /\ Len(s.ctr.frames) = total /\ total \in Nat
        /\ DOMAIN s.ctr.frames = 1..total
    <3>1. s.ctr.frames \in Seq(FramesOf(sealed))
      BY <2>0, WrittenFacts
    <3> QED
      BY <2>3, <3>1 DEF Sealing
  <2>7. ASSUME NEW i \in 1..total PROVE x.frames[i] = s.ctr.frames[i]
    <3>1. x.frames[i].aad = <<h, i - 1, i = total>>
      BY DEF OpensWithDek, Decrypts, chunk_aad, HeaderHash
    <3>2. x.frames[i] \in FramesOf(sealed)
      BY <2>5, <2>6
    <3>w. PICK w \in sealed : \E j \in 1..Len(w.ctr.frames) : x.frames[i] = w.ctr.frames[j]
      BY <3>2 DEF FramesOf
    <3>3. PICK j \in 1..Len(w.ctr.frames) : x.frames[i] = w.ctr.frames[j]
      BY <3>w
    <3>4. PICK u : Sealing(w.ctr, w.ctr.header, w.ctr.header.np, u)
      BY <2>0, WrittenFacts
    <3>5. w.ctr.frames[j].aad = <<w.ctr.header, j - 1, j = chunk_count(w.ctr.header.plen)>>
      <4> DEFINE f == w.ctr.frames[j]
                 g == w.ctr.header
      <4>1. f = [dek |-> g.np, nonce |-> <<g.np, j - 1>>, aad |-> <<g, j - 1, j = chunk_count(g.plen)>>,
                 msg |-> Chunk(u, g.plen, j - 1)]
        BY <3>4 DEF Sealing
      <4> HIDE DEF f, g
      <4>2. f.aad = <<g, j - 1, j = chunk_count(g.plen)>>
        BY <4>1
      <4> QED
        BY <4>2 DEF f, g
    <3>6. w.ctr.header = h /\ j - 1 = i - 1
      BY <3>1, <3>3, <3>5
    <3>7. w = s
      BY <2>0, <2>2, <3>6 DEF UniqueInv
    <3>8. j = i
      BY <2>6, <3>6, <3>7
    <3> QED
      BY <3>3, <3>7, <3>8
  <2>8. x.frames = s.ctr.frames
    <3> DEFINE F == FramesOf(sealed)
               p == x.frames
               q == s.ctr.frames
    <3>1. p \in Seq(F) /\ q \in Seq(F) /\ Len(p) = Len(q) /\ \A i \in 1..Len(p) : p[i] = q[i]
      BY <2>5, <2>6, <2>7
    <3> HIDE DEF F, p, q
    <3>2. p = q
      BY <3>1, SeqEqual
    <3> QED
      BY <3>2 DEF p, q
  <2>9. Plain(x) = Plain(s.ctr)
    BY <2>8 DEF Plain
  <2>10. Plain(s.ctr) = s.text
    BY <2>3, <2>4, SealedPlain
  <2> QED
    BY <2>2, <2>9, <2>10
<1> QED
  BY <1>1, ContainerInvariant, PTL

\* A key handed out with an approval opens that version only: each version's name is under a key
\* drawn for it, and open_with_dek decrypts the name first.
THEOREM OldKeyTheorem == Spec => []OldKeyOpensNothingNew
<1>1. ContainerInv => OldKeyOpensNothingNew
  <2> SUFFICES ASSUME ContainerInv, NEW c \in Copy, NEW g \in grants, disk[c] # None,
                      OpensWithDek(disk[c], g.dek)
               PROVE  disk[c].header = g.hash
    BY DEF OldKeyOpensNothingNew, HeaderHash
  <2>1. disk[c].header \in HeadersOf(sealed)
    BY DEF ContainerInv, CopyInv, Held
  <2>2. g.hash \in HeadersOf(sealed) /\ g.dek = g.hash.np
    BY DEF ContainerInv, GrantInv
  <2>3. PICK s \in sealed, w \in sealed : disk[c].header = s.ctr.header /\ g.hash = w.ctr.header
    BY <2>1, <2>2 DEF HeadersOf
  <2>4. s.ctr.header.name = Encrypt(s.ctr.header.np, nonce(s.ctr.header.np, NAME_INDEX), "name", "report.docx")
    BY WrittenFacts DEF ContainerInv, Made
  <2>5. s.ctr.header.name.dek = s.ctr.header.np
    BY <2>4 DEF Encrypt
  <2>6. s.ctr.header.name.dek = g.dek
    BY <2>3 DEF OpensWithDek, decrypt_name, Decrypts
  <2>7. s = w
    BY <2>2, <2>3, <2>5, <2>6 DEF ContainerInv, UniqueInv
  <2> QED
    BY <2>3, <2>7
<1> QED
  BY <1>1, ContainerInvariant, PTL

\* The owner opens every undamaged copy of the files locked with the keys at hand: a resealing
\* device addresses the envelope to the key the chain started with, and the sealing opens.
THEOREM OwnerReadsTheorem == Spec => []OwnerReadsEveryVersion
<1>1. ContainerInv => OwnerReadsEveryVersion
  <2> SUFFICES ASSUME ContainerInv, key # NoKey, NEW c \in Copy, disk[c] # None, Undamaged(c),
                      hist[c][1].opub = mine
               PROVE  Opens(disk[c], key)
    BY DEF OwnerReadsEveryVersion
  <2> DEFINE h == disk[c].header
  <2>1. key = mine
    BY DEF ContainerInv, KeyInv
  <2>2. h.opub = key
    BY <2>1 DEF ContainerInv, CopyInv, Held, Behind, EndsIn
  <2>3. PICK s \in sealed : s.ctr = disk[c]
    BY DEF Undamaged
  <2>4. Made(drawn, h)
    BY <2>3, WrittenFacts DEF ContainerInv
  <2>5. PICK t \in Seq(Nat) : h.plen <= Len(t) /\ disk[c] = SealSigned(h, h.np, t)
    BY <2>3, WrittenFacts DEF ContainerInv
  <2>6. OpensWithDek(disk[c], h.np)
    <3>1. SealSigned(h, h.np, t) # None
      BY <2>5
    <3>2. OpensWithDek(SealSigned(h, h.np, t), h.np)
      BY <2>4, <2>5, <3>1, SealedOpens
    <3> QED
      BY <2>5, <3>2
  <2>7. h.np \in DeksFor(h, key)
    <3> HIDE DEF h
    <3>1. h.env = <<Envelope(key, h.np, h.fid)>>
      BY <2>2, <2>4 DEF Made
    <3>2. 1 \in 1..Len(h.env) /\ h.env[1] = Envelope(key, h.np, h.fid)
      BY <3>1
    <3>3. EnvelopeOpens(h.env[1], key, h.fid) /\ h.env[1].dek = h.np
      BY <3>2 DEF EnvelopeOpens, Envelope
    <3> QED
      BY <3>2, <3>3 DEF DeksFor
  <2>8. Readable(disk[c])
    BY <2>6 DEF OpensWithDek
  <2> QED
    BY <2>6, <2>7, <2>8 DEF Opens
<1> QED
  BY <1>1, ContainerInvariant, PTL

\* Behind every copy that no accident reached stands a version chain that ends in it: a write
\* leaves the copy alone until the rename replaces it with a whole container.
THEOREM ChainTheorem == Spec => []VersionsFormAChain
<1>1. ContainerInv => VersionsFormAChain
  <2> SUFFICES ASSUME ContainerInv, NEW c \in Copy, disk[c] # None, damage = 0 \/ Undamaged(c)
               PROVE  Undamaged(c) /\ verify_version_chain(hist[c]) /\ hist[c][Len(hist[c])] = disk[c].header
    BY DEF VersionsFormAChain
  <2>1. Undamaged(c)
    BY DEF ContainerInv, SoundInv
  <2>2. EndsIn(hist[c], disk[c].header)
    BY DEF ContainerInv, CopyInv, Held, Behind
  <2> QED
    BY <2>1, <2>2 DEF EndsIn
<1> QED
  BY <1>1, ContainerInvariant, PTL
=============================================================================
