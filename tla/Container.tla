----------------------------- MODULE Container -----------------------------
(* Sealed containers (crates/zbacs-core): the format, the version chain and *)
(* the keys that open it.  An owner locks a file, copies of it travel, the  *)
(* owner and the holders of a granted key write next versions over their    *)
(* copies, writes are cut short by crashes, copies are damaged or mixed up, *)
(* and the owner's keys die with a machine and come back from a backup.     *)
(*                                                                          *)
(* Cryptography is symbolic: a ciphertext is the record of what went into   *)
(* it and decrypts exactly under the same key, nonce and associated data;   *)
(* a hash is its input; a random value is a number never drawn before.  An  *)
(* Option inside a file is a sequence of at most one element.               *)
EXTENDS Integers, Sequences

CONSTANTS
    Copy,       \* places that hold a container file
    Text,       \* plaintexts: sequences of bytes
    ChunkSize,  \* plaintext bytes per chunk
    OwnerKey,   \* sealing keys an owner may have
    NoKey,      \* the owner's keychain is empty
    None,       \* no file, no write under way, no backup
    MaxSeals,   \* bound on the versions written
    MaxDamage   \* bound on damaged copies and lost keychains together

ASSUME ChunkAssumption == ChunkSize \in Nat \ {0}
ASSUME TextAssumption == \A t \in Text : t \in Seq(Nat)

VARIABLES
    disk,    \* container file of each copy
    job,     \* the temporary file of the write under way beside each copy, or None
    key,     \* the owner's sealing key in the keychain of the machine
    backup,  \* the backup file of the owner's keys (of: history, the owner it was made for)
    grants,  \* keys handed out by approvals, with the version approved
    hist,    \* history: the headers behind the container of each copy, oldest first
    sealed,  \* history: every container ever written, with its plaintext
    mine,    \* history: the key this owner last set up with
    drawn,   \* random draws so far
    damage   \* copies damaged and keychains lost so far

vars == <<disk, job, key, backup, grants, hist, sealed, mine, drawn, damage>>

---------------------------------------------------------------------------
(* The format.                                                              *)

\* One AEAD ciphertext.
Encrypt(dek, nonce, aad, msg) == [dek |-> dek, nonce |-> nonce, aad |-> aad, msg |-> msg]
Decrypts(ct, dek, nonce, aad) == ct.dek = dek /\ ct.nonce = nonce /\ ct.aad = aad

\* SHA-256 of the encoded header.
HeaderHash(header) == header

\* A mutant: the last chunk, when it is not full, is not counted.
CountFullChunks(plen) == IF plen = 0 THEN 1 ELSE plen \div ChunkSize

chunk_count(plen) == IF plen = 0 THEN 1 ELSE (plen + ChunkSize - 1) \div ChunkSize

\* Bytes of chunk i (from 0) of a plaintext of plen bytes.
ChunkLen(plen, i) == IF plen - i * ChunkSize < ChunkSize THEN plen - i * ChunkSize ELSE ChunkSize
Chunk(text, plen, i) == SubSeq(text, i * ChunkSize + 1, i * ChunkSize + ChunkLen(plen, i))

nonce(np, index) == <<np, index>>
chunk_aad(hash, index, is_last) == <<hash, index, is_last>>
NAME_INDEX == -1

\* The DEK wrapped for one key, bound to the file id.
Envelope(to, dek, fid) == [kid |-> to, dek |-> dek, aad |-> fid]
EnvelopeOpens(env, k, fid) == env.kid = k /\ env.aad = fid

\* PrevVersion: what the version after `header` takes over, and what the first one starts from.
NoVersion == [fid |-> 0, ver |-> 0, hash |-> <<>>]
PrevVersion(header) == [fid |-> header.fid, ver |-> header.ver, hash |-> <<HeaderHash(header)>>]

\* Header of the version after prev: a fresh DEK and nonce prefix each time, the identity of the
\* file inherited.
SealHeader(owner_pk, signer, prev, plen, dek, np) ==
    LET fid == IF prev.hash = <<>> THEN np ELSE prev.fid IN
    [fid |-> fid,
     ver |-> prev.ver + 1,
     prev |-> prev.hash,
     opub |-> owner_pk,
     plen |-> plen,
     np |-> np,
     name |-> Encrypt(dek, nonce(np, NAME_INDEX), "name", "report.docx"),
     env |-> <<Envelope(owner_pk, dek, fid)>>,
     sigk |-> signer]

\* The container seal_signed writes: header, chunk frames, trailer.
SealSigned(header, dek, text) ==
    LET hh == HeaderHash(header)
        total == chunk_count(header.plen)
        frames == [i \in 1..total |->
                      Encrypt(dek, nonce(header.np, i - 1), chunk_aad(hh, i - 1, i = total),
                              Chunk(text, header.plen, i - 1))]
    IN [header |-> header, intact |-> TRUE, frames |-> frames,
        trailer |-> <<[hash |-> hh, total |-> total, digest |-> frames]>>]

\* read_header: magic, length, CBOR and signature hold, then the field rules.
validate_header(h) == /\ h.ver >= 1
                      /\ (h.ver = 1) = (h.prev = <<>>)
                      /\ Len(h.env) > 0
Readable(ctr) == ctr # None /\ ctr.intact /\ validate_header(ctr.header)

decrypt_name(h, dek) == Decrypts(h.name, dek, nonce(h.np, NAME_INDEX), "name")

\* open_with_dek accepts: every chunk authentic in its place, then exactly the trailer.
OpensWithDek(ctr, dek) ==
    LET h == ctr.header
        hh == HeaderHash(h)
        total == chunk_count(h.plen)
    IN /\ Readable(ctr)
       /\ decrypt_name(h, dek)
       /\ Len(ctr.frames) = total
       /\ \A i \in 1..total :
             /\ Len(ctr.frames[i].msg) = ChunkLen(h.plen, i - 1)
             /\ Decrypts(ctr.frames[i], dek, nonce(h.np, i - 1), chunk_aad(hh, i - 1, i = total))
       /\ ctr.trailer = <<[hash |-> hh, total |-> total, digest |-> ctr.frames]>>

\* What open_with_dek has written when it accepts, chunk after chunk: every chunk before the last
\* has ChunkSize bytes then.
Plain(ctr) ==
    LET last == Len(ctr.frames)
    IN [k \in 1..((last - 1) * ChunkSize + Len(ctr.frames[last].msg)) |->
          ctr.frames[(k - 1) \div ChunkSize + 1].msg[((k - 1) % ChunkSize) + 1]]

\* Envelopes of a header that key k opens, and so the DEKs it yields (open).
DeksFor(h, k) == {h.env[i].dek : i \in {n \in 1..Len(h.env) : EnvelopeOpens(h.env[n], k, h.fid)}}
Opens(ctr, k) == Readable(ctr) /\ \E dek \in DeksFor(ctr.header, k) : OpensWithDek(ctr, dek)

\* The checks on a sequence of headers, oldest first.
verify_version_chain(chain) ==
    /\ chain # <<>>
    /\ chain[1].ver = 1 /\ chain[1].prev = <<>>
    /\ \A i \in 2..Len(chain) : /\ chain[i].ver = chain[i - 1].ver + 1
                                /\ chain[i].prev = <<HeaderHash(chain[i - 1])>>
                                /\ chain[i].fid = chain[i - 1].fid

---------------------------------------------------------------------------
(* Writing a version.                                                       *)

Init ==
    /\ disk = [c \in Copy |-> None]
    /\ job = [c \in Copy |-> None]
    /\ key \in OwnerKey
    /\ backup = None
    /\ grants = {}
    /\ hist = [c \in Copy |-> <<>>]
    /\ sealed = {}
    /\ mine = key
    /\ drawn = 0
    /\ damage = 0

\* A random DEK for every version.  A mutant keeps that of the previous version.
DekKept(prev) == IF prev.hash = <<>> THEN drawn + 1 ELSE prev.hash[1].env[1].dek
DekGenerate(prev) == drawn + 1

\* The new container goes to a temporary file beside the copy, which stays as it is.
\* A mutant writes over the copy itself.
WriteOver(c, ctr, past) ==
    /\ job' = [job EXCEPT ![c] = [ctr |-> ctr, hist |-> past]]
    /\ disk' = [disk EXCEPT ![c] = [ctr EXCEPT !.trailer = <<>>]]
    /\ hist' = [hist EXCEPT ![c] = past]
WriteTmp(c, ctr, past) ==
    /\ job' = [job EXCEPT ![c] = [ctr |-> ctr, hist |-> past]]
    /\ UNCHANGED <<disk, hist>>

\* seal_signed_to_path up to the rename.  The plaintext is read twice, for its length (before) and
\* to encrypt it (after); an editor may have written in between.  Fewer bytes than before end the
\* write, and what lies beyond them is left out.  One write of a copy at a time: two
\* sessions of one path, which would share the temporary name, are left out.
StartWrite(c, owner_pk, signer, prev, before, after, past) ==
    LET dek == DekGenerate(prev)
        header == SealHeader(owner_pk, signer, prev, Len(before), dek, drawn + 1)
        ctr == SealSigned(header, dek, after)
    IN /\ job[c] = None
       /\ drawn < MaxSeals
       /\ Len(after) >= Len(before)
       /\ WriteTmp(c, ctr, Append(past, header))
       /\ sealed' = sealed \cup {[ctr |-> ctr, text |-> SubSeq(after, 1, Len(before))]}
       /\ drawn' = drawn + 1
       /\ UNCHANGED <<key, backup, grants, mine, damage>>

\* seal_now: a first version where there is no locked copy yet, of a file that is not empty.
Lock(c, before, after) ==
    /\ key # NoKey
    /\ disk[c] = None
    /\ before # <<>>
    /\ StartWrite(c, key, "owner", NoVersion, before, after, <<>>)

\* reseal_to_path: the owner needs an envelope that opens, for the name.
OwnerReseals(c, before, after) ==
    /\ Readable(disk[c])
    /\ \E dek \in DeksFor(disk[c].header, key) :
          /\ decrypt_name(disk[c].header, dek)
          /\ StartWrite(c, key, "owner", PrevVersion(disk[c].header), before, after,
                        hist[c])

\* A mutant: the recipient's device keeps the next version to itself.
RecipientResealsToSelf(c, before, after) ==
    /\ Readable(disk[c])
    /\ \E g \in grants :
          /\ decrypt_name(disk[c].header, g.dek)
          /\ StartWrite(c, "device", "device", PrevVersion(disk[c].header), before, after,
                        hist[c])

\* reseal_as_recipient_to_path: a granted key that opens the name; the new owner envelope goes to
\* the key that the previous header names.
RecipientReseals(c, before, after) ==
    /\ Readable(disk[c])
    /\ \E g \in grants :
          /\ decrypt_name(disk[c].header, g.dek)
          /\ StartWrite(c, disk[c].header.opub, "device", PrevVersion(disk[c].header), before, after,
                        hist[c])

\* sync_all and rename: the copy is replaced in one step.
Rename(c) ==
    /\ job[c] # None
    /\ disk' = [disk EXCEPT ![c] = job[c].ctr]
    /\ hist' = [hist EXCEPT ![c] = job[c].hist]
    /\ job' = [job EXCEPT ![c] = None]
    /\ UNCHANGED <<key, backup, grants, sealed, mine, drawn, damage>>

\* A crash or a failed write before the rename: the temporary file stays, and the next write
\* truncates it.
Abandon(c) ==
    /\ job[c] # None
    /\ job' = [job EXCEPT ![c] = None]
    /\ UNCHANGED <<disk, key, backup, grants, hist, sealed, mine, drawn, damage>>

---------------------------------------------------------------------------
(* Keys.                                                                    *)

\* envelope_for: an approval opens the owner's envelope of the version at hand and passes its DEK.
Approve(c) ==
    /\ Readable(disk[c])
    /\ \E dek \in DeksFor(disk[c].header, key) :
          grants' = grants \cup {[dek |-> dek, hash |-> HeaderHash(disk[c].header)]}
    /\ UNCHANGED <<disk, job, key, backup, hist, sealed, mine, drawn, damage>>

\* export_backup: both keys under a fresh recovery code.
ExportBackup ==
    /\ key # NoKey /\ backup = None
    /\ backup' = [sealing |-> key, authentic |-> TRUE, of |-> mine]
    /\ UNCHANGED <<disk, job, key, grants, hist, sealed, mine, drawn, damage>>

\* restore_backup: the AEAD refuses a wrong code and a file that was changed.
RestoreBackup ==
    /\ key = NoKey
    /\ backup # None
    /\ backup.authentic
    /\ key' = backup.sealing
    /\ mine' = backup.of
    /\ UNCHANGED <<disk, job, backup, grants, hist, sealed, drawn, damage>>

\* The keychain dies with the machine.
LoseKeys ==
    /\ damage < MaxDamage
    /\ key # NoKey
    /\ key' = NoKey
    /\ damage' = damage + 1
    /\ UNCHANGED <<disk, job, backup, grants, hist, sealed, mine, drawn>>

\* A new machine set up without the backup: another owner.
SetUpAgain ==
    /\ key = NoKey
    /\ \E k \in OwnerKey \ {mine} : key' = k /\ mine' = k
    /\ UNCHANGED <<disk, job, backup, grants, hist, sealed, drawn, damage>>

---------------------------------------------------------------------------
(* What happens to files outside the program.                               *)

\* A person or a sync tool puts one copy in the place of another.
Send(c, d) ==
    /\ c # d /\ disk[c] # None
    /\ disk' = [disk EXCEPT ![d] = disk[c]]
    /\ hist' = [hist EXCEPT ![d] = hist[c]]
    /\ UNCHANGED <<job, key, backup, grants, sealed, mine, drawn, damage>>

Undamaged(c) == \E s \in sealed : s.ctr = disk[c]

\* What is left of a container that was cut off, overwritten in part or run together with another.
Damaged(a, b) ==
    {[a EXCEPT !.intact = FALSE],
     [a EXCEPT !.trailer = <<>>],
     [a EXCEPT !.frames = Append(@, @[1])],
     [a EXCEPT !.frames = SubSeq(@, 1, Len(@) - 1)],
     [a EXCEPT !.frames = SubSeq(@, 1, Len(@) - 1), !.trailer[1].digest = SubSeq(@, 1, Len(@) - 1)],
     [a EXCEPT !.frames = b.frames],
     [a EXCEPT !.frames = b.frames, !.trailer = b.trailer],
     [a EXCEPT !.header = b.header]}

DamageCopy(c) ==
    /\ damage < MaxDamage
    /\ disk[c] # None /\ Undamaged(c)
    /\ \E d \in {e \in Copy : disk[e] # None} : \E ctr \in Damaged(disk[c], disk[d]) :
          /\ disk' = [disk EXCEPT ![c] = ctr]
          /\ hist' = [hist EXCEPT ![c] = IF ctr.header = disk[c].header THEN @ ELSE hist[d]]
    /\ damage' = damage + 1
    /\ UNCHANGED <<job, key, backup, grants, sealed, mine, drawn>>

DamageBackup ==
    /\ backup # None /\ backup.authentic
    /\ \E k \in OwnerKey : backup' = [backup EXCEPT !.sealing = k, !.authentic = FALSE]
    /\ UNCHANGED <<disk, job, key, grants, hist, sealed, mine, drawn, damage>>

Next ==
    \/ \E c \in Copy, before, after \in Text :
          Lock(c, before, after) \/ OwnerReseals(c, before, after)
          \/ RecipientReseals(c, before, after)
    \/ \E c \in Copy : Rename(c) \/ Abandon(c) \/ Approve(c) \/ DamageCopy(c)
    \/ \E c, d \in Copy : Send(c, d)
    \/ ExportBackup \/ RestoreBackup \/ LoseKeys \/ SetUpAgain \/ DamageBackup

Spec == Init /\ [][Next]_vars

---------------------------------------------------------------------------
(* Properties.                                                              *)

\* OpenIsWhole: whatever happened to a copy, open_with_dek accepts it only with the whole plaintext
\* that was sealed under its header.
OpenIsWhole ==
    \A c \in Copy, dek \in 1..drawn :
       disk[c] # None /\ OpensWithDek(disk[c], dek) =>
          \E s \in sealed : s.ctr.header = disk[c].header /\ Plain(disk[c]) = s.text

\* OldKeyOpensNothingNew: a key handed out with an approval opens the version approved and no
\* other, so a save takes the file away from every earlier approval.
OldKeyOpensNothingNew ==
    \A c \in Copy, g \in grants :
       disk[c] # None /\ OpensWithDek(disk[c], g.dek) => HeaderHash(disk[c].header) = g.hash

\* OwnerReadsEveryVersion: with the keys in the keychain, or back from the backup, the owner opens
\* every undamaged copy of the files locked with them, the versions written by others included.
OwnerReadsEveryVersion ==
    key # NoKey =>
       \A c \in Copy :
          disk[c] # None /\ Undamaged(c) /\ hist[c][1].opub = mine => Opens(disk[c], key)

\* VersionsFormAChain: behind every undamaged copy stands a chain of versions that
\* verify_version_chain accepts and that ends in it, whatever writes were cut short.
VersionsFormAChain ==
    \A c \in Copy : disk[c] # None /\ (damage = 0 \/ Undamaged(c)) =>
       Undamaged(c) /\ verify_version_chain(hist[c]) /\ hist[c][Len(hist[c])] = disk[c].header
=============================================================================
