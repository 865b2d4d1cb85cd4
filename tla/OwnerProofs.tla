----------------------------- MODULE OwnerProofs -----------------------------
(***************************************************************************)
(* The safety invariants of the owner's Agent, for any files, requests and *)
(* calls, any number of versions and of restarts, in every kind of writer. *)
(***************************************************************************)
EXTENDS Owner, FiniteSetTheorems, SequenceTheorems, TLAPS

-----------------------------------------------------------------------------
(***************************************************************************)
(* The inductive invariant                                                 *)
(***************************************************************************)
HasWriter == mode # "none"
CallRec == [pc : CallPc \cup {"free", "over"}, kind : {"register", "grant", "revoke", "deny", "none"},
            file : File \cup {"none"}, g : GrantId \cup {NoGrant}, waiting : Bumps,
            tx : BOOLEAN, linked : BOOLEAN]
Contracts == [version : Bumps, nonce : Nat, used : SUBSET Req, granted : SUBSET GrantId,
              revoked : SUBSET GrantId, bumped : SUBSET (File \X Header)]

\* The account and the contracts.
AccountInv ==
    /\ AccountTypeOK
    /\ chain \in Contracts
    /\ IsFiniteSet(pool)
    /\ \A op \in pool : op.call.kind \in {"grant", "revoke"} => op.call.g \in GrantId

\* A call is at a place of its own command, and what it refers to is there.
CallFits(s) ==
    /\ call[s].kind = "none" => call[s] \in {NoCall, Over}
    /\ call[s].kind # "none" => call[s].file \in File
    /\ call[s].kind = "register" => /\ call[s].file \in DOMAIN files
                                    /\ call[s].pc \in {"queue", "submit", "wait", "settx"}
    /\ call[s].kind = "grant" =>
          /\ call[s].g \in GrantId /\ call[s].g.req \in DOMAIN asked
          /\ call[s].pc \in {"nonce", "queue", "submit", "wait", "send", "record", "withheld"}
    /\ call[s].kind = "deny" => /\ call[s].g \in GrantId /\ call[s].g.req \in DOMAIN asked
                                /\ call[s].pc \in {"send", "record"}
    /\ call[s].kind = "revoke" => /\ call[s].g \in DOMAIN grants
                                  /\ call[s].pc \in {"tell", "queue", "submit", "wait", "mark"}
    /\ call[s].pc \in {"queue", "submit", "wait"} \/ call[s].linked => HasWriter
CallInv == call \in [Slot -> CallRec] /\ \A s \in Slot : CallFits(s)

WatchInv ==
    /\ watch \in [pc : {"idle", "anchor", "wait"}, about : Bumps]
    /\ watch.pc = "idle" => watch = Idle
    /\ watch.pc # "idle" => HasWriter /\ \E f \in DOMAIN files : DOMAIN watch.about = {f}

\* Requests, approvals and notices are of files that are locked here, and a notice is
\* of the version that the holder of its approval wrote.
PeerInv ==
    /\ DOMAIN pending \subseteq DOMAIN asked /\ pending \in [DOMAIN pending -> Header]
    /\ inbox \subseteq Req \cup Notice
    /\ DOMAIN asked \subseteq Req /\ asked \in [DOMAIN asked -> Header]
    /\ copy \in [DOMAIN asked -> Header]
    /\ sent \subseteq [g : GrantId, tx : BOOLEAN]
    /\ refused \subseteq Req /\ shown \subseteq Req /\ cut \subseteq File
    /\ link \in BOOLEAN /\ looked \in BOOLEAN /\ (link \/ looked => HasWriter)
    /\ crashes \in 0 .. MaxCrashes[mode]
    /\ \A r \in DOMAIN asked : Fid[r] \in DOMAIN files
    /\ \A r \in inbox \cap Req : r \in DOMAIN asked
    /\ \A n \in inbox \ Req : n.header # <<>> /\ n.header[Len(n.header)] = n.g.req
    /\ \A g \in DOMAIN grants : g.req \in DOMAIN asked
    /\ \A m \in sent : m.g.req \in DOMAIN asked

StateInv == LedgerTypeOK /\ AccountInv /\ CallInv /\ WatchInv /\ PeerInv

\* A call submits at most one operation, and a receipt that says success is of an
\* operation whose calls the contracts executed.
Unsent == {"free", "nonce", "queue", "submit", "tell"}
PoolFits(op) ==
    op.by \in Slot =>
        /\ call[op.by].pc \notin Unsent
        /\ call[op.by].pc = "wait" =>
              /\ op.bumps = call[op.by].waiting
              /\ op.call = [kind |-> call[op.by].kind, file |-> call[op.by].file, g |-> call[op.by].g]
Executed(s) ==
    /\ call[s].kind = "register" => call[s].file \in DOMAIN chain.version
    /\ call[s].kind = "grant" => call[s].g \in chain.granted
    /\ call[s].kind = "revoke" => call[s].g \in chain.revoked
    /\ \A f \in DOMAIN call[s].waiting : <<f, call[s].waiting[f]>> \in chain.bumped
MinedFits(s) == call[s].pc \notin Unsent /\ (call[s].pc = "wait" /\ mined[s] => Executed(s))
LandInv == (\A op \in pool : PoolFits(op)) /\ \A s \in DOMAIN mined : MinedFits(s)

\* What a smart account's Agent holds on to after its write.
TxFits(s) ==
    /\ call[s].pc = "nonce" => ~call[s].tx
    /\ call[s].pc = "settx" => call[s].file \in DOMAIN chain.version
    /\ call[s].tx /\ call[s].kind = "grant" => call[s].g \in chain.granted
    /\ call[s].tx /\ call[s].kind = "revoke" => call[s].g \in chain.revoked
TxInv == Smart => \A s \in Slot : TxFits(s)

\* The contract grants a request once.
UniqueInv ==
    /\ \A g \in chain.granted : g.req \in chain.used
    /\ \A g, h \in chain.granted : g.req = h.req => g = h

\* The nonces of what goes and went to the relay alone were handed out by the ledger, each
\* to one call.
Numbered(s) == call[s].kind = "grant" /\ call[s].pc \in {"send", "record"} /\ ~call[s].tx
NonceInv ==
    mode # "direct" =>
    /\ \A m \in sent : ~m.tx => m.g.nonce < grant_nonce
    /\ \A s \in Slot : Numbered(s) => call[s].g.nonce < grant_nonce
    /\ \A s \in Slot, m \in sent : Numbered(s) /\ ~m.tx /\ m.g.nonce = call[s].g.nonce => m.g = call[s].g
    /\ \A s, t \in Slot : Numbered(s) /\ Numbered(t) /\ call[s].g.nonce = call[t].g.nonce => s = t

\* What is asked for, and what is being approved, was the version on record.
StartsWith(h, p) == Len(p) <= Len(h) /\ p = SubSeq(h, 1, Len(p))
PrefixInv ==
    /\ \A r \in DOMAIN pending : StartsWith(files[Fid[r]].header, pending[r])
    /\ \A s \in Slot : call[s].kind = "grant" =>
          StartsWith(files[Fid[call[s].g.req]].header, call[s].g.header)

\* While it is being queued, a version is still the newest one.
QueueInv ==
    watch.pc = "anchor" => \A f \in DOMAIN watch.about : watch.about[f] = files[f].header

\* decide takes a request off the list after its answer went out.
AnswerInv ==
    \A s \in Slot : call[s].pc = "record" =>
        IF call[s].kind = "grant" THEN [g |-> call[s].g, tx |-> call[s].tx] \in sent
        ELSE call[s].g.req \in refused

\* Unless it defers, nothing is queued, and the bumps on their way are in the order in
\* which the versions were accepted: none of them is behind the chain.
EmptyInv == mode # "passkey" => DOMAIN deferred_bumps = {} /\ \A s \in Slot : DOMAIN call[s].waiting = {}
OpFits(op) ==
    /\ op.call.kind = "register" => op.call.file \in DOMAIN files
    /\ op.nonce >= seqno
    /\ IF mode = "direct" THEN op.nonce < seqno + Cardinality(pool) ELSE op.nonce = seqno
    /\ \A f \in DOMAIN op.bumps :
          /\ f \in DOMAIN files /\ Len(op.bumps[f]) <= Len(files[f].header)
          /\ f \in DOMAIN chain.version => Len(chain.version[f]) <= Len(op.bumps[f])
InOrder(op, o) ==
    /\ mode = "direct" /\ op.nonce = o.nonce => op = o
    /\ op.nonce < o.nonce =>
          \A f \in DOMAIN op.bumps \cap DOMAIN o.bumps : Len(op.bumps[f]) <= Len(o.bumps[f])
OrderInv ==
    mode # "passkey" =>
    /\ \A f \in DOMAIN chain.version : f \in DOMAIN files /\ Len(chain.version[f]) <= Len(files[f].header)
    /\ \A op \in pool : OpFits(op)
    /\ \A op, o \in pool : InOrder(op, o)

OutcomeInv ==
    /\ LandInv /\ UniqueInv /\ TxInv /\ TxMeansLanded
    /\ PrefixInv /\ ApprovedVersionOnRecord /\ VersionsAreGranted
    /\ QueueInv /\ NewestQueuedOrAnchored
    /\ AnswerInv /\ ShownUntilAnswered
    /\ NonceInv /\ NonceNeverReused
    /\ EmptyInv /\ OrderInv
OwnerInv == StateInv /\ OutcomeInv

-----------------------------------------------------------------------------
(***************************************************************************)
(* Versions, queues of versions and the records of the calls               *)
(***************************************************************************)

\* A header is a short sequence of requests (ledger.rs: the version on record).
LEMMA HeaderFacts ==
    /\ \A h : h \in Header <=> h \in Seq(Req) /\ Len(h) < MaxVer
    /\ <<>> \in Header
<1>1. ASSUME NEW h \in Header PROVE h \in Seq(Req) /\ Len(h) < MaxVer
  <2>1. PICK n \in 0 .. (MaxVer - 1) : h \in [1 .. n -> Req]
    BY <1>1 DEF Header
  <2> QED
    BY <2>1, LedgerAssumption
<1>2. ASSUME NEW h \in Seq(Req), Len(h) < MaxVer PROVE h \in Header
  <2>1. Len(h) \in 0 .. (MaxVer - 1) /\ h \in [1 .. Len(h) -> Req]
    BY <1>2, LedgerAssumption
  <2> QED
    BY <2>1 DEF Header
<1>3. <<>> \in Seq(Req) /\ Len(<<>>) < MaxVer
  BY LedgerAssumption
<1> QED
  BY <1>1, <1>2, <1>3

\* A set of versions to anchor, one of a file at most (chain.rs: the deferred bumps).
LEMMA BumpsFacts ==
    /\ \A b : b \in Bumps <=> b \in [DOMAIN b -> Header] /\ DOMAIN b \subseteq File
    /\ <<>> \in Bumps /\ DOMAIN <<>> = {}
<1>1. \A b : b \in Bumps <=> b \in [DOMAIN b -> Header] /\ DOMAIN b \subseteq File
  BY DEF Bumps
<1>2. DOMAIN <<>> = {}
  OBVIOUS
<1>3. <<>> = [f \in {} |-> <<>>]
  BY <1>2
<1>4. <<>> \in [{} -> Header]
  BY <1>3
<1> QED
  BY <1>1, <1>2, <1>4

LEMMA PutFacts ==
    ASSUME NEW f, NEW x, NEW v
    PROVE  /\ DOMAIN Put(f, x, v) = DOMAIN f \cup {x}
           /\ Put(f, x, v)[x] = v
           /\ \A y \in DOMAIN f \ {x} : Put(f, x, v)[y] = f[y]
           /\ Put(f, x, v) = [y \in DOMAIN f \cup {x} |-> Put(f, x, v)[y]]
BY DEF Put

LEMMA RecordFacts == NoCall \in CallRec /\ Over \in CallRec
BY BumpsFacts DEF NoCall, Over, CallRec

LEMMA StateTypeOK == StateInv => TypeOK
<1> SUFFICES ASSUME StateInv PROVE TypeOK
  OBVIOUS
<1>1. ASSUME NEW s \in Slot, call[s] \notin {NoCall, Over}
      PROVE  call[s] \in [pc : CallPc, kind : {"register", "grant", "revoke", "deny"}, file : File,
                          g : GrantId \cup {NoGrant}, waiting : Bumps, tx : BOOLEAN, linked : BOOLEAN]
  <2>1. call[s] \in CallRec /\ call[s].kind # "none" /\ call[s].file \in File
    BY <1>1 DEF StateInv, CallInv, CallFits
  <2>2. call[s].pc \in CallPc
    BY <2>1 DEF StateInv, CallInv, CallFits, CallRec, CallPc
  <2> QED
    BY <2>1, <2>2 DEF CallRec
<1>2. /\ watch.pc \in {"idle", "anchor", "wait"}
      /\ watch.about \in {h \in Bumps : Cardinality(DOMAIN h) <= 1}
  <2>1. CASE watch.pc = "idle"
    BY <2>1, BumpsFacts, FS_EmptySet DEF StateInv, WatchInv, Idle
  <2>2. CASE watch.pc # "idle"
    BY <2>2, FS_Singleton DEF StateInv, WatchInv
  <2> QED
    BY <2>1, <2>2 DEF StateInv, WatchInv
<1> QED
  BY <1>1, <1>2 DEF TypeOK, StateInv, AccountInv, PeerInv

-----------------------------------------------------------------------------
(***************************************************************************)
(* The ledger                                                              *)
(***************************************************************************)

\* The actions that leave the ledger alone.
Aside(s) ==
    \/ \E r \in Req, d \in {"allow", "deny"} : decide(s, r, d)
    \/ \E g \in DOMAIN grants : revoke_grant(s, g)
    \/ ReadQueue(s) \/ Submit(s) \/ WriteFails(s) \/ Send(s) \/ SendFails(s) \/ Tell(s) \/ TellFails(s)
Outside ==
    \/ WatchGoesOn
    \/ \E r \in inbox \cap Req : WatchShows(r)
    \/ \E r \in Req : \E h \in Header : Ask(r, h)
    \/ \E m \in sent : \E f \in File : Save(m.g, f)
    \/ WatchLooks \/ LinkUp \/ LinkReplaced
    \/ \E op \in pool, ok \in BOOLEAN : Block(op, ok)
    \/ Crash

LEMMA AsideFrame == ASSUME NEW s \in Slot, Aside(s) PROVE UNCHANGED ledgerVars
BY DEF Aside, decide, revoke_grant, ReadQueue, Submit, WriteFails, Send, SendFails, Tell, TellFails

LEMMA OutsideFrame == Outside => UNCHANGED ledgerVars
BY DEF Outside, WatchGoesOn, WatchShows, Ask, Save, WatchLooks, LinkUp, LinkReplaced, Block, Crash

\* A step of the ledger keeps its types, and nothing leaves it.
LEMMA LedgerStep ==
    ASSUME StateInv, Next
    PROVE  LedgerTypeOK' /\ DOMAIN files \subseteq DOMAIN files' /\ DOMAIN grants \subseteq DOMAIN grants'
<1>0. LedgerTypeOK /\ CallInv
  BY DEF StateInv
<1> DEFINE Goal == LedgerTypeOK' /\ DOMAIN files \subseteq DOMAIN files' /\ DOMAIN grants \subseteq DOMAIN grants'
<1>1. ASSUME UNCHANGED ledgerVars PROVE Goal
  BY <1>0, <1>1 DEF LedgerTypeOK, ledgerVars
<1>2. ASSUME NEW s \in Slot, NEW f \in File, seal_file(s, f) PROVE Goal
  <2>1. [header |-> <<>>, registered_tx |-> FALSE] \in Entry
    BY HeaderFacts DEF Entry
  <2> QED
    BY <1>0, <1>2, <2>1 DEF LedgerTypeOK, seal_file, record, Put
<1>3. ASSUME next_grant_nonce PROVE Goal
  BY <1>0, <1>3 DEF LedgerTypeOK, next_grant_nonce
<1>4. ASSUME NEW s \in Slot, Landed(s) PROVE Goal
  BY <1>0, <1>4 DEF LedgerTypeOK, Landed, clear_deferred_bumps
<1>5. ASSUME NEW s \in Slot, SetRegisteredTx(s) PROVE Goal
  <2>1. ASSUME NEW e \in Entry PROVE [e EXCEPT !.registered_tx = TRUE] \in Entry
    BY <2>1 DEF Entry
  <2> QED
    BY <1>0, <1>5, <2>1 DEF LedgerTypeOK, SetRegisteredTx, set_registered_tx
<1>6. ASSUME NEW s \in Slot, Record(s) PROVE Goal
  <2>1. CASE call[s].kind = "grant"
    <3>1. call[s].g \in GrantId /\ call[s].tx \in BOOLEAN
      BY <1>0, <2>1 DEF CallInv, CallFits, CallRec
    <3>2. [tx_hash |-> call[s].tx, revoked_at |-> FALSE, revoke_tx |-> FALSE] \in Grant
      BY <3>1 DEF Grant
    <3>3. PICK e \in Grant : grants' = Put(grants, call[s].g, e)
      BY <1>6, <2>1, <3>2 DEF Record, record_grant
    <3>4. UNCHANGED <<grant_nonce, files, deferred_bumps>>
      BY <1>6, <2>1 DEF Record, record_grant
    <3>5. grants' \in [DOMAIN grants' -> Grant] /\ DOMAIN grants' = DOMAIN grants \cup {call[s].g}
      BY <1>0, <3>3 DEF LedgerTypeOK, Put
    <3> QED
      BY <1>0, <3>1, <3>4, <3>5 DEF LedgerTypeOK
  <2>2. CASE call[s].kind # "grant"
    BY <1>1, <1>6, <2>2 DEF Record
  <2> QED
    BY <2>1, <2>2
<1>7. ASSUME NEW s \in Slot, Mark(s) PROVE Goal
  <2>1. call[s].tx \in BOOLEAN /\ call[s].g \in DOMAIN grants
    BY <1>0, <1>7 DEF CallInv, CallFits, CallRec, Mark, NoCall, Over
  <2>2. grants \in [DOMAIN grants -> Grant] /\ grants[call[s].g] \in Grant
    BY <1>0, <2>1 DEF LedgerTypeOK
  <2> DEFINE e == [grants[call[s].g] EXCEPT !.revoked_at = TRUE,
                                            !.revoke_tx = grants[call[s].g].revoke_tx \/ call[s].tx]
  <2>3. e \in Grant
    BY <2>1, <2>2 DEF Grant
  <2>4. grants' = [grants EXCEPT ![call[s].g] = e] /\ UNCHANGED <<grant_nonce, files, deferred_bumps>>
    BY <1>7, <2>1, <2>2 DEF Mark, mark_revoked, Grant
  <2> HIDE DEF e
  <2> QED
    BY <1>0, <2>2, <2>3, <2>4 DEF LedgerTypeOK
<1>8. ASSUME NEW n \in inbox \ Req, WatchNotice(n) PROVE Goal
  <2>1. CASE ~apply_version(n)
    BY <1>1, <1>8, <2>1 DEF WatchNotice
  <2>2. CASE apply_version(n)
    <3>1. n.header \in Header
      BY <1>8 DEF StateInv, PeerInv, Notice
    <3>2. ASSUME NEW e \in Entry PROVE [e EXCEPT !.header = n.header] \in Entry
      BY <3>1, <3>2 DEF Entry
    <3> QED
      BY <1>0, <1>8, <2>2, <3>2 DEF LedgerTypeOK, WatchNotice, advance_version
  <2> QED
    BY <2>1, <2>2
<1>9. ASSUME bump_version PROVE Goal
  <2>1. PICK f \in DOMAIN watch.about :
           (defer_bump(f, watch.about[f]) /\ mode = "passkey") \/ UNCHANGED ledgerVars
    BY <1>9 DEF bump_version
  <2>2. CASE UNCHANGED ledgerVars
    BY <1>1, <2>2
  <2>3. CASE defer_bump(f, watch.about[f])
    <3>1. f \in DOMAIN files /\ watch.about[f] \in Header
      BY <1>9, BumpsFacts DEF StateInv, WatchInv, bump_version
    <3> QED
      BY <1>0, <2>3, <3>1 DEF LedgerTypeOK, defer_bump, Put
  <2> QED
    BY <2>1, <2>2, <2>3
<1> HIDE DEF Goal
<1>10. ASSUME NEW s \in Slot, Runs(s) PROVE Goal
  BY <1>1, <1>3, <1>4, <1>5, <1>6, <1>7, <1>10, AsideFrame DEF Runs, Aside, TakeNonce, GivesUp
<1>11. Goal
  BY <1>2, <1>10, <1>8, <1>9, <1>1, AsideFrame, OutsideFrame DEF Next, Aside, Outside
<1> QED
  BY <1>11 DEF Goal

-----------------------------------------------------------------------------
(***************************************************************************)
(* The account and the contracts                                           *)
(***************************************************************************)

\* What bumpVersion does, once for each version of a batch.
LEMMA BumpsApplied ==
    ASSUME NEW c \in Contracts, NEW b \in Bumps, NEW d, d = AfterBumps(c, b)
    PROVE  /\ d \in Contracts
           /\ DOMAIN d.version = DOMAIN c.version
           /\ \A f \in DOMAIN c.version : d.version[f] = IF f \in DOMAIN b THEN b[f] ELSE c.version[f]
           /\ d.bumped = c.bumped \cup {<<f, b[f]>> : f \in DOMAIN b}
           /\ d.nonce = c.nonce /\ d.used = c.used /\ d.granted = c.granted /\ d.revoked = c.revoked
<1> DEFINE v == [f \in DOMAIN c.version |-> IF f \in DOMAIN b THEN b[f] ELSE c.version[f]]
           e == c.bumped \cup {<<f, b[f]>> : f \in DOMAIN b}
<1>1. v \in Bumps
  BY BumpsFacts DEF Contracts
<1>2. e \in SUBSET (File \X Header)
  BY BumpsFacts DEF Contracts
<1>3. d = [c EXCEPT !.version = v, !.bumped = e]
  BY DEF AfterBumps
<1> HIDE DEF v, e
<1>4. /\ d \in Contracts /\ d.version = v /\ d.bumped = e
      /\ d.nonce = c.nonce /\ d.used = c.used /\ d.granted = c.granted /\ d.revoked = c.revoked
  BY <1>1, <1>2, <1>3 DEF Contracts
<1> QED
  BY <1>4 DEF v, e

\* What register, grant and revoke do when they do not revert.
LEMMA CallApplied ==
    ASSUME NEW c \in Contracts, c.revoked \subseteq c.granted, NEW k \in Call,
           k.kind \in {"grant", "revoke"} => k.g \in GrantId, CallPasses(c, k),
           NEW d, d = AfterCall(c, k)
    PROVE  /\ d \in Contracts /\ d.revoked \subseteq d.granted /\ d.bumped = c.bumped
           /\ DOMAIN d.version = DOMAIN c.version \cup (IF k.kind = "register" THEN {k.file} ELSE {})
           /\ \A f \in DOMAIN c.version : d.version[f] = c.version[f]
           /\ k.kind = "register" => k.file \notin DOMAIN c.version /\ d.version[k.file] = <<>>
           /\ d.used = c.used \cup (IF k.kind = "grant" THEN {k.g.req} ELSE {})
           /\ d.granted = c.granted \cup (IF k.kind = "grant" THEN {k.g} ELSE {})
           /\ k.kind = "grant" => k.g.req \notin c.used
           /\ d.revoked = c.revoked \cup (IF k.kind = "revoke" THEN {k.g} ELSE {})
<1>0. k.kind \in {"register", "grant", "revoke", "bump"} /\ k.file \in File
  BY DEF Call
<1>1. CASE k.kind = "register"
  <2> DEFINE v == Put(c.version, k.file, <<>>)
  <2>1. k.file \notin DOMAIN c.version
    BY <1>1 DEF CallPasses
  <2>2. /\ v \in Bumps /\ DOMAIN v = DOMAIN c.version \cup {k.file}
        /\ v[k.file] = <<>> /\ \A f \in DOMAIN c.version : v[f] = c.version[f]
    <3>1. c.version \in Bumps
      BY DEF Contracts
    <3> QED
      BY <1>0, <2>1, <3>1, BumpsFacts, HeaderFacts DEF Put
  <2>3. d = [c EXCEPT !.version = v]
    BY <1>1 DEF AfterCall
  <2> HIDE DEF v
  <2>4. /\ d \in Contracts /\ d.version = v /\ d.bumped = c.bumped /\ d.used = c.used
        /\ d.granted = c.granted /\ d.revoked = c.revoked
    BY <2>2, <2>3 DEF Contracts
  <2> QED
    BY <1>1, <2>1, <2>2, <2>4
<1>2. CASE k.kind = "grant"
  <2>1. k.g \in GrantId /\ k.g.req \in Req /\ k.g.req \notin c.used
    BY <1>2 DEF CallPasses, GrantId
  <2>2. /\ c.nonce + 1 \in Nat
        /\ c.used \cup {k.g.req} \in SUBSET Req
        /\ c.granted \cup {k.g} \in SUBSET GrantId
    BY <2>1 DEF Contracts
  <2> DEFINE n == c.nonce + 1
             u == c.used \cup {k.g.req}
             a == c.granted \cup {k.g}
  <2>3. d = [c EXCEPT !.nonce = n, !.used = u, !.granted = a]
    BY <1>2, <2>2 DEF AfterCall
  <2>4. n \in Nat /\ u \in SUBSET Req /\ a \in SUBSET GrantId
    BY <2>2
  <2> HIDE DEF n, u, a
  <2>5. /\ d \in Contracts /\ d.version = c.version /\ d.bumped = c.bumped
        /\ d.used = u /\ d.granted = a /\ d.revoked = c.revoked
    BY <2>3, <2>4 DEF Contracts
  <2> QED
    BY <1>2, <2>1, <2>5 DEF u, a
<1>3. CASE k.kind = "revoke"
  <2>1. k.g \in c.granted
    BY <1>3 DEF CallPasses
  <2>2. d = [c EXCEPT !.revoked = c.revoked \cup {k.g}]
    BY <1>3 DEF AfterCall
  <2>3. /\ d \in Contracts /\ d.version = c.version /\ d.bumped = c.bumped
        /\ d.used = c.used /\ d.granted = c.granted /\ d.revoked = c.revoked \cup {k.g}
    BY <2>1, <2>2 DEF Contracts
  <2> QED
    BY <1>3, <2>1, <2>3
<1>4. CASE k.kind = "bump"
  BY <1>4 DEF AfterCall
<1> QED
  BY <1>0, <1>1, <1>2, <1>3, <1>4

\* What a batch does that the contracts execute.
LEMMA BatchApplied ==
    ASSUME NEW c \in Contracts, c.revoked \subseteq c.granted, NEW b \in Bumps, NEW k \in Call,
           k.kind \in {"grant", "revoke"} => k.g \in GrantId, Passes(c, b, k),
           NEW d, d = AfterCall(AfterBumps(c, b), k)
    PROVE  /\ d \in Contracts /\ d.revoked \subseteq d.granted
           /\ d.bumped = c.bumped \cup {<<f, b[f]>> : f \in DOMAIN b}
           /\ DOMAIN b \subseteq DOMAIN c.version
           /\ DOMAIN d.version = DOMAIN c.version \cup (IF k.kind = "register" THEN {k.file} ELSE {})
           /\ \A f \in DOMAIN c.version : d.version[f] = IF f \in DOMAIN b THEN b[f] ELSE c.version[f]
           /\ k.kind = "register" => k.file \notin DOMAIN c.version /\ d.version[k.file] = <<>>
           /\ d.used = c.used \cup (IF k.kind = "grant" THEN {k.g.req} ELSE {})
           /\ d.granted = c.granted \cup (IF k.kind = "grant" THEN {k.g} ELSE {})
           /\ k.kind = "grant" => k.g.req \notin c.used
           /\ d.revoked = c.revoked \cup (IF k.kind = "revoke" THEN {k.g} ELSE {})
<1>1. PICK m : m = AfterBumps(c, b)
  OBVIOUS
<1>2. /\ m \in Contracts /\ m.revoked \subseteq m.granted
      /\ DOMAIN m.version = DOMAIN c.version
      /\ \A f \in DOMAIN c.version : m.version[f] = IF f \in DOMAIN b THEN b[f] ELSE c.version[f]
      /\ m.bumped = c.bumped \cup {<<f, b[f]>> : f \in DOMAIN b}
      /\ m.nonce = c.nonce /\ m.used = c.used /\ m.granted = c.granted /\ m.revoked = c.revoked
  BY <1>1, BumpsApplied
<1>3. CallPasses(m, k) /\ DOMAIN b \subseteq DOMAIN c.version /\ d = AfterCall(m, k)
  BY <1>1 DEF Passes, BumpsPass
<1>4. /\ d \in Contracts /\ d.revoked \subseteq d.granted /\ d.bumped = m.bumped
      /\ DOMAIN d.version = DOMAIN m.version \cup (IF k.kind = "register" THEN {k.file} ELSE {})
      /\ \A f \in DOMAIN m.version : d.version[f] = m.version[f]
      /\ k.kind = "register" => k.file \notin DOMAIN m.version /\ d.version[k.file] = <<>>
      /\ d.used = m.used \cup (IF k.kind = "grant" THEN {k.g.req} ELSE {})
      /\ d.granted = m.granted \cup (IF k.kind = "grant" THEN {k.g} ELSE {})
      /\ k.kind = "grant" => k.g.req \notin m.used
      /\ d.revoked = m.revoked \cup (IF k.kind = "revoke" THEN {k.g} ELSE {})
  BY <1>2, <1>3, CallApplied
<1> QED
  BY <1>2, <1>3, <1>4

\* The steps that leave the account alone.
Idles(s) ==
    \/ \E f \in File : seal_file(s, f)
    \/ \E r \in Req, d \in {"allow", "deny"} : decide(s, r, d)
    \/ \E g \in DOMAIN grants : revoke_grant(s, g)
    \/ TakeNonce(s) \/ GivesUp(s) \/ ReadQueue(s) \/ Landed(s) \/ WriteFails(s) \/ SetRegisteredTx(s)
    \/ Send(s) \/ SendFails(s) \/ Record(s) \/ Tell(s) \/ TellFails(s) \/ Mark(s)
Elsewhere ==
    \/ \E n \in inbox \ Req : WatchNotice(n)
    \/ WatchGoesOn
    \/ \E r \in inbox \cap Req : WatchShows(r)
    \/ \E r \in Req : \E h \in Header : Ask(r, h)
    \/ \E m \in sent : \E f \in File : Save(m.g, f)
    \/ WatchLooks \/ LinkUp \/ LinkReplaced
    \/ Crash

LEMMA IdlesFrame == ASSUME NEW s \in Slot, Idles(s) PROVE UNCHANGED accountVars
BY DEF Idles, seal_file, decide, revoke_grant, TakeNonce, GivesUp, ReadQueue, Landed, WriteFails,
       SetRegisteredTx, Send, SendFails, Record, Tell, TellFails, Mark

LEMMA ElsewhereFrame == Elsewhere => UNCHANGED accountVars
BY DEF Elsewhere, WatchNotice, WatchGoesOn, WatchShows, Ask, Save, WatchLooks, LinkUp, LinkReplaced, Crash

\* An operation that is submitted, by a call or by the watcher.
LEMMA Submitted ==
    ASSUME AccountInv, NEW by \in Slot \cup {Watcher}, NEW b \in Bumps, NEW k \in Call,
           k.kind \in {"grant", "revoke"} => k.g \in GrantId, submit(by, b, k)
    PROVE  /\ AccountInv' /\ UNCHANGED <<mode, chain, seqno, mined>>
           /\ \E n \in Nat : /\ pool' = pool \cup {[by |-> by, nonce |-> n, bumps |-> b, call |-> k]}
                             /\ n = IF mode = "direct" THEN seqno + Cardinality(pool) ELSE seqno
<1>1. Cardinality(pool) \in Nat /\ seqno \in Nat
  BY FS_CardinalityType DEF AccountInv, AccountTypeOK
<1>2. PICK n \in Nat : Sends(by, n, b, k) /\ n = IF mode = "direct" THEN seqno + Cardinality(pool) ELSE seqno
  BY <1>1 DEF submit, SubmitDirect, SubmitUserOp, next_nonce
<1>3. PICK o \in Op : o = [by |-> by, nonce |-> n, bumps |-> b, call |-> k]
  BY DEF Op
<1>4. /\ UNCHANGED <<mode, chain, seqno, mined>>
      /\ pool' = pool \cup {o}
  BY <1>2, <1>3 DEF Sends
<1>5. o.call.kind \in {"grant", "revoke"} => o.call.g \in GrantId
  BY <1>3
<1>6. IsFiniteSet(pool')
  BY <1>4, FS_AddElement DEF AccountInv
<1>7. AccountInv'
  BY <1>4, <1>5, <1>6 DEF AccountInv, AccountTypeOK
<1> QED
  BY <1>2, <1>3, <1>4, <1>7

\* A block takes an operation in: the contracts execute the whole batch or none of it.
LEMMA Included ==
    ASSUME AccountInv, NEW op \in pool, NEW ok \in BOOLEAN, Block(op, ok)
    PROVE  /\ AccountInv' /\ mode' = mode /\ seqno' = seqno + 1 /\ op.nonce = seqno
           /\ pool' = {o \in pool : o.nonce > seqno}
           /\ \/ /\ chain' = chain
                 /\ mined' = IF op.by \in Slot THEN Put(mined, op.by, FALSE) ELSE mined
              \/ /\ Passes(chain, op.bumps, op.call)
                 /\ chain' = AfterCall(AfterBumps(chain, op.bumps), op.call)
                 /\ mined' = IF op.by \in Slot THEN Put(mined, op.by, TRUE) ELSE mined
<1>1. op \in Op /\ op.bumps \in Bumps /\ op.call \in Call
  BY DEF AccountInv, AccountTypeOK, Op
<1>2. PICK success \in BOOLEAN :
         /\ success => Passes(chain, op.bumps, op.call)
         /\ op.nonce = seqno /\ seqno' = seqno + 1 /\ pool' = {o \in pool : o.nonce > seqno}
         /\ chain' = IF success THEN AfterCall(AfterBumps(chain, op.bumps), op.call) ELSE chain
         /\ mined' = IF op.by \in Slot THEN Put(mined, op.by, success) ELSE mined
         /\ mode' = mode
  <2> DEFINE yes == ok /\ Passes(chain, op.bumps, op.call)
  <2>1. /\ yes \in BOOLEAN
        /\ yes => Passes(chain, op.bumps, op.call)
        /\ op.nonce = seqno /\ seqno' = seqno + 1 /\ pool' = {o \in pool : o.nonce > seqno}
        /\ chain' = IF yes THEN AfterCall(AfterBumps(chain, op.bumps), op.call) ELSE chain
        /\ mined' = IF op.by \in Slot THEN Put(mined, op.by, yes) ELSE mined
        /\ mode' = mode
    BY DEF Block, Include
  <2> HIDE DEF yes
  <2> QED
    BY <2>1
<1>3. chain' \in Contracts /\ chain'.revoked \subseteq chain'.granted
  <2>1. CASE success
    <3>1. PICK d : d = AfterCall(AfterBumps(chain, op.bumps), op.call)
      OBVIOUS
    <3>2. d \in Contracts /\ d.revoked \subseteq d.granted
      BY <1>1, <1>2, <2>1, <3>1, BatchApplied DEF AccountInv, AccountTypeOK
    <3> QED
      BY <1>2, <2>1, <3>1, <3>2
  <2>2. CASE ~success
    BY <1>2, <2>2 DEF AccountInv, AccountTypeOK
  <2> QED
    BY <2>1, <2>2
<1>4. DOMAIN mined' \subseteq Slot /\ mined' \in [DOMAIN mined' -> BOOLEAN]
  BY <1>2 DEF AccountInv, AccountTypeOK, Put
<1>5. pool' \subseteq pool /\ IsFiniteSet(pool')
  BY <1>2, FS_Subset DEF AccountInv
<1>6. chain'.version \in [DOMAIN chain'.version -> Header] /\ DOMAIN chain'.version \subseteq File
  BY <1>3, BumpsFacts DEF Contracts
<1>7. AccountInv'
  BY <1>2, <1>3, <1>4, <1>5, <1>6 DEF AccountInv, AccountTypeOK, Contracts
<1> QED
  BY <1>2, <1>7

LEMMA SubmitFacts ==
    ASSUME StateInv, NEW s \in Slot, Submit(s)
    PROVE  /\ AccountInv' /\ UNCHANGED <<mode, chain, seqno, mined>>
           /\ [kind |-> call[s].kind, file |-> call[s].file, g |-> call[s].g] \in Call
           /\ call[s].waiting \in Bumps
           /\ \E n \in Nat :
                 /\ pool' = pool \cup {[by |-> s, nonce |-> n, bumps |-> call[s].waiting,
                                        call |-> [kind |-> call[s].kind, file |-> call[s].file, g |-> call[s].g]]}
                 /\ n = IF mode = "direct" THEN seqno + Cardinality(pool) ELSE seqno
<1>1. call[s] \in CallRec /\ call[s].pc = "submit"
  BY DEF StateInv, CallInv, CallFits, Submit
<1>2. /\ call[s].kind \in {"register", "grant", "revoke"} /\ call[s].file \in File
      /\ call[s].g \in GrantId \cup {NoGrant}
      /\ call[s].kind \in {"grant", "revoke"} => call[s].g \in GrantId
  BY <1>1 DEF StateInv, CallInv, CallFits, LedgerTypeOK, CallRec, NoCall, Over
<1>3. call[s].waiting \in Bumps
  BY <1>1 DEF CallRec
<1>4. PICK k \in Call : k = [kind |-> call[s].kind, file |-> call[s].file, g |-> call[s].g]
  BY <1>2 DEF Call
<1>5. submit(s, call[s].waiting, k) /\ (k.kind \in {"grant", "revoke"} => k.g \in GrantId)
  BY <1>2, <1>4 DEF Submit
<1>6. AccountInv
  BY DEF StateInv
<1>7. /\ AccountInv' /\ UNCHANGED <<mode, chain, seqno, mined>>
      /\ \E n \in Nat : /\ pool' = pool \cup {[by |-> s, nonce |-> n, bumps |-> call[s].waiting, call |-> k]}
                        /\ n = IF mode = "direct" THEN seqno + Cardinality(pool) ELSE seqno
  BY <1>3, <1>5, <1>6, Submitted
<1> QED
  BY <1>3, <1>4, <1>7

LEMMA BumpFacts ==
    ASSUME StateInv, bump_version
    PROVE  \E f \in DOMAIN files :
              /\ DOMAIN watch.about = {f} /\ watch.pc = "anchor"
              /\ \/ /\ mode = "passkey" /\ defer_bump(f, watch.about[f]) /\ watch' = Idle
                    /\ UNCHANGED accountVars
                 \/ /\ mode # "passkey" /\ watch' = [watch EXCEPT !.pc = "wait"]
                    /\ UNCHANGED ledgerVars
                    /\ AccountInv' /\ UNCHANGED <<mode, chain, seqno, mined>>
                    /\ \E n \in Nat :
                          /\ pool' = pool \cup {[by |-> Watcher, nonce |-> n, bumps |-> watch.about,
                                                 call |-> [kind |-> "bump", file |-> f, g |-> NoGrant]]}
                          /\ n = IF mode = "direct" THEN seqno + Cardinality(pool) ELSE seqno
<1>1. PICK f \in DOMAIN watch.about :
         \/ /\ mode = "passkey" /\ defer_bump(f, watch.about[f]) /\ watch' = Idle
            /\ UNCHANGED accountVars
         \/ /\ mode # "passkey" /\ watch' = [watch EXCEPT !.pc = "wait"]
            /\ submit(Watcher, watch.about, [kind |-> "bump", file |-> f, g |-> NoGrant])
            /\ UNCHANGED ledgerVars
  BY DEF bump_version
<1>2. /\ watch.pc = "anchor" /\ f \in DOMAIN files /\ f \in File /\ DOMAIN watch.about = {f}
      /\ watch.about \in Bumps /\ AccountInv
  BY DEF bump_version, StateInv, WatchInv, LedgerTypeOK
<1>3. PICK k \in Call : k = [kind |-> "bump", file |-> f, g |-> NoGrant]
  BY <1>2 DEF Call
<1>4. ASSUME submit(Watcher, watch.about, k)
      PROVE  /\ AccountInv' /\ UNCHANGED <<mode, chain, seqno, mined>>
             /\ \E n \in Nat : /\ pool' = pool \cup {[by |-> Watcher, nonce |-> n, bumps |-> watch.about, call |-> k]}
                               /\ n = IF mode = "direct" THEN seqno + Cardinality(pool) ELSE seqno
  <2>1. k.kind = "bump" /\ Watcher \in Slot \cup {Watcher}
    BY <1>3
  <2> QED
    BY <1>2, <1>4, <2>1, Submitted
<1> QED
  BY <1>1, <1>2, <1>3, <1>4

\* Nothing that the contracts hold goes away, and the kind of writer stays.
Grows ==
    /\ mode' = mode
    /\ DOMAIN chain.version \subseteq DOMAIN chain'.version
    /\ chain.granted \subseteq chain'.granted /\ chain.revoked \subseteq chain'.revoked
    /\ chain.bumped \subseteq chain'.bumped

LEMMA AccountStep == ASSUME StateInv, Next PROVE AccountInv' /\ Grows
<1>0. AccountInv
  BY DEF StateInv
<1> DEFINE Goal == AccountInv' /\ Grows
<1>1. ASSUME UNCHANGED accountVars PROVE Goal
  BY <1>0, <1>1 DEF AccountInv, AccountTypeOK, accountVars, Grows
<1>2. ASSUME NEW s \in Slot, Submit(s) PROVE Goal
  BY <1>2, SubmitFacts DEF Grows
<1>3. ASSUME bump_version PROVE Goal
  <2>1. UNCHANGED accountVars \/ (AccountInv' /\ mode' = mode /\ chain' = chain)
    BY <1>3, BumpFacts DEF accountVars
  <2> QED
    BY <1>1, <2>1 DEF Grows
<1>4. ASSUME NEW op \in pool, NEW ok \in BOOLEAN, Block(op, ok) PROVE Goal
  <2>1. AccountInv' /\ mode' = mode
    BY <1>0, <1>4, Included
  <2>2. CASE chain' = chain
    BY <2>1, <2>2 DEF Grows
  <2>3. CASE Passes(chain, op.bumps, op.call) /\ chain' = AfterCall(AfterBumps(chain, op.bumps), op.call)
    <3>1. PICK d : d = AfterCall(AfterBumps(chain, op.bumps), op.call)
      OBVIOUS
    <3>2. /\ chain \in Contracts /\ chain.revoked \subseteq chain.granted
          /\ op.bumps \in Bumps /\ op.call \in Call
          /\ op.call.kind \in {"grant", "revoke"} => op.call.g \in GrantId
      BY <1>0 DEF AccountInv, AccountTypeOK, Op
    <3>3. /\ DOMAIN chain.version \subseteq DOMAIN d.version /\ chain.granted \subseteq d.granted
          /\ chain.revoked \subseteq d.revoked /\ chain.bumped \subseteq d.bumped
      BY <2>3, <3>1, <3>2, BatchApplied
    <3> QED
      BY <2>1, <2>3, <3>1, <3>3 DEF Grows
  <2> QED
    BY <1>0, <1>4, <2>2, <2>3, Included
<1> HIDE DEF Goal
<1>5. ASSUME NEW s \in Slot, Runs(s) PROVE Goal
  BY <1>1, <1>2, <1>5, IdlesFrame DEF Runs, Idles
<1>6. Goal
  BY <1>1, <1>3, <1>4, <1>5, IdlesFrame, ElsewhereFrame DEF Next, Idles, Elsewhere
<1> QED
  BY <1>6 DEF Goal

-----------------------------------------------------------------------------
(***************************************************************************)
(* The calls                                                               *)
(***************************************************************************)

\* The call in slot s takes these values and the other calls stay.
Becomes(s, pc, kind, f, g, waiting, tx) ==
    /\ call' \in [Slot -> CallRec]
    /\ \A t \in Slot : t # s => call'[t] = call[t]
    /\ call'[s].pc = pc /\ call'[s].kind = kind /\ call'[s].file = f /\ call'[s].g = g
    /\ call'[s].waiting = waiting /\ call'[s].tx = tx
    /\ call'[s].linked => call[s].linked \/ link

LEMMA StartsFacts ==
    ASSUME CallInv, link \in BOOLEAN, NEW s \in Slot, NEW pc \in CallPc,
           NEW kind \in {"register", "grant", "revoke", "deny"},
           NEW f \in File, NEW g \in GrantId \cup {NoGrant}, Starts(s, pc, kind, f, g)
    PROVE  Becomes(s, pc, kind, f, g, <<>>, FALSE)
<1> DEFINE c == [NoCall EXCEPT !.pc = pc, !.kind = kind, !.file = f, !.g = g, !.linked = link]
<1>1. /\ c \in CallRec
      /\ c.pc = pc /\ c.kind = kind /\ c.file = f /\ c.g = g
      /\ c.waiting = <<>> /\ c.tx = FALSE /\ c.linked = link
  BY BumpsFacts DEF NoCall, CallRec
<1>2. call \in [Slot -> CallRec] /\ call' = [call EXCEPT ![s] = c]
  BY <1>1 DEF Starts, CallInv, CallFits
<1> HIDE DEF c
<1> QED
  BY <1>1, <1>2 DEF Becomes

LEMMA GoesFacts ==
    ASSUME CallInv, NEW s \in Slot, NEW pc \in CallPc, Goes(s, pc)
    PROVE  Becomes(s, pc, call[s].kind, call[s].file, call[s].g, call[s].waiting, call[s].tx)
<1>1. call \in [Slot -> CallRec] /\ call[s] \in CallRec
  BY DEF CallInv, CallFits
<1> DEFINE c == [call[s] EXCEPT !.pc = pc]
<1>2. /\ c \in CallRec
      /\ c.pc = pc /\ c.kind = call[s].kind /\ c.file = call[s].file /\ c.g = call[s].g
      /\ c.waiting = call[s].waiting /\ c.tx = call[s].tx /\ c.linked = call[s].linked
  BY <1>1 DEF CallRec
<1>3. call' = [call EXCEPT ![s] = c]
  BY <1>1, <1>2 DEF Goes
<1> HIDE DEF c
<1> QED
  BY <1>1, <1>2, <1>3 DEF Becomes

LEMMA EndsFacts ==
    ASSUME CallInv, NEW s \in Slot, Ends(s)
    PROVE  /\ Becomes(s, "over", "none", "none", NoGrant, <<>>, FALSE)
           /\ call'[s] = Over
<1>1. /\ call \in [Slot -> CallRec] /\ Over \in CallRec /\ call' = [call EXCEPT ![s] = Over]
      /\ Over.pc = "over" /\ Over.kind = "none" /\ Over.file = "none" /\ Over.g = NoGrant
      /\ Over.waiting = <<>> /\ Over.tx = FALSE /\ Over.linked = FALSE
  BY RecordFacts DEF CallInv, CallFits, Ends, Over, NoCall
<1> QED
  BY <1>1 DEF Becomes

LEMMA TakeNonceFacts ==
    ASSUME CallInv, AccountInv, LedgerTypeOK, NEW s \in Slot, TakeNonce(s)
    PROVE  \E n \in Nat, g \in GrantId :
              /\ call[s].kind = "grant" /\ call[s].g \in GrantId
              /\ g.req = call[s].g.req /\ g.header = call[s].g.header /\ g.nonce = n /\ g.by = call[s].g.by
              /\ Becomes(s, IF call[s].linked THEN "queue" ELSE "send", "grant", call[s].file, g,
                         call[s].waiting, call[s].tx)
              /\ \/ call[s].linked /\ UNCHANGED ledgerVars
                 \/ n = grant_nonce /\ next_grant_nonce
<1>1. call \in [Slot -> CallRec] /\ call[s] \in CallRec /\ call[s].pc = "nonce"
  BY DEF CallInv, CallFits, TakeNonce
<1>2. call[s].kind = "grant" /\ call[s].g \in GrantId
  BY <1>1 DEF CallInv, CallFits, CallRec, NoCall, Over
<1>3. PICK pc \in CallPc : pc = IF call[s].linked THEN "queue" ELSE "send"
  BY DEF CallPc
<1>4. PICK n \in Nat : /\ call' = [call EXCEPT ![s].pc = pc, ![s].g.nonce = n]
                       /\ \/ call[s].linked /\ UNCHANGED ledgerVars
                          \/ n = grant_nonce /\ next_grant_nonce
  <2>1. chain.nonce \in Nat /\ grant_nonce \in Nat
    BY DEF AccountInv, AccountTypeOK, LedgerTypeOK
  <2> QED
    BY <1>3, <2>1 DEF TakeNonce
<1> DEFINE g == [call[s].g EXCEPT !.nonce = n]
<1>5. /\ g \in GrantId
      /\ g.req = call[s].g.req /\ g.header = call[s].g.header
      /\ g.nonce = n /\ g.by = call[s].g.by
  BY <1>2 DEF GrantId
<1> DEFINE c == [call[s] EXCEPT !.pc = pc, !.g = g]
<1>6. /\ c \in CallRec
      /\ c.pc = pc /\ c.kind = call[s].kind /\ c.file = call[s].file /\ c.g = g
      /\ c.waiting = call[s].waiting /\ c.tx = call[s].tx /\ c.linked = call[s].linked
  <2> HIDE DEF g
  <2> QED
    BY <1>1, <1>5 DEF CallRec
<1>7. call' = [call EXCEPT ![s] = c]
  <2> DEFINE a == [call[s] EXCEPT !.pc = pc]
  <2>1. a.g = call[s].g /\ c = [a EXCEPT !.g = [a.g EXCEPT !.nonce = n]]
    BY <1>1 DEF CallRec
  <2>2. call' = [[call EXCEPT ![s] = a] EXCEPT ![s] = [a EXCEPT !.g = [a.g EXCEPT !.nonce = n]]]
    BY <1>1, <1>4
  <2> HIDE DEF a, c
  <2> QED
    BY <1>1, <2>1, <2>2
<1> HIDE DEF c, g
<1>8. Becomes(s, pc, "grant", call[s].file, g, call[s].waiting, call[s].tx)
  BY <1>1, <1>2, <1>6, <1>7 DEF Becomes
<1> QED
  BY <1>2, <1>3, <1>4, <1>5, <1>8

LEMMA ReadQueueFacts ==
    ASSUME CallInv, LedgerTypeOK, NEW s \in Slot, ReadQueue(s)
    PROVE  Becomes(s, "submit", call[s].kind, call[s].file, call[s].g, deferred_bumps, call[s].tx)
<1>1. call \in [Slot -> CallRec] /\ call[s] \in CallRec /\ deferred_bumps \in Bumps
  BY BumpsFacts DEF CallInv, CallFits, LedgerTypeOK
<1> DEFINE c == [call[s] EXCEPT !.pc = "submit", !.waiting = deferred_bumps]
<1>2. /\ c \in CallRec
      /\ c.pc = "submit" /\ c.kind = call[s].kind /\ c.file = call[s].file
      /\ c.g = call[s].g /\ c.waiting = deferred_bumps /\ c.tx = call[s].tx /\ c.linked = call[s].linked
  BY <1>1 DEF CallRec, CallPc
<1>3. call' = [call EXCEPT ![s] = c]
  BY <1>1, <1>2 DEF ReadQueue
<1> HIDE DEF c
<1> QED
  BY <1>1, <1>2, <1>3 DEF Becomes

LEMMA LandedFacts ==
    ASSUME CallInv, NEW s \in Slot, Landed(s)
    PROVE  \E pc \in {"send", "mark", "settx"} :
              /\ Becomes(s, pc, call[s].kind, call[s].file, call[s].g, <<>>, TRUE)
              /\ <<call[s].kind, pc>> \in {<<"grant", "send">>, <<"revoke", "mark">>, <<"register", "settx">>}
<1>1. call \in [Slot -> CallRec] /\ call[s] \in CallRec /\ call[s].pc = "wait"
  BY DEF CallInv, CallFits, Landed
<1>2. call[s].kind \in {"grant", "revoke", "register"}
  BY <1>1 DEF CallInv, CallFits, CallRec, NoCall, Over
<1>3. PICK pc \in {"send", "mark", "settx"} :
         /\ <<call[s].kind, pc>> \in {<<"grant", "send">>, <<"revoke", "mark">>, <<"register", "settx">>}
         /\ call' = [call EXCEPT ![s].tx = TRUE, ![s].waiting = <<>>, ![s].pc = pc]
  BY <1>2 DEF Landed
<1> DEFINE c == [call[s] EXCEPT !.tx = TRUE, !.waiting = <<>>, !.pc = pc]
<1>4. /\ c \in CallRec
      /\ c.pc = pc /\ c.kind = call[s].kind /\ c.file = call[s].file
      /\ c.g = call[s].g /\ c.waiting = <<>> /\ c.tx = TRUE /\ c.linked = call[s].linked
  BY <1>1, BumpsFacts DEF CallRec, CallPc
<1>5. call' = [call EXCEPT ![s] = c]
  BY <1>1, <1>3, <1>4
<1> HIDE DEF c
<1> QED
  BY <1>1, <1>3, <1>4, <1>5 DEF Becomes

LEMMA WriteFailsFacts ==
    ASSUME CallInv, NEW s \in Slot, WriteFails(s), call[s].kind # "register"
    PROVE  \E pc \in {"send", "mark", "withheld"} :
              /\ Becomes(s, pc, call[s].kind, call[s].file, call[s].g, <<>>, call[s].tx)
              /\ IF call[s].kind = "revoke" THEN pc = "mark"
                 ELSE call[s].kind = "grant" /\ pc = IF Smart THEN "withheld" ELSE "send"
<1>1. call \in [Slot -> CallRec] /\ call[s] \in CallRec /\ call[s].pc \in {"submit", "wait"}
  BY DEF CallInv, CallFits, WriteFails
<1>2. call[s].kind \in {"grant", "revoke"}
  BY <1>1 DEF CallInv, CallFits, CallRec, NoCall, Over
<1>3. PICK pc \in {"send", "mark", "withheld"} :
         /\ IF call[s].kind = "revoke" THEN pc = "mark"
            ELSE call[s].kind = "grant" /\ pc = IF Smart THEN "withheld" ELSE "send"
         /\ call' = [call EXCEPT ![s].waiting = <<>>, ![s].pc = pc]
  BY <1>2 DEF WriteFails
<1> DEFINE c == [call[s] EXCEPT !.waiting = <<>>, !.pc = pc]
<1>4. /\ c \in CallRec
      /\ c.pc = pc /\ c.kind = call[s].kind /\ c.file = call[s].file
      /\ c.g = call[s].g /\ c.waiting = <<>> /\ c.tx = call[s].tx /\ c.linked = call[s].linked
  BY <1>1, BumpsFacts DEF CallRec, CallPc
<1>5. call' = [call EXCEPT ![s] = c]
  BY <1>1, <1>3, <1>4
<1> HIDE DEF c
<1> QED
  BY <1>1, <1>3, <1>4, <1>5 DEF Becomes

\* Of what the calls refer to nothing goes away.
Keeps ==
    /\ mode' = mode
    /\ DOMAIN files \subseteq DOMAIN files' /\ DOMAIN grants \subseteq DOMAIN grants'
    /\ DOMAIN asked \subseteq DOMAIN asked'

LEMMA AskedGrows == ASSUME StateInv, Next PROVE DOMAIN asked \subseteq DOMAIN asked'
<1>1. ASSUME NEW s \in Slot, Idles(s) \/ Submit(s) PROVE UNCHANGED peerVars
  BY <1>1 DEF Idles, seal_file, decide, revoke_grant, TakeNonce, GivesUp, ReadQueue, Submit, Landed,
       WriteFails, SetRegisteredTx, Send, SendFails, Record, Tell, TellFails, Mark
<1>2. ASSUME NEW s \in Slot, Runs(s) PROVE UNCHANGED peerVars
  BY <1>1, <1>2 DEF Runs, Idles
<1>3. ASSUME NEW r \in Req, NEW h \in Header, Ask(r, h) PROVE DOMAIN asked \subseteq DOMAIN asked'
  BY <1>3 DEF Ask, Put
<1>4. ASSUME \/ bump_version \/ WatchGoesOn \/ Crash
             \/ \E n \in inbox \ Req : WatchNotice(n)
             \/ \E r \in inbox \cap Req : WatchShows(r)
             \/ \E m \in sent : \E f \in File : Save(m.g, f)
             \/ WatchLooks \/ LinkUp \/ LinkReplaced
             \/ \E op \in pool, ok \in BOOLEAN : Block(op, ok)
      PROVE  asked' = asked
  BY <1>4 DEF bump_version, WatchGoesOn, Crash, WatchNotice, WatchShows, Save, WatchLooks, LinkUp, LinkReplaced, Block, peerVars
<1>5. asked' = asked \/ DOMAIN asked \subseteq DOMAIN asked'
  BY <1>1, <1>2, <1>3, <1>4 DEF Next, Idles, peerVars
<1> QED
  BY <1>5

LEMMA FitStays ==
    ASSUME NEW t \in Slot, CallFits(t), call'[t] = call[t], Keeps
    PROVE  CallFits(t)'
BY DEF CallFits, Keeps, HasWriter

\* Only one call moves at a time, so the invariant is about that call.
LEMMA OneFits ==
    ASSUME CallInv, Keeps, NEW s \in Slot, call' \in [Slot -> CallRec],
           \A t \in Slot : t # s => call'[t] = call[t], CallFits(s)'
    PROVE  CallInv'
BY FitStays DEF CallInv

LEMMA CallStep == ASSUME StateInv, Next PROVE CallInv' /\ Keeps
<1>0. LedgerTypeOK /\ AccountInv /\ CallInv /\ PeerInv /\ link \in BOOLEAN /\ (link => HasWriter)
      /\ \A t \in Slot : call[t].linked => HasWriter
  BY DEF StateInv, PeerInv, CallInv, CallFits
<1>1. Keeps
  BY LedgerStep, AccountStep, AskedGrows DEF Keeps, Grows
<1>2. HasWriter' = HasWriter
  BY <1>1 DEF Keeps, HasWriter
<1>3. ASSUME NEW s \in Slot, Ends(s) PROVE CallInv'
  <2>1. call'[s] = Over /\ call' \in [Slot -> CallRec] /\ \A t \in Slot : t # s => call'[t] = call[t]
    BY <1>0, <1>3, EndsFacts DEF Becomes
  <2>2. CallFits(s)'
    BY <2>1 DEF CallFits, Over, NoCall
  <2> QED
    BY <1>0, <1>1, <2>1, <2>2, OneFits
<1>4. ASSUME call' = call PROVE CallInv'
  BY <1>0, <1>1, <1>4, FitStays DEF CallInv
<1>5. ASSUME NEW s \in Slot, NEW pc \in CallPc, NEW kind \in {"register", "grant", "revoke", "deny"},
             NEW f \in File, NEW g \in GrantId \cup {NoGrant}, NEW w, NEW tx, Becomes(s, pc, kind, f, g, w, tx),
             pc \in {"queue", "submit", "wait"} => HasWriter,
             kind = "register" => f \in DOMAIN files' /\ pc \in {"queue", "submit", "wait", "settx"},
             kind = "grant" => /\ g \in GrantId /\ g.req \in DOMAIN asked
                               /\ pc \in {"nonce", "queue", "submit", "wait", "send", "record", "withheld"},
             kind = "deny" => g \in GrantId /\ g.req \in DOMAIN asked /\ pc \in {"send", "record"},
             kind = "revoke" => g \in DOMAIN grants /\ pc \in {"tell", "queue", "submit", "wait", "mark"}
      PROVE  CallInv'
  <2>1. CallFits(s)'
    BY <1>0, <1>1, <1>2, <1>5 DEF CallFits, Becomes, Keeps
  <2> QED
    BY <1>0, <1>1, <1>5, <2>1, OneFits DEF Becomes
<1>6. ASSUME NEW s \in Slot, NEW f \in File, seal_file(s, f) PROVE CallInv'
  <2>1. CASE link
    <3>1. Becomes(s, "queue", "register", f, NoGrant, <<>>, FALSE)
      BY <1>0, <1>6, <2>1, StartsFacts DEF seal_file, CallPc
    <3>2. f \in DOMAIN files'
      BY <1>6 DEF seal_file, record, Put
    <3> QED
      BY <1>0, <1>5, <2>1, <3>1, <3>2 DEF CallPc
  <2> QED
    BY <1>3, <1>6, <2>1 DEF seal_file
<1>7. ASSUME NEW s \in Slot, NEW r \in Req, NEW d \in {"allow", "deny"}, decide(s, r, d) PROVE CallInv'
  <2>1. terms_for(r, s) \in GrantId /\ terms_for(r, s).req = r /\ r \in DOMAIN asked /\ Fid[r] \in File
    BY <1>0, <1>7, OwnerAssumption DEF PeerInv, decide, terms_for, GrantId
  <2>2. CASE d = "allow"
    <3>1. Becomes(s, "nonce", "grant", Fid[r], terms_for(r, s), <<>>, FALSE)
      BY <1>0, <1>7, <2>1, <2>2, StartsFacts DEF decide, CallPc
    <3> QED
      BY <1>5, <2>1, <3>1 DEF CallPc
  <2>3. CASE d = "deny"
    <3>1. Becomes(s, "send", "deny", Fid[r], terms_for(r, s), <<>>, FALSE)
      BY <1>0, <1>7, <2>1, <2>3, StartsFacts DEF decide, CallPc
    <3> QED
      BY <1>5, <2>1, <3>1 DEF CallPc
  <2> QED
    BY <2>2, <2>3
<1>8. ASSUME NEW s \in Slot, NEW g \in DOMAIN grants, revoke_grant(s, g) PROVE CallInv'
  <2>1. g \in GrantId /\ Fid[g.req] \in File
    BY <1>0, OwnerAssumption DEF LedgerTypeOK, GrantId
  <2>2. Becomes(s, "tell", "revoke", Fid[g.req], g, <<>>, FALSE)
    BY <1>0, <1>8, <2>1, StartsFacts DEF revoke_grant, CallPc
  <2> QED
    BY <1>5, <2>1, <2>2 DEF CallPc
<1>9. ASSUME NEW s \in Slot, Runs(s) PROVE CallInv'
  <2>0. /\ call[s] \in CallRec /\ call[s].g \in GrantId \cup {NoGrant}
        /\ call[s].pc \notin {"free", "over"} =>
              call[s].kind \in {"register", "grant", "revoke", "deny"} /\ call[s].file \in File
        /\ CallFits(s)
    <3>1. call[s] \in CallRec /\ CallFits(s)
      BY <1>0 DEF CallInv
    <3>2. call[s].kind = "none" => call[s].pc \in {"free", "over"}
      BY <3>1 DEF CallFits, NoCall, Over
    <3> QED
      BY <3>1, <3>2 DEF CallFits, CallRec
  <2>1. CASE TakeNonce(s)
    <3>1. PICK n \in Nat, g \in GrantId :
             /\ call[s].kind = "grant" /\ call[s].g \in GrantId /\ g.req = call[s].g.req
             /\ Becomes(s, IF call[s].linked THEN "queue" ELSE "send", "grant", call[s].file, g,
                        call[s].waiting, call[s].tx)
      BY <1>0, <2>1, TakeNonceFacts
    <3>2. g.req \in DOMAIN asked /\ call[s].file \in File
      BY <2>0, <3>1 DEF CallFits
    <3>3. PICK pc \in CallPc : pc = IF call[s].linked THEN "queue" ELSE "send"
      BY DEF CallPc
    <3> QED
      BY <1>0, <1>5, <3>1, <3>2, <3>3
  <2>2. CASE GivesUp(s) \/ SetRegisteredTx(s) \/ SendFails(s) \/ Record(s) \/ TellFails(s) \/ Mark(s)
    BY <1>3, <2>2 DEF GivesUp, SetRegisteredTx, SendFails, Record, TellFails, Mark
  <2>3. CASE ReadQueue(s)
    <3>1. /\ Becomes(s, "submit", call[s].kind, call[s].file, call[s].g, deferred_bumps, call[s].tx)
          /\ call[s].pc = "queue"
      BY <1>0, <2>3, ReadQueueFacts DEF ReadQueue
    <3> QED
      BY <1>1, <1>5, <2>0, <3>1 DEF CallPc, CallFits, Keeps
  <2>4. CASE Submit(s)
    <3>1. /\ Becomes(s, "wait", call[s].kind, call[s].file, call[s].g, call[s].waiting, call[s].tx)
          /\ call[s].pc = "submit"
      BY <1>0, <2>4, GoesFacts DEF Submit, CallPc
    <3> QED
      BY <1>1, <1>5, <2>0, <3>1 DEF CallPc, CallFits, Keeps
  <2>5. CASE Landed(s)
    <3>1. PICK pc \in {"send", "mark", "settx"} :
              /\ Becomes(s, pc, call[s].kind, call[s].file, call[s].g, <<>>, TRUE)
              /\ <<call[s].kind, pc>> \in {<<"grant", "send">>, <<"revoke", "mark">>, <<"register", "settx">>}
      BY <1>0, <2>5, LandedFacts
    <3>2. call[s].pc = "wait"
      BY <2>5 DEF Landed
    <3> QED
      BY <1>1, <1>5, <2>0, <3>1, <3>2 DEF CallPc, CallFits, Keeps
  <2>6. CASE WriteFails(s)
    <3>1. CASE call[s].kind = "register"
      BY <1>3, <2>6, <3>1 DEF WriteFails
    <3>2. CASE call[s].kind # "register"
      <4>1. PICK pc \in {"send", "mark", "withheld"} :
              /\ Becomes(s, pc, call[s].kind, call[s].file, call[s].g, <<>>, call[s].tx)
              /\ IF call[s].kind = "revoke" THEN pc = "mark"
                 ELSE call[s].kind = "grant" /\ pc = IF Smart THEN "withheld" ELSE "send"
        BY <1>0, <2>6, <3>2, WriteFailsFacts
      <4>2. call[s].pc \in {"submit", "wait"}
        BY <2>6 DEF WriteFails
      <4> QED
        BY <1>5, <2>0, <4>1, <4>2 DEF CallPc, CallFits
    <3> QED
      BY <3>1, <3>2
  <2>7. CASE Send(s)
    <3>1. /\ Becomes(s, "record", call[s].kind, call[s].file, call[s].g, call[s].waiting, call[s].tx)
          /\ call[s].pc = "send"
      BY <1>0, <2>7, GoesFacts DEF Send, CallPc
    <3> QED
      BY <1>5, <2>0, <3>1 DEF CallPc, CallFits
  <2>8. CASE Tell(s)
    <3>1. PICK pc \in CallPc : pc = IF call[s].linked /\ grants[call[s].g].tx_hash THEN "queue" ELSE "mark"
      BY DEF CallPc
    <3>2. /\ Becomes(s, pc, call[s].kind, call[s].file, call[s].g, call[s].waiting, call[s].tx)
          /\ call[s].pc = "tell"
      BY <1>0, <2>8, <3>1, GoesFacts DEF Tell
    <3> QED
      BY <1>0, <1>5, <2>0, <3>1, <3>2 DEF CallFits
  <2> QED
    BY <1>9, <2>1, <2>2, <2>3, <2>4, <2>5, <2>6, <2>7, <2>8 DEF Runs
<1>10. ASSUME Crash PROVE CallInv'
  <2>1. \A t \in Slot : call'[t] = call[t] \/ call'[t] = Over
    BY <1>10 DEF Crash
  <2>2. call' \in [Slot -> CallRec]
    BY <1>0, <1>10, RecordFacts DEF Crash, CallInv
  <2>3. ASSUME NEW t \in Slot PROVE CallFits(t)'
    <3>1. CASE call'[t] = call[t]
      BY <1>0, <1>1, <3>1, FitStays DEF CallInv
    <3>2. CASE call'[t] = Over
      BY <3>2 DEF CallFits, Over, NoCall
    <3> QED
      BY <2>1, <3>1, <3>2
  <2> QED
    BY <2>2, <2>3 DEF CallInv
<1>11. ASSUME \/ bump_version \/ WatchGoesOn
              \/ \E n \in inbox \ Req : WatchNotice(n)
              \/ \E r \in inbox \cap Req : WatchShows(r)
              \/ \E r \in Req : \E h \in Header : Ask(r, h)
              \/ \E m \in sent : \E f \in File : Save(m.g, f)
              \/ WatchLooks \/ LinkUp \/ LinkReplaced
              \/ \E op \in pool, ok \in BOOLEAN : Block(op, ok)
       PROVE  call' = call
  BY <1>11 DEF bump_version, WatchGoesOn, WatchNotice, WatchShows, Ask, Save, WatchLooks, LinkUp, LinkReplaced, Block, agentVars
<1> QED
  BY <1>1, <1>4, <1>6, <1>7, <1>8, <1>9, <1>10, <1>11 DEF Next

-----------------------------------------------------------------------------
(***************************************************************************)
(* The watcher, the requests and the recipients                            *)
(***************************************************************************)

LEMMA NoticeFacts ==
    ASSUME StateInv, NEW n \in inbox \ Req
    PROVE  /\ n \in Notice /\ n.g \in GrantId /\ n.header \in Header /\ n.g.req \in Req /\ n.fid \in File
           /\ n.header # <<>> /\ n.header[Len(n.header)] = n.g.req
<1>1. n \in Notice
  BY DEF StateInv, PeerInv
<1>2. n.g \in GrantId /\ n.header \in Header /\ n.g.req \in Req /\ n.fid \in File
  BY <1>1 DEF Notice, GrantId
<1> QED
  BY <1>1, <1>2 DEF StateInv, PeerInv

\* What an accepted notice leaves the watcher with.
LEMMA AnchoringFacts ==
    ASSUME StateInv, NEW n \in inbox \ Req
    PROVE  IF looked
           THEN /\ Anchoring(n).pc = "anchor" /\ Anchoring(n).about \in Bumps
                /\ Anchoring(n) \in [pc : {"idle", "anchor", "wait"}, about : Bumps]
                /\ DOMAIN Anchoring(n).about = {n.fid}
                /\ Anchoring(n).about[n.fid] = n.header
           ELSE Anchoring(n) = Idle
<1>1. n.header \in Header /\ n.fid \in File
  BY NoticeFacts
<1>2. [x \in {n.fid} |-> n.header] \in Bumps
  BY <1>1, BumpsFacts
<1> QED
  BY <1>2 DEF Anchoring

LEMMA WatchStep == ASSUME StateInv, Next PROVE WatchInv'
<1>0. WatchInv /\ Keeps /\ (looked => HasWriter)
  BY CallStep DEF StateInv, PeerInv
<1>1. Idle \in [pc : {"idle", "anchor", "wait"}, about : Bumps] /\ Idle.pc = "idle"
  BY BumpsFacts DEF Idle
<1>2. ASSUME watch' = watch PROVE WatchInv'
  BY <1>0, <1>2 DEF WatchInv, Keeps, HasWriter, Idle
<1>3. ASSUME watch' = Idle PROVE WatchInv'
  BY <1>1, <1>3 DEF WatchInv
<1>4. ASSUME NEW n \in inbox \ Req, WatchNotice(n) PROVE WatchInv'
  <2>1. CASE apply_version(n)
    <3>1. watch' = Anchoring(n) /\ n.fid \in DOMAIN files
      BY <1>4, <2>1 DEF WatchNotice, apply_version, Continues
    <3>2. CASE looked
      <4>1. /\ watch' \in [pc : {"idle", "anchor", "wait"}, about : Bumps] /\ watch'.pc = "anchor"
            /\ DOMAIN watch'.about = {n.fid} /\ n.fid \in DOMAIN files'
        BY <1>0, <1>4, <3>1, <3>2, AnchoringFacts DEF Keeps
      <4> QED
        BY <1>0, <3>2, <4>1 DEF WatchInv, HasWriter, Keeps
    <3> QED
      BY <1>3, <1>4, <3>1, <3>2, AnchoringFacts
  <2> QED
    BY <1>2, <1>4, <2>1 DEF WatchNotice
<1>5. ASSUME bump_version PROVE WatchInv'
  <2>1. watch' = Idle \/ (watch' = [watch EXCEPT !.pc = "wait"] /\ watch.pc = "anchor")
    BY <1>5, BumpFacts
  <2>2. CASE watch' = [watch EXCEPT !.pc = "wait"] /\ watch.pc = "anchor"
    <3>1. /\ watch' \in [pc : {"idle", "anchor", "wait"}, about : Bumps] /\ watch'.pc = "wait"
          /\ watch'.about = watch.about
      BY <1>0, <2>2 DEF WatchInv
    <3> QED
      BY <1>0, <2>2, <3>1 DEF WatchInv, HasWriter, Keeps
  <2> QED
    BY <1>3, <2>1, <2>2
<1>6. ASSUME WatchGoesOn \/ Crash PROVE WatchInv'
  BY <1>3, <1>6 DEF WatchGoesOn, Crash
<1>7. ASSUME NEW s \in Slot, Idles(s) \/ Submit(s) PROVE watch' = watch
  BY <1>7 DEF Idles, seal_file, decide, revoke_grant, TakeNonce, GivesUp, ReadQueue, Submit, Landed,
       WriteFails, SetRegisteredTx, Send, SendFails, Record, Tell, TellFails, Mark
<1>8. ASSUME NEW s \in Slot, Runs(s) PROVE watch' = watch
  BY <1>7, <1>8 DEF Runs, Idles
<1>9. ASSUME \/ \E r \in inbox \cap Req : WatchShows(r)
             \/ \E r \in Req : \E h \in Header : Ask(r, h)
             \/ \E m \in sent : \E f \in File : Save(m.g, f)
             \/ WatchLooks \/ LinkUp \/ LinkReplaced
             \/ \E op \in pool, ok \in BOOLEAN : Block(op, ok)
      PROVE  watch' = watch
  BY <1>9 DEF WatchShows, Ask, Save, WatchLooks, LinkUp, LinkReplaced, Block, agentVars
<1>10. watch' = watch \/ WatchInv'
  BY <1>4, <1>5, <1>6, <1>7, <1>8, <1>9 DEF Next, Idles
<1> QED
  BY <1>2, <1>10

\* Delivering an answer keeps the types of what was sent.
LEMMA DeliveredFacts ==
    ASSUME StateInv, NEW s \in Slot, call[s].pc = "send", Delivered(s)
    PROVE  /\ sent' \subseteq [g : GrantId, tx : BOOLEAN] /\ refused' \subseteq Req /\ cut' = cut
           /\ \A m \in sent' : m.g.req \in DOMAIN asked
           /\ call[s].kind \in {"grant", "deny"}
<1>1. call[s] \in CallRec /\ CallFits(s)
  BY DEF StateInv, CallInv
<1>2. /\ call[s].kind \in {"grant", "deny"} /\ call[s].g \in GrantId /\ call[s].g.req \in DOMAIN asked
      /\ call[s].tx \in BOOLEAN
  BY <1>1 DEF CallFits, CallRec, NoCall, Over
<1>3. /\ [g |-> call[s].g, tx |-> call[s].tx] \in [g : GrantId, tx : BOOLEAN]
      /\ [g |-> call[s].g, tx |-> call[s].tx].g.req \in DOMAIN asked
  BY <1>2
<1>4. /\ sent' \subseteq sent \cup {[g |-> call[s].g, tx |-> call[s].tx]}
      /\ refused' \subseteq refused \cup {call[s].g.req} /\ cut' = cut
  BY <1>2 DEF Delivered
<1> QED
  BY <1>2, <1>3, <1>4 DEF StateInv, PeerInv

LEMMA PeerStep == ASSUME StateInv, Next PROVE PeerInv'
<1>0. /\ PeerInv /\ Keeps /\ CallInv /\ LedgerTypeOK
      /\ mode' = mode /\ HasWriter' = HasWriter /\ MaxCrashes[mode] \in Nat
  <2>1. MaxCrashes[mode] \in Nat
    BY OwnerAssumption, AccountAssumption DEF StateInv, AccountInv, AccountTypeOK
  <2> QED
    BY <2>1, CallStep DEF StateInv, Keeps, HasWriter
<1>1. ASSUME UNCHANGED <<pending, inbox, asked, copy, sent, refused, shown, cut, link, looked, crashes>>,
             DOMAIN grants' = DOMAIN grants
      PROVE  PeerInv'
  BY <1>0, <1>1 DEF PeerInv, Keeps
<1>2. ASSUME NEW s \in Slot, Send(s) \/ SendFails(s) PROVE PeerInv'
  <2>1. /\ UNCHANGED <<pending, inbox, asked, copy, shown, link, looked, crashes, grants>>
        /\ call[s].pc = "send" /\ (Delivered(s) \/ UNCHANGED <<sent, refused, cut>>)
    BY <1>2 DEF Send, SendFails, ledgerVars, peerVars, history, runVars
  <2>2. CASE UNCHANGED <<sent, refused, cut>>
    BY <1>1, <2>1, <2>2
  <2>3. CASE Delivered(s)
    BY <1>0, <2>1, <2>3, DeliveredFacts DEF PeerInv, Keeps
  <2> QED
    BY <2>1, <2>2, <2>3
<1>3. ASSUME NEW s \in Slot, Record(s) PROVE PeerInv'
  <2>1. /\ UNCHANGED <<inbox, asked, copy, sent, refused, shown, cut, link, looked, crashes>>
        /\ pending' = Without(pending, call[s].g.req)
    BY <1>3 DEF Record, peerVars, history, runVars
  <2>2. \A g \in DOMAIN grants' : g.req \in DOMAIN asked
    <3>1. CASE call[s].kind = "grant"
      <4>1. call[s].g.req \in DOMAIN asked
        BY <1>0, <3>1 DEF CallInv, CallFits
      <4>2. DOMAIN grants' = DOMAIN grants \cup {call[s].g}
        BY <1>3, <3>1 DEF Record, record_grant, Put
      <4> QED
        BY <1>0, <4>1, <4>2 DEF PeerInv
    <3>2. CASE call[s].kind # "grant"
      BY <1>0, <1>3, <3>2 DEF Record, PeerInv, ledgerVars
    <3> QED
      BY <3>1, <3>2
  <2>3. DOMAIN pending' \subseteq DOMAIN pending /\ pending' \in [DOMAIN pending' -> Header]
    BY <1>0, <2>1 DEF Without, PeerInv
  <2> QED
    BY <1>0, <2>1, <2>2, <2>3 DEF PeerInv, Keeps
<1>4. ASSUME NEW n \in inbox \ Req, WatchNotice(n) PROVE PeerInv'
  <2>1. /\ UNCHANGED <<grants, pending, asked, copy, sent, refused, shown, link, looked, crashes>>
        /\ inbox' \subseteq inbox /\ cut' \subseteq cut \cup {n.fid}
    BY <1>4 DEF WatchNotice, advance_version, Handed, runVars, ledgerVars
  <2> QED
    BY <1>0, <2>1, NoticeFacts DEF PeerInv, Keeps
<1>5. ASSUME NEW r \in inbox \cap Req, WatchShows(r) PROVE PeerInv'
  <2>1. /\ UNCHANGED <<files, grants, asked, copy, sent, refused, cut, link, looked, crashes>>
        /\ inbox' \subseteq inbox /\ shown' = shown \cup {r}
        /\ pending' = Put(pending, r, files[Fid[r]].header)
    BY <1>5 DEF WatchShows, history, runVars, ledgerVars
  <2>2. r \in Req /\ r \in DOMAIN asked /\ files[Fid[r]].header \in Header
    BY <1>0 DEF PeerInv, LedgerTypeOK, Entry
  <2>3. DOMAIN pending' = DOMAIN pending \cup {r} /\ pending' \in [DOMAIN pending' -> Header]
    BY <1>0, <2>1, <2>2 DEF PeerInv, Put
  <2> QED
    BY <1>0, <2>1, <2>2, <2>3 DEF PeerInv, Keeps
<1>6. ASSUME NEW r \in Req, NEW h \in Header, Ask(r, h) PROVE PeerInv'
  <2>1. /\ UNCHANGED <<files, grants, pending, sent, refused, shown, cut, link, looked, crashes>>
        /\ asked' = Put(asked, r, h) /\ copy' = Put(copy, r, h) /\ inbox' = inbox \cup {r}
        /\ Fid[r] \in DOMAIN files
    BY <1>6 DEF Ask, history, runVars, ledgerVars, agentVars
  <2>2. /\ DOMAIN asked' = DOMAIN asked \cup {r}
        /\ asked' \in [DOMAIN asked' -> Header] /\ copy' \in [DOMAIN asked' -> Header]
    BY <1>0, <2>1 DEF PeerInv, Put
  <2> QED
    BY <1>0, <2>1, <2>2 DEF PeerInv
<1>7. ASSUME NEW m \in sent, NEW f \in File, Save(m.g, f) PROVE PeerInv'
  <2> DEFINE r == m.g.req
             h == Append(copy[r], r)
             n == [g |-> m.g, fid |-> f, header |-> h]
  <2>1. r \in DOMAIN asked /\ r \in Req /\ m.g \in GrantId /\ copy[r] \in Header /\ DOMAIN copy = DOMAIN asked
    BY <1>0 DEF PeerInv, GrantId
  <2>2. /\ UNCHANGED <<files, grants, pending, asked, sent, refused, shown, cut, link, looked, crashes>>
        /\ copy' = [copy EXCEPT ![r] = h] /\ inbox' = inbox \cup {[g |-> m.g, fid |-> f, header |-> copy'[r]]}
        /\ Ver(copy[r]) < MaxSaved[mode]
    BY <1>7 DEF Save, history, runVars, ledgerVars, agentVars
  <2>3. h \in Header /\ h # <<>> /\ h[Len(h)] = r
    <3>1. MaxSaved[mode] \in 1 .. MaxVer
      BY OwnerAssumption, AccountAssumption DEF StateInv, AccountInv, AccountTypeOK
    <3>2. copy[r] \in Seq(Req) /\ Len(copy[r]) + 1 < MaxSaved[mode]
      BY <2>1, <2>2, HeaderFacts DEF Ver
    <3>3. h \in Seq(Req) /\ Len(h) = Len(copy[r]) + 1 /\ h[Len(h)] = r
      BY <2>1, <3>2
    <3>4. Len(h) < MaxVer /\ h # <<>>
      BY <3>1, <3>2, <3>3, LedgerAssumption
    <3> QED
      BY <3>3, <3>4, HeaderFacts
  <2> HIDE DEF h
  <2>4. copy' \in [DOMAIN asked -> Header] /\ copy'[r] = h
    BY <1>0, <2>1, <2>2, <2>3 DEF PeerInv
  <2>5. n \in Notice /\ n \notin Req /\ n.g.req = r /\ n.header = h
    BY <2>1, <2>3, OwnerAssumption DEF Notice
  <2>6. inbox' = inbox \cup {n}
    BY <2>2, <2>4
  <2> HIDE DEF n, r
  <2> QED
    BY <1>0, <2>2, <2>3, <2>4, <2>5, <2>6 DEF PeerInv
<1>8. ASSUME Crash PROVE PeerInv'
  <2>1. /\ UNCHANGED <<files, grants, inbox, asked, copy, sent, refused>>
        /\ pending' = <<>> /\ shown' = {} /\ crashes' = crashes + 1 /\ crashes < MaxCrashes[mode]
        /\ link' = FALSE /\ looked' = FALSE
        /\ cut' \subseteq cut \cup DOMAIN watch.about
    BY <1>8 DEF Crash, ledgerVars, peerVars
  <2>2. DOMAIN watch.about \subseteq File
    BY BumpsFacts DEF StateInv, WatchInv
  <2>3. DOMAIN pending' = {} /\ pending' \in [DOMAIN pending' -> Header]
    <3>1. <<>> = [y \in {} |-> <<>>] /\ DOMAIN <<>> = {}
      BY BumpsFacts
    <3> QED
      BY <2>1, <3>1
  <2>4. crashes' \in 0 .. MaxCrashes[mode]
    BY <1>0, <2>1 DEF PeerInv
  <2> QED
    BY <1>0, <2>1, <2>2, <2>3, <2>4 DEF PeerInv
<1>9. ASSUME NEW s \in Slot, \/ \E f \in File : seal_file(s, f)
                             \/ \E r \in Req, d \in {"allow", "deny"} : decide(s, r, d)
                             \/ \E g \in DOMAIN grants : revoke_grant(s, g)
                             \/ TakeNonce(s) \/ GivesUp(s) \/ ReadQueue(s) \/ Submit(s) \/ Landed(s)
                             \/ WriteFails(s) \/ SetRegisteredTx(s) \/ Tell(s) \/ TellFails(s) \/ Mark(s)
      PROVE  PeerInv'
  <2>1. UNCHANGED <<pending, inbox, asked, copy, sent, refused, shown, cut, link, looked, crashes>>
    BY <1>9 DEF seal_file, decide, revoke_grant, TakeNonce, GivesUp, ReadQueue, Submit, Landed,
       WriteFails, SetRegisteredTx, Tell, TellFails, Mark, peerVars, history, runVars
  <2>2. DOMAIN grants' = DOMAIN grants
    BY <1>9 DEF seal_file, decide, revoke_grant, TakeNonce, GivesUp, ReadQueue, Submit, Landed,
       WriteFails, SetRegisteredTx, Tell, TellFails, Mark, ledgerVars, record, next_grant_nonce,
       clear_deferred_bumps, set_registered_tx, mark_revoked
  <2> QED
    BY <1>1, <2>1, <2>2
<1>10. ASSUME bump_version \/ WatchGoesOn \/ \E op \in pool, ok \in BOOLEAN : Block(op, ok)
       PROVE  PeerInv'
  <2>1. UNCHANGED <<pending, inbox, asked, copy, sent, refused, shown, cut, link, looked, crashes, grants>>
    BY <1>10 DEF bump_version, WatchGoesOn, Block, peerVars, history, runVars, ledgerVars, agentVars, defer_bump
  <2> QED
    BY <1>1, <2>1
<1>11. ASSUME WatchLooks \/ LinkUp \/ LinkReplaced PROVE PeerInv'
  <2>1. UNCHANGED <<grants, pending, inbox, asked, copy, sent, refused, shown, cut>>
    BY <1>11 DEF WatchLooks, LinkUp, LinkReplaced, ledgerVars, agentVars, peerVars, history
  <2>2. link' \in BOOLEAN /\ looked' \in BOOLEAN /\ (link' \/ looked' => HasWriter) /\ crashes' \in 0 .. MaxCrashes[mode]
    <3>1. CASE WatchLooks
      BY <1>0, <3>1 DEF WatchLooks, PeerInv
    <3>2. CASE LinkUp
      BY <1>0, <3>2 DEF LinkUp, PeerInv, HasWriter
    <3>3. CASE LinkReplaced
      <4>1. crashes' \in 0 .. MaxCrashes[mode]
        BY <1>0, <3>3 DEF LinkReplaced, PeerInv
      <4> QED
        BY <1>0, <3>3, <4>1 DEF LinkReplaced, PeerInv
    <3> QED
      BY <1>11, <3>1, <3>2, <3>3
  <2> QED
    BY <1>0, <2>1, <2>2 DEF PeerInv, Keeps
<1>12. ASSUME NEW s \in Slot, Runs(s) PROVE PeerInv'
  BY <1>2, <1>3, <1>9, <1>12 DEF Runs
<1> QED
  BY <1>4, <1>5, <1>6, <1>7, <1>8, <1>9, <1>10, <1>11, <1>12 DEF Next

LEMMA StateInvariance == Spec => []StateInv
<1>1. Init => StateInv
  <2> SUFFICES ASSUME Init PROVE StateInv
    OBVIOUS
  <2>0. <<>> = [y \in {} |-> <<>>] /\ DOMAIN <<>> = {} /\ <<>> \in Bumps
    BY BumpsFacts
  <2>1. LedgerTypeOK
    BY <2>0 DEF Init, LedgerInit, LedgerTypeOK
  <2>2. AccountInv
    <3>1. /\ chain \in Contracts /\ chain.version = <<>> /\ chain.nonce = 0 /\ chain.used = {}
          /\ chain.granted = {} /\ chain.revoked = {} /\ chain.bumped = {}
      BY <2>0 DEF Init, AccountInit, Contracts
    <3>2. mined \in [DOMAIN mined -> BOOLEAN] /\ DOMAIN mined = {} /\ pool = {} /\ seqno \in Nat /\ mode \in Modes
      BY <2>0 DEF Init, AccountInit
    <3>3. chain.version \in [DOMAIN chain.version -> Header] /\ DOMAIN chain.version = {}
      BY <2>0, <3>1
    <3> QED
      BY <3>1, <3>2, <3>3, FS_EmptySet DEF AccountInv, AccountTypeOK
  <2>3. CallInv
    BY RecordFacts DEF Init, CallInv, CallFits, NoCall
  <2>4. WatchInv
    BY <2>0 DEF Init, WatchInv, Idle
  <2>5. PeerInv
    <3>1. DOMAIN pending = {} /\ pending \in [DOMAIN pending -> Header]
      BY <2>0 DEF Init
    <3>2. DOMAIN asked = {} /\ asked \in [DOMAIN asked -> Header] /\ copy \in [DOMAIN asked -> Header]
      BY <2>0 DEF Init
    <3>3. DOMAIN grants = {} /\ crashes \in 0 .. MaxCrashes[mode]
      BY <2>0, <2>2, OwnerAssumption, AccountAssumption DEF Init, LedgerInit, AccountInv, AccountTypeOK
    <3> QED
      BY <3>1, <3>2, <3>3 DEF Init, PeerInv
  <2> QED
    BY <2>1, <2>2, <2>3, <2>4, <2>5 DEF StateInv
<1>2. StateInv /\ [Next]_vars => StateInv'
  <2> SUFFICES ASSUME StateInv, [Next]_vars PROVE StateInv'
    OBVIOUS
  <2>1. CASE Next
    BY <2>1, LedgerStep, AccountStep, CallStep, WatchStep, PeerStep DEF StateInv
  <2>2. CASE UNCHANGED vars
    <3>1. LedgerTypeOK' /\ AccountInv'
      BY <2>2 DEF StateInv, LedgerTypeOK, AccountInv, AccountTypeOK, vars, ledgerVars, accountVars
    <3>2. CallInv'
      BY <2>2 DEF StateInv, CallInv, CallFits, HasWriter, vars, ledgerVars, accountVars, agentVars, peerVars
    <3>3. WatchInv' /\ PeerInv'
      BY <2>2 DEF StateInv, WatchInv, PeerInv, HasWriter, vars, ledgerVars, accountVars, agentVars,
         peerVars, history, runVars
    <3> QED
      BY <3>1, <3>2, <3>3 DEF StateInv
  <2> QED
    BY <2>1, <2>2
<1> QED
  BY <1>1, <1>2, PTL DEF Spec

\* The owner's Agent keeps its types: what a call, a request, a notice or a queued version
\* names is there when a later step uses it (ledger.rs, approve.rs, chain.rs).
THEOREM OwnerTypeTheorem == Spec => []TypeOK
BY StateInvariance, StateTypeOK, PTL

-----------------------------------------------------------------------------
(***************************************************************************)
(* Writes that landed                                                      *)
(***************************************************************************)

\* What a step of a call does: it leaves the other calls alone, only Submit takes it to
\* where it waits, and an approval keeps the request and the version it was made for.
Moves(s) ==
    /\ call' \in [Slot -> CallRec]
    /\ \A t \in Slot : t # s => call'[t] = call[t]
    /\ call[s].pc \in Unsent \/ call'[s].pc \notin Unsent \cup {"wait"}
    /\ call'[s].pc = "record" => Send(s)
    /\ call'[s].kind = "grant" =>
          \/ \E r \in Req : decide(s, r, "allow") /\ call'[s].g = terms_for(r, s)
          \/ /\ call[s].kind = "grant"
             /\ call'[s].g.req = call[s].g.req /\ call'[s].g.header = call[s].g.header
    /\ Numbered(s)' => \/ Numbered(s) /\ call'[s].g = call[s].g
                       \/ TakeNonce(s) /\ ~call[s].linked
                       \/ mode = "direct"
    /\ call'[s].waiting \in {<<>>, call[s].waiting, deferred_bumps}

LEMMA MovesFacts == ASSUME StateInv, NEW s \in Slot, Idles(s) PROVE Moves(s)
<1>0. CallInv /\ AccountInv /\ LedgerTypeOK /\ link \in BOOLEAN
  BY DEF StateInv, PeerInv
<1>1. ASSUME Ends(s) PROVE Moves(s)
  BY <1>0, <1>1, EndsFacts DEF Moves, Becomes, Unsent, Numbered
<1>2. ASSUME NEW f \in File, seal_file(s, f) PROVE Moves(s)
  <2>1. CASE link
    <3>1. Becomes(s, "queue", "register", f, NoGrant, <<>>, FALSE) /\ call[s].pc = "free"
      BY <1>0, <1>2, <2>1, StartsFacts DEF seal_file, CallPc, Free
    <3> QED
      BY <3>1 DEF Moves, Becomes, Unsent, Numbered
  <2> QED
    BY <1>1, <1>2, <2>1 DEF seal_file
<1>3. ASSUME NEW r \in Req, NEW d \in {"allow", "deny"}, decide(s, r, d) PROVE Moves(s)
  <2>1. terms_for(r, s) \in GrantId /\ Fid[r] \in File /\ call[s].pc = "free"
    BY <1>3, OwnerAssumption DEF StateInv, PeerInv, decide, terms_for, GrantId, Free
  <2>2. CASE d = "allow"
    <3>1. Becomes(s, "nonce", "grant", Fid[r], terms_for(r, s), <<>>, FALSE)
      BY <1>0, <1>3, <2>1, <2>2, StartsFacts DEF decide, CallPc
    <3> QED
      BY <1>3, <2>1, <2>2, <3>1 DEF Moves, Becomes, Unsent, Numbered
  <2>3. CASE d = "deny"
    <3>1. Becomes(s, "send", "deny", Fid[r], terms_for(r, s), <<>>, FALSE)
      BY <1>0, <1>3, <2>1, <2>3, StartsFacts DEF decide, CallPc
    <3> QED
      BY <2>1, <3>1 DEF Moves, Becomes, Unsent, Numbered
  <2> QED
    BY <2>2, <2>3
<1>4. ASSUME NEW g \in DOMAIN grants, revoke_grant(s, g) PROVE Moves(s)
  <2>1. g \in GrantId /\ Fid[g.req] \in File /\ call[s].pc = "free"
    BY <1>0, <1>4, OwnerAssumption DEF LedgerTypeOK, GrantId, revoke_grant, Free
  <2>2. Becomes(s, "tell", "revoke", Fid[g.req], g, <<>>, FALSE)
    BY <1>0, <1>4, <2>1, StartsFacts DEF revoke_grant, CallPc
  <2> QED
    BY <2>1, <2>2 DEF Moves, Becomes, Unsent, Numbered
<1>5. ASSUME TakeNonce(s) PROVE Moves(s)
  <2>1. call[s].pc = "nonce"
    BY <1>5 DEF TakeNonce
  <2>2. PICK g \in GrantId :
           /\ call[s].kind = "grant" /\ g.req = call[s].g.req /\ g.header = call[s].g.header
           /\ Becomes(s, IF call[s].linked THEN "queue" ELSE "send", "grant", call[s].file, g, call[s].waiting, call[s].tx)
    BY <1>0, <1>5, TakeNonceFacts
  <2> QED
    BY <1>5, <2>1, <2>2 DEF Moves, Becomes, Unsent, Numbered
<1>6. ASSUME ReadQueue(s) PROVE Moves(s)
  <2>1. call[s].pc = "queue"
    BY <1>6 DEF ReadQueue
  <2> QED
    BY <1>0, <1>6, <2>1, ReadQueueFacts DEF Moves, Becomes, Unsent, Numbered
<1>7. call[s].pc \in {"submit", "wait"} => Smart \/ mode = "direct"
  BY <1>0, AccountAssumption DEF CallInv, CallFits, HasWriter, Smart, AccountInv, AccountTypeOK, AllModes
<1>8. ASSUME Landed(s) PROVE Moves(s)
  BY <1>0, <1>8, LandedFacts DEF Moves, Becomes, Unsent, Numbered
<1>9. ASSUME WriteFails(s) PROVE Moves(s)
  <2>1. CASE call[s].kind = "register"
    BY <1>1, <1>9, <2>1 DEF WriteFails
  <2>2. CASE call[s].kind # "register"
    <3>1. Smart \/ mode = "direct"
      BY <1>7, <1>9 DEF WriteFails
    <3>2. PICK pc \in {"send", "mark", "withheld"} :
             /\ Becomes(s, pc, call[s].kind, call[s].file, call[s].g, <<>>, call[s].tx)
             /\ IF call[s].kind = "revoke" THEN pc = "mark"
                ELSE call[s].kind = "grant" /\ pc = IF Smart THEN "withheld" ELSE "send"
      BY <1>0, <1>9, <2>2, WriteFailsFacts
    <3> QED
      BY <3>1, <3>2 DEF Moves, Becomes, Unsent, Numbered
  <2> QED
    BY <2>1, <2>2
<1>10. ASSUME Send(s) PROVE Moves(s)
  <2>1. /\ Becomes(s, "record", call[s].kind, call[s].file, call[s].g, call[s].waiting, call[s].tx)
        /\ call[s].pc = "send"
    BY <1>0, <1>10, GoesFacts DEF Send, CallPc
  <2> QED
    BY <1>10, <2>1 DEF Moves, Becomes, Unsent, Numbered
<1>11. ASSUME Tell(s) PROVE Moves(s)
  <2>1. PICK pc \in {"queue", "mark"} : pc \in CallPc /\ Goes(s, pc) /\ call[s].pc = "tell"
    BY <1>11 DEF Tell, CallPc
  <2>2. Becomes(s, pc, call[s].kind, call[s].file, call[s].g, call[s].waiting, call[s].tx)
    BY <1>0, <2>1, GoesFacts
  <2> QED
    BY <2>1, <2>2 DEF Moves, Becomes, Unsent, Numbered
<1>12. ASSUME GivesUp(s) \/ SetRegisteredTx(s) \/ SendFails(s) \/ Record(s) \/ TellFails(s) \/ Mark(s) PROVE Moves(s)
  BY <1>1, <1>12 DEF GivesUp, SetRegisteredTx, SendFails, Record, TellFails, Mark
<1> QED
  BY <1>2, <1>3, <1>4, <1>5, <1>6, <1>8, <1>9, <1>10, <1>11, <1>12 DEF Idles

LEMMA NextCases ==
    Next => \/ \E s \in Slot : Idles(s) \/ Submit(s)
            \/ bump_version
            \/ \E op \in pool, ok \in BOOLEAN : Block(op, ok)
            \/ Elsewhere
BY DEF Next, Runs, Idles, Elsewhere

LEMMA CallFrame ==
    ASSUME StateInv, \/ bump_version \/ \E op \in pool, ok \in BOOLEAN : Block(op, ok)
                     \/ Elsewhere
    PROVE  \/ call' = call
           \/ Crash /\ \A t \in Slot : call'[t] = call[t] \/ call'[t] = Over
<1>1. CASE Crash
  BY <1>1 DEF Crash
<1>2. CASE \/ bump_version \/ \E op \in pool, ok \in BOOLEAN : Block(op, ok)
           \/ WatchGoesOn
           \/ \E n \in inbox \ Req : WatchNotice(n)
           \/ \E r \in inbox \cap Req : WatchShows(r)
           \/ \E r \in Req : \E h \in Header : Ask(r, h)
           \/ \E m \in sent : \E f \in File : Save(m.g, f)
           \/ WatchLooks \/ LinkUp \/ LinkReplaced
  BY <1>2 DEF bump_version, Block, WatchGoesOn, WatchNotice, WatchShows, Ask, Save, WatchLooks, LinkUp, LinkReplaced, agentVars
<1> QED
  BY <1>1, <1>2 DEF Elsewhere

LEMMA LandStep == ASSUME StateInv, LandInv, Next PROVE LandInv'
<1>0. AccountInv /\ CallInv /\ Grows /\ Keeps
  BY AccountStep, CallStep DEF StateInv
<1>1. \A t \in Slot : call[t] \in CallRec
  BY <1>0 DEF CallInv
<1>2. ASSUME NEW op \in pool, op.by \in Slot => \/ call'[op.by] = call[op.by]
                                               \/ call'[op.by].pc \notin Unsent \cup {"wait"}
      PROVE  PoolFits(op)'
  BY <1>2 DEF LandInv, PoolFits
<1>3. ASSUME NEW s \in DOMAIN mined, s \in DOMAIN mined', mined'[s] = mined[s],
             call'[s] = call[s] \/ call'[s].pc \notin Unsent \cup {"wait"}
      PROVE  MinedFits(s)'
  <2>1. CASE call'[s] = call[s]
    BY <1>0, <1>3, <2>1 DEF LandInv, MinedFits, Executed, Grows
  <2>2. CASE call'[s].pc \notin Unsent \cup {"wait"}
    BY <2>2 DEF MinedFits
  <2> QED
    BY <1>3, <2>1, <2>2
<1>4. ASSUME UNCHANGED <<pool, mined>>,
             \A t \in Slot : \/ call'[t] = call[t]
                             \/ call[t].pc \in Unsent
                             \/ call'[t].pc \notin Unsent \cup {"wait"}
      PROVE  LandInv'
  <2>1. ASSUME NEW op \in pool PROVE PoolFits(op)'
    <3>1. op.by \in Slot => call[op.by].pc \notin Unsent
      BY DEF LandInv, PoolFits
    <3> QED
      BY <1>2, <1>4, <3>1
  <2>2. ASSUME NEW s \in DOMAIN mined PROVE MinedFits(s)'
    <3>1. s \in Slot /\ call[s].pc \notin Unsent
      BY <1>0 DEF LandInv, MinedFits, AccountInv, AccountTypeOK
    <3> QED
      BY <1>3, <1>4, <3>1
  <2> QED
    BY <1>4, <2>1, <2>2 DEF LandInv
<1>5. ASSUME NEW s \in Slot, Idles(s) PROVE LandInv'
  BY <1>4, <1>5, MovesFacts, IdlesFrame DEF accountVars, Moves
<1>6. ASSUME NEW s \in Slot, Submit(s) PROVE LandInv'
  <2>1. /\ Becomes(s, "wait", call[s].kind, call[s].file, call[s].g, call[s].waiting, call[s].tx)
        /\ call[s].pc = "submit"
    BY <1>0, <1>6, GoesFacts DEF Submit, CallPc
  <2>2. PICK k \in Call : k = [kind |-> call[s].kind, file |-> call[s].file, g |-> call[s].g]
    BY <1>6, SubmitFacts
  <2>3. PICK n \in Nat : pool' = pool \cup {[by |-> s, nonce |-> n, bumps |-> call[s].waiting, call |-> k]}
    BY <1>6, <2>2, SubmitFacts
  <2>4. PICK o : o = [by |-> s, nonce |-> n, bumps |-> call[s].waiting, call |-> k]
    OBVIOUS
  <2>5. o.by = s /\ o.bumps = call[s].waiting /\ o.call = k
    BY <2>4
  <2>6. PoolFits(o)'
    BY <2>1, <2>2, <2>5 DEF PoolFits, Becomes, Unsent
  <2>7. ASSUME NEW op \in pool PROVE PoolFits(op)'
    <3>1. op.by \in Slot => op.by # s
      BY <2>1 DEF LandInv, PoolFits, Unsent
    <3> QED
      BY <1>2, <2>1, <3>1 DEF Becomes
  <2>8. mined' = mined
    BY <1>6, SubmitFacts
  <2>9. ASSUME NEW t \in DOMAIN mined PROVE MinedFits(t)'
    <3>1. t \in Slot /\ t # s
      BY <1>0, <2>1 DEF LandInv, MinedFits, Unsent, AccountInv, AccountTypeOK
    <3> QED
      BY <1>3, <2>1, <2>8, <3>1 DEF Becomes
  <2> QED
    BY <2>3, <2>4, <2>6, <2>7, <2>8, <2>9 DEF LandInv
<1>7. ASSUME bump_version PROVE LandInv'
  <2>1. call' = call
    BY <1>7 DEF bump_version
  <2>2. mined' = mined /\ (pool' = pool \/ \E n \in Nat, k \in Call :
                              pool' = pool \cup {[by |-> Watcher, nonce |-> n, bumps |-> watch.about, call |-> k]})
    <3>1. PICK f \in DOMAIN files :
             \/ UNCHANGED accountVars
             \/ /\ mined' = mined
                /\ \E n \in Nat : pool' = pool \cup {[by |-> Watcher, nonce |-> n, bumps |-> watch.about,
                                                 call |-> [kind |-> "bump", file |-> f, g |-> NoGrant]]}
      BY <1>7, BumpFacts
    <3>2. [kind |-> "bump", file |-> f, g |-> NoGrant] \in Call
      BY DEF Call, StateInv, LedgerTypeOK
    <3> QED
      BY <3>1, <3>2 DEF accountVars
  <2>3. \A op \in pool' : op \in pool \/ op.by = Watcher
    BY <2>2
  <2>4. ASSUME NEW op \in pool' PROVE PoolFits(op)'
    <3>1. CASE op \in pool
      BY <1>2, <2>1, <3>1
    <3>2. CASE op.by = Watcher
      BY <3>2, AccountAssumption DEF PoolFits
    <3> QED
      BY <2>3, <3>1, <3>2
  <2>5. ASSUME NEW t \in DOMAIN mined PROVE MinedFits(t)'
    BY <1>3, <2>1, <2>2
  <2> QED
    BY <2>2, <2>4, <2>5 DEF LandInv
<1>8. ASSUME NEW op \in pool, NEW ok \in BOOLEAN, Block(op, ok) PROVE LandInv'
  <2>1. call' = call /\ pool' \subseteq pool
    BY <1>0, <1>8, Included DEF Block, agentVars
  <2>2. ASSUME NEW o \in pool' PROVE PoolFits(o)'
    BY <1>2, <2>1
  <2>3. PICK success \in BOOLEAN :
           /\ mined' = IF op.by \in Slot THEN Put(mined, op.by, success) ELSE mined
           /\ success => /\ Passes(chain, op.bumps, op.call)
                         /\ chain' = AfterCall(AfterBumps(chain, op.bumps), op.call)
    BY <1>0, <1>8, Included
  <2>4. ASSUME op.by \in Slot PROVE MinedFits(op.by)'
    <3>0. PoolFits(op) /\ mined'[op.by] = success
      BY <2>3, <2>4 DEF LandInv, Put
    <3>1. CASE success /\ call[op.by].pc = "wait"
      <4>1. PICK d : d = AfterCall(AfterBumps(chain, op.bumps), op.call)
        OBVIOUS
      <4>2. /\ chain \in Contracts /\ chain.revoked \subseteq chain.granted
            /\ op.bumps \in Bumps /\ op.call \in Call
            /\ op.call.kind \in {"grant", "revoke"} => op.call.g \in GrantId
        BY <1>0 DEF AccountInv, AccountTypeOK, Op
      <4>3. /\ d.bumped = chain.bumped \cup {<<f, op.bumps[f]>> : f \in DOMAIN op.bumps}
            /\ op.call.kind = "register" => op.call.file \in DOMAIN d.version
            /\ op.call.kind = "grant" => op.call.g \in d.granted
            /\ op.call.kind = "revoke" => op.call.g \in d.revoked
        BY <2>3, <3>1, <4>1, <4>2, BatchApplied
      <4>4. /\ op.bumps = call[op.by].waiting /\ op.call.kind = call[op.by].kind
            /\ op.call.file = call[op.by].file /\ op.call.g = call[op.by].g
        BY <2>4, <3>0, <3>1 DEF PoolFits
      <4>5. chain' = d
        BY <2>3, <3>1, <4>1
      <4>6. Executed(op.by)'
        BY <2>1, <4>3, <4>4, <4>5 DEF Executed
      <4> QED
        BY <2>1, <2>4, <3>0, <4>6 DEF MinedFits, PoolFits
    <3>2. CASE ~(success /\ call[op.by].pc = "wait")
      BY <2>1, <2>4, <3>0, <3>2 DEF MinedFits, PoolFits
    <3> QED
      BY <3>1, <3>2
  <2>5. ASSUME NEW t \in DOMAIN mined', t # op.by PROVE MinedFits(t)'
    <3>1. t \in DOMAIN mined /\ mined'[t] = mined[t]
      BY <2>3, <2>5 DEF Put
    <3> QED
      BY <1>3, <2>1, <3>1
  <2>6. op.by \in DOMAIN mined' => op.by \in Slot
    BY <1>0, AccountStep DEF AccountInv, AccountTypeOK
  <2> QED
    BY <2>2, <2>4, <2>5, <2>6 DEF LandInv
<1>9. ASSUME Elsewhere PROVE LandInv'
  <2>1. UNCHANGED <<pool, mined>>
    BY <1>9, ElsewhereFrame DEF accountVars
  <2>2. \A t \in Slot : call'[t] = call[t] \/ call'[t] = Over
    BY <1>9, CallFrame
  <2>3. Over.pc = "over"
    BY DEF Over, NoCall
  <2> QED
    BY <1>4, <2>1, <2>2, <2>3 DEF Unsent
<1> QED
  BY <1>5, <1>6, <1>7, <1>8, <1>9, NextCases

LEMMA UniqueStep == ASSUME StateInv, UniqueInv, Next PROVE UniqueInv'
<1>0. AccountInv
  BY DEF StateInv
<1>1. ASSUME chain' = chain PROVE UniqueInv'
  BY <1>1 DEF UniqueInv
<1>2. ASSUME NEW op \in pool, NEW ok \in BOOLEAN, Block(op, ok), Passes(chain, op.bumps, op.call),
             chain' = AfterCall(AfterBumps(chain, op.bumps), op.call)
      PROVE  UniqueInv'
  <2>1. PICK d : d = AfterCall(AfterBumps(chain, op.bumps), op.call)
    OBVIOUS
  <2>2. /\ chain \in Contracts /\ chain.revoked \subseteq chain.granted
        /\ op.bumps \in Bumps /\ op.call \in Call
        /\ op.call.kind \in {"grant", "revoke"} => op.call.g \in GrantId
    BY <1>0 DEF AccountInv, AccountTypeOK, Op
  <2>3. /\ d.used = chain.used \cup (IF op.call.kind = "grant" THEN {op.call.g.req} ELSE {})
        /\ d.granted = chain.granted \cup (IF op.call.kind = "grant" THEN {op.call.g} ELSE {})
        /\ op.call.kind = "grant" => op.call.g.req \notin chain.used
    BY <1>2, <2>1, <2>2, BatchApplied
  <2>4. chain' = d
    BY <1>2, <2>1
  <2> QED
    BY <2>3, <2>4 DEF UniqueInv
<1>3. ASSUME NEW op \in pool, NEW ok \in BOOLEAN, Block(op, ok) PROVE UniqueInv'
  BY <1>0, <1>1, <1>2, <1>3, Included
<1>4. ASSUME bump_version PROVE chain' = chain
  BY <1>4, BumpFacts DEF accountVars
<1>5. ASSUME NEW s \in Slot, Idles(s) \/ Submit(s) PROVE chain' = chain
  BY <1>5, IdlesFrame, SubmitFacts DEF accountVars
<1>6. ASSUME Elsewhere PROVE chain' = chain
  BY <1>6, ElsewhereFrame DEF accountVars
<1> QED
  BY <1>1, <1>3, <1>4, <1>5, <1>6, NextCases

LEMMA TxStays ==
    ASSUME NEW t \in Slot, TxFits(t), call'[t] = call[t], Grows
    PROVE  TxFits(t)'
BY DEF TxFits, Grows

\* A call that names a transaction waited for its write.
LEMMA TxCalls ==
    ASSUME StateInv, LandInv, Smart, \A t \in Slot : TxFits(t), Next
    PROVE  \A t \in Slot : TxFits(t)'
<1>0. CallInv /\ AccountInv /\ LedgerTypeOK /\ Grows /\ link \in BOOLEAN
  BY AccountStep DEF StateInv, PeerInv
<1>1. ASSUME NEW s \in Slot, \A t \in Slot : t # s => call'[t] = call[t], TxFits(s)'
      PROVE  \A t \in Slot : TxFits(t)'
  BY <1>0, <1>1, TxStays
<1>2. ASSUME call' = call PROVE \A t \in Slot : TxFits(t)'
  BY <1>0, <1>2, TxStays
<1>3. ASSUME NEW t \in Slot, call'[t] = Over PROVE TxFits(t)'
  BY <1>3 DEF TxFits, Over, NoCall
<1>4. ASSUME NEW s \in Slot, NEW pc, NEW kind, NEW f, NEW g, NEW w,
             pc # "settx",
             Becomes(s, pc, kind, f, g, w, FALSE)
      PROVE  TxFits(s)'
  BY <1>4 DEF TxFits, Becomes
<1>5. ASSUME NEW s \in Slot, NEW pc, NEW w,
             pc \notin {"nonce", "settx"},
             Becomes(s, pc, call[s].kind, call[s].file, call[s].g, w, call[s].tx)
      PROVE  TxFits(s)'
  <2>1. TxFits(s)
    OBVIOUS
  <2> QED
    BY <1>0, <1>5, <2>1 DEF TxFits, Becomes, Grows
<1>6. ASSUME NEW s \in Slot, Idles(s) PROVE TxFits(s)'
  <2>1. CASE \E f \in File : seal_file(s, f)
    <3>1. PICK f \in File : seal_file(s, f)
      BY <2>1
    <3>2. CASE link
      <4>1. Becomes(s, "queue", "register", f, NoGrant, <<>>, FALSE)
        BY <1>0, <3>1, <3>2, StartsFacts DEF seal_file, CallPc
      <4> QED
        BY <1>4, <4>1
    <3>3. CASE ~link
      BY <1>0, <1>3, <3>1, <3>3, EndsFacts DEF seal_file
    <3> QED
      BY <3>2, <3>3
  <2>2. CASE \E r \in Req, d \in {"allow", "deny"} : decide(s, r, d)
    <3>1. PICK r \in Req, d \in {"allow", "deny"} : decide(s, r, d)
      BY <2>2
    <3>2. terms_for(r, s) \in GrantId /\ Fid[r] \in File
      BY <3>1, OwnerAssumption DEF StateInv, PeerInv, decide, terms_for, GrantId
    <3>3. \/ Becomes(s, "nonce", "grant", Fid[r], terms_for(r, s), <<>>, FALSE)
          \/ Becomes(s, "send", "deny", Fid[r], terms_for(r, s), <<>>, FALSE)
      BY <1>0, <3>1, <3>2, StartsFacts DEF decide, CallPc
    <3> QED
      BY <1>4, <3>3
  <2>3. CASE \E g \in DOMAIN grants : revoke_grant(s, g)
    <3>1. PICK g \in DOMAIN grants : revoke_grant(s, g)
      BY <2>3
    <3>2. g \in GrantId /\ Fid[g.req] \in File
      BY <1>0, OwnerAssumption DEF LedgerTypeOK, GrantId
    <3>3. Becomes(s, "tell", "revoke", Fid[g.req], g, <<>>, FALSE)
      BY <1>0, <3>1, <3>2, StartsFacts DEF revoke_grant, CallPc
    <3> QED
      BY <1>4, <3>3
  <2>4. CASE TakeNonce(s)
    <3>1. PICK n \in Nat, g \in GrantId :
             Becomes(s, IF call[s].linked THEN "queue" ELSE "send", "grant", call[s].file, g, call[s].waiting, call[s].tx)
      BY <1>0, <2>4, TakeNonceFacts
    <3>2. call[s].tx = FALSE
      BY <1>0, <2>4 DEF TxFits, TakeNonce, CallInv, CallRec
    <3>3. PICK pc \in {"queue", "send"} : Becomes(s, pc, "grant", call[s].file, g, call[s].waiting, FALSE)
      BY <3>1, <3>2
    <3> QED
      BY <1>4, <3>3
  <2>5. CASE ReadQueue(s)
    BY <1>0, <1>5, <2>5, ReadQueueFacts
  <2>6. CASE Landed(s)
    <3>1. PICK pc \in {"send", "mark", "settx"} :
              /\ Becomes(s, pc, call[s].kind, call[s].file, call[s].g, <<>>, TRUE)
              /\ <<call[s].kind, pc>> \in {<<"grant", "send">>, <<"revoke", "mark">>, <<"register", "settx">>}
      BY <1>0, <2>6, LandedFacts
    <3>2. s \in DOMAIN mined /\ mined[s] /\ call[s].pc = "wait"
      BY <2>6 DEF Landed, Receipt, UserOpReceipt, wait
    <3>3. Executed(s)
      BY <3>2 DEF LandInv, MinedFits
    <3>4. UNCHANGED accountVars
      BY <1>6, IdlesFrame
    <3> QED
      BY <3>1, <3>3, <3>4 DEF TxFits, Executed, Becomes, accountVars
  <2>7. CASE WriteFails(s)
    <3>1. CASE call[s].kind = "register"
      BY <1>0, <1>3, <2>7, <3>1, EndsFacts DEF WriteFails
    <3>2. CASE call[s].kind # "register"
      <4>1. PICK pc \in {"send", "mark", "withheld"} :
              /\ Becomes(s, pc, call[s].kind, call[s].file, call[s].g, <<>>, call[s].tx)
              /\ IF call[s].kind = "revoke" THEN pc = "mark"
                 ELSE call[s].kind = "grant" /\ pc = IF Smart THEN "withheld" ELSE "send"
        BY <1>0, <2>7, <3>2, WriteFailsFacts
      <4> QED
        BY <1>5, <4>1
    <3> QED
      BY <3>1, <3>2
  <2>8. CASE Send(s)
    BY <1>0, <1>5, <2>8, GoesFacts DEF Send, CallPc
  <2>9. CASE Tell(s)
    <3>1. PICK pc \in {"queue", "mark"} : pc \in CallPc /\ Goes(s, pc)
      BY <2>9 DEF Tell, CallPc
    <3> QED
      BY <1>0, <1>5, <3>1, GoesFacts
  <2>10. CASE GivesUp(s) \/ SetRegisteredTx(s) \/ SendFails(s) \/ Record(s) \/ TellFails(s) \/ Mark(s)
    BY <1>0, <1>3, <2>10, EndsFacts DEF GivesUp, SetRegisteredTx, SendFails, Record, TellFails, Mark
  <2> QED
    BY <1>6, <2>1, <2>2, <2>3, <2>4, <2>5, <2>6, <2>7, <2>8, <2>9, <2>10 DEF Idles
<1>7. ASSUME NEW s \in Slot, Submit(s) PROVE TxFits(s)' /\ \A t \in Slot : t # s => call'[t] = call[t]
  <2>1. Becomes(s, "wait", call[s].kind, call[s].file, call[s].g, call[s].waiting, call[s].tx)
    BY <1>0, <1>7, GoesFacts DEF Submit, CallPc
  <2> QED
    BY <1>5, <2>1 DEF Becomes
<1>8. ASSUME bump_version \/ (\E op \in pool, ok \in BOOLEAN : Block(op, ok)) \/ Elsewhere
      PROVE  \A t \in Slot : TxFits(t)'
  BY <1>0, <1>2, <1>3, <1>8, CallFrame, TxStays
<1>9. ASSUME NEW s \in Slot, Idles(s) PROVE \A t \in Slot : t # s => call'[t] = call[t]
  BY <1>9, MovesFacts DEF Moves
<1> QED
  BY <1>1, <1>6, <1>7, <1>8, <1>9, NextCases

\* The steps that change what was sent, the approvals on record and the files on record.
LEMMA SentFacts ==
    ASSUME StateInv, Next
    PROVE  \/ sent' = sent
           \/ \E s \in Slot : /\ call[s].pc = "send" /\ call[s].kind = "grant"
                              /\ Send(s) \/ SendFails(s)
                              /\ sent' = sent \cup {[g |-> call[s].g, tx |-> call[s].tx]}
<1>1. ASSUME NEW s \in Slot, Send(s) \/ SendFails(s)
      PROVE  \/ sent' = sent
             \/ /\ call[s].pc = "send" /\ call[s].kind = "grant"
                /\ sent' = sent \cup {[g |-> call[s].g, tx |-> call[s].tx]}
  BY <1>1 DEF Send, SendFails, Delivered, history
<1>2. ASSUME NEW s \in Slot, Idles(s), ~Send(s), ~SendFails(s) PROVE sent' = sent
  BY <1>2 DEF Idles, seal_file, decide, revoke_grant, TakeNonce, GivesUp, ReadQueue, Landed,
       WriteFails, SetRegisteredTx, Record, Tell, TellFails, Mark, history
<1>3. ASSUME NEW s \in Slot, Submit(s) PROVE sent' = sent
  BY <1>3 DEF Submit, history
<1>4. ASSUME bump_version \/ (\E op \in pool, ok \in BOOLEAN : Block(op, ok)) \/ Elsewhere PROVE sent' = sent
  BY <1>4 DEF bump_version, Block, Elsewhere, WatchGoesOn, WatchNotice, WatchShows, Ask, Save, WatchLooks, LinkUp, LinkReplaced, Crash, history
<1> QED
  BY <1>1, <1>2, <1>3, <1>4, NextCases

LEMMA GrantsFacts ==
    ASSUME StateInv, Next
    PROVE  \/ grants' = grants
           \/ \E s \in Slot : Record(s) /\ call[s].kind = "grant" /\ record_grant(call[s].g, call[s].tx)
           \/ \E s \in Slot : Mark(s)
<1>1. ASSUME NEW s \in Slot, Idles(s), ~Record(s), ~Mark(s) PROVE grants' = grants
  BY <1>1 DEF Idles, seal_file, decide, revoke_grant, TakeNonce, GivesUp, ReadQueue, Landed,
       WriteFails, SetRegisteredTx, Send, SendFails, Tell, TellFails, ledgerVars, record,
       next_grant_nonce, clear_deferred_bumps, set_registered_tx
<1>2. ASSUME NEW s \in Slot, Record(s) PROVE grants' = grants \/ (call[s].kind = "grant" /\ record_grant(call[s].g, call[s].tx))
  BY <1>2 DEF Record, ledgerVars
<1>3. ASSUME NEW s \in Slot, Submit(s) PROVE grants' = grants
  BY <1>3 DEF Submit, ledgerVars
<1>4. ASSUME bump_version \/ (\E op \in pool, ok \in BOOLEAN : Block(op, ok)) \/ Elsewhere PROVE grants' = grants
  BY <1>4 DEF bump_version, Block, Elsewhere, WatchGoesOn, WatchNotice, WatchShows, Ask, Save, WatchLooks, LinkUp, LinkReplaced, Crash,
     ledgerVars, advance_version, defer_bump
<1> QED
  BY <1>1, <1>2, <1>3, <1>4, NextCases

LEMMA FilesFacts ==
    ASSUME StateInv, Next
    PROVE  \/ files' = files
           \/ \E s \in Slot, f \in File : seal_file(s, f)
           \/ \E s \in Slot : SetRegisteredTx(s)
           \/ \E n \in inbox \ Req : WatchNotice(n) /\ apply_version(n)
<1>1. ASSUME NEW s \in Slot, Idles(s), ~SetRegisteredTx(s), ~\E f \in File : seal_file(s, f) PROVE files' = files
  BY <1>1 DEF Idles, decide, revoke_grant, TakeNonce, GivesUp, ReadQueue, Landed,
       WriteFails, Send, SendFails, Record, Tell, TellFails, Mark, ledgerVars,
       next_grant_nonce, clear_deferred_bumps, record_grant, mark_revoked
<1>2. ASSUME NEW s \in Slot, Submit(s) PROVE files' = files
  BY <1>2 DEF Submit, ledgerVars
<1>3. ASSUME NEW n \in inbox \ Req, WatchNotice(n), ~apply_version(n) PROVE files' = files
  BY <1>3 DEF WatchNotice, ledgerVars
<1>4. ASSUME \/ bump_version \/ (\E op \in pool, ok \in BOOLEAN : Block(op, ok))
             \/ Elsewhere /\ ~\E n \in inbox \ Req : WatchNotice(n)
      PROVE  files' = files
  BY <1>4 DEF bump_version, Block, Elsewhere, WatchGoesOn, WatchShows, Ask, Save, WatchLooks, LinkUp, LinkReplaced, Crash,
     ledgerVars, defer_bump
<1> QED
  BY <1>1, <1>2, <1>3, <1>4, NextCases

\* The steps that change the list of requests, the watcher, the queue of versions, and
\* what crashes have cut.
LEMMA PendingFacts ==
    ASSUME Next
    PROVE  \/ pending' = pending
           \/ \E r \in inbox \cap Req : WatchShows(r)
           \/ \E s \in Slot : Record(s)
           \/ Crash
<1>1. ASSUME NEW s \in Slot, Idles(s) \/ Submit(s), ~Record(s) PROVE pending' = pending
  BY <1>1 DEF Idles, seal_file, decide, revoke_grant, TakeNonce, GivesUp, ReadQueue, Submit, Landed,
       WriteFails, SetRegisteredTx, Send, SendFails, Tell, TellFails, Mark
<1>2. ASSUME \/ bump_version \/ WatchGoesOn \/ \E n \in inbox \ Req : WatchNotice(n)
             \/ \E r \in Req : \E h \in Header : Ask(r, h)
             \/ \E m \in sent : \E f \in File : Save(m.g, f)
             \/ WatchLooks \/ LinkUp \/ LinkReplaced
             \/ \E op \in pool, ok \in BOOLEAN : Block(op, ok)
      PROVE  pending' = pending
  BY <1>2 DEF bump_version, WatchGoesOn, WatchNotice, Ask, Save, WatchLooks, LinkUp, LinkReplaced, Block, agentVars
<1> QED
  BY <1>1, <1>2, NextCases DEF Elsewhere

LEMMA WatchFacts ==
    ASSUME Next
    PROVE  \/ watch' = watch
           \/ \E n \in inbox \ Req : WatchNotice(n) /\ apply_version(n)
           \/ bump_version \/ WatchGoesOn \/ Crash
<1>1. ASSUME NEW s \in Slot, Idles(s) \/ Submit(s) PROVE watch' = watch
  BY <1>1 DEF Idles, seal_file, decide, revoke_grant, TakeNonce, GivesUp, ReadQueue, Submit, Landed,
       WriteFails, SetRegisteredTx, Send, SendFails, Record, Tell, TellFails, Mark
<1>2. ASSUME \/ \E r \in inbox \cap Req : WatchShows(r)
             \/ \E r \in Req : \E h \in Header : Ask(r, h)
             \/ \E m \in sent : \E f \in File : Save(m.g, f)
             \/ WatchLooks \/ LinkUp \/ LinkReplaced
             \/ \E op \in pool, ok \in BOOLEAN : Block(op, ok)
      PROVE  watch' = watch
  BY <1>2 DEF WatchShows, Ask, Save, WatchLooks, LinkUp, LinkReplaced, Block, agentVars
<1>3. ASSUME NEW n \in inbox \ Req, WatchNotice(n), ~apply_version(n) PROVE watch' = watch
  BY <1>3 DEF WatchNotice
<1> QED
  BY <1>1, <1>2, <1>3, NextCases DEF Elsewhere

LEMMA DeferredFacts ==
    ASSUME Next
    PROVE  \/ deferred_bumps' = deferred_bumps
           \/ bump_version
           \/ \E s \in Slot : Landed(s)
<1>1. ASSUME NEW s \in Slot, Idles(s) \/ Submit(s), ~Landed(s) PROVE deferred_bumps' = deferred_bumps
  BY <1>1 DEF Idles, seal_file, decide, revoke_grant, TakeNonce, GivesUp, ReadQueue, Submit,
       WriteFails, SetRegisteredTx, Send, SendFails, Record, Tell, TellFails, Mark, ledgerVars, record,
       next_grant_nonce, set_registered_tx, record_grant, mark_revoked
<1>2. ASSUME Elsewhere \/ \E op \in pool, ok \in BOOLEAN : Block(op, ok) PROVE deferred_bumps' = deferred_bumps
  BY <1>2 DEF Elsewhere, WatchNotice, WatchGoesOn, WatchShows, Ask, Save, WatchLooks, LinkUp, LinkReplaced, Crash, Block, ledgerVars, advance_version
<1> QED
  BY <1>1, <1>2, NextCases

LEMMA CutFacts ==
    ASSUME Next
    PROVE  cut' = cut \/ Crash \/ \E n \in inbox \ Req : WatchNotice(n) /\ apply_version(n) /\ Handed(n)
<1>1. ASSUME NEW s \in Slot, Idles(s) \/ Submit(s) PROVE cut' = cut
  BY <1>1 DEF Idles, seal_file, decide, revoke_grant, TakeNonce, GivesUp, ReadQueue, Submit, Landed,
       WriteFails, SetRegisteredTx, Send, SendFails, Record, Tell, TellFails, Mark, Delivered, history
<1>2. ASSUME \/ bump_version \/ WatchGoesOn
             \/ \E r \in inbox \cap Req : WatchShows(r)
             \/ \E r \in Req : \E h \in Header : Ask(r, h)
             \/ \E m \in sent : \E f \in File : Save(m.g, f)
             \/ WatchLooks \/ LinkUp \/ LinkReplaced
             \/ \E op \in pool, ok \in BOOLEAN : Block(op, ok)
      PROVE  cut' = cut
  BY <1>2 DEF bump_version, WatchGoesOn, WatchShows, Ask, Save, WatchLooks, LinkUp, LinkReplaced, Block, history
<1>3. ASSUME NEW n \in inbox \ Req, WatchNotice(n) PROVE cut' = cut \/ (apply_version(n) /\ Handed(n))
  BY <1>3 DEF WatchNotice
<1> QED
  BY <1>1, <1>2, <1>3, NextCases DEF Elsewhere

LEMMA HeaderSame ==
    ASSUME StateInv, Next, ~\E n \in inbox \ Req : WatchNotice(n) /\ apply_version(n)
    PROVE  \A f \in DOMAIN files : files'[f].header = files[f].header
<1>1. ASSUME NEW s \in Slot, NEW x \in File, seal_file(s, x)
      PROVE  \A f \in DOMAIN files : files'[f].header = files[f].header
  BY <1>1 DEF seal_file, record, Put
<1>2. ASSUME NEW s \in Slot, SetRegisteredTx(s)
      PROVE  \A f \in DOMAIN files : files'[f].header = files[f].header
  <2>1. files' = [files EXCEPT ![call[s].file].registered_tx = TRUE] /\ files \in [DOMAIN files -> Entry]
    BY <1>2 DEF SetRegisteredTx, set_registered_tx, StateInv, LedgerTypeOK
  <2> QED
    BY <2>1 DEF Entry
<1> QED
  BY <1>1, <1>2, FilesFacts

LEMMA TxStep ==
    ASSUME StateInv, LandInv, TxInv, TxMeansLanded, Next
    PROVE  TxInv' /\ TxMeansLanded'
<1>0. LedgerTypeOK /\ CallInv /\ Grows
  BY AccountStep DEF StateInv
<1>1. Smart' = Smart
  BY <1>0 DEF Smart, Grows
<1> SUFFICES ASSUME Smart PROVE TxInv' /\ TxMeansLanded'
  BY <1>1 DEF TxInv, TxMeansLanded
<1>2. \A t \in Slot : TxFits(t)
  BY DEF TxInv
<1>3. \A t \in Slot : TxFits(t)'
  BY <1>2, TxCalls
<1>4. \A m \in sent' : m.tx => m.g \in chain'.granted
  <2>1. ASSUME NEW m \in sent PROVE m.tx => m.g \in chain'.granted
    BY <1>0 DEF TxInv, TxMeansLanded, Grows
  <2>2. CASE sent' = sent
    BY <2>1, <2>2
  <2>3. ASSUME NEW s \in Slot, call[s].pc = "send", call[s].kind = "grant",
               sent' = sent \cup {[g |-> call[s].g, tx |-> call[s].tx]}
        PROVE  \A m \in sent' : m.tx => m.g \in chain'.granted
    <3>1. call[s].tx => call[s].g \in chain'.granted
      BY <1>0, <1>2, <2>3 DEF TxFits, Grows
    <3> QED
      BY <2>1, <2>3, <3>1
  <2> QED
    BY <2>2, <2>3, SentFacts
<1>5. \A g \in DOMAIN grants' : /\ grants'[g].tx_hash => g \in chain'.granted
                                /\ grants'[g].revoke_tx => g \in chain'.revoked
  <2>1. ASSUME NEW g \in DOMAIN grants
        PROVE  /\ grants[g].tx_hash => g \in chain'.granted
               /\ grants[g].revoke_tx => g \in chain'.revoked
    BY <1>0 DEF TxMeansLanded, Grows
  <2>2. CASE grants' = grants
    BY <2>1, <2>2
  <2>3. ASSUME NEW s \in Slot, call[s].kind = "grant", record_grant(call[s].g, call[s].tx)
        PROVE  \A g \in DOMAIN grants' : /\ grants'[g].tx_hash => g \in chain'.granted
                                         /\ grants'[g].revoke_tx => g \in chain'.revoked
    <3>1. call[s].tx => call[s].g \in chain'.granted
      BY <1>0, <1>2, <2>3 DEF TxFits, Grows
    <3>2. PICK e : /\ e = [tx_hash |-> call[s].tx, revoked_at |-> FALSE, revoke_tx |-> FALSE]
                   /\ grants' = Put(grants, call[s].g, e)
      BY <2>3 DEF record_grant
    <3>3. e.tx_hash = call[s].tx /\ e.revoke_tx = FALSE
      BY <3>2
    <3>4. \A g \in DOMAIN grants' : \/ g = call[s].g /\ grants'[g] = e
                                    \/ g \in DOMAIN grants /\ grants'[g] = grants[g]
      BY <3>2 DEF Put
    <3> QED
      BY <2>1, <3>1, <3>3, <3>4
  <2>4. ASSUME NEW s \in Slot, Mark(s)
        PROVE  \A g \in DOMAIN grants' : /\ grants'[g].tx_hash => g \in chain'.granted
                                         /\ grants'[g].revoke_tx => g \in chain'.revoked
    <3>1. call[s].pc = "mark" /\ call[s].kind = "revoke" /\ call[s].g \in DOMAIN grants /\ call[s].tx \in BOOLEAN
      BY <1>0, <2>4 DEF Mark, CallInv, CallFits, CallRec, NoCall, Over
    <3>2. call[s].tx => call[s].g \in chain'.revoked
      BY <1>0, <1>2, <3>1 DEF TxFits, Grows
    <3>3. grants[call[s].g] \in Grant
      BY <1>0, <3>1 DEF LedgerTypeOK
    <3> DEFINE e == [grants[call[s].g] EXCEPT !.revoked_at = TRUE,
                                              !.revoke_tx = grants[call[s].g].revoke_tx \/ call[s].tx]
    <3>4. /\ e.tx_hash = grants[call[s].g].tx_hash
          /\ e.revoke_tx = (grants[call[s].g].revoke_tx \/ call[s].tx)
      BY <3>3 DEF Grant
    <3>5. grants' = [grants EXCEPT ![call[s].g] = e]
      BY <1>0, <2>4, <3>1, <3>3 DEF Mark, mark_revoked, LedgerTypeOK, Grant
    <3> HIDE DEF e
    <3>6. \A g \in DOMAIN grants' : /\ g \in DOMAIN grants
                                    /\ \/ g = call[s].g /\ grants'[g] = e
                                       \/ grants'[g] = grants[g]
      BY <1>0, <3>5 DEF LedgerTypeOK
    <3> QED
      BY <2>1, <3>1, <3>2, <3>4, <3>6
  <2> QED
    BY <2>2, <2>3, <2>4, GrantsFacts
<1>6. \A f \in DOMAIN files' : files'[f].registered_tx => f \in DOMAIN chain'.version
  <2>1. ASSUME NEW f \in DOMAIN files PROVE files[f].registered_tx => f \in DOMAIN chain'.version
    BY <1>0 DEF TxMeansLanded, Grows
  <2>2. CASE files' = files
    BY <2>1, <2>2
  <2>3. ASSUME NEW s \in Slot, NEW f \in File, seal_file(s, f)
        PROVE  \A x \in DOMAIN files' : files'[x].registered_tx => x \in DOMAIN chain'.version
    BY <2>1, <2>3 DEF seal_file, record, Put
  <2>4. ASSUME NEW s \in Slot, SetRegisteredTx(s)
        PROVE  \A x \in DOMAIN files' : files'[x].registered_tx => x \in DOMAIN chain'.version
    <3>1. call[s].file \in DOMAIN chain'.version
      BY <1>0, <1>2, <2>4 DEF SetRegisteredTx, TxFits, Grows
    <3>2. \A x \in DOMAIN files' : x \in DOMAIN files /\ (x # call[s].file => files'[x] = files[x])
      BY <1>0, <2>4 DEF SetRegisteredTx, set_registered_tx, LedgerTypeOK
    <3> QED
      BY <2>1, <3>1, <3>2
  <2>5. ASSUME NEW n \in inbox \ Req, WatchNotice(n), apply_version(n)
        PROVE  \A x \in DOMAIN files' : files'[x].registered_tx => x \in DOMAIN chain'.version
    <3>1. /\ files' = [files EXCEPT ![n.fid].header = n.header] /\ files \in [DOMAIN files -> Entry]
          /\ n.fid \in DOMAIN files
      BY <1>0, <2>5 DEF WatchNotice, advance_version, LedgerTypeOK, apply_version, Continues
    <3>2. \A x \in DOMAIN files' : x \in DOMAIN files /\ files'[x].registered_tx = files[x].registered_tx
      BY <3>1 DEF Entry
    <3> QED
      BY <2>1, <3>2
  <2> QED
    BY <2>2, <2>3, <2>4, <2>5, FilesFacts
<1> QED
  BY <1>3, <1>4, <1>5, <1>6 DEF TxInv, TxMeansLanded

-----------------------------------------------------------------------------
(***************************************************************************)
(* Versions                                                                *)
(***************************************************************************)
LEMMA StartsWithSelf == ASSUME NEW h \in Header PROVE StartsWith(h, h)
<1>1. h \in Seq(Req) /\ Len(h) \in Nat
  BY HeaderFacts
<1>2. SubSeq(h, 1, Len(h)) = h
  BY <1>1
<1> QED
  BY <1>1, <1>2 DEF StartsWith

LEMMA StartsWithNext ==
    ASSUME NEW h \in Header, NEW k \in Header, NEW p \in Header,
           h = Prev(k), Len(k) = Len(h) + 1, StartsWith(h, p)
    PROVE  StartsWith(k, p)
<1>1. h \in Seq(Req) /\ k \in Seq(Req) /\ p \in Seq(Req) /\ Len(h) \in Nat /\ Len(p) \in Nat /\ Len(k) \in Nat
  BY HeaderFacts
<1>2. Len(p) <= Len(h) /\ p = SubSeq(h, 1, Len(p)) /\ h = SubSeq(k, 1, Len(h))
  BY <1>1 DEF StartsWith, Prev
<1>3. \A i \in 1 .. Len(p) : p[i] = h[i] /\ h[i] = k[i]
  BY <1>1, <1>2
<1>4. SubSeq(k, 1, Len(p)) \in Seq(Req) /\ Len(SubSeq(k, 1, Len(p))) = Len(p)
  BY <1>1, <1>2
<1>5. \A i \in 1 .. Len(p) : SubSeq(k, 1, Len(p))[i] = p[i]
  BY <1>1, <1>2, <1>3
<1>6. SubSeq(k, 1, Len(p)) = p
  BY <1>1, <1>4, <1>5, SeqEqual
<1> QED
  BY <1>1, <1>2, <1>6 DEF StartsWith

\* An accepted notice is the version after the one on record (apply_version).
LEMMA AdvanceFacts ==
    ASSUME StateInv, NEW n \in inbox \ Req, WatchNotice(n), apply_version(n)
    PROVE  \E f \in DOMAIN files :
              /\ f = n.fid /\ Fid[n.g.req] = f /\ n.g \in DOMAIN grants /\ n.header \in Header
              /\ DOMAIN files' = DOMAIN files /\ files'[f].header = n.header
              /\ \A x \in DOMAIN files : x # f => files'[x] = files[x]
              /\ files[f].header = Prev(n.header) /\ Len(n.header) = Len(files[f].header) + 1
              /\ watch = Idle /\ watch' = Anchoring(n)
<1>1. /\ files' = [files EXCEPT ![n.fid].header = n.header] /\ files \in [DOMAIN files -> Entry]
      /\ n.fid \in DOMAIN files /\ n.g \in DOMAIN grants /\ watch = Idle /\ watch' = Anchoring(n)
      /\ files[n.fid].header = Prev(n.header)
      /\ Fid[n.g.req] = n.fid /\ Len(n.header) + 1 = Len(files[n.fid].header) + 1 + 1
  BY DEF WatchNotice, advance_version, StateInv, LedgerTypeOK, apply_version, Continues, Ver
<1>2. n.header \in Header
  BY NoticeFacts
<1>3. Len(n.header) \in Nat /\ Len(files[n.fid].header) \in Nat
  BY <1>1, <1>2, HeaderFacts DEF Entry
<1>4. files'[n.fid].header = n.header
  BY <1>1 DEF Entry
<1>5. Len(n.header) = Len(files[n.fid].header) + 1
  BY <1>1, <1>3
<1> QED
  BY <1>1, <1>2, <1>4, <1>5

\* A version on record is followed only by versions that continue it.
LEMMA HeaderStep ==
    ASSUME StateInv, Next, NEW f \in DOMAIN files
    PROVE  /\ files[f].header \in Header /\ files'[f].header \in Header
           /\ \A p \in Header : StartsWith(files[f].header, p) => StartsWith(files'[f].header, p)
           /\ Len(files[f].header) <= Len(files'[f].header)
<1>0. LedgerTypeOK /\ LedgerTypeOK' /\ f \in DOMAIN files'
  BY LedgerStep DEF StateInv
<1>1. files[f].header \in Header /\ files'[f].header \in Header /\ Len(files[f].header) \in Nat
  BY <1>0, HeaderFacts DEF LedgerTypeOK, Entry
<1>2. ASSUME files'[f].header = files[f].header
      PROVE  /\ \A p \in Header : StartsWith(files[f].header, p) => StartsWith(files'[f].header, p)
             /\ Len(files[f].header) <= Len(files'[f].header)
  BY <1>1, <1>2
<1>3. ASSUME NEW s \in Slot, NEW x \in File, seal_file(s, x) PROVE files'[f].header = files[f].header
  BY <1>3 DEF seal_file, record, Put
<1>4. ASSUME NEW s \in Slot, SetRegisteredTx(s) PROVE files'[f].header = files[f].header
  <2>1. files' = [files EXCEPT ![call[s].file].registered_tx = TRUE] /\ files \in [DOMAIN files -> Entry]
    BY <1>0, <1>4 DEF SetRegisteredTx, set_registered_tx, LedgerTypeOK
  <2> QED
    BY <2>1 DEF Entry
<1>5. ASSUME NEW n \in inbox \ Req, WatchNotice(n), apply_version(n)
      PROVE  /\ \A p \in Header : StartsWith(files[f].header, p) => StartsWith(files'[f].header, p)
             /\ Len(files[f].header) <= Len(files'[f].header)
  <2>1. \/ files'[f] = files[f]
        \/ files[f].header = Prev(files'[f].header) /\ Len(files'[f].header) = Len(files[f].header) + 1
    BY <1>5, AdvanceFacts
  <2> QED
    BY <1>1, <1>2, <2>1, StartsWithNext
<1> QED
  BY <1>1, <1>2, <1>3, <1>4, <1>5, FilesFacts

LEMMA PrefixStep ==
    ASSUME StateInv, PrefixInv, ApprovedVersionOnRecord, Next
    PROVE  PrefixInv' /\ ApprovedVersionOnRecord'
<1>0. PeerInv /\ CallInv /\ AccountInv /\ LedgerTypeOK
  BY DEF StateInv
<1>1. ASSUME NEW r \in DOMAIN asked, NEW p \in Header, StartsWith(files[Fid[r]].header, p)
      PROVE  StartsWith(files'[Fid[r]].header, p)
  BY <1>0, <1>1, HeaderStep DEF PeerInv
<1>2. \A m \in sent' : StartsWith(files'[Fid[m.g.req]].header, m.g.header)
  <2>1. ASSUME NEW m \in sent PROVE StartsWith(files'[Fid[m.g.req]].header, m.g.header)
    <3>1. m.g.req \in DOMAIN asked /\ m.g.header \in Header
      BY <1>0 DEF PeerInv, GrantId
    <3>2. StartsWith(files[Fid[m.g.req]].header, m.g.header)
      BY DEF ApprovedVersionOnRecord, StartsWith
    <3> QED
      BY <1>1, <3>1, <3>2
  <2>2. ASSUME NEW s \in Slot, call[s].kind = "grant",
               sent' = sent \cup {[g |-> call[s].g, tx |-> call[s].tx]}
        PROVE  \A m \in sent' : StartsWith(files'[Fid[m.g.req]].header, m.g.header)
    <3>1. call[s].g.req \in DOMAIN asked /\ call[s].g.header \in Header
      BY <1>0, <2>2 DEF CallInv, CallFits, GrantId
    <3>2. StartsWith(files'[Fid[call[s].g.req]].header, call[s].g.header)
      BY <1>1, <2>2, <3>1 DEF PrefixInv
    <3> QED
      BY <2>1, <2>2, <3>2
  <2> QED
    BY <2>1, <2>2, SentFacts
<1>3. \A r \in DOMAIN pending' : StartsWith(files'[Fid[r]].header, pending'[r])
  <2>1. ASSUME NEW r \in DOMAIN pending PROVE StartsWith(files'[Fid[r]].header, pending[r])
    BY <1>0, <1>1 DEF PrefixInv, PeerInv
  <2>2. ASSUME NEW r \in inbox \cap Req, WatchShows(r)
        PROVE  \A q \in DOMAIN pending' : StartsWith(files'[Fid[q]].header, pending'[q])
    <3>1. /\ pending' = Put(pending, r, files[Fid[r]].header) /\ files' = files
          /\ files[Fid[r]].header \in Header
      BY <1>0, <2>2 DEF WatchShows, ledgerVars, PeerInv, LedgerTypeOK, Entry
    <3>2. \A q \in DOMAIN pending' : \/ q = r /\ pending'[q] = files[Fid[r]].header
                                     \/ q \in DOMAIN pending /\ pending'[q] = pending[q]
      BY <3>1 DEF Put
    <3> QED
      BY <2>1, <3>1, <3>2, StartsWithSelf
  <2>3. ASSUME NEW s \in Slot, Record(s)
        PROVE  \A q \in DOMAIN pending' : q \in DOMAIN pending /\ pending'[q] = pending[q]
    BY <2>3 DEF Record, Without
  <2>4. ASSUME Crash PROVE DOMAIN pending' = {}
    BY <2>4, BumpsFacts DEF Crash
  <2> QED
    BY <2>1, <2>2, <2>3, <2>4, PendingFacts
<1>4. \A s \in Slot : call'[s].kind = "grant" => StartsWith(files'[Fid[call'[s].g.req]].header, call'[s].g.header)
  <2>1. ASSUME NEW s \in Slot, call[s].kind = "grant"
        PROVE  StartsWith(files'[Fid[call[s].g.req]].header, call[s].g.header)
    BY <1>0, <1>1, <2>1 DEF PrefixInv, CallInv, CallFits, GrantId
  <2> DEFINE Approves(s) == call'[s].kind = "grant" => StartsWith(files'[Fid[call'[s].g.req]].header, call'[s].g.header)
  <2>2. ASSUME NEW s \in Slot, call'[s] = call[s] \/ call'[s].kind # "grant" \/
                 (call'[s].kind = call[s].kind /\ call'[s].g.req = call[s].g.req /\ call'[s].g.header = call[s].g.header)
        PROVE  Approves(s)
    BY <2>1, <2>2
  <2>3. ASSUME NEW s \in Slot, NEW r \in Req, decide(s, r, "allow"), call'[s].g = terms_for(r, s) PROVE Approves(s)
    <3>1. r \in DOMAIN asked /\ r \in DOMAIN pending
      BY <1>0, <2>3 DEF PeerInv, decide
    <3>2. asked[r] = pending[r] /\ terms_for(r, s).req = r /\ terms_for(r, s).header = asked[r]
      BY <2>3 DEF decide, can_allow, terms_for
    <3>3. StartsWith(files'[Fid[r]].header, asked[r])
      BY <1>0, <1>1, <3>1, <3>2 DEF PrefixInv, PeerInv
    <3> QED
      BY <2>3, <3>2, <3>3
  <2>4. ASSUME NEW s \in Slot, Idles(s) PROVE Approves(s)
    <3>1. Moves(s)
      BY <2>4, MovesFacts
    <3> QED
      BY <2>2, <2>3, <3>1 DEF Moves
  <2>5. ASSUME NEW s \in Slot, Submit(s) PROVE Approves(s) /\ \A t \in Slot : t # s => call'[t] = call[t]
    <3>1. Becomes(s, "wait", call[s].kind, call[s].file, call[s].g, call[s].waiting, call[s].tx)
      BY <1>0, <2>5, GoesFacts DEF Submit, CallPc
    <3> QED
      BY <2>2, <3>1 DEF Becomes
  <2>6. Over.kind = "none"
    BY DEF Over, NoCall
  <2>7. ASSUME bump_version \/ (\E op \in pool, ok \in BOOLEAN : Block(op, ok)) \/ Elsewhere
        PROVE  \A s \in Slot : Approves(s)
    <3>1. \A s \in Slot : call'[s] = call[s] \/ call'[s] = Over
      BY <2>7, CallFrame
    <3> HIDE DEF Approves
    <3> QED
      BY <2>2, <2>6, <3>1
  <2> HIDE DEF Approves
  <2>8. \A s \in Slot : Approves(s)
    <3>1. ASSUME NEW s \in Slot, Idles(s) PROVE \A t \in Slot : t # s => call'[t] = call[t]
      BY <3>1, MovesFacts DEF Moves
    <3> QED
      BY <2>2, <2>4, <2>5, <2>7, <3>1, NextCases
  <2> QED
    BY <2>8 DEF Approves
<1> QED
  BY <1>2, <1>3, <1>4 DEF PrefixInv, ApprovedVersionOnRecord, StartsWith

LEMMA VersionsStep ==
    ASSUME StateInv, VersionsAreGranted, Next
    PROVE  VersionsAreGranted'
<1>0. LedgerTypeOK /\ LedgerTypeOK' /\ DOMAIN grants \subseteq DOMAIN grants'
  BY LedgerStep DEF StateInv
<1> DEFINE Granted(f, h) == \A i \in DOMAIN h : \E g \in DOMAIN grants' : g.req = h[i] /\ Fid[g.req] = f
<1>1. ASSUME NEW f \in DOMAIN files PROVE Granted(f, files[f].header)
  BY <1>0 DEF VersionsAreGranted
<1>2. ASSUME NEW f \in DOMAIN files' PROVE Granted(f, files'[f].header)
  <2>1. CASE files' = files
    BY <1>1, <2>1
  <2>2. ASSUME NEW s \in Slot, NEW x \in File, seal_file(s, x) PROVE Granted(f, files'[f].header)
    <3>1. \/ f \in DOMAIN files /\ files'[f] = files[f]
          \/ files'[f] = [header |-> <<>>, registered_tx |-> FALSE]
      BY <1>2, <2>2 DEF seal_file, record, Put
    <3>2. CASE files'[f] = [header |-> <<>>, registered_tx |-> FALSE]
      <4>1. files'[f].header = <<>> /\ DOMAIN <<>> = {}
        BY <3>2, BumpsFacts
      <4> QED
        BY <4>1
    <3> QED
      BY <1>1, <3>1, <3>2
  <2>3. ASSUME NEW s \in Slot, SetRegisteredTx(s) PROVE Granted(f, files'[f].header)
    <3>1. files' = [files EXCEPT ![call[s].file].registered_tx = TRUE] /\ files \in [DOMAIN files -> Entry]
      BY <1>0, <2>3 DEF SetRegisteredTx, set_registered_tx, LedgerTypeOK
    <3>2. f \in DOMAIN files /\ files'[f].header = files[f].header
      BY <1>2, <3>1 DEF Entry
    <3> QED
      BY <1>1, <3>2
  <2>4. ASSUME NEW n \in inbox \ Req, WatchNotice(n), apply_version(n) PROVE Granted(f, files'[f].header)
    <3>1. PICK x \in DOMAIN files :
              /\ Fid[n.g.req] = x /\ n.g \in DOMAIN grants /\ n.header \in Header
              /\ DOMAIN files' = DOMAIN files /\ files'[x].header = n.header
              /\ \A y \in DOMAIN files : y # x => files'[y] = files[y]
              /\ files[x].header = Prev(n.header) /\ Len(n.header) = Len(files[x].header) + 1
      BY <2>4, AdvanceFacts
    <3>2. CASE f = x
      <4>1. n.header \in Seq(Req) /\ Len(n.header) \in Nat /\ DOMAIN n.header = 1 .. Len(n.header)
        BY <3>1, HeaderFacts
      <4>2. files[x].header \in Seq(Req) /\ DOMAIN files[x].header = 1 .. Len(files[x].header)
            /\ Len(files[x].header) \in Nat
        BY <1>0, HeaderFacts DEF LedgerTypeOK, Entry
      <4>3. \A i \in 1 .. Len(files[x].header) : n.header[i] = files[x].header[i]
        BY <3>1, <4>1, <4>2 DEF Prev
      <4>4. n.header[Len(n.header)] = n.g.req
        BY NoticeFacts
      <4>5. ASSUME NEW i \in DOMAIN n.header
            PROVE  \E g \in DOMAIN grants' : g.req = n.header[i] /\ Fid[g.req] = f
        <5>1. CASE i = Len(n.header)
          BY <1>0, <3>1, <3>2, <4>4, <5>1
        <5>2. CASE i # Len(n.header)
          <6>1. i \in DOMAIN files[x].header /\ n.header[i] = files[x].header[i]
            BY <3>1, <4>1, <4>2, <4>3, <4>5, <5>2
          <6> QED
            BY <1>1, <3>2, <6>1
        <5> QED
          BY <5>1, <5>2
      <4> QED
        BY <3>1, <3>2, <4>5
    <3>3. CASE f # x
      <4>1. f \in DOMAIN files /\ files'[f] = files[f]
        BY <1>2, <3>1, <3>3
      <4> QED
        BY <1>1, <4>1
    <3> QED
      BY <3>2, <3>3
  <2> HIDE DEF Granted
  <2> QED
    BY <2>1, <2>2, <2>3, <2>4, FilesFacts
<1> QED
  BY <1>2 DEF VersionsAreGranted

\* Only the watcher changes the version on record, and not before it is done with the last.
LEMMA QueueStep == ASSUME StateInv, QueueInv, Next PROVE QueueInv'
<1>0. LedgerTypeOK /\ WatchInv
  BY DEF StateInv
<1>1. ASSUME watch'.pc # "anchor" PROVE QueueInv'
  BY <1>1 DEF QueueInv
<1>2. ASSUME watch' = watch, watch.pc = "anchor", \A f \in DOMAIN files : files'[f].header = files[f].header
      PROVE  QueueInv'
  BY <1>0, <1>2 DEF QueueInv, WatchInv
<1>3. Idle.pc = "idle"
  BY DEF Idle
<1>4. ASSUME NEW n \in inbox \ Req, WatchNotice(n), apply_version(n) PROVE QueueInv'
  <2>1. CASE looked
    <3>1. PICK f \in DOMAIN files : f = n.fid /\ files'[f].header = n.header /\ watch' = Anchoring(n)
      BY <1>4, AdvanceFacts
    <3>2. DOMAIN watch'.about = {f} /\ watch'.about[f] = n.header
      BY <2>1, <3>1, AnchoringFacts
    <3> QED
      BY <3>1, <3>2 DEF QueueInv
  <2>2. CASE ~looked
    <3>1. watch' = Idle
      BY <1>4, <2>2, AnchoringFacts DEF WatchNotice
    <3> QED
      BY <1>1, <1>3, <3>1
  <2> QED
    BY <2>1, <2>2
<1>5. ASSUME bump_version PROVE QueueInv'
  <2>1. watch' = Idle \/ watch' = [watch EXCEPT !.pc = "wait"]
    BY <1>5, BumpFacts
  <2>2. watch'.pc # "anchor"
    BY <1>0, <1>3, <2>1 DEF WatchInv
  <2> QED
    BY <1>1, <2>2
<1>6. ASSUME WatchGoesOn \/ Crash PROVE QueueInv'
  BY <1>1, <1>3, <1>6 DEF WatchGoesOn, Crash
<1>7. ASSUME watch' = watch, ~\E n \in inbox \ Req : WatchNotice(n) /\ apply_version(n) PROVE QueueInv'
  BY <1>1, <1>2, <1>7, HeaderSame
<1> QED
  BY <1>4, <1>5, <1>6, <1>7, WatchFacts

LEMMA NewestStep ==
    ASSUME StateInv, LandInv, QueueInv, NewestQueuedOrAnchored, Next
    PROVE  NewestQueuedOrAnchored'
<1>0. LedgerTypeOK /\ WatchInv /\ Grows
  BY AccountStep DEF StateInv
<1> SUFFICES ASSUME mode' = "passkey", NEW f \in DOMAIN files' \ cut', files'[f].header # <<>>,
                    ~(watch'.pc = "anchor" /\ f \in DOMAIN watch'.about)
             PROVE  \/ f \in DOMAIN deferred_bumps' /\ deferred_bumps'[f] = files'[f].header
                    \/ <<f, files'[f].header>> \in chain'.bumped
  BY Zenon DEF NewestQueuedOrAnchored
<1>1. mode = "passkey" /\ Smart
  BY <1>0 DEF Grows, Smart
\* An accepted version is with the watcher, or the round had no link.
<1>2. ASSUME NEW n \in inbox \ Req, WatchNotice(n), apply_version(n) PROVE f # n.fid
  <2>1. watch' = Anchoring(n) /\ Handed(n)
    BY <1>2 DEF WatchNotice
  <2>2. CASE looked
    BY <2>1, <2>2, AnchoringFacts
  <2>3. CASE ~looked
    BY <2>1, <2>3 DEF Handed
  <2> QED
    BY <2>2, <2>3
\* Any other file that has a version was there with this one.
<1>3. f \in DOMAIN files /\ files'[f].header = files[f].header
  <2>1. ASSUME NEW n \in inbox \ Req, WatchNotice(n), apply_version(n)
        PROVE  f \in DOMAIN files /\ files'[f].header = files[f].header
    BY <1>2, <2>1, AdvanceFacts
  <2>2. f \in DOMAIN files \/ \E n \in inbox \ Req : WatchNotice(n) /\ apply_version(n)
    <3>1. ASSUME NEW s \in Slot, NEW x \in File, seal_file(s, x) PROVE f \in DOMAIN files
      <4>1. f \in DOMAIN files \/ files'[f] = [header |-> <<>>, registered_tx |-> FALSE]
        BY <3>1 DEF seal_file, record, Put
      <4> QED
        BY <4>1
    <3>2. ASSUME NEW s \in Slot, SetRegisteredTx(s) PROVE f \in DOMAIN files
      BY <3>2 DEF SetRegisteredTx, set_registered_tx
    <3> QED
      BY <3>1, <3>2, FilesFacts
  <2> QED
    BY <2>1, <2>2, HeaderSame
<1>4. f \notin cut
  BY <1>2, CutFacts DEF Handed, Crash
<1>5. \/ f \in DOMAIN deferred_bumps /\ deferred_bumps[f] = files[f].header
      \/ <<f, files[f].header>> \in chain.bumped
      \/ watch.pc = "anchor" /\ f \in DOMAIN watch.about
  BY <1>1, <1>3, <1>4 DEF NewestQueuedOrAnchored
<1>6. CASE <<f, files[f].header>> \in chain.bumped
  BY <1>0, <1>3, <1>6 DEF Grows
\* What leaves the queue was executed.
<1>7. CASE f \in DOMAIN deferred_bumps /\ deferred_bumps[f] = files[f].header
  <2>1. CASE deferred_bumps' = deferred_bumps
    BY <1>3, <1>7, <2>1
  <2>2. CASE bump_version
    <3>1. PICK x \in DOMAIN files : x \in DOMAIN watch.about /\ watch.pc = "anchor"
                                    /\ deferred_bumps' = Put(deferred_bumps, x, watch.about[x])
      BY <1>1, <2>2, BumpFacts DEF defer_bump
    <3>2. watch.about[x] = files[x].header
      BY <3>1 DEF QueueInv
    <3> QED
      BY <1>3, <1>7, <3>1, <3>2 DEF Put
  <2>3. ASSUME NEW s \in Slot, Landed(s)
        PROVE  \/ f \in DOMAIN deferred_bumps' /\ deferred_bumps'[f] = files'[f].header
               \/ <<f, files'[f].header>> \in chain'.bumped
    <3>1. s \in DOMAIN mined /\ mined[s] /\ call[s].pc = "wait"
      BY <1>1, <2>3 DEF Landed, Receipt, UserOpReceipt, wait
    <3>2. \A x \in DOMAIN call[s].waiting : <<x, call[s].waiting[x]>> \in chain.bumped
      BY <3>1 DEF LandInv, MinedFits, Executed
    <3>3. CASE f \in DOMAIN call[s].waiting /\ call[s].waiting[f] = deferred_bumps[f]
      BY <1>0, <1>3, <1>7, <3>2, <3>3 DEF Grows
    <3>4. CASE ~(f \in DOMAIN call[s].waiting /\ call[s].waiting[f] = deferred_bumps[f])
      BY <1>3, <1>7, <2>3, <3>4 DEF Landed, clear_deferred_bumps
    <3> QED
      BY <3>3, <3>4
  <2> QED
    BY <2>1, <2>2, <2>3, DeferredFacts
\* What the watcher had is queued now, or a crash cut it.
<1>8. CASE watch.pc = "anchor" /\ f \in DOMAIN watch.about
  <2>1. watch' # watch /\ watch # Idle
    BY <1>8 DEF Idle
  <2>2. ~Crash
    BY <1>8 DEF Crash
  <2>3. ~WatchGoesOn
    BY <1>1, <1>8 DEF WatchGoesOn
  <2>4. bump_version
    BY <2>1, <2>2, <2>3, WatchFacts DEF WatchNotice
  <2>5. PICK x \in DOMAIN files : DOMAIN watch.about = {x} /\ deferred_bumps' = Put(deferred_bumps, x, watch.about[x])
    BY <1>1, <2>4, BumpFacts DEF defer_bump
  <2>6. f = x /\ watch.about[f] = files[f].header
    BY <1>8, <2>5 DEF QueueInv
  <2> QED
    BY <1>3, <2>5, <2>6 DEF Put
<1> QED
  BY <1>5, <1>6, <1>7, <1>8

-----------------------------------------------------------------------------
(***************************************************************************)
(* Answers                                                                 *)
(***************************************************************************)
LEMMA RefusedGrows == ASSUME Next PROVE refused \subseteq refused'
<1>1. ASSUME NEW s \in Slot, Idles(s) \/ Submit(s) PROVE refused \subseteq refused'
  <2>1. CASE Send(s) \/ SendFails(s)
    BY <2>1 DEF Send, SendFails, Delivered, history
  <2>2. CASE ~(Send(s) \/ SendFails(s))
    BY <1>1, <2>2 DEF Idles, seal_file, decide, revoke_grant, TakeNonce, GivesUp, ReadQueue, Submit, Landed,
       WriteFails, SetRegisteredTx, Record, Tell, TellFails, Mark, history
  <2> QED
    BY <2>1, <2>2
<1>2. ASSUME bump_version \/ (\E op \in pool, ok \in BOOLEAN : Block(op, ok)) \/ Elsewhere PROVE refused' = refused
  BY <1>2 DEF bump_version, Block, Elsewhere, WatchGoesOn, WatchNotice, WatchShows, Ask, Save, WatchLooks, LinkUp, LinkReplaced, Crash, history
<1> QED
  BY <1>1, <1>2, NextCases

LEMMA AnswerStep ==
    ASSUME StateInv, AnswerInv, ShownUntilAnswered, Next
    PROVE  AnswerInv' /\ ShownUntilAnswered'
<1>0. /\ CallInv /\ AccountInv /\ sent \subseteq sent' /\ refused \subseteq refused'
  BY SentFacts, RefusedGrows DEF StateInv
<1> DEFINE Answered(s) ==
             call'[s].pc = "record" =>
                 IF call'[s].kind = "grant" THEN [g |-> call'[s].g, tx |-> call'[s].tx] \in sent'
                 ELSE call'[s].g.req \in refused'
<1>1. ASSUME NEW s \in Slot, call'[s] = call[s] \/ call'[s].pc # "record" PROVE Answered(s)
  BY <1>0, <1>1 DEF AnswerInv
<1>2. ASSUME NEW s \in Slot, Send(s) PROVE Answered(s)
  <2>1. /\ Becomes(s, "record", call[s].kind, call[s].file, call[s].g, call[s].waiting, call[s].tx)
        /\ call[s].pc = "send" /\ Delivered(s)
    BY <1>0, <1>2, GoesFacts DEF Send, CallPc
  <2>2. call[s].kind \in {"grant", "deny"}
    BY <2>1, DeliveredFacts
  <2> QED
    BY <2>1, <2>2 DEF Becomes, Delivered
<1>3. ASSUME NEW s \in Slot, Idles(s) PROVE \A t \in Slot : Answered(t)
  <2>1. Moves(s)
    BY <1>3, MovesFacts
  <2> HIDE DEF Answered
  <2> QED
    BY <1>1, <1>2, <2>1 DEF Moves
<1>4. ASSUME NEW s \in Slot, Submit(s) PROVE \A t \in Slot : Answered(t)
  <2>1. Becomes(s, "wait", call[s].kind, call[s].file, call[s].g, call[s].waiting, call[s].tx)
    BY <1>0, <1>4, GoesFacts DEF Submit, CallPc
  <2> HIDE DEF Answered
  <2> QED
    BY <1>1, <2>1 DEF Becomes
<1>5. ASSUME bump_version \/ (\E op \in pool, ok \in BOOLEAN : Block(op, ok)) \/ Elsewhere
      PROVE  \A t \in Slot : Answered(t)
  <2>1. \A t \in Slot : call'[t] = call[t] \/ call'[t] = Over
    BY <1>5, CallFrame
  <2>2. Over.pc = "over"
    BY DEF Over, NoCall
  <2> HIDE DEF Answered
  <2> QED
    BY <1>1, <2>1, <2>2
<1>6. AnswerInv'
  BY <1>3, <1>4, <1>5, NextCases DEF AnswerInv
<1>7. ShownUntilAnswered'
  <2>1. ASSUME NEW r \in shown, shown' \subseteq shown
        PROVE  r \in DOMAIN pending \/ r \in refused' \/ \E m \in sent' : r = m.g.req
    BY <1>0 DEF ShownUntilAnswered
  <2>2. ASSUME NEW s \in Slot, Record(s) PROVE ShownUntilAnswered'
    <3>1. /\ DOMAIN pending' = DOMAIN pending \ {call[s].g.req} /\ shown' = shown /\ call[s].pc = "record"
      BY <2>2 DEF Record, Without
    <3>2. call[s].g.req \in refused' \/ \E m \in sent' : call[s].g.req = m.g.req
      <4>1. CASE call[s].kind = "grant"
        <5>1. [g |-> call[s].g, tx |-> call[s].tx] \in sent'
          BY <1>0, <3>1, <4>1 DEF AnswerInv
        <5> QED
          BY <5>1
      <4>2. CASE call[s].kind # "grant"
        BY <1>0, <3>1, <4>2 DEF AnswerInv
      <4> QED
        BY <4>1, <4>2
    <3> QED
      BY <2>1, <3>1, <3>2 DEF ShownUntilAnswered
  <2>3. ASSUME NEW r \in inbox \cap Req, WatchShows(r) PROVE ShownUntilAnswered'
    <3>1. DOMAIN pending' = DOMAIN pending \cup {r} /\ shown' = shown \cup {r}
      BY <2>3 DEF WatchShows, Put
    <3> QED
      BY <1>0, <3>1 DEF ShownUntilAnswered
  <2>4. ASSUME Crash PROVE ShownUntilAnswered'
    BY <2>4 DEF Crash, ShownUntilAnswered
  <2>5. ASSUME pending' = pending, shown' = shown PROVE ShownUntilAnswered'
    BY <1>0, <2>5 DEF ShownUntilAnswered
  <2>6. \/ shown' = shown
        \/ \E r \in inbox \cap Req : WatchShows(r)
        \/ Crash
    <3>1. ASSUME NEW s \in Slot, Idles(s) \/ Submit(s) PROVE shown' = shown
      BY <3>1 DEF Idles, seal_file, decide, revoke_grant, TakeNonce, GivesUp, ReadQueue, Submit, Landed,
         WriteFails, SetRegisteredTx, Send, SendFails, Record, Tell, TellFails, Mark
    <3>2. ASSUME \/ bump_version \/ WatchGoesOn \/ \E n \in inbox \ Req : WatchNotice(n)
                 \/ \E r \in Req : \E h \in Header : Ask(r, h)
                 \/ \E m \in sent : \E f \in File : Save(m.g, f)
                 \/ WatchLooks \/ LinkUp \/ LinkReplaced
                 \/ \E op \in pool, ok \in BOOLEAN : Block(op, ok)
          PROVE  shown' = shown
      BY <3>2 DEF bump_version, WatchGoesOn, WatchNotice, Ask, Save, WatchLooks, LinkUp, LinkReplaced, Block, agentVars
    <3> QED
      BY <3>1, <3>2, NextCases DEF Elsewhere
  <2> QED
    BY <2>2, <2>3, <2>4, <2>5, <2>6, PendingFacts
<1> QED
  BY <1>6, <1>7

\* The ledger hands out a nonce once.
LEMMA NonceStep ==
    ASSUME StateInv, NonceInv, NonceNeverReused, Next
    PROVE  NonceInv' /\ NonceNeverReused'
<1>0. CallInv /\ AccountInv /\ LedgerTypeOK /\ Grows /\ PeerInv
  BY AccountStep DEF StateInv
<1> SUFFICES ASSUME mode' # "direct" PROVE NonceInv' /\ NonceNeverReused'
  BY DEF NonceInv, NonceNeverReused
<1>1. mode # "direct"
  BY <1>0 DEF Grows
<1>2. /\ grant_nonce \in Nat /\ grant_nonce' \in Nat
      /\ \A m \in sent : m.g.nonce \in Nat
      /\ \A s \in Slot : Numbered(s) => call[s].g.nonce \in Nat
  BY <1>0, LedgerStep DEF LedgerTypeOK, PeerInv, GrantId, CallInv, CallFits, Numbered
<1>3. grant_nonce' = grant_nonce \/ (grant_nonce' = grant_nonce + 1 /\ sent' = sent)
  <2>1. ASSUME NEW s \in Slot, TakeNonce(s) \/ GivesUp(s)
        PROVE  grant_nonce' = grant_nonce \/ (grant_nonce' = grant_nonce + 1 /\ sent' = sent)
    BY <2>1 DEF TakeNonce, GivesUp, next_grant_nonce, ledgerVars, history
  <2>2. ASSUME NEW s \in Slot, Idles(s) \/ Submit(s), ~(TakeNonce(s) \/ GivesUp(s)) PROVE grant_nonce' = grant_nonce
    BY <2>2 DEF Idles, seal_file, decide, revoke_grant, ReadQueue, Submit, Landed, WriteFails,
       SetRegisteredTx, Send, SendFails, Record, Tell, TellFails, Mark, ledgerVars, record,
       clear_deferred_bumps, set_registered_tx, record_grant, mark_revoked
  <2>3. ASSUME bump_version \/ (\E op \in pool, ok \in BOOLEAN : Block(op, ok)) \/ Elsewhere
        PROVE  grant_nonce' = grant_nonce
    BY <2>3 DEF bump_version, Block, Elsewhere, WatchNotice, WatchGoesOn, WatchShows, Ask, Save, WatchLooks, LinkUp, LinkReplaced, Crash,
       ledgerVars, advance_version, defer_bump
  <2> QED
    BY <2>1, <2>2, <2>3, NextCases
\* A call that has a nonce had it before, or has just been given it.
<1>4. \/ \A s \in Slot : Numbered(s)' => Numbered(s) /\ call'[s].g = call[s].g
      \/ \E s \in Slot : /\ TakeNonce(s) /\ ~Numbered(s)
                         /\ call'[s].g.nonce = grant_nonce /\ grant_nonce' = grant_nonce + 1
                         /\ \A t \in Slot : t # s => call'[t] = call[t]
  <2>1. ASSUME NEW s \in Slot, TakeNonce(s), ~call[s].linked
        PROVE  /\ ~Numbered(s) /\ call'[s].g.nonce = grant_nonce /\ grant_nonce' = grant_nonce + 1
               /\ \A t \in Slot : t # s => call'[t] = call[t]
    BY <1>0, <2>1, TakeNonceFacts DEF Becomes, next_grant_nonce, Numbered, TakeNonce
  <2>2. ASSUME NEW s \in Slot, Idles(s), ~(TakeNonce(s) /\ ~call[s].linked)
        PROVE  \A t \in Slot : Numbered(t)' => Numbered(t) /\ call'[t].g = call[t].g
    <3>1. Moves(s)
      BY <2>2, MovesFacts
    <3> QED
      BY <1>1, <2>2, <3>1 DEF Moves, Numbered
  <2>3. ASSUME NEW s \in Slot, Submit(s)
        PROVE  \A t \in Slot : Numbered(t)' => Numbered(t) /\ call'[t].g = call[t].g
    <3>1. Becomes(s, "wait", call[s].kind, call[s].file, call[s].g, call[s].waiting, call[s].tx)
      BY <1>0, <2>3, GoesFacts DEF Submit, CallPc
    <3> QED
      BY <3>1 DEF Becomes, Numbered
  <2>4. ASSUME bump_version \/ (\E op \in pool, ok \in BOOLEAN : Block(op, ok)) \/ Elsewhere
        PROVE  \A t \in Slot : Numbered(t)' => Numbered(t) /\ call'[t].g = call[t].g
    <3>1. \A t \in Slot : call'[t] = call[t] \/ call'[t] = Over
      BY <2>4, CallFrame
    <3>2. Over.pc = "over"
      BY DEF Over, NoCall
    <3> QED
      BY <3>1, <3>2 DEF Numbered
  <2> QED
    BY <2>1, <2>2, <2>3, <2>4, NextCases
<1>5. CASE \A s \in Slot : Numbered(s)' => Numbered(s) /\ call'[s].g = call[s].g
  <2>1. CASE sent' = sent
    BY <1>1, <1>2, <1>3, <1>5, <2>1 DEF NonceInv, NonceNeverReused
  <2>2. ASSUME NEW s \in Slot, call[s].pc = "send", call[s].kind = "grant",
               sent' = sent \cup {[g |-> call[s].g, tx |-> call[s].tx]}
        PROVE  NonceInv' /\ NonceNeverReused'
    <3>1. call[s].tx \in BOOLEAN /\ (~call[s].tx => Numbered(s))
      BY <1>0, <2>2 DEF Numbered, CallInv, CallRec
    <3>2. \A m \in sent' : m \in sent \/ (m.g = call[s].g /\ m.tx = call[s].tx)
      BY <2>2
    <3>3. grant_nonce' = grant_nonce \/ grant_nonce' = grant_nonce + 1
      BY <1>3
    <3>4. NonceNeverReused'
      BY <1>1, <3>1, <3>2 DEF NonceInv, NonceNeverReused
    <3>5. NonceInv'
      BY <1>1, <1>2, <1>5, <3>1, <3>2, <3>3 DEF NonceInv
    <3> QED
      BY <3>4, <3>5
  <2> QED
    BY <2>1, <2>2, SentFacts
<1>6. ASSUME NEW s \in Slot, TakeNonce(s), ~Numbered(s), call'[s].g.nonce = grant_nonce,
             grant_nonce' = grant_nonce + 1, \A t \in Slot : t # s => call'[t] = call[t]
      PROVE  NonceInv' /\ NonceNeverReused'
  <2>1. sent' = sent
    BY <1>6 DEF TakeNonce, history
  <2>2. \A t \in Slot : t # s => (Numbered(t)' <=> Numbered(t))
    BY <1>6 DEF Numbered
  <2>3. \A m \in sent : ~m.tx => m.g.nonce < grant_nonce
    BY <1>1 DEF NonceInv
  <2>4. \A t \in Slot : t # s /\ Numbered(t)' => call'[t].g.nonce < grant_nonce /\ call'[t].g.nonce \in Nat
    BY <1>1, <1>2, <1>6, <2>2 DEF NonceInv
  <2>5. \A m \in sent' : ~m.tx => m.g.nonce < grant_nonce'
    BY <1>2, <1>6, <2>1, <2>3
  <2>6. \A t \in Slot : Numbered(t)' => call'[t].g.nonce < grant_nonce'
    BY <1>2, <1>6, <2>4
  <2>7. \A t \in Slot, m \in sent' : Numbered(t)' /\ ~m.tx /\ m.g.nonce = call'[t].g.nonce => m.g = call'[t].g
    <3>1. ASSUME NEW t \in Slot, NEW m \in sent, ~m.tx, Numbered(t)', m.g.nonce = call'[t].g.nonce PROVE m.g = call'[t].g
      <4>1. t # s
        BY <1>2, <1>6, <2>3, <3>1
      <4> QED
        BY <1>1, <1>6, <2>2, <3>1, <4>1 DEF NonceInv
    <3> QED
      BY <2>1, <3>1
  <2>8. \A t, u \in Slot : Numbered(t)' /\ Numbered(u)' /\ call'[t].g.nonce = call'[u].g.nonce => t = u
    <3>1. ASSUME NEW t \in Slot, NEW u \in Slot, t # s, u # s, Numbered(t)', Numbered(u)',
                 call'[t].g.nonce = call'[u].g.nonce
          PROVE  t = u
      BY <1>1, <1>6, <2>2, <3>1 DEF NonceInv
    <3> QED
      BY <1>2, <1>6, <2>4, <3>1
  <2>9. NonceInv'
    BY <2>5, <2>6, <2>7, <2>8 DEF NonceInv
  <2> QED
    BY <2>1, <2>9, <1>1 DEF NonceNeverReused
<1> QED
  BY <1>4, <1>5, <1>6

-----------------------------------------------------------------------------
(***************************************************************************)
(* The order of the versions on the chain                                  *)
(***************************************************************************)
LEMMA EmptyStep == ASSUME StateInv, EmptyInv, Next PROVE EmptyInv'
<1>0. CallInv /\ Grows
  BY AccountStep DEF StateInv
<1> SUFFICES ASSUME mode' # "passkey" PROVE EmptyInv'
  BY DEF EmptyInv
<1>1. mode # "passkey" /\ DOMAIN deferred_bumps = {} /\ \A s \in Slot : DOMAIN call[s].waiting = {}
  BY <1>0 DEF Grows, EmptyInv
<1>2. DOMAIN deferred_bumps' = {}
  <2>1. CASE bump_version
    BY <1>1, <2>1, BumpFacts DEF ledgerVars
  <2>2. ASSUME NEW s \in Slot, Landed(s) PROVE DOMAIN deferred_bumps' = {}
    BY <1>1, <2>2 DEF Landed, clear_deferred_bumps
  <2> QED
    BY <1>1, <2>1, <2>2, DeferredFacts
<1>3. \A s \in Slot : DOMAIN call'[s].waiting = {}
  <2>1. ASSUME NEW s \in Slot, Idles(s) PROVE \A t \in Slot : DOMAIN call'[t].waiting = {}
    <3>1. Moves(s)
      BY <2>1, MovesFacts
    <3> QED
      BY <1>1, <3>1, BumpsFacts DEF Moves
  <2>2. ASSUME NEW s \in Slot, Submit(s) PROVE \A t \in Slot : DOMAIN call'[t].waiting = {}
    <3>1. Becomes(s, "wait", call[s].kind, call[s].file, call[s].g, call[s].waiting, call[s].tx)
      BY <1>0, <2>2, GoesFacts DEF Submit, CallPc
    <3> QED
      BY <1>1, <3>1 DEF Becomes
  <2>3. ASSUME bump_version \/ (\E op \in pool, ok \in BOOLEAN : Block(op, ok)) \/ Elsewhere
        PROVE  \A t \in Slot : DOMAIN call'[t].waiting = {}
    <3>1. \A t \in Slot : call'[t] = call[t] \/ call'[t] = Over
      BY <2>3, CallFrame
    <3>2. DOMAIN Over.waiting = {}
      BY BumpsFacts DEF Over, NoCall
    <3> QED
      BY <1>1, <3>1, <3>2
  <2> QED
    BY <2>1, <2>2, <2>3, NextCases
<1> QED
  BY <1>2, <1>3 DEF EmptyInv

\* A new operation has the newest version of its file, and comes after the others.
LEMMA OrderAdded ==
    ASSUME StateInv, StateInv', OrderInv, mode # "passkey", UNCHANGED <<mode, chain, seqno, files>>,
           NEW o \in Op, pool' = pool \cup {o},
           o.nonce = IF mode = "direct" THEN seqno + Cardinality(pool) ELSE seqno,
           o.call.kind = "register" => o.call.file \in DOMAIN files,
           \A f \in DOMAIN o.bumps : f \in DOMAIN files /\ o.bumps[f] = files[f].header
    PROVE  OrderInv'
<1>1. /\ IsFiniteSet(pool) /\ Cardinality(pool) \in Nat /\ seqno \in Nat
      /\ \A op \in pool : op \in Op /\ op.nonce \in Nat
  BY FS_CardinalityType DEF StateInv, AccountInv, AccountTypeOK, Op
<1>2. /\ \A f \in DOMAIN chain.version : f \in DOMAIN files /\ Len(chain.version[f]) <= Len(files[f].header)
      /\ \A op \in pool : OpFits(op)
      /\ \A op, p \in pool : InOrder(op, p)
  BY DEF OrderInv
<1>3. \A f \in DOMAIN files : Len(files[f].header) \in Nat
  BY HeaderFacts DEF StateInv, LedgerTypeOK, Entry
<1>4. ASSUME mode = "direct" PROVE Cardinality(pool') = Cardinality(pool) + 1
  <2>1. o \notin pool
    BY <1>1, <1>2, <1>4 DEF OpFits
  <2> QED
    BY <1>1, <2>1, FS_AddElement
<1>5. ASSUME NEW op \in pool PROVE OpFits(op)'
  BY <1>1, <1>2, <1>4 DEF OpFits
<1>6. OpFits(o)'
  <2>1. o.nonce >= seqno /\ IF mode = "direct" THEN o.nonce < seqno + Cardinality(pool') ELSE o.nonce = seqno
    BY <1>1, <1>4
  <2>2. \A f \in DOMAIN o.bumps : /\ f \in DOMAIN files /\ Len(o.bumps[f]) <= Len(files[f].header)
                                  /\ f \in DOMAIN chain.version => Len(chain.version[f]) <= Len(o.bumps[f])
    BY <1>2, <1>3
  <2> QED
    BY <2>1, <2>2 DEF OpFits
<1>7. ASSUME NEW op \in pool PROVE InOrder(op, o)' /\ InOrder(o, op)'
  <2>1. mode = "direct" => op.nonce < o.nonce
    BY <1>1, <1>2 DEF OpFits
  <2>2. mode # "direct" => op.nonce = o.nonce
    BY <1>2 DEF OpFits
  <2>3. \A f \in DOMAIN op.bumps \cap DOMAIN o.bumps : Len(op.bumps[f]) <= Len(o.bumps[f])
    BY <1>2 DEF OpFits
  <2>4. op.nonce \in Nat /\ o.nonce \in Nat
    BY <1>1 DEF Op
  <2> QED
    BY <2>1, <2>2, <2>3, <2>4 DEF InOrder
<1>8. InOrder(o, o)'
  <2>1. o.nonce \in Nat
    BY DEF Op
  <2> QED
    BY <2>1 DEF InOrder
<1>9. ASSUME NEW op \in pool, NEW p \in pool PROVE InOrder(op, p)'
  BY <1>2 DEF InOrder
<1> QED
  BY <1>2, <1>5, <1>6, <1>7, <1>8, <1>9 DEF OrderInv

\* The operation that is included is the oldest: it moves no file behind the others.
LEMMA OrderIncluded ==
    ASSUME StateInv, OrderInv, mode # "passkey", NEW op \in pool, NEW ok \in BOOLEAN, Block(op, ok)
    PROVE  /\ OrderInv'
           /\ \A f \in DOMAIN chain.version : Len(chain'.version[f]) >= Len(chain.version[f])
<1>0. /\ AccountInv /\ LedgerTypeOK /\ files' = files /\ mode' = mode
      /\ seqno' = seqno + 1 /\ op.nonce = seqno /\ pool' = {o \in pool : o.nonce > seqno}
  BY Included DEF StateInv, Block, ledgerVars
<1>1. /\ IsFiniteSet(pool) /\ Cardinality(pool) \in Nat /\ seqno \in Nat
      /\ \A o \in pool : o \in Op /\ o.nonce \in Nat
  BY FS_CardinalityType DEF StateInv, AccountInv, AccountTypeOK, Op
<1>2. /\ \A f \in DOMAIN chain.version : f \in DOMAIN files /\ Len(chain.version[f]) <= Len(files[f].header)
      /\ \A o \in pool : OpFits(o)
      /\ \A o, p \in pool : InOrder(o, p)
  BY DEF OrderInv
<1>3. /\ \A f \in DOMAIN files : Len(files[f].header) \in Nat
      /\ \A f \in DOMAIN chain.version : Len(chain.version[f]) \in Nat
      /\ \A o \in pool : \A f \in DOMAIN o.bumps : Len(o.bumps[f]) \in Nat
  <2>1. \A f \in DOMAIN files : Len(files[f].header) \in Nat
    BY <1>0, HeaderFacts DEF LedgerTypeOK, Entry
  <2>2. \A f \in DOMAIN chain.version : Len(chain.version[f]) \in Nat
    BY <1>0, HeaderFacts DEF AccountInv, AccountTypeOK
  <2>3. \A o \in pool : \A f \in DOMAIN o.bumps : Len(o.bumps[f]) \in Nat
    BY <1>1, BumpsFacts, HeaderFacts DEF Op
  <2> QED
    BY <2>1, <2>2, <2>3
\* What the contracts hold of a file afterwards: what they held, the bump, or the first version.
<1>4. \A f \in DOMAIN chain'.version :
         \/ f \in DOMAIN chain.version /\ chain'.version[f] = chain.version[f]
         \/ f \in DOMAIN chain.version /\ f \in DOMAIN op.bumps /\ chain'.version[f] = op.bumps[f]
         \/ f \notin DOMAIN chain.version /\ f \in DOMAIN files /\ chain'.version[f] = <<>>
  <2>1. CASE chain' = chain
    BY <2>1
  <2>2. CASE Passes(chain, op.bumps, op.call) /\ chain' = AfterCall(AfterBumps(chain, op.bumps), op.call)
    <3>1. PICK d : d = AfterCall(AfterBumps(chain, op.bumps), op.call)
      OBVIOUS
    <3>2. /\ chain \in Contracts /\ chain.revoked \subseteq chain.granted
          /\ op.bumps \in Bumps /\ op.call \in Call
          /\ op.call.kind \in {"grant", "revoke"} => op.call.g \in GrantId
      BY <1>0 DEF AccountInv, AccountTypeOK, Op
    <3>3. /\ DOMAIN d.version = DOMAIN chain.version \cup (IF op.call.kind = "register" THEN {op.call.file} ELSE {})
          /\ \A f \in DOMAIN chain.version : d.version[f] = IF f \in DOMAIN op.bumps THEN op.bumps[f] ELSE chain.version[f]
          /\ op.call.kind = "register" => op.call.file \notin DOMAIN chain.version /\ d.version[op.call.file] = <<>>
      BY <2>2, <3>1, <3>2, BatchApplied
    <3>4. op.call.kind = "register" => op.call.file \in DOMAIN files
      BY <1>2 DEF OpFits
    <3>5. chain' = d
      BY <2>2, <3>1
    <3> QED
      BY <3>3, <3>4, <3>5
  <2> QED
    BY <1>0, <2>1, <2>2, Included
<1>5. Len(<<>>) = 0
  OBVIOUS
<1>6. \A f \in DOMAIN chain.version : f \in DOMAIN op.bumps => Len(chain.version[f]) <= Len(op.bumps[f])
  BY <1>2 DEF OpFits
<1>7. \A f \in DOMAIN chain.version : Len(chain'.version[f]) >= Len(chain.version[f])
  <2>1. DOMAIN chain.version \subseteq DOMAIN chain'.version
    <3>1. Next
      BY DEF Next
    <3> QED
      BY <3>1, AccountStep DEF Grows
  <2> QED
    BY <1>3, <1>4, <1>6, <2>1
<1>8. \A f \in DOMAIN chain'.version : f \in DOMAIN files /\ Len(chain'.version[f]) <= Len(files[f].header)
  <2>1. \A f \in DOMAIN op.bumps : Len(op.bumps[f]) <= Len(files[f].header)
    BY <1>2 DEF OpFits
  <2> QED
    BY <1>2, <1>3, <1>4, <1>5, <2>1
<1>9. ASSUME mode = "direct" PROVE Cardinality(pool') = Cardinality(pool) - 1
  <2>1. \A o \in pool : o.nonce = seqno => o = op
    BY <1>0, <1>2, <1>9 DEF InOrder
  <2>2. \A o \in pool : o.nonce >= seqno
    BY <1>2 DEF OpFits
  <2>3. pool' = pool \ {op}
    BY <1>0, <1>1, <2>1, <2>2
  <2> QED
    BY <1>1, <2>3, FS_RemoveElement
<1>10. ASSUME NEW o \in pool' PROVE OpFits(o)'
  <2>1. o \in pool /\ o.nonce > seqno /\ OpFits(o) /\ InOrder(op, o)
    BY <1>0, <1>2
  <2>2. mode = "direct" /\ o.nonce < seqno + Cardinality(pool)
    BY <1>1, <2>1 DEF OpFits
  <2>3. o.nonce >= seqno' /\ o.nonce < seqno' + Cardinality(pool')
    BY <1>0, <1>1, <1>9, <2>1, <2>2
  <2>4. ASSUME NEW f \in DOMAIN o.bumps, f \in DOMAIN chain'.version PROVE Len(chain'.version[f]) <= Len(o.bumps[f])
    <3>1. f \in DOMAIN op.bumps => Len(op.bumps[f]) <= Len(o.bumps[f])
      BY <1>0, <2>1 DEF InOrder
    <3>2. f \in DOMAIN chain.version => Len(chain.version[f]) <= Len(o.bumps[f])
      BY <2>1 DEF OpFits
    <3>3. Len(o.bumps[f]) \in Nat
      BY <1>3, <2>1
    <3> QED
      BY <1>4, <1>5, <2>4, <3>1, <3>2, <3>3
  <2> QED
    BY <1>0, <2>1, <2>2, <2>3, <2>4 DEF OpFits
<1>11. ASSUME NEW o \in pool', NEW p \in pool' PROVE InOrder(o, p)'
  BY <1>0, <1>2 DEF InOrder
<1> QED
  BY <1>0, <1>7, <1>8, <1>10, <1>11 DEF OrderInv

LEMMA OrderStep ==
    ASSUME StateInv, StateInv', OrderInv, EmptyInv, QueueInv, Next
    PROVE  OrderInv'
<1>0. /\ LedgerTypeOK /\ CallInv /\ WatchInv /\ Grows /\ DOMAIN files \subseteq DOMAIN files'
      /\ \A f \in DOMAIN files : Len(files[f].header) <= Len(files'[f].header)
  BY AccountStep, LedgerStep, HeaderStep DEF StateInv
<1> SUFFICES ASSUME mode' # "passkey" PROVE OrderInv'
  BY DEF OrderInv
<1>1. mode # "passkey"
  BY <1>0 DEF Grows
<1>2. ASSUME UNCHANGED accountVars PROVE OrderInv'
  <2>1. /\ \A f \in DOMAIN files : Len(files[f].header) \in Nat /\ Len(files'[f].header) \in Nat
        /\ \A f \in DOMAIN chain.version : Len(chain.version[f]) \in Nat
        /\ \A op \in pool : \A f \in DOMAIN op.bumps : Len(op.bumps[f]) \in Nat
    <3>1. \A f \in DOMAIN files : Len(files[f].header) \in Nat /\ Len(files'[f].header) \in Nat
      BY HeaderStep, HeaderFacts
    <3>2. \A f \in DOMAIN chain.version : Len(chain.version[f]) \in Nat
      BY HeaderFacts DEF StateInv, AccountInv, AccountTypeOK
    <3>3. \A op \in pool : \A f \in DOMAIN op.bumps : Len(op.bumps[f]) \in Nat
      BY BumpsFacts, HeaderFacts DEF StateInv, AccountInv, AccountTypeOK, Op
    <3> QED
      BY <3>1, <3>2, <3>3
  <2>2. mode' = mode /\ chain' = chain /\ pool' = pool /\ seqno' = seqno
    BY <1>2 DEF accountVars
  <2>3. ASSUME NEW op \in pool PROVE OpFits(op)'
    <3>1. OpFits(op)
      BY <1>1 DEF OrderInv
    <3> QED
      BY <1>0, <2>1, <2>2, <3>1 DEF OpFits
  <2>4. \A op, o \in pool : InOrder(op, o)'
    BY <1>1, <2>2 DEF OrderInv, InOrder
  <2>5. \A f \in DOMAIN chain'.version : f \in DOMAIN files' /\ Len(chain'.version[f]) <= Len(files'[f].header)
    BY <1>0, <1>1, <2>1, <2>2 DEF OrderInv
  <2> QED
    BY <2>2, <2>3, <2>4, <2>5 DEF OrderInv
<1>3. ASSUME NEW s \in Slot, Submit(s) PROVE OrderInv'
  <2>1. PICK k \in Call : k = [kind |-> call[s].kind, file |-> call[s].file, g |-> call[s].g]
    BY <1>3, SubmitFacts
  <2>2. PICK n \in Nat : /\ pool' = pool \cup {[by |-> s, nonce |-> n, bumps |-> call[s].waiting, call |-> k]}
                         /\ n = IF mode = "direct" THEN seqno + Cardinality(pool) ELSE seqno
    BY <1>3, <2>1, SubmitFacts
  <2>3. call[s].waiting \in Bumps /\ DOMAIN call[s].waiting = {} /\ UNCHANGED <<mode, chain, seqno>>
    BY <1>1, <1>3, SubmitFacts DEF EmptyInv
  <2>4. PICK o \in Op : o = [by |-> s, nonce |-> n, bumps |-> call[s].waiting, call |-> k]
    BY <2>3 DEF Op
  <2>5. /\ o.nonce = n /\ DOMAIN o.bumps = {}
        /\ o.call.kind = "register" => o.call.file \in DOMAIN files
    BY <1>0, <2>1, <2>3, <2>4 DEF CallInv, CallFits
  <2>6. files' = files
    BY <1>3 DEF Submit, ledgerVars
  <2> QED
    BY <1>1, <2>2, <2>3, <2>4, <2>5, <2>6, OrderAdded
<1>4. ASSUME bump_version PROVE OrderInv'
  <2>1. PICK f \in DOMAIN files :
           /\ DOMAIN watch.about = {f} /\ watch.pc = "anchor" /\ UNCHANGED <<mode, chain, seqno, files>>
           /\ \E n \in Nat :
                 /\ pool' = pool \cup {[by |-> Watcher, nonce |-> n, bumps |-> watch.about,
                                        call |-> [kind |-> "bump", file |-> f, g |-> NoGrant]]}
                 /\ n = IF mode = "direct" THEN seqno + Cardinality(pool) ELSE seqno
    BY <1>1, <1>4, BumpFacts DEF ledgerVars
  <2>2. PICK n \in Nat :
           /\ pool' = pool \cup {[by |-> Watcher, nonce |-> n, bumps |-> watch.about,
                                  call |-> [kind |-> "bump", file |-> f, g |-> NoGrant]]}
           /\ n = IF mode = "direct" THEN seqno + Cardinality(pool) ELSE seqno
    BY <2>1
  <2>3. PICK k \in Call : k = [kind |-> "bump", file |-> f, g |-> NoGrant]
    BY <1>0 DEF Call, LedgerTypeOK
  <2>4. PICK o \in Op : o = [by |-> Watcher, nonce |-> n, bumps |-> watch.about, call |-> k]
    BY <1>0 DEF Op, WatchInv
  <2>5. /\ o.nonce = n /\ o.bumps = watch.about /\ o.call.kind = "bump"
        /\ watch.about[f] = files[f].header
    BY <2>1, <2>3, <2>4 DEF QueueInv
  <2> QED
    BY <1>1, <2>1, <2>2, <2>3, <2>4, <2>5, OrderAdded
<1>5. ASSUME NEW op \in pool, NEW ok \in BOOLEAN, Block(op, ok) PROVE OrderInv'
  BY <1>1, <1>5, OrderIncluded
<1> QED
  BY <1>2, <1>3, <1>4, <1>5, IdlesFrame, ElsewhereFrame, NextCases


-----------------------------------------------------------------------------
(***************************************************************************)
(* The theorems                                                            *)
(***************************************************************************)
\* A new installation: nothing is locked, asked for, sent or anchored.
LEMMA OutcomeInit == Init => OutcomeInv
<1> SUFFICES ASSUME Init PROVE OutcomeInv
  OBVIOUS
<1>1. /\ DOMAIN <<>> = {} /\ pool = {} /\ mined = <<>> /\ sent = {} /\ shown = {} /\ pending = <<>>
      /\ files = <<>> /\ grants = <<>> /\ deferred_bumps = <<>> /\ watch.pc = "idle"
      /\ chain.granted = {} /\ chain.version = <<>>
  BY BumpsFacts DEF Init, LedgerInit, AccountInit, Idle
<1>2. ASSUME NEW s \in Slot
      PROVE  call[s].pc = "free" /\ call[s].kind = "none" /\ ~call[s].tx /\ call[s].waiting = <<>>
  BY DEF Init, NoCall
<1>3. LandInv /\ UniqueInv
  BY <1>1 DEF LandInv, UniqueInv
<1>4. TxInv /\ TxMeansLanded
  BY <1>1, <1>2 DEF TxInv, TxFits, TxMeansLanded
<1>5. PrefixInv /\ ApprovedVersionOnRecord /\ VersionsAreGranted
  BY <1>1, <1>2 DEF PrefixInv, ApprovedVersionOnRecord, VersionsAreGranted
<1>6. QueueInv /\ NewestQueuedOrAnchored
  BY <1>1 DEF QueueInv, NewestQueuedOrAnchored
<1>7. AnswerInv /\ ShownUntilAnswered
  BY <1>1, <1>2 DEF AnswerInv, ShownUntilAnswered
<1>8. NonceInv /\ NonceNeverReused
  BY <1>1, <1>2 DEF NonceInv, Numbered, NonceNeverReused
<1>9. EmptyInv /\ OrderInv
  BY <1>1, <1>2 DEF EmptyInv, OrderInv
<1> QED
  BY <1>3, <1>4, <1>5, <1>6, <1>7, <1>8, <1>9 DEF OutcomeInv

LEMMA OutcomeStutter == ASSUME OutcomeInv, UNCHANGED vars PROVE OutcomeInv'
<1>0. UNCHANGED <<files, grants, grant_nonce, deferred_bumps, mode, chain, seqno, pool, mined, call, watch,
                  pending, shown, sent, refused, cut>>
  BY DEF vars, ledgerVars, accountVars, agentVars, history
<1>1. LandInv' /\ UniqueInv'
  BY <1>0 DEF OutcomeInv, LandInv, PoolFits, MinedFits, Executed, UniqueInv
<1>2. TxInv' /\ TxMeansLanded'
  BY <1>0 DEF OutcomeInv, TxInv, TxFits, TxMeansLanded, Smart
<1>3. PrefixInv' /\ ApprovedVersionOnRecord' /\ VersionsAreGranted'
  BY <1>0 DEF OutcomeInv, PrefixInv, StartsWith, ApprovedVersionOnRecord, VersionsAreGranted
<1>4. QueueInv' /\ NewestQueuedOrAnchored'
  BY <1>0 DEF OutcomeInv, QueueInv, NewestQueuedOrAnchored
<1>5. AnswerInv' /\ ShownUntilAnswered'
  BY <1>0 DEF OutcomeInv, AnswerInv, ShownUntilAnswered
<1>6. NonceInv' /\ NonceNeverReused'
  BY <1>0 DEF OutcomeInv, NonceInv, Numbered, NonceNeverReused
<1>7. EmptyInv' /\ OrderInv'
  BY <1>0 DEF OutcomeInv, EmptyInv, OrderInv, OpFits, InOrder
<1> QED
  BY <1>1, <1>2, <1>3, <1>4, <1>5, <1>6, <1>7 DEF OutcomeInv

LEMMA OwnerInvariance == Spec => []OwnerInv
<1>1. ASSUME StateInv, StateInv', OutcomeInv, [Next]_vars PROVE OutcomeInv'
  <2>1. CASE Next
    BY <1>1, <2>1, LandStep, UniqueStep, TxStep, PrefixStep, VersionsStep, QueueStep, NewestStep,
       AnswerStep, NonceStep, EmptyStep, OrderStep DEF OutcomeInv
  <2>2. CASE UNCHANGED vars
    BY <1>1, <2>2, OutcomeStutter
  <2> QED
    BY <1>1, <2>1, <2>2
<1> QED
  BY <1>1, OutcomeInit, StateInvariance, PTL DEF Spec, OwnerInv

\* The transaction that a smart account's Agent records with a registration, sends with an
\* approval or records with a grant or a revoke is of a write the contracts executed
\* (approve.rs, lock.rs: the hash comes from a receipt that says success).
THEOREM TxTheorem == Spec => []TxMeansLanded
<1>1. OwnerInv => TxMeansLanded
  BY DEF OwnerInv, OutcomeInv
<1> QED
  BY <1>1, OwnerInvariance, PTL

\* Of the approvals of one request that a smart account's Agent sends at most one names a
\* transaction, from however many screens it is answered, whatever crashes in between and
\* whenever the link comes up: the hash is of a grant that was executed, and AccessPolicy
\* takes a request once (approve.rs, decide).
THEOREM OneApprovalTheorem == Spec => []OneApprovalOnChain
<1>1. OwnerInv => OneApprovalOnChain
  <2> SUFFICES ASSUME OwnerInv, Smart, NEW m \in sent, NEW n \in sent, m.tx, n.tx, m.g.req = n.g.req
               PROVE  m = n
    BY DEF OneApprovalOnChain
  <2>1. m \in [g : GrantId, tx : BOOLEAN] /\ n \in [g : GrantId, tx : BOOLEAN]
    BY DEF OwnerInv, OutcomeInv, StateInv, PeerInv
  <2>2. m.g \in chain.granted /\ n.g \in chain.granted
    BY DEF OwnerInv, OutcomeInv, TxMeansLanded
  <2>3. m.g = n.g
    BY <2>2 DEF OwnerInv, OutcomeInv, UniqueInv
  <2>4. m.tx = n.tx
    BY <2>1
  <2> QED
    BY <2>1, <2>3, <2>4
<1> QED
  BY <1>1, OwnerInvariance, PTL

\* Unless a funded key writes, no two approvals that went to the relay alone carry the same
\* nonce, over concurrent answers, restarts and links that come up in between (ledger.rs,
\* next_grant_nonce saves before it hands out).
THEOREM NonceTheorem == Spec => []NonceNeverReused
<1>1. OwnerInv => NonceNeverReused
  BY DEF OwnerInv, OutcomeInv
<1> QED
  BY <1>1, OwnerInvariance, PTL

\* An approval names a version that the record has gone through: what a request asks for is
\* compared with the record as it was when the request arrived, and the record only ever
\* grows (approve.rs, answer).
THEOREM VersionTheorem == Spec => []ApprovedVersionOnRecord
<1>1. OwnerInv => ApprovedVersionOnRecord
  BY DEF OwnerInv, OutcomeInv
<1> QED
  BY <1>1, OwnerInvariance, PTL

\* Every version on record was saved under an approval that is on record for the same file
\* (approve.rs, accept_version).
THEOREM GrantedVersionsTheorem == Spec => []VersionsAreGranted
<1>1. OwnerInv => VersionsAreGranted
  BY DEF OwnerInv, OutcomeInv
<1> QED
  BY <1>1, OwnerInvariance, PTL

\* A passkey device whose round had the link when it accepted the newest version of a file,
\* and that was not killed before it queued it, has that version in the queue or at the
\* contract, whatever the batches that carry the queue do (chain.rs, clear_deferred_bumps).
THEOREM NewestTheorem == Spec => []NewestQueuedOrAnchored
<1>1. OwnerInv => NewestQueuedOrAnchored
  BY DEF OwnerInv, OutcomeInv
<1> QED
  BY <1>1, OwnerInvariance, PTL

\* A request that was shown stays on the list until an answer to it went out (approve.rs,
\* decide takes it off the list last).
THEOREM ShownTheorem == Spec => []ShownUntilAnswered
<1>1. OwnerInv => ShownUntilAnswered
  BY DEF OwnerInv, OutcomeInv
<1> QED
  BY <1>1, OwnerInvariance, PTL

\* Unless it defers, no block takes the chain's version of a file back (chain.rs, the
\* nonces of the account order the bumps as the versions were accepted).
THEOREM AnchoredTheorem == Spec => AnchoredForward
<1> DEFINE Forward == mode # "passkey" =>
                        \A f \in DOMAIN chain.version : Len(chain'.version[f]) >= Len(chain.version[f])
<1>1. OwnerInv /\ [Next]_vars => [Forward]_chain
  <2> SUFFICES ASSUME OwnerInv, [Next]_vars, chain' # chain, mode # "passkey"
               PROVE  \A f \in DOMAIN chain.version : Len(chain'.version[f]) >= Len(chain.version[f])
    OBVIOUS
  <2>0. StateInv /\ AccountInv /\ OrderInv
    BY DEF OwnerInv, OutcomeInv, StateInv
  <2>1. Next
    BY DEF vars, accountVars
  <2>2. ASSUME NEW s \in Slot, Idles(s) \/ Submit(s) PROVE chain' = chain
    BY <2>0, <2>2, IdlesFrame, SubmitFacts DEF accountVars
  <2>3. ASSUME bump_version PROVE chain' = chain
    BY <2>0, <2>3, BumpFacts
  <2>4. ASSUME Elsewhere PROVE chain' = chain
    BY <2>4, ElsewhereFrame DEF accountVars
  <2>5. PICK op \in pool, ok \in BOOLEAN : Block(op, ok)
    BY <2>1, <2>2, <2>3, <2>4, NextCases
  <2> QED
    BY <2>0, <2>5, OrderIncluded
<1> QED
  BY <1>1, OwnerInvariance, PTL DEF Spec, AnchoredForward
=============================================================================
