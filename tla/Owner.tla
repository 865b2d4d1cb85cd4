-------------------------------- MODULE Owner --------------------------------
(***************************************************************************)
(* The owner's Agent (apps/agent/src-tauri/src: approve.rs, chain.rs,      *)
(* seal.rs): the commands seal_file, decide and revoke_grant and the inbox *)
(* watcher, which run concurrently over one ledger, one account and one    *)
(* map of pending requests.  A step ends where the code awaits or releases *)
(* a lock.  The notification and the window call the same decide, so one   *)
(* request may be answered twice.  The link to the chain comes up in the   *)
(* background, perhaps never; whoever needs it asks for it once and goes   *)
(* on with what it got.                                                    *)
(*                                                                         *)
(* The recipients ask and save.  A holder is taken to have an approval to  *)
(* edit; its requests and notices are signed by it (Relay, accept_request  *)
(* and accept_version drop the others), but a notice names whatever file   *)
(* it likes.  A request for a file that is not in the ledger can only be   *)
(* refused and is left out.                                                *)
(***************************************************************************)
EXTENDS OwnerAccount

CONSTANTS
    Fid,            \* Fid[r]: the file that r is about
    Lockable,       \* Lockable[m]: bound of the model on the files there are in mode m
    MaxSaved,       \* MaxSaved[m]: bound of the model on the versions in mode m
    MaxCrashes      \* MaxCrashes[m]: bound of the model on restarts and links replaced in mode m

Notice == [g : GrantId, fid : File, header : Header]

\* A request and a version notice are messages of different kinds.
ASSUME OwnerAssumption ==
    /\ Fid \in [Req -> File] /\ Lockable \in [AllModes -> SUBSET File]
    /\ MaxSaved \in [AllModes -> 1 .. MaxVer] /\ MaxCrashes \in [AllModes -> Nat]
    /\ Req \cap Notice = {}

VARIABLES
    call,           \* the commands: one record for each call
    watch,          \* the inbox watcher
    pending,        \* Approvals.pending: the record's version when r arrived
    inbox,          \* what recipients sent to the owner
    asked,          \* asked[r]: the version that r names, on the requests made
    copy,           \* copy[r]: the newest version the holder of r has written or read
    sent,           \* history: the approvals that reached the relay
    refused,        \* history: the requests whose refusal did
    shown,          \* history: requests put into pending since the last start
    cut,            \* history: files whose newest accepted version was never handed to a writer
    link,           \* chain::current: this run has connected, and can write
    looked,         \* the link as this round of the watcher found it
    crashes         \* restarts of the Agent, and links replaced, so far

agentVars == <<call, watch, pending, shown>>
peerVars == <<inbox, asked, copy>>
history == <<sent, refused, cut>>
runVars == <<link, looked, crashes>>
vars == <<ledgerVars, accountVars, agentVars, peerVars, history, runVars>>

CallPc == {"nonce", "queue", "submit", "wait", "settx", "send", "record", "tell", "mark", "withheld"}

NoCall == [pc |-> "free", kind |-> "none", file |-> "none", g |-> NoGrant, waiting |-> <<>>,
           tx |-> FALSE, linked |-> FALSE]
Over == [NoCall EXCEPT !.pc = "over"]
Idle == [pc |-> "idle", about |-> <<>>]

TypeOK ==
    /\ LedgerTypeOK
    /\ AccountTypeOK
    /\ \A s \in Slot : call[s] \notin {NoCall, Over} =>
          call[s] \in [pc : CallPc, kind : {"register", "grant", "revoke", "deny"}, file : File,
                       g : GrantId \cup {NoGrant}, waiting : Bumps, tx : BOOLEAN,
                       linked : BOOLEAN]
    /\ watch.pc \in {"idle", "anchor", "wait"}
    /\ watch.about \in {h \in Bumps : Cardinality(DOMAIN h) <= 1}
    /\ DOMAIN pending \subseteq DOMAIN asked /\ pending \in [DOMAIN pending -> Header]
    /\ inbox \subseteq Req \cup Notice
    /\ DOMAIN asked \subseteq Req /\ asked \in [DOMAIN asked -> Header]
    /\ copy \in [DOMAIN asked -> Header]
    /\ sent \subseteq [g : GrantId, tx : BOOLEAN]
    /\ refused \subseteq Req /\ shown \subseteq Req /\ cut \subseteq File
    /\ link \in BOOLEAN /\ looked \in BOOLEAN /\ crashes \in 0 .. MaxCrashes[mode]

Init ==
    /\ LedgerInit
    /\ AccountInit
    /\ call = [s \in Slot |-> NoCall]
    /\ watch = Idle
    /\ pending = <<>> /\ inbox = {} /\ asked = <<>> /\ copy = <<>>
    /\ sent = {} /\ refused = {} /\ shown = {} /\ cut = {}
    /\ link = FALSE /\ looked = FALSE /\ crashes = 0

-----------------------------------------------------------------------------
(***************************************************************************)
(* The commands of the screen                                              *)
(***************************************************************************)
Free(s) == call[s].pc = "free" /\ \A n \in Slot : n < s => call[n].pc # "free"
Goes(s, pc) == call' = [call EXCEPT ![s].pc = pc]
Ends(s) == call' = [call EXCEPT ![s] = Over]
Starts(s, pc, kind, f, g) ==
    call' = [call EXCEPT ![s] = [NoCall EXCEPT !.pc = pc, !.kind = kind, !.file = f, !.g = g,
                                               !.linked = link]]

\* The file is locked and on record; with a link it is also put on the chain.
seal_file(s, f) ==
    /\ Free(s)
    /\ f \in Lockable[mode] \ DOMAIN files
    /\ record(f)
    /\ IF link THEN Starts(s, "queue", "register", f, NoGrant) ELSE Ends(s)
    /\ UNCHANGED <<accountVars, watch, pending, shown, peerVars, history, runVars>>

\* What an allow names: this request, the version it asks for; the nonce comes later.
terms_for(r, s) == [req |-> r, header |-> asked[r], nonce |-> 0, by |-> s]

\* Seeded fault: the version that is asked for is not compared with the record.
can_allow_any(r) == TRUE

\* The record, as it was when the request arrived, has the version that is asked for.
can_allow(r) == pending[r] = asked[r]

\* "unknown_request" unless it is pending; an allow of another version is refused.
decide(s, r, d) ==
    /\ Free(s)
    /\ r \in DOMAIN pending
    /\ d = "allow" => can_allow(r)
    /\ Starts(s, IF d = "allow" THEN "nonce" ELSE "send", IF d = "allow" THEN "grant" ELSE "deny",
              Fid[r], terms_for(r, s))
    /\ UNCHANGED <<ledgerVars, accountVars, watch, pending, shown, peerVars, history, runVars>>

\* "unknown_grant" unless it is on record.
revoke_grant(s, g) ==
    /\ Free(s)
    /\ g \in DOMAIN grants
    /\ Starts(s, "tell", "revoke", Fid[g.req], g)
    /\ UNCHANGED <<ledgerVars, accountVars, watch, pending, shown, peerVars, history, runVars>>

-----------------------------------------------------------------------------
(***************************************************************************)
(* answer: what an allow does                                              *)
(***************************************************************************)

\* The nonce the contract will ask for; the local count without a link, and when the
\* chain cannot be read.  Then the device signs the terms; with a link and a smart
\* account the user operation's signature is the approval.
TakeNonce(s) ==
    LET signed(n) == call' = [call EXCEPT ![s].pc = IF call[s].linked THEN "queue" ELSE "send", ![s].g.nonce = n]
    IN  /\ call[s].pc = "nonce"
        /\ \/ call[s].linked /\ signed(chain.nonce) /\ UNCHANGED ledgerVars
           \/ signed(grant_nonce) /\ next_grant_nonce
        /\ UNCHANGED <<accountVars, watch, pending, shown, peerVars, history, runVars>>

\* "cancelled", "needs_os_confirm", or no way to the file's key, with a nonce taken.
GivesUp(s) ==
    /\ call[s].pc = "nonce"
    /\ UNCHANGED ledgerVars \/ next_grant_nonce
    /\ Ends(s)
    /\ UNCHANGED <<accountVars, watch, pending, shown, peerVars, history, runVars>>

-----------------------------------------------------------------------------
(***************************************************************************)
(* ChainLink::write                                                        *)
(***************************************************************************)
ReadQueue(s) ==
    /\ call[s].pc = "queue"
    /\ call' = [call EXCEPT ![s].pc = "submit", ![s].waiting = deferred_bumps]
    /\ UNCHANGED <<ledgerVars, accountVars, watch, pending, shown, peerVars, history, runVars>>

Submit(s) ==
    /\ call[s].pc = "submit"
    /\ submit(s, call[s].waiting, [kind |-> call[s].kind, file |-> call[s].file, g |-> call[s].g])
    /\ Goes(s, "wait")
    /\ UNCHANGED <<ledgerVars, watch, pending, shown, peerVars, history, runVars>>

\* The write landed: the queued versions that went out with it are forgotten.
Landed(s) ==
    /\ call[s].pc = "wait" /\ Receipt(s)
    /\ clear_deferred_bumps(call[s].waiting)
    /\ call' = [call EXCEPT ![s].tx = TRUE, ![s].waiting = <<>>,
                            ![s].pc = CASE call[s].kind = "grant"    -> "send"
                                        [] call[s].kind = "revoke"   -> "mark"
                                        [] call[s].kind = "register" -> "settx"]
    /\ UNCHANGED <<accountVars, watch, pending, shown, peerVars, history, runVars>>

\* The person cancels, a node or bundler refuses or cannot be reached, the receipt
\* says reverted, or inclusion_timeout passes: a smart account's approval is withheld,
\* a funded key's goes out without a transaction, a revoke is still marked, and a
\* file stays locked without being registered.
WriteFails(s) ==
    /\ call[s].pc \in {"submit", "wait"}
    /\ IF call[s].kind = "register" THEN Ends(s)
       ELSE call' = [call EXCEPT ![s].waiting = <<>>,
                                 ![s].pc = CASE call[s].kind = "revoke" -> "mark"
                                             [] call[s].kind = "grant" /\ Smart -> "withheld"
                                             [] call[s].kind = "grant" /\ ~Smart -> "send"]
    /\ UNCHANGED <<ledgerVars, accountVars, watch, pending, shown, peerVars, history, runVars>>

SetRegisteredTx(s) ==
    /\ call[s].pc = "settx"
    /\ set_registered_tx(call[s].file)
    /\ Ends(s)
    /\ UNCHANGED <<accountVars, watch, pending, shown, peerVars, history, runVars>>

-----------------------------------------------------------------------------
(***************************************************************************)
(* The answer goes out, then into the record                               *)
(***************************************************************************)
Delivered(s) ==
    /\ sent' = IF call[s].kind = "grant" THEN sent \cup {[g |-> call[s].g, tx |-> call[s].tx]} ELSE sent
    /\ refused' = IF call[s].kind = "deny" THEN refused \cup {call[s].g.req} ELSE refused
    /\ UNCHANGED cut

Send(s) ==
    /\ call[s].pc = "send"
    /\ Delivered(s)
    /\ Goes(s, "record")
    /\ UNCHANGED <<ledgerVars, accountVars, watch, pending, shown, peerVars, runVars>>

Without(f, x) == [y \in DOMAIN f \ {x} |-> f[y]]

\* Seeded fault: a request whose answer failed is taken off the list.
SendFailsForgets(s) ==
    /\ call[s].pc = "send"
    /\ Delivered(s) \/ UNCHANGED history
    /\ Ends(s)
    /\ pending' = Without(pending, call[s].g.req)
    /\ UNCHANGED <<ledgerVars, accountVars, watch, shown, peerVars, runVars>>

\* "relay_unreachable": no relay's answer came back, though one may have taken it.
SendFails(s) ==
    /\ call[s].pc = "send"
    /\ Delivered(s) \/ UNCHANGED history
    /\ Ends(s)
    /\ UNCHANGED <<ledgerVars, accountVars, watch, pending, shown, peerVars, runVars>>

\* Sent first, recorded second; then decide takes the request off the list.
Record(s) ==
    /\ call[s].pc = "record"
    /\ IF call[s].kind = "grant" THEN record_grant(call[s].g, call[s].tx) ELSE UNCHANGED ledgerVars
    /\ pending' = Without(pending, call[s].g.req)
    /\ Ends(s)
    /\ UNCHANGED <<accountVars, watch, shown, peerVars, history, runVars>>

\* revoke_now: the relay first, then the chain if the grant is there.
Tell(s) ==
    /\ call[s].pc = "tell"
    /\ Goes(s, IF call[s].linked /\ grants[call[s].g].tx_hash THEN "queue" ELSE "mark")
    /\ UNCHANGED <<ledgerVars, accountVars, watch, pending, shown, peerVars, history, runVars>>

TellFails(s) ==
    /\ call[s].pc = "tell"
    /\ Ends(s)
    /\ UNCHANGED <<ledgerVars, accountVars, watch, pending, shown, peerVars, history, runVars>>

Mark(s) ==
    /\ call[s].pc = "mark"
    /\ mark_revoked(call[s].g, call[s].tx)
    /\ Ends(s)
    /\ UNCHANGED <<accountVars, watch, pending, shown, peerVars, history, runVars>>

-----------------------------------------------------------------------------
(***************************************************************************)
(* The inbox watcher: next_requests_on and the loop of ensure_watching     *)
(*                                                                         *)
(* The code drains the inbox, applies the notices of the batch one by one  *)
(* and then shows its requests.  Here a message leaves inbox when it is    *)
(* its turn.  A batch that a crash cuts short is a batch whose rest is     *)
(* never read, like a message that is lost or late.                        *)
(***************************************************************************)

\* A round begins: it asks for the link once, before it reads the inbox.
WatchLooks ==
    /\ watch = Idle /\ looked # link
    /\ looked' = link
    /\ UNCHANGED <<ledgerVars, accountVars, agentVars, peerVars, history, link, crashes>>

\* Seeded fault: the approval may be one for another file.
apply_version_any_file(n) == n.g \in DOMAIN grants /\ Continues(n.fid, n.header)

\* Only for a grant on record for that file, and only the next version.
apply_version(n) ==
    /\ n.g \in DOMAIN grants
    /\ Fid[n.g.req] = n.fid
    /\ Continues(n.fid, n.header)

\* Without a link the version is neither sent nor queued.
Anchoring(n) == IF looked THEN [pc |-> "anchor", about |-> [x \in {n.fid} |-> n.header]] ELSE Idle
Handed(n) == cut' = IF looked THEN cut \ {n.fid} ELSE cut \cup {n.fid}

\* Seeded fault: a version goes to the chain although the record did not take it.
WatchNoticeAnchorsAll(n) ==
    /\ watch = Idle
    /\ n \in inbox \ Req
    /\ inbox' = inbox \ {n}
    /\ watch' = Anchoring(n)
    /\ IF apply_version(n) THEN advance_version(n.fid, n.header) /\ Handed(n) ELSE UNCHANGED <<ledgerVars, cut>>
    /\ UNCHANGED <<accountVars, call, pending, shown, asked, copy, sent, refused, runVars>>

WatchNotice(n) ==
    /\ watch = Idle
    /\ n \in inbox \ Req
    /\ inbox' = inbox \ {n}
    /\ \/ /\ apply_version(n)
          /\ advance_version(n.fid, n.header)
          /\ watch' = Anchoring(n)
          /\ Handed(n)
       \/ /\ ~apply_version(n)
          /\ UNCHANGED <<ledgerVars, watch, cut>>
    /\ UNCHANGED <<accountVars, call, pending, shown, asked, copy, sent, refused, runVars>>

\* ChainLink::bump_version: a passkey queues it, any other key submits it now.
bump_version ==
    /\ watch.pc = "anchor"
    /\ \E f \in DOMAIN watch.about :
          \/ /\ mode = "passkey"
             /\ defer_bump(f, watch.about[f])
             /\ watch' = Idle
             /\ UNCHANGED accountVars
          \/ /\ mode # "passkey"
             /\ submit(Watcher, watch.about, [kind |-> "bump", file |-> f, g |-> NoGrant])
             /\ watch' = [watch EXCEPT !.pc = "wait"]
             /\ UNCHANGED ledgerVars
    /\ UNCHANGED <<call, pending, shown, peerVars, history, runVars>>

\* It landed, or did not: logged, and not tried again.
WatchGoesOn ==
    /\ \/ watch.pc = "anchor" /\ mode # "passkey"
       \/ watch.pc = "wait"
    /\ watch' = Idle
    /\ UNCHANGED <<ledgerVars, accountVars, call, pending, shown, peerVars, history, runVars>>

\* A request goes to the person with the record as it is now.
WatchShows(r) ==
    /\ watch = Idle
    /\ r \in inbox \cap Req
    /\ inbox' = inbox \ {r}
    /\ pending' = Put(pending, r, files[Fid[r]].header)
    /\ shown' = shown \cup {r}
    /\ UNCHANGED <<ledgerVars, accountVars, call, watch, asked, copy, history, runVars>>

-----------------------------------------------------------------------------
(***************************************************************************)
(* The recipients, the chain and the operating system                      *)
(***************************************************************************)

\* Somebody who has a version of a locked file asks for it.
Ask(r, h) ==
    /\ r \notin DOMAIN asked
    /\ Fid[r] \in DOMAIN files
    /\ h = <<>> \/ \E q \in DOMAIN copy : Fid[q] = Fid[r] /\ copy[q] = h
    /\ asked' = Put(asked, r, h)
    /\ copy' = Put(copy, r, h)
    /\ inbox' = inbox \cup {r}
    /\ UNCHANGED <<ledgerVars, accountVars, agentVars, history, runVars>>

\* The holder of an approval saves, and tells the owner that this is file f.
Save(g, f) ==
    /\ \E m \in sent : m.g = g
    /\ f \in Lockable[mode]
    /\ Ver(copy[g.req]) < MaxSaved[mode]
    /\ copy' = [copy EXCEPT ![g.req] = Append(@, g.req)]
    /\ inbox' = inbox \cup {[g |-> g, fid |-> f, header |-> copy'[g.req]]}
    /\ UNCHANGED <<ledgerVars, accountVars, agentVars, asked, history, runVars>>

Block(op, ok) ==
    /\ Include(op, ok)
    /\ UNCHANGED <<ledgerVars, agentVars, peerVars, history, runVars>>

\* The task of ensure() has connected, with the settings this machine has.  Where the
\* deployment cannot be read or the chain not be reached it ends without a link, and
\* where the approval key was not there yet with one that cannot write: in either case
\* nothing goes to the chain until the next start.
LinkUp ==
    /\ mode # "none" /\ ~link
    /\ link' = TRUE
    /\ UNCHANGED <<ledgerVars, accountVars, agentVars, peerVars, history, looked, crashes>>

\* Another task of ensure(), begun before the approval key was there, stores its link
\* over the one that can write.
LinkReplaced ==
    /\ Smart /\ link /\ crashes < MaxCrashes[mode]
    /\ link' = FALSE
    /\ crashes' = crashes + 1
    /\ UNCHANGED <<ledgerVars, accountVars, agentVars, peerVars, history, looked>>

\* The Agent is killed and started again: what it held in memory is gone, and what it
\* had submitted is still with the bundler.
Crash ==
    /\ crashes < MaxCrashes[mode]
    /\ crashes' = crashes + 1
    /\ call' = [s \in Slot |-> IF call[s].pc \in {"free", "withheld"} THEN call[s] ELSE Over]
    /\ watch' = Idle
    /\ pending' = <<>> /\ shown' = {}
    /\ cut' = cut \cup (IF watch.pc = "anchor" THEN DOMAIN watch.about ELSE {})
    /\ link' = FALSE /\ looked' = FALSE
    /\ UNCHANGED <<ledgerVars, accountVars, peerVars, sent, refused>>

Runs(s) ==
    \/ TakeNonce(s) \/ GivesUp(s)
    \/ ReadQueue(s) \/ Submit(s) \/ Landed(s) \/ WriteFails(s) \/ SetRegisteredTx(s)
    \/ Send(s) \/ SendFails(s) \/ Record(s)
    \/ Tell(s) \/ TellFails(s) \/ Mark(s)

Next ==
    \/ \E s \in Slot :
          \/ \E f \in File : seal_file(s, f)
          \/ \E r \in Req, d \in {"allow", "deny"} : decide(s, r, d)
          \/ \E g \in DOMAIN grants : revoke_grant(s, g)
          \/ Runs(s)
    \/ \E n \in inbox \ Req : WatchNotice(n)
    \/ \E r \in inbox \cap Req : WatchShows(r)
    \/ bump_version
    \/ WatchGoesOn
    \/ WatchLooks
    \/ LinkUp
    \/ LinkReplaced
    \/ \E r \in Req : \E h \in Header : Ask(r, h)
    \/ \E m \in sent : \E f \in File : Save(m.g, f)
    \/ \E op \in pool, ok \in BOOLEAN : Block(op, ok)
    \/ Crash

Spec == Init /\ [][Next]_vars

-----------------------------------------------------------------------------
(***************************************************************************)
(* Properties                                                              *)
(***************************************************************************)

\* A transaction that a smart account's Agent writes down or sends out is one that the
\* contracts executed: of a registration, a grant or a revoke (writer.rs, "Transaction
\* hash of a landed write").
TxMeansLanded ==
    Smart =>
    /\ \A f \in DOMAIN files : files[f].registered_tx => f \in DOMAIN chain.version
    /\ \A m \in sent : m.tx => m.g \in chain.granted
    /\ \A g \in DOMAIN grants :
          /\ grants[g].tx_hash => g \in chain.granted
          /\ grants[g].revoke_tx => g \in chain.revoked

\* However often and from wherever a request is answered, and whatever crashes, at most
\* one of the approvals of it that a smart account's Agent sends names a transaction.
\* (Answers given while there is no link go to the relay alone, each of them.)
OneApprovalOnChain ==
    Smart => \A m, n \in sent : m.tx /\ n.tx /\ m.g.req = n.g.req => m = n

\* No two approvals that go to the relay alone carry the same nonce, over restarts,
\* concurrent answers and links that come up in between (T03).  A funded key is left
\* out: its approval goes out with the chain's nonce when the chain did not take it.
NonceNeverReused ==
    mode # "direct" => \A m, n \in sent : ~m.tx /\ ~n.tx /\ m.g.nonce = n.g.nonce => m.g = n.g

\* An approval names a version that was on this machine's record: the record may have
\* moved on since the request arrived, but has not taken another way (T19).  The docs
\* claim more, that it is the newest version: OnlyNewestCanBeAllowed, which is not so.
ApprovedVersionOnRecord ==
    \A m \in sent : LET h == files[Fid[m.g.req]].header IN
        Len(m.g.header) <= Len(h) /\ m.g.header = SubSeq(h, 1, Len(m.g.header))

\* What relay_protocol.md says of an accepted version notice: from then on only requests
\* for that header_hash can be allowed.  Not so of one that was already pending.
OnlyNewestCanBeAllowed ==
    \A r \in DOMAIN pending : can_allow(r) => asked[r] = files[Fid[r]].header

\* Every version on record was written under an approval that is on record too, for
\* that file.
VersionsAreGranted ==
    \A f \in DOMAIN files : \A i \in DOMAIN files[f].header :
        \E g \in DOMAIN grants : g.req = files[f].header[i] /\ Fid[g.req] = f

\* A passkey device does not lose the newest version of a file while other versions go
\* out, fail and are cleared: it is in the queue or it went to the chain (ADR-0008 5),
\* unless the round that accepted it had no link, or the Agent was killed before it
\* could be queued.
NewestQueuedOrAnchored ==
    mode = "passkey" =>
    \A f \in DOMAIN files \ cut : LET h == files[f].header IN
        \/ h = <<>>
        \/ f \in DOMAIN deferred_bumps /\ deferred_bumps[f] = h
        \/ <<f, h>> \in chain.bumped
        \/ watch.pc = "anchor" /\ f \in DOMAIN watch.about

\* What chain.rs says of the queue: "Queued writes that land are cleared".  A version
\* that is both queued and on the chain is about to be cleared by the call it went with.
LandedMeansCleared ==
    \A f \in DOMAIN deferred_bumps : <<f, deferred_bumps[f]>> \in chain.bumped =>
        \E s \in Slot : /\ call[s].pc = "wait" /\ f \in DOMAIN call[s].waiting
                       /\ call[s].waiting[f] = deferred_bumps[f]

\* What approve.rs says of the watcher with a link: "an accepted version notice is also
\* anchored with bumpVersion", so that the old version can no longer be granted on chain.
AcceptedIsAnchored ==
    \A f \in DOMAIN chain.version \ cut :
        watch = Idle /\ files[f].header # <<>> => <<f, files[f].header>> \in chain.bumped

\* A request that was shown stays on the list until an answer to it has gone out.
ShownUntilAnswered ==
    shown \subseteq DOMAIN pending \cup refused \cup {m.g.req : m \in sent}

\* Unless it defers, a machine never takes the chain's version of a file back to one
\* that was there before.
AnchoredForward ==
    [][mode # "passkey" =>
         \A f \in DOMAIN chain.version :
            Len(chain'.version[f]) >= Len(chain.version[f])]_chain

\* What approve.rs says where a smart account's approval is withheld: "No signature
\* was made at all, so there is no approval to send."
WithheldMeansNoGrant ==
    \A s \in Slot : call[s].pc = "withheld" => call[s].g \notin chain.granted

=============================================================================
