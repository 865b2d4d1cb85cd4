---------------------------- MODULE OwnerAccount -----------------------------
(***************************************************************************)
(* How the owner's writes reach the contracts: crates/zbacs-chain          *)
(* (writer.rs, bundler.rs, client.rs) and the account they go through.     *)
(* SmartAccountWriter puts a batch into one user operation, all or         *)
(* nothing, carried by a bundler whenever it likes; DirectWriter sends a   *)
(* transaction.  Either way an operation holds the account's next nonce,   *)
(* is simulated when it is submitted and executed when it is included.     *)
(*                                                                         *)
(* The contracts are reduced to one account that owns every file; the     *)
(* whole of them is AccessPolicy.  The bumps of a batch are for distinct   *)
(* files, so their order does not matter; the asked-for call comes last.   *)
(***************************************************************************)
EXTENDS Ledger, FiniteSets

CONSTANTS
    Modes,          \* the kinds of machine the model looks at, of AllModes
    Watcher,        \* stands for the inbox watcher where a Slot stands for a call
    NoGrant         \* in the place of a grant id in a call that names none

\* How this machine writes once it has its link: what its settings say, which stay as
\* they are.  "device" and "passkey" are Mode::SmartAccount with a key that signs
\* silently and with one that always prompts.  "none" has no writer.
AllModes == {"none", "direct", "device", "passkey"}

ASSUME AccountAssumption ==
    Modes \subseteq AllModes /\ Watcher \notin Slot /\ NoGrant \notin GrantId

VARIABLES
    mode,
    chain,          \* what the contracts hold for this owner; version on the registered files
    seqno,          \* the account's next nonce
    pool,           \* submitted and not yet included
    mined           \* receipts, by whose operation it was; TRUE where the call succeeded

accountVars == <<mode, chain, seqno, pool, mined>>

Smart == mode \in {"device", "passkey"}

\* The asked-for call: Call::Register, Grant or Revoke; "bump" is a bumpVersion alone.
Call == [kind : {"register", "grant", "revoke", "bump"}, file : File, g : GrantId \cup {NoGrant}]

Bumps == UNION {[S -> Header] : S \in SUBSET File}
Op == [by : Slot \cup {Watcher}, nonce : Nat, bumps : Bumps, call : Call]

AccountTypeOK ==
    /\ mode \in Modes
    /\ DOMAIN chain.version \subseteq File /\ chain.version \in [DOMAIN chain.version -> Header]
    /\ chain.nonce \in Nat
    /\ chain.used \subseteq Req
    /\ chain.granted \subseteq GrantId
    /\ chain.revoked \subseteq chain.granted
    /\ chain.bumped \subseteq File \X Header
    /\ seqno \in Nat
    /\ pool \subseteq Op
    /\ DOMAIN mined \subseteq Slot /\ mined \in [DOMAIN mined -> BOOLEAN]

AccountInit ==
    /\ mode \in Modes
    /\ chain = [version |-> <<>>, nonce |-> 0, used |-> {},
                granted |-> {}, revoked |-> {}, bumped |-> {}]
    /\ seqno = 0
    /\ pool = {}
    /\ mined = <<>>

-----------------------------------------------------------------------------
(***************************************************************************)
(* The contracts                                                           *)
(***************************************************************************)

\* bumpVersion reverts for a file that is not registered and for the hash it has, and
\* leaves an event in chain.bumped.
BumpsPass(c, bumps) ==
    \A f \in DOMAIN bumps : f \in DOMAIN c.version /\ c.version[f] # bumps[f]

AfterBumps(c, bumps) ==
    [c EXCEPT !.version = [f \in DOMAIN @ |-> IF f \in DOMAIN bumps THEN bumps[f] ELSE @[f]],
              !.bumped = @ \cup {<<f, bumps[f]>> : f \in DOMAIN bumps}]

\* Seeded fault: grant() does not look at usedRequestNonce.
CallPassesAgain(c, call) ==
    CASE call.kind = "register" -> call.file \notin DOMAIN c.version
      [] call.kind = "grant"    -> /\ call.file \in DOMAIN c.version
                                   /\ call.g.header = c.version[call.file]
                                   /\ call.g.nonce = c.nonce
      [] call.kind = "revoke"   -> call.g \in c.granted
      [] call.kind = "bump"     -> TRUE

\* Seeded fault: revoke() takes any id.
CallPassesUnknown(c, call) ==
    CASE call.kind = "register" -> call.file \notin DOMAIN c.version
      [] call.kind = "grant"    -> /\ call.file \in DOMAIN c.version
                                   /\ call.g.header = c.version[call.file]
                                   /\ call.g.nonce = c.nonce
                                   /\ call.g.req \notin c.used
      [] call.kind = "revoke"   -> TRUE
      [] call.kind = "bump"     -> TRUE

\* The conditions under which the call does not revert.
CallPasses(c, call) ==
    CASE call.kind = "register" -> call.file \notin DOMAIN c.version
      [] call.kind = "grant"    -> /\ call.file \in DOMAIN c.version
                                   /\ call.g.header = c.version[call.file]
                                   /\ call.g.nonce = c.nonce
                                   /\ call.g.req \notin c.used
      [] call.kind = "revoke"   -> call.g \in c.granted
      [] call.kind = "bump"     -> TRUE

AfterCall(c, call) ==
    CASE call.kind = "register" -> [c EXCEPT !.version = Put(@, call.file, <<>>)]
      [] call.kind = "grant"    -> [c EXCEPT !.nonce = @ + 1, !.used = @ \cup {call.g.req},
                                             !.granted = @ \cup {call.g}]
      [] call.kind = "revoke"   -> [c EXCEPT !.revoked = @ \cup {call.g}]
      [] call.kind = "bump"     -> c

Passes(c, bumps, call) == BumpsPass(c, bumps) /\ CallPasses(AfterBumps(c, bumps), call)

-----------------------------------------------------------------------------
(***************************************************************************)
(* The writer                                                              *)
(***************************************************************************)

\* Estimating, sponsoring and sending simulate the operation: one that would revert
\* now is refused.  What comes between reading the nonce and sending is one step: an
\* operation with a nonce used up meanwhile is refused, like a refusal for any reason.
Sends(by, nonce, bumps, call) ==
    /\ Passes(chain, bumps, call)
    /\ pool' = pool \cup {[by |-> by, nonce |-> nonce, bumps |-> bumps, call |-> call]}
    /\ UNCHANGED <<mode, chain, seqno, mined>>

\* The account's next nonce, from the entry point.
next_nonce == seqno

\* DirectWriter sends transactions, whose nonces count the pending ones too.  Nothing is
\* ever deferred on such a machine, so a batch is a single call.
SubmitDirect(by, bumps, call) ==
    /\ mode = "direct"
    /\ Sends(by, seqno + Cardinality(pool), bumps, call)

\* SmartAccountWriter puts the batch into one user operation.
SubmitUserOp(by, bumps, call) ==
    /\ mode # "direct"
    /\ Sends(by, next_nonce, bumps, call)

submit(by, bumps, call) == SubmitDirect(by, bumps, call) \/ SubmitUserOp(by, bumps, call)

\* A block takes op in.  ok is FALSE where it runs out of the gas that was estimated
\* for it.  The account's nonce moves on whether or not the calls are executed, and
\* what else was signed for that nonce is void.  The watcher does not look at its
\* receipts.
Include(op, ok) ==
    LET success == ok /\ Passes(chain, op.bumps, op.call) IN
    /\ op \in pool /\ op.nonce = seqno
    /\ seqno' = seqno + 1
    /\ pool' = {o \in pool : o.nonce > seqno}
    /\ chain' = IF success THEN AfterCall(AfterBumps(chain, op.bumps), op.call) ELSE chain
    /\ mined' = IF op.by \in Slot THEN Put(mined, op.by, success) ELSE mined
    /\ UNCHANGED mode

\* wait: the operation, or the transaction, of s was mined.
wait(s) == s \in DOMAIN mined

\* client.rs returns the hash of whatever transaction was mined, a reverted one too.
DirectReceipt(s) == wait(s)

\* Seeded fault: the receipt's success is not looked at.
UserOpReceiptUnchecked(s) == wait(s)

\* send_call_data: a receipt is good when the user operation succeeded.
UserOpReceipt(s) == wait(s) /\ mined[s]

Receipt(s) == IF Smart THEN UserOpReceipt(s) ELSE DirectReceipt(s)
=============================================================================
