# Z-BACS in TLA+

Z-BACS lets the owner of a sealed file decide, each time, who opens it. A file is
encrypted into a container; a recipient's machine asks through a relay; the owner
taps an answer; the approval is recorded in a contract and sent back with the file's
key wrapped for the asking device; the recipient's agent decrypts into a workspace,
runs a viewer, reseals edits into new versions and wipes when the session ends. The
owner may pull an approval back at any time.

The modules here model that system from its source: the Solidity contracts, the
container format, the session state machine, the recipient's and the owner's agent,
the set up of a device and its link to the chain, the audit record, the relay and its
client. TLC checks them on small instances. TLAPS proves their safety properties for every
value of the constants, and that the contracts together implement an abstract
specification of rights. `PROJECT.json` maps every definition to the lines
it models.

## 1. The system's parts

| Part | State it keeps | Operations | Talks to |
|---|---|---|---|
| `contracts/src/FileRegistry.sol` | per file: owner, header hash, version, retired | register, bumpVersion, retire | read by AccessPolicy |
| `contracts/src/P256Validator.sol` | per account: device keys as a mapping and as a list | onInstall, enrollKey, revokeKey, onUninstall | asked for signatures by AccessPolicy |
| `contracts/src/AccessPolicy.sol` | nonce per owner, used request nonces, grant records | grant, revoke, consumeOpen, isValid | registry, validator |
| `crates/zbacs-session` | session state, workspace, viewer process, save watcher | `Session::apply`, create, wipe, launch, watch | called by the agent |
| agent `session.rs`, `open.rs` | open files (`Sessions`), one thread per open file | open_file, run_session, materialise, save, close, lock_now | session crate, relay client |
| agent `request.rs` | requests per path (`Requests`), one task per request | request_access, cancel_request, ask, watch_grant | relay client, chain |
| agent `approve.rs`, `ledger.rs`, `chain.rs`, `seal.rs` | pending requests, ledger file (`sealed.json`) with the queue of deferred versions | seal_file, decide/answer, revoke_grant, the inbox watcher, write, bump_version | relay client, chain |
| agent `lib.rs`, `setup.rs`, `ui/app.js` | the identity in memory, files handed over (`Pending`), the window's state | start, complete_setup, restore, deliver, take_pending | zbacs-auth, chain link |
| agent `chain.rs`, `audit.rs` | the link, the record file, the event cursor (in the ledger) | ensure, connect, adopt_owner, merge_events, append | nodes, ledger |
| `apps/relay` | devices, queues, nonces, routes, interests, quota; all in memory | devices, requests, grants, versions, revocations, inbox, stream | agents |
| `crates/zbacs-relay-client` | the attempt under way | submit, fetch_inbox | relays |
| `crates/zbacs-chain` | state cache, event cursor, user operations | reads and writes of the contracts | nodes, bundlers |
| `crates/zbacs-auth` | profile file, four secrets in a key store, approval key, confirmation policy | set up, resume, adopt an account, sign | OS key store and authenticator |
| `crates/zbacs-core` | container files, the backup of the owner's keys | seal, open, reseal, inspect, verify a version chain, export, restore | files |

What is hard here: the recipient's agent has a task per request and a thread per open
file that copy one held grant and write their copies back; the owner's agent answers,
revokes and takes in new versions at the same time over one ledger and one account,
whose operations a bundler may include long after the agent has given up; a link to
the chain comes up in the background and changes who the owner is; a container is
sealed in two passes over a file that may change between them; both sides read their
inbox destructively; a relay may restart and forget; the person, the viewer, the
owner, the clock and the chain act at any time; and a session must end, and wipe,
whatever fails. `PROJECT.json` lists these hazards at the line where each bites, with
the property that covers it.

What makes each part correct:
- contracts: an approval lands once, dead grants stay dead, retirement and ownership
  are final, the two copies of the keys agree, and the three together implement `Rights`;
- container: what opens is one whole version, a key handed out opens the version it was
  handed out for and no other, the owner reads every version, versions form a chain;
- device: one owner key, one owner identifier once settled, no handed file lost;
- record: below the cursor an event about a file of this machine is missing only where a
  look had no cursor or a line could not be written;
- opened file: plaintext exists only while the session allows it, a read-only session
  writes no version, the owner hears of every version, demands to end are met;
- recipient: a held grant is the owner's answer to that request, with terms that fit it; a
  request gets a result; a revoke on chain ends the open file;
- owner: at most one approval of a request on the chain however often it is answered, no
  local nonce signed twice, an approval names a version that was on record, only versions
  written under a recorded approval enter the record, a transaction on record was executed,
  the newest version is not lost on its way to the chain;
- relay: an envelope is accepted once, answers reach whoever asked, a revoke reaches
  everybody who asked, nothing is dropped before its time.

## 2. Modules and how they correspond to the code

**FileRegistry, P256Validator, AccessPolicy** - one action per external function,
enabled exactly when the Solidity function does not revert; a reverted call changes
nothing and is not a step. `AccessPolicy` extends the other two and is the system the
contracts form together. A grant id is the hash of all terms, taken as injective, so
`grants` is a partial function on terms. `timestamp` is `block.timestamp`. Integer
widths are kept (`U16Max`, `U32Max`); checked arithmetic reverts at the top.
`MCAccessPolicy` chooses the terms that get submitted.

**Rights** - what the contracts promise together, without nonces, signatures, versions
or clocks: `Claim` a file nobody owns, `Close` it, `Give` a grant for an open file and
an unanswered request, `End` a grant that was given. `AccessPolicy` maps to it: the
owner of a file is the registry's, `closed` is the retired files, `landed` the domain
of `grants`, `ended` the grants revoked or used up. `ImplementsRights` is a property of
the contracts' specification.

**Container** - the format and the files. Cryptography is symbolic: a ciphertext is
the record of what went into it and decrypts exactly under the same key, nonce and
associated data, a hash is its input, a random value is a number never drawn before. A
plaintext is a sequence of bytes cut into chunks, read once to be measured and once to
be sealed (`before`, `after`). An `Option` inside a file is a sequence of at most one
element. Every writer (`Lock`, `OwnerReseals`, `RecipientReseals`) makes a temporary file,
which `Rename` puts in place and `Abandon` leaves behind; a copy has one writer at a time. Copies are sent, damaged (cut, reordered, mixed with another
container) and approved; the owner's keys are lost, backed up and restored.

**Session** - `Session::apply` as a function of state and event: `Admissible` (is
there an arm and does it return Ok), `After` (the next session), `EffectsOf` (what
the caller must do). No variables.

**AgentSession** - one run of `run_session`: `Materialise*`, `Launch`, `Watch`, the
loop's looks in the code's order (`CheckCancel`, `CheckOutside`, `CheckExpiry`,
`CheckViewer`, `NoEvent`/`StartSave`), the save in its steps, and the end
(`RequestClose`, `StopViewer`, `Finish` with `Close`). Around it the viewer writes,
unlinks and quits, the directory goes quiet, the person locks, the watcher of the
grant writes its result, and time passes. `Faults` says which steps of the
environment may fail. File contents are numbered writes.

**Recipient** - one device: the `Requests` map, the `Sessions` map, a task per
request (ask, then watch_grant) and a thread per open file, with a step between any
two lock acquisitions. The owner, the relay's inbox and the contract's answer are the
environment; the inbox is shared by all tasks and read destructively, as
`inbox_for_device` does. An answer with the request's nonce whose terms do not fit the
request (the `Mismatch` cases of `classify`, one flag `fits` here) fails the request. An
opened file is reduced to running/ended; its inside is
AgentSession.

**Relay** - relays and clients: one action per outcome of an attempt (request lost,
answer lost, answered), repeated delivery, inbox reads, restart, clock. `authenticate`
applies signer, clock, quota and nonce in the code's order and keeps what each of them
changed when a later one refuses. An envelope is signed with its sender's own clock
(`Offset`) at its first attempt and carries the same bytes on every later one. A
handler is one step: it takes the mutex several times, but the registry only grows,
the nonce is tested and taken under one lock, and no one can refer to a request before
its last lock has queued it. Lists of routes and interests are sets, because their
order is never used. Old entries are popped off the front of a queue and of the list of
calls, up to the first that is young enough (`PopWhile`); an inbox read then takes what
has not expired (`drain`).

**Ledger, OwnerAccount, Owner** - the owner's agent. `Ledger` has one operation per
method of ledger.rs; each loads, changes and replaces the file under a mutex, so it is
one step, and a crash falls before or after it. `OwnerAccount` is the path of a write:
the batch of queued versions and the asked-for call becomes one operation with the
account's next nonce, simulated when it is submitted (`submit`) and executed when it is
included (`Include`), which may be never, late, or short of gas; what the contracts
hold for this owner is reduced from AccessPolicy. `mode` says what the settings of the
machine let it write with once it has a link: nothing, a funded key, a smart account with a
silent key, or one with a passkey. The settings stay as they are; the link does not. `link`
is `chain::current()`: down at every start, up when the task of `ensure()` has connected
(`LinkUp`), which may be never, and down again when another task, begun before the approval
key was there, stores a link that cannot write (`LinkReplaced`). A call reads it once
(`linked`), a round of the inbox watcher once (`looked`, `WatchLooks`). Without it an answer
is signed with a local nonce and goes to the relay alone, a locked file is not registered,
and an accepted version is neither sent nor queued (`cut` remembers the file).

`Owner` has a record per call of a command (`seal_file`, `decide`, `revoke_grant`) with
a step between any two awaits or locks, and the inbox watcher. The code drains the
inbox and goes through the batch; here a message leaves the inbox at its turn, which
gives the same states, because nobody else reads the inbox and a batch cut short by a
crash is one whose rest never arrived. Version notices may come in any order and name any
file, whatever file their approval is for. A header is named by the requests whose holders
wrote it, so a version that continues another is one that extends the sequence. The disk
does not fail, and holders are taken to be allowed to edit. Nothing is promised about
progress: Owner is safety only.

**Identity, Device** - a machine over several runs of the Agent. `Identity` is
`Setup` over a key store and a signer: `complete` in its steps (`CompleteResumes`,
`CompleteSecrets`, `CompleteSigner`, `CompleteWrites`, `CompleteStores`) with a crash
possible between any two, `resume`, and the fallback to a store in memory when the
keychain does not answer at a start (`volatile`). `Device` adds the chain settings of a
run, the tasks `ensure()` spawns, the account `adopt_owner` fixes, the inbox watcher,
the files locked and the owner they are locked for, and the order in which the window
listens, takes pending files and receives the ones `deliver` has remembered and not yet
emitted.

**Record** - the loop of a link: a look begins at the cursor (`Look`), or at the head while
there is none (`LookFirst`) and when the ledger cannot be read (`LookMisreads`); then `Poll`,
`AppendEvent` per event about a file of this machine, `SetCursor`. Each may fail, and the
Agent may stop between any two. The record is the sequence of lines. A line torn by a stop is
no line: the next append closes it and a reader skips it. Every call of `ensure()` before the
first link is stored adds a loop, up to `MaxLoops`. `first` is where the very first look
began, whether or not it came to its end; `skipped` are the blocks a look without a cursor
passed over, `lost` those whose line could not be written.

Definitions marked "Seeded fault" or "A mutant" are the mutants: plausible bugs that the property
named in `PROJECT.json` must catch.

## 3. Runs

Passing:

| Run | Checks | Bounds and why |
|---|---|---|
| `contracts` | TypeOK, NonceCountsLandedGrants, RequestAnsweredOnce, GrantWithinTerms, KeyListMatchesKeys, DeadStaysDead, ImplementsRights | a smart account and an EOA, 2 files, 2 hashes, 2 good keys and a bad one, times 0..2, counters with tops of 2 and 3. Replay needs two submissions of one term; swap-remove needs two keys; overflow needs a top that is reached. |
| `open_file` | TypeOK, WipedUnlessFailed, PlaintextOnlyWhileAllowed, QuietMeansSealed, ToldOrFailed, EndsOnDemand | two writes (one more than a session can save), times 0..2, every fault. |
| `recipient` | TypeOK, GrantedByOwner | two files, two requests, one open, an allow, a refusal and an allow whose terms do not fit, symmetric in the files: two tasks that race on one inbox. |
| `recipient_live` | NeverStuckAsking, RevokeEndsSession | one file, one request, two opens; no symmetry, because these are liveness properties. |
| `relay` | TypeOK, QueuedOnce, RoutedHome, KeptUntilTTL, RevokeReachesAskers | one relay, a recipient whose clock runs ahead by the skew and an owner's late by it, two requests, grant, version and revoke, quota 2 per "minute" and 3 per "hour", skew 1, nonce memory 3, TTL 2, times 0..3, one fault. Skew and memory keep the code's relation 2 * 120 < 300; two requests are needed to refresh an interest. Deadlock is not checked: when every message is out and the clock at its bound, the exchange is over. |
| `owner` | TypeOK, TxMeansLanded, OneApprovalOnChain, NonceNeverReused, ApprovedVersionOnRecord, VersionsAreGranted, NewestQueuedOrAnchored, ShownUntilAnswered, AnchoredForward | every kind of machine, two requests for one file (symmetric), three calls of commands: a registration and two answers, or an answer and a revoke. Three versions, so that one can overtake another, with a passkey, a silent key and no writer; two with a funded key, which has the most interleavings. One restart or replaced link with a passkey, one restart without a writer; the other two have their links come up at any time, and restart in the proofs only. A second file, which a notice may name wrongly, without a writer: the comparison it meets is the same on every machine. Deadlock is not checked: when the calls are used up the scenario is over. |
| `container` | OpenIsWhole, OldKeyOpensNothingNew, OwnerReadsEveryVersion, VersionsFormAChain | two copies, two owner keys (symmetric in both), an empty text and one of three bytes with chunks of two, three versions, one accident. An empty text is the format's special case of one empty chunk; three bytes are a full chunk and a partial one; mixing two containers needs two copies. Deadlock is not checked: when the versions are used up the scenario is over. |
| `device` | SettledOwnerAnswers, SameOwnerKeys, HandedFileIsShown | three runs, four keys, one failed connection, one locked file, one handed file, a machine with an authenticator. Three runs are one that sets up, one that finds the account in the profile and one with other settings. Deadlock is not checked: when the runs are used up nothing is started again. |
| `record` | RecordComplete | one file, three blocks, two runs, two failures, two loops: a gap needs a cursor that moved past a block between two looks. Deadlock is not checked: when the blocks and runs are used up there is nothing to read. |

Some of these properties say less than their names may suggest. QueuedOnce and RoutedHome
hold within one life of a relay, which forgets everything in a restart. TxMeansLanded is
about smart accounts: `writer.rs:31` calls every `TxHash` that of "a landed write", but
`DirectWriter` returns the hash of whatever was mined, a reverted transaction too.
SettledOwnerAnswers begins with the first start that finds the account in the profile, so it
leaves out the run in which the link adopts it. OpenIsWhole takes the second of the
two reads of a plaintext as the sealed text, and AnchoredForward leaves out passkeys.

Disagreements between the code and what its comments and docs say, each shown by a run
that TLC must find violated (`findings` quotes the lines):

- `always_wipes`: a failed save makes the session terminal, so `close()` is refused
  and returns before the wipe; the decrypted copy stays.
- `opens_within_budget`: `open_file` clones, checks and inserts under three locks; two
  calls open a one-open grant twice.
- `only_newest_can_be_allowed`: a pending request keeps the record of the moment it arrived,
  so the version before an accepted one can still be allowed (`relay_protocol.md:115`,
  ADR-0007).

Further configurations state other lines of the repository that the code does not keep. They
are not among the runs; each ends, within a minute, in the trace described here:

| Configuration | Module | The line | What happens |
|---|---|---|---|
| `NoSaveAfterRevoke.cfg` | MCAgentSession | `state.rs:9` a revoke "closes the session immediately", `state.rs:333-334` "no new version may be produced" | a revoke that arrives while the loop waits for a save event is seen a round later; the save is sealed and announced first |
| `EditResealsBeforeClose.cfg` | MCAgentSession | `state.rs:10` "`Edit` must reseal before it can close" | the viewer saves and quits within the debounce; the loop sees it gone before it reads the event, and the edit is wiped unsealed |
| `WithheldMeansNoGrant.cfg` | MCOwner | `approve.rs:451` "No signature was made at all, so there is no approval to send" | a user operation not included in time was signed and sent; it lands later, uses up the request's nonce, and is not in the list of approvals that can be revoked |
| `LandedMeansCleared.cfg` | MCOwner | `chain.rs:261-262` "Queued writes that land are cleared" | a batch that lands after its timeout leaves its versions queued, and every later batch that carries them reverts |
| `AcceptedIsAnchored.cfg` | MCOwner | `approve.rs:636-637` an accepted version "is also anchored with `bumpVersion`" | a version whose `bumpVersion` fails is logged and not tried again; the chain keeps granting the one before |
| `NothingSkipped.cfg` | Record | `chain.rs:347-348` "a restart neither repeats nor skips a block" | a stop inside the first look leaves no cursor, and the next start reads from a later head |
| `NothingRepeated.cfg` | Record | the same line | a stop between the lines and the cursor writes the lines again |
| `EnsureAgain.cfg` | Record | `chain.rs:503` "Harmless to call again" | a second `ensure()` before the first link is stored gives a second loop, which writes the same lines, with no restart and no failure |
| `FailedPollRereads.cfg` | Record | `watcher.rs:70-72` "a failed poll re-reads the same range rather than skipping it" | the watcher of a first look whose poll fails is dropped with its range, and the next look begins at a later head |

Also reached by the models, without a run of their own because no line of the
repository denies them, or only one about another part does:

- the opened file: a granted file is opened between its expiry and the watcher's next look;
- the recipient: a grant whose transaction never landed is taken for revoked by the first
  look at the chain (`request.rs:561-565`, against `approve.rs:434-436`);
- the owner: without a link two answers to one request send two approvals, with different
  nonces; a file locked without a link is not registered, and a version of it that a passkey
  device queues later makes every batch revert; two taps in flight on a passkey device carry
  different versions of one file, and the older may land last; an approval whose relay answer
  was lost is out but not on record;
- the relay: `announce()` returns at the first relay that accepts, so the others refuse
  the device when the client fails over; the nonce is taken before the route is looked
  up, so the retry of a lost `not_found` reads as delivered; a drained inbox whose
  answer is lost is gone;
- the device: files locked in the run that sets up are locked for the signing key, while
  the watcher answers only for the account after a restart; a keychain that does not answer
  at a later start gives a second owner key (SameOwnerKeys excludes it); a profile whose
  signer cannot be reopened makes every further `complete()` fail; `adopt_owner` between the
  profile write and the Agent's own copy leaves that copy without the account until the next
  start;
- the record: a ledger that cannot be read counts as one without a cursor, and the events up
  to the head are skipped.

Fairness. AgentSession assumes weak fairness of the session thread: it is a blocking
thread in which every wait has a timeout. Recipient assumes weak fairness of every
task and thread for the same reason, and strong fairness of two steps: `AskGivesUp`,
a deadline on a monotonic clock that is looked at each round, and
`GuardRevokedOnChain`, the chain read that is tried each round and succeeds when the
outage ends. Nothing is assumed of the person, the viewer, the owner, the relay or the
network. The contracts, the container, the relay, the owner, the device and the record
are safety only.

## 4. Proofs

`AccessPolicyProofs` proves every property of the `contracts` run for all sets of
accounts, files, keys and terms and all bounds. Assumptions: `RegistryAssumption`,
`ValidatorAssumption`, `PolicyAssumption` - the zero address and zero hash are not
proper values, and submitted terms are well typed. None of the invariants is inductive
alone. `IInv` adds: an owner's grants carry nonces below `nonces[owner]` and every
nonce below it was used; every stored grant's request nonce is spent; a stored grant's
owner is the registry's owner of its file; budgets hold; the key list is a sequence
without repetitions whose range is the mapping. The step lemma has one part per
contract function; `GrantIsFresh` (terms that land were never stored) carries the
replay, request and dead-stays-dead arguments, `SwapRemoveMatches` the key list.
`DeadStaysDead`, `RetiredIsFinal` and `OwnerIsForever` are action properties proved
from `IInv`; the last two are consequences of what `contracts` checks as
`ImplementsRights`.

`RefinementTheorem` shows that the contracts implement `Rights`. Initial states map to
the initial state. Each contract function maps to one abstract step or to none: register
is `Claim`, retire is `Close`, bumpVersion and everything in the validator stutter
(`RegistryStep`); grant is `Give`, because by `GrantIsFresh` its terms were never stored
and by the invariant that every stored grant's request is spent no stored grant answers
the same request (`GrantStep`); revoke and consumeOpen are `End` when the grant was alive
and now is not, and stutter otherwise (`UpdateStep`).

`RelayProofs` proves every property of the `relay` run for any relays, envelopes, clock
errors and faults, from `RelayAssumption`, which holds the code's relation
`2 * MAX_SKEW < NONCE_MEMORY`. For QueuedOnce the invariant says why a second acceptance
is refused: an accepted envelope has gone stale, or its nonce is remembered from a moment
at which it was timely. Pruning keeps that, because a nonce old enough to be forgotten
belongs to an envelope that is stale by then: this is where the relation is used. For
RoutedHome it says that every remembered route or interest is a request the relay has
itself posted in this life. KeptUntilTTL needs that what waits carries the time it was
accepted at (`KeepInv`), and that popping the front of a queue loses nothing younger
than its time (`PopFacts`). RevokeReachesAskers, an action property, needs that whoever
asked is remembered since the last time they did (`InterestInv`).

`ContainerProofs` proves the four properties of the `container` run for any texts, chunk
size, number of versions, copies and accidents (`ChunkAssumption`: a chunk has at least one
byte; `TextAssumption`: a text is a sequence of bytes). `ContainerInv` says that
whatever happened to a copy, its header and each of its frames were written by
`seal_signed`, under a draw no other version shares (`WrittenInv`, `UniqueInv`), and that
its header ends a version chain of one owner (`Behind`). OpenIsWhole follows because the
associated data of a frame names its header, place and end, so frames that decrypt under a
header are, in order, the ones sealed under it; `SealedPlain` then shows by the arithmetic
of chunks (`ChunkFacts`, `ChunkBytes`) that they spell the text. OldKeyOpensNothingNew
follows from `UniqueInv`, OwnerReadsEveryVersion from the envelope every version has for
the owner of its chain and from `SealedOpens`, VersionsFormAChain from the rename putting a
whole container in place.

`AgentSessionProofs` proves the invariants of `open_file` for any times, writes and faults
(`SessionAssumption`). `PhaseInv` ties the place of the thread to the state of
`Session::apply` and to the workspace, which is why `close()` is accepted at every end that
is not a failure. `SaveInv` says where a text nobody has sealed yet is: in the debounce, last in the queue, or
in the save under way.

`RecipientProofs` proves TypeOK and GrantedByOwner for any paths, requests and threads
(`RecipientAssumption`). Copies of a held grant are written back by tasks and threads in any
order, so the invariant follows every copy: whatever carries a permission, in the map, a
task or a thread, has it from the answer to its own request, which is given once and fits
(`Answered`, `HeldFits`).

`OwnerProofs` proves every property of the `owner` run, the action property
AnchoredForward included, for any files, requests, calls, versions and restarts (`LedgerAssumption`,
`AccountAssumption`, `OwnerAssumption`: among them that requests and notices are told
apart). The invariant is a conjunction of parts, each with a step lemma per action:
`StateInv` is types and which places a call may be in, among them that only a call that
found a link is on its way to the chain; `LandInv` says that a call submits one operation and
that a receipt of success is of one the contracts executed, which gives TxMeansLanded with
`TxInv`; `UniqueInv` that the contract grants a request once, which with `TxInv` gives
OneApprovalOnChain; `NonceInv` that an approval without a transaction, unless a funded key
sent it, has a nonce that the ledger handed out to one call; `PrefixInv` that what is asked
for or being approved was a version on record; `QueueInv` that a version being queued is
still the newest; `AnswerInv` that a request leaves the list after its answer went out;
`EmptyInv` and `OrderInv` that, unless the device defers, operations on their way are in the
order in which versions were accepted. None of them assumes anything of when the link comes
or goes.

`DeviceProofs` proves the properties of `device` for any number of runs, settings, files
and failures (`CapabilitiesAssumption`, `MaxKeysAssumption`): a setup that still has to
write found a machine that was not set up, so it never overwrites a settled account
(`OwnerInv`); while the keychain answers, whatever names an owner key names the one in it
(`KeyInv`); until the window takes what is pending, everything handed over is still there
(`ShellInv`).

`RecordProofs` proves RecordComplete for any files, blocks, runs, loops and failures
(`LoopsAssumption`). A stretch of blocks is `Covered` when each event in it about a file of
this machine is written, skipped or lost; that only grows. Every loop has covered what lies
between `first` and the block it is at (`LoopSound`), because it began at the cursor, or at
the head after the blocks up to it were counted as skipped; so the cursor it writes has
everything covered behind it (`CursorSound`), whichever loop writes it and in whatever order.

Only model-checked: liveness under fairness (NeverStuckAsking, RevokeEndsSession,
EndsOnDemand), which is out of the prover's reach, and what ends in a violation.

## 5. Not modelled, and the plan

Left out, and why:

- `AuditLog.sol` emits events and keeps no state another call reads; `Upgradeable.sol` is
  a wrapper over a library's proxy.
- The user interface beyond the order in which it receives files, the tray,
  notifications, file associations: they present what the commands return.
- Examining a path before locking and shredding the original: file I/O with no state.
- The burst rule of the confirmation policy. It decides whether the OS prompts and
  changes no other state. `decide()` copies the recent approvals before it waits and adds
  to them at the end (`approve.rs:840`), so taps in flight do not count for one another.
- Two writers of one container. Two sessions of one path, which `opens_within_budget`
  reaches, would create and write one temporary file (`container.rs:300-307`), and the
  first rename would put a file in place that the other is still writing, against
  `container.rs:281` ("atomically (temp + rename)").
- One-time keys and BSA of `zbacs-auth`, used by no part of the Agent, and the chain
  cache, which the reads write and no part of the Agent reads. Its comment
  (`cache.rs:67-70`) that a dead grant never comes back would not hold of a grant that was
  looked up before it landed.
- The encoding of user operations (`aa.rs`) is data. Several bundlers are one that answers
  or does not, because an operation sent to two of them is still one operation.
- The command line tools drive the libraries above. Cryptography is taken as sound.
  Malformed input is refused before any state is touched.

Done: every component of section 2 modelled and checked, its safety properties proved,
and the contracts shown to implement `Rights`.

Left, in order:
1. an abstract specification of one file's life between an owner and a recipient over a
   relay that loses and repeats, which Owner and Recipient both implement;
2. the hazards without a property in `PROJECT.json`, where a statement of the repository
   about them can be found.
