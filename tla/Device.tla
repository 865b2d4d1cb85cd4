------------------------------- MODULE Device -------------------------------
(* One owner's Agent from start to quit and over restarts: setup, the link  *)
(* to the chain and the owner account it fixes, locking files, the inbox    *)
(* watcher and the files the shell hands over (apps/agent/src-tauri/src:    *)
(* lib.rs, setup.rs, chain.rs, seal.rs, ensure_watching in approve.rs; the  *)
(* script of the window is apps/agent/ui/app.js).  What the loop of a link  *)
(* then does is in Record.                                                  *)
EXTENDS Identity, FiniteSets

CONSTANTS
    Doc,       \* locked files the shell may hand over
    MaxFiles,  \* bound on the files locked here
    MaxFaults, \* bound on connections that fail
    MaxRuns    \* bound on the starts of the Agent

VARIABLES
    up,        \* the Agent runs
    config,    \* chain settings in the environment of this run
    links,     \* tasks ensure() spawned in this run
    linked,    \* Chain: a link is stored
    watching,  \* owner identifier the inbox watcher polls and accepts, NoOwner before it runs
    files,     \* files locked here: owner identifier and owner key of the header
    page,      \* the window: its script is loading, listens for events, or has called take_pending
    queue,     \* Pending: files handed over and not taken
    emitting,  \* files deliver has remembered and not yet emitted
    shown,     \* files the window shows
    handed,    \* history: files handed over in this run
    settled,   \* history: the account was in the profile when this run started
    fellback,  \* history: some run found no keychain
    faults,    \* failures so far
    runs       \* starts so far

linkVars == <<config, links, linked>>
shellVars == <<page, queue, emitting, shown, handed>>
historyVars == <<settled, fellback, runs>>
vars == <<identityVars, linkVars, shellVars, up, watching, files, faults, historyVars>>

\* EnvConfig: no chain, a node only, a funded key, a bundler.
Configs == {"none", "reads", "key", "bundler"}

Init ==
    /\ IdentityInit
    /\ up = FALSE
    /\ config = "none" /\ links = <<>> /\ linked = FALSE
    /\ page = "loading" /\ queue = {} /\ emitting = {} /\ shown = {} /\ handed = {}
    /\ watching = NoOwner
    /\ files = {}
    /\ settled = FALSE /\ fellback = FALSE
    /\ faults = 0 /\ runs = 0

---------------------------------------------------------------------------
(* The link.                                                                *)

Task(at, writer) == [at |-> at, writer |-> writer]

\* ensure: a task, unless there is no chain or a link already.
Ensure(cfg, is_linked, tasks) ==
    IF cfg = "none" \/ is_linked THEN tasks ELSE Append(tasks, Task("spawned", NoOwner))

\* The writer of a link: a funded key, the account of the approval key held, or none.
writer_setup ==
    CASE config = "key" -> FundedKey
      [] config = "bundler" /\ identity # NoProfile -> Account(identity.key)
      [] OTHER -> NoOwner

PickWriter(i) ==
    /\ links[i].at = "spawned"
    /\ links' = [links EXCEPT ![i] = Task("connecting", writer_setup)]
    /\ UNCHANGED <<identityVars, shellVars, config, linked, up, watching, files, faults, historyVars>>

ConnectFails(i) ==
    /\ links[i].at = "connecting"
    /\ faults < MaxFaults
    /\ faults' = faults + 1
    /\ links' = [links EXCEPT ![i] = Task("gone", NoOwner)]
    /\ UNCHANGED <<identityVars, shellVars, config, linked, up, watching, files, historyVars>>

\* connect, adopt_owner when the link can write, and the link is there for everyone.
Connected(i) ==
    /\ links[i].at = "connecting"
    /\ IF links[i].writer = NoOwner THEN UNCHANGED identityVars ELSE adopt_owner(links[i].writer)
    /\ linked' = TRUE
    /\ links' = [links EXCEPT ![i] = Task("merging", NoOwner)]
    /\ UNCHANGED <<shellVars, config, up, watching, files, faults, historyVars>>

---------------------------------------------------------------------------
(* Starts and stops.                                                        *)

\* Files in the arguments of a start: none, or the one that was double-clicked.
files_from_args == {{}} \cup {{d} : d \in Doc}

\* A mutant: what is handed over is emitted and not remembered.
deliver_emits(d) ==
    /\ handed' = handed \cup d
    /\ emitting' = emitting \cup d
    /\ UNCHANGED queue

\* deliver: always remembered, then always emitted.
deliver(d) ==
    /\ handed' = handed \cup d
    /\ queue' = queue \cup d
    /\ emitting' = emitting \cup d

\* run: restore, ensure, and the launch files are delivered to a window that is still loading.
Start ==
    /\ ~up /\ runs < MaxRuns
    /\ up' = TRUE
    /\ IdentityStarts
    /\ config' \in Configs
    /\ links' = Ensure(config', FALSE, <<>>)
    /\ \E d \in files_from_args : deliver(d)
    /\ UNCHANGED <<page, shown>>
    /\ settled' = (profile.account # NoOwner)
    /\ fellback' = (fellback \/ volatile')
    /\ runs' = runs + 1
    /\ UNCHANGED <<linked, watching, files, faults>>

\* Quit from the tray, or a crash: everything in memory is gone.
Stop ==
    /\ up
    /\ up' = FALSE
    /\ identity' = NoProfile /\ attempt' = Idle /\ memory' = NoKey /\ volatile' = FALSE
    /\ config' = "none" /\ links' = <<>> /\ linked' = FALSE
    /\ page' = "loading" /\ queue' = {} /\ emitting' = {} /\ shown' = {} /\ handed' = {}
    /\ watching' = NoOwner /\ settled' = FALSE
    /\ UNCHANGED <<keychain, signer, profile, drawn, files, faults, fellback, runs>>

---------------------------------------------------------------------------
(* Files from the shell.                                                    *)

\* A double-click while the Agent runs: the second process hands its arguments over (once for each
\* file in the model).
SecondInstance ==
    /\ \E d \in files_from_args : ~(d \subseteq handed) /\ deliver(d)
    /\ UNCHANGED <<identityVars, linkVars, page, shown, up, watching, files, faults, historyVars>>

\* The event reaches a window that listens.
Emit ==
    /\ emitting # {}
    /\ emitting' = {}
    /\ shown' = IF page = "loading" THEN shown ELSE shown \cup emitting
    /\ UNCHANGED <<identityVars, linkVars, page, queue, handed, up, watching, files, faults,
                   historyVars>>

\* The script of the window listens first and takes what is pending afterwards.
Listen ==
    /\ page = "loading"
    /\ page' = "listening"
    /\ UNCHANGED <<identityVars, linkVars, queue, emitting, shown, handed, up, watching, files,
                   faults, historyVars>>
take_pending ==
    /\ page = "listening"
    /\ page' = "ready"
    /\ shown' = shown \cup queue
    /\ queue' = {}
    /\ UNCHANGED <<identityVars, linkVars, emitting, handed, up, watching, files, faults,
                   historyVars>>

---------------------------------------------------------------------------
(* Commands of the window.                                                  *)

SetupStep ==
    /\ page = "ready"
    /\ \/ CompleteResumes
       \/ \E style \in Styles : CompleteSecrets(style)
       \/ CompleteSigner
       \/ CompleteFails
       \/ CompleteWrites
    /\ UNCHANGED <<linkVars, shellVars, up, watching, files, faults, historyVars>>

\* The end of complete_setup: the identity is held and ensure is called again.
SetupEnds ==
    /\ CompleteStores
    /\ links' = Ensure(config, linked, links)
    /\ UNCHANGED <<shellVars, config, linked, up, watching, files, faults, historyVars>>

\* seal_file: locked with the owner key of the store, carrying the identifier of the identity held
\* in memory.
seal_file ==
    /\ page = "ready"
    /\ identity # NoProfile
    /\ Cardinality(files) < MaxFiles
    /\ \E k \in Key :
          /\ owner_keys(k)
          /\ files' = files \cup {[own |-> owner_account(identity), opub |-> k, settled |-> settled]}
    /\ UNCHANGED <<volatile, signer, profile, identity, attempt, linkVars, shellVars, up, watching,
                   faults, historyVars>>

\* ensure_watching: once per run; client_for reads the identifier and the loop keeps it.
ensure_watching ==
    /\ page # "loading"
    /\ identity # NoProfile
    /\ watching = NoOwner
    /\ watching' = owner_account(identity)
    /\ UNCHANGED <<identityVars, linkVars, shellVars, up, files, faults, historyVars>>

ClearSigner ==
    /\ SignerCleared
    /\ UNCHANGED <<linkVars, shellVars, up, watching, files, faults, historyVars>>

Next ==
    \/ Start
    \/ /\ up
       /\ \/ Stop \/ SecondInstance \/ Emit \/ Listen \/ take_pending
          \/ SetupStep \/ SetupEnds \/ seal_file \/ ensure_watching
          \/ \E i \in DOMAIN links : PickWriter(i) \/ ConnectFails(i) \/ Connected(i)
    \/ ClearSigner

Spec == Init /\ [][Next]_vars

---------------------------------------------------------------------------
(* Properties.                                                              *)

\* SettledOwnerAnswers: from the first start that finds the account in the profile, files are
\* locked for that account and the inbox watcher answers for it, whatever the settings of a run.
SettledOwnerAnswers ==
    /\ \A f \in files : f.settled => f.own = profile.account
    /\ settled /\ watching # NoOwner => watching = profile.account

\* SameOwnerKeys: as long as the keychain answers, setups that are cut short, refused or repeated
\* and every later lock use one owner key, the one the profile names.
SameOwnerKeys ==
    ~fellback => /\ IsSetUp => profile.owner = keychain
                 /\ \A f \in files : f.opub = keychain

\* HandedFileIsShown: a file handed over at the start, or by a second start at whatever moment of
\* the loading of the window, is shown once the window is ready.
HandedFileIsShown ==
    page = "ready" => handed \subseteq shown \cup emitting
=============================================================================
