------------------------------ MODULE Identity ------------------------------
(* Who this machine is: Setup (crates/zbacs-auth/src/setup.rs) over a key   *)
(* store and a signer factory, and the copy of it the Agent holds in        *)
(* memory (Identity, apps/agent/src-tauri/src/setup.rs).                    *)
(*                                                                          *)
(* The owner's sealing and signing secrets are one key here: Setup makes    *)
(* and loads the four secrets of a device in the same way.  Keys are        *)
(* numbers in the order they were made.                                     *)
EXTENDS Naturals, Sequences

CONSTANTS
    OsAuthenticator,  \* the machine has an authenticator with biometrics or a PIN
    MaxKeys           \* bound on the keys made

Styles == {"biometric", "this_device"}
NoKey == 0
Key == 1..MaxKeys

ASSUME CapabilitiesAssumption == OsAuthenticator \in BOOLEAN
ASSUME MaxKeysAssumption == MaxKeys \in Nat

VARIABLES
    keychain,  \* owner key in the keychain of the operating system
    memory,    \* owner key in the store of this process
    volatile,  \* this run has no keychain and uses the store of the process
    signer,    \* approval key the platform holds under the name of this program
    profile,   \* the profile file
    identity,  \* the profile this run holds in memory
    attempt,   \* a setup under way
    drawn      \* keys made so far

identityVars == <<keychain, memory, volatile, signer, profile, identity, attempt, drawn>>

\* Owner identifiers: a signing key, a smart account derived from an approval key, a funded key.
NoOwner == <<"none">>
SigningPub(k) == <<"signing", k>>
Account(k) == <<"account", k>>
FundedKey == <<"funded">>

NoProfile == [owner |-> NoKey, style |-> "none", key |-> NoKey, account |-> NoOwner]
IsSetUp == profile # NoProfile

Idle == [at |-> "idle", prof |-> NoProfile]

\* The identifier a container carries and the relay routes by.
owner_account(p) == IF p.account = NoOwner THEN SigningPub(p.owner) ELSE p.account

\* DeviceCapabilities: every machine can hold a key of its own.
offers(style) == style = "biometric" => OsAuthenticator

---------------------------------------------------------------------------
Held == IF volatile THEN memory ELSE keychain

Put(k) == IF volatile THEN memory' = k /\ UNCHANGED keychain
                      ELSE keychain' = k /\ UNCHANGED memory

\* A mutant: a fresh secret each time.
MakeSecret(k) ==
    /\ k = drawn + 1 /\ drawn < MaxKeys
    /\ drawn' = k
    /\ Put(k)

\* Setup::secret: k is the owner key of the store, made and stored when there is none.
Secret(k) ==
    \/ /\ Held # NoKey /\ k = Held
       /\ UNCHANGED <<keychain, memory, drawn>>
    \/ /\ Held = NoKey
       /\ k = drawn + 1 /\ drawn < MaxKeys
       /\ drawn' = k
       /\ Put(k)

\* owner_keys: refused on a machine that is not set up.
owner_keys(k) == IsSetUp /\ Secret(k)

\* The approval key reopen gives: a passkey is rebuilt from the profile, a device key is opened by
\* its name.
reopen(p) == IF p.style = "biometric" THEN p.key ELSE signer

\* Setup::resume accepts a profile whose signer is the one it was written for.
Resumes == IsSetUp /\ reopen(profile) = profile.key

\* restore: the identity a starting Agent holds; a platform that does not answer leaves it without.
Restored == IF Resumes THEN {profile, NoProfile} ELSE {NoProfile}

---------------------------------------------------------------------------
(* complete_setup.  A crash can come between any two of its steps.          *)

\* complete on a machine that is already set up gives the profile it has.
CompleteResumes ==
    /\ identity = NoProfile /\ attempt = Idle
    /\ Resumes
    /\ attempt' = [at |-> "written", prof |-> profile]
    /\ UNCHANGED <<keychain, memory, volatile, signer, profile, identity, drawn>>

\* complete makes or picks up the secrets.
CompleteSecrets(style) ==
    /\ identity = NoProfile /\ attempt = Idle
    /\ ~IsSetUp
    /\ offers(style)
    /\ \E k \in Key :
          /\ Secret(k)
          /\ attempt' = [at |-> "secrets", prof |-> [NoProfile EXCEPT !.owner = k, !.style = style]]
    /\ UNCHANGED <<volatile, signer, profile, identity>>

\* The signer: a new passkey each time, the named device key when it exists.
CompleteSigner ==
    /\ attempt.at = "secrets"
    /\ \/ /\ attempt.prof.style = "this_device" /\ signer # NoKey
          /\ attempt' = [at |-> "signer", prof |-> [attempt.prof EXCEPT !.key = signer]]
          /\ UNCHANGED <<signer, drawn>>
       \/ /\ attempt.prof.style = "biometric" \/ signer = NoKey
          /\ drawn < MaxKeys
          /\ drawn' = drawn + 1
          /\ signer' = IF attempt.prof.style = "biometric" THEN signer ELSE drawn'
          /\ attempt' = [at |-> "signer", prof |-> [attempt.prof EXCEPT !.key = drawn']]
    /\ UNCHANGED <<keychain, memory, volatile, profile, identity>>

\* The person turns the prompt of the platform away, or a file cannot be written.
CompleteFails ==
    /\ attempt.at \in {"secrets", "signer"}
    /\ attempt' = Idle
    /\ UNCHANGED <<keychain, memory, volatile, signer, profile, identity, drawn>>

\* write_profile: beside the target, then renamed.
CompleteWrites ==
    /\ attempt.at = "signer"
    /\ profile' = attempt.prof
    /\ attempt' = [attempt EXCEPT !.at = "written"]
    /\ UNCHANGED <<keychain, memory, volatile, signer, identity, drawn>>

\* complete_setup keeps what complete returned.
CompleteStores ==
    /\ attempt.at = "written"
    /\ identity' = attempt.prof
    /\ attempt' = Idle
    /\ UNCHANGED <<keychain, memory, volatile, signer, profile, drawn>>

\* A mutant: the profile follows whatever account it is given.
adopt_any_account(a) == IsSetUp

\* adopt_account accepts an account: a machine that is not set up, or belongs to another account,
\* is left alone.
adopt_account(a) == IsSetUp /\ profile.account \in {NoOwner, a}

\* adopt_owner: the account is written into the profile, and into the identity held in memory.
adopt_owner(a) ==
    /\ profile' = IF adopt_account(a) THEN [profile EXCEPT !.account = a] ELSE profile
    /\ identity' = IF adopt_account(a) /\ identity # NoProfile
                   THEN [identity EXCEPT !.account = a] ELSE identity
    /\ UNCHANGED <<keychain, memory, volatile, signer, attempt, drawn>>

\* The platform forgets the approval key (a cleared TPM); the next open_or_create makes another.
SignerCleared ==
    /\ signer # NoKey /\ drawn < MaxKeys
    /\ drawn' = drawn + 1
    /\ signer' = drawn'
    /\ UNCHANGED <<keychain, memory, volatile, profile, identity, attempt>>

IdentityInit ==
    /\ keychain = NoKey /\ memory = NoKey /\ volatile = FALSE
    /\ signer = NoKey
    /\ profile = NoProfile /\ identity = NoProfile
    /\ attempt = Idle
    /\ drawn = 0

\* The process starts: the keychain answers the probe or it does not.
IdentityStarts ==
    /\ volatile' \in BOOLEAN
    /\ memory' = NoKey
    /\ identity' \in Restored
    /\ attempt' = Idle
    /\ UNCHANGED <<keychain, signer, profile, drawn>>
=============================================================================
