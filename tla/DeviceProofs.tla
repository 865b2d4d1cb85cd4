---------------------------- MODULE DeviceProofs ----------------------------
(* The invariants of Device for any number of keys, files, runs and failed  *)
(* connections, on a machine with or without an authenticator.              *)
EXTENDS Device, TLAPS

\* What may stand for an owner in a profile.
OwnerId == {NoOwner, FundedKey} \cup {Account(k) : k \in Nat}
Profile == [owner : Nat, style : Styles \cup {"none"}, key : Nat, account : OwnerId]
LinkTask == [at : {"spawned", "connecting", "merging", "gone"}, writer : OwnerId]

DeviceType ==
    /\ keychain \in Nat /\ memory \in Nat /\ signer \in Nat /\ drawn \in Nat
    /\ volatile \in BOOLEAN /\ up \in BOOLEAN /\ settled \in BOOLEAN /\ fellback \in BOOLEAN
    /\ profile \in Profile /\ identity \in Profile
    /\ attempt \in [at : {"idle", "secrets", "signer", "written"}, prof : Profile]
    /\ links \in Seq(LinkTask)
    /\ \A f \in files : f.settled \in BOOLEAN

\* A setup that is still to write the profile found a machine that was not set up.
SetupAlone == attempt.at \in {"secrets", "signer"} => ~IsSetUp

\* The account in the profile, once there, is what this run answers for.  The memory of a run
\* that found it there, and a setup that resumes in it, carry the same account.
OwnerInv ==
    /\ SetupAlone
    /\ ~up => watching = NoOwner /\ identity = NoProfile /\ attempt = Idle
    /\ settled => /\ profile.account # NoOwner
                  /\ identity # NoProfile => identity.account = profile.account
                  /\ attempt.at = "written" => attempt.prof.account = profile.account
                  /\ watching # NoOwner => watching = profile.account
    /\ \A f \in files : f.settled => f.own = profile.account /\ profile.account # NoOwner

\* While the keychain answers it holds the only owner key, and whatever names one names that.
KeyInv ==
    ~fellback => /\ ~volatile
                 /\ IsSetUp => profile.owner = keychain /\ keychain # NoKey
                 /\ attempt.at # "idle" => attempt.prof.owner = keychain /\ keychain # NoKey
                 /\ \A f \in files : f.opub = keychain /\ keychain # NoKey

\* Until the window takes what is pending, everything handed over is still there.
ShellInv ==
    /\ page # "ready" => handed \subseteq queue
    /\ page = "ready" => handed \subseteq shown \cup emitting

DeviceInv == DeviceType /\ OwnerInv /\ KeyInv /\ ShellInv

---------------------------------------------------------------------------
LEMMA ProfileFacts ==
    /\ NoProfile \in Profile /\ NoProfile.account = NoOwner
    /\ Idle \in [at : {"idle", "secrets", "signer", "written"}, prof : Profile] /\ Idle.at = "idle"
    /\ NoKey = 0 /\ Key \subseteq Nat
  BY MaxKeysAssumption DEF NoProfile, Profile, OwnerId, Idle, NoKey, Styles, Key

\* What Setup::secret gives: the key the store has, or the next one, put into the store.
LEMMA SecretFacts ==
    ASSUME DeviceType, NEW k \in Key, Secret(k)
    PROVE  /\ keychain' \in Nat /\ memory' \in Nat /\ drawn' \in Nat /\ k \in Nat
           /\ ~volatile => keychain' = k /\ k # NoKey /\ (keychain # NoKey => keychain' = keychain)
  BY MaxKeysAssumption DEF DeviceType, Secret, Held, Put, NoKey, Key

\* What adopt_owner leaves: an account already in the profile stays, and only the account of a
\* profile is written.
LEMMA AdoptFacts ==
    ASSUME DeviceType, NEW a \in OwnerId, adopt_owner(a)
    PROVE  /\ profile' \in Profile /\ identity' \in Profile
           /\ profile'.owner = profile.owner
           /\ IsSetUp' => IsSetUp
           /\ profile.account # NoOwner => profile' = profile
           /\ identity = NoProfile => identity' = NoProfile
           /\ identity # NoProfile /\ profile.account # NoOwner =>
                 identity'.account = identity.account \/ identity'.account = profile.account
           /\ UNCHANGED <<keychain, memory, volatile, signer, attempt, drawn>>
<1>1. profile \in Profile /\ identity \in Profile
  BY DEF DeviceType
<1>2. CASE adopt_account(a)
  <2>1. IsSetUp /\ profile.account \in {NoOwner, a} /\ profile' = [profile EXCEPT !.account = a]
    BY <1>2 DEF adopt_owner, adopt_account
  <2>2. profile' \in Profile /\ profile'.owner = profile.owner
    BY <1>1, <2>1 DEF Profile
  <2>3. profile.account # NoOwner => profile' = profile
    BY <1>1, <2>1 DEF Profile
  <2>4. identity' = IF identity # NoProfile THEN [identity EXCEPT !.account = a] ELSE identity
    BY <1>2 DEF adopt_owner
  <2>5. identity' \in Profile /\ (identity # NoProfile => identity'.account = a)
    BY <1>1, <2>4 DEF Profile
  <2> QED
    BY <2>1, <2>2, <2>3, <2>4, <2>5 DEF adopt_owner
<1>3. CASE ~adopt_account(a)
  BY <1>1, <1>3 DEF adopt_owner, IsSetUp
<1> QED
  BY <1>2, <1>3

\* A link has at most one of these writers.
LEMMA WriterType ==
    ASSUME DeviceType PROVE writer_setup \in OwnerId
<1>1. identity.key \in Nat
  BY DEF DeviceType, Profile
<1>2. Account(identity.key) \in OwnerId
  BY <1>1 DEF OwnerId
<1>3. NoOwner \in OwnerId /\ FundedKey \in OwnerId
  BY DEF OwnerId
<1> QED
  BY <1>2, <1>3 DEF writer_setup

LEMMA EnsureType ==
    ASSUME NEW tasks \in Seq(LinkTask), NEW cfg, NEW done
    PROVE  Ensure(cfg, done, tasks) \in Seq(LinkTask)
<1>1. Task("spawned", NoOwner) \in LinkTask
  BY DEF Task, LinkTask, OwnerId
<1> QED
  BY <1>1 DEF Ensure

---------------------------------------------------------------------------
(* The steps of a setup.                                                    *)

LEMMA SetupStepInv ==
    ASSUME DeviceInv, up, SetupStep PROVE DeviceInv'
<1> USE ProfileFacts
<1>0. DeviceType /\ OwnerInv /\ KeyInv /\ ShellInv
  BY DEF DeviceInv
<1>1. UNCHANGED <<links, page, queue, emitting, shown, handed, up, watching, files, settled, fellback>>
  BY DEF SetupStep, linkVars, shellVars, historyVars
<1>2. ShellInv'
  BY <1>0, <1>1 DEF ShellInv
<1>3. CASE CompleteResumes
  <2>1. /\ attempt' = [at |-> "written", prof |-> profile] /\ IsSetUp
        /\ UNCHANGED <<keychain, memory, volatile, signer, profile, identity, drawn>>
    BY <1>3 DEF CompleteResumes, Resumes
  <2>2. DeviceType'
    BY <1>0, <1>1, <2>1 DEF DeviceType
  <2>3. OwnerInv'
    BY <1>0, <1>1, <2>1 DEF OwnerInv, SetupAlone, IsSetUp
  <2>4. KeyInv'
    BY <1>0, <1>1, <2>1 DEF KeyInv, IsSetUp
  <2> QED
    BY <1>2, <2>2, <2>3, <2>4 DEF DeviceInv
<1>4. ASSUME NEW style \in Styles, CompleteSecrets(style) PROVE DeviceInv'
  <2>1. PICK k \in Key :
           /\ Secret(k)
           /\ attempt' = [at |-> "secrets", prof |-> [NoProfile EXCEPT !.owner = k, !.style = style]]
    BY <1>4 DEF CompleteSecrets
  <2>2. /\ attempt'.at = "secrets" /\ attempt'.prof.owner = k
        /\ attempt' \in [at : {"idle", "secrets", "signer", "written"}, prof : Profile]
    BY <2>1 DEF NoProfile, Profile, OwnerId
  <2>3. UNCHANGED <<volatile, signer, profile, identity>> /\ ~IsSetUp
    BY <1>4 DEF CompleteSecrets
  <2>4. /\ keychain' \in Nat /\ memory' \in Nat /\ drawn' \in Nat
        /\ ~volatile => keychain' = k /\ k # NoKey /\ (keychain # NoKey => keychain' = keychain)
    BY <1>0, <2>1, SecretFacts
  <2>5. DeviceType'
    BY <1>0, <1>1, <2>2, <2>3, <2>4 DEF DeviceType
  <2>6. OwnerInv'
    BY <1>0, <1>1, <2>2, <2>3 DEF OwnerInv, SetupAlone, IsSetUp
  <2>7. KeyInv'
    BY <1>0, <1>1, <2>2, <2>3, <2>4 DEF KeyInv, IsSetUp
  <2> QED
    BY <1>2, <2>5, <2>6, <2>7 DEF DeviceInv
<1>5. CASE CompleteSigner
  <2>1. PICK n \in Nat : attempt' = [at |-> "signer", prof |-> [attempt.prof EXCEPT !.key = n]]
    <3>1. signer \in Nat /\ drawn + 1 \in Nat
      BY <1>0 DEF DeviceType
    <3>2. \/ attempt' = [at |-> "signer", prof |-> [attempt.prof EXCEPT !.key = signer]]
          \/ attempt' = [at |-> "signer", prof |-> [attempt.prof EXCEPT !.key = drawn + 1]]
      BY <1>5 DEF CompleteSigner
    <3> QED
      BY <3>1, <3>2, Zenon
  <2>2. signer' \in Nat /\ drawn' \in Nat
    BY <1>0, <1>5 DEF CompleteSigner, DeviceType
  <2>3. /\ attempt.at = "secrets"
        /\ UNCHANGED <<keychain, memory, volatile, profile, identity>>
    BY <1>5 DEF CompleteSigner
  <2>4. /\ attempt' \in [at : {"idle", "secrets", "signer", "written"}, prof : Profile]
        /\ attempt'.at = "signer" /\ attempt'.prof.owner = attempt.prof.owner
    BY <1>0, <2>1 DEF DeviceType, Profile
  <2>5. DeviceType'
    BY <1>0, <1>1, <2>2, <2>3, <2>4 DEF DeviceType
  <2>6. OwnerInv'
    BY <1>0, <1>1, <2>3, <2>4 DEF OwnerInv, SetupAlone, IsSetUp
  <2>7. KeyInv'
    BY <1>0, <1>1, <2>3, <2>4 DEF KeyInv, IsSetUp
  <2> QED
    BY <1>2, <2>5, <2>6, <2>7 DEF DeviceInv
<1>6. CASE CompleteFails
  <2>1. attempt' = Idle /\ UNCHANGED <<keychain, memory, volatile, signer, profile, identity, drawn>>
    BY <1>6 DEF CompleteFails
  <2>2. DeviceType'
    BY <1>0, <1>1, <2>1 DEF DeviceType
  <2>3. OwnerInv'
    BY <1>0, <1>1, <2>1 DEF OwnerInv, SetupAlone, IsSetUp
  <2>4. KeyInv'
    BY <1>0, <1>1, <2>1 DEF KeyInv, IsSetUp
  <2> QED
    BY <1>2, <2>2, <2>3, <2>4 DEF DeviceInv
<1>7. CASE CompleteWrites
  <2>1. /\ attempt.at = "signer" /\ profile' = attempt.prof
        /\ attempt' = [attempt EXCEPT !.at = "written"]
        /\ UNCHANGED <<keychain, memory, volatile, signer, identity, drawn>>
    BY <1>7 DEF CompleteWrites
  <2>2. /\ attempt' \in [at : {"idle", "secrets", "signer", "written"}, prof : Profile]
        /\ attempt'.at = "written" /\ attempt'.prof = attempt.prof /\ profile' \in Profile
    BY <1>0, <2>1 DEF DeviceType
  <2>3. ~IsSetUp /\ profile.account = NoOwner
    BY <1>0, <2>1 DEF OwnerInv, SetupAlone, IsSetUp
  <2>4. DeviceType'
    BY <1>0, <1>1, <2>1, <2>2 DEF DeviceType
  <2>5. ~settled /\ \A f \in files : ~f.settled
    BY <1>0, <2>3 DEF OwnerInv
  <2>6. OwnerInv'
    BY <1>0, <1>1, <2>1, <2>2, <2>5 DEF OwnerInv, SetupAlone, IsSetUp
  <2>7. KeyInv'
    BY <1>0, <1>1, <2>1, <2>2 DEF KeyInv, IsSetUp
  <2> QED
    BY <1>2, <2>4, <2>6, <2>7 DEF DeviceInv
<1> QED
  BY <1>3, <1>4, <1>5, <1>6, <1>7 DEF SetupStep

---------------------------------------------------------------------------
(* The end of a setup, the link, and the commands.                          *)

LEMMA SetupEndsInv ==
    ASSUME DeviceInv, up, SetupEnds PROVE DeviceInv'
<1> USE ProfileFacts
<1>0. DeviceType /\ OwnerInv /\ KeyInv /\ ShellInv
  BY DEF DeviceInv
<1>1. /\ attempt.at = "written" /\ identity' = attempt.prof /\ attempt' = Idle
      /\ links' = Ensure(config, linked, links)
      /\ UNCHANGED <<keychain, memory, volatile, signer, profile, drawn>>
      /\ UNCHANGED <<page, queue, emitting, shown, handed, up, watching, files, settled, fellback>>
  BY DEF SetupEnds, CompleteStores, shellVars, historyVars
<1>2. attempt.prof \in Profile
  BY <1>0 DEF DeviceType
<1>3. links' \in Seq(LinkTask)
  <2>1. links \in Seq(LinkTask)
    BY <1>0 DEF DeviceType
  <2> QED
    BY <1>1, <2>1, EnsureType
<1>4. DeviceType'
  BY <1>0, <1>1, <1>2, <1>3 DEF DeviceType
<1>5. OwnerInv'
  BY <1>0, <1>1 DEF OwnerInv, SetupAlone, IsSetUp
<1>6. KeyInv'
  BY <1>0, <1>1 DEF KeyInv, IsSetUp
<1>7. ShellInv'
  BY <1>0, <1>1 DEF ShellInv
<1> QED
  BY <1>4, <1>5, <1>6, <1>7 DEF DeviceInv

LEMMA LinkInv ==
    ASSUME DeviceInv, up, NEW i \in DOMAIN links, PickWriter(i) \/ ConnectFails(i) \/ Connected(i)
    PROVE  DeviceInv'
<1> USE ProfileFacts
<1>0. DeviceType /\ OwnerInv /\ KeyInv /\ ShellInv
  BY DEF DeviceInv
<1>1. UNCHANGED <<page, queue, emitting, shown, handed, up, watching, files, settled, fellback>>
  BY DEF PickWriter, ConnectFails, Connected, shellVars, historyVars
<1>2. links \in Seq(LinkTask) /\ links[i].writer \in OwnerId
  <2>1. links \in Seq(LinkTask)
    BY <1>0 DEF DeviceType
  <2>2. links[i] \in LinkTask
    BY <2>1
  <2> QED
    BY <2>1, <2>2 DEF LinkTask
<1>3. links' \in Seq(LinkTask)
  <2>1. PICK at \in {"connecting", "merging", "gone"}, w \in OwnerId :
           links' = [links EXCEPT ![i] = Task(at, w)]
    <3>1. writer_setup \in OwnerId /\ NoOwner \in OwnerId
      BY <1>0, WriterType DEF OwnerId
    <3> QED
      BY <3>1, Zenon DEF PickWriter, ConnectFails, Connected
  <2>2. Task(at, w) \in LinkTask
    BY DEF Task, LinkTask
  <2> QED
    BY <1>2, <2>1, <2>2
<1>4. ShellInv'
  BY <1>0, <1>1 DEF ShellInv
<1>5. CASE UNCHANGED identityVars
  <2>1. DeviceType'
    BY <1>0, <1>1, <1>3, <1>5 DEF DeviceType, identityVars
  <2>2. OwnerInv'
    BY <1>0, <1>1, <1>5 DEF OwnerInv, SetupAlone, IsSetUp, identityVars
  <2>3. KeyInv'
    BY <1>0, <1>1, <1>5 DEF KeyInv, IsSetUp, identityVars
  <2> QED
    BY <1>4, <2>1, <2>2, <2>3 DEF DeviceInv
<1>6. CASE adopt_owner(links[i].writer)
  <2>1. /\ profile' \in Profile /\ identity' \in Profile
        /\ profile'.owner = profile.owner
        /\ IsSetUp' => IsSetUp
        /\ profile.account # NoOwner => profile' = profile
        /\ identity = NoProfile => identity' = NoProfile
        /\ identity # NoProfile /\ profile.account # NoOwner =>
              identity'.account = identity.account \/ identity'.account = profile.account
        /\ UNCHANGED <<keychain, memory, volatile, signer, attempt, drawn>>
    BY <1>0, <1>2, <1>6, AdoptFacts
  <2>2. DeviceType'
    BY <1>0, <1>1, <1>3, <2>1 DEF DeviceType
  <2>3. OwnerInv'
    BY <1>0, <1>1, <2>1 DEF OwnerInv, SetupAlone
  <2>4. KeyInv'
    BY <1>0, <1>1, <2>1 DEF KeyInv
  <2> QED
    BY <1>4, <2>2, <2>3, <2>4 DEF DeviceInv
<1> QED
  BY <1>5, <1>6 DEF PickWriter, ConnectFails, Connected

\* seal_file names the account of the identity in memory and the key of the store.
LEMMA SealInv ==
    ASSUME DeviceInv, up, seal_file PROVE DeviceInv'
<1> USE ProfileFacts
<1>0. DeviceType /\ OwnerInv /\ KeyInv /\ ShellInv
  BY DEF DeviceInv
<1>1. PICK k \in Key :
         /\ IsSetUp /\ Secret(k)
         /\ files' = files \cup {[own |-> owner_account(identity), opub |-> k, settled |-> settled]}
  BY DEF seal_file, owner_keys
<1>2. /\ identity # NoProfile
      /\ UNCHANGED <<volatile, signer, profile, identity, attempt, links>>
      /\ UNCHANGED <<page, queue, emitting, shown, handed, up, watching, settled, fellback>>
  BY DEF seal_file, linkVars, shellVars, historyVars
<1>3. /\ keychain' \in Nat /\ memory' \in Nat /\ drawn' \in Nat
      /\ ~volatile => keychain' = k /\ k # NoKey /\ (keychain # NoKey => keychain' = keychain)
  BY <1>0, <1>1, SecretFacts
<1>4. DeviceType'
  BY <1>0, <1>1, <1>2, <1>3 DEF DeviceType
<1>5. settled => owner_account(identity) = profile.account
  BY <1>0, <1>2 DEF OwnerInv, owner_account
<1>6. OwnerInv'
  BY <1>0, <1>1, <1>2, <1>5 DEF OwnerInv, SetupAlone, IsSetUp
<1>7. KeyInv'
  BY <1>0, <1>1, <1>2, <1>3 DEF KeyInv, IsSetUp
<1>8. ShellInv'
  BY <1>0, <1>2 DEF ShellInv
<1> QED
  BY <1>4, <1>6, <1>7, <1>8 DEF DeviceInv

\* Steps of the window and the platform, which leave profile and keys alone.
LEMMA WindowInv ==
    ASSUME DeviceInv,
           ClearSigner \/ (up /\ (SecondInstance \/ Emit \/ Listen \/ take_pending \/ ensure_watching))
    PROVE  DeviceInv'
<1> USE ProfileFacts
<1>0. DeviceType /\ OwnerInv /\ KeyInv /\ ShellInv
  BY DEF DeviceInv
<1>1. /\ UNCHANGED <<keychain, memory, volatile, profile, identity, attempt, links, up, files>>
      /\ UNCHANGED <<settled, fellback>> /\ signer' \in Nat /\ drawn' \in Nat
  BY <1>0 DEF ClearSigner, SignerCleared, SecondInstance, Emit, Listen, take_pending, ensure_watching,
              identityVars, linkVars, historyVars, DeviceType
<1>2. DeviceType'
  BY <1>0, <1>1 DEF DeviceType
<1>3. \/ watching' = watching
      \/ up /\ identity # NoProfile /\ watching' = owner_account(identity)
  BY DEF ClearSigner, SecondInstance, Emit, Listen, take_pending, ensure_watching
<1>4. OwnerInv'
  BY <1>0, <1>1, <1>3 DEF OwnerInv, SetupAlone, IsSetUp, owner_account
<1>5. KeyInv'
  BY <1>0, <1>1 DEF KeyInv, IsSetUp
<1>6. ShellInv'
  <2>1. CASE UNCHANGED shellVars
    BY <1>0, <2>1 DEF ShellInv, shellVars
  <2>2. CASE SecondInstance
    BY <1>0, <2>2 DEF ShellInv, SecondInstance, deliver
  <2>3. CASE Emit
    BY <1>0, <2>3 DEF ShellInv, Emit
  <2>4. CASE Listen
    BY <1>0, <2>4 DEF ShellInv, Listen
  <2>5. CASE take_pending
    BY <1>0, <2>5 DEF ShellInv, take_pending
  <2> QED
    BY <2>1, <2>2, <2>3, <2>4, <2>5 DEF ClearSigner, ensure_watching
<1> QED
  BY <1>2, <1>4, <1>5, <1>6 DEF DeviceInv

\* A run begins with what the disk and the keychain kept, and ends with nothing in memory.
LEMMA RunInv ==
    ASSUME DeviceInv, Start \/ Stop PROVE DeviceInv'
<1> USE ProfileFacts
<1>0. DeviceType /\ OwnerInv /\ KeyInv /\ ShellInv
  BY DEF DeviceInv
<1>1. CASE Start
  <2>1. /\ ~up /\ up' = TRUE /\ volatile' \in BOOLEAN /\ memory' = NoKey /\ attempt' = Idle
        /\ identity' \in Restored
        /\ UNCHANGED <<keychain, signer, profile, drawn, watching, files>>
        /\ settled' = (profile.account # NoOwner) /\ fellback' = (fellback \/ volatile')
        /\ links' = Ensure(config', FALSE, <<>>)
    BY <1>1 DEF Start, IdentityStarts
  <2>2. identity' \in {profile, NoProfile}
    BY <2>1 DEF Restored
  <2>3. links' \in Seq(LinkTask)
    <3>1. <<>> \in Seq(LinkTask)
      OBVIOUS
    <3> QED
      BY <2>1, <3>1, EnsureType
  <2>4. settled' \in BOOLEAN /\ fellback' \in BOOLEAN
    BY <2>1, Zenon
  <2>5. identity' \in Profile
    BY <1>0, <2>2 DEF DeviceType
  <2>6. DeviceType'
    BY <1>0, <2>1, <2>3, <2>4, <2>5 DEF DeviceType
  <2>7. OwnerInv'
    BY <1>0, <2>1, <2>2 DEF OwnerInv, SetupAlone, IsSetUp
  <2>8. ~fellback' => ~fellback /\ ~volatile'
    BY <2>1, Zenon
  <2>9. KeyInv'
    BY <1>0, <2>1, <2>8 DEF KeyInv, IsSetUp
  <2>10. ShellInv'
    BY <1>0, <1>1 DEF ShellInv, Start, deliver
  <2> QED
    BY <2>6, <2>7, <2>9, <2>10 DEF DeviceInv
<1>2. CASE Stop
  <2>1. /\ up' = FALSE /\ identity' = NoProfile /\ attempt' = Idle /\ memory' = NoKey
        /\ volatile' = FALSE /\ links' = <<>> /\ watching' = NoOwner /\ settled' = FALSE
        /\ UNCHANGED <<keychain, signer, profile, drawn, files, fellback>>
    BY <1>2 DEF Stop
  <2>2. DeviceType'
    <3>1. links' \in Seq(LinkTask)
      BY <2>1
    <3> QED
      BY <1>0, <2>1, <3>1 DEF DeviceType
  <2>3. OwnerInv'
    BY <1>0, <2>1 DEF OwnerInv, SetupAlone, IsSetUp
  <2>4. KeyInv'
    BY <1>0, <2>1 DEF KeyInv, IsSetUp
  <2>5. ShellInv'
    BY <1>2 DEF ShellInv, Stop
  <2> QED
    BY <2>2, <2>3, <2>4, <2>5 DEF DeviceInv
<1> QED
  BY <1>1, <1>2

---------------------------------------------------------------------------
LEMMA DeviceInvariance == Spec => []DeviceInv
<1>1. Init => DeviceInv
  <2> SUFFICES ASSUME Init PROVE DeviceInv
    OBVIOUS
  <2>1. DeviceType
    <3>1. links \in Seq(LinkTask)
      BY DEF Init
    <3> QED
      BY <3>1, ProfileFacts DEF Init, IdentityInit, DeviceType
  <2>2. OwnerInv /\ KeyInv /\ ShellInv
    BY ProfileFacts DEF Init, IdentityInit, OwnerInv, KeyInv, ShellInv, SetupAlone, IsSetUp
  <2> QED
    BY <2>1, <2>2 DEF DeviceInv
<1>2. DeviceInv /\ [Next]_vars => DeviceInv'
  <2> SUFFICES ASSUME DeviceInv, [Next]_vars PROVE DeviceInv'
    OBVIOUS
  <2>1. CASE Start \/ (up /\ Stop)
    BY <2>1, RunInv
  <2>2. CASE up /\ SetupStep
    BY <2>2, SetupStepInv
  <2>3. CASE up /\ SetupEnds
    BY <2>3, SetupEndsInv
  <2>4. CASE up /\ seal_file
    BY <2>4, SealInv
  <2>5. CASE ClearSigner \/ (up /\ (SecondInstance \/ Emit \/ Listen \/ take_pending \/ ensure_watching))
    BY <2>5, WindowInv
  <2>6. ASSUME up, NEW i \in DOMAIN links, PickWriter(i) \/ ConnectFails(i) \/ Connected(i)
        PROVE  DeviceInv'
    BY <2>6, LinkInv
  <2>7. CASE UNCHANGED vars
    <3>1. UNCHANGED identityVars /\ UNCHANGED linkVars /\ UNCHANGED shellVars
          /\ UNCHANGED <<up, watching, files>> /\ UNCHANGED historyVars
      BY <2>7 DEF vars
    <3>2. DeviceType'
      BY <3>1 DEF DeviceInv, DeviceType, identityVars, linkVars, historyVars
    <3>3. OwnerInv' /\ KeyInv'
      BY <3>1 DEF DeviceInv, OwnerInv, KeyInv, SetupAlone, IsSetUp, identityVars, historyVars
    <3>4. ShellInv'
      BY <3>1 DEF DeviceInv, ShellInv, shellVars
    <3> QED
      BY <3>2, <3>3, <3>4 DEF DeviceInv
  <2> QED
    BY <2>1, <2>2, <2>3, <2>4, <2>5, <2>6, <2>7 DEF Next
<1> QED
  BY <1>1, <1>2, PTL DEF Spec

\* Once a run has found the account in the profile, every file locked and the inbox watcher are
\* that account's, in this run and every later one: adopt_account never replaces an account, and
\* complete writes a profile only where there was none.
THEOREM SettledTheorem == Spec => []SettledOwnerAnswers
<1>1. DeviceInv => SettledOwnerAnswers
  BY DEF DeviceInv, OwnerInv, SettledOwnerAnswers
<1> QED
  BY <1>1, DeviceInvariance, PTL

\* As long as every run found the keychain, all setups and locks use the one owner key it holds,
\* wherever a setup was cut short.
THEOREM OwnerKeysTheorem == Spec => []SameOwnerKeys
<1>1. DeviceInv => SameOwnerKeys
  BY DEF DeviceInv, KeyInv, SameOwnerKeys
<1> QED
  BY <1>1, DeviceInvariance, PTL

\* No file handed over is lost between deliver, which remembers before it emits, and a window that
\* listens before it takes what is pending.
THEOREM HandedTheorem == Spec => []HandedFileIsShown
<1>1. DeviceInv => HandedFileIsShown
  BY DEF DeviceInv, ShellInv, HandedFileIsShown
<1> QED
  BY <1>1, DeviceInvariance, PTL
=============================================================================
