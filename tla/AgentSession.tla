---------------------------- MODULE AgentSession ----------------------------
(***************************************************************************)
(* One opened file on the recipient's machine: run_session in              *)
(* apps/agent/src-tauri/src/session.rs with materialise, save and close of *)
(* open.rs, next to the processes it runs against: the viewer application, *)
(* the SaveWatcher thread with its debounce (viewer.rs), the person, the   *)
(* clock, and the grant watcher that moves the session in the Requests map *)
(* (request.rs), seen here as `outside`.                                   *)
(*                                                                         *)
(* The blocking thread's program counter is pc.  Everything between two    *)
(* looks at shared state is one step.  What the file says is a revision    *)
(* number: 0 as sealed, n after the n-th write of the viewer.              *)
(***************************************************************************)
EXTENDS Session, Sequences

CONSTANTS
    MaxTime,        \* bound on the clock
    MaxWrites,      \* bound on the viewer's writes
    Faults          \* the failures of the environment that may happen

FaultKinds ==
    {"container",   \* the container cannot be read, or its envelope does not open
     "workspace",   \* the workspace directory or the file in it cannot be made
     "decrypt",     \* open_with_dek fails
     "rename",      \* the rename or the read-only attribute fails
     "viewer",      \* the viewer does not start
     "watch",       \* SaveWatcher::watch fails
     "reseal",      \* save fails before the container is replaced
     "notice",      \* save fails after that; send_version may have reached the relay
     "wipe"}        \* Workspace::wipe fails

ASSUME SessionAssumption ==
    /\ MaxTime \in Nat
    /\ MaxWrites \in Nat
    /\ Faults \subseteq FaultKinds

Gone == MaxWrites + 1       \* the viewer has the file unlinked in the middle of a save

VARIABLES
    terms,      \* the grant: permission, window, budget and the version it names
    session,    \* Held::session, this thread's copy
    pc,         \* where run_session is
    end,        \* how the loop ended (End), "none" before that
    sealed,     \* the container on disk
    ws,         \* the workspace: "none", "dir" (no plaintext in it) or "plain"
    text,       \* the plaintext in it
    viewer,     \* "none", "running" or "exited"
    tracked,    \* Launch::Tracked, as opposed to Delegated
    watching,   \* the SaveWatcher exists
    pending,    \* Debounce::pending
    events,     \* SaveEvents sent and not yet received
    locked,     \* the cancel flag
    outside,    \* the session's state in the Requests map
    clock,
    told,       \* versions the relay took a notice of
    writes,     \* writes of the viewer so far
    missed,     \* history: nobody watched the last write
    wipeFailed  \* history: a wipe did not complete

vars == <<terms, session, pc, end, sealed, ws, text, viewer, tracked, watching, pending, events,
          locked, outside, clock, told, writes, missed, wipeFailed>>

thread == <<terms, tracked, outside, locked, clock, writes, missed>>   \* never written by run_session

Looks == {"cancel", "outside", "expiry", "viewer", "events"}
Locations == {"start", "launch", "watch", "save", "notify", "ending", "grace", "close", "done"} \cup Looks
Ends == {"none", "Closed", "Revoked", "Expired", "Failed"}
Terms == [permission : {"ReadOnly", "Edit"}, not_before : Nat, expiry : Nat, max_opens : Nat, ver : Nat]

TypeOK ==
    /\ terms \in Terms
    /\ session \in Sessions
    /\ pc \in Locations
    /\ end \in Ends
    /\ sealed \in [ver : Nat, content : Nat]
    /\ ws \in {"none", "dir", "plain"}
    /\ text \in Nat
    /\ viewer \in {"none", "running", "exited"}
    /\ tracked \in BOOLEAN /\ watching \in BOOLEAN /\ pending \in BOOLEAN
    /\ events \in Seq({"Saved", "Vanished"})
    /\ locked \in BOOLEAN
    /\ outside \in {"Granted", "Revoked", "Closed"}
    /\ clock \in 0 .. MaxTime
    /\ told \subseteq Nat
    /\ writes \in 0 .. MaxWrites /\ missed \in BOOLEAN
    /\ wipeFailed \in BOOLEAN

\* open_file starts run_session with a held grant in `Granted`.  The container on
\* disk may be a later version than the one the owner approved.
Init ==
    /\ \E perm \in {"ReadOnly", "Edit"}, exp \in 1 .. MaxTime, opens \in {0, 1} :
          terms = [permission |-> perm, not_before |-> 0, expiry |-> exp, max_opens |-> opens, ver |-> 1]
    /\ session = Apply(NewSession, GrantedEvent(terms), 0).session
    /\ sealed \in {[ver |-> 1, content |-> 0], [ver |-> 2, content |-> 0]}
    /\ tracked \in BOOLEAN
    /\ pc = "start" /\ end = "none"
    /\ ws = "none" /\ text = 0
    /\ viewer = "none" /\ watching = FALSE /\ pending = FALSE /\ events = <<>>
    /\ locked = FALSE /\ outside = "Granted" /\ clock = 0
    /\ told = {} /\ writes = 0 /\ missed = FALSE /\ wipeFailed = FALSE

Feed(e) == session' = Apply(session, e, clock).session

-----------------------------------------------------------------------------
(***************************************************************************)
(* Workspace                                                               *)
(***************************************************************************)

\* Workspace::create did not get to the end, or the file in it could not be made.
CreateFails == ws' \in {"none", "dir"}

\* Workspace::wipe: every file zeroed and removed, then the directory.  A wipe that reports an
\* error goes on to the end, and may have left the plaintext, its zeros, or nothing.
Wipe(from) ==
    \/ /\ ws' = "none"
       /\ UNCHANGED wipeFailed
    \/ /\ "wipe" \in Faults
       /\ ws' \in {"none", "dir", from}
       /\ wipeFailed' = TRUE

-----------------------------------------------------------------------------
(***************************************************************************)
(* materialise                                                             *)
(***************************************************************************)

\* A container that cannot be opened, or is not the version the grant names (T19),
\* is refused before the state machine counts an open.
MaterialiseRefused ==
    /\ pc = "start"
    /\ sealed.ver # terms.ver \/ "container" \in Faults
    /\ pc' = "done" /\ end' = "Failed"
    /\ UNCHANGED <<session, sealed, ws, text, viewer, watching, pending, events, told,
                   wipeFailed, thread>>

\* Counted, then no workspace: the early returns leave the session in `Open`.
MaterialiseNoWorkspace ==
    /\ pc = "start"
    /\ sealed.ver = terms.ver
    /\ "workspace" \in Faults
    /\ Feed(Event("Opened"))
    /\ CreateFails
    /\ pc' = "done" /\ end' = "Failed"
    /\ UNCHANGED <<sealed, text, viewer, watching, pending, events, told, wipeFailed, thread>>

\* Decryption failed: the only failure after the workspace exists that wipes it.
MaterialiseDamaged ==
    /\ pc = "start"
    /\ sealed.ver = terms.ver
    /\ "decrypt" \in Faults
    /\ Feed(Event("Opened"))
    /\ Wipe("plain")
    /\ pc' = "done" /\ end' = "Failed"
    /\ UNCHANGED <<sealed, text, viewer, watching, pending, events, told, thread>>

\* Decrypted, but not renamed or not made read-only: returned without a wipe.
MaterialiseUnnamed ==
    /\ pc = "start"
    /\ sealed.ver = terms.ver
    /\ "rename" \in Faults
    /\ Feed(Event("Opened"))
    /\ ws' = "plain" /\ text' = sealed.content
    /\ pc' = "done" /\ end' = "Failed"
    /\ UNCHANGED <<sealed, viewer, watching, pending, events, told, wipeFailed, thread>>

Materialise ==
    /\ pc = "start"
    /\ sealed.ver = terms.ver
    /\ Feed(Event("Opened"))
    /\ "LaunchViewer" \in Apply(session, Event("Opened"), clock).effects
    /\ ws' = "plain" /\ text' = sealed.content
    /\ pc' = "launch"
    /\ UNCHANGED <<end, sealed, viewer, watching, pending, events, told, wipeFailed, thread>>

-----------------------------------------------------------------------------
\* Seeded fault: the effects are asked of the session that has already moved on.
CloseAsksTooLate(e) ==
    LET after == Apply(session, e, clock).session IN
    /\ session' = after
    /\ ws' = IF "WipeWorkspace" \in EffectsOf(after, e) THEN "none" ELSE ws
    /\ UNCHANGED wipeFailed

(***************************************************************************)
(* close: the state machine is asked first, and an event it refuses        *)
(* returns before the wipe.                                                *)
(***************************************************************************)
Close(e) ==
    LET answer == Apply(session, e, clock) IN
    /\ session' = answer.session
    /\ IF answer.ok THEN Wipe(ws) ELSE UNCHANGED <<ws, wipeFailed>>

LaunchFails ==
    /\ pc = "launch"
    /\ "viewer" \in Faults
    /\ Close(Event("Failed"))
    /\ pc' = "done" /\ end' = "Failed"
    /\ UNCHANGED <<sealed, text, viewer, watching, pending, events, told, thread>>

Launch ==
    /\ pc = "launch"
    /\ viewer' = "running"
    /\ pc' = "watch"
    /\ UNCHANGED <<session, end, sealed, ws, text, watching, pending, events, told, wipeFailed, thread>>

\* The viewer runs before it is watched, and a session goes on without a watcher.
Watch ==
    /\ pc = "watch"
    /\ watching' \in {TRUE} \cup (IF "watch" \in Faults THEN {FALSE} ELSE {})
    /\ pc' = "cancel"
    /\ UNCHANGED <<session, end, sealed, ws, text, viewer, pending, events, told, wipeFailed, thread>>

-----------------------------------------------------------------------------
(***************************************************************************)
(* The loop of run_session: five looks, each at what somebody else writes. *)
(***************************************************************************)
loopUnchanged == <<session, sealed, ws, text, viewer, watching, pending, told, wipeFailed, thread>>

Break(how) == end' = how /\ pc' = "ending" /\ UNCHANGED events
GoOn(next) == pc' = next /\ UNCHANGED <<end, events>>

CheckCancel ==
    /\ pc = "cancel"
    /\ IF locked THEN Break("Closed") ELSE GoOn("outside")
    /\ UNCHANGED loopUnchanged

CheckOutside ==
    /\ pc = "outside"
    /\ \/ outside = "Revoked" /\ Break("Revoked")
       \/ outside = "Closed" /\ Break("Expired")
       \/ outside \notin {"Revoked", "Closed"} /\ GoOn("expiry")
    /\ UNCHANGED loopUnchanged

\* Seeded fault: the event is applied at the break and again by close().
CheckExpiryApplies ==
    /\ pc = "expiry"
    /\ \/ /\ clock >= terms.expiry
          /\ Feed(Event("Expired"))
          /\ Break("Expired")
       \/ /\ clock < terms.expiry
          /\ GoOn("viewer")
          /\ UNCHANGED session
    /\ UNCHANGED <<sealed, ws, text, viewer, watching, pending, told, wipeFailed, thread>>

CheckExpiry ==
    /\ pc = "expiry"
    /\ IF clock >= terms.expiry THEN Break("Expired") ELSE GoOn("viewer")
    /\ UNCHANGED loopUnchanged

\* Viewer::is_running answers None for a delegated viewer.
CheckViewer ==
    /\ pc = "viewer"
    /\ IF tracked /\ viewer = "exited" THEN Break("Closed") ELSE GoOn("events")
    /\ UNCHANGED loopUnchanged

\* next_event times out, or there is no watcher and the thread sleeps instead.
NoEvent ==
    /\ pc = "events"
    /\ events = <<>>
    /\ GoOn("cancel")
    /\ UNCHANGED loopUnchanged

\* A save of a ReadOnly session is discarded, a vanished file only logged.
IgnoreEvent ==
    /\ pc = "events"
    /\ events # <<>>
    /\ \/ Head(events) = "Vanished" /\ UNCHANGED session
       \/ /\ Head(events) = "Saved"
          /\ Feed(Event("Saved"))
          /\ "Reseal" \notin Apply(session, Event("Saved"), clock).effects
    /\ events' = Tail(events)
    /\ pc' = "cancel"
    /\ UNCHANGED <<end, sealed, ws, text, viewer, watching, pending, told, wipeFailed, thread>>

\* A save of an Edit session.
StartSave ==
    /\ pc = "events"
    /\ events # <<>>
    /\ Head(events) = "Saved"
    /\ "Reseal" \in Apply(session, Event("Saved"), clock).effects
    /\ Feed(Event("Saved"))
    /\ events' = Tail(events)
    /\ pc' = "save"
    /\ UNCHANGED <<end, sealed, ws, text, viewer, watching, pending, told, wipeFailed, thread>>

-----------------------------------------------------------------------------
(***************************************************************************)
(* save                                                                    *)
(***************************************************************************)

\* The Err branch of run_session: the session is failed and the loop left.
SaveGivesUp == Feed(Event("Failed")) /\ end' = "Failed" /\ pc' = "ending"

\* The container must still be the version the grant names, so a second save in
\* one session is refused; the plaintext must be there to be read.
SaveFails ==
    /\ pc = "save"
    /\ \/ sealed.ver # terms.ver
       \/ text = Gone
       \/ "reseal" \in Faults
    /\ SaveGivesUp
    /\ UNCHANGED <<sealed, ws, text, viewer, watching, pending, events, told, wipeFailed, thread>>

\* reseal_as_recipient_to_path replaces the container atomically.
SaveReseals ==
    /\ pc = "save"
    /\ sealed.ver = terms.ver
    /\ text # Gone
    /\ sealed' = [ver |-> sealed.ver + 1, content |-> text]
    /\ pc' = "notify"
    /\ UNCHANGED <<session, end, ws, text, viewer, watching, pending, events, told, wipeFailed, thread>>

\* Seeded fault: the events that came in during the save are thrown away.
NoticeSentDrains ==
    /\ pc = "notify"
    /\ told' = told \cup {sealed.ver}
    /\ Feed(ResealedEvent(sealed.ver))
    /\ events' = <<>>
    /\ pc' = "cancel"
    /\ UNCHANGED <<end, sealed, ws, text, viewer, watching, pending, wipeFailed, thread>>

NoticeSent ==
    /\ pc = "notify"
    /\ told' = told \cup {sealed.ver}
    /\ Feed(ResealedEvent(sealed.ver))
    /\ pc' = "cancel"
    /\ UNCHANGED <<end, sealed, ws, text, viewer, watching, pending, events, wipeFailed, thread>>

\* Seeded fault: a notice that could not be sent is logged and the session goes on.
NoticeFailsGoesOn ==
    /\ pc = "notify"
    /\ "notice" \in Faults
    /\ Feed(ResealedEvent(sealed.ver))
    /\ pc' = "cancel"
    /\ UNCHANGED <<end, told, sealed, ws, text, viewer, watching, pending, events, wipeFailed, thread>>

\* Every attempt of send_version failed; one of them may have arrived.
NoticeFails ==
    /\ pc = "notify"
    /\ "notice" \in Faults
    /\ told' \in {told, told \cup {sealed.ver}}
    /\ SaveGivesUp
    /\ UNCHANGED <<sealed, ws, text, viewer, watching, pending, events, wipeFailed, thread>>

-----------------------------------------------------------------------------
(***************************************************************************)
(* The ending of run_session                                               *)
(***************************************************************************)
endUnchanged == <<session, end, sealed, ws, text, watching, pending, events, told, wipeFailed, thread>>

\* Ask the viewer to close; it has CLOSE_GRACE to do so and may still save.
RequestClose ==
    /\ pc = "ending"
    /\ pc' = "grace"
    /\ UNCHANGED <<viewer, endUnchanged>>

\* Seeded fault: a viewer that ignores the request to close is left running.
StopNobody ==
    /\ pc = "grace"
    /\ pc' = "close"
    /\ UNCHANGED <<viewer, endUnchanged>>

\* After the grace period a tracked viewer is killed.  A delegated one is not ours.
StopViewer ==
    /\ pc = "grace"
    /\ viewer' = IF tracked THEN "exited" ELSE viewer
    /\ pc' = "close"
    /\ UNCHANGED endUnchanged

EndEvent == CASE end = "Closed" -> "ViewerExited" [] end = "Revoked" -> "Revoked"
              [] end = "Expired" -> "Expired" [] end = "Failed" -> "Failed"

Finish ==
    /\ pc = "close"
    /\ Close(Event(EndEvent))
    /\ pc' = "done"
    /\ watching' = FALSE /\ pending' = FALSE /\ events' = <<>>   \* the SaveWatcher is dropped
    /\ UNCHANGED <<end, sealed, text, viewer, told, thread>>

RunSession ==
    \/ MaterialiseRefused \/ MaterialiseNoWorkspace \/ MaterialiseDamaged \/ MaterialiseUnnamed
    \/ Materialise \/ LaunchFails \/ Launch \/ Watch
    \/ CheckCancel \/ CheckOutside \/ CheckExpiry \/ CheckViewer
    \/ NoEvent \/ IgnoreEvent \/ StartSave
    \/ SaveFails \/ SaveReseals \/ NoticeSent \/ NoticeFails
    \/ RequestClose \/ StopViewer \/ Finish

-----------------------------------------------------------------------------
(***************************************************************************)
(* Everybody else                                                          *)
(***************************************************************************)
mine == <<terms, session, pc, end, sealed, ws, tracked, watching, told, wipeFailed>>

\* The viewer writes the file, ReadOnly attribute or not.
Write ==
    /\ viewer = "running" /\ ws = "plain"
    /\ writes < MaxWrites
    /\ writes' = writes + 1
    /\ text' = writes + 1
    /\ pending' = watching /\ missed' = ~watching
    /\ UNCHANGED <<mine, viewer, events, locked, outside, clock>>

\* The first half of a save by unlink and rename.
Unlink ==
    /\ viewer = "running" /\ ws = "plain"
    /\ writes < MaxWrites /\ text # Gone
    /\ text' = Gone
    /\ pending' = watching /\ missed' = ~watching
    /\ UNCHANGED <<mine, viewer, events, locked, outside, clock, writes>>

\* The directory has been quiet for the debounce window.
Quiet ==
    /\ pending
    /\ pending' = FALSE
    /\ events' = Append(events, IF text = Gone THEN "Vanished" ELSE "Saved")
    /\ UNCHANGED <<mine, text, viewer, locked, outside, clock, writes, missed>>

ViewerQuits ==
    /\ viewer = "running"
    /\ viewer' = "exited"
    /\ UNCHANGED <<mine, text, pending, events, locked, outside, clock, writes, missed>>

lock_now ==
    /\ pc # "done" /\ ~locked
    /\ locked' = TRUE
    /\ UNCHANGED <<mine, text, viewer, pending, events, outside, clock, writes, missed>>

\* watch_grant writes what it learned into the Requests map.
GrantRevoked ==
    /\ outside = "Granted"
    /\ outside' = "Revoked"
    /\ UNCHANGED <<mine, text, viewer, pending, events, locked, clock, writes, missed>>

\* Seeded fault: at the end of the window the session is given Event::Failed.
GrantExpiredFails ==
    /\ outside = "Granted" /\ clock >= terms.expiry
    /\ outside' = "Failed"
    /\ UNCHANGED <<mine, text, viewer, pending, events, locked, clock, writes, missed>>

GrantExpired ==
    /\ outside = "Granted" /\ clock >= terms.expiry
    /\ outside' = "Closed"
    /\ UNCHANGED <<mine, text, viewer, pending, events, locked, clock, writes, missed>>

Tick ==
    /\ clock < MaxTime
    /\ clock' = clock + 1
    /\ UNCHANGED <<mine, text, viewer, pending, events, locked, outside, writes, missed>>

Environment ==
    Write \/ Unlink \/ Quiet \/ ViewerQuits \/ lock_now \/ GrantRevoked \/ GrantExpired \/ Tick

\* The ended session stays as it is.
Done == pc = "done" /\ UNCHANGED vars

Next == RunSession \/ Environment \/ Done

\* The blocking thread is scheduled: every wait in it has a timeout.
Spec == Init /\ [][Next]_vars /\ WF_vars(RunSession)

-----------------------------------------------------------------------------
(***************************************************************************)
(* Properties                                                              *)
(***************************************************************************)

\* A session that ended because the viewer quit, the person locked it, the owner
\* revoked or the time ran out has left no plaintext behind, unless the wipe
\* itself failed (T09).  close() wipes only if the state machine accepts the
\* event, so this needs the machine to be in a state that does at every break.
WipedUnlessFailed ==
    (pc = "done" /\ ws = "plain") => (end = "Failed" \/ wipeFailed)

\* Plaintext is on disk only while the state machine says it may be, as long as
\* no step of the session has failed.
PlaintextOnlyWhileAllowed ==
    (ws = "plain" /\ end # "Failed" /\ ~wipeFailed) => plaintext_allowed(session.state)

\* While an Edit session goes on, a quiet watcher means that the container holds
\* what the viewer last wrote: no write the watcher saw is forgotten between the
\* debounce, the event queue and the reseal.  A ReadOnly session leaves the
\* container as it was, whatever its viewer writes (T07).
QuietMeansSealed ==
    /\ (/\ terms.permission = "Edit" /\ ~missed /\ ~pending /\ events = <<>>
        /\ pc \in Looks /\ text # Gone) => sealed.content = text
    /\ terms.permission = "ReadOnly" => sealed.content = 0

\* A version the session goes on from is one the owner was told about: a version
\* nobody told the owner of can only be the last thing of a failed session.
ToldOrFailed ==
    (sealed.content # 0 /\ pc # "notify" /\ end # "Failed") => sealed.ver \in told

\* A revoke, the lock button and the exit of a tracked viewer each end the session,
\* and with it a tracked viewer.
EndsOnDemand ==
    (outside = "Revoked" \/ locked \/ (tracked /\ viewer = "exited"))
        ~> (pc = "done" /\ ~(tracked /\ viewer = "running"))

\* The claim of session.rs, "always wipes (T09)", and of open.rs, "when the session
\* ends however it ends (T09)".
AlwaysWipes == pc = "done" => ~(ws = "plain" /\ text # Gone)

\* What state.rs says of a revoke: it "closes the session immediately", and "no new version
\* may be produced".  Here: no save is taken up once the revoke is in the Requests map.
NoSaveAfterRevoke == [][outside = "Revoked" /\ pc = "events" => pc' # "save"]_vars

\* What state.rs says of a session that ends in good order: "Edit must reseal before it can
\* close (T07)".
EditResealsBeforeClose ==
    (pc = "done" /\ end = "Closed" /\ terms.permission = "Edit" /\ ~missed /\ text # Gone)
        => sealed.content = text

=============================================================================
