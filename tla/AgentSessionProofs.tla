------------------------- MODULE AgentSessionProofs -------------------------
(***************************************************************************)
(* The safety invariants of one opened file, for any bound on the clock    *)
(* and on the viewer's writes and for every set of faults.                 *)
(***************************************************************************)
EXTENDS AgentSession, SequenceTheorems, TLAPS

\* Where the thread is, and what that says about the state machine, the workspace and
\* the end: this is why close() is accepted at every break that is not a failure.
PhaseInv ==
    /\ session.permission = terms.permission
    /\ pc = "start" => /\ session.state = "Granted" /\ session.opens = 0
                       /\ ws = "none" /\ end = "none" /\ viewer = "none"
    /\ pc \in {"launch", "watch"} \cup Looks =>
          session.state = "Open" /\ ws = "plain" /\ end = "none"
    /\ pc \in {"save", "notify"} =>
          session.state = "Resealing" /\ ws = "plain" /\ end = "none" /\ terms.permission = "Edit"
    /\ pc \in {"ending", "grace", "close"} =>
          /\ end # "none" /\ ws = "plain"
          /\ session.state = IF end = "Failed" THEN "Failed" ELSE "Open"
    /\ pc = "done" => end # "none" /\ (ws = "plain" => end = "Failed" \/ wipeFailed)

\* Before the session ends, an unsealed text that somebody watched is on its way: in the
\* debounce, as the last event of the queue, or in the save under way.
LastIsSaved == events # <<>> /\ events[Len(events)] = "Saved"
SaveInv ==
    /\ (/\ terms.permission = "Edit" /\ ~missed /\ text # Gone
        /\ pc \in {"launch", "watch", "save", "notify"} \cup Looks /\ sealed.content # text)
          => pending \/ LastIsSaved \/ pc = "save"
    /\ terms.permission = "ReadOnly" => sealed.content = 0
    /\ ToldOrFailed

AgentInv == TypeOK /\ PhaseInv /\ SaveInv

-----------------------------------------------------------------------------
(***************************************************************************)
(* What Session::apply answers in the states run_session asks it in        *)
(***************************************************************************)

\* The first open of a grant that was just given is within its budget.
LEMMA ApplyOpened ==
    ASSUME NEW s \in Sessions, NEW now, s.state = "Granted", s.opens = 0
    PROVE  /\ Apply(s, Event("Opened"), now).session \in Sessions
           /\ Apply(s, Event("Opened"), now).session.state = "Open"
           /\ Apply(s, Event("Opened"), now).session.permission = s.permission
<1> DEFINE e == Event("Opened")
<1>1. e.kind = "Opened"
  BY DEF Event
<1>2. Admissible(s, e, now)
  BY <1>1 DEF Admissible, is_terminal
<1>3. ~OpensUsedUp(s)
  BY DEF OpensUsedUp, Sessions
<1>4. After(s, e) = [s EXCEPT !.opens = @ + 1, !.state = "Open"]
  BY <1>1, <1>3 DEF After
<1>5. Apply(s, e, now).session = [s EXCEPT !.opens = @ + 1, !.state = "Open"]
  BY <1>2, <1>4 DEF Apply
<1>6. [s EXCEPT !.opens = @ + 1, !.state = "Open"] = [s EXCEPT !.opens = 1, !.state = "Open"]
  OBVIOUS
<1>7. [s EXCEPT !.opens = 1, !.state = "Open"] \in Sessions
  BY DEF Sessions, States
<1>8. [s EXCEPT !.opens = 1, !.state = "Open"].state = "Open"
  BY DEF Sessions
<1>9. [s EXCEPT !.opens = 1, !.state = "Open"].permission = s.permission
  BY DEF Sessions
<1> QED
  BY <1>5, <1>6, <1>7, <1>8, <1>9

\* A save is taken up by an Edit session and by no other.
LEMMA ApplySaved ==
    ASSUME NEW s \in Sessions, NEW now, s.state = "Open"
    PROVE  LET a == Apply(s, Event("Saved"), now) IN
           /\ a.session \in Sessions /\ a.session.permission = s.permission
           /\ "Reseal" \in a.effects <=> s.permission = "Edit"
           /\ s.permission = "Edit" => a.session.state = "Resealing"
           /\ s.permission # "Edit" => a.session = s
<1> DEFINE e == Event("Saved")
           a == Apply(s, e, now)
<1>1. e.kind = "Saved"
  BY DEF Event
<1>2. Admissible(s, e, now)
  BY <1>1 DEF Admissible, is_terminal
<1>3. /\ a.session = IF s.permission = "Edit"
                     THEN [s EXCEPT !.dirty = TRUE, !.state = "Resealing"] ELSE s
      /\ a.effects = IF s.permission = "Edit" THEN {"Reseal"} ELSE {"DiscardChanges"}
  BY <1>1, <1>2 DEF Apply, After, EffectsOf
<1> HIDE DEF a
<1>4. CASE s.permission = "Edit"
  <2>1. a.session = [s EXCEPT !.dirty = TRUE, !.state = "Resealing"] /\ a.effects = {"Reseal"}
    BY <1>3, <1>4
  <2> QED
    BY <2>1, <1>4 DEF Sessions, States, a
<1>5. CASE s.permission # "Edit"
  BY <1>3, <1>5 DEF a
<1> QED
  BY <1>4, <1>5 DEF a

\* The new version is taken in.
LEMMA ApplyResealed ==
    ASSUME NEW s \in Sessions, NEW now, NEW v \in Nat, s.state = "Resealing"
    PROVE  LET t == Apply(s, ResealedEvent(v), now).session IN
           t \in Sessions /\ t.permission = s.permission /\ t.state = "Open"
<1> DEFINE e == ResealedEvent(v)
<1>1. e.kind = "Resealed" /\ e.version = v
  BY DEF ResealedEvent
<1>2. Admissible(s, e, now)
  BY <1>1 DEF Admissible, is_terminal
<1>3. Apply(s, e, now).session = [s EXCEPT !.version = v, !.dirty = FALSE, !.state = "Open"]
  BY <1>1, <1>2 DEF Apply, After
<1> QED
  BY <1>3 DEF Sessions, States

\* A failure ends every session that is not over.
LEMMA ApplyFailed ==
    ASSUME NEW s \in Sessions, NEW now, s.state \in {"Open", "Resealing"}
    PROVE  LET a == Apply(s, Event("Failed"), now) IN
           /\ a.ok /\ a.session \in Sessions /\ a.session.permission = s.permission
           /\ a.session.state = "Failed"
<1> DEFINE e == Event("Failed")
<1>1. e.kind = "Failed"
  BY DEF Event
<1>2. Admissible(s, e, now)
  BY <1>1 DEF Admissible, is_terminal
<1>3. Apply(s, e, now).session = [s EXCEPT !.state = "Failed"] /\ Apply(s, e, now).ok
  BY <1>1, <1>2 DEF Apply, After
<1> QED
  BY <1>3 DEF Sessions, States

\* The end of an open session is accepted, that of a failed one refused.
LEMMA ApplyEnd ==
    ASSUME NEW s \in Sessions, NEW now,
           NEW kind \in {"ViewerExited", "Revoked", "Expired", "Failed"},
           s.state = IF kind = "Failed" THEN "Failed" ELSE "Open"
    PROVE  LET a == Apply(s, Event(kind), now) IN
           /\ a.session \in Sessions /\ a.session.permission = s.permission
           /\ a.ok <=> kind # "Failed"
<1> DEFINE e == Event(kind)
<1>1. e.kind = kind
  BY DEF Event
<1>2. CASE kind = "Failed"
  <2>1. ~Admissible(s, e, now)
    BY <1>2 DEF Admissible, is_terminal
  <2>2. Apply(s, e, now).session = s /\ Apply(s, e, now).ok = FALSE
    BY <2>1 DEF Apply
  <2> QED
    BY <1>2, <2>2
<1>3. CASE kind # "Failed"
  <2>1. Admissible(s, e, now)
    BY <1>1, <1>3 DEF Admissible, is_terminal
  <2>2. Apply(s, e, now).ok = TRUE /\ Apply(s, e, now).session = After(s, e)
    BY <2>1 DEF Apply
  <2>3. \/ After(s, e) = [s EXCEPT !.state = "Closed"]
        \/ After(s, e) = [s EXCEPT !.dirty = FALSE, !.state = "Revoked"]
        \/ After(s, e) = [s EXCEPT !.dirty = FALSE, !.state = "Closed"]
    BY <1>1, <1>3 DEF After
  <2>4. After(s, e) \in Sessions /\ After(s, e).permission = s.permission
    BY <2>3 DEF Sessions, States
  <2> QED
    BY <1>3, <2>2, <2>4
<1> QED
  BY <1>2, <1>3

-----------------------------------------------------------------------------
(***************************************************************************)
(* The steps of run_session                                                *)
(***************************************************************************)

LEMMA MaterialiseStep ==
    ASSUME AgentInv,
           \/ MaterialiseRefused \/ MaterialiseNoWorkspace \/ MaterialiseDamaged
           \/ MaterialiseUnnamed \/ Materialise
    PROVE  AgentInv'
<1>0. TypeOK /\ PhaseInv /\ SaveInv
  BY DEF AgentInv
<1>1. /\ pc = "start" /\ session \in Sessions /\ session.state = "Granted" /\ session.opens = 0
      /\ session.permission = terms.permission /\ ws = "none" /\ viewer = "none" /\ end = "none"
  BY <1>0 DEF TypeOK, PhaseInv, MaterialiseRefused, MaterialiseNoWorkspace, MaterialiseDamaged,
     MaterialiseUnnamed, Materialise
<1>2. UNCHANGED <<terms, tracked, outside, locked, clock, writes, missed, sealed, viewer, watching,
                  pending, events, told>>
  BY DEF MaterialiseRefused, MaterialiseNoWorkspace, MaterialiseDamaged, MaterialiseUnnamed,
     Materialise, thread
<1>3. /\ session' \in Sessions /\ session'.permission = terms.permission
      /\ session' = session \/ session'.state = "Open"
  BY <1>1, ApplyOpened DEF MaterialiseRefused, MaterialiseNoWorkspace, MaterialiseDamaged,
     MaterialiseUnnamed, Materialise, Feed
<1>4. /\ ws' \in {"none", "dir", "plain"} /\ wipeFailed' \in BOOLEAN
      /\ text' = text \/ text' = sealed.content
  BY <1>0, <1>1 DEF TypeOK, MaterialiseRefused, MaterialiseNoWorkspace, MaterialiseDamaged,
     MaterialiseUnnamed, Materialise, CreateFails, Wipe
<1>5. CASE pc' = "done" /\ end' = "Failed"
  <2>1. TypeOK'
    BY <1>0, <1>2, <1>3, <1>4, <1>5 DEF TypeOK, Locations, Ends
  <2>2. PhaseInv'
    BY <1>2, <1>3, <1>5 DEF PhaseInv, Looks
  <2>3. SaveInv'
    BY <1>0, <1>2, <1>5 DEF SaveInv, ToldOrFailed, Looks
  <2> QED
    BY <2>1, <2>2, <2>3 DEF AgentInv
<1>6. CASE Materialise
  <2>1. /\ pc' = "launch" /\ ws' = "plain" /\ text' = sealed.content
        /\ UNCHANGED <<end, wipeFailed>> /\ session'.state = "Open"
    BY <1>1, <1>6, ApplyOpened DEF Materialise, Feed
  <2>2. TypeOK'
    BY <1>0, <1>2, <1>3, <2>1 DEF TypeOK, Locations, Looks
  <2>3. PhaseInv'
    BY <1>1, <1>2, <1>3, <2>1 DEF PhaseInv, Looks
  <2>4. SaveInv'
    BY <1>0, <1>1, <1>2, <2>1 DEF SaveInv, ToldOrFailed, Looks
  <2> QED
    BY <2>2, <2>3, <2>4 DEF AgentInv
<1> QED
  BY <1>5, <1>6 DEF MaterialiseRefused, MaterialiseNoWorkspace, MaterialiseDamaged,
     MaterialiseUnnamed

LEMMA LaunchStep ==
    ASSUME AgentInv, LaunchFails \/ Launch \/ Watch
    PROVE  AgentInv'
<1>0. TypeOK /\ PhaseInv /\ SaveInv
  BY DEF AgentInv
<1>1. /\ pc \in {"launch", "watch"} /\ session \in Sessions /\ session.state = "Open"
      /\ session.permission = terms.permission /\ ws = "plain" /\ end = "none"
  BY <1>0 DEF TypeOK, PhaseInv, LaunchFails, Launch, Watch
<1>2. UNCHANGED <<terms, tracked, outside, locked, clock, writes, missed, sealed, text, pending, events,
                  told>>
  BY DEF LaunchFails, Launch, Watch, thread
<1>3. CASE LaunchFails
  <2>1. session' = Apply(session, Event("Failed"), clock).session
    BY <1>3 DEF LaunchFails, Close
  <2>2. session' \in Sessions /\ session'.permission = terms.permission
    BY <1>1, <2>1, ApplyFailed
  <2>3. /\ pc' = "done" /\ end' = "Failed" /\ UNCHANGED <<viewer, watching>>
        /\ ws' \in {"none", "dir", "plain"} /\ wipeFailed' \in BOOLEAN
    BY <1>0, <1>1, <1>3 DEF LaunchFails, Close, Wipe, TypeOK
  <2>4. TypeOK'
    BY <1>0, <1>2, <2>2, <2>3 DEF TypeOK, Locations, Ends
  <2>5. PhaseInv'
    BY <1>2, <2>2, <2>3 DEF PhaseInv, Looks
  <2>6. SaveInv'
    BY <1>0, <1>2, <2>3 DEF SaveInv, ToldOrFailed, Looks
  <2> QED
    BY <2>4, <2>5, <2>6 DEF AgentInv
<1>4. CASE Launch \/ Watch
  <2>1. /\ pc' \in {"watch", "cancel"} /\ UNCHANGED <<session, end, ws, wipeFailed>>
        /\ viewer' \in {"none", "running", "exited"} /\ watching' \in BOOLEAN
    BY <1>0, <1>4 DEF Launch, Watch, TypeOK
  <2>2. TypeOK'
    BY <1>0, <1>2, <2>1 DEF TypeOK, Locations, Looks
  <2>3. PhaseInv'
    BY <1>1, <1>2, <2>1 DEF PhaseInv, Looks
  <2>4. SaveInv'
    BY <1>0, <1>1, <1>2, <2>1 DEF SaveInv, ToldOrFailed, LastIsSaved, Looks
  <2> QED
    BY <2>2, <2>3, <2>4 DEF AgentInv
<1> QED
  BY <1>3, <1>4

\* The five looks, and a queue with nothing in it.
LEMMA LookStep ==
    ASSUME AgentInv, CheckCancel \/ CheckOutside \/ CheckExpiry \/ CheckViewer \/ NoEvent
    PROVE  AgentInv'
<1>0. TypeOK /\ PhaseInv /\ SaveInv
  BY DEF AgentInv
<1>1. UNCHANGED <<terms, tracked, outside, locked, clock, writes, missed, session, sealed, ws, text,
                  viewer, watching, pending, events, told, wipeFailed>>
  BY DEF CheckCancel, CheckOutside, CheckExpiry, CheckViewer, NoEvent, Break, GoOn, loopUnchanged,
     thread
<1>2. /\ pc \in Looks
      /\ \/ pc' = "ending" /\ end' \in {"Closed", "Revoked", "Expired"}
         \/ pc' \in Looks /\ end' = end
  BY DEF CheckCancel, CheckOutside, CheckExpiry, CheckViewer, NoEvent, Break, GoOn, Looks
<1>3. TypeOK'
  BY <1>0, <1>1, <1>2 DEF TypeOK, Locations, Looks, Ends
<1>4. PhaseInv'
  BY <1>0, <1>1, <1>2 DEF PhaseInv, Looks
<1>5. SaveInv'
  BY <1>0, <1>1, <1>2 DEF SaveInv, ToldOrFailed, LastIsSaved, Looks, PhaseInv
<1> QED
  BY <1>3, <1>4, <1>5 DEF AgentInv

LEMMA EventStep ==
    ASSUME AgentInv, IgnoreEvent \/ StartSave
    PROVE  AgentInv'
<1>0. TypeOK /\ PhaseInv /\ SaveInv
  BY DEF AgentInv
<1>1. /\ pc = "events" /\ session \in Sessions /\ session.state = "Open"
      /\ session.permission = terms.permission /\ ws = "plain" /\ end = "none"
  BY <1>0 DEF TypeOK, PhaseInv, IgnoreEvent, StartSave, Looks
<1>2. /\ UNCHANGED <<terms, tracked, outside, locked, clock, writes, missed, sealed, ws, text, viewer,
                     watching, pending, told, wipeFailed, end>>
      /\ events # <<>> /\ events' = Tail(events)
  BY DEF IgnoreEvent, StartSave, thread
<1>3. /\ events' \in Seq({"Saved", "Vanished"})
      /\ LastIsSaved => LastIsSaved' \/ Head(events) = "Saved"
  <2>1. events \in Seq({"Saved", "Vanished"}) /\ Len(events) \in Nat \ {0}
    BY <1>0, <1>2 DEF TypeOK
  <2>2. /\ events' \in Seq({"Saved", "Vanished"}) /\ Len(events') = Len(events) - 1
        /\ \A i \in 1 .. Len(events') : events'[i] = events[i + 1]
    BY <1>2, <2>1, HeadTailProperties
  <2>3. Len(events) = 1 => Head(events) = events[Len(events)]
    BY <2>1
  <2>4. Len(events) # 1 => events' # <<>> /\ events'[Len(events')] = events[Len(events)]
    BY <2>1, <2>2
  <2> QED
    BY <2>2, <2>3, <2>4 DEF LastIsSaved
<1>4. CASE IgnoreEvent
  <2>1. session' = session /\ pc' = "cancel"
    BY <1>1, <1>4, ApplySaved DEF IgnoreEvent, Feed
  <2>2. terms.permission = "Edit" => Head(events) # "Saved"
    BY <1>1, <1>4, ApplySaved DEF IgnoreEvent
  <2>3. TypeOK'
    BY <1>0, <1>2, <1>3, <2>1 DEF TypeOK, Locations, Looks
  <2>4. PhaseInv'
    BY <1>1, <1>2, <2>1 DEF PhaseInv, Looks
  <2>5. SaveInv'
    BY <1>0, <1>1, <1>2, <1>3, <2>1, <2>2 DEF SaveInv, ToldOrFailed, Looks
  <2> QED
    BY <2>3, <2>4, <2>5 DEF AgentInv
<1>5. CASE StartSave
  <2>1. /\ pc' = "save"
        /\ session' = Apply(session, Event("Saved"), clock).session
        /\ "Reseal" \in Apply(session, Event("Saved"), clock).effects
    BY <1>5 DEF StartSave, Feed
  <2>2. /\ terms.permission = "Edit" /\ session' \in Sessions
        /\ session'.state = "Resealing" /\ session'.permission = terms.permission
    BY <1>1, <2>1, ApplySaved
  <2>3. TypeOK'
    BY <1>0, <1>2, <1>3, <2>1, <2>2 DEF TypeOK, Locations
  <2>4. PhaseInv'
    BY <1>1, <1>2, <2>1, <2>2 DEF PhaseInv, Looks
  <2>5. SaveInv'
    BY <1>0, <1>1, <1>2, <2>1 DEF SaveInv, ToldOrFailed, Looks
  <2> QED
    BY <2>3, <2>4, <2>5 DEF AgentInv
<1> QED
  BY <1>4, <1>5

LEMMA SaveStep ==
    ASSUME AgentInv, SaveFails \/ SaveReseals \/ NoticeSent \/ NoticeFails
    PROVE  AgentInv'
<1>0. TypeOK /\ PhaseInv /\ SaveInv
  BY DEF AgentInv
<1>1. /\ pc \in {"save", "notify"} /\ session \in Sessions /\ session.state = "Resealing"
      /\ session.permission = terms.permission /\ ws = "plain" /\ end = "none"
      /\ terms.permission = "Edit" /\ sealed.ver \in Nat /\ sealed \in [ver : Nat, content : Nat]
  BY <1>0 DEF TypeOK, PhaseInv, SaveFails, SaveReseals, NoticeSent, NoticeFails
<1>2. UNCHANGED <<terms, tracked, outside, locked, clock, writes, missed, ws, text, viewer, watching,
                  pending, events, wipeFailed>>
  BY DEF SaveFails, SaveReseals, NoticeSent, NoticeFails, thread
<1>3. CASE SaveFails \/ NoticeFails
  <2>1. /\ pc' = "ending" /\ end' = "Failed" /\ sealed' = sealed
        /\ session' = Apply(session, Event("Failed"), clock).session
    BY <1>3 DEF SaveFails, NoticeFails, SaveGivesUp, Feed
  <2>2. told' \subseteq Nat
    BY <1>0, <1>1, <1>3 DEF SaveFails, NoticeFails, TypeOK
  <2>3. /\ session' \in Sessions /\ session'.permission = terms.permission
        /\ session'.state = "Failed"
    BY <1>1, <2>1, ApplyFailed
  <2>4. TypeOK'
    BY <1>0, <1>2, <2>1, <2>2, <2>3 DEF TypeOK, Locations, Ends
  <2>5. PhaseInv'
    BY <1>1, <1>2, <2>1, <2>3 DEF PhaseInv, Looks
  <2>6. SaveInv'
    BY <1>1, <1>2, <2>1 DEF SaveInv, ToldOrFailed, Looks
  <2> QED
    BY <2>4, <2>5, <2>6 DEF AgentInv
<1>4. CASE SaveReseals
  <2>1. /\ pc' = "notify" /\ sealed' = [ver |-> sealed.ver + 1, content |-> text]
        /\ UNCHANGED <<session, end, told>>
    BY <1>4 DEF SaveReseals
  <2>2. sealed' \in [ver : Nat, content : Nat] /\ sealed'.content = text
    BY <1>0, <1>1, <2>1 DEF TypeOK
  <2>3. TypeOK'
    BY <1>0, <1>2, <2>1, <2>2 DEF TypeOK, Locations
  <2>4. PhaseInv'
    BY <1>1, <1>2, <2>1 DEF PhaseInv, Looks
  <2>5. SaveInv'
    BY <1>1, <1>2, <2>1, <2>2 DEF SaveInv, ToldOrFailed, Looks
  <2> QED
    BY <2>3, <2>4, <2>5 DEF AgentInv
<1>5. CASE NoticeSent
  <2>1. /\ pc = "notify" /\ pc' = "cancel" /\ told' = told \cup {sealed.ver}
        /\ UNCHANGED <<sealed, end>>
        /\ session' = Apply(session, ResealedEvent(sealed.ver), clock).session
    BY <1>5 DEF NoticeSent, Feed
  <2>2. /\ session' \in Sessions /\ session'.permission = terms.permission
        /\ session'.state = "Open"
    BY <1>1, <2>1, ApplyResealed
  <2>3. TypeOK'
    BY <1>0, <1>1, <1>2, <2>1, <2>2 DEF TypeOK, Locations, Looks
  <2>4. PhaseInv'
    BY <1>1, <1>2, <2>1, <2>2 DEF PhaseInv, Looks
  <2>5. SaveInv'
    BY <1>0, <1>1, <1>2, <2>1 DEF SaveInv, ToldOrFailed, LastIsSaved, Looks
  <2> QED
    BY <2>3, <2>4, <2>5 DEF AgentInv
<1> QED
  BY <1>3, <1>4, <1>5

LEMMA EndStep ==
    ASSUME AgentInv, RequestClose \/ StopViewer \/ Finish
    PROVE  AgentInv'
<1>0. TypeOK /\ PhaseInv /\ SaveInv
  BY DEF AgentInv
<1>1. /\ pc \in {"ending", "grace", "close"} /\ session \in Sessions /\ ws = "plain"
      /\ session.state = IF end = "Failed" THEN "Failed" ELSE "Open"
      /\ session.permission = terms.permission /\ end \in {"Closed", "Revoked", "Expired", "Failed"}
  BY <1>0 DEF TypeOK, Ends, PhaseInv, RequestClose, StopViewer, Finish
<1>2. UNCHANGED <<terms, tracked, outside, locked, clock, writes, missed, end, sealed, text, told>>
  BY DEF RequestClose, StopViewer, Finish, endUnchanged, thread
<1>3. CASE RequestClose \/ StopViewer
  <2>1. /\ pc' \in {"grace", "close"} /\ viewer' \in {"none", "running", "exited"}
        /\ UNCHANGED <<session, ws, watching, pending, events, wipeFailed>>
    BY <1>0, <1>3 DEF RequestClose, StopViewer, endUnchanged, TypeOK
  <2>2. TypeOK'
    BY <1>0, <1>2, <2>1 DEF TypeOK, Locations
  <2>3. PhaseInv'
    BY <1>1, <1>2, <2>1 DEF PhaseInv, Looks
  <2>4. SaveInv'
    BY <1>0, <1>1, <1>2, <2>1 DEF SaveInv, ToldOrFailed, Looks
  <2> QED
    BY <2>2, <2>3, <2>4 DEF AgentInv
<1>4. CASE Finish
  <2>1. EndEvent \in {"ViewerExited", "Revoked", "Expired", "Failed"} /\ (EndEvent = "Failed" <=> end = "Failed")
    BY <1>1 DEF EndEvent
  <2>2. PICK kind \in {"ViewerExited", "Revoked", "Expired", "Failed"} :
           kind = EndEvent /\ (kind = "Failed" <=> end = "Failed")
    BY <2>1
  <2>3. /\ pc' = "done" /\ watching' = FALSE /\ pending' = FALSE /\ events' = <<>>
        /\ UNCHANGED viewer
        /\ session' = Apply(session, Event(kind), clock).session
        /\ IF Apply(session, Event(kind), clock).ok THEN Wipe(ws) ELSE UNCHANGED <<ws, wipeFailed>>
    BY <1>4, <2>2 DEF Finish, Close
  <2>4. /\ session' \in Sessions /\ session'.permission = terms.permission
        /\ Apply(session, Event(kind), clock).ok <=> kind # "Failed"
    BY <1>1, <2>2, <2>3, ApplyEnd
  <2>5. /\ ws' \in {"none", "dir", "plain"} /\ wipeFailed' \in BOOLEAN
        /\ end # "Failed" => ws' = "none" \/ wipeFailed'
    BY <1>0, <1>1, <2>2, <2>3, <2>4 DEF Wipe, TypeOK
  <2>6. TypeOK'
    <3>1. events' \in Seq({"Saved", "Vanished"})
      BY <2>3
    <3> QED
      BY <1>0, <1>2, <2>3, <2>4, <2>5, <3>1 DEF TypeOK, Locations
  <2>7. PhaseInv'
    BY <1>1, <1>2, <2>3, <2>4, <2>5 DEF PhaseInv, Looks
  <2>8. SaveInv'
    BY <1>0, <1>1, <1>2, <2>3 DEF SaveInv, ToldOrFailed, Looks
  <2> QED
    BY <2>6, <2>7, <2>8 DEF AgentInv
<1> QED
  BY <1>3, <1>4

-----------------------------------------------------------------------------
\* The viewer, the debounce, the person, the grant watcher and the clock.
LEMMA EnvironmentStep ==
    ASSUME AgentInv, Environment
    PROVE  AgentInv'
<1>0. TypeOK /\ PhaseInv /\ SaveInv
  BY DEF AgentInv
<1>1. UNCHANGED <<terms, session, pc, end, sealed, ws, tracked, watching, told, wipeFailed>>
  BY DEF Environment, Write, Unlink, Quiet, ViewerQuits, lock_now, GrantRevoked, GrantExpired, Tick,
     mine
<1>2. TypeOK'
  <2>1. text' \in Nat /\ writes' \in 0 .. MaxWrites /\ clock' \in 0 .. MaxTime
    BY <1>0, SessionAssumption DEF Environment, Write, Unlink, Quiet, ViewerQuits, lock_now,
       GrantRevoked, GrantExpired, Tick, TypeOK, Gone
  <2>2. pending' \in BOOLEAN /\ missed' \in BOOLEAN /\ locked' \in BOOLEAN
    BY <1>0 DEF Environment, Write, Unlink, Quiet, ViewerQuits, lock_now, GrantRevoked, GrantExpired,
       Tick, TypeOK
  <2>3. events' \in Seq({"Saved", "Vanished"})
    BY <1>0 DEF Environment, Write, Unlink, Quiet, ViewerQuits, lock_now, GrantRevoked, GrantExpired,
       Tick, TypeOK
  <2>4. viewer' \in {"none", "running", "exited"} /\ outside' \in {"Granted", "Revoked", "Closed"}
    BY <1>0 DEF Environment, Write, Unlink, Quiet, ViewerQuits, lock_now, GrantRevoked, GrantExpired,
       Tick, TypeOK
  <2> QED
    BY <1>0, <1>1, <2>1, <2>2, <2>3, <2>4 DEF TypeOK
<1>3. PhaseInv'
  <2>1. pc = "start" => viewer' = "none"
    BY <1>0 DEF Environment, Write, Unlink, Quiet, ViewerQuits, lock_now, GrantRevoked, GrantExpired,
       Tick, PhaseInv
  <2> QED
    BY <1>0, <1>1, <2>1 DEF PhaseInv
<1>4. SaveInv'
  <2>1. CASE Write \/ Unlink
    <3>1. missed' = ~watching /\ pending' = watching
      BY <2>1 DEF Write, Unlink
    <3>2. missed' \/ pending'
      BY <3>1, <1>0 DEF TypeOK
    <3> QED
      BY <1>0, <1>1, <3>2 DEF SaveInv, ToldOrFailed
  <2>2. CASE Quiet
    <3>1. UNCHANGED <<text, missed>> /\ events' = Append(events, IF text = Gone THEN "Vanished" ELSE "Saved")
      BY <2>2 DEF Quiet
    <3>2. text # Gone => LastIsSaved'
      BY <1>0, <3>1 DEF LastIsSaved, TypeOK
    <3> QED
      BY <1>0, <1>1, <3>1, <3>2 DEF SaveInv, ToldOrFailed
  <2>3. CASE UNCHANGED <<text, pending, events, missed>>
    BY <1>0, <1>1, <2>3 DEF SaveInv, ToldOrFailed, LastIsSaved
  <2> QED
    BY <2>1, <2>2, <2>3 DEF Environment, ViewerQuits, lock_now, GrantRevoked, GrantExpired, Tick
<1> QED
  BY <1>2, <1>3, <1>4 DEF AgentInv

-----------------------------------------------------------------------------
LEMMA AgentInvariance == Spec => []AgentInv
<1>1. Init => AgentInv
  <2> SUFFICES ASSUME Init PROVE AgentInv
    OBVIOUS
  <2>1. PICK perm \in {"ReadOnly", "Edit"}, exp \in 1 .. MaxTime, opens \in {0, 1} :
           terms = [permission |-> perm, not_before |-> 0, expiry |-> exp, max_opens |-> opens, ver |-> 1]
    BY DEF Init
  <2>2. terms \in Terms /\ terms.permission = perm
    BY <2>1, SessionAssumption DEF Terms
  <2>3. session = [state |-> "Granted", permission |-> perm, not_before |-> 0, expiry |-> exp,
                   max_opens |-> opens, opens |-> 0, version |-> 0, dirty |-> FALSE]
    <3> DEFINE e == GrantedEvent(terms)
    <3>1. e = [kind |-> "Granted", permission |-> perm, not_before |-> 0, expiry |-> exp,
               max_opens |-> opens]
      BY <2>1 DEF GrantedEvent
    <3> HIDE DEF e
    <3>2. Admissible(NewSession, e, 0)
      BY <3>1, SessionAssumption DEF Admissible, NewSession, is_terminal
    <3>3. session = After(NewSession, e)
      BY <3>2 DEF Init, Apply, e
    <3> QED
      BY <3>1, <3>3 DEF After, NewSession, NoVersion
  <2>4. /\ session \in Sessions /\ session.state = "Granted" /\ session.opens = 0
        /\ session.permission = terms.permission
    BY <2>2, <2>3, SessionAssumption DEF Sessions, States, Permissions
  <2>5. events \in Seq({"Saved", "Vanished"})
    BY DEF Init
  <2>6. sealed \in [ver : Nat, content : Nat] /\ sealed.content = 0
    BY DEF Init
  <2>7. TypeOK
    <3>1. clock \in 0 .. MaxTime /\ writes \in 0 .. MaxWrites /\ text \in Nat
      BY SessionAssumption DEF Init
    <3>2. /\ pc \in Locations /\ end \in Ends /\ ws \in {"none", "dir", "plain"}
          /\ viewer \in {"none", "running", "exited"} /\ outside \in {"Granted", "Revoked", "Closed"}
      BY DEF Init, Locations, Ends
    <3>3. /\ tracked \in BOOLEAN /\ watching \in BOOLEAN /\ pending \in BOOLEAN
          /\ locked \in BOOLEAN /\ missed \in BOOLEAN /\ wipeFailed \in BOOLEAN /\ told \subseteq Nat
      BY DEF Init
    <3> QED
      BY <2>2, <2>4, <2>5, <2>6, <3>1, <3>2, <3>3 DEF TypeOK
  <2>8. PhaseInv
    BY <2>4 DEF Init, PhaseInv, Looks
  <2>9. SaveInv
    BY <2>6 DEF Init, SaveInv, ToldOrFailed, Looks
  <2> QED
    BY <2>7, <2>8, <2>9 DEF AgentInv
<1>2. AgentInv /\ [Next]_vars => AgentInv'
  <2> SUFFICES ASSUME AgentInv, [Next]_vars PROVE AgentInv'
    OBVIOUS
  <2>1. CASE RunSession
    BY <2>1, MaterialiseStep, LaunchStep, LookStep, EventStep, SaveStep, EndStep DEF RunSession
  <2>2. CASE Environment
    BY <2>2, EnvironmentStep
  <2>3. CASE UNCHANGED vars
    <3>1. TypeOK'
      BY <2>3 DEF AgentInv, TypeOK, vars
    <3>2. PhaseInv'
      BY <2>3 DEF AgentInv, PhaseInv, vars
    <3>3. SaveInv'
      BY <2>3 DEF AgentInv, SaveInv, ToldOrFailed, LastIsSaved, vars
    <3> QED
      BY <3>1, <3>2, <3>3 DEF AgentInv
  <2> QED
    BY <2>1, <2>2, <2>3 DEF Next, Done
<1> QED
  BY <1>1, <1>2, PTL DEF Spec

\* Every variable of run_session and its surroundings keeps its type; in particular
\* Session::apply always gives a session.
THEOREM AgentTypeTheorem == Spec => []TypeOK
<1>1. AgentInv => TypeOK
  BY DEF AgentInv
<1> QED
  BY <1>1, AgentInvariance, PTL

\* Plaintext is left behind only by a session that failed or by a wipe that did:
\* every other break finds the state machine in `Open`, where it accepts the event
\* close() brings, and so close() reaches the wipe.
THEOREM WipedTheorem == Spec => []WipedUnlessFailed
<1>1. AgentInv => WipedUnlessFailed
  BY DEF AgentInv, PhaseInv, WipedUnlessFailed
<1> QED
  BY <1>1, AgentInvariance, PTL

\* As long as nothing failed, decrypted text exists only in the two states in which
\* plaintext_allowed says so.
THEOREM PlaintextTheorem == Spec => []PlaintextOnlyWhileAllowed
<1>1. AgentInv => PlaintextOnlyWhileAllowed
  <2> SUFFICES ASSUME AgentInv, ws = "plain", end # "Failed", ~wipeFailed
               PROVE  plaintext_allowed(session.state)
    BY DEF PlaintextOnlyWhileAllowed
  <2>1. pc \in Locations
    BY DEF AgentInv, TypeOK
  <2> QED
    BY <2>1 DEF AgentInv, PhaseInv, Locations, Looks, plaintext_allowed
<1> QED
  BY <1>1, AgentInvariance, PTL

\* No write that the watcher saw is forgotten while the session goes on, and a
\* ReadOnly session leaves the container alone.
THEOREM QuietTheorem == Spec => []QuietMeansSealed
<1>1. AgentInv => QuietMeansSealed
  <2> SUFFICES ASSUME AgentInv PROVE QuietMeansSealed
    OBVIOUS
  <2>1. \A p \in Looks : p # "save"
    BY DEF Looks
  <2> QED
    BY <2>1 DEF AgentInv, SaveInv, QuietMeansSealed, LastIsSaved
<1> QED
  BY <1>1, AgentInvariance, PTL

\* A session that goes on from a new version has told the owner of it.
THEOREM ToldTheorem == Spec => []ToldOrFailed
<1>1. AgentInv => ToldOrFailed
  BY DEF AgentInv, SaveInv
<1> QED
  BY <1>1, AgentInvariance, PTL
=============================================================================
