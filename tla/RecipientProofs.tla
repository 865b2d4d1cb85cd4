--------------------------- MODULE RecipientProofs ---------------------------
(***************************************************************************)
(* The safety of the recipient's Agent, for any files, any number of       *)
(* requests and of opened files, any answers of the owners, with and       *)
(* without a chain.                                                        *)
(***************************************************************************)
EXTENDS Recipient, FiniteSetTheorems, TLAPS

-----------------------------------------------------------------------------
(***************************************************************************)
(* The inductive invariant                                                 *)
(***************************************************************************)

\* A session that carries a permission has it from the answer to request i.
Answered(i, s) ==
    s.permission # NoPermission =>
        /\ answer[i] # NoAnswer /\ answer[i].fits
        /\ s.permission = answer[i].permission /\ s.expiry = answer[i].expiry

\* Until a task has read its answer its session is the new one.
Early == {"free", "sending", "asking", "polling"}
TaskInv ==
    \A i \in Req :
        /\ task[i].pc # "free" => task[i].path \in Path
        /\ task[i].pc \in Early => task[i].session = NewSession
        /\ Answered(i, task[i].session)

\* Whatever is held for a path, in the map or by a thread, is of a request about it.
HeldFits(p, h) ==
    /\ h \in Held
    /\ task[h.req].pc # "free" /\ task[h.req].path = p
    /\ Answered(h.req, h.session)
HeldInv ==
    /\ \A p \in Path : active[p].held = NoHeld \/ HeldFits(p, active[p].held)
    /\ \A o \in Slot : IF slot[o].pc = "free" THEN slot[o].held = NoHeld
                       ELSE slot[o].path \in Path /\ HeldFits(slot[o].path, slot[o].held)

\* The owner answers what has arrived, and only then is there a message.
MailInv ==
    /\ \A i \in Req : GrantMsg(i) \in inbox => answer[i] # NoAnswer
    /\ \A i \in Req : answer[i] # NoAnswer => i \in asked

\* A grant was opened at most once by each thread that has started.
Started == {o \in Slot : slot[o].pc \in {"open", "back", "ended"}}
CountInv == \A i \in Req : opens[i] <= Cardinality(Started)

RecipientInv == TypeOK /\ TaskInv /\ HeldInv /\ MailInv /\ CountInv

-----------------------------------------------------------------------------
(***************************************************************************)
(* The session machine                                                     *)
(***************************************************************************)

\* An event without terms leaves the permission and its end alone (state.rs, apply).
LEMMA ApplyPlain ==
    ASSUME NEW s \in Sessions, NEW now,
           NEW kind \in {"Denied", "Opened", "ViewerExited", "Revoked", "Expired", "Failed"}
    PROVE  LET t == Apply(s, Event(kind), now).session IN
           t \in Sessions /\ t.permission = s.permission /\ t.expiry = s.expiry
<1> DEFINE e == Event(kind)
           t == Apply(s, e, now).session
<1>1. e.kind = kind
  BY DEF Event
<1>2. CASE ~Admissible(s, e, now)
  BY <1>2 DEF Apply
<1>3. CASE Admissible(s, e, now)
  <2>1. t = After(s, e)
    BY <1>3 DEF Apply
  <2>2. CASE kind = "Denied"
    BY <1>1, <2>1, <2>2 DEF After, Sessions, States
  <2>3. CASE kind = "Opened"
    <3>1. t = IF OpensUsedUp(s) THEN [s EXCEPT !.state = "Closed"]
              ELSE [s EXCEPT !.opens = @ + 1, !.state = "Open"]
      BY <1>1, <2>1, <2>3 DEF After
    <3>2. s.opens + 1 \in Nat
      BY DEF Sessions
    <3>3. CASE OpensUsedUp(s)
      BY <3>1, <3>3 DEF Sessions, States
    <3>4. CASE ~OpensUsedUp(s)
      <4> DEFINE n == s.opens + 1
      <4>1. t = [s EXCEPT !.opens = n, !.state = "Open"] /\ n \in Nat
        BY <3>1, <3>2, <3>4
      <4> HIDE DEF n
      <4> QED
        BY <4>1 DEF Sessions, States
    <3> QED
      BY <3>3, <3>4
  <2>4. CASE kind = "ViewerExited"
    BY <1>1, <2>1, <2>4 DEF After, Sessions, States
  <2>5. CASE kind = "Revoked"
    BY <1>1, <2>1, <2>5 DEF After, Sessions, States
  <2>6. CASE kind = "Expired"
    BY <1>1, <2>1, <2>6 DEF After, Sessions, States
  <2>7. CASE kind = "Failed"
    BY <1>1, <2>1, <2>7 DEF After, Sessions, States
  <2> QED
    BY <2>2, <2>3, <2>4, <2>5, <2>6, <2>7
<1> QED
  BY <1>2, <1>3

\* A grant that is admitted gives its permission and its end.
LEMMA ApplyGranted ==
    ASSUME NEW s \in Sessions, NEW now, NEW a \in AnswerTerms, Admissible(s, GrantedEvent(a), now)
    PROVE  LET t == Apply(s, GrantedEvent(a), now).session IN
           t \in Sessions /\ t.permission = a.permission /\ t.expiry = a.expiry
<1> DEFINE e == GrantedEvent(a)
           t == Apply(s, e, now).session
<1>1. /\ e.kind = "Granted" /\ e.permission = a.permission /\ e.not_before = a.not_before
      /\ e.expiry = a.expiry /\ e.max_opens = a.max_opens
  BY DEF GrantedEvent
<1>2. t = After(s, e)
  BY DEF Apply
<1>3. t = [s EXCEPT !.permission = a.permission, !.not_before = a.not_before,
                    !.expiry = a.expiry, !.max_opens = a.max_opens, !.state = "Granted"]
  BY <1>1, <1>2 DEF After
<1> QED
  BY <1>3 DEF Sessions, States, AnswerTerms

LEMMA NewFacts == NewSession \in Sessions /\ NewSession.permission = NoPermission
                  /\ NewSession.state = "Requested"
BY DEF NewSession, Sessions, States, NoPermission, NoVersion

\* Held and not held are told apart.
LEMMA HeldFacts ==
    /\ NoHeld \notin Held /\ NoHeld.req = 0 /\ NoHeld.session = NewSession
    /\ \A h \in Held : h.req \in Req /\ h.req # 0 /\ h.session \in Sessions
BY RecipientAssumption, NewFacts DEF NoHeld, Held, Req

-----------------------------------------------------------------------------
(***************************************************************************)
(* One step of a task, of a thread, of the world                           *)
(***************************************************************************)

\* What a path holds stays right while the task of its request goes on.
LEMMA HeldStays ==
    ASSUME NEW p, NEW h, HeldFits(p, h), answer' = answer,
           task'[h.req].pc # "free", task'[h.req].path = task[h.req].path
    PROVE  HeldFits(p, h)'
BY DEF HeldFits, Answered

\* A task goes on, with a session its answer accounts for, and may write its copy back.
LEMMA TaskMoved ==
    ASSUME RecipientInv, NEW i \in Req, task[i].pc # "free",
           NEW pc \in TaskPc \ {"free"}, NEW s \in Sessions, TaskStep(i, pc, s),
           pc \in Early => s = NewSession, Answered(i, s),
           active' = active \/ PutHeld(task[i].path, TaskHeld(i)),
           UNCHANGED <<cancel, sessions, slot, clock, opens, answer, landed, pulled, chainPulled>>,
           asked \subseteq asked', asked' \subseteq Req, inbox' \subseteq inbox
    PROVE  RecipientInv'
<1>1. /\ task' \in [Req -> [pc : TaskPc, path : Path \cup {NoPath}, session : Sessions]]
      /\ task'[i].pc = pc /\ task'[i].session = s /\ task'[i].path = task[i].path
      /\ \A j \in Req \ {i} : task'[j] = task[j]
      /\ task[i].session \in Sessions
  BY DEF RecipientInv, TypeOK, TaskStep
<1>2. TaskHeld(i) \in Held /\ TaskHeld(i).req = i /\ TaskHeld(i).session = task[i].session
      /\ task[i].path \in Path /\ Answered(i, task[i].session)
  BY <1>1 DEF TaskHeld, Held, RecipientInv, TaskInv
<1>3. ASSUME NEW p, NEW h, HeldFits(p, h) PROVE HeldFits(p, h)'
  <2>1. h.req \in Req /\ task[h.req].pc # "free"
    BY <1>3, HeldFacts DEF HeldFits
  <2>2. task'[h.req].pc # "free" /\ task'[h.req].path = task[h.req].path
    BY <1>1, <2>1
  <2> QED
    BY <1>3, <2>2, HeldStays
<1>4. HeldFits(task[i].path, TaskHeld(i))
  BY <1>2 DEF HeldFits
<1>5. /\ active' \in [Path -> [req : Req \cup {0}, held : Held \cup {NoHeld}]]
      /\ \A p \in Path : active'[p].held = active[p].held \/ (p = task[i].path /\ active'[p].held = TaskHeld(i))
  BY <1>2 DEF RecipientInv, TypeOK, PutHeld
<1>6. TypeOK'
  BY <1>1, <1>5 DEF RecipientInv, TypeOK
<1>7. TaskInv'
  BY <1>1, <1>2 DEF RecipientInv, TaskInv, Answered
<1>8. HeldInv'
  <2>1. ASSUME NEW p \in Path PROVE (active[p].held = NoHeld \/ HeldFits(p, active[p].held))'
    BY <1>3, <1>4, <1>5 DEF RecipientInv, HeldInv, HeldFits, Answered
  <2>2. ASSUME NEW o \in Slot, slot[o].pc # "free"
        PROVE  slot[o].path \in Path /\ HeldFits(slot[o].path, slot[o].held)'
    BY <1>3, <2>2 DEF RecipientInv, HeldInv
  <2>3. ASSUME NEW o \in Slot, slot[o].pc = "free" PROVE slot[o].held = NoHeld
    BY <2>3 DEF RecipientInv, HeldInv
  <2> QED
    BY <2>1, <2>2, <2>3 DEF HeldInv
<1>9. MailInv' /\ CountInv'
  BY DEF RecipientInv, MailInv, CountInv, Started, GrantMsg
<1> QED
  BY <1>6, <1>7, <1>8, <1>9 DEF RecipientInv

\* A thread goes on with its clone; it counts when it starts and writes back at the end.
LEMMA SlotMoved ==
    ASSUME RecipientInv, NEW o \in Slot, slot[o].pc # "free",
           NEW pc \in SlotPc \ {"free"}, NEW s \in Sessions,
           s.permission = slot[o].held.session.permission, s.expiry = slot[o].held.session.expiry,
           slot' = [slot EXCEPT ![o].pc = pc, ![o].held.session = s],
           slot[o].pc \in {"open", "back", "ended"} => pc \in {"open", "back", "ended"},
           active' = active \/ PutHeld(slot[o].path, slot[o].held),
           sessions' \subseteq Path,
           UNCHANGED <<task, cancel, inbox, owner, clock>>,
           \/ opens' = opens
           \/ /\ slot[o].pc = "start" /\ pc \in {"open", "back", "ended"}
              /\ opens' = [opens EXCEPT ![slot[o].held.req] = @ + 1]
    PROVE  RecipientInv'
<1> DEFINE p == slot[o].path
           h == slot[o].held
           g == [h EXCEPT !.session = s]
<1>1. p \in Path /\ HeldFits(p, h) /\ h \in Held /\ h.req \in Req
  BY HeldFacts DEF RecipientInv, HeldInv, HeldFits
<1>2. g \in Held /\ g.req = h.req /\ g.session = s
  BY <1>1 DEF Held
<1>3. /\ slot' \in [Slot -> [pc : SlotPc, path : Path \cup {NoPath}, held : Held \cup {NoHeld}]]
      /\ slot'[o].pc = pc /\ slot'[o].path = p /\ slot'[o].held = g
      /\ \A n \in Slot \ {o} : slot'[n] = slot[n]
  <2>1. slot \in [Slot -> [pc : SlotPc, path : Path \cup {NoPath}, held : Held \cup {NoHeld}]]
    BY DEF RecipientInv, TypeOK
  <2>2. slot'[o] = [slot[o] EXCEPT !.pc = pc, !.held = g]
    BY <2>1
  <2>3. [slot[o] EXCEPT !.pc = pc, !.held = g] \in [pc : SlotPc, path : Path \cup {NoPath}, held : Held \cup {NoHeld}]
    BY <1>2, <2>1
  <2>4. \A n \in Slot \ {o} : slot'[n] = slot[n]
    BY <2>1
  <2>5. slot' = [slot EXCEPT ![o] = [slot[o] EXCEPT !.pc = pc, !.held = g]]
    BY <2>1
  <2>6. slot' \in [Slot -> [pc : SlotPc, path : Path \cup {NoPath}, held : Held \cup {NoHeld}]]
    BY <2>1, <2>3, <2>5
  <2> QED
    BY <2>1, <2>2, <2>4, <2>6
<1>4. UNCHANGED <<asked, answer, landed, pulled, chainPulled>>
  BY DEF owner
<1>5. \A q, k : HeldFits(q, k) => HeldFits(q, k)'
  BY <1>4 DEF HeldFits, Answered
<1>6. HeldFits(p, g)
  BY <1>1, <1>2 DEF HeldFits, Answered
<1>7. /\ active' \in [Path -> [req : Req \cup {0}, held : Held \cup {NoHeld}]]
      /\ \A q \in Path : active'[q].held = active[q].held \/ (q = p /\ active'[q].held = h)
  BY <1>1 DEF RecipientInv, TypeOK, PutHeld
<1>8. HeldInv'
  <2>1. ASSUME NEW q \in Path PROVE (active[q].held = NoHeld \/ HeldFits(q, active[q].held))'
    BY <1>1, <1>5, <1>7 DEF RecipientInv, HeldInv, HeldFits, Answered
  <2>2. ASSUME NEW n \in Slot, slot'[n].pc # "free"
        PROVE  (slot[n].path \in Path /\ HeldFits(slot[n].path, slot[n].held))'
    <3>1. PICK q, k : q = slot'[n].path /\ k = slot'[n].held
      OBVIOUS
    <3>2. q \in Path /\ HeldFits(q, k)
      <4>1. CASE n = o
        BY <1>1, <1>3, <1>6, <3>1, <4>1
      <4>2. CASE n # o
        BY <1>3, <2>2, <3>1, <4>2 DEF RecipientInv, HeldInv
      <4> QED
        BY <4>1, <4>2
    <3>3. HeldFits(q, k)'
      BY <1>5, <3>2
    <3> QED
      BY <3>1, <3>2, <3>3 DEF HeldFits, Answered
  <2>3. ASSUME NEW n \in Slot, slot'[n].pc = "free" PROVE slot'[n].held = NoHeld
    BY <1>3, <2>3 DEF RecipientInv, HeldInv
  <2> QED
    BY <2>1, <2>2, <2>3 DEF HeldInv
<1>9. TaskInv' /\ MailInv'
  BY <1>4 DEF RecipientInv, TaskInv, Answered, MailInv, GrantMsg
<1>10. CountInv' /\ opens' \in [Req -> 0 .. MaxOpens]
  <2>1. IsFiniteSet(Slot) /\ Cardinality(Slot) = MaxOpens /\ MaxOpens \in Nat
    <3>1. 1 \in Int /\ MaxOpens \in Int /\ MaxOpens \in Nat
      BY RecipientAssumption
    <3>2. IsFiniteSet(1 .. MaxOpens)
          /\ Cardinality(1 .. MaxOpens) = IF 1 > MaxOpens THEN 0 ELSE MaxOpens - 1 + 1
      BY <3>1, FS_Interval
    <3> QED
      BY <3>1, <3>2 DEF Slot
  <2>2. /\ IsFiniteSet(Started) /\ IsFiniteSet(Started')
        /\ Cardinality(Started) \in Nat /\ Cardinality(Started') \in Nat
        /\ Cardinality(Started') <= MaxOpens
    <3>1. Started \subseteq Slot /\ Started' \subseteq Slot
      BY DEF Started
    <3> QED
      BY <2>1, <3>1, FS_Subset, FS_CardinalityType
  <2>3. Started \subseteq Started'
    BY <1>3 DEF Started
  <2>4. Cardinality(Started) <= Cardinality(Started')
    BY <2>2, <2>3, FS_Subset
  <2>5. opens \in [Req -> 0 .. MaxOpens] /\ \A i \in Req : opens[i] <= Cardinality(Started)
    BY DEF RecipientInv, TypeOK, CountInv
  <2>6. CASE opens' = opens
    BY <2>2, <2>4, <2>5, <2>6 DEF CountInv
  <2>7. CASE slot[o].pc = "start" /\ pc \in {"open", "back", "ended"}
             /\ opens' = [opens EXCEPT ![slot[o].held.req] = @ + 1]
    <3>1. Started' = Started \cup {o} /\ o \notin Started
      BY <1>3, <2>7 DEF Started
    <3>2. Cardinality(Started') = Cardinality(Started) + 1
      BY <2>2, <3>1, FS_AddElement
    <3>3. ASSUME NEW i \in Req PROVE opens'[i] \in Nat /\ opens'[i] <= Cardinality(Started')
      BY <1>1, <2>2, <2>5, <2>7, <3>2
    <3>4. opens' \in [Req -> 0 .. MaxOpens]
      <4>1. \A i \in Req : opens'[i] \in 0 .. MaxOpens
        BY <2>1, <2>2, <3>3
      <4> QED
        BY <2>5, <2>7, <4>1
    <3> QED
      BY <3>3, <3>4 DEF CountInv
  <2> QED
    BY <2>6, <2>7
<1>11. TypeOK'
  <2>1. \A n \in Slot : slot'[n].pc # "free" => slot'[n].held \in Held
    BY <1>2, <1>3 DEF RecipientInv, TypeOK
  <2> QED
    BY <1>3, <1>4, <1>7, <1>10, <2>1 DEF RecipientInv, TypeOK
<1> QED
  BY <1>8, <1>9, <1>10, <1>11 DEF RecipientInv

-----------------------------------------------------------------------------
(***************************************************************************)
(* Every action keeps the invariant                                        *)
(***************************************************************************)
LEMMA CommandStep == ASSUME RecipientInv, Command PROVE RecipientInv'
<1>1. ASSUME NEW p \in Path, NEW i \in Req, request_access(p, i) PROVE RecipientInv'
  <2>0. /\ UNCHANGED <<cancel, sessions, slot, inbox, asked, answer, landed, pulled, chainPulled, clock, opens>>
        /\ task[i].pc = "free"
    BY <1>1 DEF request_access, owner
  <2>1. /\ task' \in [Req -> [pc : TaskPc, path : Path \cup {NoPath}, session : Sessions]]
        /\ task'[i] = [pc |-> "sending", path |-> p, session |-> NewSession]
        /\ \A j \in Req \ {i} : task'[j] = task[j]
    BY <1>1, NewFacts DEF request_access, RecipientInv, TypeOK, TaskPc
  <2>2. /\ active' \in [Path -> [req : Req \cup {0}, held : Held \cup {NoHeld}]]
        /\ \A q \in Path : active'[q].held = NoHeld \/ active'[q].held = active[q].held
    BY <1>1 DEF request_access, RecipientInv, TypeOK
  <2>3. ASSUME NEW q, NEW h, HeldFits(q, h) PROVE HeldFits(q, h)'
    <3>1. h.req \in Req \ {i}
      BY <2>0, <2>3, HeldFacts DEF HeldFits
    <3> QED
      BY <2>0, <2>1, <2>3, <3>1, HeldStays DEF HeldFits
  <2>4. TypeOK' /\ MailInv' /\ CountInv'
    BY <2>0, <2>1, <2>2 DEF RecipientInv, TypeOK, MailInv, CountInv, Started, GrantMsg
  <2>5. TaskInv'
    BY <2>0, <2>1, NewFacts DEF RecipientInv, TaskInv, Answered
  <2>6. HeldInv'
    <3>1. ASSUME NEW q \in Path PROVE (active[q].held = NoHeld \/ HeldFits(q, active[q].held))'
      BY <2>2, <2>3 DEF RecipientInv, HeldInv, HeldFits, Answered
    <3>2. ASSUME NEW o \in Slot, slot[o].pc # "free"
          PROVE  slot[o].path \in Path /\ HeldFits(slot[o].path, slot[o].held)'
      BY <2>0, <2>3, <3>2 DEF RecipientInv, HeldInv, HeldFits, Answered
    <3>3. ASSUME NEW o \in Slot, slot[o].pc = "free" PROVE slot[o].held = NoHeld
      BY <3>3 DEF RecipientInv, HeldInv
    <3> QED
      BY <2>0, <3>1, <3>2, <3>3 DEF HeldInv
  <2> QED
    BY <2>4, <2>5, <2>6 DEF RecipientInv
<1>2. ASSUME NEW p \in Path, cancel_request(p) PROVE RecipientInv'
  <2>1. cancel' \in [Req -> BOOLEAN]
    BY <1>2 DEF cancel_request, RecipientInv, TypeOK
  <2>2. UNCHANGED <<task, active, sessions, slot, inbox, asked, answer, landed, pulled, chainPulled, clock, opens>>
    BY <1>2 DEF cancel_request, owner
  <2>3. TypeOK' /\ MailInv' /\ CountInv'
    BY <2>1, <2>2 DEF RecipientInv, TypeOK, MailInv, CountInv, Started, GrantMsg
  <2>4. TaskInv' /\ HeldInv'
    BY <2>2 DEF RecipientInv, TaskInv, HeldInv, HeldFits, Answered
  <2> QED
    BY <2>3, <2>4 DEF RecipientInv
<1>3. ASSUME NEW p \in Path, NEW o \in Slot, open_file(p, o) PROVE RecipientInv'
  <2> DEFINE h == active[p].held
  <2>0. UNCHANGED <<task, cancel, active, sessions, inbox, asked, answer, landed, pulled, chainPulled, clock, opens>>
    BY <1>3 DEF open_file, owner
  <2>1. h \in Held /\ HeldFits(p, h) /\ slot[o].pc = "free"
    <3>1. h # NoHeld /\ slot[o].pc = "free"
      BY <1>3, HeldFacts, NewFacts DEF open_file
    <3> QED
      BY <3>1 DEF RecipientInv, HeldInv, HeldFits
  <2>2. /\ slot' \in [Slot -> [pc : SlotPc, path : Path \cup {NoPath}, held : Held \cup {NoHeld}]]
        /\ slot'[o] = [pc |-> "check", path |-> p, held |-> h]
        /\ \A n \in Slot \ {o} : slot'[n] = slot[n]
    BY <1>3, <2>1 DEF open_file, RecipientInv, TypeOK, SlotPc
  <2>3. Started' = Started
    BY <2>1, <2>2 DEF Started
  <2>4. TypeOK'
    BY <2>0, <2>1, <2>2 DEF RecipientInv, TypeOK
  <2>5. TaskInv' /\ MailInv' /\ CountInv'
    BY <2>0, <2>3 DEF RecipientInv, TaskInv, MailInv, CountInv, Answered, GrantMsg
  <2>6. HeldInv'
    <3>1. \A q, k : HeldFits(q, k) => HeldFits(q, k)'
      BY <2>0 DEF HeldFits, Answered
    <3>2. ASSUME NEW q \in Path PROVE active[q].held = NoHeld \/ HeldFits(q, active[q].held)'
      BY <2>0, <3>1 DEF RecipientInv, HeldInv, HeldFits, Answered
    <3>3. ASSUME NEW n \in Slot
          PROVE  (IF slot[n].pc = "free" THEN slot[n].held = NoHeld
                  ELSE slot[n].path \in Path /\ HeldFits(slot[n].path, slot[n].held))'
      <4>1. CASE n # o
        BY <2>2, <3>1, <4>1 DEF RecipientInv, HeldInv, HeldFits, Answered
      <4>2. CASE n = o
        <5>1. PICK k : k = h
          OBVIOUS
        <5>2. HeldFits(p, k)'
          BY <2>1, <3>1, <5>1
        <5>3. slot'[n].pc = "check" /\ slot'[n].path = p /\ slot'[n].held = k
          BY <2>2, <4>2, <5>1
        <5> QED
          BY <5>2, <5>3 DEF HeldFits, Answered
      <4> QED
        BY <4>1, <4>2
    <3> QED
      BY <2>0, <3>2, <3>3 DEF HeldInv
  <2> QED
    BY <2>4, <2>5, <2>6 DEF RecipientInv
<1> QED
  BY <1>1, <1>2, <1>3 DEF Command

\* What the task of a request does, by what it leaves in the session.
LEMMA TaskSteps ==
    ASSUME RecipientInv, NEW i \in Req, Task(i) \/ AskGivesUp(i) \/ GuardRevokedOnChain(i)
    PROVE  RecipientInv'
<1> DEFINE s == task[i].session
<1>0. /\ s \in Sessions /\ Answered(i, s)
      /\ task[i].pc \in Early => s = NewSession
      /\ asked \subseteq Req /\ NewSession \in Sessions
  BY NewFacts DEF RecipientInv, TypeOK, TaskInv
<1>1. ASSUME NEW kind \in {"Denied", "Revoked", "Expired", "Failed"}
      PROVE  Fed(i, Event(kind)) \in Sessions /\ Answered(i, Fed(i, Event(kind)))
  BY <1>0, ApplyPlain DEF Fed, Answered
<1>2. CASE SendRequest(i)
  <2>1. TaskStep(i, "asking", s) /\ task[i].pc = "sending" /\ asked' = asked \cup {i}
        /\ UNCHANGED <<inbox, answer, landed, pulled, chainPulled, cancel, active, sessions, slot, clock, opens>>
    BY <1>2 DEF SendRequest, taskOnly
  <2> QED
    BY <1>0, <2>1, TaskMoved DEF TaskPc, Early
<1>3. CASE SendFails(i)
  <2>1. TaskStep(i, "record", Fed(i, Event("Failed"))) /\ task[i].pc = "sending"
        /\ asked' \in {asked, asked \cup {i}}
        /\ UNCHANGED <<inbox, answer, landed, pulled, chainPulled, cancel, active, sessions, slot, clock, opens>>
    BY <1>3 DEF SendFails, taskOnly
  <2> QED
    BY <1>0, <1>1, <2>1, TaskMoved DEF TaskPc, Early
<1>4. CASE AskCancelled(i)
  <2>1. TaskStep(i, "record", Fed(i, Event("Failed"))) /\ task[i].pc = "asking"
        /\ UNCHANGED <<inbox, asked, answer, landed, pulled, chainPulled, cancel, active, sessions, slot, clock, opens>>
    BY <1>4 DEF AskCancelled, taskOnly, owner
  <2> QED
    BY <1>0, <1>1, <2>1, TaskMoved DEF TaskPc, Early
<1>5. CASE AskGivesUp(i)
  <2>1. TaskStep(i, "record", Fed(i, Event("Expired"))) /\ task[i].pc = "asking"
        /\ UNCHANGED <<inbox, asked, answer, landed, pulled, chainPulled, cancel, active, sessions, slot, clock, opens>>
    BY <1>5 DEF AskGivesUp, taskOnly, owner
  <2> QED
    BY <1>0, <1>1, <2>1, TaskMoved DEF TaskPc, Early
<1>6. CASE AskReads(i)
  <2>1. TaskStep(i, "polling", s) /\ task[i].pc = "asking"
        /\ UNCHANGED <<inbox, asked, answer, landed, pulled, chainPulled, cancel, active, sessions, slot, clock, opens>>
    BY <1>6 DEF AskReads, taskOnly, owner
  <2> QED
    BY <1>0, <2>1, TaskMoved DEF TaskPc, Early
<1>7. CASE AskHearsNothing(i)
  <2>1. TaskStep(i, "asking", s) /\ task[i].pc = "polling" /\ inbox' \subseteq inbox
        /\ UNCHANGED <<asked, answer, landed, pulled, chainPulled, cancel, active, sessions, slot, clock, opens>>
    BY <1>7 DEF AskHearsNothing, taskOnly, owner
  <2> QED
    BY <1>0, <2>1, TaskMoved DEF TaskPc, Early
<1>8. CASE AskHears(i)
  <2>1. PICK m \in classify(i), word \in ChainWord(i) :
           LET e == AnswerEvent(answer[m.req], word) IN
           TaskStep(i, "record", IF Admissible(s, e, clock) THEN Fed(i, e) ELSE Fed(i, Event("Failed")))
    BY <1>8 DEF AskHears
  <2>2. m.req = i /\ GrantMsg(i) \in inbox
    BY <2>1 DEF classify, GrantMsg
  <2>3. answer[i] # NoAnswer /\ answer[i] \in AnswerTerms
    BY <2>2 DEF RecipientInv, MailInv, TypeOK
  <2> DEFINE e == AnswerEvent(answer[i], word)
             t == IF Admissible(s, e, clock) THEN Fed(i, e) ELSE Fed(i, Event("Failed"))
  <2>4. t \in Sessions /\ Answered(i, t)
    <3>1. CASE ~Admissible(s, e, clock)
      BY <1>1, <3>1
    <3>2. CASE Admissible(s, e, clock)
      <4>1. \/ e \in {Event("Denied"), Event("Failed")}
            \/ e = GrantedEvent(answer[i]) /\ answer[i].fits
        BY DEF AnswerEvent
      <4>2. CASE e = GrantedEvent(answer[i]) /\ answer[i].fits
        BY <1>0, <2>3, <3>2, <4>2, ApplyGranted DEF Fed, Answered
      <4> QED
        BY <1>1, <3>2, <4>1, <4>2
    <3> QED
      BY <3>1, <3>2
  <2>5. TaskStep(i, "record", t) /\ task[i].pc = "polling" /\ inbox' \subseteq inbox
        /\ UNCHANGED <<asked, answer, landed, pulled, chainPulled, cancel, active, sessions, slot, clock, opens>>
    BY <1>8, <2>1, <2>2 DEF AskHears, taskOnly, owner
  <2> HIDE DEF t
  <2> QED
    BY <1>0, <2>4, <2>5, TaskMoved DEF TaskPc, Early
<1>9. CASE Record(i)
  <2>1. PICK pc \in {"guard", "over"} : TaskStep(i, pc, s)
    BY <1>9 DEF Record
  <2>2. task[i].pc = "record" /\ PutHeld(task[i].path, TaskHeld(i))
        /\ UNCHANGED <<inbox, asked, answer, landed, pulled, chainPulled, cancel, sessions, slot, clock, opens>>
    BY <1>9 DEF Record, guardOnly, owner
  <2> QED
    BY <1>0, <2>1, <2>2, TaskMoved DEF TaskPc, Early
<1>10. CASE GuardCancelled(i)
  <2>1. TaskStep(i, "writeback", s) /\ task[i].pc = "guard"
        /\ UNCHANGED <<inbox, asked, answer, landed, pulled, chainPulled, cancel, active, sessions, slot, clock, opens>>
    BY <1>10 DEF GuardCancelled, taskOnly, owner
  <2> QED
    BY <1>0, <2>1, TaskMoved DEF TaskPc, Early
<1>11. CASE GuardExpired(i) \/ GuardRevokedOnChain(i)
  <2>1. PICK kind \in {"Expired", "Revoked"} : TaskStep(i, "writeback", Fed(i, Event(kind)))
    BY <1>11 DEF GuardExpired, GuardRevokedOnChain
  <2>2. task[i].pc = "guard"
        /\ UNCHANGED <<inbox, asked, answer, landed, pulled, chainPulled, cancel, active, sessions, slot, clock, opens>>
    BY <1>11 DEF GuardExpired, GuardRevokedOnChain, taskOnly, owner
  <2> QED
    BY <1>0, <1>1, <2>1, <2>2, TaskMoved DEF TaskPc, Early
<1>12. CASE GuardReads(i)
  <2>1. TaskStep(i, "drain", s) /\ task[i].pc = "guard"
        /\ UNCHANGED <<inbox, asked, answer, landed, pulled, chainPulled, cancel, active, sessions, slot, clock, opens>>
    BY <1>12 DEF GuardReads, taskOnly, owner
  <2> QED
    BY <1>0, <2>1, TaskMoved DEF TaskPc, Early
<1>13. CASE GuardPolls(i)
  <2>1. task[i].pc = "drain" /\ inbox' \subseteq inbox
        /\ UNCHANGED <<asked, answer, landed, pulled, chainPulled, cancel, active, sessions, slot, clock, opens>>
        /\ (TaskStep(i, "guard", s) \/ TaskStep(i, "writeback", Fed(i, Event("Revoked"))))
    BY <1>13 DEF GuardPolls, taskOnly, owner
  <2>2. CASE TaskStep(i, "guard", s)
    BY <1>0, <2>1, <2>2, TaskMoved DEF TaskPc, Early
  <2>3. CASE TaskStep(i, "writeback", Fed(i, Event("Revoked")))
    BY <1>0, <1>1, <2>1, <2>3, TaskMoved DEF TaskPc, Early
  <2> QED
    BY <2>1, <2>2, <2>3
<1>14. CASE WriteBack(i)
  <2>1. TaskStep(i, "over", s) /\ task[i].pc = "writeback" /\ PutHeld(task[i].path, TaskHeld(i))
        /\ UNCHANGED <<inbox, asked, answer, landed, pulled, chainPulled, cancel, sessions, slot, clock, opens>>
    BY <1>14 DEF WriteBack, guardOnly, owner
  <2> QED
    BY <1>0, <2>1, TaskMoved DEF TaskPc, Early
<1> QED
  BY <1>2, <1>3, <1>4, <1>5, <1>6, <1>7, <1>8, <1>9, <1>10, <1>11, <1>12, <1>13, <1>14 DEF Task

LEMMA ThreadSteps ==
    ASSUME RecipientInv, NEW o \in Slot, Thread(o) \/ RunCloses(o) PROVE RecipientInv'
<1> DEFINE s == slot[o].held.session
           Quiet == UNCHANGED <<task, cancel, inbox, owner, clock>>
           Fits(t) == t \in Sessions /\ t.permission = s.permission /\ t.expiry = s.expiry
<1>0. /\ slot[o].pc # "free" => slot[o].path \in Path /\ slot[o].held \in Held /\ Fits(s)
      /\ sessions \subseteq Path
      /\ slot \in [Slot -> [pc : SlotPc, path : Path \cup {NoPath}, held : Held \cup {NoHeld}]]
  BY HeldFacts DEF RecipientInv, TypeOK, HeldInv
\* A step that leaves the clone's session alone.
<1>1. ASSUME NEW pc \in SlotPc, slot[o].pc # "free", slot' = [slot EXCEPT ![o].pc = pc]
      PROVE  \E t : Fits(t) /\ slot' = [slot EXCEPT ![o].pc = pc, ![o].held.session = t]
  <2>1. slot' = [slot EXCEPT ![o].pc = pc, ![o].held.session = s]
    BY <1>0, <1>1 DEF Held
  <2> QED
    BY <1>0, <1>1, <2>1
<1>2. ASSUME NEW pc, NEW kind \in {"Opened", "ViewerExited", "Failed", "Revoked", "Expired"},
             slot[o].pc # "free", SlotStep(o, pc, Event(kind))
      PROVE  \E t : Fits(t) /\ slot' = [slot EXCEPT ![o].pc = pc, ![o].held.session = t]
  <2> DEFINE t == Apply(s, Event(kind), clock).session
  <2>1. Fits(t)
    BY <1>0, <1>2, ApplyPlain
  <2>2. slot' = [slot EXCEPT ![o].pc = pc, ![o].held.session = t]
    BY <1>2 DEF SlotStep
  <2> HIDE DEF t
  <2> QED
    BY <2>1, <2>2
<1>3. CASE OpenCheck(o)
  <2>1. PICK pc \in {"ended", "insert"} : slot' = [slot EXCEPT ![o].pc = pc]
    BY <1>3 DEF OpenCheck
  <2>2. slot[o].pc = "check" /\ Quiet /\ UNCHANGED <<active, sessions, opens>>
    BY <1>3 DEF OpenCheck
  <2>3. PICK t : Fits(t) /\ slot' = [slot EXCEPT ![o].pc = pc, ![o].held.session = t]
    BY <1>1, <2>1, <2>2 DEF SlotPc
  <2> QED
    BY <1>0, <2>2, <2>3, SlotMoved DEF SlotPc
<1>4. CASE OpenInsert(o)
  <2>1. slot[o].pc = "insert" /\ slot' = [slot EXCEPT ![o].pc = "start"] /\ Quiet
        /\ sessions' = sessions \cup {slot[o].path} /\ UNCHANGED <<active, opens>>
    BY <1>4 DEF OpenInsert
  <2>2. PICK t : Fits(t) /\ slot' = [slot EXCEPT ![o].pc = "start", ![o].held.session = t]
    BY <1>1, <2>1 DEF SlotPc
  <2>3. slot[o].pc = "insert" /\ Quiet /\ active' = active /\ sessions' \subseteq Path /\ opens' = opens
    BY <1>0, <2>1
  <2> HIDE DEF Quiet
  <2> QED
    BY <1>0, <2>2, <2>3, SlotMoved DEF SlotPc, Quiet
<1>5. CASE RunRefused(o)
  <2>1. slot[o].pc = "start" /\ slot' = [slot EXCEPT ![o].pc = "back"] /\ Quiet
        /\ UNCHANGED <<active, sessions, opens>>
    BY <1>5 DEF RunRefused, slotOnly
  <2>2. PICK t : Fits(t) /\ slot' = [slot EXCEPT ![o].pc = "back", ![o].held.session = t]
    BY <1>1, <2>1 DEF SlotPc
  <2>3. slot[o].pc = "start" /\ Quiet /\ active' = active /\ sessions' \subseteq Path /\ opens' = opens
    BY <1>0, <2>1
  <2> HIDE DEF Quiet
  <2> QED
    BY <1>0, <2>2, <2>3, SlotMoved DEF SlotPc, Quiet
<1>6. CASE RunStarts(o)
  <2>1. PICK pc \in {"open", "back"} : SlotStep(o, pc, Event("Opened"))
    BY <1>6 DEF RunStarts
  <2>2. slot[o].pc = "start" /\ Quiet /\ UNCHANGED <<active, sessions>>
        /\ opens' = [opens EXCEPT ![slot[o].held.req] = @ + 1]
    BY <1>6 DEF RunStarts, slotOnly
  <2>3. PICK t : Fits(t) /\ slot' = [slot EXCEPT ![o].pc = pc, ![o].held.session = t]
    BY <1>2, <2>1, <2>2
  <2> QED
    BY <1>0, <2>2, <2>3, SlotMoved DEF SlotPc
<1>7. CASE RunCloses(o) \/ RunSeesEnd(o) \/ RunExpires(o)
  <2>1. PICK kind \in {"ViewerExited", "Failed", "Revoked", "Expired"} : SlotStep(o, "back", Event(kind))
    BY <1>7 DEF RunCloses, RunSeesEnd, RunExpires
  <2>2. slot[o].pc = "open" /\ Quiet /\ UNCHANGED <<active, sessions, opens>>
    BY <1>7 DEF RunCloses, RunSeesEnd, RunExpires, slotOnly
  <2>3. PICK t : Fits(t) /\ slot' = [slot EXCEPT ![o].pc = "back", ![o].held.session = t]
    BY <1>2, <2>1, <2>2
  <2> QED
    BY <1>0, <2>2, <2>3, SlotMoved DEF SlotPc
<1>8. CASE OpenBack(o)
  <2>1. slot[o].pc = "back" /\ slot' = [slot EXCEPT ![o].pc = "ended"] /\ Quiet
        /\ PutHeld(slot[o].path, slot[o].held) /\ sessions' = sessions \ {slot[o].path}
        /\ UNCHANGED opens
    BY <1>8 DEF OpenBack, slotOnly
  <2>2. PICK t : Fits(t) /\ slot' = [slot EXCEPT ![o].pc = "ended", ![o].held.session = t]
    BY <1>1, <2>1 DEF SlotPc
  <2> QED
    BY <1>0, <2>1, <2>2, SlotMoved DEF SlotPc
<1> QED
  BY <1>3, <1>4, <1>5, <1>6, <1>7, <1>8 DEF Thread

\* The owner answers a request once, so an answer that was used stays what it was.
LEMMA EnvironmentStep == ASSUME RecipientInv, Environment PROVE RecipientInv'
<1>1. ASSUME UNCHANGED <<task, cancel, active, sessions, slot, opens>>,
             inbox' \subseteq [kind : {"Grant", "Revoke"}, req : Req], UNCHANGED asked,
             answer' \in [Req -> AnswerTerms \cup {NoAnswer}],
             \A i \in Req : answer[i] # NoAnswer => answer'[i] = answer[i],
             landed' \subseteq Req, pulled' \subseteq Req, chainPulled' \subseteq landed',
             clock' \in 0 .. MaxTime, MailInv'
      PROVE  RecipientInv'
  <2>1. TypeOK'
    BY <1>1 DEF RecipientInv, TypeOK
  <2>2. \A i \in Req : \A s : Answered(i, s) => Answered(i, s)'
    BY <1>1 DEF Answered
  <2>3. TaskInv' /\ CountInv'
    BY <1>1, <2>2 DEF RecipientInv, TaskInv, CountInv, Started, Answered
  <2>4. \A p, h : HeldFits(p, h) => HeldFits(p, h)'
    BY <1>1, <2>2, HeldFacts DEF HeldFits
  <2>5. HeldInv'
    BY <1>1, <2>4 DEF RecipientInv, HeldInv, HeldFits, Answered
  <2> QED
    BY <1>1, <2>1, <2>3, <2>5 DEF RecipientInv
<1>2. ASSUME NEW i \in Req, NEW a \in Answers, OwnerAnswers(i, a) PROVE RecipientInv'
  <2>1. a \in AnswerTerms /\ a # NoAnswer
    BY RecipientAssumption DEF AnswerTerms, NoAnswer, NoPermission, Permissions
  <2>2. /\ answer' \in [Req -> AnswerTerms \cup {NoAnswer}] /\ answer'[i] = a
        /\ \A j \in Req \ {i} : answer'[j] = answer[j]
        /\ answer[i] = NoAnswer /\ i \in asked
    BY <1>2, <2>1 DEF OwnerAnswers, RecipientInv, TypeOK
  <2>3. inbox' = inbox \cup {GrantMsg(i)} /\ GrantMsg(i) \in [kind : {"Grant", "Revoke"}, req : Req]
    BY <1>2 DEF OwnerAnswers, GrantMsg
  <2>4. MailInv'
    <3>1. \A j \in Req : GrantMsg(j) = GrantMsg(i) => j = i
      BY DEF GrantMsg
    <3>2. UNCHANGED asked
      BY <1>2 DEF OwnerAnswers
    <3> QED
      BY <2>1, <2>2, <2>3, <3>1, <3>2 DEF RecipientInv, MailInv, GrantMsg
  <2> QED
    BY <1>1, <1>2, <2>2, <2>3, <2>4 DEF OwnerAnswers, RecipientInv, TypeOK
<1>3. ASSUME NEW i \in Req, OwnerRevokes(i) PROVE RecipientInv'
  <2>1. inbox' = inbox \cup {RevokeMsg(i)} /\ RevokeMsg(i) \in [kind : {"Grant", "Revoke"}, req : Req]
        /\ \A j \in Req : GrantMsg(j) # RevokeMsg(i)
    BY <1>3 DEF OwnerRevokes, RevokeMsg, GrantMsg
  <2>2. UNCHANGED <<answer, asked>>
    BY <1>3 DEF OwnerRevokes
  <2>3. MailInv'
    BY <2>1, <2>2 DEF RecipientInv, MailInv, GrantMsg
  <2> QED
    BY <1>1, <1>3, <2>1, <2>3 DEF OwnerRevokes, RecipientInv, TypeOK
<1>4. ASSUME NEW i \in Req, RevokeLands(i) PROVE RecipientInv'
  <2>1. MailInv'
    BY <1>4 DEF RevokeLands, RecipientInv, MailInv, GrantMsg
  <2> QED
    BY <1>1, <1>4, <2>1 DEF RevokeLands, RecipientInv, TypeOK
<1>5. CASE RelayForgets
  <2>1. MailInv'
    BY <1>5 DEF RelayForgets, owner, RecipientInv, MailInv
  <2> QED
    BY <1>1, <1>5, <2>1 DEF RelayForgets, owner, RecipientInv, TypeOK
<1>6. CASE Tick
  <2>1. MailInv'
    BY <1>6 DEF Tick, owner, RecipientInv, MailInv, GrantMsg
  <2>2. clock' \in 0 .. MaxTime
    BY <1>6, RecipientAssumption DEF Tick, RecipientInv, TypeOK
  <2> QED
    BY <1>1, <1>6, <2>1, <2>2 DEF Tick, owner, RecipientInv, TypeOK
<1> QED
  BY <1>2, <1>3, <1>4, <1>5, <1>6 DEF Environment

-----------------------------------------------------------------------------
(***************************************************************************)
(* The theorems                                                            *)
(***************************************************************************)
LEMMA RecipientInvariance == Spec => []RecipientInv
<1>1. Init => RecipientInv
  <2> SUFFICES ASSUME Init PROVE RecipientInv
    OBVIOUS
  <2>1. TypeOK
    BY RecipientAssumption, NewFacts DEF Init, TypeOK, TaskPc, SlotPc
  <2>2. TaskInv /\ HeldInv /\ MailInv
    BY NewFacts DEF Init, TaskInv, HeldInv, MailInv, Answered
  <2>3. CountInv
    <3>1. Started = {}
      BY DEF Init, Started
    <3> QED
      BY <3>1, FS_EmptySet DEF Init, CountInv
  <2> QED
    BY <2>1, <2>2, <2>3 DEF RecipientInv
<1>2. RecipientInv /\ [Next]_vars => RecipientInv'
  <2> SUFFICES ASSUME RecipientInv, [Next]_vars PROVE RecipientInv'
    OBVIOUS
  <2>1. CASE Next
    BY <2>1, CommandStep, TaskSteps, ThreadSteps, EnvironmentStep DEF Next
  <2>2. CASE UNCHANGED vars
    <3>1. UNCHANGED <<task, cancel, active, sessions, slot, inbox, asked, answer, landed, pulled,
                      chainPulled, clock, opens>>
      BY <2>2 DEF vars
    <3>2. TypeOK' /\ CountInv'
      BY <3>1 DEF RecipientInv, TypeOK, CountInv, Started
    <3>3. TaskInv' /\ HeldInv' /\ MailInv'
      BY <3>1 DEF RecipientInv, TaskInv, HeldInv, HeldFits, MailInv, Answered, GrantMsg
    <3> QED
      BY <3>2, <3>3 DEF RecipientInv
  <2> QED
    BY <2>1, <2>2
<1> QED
  BY <1>1, <1>2, PTL DEF Spec

\* The maps, tasks and threads of request.rs and session.rs keep their types: a thread always
\* runs on a grant that is held, and no grant is opened more often than there are threads.
THEOREM RecipientTypeTheorem == Spec => []TypeOK
<1>1. RecipientInv => TypeOK
  BY DEF RecipientInv
<1> QED
  BY <1>1, RecipientInvariance, PTL

\* Whatever task reads the shared inbox and whoever writes its clone of a Held back last, a
\* permission is the one the owner gave to that very request, in terms about it, and a path holds
\* only answers about itself (request.rs, classify and the maps; session.rs, open_file).
THEOREM GrantedTheorem == Spec => []GrantedByOwner
<1>1. RecipientInv => GrantedByOwner
  <2> SUFFICES ASSUME RecipientInv PROVE GrantedByOwner
    OBVIOUS
  <2>1. ASSUME NEW h, h = NoHeld \/ (h \in Held /\ Answered(h.req, h.session)),
               h.session.permission # NoPermission
        PROVE  /\ h.req \in asked /\ answer[h.req].fits
               /\ h.session.permission = answer[h.req].permission
               /\ h.session.expiry = answer[h.req].expiry
    <3>1. h \in Held /\ Answered(h.req, h.session) /\ h.req \in Req
      BY <2>1, HeldFacts, NewFacts
    <3> QED
      BY <2>1, <3>1 DEF Answered, RecipientInv, MailInv
  <2>2. ASSUME NEW p \in Path
        PROVE  active[p].held = NoHeld \/ HeldFits(p, active[p].held)
    BY DEF RecipientInv, HeldInv
  <2>3. ASSUME NEW o \in Slot
        PROVE  slot[o].held = NoHeld \/ HeldFits(slot[o].path, slot[o].held)
    BY DEF RecipientInv, HeldInv
  <2>4. ASSUME NEW i \in Req PROVE TaskHeld(i) \in Held /\ Answered(TaskHeld(i).req, TaskHeld(i).session)
    BY DEF RecipientInv, TypeOK, TaskInv, TaskHeld, Held
  <2>5. \A h \in Copies : h = NoHeld \/ (h \in Held /\ Answered(h.req, h.session))
    BY <2>2, <2>3, <2>4 DEF Copies, HeldFits
  <2>6. \A p \in Path : active[p].held.req # 0 => task[active[p].held.req].path = p
    BY <2>2, HeldFacts DEF HeldFits
  <2>7. \A o \in Slot : slot[o].held.req # 0 => task[slot[o].held.req].path = slot[o].path
    BY <2>3, HeldFacts DEF HeldFits
  <2> QED
    BY <2>1, <2>5, <2>6, <2>7 DEF GrantedByOwner
<1> QED
  BY <1>1, RecipientInvariance, PTL

=============================================================================
