------------------------------ MODULE Recipient ------------------------------
(***************************************************************************)
(* The recipient's Agent: the commands request_access, cancel_request      *)
(* (apps/agent/src-tauri/src/request.rs) and open_file (session.rs), and   *)
(* what runs behind them.  A request is a task that asks the owner, waits  *)
(* for the answer and then guards the grant; an opened file is a thread.   *)
(* They meet in two maps keyed by the file's path, Requests and Sessions:  *)
(* everybody clones the Held it needs, works on the clone across awaits    *)
(* and writes it back.  All tasks of a device read one relay inbox, and    *)
(* reading empties it.  run_session itself is AgentSession; here a thread  *)
(* starts, runs and ends.                                                  *)
(***************************************************************************)
EXTENDS Session, FiniteSets

CONSTANTS
    Path,           \* sealed files on this machine
    NoPath,
    MaxRequests,    \* bound on the calls of request_access
    MaxOpens,       \* bound on the calls of open_file
    MaxTime,        \* bound on the clock
    Chain,          \* this machine has a ChainLink
    Answers         \* the answers an owner may give

Req == 1 .. MaxRequests
Slot == 1 .. MaxOpens

\* fits: the terms are there and name the file, version, device, nonce and permission asked for.
\* tx: the owner's chain write landed, and the answer names the transaction.
AnswerTerms == [permission : Permissions, not_before : Nat, expiry : Nat, max_opens : Nat,
                fits : BOOLEAN, tx : BOOLEAN]

ASSUME RecipientAssumption ==
    /\ NoPath \notin Path
    /\ MaxRequests \in Nat /\ MaxOpens \in Nat /\ MaxTime \in Nat
    /\ Chain \in BOOLEAN
    /\ Answers \subseteq AnswerTerms

VARIABLES
    task,           \* the spawned task of each request
    cancel,         \* the cancel flag of each request
    active,         \* Requests: by path, the flag's request and Active::held
    sessions,       \* Sessions: the paths that are open
    slot,           \* the calls of open_file and their threads
    inbox,          \* this device's inbox at the relay
    asked,          \* requests that reached the owner
    answer,         \* what the owner answered
    landed,         \* grants the contract holds
    pulled,         \* grants the owner revoked through the relay
    chainPulled,    \* grants revoked in the contract
    clock,
    opens           \* history: how often each grant was opened

vars == <<task, cancel, active, sessions, slot, inbox, asked, answer, landed, pulled, chainPulled,
          clock, opens>>
owner == <<asked, answer, landed, pulled, chainPulled>>

TaskPc == {"free", "sending", "asking", "polling", "record", "guard", "drain", "writeback", "over"}
SlotPc == {"free", "check", "insert", "start", "open", "back", "ended"}

\* Held, with the request it answers in place of a copy of the terms.
Held == [req : Req, session : Sessions]
NoHeld == [req |-> 0, session |-> NewSession]
NoAnswer == [permission |-> NoPermission, not_before |-> 0, expiry |-> 0, max_opens |-> 0,
             fits |-> FALSE, tx |-> FALSE]

TypeOK ==
    /\ task \in [Req -> [pc : TaskPc, path : Path \cup {NoPath}, session : Sessions]]
    /\ cancel \in [Req -> BOOLEAN]
    /\ active \in [Path -> [req : Req \cup {0}, held : Held \cup {NoHeld}]]
    /\ sessions \subseteq Path
    /\ slot \in [Slot -> [pc : SlotPc, path : Path \cup {NoPath}, held : Held \cup {NoHeld}]]
    /\ \A o \in Slot : slot[o].pc # "free" => slot[o].held \in Held
    /\ inbox \subseteq [kind : {"Grant", "Revoke"}, req : Req]
    /\ asked \subseteq Req
    /\ answer \in [Req -> AnswerTerms \cup {NoAnswer}]
    /\ landed \subseteq Req /\ pulled \subseteq Req /\ chainPulled \subseteq landed
    /\ clock \in 0 .. MaxTime
    /\ opens \in [Req -> 0 .. MaxOpens]

Init ==
    /\ task = [i \in Req |-> [pc |-> "free", path |-> NoPath, session |-> NewSession]]
    /\ cancel = [i \in Req |-> FALSE]
    /\ active = [p \in Path |-> [req |-> 0, held |-> NoHeld]]
    /\ sessions = {}
    /\ slot = [o \in Slot |-> [pc |-> "free", path |-> NoPath, held |-> NoHeld]]
    /\ inbox = {} /\ asked = {} /\ answer = [i \in Req |-> NoAnswer]
    /\ landed = {} /\ pulled = {} /\ chainPulled = {}
    /\ clock = 0
    /\ opens = [i \in Req |-> 0]

\* AccessPolicy.isValid, as the chain answers it now.
is_grant_valid(i) == i \in landed \ chainPulled /\ clock < answer[i].expiry

-----------------------------------------------------------------------------
(***************************************************************************)
(* The commands of the screen                                              *)
(***************************************************************************)

\* "already_asking" while the entry of the path has no result yet.  Otherwise the
\* entry is replaced, whatever still works for the old one.
request_access(p, i) ==
    /\ task[i].pc = "free" /\ \A j \in 1 .. (i - 1) : task[j].pc # "free"
    /\ active[p].req # 0 => active[p].held # NoHeld
    /\ task' = [task EXCEPT ![i] = [pc |-> "sending", path |-> p, session |-> NewSession]]
    /\ active' = [active EXCEPT ![p] = [req |-> i, held |-> NoHeld]]
    /\ UNCHANGED <<cancel, sessions, slot, inbox, owner, clock, opens>>

cancel_request(p) ==
    /\ active[p].req # 0
    /\ cancel' = [cancel EXCEPT ![active[p].req] = TRUE]
    /\ UNCHANGED <<task, active, sessions, slot, inbox, owner, clock, opens>>

\* Seeded fault: whatever is held is good enough to open.
open_file_unasked(p, o) ==
    /\ slot[o].pc = "free"
    /\ slot' = [slot EXCEPT ![o] = [pc |-> "check", path |-> p, held |-> active[p].held]]
    /\ UNCHANGED <<task, cancel, active, sessions, inbox, owner, clock, opens>>

\* open_file, first lock: clone the held grant, "not_granted" unless it is Granted.
open_file(p, o) ==
    /\ slot[o].pc = "free" /\ \A n \in 1 .. (o - 1) : slot[n].pc # "free"
    /\ active[p].held.session.state = "Granted"
    /\ slot' = [slot EXCEPT ![o] = [pc |-> "check", path |-> p, held |-> active[p].held]]
    /\ UNCHANGED <<task, cancel, active, sessions, inbox, owner, clock, opens>>

\* Second lock: "already_open".  The keys may be missing too: the same early return.
OpenCheck(o) ==
    /\ slot[o].pc = "check"
    /\ \E next \in {"ended"} \cup (IF slot[o].path \in sessions THEN {} ELSE {"insert"}) :
          slot' = [slot EXCEPT ![o].pc = next]
    /\ UNCHANGED <<task, cancel, active, sessions, inbox, owner, clock, opens>>

\* Third lock: the path is open from here on.
OpenInsert(o) ==
    /\ slot[o].pc = "insert"
    /\ sessions' = sessions \cup {slot[o].path}
    /\ slot' = [slot EXCEPT ![o].pc = "start"]
    /\ UNCHANGED <<task, cancel, active, inbox, owner, clock, opens>>

-----------------------------------------------------------------------------
(***************************************************************************)
(* The task of a request: ask                                              *)
(***************************************************************************)
TaskStep(i, pc, s) == task' = [task EXCEPT ![i].pc = pc, ![i].session = s]
Fed(i, e) == Apply(task[i].session, e, clock).session
taskOnly == <<cancel, active, sessions, slot, clock, opens>>

SendRequest(i) ==
    /\ task[i].pc = "sending"
    /\ TaskStep(i, "asking", task[i].session)
    /\ asked' = asked \cup {i}
    /\ UNCHANGED <<inbox, answer, landed, pulled, chainPulled, taskOnly>>

\* announce or send_request failed; the request may have arrived all the same.
SendFails(i) ==
    /\ task[i].pc = "sending"
    /\ TaskStep(i, "record", Fed(i, Event("Failed")))
    /\ asked' \in {asked, asked \cup {i}}
    /\ UNCHANGED <<inbox, answer, landed, pulled, chainPulled, taskOnly>>

AskCancelled(i) ==
    /\ task[i].pc = "asking" /\ cancel[i]
    /\ TaskStep(i, "record", Fed(i, Event("Failed")))
    /\ UNCHANGED <<inbox, owner, taskOnly>>

\* The give_up_after deadline has passed.
AskGivesUp(i) ==
    /\ task[i].pc = "asking" /\ ~cancel[i]
    /\ TaskStep(i, "record", Fed(i, Event("Expired")))
    /\ UNCHANGED <<inbox, owner, taskOnly>>

AskReads(i) ==
    /\ task[i].pc = "asking" /\ ~cancel[i]
    /\ TaskStep(i, "polling", task[i].session)
    /\ UNCHANGED <<inbox, owner, taskOnly>>

GrantMsg(i) == [kind |-> "Grant", req |-> i]
RevokeMsg(i) == [kind |-> "Revoke", req |-> i]

\* Seeded fault: any grant in the inbox will do.
classifyAny(i) == {m \in inbox : m.kind = "Grant"}

\* classify: a grant is ours when it carries this request's nonce.
classify(i) == IF GrantMsg(i) \in inbox THEN {GrantMsg(i)} ELSE {}

\* The inbox could not be read, or had nothing of ours: what it had is gone.
AskHearsNothing(i) ==
    /\ task[i].pc = "polling"
    /\ \/ UNCHANGED inbox
       \/ classify(i) = {} /\ inbox' = {}
    /\ TaskStep(i, "asking", task[i].session)
    /\ UNCHANGED <<owner, taskOnly>>

\* What the chain may say about an answer that names a transaction.
ChainWord(i) ==
    IF Chain /\ answer[i].tx THEN {IF is_grant_valid(i) THEN "yes" ELSE "no", "unreachable"}
                             ELSE {"unchecked"}

\* A refusal needs no terms.  An answer with our nonce and other terms (Mismatch), or one the chain
\* does not know, ends the request as a failure.
AnswerEvent(a, word) ==
    IF a.permission = "Deny" THEN Event("Denied")
    ELSE IF ~a.fits \/ word = "no" THEN Event("Failed") ELSE GrantedEvent(a)

\* A grant the session refuses (not yet or no longer valid) fails the request.
AskHears(i) ==
    /\ task[i].pc = "polling"
    /\ \E m \in classify(i), word \in ChainWord(i) :
          LET e == AnswerEvent(answer[m.req], word) IN
          TaskStep(i, "record", IF Admissible(task[i].session, e, clock) THEN Fed(i, e)
                                ELSE Fed(i, Event("Failed")))
    /\ inbox' = {}
    /\ UNCHANGED <<owner, taskOnly>>

-----------------------------------------------------------------------------
(***************************************************************************)
(* The task of a request: record what came of it, then watch_grant         *)
(***************************************************************************)
PutHeld(p, h) == active' = [active EXCEPT ![p].held = h]
TaskHeld(i) == [req |-> i, session |-> task[i].session]
guardOnly == <<cancel, sessions, slot, clock, opens>>

\* Seeded fault: only a grant is worth recording.
RecordGrantsOnly(i) ==
    /\ task[i].pc = "record"
    /\ IF task[i].session.state = "Granted"
       THEN PutHeld(task[i].path, TaskHeld(i)) /\ TaskStep(i, "guard", task[i].session)
       ELSE UNCHANGED active /\ TaskStep(i, "over", task[i].session)
    /\ UNCHANGED <<inbox, owner, guardOnly>>

\* What came of the request goes into the map; a grant is guarded from here on.
Record(i) ==
    /\ task[i].pc = "record"
    /\ PutHeld(task[i].path, TaskHeld(i))
    /\ TaskStep(i, IF task[i].session.state = "Granted" THEN "guard" ELSE "over", task[i].session)
    /\ UNCHANGED <<inbox, owner, guardOnly>>

GuardCancelled(i) ==
    /\ task[i].pc = "guard" /\ cancel[i]
    /\ TaskStep(i, "writeback", task[i].session)
    /\ UNCHANGED <<inbox, owner, taskOnly>>

GuardExpired(i) ==
    /\ task[i].pc = "guard" /\ ~cancel[i] /\ clock >= answer[i].expiry
    /\ TaskStep(i, "writeback", Fed(i, Event("Expired")))
    /\ UNCHANGED <<inbox, owner, taskOnly>>

\* The chain answered "not valid", whether or not this grant was ever sent to it.
GuardRevokedOnChain(i) ==
    /\ task[i].pc = "guard" /\ ~cancel[i] /\ clock < answer[i].expiry
    /\ Chain /\ ~is_grant_valid(i)
    /\ TaskStep(i, "writeback", Fed(i, Event("Revoked")))
    /\ UNCHANGED <<inbox, owner, taskOnly>>

\* No chain, a chain that confirms the grant, or one that cannot be reached.
GuardReads(i) ==
    /\ task[i].pc = "guard" /\ ~cancel[i] /\ clock < answer[i].expiry
    /\ TaskStep(i, "drain", task[i].session)
    /\ UNCHANGED <<inbox, owner, taskOnly>>

\* Everything in the inbox that is not a revoke of this grant is dropped.
GuardPolls(i) ==
    /\ task[i].pc = "drain"
    /\ \/ UNCHANGED inbox /\ TaskStep(i, "guard", task[i].session)
       \/ /\ inbox' = {}
          /\ IF RevokeMsg(i) \in inbox THEN TaskStep(i, "writeback", Fed(i, Event("Revoked")))
                                       ELSE TaskStep(i, "guard", task[i].session)
    /\ UNCHANGED <<owner, taskOnly>>

\* Seeded fault: the task ends without writing what it learned.
WriteBackNothing(i) ==
    /\ task[i].pc = "writeback"
    /\ TaskStep(i, "over", task[i].session)
    /\ UNCHANGED <<active, inbox, owner, guardOnly>>

\* The task's own copy goes into the map, also when the watch was cancelled.
WriteBack(i) ==
    /\ task[i].pc = "writeback"
    /\ PutHeld(task[i].path, TaskHeld(i))
    /\ TaskStep(i, "over", task[i].session)
    /\ UNCHANGED <<inbox, owner, guardOnly>>

-----------------------------------------------------------------------------
(***************************************************************************)
(* The thread of an opened file                                            *)
(***************************************************************************)
SlotStep(o, pc, e) ==
    slot' = [slot EXCEPT ![o].pc = pc, ![o].held.session = Apply(@, e, clock).session]
slotOnly == <<task, cancel, inbox, owner, clock>>

\* materialise refused before it counted the open: the clone is still Granted.
RunRefused(o) ==
    /\ slot[o].pc = "start"
    /\ slot' = [slot EXCEPT ![o].pc = "back"]
    /\ UNCHANGED <<active, sessions, opens, slotOnly>>

\* Counted; the plaintext is there, or something failed and the thread ends.
RunStarts(o) ==
    /\ slot[o].pc = "start"
    /\ \E next \in {"open", "back"} : SlotStep(o, next, Event("Opened"))
    /\ opens' = [opens EXCEPT ![slot[o].held.req] = @ + 1]
    /\ UNCHANGED <<active, sessions, slotOnly>>

\* The viewer quits, the person locks the file, or a save fails.
RunCloses(o) ==
    /\ slot[o].pc = "open"
    /\ \E kind \in {"ViewerExited", "Failed"} : SlotStep(o, "back", Event(kind))
    /\ UNCHANGED <<active, sessions, opens, slotOnly>>

outside(o) == active[slot[o].path].held.session.state

\* The loop sees that the map's entry for the path was revoked or has ended.
RunSeesEnd(o) ==
    /\ slot[o].pc = "open"
    /\ \/ outside(o) = "Revoked" /\ SlotStep(o, "back", Event("Revoked"))
       \/ outside(o) = "Closed" /\ SlotStep(o, "back", Event("Expired"))
    /\ UNCHANGED <<active, sessions, opens, slotOnly>>

RunExpires(o) ==
    /\ slot[o].pc = "open"
    /\ clock >= slot[o].held.session.expiry
    /\ SlotStep(o, "back", Event("Expired"))
    /\ UNCHANGED <<active, sessions, opens, slotOnly>>

\* The clone is written back and the path is free again.
OpenBack(o) ==
    /\ slot[o].pc = "back"
    /\ PutHeld(slot[o].path, slot[o].held)
    /\ sessions' = sessions \ {slot[o].path}
    /\ slot' = [slot EXCEPT ![o].pc = "ended"]
    /\ UNCHANGED <<opens, slotOnly>>

-----------------------------------------------------------------------------
(***************************************************************************)
(* The owner, the relay and the clock                                      *)
(***************************************************************************)
OwnerAnswers(i, a) ==
    /\ i \in asked /\ answer[i] = NoAnswer
    /\ a.permission # "Deny" => clock < a.expiry
    /\ answer' = [answer EXCEPT ![i] = a]
    /\ landed' = IF a.tx THEN landed \cup {i} ELSE landed
    /\ inbox' = inbox \cup {GrantMsg(i)}
    /\ UNCHANGED <<task, cancel, active, sessions, slot, asked, pulled, chainPulled, clock, opens>>

\* revoke_now: the relay first, then the chain if the grant is there.
OwnerRevokes(i) ==
    /\ answer[i].permission \in {"ReadOnly", "Edit"}
    /\ i \notin pulled
    /\ pulled' = pulled \cup {i}
    /\ inbox' = inbox \cup {RevokeMsg(i)}
    /\ UNCHANGED <<task, cancel, active, sessions, slot, asked, answer, landed, chainPulled, clock, opens>>

RevokeLands(i) ==
    /\ i \in (pulled \cap landed) \ chainPulled
    /\ chainPulled' = chainPulled \cup {i}
    /\ UNCHANGED <<task, cancel, active, sessions, slot, inbox, asked, answer, landed, pulled, clock, opens>>

\* The relay restarts, or the queue's time to live has passed.
RelayForgets ==
    /\ inbox # {}
    /\ inbox' = {}
    /\ UNCHANGED <<task, cancel, active, sessions, slot, owner, clock, opens>>

Tick ==
    /\ clock < MaxTime
    /\ clock' = clock + 1
    /\ UNCHANGED <<task, cancel, active, sessions, slot, inbox, owner, opens>>

Command ==
    \E p \in Path :
        \/ \E i \in Req : request_access(p, i)
        \/ cancel_request(p)
        \/ \E o \in Slot : open_file(p, o)

Task(i) ==
    \/ SendRequest(i) \/ SendFails(i)
    \/ AskCancelled(i) \/ AskReads(i) \/ AskHearsNothing(i) \/ AskHears(i)
    \/ Record(i)
    \/ GuardCancelled(i) \/ GuardExpired(i) \/ GuardReads(i) \/ GuardPolls(i)
    \/ WriteBack(i)

Thread(o) ==
    OpenCheck(o) \/ OpenInsert(o) \/ RunRefused(o) \/ RunStarts(o) \/ RunSeesEnd(o) \/ RunExpires(o) \/ OpenBack(o)

Environment ==
    \/ \E i \in Req : OwnerRevokes(i) \/ RevokeLands(i) \/ \E a \in Answers : OwnerAnswers(i, a)
    \/ RelayForgets
    \/ Tick

Next ==
    \/ Command
    \/ \E i \in Req : Task(i) \/ AskGivesUp(i) \/ GuardRevokedOnChain(i)
    \/ \E o \in Slot : Thread(o) \/ RunCloses(o)
    \/ Environment

\* The runtime schedules every task and thread; every wait in them has a timeout.
\* give_up_after is a deadline on a monotonic clock, and a chain outage ends.
Spec ==
    /\ Init /\ [][Next]_vars
    /\ \A i \in Req : /\ WF_vars(Task(i))
                      /\ SF_vars(AskGivesUp(i))
                      /\ SF_vars(GuardRevokedOnChain(i))
    /\ \A o \in Slot : WF_vars(Thread(o))

-----------------------------------------------------------------------------
(***************************************************************************)
(* Properties                                                              *)
(***************************************************************************)
Copies ==
    {active[p].held : p \in Path} \cup {slot[o].held : o \in Slot} \cup {TaskHeld(i) : i \in Req}

\* Although all tasks share one inbox and every copy of a Held is written back by
\* whoever has it, no copy ever carries a permission other than the one the owner
\* gave to that very request, in terms that are about the file, the version and the
\* device of the request; and a path only ever holds answers about itself.
GrantedByOwner ==
    /\ \A h \in Copies : h.session.permission # NoPermission =>
          /\ h.req \in asked
          /\ answer[h.req].fits
          /\ h.session.permission = answer[h.req].permission
          /\ h.session.expiry = answer[h.req].expiry
    /\ \A p \in Path : active[p].held.req # 0 => task[active[p].held.req].path = p
    /\ \A o \in Slot : slot[o].held.req # 0 => task[slot[o].held.req].path = slot[o].path

\* "already_asking" does not last: whatever the relay, the owner and the person do,
\* the entry of a path that is being asked about gets a result.
NeverStuckAsking ==
    \A p \in Path :
        (active[p].req # 0 /\ active[p].held = NoHeld) ~> (active[p].held # NoHeld)

\* A revoke in the contract ends the open file of that grant although the relay may
\* lose or misdirect every message (T20), unless the person cancelled the watch, asked
\* twice about the same path or opened it twice: each of those replaces what the
\* watcher wrote.
RevokeEndsSession ==
    \A o \in Slot, i \in Req :
        (Chain /\ i \in chainPulled /\ slot[o].pc = "open" /\ slot[o].held.req = i)
            ~> \/ slot[o].pc # "open"
               \/ cancel[i]
               \/ \E j \in Req \ {i} : task[j].path = task[i].path
               \/ \E n \in Slot \ {o} : slot[n].path = slot[o].path

\* The claim of state.rs: "`maxOpens` is counted locally", "a grant is consumed once
\* (T03)".
OpensWithinBudget ==
    \A i \in Req : answer[i].max_opens # 0 => opens[i] <= answer[i].max_opens

=============================================================================
