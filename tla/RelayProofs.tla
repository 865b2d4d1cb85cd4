----------------------------- MODULE RelayProofs -----------------------------
(***************************************************************************)
(* What the relay promises for any set of relays, devices and envelopes,   *)
(* any clock errors and any number of faults: no envelope is accepted      *)
(* twice, answers and revokes go to whoever asked, nothing is lost early.  *)
(***************************************************************************)
EXTENDS Relay, FiniteSetTheorems, SequenceTheorems, TLAPS

\* The part of the state the replay rule is about.
ReplayType ==
    /\ now \in Nat
    /\ ts \in [Envelope -> Int]
    /\ nonces \in [Relays -> SUBSET [env : Envelope, at : Nat]]
    /\ times \in [Relays -> [Envelope -> Nat]]

\* e cannot be accepted again by r: it has gone stale, or r remembers its nonce from
\* a moment at which it was not stale.
Spent(r, e) ==
    /\ ts[e] # Unsigned
    /\ \/ now - ts[e] > MAX_SKEW
       \/ \E w \in nonces[r] : w.env = e /\ w.at <= now /\ w.at - ts[e] <= MAX_SKEW
                                        /\ ts[e] - w.at <= MAX_SKEW

\* QueuedOnce is not inductive: it does not say why a second acceptance is refused.
ReplayInv ==
    /\ ReplayType
    /\ \A r \in Relays, e \in Envelope :
          times[r][e] = 0 \/ (times[r][e] = 1 /\ Spent(r, e))

\* What a relay remembers of requests are requests it has put into an inbox.
RouteInv ==
    /\ now \in Nat
    /\ routes \in [Relays -> SUBSET [env : Envelope, at : Nat]]
    /\ interests \in [Relays -> SUBSET [env : Envelope, at : Nat]]
    /\ posted \in [Relays -> SUBSET [env : Envelope, box : Inboxes, at : Nat]]
    /\ \A r \in Relays : \A w \in routes[r] \cup interests[r] :
          w.env.kind = "request" /\ \E p \in posted[r] : p.env = w.env

-----------------------------------------------------------------------------
\* The two times of the replay rule, by themselves.
LEMMA SkewBelowMemory ==
    MAX_SKEW \in Nat /\ NONCE_MEMORY \in Nat /\ 2 * MAX_SKEW < NONCE_MEMORY
  BY RelayAssumption

\* An envelope that is timely and unused is not one that was accepted before:
\* 2 * MAX_SKEW < NONCE_MEMORY.
LEMMA SpentIsRefused ==
    ASSUME NEW r \in Relays, NEW e \in Envelope, ReplayType, Spent(r, e), Timely(ts[e])
    PROVE  ~NonceFresh(r, e)
<1>1. PICK w \in nonces[r] : w.env = e /\ w.at <= now /\ w.at - ts[e] <= MAX_SKEW
                                          /\ ts[e] - w.at <= MAX_SKEW
  BY RelayAssumption DEF Spent, Timely, ReplayType
<1>2. w.at \in Nat
  BY DEF ReplayType
<1>3. now - w.at < NONCE_MEMORY
  BY <1>1, <1>2, SkewBelowMemory DEF Timely, ReplayType
<1>4. w \in Younger(nonces[r], NONCE_MEMORY)
  BY <1>3 DEF Younger
<1> QED
  BY <1>1, <1>4 DEF NonceFresh

\* What a clock can show when an envelope is signed.
LEMMA StampType ==
    ASSUME ReplayType, NEW e \in Envelope
    PROVE  Stamp(e) \in Int /\ Stamp(e) # Unsigned /\ (ts[e] # Unsigned => Stamp(e) = ts[e])
<1>1. e.kid \in Kids
  BY DEF Kids
<1>2. Offset[e.kid] \in -MaxTime .. MaxTime /\ MaxTime \in Nat
  BY <1>1, RelayAssumption
<1> QED
  BY <1>2 DEF Stamp, Unsigned, ReplayType

\* A relay that handles an envelope signed at t keeps the replay invariant.
LEMMA HandleReplay ==
    ASSUME ReplayInv, NEW r \in Relays, NEW e \in Envelope, NEW t \in Int,
           t # Unsigned, ts[e] # Unsigned => t = ts[e],
           Handle(r, e, t), ts' = [ts EXCEPT ![e] = t], UNCHANGED now
    PROVE  ReplayInv'
<1> DEFINE keep == Younger(nonces[r], NONCE_MEMORY)
           new == [env |-> e, at |-> now]
<1>0. ReplayType
  BY DEF ReplayInv
<1>1. /\ nonces' \in [Relays -> SUBSET [env : Envelope, at : Nat]]
      /\ \A q \in Relays : q # r => nonces'[q] = nonces[q]
      /\ \/ nonces'[r] = nonces[r]
         \/ keep \subseteq nonces'[r]
      /\ Authentic(r, e, t) => new \in nonces'[r]
  <2>1. new \in [env : Envelope, at : Nat]
    BY <1>0 DEF ReplayType
  <2>2. keep \in SUBSET [env : Envelope, at : Nat]
    BY <1>0 DEF ReplayType, Younger
  <2>3. CASE ~(Verified(r, e, t) /\ InQuota(r, e.kid))
    BY <2>3, <1>0 DEF Handle, authenticate, Authentic, ReplayType
  <2>4. CASE Verified(r, e, t) /\ InQuota(r, e.kid)
    <3>1. nonces' = [nonces EXCEPT ![r] = keep \cup (IF NonceFresh(r, e) THEN {new} ELSE {})]
      BY <2>4 DEF Handle, authenticate
    <3> HIDE DEF keep, new
    <3> QED
      BY <3>1, <2>1, <2>2, <1>0 DEF ReplayType, Authentic
  <2> QED
    BY <2>3, <2>4
<1>2. /\ times' \in [Relays -> [Envelope -> Nat]]
      /\ \A q \in Relays, d \in Envelope :
            times'[q][d] = times[q][d] \/ (q = r /\ d = e /\ times'[q][d] = times[q][d] + 1
                                           /\ Authentic(r, e, t))
  <2>1. CASE times' = times
    BY <2>1, <1>0 DEF ReplayType
  <2>2. CASE Count(r, e) /\ Accepts(r, e, t)
    BY <2>2, <1>0 DEF ReplayType, Count, Accepts
  <2> QED
    BY <2>1, <2>2 DEF Handle
<1>3. ts' \in [Envelope -> Int] /\ ts'[e] = t /\ \A d \in Envelope : d # e => ts'[d] = ts[d]
  BY <1>0 DEF ReplayType
<1>4. \A q \in Relays, d \in Envelope : times[q][d] = 1 /\ Spent(q, d) => Spent(q, d)'
  <2> TAKE q \in Relays, d \in Envelope
  <2> HAVE times[q][d] = 1 /\ Spent(q, d)
  <2>1. ts'[d] = ts[d] /\ ts[d] # Unsigned /\ Unsigned' = Unsigned
    BY <1>3 DEF Spent, Unsigned
  <2>2. CASE now - ts[d] > MAX_SKEW
    BY <2>1, <2>2 DEF Spent
  <2>3. CASE ~(now - ts[d] > MAX_SKEW)
    <3>1. PICK w \in nonces[q] : w.env = d /\ w.at <= now /\ w.at - ts[d] <= MAX_SKEW
                                            /\ ts[d] - w.at <= MAX_SKEW
      BY <2>3 DEF Spent
    <3>2. w.at \in Nat /\ ts[d] \in Int /\ now \in Nat
      BY <1>0 DEF ReplayType
    <3>3. now - w.at < NONCE_MEMORY
      BY <2>3, <3>1, <3>2, SkewBelowMemory
    <3>4. q = r => w \in keep
      BY <3>3 DEF Younger
    <3>5. w \in nonces'[q]
      BY <3>1, <3>4, <1>1
    <3> QED
      BY <2>1, <3>1, <3>5 DEF Spent
  <2> QED
    BY <2>2, <2>3
<1>5. Authentic(r, e, t) => times[r][e] = 0
  <2> SUFFICES ASSUME Authentic(r, e, t), times[r][e] # 0 PROVE FALSE
    OBVIOUS
  <2>1. Spent(r, e)
    BY DEF ReplayInv
  <2>2. Timely(ts[e])
    BY <2>1 DEF Spent, Authentic, Verified
  <2> QED
    BY <2>1, <2>2, <1>0, SpentIsRefused DEF Authentic
<1>6. Authentic(r, e, t) => Spent(r, e)'
  <2> SUFFICES ASSUME Authentic(r, e, t) PROVE Spent(r, e)'
    OBVIOUS
  <2>1. new \in nonces'[r] /\ now - t <= MAX_SKEW /\ t - now <= MAX_SKEW /\ now' = now
    BY <1>1 DEF Authentic, Verified, Timely
  <2>2. ts'[e] # Unsigned'
    BY <1>3 DEF Unsigned
  <2>3. now <= now
    BY <1>0 DEF ReplayType
  <2> QED
    BY <2>1, <2>2, <2>3, <1>3 DEF Spent
<1>7. ReplayType'
  BY <1>0, <1>1, <1>2, <1>3 DEF ReplayType
<1>8. ASSUME NEW q \in Relays, NEW d \in Envelope
      PROVE  times'[q][d] = 0 \/ (times'[q][d] = 1 /\ Spent(q, d)')
  <2>1. times[q][d] = 0 \/ (times[q][d] = 1 /\ Spent(q, d))
    BY DEF ReplayInv
  <2>2. CASE times'[q][d] = times[q][d]
    BY <2>1, <2>2, <1>4
  <2>3. CASE q = r /\ d = e /\ times'[q][d] = times[q][d] + 1 /\ Authentic(r, e, t)
    BY <2>3, <1>5, <1>6
  <2> QED
    BY <2>2, <2>3, <1>2
<1> QED
  BY <1>7, <1>8 DEF ReplayInv

\* Moving the clock on makes nothing acceptable again.
LEMMA TickReplay == ASSUME ReplayInv, Tick PROVE ReplayInv'
<1>0. ReplayType /\ ReplayType' /\ now' = now + 1
  BY DEF ReplayInv, ReplayType, Tick
<1>1. ASSUME NEW r \in Relays, NEW e \in Envelope, Spent(r, e) PROVE Spent(r, e)'
  <2>1. ts' = ts /\ nonces' = nonces /\ ts[e] \in Int /\ now \in Nat
    BY <1>0 DEF Tick, ReplayType
  <2>2. CASE now - ts[e] > MAX_SKEW
    BY <2>1, <2>2, <1>0, <1>1, SkewBelowMemory DEF Spent, Unsigned
  <2>3. CASE ~(now - ts[e] > MAX_SKEW)
    <3>1. PICK w \in nonces[r] : w.env = e /\ w.at <= now /\ w.at - ts[e] <= MAX_SKEW
                                            /\ ts[e] - w.at <= MAX_SKEW
      BY <2>3, <1>1 DEF Spent
    <3>2. w.at \in Nat
      BY <1>0 DEF ReplayType
    <3>3. w.at <= now'
      BY <3>1, <3>2, <2>1, <1>0
    <3> QED
      BY <3>1, <3>3, <2>1, <1>1 DEF Spent, Unsigned
  <2> QED
    BY <2>2, <2>3
<1> QED
  BY <1>0, <1>1 DEF ReplayInv, Tick

\* A restarted relay has accepted nothing in its new life.
LEMMA RestartReplay ==
    ASSUME ReplayInv, NEW r \in Relays, Restart(r) PROVE ReplayInv'
<1>1. /\ now' = now /\ ts' = ts
      /\ nonces' = [nonces EXCEPT ![r] = {}]
      /\ times' = [times EXCEPT ![r] = [e \in Envelope |-> 0]]
  BY DEF Restart
<1>2. ReplayType'
  BY <1>1 DEF ReplayInv, ReplayType
<1>3. ASSUME NEW q \in Relays, NEW e \in Envelope
      PROVE  times'[q][e] = 0 \/ (times'[q][e] = 1 /\ Spent(q, e)')
  <2>1. CASE q = r
    BY <2>1, <1>1 DEF ReplayInv, ReplayType
  <2>2. CASE q # r
    <3>1. times'[q] = times[q] /\ nonces'[q] = nonces[q]
      BY <2>2, <1>1 DEF ReplayInv, ReplayType
    <3> QED
      BY <3>1, <1>1 DEF ReplayInv, Spent, Unsigned
  <2> QED
    BY <2>1, <2>2
<1> QED
  BY <1>2, <1>3 DEF ReplayInv

\* Signing an envelope touches nothing that was accepted.
LEMMA SignReplay ==
    ASSUME ReplayInv, NEW e \in Envelope, sign(e), UNCHANGED <<now, nonces, times>>
    PROVE  ReplayInv'
<1>0. ReplayType /\ Unsigned' = Unsigned
  BY DEF ReplayInv, Unsigned
<1>1. /\ ts' \in [Envelope -> Int]
      /\ \A d \in Envelope : ts[d] # Unsigned => ts'[d] = ts[d]
  BY <1>0, StampType DEF sign, ReplayType
<1>2. ASSUME NEW r \in Relays, NEW d \in Envelope, Spent(r, d) PROVE Spent(r, d)'
  BY <1>0, <1>1, <1>2 DEF Spent
<1> QED
  BY <1>0, <1>1, <1>2 DEF ReplayInv, ReplayType

\* Every step of relays, clients and network keeps the replay invariant.
LEMMA StepReplay == ASSUME ReplayInv, [Next]_vars PROVE ReplayInv'
<1>0. ReplayType
  BY DEF ReplayInv
<1>1. ASSUME UNCHANGED <<now, ts, nonces, times>> PROVE ReplayInv'
  BY <1>1 DEF ReplayInv, ReplayType, Spent, Unsigned
<1>2. ASSUME NEW e \in Envelope, Trying(e), sign(e), UNCHANGED now,
             Handle(Endpoints[sub[e].endpoint], e, Stamp(e))
      PROVE  ReplayInv'
  <2>1. Endpoints[sub[e].endpoint] \in Relays
    BY <1>2 DEF Trying, Relays
  <2> QED
    BY <1>0, <1>2, <2>1, StampType, HandleReplay DEF sign
<1>3. ASSUME NEW e \in Envelope, RequestLost(e) PROVE ReplayInv'
  BY <1>3, SignReplay DEF RequestLost
<1>4. ASSUME NEW e \in Envelope, AnswerLost(e) \/ submit_once(e) PROVE ReplayInv'
  BY <1>2, <1>4 DEF AnswerLost, submit_once
<1>5. ASSUME NEW r \in Relays, NEW e \in Envelope, Repeated(r, e) PROVE ReplayInv'
  <2>1. ts' = [ts EXCEPT ![e] = ts[e]] /\ ts[e] \in Int
    BY <1>0, <1>5 DEF Repeated, ReplayType
  <2> QED
    BY <1>5, <2>1, HandleReplay DEF Repeated
<1>6. ASSUME NEW r \in Relays, NEW b \in Inboxes, inbox(r, b) PROVE ReplayInv'
  BY <1>1, <1>6 DEF inbox, fetch_inbox, Fault
<1>7. CASE UNCHANGED vars
  BY <1>1, <1>7 DEF vars
<1> QED
  BY <1>3, <1>4, <1>5, <1>6, <1>7, RestartReplay, TickReplay DEF Next

\* A relay accepts an envelope at most once between two restarts (QueuedOnce), for
\* any clock errors of its senders, because 2 * MAX_SKEW < NONCE_MEMORY.
THEOREM QueuedOnceTheorem == Spec => []QueuedOnce
<1>1. Init => ReplayInv
  <2>1. Unsigned \in Int
    BY RelayAssumption DEF Unsigned
  <2>2. ASSUME Init PROVE ts \in [Envelope -> Int] /\ now \in Nat
    BY <2>1, <2>2 DEF Init
  <2>3. ASSUME Init PROVE nonces \in [Relays -> SUBSET [env : Envelope, at : Nat]]
    BY <2>3 DEF Init
  <2>4. ASSUME Init PROVE times \in [Relays -> [Envelope -> Nat]]
    BY <2>4 DEF Init
  <2>5. ASSUME Init, NEW r \in Relays, NEW e \in Envelope PROVE times[r][e] = 0
    BY <2>5 DEF Init
  <2> QED
    BY <2>2, <2>3, <2>4, <2>5 DEF ReplayInv, ReplayType
<1>2. ReplayInv => QueuedOnce
  BY DEF ReplayInv, QueuedOnce
<1>3. ReplayInv /\ [Next]_vars => ReplayInv'
  BY StepReplay
<1> QED
  BY <1>1, <1>2, <1>3, PTL DEF Spec

-----------------------------------------------------------------------------
\* Queueing adds to the record of what was posted, for this relay and these inboxes.
LEMMA EnqueuePosts ==
    ASSUME RouteInv, NEW r \in Relays, NEW e \in Envelope, NEW boxes \in SUBSET Inboxes,
           enqueue(r, boxes, e)
    PROVE  /\ posted' \in [Relays -> SUBSET [env : Envelope, box : Inboxes, at : Nat]]
           /\ \A q \in Relays : q # r => posted'[q] = posted[q]
           /\ posted'[r] = posted[r] \cup {[env |-> e, box |-> b, at |-> now] : b \in boxes}
<1> DEFINE new == {[env |-> e, box |-> b, at |-> now] : b \in boxes}
<1>1. new \in SUBSET [env : Envelope, box : Inboxes, at : Nat]
  BY DEF RouteInv
<1>2. posted' = [posted EXCEPT ![r] = @ \cup new]
  BY DEF enqueue
<1> HIDE DEF new
<1>3. /\ posted' \in [Relays -> SUBSET [env : Envelope, box : Inboxes, at : Nat]]
      /\ \A q \in Relays : q # r => posted'[q] = posted[q]
      /\ posted'[r] = posted[r] \cup new
  BY <1>1, <1>2 DEF RouteInv
<1> QED
  BY <1>3 DEF new

\* Addressees are inboxes, and for an answer or a revoke they are devices that asked.
LEMMA AddresseesAsked ==
    ASSUME RouteInv, NEW r \in Relays, NEW e \in Envelope
    PROVE  /\ Addressees(r, e) \in SUBSET Inboxes
           /\ e.kind = "grant" => \A b \in Addressees(r, e) : \E p \in posted[r] :
                  p.env.kind = "request" /\ p.env.req = e.req /\ p.env.kid = b
           /\ e.kind = "revoke" => \A b \in Addressees(r, e) : \E p \in posted[r] :
                  p.env.kind = "request" /\ p.env.fid = e.fid /\ p.env.kid = b
<1>1. \A d \in Envelope : d.kid \in Inboxes /\ d.owner \in Inboxes
  BY DEF Inboxes, Kids
<1>2. e.kind \in Kinds
  BY RelayAssumption DEF IsMessage
<1>3. CASE e.kind = "announce"
  BY <1>3 DEF Addressees
<1>4. CASE e.kind \in {"request", "version"}
  BY <1>1, <1>4 DEF Addressees
<1>5. CASE e.kind = "grant"
  <2>1. Addressees(r, e) = {w.env.kid : w \in RouteFor(r, e)}
    BY <1>5 DEF Addressees
  <2>2. \A w \in RouteFor(r, e) : w \in routes[r] /\ w.env.req = e.req /\ w.env \in Envelope
    BY DEF RouteFor, Younger, RouteInv
  <2>3. \A w \in RouteFor(r, e) : w.env.kind = "request" /\ \E p \in posted[r] : p.env = w.env
    BY <2>2 DEF RouteInv
  <2> QED
    BY <1>1, <1>5, <2>1, <2>2, <2>3
<1>6. CASE e.kind = "revoke"
  <2> DEFINE askers == {i \in Younger(interests[r], QUEUE_TTL) : i.env.fid = e.fid}
  <2>1. Addressees(r, e) = {w.env.kid : w \in askers}
    BY <1>6 DEF Addressees
  <2>2. \A w \in askers : w \in interests[r] /\ w.env.fid = e.fid /\ w.env \in Envelope
    BY DEF Younger, RouteInv
  <2>3. \A w \in askers : w.env.kind = "request" /\ \E p \in posted[r] : p.env = w.env
    BY <2>2 DEF RouteInv
  <2> HIDE DEF askers
  <2> QED
    BY <1>1, <1>6, <2>1, <2>2, <2>3
<1> QED
  BY <1>2, <1>3, <1>4, <1>5, <1>6 DEF Kinds

\* What handling one envelope does to the memory of requests and to the posts.
LEMMA HandleEffect ==
    ASSUME RouteInv, NEW r \in Relays, NEW e \in Envelope, NEW t, Handle(r, e, t)
    PROVE  /\ routes' \in [Relays -> SUBSET [env : Envelope, at : Nat]]
           /\ interests' \in [Relays -> SUBSET [env : Envelope, at : Nat]]
           /\ posted' \in [Relays -> SUBSET [env : Envelope, box : Inboxes, at : Nat]]
           /\ \A q \in Relays \ {r} : /\ routes'[q] = routes[q]
                                      /\ interests'[q] = interests[q]
                                      /\ posted'[q] = posted[q]
           /\ posted[r] \subseteq posted'[r]
           /\ \A p \in posted'[r] : p \in posted[r] \/ (p.env = e /\ p.box \in Addressees(r, e))
           /\ \A w \in routes'[r] \cup interests'[r] :
                  \/ w \in routes[r] \cup interests[r]
                  \/ w.env = e /\ e.kind = "request" /\ \E p \in posted'[r] : p.env = e
<1> DEFINE WT == SUBSET [env : Envelope, at : Nat]
           new == [env |-> e, at |-> now]
<1>1. /\ now \in Nat /\ routes \in [Relays -> WT] /\ interests \in [Relays -> WT]
      /\ posted \in [Relays -> SUBSET [env : Envelope, box : Inboxes, at : Nat]]
      /\ new \in [env : Envelope, at : Nat] /\ new.env = e
  BY DEF RouteInv
<1>2. Addressees(r, e) \in SUBSET Inboxes
  BY AddresseesAsked
<1>3. \A s \in WT : Younger(s, QUEUE_TTL) \in WT /\ Younger(s, QUEUE_TTL) \subseteq s
  BY DEF Younger
<1>4. CASE handle_requests(r, e)
  <2>1. e.kind = "request" /\ e.owner \in Addressees(r, e)
    BY <1>4 DEF handle_requests, Addressees
  <2>2. routes' = [routes EXCEPT ![r] = {w \in @ : w.env.req # e.req} \cup {new}]
    BY <1>4 DEF handle_requests, remember_request
  <2>3. interests' = [interests EXCEPT ![r] =
            {w \in @ : ~(w.env.fid = e.fid /\ w.env.kid = e.kid)} \cup {new}]
    BY <1>4 DEF handle_requests, remember_interest
  <2>4. enqueue(r, Addressees(r, e), e)
    BY <1>4 DEF handle_requests
  <2>5. /\ posted' \in [Relays -> SUBSET [env : Envelope, box : Inboxes, at : Nat]]
        /\ \A q \in Relays : q # r => posted'[q] = posted[q]
        /\ posted'[r] = posted[r] \cup {[env |-> e, box |-> b, at |-> now] : b \in Addressees(r, e)}
    BY <2>4, <1>2, EnqueuePosts
  <2>6. \E p \in posted'[r] : p.env = e
    <3>1. [env |-> e, box |-> e.owner, at |-> now] \in posted'[r]
      BY <2>1, <2>5
    <3>2. [env |-> e, box |-> e.owner, at |-> now].env = e
      OBVIOUS
    <3> QED
      BY <3>1, <3>2
  <2>7. routes' \in [Relays -> WT] /\ \A q \in Relays \ {r} : routes'[q] = routes[q]
    BY <1>1, <2>2
  <2>8. interests' \in [Relays -> WT] /\ \A q \in Relays \ {r} : interests'[q] = interests[q]
    BY <1>1, <2>3
  <2>9. \A w \in routes'[r] \cup interests'[r] : w \in routes[r] \cup interests[r] \/ w = new
    BY <1>1, <2>2, <2>3
  <2>10. \A p \in posted'[r] : p \in posted[r] \/ (p.env = e /\ p.box \in Addressees(r, e))
    BY <2>5
  <2> HIDE DEF new, WT
  <2>11. \A w \in routes'[r] \cup interests'[r] :
            \/ w \in routes[r] \cup interests[r]
            \/ w.env = e /\ e.kind = "request" /\ \E p \in posted'[r] : p.env = e
    BY <2>1, <2>6, <2>9, <1>1
  <2> QED
    BY <2>5, <2>7, <2>8, <2>10, <2>11 DEF WT
<1>5. CASE handle_grants(r, e) \/ handle_versions(r, e) \/ handle_revocations(r, e)
  <2>1. enqueue(r, Addressees(r, e), e)
    BY <1>5 DEF handle_grants, handle_versions, handle_revocations
  <2>2. /\ posted' \in [Relays -> SUBSET [env : Envelope, box : Inboxes, at : Nat]]
        /\ \A q \in Relays : q # r => posted'[q] = posted[q]
        /\ posted'[r] = posted[r] \cup {[env |-> e, box |-> b, at |-> now] : b \in Addressees(r, e)}
    BY <2>1, <1>2, EnqueuePosts
  <2>3. routes' = routes \/ routes' = [routes EXCEPT ![r] = Younger(@, QUEUE_TTL)]
    BY <1>5 DEF handle_grants, handle_versions, handle_revocations
  <2>4. interests' = interests \/ interests' = [interests EXCEPT ![r] = Younger(@, QUEUE_TTL)]
    BY <1>5 DEF handle_grants, handle_versions, handle_revocations
  <2> HIDE DEF WT
  <2>5. /\ routes' \in [Relays -> WT] /\ \A q \in Relays \ {r} : routes'[q] = routes[q]
        /\ routes'[r] \subseteq routes[r]
    BY <1>1, <1>3, <2>3
  <2>6. /\ interests' \in [Relays -> WT] /\ \A q \in Relays \ {r} : interests'[q] = interests[q]
        /\ interests'[r] \subseteq interests[r]
    BY <1>1, <1>3, <2>4
  <2>7. \A p \in posted'[r] : p \in posted[r] \/ (p.env = e /\ p.box \in Addressees(r, e))
    BY <2>2
  <2> QED
    BY <2>2, <2>5, <2>6, <2>7 DEF WT
<1>6. CASE handle_unroutable(r, e)
  <2>1. routes' = [routes EXCEPT ![r] = Younger(@, QUEUE_TTL)] /\ interests' = interests
        /\ posted' = posted
    BY <1>6 DEF handle_unroutable
  <2> HIDE DEF WT
  <2>2. /\ routes' \in [Relays -> WT] /\ \A q \in Relays \ {r} : routes'[q] = routes[q]
        /\ routes'[r] \subseteq routes[r]
    BY <1>1, <1>3, <2>1
  <2> QED
    BY <1>1, <2>1, <2>2 DEF WT
<1>7. CASE UNCHANGED <<routes, interests, posted>>
  BY <1>1, <1>7
<1> QED
  BY <1>4, <1>5, <1>6, <1>7 DEF Handle, handle_devices

\* Handling an envelope keeps answers and revokes on their way home.
LEMMA HandleRoutes ==
    ASSUME RouteInv, RoutedHome, NEW r \in Relays, NEW e \in Envelope, NEW t,
           Handle(r, e, t), UNCHANGED now
    PROVE  RouteInv' /\ RoutedHome'
<1>1. RouteInv'
  <2>1. ASSUME NEW q \in Relays, NEW w \in routes'[q] \cup interests'[q]
        PROVE  w.env.kind = "request" /\ \E p \in posted'[q] : p.env = w.env
    <3>1. CASE q # r
      BY <3>1, HandleEffect DEF RouteInv
    <3>2. CASE q = r
      BY <3>2, HandleEffect DEF RouteInv
    <3> QED
      BY <3>1, <3>2
  <2> QED
    BY <2>1, HandleEffect DEF RouteInv
<1>2. ASSUME NEW q \in Relays, NEW p \in posted'[q]
      PROVE  /\ p.env.kind = "grant" => \E d \in posted'[q] :
                    d.env.kind = "request" /\ d.env.req = p.env.req /\ d.env.kid = p.box
             /\ p.env.kind = "revoke" => \E d \in posted'[q] :
                    d.env.kind = "request" /\ d.env.fid = p.env.fid /\ d.env.kid = p.box
  <2>1. posted[q] \subseteq posted'[q]
    BY HandleEffect
  <2>2. CASE p \in posted[q]
    BY <2>1, <2>2 DEF RoutedHome
  <2>3. CASE p \notin posted[q]
    <3>1. q = r /\ p.env = e /\ p.box \in Addressees(r, e)
      BY <2>3, HandleEffect
    <3> QED
      BY <2>1, <3>1, AddresseesAsked
  <2> QED
    BY <2>2, <2>3
<1> QED
  BY <1>1, <1>2 DEF RoutedHome

\* Every step keeps the memory of requests honest and answers on their way home.
LEMMA StepRoutes == ASSUME RouteInv, RoutedHome, [Next]_vars PROVE RouteInv' /\ RoutedHome'
<1>1. ASSUME UNCHANGED <<now, routes, interests, posted>> PROVE RouteInv' /\ RoutedHome'
  BY <1>1 DEF RouteInv, RoutedHome
<1>2. ASSUME NEW e \in Envelope, RequestLost(e) PROVE RouteInv' /\ RoutedHome'
  BY <1>1, <1>2 DEF RequestLost
<1>3. ASSUME NEW e \in Envelope, AnswerLost(e) \/ submit_once(e) PROVE RouteInv' /\ RoutedHome'
  <2>1. Endpoints[sub[e].endpoint] \in Relays
    BY <1>3 DEF AnswerLost, submit_once, Trying, Relays
  <2> QED
    BY <1>3, <2>1, HandleRoutes DEF AnswerLost, submit_once
<1>4. ASSUME NEW r \in Relays, NEW e \in Envelope, Repeated(r, e) PROVE RouteInv' /\ RoutedHome'
  BY <1>4, HandleRoutes DEF Repeated
<1>5. ASSUME NEW r \in Relays, NEW b \in Inboxes, inbox(r, b) PROVE RouteInv' /\ RoutedHome'
  BY <1>1, <1>5 DEF inbox, fetch_inbox, Fault
<1>6. ASSUME NEW r \in Relays, Restart(r) PROVE RouteInv' /\ RoutedHome'
  <2>1. /\ now' = now
        /\ routes' = [routes EXCEPT ![r] = {}]
        /\ interests' = [interests EXCEPT ![r] = {}]
        /\ posted' = [posted EXCEPT ![r] = {}]
    BY <1>6 DEF Restart
  <2>2. \A q \in Relays : \/ routes'[q] = {} /\ interests'[q] = {} /\ posted'[q] = {}
                          \/ /\ routes'[q] = routes[q] /\ interests'[q] = interests[q]
                             /\ posted'[q] = posted[q]
    BY <2>1 DEF RouteInv
  <2>3. RouteInv'
    BY <2>1, <2>2 DEF RouteInv
  <2> QED
    BY <2>2, <2>3 DEF RoutedHome
<1>7. ASSUME Tick PROVE RouteInv' /\ RoutedHome'
  BY <1>7 DEF Tick, RouteInv, RoutedHome
<1>8. CASE UNCHANGED vars
  BY <1>1, <1>8 DEF vars
<1> QED
  BY <1>2, <1>3, <1>4, <1>5, <1>6, <1>7, <1>8 DEF Next

\* Grants and revokes are only ever put into the inbox of a device that asked
\* (RoutedHome), through pruning, refreshing, restarts and replays.
THEOREM RoutedHomeTheorem == Spec => []RoutedHome
<1>1. Init => RouteInv /\ RoutedHome
  <2> SUFFICES ASSUME Init PROVE RouteInv /\ RoutedHome
    OBVIOUS
  <2>1. /\ now \in Nat
        /\ routes \in [Relays -> SUBSET [env : Envelope, at : Nat]]
        /\ interests \in [Relays -> SUBSET [env : Envelope, at : Nat]]
    BY DEF Init
  <2>2. posted \in [Relays -> SUBSET [env : Envelope, box : Inboxes, at : Nat]]
    BY DEF Init
  <2>3. \A r \in Relays : routes[r] = {} /\ interests[r] = {} /\ posted[r] = {}
    BY DEF Init
  <2> QED
    BY <2>1, <2>2, <2>3 DEF RouteInv, RoutedHome
<1>2. RouteInv /\ RoutedHome /\ [Next]_vars => RouteInv' /\ RoutedHome'
  BY StepRoutes
<1> QED
  BY <1>1, <1>2, PTL DEF Spec

-----------------------------------------------------------------------------
(***************************************************************************)
(* Queues that are pruned from the front                                   *)
(***************************************************************************)

\* pop_front while the front is old drops nothing that is not old.
LEMMA PopFacts ==
    ASSUME NEW S, NEW q \in Seq(S), NEW old
    PROVE  /\ PopWhile(q, old) \in Seq(S)
           /\ \A i \in DOMAIN q : i \notin old =>
                 \E j \in DOMAIN PopWhile(q, old) : PopWhile(q, old)[j] = q[i]
<1> DEFINE n == Len(q)
           F == {i \in DOMAIN q : 1 .. i \subseteq old}
           k == Cardinality(F)
           t == SubSeq(q, k + 1, n)
<1>1. n \in Nat /\ DOMAIN q = 1 .. n /\ \A i \in 1 .. n : q[i] \in S
  OBVIOUS
<1>2. ASSUME NEW m \in Nat, F \subseteq 1 .. m PROVE k \in Nat /\ k <= m
  <2>1. 1 \in Int /\ m \in Int
    OBVIOUS
  <2>2. IsFiniteSet(1 .. m) /\ Cardinality(1 .. m) = IF 1 > m THEN 0 ELSE m - 1 + 1
    BY <2>1, FS_Interval
  <2>3. Cardinality(1 .. m) = m
    BY <2>2
  <2>4. IsFiniteSet(F) /\ k <= Cardinality(1 .. m)
    BY <1>2, <2>2, FS_Subset
  <2>5. k \in Nat
    BY <2>4, FS_CardinalityType
  <2> QED
    BY <2>3, <2>4, <2>5
<1>3. k \in Nat /\ k <= n
  BY <1>1, <1>2
<1>4. ASSUME NEW i \in DOMAIN q, i \notin old PROVE k < i
  <2>1. i \in Nat /\ i - 1 \in Nat
    BY <1>1
  <2>2. F \subseteq 1 .. (i - 1)
    <3> SUFFICES ASSUME NEW j \in F PROVE j \in 1 .. (i - 1)
      OBVIOUS
    <3>1. j \in 1 .. n /\ i \notin 1 .. j
      BY <1>1, <1>4
    <3> QED
      BY <1>1, <2>1, <3>1
  <2>3. k <= i - 1
    BY <1>2, <2>1, <2>2
  <2> QED
    BY <1>3, <2>1, <2>3
<1> HIDE DEF k
<1>5. /\ t \in Seq(S) /\ Len(t) = IF k + 1 <= n THEN n - (k + 1) + 1 ELSE 0
      /\ \A i \in 1 .. (n - (k + 1) + 1) : t[i] = q[k + 1 + i - 1]
  <2>1. k + 1 \in Int /\ n \in Int /\ \A i \in (k + 1) .. n : q[i] \in S
    BY <1>1, <1>3
  <2> QED
    BY <2>1, SubSeqProperties
<1>6. PopWhile(q, old) = t
  BY DEF PopWhile, k
<1> HIDE DEF t
<1>7. ASSUME NEW i \in DOMAIN q, i \notin old PROVE \E j \in DOMAIN t : t[j] = q[i]
  <2>1. i \in 1 .. n /\ k < i /\ k \in Nat /\ n \in Nat
    BY <1>1, <1>3, <1>4, <1>7
  <2>2. i - k \in 1 .. (n - (k + 1) + 1) /\ k + 1 + (i - k) - 1 = i
    BY <2>1
  <2>3. t[i - k] = q[i]
    BY <1>5, <2>2
  <2>4. Len(t) = n - k /\ DOMAIN t = 1 .. Len(t)
    BY <1>5, <2>1
  <2>5. i - k \in DOMAIN t
    BY <2>1, <2>2, <2>4
  <2> QED
    BY <2>3, <2>5
<1> QED
  BY <1>5, <1>6, <1>7

-----------------------------------------------------------------------------
(***************************************************************************)
(* What a relay keeps                                                      *)
(***************************************************************************)

\* KeptUntilTTL is not inductive: what waits has to have the time it was accepted at.
Waits(r, p) == \E i \in DOMAIN queues[r][p.box] : queues[r][p.box][i] = [env |-> p.env, at |-> p.at]
KeepInv ==
    \A r \in Relays : \A p \in posted[r] :
        now - p.at <= QUEUE_TTL => Waits(r, p) \/ [env |-> p.env, box |-> p.box] \in taken[r]

\* Who asked about a file is remembered from the last time on.
Remembered(r, p) ==
    \E w \in interests[r] : w.env.kid = p.env.kid /\ w.env.fid = p.env.fid /\ p.at <= w.at
InterestInv ==
    \A r \in Relays : \A p \in posted[r] :
        /\ p.at <= now
        /\ p.env.kind = "request" /\ now - p.at < QUEUE_TTL => Remembered(r, p)

KeptInv == TypeOK /\ KeepInv /\ InterestInv

LEMMA PruneFacts ==
    ASSUME TypeOK, NEW q \in Seq(Waiting)
    PROVE  /\ Prune(q) \in Seq(Waiting)
           /\ \A i \in DOMAIN q : now - q[i].at <= QUEUE_TTL =>
                 \E j \in DOMAIN Prune(q) : Prune(q)[j] = q[i]
<1> DEFINE old == {i \in DOMAIN q : now - q[i].at > QUEUE_TTL}
<1>1. ASSUME NEW i \in DOMAIN q, now - q[i].at <= QUEUE_TTL PROVE i \notin old
  <2>0. q[i] \in Waiting
    OBVIOUS
  <2>1. q[i].at \in Nat /\ now \in Nat /\ QUEUE_TTL \in Nat
    BY <2>0, RelayAssumption DEF TypeOK, Waiting
  <2> QED
    BY <1>1, <2>1
<1>2. Prune(q) = PopWhile(q, old)
  BY DEF Prune
<1> HIDE DEF old
<1>3. /\ PopWhile(q, old) \in Seq(Waiting)
      /\ \A i \in DOMAIN q : i \notin old =>
            \E j \in DOMAIN PopWhile(q, old) : PopWhile(q, old)[j] = q[i]
  BY PopFacts
<1> QED
  BY <1>1, <1>2, <1>3

LEMMA AddresseesTyped ==
    ASSUME TypeOK, NEW r \in Relays, NEW e \in Envelope PROVE Addressees(r, e) \subseteq Inboxes
<1>1. e.kind \in Kinds /\ e.owner \in Inboxes
  BY RelayAssumption DEF Inboxes, IsMessage
<1>2. \A w \in routes[r] \cup interests[r] : w.env.kid \in Inboxes
  BY DEF TypeOK, Waiting, Inboxes, Kids
<1>3. CASE e.kind = "announce"
  BY <1>3 DEF Addressees
<1>4. CASE e.kind \in {"request", "version"}
  BY <1>1, <1>4 DEF Addressees
<1>5. CASE e.kind = "grant"
  BY <1>2, <1>5 DEF Addressees, RouteFor, Younger
<1>6. CASE e.kind = "revoke"
  BY <1>2, <1>6 DEF Addressees, Younger
<1> QED
  BY <1>1, <1>3, <1>4, <1>5, <1>6 DEF Kinds

\* Something is put into some inboxes: it waits there, and what waited goes on waiting.
LEMMA Enqueued ==
    ASSUME TypeOK, NEW r \in Relays, NEW e \in Envelope, NEW boxes \in SUBSET Inboxes,
           enqueue(r, boxes, e), UNCHANGED now
    PROVE  /\ queues' \in [Relays -> [Inboxes -> Seq(Waiting)]]
           /\ posted' \in [Relays -> SUBSET [env : Envelope, box : Inboxes, at : 0 .. MaxTime]]
           /\ \A b \in boxes : \E i \in DOMAIN queues'[r][b] : queues'[r][b][i] = [env |-> e, at |-> now]
           /\ \A q \in Relays, b \in Inboxes : \A i \in DOMAIN queues[q][b] :
                 now - queues[q][b][i].at <= QUEUE_TTL =>
                    \E j \in DOMAIN queues'[q][b] : queues'[q][b][j] = queues[q][b][i]
           /\ \A q \in Relays : \A p \in posted'[q] :
                 p \in posted[q] \/ (q = r /\ p.env = e /\ p.at = now /\ p.box \in boxes)
<1> DEFINE new == [env |-> e, at |-> now]
           Q(b) == IF b \in boxes THEN Append(Prune(queues[r][b]), new) ELSE queues[r][b]
<1>1. new \in Waiting /\ queues \in [Relays -> [Inboxes -> Seq(Waiting)]]
  BY DEF TypeOK, Waiting
<1>2. queues' = [queues EXCEPT ![r] = [b \in Inboxes |-> Q(b)]]
  BY DEF enqueue
<1>3. ASSUME NEW b \in Inboxes
      PROVE  /\ Q(b) \in Seq(Waiting)
             /\ \A i \in DOMAIN queues[r][b] : now - queues[r][b][i].at <= QUEUE_TTL =>
                   \E j \in DOMAIN Q(b) : Q(b)[j] = queues[r][b][i]
             /\ b \in boxes => \E i \in DOMAIN Q(b) : Q(b)[i] = new
  <2> DEFINE q == queues[r][b]
             t == Prune(q)
  <2>1. q \in Seq(Waiting) /\ t \in Seq(Waiting)
    BY <1>1, PruneFacts
  <2>2. CASE b \notin boxes
    BY <2>1, <2>2
  <2>3. CASE b \in boxes
    <3>1. \A i \in DOMAIN q : now - q[i].at <= QUEUE_TTL => \E j \in DOMAIN t : t[j] = q[i]
      BY <2>1, PruneFacts
    <3> HIDE DEF t, q, new
    <3>2. /\ Append(t, new) \in Seq(Waiting) /\ Append(t, new)[Len(t) + 1] = new
          /\ Len(t) + 1 \in DOMAIN Append(t, new)
          /\ \A j \in DOMAIN t : j \in DOMAIN Append(t, new) /\ Append(t, new)[j] = t[j]
      BY <1>1, <2>1
    <3>3. Q(b) = Append(t, new)
      BY <2>3 DEF t, q
    <3>4. \A i \in DOMAIN q : now - q[i].at <= QUEUE_TTL => \E j \in DOMAIN Q(b) : Q(b)[j] = q[i]
      BY <3>1, <3>2, <3>3
    <3> QED
      BY <3>2, <3>3, <3>4 DEF q
  <2> QED
    BY <2>2, <2>3
<1> HIDE DEF Q, new
<1>4. /\ queues' \in [Relays -> [Inboxes -> Seq(Waiting)]]
      /\ \A b \in Inboxes : queues'[r][b] = Q(b)
      /\ \A q \in Relays \ {r} : queues'[q] = queues[q]
  BY <1>1, <1>2, <1>3
<1>5. ASSUME NEW b \in boxes
      PROVE  \E i \in DOMAIN queues'[r][b] : queues'[r][b][i] = [env |-> e, at |-> now]
  BY <1>3, <1>4 DEF new
<1>6. ASSUME NEW q \in Relays, NEW b \in Inboxes, NEW i \in DOMAIN queues[q][b],
             now - queues[q][b][i].at <= QUEUE_TTL
      PROVE  \E j \in DOMAIN queues'[q][b] : queues'[q][b][j] = queues[q][b][i]
  BY <1>3, <1>4, <1>6
<1>7. /\ posted' \in [Relays -> SUBSET [env : Envelope, box : Inboxes, at : 0 .. MaxTime]]
      /\ \A q \in Relays : \A p \in posted'[q] :
            p \in posted[q] \/ (q = r /\ p.env = e /\ p.at = now /\ p.box \in boxes)
  <2> DEFINE more == {[env |-> e, box |-> b, at |-> now] : b \in boxes}
  <2>1. more \subseteq [env : Envelope, box : Inboxes, at : 0 .. MaxTime]
        /\ \A p \in more : p.env = e /\ p.at = now /\ p.box \in boxes
    BY DEF TypeOK
  <2>2. posted' = [posted EXCEPT ![r] = @ \cup more]
        /\ posted \in [Relays -> SUBSET [env : Envelope, box : Inboxes, at : 0 .. MaxTime]]
    BY DEF enqueue, TypeOK
  <2> HIDE DEF more
  <2> QED
    BY <2>1, <2>2
<1> QED
  BY <1>4, <1>5, <1>6, <1>7

RelayTypes ==
    /\ devices \in [Relays -> SUBSET Kids]
    /\ queues \in [Relays -> [Inboxes -> Seq(Waiting)]]
    /\ nonces \in [Relays -> SUBSET Waiting]
    /\ routes \in [Relays -> SUBSET Waiting]
    /\ interests \in [Relays -> SUBSET Waiting]
    /\ calls \in [Relays -> [Kids -> Seq(0 .. MaxTime)]]
    /\ times \in [Relays -> [Envelope -> Nat]]
    /\ posted \in [Relays -> SUBSET [env : Envelope, box : Inboxes, at : 0 .. MaxTime]]
    /\ taken \in [Relays -> SUBSET [env : Envelope, box : Inboxes]]
ClientTypes ==
    /\ now \in 0 .. MaxTime
    /\ ts \in [Envelope -> Unsigned .. 2 * MaxTime]
    /\ sub \in [Envelope -> [endpoint : 1 .. Len(Endpoints) + 1, attempt : 0 .. Attempts,
                             result : Results]]
    /\ read \subseteq Envelope
    /\ faults \in 0 .. MaxFaults

\* One relay's part of the state changes.
LEMMA SetAt ==
    ASSUME NEW S, NEW T, NEW f \in [S -> SUBSET T], NEW x \in S, NEW v \in SUBSET T
    PROVE  [f EXCEPT ![x] = v] \in [S -> SUBSET T]
  OBVIOUS

LEMMA TypeParts == (TypeOK <=> RelayTypes /\ ClientTypes) /\ (TypeOK <=> RelayTypes /\ ClientTypes)'
BY DEF TypeOK, RelayTypes, ClientTypes

\* take_quota and take_nonce.
LEMMA AuthTyped ==
    ASSUME TypeOK, NEW r \in Relays, NEW e \in Envelope, NEW t, authenticate(r, e, t)
    PROVE  /\ calls' \in [Relays -> [Kids -> Seq(0 .. MaxTime)]]
           /\ nonces' \in [Relays -> SUBSET Waiting]
<1>0. e.kid \in Kids /\ now \in 0 .. MaxTime /\ [env |-> e, at |-> now] \in Waiting
  BY DEF Kids, TypeOK, Waiting
<1>1. Recent(r, e.kid) \in Seq(0 .. MaxTime)
  <2>1. calls[r][e.kid] \in Seq(0 .. MaxTime)
    BY <1>0 DEF TypeOK
  <2> QED
    BY <2>1, PopFacts DEF Recent
<1>2. Append(Recent(r, e.kid), now) \in Seq(0 .. MaxTime)
  BY <1>0, <1>1
<1>3. calls' \in [Relays -> [Kids -> Seq(0 .. MaxTime)]]
  <2>1. \/ calls' = calls
        \/ calls' = [calls EXCEPT ![r][e.kid] = Append(Recent(r, e.kid), now)]
        \/ calls' = [calls EXCEPT ![r][e.kid] = Recent(r, e.kid)]
    BY DEF authenticate
  <2>2. calls \in [Relays -> [Kids -> Seq(0 .. MaxTime)]]
    BY DEF TypeOK
  <2>3. ASSUME NEW c \in Seq(0 .. MaxTime), calls' = [calls EXCEPT ![r][e.kid] = c]
        PROVE  calls' \in [Relays -> [Kids -> Seq(0 .. MaxTime)]]
    <3>1. [calls[r] EXCEPT ![e.kid] = c] \in [Kids -> Seq(0 .. MaxTime)]
      BY <1>0, <2>2
    <3>2. calls' = [calls EXCEPT ![r] = [calls[r] EXCEPT ![e.kid] = c]]
      BY <2>2, <2>3
    <3> QED
      BY <2>2, <3>1, <3>2
  <2> QED
    BY <1>1, <1>2, <2>1, <2>2, <2>3
<1>4. nonces' \in [Relays -> SUBSET Waiting]
  <2>1. Younger(nonces[r], NONCE_MEMORY) \subseteq Waiting
    BY DEF Younger, TypeOK
  <2> QED
    BY <1>0, <2>1 DEF authenticate, TypeOK
<1> QED
  BY <1>3, <1>4

\* What a handler does to what is kept: it posts to the addressees or to nobody.
LEMMA HandleCases ==
    ASSUME NEW r, NEW e, NEW t, Handle(r, e, t)
    PROVE  /\ taken' = taken
           /\ \/ /\ UNCHANGED <<queues, posted, interests>>
                 /\ ~(Accepts(r, e, t) /\ e.kind = "revoke") /\ (times' = times \/ Count(r, e))
              \/ /\ e.kind = "request" /\ enqueue(r, Addressees(r, e), e) /\ remember_interest(r, e)
                 /\ Count(r, e)
              \/ /\ e.kind \in {"grant", "version"} /\ enqueue(r, Addressees(r, e), e)
                 /\ UNCHANGED interests /\ Count(r, e)
              \/ /\ e.kind = "revoke" /\ enqueue(r, Addressees(r, e), e)
                 /\ interests' = [interests EXCEPT ![r] = Younger(@, QUEUE_TTL)] /\ Count(r, e)
<1>1. CASE Accepts(r, e, t) /\ Count(r, e) /\ handle_devices(r, e)
  BY <1>1 DEF Handle, handle_devices
<1>2. CASE Accepts(r, e, t) /\ Count(r, e) /\ handle_requests(r, e)
  BY <1>2 DEF Handle, handle_requests
<1>3. CASE Accepts(r, e, t) /\ Count(r, e) /\ handle_grants(r, e)
  BY <1>3 DEF Handle, handle_grants
<1>4. CASE Accepts(r, e, t) /\ Count(r, e) /\ handle_versions(r, e)
  BY <1>4 DEF Handle, handle_versions
<1>5. CASE Accepts(r, e, t) /\ Count(r, e) /\ handle_revocations(r, e)
  BY <1>5 DEF Handle, handle_revocations
<1>6. CASE ~Accepts(r, e, t) /\ times' = times /\ UNCHANGED <<queues, posted, interests>>
  BY <1>6 DEF Handle
<1> QED
  BY <1>1, <1>2, <1>3, <1>4, <1>5, <1>6 DEF Handle, handle_unroutable, Accepts

LEMMA HandleTyped ==
    ASSUME TypeOK, NEW r \in Relays, NEW e \in Envelope, NEW t, Handle(r, e, t), UNCHANGED now
    PROVE  RelayTypes'
<1> DEFINE new == [env |-> e, at |-> now]
<1>0. new \in Waiting /\ e.kid \in Kids /\ authenticate(r, e, t)
  BY DEF TypeOK, Waiting, Kids, Handle
<1>1. calls' \in [Relays -> [Kids -> Seq(0 .. MaxTime)]] /\ nonces' \in [Relays -> SUBSET Waiting]
  BY <1>0, AuthTyped
<1>2. devices' \in [Relays -> SUBSET Kids]
  <2>1. devices' = devices \/ devices' = [devices EXCEPT ![r] = @ \cup {e.kid}]
    BY DEF Handle, handle_devices, handle_requests, handle_grants, handle_versions,
           handle_revocations, handle_unroutable
  <2>2. devices \in [Relays -> SUBSET Kids]
    BY DEF TypeOK
  <2>3. devices[r] \cup {e.kid} \in SUBSET Kids
    BY <1>0, <2>2
  <2> QED
    BY <2>1, <2>2, <2>3, SetAt
<1>3. /\ queues' \in [Relays -> [Inboxes -> Seq(Waiting)]]
      /\ posted' \in [Relays -> SUBSET [env : Envelope, box : Inboxes, at : 0 .. MaxTime]]
  <2>1. UNCHANGED <<queues, posted>> \/ enqueue(r, Addressees(r, e), e)
    BY HandleCases
  <2> QED
    BY <2>1, AddresseesTyped, Enqueued DEF TypeOK
<1>4. routes' \in [Relays -> SUBSET Waiting] /\ interests' \in [Relays -> SUBSET Waiting]
  <2>1. routes' = routes \/ remember_request(r, e) \/ routes' = [routes EXCEPT ![r] = Younger(@, QUEUE_TTL)]
    BY DEF Handle, handle_devices, handle_requests, handle_grants, handle_versions,
           handle_revocations, handle_unroutable
  <2>2. \/ interests' = interests \/ remember_interest(r, e)
        \/ interests' = [interests EXCEPT ![r] = Younger(@, QUEUE_TTL)]
    BY HandleCases
  <2>0. routes \in [Relays -> SUBSET Waiting] /\ interests \in [Relays -> SUBSET Waiting]
    BY DEF TypeOK
  <2>3. routes' \in [Relays -> SUBSET Waiting]
    <3>1. \E v \in SUBSET Waiting : routes' = routes \/ routes' = [routes EXCEPT ![r] = v]
      <4>1. Younger(routes[r], QUEUE_TTL) \in SUBSET Waiting
            /\ {w \in routes[r] : w.env.req # e.req} \cup {new} \in SUBSET Waiting
        BY <1>0, <2>0 DEF Younger
      <4> QED
        BY <2>1, <4>1 DEF remember_request
    <3> QED
      BY <2>0, <3>1, SetAt
  <2>4. interests' \in [Relays -> SUBSET Waiting]
    <3>1. \E v \in SUBSET Waiting : interests' = interests \/ interests' = [interests EXCEPT ![r] = v]
      <4>1. Younger(interests[r], QUEUE_TTL) \in SUBSET Waiting
            /\ {w \in interests[r] : ~(w.env.fid = e.fid /\ w.env.kid = e.kid)} \cup {new} \in SUBSET Waiting
        BY <1>0, <2>0 DEF Younger
      <4> QED
        BY <2>2, <4>1 DEF remember_interest
    <3> QED
      BY <2>0, <3>1, SetAt
  <2> QED
    BY <2>3, <2>4
<1>5. times' \in [Relays -> [Envelope -> Nat]]
  <2>1. times' = times \/ Count(r, e)
    BY HandleCases
  <2>2. times \in [Relays -> [Envelope -> Nat]]
    BY DEF TypeOK
  <2>3. [times[r] EXCEPT ![e] = @ + 1] \in [Envelope -> Nat]
    BY <2>2
  <2>4. CASE Count(r, e)
    <3>1. times' = [times EXCEPT ![r] = [times[r] EXCEPT ![e] = @ + 1]]
      BY <2>2, <2>4 DEF Count
    <3> QED
      BY <2>2, <2>3, <3>1
  <2> QED
    BY <2>1, <2>2, <2>4
<1>6. taken' = taken
  BY HandleCases
<1> QED
  BY <1>1, <1>2, <1>3, <1>4, <1>5, <1>6 DEF RelayTypes, TypeOK

LEMMA HandleKept ==
    ASSUME KeptInv, NEW r \in Relays, NEW e \in Envelope, NEW t, Handle(r, e, t), UNCHANGED now
    PROVE  RelayTypes' /\ KeepInv' /\ InterestInv'
<1>0. TypeOK /\ RelayTypes' /\ taken' = taken /\ now \in Nat /\ QUEUE_TTL \in Nat
  <2>1. TypeOK
    BY DEF KeptInv
  <2>2. now \in Nat /\ QUEUE_TTL \in Nat
    BY <2>1, RelayAssumption DEF TypeOK
  <2> QED
    BY <2>1, <2>2, HandleTyped, HandleCases
<1>1. ASSUME NEW q \in Relays, NEW p \in posted[q] \cup posted'[q]
      PROVE  p \in [env : Envelope, box : Inboxes, at : 0 .. MaxTime]
  BY <1>0 DEF TypeOK, RelayTypes
<1>2. Addressees(r, e) \subseteq Inboxes
  BY <1>0, AddresseesTyped
<1> DEFINE Kept == \A q \in Relays, b \in Inboxes : \A i \in DOMAIN queues[q][b] :
                      now - queues[q][b][i].at <= QUEUE_TTL =>
                         \E j \in DOMAIN queues'[q][b] : queues'[q][b][j] = queues[q][b][i]
           Fresh == \A q \in Relays : \A p \in posted'[q] :
                      p \in posted[q] \/ (q = r /\ p.env = e /\ p.at = now /\ p.box \in Addressees(r, e))
           There == \A b \in Addressees(r, e) :
                      \E i \in DOMAIN queues'[r][b] : queues'[r][b][i] = [env |-> e, at |-> now]
<1>5. ASSUME enqueue(r, Addressees(r, e), e) PROVE Kept /\ Fresh /\ There
  BY <1>0, <1>2, <1>5, Enqueued
<1> HIDE DEF Kept
<1>3. KeepInv'
  <2>1. CASE UNCHANGED <<queues, posted>>
    BY <1>0, <2>1 DEF KeptInv, KeepInv, Waits
  <2>2. CASE enqueue(r, Addressees(r, e), e)
    <3> SUFFICES ASSUME NEW q \in Relays, NEW p \in posted'[q], now - p.at <= QUEUE_TTL
                 PROVE  \/ \E i \in DOMAIN queues'[q][p.box] : queues'[q][p.box][i] = [env |-> p.env, at |-> p.at]
                        \/ [env |-> p.env, box |-> p.box] \in taken[q]
      BY <1>0 DEF KeepInv, Waits
    <3>1. CASE p \in posted[q]
      <4>1. Waits(q, p) \/ [env |-> p.env, box |-> p.box] \in taken[q]
        BY <3>1 DEF KeptInv, KeepInv
      <4>2. ASSUME Waits(q, p)
            PROVE  \E i \in DOMAIN queues'[q][p.box] : queues'[q][p.box][i] = [env |-> p.env, at |-> p.at]
        <5>1. PICK i \in DOMAIN queues[q][p.box] : queues[q][p.box][i] = [env |-> p.env, at |-> p.at]
          BY <4>2 DEF Waits
        <5>2. p.box \in Inboxes /\ now - queues[q][p.box][i].at <= QUEUE_TTL
          BY <1>1, <5>1
        <5>3. \E j \in DOMAIN queues'[q][p.box] : queues'[q][p.box][j] = queues[q][p.box][i]
          BY <1>5, <2>2, <5>1, <5>2 DEF Kept
        <5> QED
          BY <5>1, <5>3
      <4> QED
        BY <4>1, <4>2
    <3>2. CASE q = r /\ p.env = e /\ p.at = now /\ p.box \in Addressees(r, e)
      BY <1>5, <2>2, <3>2
    <3> QED
      BY <1>5, <2>2, <3>1, <3>2
  <2> QED
    BY <2>1, <2>2, HandleCases
<1>4. InterestInv'
  <2>4. ASSUME NEW q \in Relays, NEW p \in posted'[q] PROVE p.at <= now
    <3>1. p \in posted[q] \/ p.at = now
      BY <1>5, HandleCases
    <3> QED
      BY <1>0, <3>1 DEF KeptInv, InterestInv
  <2> SUFFICES ASSUME NEW q \in Relays, NEW p \in posted'[q], p.env.kind = "request", now - p.at < QUEUE_TTL
               PROVE  \E w \in interests'[q] : w.env.kid = p.env.kid /\ w.env.fid = p.env.fid /\ p.at <= w.at
    BY <1>0, <2>4 DEF InterestInv, Remembered
  <2>0. /\ p.at \in Nat /\ interests \in [Relays -> SUBSET Waiting]
        /\ \A w \in Waiting : w.at \in Nat
    <3>1. p \in [env : Envelope, box : Inboxes, at : 0 .. MaxTime]
      BY <1>1
    <3>2. MaxTime \in Nat /\ interests \in [Relays -> SUBSET Waiting]
      BY <1>0, RelayAssumption DEF TypeOK
    <3> QED
      BY <3>1, <3>2 DEF Waiting
  <2>1. \/ p \in posted[q]
        \/ /\ q = r /\ p.env = e /\ p.at = now /\ enqueue(r, Addressees(r, e), e)
    BY <1>5, HandleCases
  <2>2. CASE p \in posted[q]
    <3>1. PICK w \in interests[q] : w.env.kid = p.env.kid /\ w.env.fid = p.env.fid /\ p.at <= w.at
      BY <2>2 DEF KeptInv, InterestInv, Remembered
    <3>2. w.at \in Nat
      BY <2>0, <3>1
    <3>3. CASE interests' = interests
      BY <3>1, <3>3
    <3>4. CASE remember_interest(r, e)
      <4>1. [env |-> e, at |-> now] \in interests'[r] /\ now \in 0 .. MaxTime
        BY <1>0, <2>0, <3>4 DEF remember_interest, TypeOK
      <4>2. CASE q = r /\ w.env.fid = e.fid /\ w.env.kid = e.kid
        <5>1. p.at <= now
          BY <2>2 DEF KeptInv, InterestInv
        <5> QED
          BY <3>1, <4>1, <4>2, <5>1
      <4>3. CASE ~(q = r /\ w.env.fid = e.fid /\ w.env.kid = e.kid)
        BY <2>0, <3>1, <3>4, <4>3 DEF remember_interest
      <4> QED
        BY <4>2, <4>3
    <3>5. CASE interests' = [interests EXCEPT ![r] = Younger(@, QUEUE_TTL)]
      <4>1. now - w.at < QUEUE_TTL
        BY <1>0, <2>0, <3>1, <3>2
      <4>2. w \in interests'[q]
        BY <2>0, <3>1, <3>5, <4>1 DEF Younger
      <4> QED
        BY <3>1, <4>2
    <3> QED
      BY <3>3, <3>4, <3>5, HandleCases
  <2>3. CASE q = r /\ p.env = e /\ p.at = now /\ p \notin posted[q]
    <3>1. remember_interest(r, e)
      BY <2>3, HandleCases
    <3>2. [env |-> e, at |-> now] \in interests'[r]
      BY <2>0, <3>1 DEF remember_interest
    <3> QED
      BY <1>0, <2>3, <3>2
  <2> QED
    BY <2>1, <2>2, <2>3
<1> QED
  BY <1>0, <1>3, <1>4

\* The client: the next attempt, the next endpoint, or a result.
LEMMA SubmitTyped ==
    ASSUME TypeOK, NEW e \in Envelope, Trying(e), NEW answer, submit(e, answer),
           answer \in Results \cup {"ok", "replayed"}
    PROVE  sub' \in [Envelope -> [endpoint : 1 .. Len(Endpoints) + 1, attempt : 0 .. Attempts,
                                  result : Results]]
<1> DEFINE Sub == [endpoint : 1 .. Len(Endpoints) + 1, attempt : 0 .. Attempts, result : Results]
           s == sub[e]
           next == IF s.attempt + 1 < Attempts
                   THEN [s EXCEPT !.attempt = @ + 1]
                   ELSE [endpoint |-> s.endpoint + 1, attempt |-> 0,
                         result |-> IF s.endpoint = Len(Endpoints) THEN "unreachable" ELSE ""]
<1>1. /\ sub \in [Envelope -> Sub] /\ s \in Sub /\ s.endpoint \in 1 .. Len(Endpoints)
      /\ Len(Endpoints) \in Nat /\ Attempts \in Nat
  <2>1. Len(Endpoints) \in Nat /\ DOMAIN Endpoints = 1 .. Len(Endpoints) /\ Attempts \in Nat
    BY RelayAssumption
  <2>2. sub \in [Envelope -> Sub] /\ s.endpoint \in DOMAIN Endpoints
    BY DEF TypeOK, Trying
  <2> QED
    BY <2>1, <2>2
<1>2. next \in Sub
  <2>1. CASE s.attempt + 1 < Attempts
    <3>1. s.attempt + 1 \in 0 .. Attempts
      BY <1>1, <2>1
    <3> QED
      BY <1>1, <2>1, <3>1
  <2>2. CASE ~(s.attempt + 1 < Attempts)
    <3>1. s.endpoint + 1 \in 1 .. Len(Endpoints) + 1 /\ 0 \in 0 .. Attempts
      BY <1>1
    <3> QED
      BY <2>2, <3>1 DEF Results
  <2> QED
    BY <2>1, <2>2
<1>3. \A x \in Results : [s EXCEPT !.result = x] \in Sub
  BY <1>1
<1>4. \E v \in Sub : sub' = [sub EXCEPT ![e] = v]
  <2>1. \/ sub' = [sub EXCEPT ![e] = next]
        \/ \E x \in Results : sub' = [sub EXCEPT ![e] = [s EXCEPT !.result = x]]
    <3>1. CASE answer = "ok"
      <4>1. sub' = [sub EXCEPT ![e] = [s EXCEPT !.result = "queued"]]
        BY <3>1 DEF submit, Retryable
      <4> QED
        BY <4>1 DEF Results
    <3>2. CASE answer = "replayed"
      <4>1. sub' = [sub EXCEPT ![e] = [s EXCEPT !.result = "already_delivered"]]
        BY <3>2 DEF submit, Retryable
      <4> QED
        BY <4>1 DEF Results
    <3>3. CASE answer \in Retryable
      BY <3>3 DEF submit, Retryable
    <3>4. CASE answer \in Results \ Retryable /\ answer # "ok" /\ answer # "replayed"
      BY <3>4 DEF submit
    <3> QED
      BY <3>1, <3>2, <3>3, <3>4
  <2> QED
    BY <1>2, <1>3, <2>1
<1> HIDE DEF Sub
<1>5. sub' \in [Envelope -> Sub]
  BY <1>1, <1>4
<1> QED
  BY <1>5 DEF Sub

LEMMA AckTyped == ASSUME NEW r, NEW e, NEW t PROVE Ack(r, e, t) \in Results \cup {"ok", "replayed"}
BY DEF Ack, Results, Verified, Authentic

LEMMA SignTyped ==
    ASSUME TypeOK, NEW e \in Envelope, sign(e) PROVE ts' \in [Envelope -> Unsigned .. 2 * MaxTime]
<1>1. e.kid \in Kids
  BY DEF Kids
<1>2. Offset[e.kid] \in -MaxTime .. MaxTime /\ MaxTime \in Nat /\ now \in 0 .. MaxTime
  BY <1>1, RelayAssumption DEF TypeOK
<1>3. now + Offset[e.kid] \in Unsigned .. 2 * MaxTime
  BY <1>2 DEF Unsigned
<1>4. ts \in [Envelope -> Unsigned .. 2 * MaxTime]
  BY DEF TypeOK
<1>5. Stamp(e) \in Unsigned .. 2 * MaxTime
  BY <1>3, <1>4 DEF Stamp
<1> QED
  BY <1>4, <1>5 DEF sign

LEMMA FaultTyped == ASSUME TypeOK, Fault PROVE faults' \in 0 .. MaxFaults
BY RelayAssumption DEF TypeOK, Fault

LEMMA AttemptKept ==
    ASSUME KeptInv, NEW e \in Envelope, RequestLost(e) \/ AnswerLost(e) \/ submit_once(e)
    PROVE  KeptInv'
<1> DEFINE r == Endpoints[sub[e].endpoint]
<1>0. TypeOK /\ Trying(e) /\ sign(e) /\ now' = now /\ read' = read
  BY DEF KeptInv, RequestLost, AnswerLost, submit_once
<1>1. ts' \in [Envelope -> Unsigned .. 2 * MaxTime]
  BY <1>0, SignTyped
<1>2. faults' \in 0 .. MaxFaults
  <2>1. faults' = faults \/ Fault
    BY DEF RequestLost, AnswerLost, submit_once
  <2> QED
    BY <1>0, <2>1, FaultTyped DEF TypeOK
<1>3. PICK answer \in Results \cup {"ok", "replayed"} : submit(e, answer)
  BY AckTyped DEF RequestLost, AnswerLost, submit_once, Results
<1>4. sub' \in [Envelope -> [endpoint : 1 .. Len(Endpoints) + 1, attempt : 0 .. Attempts,
                             result : Results]]
  BY <1>0, <1>3, SubmitTyped
<1>5. ClientTypes'
  BY <1>0, <1>1, <1>2, <1>4 DEF ClientTypes, TypeOK, Unsigned
<1>6. RelayTypes' /\ KeepInv' /\ InterestInv'
  <2>1. CASE RequestLost(e)
    <3>1. UNCHANGED relayVars
      BY <2>1 DEF RequestLost, relayVars
    <3>2. RelayTypes'
      BY <1>0, <3>1 DEF relayVars, TypeOK, RelayTypes
    <3>3. KeepInv' /\ InterestInv'
      BY <1>0, <3>1 DEF relayVars, KeptInv, KeepInv, Waits, InterestInv, Remembered
    <3> QED
      BY <3>2, <3>3
  <2>2. CASE Handle(r, e, Stamp(e))
    <3>1. r \in Relays
      BY <1>0 DEF Trying, Relays
    <3> QED
      BY <1>0, <2>2, <3>1, HandleKept
  <2> QED
    BY <2>1, <2>2 DEF AnswerLost, submit_once
<1> QED
  BY <1>5, <1>6, TypeParts DEF KeptInv

LEMMA RepeatedKept ==
    ASSUME KeptInv, NEW r \in Relays, NEW e \in Envelope, Repeated(r, e) PROVE KeptInv'
<1>1. TypeOK /\ Fault /\ Handle(r, e, ts[e]) /\ UNCHANGED <<now, ts, sub, read>>
  BY DEF KeptInv, Repeated
<1>2. faults' \in 0 .. MaxFaults
  BY <1>1, FaultTyped
<1>3. ClientTypes'
  BY <1>1, <1>2 DEF ClientTypes, TypeOK, Unsigned
<1>4. RelayTypes' /\ KeepInv' /\ InterestInv'
  BY <1>1, HandleKept
<1> QED
  BY <1>3, <1>4, TypeParts DEF KeptInv

\* drain() hands out everything that is not past its time.
LEMMA InboxKept ==
    ASSUME KeptInv, NEW r \in Relays, NEW b \in Inboxes, inbox(r, b) PROVE KeptInv'
<1> DEFINE out == {w \in {queues[r][b][i] : i \in DOMAIN queues[r][b]} : now - w.at <= QUEUE_TTL}
           gone == {[env |-> w.env, box |-> b] : w \in out}
<1>0. /\ TypeOK /\ queues \in [Relays -> [Inboxes -> Seq(Waiting)]]
      /\ taken \in [Relays -> SUBSET [env : Envelope, box : Inboxes]]
  BY DEF KeptInv, TypeOK
<1>1. /\ queues' = [queues EXCEPT ![r][b] = <<>>]
      /\ taken' = [taken EXCEPT ![r] = @ \cup gone]
      /\ fetch_inbox({w.env : w \in out})
      /\ UNCHANGED <<devices, nonces, routes, interests, calls, now, ts, sub, times, posted>>
  BY DEF inbox, drain
<1>2. out \subseteq Waiting /\ gone \in SUBSET [env : Envelope, box : Inboxes]
      /\ {w.env : w \in out} \subseteq Envelope
  <2>1. out \subseteq Waiting
    <3>1. queues[r][b] \in Seq(Waiting)
      BY <1>0
    <3> QED
      BY <3>1
  <2>2. \A w \in out : w.env \in Envelope
    BY <2>1 DEF Waiting
  <2> HIDE DEF out
  <2> QED
    BY <2>1, <2>2
<1>3. /\ queues' \in [Relays -> [Inboxes -> Seq(Waiting)]]
      /\ \A q \in Relays, c \in Inboxes : q # r \/ c # b => queues'[q][c] = queues[q][c]
  <2>1. [queues[r] EXCEPT ![b] = <<>>] \in [Inboxes -> Seq(Waiting)]
    BY <1>0
  <2>2. queues' = [queues EXCEPT ![r] = [queues[r] EXCEPT ![b] = <<>>]]
    BY <1>0, <1>1
  <2> QED
    BY <1>0, <2>1, <2>2
<1> HIDE DEF gone
<1>4. /\ taken' \in [Relays -> SUBSET [env : Envelope, box : Inboxes]]
      /\ gone \subseteq taken'[r] /\ \A q \in Relays : taken[q] \subseteq taken'[q]
  <2>1. taken[r] \cup gone \in SUBSET [env : Envelope, box : Inboxes]
    BY <1>0, <1>2
  <2> QED
    BY <1>0, <1>1, <2>1, SetAt
<1>5. read' \subseteq Envelope /\ faults' \in 0 .. MaxFaults
  BY <1>0, <1>1, <1>2, FaultTyped DEF fetch_inbox, TypeOK
<1>6. TypeOK'
  BY <1>0, <1>1, <1>3, <1>4, <1>5 DEF TypeOK, Unsigned
<1>7. InterestInv'
  BY <1>1 DEF KeptInv, InterestInv, Remembered
<1>8. KeepInv'
  <2> SUFFICES ASSUME NEW q \in Relays, NEW p \in posted[q], now - p.at <= QUEUE_TTL
               PROVE  \/ \E i \in DOMAIN queues'[q][p.box] : queues'[q][p.box][i] = [env |-> p.env, at |-> p.at]
                      \/ [env |-> p.env, box |-> p.box] \in taken'[q]
    BY <1>1 DEF KeepInv, Waits
  <2>0. p \in [env : Envelope, box : Inboxes, at : 0 .. MaxTime]
    BY <1>0 DEF TypeOK
  <2>1. CASE [env |-> p.env, box |-> p.box] \in taken[q]
    BY <1>4, <2>1
  <2>2. CASE Waits(q, p)
    <3>1. PICK i \in DOMAIN queues[q][p.box] : queues[q][p.box][i] = [env |-> p.env, at |-> p.at]
      BY <2>2 DEF Waits
    <3>2. CASE q = r /\ p.box = b
      <4>1. [env |-> p.env, at |-> p.at] \in out
        BY <3>1, <3>2
      <4>2. [env |-> p.env, box |-> p.box] \in gone
        BY <3>2, <4>1 DEF gone
      <4> QED
        BY <1>4, <3>2, <4>2
    <3>3. CASE q # r \/ p.box # b
      BY <1>3, <2>0, <3>1, <3>3
    <3> QED
      BY <3>2, <3>3
  <2> QED
    BY <2>1, <2>2 DEF KeptInv, KeepInv
<1> QED
  BY <1>6, <1>7, <1>8 DEF KeptInv

LEMMA RestartKept == ASSUME KeptInv, NEW r \in Relays, Restart(r) PROVE KeptInv'
<1>0. TypeOK /\ faults' \in 0 .. MaxFaults
  BY FaultTyped DEF KeptInv, Restart
<1>1. RelayTypes'
  <2>1. /\ devices' \in [Relays -> SUBSET Kids] /\ nonces' \in [Relays -> SUBSET Waiting]
        /\ routes' \in [Relays -> SUBSET Waiting] /\ interests' \in [Relays -> SUBSET Waiting]
        /\ posted' \in [Relays -> SUBSET [env : Envelope, box : Inboxes, at : 0 .. MaxTime]]
        /\ taken' \in [Relays -> SUBSET [env : Envelope, box : Inboxes]]
    BY <1>0, SetAt DEF TypeOK, Restart
  <2>2. queues' \in [Relays -> [Inboxes -> Seq(Waiting)]]
    <3>1. [b \in Inboxes |-> <<>>] \in [Inboxes -> Seq(Waiting)]
      OBVIOUS
    <3> QED
      BY <1>0, <3>1 DEF TypeOK, Restart
  <2>3. calls' \in [Relays -> [Kids -> Seq(0 .. MaxTime)]]
    <3>1. [k \in Kids |-> <<>>] \in [Kids -> Seq(0 .. MaxTime)]
      OBVIOUS
    <3> QED
      BY <1>0, <3>1 DEF TypeOK, Restart
  <2>4. times' \in [Relays -> [Envelope -> Nat]]
    BY <1>0 DEF TypeOK, Restart
  <2> QED
    BY <2>1, <2>2, <2>3, <2>4 DEF RelayTypes
<1>2. ClientTypes' /\ now' = now
  BY <1>0 DEF ClientTypes, TypeOK, Restart, Unsigned
<1>3. /\ posted'[r] = {}
      /\ \A q \in Relays \ {r} : /\ posted'[q] = posted[q] /\ queues'[q] = queues[q]
                                 /\ taken'[q] = taken[q] /\ interests'[q] = interests[q]
  BY <1>0 DEF TypeOK, Restart
<1>4. KeepInv' /\ InterestInv'
  BY <1>2, <1>3 DEF KeptInv, KeepInv, Waits, InterestInv, Remembered
<1> QED
  BY <1>1, <1>2, <1>4, TypeParts DEF KeptInv

LEMMA TickKept == ASSUME KeptInv, Tick PROVE KeptInv'
<1>0. /\ TypeOK /\ now \in 0 .. MaxTime /\ now' = now + 1 /\ now < MaxTime /\ MaxTime \in Nat
      /\ QUEUE_TTL \in Nat /\ UNCHANGED <<posted, queues, taken, interests>>
  BY RelayAssumption DEF KeptInv, TypeOK, Tick
<1>1. TypeOK'
  <2>1. now' \in 0 .. MaxTime
    BY <1>0
  <2> QED
    BY <1>0, <2>1 DEF TypeOK, Tick, Unsigned
<1>2. \A r \in Relays : \A p \in posted[r] : p.at \in Nat
  BY <1>0 DEF TypeOK
<1>3. KeepInv' /\ InterestInv'
  <2>1. ASSUME NEW r \in Relays, NEW p \in posted[r]
        PROVE  /\ now' - p.at <= QUEUE_TTL => now - p.at <= QUEUE_TTL
               /\ now' - p.at < QUEUE_TTL => now - p.at < QUEUE_TTL
               /\ p.at <= now => p.at <= now'
    BY <1>0, <1>2
  <2> QED
    BY <1>0, <2>1 DEF KeptInv, KeepInv, Waits, InterestInv, Remembered
<1> QED
  BY <1>1, <1>3 DEF KeptInv

LEMMA KeptInvariance == Spec => []KeptInv
<1>1. Init => KeptInv
  <2> SUFFICES ASSUME Init PROVE KeptInv
    OBVIOUS
  <2>1. RelayTypes
    <3>1. queues \in [Relays -> [Inboxes -> Seq(Waiting)]] /\ calls \in [Relays -> [Kids -> Seq(0 .. MaxTime)]]
      <4>1. [b \in Inboxes |-> <<>>] \in [Inboxes -> Seq(Waiting)]
            /\ [k \in Kids |-> <<>>] \in [Kids -> Seq(0 .. MaxTime)]
        OBVIOUS
      <4> QED
        BY <4>1 DEF Init
    <3> QED
      BY <3>1 DEF Init, RelayTypes
  <2>2. ClientTypes
    <3>1. Len(Endpoints) \in Nat /\ Attempts \in Nat /\ MaxTime \in Nat /\ MaxFaults \in Nat
      BY RelayAssumption
    <3>2. 1 \in 1 .. Len(Endpoints) + 1 /\ 0 \in 0 .. Attempts /\ "" \in Results
      BY <3>1 DEF Results
    <3>3. Unsigned \in Unsigned .. 2 * MaxTime
      BY <3>1 DEF Unsigned
    <3>4. now \in 0 .. MaxTime /\ faults \in 0 .. MaxFaults /\ read \subseteq Envelope
      <4>1. now = 0 /\ faults = 0 /\ read = {}
        BY DEF Init
      <4> QED
        BY <3>1, <4>1
    <3>5. ts \in [Envelope -> Unsigned .. 2 * MaxTime]
      BY <3>3 DEF Init
    <3>6. [endpoint |-> 1, attempt |-> 0, result |-> ""] \in
             [endpoint : 1 .. Len(Endpoints) + 1, attempt : 0 .. Attempts, result : Results]
      BY <3>2
    <3> QED
      BY <3>4, <3>5, <3>6 DEF Init, ClientTypes
  <2>3. \A r \in Relays : posted[r] = {}
    BY DEF Init
  <2> QED
    BY <2>1, <2>2, <2>3, TypeParts DEF KeptInv, KeepInv, InterestInv
<1>2. KeptInv /\ [Next]_vars => KeptInv'
  <2> SUFFICES ASSUME KeptInv, [Next]_vars PROVE KeptInv'
    OBVIOUS
  <2>1. CASE Next
    BY <2>1, AttemptKept, RepeatedKept, InboxKept, RestartKept, TickKept DEF Next
  <2>2. CASE UNCHANGED vars
    <3>1. TypeOK'
      BY <2>2 DEF KeptInv, TypeOK, vars, Unsigned
    <3>2. KeepInv' /\ InterestInv'
      BY <2>2 DEF KeptInv, KeepInv, Waits, InterestInv, Remembered, vars
    <3> QED
      BY <3>1, <3>2 DEF KeptInv
  <2> QED
    BY <2>1, <2>2
<1> QED
  BY <1>1, <1>2, PTL DEF Spec

\* The relay and its client keep their types: the client never tries past its last endpoint and
\* ends with one of the results it can report (relay-client, submit).
THEOREM RelayTypeTheorem == Spec => []TypeOK
<1>1. KeptInv => TypeOK
  BY DEF KeptInv
<1> QED
  BY <1>1, KeptInvariance, PTL

\* What a relay accepted waits in its inbox or was handed out until QUEUE_TTL has passed: the
\* pruning of enqueue() and the drain of another reader lose nothing earlier (state.rs).
THEOREM KeptTheorem == Spec => []KeptUntilTTL
<1>1. KeptInv => KeptUntilTTL
  <2> SUFFICES ASSUME KeptInv, NEW r \in Relays, NEW p \in posted[r], now - p.at <= QUEUE_TTL
               PROVE  \/ \E i \in DOMAIN queues[r][p.box] : queues[r][p.box][i].env = p.env
                      \/ [env |-> p.env, box |-> p.box] \in taken[r]
    BY DEF KeptUntilTTL
  <2>1. Waits(r, p) => \E i \in DOMAIN queues[r][p.box] : queues[r][p.box][i].env = p.env
    BY DEF Waits
  <2> QED
    BY <2>1 DEF KeptInv, KeepInv
<1> QED
  BY <1>1, KeptInvariance, PTL

\* A revoke that a relay accepts is put into the inbox of every device whose request about the
\* file is younger than QUEUE_TTL (state.rs, interested and remember_interest).
THEOREM RevokeTheorem == Spec => RevokeReachesAskers
<1> DEFINE Reaches ==
        \A r \in Relays, e \in Envelope :
          (e.kind = "revoke" /\ times'[r][e] > times[r][e]) =>
              \A p \in posted[r] :
                  (p.env.kind = "request" /\ p.env.fid = e.fid /\ now - p.at < QUEUE_TTL) =>
                      \E i \in DOMAIN queues'[r][p.env.kid] : queues'[r][p.env.kid][i].env = e
<1>1. KeptInv /\ [Next]_vars => [Reaches]_vars
  <2> SUFFICES ASSUME KeptInv, [Next]_vars, NEW r \in Relays, NEW e \in Envelope, e.kind = "revoke",
                      times'[r][e] > times[r][e], NEW p \in posted[r], p.env.kind = "request",
                      p.env.fid = e.fid, now - p.at < QUEUE_TTL
               PROVE  \E i \in DOMAIN queues'[r][p.env.kid] : queues'[r][p.env.kid][i].env = e
    OBVIOUS
  <2>0. TypeOK /\ times \in [Relays -> [Envelope -> Nat]]
    BY DEF KeptInv, TypeOK
  <2>1. ASSUME NEW q \in Relays, NEW d \in Envelope, Count(q, d) PROVE q = r /\ d = e
    <3>1. times'[r][e] # times[r][e]
      BY <2>0
    <3> QED
      BY <2>0, <2>1, <3>1 DEF Count
  <2>2. times' # times
    BY <2>0
  <2>3. \E q \in Relays, d \in Envelope : \E t : Handle(q, d, t) /\ now' = now
    <3>1. CASE \E q \in Relays : Restart(q)
      <4>1. PICK q \in Relays : times' = [times EXCEPT ![q] = [d \in Envelope |-> 0]]
        BY <3>1 DEF Restart
      <4>2. times'[r][e] = 0 \/ times'[r][e] = times[r][e]
        BY <2>0, <4>1
      <4> QED
        BY <2>0, <4>2
    <3>2. ASSUME NEW d \in Envelope, AnswerLost(d) \/ submit_once(d)
          PROVE  Endpoints[sub[d].endpoint] \in Relays
                 /\ Handle(Endpoints[sub[d].endpoint], d, Stamp(d)) /\ now' = now
      BY <3>2 DEF AnswerLost, submit_once, Trying, Relays
    <3>3. ASSUME NEW d \in Envelope, RequestLost(d) PROVE FALSE
      BY <2>2, <3>3 DEF RequestLost
    <3>4. ASSUME NEW q \in Relays, NEW d \in Envelope, Repeated(q, d)
          PROVE  Handle(q, d, ts[d]) /\ now' = now
      BY <3>4 DEF Repeated
    <3>5. ASSUME NEW q \in Relays, NEW b \in Inboxes, inbox(q, b) PROVE FALSE
      BY <2>2, <3>5 DEF inbox
    <3>6. ASSUME Tick \/ UNCHANGED vars PROVE FALSE
      BY <2>2, <3>6 DEF Tick, vars
    <3> QED
      BY <3>1, <3>2, <3>3, <3>4, <3>5, <3>6 DEF Next
  <2> PICK q \in Relays, d \in Envelope : \E t : Handle(q, d, t) /\ now' = now
    BY <2>3
  <2>4. PICK t : Handle(q, d, t) /\ now' = now
    OBVIOUS
  <2>5. Count(q, d)
    BY <2>2, <2>4 DEF Handle
  <2>6. q = r /\ d = e
    BY <2>1, <2>5
  <2>7. enqueue(r, Addressees(r, e), e)
    BY <2>2, <2>4, <2>6 DEF Handle, handle_devices, handle_requests, handle_grants, handle_versions,
       handle_revocations
  <2>8. p.env.kid \in Addressees(r, e)
    <3>1. PICK w \in interests[r] : w.env.kid = p.env.kid /\ w.env.fid = p.env.fid /\ p.at <= w.at
      BY DEF KeptInv, InterestInv, Remembered
    <3>2. p.at \in Nat /\ w.at \in Nat /\ now \in Nat /\ QUEUE_TTL \in Nat
      <4>1. /\ p \in [env : Envelope, box : Inboxes, at : 0 .. MaxTime] /\ w \in Waiting
            /\ now \in 0 .. MaxTime /\ MaxTime \in Nat /\ QUEUE_TTL \in Nat
        BY <2>0, <3>1, RelayAssumption DEF TypeOK
      <4> QED
        BY <4>1 DEF Waiting
    <3>3. now - w.at < QUEUE_TTL
      BY <3>1, <3>2
    <3>4. w \in {i \in Younger(interests[r], QUEUE_TTL) : i.env.fid = e.fid}
      BY <3>1, <3>3 DEF Younger
    <3> QED
      BY <3>1, <3>4 DEF Addressees
  <2>9. PICK i \in DOMAIN queues'[r][p.env.kid] : queues'[r][p.env.kid][i] = [env |-> e, at |-> now]
    BY <2>0, <2>4, <2>7, <2>8, AddresseesTyped, Enqueued
  <2> QED
    BY <2>9
<1> QED
  BY <1>1, KeptInvariance, PTL DEF Spec, RevokeReachesAskers

=============================================================================
