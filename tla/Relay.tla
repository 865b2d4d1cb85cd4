-------------------------------- MODULE Relay --------------------------------
(***************************************************************************)
(* apps/relay and the client of crates/zbacs-relay-client: signed          *)
(* envelopes between owners and devices over one or more relays.  A relay  *)
(* keeps everything in memory and checks an envelope by signer, clock,     *)
(* quota and nonce, in that order.  The client sends the same bytes on     *)
(* every attempt, endpoint after endpoint.  The network loses and repeats  *)
(* requests; a relay may restart.                                          *)
(*                                                                         *)
(* A handler is one step.  It takes the mutex several times, but the       *)
(* registry only grows, the nonce is tested and taken under one lock, and  *)
(* nobody can name a request before its last lock has queued it.           *)
(***************************************************************************)
EXTENDS Integers, Sequences, FiniteSets

CONSTANTS
    Endpoints,              \* the relays, in the order the client tries them
    Envelope,               \* what clients sign: [kind, kid, owner, fid, req] records
    Attempts,               \* attempts_per_endpoint; 3 in the code
    MAX_SKEW, NONCE_MEMORY, QUEUE_TTL,  \* 120 s, 300 s, 24 h
    Minute, Hour, RATE_PER_MINUTE, RATE_PER_HOUR,
    MaxTime,                \* bound of the model on the clock
    Offset,                 \* Offset[k]: how far the clock of device k is ahead
    MaxFaults               \* bound of the model on losses, repetitions and restarts

VARIABLES
    devices,        \* devices[r]: kids registered at relay r
    queues,         \* queues[r][inbox]: what waits, oldest first
    nonces,         \* nonces[r]: the envelopes remembered, with when
    routes,         \* request_routes: who asked, by request nonce
    interests,      \* who asked about a file
    calls,          \* calls[r][kid]: times of the calls the quota counts
    now,            \* the relays' clock
    ts,             \* ts[e]: the time its sender signed into e; Unsigned before that
    sub,            \* sub[e]: where the submission of e stands
    read,           \* the envelopes clients have read out of an inbox
    faults,         \* what went wrong so far, bounded by MaxFaults
    \* history
    times,          \* times[r][e]: how often r accepted e in its present life
    posted,         \* posted[r]: what r put into which inbox, and when
    taken           \* taken[r]: what was drained from which inbox

relayVars == <<devices, queues, nonces, routes, interests, calls, times, posted, taken>>
vars == <<devices, queues, nonces, routes, interests, calls, now, ts, sub, read,
          faults, times, posted, taken>>

Relays == {Endpoints[i] : i \in DOMAIN Endpoints}
Kids == {e.kid : e \in Envelope}
Inboxes == Kids \cup {e.owner : e \in Envelope}
Unsigned == -1 - MaxTime    \* no clock shows this
Signed == {e \in Envelope : ts[e] # Unsigned}

Kinds == {"announce", "request", "grant", "version", "revoke"}

\* DeviceAnnounce, AccessRequest, GrantMsg, VersionMsg and Revoke: who signs, and what the
\* relay and the reader go by.  Nothing reads a field that the kind does not have.
IsMessage(e) == DOMAIN e = {"kind", "kid", "owner", "fid", "req"} /\ e.kind \in Kinds

ASSUME RelayAssumption ==
    /\ Endpoints \in Seq(Relays) /\ Endpoints # <<>>
    /\ \A e \in Envelope : IsMessage(e)
    /\ Attempts \in Nat \ {0}
    /\ MAX_SKEW \in Nat /\ QUEUE_TTL \in Nat /\ NONCE_MEMORY \in Nat
    /\ 2 * MAX_SKEW < NONCE_MEMORY
    /\ Offset \in [Kids -> -MaxTime .. MaxTime]
    /\ MaxTime \in Nat /\ MaxFaults \in Nat
    /\ Minute \in Nat /\ Hour \in Nat
    /\ RATE_PER_MINUTE \in Nat /\ RATE_PER_HOUR \in Nat

Waiting == [env : Envelope, at : 0 .. MaxTime]
Results == {"", "queued", "already_delivered", "unreachable", "unknown_device",
            "stale", "unauthenticated", "rate_limited", "not_found"}

TypeOK ==
    /\ devices \in [Relays -> SUBSET Kids]
    /\ queues \in [Relays -> [Inboxes -> Seq(Waiting)]]
    /\ nonces \in [Relays -> SUBSET Waiting]
    /\ routes \in [Relays -> SUBSET Waiting]
    /\ interests \in [Relays -> SUBSET Waiting]
    /\ calls \in [Relays -> [Kids -> Seq(0 .. MaxTime)]]
    /\ now \in 0 .. MaxTime
    /\ ts \in [Envelope -> Unsigned .. 2 * MaxTime]
    /\ sub \in [Envelope -> [endpoint : 1 .. Len(Endpoints) + 1, attempt : 0 .. Attempts,
                             result : Results]]
    /\ read \subseteq Envelope
    /\ faults \in 0 .. MaxFaults
    /\ times \in [Relays -> [Envelope -> Nat]]
    /\ posted \in [Relays -> SUBSET [env : Envelope, box : Inboxes, at : 0 .. MaxTime]]
    /\ taken \in [Relays -> SUBSET [env : Envelope, box : Inboxes]]

Init ==
    /\ devices = [r \in Relays |-> {}]
    /\ queues = [r \in Relays |-> [b \in Inboxes |-> <<>>]]
    /\ nonces = [r \in Relays |-> {}]
    /\ routes = [r \in Relays |-> {}]
    /\ interests = [r \in Relays |-> {}]
    /\ calls = [r \in Relays |-> [k \in Kids |-> <<>>]]
    /\ now = 0
    /\ ts = [e \in Envelope |-> Unsigned]
    /\ sub = [e \in Envelope |-> [endpoint |-> 1, attempt |-> 0, result |-> ""]]
    /\ read = {}
    /\ faults = 0
    /\ times = [r \in Relays |-> [e \in Envelope |-> 0]]
    /\ posted = [r \in Relays |-> {}]
    /\ taken = [r \in Relays |-> {}]

-----------------------------------------------------------------------------
(***************************************************************************)
(* The relay                                                               *)
(***************************************************************************)
Younger(s, age) == {w \in s : now - w.at < age}

\* Signed::verify of an envelope signed at t: the signature is the sender's own, so
\* what is left is the clock.
Timely(t) == now - t <= MAX_SKEW /\ t - now <= MAX_SKEW

\* An announcement carries its own key; everything else needs a registered signer.
KnownSigner(r, e) == e.kind = "announce" \/ e.kid \in devices[r]

\* pop_front while the front is old: what is at an index of old goes, up to the first that stays.
PopWhile(q, old) == SubSeq(q, Cardinality({i \in DOMAIN q : 1 .. i \subseteq old}) + 1, Len(q))

Recent(r, k) ==
    LET q == calls[r][k] IN PopWhile(q, {i \in DOMAIN q : now - q[i] > Hour})

InQuota(r, k) ==
    LET recent == Recent(r, k) IN
    /\ Cardinality({i \in DOMAIN recent : now - recent[i] <= Minute}) < RATE_PER_MINUTE
    /\ Len(recent) < RATE_PER_HOUR

\* Seeded fault: nonces are forgotten after the skew a sender is allowed.
NonceFreshForgetful(r, e) == \A w \in Younger(nonces[r], MAX_SKEW) : w.env # e

NonceFresh(r, e) == \A w \in Younger(nonces[r], NONCE_MEMORY) : w.env # e

Verified(r, e, t) == KnownSigner(r, e) /\ Timely(t)
Authentic(r, e, t) == Verified(r, e, t) /\ InQuota(r, e.kid) /\ NonceFresh(r, e)

\* take_quota counts the call before take_nonce is asked; both keep what they prune.
authenticate(r, e, t) ==
    /\ calls' = IF ~Verified(r, e, t) THEN calls
                ELSE [calls EXCEPT ![r][e.kid] =
                         IF InQuota(r, e.kid) THEN Append(Recent(r, e.kid), now)
                         ELSE Recent(r, e.kid)]
    /\ nonces' = IF ~(Verified(r, e, t) /\ InQuota(r, e.kid)) THEN nonces
                 ELSE [nonces EXCEPT ![r] = Younger(@, NONCE_MEMORY) \cup
                          (IF NonceFresh(r, e) THEN {[env |-> e, at |-> now]} ELSE {})]

\* route_for: the request this grant answers, if the relay still remembers it.
RouteFor(r, g) == {w \in Younger(routes[r], QUEUE_TTL) : w.env.req = g.req}

\* The inboxes an authentic envelope goes to.
Addressees(r, e) ==
    CASE e.kind = "announce" -> {}
      [] e.kind \in {"request", "version"} -> {e.owner}
      [] e.kind = "grant" -> {w.env.kid : w \in RouteFor(r, e)}
      [] e.kind = "revoke" -> {w.env.kid : w \in {i \in Younger(interests[r], QUEUE_TTL) :
                                                      i.env.fid = e.fid}}

Accepts(r, e, t) ==
    /\ Authentic(r, e, t)
    /\ e.kind = "grant" => RouteFor(r, e) # {}

\* What the relay answers.
Ack(r, e, t) ==
    CASE ~KnownSigner(r, e) -> "unknown_device"
      [] KnownSigner(r, e) /\ ~Timely(t) ->
             IF e.kind = "announce" THEN "unauthenticated" ELSE "stale"
      [] Verified(r, e, t) /\ ~InQuota(r, e.kid) -> "rate_limited"
      [] Verified(r, e, t) /\ InQuota(r, e.kid) /\ ~NonceFresh(r, e) -> "replayed"
      [] Authentic(r, e, t) /\ ~Accepts(r, e, t) -> "not_found"
      [] Accepts(r, e, t) -> "ok"

\* Seeded fault: making room drops the oldest message whatever its age.
PruneFront(q) == IF q = <<>> THEN q ELSE Tail(q)

\* enqueue() first drops from the front what is past its time.
Prune(q) == PopWhile(q, {i \in DOMAIN q : now - q[i].at > QUEUE_TTL})

enqueue(r, boxes, e) ==
    /\ queues' = [queues EXCEPT ![r] = [b \in Inboxes |->
           IF b \in boxes THEN Append(Prune(@[b]), [env |-> e, at |-> now]) ELSE @[b]]]
    /\ posted' = [posted EXCEPT ![r] =
           @ \cup {[env |-> e, box |-> b, at |-> now] : b \in boxes}]

\* Seeded fault: a device that asks again keeps the time of its first request.
remember_first_interest(r, e) ==
    interests' = [interests EXCEPT ![r] = @ \cup
        (IF \E w \in @ : w.env.fid = e.fid /\ w.env.kid = e.kid THEN {}
         ELSE {[env |-> e, at |-> now]})]

remember_interest(r, e) ==
    interests' = [interests EXCEPT ![r] =
        {w \in @ : ~(w.env.fid = e.fid /\ w.env.kid = e.kid)} \cup {[env |-> e, at |-> now]}]

remember_request(r, e) ==
    routes' = [routes EXCEPT ![r] = {w \in @ : w.env.req # e.req} \cup {[env |-> e, at |-> now]}]

Count(r, e) == times' = [times EXCEPT ![r][e] = @ + 1]

handle_devices(r, e) ==
    /\ e.kind = "announce"
    /\ devices' = [devices EXCEPT ![r] = @ \cup {e.kid}]
    /\ UNCHANGED <<queues, routes, interests, posted>>

handle_requests(r, e) ==
    /\ e.kind = "request"
    /\ remember_request(r, e)
    /\ remember_interest(r, e)
    /\ enqueue(r, Addressees(r, e), e)
    /\ UNCHANGED devices

\* Seeded fault: the answer goes back to the device that signed it.
handle_grants_to_signer(r, e) ==
    /\ e.kind = "grant"
    /\ routes' = [routes EXCEPT ![r] = Younger(@, QUEUE_TTL)]
    /\ enqueue(r, {e.kid}, e)
    /\ UNCHANGED <<devices, interests>>

handle_grants(r, e) ==
    /\ e.kind = "grant"
    /\ routes' = [routes EXCEPT ![r] = Younger(@, QUEUE_TTL)]
    /\ enqueue(r, Addressees(r, e), e)
    /\ UNCHANGED <<devices, interests>>

handle_versions(r, e) ==
    /\ e.kind = "version"
    /\ enqueue(r, Addressees(r, e), e)
    /\ UNCHANGED <<devices, routes, interests>>

handle_revocations(r, e) ==
    /\ e.kind = "revoke"
    /\ interests' = [interests EXCEPT ![r] = Younger(@, QUEUE_TTL)]
    /\ enqueue(r, Addressees(r, e), e)
    /\ UNCHANGED <<devices, routes>>

\* A grant nobody is known to have asked for: its nonce is spent all the same.
handle_unroutable(r, e) ==
    /\ e.kind = "grant"
    /\ routes' = [routes EXCEPT ![r] = Younger(@, QUEUE_TTL)]
    /\ UNCHANGED <<devices, queues, interests, posted>>

Handle(r, e, t) ==
    /\ authenticate(r, e, t)
    /\ \/ /\ Accepts(r, e, t)
          /\ Count(r, e)
          /\ \/ handle_devices(r, e) \/ handle_requests(r, e) \/ handle_grants(r, e)
             \/ handle_versions(r, e) \/ handle_revocations(r, e)
       \/ /\ Authentic(r, e, t) /\ ~Accepts(r, e, t)
          /\ handle_unroutable(r, e)
          /\ UNCHANGED times
       \/ /\ ~Authentic(r, e, t)
          /\ UNCHANGED <<devices, queues, routes, interests, times, posted>>
    /\ UNCHANGED taken

\* A message is lost or repeated, or a relay restarts.
Fault == faults < MaxFaults /\ faults' = faults + 1

\* The client has read what was handed out, or its answer is lost on the way.
fetch_inbox(out) ==
    \/ read' = read \cup out /\ UNCHANGED faults
    \/ Fault /\ UNCHANGED read

\* What an inbox hands out: nothing that is past its time.
drain(r, b) ==
    {w \in {queues[r][b][i] : i \in DOMAIN queues[r][b]} : now - w.at <= QUEUE_TTL}

\* Reading an inbox empties it.
inbox(r, b) ==
    /\ queues[r][b] # <<>>
    /\ queues' = [queues EXCEPT ![r][b] = <<>>]
    /\ taken' = [taken EXCEPT ![r] = @ \cup {[env |-> w.env, box |-> b] : w \in drain(r, b)}]
    /\ fetch_inbox({w.env : w \in drain(r, b)})
    /\ UNCHANGED <<devices, nonces, routes, interests, calls, now, ts, sub, times, posted>>

Restart(r) ==
    /\ Fault
    /\ devices' = [devices EXCEPT ![r] = {}]
    /\ queues' = [queues EXCEPT ![r] = [b \in Inboxes |-> <<>>]]
    /\ nonces' = [nonces EXCEPT ![r] = {}]
    /\ routes' = [routes EXCEPT ![r] = {}]
    /\ interests' = [interests EXCEPT ![r] = {}]
    /\ calls' = [calls EXCEPT ![r] = [k \in Kids |-> <<>>]]
    /\ times' = [times EXCEPT ![r] = [e \in Envelope |-> 0]]
    /\ posted' = [posted EXCEPT ![r] = {}]
    /\ taken' = [taken EXCEPT ![r] = {}]
    /\ UNCHANGED <<now, ts, sub, read>>

-----------------------------------------------------------------------------
(***************************************************************************)
(* The client                                                              *)
(***************************************************************************)
\* The device has announced itself and heard the outcome.
Announced(k, outcomes) ==
    \E a \in Envelope : a.kind = "announce" /\ a.kid = k /\ sub[a].result \in outcomes

\* What the agents do before they sign e: a recipient registers before it asks, an owner
\* answers a request it has read, pulls back what it granted, and a recipient reports a
\* version of what it was granted.
Prompted(e) ==
    CASE e.kind = "announce" -> TRUE
      [] e.kind = "request" -> Announced(e.kid, {"queued", "already_delivered"})
      [] e.kind = "grant" ->
             /\ Announced(e.kid, Results \ {""})
             /\ \E q \in read : q.kind = "request" /\ q.req = e.req
      [] e.kind = "revoke" -> \E g \in Signed : g.kind = "grant" /\ g.req = e.req
      [] e.kind = "version" -> \E g \in read : g.kind = "grant" /\ g.req = e.req

\* retryable(): what the client tries again.
Retryable == {"unreachable", "rate_limited"}

\* Seeded fault: "replayed" is taken for a refusal like the others.
submit_replay_refused(e, answer) ==
    LET s == sub[e]
        next == IF s.attempt + 1 < Attempts
                THEN [s EXCEPT !.attempt = @ + 1]
                ELSE [endpoint |-> s.endpoint + 1, attempt |-> 0,
                      result |-> IF s.endpoint = Len(Endpoints) THEN "unreachable" ELSE ""]
    IN  sub' = [sub EXCEPT ![e] =
            CASE answer = "ok" -> [s EXCEPT !.result = "queued"]
              [] answer \in Retryable -> next
              [] OTHER -> [s EXCEPT !.result = answer]]

\* After one attempt: done, or the next attempt, the next endpoint, or nobody left.
submit(e, answer) ==
    LET s == sub[e]
        next == IF s.attempt + 1 < Attempts
                THEN [s EXCEPT !.attempt = @ + 1]
                ELSE [endpoint |-> s.endpoint + 1, attempt |-> 0,
                      result |-> IF s.endpoint = Len(Endpoints) THEN "unreachable" ELSE ""]
    IN  sub' = [sub EXCEPT ![e] =
            CASE answer = "ok" -> [s EXCEPT !.result = "queued"]
              [] answer = "replayed" -> [s EXCEPT !.result = "already_delivered"]
              [] answer \in Retryable -> next
              [] OTHER -> [s EXCEPT !.result = answer]]

Trying(e) ==
    /\ sub[e].result = ""
    /\ sub[e].endpoint \in DOMAIN Endpoints
    /\ ts[e] = Unsigned => Prompted(e)

\* The sender signs with its own clock, which may be off, as it makes the first attempt;
\* the bytes, and so the time in them, stay the same on every later one.
Stamp(e) == IF ts[e] = Unsigned THEN now + Offset[e.kid] ELSE ts[e]
sign(e) == ts' = [ts EXCEPT ![e] = Stamp(e)]

\* One attempt: the request is lost, its answer is lost, or it comes back.
RequestLost(e) ==
    /\ Trying(e)
    /\ Fault
    /\ sign(e)
    /\ submit(e, "unreachable")
    /\ UNCHANGED <<devices, queues, nonces, routes, interests, calls, now, read,
                   times, posted, taken>>

AnswerLost(e) ==
    /\ Trying(e)
    /\ Fault
    /\ sign(e)
    /\ Handle(Endpoints[sub[e].endpoint], e, Stamp(e))
    /\ submit(e, "unreachable")
    /\ UNCHANGED <<now, read>>

submit_once(e) ==
    /\ Trying(e)
    /\ sign(e)
    /\ Handle(Endpoints[sub[e].endpoint], e, Stamp(e))
    /\ submit(e, Ack(Endpoints[sub[e].endpoint], e, Stamp(e)))
    /\ UNCHANGED <<now, read, faults>>

\* The same bytes arrive once more, late or duplicated.
Repeated(r, e) ==
    /\ ts[e] # Unsigned
    /\ Fault
    /\ Handle(r, e, ts[e])
    /\ UNCHANGED <<now, ts, sub, read>>

Tick ==
    /\ now < MaxTime
    /\ now' = now + 1
    /\ UNCHANGED <<devices, queues, nonces, routes, interests, calls, ts, sub, read,
                   faults, times, posted, taken>>

Next ==
    \/ \E e \in Envelope : RequestLost(e) \/ AnswerLost(e) \/ submit_once(e)
    \/ \E r \in Relays, e \in Envelope : Repeated(r, e)
    \/ \E r \in Relays, b \in Inboxes : inbox(r, b)
    \/ \E r \in Relays : Restart(r)
    \/ Tick

Spec == Init /\ [][Next]_vars

-----------------------------------------------------------------------------
(***************************************************************************)
(* Properties                                                              *)
(***************************************************************************)

\* Between two restarts a relay accepts an envelope once, however late or often its
\* bytes arrive: the clock rule of Signed::verify closes before take_nonce forgets.
QueuedOnce == \A r \in Relays, e \in Envelope : times[r][e] <= 1

\* An answer goes to the device that asked with that request nonce, and a revoke only
\* to devices that asked about that file, for as long as the relay remembers them.
RoutedHome ==
    \A r \in Relays : \A p \in posted[r] :
        /\ p.env.kind = "grant" =>
               \E q \in posted[r] : /\ q.env.kind = "request"
                                    /\ q.env.req = p.env.req /\ q.env.kid = p.box
        /\ p.env.kind = "revoke" =>
               \E q \in posted[r] : /\ q.env.kind = "request"
                                    /\ q.env.fid = p.env.fid /\ q.env.kid = p.box

\* A revoke the relay accepts is put into the inbox of every device whose request for
\* the file it took within QUEUE_TTL (T20), whatever came and was drained in between.
RevokeReachesAskers ==
    [][\A r \in Relays, e \in Envelope :
          (e.kind = "revoke" /\ times'[r][e] > times[r][e]) =>
              \A p \in posted[r] :
                  (p.env.kind = "request" /\ p.env.fid = e.fid /\ now - p.at < QUEUE_TTL) =>
                      \E i \in DOMAIN queues'[r][p.env.kid] : queues'[r][p.env.kid][i].env = e]_vars

\* What a relay accepted waits in its inbox or was handed out, until QUEUE_TTL has
\* passed: neither making room in the queue nor another reader loses it earlier.
KeptUntilTTL ==
    \A r \in Relays : \A p \in posted[r] :
        now - p.at <= QUEUE_TTL =>
            \/ \E i \in DOMAIN queues[r][p.box] : queues[r][p.box][i].env = p.env
            \/ [env |-> p.env, box |-> p.box] \in taken[r]

=============================================================================
