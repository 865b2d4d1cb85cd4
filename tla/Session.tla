------------------------------- MODULE Session -------------------------------
(***************************************************************************)
(* crates/zbacs-session/src/state.rs: the life of one approval as a pure   *)
(* state machine.  Apply(s, e, now) is Session::apply: it gives the next   *)
(* session and the effects the Agent must carry out, or refuses the event  *)
(* and leaves the session as it was.  Audit and Notify effects, which only *)
(* report, are left out.                                                   *)
(***************************************************************************)
EXTENDS Naturals

States == {"Requested", "Denied", "Granted", "Open", "Resealing", "Closed", "Revoked", "Failed"}
Permissions == {"Deny", "ReadOnly", "Edit"}

\* Option<u32>::None and Option<Permission>::None; versions count from 1.
NoVersion == 0
NoPermission == "None"

plaintext_allowed(st) == st \in {"Open", "Resealing"}
is_terminal(st) == st \in {"Denied", "Closed", "Revoked", "Failed"}

Sessions ==
    [state : States, permission : Permissions \cup {NoPermission}, not_before : Nat, expiry : Nat,
     max_opens : Nat, opens : Nat, version : Nat, dirty : BOOLEAN]

\* Session::new, a request that was just sent.
NewSession ==
    [state |-> "Requested", permission |-> NoPermission, not_before |-> 0, expiry |-> 0,
     max_opens |-> 0, opens |-> 0, version |-> NoVersion, dirty |-> FALSE]

\* Events.  Granted carries the terms, Resealed the new version.
Event(kind) == [kind |-> kind]
GrantedEvent(t) ==
    [kind |-> "Granted", permission |-> t.permission, not_before |-> t.not_before,
     expiry |-> t.expiry, max_opens |-> t.max_opens]
ResealedEvent(v) == [kind |-> "Resealed", version |-> v]

OpensUsedUp(s) == s.max_opens # 0 /\ s.opens >= s.max_opens

\* The events apply() does not answer with a TransitionError.
Admissible(s, e, now) ==
    /\ ~is_terminal(s.state)
    /\ \/ /\ s.state = "Requested" /\ e.kind = "Granted"
          /\ e.permission # "Deny"
          /\ e.not_before <= now /\ now < e.expiry
       \/ s.state = "Requested" /\ e.kind = "Denied"
       \/ s.state = "Granted" /\ e.kind = "Opened"
       \/ s.state = "Open" /\ e.kind \in {"Saved", "ViewerExited"}
       \/ s.state = "Resealing" /\ e.kind = "Resealed"
       \/ e.kind \in {"Revoked", "Expired", "Failed"}

\* The session after an admitted event.
After(s, e) ==
    CASE e.kind = "Granted" ->
           [s EXCEPT !.permission = e.permission, !.not_before = e.not_before,
                     !.expiry = e.expiry, !.max_opens = e.max_opens, !.state = "Granted"]
      [] e.kind = "Denied" -> [s EXCEPT !.state = "Denied"]
      [] e.kind = "Opened" ->
           IF OpensUsedUp(s) THEN [s EXCEPT !.state = "Closed"]
                             ELSE [s EXCEPT !.opens = @ + 1, !.state = "Open"]
      [] e.kind = "Saved" ->
           IF s.permission = "Edit" THEN [s EXCEPT !.dirty = TRUE, !.state = "Resealing"] ELSE s
      [] e.kind = "Resealed" -> [s EXCEPT !.version = e.version, !.dirty = FALSE, !.state = "Open"]
      [] e.kind = "ViewerExited" -> [s EXCEPT !.state = "Closed"]
      [] e.kind = "Revoked" -> [s EXCEPT !.dirty = FALSE, !.state = "Revoked"]
      [] e.kind = "Expired" -> [s EXCEPT !.dirty = FALSE, !.state = "Closed"]
      [] e.kind = "Failed" -> [s EXCEPT !.state = "Failed"]

\* What the Agent must do about it.
EffectsOf(s, e) ==
    CASE e.kind = "Granted" -> {"MaterialisePlaintext"}
      [] e.kind = "Opened" ->
           IF OpensUsedUp(s) THEN {"WipeWorkspace"}
           ELSE {"LaunchViewer"} \cup (IF s.permission = "ReadOnly" THEN {"MarkReadOnly"} ELSE {})
      [] e.kind = "Saved" -> IF s.permission = "Edit" THEN {"Reseal"} ELSE {"DiscardChanges"}
      [] e.kind = "ViewerExited" -> {"WipeWorkspace"}
      [] e.kind \in {"Revoked", "Expired"} ->
           IF plaintext_allowed(s.state) THEN {"RequestViewerClose", "WipeWorkspace"} ELSE {}
      [] e.kind = "Failed" -> IF plaintext_allowed(s.state) THEN {"WipeWorkspace"} ELSE {}
      [] OTHER -> {}

Apply(s, e, now) ==
    IF Admissible(s, e, now)
    THEN [ok |-> TRUE, session |-> After(s, e), effects |-> EffectsOf(s, e)]
    ELSE [ok |-> FALSE, session |-> s, effects |-> {}]

=============================================================================
