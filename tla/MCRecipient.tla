---------------------------- MODULE MCRecipient ----------------------------
(* Instances of Recipient: the answers of the owners.                       *)
EXTENDS Recipient, TLC

Allow(perm, expiry, budget, tx) ==
    [permission |-> perm, not_before |-> 0, expiry |-> expiry, max_opens |-> budget,
     fits |-> TRUE, tx |-> tx]
Refusal == [permission |-> "Deny", not_before |-> 0, expiry |-> 0, max_opens |-> 0,
            fits |-> FALSE, tx |-> FALSE]
\* Terms that are not about the request.
Misfit == [Allow("Edit", 1, 0, FALSE) EXCEPT !.fits = FALSE]

MCAnswers == {Allow("ReadOnly", 1, 1, TRUE), Refusal, Misfit}
LiveAnswers == {Allow("ReadOnly", 1, 1, TRUE)}
OneAnswer == {Allow("ReadOnly", 2, 1, TRUE)}
\* Files are interchangeable in the safety run.
Paths == Permutations(Path)
=============================================================================
