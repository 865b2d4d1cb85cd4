------------------------------ MODULE MCOwner --------------------------------
(***************************************************************************)
(* Two requests for one file and three calls of the Agent's commands, on   *)
(* each kind of machine.  A second file is there where nothing is written  *)
(* to the chain; three versions where a version waits for another write    *)
(* or follows one that is on its way.                                      *)
(***************************************************************************)
EXTENDS Owner, TLC

CONSTANTS f1, f2, r1, r2

MCFile == {f1, f2}
MCReq == {r1, r2}
MCSlot == 1 .. 3
MCFid == [r \in {r1, r2} |-> f1]
MCLockable == [m \in AllModes |-> IF m = "none" THEN {f1, f2} ELSE {f1}]
MCMaxSaved == [m \in AllModes |-> IF m = "direct" THEN 2 ELSE 3]
MCMaxCrashes == [m \in AllModes |-> IF m \in {"none", "passkey"} THEN 1 ELSE 0]
MCNoCrashes == [m \in AllModes |-> 0]
Symmetry == Permutations({r1, r2})
=============================================================================
