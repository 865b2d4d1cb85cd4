---------------------------- MODULE FileRegistry ----------------------------
(***************************************************************************)
(* contracts/src/FileRegistry.sol: who owns a sealed file, and which       *)
(* sealed version of it is current.  A call that reverts changes nothing,  *)
(* so an action is a call that succeeds and its guard is the negation of   *)
(* the errors the function can revert with.                                *)
(***************************************************************************)
EXTENDS Naturals

CONSTANTS
    Account,    \* addresses that call the contracts
    Nobody,     \* address(0)
    FileId,     \* container file ids (fid)
    Hash,       \* header hashes other than bytes32(0)
    ZeroHash,   \* bytes32(0)
    U32Max      \* largest uint32; 2^32 - 1 in the code

ASSUME RegistryAssumption ==
    /\ Nobody \notin Account
    /\ ZeroHash \notin Hash
    /\ U32Max \in Nat \ {0}

VARIABLE files  \* _files, zeroed records included

FileRecord ==
    [owner      : Account \cup {Nobody},
     headerHash : Hash \cup {ZeroHash},
     version    : 0 .. U32Max,
     retired    : BOOLEAN]

ZeroFile == [owner |-> Nobody, headerHash |-> ZeroHash, version |-> 0, retired |-> FALSE]

RegistryTypeOK == files \in [FileId -> FileRecord]

RegistryInit == files = [f \in FileId |-> ZeroFile]

ownerOf(f) == files[f].owner

\* Register a newly sealed file; the caller becomes its owner.
register(sender, f, headerHash) ==
    /\ headerHash # ZeroHash
    /\ ownerOf(f) = Nobody
    /\ files' = [files EXCEPT ![f] = [owner |-> sender, headerHash |-> headerHash,
                                      version |-> 1, retired |-> FALSE]]

\* Record a reseal.  Solidity's checked += reverts at the top of uint32.
bumpVersion(sender, f, newHeaderHash) ==
    /\ ownerOf(f) = sender
    /\ ~files[f].retired
    /\ newHeaderHash # ZeroHash
    /\ newHeaderHash # files[f].headerHash
    /\ files[f].version < U32Max
    /\ files' = [files EXCEPT ![f].version = @ + 1, ![f].headerHash = newHeaderHash]

\* No further versions, and AccessPolicy refuses new grants.
retire(sender, f) ==
    /\ ownerOf(f) = sender
    /\ ~files[f].retired
    /\ files' = [files EXCEPT ![f].retired = TRUE]

=============================================================================
