------------------------------- MODULE Record -------------------------------
(* The record of what the chain confirms (apps/agent/src-tauri/src):        *)
(* merge_events in chain.rs with the event watcher of crates/zbacs-chain,   *)
(* the cursor and the locked files in the ledger, and the audit file.  The  *)
(* loop that calls it runs once per link; the Agent may stop anywhere.      *)
EXTENDS Naturals, Sequences, FiniteSets

CONSTANTS
    MaxFiles,   \* bound on the files locked here
    MaxBlocks,  \* bound on the blocks of the chain
    MaxFaults,  \* bound on failed reads and writes
    MaxRuns,    \* bound on the starts of the Agent
    MaxLoops    \* bound on the calls of ensure() before a link is stored

ASSUME LoopsAssumption == MaxLoops \in Nat

VARIABLES
    loops,    \* merge loops of this run: the task of each link ensure() made
    ledger,   \* files of this machine's ledger, by number
    chain,    \* file the event of each block is about, 0 for another owner's
    cursor,   \* chain_cursor of the ledger, 0 for none
    record,   \* audit file: the block of the event of each readable line, in order
    first,    \* history: block the first look started from, 0 for none
    skipped,  \* history: blocks a later look passed over, because it saw no cursor
    lost,     \* history: blocks whose event could not be written down
    faults,   \* failures so far
    runs      \* starts so far

vars == <<loops, ledger, chain, cursor, record, first, skipped, lost, faults, runs>>

\* A loop at a place of its code, with the blocks it has to read.  After a failed poll, `began` is
\* still where that poll was to read from.
Loop(at) == [at |-> at, began |-> 0, from |-> 0, upto |-> 0]
Goes(i, loop) == loops' = [loops EXCEPT ![i] = loop]

head == Len(chain)
MayFail == faults < MaxFaults /\ faults' = faults + 1

\* ledger.find: the event is about a file of this machine.
Mine(b) == chain[b] \in ledger

\* The blocks that have a line in the record.
Written == {record[n] : n \in DOMAIN record}

Init ==
    /\ loops = <<>>
    /\ ledger = {}
    /\ chain = <<0>>
    /\ cursor = 0 /\ first = 0
    /\ record = <<>> /\ skipped = {} /\ lost = {}
    /\ faults = 0 /\ runs = 0

---------------------------------------------------------------------------
\* The link is stored and its loop begins.  Every call of ensure() before the first link is stored
\* makes a link and a loop of its own.
Linked ==
    /\ loops = <<>> /\ runs < MaxRuns
    /\ \E n \in 1..MaxLoops : loops' = [i \in 1..n |-> Loop("look")]
    /\ runs' = runs + 1
    /\ UNCHANGED <<ledger, chain, cursor, record, first, skipped, lost, faults>>

\* Quit or crash.  A line cut off in the middle is as good as none: append begins a fresh one and
\* read() skips it.
Stop ==
    /\ loops # <<>>
    /\ loops' = <<>>
    /\ UNCHANGED <<ledger, chain, cursor, record, first, skipped, lost, faults, runs>>

\* merge_events reads from the cursor.
LookFrom(i, from) ==
    /\ loops[i].at = "look"
    /\ Goes(i, [Loop("poll") EXCEPT !.began = from, !.from = from])
    /\ UNCHANGED <<ledger, chain, cursor, record, lost, runs>>
Look(i) ==
    /\ cursor # 0
    /\ LookFrom(i, cursor)
    /\ UNCHANGED <<first, skipped, faults>>

\* Without a cursor it reads from the head, whatever was left to read since `since`.  There is none
\* until some look has come to its end, and in a ledger that cannot be read.
LookFromHead(i, since) ==
    /\ LookFrom(i, head)
    /\ skipped' = skipped \cup {b \in since..(head - 1) : Mine(b)}
LookFirst(i) ==
    /\ cursor = 0
    /\ first' = IF first = 0 THEN head ELSE first
    /\ LookFromHead(i, first')
    /\ UNCHANGED faults
LookMisreads(i) ==
    /\ cursor # 0
    /\ MayFail
    /\ LookFromHead(i, cursor)
    /\ UNCHANGED first

\* EventWatcher::poll: everything up to the head, and the next block to read.
Next_block(from) == IF head < from THEN from ELSE head + 1

\* A mutant: the cursor moves before the events are written down.
PollCommits(i) ==
    /\ loops[i].at = "poll"
    /\ Goes(i, [loops[i] EXCEPT !.at = "append", !.upto = Next_block(loops[i].from)])
    /\ cursor' = Next_block(loops[i].from)
    /\ UNCHANGED <<ledger, chain, record, first, skipped, lost, faults, runs>>

Poll(i) ==
    /\ loops[i].at = "poll"
    /\ Goes(i, [loops[i] EXCEPT !.at = "append", !.upto = Next_block(loops[i].from)])
    /\ UNCHANGED <<ledger, chain, cursor, record, first, skipped, lost, faults, runs>>

\* The error drops the watcher: the next look chooses anew where to begin.
PollFails(i) ==
    /\ loops[i].at = "poll"
    /\ MayFail
    /\ Goes(i, [Loop("look") EXCEPT !.began = loops[i].began])
    /\ UNCHANGED <<ledger, chain, cursor, record, first, skipped, lost, runs>>

append(entry) == record' = Append(record, entry)

\* The next event goes to the record when it is about a file of this machine.
AppendEvent(i) ==
    LET b == loops[i].from IN
    /\ loops[i].at = "append" /\ b < loops[i].upto
    /\ IF Mine(b) THEN append(b) ELSE UNCHANGED record
    /\ Goes(i, [loops[i] EXCEPT !.from = b + 1])
    /\ UNCHANGED <<ledger, chain, cursor, first, skipped, lost, faults, runs>>

\* A line that cannot be written, or a ledger that cannot be read, leaves the event out.
AppendFails(i) ==
    LET b == loops[i].from IN
    /\ loops[i].at = "append" /\ b < loops[i].upto
    /\ Mine(b)
    /\ MayFail
    /\ lost' = lost \cup {b}
    /\ Goes(i, [loops[i] EXCEPT !.from = b + 1])
    /\ UNCHANGED <<ledger, chain, cursor, record, first, skipped, runs>>

\* set_chain_cursor, and the loop sleeps.
SetCursor(i) ==
    /\ loops[i].at = "append" /\ loops[i].from = loops[i].upto
    /\ cursor' = loops[i].upto
    /\ Goes(i, Loop("look"))
    /\ UNCHANGED <<ledger, chain, record, first, skipped, lost, faults, runs>>
SetCursorFails(i) ==
    /\ loops[i].at = "append" /\ loops[i].from = loops[i].upto
    /\ MayFail
    /\ Goes(i, Loop("look"))
    /\ UNCHANGED <<ledger, chain, cursor, record, first, skipped, lost, runs>>

---------------------------------------------------------------------------
\* A file is locked and recorded here.
Lock ==
    /\ Cardinality(ledger) < MaxFiles
    /\ ledger' = ledger \cup {Cardinality(ledger) + 1}
    /\ UNCHANGED <<loops, chain, cursor, record, first, skipped, lost, faults, runs>>

\* A block with an event about a file of this machine or of another.
Block ==
    /\ head < MaxBlocks
    /\ \E f \in ledger \cup {0} : chain' = Append(chain, f)
    /\ UNCHANGED <<loops, ledger, cursor, record, first, skipped, lost, faults, runs>>

Next ==
    \/ Linked \/ Stop \/ Lock \/ Block
    \/ \E i \in DOMAIN loops :
          \/ Look(i) \/ LookFirst(i) \/ LookMisreads(i) \/ Poll(i) \/ PollFails(i)
          \/ AppendEvent(i) \/ AppendFails(i) \/ SetCursor(i) \/ SetCursorFails(i)

Spec == Init /\ [][Next]_vars

---------------------------------------------------------------------------
\* RecordComplete: every event about a file of this machine, from the first look up to the cursor,
\* is in the record, or was passed over by a look that saw no cursor (no look had come to its end
\* yet, or the ledger could not be read), or could not be written down.  No crash after the first
\* cursor, no failed poll after it and no second loop loses another one.  The comments in chain.rs
\* and watcher.rs claim more; the three definitions below state it, and it is not so.
RecordComplete ==
    \A b \in first..(cursor - 1) : Mine(b) => b \in Written \cup skipped \cup lost

\* Said of merge_events ("The cursor lives in the ledger, so a restart neither repeats nor skips a
\* block"), and not so: an Agent that stops in its first look has no cursor yet and starts again
\* from a later head.
NothingSkipped ==
    \A b \in first..(cursor - 1) : Mine(b) => b \in Written

\* The other half of the same sentence, and not so either: an Agent that stops between the lines
\* and the cursor writes the lines again.  A second call of ensure(), said to be harmless, has the
\* same effect without a restart: its loop reads the same blocks.
NothingRepeated ==
    \A m, n \in DOMAIN record : record[m] = record[n] => m = n

\* Said of EventWatcher::poll ("a failed poll re-reads the same range rather than skipping it"), and
\* not so of merge_events, whose watcher is a new one after a failure.
FailedPollRereads ==
    [][\A i \in DOMAIN loops \cap DOMAIN loops' :
          loops[i].at = "look" /\ loops[i].began # 0 /\ loops'[i].at = "poll" =>
             loops'[i].began <= loops[i].began]_vars
=============================================================================
