---------------------------- MODULE RecordProofs ----------------------------
(* RecordComplete for any number of files, blocks, failures, runs and loops: *)
(* below the cursor no event about a file of this machine is unaccounted     *)
(* for.                                                                      *)
EXTENDS Record, FiniteSetTheorems, TLAPS

Places == {"look", "poll", "append"}
LoopType == [at : Places, began : Nat, from : Nat, upto : Nat]

RecordType ==
    /\ loops \in Seq(LoopType)
    /\ ledger \subseteq Nat /\ IsFiniteSet(ledger) /\ 0 \notin ledger
    /\ chain \in Seq(Nat) /\ Len(chain) >= 1
    /\ cursor \in Nat /\ first \in Nat
    /\ record \in Seq(Nat)

\* Every event about a file of this machine in blocks a up to b - 1 is accounted for.
Accounted == Written \cup skipped \cup lost
Covered(a, b) == \A x \in a..(b - 1) : Mine(x) => x \in Accounted

\* A block is about a file that was in the ledger when it came, so a later lock makes no old
\* block one of this machine's.
BlocksKnown == \A b \in 1..Len(chain) : chain[b] \in ledger \cup {0}

\* From the first look up to the place where a loop reads, nothing is missing.
LoopSound(l) ==
    /\ l.at \in {"poll", "append"} =>
          1 <= first /\ first <= l.from /\ l.from <= Len(chain) + 1 /\ Covered(first, l.from)
    /\ l.at = "append" => l.from <= l.upto /\ l.upto <= Len(chain) + 1

\* From the first look up to the cursor, nothing is missing.
CursorSound ==
    cursor # 0 => 1 <= first /\ first <= cursor /\ cursor <= Len(chain) + 1 /\ Covered(first, cursor)

RecordInv ==
    /\ RecordType
    /\ BlocksKnown
    /\ first <= Len(chain)
    /\ \A i \in DOMAIN loops : LoopSound(loops[i])
    /\ CursorSound

---------------------------------------------------------------------------
\* No step turns an old block into one about a file of this machine, the chain only grows, and
\* what is accounted for stays so.
Grows ==
    /\ Len(chain') \in Nat /\ Len(chain) <= Len(chain')
    /\ \A x \in 1..Len(chain) : Mine(x)' => Mine(x)
    /\ Accounted \subseteq Accounted'

\* Where the first look began is settled once.
Settled == first' = first \/ first = 0

LEMMA CoveredStays ==
    ASSUME RecordType, Grows,
           NEW a \in Nat, NEW b \in Nat, 1 <= a, b <= Len(chain) + 1, Covered(a, b)
    PROVE  \A x \in a..(b - 1) : Mine(x)' => x \in Accounted'
<1>1. Len(chain) \in Nat
  BY DEF RecordType
<1> SUFFICES ASSUME NEW x \in a..(b - 1), Mine(x)'
             PROVE  x \in Accounted'
  OBVIOUS
<1>2. x \in 1..Len(chain)
  BY <1>1
<1> HIDE DEF Mine, Accounted
<1>3. Mine(x)
  BY <1>2 DEF Grows
<1> QED
  BY <1>3 DEF Covered, Grows

\* A loop that does not move stays sound.
LEMMA SoundStays ==
    ASSUME RecordInv, Grows, Settled, NEW l \in LoopType, LoopSound(l)
    PROVE  LoopSound(l)'
<1>0. RecordType /\ Len(chain) \in Nat /\ first \in Nat
  BY DEF RecordInv, RecordType
<1>1. CASE l.at \in {"poll", "append"}
  <2>1. /\ 1 <= first /\ first <= l.from /\ l.from <= Len(chain) + 1 /\ Covered(first, l.from)
        /\ l.from \in Nat /\ l.upto \in Nat /\ first' = first
    BY <1>0, <1>1 DEF LoopSound, LoopType, Settled
  <2>2. \A x \in first..(l.from - 1) : Mine(x)' => x \in Accounted'
    BY <2>1, <1>0, CoveredStays
  <2>3. Covered(first, l.from)'
    BY <2>1, <2>2 DEF Covered, Mine
  <2> QED
    BY <1>0, <2>1, <2>3 DEF LoopSound, Grows
<1>2. CASE l.at \notin {"poll", "append"}
  BY <1>2 DEF LoopSound
<1> QED
  BY <1>1, <1>2

\* A cursor that does not move stays sound.
LEMMA CursorStays ==
    ASSUME RecordInv, Grows, Settled, cursor' = cursor
    PROVE  CursorSound'
<1> SUFFICES ASSUME cursor # 0
             PROVE  /\ 1 <= first' /\ first' <= cursor /\ cursor <= Len(chain') + 1
                    /\ Covered(first, cursor)'
  BY DEF CursorSound
<1>1. /\ RecordType /\ Len(chain) \in Nat /\ first \in Nat /\ cursor \in Nat
      /\ 1 <= first /\ first <= cursor /\ cursor <= Len(chain) + 1 /\ Covered(first, cursor)
  BY DEF RecordInv, RecordType, CursorSound
<1>2. first' = first
  BY <1>1 DEF Settled
<1>3. \A x \in first..(cursor - 1) : Mine(x)' => x \in Accounted'
  BY <1>1, CoveredStays
<1>4. Covered(first, cursor)'
  BY <1>2, <1>3 DEF Covered, Mine
<1> QED
  BY <1>1, <1>2, <1>4 DEF Grows

\* A longer chain, or a file more, with loops and cursor as they were.
LEMMA OutsideStep ==
    ASSUME RecordInv, Grows, RecordType', BlocksKnown', UNCHANGED <<loops, cursor, first>>
    PROVE  RecordInv'
<1>1. ASSUME NEW i \in DOMAIN loops PROVE LoopSound(loops[i])'
  <2>1. PICK l : l = loops[i]
    OBVIOUS
  <2>2. l \in LoopType /\ LoopSound(l)
    BY <1>1, <2>1 DEF RecordInv, RecordType
  <2>3. LoopSound(l)'
    BY <2>2, SoundStays DEF Settled
  <2> QED
    BY <2>1, <2>3
<1>2. CursorSound'
  BY CursorStays DEF Settled
<1>3. first' <= Len(chain')
  BY DEF RecordInv, RecordType, Grows
<1> QED
  BY <1>1, <1>2, <1>3 DEF RecordInv

\* What a loop writes down or passes over is added to what is accounted for.
Adds ==
    /\ UNCHANGED <<ledger, chain>>
    /\ record' \in Seq(Nat) /\ Written \subseteq Written'
    /\ skipped \subseteq skipped' /\ lost \subseteq lost'

LEMMA AddsGrows ==
    ASSUME RecordInv, Adds
    PROVE  Grows
<1>1. Len(chain) \in Nat
  BY DEF RecordInv, RecordType
<1>2. Accounted \subseteq Accounted'
  BY DEF Adds, Accounted
<1> QED
  BY <1>1, <1>2 DEF Adds, Grows, Mine

\* One loop goes on.
LEMMA LoopStep ==
    ASSUME RecordInv, NEW i \in DOMAIN loops, NEW l \in LoopType, Goes(i, l), Adds,
           Settled, first' \in Nat, first' <= Len(chain), cursor' \in Nat,
           CursorSound', LoopSound(l)'
    PROVE  RecordInv'
<1>0. RecordType /\ Grows
  BY AddsGrows DEF RecordInv
<1>1. /\ loops' \in Seq(LoopType) /\ DOMAIN loops' = DOMAIN loops
      /\ \A j \in DOMAIN loops : loops'[j] = IF j = i THEN l ELSE loops[j]
  BY <1>0 DEF Goes, RecordType
<1>2. RecordType' /\ BlocksKnown'
  BY <1>0, <1>1 DEF RecordInv, RecordType, BlocksKnown, Adds
<1>3. ASSUME NEW j \in DOMAIN loops PROVE LoopSound(loops[j])'
  <2>1. CASE j = i
    BY <2>1, <1>1
  <2>2. CASE j # i
    <3>1. PICK m : m = loops[j]
      OBVIOUS
    <3>2. m \in LoopType /\ LoopSound(m) /\ loops'[j] = m
      BY <2>2, <3>1, <1>0, <1>1 DEF RecordInv, RecordType
    <3>3. LoopSound(m)'
      BY <3>2, <1>0, SoundStays
    <3> QED
      BY <3>2, <3>3
  <2> QED
    BY <2>1, <2>2
<1> QED
  BY <1>1, <1>2, <1>3 DEF RecordInv, Adds

---------------------------------------------------------------------------
\* A look begins at the cursor, or at the head: then what it passes over is counted as skipped.
LEMMA LookStep ==
    ASSUME RecordInv, NEW i \in DOMAIN loops, Look(i) \/ LookFirst(i) \/ LookMisreads(i)
    PROVE  RecordInv'
<1>0. /\ RecordType /\ Len(chain) \in Nat /\ Len(chain) >= 1 /\ first \in Nat /\ first <= Len(chain)
      /\ cursor \in Nat
  BY DEF RecordInv, RecordType
<1>1. PICK from : from = (IF Look(i) THEN cursor ELSE Len(chain)) /\ LookFrom(i, from)
  <2>1. CASE Look(i)
    BY <2>1 DEF Look
  <2>2. CASE ~Look(i)
    BY <2>2 DEF LookFirst, LookMisreads, LookFromHead, head
  <2> QED
    BY <2>1, <2>2
<1>2. PICK l : l = [Loop("poll") EXCEPT !.began = from, !.from = from]
  OBVIOUS
<1>3. /\ l \in LoopType /\ l.at = "poll" /\ l.from = from /\ from \in Nat
      /\ Goes(i, l)
  BY <1>0, <1>1, <1>2 DEF Loop, LoopType, Places, LookFrom
<1>4. /\ UNCHANGED <<ledger, chain, cursor, record, lost>> /\ skipped \subseteq skipped'
  BY <1>1 DEF LookFrom, Look, LookFirst, LookMisreads, LookFromHead
<1>5. Adds
  BY <1>0, <1>4 DEF Adds, RecordType, Written
<1>6. /\ Settled /\ first' \in Nat /\ first' <= Len(chain)
      /\ cursor = 0 => 1 <= first'
  BY <1>0 DEF Look, LookFirst, LookMisreads, Settled, head
<1>7. CursorSound'
  BY <1>4, <1>5, <1>6, AddsGrows, CursorStays
<1>8. 1 <= first' /\ first' <= from /\ from <= Len(chain) + 1 /\ Covered(first, from)'
  <2>1. CASE Look(i)
    <3>1. cursor' = cursor /\ cursor # 0 /\ l.from = cursor
      BY <1>1, <1>3, <1>4, <2>1 DEF Look
    <3>2. CursorSound' /\ cursor' # 0
      BY <1>7, <3>1
    <3> QED
      BY <1>3, <1>4, <3>1, <3>2 DEF CursorSound
  <2>2. CASE ~Look(i)
    <3>1. PICK since \in {first', cursor} : LookFromHead(i, since) /\ (cursor # 0 => since = cursor)
                                            /\ (cursor = 0 => since = first')
      BY <2>2 DEF LookFirst, LookMisreads
    <3>2. from = Len(chain)
      BY <1>1, <2>2
    <3>3. \A x \in since..(Len(chain) - 1) : Mine(x) => x \in skipped'
      BY <3>1 DEF LookFromHead, head
    <3>4. 1 <= first' /\ (cursor # 0 => first' = first /\ Covered(first, cursor))
      BY <1>0, <1>6 DEF RecordInv, CursorSound, Settled
    <3>5. Covered(first, from)'
      <4> SUFFICES ASSUME NEW x \in first'..(from - 1), Mine(x)'
                   PROVE  x \in Accounted'
        BY DEF Covered
      <4>1. Mine(x)
        BY <1>4 DEF Mine
      <4>2. Accounted \subseteq Accounted' /\ skipped' \subseteq Accounted'
        BY <1>5 DEF Adds, Accounted
      <4>3. x \in since..(Len(chain) - 1) \/ (cursor # 0 /\ x \in first..(cursor - 1))
        BY <1>0, <1>6, <3>1, <3>2, <3>4
      <4> HIDE DEF Mine, Accounted
      <4> QED
        BY <3>3, <3>4, <4>1, <4>2, <4>3 DEF Covered
    <3> QED
      BY <1>0, <1>6, <3>2, <3>4, <3>5
  <2> QED
    BY <2>1, <2>2
<1>9. LoopSound(l)'
  BY <1>3, <1>4, <1>8 DEF LoopSound
<1> QED
  BY <1>0, <1>3, <1>4, <1>5, <1>6, <1>7, <1>9, LoopStep

\* The events up to the head are read, or nothing is.
LEMMA PollStep ==
    ASSUME RecordInv, NEW i \in DOMAIN loops, Poll(i) \/ PollFails(i) \/ SetCursorFails(i)
    PROVE  RecordInv'
<1>0. /\ RecordType /\ Len(chain) \in Nat /\ Len(chain) >= 1
      /\ loops[i] \in LoopType /\ LoopSound(loops[i])
      /\ first \in Nat /\ first <= Len(chain) /\ cursor \in Nat
  BY DEF RecordInv, RecordType
<1>1. UNCHANGED <<ledger, chain, cursor, record, first, skipped, lost>>
  BY DEF Poll, PollFails, SetCursorFails
<1>2. Adds /\ Settled
  BY <1>0, <1>1 DEF Adds, Settled, RecordType, Written
<1>3. CursorSound'
  BY <1>1, <1>2, AddsGrows, CursorStays
<1>4. CASE PollFails(i) \/ SetCursorFails(i)
  <2>1. PICK l : /\ l = [Loop("look") EXCEPT !.began = l.began] /\ l.began \in Nat
                 /\ Goes(i, l)
    <3>1. /\ Loop("look") = [Loop("look") EXCEPT !.began = Loop("look").began]
          /\ Loop("look").began = 0
      BY DEF Loop
    <3>2. CASE SetCursorFails(i)
      BY <3>1, <3>2 DEF SetCursorFails
    <3>3. CASE PollFails(i)
      <4> DEFINE k == [Loop("look") EXCEPT !.began = loops[i].began]
      <4>1. k.began = loops[i].began /\ loops[i].began \in Nat
        BY <1>0 DEF Loop, LoopType
      <4>2. Goes(i, k)
        BY <3>3 DEF PollFails
      <4> QED
        BY <4>1, <4>2
    <3> QED
      BY <1>4, <3>2, <3>3
  <2>2. l \in LoopType /\ l.at = "look"
    BY <2>1 DEF Loop, LoopType, Places
  <2>3. LoopSound(l)'
    BY <2>2 DEF LoopSound
  <2> QED
    BY <2>1, <2>2, <2>3, <1>0, <1>1, <1>2, <1>3, LoopStep
<1>5. CASE Poll(i)
  <2>1. PICK l : l = [loops[i] EXCEPT !.at = "append", !.upto = Next_block(loops[i].from)]
    OBVIOUS
  <2>2. /\ l \in LoopType /\ l.at = "append" /\ l.from = loops[i].from
        /\ l.upto = IF Len(chain) < l.from THEN l.from ELSE Len(chain) + 1
    <3>1. Next_block(loops[i].from) \in Nat
      BY <1>0 DEF Next_block, head, LoopType
    <3> QED
      BY <1>0, <3>1, <2>1 DEF LoopType, Places, Next_block, head
  <2>3. Goes(i, l)
    BY <1>5, <2>1 DEF Poll
  <2>4. 1 <= first /\ first <= l.from /\ l.from <= Len(chain) + 1 /\ Covered(first, l.from)
    BY <1>0, <1>5, <2>2 DEF Poll, LoopSound
  <2>5. l.from <= l.upto /\ l.upto <= Len(chain) + 1
    BY <1>0, <2>2, <2>4 DEF LoopType
  <2>6. LoopSound(l)
    BY <2>2, <2>4, <2>5 DEF LoopSound
  <2>7. LoopSound(l)'
    BY <2>2, <2>6, <1>2, AddsGrows, SoundStays
  <2> QED
    BY <2>2, <2>3, <2>7, <1>0, <1>1, <1>2, <1>3, LoopStep
<1> QED
  BY <1>4, <1>5

\* One event is written down, counted as lost, or about somebody else's file.
LEMMA AppendStep ==
    ASSUME RecordInv, NEW i \in DOMAIN loops, AppendEvent(i) \/ AppendFails(i)
    PROVE  RecordInv'
<1>0. /\ RecordType /\ Len(chain) \in Nat /\ Len(chain) >= 1
      /\ loops[i] \in LoopType /\ LoopSound(loops[i])
      /\ first \in Nat /\ first <= Len(chain) /\ cursor \in Nat
  BY DEF RecordInv, RecordType
<1>1. UNCHANGED <<ledger, chain, cursor, first, skipped>>
  BY DEF AppendEvent, AppendFails
<1>2. PICK b : b = loops[i].from
  OBVIOUS
<1>3. /\ record' \in Seq(Nat) /\ Written \subseteq Written' /\ lost \subseteq lost'
      /\ Mine(b) => b \in Written' \cup lost'
  <2>0. record \in Seq(Nat) /\ b \in Nat
    BY <1>0, <1>2 DEF RecordType, LoopType
  <2>1. CASE record' = Append(record, b) /\ lost' = lost
    <3>1. /\ record' \in Seq(Nat) /\ DOMAIN record \subseteq DOMAIN record'
          /\ \A n \in DOMAIN record : record'[n] = record[n]
          /\ Len(record) + 1 \in DOMAIN record' /\ record'[Len(record) + 1] = b
      BY <2>0, <2>1
    <3>2. Written \subseteq Written' /\ b \in Written'
      BY <3>1 DEF Written
    <3> QED
      BY <2>1, <3>1, <3>2
  <2>2. CASE record' = record /\ lost \subseteq lost' /\ (Mine(b) => b \in lost')
    BY <2>0, <2>2 DEF Written
  <2> QED
    BY <1>2, <2>1, <2>2 DEF AppendEvent, AppendFails, append, Mine
<1>4. Adds /\ Settled
  BY <1>1, <1>3 DEF Adds, Settled
<1>5. CursorSound'
  BY <1>1, <1>4, AddsGrows, CursorStays
<1>6. PICK l : l = [loops[i] EXCEPT !.from = b + 1]
  OBVIOUS
<1>7. /\ loops[i].at = "append" /\ loops[i].from < loops[i].upto /\ Goes(i, l)
  BY <1>2, <1>6 DEF AppendEvent, AppendFails
<1>8. /\ l \in LoopType /\ l.at = "append" /\ l.upto = loops[i].upto /\ l.from = b + 1
  BY <1>0, <1>2, <1>6, <1>7 DEF LoopType
<1>9. /\ 1 <= first /\ first <= b /\ b <= Len(chain) + 1 /\ Covered(first, b)
      /\ b < l.upto /\ l.upto <= Len(chain) + 1 /\ b \in Nat
  BY <1>0, <1>2, <1>7, <1>8 DEF LoopSound, LoopType
<1>10. Covered(first, l.from)'
  <2>1. Grows
    BY <1>4, AddsGrows
  <2>2. \A x \in first..(b - 1) : Mine(x)' => x \in Accounted'
    BY <2>1, <1>0, <1>9, CoveredStays
  <2>3. Mine(b)' => b \in Accounted'
    BY <1>1, <1>3 DEF Mine, Accounted
  <2>4. l.from = b + 1 /\ first' = first
    BY <1>1, <1>8
  <2>5. ASSUME NEW x \in first..(l.from - 1), Mine(x)' PROVE x \in Accounted'
    <3>1. x = b \/ x \in first..(b - 1)
      BY <1>0, <1>9, <2>4
    <3> HIDE DEF Mine, Accounted
    <3> QED
      BY <2>2, <2>3, <2>5, <3>1
  <2> QED
    BY <2>4, <2>5 DEF Covered, Mine
<1>11. LoopSound(l)'
  <2>1. first <= l.from /\ l.from <= l.upto /\ l.from <= Len(chain) + 1
    BY <1>0, <1>8, <1>9 DEF LoopType
  <2> QED
    BY <1>1, <1>8, <1>9, <1>10, <2>1 DEF LoopSound
<1> QED
  BY <1>0, <1>1, <1>4, <1>5, <1>7, <1>8, <1>11, LoopStep

\* The cursor moves to where the loop has read.
LEMMA CursorStep ==
    ASSUME RecordInv, NEW i \in DOMAIN loops, SetCursor(i)
    PROVE  RecordInv'
<1>0. /\ RecordType /\ loops[i] \in LoopType /\ LoopSound(loops[i])
      /\ first \in Nat /\ first <= Len(chain)
  BY DEF RecordInv, RecordType
<1>1. /\ loops[i].at = "append" /\ loops[i].from = loops[i].upto /\ cursor' = loops[i].from
      /\ UNCHANGED <<ledger, chain, record, first, skipped, lost>>
  BY DEF SetCursor
<1>2. Adds /\ Settled
  BY <1>0, <1>1 DEF Adds, Settled, RecordType, Written
<1>3. PICK c : c = loops[i].from
  OBVIOUS
<1>4. /\ c \in Nat /\ 1 <= first /\ first <= c /\ c <= Len(chain) + 1 /\ Covered(first, c)
  BY <1>0, <1>1, <1>3 DEF LoopSound, LoopType
<1>5. Covered(first, c)'
  BY <1>1, <1>4 DEF Covered, Mine, Accounted, Written
<1>6. CursorSound'
  BY <1>1, <1>3, <1>4, <1>5 DEF CursorSound
<1>7. PICK l : l = Loop("look")
  OBVIOUS
<1>8. l \in LoopType /\ l.at = "look" /\ Goes(i, l)
  BY <1>7 DEF Loop, LoopType, Places, SetCursor
<1>9. LoopSound(l)'
  BY <1>8 DEF LoopSound
<1> QED
  BY <1>0, <1>1, <1>2, <1>3, <1>4, <1>6, <1>8, <1>9, LoopStep

---------------------------------------------------------------------------
\* A link comes up or goes down, a file is locked, a block comes.
LEMMA EnvironmentStep ==
    ASSUME RecordInv, Linked \/ Stop \/ Lock \/ Block
    PROVE  RecordInv'
<1>0. RecordType /\ Len(chain) \in Nat /\ Len(chain) >= 1
  BY DEF RecordInv, RecordType
<1>1. CASE Linked \/ Stop
  <2>1. PICK n \in Nat : loops' = [j \in 1..n |-> Loop("look")]
    <3>1. CASE Linked
      BY <3>1, LoopsAssumption DEF Linked
    <3>2. CASE Stop
      <4>1. <<>> = [j \in 1..0 |-> Loop("look")]
        OBVIOUS
      <4> QED
        BY <3>2, <4>1 DEF Stop
    <3> QED
      BY <1>1, <3>1, <3>2
  <2>2. Loop("look") \in LoopType /\ Loop("look").at = "look"
    BY DEF Loop, LoopType, Places
  <2>3. loops' \in Seq(LoopType) /\ \A j \in DOMAIN loops' : loops'[j].at = "look"
    BY <2>1, <2>2
  <2>4. UNCHANGED <<ledger, chain, cursor, record, first, skipped, lost>>
    BY <1>1 DEF Linked, Stop
  <2>5. RecordType' /\ BlocksKnown'
    BY <1>0, <2>3, <2>4 DEF RecordInv, RecordType, BlocksKnown
  <2>6. Adds /\ Settled
    BY <1>0, <2>4 DEF Adds, Settled, RecordType, Written
  <2>7. CursorSound'
    BY <2>4, <2>6, AddsGrows, CursorStays
  <2>8. \A j \in DOMAIN loops' : LoopSound(loops[j])'
    BY <2>3 DEF LoopSound
  <2> QED
    BY <2>4, <2>5, <2>7, <2>8 DEF RecordInv
<1>2. CASE Lock
  <2>1. Cardinality(ledger) \in Nat
    BY <1>0, FS_CardinalityType DEF RecordType
  <2>2. PICK n \in Nat \ {0} : ledger' = ledger \cup {n}
    BY <1>2, <2>1 DEF Lock
  <2>3. UNCHANGED <<loops, chain, cursor, record, first, skipped, lost>>
    BY <1>2 DEF Lock
  <2>4. IsFiniteSet(ledger')
    BY <1>0, <2>2, FS_AddElement DEF RecordType
  <2>5. Grows
    BY <1>0, <2>2, <2>3 DEF Grows, Mine, RecordInv, BlocksKnown, RecordType, Accounted, Written
  <2>6. RecordType' /\ BlocksKnown'
    BY <1>0, <2>2, <2>3, <2>4 DEF RecordInv, RecordType, BlocksKnown
  <2> QED
    BY <2>3, <2>5, <2>6, OutsideStep
<1>3. CASE Block
  <2>1. PICK f \in ledger \cup {0} : chain' = Append(chain, f)
    BY <1>3 DEF Block
  <2>2. UNCHANGED <<loops, ledger, cursor, record, first, skipped, lost>>
    BY <1>3 DEF Block
  <2>3. f \in Nat
    BY <1>0 DEF RecordType
  <2>4. /\ chain' \in Seq(Nat) /\ Len(chain') = Len(chain) + 1
        /\ \A x \in 1..Len(chain) : chain'[x] = chain[x]
        /\ chain'[Len(chain) + 1] = f
    BY <2>1, <2>3, <1>0 DEF RecordType
  <2>5. Grows
    BY <2>2, <2>4, <1>0 DEF Grows, Mine, Accounted, Written
  <2>6. RecordType'
    BY <2>2, <2>4, <1>0 DEF RecordType
  <2>7. BlocksKnown'
    <3> SUFFICES ASSUME NEW b \in 1..Len(chain') PROVE chain'[b] \in ledger \cup {0}
      BY <2>2 DEF BlocksKnown
    <3>1. CASE b \in 1..Len(chain)
      BY <3>1, <2>4 DEF RecordInv, BlocksKnown
    <3>2. CASE b = Len(chain) + 1
      BY <3>2, <2>4
    <3> QED
      BY <3>1, <3>2, <2>4, <1>0
  <2> QED
    BY <2>2, <2>5, <2>6, <2>7, OutsideStep
<1> QED
  BY <1>1, <1>2, <1>3

\* From the first look on, the cursor never passes an event of a file of this machine that is not in
\* the record, other than those a look without a cursor passed over and those that could not be
\* written down, however often the Agent stops and starts, a poll or a write of the cursor fails, or
\* several loops run side by side: merge_events writes the events down before it moves the cursor.
THEOREM RecordTheorem == Spec => []RecordComplete
<1>1. Init => RecordInv
  <2> SUFFICES ASSUME Init PROVE RecordInv
    OBVIOUS
  <2>1. RecordType /\ BlocksKnown
    <3>1. chain \in Seq(Nat) /\ Len(chain) = 1 /\ chain[1] = 0
      BY DEF Init
    <3>2. IsFiniteSet(ledger)
      BY FS_EmptySet DEF Init
    <3>3. loops \in Seq(LoopType) /\ record \in Seq(Nat) /\ ledger \subseteq Nat /\ 0 \notin ledger
      BY DEF Init
    <3>4. cursor \in Nat /\ first \in Nat
      BY DEF Init
    <3> QED
      BY <3>1, <3>2, <3>3, <3>4 DEF RecordType, BlocksKnown
  <2> QED
    BY <2>1 DEF Init, RecordInv, CursorSound
<1>2. RecordInv /\ [Next]_vars => RecordInv'
  <2> SUFFICES ASSUME RecordInv, [Next]_vars PROVE RecordInv'
    OBVIOUS
  <2>1. CASE Linked \/ Stop \/ Lock \/ Block
    BY <2>1, EnvironmentStep
  <2>2. ASSUME NEW i \in DOMAIN loops, Look(i) \/ LookFirst(i) \/ LookMisreads(i) PROVE RecordInv'
    BY <2>2, LookStep
  <2>3. ASSUME NEW i \in DOMAIN loops, Poll(i) \/ PollFails(i) \/ SetCursorFails(i)
        PROVE  RecordInv'
    BY <2>3, PollStep
  <2>4. ASSUME NEW i \in DOMAIN loops, AppendEvent(i) \/ AppendFails(i) PROVE RecordInv'
    BY <2>4, AppendStep
  <2>5. ASSUME NEW i \in DOMAIN loops, SetCursor(i) PROVE RecordInv'
    BY <2>5, CursorStep
  <2>6. CASE UNCHANGED vars
    BY <2>6 DEF vars, RecordInv, RecordType, BlocksKnown, LoopSound, CursorSound, Covered, Mine,
       Accounted, Written
  <2> QED
    BY <2>1, <2>2, <2>3, <2>4, <2>5, <2>6 DEF Next
<1>3. RecordInv => RecordComplete
  <2> SUFFICES ASSUME RecordInv PROVE RecordComplete
    OBVIOUS
  <2>1. CASE cursor = 0
    BY <2>1 DEF RecordInv, RecordType, RecordComplete
  <2>2. CASE cursor # 0
    BY <2>2 DEF RecordInv, CursorSound, RecordComplete, Covered, Accounted
  <2> QED
    BY <2>1, <2>2
<1> QED
  BY <1>1, <1>2, <1>3, PTL DEF Spec
=============================================================================
