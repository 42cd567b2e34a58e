------------------------- MODULE SessionMemory_proofs -------------------------
(***************************************************************************)
(* What TLAPS proves of the memory of an agent, for any number of          *)
(* sessions, rows, hooks and events.                                       *)
(***************************************************************************)
EXTENDS SessionMemory, FiniteSetTheorems, WellFoundedInduction, SequenceTheorems, TLAPS

-----------------------------------------------------------------------------
(* The table *)

LEMMA RowsAre ==
    ASSUME TypeOK
    PROVE  /\ Len(table) \in Nat /\ Ids = 1..Len(table) /\ IsFiniteSet(Ids)
           /\ Ids \subseteq 1..MaxRows
           /\ \A i \in Ids : table[i] \in Row
<1>1. table \in Seq(Row) /\ Len(table) \in Nat /\ Len(table) <= MaxRows
  BY LenProperties DEF TypeOK
<1>2. MaxRows \in Nat
  BY MemoryAssumption
<1>3. \A i \in Ids : table[i] \in Row
  BY <1>1, ElementOfSeq DEF Ids
<1>q. QED
  BY <1>1, <1>2, <1>3, FS_Interval DEF Ids

(* What appending a row does. *)
LEMMA AppendFacts ==
    ASSUME TypeOK, NEW row \in Row, Len(table) < MaxRows, table' = Append(table, row)
    PROVE  /\ table' \in Seq(Row) /\ Len(table') <= MaxRows
           /\ Ids' = Ids \cup {Len(table) + 1} /\ Len(table) + 1 \notin Ids
           /\ Ids \subseteq Ids'
           /\ \A i \in Ids : table'[i] = table[i]
           /\ table'[Len(table) + 1] = row
<1>1. table \in Seq(Row) /\ Len(table) \in Nat /\ Ids = 1..Len(table) /\ MaxRows \in Nat
  BY RowsAre, MemoryAssumption DEF TypeOK
<1>2. /\ table' \in Seq(Row)
      /\ Len(table') = Len(table) + 1
      /\ \A i \in 1..Len(table) : table'[i] = table[i]
      /\ table'[Len(table) + 1] = row
  BY <1>1, AppendProperties
<1>3. Ids' = 1..(Len(table) + 1)
  BY <1>2 DEF Ids
<1>q. QED
  BY <1>1, <1>2, <1>3

(* What was kept of the rows so far is of the right type in a longer table. *)
LEMMA TypesWiden ==
    ASSUME TypeOK, Ids \subseteq Ids'
    PROVE  /\ {NoSummary} \cup Summary \subseteq ({NoSummary} \cup Summary)'
           /\ {NotEnding} \cup Ending \subseteq ({NotEnding} \cup Ending)'
           /\ summaries \in [SessionIds -> ({NoSummary} \cup Summary)']
           /\ ends \in [Ends -> ({NotEnding} \cup Ending)']
           /\ file \in [rows : SUBSET Ids', summaries : [SessionIds -> ({NoSummary} \cup Summary)']]
           /\ covered \in [SessionIds -> SUBSET Ids']
<1>1. {NoSummary} \cup Summary \subseteq ({NoSummary} \cup Summary)'
  BY DEF Summary, NoSummary
<1>2. {NotEnding} \cup Ending \subseteq ({NotEnding} \cup Ending)'
  BY DEF Ending, NotEnding
<1>3. summaries \in [SessionIds -> ({NoSummary} \cup Summary)']
  BY <1>1 DEF TypeOK
<1>4. ends \in [Ends -> ({NotEnding} \cup Ending)']
  BY <1>2 DEF TypeOK
<1>5. file \in [rows : SUBSET Ids', summaries : [SessionIds -> ({NoSummary} \cup Summary)']]
  <2>1. [SessionIds -> {NoSummary} \cup Summary] \subseteq [SessionIds -> ({NoSummary} \cup Summary)']
    BY <1>1
  <2>2. SUBSET Ids \subseteq SUBSET Ids'
    OBVIOUS
  <2>q. QED
    BY <2>1, <2>2 DEF TypeOK
<1>6. covered \in [SessionIds -> SUBSET Ids']
  BY DEF TypeOK
<1>q. QED
  BY <1>1, <1>2, <1>3, <1>4, <1>5, <1>6

(* A step that adds a row, and deletes some. *)
LEMMA AddingKeepsTypes ==
    ASSUME TypeOK, NEW row \in Row, Len(table) < MaxRows, table' = Append(table, row),
           rows' \subseteq rows \cup {Len(table) + 1},
           compacted' \subseteq rows' \cap {i \in rows : table[i].kind \in Chat},
           UNCHANGED <<now, summaries, ends, file, covered, overlapped>>,
           importing' \subseteq importing, 0 \in importing => 0 \in importing',
           looked' \in file.rows \cup {0}, made' \in [MadeUp -> -1..MaxSeconds],
           stale' \subseteq stale \cup {Len(table) + 1},
           events' \in 0..MaxEvents,
           active' \in Open,
           Nobody \in {active'.session, active'.of} => active' = NotOpen,
           mixed' \in BOOLEAN
    PROVE  TypeOK'
<1>1. /\ table' \in Seq(Row) /\ Len(table') <= MaxRows
      /\ Ids' = Ids \cup {Len(table) + 1}
      /\ Ids \subseteq Ids'
      /\ \A i \in Ids : table'[i] = table[i]
  BY AppendFacts
<1>2. rows' \subseteq Ids'
  BY <1>1 DEF TypeOK
<1>3. compacted' \subseteq {i \in rows' : table'[i].kind \in Chat}
  BY <1>1 DEF TypeOK
<1>4. /\ summaries' \in [SessionIds -> ({NoSummary} \cup Summary)']
      /\ ends' \in [Ends -> ({NotEnding} \cup Ending)']
      /\ file' \in [rows : SUBSET Ids', summaries : [SessionIds -> ({NoSummary} \cup Summary)']]
      /\ covered' \in [SessionIds -> SUBSET Ids']
  BY <1>1, TypesWiden
<1>5. /\ importing' \subseteq file'.rows \cup {0} /\ (importing' # {} => 0 \in importing')
      /\ looked' \in file'.rows \cup {0} /\ stale' \subseteq Ids'
  BY <1>1 DEF TypeOK
<1>q. QED
  BY <1>1, <1>2, <1>3, <1>4, <1>5 DEF TypeOK

(* A step that adds none. *)
LEMMA NoRowKeepsTypes ==
    ASSUME TypeOK, UNCHANGED table, rows' \subseteq rows, compacted' = compacted \cap rows',
           now' \in 0..MaxSeconds,
           summaries' \in [SessionIds -> {NoSummary} \cup Summary],
           active' \in Open,
           Nobody \in {active'.session, active'.of} => active' = NotOpen,
           ends' \in [Ends -> {NotEnding} \cup Ending],
           file' \in [rows : SUBSET Ids, summaries : [SessionIds -> {NoSummary} \cup Summary]],
           importing' \subseteq file'.rows \cup {0},
           importing' # {} => 0 \in importing',
           looked' \in file'.rows \cup {0}, made' \in [MadeUp -> -1..MaxSeconds],
           UNCHANGED stale,
           events' \in 0..MaxEvents,
           covered' \in [SessionIds -> SUBSET Ids],
           overlapped' \subseteq SessionIds,
           mixed' \in BOOLEAN
    PROVE  TypeOK'
<1>1. Ids' = Ids /\ Summary' = Summary /\ Ending' = Ending
  BY DEF Ids, Summary, Ending
<1>2. rows' \subseteq Ids' /\ compacted' \subseteq {i \in rows' : table'[i].kind \in Chat}
  BY <1>1 DEF TypeOK
<1>q. QED
  BY <1>1, <1>2 DEF TypeOK

-----------------------------------------------------------------------------
(* The types *)

LEMMA InitTypes == Init => TypeOK
<1> SUFFICES ASSUME Init PROVE TypeOK
  OBVIOUS
<1>1. table = <<>> /\ table \in Seq(Row) /\ Len(table) = 0 /\ Ids = {}
  BY EmptySeq DEF Init, Ids
<1>2. file \in [rows : SUBSET Ids, summaries : [SessionIds -> {NoSummary} \cup Summary]]
  BY DEF Init, NoFile
<1>3. summaries \in [SessionIds -> {NoSummary} \cup Summary] /\ ends \in [Ends -> {NotEnding} \cup Ending]
  BY DEF Init
<1>4. active \in Open
  BY DEF Init, NotOpen, Open
<1>5. covered \in [SessionIds -> SUBSET Ids]
  BY DEF Init
<1>6. /\ 0 \in 0..MaxSeconds /\ 0 \in 0..MaxEvents /\ 0 <= MaxRows
      /\ made \in [MadeUp -> -1..MaxSeconds]
  BY MemoryAssumption DEF Init
<1>q. QED
  BY <1>1, <1>2, <1>3, <1>4, <1>5, <1>6 DEF Init, TypeOK

(* The rows of the first that an import has left to read. *)
LEMMA Smallest ==
    ASSUME NEW T \in SUBSET Nat, T # {}
    PROVE  \E m \in T : \A k \in T : m <= k
<1> DEFINE R == StrictSubsetOrdering(Nat)
           Below == {1..n : n \in T}
<1>1. IsWellFoundedOn(R, FiniteSubsetsOf(Nat))
  BY FS_StrictSubsetOrderingWellFounded
<1>2. Below \subseteq FiniteSubsetsOf(Nat)
  <2>1. \A n \in T : IsFiniteSet(1..n) /\ 1..n \subseteq Nat
    BY FS_Interval
  <2>q. QED
    BY <2>1 DEF FiniteSubsetsOf
<1>3. PICK x \in Below : \A y \in Below : <<y, x>> \notin R
  <2> HIDE DEF R
  <2>1. Below # {}
    OBVIOUS
  <2> HIDE DEF Below
  <2>q. QED
    BY <1>1, <1>2, <2>1, WFMin
<1>4. PICK m \in T : x = 1..m
  OBVIOUS
<1>5. ASSUME NEW k \in T, k < m PROVE FALSE
  <2>1. m \in 1..m /\ m \notin 1..k
    BY <1>5
  <2>2. 1..k \subseteq 1..m /\ 1..k # 1..m
    BY <1>5, <2>1
  <2>3. <<1..k, 1..m>> \in R
    BY <2>2 DEF StrictSubsetOrdering
  <2>q. QED
    BY <1>3, <1>4, <2>3
<1>q. QED
  BY <1>5

(* The import looks at a row of the file, and finds it missing or not.     *)
LEMMA ImportLooksFacts ==
    ASSUME TypeOK, ImportLooks
    PROVE  \E i \in file.rows :
              /\ importing' = importing \ {i} /\ i # 0 /\ i \in importing
              /\ looked' \in {0, i}
<1> DEFINE left == importing \ {0}
           i == CHOOSE j \in left : \A k \in left : j <= k
<1>1. left # {}
  BY DEF ImportLooks
<1>2. left \subseteq file.rows /\ left \subseteq Nat
  BY RowsAre DEF TypeOK
<1>3. i \in left
  <2> HIDE DEF left
  <2>1. \E j \in left : \A k \in left : j <= k
    BY <1>1, <1>2, Smallest
  <2>q. QED
    BY <2>1
<1>4. importing' = importing \ {i} /\ looked' \in {0, i}
  BY DEF ImportLooks
<1> HIDE DEF i
<1>q. QED
  BY <1>2, <1>3, <1>4

(* The row that it inserts is a row of the table once; it counts as stale  *)
(* if one of its hash is there.                                            *)
LEMMA ImportInsertsFacts ==
    ASSUME TypeOK, ImportInserts
    PROVE  /\ looked \in Ids /\ table[looked] \in Row /\ insert(table[looked])
           /\ stale' \subseteq stale \cup {Len(table) + 1}
           /\ stale \subseteq stale'
           /\ \/ Len(table) + 1 \in stale'
              \/ table[looked].kind # "compaction" =>
                     \A j \in rows : ~SameHash(j, table[looked].session, table[looked].kind,
                                               table[looked].text)
<1>1. looked \in Ids
  BY DEF ImportInserts, TypeOK
<1>q. QED
  BY <1>1, RowsAre DEF ImportInserts, SameRow

(* The ids that an event may be filed under. *)
LEMMA SessionOfFacts ==
    ASSUME TypeOK, NEW s \in Sessions, NEW given \in BOOLEAN, NEW others
    PROVE  /\ \A id \in SessionOf(s, given, others) :
                 id \in SessionIds \/ id = Unknown \/ id \in others
           /\ SessionOf(s, given, {}) \subseteq SessionIds
           /\ FromClock \subseteq MadeUp
<1>1. active # NotOpen => active.session \in SessionIds
  BY DEF TypeOK, Open
<1>q. QED
  BY <1>1 DEF SessionOf, SessionIds, FromClock

LEMMA MakesUpType ==
    ASSUME TypeOK, NEW id, MakesUp(id)
    PROVE  made' \in [MadeUp -> -1..MaxSeconds]
<1>1. now \in -1..MaxSeconds
  BY MemoryAssumption DEF TypeOK
<1>q. QED
  BY <1>1 DEF TypeOK, MakesUp

LEMMA NewRowType ==
    ASSUME TypeOK, NEW s \in Sessions, NEW id \in SessionIds \cup {Unknown},
           NEW kind \in Kinds, NEW text \in Texts \cup {Nobody}
    PROVE  NewRow(s, id, kind, text) \in Row
BY DEF NewRow, Row, TypeOK

(* The hooks that may add a row. *)
Captures(s, given, kind, text) ==
    \/ captureChatMessage(s, given, kind, text)
    \/ kind = "tool" /\ onAfterToolCall(s, given, text)

LEMMA CaptureFacts ==
    ASSUME TypeOK, NEW s \in Sessions, NEW given \in BOOLEAN, NEW kind \in Kinds,
           NEW text \in Texts \cup {Nobody}, Captures(s, given, kind, text)
    PROVE  /\ \E id \in SessionOf(s, given, FromClock \cup {Unknown}) :
                 /\ NewRow(s, id, kind, text) \in Row
                 /\ \/ UNCHANGED <<table, rows, made>>
                    \/ /\ insert(NewRow(s, id, kind, text))
                       /\ ~isDuplicate(id, kind, text)
                       /\ MakesUp(id)
           /\ mixed' = IsMixed(s)
           /\ active' \in {active, Said(s, kind)}
           /\ UNCHANGED <<now, compacted, summaries, ends, file, importing, looked, events,
                          covered, overlapped, stale>>
<1>1. PICK id \in SessionOf(s, given, FromClock \cup {Unknown}) : insertNew(s, id, kind, text)
  BY DEF Captures, captureChatMessage, onAfterToolCall, SessionOf
<1>2. id \in SessionIds \cup {Unknown}
  BY <1>1, SessionOfFacts DEF SessionIds
<1>3. NewRow(s, id, kind, text) \in Row
  BY <1>2, NewRowType
<1>4. \/ UNCHANGED <<table, rows, made>>
      \/ insert(NewRow(s, id, kind, text)) /\ ~isDuplicate(id, kind, text) /\ MakesUp(id)
  BY <1>1 DEF insertNew
<1>q. QED
  BY <1>1, <1>3, <1>4 DEF Captures, captureChatMessage, onAfterToolCall

(* It may add a row, and change what the session said last. *)
LEMMA InsertingKeepsTypes ==
    ASSUME TypeOK, NEW row \in Row, UNCHANGED <<table, rows>> \/ insert(row),
           UNCHANGED <<now, compacted, summaries, ends, file, covered, overlapped, events>>,
           importing' \subseteq importing, 0 \in importing => 0 \in importing',
           looked' \in file.rows \cup {0}, made' \in [MadeUp -> -1..MaxSeconds],
           UNCHANGED stale \/ (insert(row) /\ stale' \subseteq stale \cup {Len(table) + 1}),
           active' \in Open,
           Nobody \in {active'.session, active'.of} => active' = NotOpen,
           mixed' \in BOOLEAN
    PROVE  TypeOK'
<1>1. CASE UNCHANGED <<table, rows>> /\ UNCHANGED stale
  <2>1. /\ compacted' = compacted \cap rows' /\ importing' \subseteq file'.rows \cup {0}
        /\ (importing' # {} => 0 \in importing')
    BY <1>1 DEF TypeOK
  <2>q. QED
    BY <1>1, <2>1, NoRowKeepsTypes DEF TypeOK
<1>2. CASE insert(row)
  <2>1. compacted' \subseteq rows' \cap {i \in rows : table[i].kind \in Chat}
    BY <1>2 DEF insert, TypeOK
  <2>q. QED
    BY <1>2, <2>1, AddingKeepsTypes DEF insert, TypeOK
<1>q. QED
  BY <1>1, <1>2

LEMMA CapturesKeepTypes ==
    ASSUME TypeOK, NEW s \in Sessions, NEW given \in BOOLEAN, NEW kind \in Kinds,
           NEW text \in Texts \cup {Nobody}, Captures(s, given, kind, text)
    PROVE  TypeOK'
<1>1. active' \in Open /\ (Nobody \in {active'.session, active'.of} => active' = NotOpen)
  <2>1. active \in Open /\ (Nobody \in {active.session, active.of} => active = NotOpen)
    BY DEF TypeOK
  <2>2. /\ Said(s, kind) \in Open
        /\ Nobody \in {Said(s, kind).session, Said(s, kind).of} => Said(s, kind) = NotOpen
    <3>1. CASE kind = "user" /\ active.session # Nobody
      <4>1. active # NotOpen
        BY <3>1 DEF NotOpen
      <4>2. [active EXCEPT !.said = s] \in Open
        BY <2>1 DEF Open
      <4>3. /\ [active EXCEPT !.said = s].session = active.session
            /\ [active EXCEPT !.said = s].of = active.of
        BY <2>1 DEF Open
      <4>q. QED
        BY <2>1, <3>1, <4>1, <4>2, <4>3 DEF Said
    <3>2. CASE ~(kind = "user" /\ active.session # Nobody)
      BY <2>1, <3>2 DEF Said
    <3>q. QED
      BY <3>1, <3>2
  <2>q. QED
    BY <2>1, <2>2, CaptureFacts
<1>2. mixed' \in BOOLEAN /\ looked' \in file.rows \cup {0}
  BY CaptureFacts DEF IsMixed, TypeOK
<1>3. PICK id : /\ NewRow(s, id, kind, text) \in Row
                /\ \/ UNCHANGED <<table, rows, made>>
                   \/ insert(NewRow(s, id, kind, text)) /\ MakesUp(id)
  BY CaptureFacts
<1>4. made' \in [MadeUp -> -1..MaxSeconds]
  BY <1>3, MakesUpType DEF TypeOK
<1>q. QED
  BY <1>1, <1>2, <1>3, <1>4, CaptureFacts, InsertingKeepsTypes

LEMMA HookKeepsTypes ==
    ASSUME TypeOK, Hook
    PROVE  TypeOK'
<1>1. compacted = compacted \cap rows
  BY DEF TypeOK
<1>2. ASSUME NEW s \in Sessions, NEW id \in {s} \cup FromClock, onSessionStart(s, id)
      PROVE  TypeOK'
  <2>1. id \in SessionIds
    BY <1>2 DEF SessionIds, FromClock
  <2>2. active' \in Open
    BY <1>2, <2>1 DEF onSessionStart, Open
  <2>3. active'.session # Nobody /\ active'.of # Nobody
    BY <1>2, <2>1, MemoryAssumption DEF onSessionStart, SessionIds
  <2>4. made' \in [MadeUp -> -1..MaxSeconds]
    BY <1>2, MakesUpType DEF onSessionStart
  <2>q. QED
    BY <1>1, <1>2, <2>2, <2>3, <2>4, NoRowKeepsTypes DEF onSessionStart, TypeOK
<1>3. ASSUME NEW s \in Sessions, onSessionEnd(s) PROVE TypeOK'
  <2>1. active' = NotOpen /\ NotOpen \in Open
    BY <1>3 DEF onSessionEnd, NotOpen, Open
  <2>2. mixed' \in BOOLEAN
    BY <1>3 DEF onSessionEnd, IsMixed, TypeOK
  <2>q. QED
    BY <1>1, <1>3, <2>1, <2>2, NoRowKeepsTypes DEF onSessionEnd, TypeOK
<1>4. ASSUME NEW s \in Sessions, NEW given \in BOOLEAN, NEW e \in Ends, onAgentEnd(e, s, given)
      PROVE  TypeOK'
  <2>1. PICK id \in SessionOf(s, given, {}) :
            /\ getBySession(id) # {}
            /\ ends' = [ends EXCEPT ![e] = [session |-> id, covers |-> getBySession(id),
                                            request |-> active.said]]
            /\ overlapped' = IF \E d \in Ends : ends[d].session = id
                             THEN overlapped \cup {id} ELSE overlapped
    BY <1>4 DEF onAgentEnd
  <2>2. id \in SessionIds
    BY <2>1, SessionOfFacts
  <2>3. [session |-> id, covers |-> getBySession(id), request |-> active.said] \in Ending
    <3>1. getBySession(id) \in (SUBSET Ids) \ {{}}
      BY <2>1 DEF getBySession, TypeOK
    <3>2. active.said \in Sessions \cup {Nobody}
      BY DEF TypeOK, Open
    <3>q. QED
      BY <2>2, <3>1, <3>2 DEF Ending
  <2>4. ends' \in [Ends -> {NotEnding} \cup Ending]
    BY <2>1, <2>3 DEF TypeOK
  <2>5. overlapped' \subseteq SessionIds
    BY <2>1, <2>2 DEF TypeOK
  <2>6. mixed' \in BOOLEAN
    BY <1>4 DEF onAgentEnd, IsMixed, TypeOK
  <2>q. QED
    BY <1>1, <1>4, <2>4, <2>5, <2>6, NoRowKeepsTypes DEF onAgentEnd, TypeOK
<1>q. QED
  BY <1>2, <1>3, <1>4, CapturesKeepTypes DEF Hook, Captures

(* A summary that is made is of the rows that the hook read. *)
LEMMA SummarizedFacts ==
    ASSUME TypeOK, NEW e \in Ends, Summarized(e)
    PROVE  /\ ends[e] \in Ending /\ ends[e].session \in SessionIds
           /\ ends' = [ends EXCEPT ![e] = NotEnding]
           /\ \/ UNCHANGED <<summaries, covered>>
              \/ /\ summarizeSession(e) \in Summary
                 /\ upsert(ends[e].session, summarizeSession(e))
<1>1. ends[e] \in Ending
  BY DEF TypeOK, Summarized
<1>2. PICK summary \in createSummarizer(e) :
        IF summary = NoSummary THEN UNCHANGED <<summaries, covered>>
        ELSE upsert(ends[e].session, summary)
  BY DEF Summarized
<1>3. summary \in {NoSummary, summarizeSession(e)}
  BY DEF createSummarizer, summarizeSessionWithLLM, summarizeSessionWithOpenClaw, Thrown
<1>4. summarizeSession(e) \in Summary
  BY <1>1 DEF summarizeSession, Summary, Ending, TypeOK
<1>q. QED
  BY <1>1, <1>2, <1>3, <1>4 DEF Summarized, Ending

LEMMA SummarizedKeepsTypes ==
    ASSUME TypeOK, NEW e \in Ends, Summarized(e)
    PROVE  TypeOK'
<1>1. /\ ends' \in [Ends -> {NotEnding} \cup Ending]
      /\ compacted = compacted \cap rows
  BY SummarizedFacts DEF TypeOK
<1>2. summaries' \in [SessionIds -> {NoSummary} \cup Summary]
  BY SummarizedFacts DEF TypeOK, upsert
<1>3. covered' \in [SessionIds -> SUBSET Ids]
  <2>1. CASE UNCHANGED covered
    BY <2>1 DEF TypeOK
  <2>2. CASE /\ summarizeSession(e) \in Summary
             /\ upsert(ends[e].session, summarizeSession(e))
    <3>1. summarizeSession(e).covers \in SUBSET Ids
      BY <2>2 DEF Summary
    <3>q. QED
      BY <2>2, <3>1 DEF TypeOK, upsert
  <2>q. QED
    BY <2>1, <2>2, SummarizedFacts
<1>q. QED
  BY <1>1, <1>2, <1>3, NoRowKeepsTypes DEF Summarized, TypeOK

(* The row of a compaction. *)
CompactionOf(batch) ==
    [session |-> Unknown, of |-> Nobody, kind |-> "compaction", text |-> Nobody,
     epoch |-> now, covers |-> batch]

LEMMA CompactionFacts ==
    ASSUME TypeOK, NEW batch \in SUBSET (rows \ compacted),
           NEW pruned \in SUBSET (compacted \cup batch), runChatCompaction(batch, pruned)
    PROVE  /\ CompactionOf(batch) \in Row
           /\ Len(table) < MaxRows /\ table' = Append(table, CompactionOf(batch))
           /\ rows' = (rows \cup {Len(table) + 1}) \ pruned
           /\ pruned \subseteq rows
           /\ compacted' = (compacted \cup batch) \ pruned
           /\ compacted' \subseteq rows' \cap {i \in rows : table[i].kind \in Chat}
<1>1. batch \subseteq 1..MaxRows /\ now \in 0..MaxSeconds
  BY RowsAre DEF TypeOK
<1>2. CompactionOf(batch) \in Row
  BY <1>1 DEF CompactionOf, Row
<1>q. QED
  BY <1>2 DEF runChatCompaction, CompactionOf, TypeOK

LEMMA EventBound ==
    ASSUME TypeOK, Event
    PROVE  events' \in 0..MaxEvents
BY MemoryAssumption DEF TypeOK, Event

LEMMA CompactionKeepsTypes ==
    ASSUME TypeOK, NEW batch \in SUBSET (rows \ compacted),
           NEW pruned \in SUBSET (compacted \cup batch), runChatCompaction(batch, pruned)
    PROVE  TypeOK'
<1>1. events' \in 0..MaxEvents
  BY EventBound DEF runChatCompaction
<1>2. rows' \subseteq rows \cup {Len(table) + 1}
  BY DEF runChatCompaction
<1>3. /\ UNCHANGED <<now, made, summaries, ends, file, covered, overlapped, importing, looked,
                     active, mixed, stale>>
      /\ made \in [MadeUp -> -1..MaxSeconds] /\ looked \in file.rows \cup {0}
      /\ active \in Open
      /\ Nobody \in {active.session, active.of} => active = NotOpen
      /\ mixed \in BOOLEAN
  BY DEF runChatCompaction, TypeOK
<1>4. PICK row \in Row : row = CompactionOf(batch)
  BY CompactionFacts
<1>5. /\ Len(table) < MaxRows /\ table' = Append(table, row)
      /\ compacted' \subseteq rows' \cap {i \in rows : table[i].kind \in Chat}
  BY <1>4, CompactionFacts
<1>q. QED
  BY <1>1, <1>2, <1>3, <1>5, AddingKeepsTypes

LEMMA MaintenanceKeepsTypes ==
    ASSUME TypeOK, Maintenance
    PROVE  TypeOK'
<1>1. /\ compacted = compacted \cap rows /\ rows \subseteq Ids
      /\ NoSummary \in {NoSummary} \cup Summary
  BY DEF TypeOK
<1>2. ASSUME NEW s \in SessionIds, Forget(s) PROVE TypeOK'
  <2>1. rows' \subseteq rows /\ compacted' = compacted \cap rows'
    BY <1>1, <1>2 DEF Forget, deleteBySession, delete
  <2>q. QED
    BY <1>2, <2>1, NoRowKeepsTypes DEF Forget, TypeOK
<1>3. ASSUME NEW cutoff, NEW includeSummaries, Prune(cutoff, includeSummaries) PROVE TypeOK'
  <2>1. rows' \subseteq rows /\ compacted' = compacted \cap rows'
    BY <1>1, <1>3 DEF Prune, delete
  <2>2. summaries' \in [SessionIds -> {NoSummary} \cup Summary]
    BY <1>3 DEF Prune, TypeOK
  <2>3. covered' \in [SessionIds -> SUBSET Ids]
    BY <1>3 DEF Prune, TypeOK
  <2>4. events' \in 0..MaxEvents
    BY <1>3, EventBound DEF Prune
  <2>q. QED
    BY <1>3, <2>1, <2>2, <2>3, <2>4, NoRowKeepsTypes DEF Prune, TypeOK
<1>4. CASE Export
  <2>1. file' \in [rows : SUBSET Ids, summaries : [SessionIds -> {NoSummary} \cup Summary]]
    BY <1>4 DEF Export, TypeOK
  <2>2. importing' = {} /\ looked = 0
    BY <1>4 DEF Export, TypeOK, NoFile
  <2>q. QED
    BY <1>1, <1>4, <2>1, <2>2, NoRowKeepsTypes DEF Export, TypeOK
<1>5. CASE BeginImport
  <2>1. importing' = file'.rows \cup {0} /\ 0 \in importing'
    BY <1>5 DEF BeginImport
  <2>2. events' \in 0..MaxEvents
    BY <1>5, EventBound DEF BeginImport
  <2>q. QED
    BY <1>1, <1>5, <2>1, <2>2, NoRowKeepsTypes DEF BeginImport, TypeOK
<1>6. CASE ImportLooks
  <2>1. /\ importing' \subseteq importing /\ (importing' # {} => 0 \in importing')
        /\ looked' \in file.rows \cup {0}
    BY <1>6, ImportLooksFacts DEF TypeOK
  <2>q. QED
    BY <1>1, <1>6, <2>1, NoRowKeepsTypes DEF ImportLooks, TypeOK
<1>6a. CASE ImportInserts
  <2>1. looked' \in file.rows \cup {0}
    BY <1>6a DEF ImportInserts
  <2>q. QED
    BY <1>6a, <2>1, ImportInsertsFacts, InsertingKeepsTypes DEF ImportInserts, TypeOK
<1>7. CASE ImportSummaries
  <2>1. file.summaries \in [SessionIds -> {NoSummary} \cup Summary]
    BY DEF TypeOK
  <2>2. summaries' \in [SessionIds -> {NoSummary} \cup Summary]
    BY <1>7, <2>1 DEF ImportSummaries, TypeOK
  <2>3. \A s \in SessionIds : file.summaries[s].covers \in SUBSET Ids
    BY <2>1 DEF NoSummary, Summary
  <2>4. covered' \in [SessionIds -> SUBSET Ids]
    BY <1>7, <2>3 DEF ImportSummaries, TypeOK
  <2>5. importing' = {}
    BY <1>7 DEF ImportSummaries
  <2>q. QED
    BY <1>1, <1>7, <2>2, <2>4, <2>5, NoRowKeepsTypes DEF ImportSummaries, TypeOK
<1>8. CASE ImportEnds
  <2>1. importing' = {}
    BY <1>8 DEF ImportEnds
  <2>q. QED
    BY <1>1, <1>8, <2>1, NoRowKeepsTypes DEF ImportEnds, TypeOK
<1>q. QED
  BY <1>2, <1>3, <1>4, <1>5, <1>6, <1>6a, <1>7, <1>8 DEF Maintenance

LEMMA NextTypes ==
    ASSUME TypeOK, [Next]_vars
    PROVE  TypeOK'
<1>1. compacted = compacted \cap rows
  BY DEF TypeOK
<1>2. CASE Restart
  <2>1. active' = NotOpen /\ NotOpen \in Open
    BY <1>2 DEF Restart, NotOpen, Open
  <2>2. ends' \in [Ends -> {NotEnding} \cup Ending]
    BY <1>2 DEF Restart
  <2>3. events' \in 0..MaxEvents
    BY <1>2, EventBound DEF Restart
  <2>q. QED
    BY <1>1, <1>2, <2>1, <2>2, <2>3, NoRowKeepsTypes DEF Restart, TypeOK
<1>3. CASE ClockTicks
  <2>1. now' \in 0..MaxSeconds
    BY <1>3, MemoryAssumption DEF ClockTicks, TypeOK
  <2>q. QED
    BY <1>1, <1>3, <2>1, NoRowKeepsTypes DEF ClockTicks, TypeOK
<1>4. CASE UNCHANGED vars
  BY <1>1, <1>4, NoRowKeepsTypes DEF vars, TypeOK
<1>q. QED
  BY <1>2, <1>3, <1>4, HookKeepsTypes, SummarizedKeepsTypes, CompactionKeepsTypes,
     MaintenanceKeepsTypes DEF Next

-----------------------------------------------------------------------------
(* Rows stay what they are, and none comes back under its own position. *)

RowsStay ==
    /\ Ids \subseteq Ids'
    /\ \A i \in Ids : table'[i] = table[i]
    /\ rows' \cap Ids \subseteq rows

LEMMA InsertStays ==
    ASSUME TypeOK, NEW row \in Row, UNCHANGED <<table, rows>> \/ insert(row)
    PROVE  RowsStay
<1>1. CASE UNCHANGED <<table, rows>>
  BY <1>1 DEF RowsStay, Ids
<1>2. CASE insert(row)
  BY <1>2, AppendFacts DEF RowsStay, insert
<1>q. QED
  BY <1>1, <1>2

(* The actions that add no row. *)
Quiet ==
    \/ \E s \in Sessions :
            onSessionEnd(s) \/ \E id \in {s} \cup FromClock : onSessionStart(s, id)
    \/ \E e \in Ends, s \in Sessions, given \in BOOLEAN : onAgentEnd(e, s, given)
    \/ \E e \in Ends : Summarized(e)
    \/ \E s \in SessionIds : Forget(s)
    \/ \E cutoff \in 1..(MaxSeconds + 1), includeSummaries \in BOOLEAN :
            Prune(cutoff, includeSummaries)
    \/ Export \/ BeginImport \/ ImportLooks \/ ImportSummaries \/ ImportEnds
    \/ Restart \/ ClockTicks \/ UNCHANGED vars

LEMMA Steps ==
    ASSUME [Next]_vars
    PROVE  \/ Quiet
           \/ \E s \in Sessions, given \in BOOLEAN, kind \in Kinds, text \in Texts \cup {Nobody} :
                Captures(s, given, kind, text)
           \/ \E batch \in SUBSET (rows \ compacted) :
                \E pruned \in SUBSET (compacted \cup batch) : runChatCompaction(batch, pruned)
           \/ ImportInserts
<1>1. CASE Hook
  BY <1>1 DEF Hook, Quiet, Captures
<1>2. CASE Maintenance
  BY <1>2 DEF Maintenance, Quiet
<1>q. QED
  BY <1>1, <1>2 DEF Next, Quiet

LEMMA QuietStays ==
    ASSUME TypeOK, Quiet
    PROVE  UNCHANGED <<table, stale>> /\ rows' \subseteq rows /\ compacted' = compacted \cap rows'
<1>1. compacted = compacted \cap rows
  BY DEF TypeOK
<1>2. ASSUME \/ \E s \in Sessions :
                    onSessionEnd(s) \/ \E id \in {s} \cup FromClock : onSessionStart(s, id)
             \/ \E e \in Ends, s \in Sessions, given \in BOOLEAN : onAgentEnd(e, s, given)
             \/ \E e \in Ends : Summarized(e)
      PROVE  UNCHANGED <<table, rows, compacted, stale>>
  BY <1>2 DEF onSessionStart, onSessionEnd, onAgentEnd, Summarized
<1>3. ASSUME Export \/ BeginImport \/ ImportLooks \/ ImportSummaries \/ ImportEnds
      PROVE  UNCHANGED <<table, rows, compacted, stale>>
  BY <1>3 DEF Export, BeginImport, ImportLooks, ImportSummaries, ImportEnds
<1>4. ASSUME Restart \/ ClockTicks \/ UNCHANGED vars
      PROVE  UNCHANGED <<table, rows, compacted, stale>>
  BY <1>4 DEF Restart, ClockTicks, vars
<1>5. ASSUME NEW s \in SessionIds, Forget(s)
      PROVE  UNCHANGED <<table, stale>> /\ rows' \subseteq rows /\ compacted' = compacted \cap rows'
  BY <1>1, <1>5 DEF Forget, deleteBySession, delete
<1>6. ASSUME NEW cutoff, NEW includeSummaries, Prune(cutoff, includeSummaries)
      PROVE  UNCHANGED <<table, stale>> /\ rows' \subseteq rows /\ compacted' = compacted \cap rows'
  BY <1>1, <1>6 DEF Prune, delete
<1>q. QED
  BY <1>1, <1>2, <1>3, <1>4, <1>5, <1>6 DEF Quiet

LEMMA NextStays ==
    ASSUME TypeOK, [Next]_vars
    PROVE  RowsStay
<1>1. CASE Quiet
  BY <1>1, QuietStays DEF RowsStay, Ids
<1>2. ASSUME NEW s \in Sessions, NEW given \in BOOLEAN, NEW kind \in Kinds,
             NEW text \in Texts \cup {Nobody}, Captures(s, given, kind, text)
      PROVE  RowsStay
  BY <1>2, CaptureFacts, InsertStays
<1>3. ASSUME NEW batch \in SUBSET (rows \ compacted),
             NEW pruned \in SUBSET (compacted \cup batch), runChatCompaction(batch, pruned)
      PROVE  RowsStay
  <2>1. PICK row \in Row : row = CompactionOf(batch)
    BY <1>3, CompactionFacts
  <2>2. /\ Len(table) < MaxRows /\ table' = Append(table, row)
        /\ rows' \subseteq rows \cup {Len(table) + 1}
    BY <1>3, <2>1, CompactionFacts
  <2>q. QED
    BY <2>2, AppendFacts DEF RowsStay
<1>4. CASE ImportInserts
  BY <1>4, ImportInsertsFacts, InsertStays
<1>q. QED
  BY <1>1, <1>2, <1>3, <1>4, Steps

-----------------------------------------------------------------------------
(* RightSession *)

(* What is on its way into a summary is of its session, too: the message   *)
(* that was said last, the request that a hook took along, the summaries   *)
(* in the file.                                                            *)
Filed(row) == row.session \in {row.of, Unknown} \cup MadeUp

RightInv ==
    ~mixed =>
        /\ \A i \in Ids : Filed(table[i])
        /\ active.session \in {active.of, Nobody} \cup MadeUp
        /\ active.said \in {active.of, Nobody}
        /\ \A e \in Ends : \/ ends[e].request \in {ends[e].session, Nobody}
                           \/ ends[e].session \in MadeUp
        /\ \A s \in Sessions : summaries[s].request \in {s, Nobody}
        /\ \A s \in Sessions : file.summaries[s].request \in {s, Nobody}

LEMMA InitRight == Init => RightInv
<1> SUFFICES ASSUME Init PROVE RightInv
  OBVIOUS
<1>1. Ids = {}
  BY EmptySeq DEF Init, Ids
<1>q. QED
  BY <1>1 DEF Init, RightInv, NotOpen, NotEnding, NoSummary, NoFile, SessionIds

(* The event of a session, when none was mixed, belongs to it. *)
LEMMA NotMixed ==
    ASSUME TypeOK, NEW s \in Sessions, NEW given \in BOOLEAN, ~IsMixed(s)
    PROVE  /\ ~mixed /\ active.of \in {Nobody, s}
           /\ RightInv => \A others : \A id \in SessionOf(s, given, others) :
                             id = s \/ id \in MadeUp \/ id \in others
<1>1. ~mixed /\ active.of \in {Nobody, s}
  BY DEF TypeOK, IsMixed
<1>2. active # NotOpen => active.session # Nobody /\ active.of # Nobody
  BY DEF TypeOK
<1>3. RightInv /\ active # NotOpen => active.session \in {s} \cup MadeUp
  BY <1>1, <1>2 DEF RightInv
<1>q. QED
  BY <1>1, <1>3 DEF SessionOf

LEMMA NextRight ==
    ASSUME TypeOK, RightInv, [Next]_vars
    PROVE  RightInv'
<1> SUFFICES ASSUME ~mixed' PROVE RightInv'
  BY DEF RightInv
<1>1. CASE Quiet
  <2>1. Ids' = Ids /\ table' = table
    BY <1>1, QuietStays DEF Ids
  <2>2. ASSUME NEW s \in Sessions, NEW id \in {s} \cup FromClock, onSessionStart(s, id)
        PROVE  RightInv'
    <3>1. /\ active'.session = id /\ active'.of = s /\ active'.said = Nobody
          /\ UNCHANGED <<mixed, ends, summaries, file>>
      BY <2>2 DEF onSessionStart
    <3>2. id \in {s} \cup MadeUp
      BY <2>2 DEF FromClock
    <3>q. QED
      BY <2>1, <3>1, <3>2 DEF RightInv
  <2>3. ASSUME NEW s \in Sessions, onSessionEnd(s) PROVE RightInv'
    BY <2>1, <2>3 DEF onSessionEnd, RightInv, NotOpen, IsMixed
  <2>4. ASSUME NEW e \in Ends, NEW s \in Sessions, NEW given \in BOOLEAN, onAgentEnd(e, s, given)
        PROVE  RightInv'
    <3>1. ~IsMixed(s) /\ ~mixed
      BY <2>4 DEF onAgentEnd, IsMixed
    <3>2. PICK id \in SessionOf(s, given, {}) :
              ends' = [ends EXCEPT ![e] = [session |-> id, covers |-> getBySession(id),
                                          request |-> active.said]]
      BY <2>4 DEF onAgentEnd
    <3>3. (id = s \/ id \in MadeUp) /\ active.of \in {Nobody, s}
      BY <3>1, <3>2, NotMixed
    <3>4. active.said \in {s, Nobody}
      BY <3>1, <3>3 DEF RightInv
    <3>5. \A d \in Ends : ends'[d] = IF d = e THEN [session |-> id, covers |-> getBySession(id),
                                                    request |-> active.said]
                                     ELSE ends[d]
      BY <3>2 DEF TypeOK
    <3>6. \A d \in Ends : \/ ends'[d].request \in {ends'[d].session, Nobody}
                          \/ ends'[d].session \in MadeUp
      BY <3>1, <3>3, <3>4, <3>5 DEF RightInv
    <3>q. QED
      BY <2>1, <2>4, <3>1, <3>6 DEF onAgentEnd, RightInv
  <2>5. ASSUME NEW e \in Ends, Summarized(e) PROVE RightInv'
    <3>1. /\ \A d \in Ends : ends'[d] = IF d = e THEN NotEnding ELSE ends[d]
          /\ ~mixed
      BY <2>5, SummarizedFacts DEF TypeOK, Summarized
    <3>2. \A d \in Ends : \/ ends'[d].request \in {ends'[d].session, Nobody}
                          \/ ends'[d].session \in MadeUp
      BY <3>1 DEF RightInv, NotEnding
    <3>3. \A s \in Sessions : summaries'[s].request \in {s, Nobody}
      <4>1. CASE UNCHANGED summaries
        BY <3>1, <4>1 DEF RightInv
      <4>2. CASE upsert(ends[e].session, summarizeSession(e))
        <5>1. \A s \in SessionIds : summaries'[s] = IF s = ends[e].session THEN summarizeSession(e)
                                                    ELSE summaries[s]
          BY <4>2 DEF upsert, TypeOK
        <5>2. \A s \in Sessions : s \in SessionIds /\ s \notin MadeUp
          BY MemoryAssumption DEF SessionIds
        <5>q. QED
          BY <3>1, <5>1, <5>2 DEF RightInv, summarizeSession
      <4>q. QED
        BY <2>5, <4>1, <4>2, SummarizedFacts
    <3>q. QED
      BY <2>1, <2>5, <3>1, <3>2, <3>3 DEF Summarized, RightInv
  <2>6. ASSUME NEW s \in SessionIds, Forget(s) PROVE RightInv'
    BY <2>1, <2>6 DEF Forget, RightInv
  <2>7. ASSUME NEW cutoff, NEW includeSummaries, Prune(cutoff, includeSummaries) PROVE RightInv'
    BY <2>1, <2>7 DEF Prune, RightInv, NoSummary, SessionIds
  <2>8. CASE Export
    BY <2>1, <2>8 DEF Export, RightInv
  <2>9. CASE ImportSummaries
    <3>1. \A s \in Sessions : summaries'[s] \in {summaries[s], file.summaries[s]}
      BY <2>9 DEF ImportSummaries, SessionIds
    <3>q. QED
      BY <2>1, <2>9, <3>1 DEF ImportSummaries, RightInv
  <2>10. CASE BeginImport \/ ImportLooks \/ ImportEnds
    BY <2>1, <2>10 DEF BeginImport, ImportLooks, ImportEnds, RightInv
  <2>11. CASE Restart
    BY <2>1, <2>11 DEF Restart, RightInv, NotOpen, NotEnding
  <2>12. CASE ClockTicks \/ UNCHANGED vars
    BY <2>1, <2>12 DEF ClockTicks, vars, RightInv
  <2>q. QED
    BY <1>1, <2>2, <2>3, <2>4, <2>5, <2>6, <2>7, <2>8, <2>9, <2>10, <2>11, <2>12 DEF Quiet
<1>2. ASSUME NEW s \in Sessions, NEW given \in BOOLEAN, NEW kind \in Kinds,
             NEW text \in Texts \cup {Nobody}, Captures(s, given, kind, text)
      PROVE  RightInv'
  <2>1. PICK id \in SessionOf(s, given, FromClock \cup {Unknown}) :
            /\ NewRow(s, id, kind, text) \in Row
            /\ UNCHANGED table \/ insert(NewRow(s, id, kind, text))
    BY <1>2, CaptureFacts
  <2>2. /\ mixed' = IsMixed(s) /\ active' \in {active, Said(s, kind)}
        /\ UNCHANGED <<summaries, ends, file>>
    BY <1>2, CaptureFacts
  <2>3. ~IsMixed(s) /\ ~mixed /\ active.of \in {Nobody, s} /\ id \in {s, Unknown} \cup MadeUp
    BY <2>1, <2>2, NotMixed DEF FromClock
  <2>4. PICK row \in Row : row = NewRow(s, id, kind, text)
    BY <2>1
  <2>5. Filed(row)
    BY <2>3, <2>4 DEF NewRow, Filed
  <2>6. \A i \in Ids' : Filed(table'[i])
    <3>1. CASE UNCHANGED table
      BY <2>3, <3>1 DEF RightInv, Ids
    <3>2. CASE Len(table) < MaxRows /\ table' = Append(table, row)
      BY <2>3, <2>5, <3>2, AppendFacts DEF RightInv
    <3>q. QED
      BY <2>1, <2>4, <3>1, <3>2 DEF insert
  <2>7. /\ active'.said \in {active'.of, Nobody}
        /\ active'.session \in {active'.of, Nobody} \cup MadeUp
    <3>1. active.session # Nobody => active.of = s
      BY <2>3 DEF TypeOK, NotOpen
    <3>2. Said(s, kind) = active \/ (/\ active.session # Nobody
                                    /\ Said(s, kind) = [active EXCEPT !.said = s])
      BY DEF Said
    <3>3. active \in Open
      BY DEF TypeOK
    <3>q. QED
      BY <2>2, <2>3, <3>1, <3>2, <3>3 DEF RightInv, Open
  <2>q. QED
    BY <2>2, <2>3, <2>6, <2>7 DEF RightInv
<1>3. ASSUME NEW batch \in SUBSET (rows \ compacted),
             NEW pruned \in SUBSET (compacted \cup batch), runChatCompaction(batch, pruned)
      PROVE  RightInv'
  <2>1. \A i \in Ids' : Filed(table'[i])
    <3>1. Filed(CompactionOf(batch)) /\ ~mixed
      BY <1>3 DEF CompactionOf, runChatCompaction, Filed
    <3>q. QED
      BY <1>3, <3>1, CompactionFacts, AppendFacts DEF RightInv
  <2>q. QED
    BY <1>3, <2>1 DEF runChatCompaction, RightInv
<1>4. CASE ImportInserts
  <2>1. PICK i \in Ids : Len(table) < MaxRows /\ table' = Append(table, table[i])
    BY <1>4, ImportInsertsFacts DEF insert
  <2>2. UNCHANGED <<summaries, active, ends, file, mixed>>
    BY <1>4 DEF ImportInserts
  <2>3. \A j \in Ids' : Filed(table'[j])
    BY <2>1, <2>2, RowsAre, AppendFacts DEF RightInv
  <2>q. QED
    BY <2>2, <2>3 DEF RightInv
<1>q. QED
  BY <1>1, <1>2, <1>3, <1>4, Steps

-----------------------------------------------------------------------------
(* SummaryNeverGoesBack *)

(* All that some summary of session s, also one in the file, was made of. *)
Known(s) == covered[s] \cup summaries[s].covers \cup file.summaries[s].covers

HasRead(e) == Known(ends[e].session) \cap rows \subseteq ends[e].covers

(* A hook reads every row of its session, and so more than any summary was *)
(* made of so far; no other summary is made of the session while it awaits *)
(* its own.                                                                *)
SummaryInv ==
    /\ \A s \in SessionIds : \A i \in Known(s) : table[i].session = s
    /\ \A e \in Ends : ends[e] # NotEnding =>
          /\ \A i \in ends[e].covers : table[i].session = ends[e].session
          /\ ends[e].session \notin overlapped => HasRead(e)
    /\ \A d, e \in Ends :
          d # e /\ ends[d] # NotEnding /\ ends[e] # NotEnding /\ ends[d].session = ends[e].session
            => ends[e].session \in overlapped
    /\ SummaryNeverGoesBack

LEMMA KnownRows ==
    ASSUME TypeOK, NEW s \in SessionIds
    PROVE  /\ covered[s] \subseteq Ids /\ summaries[s].covers \subseteq Ids
           /\ file.summaries[s].covers \subseteq Ids
           /\ Known(s) \subseteq Ids
<1>1. summaries[s] \in {NoSummary} \cup Summary /\ file.summaries[s] \in {NoSummary} \cup Summary
  BY DEF TypeOK
<1>2. NoSummary.covers = {} /\ \A m \in Summary : m.covers \subseteq Ids
  BY DEF NoSummary, Summary
<1>3. covered[s] \subseteq Ids
  BY DEF TypeOK
<1>q. QED
  BY <1>1, <1>2, <1>3 DEF Known

LEMMA InitSummary == Init => SummaryInv
<1> SUFFICES ASSUME Init PROVE SummaryInv
  OBVIOUS
<1>1. \A s \in SessionIds : covered[s] = {} /\ summaries[s].covers = {} /\ file.summaries[s].covers = {}
  BY DEF Init, NoFile, NoSummary
<1>2. \A e \in Ends : ends[e] = NotEnding
  BY DEF Init
<1>q. QED
  BY <1>1, <1>2 DEF SummaryInv, Known, SummaryNeverGoesBack

(* A step that makes no summary of new rows, and begins no hook. *)
LEMMA SummaryFrame ==
    ASSUME TypeOK, SummaryInv, RowsStay,
           overlapped \subseteq overlapped',
           \A s \in SessionIds : Known(s)' \subseteq Known(s),
           \A e \in Ends : ends'[e] \in {ends[e], NotEnding},
           SummaryNeverGoesBack'
    PROVE  SummaryInv'
<1>1. \A s \in SessionIds : \A i \in Known(s)' : table'[i].session = s
  BY KnownRows DEF SummaryInv, RowsStay
<1>2. ASSUME NEW e \in Ends, ends'[e] # NotEnding
      PROVE  /\ \A i \in ends'[e].covers : table'[i].session = ends'[e].session
             /\ ends'[e].session \notin overlapped' => HasRead(e)'
  <2>1. ends'[e] = ends[e] /\ ends[e] # NotEnding
    BY <1>2
  <2>2. ends[e] \in Ending
    BY <2>1 DEF TypeOK
  <2>3. ends[e].covers \subseteq Ids /\ ends[e].session \in SessionIds
    BY <2>2 DEF Ending
  <2>4. \A i \in ends'[e].covers : table'[i].session = ends'[e].session
    BY <2>1, <2>3 DEF SummaryInv, RowsStay
  <2>5. ASSUME ends'[e].session \notin overlapped' PROVE HasRead(e)'
    <3>1. PICK s \in SessionIds : s = ends[e].session
      BY <2>3
    <3>2. Known(s)' \subseteq Known(s) /\ Known(s) \subseteq Ids
      BY KnownRows
    <3>3. Known(s) \cap rows \subseteq ends[e].covers
      BY <2>1, <2>5, <3>1 DEF SummaryInv, HasRead
    <3>4. Known(s)' \cap rows' \subseteq ends'[e].covers
      BY <2>1, <3>2, <3>3 DEF RowsStay
    <3>q. QED
      BY <2>1, <3>1, <3>4 DEF HasRead, Known
  <2>q. QED
    BY <2>4, <2>5
<1>3. ASSUME NEW d \in Ends, NEW e \in Ends, d # e, ends'[d] # NotEnding, ends'[e] # NotEnding,
             ends'[d].session = ends'[e].session
      PROVE  ends'[e].session \in overlapped'
  BY <1>3 DEF SummaryInv
<1>q. QED
  BY <1>1, <1>2, <1>3 DEF SummaryInv

LEMMA AgentEndSummary ==
    ASSUME TypeOK, SummaryInv, NEW e \in Ends, NEW s \in Sessions, NEW given \in BOOLEAN,
           onAgentEnd(e, s, given)
    PROVE  SummaryInv'
<1>1. PICK session \in SessionOf(s, given, {}) :
        /\ ends' = [ends EXCEPT ![e] = [session |-> session, covers |-> getBySession(session),
                                        request |-> active.said]]
        /\ overlapped' = IF \E d \in Ends : ends[d].session = session
                         THEN overlapped \cup {session} ELSE overlapped
  BY DEF onAgentEnd
<1>1a. session \in SessionIds
  BY <1>1, SessionOfFacts
<1>2. /\ ends[e] = NotEnding
      /\ ends' = [ends EXCEPT ![e] = [session |-> session, covers |-> getBySession(session),
                                      request |-> active.said]]
      /\ overlapped' = IF \E d \in Ends : ends[d].session = session
                       THEN overlapped \cup {session} ELSE overlapped
      /\ UNCHANGED <<table, rows, summaries, covered, file>>
  BY <1>1 DEF onAgentEnd
<1>3. /\ ends'[e].session = session /\ ends'[e].covers = getBySession(session)
      /\ \A d \in Ends \ {e} : ends'[d] = ends[d]
  BY <1>2 DEF TypeOK
<1>4. \A t \in SessionIds : Known(t)' = Known(t)
  BY <1>2 DEF Known
<1>5. \A d \in Ends : ends[d] # NotEnding => ends[d].session \in SessionIds
  BY DEF TypeOK, Ending
<1>6. \A t \in SessionIds : \A i \in Known(t)' : table'[i].session = t
  BY <1>2, <1>4 DEF SummaryInv
<1>7. ASSUME NEW d \in Ends, ends'[d] # NotEnding
      PROVE  /\ \A i \in ends'[d].covers : table'[i].session = ends'[d].session
             /\ ends'[d].session \notin overlapped' => HasRead(d)'
  <2>1. CASE d = e
    <3>1. \A i \in ends'[d].covers : table'[i].session = ends'[d].session
      BY <1>2, <1>3, <2>1 DEF getBySession
    <3>2. Known(session) \cap rows \subseteq getBySession(session)
      BY <1>1a DEF SummaryInv, getBySession
    <3>3. HasRead(d)'
      BY <1>1a, <1>2, <1>3, <1>4, <2>1, <3>2 DEF HasRead, Known
    <3>q. QED
      BY <3>1, <3>3
  <2>2. CASE d # e
    <3>1. ends'[d] = ends[d] /\ ends[d].session \in SessionIds
      BY <1>3, <1>5, <1>7, <2>2
    <3>2. ends'[d].session \notin overlapped' => HasRead(d)
      BY <1>2, <1>7, <3>1 DEF SummaryInv
    <3>3. HasRead(d) => HasRead(d)'
      BY <1>2, <1>4, <3>1 DEF HasRead, Known
    <3>q. QED
      BY <1>2, <1>7, <3>1, <3>2, <3>3 DEF SummaryInv
  <2>q. QED
    BY <2>1, <2>2
<1>8. ASSUME NEW d \in Ends, NEW f \in Ends, d # f, ends'[d] # NotEnding, ends'[f] # NotEnding,
             ends'[d].session = ends'[f].session
      PROVE  ends'[f].session \in overlapped'
  BY <1>2, <1>3, <1>8 DEF SummaryInv
<1>9. SummaryNeverGoesBack'
  BY <1>2 DEF SummaryInv, SummaryNeverGoesBack
<1>q. QED
  BY <1>6, <1>7, <1>8, <1>9 DEF SummaryInv

LEMMA SummarizedSummary ==
    ASSUME TypeOK, SummaryInv, NEW e \in Ends, Summarized(e)
    PROVE  SummaryInv'
<1>1. /\ ends[e] \in Ending /\ ends[e].session \in SessionIds /\ ends[e] # NotEnding
      /\ \A d \in Ends : ends'[d] = IF d = e THEN NotEnding ELSE ends[d]
      /\ UNCHANGED <<table, rows, overlapped, file>>
  BY SummarizedFacts DEF Summarized, TypeOK
<1>2. CASE UNCHANGED <<summaries, covered>>
  <2>1. \A s \in SessionIds : Known(s)' = Known(s)
    BY <1>1, <1>2 DEF Known
  <2>2. SummaryNeverGoesBack'
    BY <1>1, <1>2 DEF SummaryInv, SummaryNeverGoesBack
  <2>3. RowsStay
    BY <1>1 DEF RowsStay, Ids
  <2>q. QED
    BY <1>1, <2>1, <2>2, <2>3, SummaryFrame
<1>3. CASE upsert(ends[e].session, summarizeSession(e))
  <2>0. PICK session \in SessionIds, covers \in SUBSET Ids :
            session = ends[e].session /\ covers = ends[e].covers
    BY <1>1 DEF Ending
  <2>1. /\ \A s \in SessionIds : summaries'[s] = IF s = session THEN summarizeSession(e)
                                               ELSE summaries[s]
        /\ \A s \in SessionIds : covered'[s] = IF s = session THEN covered[s] \cup covers
                                             ELSE covered[s]
        /\ summarizeSession(e).covers = covers
    BY <1>3, <2>0 DEF upsert, TypeOK, summarizeSession
  <2>2. /\ \A s \in SessionIds : s # session => Known(s)' = Known(s)
        /\ Known(session)' \subseteq Known(session) \cup covers
    BY <1>1, <2>1 DEF Known
  <2>3. \A i \in covers : table[i].session = session
    BY <1>1, <2>0 DEF SummaryInv
  <2>4. \A s \in SessionIds : \A i \in Known(s)' : table'[i].session = s
    BY <1>1, <2>2, <2>3 DEF SummaryInv
  <2>5. ASSUME NEW d \in Ends, ends'[d] # NotEnding
        PROVE  /\ \A i \in ends'[d].covers : table'[i].session = ends'[d].session
               /\ ends'[d].session \notin overlapped' => HasRead(d)'
    <3>1. d # e /\ ends'[d] = ends[d] /\ ends[d].session \in SessionIds
      BY <1>1, <2>5 DEF TypeOK, Ending
    <3>2. ASSUME ends[d].session \notin overlapped PROVE HasRead(d)'
      <4>1. ends[d].session # session /\ HasRead(d)
        BY <1>1, <2>0, <2>5, <3>1, <3>2 DEF SummaryInv
      <4>2. PICK s \in SessionIds : s = ends[d].session
        BY <3>1
      <4>3. Known(s)' = Known(s)
        BY <2>2, <4>1, <4>2
      <4>q. QED
        BY <1>1, <3>1, <4>1, <4>2, <4>3 DEF HasRead, Known
    <3>q. QED
      BY <1>1, <2>5, <3>1, <3>2 DEF SummaryInv
  <2>6. SummaryNeverGoesBack'
    <3>1. SUFFICES ASSUME NEW s \in SessionIds, s \notin overlapped
                   PROVE  covered'[s] \cap rows \subseteq summaries'[s].covers
      BY <1>1 DEF SummaryNeverGoesBack
    <3>2. CASE s = session
      <4>1. HasRead(e)
        BY <1>1, <2>0, <3>1, <3>2 DEF SummaryInv
      <4>q. QED
        BY <2>0, <2>1, <3>2, <4>1 DEF HasRead, Known
    <3>3. CASE s # session
      BY <2>1, <3>1, <3>3 DEF SummaryInv, SummaryNeverGoesBack
    <3>q. QED
      BY <3>2, <3>3
  <2>7. ASSUME NEW d \in Ends, NEW f \in Ends, d # f, ends'[d] # NotEnding,
               ends'[f] # NotEnding, ends'[d].session = ends'[f].session
        PROVE  ends'[f].session \in overlapped'
    BY <1>1, <2>7 DEF SummaryInv
  <2>q. QED
    BY <2>4, <2>5, <2>6, <2>7 DEF SummaryInv
<1>q. QED
  BY <1>2, <1>3, SummarizedFacts

LEMMA NextSummary ==
    ASSUME TypeOK, SummaryInv, [Next]_vars
    PROVE  SummaryInv'
<1>1. RowsStay
  BY NextStays
<1>2. ASSUME UNCHANGED <<covered, summaries, file, overlapped>>,
             \A e \in Ends : ends'[e] \in {ends[e], NotEnding}
      PROVE  SummaryInv'
  <2>1. \A s \in SessionIds : Known(s)' = Known(s)
    BY <1>2 DEF Known
  <2>2. SummaryNeverGoesBack'
    BY <1>1, <1>2, KnownRows DEF SummaryInv, SummaryNeverGoesBack, RowsStay
  <2>q. QED
    BY <1>1, <1>2, <2>1, <2>2, SummaryFrame
<1>3. ASSUME Quiet PROVE SummaryInv'
  <2>1. ASSUME \/ \E s \in Sessions : onSessionEnd(s) \/ \E id \in {s} \cup FromClock : onSessionStart(s, id)
               \/ \E s \in SessionIds : Forget(s)
               \/ BeginImport \/ ImportLooks \/ ImportEnds
        PROVE  SummaryInv'
    BY <1>2, <2>1 DEF onSessionStart, onSessionEnd, Forget, BeginImport, ImportLooks, ImportEnds
  <2>2. ASSUME Restart \/ ClockTicks \/ UNCHANGED vars PROVE SummaryInv'
    BY <1>2, <2>2 DEF Restart, ClockTicks, vars
  <2>3. ASSUME NEW cutoff, NEW includeSummaries, Prune(cutoff, includeSummaries) PROVE SummaryInv'
    <3>1. UNCHANGED <<ends, overlapped, file>>
      BY <2>3 DEF Prune
    <3>2. \A s \in SessionIds : \/ summaries'[s] = NoSummary /\ covered'[s] = {}
                                \/ summaries'[s] = summaries[s] /\ covered'[s] = covered[s]
      BY <2>3 DEF Prune
    <3>3. \A s \in SessionIds : Known(s)' \subseteq Known(s)
      BY <3>1, <3>2 DEF Known, NoSummary
    <3>4. SummaryNeverGoesBack'
      BY <1>1, <3>1, <3>2, KnownRows DEF SummaryInv, SummaryNeverGoesBack, RowsStay
    <3>q. QED
      BY <1>1, <3>1, <3>3, <3>4, SummaryFrame
  <2>4. CASE Export
    <3>1. UNCHANGED <<ends, overlapped, summaries, covered, rows>> /\ file'.summaries = summaries
      BY <2>4 DEF Export
    <3>2. \A s \in SessionIds : Known(s)' \subseteq Known(s)
      BY <3>1 DEF Known
    <3>3. SummaryNeverGoesBack'
      BY <3>1 DEF SummaryInv, SummaryNeverGoesBack
    <3>q. QED
      BY <1>1, <3>1, <3>2, <3>3, SummaryFrame
  <2>5. CASE ImportSummaries
    <3>1. UNCHANGED <<ends, overlapped, file, rows>>
      BY <2>5 DEF ImportSummaries
    <3>2. \A s \in SessionIds :
            \/ /\ summaries[s] = NoSummary /\ summaries'[s] = file.summaries[s]
               /\ covered'[s] = covered[s] \cup file.summaries[s].covers
            \/ summaries'[s] = summaries[s] /\ covered'[s] = covered[s]
      BY <2>5 DEF ImportSummaries
    <3>3. \A s \in SessionIds : Known(s)' \subseteq Known(s)
      BY <3>1, <3>2 DEF Known
    <3>4. SummaryNeverGoesBack'
      BY <3>1, <3>2 DEF SummaryInv, SummaryNeverGoesBack, NoSummary
    <3>q. QED
      BY <1>1, <3>1, <3>3, <3>4, SummaryFrame
  <2>q. QED
    BY <1>3, <2>1, <2>2, <2>3, <2>4, <2>5, AgentEndSummary, SummarizedSummary DEF Quiet
<1>4. ASSUME NEW s \in Sessions, NEW given \in BOOLEAN, NEW kind \in Kinds,
             NEW text \in Texts \cup {Nobody}, Captures(s, given, kind, text)
      PROVE  SummaryInv'
  BY <1>2, <1>4, CaptureFacts
<1>5. ASSUME NEW batch \in SUBSET (rows \ compacted),
             NEW pruned \in SUBSET (compacted \cup batch), runChatCompaction(batch, pruned)
      PROVE  SummaryInv'
  BY <1>2, <1>5 DEF runChatCompaction
<1>6. CASE ImportInserts
  BY <1>2, <1>6 DEF ImportInserts
<1>q. QED
  BY <1>3, <1>4, <1>5, <1>6, Steps

-----------------------------------------------------------------------------
(* No row says what another one says *)

NoRepeat == \A i, j \in rows : i # j => ~Repeats(i, j)

(* A message that a compaction is made of is hidden as long as it is there. *)
CoverInv ==
    \A j \in Ids : table[j].covers \subseteq Ids /\ table[j].covers \cap rows \subseteq compacted

LEMMA InitRows == Init => NoRepeat /\ CoverInv
<1> SUFFICES ASSUME Init PROVE NoRepeat /\ CoverInv
  OBVIOUS
<1>1. Ids = {} /\ rows = {}
  BY EmptySeq DEF Init, Ids
<1>q. QED
  BY <1>1 DEF NoRepeat, CoverInv

(* Nothing is said anew by deleting rows. *)
LEMMA FewerRows ==
    ASSUME TypeOK, NoRepeat, CoverInv, UNCHANGED table, rows' \subseteq rows,
           compacted \cap rows' \subseteq compacted', stale \subseteq stale'
    PROVE  NoRepeat' /\ CoverInv'
<1>1. NoRepeat'
  BY DEF NoRepeat, Repeats, SameHash
<1>2. CoverInv'
  BY DEF CoverInv, Ids
<1>q. QED
  BY <1>1, <1>2

(* A new row must neither say what a row that stays says ... *)
LEMMA NewRowRepeats ==
    ASSUME TypeOK, NoRepeat, NEW row \in Row, Len(table) < MaxRows,
           table' = Append(table, row), rows' \subseteq rows \cup {Len(table) + 1},
           stale \subseteq stale',
           Len(table) + 1 \notin stale' /\ row.kind # "compaction" =>
               \A i \in rows : SameHash(i, row.session, row.kind, row.text) =>
                   /\ row.epoch \notin table[i].epoch..(table[i].epoch + Window - 1)
                   /\ table[i].epoch \notin row.epoch..(row.epoch + Window - 1)
    PROVE  NoRepeat'
<1> DEFINE new == Len(table) + 1
<1>1. /\ \A i \in rows : table'[i] = table[i]
      /\ new \notin rows /\ table'[new] = row
  BY AppendFacts DEF TypeOK
<1> HIDE DEF new
<1>2. SUFFICES ASSUME NEW i \in rows', NEW j \in rows', i # j, Repeats(i, j)'
               PROVE  FALSE
  BY DEF NoRepeat
<1>3. /\ table'[i].kind # "compaction"
      /\ table'[j].session = table'[i].session /\ table'[j].kind = table'[i].kind
      /\ table'[j].text = table'[i].text
      /\ table'[j].epoch \in table'[i].epoch..(table'[i].epoch + Window - 1)
      /\ i \notin stale' /\ j \notin stale'
  BY <1>2 DEF Repeats, SameHash
<1>4. i \in rows \cup {new} /\ j \in rows \cup {new}
  BY DEF new
<1>5. CASE i \in rows /\ j \in rows
  <2>1. Repeats(i, j)
    BY <1>1, <1>3, <1>5 DEF Repeats, SameHash
  <2>q. QED
    BY <1>2, <1>5, <2>1 DEF NoRepeat
<1>6. CASE i \in rows /\ j = new
  <2>1. SameHash(i, row.session, row.kind, row.text) /\ row.kind # "compaction" /\ new \notin stale'
    BY <1>1, <1>3, <1>6 DEF SameHash
  <2>q. QED
    BY <1>1, <1>3, <1>6, <2>1 DEF new
<1>7. CASE i = new /\ j \in rows
  <2>1. SameHash(j, row.session, row.kind, row.text) /\ row.kind # "compaction" /\ new \notin stale'
    BY <1>1, <1>3, <1>7 DEF SameHash
  <2>q. QED
    BY <1>1, <1>3, <1>7, <2>1 DEF new
<1>q. QED
  BY <1>2, <1>4, <1>5, <1>6, <1>7

(* ... nor be made of a row that is not hidden. *)
LEMMA NewRowCovers ==
    ASSUME TypeOK, CoverInv, NEW row \in Row, Len(table) < MaxRows,
           table' = Append(table, row), rows' \subseteq rows \cup {Len(table) + 1},
           compacted \cap rows' \subseteq compacted',
           row.covers \subseteq Ids, row.covers \cap rows' \subseteq compacted'
    PROVE  CoverInv'
<1>1. /\ Ids' = Ids \cup {Len(table) + 1} /\ Len(table) + 1 \notin Ids
      /\ \A i \in Ids : table'[i] = table[i]
      /\ table'[Len(table) + 1] = row
  BY AppendFacts
<1>q. QED
  BY <1>1 DEF CoverInv

LEMMA NextRows ==
    ASSUME TypeOK, NoRepeat, CoverInv, [Next]_vars
    PROVE  NoRepeat' /\ CoverInv'
<1>1. CASE Quiet
  BY <1>1, QuietStays, FewerRows
<1>2. ASSUME NEW s \in Sessions, NEW given \in BOOLEAN, NEW kind \in Kinds,
             NEW text \in Texts \cup {Nobody}, Captures(s, given, kind, text)
      PROVE  NoRepeat' /\ CoverInv'
  <2>1. PICK id : /\ NewRow(s, id, kind, text) \in Row
                  /\ \/ UNCHANGED <<table, rows>>
                     \/ insert(NewRow(s, id, kind, text)) /\ ~isDuplicate(id, kind, text)
    BY <1>2, CaptureFacts
  <2>1a. PICK row \in Row : row = NewRow(s, id, kind, text)
    BY <2>1
  <2>2. CASE UNCHANGED <<table, rows>>
    BY <1>2, <2>2, CaptureFacts, FewerRows
  <2>3. CASE insert(row) /\ ~isDuplicate(id, kind, text)
    <3>1. /\ Len(table) < MaxRows /\ table' = Append(table, row)
          /\ rows' \subseteq rows \cup {Len(table) + 1}
          /\ compacted' = compacted /\ stale' = stale
      BY <1>2, <2>3, CaptureFacts DEF insert
    <3>2. row.epoch = now /\ row.covers = {} /\ now \in Nat /\ Window \in Nat
      BY <2>1a, MemoryAssumption DEF NewRow, TypeOK
    <3>3. ASSUME NEW i \in rows, SameHash(i, row.session, row.kind, row.text)
          PROVE  /\ row.epoch \notin table[i].epoch..(table[i].epoch + Window - 1)
                 /\ table[i].epoch \notin row.epoch..(row.epoch + Window - 1)
      <4>1. SameHash(i, id, kind, text)
        BY <2>1a, <3>3 DEF NewRow
      <4>2. ~(table[i].epoch > now - Window)
        BY <2>3, <4>1 DEF isDuplicate
      <4>3. table[i].epoch \in Nat
        BY RowsAre DEF Row, TypeOK
      <4>q. QED
        BY <3>2, <4>2, <4>3
    <3>4. NoRepeat'
      BY <3>1, <3>3, NewRowRepeats
    <3>5. CoverInv'
      BY <3>1, <3>2, NewRowCovers
    <3>q. QED
      BY <3>4, <3>5
  <2>q. QED
    BY <2>1, <2>1a, <2>2, <2>3
<1>3. ASSUME NEW batch \in SUBSET (rows \ compacted),
             NEW pruned \in SUBSET (compacted \cup batch), runChatCompaction(batch, pruned)
      PROVE  NoRepeat' /\ CoverInv'
  <2>1. PICK row \in Row : row = CompactionOf(batch)
    BY <1>3, CompactionFacts
  <2>2. /\ Len(table) < MaxRows /\ table' = Append(table, row)
        /\ rows' = (rows \cup {Len(table) + 1}) \ pruned
        /\ compacted' = (compacted \cup batch) \ pruned
        /\ stale' = stale
    BY <1>3, <2>1, CompactionFacts DEF runChatCompaction
  <2>3. row.kind = "compaction" /\ row.covers = batch
    BY <2>1 DEF CompactionOf
  <2>4. NoRepeat'
    BY <2>2, <2>3, NewRowRepeats
  <2>5. batch \subseteq Ids
    BY DEF TypeOK
  <2>6. CoverInv'
    BY <2>2, <2>3, <2>5, NewRowCovers
  <2>q. QED
    BY <2>4, <2>6
<1>4. CASE ImportInserts
  <2>1. PICK row \in Row : row = table[looked]
    BY <1>4, ImportInsertsFacts
  <2>2. /\ Len(table) < MaxRows /\ table' = Append(table, row)
        /\ rows' = rows \cup {Len(table) + 1}
        /\ compacted' = compacted /\ stale \subseteq stale'
        /\ Len(table) + 1 \notin stale' /\ row.kind # "compaction" =>
               \A j \in rows : ~SameHash(j, row.session, row.kind, row.text)
    BY <1>4, <2>1, ImportInsertsFacts DEF insert, ImportInserts
  <2>3. NoRepeat'
    BY <2>2, NewRowRepeats
  <2>4. row.covers \subseteq Ids /\ row.covers \cap rows' \subseteq compacted'
    <3>1. row.covers \subseteq Ids /\ row.covers \cap rows \subseteq compacted
      BY <1>4, <2>1, ImportInsertsFacts DEF CoverInv
    <3>2. Len(table) + 1 \notin Ids
      BY <2>2, AppendFacts
    <3>q. QED
      BY <2>2, <3>1, <3>2
  <2>5. CoverInv'
    BY <2>2, <2>4, NewRowCovers
  <2>q. QED
    BY <2>3, <2>5
<1>q. QED
  BY <1>1, <1>2, <1>3, <1>4, Steps

-----------------------------------------------------------------------------
(* Rows in order *)

(* "Newer" is a strict order of all rows. *)
LEMMA NewerOrders ==
    ASSUME TypeOK
    PROVE  /\ \A i \in Ids : ~Newer(i, i)
           /\ \A i, j \in Ids : i # j => Newer(i, j) \/ Newer(j, i)
           /\ \A i, j, k \in Ids : Newer(i, j) /\ Newer(j, k) => Newer(i, k)
<1>1. \A i \in Ids : i \in Nat /\ table[i].epoch \in Nat
  BY RowsAre DEF Row
<1>q. QED
  BY <1>1 DEF Newer

LEMMA RankOrders ==
    ASSUME TypeOK, NEW S \in SUBSET Ids
    PROVE  /\ IsFiniteSet(S) /\ Cardinality(S) \in Nat
           /\ \A i \in S : Rank(S, i) \in 0..(Cardinality(S) - 1)
           /\ \A i, j \in S : i # j => Rank(S, i) # Rank(S, j)
<1>1. IsFiniteSet(S) /\ Cardinality(S) \in Nat
  BY RowsAre, FS_Subset, FS_CardinalityType
<1>2. ASSUME NEW i \in S PROVE Rank(S, i) \in 0..(Cardinality(S) - 1)
  <2> DEFINE A == {j \in S : Newer(j, i)}
  <2>1. A \subseteq S /\ A # S
    BY NewerOrders
  <2> HIDE DEF A
  <2>2. IsFiniteSet(A) /\ Cardinality(A) \in Nat /\ Cardinality(A) <= Cardinality(S)
        /\ Cardinality(A) # Cardinality(S)
    BY <1>1, <2>1, FS_Subset, FS_CardinalityType
  <2>3. Rank(S, i) = Cardinality(A)
    BY DEF Rank, A
  <2>q. QED
    BY <1>1, <2>2, <2>3
<1>3. ASSUME NEW i \in S, NEW j \in S, Newer(i, j) PROVE Rank(S, i) # Rank(S, j)
  <2> DEFINE A == {k \in S : Newer(k, i)}
             B == {k \in S : Newer(k, j)}
  <2>1. A \subseteq B
    BY <1>3, NewerOrders
  <2>2. i \in B /\ i \notin A /\ B \subseteq S
    BY <1>3, NewerOrders
  <2> HIDE DEF A, B
  <2>3. Cardinality(A) # Cardinality(B)
    BY <1>1, <2>1, <2>2, FS_Subset
  <2>4. Rank(S, i) = Cardinality(A) /\ Rank(S, j) = Cardinality(B)
    BY DEF Rank, A, B
  <2>q. QED
    BY <2>3, <2>4
<1>4. ASSUME NEW i \in S, NEW j \in S, i # j PROVE Rank(S, i) # Rank(S, j)
  <2>1. Newer(i, j) \/ Newer(j, i)
    BY <1>4, NewerOrders
  <2>q. QED
    BY <1>3, <2>1
<1>q. QED
  BY <1>1, <1>2, <1>4

(* There are no more of the newest rows than the limit says. *)
LEMMA NewestBounded ==
    ASSUME TypeOK, NEW S \in SUBSET Ids, NEW limit \in Nat
    PROVE  /\ Newest(S, limit) \subseteq S
           /\ Cardinality(Newest(S, limit)) \in Nat
           /\ Cardinality(Newest(S, limit)) <= limit
<1> DEFINE T == Newest(S, limit)
           f == [i \in T |-> Rank(S, i)]
<1>1. T \subseteq S /\ \A i \in T : Rank(S, i) < limit
  BY DEF Newest
<1> HIDE DEF T
<1>2. f \in [T -> 0..(limit - 1)]
  BY <1>1, RankOrders
<1>3. \A i, j \in T : f[i] = f[j] => i = j
  BY <1>1, RankOrders
<1>4. f \in Injection(T, 0..(limit - 1))
  <2>1. DOMAIN f = T
    OBVIOUS
  <2> HIDE DEF f
  <2>q. QED
    BY <1>2, <1>3, <2>1 DEF Injection, IsInjective
<1>5. IsFiniteSet(0..(limit - 1)) /\ Cardinality(0..(limit - 1)) = limit
  BY FS_Interval
<1> HIDE DEF f
<1>6. IsFiniteSet(T) /\ Cardinality(T) <= limit
  BY <1>4, <1>5, FS_Injection
<1>q. QED
  BY <1>1, <1>6, FS_CardinalityType DEF T

(* q is a sequence of rows of S, none of them twice. *)
Listing(q, S) ==
    /\ q \in Seq(S)
    /\ \A k, l \in 1..Len(q) : k # l => q[k] # q[l]

LEMMA InOrderLists ==
    ASSUME TypeOK, NEW S \in SUBSET Ids
    PROVE  Listing(InOrder(S), S) /\ Len(InOrder(S)) = Cardinality(S)
<1> DEFINE n == Cardinality(S)
           f == [i \in S |-> Rank(S, i)]
           q == InOrder(S)
<1>1. IsFiniteSet(S) /\ n \in Nat
  BY RankOrders
<1>2. f \in Surjection(S, 0..(n - 1))
  <2> HIDE DEF n
  <2>1. f \in [S -> 0..(n - 1)]
    BY RankOrders DEF n
  <2>2. \A i, j \in S : f[i] = f[j] => i = j
    BY RankOrders
  <2>3. f \in Injection(S, 0..(n - 1))
    <3>1. DOMAIN f = S
      OBVIOUS
    <3> HIDE DEF f
    <3>q. QED
      BY <2>1, <2>2, <3>1 DEF Injection, IsInjective
  <2>4. IsFiniteSet(0..(n - 1)) /\ Cardinality(0..(n - 1)) = n
    BY <1>1, FS_Interval
  <2> HIDE DEF f
  <2>q. QED
    BY <2>3, <2>4, FS_Injection DEF n
<1>3. \A k \in 1..n : \E i \in S : Rank(S, i) = k - 1
  <2>1. \A k \in 0..(n - 1) : \E i \in S : f[i] = k
    BY <1>2 DEF Surjection
  <2> HIDE DEF n
  <2>q. QED
    BY <1>1, <2>1
<1>4. \A k \in 1..n : q[k] \in S /\ Rank(S, q[k]) = k - 1
  BY <1>3 DEF InOrder
<1>5. q \in Seq(S) /\ Len(q) = n
  <2>1. q \in [1..n -> S]
    BY <1>4 DEF InOrder
  <2> HIDE DEF q, n
  <2>2. q \in Seq(S)
    BY <1>1, <2>1, SeqDef
  <2>3. DOMAIN q = 1..n /\ DOMAIN q = 1..Len(q) /\ Len(q) \in Nat
    BY <2>1, <2>2, LenProperties
  <2>q. QED
    BY <1>1, <2>2, <2>3
<1>6. ASSUME NEW k \in 1..n, NEW l \in 1..n, k # l PROVE q[k] # q[l]
  <2> HIDE DEF q, n
  <2>1. k - 1 # l - 1
    BY <1>1, <1>6
  <2>q. QED
    BY <1>4, <2>1
<1>q. QED
  BY <1>5, <1>6 DEF Listing

-----------------------------------------------------------------------------
(* ContextIsSound *)

(* What is recalled lists raw rows, as many as the limit lets. *)
LEMMA RecallLists ==
    ASSUME TypeOK, NEW hits \in SearchResults
    PROVE  LET recalled == recallObservations(hits, getRecent(MaxObservations))
           IN  /\ Listing(recalled, rows \ compacted)
               /\ Len(recalled) <= MostRecalled
<1> DEFINE raw == rows \ compacted
           recent == getRecent(MaxObservations)
           rest == recent \ Range(hits)
<1>1. /\ MaxObservations \in Nat /\ SearchLimit \in Nat /\ raw \subseteq Ids
  BY MemoryAssumption DEF TypeOK, Larger
<1>2. PICK k \in 0..SearchLimit : hits \in [1..k -> raw] /\ IsInjective(hits)
  BY DEF SearchResults
<1>3. hits \in Seq(raw) /\ Len(hits) = k
  <2> HIDE DEF raw
  <2>1. hits \in Seq(raw)
    BY <1>1, <1>2, SeqDef
  <2>2. DOMAIN hits = 1..k /\ DOMAIN hits = 1..Len(hits) /\ Len(hits) \in Nat
    BY <1>2, <2>1, LenProperties
  <2>q. QED
    BY <1>1, <1>2, <2>1, <2>2
<1>4. \A a, b \in 1..k : hits[a] = hits[b] => a = b
  BY <1>2 DEF IsInjective
<1>5. \A a \in 1..k : hits[a] \notin rest
  BY <1>2 DEF Range
<1>6. rest \subseteq raw /\ rest \subseteq Ids
  BY <1>1, NewestBounded DEF getRecent
<1> DEFINE limit == Larger(1, MaxObservations - k)
           some == Newest(rest, limit)
<1> HIDE DEF raw, recent, rest
<1>7. limit \in Nat /\ limit = (IF 1 < MaxObservations - k THEN MaxObservations - k ELSE 1)
  BY <1>1, <1>2 DEF Larger
<1> HIDE DEF limit
<1>8. some \subseteq rest /\ some \subseteq Ids /\ Cardinality(some) \in Nat /\ Cardinality(some) <= limit
  BY <1>6, <1>7, NewestBounded
<1> HIDE DEF some
<1>9. Listing(InOrder(some), some) /\ Len(InOrder(some)) = Cardinality(some)
  BY <1>8, InOrderLists
<1>10. InOrder(some) \in Seq(raw)
  <2>1. some \subseteq raw
    BY <1>6, <1>8
  <2>2. InOrder(some) \in Seq(some)
    BY <1>9 DEF Listing
  <2>q. QED
    BY <2>1, <2>2, LenProperties, ElementOfSeq, SeqDef
<1> DEFINE p == InOrder(some)
           q == hits \o p
           n == Len(p)
<1>11. n \in Nat /\ n = Cardinality(some) /\ \A l \in 1..n : p[l] \in rest
  BY <1>8, <1>9, ElementOfSeq DEF Listing
<1>12. /\ q \in Seq(raw) /\ Len(q) = k + n
       /\ \A i \in 1..(k + n) : q[i] = IF i <= k THEN hits[i] ELSE p[i - k]
  BY <1>3, <1>10, ConcatProperties
<1>13. \A a, b \in 1..n : a # b => p[a] # p[b]
  BY <1>9 DEF Listing
<1> HIDE DEF p, q, n
<1>14. ASSUME NEW a \in 1..(k + n), NEW b \in 1..(k + n), a # b PROVE q[a] # q[b]
  <2>1. k \in Nat
    BY <1>1, <1>2
  <2>2. CASE a <= k /\ b <= k
    <3>1. a \in 1..k /\ b \in 1..k
      BY <1>11, <2>1, <2>2
    <3>q. QED
      BY <1>4, <1>12, <1>14, <2>2, <3>1
  <2>3. CASE a <= k /\ ~(b <= k)
    <3>1. a \in 1..k /\ b - k \in 1..n
      BY <1>11, <2>1, <2>3
    <3>q. QED
      BY <1>5, <1>11, <1>12, <2>3, <3>1
  <2>4. CASE ~(a <= k) /\ b <= k
    <3>1. b \in 1..k /\ a - k \in 1..n
      BY <1>11, <2>1, <2>4
    <3>q. QED
      BY <1>5, <1>11, <1>12, <2>4, <3>1
  <2>5. CASE ~(a <= k) /\ ~(b <= k)
    <3>1. a - k \in 1..n /\ b - k \in 1..n /\ a - k # b - k
      BY <1>11, <1>14, <2>1, <2>5
    <3>q. QED
      BY <1>12, <1>13, <2>5, <3>1
  <2>q. QED
    BY <2>2, <2>3, <2>4, <2>5
<1>15. Len(q) <= MostRecalled
  <2>1. k + n <= (IF 1 < MaxObservations - k THEN MaxObservations ELSE SearchLimit + 1)
    BY <1>1, <1>2, <1>7, <1>8, <1>11
  <2>2. MostRecalled = (IF MaxObservations < SearchLimit + 1 THEN SearchLimit + 1
                        ELSE MaxObservations)
    BY DEF MostRecalled, Larger
  <2>q. QED
    BY <1>1, <1>2, <1>11, <1>12, <2>1, <2>2
<1>16. recallObservations(hits, recent) = q
  BY <1>3 DEF recallObservations, q, p, some, limit, rest
<1>q. QED
  BY <1>12, <1>14, <1>15, <1>16 DEF Listing, raw, recent

(* What is packed is a prefix of it, and fits the budget. *)
LEMMA PackedPrefix ==
    ASSUME NEW S, NEW q, Listing(q, S), NEW count \in Nat, NEW budget \in Nat
    PROVE  LET packed == Packed(q, count, budget)
           IN  /\ Listing(packed.observations, S)
               /\ Len(packed.observations) <= Len(q)
               /\ packed.summaries + Len(packed.observations) <= budget
<1> DEFINE c == Smaller(count, budget)
           m == Smaller(Len(q), budget - c)
           o == SubSeq(q, 1, m)
<1>1. q \in Seq(S) /\ Len(q) \in Nat /\ \A k \in 1..Len(q) : q[k] \in S
  BY ElementOfSeq, LenProperties DEF Listing
<1>2. c \in Nat /\ m \in Nat /\ m <= Len(q) /\ c + m <= budget
  <2>1. c \in Nat /\ c <= budget
    BY DEF Smaller
  <2> HIDE DEF c
  <2>2. m = IF Len(q) < budget - c THEN Len(q) ELSE budget - c
    BY DEF Smaller
  <2> HIDE DEF m
  <2>3. \A l, b, d \in Nat : d <= b =>
            \A x : x = (IF l < b - d THEN l ELSE b - d) => x \in Nat /\ x <= l /\ d + x <= b
    OBVIOUS
  <2>q. QED
    BY <1>1, <2>1, <2>2, <2>3
<1> HIDE DEF c, m
<1>3. \A k \in 1..m : k \in 1..Len(q)
  BY <1>1, <1>2
<1>4. /\ o \in Seq(S) /\ Len(o) = m
      /\ \A k \in 1..m : o[k] = q[k]
  <2>1. \A k \in 1..m : q[k] \in S
    BY <1>1, <1>3
  <2>2. o \in Seq(S) /\ Len(o) = (IF 1 <= m THEN m - 1 + 1 ELSE 0)
        /\ \A k \in 1..(m - 1 + 1) : o[k] = q[1 + k - 1]
    BY <1>2, <2>1, SubSeqProperties
  <2>3. (IF 1 <= m THEN m - 1 + 1 ELSE 0) = m /\ m - 1 + 1 = m
    BY <1>2
  <2>4. \A k \in 1..m : 1 + k - 1 = k
    BY <1>2
  <2>q. QED
    BY <2>2, <2>3, <2>4
<1>5. Listing(o, S)
  BY <1>3, <1>4 DEF Listing
<1>6. Packed(q, count, budget) = [summaries |-> c, observations |-> o]
  BY DEF Packed, c, m
<1> HIDE DEF o
<1>q. QED
  BY <1>1, <1>2, <1>4, <1>5, <1>6

LEMMA SummariesCounted ==
    ASSUME NEW limit \in Nat
    PROVE  getRecentSummaries(limit) \in Nat
<1>1. IsFiniteSet(SessionIds)
  BY MemoryAssumption, FS_Union DEF SessionIds
<1>2. Cardinality({s \in SessionIds : summaries[s] # NoSummary}) \in Nat
  BY <1>1, FS_Subset, FS_CardinalityType
<1>q. QED
  BY <1>2 DEF getRecentSummaries, Smaller

(* Raw rows that are listed say nothing twice; nor do other rows, but for  *)
(* those that a compaction covers.                                         *)
LEMMA ListedApart ==
    ASSUME TypeOK, NoRepeat, CoverInv, NEW q
    PROVE  /\ Listing(q, rows \ compacted) => Apart(SaysAgain, q)
           /\ Listing(q, rows) => Apart(Repeats, q)
<1>1. ASSUME NEW S \in SUBSET rows, Listing(q, S), NEW l \in DOMAIN q, NEW k \in 1..(l - 1)
      PROVE  /\ q[k] \in S /\ q[l] \in S /\ q[k] # q[l]
             /\ ~Repeats(q[k], q[l]) /\ ~Repeats(q[l], q[k])
  <2>1. q \in Seq(S) /\ Len(q) \in Nat /\ DOMAIN q = 1..Len(q)
    BY <1>1, LenProperties DEF Listing
  <2>2. l \in 1..Len(q) /\ k \in 1..Len(q) /\ k # l
    BY <2>1
  <2>3. q[k] \in S /\ q[l] \in S /\ q[k] # q[l]
    BY <1>1, <2>1, <2>2, ElementOfSeq DEF Listing
  <2>q. QED
    BY <2>3 DEF NoRepeat
<1>2. ASSUME Listing(q, rows \ compacted) PROVE Apart(SaysAgain, q)
  <2>1. ASSUME NEW l \in DOMAIN q, NEW k \in 1..(l - 1)
        PROVE  ~SaysAgain(q[k], q[l]) /\ ~SaysAgain(q[l], q[k])
    <3>1. /\ q[k] \in rows \ compacted /\ q[l] \in rows \ compacted
          /\ ~Repeats(q[k], q[l]) /\ ~Repeats(q[l], q[k])
      BY <1>1, <1>2
    <3>2. q[k] \in Ids /\ q[l] \in Ids
      BY <3>1 DEF TypeOK
    <3>q. QED
      BY <3>1, <3>2 DEF CoverInv, SaysAgain
  <2>q. QED
    BY <2>1 DEF Apart
<1>3. ASSUME Listing(q, rows) PROVE Apart(Repeats, q)
  BY <1>1, <1>3 DEF Apart
<1>q. QED
  BY <1>2, <1>3

(* What a context or a snapshot shows: rows none of which repeats another. *)
LEMMA ContextsList ==
    ASSUME TypeOK
    PROVE  /\ \A context \in Injected :
                 /\ Listing(context.observations, rows \ compacted)
                 /\ Fits(context, MostRecalled, TokenBudget)
           /\ Listing(Peeked.observations, rows \ compacted)
           /\ Fits(Peeked, MaxObservations, TokenBudget)
<1> DEFINE recent == getRecent(MaxObservations)
           count == getRecentSummaries(MaxSummaries)
           raw == rows \ compacted
<1>1. /\ count \in Nat /\ TokenBudget \in Nat /\ MaxObservations \in Nat
      /\ MostRecalled \in Nat
  BY MemoryAssumption, SummariesCounted DEF MostRecalled, Larger
<1>2. ASSUME NEW q, NEW limit \in Nat, Listing(q, raw), Len(q) <= limit, NEW context,
             context = Packed(q, count, TokenBudget)
      PROVE  Listing(context.observations, raw) /\ Fits(context, limit, TokenBudget)
  <2> HIDE DEF count, raw
  <2>1. /\ Listing(context.observations, raw)
        /\ Len(context.observations) <= Len(q)
        /\ context.summaries + Len(context.observations) <= TokenBudget
    BY <1>1, <1>2, PackedPrefix
  <2>2. Len(context.observations) \in Nat /\ Len(q) \in Nat
    BY <1>2, <2>1, LenProperties DEF Listing
  <2>q. QED
    BY <1>1, <1>2, <2>1, <2>2 DEF Fits
<1>3. ASSUME NEW hits \in SearchResults, NEW context, context = onBeforePromptBuild(hits, recent)
      PROVE  Listing(context.observations, raw) /\ Fits(context, MostRecalled, TokenBudget)
  BY <1>1, <1>2, <1>3, RecallLists DEF onBeforePromptBuild, buildContext
<1>4. Listing(Peeked.observations, raw) /\ Fits(Peeked, MaxObservations, TokenBudget)
  <2>1. raw \subseteq Ids
    BY DEF TypeOK
  <2>2. /\ recent \subseteq raw /\ recent \subseteq Ids
        /\ Cardinality(recent) <= MaxObservations
    BY <1>1, <2>1, NewestBounded DEF getRecent
  <2>3. Peeked = Packed(InOrder(recent), count, TokenBudget)
    BY DEF Peeked, Peek, buildContext
  <2> HIDE DEF recent, raw, count
  <2>4. Listing(InOrder(recent), recent) /\ Len(InOrder(recent)) <= MaxObservations
    BY <2>2, InOrderLists
  <2>5. Listing(InOrder(recent), raw)
    <3>1. InOrder(recent) \in Seq(raw)
      BY <2>2, <2>4, LenProperties, ElementOfSeq, SeqDef DEF Listing
    <3>q. QED
      BY <2>4, <3>1 DEF Listing
  <2>q. QED
    BY <1>1, <1>2, <2>3, <2>4, <2>5
<1>q. QED
  BY <1>3, <1>4 DEF Injected

LEMMA SnapshotLists ==
    ASSUME TypeOK
    PROVE  /\ Listing(captureSemanticSnapshot.observations, rows)
           /\ Fits(captureSemanticSnapshot, SnapshotObservations, SnapshotBudget)
<1> DEFINE taken == Newest(rows, SnapshotObservations)
           count == getRecentSummaries(SnapshotSummaries)
           shown == captureSemanticSnapshot
<1>1. /\ count \in Nat /\ SnapshotBudget \in Nat /\ SnapshotObservations \in Nat
      /\ rows \subseteq Ids
  BY MemoryAssumption, SummariesCounted DEF TypeOK
<1>2. /\ taken \subseteq rows /\ taken \subseteq Ids
      /\ Cardinality(taken) <= SnapshotObservations /\ Cardinality(taken) \in Nat
  BY <1>1, NewestBounded
<1>3. shown = Packed(InOrder(taken), count, SnapshotBudget)
  BY DEF captureSemanticSnapshot, queryObservations
<1> HIDE DEF taken, count, shown
<1>4. Listing(InOrder(taken), taken) /\ Len(InOrder(taken)) = Cardinality(taken)
  BY <1>2, InOrderLists
<1>5. Listing(InOrder(taken), rows)
  <2>1. InOrder(taken) \in Seq(rows)
    BY <1>2, <1>4, LenProperties, ElementOfSeq, SeqDef DEF Listing
  <2>q. QED
    BY <1>4, <2>1 DEF Listing
<1>6. /\ Listing(shown.observations, rows)
      /\ Len(shown.observations) <= Len(InOrder(taken))
      /\ shown.summaries + Len(shown.observations) <= SnapshotBudget
  BY <1>1, <1>3, <1>5, PackedPrefix
<1>7. Len(shown.observations) \in Nat
  BY <1>6, LenProperties DEF Listing
<1>q. QED
  BY <1>1, <1>2, <1>4, <1>6, <1>7 DEF Fits, shown

LEMMA ContextsSound ==
    ASSUME TypeOK, NoRepeat, CoverInv
    PROVE  ContextIsSound
<1>1. NothingToldTwice
  BY ContextsList, SnapshotLists, ListedApart DEF NothingToldTwice
<1>2. ContextFits
  BY ContextsList, SnapshotLists DEF ContextFits
<1>q. QED
  BY <1>1, <1>2 DEF ContextIsSound

-----------------------------------------------------------------------------
(* The theorems *)

Inv == TypeOK /\ RightInv /\ SummaryInv /\ NoRepeat /\ CoverInv

(* Whatever the hooks, the maintenance and failures do, the types, what is *)
(* filed under a session, what its summaries were made of, and that no row *)
(* repeats another one are kept, together.                                 *)
THEOREM Invariance == Spec => []Inv
<1>1. Init => Inv
  BY InitTypes, InitRight, InitSummary, InitRows DEF Inv
<1>2. Inv /\ [Next]_vars => Inv'
  BY NextTypes, NextRight, NextSummary, NextRows DEF Inv
<1>q. QED
  BY <1>1, <1>2, PTL DEF Spec

(* The table, the summaries and what hooks, file and import hold are what  *)
(* the code's types say, and compacted rows are chat that is still there.  *)
THEOREM TypeCorrect == Spec => []TypeOK
<1>1. Inv => TypeOK
  BY DEF Inv
<1>q. QED
  BY <1>1, Invariance, PTL

(* As long as events of two sessions are not mixed, rows and the requests  *)
(* of summaries are of the session that they are filed under.              *)
THEOREM FiledRight == Spec => []RightSession
<1>1. Inv => RightSession
  BY DEF Inv, TypeOK, RightInv, RightSession, Filed
<1>q. QED
  BY <1>1, Invariance, PTL

(* A summary covers all that is still there of what earlier summaries of   *)
(* its session were made of, unless two agent_end hooks overlapped.        *)
THEOREM SummariesGrow == Spec => []SummaryNeverGoesBack
<1>1. Inv => SummaryNeverGoesBack
  BY DEF Inv, SummaryInv
<1>q. QED
  BY <1>1, Invariance, PTL

(* No context and no semantic snapshot tells anything of one session       *)
(* twice, and each keeps to its limits, however much the search finds.     *)
THEOREM ContextsAreSound == Spec => []ContextIsSound
<1>1. Inv => ContextIsSound
  BY ContextsSound DEF Inv
<1>q. QED
  BY <1>1, Invariance, PTL

=============================================================================
