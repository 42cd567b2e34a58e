------------------------------ MODULE ChatMemory ------------------------------
(***************************************************************************)
(* The chat memory of claw-mem, for one agent: chat messages captured by   *)
(* the message hooks, and compaction passes that roll the older ones into  *)
(* one chat_compaction row and delete those of low importance.             *)
(*                                                                         *)
(* The hooks run in one gateway process over SQLite.  A pass reads its     *)
(* batch, awaits the summarizer, and then writes in one transaction; any   *)
(* number of hooks, and of other passes, run during the await.  A message  *)
(* is named by its position in "captured".  Session summaries are another  *)
(* table, which nothing here reads.                                        *)
(***************************************************************************)
EXTENDS Integers, Sequences, FiniteSets

CONSTANTS
    Sessions,        \* sessions of the agent
    Messages,        \* kinds of message: its session, and whether it scores
                     \* below minImportanceToKeep
    Passes,          \* names of compaction passes; bound: passes at a time
    TriggerEvery,    \* chatMemory.compaction.triggerEvery
    KeepRecent,      \* chatMemory.compaction.keepRecentRaw
    DeleteLowValue,  \* chatMemory.compaction.deleteCompactedLowValue
    MaxChats,        \* bound: messages ever captured
    MaxSeconds,      \* bound: seconds of the clock
    MaxCompactions   \* bound: compactions ever inserted

ASSUME ConstantsAssumption ==
    /\ TriggerEvery \in Nat \ {0}
    /\ KeepRecent \in Nat
    /\ DeleteLowValue \in BOOLEAN
    /\ MaxChats \in Nat
    /\ MaxSeconds \in Nat
    /\ MaxCompactions \in Nat
    /\ Messages \subseteq [session : Sessions, low : BOOLEAN]

VARIABLES
    now,          \* the clock, in seconds
    captured,     \* every message ever inserted, with its row's columns
    into,         \* into[m]: compacted_into, 0 as long as compacted = 0
    rows,         \* messages whose row is in the table
    forgotten,    \* history: messages deleted with their session
    compactions,  \* compactions[c]: the messages the c-th summary was made of
    counter,      \* CompactionTrigger.counter
    queued,       \* passes handed to setImmediate() that have not begun
    batch,        \* batch[p]: what pass p awaits the summary of, {} when idle
    atEnd,        \* passes that onAgentEnd awaits
    dropped,      \* history: ticks that a reset() threw away since a pass began
    overrun,      \* history: a pass began with more raw rows than it pulls
    disturbed     \* history: a pass failed or was cut off

vars == <<now, captured, into, rows, forgotten, compactions, counter, queued,
          batch, atEnd, dropped, overrun, disturbed>>

Chats == 1..Len(captured)
Row == [session : Sessions, epoch : 0..MaxSeconds, low : BOOLEAN]

TypeOK ==
    /\ now \in 0..MaxSeconds
    /\ captured \in Seq(Row)
    /\ into \in [Chats -> 0..Len(compactions)]
    /\ rows \subseteq Chats
    /\ forgotten \subseteq Chats \ rows
    /\ compactions \in Seq(SUBSET Chats)
    /\ counter \in 0..(TriggerEvery - 1)
    /\ queued \in Nat
    /\ batch \in [Passes -> SUBSET Chats]
    /\ atEnd \subseteq {p \in Passes : batch[p] # {}}
    /\ dropped \in Nat
    /\ overrun \in BOOLEAN
    /\ disturbed \in BOOLEAN

Init ==
    /\ now = 0
    /\ captured = <<>>
    /\ into = <<>>
    /\ rows = {}
    /\ forgotten = {}
    /\ compactions = <<>>
    /\ counter = 0
    /\ queued = 0
    /\ batch = [p \in Passes |-> {}]
    /\ atEnd = {}
    /\ dropped = 0
    /\ overrun = FALSE
    /\ disturbed = FALSE

-----------------------------------------------------------------------------
(* The order of the rows.  created_at_epoch has whole seconds, and SQLite  *)
(* answers both queries from an index on created_at_epoch DESC: ascending  *)
(* it is scanned backwards, so of one second the last row comes first, and *)
(* descending it is scanned forwards, so that of one second the first row  *)
(* does.  Either way, the first row of a second counts as its most recent. *)
Older(m, n) ==
    \/ captured[m].epoch < captured[n].epoch
    \/ captured[m].epoch = captured[n].epoch /\ m > n

Oldest(S, k)  == {m \in S : Cardinality({n \in S : Older(n, m)}) < k}
Newest(S, k)  == {m \in S : Cardinality({n \in S : Older(m, n)}) < k}

Smaller(i, j) == IF i < j THEN i ELSE j

Raw == {m \in rows : into[m] = 0}

PullLimit == Smaller(200, TriggerEvery * 5)

(* What a pass that begins now would compact: the oldest rows, up to the   *)
(* limit, without the most recent of them.                                 *)
Compactable ==
    LET pulled == Oldest(Raw, PullLimit)
    IN  pulled \ Newest(pulled, KeepRecent)

-----------------------------------------------------------------------------
(* Mutant of the trigger: fires at the threshold, and goes on counting. *)
TickOnce ==
    /\ counter' = Smaller(counter + 1, TriggerEvery - 1)
    /\ queued' = IF Len(captured) + 1 = TriggerEvery THEN queued + 1 ELSE queued

(* Mutant: the threshold is passed one tick late. *)
TickLate ==
    IF counter + 1 > TriggerEvery
      THEN counter' = 0 /\ queued' = queued + 1
      ELSE counter' = counter + 1 /\ queued' = queued

(* CompactionTrigger.tick(), and setImmediate() when it answers true. *)
Tick ==
    IF counter + 1 >= TriggerEvery
      THEN counter' = 0 /\ queued' = queued + 1
      ELSE counter' = counter + 1 /\ queued' = queued

(* captureChatMessage() for a message that is worth a row and no duplicate *)
Capture(message) ==
    /\ Len(captured) < MaxChats
    /\ captured' = Append(captured,
                          [session |-> message.session,
                           epoch |-> now, low |-> message.low])
    /\ into' = Append(into, 0)
    /\ rows' = rows \cup {Len(captured) + 1}
    /\ Tick
    /\ UNCHANGED <<now, forgotten, compactions, batch, atEnd, dropped,
                   overrun, disturbed>>

(* Mutant: slices the wrong end of the batch off. *)
PullKeepingOldest(p) ==
    LET pulled == Oldest(Raw, PullLimit)
    IN  batch' = [batch EXCEPT ![p] = pulled \ Oldest(pulled, KeepRecent)]

(* runChatCompaction() up to its await.  With nothing to compact it is     *)
(* over: batch[p] stays empty.                                             *)
Pull(p) ==
    batch' = [batch EXCEPT ![p] = Compactable]

PassBegins(p) ==
    /\ batch[p] = {}
    /\ Pull(p)
    /\ dropped' = 0
    /\ overrun' = (overrun \/ Cardinality(Raw) > PullLimit)

(* A pass that a capture has queued. *)
BeginQueued(p) ==
    /\ queued > 0
    /\ queued' = queued - 1
    /\ PassBegins(p)
    /\ UNCHANGED <<now, captured, into, rows, forgotten, compactions, counter,
                   atEnd, disturbed>>

(* onAgentEnd, after its session summary; resets the trigger in the end if *)
(* there was something to compact.                                         *)
AgentEnd(p) ==
    /\ Compactable # {}
    /\ PassBegins(p)
    /\ atEnd' = atEnd \cup {p}
    /\ UNCHANGED <<now, captured, into, rows, forgotten, compactions, counter,
                   queued, disturbed>>

(* pruneCompactedLowValue(), after "marked" was written to compacted_into. *)
Prunable(marked) ==
    {m \in rows : marked[m] # 0 /\ captured[m].low} \ Newest(rows, KeepRecent)

(* Mutant: marks what is compactable now, not what was summarized. *)
CommitCurrent(p) ==
    into' = [m \in Chats |->
               IF m \in Compactable THEN Len(compactions) + 1 ELSE into[m]]

(* Mutant: no transaction, and the marking may fail after the insert. *)
CommitInTwo(p) ==
    into' \in {into, [m \in Chats |->
                 IF m \in batch[p] \cap rows THEN Len(compactions) + 1
                                             ELSE into[m]]}

(* markCompacted(): rows that are gone meanwhile are not there to mark;    *)
(* those another pass has marked are marked again.                         *)
Commit(p) ==
    into' = [m \in Chats |->
               IF m \in batch[p] \cap rows THEN Len(compactions) + 1
                                           ELSE into[m]]

(* The summarizer answers, or fails and the messages are concatenated: the *)
(* rest of runChatCompaction().  An error of the prune is only logged.     *)
Finish(p) ==
    /\ batch[p] # {}
    /\ Len(compactions) < MaxCompactions
    /\ compactions' = Append(compactions, batch[p])
    /\ Commit(p)
    /\ \/ DeleteLowValue /\ rows' = rows \ Prunable(into')
       \/ rows' = rows
    /\ batch' = [batch EXCEPT ![p] = {}]
    /\ atEnd' = atEnd \ {p}
    /\ counter' = IF p \in atEnd THEN 0 ELSE counter
    /\ dropped' = IF p \in atEnd THEN dropped + counter ELSE dropped
    /\ UNCHANGED <<now, captured, forgotten, queued, overrun, disturbed>>

(* The transaction is rolled back.  Bound: one disturbance. *)
Fail(p) ==
    /\ ~disturbed
    /\ batch[p] # {}
    /\ batch' = [batch EXCEPT ![p] = {}]
    /\ atEnd' = atEnd \ {p}
    /\ disturbed' = TRUE
    /\ UNCHANGED <<now, captured, into, rows, forgotten, compactions, counter,
                   queued, dropped, overrun>>

(* The mem-forget tool, or "mem forget" in another process. *)
Forget(s) ==
    /\ \E m \in rows : captured[m].session = s
    /\ rows' = {m \in rows : captured[m].session # s}
    /\ forgotten' = forgotten \cup (rows \ rows')
    /\ UNCHANGED <<now, captured, into, compactions, counter, queued, batch,
                   atEnd, dropped, overrun, disturbed>>

(* The gateway dies, or restarts: what is in memory is lost. *)
Restart ==
    /\ ~disturbed
    /\ counter' = 0
    /\ queued' = 0
    /\ batch' = [p \in Passes |-> {}]
    /\ atEnd' = {}
    /\ disturbed' = TRUE
    /\ UNCHANGED <<now, captured, into, rows, forgotten, compactions, dropped,
                   overrun>>

ClockTicks ==
    /\ now < MaxSeconds
    /\ now' = now + 1
    /\ UNCHANGED <<captured, into, rows, forgotten, compactions, counter,
                   queued, batch, atEnd, dropped, overrun, disturbed>>

Next ==
    \/ \E message \in Messages : Capture(message)
    \/ \E p \in Passes : BeginQueued(p) \/ AgentEnd(p) \/ Finish(p) \/ Fail(p)
    \/ \E s \in Sessions : Forget(s)
    \/ Restart
    \/ ClockTicks

Spec == Init /\ [][Next]_vars

-----------------------------------------------------------------------------
(* Properties *)

(* However passes overlap, fail, are cut off or prune, a captured message  *)
(* that nobody had forgotten is still a row of its own that recall reads,  *)
(* or part of a summary.  (chat-compactor.ts, the await and the            *)
(* transaction; observation-store.ts, the prune)                           *)
NothingLost ==
    \A m \in Chats \ forgotten :
        m \in Raw \/ \E c \in DOMAIN compactions : m \in compactions[c]

(* "context injection doesn't surface the same chat twice (once raw, once  *)
(* inside a compaction summary)" (observation-store.ts:83-84)              *)
RawIsNotSummarised ==
    \A m \in Raw, c \in DOMAIN compactions : m \notin compactions[c]

(* compacted_into names a summary that was made of the row, also when      *)
(* overlapping passes marked it twice: the audit trail is right.           *)
ParentCovers ==
    \A m \in rows : into[m] # 0 => m \in compactions[into[m]]

(* Of the rows that count as more recent than a compacted one, KeepRecent  *)
(* are raw, or were until someone forgot them, whatever other passes did   *)
(* to the rows a pass had decided to keep.                                 *)
TailIsKept ==
    \A m \in Chats :
        into[m] # 0 =>
            Cardinality({n \in Raw \cup {f \in forgotten : into[f] = 0} :
                           Older(m, n)}) >= KeepRecent

(* "Run compaction once every N new chat observations" (config.ts:185):    *)
(* undisturbed and with no pass under way, the messages to keep and those  *)
(* the trigger has counted since the last pass, or had counted when a pass *)
(* of onAgentEnd reset it, are all that is raw, unless a pass found more   *)
(* than the triggerEvery * 5 rows that it pulls.                           *)
BacklogBounded ==
    /\ ~disturbed
    /\ ~overrun
    /\ queued = 0
    /\ \A p \in Passes : batch[p] = {}
    => Cardinality(Raw) <= KeepRecent + counter + dropped

=============================================================================
