---------------------------- MODULE SessionMemory ----------------------------
(***************************************************************************)
(* The memory of one agent across its sessions: observations of tools and  *)
(* of chat, session summaries, what is recalled into the next prompt, and  *)
(* the maintenance of the table by forget, prune, export and import.       *)
(*                                                                         *)
(* The hooks run in the gateway; the maintenance commands run there as     *)
(* tools or in a process of their own, over one SQLite file.  A hook runs  *)
(* without interruption, except that agent_end awaits the summarizer.  How *)
(* chat is compacted is ChatMemory's: here a compaction is one step.       *)
(*                                                                         *)
(* An observation is named by its position in "table", which keeps the     *)
(* rows that are deleted, too.                                             *)
(***************************************************************************)
EXTENDS Integers, Sequences, FiniteSets, Functions

CONSTANTS
    Sessions,         \* sessions of the agent
    MadeUp,           \* session ids that hooks make up of the time; bound
    Kinds,            \* "user" and "assistant" for chat, "tool"
    Texts,            \* titles and narratives
    Ends,             \* names of agent_end hooks; bound: those under way
    Mode,             \* config.summarizer.mode
    FallbackOnError,  \* whether the heuristic summary is taken on errors
    Window,           \* dedupWindowMs, in seconds
    MaxObservations,  \* config.maxObservations
    SearchLimit,      \* what searchLimitRatio makes of it, rounded up
    MaxSummaries,     \* config.maxSummaries
    TokenBudget,      \* config.tokenBudget; an entry counts as one token
    SnapshotObservations, SnapshotSummaries,
    SnapshotBudget,   \* the same of the semantic snapshot of a backup
    MaxRows,          \* bound: rows ever inserted
    MaxSeconds,       \* bound: seconds of the clock
    MaxEvents         \* bound: compactions, prunes, imports and restarts,
                      \* taken together; one file is exported

Smaller(m, n) == IF m < n THEN m ELSE n
Larger(m, n) == IF m < n THEN n ELSE m

SessionIds == Sessions \cup MadeUp

Nobody == "none"      \* no session
Unknown == "unknown"  \* the session of tool calls without one; here also of
                      \* compactions, each of which has an id of its own

ASSUME MemoryAssumption ==
    /\ IsFiniteSet(Sessions) /\ IsFiniteSet(MadeUp)
    /\ Sessions \cap MadeUp = {}
    /\ Nobody \notin SessionIds
    /\ Kinds \subseteq {"user", "assistant", "tool"}
    /\ Mode \in {"heuristic", "llm", "openclaw"}
    /\ FallbackOnError \in BOOLEAN
    /\ Window \in Nat
    /\ MaxObservations \in Nat
    /\ SearchLimit \in 1..Larger(1, MaxObservations)
    /\ MaxSummaries \in Nat
    /\ TokenBudget \in Nat
    /\ SnapshotObservations \in Nat
    /\ SnapshotSummaries \in Nat
    /\ SnapshotBudget \in Nat
    /\ MaxRows \in Nat
    /\ MaxSeconds \in Nat
    /\ MaxEvents \in Nat

VARIABLES
    now,         \* the clock, in seconds
    made,        \* made[m]: the second in which the id m was made up, or -1
    table,       \* every row ever inserted, but for compacted
    rows,        \* those that are there
    compacted,   \* those of them with compacted = 1
    summaries,   \* summaries[s]: session_summaries, by session
    active,      \* activeSessions.get(agent): a session and lastUserMessage;
                 \* "of" is history: the session that was started
    ends,        \* ends[e]: what hook e awaits the summary of
    file,        \* the exported file
    importing,   \* what the import has still to read: rows of the file, and
                 \* 0 for its summaries
    looked,      \* the row of the file that it found missing in the table, or 0
    events,      \* number of events, see MaxEvents
    covered,     \* history: covered[s]: rows that a summary of s was made of,
                 \* since summaries were last deleted
    overlapped,  \* history: sessions with two agent_end hooks at a time
    mixed,       \* history: an event came of a session that is not the open one
    stale        \* history: rows inserted by an import, which had found them
                 \* missing before a hook inserted the same

vars == <<now, made, table, rows, compacted, summaries, active, ends, file, importing,
          looked, events, covered, overlapped, mixed, stale>>

Chat == {"user", "assistant"}
Ids == 1..Len(table)

(* "of" is history: the session in which it was said or done.  "covers" is *)
(* what a compaction was made of.                                          *)
Row == [session : SessionIds \cup {Unknown}, of : Sessions \cup {Nobody},
        kind : Kinds \cup {"compaction"}, text : Texts \cup {Nobody},
        epoch : 0..MaxSeconds, covers : SUBSET (1..MaxRows)]

NoSummary == [epoch |-> -1, covers |-> {}, request |-> Nobody]
Summary == [epoch : 0..MaxSeconds, covers : SUBSET Ids, request : Sessions \cup {Nobody}]
NotOpen == [session |-> Nobody, of |-> Nobody, said |-> Nobody]
NotEnding == [session |-> Nobody, covers |-> {}, request |-> Nobody]
Ending == [session : SessionIds, covers : (SUBSET Ids) \ {{}}, request : Sessions \cup {Nobody}]
Open == [session : SessionIds \cup {Nobody}, of : Sessions \cup {Nobody},
         said : Sessions \cup {Nobody}]
NoFile == [rows |-> {}, summaries |-> [s \in SessionIds |-> NoSummary]]

TypeOK ==
    /\ now \in 0..MaxSeconds
    /\ made \in [MadeUp -> -1..MaxSeconds]
    /\ table \in Seq(Row)
    /\ Len(table) <= MaxRows
    /\ rows \subseteq Ids
    /\ compacted \subseteq {i \in rows : table[i].kind \in Chat}
    /\ summaries \in [SessionIds -> {NoSummary} \cup Summary]
    /\ active \in Open
    /\ Nobody \in {active.session, active.of} => active = NotOpen
    /\ ends \in [Ends -> {NotEnding} \cup Ending]
    /\ file \in [rows : SUBSET Ids, summaries : [SessionIds -> {NoSummary} \cup Summary]]
    /\ importing \subseteq file.rows \cup {0}
    /\ importing # {} => 0 \in importing
    /\ looked \in file.rows \cup {0}
    /\ events \in 0..MaxEvents
    /\ covered \in [SessionIds -> SUBSET Ids]
    /\ overlapped \subseteq SessionIds
    /\ mixed \in BOOLEAN
    /\ stale \subseteq Ids

Init ==
    /\ now = 0
    /\ made = [m \in MadeUp |-> -1]
    /\ table = <<>>
    /\ rows = {}
    /\ compacted = {}
    /\ summaries = [s \in SessionIds |-> NoSummary]
    /\ active = NotOpen
    /\ ends = [e \in Ends |-> NotEnding]
    /\ file = NoFile
    /\ importing = {}
    /\ looked = 0
    /\ events = 0
    /\ covered = [s \in SessionIds |-> {}]
    /\ overlapped = {}
    /\ mixed = FALSE
    /\ stale = {}

Event == events < MaxEvents /\ events' = events + 1

-----------------------------------------------------------------------------
(* The tables. *)

(* created_at_epoch DESC: of one second, the first row counts as newest. *)
Newer(i, j) ==
    \/ table[i].epoch > table[j].epoch
    \/ table[i].epoch = table[j].epoch /\ i < j

(* How many rows of S are newer than i; the newest ones, and all of S in   *)
(* order.                                                                  *)
Rank(S, i) == Cardinality({j \in S : Newer(j, i)})
Newest(S, limit) == {i \in S : Rank(S, i) < limit}
InOrder(S) == [k \in 1..Cardinality(S) |-> CHOOSE i \in S : Rank(S, i) = k - 1]

insert(row) ==
    /\ Len(table) < MaxRows
    /\ table' = Append(table, row)
    /\ rows' = rows \cup {Len(table) + 1}

(* Equal content_hash: made of session, title and narrative.  Compactions  *)
(* have a session id of their own each.                                    *)
SameHash(i, session, kind, text) ==
    table[i].session = session /\ table[i].kind = kind /\ table[i].text = text

isDuplicate(session, kind, text) ==
    \E i \in rows : SameHash(i, session, kind, text) /\ table[i].epoch > now - Window

(* Mutant: only what was observed since the last summary. *)
getBySessionSince(s) == {i \in rows : table[i].session = s /\ table[i].epoch >= summaries[s].epoch}

getBySession(s) == {i \in rows : table[i].session = s}

getRecent(limit) == Newest(rows \ compacted, limit)

(* How many of the newest summaries there are. *)
getRecentSummaries(limit) ==
    Smaller(limit, Cardinality({s \in SessionIds : summaries[s] # NoSummary}))

-----------------------------------------------------------------------------
(* The hooks.  Each event is of a session s; "given" says whether it comes *)
(* with the session's id.                                                  *)

IsMixed(s) == mixed \/ active.of \notin {Nobody, s}

(* "session-" and the time in milliseconds: an id that was never made up   *)
(* before, or not before this second.                                      *)
FromClock == {m \in MadeUp : made[m] \in {-1, now}}

MakesUp(id) == made' = IF id \in FromClock THEN [made EXCEPT ![id] = now] ELSE made

(* ctx.sessionId ?? session?.sessionId ?? what else it may be.             *)
SessionOf(s, given, others) ==
    IF given THEN {s} ELSE IF active # NotOpen THEN {active.session} ELSE others

(* Mutant: the entry of the agent is updated, not replaced. *)
onSessionStartUpdates(s, id) ==
    /\ active' = [active EXCEPT !.session = id, !.of = s]
    /\ MakesUp(id)
    /\ UNCHANGED <<now, table, rows, compacted, summaries, ends, file, importing, looked,
                   events, covered, overlapped, mixed, stale>>

onSessionStart(s, id) ==
    /\ active' = [session |-> id, of |-> s, said |-> Nobody]
    /\ MakesUp(id)
    /\ UNCHANGED <<now, table, rows, compacted, summaries, ends, file, importing, looked,
                   events, covered, overlapped, mixed, stale>>

(* What a tool call or a message says, or nothing that is worth a row: a   *)
(* tool to be skipped, no content, no cue or too low a score.              *)
extractObservation == Texts \cup {Nobody}
extractChatObservation == Texts \cup {Nobody}

NewRow(s, id, kind, text) ==
    [session |-> id, of |-> s, kind |-> kind, text |-> text, epoch |-> now, covers |-> {}]

insertNew(s, id, kind, text) ==
    IF text # Nobody /\ ~isDuplicate(id, kind, text)
    THEN insert(NewRow(s, id, kind, text)) /\ MakesUp(id)
    ELSE UNCHANGED <<table, rows, made>>

(* Mutant: there need not be an open session. *)
SaidAnyway(s, kind) == IF kind = "user" THEN [active EXCEPT !.said = s] ELSE active

(* The seed of the recall, and of a summary's request, is the last message *)
(* of the user, even if no row is made of it.                              *)
Said(s, kind) ==
    IF kind = "user" /\ active.session # Nobody THEN [active EXCEPT !.said = s] ELSE active

captureChatMessage(s, given, kind, text) ==
    /\ text \in extractChatObservation
    /\ active' = Said(s, kind)
    /\ \E id \in SessionOf(s, given, FromClock) : insertNew(s, id, kind, text)
    /\ mixed' = IsMixed(s)
    /\ UNCHANGED <<now, compacted, summaries, ends, file, importing, looked, events, covered,
                   overlapped, stale>>

onAfterToolCall(s, given, text) ==
    /\ text \in extractObservation
    /\ \E id \in SessionOf(s, given, {Unknown}) : insertNew(s, id, "tool", text)
    /\ mixed' = IsMixed(s)
    /\ UNCHANGED <<now, compacted, summaries, active, ends, file, importing, looked, events,
                   covered, overlapped, stale>>

(* onAgentEnd() up to its await.  What was said last is of the open        *)
(* session, whichever session ends.                                        *)
onAgentEnd(e, s, given) ==
    /\ ends[e] = NotEnding
    /\ \E id \in SessionOf(s, given, {}) :
        /\ getBySession(id) # {}
        /\ ends' = [ends EXCEPT ![e] = [session |-> id, covers |-> getBySession(id),
                                        request |-> active.said]]
        /\ overlapped' = IF \E d \in Ends : ends[d].session = id
                         THEN overlapped \cup {id} ELSE overlapped
    /\ mixed' = IsMixed(s)
    /\ UNCHANGED <<now, made, table, rows, compacted, summaries, active, file, importing,
                   looked, events, covered, stale>>

(* What the summarizer makes of it.  The heuristic one always answers; the *)
(* other two ask a model, and may find no SDK, key or program, time out or *)
(* get no JSON: then they fall back to the heuristic one, or throw.        *)
summarizeSession(e) ==
    [epoch |-> now, covers |-> ends[e].covers, request |-> ends[e].request]

Thrown == IF FallbackOnError THEN {} ELSE {NoSummary}

summarizeSessionWithLLM(e) == {summarizeSession(e)} \cup Thrown
summarizeSessionWithOpenClaw(e) == {summarizeSession(e)} \cup Thrown

createSummarizer(e) ==
    CASE Mode = "openclaw" -> summarizeSessionWithOpenClaw(e)
      [] Mode = "llm" -> summarizeSessionWithLLM(e)
      [] OTHER -> {summarizeSession(e)}

upsert(s, summary) ==
    /\ summaries' = [summaries EXCEPT ![s] = summary]
    /\ covered' = [covered EXCEPT ![s] = @ \cup summary.covers]

(* onAgentEnd() after it: an error is logged. *)
Summarized(e) ==
    /\ ends[e] # NotEnding
    /\ \E summary \in createSummarizer(e) :
        IF summary = NoSummary THEN UNCHANGED <<summaries, covered>>
        ELSE upsert(ends[e].session, summary)
    /\ ends' = [ends EXCEPT ![e] = NotEnding]
    /\ UNCHANGED <<now, made, table, rows, compacted, active, file, importing, looked,
                   events, overlapped, mixed, stale>>

(* Whichever session it is that ends, the agent has no open one after it. *)
onSessionEnd(s) ==
    /\ active # NotOpen
    /\ active' = NotOpen
    /\ mixed' = IsMixed(s)
    /\ UNCHANGED <<now, made, table, rows, compacted, summaries, ends, file, importing,
                   looked, events, covered, overlapped, stale>>

(* A compaction of ChatMemory, of any raw messages, and the deletion of    *)
(* compacted ones of low importance.                                       *)
runChatCompaction(batch, pruned) ==
    /\ Event
    /\ batch # {}
    /\ \A i \in batch : table[i].kind \in Chat
    /\ Len(table) < MaxRows
    /\ table' = Append(table, [session |-> Unknown, of |-> Nobody, kind |-> "compaction",
                               text |-> Nobody, epoch |-> now, covers |-> batch])
    /\ rows' = (rows \cup {Len(table) + 1}) \ pruned
    /\ compacted' = (compacted \cup batch) \ pruned
    /\ UNCHANGED <<now, made, summaries, active, ends, file, importing, looked, covered,
                   overlapped, mixed, stale>>

-----------------------------------------------------------------------------
(* What is recalled before a prompt is built. *)

(* Search hits are raw observations in the order of their rank. *)
SearchResults ==
    UNION {{h \in [1..k -> rows \ compacted] : IsInjective(h)} : k \in 0..SearchLimit}

(* Mutant: the recent tail is not compared with the hits. *)
recallObservationsTwice(hits, recent) ==
    hits \o InOrder(Newest(recent, Larger(1, MaxObservations - Len(hits))))

(* The hits, and then those of the recent rows (getRecent()) that are not  *)
(* among them; the limit is looked at after each of these.                 *)
recallObservations(hits, recent) ==
    hits \o InOrder(Newest(recent \ Range(hits), Larger(1, MaxObservations - Len(hits))))

(* Summaries first, then observations as long as they fit. *)
Packed(observations, recentSummaries, budget) ==
    LET packed == Smaller(recentSummaries, budget)
    IN  [summaries |-> packed,
         observations |-> SubSeq(observations, 1, Smaller(Len(observations), budget - packed))]

buildContext(recalled, recentSummaries) == Packed(recalled, recentSummaries, TokenBudget)

(* What is injected, with the hits of a search for the message that the    *)
(* user sent last, or none.                                                *)
onBeforePromptBuild(hits, recent) ==
    buildContext(recallObservations(hits, recent), getRecentSummaries(MaxSummaries))

(* What "mem peek" shows of it, which never searches. *)
Peek(recent) == buildContext(InOrder(recent), getRecentSummaries(MaxSummaries))

queryObservations(limit) == InOrder(Newest(rows, limit))

(* What a backup takes along for the agent to be told after its recovery:  *)
(* the newest rows, compacted or not.                                      *)
captureSemanticSnapshot ==
    Packed(queryObservations(SnapshotObservations), getRecentSummaries(SnapshotSummaries),
           SnapshotBudget)

-----------------------------------------------------------------------------
(* Maintenance. *)

delete(old) == rows' = rows \ old /\ compacted' = compacted \ old

deleteBySession(s) == delete(getBySession(s))

(* mem-forget, or "mem forget". *)
Forget(s) ==
    /\ getBySession(s) # {}
    /\ deleteBySession(s)
    /\ UNCHANGED <<now, made, table, summaries, active, ends, file, importing, looked,
                   events, covered, overlapped, mixed, stale>>

(* "mem prune": what is older than the cutoff; summaries if asked for. *)
Prune(cutoff, includeSummaries) ==
    LET old == {i \in rows : table[i].epoch < cutoff}
        oldSummaries == {s \in SessionIds : includeSummaries /\ summaries[s].epoch < cutoff}
    IN
    /\ Event
    /\ delete(old)
    /\ summaries' = [s \in SessionIds |-> IF s \in oldSummaries THEN NoSummary
                                                              ELSE summaries[s]]
    /\ covered' = [s \in SessionIds |-> IF s \in oldSummaries THEN {} ELSE covered[s]]
    /\ UNCHANGED <<now, made, table, active, ends, file, importing, looked, overlapped,
                   mixed, stale>>

(* "mem export"; bound: once. *)
Export ==
    /\ file = NoFile
    /\ file' = [rows |-> rows, summaries |-> summaries]
    /\ importing = {}
    /\ UNCHANGED <<now, made, table, rows, compacted, summaries, active, ends,
                   importing, looked, events, covered, overlapped, mixed, stale>>

(* "mem import", of a file that was exported here or there: it begins, ... *)
BeginImport ==
    /\ Event
    /\ importing = {}
    /\ importing' = file.rows \cup {0}
    /\ UNCHANGED <<now, made, table, rows, compacted, summaries, active, ends, file,
                   looked, covered, overlapped, mixed, stale>>

(* ... looks row by row whether there is one with its session and hash,    *)
(* ... *)
SameRow(i, j) ==
    IF table[i].kind = "compaction"
    THEN table[j].kind = "compaction" /\ table[j].covers = table[i].covers
    ELSE SameHash(j, table[i].session, table[i].kind, table[i].text)

ImportLooks ==
    LET left == importing \ {0}
        i == CHOOSE j \in left : \A k \in left : j <= k
    IN
    /\ left # {}
    /\ looked = 0
    /\ importing' = importing \ {i}
    /\ looked' = IF \E j \in rows : SameRow(i, j) THEN 0 ELSE i
    /\ UNCHANGED <<now, made, table, rows, compacted, summaries, active, ends, file, events,
                   covered, overlapped, mixed, stale>>

(* ... inserts it if there is none, without the columns compacted,         *)
(* compacted_into and importance: a statement of its own, so that another  *)
(* program may have inserted the same by then, ...                         *)
ImportInserts ==
    /\ looked # 0
    /\ insert(table[looked])
    /\ looked' = 0
    /\ stale' = IF \E j \in rows : SameRow(looked, j) THEN stale \cup {Len(table) + 1}
                                                        ELSE stale
    /\ UNCHANGED <<now, made, compacted, summaries, active, ends, file, importing, events,
                   covered, overlapped, mixed>>

(* ... and then the summaries, unless the session has one.                 *)
ImportSummaries ==
    LET missing == {s \in SessionIds : summaries[s] = NoSummary}
    IN
    /\ importing = {0}
    /\ looked = 0
    /\ importing' = {}
    /\ summaries' = [s \in SessionIds |-> IF s \in missing THEN file.summaries[s]
                                                         ELSE summaries[s]]
    /\ covered' = [s \in SessionIds |-> IF s \in missing
                     THEN covered[s] \cup file.summaries[s].covers ELSE covered[s]]
    /\ UNCHANGED <<now, made, table, rows, compacted, active, ends, file, looked,
                   events, overlapped, mixed, stale>>

(* The process of the import dies: every row was inserted by itself. *)
ImportEnds ==
    /\ importing # {}
    /\ importing' = {}
    /\ looked' = 0
    /\ UNCHANGED <<now, made, table, rows, compacted, summaries, active, ends, file,
                   events, covered, overlapped, mixed, stale>>

-----------------------------------------------------------------------------
(* The gateway dies, or restarts. *)
Restart ==
    /\ Event
    /\ active' = NotOpen
    /\ ends' = [e \in Ends |-> NotEnding]
    /\ UNCHANGED <<now, made, table, rows, compacted, summaries, file, importing,
                   looked, covered, overlapped, mixed, stale>>

ClockTicks ==
    /\ now < MaxSeconds
    /\ now' = now + 1
    /\ UNCHANGED <<made, table, rows, compacted, summaries, active, ends, file,
                   importing, looked, events, covered, overlapped, mixed, stale>>

Hook ==
    \E s \in Sessions :
        \/ \E id \in {s} \cup FromClock : onSessionStart(s, id)
        \/ onSessionEnd(s)
        \/ \E given \in BOOLEAN :
            \/ \E text \in Texts \cup {Nobody} :
                \/ \E kind \in Kinds \ {"tool"} : captureChatMessage(s, given, kind, text)
                \/ "tool" \in Kinds /\ onAfterToolCall(s, given, text)
            \/ \E e \in Ends : onAgentEnd(e, s, given)

Maintenance ==
    \/ \E s \in SessionIds : Forget(s)
    \/ \E cutoff \in 1..(MaxSeconds + 1), includeSummaries \in BOOLEAN :
            Prune(cutoff, includeSummaries)
    \/ Export
    \/ BeginImport
    \/ ImportLooks
    \/ ImportInserts
    \/ ImportSummaries
    \/ ImportEnds

Next ==
    \/ Hook
    \/ \E e \in Ends : Summarized(e)
    \/ \E batch \in SUBSET (rows \ compacted) :
            \E pruned \in SUBSET (compacted \cup batch) : runChatCompaction(batch, pruned)
    \/ Maintenance
    \/ Restart
    \/ ClockTicks

Spec == Init /\ [][Next]_vars

-----------------------------------------------------------------------------
(* Properties *)

(* Row i says within the window what row j says in the same session, and   *)
(* neither is a row that an import inserted on the strength of a stale     *)
(* look.                                                                   *)
Repeats(i, j) ==
    \/ i = j
    \/ /\ table[i].kind # "compaction"
       /\ SameHash(j, table[i].session, table[i].kind, table[i].text)
       /\ table[j].epoch \in table[i].epoch..(table[i].epoch + Window - 1)
       /\ i \notin stale /\ j \notin stale

(* Or it is a message that row j is a compaction of: the very row, not one *)
(* that an import made of it.                                              *)
SaysAgain(i, j) == Repeats(i, j) \/ i \in table[j].covers

Fits(context, limit, budget) ==
    /\ context.summaries + Len(context.observations) <= budget
    /\ Len(context.observations) <= limit

Apart(Says(_, _), shown) ==
    \A l \in DOMAIN shown : \A k \in 1..(l - 1) :
        ~Says(shown[k], shown[l]) /\ ~Says(shown[l], shown[k])

Injected ==
    LET recent == getRecent(MaxObservations)
    IN  {onBeforePromptBuild(hits, recent) : hits \in SearchResults}

Peeked == Peek(getRecent(MaxObservations))

(* recallObservations() looks at maxObservations only after it has added a *)
(* recent row: hits that fill it are followed by one row more.             *)
MostRecalled == Larger(MaxObservations, SearchLimit + 1)

ContextFits ==
    /\ \A context \in Injected : Fits(context, MostRecalled, TokenBudget)
    /\ Fits(Peeked, MaxObservations, TokenBudget)
    /\ Fits(captureSemanticSnapshot, SnapshotObservations, SnapshotBudget)

NothingToldTwice ==
    /\ \A context \in Injected \cup {Peeked} : Apart(SaysAgain, context.observations)
    /\ Apart(Repeats, captureSemanticSnapshot.observations)

(* Whatever the search finds, and whatever was forgotten, pruned, imported *)
(* and compacted before: what is injected into the next prompt, or shown   *)
(* by "mem peek", fits the token budget and is at most one observation     *)
(* more than maxObservations, and that only if the search may fill it; it  *)
(* says nothing twice: no observation twice, none of one session again     *)
(* within the window, and no message beside a compaction that was made of  *)
(* it ("context injection doesn't surface the same chat twice",            *)
(* observation-store.ts:83-84), unless an import brought it back.  So does *)
(* the semantic snapshot of a backup, but for compacted messages.  Of one  *)
(* session is what is filed under one id: messages that come without an    *)
(* id while no session is open are filed under an id of their own each     *)
(* (hooks/index.ts:186), and are told as often as they are sent.           *)
ContextIsSound == ContextFits /\ NothingToldTwice

(* However hooks, failures, restarts, forgetting and imports follow one    *)
(* another: of the observations that a summary of a session was made of,   *)
(* those that are still there are in its present summary too, unless two   *)
(* agent_end hooks of the session awaited their summaries at a time.       *)
SummaryNeverGoesBack ==
    \A s \in SessionIds \ overlapped :
        covered[s] \cap rows \subseteq summaries[s].covers

(* What is said or done in a session is filed under it, or under an id     *)
(* that is of no session of the agent, and the request in the summary of a *)
(* session is a message of that session, also when events come without the *)
(* id of their session, unless events of two sessions of the agent were    *)
(* mixed.                                                                  *)
RightSession ==
    ~mixed =>
        /\ \A i \in rows : table[i].session \in {table[i].of, Unknown} \cup MadeUp
        /\ \A s \in Sessions : summaries[s].request \in {s, Nobody}
=============================================================================
