-------------------------- MODULE ChatMemory_proofs --------------------------
(***************************************************************************)
(* What ChatMemory promises about every message, for every number of       *)
(* sessions, passes and messages: no message is lost, none is both raw and *)
(* summarised, and compacted_into tells the truth.  The three facts and    *)
(* the types are inductive together: a pass may only write what it read    *)
(* before its await because rows never become raw again.                   *)
(***************************************************************************)
EXTENDS ChatMemory, FiniteSetTheorems, WellFoundedInduction, SequenceTheorems, TLAPS

Inv == TypeOK /\ NothingLost /\ RawIsNotSummarised /\ ParentCovers

(* A pass only ever pulls raw rows. *)
LEMMA CompactableIsRaw == Compactable \subseteq Raw
BY DEF Compactable, Oldest

(* A pass that begins holds messages that have been captured. *)
LEMMA PullType ==
    ASSUME TypeOK, NEW p \in Passes, Pull(p)
    PROVE  batch' \in [Passes -> SUBSET Chats]
BY CompactableIsRaw DEF TypeOK, Pull, Raw

(* Appending a message or a compaction makes the next position. *)
LEMMA AppendFacts ==
    ASSUME NEW S, NEW s \in Seq(S), NEW x \in S
    PROVE  /\ Append(s, x) \in Seq(S)
           /\ Len(Append(s, x)) = Len(s) + 1
           /\ Len(s) \in Nat
           /\ DOMAIN s = 1..Len(s)
           /\ \A i \in 1..Len(s) : Append(s, x)[i] = s[i]
           /\ Append(s, x)[Len(s) + 1] = x
OBVIOUS

(* What capturing a message does to the table. *)
LEMMA CaptureFacts ==
    ASSUME TypeOK, NEW message \in Messages, Capture(message)
    PROVE  /\ captured' \in Seq(Row)
           /\ Len(captured') = Len(captured) + 1
           /\ Len(captured) \in Nat
           /\ into' \in [1..(Len(captured) + 1) -> 0..Len(compactions)]
           /\ \A m \in Chats : into'[m] = into[m]
           /\ into'[Len(captured) + 1] = 0
<1> DEFINE r == [session |-> message.session, epoch |-> now,
                 low |-> message.low]
<1>1. r \in Row
  BY ConstantsAssumption DEF TypeOK, Row
<1>2. captured \in Seq(Row) /\ captured' = Append(captured, r)
  BY DEF TypeOK, Capture
<1>3. /\ captured' \in Seq(Row)
      /\ Len(captured') = Len(captured) + 1
      /\ Len(captured) \in Nat
  BY <1>1, <1>2, AppendFacts
<1>4. into \in Seq(0..Len(compactions)) /\ Len(into) = Len(captured)
  <2>1. into \in [1..Len(captured) -> 0..Len(compactions)]
    BY DEF TypeOK, Chats
  <2>2. into \in Seq(0..Len(compactions))
    BY <1>3, <2>1, SeqDef
  <2>3. Len(into) \in Nat /\ DOMAIN into = 1..Len(into)
    BY <2>2, LenProperties
  <2>4. 1..Len(into) = 1..Len(captured)
    BY <2>1, <2>3
  <2> QED
    BY <1>3, <2>2, <2>3, <2>4
<1>5. into' = Append(into, 0) /\ 0 \in 0..Len(compactions)
  BY DEF TypeOK, Capture
<1>6. /\ into' \in Seq(0..Len(compactions))
      /\ Len(into') = Len(captured) + 1
      /\ \A m \in 1..Len(captured) : into'[m] = into[m]
      /\ into'[Len(captured) + 1] = 0
  BY <1>4, <1>5, AppendFacts
<1> QED
  BY <1>3, <1>6 DEF Chats

(* What a pass that finishes does to the table. *)
LEMMA FinishFacts ==
    ASSUME TypeOK, NEW p \in Passes, Finish(p)
    PROVE  /\ compactions' \in Seq(SUBSET Chats)
           /\ Len(compactions) \in Nat
           /\ DOMAIN compactions = 1..Len(compactions)
           /\ DOMAIN compactions' = 1..(Len(compactions) + 1)
           /\ \A c \in 1..Len(compactions) :
                 compactions'[c] = compactions[c]
           /\ compactions'[Len(compactions) + 1] = batch[p]
           /\ into' \in [Chats -> 0..(Len(compactions) + 1)]
           /\ \A m \in Chats :
                 into'[m] = IF m \in batch[p] \cap rows
                            THEN Len(compactions) + 1 ELSE into[m]
           /\ rows' \subseteq rows
           /\ \A m \in rows \ rows' : into'[m] # 0
           /\ Chats' = Chats
<1>1. /\ compactions \in Seq(SUBSET Chats)
      /\ batch[p] \in SUBSET Chats
      /\ compactions' = Append(compactions, batch[p])
  BY DEF TypeOK, Finish
<1>2. /\ compactions' \in Seq(SUBSET Chats)
      /\ Len(compactions') = Len(compactions) + 1
      /\ Len(compactions) \in Nat
      /\ DOMAIN compactions = 1..Len(compactions)
      /\ \A c \in 1..Len(compactions) : compactions'[c] = compactions[c]
      /\ compactions'[Len(compactions) + 1] = batch[p]
  BY <1>1, AppendFacts
<1>3. DOMAIN compactions' = 1..(Len(compactions) + 1)
  BY <1>2, AppendFacts, <1>1, LenProperties
<1>4. into' = [m \in Chats |-> IF m \in batch[p] \cap rows
                              THEN Len(compactions) + 1 ELSE into[m]]
  BY DEF Finish, Commit
<1>5. into \in [Chats -> 0..Len(compactions)]
  BY DEF TypeOK
<1>6. into' \in [Chats -> 0..(Len(compactions) + 1)]
  BY <1>2, <1>4, <1>5
<1>7. rows' \subseteq rows /\ \A m \in rows \ rows' : into'[m] # 0
  BY DEF Finish, Prunable
<1> QED
  BY <1>2, <1>3, <1>4, <1>6, <1>7 DEF Finish, Chats

-----------------------------------------------------------------------------
(* Every step keeps the types. *)
LEMMA NextType ==
    ASSUME TypeOK, [Next]_vars
    PROVE  TypeOK'
<1>1. ASSUME NEW message \in Messages, Capture(message)
      PROVE  TypeOK'
  <2>1. /\ Chats' = Chats \cup {Len(captured) + 1}
        /\ Len(captured) + 1 \notin Chats
        /\ Chats' = 1..(Len(captured) + 1)
    BY <1>1, CaptureFacts DEF Chats
  <2>2. rows' \subseteq Chats' /\ forgotten' \subseteq Chats' \ rows'
    BY <1>1, <2>1 DEF TypeOK, Capture
  <2>3. compactions' \in Seq(SUBSET Chats')
    <3>1. SUBSET Chats \subseteq SUBSET Chats'
      BY <2>1
    <3>2. compactions \in Seq(SUBSET Chats) /\ compactions' = compactions
      BY <1>1 DEF TypeOK, Capture
    <3>3. \A n \in Nat : [1..n -> SUBSET Chats] \subseteq [1..n -> SUBSET Chats']
      BY <3>1
    <3> QED
      BY <3>2, <3>3, SeqDef
  <2>4. counter' \in 0..(TriggerEvery - 1) /\ queued' \in Nat
    BY <1>1, ConstantsAssumption DEF TypeOK, Capture, Tick
  <2> QED
    BY <1>1, <2>1, <2>2, <2>3, <2>4, CaptureFacts DEF TypeOK, Capture, Chats
<1>2. ASSUME NEW p \in Passes, BeginQueued(p)
      PROVE  TypeOK'
  <2>1. batch' \in [Passes -> SUBSET Chats]
    BY <1>2, PullType DEF BeginQueued, PassBegins
  <2>2. atEnd' \subseteq {q \in Passes : batch'[q] # {}}
    BY <1>2 DEF TypeOK, BeginQueued, PassBegins, Pull
  <2> QED
    BY <1>2, <2>1, <2>2 DEF TypeOK, BeginQueued, PassBegins, Chats
<1>3. ASSUME NEW p \in Passes, AgentEnd(p)
      PROVE  TypeOK'
  <2>1. batch' \in [Passes -> SUBSET Chats]
    BY <1>3, PullType DEF AgentEnd, PassBegins
  <2>2. atEnd' \subseteq {q \in Passes : batch'[q] # {}}
    BY <1>3 DEF TypeOK, AgentEnd, PassBegins, Pull
  <2> QED
    BY <1>3, <2>1, <2>2 DEF TypeOK, AgentEnd, PassBegins, Chats
<1>4. ASSUME NEW p \in Passes, Finish(p)
      PROVE  TypeOK'
  <2>1. Len(compactions') = Len(compactions) + 1
    BY <1>4, FinishFacts, LenProperties
  <2>2. counter' \in 0..(TriggerEvery - 1) /\ dropped' \in Nat
    BY <1>4, ConstantsAssumption DEF TypeOK, Finish
  <2>3. batch' \in [Passes -> SUBSET Chats]
    BY <1>4 DEF TypeOK, Finish
  <2>4. atEnd' \subseteq {q \in Passes : batch'[q] # {}}
    BY <1>4 DEF TypeOK, Finish
  <2> QED
    BY <1>4, <2>1, <2>2, <2>3, <2>4, FinishFacts DEF TypeOK, Finish
<1>5. ASSUME NEW p \in Passes, Fail(p)
      PROVE  TypeOK'
  BY <1>5 DEF TypeOK, Fail, Chats
<1>6. ASSUME NEW s \in Sessions, Forget(s)
      PROVE  TypeOK'
  BY <1>6 DEF TypeOK, Forget, Chats
<1>7. CASE Restart
  BY <1>7, ConstantsAssumption DEF TypeOK, Restart, Chats
<1>8. CASE ClockTicks
  BY <1>8, ConstantsAssumption DEF TypeOK, ClockTicks, Chats
<1>9. CASE UNCHANGED vars
  BY <1>9 DEF TypeOK, vars, Chats
<1> QED
  BY <1>1, <1>2, <1>3, <1>4, <1>5, <1>6, <1>7, <1>8, <1>9 DEF Next

(* The three facts are about the table only. *)
LEMMA TableKept ==
    ASSUME Inv, UNCHANGED <<captured, into, rows, forgotten, compactions>>
    PROVE  NothingLost' /\ RawIsNotSummarised' /\ ParentCovers'
BY DEF Inv, NothingLost, RawIsNotSummarised, ParentCovers, Raw, Chats

(* Every step keeps the three facts. *)
LEMMA NextInv ==
    ASSUME Inv, [Next]_vars
    PROVE  NothingLost' /\ RawIsNotSummarised' /\ ParentCovers'
<1> USE DEF NothingLost, RawIsNotSummarised, ParentCovers, Raw
<1>0. TypeOK
  BY DEF Inv
<1>1. ASSUME NEW message \in Messages, Capture(message)
      PROVE  NothingLost' /\ RawIsNotSummarised' /\ ParentCovers'
  <2> DEFINE new == Len(captured) + 1
  <2>1. /\ Chats' = Chats \cup {new} /\ new \notin Chats
        /\ \A m \in Chats : into'[m] = into[m]
        /\ into'[new] = 0
    BY <1>0, <1>1, CaptureFacts DEF Chats
  <2>2. rows' = rows \cup {new} /\ UNCHANGED <<forgotten, compactions>>
    BY <1>1 DEF Capture
  <2>3. \A c \in DOMAIN compactions : compactions[c] \subseteq Chats
    BY <1>0 DEF TypeOK
  <2>4. rows \subseteq Chats
    BY <1>0 DEF TypeOK
  <2>5. new \in Raw'
    BY <2>1, <2>2
  <2>6. Raw' = Raw \cup {new}
    BY <2>1, <2>2, <2>4
  <2>7. NothingLost'
    BY <2>1, <2>2, <2>6 DEF Inv
  <2>8. RawIsNotSummarised'
    BY <2>1, <2>2, <2>3, <2>6 DEF Inv
  <2>9. ParentCovers'
    BY <2>1, <2>2, <2>4 DEF Inv
  <2> QED
    BY <2>7, <2>8, <2>9
<1>2. ASSUME NEW p \in Passes, BeginQueued(p) \/ AgentEnd(p) \/ Fail(p)
      PROVE  NothingLost' /\ RawIsNotSummarised' /\ ParentCovers'
  BY <1>2, TableKept DEF BeginQueued, AgentEnd, PassBegins, Fail
<1>3. ASSUME NEW p \in Passes, Finish(p)
      PROVE  NothingLost' /\ RawIsNotSummarised' /\ ParentCovers'
  <2> DEFINE last == Len(compactions) + 1
  <2>1. rows \subseteq Chats /\ forgotten' = forgotten
    BY <1>0, <1>3 DEF TypeOK, Finish
  <2>2. Len(compactions) \in Nat /\ last # 0
    BY <1>0, <1>3, FinishFacts
  <2>3. NothingLost'
    <3> SUFFICES ASSUME NEW m \in Chats, m \notin forgotten
                 PROVE  \/ m \in Raw'
                        \/ \E c \in DOMAIN compactions' : m \in compactions'[c]
      BY <1>0, <1>3, <2>1, FinishFacts
    <3>1. CASE \E c \in DOMAIN compactions : m \in compactions[c]
      BY <1>0, <1>3, <3>1, FinishFacts
    <3>2. CASE m \in batch[p]
      BY <1>0, <1>3, <2>2, <3>2, FinishFacts
    <3>3. CASE m \in Raw /\ m \notin batch[p]
      <4>1. into'[m] = 0
        BY <1>0, <1>3, <3>3, FinishFacts
      <4> QED
        BY <1>0, <1>3, <3>3, <4>1, FinishFacts
    <3> QED
      BY <3>1, <3>2, <3>3 DEF Inv
  <2>4. RawIsNotSummarised'
    <3> SUFFICES ASSUME NEW m \in Raw', NEW c \in DOMAIN compactions'
                 PROVE  m \notin compactions'[c]
      OBVIOUS
    <3>1. m \in rows /\ m \in Chats
      BY <1>0, <1>3, <2>1, FinishFacts
    <3>2. m \notin batch[p] /\ into[m] = 0
      BY <1>0, <1>3, <2>2, <3>1, FinishFacts
    <3>3. CASE c = last
      BY <1>0, <1>3, <3>2, <3>3, FinishFacts
    <3>4. CASE c \in 1..Len(compactions)
      <4>1. compactions'[c] = compactions[c] /\ c \in DOMAIN compactions
        BY <1>0, <1>3, <3>4, FinishFacts
      <4> QED
        BY <3>1, <3>2, <4>1 DEF Inv
    <3>5. c \in 1..last
      BY <1>0, <1>3, FinishFacts
    <3> QED
      BY <2>2, <3>3, <3>4, <3>5
  <2>5. ParentCovers'
    <3> SUFFICES ASSUME NEW m \in rows', into'[m] # 0
                 PROVE  m \in compactions'[into'[m]]
      OBVIOUS
    <3>1. m \in rows /\ m \in Chats
      BY <1>0, <1>3, <2>1, FinishFacts
    <3>2. CASE m \in batch[p]
      BY <1>0, <1>3, <3>1, <3>2, FinishFacts
    <3>3. CASE m \notin batch[p]
      <4>1. into'[m] = into[m]
        BY <1>0, <1>3, <3>1, <3>3, FinishFacts
      <4>2. into[m] \in 1..Len(compactions)
        BY <1>0, <2>2, <3>1, <4>1 DEF TypeOK
      <4>3. compactions'[into[m]] = compactions[into[m]]
        BY <1>0, <1>3, <4>2, FinishFacts
      <4> QED
        BY <3>1, <4>1, <4>3 DEF Inv
    <3> QED
      BY <3>2, <3>3
  <2> QED
    BY <2>3, <2>4, <2>5
<1>4. ASSUME NEW s \in Sessions, Forget(s)
      PROVE  NothingLost' /\ RawIsNotSummarised' /\ ParentCovers'
  <2>1. /\ rows' \subseteq rows
        /\ forgotten' = forgotten \cup (rows \ rows')
        /\ UNCHANGED <<captured, into, compactions>>
    BY <1>4 DEF Forget
  <2> QED
    BY <2>1 DEF Inv, Chats
<1>5. CASE Restart \/ ClockTicks \/ UNCHANGED vars
  BY <1>5, TableKept DEF Restart, ClockTicks, vars
<1> QED
  BY <1>1, <1>2, <1>3, <1>4, <1>5 DEF Next

(* Nothing is captured yet. *)
LEMMA InitInv == Init => Inv
<1> SUFFICES ASSUME Init PROVE Inv
  OBVIOUS
<1>1. Len(<<>>) = 0 /\ <<>> \in Seq(Row) /\ <<>> \in Seq(SUBSET {})
  OBVIOUS
<1>2. Chats = {}
  BY <1>1 DEF Init, Chats
<1>3. TypeOK
  <2>1. into \in [Chats -> 0..Len(compactions)]
    BY <1>2 DEF Init
  <2>2. counter \in 0..(TriggerEvery - 1) /\ now \in 0..MaxSeconds
    BY ConstantsAssumption DEF Init
  <2> QED
    BY <1>1, <1>2, <2>1, <2>2 DEF Init, TypeOK
<1> QED
  BY <1>2, <1>3
     DEF Init, Inv, NothingLost, RawIsNotSummarised, ParentCovers, Raw

LEMMA InvAlways == Spec => []Inv
<1>1. Inv /\ [Next]_vars => Inv'
  BY NextType, NextInv DEF Inv
<1> QED
  BY <1>1, InitInv, PTL DEF Spec

-----------------------------------------------------------------------------
(* The order of the messages *)

(* By seconds, and of one second the last one first. *)
LEMMA OlderIsOrder ==
    ASSUME TypeOK, NEW x \in Chats, NEW y \in Chats, NEW z \in Chats
    PROVE  /\ ~Older(x, x)
           /\ Older(x, y) /\ Older(y, z) => Older(x, z)
           /\ Older(x, y) \/ Older(y, x) \/ x = y
           /\ ~(Older(x, y) /\ Older(y, x))
<1>1. captured \in Seq(Row) /\ Len(captured) \in Nat /\ DOMAIN captured = 1..Len(captured)
  BY LenProperties DEF TypeOK
<1>2. \A m \in Chats : m \in Nat /\ captured[m].epoch \in Nat
  <2>1. \A m \in Chats : captured[m] \in Row
    BY <1>1, ElementOfSeq DEF Chats
  <2>q. QED
    BY <1>1, <2>1, ConstantsAssumption DEF Chats, Row
<1>q. QED
  BY <1>2 DEF Older

LEMMA ChatsFinite ==
    ASSUME TypeOK, NEW S \in SUBSET Chats
    PROVE  IsFiniteSet(S) /\ Cardinality(S) \in Nat
<1>1. Len(captured) \in Nat
  BY LenProperties DEF TypeOK
<1>2. IsFiniteSet(Chats)
  BY <1>1, FS_Interval DEF Chats
<1>q. QED
  BY <1>2, FS_Subset, FS_CardinalityType

(* A set of messages is at least as large as those in it.                  *)
LEMMA LargerSet ==
    ASSUME TypeOK, NEW S \in SUBSET Chats, NEW T \in SUBSET S
    PROVE  Cardinality(T) <= Cardinality(S)
BY ChatsFinite, FS_Subset

(* The messages of S that are more recent than m, and those that are less. *)
NewerIn(S, m) == {n \in S : Older(m, n)}
OlderIn(S, m) == {n \in S : Older(n, m)}

LEMMA NewestExists ==
    ASSUME TypeOK, NEW S \in SUBSET Chats, S # {}
    PROVE  \E b \in S : NewerIn(S, b) = {}
<1> DEFINE R == StrictSubsetOrdering(Chats)
           F == {NewerIn(S, b) : b \in S}
<1>1. IsWellFoundedOn(R, FiniteSubsetsOf(Chats))
  BY FS_StrictSubsetOrderingWellFounded
<1>2. F \subseteq FiniteSubsetsOf(Chats)
  <2>1. \A b \in S : NewerIn(S, b) \in SUBSET Chats
    BY DEF NewerIn
  <2>q. QED
    BY <2>1, ChatsFinite DEF FiniteSubsetsOf
<1>3. PICK x \in F : \A y \in F : <<y, x>> \notin R
  <2> HIDE DEF R
  <2>1. F # {}
    OBVIOUS
  <2> HIDE DEF F
  <2>q. QED
    BY <1>1, <1>2, <2>1, WFMin
<1>4. PICK b \in S : x = NewerIn(S, b)
  OBVIOUS
<1>5. ASSUME NEW n \in NewerIn(S, b) PROVE FALSE
  <2>1. n \in S /\ Older(b, n) /\ n \in Chats /\ b \in Chats
    BY <1>5 DEF NewerIn
  <2>2. NewerIn(S, n) \subseteq NewerIn(S, b)
    BY <2>1, OlderIsOrder DEF NewerIn
  <2>3. n \notin NewerIn(S, n)
    BY <2>1, OlderIsOrder DEF NewerIn
  <2>4. <<NewerIn(S, n), x>> \in R
    <3>1. x \subseteq Chats
      BY <1>4 DEF NewerIn
    <3>q. QED
      BY <1>4, <1>5, <2>2, <2>3, <3>1 DEF StrictSubsetOrdering
  <2>5. NewerIn(S, n) \in F
    BY <2>1
  <2>q. QED
    BY <1>3, <2>4, <2>5
<1>q. QED
  BY <1>5

LEMMA OldestExists ==
    ASSUME TypeOK, NEW S \in SUBSET Chats, S # {}
    PROVE  \E b \in S : OlderIn(S, b) = {}
<1> DEFINE R == StrictSubsetOrdering(Chats)
           F == {OlderIn(S, b) : b \in S}
<1>1. IsWellFoundedOn(R, FiniteSubsetsOf(Chats))
  BY FS_StrictSubsetOrderingWellFounded
<1>2. F \subseteq FiniteSubsetsOf(Chats)
  <2>1. \A b \in S : OlderIn(S, b) \in SUBSET Chats
    BY DEF OlderIn
  <2>q. QED
    BY <2>1, ChatsFinite DEF FiniteSubsetsOf
<1>3. PICK x \in F : \A y \in F : <<y, x>> \notin R
  <2> HIDE DEF R
  <2>1. F # {}
    OBVIOUS
  <2> HIDE DEF F
  <2>q. QED
    BY <1>1, <1>2, <2>1, WFMin
<1>4. PICK b \in S : x = OlderIn(S, b)
  OBVIOUS
<1>5. ASSUME NEW n \in OlderIn(S, b) PROVE FALSE
  <2>1. n \in S /\ Older(n, b) /\ n \in Chats /\ b \in Chats
    BY <1>5 DEF OlderIn
  <2>2. OlderIn(S, n) \subseteq OlderIn(S, b)
    BY <2>1, OlderIsOrder DEF OlderIn
  <2>3. n \notin OlderIn(S, n)
    BY <2>1, OlderIsOrder DEF OlderIn
  <2>4. <<OlderIn(S, n), x>> \in R
    <3>1. x \subseteq Chats
      BY <1>4 DEF OlderIn
    <3>q. QED
      BY <1>4, <1>5, <2>2, <2>3, <3>1 DEF StrictSubsetOrdering
  <2>5. OlderIn(S, n) \in F
    BY <2>1
  <2>q. QED
    BY <1>3, <2>4, <2>5
<1>q. QED
  BY <1>5

(* The newest k messages are no more than k. *)
LEMMA NewestIsSmall ==
    ASSUME TypeOK, NEW S \in SUBSET Chats, NEW k \in Nat
    PROVE  Cardinality(Newest(S, k)) <= k
<1>1. Newest(S, k) \in SUBSET Chats /\ Newest(S, k) \subseteq S
  BY DEF Newest
<1>2. CASE Newest(S, k) = {}
  BY <1>2, FS_EmptySet
<1>3. CASE Newest(S, k) # {}
  <2>1. PICK b \in Newest(S, k) : OlderIn(Newest(S, k), b) = {}
    BY <1>1, <1>3, OldestExists
  <2>2. Newest(S, k) \ {b} \subseteq NewerIn(S, b)
    <3>1. SUFFICES ASSUME NEW n \in Newest(S, k) \ {b} PROVE n \in NewerIn(S, b)
      OBVIOUS
    <3>2. ~Older(n, b)
      BY <2>1, <3>1 DEF OlderIn
    <3>q. QED
      BY <1>1, <3>1, <3>2, OlderIsOrder DEF NewerIn
  <2>3. Cardinality(NewerIn(S, b)) < k
    BY DEF Newest, NewerIn
  <2>4. NewerIn(S, b) \in SUBSET Chats
    BY DEF NewerIn
  <2>5. Cardinality(Newest(S, k) \ {b}) <= Cardinality(NewerIn(S, b))
    BY <2>2, <2>4, LargerSet
  <2>6. Cardinality(Newest(S, k) \ {b}) = Cardinality(Newest(S, k)) - 1
    BY <1>1, ChatsFinite, FS_RemoveElement
  <2>7. Cardinality(Newest(S, k)) \in Nat /\ Cardinality(NewerIn(S, b)) \in Nat
    BY <1>1, <2>4, ChatsFinite
  <2>q. QED
    BY <2>3, <2>5, <2>6, <2>7
<1>q. QED
  BY <1>2, <1>3

(* A pass that finds no more than it pulls leaves the newest ones only. *)
LEMMA AllPulled ==
    ASSUME TypeOK, Cardinality(Raw) <= PullLimit
    PROVE  Raw \ Compactable = Newest(Raw, KeepRecent)
<1>1. Raw \in SUBSET Chats
  BY DEF TypeOK, Raw
<1>2. PullLimit \in Nat
  BY ConstantsAssumption DEF PullLimit, Smaller
<1>3. ASSUME NEW m \in Raw PROVE Cardinality(OlderIn(Raw, m)) < PullLimit
  <2>1. OlderIn(Raw, m) \subseteq Raw \ {m}
    BY <1>1, OlderIsOrder DEF OlderIn
  <2>2. Cardinality(OlderIn(Raw, m)) <= Cardinality(Raw \ {m})
    BY <1>1, <2>1, LargerSet
  <2>3. Cardinality(Raw \ {m}) = Cardinality(Raw) - 1
    BY <1>1, ChatsFinite, FS_RemoveElement
  <2>4. Cardinality(Raw) \in Nat /\ Cardinality(OlderIn(Raw, m)) \in Nat
    BY <1>1, <2>1, ChatsFinite
  <2>q. QED
    BY <1>2, <2>2, <2>3, <2>4
<1>4. Oldest(Raw, PullLimit) = Raw
  BY <1>3 DEF Oldest, OlderIn
<1>5. Newest(Raw, KeepRecent) \subseteq Raw
  BY DEF Newest
<1>q. QED
  BY <1>4, <1>5 DEF Compactable

-----------------------------------------------------------------------------
(* The recent messages *)

(* What a pass has in its hands, and what none will mark without pulling   *)
(* it first.                                                               *)
Held == UNION {batch[p] : p \in Passes}
Spare == (Raw \ Held) \cup {f \in forgotten : into[f] = 0}

(* The rows newer than a marked one are kept by passes that did not begin  *)
(* yet: a pass pulls some of them only if as many newer ones remain.       *)
TailInv ==
    \A m \in Chats :
        into[m] # 0 \/ m \in Held => Cardinality(NewerIn(Spare, m)) >= KeepRecent

LEMMA SpareIsChats == TypeOK => Spare \in SUBSET Chats /\ Held \in SUBSET Chats
  BY DEF TypeOK, Spare, Raw, Held

(* Nothing more is marked or held, and no less is spare. *)
LEMMA TailKept ==
    ASSUME TypeOK, TypeOK', TailInv, Chats \subseteq Chats', Spare \subseteq Spare',
           \A m \in Chats : captured'[m] = captured[m],
           \A m \in Chats' : into'[m] # 0 \/ m \in Held'
                                => m \in Chats /\ (into[m] # 0 \/ m \in Held)
    PROVE  TailInv'
<1>1. SUFFICES ASSUME NEW m \in Chats', into'[m] # 0 \/ m \in Held'
               PROVE  Cardinality(NewerIn(Spare, m)') >= KeepRecent
  BY DEF TailInv
<1>2. m \in Chats /\ (into[m] # 0 \/ m \in Held)
  BY <1>1
<1>3. NewerIn(Spare, m) \subseteq NewerIn(Spare, m)'
  BY <1>2, SpareIsChats DEF NewerIn, Older
<1>4. NewerIn(Spare, m) \in SUBSET Chats /\ NewerIn(Spare, m)' \in SUBSET Chats'
  BY SpareIsChats DEF NewerIn, TypeOK, Spare, Raw
<1>5. IsFiniteSet(NewerIn(Spare, m)') /\ Cardinality(NewerIn(Spare, m)') \in Nat
  <2>1. captured' \in Seq(Row)'
    BY DEF TypeOK
  <2>2. Len(captured') \in Nat
    BY <2>1, LenProperties
  <2>3. IsFiniteSet(Chats')
    BY <2>2, FS_Interval DEF Chats
  <2>q. QED
    BY <1>4, <2>3, FS_Subset, FS_CardinalityType
<1>6. Cardinality(NewerIn(Spare, m)) <= Cardinality(NewerIn(Spare, m)')
  BY <1>3, <1>5, FS_Subset
<1>7. Cardinality(NewerIn(Spare, m)) >= KeepRecent /\ Cardinality(NewerIn(Spare, m)) \in Nat
  BY <1>2, <1>4, ChatsFinite DEF TailInv
<1>q. QED
  BY <1>5, <1>6, <1>7, ConstantsAssumption

(* The only way out of Spare: a pass begins.  As many rows as it keeps are *)
(* newer than all it takes, and if another pass holds one of those, then   *)
(* as many that are newer still are spare.                                 *)
LEMMA PullTail ==
    ASSUME TypeOK, TailInv, NEW p \in Passes, PassBegins(p),
           UNCHANGED <<captured, into, rows, forgotten>>
    PROVE  TailInv'
<1> DEFINE pulled == Oldest(Raw, PullLimit)
           Enough(S, m) == Cardinality(NewerIn(S, m)) >= KeepRecent
<1>1. /\ batch' = [batch EXCEPT ![p] = Compactable] /\ batch[p] = {}
      /\ batch \in [Passes -> SUBSET Chats]
  BY DEF PassBegins, Pull, TypeOK
<1>2. Held' = Held \cup Compactable
  <2>1. \A q \in Passes : batch'[q] = IF q = p THEN Compactable ELSE batch[q]
    BY <1>1
  <2>q. QED
    BY <1>1, <2>1 DEF Held
<1>3. Raw' = Raw /\ Chats' = Chats /\ \A m, n : Older(m, n)' = Older(m, n)
  BY DEF Raw, Chats, Older
<1>4. Compactable \subseteq Raw /\ pulled \subseteq Raw /\ Raw \subseteq Chats
  BY CompactableIsRaw DEF Oldest, TypeOK, Raw
<1>5. Spare' = Spare \ Compactable
  <2>1. \A f \in forgotten : f \notin rows
    BY DEF TypeOK
  <2>q. QED
    BY <1>2, <1>3, <1>4, <2>1 DEF Spare, Raw
<1>6. SUFFICES \A m \in Chats : into[m] # 0 \/ m \in Held \cup Compactable
                    => Enough(Spare \ Compactable, m)
  BY <1>2, <1>3, <1>5 DEF TailInv, NewerIn
<1>7. CASE Compactable = {}
  <2>1. Spare \ Compactable = Spare /\ Held \cup Compactable = Held
    BY <1>7
  <2>q. QED
    BY <2>1 DEF TailInv
<1>8. CASE Compactable # {}
  <2>1. PICK b \in Compactable : NewerIn(Compactable, b) = {}
    BY <1>4, <1>8, NewestExists
  <2>2. b \in Chats
    BY <1>4
  <2>3. Spare \ Compactable \in SUBSET Chats
    BY SpareIsChats
  <2>4. b \in pulled /\ ~(Cardinality(NewerIn(pulled, b)) < KeepRecent)
    BY DEF Compactable, Newest, NewerIn
  <2>5. \A n : Older(b, n) => n \notin Compactable
    BY <2>1 DEF NewerIn
  <2>6. Enough(Spare \ Compactable, b)
    <3>1. CASE NewerIn(pulled, b) \subseteq Spare
      <4>1. NewerIn(pulled, b) \subseteq NewerIn(Spare \ Compactable, b)
        BY <2>5, <3>1 DEF NewerIn
      <4>2. NewerIn(Spare \ Compactable, b) \in SUBSET Chats /\ NewerIn(pulled, b) \in SUBSET Chats
        BY <1>4, <2>3 DEF NewerIn
      <4>3. Cardinality(NewerIn(pulled, b)) <= Cardinality(NewerIn(Spare \ Compactable, b))
        BY <4>1, <4>2, LargerSet
      <4>4. /\ Cardinality(NewerIn(Spare \ Compactable, b)) \in Nat
            /\ Cardinality(NewerIn(pulled, b)) \in Nat
        BY <4>2, ChatsFinite
      <4>q. QED
        BY <2>4, <4>3, <4>4, ConstantsAssumption
    <3>2. CASE ~(NewerIn(pulled, b) \subseteq Spare)
      <4>1. PICK x \in NewerIn(pulled, b) : x \notin Spare
        BY <3>2
      <4>2. x \in Raw /\ x \in Chats /\ Older(b, x)
        BY <1>4, <4>1 DEF NewerIn
      <4>3. x \in Held
        BY <4>1, <4>2 DEF Spare
      <4>4. Enough(Spare, x)
        BY <4>2, <4>3 DEF TailInv
      <4>5. NewerIn(Spare, x) \subseteq NewerIn(Spare \ Compactable, b)
        <5>1. SUFFICES ASSUME NEW n \in Spare, Older(x, n)
                       PROVE  Older(b, n) /\ n \notin Compactable
          BY DEF NewerIn
        <5>2. Older(b, n)
          BY <2>2, <4>2, <5>1, SpareIsChats, OlderIsOrder
        <5>q. QED
          BY <2>5, <5>2
      <4>6. NewerIn(Spare \ Compactable, b) \in SUBSET Chats /\ NewerIn(Spare, x) \in SUBSET Chats
        BY SpareIsChats DEF NewerIn
      <4>7. Cardinality(NewerIn(Spare, x)) <= Cardinality(NewerIn(Spare \ Compactable, b))
        BY <4>5, <4>6, LargerSet
      <4>8. /\ Cardinality(NewerIn(Spare \ Compactable, b)) \in Nat
            /\ Cardinality(NewerIn(Spare, x)) \in Nat
        BY <4>6, ChatsFinite
      <4>q. QED
        BY <4>4, <4>7, <4>8, ConstantsAssumption
    <3>q. QED
      BY <3>1, <3>2
  <2>7. ASSUME NEW m \in Chats, Older(m, b) PROVE Enough(Spare \ Compactable, m)
    <3>1. NewerIn(Spare \ Compactable, b) \subseteq NewerIn(Spare \ Compactable, m)
      BY <2>2, <2>3, <2>7, OlderIsOrder DEF NewerIn
    <3>2. /\ NewerIn(Spare \ Compactable, b) \in SUBSET Chats
          /\ NewerIn(Spare \ Compactable, m) \in SUBSET Chats
      BY <2>3 DEF NewerIn
    <3>3. /\ Cardinality(NewerIn(Spare \ Compactable, b))
                <= Cardinality(NewerIn(Spare \ Compactable, m))
          /\ Cardinality(NewerIn(Spare \ Compactable, b)) \in Nat
          /\ Cardinality(NewerIn(Spare \ Compactable, m)) \in Nat
      BY <3>1, <3>2, LargerSet, ChatsFinite
    <3>q. QED
      BY <2>6, <3>3, ConstantsAssumption
  <2>8. ASSUME NEW m \in Compactable PROVE Enough(Spare \ Compactable, m)
    <3>1. m \in Chats /\ ~Older(b, m)
      BY <1>4, <2>5, <2>8
    <3>2. m = b \/ Older(m, b)
      BY <2>2, <3>1, OlderIsOrder
    <3>q. QED
      BY <2>6, <2>7, <3>1, <3>2
  <2>9. ASSUME NEW m \in Chats, Enough(Spare, m) PROVE Enough(Spare \ Compactable, m)
    <3>1. CASE NewerIn(Spare, m) \cap Compactable = {}
      <4>1. NewerIn(Spare, m) = NewerIn(Spare \ Compactable, m)
        BY <3>1 DEF NewerIn
      <4>q. QED
        BY <2>9, <4>1
    <3>2. CASE NewerIn(Spare, m) \cap Compactable # {}
      <4>1. PICK n \in Compactable : Older(m, n) /\ n \in Chats
        BY <1>4, <3>2 DEF NewerIn
      <4>2. n = b \/ Older(n, b)
        BY <2>2, <2>5, <4>1, OlderIsOrder
      <4>3. Older(m, b)
        BY <2>2, <2>9, <4>1, <4>2, OlderIsOrder
      <4>q. QED
        BY <2>7, <2>9, <4>3
    <3>q. QED
      BY <3>1, <3>2
  <2>q. QED
    BY <1>4, <2>8, <2>9 DEF TailInv
<1>q. QED
  BY <1>7, <1>8

LEMMA TailStep ==
    ASSUME TypeOK, TypeOK', TailInv, [Next]_vars
    PROVE  TailInv'
<1>0. \A f \in forgotten : f \notin rows /\ f \in Chats
  BY DEF TypeOK
<1>1. ASSUME NEW message \in Messages, Capture(message) PROVE TailInv'
  <2> DEFINE new == Len(captured) + 1
  <2>1. /\ Chats' = Chats \cup {new} /\ new \notin Chats
        /\ \A m \in Chats : into'[m] = into[m]
        /\ into'[new] = 0
    BY <1>1, CaptureFacts DEF Chats
  <2>2. rows' = rows \cup {new} /\ UNCHANGED <<forgotten, batch>> /\ rows \subseteq Chats
    BY <1>1 DEF Capture, TypeOK
  <2>3. \A m \in Chats : captured'[m] = captured[m]
    <3>1. captured' = Append(captured, [session |-> message.session, epoch |-> now,
                                        low |-> message.low])
      BY <1>1 DEF Capture
    <3>2. captured \in Seq(Row) /\ Len(captured) \in Nat
      BY LenProperties DEF TypeOK
    <3>q. QED
      BY <3>1, <3>2 DEF Chats
  <2>4. Held' = Held /\ Held \subseteq Chats
    BY <2>2, SpareIsChats DEF Held
  <2>5. Spare \subseteq Spare'
    BY <1>0, <2>1, <2>2, <2>4 DEF Spare, Raw
  <2>6. \A m \in Chats' : into'[m] # 0 \/ m \in Held' => m \in Chats /\ (into[m] # 0 \/ m \in Held)
    BY <2>1, <2>4
  <2>q. QED
    BY <2>1, <2>3, <2>5, <2>6, TailKept
<1>2. ASSUME NEW p \in Passes, BeginQueued(p) \/ AgentEnd(p) PROVE TailInv'
  BY <1>2, PullTail DEF BeginQueued, AgentEnd
<1>3. ASSUME NEW p \in Passes, Finish(p) PROVE TailInv'
  <2>1. /\ captured' = captured /\ forgotten' = forgotten /\ Chats' = Chats
        /\ batch' = [batch EXCEPT ![p] = {}] /\ batch \in [Passes -> SUBSET Chats]
    BY <1>3, FinishFacts DEF Finish, TypeOK
  <2>2. Held' \subseteq Held /\ batch[p] \subseteq Held
    <3>1. \A q \in Passes : batch'[q] = IF q = p THEN {} ELSE batch[q]
      BY <2>1
    <3>q. QED
      BY <3>1 DEF Held
  <2>3. \A m \in Chats : m \notin batch[p] \cap rows => into'[m] = into[m]
    BY <1>3, FinishFacts
  <2>4. Spare \subseteq Spare'
    <3>1. SUFFICES ASSUME NEW m \in Spare PROVE m \in Spare'
      OBVIOUS
    <3>2. CASE m \in forgotten /\ into[m] = 0
      BY <1>0, <2>1, <2>3, <3>2 DEF Spare
    <3>3. CASE m \in Raw \ Held
      <4>1. m \in rows /\ into'[m] = 0
        BY <2>2, <2>3, <3>3 DEF Raw, TypeOK
      <4>2. m \in rows'
        BY <1>3, <4>1, FinishFacts
      <4>q. QED
        BY <2>2, <3>3, <4>1, <4>2 DEF Spare, Raw
    <3>q. QED
      BY <3>1, <3>2, <3>3 DEF Spare
  <2>5. \A m \in Chats : into'[m] # 0 \/ m \in Held' => into[m] # 0 \/ m \in Held
    BY <2>2, <2>3
  <2>q. QED
    BY <2>1, <2>4, <2>5, TailKept
<1>4. ASSUME NEW p \in Passes, Fail(p) PROVE TailInv'
  <2>1. /\ UNCHANGED <<captured, forgotten, into, rows>> /\ Chats' = Chats
        /\ batch' = [batch EXCEPT ![p] = {}] /\ batch \in [Passes -> SUBSET Chats]
    BY <1>4 DEF Fail, TypeOK, Chats
  <2>2. Held' \subseteq Held
    <3>1. \A q \in Passes : batch'[q] = IF q = p THEN {} ELSE batch[q]
      BY <2>1
    <3>q. QED
      BY <3>1 DEF Held
  <2>q. QED
    BY <2>1, <2>2, TailKept DEF Spare, Raw
<1>5. ASSUME NEW s \in Sessions, Forget(s) PROVE TailInv'
  <2>1. /\ UNCHANGED <<captured, into, batch>> /\ Chats' = Chats
        /\ rows' \subseteq rows /\ forgotten' = forgotten \cup (rows \ rows')
    BY <1>5 DEF Forget, Chats
  <2>2. Held' = Held
    BY <2>1 DEF Held
  <2>q. QED
    BY <2>1, <2>2, TailKept DEF Spare, Raw
<1>6. CASE Restart
  <2>1. /\ UNCHANGED <<captured, forgotten, into, rows>> /\ Chats' = Chats
        /\ batch' = [p \in Passes |-> {}]
    BY <1>6 DEF Restart, Chats
  <2>2. Held' = {}
    BY <2>1 DEF Held
  <2>q. QED
    BY <2>1, <2>2, TailKept DEF Spare, Raw
<1>7. CASE ClockTicks \/ UNCHANGED vars
  <2>1. UNCHANGED <<captured, forgotten, into, rows, batch>> /\ Chats' = Chats
    BY <1>7 DEF ClockTicks, vars, Chats
  <2>2. Held' = Held
    BY <2>1 DEF Held
  <2>q. QED
    BY <2>1, <2>2, TailKept DEF Spare, Raw
<1>q. QED
  BY <1>1, <1>2, <1>3, <1>4, <1>5, <1>6, <1>7 DEF Next

LEMMA TailShown == TypeOK /\ TailInv => TailIsKept
<1> SUFFICES ASSUME TypeOK, TailInv, NEW m \in Chats, into[m] # 0
             PROVE  Cardinality({n \in Raw \cup {f \in forgotten : into[f] = 0} : Older(m, n)})
                        >= KeepRecent
  BY DEF TailIsKept
<1> DEFINE R == {n \in Raw \cup {f \in forgotten : into[f] = 0} : Older(m, n)}
<1>1. NewerIn(Spare, m) \subseteq R
  BY DEF NewerIn, Spare
<1>2. R \in SUBSET Chats
  BY DEF Raw, TypeOK
<1>3. /\ Cardinality(NewerIn(Spare, m)) <= Cardinality(R)
      /\ Cardinality(R) \in Nat /\ Cardinality(NewerIn(Spare, m)) \in Nat
  <2> HIDE DEF R
  <2>q. QED
    BY <1>1, <1>2, LargerSet, ChatsFinite
<1>4. Cardinality(NewerIn(Spare, m)) >= KeepRecent
  BY DEF TailInv
<1>q. QED
  BY <1>3, <1>4, ConstantsAssumption

-----------------------------------------------------------------------------
(* The backlog *)

(* With no pass queued, what no pass has in its hands was captured since   *)
(* the last of them began, or is among the messages that it kept.          *)
BacklogInv ==
    ~disturbed /\ ~overrun /\ queued = 0
        => Cardinality(Raw \ Held) <= KeepRecent + counter + dropped

LEMMA BacklogStep ==
    ASSUME TypeOK, TypeOK', BacklogInv, [Next]_vars
    PROVE  BacklogInv'
<1> DEFINE Free == Raw \ Held
<1>0. /\ Raw \in SUBSET Chats /\ counter \in Nat /\ dropped \in Nat /\ KeepRecent \in Nat
      /\ queued \in Nat /\ Cardinality(Free) \in Nat
  <2>1. Raw \in SUBSET Chats
    BY DEF TypeOK, Raw
  <2>q. QED
    BY <2>1, ChatsFinite, ConstantsAssumption DEF TypeOK
<1>1. ASSUME NEW message \in Messages, Capture(message) PROVE BacklogInv'
  <2> DEFINE new == Len(captured) + 1
  <2>1. /\ Chats' = Chats \cup {new} /\ new \notin Chats
        /\ \A m \in Chats : into'[m] = into[m]
        /\ into'[new] = 0
    BY <1>1, CaptureFacts DEF Chats
  <2>2. /\ rows' = rows \cup {new} /\ rows \subseteq Chats
        /\ UNCHANGED <<batch, dropped, overrun, disturbed>> /\ Tick
    BY <1>1 DEF Capture, TypeOK
  <2>3. Free' = Free \cup {new} /\ new \notin Free
    <3>1. Held' = Held /\ Held \subseteq Chats
      BY <2>2, SpareIsChats DEF Held
    <3>q. QED
      BY <1>0, <2>1, <2>2, <3>1 DEF Raw
  <2>4. Cardinality(Free') = Cardinality(Free) + 1
    <3>1. IsFiniteSet(Free)
      BY <1>0, ChatsFinite
    <3>q. QED
      BY <2>3, <3>1, FS_AddElement
  <2>5. queued' = 0 => queued = 0 /\ counter' = counter + 1
    BY <1>0, <2>2 DEF Tick
  <2>q. QED
    BY <1>0, <2>2, <2>4, <2>5 DEF BacklogInv
<1>2. ASSUME NEW p \in Passes, PassBegins(p), UNCHANGED <<into, rows, counter, disturbed>>
      PROVE  BacklogInv'
  <2>1. SUFFICES ASSUME ~overrun' PROVE Cardinality(Free') <= KeepRecent + counter + dropped'
    BY <1>2 DEF BacklogInv
  <2>2. /\ batch' = [batch EXCEPT ![p] = Compactable] /\ batch[p] = {}
        /\ batch \in [Passes -> SUBSET Chats]
        /\ ~(Cardinality(Raw) > PullLimit) /\ dropped' = 0
    BY <1>2, <2>1 DEF PassBegins, Pull, TypeOK
  <2>3. Compactable \subseteq Held'
    <3>1. batch'[p] = Compactable
      BY <2>2
    <3>q. QED
      BY <3>1 DEF Held
  <2>4. Cardinality(Raw) <= PullLimit
    <3>1. Cardinality(Raw) \in Nat /\ PullLimit \in Nat
      BY <1>0, ChatsFinite, ConstantsAssumption DEF PullLimit, Smaller
    <3>q. QED
      BY <2>2, <3>1
  <2>5. Free' \subseteq Newest(Raw, KeepRecent)
    <3>1. Raw' = Raw
      BY <1>2 DEF Raw
    <3>q. QED
      BY <2>3, <2>4, <3>1, AllPulled
  <2>6. Newest(Raw, KeepRecent) \in SUBSET Chats
    BY <1>0 DEF Newest
  <2>7. Cardinality(Free') <= Cardinality(Newest(Raw, KeepRecent))
    <3> HIDE DEF Free
    <3>q. QED
      BY <2>5, <2>6, LargerSet
  <2>8. Cardinality(Newest(Raw, KeepRecent)) <= KeepRecent
    BY <1>0, NewestIsSmall
  <2>9. Cardinality(Free') \in Nat /\ Cardinality(Newest(Raw, KeepRecent)) \in Nat
    <3>1. Free' \in SUBSET Chats
      BY <2>5, <2>6
    <3> HIDE DEF Free
    <3>q. QED
      BY <2>6, <3>1, ChatsFinite
  <2>q. QED
    BY <1>0, <2>2, <2>7, <2>8, <2>9
<1>3. ASSUME NEW p \in Passes, Finish(p) PROVE BacklogInv'
  <2>1. /\ UNCHANGED <<queued, overrun, disturbed>> /\ rows \subseteq Chats
        /\ counter' + dropped' = counter + dropped
        /\ batch' = [batch EXCEPT ![p] = {}] /\ batch \in [Passes -> SUBSET Chats]
        /\ Len(compactions) \in Nat
    BY <1>0, <1>3, FinishFacts DEF Finish, TypeOK
  <2>2. Raw' \subseteq Raw /\ Raw' \cap batch[p] = {}
    BY <1>3, <2>1, FinishFacts DEF Raw
  <2>3. Held \subseteq Held' \cup batch[p]
    <3>1. \A q \in Passes : q # p => batch'[q] = batch[q]
      BY <2>1
    <3>q. QED
      BY <3>1 DEF Held
  <2>4. Free' \subseteq Free
    BY <2>2, <2>3
  <2>5. Cardinality(Free') <= Cardinality(Free) /\ Cardinality(Free') \in Nat
    <3>1. Free \in SUBSET Chats
      BY <1>0
    <3> HIDE DEF Free
    <3>q. QED
      BY <2>4, <3>1, LargerSet, ChatsFinite
  <2>6. counter' \in Nat /\ dropped' \in Nat
    BY DEF TypeOK
  <2>7. SUFFICES ASSUME ~disturbed, ~overrun, queued = 0
                 PROVE  Cardinality(Free') <= KeepRecent + counter' + dropped'
    BY <2>1 DEF BacklogInv
  <2>8. Cardinality(Free) <= KeepRecent + counter + dropped
    BY <2>7 DEF BacklogInv
  <2>9. counter' + dropped' = counter + dropped /\ KeepRecent \in Nat /\ counter \in Nat /\ dropped \in Nat
    BY <1>0, <2>1
  <2>10. Cardinality(Free) \in Nat
    BY <1>0
  <2>11. \A a, b, k, c, d, e, f \in Nat :
            a <= b /\ b <= k + c + d /\ e + f = c + d => a <= k + e + f
    OBVIOUS
  <2>q. QED
    BY <2>5, <2>6, <2>8, <2>9, <2>10, <2>11
<1>4. ASSUME NEW s \in Sessions, Forget(s) PROVE BacklogInv'
  <2>1. UNCHANGED <<queued, overrun, disturbed, counter, dropped, batch, into>> /\ rows' \subseteq rows
    BY <1>4 DEF Forget
  <2>2. Free' \subseteq Free
    BY <2>1 DEF Raw, Held
  <2>3. Cardinality(Free') <= Cardinality(Free) /\ Cardinality(Free') \in Nat
    <3>1. Free \in SUBSET Chats
      BY <1>0
    <3> HIDE DEF Free
    <3>q. QED
      BY <2>2, <3>1, LargerSet, ChatsFinite
  <2>q. QED
    BY <1>0, <2>1, <2>3 DEF BacklogInv
<1>5. ASSUME UNCHANGED <<into, rows, batch, counter, dropped, queued, overrun, disturbed>>
      PROVE  BacklogInv'
  BY <1>5 DEF BacklogInv, Raw, Held
<1>6. ASSUME disturbed' PROVE BacklogInv'
  BY <1>6 DEF BacklogInv
<1>q. QED
  BY <1>1, <1>2, <1>3, <1>4, <1>5, <1>6
     DEF Next, BeginQueued, AgentEnd, Fail, Restart, ClockTicks, vars

LEMMA BacklogShown == BacklogInv => BacklogBounded
<1> SUFFICES ASSUME BacklogInv, ~disturbed, ~overrun, queued = 0, \A p \in Passes : batch[p] = {}
             PROVE  Cardinality(Raw) <= KeepRecent + counter + dropped
  BY DEF BacklogBounded
<1>1. Raw \ Held = Raw
  BY DEF Held
<1>q. QED
  BY <1>1 DEF BacklogInv

-----------------------------------------------------------------------------
(* The table and the memory of the hooks stay well formed. *)
THEOREM TypeCorrect == Spec => []TypeOK
BY InvAlways, PTL DEF Inv

(* No message is lost between its row and a summary, however many passes   *)
(* overlap, fail or are cut off. (chat-compactor.ts, observation-store.ts) *)
THEOREM EveryMessageKept == Spec => []NothingLost
BY InvAlways, PTL DEF Inv

(* Recall never finds a message both raw and in a summary.                 *)
(* (observation-store.ts:83-84)                                            *)
THEOREM RecalledOnce == Spec => []RawIsNotSummarised
BY InvAlways, PTL DEF Inv

(* compacted_into names a summary made of the row. (migrations.ts, v3)     *)
THEOREM AuditTrail == Spec => []ParentCovers
BY InvAlways, PTL DEF Inv

(* Whatever passes overlap, fail or are cut off, and whatever is captured  *)
(* or forgotten while they wait: of the messages newer than a compacted    *)
(* one, keepRecentRaw are raw. (chat-compactor.ts, observation-store.ts)   *)
THEOREM RecentStayRaw == Spec => []TailIsKept
<1>1. Init => TailInv
  <2>1. Init => Chats = {}
    BY EmptySeq DEF Init, Chats
  <2>q. QED
    BY <2>1 DEF TailInv
<1>2. TypeOK /\ TypeOK' /\ TailInv /\ [Next]_vars => TailInv'
  BY TailStep
<1>q. QED
  BY <1>1, <1>2, TypeCorrect, TailShown, PTL DEF Spec

(* Passes keep up: nothing is left raw but the messages to keep and those  *)
(* that no pass has begun after. (config.ts:185, CompactionTrigger)        *)
THEOREM PassesKeepUp == Spec => []BacklogBounded
<1>1. Init => BacklogInv
  BY FS_EmptySet, ConstantsAssumption DEF Init, BacklogInv, Raw
<1>2. TypeOK /\ TypeOK' /\ BacklogInv /\ [Next]_vars => BacklogInv'
  BY BacklogStep
<1>q. QED
  BY <1>1, <1>2, TypeCorrect, BacklogShown, PTL DEF Spec
=============================================================================
