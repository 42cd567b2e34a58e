--------------------------- MODULE MCSessionMemory ---------------------------
(* Instances of SessionMemory for TLC. *)
EXTENDS SessionMemory, TLC

CONSTANTS s1, s2, m1, m2, t1, e1, e2

Symmetry == Permutations(Sessions) \cup Permutations(Ends)

(* The bounds of this instance: a run is not followed beyond the first     *)
(* event of a second open session or the first two hooks that overlap.     *)
(* Once a file is exported, no session is open and one has no summary, and *)
(* a hook awaits its summary only before the first event.  With a third    *)
(* row, or after the second event, nothing is open, awaited or summarized; *)
(* with a second row after the first event nothing is open or awaited.     *)
(* Made-up ids are not combined with files and events, and m1 is made up   *)
(* first.                                                                  *)
Followed ==
    LET awaited == {e \in Ends : ends[e] # NotEnding}
        closed == active = NotOpen /\ awaited = {}
        unsummarized == \A s \in SessionIds : summaries[s] = NoSummary
    IN
    /\ ~mixed
    /\ overlapped = {}
    /\ file # NoFile =>
        /\ closed \/ (active = NotOpen /\ events = 0 /\ Len(table) < 3)
        /\ \E s \in Sessions : summaries[s] = NoSummary
    /\ events > 1 \/ Len(table) > 2 =>
        closed /\ unsummarized
    /\ events > 0 /\ Len(table) > 1 => closed
    /\ made[m2] # -1 => made[m1] # -1
    /\ (\E m \in MadeUp : made[m] # -1) =>
        events = 0 /\ file = NoFile /\ (Len(table) > 1 => closed /\ unsummarized)

(* What a row said that is neither in the table nor in the file is not     *)
(* looked at again, nor that it was summarized, nor whose a row is that is *)
(* filed under no session.                                                 *)
MemoryView ==
    LET Kept(i) == IF i \notin rows \cup file.rows THEN <<>>
                   ELSE IF table[i].session \notin Sessions THEN [table[i] EXCEPT !.of = Nobody]
                   ELSE table[i]
        Seen(summary) == [summary EXCEPT !.covers = @ \cap rows]
    IN
    <<now, made, [i \in Ids |-> Kept(i)], rows, compacted, [s \in SessionIds |-> Seen(summaries[s])],
      active, [e \in Ends |-> Seen(ends[e])], file.rows,
      [s \in SessionIds |-> Seen(file.summaries[s])], importing, looked, events,
      [s \in SessionIds |-> covered[s] \cap rows], overlapped, mixed, stale>>
=============================================================================
