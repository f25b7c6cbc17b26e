----------------------------- MODULE ExternalSort -----------------------------
(***************************************************************************)
(* SortOperator: an external merge sort.  open takes the tuples of its     *)
(* input in blocks of run_capacity_, sorts each and writes it to a file, a *)
(* run; next merges the runs, of each of which it keeps one tuple.  It is  *)
(* shown to implement QueryResult with the input in stable order.          *)
(***************************************************************************)
EXTENDS Values

CONSTANTS
    Inputs,         \* what the input may deliver
    sort_col_idx,   \* the column, counted from 1
    RunCapacity,    \* run_capacity_
    MaxStreams      \* files the process may have open at once

ASSUME InputsAssumption == Inputs \subseteq Seq(Seq(Value))
ASSUME RunCapacityAssumption == RunCapacity \in Nat \ {0}
ASSUME MaxStreamsAssumption == MaxStreams \in Nat

VARIABLES
    input, is_asc,
    pc,         \* "closed", "consume", "merge", "drained", "failed", "raised", "undefined"
    fed,        \* tuples taken from the input
    buffer,
    runs,       \* what is left of each run: current_head_, and what its stream has yet to read
    merged,     \* history: the tuples returned
    due         \* history: whether anything is promised of the result, and the rows it has

task == <<input, is_asc, due>>
sortVars == <<task, pc, fed, buffer, runs, merged>>

-----------------------------------------------------------------------------
\* The comparison of flushRun and next
GoesBefore(a, b) ==
    IF is_asc THEN LessThan(a[sort_col_idx], b[sort_col_idx])
    ELSE LessThan(b[sort_col_idx], a[sort_col_idx])

\* Is this an order, so that equivalent tuples form classes?  With words among numbers it
\* may not be: 9 < 10 as numbers, "10" < "1a" < "9" as words.
Incomparable(a, b) == ~GoesBefore(a, b) /\ ~GoesBefore(b, a)
IsOrder(s) ==
    \A i, j, k \in DOMAIN s :
        /\ GoesBefore(s[i], s[j]) /\ GoesBefore(s[j], s[k]) => GoesBefore(s[i], s[k])
        /\ Incomparable(s[i], s[j]) /\ Incomparable(s[j], s[k]) => Incomparable(s[i], s[k])

\* stable_sort, which has nothing to compare in a block of one; without an order the outcome
\* may be any arrangement.
Arrangements(s) ==
    IF Len(s) < 2 THEN {s}
    ELSE IF IsOrder(s) THEN {StablySorted(s, GoesBefore)}
    ELSE {[k \in DOMAIN s |-> s[f[k]]] : f \in Bijection(DOMAIN s, DOMAIN s)}

\* the last field needs a separator after it to be seen (a mistake)
RoundTripUnterminated(t) == IF t = <<>> THEN t ELSE Front(t)

\* serialize, and deserialize after it: getline sees no field after a last separator.
RoundTrip(t) == IF t # <<>> /\ Last(t).text = 0 THEN Front(t) ELSE t

\* a run sorted in ascending order always, as flushRun once did (a mistake)
FlushRunAscending(s) ==
    LET Ascending(a, b) == LessThan(a[sort_col_idx], b[sort_col_idx])
    IN {IF Len(s) < 2 \/ ~IsOrder(s) THEN s ELSE StablySorted(s, Ascending)}

\* The outcomes of a sort that returns: each tuple was compared with the one it ends next to.
Completed(s) ==
    {u \in Arrangements(s) : \A k \in DOMAIN u : ~RaisesAt(u, sort_col_idx, k, k + 1)}

\* flushRun: the runs the buffer may become
FlushRun(s) == {[k \in DOMAIN s |-> RoundTrip(u[k])] : u \in Completed(s)}

NoSuchColumn == input # <<>> /\ sort_col_idx \notin DOMAIN input[1]

\* Every tuple has the column, and a last field that is not empty.
HasColumn(t) == sort_col_idx \in DOMAIN t
Whole(t) == HasColumn(t) /\ Last(t).text # 0
EnoughStreams == Len(input) <= MaxStreams * RunCapacity
Orderly == EnoughStreams /\ (\A k \in DOMAIN input : Whole(input[k])) /\ IsOrder(input)

SortInit ==
    /\ input \in Inputs /\ is_asc \in BOOLEAN
    /\ pc = "closed" /\ fed = 0
    /\ buffer = <<>> /\ runs = <<>> /\ merged = <<>>
    /\ due = [promised |-> NoSuchColumn \/ Orderly,
              rows |-> IF Orderly THEN StablySorted(input, GoesBefore) ELSE <<>>]

StartSort ==
    /\ pc = "closed"
    /\ pc' = "consume" /\ fed' = 0 /\ merged' = <<>>
    /\ UNCHANGED <<task, buffer, runs>>

BlockFull(s) == Len(s) >= RunCapacity

\* The tuples compared next; undefined behaviour if one of several lacks the column.
Block == Append(buffer, input[fed + 1])
RunActive == {n \in DOMAIN runs : runs[n] # <<>>}
Compared ==
    CASE pc = "consume" /\ fed = Len(input) -> buffer
      [] pc = "consume" /\ fed < Len(input) -> IF BlockFull(Block) THEN Block ELSE <<>>
      [] OTHER -> [n \in RunActive |-> Head(runs[n])]
Defined == \A k \in DOMAIN Compared : DOMAIN Compared # {k} => HasColumn(Compared[k])

Consume ==
    /\ pc = "consume" /\ fed < Len(input)
    /\ fed = 0 => sort_col_idx \in DOMAIN input[1]
    /\ Defined
    /\ IF BlockFull(Block)
       THEN buffer' = <<>> /\ \E run \in FlushRun(Block) : runs' = Append(runs, run)
       ELSE buffer' = Block /\ UNCHANGED runs
    /\ fed' = fed + 1
    /\ UNCHANGED <<task, pc, merged>>

\* Only the first tuple is looked at.
ColumnOutOfRange ==
    /\ pc = "consume" /\ fed = 0 /\ input # <<>>
    /\ sort_col_idx \notin DOMAIN input[1]
    /\ pc' = "failed"
    /\ UNCHANGED <<task, fed, buffer, runs, merged>>

\* the last, partial block is not flushed (a mistake)
EndOfInputNoFlush ==
    /\ pc = "consume" /\ fed = Len(input)
    /\ buffer' = <<>> /\ pc' = "merge"
    /\ UNCHANGED <<task, fed, runs, merged>>

\* The last block is flushed and a stream opened for each run.  One that cannot be opened
\* leaves its run inactive.
EndOfInput ==
    /\ pc = "consume" /\ fed = Len(input)
    /\ Defined
    /\ \E run \in FlushRun(buffer) :
       LET all == IF buffer = <<>> THEN runs ELSE Append(runs, run) IN
       runs' = [n \in DOMAIN all |-> IF n <= MaxStreams THEN all[n] ELSE <<>>]
    /\ buffer' = <<>> /\ pc' = "merge"
    /\ UNCHANGED <<task, fed, merged>>

\* The first active run wins unless the head of a later one goes before its own; 0 if there
\* is none.  Each active run is compared with the best of those before it.
Wins(n, best) == n \in RunActive /\ (best = 0 \/ GoesBefore(Head(runs[n]), Head(runs[best])))
BestOf(m) ==
    LET best[n \in 0 .. m] ==
          IF n = 0 THEN 0 ELSE IF Wins(n, best[n - 1]) THEN n ELSE best[n - 1]
    IN best[m]
Best == BestOf(Len(runs))
MergeRaises == \E n \in RunActive : RaisesAt(Compared, sort_col_idx, n, BestOf(n - 1))

Merge ==
    /\ pc = "merge" /\ RunActive # {}
    /\ Defined /\ ~MergeRaises
    /\ merged' = Append(merged, Head(runs[Best]))
    /\ runs' = [runs EXCEPT ![Best] = Tail(@)]
    /\ UNCHANGED <<task, pc, fed, buffer>>

\* stod throws in flushRun, if two tuples are compared for which it does, or in next.
StodThrows ==
    /\ \/ pc = "consume" /\ MayRaise(Compared, sort_col_idx)
       \/ pc = "merge" /\ MergeRaises
    /\ Defined
    /\ pc' = "raised"
    /\ UNCHANGED <<task, fed, buffer, runs, merged>>

ReadOutOfRange ==
    /\ pc \in {"consume", "merge"}
    /\ ~Defined
    /\ pc' = "undefined"
    /\ UNCHANGED <<task, fed, buffer, runs, merged>>

EndOfRuns ==
    /\ pc = "merge" /\ RunActive = {}
    /\ pc' = "drained"
    /\ UNCHANGED <<task, fed, buffer, runs, merged>>

\* close, early or at the end
CleanupRuns ==
    /\ pc \in {"merge", "drained"}
    /\ pc' = "closed" /\ runs' = <<>>
    /\ UNCHANGED <<task, fed, buffer, merged>>

SortStep ==
    \/ StartSort \/ Consume \/ ColumnOutOfRange \/ EndOfInput
    \/ Merge \/ StodThrows \/ ReadOutOfRange \/ EndOfRuns \/ CleanupRuns

SortSpec == SortInit /\ [][SortStep]_sortVars

-----------------------------------------------------------------------------
(* Properties *)

\* Whatever the blocks, the tuples come out in the order of the column, ascending or
\* descending, those that compare equal as the input delivered them; a run is never lost,
\* and an early close or a second opening does not mix two sorts.  That is for tuples that
\* can be ordered; of others only what follows is promised.  The sort is left by an exception
\* only if it finds no column, or two tuples for which stod throws.
SR == INSTANCE QueryResult WITH
    result <- due.rows,
    fails <- NoSuchColumn,
    mayFail <- MayRaise(input, sort_col_idx),
    mode <- IF ~due.promised THEN "closed"
            ELSE IF pc \in {"consume", "merge"} THEN "open"
            ELSE IF pc = "drained" THEN "ended"
            ELSE IF pc = "raised" THEN "failed" ELSE pc,
    produced <- IF due.promised THEN merged ELSE <<>>
SortsItsInput == SR!QRSpec

\* Even where lessThan is no order (words among numbers), and whatever stable_sort makes of
\* it, the tuples returned by the end are those of the input, each as often, if a stream
\* could be opened for each run; only an empty last field is lost.
NothingLost ==
    pc = "drained" /\ EnoughStreams =>
      \A t \in ToSet(merged) \cup {RoundTrip(u) : u \in ToSet(input)} :
        Cardinality({k \in DOMAIN merged : merged[k] = t})
            = Cardinality({k \in DOMAIN input : RoundTrip(input[k]) = t})

\* A value beyond the end of a tuple is read only if a tuple came without the column, or lost
\* it on its way through a file because it was last and empty: else a tuple without it is
\* reported ("indice de columna fuera de limites", SortOperator.hpp).
ReadsOnlyFields == pc = "undefined" => \E k \in DOMAIN input : ~Whole(input[k])
=============================================================================
