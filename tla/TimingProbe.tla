----------------------------- MODULE TimingProbe -----------------------------
(***************************************************************************)
(* Run time statistics of an interrupt (hardware/hot_path_timing.hpp):     *)
(* Record() in the interrupt, one step that preempts the thread, Read() by *)
(* the timing registers (src/drive/timing_registers.cpp) word by word, and *)
(* Reset() by their command.                                               *)
(***************************************************************************)
EXTENDS Integers

CONSTANTS
    Times,          \* execution times
    CountModulus,   \* values of Stats::count (2^32)
    MaxRecords,     \* bound: records since a reset
    MaxOverlap      \* bound: records during one copy

ASSUME TimingProbeAssumption ==
    /\ Times \subseteq Nat \ {0} /\ Times # {}
    /\ CountModulus \in Nat \ {0, 1} /\ MaxRecords \in Nat /\ MaxOverlap \in Nat

VARIABLES
    accumulator, published, \* accumulator_, published_
    sequence,               \* sequence_ / 2, from the start of the copy
    resetRequested,         \* reset_requested_
    reader, copy,           \* the thread in Read(): where it is, kCopy
    records,                \* history: records since the statistics started
    truth, copied           \* history: the same when published_ was written, when read

probeVars == <<accumulator, published, sequence, resetRequested, reader, copy, records,
          truth, copied>>

Ceiling == 1000             \* numeric_limits<uint32_t>::max(), above every time
NoStats == [min |-> Ceiling, max |-> 0, sum |-> 0, count |-> 0]

ProbeInit ==
    /\ accumulator = NoStats /\ published = NoStats
    /\ sequence = 0 /\ resetRequested = FALSE
    /\ reader = "idle" /\ copy = NoStats
    /\ records = 0 /\ truth = 0 /\ copied = 0

\* Stats::MeanCycles()
Mean(stats) == IF stats.count = 0 THEN 0 ELSE stats.sum \div stats.count

Added(stats, cycles) ==
    [min |-> IF cycles < stats.min THEN cycles ELSE stats.min,
     max |-> IF cycles > stats.max THEN cycles ELSE stats.max,
     sum |-> stats.sum + cycles,
     count |-> (stats.count + 1) % CountModulus]

\* Record()
Record(cycles) ==
    LET old == IF resetRequested THEN NoStats ELSE accumulator IN
    /\ resetRequested \/ records < MaxRecords
    /\ reader \in {"idle", "done"} \/ sequence < MaxOverlap
    /\ resetRequested' = FALSE
    /\ accumulator' = Added(old, cycles)
    /\ published' = accumulator'
    /\ sequence' = sequence + (IF reader \in {"idle", "done"} THEN 0 ELSE 1)
    /\ records' = IF resetRequested THEN 1 ELSE records + 1
    /\ truth' = records'
    /\ UNCHANGED <<reader, copy, copied>>

\* ResetStatistics(): a request the writer carries out at its next record.
Reset ==
    /\ ~resetRequested /\ resetRequested' = TRUE
    /\ UNCHANGED <<accumulator, published, sequence, reader, copy, records, truth, copied>>

Reads(from, to) ==
    /\ reader = from /\ reader' = to
    /\ UNCHANGED <<accumulator, published, resetRequested, records, truth>>

\* Read(), from SetStats(): the sequence, the words, the sequence again.
ReadSequence ==
    /\ Reads("idle", "bounds")
    /\ sequence' = 0
    /\ UNCHANGED <<copy, copied>>

CopyBounds ==
    /\ Reads("bounds", "totals")
    /\ copy' = [copy EXCEPT !.min = published.min, !.max = published.max]
    /\ copied' = truth
    /\ UNCHANGED sequence

CopyTotals ==
    /\ Reads("totals", "check")
    /\ copy' = [copy EXCEPT !.sum = published.sum, !.count = published.count]
    /\ UNCHANGED <<sequence, copied>>

\* Mutant: the copy is returned without a second look at the sequence.
Check_Once ==
    /\ Reads("check", "done")
    /\ sequence' = 0
    /\ UNCHANGED <<copy, copied>>

Check ==
    /\ Reads("check", IF sequence = 0 THEN "done" ELSE "idle")
    /\ sequence' = 0
    /\ UNCHANGED <<copy, copied>>

Answered ==
    /\ Reads("done", "idle")
    /\ copy' = NoStats /\ copied' = 0
    /\ UNCHANGED sequence

ProbeNext ==
    \/ \E cycles \in Times : Record(cycles)
    \/ Reset \/ ReadSequence \/ CopyBounds \/ CopyTotals \/ Check \/ Answered

ProbeSpec == ProbeInit /\ [][ProbeNext]_probeVars

-----------------------------------------------------------------------------
(* Properties                                                              *)

InRange(stats) ==
    stats.count # 0 => stats.min <= Mean(stats) /\ Mean(stats) <= stats.max

\* "Consistent copy of the statistics": what a register shows belongs together and
\* is of the records since the last reset that has taken effect, until the count wraps.
StatisticsTrue ==
    reader = "done" /\ copied < CountModulus => copy.count = copied /\ InRange(copy)

\* hot_path_timing.hpp, MeanCycles(): "Mean execution time; 0 without a record."
MeanIsMean == reader = "done" => InRange(copy)
=============================================================================
