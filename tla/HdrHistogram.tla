---------------------------- MODULE HdrHistogram ----------------------------
(* hdr_histogram.c: the histogram in which wrk keeps latencies and request     *)
(* rates, its iterators and what is read from it.  A histogram is the counts   *)
(* at the indices that have been recorded, and the total count; the order of   *)
(* the indices is the order in which hdr_iter_next visits them.                *)
EXTENDS Integers, FiniteSets, FiniteSetsExt, Functions, Folds

CONSTANTS lowest_trackable_value, highest_trackable_value, significant_figures

ASSUME HdrAssumption == /\ significant_figures \in 1..5
                        /\ lowest_trackable_value \in Nat \ {0}
                        /\ highest_trackable_value \in Nat

\* the number of bits of n: 64 - clz(n)
Bits(n) == IF n = 0 THEN 0 ELSE CHOOSE k \in 1..n : 2 ^ (k - 1) <= n /\ n < 2 ^ k
AtLeast(a, b) == IF a >= b THEN a ELSE b

-----------------------------------------------------------------------------
(* hdr_init.                                                                   *)
largest_value_with_single_unit_resolution == 2 * 10 ^ significant_figures
sub_bucket_count_magnitude == Bits(largest_value_with_single_unit_resolution - 1)
sub_bucket_half_count_magnitude == AtLeast(sub_bucket_count_magnitude, 1) - 1
unit_magnitude        == Bits(lowest_trackable_value) - 1
sub_bucket_count      == 2 ^ (sub_bucket_half_count_magnitude + 1)
sub_bucket_half_count == sub_bucket_count \div 2
sub_bucket_mask       == (sub_bucket_count - 1) * 2 ^ unit_magnitude
bucket_count == 1 + CHOOSE n \in 0..highest_trackable_value :
                        /\ sub_bucket_mask * 2 ^ n >= highest_trackable_value
                        /\ n = 0 \/ sub_bucket_mask * 2 ^ (n - 1) < highest_trackable_value
counts_len   == (bucket_count + 1) * sub_bucket_half_count

\* what size_of_equivalent_value_range computes as an int does not overflow
ASSUME WidthAssumption == unit_magnitude + bucket_count <= 31

hdr_init == [counts |-> <<>>, total |-> 0]

-----------------------------------------------------------------------------
(* The index of a value and the values of an index.                            *)
get_bucket_index(value) ==
    AtLeast(Bits(value), Bits(sub_bucket_mask)) - unit_magnitude - (sub_bucket_half_count_magnitude + 1)
get_sub_bucket_index(value, b) == value \div 2 ^ (b + unit_magnitude)

\* the asserts of counts_index
InRange(b, s) == b < bucket_count /\ s < sub_bucket_count /\ (b = 0 \/ s >= sub_bucket_half_count)
counts_index(b, s) == (b + 1) * sub_bucket_half_count + (s - sub_bucket_half_count)

counts_index_for(value) == counts_index(get_bucket_index(value), get_sub_bucket_index(value, get_bucket_index(value)))
Recordable(value) == InRange(get_bucket_index(value), get_sub_bucket_index(value, get_bucket_index(value)))

\* move_next: the bucket and sub-bucket of the iterator after i + 1 steps
BucketAt(i)    == IF i < sub_bucket_count THEN 0 ELSE (i \div sub_bucket_half_count) - 1
SubBucketAt(i) == IF i < sub_bucket_count THEN i ELSE sub_bucket_half_count + (i % sub_bucket_half_count)
value_from_index(i) == SubBucketAt(i) * 2 ^ (BucketAt(i) + unit_magnitude)

size_of_equivalent_value_range(value) ==
    LET b == get_bucket_index(value)
    IN  2 ^ (unit_magnitude + b + IF get_sub_bucket_index(value, b) >= sub_bucket_count THEN 1 ELSE 0)
lowest_equivalent_value(value) ==
    LET b == get_bucket_index(value) IN get_sub_bucket_index(value, b) * 2 ^ (b + unit_magnitude)
next_non_equivalent_value(value) == lowest_equivalent_value(value) + size_of_equivalent_value_range(value)
highest_equivalent_value(value)  == next_non_equivalent_value(value) - 1
median_equivalent_value(value) ==
    lowest_equivalent_value(value) + (size_of_equivalent_value_range(value) \div 2)

\* iter->highest_equivalent_value at the index i
HighestAt == [i \in 0..counts_len - 1 |-> highest_equivalent_value(value_from_index(i))]

-----------------------------------------------------------------------------
get_count_at_index(h, i) == IF i \in DOMAIN h.counts THEN h.counts[i] ELSE 0

\* false (here: the histogram unchanged) only for an index that the asserts exclude
hdr_record_values(h, value, count) ==
    LET i == counts_index_for(value)
    IN  IF i < 0 \/ counts_len <= i THEN h
        ELSE [counts |-> [j \in DOMAIN h.counts \cup {i} |-> get_count_at_index(h, j) + IF j = i THEN count ELSE 0],
              total  |-> h.total + count]
hdr_record_value(h, value) == hdr_record_values(h, value, 1)

\* Mutant of hdr_add: a recorded index counts once.
hdr_add_once(h, from) ==
    MapThenFoldSet(LAMBDA i, sum : hdr_record_value(sum, value_from_index(i)), h, LAMBDA i : i, Min, DOMAIN from.counts)

\* hdr_recorded_iter: the recorded indices in order; hdr_add re-records each of them
hdr_add(h, from) ==
    MapThenFoldSet(LAMBDA i, sum : hdr_record_values(sum, value_from_index(i), from.counts[i]),
                   h, LAMBDA i : i, Min, DOMAIN from.counts)

\* hdr_iter_next goes on while count_to_index < total_count
CountTo(h, i) == SumFunctionOnSet(h.counts, {j \in DOMAIN h.counts : j <= i})
Visited(h)    == {i \in 0..counts_len - 1 : CountTo(h, i - 1) < h.total}

\* the indices at which an iteration finds a count (it visits all of them)
Occupied(h) == {i \in DOMAIN h.counts : h.counts[i] # 0}

hdr_max(h) == IF Occupied(h) = {} THEN 0
              ELSE lowest_equivalent_value(HighestAt[Max(Occupied(h))])
hdr_min(h) == IF Occupied(h) = {} THEN 0 ELSE value_from_index(Min(Occupied(h)))

\* Mutant of hdr_value_at_percentile: the rank is cut, not rounded.
value_at_cut_percentile(h, percentile) ==
    LET rank == AtLeast((percentile * h.total) \div 100000, 1)
        hit  == {i \in Occupied(h) : CountTo(h, i) >= rank}
    IN  IF hit = {} THEN 0 ELSE HighestAt[Min(hit)]

\* percentile in thousandths of a percent
hdr_value_at_percentile(h, percentile) ==
    LET rank == AtLeast((2 * percentile * h.total + 100000) \div 200000, 1)
        hit  == {i \in Occupied(h) : CountTo(h, i) >= rank}
    IN  IF hit = {} THEN 0 ELSE HighestAt[Min(hit)]

\* hdr_mean is MeanTotal / total (no number for an empty histogram), and the
\* square of hdr_stddev is DevTotal / total ^ 3
SumOver(h, Of(_)) ==
    SumFunction([i \in DOMAIN h.counts |-> h.counts[i] * Of(median_equivalent_value(value_from_index(i)))])
MeanTotal(h) == SumOver(h, LAMBDA v : v)
DevTotal(h)  == LET m == MeanTotal(h) IN SumOver(h, LAMBDA v : (v * h.total - m) * (v * h.total - m))

-----------------------------------------------------------------------------
\* Mutant of stats_within_stdev: without the deviation below the mean.
stats_within_half_stdev(h) ==
    LET over == {i \in Visited(h) : LET d == HighestAt[i] * h.total - MeanTotal(h)
                                    IN  d > 0 /\ d * d * h.total > DevTotal(h)}
    IN  IF over = {} THEN h.total ELSE CountTo(h, Min(over))

(* stats_within_stdev (stats.c), before its division by the total: the counts  *)
(* up to the first index that ends above the mean plus a deviation, less those *)
(* up to the last one that begins below the mean less a deviation.             *)
stats_within_stdev(h) ==
    LET mean  == MeanTotal(h)
        dev   == DevTotal(h)
        over  == {i \in Visited(h) : LET d == HighestAt[i] * h.total - mean
                                     IN  d > 0 /\ d * d * h.total > dev}
        under == {i \in Visited(h) : LET d == mean - (value_from_index(i) + 1) * h.total
                                     IN  /\ d >= 0 /\ d * d * h.total >= dev
                                         /\ \A j \in over : i <= j}
    IN  (IF over  = {} THEN h.total ELSE CountTo(h, Min(over))) -
        (IF under = {} THEN 0 ELSE CountTo(h, Max(under)))

-----------------------------------------------------------------------------
(* hdr_percentile_iter: a line for every tick that the percentile of a recorded *)
(* index has reached, and a last one at 100%.  A tick is what is left to 100%,  *)
(* in Unit parts: the distance of the ticks halves when the rest has halved.    *)
CONSTANTS ticks_per_half_distance, Halvings
ASSUME TicksAssumption == ticks_per_half_distance \in Nat \ {0} /\ Halvings \in Nat

Unit == 2 * ticks_per_half_distance * 2 ^ Halvings

\* log(100 / rest) / log(2), rounded down
HalfDistance(rest) == Max({k \in 0..Halvings : rest * 2 ^ k <= Unit})

Ticks == LET t[n \in 0..2 * ticks_per_half_distance * (Halvings + 1)] ==
                 IF n = 0 THEN Unit
                 ELSE LET rest == t[n - 1] IN AtLeast(rest - 2 ^ (Halvings - HalfDistance(rest)), 0)
         IN  {t[n] : n \in DOMAIN t}

\* Mutant of Line: the value is the beginning of the index's range.
LineOfLowest(h, i, rest) == [value |-> value_from_index(i), rest |-> rest, count |-> CountTo(h, i)]

Line(h, i, rest) ==
    [value |-> HighestAt[i], rest |-> rest, count |-> CountTo(h, i)]

\* a tick that only the last index reaches is written if it is the first such
hdr_percentiles_print(h) ==
    IF h.total = 0 THEN {[value |-> 0, rest |-> 0, count |-> 0]}
    ELSE LET last     == Max(Occupied(h))
             at(rest) == Min({i \in Occupied(h) : (Unit - rest) * h.total <= Unit * CountTo(h, i)})
             ended    == {rest \in Ticks : at(rest) = last}
         IN  {Line(h, at(rest), rest) : rest \in (Ticks \ ended) \cup {Max(ended)}} \cup {Line(h, last, 0)}
=============================================================================
