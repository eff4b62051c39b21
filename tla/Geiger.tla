------------------------------- MODULE Geiger -------------------------------
(***************************************************************************)
(* The rate meter of geiger/Geiger.cpp: a timer interrupt, twice a second, *)
(* stores the count of the window that ended in the ring last_windows and  *)
(* works out the counts per minute from the most recent windows.           *)
(*                                                                         *)
(* A rate is kept as the counts and the windows it is the quotient of      *)
(* (sum / over * WINDOWS_PER_MIN), and rates are compared by               *)
(* cross-multiplication, which is exact where the code uses floats.  The   *)
(* dead-time correction applied to the stored rate does not enter here.    *)
(***************************************************************************)
EXTENDS Integers, Sequences

CONSTANTS
  WINDOWS_STORED, WINDOWS_PER_MIN, MAX_CPM, max_averaging_period,
  Short,      \* windows in five seconds (10)
  Enough,     \* counts that are enough for an estimation (1000)
  Jump,       \* ratio of two five second sums that invalidates (100)
  Jump30,     \* the same for the rates over 30 and 5 seconds (100)
  Floor,      \* rate below which the latter is not applied (500)
  Restart,    \* windows kept after an invalidation (5)
  Counts      \* counts a window can hold

ASSUME GeigerAssumption ==
  /\ WINDOWS_STORED \in Nat /\ WINDOWS_PER_MIN \in Nat /\ MAX_CPM \in Nat
  /\ WINDOWS_PER_MIN % 2 = 0 /\ WINDOWS_PER_MIN < WINDOWS_STORED
  /\ max_averaging_period \in 1 .. WINDOWS_STORED - 1
  /\ Restart \in Nat \ {0} /\ Restart <= Short
  /\ Short \in Nat /\ 2 * Short <= WINDOWS_PER_MIN
  /\ Enough \in Nat /\ Floor \in Nat
  /\ Jump \in Nat \ {0} /\ Jump30 \in Nat \ {0}
  /\ Counts \subseteq Nat

VARIABLES
  last_windows, last_windows_position, m_samples_collected,
  cpm,          \* the rate last returned by calc_cpm
  m_cpm_valid,
  recent,       \* history: the counts of the latest windows, newest first
  steady        \* history: latest windows with the same count, up to LongSteady

vars == <<last_windows, last_windows_position, m_samples_collected, cpm,
          m_cpm_valid, recent, steady>>

LongSteady == WINDOWS_STORED + max_averaging_period   \* bound of steady

Rate(sum, over) == [sum |-> sum, over |-> over]

\* The n values of f from k on, added one after the other.
SumOf(f, k, n) ==
  LET upto[i \in 0 .. n] == IF i = 0 THEN 0 ELSE upto[i - 1] + f[k + i - 1]
  IN  upto[n]

-----------------------------------------------------------------------------
(* Reading the ring backwards from the position p, the next to be written *)

\* Wrapping as get_cpm30 does.
Backwards_PerMin(w, p) ==
  [k \in 0 .. WINDOWS_STORED - 1 |->
     w[IF k < p THEN p - 1 - k ELSE (p - 1 - k) % WINDOWS_PER_MIN]]

Backwards(w, p) ==
  [k \in 0 .. WINDOWS_STORED - 1 |-> w[(p - 1 - k) % WINDOWS_STORED]]

windows_in_30s == WINDOWS_PER_MIN \div 2

\* get_cpm30 wraps to WINDOWS_PER_MIN - 1, not to the end of the ring.
Index30(p, k) == IF k < p THEN p - 1 - k ELSE p - 1 - k + WINDOWS_PER_MIN

get_cpm30(w, p, samples) ==
  Rate(SumOf([k \in 0 .. windows_in_30s - 1 |-> w[Index30(p, k)]],
             0, windows_in_30s),
       IF samples > windows_in_30s THEN windows_in_30s ELSE samples)

is_cpm30_valid(samples) == samples > windows_in_30s + 1

-----------------------------------------------------------------------------
(* calc_cpm *)

\* The five second windows at k and k + Short differ too much, both seen.
Jumped(b, k) ==
  LET new == SumOf(b, k, Short)
      old == SumOf(b, k + Short, Short)
  IN  /\ new # 0 /\ old # 0
      /\ new * Jump < old \/ old * Jump < new

\* The rate over 30 seconds exceeds that over 5 by more than Jump30 times it.
Jumped30(b, cpm30) ==
  LET cpm5 == SumOf(b, 0, Short) * (WINDOWS_PER_MIN \div Short)
      diff == cpm5 * cpm30.over - cpm30.sum * WINDOWS_PER_MIN
  IN  /\ (IF diff < 0 THEN - diff ELSE diff) > cpm5 * Jump30 * cpm30.over
      /\ cpm5 > Floor

\* The reading marked invalid, the samples kept.
Kept_All(w, p, samples) == samples

\* Samples left after the two tests for a sudden change.
Kept(w, p, samples) ==
  LET b == Backwards(w, p)
      s == IF Jumped(b, 0) THEN Restart ELSE samples
  IN  IF is_cpm30_valid(s) /\ Jumped30(b, get_cpm30(w, p, s)) THEN Restart ELSE s

\* Windows averaged: up to the first that brings the sum above Enough.
SamplesUsed(b, samples) ==
  LET most == IF samples < max_averaging_period THEN samples
              ELSE max_averaging_period
  IN  CHOOSE n \in 1 .. most :
        /\ n = most \/ SumOf(b, 0, n) > Enough
        /\ \A m \in 1 .. n - 1 : SumOf(b, 0, m) <= Enough

IsValid_Early(samples, used, sum) ==
  samples >= used /\ sum * WINDOWS_PER_MIN <= MAX_CPM * used

IsValid(samples, used, sum) ==
  samples > used /\ sum * WINDOWS_PER_MIN <= MAX_CPM * used

calc_cpm(w, p, samples) ==
  LET kept == Kept(w, p, samples)
      used == SamplesUsed(Backwards(w, p), kept)
      sum  == SumOf(Backwards(w, p), 0, used)
  IN  /\ m_samples_collected' = kept
      /\ cpm' = Rate(sum, used)
      /\ m_cpm_valid' = IsValid(kept, used, sum)

\* Samples counted without end, or only as far as they are averaged.
Collected_Endless == m_samples_collected + 1
Collected_Averaged ==
  IF m_samples_collected < max_averaging_period THEN m_samples_collected + 1
  ELSE m_samples_collected

Collected ==
  IF m_samples_collected < WINDOWS_STORED THEN m_samples_collected + 1
  ELSE m_samples_collected

\* Timer 4: a window that ends with count pulses.
update_last_windows(count) ==
  LET w == [last_windows EXCEPT ![last_windows_position] = count]
      p == (last_windows_position + 1) % WINDOWS_STORED
  IN  /\ last_windows' = w
      /\ last_windows_position' = p
      /\ calc_cpm(w, p, Collected)
      /\ recent' = SubSeq(<<count>> \o recent, 1,
                          IF Len(recent) < WINDOWS_STORED THEN Len(recent) + 1
                          ELSE WINDOWS_STORED)
      /\ steady' = IF recent = <<>> \/ count # Head(recent) THEN 1
                   ELSE IF steady < LongSteady THEN steady + 1 ELSE steady

-----------------------------------------------------------------------------
initialise ==
  /\ last_windows = [n \in 0 .. WINDOWS_STORED - 1 |-> 0]
  /\ last_windows_position = 0 /\ m_samples_collected = 0
  /\ cpm = Rate(0, 1) /\ m_cpm_valid = FALSE
  /\ recent = <<>> /\ steady = 0

Next == \E count \in Counts : update_last_windows(count)

Spec == initialise /\ [][Next]_vars

-----------------------------------------------------------------------------
(* Properties *)

TypeOK ==
  /\ last_windows \in [0 .. WINDOWS_STORED - 1 -> Counts \cup {0}]
  /\ last_windows_position \in 0 .. WINDOWS_STORED - 1
  /\ m_samples_collected \in 0 .. WINDOWS_STORED
  /\ cpm \in [sum : Nat, over : 1 .. max_averaging_period]
  /\ m_cpm_valid \in BOOLEAN
  /\ recent \in Seq(Counts) /\ Len(recent) <= WINDOWS_STORED
  /\ steady \in 0 .. LongSteady

\* The k-th latest window as it was counted; windows from before the start
\* count as empty, as in the code's zeroed ring.
Seen == [k \in 0 .. WINDOWS_STORED - 1 |->
           IF k < Len(recent) THEN recent[k + 1] ELSE 0]

\* The rate is the mean over the latest windows, none skipped, repeated or
\* older, wherever the ring wraps.
MeanOfLatest ==
  recent # <<>> => /\ cpm.over <= Len(recent)
                   /\ cpm.sum = SumOf(Seen, 0, cpm.over)

\* A reading is shown as valid only when it averages more than 1000 events or
\* two minutes (README.md: "last 1000 events or 2 minutes").
ValidMeansEnough ==
  m_cpm_valid => cpm.sum > Enough \/ cpm.over = max_averaging_period

\* No rate is averaged over a sudden change of the source: the windows of the
\* rate, and those of the 30 second rate when it may be used, never contain
\* two adjacent five second windows that differ by more than 100 times.
NeverAcrossJump ==
  LET span == IF is_cpm30_valid(m_samples_collected) /\ windows_in_30s > cpm.over
              THEN windows_in_30s ELSE cpm.over
  IN  \A k \in 0 .. span - 2 * Short : ~ Jumped(Seen, k)

\* A source that stays steady gives a valid reading within the time it takes to
\* replace the whole ring and average two minutes more, whatever was measured
\* before, unless it is above what the tube can measure: an invalidation never
\* feeds on itself, not even through the 30 second rate.
SettlesValid ==
  steady = LongSteady /\ Head(recent) * WINDOWS_PER_MIN <= MAX_CPM => m_cpm_valid

\* "Returns CPM over the last 30 seconds": when is_cpm30_valid, the sum is
\* that of the windows of the last 30 seconds.
Cpm30IsLast30s ==
  is_cpm30_valid(m_samples_collected) =>
    get_cpm30(last_windows, last_windows_position, m_samples_collected)
      = Rate(SumOf(Seen, 0, windows_in_30s), windows_in_30s)

=============================================================================
