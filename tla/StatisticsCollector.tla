------------------------ MODULE StatisticsCollector ------------------------
(***************************************************************************)
(* core/statistics_collector.cpp: how many bytes went by, and how fast.    *)
(*                                                                         *)
(* The byte counter is atomic and outside every lock; the samples that the *)
(* current rate is computed of are under rate_mutex.  Whoever records adds *)
(* to the counter, then compares the clock with the time of the last       *)
(* sample, which it reads without the lock, and then takes a sample under  *)
(* the lock, with the time of the comparison and the bytes of the moment.  *)
(* The times that start and a sampler write without a common lock are one  *)
(* word each and taken to be read whole.                                   *)
(*                                                                         *)
(* The counters of chunks, errors and bytes on the wire, is_active, the    *)
(* average rate and the remaining time are left out: each is computed of   *)
(* values that no other part of the collector relates to another.          *)
(***************************************************************************)
EXTENDS Integers, Sequences

CONSTANTS
  Meters,                \* threads that call the collector
  Amounts,               \* the bytes they record
  rate_window_size,
  rate_sample_interval,
  CounterWord,           \* 2^64; bound: fewer bytes are transferred
  MaxRecords,            \* bound: so often bytes are recorded
  MaxClock               \* bound on time

ASSUME CollectorAssumption ==
  /\ Amounts \subseteq Nat /\ rate_window_size \in Nat /\ rate_sample_interval \in Nat
  /\ CounterWord \in Nat \ {0} /\ MaxRecords \in Nat /\ MaxClock \in Nat

VARIABLES
  transferred,  \* bytes_transferred, an atomic
  samples,      \* rate_samples, oldest first
  last,         \* last_sample_time
  started,      \* start_time
  meter,        \* thread -> where it is in its call, and the now of the call
  clock,        \* the steady clock
  records,      \* history: how often bytes were recorded
  mixed         \* history: the counter was set back since the samples were cleared

collectorVars == <<transferred, samples, last, started, meter, clock, records, mixed>>

Unmetered == [at |-> "idle", now |-> 0]

\* The default times lie before every other.
CollectorInit ==
  /\ transferred = 0 /\ samples = <<>>
  /\ last = 0 /\ started = 0 /\ clock = rate_sample_interval
  /\ meter = [t \in Meters |-> Unmetered]
  /\ records = 0 /\ mixed = FALSE

At(t, where) == meter[t].at = where
GoesTo(t, where, now) == meter' = [meter EXCEPT ![t] = [at |-> where, now |-> now]]
Metered(t) == meter' = [meter EXCEPT ![t] = Unmetered]

ClockAdvances ==
  /\ clock < MaxClock
  /\ clock' = clock + 1
  /\ UNCHANGED <<transferred, samples, last, started, meter, records, mixed>>

\* start: the times, without a lock; the counter stays what it was
StartCollecting(t) ==
  /\ At(t, "idle")
  /\ started' = clock /\ last' = clock
  /\ GoesTo(t, "first", 0)
  /\ UNCHANGED <<transferred, samples, clock, records, mixed>>

\* and under the lock the first sample, of no bytes
FirstSample(t) ==
  /\ At(t, "first")
  /\ samples' = <<[at |-> started, bytes |-> 0]>> /\ mixed' = FALSE
  /\ Metered(t)
  /\ UNCHANGED <<transferred, last, started, clock, records>>

\* reset: the counters, and then, under the lock, the samples
ResetCounters(t) ==
  /\ At(t, "idle")
  /\ transferred' = 0 /\ mixed' = (samples # <<>>)
  /\ GoesTo(t, "clear", 0)
  /\ UNCHANGED <<samples, last, started, clock, records>>

ClearSamples(t) ==
  /\ At(t, "clear")
  /\ samples' = <<>> /\ mixed' = FALSE
  /\ Metered(t)
  /\ UNCHANGED <<transferred, last, started, clock, records>>

\* record_bytes_transferred
Record(t, n) ==
  /\ At(t, "idle") /\ records < MaxRecords /\ transferred + n < CounterWord
  /\ transferred' = transferred + n /\ records' = records + 1
  /\ GoesTo(t, "check", 0)
  /\ UNCHANGED <<samples, last, started, clock, mixed>>

\* update_rate_samples: is a sample due?
CheckInterval(t) ==
  /\ At(t, "check")
  /\ IF clock - last >= rate_sample_interval THEN GoesTo(t, "sample", clock) ELSE Metered(t)
  /\ UNCHANGED <<transferred, samples, last, started, clock, records, mixed>>

\* More samples than the window has are dropped, oldest first.
Trimmed(s) == IF Len(s) > rate_window_size THEN SubSeq(s, Len(s) - rate_window_size + 1, Len(s)) ELSE s

Sampled(t, bytes) ==
  /\ samples' = Trimmed(Append(samples, [at |-> meter[t].now, bytes |-> bytes]))
  /\ last' = meter[t].now
  /\ Metered(t)
  /\ UNCHANGED <<transferred, started, clock, records, mixed>>

\* mutated form: the counter is read before the lock is taken
SampleLate(t) ==
  /\ At(t, "sample")
  /\ \E before \in {transferred} \cup {transferred - n : n \in {m \in Amounts : m <= transferred}} : Sampled(t, before)

\* Under rate_mutex the counter is read and kept.  The step is the reading: what is kept shows when the lock is
\* given back.
Sample(t) == At(t, "sample") /\ Sampled(t, transferred)

\* calculate_current_rate: the bytes between the oldest sample and the newest, unsigned
RateBytes ==
  IF Len(samples) < 2 THEN 0 ELSE (samples[Len(samples)].bytes - samples[1].bytes) % CounterWord

CollectorNext ==
  \/ ClockAdvances
  \/ \E t \in Meters :
       \/ StartCollecting(t) \/ FirstSample(t)
       \/ ResetCounters(t) \/ ClearSamples(t)
       \/ \E n \in Amounts : Record(t, n)
       \/ CheckInterval(t) \/ Sample(t)

CollectorSpec == CollectorInit /\ [][CollectorNext]_collectorVars

-----------------------------------------------------------------------------
(* The rate is never computed of a difference that wrapped around, nor of  *)
(* more bytes than were transferred, however many threads record, sample   *)
(* and start at once (calculate_current_rate): from the first sample on    *)
(* the counter only grew.  The exception is reset, from its first step,    *)
(* which sets the counter back under samples that are still there, to the  *)
(* next clearing of the samples.                                           *)
RateStands == ~mixed => RateBytes <= transferred
=============================================================================
