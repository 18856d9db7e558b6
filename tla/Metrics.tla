------------------------------- MODULE Metrics -------------------------------
(* The MetricsCollector of crewcontext/metrics.py, shared by the store, the
   projector and the emits of one ProcessContext, and what they report to it:
   the failure rate of an operation is computed from a list of failures that is
   bounded for all operations together and from successes counted for ever. *)
EXTENDS Naturals, Sequences, FiniteSets, Lists

CONSTANTS
    Measured,     \* operations under measure_time: emit and the projections
    Projections,  \* those of them whose attempts the projector also reports
    Connect,      \* "connect", which is not measured
    FailureSize,  \* failures kept, 100
    SampleSize,   \* values kept of a histogram, 1000
    Window,       \* window_seconds
    MaxAttempts   \* bound: attempts, and ticks of the clock

(* MetricsCollector and _Histogram keep at least the latest entry. *)
ASSUME MetricsAssumption == {FailureSize, SampleSize} \subseteq Nat \ {0}

VARIABLES
    successes,   \* counters "<operation>.success"
    failures,    \* _failures: operation and time
    histograms,  \* _histograms "<operation>.ms"; a value is the attempt's number
    clock,
    attempts     \* every attempt since the last reset, in order

metricVars == <<successes, failures, histograms, clock, attempts>>

Operations == Measured \cup {Connect}

MetricsInit == /\ successes = [o \in Operations |-> 0]
               /\ failures = <<>>
               /\ histograms = [o \in Measured |-> <<>>]
               /\ clock = 0
               /\ attempts = <<>>

------------------------------------------------------------------------------
RecordFailure(o) ==
    failures' = Latest(Append(failures, [operation |-> o, at |-> clock]), FailureSize)

\* Mutant: a success is counted under a key that get_failure_rate does not read.
RecordSuccessElsewhere(o, times) == UNCHANGED successes

RecordSuccess(o, times) == successes' = [successes EXCEPT ![o] = @ + times]

Attempt(o, ok) ==
    /\ Len(attempts) < MaxAttempts
    /\ attempts' = Append(attempts, [operation |-> o, ok |-> ok, at |-> clock])
    /\ UNCHANGED clock

(* measure_time.__exit__: the duration in any case, a success without an
   exception. *)
Measure(o) == histograms' = [histograms EXCEPT
                                ![o] = Latest(Append(@, Len(attempts) + 1), SampleSize)]

(* An attempt to project counts a success twice: when measure_time ends, and in
   _handle_success. *)
AttemptSucceeds(o) ==
    /\ Attempt(o, TRUE)
    /\ IF o \in Measured THEN Measure(o) ELSE UNCHANGED histograms
    /\ RecordSuccess(o, IF o \in Projections THEN 2 ELSE 1)
    /\ UNCHANGED failures

(* An emit that raises is measured; its failure is recorded nowhere. *)
AttemptFails(o) ==
    /\ Attempt(o, FALSE)
    /\ IF o \in Measured THEN Measure(o) ELSE UNCHANGED histograms
    /\ IF o \in Projections \cup {Connect} THEN RecordFailure(o) ELSE UNCHANGED failures
    /\ UNCHANGED successes

ClockTick == /\ clock < MaxAttempts
             /\ clock' = clock + 1
             /\ UNCHANGED <<successes, failures, histograms, attempts>>

Reset == /\ successes' = [o \in Operations |-> 0]
         /\ failures' = <<>>
         /\ histograms' = [o \in Measured |-> <<>>]
         /\ attempts' = <<>>
         /\ UNCHANGED clock

MetricsNext == \/ \E o \in Operations : AttemptSucceeds(o) \/ AttemptFails(o)
               \/ ClockTick \/ Reset

------------------------------------------------------------------------------
(* get_failure_rate: Recent failures of Total, none if that is 0. *)
InWindow(s, o) == {i \in DOMAIN s : s[i].operation = o /\ s[i].at + Window > clock}
RecentFailures(o) == Cardinality(InWindow(failures, o))
Total(o) == RecentFailures(o) + successes[o]

(* The failure rate never overstates: it is at most the share of failures among
   the attempts of the window.  It may understate, by the failures that others
   displaced, the successes of earlier times and those counted twice. *)
RateNeverOverstates ==
    \A o \in Operations :
        LET failed == {i \in InWindow(attempts, o) : ~attempts[i].ok}
        IN  RecentFailures(o) * Cardinality(InWindow(attempts, o))
                <= Cardinality(failed) * Total(o)

Reported == {i \in DOMAIN attempts : /\ ~attempts[i].ok
                                      /\ attempts[i].operation \in Projections \cup {Connect}}

(* What the bounded lists keep is the latest of what happened: the failures of
   all projections and connects together, and the durations per operation. *)
KeptIsLatest ==
    /\ LET reported == Kept(attempts, Reported)
           past == Len(reported) - Len(failures)
       IN  /\ Len(failures) = IF Len(reported) < FailureSize THEN Len(reported)
                              ELSE FailureSize
           /\ \A i \in DOMAIN failures :
                 failures[i] = [operation |-> reported[past + i].operation,
                                at |-> reported[past + i].at]
    /\ \A o \in Measured : \A i \in DOMAIN attempts :
          attempts[i].operation = o =>
              \/ \E j \in DOMAIN histograms[o] : histograms[o][j] = i
              \/ /\ Len(histograms[o]) = SampleSize
                 /\ \A j \in DOMAIN histograms[o] : histograms[o][j] > i
===============================================================================
