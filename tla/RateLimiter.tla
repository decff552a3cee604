---------------------------- MODULE RateLimiter -----------------------------
(***************************************************************************)
(* The per-address lockout of pairing (server.rs is_rate_limited and       *)
(* record_pairing_failure), which SOCKS5 authentication shares.  Several   *)
(* connections of one address are handled at once: each checks the lockout *)
(* under the mutex, lets the mutex go while it reads the config and checks *)
(* the proof, and takes it again to record a failure.                      *)
(*                                                                         *)
(* Entries of different addresses never meet, so one address is modelled.  *)
(* Time is a counter that any step may find advanced.                      *)
(***************************************************************************)
EXTENDS Integers, Sequences, FiniteSets

CONSTANTS Task,        \* connections of the address handled concurrently
          Window,      \* RATE_LIMIT_WINDOW
          MaxFailures, \* RATE_LIMIT_MAX_FAILURES
          MaxTime      \* bound on the clock

ASSUME TaskAssumption == IsFiniteSet(Task)
ASSUME LimitAssumption == /\ Window \in Nat \ {0}
                          /\ MaxFailures \in Nat \ {0}
                          /\ MaxTime \in Nat

VARIABLES now,          \* Instant::now()
          failures,     \* RateLimitEntry.failures, oldest first
          blockedUntil, \* RateLimitEntry.blocked_until, 0 for None
          task          \* a task that passed the check is "proving"

vars == <<now, failures, blockedUntil, task>>

TypeOK ==
    /\ now \in 0..MaxTime
    /\ failures \in Seq(0..MaxTime)
    /\ blockedUntil \in 0..(MaxTime + Window)
    /\ task \in [Task -> {"idle", "proving"}]

Init ==
    /\ now = 0
    /\ failures = <<>>
    /\ blockedUntil = 0
    /\ task = [t \in Task |-> "idle"]

\* is_rate_limited: blocked_until, if set, is in the future.
Limited == blockedUntil # 0 /\ now < blockedUntil

\* record_pairing_failure's retain.  Failures are recorded under the mutex, by
\* a clock that does not go back, so those too old to keep come first.
Recent(t) == now - t < Window

Retained == LET Old == {i \in DOMAIN failures : ~Recent(failures[i])}
            IN  SubSeq(failures, Cardinality(Old) + 1, Len(failures))

Tick ==
    /\ now < MaxTime
    /\ now' = now + 1
    /\ UNCHANGED <<failures, blockedUntil, task>>

\* Mutant: the lockout is not looked up.
CheckSkipped(t) ==
    /\ task[t] = "idle"
    /\ task' = [task EXCEPT ![t] = "proving"]
    /\ UNCHANGED <<now, failures, blockedUntil>>

\* A PairRequest arrives and its address is not locked out.  A locked-out
\* one gets PairReject and changes nothing.
CheckPasses(t) ==
    /\ task[t] = "idle" /\ ~Limited
    /\ task' = [task EXCEPT ![t] = "proving"]
    /\ UNCHANGED <<now, failures, blockedUntil>>

\* The device is known or its proof matches; the entry is left as it is.
ProofMatches(t) ==
    /\ task[t] = "proving"
    /\ task' = [task EXCEPT ![t] = "idle"]
    /\ UNCHANGED <<now, failures, blockedUntil>>

\* Mutant: one failure too many before the lockout.
RecordOneLater(t) ==
    /\ task[t] = "proving"
    /\ failures' = Append(Retained, now)
    /\ blockedUntil' = IF Len(failures') > MaxFailures THEN now + Window
                                                       ELSE blockedUntil
    /\ task' = [task EXCEPT ![t] = "idle"]
    /\ UNCHANGED now

\* Mutant: old failures are never forgotten.
RecordWithoutRetain(t) ==
    /\ task[t] = "proving"
    /\ failures' = Append(failures, now)
    /\ blockedUntil' = IF Len(failures') >= MaxFailures THEN now + Window
                                                        ELSE blockedUntil
    /\ task' = [task EXCEPT ![t] = "idle"]
    /\ UNCHANGED now

\* record_pairing_failure: forget what is older than the window, add this
\* failure, and lock the address out if there are enough.
RecordFailure(t) ==
    /\ task[t] = "proving"
    /\ failures' = Append(Retained, now)
    /\ blockedUntil' = IF Len(failures') >= MaxFailures THEN now + Window
                                                        ELSE blockedUntil
    /\ task' = [task EXCEPT ![t] = "idle"]
    /\ UNCHANGED now

Next ==
    \/ Tick
    \/ \E t \in Task : CheckPasses(t) \/ ProofMatches(t) \/ RecordFailure(t)

Spec == Init /\ [][Next]_vars

-----------------------------------------------------------------------------
RecentFailures == {i \in DOMAIN failures : Recent(failures[i])}
Proving == {t \in Task : task[t] = "proving"}

\* Whenever the address has used up its failures within the window, the next
\* check refuses it: the lockout outlives every failure that caused it, at
\* the exact tick where both end too.
EnoughFailuresBlock ==
    Cardinality(RecentFailures) >= MaxFailures => Limited

\* The check and the record are two critical sections, so connections that
\* passed the check together can each fail after the lockout began.  The
\* excess is bounded by the connections in flight: counting those still
\* proving, a window never holds more failures than the limit allows plus
\* one for each further concurrent connection.
OvershootBounded ==
    Cardinality(RecentFailures) + Cardinality(Proving)
        <= MaxFailures - 1 + Cardinality(Task)

\* A lockout that has run its course leaves a clean slate, as far as the code
\* gives one.  What is on record after a later failure was recorded later than
\* the failure that began (or last extended) the lockout: that one and all
\* before it are forgotten.  Failures of connections that were in flight during
\* the lockout may be left, but always too few for the first failure after the
\* lockout to begin another, if more than one is allowed.
CleanSlate ==
    [][(blockedUntil # 0 /\ ~Limited /\ failures' # failures) =>
          /\ \A i \in DOMAIN failures' : failures'[i] > blockedUntil - Window
          /\ MaxFailures > 1 /\ (\A i \in DOMAIN failures : failures[i] < blockedUntil)
                => blockedUntil' = blockedUntil]_vars
=============================================================================
