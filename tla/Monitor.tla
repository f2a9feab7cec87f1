------------------------------ MODULE Monitor ------------------------------
(***************************************************************************)
(* The health monitor of a connection (internal/monitor): Run, its ticker, *)
(* the regular check, the latency probe beside it and the rapid checks of  *)
(* the failure window, in discrete time.                                   *)
(*                                                                         *)
(* Only waiting takes time: what the code does between two waits happens   *)
(* at one instant, and time cannot pass over an instant at which the code  *)
(* has something to do.  A check dials three public addresses; the network *)
(* is up when one of them answers within Latency, and may go down or come  *)
(* back at any instant.                                                    *)
(***************************************************************************)
EXTENDS Naturals, FiniteSetsExt

CONSTANTS
    Intervals,       \* values of HC_INTERVAL
    FailureWindows,  \* values of HC_FAILURE_WINDOW
    Timeout,         \* of a check
    Latency          \* of the network when it is up

ASSUME TimeAssumption ==
    /\ Intervals \subseteq Nat \ {0} /\ FailureWindows \subseteq Nat
    /\ Latency \in Nat \ {0} /\ Timeout \in Nat /\ Latency < Timeout

VARIABLES
    Interval, FailureWindow, metrics,  \* configuration of this run
    pc,            \* "check", "rapid", "select" or "done"
    result,        \* what Run returned: "none", "nil", "reconnect"
    t, age,        \* timeout of the check that runs, time since it began
    verdict,       \* of the regular check: "none", "ok", "failed"
    probing,       \* is the latency of the server still being measured?
    since,         \* time since failureStart
    next, pending, \* time to the next tick; a tick waits in ticker.C
    cancelled,
    net,           \* "up" or "down"
    upFor, downFor,  \* history: for how long it has been
    quiet          \* history: time since a check last succeeded

config == <<Interval, FailureWindow, metrics>>
check == <<t, age, verdict, probing>>
ticker == <<next, pending>>
world == <<net, upFor, downFor>>
vars == <<config, pc, result, check, since, ticker, cancelled, world, quiet>>

\* How long an outage may last before Run has returned: up to the next check, of
\* which the last answer has used some, that check and the window.
DetectionTime == Max({Interval, Timeout}) - Latency + Timeout + FailureWindow

\* Bounds of the history, above which nothing depends on it.
Capped(time, bound) == Min({time, bound})
MaxUp == Timeout + Latency + 1
MaxDown == DetectionTime + 1

-----------------------------------------------------------------------------
(* The code.                                                               *)

\* A check of at most the given timeout begins.
Begin(timeout, withProbe) ==
    /\ t' = timeout /\ age' = 0 /\ verdict' = "none" /\ probing' = withProbe

Init ==
    /\ Interval \in Intervals /\ FailureWindow \in FailureWindows /\ metrics \in BOOLEAN
    /\ pc = "check" /\ result = "none"
    /\ t = Timeout /\ age = 0 /\ verdict = "none" /\ probing = metrics
    /\ since = 0 /\ next = Interval /\ pending = FALSE /\ cancelled = FALSE
    /\ net \in {"up", "down"} /\ upFor = 0 /\ downFor = 0 /\ quiet = 0

Checking == pc \in {"check", "rapid"} /\ verdict = "none"

\* An address can have answered; one must have.
Answers == net = "up" /\ age >= Latency /\ upFor >= Latency
Answered == Answers /\ upFor >= age

\* checkConnectivity succeeds with the first of its three dials.
Succeeds == Checking /\ Answers /\ quiet' = 0

\* It fails when the third dial has: at the timeout, at once when the context
\* is cancelled, and early when the network cannot be reached at all.
Fails ==
    /\ Checking /\ (age = t \/ cancelled \/ net = "down")
    /\ UNCHANGED quiet

Return(what) == pc' = "done" /\ result' = what /\ UNCHANGED <<check, since>>

select == pc' = "select" /\ UNCHANGED <<result, check, since>>

\* The regular check of performCheck has its verdict.
CheckEnds ==
    /\ pc = "check"
    /\ \/ Succeeds /\ verdict' = "ok"
       \/ Fails /\ verdict' = "failed"
    /\ UNCHANGED <<config, pc, result, t, age, probing, since, ticker, cancelled, world>>

\* checkServerLatency returns, with or without an answer.
ProbeEnds ==
    /\ pc = "check" /\ probing /\ probing' = FALSE
    /\ UNCHANGED <<config, pc, result, t, age, verdict, since, ticker, cancelled, world, quiet>>

\* Mutant: every rapid check gets the full timeout.
RapidFullTimeout(now, timeout) ==
    IF now >= FailureWindow THEN Return("reconnect")
    ELSE pc' = "rapid" /\ since' = now /\ Begin(Timeout, FALSE) /\ UNCHANGED result

\* Mutant: rapid checks get half the timeout of the one before.
RapidHalves(now, timeout) ==
    IF now >= FailureWindow THEN Return("reconnect")
    ELSE /\ pc' = "rapid" /\ since' = now /\ UNCHANGED result
         /\ Begin(Min({Max({1, timeout \div 2}), FailureWindow - now}), FALSE)

\* The loop of performRapidChecks, now after failureStart.
Rapid(now, timeout) ==
    IF now >= FailureWindow THEN Return("reconnect")
    ELSE /\ pc' = "rapid" /\ since' = now /\ UNCHANGED result
         /\ Begin(Min({timeout, FailureWindow - now}), FALSE)

\* performCheck goes on once it has both results.
CheckReturns ==
    /\ pc = "check" /\ verdict # "none" /\ ~probing
    /\ IF verdict = "failed" /\ ~cancelled THEN Rapid(0, Timeout) ELSE select
    /\ UNCHANGED <<config, ticker, cancelled, world, quiet>>

RapidSucceeds ==
    /\ pc = "rapid" /\ Succeeds /\ select
    /\ UNCHANGED <<config, ticker, cancelled, world>>

\* The window is looked at before the context is: a cancelled Run may still
\* report that the connection is down.
RapidFails ==
    /\ pc = "rapid" /\ Fails
    /\ IF cancelled /\ since < FailureWindow THEN select ELSE Rapid(since, t)
    /\ UNCHANGED <<config, ticker, cancelled, world>>

SelectTick ==
    /\ pc = "select" /\ pending /\ pending' = FALSE
    /\ pc' = "check" /\ Begin(Timeout, metrics)
    /\ UNCHANGED <<config, result, since, next, cancelled, world, quiet>>

\* Mutant: the loop only waits for ticks.
SelectDoneNot ==
    /\ pc = "select" /\ cancelled /\ pending /\ Return("nil")
    /\ UNCHANGED <<config, ticker, cancelled, world, quiet>>

SelectDone ==
    /\ pc = "select" /\ cancelled /\ Return("nil")
    /\ UNCHANGED <<config, ticker, cancelled, world, quiet>>

Code ==
    \/ CheckEnds \/ ProbeEnds \/ CheckReturns \/ RapidSucceeds \/ RapidFails
    \/ SelectTick \/ SelectDone

-----------------------------------------------------------------------------
(* Time, the network and the rest of the program.                          *)

Urgent ==
    \/ cancelled
    \/ pc = "select" /\ pending
    \/ pc = "check" /\ verdict # "none" /\ ~probing
    \/ Checking /\ (Answered \/ age = t)
    \/ probing /\ age = t

\* The ticker drops a tick when one is waiting.
Tick ==
    /\ pc # "done" /\ ~Urgent
    /\ age' = Capped(age + 1, Timeout)
    /\ since' = IF pc = "rapid" THEN since + 1 ELSE since
    /\ next' = IF next = 1 THEN Interval ELSE next - 1
    /\ pending' = (pending \/ next = 1)
    /\ upFor' = IF net = "up" THEN Capped(upFor + 1, MaxUp) ELSE 0
    /\ downFor' = IF net = "down" THEN Capped(downFor + 1, MaxDown) ELSE 0
    /\ quiet' = Capped(quiet + 1, FailureWindow)
    /\ UNCHANGED <<config, pc, result, t, verdict, probing, cancelled, net>>

\* The network goes down or comes back.
Outage ==
    /\ pc # "done" /\ net' = IF net = "up" THEN "down" ELSE "up"
    /\ upFor' = 0 /\ downFor' = 0
    /\ UNCHANGED <<config, pc, result, check, since, ticker, cancelled, quiet>>

Cancel ==
    /\ pc # "done" /\ ~cancelled /\ cancelled' = TRUE
    /\ UNCHANGED <<config, pc, result, check, since, ticker, world, quiet>>

Stopped == pc = "done" /\ UNCHANGED vars

Next == Code \/ Tick \/ Outage \/ Cancel \/ Stopped

\* Time passes, and the code takes the steps it can take.
Spec == Init /\ [][Next]_vars /\ WF_vars(Code) /\ WF_vars(Tick)

-----------------------------------------------------------------------------
(* Properties.                                                             *)

\* A reconnect is asked for only when no check at all has succeeded for the
\* failure window: "time in seconds to allow failing health checks before
\* reconnecting" (docs/env.md).  And a connection that is up is not torn down
\* because of an outage that is over: the network has not been up for as long
\* as one check and one answer take, although the last check gets only what is
\* left of the window.
AlarmJustified ==
    result = "reconnect" => quiet >= FailureWindow /\ upFor <= Timeout + Latency

\* An outage that lasts is reported after at most an interval, a check and the
\* failure window, whatever came before it and however the checks fail.
DetectedInTime == pc # "done" => downFor <= DetectionTime

\* Run ends when the connection it watches does, from wherever it is.
StopsWhenCancelled == cancelled ~> pc = "done"
=============================================================================
