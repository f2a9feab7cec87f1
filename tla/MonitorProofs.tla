---------------------------- MODULE MonitorProofs ---------------------------
(***************************************************************************)
(* Proofs about Monitor, for every interval, failure window, timeout and   *)
(* latency: an alarm is justified, and an outage is detected in time.      *)
(***************************************************************************)
EXTENDS Monitor, TLAPS

-----------------------------------------------------------------------------
(* The inductive invariant.                                                *)

TypeInv ==
    /\ Interval \in Nat \ {0} /\ FailureWindow \in Nat
    /\ pc \in {"check", "rapid", "select", "done"}
    /\ result \in {"none", "nil", "reconnect"} /\ (result # "none" => pc = "done")
    /\ t \in Nat /\ age \in Nat /\ verdict \in {"none", "ok", "failed"}
    /\ since \in Nat /\ next \in 1..Interval
    /\ net \in {"up", "down"} /\ upFor \in Nat /\ downFor \in Nat /\ quiet \in Nat

\* The network is up or down, and the two clocks agree.
NetInv == (net = "down" => upFor = 0) /\ (net = "up" => downFor = 0)

\* A check ends by its timeout; a rapid check ends by the end of the window,
\* and has its full timeout unless it reaches that end.
CheckInv ==
    /\ pc = "check" => t = Timeout /\ age <= t
    /\ pc = "rapid" =>
          /\ verdict = "none" /\ age <= t /\ t <= Timeout
          /\ age <= since /\ since + t <= FailureWindow + age
          /\ t < Timeout => since + t = FailureWindow + age

\* A network that was up when a check began answers it: past Latency, it has
\* come up only since.  It has not been up longer than the check that failed.
AnswerInv ==
    /\ Checking /\ age > Latency => upFor < age
    /\ pc = "check" /\ verdict = "failed" /\ ~cancelled => upFor <= age
    /\ pc = "rapid" => upFor <= Timeout + age

\* No check has succeeded since failureStart.
QuietInv == pc = "rapid" => quiet >= since

\* The first tick after a check began comes within an interval: as long as it
\* has not, the time to it and the time since then make up at most one.
TickInv ==
    /\ pc = "check" /\ ~pending => next + age <= Interval
    /\ pc = "rapid" /\ ~pending => next + age <= Interval

\* The longest time from an answer to the next check.
Lag == Max({Interval, Timeout}) - Latency

\* How long an outage that is still not detected can have lasted.  Once the
\* context is cancelled no time passes any more.
OutageInv ==
    ~cancelled =>
        /\ pc = "check" => downFor <= Lag + age
        /\ pc = "check" /\ verdict = "ok" => downFor + Latency <= age
        /\ pc = "rapid" => downFor <= Lag + Timeout + since
        /\ pc = "select" /\ pending => downFor <= Lag
        /\ pc = "select" /\ ~pending => downFor + Latency + next <= Interval

MonitorInv ==
    /\ TypeInv /\ NetInv /\ CheckInv /\ AnswerInv /\ QuietInv /\ TickInv /\ OutageInv
    /\ AlarmJustified /\ DetectedInTime

-----------------------------------------------------------------------------
(* Lemmas.                                                                 *)

\* The smaller of two numbers.
LEMMA MinOfTwo ==
    ASSUME NEW a \in Nat, NEW b \in Nat
    PROVE  Min({a, b}) = IF a <= b THEN a ELSE b
<1>1. CASE a <= b
  <2>1. a \in {a, b} /\ \A y \in {a, b} : a <= y
    BY <1>1
  <2>2. \A x \in {a, b} : (\A y \in {a, b} : x <= y) => x = a
    BY <1>1
  <2>3. QED BY <1>1, <2>1, <2>2 DEF Min
<1>2. CASE ~(a <= b)
  <2>1. b \in {a, b} /\ \A y \in {a, b} : b <= y
    BY <1>2
  <2>2. \A x \in {a, b} : (\A y \in {a, b} : x <= y) => x = b
    BY <1>2
  <2>3. QED BY <1>2, <2>1, <2>2 DEF Min
<1>3. QED BY <1>1, <1>2

\* The larger of two numbers.
LEMMA MaxOfTwo ==
    ASSUME NEW a \in Nat, NEW b \in Nat
    PROVE  Max({a, b}) = IF a >= b THEN a ELSE b
<1>1. CASE a >= b
  <2>1. a \in {a, b} /\ \A y \in {a, b} : a >= y
    BY <1>1
  <2>2. \A x \in {a, b} : (\A y \in {a, b} : x >= y) => x = a
    BY <1>1
  <2>3. QED BY <1>1, <2>1, <2>2 DEF Max
<1>2. CASE ~(a >= b)
  <2>1. b \in {a, b} /\ \A y \in {a, b} : b >= y
    BY <1>2
  <2>2. \A x \in {a, b} : (\A y \in {a, b} : x >= y) => x = b
    BY <1>2
  <2>3. QED BY <1>2, <2>1, <2>2 DEF Max
<1>3. QED BY <1>1, <1>2

\* The configuration does not change, and with it what is computed from it.
LEMMA LagBounds ==
    ASSUME TypeInv
    PROVE  /\ Lag \in Nat /\ Lag + Latency >= Interval /\ Lag + Latency >= Timeout
           /\ DetectionTime = Lag + Timeout + FailureWindow
           /\ UNCHANGED <<Interval, FailureWindow>> => Lag' = Lag /\ DetectionTime' = DetectionTime
<1>1. Interval \in Nat /\ Timeout \in Nat /\ Latency \in Nat /\ Latency < Timeout
  BY TimeAssumption DEF TypeInv
<1>2. Max({Interval, Timeout}) = IF Interval >= Timeout THEN Interval ELSE Timeout
  BY <1>1, MaxOfTwo
<1>3. UNCHANGED <<Interval, FailureWindow>> => Lag' = Lag /\ DetectionTime' = DetectionTime
  BY DEF Lag, DetectionTime
<1>4. QED BY <1>1, <1>2, <1>3 DEF Lag, DetectionTime, TypeInv

\* The loop of performRapidChecks: the window is over, or another check begins.
LEMMA RapidDoes ==
    ASSUME TypeInv, NEW now \in Nat, NEW timeout \in Nat, Rapid(now, timeout)
    PROVE  \/ /\ now >= FailureWindow /\ pc' = "done" /\ result' = "reconnect"
              /\ UNCHANGED <<t, age, verdict, probing, since>>
           \/ /\ now < FailureWindow /\ pc' = "rapid" /\ since' = now /\ UNCHANGED result
              /\ t' \in Nat /\ age' = 0 /\ verdict' = "none"
              /\ t' = IF timeout <= FailureWindow - now THEN timeout ELSE FailureWindow - now
<1>1. CASE now >= FailureWindow
  BY <1>1 DEF Rapid, Return, check
<1>2. CASE now < FailureWindow
  <2>1. FailureWindow - now \in Nat
    BY <1>2 DEF TypeInv
  <2>2. /\ pc' = "rapid" /\ since' = now /\ UNCHANGED result
        /\ t' = Min({timeout, FailureWindow - now}) /\ age' = 0 /\ verdict' = "none"
    BY <1>2 DEF Rapid, Begin, TypeInv
  <2>3. QED BY <1>2, <2>1, <2>2, MinOfTwo
<1>3. QED BY <1>1, <1>2 DEF TypeInv

\* What follows a regular check.
LEMMA CheckCourse ==
    ASSUME TypeInv, CheckReturns
    PROVE  /\ pc = "check" /\ verdict # "none"
           /\ UNCHANGED <<Interval, FailureWindow, next, pending, cancelled, net, upFor, downFor, quiet>>
           /\ \/ /\ verdict = "ok" \/ cancelled
                 /\ pc' = "select" /\ UNCHANGED <<result, t, age, verdict, probing, since>>
              \/ /\ verdict = "failed" /\ ~cancelled
                 /\ FailureWindow = 0 /\ pc' = "done" /\ result' = "reconnect"
                 /\ UNCHANGED <<t, age, verdict, probing, since>>
              \/ /\ verdict = "failed" /\ ~cancelled
                 /\ FailureWindow > 0 /\ pc' = "rapid" /\ since' = 0 /\ UNCHANGED result
                 /\ t' \in Nat /\ age' = 0 /\ verdict' = "none"
                 /\ t' = IF Timeout <= FailureWindow THEN Timeout ELSE FailureWindow
<1>1. /\ pc = "check" /\ verdict # "none"
      /\ UNCHANGED <<Interval, FailureWindow, next, pending, cancelled, net, upFor, downFor, quiet>>
  BY DEF CheckReturns, config, ticker, world
<1>2. CASE verdict = "failed" /\ ~cancelled
  <2>1. Rapid(0, Timeout)
    BY <1>2 DEF CheckReturns
  <2>2. QED BY <1>1, <1>2, <2>1, RapidDoes, TimeAssumption DEF TypeInv
<1>3. CASE ~(verdict = "failed" /\ ~cancelled)
  BY <1>1, <1>3 DEF CheckReturns, select, check, TypeInv
<1>4. QED BY <1>2, <1>3

\* What follows a rapid check that has failed.
LEMMA RapidCourse ==
    ASSUME TypeInv, RapidFails
    PROVE  /\ pc = "rapid" /\ verdict = "none" /\ (age = t \/ cancelled \/ net = "down")
           /\ UNCHANGED <<Interval, FailureWindow, next, pending, cancelled, net, upFor, downFor, quiet>>
           /\ \/ /\ cancelled /\ since < FailureWindow
                 /\ pc' = "select" /\ UNCHANGED <<result, t, age, verdict, probing, since>>
              \/ /\ since >= FailureWindow /\ pc' = "done" /\ result' = "reconnect"
                 /\ UNCHANGED <<t, age, verdict, probing, since>>
              \/ /\ ~cancelled
                 /\ since < FailureWindow /\ pc' = "rapid" /\ since' = since /\ UNCHANGED result
                 /\ t' \in Nat /\ age' = 0 /\ verdict' = "none"
                 /\ t' = IF t <= FailureWindow - since THEN t ELSE FailureWindow - since
<1>1. /\ pc = "rapid" /\ verdict = "none" /\ (age = t \/ cancelled \/ net = "down")
      /\ UNCHANGED <<Interval, FailureWindow, next, pending, cancelled, net, upFor, downFor, quiet>>
  BY DEF RapidFails, Fails, Checking, config, ticker, world
<1>2. CASE cancelled /\ since < FailureWindow
  BY <1>1, <1>2 DEF RapidFails, select, check
<1>3. CASE ~(cancelled /\ since < FailureWindow)
  <2>1. Rapid(since, t)
    BY <1>3 DEF RapidFails
  <2>2. since \in Nat /\ t \in Nat
    BY DEF TypeInv
  <2>3. QED BY <1>1, <1>3, <2>1, <2>2, RapidDoes
<1>4. QED BY <1>2, <1>3

\* What a unit of time does, and when it can pass.
LEMMA TickCourse ==
    ASSUME TypeInv, CheckInv, Tick
    PROVE  /\ pc # "done" /\ ~cancelled
           /\ UNCHANGED <<Interval, FailureWindow, pc, result, t, verdict, cancelled, net>>
           /\ Checking => age < t /\ ~Answered
           /\ pc = "check" => age < t
           /\ pc = "select" => ~pending
           /\ age' = (IF age < Timeout THEN age + 1 ELSE Timeout)
           /\ since' = (IF pc = "rapid" THEN since + 1 ELSE since)
           /\ next' = (IF next = 1 THEN Interval ELSE next - 1)
           /\ pending' <=> pending \/ next = 1
           /\ upFor' \in Nat /\ upFor' <= upFor + 1 /\ (net = "down" => upFor' = 0)
           /\ downFor' \in Nat /\ downFor' <= downFor + 1 /\ (net = "up" => downFor' = 0)
           /\ quiet' = (IF quiet < FailureWindow THEN quiet + 1 ELSE FailureWindow)
<1> USE TimeAssumption DEF TypeInv
<1>1. /\ pc # "done" /\ ~Urgent /\ ~cancelled
      /\ UNCHANGED <<Interval, FailureWindow, pc, result, t, verdict, cancelled, net>>
  BY DEF Tick, Urgent, config
<1>2. Checking => age < t /\ ~Answered
  BY <1>1 DEF Urgent, Checking, CheckInv
<1>3. pc = "check" => age < t
  BY <1>1, <1>2 DEF Urgent, Checking, CheckInv
<1>4. age' = (IF age < Timeout THEN age + 1 ELSE Timeout)
  BY MinOfTwo DEF Tick, Capped
<1>5. /\ since' = (IF pc = "rapid" THEN since + 1 ELSE since)
      /\ next' = (IF next = 1 THEN Interval ELSE next - 1)
      /\ pending' <=> pending \/ next = 1
  BY DEF Tick
<1>6. upFor' \in Nat /\ upFor' <= upFor + 1 /\ (net = "down" => upFor' = 0)
  <2>1. MaxUp \in Nat
    BY DEF MaxUp
  <2>2. Capped(upFor + 1, MaxUp) \in Nat /\ Capped(upFor + 1, MaxUp) <= upFor + 1
    BY <2>1, MinOfTwo DEF Capped
  <2>3. QED BY <2>2 DEF Tick
<1>7. downFor' \in Nat /\ downFor' <= downFor + 1 /\ (net = "up" => downFor' = 0)
  <2>1. MaxDown \in Nat
    BY LagBounds DEF MaxDown
  <2>2. Capped(downFor + 1, MaxDown) \in Nat /\ Capped(downFor + 1, MaxDown) <= downFor + 1
    BY <2>1, MinOfTwo DEF Capped
  <2>3. QED BY <2>2 DEF Tick
<1>8. quiet' = (IF quiet < FailureWindow THEN quiet + 1 ELSE FailureWindow)
  BY MinOfTwo DEF Tick, Capped
<1>9. pc = "select" => ~pending
  BY <1>1 DEF Urgent
<1>10. QED BY <1>1, <1>2, <1>3, <1>4, <1>5, <1>6, <1>7, <1>8, <1>9

-----------------------------------------------------------------------------
(* Every step keeps the invariant.                                         *)

\* Types are kept.
LEMMA TypeStep ==
    ASSUME TypeInv, CheckInv, [Next]_vars
    PROVE  TypeInv'
<1> USE TimeAssumption DEF TypeInv, CheckInv, config, check, ticker, world
<1>1. CASE CheckEnds
  BY <1>1 DEF CheckEnds, Succeeds, Fails, Answers, Checking
<1>2. CASE ProbeEnds
  BY <1>2 DEF ProbeEnds
<1>3. CASE CheckReturns
  BY <1>3, CheckCourse
<1>4. CASE RapidSucceeds
  BY <1>4 DEF RapidSucceeds, Succeeds, Answers, Checking, select
<1>5. CASE RapidFails
  BY <1>5, RapidCourse
<1>6. CASE SelectTick
  BY <1>6 DEF SelectTick, Begin
<1>7. CASE SelectDone
  BY <1>7 DEF SelectDone, Return
<1>8. CASE Tick
  BY <1>8, TickCourse
<1>9. CASE Outage
  BY <1>9 DEF Outage
<1>10. CASE Cancel
  BY <1>10 DEF Cancel
<1>11. CASE Stopped
  BY <1>11 DEF Stopped, vars
<1>12. CASE UNCHANGED vars
  BY <1>12 DEF vars
<1>13. QED
  BY <1>1, <1>2, <1>3, <1>4, <1>5, <1>6, <1>7, <1>8, <1>9, <1>10, <1>11, <1>12
     DEF Next, Code

\* The clocks of the network agree with it.
LEMMA NetStep ==
    ASSUME TypeInv, CheckInv, NetInv, [Next]_vars
    PROVE  NetInv'
<1> USE TimeAssumption DEF NetInv, TypeInv, CheckInv, config, check, ticker, world
<1>1. CASE CheckEnds
  BY <1>1 DEF CheckEnds, Succeeds, Fails, Answers, Checking
<1>2. CASE ProbeEnds
  BY <1>2 DEF ProbeEnds
<1>3. CASE CheckReturns
  BY <1>3, CheckCourse
<1>4. CASE RapidSucceeds
  BY <1>4 DEF RapidSucceeds, Succeeds, Answers, Checking, select
<1>5. CASE RapidFails
  BY <1>5, RapidCourse
<1>6. CASE SelectTick
  BY <1>6 DEF SelectTick, Begin
<1>7. CASE SelectDone
  BY <1>7 DEF SelectDone, Return
<1>8. CASE Tick
  BY <1>8, TickCourse
<1>9. CASE Outage
  BY <1>9 DEF Outage
<1>10. CASE Cancel
  BY <1>10 DEF Cancel
<1>11. CASE Stopped
  BY <1>11 DEF Stopped, vars
<1>12. CASE UNCHANGED vars
  BY <1>12 DEF vars
<1>13. QED
  BY <1>1, <1>2, <1>3, <1>4, <1>5, <1>6, <1>7, <1>8, <1>9, <1>10, <1>11, <1>12
     DEF Next, Code

\* Checks end by their timeouts, rapid checks by the end of the window.
LEMMA CheckStep ==
    ASSUME TypeInv, CheckInv, [Next]_vars
    PROVE  CheckInv'
<1> USE TimeAssumption DEF CheckInv, TypeInv, Checking, config, check, ticker, world
<1>1. CASE CheckEnds
  BY <1>1 DEF CheckEnds, Succeeds, Fails, Answers, Checking
<1>2. CASE ProbeEnds
  BY <1>2 DEF ProbeEnds
<1>3. CASE CheckReturns
  BY <1>3, CheckCourse
<1>4. CASE RapidSucceeds
  BY <1>4 DEF RapidSucceeds, Succeeds, Answers, Checking, select
<1>5. CASE RapidFails
  BY <1>5, RapidCourse
<1>6. CASE SelectTick
  BY <1>6 DEF SelectTick, Begin
<1>7. CASE SelectDone
  BY <1>7 DEF SelectDone, Return
<1>8. CASE Tick
  BY <1>8, TickCourse
<1>9. CASE Outage
  BY <1>9 DEF Outage
<1>10. CASE Cancel
  BY <1>10 DEF Cancel
<1>11. CASE Stopped
  BY <1>11 DEF Stopped, vars
<1>12. CASE UNCHANGED vars
  BY <1>12 DEF vars
<1>13. QED
  BY <1>1, <1>2, <1>3, <1>4, <1>5, <1>6, <1>7, <1>8, <1>9, <1>10, <1>11, <1>12
     DEF Next, Code

\* A check that a network which is up should have answered does not fail.
LEMMA AnswerStep ==
    ASSUME TypeInv, NetInv, CheckInv, AnswerInv, [Next]_vars
    PROVE  AnswerInv'
<1> USE TimeAssumption DEF AnswerInv, TypeInv, NetInv, CheckInv, Checking, Answers, Answered, config,
            check, ticker, world
<1>1. CASE CheckEnds
  BY <1>1 DEF CheckEnds, Succeeds, Fails, Answers, Checking
<1>2. CASE ProbeEnds
  BY <1>2 DEF ProbeEnds
<1>3. CASE CheckReturns
  BY <1>3, CheckCourse
<1>4. CASE RapidSucceeds
  BY <1>4 DEF RapidSucceeds, Succeeds, Answers, Checking, select
<1>5. CASE RapidFails
  BY <1>5, RapidCourse
<1>6. CASE SelectTick
  BY <1>6 DEF SelectTick, Begin
<1>7. CASE SelectDone
  BY <1>7 DEF SelectDone, Return
<1>8. CASE Tick
  BY <1>8, TickCourse
<1>9. CASE Outage
  BY <1>9 DEF Outage
<1>10. CASE Cancel
  BY <1>10 DEF Cancel
<1>11. CASE Stopped
  BY <1>11 DEF Stopped, vars
<1>12. CASE UNCHANGED vars
  BY <1>12 DEF vars
<1>13. QED
  BY <1>1, <1>2, <1>3, <1>4, <1>5, <1>6, <1>7, <1>8, <1>9, <1>10, <1>11, <1>12
     DEF Next, Code

\* Nothing has succeeded since failureStart.
LEMMA QuietStep ==
    ASSUME TypeInv, CheckInv, QuietInv, [Next]_vars
    PROVE  QuietInv'
<1> USE TimeAssumption DEF QuietInv, TypeInv, CheckInv, Checking, config, check, ticker, world
<1>1. CASE CheckEnds
  BY <1>1 DEF CheckEnds, Succeeds, Fails, Answers, Checking
<1>2. CASE ProbeEnds
  BY <1>2 DEF ProbeEnds
<1>3. CASE CheckReturns
  BY <1>3, CheckCourse
<1>4. CASE RapidSucceeds
  BY <1>4 DEF RapidSucceeds, Succeeds, Answers, Checking, select
<1>5. CASE RapidFails
  BY <1>5, RapidCourse
<1>6. CASE SelectTick
  BY <1>6 DEF SelectTick, Begin
<1>7. CASE SelectDone
  BY <1>7 DEF SelectDone, Return
<1>8. CASE Tick
  BY <1>8, TickCourse
<1>9. CASE Outage
  BY <1>9 DEF Outage
<1>10. CASE Cancel
  BY <1>10 DEF Cancel
<1>11. CASE Stopped
  BY <1>11 DEF Stopped, vars
<1>12. CASE UNCHANGED vars
  BY <1>12 DEF vars
<1>13. QED
  BY <1>1, <1>2, <1>3, <1>4, <1>5, <1>6, <1>7, <1>8, <1>9, <1>10, <1>11, <1>12
     DEF Next, Code

\* Ticks come every interval, and one that is missed waits.
LEMMA TickStep ==
    ASSUME TypeInv, CheckInv, TickInv, [Next]_vars
    PROVE  TickInv'
<1> USE TimeAssumption DEF TickInv, TypeInv, CheckInv, Checking, config, check, ticker, world
<1>1. CASE CheckEnds
  BY <1>1 DEF CheckEnds, Succeeds, Fails, Answers, Checking
<1>2. CASE ProbeEnds
  BY <1>2 DEF ProbeEnds
<1>3. CASE CheckReturns
  BY <1>3, CheckCourse
<1>4. CASE RapidSucceeds
  BY <1>4 DEF RapidSucceeds, Succeeds, Answers, Checking, select
<1>5. CASE RapidFails
  BY <1>5, RapidCourse
<1>6. CASE SelectTick
  BY <1>6 DEF SelectTick, Begin
<1>7. CASE SelectDone
  BY <1>7 DEF SelectDone, Return
<1>8. CASE Tick
  BY <1>8, TickCourse
<1>9. CASE Outage
  BY <1>9 DEF Outage
<1>10. CASE Cancel
  BY <1>10 DEF Cancel
<1>11. CASE Stopped
  BY <1>11 DEF Stopped, vars
<1>12. CASE UNCHANGED vars
  BY <1>12 DEF vars
<1>13. QED
  BY <1>1, <1>2, <1>3, <1>4, <1>5, <1>6, <1>7, <1>8, <1>9, <1>10, <1>11, <1>12
     DEF Next, Code

\* An outage is followed from the last answer to the end of the window.
LEMMA OutageStep ==
    ASSUME TypeInv, NetInv, CheckInv, TickInv, OutageInv, [Next]_vars
    PROVE  OutageInv'
<1> USE TimeAssumption, LagBounds DEF OutageInv, TypeInv, NetInv, CheckInv, TickInv, Checking, config, check, ticker,
            world
<1>1. CASE CheckEnds
  BY <1>1 DEF CheckEnds, Succeeds, Fails, Answers, Checking
<1>2. CASE ProbeEnds
  BY <1>2 DEF ProbeEnds
<1>3. CASE CheckReturns
  BY <1>3, CheckCourse
<1>4. CASE RapidSucceeds
  BY <1>4 DEF RapidSucceeds, Succeeds, Answers, Checking, select
<1>5. CASE RapidFails
  BY <1>5, RapidCourse
<1>6. CASE SelectTick
  BY <1>6 DEF SelectTick, Begin
<1>7. CASE SelectDone
  BY <1>7 DEF SelectDone, Return
<1>8. CASE Tick
  BY <1>8, TickCourse
<1>9. CASE Outage
  BY <1>9 DEF Outage
<1>10. CASE Cancel
  BY <1>10 DEF Cancel
<1>11. CASE Stopped
  BY <1>11 DEF Stopped, vars
<1>12. CASE UNCHANGED vars
  BY <1>12 DEF vars
<1>13. QED
  BY <1>1, <1>2, <1>3, <1>4, <1>5, <1>6, <1>7, <1>8, <1>9, <1>10, <1>11, <1>12
     DEF Next, Code

\* The alarm is raised at the end of the window only.
LEMMA AlarmStep ==
    ASSUME TypeInv, NetInv, CheckInv, AnswerInv, QuietInv, AlarmJustified, [Next]_vars
    PROVE  AlarmJustified'
<1> USE TimeAssumption DEF AlarmJustified, TypeInv, NetInv, CheckInv, AnswerInv, QuietInv, Checking,
            config, check, ticker, world
<1>1. CASE CheckEnds
  BY <1>1 DEF CheckEnds, Succeeds, Fails, Answers, Checking
<1>2. CASE ProbeEnds
  BY <1>2 DEF ProbeEnds
<1>3. CASE CheckReturns
  BY <1>3, CheckCourse
<1>4. CASE RapidSucceeds
  BY <1>4 DEF RapidSucceeds, Succeeds, Answers, Checking, select
<1>5. CASE RapidFails
  BY <1>5, RapidCourse
<1>6. CASE SelectTick
  BY <1>6 DEF SelectTick, Begin
<1>7. CASE SelectDone
  BY <1>7 DEF SelectDone, Return
<1>8. CASE Tick
  BY <1>8, TickCourse
<1>9. CASE Outage
  BY <1>9 DEF Outage
<1>10. CASE Cancel
  BY <1>10 DEF Cancel
<1>11. CASE Stopped
  BY <1>11 DEF Stopped, vars
<1>12. CASE UNCHANGED vars
  BY <1>12 DEF vars
<1>13. QED
  BY <1>1, <1>2, <1>3, <1>4, <1>5, <1>6, <1>7, <1>8, <1>9, <1>10, <1>11, <1>12
     DEF Next, Code

\* No time passes that the invariant does not account for.
LEMMA DetectionStep ==
    ASSUME TypeInv, NetInv, CheckInv, TickInv, OutageInv, DetectedInTime, [Next]_vars
    PROVE  DetectedInTime'
<1> USE TimeAssumption, LagBounds DEF DetectedInTime, TypeInv, NetInv, CheckInv, TickInv, OutageInv, Checking,
            config, check, ticker, world
<1>1. CASE CheckEnds
  BY <1>1 DEF CheckEnds, Succeeds, Fails, Answers, Checking
<1>2. CASE ProbeEnds
  BY <1>2 DEF ProbeEnds
<1>3. CASE CheckReturns
  BY <1>3, CheckCourse
<1>4. CASE RapidSucceeds
  BY <1>4 DEF RapidSucceeds, Succeeds, Answers, Checking, select
<1>5. CASE RapidFails
  BY <1>5, RapidCourse
<1>6. CASE SelectTick
  BY <1>6 DEF SelectTick, Begin
<1>7. CASE SelectDone
  BY <1>7 DEF SelectDone, Return
<1>8. CASE Tick
  BY <1>8, TickCourse
<1>9. CASE Outage
  BY <1>9 DEF Outage
<1>10. CASE Cancel
  BY <1>10 DEF Cancel
<1>11. CASE Stopped
  BY <1>11 DEF Stopped, vars
<1>12. CASE UNCHANGED vars
  BY <1>12 DEF vars
<1>13. QED
  BY <1>1, <1>2, <1>3, <1>4, <1>5, <1>6, <1>7, <1>8, <1>9, <1>10, <1>11, <1>12
     DEF Next, Code

-----------------------------------------------------------------------------
(* The theorems.                                                           *)

\* The invariant holds at first, ...
LEMMA MonitorInit == Init => MonitorInv
<1> SUFFICES ASSUME Init PROVE MonitorInv
  OBVIOUS
<1> USE TimeAssumption DEF Init
<1>1. TypeInv
  BY DEF TypeInv
<1>2. NetInv /\ CheckInv /\ AnswerInv /\ QuietInv /\ TickInv /\ AlarmJustified
  BY DEF NetInv, CheckInv, AnswerInv, Checking, QuietInv, TickInv, AlarmJustified, TypeInv
<1>3. OutageInv /\ DetectedInTime
  BY <1>1, LagBounds DEF OutageInv, DetectedInTime, TypeInv
<1>4. QED BY <1>1, <1>2, <1>3 DEF MonitorInv

\* ... and every step keeps it.
LEMMA MonitorStep == MonitorInv /\ [Next]_vars => MonitorInv'
BY TypeStep, NetStep, CheckStep, AnswerStep, QuietStep, TickStep, OutageStep, AlarmStep,
   DetectionStep DEF MonitorInv

\* So it always holds.
LEMMA MonitorAlways == Spec => []MonitorInv
BY MonitorInit, MonitorStep, PTL DEF Spec

\* Run asks for a reconnect only after a whole failure window in which no check
\* succeeded, and not on a network that has been back for longer than one check
\* and one answer take; whatever interval, window and timeout are configured.
THEOREM AlarmIsJustified == Spec => []AlarmJustified
<1>1. MonitorInv => AlarmJustified
  BY DEF MonitorInv
<1>2. QED BY <1>1, MonitorAlways, PTL

\* An outage that lasts ends Run after at most what remains of an interval (or of
\* the check before), a check and the failure window, for all values of them.
THEOREM OutageIsDetected == Spec => []DetectedInTime
<1>1. MonitorInv => DetectedInTime
  BY DEF MonitorInv
<1>2. QED BY <1>1, MonitorAlways, PTL
=============================================================================
