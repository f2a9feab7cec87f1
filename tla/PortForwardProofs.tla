------------------------- MODULE PortForwardProofs -------------------------
(***************************************************************************)
(* For every choice of the intervals that satisfies TimesAssumption, the   *)
(* port forwarding service gives up in time, never keeps an announced port *)
(* the gateway has dropped, and never binds with an expired signature.     *)
(*                                                                         *)
(* None of the three is inductive.  AgeInv says how old the last bind can  *)
(* be at each point of Run, LeaseInv that the lease of the announced port  *)
(* is no older than that, and SignatureInv that a signature in use was     *)
(* issued or checked with enough life left: while it is being bound, what  *)
(* is left of it and the age of the last bind add up to a constant.        *)
(***************************************************************************)
EXTENDS PortForward, TLAPS

\* An operation is under way exactly in retryWithDeadline.
OpInv ==
    /\ op # "none" <=> pc \in {"request", "wait"}
    /\ op = "bindPort" => port \in Ports
    /\ pc = "request" /\ op = "getSignature" => renewing
    /\ pc = "wait" /\ op = "getSignature" => renewing
    /\ pc \in {"start", "acquire"} => renewing

\* acquirePort may start its bind at the very end of the getSignature request.
Extra == IF op = "bindPort" /\ renewing THEN Timeout ELSE 0

\* How old the last bind can be at each point of Run.
AgeInv ==
    /\ pc = "acquire" => bindAge <= PortBindDuration
    /\ pc = "request" => bindAge <= PortBindDuration + busy + Extra
    /\ pc = "wait" => bindAge <= PortBindDuration + Timeout + Extra
    /\ pc = "wait" /\ wait = 0 => bindAge <= PortBindDuration
    /\ pc = "announce" => bindAge = 0
    /\ pc = "loop" => IF ticked THEN bindAge <= BindInterval
                                ELSE tick > 0 /\ bindAge + tick <= BindInterval

\* The lease of the announced port is no older than the last bind.
LeaseInv ==
    /\ pc = "start" => open = None
    /\ pc = "announce" => port \in Ports /\ leases[port] = 0
    /\ pc = "loop" => open \in Ports /\ port = open
    /\ pc \in {"request", "wait"} /\ ~renewing => open \in Ports /\ port = open
    /\ pc = "done" => open = None
    /\ open # None => IF pc = "announce"
                        THEN leases[open] <= PortBindDuration + 2 * Timeout
                        ELSE leases[open] <= bindAge
    /\ open # None => tick > 0

\* What is left of a signature that is being bound, plus the last bind's age.
SignatureInv ==
    op = "bindPort" =>
        expires + bindAge >= PortBindDuration + 2 * Timeout + (IF renewing THEN 1 ELSE 0)

IInv == TypeOK /\ OpInv /\ AgeInv /\ LeaseInv /\ SignatureInv

-----------------------------------------------------------------------------
\* The assumption on the times, constant by constant.
LEMMA Times ==
    /\ BindInterval \in Nat /\ BindInterval > 0
    /\ PortBindDuration \in Nat /\ PortBindDuration > 0
    /\ InitialLimit \in Nat /\ InitialLimit > 0
    /\ RetryInterval \in Nat /\ RetryInterval > 0
    /\ Timeout \in Nat /\ Timeout > 0
    /\ SafetyHours \in Nat /\ SafetyHours > 0
    /\ SignatureLife \in Nat /\ SignatureLife > 0
    /\ LeaseLife \in Nat /\ LeaseLife > 0
    /\ MaxPorts \in Nat /\ MaxPorts > 0
    /\ InitialLimit < PortBindDuration
    /\ BindInterval <= PortBindDuration
    /\ PortBindDuration + 2 * Timeout < LeaseLife
    /\ PortBindDuration + 2 * Timeout <= SafetyHours
    /\ SafetyHours < SignatureLife
BY TimesAssumption DEF TimesAssumption

\* The initial state satisfies the invariant.
LEMMA InitIInv == Init => IInv
<1> SUFFICES ASSUME Init PROVE IInv
    OBVIOUS
<1>1. TypeOK
  <2>1. leases \in [Ports -> 0 .. Cap] /\ bindAge \in 0 .. Cap
    BY Times DEF Init, Cap
  <2>2. issued \in 0 .. MaxPorts /\ tick \in 0 .. BindInterval /\ expires \in 0 .. SignatureLife
    BY Times DEF Init
  <2>3. busy \in 0 .. Timeout /\ wait \in 0 .. RetryInterval
    BY Times DEF Init
  <2> QED BY <2>1, <2>2, <2>3 DEF Init, TypeOK
<1>2. OpInv /\ AgeInv /\ LeaseInv /\ SignatureInv
  BY DEF Init, OpInv, AgeInv, LeaseInv, SignatureInv
<1> QED BY <1>1, <1>2 DEF IInv

\* Ageing is bounded and monotone.
LEMMA OlderFacts ==
    ASSUME NEW a \in 0 .. Cap, NEW b \in 0 .. Cap
    PROVE  /\ Older(a) \in 0 .. Cap
           /\ a <= b => Older(a) <= Older(b)
           /\ Older(a) <= a + 1
           /\ a < Cap => Older(a) = a + 1
BY Times DEF Older, Cap

\* Every step preserves the invariant.
LEMMA NextIInv == IInv /\ [Next]_vars => IInv'
<1> SUFFICES ASSUME IInv, [Next]_vars PROVE IInv'
    OBVIOUS
<1> USE Times DEF IInv
<1>1. CASE Start
  BY <1>1 DEF Start, InitialBindTime, TypeOK, OpInv, AgeInv, LeaseInv, SignatureInv, Extra,
     Cap, Ports, None, ticker, gateway
<1>2. CASE StartFails
  BY <1>2 DEF StartFails, TypeOK, OpInv, AgeInv, LeaseInv, SignatureInv, Extra,
     Cap, Ports, None, ticker, gateway, state
<1>3. CASE Acquire
  BY <1>3 DEF Acquire, Request, TypeOK, OpInv, AgeInv, LeaseInv, SignatureInv, Extra,
     Cap, Ports, None, ticker, gateway, state
<1>4. CASE TokenExpired
  BY <1>4 DEF TokenExpired, Leave, TypeOK, OpInv, AgeInv, LeaseInv, SignatureInv, Extra,
     Cap, Ports, None, ticker, gateway, state
<1>5. CASE Keepalive
  <2>1. TypeOK' /\ OpInv'
    <3>1. CASE Due
      BY <1>5, <3>1 DEF Keepalive, TypeOK, OpInv, gateway, state
    <3>2. CASE ~Due
      <4>1. busy' \in 0 .. Timeout
        BY <1>5, <3>2 DEF Keepalive, Request
      <4>2. TypeOK'
        BY <1>5, <3>2, <4>1 DEF Keepalive, Request, TypeOK, gateway, state
      <4>3. OpInv'
        BY <1>5, <3>2 DEF Keepalive, Request, OpInv, LeaseInv, state
      <4> QED BY <4>2, <4>3
    <3> QED BY <3>1, <3>2
  <2>2. AgeInv'
    BY <1>5 DEF Keepalive, Due, Request, TypeOK, AgeInv, Extra, gateway, state
  <2>3. LeaseInv'
    BY <1>5 DEF Keepalive, Due, Request, TypeOK, LeaseInv, gateway, state
  <2>4. SignatureInv'
    BY <1>5 DEF Keepalive, Due, Request, TypeOK, OpInv, SignatureInv, gateway, state
  <2> QED BY <2>1, <2>2, <2>3, <2>4
<1>6. CASE LoopEnds
  BY <1>6 DEF LoopEnds, Leave, TypeOK, OpInv, AgeInv, LeaseInv, SignatureInv, Extra,
     Cap, Ports, None, ticker, gateway, state
<1>7. CASE Signed
  <2>1. TypeOK' /\ OpInv'
    BY <1>7 DEF Signed, Request, TypeOK, OpInv, Ports, None, ticker
  <2>2. AgeInv'
    BY <1>7 DEF Signed, Request, TypeOK, OpInv, AgeInv, Extra, ticker
  <2>3. LeaseInv'
    BY <1>7 DEF Signed, Request, TypeOK, OpInv, LeaseInv, ticker
  <2>4. SignatureInv'
    BY <1>7 DEF Signed, Request, TypeOK, OpInv, SignatureInv, Cap
  <2> QED BY <2>1, <2>2, <2>3, <2>4
<1>8. CASE BadPayload
  BY <1>8 DEF BadPayload, Leave, TypeOK, OpInv, AgeInv, LeaseInv, SignatureInv, Extra,
     Cap, Ports, None, ticker, gateway, state
<1>9. CASE APIError
  BY <1>9 DEF APIError, Leave, TypeOK, OpInv, AgeInv, LeaseInv, SignatureInv, Extra,
     Cap, Ports, None, ticker, gateway, state
<1>10. CASE Bound
  <2>1. TypeOK' /\ OpInv'
    BY <1>10 DEF Bound, TypeOK, OpInv, Cap, Ports, ticker
  <2>2. AgeInv'
    BY <1>10 DEF Bound, TypeOK, OpInv, AgeInv, LeaseInv, Extra, ticker, Ports, None
  <2>3. LeaseInv'
    BY <1>10 DEF Bound, TypeOK, OpInv, AgeInv, LeaseInv, Extra, ticker, Ports, None, Cap
  <2>4. SignatureInv'
    BY <1>10 DEF Bound, SignatureInv
  <2> QED BY <2>1, <2>2, <2>3, <2>4
<1>11. CASE RequestFails
  <2>1. TypeOK' /\ OpInv'
    BY <1>11 DEF RequestFails, TypeOK, OpInv, Cap, Ports, ticker, state
  <2>2. AgeInv'
    BY <1>11 DEF RequestFails, TypeOK, OpInv, AgeInv, Extra, ticker, state
  <2>3. LeaseInv'
    BY <1>11 DEF RequestFails, TypeOK, OpInv, LeaseInv, ticker, state, Ports, None, Cap
  <2>4. SignatureInv'
    BY <1>11 DEF RequestFails, SignatureInv, state
  <2> QED BY <2>1, <2>2, <2>3, <2>4
<1>12. CASE RetryNow
  BY <1>12 DEF RetryNow, Request, TypeOK, OpInv, AgeInv, LeaseInv, SignatureInv, Extra,
     Cap, Ports, None, ticker, gateway, state
<1>13. CASE RetryEnds
  BY <1>13 DEF RetryEnds, Leave, TypeOK, OpInv, AgeInv, LeaseInv, SignatureInv, Extra,
     Cap, Ports, None, ticker, gateway, state
<1>14. CASE AnnouncePort
  <2>1. TypeOK' /\ OpInv'
    <3>1. tick' \in 0 .. BindInterval
      BY <1>14 DEF AnnouncePort, TypeOK, ticker
    <3>2. ticked' \in BOOLEAN
      BY <1>14, Zenon DEF AnnouncePort, TypeOK, ticker
    <3> QED BY <1>14, <3>1, <3>2 DEF AnnouncePort, TypeOK, OpInv, gateway, state
  <2>2. AgeInv'
    BY <1>14 DEF AnnouncePort, TypeOK, AgeInv, LeaseInv, None, ticker, state
  <2>3. LeaseInv'
    BY <1>14 DEF AnnouncePort, TypeOK, AgeInv, LeaseInv, Ports, None, ticker, gateway, state
  <2>4. SignatureInv'
    BY <1>14 DEF AnnouncePort, OpInv, SignatureInv, state
  <2> QED BY <2>1, <2>2, <2>3, <2>4
<1>15. CASE Clock
  <2> USE <1>15 DEF Clock, Urgent
  <2>0. \A p \in Ports : leases[p] \in 0 .. Cap
    BY DEF TypeOK
  <2>1. bindAge \in 0 .. Cap /\ bindAge' \in 0 .. Cap /\ bindAge' <= bindAge + 1
    BY OlderFacts DEF TypeOK
  <2>2. TypeOK'
    <3>1. leases' \in [Ports -> 0 .. Cap]
      BY <2>0, OlderFacts
    <3>2. tick' \in 0 .. BindInterval
      BY DEF TypeOK
    <3>3. ticked' \in BOOLEAN
      <4>1. ticked' = TRUE \/ ticked' = ticked
        BY SMT
      <4> QED BY <4>1, Zenon DEF TypeOK
    <3>4. busy' \in 0 .. Timeout /\ wait' \in 0 .. RetryInterval /\ expires' \in 0 .. SignatureLife
      BY DEF TypeOK
    <3> QED BY <2>1, <3>1, <3>2, <3>3, <3>4 DEF TypeOK
  <2>3. OpInv'
    BY DEF OpInv
  <2>4. AgeInv'
    <3>1. CASE pc = "request"
      BY <3>1, <2>1 DEF TypeOK, AgeInv, Extra
    <3>2. CASE pc = "wait"
      BY <3>2, <2>1 DEF TypeOK, AgeInv, Extra, Deadline
    <3>3. CASE pc = "loop"
      BY <3>3, <2>1 DEF TypeOK, AgeInv
    <3> QED BY <3>1, <3>2, <3>3 DEF TypeOK, AgeInv
  <2>5. LeaseInv'
    <3>1. ASSUME NEW p \in Ports, leases[p] <= bindAge
          PROVE  leases'[p] <= bindAge'
      BY <3>1, <2>0, <2>1, OlderFacts
    <3>2. open' = open /\ pc' = pc /\ pc # "announce" /\ (open # None => open \in Ports)
      BY DEF TypeOK
    <3> QED BY <3>1, <3>2 DEF LeaseInv, TypeOK
  <2>6. SignatureInv'
    <3> SUFFICES ASSUME op = "bindPort" PROVE SignatureInv'
      BY DEF SignatureInv
    <3>1. pc \in {"request", "wait"}
      BY DEF OpInv
    <3>2. bindAge <= PortBindDuration + Timeout + (IF renewing THEN Timeout ELSE 0)
      BY <3>1, <2>1 DEF AgeInv, Extra, TypeOK
    <3>3. bindAge < Cap
      BY <3>2, <2>1 DEF Cap
    <3>4. bindAge' = bindAge + 1
      BY <3>3, <2>1, OlderFacts
    <3>5. expires > 0
      BY <3>2, <2>1 DEF SignatureInv, TypeOK
    <3> QED BY <3>4, <3>5, <2>1 DEF SignatureInv, TypeOK
  <2> QED BY <2>2, <2>3, <2>4, <2>5, <2>6
<1>16. CASE Cancel
  BY <1>16 DEF Cancel, TypeOK, OpInv, AgeInv, LeaseInv, SignatureInv, Extra,
     Cap, Ports, None, ticker, gateway, state
<1>17. CASE UNCHANGED vars
  BY <1>17 DEF vars, TypeOK, OpInv, AgeInv, LeaseInv, SignatureInv, Extra,
     Cap, Ports, None, ticker, gateway, state
<1> QED
  BY <1>1, <1>2, <1>3, <1>4, <1>5, <1>6, <1>7, <1>8, <1>9, <1>10, <1>11, <1>12, <1>13,
     <1>14, <1>15, <1>16, <1>17 DEF Next, Step, Done

\* The invariant holds in every reachable state.
LEMMA Invariance == Spec => []IInv
BY InitIInv, NextIInv, PTL DEF Spec

-----------------------------------------------------------------------------
\* Every variable of the service stays within its type, in particular the wait
\* and the request never outrun the retry interval and the HTTP timeout.
THEOREM TypeCorrect == Spec => []TypeOK
<1>1. IInv => TypeOK
  BY DEF IInv
<1> QED BY Invariance, <1>1, PTL

\* Run never works with a bind older than portBindDuration plus the two requests
\* that may outlive the retry deadline.
THEOREM ServiceGivesUpInTime == Spec => []GivesUpInTime
<1>1. IInv => GivesUpInTime
  BY Times DEF IInv, TypeOK, OpInv, AgeInv, Extra, GivesUpInTime
<1> QED BY Invariance, <1>1, PTL

\* A port that is open in the firewall, the port file and the client is still
\* forwarded by the gateway.
THEOREM AnnouncedPortIsLeased == Spec => []AnnouncedIsLeased
<1>1. IInv => AnnouncedIsLeased
  <2> SUFFICES ASSUME IInv, open # None PROVE leases[open] <= LeaseLife
    BY DEF AnnouncedIsLeased
  <2>1. open \in Ports /\ leases[open] \in 0 .. Cap /\ pc \notin {"start", "done"}
    BY DEF IInv, TypeOK, LeaseInv
  <2>2. bindAge <= PortBindDuration + 2 * Timeout
    BY Times, <2>1 DEF IInv, TypeOK, OpInv, AgeInv, Extra
  <2> QED BY Times, <2>1, <2>2 DEF IInv, TypeOK, LeaseInv, Cap
<1> QED BY Invariance, <1>1, PTL

\* bindPort is never asked for with a signature that has expired.
THEOREM BindsValidSignature == Spec => []SignatureValid
<1>1. IInv => SignatureValid
  BY Times DEF IInv, TypeOK, OpInv, AgeInv, Extra, SignatureInv, SignatureValid
<1> QED BY Invariance, <1>1, PTL
=============================================================================
