---------------------------- MODULE PortForward ----------------------------
(***************************************************************************)
(* The port forwarding service of one connection (internal/portforward):   *)
(* a signature is fetched and bound at the gateway, the port is announced, *)
(* and a ticker keeps the bind alive and renews the signature before it    *)
(* expires.  What is modelled is time: the retry deadline derived from the *)
(* last bind, the requests that outlive it, the ticker that fires during a *)
(* request, and the lease the gateway really keeps.  Times are ages and    *)
(* remaining times, in units of the HTTP client's timeout at the finest.   *)
(***************************************************************************)
EXTENDS Naturals

CONSTANTS
    BindInterval,       \* cfg.BindInterval
    PortBindDuration,   \* portBindDuration
    InitialLimit,       \* the minute the first acquisition has
    RetryInterval,      \* retryInterval
    Timeout,            \* the HTTP client's timeout
    SafetyHours,        \* cfg.SignatureSafetyHours
    SignatureLife,      \* external: how long a new signature is valid
    LeaseLife,          \* external: how long the gateway keeps a bind
    MaxPorts            \* bound: signatures issued

\* The defaults satisfy this: 15 min, 20 min, 1 min, 15 s, 3 s and 6 h, with a
\* lease of about 23 min.  Nothing in the code validates configured values.
ASSUME TimesAssumption ==
    /\ {BindInterval, PortBindDuration, InitialLimit, RetryInterval, Timeout,
        SafetyHours, SignatureLife, LeaseLife, MaxPorts} \subseteq Nat \ {0}
    /\ InitialLimit < PortBindDuration
    /\ BindInterval <= PortBindDuration
    /\ PortBindDuration + 2 * Timeout < LeaseLife
    /\ PortBindDuration + 2 * Timeout <= SafetyHours
    /\ SafetyHours < SignatureLife

None == 0
Cap == LeaseLife + 1        \* bound: an age beyond every deadline
Ports == 1 .. MaxPorts      \* a port is the number of the signature that grants it

VARIABLES
    pc,         \* where Run is
    op,         \* the operation in retryWithDeadline, or none
    renewing,   \* acquirePort (TRUE) or a plain rebind in the loop (FALSE)
    busy,       \* time since the request in flight was sent
    wait,       \* time left of the retry interval
    bindAge,    \* time since m.state.bindTime
    expires,    \* time until m.state.expiresAt
    port,       \* m.state.port
    open,       \* the port announced: firewall, port file, metrics, syncer
    tick,       \* time until the ticker fires
    ticked,     \* the ticker's channel holds a tick
    issued,     \* signatures issued so far
    leases,     \* external, port -> age of its bind at the gateway
    cancelled,  \* ctx is done
    result      \* what Run returned

vars == <<pc, op, renewing, busy, wait, bindAge, expires, port, open, tick, ticked,
          issued, leases, cancelled, result>>

state == <<bindAge, expires, port>>
ticker == <<tick, ticked>>
gateway == <<issued, leases>>

Older(age) == IF age < Cap THEN age + 1 ELSE Cap

Init ==
    /\ pc = "start" /\ op = "none" /\ renewing = TRUE
    /\ busy = 0 /\ wait = 0
    /\ bindAge = Cap /\ expires = 0 /\ port = None /\ open = None
    /\ tick = 0 /\ ticked = FALSE
    /\ issued = 0 /\ leases = [p \in Ports |-> Cap]
    /\ cancelled = FALSE /\ result = "running"

-----------------------------------------------------------------------------
(* Run, acquirePort and the keep-alive loop.                               *)

\* Mutant: bindTime is moved into the future.
InitialBindTimeLater == InitialLimit - PortBindDuration

\* Run backdates bindTime so that the first acquisition has InitialLimit.
InitialBindTime == PortBindDuration - InitialLimit

Start ==
    /\ pc = "start"
    /\ bindAge' = InitialBindTime
    /\ pc' = "acquire"
    /\ UNCHANGED <<op, renewing, busy, wait, expires, port, open, ticker, gateway,
                   cancelled, result>>

\* teardown, and Run returns.
Leave(how) ==
    /\ pc' = "done"
    /\ op' = "none"
    /\ open' = None
    /\ result' = how

\* PFGateway is missing, AddPFRoute fails or newManager has no certificates: Run
\* returns without a teardown.
StartFails ==
    /\ pc = "start"
    /\ pc' = "done" /\ result' = "error"
    /\ UNCHANGED <<op, renewing, busy, wait, state, open, ticker, gateway, cancelled>>

\* retryWithDeadline sends the first request of an operation.
Request(name) ==
    /\ pc' = "request" /\ op' = name
    /\ busy' = 0

\* acquirePort: the token is fresh, getSignature is tried.
Acquire ==
    /\ pc = "acquire"
    /\ Request("getSignature")
    /\ UNCHANGED <<renewing, wait, state, open, ticker, gateway, cancelled, result>>

\* acquirePort: the cached token is too old to ask for a signature.
TokenExpired ==
    /\ pc = "acquire"
    /\ Leave("reconnect")
    /\ UNCHANGED <<renewing, busy, wait, state, ticker, gateway, cancelled>>

\* Mutant: the loop always rebinds.
DueNever == FALSE

\* The signature runs out within the safety margin.
Due == SafetyHours > expires

\* The loop receives a tick: renew the signature, or bind again.
Keepalive ==
    /\ pc = "loop" /\ ticked
    /\ ticked' = FALSE
    /\ IF Due
         THEN pc' = "acquire" /\ renewing' = TRUE /\ UNCHANGED <<op, busy>>
         ELSE Request("bindPort") /\ renewing' = FALSE
    /\ UNCHANGED <<wait, state, open, tick, gateway, cancelled, result>>

\* Mutant: the loop logs the end of the connection and goes on.
LoopGoesOn == pc = "loop" /\ cancelled /\ UNCHANGED vars

\* The loop sees the end of the connection.
LoopEnds ==
    /\ pc = "loop" /\ cancelled
    /\ Leave("nil")
    /\ UNCHANGED <<renewing, busy, wait, state, ticker, gateway, cancelled>>

-----------------------------------------------------------------------------
(* Requests and retryWithDeadline.                                         *)

\* Mutant: the port is announced before it is bound.
SignedAnnounced ==
    /\ pc = "request" /\ op = "getSignature" /\ ~cancelled
    /\ issued < MaxPorts
    /\ issued' = issued + 1
    /\ port' = issued + 1 /\ open' = issued + 1
    /\ expires' = SignatureLife
    /\ Request("bindPort")
    /\ UNCHANGED <<renewing, wait, bindAge, ticker, leases, cancelled, result>>

\* The gateway signs a port; acquirePort stores it and goes on to bind it.
Signed ==
    /\ pc = "request" /\ op = "getSignature" /\ ~cancelled
    /\ issued < MaxPorts
    /\ issued' = issued + 1
    /\ port' = issued + 1
    /\ expires' = SignatureLife
    /\ Request("bindPort")
    /\ UNCHANGED <<renewing, wait, bindAge, open, ticker, leases, cancelled, result>>

\* The payload cannot be parsed, or names port zero.
BadPayload ==
    /\ pc = "request" /\ op = "getSignature" /\ ~cancelled
    /\ Leave("reconnect")
    /\ UNCHANGED <<renewing, busy, wait, state, ticker, gateway, cancelled>>

\* The gateway answers a request with a status other than OK.
APIError ==
    /\ pc = "request"
    /\ Leave("reconnect")
    /\ UNCHANGED <<renewing, busy, wait, state, ticker, gateway, cancelled>>

\* bindPort gets its answer: bindTime is now; an acquisition announces its
\* port, a rebind goes back to the loop.
Bound ==
    /\ pc = "request" /\ op = "bindPort" /\ ~cancelled
    /\ expires > 0
    /\ leases' = [leases EXCEPT ![port] = 0]
    /\ bindAge' = 0
    /\ op' = "none"
    /\ pc' = IF renewing THEN "announce" ELSE "loop"
    /\ UNCHANGED <<renewing, busy, wait, expires, port, open, ticker, issued, cancelled, result>>

\* Mutant: the wait for the next attempt ignores the deadline.
DeadlineNever == FALSE

\* The retry context's deadline, portBindDuration after the last bind.
Deadline == bindAge >= PortBindDuration

\* Mutant: bindTime is set whatever bindPort returned.
RequestFailsBound ==
    /\ pc = "request"
    /\ pc' = "wait" /\ wait' = RetryInterval
    /\ bindAge' = 0
    /\ UNCHANGED <<op, renewing, busy, expires, port, open, ticker, gateway, cancelled, result>>

\* The request fails or times out, or its context is cancelled; a bind may
\* have taken effect although its answer is lost.
RequestFails ==
    /\ pc = "request"
    /\ leases' \in {leases} \cup
           (IF op = "bindPort" /\ expires > 0 THEN {[leases EXCEPT ![port] = 0]} ELSE {})
    /\ pc' = "wait" /\ wait' = RetryInterval
    /\ UNCHANGED <<op, renewing, busy, state, open, ticker, issued, cancelled, result>>

\* The retry interval is over: the operation is tried once more.
RetryNow ==
    /\ pc = "wait" /\ wait = 0
    /\ Request(op)
    /\ UNCHANGED <<renewing, wait, state, open, ticker, gateway, cancelled, result>>

\* The retry context is done, by its deadline or with its parent.
RetryEnds ==
    /\ pc = "wait"
    /\ Deadline \/ cancelled
    /\ Leave("reconnect")
    /\ UNCHANGED <<renewing, busy, wait, state, ticker, gateway, cancelled>>

\* announcePort: firewall, port file, metrics, syncer.  Run creates the ticker
\* after the first announcement.
AnnouncePort ==
    /\ pc = "announce"
    /\ pc' = "loop"
    /\ open' = port
    /\ IF open = None
         THEN tick' = BindInterval /\ ticked' = FALSE
         ELSE UNCHANGED ticker
    /\ UNCHANGED <<op, renewing, busy, wait, state, gateway, cancelled, result>>

-----------------------------------------------------------------------------
(* The environment.                                                        *)

\* A step of Run that takes no time is due: the clock waits for it.
Urgent ==
    \/ pc \in {"start", "acquire", "announce"}
    \/ pc = "loop" /\ (ticked \/ cancelled)
    \/ pc = "request" /\ (busy = Timeout \/ cancelled)
    \/ pc = "wait" /\ (wait = 0 \/ Deadline \/ cancelled)

\* A ticker drops ticks nobody has received.
Clock ==
    /\ pc # "done" /\ ~Urgent
    /\ busy' = IF pc = "request" THEN busy + 1 ELSE busy
    /\ wait' = IF pc = "wait" THEN wait - 1 ELSE wait
    /\ bindAge' = Older(bindAge)
    /\ expires' = IF expires > 0 THEN expires - 1 ELSE 0
    /\ leases' = [p \in Ports |-> Older(leases[p])]
    /\ tick' = IF tick = 1 THEN BindInterval ELSE IF tick > 0 THEN tick - 1 ELSE 0
    /\ ticked' = IF tick = 1 THEN TRUE ELSE ticked
    /\ UNCHANGED <<pc, op, renewing, port, open, issued, cancelled, result>>

\* The connection's services end.
Cancel ==
    /\ pc # "done" /\ ~cancelled
    /\ cancelled' = TRUE
    /\ UNCHANGED <<pc, op, renewing, busy, wait, state, open, ticker, gateway, result>>

\* Run has returned.
Done == pc = "done" /\ UNCHANGED vars

Step ==
    \/ Start \/ StartFails \/ Acquire \/ TokenExpired \/ Keepalive \/ LoopEnds
    \/ Signed \/ BadPayload \/ APIError \/ Bound \/ RequestFails
    \/ RetryNow \/ RetryEnds \/ AnnouncePort

Next == Step \/ Clock \/ Cancel \/ Done

Spec == Init /\ [][Next]_vars

\* The goroutine runs and time passes.
FairSpec == Spec /\ WF_vars(Step) /\ WF_vars(Clock)

-----------------------------------------------------------------------------
(* Properties.                                                             *)

\* Every variable has its type: no request outlasts the HTTP timeout, no wait the
\* retry interval.
TypeOK ==
    /\ pc \in {"start", "acquire", "request", "wait", "announce", "loop", "done"}
    /\ op \in {"none", "getSignature", "bindPort"}
    /\ renewing \in BOOLEAN /\ ticked \in BOOLEAN /\ cancelled \in BOOLEAN
    /\ busy \in 0 .. Timeout /\ wait \in 0 .. RetryInterval
    /\ bindAge \in 0 .. Cap /\ expires \in 0 .. SignatureLife
    /\ port \in Ports \cup {None} /\ open \in Ports \cup {None}
    /\ issued \in 0 .. MaxPorts
    /\ tick \in 0 .. BindInterval
    /\ leases \in [Ports -> 0 .. Cap]
    /\ result \in {"running", "error", "reconnect", "nil"}

\* The service never outlives its bind by more than the two requests that may
\* be in flight at the deadline: before the first bind this is the minute Run
\* grants the first acquisition, afterwards portBindDuration.
GivesUpInTime ==
    pc \notin {"start", "done"} => bindAge <= PortBindDuration + 2 * Timeout

\* Peers are never sent to a dead port: as long as a port is announced (opened
\* in the firewall, written to the port file, synced to the client), the gateway
\* still forwards it, however long requests hang and answers get lost.
AnnouncedIsLeased == open # None => leases[open] <= LeaseLife

\* A bind is never requested with an expired signature: the renewal at the
\* ticks comes early enough for the interval and all retries.
SignatureValid == op = "bindPort" => expires > 0

\* The end of the connection ends the service, wherever it waits.
StopsWhenCancelled == cancelled ~> pc = "done"

\* A gateway that stops answering ends the service: it does not retry for ever.
NoEndlessRetry == pc = "wait" ~> pc \in {"loop", "done"}
=============================================================================
