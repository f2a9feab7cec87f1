------------------------------ MODULE DotProxy ------------------------------
(***************************************************************************)
(* The DNS-over-TLS proxy (internal/dns/proxy.go) at the level of its      *)
(* shared state: the persistent connection of each upstream (conn, an      *)
(* atomic pointer), the mutex that serialises the queries of an upstream   *)
(* (mu), the context every dial hangs on (dialsCtx, replaced by each       *)
(* CloseUpstreams), and one process per DNS query.  CloseUpstreams runs    *)
(* without taking any upstream's mutex, from the reconnecting application  *)
(* and from the goroutine that supervises the listeners.  The tunnel       *)
(* beneath goes down and comes back as internal/app drives it.             *)
(***************************************************************************)
EXTENDS Naturals, Sequences, FiniteSets, TLC

CONSTANTS
    Queries,        \* the DNS queries clients send, each once
    NumUpstreams,   \* length of p.upstreams
    EarlyQueries,   \* may a client query the proxy before start has returned?
    MaxTunnels,     \* bound: tunnels brought up
    MaxFaults       \* bound: failures of an upstream or of a listener

ASSUME UpstreamAssumption == NumUpstreams \in Nat \ {0} \* resolveHostnames
ASSUME ProxyAssumption ==
    /\ IsFiniteSet(Queries)
    /\ EarlyQueries \in BOOLEAN
    /\ MaxTunnels \in Nat \ {0}
    /\ MaxFaults \in Nat

Upstreams == 0 .. NumUpstreams - 1
Closers == {"app", "supervisor"}
None == 0       \* nil pointer, nil context, free mutex
\* Enough names: an upstream stores one connection, a query and a closer hold one.
Conns == 1 .. NumUpstreams + Cardinality(Queries) + Cardinality(Closers)
MaxCtx == MaxTunnels + 3

VARIABLES
    phase,      \* how far Proxy.start is
    dialsCtx,   \* which context dialsCtx is: 0 is nil, the earlier ones are cancelled
    idx,        \* the round-robin counter, modulo the number of upstreams
    conn,       \* upstream -> the connection it keeps
    mu,         \* upstream -> the queries holding its mutex
    made,       \* connection -> the tunnel it was dialled over, 0 once closed
    asked,      \* connection -> queries written to it and not yet answered
    q,          \* query -> where its goroutine is, and its local variables
    calm,       \* history: the queries that nothing has disturbed since dispatch
    closing,    \* closer -> position in CloseUpstreams' loop, or idle
    held,       \* closer -> the connection taken by Swap and not closed yet
    app,        \* the connection cycle of internal/app
    tunnel,     \* number of tunnels brought up
    faults      \* failures so far

vars == <<phase, dialsCtx, idx, conn, mu, made, asked, q, calm, closing, held,
          app, tunnel, faults>>

net == <<app, tunnel>>
pool == <<conn, mu, made, asked>>
closers == <<closing, held>>

Idle == NumUpstreams + 1
Up == app # "down"      \* pia0 exists and carries traffic

\* A query's goroutine outside dispatch: its local variables do not exist.
Goroutine(pc, got) ==
    [pc |-> pc, ctx |-> None, at |-> 0, tried |-> 0, attempt |-> 0, conn |-> None, got |-> got]

Init ==
    /\ phase = "bind"
    /\ dialsCtx = None
    /\ idx = 0
    /\ conn = [u \in Upstreams |-> None]
    /\ mu = [u \in Upstreams |-> {}]
    /\ made = [c \in Conns |-> 0]
    /\ asked = [c \in Conns |-> <<>>]
    /\ q = [i \in Queries |-> Goroutine("idle", {})]
    /\ calm = {}
    /\ closing = [c \in Closers |-> Idle]
    /\ held = [c \in Closers |-> None]
    /\ app = "down"
    /\ tunnel = 0
    /\ faults = 0

Running == phase \notin {"bind", "panicked"}
Active(i) == q[i].pc \notin {"idle", "answered", "servfail"}

\* From here on no active query can claim an undisturbed run.
Disturb == calm' = {i \in calm : ~Active(i)}

Fault == faults < MaxFaults /\ faults' = faults + 1

-----------------------------------------------------------------------------
(* start and the listeners.                                                *)

\* serveUDP or serveTCP binds; its goroutine accepts queries from now on.
Bind ==
    /\ phase = "bind"
    /\ phase' = "bound"
    /\ UNCHANGED <<dialsCtx, idx, pool, q, calm, closers, net, faults>>

\* A listener cannot bind, before or after the other one could: CloseUpstreams
\* has nothing to cancel or close.
BindFails ==
    /\ phase \in {"bind", "bound"}
    /\ Fault
    /\ phase' = "failed"
    /\ UNCHANGED <<dialsCtx, idx, pool, q, calm, closers, net>>

\* start creates the first dial context, after the listeners are running.
InitDials ==
    /\ phase = "bound"
    /\ phase' = "dials"
    /\ dialsCtx' = 1
    /\ UNCHANGED <<idx, pool, q, calm, closers, net, faults>>

\* resolv.conf is written and start returns.
Serve ==
    /\ phase = "dials"
    /\ phase' = "serving"
    /\ UNCHANGED <<dialsCtx, idx, pool, q, calm, closers, net, faults>>

\* serveUDP or serveTCP takes a query; dispatch reads the dial context and
\* draws its place in the round robin.
Dispatch(i) ==
    /\ q[i].pc = "idle"
    /\ phase \in {"dials", "serving", "unsupervised"} \/ (phase = "bound" /\ EarlyQueries)
    /\ q' = [q EXCEPT ![i].pc = "lock", ![i].ctx = dialsCtx, ![i].at = idx]
    /\ calm' = IF Up /\ \A x \in Closers : closing[x] = Idle THEN calm \cup {i} ELSE calm
    /\ idx' = (idx + 1) % NumUpstreams
    /\ UNCHANGED <<phase, dialsCtx, pool, closers, net, faults>>

-----------------------------------------------------------------------------
(* forwardDoT, run by query i on its current upstream.                     *)

Upstream(i) == (q[i].at + q[i].tried) % NumUpstreams
Cancelled(i) == q[i].ctx # dialsCtx

Lock(i) ==
    /\ q[i].pc = "lock"
    /\ mu[Upstream(i)] = {}
    /\ mu' = [mu EXCEPT ![Upstream(i)] = {i}]
    /\ q' = [q EXCEPT ![i].pc = "load", ![i].attempt = 0]
    /\ UNCHANGED <<phase, dialsCtx, idx, conn, made, asked, calm, closers, net, faults>>

\* Mutant: the mutex is never released.
UnlockNot(i) == UNCHANGED mu

\* The deferred Unlock of a query that leaves forwardDoT.
Unlock(i) == mu' = [mu EXCEPT ![Upstream(i)] = @ \ {i}]

Load(i) ==
    /\ q[i].pc = "load"
    /\ q' = [q EXCEPT ![i].conn = conn[Upstream(i)],
                      ![i].pc = IF conn[Upstream(i)] = None THEN "dial" ELSE "write"]
    /\ UNCHANGED <<phase, dialsCtx, idx, pool, calm, closers, net, faults>>

Unused == {c \in Conns : /\ made[c] = 0
                         /\ \A u \in Upstreams : conn[u] # c
                         /\ \A i \in Queries : q[i].conn # c
                         /\ \A x \in Closers : held[x] # c}

Dial(i) ==
    /\ q[i].pc = "dial"
    /\ q[i].ctx # None /\ ~Cancelled(i) /\ Up
    /\ LET c == CHOOSE c \in Unused : TRUE
       IN /\ made' = [made EXCEPT ![c] = tunnel]
          /\ asked' = [asked EXCEPT ![c] = <<>>]
          /\ q' = [q EXCEPT ![i].pc = "store", ![i].conn = c]
    /\ UNCHANGED <<phase, dialsCtx, idx, conn, mu, calm, closers, net, faults>>

\* The dial is cancelled, runs into its timeout for want of a tunnel, or the
\* upstream refuses.
DialFails(i) ==
    /\ q[i].pc = "dial"
    /\ q[i].ctx # None
    /\ \/ (Cancelled(i) \/ ~Up) /\ UNCHANGED <<calm, faults>>
       \/ Fault /\ Disturb
    /\ q' = [q EXCEPT ![i].pc = "next"]
    /\ Unlock(i)
    /\ UNCHANGED <<phase, dialsCtx, idx, conn, made, asked, closers, net>>

\* context.WithTimeout panics on a nil parent, which ends the process.
DialPanics(i) ==
    /\ q[i].pc = "dial"
    /\ q[i].ctx = None
    /\ phase' = "panicked"
    /\ UNCHANGED <<dialsCtx, idx, pool, q, calm, closers, net, faults>>

Store(i) ==
    /\ q[i].pc = "store"
    /\ conn' = [conn EXCEPT ![Upstream(i)] = q[i].conn]
    /\ q' = [q EXCEPT ![i].pc = "write"]
    /\ UNCHANGED <<phase, dialsCtx, idx, mu, made, asked, calm, closers, net, faults>>

Live(c) == made[c] = tunnel /\ Up

\* writeMsg into an open connection succeeds even when the tunnel beneath is
\* gone: the kernel buffers it.
Write(i) ==
    /\ q[i].pc = "write"
    /\ made[q[i].conn] # 0
    /\ asked' = [asked EXCEPT ![q[i].conn] = Append(@, i)]
    /\ q' = [q EXCEPT ![i].pc = "read"]
    /\ UNCHANGED <<phase, dialsCtx, idx, conn, mu, made, calm, closers, net, faults>>

\* readMsg takes the next answer of the connection, whosever it is.
Read(i) ==
    /\ q[i].pc = "read"
    /\ LET c == q[i].conn
       IN /\ Live(c) /\ asked[c] # <<>>
          /\ q' = [q EXCEPT ![i] = Goroutine("answered", {Head(asked[c])})]
          /\ asked' = [asked EXCEPT ![c] = Tail(@)]
    /\ Unlock(i)
    /\ UNCHANGED <<phase, dialsCtx, idx, conn, made, calm, closers, net, faults>>

\* Mutant: the failing connection is kept.
DropConnNot(i) == UNCHANGED <<conn, made, asked>>

\* Mutant: the failing connection is forgotten but not closed.
DropConnOpen(i) ==
    conn' = [conn EXCEPT ![Upstream(i)] = None] /\ UNCHANGED <<made, asked>>

\* After a failed write or read: the connection is forgotten and closed.
DropConn(i) ==
    /\ conn' = [conn EXCEPT ![Upstream(i)] = None]
    /\ made' = [made EXCEPT ![q[i].conn] = 0]
    /\ asked' = [asked EXCEPT ![q[i].conn] = <<>>]

\* Mutant: no second attempt.
RetryNot(i) == q' = [q EXCEPT ![i].pc = "next", ![i].conn = None] /\ Unlock(i)

\* The first failure is retried on a new connection, the second one is final.
Retry(i) ==
    IF q[i].attempt = 0
      THEN /\ q' = [q EXCEPT ![i].pc = "load", ![i].attempt = 1, ![i].conn = None]
           /\ UNCHANGED mu
      ELSE /\ q' = [q EXCEPT ![i].pc = "next", ![i].conn = None]
           /\ Unlock(i)

\* The connection was closed under the query, belongs to a tunnel that is gone
\* (a read then fails at its deadline), or the upstream misbehaves.
IOFails(i) ==
    /\ q[i].pc \in {"write", "read"}
    /\ \/ /\ made[q[i].conn] = 0 \/ (q[i].pc = "read" /\ ~Live(q[i].conn))
          /\ UNCHANGED <<calm, faults>>
       \/ Fault /\ Disturb
    /\ DropConn(i)
    /\ Retry(i)
    /\ UNCHANGED <<phase, dialsCtx, idx, closers, net>>

\* The upstream has failed: the next one, if there is one and time left.
NextUpstream(i) ==
    /\ q[i].pc = "next"
    /\ q' = IF Cancelled(i) \/ q[i].tried + 1 = NumUpstreams
              THEN [q EXCEPT ![i] = Goroutine("servfail", {})]
              ELSE [q EXCEPT ![i].pc = "lock", ![i].tried = @ + 1]
    /\ UNCHANGED <<phase, dialsCtx, idx, pool, calm, closers, net, faults>>

-----------------------------------------------------------------------------
(* CloseUpstreams.                                                         *)

\* Under dialMu: cancel the dials in flight and install a new context.
BeginClose(x) ==
    /\ closing[x] = Idle
    /\ closing' = [closing EXCEPT ![x] = 0]
    /\ dialsCtx' = IF dialsCtx = None THEN None ELSE dialsCtx + 1
    /\ Disturb
    /\ UNCHANGED <<idx, pool, q, held>>

SwapConn(x) ==
    /\ closing[x] < NumUpstreams
    /\ held[x] = None
    /\ held' = [held EXCEPT ![x] = conn[closing[x]]]
    /\ conn' = [conn EXCEPT ![closing[x]] = None]
    /\ closing' = [closing EXCEPT ![x] = IF conn[@] = None THEN @ + 1 ELSE @]
    /\ UNCHANGED <<phase, dialsCtx, idx, mu, made, asked, q, calm, net, faults>>

CloseConn(x) ==
    /\ held[x] # None
    /\ made' = [made EXCEPT ![held[x]] = 0]
    /\ asked' = [asked EXCEPT ![held[x]] = <<>>]
    /\ held' = [held EXCEPT ![x] = None]
    /\ closing' = [closing EXCEPT ![x] = @ + 1]
    /\ UNCHANGED <<phase, dialsCtx, idx, conn, mu, q, calm, net, faults>>

EndClose(x) ==
    /\ closing[x] = NumUpstreams
    /\ closing' = [closing EXCEPT ![x] = Idle]
    /\ app' = IF x = "app" /\ app = "closing" THEN "closed" ELSE app
    /\ UNCHANGED <<phase, dialsCtx, idx, pool, q, held, tunnel, calm, faults>>

\* start cannot write resolv.conf: close what early queries opened, and fail.
WriteFails ==
    /\ phase = "dials"
    /\ Fault
    /\ phase' = "failed"
    /\ BeginClose("app")
    /\ UNCHANGED net

\* A listener's loop returns an error: the supervising goroutine logs it,
\* closes the upstreams and ends.  The other listener goes on.
ListenerFails ==
    /\ phase = "serving"
    /\ Fault
    /\ phase' = "unsupervised"
    /\ BeginClose("supervisor")
    /\ UNCHANGED net

\* SIGTERM: the listeners close; the supervisor, if it still runs, closes the
\* upstreams.
Shutdown ==
    /\ phase \in {"serving", "unsupervised"}
    /\ phase' = "stopping"
    /\ IF phase = "serving"
         THEN BeginClose("supervisor")
         ELSE UNCHANGED <<dialsCtx, idx, pool, q, calm, closers>>
    /\ UNCHANGED <<net, faults>>

-----------------------------------------------------------------------------
(* The application around the proxy.                                       *)

\* runServices ends with an error and closes the upstreams.
EndServices ==
    /\ phase \in {"serving", "unsupervised"}
    /\ app = "run"
    /\ app' = "closing"
    /\ BeginClose("app")
    /\ UNCHANGED <<phase, tunnel, faults>>

\* connect starts with wg.Down, after runServices or after a connect that failed
\* to verify its tunnel, which closes no upstreams; so does the cleanup of a
\* process that stops.
TunnelDown ==
    /\ Running
    /\ app \in {"verify", "closed"} \/ (app = "run" /\ phase = "stopping")
    /\ app' = "down"
    /\ Disturb
    /\ UNCHANGED <<phase, dialsCtx, idx, pool, q, closers, tunnel, faults>>

\* wg.Up: the next tunnel carries traffic, VerifyConnection begins.
TunnelUp ==
    /\ phase \in {"serving", "unsupervised"}
    /\ app = "down"
    /\ tunnel < MaxTunnels
    /\ app' = "verify"
    /\ tunnel' = tunnel + 1
    /\ UNCHANGED <<phase, dialsCtx, idx, pool, q, calm, closers, faults>>

\* The tunnel is verified and the services start.
Verified ==
    /\ Running
    /\ app = "verify"
    /\ app' = "run"
    /\ UNCHANGED <<phase, dialsCtx, idx, pool, q, calm, closers, tunnel, faults>>

-----------------------------------------------------------------------------
\* forwardDoT and the dispatch loop around it, for one query.
QueryStep(i) ==
    /\ Running
    /\ Lock(i) \/ Load(i) \/ Dial(i) \/ DialFails(i) \/ DialPanics(i) \/ Store(i)
        \/ Write(i) \/ Read(i) \/ IOFails(i) \/ NextUpstream(i)

CloseStep(x) == phase # "panicked" /\ (SwapConn(x) \/ CloseConn(x) \/ EndClose(x))

StartStep == Bind \/ InitDials \/ Serve

Next ==
    \/ StartStep \/ BindFails \/ WriteFails \/ ListenerFails \/ Shutdown
    \/ EndServices \/ TunnelDown \/ TunnelUp \/ Verified
    \/ \E i \in Queries : Dispatch(i) \/ QueryStep(i)
    \/ \E x \in Closers : CloseStep(x)

Spec == Init /\ [][Next]_vars

\* Every goroutine keeps running; dials, writes and reads are bounded by
\* queryTimeout, so each of them returns.
FairSpec ==
    /\ Spec
    /\ \A i \in Queries : WF_vars(QueryStep(i))
    /\ \A x \in Closers : WF_vars(CloseStep(x))

-----------------------------------------------------------------------------
(* Properties.                                                             *)

\* Every answer a client gets is the answer to its own query: answers carry no
\* upstream-side name here, so a connection whose answer was given up must never
\* be read again (forwardDoT closes it) nor shared (the upstream's mutex).
AnswersOwnQuery == \A i \in Queries : q[i].pc = "answered" => q[i].got = {i}

\* No connection is lost: an open one is stored in its upstream, is being used
\* by a query, or was taken by a CloseUpstreams that is about to close it, even
\* though CloseUpstreams swaps the pointer without the upstream's mutex.
NoConnectionLeaked ==
    \A c \in Conns : made[c] # 0 =>
        \/ \E u \in Upstreams : conn[u] = c
        \/ \E i \in Queries : Active(i) /\ q[i].conn = c
        \/ \E x \in Closers : held[x] = c

\* SERVFAIL is never made up: a query that meets no failing upstream, no
\* reconnection and no CloseUpstreams is answered, although the upstream may
\* still hold connections that died with an earlier tunnel (forwardDoT drops
\* such a connection and dials again).
ServfailExcused == \A i \in Queries : q[i].pc = "servfail" => i \notin calm

\* A connection closed under a query, a tunnel that goes away, a cancelled dial
\* and the queue for an upstream's mutex delay a query, but it is answered, with
\* SERVFAIL if need be: no goroutine of the proxy hangs.
EveryQueryAnswered ==
    \A i \in Queries : q[i].pc # "idle" ~> q[i].pc \in {"answered", "servfail"}
=============================================================================
