--------------------------- MODULE DotProxyProofs ---------------------------
(***************************************************************************)
(* What the DNS-over-TLS proxy promises its clients, for every number of   *)
(* queries, upstreams, tunnels and failures: an answer is the answer to    *)
(* the query that was asked, no connection is lost between the upstreams'  *)
(* mutexes and the CloseUpstreams that takes none, and SERVFAIL is never   *)
(* made up.  The three rest on one argument about who may refer to a       *)
(* connection: ProxyInv below.                                             *)
(***************************************************************************)
EXTENDS DotProxy, FiniteSetTheorems, TLAPS

PCs == {"idle", "lock", "load", "dial", "store", "write", "read", "next",
        "answered", "servfail"}
Query == [pc : PCs, ctx : Nat, at : Nat, tried : Nat, attempt : Nat,
          conn : Conns \cup {None}, got : SUBSET Queries]

\* Query i holds its upstream's mutex; it has a connection of its own.
Inside(i) == q[i].pc \in {"load", "dial", "store", "write", "read"}
Using(i) == q[i].pc \in {"store", "write", "read"}

QueryType == q \in [Queries -> Query]

TypeInv ==
    /\ QueryType
    /\ conn \in [Upstreams -> Conns \cup {None}]
    /\ mu \in [Upstreams -> SUBSET Queries]
    /\ made \in [Conns -> Nat]
    /\ asked \in [Conns -> Seq(Queries)]
    /\ closing \in [Closers -> Nat]
    /\ held \in [Closers -> Conns \cup {None}]
    /\ idx \in Nat /\ dialsCtx \in Nat /\ tunnel \in Nat

\* A query inside forwardDoT is alone with its upstream.
MutexInv ==
    /\ \A i \in Queries : Inside(i) => mu[Upstream(i)] = {i}
    /\ \A i \in Queries : ~Using(i) => q[i].conn = None

\* Who refers to a connection: one upstream at most, one query at most, and only
\* the query that holds the mutex of the upstream that keeps it.
OwnerInv ==
    /\ \A u, v \in Upstreams : conn[u] # None /\ conn[u] = conn[v] => u = v
    /\ \A i, j \in Queries : q[i].conn # None /\ q[i].conn = q[j].conn => i = j
    /\ \A i \in Queries, u \in Upstreams :
        q[i].conn # None /\ conn[u] = q[i].conn => Upstream(i) = u
    /\ \A i \in Queries, u \in Upstreams : q[i].pc = "store" => conn[u] # q[i].conn

\* An upstream keeps what its query sees, unless CloseUpstreams has taken it: so
\* the Store overwrites nothing, and DropConn drops nothing but its own.
KeptInv ==
    \A i \in Queries :
        /\ q[i].pc \in {"dial", "store"} => conn[Upstream(i)] = None
        /\ q[i].pc \in {"write", "read"} => conn[Upstream(i)] \in {None, q[i].conn}
        /\ Using(i) => q[i].conn # None

\* An open connection is in its upstream, in the hands of a CloseUpstreams, or
\* fresh from the dial.
OpenInv ==
    \A c \in Conns : made[c] # 0 =>
        \/ \E u \in Upstreams : conn[u] = c
        \/ \E x \in Closers : held[x] = c
        \/ \E i \in Queries : q[i].pc = "store" /\ q[i].conn = c

\* Only the query that is reading has a question on a connection.
AskedInv ==
    \A c \in Conns :
        \/ asked[c] = <<>>
        \/ \E i \in Queries : /\ q[i].pc = "read" /\ q[i].conn = c
                              /\ asked[c] = <<i>>

\* The application connects only after start has returned.
CourseInv ==
    /\ Up => phase \notin {"bind", "bound", "dials"}
    /\ Up => tunnel # 0
    /\ phase \in {"bind", "bound"} => dialsCtx = None
    /\ phase \in {"dials", "serving", "unsupervised", "stopping"} => dialsCtx # None
    /\ \A x \in Closers : held[x] # None => closing[x] < NumUpstreams

\* What an undisturbed query may rely on: its context is the current one, the
\* tunnel is up and nobody closes the upstreams; and its second attempt starts
\* from nothing and gets a connection over this very tunnel.
Relies(i) ==
    /\ q[i].ctx = dialsCtx /\ dialsCtx # None /\ Up
    /\ \A x \in Closers : closing[x] = Idle
    /\ q[i].pc # "next"
    /\ q[i].attempt # 0 /\ q[i].pc = "load" => conn[Upstream(i)] = None
    /\ q[i].attempt # 0 /\ Using(i) => made[q[i].conn] = tunnel

CalmInv ==
    \A i \in Queries : i \in calm => q[i].pc # "idle" /\ (Active(i) => Relies(i))

ProxyInv ==
    /\ TypeInv /\ MutexInv /\ OwnerInv /\ KeptInv /\ OpenInv /\ AskedInv
    /\ CourseInv /\ CalmInv /\ AnswersOwnQuery /\ ServfailExcused

-----------------------------------------------------------------------------
(* What a step does to the queries, field by field.                        *)

\* Query j goes on as it was.
Steady(j) ==
    /\ q'[j].pc = q[j].pc /\ q'[j].ctx = q[j].ctx /\ q'[j].attempt = q[j].attempt
    /\ q'[j].conn = q[j].conn /\ q'[j].got = q[j].got
    /\ Upstream(j)' = Upstream(j)

\* The step is query i's own.
Only(i) == QueryType' /\ \A j \in Queries \ {i} : Steady(j)

\* The round robin stays among the upstreams.
LEMMA UpstreamIn ==
    ASSUME TypeInv, NEW i \in Queries
    PROVE  Upstream(i) \in Upstreams
<1>1. q[i].at + q[i].tried \in Nat
  BY DEF TypeInv, QueryType, Query
<1>2. QED BY <1>1, UpstreamAssumption DEF Upstream, Upstreams

-----------------------------------------------------------------------------
(* The effect of each of a query's steps, on its locals and on the rest.    *)

\* A query is taken and reads the dial context.
DispatchEffect(i) ==
    /\ Only(i) /\ q[i].pc = "idle"
    /\ q'[i].pc = "lock" /\ q'[i].ctx = dialsCtx
    /\ q'[i].attempt = q[i].attempt /\ q'[i].conn = q[i].conn
    /\ idx' \in Nat
    /\ UNCHANGED <<phase, dialsCtx, conn, mu, made, asked, closing, held, app, tunnel>>
    /\ calm' = calm \/ (calm' = calm \cup {i} /\ Up /\ \A x \in Closers : closing[x] = Idle)
    /\ phase \in {"bound", "dials", "serving", "unsupervised"}

\* The mutex is taken.
LockEffect(i) ==
    /\ Only(i) /\ q[i].pc = "lock" /\ q'[i].pc = "load"
    /\ q'[i].conn = q[i].conn /\ q'[i].attempt = 0
    /\ q'[i].ctx = q[i].ctx /\ Upstream(i)' = Upstream(i)
    /\ UNCHANGED <<phase, dialsCtx, idx, conn, made, asked, closing, held, app, tunnel>> /\ calm' = calm
    /\ mu[Upstream(i)] = {} /\ mu' = [mu EXCEPT ![Upstream(i)] = {i}]

\* The upstream's connection is read.
LoadEffect(i) ==
    /\ Only(i) /\ q[i].pc = "load" /\ q'[i].conn = conn[Upstream(i)]
    /\ q'[i].pc = IF conn[Upstream(i)] = None THEN "dial" ELSE "write"
    /\ q'[i].attempt = q[i].attempt
    /\ q'[i].ctx = q[i].ctx /\ Upstream(i)' = Upstream(i)
    /\ UNCHANGED <<phase, dialsCtx, idx, conn, mu, made, asked, closing, held, app, tunnel>> /\ calm' = calm

\* The dial succeeds: a connection nobody refers to, over the present tunnel.
DialEffect(i) ==
    /\ Only(i) /\ q[i].pc = "dial" /\ q'[i].pc = "store"
    /\ q'[i].conn \in Unused /\ q'[i].attempt = q[i].attempt
    /\ q'[i].ctx = q[i].ctx /\ Upstream(i)' = Upstream(i)
    /\ made' = [made EXCEPT ![q'[i].conn] = tunnel]
    /\ asked' = [asked EXCEPT ![q'[i].conn] = <<>>]
    /\ UNCHANGED <<phase, dialsCtx, idx, conn, mu, closing, held, app, tunnel>> /\ calm' = calm

\* The dial fails.
DialFailsEffect(i) ==
    /\ Only(i) /\ q[i].pc = "dial" /\ q'[i].pc = "next"
    /\ q'[i].conn = q[i].conn
    /\ UNCHANGED <<phase, dialsCtx, idx, conn, made, asked, closing, held, app, tunnel>>
    /\ mu' = [mu EXCEPT ![Upstream(i)] = @ \ {i}]
    /\ \/ calm' = calm /\ q[i].ctx # None /\ (Cancelled(i) \/ ~Up)
       \/ calm' = {j \in calm : ~Active(j)}

\* The new connection becomes the upstream's.
StoreEffect(i) ==
    /\ Only(i) /\ q[i].pc = "store" /\ q'[i].pc = "write"
    /\ q'[i].conn = q[i].conn /\ q'[i].attempt = q[i].attempt
    /\ q'[i].ctx = q[i].ctx /\ Upstream(i)' = Upstream(i)
    /\ UNCHANGED <<phase, dialsCtx, idx, mu, made, asked, closing, held, app, tunnel>> /\ calm' = calm
    /\ conn' = [conn EXCEPT ![Upstream(i)] = q[i].conn]

\* The question goes onto the connection.
WriteEffect(i) ==
    /\ Only(i) /\ q[i].pc = "write" /\ q'[i].pc = "read"
    /\ q'[i].conn = q[i].conn /\ q'[i].attempt = q[i].attempt
    /\ q'[i].ctx = q[i].ctx /\ Upstream(i)' = Upstream(i)
    /\ UNCHANGED <<phase, dialsCtx, idx, conn, mu, made, closing, held, app, tunnel>> /\ calm' = calm
    /\ asked' = [asked EXCEPT ![q[i].conn] = Append(@, i)]

\* The next answer of the connection is handed to the client.
ReadEffect(i) ==
    /\ Only(i) /\ q[i].pc = "read" /\ q'[i].pc = "answered" /\ q'[i].conn = None
    /\ asked[q[i].conn] # <<>> /\ q'[i].got = {Head(asked[q[i].conn])}
    /\ asked' = [asked EXCEPT ![q[i].conn] = Tail(@)]
    /\ UNCHANGED <<phase, dialsCtx, idx, conn, made, closing, held, app, tunnel>> /\ calm' = calm
    /\ mu' = [mu EXCEPT ![Upstream(i)] = @ \ {i}]

\* The connection is dropped; a first failure is retried, a second one is final.
IOFailsEffect(i) ==
    /\ Only(i) /\ q[i].pc \in {"write", "read"} /\ q'[i].conn = None
    /\ \/ /\ q[i].attempt = 0 /\ q'[i].pc = "load" /\ q'[i].attempt = 1
          /\ q'[i].ctx = q[i].ctx /\ Upstream(i)' = Upstream(i) /\ UNCHANGED mu
       \/ q[i].attempt # 0 /\ q'[i].pc = "next" /\ Unlock(i)
    /\ UNCHANGED <<phase, dialsCtx, idx, closing, held, app, tunnel>>
    /\ conn' = [conn EXCEPT ![Upstream(i)] = None]
    /\ made' = [made EXCEPT ![q[i].conn] = 0]
    /\ asked' = [asked EXCEPT ![q[i].conn] = <<>>]
    /\ \/ calm' = calm /\ (made[q[i].conn] = 0 \/ ~Live(q[i].conn))
       \/ calm' = {j \in calm : ~Active(j)}

\* The next upstream, or SERVFAIL.
NextUpstreamEffect(i) ==
    /\ Only(i) /\ q[i].pc = "next" /\ q'[i].pc \in {"servfail", "lock"}
    /\ q'[i].conn \in {q[i].conn, None}
    /\ UNCHANGED <<phase, dialsCtx, idx, conn, mu, made, asked, closing, held, app, tunnel>> /\ calm' = calm

\* Dispatch has its effect.
LEMMA DispatchDoes ==
    ASSUME TypeInv, NEW i \in Queries, Dispatch(i)
    PROVE  DispatchEffect(i)
<1>1. /\ Only(i) /\ q[i].pc = "idle"
      /\ q'[i].pc = "lock" /\ q'[i].ctx = dialsCtx
      /\ q'[i].attempt = q[i].attempt /\ q'[i].conn = q[i].conn
      /\ idx' \in Nat
  <2>1. q[i].pc = "idle" /\ q' = [q EXCEPT ![i].pc = "lock", ![i].ctx = dialsCtx, ![i].at = idx]
    BY DEF Dispatch
  <2>2. idx \in Nat /\ dialsCtx \in Nat /\ idx' \in Nat
    BY UpstreamAssumption DEF Dispatch, TypeInv, QueryType
  <2>3. /\ q' \in [Queries -> Query] /\ \A j \in Queries \ {i} : q'[j] = q[j]
        /\ q'[i].pc = "lock" /\ q'[i].ctx = dialsCtx
        /\ q'[i].attempt = q[i].attempt /\ q'[i].conn = q[i].conn
    <3> DEFINE r == [q[i] EXCEPT !.pc = "lock", !.ctx = dialsCtx, !.at = idx]
    <3>1. q[i] \in Query /\ q \in [Queries -> Query]
      BY DEF TypeInv, QueryType
    <3>2. /\ r \in Query /\ r.pc = "lock" /\ r.ctx = dialsCtx
          /\ r.attempt = q[i].attempt /\ r.conn = q[i].conn
      BY <2>2, <3>1 DEF Query, PCs
    <3>3. q' = [q EXCEPT ![i] = r]
      BY <2>1, <3>1
    <3> HIDE DEF r
    <3>4. QED BY <3>1, <3>2, <3>3
  <2>4. QED BY <2>1, <2>2, <2>3 DEF QueryType, Only, Steady, Upstream
<1>2. /\ UNCHANGED <<phase, dialsCtx, conn, mu, made, asked, closing, held, app, tunnel>>
      /\ calm' = calm \/ (calm' = calm \cup {i} /\ Up /\ \A x \in Closers : closing[x] = Idle)
      /\ phase \in {"bound", "dials", "serving", "unsupervised"}
  BY DEF Dispatch, pool, closers, net
<1>3. QED BY <1>1, <1>2 DEF DispatchEffect

\* Lock has its effect.
LEMMA LockDoes ==
    ASSUME TypeInv, NEW i \in Queries, Lock(i)
    PROVE  LockEffect(i)
<1>1. /\ Only(i) /\ q[i].pc = "lock" /\ q'[i].pc = "load"
      /\ q'[i].conn = q[i].conn /\ q'[i].attempt = 0
      /\ q'[i].ctx = q[i].ctx /\ Upstream(i)' = Upstream(i)
  BY ZenonT(60) DEF Lock, TypeInv, QueryType, Query, PCs, Only, Steady, Upstream
<1>2. /\ UNCHANGED <<phase, dialsCtx, idx, conn, made, asked, closing, held, app, tunnel>> /\ calm' = calm
      /\ mu[Upstream(i)] = {} /\ mu' = [mu EXCEPT ![Upstream(i)] = {i}]
  BY DEF Lock, closers, net
<1>3. QED BY <1>1, <1>2 DEF LockEffect

\* Load has its effect.
LEMMA LoadDoes ==
    ASSUME TypeInv, NEW i \in Queries, Load(i)
    PROVE  LoadEffect(i)
<1>1. /\ Only(i) /\ q[i].pc = "load" /\ q'[i].conn = conn[Upstream(i)]
      /\ q'[i].pc = IF conn[Upstream(i)] = None THEN "dial" ELSE "write"
      /\ q'[i].attempt = q[i].attempt
      /\ q'[i].ctx = q[i].ctx /\ Upstream(i)' = Upstream(i)
  <2> DEFINE own == conn[Upstream(i)]
  <2>1. own \in Conns \cup {None}
    BY UpstreamIn DEF TypeInv, QueryType
  <2>2. q[i].pc = "load" /\ q' = [q EXCEPT ![i].conn = own, ![i].pc = IF own = None THEN "dial" ELSE "write"]
    BY DEF Load
  <2> HIDE DEF own
  <2>3. /\ Only(i) /\ q'[i].conn = own /\ q'[i].pc = IF own = None THEN "dial" ELSE "write"
        /\ q'[i].attempt = q[i].attempt
        /\ q'[i].ctx = q[i].ctx /\ Upstream(i)' = Upstream(i)
    BY <2>1, <2>2 DEF TypeInv, QueryType, Query, PCs, Only, Steady, Upstream
  <2>4. QED BY <2>2, <2>3 DEF own
<1>2. /\ UNCHANGED <<phase, dialsCtx, idx, conn, mu, made, asked, closing, held, app, tunnel>> /\ calm' = calm
  BY DEF Load, pool, closers, net
<1>3. QED BY <1>1, <1>2 DEF LoadEffect

\* Dial has its effect.
LEMMA DialDoes ==
    ASSUME TypeInv, NEW i \in Queries, Dial(i), Unused # {}
    PROVE  DialEffect(i)
<1>1. /\ Only(i) /\ q[i].pc = "dial" /\ q'[i].pc = "store"
      /\ q'[i].conn \in Unused /\ q'[i].attempt = q[i].attempt
      /\ q'[i].ctx = q[i].ctx /\ Upstream(i)' = Upstream(i)
      /\ made' = [made EXCEPT ![q'[i].conn] = tunnel]
      /\ asked' = [asked EXCEPT ![q'[i].conn] = <<>>]
  <2> DEFINE c == CHOOSE c \in Unused : TRUE
  <2>1. c \in Unused /\ c \in Conns
    BY DEF Unused
  <2>2. /\ q[i].pc = "dial" /\ q' = [q EXCEPT ![i].pc = "store", ![i].conn = c]
        /\ made' = [made EXCEPT ![c] = tunnel] /\ asked' = [asked EXCEPT ![c] = <<>>]
    BY DEF Dial
  <2> HIDE DEF c
  <2>3. /\ Only(i) /\ q'[i].conn = c /\ Upstream(i)' = Upstream(i) /\ q'[i].pc = "store"
        /\ q'[i].ctx = q[i].ctx /\ q'[i].attempt = q[i].attempt
    BY <2>1, <2>2, ZenonT(60) DEF TypeInv, QueryType, Query, PCs, Only, Steady, Upstream
  <2>4. QED BY <2>1, <2>2, <2>3
<1>2. /\ UNCHANGED <<phase, dialsCtx, idx, conn, mu, closing, held, app, tunnel>> /\ calm' = calm
  BY DEF Dial, closers, net
<1>3. QED BY <1>1, <1>2 DEF DialEffect

\* DialFails has its effect.
LEMMA DialFailsDoes ==
    ASSUME TypeInv, NEW i \in Queries, DialFails(i)
    PROVE  DialFailsEffect(i)
<1>1. /\ Only(i) /\ q[i].pc = "dial" /\ q'[i].pc = "next"
      /\ q'[i].conn = q[i].conn
  BY ZenonT(60) DEF DialFails, TypeInv, QueryType, Query, PCs, Only, Steady, Upstream
<1>2. /\ UNCHANGED <<phase, dialsCtx, idx, conn, made, asked, closing, held, app, tunnel>>
      /\ mu' = [mu EXCEPT ![Upstream(i)] = @ \ {i}]
      /\ \/ calm' = calm /\ q[i].ctx # None /\ (Cancelled(i) \/ ~Up)
         \/ calm' = {j \in calm : ~Active(j)}
  BY DEF DialFails, Unlock, Disturb, closers, net
<1>3. QED BY <1>1, <1>2 DEF DialFailsEffect

\* Store has its effect.
LEMMA StoreDoes ==
    ASSUME TypeInv, NEW i \in Queries, Store(i)
    PROVE  StoreEffect(i)
<1>1. /\ Only(i) /\ q[i].pc = "store" /\ q'[i].pc = "write"
      /\ q'[i].conn = q[i].conn /\ q'[i].attempt = q[i].attempt
      /\ q'[i].ctx = q[i].ctx /\ Upstream(i)' = Upstream(i)
  BY ZenonT(60) DEF Store, TypeInv, QueryType, Query, PCs, Only, Steady, Upstream
<1>2. /\ UNCHANGED <<phase, dialsCtx, idx, mu, made, asked, closing, held, app, tunnel>> /\ calm' = calm
      /\ conn' = [conn EXCEPT ![Upstream(i)] = q[i].conn]
  BY DEF Store, closers, net
<1>3. QED BY <1>1, <1>2 DEF StoreEffect

\* Write has its effect.
LEMMA WriteDoes ==
    ASSUME TypeInv, NEW i \in Queries, Write(i)
    PROVE  WriteEffect(i)
<1>1. /\ Only(i) /\ q[i].pc = "write" /\ q'[i].pc = "read"
      /\ q'[i].conn = q[i].conn /\ q'[i].attempt = q[i].attempt
      /\ q'[i].ctx = q[i].ctx /\ Upstream(i)' = Upstream(i)
  BY ZenonT(60) DEF Write, TypeInv, QueryType, Query, PCs, Only, Steady, Upstream
<1>2. /\ UNCHANGED <<phase, dialsCtx, idx, conn, mu, made, closing, held, app, tunnel>> /\ calm' = calm
      /\ asked' = [asked EXCEPT ![q[i].conn] = Append(@, i)]
  BY DEF Write, closers, net
<1>3. QED BY <1>1, <1>2 DEF WriteEffect

\* Read has its effect.
LEMMA ReadDoes ==
    ASSUME TypeInv, NEW i \in Queries, Read(i), q[i].conn \in Conns
    PROVE  ReadEffect(i)
<1>1. /\ Only(i) /\ q[i].pc = "read" /\ q'[i].pc = "answered" /\ q'[i].conn = None
      /\ asked[q[i].conn] # <<>> /\ q'[i].got = {Head(asked[q[i].conn])}
      /\ asked' = [asked EXCEPT ![q[i].conn] = Tail(@)]
  <2> DEFINE h == Head(asked[q[i].conn])
             r == Goroutine("answered", {h})
  <2>1. /\ q[i].pc = "read" /\ asked[q[i].conn] # <<>>
        /\ q' = [q EXCEPT ![i] = r]
        /\ asked' = [asked EXCEPT ![q[i].conn] = Tail(@)]
    BY DEF Read
  <2>2. {h} \in SUBSET Queries
    BY <2>1 DEF TypeInv, QueryType
  <2> HIDE DEF h
  <2>3. r \in Query /\ r.pc = "answered" /\ r.conn = None /\ r.got = {h}
    BY <2>2 DEF Goroutine, Query, PCs, None
  <2> HIDE DEF r
  <2>4. Only(i) /\ q'[i] = r
    BY <2>1, <2>3 DEF TypeInv, QueryType, Only, Steady, Upstream
  <2>5. QED BY <2>1, <2>3, <2>4 DEF h
<1>2. /\ UNCHANGED <<phase, dialsCtx, idx, conn, made, closing, held, app, tunnel>> /\ calm' = calm
      /\ mu' = [mu EXCEPT ![Upstream(i)] = @ \ {i}]
  BY DEF Read, Unlock, closers, net
<1>3. QED BY <1>1, <1>2 DEF ReadEffect

\* IOFails has its effect.
LEMMA IOFailsDoes ==
    ASSUME TypeInv, NEW i \in Queries, IOFails(i)
    PROVE  IOFailsEffect(i)
<1>1. /\ Only(i) /\ q[i].pc \in {"write", "read"} /\ q'[i].conn = None
      /\ \/ /\ q[i].attempt = 0 /\ q'[i].pc = "load" /\ q'[i].attempt = 1
            /\ q'[i].ctx = q[i].ctx /\ Upstream(i)' = Upstream(i) /\ UNCHANGED mu
         \/ q[i].attempt # 0 /\ q'[i].pc = "next" /\ Unlock(i)
  <2>1. q[i].pc \in {"write", "read"} /\ Retry(i)
    BY DEF IOFails
  <2>2. CASE q[i].attempt = 0
    <3>1. q' = [q EXCEPT ![i].pc = "load", ![i].attempt = 1, ![i].conn = None] /\ UNCHANGED mu
      BY <2>1, <2>2 DEF Retry
    <3>2. /\ q' \in [Queries -> Query] /\ \A j \in Queries \ {i} : q'[j] = q[j]
          /\ q'[i].pc = "load" /\ q'[i].attempt = 1 /\ q'[i].conn = None
          /\ q'[i].ctx = q[i].ctx /\ q'[i].at = q[i].at /\ q'[i].tried = q[i].tried
      <4> DEFINE r == [q[i] EXCEPT !.pc = "load", !.attempt = 1, !.conn = None]
      <4>1. q[i] \in Query /\ q \in [Queries -> Query]
        BY DEF TypeInv, QueryType
      <4>2. /\ r \in Query /\ r.pc = "load" /\ r.attempt = 1 /\ r.conn = None
            /\ r.ctx = q[i].ctx /\ r.at = q[i].at /\ r.tried = q[i].tried
        BY <4>1 DEF Query, PCs
      <4>3. q' = [q EXCEPT ![i] = r]
        BY <3>1, <4>1
      <4> HIDE DEF r
      <4>4. QED BY <4>1, <4>2, <4>3
    <3>3. QED BY <2>1, <2>2, <3>1, <3>2 DEF QueryType, Only, Steady, Upstream
  <2>3. CASE q[i].attempt # 0
    <3>1. q' = [q EXCEPT ![i].pc = "next", ![i].conn = None] /\ Unlock(i)
      BY <2>1, <2>3 DEF Retry
    <3>2. /\ q' \in [Queries -> Query] /\ \A j \in Queries \ {i} : q'[j] = q[j]
          /\ q'[i].pc = "next" /\ q'[i].conn = None
      <4> DEFINE r == [q[i] EXCEPT !.pc = "next", !.conn = None]
      <4>1. q[i] \in Query /\ q \in [Queries -> Query]
        BY DEF TypeInv, QueryType
      <4>2. r \in Query /\ r.pc = "next" /\ r.conn = None
        BY <4>1 DEF Query, PCs
      <4>3. q' = [q EXCEPT ![i] = r]
        BY <3>1, <4>1
      <4> HIDE DEF r
      <4>4. QED BY <4>1, <4>2, <4>3
    <3>3. QED BY <2>1, <2>3, <3>1, <3>2 DEF QueryType, Only, Steady, Upstream
  <2>4. QED BY <2>2, <2>3
<1>2. /\ UNCHANGED <<phase, dialsCtx, idx, closing, held, app, tunnel>>
      /\ conn' = [conn EXCEPT ![Upstream(i)] = None]
      /\ made' = [made EXCEPT ![q[i].conn] = 0]
      /\ asked' = [asked EXCEPT ![q[i].conn] = <<>>]
      /\ \/ calm' = calm /\ (made[q[i].conn] = 0 \/ ~Live(q[i].conn))
         \/ calm' = {j \in calm : ~Active(j)}
  BY DEF IOFails, DropConn, Disturb, closers, net
<1>3. QED BY <1>1, <1>2 DEF IOFailsEffect

\* NextUpstream has its effect.
LEMMA NextUpstreamDoes ==
    ASSUME TypeInv, NEW i \in Queries, NextUpstream(i)
    PROVE  NextUpstreamEffect(i)
<1>1. /\ Only(i) /\ q[i].pc = "next" /\ q'[i].pc \in {"servfail", "lock"}
      /\ q'[i].conn \in {q[i].conn, None}
  <2> DEFINE r == Goroutine("servfail", {})
  <2>1. q[i].pc = "next"
    BY DEF NextUpstream
  <2>2. r \in Query /\ r.pc = "servfail" /\ r.conn = None
    BY DEF Goroutine, Query, PCs, None
  <2> HIDE DEF r
  <2>3. CASE q' = [q EXCEPT ![i] = r]
    BY <2>1, <2>2, <2>3 DEF TypeInv, QueryType, Only, Steady, Upstream
  <2>4. CASE q' = [q EXCEPT ![i].pc = "lock", ![i].tried = @ + 1]
    BY <2>1, <2>4, SMTT(30) DEF TypeInv, QueryType, Query, PCs, Only, Steady, Upstream
  <2>5. QED BY <2>3, <2>4 DEF NextUpstream, r
<1>2. /\ UNCHANGED <<phase, dialsCtx, idx, conn, mu, made, asked, closing, held, app, tunnel>> /\ calm' = calm
  BY DEF NextUpstream, pool, closers, net
<1>3. QED BY <1>1, <1>2 DEF NextUpstreamEffect

\* Where the pointers point.
Pointers ==
    /\ conn \in [Upstreams -> Conns \cup {None}] /\ mu \in [Upstreams -> SUBSET Queries]
    /\ \A j \in Queries : Upstream(j) \in Upstreams /\ q[j].conn \in Conns \cup {None}
    /\ None \notin Conns

\* The type of the state says so.
LEMMA PointersHold ==
    ASSUME TypeInv
    PROVE  Pointers
<1>1. \A j \in Queries : q[j].conn \in Conns \cup {None}
  BY DEF TypeInv, QueryType, Query
<1>2. None \notin Conns
  BY DEF Conns, None
<1>3. QED BY <1>1, <1>2, UpstreamIn DEF Pointers, TypeInv

-----------------------------------------------------------------------------
(* There are names enough: the CHOOSE of Dial always finds one.            *)

\* A function has no more values than arguments.
LEMMA ImageBound ==
    ASSUME NEW S, IsFiniteSet(S), NEW f, f = [x \in S |-> f[x]],
           NEW T, T = {f[x] : x \in S}
    PROVE  IsFiniteSet(T) /\ Cardinality(T) \in Nat /\ Cardinality(T) <= Cardinality(S)
<1>1. f \in Surjection(S, T)
  BY DEF Surjection
<1>2. QED BY <1>1, FS_Surjection, FS_CardinalityType

\* The union of two finite sets has no more members than the two together.
LEMMA UnionBound ==
    ASSUME NEW S, IsFiniteSet(S), NEW T, IsFiniteSet(T)
    PROVE  /\ IsFiniteSet(S \cup T) /\ Cardinality(S \cup T) \in Nat
           /\ Cardinality(S \cup T) <= Cardinality(S) + Cardinality(T)
<1>1. IsFiniteSet(S \cap T)
  BY FS_Subset
<1>2. Cardinality(S) \in Nat /\ Cardinality(T) \in Nat /\ Cardinality(S \cap T) \in Nat
  BY <1>1, FS_CardinalityType
<1>3. /\ IsFiniteSet(S \cup T)
      /\ Cardinality(S \cup T) = Cardinality(S) + Cardinality(T) - Cardinality(S \cap T)
  BY FS_Union
<1>4. Cardinality(S \cup T) \in Nat
  BY <1>3, FS_CardinalityType
<1>5. QED BY <1>2, <1>3, <1>4

\* A query that dials has no connection itself; the others, the upstreams and
\* the closers have one each at most.
LEMMA NamesSuffice ==
    ASSUME TypeInv, MutexInv, OpenInv, NEW i \in Queries, q[i].pc = "dial"
    PROVE  Unused # {}
<1> DEFINE Others == Queries \ {i}
           own == [j \in Others |-> q[j].conn]
           Stored == {conn[u] : u \in Upstreams}
           Owned == {own[j] : j \in Others}
           Held == {held[x] : x \in Closers}
<1>1. IsFiniteSet(Upstreams) /\ Cardinality(Upstreams) = NumUpstreams
  BY UpstreamAssumption, FS_Interval DEF Upstreams
<1>2. IsFiniteSet(Closers) /\ Cardinality(Closers) = 2
  <2>1. IsFiniteSet({"app"}) /\ Cardinality({"app"}) = 1
    BY FS_Singleton
  <2>2. Closers = {"app"} \cup {"supervisor"} /\ "supervisor" \notin {"app"}
    BY DEF Closers
  <2>3. /\ IsFiniteSet({"app"} \cup {"supervisor"})
        /\ Cardinality({"app"} \cup {"supervisor"}) = 1 + 1
    BY <2>1, <2>2, FS_AddElement
  <2>4. QED BY <2>2, <2>3
<1>3. /\ IsFiniteSet(Queries) /\ Cardinality(Queries) \in Nat
      /\ IsFiniteSet(Others) /\ Cardinality(Others) = Cardinality(Queries) - 1
  BY ProxyAssumption, FS_CardinalityType, FS_RemoveElement
<1>4. IsFiniteSet(Conns) /\ Cardinality(Conns) = NumUpstreams + Cardinality(Queries) + 2
  <2> DEFINE n == NumUpstreams + Cardinality(Queries) + 2
  <2>1. n \in Nat /\ n > 0 /\ Conns = 1 .. n
    BY <1>2, <1>3, UpstreamAssumption DEF Conns
  <2> HIDE DEF n
  <2>2. IsFiniteSet(1 .. n) /\ Cardinality(1 .. n) = n - 1 + 1
    BY <2>1, FS_Interval
  <2>3. QED BY <2>1, <2>2 DEF n
<1>5. IsFiniteSet(Stored) /\ Cardinality(Stored) \in Nat /\ Cardinality(Stored) <= NumUpstreams
  <2>1. conn = [u \in Upstreams |-> conn[u]]
    BY DEF TypeInv, QueryType
  <2>2. QED BY <1>1, <2>1, ImageBound
<1>6. /\ IsFiniteSet(Owned) /\ Cardinality(Owned) \in Nat
      /\ Cardinality(Owned) <= Cardinality(Queries) - 1
  <2>1. own = [j \in Others |-> own[j]]
    OBVIOUS
  <2> HIDE DEF own
  <2>2. QED BY <1>3, <2>1, ImageBound
<1>7. IsFiniteSet(Held) /\ Cardinality(Held) \in Nat /\ Cardinality(Held) <= 2
  <2>1. held = [x \in Closers |-> held[x]]
    BY DEF TypeInv, QueryType
  <2>2. QED BY <1>2, <2>1, ImageBound
<1>8. ASSUME Unused = {} PROVE Conns \subseteq (Stored \cup Owned) \cup Held
  <2> SUFFICES ASSUME NEW c \in Conns, c \notin Stored, c \notin Held
               PROVE  c \in Owned
    OBVIOUS
  <2>1. \E j \in Queries : q[j].conn = c
    BY <1>8 DEF Unused, OpenInv
  <2>2. q[i].conn # c
    BY UpstreamAssumption DEF MutexInv, Using, Conns, None
  <2>3. QED BY <2>1, <2>2
<1> HIDE DEF Stored, Owned, Held
<1>9. /\ IsFiniteSet((Stored \cup Owned) \cup Held)
      /\ Cardinality((Stored \cup Owned) \cup Held) \in Nat
      /\ Cardinality((Stored \cup Owned) \cup Held) <= NumUpstreams + Cardinality(Queries) - 1 + 2
  <2>1. /\ IsFiniteSet(Stored \cup Owned) /\ Cardinality(Stored \cup Owned) \in Nat
        /\ Cardinality(Stored \cup Owned) <= Cardinality(Stored) + Cardinality(Owned)
    BY <1>5, <1>6, UnionBound
  <2>2. /\ IsFiniteSet((Stored \cup Owned) \cup Held)
        /\ Cardinality((Stored \cup Owned) \cup Held) \in Nat
        /\ Cardinality((Stored \cup Owned) \cup Held)
              <= Cardinality(Stored \cup Owned) + Cardinality(Held)
    BY <1>7, <2>1, UnionBound
  <2>3. QED BY <1>3, <1>5, <1>6, <1>7, <2>1, <2>2, UpstreamAssumption
<1>10. ASSUME Unused = {} PROVE FALSE
  <2>1. Cardinality(Conns) <= Cardinality((Stored \cup Owned) \cup Held)
    BY <1>8, <1>9, <1>10, FS_Subset
  <2>2. QED BY <1>3, <1>4, <1>9, <2>1, UpstreamAssumption
<1>11. QED BY <1>10

-----------------------------------------------------------------------------
(* The kinds of step.                                                      *)

\* The steps that touch neither a query nor a connection.
QuietStep ==
    \/ StartStep \/ BindFails \/ WriteFails \/ ListenerFails \/ Shutdown
    \/ EndServices \/ TunnelDown \/ TunnelUp \/ Verified \/ UNCHANGED vars
    \/ \E i \in Queries : DialPanics(i)
    \/ \E x \in Closers : EndClose(x)

Quiet == UNCHANGED <<conn, mu, made, asked, q, held>>

\* They do not.
LEMMA QuietDoes ==
    ASSUME QuietStep
    PROVE  Quiet
<1> USE DEF Quiet, pool, closers, net
<1>1. CASE StartStep \/ BindFails
  BY <1>1 DEF StartStep, Bind, InitDials, Serve, BindFails
<1>2. CASE WriteFails \/ ListenerFails \/ EndServices \/ Shutdown
  BY <1>2 DEF WriteFails, ListenerFails, EndServices, Shutdown, BeginClose
<1>3. CASE TunnelDown \/ TunnelUp \/ Verified \/ UNCHANGED vars
  BY <1>3 DEF TunnelDown, TunnelUp, Verified, vars
<1>4. CASE \E i \in Queries : DialPanics(i)
  BY <1>4 DEF DialPanics
<1>5. CASE \E x \in Closers : EndClose(x)
  BY <1>5 DEF EndClose
<1>6. QED BY <1>1, <1>2, <1>3, <1>4, <1>5 DEF QuietStep

\* Every other step is a query's or a closer's.
LEMMA Kinds ==
    ASSUME [Next]_vars
    PROVE  \/ QuietStep
           \/ \E i \in Queries : \/ Dispatch(i) \/ Lock(i) \/ Load(i) \/ Dial(i)
                                 \/ DialFails(i) \/ Store(i) \/ Write(i) \/ Read(i)
                                 \/ IOFails(i) \/ NextUpstream(i)
           \/ \E x \in Closers : SwapConn(x) \/ CloseConn(x)
BY DEF Next, QueryStep, CloseStep, QuietStep

\* In a quiet step, and in a closer's, every query goes on as it was.
LEMMA SteadyAll ==
    ASSUME UNCHANGED q
    PROVE  \A j \in Queries : Steady(j)
BY DEF Steady, Upstream

\* A query that is reading has a connection.
LEMMA OwnsIt ==
    ASSUME TypeInv, KeptInv, NEW i \in Queries, q[i].pc = "read"
    PROVE  q[i].conn \in Conns
BY PointersHold DEF Pointers, KeptInv, Using

\* A query inside forwardDoT keeps its mutex until it leaves.
LEMMA MutexStep ==
    ASSUME TypeInv, MutexInv, KeptInv, OpenInv, [Next]_vars
    PROVE  MutexInv'
<1>0. Pointers
  BY PointersHold
<1>1. CASE QuietStep
  BY <1>0, <1>1, QuietDoes, SteadyAll DEF Quiet, Steady, Pointers, MutexInv, Inside, Using
<1>2. ASSUME NEW i \in Queries, Dispatch(i) PROVE MutexInv'
  <2>1. DispatchEffect(i)
    BY <1>2, DispatchDoes
  <2>2. QED
    BY <1>0, <2>1
    DEF DispatchEffect, Pointers, Only, Steady, MutexInv, Inside, Using
<1>3. ASSUME NEW i \in Queries, Lock(i) PROVE MutexInv'
  <2>1. LockEffect(i)
    BY <1>3, LockDoes
  <2>2. QED
    BY <1>0, <2>1
    DEF LockEffect, Pointers, Only, Steady, MutexInv, Inside, Using
<1>4. ASSUME NEW i \in Queries, Load(i) PROVE MutexInv'
  <2>1. LoadEffect(i)
    BY <1>4, LoadDoes
  <2>2. QED
    BY <1>0, <2>1
    DEF LoadEffect, Pointers, Only, Steady, MutexInv, Inside, Using
<1>5. ASSUME NEW i \in Queries, Dial(i) PROVE MutexInv'
  <2>1. DialEffect(i)
    BY <1>5, DialDoes, NamesSuffice DEF Dial
  <2>2. QED
    BY <1>0, <2>1
    DEF DialEffect, Pointers, Only, Steady, Unused, MutexInv, Inside, Using
<1>6. ASSUME NEW i \in Queries, DialFails(i) PROVE MutexInv'
  <2>1. DialFailsEffect(i)
    BY <1>6, DialFailsDoes
  <2>2. QED
    BY <1>0, <2>1
    DEF DialFailsEffect, Pointers, Only, Steady, MutexInv, Inside, Using
<1>7. ASSUME NEW i \in Queries, Store(i) PROVE MutexInv'
  <2>1. StoreEffect(i)
    BY <1>7, StoreDoes
  <2>2. QED
    BY <1>0, <2>1
    DEF StoreEffect, Pointers, Only, Steady, MutexInv, Inside, Using
<1>8. ASSUME NEW i \in Queries, Write(i) PROVE MutexInv'
  <2>1. WriteEffect(i)
    BY <1>8, WriteDoes
  <2>2. QED
    BY <1>0, <2>1
    DEF WriteEffect, Pointers, Only, Steady, MutexInv, Inside, Using
<1>9. ASSUME NEW i \in Queries, Read(i) PROVE MutexInv'
  <2>1. ReadEffect(i)
    BY <1>9, ReadDoes, OwnsIt DEF Read
  <2>2. QED
    BY <1>0, <2>1
    DEF ReadEffect, Pointers, Only, Steady, MutexInv, Inside, Using
<1>10. ASSUME NEW i \in Queries, IOFails(i) PROVE MutexInv'
  <2>1. IOFailsEffect(i)
    BY <1>10, IOFailsDoes
  <2>2. QED
    BY <1>0, <2>1
    DEF IOFailsEffect, Pointers, Only, Steady, Unlock, MutexInv, Inside, Using
<1>11. ASSUME NEW i \in Queries, NextUpstream(i) PROVE MutexInv'
  <2>1. NextUpstreamEffect(i)
    BY <1>11, NextUpstreamDoes
  <2>2. QED
    BY <1>0, <2>1
    DEF NextUpstreamEffect, Pointers, Only, Steady, MutexInv, Inside, Using
<1>12. ASSUME NEW x \in Closers, SwapConn(x) PROVE MutexInv'
  <2>1. \A j \in Queries : Steady(j)
    BY <1>12, SteadyAll DEF SwapConn
  <2>2. QED BY <1>0, <1>12, <2>1 DEF SwapConn, Pointers, Steady, MutexInv, Inside, Using
<1>13. ASSUME NEW x \in Closers, CloseConn(x) PROVE MutexInv'
  <2>1. \A j \in Queries : Steady(j)
    BY <1>13, SteadyAll DEF CloseConn
  <2>2. QED BY <1>0, <1>13, <2>1 DEF CloseConn, Pointers, Steady, MutexInv, Inside, Using
<1>14. QED
  BY <1>1, <1>2, <1>3, <1>4, <1>5, <1>6, <1>7, <1>8, <1>9, <1>10, <1>11, <1>12, <1>13,
     Kinds

\* A connection passes from the dial to the upstream, and only its query follows it.
LEMMA OwnerStep ==
    ASSUME TypeInv, MutexInv, OwnerInv, KeptInv, OpenInv, [Next]_vars
    PROVE  OwnerInv'
<1>0. Pointers
  BY PointersHold
<1>1. CASE QuietStep
  BY <1>0, <1>1, QuietDoes, SteadyAll DEF Quiet, Steady, Pointers, OwnerInv, MutexInv, KeptInv, Inside, Using
<1>2. ASSUME NEW i \in Queries, Dispatch(i) PROVE OwnerInv'
  <2>1. DispatchEffect(i)
    BY <1>2, DispatchDoes
  <2>2. QED
    BY <1>0, <2>1
    DEF DispatchEffect, Pointers, Only, Steady, OwnerInv, MutexInv, KeptInv, Inside, Using
<1>3. ASSUME NEW i \in Queries, Lock(i) PROVE OwnerInv'
  <2>1. LockEffect(i)
    BY <1>3, LockDoes
  <2>2. QED
    BY <1>0, <2>1
    DEF LockEffect, Pointers, Only, Steady, OwnerInv, MutexInv, KeptInv, Inside, Using
<1>4. ASSUME NEW i \in Queries, Load(i) PROVE OwnerInv'
  <2>1. LoadEffect(i)
    BY <1>4, LoadDoes
  <2>2. QED
    BY <1>0, <2>1
    DEF LoadEffect, Pointers, Only, Steady, OwnerInv, MutexInv, KeptInv, Inside, Using
<1>5. ASSUME NEW i \in Queries, Dial(i) PROVE OwnerInv'
  <2>1. DialEffect(i)
    BY <1>5, DialDoes, NamesSuffice DEF Dial
  <2>2. QED
    BY <1>0, <2>1
    DEF DialEffect, Pointers, Only, Steady, Unused, OwnerInv, MutexInv, KeptInv, Inside,
        Using
<1>6. ASSUME NEW i \in Queries, DialFails(i) PROVE OwnerInv'
  <2>1. DialFailsEffect(i)
    BY <1>6, DialFailsDoes
  <2>2. QED
    BY <1>0, <2>1
    DEF DialFailsEffect, Pointers, Only, Steady, OwnerInv, MutexInv, KeptInv, Inside,
        Using
<1>7. ASSUME NEW i \in Queries, Store(i) PROVE OwnerInv'
  <2>1. StoreEffect(i)
    BY <1>7, StoreDoes
  <2>2. QED
    BY <1>0, <2>1
    DEF StoreEffect, Pointers, Only, Steady, OwnerInv, MutexInv, KeptInv, Inside, Using
<1>8. ASSUME NEW i \in Queries, Write(i) PROVE OwnerInv'
  <2>1. WriteEffect(i)
    BY <1>8, WriteDoes
  <2>2. QED
    BY <1>0, <2>1
    DEF WriteEffect, Pointers, Only, Steady, OwnerInv, MutexInv, KeptInv, Inside, Using
<1>9. ASSUME NEW i \in Queries, Read(i) PROVE OwnerInv'
  <2>1. ReadEffect(i)
    BY <1>9, ReadDoes, OwnsIt DEF Read
  <2>2. QED
    BY <1>0, <2>1
    DEF ReadEffect, Pointers, Only, Steady, OwnerInv, MutexInv, KeptInv, Inside, Using
<1>10. ASSUME NEW i \in Queries, IOFails(i) PROVE OwnerInv'
  <2>1. IOFailsEffect(i)
    BY <1>10, IOFailsDoes
  <2>2. QED
    BY <1>0, <2>1
    DEF IOFailsEffect, Pointers, Only, Steady, Unlock, OwnerInv, MutexInv, KeptInv, Inside,
        Using
<1>11. ASSUME NEW i \in Queries, NextUpstream(i) PROVE OwnerInv'
  <2>1. NextUpstreamEffect(i)
    BY <1>11, NextUpstreamDoes
  <2>2. QED
    BY <1>0, <2>1
    DEF NextUpstreamEffect, Pointers, Only, Steady, OwnerInv, MutexInv, KeptInv, Inside,
        Using
<1>12. ASSUME NEW x \in Closers, SwapConn(x) PROVE OwnerInv'
  <2>1. \A j \in Queries : Steady(j)
    BY <1>12, SteadyAll DEF SwapConn
  <2>2. QED BY <1>0, <1>12, <2>1 DEF SwapConn, Pointers, Steady, OwnerInv, MutexInv, KeptInv, Inside, Using
<1>13. ASSUME NEW x \in Closers, CloseConn(x) PROVE OwnerInv'
  <2>1. \A j \in Queries : Steady(j)
    BY <1>13, SteadyAll DEF CloseConn
  <2>2. QED BY <1>0, <1>13, <2>1 DEF CloseConn, Pointers, Steady, OwnerInv, MutexInv, KeptInv, Inside, Using
<1>14. QED
  BY <1>1, <1>2, <1>3, <1>4, <1>5, <1>6, <1>7, <1>8, <1>9, <1>10, <1>11, <1>12, <1>13,
     Kinds

\* Only the holder of the mutex stores; CloseUpstreams only takes away.
LEMMA KeptStep ==
    ASSUME TypeInv, MutexInv, OwnerInv, KeptInv, OpenInv, [Next]_vars
    PROVE  KeptInv'
<1>0. Pointers
  BY PointersHold
<1>1. CASE QuietStep
  BY <1>0, <1>1, QuietDoes, SteadyAll DEF Quiet, Steady, Pointers, KeptInv, MutexInv, Inside, Using
<1>2. ASSUME NEW i \in Queries, Dispatch(i) PROVE KeptInv'
  <2>1. DispatchEffect(i)
    BY <1>2, DispatchDoes
  <2>2. QED
    BY <1>0, <2>1
    DEF DispatchEffect, Pointers, Only, Steady, KeptInv, MutexInv, Inside, Using
<1>3. ASSUME NEW i \in Queries, Lock(i) PROVE KeptInv'
  <2>1. LockEffect(i)
    BY <1>3, LockDoes
  <2>2. QED
    BY <1>0, <2>1
    DEF LockEffect, Pointers, Only, Steady, KeptInv, MutexInv, Inside, Using
<1>4. ASSUME NEW i \in Queries, Load(i) PROVE KeptInv'
  <2>1. LoadEffect(i)
    BY <1>4, LoadDoes
  <2>2. QED
    BY <1>0, <2>1
    DEF LoadEffect, Pointers, Only, Steady, KeptInv, MutexInv, Inside, Using
<1>5. ASSUME NEW i \in Queries, Dial(i) PROVE KeptInv'
  <2>1. DialEffect(i)
    BY <1>5, DialDoes, NamesSuffice DEF Dial
  <2>2. QED
    BY <1>0, <2>1
    DEF DialEffect, Pointers, Only, Steady, Unused, KeptInv, MutexInv, Inside, Using
<1>6. ASSUME NEW i \in Queries, DialFails(i) PROVE KeptInv'
  <2>1. DialFailsEffect(i)
    BY <1>6, DialFailsDoes
  <2>2. QED
    BY <1>0, <2>1
    DEF DialFailsEffect, Pointers, Only, Steady, KeptInv, MutexInv, Inside, Using
<1>7. ASSUME NEW i \in Queries, Store(i) PROVE KeptInv'
  <2>1. StoreEffect(i)
    BY <1>7, StoreDoes
  <2>2. QED
    BY <1>0, <2>1
    DEF StoreEffect, Pointers, Only, Steady, KeptInv, MutexInv, Inside, Using
<1>8. ASSUME NEW i \in Queries, Write(i) PROVE KeptInv'
  <2>1. WriteEffect(i)
    BY <1>8, WriteDoes
  <2>2. QED
    BY <1>0, <2>1
    DEF WriteEffect, Pointers, Only, Steady, KeptInv, MutexInv, Inside, Using
<1>9. ASSUME NEW i \in Queries, Read(i) PROVE KeptInv'
  <2>1. ReadEffect(i)
    BY <1>9, ReadDoes, OwnsIt DEF Read
  <2>2. QED
    BY <1>0, <2>1
    DEF ReadEffect, Pointers, Only, Steady, KeptInv, MutexInv, Inside, Using
<1>10. ASSUME NEW i \in Queries, IOFails(i) PROVE KeptInv'
  <2>1. IOFailsEffect(i)
    BY <1>10, IOFailsDoes
  <2>2. QED
    BY <1>0, <2>1
    DEF IOFailsEffect, Pointers, Only, Steady, Unlock, KeptInv, MutexInv, Inside, Using
<1>11. ASSUME NEW i \in Queries, NextUpstream(i) PROVE KeptInv'
  <2>1. NextUpstreamEffect(i)
    BY <1>11, NextUpstreamDoes
  <2>2. QED
    BY <1>0, <2>1
    DEF NextUpstreamEffect, Pointers, Only, Steady, KeptInv, MutexInv, Inside, Using
<1>12. ASSUME NEW x \in Closers, SwapConn(x) PROVE KeptInv'
  <2>1. \A j \in Queries : Steady(j)
    BY <1>12, SteadyAll DEF SwapConn
  <2>2. QED BY <1>0, <1>12, <2>1 DEF SwapConn, Pointers, Steady, KeptInv, MutexInv, Inside, Using
<1>13. ASSUME NEW x \in Closers, CloseConn(x) PROVE KeptInv'
  <2>1. \A j \in Queries : Steady(j)
    BY <1>13, SteadyAll DEF CloseConn
  <2>2. QED BY <1>0, <1>13, <2>1 DEF CloseConn, Pointers, Steady, KeptInv, MutexInv, Inside, Using
<1>14. QED
  BY <1>1, <1>2, <1>3, <1>4, <1>5, <1>6, <1>7, <1>8, <1>9, <1>10, <1>11, <1>12, <1>13,
     Kinds

\* What leaves an upstream is in the hands of who will close it.
LEMMA OpenStep ==
    ASSUME TypeInv, MutexInv, OwnerInv, KeptInv, OpenInv, [Next]_vars
    PROVE  OpenInv'
<1>0. Pointers
  BY PointersHold
<1>1. CASE QuietStep
  BY <1>0, <1>1, QuietDoes, SteadyAll DEF Quiet, Steady, Pointers, OpenInv, OwnerInv, KeptInv, Using
<1>2. ASSUME NEW i \in Queries, Dispatch(i) PROVE OpenInv'
  <2>1. DispatchEffect(i)
    BY <1>2, DispatchDoes
  <2>2. QED
    BY <1>0, <2>1
    DEF DispatchEffect, Pointers, Only, Steady, OpenInv, OwnerInv, KeptInv, Using
<1>3. ASSUME NEW i \in Queries, Lock(i) PROVE OpenInv'
  <2>1. LockEffect(i)
    BY <1>3, LockDoes
  <2>2. QED
    BY <1>0, <2>1
    DEF LockEffect, Pointers, Only, Steady, OpenInv, OwnerInv, KeptInv, Using
<1>4. ASSUME NEW i \in Queries, Load(i) PROVE OpenInv'
  <2>1. LoadEffect(i)
    BY <1>4, LoadDoes
  <2>2. QED
    BY <1>0, <2>1
    DEF LoadEffect, Pointers, Only, Steady, OpenInv, OwnerInv, KeptInv, Using
<1>5. ASSUME NEW i \in Queries, Dial(i) PROVE OpenInv'
  <2>1. DialEffect(i)
    BY <1>5, DialDoes, NamesSuffice DEF Dial
  <2>2. QED
    BY <1>0, <2>1
    DEF DialEffect, Pointers, Only, Steady, Unused, OpenInv, OwnerInv, KeptInv, Using
<1>6. ASSUME NEW i \in Queries, DialFails(i) PROVE OpenInv'
  <2>1. DialFailsEffect(i)
    BY <1>6, DialFailsDoes
  <2>2. QED
    BY <1>0, <2>1
    DEF DialFailsEffect, Pointers, Only, Steady, OpenInv, OwnerInv, KeptInv, Using
<1>7. ASSUME NEW i \in Queries, Store(i) PROVE OpenInv'
  <2>1. StoreEffect(i)
    BY <1>7, StoreDoes
  <2>2. QED
    BY <1>0, <2>1
    DEF StoreEffect, Pointers, Only, Steady, OpenInv, OwnerInv, KeptInv, Using
<1>8. ASSUME NEW i \in Queries, Write(i) PROVE OpenInv'
  <2>1. WriteEffect(i)
    BY <1>8, WriteDoes
  <2>2. QED
    BY <1>0, <2>1
    DEF WriteEffect, Pointers, Only, Steady, OpenInv, OwnerInv, KeptInv, Using
<1>9. ASSUME NEW i \in Queries, Read(i) PROVE OpenInv'
  <2>1. ReadEffect(i)
    BY <1>9, ReadDoes, OwnsIt DEF Read
  <2>2. QED
    BY <1>0, <2>1
    DEF ReadEffect, Pointers, Only, Steady, OpenInv, OwnerInv, KeptInv, Using
<1>10. ASSUME NEW i \in Queries, IOFails(i) PROVE OpenInv'
  <2>1. IOFailsEffect(i)
    BY <1>10, IOFailsDoes
  <2>2. made \in [Conns -> Nat] /\ q[i].conn \in Conns
    BY <1>0, <2>1 DEF TypeInv, Pointers, KeptInv, Using, IOFailsEffect
  <2>3. /\ made' = [made EXCEPT ![q[i].conn] = 0] /\ UNCHANGED held
        /\ conn' = [conn EXCEPT ![Upstream(i)] = None]
        /\ conn[Upstream(i)] \in {None, q[i].conn} /\ q[i].pc # "store"
        /\ \A j \in Queries \ {i} : q'[j].pc = q[j].pc /\ q'[j].conn = q[j].conn
    BY <2>1 DEF IOFailsEffect, KeptInv, Only, Steady
  <2>4. QED BY <1>0, <2>2, <2>3 DEF Pointers, OpenInv
<1>11. ASSUME NEW i \in Queries, NextUpstream(i) PROVE OpenInv'
  <2>1. NextUpstreamEffect(i)
    BY <1>11, NextUpstreamDoes
  <2>2. QED
    BY <1>0, <2>1
    DEF NextUpstreamEffect, Pointers, Only, Steady, OpenInv, OwnerInv, KeptInv, Using
<1>12. ASSUME NEW x \in Closers, SwapConn(x) PROVE OpenInv'
  <2>1. /\ held[x] = None /\ held' = [held EXCEPT ![x] = conn[closing[x]]]
        /\ conn' = [conn EXCEPT ![closing[x]] = None] /\ UNCHANGED <<made, q>>
    BY <1>12 DEF SwapConn
  <2>2. held \in [Closers -> Conns \cup {None}] /\ closing[x] \in Upstreams
    BY <1>12, UpstreamAssumption DEF SwapConn, TypeInv, Upstreams
  <2>3. QED BY <1>0, <2>1, <2>2 DEF Pointers, OpenInv
<1>13. ASSUME NEW x \in Closers, CloseConn(x) PROVE OpenInv'
  <2>1. /\ held[x] # None /\ made' = [made EXCEPT ![held[x]] = 0]
        /\ held' = [held EXCEPT ![x] = None] /\ UNCHANGED <<conn, q>>
    BY <1>13 DEF CloseConn
  <2>2. held \in [Closers -> Conns \cup {None}] /\ made \in [Conns -> Nat]
    BY DEF TypeInv
  <2>3. QED BY <1>0, <2>1, <2>2 DEF Pointers, OpenInv
<1>14. QED
  BY <1>1, <1>2, <1>3, <1>4, <1>5, <1>6, <1>7, <1>8, <1>9, <1>10, <1>11, <1>12, <1>13,
     Kinds

\* A question is put on a connection that has none, and goes with its answer.
LEMMA AskedStep ==
    ASSUME TypeInv, MutexInv, OwnerInv, KeptInv, OpenInv, AskedInv, [Next]_vars
    PROVE  AskedInv'
<1>0. Pointers
  BY PointersHold
<1>1. CASE QuietStep
  BY <1>0, <1>1, QuietDoes, SteadyAll DEF Quiet, Steady, Pointers, AskedInv, OwnerInv, KeptInv, Using
<1>2. ASSUME NEW i \in Queries, Dispatch(i) PROVE AskedInv'
  <2>1. DispatchEffect(i)
    BY <1>2, DispatchDoes
  <2>2. QED
    BY <1>0, <2>1
    DEF DispatchEffect, Pointers, Only, Steady, AskedInv, OwnerInv, KeptInv, Using
<1>3. ASSUME NEW i \in Queries, Lock(i) PROVE AskedInv'
  <2>1. LockEffect(i)
    BY <1>3, LockDoes
  <2>2. QED
    BY <1>0, <2>1
    DEF LockEffect, Pointers, Only, Steady, AskedInv, OwnerInv, KeptInv, Using
<1>4. ASSUME NEW i \in Queries, Load(i) PROVE AskedInv'
  <2>1. LoadEffect(i)
    BY <1>4, LoadDoes
  <2>2. QED
    BY <1>0, <2>1
    DEF LoadEffect, Pointers, Only, Steady, AskedInv, OwnerInv, KeptInv, Using
<1>5. ASSUME NEW i \in Queries, Dial(i) PROVE AskedInv'
  <2>1. DialEffect(i)
    BY <1>5, DialDoes, NamesSuffice DEF Dial
  <2>2. QED
    BY <1>0, <2>1
    DEF DialEffect, Pointers, Only, Steady, Unused, AskedInv, OwnerInv, KeptInv, Using
<1>6. ASSUME NEW i \in Queries, DialFails(i) PROVE AskedInv'
  <2>1. DialFailsEffect(i)
    BY <1>6, DialFailsDoes
  <2>2. QED
    BY <1>0, <2>1
    DEF DialFailsEffect, Pointers, Only, Steady, AskedInv, OwnerInv, KeptInv, Using
<1>7. ASSUME NEW i \in Queries, Store(i) PROVE AskedInv'
  <2>1. StoreEffect(i)
    BY <1>7, StoreDoes
  <2>2. QED
    BY <1>0, <2>1
    DEF StoreEffect, Pointers, Only, Steady, AskedInv, OwnerInv, KeptInv, Using
<1>8. ASSUME NEW i \in Queries, Write(i) PROVE AskedInv'
  <2>1. WriteEffect(i)
    BY <1>8, WriteDoes
  <2>2. asked \in [Conns -> Seq(Queries)] /\ q[i].conn \in Conns
    BY <1>0, <2>1 DEF TypeInv, Pointers, KeptInv, Using, WriteEffect
  <2>3. asked[q[i].conn] = <<>>
    BY <1>0, <2>1, <2>2 DEF AskedInv, OwnerInv, WriteEffect, Pointers
  <2>4. Append(<<>>, i) = <<i>>
    OBVIOUS
  <2>5. asked' = [asked EXCEPT ![q[i].conn] = <<i>>]
    BY <2>1, <2>2, <2>3, <2>4 DEF WriteEffect
  <2>6. /\ q'[i].pc = "read" /\ q'[i].conn = q[i].conn
        /\ \A j \in Queries \ {i} : q'[j].pc = q[j].pc /\ q'[j].conn = q[j].conn
    BY <2>1 DEF WriteEffect, Only, Steady
  <2>7. ASSUME NEW c \in Conns, c # q[i].conn, asked[c] # <<>>
        PROVE  \E j \in Queries : q'[j].pc = "read" /\ q'[j].conn = c /\ asked[c] = <<j>>
    BY <2>6, <2>7 DEF AskedInv
  <2>8. QED BY <2>2, <2>5, <2>6, <2>7 DEF AskedInv
<1>9. ASSUME NEW i \in Queries, Read(i) PROVE AskedInv'
  <2>1. ReadEffect(i)
    BY <1>9, ReadDoes, OwnsIt DEF Read
  <2>2. asked \in [Conns -> Seq(Queries)] /\ q[i].conn \in Conns
    BY <1>0, <2>1 DEF TypeInv, Pointers, KeptInv, Using, ReadEffect
  <2>3. asked[q[i].conn] = <<i>>
    <3>1. asked[q[i].conn] # <<>>
      BY <2>1 DEF ReadEffect
    <3>2. PICK j \in Queries : q[j].conn = q[i].conn /\ asked[q[i].conn] = <<j>>
      BY <2>2, <3>1 DEF AskedInv
    <3>3. QED BY <1>0, <2>2, <3>2 DEF OwnerInv, Pointers
  <2>4. Tail(<<i>>) = <<>>
    OBVIOUS
  <2>5. asked' = [asked EXCEPT ![q[i].conn] = <<>>]
    BY <2>1, <2>2, <2>3, <2>4 DEF ReadEffect
  <2>6. \A j \in Queries \ {i} : q'[j].pc = q[j].pc /\ q'[j].conn = q[j].conn
    BY <2>1 DEF ReadEffect, Only, Steady
  <2>7. ASSUME NEW c \in Conns, c # q[i].conn, asked[c] # <<>>
        PROVE  \E j \in Queries : q'[j].pc = "read" /\ q'[j].conn = c /\ asked[c] = <<j>>
    BY <2>6, <2>7 DEF AskedInv
  <2>8. QED BY <2>2, <2>5, <2>7 DEF AskedInv
<1>10. ASSUME NEW i \in Queries, IOFails(i) PROVE AskedInv'
  <2>1. IOFailsEffect(i)
    BY <1>10, IOFailsDoes
  <2>2. asked \in [Conns -> Seq(Queries)] /\ q[i].conn \in Conns
    BY <1>0, <2>1 DEF TypeInv, Pointers, KeptInv, Using, IOFailsEffect
  <2>3. asked' = [asked EXCEPT ![q[i].conn] = <<>>]
    BY <2>1 DEF IOFailsEffect
  <2>4. \A j \in Queries \ {i} : q'[j].pc = q[j].pc /\ q'[j].conn = q[j].conn
    BY <2>1 DEF IOFailsEffect, Only, Steady
  <2>5. ASSUME NEW c \in Conns, c # q[i].conn, asked[c] # <<>>
        PROVE  \E j \in Queries : q'[j].pc = "read" /\ q'[j].conn = c /\ asked[c] = <<j>>
    BY <2>4, <2>5 DEF AskedInv
  <2>6. QED BY <2>2, <2>3, <2>5 DEF AskedInv
<1>11. ASSUME NEW i \in Queries, NextUpstream(i) PROVE AskedInv'
  <2>1. NextUpstreamEffect(i)
    BY <1>11, NextUpstreamDoes
  <2>2. QED
    BY <1>0, <2>1
    DEF NextUpstreamEffect, Pointers, Only, Steady, AskedInv, OwnerInv, KeptInv, Using
<1>12. ASSUME NEW x \in Closers, SwapConn(x) PROVE AskedInv'
  <2>1. \A j \in Queries : Steady(j)
    BY <1>12, SteadyAll DEF SwapConn
  <2>2. QED BY <1>0, <1>12, <2>1 DEF SwapConn, Pointers, Steady, AskedInv, OwnerInv, KeptInv, Using
<1>13. ASSUME NEW x \in Closers, CloseConn(x) PROVE AskedInv'
  <2>1. /\ held[x] # None /\ asked' = [asked EXCEPT ![held[x]] = <<>>] /\ UNCHANGED q
    BY <1>13 DEF CloseConn
  <2>2. held[x] \in Conns \cup {None} /\ asked \in [Conns -> Seq(Queries)]
    BY DEF TypeInv
  <2>3. QED BY <2>1, <2>2 DEF AskedInv
<1>14. QED
  BY <1>1, <1>2, <1>3, <1>4, <1>5, <1>6, <1>7, <1>8, <1>9, <1>10, <1>11, <1>12, <1>13,
     Kinds

\* The next answer of a connection is the one to the only question on it.
LEMMA AnswerStep ==
    ASSUME TypeInv, MutexInv, OwnerInv, KeptInv, OpenInv, AskedInv, AnswersOwnQuery, [Next]_vars
    PROVE  AnswersOwnQuery'
<1>0. Pointers
  BY PointersHold
<1>1. CASE QuietStep
  BY <1>0, <1>1, QuietDoes, SteadyAll DEF Quiet, Steady, Pointers, AnswersOwnQuery
<1>2. ASSUME NEW i \in Queries, Dispatch(i) PROVE AnswersOwnQuery'
  <2>1. DispatchEffect(i)
    BY <1>2, DispatchDoes
  <2>2. QED
    BY <1>0, <2>1
    DEF DispatchEffect, Pointers, Only, Steady, AnswersOwnQuery
<1>3. ASSUME NEW i \in Queries, Lock(i) PROVE AnswersOwnQuery'
  <2>1. LockEffect(i)
    BY <1>3, LockDoes
  <2>2. QED
    BY <1>0, <2>1
    DEF LockEffect, Pointers, Only, Steady, AnswersOwnQuery
<1>4. ASSUME NEW i \in Queries, Load(i) PROVE AnswersOwnQuery'
  <2>1. LoadEffect(i)
    BY <1>4, LoadDoes
  <2>2. QED
    BY <1>0, <2>1
    DEF LoadEffect, Pointers, Only, Steady, AnswersOwnQuery
<1>5. ASSUME NEW i \in Queries, Dial(i) PROVE AnswersOwnQuery'
  <2>1. DialEffect(i)
    BY <1>5, DialDoes, NamesSuffice DEF Dial
  <2>2. QED
    BY <1>0, <2>1
    DEF DialEffect, Pointers, Only, Steady, Unused, AnswersOwnQuery
<1>6. ASSUME NEW i \in Queries, DialFails(i) PROVE AnswersOwnQuery'
  <2>1. DialFailsEffect(i)
    BY <1>6, DialFailsDoes
  <2>2. QED
    BY <1>0, <2>1
    DEF DialFailsEffect, Pointers, Only, Steady, AnswersOwnQuery
<1>7. ASSUME NEW i \in Queries, Store(i) PROVE AnswersOwnQuery'
  <2>1. StoreEffect(i)
    BY <1>7, StoreDoes
  <2>2. QED
    BY <1>0, <2>1
    DEF StoreEffect, Pointers, Only, Steady, AnswersOwnQuery
<1>8. ASSUME NEW i \in Queries, Write(i) PROVE AnswersOwnQuery'
  <2>1. WriteEffect(i)
    BY <1>8, WriteDoes
  <2>2. QED
    BY <1>0, <2>1
    DEF WriteEffect, Pointers, Only, Steady, AnswersOwnQuery
<1>9. ASSUME NEW i \in Queries, Read(i) PROVE AnswersOwnQuery'
  <2>1. ReadEffect(i)
    BY <1>9, ReadDoes, OwnsIt DEF Read
  <2>2. asked[q[i].conn] = <<i>>
    BY <1>0, <2>1, OwnsIt DEF AskedInv, OwnerInv, ReadEffect, Pointers
  <2>3. Head(<<i>>) = i
    OBVIOUS
  <2>4. q'[i].got = {i}
    BY <2>1, <2>2, <2>3 DEF ReadEffect
  <2>5. QED BY <2>1, <2>4 DEF ReadEffect, Only, Steady, AnswersOwnQuery
<1>10. ASSUME NEW i \in Queries, IOFails(i) PROVE AnswersOwnQuery'
  <2>1. IOFailsEffect(i)
    BY <1>10, IOFailsDoes
  <2>2. QED
    BY <1>0, <2>1
    DEF IOFailsEffect, Pointers, Only, Steady, Unlock, AnswersOwnQuery
<1>11. ASSUME NEW i \in Queries, NextUpstream(i) PROVE AnswersOwnQuery'
  <2>1. NextUpstreamEffect(i)
    BY <1>11, NextUpstreamDoes
  <2>2. QED
    BY <1>0, <2>1
    DEF NextUpstreamEffect, Pointers, Only, Steady, AnswersOwnQuery
<1>12. ASSUME NEW x \in Closers, SwapConn(x) PROVE AnswersOwnQuery'
  <2>1. \A j \in Queries : Steady(j)
    BY <1>12, SteadyAll DEF SwapConn
  <2>2. QED BY <1>0, <1>12, <2>1 DEF SwapConn, Pointers, Steady, AnswersOwnQuery
<1>13. ASSUME NEW x \in Closers, CloseConn(x) PROVE AnswersOwnQuery'
  <2>1. \A j \in Queries : Steady(j)
    BY <1>13, SteadyAll DEF CloseConn
  <2>2. QED BY <1>0, <1>13, <2>1 DEF CloseConn, Pointers, Steady, AnswersOwnQuery
<1>14. QED
  BY <1>1, <1>2, <1>3, <1>4, <1>5, <1>6, <1>7, <1>8, <1>9, <1>10, <1>11, <1>12, <1>13,
     Kinds

\* CloseUpstreams begins: the context moves on, and so does this closer.
LEMMA BeginCloseDoes ==
    ASSUME TypeInv, NEW x \in Closers, BeginClose(x)
    PROVE  /\ dialsCtx' \in Nat /\ (dialsCtx' = None <=> dialsCtx = None)
           /\ closing' \in [Closers -> Nat] /\ closing'[x] = 0
           /\ \A y \in Closers \ {x} : closing'[y] = closing[y]
           /\ calm' = {j \in calm : ~Active(j)}
           /\ UNCHANGED <<conn, mu, made, asked, q, idx, held>>
<1>1. dialsCtx' \in Nat /\ (dialsCtx' = None <=> dialsCtx = None)
  BY DEF BeginClose, TypeInv, None
<1>2. closing' = [closing EXCEPT ![x] = 0] /\ closing \in [Closers -> Nat]
  BY DEF BeginClose, TypeInv
<1>3. QED BY <1>1, <1>2 DEF BeginClose, Disturb, pool

\* The application's course, action by action.
LEMMA CourseStep ==
    ASSUME TypeInv, KeptInv, OpenInv, MutexInv, CourseInv, [Next]_vars
    PROVE  CourseInv'
<1> USE DEF CourseInv, Up, pool, closers, net
<1>1. CASE StartStep \/ BindFails
  BY <1>1 DEF StartStep, Bind, InitDials, Serve, BindFails, None
<1>2. CASE WriteFails
  <2>1. BeginClose("app") /\ "app" \in Closers
    BY <1>2 DEF WriteFails, Closers
  <2>2. QED BY <1>2, <2>1, BeginCloseDoes, UpstreamAssumption DEF WriteFails
<1>3. CASE ListenerFails
  <2>1. BeginClose("supervisor") /\ "supervisor" \in Closers
    BY <1>3 DEF ListenerFails, Closers
  <2>2. QED BY <1>3, <2>1, BeginCloseDoes, UpstreamAssumption DEF ListenerFails
<1>4. CASE EndServices
  <2>1. BeginClose("app") /\ "app" \in Closers
    BY <1>4 DEF EndServices, Closers
  <2>2. QED BY <1>4, <2>1, BeginCloseDoes, UpstreamAssumption DEF EndServices
<1>5. CASE Shutdown
  <2>1. CASE phase = "serving"
    <3>1. BeginClose("supervisor") /\ "supervisor" \in Closers
      BY <1>5, <2>1 DEF Shutdown, Closers
    <3>2. QED BY <1>5, <3>1, BeginCloseDoes, UpstreamAssumption DEF Shutdown
  <2>2. CASE phase # "serving"
    BY <1>5, <2>2 DEF Shutdown
  <2>3. QED BY <2>1, <2>2
<1>6. CASE TunnelDown \/ TunnelUp \/ Verified
  BY <1>6 DEF TunnelDown, TunnelUp, Verified, TypeInv
<1>7. ASSUME NEW i \in Queries, Dispatch(i) PROVE CourseInv'
  BY <1>7 DEF Dispatch
<1>8. ASSUME NEW i \in Queries, Lock(i) PROVE CourseInv'
  BY <1>8 DEF Lock
<1>9. ASSUME NEW i \in Queries, Load(i) PROVE CourseInv'
  BY <1>9 DEF Load
<1>10. ASSUME NEW i \in Queries, Dial(i) PROVE CourseInv'
  BY <1>10 DEF Dial
<1>11. ASSUME NEW i \in Queries, DialFails(i) PROVE CourseInv'
  BY <1>11 DEF DialFails
<1>12. ASSUME NEW i \in Queries, Store(i) PROVE CourseInv'
  BY <1>12 DEF Store
<1>13. ASSUME NEW i \in Queries, Write(i) PROVE CourseInv'
  BY <1>13 DEF Write
<1>14. ASSUME NEW i \in Queries, Read(i) PROVE CourseInv'
  BY <1>14 DEF Read
<1>15. ASSUME NEW i \in Queries, IOFails(i) PROVE CourseInv'
  BY <1>15 DEF IOFails
<1>16. ASSUME NEW i \in Queries, NextUpstream(i) PROVE CourseInv'
  BY <1>16 DEF NextUpstream
<1>17. ASSUME NEW i \in Queries, DialPanics(i) PROVE CourseInv'
  BY <1>17 DEF DialPanics
<1>18. ASSUME NEW x \in Closers, SwapConn(x) PROVE CourseInv'
  BY <1>18, UpstreamAssumption DEF SwapConn, TypeInv
<1>19. ASSUME NEW x \in Closers, CloseConn(x) PROVE CourseInv'
  BY <1>19, UpstreamAssumption DEF CloseConn, TypeInv
<1>20. ASSUME NEW x \in Closers, EndClose(x) PROVE CourseInv'
  BY <1>20, UpstreamAssumption DEF EndClose, TypeInv, Idle
<1>21. CASE UNCHANGED vars
  BY <1>21 DEF vars
<1>22. QED
  BY <1>1, <1>2, <1>3, <1>4, <1>5, <1>6, <1>7, <1>8, <1>9, <1>10, <1>11, <1>12, <1>13,
     <1>14, <1>15, <1>16, <1>17, <1>18, <1>19, <1>20, <1>21
  DEF Next, QueryStep, CloseStep

\* The types, action by action.
LEMMA TypeStep ==
    ASSUME TypeInv, MutexInv, KeptInv, OpenInv, [Next]_vars
    PROVE  TypeInv'
<1>0. Pointers
  BY PointersHold
<1> USE DEF TypeInv, pool, closers, net
<1>1. CASE StartStep \/ BindFails
  BY <1>1 DEF StartStep, Bind, InitDials, Serve, BindFails, QueryType
<1>2. CASE WriteFails \/ ListenerFails \/ EndServices
  <2>1. PICK x \in Closers : BeginClose(x)
    BY <1>2 DEF WriteFails, ListenerFails, EndServices, Closers
  <2>2. UNCHANGED tunnel
    BY <1>2 DEF WriteFails, ListenerFails, EndServices
  <2>3. QED BY <2>1, <2>2, BeginCloseDoes DEF QueryType
<1>3. CASE Shutdown
  <2>1. CASE BeginClose("supervisor")
    BY <1>3, <2>1, BeginCloseDoes DEF Shutdown, QueryType, Closers
  <2>2. CASE ~BeginClose("supervisor")
    BY <1>3, <2>2 DEF Shutdown, QueryType
  <2>3. QED BY <2>1, <2>2
<1>4. CASE TunnelDown \/ TunnelUp \/ Verified
  BY <1>4 DEF TunnelDown, TunnelUp, Verified, QueryType
<1>5. ASSUME NEW i \in Queries, Dispatch(i) PROVE TypeInv'
  <2>1. DispatchEffect(i)
    BY <1>5, DispatchDoes
  <2>2. QED
    BY <1>0, <1>5, <2>1 DEF DispatchEffect, Only, Pointers
<1>6. ASSUME NEW i \in Queries, Lock(i) PROVE TypeInv'
  <2>1. LockEffect(i)
    BY <1>6, LockDoes
  <2>2. QED
    BY <1>0, <1>6, <2>1 DEF LockEffect, Only, Pointers
<1>7. ASSUME NEW i \in Queries, Load(i) PROVE TypeInv'
  <2>1. LoadEffect(i)
    BY <1>7, LoadDoes
  <2>2. QED
    BY <1>0, <1>7, <2>1 DEF LoadEffect, Only, Pointers
<1>8. ASSUME NEW i \in Queries, Dial(i) PROVE TypeInv'
  <2>1. DialEffect(i)
    BY <1>8, DialDoes, NamesSuffice DEF Dial
  <2>2. QED
    BY <1>0, <1>8, <2>1 DEF DialEffect, Only, Pointers, Unused
<1>9. ASSUME NEW i \in Queries, DialFails(i) PROVE TypeInv'
  <2>1. DialFailsEffect(i)
    BY <1>9, DialFailsDoes
  <2>2. QED
    BY <1>0, <1>9, <2>1 DEF DialFailsEffect, Only, Pointers
<1>10. ASSUME NEW i \in Queries, Store(i) PROVE TypeInv'
  <2>1. StoreEffect(i)
    BY <1>10, StoreDoes
  <2>2. QED
    BY <1>0, <1>10, <2>1 DEF StoreEffect, Only, Pointers
<1>11. ASSUME NEW i \in Queries, Write(i) PROVE TypeInv'
  <2>1. WriteEffect(i)
    BY <1>11, WriteDoes
  <2>2. asked' = [asked EXCEPT ![q[i].conn] = Append(@, i)] /\ asked \in [Conns -> Seq(Queries)]
    BY <2>1 DEF WriteEffect
  <2>3. \A s \in Seq(Queries) : Append(s, i) \in Seq(Queries)
    OBVIOUS
  <2>4. asked' \in [Conns -> Seq(Queries)]
    BY <2>2, <2>3
  <2>5. QED BY <2>1, <2>4 DEF WriteEffect, Only
<1>12. ASSUME NEW i \in Queries, Read(i) PROVE TypeInv'
  <2>1. ReadEffect(i)
    BY <1>12, ReadDoes, OwnsIt DEF Read
  <2>2. /\ asked' = [asked EXCEPT ![q[i].conn] = Tail(@)] /\ asked \in [Conns -> Seq(Queries)]
        /\ asked[q[i].conn] # <<>>
    BY <2>1 DEF ReadEffect
  <2>3. \A s \in Seq(Queries) : s # <<>> => Tail(s) \in Seq(Queries)
    OBVIOUS
  <2>4. asked' \in [Conns -> Seq(Queries)]
    BY <2>2, <2>3
  <2>5. mu' \in [Upstreams -> SUBSET Queries]
    BY <1>0, <2>1 DEF ReadEffect, Pointers
  <2>6. QED BY <2>1, <2>4, <2>5 DEF ReadEffect, Only
<1>13. ASSUME NEW i \in Queries, IOFails(i) PROVE TypeInv'
  <2>1. IOFailsEffect(i)
    BY <1>13, IOFailsDoes
  <2>2. mu' \in [Upstreams -> SUBSET Queries]
    BY <1>0, <2>1 DEF IOFailsEffect, Unlock, Pointers
  <2>3. conn' \in [Upstreams -> Conns \cup {None}] /\ made' \in [Conns -> Nat]
    BY <1>0, <2>1 DEF IOFailsEffect, Pointers
  <2>4. asked' \in [Conns -> Seq(Queries)]
    <3>1. <<>> \in Seq(Queries)
      OBVIOUS
    <3>2. QED BY <2>1, <3>1 DEF IOFailsEffect
  <2>5. QED BY <2>1, <2>2, <2>3, <2>4 DEF IOFailsEffect, Only
<1>14. ASSUME NEW i \in Queries, NextUpstream(i) PROVE TypeInv'
  <2>1. NextUpstreamEffect(i)
    BY <1>14, NextUpstreamDoes
  <2>2. QED
    BY <1>0, <1>14, <2>1 DEF NextUpstreamEffect, Only, Pointers
<1>15. ASSUME NEW i \in Queries, DialPanics(i) PROVE TypeInv'
  BY <1>15 DEF DialPanics, QueryType
<1>16. ASSUME NEW x \in Closers, SwapConn(x) PROVE TypeInv'
  BY <1>16, UpstreamAssumption DEF SwapConn, QueryType, Idle, Upstreams
<1>17. ASSUME NEW x \in Closers, CloseConn(x) PROVE TypeInv'
  BY <1>17, UpstreamAssumption DEF CloseConn, QueryType, Idle, Upstreams
<1>18. ASSUME NEW x \in Closers, EndClose(x) PROVE TypeInv'
  BY <1>18, UpstreamAssumption DEF EndClose, QueryType, Idle, Upstreams
<1>19. CASE UNCHANGED vars
  BY <1>19 DEF vars, QueryType
<1>20. QED
  BY <1>1, <1>2, <1>3, <1>4, <1>5, <1>6, <1>7, <1>8, <1>9, <1>10, <1>11, <1>12, <1>13,
     <1>14, <1>15, <1>16, <1>17, <1>18, <1>19
  DEF Next, QueryStep, CloseStep

\* Whatever disturbs the proxy takes the calm of the queries under way.
LEMMA CalmQuiet ==
    ASSUME CourseInv, CalmInv, QuietStep
    PROVE  CalmInv'
<1>0. (\A j \in Queries : Steady(j)) /\ UNCHANGED <<conn, made>>
  BY QuietDoes, SteadyAll DEF Quiet
<1>a. ASSUME calm' = {j \in calm : ~Active(j)} PROVE CalmInv'
  BY <1>0, <1>a DEF CalmInv, Active, Steady
<1>b. ASSUME calm' = calm, \A j \in calm \cap Queries : Active(j) => Up' /\ UNCHANGED <<dialsCtx, closing, tunnel>>
      PROVE  CalmInv'
  BY <1>0, <1>b DEF CalmInv, Relies, Active, Using, Steady
<1>c. ASSUME NEW j \in calm \cap Queries, Active(j)
      PROVE  Up /\ phase \notin {"bind", "bound", "dials"} /\ \A x \in Closers : closing[x] = Idle
  BY <1>c DEF CalmInv, Relies, CourseInv
<1>1. CASE StartStep \/ BindFails
  BY <1>1, <1>b, <1>c DEF StartStep, Bind, InitDials, Serve, BindFails, closers, net, Up
<1>2. CASE WriteFails \/ ListenerFails \/ EndServices \/ TunnelDown
  BY <1>2, <1>a DEF WriteFails, ListenerFails, EndServices, TunnelDown, BeginClose, Disturb
<1>3. CASE Shutdown
  BY <1>3, <1>a, <1>b, <1>c DEF Shutdown, BeginClose, Disturb, closers, net, Up
<1>4. CASE TunnelUp \/ Verified
  <2>1. CASE TunnelUp
    BY <1>b, <1>c, <2>1 DEF TunnelUp, Up
  <2>2. CASE Verified
    <3>1. Up' /\ UNCHANGED <<dialsCtx, closing, tunnel, calm>>
      BY <2>2 DEF Verified, closers, Up
    <3>2. QED BY <1>b, <3>1
  <2>3. QED BY <1>4, <2>1, <2>2
<1>5. ASSUME NEW i \in Queries, DialPanics(i) PROVE CalmInv'
  BY <1>5, <1>b, <1>c DEF DialPanics, closers, net, Up
<1>6. ASSUME NEW x \in Closers, EndClose(x) PROVE CalmInv'
  <2>1. NumUpstreams # Idle
    BY UpstreamAssumption DEF Idle
  <2>2. QED BY <1>6, <1>b, <1>c, <2>1 DEF EndClose
<1>7. CASE UNCHANGED vars
  BY <1>7, <1>b, <1>c DEF vars, Up
<1>8. QED
  BY <1>1, <1>2, <1>3, <1>4, <1>5, <1>6, <1>7 DEF QuietStep

\* An undisturbed query loses none of what it relies on.
LEMMA CalmStep ==
    ASSUME TypeInv, MutexInv, OwnerInv, KeptInv, OpenInv, CourseInv, CalmInv, [Next]_vars
    PROVE  CalmInv'
<1>0. Pointers
  BY PointersHold
<1>1. CASE QuietStep
  BY <1>1, CalmQuiet
<1>2. ASSUME NEW i \in Queries, Dispatch(i) PROVE CalmInv'
  <2>1. DispatchEffect(i)
    BY <1>2, DispatchDoes
  <2>2. Up /\ phase \in {"bound", "dials", "serving", "unsupervised"} => dialsCtx # None
    BY DEF CourseInv
  <2>3. QED
    BY <1>0, <2>1, <2>2 DEF DispatchEffect, Only, Steady, CalmInv, Relies, Using, Active, Up
<1>3. ASSUME NEW i \in Queries, Lock(i) PROVE CalmInv'
  <2>1. LockEffect(i)
    BY <1>3, LockDoes
  <2>2. QED
    BY <1>0, <2>1
    DEF LockEffect, Pointers, Only, Steady, CalmInv, MutexInv, Relies, Inside, Using,
        Active, Up
<1>4. ASSUME NEW i \in Queries, Load(i) PROVE CalmInv'
  <2>1. LoadEffect(i)
    BY <1>4, LoadDoes
  <2>2. QED
    BY <1>0, <2>1
    DEF LoadEffect, Pointers, Only, Steady, CalmInv, MutexInv, Relies, Inside, Using,
        Active, Up
<1>5. ASSUME NEW i \in Queries, Dial(i) PROVE CalmInv'
  <2>1. DialEffect(i)
    BY <1>5, DialDoes, NamesSuffice DEF Dial
  <2>2. made \in [Conns -> Nat] /\ q'[i].conn \in Conns
    BY <2>1 DEF TypeInv, DialEffect, Unused
  <2>3. \A j \in Queries : q[j].conn # q'[i].conn
    BY <2>1 DEF DialEffect, Unused
  <2>4. made'[q'[i].conn] = tunnel /\ \A j \in Queries : Using(j) => made'[q[j].conn] = made[q[j].conn]
    BY <1>0, <2>1, <2>2, <2>3 DEF DialEffect, Pointers, KeptInv
  <2>5. QED
    BY <2>1, <2>4 DEF DialEffect, Only, Steady, CalmInv, Relies, Using, Active, Up
<1>6. ASSUME NEW i \in Queries, DialFails(i) PROVE CalmInv'
  <2>1. DialFailsEffect(i)
    BY <1>6, DialFailsDoes
  <2>2. i \notin calm'
    BY <2>1 DEF DialFailsEffect, CalmInv, Relies, Active, Cancelled
  <2>3. QED
    BY <2>1, <2>2 DEF DialFailsEffect, Only, Steady, CalmInv, Relies, Using, Active, Up
<1>7. ASSUME NEW i \in Queries, Store(i) PROVE CalmInv'
  <2>1. StoreEffect(i)
    BY <1>7, StoreDoes
  <2>2. QED
    BY <1>0, <2>1
    DEF StoreEffect, Pointers, Only, Steady, CalmInv, MutexInv, Relies, Inside, Using,
        Active, Up
<1>8. ASSUME NEW i \in Queries, Write(i) PROVE CalmInv'
  <2>1. WriteEffect(i)
    BY <1>8, WriteDoes
  <2>2. QED
    BY <1>0, <2>1
    DEF WriteEffect, Pointers, Only, Steady, CalmInv, MutexInv, Relies, Inside, Using,
        Active, Up
<1>9. ASSUME NEW i \in Queries, Read(i) PROVE CalmInv'
  <2>1. ReadEffect(i)
    BY <1>9, ReadDoes, OwnsIt DEF Read
  <2>2. QED
    BY <1>0, <2>1
    DEF ReadEffect, Pointers, Only, Steady, CalmInv, MutexInv, Relies, Inside, Using,
        Active, Up
<1>10. ASSUME NEW i \in Queries, IOFails(i) PROVE CalmInv'
  <2>1. IOFailsEffect(i)
    BY <1>10, IOFailsDoes
  <2>2. /\ made \in [Conns -> Nat] /\ q[i].conn \in Conns /\ Active(i)
        /\ made' = [made EXCEPT ![q[i].conn] = 0]
    BY <1>0, <2>1 DEF TypeInv, IOFailsEffect, KeptInv, Using, Pointers, Active
  <2>3. \A j \in Queries \ {i} : Using(j) => q[j].conn \in Conns /\ q[j].conn # q[i].conn
    BY <1>0 DEF KeptInv, OwnerInv, Pointers
  <2>4. \A j \in Queries \ {i} : Using(j) => made'[q[j].conn] = made[q[j].conn]
    BY <2>2, <2>3
  <2>5. conn'[Upstream(i)] = None /\ \A u \in Upstreams : conn'[u] \in {None, conn[u]}
    BY <1>0, <2>1 DEF IOFailsEffect, Pointers
  <2>6. UNCHANGED <<dialsCtx, closing, app, tunnel>> /\ calm' \subseteq calm
    BY <2>1 DEF IOFailsEffect
  <2>7. ASSUME NEW j \in Queries \ {i}, j \in calm'
        PROVE  q'[j].pc # "idle" /\ (Active(j)' => Relies(j)')
    BY <1>0, <2>1, <2>4, <2>5, <2>6, <2>7
    DEF IOFailsEffect, Only, Steady, Pointers, CalmInv, Relies, Using, Active, Up
  <2>8. ASSUME i \in calm'
        PROVE  q'[i].pc # "idle" /\ Relies(i)'
    <3>1. calm' = calm /\ (made[q[i].conn] = 0 \/ ~Live(q[i].conn)) /\ Relies(i) /\ Using(i)
      BY <2>1, <2>2, <2>8 DEF IOFailsEffect, CalmInv, Using
    <3>2. q[i].attempt = 0
      BY <3>1 DEF Relies, Live, CourseInv
    <3>3. /\ q'[i].pc = "load" /\ q'[i].ctx = q[i].ctx /\ Upstream(i)' = Upstream(i)
      BY <2>1, <3>2 DEF IOFailsEffect
    <3>4. QED BY <2>5, <2>6, <3>1, <3>3 DEF Relies, Using, Up
  <2>9. QED BY <2>7, <2>8 DEF CalmInv
<1>11. ASSUME NEW i \in Queries, NextUpstream(i) PROVE CalmInv'
  <2>1. NextUpstreamEffect(i)
    BY <1>11, NextUpstreamDoes
  <2>2. QED
    BY <1>0, <2>1
    DEF NextUpstreamEffect, Pointers, Only, Steady, CalmInv, MutexInv, Relies, Inside,
        Using, Active, Up
<1>12. ASSUME NEW x \in Closers, SwapConn(x) PROVE CalmInv'
  <2>1. closing[x] < NumUpstreams /\ closing[x] \in Nat
    BY <1>12 DEF SwapConn, CourseInv, TypeInv
  <2>2. closing[x] # Idle
    BY <2>1, UpstreamAssumption DEF Idle
  <2>3. \A j \in Queries : j \in calm => q[j].pc # "idle" /\ ~Active(j)
    BY <2>2 DEF CalmInv, Relies
  <2>4. QED BY <1>12, <2>3 DEF SwapConn, CalmInv, Active
<1>13. ASSUME NEW x \in Closers, CloseConn(x) PROVE CalmInv'
  <2>1. closing[x] < NumUpstreams /\ closing[x] \in Nat
    BY <1>13 DEF CloseConn, CourseInv, TypeInv
  <2>2. closing[x] # Idle
    BY <2>1, UpstreamAssumption DEF Idle
  <2>3. \A j \in Queries : j \in calm => q[j].pc # "idle" /\ ~Active(j)
    BY <2>2 DEF CalmInv, Relies
  <2>4. QED BY <1>13, <2>3 DEF CloseConn, CalmInv, Active
<1>14. QED
  BY <1>1, <1>2, <1>3, <1>4, <1>5, <1>6, <1>7, <1>8, <1>9, <1>10, <1>11, <1>12, <1>13,
     Kinds

\* SERVFAIL ends a query whose last upstream has failed, which has disturbed it.
LEMMA ServfailStep ==
    ASSUME TypeInv, MutexInv, KeptInv, OpenInv, CalmInv, ServfailExcused, [Next]_vars
    PROVE  ServfailExcused'
<1>0. Pointers
  BY PointersHold
<1>1. CASE QuietStep
  <2>1. UNCHANGED q /\ calm' \in {calm, {j \in calm : ~Active(j)}}
    BY <1>1
    DEF QuietStep, StartStep, Bind, InitDials, Serve, BindFails, WriteFails, ListenerFails, Shutdown,
        EndServices, BeginClose, Disturb, TunnelDown, TunnelUp, Verified, vars, DialPanics, EndClose
  <2>2. QED BY <2>1 DEF ServfailExcused
<1>2. ASSUME NEW i \in Queries, Dispatch(i) PROVE ServfailExcused'
  <2>1. DispatchEffect(i)
    BY <1>2, DispatchDoes
  <2>2. QED
    BY <1>0, <2>1
    DEF DispatchEffect, Pointers, Only, Steady, ServfailExcused, CalmInv, Relies, Active
<1>3. ASSUME NEW i \in Queries, Lock(i) PROVE ServfailExcused'
  <2>1. LockEffect(i)
    BY <1>3, LockDoes
  <2>2. QED
    BY <1>0, <2>1
    DEF LockEffect, Pointers, Only, Steady, ServfailExcused, CalmInv, Relies, Active
<1>4. ASSUME NEW i \in Queries, Load(i) PROVE ServfailExcused'
  <2>1. LoadEffect(i)
    BY <1>4, LoadDoes
  <2>2. QED
    BY <1>0, <2>1
    DEF LoadEffect, Pointers, Only, Steady, ServfailExcused, CalmInv, Relies, Active
<1>5. ASSUME NEW i \in Queries, Dial(i) PROVE ServfailExcused'
  <2>1. DialEffect(i)
    BY <1>5, DialDoes, NamesSuffice DEF Dial
  <2>2. QED
    BY <1>0, <2>1
    DEF DialEffect, Pointers, Only, Steady, Unused, ServfailExcused, CalmInv, Relies,
        Active
<1>6. ASSUME NEW i \in Queries, DialFails(i) PROVE ServfailExcused'
  <2>1. DialFailsEffect(i)
    BY <1>6, DialFailsDoes
  <2>2. QED
    BY <1>0, <2>1
    DEF DialFailsEffect, Pointers, Only, Steady, ServfailExcused, CalmInv, Relies, Active
<1>7. ASSUME NEW i \in Queries, Store(i) PROVE ServfailExcused'
  <2>1. StoreEffect(i)
    BY <1>7, StoreDoes
  <2>2. QED
    BY <1>0, <2>1
    DEF StoreEffect, Pointers, Only, Steady, ServfailExcused, CalmInv, Relies, Active
<1>8. ASSUME NEW i \in Queries, Write(i) PROVE ServfailExcused'
  <2>1. WriteEffect(i)
    BY <1>8, WriteDoes
  <2>2. QED
    BY <1>0, <2>1
    DEF WriteEffect, Pointers, Only, Steady, ServfailExcused, CalmInv, Relies, Active
<1>9. ASSUME NEW i \in Queries, Read(i) PROVE ServfailExcused'
  <2>1. ReadEffect(i)
    BY <1>9, ReadDoes, OwnsIt DEF Read
  <2>2. QED
    BY <1>0, <2>1
    DEF ReadEffect, Pointers, Only, Steady, ServfailExcused, CalmInv, Relies, Active
<1>10. ASSUME NEW i \in Queries, IOFails(i) PROVE ServfailExcused'
  <2>1. IOFailsEffect(i)
    BY <1>10, IOFailsDoes
  <2>2. QED
    BY <1>0, <2>1
    DEF IOFailsEffect, Pointers, Only, Steady, Unlock, ServfailExcused, CalmInv, Relies,
        Active
<1>11. ASSUME NEW i \in Queries, NextUpstream(i) PROVE ServfailExcused'
  <2>1. NextUpstreamEffect(i)
    BY <1>11, NextUpstreamDoes
  <2>2. QED
    BY <1>0, <2>1
    DEF NextUpstreamEffect, Pointers, Only, Steady, ServfailExcused, CalmInv, Relies,
        Active
<1>12. ASSUME NEW x \in Closers, SwapConn(x) PROVE ServfailExcused'
  <2>1. UNCHANGED <<q, calm>>
    BY <1>12 DEF SwapConn
  <2>2. QED BY <2>1 DEF ServfailExcused
<1>13. ASSUME NEW x \in Closers, CloseConn(x) PROVE ServfailExcused'
  <2>1. UNCHANGED <<q, calm>>
    BY <1>13 DEF CloseConn
  <2>2. QED BY <2>1 DEF ServfailExcused
<1>14. QED
  BY <1>1, <1>2, <1>3, <1>4, <1>5, <1>6, <1>7, <1>8, <1>9, <1>10, <1>11, <1>12, <1>13,
     Kinds

-----------------------------------------------------------------------------
(* The theorems.                                                           *)

\* Init establishes the invariant.
LEMMA ProxyInit ==
    ASSUME Init
    PROVE  ProxyInv
<1>1. q \in [Queries -> Query] /\ \A i \in Queries : q[i].pc = "idle" /\ q[i].conn = None
  <2>1. Goroutine("idle", {}) \in Query
    BY DEF Goroutine, Query, PCs, None
  <2>2. QED BY <2>1 DEF Init, Goroutine
<1>2. <<>> \in Seq(Queries)
  OBVIOUS
<1>3. TypeInv
  BY <1>1, <1>2, UpstreamAssumption DEF Init, TypeInv, QueryType, Idle, None
<1>4. MutexInv /\ OwnerInv /\ KeptInv
  BY <1>1 DEF Init, MutexInv, OwnerInv, KeptInv, Inside, Using
<1>5. OpenInv /\ AskedInv
  BY DEF Init, OpenInv, AskedInv
<1>6. CourseInv /\ CalmInv /\ AnswersOwnQuery /\ ServfailExcused
  BY <1>1 DEF Init, CourseInv, CalmInv, AnswersOwnQuery, ServfailExcused, Up
<1>7. QED BY <1>3, <1>4, <1>5, <1>6 DEF ProxyInv

\* Every step preserves it.
LEMMA ProxyStep ==
    ASSUME ProxyInv, [Next]_vars
    PROVE  ProxyInv'
BY TypeStep, MutexStep, OwnerStep, KeptStep, OpenStep, AskedStep, CourseStep, CalmStep,
   AnswerStep, ServfailStep
DEF ProxyInv

\* So it always holds.
LEMMA ProxyAlways == Spec => []ProxyInv
BY ProxyInit, ProxyStep, PTL DEF Spec

\* Whatever the clients, the upstreams, the reconnections and CloseUpstreams do,
\* a client of the proxy gets the answer to its own query: dispatch hands out
\* what forwardDoT reads from a connection on which nothing else was asked.
THEOREM OwnAnswers == Spec => []AnswersOwnQuery
<1>1. ProxyInv => AnswersOwnQuery
  BY DEF ProxyInv
<1>2. QED BY <1>1, ProxyAlways, PTL

\* An open connection is always in its upstream, in use by a query or about to
\* be closed by CloseUpstreams, which swaps the pointer without the mutex that
\* forwardDoT holds while it dials and stores.
THEOREM ConnectionsKept == Spec => []NoConnectionLeaked
<1>1. ProxyInv => NoConnectionLeaked
  BY DEF ProxyInv, OpenInv, NoConnectionLeaked, Active
<1>2. QED BY <1>1, ProxyAlways, PTL

\* dispatch sends SERVFAIL only to a query that met a failing upstream, a
\* reconnection or a CloseUpstreams: left over connections of an earlier tunnel
\* never suffice, because forwardDoT dials once more.
THEOREM ServfailNeverMadeUp == Spec => []ServfailExcused
<1>1. ProxyInv => ServfailExcused
  BY DEF ProxyInv
<1>2. QED BY <1>1, ProxyAlways, PTL

=============================================================================
