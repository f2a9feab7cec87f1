# A TLA+ verification of pia-tun

pia-tun is a container that keeps one WireGuard connection to PIA up: a
killswitch lets nothing else out, DNS goes through the tunnel, a port may be
forwarded, and everything reconnects by itself. This directory models the parts
of it where order, failure and time matter, checks them with TLC, and proves the
central results with TLAPS. Every definition names, in `PROJECT.json`, the lines
of the Go source it translates.

## 1. Inventory

| Component (source) | State | Operations | Correct when |
|---|---|---|---|
| Firewall (`internal/firewall`) | four iptables chains, the exemption chain, jumps from INPUT/OUTPUT, `ip rule` priorities 50/75/76/100, MSS rules; fields `active`, `activePort` | Setup, Cleanup, AddExemption(s)/RemoveExemptions, AllowForwardedPort/RemoveForwardedPort, AddPIADNSRoutes/RemovePIARoutes, AddPFRoute/RemovePFRoute | only configured traffic passes from Setup's verification until Cleanup; exemptions and ports last as long as they are asked for; a clean exit leaves nothing |
| Application (`internal/app`) | `connectionUp`, `exitedCleanly`, root context, errgroup | Run, initialize, connect, runServices, retryWithWANCheck, cleanup | services never overlap a connection attempt; the killswitch survives everything but a clean shutdown; the program always comes back and always stops |
| WAN check (`internal/wan`) | none | Check, WaitForUp | part of the retry loop |
| VPN (`internal/vpn`, `internal/pia`) | the attempt's token and server | Setup, getToken, authenticate, getServers, selectServer, resolveDIP, addKey, VerifyConnection | exemptions are released on every path; an attempt does not fail on stale or rejected data it could replace; no dead or rejected token is presented |
| WireGuard (`internal/wg`) | interface `pia0`, table 51820, rules 200/300, the wireguard-go process and its socket | Up (both backends), Down | a successful Up is complete; leftovers never make it fail; WireGuard's own packets never loop; Down leaves nothing |
| DNS (`internal/dns`) | `/etc/resolv.conf`, `/etc/resolv.bak`; proxy's pool of connections | Backup, Clear, Write, Restore; Setup, dispatch, forwardDoT, CloseUpstreams | the user's file is never lost or visible; queries get their own answers |
| Monitor (`internal/monitor`) | ticker, the running check, start of the failure window | Run, performCheck, performRapidChecks | a lasting outage is reported in bounded time, a short one is not; it stops when told |
| Port forwarding (`internal/portforward`) | signature, expiry, last bind, ticker | Run, acquirePort, getSignature, bindPort, retryWithDeadline | an announced port is forwarded by the gateway |
| Port sync (`internal/portsync`) | channel of one, retry timer; a session with qBittorrent, Transmission or Deluge | NotifyPort, Run, handleNewPort, trySync; SyncPort of each client | the latest port is applied, never an older one, whatever a client's session does |
| Cacher (`internal/cacher`) | token and its file, addresses, servers | New, Run, refreshAll, SetToken, ClearToken, TokenFresh, MergeIPs, MergeServers | a torn or stale token is not used; the latest answers come first |
| API server | readiness | serve | `/ready` and `/health` tell the truth |
| Metrics, proxies, configuration, logging | counters, HTTP | serve | not modelled (section 8) |

How they interact. `App.Run` calls `initialize` once (resolv.conf, killswitch,
DNS proxy), then loops: `connect` (Down, register through exemptions, Up, DNS,
verification) under `retryWithWANCheck`, and `runServices`, an errgroup of
monitor, cacher, syncer and port forwarding that share a context. The first
service to return an error cancels the others; the error decides between a
reconnect and the end. The firewall is called by whoever runs at the moment:
`connect` and its helpers, or the port forwarding service. Port forwarding
announces ports to the syncer through a channel. The DoT proxy outlives all
connections and is told about them with `CloseUpstreams`.

What is hard: commands that fail half way through a script; a process killed
between two commands and restarted in the same network namespace; services
ending in any order while SIGTERM arrives; `CloseUpstreams`, which takes no
mutex, against queries in every phase; deadlines derived from a bind while
requests outlive them. Section 7 lists what the models say about each;
`PROJECT.json` holds every hazard at its line.

## 2. Modules and plan

| Module | Models | Proofs |
|---|---|---|
| `Killswitch` | what the killswitch promises, abstractly | |
| `Firewall` | the methods of `internal/firewall`, command by command | `FirewallProofs` |
| `Lifecycle` | the application over a coarse firewall, files, network, crashes | `LifecycleProofs` |
| `VpnSetup` | one connection attempt, the cache, the token file, the cacher, PIA's answers | `VpnSetupProofs` |
| `WireGuard` | the commands of `Up` and `Down`, wireguard-go | `WireGuardProofs` |
| `Monitor` | the health monitor in discrete time | `MonitorProofs` |
| `PortForward` | acquisition and renewal in time | `PortForwardProofs` |
| `PortSync` | the hand-over of ports and the torrent clients' dialogues | `PortSyncProofs` |
| `DotProxy` | the pool of upstream connections | `DotProxyProofs` |

`MC*` modules only name model values, small sequences and symmetry sets.

`Firewall` and `Lifecycle` both implement `Killswitch`: the one command by
command, the other as the program that uses it. The two refinements are what
joins the detailed firewall to the application: `Lifecycle` may treat a Setup as
building and closing, because `Firewall` shows that this is what it does.
`Lifecycle` likewise takes a connection attempt and a service as a few steps;
`VpnSetup`, `WireGuard`, `Monitor` and `PortForward` open these up.

Every safety property of the passing runs is also a theorem (section 5).

## 3. Correspondence with the code

**Firewall.** A method is a sequence of commands (`Setup`, `Cleanup`,
`AddExemption(ep)`, ... are operators that return it); `todo` is what is left of
the running one. A command is one call of iptables or `ip`, the unit at which
the kernel changes. `RunNewChain`, `RunAppend`, ... execute its head;
`FailCommand` is a spurious failure, and a command the kernel must refuse
(a chain that exists, a missing rule, a referenced chain) fails without being
charged to the failure budget. `onerr` says whether the code returns or goes on.
`chain`, `exists`, `wired`, `iprules`, `mangle` survive the process, `active`
and `activePort` do not. `phase`, `held` and `announced` are the callers: which
scopes `vpn.Setup`, the resolver and port forwarding open, and when. One scope
stands for all the scopes of `vpn.Setup`: they have the same shape and follow
one another. A packet is named by the rule that is meant to accept it; `Clear`
is the traffic no rule is meant for. `armed` is a history variable: "yes" from
the verification in Setup until a Cleanup or the Setup of a later process begins.

**Lifecycle.** `pc` is the main goroutine, labelled by the next thing it does;
`svc` has the services, `gerr` the errgroup's first error. `ks`, `guard`,
`exempt`, `pfRoute`, `tunnel`, `resolv`, `bak` are the outside world as the
callers see it. `retryWithWANCheck` is `HandleError`, `Check`, `WaitForUp`,
`Pause`, with `fn` the function it retries. A failure is either explained by the
state (no network, dead server, cancelled context) or taken from a budget.

**Killswitch.** The abstract state is the process (`proc`), whether it was asked
to stop (`asked`), the killswitch (`mode`) and what gets through it (`leak`).
`Firewall!KS` maps `op` and `phase` to `proc` and `asked`, `armed` to `mode`, and
computes `leak` from the chains, so that a refinement step is about packets and
not about flags. `Lifecycle!KS` maps `pc`, `sig` and `ks`.

**VpnSetup.** `pc` walks through `Setup`; `authenticate` and
`authenticateResolved` are the two halves of `authenticate`, before and after it
falls back on DNS. The outcomes of `internal/pia` are the operators
`GenerateToken`, `FetchServerList`, `ResolveDIP`, `AddKey`, `AddKeyDIP` over
PIA's state, which is external: a generation (`gen`) of addresses and of the
server list, which moves on while the cache keeps older ones, the tokens issued
(`born`) and those refused early (`revoked`). The token file is absent, torn
before its second line, cut within its timestamp, or whole: a timestamp with
digits missing still parses, as a second long ago. The unit of time is an hour.
`forgotten`, `authGen` and `listGen` are history, and so are `began` and `failed`,
which are about the attempts made in a row: how much the world had disturbed
them (`Disturbances`: PIA's generations, the failures) when the first one began,
or the first since the last disturbance, and whether one has failed since.

**WireGuard.** `Up` and `Down` are sequences of commands and `todo` what is left
of them. `conf` is what has been set on the interface, `route` and `rules` the
entries of table 51820 and of the priorities 200 and 300. wireguard-go is a
process (`daemon`) with a socket, which comes up, gives up and is killed by
itself. `pkill` only signals it: it joins the `dying`, which exit at any later
moment, with the device (`link` is "orphan" until then) and with the path of the
socket, also if a successor has created that anew by then. `Up` begins whether
or not one is still dying. `excuse` remembers whether something other than
leftovers can explain a failing Up, `dirty` whether Down was kept from running a
command.

**Monitor.** Time is discrete and only waiting takes any: `Urgent` says when the
code has something to do at this instant, and `Tick` waits for it. `check`,
`rapid` and `select` are the three places where `Run` waits. The network answers
within `Latency` when it is up and changes at any instant; a check may also fail
early while it is down. `quiet`, `upFor`, `downFor` are history, capped where
nothing depends on them any more.

**PortSync.** `NotifyPort` is two steps, the drain and the send; the recursion
of `handleNewPort` is the stack `frames`. `SyncPort` is the sequence of requests
of the configured client (`todo`): a login, Deluge's connection to its daemon,
the setting, the verification. The torrent client is external; it may restart
between two requests, and an answer may be lost after the port was set.

**DotProxy.** One process per query, with its local variables in `q[i]`;
`Lock`, `Load`, `Dial`, `Store`, `Write`, `Read` are the points between which
another goroutine may run. `CloseUpstreams` is a loop of `Swap` and `Close` that
two goroutines may run. `app` is the main goroutine: after `TunnelUp` the
connection is verified; if that fails the tunnel goes down again at once, with
the pool as it is, and only services that ran (`Verified`) end with
`CloseUpstreams`. A connection remembers the tunnel it was dialled over
and the queries it owes answers to, which is what makes a crossed answer visible.
A connection's name is reused once it is closed; `Conns` has as many names as
connections can be open at once, which `DotProxyProofs!NamesSuffice` proves, so a
dial never waits for one. `calm` is a history variable: the queries during whose
life nothing was lost, closed or replaced.

**PortForward.** Times are ages and remaining times that `Clock` advances;
`Clock` waits for steps that take no time. A request may be answered at any age
up to the HTTP timeout, may be lost, and may have bound the port although its
answer was lost. The gateway's lease is external.

## 4. Runs

| Run | Properties | Shows |
|---|---|---|
| `firewall` | `TypeOK`, `DefaultDeny`, `TunnelDNSGuarded`, `ExemptionsExact`, `ForwardedPortExact`, `CleanExitRemovesAll`, `ImplementsKillswitch` | two failing commands, a kill anywhere, two starts: nothing undesired passes while armed, the scripts implement the abstract killswitch; exemptions exist exactly while a scope holds them, exactly the announced port is open, a clean exit removes everything (each with the failures it tolerates) |
| `lifecycle_faults` | `EndpointsHonest`, `ResolvHidden`, `FirstErrorDecides`, `ForwardTornDown`, `ExemptionsNeedNoTunnel`, `KeepsKillswitch` | all DNS modes, failing commands and writes, a crash: readiness is true, resolv.conf never leaks a resolver, the services' first error decides, the program keeps the killswitch's promise |
| `lifecycle_live` | `GuardedDNS`, `OriginalKept`, `ShutdownTerminates`, `TunnelReplaced`, `CleanShutdown` | commands work and writes are whole: PIA DNS is guarded, the original resolv.conf is kept, SIGTERM ends the program and restores everything, a dead connection is replaced |
| `vpnsetup` | `TokenHonest`, `PresentedUsable`, `CacheCurrent`, `AttemptExcused` | the cache against torn files, crashes, moving hosts, revoked tokens, a cacher that fails or runs beside port forwarding; attempts on caches of every age, and what makes them fail |
| `wireguard` | `UpReliable`, `NoRoutingLoop`, `DownRestores` | both backends and the automatic choice, with or without kernel module and TUN device, two failing commands, two crashes, a cancelled context, up to three wireguard-go processes dying: any leftover meets any start |
| `monitor` | `AlarmJustified`, `DetectedInTime`, `StopsWhenCancelled` | outages of every length at every instant: no reconnect without a full failure window, detection in bounded time |
| `portforward` | `TypeOK`, `GivesUpInTime`, `AnnouncedIsLeased`, `SignatureValid`, `StopsWhenCancelled`, `NoEndlessRetry` | gives up in time, announced ports are leased, signatures are valid |
| `portsync` | `NeverBackwards`, `LatestApplied` | no client goes backwards, the latest port is applied, through lost sessions, restarts and lost answers |
| `dotproxy` | `AnswersOwnQuery`, `NoConnectionLeaked` | answers are never crossed, connections never leak |
| `dotproxy_live` | `ServfailExcused`, `EveryQueryAnswered` | every query is answered, SERVFAIL only with a reason |
| `firewall_stuck`, `lifecycle_routes` | | section 7 |

**Bounds, and why they are enough.** Endpoints and ports are two: one to be open
and one that must not be, one to be replaced by the other. Two command failures
let a second command fail in the handling of the first; one crash and two starts
let a restart meet every state a crash can leave. `failures` counts the
commands that failed, so that a property can say how many it tolerates. The
networks and DNS servers are sequences of one or two, the second for positions.
Lifecycle's budgets are two faults (one with liveness), two outages, one crash;
the DNS mode is a variable that never changes, so that one run covers all four.

`vpnsetup` has two generations, in which a host moves completely, one server
gets a new address and one goes away, which are the ways a cached answer can be
wrong; the first answer repeats an address and the first list a server, and the
limit of two cached addresses cuts older ones off; tokens are fresh for two units and live for three, the clock runs for
three, so that a token can expire in the cache, in the file and at PIA; three
tokens are one from each of two processes and one from the cacher. `wireguard`
has two faults, one to leave something behind and one to meet it, and `MaxDying`
is three, so that one can die beside a successor that was told to die as well.
`monitor` has
an interval shorter and one longer than a check (2 and 5 against 3), and failure
windows of zero, less than an answer, less than a check, and two checks and a
remainder (0, 1, 2, 7). Two queries are enough for a crossed answer or a stolen
mutex, two upstreams for the failover, two tunnels for a dead connection; one
more query only repeats roles, and each query is sent once because a goroutine
keeps nothing after its answer. `dotproxy_live` has one upstream, so that both
queries contend for its mutex. Three ports in PortSync allow a port to arrive
during the retries of a recursive call, two failures a restart after a lost
answer. PortForward's times are scaled, keeping the order of all sums the code
compares: 5, 7, 3, 2, 1, 9, 16, 10 for bind interval, bind duration, first
minute, retry interval, timeout, safety margin, signature and lease; the
theorems cover the others.

**Symmetry** is used over endpoints, ports or queries, in safety runs only: no
definition tells two of them apart. **Deadlock** is checked everywhere but in
DotProxy, whose clients stop asking; the other modules say when they may rest
(`Stopped`, `Quiet`, `Done`, and `Exhausted` where PIA's tokens are used up).

**Fairness.** `Firewall`: the process goes on (weak fairness of `Progress`): no
command waits for another. `Lifecycle`: weak fairness of the main goroutine and
of each service, as each wait of theirs is on a timer, a request with a timeout
or the context; an outage ends, because nothing can reconnect without a network.
SIGTERM, crashes and failures are never required. `PortSync`: the sender and the
syncer; its retry timer fires. `DotProxy`: every query and every
`CloseUpstreams`; dials, writes and reads carry `queryTimeout`, and the mutex is
granted to some waiter. `PortForward`: the goroutine runs and time passes; the
clock never passes a due step. `Monitor`: likewise, weak fairness of the code and
of the clock; the network need never come back. `VpnSetup` and `WireGuard` are
checked for safety only and state no fairness.

## 5. Proofs

**Default-deny** (`FirewallProofs!DenyByDefault`), for every configuration and
any number of failures, crashes and starts. `DefaultDeny` is not inductive: it
says nothing about the commands still to run. The inductive invariant is

    DenyInv == TypeOK /\ Contents /\ WiredExist /\ Closed /\ TodoInv

- `Contents`: a chain only holds rules its policy allows, DROP, and in VPN_OUT
  the jump to the exemptions, which hold endpoints only;
- `WiredExist`: a jump leads to an existing chain, so creating a chain never
  empties a wired one;
- `Closed`: while armed, every base chain is wired and has DROP;
- `TodoInv`: what is left of the script is legal, safe while armed, and after a
  verification only safe commands follow.

The argument classifies commands as `Legal` (adds nothing outside the policy),
`Quiet` (moreover no verification) and `Safe` (moreover takes no base chain out
and no DROP away). One lemma per method shows the class of its script
(`SetupBodyQuiet`, `ExemptionScriptsSafe`, `PortScriptsSafe`, ...), one step per
command that it keeps the invariant (`DenyCommand`), one per caller's action
that it starts no unsafe script while armed (`DenyCaller`). `TypeCorrect` is
proved on the way.

**Refinement** (`FirewallProofs!FirewallImplementsKillswitch`): the commands
implement `Killswitch`, under the mapping of section 3. A closed killswitch does
not leak by `DenyInv` (`ClosedIsTight`); what is left is that it is closed when
it has to be, which is

    PhaseInv == no operation while down, Setup only at boot, Cleanup only in a
                shutdown; a process that is past Setup is armed; a Setup that is
                not armed has failed or has its verification still to run

The script of Setup ends with the verification (`SetupVerifies`), which stays in
what is left of it until it is its turn (`AwaitedTail`), and each command either
goes on, returns an error or verifies (`CommandCourse`). `PhaseCommand` and
`PhaseCaller` show that steps keep the invariant, `CommandImplements` and
`CallerImplements` that each is a step of `Killswitch` or a stutter; steps that
touch no base chain leak what was leaked before (`SameLeaks`).

**What the scripts have done** (second part of `FirewallProofs`): the other four
invariants of `Firewall` are about effects that several commands of a method have
together, so their inductive invariants speak of the place in its script.
`ScriptInv` says that `todo` is the rest of the script of the method that runs, so
`Ran(t)`, the number of commands taken off script `t`, names the place; lemmas per
method (`SetupAt`, `PortScriptsAt`, `ExemptNext`, ...) give the command there.
`CourseInv` says in which phases a method runs and a scope or a port can be open;
`EndInv` what an error leaves of a script. `ChainEffect` is what a command does to
a chain, position by position, whether it succeeds or not.

- `DNSStaysGuarded`: `DNSInv` has, after each command of `AddPIADNSRoutes` that
  did not fail, the routes so far; only a method that returned no error leads to
  the services, and those touch the gateway's route alone.
- `CleanExit`: `CleanInv` has what `Cleanup` has removed so far. A chain can be
  deleted once nothing refers to it, so it needs `JumpInv`: VPN_OUT jumps to the
  exemptions at its first rule or nowhere, and a crash leaves no second jump,
  because Setup empties VPN_OUT before it builds it.
- `ExemptionsStayExact`: `ScopeInv` says that with one failure at most an endpoint
  is reachable only under its scope, because either command of `RemoveExemptions`
  is enough (if the jump is still there after the first, that failure was the
  one), and that a scope never finds rules of another, because its chain is
  created empty and creating one that exists is an error;
  `OpenInv` that as long as nothing has failed the jump and the rules of what is
  granted are there.
- `ForwardedPortStaysExact`: `BuildInv` frames VPN_IN: ESTABLISHED, lo, and DROP
  at the end and only there, which is why nothing inserted at 3 is behind DROP.
  `PortInv` counts the rules: each port at most once per protocol (a second rule
  would survive a deletion), for the announced port exactly once, with one case
  per command of `AllowForwardedPort` and of `teardown` in between.

**PortSync** (`PortSyncProofs`): `NeverBackwards` is an action property, and an
older port is on its way all the time: in the outer calls of `handleNewPort`. The
invariant `OrderInv` orders what can still be applied: what the client and the
script have, then the port of the innermost call, then the one in the channel,
then the latest announcement. That the outer calls return with the inner one
(`Return` drops all of them) is what makes it inductive.

**Port forwarding** (`PortForwardProofs`): `ServiceGivesUpInTime`,
`AnnouncedPortIsLeased`, `BindsValidSignature`, from

    IInv == TypeOK /\ OpInv /\ AgeInv /\ LeaseInv /\ SignatureInv

`AgeInv` bounds the age of the last bind at each point of `Run`; `LeaseInv` says
that the lease of the announced port is no older; `SignatureInv` rests on the
fact that during a bind the time a signature has left and the age of the last
bind add up to a constant, so the deadline on the one bounds the other.
The assumption `TimesAssumption` is what these need: the bind interval does not
exceed the bind duration, the lease and the safety margin exceed the bind
duration by two request timeouts. The defaults satisfy it (20 min + 6 s against
a lease of about 23 min and a margin of 6 h); nothing in the code validates
configured values.

Assumptions of the Firewall proofs: `ConfigAssumption` and `BoundAssumption`,
which only give the constants their types and keep the port 0 from being a port.

**Lifecycle** (`LifecycleProofs`), for every set of DNS modes and services'
configuration, any number of faults, outages, crashes and starts. The inductive
invariant `LifeInv` names, for each place of the main goroutine, what the world
outside looks like:

- `ClosedInv`, `FlowInv`: between fw.Setup and fw.Cleanup the killswitch is up,
  and `exitedCleanly` and the retried function agree with the place;
- `ConnectedInv`, `AbsentInv`: where there is an interface, and where there is
  certainly none;
- `FilesInv`: what resolv.conf and its backup can hold there; `OriginalInv`,
  under `TornWrites = FALSE`: one of the two has the original;
- `ServicesInv`, `ForwardInv`: the errgroup, and whose the port forwarding
  route is;
- `GuardInv`, under `CommandFaults = FALSE`: PIA's servers stand in resolv.conf
  without guard only after a crash, until the next process clears the file.

Each part has its lemma (`ClosedStep`, ...) with one step per action.
`PIADNSGuarded` and `OriginalNeverLost` are conditional on these two constants,
as the runs are: with the opposite value the property is false (sections 4, 7).
`LifecycleKeepsKillswitch` is the refinement of `Killswitch`: steps while the
killswitch is up and staying (`ClosedCourse`), while it is off (`OffCourse`) and
between the two (`EdgeCourse`) are each a step of `Killswitch` or a stutter.

**WireGuard** (`WireGuardProofs`): both functions are fixed scripts, so what is
left of `todo` says what has been run. `CourseInv` makes `todo` a tail of `Up` or
`Down` (or the wait for wireguard-go before ten commands of `Up`); `UpInv` and
`DownInv` say what the commands already run have done, whatever was there
before; `MarkInv` that the peer is never set without the mark, which is why
`NoRoutingLoop` holds; `LinkInv` ties interface and wireguard-go together, and
`OrphanInv` says where a device whose wireguard-go is dying can still have its
socket, namely not beyond Down's removal of it, so that no later command reaches
such a device; `CleanInv` says what an Up that follows a complete Down finds and has not
disturbed yet, which is why its failure has an excuse.

**Monitor** (`MonitorProofs`), for all intervals, windows, timeouts and
latencies with `0 < Latency < Timeout`. The parts are inequalities between
clocks: a rapid check ends by the end of the window and has its full timeout
unless that end is nearer (`CheckInv`); a network that was up when a check began
answers it (`AnswerInv`); nothing has succeeded since `failureStart`
(`QuietInv`); the first tick after the start of a check comes within an interval
(`TickInv`); and an outage not yet detected has lasted at most the lag before the
next check plus what that check and the window have used (`OutageInv`).

**VpnSetup** (`VpnSetupProofs`), for any servers, addresses and numbers of
tokens, and any `MaxTokenAge` below the life of a token. `CacheInv` and `FileInv`
say that what the cache and the file know of a token is true, whatever a crash
cut off, and that neither holds one that was removed; `FreshInv` that a token on
its way into the cache is the latest, of this moment; `UsableInv` that one that
was fresh when it was looked at has aged at most one unit since, which
`AgeAssumption` allows for.

`CacheCurrent` has an invariant of its own, `AnswersInv`: the generation is one of
the world's, and the addresses and servers have the property for the answers last
merged. It has two parts, `AuthInv` and `ListInv`, because no step needs more of the
rest than `AnswersMove` says: an action leaves a field alone, merges the current
answer into it, or empties it. What a merge does is stated for any input by three
theorems about the code's loops: `MergedIPs`, `MergedServers` and `KeptServers`.
The loops are folds (`FoldLeft`), and their proofs are inductions, written with
sets instead of predicates: a set of numbers that has 0 and the successor of each
of its members has all, since otherwise the well-founded order has a least number
outside (`SetInduction`). `FoldExists` shows with it that the function the library's
fold chooses exists, `FoldIsLoop` that the fold is the value after the last
iteration of the loop, and the loop invariants of the three operators follow in
the same way. Nothing is assumed about the answers being free of duplicates:
`FirstAt`, `Place` and `LastOfCN` say what is promised when they are not.

`FailedAttemptIsExcused` is about a single kind of step, an attempt that ends
with an error, and about the reasons the state then shows. `Disturbances` only
grows (`CountInv`: never below `began`), so if it still is what it was when the
first attempt of the row began, nothing has happened in between. `KeptInv` says
that without servers no address of their host is cached either: `getServers`
then asks those DNS has just given, and succeeds, as does the fall back of
`authenticate`. `StreakInv` says that a server that was chosen answers unless
none of the candidates does, and that a token in the cache or in hand after a
failed attempt is not a revoked one, because the attempt it was refused to has
cleared it. What is left are servers of an older list only, a dedicated IP's
addresses, and a token revoked before the row began.

**DotProxy** (`DotProxyProofs`), for any number of queries, upstreams, tunnels
and failures. Everything rests on who may refer to a connection: the query that
holds an upstream's mutex is alone with it (`MutexInv`), a connection is in one
upstream and used by one query at most (`OwnerInv`), the upstream keeps what its
query sees unless `CloseUpstreams` has taken it (`KeptInv`), so nothing is
overwritten and an open connection always has somebody who will close it
(`OpenInv`), and only the query that reads has a question on a connection
(`AskedInv`), so its answer is its own. `CalmInv` is what an undisturbed query may
rely on, down to its second attempt having a connection over this very tunnel.
One lemma per step (`LoadDoes`, `DialDoes`, ...) gives its effect on the locals
and the pool; the parts of the invariant are proved from the effects.

Assumptions: besides the types of constants, `TimesAssumption` (PortForward),
`TimeAssumption` (Monitor), `AgeAssumption`, `CacheAssumption` and
`WorldAssumption` (VpnSetup: `maxCachedIPs` is not zero, a lookup that succeeds
has an address, a list has a server, and answers and lists are sequences) and
finitely many queries (DotProxy).

Only model-checked: liveness, which needs fairness and ENABLED, and those the
prover does not handle.

## 6. Abstractions to be aware of

- In Lifecycle `wg.Down` always works unless its context is cancelled, and the
  interface is absent, partial or up; the commands are in WireGuard.
- In WireGuard a wireguard-go that was told to die exits as a whole, device and
  path of the socket at once, and `wg` reaches no device without a socket.
- PortSync assumes that a torrent client keeps its settings over a restart, and
  that a request takes effect before its timeout or never.
- VpnSetup assumes that an attempt, or port forwarding's retries on one
  signature, take less than an hour; a latency race is won by any server that
  answers.
- Monitor treats the three addresses of a check as one, and lets what the code
  does between two waits take no time.
- In Lifecycle the firewall's methods are one step or a few; their commands are
  in Firewall. Setup's removal of the old chains is a step of its own.
- Torn writes are modelled for `resolv.bak` (`TornWrites`), whose content is
  read back; a torn `resolv.conf` is rewritten by every start.
- The proxy's DNS messages are names of queries; a wrong answer is another name.
- Failures of the environment are bounded by budgets, so liveness is about what
  happens once they stop.

## 7. Findings

Runs with the expected result "violation": the code does otherwise than a
comment or document of the repository says.

| Run | What happens |
|---|---|
| `firewall_stuck` | after a crash inside an exemption VPN_EXEMPTIONS is left, `cleanupChains` does not remove it, and every exemption of the next process fails although `retryWithWANCheck` retries "until it succeeds" |
| `lifecycle_routes` | `AddPIADNSRoutes` failing leaves PIA's servers in resolv.conf with no guard |

Further behaviours the models contain, and the properties are stated around:

- `AddExemption` failing after it created VPN_EXEMPTIONS leaves the chain too
  (`firewall_stuck` with a failure instead of the crash).
- A restart deletes the old chains before the new ones are wired, so `armed`
  ends there (docs/firewall.md:17 says the firewall "remains active").
- SIGTERM before the services run exits with the rules in place, although
  docs/firewall.md:16 has a clean shutdown remove them (`CleanShutdown` is about
  a signal once services run).
- `AllowForwardedPort` forgets the rule of a half-installed port
  (`ForwardedPortExact` holds only while no command failed).
- After a crash, outside dot mode, `captureRealIP` opens its exemption while the
  old `pia0` exists (`ExemptionsNeedNoTunnel` excludes that case).
- A `resolv.bak` that was created and not written counts as a backup
  (`OriginalKept` holds only with `TornWrites = FALSE`).
- A query served before `start` has created the dial context panics
  (`DialPanics`, with `EarlyQueries = TRUE`).
- A dial that ends around `CloseUpstreams` leaves a connection of the old tunnel
  in the pool; the next query on it fails and replaces it.
- The deferred clean-up of `wg.Up` tests an `err` that the later errors shadow,
  so a failed Up leaves the interface; `UpReliable` shows that the next Down
  makes up for it.
- Nothing waits for a wireguard-go that `Down` has told to die. If it is still
  there when the next `Up` begins, its device is in the successor's way or its
  exit takes the successor's socket, and `Up` fails, which ends the program
  (`vpn.Setup` makes it fatal), or the tunnel is up without a socket.
  `UpReliable` excuses such an `Up`; `NoRoutingLoop` and `DownRestores` hold all
  the same. Several requests to PIA lie between the two in practice.
- With a dedicated IP and a token from the file, `resolveDIP` has no address of
  the login host to ask and every attempt fails until the token is too old
  (the third case of `AttemptExcused`); and a token `ResolveDIP` finds refused
  is fatal and stays in the file, where the next process finds it.
- Cached servers are never fetched again by an attempt, so a process that can
  reach none of them any more goes on trying them (the second case).
- A key that the dedicated IP's server rejects clears the login token, which
  was not the one presented.
- A monitor whose context is cancelled during the last rapid check may still
  report that the connection is down; and checks that fail at once are repeated
  without a pause for the length of the failure window.

## 8. Not modelled

- Metrics, the HTTP and SOCKS proxies, configuration and logging: rendering,
  byte relays and parsing, with no state the other parts depend on. The values
  configuration yields are the constants of the models.
- HTTP, TLS and JSON of the PIA client, of port forwarding's client and of the
  torrent clients: a request has an outcome, and its errors are told apart as
  far as the callers do.
- The bootstrap resolver's fallback over its servers, and the services asked for
  the public address: one call each that succeeds or fails.
- Of the API server, the condition of `/ready` and `/health` is modelled
  (`EndpointsHonest`), its HTTP handling is not.
- The order in which servers answer a latency race: any of them may win.
