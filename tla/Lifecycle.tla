----------------------------- MODULE Lifecycle -----------------------------
(***************************************************************************)
(* The life of pia-tun (internal/app): initialize, the retry loop around   *)
(* connect, the services of one connection under an errgroup, reconnection *)
(* and cleanup, with SIGTERM at every point, services that end in any      *)
(* order, an Internet connection and a VPN server that come and go, and a  *)
(* process that may die and be started again in the same network           *)
(* namespace and file system.                                              *)
(*                                                                         *)
(* The main goroutine is pc; every service is an entry of svc.  What the   *)
(* methods of the firewall do command by command is in module Firewall:    *)
(* here only their outcome counts.                                         *)
(***************************************************************************)
EXTENDS Naturals, FiniteSets

CONSTANTS
    DNSModes,      \* DNS=pia, =system, a plain server (do53), tls:// (dot)
    GetRealIP,     \* GET_REAL_IP
    PFEnabled,     \* PF_ENABLED
    PSEnabled,     \* a port sync client or script is configured
    CommandFaults, \* TRUE iff ip and iptables may fail on a sound request
    TornWrites,    \* TRUE iff resolv.bak may be left created but not written
    MaxFaults,     \* bound: failures that nothing else in the model explains
    MaxOutages,    \* bound: losses of the Internet connection or the server
    MaxCrashes,    \* bound: deaths of the process without any cleanup
    MaxStarts      \* bound: starts of the process

ASSUME ConfigAssumption ==
    /\ DNSModes \subseteq {"pia", "system", "do53", "dot"}
    /\ GetRealIP \in BOOLEAN /\ PFEnabled \in BOOLEAN /\ PSEnabled \in BOOLEAN
    /\ CommandFaults \in BOOLEAN /\ TornWrites \in BOOLEAN

ASSUME BoundAssumption ==
    /\ MaxFaults \in Nat /\ MaxOutages \in Nat
    /\ MaxCrashes \in Nat /\ MaxStarts \in Nat \ {0}

VARIABLES
    ks,          \* the killswitch drops what it should: chains complete, wired
    guard,       \* PIA DNS servers are routed into the tunnel and blackholed
    exempt,      \* a temporary exemption is open
    pfRoute,     \* the gateway of port forwarding is routed into the tunnel
    tunnel,      \* pia0: absent, partial (created), up
    resolv, bak, \* contents of /etc/resolv.conf and /etc/resolv.bak
    pc,          \* the main goroutine
    fn, err,     \* argument of retryWithWANCheck, class of its last error
    sig,         \* the root context is cancelled
    exitedCleanly, connectionUp, active,  \* fields of App and Firewall
    api,         \* the API server answers
    svc, gerr,   \* goroutines of the errgroup, its first error
    wan, peer,   \* the Internet connection works, the VPN server answers
    faults, outages, crashes, starts,     \* spent budgets
    dnsMode      \* the container's configuration, the same at every start

net == <<ks, guard, exempt, pfRoute, tunnel>>
files == <<resolv, bak>>
retry == <<fn, err>>
fields == <<exitedCleanly, connectionUp, active, api>>
group == <<svc, gerr>>
env == <<wan, peer, outages>>
runs == <<crashes, starts, dnsMode>>
vars == <<net, files, pc, retry, sig, fields, group, env, faults, runs>>

\* "orig" is what the container came with, "own" the servers of the mode.
Content == {"none", "partial", "orig", "empty", "own"}

Service == {"monitor", "cacher"} \cup (IF PSEnabled THEN {"syncer"} ELSE {})
             \cup (IF PFEnabled THEN {"portforward"} ELSE {})

\* Where the main goroutine may be: before any process and after a crash;
\* initialize; connect; the services; retryWithWANCheck; cleanup.
Initialize == {"backup", "backupdata", "clear", "chains", "baseline", "dns",
               "dnsquery", "dnsstart", "validate", "realip", "fetch"}
Connect == {"connect", "register", "request", "create", "configure", "write",
            "unroute", "route", "verify"}
Retry == {"failed", "ban", "check", "waitup", "backoff"}
Leave == {"cleanup", "down", "lift", "restore", "unlink"}
Label == {"off", "exited", "running", "decide"}
            \cup Initialize \cup Connect \cup Retry \cup Leave

Alive == pc \notin {"off", "exited"}

Init ==
    /\ ks = FALSE /\ guard = FALSE /\ exempt = FALSE /\ pfRoute = FALSE
    /\ tunnel = "absent"
    /\ resolv = "orig" /\ bak = "none"
    /\ pc = "off" /\ fn = "dns" /\ err = "none" /\ sig = FALSE
    /\ exitedCleanly = FALSE /\ connectionUp = FALSE /\ active = FALSE /\ api = FALSE
    /\ svc = [s \in Service |-> "off"] /\ gerr = "none"
    /\ wan = TRUE /\ peer = TRUE
    /\ faults = 0 /\ outages = 0 /\ crashes = 0 /\ starts = 0
    /\ dnsMode \in DNSModes

-----------------------------------------------------------------------------
(* Steps of the main goroutine.                                            *)

\* A failure nothing in the state explains; NoFault and Explained are free.
Fault == faults < MaxFaults /\ faults' = faults + 1
NoFault == UNCHANGED faults
FailsIf(reason) == (reason /\ NoFault) \/ (~reason /\ Fault)

\* A step of main from one label to another that touches the listed state.
At(from) == pc = from /\ UNCHANGED <<sig, group, env, runs>>
Goto(to) == pc' = to /\ UNCHANGED retry
Fail(class) == pc' = "failed" /\ err' = class /\ UNCHANGED fn

\* Main returns: the process is gone, and with it what lived in it.
Exit ==
    /\ pc' = "exited"
    /\ connectionUp' = FALSE /\ active' = FALSE /\ api' = FALSE
    /\ UNCHANGED <<retry, exitedCleanly>>

Start ==
    /\ ~Alive /\ starts < MaxStarts
    /\ starts' = starts + 1
    /\ pc' = IF dnsMode = "system" THEN "chains" ELSE "backup"
    /\ fn' = "dns" /\ err' = "none" /\ sig' = FALSE /\ exitedCleanly' = FALSE
    /\ UNCHANGED <<net, files, connectionUp, active, api, group, env, faults, crashes, dnsMode>>

\* Mutant: an existing backup is replaced.
BackupAlways ==
    /\ At("backup") /\ NoFault
    /\ bak' = "partial" /\ Goto("backupdata")
    /\ UNCHANGED <<net, resolv, fields>>

\* dns.Backup: an existing backup is kept, whatever it holds.
Backup ==
    /\ At("backup") /\ NoFault
    /\ IF bak = "none" THEN bak' = "partial" /\ Goto("backupdata")
                       ELSE Goto("clear") /\ UNCHANGED bak
    /\ UNCHANGED <<net, resolv, fields>>

BackupData ==
    /\ At("backupdata") /\ NoFault
    /\ bak' = resolv /\ Goto("clear")
    /\ UNCHANGED <<net, resolv, fields>>

\* Mutant: the servers stay visible.
ClearResolvNot ==
    /\ At("clear") /\ NoFault
    /\ Goto("chains")
    /\ UNCHANGED <<net, files, fields>>

ClearResolv ==
    /\ At("clear") /\ NoFault
    /\ resolv' = "empty" /\ Goto("chains")
    /\ UNCHANGED <<net, bak, fields>>

\* fw.Setup first removes the chains of an earlier process.
RemoveOldChains ==
    /\ At("chains") /\ NoFault
    /\ ks' = FALSE /\ Goto("baseline")
    /\ UNCHANGED <<guard, exempt, pfRoute, tunnel, files, fields>>

\* The rest of fw.Setup; the API server answers from here on.
SetupKillswitch ==
    /\ At("baseline") /\ NoFault
    /\ ks' = TRUE /\ active' = TRUE /\ api' = TRUE /\ Goto("dns")
    /\ UNCHANGED <<guard, exempt, pfRoute, tunnel, files, exitedCleanly, connectionUp>>

\* An error of initialize before the retry loop ends the program; cleanup is
\* not deferred yet.  The killswitch may be half built.
InitializeFails ==
    /\ \/ At("backup") /\ bak = "none" /\ UNCHANGED <<ks, bak>>
       \/ At("backupdata") /\ TornWrites /\ UNCHANGED <<ks, bak>>
       \/ At("clear") /\ UNCHANGED <<ks, bak>>
       \/ At("chains") /\ UNCHANGED <<ks, bak>>
       \/ At("baseline") /\ ks' \in BOOLEAN /\ UNCHANGED bak
       \/ At("validate") /\ dnsMode \in {"system", "do53"} /\ UNCHANGED <<ks, bak>>
    /\ Fault /\ Exit
    /\ UNCHANGED <<guard, exempt, pfRoute, tunnel, resolv>>

-----------------------------------------------------------------------------
(* setupDNS and captureRealIP.                                             *)

\* Opening an exemption fails while the chain of an earlier one is left, be
\* it by a crash or by a failing command.
Exempt(to) ==
    /\ exempt' = TRUE
    /\ \/ ~exempt /\ NoFault /\ Goto(to)
       \/ exempt /\ NoFault /\ Fail("soft")
       \/ ~exempt /\ CommandFaults /\ Fault /\ Fail("soft")

setupDNS ==
    /\ At("dns") /\ UNCHANGED <<ks, guard, pfRoute, bak, fields>>
    /\ \/ /\ dnsMode \in {"pia", "system"} /\ NoFault
          /\ Goto("validate") /\ UNCHANGED <<exempt, tunnel, resolv>>
       \/ /\ dnsMode = "do53" /\ NoFault
          /\ resolv' = "own" /\ Goto("validate") /\ UNCHANGED <<exempt, tunnel>>
       \/ /\ dnsMode \in {"system", "do53"} /\ Fault
          /\ Fail("fatal") /\ UNCHANGED <<exempt, tunnel, resolv>>
       \/ /\ dnsMode = "dot"
          /\ tunnel' = (IF sig THEN tunnel ELSE "absent")
          /\ Exempt("dnsquery") /\ UNCHANGED resolv

\* Proxy.Setup resolves its upstreams under an exemption.
ResolveUpstreams ==
    /\ At("dnsquery") /\ exempt' = FALSE
    /\ \/ wan /\ ~sig /\ NoFault /\ Goto("dnsstart")
       \/ FailsIf(~wan \/ sig) /\ Fail("soft")
       \/ Fault /\ Fail("fatal")
    /\ UNCHANGED <<ks, guard, pfRoute, tunnel, files, fields>>

\* Proxy.start: listeners, then resolv.conf.
StartProxy ==
    /\ At("dnsstart")
    /\ \/ resolv' = "own" /\ NoFault /\ Goto("validate")
       \/ Fault /\ Fail("fatal") /\ UNCHANGED resolv
    /\ UNCHANGED <<net, bak, fields>>

ValidateDNS ==
    /\ At("validate") /\ NoFault
    /\ Goto(IF GetRealIP THEN "realip" ELSE "connect")
    /\ UNCHANGED <<net, files, fields>>

\* captureRealIP resolves and fetches under exemptions; it never fails.
captureRealIP ==
    /\ \/ At("realip") /\ ~exempt /\ exempt' = TRUE /\ Goto("fetch")
       \/ At("realip") /\ exempt /\ UNCHANGED exempt /\ Goto("connect")
       \/ At("fetch") /\ exempt' = FALSE /\ Goto("connect")
    /\ NoFault /\ UNCHANGED <<ks, guard, pfRoute, tunnel, files, fields>>

-----------------------------------------------------------------------------
(* connect.                                                                *)

\* Mutant: connect leaves the old interface in place.
ConnectKeepingTunnel ==
    /\ At("connect") /\ NoFault
    /\ fn' = "connect" /\ pc' = "register" /\ UNCHANGED err
    /\ UNCHANGED <<net, files, fields>>

\* wg.Down is best effort and does nothing once the context is cancelled.
ConnectDown ==
    /\ At("connect") /\ NoFault
    /\ tunnel' = (IF sig THEN tunnel ELSE "absent")
    /\ fn' = "connect" /\ pc' = "register" /\ UNCHANGED err
    /\ UNCHANGED <<ks, guard, exempt, pfRoute, files, fields>>

\* vpn.Setup up to addkey: one scope stands for all of its exemptions, which
\* are opened and closed one after the other.
Register ==
    /\ At("register") /\ Exempt("request")
    /\ UNCHANGED <<ks, guard, pfRoute, tunnel, files, fields>>

Registered ==
    /\ At("request") /\ exempt' = FALSE
    /\ \/ wan /\ ~sig /\ NoFault /\ Goto("create")
       \/ FailsIf(~wan \/ sig) /\ Fail("soft")
       \/ Fault /\ \E class \in {"fatal", "ratelimited"} : Fail(class)
    /\ UNCHANGED <<ks, guard, pfRoute, tunnel, files, fields>>

\* wg.Up: an existing interface makes createInterface fail.
CreateInterface ==
    /\ At("create")
    /\ \/ ~sig /\ tunnel = "absent" /\ NoFault /\ tunnel' = "partial" /\ Goto("configure")
       \/ FailsIf(sig \/ tunnel # "absent") /\ Fail("fatal") /\ UNCHANGED tunnel
    /\ UNCHANGED <<ks, guard, exempt, pfRoute, files, fields>>

\* The rest of wg.Up.  Its deferred clean-up tests the err of createInterface,
\* which the later ones shadow: a failure leaves the partial interface.
ConfigureInterface ==
    /\ pc = "configure" /\ UNCHANGED <<sig, group, wan, outages, runs>>
    /\ \/ /\ ~sig /\ NoFault
          /\ tunnel' = "up" /\ peer' = TRUE
          /\ Goto(IF dnsMode = "pia" THEN "write" ELSE "verify")
       \/ FailsIf(sig) /\ Fail("fatal") /\ UNCHANGED <<tunnel, peer>>
    /\ UNCHANGED <<ks, guard, exempt, pfRoute, files, fields>>

\* Mutant: the routes of the previous connection are kept.
WriteDNSOnly ==
    /\ At("write") /\ NoFault
    /\ resolv' = "own" /\ Goto("verify")
    /\ UNCHANGED <<net, bak, fields>>

WriteDNS ==
    /\ At("write")
    /\ \/ resolv' = "own" /\ NoFault /\ Goto("unroute")
       \/ Fault /\ Fail("soft") /\ UNCHANGED resolv
    /\ UNCHANGED <<net, bak, fields>>

\* AddPIADNSRoutes: "defensive cleanup", then the guards and routes.
RemoveRoutes ==
    /\ At("unroute") /\ NoFault
    /\ guard' = FALSE /\ pfRoute' = FALSE /\ Goto("route")
    /\ UNCHANGED <<ks, exempt, tunnel, files, fields>>

AddRoutes ==
    /\ At("route")
    /\ \/ guard' = TRUE /\ NoFault /\ Goto("verify")
       \/ CommandFaults /\ Fault /\ Fail("soft") /\ UNCHANGED guard
    /\ UNCHANGED <<ks, exempt, pfRoute, tunnel, files, fields>>

\* The first poll of waitForHandshake does not look at the context: a
\* verification may succeed after SIGTERM.  Success starts the services.
VerifyConnection ==
    /\ pc = "verify"
    /\ \/ /\ wan /\ peer /\ NoFault
          /\ connectionUp' = TRUE /\ Goto("running")
          /\ svc' = [s \in Service |-> "run"] /\ gerr' = "none"
       \/ /\ FailsIf(~wan \/ ~peer \/ sig) /\ Fail("soft")
          /\ UNCHANGED <<connectionUp, group>>
    /\ UNCHANGED <<net, files, sig, exitedCleanly, active, api, env, runs>>

-----------------------------------------------------------------------------
(* runServices.  Every goroutine sees the context of the group, which is   *)
(* cancelled by SIGTERM and by the first error.                            *)

Cancelled == sig \/ gerr # "none"

\* Mutant: the last error wins.
ReturnLast(s, e) ==
    /\ svc' = [svc EXCEPT ![s] = "done"]
    /\ gerr' = e

\* Mutant: a plain group, whose errors do not cancel the others.
ReturnSilently(s, e) ==
    /\ svc' = [svc EXCEPT ![s] = "done"]
    /\ UNCHANGED gerr

\* errgroup keeps the first error.
Return(s, e) ==
    /\ svc' = [svc EXCEPT ![s] = "done"]
    /\ gerr' = IF gerr = "none" THEN e ELSE gerr

\* A step of a service that leaves everything else alone.
Serve(s, states) ==
    /\ s \in Service /\ svc[s] \in states
    /\ UNCHANGED <<ks, guard, exempt, tunnel, files, pc, retry, sig, fields, env, runs>>

Dead == ~wan \/ ~peer

\* The health check fails for the whole failure window, which it may still
\* find out after the context was cancelled; or the monitor sees the context.
Monitor ==
    /\ Serve("monitor", {"run"})
    /\ \/ Dead /\ Return("monitor", "reconnect")
       \/ Cancelled /\ Return("monitor", "none")
    /\ UNCHANGED <<pfRoute, faults>>

\* A scheduled refresh; between attempts it sleeps without looking at the
\* context.
CacherTick ==
    /\ Serve("cacher", {"run"}) /\ ~Cancelled
    /\ svc' = [svc EXCEPT !["cacher"] = "refresh"]
    /\ UNCHANGED <<gerr, pfRoute, faults>>

Cacher ==
    /\ \/ Serve("cacher", {"run", "refresh"}) /\ Cancelled /\ Return("cacher", "canceled")
       \/ /\ Serve("cacher", {"refresh"}) /\ ~Cancelled
          /\ svc' = [svc EXCEPT !["cacher"] = "run"] /\ UNCHANGED gerr
    /\ UNCHANGED <<pfRoute, faults>>

Syncer ==
    /\ Serve("syncer", {"run"}) /\ Cancelled
    /\ Return("syncer", "none") /\ UNCHANGED <<pfRoute, faults>>

\* portforward.Run up to its first request: no gateway, a route that cannot
\* be added (it may be there since a crash) and a missing CA are no reason
\* to reconnect.  The last leaves the route behind.
ForwardStart ==
    /\ Serve("portforward", {"run"})
    /\ \/ NoFault /\ svc' = [svc EXCEPT !["portforward"] = "acquire"]
          /\ pfRoute' = TRUE /\ UNCHANGED gerr
       \/ FailsIf(pfRoute) /\ Return("portforward", "other") /\ UNCHANGED pfRoute
       \/ Fault /\ Return("portforward", "other") /\ pfRoute' = TRUE

\* acquirePort and announcePort.
ForwardAcquired ==
    /\ Serve("portforward", {"acquire"}) /\ ~Dead /\ ~Cancelled
    /\ svc' = [svc EXCEPT !["portforward"] = "hold"]
    /\ NoFault /\ UNCHANGED <<gerr, pfRoute>>

\* Mutant: an error returns without teardown.
ForwardEndsDirty ==
    /\ Serve("portforward", {"acquire", "hold"}) /\ UNCHANGED pfRoute
    /\ \/ FailsIf(Dead \/ Cancelled) /\ Return("portforward", "reconnect")
       \/ svc["portforward"] = "hold" /\ Cancelled /\ NoFault /\ Return("portforward", "none")

\* Both ways out of portforward.Run tear down first.
ForwardEnds ==
    /\ Serve("portforward", {"acquire", "hold"}) /\ pfRoute' = FALSE
    /\ \/ FailsIf(Dead \/ Cancelled) /\ Return("portforward", "reconnect")
       \/ svc["portforward"] = "hold" /\ Cancelled /\ NoFault /\ Return("portforward", "none")

\* g.Wait returns; without SIGTERM the connection is signalled down and the
\* DNS servers of the tunnel are cleared, an error of which is only logged.
ServicesEnd ==
    /\ At("running") /\ \A s \in Service : svc[s] = "done"
    /\ Goto("decide")
    /\ connectionUp' = (IF sig THEN connectionUp ELSE FALSE)
    /\ \/ ~sig /\ dnsMode = "pia" /\ resolv' = "empty" /\ NoFault
       \/ ~sig /\ dnsMode = "pia" /\ UNCHANGED resolv /\ Fault
       \/ (sig \/ dnsMode # "pia") /\ UNCHANGED resolv /\ NoFault
    /\ UNCHANGED <<net, bak, exitedCleanly, active, api>>

\* Mutant: the clean exit is not recorded.
DecideForgetful ==
    /\ At("decide") /\ NoFault
    /\ Goto(IF ~sig /\ gerr = "reconnect" THEN "waitup" ELSE "cleanup")
    /\ UNCHANGED <<net, files, fields>>

\* The loop of Run: SIGTERM is a clean exit, ErrReconnect waits for the WAN
\* and connects again, any other error ends the program.
Decide ==
    /\ At("decide") /\ NoFault
    /\ exitedCleanly' = sig
    /\ Goto(IF ~sig /\ gerr = "reconnect" THEN "waitup" ELSE "cleanup")
    /\ UNCHANGED <<net, files, connectionUp, active, api>>

-----------------------------------------------------------------------------
(* retryWithWANCheck, after its function has failed.                       *)

Retries(from) == At(from) /\ NoFault /\ UNCHANGED <<net, files>>

\* Mutant: after SIGTERM the loop goes on.
RetryIgnoringSignal ==
    /\ Retries("failed") /\ UNCHANGED fields
    /\ Goto(IF err = "ratelimited" THEN "ban" ELSE "check")

\* An error of the retry loop ends initialize without cleanup, Run with it.
GiveUp ==
    \/ fn = "dns" /\ Exit
    \/ fn = "connect" /\ Goto("cleanup") /\ UNCHANGED fields

HandleError ==
    /\ Retries("failed")
    /\ \/ (sig \/ err = "fatal") /\ GiveUp
       \/ ~sig /\ err = "ratelimited" /\ Goto("ban") /\ UNCHANGED fields
       \/ ~sig /\ err = "soft" /\ Goto("check") /\ UNCHANGED fields

\* wan.Check dials under the context.
Check ==
    /\ Retries("check")
    /\ Goto(IF wan /\ ~sig THEN "backoff" ELSE "waitup") /\ UNCHANGED fields

\* Its error on SIGTERM is ignored: the function is called once more.
WaitForUp ==
    /\ Retries("waitup") /\ (wan \/ sig)
    /\ Goto(IF fn = "dns" THEN "dns" ELSE "connect") /\ UNCHANGED fields

\* The pause before the next attempt, 1h after a rate limit.
Pause ==
    /\ Retries("ban") \/ Retries("backoff")
    /\ \/ Goto(IF fn = "dns" THEN "dns" ELSE "connect") /\ UNCHANGED fields
       \/ sig /\ GiveUp

-----------------------------------------------------------------------------
(* cleanup.                                                                *)

\* Mutant: the interface goes first.
ShutdownAPILate ==
    /\ At("cleanup") /\ NoFault
    /\ tunnel' = "absent" /\ Goto("down")
    /\ UNCHANGED <<ks, guard, exempt, pfRoute, files, fields>>

ShutdownAPI ==
    /\ At("cleanup") /\ NoFault
    /\ api' = FALSE /\ Goto("down")
    /\ UNCHANGED <<net, files, exitedCleanly, connectionUp, active>>

\* Mutant: error exits lift the killswitch too.
CleanupDownAlways ==
    /\ At("down") /\ NoFault
    /\ tunnel' = "absent" /\ Goto("lift")
    /\ UNCHANGED <<ks, guard, exempt, pfRoute, files, fields>>

\* wg.Down under a fresh context.
CleanupDown ==
    /\ At("down") /\ NoFault
    /\ tunnel' = "absent"
    /\ IF exitedCleanly THEN Goto("lift") /\ UNCHANGED fields ELSE Exit
    /\ UNCHANGED <<ks, guard, exempt, pfRoute, files>>

\* fw.Cleanup.
Lift ==
    /\ At("lift") /\ NoFault
    /\ active' = FALSE
    /\ ks' = FALSE /\ guard' = FALSE /\ exempt' = FALSE /\ pfRoute' = FALSE
    /\ Goto("restore")
    /\ UNCHANGED <<tunnel, files, exitedCleanly, connectionUp, api>>

\* dns.Restore: in system mode there is no backup to read.
Restore ==
    /\ At("restore")
    /\ \/ bak # "none" /\ NoFault /\ resolv' = bak /\ Goto("unlink") /\ UNCHANGED fields
       \/ FailsIf(bak = "none") /\ Exit /\ UNCHANGED resolv
    /\ UNCHANGED <<net, bak>>

Unlink ==
    /\ At("unlink") /\ NoFault
    /\ bak' = "none" /\ Exit
    /\ UNCHANGED <<net, resolv>>

-----------------------------------------------------------------------------
(* The environment.                                                        *)

Sigterm ==
    /\ Alive /\ ~sig /\ sig' = TRUE
    /\ UNCHANGED <<net, files, pc, retry, fields, group, env, faults, runs>>

Outage ==
    /\ outages < MaxOutages /\ outages' = outages + 1
    /\ \/ wan /\ wan' = FALSE /\ UNCHANGED peer
       \/ peer /\ tunnel = "up" /\ peer' = FALSE /\ UNCHANGED wan
    /\ UNCHANGED <<net, files, pc, retry, sig, fields, group, faults, runs>>

WanReturns ==
    /\ ~wan /\ wan' = TRUE
    /\ UNCHANGED <<net, files, pc, retry, sig, fields, group, peer, outages, faults, runs>>

\* The process is killed: the namespace and the file system stay.
Crash ==
    /\ Alive /\ crashes < MaxCrashes /\ crashes' = crashes + 1
    /\ pc = "backupdata" => TornWrites
    /\ pc' = "off"
    /\ connectionUp' = FALSE /\ active' = FALSE /\ api' = FALSE
    /\ svc' = [s \in Service |-> "off"] /\ gerr' = "none"
    /\ UNCHANGED <<net, files, retry, sig, exitedCleanly, env, faults, starts, dnsMode>>

Stopped == ~Alive /\ UNCHANGED vars

Main ==
    \/ Backup \/ BackupData \/ ClearResolv \/ RemoveOldChains \/ SetupKillswitch
    \/ InitializeFails \/ setupDNS \/ ResolveUpstreams \/ StartProxy \/ ValidateDNS
    \/ captureRealIP \/ ConnectDown \/ Register \/ Registered \/ CreateInterface
    \/ ConfigureInterface \/ WriteDNS \/ RemoveRoutes \/ AddRoutes \/ VerifyConnection
    \/ ServicesEnd \/ Decide \/ HandleError \/ Check \/ WaitForUp \/ Pause
    \/ ShutdownAPI \/ CleanupDown \/ Lift \/ Restore \/ Unlink

Forward == ForwardStart \/ ForwardAcquired \/ ForwardEnds

Next ==
    \/ Main \/ Monitor \/ CacherTick \/ Cacher \/ Syncer \/ Forward
    \/ Start \/ Sigterm \/ Outage \/ WanReturns \/ Crash \/ Stopped

Spec == Init /\ [][Next]_vars

\* Every goroutine that can go on does, timers fire and requests time out;
\* an outage of the Internet connection ends.  Nobody has to send SIGTERM,
\* and no failure has to happen.
FairSpec ==
    /\ Spec
    /\ WF_vars(Main) /\ WF_vars(Monitor) /\ WF_vars(Cacher) /\ WF_vars(Syncer)
    /\ WF_vars(Forward) /\ WF_vars(WanReturns)

-----------------------------------------------------------------------------
(* Properties.                                                             *)

\* What the API server tells dependents is true: /ready only while the
\* killswitch is up, /health only while moreover the interface is configured
\* and, in pia mode, DNS goes to the guarded servers of the tunnel.  Both are
\* read from fields that the main goroutine changes before or after the
\* things themselves: order is everything.
EndpointsHonest ==
    api => /\ active => ks
           /\ connectionUp =>
                 /\ ks /\ tunnel = "up"
                 /\ dnsMode = "pia" => guard /\ resolv = "own"

\* The servers the container came with are out of sight of every process as
\* long as the killswitch counts as active (app.go: "to prevent leaks to
\* LOCAL_NETWORKS").
ResolvHidden ==
    active /\ dnsMode # "system" => resolv \in {"empty", "own"}

\* The program as a user of the killswitch.
KS == INSTANCE Killswitch WITH
    Traffic <- {"clear"},
    proc <- CASE ~Alive -> "none"
              [] pc \in {"backup", "backupdata", "clear", "chains", "baseline"} -> "starting"
              [] pc \in {"restore", "unlink"} -> "stopping"
              [] OTHER -> "running",
    asked <- Alive /\ sig,
    mode <- IF pc = "baseline" THEN "building" ELSE IF ks THEN "closed" ELSE "open",
    leak <- IF ks THEN {} ELSE {"clear"}

\* docs/firewall.md: "During reconnections: Firewall remains active".  The
\* whole program keeps the promise of the killswitch: only a shutdown that
\* SIGTERM asked for or the Setup of a new process takes it down, no retry,
\* reconnection, error exit or crash does.
KeepsKillswitch == KS!Spec

\* When runServices returns without SIGTERM there is an error, and it is the
\* one that ended the services, not the cancellation that followed: Run calls
\* err.Error() on it and takes the wrong branch on any other.  By then every
\* service has returned; RemovePIARoutes is "safe to call [...] when
\* portforwarding goroutine down".
FirstErrorDecides ==
    /\ pc = "decide" /\ ~sig => gerr \in {"reconnect", "other"}
    /\ (\E s \in Service : svc[s] \notin {"off", "done"}) => pc = "running"

\* The route of the port forwarding gateway never outlives the services,
\* whichever of them ends first and in whatever phase port forwarding is; only
\* a missing CA or a crash leaves it behind.
ForwardTornDown ==
    faults = 0 /\ crashes = 0 /\ pc \in Connect \cup Retry \cup {"decide"} => ~pfRoute

\* docs/firewall.md:62: "PIA's DNS servers (if enabled) have blackhole routes
\* in the case of fall-through (tunnel down) to avoid this leak vector".
GuardedDNS ==
    dnsMode = "pia" /\ ks /\ resolv = "own" /\ tunnel # "up" => guard

\* resolv.go: Backup "moves" resolv.conf to resolv.bak and Restore moves it
\* back: the original is never lost, across error exits, crashes and starts.
OriginalKept == resolv = "orig" \/ bak = "orig"

\* app.go: "pia0 can't exist for exemptions to work (routes must fall through
\* to main table)".  After SIGTERM wg.Down does nothing any more and the last
\* attempt is void.  In dot mode setupDNS removes the interface of a crashed
\* process first; in the other modes only connect does, after captureRealIP.
ExemptionsNeedNoTunnel ==
    /\ ~sig
    /\ \/ pc \in {"dnsquery", "request"}
       \/ pc = "fetch" /\ (dnsMode = "dot" \/ crashes = 0)
    => tunnel = "absent"

\* SIGTERM ends the program, wherever it is.
ShutdownTerminates == (Alive /\ sig) ~> ~Alive

\* A server that stops answering is replaced, unless the program ends.
TunnelReplaced ==
    (pc = "running" /\ ~peer) ~> ((pc = "running" /\ peer) \/ ~Alive)

\* SIGTERM while the services run, a reconnect that has just begun included,
\* restores everything, whatever failures and crashes came before it, unless
\* another one follows.
CleanShutdown ==
    (pc = "running" /\ sig /\ faults = MaxFaults /\ crashes = MaxCrashes) ~>
        (pc = "exited" /\ ~ks /\ ~guard /\ ~pfRoute /\ tunnel = "absent" /\ resolv = "orig")
=============================================================================
