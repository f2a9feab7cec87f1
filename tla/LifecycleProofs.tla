-------------------------- MODULE LifecycleProofs ---------------------------
(***************************************************************************)
(* Proofs about Lifecycle, for every configuration and any number of       *)
(* faults, outages, crashes and starts: what the program promises about    *)
(* the killswitch, its endpoints, resolv.conf, its services and the        *)
(* exemptions, whatever order things happen in.                            *)
(***************************************************************************)
EXTENDS Lifecycle, TLAPS

-----------------------------------------------------------------------------
(* The inductive invariant.                                                *)

\* The types of what is not a flag.
TypeInv ==
    /\ tunnel \in {"absent", "partial", "up"}
    /\ resolv \in Content /\ bak \in Content
    /\ pc \in Label /\ fn \in {"dns", "connect"}
    /\ err \in {"none", "soft", "fatal", "ratelimited"}
    /\ svc \in [Service -> {"off", "run", "refresh", "acquire", "hold", "done"}]
    /\ gerr \in {"none", "reconnect", "canceled", "other"}
    /\ faults \in Nat /\ outages \in Nat /\ crashes \in Nat /\ starts \in Nat

\* The main goroutine before fw.Setup has returned, and after fw.Cleanup has.
Starting == {"backup", "backupdata", "clear", "chains", "baseline"}
Stopping == {"restore", "unlink"}

\* Between the two the killswitch is up.
Closed == Alive /\ pc \notin Starting \cup Stopping

\* The killswitch and the fields that speak of it.
ClosedInv ==
    /\ Closed => ks /\ active
    /\ ~Closed => ~active
    /\ ~Alive \/ pc \in Starting => ~api /\ ~connectionUp
    /\ Alive /\ exitedCleanly => sig
    /\ pc \in {"lift", "restore", "unlink"} => exitedCleanly

\* Initialization runs under the retry loop's first function; the files are
\* backed up unless DNS=system.
FlowInv ==
    /\ pc \in Initialize => fn = "dns"
    /\ pc \in Connect \ {"connect"} => fn = "connect"
    /\ pc \in {"running", "decide"} \cup Leave => fn = "connect"
    /\ pc \in {"backup", "backupdata", "clear"} => dnsMode # "system"
    /\ pc \in {"write", "unroute", "route"} => dnsMode = "pia"
    /\ pc \in {"dnsquery", "dnsstart"} => dnsMode = "dot"

\* The connection, from wg.Up to its end.
ConnectedInv ==
    /\ pc \in {"write", "unroute", "route", "verify", "running"} => tunnel = "up"
    /\ pc \in {"unroute", "route", "verify", "running"} /\ dnsMode = "pia" => resolv = "own"
    /\ pc \in {"verify", "running"} /\ dnsMode = "pia" => guard
    /\ pc = "running" => connectionUp
    /\ connectionUp => pc \in {"running", "decide"} \cup Leave
    /\ connectionUp /\ pc = "decide" => sig
    /\ connectionUp /\ pc \in {"decide", "cleanup"} =>
          tunnel = "up" /\ (dnsMode = "pia" => guard /\ resolv = "own")
    /\ pc \in {"down", "lift"} \cup Stopping => ~api

\* The contents of resolv.conf and of its backup.
FilesInv ==
    /\ bak \in {"none", "partial", "orig"}
    /\ bak = "none" => resolv \in {"orig", "partial"}
    /\ pc \in {"backupdata", "unlink"} => resolv \in {"orig", "partial"}
    /\ dnsMode = "system" => bak = "none" /\ resolv = "orig"
    /\ pc \in {"clear", "unlink"} => bak # "none"
    /\ (Closed \/ pc \in {"chains", "baseline"}) /\ dnsMode # "system" =>
          bak # "none" /\ resolv \in {"empty", "own"}

\* Nothing is torn: the original is in one of the two files.
OriginalInv ==
    /\ bak = "partial" => pc = "backupdata"
    /\ bak = "none" \/ pc \in {"backupdata", "unlink"} => resolv = "orig"

\* The services.
ServicesInv ==
    /\ \A s \in Service : svc[s] \in {"off", "done"} \/ pc = "running"
    /\ pc = "running" /\ (\E s \in Service : svc[s] = "done") => sig \/ gerr # "none"
    /\ pc \in {"running", "decide"} /\ gerr = "canceled" => sig
    /\ pc = "decide" => sig \/ gerr # "none"

\* Without a fault or a crash the route of port forwarding is the service's.
ForwardInv ==
    faults = 0 /\ crashes = 0 /\ pfRoute =>
        pc = "running" /\ PFEnabled /\ svc["portforward"] \in {"acquire", "hold"}

\* Where there is no interface.
AbsentInv ==
    /\ pc \in {"dnsquery", "dnsstart", "validate", "realip",
           "fetch"} /\ dnsMode = "dot" /\ ~sig =>
          tunnel = "absent"
    /\ pc \in {"register", "request", "create"} /\ ~sig => tunnel = "absent"
    /\ pc \in {"lift", "restore", "unlink"} => tunnel = "absent"
    /\ crashes = 0 /\ (~Alive \/ pc \in Initialize \/ (pc \in Retry /\ fn = "dns")) =>
          tunnel = "absent"

\* PIA's servers are in resolv.conf and not guarded: the interface is there, or
\* the killswitch is not, and the next process clears the file before it is.
GuardInv ==
    dnsMode = "pia" /\ resolv = "own" /\ ~guard =>
        /\ ~ks \/ tunnel = "up"
        /\ ~Alive \/ pc \in {"backup", "backupdata", "clear", "unroute", "route"} \cup Stopping

LifeInv ==
    /\ TypeInv /\ ClosedInv /\ FlowInv /\ ConnectedInv /\ FilesInv
    /\ ServicesInv /\ ForwardInv /\ AbsentInv
    /\ TornWrites = FALSE => OriginalInv
    /\ CommandFaults = FALSE => GuardInv
-----------------------------------------------------------------------------
(* Every step keeps the invariant.                                         *)

\* Who belongs to the group.
LEMMA ServiceMembers ==
    "monitor" \in Service /\ "cacher" \in Service /\ ("portforward" \in Service <=> PFEnabled)
BY ConfigAssumption DEF Service

\* Types.
LEMMA TypeStep ==
    ASSUME TypeInv, [Next]_vars
    PROVE  TypeInv'
<1> USE DEF TypeInv, Alive, Closed, Starting, Stopping, Label, Initialize, Connect,
            Retry, Leave, Content, net, files, retry, fields, group, env, runs, At,
            Goto, Fail, Exit, Fault, NoFault, FailsIf
<1>1. CASE \/ Backup \/ BackupData \/ ClearResolv
           \/ RemoveOldChains \/ SetupKillswitch \/ InitializeFails
  BY <1>1 DEF Backup, BackupData, ClearResolv, RemoveOldChains, SetupKillswitch,
              InitializeFails
<1>2. CASE setupDNS \/ ResolveUpstreams \/ StartProxy \/ ValidateDNS \/ captureRealIP
  BY <1>2 DEF setupDNS, ResolveUpstreams, StartProxy, ValidateDNS, captureRealIP,
              Exempt
<1>3. CASE ConnectDown \/ Register \/ Registered \/ CreateInterface \/ ConfigureInterface
  BY <1>3 DEF ConnectDown, Register, Registered, CreateInterface, ConfigureInterface,
              Exempt
<1>4. CASE WriteDNS \/ RemoveRoutes \/ AddRoutes \/ VerifyConnection
  BY <1>4 DEF WriteDNS, RemoveRoutes, AddRoutes, VerifyConnection
<1>5. CASE Monitor \/ CacherTick \/ Cacher \/ Syncer \/ Forward
  BY <1>5 DEF Monitor, CacherTick, Cacher, Syncer, Forward, ForwardStart,
              ForwardAcquired, ForwardEnds, Serve, Return, Cancelled, Dead
<1>6. CASE ServicesEnd \/ Decide \/ Check \/ WaitForUp
  <2>1. CASE ServicesEnd
    BY <2>1 DEF ServicesEnd, Retries
  <2>2. CASE Decide
    BY <2>2 DEF Decide, Retries
  <2>3. CASE Check
    BY <2>3 DEF Check, Retries
  <2>4. CASE WaitForUp
    BY <2>4 DEF WaitForUp, Retries
  <2>5. QED BY <1>6, <2>1, <2>2, <2>3, <2>4
<1>7. CASE HandleError \/ Pause
  <2> USE <1>7 DEF HandleError, Pause, Retries, GiveUp
  <2>1. CASE fn = "dns" /\ Exit
    BY <2>1
  <2>2. CASE Goto("cleanup") /\ UNCHANGED fields
    BY <2>2
  <2>3. CASE Goto("ban") /\ UNCHANGED fields
    BY <2>3
  <2>4. CASE Goto("check") /\ UNCHANGED fields
    BY <2>4
  <2>5. CASE Goto(IF fn = "dns" THEN "dns" ELSE "connect") /\ UNCHANGED fields
    BY <2>5
  <2>6. QED BY <2>1, <2>2, <2>3, <2>4, <2>5
<1>8. CASE ShutdownAPI \/ CleanupDown \/ Lift \/ Restore \/ Unlink
  BY <1>8 DEF ShutdownAPI, CleanupDown, Lift, Restore, Unlink
<1>9. CASE Start \/ Sigterm \/ Outage \/ WanReturns \/ Crash \/ Stopped
  BY <1>9 DEF Start, Sigterm, Outage, WanReturns, Crash, Stopped, vars
<1>10. CASE UNCHANGED vars
  BY <1>10 DEF vars
<1>11. QED
  BY <1>1, <1>2, <1>3, <1>4, <1>5, <1>6, <1>7, <1>8, <1>9, <1>10 DEF Next, Main

\* The killswitch stays up between fw.Setup and fw.Cleanup, and the fields say so.
LEMMA ClosedStep ==
    ASSUME TypeInv, ClosedInv, [Next]_vars
    PROVE  ClosedInv'
<1> USE DEF TypeInv, ClosedInv, Alive, Closed, Starting, Stopping, Label, Initialize,
            Connect, Retry, Leave, net, files, retry, fields, group, env, runs, At,
            Goto, Fail, Exit, Fault, NoFault, FailsIf
<1>1. CASE \/ Backup \/ BackupData \/ ClearResolv
           \/ RemoveOldChains \/ SetupKillswitch \/ InitializeFails
  BY <1>1 DEF Backup, BackupData, ClearResolv, RemoveOldChains, SetupKillswitch,
              InitializeFails
<1>2. CASE setupDNS \/ ResolveUpstreams \/ StartProxy \/ ValidateDNS \/ captureRealIP
  BY <1>2 DEF setupDNS, ResolveUpstreams, StartProxy, ValidateDNS, captureRealIP,
              Exempt
<1>3. CASE ConnectDown \/ Register \/ Registered \/ CreateInterface \/ ConfigureInterface
  BY <1>3 DEF ConnectDown, Register, Registered, CreateInterface, ConfigureInterface,
              Exempt
<1>4. CASE WriteDNS \/ RemoveRoutes \/ AddRoutes \/ VerifyConnection
  BY <1>4 DEF WriteDNS, RemoveRoutes, AddRoutes, VerifyConnection
<1>5. CASE Monitor \/ CacherTick \/ Cacher \/ Syncer \/ Forward
  BY <1>5 DEF Monitor, CacherTick, Cacher, Syncer, Forward, ForwardStart,
              ForwardAcquired, ForwardEnds, Serve, Return, Cancelled, Dead
<1>6. CASE ServicesEnd \/ Decide \/ Check \/ WaitForUp
  <2>1. CASE ServicesEnd
    BY <2>1 DEF ServicesEnd, Retries
  <2>2. CASE Decide
    BY <2>2 DEF Decide, Retries
  <2>3. CASE Check
    BY <2>3 DEF Check, Retries
  <2>4. CASE WaitForUp
    BY <2>4 DEF WaitForUp, Retries
  <2>5. QED BY <1>6, <2>1, <2>2, <2>3, <2>4
<1>7. CASE HandleError \/ Pause
  <2> USE <1>7 DEF HandleError, Pause, Retries, GiveUp
  <2>1. CASE fn = "dns" /\ Exit
    BY <2>1
  <2>2. CASE Goto("cleanup") /\ UNCHANGED fields
    BY <2>2
  <2>3. CASE Goto("ban") /\ UNCHANGED fields
    BY <2>3
  <2>4. CASE Goto("check") /\ UNCHANGED fields
    BY <2>4
  <2>5. CASE Goto(IF fn = "dns" THEN "dns" ELSE "connect") /\ UNCHANGED fields
    BY <2>5
  <2>6. QED BY <2>1, <2>2, <2>3, <2>4, <2>5
<1>8. CASE ShutdownAPI \/ CleanupDown \/ Lift \/ Restore \/ Unlink
  BY <1>8 DEF ShutdownAPI, CleanupDown, Lift, Restore, Unlink
<1>9. CASE Start \/ Sigterm \/ Outage \/ WanReturns \/ Crash \/ Stopped
  BY <1>9 DEF Start, Sigterm, Outage, WanReturns, Crash, Stopped, vars
<1>10. CASE UNCHANGED vars
  BY <1>10 DEF vars
<1>11. QED
  BY <1>1, <1>2, <1>3, <1>4, <1>5, <1>6, <1>7, <1>8, <1>9, <1>10 DEF Next, Main

\* Control flow.
LEMMA FlowStep ==
    ASSUME TypeInv, FlowInv, [Next]_vars
    PROVE  FlowInv'
<1> USE DEF TypeInv, FlowInv, Alive, Closed, Starting, Stopping, Label, Initialize,
            Connect, Retry, Leave, net, files, retry, fields, group, env, runs, At,
            Goto, Fail, Exit, Fault, NoFault, FailsIf
<1>1. CASE \/ Backup \/ BackupData \/ ClearResolv
           \/ RemoveOldChains \/ SetupKillswitch \/ InitializeFails
  BY <1>1 DEF Backup, BackupData, ClearResolv, RemoveOldChains, SetupKillswitch,
              InitializeFails
<1>2. CASE setupDNS \/ ResolveUpstreams \/ StartProxy \/ ValidateDNS \/ captureRealIP
  BY <1>2 DEF setupDNS, ResolveUpstreams, StartProxy, ValidateDNS, captureRealIP,
              Exempt
<1>3. CASE ConnectDown \/ Register \/ Registered \/ CreateInterface \/ ConfigureInterface
  BY <1>3 DEF ConnectDown, Register, Registered, CreateInterface, ConfigureInterface,
              Exempt
<1>4. CASE WriteDNS \/ RemoveRoutes \/ AddRoutes \/ VerifyConnection
  BY <1>4 DEF WriteDNS, RemoveRoutes, AddRoutes, VerifyConnection
<1>5. CASE Monitor \/ CacherTick \/ Cacher \/ Syncer \/ Forward
  BY <1>5 DEF Monitor, CacherTick, Cacher, Syncer, Forward, ForwardStart,
              ForwardAcquired, ForwardEnds, Serve, Return, Cancelled, Dead
<1>6. CASE ServicesEnd \/ Decide \/ Check \/ WaitForUp
  BY <1>6 DEF ServicesEnd, Decide, Check, WaitForUp, Retries
<1>7. CASE HandleError \/ Pause
  <2> USE <1>7 DEF HandleError, Pause, Retries, GiveUp
  <2>1. CASE fn = "dns" /\ Exit
    BY <2>1
  <2>2. CASE Goto("cleanup") /\ UNCHANGED fields
    BY <2>2
  <2>3. CASE Goto("ban") /\ UNCHANGED fields
    BY <2>3
  <2>4. CASE Goto("check") /\ UNCHANGED fields
    BY <2>4
  <2>5. CASE Goto(IF fn = "dns" THEN "dns" ELSE "connect") /\ UNCHANGED fields
    BY <2>5
  <2>6. QED BY <2>1, <2>2, <2>3, <2>4, <2>5
<1>8. CASE ShutdownAPI \/ CleanupDown \/ Lift \/ Restore \/ Unlink
  BY <1>8 DEF ShutdownAPI, CleanupDown, Lift, Restore, Unlink
<1>9. CASE Start \/ Sigterm \/ Outage \/ WanReturns \/ Crash \/ Stopped
  BY <1>9 DEF Start, Sigterm, Outage, WanReturns, Crash, Stopped, vars
<1>10. CASE UNCHANGED vars
  BY <1>10 DEF vars
<1>11. QED
  BY <1>1, <1>2, <1>3, <1>4, <1>5, <1>6, <1>7, <1>8, <1>9, <1>10 DEF Next, Main

\* What a connection rests on is there as long as it counts as up.
LEMMA ConnectedStep ==
    ASSUME TypeInv, ClosedInv, FlowInv, ConnectedInv, [Next]_vars
    PROVE  ConnectedInv'
<1> USE DEF TypeInv, ClosedInv, FlowInv, ConnectedInv, Alive, Closed, Starting,
            Stopping, Label, Initialize, Connect, Retry, Leave, net, files, retry,
            fields, group, env, runs, At, Goto, Fail, Exit, Fault, NoFault, FailsIf
<1>1. CASE \/ Backup \/ BackupData \/ ClearResolv
           \/ RemoveOldChains \/ SetupKillswitch \/ InitializeFails
  BY <1>1 DEF Backup, BackupData, ClearResolv, RemoveOldChains, SetupKillswitch,
              InitializeFails
<1>2. CASE setupDNS \/ ResolveUpstreams \/ StartProxy \/ ValidateDNS \/ captureRealIP
  BY <1>2 DEF setupDNS, ResolveUpstreams, StartProxy, ValidateDNS, captureRealIP,
              Exempt
<1>3. CASE ConnectDown \/ Register \/ Registered \/ CreateInterface \/ ConfigureInterface
  BY <1>3 DEF ConnectDown, Register, Registered, CreateInterface, ConfigureInterface,
              Exempt
<1>4. CASE WriteDNS \/ RemoveRoutes \/ AddRoutes \/ VerifyConnection
  BY <1>4 DEF WriteDNS, RemoveRoutes, AddRoutes, VerifyConnection
<1>5. CASE Monitor \/ CacherTick \/ Cacher \/ Syncer \/ Forward
  BY <1>5 DEF Monitor, CacherTick, Cacher, Syncer, Forward, ForwardStart,
              ForwardAcquired, ForwardEnds, Serve, Return, Cancelled, Dead
<1>6. CASE ServicesEnd \/ Decide \/ Check \/ WaitForUp
  <2>1. CASE ServicesEnd
    BY <2>1 DEF ServicesEnd, Retries
  <2>2. CASE Decide
    BY <2>2 DEF Decide, Retries
  <2>3. CASE Check
    BY <2>3 DEF Check, Retries
  <2>4. CASE WaitForUp
    BY <2>4 DEF WaitForUp, Retries
  <2>5. QED BY <1>6, <2>1, <2>2, <2>3, <2>4
<1>7. CASE HandleError \/ Pause
  <2> USE <1>7 DEF HandleError, Pause, Retries, GiveUp
  <2>1. CASE fn = "dns" /\ Exit
    BY <2>1
  <2>2. CASE Goto("cleanup") /\ UNCHANGED fields
    BY <2>2
  <2>3. CASE Goto("ban") /\ UNCHANGED fields
    BY <2>3
  <2>4. CASE Goto("check") /\ UNCHANGED fields
    BY <2>4
  <2>5. CASE Goto(IF fn = "dns" THEN "dns" ELSE "connect") /\ UNCHANGED fields
    BY <2>5
  <2>6. QED BY <2>1, <2>2, <2>3, <2>4, <2>5
<1>8. CASE ShutdownAPI \/ CleanupDown \/ Lift \/ Restore \/ Unlink
  BY <1>8 DEF ShutdownAPI, CleanupDown, Lift, Restore, Unlink
<1>9. CASE Start \/ Sigterm \/ Outage \/ WanReturns \/ Crash \/ Stopped
  BY <1>9 DEF Start, Sigterm, Outage, WanReturns, Crash, Stopped, vars
<1>10. CASE UNCHANGED vars
  BY <1>10 DEF vars
<1>11. QED
  BY <1>1, <1>2, <1>3, <1>4, <1>5, <1>6, <1>7, <1>8, <1>9, <1>10 DEF Next, Main

\* The two files.
LEMMA FilesStep ==
    ASSUME TypeInv, FlowInv, FilesInv, [Next]_vars
    PROVE  FilesInv'
<1> USE DEF TypeInv, FlowInv, FilesInv, Alive, Closed, Starting, Stopping, Label,
            Initialize, Connect, Retry, Leave, Content, net, files, retry, fields,
            group, env, runs, At, Goto, Fail, Exit, Fault, NoFault, FailsIf
<1>1. CASE \/ Backup \/ BackupData \/ ClearResolv
           \/ RemoveOldChains \/ SetupKillswitch \/ InitializeFails
  BY <1>1 DEF Backup, BackupData, ClearResolv, RemoveOldChains, SetupKillswitch,
              InitializeFails
<1>2. CASE setupDNS \/ ResolveUpstreams \/ StartProxy \/ ValidateDNS \/ captureRealIP
  BY <1>2 DEF setupDNS, ResolveUpstreams, StartProxy, ValidateDNS, captureRealIP,
              Exempt
<1>3. CASE ConnectDown \/ Register \/ Registered \/ CreateInterface \/ ConfigureInterface
  BY <1>3 DEF ConnectDown, Register, Registered, CreateInterface, ConfigureInterface,
              Exempt
<1>4. CASE WriteDNS \/ RemoveRoutes \/ AddRoutes \/ VerifyConnection
  BY <1>4 DEF WriteDNS, RemoveRoutes, AddRoutes, VerifyConnection
<1>5. CASE Monitor \/ CacherTick \/ Cacher \/ Syncer \/ Forward
  BY <1>5 DEF Monitor, CacherTick, Cacher, Syncer, Forward, ForwardStart,
              ForwardAcquired, ForwardEnds, Serve, Return, Cancelled, Dead
<1>6. CASE ServicesEnd \/ Decide \/ Check \/ WaitForUp
  BY <1>6 DEF ServicesEnd, Decide, Check, WaitForUp, Retries
<1>7. CASE HandleError \/ Pause
  <2> USE <1>7 DEF HandleError, Pause, Retries, GiveUp
  <2>1. CASE fn = "dns" /\ Exit
    BY <2>1
  <2>2. CASE Goto("cleanup") /\ UNCHANGED fields
    BY <2>2
  <2>3. CASE Goto("ban") /\ UNCHANGED fields
    BY <2>3
  <2>4. CASE Goto("check") /\ UNCHANGED fields
    BY <2>4
  <2>5. CASE Goto(IF fn = "dns" THEN "dns" ELSE "connect") /\ UNCHANGED fields
    BY <2>5
  <2>6. QED BY <2>1, <2>2, <2>3, <2>4, <2>5
<1>8. CASE ShutdownAPI \/ CleanupDown \/ Lift \/ Restore \/ Unlink
  BY <1>8 DEF ShutdownAPI, CleanupDown, Lift, Restore, Unlink
<1>9. CASE Start \/ Sigterm \/ Outage \/ WanReturns \/ Crash \/ Stopped
  BY <1>9 DEF Start, Sigterm, Outage, WanReturns, Crash, Stopped, vars
<1>10. CASE UNCHANGED vars
  BY <1>10 DEF vars
<1>11. QED
  BY <1>1, <1>2, <1>3, <1>4, <1>5, <1>6, <1>7, <1>8, <1>9, <1>10 DEF Next, Main

\* With whole writes the original is always in one of them.
LEMMA OriginalStep ==
    ASSUME TornWrites = FALSE, FlowInv, FilesInv, OriginalInv, [Next]_vars
    PROVE  OriginalInv'
<1> USE DEF FlowInv, FilesInv, OriginalInv, Alive, Closed, Starting, Stopping, Label,
            Initialize, Connect, Retry, Leave, net, files, retry, fields, group, env,
            runs, At, Goto, Fail, Exit, Fault, NoFault, FailsIf
<1>1. CASE \/ Backup \/ BackupData \/ ClearResolv
           \/ RemoveOldChains \/ SetupKillswitch \/ InitializeFails
  BY <1>1 DEF Backup, BackupData, ClearResolv, RemoveOldChains, SetupKillswitch,
              InitializeFails
<1>2. CASE setupDNS \/ ResolveUpstreams \/ StartProxy \/ ValidateDNS \/ captureRealIP
  BY <1>2 DEF setupDNS, ResolveUpstreams, StartProxy, ValidateDNS, captureRealIP,
              Exempt
<1>3. CASE ConnectDown \/ Register \/ Registered \/ CreateInterface \/ ConfigureInterface
  BY <1>3 DEF ConnectDown, Register, Registered, CreateInterface, ConfigureInterface,
              Exempt
<1>4. CASE WriteDNS \/ RemoveRoutes \/ AddRoutes \/ VerifyConnection
  BY <1>4 DEF WriteDNS, RemoveRoutes, AddRoutes, VerifyConnection
<1>5. CASE Monitor \/ CacherTick \/ Cacher \/ Syncer \/ Forward
  BY <1>5 DEF Monitor, CacherTick, Cacher, Syncer, Forward, ForwardStart,
              ForwardAcquired, ForwardEnds, Serve, Return, Cancelled, Dead
<1>6. CASE ServicesEnd \/ Decide \/ Check \/ WaitForUp
  BY <1>6 DEF ServicesEnd, Decide, Check, WaitForUp, Retries
<1>7. CASE HandleError \/ Pause
  <2> USE <1>7 DEF HandleError, Pause, Retries, GiveUp
  <2>1. CASE fn = "dns" /\ Exit
    BY <2>1
  <2>2. CASE Goto("cleanup") /\ UNCHANGED fields
    BY <2>2
  <2>3. CASE Goto("ban") /\ UNCHANGED fields
    BY <2>3
  <2>4. CASE Goto("check") /\ UNCHANGED fields
    BY <2>4
  <2>5. CASE Goto(IF fn = "dns" THEN "dns" ELSE "connect") /\ UNCHANGED fields
    BY <2>5
  <2>6. QED BY <2>1, <2>2, <2>3, <2>4, <2>5
<1>8. CASE ShutdownAPI \/ CleanupDown \/ Lift \/ Restore \/ Unlink
  BY <1>8 DEF ShutdownAPI, CleanupDown, Lift, Restore, Unlink
<1>9. CASE Start \/ Sigterm \/ Outage \/ WanReturns \/ Crash \/ Stopped
  BY <1>9 DEF Start, Sigterm, Outage, WanReturns, Crash, Stopped, vars
<1>10. CASE UNCHANGED vars
  BY <1>10 DEF vars
<1>11. QED
  BY <1>1, <1>2, <1>3, <1>4, <1>5, <1>6, <1>7, <1>8, <1>9, <1>10 DEF Next, Main

\* The services run only while main waits for them, and end only for a reason.
LEMMA ServicesStep ==
    ASSUME TypeInv, ServicesInv, [Next]_vars
    PROVE  ServicesInv'
<1> USE ServiceMembers DEF TypeInv, ServicesInv, Alive, net, files, retry, fields, group,
            env, runs,
            At, Goto, Fail, Exit, Fault, NoFault, FailsIf
<1>1. CASE \/ Backup \/ BackupData \/ ClearResolv
           \/ RemoveOldChains \/ SetupKillswitch \/ InitializeFails
  BY <1>1 DEF Backup, BackupData, ClearResolv, RemoveOldChains, SetupKillswitch,
              InitializeFails
<1>2. CASE setupDNS \/ ResolveUpstreams \/ StartProxy \/ ValidateDNS \/ captureRealIP
  BY <1>2 DEF setupDNS, ResolveUpstreams, StartProxy, ValidateDNS, captureRealIP,
              Exempt
<1>3. CASE ConnectDown \/ Register \/ Registered \/ CreateInterface \/ ConfigureInterface
  BY <1>3 DEF ConnectDown, Register, Registered, CreateInterface, ConfigureInterface,
              Exempt
<1>4. CASE WriteDNS \/ RemoveRoutes \/ AddRoutes \/ VerifyConnection
  BY <1>4 DEF WriteDNS, RemoveRoutes, AddRoutes, VerifyConnection
<1>5. CASE Monitor \/ CacherTick \/ Cacher \/ Syncer \/ Forward
  BY <1>5 DEF Monitor, CacherTick, Cacher, Syncer, Forward, ForwardStart,
              ForwardAcquired, ForwardEnds, Serve, Return, Cancelled, Dead
<1>6. CASE ServicesEnd \/ Decide \/ Check \/ WaitForUp
  BY <1>6 DEF ServicesEnd, Decide, Check, WaitForUp, Retries
<1>7. CASE HandleError \/ Pause
  <2> USE <1>7 DEF HandleError, Pause, Retries, GiveUp
  <2>1. CASE fn = "dns" /\ Exit
    BY <2>1
  <2>2. CASE Goto("cleanup") /\ UNCHANGED fields
    BY <2>2
  <2>3. CASE Goto("ban") /\ UNCHANGED fields
    BY <2>3
  <2>4. CASE Goto("check") /\ UNCHANGED fields
    BY <2>4
  <2>5. CASE Goto(IF fn = "dns" THEN "dns" ELSE "connect") /\ UNCHANGED fields
    BY <2>5
  <2>6. QED BY <2>1, <2>2, <2>3, <2>4, <2>5
<1>8. CASE ShutdownAPI \/ CleanupDown \/ Lift \/ Restore \/ Unlink
  BY <1>8 DEF ShutdownAPI, CleanupDown, Lift, Restore, Unlink
<1>9. CASE Start \/ Sigterm \/ Outage \/ WanReturns \/ Crash \/ Stopped
  BY <1>9 DEF Start, Sigterm, Outage, WanReturns, Crash, Stopped, vars
<1>10. CASE UNCHANGED vars
  BY <1>10 DEF vars
<1>11. QED
  BY <1>1, <1>2, <1>3, <1>4, <1>5, <1>6, <1>7, <1>8, <1>9, <1>10 DEF Next, Main

\* The route of port forwarding.
LEMMA ForwardRouteStep ==
    ASSUME TypeInv, ServicesInv, ForwardInv, [Next]_vars
    PROVE  ForwardInv'
<1> USE ServiceMembers DEF TypeInv, ServicesInv, ForwardInv, Alive, net, files, retry, fields,
            group, env, runs, At, Goto, Fail, Exit, Fault, NoFault, FailsIf
<1>1. CASE \/ Backup \/ BackupData \/ ClearResolv
           \/ RemoveOldChains \/ SetupKillswitch \/ InitializeFails
  <2>1. CASE Backup
    BY <2>1 DEF Backup
  <2>2. CASE BackupData
    BY <2>2 DEF BackupData
  <2>3. CASE ClearResolv
    BY <2>3 DEF ClearResolv
  <2>4. CASE RemoveOldChains
    BY <2>4 DEF RemoveOldChains
  <2>5. CASE SetupKillswitch
    BY <2>5 DEF SetupKillswitch
  <2>6. CASE InitializeFails
    BY <2>6 DEF InitializeFails
  <2>7. QED BY <1>1, <2>1, <2>2, <2>3, <2>4, <2>5, <2>6
<1>2. CASE setupDNS \/ ResolveUpstreams \/ StartProxy \/ ValidateDNS \/ captureRealIP
  <2>1. CASE setupDNS
    BY <2>1 DEF setupDNS, Exempt
  <2>2. CASE ResolveUpstreams
    BY <2>2 DEF ResolveUpstreams, Exempt
  <2>3. CASE StartProxy
    BY <2>3 DEF StartProxy, Exempt
  <2>4. CASE ValidateDNS
    BY <2>4 DEF ValidateDNS, Exempt
  <2>5. CASE captureRealIP
    BY <2>5 DEF captureRealIP, Exempt
  <2>6. QED BY <1>2, <2>1, <2>2, <2>3, <2>4, <2>5
<1>3. CASE ConnectDown \/ Register \/ Registered \/ CreateInterface \/ ConfigureInterface
  <2>1. CASE ConnectDown
    BY <2>1 DEF ConnectDown, Exempt
  <2>2. CASE Register
    BY <2>2 DEF Register, Exempt
  <2>3. CASE Registered
    BY <2>3 DEF Registered, Exempt
  <2>4. CASE CreateInterface
    BY <2>4 DEF CreateInterface, Exempt
  <2>5. CASE ConfigureInterface
    BY <2>5 DEF ConfigureInterface, Exempt
  <2>6. QED BY <1>3, <2>1, <2>2, <2>3, <2>4, <2>5
<1>4. CASE WriteDNS \/ RemoveRoutes \/ AddRoutes \/ VerifyConnection
  <2>1. CASE WriteDNS
    BY <2>1 DEF WriteDNS
  <2>2. CASE RemoveRoutes
    BY <2>2 DEF RemoveRoutes
  <2>3. CASE AddRoutes
    BY <2>3 DEF AddRoutes
  <2>4. CASE VerifyConnection
    BY <2>4 DEF VerifyConnection
  <2>5. QED BY <1>4, <2>1, <2>2, <2>3, <2>4
<1>5. CASE Monitor \/ CacherTick \/ Cacher \/ Syncer \/ Forward
  <2>1. CASE Monitor
    BY <2>1 DEF Monitor, Serve, Return, Cancelled, Dead
  <2>2. CASE CacherTick
    BY <2>2 DEF CacherTick, Serve, Return, Cancelled, Dead
  <2>3. CASE Cacher
    BY <2>3 DEF Cacher, Serve, Return, Cancelled, Dead
  <2>4. CASE Syncer
    BY <2>4 DEF Syncer, Serve, Return, Cancelled, Dead
  <2>5. CASE ForwardStart
    <3> USE <2>5 DEF ForwardStart, Serve, Return
    <3>1. CASE NoFault /\ svc' = [svc EXCEPT !["portforward"] = "acquire"]
      BY <3>1
    <3>2. CASE UNCHANGED pfRoute
      BY <3>2
    <3>3. CASE Fault
      BY <3>3
    <3>4. QED BY <3>1, <3>2, <3>3
  <2>6. CASE ForwardAcquired
    BY <2>6 DEF ForwardAcquired, Serve, Return, Cancelled, Dead
  <2>7. CASE ForwardEnds
    BY <2>7 DEF ForwardEnds, Serve, Return, Cancelled, Dead
  <2>8. QED BY <1>5, <2>1, <2>2, <2>3, <2>4, <2>5, <2>6, <2>7 DEF Forward
<1>6. CASE ServicesEnd \/ Decide \/ Check \/ WaitForUp
  <2>1. CASE ServicesEnd
    BY <2>1 DEF ServicesEnd, Retries
  <2>2. CASE Decide
    BY <2>2 DEF Decide, Retries
  <2>3. CASE Check
    BY <2>3 DEF Check, Retries
  <2>4. CASE WaitForUp
    BY <2>4 DEF WaitForUp, Retries
  <2>5. QED BY <1>6, <2>1, <2>2, <2>3, <2>4
<1>7. CASE HandleError \/ Pause
  <2> USE <1>7 DEF HandleError, Pause, Retries, GiveUp
  <2>1. CASE fn = "dns" /\ Exit
    BY <2>1
  <2>2. CASE Goto("cleanup") /\ UNCHANGED fields
    BY <2>2
  <2>3. CASE Goto("ban") /\ UNCHANGED fields
    BY <2>3
  <2>4. CASE Goto("check") /\ UNCHANGED fields
    BY <2>4
  <2>5. CASE Goto(IF fn = "dns" THEN "dns" ELSE "connect") /\ UNCHANGED fields
    BY <2>5
  <2>6. QED BY <2>1, <2>2, <2>3, <2>4, <2>5
<1>8. CASE ShutdownAPI \/ CleanupDown \/ Lift \/ Restore \/ Unlink
  <2>1. CASE ShutdownAPI
    BY <2>1 DEF ShutdownAPI
  <2>2. CASE CleanupDown
    BY <2>2 DEF CleanupDown
  <2>3. CASE Lift
    BY <2>3 DEF Lift
  <2>4. CASE Restore
    BY <2>4 DEF Restore
  <2>5. CASE Unlink
    BY <2>5 DEF Unlink
  <2>6. QED BY <1>8, <2>1, <2>2, <2>3, <2>4, <2>5
<1>9. CASE Start \/ Sigterm \/ Outage \/ WanReturns \/ Crash \/ Stopped
  <2>1. CASE Start
    BY <2>1 DEF Start, vars
  <2>2. CASE Sigterm
    BY <2>2 DEF Sigterm, vars
  <2>3. CASE Outage
    BY <2>3 DEF Outage, vars
  <2>4. CASE WanReturns
    BY <2>4 DEF WanReturns, vars
  <2>5. CASE Crash
    BY <2>5 DEF Crash, vars
  <2>6. CASE Stopped
    BY <2>6 DEF Stopped, vars
  <2>7. QED BY <1>9, <2>1, <2>2, <2>3, <2>4, <2>5, <2>6
<1>10. CASE UNCHANGED vars
  BY <1>10 DEF vars
<1>11. QED
  BY <1>1, <1>2, <1>3, <1>4, <1>5, <1>6, <1>7, <1>8, <1>9, <1>10 DEF Next, Main

\* The interface is gone where exemptions need it to be.
LEMMA AbsentStep ==
    ASSUME TypeInv, FlowInv, AbsentInv, [Next]_vars
    PROVE  AbsentInv'
<1> USE DEF TypeInv, FlowInv, AbsentInv, Alive, Closed, Starting, Stopping, Label,
            Initialize, Connect, Retry, Leave, net, files, retry, fields, group, env,
            runs, At, Goto, Fail, Exit, Fault, NoFault, FailsIf
<1>1. CASE \/ Backup \/ BackupData \/ ClearResolv
           \/ RemoveOldChains \/ SetupKillswitch \/ InitializeFails
  BY <1>1 DEF Backup, BackupData, ClearResolv, RemoveOldChains, SetupKillswitch,
              InitializeFails
<1>2. CASE setupDNS \/ ResolveUpstreams \/ StartProxy \/ ValidateDNS \/ captureRealIP
  BY <1>2 DEF setupDNS, ResolveUpstreams, StartProxy, ValidateDNS, captureRealIP,
              Exempt
<1>3. CASE ConnectDown \/ Register \/ Registered \/ CreateInterface \/ ConfigureInterface
  BY <1>3 DEF ConnectDown, Register, Registered, CreateInterface, ConfigureInterface,
              Exempt
<1>4. CASE WriteDNS \/ RemoveRoutes \/ AddRoutes \/ VerifyConnection
  BY <1>4 DEF WriteDNS, RemoveRoutes, AddRoutes, VerifyConnection
<1>5. CASE Monitor \/ CacherTick \/ Cacher \/ Syncer \/ Forward
  BY <1>5 DEF Monitor, CacherTick, Cacher, Syncer, Forward, ForwardStart,
              ForwardAcquired, ForwardEnds, Serve, Return, Cancelled, Dead
<1>6. CASE ServicesEnd \/ Decide \/ Check \/ WaitForUp
  BY <1>6 DEF ServicesEnd, Decide, Check, WaitForUp, Retries
<1>7. CASE HandleError \/ Pause
  <2> USE <1>7 DEF HandleError, Pause, Retries, GiveUp
  <2>1. CASE fn = "dns" /\ Exit
    BY <2>1
  <2>2. CASE Goto("cleanup") /\ UNCHANGED fields
    BY <2>2
  <2>3. CASE Goto("ban") /\ UNCHANGED fields
    BY <2>3
  <2>4. CASE Goto("check") /\ UNCHANGED fields
    BY <2>4
  <2>5. CASE Goto(IF fn = "dns" THEN "dns" ELSE "connect") /\ UNCHANGED fields
    BY <2>5
  <2>6. QED BY <2>1, <2>2, <2>3, <2>4, <2>5
<1>8. CASE ShutdownAPI \/ CleanupDown \/ Lift \/ Restore \/ Unlink
  BY <1>8 DEF ShutdownAPI, CleanupDown, Lift, Restore, Unlink
<1>9. CASE Start \/ Sigterm \/ Outage \/ WanReturns \/ Crash \/ Stopped
  BY <1>9 DEF Start, Sigterm, Outage, WanReturns, Crash, Stopped, vars
<1>10. CASE UNCHANGED vars
  BY <1>10 DEF vars
<1>11. QED
  BY <1>1, <1>2, <1>3, <1>4, <1>5, <1>6, <1>7, <1>8, <1>9, <1>10 DEF Next, Main

\* With commands that work PIA's servers are guarded.
LEMMA GuardStep ==
    ASSUME CommandFaults = FALSE, ClosedInv, FlowInv, ConnectedInv, FilesInv, AbsentInv,
           GuardInv, [Next]_vars
    PROVE  GuardInv'
<1> USE DEF ClosedInv, FlowInv, ConnectedInv, FilesInv, AbsentInv, GuardInv, Alive,
            Closed, Starting, Stopping, Label, Initialize, Connect, Retry, Leave,
            net, files, retry, fields, group, env, runs, At, Goto, Fail, Exit, Fault,
            NoFault, FailsIf
<1>1. CASE \/ Backup \/ BackupData \/ ClearResolv
           \/ RemoveOldChains \/ SetupKillswitch \/ InitializeFails
  BY <1>1 DEF Backup, BackupData, ClearResolv, RemoveOldChains, SetupKillswitch,
              InitializeFails
<1>2. CASE setupDNS \/ ResolveUpstreams \/ StartProxy \/ ValidateDNS \/ captureRealIP
  BY <1>2 DEF setupDNS, ResolveUpstreams, StartProxy, ValidateDNS, captureRealIP,
              Exempt
<1>3. CASE ConnectDown \/ Register \/ Registered \/ CreateInterface \/ ConfigureInterface
  BY <1>3 DEF ConnectDown, Register, Registered, CreateInterface, ConfigureInterface,
              Exempt
<1>4. CASE WriteDNS \/ RemoveRoutes \/ AddRoutes \/ VerifyConnection
  BY <1>4 DEF WriteDNS, RemoveRoutes, AddRoutes, VerifyConnection
<1>5. CASE Monitor \/ CacherTick \/ Cacher \/ Syncer \/ Forward
  BY <1>5 DEF Monitor, CacherTick, Cacher, Syncer, Forward, ForwardStart,
              ForwardAcquired, ForwardEnds, Serve, Return, Cancelled, Dead
<1>6. CASE ServicesEnd \/ Decide \/ Check \/ WaitForUp
  BY <1>6 DEF ServicesEnd, Decide, Check, WaitForUp, Retries
<1>7. CASE HandleError \/ Pause
  <2> USE <1>7 DEF HandleError, Pause, Retries, GiveUp
  <2>1. CASE fn = "dns" /\ Exit
    BY <2>1
  <2>2. CASE Goto("cleanup") /\ UNCHANGED fields
    BY <2>2
  <2>3. CASE Goto("ban") /\ UNCHANGED fields
    BY <2>3
  <2>4. CASE Goto("check") /\ UNCHANGED fields
    BY <2>4
  <2>5. CASE Goto(IF fn = "dns" THEN "dns" ELSE "connect") /\ UNCHANGED fields
    BY <2>5
  <2>6. QED BY <2>1, <2>2, <2>3, <2>4, <2>5
<1>8. CASE ShutdownAPI \/ CleanupDown \/ Lift \/ Restore \/ Unlink
  BY <1>8 DEF ShutdownAPI, CleanupDown, Lift, Restore, Unlink
<1>9. CASE Start \/ Sigterm \/ Outage \/ WanReturns \/ Crash \/ Stopped
  BY <1>9 DEF Start, Sigterm, Outage, WanReturns, Crash, Stopped, vars
<1>10. CASE UNCHANGED vars
  BY <1>10 DEF vars
<1>11. QED
  BY <1>1, <1>2, <1>3, <1>4, <1>5, <1>6, <1>7, <1>8, <1>9, <1>10 DEF Next, Main

\* The container's first state satisfies the invariant.
LEMMA LifeInit == Init => LifeInv
<1> SUFFICES ASSUME Init PROVE LifeInv
  OBVIOUS
<1> USE DEF Init
<1>1. TypeInv
  BY DEF TypeInv, Content, Label
<1>2. ClosedInv /\ FlowInv /\ ConnectedInv /\ AbsentInv
  BY DEF ClosedInv, FlowInv, ConnectedInv, AbsentInv, Closed, Alive, Starting, Stopping,
         Initialize, Connect, Leave, Retry
<1>3. FilesInv /\ ServicesInv /\ ForwardInv
  BY DEF FilesInv, ServicesInv, ForwardInv, Closed, Alive
<1>4. (TornWrites = FALSE => OriginalInv) /\ (CommandFaults = FALSE => GuardInv)
  BY DEF OriginalInv, GuardInv
<1>5. QED BY <1>1, <1>2, <1>3, <1>4 DEF LifeInv

\* Every step keeps the invariant: conjunct by conjunct.
LEMMA LifeStep == LifeInv /\ [Next]_vars => LifeInv'
<1> SUFFICES ASSUME LifeInv, [Next]_vars PROVE LifeInv'
  OBVIOUS
<1> USE DEF LifeInv
<1>1. TypeInv' /\ ClosedInv' /\ FlowInv' /\ ConnectedInv'
  BY TypeStep, ClosedStep, FlowStep, ConnectedStep
<1>2. FilesInv' /\ ServicesInv' /\ ForwardInv' /\ AbsentInv'
  BY FilesStep, ServicesStep, ForwardRouteStep, AbsentStep
<1>3. TornWrites = FALSE => OriginalInv'
  BY OriginalStep
<1>4. CommandFaults = FALSE => GuardInv'
  BY GuardStep
<1>5. QED BY <1>1, <1>2, <1>3, <1>4

\* The invariant holds in every reachable state.
LEMMA LifeAlways == Spec => []LifeInv
BY LifeInit, LifeStep, PTL DEF Spec

-----------------------------------------------------------------------------
(* What follows from it.                                                   *)

\* /ready and /health tell the truth, in every configuration: the fields they
\* are read from are set after, and reset before, what they speak of.
THEOREM HonestEndpoints == Spec => []EndpointsHonest
<1>1. LifeInv => EndpointsHonest
  <2> SUFFICES ASSUME LifeInv PROVE EndpointsHonest
    OBVIOUS
  <2> USE DEF LifeInv, ClosedInv, ConnectedInv
  <2>1. active => ks
    OBVIOUS
  <2>2. api /\ connectionUp => pc \in {"running", "decide", "cleanup"}
    BY DEF Leave, Stopping
  <2>3. pc \in {"running", "decide", "cleanup"} => ks
    BY DEF Closed, Alive, Starting, Stopping
  <2>4. QED BY <2>1, <2>2, <2>3 DEF EndpointsHonest
<1>2. QED BY <1>1, LifeAlways, PTL

\* No process sees the servers the container came with while the killswitch
\* counts as active.
THEOREM OriginalServersHidden == Spec => []ResolvHidden
<1>1. LifeInv => ResolvHidden
  BY DEF LifeInv, ClosedInv, FilesInv, ResolvHidden
<1>2. QED BY <1>1, LifeAlways, PTL

\* runServices returns the error that ended the services, and none of them runs
\* outside it, whichever fail, and in whatever order they notice.
THEOREM FirstErrorIsKept == Spec => []FirstErrorDecides
<1>1. LifeInv => FirstErrorDecides
  BY DEF LifeInv, TypeInv, ServicesInv, FirstErrorDecides
<1>2. QED BY <1>1, LifeAlways, PTL

\* Port forwarding takes its route with it, unless something fails or crashes.
THEOREM RouteTornDown == Spec => []ForwardTornDown
<1>1. LifeInv => ForwardTornDown
  BY DEF LifeInv, ForwardInv, ForwardTornDown, Connect, Retry
<1>2. QED BY <1>1, LifeAlways, PTL

\* Exemptions are opened only when there is no interface in their way.
THEOREM NoTunnelUnderExemptions == Spec => []ExemptionsNeedNoTunnel
<1>1. LifeInv => ExemptionsNeedNoTunnel
  <2> SUFFICES ASSUME LifeInv, ~sig,
                      \/ pc \in {"dnsquery", "request"}
                      \/ pc = "fetch" /\ (dnsMode = "dot" \/ crashes = 0)
               PROVE  tunnel = "absent"
    BY DEF ExemptionsNeedNoTunnel
  <2>1. pc = "dnsquery" => dnsMode = "dot"
    BY DEF LifeInv, FlowInv
  <2>2. QED BY <2>1 DEF LifeInv, AbsentInv, Initialize
<1>2. QED BY <1>1, LifeAlways, PTL

\* With commands that work, PIA's DNS servers are never used outside the tunnel.
THEOREM PIADNSGuarded == Spec => [](CommandFaults = FALSE => GuardedDNS)
<1>1. LifeInv => (CommandFaults = FALSE => GuardedDNS)
  BY DEF LifeInv, GuardInv, GuardedDNS
<1>2. QED BY <1>1, LifeAlways, PTL

\* With writes that are whole, the user's resolv.conf is never lost.
THEOREM OriginalNeverLost == Spec => [](TornWrites = FALSE => OriginalKept)
<1>1. LifeInv => (TornWrites = FALSE => OriginalKept)
  BY DEF LifeInv, FilesInv, OriginalInv, OriginalKept
<1>2. QED BY <1>1, LifeAlways, PTL

-----------------------------------------------------------------------------
(* The killswitch.                                                         *)

\* The container starts without a process and without a killswitch.
LEMMA KillswitchInit == Init => KS!Init
<1> SUFFICES ASSUME Init PROVE KS!Init
  OBVIOUS
<1>1. QED BY DEF Init, KS!Init, Alive

\* What a step does to the killswitch: nothing, from where it is up, ...
LEMMA ClosedCourse ==
    ASSUME LifeInv, Closed, Next, ~Sigterm
    PROVE  \/ Closed' /\ UNCHANGED <<ks, sig>>
           \/ ~Alive' /\ UNCHANGED ks
           \/ Lift
<1> USE DEF LifeInv, TypeInv, FlowInv, Alive, Closed, Starting, Stopping, Label,
            Initialize, Connect, Retry,
            Leave,
            net, retry, fields, group, env, runs, At, Goto, Fail, Exit
<1>1. CASE \/ Backup \/ BackupData \/ ClearResolv
           \/ RemoveOldChains \/ SetupKillswitch \/ InitializeFails
  BY <1>1 DEF Backup, BackupData, ClearResolv, RemoveOldChains, SetupKillswitch,
              InitializeFails
<1>2. CASE setupDNS \/ ResolveUpstreams \/ StartProxy \/ ValidateDNS \/ captureRealIP
  BY <1>2 DEF setupDNS, ResolveUpstreams, StartProxy, ValidateDNS, captureRealIP,
              Exempt
<1>3. CASE ConnectDown \/ Register \/ Registered \/ CreateInterface \/ ConfigureInterface
  BY <1>3 DEF ConnectDown, Register, Registered, CreateInterface, ConfigureInterface,
              Exempt
<1>4. CASE WriteDNS \/ RemoveRoutes \/ AddRoutes \/ VerifyConnection
  BY <1>4 DEF WriteDNS, RemoveRoutes, AddRoutes, VerifyConnection
<1>5. CASE Monitor \/ CacherTick \/ Cacher \/ Syncer \/ Forward
  BY <1>5 DEF Monitor, CacherTick, Cacher, Syncer, Forward, ForwardStart,
              ForwardAcquired, ForwardEnds, Serve
<1>6. CASE ServicesEnd \/ Decide \/ Check \/ WaitForUp \/ HandleError \/ Pause
  BY <1>6 DEF ServicesEnd, Decide, Check, WaitForUp, HandleError, Pause, Retries,
              GiveUp
<1>7. CASE ShutdownAPI \/ CleanupDown \/ Lift \/ Restore \/ Unlink
  BY <1>7 DEF ShutdownAPI, CleanupDown, Lift, Restore, Unlink
<1>8. CASE Start \/ Sigterm \/ Outage \/ WanReturns \/ Crash \/ Stopped
  BY <1>8 DEF Start, Sigterm, Outage, WanReturns, Crash, Stopped, vars
<1>9. QED
  BY <1>1, <1>2, <1>3, <1>4, <1>5, <1>6, <1>7, <1>8 DEF Next, Main

\* ... nothing before a process starts, ...
LEMMA OffCourse ==
    ASSUME LifeInv, ~Alive, Next
    PROVE  Start \/ UNCHANGED <<ks, pc, sig>>
<1> USE DEF LifeInv, TypeInv, ServicesInv, Alive, net, retry, fields, group, env, runs, At,
            Goto, Fail, Exit
<1>1. CASE \/ Backup \/ BackupData \/ ClearResolv
           \/ RemoveOldChains \/ SetupKillswitch \/ InitializeFails
  BY <1>1 DEF Backup, BackupData, ClearResolv, RemoveOldChains, SetupKillswitch,
              InitializeFails
<1>2. CASE setupDNS \/ ResolveUpstreams \/ StartProxy \/ ValidateDNS \/ captureRealIP
  BY <1>2 DEF setupDNS, ResolveUpstreams, StartProxy, ValidateDNS, captureRealIP,
              Exempt
<1>3. CASE ConnectDown \/ Register \/ Registered \/ CreateInterface \/ ConfigureInterface
  BY <1>3 DEF ConnectDown, Register, Registered, CreateInterface, ConfigureInterface,
              Exempt
<1>4. CASE WriteDNS \/ RemoveRoutes \/ AddRoutes \/ VerifyConnection
  BY <1>4 DEF WriteDNS, RemoveRoutes, AddRoutes, VerifyConnection
<1>5. CASE Monitor \/ CacherTick \/ Cacher \/ Syncer \/ Forward
  BY <1>5 DEF Monitor, CacherTick, Cacher, Syncer, Forward, ForwardStart,
              ForwardAcquired, ForwardEnds, Serve
<1>6. CASE ServicesEnd \/ Decide \/ Check \/ WaitForUp \/ HandleError \/ Pause
  BY <1>6 DEF ServicesEnd, Decide, Check, WaitForUp, HandleError, Pause, Retries,
              GiveUp
<1>7. CASE ShutdownAPI \/ CleanupDown \/ Lift \/ Restore \/ Unlink
  BY <1>7 DEF ShutdownAPI, CleanupDown, Lift, Restore, Unlink
<1>8. CASE Start \/ Sigterm \/ Outage \/ WanReturns \/ Crash \/ Stopped
  BY <1>8 DEF Start, Sigterm, Outage, WanReturns, Crash, Stopped, vars
<1>9. QED
  BY <1>1, <1>2, <1>3, <1>4, <1>5, <1>6, <1>7, <1>8 DEF Next, Main

\* ... and at the edges what fw.Setup does.
LEMMA EdgeCourse ==
    ASSUME LifeInv, Alive, ~Closed, Next, ~Sigterm
    PROVE  \/ RemoveOldChains \/ SetupKillswitch
           \/ ~Alive' /\ (pc = "baseline" \/ UNCHANGED ks)
           \/ UNCHANGED <<ks, pc, sig>>
           \/ {pc, pc'} \subseteq Starting \ {"baseline"} /\ UNCHANGED <<ks, sig>>
           \/ {pc, pc'} \subseteq Stopping /\ UNCHANGED <<ks, sig>>
<1> USE DEF LifeInv, TypeInv, FlowInv, Alive, Closed, Starting, Stopping, Label,
            Initialize, Connect, Retry,
            Leave,
            net, retry, fields, group, env, runs, At, Goto, Fail, Exit
<1>1. CASE \/ Backup \/ BackupData \/ ClearResolv
           \/ RemoveOldChains \/ SetupKillswitch \/ InitializeFails
  BY <1>1 DEF Backup, BackupData, ClearResolv, RemoveOldChains, SetupKillswitch,
              InitializeFails
<1>2. CASE setupDNS \/ ResolveUpstreams \/ StartProxy \/ ValidateDNS \/ captureRealIP
  BY <1>2 DEF setupDNS, ResolveUpstreams, StartProxy, ValidateDNS, captureRealIP,
              Exempt
<1>3. CASE ConnectDown \/ Register \/ Registered \/ CreateInterface \/ ConfigureInterface
  BY <1>3 DEF ConnectDown, Register, Registered, CreateInterface, ConfigureInterface,
              Exempt
<1>4. CASE WriteDNS \/ RemoveRoutes \/ AddRoutes \/ VerifyConnection
  BY <1>4 DEF WriteDNS, RemoveRoutes, AddRoutes, VerifyConnection
<1>5. CASE Monitor \/ CacherTick \/ Cacher \/ Syncer \/ Forward
  BY <1>5 DEF Monitor, CacherTick, Cacher, Syncer, Forward, ForwardStart,
              ForwardAcquired, ForwardEnds, Serve
<1>6. CASE ServicesEnd \/ Decide \/ Check \/ WaitForUp \/ HandleError \/ Pause
  BY <1>6 DEF ServicesEnd, Decide, Check, WaitForUp, HandleError, Pause, Retries,
              GiveUp
<1>7. CASE ShutdownAPI \/ CleanupDown \/ Lift \/ Restore \/ Unlink
  BY <1>7 DEF ShutdownAPI, CleanupDown, Lift, Restore, Unlink
<1>8. CASE Start \/ Sigterm \/ Outage \/ WanReturns \/ Crash \/ Stopped
  BY <1>8 DEF Start, Sigterm, Outage, WanReturns, Crash, Stopped, vars
<1>9. QED
  BY <1>1, <1>2, <1>3, <1>4, <1>5, <1>6, <1>7, <1>8 DEF Next, Main

\* Every step is one of the killswitch, or none.
LEMMA KillswitchStep ==
    ASSUME LifeInv, [Next]_vars
    PROVE  [KS!Next]_KS!vars
<1>1. CASE UNCHANGED <<ks, pc, sig>>
  <2>1. UNCHANGED KS!vars
    BY <1>1 DEF KS!vars, Alive
  <2>2. QED BY <2>1
<1>2. CASE Sigterm
  <2>1. KS!Request
    BY <1>2 DEF Sigterm, KS!Request, Alive, net
  <2>2. QED BY <2>1 DEF KS!Next
<1>3. CASE Closed /\ Next /\ ~Sigterm
  <2>1. CASE Closed' /\ UNCHANGED <<ks, sig>>
    <3>1. UNCHANGED KS!vars
      BY <1>3, <2>1 DEF KS!vars, Closed, Alive, Starting, Stopping
    <3>2. QED BY <3>1
  <2>2. CASE ~Alive' /\ UNCHANGED ks
    <3>1. KS!Exit
      BY <1>3, <2>2 DEF KS!Exit, Closed, Alive, Starting, Stopping
    <3>2. QED BY <3>1 DEF KS!Next
  <2>3. CASE Lift
    <3>1. exitedCleanly /\ Alive /\ sig
      BY <2>3 DEF Lift, At, LifeInv, ClosedInv, Alive
    <3>2. KS!Lift
      BY <2>3, <3>1 DEF Lift, At, Goto, NoFault, KS!Lift, Alive
    <3>3. QED BY <3>2 DEF KS!Next
  <2>4. QED BY <1>3, <2>1, <2>2, <2>3, ClosedCourse
<1>4. CASE ~Alive /\ Next /\ ~Sigterm
  <2>1. Start \/ UNCHANGED <<ks, pc, sig>>
    BY <1>4, OffCourse
  <2>2. CASE Start
    <3>1. KS!Start
      BY <2>2 DEF Start, KS!Start, Alive, net
    <3>2. QED BY <3>1 DEF KS!Next
  <2>3. QED BY <2>1, <2>2, <1>1
<1>5. CASE Alive /\ ~Closed /\ Next /\ ~Sigterm
  <2>1. CASE RemoveOldChains
    <3>1. KS!Build
      BY <2>1 DEF RemoveOldChains, At, Goto, KS!Build, Alive
    <3>2. QED BY <3>1 DEF KS!Next
  <2>2. CASE SetupKillswitch
    <3>1. KS!Close
      BY <2>2 DEF SetupKillswitch, At, Goto, KS!Close, Alive
    <3>2. QED BY <3>1 DEF KS!Next
  <2>3. CASE ~Alive' /\ (pc = "baseline" \/ UNCHANGED ks)
    <3>1. KS!Exit
      BY <1>5, <2>3 DEF KS!Exit, Alive
    <3>2. QED BY <3>1 DEF KS!Next
  <2>4. CASE \/ UNCHANGED <<ks, pc, sig>>
             \/ {pc, pc'} \subseteq Starting \ {"baseline"} /\ UNCHANGED <<ks, sig>>
             \/ {pc, pc'} \subseteq Stopping /\ UNCHANGED <<ks, sig>>
    <3>1. UNCHANGED KS!vars
      BY <2>4 DEF KS!vars, Alive, Starting, Stopping
    <3>2. QED BY <3>1
  <2>5. QED BY <1>5, <2>1, <2>2, <2>3, <2>4, EdgeCourse
<1>6. CASE UNCHANGED vars
  BY <1>1, <1>6 DEF vars, net
<1>7. QED BY <1>2, <1>3, <1>4, <1>5, <1>6 DEF Closed

\* docs/firewall.md: "During reconnections: Firewall remains active".  Lifecycle
\* implements Killswitch in every configuration: no retry, reconnection, error
\* exit or crash opens it, only cleanup after SIGTERM or the Setup of a new process.
THEOREM LifecycleKeepsKillswitch == Spec => KeepsKillswitch
<1>1. LifeInv /\ [Next]_vars => [KS!Next]_KS!vars
  BY KillswitchStep
<1>2. QED BY <1>1, LifeAlways, KillswitchInit, PTL DEF Spec, KeepsKillswitch, KS!Spec
=============================================================================
