------------------------------ MODULE Firewall ------------------------------
(***************************************************************************)
(* The killswitch of pia-tun (internal/firewall): the type Firewall, every *)
(* method of it, and the order in which the program calls them.            *)
(*                                                                         *)
(* A method is a script of commands.  Each command is one invocation of    *)
(* iptables or ip, the unit at which the kernel's state changes, at which  *)
(* a command may fail and at which the process may die.  A method runs one *)
(* command of its script per step; a failing command either makes the      *)
(* method return its error (onerr = "return") or is ignored or only logged *)
(* (onerr = "ignore").  The kernel's state (chains, jumps, routing rules)  *)
(* survives the process; active and activePort, the fields of the Go       *)
(* struct, do not.                                                         *)
(***************************************************************************)
EXTENDS Naturals, Sequences, SequencesExt

CONSTANTS
    Endpoint,      \* IP:port/protocol triples that exemptions are opened for
    Port,          \* ports the PIA gateway may hand out
    Address,       \* networks and DNS servers of the configuration
    Lan4, Lan6,    \* sequences of networks LOCAL_NETWORKS resolves to
    LocalNets,     \* FALSE iff LOCAL_NETWORKS contains "none"
    IPv6Enabled,   \* IPV6_ENABLED
    PIADNS,        \* sequence of DNS servers of a PIA connection
    PIAMode,       \* TRUE iff DNS=pia
    PFEnabled,     \* PF_ENABLED
    MaxBatch,      \* bound: exemptions of one AddExemptions call
    MaxFailures,   \* bound: spurious command failures
    MaxCrashes,    \* bound: deaths of the process without any cleanup
    MaxStarts      \* bound: starts of the process in one network namespace

NoPort == "0"
PFGateway == "pf_gateway"
WANCheckIPs == <<"gaithersburg", "fort_collins">>

ASSUME ConfigAssumption ==
    /\ LocalNets \in BOOLEAN /\ IPv6Enabled \in BOOLEAN
    /\ PIAMode \in BOOLEAN /\ PFEnabled \in BOOLEAN
    /\ NoPort \notin Port
    /\ PIADNS \in Seq(Address) /\ Lan4 \in Seq(Address) /\ Lan6 \in Seq(Address)

ASSUME BoundAssumption ==
    /\ MaxBatch \in Nat \ {0} /\ MaxFailures \in Nat
    /\ MaxCrashes \in Nat /\ MaxStarts \in Nat \ {0}

-----------------------------------------------------------------------------
(* Chains and rules.  A rule is the kind of packet it accepts; a packet    *)
(* class is named by the rule that accepts it.                             *)

ChainIn == "VPN_IN"
ChainOut == "VPN_OUT"
ChainIn6 == "VPN_IN6"
ChainOut6 == "VPN_OUT6"
ChainExempt == "VPN_EXEMPTIONS"
BaseChains == {ChainIn, ChainOut, ChainIn6, ChainOut6}
Chains == BaseChains \cup {ChainExempt}

Rule(kind, arg) == [kind |-> kind, arg |-> arg]
NoRule == Rule("none", "-")
Established == Rule("established", "-")
Loopback == Rule("lo", "-")
Drop == Rule("drop", "-")
JumpExempt == Rule("jump", "-")
Fwmark == Rule("fwmark", "-")
Iface == Rule("pia0", "-")
Icmp6 == Rule("icmp6", "-")
Lan(net) == Rule("lan", net)
WanCheck(ip) == Rule("daytime", ip)
Exempt(ep) == Rule("endpoint", ep)
PortRule(proto, port) == Rule(proto, port)

\* Traffic that no rule of the program is meant to accept: the leak.
Clear == Rule("clear", "-")

Endpoints == {Exempt(ep) : ep \in Endpoint}
PortRules == {PortRule(proto, p) : proto \in {"tcp", "udp"}, p \in Port}

\* What the configuration lets through each chain, exemptions and forwarded
\* ports included whenever they are open.
Policy(c) ==
    {Established, Loopback}
        \cup (IF c = ChainIn
                THEN {Lan(net) : net \in ToSet(Lan4)} \cup PortRules ELSE {})
        \cup (IF c = ChainOut
                THEN {Lan(net) : net \in ToSet(Lan4)} \cup {Fwmark, Iface}
                        \cup {WanCheck(ip) : ip \in ToSet(WANCheckIPs)}
                        \cup Endpoints
                ELSE {})
        \cup (IF c \in {ChainIn6, ChainOut6}
                THEN {Lan(net) : net \in ToSet(Lan6)} \cup {Icmp6} ELSE {})
        \cup (IF c = ChainOut6 THEN {Iface} ELSE {})

Packets == {Clear} \cup UNION {Policy(c) : c \in BaseChains}

\* The routing rules of the program by priority; local6 is the IPv6 list.
Prio == {"bypass50", "pia75", "guard76", "local100", "local100v6"}
MangleRules == {"forward4", "output4", "forward6", "output6"}

-----------------------------------------------------------------------------
(* Commands.                                                               *)

Command(do, on, pos, rule, onerr) ==
    [do |-> do, on |-> on, pos |-> pos, rule |-> rule, onerr |-> onerr]

NewChain(c) == Command("new", c, 0, NoRule, "return")
Append_(c, r, onerr) == Command("append", c, 0, r, onerr)
Insert(c, pos, r, onerr) == Command("insert", c, pos, r, onerr)
insertBeforeDrop(c, r) == Command("beforedrop", c, 0, r, "return")
Delete(c, r) == Command("delete", c, 0, r, "ignore")
ClearAndDeleteChain(c) == Command("clear", c, 0, NoRule, "ignore")
InsertJump(c) == Command("wire", c, 1, NoRule, "return")
DeleteJump(c) == Command("unwire", c, 0, NoRule, "ignore")
RuleAdd(prio, to) == Command("ruleadd", prio, 0, Rule("to", to), "return")
RuleDel(prio, to) == Command("ruledel", prio, 0, Rule("to", to), "ignore")
RuleFlush(prio) == Command("ruleflush", prio, 0, NoRule, "ignore")
MangleAppend(m) == Command("mssadd", m, 0, NoRule, "ignore")
MangleDelete(m) == Command("mssdel", m, 0, NoRule, "ignore")

\* Mutant: a verification that fails is only logged.
VerifyLogged == Command("verify", "-", 0, NoRule, "ignore")

\* Assignments to the fields of the struct and the verification, which the
\* scripts order among the commands.
Verify == Command("verify", "-", 0, NoRule, "return")
Activate == Command("activate", "-", 0, NoRule, "ignore")
Deactivate == Command("deactivate", "-", 0, NoRule, "ignore")
SetActivePort(p) == Command("port", "-", 0, Rule("port", p), "ignore")

-----------------------------------------------------------------------------
(* The methods.                                                            *)

\* One routing rule per destination of a list, in its order.
RuleAdds(prio, dests) == [i \in 1..Len(dests) |-> RuleAdd(prio, dests[i])]

\* Mutant: every chain is flushed and deleted before its jump is removed.
cleanupChainsSwapped ==
    << ClearAndDeleteChain(ChainIn), DeleteJump(ChainIn),
       ClearAndDeleteChain(ChainOut), DeleteJump(ChainOut),
       ClearAndDeleteChain(ChainIn6), DeleteJump(ChainIn6),
       ClearAndDeleteChain(ChainOut6), DeleteJump(ChainOut6) >>

cleanupChains ==
    << DeleteJump(ChainIn), ClearAndDeleteChain(ChainIn),
       DeleteJump(ChainOut), ClearAndDeleteChain(ChainOut),
       DeleteJump(ChainIn6), ClearAndDeleteChain(ChainIn6),
       DeleteJump(ChainOut6), ClearAndDeleteChain(ChainOut6) >>

Baseline(c) ==
    << NewChain(c), Append_(c, Established, "return"), Append_(c, Loopback, "return"),
       Append_(c, Drop, "return"), InsertJump(c) >>

setupBaselineChains ==
    cleanupChains \o Baseline(ChainIn) \o Baseline(ChainOut)
        \o Baseline(ChainIn6) \o Baseline(ChainOut6)

cleanupLocalRoutes == << RuleFlush("local100"), RuleFlush("local100v6") >>

setupLocalRoutes ==
    cleanupLocalRoutes \o RuleAdds("local100", Lan4) \o RuleAdds("local100v6", Lan6)

\* For every network the rule of the input chain, then that of the output chain.
localRules(nets, in, out) ==
    [i \in 1..(2 * Len(nets)) |->
        insertBeforeDrop(IF i % 2 = 1 THEN in ELSE out, Lan(nets[(i + 1) \div 2]))]

setupLocalRules ==
    localRules(Lan4, ChainIn, ChainOut) \o localRules(Lan6, ChainIn6, ChainOut6)

setupLocalNetworks == setupLocalRoutes \o setupLocalRules

addVPN ==
    << Insert(ChainOut, 3, Fwmark, "return"), Insert(ChainOut, 3, Iface, "return") >>
        \o (IF IPv6Enabled THEN << Insert(ChainOut6, 3, Iface, "return") >> ELSE << >>)

cleanupBypassRoutes == << RuleFlush("bypass50") >>

insertBypassRules ==
    [i \in 1..Len(WANCheckIPs) |-> insertBeforeDrop(ChainOut, WanCheck(WANCheckIPs[i]))]

setupBypass ==
    cleanupBypassRoutes \o RuleAdds("bypass50", WANCheckIPs) \o insertBypassRules

cleanupMSSClamping ==
    << MangleDelete("forward4"), MangleDelete("output4"),
       MangleDelete("forward6"), MangleDelete("output6") >>

setupMSSClamping ==
    cleanupMSSClamping \o << MangleAppend("forward4"), MangleAppend("output4") >>
        \o (IF IPv6Enabled
              THEN << MangleAppend("forward6"), MangleAppend("output6") >>
              ELSE << >>)

setupIPv6 ==
    IF IPv6Enabled
      THEN << insertBeforeDrop(ChainIn6, Icmp6), insertBeforeDrop(ChainOut6, Icmp6) >>
      ELSE << >>

Setup ==
    setupBaselineChains \o (IF LocalNets THEN setupLocalNetworks ELSE << >>)
        \o addVPN \o setupBypass \o setupIPv6 \o setupMSSClamping
        \o << Verify, Activate >>

\* Mutant: wired into OUTPUT instead of VPN_OUT.
createExemptChainUnwired == << NewChain(ChainExempt), InsertJump(ChainExempt) >>

\* Mutant: an existing chain is accepted.
createExemptChainReused ==
    << [NewChain(ChainExempt) EXCEPT !.onerr = "ignore"],
       Insert(ChainOut, 1, JumpExempt, "ignore") >>

createExemptChain == << NewChain(ChainExempt), Insert(ChainOut, 1, JumpExempt, "ignore") >>

AddExemption(ep) == createExemptChain \o << Append_(ChainExempt, Exempt(ep), "return") >>

AddExemptions(specs) ==
    createExemptChain
        \o [i \in 1..Len(specs) |-> Append_(ChainExempt, Exempt(specs[i]), "ignore")]

\* Mutant: the wrong chain is flushed.
RemoveExemptionsWrongChain ==
    << Delete(ChainOut, JumpExempt), ClearAndDeleteChain(ChainOut) >>

RemoveExemptions == << Delete(ChainOut, JumpExempt), ClearAndDeleteChain(ChainExempt) >>

RemovePIARoutes == << RuleFlush("guard76"), RuleFlush("pia75") >>

\* For every server the guard, then the route through the tunnel.
AddPIADNSRoutes(dns) ==
    RemovePIARoutes
        \o [i \in 1..(2 * Len(dns)) |->
               RuleAdd(IF i % 2 = 1 THEN "guard76" ELSE "pia75", dns[(i + 1) \div 2])]

AddPFRoute(gw) == << RuleAdd("pia75", gw) >>

\* Mutant: "ip rule del priority 75" without the destination.
RemovePFRouteAll(gw) == << RuleFlush("pia75") >>

RemovePFRoute(gw) == << RuleDel("pia75", gw) >>

RemoveForwardedPort(port) ==
    IF port = NoPort THEN << >>
    ELSE << Delete(ChainIn, PortRule("tcp", port)), Delete(ChainIn, PortRule("udp", port)) >>

\* Mutant: the rules of the previous port stay.
AllowForwardedPortKeeping(old, port) ==
    << Insert(ChainIn, 3, PortRule("tcp", port), "return"),
       Insert(ChainIn, 3, PortRule("udp", port), "return"), SetActivePort(port) >>

AllowForwardedPort(old, port) ==
    RemoveForwardedPort(old)
        \o << Insert(ChainIn, 3, PortRule("tcp", port), "return"),
              Insert(ChainIn, 3, PortRule("udp", port), "return"), SetActivePort(port) >>

\* portforward's teardown, as far as the firewall is concerned.
teardown(port) == RemovePFRoute(PFGateway) \o RemoveForwardedPort(port)

Cleanup ==
    << Deactivate >> \o RemovePIARoutes \o cleanupLocalRoutes
        \o cleanupMSSClamping \o cleanupBypassRoutes \o RemoveExemptions
        \o cleanupChains

-----------------------------------------------------------------------------
(* State.                                                                  *)

VARIABLES
    chain,       \* rules of every chain, in order
    exists,      \* chains that exist
    wired,       \* base chains that INPUT or OUTPUT jumps to
    iprules,     \* destinations of the routing rules, by priority
    mangle,      \* MSS clamping rules present
    active, activePort,                \* fields of the Firewall struct
    op, todo, err,                     \* method running, its rest, its error
    phase,       \* how far the program is: see Phase
    held,        \* endpoints of the open exemption scope
    announced,   \* port last handed to AllowForwardedPort
    armed,       \* history: has a Setup been verified since the last Cleanup
    failures, crashes, starts          \* spent budgets

kernel == <<chain, exists, wired, iprules, mangle>>
fields == <<active, activePort>>
call == <<op, todo, err>>
caller == <<phase, held, announced>>
budgets == <<failures, crashes, starts>>
vars == <<kernel, fields, call, caller, armed, budgets>>

\* down: no process.  boot: initialize, resolver queries.  resolved: a query
\* was answered.  fetch: captureRealIP.  connect: vpn.Setup up to addkey.
\* registered: the key was accepted.  services: the errgroup runs.  forward:
\* portforward.Run is past AddPFRoute.  shutdown: SIGTERM while the services
\* ran.  clean: the process left after Cleanup.
Phase == {"down", "boot", "resolved", "fetch", "connect", "registered",
          "services", "forward", "shutdown", "clean"}

Op == {"none", "Setup", "Exempt", "Unexempt", "DNSRoutes", "PFRoute",
       "AllowPort", "Teardown", "Cleanup"}

Init ==
    /\ chain = [c \in Chains |-> << >>]
    /\ exists = {} /\ wired = {}
    /\ iprules = [p \in Prio |-> {}]
    /\ mangle = {}
    /\ active = FALSE /\ activePort = NoPort
    /\ op = "none" /\ todo = << >> /\ err = FALSE
    /\ phase = "down" /\ held = {} /\ announced = NoPort
    /\ armed = "no"
    /\ failures = 0 /\ crashes = 0 /\ starts = 0

-----------------------------------------------------------------------------
(* Execution of one command.                                               *)

cmd == Head(todo)

Referenced(c) ==
    \/ c \in wired
    \/ c = ChainExempt /\ \E b \in BaseChains : JumpExempt \in ToSet(chain[b])

chainHasDrop(c) == Drop \in ToSet(chain[c])
chainIsInParent(c) == c \in wired
checkChainsPresent == \A c \in BaseChains : chainHasDrop(c) /\ chainIsInParent(c)

\* Whether the kernel can carry the command out in this state.
Works(c) ==
    CASE c.do = "new" -> c.on \notin exists
      [] c.do \in {"append", "wire"} -> c.on \in exists
      [] c.do = "insert" ->
            /\ c.on \in exists /\ c.pos \in 1..(Len(chain[c.on]) + 1)
            /\ c.rule = JumpExempt => ChainExempt \in exists
      [] c.do = "beforedrop" -> c.on \in exists /\ chain[c.on] # << >>
      [] c.do = "delete" -> c.rule \in ToSet(chain[c.on])
      [] c.do = "clear" -> c.on \notin exists \/ ~Referenced(c.on)
      [] c.do = "unwire" -> c.on \in wired
      [] c.do = "ruleadd" -> c.rule.arg \notin iprules[c.on]
      [] c.do = "ruledel" -> c.rule.arg \in iprules[c.on]
      [] c.do = "mssdel" -> c.on \in mangle
      [] c.do = "verify" -> checkChainsPresent
      [] OTHER -> TRUE

\* The next command of the script is of this kind and succeeds.
Runs(do) ==
    /\ todo # << >> /\ cmd.do = do /\ Works(cmd)
    /\ todo' = Tail(todo)
    /\ UNCHANGED <<op, err, caller, budgets>>

RunNewChain ==
    /\ Runs("new")
    /\ exists' = exists \cup {cmd.on}
    /\ chain' = [chain EXCEPT ![cmd.on] = << >>]
    /\ UNCHANGED <<wired, iprules, mangle, fields, armed>>

RunAppend ==
    /\ Runs("append")
    /\ chain' = [chain EXCEPT ![cmd.on] = Append(@, cmd.rule)]
    /\ UNCHANGED <<exists, wired, iprules, mangle, fields, armed>>

RunInsert ==
    /\ Runs("insert")
    /\ chain' = [chain EXCEPT ![cmd.on] = InsertAt(@, cmd.pos, cmd.rule)]
    /\ UNCHANGED <<exists, wired, iprules, mangle, fields, armed>>

\* ruleCount takes the position of the last rule for that of DROP.
RunInsertBeforeDrop ==
    /\ Runs("beforedrop")
    /\ chain' = [chain EXCEPT ![cmd.on] = InsertAt(@, Len(@), cmd.rule)]
    /\ UNCHANGED <<exists, wired, iprules, mangle, fields, armed>>

RunDelete ==
    /\ Runs("delete")
    /\ \E i \in DOMAIN chain[cmd.on] :
          /\ chain[cmd.on][i] = cmd.rule
          /\ \A j \in 1..(i - 1) : chain[cmd.on][j] # cmd.rule
          /\ chain' = [chain EXCEPT ![cmd.on] = RemoveAt(@, i)]
    /\ UNCHANGED <<exists, wired, iprules, mangle, fields, armed>>

RunClear ==
    /\ Runs("clear")
    /\ exists' = exists \ {cmd.on}
    /\ chain' = [chain EXCEPT ![cmd.on] = << >>]
    /\ UNCHANGED <<wired, iprules, mangle, fields, armed>>

RunWire ==
    /\ \/ Runs("wire") /\ wired' = wired \cup {cmd.on}
       \/ Runs("unwire") /\ wired' = wired \ {cmd.on}
    /\ UNCHANGED <<chain, exists, iprules, mangle, fields, armed>>

RunRule ==
    /\ \/ Runs("ruleadd") /\ iprules' = [iprules EXCEPT ![cmd.on] = @ \cup {cmd.rule.arg}]
       \/ Runs("ruledel") /\ iprules' = [iprules EXCEPT ![cmd.on] = @ \ {cmd.rule.arg}]
       \/ Runs("ruleflush") /\ iprules' = [iprules EXCEPT ![cmd.on] = {}]
    /\ UNCHANGED <<chain, exists, wired, mangle, fields, armed>>

RunMangle ==
    /\ \/ Runs("mssadd") /\ mangle' = mangle \cup {cmd.on}
       \/ Runs("mssdel") /\ mangle' = mangle \ {cmd.on}
    /\ UNCHANGED <<chain, exists, wired, iprules, fields, armed>>

RunVerify ==
    /\ Runs("verify")
    /\ armed' = "yes"
    /\ UNCHANGED <<kernel, fields>>

RunField ==
    /\ \/ Runs("activate") /\ active' = TRUE /\ UNCHANGED activePort
       \/ Runs("deactivate") /\ active' = FALSE /\ UNCHANGED activePort
       \/ Runs("port") /\ activePort' = cmd.rule.arg /\ UNCHANGED active
    /\ UNCHANGED <<kernel, armed>>

\* The command fails: the kernel refuses it, or it fails for a reason of its
\* own (xtables lock, netlink, memory), which the budget bounds.  A method
\* returns at a failing command whose error it checks and goes on after any
\* other.  A flush may have emptied the chain before the deletion fails, and
\* a loop over "ip rule del" may stop anywhere.
Local(c) == c.do \in {"activate", "deactivate", "port"}

Fails ==
    /\ todo # << >> /\ ~Local(cmd)
    /\ \/ ~Works(cmd) /\ UNCHANGED failures
       \/ /\ Works(cmd) \/ cmd.do = "clear"
          /\ failures < MaxFailures /\ failures' = failures + 1
    /\ todo' = IF cmd.onerr = "return" THEN << >> ELSE Tail(todo)
    /\ err' = (err \/ cmd.onerr = "return")
    /\ UNCHANGED <<exists, wired, mangle, fields, op, caller, armed, crashes, starts>>

FailCommand ==
    /\ Fails
    /\ cmd.do = "clear" => failures' # failures
    /\ UNCHANGED <<chain, iprules>>

\* The deletion of a chain that is still referenced fails after the flush.
FailClear ==
    /\ Fails
    /\ cmd.do = "clear" /\ cmd.on \in exists
    /\ chain' = [chain EXCEPT ![cmd.on] = << >>]
    /\ UNCHANGED iprules

FailFlush ==
    /\ Fails
    /\ cmd.do = "ruleflush"
    /\ \E left \in SUBSET iprules[cmd.on] : iprules' = [iprules EXCEPT ![cmd.on] = left]
    /\ UNCHANGED chain

RunCommand ==
    \/ RunNewChain \/ RunAppend \/ RunInsert \/ RunInsertBeforeDrop \/ RunDelete
    \/ RunClear \/ RunWire \/ RunRule \/ RunMangle \/ RunVerify \/ RunField
    \/ FailCommand \/ FailClear \/ FailFlush

-----------------------------------------------------------------------------
(* Calls and returns: the order in which internal/app, internal/vpn,       *)
(* internal/dns and internal/portforward use the firewall.                 *)

Idle == op = "none" /\ phase \notin {"down", "clean"}

Call(name, script) ==
    /\ op' = name /\ todo' = script /\ err' = FALSE
    /\ UNCHANGED <<kernel, failures, crashes>>

Returns(name) ==
    /\ op = name /\ todo = << >>
    /\ op' = "none" /\ err' = FALSE
    /\ UNCHANGED <<kernel, fields, todo, armed, budgets>>

\* A process starts: firewall.New, then Setup, in initialize.
StartSetup ==
    /\ op = "none" /\ phase \in {"down", "clean"} /\ starts < MaxStarts
    /\ starts' = starts + 1
    /\ active' = FALSE /\ activePort' = NoPort
    /\ armed' = IF armed = "no" THEN "no" ELSE "rebuilding"
    /\ phase' = "boot"
    /\ Call("Setup", Setup)
    /\ UNCHANGED <<held, announced>>

\* An error of Setup ends the program without any cleanup.
SetupReturns ==
    /\ Returns("Setup")
    /\ phase' = IF err THEN "down" ELSE "boot"
    /\ UNCHANGED <<held, announced>>

\* tryAuth, resolveDIP, tryServerListIPs and addkey exempt one endpoint.
OpenExemption ==
    /\ Idle /\ phase = "connect" /\ held = {}
    /\ \E ep \in Endpoint :
          held' = {ep} /\ Call("Exempt", AddExemption(ep))
    /\ UNCHANGED <<fields, armed, starts, phase, announced>>

Batches == UNION {[1..n -> Endpoint] : n \in 1..MaxBatch}

\* Resolver.query, raceServers and captureRealIP exempt a batch.
OpenExemptions ==
    /\ Idle /\ phase \in {"boot", "resolved", "connect"} /\ held = {}
    /\ \E specs \in Batches :
          held' = ToSet(specs) /\ Call("Exempt", AddExemptions(specs))
    /\ phase' = IF phase = "resolved" THEN "fetch" ELSE phase
    /\ UNCHANGED <<fields, armed, starts, announced>>

\* Every caller but captureRealIP gives up on an error, and does not remove
\* what the failed call may have left behind.
ExemptReturns ==
    /\ Returns("Exempt")
    /\ held' = IF err /\ phase # "fetch" THEN {} ELSE held
    /\ UNCHANGED <<phase, announced>>

CloseExemptions ==
    /\ Idle /\ held # {}
    /\ Call("Unexempt", RemoveExemptions)
    /\ UNCHANGED <<fields, armed, starts, caller>>

\* The request under the exemption was answered, or was not.
UnexemptReturns ==
    /\ Returns("Unexempt")
    /\ held' = {}
    /\ \/ phase = "boot" /\ phase' \in {"boot", "resolved"}
       \/ phase = "fetch" /\ phase' = "connect"
       \/ phase = "connect" /\ phase' \in {"connect", "registered"}
    /\ UNCHANGED announced

BeginConnect ==
    /\ Idle /\ phase \in {"boot", "resolved"} /\ held = {}
    /\ phase' = "connect"
    /\ UNCHANGED <<kernel, fields, call, held, announced, armed, budgets>>

\* connect after wg.Up; the verification of the connection may still fail.
BeginRoutes ==
    /\ Idle /\ phase = "registered"
    /\ Call("DNSRoutes", IF PIAMode THEN AddPIADNSRoutes(PIADNS) ELSE << >>)
    /\ UNCHANGED <<fields, armed, starts, caller>>

RoutesReturn ==
    /\ Returns("DNSRoutes")
    /\ phase' \in IF err THEN {"connect"} ELSE {"connect", "services"}
    /\ UNCHANGED <<held, announced>>

BeginForward ==
    /\ Idle /\ phase = "services" /\ PFEnabled
    /\ Call("PFRoute", AddPFRoute(PFGateway))
    /\ UNCHANGED <<fields, armed, starts, caller>>

\* An error here is not ErrReconnect: the program exits, unless another service
\* has asked for a reconnect before or SIGTERM has arrived.
ForwardReturns ==
    /\ Returns("PFRoute")
    /\ phase' \in IF err THEN {"down", "connect", "shutdown"} ELSE {"forward"}
    /\ UNCHANGED <<held, announced>>

\* announcePort, after acquiring or renewing a port.
Announce ==
    /\ Idle /\ phase = "forward"
    /\ \E p \in Port :
          announced' = p /\ Call("AllowPort", AllowForwardedPort(activePort, p))
    /\ UNCHANGED <<fields, armed, starts, phase, held>>

AnnounceReturns ==
    /\ Returns("AllowPort")
    /\ UNCHANGED caller

BeginTeardown ==
    /\ Idle /\ phase = "forward"
    /\ announced' = NoPort
    /\ Call("Teardown", teardown(activePort))
    /\ UNCHANGED <<fields, armed, starts, phase, held>>

TeardownReturns ==
    /\ Returns("Teardown")
    /\ phase' \in {"connect", "shutdown"}
    /\ UNCHANGED <<held, announced>>

\* The services end in a reconnect or on SIGTERM, before portforward.Run has
\* added its route if it runs at all, or because it has no gateway to route.
LeaveServices ==
    /\ Idle /\ phase = "services"
    /\ phase' \in {"connect", "shutdown"}
    /\ UNCHANGED <<kernel, fields, call, held, announced, armed, budgets>>

BeginCleanup ==
    /\ Idle /\ phase = "shutdown"
    /\ armed' = "no"
    /\ Call("Cleanup", Cleanup)
    /\ UNCHANGED <<fields, starts, caller>>

CleanupReturns ==
    /\ Returns("Cleanup")
    /\ phase' = "clean"
    /\ UNCHANGED <<held, announced>>

Dies ==
    /\ phase' = "down" /\ held' = {} /\ announced' = NoPort
    /\ op' = "none" /\ todo' = << >> /\ err' = FALSE
    /\ UNCHANGED <<kernel, fields, armed, failures, starts>>

\* A fatal error, or SIGTERM outside the services: the killswitch stays.
ErrorExit ==
    /\ Idle /\ held = {} /\ announced = NoPort
    /\ phase \in {"boot", "resolved", "connect", "registered", "services", "forward"}
    /\ Dies /\ UNCHANGED crashes

\* The process is killed between two commands.
Crash ==
    /\ phase \notin {"down", "clean"} /\ crashes < MaxCrashes
    /\ crashes' = crashes + 1
    /\ Dies

Stopped ==
    /\ phase \in {"down", "clean"}
    /\ UNCHANGED vars

Progress ==
    \/ RunCommand
    \/ SetupReturns \/ ExemptReturns \/ UnexemptReturns \/ RoutesReturn
    \/ ForwardReturns \/ AnnounceReturns \/ TeardownReturns \/ CleanupReturns
    \/ OpenExemption \/ OpenExemptions \/ CloseExemptions
    \/ BeginConnect \/ BeginRoutes \/ BeginForward \/ Announce
    \/ BeginTeardown \/ LeaveServices \/ BeginCleanup

Next == Progress \/ StartSetup \/ ErrorExit \/ Crash \/ Stopped

Spec == Init /\ [][Next]_vars

\* The process keeps running: no step of it waits for another process.
FairSpec == Spec /\ WF_vars(Progress)

-----------------------------------------------------------------------------
(* Properties.                                                             *)

Destination == Address \cup {"gaithersburg", "fort_collins", PFGateway}
Args == {"-", NoPort} \cup Destination \cup Endpoint \cup Port
Kinds == {"none", "established", "lo", "drop", "jump", "fwmark", "pia0", "icmp6",
          "lan", "daytime", "endpoint", "tcp", "udp", "to", "port"}
Rules == [kind : Kinds, arg : Args]
CommandsOf(verbs, targets, rules) ==
    [do : verbs, on : targets, pos : Nat, rule : rules, onerr : {"return", "ignore"}]
Commands ==
    CommandsOf({"new", "append", "insert", "beforedrop", "delete", "clear"}, Chains, Rules)
    \cup CommandsOf({"wire", "unwire"}, BaseChains, Rules)
    \cup CommandsOf({"ruleadd", "ruledel", "ruleflush"}, Prio, Rules)
    \cup CommandsOf({"mssadd", "mssdel"}, MangleRules, Rules)
    \cup CommandsOf({"verify", "activate", "deactivate"}, {"-"}, Rules)
    \cup CommandsOf({"port"}, {"-"}, [kind : {"port"}, arg : Port])

\* Every variable has its type; in particular a method only ever has
\* well-formed commands left to run.
TypeOK ==
    /\ chain \in [Chains -> Seq(Rules)]
    /\ exists \subseteq Chains /\ wired \subseteq BaseChains
    /\ iprules \in [Prio -> SUBSET Args]
    /\ mangle \subseteq MangleRules
    /\ active \in BOOLEAN /\ activePort \in Port \cup {NoPort}
    /\ op \in Op /\ todo \in Seq(Commands) /\ err \in BOOLEAN
    /\ phase \in Phase /\ held \subseteq Endpoint
    /\ announced \in Port \cup {NoPort}
    /\ armed \in {"no", "yes", "rebuilding"}
    /\ failures \in 0..MaxFailures /\ crashes \in 0..MaxCrashes
    /\ starts \in 0..MaxStarts

Matches(r, pkt) ==
    \/ r = pkt
    \/ r = JumpExempt /\ pkt \in ToSet(chain[ChainExempt])

\* The kernel lets a packet through chain c: it never enters the chain, a
\* rule accepts it before any DROP, or it falls off the chain's end, where
\* the policy of INPUT and OUTPUT is ACCEPT.
Passes(c, pkt) ==
    \/ c \notin wired
    \/ ~chainHasDrop(c)
    \/ \E i \in DOMAIN chain[c] :
          /\ Matches(chain[c][i], pkt)
          /\ \A j \in 1..(i - 1) : chain[c][j] # Drop

\* Default-deny (docs/firewall.md): from the moment Setup has verified the
\* killswitch until Cleanup or the Setup of a later process begins, nothing
\* but what the configuration allows gets through any of the four chains,
\* whatever commands fail, at whatever command the process dies, and while
\* no process runs at all.
DefaultDeny ==
    armed = "yes" =>
        \A c \in BaseChains :
            \A pkt \in Packets :
                Passes(c, pkt) => pkt \in Policy(c)

\* Temporary exemptions: while the process runs, an endpoint gets through
\* only under the exemption scope that a caller holds open for it, even when
\* any one command of the program's life fails: RemoveExemptions ignores the
\* errors of its commands, but each of them alone is enough.  As long as none
\* has failed, an exemption that was granted works: it is reached before DROP,
\* also after a crash left rules of another behind.
ExemptionsExact ==
    armed = "yes" =>
        \A ep \in Endpoint :
            /\ phase # "down" /\ failures <= 1 /\ Passes(ChainOut, Exempt(ep)) => ep \in held
            /\ Idle /\ failures = 0 /\ ep \in held => Passes(ChainOut, Exempt(ep))

\* After AllowForwardedPort exactly the announced port is open, on TCP and
\* UDP, across renewals that change the port; after teardown none is.  Holds
\* as long as no command has failed.
ForwardedPortExact ==
    armed = "yes" /\ Idle /\ failures = 0 =>
        \A p \in Port, proto \in {"tcp", "udp"} :
            Passes(ChainIn, PortRule(proto, p)) <=> p = announced

\* While the services run in pia mode every PIA DNS server has its route
\* through the tunnel and the guard behind it, even when commands failed on
\* the way; port forwarding starting and stopping does not disturb them.
TunnelDNSGuarded ==
    PIAMode /\ phase \in {"services", "forward"} =>
        ToSet(PIADNS) \subseteq iprules["guard76"] \cap iprules["pia75"]

\* A clean shutdown leaves nothing of the program in the kernel, nothing of
\* an earlier process that crashed either, as long as no command has failed.
CleanExitRemovesAll ==
    phase = "clean" /\ failures = 0 =>
        /\ exists = {} /\ wired = {} /\ mangle = {}
        /\ \A p \in Prio : iprules[p] = {}

\* Something undesired gets through chain c.
Leaks(c) == \E pkt \in Packets \ Policy(c) : Passes(c, pkt)

Down == phase \in {"down", "clean"}

\* The killswitch as its users see it.
KS == INSTANCE Killswitch WITH
    Traffic <- BaseChains,
    proc <- IF Down THEN "none"
            ELSE IF op = "Setup" /\ armed # "yes" THEN "starting"
            ELSE IF op = "Cleanup" THEN "stopping" ELSE "running",
    asked <- phase = "shutdown",
    mode <- IF armed = "yes" THEN "closed" ELSE IF op = "Setup" THEN "building" ELSE "open",
    leak <- {c \in BaseChains : Leaks(c)}

\* The scripts of iptables commands implement the killswitch: between the
\* verification of Setup and a Cleanup that SIGTERM asked for no step lets
\* anything undesired through, a process that goes on after Setup has closed
\* it, and one that dies or gives up leaves it as it is.
ImplementsKillswitch == KS!Spec

\* retryWithWANCheck promises to retry "until it succeeds": a connection
\* attempt that needs an exemption gets it, unless the program exits.
ExemptionGranted ==
    (phase = "connect" /\ held = {}) ~> ((Idle /\ held # {}) \/ phase = "down")
=============================================================================
