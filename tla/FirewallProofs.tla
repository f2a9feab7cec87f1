--------------------------- MODULE FirewallProofs ---------------------------
(***************************************************************************)
(* Proofs about Firewall, for every configuration, every number of command *)
(* failures, crashes and restarts.                                         *)
(*                                                                         *)
(* The first part knows of a script only which commands may be in it:      *)
(* types, default-deny, and that the commands implement Killswitch.  The   *)
(* second, from "The order of Setup" on, knows how far each script has     *)
(* come: DNS stays guarded, a clean exit removes everything, exemptions    *)
(* and the forwarded port are exactly those that are asked for.            *)
(***************************************************************************)
EXTENDS Firewall, SequenceTheorems, TLAPS

-----------------------------------------------------------------------------
(* What a script may contain.                                              *)

\* The rules a chain may ever hold: endpoints are only exempted in their own chain.
Allowed(c) ==
    IF c = ChainExempt THEN Endpoints
    ELSE (Policy(c) \ Endpoints) \cup {Drop} \cup (IF c = ChainOut THEN {JumpExempt} ELSE {})

Adds == {"append", "insert", "beforedrop"}

\* Commands that add no rule outside the policy.
Legal == {c \in Commands : c.do \in Adds => c.rule \in Allowed(c.on)}

\* The legal commands that are not the verification of the killswitch.
Quiet == {c \in Legal : c.do # "verify"}

\* The commands that may run while the killswitch is up: they take neither a
\* base chain out of INPUT or OUTPUT, nor the DROP rule out of a base chain.
Safe == {c \in Quiet : /\ c.do \in {"clear", "unwire"} => c.on \notin BaseChains
                       /\ c.do = "delete" => c.rule # Drop}

\* Sequences over a set are sequences over any larger set.
LEMMA SeqMonotone ==
    ASSUME NEW S, NEW T, S \subseteq T
    PROVE  Seq(S) \subseteq Seq(T)
OBVIOUS

\* A sequence whose elements all lie in T is a sequence over T.
LEMMA SeqElements ==
    ASSUME NEW S, NEW T, NEW s \in Seq(S), \A i \in 1..Len(s) : s[i] \in T
    PROVE  s \in Seq(T)
OBVIOUS

\* Concatenation keeps the set of elements.
LEMMA SeqConcat ==
    ASSUME NEW S, NEW s \in Seq(S), NEW t \in Seq(S)
    PROVE  s \o t \in Seq(S)
OBVIOUS

\* The three classes of commands are nested, and so are the scripts made of them.
LEMMA Inclusions ==
    /\ Safe \subseteq Quiet /\ Quiet \subseteq Legal /\ Legal \subseteq Commands
    /\ Seq(Safe) \subseteq Seq(Quiet) /\ Seq(Quiet) \subseteq Seq(Legal)
    /\ Seq(Legal) \subseteq Seq(Commands)
<1>1. Safe \subseteq Quiet /\ Quiet \subseteq Legal /\ Legal \subseteq Commands
  BY DEF Safe, Quiet, Legal
<1>2. QED BY <1>1, SeqMonotone

-----------------------------------------------------------------------------
(* The commands.                                                           *)

\* The constructor of rules returns a rule with the kind and argument given.
LEMMA RuleType ==
    ASSUME NEW k \in Kinds, NEW a \in Args
    PROVE  Rule(k, a) \in Rules /\ Rule(k, a).kind = k /\ Rule(k, a).arg = a
BY DEF Rule, Rules

\* Every rule the package installs is a rule.
LEMMA RuleTypes ==
    /\ {NoRule, Established, Loopback, Drop, JumpExempt, Fwmark, Iface, Icmp6} \subseteq Rules
    /\ \A a \in Address : Lan(a) \in Rules
    /\ \A i \in 1..2 : WanCheck(WANCheckIPs[i]) \in Rules
    /\ \A ep \in Endpoint : Exempt(ep) \in Rules
    /\ \A p \in Port, proto \in {"tcp", "udp"} : PortRule(proto, p) \in Rules
    /\ \A d \in Destination : Rule("to", d) \in Rules
<1> USE RuleType DEF Kinds, Args
<1>1. {NoRule, Established, Loopback, Drop, JumpExempt, Fwmark, Iface, Icmp6} \subseteq Rules
  BY DEF NoRule, Established, Loopback, Drop, JumpExempt, Fwmark, Iface, Icmp6
<1>2. \A a \in Address : Lan(a) \in Rules
  BY DEF Lan, Destination
<1>3. \A i \in 1..2 : WanCheck(WANCheckIPs[i]) \in Rules
  BY DEF WanCheck, Destination, WANCheckIPs
<1>4. \A ep \in Endpoint : Exempt(ep) \in Rules
  BY DEF Exempt
<1>5. \A p \in Port, proto \in {"tcp", "udp"} : PortRule(proto, p) \in Rules
  BY DEF PortRule
<1>6. \A d \in Destination : Rule("to", d) \in Rules
  OBVIOUS
<1>7. QED BY <1>1, <1>2, <1>3, <1>4, <1>5, <1>6

\* The class of each command that adds no rule to a chain.
LEMMA KernelCommands ==
    /\ \A c \in Chains : NewChain(c) \in Safe /\ ClearAndDeleteChain(c) \in Quiet
    /\ \A c \in BaseChains : InsertJump(c) \in Safe /\ DeleteJump(c) \in Quiet
    /\ ClearAndDeleteChain(ChainExempt) \in Safe
    /\ \A c \in Chains, r \in Rules : r # Drop => Delete(c, r) \in Safe
    /\ \A p \in Prio : RuleFlush(p) \in Safe
    /\ \A p \in Prio, d \in Destination : RuleAdd(p, d) \in Safe /\ RuleDel(p, d) \in Safe
    /\ \A m \in MangleRules : MangleAppend(m) \in Safe /\ MangleDelete(m) \in Safe
    /\ Verify \in Legal
    /\ Activate \in Safe /\ Deactivate \in Safe
    /\ \A p \in Port : SetActivePort(p) \in Safe
<1> USE RuleTypes DEF Safe, Quiet, Legal, Commands, CommandsOf, Command, Adds
<1>1. \A c \in Chains : NewChain(c) \in Safe /\ ClearAndDeleteChain(c) \in Quiet
  BY DEF NewChain, ClearAndDeleteChain
<1>2. \A c \in BaseChains : InsertJump(c) \in Safe /\ DeleteJump(c) \in Quiet
  BY DEF InsertJump, DeleteJump
<1>3. ClearAndDeleteChain(ChainExempt) \in Safe
  BY DEF ClearAndDeleteChain, Chains, BaseChains, ChainExempt, ChainIn, ChainOut, ChainIn6, ChainOut6
<1>4. \A c \in Chains, r \in Rules : r # Drop => Delete(c, r) \in Safe
  BY DEF Delete
<1>5. \A p \in Prio : RuleFlush(p) \in Safe
  BY DEF RuleFlush
<1>6. \A p \in Prio, d \in Destination : RuleAdd(p, d) \in Safe /\ RuleDel(p, d) \in Safe
  BY DEF RuleAdd, RuleDel
<1>7. \A m \in MangleRules : MangleAppend(m) \in Safe /\ MangleDelete(m) \in Safe
  BY DEF MangleAppend, MangleDelete
<1>8. Verify \in Legal
  BY DEF Verify
<1>9. Activate \in Safe /\ Deactivate \in Safe
  BY DEF Activate, Deactivate
<1>10. \A p \in Port : SetActivePort(p) \in Safe
  BY DEF SetActivePort, Rule
<1>11. QED BY <1>1, <1>2, <1>3, <1>4, <1>5, <1>6, <1>7, <1>8, <1>9, <1>10

\* A command that adds an allowed rule is safe, whichever way it adds it.
LEMMA AddingCommands ==
    ASSUME NEW c \in Chains, NEW r \in Rules, r \in Allowed(c), NEW onerr \in {"return", "ignore"},
           NEW pos \in Nat
    PROVE  /\ Append_(c, r, onerr) \in Safe
           /\ Insert(c, pos, r, onerr) \in Safe
           /\ insertBeforeDrop(c, r) \in Safe
BY DEF Append_, Insert, insertBeforeDrop, Safe, Quiet, Legal, Commands, CommandsOf,
       Command, Adds

\* Every rule the package adds is one the policy of its chain allows.
LEMMA AllowedRules ==
    /\ \A c \in BaseChains : {Established, Loopback, Drop} \subseteq Allowed(c)
    /\ {Fwmark, Iface, JumpExempt} \subseteq Allowed(ChainOut)
    /\ \A i \in 1..2 : WanCheck(WANCheckIPs[i]) \in Allowed(ChainOut)
    /\ Iface \in Allowed(ChainOut6)
    /\ Icmp6 \in Allowed(ChainIn6) /\ Icmp6 \in Allowed(ChainOut6)
    /\ \A i \in 1..Len(Lan4) : Lan(Lan4[i]) \in Allowed(ChainIn) \cap Allowed(ChainOut)
    /\ \A i \in 1..Len(Lan6) : Lan(Lan6[i]) \in Allowed(ChainIn6) \cap Allowed(ChainOut6)
    /\ \A ep \in Endpoint : Exempt(ep) \in Allowed(ChainExempt)
    /\ \A p \in Port, proto \in {"tcp", "udp"} : PortRule(proto, p) \in Allowed(ChainIn)
<1>0. /\ \A r \in {Established, Loopback, Fwmark, Iface, Icmp6} : r \notin Endpoints
      /\ \A a : Lan(a) \notin Endpoints /\ WanCheck(a) \notin Endpoints
      /\ \A p : PortRule("tcp", p) \notin Endpoints /\ PortRule("udp", p) \notin Endpoints
  <2>1. \A r \in Endpoints : r.kind = "endpoint"
    BY DEF Endpoints, Exempt, Rule
  <2>2. \A r \in {Established, Loopback, Fwmark, Iface, Icmp6} : r.kind # "endpoint"
    BY DEF Established, Loopback, Fwmark, Iface, Icmp6, Rule
  <2>3. \A a : /\ Lan(a).kind = "lan" /\ WanCheck(a).kind = "daytime"
               /\ PortRule("tcp", a).kind = "tcp" /\ PortRule("udp", a).kind = "udp"
    BY DEF Lan, WanCheck, PortRule, Rule
  <2>4. QED BY <2>1, <2>2, <2>3
<1> USE <1>0, ConfigAssumption DEF Allowed, Policy, ToSet, ConfigAssumption
<1> USE DEF BaseChains, ChainExempt, ChainIn, ChainOut, ChainIn6, ChainOut6
<1>1. \A c \in BaseChains : {Established, Loopback, Drop} \subseteq Allowed(c)
  OBVIOUS
<1>2. {Fwmark, Iface, JumpExempt} \subseteq Allowed(ChainOut)
  OBVIOUS
<1>3. \A i \in 1..2 : WanCheck(WANCheckIPs[i]) \in Allowed(ChainOut)
  BY DEF WANCheckIPs
<1>4. Iface \in Allowed(ChainOut6) /\ Icmp6 \in Allowed(ChainIn6) /\ Icmp6 \in Allowed(ChainOut6)
  OBVIOUS
<1>5. \A i \in 1..Len(Lan4) : Lan(Lan4[i]) \in Allowed(ChainIn) \cap Allowed(ChainOut)
  OBVIOUS
<1>6. ASSUME NEW i \in 1..Len(Lan6) PROVE Lan(Lan6[i]) \in Allowed(ChainIn6) \cap Allowed(ChainOut6)
  OBVIOUS
<1>7. \A ep \in Endpoint : Exempt(ep) \in Allowed(ChainExempt)
  BY DEF Endpoints
<1>8. \A p \in Port, proto \in {"tcp", "udp"} : PortRule(proto, p) \in Allowed(ChainIn)
  BY DEF PortRules
<1>9. QED BY <1>1, <1>2, <1>3, <1>4, <1>5, <1>6, <1>7, <1>8

-----------------------------------------------------------------------------
(* The scripts.                                                            *)

\* Which of the names are base chains; the exemption chain is not one of them.
LEMMA ChainNames ==
    /\ ChainIn \in BaseChains /\ ChainOut \in BaseChains
    /\ ChainIn6 \in BaseChains /\ ChainOut6 \in BaseChains
    /\ BaseChains \subseteq Chains /\ ChainExempt \in Chains
    /\ ChainExempt \notin BaseChains
BY DEF BaseChains, Chains, ChainIn, ChainOut, ChainIn6, ChainOut6, ChainExempt

\* The baseline of one chain (new, ESTABLISHED, lo, DROP, jump) is safe.
LEMMA BaselineSafe ==
    ASSUME NEW c \in BaseChains
    PROVE  Baseline(c) \in Seq(Safe)
<1>1. NewChain(c) \in Safe /\ InsertJump(c) \in Safe
  BY KernelCommands, ChainNames
<1>2. /\ Append_(c, Established, "return") \in Safe /\ Append_(c, Loopback, "return") \in Safe
      /\ Append_(c, Drop, "return") \in Safe
  BY AddingCommands, AllowedRules, RuleTypes, ChainNames
<1>3. QED BY <1>1, <1>2 DEF Baseline

\* Adding ip rules touches no chain.
LEMMA RuleAddsSafe ==
    ASSUME NEW prio \in Prio, NEW dests \in Seq(Destination)
    PROVE  RuleAdds(prio, dests) \in Seq(Safe)
BY KernelCommands DEF RuleAdds

\* insertBeforeDrop for each local network, in both directions, is safe.
LEMMA LocalRulesSafe ==
    ASSUME NEW nets \in Seq(Address), NEW in \in BaseChains, NEW out \in BaseChains,
           \A i \in 1..Len(nets) : Lan(nets[i]) \in Allowed(in) \cap Allowed(out)
    PROVE  localRules(nets, in, out) \in Seq(Safe)
<1>1. ASSUME NEW i \in 1..(2 * Len(nets))
      PROVE  insertBeforeDrop(IF i % 2 = 1 THEN in ELSE out, Lan(nets[(i + 1) \div 2])) \in Safe
  <2>1. (i + 1) \div 2 \in 1..Len(nets)
    OBVIOUS
  <2>2. Lan(nets[(i + 1) \div 2]) \in Rules
    BY <2>1, RuleTypes
  <2>3. QED BY <2>1, <2>2, AddingCommands, ChainNames
<1>2. QED BY <1>1 DEF localRules

\* The guard and tunnel routes of the PIA DNS servers touch no chain.
LEMMA DNSRoutesSafe ==
    ASSUME NEW dns \in Seq(Address)
    PROVE  AddPIADNSRoutes(dns) \in Seq(Safe)
<1>1. ASSUME NEW i \in 1..(2 * Len(dns))
      PROVE  RuleAdd(IF i % 2 = 1 THEN "guard76" ELSE "pia75", dns[(i + 1) \div 2]) \in Safe
  <2>1. (i + 1) \div 2 \in 1..Len(dns)
    OBVIOUS
  <2>2. dns[(i + 1) \div 2] \in Destination
    BY <2>1 DEF Destination
  <2>3. QED BY <2>2, KernelCommands DEF Prio
<1>2. [i \in 1..(2 * Len(dns)) |->
          RuleAdd(IF i % 2 = 1 THEN "guard76" ELSE "pia75", dns[(i + 1) \div 2])] \in Seq(Safe)
  BY <1>1
<1>3. RemovePIARoutes \in Seq(Safe)
  BY KernelCommands DEF RemovePIARoutes, Prio
<1>4. QED BY <1>2, <1>3, SeqConcat DEF AddPIADNSRoutes

\* Opening and closing exemptions is safe: no DROP is removed, and only exempted endpoints are added.
LEMMA ExemptionScriptsSafe ==
    /\ \A ep \in Endpoint : AddExemption(ep) \in Seq(Safe)
    /\ \A specs \in Seq(Endpoint) : AddExemptions(specs) \in Seq(Safe)
    /\ RemoveExemptions \in Seq(Safe)
<1>1. createExemptChain \in Seq(Safe)
  <2>1. NewChain(ChainExempt) \in Safe
    BY KernelCommands, ChainNames
  <2>2. Insert(ChainOut, 1, JumpExempt, "ignore") \in Safe
    BY AddingCommands, AllowedRules, RuleTypes, ChainNames
  <2>3. QED BY <2>1, <2>2 DEF createExemptChain
<1>2. \A ep \in Endpoint, onerr \in {"return", "ignore"} : Append_(ChainExempt, Exempt(ep), onerr) \in Safe
  BY AddingCommands, AllowedRules, RuleTypes, ChainNames
<1>3. \A ep \in Endpoint : << Append_(ChainExempt, Exempt(ep), "return") >> \in Seq(Safe)
  BY <1>2
<1>4. ASSUME NEW specs \in Seq(Endpoint)
      PROVE  [i \in 1..Len(specs) |-> Append_(ChainExempt, Exempt(specs[i]), "ignore")] \in Seq(Safe)
  BY <1>2
<1>5. RemoveExemptions \in Seq(Safe)
  <2>1. JumpExempt # Drop
    BY RuleType DEF JumpExempt, Drop, Kinds, Args
  <2>2. QED BY <2>1, KernelCommands, RuleTypes, ChainNames DEF RemoveExemptions
<1>6. QED BY <1>1, <1>3, <1>4, <1>5, SeqConcat DEF AddExemption, AddExemptions

\* Opening, replacing and tearing down a forwarded port is safe.
LEMMA PortScriptsSafe ==
    ASSUME NEW old \in Port \cup {NoPort}
    PROVE  /\ \A p \in Port : AllowForwardedPort(old, p) \in Seq(Safe)
           /\ teardown(old) \in Seq(Safe)
           /\ AddPFRoute(PFGateway) \in Seq(Safe)
           /\ RemoveForwardedPort(old) \in Seq(Safe)
<1>1. RemoveForwardedPort(old) \in Seq(Safe)
  <2>1. CASE old = NoPort
    BY <2>1 DEF RemoveForwardedPort
  <2>2. CASE old # NoPort
    <3>1. \A proto \in {"tcp", "udp"} : PortRule(proto, old) # Drop
      BY DEF PortRule, Drop, Rule
    <3>2. \A proto \in {"tcp", "udp"} : Delete(ChainIn, PortRule(proto, old)) \in Safe
      BY <2>2, <3>1, KernelCommands, RuleTypes, ChainNames
    <3>3. QED BY <2>2, <3>2 DEF RemoveForwardedPort
  <2>3. QED BY <2>1, <2>2
<1>2. ASSUME NEW p \in Port
      PROVE  << Insert(ChainIn, 3, PortRule("tcp", p), "return"),
                Insert(ChainIn, 3, PortRule("udp", p), "return"), SetActivePort(p) >> \in Seq(Safe)
  <2>1. \A proto \in {"tcp", "udp"} : Insert(ChainIn, 3, PortRule(proto, p), "return") \in Safe
    BY AddingCommands, AllowedRules, RuleTypes, ChainNames
  <2>2. QED BY <2>1, KernelCommands
<1>3. RemovePFRoute(PFGateway) \in Seq(Safe) /\ AddPFRoute(PFGateway) \in Seq(Safe)
  BY KernelCommands DEF RemovePFRoute, AddPFRoute, Prio, Destination
<1>4. QED BY <1>1, <1>2, <1>3, SeqConcat DEF AllowForwardedPort, teardown

\* The routing and MSS scripts touch no chain.
LEMMA RoutingScriptsSafe ==
    /\ RemovePIARoutes \in Seq(Safe) /\ cleanupLocalRoutes \in Seq(Safe)
    /\ cleanupBypassRoutes \in Seq(Safe) /\ cleanupMSSClamping \in Seq(Safe)
    /\ setupMSSClamping \in Seq(Safe)
<1>1. /\ RemovePIARoutes \in Seq(Safe) /\ cleanupLocalRoutes \in Seq(Safe)
      /\ cleanupBypassRoutes \in Seq(Safe)
  BY KernelCommands DEF RemovePIARoutes, cleanupLocalRoutes, cleanupBypassRoutes, Prio
<1>2. cleanupMSSClamping \in Seq(Safe)
  BY KernelCommands DEF cleanupMSSClamping, MangleRules
<1>3. /\ << MangleAppend("forward4"), MangleAppend("output4") >> \in Seq(Safe)
      /\ << MangleAppend("forward6"), MangleAppend("output6") >> \in Seq(Safe)
      /\ << >> \in Seq(Safe)
  BY KernelCommands DEF MangleRules
<1>4. QED BY <1>1, <1>2, <1>3, SeqConcat DEF setupMSSClamping

\* cleanupChains may remove DROP, so it is not safe, but it verifies nothing.
LEMMA CleanupChainsQuiet == cleanupChains \in Seq(Quiet)
BY KernelCommands, ChainNames DEF cleanupChains

\* Cleanup claims nothing verified.
LEMMA CleanupQuiet == Cleanup \in Seq(Quiet)
<1>1. /\ << Deactivate >> \in Seq(Quiet)
      /\ RemovePIARoutes \in Seq(Quiet) /\ cleanupLocalRoutes \in Seq(Quiet)
      /\ cleanupBypassRoutes \in Seq(Quiet) /\ cleanupMSSClamping \in Seq(Quiet)
      /\ RemoveExemptions \in Seq(Quiet) /\ cleanupChains \in Seq(Quiet)
  BY KernelCommands, RoutingScriptsSafe, ExemptionScriptsSafe, CleanupChainsQuiet, Inclusions
<1>2. QED BY <1>1, SeqConcat DEF Cleanup

\* Setup is a body without a verification, the verification, and active.
SetupBody ==
    setupBaselineChains \o (IF LocalNets THEN setupLocalNetworks ELSE << >>)
        \o addVPN \o setupBypass \o setupIPv6 \o setupMSSClamping

\* Setup claims nothing verified before its last check.
LEMMA SetupBodyQuiet == SetupBody \in Seq(Quiet)
<1>1. setupBaselineChains \in Seq(Quiet)
  <2>1. \A c \in BaseChains : Baseline(c) \in Seq(Quiet)
    BY BaselineSafe, Inclusions
  <2>2. QED BY <2>1, CleanupChainsQuiet, SeqConcat, ChainNames DEF setupBaselineChains
<1>2. setupLocalNetworks \in Seq(Safe)
  <2>1. Lan4 \in Seq(Address) /\ Lan6 \in Seq(Address)
    BY ConfigAssumption DEF ConfigAssumption
  <2>2. Lan4 \in Seq(Destination) /\ Lan6 \in Seq(Destination)
    BY <2>1, SeqMonotone DEF Destination
  <2>3. RuleAdds("local100", Lan4) \in Seq(Safe) /\ RuleAdds("local100v6", Lan6) \in Seq(Safe)
    BY <2>2, RuleAddsSafe DEF Prio
  <2>4. setupLocalRoutes \in Seq(Safe)
    BY <2>3, RoutingScriptsSafe, SeqConcat DEF setupLocalRoutes
  <2>5. localRules(Lan4, ChainIn, ChainOut) \in Seq(Safe)
    BY <2>1, LocalRulesSafe, AllowedRules, ChainNames
  <2>6. localRules(Lan6, ChainIn6, ChainOut6) \in Seq(Safe)
    BY <2>1, LocalRulesSafe, AllowedRules, ChainNames
  <2>7. setupLocalRules \in Seq(Safe)
    BY <2>5, <2>6, SeqConcat DEF setupLocalRules
  <2>8. QED BY <2>4, <2>7, SeqConcat DEF setupLocalNetworks
<1>3. addVPN \in Seq(Safe)
  <2>1. /\ Insert(ChainOut, 3, Fwmark, "return") \in Safe
        /\ Insert(ChainOut, 3, Iface, "return") \in Safe
        /\ Insert(ChainOut6, 3, Iface, "return") \in Safe
    BY AddingCommands, AllowedRules, RuleTypes, ChainNames
  <2>2. /\ << Insert(ChainOut, 3, Fwmark, "return"), Insert(ChainOut, 3, Iface, "return") >> \in Seq(Safe)
        /\ << Insert(ChainOut6, 3, Iface, "return") >> \in Seq(Safe)
        /\ << >> \in Seq(Safe)
    BY <2>1
  <2>3. QED BY <2>2, SeqConcat DEF addVPN
<1>4. setupBypass \in Seq(Safe)
  <2>1. WANCheckIPs \in Seq(Destination) /\ Len(WANCheckIPs) = 2
    BY DEF WANCheckIPs, Destination
  <2>2. \A i \in 1..2 : insertBeforeDrop(ChainOut, WanCheck(WANCheckIPs[i])) \in Safe
    BY AddingCommands, AllowedRules, RuleTypes, ChainNames
  <2>3. insertBypassRules \in Seq(Safe)
    BY <2>1, <2>2 DEF insertBypassRules
  <2>4. RuleAdds("bypass50", WANCheckIPs) \in Seq(Safe)
    BY <2>1, RuleAddsSafe DEF Prio
  <2>5. QED BY <2>3, <2>4, RoutingScriptsSafe, SeqConcat DEF setupBypass
<1>5. setupIPv6 \in Seq(Safe)
  <2>1. insertBeforeDrop(ChainIn6, Icmp6) \in Safe /\ insertBeforeDrop(ChainOut6, Icmp6) \in Safe
    BY AddingCommands, AllowedRules, RuleTypes, ChainNames
  <2>2. QED BY <2>1 DEF setupIPv6
<1>6. (IF LocalNets THEN setupLocalNetworks ELSE << >>) \in Seq(Quiet)
  BY <1>2, Inclusions
<1>7. /\ addVPN \in Seq(Quiet) /\ setupBypass \in Seq(Quiet)
      /\ setupIPv6 \in Seq(Quiet) /\ setupMSSClamping \in Seq(Quiet)
  BY <1>3, <1>4, <1>5, RoutingScriptsSafe, Inclusions
<1>8. QED BY <1>1, <1>6, <1>7, SeqConcat DEF SetupBody

\* Whatever a script has left after a verification is safe.
VerifiedThenSafe(s) ==
    \A i, j \in DOMAIN s : s[i].do = "verify" /\ i < j => s[j] \in Safe

\* A quiet script has no verification that an unsafe command could follow.
LEMMA QuietVerified ==
    ASSUME NEW s \in Seq(Quiet)
    PROVE  s \in Seq(Legal) /\ VerifiedThenSafe(s)
<1>1. \A i \in DOMAIN s : s[i].do # "verify"
  BY DEF Quiet
<1>2. QED BY <1>1, Inclusions DEF VerifiedThenSafe

\* In Setup only safe commands follow the verification.
LEMMA SetupLegal == Setup \in Seq(Legal) /\ VerifiedThenSafe(Setup)
<1>1. SetupBody \in Seq(Quiet) /\ SetupBody \in Seq(Legal)
  BY SetupBodyQuiet, QuietVerified
<1>2. Verify \in Legal /\ Activate \in Legal /\ Activate \in Safe
  BY KernelCommands, Inclusions
<1> DEFINE tail == << Verify, Activate >>
<1>3. Setup = SetupBody \o tail
  BY DEF Setup, SetupBody
<1>4. tail \in Seq(Legal) /\ Len(tail) = 2 /\ tail[1] = Verify /\ tail[2] = Activate
  BY <1>2
<1> HIDE DEF tail
<1>5. Setup \in Seq(Legal)
  BY <1>1, <1>3, <1>4, SeqConcat
<1>6. ASSUME NEW i \in DOMAIN Setup, NEW j \in DOMAIN Setup, Setup[i].do = "verify", i < j
      PROVE  Setup[j] \in Safe
  <2>a. Len(SetupBody \o tail) = Len(SetupBody) + Len(tail)
    BY <1>1, <1>4, ConcatProperties
  <2>b. DOMAIN Setup = 1..Len(Setup)
    BY <1>5
  <2>1. Len(Setup) = Len(SetupBody) + 2 /\ DOMAIN Setup = 1..Len(Setup)
    BY <2>a, <2>b, <1>3, <1>4
  <2>2. \A k \in 1..Len(SetupBody) : Setup[k] = SetupBody[k] /\ SetupBody[k] \in Quiet
    BY <1>1, <1>3, <1>4
  <2>3. i > Len(SetupBody)
    BY <2>1, <2>2, <1>6, <1>1 DEF Quiet
  <2>4. j = Len(SetupBody) + 2
    BY <2>1, <2>3, <1>6, <1>1
  <2>5. Setup[j] = tail[2]
    BY <2>4, <1>1, <1>3, <1>4
  <2>6. QED BY <2>5, <1>4, <1>2
<1>7. QED BY <1>5, <1>6 DEF VerifiedThenSafe

-----------------------------------------------------------------------------
(* Type correctness.                                                       *)

\* InsertAt keeps the type of a chain and every rule that was in it.
LEMMA InsertAtType ==
    ASSUME NEW S, NEW s \in Seq(S), NEW e \in S, NEW i \in 1..(Len(s) + 1)
    PROVE  /\ InsertAt(s, i, e) \in Seq(S)
           /\ \A k \in DOMAIN s : \E m \in DOMAIN InsertAt(s, i, e) : InsertAt(s, i, e)[m] = s[k]
<1> DEFINE a == SubSeq(s, 1, i - 1)
           b == SubSeq(s, i, Len(s))
<1>1. /\ a \in Seq(S) /\ Len(a) = i - 1
      /\ \A k \in 1..(i - 1) : a[k] = s[k]
  BY SubSeqProperties
<1>2. /\ b \in Seq(S) /\ Len(b) = Len(s) - i + 1
      /\ \A k \in 1..Len(b) : b[k] = s[i + k - 1]
  BY SubSeqProperties
<1> HIDE DEF a, b
<1>3. << e >> \in Seq(S) /\ Len(<< e >>) = 1
  OBVIOUS
<1> DEFINE ae == a \o << e >>
<1>4. /\ ae \in Seq(S) /\ Len(ae) = i
      /\ \A k \in 1..(i - 1) : ae[k] = s[k]
  BY <1>1, <1>3, ConcatProperties
<1> HIDE DEF ae
<1> DEFINE r == ae \o b
<1>a. /\ r \in Seq(S) /\ Len(r) = Len(ae) + Len(b)
      /\ \A k \in 1..(Len(ae) + Len(b)) : r[k] = IF k <= Len(ae) THEN ae[k] ELSE b[k - Len(ae)]
  BY <1>2, <1>4, ConcatProperties
<1>5. /\ r \in Seq(S) /\ Len(r) = Len(s) + 1
      /\ \A k \in 1..Len(r) : r[k] = IF k <= i THEN ae[k] ELSE b[k - i]
  <2> HIDE DEF r
  <2>1. QED BY <1>a, <1>2, <1>4
<1>6. InsertAt(s, i, e) = r
  BY DEF InsertAt, a, b, ae, r
<1> HIDE DEF r
<1>7. ASSUME NEW k \in DOMAIN s PROVE \E m \in DOMAIN r : r[m] = s[k]
  <2>1. CASE k < i
    <3>1. k \in DOMAIN r /\ r[k] = s[k]
      BY <2>1, <1>4, <1>5
    <3>2. QED BY <3>1
  <2>2. CASE k >= i
    <3>1. k + 1 \in DOMAIN r /\ r[k + 1] = b[k + 1 - i]
      BY <2>2, <1>5
    <3>2. b[k + 1 - i] = s[k]
      BY <2>2, <1>2
    <3>3. QED BY <3>1, <3>2
  <2>3. QED BY <2>1, <2>2
<1>8. QED BY <1>5, <1>6, <1>7

\* RemoveAt keeps the type of a chain and every rule but the one removed.
LEMMA RemoveAtType ==
    ASSUME NEW S, NEW s \in Seq(S), NEW i \in DOMAIN s
    PROVE  /\ RemoveAt(s, i) \in Seq(S)
           /\ \A k \in DOMAIN s \ {i} :
                 \E m \in DOMAIN RemoveAt(s, i) : RemoveAt(s, i)[m] = s[k]
<1> DEFINE a == SubSeq(s, 1, i - 1)
           b == SubSeq(s, i + 1, Len(s))
           r == a \o b
<1>1. /\ a \in Seq(S) /\ Len(a) = i - 1
      /\ \A k \in 1..(i - 1) : a[k] = s[k]
  BY SubSeqProperties
<1>2. /\ b \in Seq(S) /\ Len(b) = Len(s) - i
      /\ \A k \in 1..Len(b) : b[k] = s[i + k]
  BY SubSeqProperties
<1> HIDE DEF a, b
<1>3. /\ r \in Seq(S) /\ Len(r) = Len(s) - 1
      /\ \A k \in 1..Len(r) : r[k] = IF k <= i - 1 THEN a[k] ELSE b[k - i + 1]
  BY <1>1, <1>2, ConcatProperties
<1>4. RemoveAt(s, i) = r
  BY DEF RemoveAt, a, b, r
<1> HIDE DEF r
<1>5. ASSUME NEW k \in DOMAIN s \ {i} PROVE \E m \in DOMAIN r : r[m] = s[k]
  <2>1. CASE k < i
    <3>1. k \in DOMAIN r /\ r[k] = s[k]
      BY <2>1, <1>1, <1>3
    <3>2. QED BY <3>1
  <2>2. CASE k > i
    <3>1. k - 1 \in DOMAIN r /\ r[k - 1] = b[k - i]
      BY <2>2, <1>3
    <3>2. b[k - i] = s[k]
      BY <2>2, <1>2
    <3>3. QED BY <3>1, <3>2
  <2>3. QED BY <2>1, <2>2
<1>6. QED BY <1>3, <1>4, <1>5

\* The script of every method is a sequence of commands.
LEMMA ScriptTypes ==
    /\ Setup \in Seq(Commands) /\ Cleanup \in Seq(Commands)
    /\ RemoveExemptions \in Seq(Commands)
    /\ \A ep \in Endpoint : AddExemption(ep) \in Seq(Commands)
    /\ \A specs \in Batches : AddExemptions(specs) \in Seq(Commands) /\ specs \in Seq(Endpoint)
    /\ AddPIADNSRoutes(PIADNS) \in Seq(Commands) /\ << >> \in Seq(Commands)
    /\ AddPFRoute(PFGateway) \in Seq(Commands)
    /\ \A old \in Port \cup {NoPort} :
          /\ teardown(old) \in Seq(Commands)
          /\ \A p \in Port : AllowForwardedPort(old, p) \in Seq(Commands)
<1>1. Seq(Safe) \subseteq Seq(Commands) /\ Seq(Quiet) \subseteq Seq(Commands)
  BY Inclusions
<1>2. \A specs \in Batches : specs \in Seq(Endpoint)
  BY BoundAssumption DEF Batches, BoundAssumption
<1>3. PIADNS \in Seq(Address)
  BY ConfigAssumption DEF ConfigAssumption
<1>4. Setup \in Seq(Commands) /\ Cleanup \in Seq(Commands)
  BY <1>1, SetupLegal, CleanupQuiet, Inclusions
<1>5. << >> \in Seq(Commands)
  BY EmptySeq
<1>6. QED BY <1>1, <1>2, <1>3, <1>4, <1>5, ExemptionScriptsSafe, DNSRoutesSafe, PortScriptsSafe

\* The fields of a command that its kind gives a meaning to.
LEMMA CommandParts ==
    ASSUME NEW c \in Commands
    PROVE  /\ c.do \in {"new", "append", "insert", "beforedrop", "delete", "clear"} => c.on \in Chains
           /\ c.do \in {"wire", "unwire"} => c.on \in BaseChains
           /\ c.do \in {"ruleadd", "ruledel", "ruleflush"} => c.on \in Prio
           /\ c.do \in {"mssadd", "mssdel"} => c.on \in MangleRules
           /\ c.do = "port" => c.rule.arg \in Port
           /\ c.do # "port" => c.rule \in Rules /\ c.rule.arg \in Args
           /\ c.pos \in Nat
BY DEF Commands, CommandsOf, Rules

\* What the guard of a command tells about the state.
LEMMA WorksFacts ==
    ASSUME NEW c \in Commands, Works(c)
    PROVE  /\ c.do = "new" => c.on \notin exists
           /\ c.do = "wire" => c.on \in exists
           /\ c.do = "insert" => c.pos \in 1..(Len(chain[c.on]) + 1)
           /\ c.do = "beforedrop" => chain[c.on] # << >>
           /\ c.do = "clear" => c.on \notin exists \/ ~Referenced(c.on)
           /\ c.do = "verify" => checkChainsPresent
BY DEF Works

\* The initial states are well typed.
LEMMA TypeInit == Init => TypeOK
<1> SUFFICES ASSUME Init PROVE TypeOK
  OBVIOUS
<1>1. chain \in [Chains -> Seq(Rules)] /\ iprules \in [Prio -> SUBSET Args]
  BY DEF Init
<1>2. todo \in Seq(Commands)
  BY DEF Init
<1>3. failures \in 0..MaxFailures /\ crashes \in 0..MaxCrashes /\ starts \in 0..MaxStarts
  BY BoundAssumption DEF Init, BoundAssumption
<1>4. active \in BOOLEAN /\ err \in BOOLEAN
  BY DEF Init
<1>5. QED BY <1>1, <1>2, <1>3, <1>4 DEF Init, TypeOK, Op, Phase

\* A command, whether it works or fails, keeps the state well typed.
LEMMA TypeCommand ==
    ASSUME TypeOK, RunCommand
    PROVE  TypeOK'
<1>1. ASSUME todo # << >>
      PROVE  cmd \in Commands /\ Tail(todo) \in Seq(Commands)
  BY <1>1, HeadTailProperties DEF TypeOK, cmd
<1>2. CASE RunNewChain
  BY <1>1, <1>2, CommandParts DEF RunNewChain, Runs, TypeOK, caller, budgets, fields
<1>3. CASE RunAppend
  BY <1>1, <1>3, CommandParts DEF RunAppend, Runs, TypeOK, caller, budgets, fields
<1>4. CASE RunInsert
  <2>1. /\ cmd \in Commands /\ cmd.do = "insert" /\ cmd.on \in Chains /\ cmd.rule \in Rules
        /\ cmd.pos \in 1..(Len(chain[cmd.on]) + 1)
    BY <1>1, <1>4, CommandParts, WorksFacts DEF RunInsert, Runs
  <2>2. InsertAt(chain[cmd.on], cmd.pos, cmd.rule) \in Seq(Rules)
    BY <2>1, InsertAtType DEF TypeOK
  <2>3. QED BY <1>1, <1>4, <2>1, <2>2 DEF RunInsert, Runs, TypeOK, caller, budgets, fields
<1>5. CASE RunInsertBeforeDrop
  <2>1. /\ cmd \in Commands /\ cmd.do = "beforedrop" /\ cmd.on \in Chains /\ cmd.rule \in Rules
        /\ chain[cmd.on] # << >>
    BY <1>1, <1>5, CommandParts, WorksFacts DEF RunInsertBeforeDrop, Runs
  <2>2. Len(chain[cmd.on]) \in 1..(Len(chain[cmd.on]) + 1)
    BY <2>1 DEF TypeOK
  <2>3. InsertAt(chain[cmd.on], Len(chain[cmd.on]), cmd.rule) \in Seq(Rules)
    BY <2>1, <2>2, InsertAtType DEF TypeOK
  <2>4. QED BY <1>1, <1>5, <2>1, <2>3 DEF RunInsertBeforeDrop, Runs, TypeOK, caller, budgets, fields
<1>6. CASE RunDelete
  <2>1. cmd \in Commands /\ cmd.do = "delete" /\ cmd.on \in Chains
    BY <1>1, <1>6, CommandParts DEF RunDelete, Runs
  <2>2. PICK i \in DOMAIN chain[cmd.on] : chain' = [chain EXCEPT ![cmd.on] = RemoveAt(@, i)]
    BY <1>6 DEF RunDelete
  <2>3. RemoveAt(chain[cmd.on], i) \in Seq(Rules)
    BY <2>1, RemoveAtType DEF TypeOK
  <2>4. chain' \in [Chains -> Seq(Rules)]
    BY <2>1, <2>2, <2>3 DEF TypeOK
  <2>5. QED BY <1>1, <1>6, <2>4 DEF RunDelete, Runs, TypeOK, caller, budgets, fields
<1>7. CASE RunClear
  BY <1>1, <1>7, CommandParts DEF RunClear, Runs, TypeOK, caller, budgets, fields
<1>8. CASE RunWire
  BY <1>1, <1>8, CommandParts DEF RunWire, Runs, TypeOK, caller, budgets, fields
<1>9. CASE RunRule
  <2>1. cmd \in Commands /\ cmd.on \in Prio /\ cmd.rule.arg \in Args
    BY <1>1, <1>9, CommandParts DEF RunRule, Runs
  <2>2. \E dests \in SUBSET Args : iprules' = [iprules EXCEPT ![cmd.on] = dests]
    <3>1. iprules[cmd.on] \in SUBSET Args
      BY <2>1 DEF TypeOK
    <3>2. /\ iprules[cmd.on] \cup {cmd.rule.arg} \in SUBSET Args
          /\ iprules[cmd.on] \ {cmd.rule.arg} \in SUBSET Args
          /\ {} \in SUBSET Args
      BY <2>1, <3>1
    <3>3. QED BY <1>9, <3>2 DEF RunRule
  <2>3. iprules' \in [Prio -> SUBSET Args]
    BY <2>1, <2>2 DEF TypeOK
  <2>4. todo' \in Seq(Commands) /\ UNCHANGED <<op, err, caller, budgets>>
    BY <1>1, <1>9 DEF RunRule, Runs
  <2>5. QED BY <1>9, <2>3, <2>4 DEF RunRule, TypeOK, caller, budgets, fields
<1>10. CASE RunMangle
  BY <1>1, <1>10, CommandParts DEF RunMangle, Runs, TypeOK, caller, budgets, fields
<1>11. CASE RunVerify
  BY <1>1, <1>11 DEF RunVerify, Runs, TypeOK, kernel, caller, budgets, fields
<1>12. CASE RunField
  <2>1. active' \in BOOLEAN
    BY <1>12 DEF RunField, TypeOK
  <2>2. activePort' \in Port \cup {NoPort}
    BY <1>1, <1>12, CommandParts DEF RunField, Runs, TypeOK
  <2>3. todo' \in Seq(Commands) /\ UNCHANGED <<op, err, caller, budgets, kernel, armed>>
    BY <1>1, <1>12 DEF RunField, Runs
  <2>4. QED BY <2>1, <2>2, <2>3 DEF TypeOK, kernel, caller, budgets
<1>13. ASSUME Fails
       PROVE  /\ todo' \in Seq(Commands) /\ err' \in BOOLEAN /\ failures' \in 0..MaxFailures
              /\ UNCHANGED <<exists, wired, mangle, fields, op, caller, armed, crashes, starts>>
              /\ cmd \in Commands
  BY <1>1, <1>13, BoundAssumption DEF Fails, TypeOK, BoundAssumption
<1>14. CASE FailCommand
  BY <1>13, <1>14 DEF FailCommand, TypeOK, caller, fields
<1>15. CASE FailClear
  BY <1>13, <1>15, CommandParts DEF FailClear, TypeOK, caller, fields
<1>16. CASE FailFlush
  BY <1>13, <1>16, CommandParts DEF FailFlush, TypeOK, caller, fields
<1>17. QED
  BY <1>2, <1>3, <1>4, <1>5, <1>6, <1>7, <1>8, <1>9, <1>10, <1>11, <1>12, <1>14,
     <1>15, <1>16 DEF RunCommand

\* The callers, crashes and restarts keep the state well typed.
LEMMA TypeCaller ==
    ASSUME TypeOK, Next, ~RunCommand
    PROVE  TypeOK'
<1> USE DEF TypeOK, kernel, fields, call, caller, budgets, Op, Phase
<1>1. CASE StartSetup
  <2>1. starts' \in 0..MaxStarts
    BY <1>1, BoundAssumption DEF StartSetup, BoundAssumption
  <2>2. QED BY <1>1, <2>1, ScriptTypes DEF StartSetup, Call
<1>2. CASE SetupReturns
  BY <1>2 DEF SetupReturns, Returns
<1>3. CASE OpenExemption
  BY <1>3, ScriptTypes DEF OpenExemption, Call
<1>4. CASE OpenExemptions
  <2>1. PICK specs \in Batches : held' = ToSet(specs) /\ Call("Exempt", AddExemptions(specs))
    BY <1>4 DEF OpenExemptions
  <2>2. ToSet(specs) \subseteq Endpoint /\ AddExemptions(specs) \in Seq(Commands)
    BY ScriptTypes DEF ToSet
  <2>3. QED BY <1>4, <2>1, <2>2 DEF OpenExemptions, Call
<1>5. CASE ExemptReturns
  BY <1>5 DEF ExemptReturns, Returns
<1>6. CASE CloseExemptions
  BY <1>6, ScriptTypes DEF CloseExemptions, Call
<1>7. CASE UnexemptReturns
  BY <1>7 DEF UnexemptReturns, Returns
<1>8. CASE BeginConnect
  BY <1>8 DEF BeginConnect
<1>9. CASE BeginRoutes
  BY <1>9, ScriptTypes DEF BeginRoutes, Call
<1>10. CASE RoutesReturn
  BY <1>10 DEF RoutesReturn, Returns
<1>12. CASE BeginForward
  BY <1>12, ScriptTypes DEF BeginForward, Call
<1>13. CASE ForwardReturns
  BY <1>13 DEF ForwardReturns, Returns
<1>14. CASE Announce
  BY <1>14, ScriptTypes DEF Announce, Call
<1>15. CASE AnnounceReturns
  BY <1>15 DEF AnnounceReturns, Returns
<1>16. CASE BeginTeardown
  BY <1>16, ScriptTypes DEF BeginTeardown, Call
<1>17. CASE TeardownReturns
  BY <1>17 DEF TeardownReturns, Returns
<1>18. CASE LeaveServices
  BY <1>18 DEF LeaveServices
<1>19. CASE BeginCleanup
  BY <1>19, ScriptTypes DEF BeginCleanup, Call
<1>20. CASE CleanupReturns
  BY <1>20 DEF CleanupReturns, Returns
<1>21. CASE ErrorExit
  BY <1>21, EmptySeq DEF ErrorExit, Dies
<1>22. CASE Crash
  <2>1. crashes' \in 0..MaxCrashes
    BY <1>22, BoundAssumption DEF Crash, BoundAssumption
  <2>2. QED BY <1>22, <2>1, EmptySeq DEF Crash, Dies
<1>23. CASE Stopped
  BY <1>23 DEF Stopped, vars
<1>24. QED
  BY <1>1, <1>2, <1>3, <1>4, <1>5, <1>6, <1>7, <1>8, <1>9, <1>10, <1>12, <1>13,
     <1>14, <1>15, <1>16, <1>17, <1>18, <1>19, <1>20, <1>21, <1>22, <1>23 DEF Next, Progress

\* Type correctness: every variable keeps its type, and a method only ever has
\* well-formed commands left, for every configuration, failure and crash.
THEOREM TypeCorrect == Spec => []TypeOK
<1>1. Init => TypeOK
  BY TypeInit
<1>2. TypeOK /\ [Next]_vars => TypeOK'
  <2> SUFFICES ASSUME TypeOK, [Next]_vars PROVE TypeOK'
    OBVIOUS
  <2>1. CASE UNCHANGED vars
    BY <2>1 DEF vars, TypeOK, kernel, fields, call, caller, budgets
  <2>2. CASE Next
    BY <2>2, TypeCommand, TypeCaller
  <2>3. QED BY <2>1, <2>2
<1>3. QED BY <1>1, <1>2, PTL DEF Spec

-----------------------------------------------------------------------------
(* Default-deny.  DefaultDeny is not inductive: that no step opens the     *)
(* killswitch while it is up depends on what is left of the running script *)
(* (TodoInv), that the verification establishes it on the order of Setup,  *)
(* and that a new chain is no wired one on WiredExist.                     *)

Contents == \A c \in Chains : chain[c] \in Seq(Allowed(c))

WiredExist == wired \subseteq exists

Closed == armed = "yes" => \A c \in BaseChains : c \in wired /\ chainHasDrop(c)

TodoInv ==
    /\ todo \in Seq(Legal) /\ VerifiedThenSafe(todo)
    /\ armed = "yes" => todo \in Seq(Safe)

DenyInv == TypeOK /\ Contents /\ WiredExist /\ Closed /\ TodoInv

\* What the rest of a script inherits when its first command is taken off.
LEMMA TodoStep ==
    ASSUME TodoInv, todo # << >>
    PROVE  /\ cmd \in Legal /\ cmd \in Commands
           /\ Tail(todo) \in Seq(Legal) /\ VerifiedThenSafe(Tail(todo))
           /\ cmd.do = "verify" => Tail(todo) \in Seq(Safe)
           /\ armed = "yes" => cmd \in Safe /\ Tail(todo) \in Seq(Safe)
<1>1. /\ cmd \in Legal /\ Tail(todo) \in Seq(Legal) /\ cmd = todo[1]
      /\ Len(Tail(todo)) = Len(todo) - 1 /\ Len(todo) \in Nat \ {0}
      /\ \A i \in 1..Len(Tail(todo)) : Tail(todo)[i] = todo[i + 1]
  BY HeadTailProperties DEF TodoInv, cmd
<1>2. VerifiedThenSafe(Tail(todo))
  <2> SUFFICES ASSUME NEW i \in DOMAIN Tail(todo), NEW j \in DOMAIN Tail(todo),
                      Tail(todo)[i].do = "verify", i < j
               PROVE  Tail(todo)[j] \in Safe
    BY DEF VerifiedThenSafe
  <2>1. i + 1 \in DOMAIN todo /\ j + 1 \in DOMAIN todo /\ i + 1 < j + 1
    BY <1>1 DEF TodoInv
  <2>2. todo[i + 1].do = "verify" /\ Tail(todo)[j] = todo[j + 1]
    BY <1>1
  <2>3. QED BY <2>1, <2>2 DEF TodoInv, VerifiedThenSafe
<1>3. ASSUME cmd.do = "verify" PROVE Tail(todo) \in Seq(Safe)
  <2>1. \A i \in 1..Len(Tail(todo)) : Tail(todo)[i] \in Safe
    <3> SUFFICES ASSUME NEW i \in 1..Len(Tail(todo)) PROVE Tail(todo)[i] \in Safe
      OBVIOUS
    <3>1. 1 \in DOMAIN todo /\ i + 1 \in DOMAIN todo /\ 1 < i + 1
      BY <1>1 DEF TodoInv
    <3>2. todo[1].do = "verify"
      BY <1>1, <1>3
    <3>3. QED BY <1>1, <3>1, <3>2 DEF TodoInv, VerifiedThenSafe
  <2>2. QED BY <1>1, <2>1, SeqElements
<1>4. ASSUME armed = "yes" PROVE cmd \in Safe /\ Tail(todo) \in Seq(Safe)
  BY <1>4, HeadTailProperties DEF TodoInv, cmd
<1>5. QED BY <1>1, <1>2, <1>3, <1>4, Inclusions

\* A step that changes one chain keeps Contents and Closed when it keeps to
\* the rules allowed there and, in a base chain, keeps DROP.
LEMMA OneChain ==
    ASSUME TypeOK, Contents, Closed, NEW c \in Chains, NEW s \in Seq(Allowed(c)),
           chain' = [chain EXCEPT ![c] = s], UNCHANGED <<wired, armed>>,
           armed = "yes" /\ c \in BaseChains => Drop \in ToSet(s)
    PROVE  Contents' /\ Closed'
<1>1. \A b \in Chains : chain'[b] = IF b = c THEN s ELSE chain[b]
  BY DEF TypeOK
<1>2. Contents'
  BY <1>1 DEF Contents
<1>3. Closed'
  BY <1>1, ChainNames DEF Closed, chainHasDrop
<1>4. QED BY <1>2, <1>3

\* No command, whether it works or fails, opens a verified killswitch.
LEMMA DenyCommand ==
    ASSUME DenyInv, RunCommand, TypeOK'
    PROVE  DenyInv'
<1> USE DEF DenyInv
<1>1. todo # << >>
  BY DEF RunCommand, RunNewChain, RunAppend, RunInsert, RunInsertBeforeDrop, RunDelete,
         RunClear, RunWire, RunRule, RunMangle, RunVerify, RunField, FailCommand,
         FailClear, FailFlush, Fails, Runs
<1>2. /\ cmd \in Legal /\ cmd \in Commands
      /\ Tail(todo) \in Seq(Legal) /\ VerifiedThenSafe(Tail(todo))
      /\ cmd.do = "verify" => Tail(todo) \in Seq(Safe)
      /\ armed = "yes" => cmd \in Safe /\ Tail(todo) \in Seq(Safe)
  BY <1>1, TodoStep
<1>3. ASSUME todo' = Tail(todo), UNCHANGED armed PROVE TodoInv'
  BY <1>2, <1>3 DEF TodoInv, VerifiedThenSafe
<1>4. ASSUME cmd.do \in Adds PROVE cmd.on \in Chains /\ cmd.rule \in Allowed(cmd.on)
  BY <1>2, <1>4, CommandParts DEF Legal, Adds
<1>5. CASE RunNewChain
  <2>1. cmd.on \in Chains /\ cmd.on \notin exists /\ todo' = Tail(todo) /\ UNCHANGED <<wired, armed>>
    BY <1>2, <1>5, CommandParts, WorksFacts DEF RunNewChain, Runs
  <2>2. armed = "yes" => cmd.on \notin BaseChains
    BY <2>1 DEF Closed, WiredExist
  <2>3. Contents' /\ Closed'
    BY <1>5, <2>1, <2>2, OneChain, EmptySeq DEF RunNewChain
  <2>4. WiredExist'
    BY <1>5 DEF RunNewChain, WiredExist
  <2>5. QED BY <1>3, <2>1, <2>3, <2>4
<1>6. CASE RunAppend
  <2>1. /\ cmd.on \in Chains /\ cmd.rule \in Allowed(cmd.on)
        /\ todo' = Tail(todo) /\ UNCHANGED <<exists, wired, armed>>
    BY <1>4, <1>6 DEF RunAppend, Runs, Adds
  <2> DEFINE s == Append(chain[cmd.on], cmd.rule)
  <2>2. s \in Seq(Allowed(cmd.on)) /\ \A k \in DOMAIN chain[cmd.on] : k \in DOMAIN s /\ s[k] = chain[cmd.on][k]
    BY <2>1, AppendProperties DEF Contents
  <2>3. chain' = [chain EXCEPT ![cmd.on] = s]
    BY <1>6 DEF RunAppend
  <2> HIDE DEF s
  <2>4. armed = "yes" /\ cmd.on \in BaseChains => Drop \in ToSet(s)
    BY <2>2 DEF Closed, chainHasDrop, ToSet
  <2>5. Contents' /\ Closed'
    BY <2>1, <2>2, <2>3, <2>4, OneChain
  <2>6. QED BY <1>3, <2>1, <2>5 DEF WiredExist
<1>7. CASE RunInsert
  <2>1. /\ cmd.on \in Chains /\ cmd.rule \in Allowed(cmd.on)
        /\ cmd.pos \in 1..(Len(chain[cmd.on]) + 1)
        /\ todo' = Tail(todo) /\ UNCHANGED <<exists, wired, armed>>
    BY <1>2, <1>4, <1>7, WorksFacts DEF RunInsert, Runs, Adds
  <2> DEFINE s == InsertAt(chain[cmd.on], cmd.pos, cmd.rule)
  <2>2. /\ s \in Seq(Allowed(cmd.on))
        /\ \A k \in DOMAIN chain[cmd.on] : \E m \in DOMAIN s : s[m] = chain[cmd.on][k]
    <3> DEFINE old == chain[cmd.on]
               n == cmd.pos
               T == Allowed(cmd.on)
               e == cmd.rule
    <3>1. old \in Seq(T) /\ e \in T /\ n \in 1..(Len(old) + 1)
      BY <2>1 DEF Contents
    <3> HIDE DEF old, n, T, e
    <3>2. /\ InsertAt(old, n, e) \in Seq(T)
          /\ \A k \in DOMAIN old : \E m \in DOMAIN InsertAt(old, n, e) : InsertAt(old, n, e)[m] = old[k]
      BY <3>1, InsertAtType
    <3>3. QED BY <3>2 DEF old, n, T, e
  <2>3. chain' = [chain EXCEPT ![cmd.on] = s]
    BY <1>7 DEF RunInsert
  <2> HIDE DEF s
  <2>4. armed = "yes" /\ cmd.on \in BaseChains => Drop \in ToSet(s)
    BY <2>2 DEF Closed, chainHasDrop, ToSet
  <2>5. Contents' /\ Closed'
    BY <2>1, <2>2, <2>3, <2>4, OneChain
  <2>6. QED BY <1>3, <2>1, <2>5 DEF WiredExist
<1>8. CASE RunInsertBeforeDrop
  <2>1. /\ cmd.on \in Chains /\ cmd.rule \in Allowed(cmd.on) /\ chain[cmd.on] # << >>
        /\ todo' = Tail(todo) /\ UNCHANGED <<exists, wired, armed>>
    BY <1>2, <1>4, <1>8, WorksFacts DEF RunInsertBeforeDrop, Runs, Adds
  <2>2. Len(chain[cmd.on]) \in 1..(Len(chain[cmd.on]) + 1)
    BY <2>1 DEF TypeOK
  <2> DEFINE s == InsertAt(chain[cmd.on], Len(chain[cmd.on]), cmd.rule)
  <2>3. /\ s \in Seq(Allowed(cmd.on))
        /\ \A k \in DOMAIN chain[cmd.on] : \E m \in DOMAIN s : s[m] = chain[cmd.on][k]
    <3> DEFINE old == chain[cmd.on]
               n == Len(old)
               T == Allowed(cmd.on)
               e == cmd.rule
    <3>1. old \in Seq(T) /\ e \in T /\ n \in 1..(Len(old) + 1)
      BY <2>1, <2>2 DEF Contents
    <3> HIDE DEF old, n, T, e
    <3>2. /\ InsertAt(old, n, e) \in Seq(T)
          /\ \A k \in DOMAIN old : \E m \in DOMAIN InsertAt(old, n, e) : InsertAt(old, n, e)[m] = old[k]
      BY <3>1, InsertAtType
    <3>3. QED BY <3>2 DEF old, n, T, e
  <2>4. chain' = [chain EXCEPT ![cmd.on] = s]
    BY <1>8 DEF RunInsertBeforeDrop
  <2> HIDE DEF s
  <2>5. armed = "yes" /\ cmd.on \in BaseChains => Drop \in ToSet(s)
    BY <2>3 DEF Closed, chainHasDrop, ToSet
  <2>6. Contents' /\ Closed'
    BY <2>1, <2>3, <2>4, <2>5, OneChain
  <2>7. QED BY <1>3, <2>1, <2>6 DEF WiredExist
<1>9. CASE RunDelete
  <2>1. /\ cmd.do = "delete" /\ cmd.on \in Chains
        /\ todo' = Tail(todo) /\ UNCHANGED <<exists, wired, armed>>
    BY <1>2, <1>9, CommandParts DEF RunDelete, Runs
  <2>2. PICK i \in DOMAIN chain[cmd.on] :
           /\ chain[cmd.on][i] = cmd.rule
           /\ chain' = [chain EXCEPT ![cmd.on] = RemoveAt(@, i)]
    BY <1>9 DEF RunDelete
  <2> DEFINE s == RemoveAt(chain[cmd.on], i)
  <2>3. /\ s \in Seq(Allowed(cmd.on))
        /\ \A k \in DOMAIN chain[cmd.on] \ {i} : \E m \in DOMAIN s : s[m] = chain[cmd.on][k]
    <3> DEFINE old == chain[cmd.on]
               T == Allowed(cmd.on)
    <3>1. old \in Seq(T) /\ i \in DOMAIN old
      BY <2>1, <2>2 DEF Contents
    <3> HIDE DEF old, T
    <3>2. /\ RemoveAt(old, i) \in Seq(T)
          /\ \A k \in DOMAIN old \ {i} : \E m \in DOMAIN RemoveAt(old, i) : RemoveAt(old, i)[m] = old[k]
      BY <3>1, RemoveAtType
    <3>3. QED BY <3>2 DEF old, T
  <2>4. chain' = [chain EXCEPT ![cmd.on] = s]
    BY <2>2
  <2> HIDE DEF s
  <2>5. armed = "yes" /\ cmd.on \in BaseChains => Drop \in ToSet(s)
    <3> SUFFICES ASSUME armed = "yes", cmd.on \in BaseChains PROVE Drop \in ToSet(s)
      OBVIOUS
    <3>1. cmd.rule # Drop
      BY <1>2, <2>1 DEF Safe
    <3>2. PICK k \in DOMAIN chain[cmd.on] : chain[cmd.on][k] = Drop
      BY DEF Closed, chainHasDrop, ToSet
    <3>3. k # i
      BY <2>2, <3>1, <3>2
    <3>4. QED BY <2>3, <3>2, <3>3 DEF ToSet
  <2>6. Contents' /\ Closed'
    BY <2>1, <2>3, <2>4, <2>5, OneChain
  <2>7. QED BY <1>3, <2>1, <2>6 DEF WiredExist
<1>10. CASE RunClear
  <2>1. /\ cmd.do = "clear" /\ cmd.on \in Chains
        /\ cmd.on \notin exists \/ ~Referenced(cmd.on)
        /\ todo' = Tail(todo) /\ UNCHANGED <<wired, armed>>
    BY <1>2, <1>10, CommandParts, WorksFacts DEF RunClear, Runs
  <2>2. armed = "yes" => cmd.on \notin BaseChains
    BY <1>2, <2>1 DEF Safe
  <2>3. Contents' /\ Closed'
    BY <1>10, <2>1, <2>2, OneChain, EmptySeq DEF RunClear
  <2>4. WiredExist'
    BY <1>10, <2>1 DEF RunClear, WiredExist, Referenced
  <2>5. QED BY <1>3, <2>1, <2>3, <2>4
<1>11. CASE RunWire
  <2>1. todo' = Tail(todo) /\ UNCHANGED <<chain, exists, armed>>
    BY <1>11 DEF RunWire, Runs
  <2>2. WiredExist'
    BY <1>2, <1>11, WorksFacts DEF RunWire, Runs, WiredExist
  <2>3. Closed'
    <3>1. CASE Runs("wire") /\ wired' = wired \cup {cmd.on}
      BY <2>1, <3>1 DEF Closed, chainHasDrop
    <3>2. CASE Runs("unwire") /\ wired' = wired \ {cmd.on}
      <4>1. armed = "yes" => cmd.on \notin BaseChains
        BY <1>2, <3>2 DEF Safe, Runs
      <4>2. QED BY <2>1, <3>2, <4>1 DEF Closed, chainHasDrop
    <3>3. QED BY <1>11, <3>1, <3>2 DEF RunWire
  <2>4. QED BY <1>3, <2>1, <2>2, <2>3 DEF Contents
<1>12. CASE RunVerify
  <2>1. /\ cmd.do = "verify" /\ checkChainsPresent
        /\ todo' = Tail(todo) /\ UNCHANGED <<chain, exists, wired>>
    BY <1>2, <1>12, WorksFacts DEF RunVerify, Runs, kernel
  <2>2. TodoInv'
    BY <1>2, <2>1 DEF TodoInv, VerifiedThenSafe
  <2>3. Closed'
    BY <2>1 DEF Closed, checkChainsPresent, chainHasDrop, chainIsInParent
  <2>4. QED BY <2>1, <2>2, <2>3 DEF Contents, WiredExist
<1>13. ASSUME UNCHANGED <<chain, exists, wired, armed>>
       PROVE  Contents' /\ WiredExist' /\ Closed'
  BY <1>13 DEF Contents, WiredExist, Closed, chainHasDrop
<1>14. CASE RunRule \/ RunMangle \/ RunField
  <2>1. todo' = Tail(todo) /\ UNCHANGED <<chain, exists, wired, armed>>
    BY <1>14 DEF RunRule, RunMangle, RunField, Runs, kernel
  <2>2. QED BY <1>3, <1>13, <2>1
<1>15. ASSUME Fails
       PROVE  TodoInv' /\ UNCHANGED <<exists, wired, armed>>
  <2>1. UNCHANGED <<exists, wired, armed>>
    BY <1>15 DEF Fails
  <2>2. CASE todo' = Tail(todo)
    BY <1>3, <2>1, <2>2
  <2>3. CASE todo' = << >>
    BY <2>1, <2>3, EmptySeq DEF TodoInv, VerifiedThenSafe
  <2>4. QED BY <1>15, <2>1, <2>2, <2>3 DEF Fails
<1>16. CASE FailCommand \/ FailFlush
  BY <1>13, <1>15, <1>16 DEF FailCommand, FailFlush
<1>17. CASE FailClear
  <2>1. cmd.do = "clear" /\ cmd.on \in Chains /\ UNCHANGED <<exists, wired, armed>>
    BY <1>2, <1>15, <1>17, CommandParts DEF FailClear
  <2>2. armed = "yes" => cmd.on \notin BaseChains
    BY <1>2, <2>1 DEF Safe
  <2>3. Contents' /\ Closed'
    BY <1>17, <2>1, <2>2, OneChain, EmptySeq DEF FailClear
  <2>4. QED BY <1>15, <1>17, <2>1, <2>3 DEF FailClear, WiredExist
<1>18. QED
  BY <1>5, <1>6, <1>7, <1>8, <1>9, <1>10, <1>11, <1>12, <1>14, <1>16, <1>17 DEF RunCommand

\* The methods called while the killswitch is up have safe scripts.
LEMMA SafeCalls ==
    /\ RemoveExemptions \in Seq(Safe) /\ AddPFRoute(PFGateway) \in Seq(Safe)
    /\ \A ep \in Endpoint : AddExemption(ep) \in Seq(Safe)
    /\ \A specs \in Batches : AddExemptions(specs) \in Seq(Safe)
    /\ AddPIADNSRoutes(PIADNS) \in Seq(Safe) /\ << >> \in Seq(Safe)
    /\ \A old \in Port \cup {NoPort} :
          teardown(old) \in Seq(Safe) /\ \A p \in Port : AllowForwardedPort(old, p) \in Seq(Safe)
<1>1. PIADNS \in Seq(Address)
  BY ConfigAssumption DEF ConfigAssumption
<1>2. << >> \in Seq(Safe)
  BY EmptySeq
<1>3. QED BY <1>1, <1>2, ScriptTypes, ExemptionScriptsSafe, DNSRoutesSafe, PortScriptsSafe

\* No call, crash or restart opens a verified killswitch.
LEMMA DenyCaller ==
    ASSUME DenyInv, Next, ~RunCommand, TypeOK'
    PROVE  DenyInv'
<1> USE DEF DenyInv
<1>1. ASSUME UNCHANGED <<chain, exists, wired>>, armed' = armed \/ armed' # "yes"
      PROVE  Contents' /\ WiredExist' /\ Closed'
  BY <1>1 DEF Contents, WiredExist, Closed, chainHasDrop
<1>2. ASSUME NEW s \in Seq(Safe), todo' = s PROVE TodoInv'
  BY <1>2, Inclusions, QuietVerified DEF TodoInv, VerifiedThenSafe
<1>3. ASSUME NEW s \in Seq(Legal), VerifiedThenSafe(s), todo' = s, armed' # "yes" PROVE TodoInv'
  BY <1>3 DEF TodoInv, VerifiedThenSafe
<1>4. ASSUME UNCHANGED <<todo, armed>> PROVE TodoInv'
  BY <1>4 DEF TodoInv, VerifiedThenSafe
<1>5. CASE StartSetup
  <2>1. UNCHANGED <<chain, exists, wired>> /\ armed' # "yes" /\ todo' = Setup
    BY <1>5 DEF StartSetup, Call, kernel
  <2>2. QED BY <1>1, <1>3, <2>1, SetupLegal
<1>6. CASE BeginCleanup
  <2>1. UNCHANGED <<chain, exists, wired>> /\ armed' # "yes" /\ todo' = Cleanup
    BY <1>6 DEF BeginCleanup, Call, kernel
  <2>2. QED BY <1>1, <1>3, <2>1, CleanupQuiet, QuietVerified
<1>7. CASE \/ OpenExemption \/ OpenExemptions \/ CloseExemptions \/ BeginRoutes
           \/ BeginForward \/ Announce \/ BeginTeardown
  <2>1. UNCHANGED <<chain, exists, wired, armed>>
    BY <1>7 DEF OpenExemption, OpenExemptions, CloseExemptions, BeginRoutes, BeginForward,
                Announce, BeginTeardown, Call, kernel
  <2>2. \E s \in Seq(Safe) : todo' = s
    BY <1>7, SafeCalls DEF OpenExemption, OpenExemptions, CloseExemptions, BeginRoutes,
                BeginForward, Announce, BeginTeardown, Call, TypeOK
  <2>3. QED BY <1>1, <1>2, <2>1, <2>2
<1>8. CASE \/ SetupReturns \/ ExemptReturns \/ UnexemptReturns \/ RoutesReturn
           \/ ForwardReturns \/ AnnounceReturns \/ TeardownReturns \/ CleanupReturns
  <2>1. UNCHANGED <<chain, exists, wired, armed, todo>>
    BY <1>8 DEF SetupReturns, ExemptReturns, UnexemptReturns, RoutesReturn, ForwardReturns,
                AnnounceReturns, TeardownReturns, CleanupReturns, Returns, kernel
  <2>2. QED BY <1>1, <1>4, <2>1
<1>9. CASE BeginConnect \/ LeaveServices \/ Stopped
  <2>1. UNCHANGED <<chain, exists, wired, armed, todo>>
    BY <1>9 DEF BeginConnect, LeaveServices, Stopped, kernel, call, vars
  <2>2. QED BY <1>1, <1>4, <2>1
<1>10. CASE ErrorExit \/ Crash
  <2>1. UNCHANGED <<chain, exists, wired, armed>> /\ todo' = << >>
    BY <1>10 DEF ErrorExit, Crash, Dies, kernel
  <2>2. QED BY <1>1, <1>2, <2>1, EmptySeq
<1>11. QED
  BY <1>5, <1>6, <1>7, <1>8, <1>9, <1>10 DEF Next, Progress

\* Before the first start nothing is verified.
LEMMA DenyInit == Init => DenyInv
<1> SUFFICES ASSUME Init PROVE DenyInv
  OBVIOUS
<1>1. Contents /\ WiredExist /\ Closed
  BY EmptySeq DEF Init, Contents, WiredExist, Closed
<1>2. TodoInv
  BY EmptySeq DEF Init, TodoInv, VerifiedThenSafe
<1>3. QED BY <1>1, <1>2, TypeInit DEF DenyInv

\* The inductive invariant implies the property.
LEMMA DenyImplies == DenyInv => DefaultDeny
<1> SUFFICES ASSUME DenyInv, armed = "yes", NEW c \in BaseChains, NEW pkt \in Packets, Passes(c, pkt)
             PROVE  pkt \in Policy(c)
  BY DEF DefaultDeny
<1>1. c \in wired /\ chainHasDrop(c)
  BY DEF DenyInv, Closed
<1>2. PICK i \in DOMAIN chain[c] : Matches(chain[c][i], pkt)
  BY <1>1 DEF Passes
<1>3. /\ chain[c][i] \in Policy(c) \cup {Drop} \cup (IF c = ChainOut THEN {JumpExempt} ELSE {})
      /\ c # ChainExempt
  <2>1. c # ChainExempt /\ c \in Chains
    BY ChainNames
  <2>2. chain[c] \in Seq(Allowed(c))
    BY <2>1 DEF DenyInv, Contents
  <2>3. chain[c][i] \in Allowed(c)
    BY <2>2, ElementOfSeq
  <2>4. QED BY <2>1, <2>3 DEF Allowed
<1>4. pkt # Drop /\ pkt # JumpExempt
  <2>1. pkt.kind # "drop" /\ pkt.kind # "jump"
    BY DEF Packets, Policy, Clear, Established, Loopback, Lan, PortRules, PortRule, Fwmark,
           Iface, WanCheck, Endpoints, Exempt, Icmp6, Rule
  <2>2. QED BY <2>1 DEF Drop, JumpExempt, Rule
<1>5. CASE chain[c][i] = pkt
  BY <1>3, <1>4, <1>5
<1>6. CASE chain[c][i] = JumpExempt /\ pkt \in ToSet(chain[ChainExempt])
  <2>1. JumpExempt \notin Policy(c) /\ JumpExempt # Drop
    BY DEF Policy, Drop, Established, Loopback, Lan, PortRules, PortRule, Fwmark,
           Iface, WanCheck, Endpoints, Exempt, Icmp6, JumpExempt, Rule
  <2>2. c = ChainOut
    BY <1>3, <1>6, <2>1
  <2>3. pkt \in Endpoints
    <3>1. chain[ChainExempt] \in Seq(Allowed(ChainExempt))
      BY ChainNames DEF DenyInv, Contents
    <3>2. pkt \in Allowed(ChainExempt)
      BY <1>6, <3>1, ElementOfSeq DEF ToSet
    <3>3. QED BY <3>2 DEF Allowed
  <2>4. QED BY <2>2, <2>3 DEF Policy
<1>7. QED BY <1>2, <1>5, <1>6 DEF Matches

\* Default-deny, for every configuration and any number of command failures,
\* crashes and restarts: while the killswitch is armed only the configured
\* traffic passes the four chains.
THEOREM DenyByDefault == Spec => []DefaultDeny
<1>1. Init => DenyInv
  BY DenyInit
<1>2. DenyInv /\ [Next]_vars => DenyInv'
  <2> SUFFICES ASSUME DenyInv, [Next]_vars PROVE DenyInv'
    OBVIOUS
  <2>1. CASE UNCHANGED vars
    BY <2>1 DEF vars, DenyInv, TypeOK, Contents, WiredExist, Closed, chainHasDrop, TodoInv,
                VerifiedThenSafe, kernel, fields, call, caller, budgets
  <2>2. CASE Next
    BY <2>2, TypeCommand, TypeCaller, DenyCommand, DenyCaller DEF DenyInv
  <2>3. QED BY <2>1, <2>2
<1>3. DenyInv => DefaultDeny
  BY DenyImplies
<1>4. QED BY <1>1, <1>2, <1>3, PTL DEF Spec

-----------------------------------------------------------------------------
(* The killswitch as a whole.  Default-deny says that a closed one does not *)
(* leak; what is left to show is that it is closed when it has to be: the   *)
(* program gets past Setup only through a verification that has succeeded,  *)
(* and nothing but Cleanup undoes it.                                       *)

\* The verification of Setup is still to come.
Awaited == \E i \in DOMAIN todo : todo[i] = Verify

PhaseInv ==
    /\ Down => op = "none"
    /\ op = "none" => todo = << >>
    /\ ~Down => armed = "yes" \/ op \in {"Setup", "Cleanup"}
    /\ op = "Setup" => phase = "boot"
    /\ op \in {"DNSRoutes", "PFRoute", "Teardown"} => phase # "shutdown"
    /\ op = "Setup" /\ armed # "yes" => (err /\ todo = << >>) \/ Awaited
    /\ op = "Cleanup" => phase = "shutdown" /\ armed = "no" /\ todo \in Seq(Quiet)

\* Setup ends with a verification that it returns the error of.
LEMMA SetupVerifies ==
    /\ \E i \in DOMAIN Setup : Setup[i] = Verify
    /\ Verify.do = "verify" /\ Verify.onerr = "return"
<1>1. SetupBody \in Seq(Quiet)
  BY SetupBodyQuiet
<1>2. Setup = SetupBody \o << Verify, Activate >>
  BY DEF Setup, SetupBody
<1> HIDE DEF Setup, SetupBody
<1>3. Setup[Len(SetupBody) + 1] = Verify /\ Len(SetupBody) + 1 \in DOMAIN Setup
  BY <1>1, <1>2
<1>4. QED BY <1>3 DEF Verify, Command

\* The verification stays in the script until it is its turn.
LEMMA AwaitedTail ==
    ASSUME NEW s \in Seq(Commands), s # << >>, \E i \in DOMAIN s : s[i] = Verify, Head(s) # Verify
    PROVE  \E i \in DOMAIN Tail(s) : Tail(s)[i] = Verify
<1>1. PICK i \in DOMAIN s : s[i] = Verify
  OBVIOUS
<1>2. i # 1 /\ i \in 1..Len(s) /\ Len(s) \in Nat
  BY <1>1
<1>3. /\ Len(Tail(s)) = Len(s) - 1 /\ Tail(s) \in Seq(Commands)
      /\ \A k \in 1..Len(Tail(s)) : Tail(s)[k] = s[k + 1]
  BY HeadTailProperties
<1>4. i - 1 \in DOMAIN Tail(s) /\ Tail(s)[i - 1] = Verify
  BY <1>1, <1>2, <1>3
<1>5. QED BY <1>4

\* What a command, whether it works or fails, does to the course of the method.
LEMMA CommandCourse ==
    ASSUME RunCommand
    PROVE  /\ todo # << >> /\ UNCHANGED <<op, phase>>
           /\ \/ /\ cmd.do = "verify" /\ armed' = "yes"
                 /\ todo' = Tail(todo) /\ UNCHANGED kernel
              \/ cmd.do # "verify" /\ armed' = armed /\ todo' = Tail(todo)
              \/ cmd.onerr = "return" /\ armed' = armed /\ todo' = << >> /\ err'
              \/ cmd.onerr # "return" /\ armed' = armed /\ todo' = Tail(todo)
<1> USE DEF caller
<1>1. CASE RunNewChain \/ RunAppend \/ RunInsert \/ RunInsertBeforeDrop
  BY <1>1 DEF RunNewChain, RunAppend, RunInsert, RunInsertBeforeDrop, Runs
<1>2. CASE RunDelete \/ RunClear \/ RunWire \/ RunRule \/ RunMangle
  BY <1>2 DEF RunDelete, RunClear, RunWire, RunRule, RunMangle, Runs
<1>3. CASE RunVerify
  BY <1>3 DEF RunVerify, Runs
<1>4. CASE RunField
  BY <1>4 DEF RunField, Runs
<1>5. CASE FailCommand \/ FailClear \/ FailFlush
  <2>1. Fails
    BY <1>5 DEF FailCommand, FailClear, FailFlush
  <2>2. CASE cmd.onerr = "return"
    BY <2>1, <2>2 DEF Fails
  <2>3. CASE cmd.onerr # "return"
    BY <2>1, <2>3 DEF Fails
  <2>4. QED BY <2>2, <2>3
<1>6. QED BY <1>1, <1>2, <1>3, <1>4, <1>5 DEF RunCommand

\* Commands keep the course of the methods.
LEMMA PhaseCommand ==
    ASSUME DenyInv, PhaseInv, RunCommand
    PROVE  PhaseInv'
<1>1. /\ todo # << >> /\ UNCHANGED <<op, phase>>
      /\ \/ cmd.do = "verify" /\ armed' = "yes" /\ todo' = Tail(todo)
         \/ cmd.do # "verify" /\ armed' = armed /\ todo' = Tail(todo)
         \/ cmd.onerr = "return" /\ armed' = armed /\ todo' = << >> /\ err'
         \/ cmd.onerr # "return" /\ armed' = armed /\ todo' = Tail(todo)
  BY CommandCourse
<1>2. op # "none" /\ todo \in Seq(Commands) /\ cmd = Head(todo)
  BY <1>1 DEF PhaseInv, DenyInv, TypeOK, cmd
<1>3. op = "Cleanup" => cmd.do # "verify" /\ Tail(todo) \in Seq(Quiet)
  BY <1>1, HeadTailProperties DEF PhaseInv, cmd, Quiet
<1>4. op = "Setup" /\ armed # "yes" => Awaited
  BY <1>1 DEF PhaseInv
<1>5. op = "Setup" /\ armed' # "yes" => (err' /\ todo' = << >>) \/ Awaited'
  <2> SUFFICES ASSUME op = "Setup", armed' # "yes", todo' # << >> \/ ~err' PROVE Awaited'
    OBVIOUS
  <2>1. armed # "yes" /\ todo' = Tail(todo) /\ cmd # Verify
    BY <1>1, SetupVerifies
  <2>2. \E i \in DOMAIN Tail(todo) : Tail(todo)[i] = Verify
    BY <1>1, <1>2, <1>4, <2>1, AwaitedTail DEF Awaited
  <2>3. QED BY <2>1, <2>2 DEF Awaited
<1>6. op = "Cleanup" => armed' = "no" /\ todo' \in Seq(Quiet)
  BY <1>1, <1>3, EmptySeq DEF PhaseInv
<1>7. ~Down => armed' = "yes" \/ op \in {"Setup", "Cleanup"}
  BY <1>1 DEF PhaseInv
<1>8. QED BY <1>1, <1>2, <1>5, <1>6, <1>7 DEF PhaseInv, Down

\* So do calls, returns, crashes and restarts.
LEMMA PhaseCaller ==
    ASSUME DenyInv, PhaseInv, Next, ~RunCommand
    PROVE  PhaseInv'
<1> USE DEF PhaseInv, Down, Idle
<1>1. CASE StartSetup
  <2>1. op' = "Setup" /\ todo' = Setup /\ phase' = "boot"
    BY <1>1 DEF StartSetup, Call
  <2>2. Awaited'
    BY <2>1, SetupVerifies DEF Awaited
  <2>3. QED BY <2>1, <2>2
<1>2. CASE SetupReturns
  <2>1. /\ op = "Setup" /\ todo = << >> /\ op' = "none" /\ todo' = << >>
        /\ armed' = armed /\ phase' = IF err THEN "down" ELSE "boot"
    BY <1>2 DEF SetupReturns, Returns
  <2>2. armed = "yes" \/ err
    BY <2>1 DEF Awaited
  <2>3. QED BY <2>1, <2>2
<1>3. CASE \/ OpenExemption \/ OpenExemptions \/ CloseExemptions \/ BeginRoutes
           \/ BeginForward \/ Announce \/ BeginTeardown
  <2>1. /\ op = "none" /\ phase \notin {"down", "clean"} /\ armed' = armed
        /\ op' \in Op \ {"none", "Setup", "Cleanup"}
    BY <1>3 DEF OpenExemption, OpenExemptions, CloseExemptions, BeginRoutes, BeginForward,
                Announce, BeginTeardown, Call, Op
  <2>2. /\ phase' \notin {"down", "clean"}
        /\ op' \in {"DNSRoutes", "PFRoute", "Teardown"} => phase' # "shutdown"
    BY <1>3, <2>1 DEF OpenExemption, OpenExemptions, CloseExemptions, BeginRoutes, BeginForward,
                Announce, BeginTeardown, Call, caller
  <2>3. QED BY <2>1, <2>2
<1>4. CASE \/ ExemptReturns \/ UnexemptReturns \/ RoutesReturn
           \/ ForwardReturns \/ AnnounceReturns \/ TeardownReturns
  <2>1. /\ op \notin {"none", "Setup", "Cleanup"} /\ op' = "none" /\ armed' = armed
        /\ todo = << >> /\ todo' = << >>
    BY <1>4 DEF ExemptReturns, UnexemptReturns, RoutesReturn, ForwardReturns,
                AnnounceReturns, TeardownReturns, Returns
  <2>2. QED BY <2>1
<1>5. CASE BeginConnect \/ LeaveServices
  <2>1. op = "none" /\ phase \notin {"down", "clean"} /\ UNCHANGED <<op, todo, armed>>
    BY <1>5 DEF BeginConnect, LeaveServices, call
  <2>2. QED BY <2>1
<1>6. CASE BeginCleanup
  BY <1>6, CleanupQuiet DEF BeginCleanup, Call, caller
<1>7. CASE CleanupReturns
  BY <1>7 DEF CleanupReturns, Returns
<1>8. CASE ErrorExit \/ Crash
  BY <1>8 DEF ErrorExit, Crash, Dies
<1>9. CASE Stopped
  BY <1>9 DEF Stopped, vars, call, caller, Awaited
<1>10. QED
  BY <1>1, <1>2, <1>3, <1>4, <1>5, <1>6, <1>7, <1>8, <1>9 DEF Next, Progress

\* A closed killswitch lets nothing undesired through.
Tight == armed = "yes" => {c \in BaseChains : Leaks(c)} = {}

\* Which is default-deny.
LEMMA ClosedIsTight == DenyInv => Tight
<1> SUFFICES ASSUME DenyInv PROVE Tight
  OBVIOUS
<1>1. DefaultDeny
  BY DenyImplies
<1>2. QED BY <1>1 DEF DefaultDeny, Leaks, Tight

\* Whether a chain leaks depends only on the chains.
LEMMA SameLeaks ==
    ASSUME UNCHANGED kernel
    PROVE  {c \in BaseChains : Leaks(c)}' = {c \in BaseChains : Leaks(c)}
BY DEF kernel, Leaks, Passes, Matches, chainHasDrop

\* Every command is a step of the killswitch, or none.
LEMMA CommandImplements ==
    ASSUME Tight, PhaseInv, RunCommand, Tight', PhaseInv'
    PROVE  [KS!Next]_KS!vars
<1>1. /\ todo # << >> /\ UNCHANGED <<op, phase>>
      /\ \/ cmd.do = "verify" /\ armed' = "yes"
         \/ armed' = armed
  BY CommandCourse
<1>2. op # "none" /\ ~Down /\ ~Down'
  BY <1>1 DEF PhaseInv, Down
<1>3. CASE op = "Setup" /\ armed # "yes" /\ armed' = "yes"
  <2>1. {c \in BaseChains : Leaks(c)}' = {}
    BY <1>3 DEF Tight
  <2>2. KS!Close
    BY <1>1, <1>2, <1>3, <2>1 DEF KS!Close, Down
  <2>3. QED BY <2>2 DEF KS!Next
<1>4. CASE op = "Setup" /\ armed # "yes" /\ armed' = armed
  <2>1. KS!Build
    BY <1>1, <1>2, <1>4 DEF KS!Build, Down
  <2>2. QED BY <2>1 DEF KS!Next
<1>5. CASE op = "Cleanup"
  <2>1. armed = "no" /\ armed' = "no"
    BY <1>1, <1>5 DEF PhaseInv
  <2>2. KS!Remove
    BY <1>1, <1>2, <1>5, <2>1 DEF KS!Remove, Down
  <2>3. QED BY <2>2 DEF KS!Next
<1>6. CASE op # "Cleanup" /\ armed = "yes"
  <2>1. armed' = "yes"
    BY <1>1, <1>6
  <2>2. {c \in BaseChains : Leaks(c)} = {} /\ {c \in BaseChains : Leaks(c)}' = {}
    BY <1>6, <2>1 DEF Tight
  <2>3. UNCHANGED KS!vars
    BY <1>1, <1>2, <1>6, <2>1, <2>2 DEF KS!vars, Down
  <2>4. QED BY <2>3
<1>7. QED BY <1>1, <1>2, <1>3, <1>4, <1>5, <1>6 DEF PhaseInv

\* So is every call, return, crash and restart: none of them touches the chains.
LEMMA CallerImplements ==
    ASSUME PhaseInv, Next, ~RunCommand, PhaseInv'
    PROVE  [KS!Next]_KS!vars
<1> DEFINE leaking == {c \in BaseChains : Leaks(c)}
<1> USE DEF PhaseInv, Down, Idle
<1>1. leaking' = leaking /\ leaking \subseteq BaseChains
  <2>1. UNCHANGED kernel
    BY DEF Next, Progress, StartSetup, SetupReturns, OpenExemption, OpenExemptions,
           CloseExemptions, BeginRoutes, BeginForward, Announce, BeginTeardown, ExemptReturns,
           UnexemptReturns, RoutesReturn, ForwardReturns, AnnounceReturns, TeardownReturns,
           BeginConnect, LeaveServices, BeginCleanup, CleanupReturns, ErrorExit, Crash, Dies,
           Stopped, Call, Returns, vars
  <2>2. QED BY <2>1, SameLeaks
<1> HIDE DEF leaking
<1>2. CASE StartSetup
  <2>1. KS!Start
    BY <1>1, <1>2 DEF StartSetup, Call, KS!Start, leaking
  <2>2. QED BY <2>1 DEF KS!Next
<1>3. CASE SetupReturns \/ CleanupReturns \/ ErrorExit \/ Crash
  <2>1. CASE SetupReturns /\ ~err
    <3>1. op = "Setup" /\ todo = << >> /\ op' = "none" /\ armed' = armed /\ phase' = "boot"
      BY <2>1 DEF SetupReturns, Returns
    <3>2. armed = "yes"
      BY <2>1, <3>1 DEF Awaited
    <3>3. UNCHANGED KS!vars
      BY <1>1, <3>1, <3>2 DEF KS!vars, leaking
    <3>4. QED BY <3>3
  <2>2. CASE ~(SetupReturns /\ ~err)
    <3>1. ~Down /\ Down' /\ op' = "none" /\ armed' = armed
      BY <1>3, <2>2 DEF SetupReturns, CleanupReturns, ErrorExit, Crash, Returns, Dies
    <3>2. KS!Exit
      BY <1>1, <3>1 DEF KS!Exit, leaking
    <3>3. QED BY <3>2 DEF KS!Next
  <2>3. QED BY <2>1, <2>2
<1>4. CASE \/ OpenExemption \/ OpenExemptions \/ CloseExemptions \/ BeginRoutes
           \/ BeginForward \/ Announce \/ BeginTeardown \/ BeginConnect \/ LeaveServices
           \/ ExemptReturns \/ UnexemptReturns \/ RoutesReturn
           \/ ForwardReturns \/ AnnounceReturns \/ TeardownReturns
  <2>1. /\ ~Down /\ armed' = armed /\ armed = "yes"
        /\ op \notin {"Setup", "Cleanup"} /\ op' \notin {"Setup", "Cleanup"}
    BY <1>4 DEF OpenExemption, OpenExemptions, CloseExemptions, BeginRoutes, BeginForward,
                Announce, BeginTeardown, BeginConnect, LeaveServices, ExemptReturns,
                UnexemptReturns, RoutesReturn, ForwardReturns, AnnounceReturns,
                TeardownReturns, Call, Returns, call
  <2>2. phase # "shutdown" \/ phase' = phase
    BY <1>4 DEF OpenExemption, OpenExemptions, CloseExemptions, BeginRoutes, BeginForward,
                Announce, BeginTeardown, BeginConnect, LeaveServices, ExemptReturns,
                UnexemptReturns, RoutesReturn, ForwardReturns, AnnounceReturns,
                TeardownReturns, Returns, caller
  <2>3. CASE Down'
    <3>1. KS!Exit
      BY <1>1, <2>1, <2>3 DEF KS!Exit, leaking
    <3>2. QED BY <3>1 DEF KS!Next
  <2>4. CASE ~Down' /\ phase' # phase /\ phase' = "shutdown"
    <3>1. KS!Request
      BY <1>1, <2>1, <2>2, <2>4 DEF KS!Request, leaking
    <3>2. QED BY <3>1 DEF KS!Next
  <2>5. CASE ~Down' /\ (phase' = phase \/ phase' # "shutdown")
    <3>1. UNCHANGED KS!vars
      BY <1>1, <2>1, <2>2, <2>5 DEF KS!vars, leaking
    <3>2. QED BY <3>1
  <2>6. QED BY <2>3, <2>4, <2>5
<1>5. CASE BeginCleanup
  <2>1. KS!Lift
    BY <1>1, <1>5 DEF BeginCleanup, Call, caller, KS!Lift, leaking
  <2>2. QED BY <2>1 DEF KS!Next
<1>6. CASE Stopped
  <2>1. UNCHANGED KS!vars
    BY <1>1, <1>6 DEF Stopped, vars, call, caller, KS!vars, leaking
  <2>2. QED BY <2>1
<1>7. QED BY <1>2, <1>3, <1>4, <1>5, <1>6 DEF Next, Progress

\* Firewall implements Killswitch: once the verification of Setup has succeeded,
\* no command, failure, call, crash or restart lets anything undesired through,
\* until Cleanup on a shutdown or the Setup of a new process.
THEOREM FirewallImplementsKillswitch == Spec => ImplementsKillswitch
<1>1. Init => DenyInv /\ PhaseInv
  <2>1. Init => PhaseInv
    BY DEF Init, PhaseInv, Down
  <2>2. QED BY <2>1, DenyInit
<1>2. DenyInv /\ PhaseInv /\ [Next]_vars => DenyInv' /\ PhaseInv'
  <2> SUFFICES ASSUME DenyInv, PhaseInv, [Next]_vars PROVE DenyInv' /\ PhaseInv'
    OBVIOUS
  <2>1. CASE UNCHANGED vars
    <3>1. DenyInv'
      BY <2>1 DEF vars, DenyInv, TypeOK, Contents, WiredExist, Closed, chainHasDrop, TodoInv,
                  VerifiedThenSafe, kernel, fields, call, caller, budgets
    <3>2. PhaseInv'
      BY <2>1 DEF vars, PhaseInv, Down, Awaited, call, caller
    <3>3. QED BY <3>1, <3>2
  <2>2. CASE Next
    <3>1. DenyInv'
      BY <2>2, TypeCommand, TypeCaller, DenyCommand, DenyCaller DEF DenyInv
    <3>2. PhaseInv'
      BY <2>2, PhaseCommand, PhaseCaller
    <3>3. QED BY <3>1, <3>2
  <2>3. QED BY <2>1, <2>2
<1>3. DenyInv => Tight
  BY ClosedIsTight
<1>4. Init => KS!Init
  <2> SUFFICES ASSUME Init PROVE KS!Init
    OBVIOUS
  <2>1. QED BY DEF Init, KS!Init, Down
<1>5. Tight /\ Tight' /\ PhaseInv /\ PhaseInv' /\ [Next]_vars => [KS!Next]_KS!vars
  <2> SUFFICES ASSUME Tight, Tight', PhaseInv, PhaseInv', [Next]_vars PROVE [KS!Next]_KS!vars
    OBVIOUS
  <2>1. CASE UNCHANGED vars
    <3>1. {c \in BaseChains : Leaks(c)}' = {c \in BaseChains : Leaks(c)}
      BY <2>1, SameLeaks DEF vars
    <3>2. UNCHANGED KS!vars
      BY <2>1, <3>1 DEF vars, call, caller, KS!vars, Down
    <3>3. QED BY <3>2
  <2>2. CASE Next
    BY <2>2, CommandImplements, CallerImplements
  <2>3. QED BY <2>1, <2>2
<1>6. QED BY <1>1, <1>2, <1>3, <1>4, <1>5, PTL DEF Spec, ImplementsKillswitch, KS!Spec

-----------------------------------------------------------------------------
(* The order of Setup.                                                     *)

\* The commands that follow the creation of VPN_OUT in Setup: they flush no
\* chain, add no jump to the exemptions, and to VPN_IN only rules of networks,
\* before its last rule.
Later ==
    {c \in Commands :
        /\ c.do \notin {"delete", "clear", "port"}
        /\ c.do = "new" => c.on \notin {ChainIn, ChainOut}
        /\ c.do \in Adds =>
              /\ c.rule # JumpExempt
              /\ c.on = ChainIn => c.do = "beforedrop" /\ c.rule # Drop /\ c.rule \notin PortRules}

\* Which rules are none of the three that matter.
LEMMA PlainRules ==
    ASSUME NEW r \in Rules, r.kind \notin {"jump", "drop", "tcp", "udp"}
    PROVE  r # JumpExempt /\ r # Drop /\ r \notin PortRules
<1>1. r # JumpExempt /\ r # Drop
  BY DEF JumpExempt, Drop, Rule
<1>2. r \notin PortRules
  BY DEF PortRules, PortRule, Rule
<1>3. QED BY <1>1, <1>2

\* The kinds of the rules that Setup adds.
LEMMA SetupRules ==
    /\ \A r \in {Established, Loopback, Fwmark, Iface, Icmp6} :
          r \in Rules /\ r # JumpExempt /\ r # Drop /\ r \notin PortRules
    /\ \A a \in Address :
          Lan(a) \in Rules /\ Lan(a) # JumpExempt /\ Lan(a) # Drop /\ Lan(a) \notin PortRules
    /\ \A i \in 1..2 : WanCheck(WANCheckIPs[i]) \in Rules /\ WanCheck(WANCheckIPs[i]) # JumpExempt
    /\ Drop \in Rules /\ Drop # JumpExempt
<1>1. \A r \in {Established, Loopback, Fwmark, Iface, Icmp6} :
         r \in Rules /\ r.kind \notin {"jump", "drop", "tcp", "udp"}
  BY RuleTypes DEF Established, Loopback, Fwmark, Iface, Icmp6, Rule
<1>2. \A a \in Address : Lan(a) \in Rules /\ Lan(a).kind \notin {"jump", "drop", "tcp", "udp"}
  BY RuleTypes DEF Lan, Rule
<1>3. \A i \in 1..2 : /\ WanCheck(WANCheckIPs[i]) \in Rules
                      /\ WanCheck(WANCheckIPs[i]).kind \notin {"jump", "drop", "tcp", "udp"}
  BY RuleTypes DEF WanCheck, Rule
<1>4. Drop \in Rules /\ Drop # JumpExempt
  BY RuleTypes DEF Drop, JumpExempt, Rule
<1>5. QED BY <1>1, <1>2, <1>3, <1>4, PlainRules

\* Commands that add rules, in the later part of Setup.
LEMMA LaterAdds ==
    /\ \A c \in {ChainOut, ChainIn6, ChainOut6}, r \in Rules :
          r # JumpExempt => /\ Append_(c, r, "return") \in Later
                            /\ Insert(c, 3, r, "return") \in Later
                            /\ insertBeforeDrop(c, r) \in Later
    /\ \A r \in Rules : r # JumpExempt /\ r # Drop /\ r \notin PortRules =>
          insertBeforeDrop(ChainIn, r) \in Later
    /\ \A c \in {ChainIn6, ChainOut6} : NewChain(c) \in Later
    /\ \A c \in BaseChains : InsertJump(c) \in Later
<1> USE ChainNames, RuleTypes DEF Later, Commands, CommandsOf, Command, Adds
<1>1. ASSUME NEW c \in {ChainOut, ChainIn6, ChainOut6}, NEW r \in Rules, r # JumpExempt
      PROVE  /\ Append_(c, r, "return") \in Later
             /\ Insert(c, 3, r, "return") \in Later
             /\ insertBeforeDrop(c, r) \in Later
  <2>1. c # ChainIn /\ c \in Chains
    BY DEF ChainIn, ChainOut, ChainIn6, ChainOut6
  <2>2. QED BY <1>1, <2>1 DEF Append_, Insert, insertBeforeDrop
<1>2. ASSUME NEW r \in Rules, r # JumpExempt, r # Drop, r \notin PortRules
      PROVE  insertBeforeDrop(ChainIn, r) \in Later
  BY <1>2 DEF insertBeforeDrop
<1>3. \A c \in {ChainIn6, ChainOut6} : NewChain(c) \in Later
  BY DEF NewChain, ChainIn, ChainOut, ChainIn6, ChainOut6
<1>4. \A c \in BaseChains : InsertJump(c) \in Later
  BY DEF InsertJump
<1>5. QED BY <1>1, <1>2, <1>3, <1>4

\* Commands that add no rule to a chain, in the later part of Setup.
LEMMA LaterOthers ==
    /\ \A p \in Prio : RuleFlush(p) \in Later
    /\ \A p \in Prio, d \in Destination : RuleAdd(p, d) \in Later
    /\ \A m \in MangleRules : MangleAppend(m) \in Later /\ MangleDelete(m) \in Later
    /\ Verify \in Later /\ Activate \in Later
<1> USE RuleTypes DEF Later, Commands, CommandsOf, Command, Adds
<1>1. \A p \in Prio : RuleFlush(p) \in Later
  BY DEF RuleFlush
<1>2. \A p \in Prio, d \in Destination : RuleAdd(p, d) \in Later
  BY DEF RuleAdd
<1>3. \A m \in MangleRules : MangleAppend(m) \in Later /\ MangleDelete(m) \in Later
  BY DEF MangleAppend, MangleDelete
<1>4. Verify \in Later /\ Activate \in Later
  BY DEF Verify, Activate
<1>5. QED BY <1>1, <1>2, <1>3, <1>4

\* The parts of Setup that come later.
LEMMA LaterScripts ==
    /\ Baseline(ChainIn6) \in Seq(Later) /\ Baseline(ChainOut6) \in Seq(Later)
    /\ setupLocalNetworks \in Seq(Later) /\ addVPN \in Seq(Later)
    /\ setupBypass \in Seq(Later) /\ setupIPv6 \in Seq(Later)
    /\ setupMSSClamping \in Seq(Later) /\ << Verify, Activate >> \in Seq(Later)
    /\ << >> \in Seq(Later)
<1>1. /\ Baseline(ChainIn6) \in Seq(Later) /\ Baseline(ChainOut6) \in Seq(Later)
  BY LaterAdds, SetupRules, ChainNames DEF Baseline
<1>2. setupLocalNetworks \in Seq(Later)
  <2>1. Lan4 \in Seq(Address) /\ Lan6 \in Seq(Address)
    BY ConfigAssumption DEF ConfigAssumption
  <2>2. ASSUME NEW nets \in Seq(Address), NEW p \in Prio PROVE RuleAdds(p, nets) \in Seq(Later)
    BY LaterOthers DEF RuleAdds, Destination
  <2>3. cleanupLocalRoutes \in Seq(Later)
    BY LaterOthers DEF cleanupLocalRoutes, Prio
  <2>4. setupLocalRoutes \in Seq(Later)
    BY <2>1, <2>2, <2>3, SeqConcat DEF setupLocalRoutes, Prio
  <2>5. ASSUME NEW nets \in Seq(Address), NEW in \in BaseChains, NEW out \in BaseChains
        PROVE  localRules(nets, in, out) \in Seq(Later)
    <3>1. ASSUME NEW i \in 1..(2 * Len(nets))
          PROVE  insertBeforeDrop(IF i % 2 = 1 THEN in ELSE out, Lan(nets[(i + 1) \div 2])) \in Later
      <4>1. (i + 1) \div 2 \in 1..Len(nets)
        OBVIOUS
      <4>2. \A c \in BaseChains : c = ChainIn \/ c \in {ChainOut, ChainIn6, ChainOut6}
        BY DEF BaseChains
      <4>3. \A c \in BaseChains : insertBeforeDrop(c, Lan(nets[(i + 1) \div 2])) \in Later
        BY <4>1, <4>2, LaterAdds, SetupRules
      <4>4. QED BY <4>3
    <3>2. QED BY <3>1 DEF localRules
  <2>6. setupLocalRules \in Seq(Later)
    BY <2>1, <2>5, SeqConcat, ChainNames DEF setupLocalRules
  <2>7. QED BY <2>4, <2>6, SeqConcat DEF setupLocalNetworks
<1>3. addVPN \in Seq(Later)
  <2>1. /\ << Insert(ChainOut, 3, Fwmark, "return"), Insert(ChainOut, 3, Iface, "return") >> \in Seq(Later)
        /\ << Insert(ChainOut6, 3, Iface, "return") >> \in Seq(Later)
        /\ << >> \in Seq(Later)
    BY LaterAdds, SetupRules
  <2>2. QED BY <2>1, SeqConcat DEF addVPN
<1>4. setupBypass \in Seq(Later)
  <2>1. WANCheckIPs \in Seq(Destination) /\ Len(WANCheckIPs) = 2
    BY DEF WANCheckIPs, Destination
  <2>2. \A i \in 1..2 : insertBeforeDrop(ChainOut, WanCheck(WANCheckIPs[i])) \in Later
    BY LaterAdds, SetupRules
  <2>3. insertBypassRules \in Seq(Later)
    BY <2>1, <2>2 DEF insertBypassRules
  <2>a. ASSUME NEW dests \in Seq(Destination), NEW p \in Prio PROVE RuleAdds(p, dests) \in Seq(Later)
    BY LaterOthers DEF RuleAdds
  <2>4. RuleAdds("bypass50", WANCheckIPs) \in Seq(Later)
    BY <2>1, <2>a DEF Prio
  <2>5. cleanupBypassRoutes \in Seq(Later)
    BY LaterOthers DEF cleanupBypassRoutes, Prio
  <2>6. QED BY <2>3, <2>4, <2>5, SeqConcat DEF setupBypass
<1>5. setupIPv6 \in Seq(Later)
  BY LaterAdds, SetupRules DEF setupIPv6
<1>6. setupMSSClamping \in Seq(Later)
  <2>1. /\ cleanupMSSClamping \in Seq(Later)
        /\ << MangleAppend("forward4"), MangleAppend("output4") >> \in Seq(Later)
        /\ << MangleAppend("forward6"), MangleAppend("output6") >> \in Seq(Later)
        /\ << >> \in Seq(Later)
    BY LaterOthers DEF cleanupMSSClamping, MangleRules
  <2>2. QED BY <2>1, SeqConcat DEF setupMSSClamping
<1>7. << Verify, Activate >> \in Seq(Later) /\ << >> \in Seq(Later)
  BY LaterOthers
<1>8. QED BY <1>1, <1>2, <1>3, <1>4, <1>5, <1>6, <1>7

\* How Setup begins: the old chains are removed, VPN_IN is built, VPN_OUT created.
Begins(s) ==
    /\ s \in Seq(Commands) /\ Len(s) >= 18
    /\ \A i \in 1..8 : s[i].do \in {"unwire", "clear"}
    /\ s[9] = NewChain(ChainIn)
    /\ s[10] = Append_(ChainIn, Established, "return")
    /\ s[11] = Append_(ChainIn, Loopback, "return")
    /\ s[12] = Append_(ChainIn, Drop, "return")
    /\ s[13] = InsertJump(ChainIn)
    /\ s[14] = NewChain(ChainOut)
    /\ \A i \in 15..Len(s) : s[i] \in Later

\* It begins no differently when more follows.
LEMMA BeginsLonger ==
    ASSUME NEW s, Begins(s), NEW t \in Seq(Later)
    PROVE  Begins(s \o t)
<1> DEFINE u == s \o t
<1>a. /\ s \in Seq(Commands) /\ Len(s) >= 18
      /\ \A i \in 1..8 : s[i].do \in {"unwire", "clear"}
      /\ \A i \in 15..Len(s) : s[i] \in Later
  BY DEF Begins
<1>1. s \in Seq(Commands) /\ t \in Seq(Commands) /\ Len(s) \in Nat /\ Len(t) \in Nat
  BY <1>a, SeqMonotone DEF Later
<1>2. /\ u \in Seq(Commands) /\ Len(u) = Len(s) + Len(t)
      /\ \A i \in 1..(Len(s) + Len(t)) : u[i] = IF i <= Len(s) THEN s[i] ELSE t[i - Len(s)]
  BY <1>1, ConcatProperties
<1> HIDE DEF u
<1>3. \A i \in 1..18 : u[i] = s[i]
  BY <1>a, <1>1, <1>2
<1>4. ASSUME NEW i \in 15..Len(u) PROVE u[i] \in Later
  <2>1. CASE i <= Len(s)
    <3>1. i \in 15..Len(s) /\ i \in 1..(Len(s) + Len(t))
      BY <1>1, <1>2, <2>1
    <3>2. u[i] = s[i]
      BY <1>2, <2>1, <3>1
    <3>3. QED BY <1>a, <3>1, <3>2
  <2>2. CASE i > Len(s)
    <3>1. i - Len(s) \in 1..Len(t) /\ u[i] = t[i - Len(s)]
      BY <1>1, <1>2, <2>2
    <3>2. QED BY <3>1
  <2>3. QED BY <1>1, <2>1, <2>2
<1>5. Len(u) >= 18
  BY <1>a, <1>1, <1>2
<1>6. Begins(u)
  <2>1. ASSUME NEW i \in 1..8 PROVE u[i].do \in {"unwire", "clear"}
    <3>1. u[i] = s[i]
      BY <1>3
    <3>2. QED BY <1>a, <3>1
  <2>2. /\ u[9] = s[9] /\ u[10] = s[10] /\ u[11] = s[11] /\ u[12] = s[12]
        /\ u[13] = s[13] /\ u[14] = s[14]
    BY <1>3
  <2>3. QED BY <1>2, <1>4, <1>5, <2>1, <2>2 DEF Begins
<1>7. QED BY <1>6 DEF u

\* Setup begins like this, and ends with its only verification and active.
LEMMA SetupAt ==
    /\ Begins(Setup)
    /\ Setup[Len(Setup)] = Activate
    /\ \A i \in 1..Len(Setup) : Setup[i].do = "verify" => i = Len(Setup) - 1
<1> DEFINE in == cleanupChains \o Baseline(ChainIn)
           out == in \o Baseline(ChainOut)
<1>1. /\ cleanupChains \in Seq(Commands) /\ Len(cleanupChains) = 8
      /\ \A i \in 1..8 : cleanupChains[i].do \in {"unwire", "clear"}
  <2>1. cleanupChains \in Seq(Commands)
    BY CleanupChainsQuiet, Inclusions
  <2>2. \A c \in Chains : DeleteJump(c).do = "unwire" /\ ClearAndDeleteChain(c).do = "clear"
    BY DEF DeleteJump, ClearAndDeleteChain, Command
  <2>3. Len(cleanupChains) = 8
    BY DEF cleanupChains
  <2>4. \A i \in 1..8 : \E c \in Chains : cleanupChains[i] \in {DeleteJump(c), ClearAndDeleteChain(c)}
    BY ChainNames DEF cleanupChains
  <2>5. QED BY <2>1, <2>2, <2>3, <2>4
<1>2. \A c \in BaseChains :
         /\ Baseline(c) \in Seq(Commands) /\ Len(Baseline(c)) = 5
         /\ Baseline(c)[1] = NewChain(c)
         /\ Baseline(c)[2] = Append_(c, Established, "return")
         /\ Baseline(c)[3] = Append_(c, Loopback, "return")
         /\ Baseline(c)[4] = Append_(c, Drop, "return")
         /\ Baseline(c)[5] = InsertJump(c)
  BY BaselineSafe, Inclusions DEF Baseline
<1> HIDE DEF in, out
<1>3. /\ in \in Seq(Commands) /\ Len(in) = 13
      /\ \A i \in 1..13 : in[i] = IF i <= 8 THEN cleanupChains[i] ELSE Baseline(ChainIn)[i - 8]
  <2>1. in = cleanupChains \o Baseline(ChainIn)
    BY DEF in
  <2>2. Baseline(ChainIn) \in Seq(Commands) /\ Len(Baseline(ChainIn)) = 5
    BY <1>2, ChainNames
  <2>3. /\ in \in Seq(Commands) /\ Len(in) = Len(cleanupChains) + Len(Baseline(ChainIn))
        /\ \A i \in 1..(Len(cleanupChains) + Len(Baseline(ChainIn))) :
              in[i] = IF i <= Len(cleanupChains) THEN cleanupChains[i]
                      ELSE Baseline(ChainIn)[i - Len(cleanupChains)]
    BY <1>1, <2>1, <2>2, ConcatProperties
  <2>4. QED BY <1>1, <2>2, <2>3
<1>4. /\ out \in Seq(Commands) /\ Len(out) = 18
      /\ \A i \in 1..18 : out[i] = IF i <= 13 THEN in[i] ELSE Baseline(ChainOut)[i - 13]
  <2>1. out = in \o Baseline(ChainOut)
    BY DEF out
  <2>2. Baseline(ChainOut) \in Seq(Commands) /\ Len(Baseline(ChainOut)) = 5
    BY <1>2, ChainNames
  <2>3. /\ out \in Seq(Commands) /\ Len(out) = Len(in) + Len(Baseline(ChainOut))
        /\ \A i \in 1..(Len(in) + Len(Baseline(ChainOut))) :
              out[i] = IF i <= Len(in) THEN in[i] ELSE Baseline(ChainOut)[i - Len(in)]
    BY <1>3, <2>1, <2>2, ConcatProperties
  <2>4. QED BY <1>3, <2>2, <2>3
<1>5. Begins(out)
  <2>1. \A i \in 1..8 : out[i].do \in {"unwire", "clear"}
    <3>1. \A i \in 1..8 : out[i] = in[i] /\ in[i] = cleanupChains[i]
      BY <1>3, <1>4
    <3>2. QED BY <1>1, <3>1
  <2>2. /\ out[9] = NewChain(ChainIn) /\ out[10] = Append_(ChainIn, Established, "return")
        /\ out[11] = Append_(ChainIn, Loopback, "return")
        /\ out[12] = Append_(ChainIn, Drop, "return") /\ out[13] = InsertJump(ChainIn)
    <3>1. \A i \in 9..13 : out[i] = in[i] /\ in[i] = Baseline(ChainIn)[i - 8]
      BY <1>3, <1>4
    <3>2. /\ out[9] = Baseline(ChainIn)[1] /\ out[10] = Baseline(ChainIn)[2]
          /\ out[11] = Baseline(ChainIn)[3] /\ out[12] = Baseline(ChainIn)[4]
          /\ out[13] = Baseline(ChainIn)[5]
      BY <3>1
    <3>3. QED BY <1>2, <3>2, ChainNames
  <2>3. /\ out[14] = NewChain(ChainOut) /\ out[15] = Append_(ChainOut, Established, "return")
        /\ out[16] = Append_(ChainOut, Loopback, "return")
        /\ out[17] = Append_(ChainOut, Drop, "return") /\ out[18] = InsertJump(ChainOut)
    BY <1>2, <1>4, ChainNames
  <2>4. /\ Append_(ChainOut, Established, "return") \in Later
        /\ Append_(ChainOut, Loopback, "return") \in Later
        /\ Append_(ChainOut, Drop, "return") \in Later /\ InsertJump(ChainOut) \in Later
    BY LaterAdds, SetupRules, ChainNames
  <2>5. \A i \in 15..18 : out[i] \in Later
    BY <2>3, <2>4
  <2>6. QED BY <1>4, <2>1, <2>2, <2>3, <2>5 DEF Begins
<1>6. Begins(setupBaselineChains)
  <2>1. setupBaselineChains = (out \o Baseline(ChainIn6)) \o Baseline(ChainOut6)
    BY DEF setupBaselineChains, in, out
  <2>2. QED BY <1>5, <2>1, BeginsLonger, LaterScripts
<1>7. Begins(SetupBody)
  <2>1. (IF LocalNets THEN setupLocalNetworks ELSE << >>) \in Seq(Later)
    BY LaterScripts
  <2>2. QED BY <1>6, <2>1, BeginsLonger, LaterScripts DEF SetupBody
<1>8. Setup = SetupBody \o << Verify, Activate >>
  BY DEF Setup, SetupBody
<1>9. Begins(Setup)
  BY <1>7, <1>8, BeginsLonger, LaterScripts
<1>10. /\ Setup[Len(Setup)] = Activate
       /\ \A i \in 1..Len(Setup) : Setup[i].do = "verify" => i = Len(Setup) - 1
  <2> DEFINE tail == << Verify, Activate >>
  <2>1. tail \in Seq(Legal) /\ Len(tail) = 2 /\ tail[2] = Activate
    BY KernelCommands, Inclusions
  <2>2. SetupBody \in Seq(Legal) /\ \A i \in 1..Len(SetupBody) : SetupBody[i].do # "verify"
    BY SetupBodyQuiet, QuietVerified DEF Quiet
  <2>3. Setup = SetupBody \o tail
    BY <1>8
  <2> HIDE DEF tail, Setup, SetupBody
  <2>4. /\ Setup \in Seq(Legal) /\ Len(Setup) = Len(SetupBody) + Len(tail)
        /\ \A i \in 1..(Len(SetupBody) + Len(tail)) :
              Setup[i] = IF i <= Len(SetupBody) THEN SetupBody[i] ELSE tail[i - Len(SetupBody)]
    BY <2>1, <2>2, <2>3, ConcatProperties
  <2>5. Len(SetupBody) \in Nat /\ Len(Setup) = Len(SetupBody) + 2
    BY <2>1, <2>2, <2>4
  <2>6. Setup[Len(Setup)] = Activate
    BY <2>1, <2>4, <2>5
  <2>7. Activate.do # "verify"
    BY DEF Activate, Command
  <2>8. ASSUME NEW i \in 1..Len(Setup), Setup[i].do = "verify" PROVE i = Len(Setup) - 1
    <3>1. i > Len(SetupBody)
      BY <2>1, <2>2, <2>4, <2>5, <2>8
    <3>2. QED BY <2>5, <2>6, <2>7, <2>8, <3>1
  <2>9. QED BY <2>6, <2>8
<1>11. QED BY <1>9, <1>10

-----------------------------------------------------------------------------
(* The callers' course.                                                    *)

\* The phases in which each method is called, and those in which a scope of
\* exemptions or an announced port can be open.
CourseInv ==
    /\ op \in {"Exempt", "Unexempt"} => phase \in {"boot", "fetch", "connect"}
    /\ op = "DNSRoutes" => phase = "registered"
    /\ op = "PFRoute" => phase = "services"
    /\ op \in {"AllowPort", "Teardown"} => phase = "forward"
    /\ held # {} => phase \in {"boot", "fetch", "connect"} /\ op # "Setup"
    /\ announced # NoPort => phase = "forward" /\ op # "Teardown"

\* A command changes neither the method that runs it nor its caller.
LEMMA CommandCaller ==
    ASSUME RunCommand
    PROVE  todo # << >> /\ UNCHANGED <<op, phase, held, announced, crashes, starts>>
<1> USE DEF caller, budgets
<1>1. CASE RunNewChain \/ RunAppend \/ RunInsert \/ RunInsertBeforeDrop
  BY <1>1 DEF RunNewChain, RunAppend, RunInsert, RunInsertBeforeDrop, Runs
<1>2. CASE RunDelete \/ RunClear \/ RunWire \/ RunRule \/ RunMangle
  BY <1>2 DEF RunDelete, RunClear, RunWire, RunRule, RunMangle, Runs
<1>3. CASE RunVerify \/ RunField
  BY <1>3 DEF RunVerify, RunField, Runs
<1>4. CASE FailCommand \/ FailClear \/ FailFlush
  BY <1>4 DEF FailCommand, FailClear, FailFlush, Fails
<1>5. QED BY <1>1, <1>2, <1>3, <1>4 DEF RunCommand

\* Methods are called in the phases the callers' code puts them in.
LEMMA CourseStep ==
    ASSUME CourseInv, PhaseInv, Next
    PROVE  CourseInv'
<1> USE DEF CourseInv, Idle
<1>1. CASE RunCommand
  BY <1>1, CommandCaller
<1>2. CASE StartSetup \/ SetupReturns
  BY <1>2 DEF StartSetup, SetupReturns, Call, Returns, PhaseInv, Down
<1>3. CASE OpenExemption \/ OpenExemptions
  BY <1>3 DEF OpenExemption, OpenExemptions, Call
<1>4. CASE CloseExemptions
  BY <1>4 DEF CloseExemptions, Call, caller
<1>5. CASE ExemptReturns \/ UnexemptReturns
  BY <1>5 DEF ExemptReturns, UnexemptReturns, Returns
<1>6. CASE BeginConnect \/ BeginRoutes \/ RoutesReturn
  BY <1>6 DEF BeginConnect, BeginRoutes, RoutesReturn, Call, Returns, call, caller
<1>7. CASE BeginForward \/ ForwardReturns
  BY <1>7 DEF BeginForward, ForwardReturns, Call, Returns, caller
<1>8. CASE Announce \/ AnnounceReturns
  BY <1>8 DEF Announce, AnnounceReturns, Call, Returns, caller
<1>9. CASE BeginTeardown
  BY <1>9 DEF BeginTeardown, Call
<1>10. CASE TeardownReturns
  BY <1>10 DEF TeardownReturns, Returns
<1>11. CASE LeaveServices \/ BeginCleanup \/ CleanupReturns
  BY <1>11 DEF LeaveServices, BeginCleanup, CleanupReturns, Call, Returns, call, caller, PhaseInv
<1>12. CASE ErrorExit \/ Crash \/ Stopped
  BY <1>12 DEF ErrorExit, Crash, Stopped, Dies, vars, call, caller
<1>13. QED
  BY <1>1, <1>2, <1>3, <1>4, <1>5, <1>6, <1>7, <1>8, <1>9, <1>10, <1>11, <1>12
     DEF Next, Progress

\* Calls, returns, crashes and restarts run no command.
LEMMA CallerFrame ==
    ASSUME Next, ~RunCommand
    PROVE  UNCHANGED <<chain, exists, wired, iprules, mangle, failures>>
BY DEF Next, Progress, StartSetup, SetupReturns, OpenExemption, OpenExemptions,
       CloseExemptions, BeginRoutes, BeginForward, Announce, BeginTeardown, ExemptReturns,
       UnexemptReturns, RoutesReturn, ForwardReturns, AnnounceReturns, TeardownReturns,
       BeginConnect, LeaveServices, BeginCleanup, CleanupReturns, ErrorExit, Crash, Dies,
       Stopped, Call, Returns, vars, kernel, budgets

\* What is left of a script once its first command is taken off.
LEMMA Rest ==
    ASSUME NEW S, NEW s \in Seq(S), s # << >>
    PROVE  /\ Tail(s) \in Seq(S) /\ Head(s) \in S /\ Head(s) = s[1]
           /\ Len(s) \in Nat \ {0} /\ Len(Tail(s)) = Len(s) - 1
           /\ \A i \in 1..Len(Tail(s)) : Tail(s)[i] = s[i + 1] /\ i + 1 \in 1..Len(s)
           /\ \A i \in 1..Len(s) : i # 1 => i - 1 \in 1..Len(Tail(s)) /\ Tail(s)[i - 1] = s[i]
<1>1. /\ Tail(s) \in Seq(S) /\ Head(s) \in S /\ Head(s) = s[1]
      /\ Len(s) \in Nat \ {0} /\ Len(Tail(s)) = Len(s) - 1
      /\ \A i \in 1..Len(Tail(s)) : Tail(s)[i] = s[i + 1]
  BY HeadTailProperties
<1>2. \A i \in 1..Len(Tail(s)) : i + 1 \in 1..Len(s)
  BY <1>1
<1>3. \A i \in 1..Len(s) : i # 1 => i - 1 \in 1..Len(Tail(s)) /\ Tail(s)[i - 1] = s[i]
  BY <1>1
<1>4. QED BY <1>1, <1>2, <1>3

-----------------------------------------------------------------------------
(* What is left of each script.                                            *)

\* s is the rest of the script t.
RestOf(s, t) ==
    /\ Len(s) <= Len(t)
    /\ \A i \in 1..Len(s) : s[i] = t[Len(t) - Len(s) + i]

\* How many commands of the running method's script t are behind it.
Ran(t) == Len(t) - Len(todo)

ScriptInv ==
    /\ op = "Setup" => RestOf(todo, Setup)
    /\ op = "Cleanup" => RestOf(todo, Cleanup)
    /\ op = "Unexempt" => RestOf(todo, RemoveExemptions)
    /\ op = "DNSRoutes" /\ PIAMode => RestOf(todo, AddPIADNSRoutes(PIADNS))
    /\ op = "DNSRoutes" /\ ~PIAMode => todo = << >>
    /\ op = "PFRoute" => RestOf(todo, AddPFRoute(PFGateway))
    /\ op = "AllowPort" /\ todo # << >> =>
          announced \in Port /\ RestOf(todo, AllowForwardedPort(activePort, announced))
    /\ op = "Teardown" => RestOf(todo, teardown(activePort))

\* A script is its own rest, and so is nothing.
LEMMA RestWhole ==
    ASSUME NEW t \in Seq(Commands)
    PROVE  RestOf(t, t) /\ RestOf(<< >>, t)
BY DEF RestOf

\* The rest of a script begins with the next command of the script.
LEMMA RestNext ==
    ASSUME NEW s \in Seq(Commands), NEW t \in Seq(Commands), RestOf(s, t), s # << >>
    PROVE  /\ RestOf(Tail(s), t) /\ Len(Tail(s)) = Len(s) - 1
           /\ Len(s) \in 1..Len(t) /\ Len(t) \in Nat
           /\ Head(s) = t[Len(t) - Len(s) + 1]
<1>1. /\ Tail(s) \in Seq(Commands) /\ Head(s) = s[1]
      /\ Len(s) \in Nat \ {0} /\ Len(Tail(s)) = Len(s) - 1
      /\ \A i \in 1..Len(Tail(s)) : Tail(s)[i] = s[i + 1] /\ i + 1 \in 1..Len(s)
  BY Rest
<1>2. Len(t) \in Nat /\ Len(s) <= Len(t) /\ \A i \in 1..Len(s) : s[i] = t[Len(t) - Len(s) + i]
  BY DEF RestOf
<1>3. ASSUME NEW i \in 1..Len(Tail(s)) PROVE Tail(s)[i] = t[Len(t) - Len(Tail(s)) + i]
  <2>1. s[i + 1] = t[Len(t) - Len(s) + (i + 1)]
    BY <1>1, <1>2
  <2>2. Len(t) - Len(Tail(s)) + i = Len(t) - Len(s) + (i + 1)
    BY <1>1, <1>2
  <2>3. QED BY <1>1, <2>1, <2>2
<1>4. RestOf(Tail(s), t)
  BY <1>1, <1>2, <1>3 DEF RestOf
<1>5. Head(s) = t[Len(t) - Len(s) + 1]
  BY <1>1, <1>2
<1>6. QED BY <1>1, <1>2, <1>4, <1>5

\* The commands of AllowForwardedPort and of teardown.
LEMMA PortScriptsAt ==
    ASSUME NEW old \in Port \cup {NoPort}
    PROVE  /\ \A p \in Port :
                 LET t == AllowForwardedPort(old, p) IN
                 /\ t \in Seq(Commands) /\ Len(t) = (IF old = NoPort THEN 3 ELSE 5)
                 /\ t[Len(t)] = SetActivePort(p)
                 /\ t[Len(t) - 1] = Insert(ChainIn, 3, PortRule("udp", p), "return")
                 /\ t[Len(t) - 2] = Insert(ChainIn, 3, PortRule("tcp", p), "return")
                 /\ Len(t) = 5 => /\ t[1] = Delete(ChainIn, PortRule("tcp", old))
                                  /\ t[2] = Delete(ChainIn, PortRule("udp", old))
           /\ LET t == teardown(old) IN
              /\ t \in Seq(Commands) /\ Len(t) = (IF old = NoPort THEN 1 ELSE 3)
              /\ t[1] = RuleDel("pia75", PFGateway)
              /\ Len(t) = 3 => /\ t[2] = Delete(ChainIn, PortRule("tcp", old))
                               /\ t[3] = Delete(ChainIn, PortRule("udp", old))
<1> DEFINE r == RemoveForwardedPort(old)
           n == IF old = NoPort THEN 0 ELSE 2
<1>1. /\ Len(r) = n
      /\ old # NoPort => /\ r[1] = Delete(ChainIn, PortRule("tcp", old))
                         /\ r[2] = Delete(ChainIn, PortRule("udp", old))
  BY DEF RemoveForwardedPort
<1>2. r \in Seq(Safe)
  BY PortScriptsSafe
<1>3. ASSUME NEW p \in Port
      PROVE  LET t == AllowForwardedPort(old, p) IN
             /\ t \in Seq(Commands) /\ Len(t) = (IF old = NoPort THEN 3 ELSE 5)
             /\ t[Len(t)] = SetActivePort(p)
             /\ t[Len(t) - 1] = Insert(ChainIn, 3, PortRule("udp", p), "return")
             /\ t[Len(t) - 2] = Insert(ChainIn, 3, PortRule("tcp", p), "return")
             /\ Len(t) = 5 => /\ t[1] = Delete(ChainIn, PortRule("tcp", old))
                              /\ t[2] = Delete(ChainIn, PortRule("udp", old))
  <2> DEFINE i == << Insert(ChainIn, 3, PortRule("tcp", p), "return"),
                     Insert(ChainIn, 3, PortRule("udp", p), "return"), SetActivePort(p) >>
             t == AllowForwardedPort(old, p)
  <2>1. i \in Seq(Safe)
    <3>1. \A proto \in {"tcp", "udp"} : Insert(ChainIn, 3, PortRule(proto, p), "return") \in Safe
      BY AddingCommands, AllowedRules, RuleTypes, ChainNames
    <3>2. QED BY <3>1, KernelCommands
  <2>2. /\ Len(i) = 3
        /\ i[1] = Insert(ChainIn, 3, PortRule("tcp", p), "return")
        /\ i[2] = Insert(ChainIn, 3, PortRule("udp", p), "return") /\ i[3] = SetActivePort(p)
    OBVIOUS
  <2>3. t = r \o i
    BY DEF AllowForwardedPort
  <2> HIDE DEF i, t, r
  <2>4. /\ t \in Seq(Safe) /\ Len(t) = Len(r) + Len(i)
        /\ \A k \in 1..(Len(r) + Len(i)) : t[k] = IF k <= Len(r) THEN r[k] ELSE i[k - Len(r)]
    BY <1>2, <2>1, <2>3, ConcatProperties
  <2>5. /\ Len(t) = n + 3
        /\ \A k \in 1..(n + 3) : t[k] = IF k <= n THEN r[k] ELSE i[k - n]
    BY <1>1, <2>2, <2>4
  <2>6. /\ t \in Seq(Commands) /\ Len(t) = (IF old = NoPort THEN 3 ELSE 5)
        /\ t[Len(t)] = SetActivePort(p)
        /\ t[Len(t) - 1] = Insert(ChainIn, 3, PortRule("udp", p), "return")
        /\ t[Len(t) - 2] = Insert(ChainIn, 3, PortRule("tcp", p), "return")
        /\ Len(t) = 5 => /\ t[1] = Delete(ChainIn, PortRule("tcp", old))
                         /\ t[2] = Delete(ChainIn, PortRule("udp", old))
    <3>1. t \in Seq(Commands)
      BY <2>4, Inclusions
    <3>2. CASE old = NoPort
      BY <1>1, <2>2, <2>5, <3>1, <3>2
    <3>3. CASE old # NoPort
      BY <1>1, <2>2, <2>5, <3>1, <3>3
    <3>4. QED BY <3>2, <3>3
  <2>7. QED BY <2>6 DEF t
<1>4. LET t == teardown(old) IN
      /\ t \in Seq(Commands) /\ Len(t) = (IF old = NoPort THEN 1 ELSE 3)
      /\ t[1] = RuleDel("pia75", PFGateway)
      /\ Len(t) = 3 => /\ t[2] = Delete(ChainIn, PortRule("tcp", old))
                       /\ t[3] = Delete(ChainIn, PortRule("udp", old))
  <2> DEFINE d == << RuleDel("pia75", PFGateway) >>
             t == teardown(old)
  <2>1. d \in Seq(Safe) /\ Len(d) = 1 /\ d[1] = RuleDel("pia75", PFGateway)
    BY KernelCommands DEF Prio, Destination
  <2>3. t = d \o r
    BY DEF teardown, RemovePFRoute
  <2> HIDE DEF d, t, r
  <2>4. /\ t \in Seq(Safe) /\ Len(t) = Len(d) + Len(r)
        /\ \A k \in 1..(Len(d) + Len(r)) : t[k] = IF k <= Len(d) THEN d[k] ELSE r[k - Len(d)]
    BY <1>2, <2>1, <2>3, ConcatProperties
  <2>5. /\ Len(t) = 1 + n
        /\ \A k \in 1..(1 + n) : t[k] = IF k <= 1 THEN d[k] ELSE r[k - 1]
    BY <1>1, <2>1, <2>4
  <2>6. /\ t \in Seq(Commands) /\ Len(t) = (IF old = NoPort THEN 1 ELSE 3)
        /\ t[1] = RuleDel("pia75", PFGateway)
        /\ Len(t) = 3 => /\ t[2] = Delete(ChainIn, PortRule("tcp", old))
                         /\ t[3] = Delete(ChainIn, PortRule("udp", old))
    <3>1. t \in Seq(Commands)
      BY <2>4, Inclusions
    <3>2. CASE old = NoPort
      BY <1>1, <2>1, <2>5, <3>1, <3>2
    <3>3. CASE old # NoPort
      BY <1>1, <2>1, <2>5, <3>1, <3>3
    <3>4. QED BY <3>2, <3>3
  <2>7. QED BY <2>6 DEF t
<1>5. QED BY <1>3, <1>4

\* The next command of AllowForwardedPort, by the number of commands left.
LEMMA AllowNext ==
    ASSUME TypeOK, ScriptInv
    PROVE  op = "AllowPort" /\ todo # << >> =>
           /\ announced \in Port /\ Len(todo) \in 1..5 /\ (activePort = NoPort => Len(todo) \in 1..3)
           /\ Len(todo) = 1 => cmd = SetActivePort(announced)
           /\ Len(todo) = 2 => cmd = Insert(ChainIn, 3, PortRule("udp", announced), "return")
           /\ Len(todo) = 3 => cmd = Insert(ChainIn, 3, PortRule("tcp", announced), "return")
           /\ Len(todo) = 4 => cmd = Delete(ChainIn, PortRule("udp", activePort))
           /\ Len(todo) = 5 => cmd = Delete(ChainIn, PortRule("tcp", activePort))
<1>0. SUFFICES ASSUME op = "AllowPort", todo # << >>
      PROVE /\ announced \in Port /\ Len(todo) \in 1..5 /\ (activePort = NoPort => Len(todo) \in 1..3)
            /\ Len(todo) = 1 => cmd = SetActivePort(announced)
            /\ Len(todo) = 2 => cmd = Insert(ChainIn, 3, PortRule("udp", announced), "return")
            /\ Len(todo) = 3 => cmd = Insert(ChainIn, 3, PortRule("tcp", announced), "return")
            /\ Len(todo) = 4 => cmd = Delete(ChainIn, PortRule("udp", activePort))
            /\ Len(todo) = 5 => cmd = Delete(ChainIn, PortRule("tcp", activePort))
  OBVIOUS
<1> DEFINE t == AllowForwardedPort(activePort, announced)
<1>1. announced \in Port /\ RestOf(todo, t) /\ activePort \in Port \cup {NoPort}
  BY <1>0 DEF ScriptInv, TypeOK
<1>2. /\ t \in Seq(Commands) /\ Len(t) = (IF activePort = NoPort THEN 3 ELSE 5)
      /\ t[Len(t)] = SetActivePort(announced)
      /\ t[Len(t) - 1] = Insert(ChainIn, 3, PortRule("udp", announced), "return")
      /\ t[Len(t) - 2] = Insert(ChainIn, 3, PortRule("tcp", announced), "return")
      /\ Len(t) = 5 => /\ t[1] = Delete(ChainIn, PortRule("tcp", activePort))
                       /\ t[2] = Delete(ChainIn, PortRule("udp", activePort))
  BY <1>1, PortScriptsAt
<1> HIDE DEF t
<1>3. Len(todo) \in 1..Len(t) /\ cmd = t[Len(t) - Len(todo) + 1]
  BY <1>0, <1>1, <1>2, RestNext DEF TypeOK, cmd
<1>4. CASE activePort = NoPort
  <2>1. /\ Len(t) = 3 /\ t[3] = SetActivePort(announced)
        /\ t[2] = Insert(ChainIn, 3, PortRule("udp", announced), "return")
        /\ t[1] = Insert(ChainIn, 3, PortRule("tcp", announced), "return")
    BY <1>2, <1>4
  <2>2. Len(todo) \in 1..3 /\ cmd = t[3 - Len(todo) + 1]
    BY <1>3, <2>1
  <2>3. Len(todo) = 1 \/ Len(todo) = 2 \/ Len(todo) = 3
    BY <2>2
  <2>4. /\ Len(todo) = 1 => cmd = t[3]
        /\ Len(todo) = 2 => cmd = t[2]
        /\ Len(todo) = 3 => cmd = t[1]
    <3>1. Len(todo) = 1 => cmd = t[3]
      BY <2>2
    <3>2. Len(todo) = 2 => cmd = t[2]
      BY <2>2
    <3>3. Len(todo) = 3 => cmd = t[1]
      BY <2>2
    <3>4. QED BY <3>1, <3>2, <3>3
  <2>5. Len(todo) \in 1..3
    BY <2>2
  <2>6. Len(todo) \in 1..5 /\ Len(todo) \in 1..3 /\ Len(todo) # 4 /\ Len(todo) # 5
    <3>1. Len(todo) \in 1..5
      BY <2>5
    <3>2. Len(todo) \in 1..3
      BY <2>5
    <3>3. Len(todo) # 4
      BY <2>5
    <3>4. Len(todo) # 5
      BY <2>5
    <3>5. QED BY <3>1, <3>2, <3>3, <3>4
  <2>7. QED BY <1>1, <1>4, <2>1, <2>4, <2>5, <2>6
<1>5. CASE activePort # NoPort
  <2>1. /\ Len(t) = 5 /\ t[5] = SetActivePort(announced)
        /\ t[4] = Insert(ChainIn, 3, PortRule("udp", announced), "return")
        /\ t[3] = Insert(ChainIn, 3, PortRule("tcp", announced), "return")
        /\ t[1] = Delete(ChainIn, PortRule("tcp", activePort))
        /\ t[2] = Delete(ChainIn, PortRule("udp", activePort))
    BY <1>2, <1>5
  <2>2. Len(todo) \in 1..5 /\ cmd = t[5 - Len(todo) + 1]
    BY <1>3, <2>1
  <2>3. Len(todo) = 1 \/ Len(todo) = 2 \/ Len(todo) = 3 \/ Len(todo) = 4 \/ Len(todo) = 5
    BY <2>2
  <2>4. /\ Len(todo) = 1 => cmd = t[5]
        /\ Len(todo) = 2 => cmd = t[4]
        /\ Len(todo) = 3 => cmd = t[3]
        /\ Len(todo) = 4 => cmd = t[2]
        /\ Len(todo) = 5 => cmd = t[1]
    <3>1. Len(todo) = 1 => cmd = t[5]
      BY <2>2
    <3>2. Len(todo) = 2 => cmd = t[4]
      BY <2>2
    <3>3. Len(todo) = 3 => cmd = t[3]
      BY <2>2
    <3>4. Len(todo) = 4 => cmd = t[2]
      BY <2>2
    <3>5. Len(todo) = 5 => cmd = t[1]
      BY <2>2
    <3>6. QED BY <3>1, <3>2, <3>3, <3>4, <3>5
  <2>5. QED BY <1>1, <1>5, <2>1, <2>2, <2>3, <2>4
<1>6. QED BY <1>4, <1>5

\* The next command of teardown, by the number of commands left.
LEMMA TeardownNext ==
    ASSUME TypeOK, ScriptInv
    PROVE  op = "Teardown" /\ todo # << >> =>
           /\ Len(todo) \in 1..3 /\ (activePort = NoPort => Len(todo) = 1)
           /\ activePort = NoPort => cmd = RuleDel("pia75", PFGateway)
           /\ activePort # NoPort /\ Len(todo) = 1 => cmd = Delete(ChainIn, PortRule("udp", activePort))
           /\ Len(todo) = 2 => cmd = Delete(ChainIn, PortRule("tcp", activePort))
           /\ Len(todo) = 3 => cmd = RuleDel("pia75", PFGateway)
<1>0. SUFFICES ASSUME op = "Teardown", todo # << >>
      PROVE /\ Len(todo) \in 1..3 /\ (activePort = NoPort => Len(todo) = 1)
            /\ activePort = NoPort => cmd = RuleDel("pia75", PFGateway)
            /\ activePort # NoPort /\ Len(todo) = 1 => cmd = Delete(ChainIn, PortRule("udp", activePort))
            /\ Len(todo) = 2 => cmd = Delete(ChainIn, PortRule("tcp", activePort))
            /\ Len(todo) = 3 => cmd = RuleDel("pia75", PFGateway)
  OBVIOUS
<1> DEFINE t == teardown(activePort)
<1>1. RestOf(todo, t) /\ activePort \in Port \cup {NoPort}
  BY <1>0 DEF ScriptInv, TypeOK
<1>2. /\ t \in Seq(Commands) /\ Len(t) = (IF activePort = NoPort THEN 1 ELSE 3)
      /\ t[1] = RuleDel("pia75", PFGateway)
      /\ Len(t) = 3 => /\ t[2] = Delete(ChainIn, PortRule("tcp", activePort))
                       /\ t[3] = Delete(ChainIn, PortRule("udp", activePort))
  BY <1>1, PortScriptsAt
<1> HIDE DEF t
<1>3. Len(todo) \in 1..Len(t) /\ cmd = t[Len(t) - Len(todo) + 1]
  BY <1>0, <1>1, <1>2, RestNext DEF TypeOK, cmd
<1>4. CASE activePort = NoPort
  <2>1. Len(t) = 1 /\ t[1] = RuleDel("pia75", PFGateway)
    BY <1>2, <1>4
  <2>2. Len(todo) = 1 /\ cmd = t[1 - Len(todo) + 1]
    BY <1>3, <2>1
  <2>3. QED BY <1>4, <2>1, <2>2
<1>5. CASE activePort # NoPort
  <2>1. /\ Len(t) = 3 /\ t[1] = RuleDel("pia75", PFGateway)
        /\ t[2] = Delete(ChainIn, PortRule("tcp", activePort))
        /\ t[3] = Delete(ChainIn, PortRule("udp", activePort))
    BY <1>2, <1>5
  <2>2. Len(todo) \in 1..3 /\ cmd = t[3 - Len(todo) + 1]
    BY <1>3, <2>1
  <2>3. Len(todo) = 1 \/ Len(todo) = 2 \/ Len(todo) = 3
    BY <2>2
  <2>4. /\ Len(todo) = 1 => cmd = t[3]
        /\ Len(todo) = 2 => cmd = t[2]
        /\ Len(todo) = 3 => cmd = t[1]
    <3>1. Len(todo) = 1 => cmd = t[3]
      BY <2>2
    <3>2. Len(todo) = 2 => cmd = t[2]
      BY <2>2
    <3>3. Len(todo) = 3 => cmd = t[1]
      BY <2>2
    <3>4. QED BY <3>1, <3>2, <3>3
  <2>5. QED BY <1>5, <2>1, <2>2, <2>3, <2>4
<1>6. QED BY <1>4, <1>5

\* Whichever it is, it is one of these.
LEMMA AllowCases ==
    ASSUME TypeOK, ScriptInv
    PROVE  op = "AllowPort" /\ todo # << >> =>
           \/ cmd = SetActivePort(announced)
           \/ \E p \in {activePort, announced}, proto \in {"tcp", "udp"} :
                 \/ cmd = Insert(ChainIn, 3, PortRule(proto, p), "return")
                 \/ cmd = Delete(ChainIn, PortRule(proto, p))
<1>0. SUFFICES ASSUME op = "AllowPort", todo # << >>
      PROVE \/ cmd = SetActivePort(announced)
            \/ \E p \in {activePort, announced}, proto \in {"tcp", "udp"} :
                  \/ cmd = Insert(ChainIn, 3, PortRule(proto, p), "return")
                  \/ cmd = Delete(ChainIn, PortRule(proto, p))
  OBVIOUS
<1>1. Len(todo) \in 1..5
  BY <1>0, AllowNext
<1>2. Len(todo) = 1 \/ Len(todo) = 2 \/ Len(todo) = 3 \/ Len(todo) = 4 \/ Len(todo) = 5
  BY <1>1
<1>3. /\ Len(todo) = 1 => cmd = SetActivePort(announced)
      /\ Len(todo) = 2 => cmd = Insert(ChainIn, 3, PortRule("udp", announced), "return")
      /\ Len(todo) = 3 => cmd = Insert(ChainIn, 3, PortRule("tcp", announced), "return")
      /\ Len(todo) = 4 => cmd = Delete(ChainIn, PortRule("udp", activePort))
      /\ Len(todo) = 5 => cmd = Delete(ChainIn, PortRule("tcp", activePort))
  BY <1>0, AllowNext
<1>4. QED BY <1>2, <1>3

LEMMA TeardownCases ==
    ASSUME TypeOK, ScriptInv
    PROVE  op = "Teardown" /\ todo # << >> =>
           \/ cmd = RuleDel("pia75", PFGateway)
           \/ \E proto \in {"tcp", "udp"} : cmd = Delete(ChainIn, PortRule(proto, activePort))
<1>0. SUFFICES ASSUME op = "Teardown", todo # << >>
      PROVE \/ cmd = RuleDel("pia75", PFGateway)
            \/ \E proto \in {"tcp", "udp"} : cmd = Delete(ChainIn, PortRule(proto, activePort))
  OBVIOUS
<1>1. Len(todo) \in 1..3
  BY <1>0, TeardownNext
<1>2. Len(todo) = 1 \/ Len(todo) = 2 \/ Len(todo) = 3
  BY <1>1
<1>3. /\ activePort = NoPort => cmd = RuleDel("pia75", PFGateway)
      /\ activePort # NoPort /\ Len(todo) = 1 => cmd = Delete(ChainIn, PortRule("udp", activePort))
      /\ Len(todo) = 2 => cmd = Delete(ChainIn, PortRule("tcp", activePort))
      /\ Len(todo) = 3 => cmd = RuleDel("pia75", PFGateway)
  BY <1>0, TeardownNext
<1>4. QED BY <1>2, <1>3

\* Only its own command changes activePort.
LEMMA FieldCourse ==
    ASSUME RunCommand
    PROVE  \/ UNCHANGED activePort
           \/ cmd.do = "port" /\ activePort' = cmd.rule.arg /\ todo' = Tail(todo) /\ UNCHANGED err
<1>1. CASE RunField
  BY <1>1 DEF RunField, Runs
<1>2. CASE ~RunField
  BY <1>2 DEF RunCommand, RunNewChain, RunAppend, RunInsert, RunInsertBeforeDrop, RunDelete,
         RunClear, RunWire, RunRule, RunMangle, RunVerify, FailCommand,
         FailClear, FailFlush, Fails, fields
<1>3. QED BY <1>1, <1>2

\* Commands run in the order of their script.
LEMMA ScriptCommand ==
    ASSUME TypeOK, ScriptInv, RunCommand
    PROVE  ScriptInv'
<1>1. /\ todo # << >> /\ todo \in Seq(Commands) /\ UNCHANGED <<op, announced>>
      /\ todo' = Tail(todo) \/ todo' = << >>
  BY CommandCaller, CommandCourse DEF TypeOK
<1>2. ASSUME NEW t \in Seq(Commands), RestOf(todo, t) PROVE RestOf(todo', t)
  BY <1>1, <1>2, RestNext, RestWhole
<1>3. /\ (op = "Setup" => RestOf(todo, Setup))' /\ (op = "Cleanup" => RestOf(todo, Cleanup))'
      /\ (op = "Unexempt" => RestOf(todo, RemoveExemptions))'
      /\ (op = "PFRoute" => RestOf(todo, AddPFRoute(PFGateway)))'
      /\ (op = "DNSRoutes" /\ PIAMode => RestOf(todo, AddPIADNSRoutes(PIADNS)))'
      /\ (op = "DNSRoutes" /\ ~PIAMode => todo = << >>)'
  BY <1>1, <1>2, ScriptTypes DEF ScriptInv
<1>4. ASSUME op = "AllowPort", todo' # << >>
      PROVE  announced \in Port /\ RestOf(todo', AllowForwardedPort(activePort', announced))
  <2>1. /\ announced \in Port /\ RestOf(todo, AllowForwardedPort(activePort, announced))
        /\ activePort \in Port \cup {NoPort}
    BY <1>1, <1>4 DEF ScriptInv, TypeOK
  <2>2. UNCHANGED activePort
    <3>1. Len(todo) # 1
      <4>1. todo' = Tail(todo) /\ Len(Tail(todo)) = Len(todo) - 1 /\ Tail(todo) \in Seq(Commands)
        BY <1>1, <1>4, Rest
      <4>2. QED BY <1>4, <4>1
    <3>2. cmd.do # "port"
      <4>1. Len(todo) \in 2..5
        BY <1>1, <1>4, <3>1, AllowNext
      <4>2. /\ \A p \in {activePort, announced}, proto \in {"tcp", "udp"} :
                  /\ Insert(ChainIn, 3, PortRule(proto, p), "return").do # "port"
                  /\ Delete(ChainIn, PortRule(proto, p)).do # "port"
        BY DEF Insert, Delete, Command
      <4>3. /\ Len(todo) = 2 => cmd = Insert(ChainIn, 3, PortRule("udp", announced), "return")
            /\ Len(todo) = 3 => cmd = Insert(ChainIn, 3, PortRule("tcp", announced), "return")
            /\ Len(todo) = 4 => cmd = Delete(ChainIn, PortRule("udp", activePort))
            /\ Len(todo) = 5 => cmd = Delete(ChainIn, PortRule("tcp", activePort))
        BY <1>1, <1>4, AllowNext
      <4>4. Len(todo) = 2 \/ Len(todo) = 3 \/ Len(todo) = 4 \/ Len(todo) = 5
        BY <4>1
      <4>5. QED BY <4>2, <4>3, <4>4
    <3>3. QED BY <3>2, FieldCourse
  <2>3. AllowForwardedPort(activePort, announced) \in Seq(Commands)
    BY <2>1, ScriptTypes
  <2>4. QED BY <1>2, <2>1, <2>2, <2>3
<1>5. ASSUME op = "Teardown" PROVE RestOf(todo', teardown(activePort'))
  <2>1. RestOf(todo, teardown(activePort)) /\ activePort \in Port \cup {NoPort}
    BY <1>1, <1>5 DEF ScriptInv, TypeOK
  <2>2. UNCHANGED activePort
    <3>1. /\ \A proto \in {"tcp", "udp"} : Delete(ChainIn, PortRule(proto, activePort)).do # "port"
          /\ RuleDel("pia75", PFGateway).do # "port"
      BY DEF RuleDel, Delete, Command
    <3>2. cmd.do # "port"
      <4>1. CASE activePort = NoPort
        BY <1>1, <1>5, <3>1, <4>1, TeardownNext
      <4>2. CASE activePort # NoPort
        BY <1>1, <1>5, <3>1, <4>2, TeardownNext
      <4>3. QED BY <4>1, <4>2
    <3>3. QED BY <3>2, FieldCourse
  <2>3. teardown(activePort) \in Seq(Commands)
    BY <2>1, ScriptTypes
  <2>4. QED BY <1>2, <2>1, <2>2, <2>3
<1>6. QED BY <1>1, <1>3, <1>4, <1>5 DEF ScriptInv

\* Every method is called with its whole script.
LEMMA ScriptCaller ==
    ASSUME TypeOK, PhaseInv, ScriptInv, Next, ~RunCommand
    PROVE  ScriptInv'
<1> USE DEF ScriptInv
<1>1. CASE StartSetup
  BY <1>1, ScriptTypes, RestWhole DEF StartSetup, Call
<1>2. CASE OpenExemption \/ OpenExemptions
  BY <1>2 DEF OpenExemption, OpenExemptions, Call
<1>3. CASE CloseExemptions
  BY <1>3, ScriptTypes, RestWhole DEF CloseExemptions, Call
<1>4. CASE BeginRoutes
  <2>1. op' = "DNSRoutes" /\ todo' = IF PIAMode THEN AddPIADNSRoutes(PIADNS) ELSE << >>
    BY <1>4 DEF BeginRoutes, Call
  <2>2. RestOf(AddPIADNSRoutes(PIADNS), AddPIADNSRoutes(PIADNS))
    BY ScriptTypes, RestWhole
  <2>3. QED BY <2>1, <2>2
<1>5. CASE BeginForward
  BY <1>5, ScriptTypes, RestWhole DEF BeginForward, Call
<1>6. CASE Announce
  <2>1. PICK p \in Port : announced' = p /\ op' = "AllowPort" /\ todo' = AllowForwardedPort(activePort, p)
    BY <1>6 DEF Announce, Call
  <2>2. AllowForwardedPort(activePort, p) \in Seq(Commands) /\ UNCHANGED activePort
    BY <1>6, ScriptTypes DEF Announce, fields, TypeOK
  <2>3. QED BY <2>1, <2>2, RestWhole
<1>7. CASE BeginTeardown
  <2>1. op' = "Teardown" /\ todo' = teardown(activePort) /\ UNCHANGED activePort
    BY <1>7 DEF BeginTeardown, Call, fields
  <2>2. teardown(activePort) \in Seq(Commands)
    BY ScriptTypes DEF TypeOK
  <2>3. QED BY <2>1, <2>2, RestWhole
<1>8. CASE BeginCleanup
  BY <1>8, ScriptTypes, RestWhole DEF BeginCleanup, Call
<1>9. CASE \/ SetupReturns \/ ExemptReturns \/ UnexemptReturns \/ RoutesReturn
           \/ ForwardReturns \/ AnnounceReturns \/ TeardownReturns \/ CleanupReturns
  <2>1. op' = "none"
    BY <1>9 DEF SetupReturns, ExemptReturns, UnexemptReturns, RoutesReturn, ForwardReturns,
                AnnounceReturns, TeardownReturns, CleanupReturns, Returns
  <2>2. QED BY <2>1
<1>10. CASE BeginConnect \/ LeaveServices \/ ErrorExit \/ Crash
  <2>1. op' = "none"
    BY <1>10 DEF BeginConnect, LeaveServices, ErrorExit, Crash, Dies, call, Idle
  <2>2. QED BY <2>1
<1>11. CASE Stopped
  <2>1. op' = "none"
    BY <1>11 DEF Stopped, vars, call, PhaseInv, Down
  <2>2. QED BY <2>1
<1>12. QED
  BY <1>1, <1>2, <1>3, <1>4, <1>5, <1>6, <1>7, <1>8, <1>9, <1>10, <1>11 DEF Next, Progress

\* What a command does to the routing rules.
LEMMA RulesCourse ==
    ASSUME TypeOK, RunCommand
    PROVE  /\ cmd \in Commands /\ iprules' \in [Prio -> SUBSET Args]
           /\ \/ UNCHANGED iprules /\ cmd.do # "ruleadd" 
              \/ UNCHANGED iprules /\ cmd.do = "ruleadd" /\ (cmd.onerr = "return" => err' /\ todo' = << >>)
              \/ /\ cmd.do = "ruleadd" /\ cmd.rule.arg \notin iprules[cmd.on]
                 /\ iprules' = [iprules EXCEPT ![cmd.on] = @ \cup {cmd.rule.arg}]
                 /\ todo' = Tail(todo) /\ UNCHANGED err
              \/ cmd.do = "ruledel" /\ iprules' = [iprules EXCEPT ![cmd.on] = @ \ {cmd.rule.arg}]
              \/ cmd.do = "ruleflush" /\ \A p \in Prio \ {cmd.on} : iprules'[p] = iprules[p]
<1>1. todo # << >> /\ cmd \in Commands
  BY CommandCaller, Rest DEF TypeOK, cmd
<1>2. iprules' \in [Prio -> SUBSET Args]
  BY TypeCommand DEF TypeOK
<1>3. CASE RunNewChain \/ RunAppend \/ RunInsert \/ RunInsertBeforeDrop \/ RunDelete
  BY <1>1, <1>2, <1>3 DEF RunNewChain, RunAppend, RunInsert, RunInsertBeforeDrop, RunDelete, Runs
<1>4. CASE RunClear \/ RunWire \/ RunMangle \/ RunVerify \/ RunField
  BY <1>1, <1>2, <1>4 DEF RunClear, RunWire, RunMangle, RunVerify, RunField, Runs, kernel
<1>5. CASE RunRule
  <2>1. cmd.do \in {"ruleadd", "ruledel", "ruleflush"} /\ Works(cmd) /\ todo' = Tail(todo) /\ UNCHANGED err
    BY <1>5 DEF RunRule, Runs
  <2>2. cmd.do = "ruleadd" => cmd.rule.arg \notin iprules[cmd.on]
    BY <2>1 DEF Works
  <2>3. CASE cmd.do = "ruleadd"
    BY <1>1, <1>2, <1>5, <2>1, <2>2, <2>3 DEF RunRule, Runs
  <2>4. CASE cmd.do = "ruledel"
    BY <1>1, <1>2, <1>5, <2>1, <2>4 DEF RunRule, Runs
  <2>5. CASE cmd.do = "ruleflush"
    BY <1>1, <1>2, <1>5, <2>1, <2>5 DEF RunRule, Runs, TypeOK
  <2>6. QED BY <2>1, <2>3, <2>4, <2>5
<1>6. CASE FailCommand \/ FailClear
  <2>1. UNCHANGED iprules /\ (cmd.onerr = "return" => err' /\ todo' = << >>)
    BY <1>6 DEF FailCommand, FailClear, Fails
  <2>2. QED BY <1>1, <1>2, <2>1
<1>7. CASE FailFlush
  BY <1>1, <1>2, <1>7 DEF FailFlush, TypeOK
<1>8. QED BY <1>3, <1>4, <1>5, <1>6, <1>7 DEF RunCommand

-----------------------------------------------------------------------------
(* The routes of the PIA DNS servers.                                      *)

DNSScript == AddPIADNSRoutes(PIADNS)

\* The k-th command of the script has taken effect.
Routed(k) == DNSScript[k].rule.arg \in iprules[DNSScript[k].on]

\* What the script has added so far is there; once it is done, only the gateway
\* of port forwarding could share a destination with it, and AddPFRoute would
\* have failed.
DNSInv ==
    /\ PIAMode /\ op = "DNSRoutes" /\ ~err => \A k \in 3..Ran(DNSScript) : Routed(k)
    /\ PIAMode /\ op = "PFRoute" /\ todo = << >> /\ ~err => PFGateway \notin ToSet(PIADNS)
    /\ PIAMode /\ phase = "forward" => PFGateway \notin ToSet(PIADNS)
    /\ TunnelDNSGuarded

\* The commands of AddPIADNSRoutes: two flushes, then a guard and a route for
\* every server.
LEMMA DNSScriptAt ==
    /\ DNSScript \in Seq(Commands) /\ PIADNS \in Seq(Address)
    /\ \A k \in 3..Len(DNSScript) :
          /\ DNSScript[k].do = "ruleadd" /\ DNSScript[k].onerr = "return"
          /\ DNSScript[k].on \in Prio
    /\ \A j \in 1..Len(PIADNS), p \in {"guard76", "pia75"} :
          \E k \in 3..Len(DNSScript) : DNSScript[k].on = p /\ DNSScript[k].rule.arg = PIADNS[j]
<1> DEFINE adds == [i \in 1..(2 * Len(PIADNS)) |->
                      RuleAdd(IF i % 2 = 1 THEN "guard76" ELSE "pia75", PIADNS[(i + 1) \div 2])]
           n == Len(PIADNS)
           t == DNSScript
<1>1. PIADNS \in Seq(Address) /\ n \in Nat
  BY ConfigAssumption DEF ConfigAssumption
<1>2. t \in Seq(Commands)
  BY ScriptTypes DEF DNSScript
<1>3. /\ RemovePIARoutes \in Seq(Commands) /\ Len(RemovePIARoutes) = 2
  BY RoutingScriptsSafe, Inclusions DEF RemovePIARoutes
<1>4. t = RemovePIARoutes \o adds
  BY DEF DNSScript, AddPIADNSRoutes
<1>5. ASSUME NEW i \in 1..(2 * n)
      PROVE  /\ (i + 1) \div 2 \in 1..n /\ PIADNS[(i + 1) \div 2] \in Address
             /\ RuleAdd(IF i % 2 = 1 THEN "guard76" ELSE "pia75", PIADNS[(i + 1) \div 2]) \in Commands
  <2>1. (i + 1) \div 2 \in 1..n
    BY <1>1
  <2>2. PIADNS[(i + 1) \div 2] \in Address /\ PIADNS[(i + 1) \div 2] \in Destination
    BY <1>1, <2>1 DEF Destination
  <2>3. \A p \in {"guard76", "pia75"} : RuleAdd(p, PIADNS[(i + 1) \div 2]) \in Commands
    BY <2>2, KernelCommands, Inclusions DEF Prio
  <2>4. QED BY <2>1, <2>2, <2>3
<1>6. adds \in Seq(Commands) /\ Len(adds) = 2 * n
  BY <1>1, <1>5
<1>7. \A i \in 1..(2 * n) :
         adds[i] = RuleAdd(IF i % 2 = 1 THEN "guard76" ELSE "pia75", PIADNS[(i + 1) \div 2])
  OBVIOUS
<1> HIDE DEF adds, t, n
<1>8. /\ Len(t) = 2 + 2 * n
      /\ \A k \in 1..(2 + 2 * n) : t[k] = IF k <= 2 THEN RemovePIARoutes[k] ELSE adds[k - 2]
  <2>1. /\ Len(t) = Len(RemovePIARoutes) + Len(adds)
        /\ \A k \in 1..(Len(RemovePIARoutes) + Len(adds)) :
              t[k] = IF k <= Len(RemovePIARoutes) THEN RemovePIARoutes[k]
                     ELSE adds[k - Len(RemovePIARoutes)]
    BY <1>3, <1>4, <1>6, ConcatProperties
  <2>2. QED BY <1>1, <1>3, <1>6, <2>1
<1>9. \A i \in 1..(2 * n) : i + 2 \in 3..Len(t) /\ t[i + 2] = adds[i]
  BY <1>1, <1>8
<1>10. \A k \in 3..Len(t) : k - 2 \in 1..(2 * n) /\ t[k] = adds[k - 2]
  BY <1>1, <1>8
<1>11. \A p, d : /\ RuleAdd(p, d).do = "ruleadd" /\ RuleAdd(p, d).onerr = "return"
                 /\ RuleAdd(p, d).on = p /\ RuleAdd(p, d).rule.arg = d
  BY DEF RuleAdd, Command, Rule
<1>12. ASSUME NEW k \in 3..Len(t)
       PROVE  t[k].do = "ruleadd" /\ t[k].onerr = "return" /\ t[k].on \in Prio
  <2>1. PICK i \in 1..(2 * n) : t[k] = adds[i]
    BY <1>10
  <2>2. \E p \in {"guard76", "pia75"} : t[k] = RuleAdd(p, PIADNS[(i + 1) \div 2])
    BY <1>7, <2>1
  <2>3. QED BY <1>11, <2>2 DEF Prio
<1>13. ASSUME NEW j \in 1..n, NEW p \in {"guard76", "pia75"}
       PROVE  \E k \in 3..Len(t) : t[k].on = p /\ t[k].rule.arg = PIADNS[j]
  <2>1. CASE p = "guard76"
    <3>1. /\ 2 * j - 1 \in 1..(2 * n) /\ (2 * j - 1) % 2 = 1 /\ (2 * j - 1 + 1) \div 2 = j
      BY <1>1
    <3>2. adds[2 * j - 1] = RuleAdd("guard76", PIADNS[j])
      BY <1>7, <3>1
    <3>3. (2 * j - 1) + 2 \in 3..Len(t) /\ t[(2 * j - 1) + 2] = adds[2 * j - 1]
      BY <1>9, <3>1
    <3>4. /\ t[(2 * j - 1) + 2].on = "guard76"
          /\ t[(2 * j - 1) + 2].rule.arg = PIADNS[j]
      BY <1>11, <3>2, <3>3
    <3>5. QED BY <2>1, <3>3, <3>4
  <2>2. CASE p = "pia75"
    <3>1. /\ 2 * j \in 1..(2 * n) /\ (2 * j) % 2 # 1 /\ (2 * j + 1) \div 2 = j
      BY <1>1
    <3>2. adds[2 * j] = RuleAdd("pia75", PIADNS[j])
      BY <1>7, <3>1
    <3>3. QED BY <1>9, <1>11, <2>2, <3>1, <3>2
  <2>3. QED BY <2>1, <2>2
<1>14. QED BY <1>1, <1>2, <1>12, <1>13 DEF t, n

\* Once it is done every server has both rules.
LEMMA DNSDone ==
    ASSUME TypeOK, \A k \in 3..Len(DNSScript) : Routed(k)
    PROVE  ToSet(PIADNS) \subseteq iprules["guard76"] \cap iprules["pia75"]
<1>1. ASSUME NEW j \in 1..Len(PIADNS), NEW p \in {"guard76", "pia75"}
      PROVE  PIADNS[j] \in iprules[p]
  <2>1. PICK k \in 3..Len(DNSScript) : DNSScript[k].on = p /\ DNSScript[k].rule.arg = PIADNS[j]
    BY DNSScriptAt
  <2>2. Routed(k)
    OBVIOUS
  <2>3. QED BY <2>1, <2>2 DEF Routed
<1>2. ToSet(PIADNS) = {PIADNS[j] : j \in 1..Len(PIADNS)}
  BY DNSScriptAt DEF ToSet
<1>3. QED BY <1>1, <1>2

\* A command ends an error only in its return.
LEMMA ErrorKept ==
    ASSUME RunCommand
    PROVE  err => err'
<1>1. UNCHANGED err \/ err' = (err \/ cmd.onerr = "return")
  BY DEF RunCommand, RunNewChain, RunAppend, RunInsert, RunInsertBeforeDrop, RunDelete,
         RunClear, RunWire, RunRule, RunMangle, RunVerify, RunField, FailCommand,
         FailClear, FailFlush, Fails, Runs
<1>2. QED BY <1>1

\* A command takes the script one further, or ends it in an error.
LEMMA RanNext ==
    ASSUME TypeOK, RunCommand, NEW t \in Seq(Commands), RestOf(todo, t)
    PROVE  /\ Ran(t) \in Nat /\ Ran(t) + 1 \in 1..Len(t) /\ Len(t) \in Nat
           /\ cmd = t[Ran(t) + 1]
           /\ Len(t) - Len(todo') = Ran(t) + 1 \/ (todo' = << >> /\ err' /\ cmd.onerr = "return")
<1>1. /\ todo # << >> /\ todo \in Seq(Commands)
      /\ todo' = Tail(todo) \/ (todo' = << >> /\ err' /\ cmd.onerr = "return")
  BY CommandCourse DEF TypeOK
<1>2. /\ Len(Tail(todo)) = Len(todo) - 1 /\ Len(todo) \in 1..Len(t) /\ Len(t) \in Nat
      /\ Head(todo) = t[Len(t) - Len(todo) + 1]
  BY <1>1, RestNext
<1>3. Ran(t) \in Nat /\ Ran(t) + 1 \in 1..Len(t)
  BY <1>2 DEF Ran
<1>4. cmd = t[Ran(t) + 1]
  BY <1>2 DEF Ran, cmd
<1>5. ASSUME todo' = Tail(todo) PROVE Len(t) - Len(todo') = Ran(t) + 1
  <2>1. Len(todo') = Len(todo) - 1 /\ Len(todo) \in Nat /\ Len(t) \in Nat
    BY <1>2, <1>5
  <2>2. QED BY <2>1 DEF Ran
<1>6. QED BY <1>1, <1>2, <1>3, <1>4, <1>5

\* Each command of the script adds its rule, or ends it in an error.
LEMMA DNSAdding ==
    ASSUME TypeOK, ScriptInv, DNSInv, RunCommand, PIAMode, op = "DNSRoutes", ~err'
    PROVE  \A k \in 3..Ran(DNSScript)' : Routed(k)'
<1>1. RestOf(todo, DNSScript) /\ DNSScript \in Seq(Commands)
  BY DNSScriptAt DEF ScriptInv, DNSScript
<1>2. ~err
  BY ErrorKept
<1>3. /\ Ran(DNSScript) \in Nat /\ Ran(DNSScript) + 1 \in 1..Len(DNSScript)
      /\ cmd = DNSScript[Ran(DNSScript) + 1] /\ Ran(DNSScript)' = Ran(DNSScript) + 1
      /\ Len(DNSScript) \in Nat
  <2>1. Len(DNSScript) - Len(todo') = Ran(DNSScript) + 1
    BY <1>1, RanNext
  <2>2. Ran(DNSScript)' = Ran(DNSScript) + 1
    BY <2>1 DEF Ran
  <2>3. QED BY <1>1, <2>2, RanNext
<1>4. \A k \in 3..Ran(DNSScript) : Routed(k)
  BY <1>2 DEF DNSInv
<1>5. SUFFICES ASSUME NEW k \in 3..(Ran(DNSScript) + 1) PROVE Routed(k)'
  BY <1>3
<1>6. /\ cmd.do = "ruleadd" /\ cmd.onerr = "return" /\ cmd.on \in Prio
      /\ DNSScript[k].on \in Prio
  BY <1>3, <1>5, DNSScriptAt
<1>7. iprules' = [iprules EXCEPT ![cmd.on] = @ \cup {cmd.rule.arg}] /\ iprules \in [Prio -> SUBSET Args]
  BY <1>6, RulesCourse DEF TypeOK
<1>8. CASE k = Ran(DNSScript) + 1
  BY <1>3, <1>6, <1>7, <1>8 DEF Routed
<1>9. CASE k # Ran(DNSScript) + 1
  <2>1. Routed(k)
    BY <1>3, <1>4, <1>5, <1>9
  <2>2. QED BY <1>6, <1>7, <2>1 DEF Routed
<1>10. QED BY <1>8, <1>9

\* The commands of the port forwarding service leave the servers' rules alone.
LEMMA DNSKept ==
    ASSUME TypeOK, CourseInv, PhaseInv, ScriptInv, DNSInv, RunCommand, PIAMode,
           phase \in {"services", "forward"}
    PROVE  /\ ToSet(PIADNS) \subseteq iprules'["guard76"] \cap iprules'["pia75"]
           /\ op = "PFRoute" /\ todo' = << >> /\ ~err' => PFGateway \notin ToSet(PIADNS)
<1>1. todo # << >> /\ todo \in Seq(Commands) /\ op \in {"PFRoute", "AllowPort", "Teardown"}
  BY CommandCaller DEF PhaseInv, CourseInv, TypeOK, Op
<1>2. /\ ToSet(PIADNS) \subseteq iprules["guard76"] /\ ToSet(PIADNS) \subseteq iprules["pia75"]
      /\ iprules \in [Prio -> SUBSET Args] /\ "guard76" \in Prio /\ "pia75" \in Prio
      /\ "guard76" # "pia75"
  BY DEF DNSInv, TunnelDNSGuarded, TypeOK, Prio
<1>3. CASE op = "PFRoute"
  <2>1. cmd = RuleAdd("pia75", PFGateway)
    <3> DEFINE t == AddPFRoute(PFGateway)
    <3>1. RestOf(todo, t) /\ t \in Seq(Commands)
      BY <1>3, ScriptTypes DEF ScriptInv
    <3>2. Len(t) = 1 /\ t[1] = RuleAdd("pia75", PFGateway)
      BY DEF AddPFRoute
    <3> HIDE DEF t
    <3>3. Len(todo) \in 1..Len(t)
      BY <1>1, <3>1, RestNext
    <3>4. cmd = t[Len(t) - Len(todo) + 1]
      BY <1>1, <3>1, RestNext DEF cmd
    <3>5. Len(todo) = 1
      BY <3>2, <3>3
    <3>6. cmd = t[1 - 1 + 1]
      BY <3>2, <3>4, <3>5
    <3>7. QED BY <3>2, <3>6
  <2>2. /\ cmd.do = "ruleadd" /\ cmd.on = "pia75" /\ cmd.rule.arg = PFGateway /\ cmd.onerr = "return"
    BY <2>1 DEF RuleAdd, Command, Rule
  <2>3. \/ UNCHANGED iprules /\ err'
        \/ /\ PFGateway \notin iprules["pia75"]
           /\ iprules' = [iprules EXCEPT !["pia75"] = @ \cup {PFGateway}]
    BY <2>2, RulesCourse
  <2>4. QED BY <1>2, <2>3
<1>4. CASE op = "AllowPort"
  <2>1. cmd.do \notin {"ruleadd", "ruledel", "ruleflush"}
    <3>1. \A p \in {activePort, announced}, proto \in {"tcp", "udp"} :
             /\ Insert(ChainIn, 3, PortRule(proto, p), "return").do = "insert"
             /\ Delete(ChainIn, PortRule(proto, p)).do = "delete"
             /\ SetActivePort(announced).do = "port"
      BY DEF Insert, Delete, SetActivePort, Command
    <3>2. \/ cmd = SetActivePort(announced)
          \/ \E p \in {activePort, announced}, proto \in {"tcp", "udp"} :
                cmd = Insert(ChainIn, 3, PortRule(proto, p), "return") \/ cmd = Delete(ChainIn, PortRule(proto, p))
      BY <1>1, <1>4, AllowCases
    <3>3. QED BY <3>1, <3>2
  <2>2. UNCHANGED iprules
    BY <2>1, RulesCourse
  <2>3. QED BY <1>2, <1>4, <2>2
<1>5. CASE op = "Teardown"
  <2>1. phase = "forward" /\ PFGateway \notin ToSet(PIADNS)
    BY <1>5 DEF CourseInv, DNSInv
  <2>2. /\ \A proto \in {"tcp", "udp"} : Delete(ChainIn, PortRule(proto, activePort)).do = "delete"
        /\ RuleDel("pia75", PFGateway).do = "ruledel" /\ RuleDel("pia75", PFGateway).on = "pia75"
        /\ RuleDel("pia75", PFGateway).rule.arg = PFGateway
    BY DEF Delete, RuleDel, Command, Rule
  <2>3. cmd = RuleDel("pia75", PFGateway) \/ \E proto \in {"tcp", "udp"} : cmd = Delete(ChainIn, PortRule(proto, activePort))
    BY <1>1, <1>5, TeardownCases
  <2>4. UNCHANGED iprules \/ iprules' = [iprules EXCEPT !["pia75"] = @ \ {PFGateway}]
    BY <2>2, <2>3, RulesCourse
  <2>5. QED BY <1>2, <1>5, <2>1, <2>4
<1>6. QED BY <1>1, <1>3, <1>4, <1>5

\* Commands keep the servers' rules.
LEMMA DNSCommand ==
    ASSUME TypeOK, CourseInv, PhaseInv, ScriptInv, DNSInv, RunCommand
    PROVE  DNSInv'
<1>1. UNCHANGED <<op, phase>>
  BY CommandCaller
<1>2. (PIAMode /\ op = "DNSRoutes" /\ ~err => \A k \in 3..Ran(DNSScript) : Routed(k))'
  BY <1>1, DNSAdding
<1>3. (PIAMode /\ op = "PFRoute" /\ todo = << >> /\ ~err => PFGateway \notin ToSet(PIADNS))'
  BY <1>1, DNSKept DEF CourseInv
<1>4. (PIAMode /\ phase = "forward" => PFGateway \notin ToSet(PIADNS))'
  BY <1>1 DEF DNSInv
<1>5. TunnelDNSGuarded'
  BY <1>1, DNSKept DEF TunnelDNSGuarded
<1>6. QED BY <1>2, <1>3, <1>4, <1>5 DEF DNSInv

\* The phases in which the rules must be there are entered once they are.
LEMMA DNSCaller ==
    ASSUME TypeOK, CourseInv, PhaseInv, ScriptInv, DNSInv, Next, ~RunCommand
    PROVE  DNSInv'
<1>1. UNCHANGED iprules
  BY CallerFrame
<1>2. ASSUME op' \notin {"DNSRoutes", "PFRoute"},
             phase' \in {"services", "forward"} => phase' = phase
      PROVE  DNSInv'
  <2>1. (PIAMode /\ phase = "forward" => PFGateway \notin ToSet(PIADNS))'
    BY <1>2 DEF DNSInv
  <2>2. TunnelDNSGuarded'
    BY <1>1, <1>2 DEF DNSInv, TunnelDNSGuarded
  <2>3. QED BY <1>2, <2>1, <2>2 DEF DNSInv
<1>3. CASE StartSetup \/ SetupReturns
  BY <1>2, <1>3 DEF StartSetup, SetupReturns, Call, Returns
<1>4. CASE OpenExemption \/ OpenExemptions \/ CloseExemptions
  BY <1>2, <1>4 DEF OpenExemption, OpenExemptions, CloseExemptions, Call, caller
<1>5. CASE ExemptReturns \/ UnexemptReturns
  BY <1>2, <1>5 DEF ExemptReturns, UnexemptReturns, Returns
<1>6. CASE BeginConnect \/ LeaveServices
  BY <1>2, <1>6 DEF BeginConnect, LeaveServices, Idle, call
<1>7. CASE BeginRoutes
  <2>1. op' = "DNSRoutes" /\ phase' = "registered"
    BY <1>7 DEF BeginRoutes, Call, caller
  <2>2. PIAMode => Ran(DNSScript)' = 0
    <3>1. PIAMode => todo' = DNSScript
      BY <1>7 DEF BeginRoutes, Call, DNSScript
    <3>2. Len(DNSScript) \in Nat
      BY DNSScriptAt
    <3>3. PIAMode => Len(DNSScript) - Len(todo') = 0
      BY <3>1, <3>2
    <3>4. QED BY <3>3 DEF Ran
  <2>3. QED BY <2>1, <2>2 DEF DNSInv, TunnelDNSGuarded
<1>8. CASE RoutesReturn
  <2>1. /\ op = "DNSRoutes" /\ todo = << >> /\ op' = "none"
        /\ phase' \in {"connect", "services"} /\ (phase' = "services" => ~err)
    BY <1>8 DEF RoutesReturn, Returns
  <2>2. ASSUME PIAMode, phase' = "services"
        PROVE  ToSet(PIADNS) \subseteq iprules["guard76"] \cap iprules["pia75"]
    <3>1. Ran(DNSScript) = Len(DNSScript) /\ \A k \in 3..Ran(DNSScript) : Routed(k)
      <4>1. Len(DNSScript) \in Nat /\ Len(todo) = 0
        BY <2>1, DNSScriptAt
      <4>2. QED BY <2>1, <2>2, <4>1 DEF DNSInv, Ran
    <3>2. QED BY <3>1, DNSDone
  <2>3. TunnelDNSGuarded'
    BY <1>1, <2>1, <2>2 DEF TunnelDNSGuarded
  <2>4. QED BY <2>1, <2>3 DEF DNSInv
<1>9. CASE BeginForward
  <2>1. op' = "PFRoute" /\ phase' = phase /\ phase' = "services" /\ todo' # << >>
    <3>1. op' = "PFRoute" /\ phase' = phase /\ phase' = "services" /\ todo' = AddPFRoute(PFGateway)
      BY <1>9 DEF BeginForward, Call, caller
    <3>2. AddPFRoute(PFGateway) # << >>
      BY DEF AddPFRoute
    <3>3. QED BY <3>1, <3>2
  <2>2. TunnelDNSGuarded'
    BY <1>1, <2>1 DEF DNSInv, TunnelDNSGuarded
  <2>3. QED BY <2>1, <2>2 DEF DNSInv
<1>10. CASE ForwardReturns
  <2>1. /\ op = "PFRoute" /\ todo = << >> /\ op' = "none"
        /\ phase' \in {"down", "connect", "shutdown", "forward"} /\ (phase' = "forward" => ~err)
    BY <1>10 DEF ForwardReturns, Returns
  <2>2. PIAMode /\ phase' = "forward" => PFGateway \notin ToSet(PIADNS)
    BY <2>1 DEF DNSInv
  <2>3. TunnelDNSGuarded'
    <3>1. phase = "services"
      BY <2>1 DEF CourseInv
    <3>2. QED BY <1>1, <2>1, <3>1 DEF DNSInv, TunnelDNSGuarded
  <2>4. QED BY <2>1, <2>2, <2>3 DEF DNSInv
<1>11. CASE Announce \/ AnnounceReturns \/ BeginTeardown \/ TeardownReturns
  BY <1>2, <1>11 DEF Announce, AnnounceReturns, BeginTeardown, TeardownReturns, Call, Returns, caller
<1>12. CASE BeginCleanup \/ CleanupReturns
  BY <1>2, <1>12 DEF BeginCleanup, CleanupReturns, Call, Returns, caller
<1>13. CASE ErrorExit \/ Crash
  BY <1>2, <1>13 DEF ErrorExit, Crash, Dies
<1>14. CASE Stopped
  <2>1. op' = "none" /\ phase' = phase
    BY <1>14 DEF Stopped, vars, call, caller, PhaseInv, Down
  <2>2. QED BY <1>2, <2>1
<1>15. QED
  BY <1>3, <1>4, <1>5, <1>6, <1>7, <1>8, <1>9, <1>10, <1>11, <1>12, <1>13, <1>14
     DEF Next, Progress

-----------------------------------------------------------------------------
(* What a command does to the chains, position by position.                *)

\* InsertAt moves the rules from position i on by one.
LEMMA InsertAtIs ==
    ASSUME NEW S, NEW s \in Seq(S), NEW e \in S, NEW i \in 1..(Len(s) + 1)
    PROVE  /\ InsertAt(s, i, e) \in Seq(S) /\ Len(InsertAt(s, i, e)) = Len(s) + 1
           /\ InsertAt(s, i, e)[i] = e
           /\ \A k \in 1..(i - 1) : InsertAt(s, i, e)[k] = s[k]
           /\ \A k \in (i + 1)..(Len(s) + 1) : InsertAt(s, i, e)[k] = s[k - 1]
<1> DEFINE a == SubSeq(s, 1, i - 1)
           b == SubSeq(s, i, Len(s))
<1>1. /\ a \in Seq(S) /\ Len(a) = i - 1
      /\ \A k \in 1..(i - 1) : a[k] = s[k]
  BY SubSeqProperties
<1>2. /\ b \in Seq(S) /\ Len(b) = Len(s) - i + 1
      /\ \A k \in 1..Len(b) : b[k] = s[i + k - 1]
  BY SubSeqProperties
<1> HIDE DEF a, b
<1>3. << e >> \in Seq(S) /\ Len(<< e >>) = 1 /\ << e >>[1] = e
  OBVIOUS
<1> DEFINE ae == a \o << e >>
<1>4. /\ ae \in Seq(S) /\ Len(ae) = i /\ ae[i] = e
      /\ \A k \in 1..(i - 1) : ae[k] = s[k]
  <2> DEFINE one == << e >>
  <2>1. one \in Seq(S) /\ Len(one) = 1 /\ one[1] = e
    BY <1>3
  <2> HIDE DEF one
  <2>2. /\ a \o one \in Seq(S) /\ Len(a \o one) = Len(a) + Len(one)
        /\ \A k \in 1..(Len(a) + Len(one)) :
              (a \o one)[k] = IF k <= Len(a) THEN a[k] ELSE one[k - Len(a)]
    BY <1>1, <2>1, ConcatProperties
  <2> DEFINE u == a \o one
  <2> HIDE DEF u
  <2>3. /\ u \in Seq(S) /\ Len(u) = i
        /\ \A k \in 1..i : u[k] = IF k <= i - 1 THEN a[k] ELSE one[k - (i - 1)]
    BY <1>1, <2>1, <2>2 DEF u
  <2>4. u[i] = e
    BY <2>1, <2>3
  <2>5. \A k \in 1..(i - 1) : u[k] = s[k]
    BY <1>1, <2>3
  <2>6. QED BY <2>3, <2>4, <2>5 DEF u, one
<1> HIDE DEF ae
<1> DEFINE r == ae \o b
<1>5. /\ r \in Seq(S) /\ Len(r) = Len(ae) + Len(b)
      /\ \A k \in 1..(Len(ae) + Len(b)) : r[k] = IF k <= Len(ae) THEN ae[k] ELSE b[k - Len(ae)]
  BY <1>2, <1>4, ConcatProperties
<1>6. InsertAt(s, i, e) = r
  BY DEF InsertAt, a, b, ae, r
<1> HIDE DEF r
<1>7. /\ r \in Seq(S) /\ Len(r) = Len(s) + 1
      /\ \A k \in 1..(Len(s) + 1) : r[k] = IF k <= i THEN ae[k] ELSE b[k - i]
  BY <1>2, <1>4, <1>5
<1>8. r[i] = e
  BY <1>4, <1>7
<1>9. \A k \in 1..(i - 1) : r[k] = s[k]
  BY <1>4, <1>7
<1>10. ASSUME NEW k \in (i + 1)..(Len(s) + 1) PROVE r[k] = s[k - 1]
  <2>1. r[k] = b[k - i]
    BY <1>7
  <2>2. k - i \in 1..Len(b) /\ i + (k - i) - 1 = k - 1
    BY <1>2
  <2>3. QED BY <1>2, <2>1, <2>2
<1>11. QED BY <1>6, <1>7, <1>8, <1>9, <1>10

\* The same for the rules of a chain.
LEMMA RuleInserted ==
    \A s \in Seq(Rules), r \in Rules : \A i \in 1..(Len(s) + 1) :
        /\ Len(InsertAt(s, i, r)) = Len(s) + 1 /\ InsertAt(s, i, r)[i] = r
        /\ \A k \in 1..(i - 1) : InsertAt(s, i, r)[k] = s[k]
        /\ \A k \in (i + 1)..(Len(s) + 1) : InsertAt(s, i, r)[k] = s[k - 1]
<1>1. TAKE s \in Seq(Rules), r \in Rules
<1>2. TAKE i \in 1..(Len(s) + 1)
<1>3. Len(InsertAt(s, i, r)) = Len(s) + 1
  BY InsertAtIs
<1>4. /\ InsertAt(s, i, r)[i] = r
      /\ \A k \in 1..(i - 1) : InsertAt(s, i, r)[k] = s[k]
      /\ \A k \in (i + 1)..(Len(s) + 1) : InsertAt(s, i, r)[k] = s[k - 1]
  BY InsertAtIs
<1>5. QED BY <1>3, <1>4

\* RemoveAt moves the rules behind position i back by one.
LEMMA RemoveAtIs ==
    ASSUME NEW S, NEW s \in Seq(S), NEW i \in 1..Len(s)
    PROVE  /\ RemoveAt(s, i) \in Seq(S) /\ Len(RemoveAt(s, i)) = Len(s) - 1
           /\ \A k \in 1..(i - 1) : RemoveAt(s, i)[k] = s[k]
           /\ \A k \in i..(Len(s) - 1) : RemoveAt(s, i)[k] = s[k + 1]
<1> DEFINE a == SubSeq(s, 1, i - 1)
           b == SubSeq(s, i + 1, Len(s))
           r == a \o b
<1>1. /\ a \in Seq(S) /\ Len(a) = i - 1
      /\ \A k \in 1..(i - 1) : a[k] = s[k]
  BY SubSeqProperties
<1>2. /\ b \in Seq(S) /\ Len(b) = Len(s) - i
      /\ \A k \in 1..Len(b) : b[k] = s[i + k]
  BY SubSeqProperties
<1> HIDE DEF a, b
<1>3. /\ r \in Seq(S) /\ Len(r) = Len(a) + Len(b)
      /\ \A k \in 1..(Len(a) + Len(b)) : r[k] = IF k <= Len(a) THEN a[k] ELSE b[k - Len(a)]
  BY <1>1, <1>2, ConcatProperties
<1>4. RemoveAt(s, i) = r
  BY DEF RemoveAt, a, b, r
<1> HIDE DEF r
<1>5. /\ Len(r) = Len(s) - 1
      /\ \A k \in 1..(Len(s) - 1) : r[k] = IF k <= i - 1 THEN a[k] ELSE b[k - (i - 1)]
  BY <1>1, <1>2, <1>3
<1>6. \A k \in 1..(i - 1) : r[k] = s[k]
  BY <1>1, <1>5
<1>7. ASSUME NEW k \in i..(Len(s) - 1) PROVE r[k] = s[k + 1]
  <2>1. r[k] = b[k - (i - 1)]
    BY <1>5
  <2>2. k - (i - 1) \in 1..Len(b) /\ i + (k - (i - 1)) = k + 1
    BY <1>2
  <2>3. QED BY <1>2, <2>1, <2>2
<1>8. QED BY <1>3, <1>4, <1>5, <1>6, <1>7

\* The chain the command is about becomes s, and no other changes.
Becomes(s) ==
    /\ cmd.on \in Chains /\ s \in Seq(Rules)
    /\ chain'[cmd.on] = s /\ \A c \in Chains \ {cmd.on} : chain'[c] = chain[c]

\* The command worked; it failed.
Done == todo' = Tail(todo) /\ UNCHANGED <<err, failures>>
Failed ==
    /\ (~Works(cmd) /\ failures' = failures) \/ failures' = failures + 1
    /\ cmd.onerr = "return" => todo' = << >> /\ err'
    /\ cmd.onerr = "ignore" => todo' = Tail(todo) /\ err' = err

ChainCommands == {"new", "append", "insert", "beforedrop", "delete", "clear"}

\* The effect of a command on the chains.
ChainEffect ==
    \/ cmd.do \notin ChainCommands /\ UNCHANGED <<chain, exists>>
    \/ Failed /\ UNCHANGED <<chain, exists>> /\ (cmd.do = "clear" => failures' = failures + 1)
    \/ Failed /\ cmd.do = "clear" /\ cmd.on \in exists /\ Becomes(<< >>) /\ UNCHANGED exists
    \/ Done /\ cmd.do = "new" /\ cmd.on \notin exists /\ Becomes(<< >>) /\ exists' = exists \cup {cmd.on}
    \/ /\ Done /\ cmd.do = "append" /\ cmd.on \in exists
       /\ Becomes(Append(chain[cmd.on], cmd.rule)) /\ UNCHANGED exists
    \/ /\ Done /\ cmd.do = "insert" /\ cmd.on \in exists /\ cmd.pos \in 1..(Len(chain[cmd.on]) + 1)
       /\ cmd.rule = JumpExempt => ChainExempt \in exists
       /\ Becomes(InsertAt(chain[cmd.on], cmd.pos, cmd.rule)) /\ UNCHANGED exists
    \/ /\ Done /\ cmd.do = "beforedrop" /\ chain[cmd.on] # << >>
       /\ Becomes(InsertAt(chain[cmd.on], Len(chain[cmd.on]), cmd.rule)) /\ UNCHANGED exists
    \/ /\ Done /\ cmd.do = "delete" /\ UNCHANGED exists
       /\ \E i \in 1..Len(chain[cmd.on]) :
             chain[cmd.on][i] = cmd.rule /\ Becomes(RemoveAt(chain[cmd.on], i))
    \/ /\ Done /\ cmd.do = "clear" /\ (cmd.on \notin exists \/ ~Referenced(cmd.on))
       /\ Becomes(<< >>) /\ exists' = exists \ {cmd.on}

\* Every command has its effect.
LEMMA ChainCourse ==
    ASSUME TypeOK, RunCommand
    PROVE  cmd \in Commands /\ ChainEffect
<1>1. todo # << >> /\ cmd \in Commands /\ chain \in [Chains -> Seq(Rules)] /\ chain' \in [Chains -> Seq(Rules)]
  BY CommandCaller, TypeCommand, Rest DEF TypeOK, cmd
<1>2. ASSUME cmd.do \in ChainCommands, NEW s, chain' = [chain EXCEPT ![cmd.on] = s]
      PROVE  Becomes(s)
  <2>1. cmd.on \in Chains
    BY <1>1, <1>2, CommandParts DEF ChainCommands
  <2>2. chain'[cmd.on] = s /\ \A c \in Chains \ {cmd.on} : chain'[c] = chain[c]
    BY <1>1, <1>2, <2>1
  <2>3. QED BY <1>1, <2>1, <2>2 DEF Becomes
<1>3. CASE RunNewChain
  <2>1. /\ Works(cmd) /\ cmd.do = "new" /\ Done /\ exists' = exists \cup {cmd.on}
        /\ chain' = [chain EXCEPT ![cmd.on] = << >>]
    BY <1>3 DEF RunNewChain, Runs, Done, budgets
  <2>2. cmd.on \notin exists
    BY <2>1 DEF Works
  <2>3. QED BY <1>1, <1>2, <2>1, <2>2 DEF ChainEffect, ChainCommands
<1>4. CASE RunAppend
  <2>1. /\ Works(cmd) /\ cmd.do = "append" /\ Done /\ UNCHANGED exists
        /\ chain' = [chain EXCEPT ![cmd.on] = Append(chain[cmd.on], cmd.rule)]
    BY <1>4 DEF RunAppend, Runs, Done, budgets
  <2>2. cmd.on \in exists
    BY <2>1 DEF Works
  <2>3. QED BY <1>1, <1>2, <2>1, <2>2 DEF ChainEffect, ChainCommands
<1>5. CASE RunInsert
  <2>1. /\ Works(cmd) /\ cmd.do = "insert" /\ Done /\ UNCHANGED exists
        /\ chain' = [chain EXCEPT ![cmd.on] = InsertAt(chain[cmd.on], cmd.pos, cmd.rule)]
    BY <1>5 DEF RunInsert, Runs, Done, budgets
  <2>2. /\ cmd.on \in exists /\ cmd.pos \in 1..(Len(chain[cmd.on]) + 1)
        /\ cmd.rule = JumpExempt => ChainExempt \in exists
    BY <2>1 DEF Works
  <2>3. Becomes(InsertAt(chain[cmd.on], cmd.pos, cmd.rule))
    BY <1>2, <2>1 DEF ChainCommands
  <2>4. QED BY <1>1, <2>1, <2>2, <2>3 DEF ChainEffect
<1>6. CASE RunInsertBeforeDrop
  <2>1. /\ Works(cmd) /\ cmd.do = "beforedrop" /\ Done /\ UNCHANGED exists
        /\ chain' = [chain EXCEPT ![cmd.on] = InsertAt(chain[cmd.on], Len(chain[cmd.on]), cmd.rule)]
    BY <1>6 DEF RunInsertBeforeDrop, Runs, Done, budgets
  <2>2. chain[cmd.on] # << >>
    BY <2>1 DEF Works
  <2>3. Becomes(InsertAt(chain[cmd.on], Len(chain[cmd.on]), cmd.rule))
    BY <1>2, <2>1 DEF ChainCommands
  <2>4. QED BY <1>1, <2>1, <2>2, <2>3 DEF ChainEffect
<1>7. CASE RunDelete
  <2>1. cmd.do = "delete" /\ Done /\ UNCHANGED exists
    BY <1>7 DEF RunDelete, Runs, Done, budgets
  <2>2. PICK i \in DOMAIN chain[cmd.on] :
           chain[cmd.on][i] = cmd.rule /\ chain' = [chain EXCEPT ![cmd.on] = RemoveAt(chain[cmd.on], i)]
    BY <1>7 DEF RunDelete
  <2>3. Becomes(RemoveAt(chain[cmd.on], i)) /\ cmd.on \in Chains
    BY <1>1, <1>2, <2>1, <2>2, CommandParts DEF ChainCommands
  <2>4. i \in 1..Len(chain[cmd.on])
    BY <1>1, <2>2, <2>3
  <2>5. QED BY <1>1, <2>1, <2>2, <2>3, <2>4 DEF ChainEffect
<1>8. CASE RunClear
  <2>1. /\ Works(cmd) /\ cmd.do = "clear" /\ Done /\ exists' = exists \ {cmd.on}
        /\ chain' = [chain EXCEPT ![cmd.on] = << >>]
    BY <1>8 DEF RunClear, Runs, Done, budgets
  <2>2. cmd.on \notin exists \/ ~Referenced(cmd.on)
    BY <2>1 DEF Works
  <2>3. Becomes(<< >>)
    BY <1>2, <2>1 DEF ChainCommands
  <2>4. QED BY <1>1, <2>1, <2>2, <2>3 DEF ChainEffect
<1>9. CASE RunWire \/ RunRule \/ RunMangle \/ RunVerify \/ RunField
  <2>1. cmd.do \notin ChainCommands
    BY <1>9 DEF RunWire, RunRule, RunMangle, RunVerify, RunField, Runs, ChainCommands
  <2>2. UNCHANGED <<chain, exists>>
    BY <1>9 DEF RunWire, RunRule, RunMangle, RunVerify, RunField, kernel
  <2>3. QED BY <1>1, <2>1, <2>2 DEF ChainEffect
<1>10. ASSUME Fails PROVE Failed /\ UNCHANGED exists
  <2>1. cmd.onerr = "return" => err'
    BY <1>10 DEF Fails
  <2>2. cmd.onerr = "ignore" => err' = err
    BY <1>10 DEF Fails, TypeOK
  <2>3. QED BY <1>10, <2>1, <2>2 DEF Fails, Failed
<1>11. CASE FailCommand
  <2>1. Failed /\ UNCHANGED <<chain, exists>>
    BY <1>10, <1>11 DEF FailCommand
  <2>2. cmd.do = "clear" => failures' = failures + 1
    BY <1>11 DEF FailCommand, Fails
  <2>3. QED BY <1>1, <2>1, <2>2 DEF ChainEffect
<1>12. CASE FailClear
  <2>1. /\ Failed /\ UNCHANGED exists /\ cmd.do = "clear" /\ cmd.on \in exists
        /\ chain' = [chain EXCEPT ![cmd.on] = << >>]
    BY <1>10, <1>12 DEF FailClear
  <2>2. Becomes(<< >>)
    BY <1>2, <2>1 DEF ChainCommands
  <2>3. QED BY <1>1, <2>1, <2>2 DEF ChainEffect
<1>13. CASE FailFlush
  <2>1. cmd.do \notin ChainCommands /\ UNCHANGED <<chain, exists>>
    BY <1>10, <1>13 DEF FailFlush, ChainCommands
  <2>2. QED BY <1>1, <2>1 DEF ChainEffect
<1>14. QED
  BY <1>3, <1>4, <1>5, <1>6, <1>7, <1>8, <1>9, <1>11, <1>12, <1>13 DEF RunCommand

\* The commands of Cleanup, in their order.
LEMMA CleanupAt ==
    /\ Cleanup \in Seq(Commands) /\ Len(Cleanup) = 20
    /\ Cleanup[1] = Deactivate
    /\ Cleanup[2] = RuleFlush("guard76") /\ Cleanup[3] = RuleFlush("pia75")
    /\ Cleanup[4] = RuleFlush("local100") /\ Cleanup[5] = RuleFlush("local100v6")
    /\ Cleanup[6] = MangleDelete("forward4") /\ Cleanup[7] = MangleDelete("output4")
    /\ Cleanup[8] = MangleDelete("forward6") /\ Cleanup[9] = MangleDelete("output6")
    /\ Cleanup[10] = RuleFlush("bypass50")
    /\ Cleanup[11] = Delete(ChainOut, JumpExempt)
    /\ Cleanup[12] = ClearAndDeleteChain(ChainExempt)
    /\ Cleanup[13] = DeleteJump(ChainIn) /\ Cleanup[14] = ClearAndDeleteChain(ChainIn)
    /\ Cleanup[15] = DeleteJump(ChainOut) /\ Cleanup[16] = ClearAndDeleteChain(ChainOut)
    /\ Cleanup[17] = DeleteJump(ChainIn6) /\ Cleanup[18] = ClearAndDeleteChain(ChainIn6)
    /\ Cleanup[19] = DeleteJump(ChainOut6) /\ Cleanup[20] = ClearAndDeleteChain(ChainOut6)
<1> DEFINE d == << Deactivate >>
           a == d \o RemovePIARoutes
           b == a \o cleanupLocalRoutes
           c == b \o cleanupMSSClamping
           e == c \o cleanupBypassRoutes
           f == e \o RemoveExemptions
<1>1. /\ d \in Seq(Quiet)
      /\ RemovePIARoutes \in Seq(Quiet) /\ cleanupLocalRoutes \in Seq(Quiet)
      /\ cleanupBypassRoutes \in Seq(Quiet) /\ cleanupMSSClamping \in Seq(Quiet)
      /\ RemoveExemptions \in Seq(Quiet) /\ cleanupChains \in Seq(Quiet)
  BY KernelCommands, RoutingScriptsSafe, ExemptionScriptsSafe, CleanupChainsQuiet, Inclusions
<1>2. /\ Len(d) = 1 /\ d[1] = Deactivate
      /\ Len(RemovePIARoutes) = 2
      /\ RemovePIARoutes[1] = RuleFlush("guard76") /\ RemovePIARoutes[2] = RuleFlush("pia75")
      /\ Len(cleanupLocalRoutes) = 2 
      /\ cleanupLocalRoutes[1] = RuleFlush("local100") /\ cleanupLocalRoutes[2] = RuleFlush("local100v6")
  BY DEF RemovePIARoutes, cleanupLocalRoutes
<1>3. /\ Len(cleanupMSSClamping) = 4 
      /\ cleanupMSSClamping[1] = MangleDelete("forward4") /\ cleanupMSSClamping[2] = MangleDelete("output4")
      /\ cleanupMSSClamping[3] = MangleDelete("forward6") /\ cleanupMSSClamping[4] = MangleDelete("output6")
      /\ Len(cleanupBypassRoutes) = 1 /\ cleanupBypassRoutes[1] = RuleFlush("bypass50")
  BY DEF cleanupMSSClamping, cleanupBypassRoutes
<1>4. /\ Len(RemoveExemptions) = 2 /\ RemoveExemptions[1] = Delete(ChainOut, JumpExempt)
      /\ RemoveExemptions[2] = ClearAndDeleteChain(ChainExempt)
      /\ Len(cleanupChains) = 8
      /\ cleanupChains[1] = DeleteJump(ChainIn) /\ cleanupChains[2] = ClearAndDeleteChain(ChainIn)
      /\ cleanupChains[3] = DeleteJump(ChainOut) /\ cleanupChains[4] = ClearAndDeleteChain(ChainOut)
      /\ cleanupChains[5] = DeleteJump(ChainIn6) /\ cleanupChains[6] = ClearAndDeleteChain(ChainIn6)
      /\ cleanupChains[7] = DeleteJump(ChainOut6) /\ cleanupChains[8] = ClearAndDeleteChain(ChainOut6)
  BY DEF RemoveExemptions, cleanupChains
<1>5. Cleanup = f \o cleanupChains
  BY DEF Cleanup
<1> HIDE DEF d, RemovePIARoutes, cleanupLocalRoutes, cleanupMSSClamping, cleanupBypassRoutes
<1> HIDE DEF RemoveExemptions, cleanupChains
<1> HIDE DEF a, b, c, e, f, Cleanup
<1>6. /\ a \in Seq(Quiet) /\ Len(a) = 3
      /\ \A i \in 1..3 : a[i] = IF i <= 1 THEN d[i] ELSE RemovePIARoutes[i - 1]
  <2>1. a = d \o RemovePIARoutes
    BY DEF a
  <2>2. /\ a \in Seq(Quiet) /\ Len(a) = Len(d) + Len(RemovePIARoutes)
        /\ \A i \in 1..(Len(d) + Len(RemovePIARoutes)) : a[i] = IF i <= Len(d) THEN d[i] ELSE RemovePIARoutes[i - Len(d)]
    BY <2>1, <1>1, <1>2, ConcatProperties
  <2>3. QED BY <2>2, <1>1, <1>2
<1>7. /\ b \in Seq(Quiet) /\ Len(b) = 5
      /\ \A i \in 1..5 : b[i] = IF i <= 3 THEN a[i] ELSE cleanupLocalRoutes[i - 3]
  <2>1. b = a \o cleanupLocalRoutes
    BY DEF b
  <2>2. /\ b \in Seq(Quiet) /\ Len(b) = Len(a) + Len(cleanupLocalRoutes)
        /\ \A i \in 1..(Len(a) + Len(cleanupLocalRoutes)) : b[i] = IF i <= Len(a) THEN a[i] ELSE cleanupLocalRoutes[i - Len(a)]
    BY <2>1, <1>1, <1>2, <1>6, ConcatProperties
  <2>3. QED BY <2>2, <1>1, <1>2, <1>6
<1>8. /\ c \in Seq(Quiet) /\ Len(c) = 9
      /\ \A i \in 1..9 : c[i] = IF i <= 5 THEN b[i] ELSE cleanupMSSClamping[i - 5]
  <2>1. c = b \o cleanupMSSClamping
    BY DEF c
  <2>2. /\ c \in Seq(Quiet) /\ Len(c) = Len(b) + Len(cleanupMSSClamping)
        /\ \A i \in 1..(Len(b) + Len(cleanupMSSClamping)) : c[i] = IF i <= Len(b) THEN b[i] ELSE cleanupMSSClamping[i - Len(b)]
    BY <2>1, <1>1, <1>3, <1>7, ConcatProperties
  <2>3. QED BY <2>2, <1>1, <1>3, <1>7
<1>9. /\ e \in Seq(Quiet) /\ Len(e) = 10
      /\ \A i \in 1..10 : e[i] = IF i <= 9 THEN c[i] ELSE cleanupBypassRoutes[i - 9]
  <2>1. e = c \o cleanupBypassRoutes
    BY DEF e
  <2>2. /\ e \in Seq(Quiet) /\ Len(e) = Len(c) + Len(cleanupBypassRoutes)
        /\ \A i \in 1..(Len(c) + Len(cleanupBypassRoutes)) : e[i] = IF i <= Len(c) THEN c[i] ELSE cleanupBypassRoutes[i - Len(c)]
    BY <2>1, <1>1, <1>3, <1>8, ConcatProperties
  <2>3. QED BY <2>2, <1>1, <1>3, <1>8
<1>10. /\ f \in Seq(Quiet) /\ Len(f) = 12
      /\ \A i \in 1..12 : f[i] = IF i <= 10 THEN e[i] ELSE RemoveExemptions[i - 10]
  <2>1. f = e \o RemoveExemptions
    BY DEF f
  <2>2. /\ f \in Seq(Quiet) /\ Len(f) = Len(e) + Len(RemoveExemptions)
        /\ \A i \in 1..(Len(e) + Len(RemoveExemptions)) : f[i] = IF i <= Len(e) THEN e[i] ELSE RemoveExemptions[i - Len(e)]
    BY <2>1, <1>1, <1>4, <1>9, ConcatProperties
  <2>3. QED BY <2>2, <1>1, <1>4, <1>9
<1>11. /\ Cleanup \in Seq(Quiet) /\ Len(Cleanup) = 20
      /\ \A i \in 1..20 : Cleanup[i] = IF i <= 12 THEN f[i] ELSE cleanupChains[i - 12]
  <2>1. Cleanup = f \o cleanupChains
    BY <1>5
  <2>2. /\ Cleanup \in Seq(Quiet) /\ Len(Cleanup) = Len(f) + Len(cleanupChains)
        /\ \A i \in 1..(Len(f) + Len(cleanupChains)) : Cleanup[i] = IF i <= Len(f) THEN f[i] ELSE cleanupChains[i - Len(f)]
    BY <2>1, <1>1, <1>4, <1>10, ConcatProperties
  <2>3. QED BY <2>2, <1>1, <1>4, <1>10
<1> HIDE DEF Cleanup
<1>12. /\ Cleanup[13] = DeleteJump(ChainIn) /\ Cleanup[14] = ClearAndDeleteChain(ChainIn)
       /\ Cleanup[15] = DeleteJump(ChainOut) /\ Cleanup[16] = ClearAndDeleteChain(ChainOut)
       /\ Cleanup[17] = DeleteJump(ChainIn6) /\ Cleanup[18] = ClearAndDeleteChain(ChainIn6)
       /\ Cleanup[19] = DeleteJump(ChainOut6) /\ Cleanup[20] = ClearAndDeleteChain(ChainOut6)
  BY <1>4, <1>11
<1>13. /\ Cleanup[10] = RuleFlush("bypass50")
       /\ Cleanup[11] = Delete(ChainOut, JumpExempt)
       /\ Cleanup[12] = ClearAndDeleteChain(ChainExempt)
  BY <1>3, <1>4, <1>9, <1>10, <1>11
<1>14. /\ Cleanup[6] = MangleDelete("forward4") /\ Cleanup[7] = MangleDelete("output4")
       /\ Cleanup[8] = MangleDelete("forward6") /\ Cleanup[9] = MangleDelete("output6")
  BY <1>3, <1>8, <1>9, <1>10, <1>11
<1>15. /\ Cleanup[1] = Deactivate
       /\ Cleanup[2] = RuleFlush("guard76") /\ Cleanup[3] = RuleFlush("pia75")
       /\ Cleanup[4] = RuleFlush("local100") /\ Cleanup[5] = RuleFlush("local100v6")
  BY <1>2, <1>6, <1>7, <1>8, <1>9, <1>10, <1>11
<1>16. QED BY <1>11, <1>12, <1>13, <1>14, <1>15, Inclusions

-----------------------------------------------------------------------------
(* Which commands of a chain can be next.                                  *)

\* t is the script of an exemption for the endpoints that are held: a new
\* chain, the jump to it, and a rule for each.  Of the rules only the first can
\* be one whose error is returned, that of AddExemption.
Grants(t) ==
    /\ Len(t) >= 3
    /\ t[1] = NewChain(ChainExempt)
    /\ t[2] = Insert(ChainOut, 1, JumpExempt, "ignore")
    /\ \A i \in 3..Len(t) : \E ep \in held, o \in {"return", "ignore"} :
          t[i] = Append_(ChainExempt, Exempt(ep), o) /\ (o = "return" => i = 3)
    /\ \A ep \in held : \E i \in 3..Len(t) : t[i].rule = Exempt(ep)

GrantScript ==
    op = "Exempt" => \E t \in Seq(Commands) : Grants(t) /\ RestOf(todo, t)

\* The commands of the two methods that open exemptions.
LEMMA ExemptScriptsAt ==
    /\ \A ep \in Endpoint :
          LET t == AddExemption(ep) IN
          /\ Len(t) = 3 /\ t[1] = NewChain(ChainExempt)
          /\ t[2] = Insert(ChainOut, 1, JumpExempt, "ignore")
          /\ t[3] = Append_(ChainExempt, Exempt(ep), "return")
    /\ \A specs \in Batches :
          LET t == AddExemptions(specs) IN
          /\ Len(specs) \in Nat \ {0}
          /\ Len(t) = 2 + Len(specs) /\ t[1] = NewChain(ChainExempt)
          /\ t[2] = Insert(ChainOut, 1, JumpExempt, "ignore")
          /\ \A i \in 1..Len(specs) : t[i + 2] = Append_(ChainExempt, Exempt(specs[i]), "ignore")
<1>1. /\ createExemptChain \in Seq(Safe) /\ Len(createExemptChain) = 2
      /\ createExemptChain[1] = NewChain(ChainExempt)
      /\ createExemptChain[2] = Insert(ChainOut, 1, JumpExempt, "ignore")
  <2>1. NewChain(ChainExempt) \in Safe
    BY KernelCommands, ChainNames
  <2>2. Insert(ChainOut, 1, JumpExempt, "ignore") \in Safe
    BY AddingCommands, AllowedRules, RuleTypes, ChainNames
  <2>3. QED BY <2>1, <2>2 DEF createExemptChain
<1>2. \A ep \in Endpoint, o \in {"return", "ignore"} : Append_(ChainExempt, Exempt(ep), o) \in Safe
  BY AddingCommands, AllowedRules, RuleTypes, ChainNames
<1>3. ASSUME NEW ep \in Endpoint
      PROVE  LET t == AddExemption(ep) IN
             /\ Len(t) = 3 /\ t[1] = NewChain(ChainExempt)
             /\ t[2] = Insert(ChainOut, 1, JumpExempt, "ignore")
             /\ t[3] = Append_(ChainExempt, Exempt(ep), "return")
  <2> DEFINE a == << Append_(ChainExempt, Exempt(ep), "return") >>
             c == createExemptChain
             t == AddExemption(ep)
  <2>1. a \in Seq(Safe) /\ Len(a) = 1 /\ a[1] = Append_(ChainExempt, Exempt(ep), "return")
    BY <1>2
  <2>2. t = c \o a
    BY DEF AddExemption
  <2> HIDE DEF a, c, t
  <2>3. /\ Len(t) = Len(c) + Len(a)
        /\ \A k \in 1..(Len(c) + Len(a)) : t[k] = IF k <= Len(c) THEN c[k] ELSE a[k - Len(c)]
    BY <1>1, <2>1, <2>2, ConcatProperties DEF c
  <2>4. /\ Len(t) = 3 /\ \A k \in 1..3 : t[k] = IF k <= 2 THEN c[k] ELSE a[k - 2]
    BY <1>1, <2>1, <2>3 DEF c
  <2>5. t[1] = c[1] /\ t[2] = c[2] /\ t[3] = a[1]
    BY <2>4
  <2>6. QED BY <1>1, <2>1, <2>4, <2>5 DEF t, c
<1>4. ASSUME NEW specs \in Batches
      PROVE  LET t == AddExemptions(specs) IN
             /\ Len(specs) \in Nat \ {0}
             /\ Len(t) = 2 + Len(specs) /\ t[1] = NewChain(ChainExempt)
             /\ t[2] = Insert(ChainOut, 1, JumpExempt, "ignore")
             /\ \A i \in 1..Len(specs) : t[i + 2] = Append_(ChainExempt, Exempt(specs[i]), "ignore")
  <2> DEFINE a == [i \in 1..Len(specs) |-> Append_(ChainExempt, Exempt(specs[i]), "ignore")]
             c == createExemptChain
             n == Len(specs)
             t == AddExemptions(specs)
  <2>1. specs \in Seq(Endpoint) /\ n \in Nat \ {0}
    <3>1. PICK m \in 1..MaxBatch : specs \in [1..m -> Endpoint]
      BY DEF Batches
    <3>2. m \in Nat \ {0}
      BY <3>1, BoundAssumption DEF BoundAssumption
    <3>3. specs \in Seq(Endpoint) /\ Len(specs) = m
      BY <3>1, <3>2
    <3>4. QED BY <3>2, <3>3
  <2>2. a \in Seq(Safe) /\ Len(a) = n
    BY <1>2, <2>1
  <2>3. \A i \in 1..n : a[i] = Append_(ChainExempt, Exempt(specs[i]), "ignore")
    OBVIOUS
  <2>4. t = c \o a
    BY DEF AddExemptions
  <2> HIDE DEF a, c, t, n
  <2>5. /\ Len(t) = Len(c) + Len(a)
        /\ \A k \in 1..(Len(c) + Len(a)) : t[k] = IF k <= Len(c) THEN c[k] ELSE a[k - Len(c)]
    BY <1>1, <2>2, <2>4, ConcatProperties DEF c
  <2>6. /\ Len(t) = 2 + n /\ \A k \in 1..(2 + n) : t[k] = IF k <= 2 THEN c[k] ELSE a[k - 2]
    BY <1>1, <2>1, <2>2, <2>5 DEF c
  <2>7. t[1] = c[1] /\ t[2] = c[2]
    BY <2>1, <2>6
  <2>8. \A i \in 1..n : t[i + 2] = a[i]
    BY <2>1, <2>6
  <2>9. QED BY <1>1, <2>1, <2>3, <2>6, <2>7, <2>8 DEF t, c, n
<1>5. QED BY <1>3, <1>4

\* Exemptions are opened with such a script.
LEMMA GrantBegins ==
    ASSUME TypeOK, OpenExemption \/ OpenExemptions
    PROVE  op' = "Exempt" /\ \E t \in Seq(Commands) : todo' = t /\ Grants(t)'
<1>0. op' = "Exempt"
  BY DEF OpenExemption, OpenExemptions, Call
<1>1. \A ep, o : Append_(ChainExempt, Exempt(ep), o).rule = Exempt(ep)
  BY DEF Append_, Command
<1>2. CASE OpenExemption
  <2>1. PICK ep \in Endpoint : held' = {ep} /\ todo' = AddExemption(ep)
    BY <1>2 DEF OpenExemption, Call
  <2> DEFINE t == AddExemption(ep)
  <2>2. /\ t \in Seq(Commands)
        /\ Len(t) = 3 /\ t[1] = NewChain(ChainExempt)
        /\ t[2] = Insert(ChainOut, 1, JumpExempt, "ignore")
        /\ t[3] = Append_(ChainExempt, Exempt(ep), "return")
    BY ExemptScriptsAt, ScriptTypes
  <2>3. todo' = t /\ held' = {ep}
    BY <2>1
  <2> HIDE DEF t
  <2>4. \A i \in 3..Len(t) : i = 3
    BY <2>2
  <2>5. Grants(t)'
    BY <1>1, <2>2, <2>3, <2>4 DEF Grants
  <2>6. QED BY <1>0, <2>2, <2>3, <2>5
<1>3. CASE OpenExemptions
  <2>1. PICK specs \in Batches : held' = ToSet(specs) /\ todo' = AddExemptions(specs)
    BY <1>3 DEF OpenExemptions, Call
  <2> DEFINE t == AddExemptions(specs)
  <2>2. /\ t \in Seq(Commands) /\ specs \in Seq(Endpoint) /\ Len(specs) \in Nat \ {0}
        /\ Len(t) = 2 + Len(specs) /\ t[1] = NewChain(ChainExempt)
        /\ t[2] = Insert(ChainOut, 1, JumpExempt, "ignore")
        /\ \A i \in 1..Len(specs) : t[i + 2] = Append_(ChainExempt, Exempt(specs[i]), "ignore")
    BY ExemptScriptsAt, ScriptTypes
  <2>3. todo' = t /\ held' = {specs[i] : i \in 1..Len(specs)}
    BY <2>1, <2>2 DEF ToSet
  <2> HIDE DEF t
  <2>4. ASSUME NEW i \in 3..Len(t)
        PROVE  \E ep \in held' : t[i] = Append_(ChainExempt, Exempt(ep), "ignore")
    <3>1. i - 2 \in 1..Len(specs) /\ (i - 2) + 2 = i
      BY <2>2
    <3>2. t[i] = Append_(ChainExempt, Exempt(specs[i - 2]), "ignore")
      BY <2>2, <3>1
    <3>3. QED BY <2>3, <3>1, <3>2
  <2>5. ASSUME NEW ep \in held' PROVE \E i \in 3..Len(t) : t[i].rule = Exempt(ep)
    <3>1. PICK j \in 1..Len(specs) : ep = specs[j]
      BY <2>3
    <3>2. j + 2 \in 3..Len(t) /\ t[j + 2] = Append_(ChainExempt, Exempt(specs[j]), "ignore")
      BY <2>2, <3>1
    <3>3. QED BY <1>1, <3>1, <3>2
  <2>6. Len(t) >= 3
    BY <2>2
  <2>7. Grants(t)'
    <3>1. \A i \in 3..Len(t) : \E ep \in held', o \in {"return", "ignore"} :
             t[i] = Append_(ChainExempt, Exempt(ep), o) /\ (o = "return" => i = 3)
      BY <2>4
    <3>2. QED BY <2>2, <2>5, <2>6, <3>1 DEF Grants
  <2>8. QED BY <1>0, <2>2, <2>3, <2>7
<1>4. QED BY <1>2, <1>3

\* Every step keeps to it.
LEMMA GrantScriptStep ==
    ASSUME TypeOK, PhaseInv, GrantScript, Next
    PROVE  GrantScript'
<1>1. CASE OpenExemption \/ OpenExemptions
  BY <1>1, GrantBegins, RestWhole DEF GrantScript
<1>2. CASE RunCommand
  <2>1. /\ todo # << >> /\ UNCHANGED <<op, held>> /\ todo \in Seq(Commands)
        /\ todo' = Tail(todo) \/ todo' = << >>
    BY <1>2, CommandCaller, CommandCourse DEF TypeOK
  <2>2. SUFFICES ASSUME op = "Exempt" PROVE \E t \in Seq(Commands) : Grants(t)' /\ RestOf(todo', t)
    BY <2>1 DEF GrantScript
  <2>3. PICK t \in Seq(Commands) : Grants(t) /\ RestOf(todo, t)
    BY <2>2 DEF GrantScript
  <2>4. Grants(t)'
    BY <2>1, <2>3 DEF Grants
  <2>5. RestOf(todo', t)
    BY <2>1, <2>3, RestNext, RestWhole
  <2>6. QED BY <2>4, <2>5
<1>3. CASE ~(OpenExemption \/ OpenExemptions \/ RunCommand)
  <2>1. op' # "Exempt"
    BY <1>3 DEF Next, Progress, StartSetup, SetupReturns,
       CloseExemptions, BeginRoutes, BeginForward, Announce, BeginTeardown, ExemptReturns,
       UnexemptReturns, RoutesReturn, ForwardReturns, AnnounceReturns, TeardownReturns,
       BeginConnect, LeaveServices, BeginCleanup, CleanupReturns, ErrorExit, Crash, Dies,
       Stopped, Call, Returns, vars, call, Idle, PhaseInv, Down
  <2>2. QED BY <2>1 DEF GrantScript
<1>4. QED BY <1>1, <1>2, <1>3

\* AddPIADNSRoutes touches no chain.
LEMMA DNSTouchesNone == \A k \in 1..Len(DNSScript) : DNSScript[k].do \notin ChainCommands
<1> DEFINE adds == [i \in 1..(2 * Len(PIADNS)) |->
                      RuleAdd(IF i % 2 = 1 THEN "guard76" ELSE "pia75", PIADNS[(i + 1) \div 2])]
           Plain == {c \in Commands : c.do \notin ChainCommands}
<1>1. PIADNS \in Seq(Address) /\ Len(PIADNS) \in Nat
  BY ConfigAssumption DEF ConfigAssumption
<1>2. \A p \in Prio : RuleFlush(p) \in Plain /\ \A d \in Destination : RuleAdd(p, d) \in Plain
  <2>1. \A p \in Prio : RuleFlush(p) \in Commands /\ \A d \in Destination : RuleAdd(p, d) \in Commands
    BY KernelCommands, Inclusions
  <2>2. \A p, d : RuleFlush(p).do = "ruleflush" /\ RuleAdd(p, d).do = "ruleadd"
    BY DEF RuleFlush, RuleAdd, Command
  <2>3. QED BY <2>1, <2>2 DEF ChainCommands
<1> HIDE DEF Plain
<1>3. RemovePIARoutes \in Seq(Plain)
  BY <1>2 DEF RemovePIARoutes, Prio
<1>4. ASSUME NEW i \in 1..(2 * Len(PIADNS))
      PROVE  RuleAdd(IF i % 2 = 1 THEN "guard76" ELSE "pia75", PIADNS[(i + 1) \div 2]) \in Plain
  <2>1. (i + 1) \div 2 \in 1..Len(PIADNS)
    BY <1>1
  <2>2. PIADNS[(i + 1) \div 2] \in Destination
    BY <1>1, <2>1 DEF Destination
  <2>3. \A p \in {"guard76", "pia75"} : RuleAdd(p, PIADNS[(i + 1) \div 2]) \in Plain
    BY <1>2, <2>2 DEF Prio
  <2>4. QED BY <2>3
<1>5. adds \in Seq(Plain)
  BY <1>1, <1>4
<1>6. DNSScript = RemovePIARoutes \o adds
  BY DEF DNSScript, AddPIADNSRoutes
<1> HIDE DEF adds
<1>7. DNSScript \in Seq(Plain)
  BY <1>3, <1>5, <1>6, SeqConcat
<1>8. \A k \in 1..Len(DNSScript) : DNSScript[k] \in Plain
  BY <1>7
<1>9. QED BY <1>8 DEF Plain

\* The next command of an exemption's script.
LEMMA ExemptNext ==
    ASSUME TypeOK, NEW t \in Seq(Commands), Grants(t), RestOf(todo, t), RunCommand
    PROVE  /\ Ran(t) \in Nat /\ Ran(t) + 1 \in 1..Len(t) /\ cmd = t[Ran(t) + 1]
           /\ Ran(t) = 0 => cmd = NewChain(ChainExempt)
           /\ Ran(t) = 1 => cmd = Insert(ChainOut, 1, JumpExempt, "ignore")
           /\ Ran(t) >= 2 => \E ep \in held, o \in {"return", "ignore"} :
                 cmd = Append_(ChainExempt, Exempt(ep), o) /\ (o = "return" => Ran(t) + 1 = 3)
<1>1. Ran(t) \in Nat /\ Ran(t) + 1 \in 1..Len(t) /\ cmd = t[Ran(t) + 1] /\ Len(t) \in Nat
  BY RanNext
<1>2. Ran(t) = 0 => cmd = t[1]
  BY <1>1
<1>3. Ran(t) = 1 => cmd = t[2]
  BY <1>1
<1>4. ASSUME Ran(t) >= 2
      PROVE  \E ep \in held, o \in {"return", "ignore"} :
                cmd = Append_(ChainExempt, Exempt(ep), o) /\ (o = "return" => Ran(t) + 1 = 3)
  <2>1. Ran(t) + 1 \in 3..Len(t)
    BY <1>1, <1>4
  <2>2. QED BY <1>1, <2>1 DEF Grants
<1>5. QED BY <1>1, <1>2, <1>3, <1>4 DEF Grants

\* The next command of RemoveExemptions.
LEMMA UnexemptNext ==
    ASSUME TypeOK, ScriptInv, RunCommand
    PROVE  op = "Unexempt" =>
           \/ Len(todo) = 2 /\ cmd = Delete(ChainOut, JumpExempt)
           \/ Len(todo) = 1 /\ cmd = ClearAndDeleteChain(ChainExempt)
<1>0. SUFFICES ASSUME op = "Unexempt"
      PROVE \/ Len(todo) = 2 /\ cmd = Delete(ChainOut, JumpExempt)
            \/ Len(todo) = 1 /\ cmd = ClearAndDeleteChain(ChainExempt)
  OBVIOUS
<1> DEFINE t == RemoveExemptions
<1>1. t \in Seq(Commands) /\ RestOf(todo, t) /\ todo # << >> /\ todo \in Seq(Commands)
  BY <1>0, ScriptTypes, CommandCaller DEF ScriptInv, TypeOK
<1>2. Len(t) = 2 /\ t[1] = Delete(ChainOut, JumpExempt) /\ t[2] = ClearAndDeleteChain(ChainExempt)
  BY DEF RemoveExemptions
<1> HIDE DEF t
<1>3. Len(todo) \in 1..Len(t)
  BY <1>1, RestNext
<1>4. cmd = t[Len(t) - Len(todo) + 1]
  BY <1>1, RestNext DEF cmd
<1>5. Len(todo) = 1 \/ Len(todo) = 2
  BY <1>2, <1>3
<1>6. CASE Len(todo) = 1
  <2>1. cmd = t[2 - 1 + 1]
    BY <1>2, <1>4, <1>6
  <2>2. QED BY <1>2, <1>6, <2>1
<1>7. CASE Len(todo) = 2
  <2>1. cmd = t[2 - 2 + 1]
    BY <1>2, <1>4, <1>7
  <2>2. QED BY <1>2, <1>7, <2>1
<1>8. QED BY <1>5, <1>6, <1>7

\* The next command of Setup.
LEMMA SetupNext ==
    ASSUME TypeOK, ScriptInv, RunCommand, op = "Setup"
    PROVE  /\ Ran(Setup) \in Nat /\ Ran(Setup) + 1 \in 1..Len(Setup) /\ Len(Setup) \in Nat
           /\ cmd = Setup[Ran(Setup) + 1]
           /\ Len(Setup) - Len(todo') = Ran(Setup) + 1 \/ todo' = << >>
           /\ Ran(Setup) < 8 => cmd.do \in {"unwire", "clear"}
           /\ Ran(Setup) = 8 => cmd = NewChain(ChainIn)
           /\ Ran(Setup) = 9 => cmd = Append_(ChainIn, Established, "return")
           /\ Ran(Setup) = 10 => cmd = Append_(ChainIn, Loopback, "return")
           /\ Ran(Setup) = 11 => cmd = Append_(ChainIn, Drop, "return")
           /\ Ran(Setup) = 12 => cmd = InsertJump(ChainIn)
           /\ Ran(Setup) = 13 => cmd = NewChain(ChainOut)
           /\ Ran(Setup) >= 14 => cmd \in Later
<1>1. Setup \in Seq(Commands) /\ RestOf(todo, Setup)
  BY ScriptTypes DEF ScriptInv
<1>2. /\ Ran(Setup) \in Nat /\ Ran(Setup) + 1 \in 1..Len(Setup) /\ Len(Setup) \in Nat
      /\ cmd = Setup[Ran(Setup) + 1]
      /\ Len(Setup) - Len(todo') = Ran(Setup) + 1 \/ todo' = << >>
  BY <1>1, RanNext
<1>3. Begins(Setup)
  BY SetupAt
<1> DEFINE s == Setup
           n == Ran(Setup)
<1>4. /\ \A i \in 1..8 : s[i].do \in {"unwire", "clear"}
      /\ \A i \in 15..Len(s) : s[i] \in Later
  BY <1>3 DEF Begins
<1>5. /\ s[9] = NewChain(ChainIn)
      /\ s[10] = Append_(ChainIn, Established, "return")
      /\ s[11] = Append_(ChainIn, Loopback, "return")
      /\ s[12] = Append_(ChainIn, Drop, "return")
      /\ s[13] = InsertJump(ChainIn)
      /\ s[14] = NewChain(ChainOut)
  BY <1>3 DEF Begins
<1>6. n \in Nat /\ n + 1 \in 1..Len(s) /\ Len(s) \in Nat /\ cmd = s[n + 1]
  BY <1>2
<1> HIDE DEF s, n
<1>7. n < 8 => cmd.do \in {"unwire", "clear"}
  <2>1. n < 8 => n + 1 \in 1..8
    BY <1>6
  <2>2. QED BY <1>4, <1>6, <2>1
<1>8. n >= 14 => cmd \in Later
  <2>1. n >= 14 => n + 1 \in 15..Len(s)
    BY <1>6
  <2>2. QED BY <1>4, <1>6, <2>1
<1>9. n = 8 => cmd = s[9]
  BY <1>6
<1>10. n = 9 => cmd = s[10]
  BY <1>6
<1>11. n = 10 => cmd = s[11]
  BY <1>6
<1>12. n = 11 => cmd = s[12]
  BY <1>6
<1>13. n = 12 => cmd = s[13]
  BY <1>6
<1>14. n = 13 => cmd = s[14]
  BY <1>6
<1>15. /\ n < 8 => cmd.do \in {"unwire", "clear"}
       /\ n = 8 => cmd = NewChain(ChainIn)
       /\ n = 9 => cmd = Append_(ChainIn, Established, "return")
       /\ n = 10 => cmd = Append_(ChainIn, Loopback, "return")
       /\ n = 11 => cmd = Append_(ChainIn, Drop, "return")
       /\ n = 12 => cmd = InsertJump(ChainIn)
       /\ n = 13 => cmd = NewChain(ChainOut)
       /\ n >= 14 => cmd \in Later
  BY <1>5, <1>7, <1>8, <1>9, <1>10, <1>11, <1>12, <1>13, <1>14
<1>16. QED BY <1>2, <1>15 DEF n, s

\* The next command of Cleanup.
LEMMA CleanupNext ==
    ASSUME TypeOK, ScriptInv, RunCommand, op = "Cleanup"
    PROVE  /\ Ran(Cleanup) \in Nat /\ Ran(Cleanup) + 1 \in 1..20
           /\ cmd = Cleanup[Ran(Cleanup) + 1]
           /\ \/ cmd = Deactivate \/ cmd = Delete(ChainOut, JumpExempt)
              \/ \E p \in Prio : cmd = RuleFlush(p)
              \/ \E m \in MangleRules : cmd = MangleDelete(m)
              \/ \E c \in Chains : cmd = ClearAndDeleteChain(c)
              \/ \E c \in BaseChains : cmd = DeleteJump(c)
<1>1. Cleanup \in Seq(Commands) /\ RestOf(todo, Cleanup)
  BY ScriptTypes DEF ScriptInv
<1>2. /\ Ran(Cleanup) \in Nat /\ Ran(Cleanup) + 1 \in 1..Len(Cleanup) /\ Len(Cleanup) \in Nat
      /\ cmd = Cleanup[Ran(Cleanup) + 1]
  BY <1>1, RanNext
<1>3. Len(Cleanup) = 20
  BY CleanupAt
<1>4. ASSUME NEW k \in 1..20
      PROVE  \/ Cleanup[k] = Deactivate \/ Cleanup[k] = Delete(ChainOut, JumpExempt)
             \/ \E p \in Prio : Cleanup[k] = RuleFlush(p)
             \/ \E m \in MangleRules : Cleanup[k] = MangleDelete(m)
             \/ \E c \in Chains : Cleanup[k] = ClearAndDeleteChain(c)
             \/ \E c \in BaseChains : Cleanup[k] = DeleteJump(c)
  <2> DEFINE G(c) == \/ c = Deactivate \/ c = Delete(ChainOut, JumpExempt)
                     \/ \E p \in Prio : c = RuleFlush(p)
                     \/ \E m \in MangleRules : c = MangleDelete(m)
                     \/ \E d \in Chains : c = ClearAndDeleteChain(d)
                     \/ \E d \in BaseChains : c = DeleteJump(d)
  <2>1. G(Cleanup[1]) /\ G(Cleanup[11]) /\ G(Cleanup[12])
    BY CleanupAt, ChainNames
  <2>2. G(Cleanup[2]) /\ G(Cleanup[3]) /\ G(Cleanup[4]) /\ G(Cleanup[5]) /\ G(Cleanup[10])
    <3>1. {"guard76", "pia75", "local100", "local100v6", "bypass50"} \subseteq Prio
      BY DEF Prio
    <3>2. QED BY <3>1, CleanupAt
  <2>3. G(Cleanup[6]) /\ G(Cleanup[7]) /\ G(Cleanup[8]) /\ G(Cleanup[9])
    <3>1. {"forward4", "output4", "forward6", "output6"} \subseteq MangleRules
      BY DEF MangleRules
    <3>2. QED BY <3>1, CleanupAt
  <2>4. G(Cleanup[13]) /\ G(Cleanup[15]) /\ G(Cleanup[17]) /\ G(Cleanup[19])
    BY CleanupAt, ChainNames
  <2>5. G(Cleanup[14]) /\ G(Cleanup[16]) /\ G(Cleanup[18]) /\ G(Cleanup[20])
    BY CleanupAt, ChainNames
  <2>6. G(Cleanup[k])
    <3> HIDE DEF G
    <3>1. \/ k = 1 \/ k = 2 \/ k = 3 \/ k = 4 \/ k = 5 \/ k = 6 \/ k = 7 \/ k = 8 \/ k = 9 \/ k = 10
          \/ k = 11 \/ k = 12 \/ k = 13 \/ k = 14 \/ k = 15 \/ k = 16 \/ k = 17 \/ k = 18
          \/ k = 19 \/ k = 20
      OBVIOUS
    <3>2. QED BY <2>1, <2>2, <2>3, <2>4, <2>5, <3>1
  <2>7. QED BY <2>6
<1>5. QED BY <1>2, <1>3, <1>4

\* The commands of the other methods touch no chain, or VPN_IN only.
LEMMA ChainNext ==
    ASSUME TypeOK, PhaseInv, ScriptInv, RunCommand, cmd.do \in ChainCommands
    PROVE  \/ op \in {"Setup", "Cleanup", "Exempt", "Unexempt"}
           \/ /\ op = "AllowPort" 
              /\ \E p \in {activePort, announced}, proto \in {"tcp", "udp"} :
                    \/ cmd = Insert(ChainIn, 3, PortRule(proto, p), "return")
                    \/ cmd = Delete(ChainIn, PortRule(proto, p))
           \/ /\ op = "Teardown"
              /\ \E proto \in {"tcp", "udp"} : cmd = Delete(ChainIn, PortRule(proto, activePort))
<1>1. todo # << >> /\ todo \in Seq(Commands) /\ op # "none" /\ op \in Op
  BY CommandCaller DEF PhaseInv, TypeOK
<1>2. CASE op = "AllowPort"
  <2>1. SetActivePort(announced).do \notin ChainCommands
    BY DEF SetActivePort, Command, ChainCommands
  <2>2. QED BY <1>1, <1>2, <2>1, AllowCases
<1>3. CASE op = "Teardown"
  <2>1. RuleDel("pia75", PFGateway).do \notin ChainCommands
    BY DEF RuleDel, Command, ChainCommands
  <2>2. QED BY <1>1, <1>3, <2>1, TeardownCases
<1>4. CASE op = "PFRoute"
  <2> DEFINE t == AddPFRoute(PFGateway)
  <2>1. RestOf(todo, t) /\ t \in Seq(Commands)
    BY <1>4, ScriptTypes DEF ScriptInv
  <2>2. Len(t) = 1 /\ t[1] = RuleAdd("pia75", PFGateway)
    BY DEF AddPFRoute
  <2> HIDE DEF t
  <2>3. Ran(t) + 1 \in 1..Len(t) /\ cmd = t[Ran(t) + 1] /\ Ran(t) \in Nat
    BY <2>1, RanNext
  <2>4. Ran(t) + 1 = 1
    BY <2>2, <2>3
  <2>5. cmd = RuleAdd("pia75", PFGateway)
    BY <2>2, <2>3, <2>4
  <2>6. RuleAdd("pia75", PFGateway).do \notin ChainCommands
    BY DEF RuleAdd, Command, ChainCommands
  <2>7. QED BY <2>5, <2>6
<1>5. CASE op = "DNSRoutes"
  <2>1. PIAMode /\ RestOf(todo, DNSScript) /\ DNSScript \in Seq(Commands)
    BY <1>1, <1>5, DNSScriptAt DEF ScriptInv, DNSScript
  <2>2. /\ Ran(DNSScript) \in Nat /\ Ran(DNSScript) + 1 \in 1..Len(DNSScript)
        /\ cmd = DNSScript[Ran(DNSScript) + 1] /\ Len(DNSScript) \in Nat
    BY <2>1, RanNext
  <2>3. \A k \in 1..Len(DNSScript) : DNSScript[k].do \notin ChainCommands
    BY DNSTouchesNone
  <2>4. QED BY <2>2, <2>3
<1>6. QED BY <1>1, <1>2, <1>3, <1>4, <1>5 DEF Op

-----------------------------------------------------------------------------
(* The jump to the exemptions.                                             *)

\* VPN_OUT jumps to the chain of the exemptions.
Jump == \E i \in 1..Len(chain[ChainOut]) : chain[ChainOut][i] = JumpExempt

\* The command that adds the jump.
Jumping == Insert(ChainOut, 1, JumpExempt, "ignore")

\* What a command may do to VPN_OUT.
OutEffect ==
    \/ chain'[ChainOut] = chain[ChainOut]
    \/ chain'[ChainOut] = << >>
    \/ \E i \in 1..Len(chain[ChainOut]) :
          chain[ChainOut][i] = JumpExempt /\ chain'[ChainOut] = RemoveAt(chain[ChainOut], i)
    \/ /\ op = "Exempt" /\ cmd = Jumping /\ ChainExempt \in exists /\ ChainOut \in exists
       /\ chain'[ChainOut] = InsertAt(chain[ChainOut], 1, JumpExempt)
    \/ op = "Setup" /\ Ran(Setup) >= 14 /\ (Jump' => Jump)

\* Adding another rule adds no jump.
LEMMA AddedElsewhere ==
    ASSUME NEW s \in Seq(Rules), NEW r \in Rules, NEW i \in 1..(Len(s) + 1), NEW k \in 1..(Len(s) + 1),
           InsertAt(s, i, r)[k] # r
    PROVE  \E j \in 1..Len(s) : s[j] = InsertAt(s, i, r)[k]
<1>1. /\ InsertAt(s, i, r)[i] = r
      /\ \A j \in 1..(i - 1) : InsertAt(s, i, r)[j] = s[j]
      /\ \A j \in (i + 1)..(Len(s) + 1) : InsertAt(s, i, r)[j] = s[j - 1]
  BY InsertAtIs
<1>2. k # i
  BY <1>1
<1>3. CASE k < i
  <2>1. k \in 1..(i - 1) /\ k \in 1..Len(s)
    BY <1>3
  <2>2. QED BY <1>1, <2>1
<1>4. CASE k > i
  <2>1. k \in (i + 1)..(Len(s) + 1) /\ k - 1 \in 1..Len(s)
    BY <1>4
  <2>2. QED BY <1>1, <2>1
<1>5. QED BY <1>2, <1>3, <1>4

\* The later commands of Setup add no jump.
LEMMA LaterOut ==
    ASSUME TypeOK, cmd \in Later, cmd \in Commands, ChainEffect, cmd.on = ChainOut
    PROVE  Jump' => Jump
<1> DEFINE s == chain[ChainOut]
<1>1. s \in Seq(Rules) /\ Len(s) \in Nat
  BY ChainNames DEF TypeOK
<1>2. /\ cmd.do \notin {"delete", "clear", "port", "new"} /\ (cmd.do \in Adds => cmd.rule # JumpExempt)
      /\ cmd.rule \in Rules
  BY CommandParts DEF Later
<1>3. CASE chain'[ChainOut] = chain[ChainOut]
  BY <1>3 DEF Jump
<1>4. ASSUME NEW i \in 1..(Len(s) + 1), chain'[ChainOut] = InsertAt(s, i, cmd.rule), cmd.do \in Adds
      PROVE  Jump' => Jump
  <2>1. SUFFICES ASSUME NEW k \in 1..Len(chain'[ChainOut]), chain'[ChainOut][k] = JumpExempt PROVE Jump
    BY DEF Jump
  <2>2. PICK r \in Rules : r = cmd.rule /\ r # JumpExempt
    BY <1>2, <1>4
  <2> HIDE DEF s
  <2>3. Len(InsertAt(s, i, r)) = Len(s) + 1
    BY <1>1, RuleInserted
  <2>4. k \in 1..(Len(s) + 1) /\ InsertAt(s, i, r)[k] = JumpExempt
    BY <1>4, <2>1, <2>2, <2>3
  <2>5. PICK j \in 1..Len(s) : s[j] = InsertAt(s, i, r)[k]
    BY <1>1, <2>2, <2>4, AddedElsewhere
  <2>6. s[j] = JumpExempt
    BY <2>4, <2>5
  <2>7. QED BY <2>6 DEF Jump, s
<1>5. CASE cmd.do = "append" /\ Becomes(Append(chain[cmd.on], cmd.rule))
  <2>1. chain'[ChainOut] = Append(s, cmd.rule)
    BY <1>5 DEF Becomes
  <2> HIDE DEF s
  <2>2. Len(Append(s, cmd.rule)) = Len(s) + 1 /\ \A k \in 1..(Len(s) + 1) :
           Append(s, cmd.rule)[k] = IF k <= Len(s) THEN s[k] ELSE cmd.rule
    BY <1>1, <1>2, AppendProperties
  <2>3. cmd.rule # JumpExempt
    BY <1>2, <1>5 DEF Adds
  <2>4. ASSUME NEW k \in 1..(Len(s) + 1), Append(s, cmd.rule)[k] = JumpExempt
        PROVE  k \in 1..Len(s) /\ s[k] = JumpExempt
    BY <1>1, <2>2, <2>3, <2>4
  <2>5. QED BY <2>1, <2>2, <2>4 DEF Jump, s
<1>6. CASE /\ cmd.do = "insert" /\ cmd.pos \in 1..(Len(chain[cmd.on]) + 1)
           /\ Becomes(InsertAt(chain[cmd.on], cmd.pos, cmd.rule))
  <2>1. chain'[ChainOut] = InsertAt(s, cmd.pos, cmd.rule) /\ cmd.do \in Adds /\ cmd.pos \in 1..(Len(s) + 1)
    BY <1>6 DEF Becomes, Adds
  <2>2. QED BY <1>4, <2>1
<1>7. CASE /\ cmd.do = "beforedrop" /\ chain[cmd.on] # << >>
           /\ Becomes(InsertAt(chain[cmd.on], Len(chain[cmd.on]), cmd.rule))
  <2>1. chain'[ChainOut] = InsertAt(s, Len(s), cmd.rule) /\ cmd.do \in Adds /\ s # << >>
    BY <1>7 DEF Becomes, Adds
  <2>2. Len(s) \in 1..(Len(s) + 1)
    BY <1>1, <2>1
  <2>3. QED BY <1>4, <2>1, <2>2
<1>8. QED BY <1>2, <1>3, <1>5, <1>6, <1>7 DEF ChainEffect

\* Every command has one of these effects.
LEMMA OutCourse ==
    ASSUME TypeOK, PhaseInv, ScriptInv, GrantScript, RunCommand
    PROVE  OutEffect
<1>1. cmd \in Commands /\ ChainEffect
  BY ChainCourse
<1>2. CASE cmd.do \notin ChainCommands
  <2>1. \A c : c \in {"new", "append", "insert", "beforedrop", "delete", "clear"} => c \in ChainCommands
    BY DEF ChainCommands
  <2>2. chain' = chain
    BY <1>1, <1>2, <2>1 DEF ChainEffect
  <2>3. QED BY <2>2 DEF OutEffect
<1>3. CASE cmd.do \in ChainCommands /\ cmd.on # ChainOut
  <2>1. \A s : Becomes(s) => chain'[ChainOut] = chain[ChainOut]
    BY <1>3, ChainNames DEF Becomes
  <2>2. chain'[ChainOut] = chain[ChainOut]
    BY <1>1, <2>1 DEF ChainEffect
  <2>3. QED BY <2>2 DEF OutEffect
<1>4. CASE cmd.do \in ChainCommands /\ cmd.on = ChainOut
  <2>1. \A s : Becomes(s) => chain'[ChainOut] = s
    BY <1>4 DEF Becomes
  <2>2. CASE cmd.do \in {"new", "clear"}
    <3>1. chain'[ChainOut] = chain[ChainOut] \/ chain'[ChainOut] = << >>
      BY <1>1, <2>1, <2>2, <1>4 DEF ChainEffect
    <3>2. QED BY <3>1 DEF OutEffect
  <2>3. CASE cmd = Delete(ChainOut, JumpExempt)
    <3>1. cmd.do = "delete" /\ cmd.rule = JumpExempt /\ cmd.on = ChainOut
      BY <2>3 DEF Delete, Command
    <3>2. QED BY <1>1, <1>4, <2>1, <3>1 DEF ChainEffect, OutEffect
  <2>4. CASE cmd = Jumping /\ op = "Exempt"
    <3>1. cmd.do = "insert" /\ cmd.rule = JumpExempt /\ cmd.on = ChainOut /\ cmd.pos = 1
      BY <2>4 DEF Jumping, Insert, Command
    <3>2. QED BY <1>1, <1>4, <2>1, <2>4, <3>1 DEF ChainEffect, OutEffect
  <2>5. CASE op = "Setup" /\ cmd \in Later /\ Ran(Setup) >= 14
    BY <1>1, <1>4, <2>5, LaterOut DEF OutEffect
  <2>6. CASE op = "Setup"
    <3>1. /\ Ran(Setup) \in Nat
          /\ Ran(Setup) < 8 => cmd.do \in {"unwire", "clear"}
          /\ Ran(Setup) = 8 => cmd = NewChain(ChainIn)
          /\ Ran(Setup) = 9 => cmd = Append_(ChainIn, Established, "return")
          /\ Ran(Setup) = 10 => cmd = Append_(ChainIn, Loopback, "return")
          /\ Ran(Setup) = 11 => cmd = Append_(ChainIn, Drop, "return")
          /\ Ran(Setup) = 12 => cmd = InsertJump(ChainIn)
          /\ Ran(Setup) = 13 => cmd = NewChain(ChainOut)
          /\ Ran(Setup) >= 14 => cmd \in Later
      BY <2>6, SetupNext
    <3>2. /\ NewChain(ChainIn).on # ChainOut /\ InsertJump(ChainIn).on # ChainOut
          /\ \A r : Append_(ChainIn, r, "return").on # ChainOut
          /\ NewChain(ChainOut).do = "new"
      BY DEF NewChain, InsertJump, Append_, Command, ChainIn, ChainOut
    <3>3. \/ Ran(Setup) < 8 \/ Ran(Setup) = 8 \/ Ran(Setup) = 9 \/ Ran(Setup) = 10 \/ Ran(Setup) = 11
          \/ Ran(Setup) = 12 \/ Ran(Setup) = 13 \/ Ran(Setup) >= 14
      BY <3>1
    <3>4. cmd.do = "unwire" => FALSE
      BY <1>4 DEF ChainCommands
    <3>5. \/ cmd.do \in {"new", "clear"}
          \/ cmd \in Later /\ Ran(Setup) >= 14
      BY <1>4, <3>1, <3>2, <3>3, <3>4
    <3>6. QED BY <2>2, <2>5, <2>6, <3>5
  <2>7. CASE op = "Cleanup"
    <3>1. \/ cmd = Deactivate \/ cmd = Delete(ChainOut, JumpExempt)
          \/ \E p \in Prio : cmd = RuleFlush(p)
          \/ \E m \in MangleRules : cmd = MangleDelete(m)
          \/ \E c \in Chains : cmd = ClearAndDeleteChain(c)
          \/ \E c \in BaseChains : cmd = DeleteJump(c)
      BY <2>7, CleanupNext
    <3>2. /\ Deactivate.do \notin ChainCommands /\ \A p : RuleFlush(p).do \notin ChainCommands
          /\ \A m : MangleDelete(m).do \notin ChainCommands /\ \A c : DeleteJump(c).do \notin ChainCommands
          /\ \A c : ClearAndDeleteChain(c).do = "clear"
      BY DEF Deactivate, RuleFlush, MangleDelete, DeleteJump, ClearAndDeleteChain, Command, ChainCommands
    <3>3. cmd = Delete(ChainOut, JumpExempt) \/ cmd.do = "clear"
      BY <1>4, <3>1, <3>2
    <3>4. QED BY <2>2, <2>3, <3>3
  <2>8. CASE op = "Exempt"
    <3>1. PICK t \in Seq(Commands) : Grants(t) /\ RestOf(todo, t)
      BY <2>8 DEF GrantScript
    <3>2. /\ Ran(t) \in Nat
          /\ Ran(t) = 0 => cmd = NewChain(ChainExempt)
          /\ Ran(t) = 1 => cmd = Jumping
          /\ Ran(t) >= 2 => \E ep \in held, o \in {"return", "ignore"} :
                 cmd = Append_(ChainExempt, Exempt(ep), o)
      BY <3>1, ExemptNext DEF Jumping
    <3>3. NewChain(ChainExempt).on # ChainOut /\ \A r, o : Append_(ChainExempt, r, o).on # ChainOut
      BY DEF NewChain, Append_, Command, ChainExempt, ChainOut
    <3>4. Ran(t) = 0 \/ Ran(t) = 1 \/ Ran(t) >= 2
      BY <3>2
    <3>5. cmd = Jumping
      BY <1>4, <3>2, <3>3, <3>4
    <3>6. QED BY <2>4, <2>8, <3>5
  <2>9. CASE op = "Unexempt"
    <3>1. ClearAndDeleteChain(ChainExempt).do = "clear"
      BY DEF ClearAndDeleteChain, Command
    <3>2. cmd = Delete(ChainOut, JumpExempt) \/ cmd = ClearAndDeleteChain(ChainExempt)
      BY <2>9, UnexemptNext
    <3>3. QED BY <2>2, <2>3, <3>1, <3>2
  <2>10. CASE op \notin {"Setup", "Cleanup", "Exempt", "Unexempt"}
    <3>1. \E r : cmd = Insert(ChainIn, 3, r, "return") \/ cmd = Delete(ChainIn, r)
      BY <1>4, <2>10, ChainNext
    <3>2. \A r : Insert(ChainIn, 3, r, "return").on # ChainOut /\ Delete(ChainIn, r).on # ChainOut
      BY DEF Insert, Delete, Command, ChainIn, ChainOut
    <3>3. QED BY <1>4, <3>1, <3>2
  <2>11. QED BY <2>6, <2>7, <2>8, <2>9, <2>10
<1>5. QED BY <1>2, <1>3, <1>4

\* The jump is the first rule of VPN_OUT and there once, and only while the chain
\* it leads to exists: where the scripts add it, it is not there.
JumpInv ==
    /\ \A i \in 1..Len(chain[ChainOut]) : chain[ChainOut][i] = JumpExempt => i = 1
    /\ Jump => ChainExempt \in exists
    /\ op = "Exempt" /\ todo # << >> /\ cmd = Jumping => ~Jump
    /\ op = "Setup" /\ todo # << >> /\ Ran(Setup) >= 14 => ~Jump

\* Adding the jump where there is none, and deleting it.
LEMMA JumpAdded ==
    ASSUME TypeOK, chain'[ChainOut] = InsertAt(chain[ChainOut], 1, JumpExempt), ~Jump
    PROVE  \A i \in 1..Len(chain'[ChainOut]) : chain'[ChainOut][i] = JumpExempt => i = 1
<1> DEFINE s == chain[ChainOut]
           t == InsertAt(s, 1, JumpExempt)
<1>1. s \in Seq(Rules) /\ JumpExempt \in Rules /\ Len(s) \in Nat
  BY ChainNames, RuleTypes DEF TypeOK
<1>2. 1 \in 1..(Len(s) + 1)
  BY <1>1
<1>3. Len(t) = Len(s) + 1 /\ \A k \in (1 + 1)..(Len(s) + 1) : t[k] = s[k - 1]
  <2> HIDE DEF s
  <2>1. QED BY ONLY <1>1, <1>2, RuleInserted
<1>4. \A j \in 1..Len(s) : s[j] # JumpExempt
  BY DEF Jump
<1>5. chain'[ChainOut] = t
  OBVIOUS
<1> HIDE DEF s, t
<1>6. ASSUME NEW i \in 1..Len(t), i # 1 PROVE t[i] # JumpExempt
  <2>1. i \in (1 + 1)..(Len(s) + 1) /\ i - 1 \in 1..Len(s)
    BY <1>1, <1>3, <1>6
  <2>2. QED BY <1>3, <1>4, <2>1
<1>7. QED BY <1>5, <1>6

\* Deleting it leaves none.
LEMMA JumpDeleted ==
    ASSUME TypeOK, NEW i \in 1..Len(chain[ChainOut]),
           \A k \in 1..Len(chain[ChainOut]) : chain[ChainOut][k] = JumpExempt => k = 1,
           chain[ChainOut][i] = JumpExempt,
           chain'[ChainOut] = RemoveAt(chain[ChainOut], i)
    PROVE  ~Jump'
<1> DEFINE s == chain[ChainOut]
           t == RemoveAt(s, i)
<1>1. s \in Seq(Rules) /\ Len(s) \in Nat /\ i = 1
  BY ChainNames DEF TypeOK
<1>2. Len(t) = Len(s) - 1 /\ \A k \in i..(Len(s) - 1) : t[k] = s[k + 1]
  BY <1>1, RemoveAtIs
<1>3. chain'[ChainOut] = t /\ \A k \in 1..Len(s) : s[k] = JumpExempt => k = 1
  OBVIOUS
<1> HIDE DEF s, t
<1>4. ASSUME NEW k \in 1..Len(t) PROVE t[k] # JumpExempt
  <2>1. k \in i..(Len(s) - 1) /\ k + 1 \in 1..Len(s) /\ k + 1 # 1
    BY <1>1, <1>2
  <2>2. QED BY <1>2, <1>3, <2>1
<1>5. QED BY <1>3, <1>4 DEF Jump

\* The jump is added by the second command of an exemption's script.
LEMMA GrantHead ==
    ASSUME NEW s \in Seq(Commands), NEW t \in Seq(Commands), Grants(t), RestOf(s, t), s # << >>,
           Head(s) = Jumping
    PROVE  Len(t) - Len(s) = 1
<1> DEFINE n == Len(t) - Len(s)
<1>1. Head(s) = t[n + 1] /\ Len(s) \in 1..Len(t) /\ Len(t) \in Nat
  BY RestNext
<1>2. n \in Nat /\ n + 1 \in 1..Len(t)
  BY <1>1
<1> HIDE DEF n
<1>3. Jumping.do = "insert" /\ NewChain(ChainExempt).do = "new" /\ \A r, o : Append_(ChainExempt, r, o).do = "append"
  BY DEF Jumping, Insert, NewChain, Append_, Command
<1>4. ASSUME n = 0 PROVE FALSE
  <2>1. Head(s) = t[1]
    BY <1>1, <1>4
  <2>2. Head(s) = NewChain(ChainExempt)
    BY <2>1 DEF Grants
  <2>3. QED BY <1>3, <2>2
<1>5. ASSUME n >= 2 PROVE FALSE
  <2>1. n + 1 \in 3..Len(t)
    BY <1>2, <1>5
  <2>2. \E ep \in held, o \in {"return", "ignore"} : t[n + 1] = Append_(ChainExempt, Exempt(ep), o)
    BY <2>1 DEF Grants
  <2>3. QED BY <1>1, <1>3, <2>2
<1>6. n = 1
  BY <1>2, <1>4, <1>5
<1>7. QED BY <1>6 DEF n

\* Commands keep it so.
LEMMA JumpCommand ==
    ASSUME TypeOK, PhaseInv, ScriptInv, GrantScript, JumpInv, RunCommand
    PROVE  JumpInv'
<1>1. UNCHANGED <<op, held>> /\ todo # << >>
  BY CommandCaller
<1>2. OutEffect /\ cmd \in Commands /\ ChainEffect
  BY OutCourse, ChainCourse
<1>3. /\ \A i \in 1..Len(chain[ChainOut]) : chain[ChainOut][i] = JumpExempt => i = 1
      /\ Jump => ChainExempt \in exists
      /\ op = "Exempt" /\ cmd = Jumping => ~Jump
      /\ op = "Setup" /\ Ran(Setup) >= 14 => ~Jump
  BY <1>1 DEF JumpInv
<1>4. \/ chain'[ChainOut] = chain[ChainOut]
      \/ ~Jump'
      \/ /\ op = "Exempt" /\ cmd = Jumping /\ ChainExempt \in exists
         /\ chain'[ChainOut] = InsertAt(chain[ChainOut], 1, JumpExempt)
  <2>1. chain'[ChainOut] = << >> => ~Jump'
    BY DEF Jump
  <2>2. ASSUME NEW i \in 1..Len(chain[ChainOut]), chain[ChainOut][i] = JumpExempt,
               chain'[ChainOut] = RemoveAt(chain[ChainOut], i)
        PROVE  ~Jump'
    BY <1>3, <2>2, JumpDeleted
  <2>3. op = "Setup" /\ Ran(Setup) >= 14 /\ (Jump' => Jump) => ~Jump'
    BY <1>3
  <2>4. QED BY <1>2, <2>1, <2>2, <2>3 DEF OutEffect
<1>5. \A i \in 1..Len(chain'[ChainOut]) : chain'[ChainOut][i] = JumpExempt => i = 1
  <2>1. CASE ~Jump'
    BY <2>1 DEF Jump
  <2>2. CASE op = "Exempt" /\ cmd = Jumping /\ chain'[ChainOut] = InsertAt(chain[ChainOut], 1, JumpExempt)
    BY <1>3, <2>2, JumpAdded
  <2>3. QED BY <1>3, <1>4, <2>1, <2>2
<1>6. Jump' => ChainExempt \in exists'
  <2>1. CASE ChainExempt \in exists /\ ChainExempt \notin exists'
    <3>1. cmd.do = "clear" /\ cmd.on = ChainExempt /\ ~Referenced(ChainExempt) /\ Becomes(<< >>)
      BY <1>2, <2>1 DEF ChainEffect
    <3>2. JumpExempt \notin ToSet(chain[ChainOut])
      BY <3>1, ChainNames DEF Referenced
    <3>3. chain[ChainOut] \in Seq(Rules)
      BY ChainNames DEF TypeOK
    <3>4. ~Jump
      BY <3>2, <3>3 DEF Jump, ToSet
    <3>5. chain'[ChainOut] = chain[ChainOut]
      BY <3>1, ChainNames DEF Becomes, ChainExempt, ChainOut
    <3>6. QED BY <3>4, <3>5 DEF Jump
  <2>2. CASE ChainExempt \notin exists /\ ChainExempt \notin exists'
    <3>1. ~Jump
      BY <1>3, <2>2
    <3>2. QED BY <1>4, <2>2, <3>1 DEF Jump
  <2>3. QED BY <2>1, <2>2
<1>7. (op = "Exempt" /\ todo # << >> /\ cmd = Jumping => ~Jump)'
  <2>1. SUFFICES ASSUME op = "Exempt", todo' # << >>, Head(todo') = Jumping PROVE ~Jump'
    BY <1>1 DEF cmd
  <2>2. PICK t \in Seq(Commands) : Grants(t) /\ RestOf(todo, t)
    BY <2>1 DEF GrantScript
  <2>3. RestOf(todo', t) /\ todo' \in Seq(Commands)
    <3>1. todo \in Seq(Commands) /\ todo' = Tail(todo)
      BY <1>1, <2>1, CommandCourse DEF TypeOK
    <3>2. QED BY <1>1, <2>2, <3>1, RestNext, Rest
  <2>4. Len(t) - Len(todo') = 1
    BY <2>1, <2>2, <2>3, GrantHead
  <2>5. Ran(t) = 0
    <3>1. Len(t) - Len(todo') = Ran(t) + 1 /\ Ran(t) \in Nat
      BY <2>1, <2>2, RanNext
    <3>2. QED BY <2>4, <3>1
  <2>6. cmd = NewChain(ChainExempt)
    BY <2>2, <2>5, ExemptNext
  <2>7. cmd.do = "new" /\ cmd.on = ChainExempt /\ cmd.onerr = "return"
    BY <2>6 DEF NewChain, Command
  <2>8. Done /\ ChainExempt \notin exists /\ Becomes(<< >>)
    BY <1>2, <2>1, <2>7 DEF ChainEffect, Failed, ChainCommands
  <2>9. chain'[ChainOut] = chain[ChainOut]
    BY <2>7, <2>8, ChainNames DEF Becomes, ChainExempt, ChainOut
  <2>10. QED BY <1>3, <2>8, <2>9 DEF Jump
<1>8. (op = "Setup" /\ todo # << >> /\ Ran(Setup) >= 14 => ~Jump)'
  <2>1. SUFFICES ASSUME op = "Setup", todo' # << >>, Len(Setup) - Len(todo') >= 14 PROVE ~Jump'
    BY <1>1 DEF Ran
  <2>2. /\ Len(Setup) - Len(todo') = Ran(Setup) + 1 /\ Ran(Setup) \in Nat
        /\ Ran(Setup) = 13 => cmd = NewChain(ChainOut)
    BY <2>1, SetupNext
  <2>3. Ran(Setup) >= 14 \/ Ran(Setup) = 13
    BY <2>1, <2>2
  <2>4. CASE Ran(Setup) >= 14
    BY <1>3, <1>4, <2>1, <2>4 DEF Jump
  <2>5. CASE Ran(Setup) = 13
    <3>1. cmd.do = "new" /\ cmd.on = ChainOut /\ cmd.onerr = "return"
      BY <2>2, <2>5 DEF NewChain, Command
    <3>2. Becomes(<< >>)
      BY <1>2, <2>1, <3>1 DEF ChainEffect, Failed, ChainCommands
    <3>3. chain'[ChainOut] = << >>
      BY <3>1, <3>2 DEF Becomes
    <3>4. QED BY <3>3 DEF Jump
  <2>6. QED BY <2>3, <2>4, <2>5
<1>9. QED BY <1>5, <1>6, <1>7, <1>8 DEF JumpInv

\* Calls and returns leave the chains alone.
LEMMA JumpCaller ==
    ASSUME TypeOK, PhaseInv, JumpInv, Next, ~RunCommand
    PROVE  JumpInv'
<1>1. UNCHANGED <<chain, exists>>
  BY CallerFrame
<1>2. /\ (\A i \in 1..Len(chain[ChainOut]) : chain[ChainOut][i] = JumpExempt => i = 1)'
      /\ (Jump => ChainExempt \in exists)'
  BY <1>1 DEF JumpInv, Jump
<1>3. ASSUME OpenExemption \/ OpenExemptions PROVE op' = "Exempt" /\ (todo' # << >> => cmd' # Jumping)
  <2>1. op' = "Exempt" /\ \/ \E ep \in Endpoint : todo' = AddExemption(ep)
                          \/ \E specs \in Batches : todo' = AddExemptions(specs)
    BY <1>3 DEF OpenExemption, OpenExemptions, Call
  <2>2. todo'[1] = NewChain(ChainExempt) /\ todo' \in Seq(Commands)
    BY <2>1, ExemptScriptsAt, ScriptTypes
  <2>3. NewChain(ChainExempt) # Jumping
    BY DEF NewChain, Jumping, Insert, Command
  <2>4. QED BY <2>1, <2>2, <2>3, Rest DEF cmd
<1>4. ASSUME StartSetup PROVE op' = "Setup" /\ ~(Ran(Setup) >= 14)'
  <2>1. op' = "Setup" /\ todo' = Setup
    BY <1>4 DEF StartSetup, Call
  <2>2. Len(Setup) \in Nat
    BY ScriptTypes
  <2>3. Len(Setup) - Len(todo') = 0
    BY <2>1, <2>2
  <2>4. QED BY <2>1, <2>3 DEF Ran
<1>5. CASE ~(OpenExemption \/ OpenExemptions \/ StartSetup)
  <2>1. op' \notin {"Exempt", "Setup"}
    BY <1>5 DEF Next, Progress, SetupReturns,
       CloseExemptions, BeginRoutes, BeginForward, Announce, BeginTeardown, ExemptReturns,
       UnexemptReturns, RoutesReturn, ForwardReturns, AnnounceReturns, TeardownReturns,
       BeginConnect, LeaveServices, BeginCleanup, CleanupReturns, ErrorExit, Crash, Dies,
       Stopped, Call, Returns, vars, call, Idle, PhaseInv, Down
  <2>2. QED BY <1>2, <2>1 DEF JumpInv
<1>6. QED BY <1>2, <1>3, <1>4, <1>5 DEF JumpInv

-----------------------------------------------------------------------------
(* Cleanup.                                                                *)

\* What a command of Cleanup is there to remove is gone.
Undone(c) ==
    /\ c.do = "ruleflush" => iprules[c.on] = {}
    /\ c.do = "mssdel" => c.on \notin mangle
    /\ c.do = "unwire" => c.on \notin wired
    /\ c.do = "clear" => c.on \notin exists
    /\ c = Delete(ChainOut, JumpExempt) => ~Jump

\* As long as no command has failed, every command of Cleanup so far has removed
\* what it is there to remove.
CleanInv ==
    /\ op = "Cleanup" /\ failures = 0 => \A k \in 1..Ran(Cleanup) : Undone(Cleanup[k])
    /\ CleanExitRemovesAll

\* What a command that does not fail for a reason of its own removes: it works,
\* or there is nothing to remove, or the kernel refuses to delete a chain that
\* something still jumps to.
LEMMA Removing ==
    ASSUME TypeOK, RunCommand, failures' = failures
    PROVE  /\ cmd.do # "wire" => wired' \subseteq wired
           /\ cmd.do # "mssadd" => mangle' \subseteq mangle
           /\ cmd.do # "new" => exists' \subseteq exists
           /\ cmd.do # "ruleadd" => \A p \in Prio : iprules'[p] \subseteq iprules[p]
           /\ cmd.do = "unwire" => cmd.on \notin wired'
           /\ cmd.do = "mssdel" => cmd.on \notin mangle'
           /\ cmd.do = "ruleflush" => iprules'[cmd.on] = {}
           /\ cmd.do = "clear" => cmd.on \notin exists' \/ Referenced(cmd.on)
           /\ cmd.do = "delete" => chain' # chain \/ cmd.rule \notin ToSet(chain[cmd.on])
<1>0. failures \in Nat /\ iprules \in [Prio -> SUBSET Args]
  BY BoundAssumption DEF TypeOK, BoundAssumption
<1>1. cmd \in Commands
  BY ChainCourse
<1>2. cmd.do \in {"ruleadd", "ruledel", "ruleflush"} => cmd.on \in Prio
  BY <1>1, CommandParts
<1>3. CASE RunNewChain \/ RunAppend \/ RunInsert \/ RunInsertBeforeDrop
  BY <1>3 DEF RunNewChain, RunAppend, RunInsert, RunInsertBeforeDrop, Runs
<1>4. CASE RunDelete
  <2>1. cmd.do = "delete" /\ UNCHANGED <<exists, wired, iprules, mangle>>
    BY <1>4 DEF RunDelete, Runs
  <2>2. PICK i \in DOMAIN chain[cmd.on] : chain' = [chain EXCEPT ![cmd.on] = RemoveAt(chain[cmd.on], i)]
    BY <1>4 DEF RunDelete
  <2>3. cmd.on \in Chains /\ chain \in [Chains -> Seq(Rules)]
    BY <1>1, <2>1, CommandParts DEF TypeOK
  <2>4. chain[cmd.on] \in Seq(Rules) /\ i \in 1..Len(chain[cmd.on]) /\ Len(chain[cmd.on]) \in Nat
    BY <2>2, <2>3
  <2>5. Len(RemoveAt(chain[cmd.on], i)) = Len(chain[cmd.on]) - 1
    BY <2>4, RemoveAtIs
  <2>6. chain'[cmd.on] = RemoveAt(chain[cmd.on], i)
    BY <2>2, <2>3
  <2>7. chain' # chain
    BY <2>4, <2>5, <2>6
  <2>8. QED BY <2>1, <2>7
<1>5. CASE RunClear
  BY <1>5 DEF RunClear, Runs
<1>6. CASE RunWire
  BY <1>6 DEF RunWire, Runs
<1>7. CASE RunMangle
  BY <1>7 DEF RunMangle, Runs
<1>8. CASE RunVerify \/ RunField
  BY <1>8 DEF RunVerify, RunField, Runs, kernel
<1>9. CASE RunRule
  <2>1. CASE Runs("ruleadd")
    BY <1>9, <2>1 DEF RunRule, Runs
  <2>2. CASE Runs("ruledel") /\ iprules' = [iprules EXCEPT ![cmd.on] = @ \ {cmd.rule.arg}]
    <3>1. cmd.do = "ruledel" /\ UNCHANGED <<wired, mangle, exists>>
      BY <1>9, <2>2 DEF RunRule, Runs
    <3>2. \A p \in Prio : iprules'[p] \subseteq iprules[p]
      BY <1>0, <2>2
    <3>3. QED BY <3>1, <3>2
  <2>3. CASE Runs("ruleflush") /\ iprules' = [iprules EXCEPT ![cmd.on] = {}]
    <3>1. cmd.do = "ruleflush" /\ UNCHANGED <<wired, mangle, exists>>
      BY <1>9, <2>3 DEF RunRule, Runs
    <3>2. iprules'[cmd.on] = {} /\ \A p \in Prio : iprules'[p] \subseteq iprules[p]
      BY <1>0, <1>2, <2>3, <3>1
    <3>3. QED BY <3>1, <3>2
  <2>4. QED BY <1>9, <2>1, <2>2, <2>3 DEF RunRule
<1>10. ASSUME Fails PROVE ~Works(cmd) /\ UNCHANGED <<wired, mangle, exists>>
  BY <1>0, <1>10 DEF Fails
<1>11. ASSUME ~Works(cmd)
       PROVE  /\ cmd.do = "delete" => cmd.rule \notin ToSet(chain[cmd.on])
              /\ cmd.do = "clear" => Referenced(cmd.on)
              /\ cmd.do = "unwire" => cmd.on \notin wired
              /\ cmd.do = "mssdel" => cmd.on \notin mangle
              /\ cmd.do # "ruleflush"
  BY <1>11 DEF Works
<1>12. CASE FailCommand \/ FailClear
  <2>1. Fails /\ UNCHANGED iprules
    BY <1>12 DEF FailCommand, FailClear
  <2>2. QED BY <1>10, <1>11, <2>1
<1>13. CASE FailFlush
  <2>1. Fails /\ cmd.do = "ruleflush"
    BY <1>13 DEF FailFlush
  <2>2. QED BY <1>10, <1>11, <2>1
<1>14. QED
  BY <1>3, <1>4, <1>5, <1>6, <1>7, <1>8, <1>9, <1>12, <1>13 DEF RunCommand

\* Only VPN_OUT ever jumps to the exemptions.
LEMMA JumpsFrom ==
    ASSUME TypeOK, Contents, NEW b \in BaseChains, JumpExempt \in ToSet(chain[b])
    PROVE  Jump
<1>1. b \in Chains /\ chain[b] \in Seq(Allowed(b)) /\ b # ChainExempt
  BY ChainNames DEF Contents, BaseChains, ChainIn, ChainOut, ChainIn6, ChainOut6, ChainExempt
<1>2. PICK i \in 1..Len(chain[b]) : chain[b][i] = JumpExempt
  BY <1>1 DEF ToSet
<1>3. JumpExempt \in Allowed(b)
  BY <1>1, <1>2
<1>4. \A r \in Policy(b) : r.kind # "jump"
  BY DEF Policy, Established, Loopback, Fwmark, Iface, Icmp6, Lan, WanCheck, Endpoints, Exempt,
         PortRules, PortRule, Rule
<1>5. JumpExempt.kind = "jump" /\ Drop.kind = "drop"
  BY DEF JumpExempt, Drop, Rule
<1>6. b = ChainOut
  BY <1>1, <1>3, <1>4, <1>5 DEF Allowed
<1>7. QED BY <1>2, <1>6 DEF Jump

\* Cleanup takes every jump away before the chain it leads to, and goes on after
\* every error.
LEMMA CleanupOrder ==
    ASSUME NEW k \in 1..20
    PROVE  /\ Cleanup[k].onerr = "ignore"
           /\ Cleanup[k].do = "delete" => Cleanup[k] = Delete(ChainOut, JumpExempt)
           /\ Cleanup[k].do \notin {"wire", "mssadd", "new", "ruleadd"}
           /\ Cleanup[k].do = "clear" =>
                 \/ k = 12 /\ Cleanup[k].on = ChainExempt
                 \/ /\ k \in 14..20 /\ Cleanup[k].on \in BaseChains
                    /\ Cleanup[k - 1] = DeleteJump(Cleanup[k].on)
<1> DEFINE G(j) == /\ Cleanup[j].onerr = "ignore"
                   /\ Cleanup[j].do = "delete" => Cleanup[j] = Delete(ChainOut, JumpExempt)
                   /\ Cleanup[j].do \notin {"wire", "mssadd", "new", "ruleadd"}
                   /\ Cleanup[j].do = "clear" =>
                        \/ j = 12 /\ Cleanup[j].on = ChainExempt
                        \/ /\ j \in 14..20 /\ Cleanup[j].on \in BaseChains
                           /\ Cleanup[j - 1] = DeleteJump(Cleanup[j].on)
<1>1. ASSUME NEW c PROVE
      /\ ClearAndDeleteChain(c).do = "clear" /\ ClearAndDeleteChain(c).on = c /\ ClearAndDeleteChain(c).onerr = "ignore"
      /\ RuleFlush(c).do = "ruleflush" /\ RuleFlush(c).onerr = "ignore"
      /\ MangleDelete(c).do = "mssdel" /\ MangleDelete(c).onerr = "ignore"
      /\ DeleteJump(c).do = "unwire" /\ DeleteJump(c).onerr = "ignore"
  BY DEF ClearAndDeleteChain, RuleFlush, MangleDelete, DeleteJump, Command
<1>2. /\ Deactivate.do = "deactivate" /\ Deactivate.onerr = "ignore"
      /\ Delete(ChainOut, JumpExempt).do = "delete" /\ Delete(ChainOut, JumpExempt).onerr = "ignore"
  BY DEF Deactivate, Delete, Command
<1>3. G(1) /\ G(11) /\ G(12)
  BY <1>1, <1>2, CleanupAt
<1>4. G(2) /\ G(3) /\ G(4) /\ G(5) /\ G(10)
  BY <1>1, CleanupAt
<1>5. G(6) /\ G(7) /\ G(8) /\ G(9)
  BY <1>1, CleanupAt
<1>6. G(13) /\ G(15) /\ G(17) /\ G(19)
  BY <1>1, CleanupAt
<1>7. ASSUME NEW j \in 14..20, NEW c \in BaseChains, Cleanup[j] = ClearAndDeleteChain(c),
             Cleanup[j - 1] = DeleteJump(c)
      PROVE  G(j)
  BY <1>1, <1>7
<1>8. ChainIn \in BaseChains /\ ChainOut \in BaseChains /\ ChainIn6 \in BaseChains /\ ChainOut6 \in BaseChains
  BY ChainNames
<1>9. 14 - 1 = 13 /\ 16 - 1 = 15 /\ 18 - 1 = 17 /\ 20 - 1 = 19
  OBVIOUS
<1> HIDE DEF G
<1>10. G(14)
  BY <1>7, <1>8, <1>9, CleanupAt
<1>11. G(16)
  BY <1>7, <1>8, <1>9, CleanupAt
<1>12. G(18)
  BY <1>7, <1>8, <1>9, CleanupAt
<1>13. G(20)
  BY <1>7, <1>8, <1>9, CleanupAt
<1>14. G(k)
  <2>1. \/ k = 1 \/ k = 2 \/ k = 3 \/ k = 4 \/ k = 5 \/ k = 6 \/ k = 7 \/ k = 8 \/ k = 9 \/ k = 10
        \/ k = 11 \/ k = 12 \/ k = 13 \/ k = 14 \/ k = 15 \/ k = 16 \/ k = 17 \/ k = 18
        \/ k = 19 \/ k = 20
    OBVIOUS
  <2>2. QED BY <1>3, <1>4, <1>5, <1>6, <1>10, <1>11, <1>12, <1>13, <2>1
<1>15. QED BY <1>14 DEF G

\* A command spends at most one failure of the budget.
LEMMA FailureCount ==
    ASSUME RunCommand
    PROVE  failures' = failures \/ failures' = failures + 1
<1>1. CASE RunNewChain \/ RunAppend \/ RunInsert \/ RunInsertBeforeDrop \/ RunDelete \/ RunClear
  BY <1>1 DEF RunNewChain, RunAppend, RunInsert, RunInsertBeforeDrop, RunDelete, RunClear, Runs, budgets
<1>2. CASE RunWire \/ RunRule \/ RunMangle \/ RunVerify \/ RunField
  BY <1>2 DEF RunWire, RunRule, RunMangle, RunVerify, RunField, Runs, budgets
<1>3. CASE FailCommand \/ FailClear \/ FailFlush
  BY <1>3 DEF FailCommand, FailClear, FailFlush, Fails
<1>4. QED BY <1>1, <1>2, <1>3 DEF RunCommand

\* A command of Cleanup keeps what the ones before it have done and does its own.
LEMMA CleanCommand ==
    ASSUME TypeOK, Contents, PhaseInv, ScriptInv, GrantScript, JumpInv, CleanInv, RunCommand
    PROVE  CleanInv'
<1>1. UNCHANGED <<op, phase>> /\ todo # << >>
  BY CommandCaller
<1>2. CleanExitRemovesAll'
  BY <1>1 DEF CleanExitRemovesAll, PhaseInv, Down
<1>3. ASSUME op = "Cleanup", failures' = 0
      PROVE  \A k \in 1..(Len(Cleanup) - Len(todo')) : Undone(Cleanup[k])'
  <2> DEFINE n == Ran(Cleanup)
  <2>1. failures = 0 /\ failures' = failures
    <3>1. failures \in Nat
      BY BoundAssumption DEF TypeOK, BoundAssumption
    <3>2. QED BY <1>3, <3>1, FailureCount
  <2>2. n \in Nat /\ n + 1 \in 1..20 /\ cmd = Cleanup[n + 1]
    BY <1>3, CleanupNext
  <2>3. Len(Cleanup) - Len(todo') = n + 1
    <3>1. Cleanup \in Seq(Commands) /\ RestOf(todo, Cleanup)
      BY <1>3, ScriptTypes DEF ScriptInv
    <3>2. cmd.onerr = "ignore"
      BY <2>2, CleanupOrder
    <3>3. QED BY <3>1, <3>2, RanNext
  <2>4. \A k \in 1..n : Undone(Cleanup[k])
    BY <1>3, <2>1 DEF CleanInv
  <2>5. cmd.do \notin {"wire", "mssadd", "new", "ruleadd"}
    BY <2>2, CleanupOrder
  <2>6. /\ wired' \subseteq wired /\ mangle' \subseteq mangle /\ exists' \subseteq exists
        /\ \A p \in Prio : iprules'[p] \subseteq iprules[p]
        /\ cmd.do = "unwire" => cmd.on \notin wired'
        /\ cmd.do = "mssdel" => cmd.on \notin mangle'
        /\ cmd.do = "ruleflush" => iprules'[cmd.on] = {}
        /\ cmd.do = "clear" => cmd.on \notin exists' \/ Referenced(cmd.on)
        /\ cmd.do = "delete" => chain' # chain \/ cmd.rule \notin ToSet(chain[cmd.on])
    BY <2>1, <2>5, Removing
  <2>7. Jump' => Jump
    <3>1. OutEffect
      BY OutCourse
    <3>2. CASE chain'[ChainOut] = << >>
      BY <3>2 DEF Jump
    <3>3. ASSUME NEW i \in 1..Len(chain[ChainOut]), chain[ChainOut][i] = JumpExempt
          PROVE  Jump
      BY <3>3 DEF Jump
    <3>4. QED BY <1>3, <3>1, <3>2, <3>3 DEF OutEffect, Jump
  <2>8. ASSUME NEW k \in 1..n PROVE Undone(Cleanup[k])'
    <3>1. Undone(Cleanup[k]) /\ k \in 1..20
      BY <2>2, <2>4
    <3>2. Cleanup[k].do = "ruleflush" => Cleanup[k].on \in Prio
      <4>1. Cleanup \in Seq(Commands) /\ Len(Cleanup) = 20
        BY CleanupAt
      <4>2. k \in 1..Len(Cleanup)
        BY <3>1, <4>1
      <4>3. Cleanup[k] \in Commands
        BY <4>1, <4>2, ElementOfSeq
      <4>4. QED BY <4>3, CommandParts
    <3>3. QED BY <2>6, <2>7, <3>1, <3>2 DEF Undone
  <2>9. PICK m \in Nat : m = n
    BY <2>2
  <2>10. ASSUME NEW c, c = cmd PROVE Undone(c)'
    <3>1. cmd.do = "clear" => cmd.on \notin exists'
      <4>1. SUFFICES ASSUME cmd.do = "clear" PROVE ~Referenced(cmd.on)
        BY <2>6
      <4>2. CASE n + 1 = 12 /\ cmd.on = ChainExempt
        <5>1. n \in 1..20 /\ 11 \in 1..n
          BY <4>2, <2>2
        <5>2. Undone(Cleanup[11]) /\ Cleanup[11] = Delete(ChainOut, JumpExempt)
          BY <2>4, <5>1, CleanupAt
        <5>3. ~Jump
          BY <5>2 DEF Undone
        <5>4. cmd.on \notin wired
          BY <4>2 DEF TypeOK, BaseChains, ChainIn, ChainOut, ChainIn6, ChainOut6, ChainExempt
        <5>5. QED BY <5>3, <5>4, JumpsFrom DEF Referenced
      <4>3. CASE n + 1 \in 14..20 /\ cmd.on \in BaseChains /\ Cleanup[(n + 1) - 1] = DeleteJump(cmd.on)
        <5>1. n \in 1..n /\ (n + 1) - 1 = n
          BY <4>3, <2>2
        <5>2. Undone(DeleteJump(cmd.on))
          BY <2>4, <4>3, <5>1
        <5>3. DeleteJump(cmd.on).do = "unwire" /\ DeleteJump(cmd.on).on = cmd.on
          BY DEF DeleteJump, Command
        <5>4. cmd.on \notin wired
          BY <5>2, <5>3 DEF Undone
        <5>5. cmd.on # ChainExempt
          BY <4>3 DEF BaseChains, ChainIn, ChainOut, ChainIn6, ChainOut6, ChainExempt
        <5>6. QED BY <5>4, <5>5 DEF Referenced
      <4>4. QED BY <2>2, <4>1, <4>2, <4>3, CleanupOrder
    <3>2. cmd = Delete(ChainOut, JumpExempt) => ~Jump'
      <4>1. SUFFICES ASSUME cmd = Delete(ChainOut, JumpExempt) PROVE ~Jump'
        OBVIOUS
      <4>2. cmd.do = "delete" /\ cmd.on = ChainOut /\ cmd.rule = JumpExempt
        BY <4>1 DEF Delete, Command
      <4>3. CASE JumpExempt \notin ToSet(chain[ChainOut])
        <5>1. chain[ChainOut] \in Seq(Rules)
          BY ChainNames DEF TypeOK
        <5>2. ~Jump
          BY <4>3, <5>1 DEF Jump, ToSet
        <5>3. QED BY <2>7, <5>2
      <4>4. CASE chain' # chain
        <5>1. cmd \in Commands /\ ChainEffect
          BY ChainCourse
        <5>2. PICK i \in 1..Len(chain[ChainOut]) :
                 chain[ChainOut][i] = JumpExempt /\ Becomes(RemoveAt(chain[ChainOut], i))
          BY <4>2, <4>4, <5>1 DEF ChainEffect
        <5>3. chain'[ChainOut] = RemoveAt(chain[ChainOut], i)
          BY <4>2, <5>2 DEF Becomes
        <5>4. \A k \in 1..Len(chain[ChainOut]) : chain[ChainOut][k] = JumpExempt => k = 1
          BY DEF JumpInv
        <5>5. QED BY <5>2, <5>3, <5>4, JumpDeleted
      <4>5. QED BY <2>6, <4>2, <4>3, <4>4
    <3>3. QED BY <2>6, <2>10, <3>1, <3>2 DEF Undone
  <2>11. QED
    <3>1. \A k \in 1..(n + 1) : k \in 1..n \/ k = m + 1
      BY <2>2, <2>9
    <3>2. Undone(Cleanup[m + 1])'
      BY <2>2, <2>9, <2>10
    <3>3. QED BY <2>3, <2>8, <3>1, <3>2
<1>4. (op = "Cleanup" /\ failures = 0 => \A k \in 1..Ran(Cleanup) : Undone(Cleanup[k]))'
  BY <1>1, <1>3 DEF Ran
<1>5. QED BY <1>2, <1>4 DEF CleanInv

\* The phase becomes "clean" where Cleanup returns, with its whole script behind it.
LEMMA CleanCaller ==
    ASSUME TypeOK, PhaseInv, CleanInv, Next, ~RunCommand
    PROVE  CleanInv'
<1>1. UNCHANGED <<chain, exists, wired, iprules, mangle, failures>>
  BY CallerFrame
<1>2. CASE BeginCleanup
  <2>1. op' = "Cleanup" /\ phase' = "shutdown" /\ todo' = Cleanup
    BY <1>2 DEF BeginCleanup, Call, caller
  <2>2. Len(Cleanup) - Len(todo') = 0
    BY <2>1, CleanupAt
  <2>3. \A k \in 1..(Len(Cleanup) - Len(todo')) : FALSE
    BY <2>2
  <2>4. QED BY <2>1, <2>3 DEF CleanInv, CleanExitRemovesAll, Ran
<1>3. CASE CleanupReturns
  <2>1. op = "Cleanup" /\ todo = << >> /\ op' = "none"
    BY <1>3 DEF CleanupReturns, Returns
  <2>2. Ran(Cleanup) = 20
    <3>1. Len(todo) = 0 /\ Len(Cleanup) = 20
      BY <2>1, CleanupAt
    <3>2. QED BY <3>1 DEF Ran
  <2>3. ASSUME failures = 0
        PROVE  /\ exists = {} /\ wired = {} /\ mangle = {}
               /\ \A p \in Prio : iprules[p] = {}
    <3>1. \A k \in 1..20 : Undone(Cleanup[k])
      BY <2>1, <2>2, <2>3 DEF CleanInv
    <3>2. ASSUME NEW c PROVE
          /\ ClearAndDeleteChain(c).do = "clear" /\ ClearAndDeleteChain(c).on = c
          /\ RuleFlush(c).do = "ruleflush" /\ RuleFlush(c).on = c
          /\ MangleDelete(c).do = "mssdel" /\ MangleDelete(c).on = c
          /\ DeleteJump(c).do = "unwire" /\ DeleteJump(c).on = c
      BY DEF ClearAndDeleteChain, RuleFlush, MangleDelete, DeleteJump, Command
    <3>3. exists = {}
      <4>1. \A k \in {12, 14, 16, 18, 20} : Cleanup[k].do = "clear" => Cleanup[k].on \notin exists
        BY <3>1 DEF Undone
      <4>2. \A c \in Chains : c \notin exists
        BY <3>2, <4>1, CleanupAt DEF Chains, BaseChains
      <4>3. QED BY <4>2 DEF TypeOK
    <3>4. wired = {}
      <4>1. \A k \in {13, 15, 17, 19} : Cleanup[k].do = "unwire" => Cleanup[k].on \notin wired
        BY <3>1 DEF Undone
      <4>2. \A c \in BaseChains : c \notin wired
        BY <3>2, <4>1, CleanupAt DEF BaseChains
      <4>3. QED BY <4>2 DEF TypeOK
    <3>5. mangle = {}
      <4>1. \A k \in {6, 7, 8, 9} : Cleanup[k].do = "mssdel" => Cleanup[k].on \notin mangle
        BY <3>1 DEF Undone
      <4>2. \A m \in MangleRules : m \notin mangle
        BY <3>2, <4>1, CleanupAt DEF MangleRules
      <4>3. QED BY <4>2 DEF TypeOK
    <3>6. \A p \in Prio : iprules[p] = {}
      <4>1. \A k \in {2, 3, 4, 5, 10} : Cleanup[k].do = "ruleflush" => iprules[Cleanup[k].on] = {}
        BY <3>1 DEF Undone
      <4>2. ASSUME NEW p, NEW k \in {2, 3, 4, 5, 10}, Cleanup[k] = RuleFlush(p) PROVE iprules[p] = {}
        <5>1. RuleFlush(p).do = "ruleflush" /\ RuleFlush(p).on = p
          BY <3>2
        <5>2. QED BY <4>1, <4>2, <5>1
      <4>3. iprules["guard76"] = {} /\ iprules["pia75"] = {}
        BY <4>2, CleanupAt
      <4>4. iprules["local100"] = {} /\ iprules["local100v6"] = {} /\ iprules["bypass50"] = {}
        BY <4>2, CleanupAt
      <4>5. QED BY <4>3, <4>4 DEF Prio
    <3>7. QED BY <3>3, <3>4, <3>5, <3>6
  <2>4. QED BY <1>1, <2>1, <2>3 DEF CleanInv, CleanExitRemovesAll
<1>4. CASE Stopped
  <2>1. op' = "none" /\ phase' = phase
    BY <1>4 DEF Stopped, vars, call, caller, PhaseInv, Down
  <2>2. QED BY <1>1, <2>1 DEF CleanInv, CleanExitRemovesAll
<1>5. CASE ~(BeginCleanup \/ CleanupReturns \/ Stopped)
  <2>1. op' # "Cleanup"
    BY <1>5 DEF Next, Progress, StartSetup, OpenExemption, OpenExemptions, SetupReturns,
       CloseExemptions, BeginRoutes, BeginForward, Announce, BeginTeardown, ExemptReturns,
       UnexemptReturns, RoutesReturn, ForwardReturns, AnnounceReturns, TeardownReturns,
       BeginConnect, LeaveServices, ErrorExit, Crash, Dies, Call, Returns, call, Idle
  <2>2. phase' # "clean"
    BY <1>5 DEF Next, Progress, StartSetup, OpenExemption, OpenExemptions, SetupReturns,
       CloseExemptions, BeginRoutes, BeginForward, Announce, BeginTeardown, ExemptReturns,
       UnexemptReturns, RoutesReturn, ForwardReturns, AnnounceReturns, TeardownReturns,
       BeginConnect, LeaveServices, ErrorExit, Crash, Dies, Returns, Idle, caller, PhaseInv, Down
  <2>3. QED BY <2>1, <2>2 DEF CleanInv, CleanExitRemovesAll
<1>6. QED BY <1>2, <1>3, <1>4, <1>5

-----------------------------------------------------------------------------
(* Exemptions.                                                             *)

\* The chain of the exemptions lets the traffic of rule r through; none.
Opened(r) == \E i \in 1..Len(chain[ChainExempt]) : chain[ChainExempt][i] = r
Empty == \A ep \in Endpoint : ~Opened(Exempt(ep))

\* An error ends the script.  Once the killswitch is verified, Setup has built
\* VPN_OUT.
EndInv ==
    /\ err => todo = << >>
    /\ op = "Setup" /\ armed = "yes" => Ran(Setup) >= 14 \/ todo = << >>

\* A command that does not end the script leaves the error as it is.
LEMMA ErrorCourse ==
    ASSUME RunCommand
    PROVE  \/ todo' = Tail(todo) /\ (err' => err)
           \/ todo' = << >> /\ err' /\ cmd.onerr = "return"
<1>1. CASE RunNewChain \/ RunAppend \/ RunInsert \/ RunInsertBeforeDrop \/ RunDelete \/ RunClear
  BY <1>1 DEF RunNewChain, RunAppend, RunInsert, RunInsertBeforeDrop, RunDelete, RunClear, Runs
<1>2. CASE RunWire \/ RunRule \/ RunMangle \/ RunVerify \/ RunField
  BY <1>2 DEF RunWire, RunRule, RunMangle, RunVerify, RunField, Runs
<1>3. CASE FailCommand \/ FailClear \/ FailFlush
  <2>1. Fails
    BY <1>3 DEF FailCommand, FailClear, FailFlush
  <2>2. CASE cmd.onerr = "return"
    BY <2>1, <2>2 DEF Fails
  <2>3. CASE cmd.onerr # "return"
    <3>1. todo' = Tail(todo) /\ err' = (err \/ FALSE)
      BY <2>1, <2>3 DEF Fails
    <3>2. QED BY <3>1
  <2>4. QED BY <2>2, <2>3
<1>4. QED BY <1>1, <1>2, <1>3 DEF RunCommand

\* The killswitch is armed by the verification of Setup, behind VPN_OUT's rules.
LEMMA Arming ==
    ASSUME TypeOK, PhaseInv, ScriptInv, RunCommand, armed' = "yes"
    PROVE  /\ op # "Cleanup"
           /\ armed = "yes" \/ (op = "Setup" /\ Ran(Setup) >= 14 /\ cmd.do = "verify" /\ UNCHANGED kernel)
<1>1. todo # << >> /\ todo \in Seq(Commands) /\ ~Down
  BY CommandCourse DEF PhaseInv, TypeOK
<1>2. op # "Cleanup"
  <2>1. SUFFICES ASSUME op = "Cleanup" PROVE FALSE
    OBVIOUS
  <2>2. armed = "no" /\ todo \in Seq(Quiet)
    BY <2>1 DEF PhaseInv
  <2>3. cmd \in Quiet
    BY <1>1, <2>2, Rest DEF cmd
  <2>4. cmd.do # "verify"
    BY <2>3 DEF Quiet
  <2>5. QED BY <2>2, <2>4, CommandCourse
<1>3. ASSUME armed # "yes"
      PROVE  op = "Setup" /\ Ran(Setup) >= 14 /\ cmd.do = "verify" /\ UNCHANGED kernel
  <2>1. op = "Setup" /\ cmd.do = "verify" /\ UNCHANGED kernel
    BY <1>1, <1>2, <1>3, CommandCourse DEF PhaseInv
  <2>2. /\ Ran(Setup) \in Nat
        /\ Ran(Setup) < 8 => cmd.do \in {"unwire", "clear"}
        /\ Ran(Setup) = 8 => cmd = NewChain(ChainIn)
        /\ Ran(Setup) = 9 => cmd = Append_(ChainIn, Established, "return")
        /\ Ran(Setup) = 10 => cmd = Append_(ChainIn, Loopback, "return")
        /\ Ran(Setup) = 11 => cmd = Append_(ChainIn, Drop, "return")
        /\ Ran(Setup) = 12 => cmd = InsertJump(ChainIn)
        /\ Ran(Setup) = 13 => cmd = NewChain(ChainOut)
    BY <2>1, SetupNext
  <2>3. \A c, r : /\ NewChain(c).do # "verify" /\ Append_(c, r, "return").do # "verify"
                  /\ InsertJump(c).do # "verify"
    BY DEF NewChain, Append_, InsertJump, Command
  <2>4. /\ ~(Ran(Setup) < 8) /\ Ran(Setup) # 8 /\ Ran(Setup) # 9 /\ Ran(Setup) # 10
        /\ Ran(Setup) # 11 /\ Ran(Setup) # 12 /\ Ran(Setup) # 13
    BY <2>1, <2>2, <2>3
  <2>5. QED BY <2>1, <2>2, <2>4
<1>4. QED BY <1>2, <1>3

\* Every step keeps that.
LEMMA EndStep ==
    ASSUME TypeOK, PhaseInv, ScriptInv, EndInv, Next
    PROVE  EndInv'
<1>1. CASE RunCommand
  <2>1. ~err /\ UNCHANGED op
    BY <1>1, CommandCourse DEF EndInv
  <2>2. err' => todo' = << >>
    BY <1>1, <2>1, ErrorCourse
  <2>3. ASSUME op = "Setup", armed' = "yes", todo' # << >> PROVE Len(Setup) - Len(todo') >= 14
    <3>1. Ran(Setup) >= 14
      BY <1>1, <2>3, Arming, CommandCourse DEF EndInv
    <3>2. Len(Setup) - Len(todo') = Ran(Setup) + 1 /\ Ran(Setup) \in Nat
      BY <1>1, <2>3, SetupNext
    <3>3. QED BY <3>1, <3>2
  <2>4. QED BY <2>1, <2>2, <2>3 DEF EndInv, Ran
<1>2. CASE StartSetup
  BY <1>2 DEF StartSetup, Call, EndInv
<1>3. CASE ~RunCommand /\ ~StartSetup
  <2>1. op' # "Setup"
    BY <1>3 DEF Next, Progress, SetupReturns, OpenExemption, OpenExemptions,
       CloseExemptions, BeginRoutes, BeginForward, Announce, BeginTeardown, ExemptReturns,
       UnexemptReturns, RoutesReturn, ForwardReturns, AnnounceReturns, TeardownReturns,
       BeginConnect, LeaveServices, BeginCleanup, CleanupReturns, ErrorExit, Crash, Dies,
       Stopped, Call, Returns, vars, call, Idle, PhaseInv, Down
  <2>2. err' = FALSE \/ UNCHANGED <<err, todo>>
    BY <1>3 DEF Next, Progress, SetupReturns, OpenExemption, OpenExemptions,
       CloseExemptions, BeginRoutes, BeginForward, Announce, BeginTeardown, ExemptReturns,
       UnexemptReturns, RoutesReturn, ForwardReturns, AnnounceReturns, TeardownReturns,
       BeginConnect, LeaveServices, BeginCleanup, CleanupReturns, ErrorExit, Crash, Dies,
       Stopped, Call, Returns, vars, call
  <2>3. QED BY <2>1, <2>2 DEF EndInv
<1>4. QED BY <1>1, <1>2, <1>3

\* The methods for ports and routes leave the exemptions alone.
LEMMA Elsewhere ==
    ASSUME TypeOK, PhaseInv, ScriptInv, RunCommand, op \notin {"Setup", "Cleanup", "Exempt", "Unexempt"}
    PROVE  /\ chain'[ChainOut] = chain[ChainOut] /\ chain'[ChainExempt] = chain[ChainExempt]
           /\ UNCHANGED exists
<1>1. cmd \in Commands /\ ChainEffect
  BY ChainCourse
<1>2. CASE cmd.do \notin ChainCommands
  <2>1. UNCHANGED <<chain, exists>>
    BY <1>1, <1>2 DEF ChainEffect, ChainCommands
  <2>2. QED BY <2>1
<1>3. CASE cmd.do \in ChainCommands
  <2>1. \E r : cmd = Insert(ChainIn, 3, r, "return") \/ cmd = Delete(ChainIn, r)
    BY <1>3, ChainNext
  <2>2. cmd.on = ChainIn /\ cmd.do \in {"insert", "delete"}
    BY <2>1 DEF Insert, Delete, Command
  <2>3. ChainIn # ChainOut /\ ChainIn # ChainExempt
    BY DEF ChainIn, ChainOut, ChainExempt
  <2>4. \A s : Becomes(s) => chain'[ChainOut] = chain[ChainOut] /\ chain'[ChainExempt] = chain[ChainExempt]
    BY <2>2, <2>3, ChainNames DEF Becomes
  <2>5. QED BY <1>1, <2>2, <2>4 DEF ChainEffect
<1>4. QED BY <1>2, <1>3

\* Appending a rule to the chain of the exemptions opens that one.
LEMMA OpeningOne ==
    ASSUME TypeOK, NEW r \in Rules, chain'[ChainExempt] = Append(chain[ChainExempt], r)
    PROVE  /\ Opened(r)' /\ \A q : Opened(q) => Opened(q)'
           /\ \A q : Opened(q)' => Opened(q) \/ q = r
<1> DEFINE s == chain[ChainExempt]
           u == Append(s, r)
<1>1. s \in Seq(Rules) /\ Len(s) \in Nat
  BY ChainNames DEF TypeOK
<1>2. /\ Len(u) = Len(s) + 1
      /\ \A k \in 1..(Len(s) + 1) : u[k] = IF k <= Len(s) THEN s[k] ELSE r
  BY <1>1, AppendProperties
<1>3. chain'[ChainExempt] = u
  OBVIOUS
<1> HIDE DEF s, u
<1>4. Len(s) + 1 \in 1..Len(u) /\ u[Len(s) + 1] = r
  BY <1>1, <1>2
<1>5. \A k \in 1..Len(s) : k \in 1..Len(u) /\ u[k] = s[k]
  BY <1>1, <1>2
<1>6. \A k \in 1..Len(u) : u[k] = r \/ (k \in 1..Len(s) /\ u[k] = s[k])
  BY <1>1, <1>2
<1>7. Opened(r)'
  BY <1>3, <1>4 DEF Opened
<1>8. \A q : Opened(q) => Opened(q)'
  BY <1>3, <1>5 DEF Opened, s
<1>9. \A q : Opened(q)' => Opened(q) \/ q = r
  BY <1>3, <1>6 DEF Opened, s
<1>10. QED BY <1>7, <1>8, <1>9

\* What a command of an exemption's script t does.
LEMMA ExemptCourse ==
    ASSUME TypeOK, Contents, ScriptInv, RunCommand, NEW t \in Seq(Commands), Grants(t), RestOf(todo, t)
    PROVE  \/ Failed /\ UNCHANGED <<chain, exists>>
           \/ /\ Done /\ Ran(t) = 0 /\ Empty' /\ ChainExempt \notin exists /\ ChainExempt \in exists'
              /\ chain'[ChainOut] = chain[ChainOut]
           \/ /\ Done /\ Ran(t) = 1 /\ cmd = Jumping /\ Jump' /\ UNCHANGED exists
              /\ ChainExempt \in exists /\ chain'[ChainExempt] = chain[ChainExempt]
           \/ /\ Done /\ Ran(t) >= 2 /\ UNCHANGED exists /\ ChainExempt \in exists
              /\ chain'[ChainOut] = chain[ChainOut]
              /\ \E ep \in held : /\ t[Ran(t) + 1].rule = Exempt(ep)
                                  /\ chain'[ChainExempt] = Append(chain[ChainExempt], Exempt(ep))
<1>1. cmd \in Commands /\ ChainEffect
  BY ChainCourse
<1>2. /\ Ran(t) \in Nat /\ cmd = t[Ran(t) + 1]
      /\ Ran(t) = 0 => cmd = NewChain(ChainExempt)
      /\ Ran(t) = 1 => cmd = Jumping
      /\ Ran(t) >= 2 => \E ep \in held, o \in {"return", "ignore"} :
            cmd = Append_(ChainExempt, Exempt(ep), o)
  BY ExemptNext DEF Jumping
<1>3. Ran(t) = 0 \/ Ran(t) = 1 \/ Ran(t) >= 2
  BY <1>2
<1>4. ChainOut # ChainExempt /\ ChainOut \in Chains /\ ChainExempt \in Chains
  BY ChainNames DEF ChainOut, ChainExempt
<1>5. \A s : Becomes(s) /\ cmd.on = ChainExempt => chain'[ChainOut] = chain[ChainOut] /\ chain'[ChainExempt] = s
  BY <1>4 DEF Becomes
<1>6. \A s : Becomes(s) /\ cmd.on = ChainOut => chain'[ChainOut] = s /\ chain'[ChainExempt] = chain[ChainExempt]
  BY <1>4 DEF Becomes
<1>7. SUFFICES ASSUME ~(Failed /\ UNCHANGED <<chain, exists>>)
      PROVE  \/ /\ Done /\ Ran(t) = 0 /\ Empty' /\ ChainExempt \notin exists /\ ChainExempt \in exists'
                /\ chain'[ChainOut] = chain[ChainOut]
             \/ /\ Done /\ Ran(t) = 1 /\ cmd = Jumping /\ Jump' /\ UNCHANGED exists
                /\ ChainExempt \in exists /\ chain'[ChainExempt] = chain[ChainExempt]
             \/ /\ Done /\ Ran(t) >= 2 /\ UNCHANGED exists /\ ChainExempt \in exists
                /\ chain'[ChainOut] = chain[ChainOut]
                /\ \E ep \in held : /\ t[Ran(t) + 1].rule = Exempt(ep)
                                    /\ chain'[ChainExempt] = Append(chain[ChainExempt], Exempt(ep))
  OBVIOUS
<1>8. CASE Ran(t) = 0
  <2>1. cmd.do = "new" /\ cmd.on = ChainExempt
    BY <1>2, <1>8 DEF NewChain, Command
  <2>2. Done /\ ChainExempt \notin exists /\ Becomes(<< >>) /\ ChainExempt \in exists'
    BY <1>1, <1>7, <2>1 DEF ChainEffect, ChainCommands
  <2>3. chain'[ChainExempt] = << >> /\ chain'[ChainOut] = chain[ChainOut]
    BY <1>5, <2>1, <2>2
  <2>4. Empty'
    BY <2>3 DEF Empty, Opened
  <2>5. QED BY <1>8, <2>2, <2>3, <2>4
<1>9. CASE Ran(t) = 1
  <2>1. cmd.do = "insert" /\ cmd.on = ChainOut /\ cmd.rule = JumpExempt /\ cmd.pos = 1
    BY <1>2, <1>9 DEF Jumping, Insert, Command
  <2>2. /\ Done /\ ChainExempt \in exists /\ UNCHANGED exists
        /\ Becomes(InsertAt(chain[ChainOut], 1, JumpExempt))
    BY <1>1, <1>7, <2>1 DEF ChainEffect, ChainCommands
  <2>3. /\ chain'[ChainOut] = InsertAt(chain[ChainOut], 1, JumpExempt)
        /\ chain'[ChainExempt] = chain[ChainExempt]
    BY <1>6, <2>1, <2>2
  <2>4. Jump'
    <3> DEFINE s == chain[ChainOut]
               u == InsertAt(s, 1, JumpExempt)
    <3>1. s \in Seq(Rules) /\ Len(s) \in Nat /\ JumpExempt \in Rules
      BY <1>4, RuleTypes DEF TypeOK
    <3>2. chain'[ChainOut] = u
      BY <2>3
    <3> HIDE DEF s
    <3>3. 1 \in 1..(Len(s) + 1)
      BY <3>1
    <3>4. u[1] = JumpExempt /\ Len(u) = Len(s) + 1
      BY <3>1, <3>3, RuleInserted
    <3> HIDE DEF u
    <3>5. QED BY <3>2, <3>3, <3>4 DEF Jump
  <2>5. QED BY <1>2, <1>9, <2>2, <2>3, <2>4
<1>10. CASE Ran(t) >= 2
  <2>1. PICK ep \in held, o \in {"return", "ignore"} : cmd = Append_(ChainExempt, Exempt(ep), o)
    BY <1>2, <1>10
  <2>2. cmd.do = "append" /\ cmd.on = ChainExempt /\ cmd.rule = Exempt(ep)
    BY <2>1 DEF Append_, Command
  <2>3. /\ Done /\ ChainExempt \in exists /\ UNCHANGED exists
        /\ Becomes(Append(chain[ChainExempt], Exempt(ep)))
    BY <1>1, <1>7, <2>2 DEF ChainEffect, ChainCommands
  <2>4. chain'[ChainOut] = chain[ChainOut] /\ chain'[ChainExempt] = Append(chain[ChainExempt], Exempt(ep))
    BY <1>5, <2>2, <2>3
  <2>5. QED BY <1>2, <1>10, <2>2, <2>3, <2>4
<1>11. QED BY <1>3, <1>8, <1>9, <1>10

\* What the commands of RemoveExemptions do.
LEMMA UnexemptCourse ==
    ASSUME TypeOK, Contents, ScriptInv, JumpInv, RunCommand, op = "Unexempt"
    PROVE  \/ /\ Len(todo) = 2 /\ Len(todo') = 1
              /\ chain'[ChainExempt] = chain[ChainExempt] /\ (Jump' => Jump)
              /\ ~Jump' \/ failures' = failures + 1
           \/ /\ Len(todo) = 1 /\ todo' = << >>
              /\ chain'[ChainOut] = chain[ChainOut]
              /\ \/ Empty'
                 \/ failures' = failures + 1 /\ chain' = chain
              /\ ChainExempt \notin exists' \/ Jump \/ failures' = failures + 1
<1>1. cmd \in Commands /\ ChainEffect /\ todo \in Seq(Commands) /\ todo # << >>
  BY ChainCourse, CommandCaller DEF TypeOK
<1>2. /\ Tail(todo) \in Seq(Commands) /\ Len(Tail(todo)) = Len(todo) - 1 /\ Len(todo) \in Nat
  BY <1>1, Rest
<1>3. ChainOut # ChainExempt /\ ChainOut \in Chains /\ ChainExempt \in Chains
  BY ChainNames DEF ChainOut, ChainExempt
<1>4. CASE Len(todo) = 2 /\ cmd = Delete(ChainOut, JumpExempt)
  <2>1. cmd.do = "delete" /\ cmd.on = ChainOut /\ cmd.rule = JumpExempt /\ cmd.onerr = "ignore"
    BY <1>4 DEF Delete, Command
  <2>2. todo' = Tail(todo)
    BY <2>1, ErrorCourse
  <2>3. Len(todo') = 1
    BY <1>2, <1>4, <2>2
  <2>4. CASE Failed /\ UNCHANGED chain
    <3>1. ~Works(cmd) \/ failures' = failures + 1
      BY <2>4 DEF Failed
    <3>2. ~Works(cmd) => JumpExempt \notin ToSet(chain[ChainOut])
      BY <2>1 DEF Works
    <3>3. chain[ChainOut] \in Seq(Rules)
      BY <1>3 DEF TypeOK
    <3>4. ~Works(cmd) => ~Jump
      BY <3>2, <3>3 DEF Jump, ToSet
    <3>5. Jump' => Jump
      BY <2>4 DEF Jump
    <3>6. QED BY <1>4, <2>3, <2>4, <3>1, <3>4, <3>5
  <2>5. CASE \E i \in 1..Len(chain[ChainOut]) :
                chain[ChainOut][i] = JumpExempt /\ Becomes(RemoveAt(chain[ChainOut], i))
    <3>1. PICK i \in 1..Len(chain[ChainOut]) :
                chain[ChainOut][i] = JumpExempt /\ Becomes(RemoveAt(chain[ChainOut], i))
      BY <2>5
    <3>2. chain'[ChainOut] = RemoveAt(chain[ChainOut], i) /\ chain'[ChainExempt] = chain[ChainExempt]
      BY <1>3, <2>1, <3>1 DEF Becomes
    <3>3. \A k \in 1..Len(chain[ChainOut]) : chain[ChainOut][k] = JumpExempt => k = 1
      BY DEF JumpInv
    <3>4. ~Jump'
      BY <3>1, <3>2, <3>3, JumpDeleted
    <3>5. QED BY <1>4, <2>3, <3>2, <3>4
  <2>6. QED BY <1>1, <2>1, <2>4, <2>5 DEF ChainEffect, ChainCommands
<1>5. CASE Len(todo) = 1 /\ cmd = ClearAndDeleteChain(ChainExempt)
  <2>1. cmd.do = "clear" /\ cmd.on = ChainExempt /\ cmd.onerr = "ignore"
    BY <1>5 DEF ClearAndDeleteChain, Command
  <2>2. todo' = << >>
    <3>1. todo' = Tail(todo)
      BY <2>1, ErrorCourse
    <3>2. Len(Tail(todo)) = 0
      BY <1>2, <1>5
    <3>3. QED BY <1>2, <3>1, <3>2
  <2>3. \/ Becomes(<< >>)
        \/ failures' = failures + 1 /\ chain' = chain
    BY <1>1, <2>1 DEF ChainEffect, ChainCommands
  <2>4. chain'[ChainOut] = chain[ChainOut] /\ (Becomes(<< >>) => Empty')
    BY <1>3, <2>1, <2>3 DEF Becomes, Empty, Opened
  <2>5. ChainExempt \notin exists' \/ Jump \/ failures' = failures + 1
    <3>1. SUFFICES ASSUME failures' # failures + 1 PROVE ChainExempt \notin exists' \/ Jump
      OBVIOUS
    <3>2. failures' = failures
      BY <3>1, FailureCount
    <3>3. ChainExempt \notin exists' \/ Referenced(ChainExempt)
      BY <2>1, <3>2, Removing
    <3>4. ChainExempt \notin wired
      BY ChainNames DEF TypeOK
    <3>5. QED BY <3>3, <3>4, JumpsFrom DEF Referenced
  <2>6. QED BY <1>5, <2>2, <2>3, <2>4, <2>5
<1>6. QED BY <1>4, <1>5, UnexemptNext

\* No endpoint gets through the exemptions.
Shut == Jump => Empty

\* With at most one command failed, only the endpoints of the open scope are let
\* through.  A method that opens exemptions and fails leaves none open, and so
\* does RemoveExemptions: either of its commands is enough.
ScopeInv ==
    armed = "yes" /\ phase # "down" /\ failures <= 1 =>
        /\ Jump => \A ep \in Endpoint : Opened(Exempt(ep)) => ep \in held
        /\ op = "Exempt" /\ err => Shut
        /\ op = "Exempt" /\ todo # << >> /\ cmd.onerr = "return" => Shut
        /\ op = "Exempt" /\ todo # << >> /\ cmd = Jumping => Empty
        /\ op = "Unexempt" /\ Len(todo) = 1 => ~Jump \/ failures = 1
        /\ op = "Unexempt" /\ todo = << >> => Shut

\* The errors that a script of an exemption returns.
LEMMA GrantReturns ==
    ASSUME NEW s \in Seq(Commands), NEW t \in Seq(Commands), Grants(t), RestOf(s, t), s # << >>,
           Head(s).onerr = "return"
    PROVE  Len(t) - Len(s) = 0 \/ Len(t) - Len(s) = 2
<1> DEFINE n == Len(t) - Len(s)
<1>1. Head(s) = t[n + 1] /\ Len(s) \in 1..Len(t) /\ Len(t) \in Nat
  BY RestNext
<1>2. n \in Nat /\ n + 1 \in 1..Len(t)
  BY <1>1
<1> HIDE DEF n
<1>3. ASSUME n = 1 PROVE FALSE
  <2>1. Head(s) = t[2]
    BY <1>1, <1>3
  <2>2. t[2].onerr = "ignore"
    BY DEF Grants, Insert, Command
  <2>3. QED BY <2>1, <2>2
<1>4. ASSUME n >= 3 PROVE FALSE
  <2>1. n + 1 \in 3..Len(t) /\ n + 1 # 3
    BY <1>2, <1>4
  <2>2. \E ep \in held : t[n + 1] = Append_(ChainExempt, Exempt(ep), "ignore")
    BY <2>1 DEF Grants
  <2>3. t[n + 1].onerr = "ignore"
    BY <2>2 DEF Append_, Command
  <2>4. QED BY <1>1, <2>3
<1>5. n = 0 \/ n = 2
  BY <1>2, <1>3, <1>4
<1>6. QED BY <1>5 DEF n

\* A command of an exemption's script keeps the scope.
LEMMA ScopeExempt ==
    ASSUME TypeOK, Contents, PhaseInv, ScriptInv, GrantScript, JumpInv, EndInv, RunCommand, op = "Exempt",
           Jump => \A ep \in Endpoint : Opened(Exempt(ep)) => ep \in held,
           cmd.onerr = "return" => Shut,
           cmd = Jumping => Empty
    PROVE  /\ Jump' => \A ep \in Endpoint : Opened(Exempt(ep))' => ep \in held
           /\ err' => Shut'
           /\ todo' # << >> /\ Head(todo').onerr = "return" => Shut'
           /\ todo' # << >> /\ Head(todo') = Jumping => Empty'
<1>1. PICK t \in Seq(Commands) : Grants(t) /\ RestOf(todo, t)
  BY DEF GrantScript
<1>2. todo # << >> /\ todo \in Seq(Commands) /\ ~err
  BY CommandCaller DEF EndInv, TypeOK
<1>3. Ran(t) \in Nat /\ cmd = t[Ran(t) + 1]
  BY <1>1, RanNext
<1>4. ASSUME todo' # << >>
      PROVE  /\ Head(todo').onerr = "return" => Ran(t) = 1
             /\ Head(todo') = Jumping => Ran(t) = 0
  <2>1. todo' \in Seq(Commands) /\ RestOf(todo', t)
    <3>1. todo' = Tail(todo)
      BY <1>4, ErrorCourse
    <3>2. QED BY <1>1, <1>2, <3>1, Rest, RestNext
  <2>2. Len(t) - Len(todo') = Ran(t) + 1
    BY <1>1, <1>4, RanNext
  <2>3. Head(todo').onerr = "return" => Ran(t) + 1 = 0 \/ Ran(t) + 1 = 2
    BY <1>1, <1>4, <2>1, <2>2, GrantReturns
  <2>4. Head(todo') = Jumping => Ran(t) + 1 = 1
    BY <1>1, <1>4, <2>1, <2>2, GrantHead
  <2>5. QED BY <1>3, <2>3, <2>4
<1>5. /\ Ran(t) = 0 => cmd = NewChain(ChainExempt)
      /\ Ran(t) = 1 => cmd = Jumping
  BY <1>1, ExemptNext DEF Jumping
<1>6. NewChain(ChainExempt).onerr = "return" /\ Jumping.onerr = "ignore"
  BY DEF NewChain, Jumping, Insert, Command
<1>7. CASE Failed /\ UNCHANGED <<chain, exists>>
  <2>1. (Jump' <=> Jump) /\ (Empty' <=> Empty) /\ \A q : Opened(q)' <=> Opened(q)
    BY <1>7 DEF Jump, Empty, Opened
  <2>2. err' => Shut'
    <3>1. cmd.onerr = "return" \/ cmd.onerr = "ignore"
      <4>1. cmd \in Commands
        BY ChainCourse
      <4>2. QED BY <4>1 DEF Commands, CommandsOf
    <3>2. err' => cmd.onerr = "return"
      BY <1>2, <1>7, <3>1 DEF Failed
    <3>3. QED BY <2>1, <3>2 DEF Shut
  <2>3. todo' # << >> /\ Head(todo').onerr = "return" => Empty'
    BY <1>4, <1>5, <2>1
  <2>4. todo' # << >> => Head(todo') # Jumping
    BY <1>4, <1>5, <1>6, <1>7 DEF Failed
  <2>5. QED BY <2>1, <2>2, <2>3, <2>4 DEF Shut
<1>8. CASE Empty'
  BY <1>8 DEF Empty, Shut
<1>9. CASE Ran(t) = 1 /\ chain'[ChainExempt] = chain[ChainExempt]
  <2>1. Empty'
    BY <1>5, <1>9 DEF Empty, Opened
  <2>2. QED BY <1>8, <2>1
<1>10. CASE /\ Done /\ Ran(t) >= 2 /\ chain'[ChainOut] = chain[ChainOut]
            /\ \E ep \in held : chain'[ChainExempt] = Append(chain[ChainExempt], Exempt(ep))
  <2>1. PICK ep \in held : chain'[ChainExempt] = Append(chain[ChainExempt], Exempt(ep))
    BY <1>10
  <2>2. ep \in Endpoint /\ Exempt(ep) \in Rules
    BY <2>1, RuleTypes DEF TypeOK
  <2>3. \A q : Opened(q)' => Opened(q) \/ q = Exempt(ep)
    BY <2>1, <2>2, OpeningOne
  <2>4. \A e : Exempt(e) = Exempt(ep) => e = ep
    BY DEF Exempt, Rule
  <2>5. Jump' => Jump
    BY <1>10 DEF Jump
  <2>6. Jump' => \A e \in Endpoint : Opened(Exempt(e))' => e \in held
    BY <2>1, <2>3, <2>4, <2>5
  <2>7. ~err'
    BY <1>2, <1>10 DEF Done
  <2>8. ~(Ran(t) = 0) /\ ~(Ran(t) = 1)
    BY <1>3, <1>10
  <2>9. QED BY <1>4, <2>6, <2>7, <2>8
<1>11. QED BY <1>1, <1>7, <1>8, <1>9, <1>10, ExemptCourse

\* Commands keep the scope.
LEMMA ScopeCommand ==
    ASSUME TypeOK, Contents, PhaseInv, ScriptInv, GrantScript, JumpInv, EndInv, ScopeInv, RunCommand
    PROVE  ScopeInv'
<1>1. UNCHANGED <<op, phase, held>> /\ todo # << >>
  BY CommandCaller
<1>2. SUFFICES ASSUME armed' = "yes", phase # "down", failures' <= 1
      PROVE  /\ Jump' => \A ep \in Endpoint : Opened(Exempt(ep))' => ep \in held
             /\ op = "Exempt" /\ err' => Shut'
             /\ op = "Exempt" /\ todo' # << >> /\ Head(todo').onerr = "return" => Shut'
             /\ op = "Exempt" /\ todo' # << >> /\ Head(todo') = Jumping => Empty'
             /\ op = "Unexempt" /\ Len(todo') = 1 => ~Jump' \/ failures' = 1
             /\ op = "Unexempt" /\ todo' = << >> => Shut'
  BY <1>1 DEF ScopeInv, cmd
<1>3. /\ failures \in Nat /\ failures <= 1
      /\ failures' = failures + 1 => failures = 0 /\ failures' = 1
  <2>1. failures \in Nat
    BY BoundAssumption DEF TypeOK, BoundAssumption
  <2>2. QED BY <1>2, <2>1, FailureCount
<1>4. op # "Cleanup" /\ (op # "Setup" => armed = "yes")
  BY <1>2, Arming
<1>5. ASSUME op # "Setup"
      PROVE  /\ Jump => \A ep \in Endpoint : Opened(Exempt(ep)) => ep \in held
             /\ op = "Exempt" /\ cmd.onerr = "return" => Shut
             /\ op = "Exempt" /\ cmd = Jumping => Empty
             /\ op = "Unexempt" /\ Len(todo) = 1 => ~Jump \/ failures = 1
  BY <1>1, <1>2, <1>3, <1>4, <1>5 DEF ScopeInv
<1>6. CASE op = "Setup"
  <2>1. Ran(Setup) >= 14
    BY <1>1, <1>2, <1>6, Arming DEF EndInv
  <2>2. ~Jump
    BY <1>1, <1>6, <2>1 DEF JumpInv
  <2>3. ~Jump'
    <3>1. OutEffect
      BY OutCourse
    <3>2. chain'[ChainOut] = << >> => ~Jump'
      BY DEF Jump
    <3>3. \A i \in 1..Len(chain[ChainOut]) : chain[ChainOut][i] # JumpExempt
      BY <2>2 DEF Jump
    <3>4. chain'[ChainOut] = chain[ChainOut] => ~Jump'
      BY <2>2 DEF Jump
    <3>5. QED BY <1>6, <2>2, <3>1, <3>2, <3>3, <3>4 DEF OutEffect
  <2>4. QED BY <1>6, <2>3
<1>7. CASE op = "Exempt"
  <2>1. /\ Jump => \A ep \in Endpoint : Opened(Exempt(ep)) => ep \in held
        /\ cmd.onerr = "return" => Shut
        /\ cmd = Jumping => Empty
    BY <1>5, <1>7
  <2>2. /\ Jump' => \A ep \in Endpoint : Opened(Exempt(ep))' => ep \in held
        /\ err' => Shut'
        /\ todo' # << >> /\ Head(todo').onerr = "return" => Shut'
        /\ todo' # << >> /\ Head(todo') = Jumping => Empty'
    BY <1>7, <2>1, ScopeExempt
  <2>3. QED BY <1>7, <2>2
<1>8. CASE op = "Unexempt"
  <2>1. CASE /\ Len(todo) = 2 /\ Len(todo') = 1
             /\ chain'[ChainExempt] = chain[ChainExempt] /\ (Jump' => Jump)
             /\ ~Jump' \/ failures' = failures + 1
    <3>1. \A q : Opened(q)' <=> Opened(q)
      BY <2>1 DEF Opened
    <3>2. todo' # << >>
      BY <2>1
    <3>3. QED BY <1>3, <1>5, <1>8, <2>1, <3>1, <3>2
  <2>2. CASE /\ Len(todo) = 1 /\ todo' = << >>
             /\ chain'[ChainOut] = chain[ChainOut]
             /\ \/ Empty'
                \/ failures' = failures + 1 /\ chain' = chain
    <3>1. Jump' <=> Jump
      BY <2>2 DEF Jump
    <3>2. Len(todo') # 1
      BY <2>2
    <3>3. Shut'
      BY <1>3, <1>5, <1>8, <2>2, <3>1 DEF Shut
    <3>4. Jump' => \A ep \in Endpoint : Opened(Exempt(ep))' => ep \in held
      BY <3>3 DEF Shut, Empty
    <3>5. QED BY <1>8, <3>2, <3>3, <3>4
  <2>3. QED BY <1>8, <2>1, <2>2, UnexemptCourse
<1>9. CASE op \notin {"Setup", "Exempt", "Unexempt"}
  <2>1. chain'[ChainOut] = chain[ChainOut] /\ chain'[ChainExempt] = chain[ChainExempt]
    BY <1>4, <1>9, Elsewhere
  <2>2. (Jump' <=> Jump) /\ \A q : Opened(q)' <=> Opened(q)
    BY <2>1 DEF Jump, Opened
  <2>3. QED BY <1>5, <1>9, <2>2
<1>10. QED BY <1>6, <1>7, <1>8, <1>9

\* Calls and returns keep it: a scope is closed only behind a method that has left
\* nothing open.
LEMMA ScopeCaller ==
    ASSUME TypeOK, PhaseInv, ScopeInv, Next, ~RunCommand
    PROVE  ScopeInv'
<1>1. UNCHANGED <<chain, exists, failures>>
  BY CallerFrame
<1>2. (Jump' <=> Jump) /\ (Empty' <=> Empty) /\ (Shut' <=> Shut) /\ \A q : Opened(q)' <=> Opened(q)
  BY <1>1 DEF Jump, Empty, Opened, Shut
<1>3. SUFFICES ASSUME armed' = "yes", phase' # "down", failures <= 1
      PROVE  /\ Jump => \A ep \in Endpoint : Opened(Exempt(ep)) => ep \in held'
             /\ op' = "Exempt" /\ err' => Shut
             /\ op' = "Exempt" /\ todo' # << >> /\ Head(todo').onerr = "return" => Shut
             /\ op' = "Exempt" /\ todo' # << >> /\ Head(todo') = Jumping => Empty
             /\ op' = "Unexempt" /\ Len(todo') = 1 => ~Jump \/ failures = 1
             /\ op' = "Unexempt" /\ todo' = << >> => Shut
  BY <1>1, <1>2 DEF ScopeInv, cmd
<1>4. CASE StartSetup
  BY <1>3, <1>4 DEF StartSetup
<1>5. CASE BeginCleanup
  BY <1>3, <1>5 DEF BeginCleanup
<1>6. CASE ErrorExit \/ Crash
  BY <1>3, <1>6 DEF ErrorExit, Crash, Dies
<1>7. CASE Stopped
  <2>1. UNCHANGED <<armed, phase, held>> /\ op' = "none"
    BY <1>7 DEF Stopped, vars, call, caller, PhaseInv, Down
  <2>2. QED BY <1>3, <2>1 DEF ScopeInv
<1>8. CASE OpenExemption \/ OpenExemptions
  <2>1. armed = "yes" /\ phase # "down" /\ held = {} /\ err' = FALSE /\ op' = "Exempt"
    BY <1>3, <1>8 DEF OpenExemption, OpenExemptions, Call, Idle
  <2>2. Shut
    BY <1>3, <2>1 DEF ScopeInv, Shut, Empty
  <2>3. Head(todo') # Jumping
    <3>1. PICK t \in Seq(Commands) : todo' = t /\ Grants(t)'
      BY <1>8, GrantBegins
    <3>2. Head(t) = NewChain(ChainExempt)
      BY <3>1, Rest DEF Grants
    <3>3. NewChain(ChainExempt) # Jumping
      BY DEF NewChain, Jumping, Insert, Command
    <3>4. QED BY <3>1, <3>2, <3>3
  <2>4. Jump => \A ep \in Endpoint : ~Opened(Exempt(ep))
    BY <2>2 DEF Shut, Empty
  <2>5. QED BY <2>1, <2>2, <2>3, <2>4
<1>9. CASE CloseExemptions
  <2>1. armed = "yes" /\ phase # "down" /\ held' = held /\ op' = "Unexempt" /\ todo' = RemoveExemptions
    BY <1>3, <1>9 DEF CloseExemptions, Call, caller, Idle
  <2>2. Len(RemoveExemptions) = 2
    BY DEF RemoveExemptions
  <2>3. Len(todo') # 1 /\ todo' # << >>
    BY <2>1, <2>2
  <2>4. Jump => \A ep \in Endpoint : Opened(Exempt(ep)) => ep \in held
    BY <1>3, <2>1 DEF ScopeInv
  <2>5. QED BY <2>1, <2>3, <2>4
<1>10. CASE ExemptReturns
  <2>1. /\ armed = "yes" /\ phase # "down" /\ op = "Exempt" /\ op' = "none"
        /\ held' = IF err /\ phase # "fetch" THEN {} ELSE held
    BY <1>3, <1>10 DEF ExemptReturns, Returns
  <2>2. (Jump => \A ep \in Endpoint : Opened(Exempt(ep)) => ep \in held) /\ (err => Shut)
    BY <1>3, <2>1 DEF ScopeInv
  <2>3. QED BY <2>1, <2>2 DEF Shut, Empty
<1>11. CASE UnexemptReturns
  <2>1. armed = "yes" /\ op = "Unexempt" /\ todo = << >> /\ op' = "none" /\ phase # "down"
    BY <1>3, <1>11 DEF UnexemptReturns, Returns
  <2>2. Shut
    BY <1>3, <2>1 DEF ScopeInv
  <2>3. QED BY <2>1, <2>2 DEF Shut, Empty
<1>12. CASE \/ SetupReturns \/ BeginConnect \/ BeginRoutes \/ RoutesReturn \/ BeginForward
            \/ ForwardReturns \/ Announce \/ AnnounceReturns \/ BeginTeardown \/ TeardownReturns
            \/ LeaveServices \/ CleanupReturns
  <2>1. armed' = armed /\ held' = held /\ op' \notin {"Exempt", "Unexempt"}
    BY <1>12 DEF SetupReturns, BeginConnect, BeginRoutes, RoutesReturn, BeginForward,
            ForwardReturns, Announce, AnnounceReturns, BeginTeardown, TeardownReturns,
            LeaveServices, CleanupReturns, Call, Returns, call, caller, Idle
  <2>2. phase # "down"
    BY <1>12 DEF SetupReturns, BeginConnect, BeginRoutes, RoutesReturn, BeginForward,
            ForwardReturns, Announce, AnnounceReturns, BeginTeardown, TeardownReturns,
            LeaveServices, CleanupReturns, Returns, Idle, PhaseInv, Down
  <2>3. Jump => \A ep \in Endpoint : Opened(Exempt(ep)) => ep \in held
    BY <1>3, <2>1, <2>2 DEF ScopeInv
  <2>4. QED BY <2>1, <2>3
<1>13. QED
  BY <1>4, <1>5, <1>6, <1>7, <1>8, <1>9, <1>10, <1>11, <1>12 DEF Next, Progress

\* What the commands of the script t that are behind have done for its exemptions.
Granted(t) ==
    /\ Ran(t) = 0 /\ phase = "fetch" => ChainExempt \notin exists
    /\ Ran(t) >= 1 => ChainExempt \in exists
    /\ Ran(t) >= 2 => Jump
    /\ \A i \in 3..Ran(t) : Opened(t[i].rule)

\* As long as no command has failed, a method that opens exemptions opens all of
\* them or returns an error; for captureRealIP, which would not see it, there is
\* no chain in the way, as a query was answered before and has removed it.
OpenInv ==
    armed = "yes" /\ failures = 0 =>
        /\ phase = "resolved" => ChainExempt \notin exists
        /\ op = "Exempt" /\ (phase = "fetch" \/ ~err) =>
              ~err /\ \E t \in Seq(Commands) : Grants(t) /\ RestOf(todo, t) /\ Granted(t)
        /\ op = "none" /\ held # {} => Jump /\ \A ep \in held : Opened(Exempt(ep))
        /\ op = "Unexempt" /\ todo = << >> => ChainExempt \notin exists

\* A command of an exemption's script fails only at a chain that is in the way.
LEMMA GrantWorks ==
    ASSUME TypeOK, Closed, WiredExist, armed = "yes", RunCommand,
           NEW t \in Seq(Commands), Grants(t), RestOf(todo, t), Granted(t), ~Works(cmd)
    PROVE  Ran(t) = 0 /\ ChainExempt \in exists
<1>1. /\ Ran(t) \in Nat
      /\ Ran(t) = 0 => cmd = NewChain(ChainExempt)
      /\ Ran(t) = 1 => cmd = Jumping
      /\ Ran(t) >= 2 => \E ep \in held, o \in {"return", "ignore"} :
            cmd = Append_(ChainExempt, Exempt(ep), o)
  BY ExemptNext DEF Jumping
<1>2. CASE Ran(t) = 0
  <2>1. cmd.do = "new" /\ cmd.on = ChainExempt
    BY <1>1, <1>2 DEF NewChain, Command
  <2>2. QED BY <1>2, <2>1 DEF Works
<1>3. ASSUME Ran(t) = 1 PROVE FALSE
  <2>1. cmd.do = "insert" /\ cmd.on = ChainOut /\ cmd.pos = 1
    BY <1>1, <1>3 DEF Jumping, Insert, Command
  <2>2. ChainOut \in exists /\ ChainExempt \in exists
    <3>1. ChainOut \in wired
      BY DEF Closed, BaseChains
    <3>2. QED BY <1>3, <3>1 DEF WiredExist, Granted
  <2>3. 1 \in 1..(Len(chain[ChainOut]) + 1)
    <3>1. chain[ChainOut] \in Seq(Rules)
      BY ChainNames DEF TypeOK
    <3>2. Len(chain[ChainOut]) \in Nat
      BY <3>1
    <3>3. QED BY <3>2
  <2>4. QED BY <2>1, <2>2, <2>3 DEF Works
<1>4. ASSUME Ran(t) >= 2 PROVE FALSE
  <2>1. cmd.do = "append" /\ cmd.on = ChainExempt
    BY <1>1, <1>4 DEF Append_, Command
  <2>2. ChainExempt \in exists
    BY <1>1, <1>4 DEF Granted
  <2>3. QED BY <2>1, <2>2 DEF Works
<1>5. QED BY <1>1, <1>2, <1>3, <1>4

\* A command of an exemption's script that works does its part.
LEMMA GrantAdvances ==
    ASSUME TypeOK, Contents, ScriptInv, RunCommand, ~Failed,
           NEW t \in Seq(Commands), Grants(t), RestOf(todo, t), Granted(t)
    PROVE  Done /\ Granted(t)'
<1>0. Done
  BY ExemptCourse
<1>1. Ran(t) \in Nat /\ todo # << >> /\ todo \in Seq(Commands)
  BY RanNext, CommandCaller DEF TypeOK
<1>2. PICK n \in Nat : n = Ran(t)
  BY <1>1
<1>3. Len(t) - Len(todo') = n + 1
  <2>1. todo' = Tail(todo)
    BY <1>0 DEF Done
  <2>2. Len(t) \in Nat /\ Len(todo) \in Nat /\ Len(Tail(todo)) = Len(todo) - 1
    BY <1>1, RestNext
  <2>3. Len(t) - Len(todo) = n
    BY <1>2 DEF Ran
  <2>4. Len(t) - (Len(todo) - 1) = n + 1
    BY <2>2, <2>3
  <2>5. QED BY <2>1, <2>2, <2>4
<1>4. /\ n >= 1 => ChainExempt \in exists
      /\ n >= 2 => Jump
      /\ \A i \in 3..n : Opened(t[i].rule)
  BY <1>2 DEF Granted
<1>5. SUFFICES /\ ChainExempt \in exists'
               /\ n + 1 >= 2 => Jump'
               /\ \A i \in 3..(n + 1) : Opened(t[i].rule)'
  <2>1. n + 1 # 0
    OBVIOUS
  <2>2. QED BY <1>0, <1>3, <1>5, <2>1 DEF Granted, Ran
<1>6. CASE n = 0 /\ ChainExempt \in exists'
  <2>1. ~(n + 1 >= 2) /\ \A i \in 3..(n + 1) : FALSE
    BY <1>6
  <2>2. QED BY <1>6, <2>1
<1>7. CASE n = 1 /\ Jump' /\ UNCHANGED exists /\ ChainExempt \in exists
  <2>1. \A i \in 3..(n + 1) : FALSE
    BY <1>7
  <2>2. QED BY <1>7, <2>1
<1>8. CASE /\ n >= 2 /\ UNCHANGED exists /\ ChainExempt \in exists
           /\ chain'[ChainOut] = chain[ChainOut]
           /\ \E ep \in held : /\ t[n + 1].rule = Exempt(ep)
                               /\ chain'[ChainExempt] = Append(chain[ChainExempt], Exempt(ep))
  <2>1. PICK ep \in held : /\ t[n + 1].rule = Exempt(ep)
                           /\ chain'[ChainExempt] = Append(chain[ChainExempt], Exempt(ep))
    BY <1>8
  <2>2. Exempt(ep) \in Rules
    BY <2>1, RuleTypes DEF TypeOK
  <2>3. Opened(Exempt(ep))' /\ \A q : Opened(q) => Opened(q)'
    BY <2>1, <2>2, OpeningOne
  <2>4. \A i \in 3..(n + 1) : i \in 3..n \/ i = n + 1
    OBVIOUS
  <2>5. Jump'
    BY <1>4, <1>8 DEF Jump
  <2>6. QED BY <1>4, <1>8, <2>1, <2>3, <2>4, <2>5
<1>9. QED BY <1>2, <1>6, <1>7, <1>8, ExemptCourse

\* Commands keep to that.
LEMMA OpenCommand ==
    ASSUME TypeOK, Contents, WiredExist, Closed, PhaseInv, CourseInv, ScriptInv, JumpInv, EndInv,
           ScopeInv, OpenInv, RunCommand
    PROVE  OpenInv'
<1>1. UNCHANGED <<op, phase, held>> /\ todo # << >> /\ todo \in Seq(Commands)
  BY CommandCaller DEF TypeOK
<1>2. op # "none" /\ op \in Op
  BY <1>1 DEF PhaseInv, TypeOK
<1>3. phase # "resolved"
  BY <1>2 DEF CourseInv, PhaseInv, Op
<1>4. SUFFICES ASSUME armed' = "yes", failures' = 0
      PROVE  /\ op = "Exempt" /\ (phase = "fetch" \/ ~err') =>
                   ~err' /\ \E t \in Seq(Commands) : Grants(t)' /\ RestOf(todo', t) /\ Granted(t)'
             /\ op = "Unexempt" /\ todo' = << >> => ChainExempt \notin exists'
  BY <1>1, <1>2, <1>3 DEF OpenInv
<1>5. failures = 0 /\ failures' # failures + 1
  <2>1. failures \in Nat
    BY BoundAssumption DEF TypeOK, BoundAssumption
  <2>2. QED BY <1>4, <2>1, FailureCount
<1>6. ASSUME op # "Setup" PROVE armed = "yes"
  BY <1>4, <1>6, Arming
<1>7. ASSUME op = "Exempt", phase = "fetch" \/ ~err'
      PROVE  ~err' /\ \E t \in Seq(Commands) : Grants(t)' /\ RestOf(todo', t) /\ Granted(t)'
  <2>1. armed = "yes" /\ ~err
    BY <1>1, <1>6, <1>7 DEF EndInv
  <2>2. PICK t \in Seq(Commands) : Grants(t) /\ RestOf(todo, t) /\ Granted(t)
    BY <1>5, <1>7, <2>1 DEF OpenInv
  <2>3. ASSUME Failed PROVE FALSE
    <3>1. ~Works(cmd)
      BY <1>5, <2>3 DEF Failed
    <3>2. Ran(t) = 0 /\ ChainExempt \in exists
      BY <2>1, <2>2, <3>1, GrantWorks
    <3>3. phase # "fetch"
      BY <2>2, <3>2 DEF Granted
    <3>4. cmd = NewChain(ChainExempt)
      BY <2>2, <3>2, ExemptNext
    <3>5. cmd.onerr = "return"
      BY <3>4 DEF NewChain, Command
    <3>6. QED BY <1>7, <2>3, <3>3, <3>5 DEF Failed
  <2>4. Done /\ Granted(t)'
    BY <2>2, <2>3, GrantAdvances
  <2>5. Grants(t)'
    BY <1>1, <2>2 DEF Grants
  <2>6. RestOf(todo', t)
    BY <1>1, <2>2, <2>4, RestNext DEF Done
  <2>7. QED BY <2>1, <2>2, <2>4, <2>5, <2>6 DEF Done
<1>8. ASSUME op = "Unexempt", todo' = << >> PROVE ChainExempt \notin exists'
  <2>1. armed = "yes" /\ phase # "down"
    BY <1>6, <1>8 DEF CourseInv
  <2>2. Len(todo) = 1 => ~Jump
    BY <1>5, <1>8, <2>1 DEF ScopeInv
  <2>3. Len(todo') # 1
    BY <1>8
  <2>4. QED BY <1>5, <1>8, <2>2, <2>3, UnexemptCourse
<1>9. QED BY <1>7, <1>8

\* Calls and returns keep to it: an exemption is granted when its method returns
\* no error, and only a query whose exemptions were removed is answered.
LEMMA OpenCaller ==
    ASSUME TypeOK, PhaseInv, CourseInv, OpenInv, Next, ~RunCommand
    PROVE  OpenInv'
<1>1. UNCHANGED <<chain, exists, failures>>
  BY CallerFrame
<1>2. (Jump' <=> Jump) /\ \A q : Opened(q)' <=> Opened(q)
  BY <1>1 DEF Jump, Opened
<1>3. SUFFICES ASSUME armed' = "yes", failures = 0
      PROVE  /\ phase' = "resolved" => ChainExempt \notin exists
             /\ op' = "Exempt" /\ (phase' = "fetch" \/ ~err') =>
                   ~err' /\ \E t \in Seq(Commands) : Grants(t)' /\ RestOf(todo', t) /\ Granted(t)'
             /\ op' = "none" /\ held' # {} => Jump /\ \A ep \in held' : Opened(Exempt(ep))
             /\ op' = "Unexempt" /\ todo' = << >> => ChainExempt \notin exists
  BY <1>1, <1>2 DEF OpenInv
<1>4. CASE StartSetup
  BY <1>3, <1>4 DEF StartSetup
<1>5. CASE BeginCleanup
  BY <1>3, <1>5 DEF BeginCleanup
<1>6. CASE ErrorExit \/ Crash
  BY <1>6 DEF ErrorExit, Crash, Dies
<1>7. CASE Stopped
  <2>1. phase' = phase /\ phase \in {"down", "clean"} /\ held' = held /\ op' = "none"
    BY <1>7 DEF Stopped, vars, call, caller, PhaseInv, Down
  <2>2. held = {}
    BY <2>1 DEF CourseInv
  <2>3. QED BY <2>1, <2>2
<1>8. CASE OpenExemption \/ OpenExemptions
  <2>1. armed = "yes" /\ err' = FALSE /\ op' = "Exempt" /\ phase' # "resolved"
    BY <1>3, <1>8 DEF OpenExemption, OpenExemptions, Call
  <2>2. phase' = "fetch" => ChainExempt \notin exists
    <3>1. phase' = "fetch" => phase = "resolved"
      BY <1>8 DEF OpenExemption, OpenExemptions
    <3>2. QED BY <1>3, <2>1, <3>1 DEF OpenInv
  <2>3. PICK t \in Seq(Commands) : todo' = t /\ Grants(t)'
    BY <1>8, GrantBegins
  <2>4. RestOf(todo', t)
    BY <2>3, RestWhole
  <2>5. Len(t) - Len(todo') = 0
    <3>1. Len(t) \in Nat
      OBVIOUS
    <3>2. QED BY <2>3, <3>1
  <2>6. Granted(t)'
    BY <1>1, <2>2, <2>5 DEF Granted, Ran
  <2>7. QED BY <2>1, <2>3, <2>4, <2>6
<1>9. CASE CloseExemptions
  <2>1. op' = "Unexempt" /\ todo' = RemoveExemptions /\ phase' = phase /\ armed = "yes"
    BY <1>3, <1>9 DEF CloseExemptions, Call, caller
  <2>2. Len(RemoveExemptions) = 2
    BY DEF RemoveExemptions
  <2>3. todo' # << >>
    BY <2>1, <2>2
  <2>4. phase = "resolved" => ChainExempt \notin exists
    BY <1>3, <2>1 DEF OpenInv
  <2>5. QED BY <2>1, <2>3, <2>4
<1>10. CASE ExemptReturns
  <2>1. /\ armed = "yes" /\ op = "Exempt" /\ op' = "none" /\ todo = << >> /\ phase' = phase
        /\ held' = IF err /\ phase # "fetch" THEN {} ELSE held
    BY <1>3, <1>10 DEF ExemptReturns, Returns
  <2>2. phase # "resolved"
    BY <2>1 DEF CourseInv
  <2>3. ASSUME held' # {}
        PROVE  Jump /\ \A ep \in held' : Opened(Exempt(ep))
    <3>1. phase = "fetch" \/ ~err
      BY <2>1, <2>3
    <3>2. ~err /\ \E t \in Seq(Commands) : Grants(t) /\ RestOf(todo, t) /\ Granted(t)
      BY <1>3, <2>1, <3>1 DEF OpenInv
    <3>3. PICK t \in Seq(Commands) : Grants(t) /\ RestOf(todo, t) /\ Granted(t)
      BY <3>2
    <3>4. Ran(t) = Len(t) /\ Len(t) \in Nat /\ Len(t) >= 3
      <4>1. Len(t) \in Nat /\ Len(todo) = 0
        BY <2>1
      <4>2. QED BY <3>3, <4>1 DEF Ran, Grants
    <3>5. Jump /\ \A i \in 3..Len(t) : Opened(t[i].rule)
      BY <3>3, <3>4 DEF Granted
    <3>6. \A ep \in held : \E i \in 3..Len(t) : t[i].rule = Exempt(ep)
      BY <3>3 DEF Grants
    <3>7. held' = held
      BY <2>1, <3>2
    <3>8. QED BY <3>5, <3>6, <3>7
  <2>4. QED BY <2>1, <2>2, <2>3
<1>11. CASE UnexemptReturns
  <2>1. armed = "yes" /\ op = "Unexempt" /\ todo = << >> /\ op' = "none" /\ held' = {}
    BY <1>3, <1>11 DEF UnexemptReturns, Returns
  <2>2. ChainExempt \notin exists
    BY <1>3, <2>1 DEF OpenInv
  <2>3. QED BY <2>1, <2>2
<1>12. CASE SetupReturns
  <2>1. op = "Setup" /\ held' = held /\ phase' # "resolved" /\ op' = "none"
    BY <1>12 DEF SetupReturns, Returns
  <2>2. held = {}
    BY <2>1 DEF CourseInv
  <2>3. QED BY <2>1, <2>2
<1>13. CASE BeginConnect
  <2>1. phase' = "connect" /\ held' = {} /\ op' = "none"
    BY <1>13 DEF BeginConnect, call, Idle
  <2>2. QED BY <2>1
<1>14. CASE \/ BeginRoutes \/ RoutesReturn \/ BeginForward \/ ForwardReturns \/ Announce \/ AnnounceReturns
            \/ BeginTeardown \/ TeardownReturns \/ LeaveServices \/ CleanupReturns
  <2>1. held' = held /\ op' \notin {"Exempt", "Unexempt"}
    BY <1>14 DEF BeginRoutes, RoutesReturn, BeginForward,
            ForwardReturns, Announce, AnnounceReturns, BeginTeardown, TeardownReturns,
            LeaveServices, CleanupReturns, Call, Returns, call, caller, Idle
  <2>2. phase \in {"registered", "services", "forward", "shutdown"}
    BY <1>14 DEF BeginRoutes, RoutesReturn, BeginForward,
            ForwardReturns, Announce, AnnounceReturns, BeginTeardown, TeardownReturns,
            LeaveServices, CleanupReturns, Returns, Idle, PhaseInv, CourseInv
  <2>3. phase' # "resolved"
    BY <1>14, <2>2 DEF BeginRoutes, RoutesReturn, BeginForward,
            ForwardReturns, Announce, AnnounceReturns, BeginTeardown, TeardownReturns,
            LeaveServices, CleanupReturns, caller
  <2>4. held = {}
    BY <2>2 DEF CourseInv
  <2>5. QED BY <2>1, <2>3, <2>4
<1>15. QED
  BY <1>4, <1>5, <1>6, <1>7, <1>8, <1>9, <1>10, <1>11, <1>12, <1>13, <1>14 DEF Next, Progress

\* The scope and what is opened for it decide which endpoints get through.
LEMMA ExactlyHeld ==
    ASSUME TypeOK, Contents, Closed, JumpInv, ScopeInv, OpenInv
    PROVE  ExemptionsExact
<1>1. SUFFICES ASSUME armed = "yes", NEW ep \in Endpoint
      PROVE  /\ phase # "down" /\ failures <= 1 /\ Passes(ChainOut, Exempt(ep)) => ep \in held
             /\ Idle /\ failures = 0 /\ ep \in held => Passes(ChainOut, Exempt(ep))
  BY DEF ExemptionsExact
<1>2. ChainOut \in wired /\ chainHasDrop(ChainOut) /\ ChainOut \in Chains /\ ChainExempt \in Chains
  BY <1>1, ChainNames DEF Closed, BaseChains
<1>3. /\ chain[ChainOut] \in Seq(Rules) /\ chain[ChainExempt] \in Seq(Rules)
      /\ chain[ChainOut] \in Seq(Allowed(ChainOut))
  BY <1>2 DEF TypeOK, Contents
<1>4. \A i \in 1..Len(chain[ChainOut]) : chain[ChainOut][i] # Exempt(ep)
  <2>1. Exempt(ep) \in Endpoints
    BY DEF Endpoints
  <2>2. Exempt(ep) # Drop /\ Exempt(ep) # JumpExempt /\ ChainOut # ChainExempt
    BY DEF Exempt, Drop, JumpExempt, Rule, ChainOut, ChainExempt
  <2>3. Exempt(ep) \notin Allowed(ChainOut)
    BY <2>1, <2>2 DEF Allowed
  <2>4. \A i \in 1..Len(chain[ChainOut]) : chain[ChainOut][i] \in Allowed(ChainOut)
    BY <1>3, ElementOfSeq
  <2>5. QED BY <2>3, <2>4
<1>5. Exempt(ep) \in ToSet(chain[ChainExempt]) <=> Opened(Exempt(ep))
  BY <1>3 DEF ToSet, Opened
<1>6. DOMAIN chain[ChainOut] = 1..Len(chain[ChainOut])
  BY <1>3
<1>7. ASSUME phase # "down", failures <= 1, Passes(ChainOut, Exempt(ep)) PROVE ep \in held
  <2>1. PICK i \in 1..Len(chain[ChainOut]) : Matches(chain[ChainOut][i], Exempt(ep))
    BY <1>2, <1>6, <1>7 DEF Passes
  <2>2. chain[ChainOut][i] = JumpExempt /\ Opened(Exempt(ep))
    BY <1>4, <1>5, <2>1 DEF Matches
  <2>3. Jump
    BY <2>1, <2>2 DEF Jump
  <2>4. QED BY <1>1, <1>7, <2>2, <2>3 DEF ScopeInv
<1>8. ASSUME Idle, failures = 0, ep \in held PROVE Passes(ChainOut, Exempt(ep))
  <2>1. Jump /\ Opened(Exempt(ep))
    BY <1>1, <1>8 DEF OpenInv, Idle
  <2>2. PICK i \in 1..Len(chain[ChainOut]) : chain[ChainOut][i] = JumpExempt
    BY <2>1 DEF Jump
  <2>3. i = 1
    BY <2>2 DEF JumpInv
  <2>4. Matches(chain[ChainOut][i], Exempt(ep))
    BY <1>5, <2>1, <2>2 DEF Matches
  <2>5. \A j \in 1..(i - 1) : FALSE
    BY <2>3
  <2>6. QED BY <1>6, <2>2, <2>4, <2>5 DEF Passes
<1>9. QED BY <1>7, <1>8

-----------------------------------------------------------------------------
(* The forwarded port.                                                     *)

\* The rules of VPN_IN once Setup has built it: DROP is the last and only there,
\* behind the two that nothing removes.
Framed(s) ==
    /\ Len(s) >= 3 /\ s[1] = Established /\ s[2] = Loopback /\ s[Len(s)] = Drop
    /\ \A i \in 1..Len(s) : s[i] = Drop => i = Len(s)

\* The rules s open no port; of the ports of a protocol p at most, and once; p.
NoPorts(s) == \A i \in 1..Len(s) : s[i] \notin PortRules
Only(s, proto, p) ==
    \A q \in Port, i, j \in 1..Len(s) :
        s[i] = PortRule(proto, q) => q = p /\ (s[j] = s[i] => j = i)
Exactly(s, proto, p) ==
    /\ Only(s, proto, p)
    /\ p \in Port => \E i \in 1..Len(s) : s[i] = PortRule(proto, p)

\* f says where in s every rule of u but the one at i comes from.
From(f, u, i, s) ==
    /\ \A k \in 1..Len(u) : k # i => f[k] \in 1..Len(s) /\ u[k] = s[f[k]]
    /\ \A k, l \in 1..Len(u) : k # i /\ l # i /\ f[k] = f[l] => k = l
    /\ \A j \in 1..Len(s) : \E k \in 1..Len(u) : k # i /\ f[k] = j

\* Where the rules come from after an insertion.
LEMMA InsertShift ==
    ASSUME NEW s \in Seq(Rules), NEW r \in Rules, NEW i \in 1..(Len(s) + 1)
    PROVE  /\ Len(InsertAt(s, i, r)) = Len(s) + 1 /\ InsertAt(s, i, r)[i] = r
           /\ \E f : From(f, InsertAt(s, i, r), i, s)
<1> DEFINE u == InsertAt(s, i, r)
           n == Len(s)
           f == [k \in 1..(n + 1) |-> IF k < i THEN k ELSE k - 1]
<1>0. /\ Len(InsertAt(s, i, r)) = Len(s) + 1 /\ InsertAt(s, i, r)[i] = r
      /\ \A k \in 1..(i - 1) : InsertAt(s, i, r)[k] = s[k]
      /\ \A k \in (i + 1)..(Len(s) + 1) : InsertAt(s, i, r)[k] = s[k - 1]
  <2> HIDE DEF u, n, f
  <2>1. QED BY RuleInserted
<1>1. /\ Len(u) = n + 1 /\ u[i] = r
      /\ \A k \in 1..(i - 1) : u[k] = s[k]
      /\ \A k \in (i + 1)..(n + 1) : u[k] = s[k - 1]
  BY <1>0
<1>2. n \in Nat /\ i \in 1..(n + 1)
  OBVIOUS
<1>3. \A k \in 1..(n + 1) : (k < i => f[k] = k) /\ (k > i => f[k] = k - 1)
  BY <1>2
<1> HIDE DEF u, n, f
<1>4. ASSUME NEW k \in 1..(n + 1), k # i PROVE f[k] \in 1..n /\ u[k] = s[f[k]]
  <2>1. CASE k < i
    <3>1. k \in 1..(i - 1) /\ k \in 1..n /\ f[k] = k
      BY <1>2, <1>3, <2>1
    <3>2. QED BY <1>1, <3>1
  <2>2. CASE k > i
    <3>1. k \in (i + 1)..(n + 1) /\ k - 1 \in 1..n /\ f[k] = k - 1
      BY <1>2, <1>3, <2>2
    <3>2. QED BY <1>1, <3>1
  <2>3. QED BY <1>2, <1>4, <2>1, <2>2
<1>5. ASSUME NEW k \in 1..(n + 1), NEW l \in 1..(n + 1), k # i, l # i, f[k] = f[l] PROVE k = l
  <2>1. (k < i \/ k > i) /\ (l < i \/ l > i)
    BY <1>2, <1>5
  <2>2. QED BY <1>2, <1>3, <1>5, <2>1
<1>6. ASSUME NEW j \in 1..n PROVE \E k \in 1..(n + 1) : k # i /\ f[k] = j
  <2>1. CASE j < i
    <3>1. j \in 1..(n + 1) /\ j # i /\ f[j] = j
      BY <1>2, <1>3, <2>1
    <3>2. QED BY <3>1
  <2>2. CASE ~(j < i)
    <3>1. j + 1 \in 1..(n + 1) /\ j + 1 # i /\ j + 1 > i
      BY <1>2, <2>2
    <3>2. f[j + 1] = (j + 1) - 1 /\ (j + 1) - 1 = j
      BY <1>2, <1>3, <3>1
    <3>3. QED BY <3>1, <3>2
  <2>3. QED BY <2>1, <2>2
<1>7. From(f, u, i, s)
  <2>1. /\ \A k \in 1..Len(u) : k # i => f[k] \in 1..n /\ u[k] = s[f[k]]
        /\ \A k, l \in 1..Len(u) : k # i /\ l # i /\ f[k] = f[l] => k = l
        /\ \A j \in 1..n : \E k \in 1..Len(u) : k # i /\ f[k] = j
    BY <1>1, <1>4, <1>5, <1>6
  <2>2. QED BY <2>1 DEF From, n
<1>8. QED BY <1>1, <1>7 DEF u, n

\* Where they come from after a deletion.
LEMMA RemoveShift ==
    ASSUME NEW s \in Seq(Rules), NEW i \in 1..Len(s)
    PROVE  LET u == RemoveAt(s, i) IN
           /\ Len(u) = Len(s) - 1
           /\ \E f : /\ \A k \in 1..Len(u) : f[k] \in 1..Len(s) /\ f[k] # i /\ u[k] = s[f[k]]
                     /\ \A k, l \in 1..Len(u) : f[k] = f[l] => k = l
                     /\ \A j \in 1..Len(s) : j # i => \E k \in 1..Len(u) : f[k] = j
<1> DEFINE u == RemoveAt(s, i)
           n == Len(s)
           f == [k \in 1..(n - 1) |-> IF k < i THEN k ELSE k + 1]
<1>1. /\ Len(u) = n - 1
      /\ \A k \in 1..(i - 1) : u[k] = s[k]
      /\ \A k \in i..(n - 1) : u[k] = s[k + 1]
  BY RemoveAtIs
<1>2. n \in Nat /\ i \in 1..n
  OBVIOUS
<1>3. \A k \in 1..(n - 1) : (k < i => f[k] = k) /\ (k >= i => f[k] = k + 1)
  BY <1>2
<1> HIDE DEF u, n, f
<1>4. ASSUME NEW k \in 1..(n - 1) PROVE f[k] \in 1..n /\ f[k] # i /\ u[k] = s[f[k]]
  <2>1. CASE k < i
    <3>1. k \in 1..(i - 1) /\ k \in 1..n /\ f[k] = k
      BY <1>2, <1>3, <2>1
    <3>2. QED BY <1>1, <2>1, <3>1
  <2>2. CASE k >= i
    <3>1. k \in i..(n - 1) /\ k + 1 \in 1..n /\ k + 1 # i /\ f[k] = k + 1
      BY <1>2, <1>3, <2>2
    <3>2. QED BY <1>1, <3>1
  <2>3. QED BY <1>2, <2>1, <2>2
<1>5. ASSUME NEW k \in 1..(n - 1), NEW l \in 1..(n - 1), f[k] = f[l] PROVE k = l
  <2>1. (k < i \/ k >= i) /\ (l < i \/ l >= i)
    BY <1>2
  <2>2. QED BY <1>2, <1>3, <1>5, <2>1
<1>6. ASSUME NEW j \in 1..n, j # i PROVE \E k \in 1..(n - 1) : f[k] = j
  <2>1. CASE j < i
    <3>1. j \in 1..(n - 1) /\ f[j] = j
      BY <1>2, <1>3, <2>1
    <3>2. QED BY <3>1
  <2>2. CASE j > i
    <3>1. j - 1 \in 1..(n - 1) /\ j - 1 >= i
      BY <1>2, <2>2
    <3>2. f[j - 1] = (j - 1) + 1 /\ (j - 1) + 1 = j
      BY <1>2, <1>3, <3>1
    <3>3. QED BY <3>1, <3>2
  <2>3. QED BY <1>2, <1>6, <2>1, <2>2
<1>7. \E g : /\ \A k \in 1..Len(u) : g[k] \in 1..n /\ g[k] # i /\ u[k] = s[g[k]]
             /\ \A k, l \in 1..Len(u) : g[k] = g[l] => k = l
             /\ \A j \in 1..n : j # i => \E k \in 1..Len(u) : g[k] = j
  <2>1. /\ \A k \in 1..Len(u) : f[k] \in 1..n /\ f[k] # i /\ u[k] = s[f[k]]
        /\ \A k, l \in 1..Len(u) : f[k] = f[l] => k = l
        /\ \A j \in 1..n : j # i => \E k \in 1..Len(u) : f[k] = j
    BY <1>1, <1>4, <1>5, <1>6
  <2>2. WITNESS f
  <2>3. QED BY <2>1
<1>8. QED BY <1>1, <1>7 DEF u, n

\* A rule other than DROP added between the first two and the last keeps the frame.
LEMMA FrameInserted ==
    ASSUME NEW s \in Seq(Rules), Framed(s), NEW r \in Rules, r # Drop, NEW i \in 3..Len(s)
    PROVE  Framed(InsertAt(s, i, r))
<1> DEFINE u == InsertAt(s, i, r)
           n == Len(s)
<1>1. n \in Nat /\ n >= 3 /\ i \in 3..n /\ i \in 1..(n + 1)
  BY DEF Framed
<1>0. /\ Len(InsertAt(s, i, r)) = Len(s) + 1 /\ InsertAt(s, i, r)[i] = r
      /\ \A k \in 1..(i - 1) : InsertAt(s, i, r)[k] = s[k]
      /\ \A k \in (i + 1)..(Len(s) + 1) : InsertAt(s, i, r)[k] = s[k - 1]
  <2> HIDE DEF u, n
  <2>1. i \in 1..(Len(s) + 1)
    BY <1>1 DEF n
  <2>2. QED BY <2>1, InsertAtIs
<1>2. /\ Len(u) = n + 1 /\ u[i] = r
      /\ \A k \in 1..(i - 1) : u[k] = s[k]
      /\ \A k \in (i + 1)..(n + 1) : u[k] = s[k - 1]
  BY <1>0
<1>3. /\ s[1] = Established /\ s[2] = Loopback /\ s[n] = Drop
      /\ \A k \in 1..n : s[k] = Drop => k = n
  BY DEF Framed
<1> HIDE DEF u, n
<1>4. u[1] = s[1] /\ u[2] = s[2]
  BY <1>1, <1>2
<1>5. u[n + 1] = s[n]
  <2>1. n + 1 \in (i + 1)..(n + 1) /\ (n + 1) - 1 = n
    BY <1>1
  <2>2. QED BY <1>2, <2>1
<1>6. ASSUME NEW k \in 1..(n + 1), u[k] = Drop PROVE k = n + 1
  <2>1. k # i
    BY <1>2, <1>6
  <2>2. ASSUME k < i PROVE FALSE
    <3>1. k \in 1..(i - 1) /\ k \in 1..n /\ k # n
      BY <1>1, <2>2
    <3>2. QED BY <1>2, <1>3, <1>6, <3>1
  <2>3. ASSUME k > i PROVE k - 1 = n
    <3>1. k \in (i + 1)..(n + 1) /\ k - 1 \in 1..n
      BY <1>1, <2>3
    <3>2. QED BY <1>2, <1>3, <1>6, <3>1
  <2>4. QED BY <1>1, <2>1, <2>2, <2>3
<1>7. Len(u) >= 3
  BY <1>1, <1>2
<1>8. Framed(u)
  BY <1>2, <1>3, <1>4, <1>5, <1>6, <1>7 DEF Framed
<1>9. QED BY <1>8 DEF u

\* So does deleting a rule of a port.
LEMMA FrameDeleted ==
    ASSUME NEW s \in Seq(Rules), Framed(s), NEW i \in 1..Len(s),
           s[i] # Established, s[i] # Loopback, s[i] # Drop
    PROVE  Framed(RemoveAt(s, i))
<1> DEFINE u == RemoveAt(s, i)
           n == Len(s)
<1>1. n \in Nat /\ n >= 3 /\ i \in 1..n
  BY DEF Framed
<1>2. /\ Len(u) = n - 1
      /\ \A k \in 1..(i - 1) : u[k] = s[k]
      /\ \A k \in i..(n - 1) : u[k] = s[k + 1]
  BY <1>1, RemoveAtIs
<1>3. /\ s[1] = Established /\ s[2] = Loopback /\ s[n] = Drop
      /\ \A k \in 1..n : s[k] = Drop => k = n
  BY DEF Framed
<1> HIDE DEF u, n
<1>4. i # 1 /\ i # 2 /\ i # n
  BY <1>3
<1>5. i \in 3..(n - 1)
  BY <1>1, <1>4
<1>6. u[1] = s[1] /\ u[2] = s[2]
  BY <1>2, <1>5
<1>7. u[n - 1] = s[n]
  <2>1. n - 1 \in i..(n - 1) /\ (n - 1) + 1 = n
    BY <1>1, <1>5
  <2>2. QED BY <1>2, <2>1
<1>8. ASSUME NEW k \in 1..(n - 1), u[k] = Drop PROVE k = n - 1
  <2>1. ASSUME k < i PROVE FALSE
    <3>1. k \in 1..(i - 1) /\ k \in 1..n /\ k # n
      BY <1>1, <1>5, <2>1
    <3>2. QED BY <1>2, <1>3, <1>8, <3>1
  <2>2. ASSUME k >= i PROVE k + 1 = n
    <3>1. k \in i..(n - 1) /\ k + 1 \in 1..n
      BY <1>1, <2>2
    <3>2. QED BY <1>2, <1>3, <1>8, <3>1
  <2>3. QED BY <1>1, <1>5, <2>1, <2>2
<1>9. Len(u) >= 3
  BY <1>1, <1>2, <1>5
<1>10. Framed(u)
  BY <1>2, <1>3, <1>6, <1>7, <1>8, <1>9 DEF Framed
<1>11. QED BY <1>10 DEF u

\* The rules of different protocols and ports differ, and from the others.
LEMMA PortRuleNames ==
    /\ \A a, b, p, q : PortRule(a, p) = PortRule(b, q) => a = b /\ p = q
    /\ \A a \in {"tcp", "udp"} : \A p :
          PortRule(a, p) # Established /\ PortRule(a, p) # Loopback /\ PortRule(a, p) # Drop
    /\ \A a \in {"tcp", "udp"}, p \in Port : PortRule(a, p) \in PortRules /\ PortRule(a, p) \in Rules
<1>1. \A a, b, p, q : PortRule(a, p) = PortRule(b, q) => a = b /\ p = q
  BY DEF PortRule, Rule
<1>2. \A a \in {"tcp", "udp"} : \A p :
         PortRule(a, p) # Established /\ PortRule(a, p) # Loopback /\ PortRule(a, p) # Drop
  BY DEF PortRule, Rule, Established, Loopback, Drop
<1>3. \A a \in {"tcp", "udp"}, p \in Port : PortRule(a, p) \in PortRules /\ PortRule(a, p) \in Rules
  BY RuleTypes DEF PortRules
<1>4. QED BY <1>1, <1>2, <1>3

\* No port: of any.
LEMMA NoneOfAny ==
    /\ \A s, proto, p : Only(s, proto, NoPort) => Only(s, proto, p)
    /\ \A s, proto : Only(s, proto, NoPort) => Exactly(s, proto, NoPort)
    /\ \A s : NoPorts(s) => \A proto \in {"tcp", "udp"} : Exactly(s, proto, NoPort)
<1>1. NoPort \notin Port
  BY ConfigAssumption DEF ConfigAssumption
<1>2. \A s, proto, p : Only(s, proto, NoPort) => Only(s, proto, p)
  BY <1>1 DEF Only
<1>3. \A s, proto : Only(s, proto, NoPort) => Exactly(s, proto, NoPort)
  BY <1>1 DEF Exactly
<1>4. ASSUME NEW s, NoPorts(s), NEW proto \in {"tcp", "udp"} PROVE Only(s, proto, NoPort)
  BY <1>4, PortRuleNames DEF NoPorts, Only
<1>5. QED BY <1>2, <1>3, <1>4

\* Inserting the rule of a port that is the first of its protocol.
LEMMA PortInserted ==
    ASSUME NEW s \in Seq(Rules), Framed(s), NEW proto \in {"tcp", "udp"}, NEW p \in Port,
           Only(s, proto, NoPort)
    PROVE  LET u == InsertAt(s, 3, PortRule(proto, p)) IN
           /\ Framed(u) /\ Exactly(u, proto, p)
           /\ \A other, q : other # proto =>
                 (Only(s, other, q) => Only(u, other, q)) /\ (Exactly(s, other, q) => Exactly(u, other, q))
<1> DEFINE r == PortRule(proto, p)
           u == InsertAt(s, 3, r)
<1>1. r \in Rules /\ r # Drop /\ NoPort \notin Port
  BY PortRuleNames, ConfigAssumption DEF ConfigAssumption
<1>2. Len(s) \in Nat /\ Len(s) >= 3
  BY DEF Framed
<1>3. 3 \in 3..Len(s) /\ 3 \in 1..(Len(s) + 1)
  BY <1>2
<1>4. \A other, q : PortRule(other, q) = r => other = proto /\ q = p
  BY PortRuleNames
<1>5. r = PortRule(proto, p)
  OBVIOUS
<1> HIDE DEF r
<1>6. Framed(u)
  BY <1>1, <1>3, FrameInserted
<1>7. Len(u) = Len(s) + 1 /\ u[3] = r /\ \E f : From(f, u, 3, s)
  BY <1>1, <1>3, InsertShift
<1>8. PICK f : /\ \A k \in 1..Len(u) : k # 3 => f[k] \in 1..Len(s) /\ u[k] = s[f[k]]
               /\ \A k, l \in 1..Len(u) : k # 3 /\ l # 3 /\ f[k] = f[l] => k = l
               /\ \A j \in 1..Len(s) : \E k \in 1..Len(u) : k # 3 /\ f[k] = j
  <2> HIDE DEF u
  <2>1. PICK f : From(f, u, 3, s)
    BY <1>7
  <2>2. QED BY <2>1 DEF From
<1>9. 3 \in 1..Len(u) /\ u[3] = r
  BY <1>2, <1>7
<1> HIDE DEF u
<1>10. Only(u, proto, p)
  <2>1. ASSUME NEW k \in 1..Len(u), NEW q \in Port, u[k] = PortRule(proto, q) PROVE k = 3 /\ q = p
    <3>1. ASSUME k # 3 PROVE FALSE
      <4>1. f[k] \in 1..Len(s) /\ s[f[k]] = PortRule(proto, q)
        BY <1>8, <2>1, <3>1
      <4>2. q = NoPort
        BY <4>1 DEF Only
      <4>3. QED BY <1>1, <4>2
    <3>2. QED BY <1>4, <1>9, <2>1, <3>1
  <2>2. \A k \in 1..Len(u), q \in Port : u[k] = PortRule(proto, q) => k = 3 /\ q = p
    BY <2>1
  <2>3. QED BY <2>2 DEF Only
<1>11. Exactly(u, proto, p)
  BY <1>5, <1>9, <1>10 DEF Exactly
<1>12. ASSUME NEW other, NEW q, other # proto, Only(s, other, q) PROVE Only(u, other, q)
  <2>1. ASSUME NEW k \in 1..Len(u), NEW x \in Port, u[k] = PortRule(other, x) PROVE k # 3
    BY <1>4, <1>9, <1>12, <2>1
  <2>2. ASSUME NEW k \in 1..Len(u), NEW l \in 1..Len(u), NEW x \in Port, u[k] = PortRule(other, x)
        PROVE  x = q /\ (u[l] = u[k] => l = k)
    <3>1. k # 3
      BY <2>1, <2>2
    <3>2. f[k] \in 1..Len(s) /\ s[f[k]] = PortRule(other, x)
      BY <1>8, <2>2, <3>1
    <3>3. x = q /\ \A j \in 1..Len(s) : s[j] = s[f[k]] => j = f[k]
      BY <1>12, <3>2 DEF Only
    <3>4. ASSUME u[l] = u[k] PROVE l = k
      <4>1. l # 3
        BY <2>1, <2>2, <3>4
      <4>2. f[l] \in 1..Len(s) /\ s[f[l]] = s[f[k]]
        BY <1>8, <3>1, <3>4, <4>1
      <4>3. f[l] = f[k]
        BY <3>3, <4>2
      <4>4. QED BY <1>8, <3>1, <4>1, <4>3
    <3>5. QED BY <3>3, <3>4
  <2>3. QED BY <2>2 DEF Only
<1>13. ASSUME NEW other, NEW q, other # proto, Exactly(s, other, q) PROVE Exactly(u, other, q)
  <2>1. Only(u, other, q)
    BY <1>12, <1>13 DEF Exactly
  <2>2. ASSUME q \in Port PROVE \E k \in 1..Len(u) : u[k] = PortRule(other, q)
    <3>1. PICK j \in 1..Len(s) : s[j] = PortRule(other, q)
      BY <1>13, <2>2 DEF Exactly
    <3>2. PICK k \in 1..Len(u) : k # 3 /\ f[k] = j
      BY <1>8, <3>1
    <3>3. QED BY <1>8, <3>1, <3>2
  <2>3. QED BY <2>1, <2>2 DEF Exactly
<1>14. Framed(u) /\ Exactly(u, proto, p)
       /\ \A other, q : other # proto =>
             (Only(s, other, q) => Only(u, other, q)) /\ (Exactly(s, other, q) => Exactly(u, other, q))
  BY <1>6, <1>11, <1>12, <1>13
<1>15. QED BY <1>14 DEF u, r

\* Deleting the rule of a port that is the only one of its protocol.
LEMMA PortDeleted ==
    ASSUME NEW s \in Seq(Rules), Framed(s), NEW proto \in {"tcp", "udp"}, NEW p \in Port,
           Only(s, proto, p), NEW i \in 1..Len(s), s[i] = PortRule(proto, p)
    PROVE  LET u == RemoveAt(s, i) IN
           /\ Framed(u) /\ Only(u, proto, NoPort)
           /\ \A other, q : other # proto => (Only(s, other, q) => Only(u, other, q))
<1> DEFINE u == RemoveAt(s, i)
<1>1. s[i] # Established /\ s[i] # Loopback /\ s[i] # Drop
  BY PortRuleNames
<1>2. Framed(u)
  BY <1>1, FrameDeleted
<1>3. PICK f : /\ \A k \in 1..Len(u) : f[k] \in 1..Len(s) /\ f[k] # i /\ u[k] = s[f[k]]
               /\ \A k, l \in 1..Len(u) : f[k] = f[l] => k = l
  <2> HIDE DEF u
  <2>1. u = RemoveAt(s, i)
    BY DEF u
  <2>2. QED BY ONLY s \in Seq(Rules), i \in 1..Len(s), <2>1, RemoveShift
<1> HIDE DEF u
<1>4. ASSUME NEW k \in 1..Len(u), NEW q \in Port, u[k] = PortRule(proto, q) PROVE FALSE
  <2>1. f[k] \in 1..Len(s) /\ f[k] # i /\ s[f[k]] = PortRule(proto, q)
    BY <1>3, <1>4
  <2>2. q = p
    BY <2>1 DEF Only
  <2>3. s[f[k]] = s[i]
    BY <2>1, <2>2
  <2>4. f[k] = i
    BY <2>1, <2>3 DEF Only
  <2>5. QED BY <2>1, <2>4
<1>5. Only(u, proto, NoPort)
  BY <1>4 DEF Only
<1>6. ASSUME NEW other, NEW q, Only(s, other, q) PROVE Only(u, other, q)
  <2>1. ASSUME NEW k \in 1..Len(u), NEW l \in 1..Len(u), NEW x \in Port, u[k] = PortRule(other, x)
        PROVE  x = q /\ (u[l] = u[k] => l = k)
    <3>1. f[k] \in 1..Len(s) /\ s[f[k]] = PortRule(other, x) /\ f[l] \in 1..Len(s) /\ u[l] = s[f[l]]
      BY <1>3, <2>1
    <3>2. x = q /\ \A j \in 1..Len(s) : s[j] = s[f[k]] => j = f[k]
      BY <1>6, <3>1 DEF Only
    <3>3. u[l] = u[k] => f[l] = f[k]
      BY <2>1, <3>1, <3>2
    <3>4. QED BY <1>3, <3>2, <3>3
  <2>2. QED BY <2>1 DEF Only
<1>7. QED BY <1>2, <1>5, <1>6 DEF u

\* A rule that is not there cannot be deleted, and need not.
LEMMA PortAbsent ==
    ASSUME NEW s \in Seq(Rules), NEW proto, NEW p, Only(s, proto, p),
           PortRule(proto, p) \notin ToSet(s)
    PROVE  Only(s, proto, NoPort)
<1>1. \A i \in 1..Len(s) : s[i] # PortRule(proto, p)
  BY DEF ToSet
<1>2. \A q \in Port, i \in 1..Len(s) : s[i] # PortRule(proto, q)
  BY <1>1 DEF Only
<1>3. QED BY <1>2 DEF Only

\* Adding a rule that opens no port.
LEMMA PlainInserted ==
    ASSUME NEW s \in Seq(Rules), NoPorts(s), NEW r \in Rules, r \notin PortRules, NEW i \in 1..(Len(s) + 1)
    PROVE  NoPorts(InsertAt(s, i, r))
<1> DEFINE u == InsertAt(s, i, r)
<1>1. Len(u) = Len(s) + 1
  BY InsertAtIs
<1>2. ASSUME NEW k \in 1..(Len(s) + 1) PROVE u[k] \notin PortRules
  <2>1. CASE u[k] = r
    BY <2>1
  <2>2. CASE u[k] # r
    <3>1. \E j \in 1..Len(s) : s[j] = u[k]
      BY <2>2, AddedElsewhere
    <3>2. QED BY <3>1 DEF NoPorts
  <2>3. QED BY <2>1, <2>2
<1> HIDE DEF u
<1>3. NoPorts(u)
  BY <1>1, <1>2 DEF NoPorts
<1>4. QED BY <1>3 DEF u

\* The first rules of VPN_IN's baseline.
Begun(s, n) ==
    /\ Len(s) = n
    /\ n >= 1 => s[1] = Established
    /\ n >= 2 => s[2] = Loopback

\* Setup builds VPN_IN rule by rule; from the verification on it stays framed, and
\* Setup itself opens no port.
BuildInv ==
    /\ op = "Setup" /\ todo # << >> =>
          /\ Ran(Setup) = 9 => Begun(chain[ChainIn], 0)
          /\ Ran(Setup) = 10 => Begun(chain[ChainIn], 1)
          /\ Ran(Setup) = 11 => Begun(chain[ChainIn], 2)
          /\ Ran(Setup) >= 12 => Framed(chain[ChainIn]) /\ NoPorts(chain[ChainIn])
    /\ armed = "yes" => Framed(chain[ChainIn]) /\ (op = "Setup" => NoPorts(chain[ChainIn]))

\* A command about something else leaves VPN_IN alone.
LEMMA InKept ==
    ASSUME TypeOK, RunCommand, cmd.do \notin ChainCommands \/ cmd.on # ChainIn
    PROVE  chain'[ChainIn] = chain[ChainIn]
<1>1. ChainEffect
  BY ChainCourse
<1>2. \A s : Becomes(s) /\ cmd.on # ChainIn => chain'[ChainIn] = chain[ChainIn]
  BY ChainNames DEF Becomes
<1>3. CASE cmd.do \notin ChainCommands
  BY <1>1, <1>3 DEF ChainEffect, ChainCommands
<1>4. CASE cmd.on # ChainIn
  BY <1>1, <1>2, <1>4 DEF ChainEffect
<1>5. QED BY <1>3, <1>4

\* Appending to it, up to DROP.
LEMMA Baselined ==
    ASSUME NEW s \in Seq(Rules)
    PROVE  /\ Begun(s, 0) => Begun(Append(s, Established), 1)
           /\ Begun(s, 1) => Begun(Append(s, Loopback), 2)
           /\ Begun(s, 2) => Framed(Append(s, Drop)) /\ NoPorts(Append(s, Drop))
<1>1. Established \in Rules /\ Loopback \in Rules /\ Drop \in Rules
  BY RuleTypes
<1>2. ASSUME NEW r \in Rules
      PROVE  /\ Len(Append(s, r)) = Len(s) + 1 /\ Len(s) \in Nat /\ Append(s, r)[Len(s) + 1] = r
             /\ \A i \in 1..Len(s) : Append(s, r)[i] = s[i]
  BY AppendProperties
<1>3. Begun(s, 0) => Begun(Append(s, Established), 1)
  BY <1>1, <1>2 DEF Begun
<1>4. Begun(s, 1) => Begun(Append(s, Loopback), 2)
  BY <1>1, <1>2 DEF Begun
<1>5. ASSUME Begun(s, 2) PROVE Framed(Append(s, Drop)) /\ NoPorts(Append(s, Drop))
  <2> DEFINE u == Append(s, Drop)
  <2>1. Len(s) = 2 /\ s[1] = Established /\ s[2] = Loopback
    BY <1>5 DEF Begun
  <2>2. Len(u) = 3 /\ u[3] = Drop /\ u[1] = Established /\ u[2] = Loopback
    BY <1>1, <1>2, <2>1
  <2>3. Established # Drop /\ Loopback # Drop
    BY DEF Established, Loopback, Drop, Rule
  <2>4. Established \notin PortRules /\ Loopback \notin PortRules /\ Drop \notin PortRules
    BY PortRuleNames DEF PortRules
  <2> HIDE DEF u
  <2>5. \A i \in 1..Len(u) : i = 1 \/ i = 2 \/ i = 3
    BY <2>2
  <2>6. \A i \in 1..Len(u) : u[i] = Drop => i = Len(u)
    BY <2>2, <2>3, <2>5
  <2>7. Framed(u)
    BY <2>2, <2>6 DEF Framed
  <2>8. NoPorts(u)
    BY <2>2, <2>4, <2>5 DEF NoPorts
  <2>9. QED BY <2>7, <2>8 DEF u
<1>6. QED BY <1>3, <1>4, <1>5

\* The later commands of Setup keep the frame and open no port.
LEMMA LaterIn ==
    ASSUME TypeOK, RunCommand, cmd \in Later, Framed(chain[ChainIn]), NoPorts(chain[ChainIn])
    PROVE  Framed(chain'[ChainIn]) /\ NoPorts(chain'[ChainIn])
<1>1. CASE cmd.do \notin ChainCommands \/ cmd.on # ChainIn
  BY <1>1, InKept
<1>2. CASE cmd.do \in ChainCommands /\ cmd.on = ChainIn
  <2> DEFINE s == chain[ChainIn]
  <2>1. ChainEffect /\ cmd \in Commands /\ cmd.rule \in Rules
    <3>1. ChainEffect /\ cmd \in Commands /\ cmd.do # "port"
      BY <1>2, ChainCourse DEF ChainCommands
    <3>2. QED BY <3>1, CommandParts
  <2>2. cmd.do \notin {"delete", "clear", "new"}
    BY <1>2 DEF Later
  <2>3. cmd.do \in Adds
    BY <1>2, <2>2 DEF ChainCommands, Adds
  <2>4. cmd.do = "beforedrop" /\ cmd.rule # Drop /\ cmd.rule \notin PortRules
    BY <1>2, <2>3 DEF Later
  <2>5. s \in Seq(Rules) /\ Framed(s) /\ NoPorts(s)
    BY ChainNames DEF TypeOK
  <2>6. Len(s) \in 3..Len(s) /\ Len(s) \in 1..(Len(s) + 1)
    BY <2>5 DEF Framed
  <2>7. chain'[ChainIn] = s \/ chain'[ChainIn] = InsertAt(s, Len(s), cmd.rule)
    BY <1>2, <2>1, <2>4 DEF ChainEffect, Becomes
  <2> HIDE DEF s
  <2>8. Framed(InsertAt(s, Len(s), cmd.rule)) /\ NoPorts(InsertAt(s, Len(s), cmd.rule))
    BY <2>1, <2>4, <2>5, <2>6, FrameInserted, PlainInserted
  <2>9. QED BY <2>5, <2>7, <2>8
<1>3. QED BY <1>1, <1>2

\* What one command of Setup that works makes of VPN_IN while it builds it.
LEMMA BuildingIn ==
    ASSUME TypeOK, ScriptInv, BuildInv, RunCommand, op = "Setup", todo' # << >>
    PROVE  /\ Ran(Setup) = 8 => Begun(chain'[ChainIn], 0)
           /\ Ran(Setup) = 9 => Begun(chain'[ChainIn], 1)
           /\ Ran(Setup) = 10 => Begun(chain'[ChainIn], 2)
           /\ Ran(Setup) >= 11 => Framed(chain'[ChainIn]) /\ NoPorts(chain'[ChainIn])
<1>1. ChainEffect /\ todo # << >>
  BY ChainCourse, CommandCaller
<1>2. /\ Ran(Setup) \in Nat
      /\ Ran(Setup) = 8 => cmd = NewChain(ChainIn)
      /\ Ran(Setup) = 9 => cmd = Append_(ChainIn, Established, "return")
      /\ Ran(Setup) = 10 => cmd = Append_(ChainIn, Loopback, "return")
      /\ Ran(Setup) = 11 => cmd = Append_(ChainIn, Drop, "return")
      /\ Ran(Setup) = 12 => cmd = InsertJump(ChainIn)
      /\ Ran(Setup) = 13 => cmd = NewChain(ChainOut)
      /\ Ran(Setup) >= 14 => cmd \in Later
  BY SetupNext
<1>3. cmd.onerr = "return" => ~Failed
  BY DEF Failed
<1>4. ASSUME NEW r, cmd = Append_(ChainIn, r, "return") PROVE chain'[ChainIn] = Append(chain[ChainIn], r)
  <2>1. cmd.do = "append" /\ cmd.on = ChainIn /\ cmd.rule = r /\ cmd.onerr = "return"
    BY <1>4 DEF Append_, Command
  <2>2. QED BY <1>1, <1>3, <2>1 DEF ChainEffect, Becomes, ChainCommands
<1>0. chain[ChainIn] \in Seq(Rules)
  BY ChainNames DEF TypeOK
<1>5. ASSUME Ran(Setup) = 8 PROVE Begun(chain'[ChainIn], 0)
  <2>1. cmd.do = "new" /\ cmd.on = ChainIn /\ cmd.onerr = "return"
    BY <1>2, <1>5 DEF NewChain, Command
  <2>2. chain'[ChainIn] = << >>
    BY <1>1, <1>3, <2>1 DEF ChainEffect, Becomes, ChainCommands
  <2>3. QED BY <2>2 DEF Begun
<1>6. ASSUME Ran(Setup) = 9 PROVE Begun(chain'[ChainIn], 1)
  <2>1. Begun(chain[ChainIn], 0) /\ chain'[ChainIn] = Append(chain[ChainIn], Established)
    BY <1>1, <1>2, <1>4, <1>6 DEF BuildInv
  <2>2. QED BY <1>0, <2>1, Baselined
<1>7. ASSUME Ran(Setup) = 10 PROVE Begun(chain'[ChainIn], 2)
  <2>1. Begun(chain[ChainIn], 1) /\ chain'[ChainIn] = Append(chain[ChainIn], Loopback)
    BY <1>1, <1>2, <1>4, <1>7 DEF BuildInv
  <2>2. QED BY <1>0, <2>1, Baselined
<1>8. ASSUME Ran(Setup) = 11 PROVE Framed(chain'[ChainIn]) /\ NoPorts(chain'[ChainIn])
  <2>1. Begun(chain[ChainIn], 2) /\ chain'[ChainIn] = Append(chain[ChainIn], Drop)
    BY <1>1, <1>2, <1>4, <1>8 DEF BuildInv
  <2>2. QED BY <1>0, <2>1, Baselined
<1>9. ASSUME Ran(Setup) >= 12 PROVE Framed(chain'[ChainIn]) /\ NoPorts(chain'[ChainIn])
  <2>1. Framed(chain[ChainIn]) /\ NoPorts(chain[ChainIn])
    BY <1>1, <1>9 DEF BuildInv
  <2>2. CASE Ran(Setup) >= 14
    BY <1>2, <2>1, <2>2, LaterIn
  <2>3. CASE Ran(Setup) = 12 \/ Ran(Setup) = 13
    <3>1. InsertJump(ChainIn).do \notin ChainCommands /\ NewChain(ChainOut).on # ChainIn
      BY DEF InsertJump, NewChain, Command, ChainCommands, ChainIn, ChainOut
    <3>2. cmd.do \notin ChainCommands \/ cmd.on # ChainIn
      BY <1>2, <2>3, <3>1
    <3>3. QED BY <2>1, <3>2, InKept
  <2>4. QED BY <1>2, <1>9, <2>2, <2>3
<1>10. Ran(Setup) >= 11 => Ran(Setup) = 11 \/ Ran(Setup) >= 12
  BY <1>2
<1>11. QED BY <1>5, <1>6, <1>7, <1>8, <1>9, <1>10

\* Only Setup, Cleanup and the methods for the port have commands about VPN_IN.
LEMMA InElsewhere ==
    ASSUME TypeOK, PhaseInv, ScriptInv, GrantScript, RunCommand,
           op \notin {"Setup", "Cleanup", "AllowPort", "Teardown"}
    PROVE  chain'[ChainIn] = chain[ChainIn]
<1>1. SUFFICES ASSUME cmd.do \in ChainCommands PROVE cmd.on # ChainIn
  BY InKept
<1>2. op = "Exempt" \/ op = "Unexempt"
  BY <1>1, ChainNext
<1>3. /\ \A r, o : Append_(ChainExempt, r, o).on # ChainIn
      /\ NewChain(ChainExempt).on # ChainIn /\ Insert(ChainOut, 1, JumpExempt, "ignore").on # ChainIn
      /\ Delete(ChainOut, JumpExempt).on # ChainIn /\ ClearAndDeleteChain(ChainExempt).on # ChainIn
  BY DEF Append_, NewChain, Insert, Delete, ClearAndDeleteChain, Command, ChainIn, ChainOut, ChainExempt
<1>4. CASE op = "Exempt"
  <2>1. PICK t \in Seq(Commands) : Grants(t) /\ RestOf(todo, t)
    BY <1>4 DEF GrantScript
  <2>2. /\ Ran(t) \in Nat
        /\ Ran(t) = 0 => cmd = NewChain(ChainExempt)
        /\ Ran(t) = 1 => cmd = Insert(ChainOut, 1, JumpExempt, "ignore")
        /\ Ran(t) >= 2 => \E ep \in held, o \in {"return", "ignore"} :
               cmd = Append_(ChainExempt, Exempt(ep), o)
    BY <2>1, ExemptNext
  <2>3. Ran(t) = 0 \/ Ran(t) = 1 \/ Ran(t) >= 2
    BY <2>2
  <2>4. QED BY <1>3, <2>2, <2>3
<1>5. CASE op = "Unexempt"
  <2>1. cmd = Delete(ChainOut, JumpExempt) \/ cmd = ClearAndDeleteChain(ChainExempt)
    BY <1>5, UnexemptNext
  <2>2. QED BY <1>3, <2>1
<1>6. QED BY <1>2, <1>4, <1>5

\* What a command of the port does to VPN_IN.
LEMMA PortCourse ==
    ASSUME TypeOK, RunCommand, NEW r
    PROVE  /\ cmd = Insert(ChainIn, 3, r, "return") =>
                 \/ Failed /\ chain'[ChainIn] = chain[ChainIn]
                 \/ Done /\ chain'[ChainIn] = InsertAt(chain[ChainIn], 3, r)
           /\ cmd = Delete(ChainIn, r) =>
                 \/ Failed /\ chain'[ChainIn] = chain[ChainIn]
                 \/ Done /\ \E i \in 1..Len(chain[ChainIn]) :
                       chain[ChainIn][i] = r /\ chain'[ChainIn] = RemoveAt(chain[ChainIn], i)
<1>1. ChainEffect
  BY ChainCourse
<1>2. CASE cmd = Insert(ChainIn, 3, r, "return")
  <2>1. cmd.do = "insert" /\ cmd.on = ChainIn /\ cmd.pos = 3 /\ cmd.rule = r /\ cmd.onerr = "return"
    BY <1>2 DEF Insert, Command
  <2>2. \/ Failed /\ chain'[ChainIn] = chain[ChainIn]
        \/ Done /\ chain'[ChainIn] = InsertAt(chain[ChainIn], 3, r)
    BY <1>1, <2>1 DEF ChainEffect, Becomes, ChainCommands
  <2>3. cmd # Delete(ChainIn, r)
    BY <2>1 DEF Delete, Command
  <2>4. QED BY <2>2, <2>3
<1>3. CASE cmd = Delete(ChainIn, r)
  <2>1. cmd.do = "delete" /\ cmd.on = ChainIn /\ cmd.rule = r
    BY <1>3 DEF Delete, Command
  <2>2. \/ Failed /\ chain'[ChainIn] = chain[ChainIn]
        \/ Done /\ \E i \in 1..Len(chain[ChainIn]) :
              chain[ChainIn][i] = r /\ chain'[ChainIn] = RemoveAt(chain[ChainIn], i)
    BY <1>1, <2>1 DEF ChainEffect, Becomes, ChainCommands
  <2>3. cmd # Insert(ChainIn, 3, r, "return")
    BY <2>1 DEF Insert, Command
  <2>4. QED BY <2>2, <2>3
<1>4. QED BY <1>2, <1>3

\* The commands of the port keep the frame.
LEMMA PortFramed ==
    ASSUME TypeOK, PhaseInv, ScriptInv, RunCommand, op \in {"AllowPort", "Teardown"}, Framed(chain[ChainIn])
    PROVE  Framed(chain'[ChainIn])
<1> DEFINE s == chain[ChainIn]
<1>1. s \in Seq(Rules) /\ Framed(s)
  BY ChainNames DEF TypeOK
<1>2. CASE cmd.do \notin ChainCommands
  BY <1>2, InKept
<1>3. CASE cmd.do \in ChainCommands
  <2>1. PICK proto \in {"tcp", "udp"} :
           \E p : \/ cmd = Insert(ChainIn, 3, PortRule(proto, p), "return")
                  \/ cmd = Delete(ChainIn, PortRule(proto, p))
    <3>1. CASE op = "AllowPort"
      BY <1>3, <3>1, ChainNext
    <3>2. CASE op = "Teardown"
      BY <1>3, <3>2, ChainNext
    <3>3. QED BY <3>1, <3>2
  <2>0. PICK p : \/ cmd = Insert(ChainIn, 3, PortRule(proto, p), "return")
                 \/ cmd = Delete(ChainIn, PortRule(proto, p))
    BY <2>1
  <2> DEFINE r == PortRule(proto, p)
  <2>2. r # Established /\ r # Loopback /\ r # Drop
    BY PortRuleNames
  <2>3. r \in Rules
    <3>1. cmd.rule = r
      BY <2>0 DEF Insert, Delete, Command
    <3>2. cmd \in Commands /\ cmd.do # "port"
      BY <1>3, ChainCourse DEF ChainCommands
    <3>3. QED BY <3>1, <3>2, CommandParts
  <2>4. \/ chain'[ChainIn] = s \/ chain'[ChainIn] = InsertAt(s, 3, r)
        \/ \E i \in 1..Len(s) : s[i] = r /\ chain'[ChainIn] = RemoveAt(s, i)
    BY <2>0, PortCourse
  <2> HIDE DEF s, r
  <2>5. 3 \in 3..Len(s)
    BY <1>1 DEF Framed
  <2>6. Framed(InsertAt(s, 3, r))
    BY <1>1, <2>2, <2>3, <2>5, FrameInserted
  <2>7. \A i \in 1..Len(s) : s[i] = r => Framed(RemoveAt(s, i))
    BY <1>1, <2>2, FrameDeleted
  <2>8. QED BY <1>1, <2>4, <2>6, <2>7
<1>4. QED BY <1>2, <1>3

\* Every step keeps the frame.
LEMMA BuildStep ==
    ASSUME TypeOK, PhaseInv, ScriptInv, GrantScript, EndInv, BuildInv, Next
    PROVE  BuildInv'
<1>1. CASE RunCommand
  <2>1. UNCHANGED op /\ todo # << >>
    BY <1>1, CommandCaller
  <2>2. CASE op = "Setup"
    <3>1. ASSUME todo' # << >>
          PROVE  /\ Len(Setup) - Len(todo') = 9 => Begun(chain'[ChainIn], 0)
                 /\ Len(Setup) - Len(todo') = 10 => Begun(chain'[ChainIn], 1)
                 /\ Len(Setup) - Len(todo') = 11 => Begun(chain'[ChainIn], 2)
                 /\ Len(Setup) - Len(todo') >= 12 => Framed(chain'[ChainIn]) /\ NoPorts(chain'[ChainIn])
      <4>1. Len(Setup) - Len(todo') = Ran(Setup) + 1 /\ Ran(Setup) \in Nat
        BY <1>1, <2>2, <3>1, SetupNext
      <4>2. /\ Ran(Setup) + 1 = 9 => Ran(Setup) = 8
            /\ Ran(Setup) + 1 = 10 => Ran(Setup) = 9
            /\ Ran(Setup) + 1 = 11 => Ran(Setup) = 10
            /\ Ran(Setup) + 1 >= 12 => Ran(Setup) >= 11
        BY <4>1
      <4>3. /\ Ran(Setup) = 8 => Begun(chain'[ChainIn], 0)
            /\ Ran(Setup) = 9 => Begun(chain'[ChainIn], 1)
            /\ Ran(Setup) = 10 => Begun(chain'[ChainIn], 2)
            /\ Ran(Setup) >= 11 => Framed(chain'[ChainIn]) /\ NoPorts(chain'[ChainIn])
        BY <1>1, <2>2, <3>1, BuildingIn
      <4>4. QED BY <4>1, <4>2, <4>3
    <3>2. ASSUME armed' = "yes" PROVE Framed(chain'[ChainIn]) /\ NoPorts(chain'[ChainIn])
      <4>1. Ran(Setup) >= 14
        BY <1>1, <2>1, <2>2, <3>2, Arming DEF EndInv
      <4>2. Ran(Setup) \in Nat /\ cmd \in Later
        BY <1>1, <2>2, <4>1, SetupNext
      <4>3. Ran(Setup) >= 12
        BY <4>1, <4>2
      <4>4. Framed(chain[ChainIn]) /\ NoPorts(chain[ChainIn])
        BY <2>1, <2>2, <4>3 DEF BuildInv
      <4>5. QED BY <1>1, <4>2, <4>4, LaterIn
    <3>3. QED BY <2>1, <3>1, <3>2 DEF BuildInv, Ran
  <2>3. CASE op # "Setup"
    <3>1. SUFFICES ASSUME armed' = "yes" PROVE Framed(chain'[ChainIn])
      BY <2>1, <2>3 DEF BuildInv
    <3>2. op # "Cleanup" /\ armed = "yes"
      BY <1>1, <2>3, <3>1, Arming
    <3>3. Framed(chain[ChainIn])
      BY <3>2 DEF BuildInv
    <3>4. CASE op \in {"AllowPort", "Teardown"}
      BY <1>1, <3>3, <3>4, PortFramed
    <3>5. CASE op \notin {"AllowPort", "Teardown"}
      BY <1>1, <2>3, <3>2, <3>3, <3>5, InElsewhere
    <3>6. QED BY <3>4, <3>5
  <2>4. QED BY <2>2, <2>3
<1>2. CASE StartSetup
  <2>1. op' = "Setup" /\ todo' = Setup /\ armed' # "yes"
    BY <1>2 DEF StartSetup, Call
  <2>2. Len(Setup) - Len(todo') = 0
    <3>1. Setup \in Seq(Commands)
      BY ScriptTypes
    <3>2. Len(Setup) \in Nat
      BY <3>1
    <3>3. QED BY <2>1, <3>2
  <2>3. QED BY <2>1, <2>2 DEF BuildInv, Ran
<1>3. CASE ~RunCommand /\ ~StartSetup
  <2>1. chain' = chain
    BY <1>3, CallerFrame
  <2>2. op' # "Setup"
    BY <1>3 DEF Next, Progress, SetupReturns, OpenExemption, OpenExemptions,
       CloseExemptions, BeginRoutes, BeginForward, Announce, BeginTeardown, ExemptReturns,
       UnexemptReturns, RoutesReturn, ForwardReturns, AnnounceReturns, TeardownReturns,
       BeginConnect, LeaveServices, BeginCleanup, CleanupReturns, ErrorExit, Crash, Dies,
       Stopped, Call, Returns, vars, call, Idle, PhaseInv, Down
  <2>3. armed' = "yes" => armed = "yes"
    BY <1>3 DEF Next, Progress, SetupReturns, OpenExemption, OpenExemptions,
       CloseExemptions, BeginRoutes, BeginForward, Announce, BeginTeardown, ExemptReturns,
       UnexemptReturns, RoutesReturn, ForwardReturns, AnnounceReturns, TeardownReturns,
       BeginConnect, LeaveServices, BeginCleanup, CleanupReturns, ErrorExit, Crash, Dies,
       Stopped, Call, Returns, vars
  <2>4. QED BY <2>1, <2>2, <2>3 DEF BuildInv
<1>4. QED BY <1>1, <1>2, <1>3

\* The rules of VPN_IN while AllowForwardedPort, with n commands left, replaces the
\* port old by p; while teardown, with n left, removes it.
Switching(s, n, old, p) ==
    /\ n = 5 => Only(s, "tcp", old) /\ Only(s, "udp", old)
    /\ n = 4 => Only(s, "tcp", NoPort) /\ Only(s, "udp", old)
    /\ n = 3 => Only(s, "tcp", NoPort) /\ Only(s, "udp", NoPort)
    /\ n = 2 => Exactly(s, "tcp", p) /\ Only(s, "udp", NoPort)
    /\ n = 1 => Exactly(s, "tcp", p) /\ Exactly(s, "udp", p)
    /\ n = 0 => Exactly(s, "tcp", p) /\ Exactly(s, "udp", p) /\ old = p
Closing(s, n, old) ==
    /\ n = 3 \/ n = 2 => Only(s, "tcp", old) /\ Only(s, "udp", old)
    /\ n = 1 => Only(s, "tcp", NoPort) /\ Only(s, "udp", old)
    /\ n = 0 => Only(s, "tcp", NoPort) /\ Only(s, "udp", NoPort)

\* As long as no command has failed, the rules are those of the announced port;
\* activePort is that one, or the port of a teardown, whose rules are gone.
PortInv ==
    armed = "yes" /\ failures = 0 /\ phase # "down" =>
        /\ op \notin {"AllowPort", "Teardown"} =>
              /\ Exactly(chain[ChainIn], "tcp", announced)
              /\ Exactly(chain[ChainIn], "udp", announced)
        /\ op # "AllowPort" => announced \in {NoPort, activePort}
        /\ op = "AllowPort" => Switching(chain[ChainIn], Len(todo), activePort, announced)
        /\ op = "Teardown" => Closing(chain[ChainIn], Len(todo), activePort)

\* A rule of the port that is deleted.
LEMMA DeletingPort ==
    ASSUME TypeOK, RunCommand, failures' # failures + 1, Framed(chain[ChainIn]),
           NEW proto \in {"tcp", "udp"}, NEW p \in Port, Only(chain[ChainIn], proto, p),
           cmd = Delete(ChainIn, PortRule(proto, p))
    PROVE  /\ todo' = Tail(todo) /\ Only(chain'[ChainIn], proto, NoPort)
           /\ \A other, q : other # proto /\ Only(chain[ChainIn], other, q) => Only(chain'[ChainIn], other, q)
<1> DEFINE s == chain[ChainIn]
           r == PortRule(proto, p)
<1>1. s \in Seq(Rules)
  BY ChainNames DEF TypeOK
<1>2. cmd.do = "delete" /\ cmd.on = ChainIn /\ cmd.rule = r /\ cmd.onerr = "ignore"
  BY DEF Delete, Command
<1>3. \/ Failed /\ chain'[ChainIn] = s
      \/ Done /\ \E i \in 1..Len(s) : s[i] = r /\ chain'[ChainIn] = RemoveAt(s, i)
  BY PortCourse
<1>4. CASE Failed /\ chain'[ChainIn] = s
  <2>1. ~Works(cmd) /\ todo' = Tail(todo)
    BY <1>2, <1>4 DEF Failed
  <2>2. r \notin ToSet(s)
    BY <1>2, <2>1 DEF Works
  <2>3. Only(s, proto, NoPort)
    BY <1>1, <2>2, PortAbsent
  <2>4. QED BY <1>4, <2>1, <2>3
<1>5. CASE Done /\ \E i \in 1..Len(s) : s[i] = r /\ chain'[ChainIn] = RemoveAt(s, i)
  <2>1. PICK i \in 1..Len(s) : s[i] = r /\ chain'[ChainIn] = RemoveAt(s, i)
    BY <1>5
  <2>2. /\ Only(RemoveAt(s, i), proto, NoPort)
        /\ \A other, q : other # proto => (Only(s, other, q) => Only(RemoveAt(s, i), other, q))
    BY <1>1, <2>1, PortDeleted
  <2>3. QED BY <1>5, <2>1, <2>2 DEF Done
<1>6. QED BY <1>3, <1>4, <1>5

\* A rule of the port that is inserted: there is a chain and a place for it.
LEMMA InsertingPort ==
    ASSUME TypeOK, WiredExist, Closed, armed = "yes", RunCommand, failures' # failures + 1,
           Framed(chain[ChainIn]),
           NEW proto \in {"tcp", "udp"}, NEW p \in Port, Only(chain[ChainIn], proto, NoPort),
           cmd = Insert(ChainIn, 3, PortRule(proto, p), "return")
    PROVE  /\ todo' = Tail(todo) /\ Exactly(chain'[ChainIn], proto, p)
           /\ \A other, q : other # proto =>
                 /\ Only(chain[ChainIn], other, q) => Only(chain'[ChainIn], other, q)
                 /\ Exactly(chain[ChainIn], other, q) => Exactly(chain'[ChainIn], other, q)
<1> DEFINE s == chain[ChainIn]
           r == PortRule(proto, p)
<1>1. s \in Seq(Rules)
  BY ChainNames DEF TypeOK
<1>2. cmd.do = "insert" /\ cmd.on = ChainIn /\ cmd.pos = 3 /\ cmd.rule = r
  BY DEF Insert, Command
<1>3. \/ Failed /\ chain'[ChainIn] = s
      \/ Done /\ chain'[ChainIn] = InsertAt(s, 3, r)
  BY PortCourse
<1>4. ASSUME Failed PROVE FALSE
  <2>1. ~Works(cmd)
    BY <1>4 DEF Failed
  <2>2. ChainIn \in exists
    BY DEF Closed, WiredExist, BaseChains
  <2>3. 3 \in 1..(Len(chain[ChainIn]) + 1)
    BY <1>1 DEF Framed
  <2>4. r # JumpExempt
    BY DEF PortRule, JumpExempt, Rule
  <2>5. QED BY <1>2, <2>1, <2>2, <2>3, <2>4 DEF Works
<1>5. Done /\ chain'[ChainIn] = InsertAt(s, 3, r)
  BY <1>3, <1>4
<1>6. /\ Exactly(InsertAt(s, 3, r), proto, p)
      /\ \A other, q : other # proto =>
            /\ Only(s, other, q) => Only(InsertAt(s, 3, r), other, q)
            /\ Exactly(s, other, q) => Exactly(InsertAt(s, 3, r), other, q)
  BY <1>1, PortInserted
<1>7. QED BY <1>5, <1>6 DEF Done

\* The assignment to activePort does not fail.
LEMMA AssigningPort ==
    ASSUME TypeOK, RunCommand, NEW p, cmd = SetActivePort(p)
    PROVE  todo' = Tail(todo) /\ activePort' = p /\ chain' = chain
<1>1. cmd.do = "port" /\ cmd.rule.arg = p
  BY DEF SetActivePort, Command, Rule
<1>2. RunField
  BY <1>1 DEF RunCommand, RunNewChain, RunAppend, RunInsert, RunInsertBeforeDrop, RunDelete,
         RunClear, RunWire, RunRule, RunMangle, RunVerify, FailCommand,
         FailClear, FailFlush, Fails, Local, Runs
<1>3. QED BY <1>1, <1>2 DEF RunField, Runs, kernel

\* The commands of AllowForwardedPort replace the port.
LEMMA SwitchingStep ==
    ASSUME TypeOK, WiredExist, Closed, ScriptInv, armed = "yes", RunCommand, failures' # failures + 1,
           Framed(chain[ChainIn]), op = "AllowPort",
           Switching(chain[ChainIn], Len(todo), activePort, announced)
    PROVE  Switching(chain'[ChainIn], Len(todo'), activePort', announced)
<1> DEFINE s == chain[ChainIn]
           u == chain'[ChainIn]
<1>0. PICK n, a, p : n = Len(todo) /\ a = activePort /\ p = announced
  OBVIOUS
<1>1. /\ todo # << >> /\ todo \in Seq(Commands) /\ Len(Tail(todo)) = n - 1 /\ a \in Port \cup {NoPort}
  BY <1>0, CommandCaller, Rest DEF TypeOK
<1>2. /\ p \in Port /\ n \in 1..5 /\ (a = NoPort => n \in 1..3)
      /\ n = 1 => cmd = SetActivePort(p)
      /\ n = 2 => cmd = Insert(ChainIn, 3, PortRule("udp", p), "return")
      /\ n = 3 => cmd = Insert(ChainIn, 3, PortRule("tcp", p), "return")
      /\ n = 4 => cmd = Delete(ChainIn, PortRule("udp", a))
      /\ n = 5 => cmd = Delete(ChainIn, PortRule("tcp", a))
  BY <1>0, <1>1, AllowNext
<1>3. Switching(s, n, a, p)
  BY <1>0
<1>4. ASSUME n # 1 PROVE activePort' = a
  <2>1. \A r : Insert(ChainIn, 3, r, "return").do # "port" /\ Delete(ChainIn, r).do # "port"
    BY DEF Insert, Delete, Command
  <2>2. n = 2 \/ n = 3 \/ n = 4 \/ n = 5
    BY <1>2, <1>4
  <2>3. cmd.do # "port"
    BY <1>2, <2>1, <2>2
  <2>4. QED BY <1>0, <2>3, FieldCourse
<1>5. ASSUME todo' = Tail(todo) PROVE Len(todo') = n - 1
  BY <1>1, <1>5
<1>6. SUFFICES Switching(u, Len(todo'), activePort', p)
  BY <1>0
<1> HIDE DEF u
<1>7. CASE n = 5
  <2>1. a \in Port
    BY <1>1, <1>2, <1>7
  <2>2. Only(s, "tcp", a) /\ Only(s, "udp", a)
    BY <1>3, <1>7 DEF Switching
  <2>3. cmd = Delete(ChainIn, PortRule("tcp", a))
    BY <1>2, <1>7
  <2>4. todo' = Tail(todo) /\ Only(u, "tcp", NoPort) /\ Only(u, "udp", a)
    BY <2>1, <2>2, <2>3, DeletingPort DEF u
  <2>5. Len(todo') = 4 /\ activePort' = a
    BY <1>4, <1>5, <1>7, <2>4
  <2>6. Switching(u, 4, a, p)
    BY <2>4 DEF Switching
  <2>7. QED BY <2>5, <2>6 DEF u
<1>8. CASE n = 4
  <2>1. a \in Port
    BY <1>1, <1>2, <1>8
  <2>2. Only(s, "tcp", NoPort) /\ Only(s, "udp", a)
    BY <1>3, <1>8 DEF Switching
  <2>3. cmd = Delete(ChainIn, PortRule("udp", a))
    BY <1>2, <1>8
  <2>4. todo' = Tail(todo) /\ Only(u, "tcp", NoPort) /\ Only(u, "udp", NoPort)
    BY <2>1, <2>2, <2>3, DeletingPort DEF u
  <2>5. Len(todo') = 3 /\ activePort' = a
    BY <1>4, <1>5, <1>8, <2>4
  <2>6. Switching(u, 3, a, p)
    BY <2>4 DEF Switching
  <2>7. QED BY <2>5, <2>6 DEF u
<1>9. CASE n = 3
  <2>1. Only(s, "tcp", NoPort) /\ Only(s, "udp", NoPort)
    BY <1>3, <1>9 DEF Switching
  <2>2. cmd = Insert(ChainIn, 3, PortRule("tcp", p), "return")
    BY <1>2, <1>9
  <2>3. todo' = Tail(todo) /\ Exactly(u, "tcp", p) /\ Only(u, "udp", NoPort)
    BY <1>2, <2>1, <2>2, InsertingPort DEF u
  <2>4. Len(todo') = 2 /\ activePort' = a
    BY <1>4, <1>5, <1>9, <2>3
  <2>5. Switching(u, 2, a, p)
    BY <2>3 DEF Switching
  <2>6. QED BY <2>4, <2>5 DEF u
<1>10. CASE n = 2
  <2>1. Exactly(s, "tcp", p) /\ Only(s, "udp", NoPort)
    BY <1>3, <1>10 DEF Switching
  <2>2. cmd = Insert(ChainIn, 3, PortRule("udp", p), "return")
    BY <1>2, <1>10
  <2>3. todo' = Tail(todo) /\ Exactly(u, "udp", p) /\ Exactly(u, "tcp", p)
    BY <1>2, <2>1, <2>2, InsertingPort DEF u
  <2>4. Len(todo') = 1 /\ activePort' = a
    BY <1>4, <1>5, <1>10, <2>3
  <2>5. Switching(u, 1, a, p)
    BY <2>3 DEF Switching
  <2>6. QED BY <2>4, <2>5 DEF u
<1>11. CASE n = 1
  <2>1. Exactly(s, "tcp", p) /\ Exactly(s, "udp", p)
    BY <1>3, <1>11 DEF Switching
  <2>2. cmd = SetActivePort(p)
    BY <1>2, <1>11
  <2>3. todo' = Tail(todo) /\ activePort' = p /\ u = s
    BY <2>2, AssigningPort DEF u
  <2>4. Len(todo') = 0
    BY <1>5, <1>11, <2>3
  <2>5. Switching(u, 0, p, p)
    BY <2>1, <2>3 DEF Switching
  <2>6. QED BY <2>3, <2>4, <2>5 DEF u
<1>12. n = 1 \/ n = 2 \/ n = 3 \/ n = 4 \/ n = 5
  BY <1>2
<1>13. QED BY <1>7, <1>8, <1>9, <1>10, <1>11, <1>12

\* Those of teardown remove it.
LEMMA ClosingStep ==
    ASSUME TypeOK, ScriptInv, RunCommand, failures' # failures + 1,
           Framed(chain[ChainIn]), op = "Teardown", Closing(chain[ChainIn], Len(todo), activePort)
    PROVE  Closing(chain'[ChainIn], Len(todo'), activePort')
<1> DEFINE s == chain[ChainIn]
           u == chain'[ChainIn]
<1>0. PICK n, a : n = Len(todo) /\ a = activePort
  OBVIOUS
<1>1. /\ todo # << >> /\ todo \in Seq(Commands) /\ Len(Tail(todo)) = n - 1 /\ a \in Port \cup {NoPort}
  BY <1>0, CommandCaller, Rest DEF TypeOK
<1>2. /\ n \in 1..3 /\ (a = NoPort => n = 1)
      /\ a = NoPort => cmd = RuleDel("pia75", PFGateway)
      /\ a # NoPort /\ n = 1 => cmd = Delete(ChainIn, PortRule("udp", a))
      /\ n = 2 => cmd = Delete(ChainIn, PortRule("tcp", a))
      /\ n = 3 => cmd = RuleDel("pia75", PFGateway)
  BY <1>0, <1>1, TeardownNext
<1>3. Closing(s, n, a)
  BY <1>0
<1>4. n = 1 \/ n = 2 \/ n = 3
  BY <1>2
<1>5. activePort' = a
  <2>1. \A r : RuleDel("pia75", PFGateway).do # "port" /\ Delete(ChainIn, r).do # "port"
    BY DEF RuleDel, Delete, Command
  <2>2. cmd.do # "port"
    BY <1>2, <1>4, <2>1
  <2>3. QED BY <1>0, <2>2, FieldCourse
<1>6. ASSUME todo' = Tail(todo) PROVE Len(todo') = n - 1
  BY <1>1, <1>6
<1>7. ASSUME cmd = RuleDel("pia75", PFGateway) PROVE todo' = Tail(todo) /\ u = s
  <2>1. cmd.do \notin ChainCommands /\ cmd.onerr # "return"
    BY <1>7 DEF RuleDel, Command, ChainCommands
  <2>2. todo' = Tail(todo)
    BY <2>1, ErrorCourse
  <2>3. QED BY <2>1, <2>2, InKept
<1> HIDE DEF u
<1>8. CASE n = 3
  <2>1. Only(s, "tcp", a) /\ Only(s, "udp", a) /\ todo' = Tail(todo) /\ u = s
    BY <1>2, <1>3, <1>7, <1>8 DEF Closing
  <2>2. Len(todo') = 2
    BY <1>6, <1>8, <2>1
  <2>3. Closing(u, 2, a)
    BY <2>1 DEF Closing
  <2>4. QED BY <1>5, <2>2, <2>3 DEF u
<1>9. CASE n = 2
  <2>1. Only(s, "tcp", a) /\ Only(s, "udp", a) /\ a \in Port
    BY <1>1, <1>2, <1>3, <1>9 DEF Closing
  <2>2. cmd = Delete(ChainIn, PortRule("tcp", a))
    BY <1>2, <1>9
  <2>3. todo' = Tail(todo) /\ Only(u, "tcp", NoPort) /\ Only(u, "udp", a)
    BY <2>1, <2>2, DeletingPort DEF u
  <2>4. Len(todo') = 1
    BY <1>6, <1>9, <2>3
  <2>5. Closing(u, 1, a)
    BY <2>3 DEF Closing
  <2>6. QED BY <1>5, <2>4, <2>5 DEF u
<1>10. CASE n = 1 /\ a # NoPort
  <2>1. Only(s, "tcp", NoPort) /\ Only(s, "udp", a) /\ a \in Port
    BY <1>1, <1>3, <1>10 DEF Closing
  <2>2. cmd = Delete(ChainIn, PortRule("udp", a))
    BY <1>2, <1>10
  <2>3. todo' = Tail(todo) /\ Only(u, "udp", NoPort) /\ Only(u, "tcp", NoPort)
    BY <2>1, <2>2, DeletingPort DEF u
  <2>4. Len(todo') = 0
    BY <1>6, <1>10, <2>3
  <2>5. Closing(u, 0, a)
    BY <2>3 DEF Closing
  <2>6. QED BY <1>5, <2>4, <2>5 DEF u
<1>11. CASE n = 1 /\ a = NoPort
  <2>1. Only(s, "tcp", NoPort) /\ Only(s, "udp", NoPort) /\ todo' = Tail(todo) /\ u = s
    BY <1>2, <1>3, <1>7, <1>11 DEF Closing
  <2>2. Len(todo') = 0
    BY <1>6, <1>11, <2>1
  <2>3. Closing(u, 0, a)
    BY <2>1 DEF Closing
  <2>4. QED BY <1>5, <2>2, <2>3 DEF u
<1>12. QED BY <1>4, <1>8, <1>9, <1>10, <1>11

\* Commands keep the rules to the announced port.
LEMMA PortCommand ==
    ASSUME TypeOK, WiredExist, Closed, PhaseInv, CourseInv, ScriptInv, GrantScript, EndInv, BuildInv,
           PortInv, RunCommand, BuildInv'
    PROVE  PortInv'
<1>1. UNCHANGED <<op, phase, announced>> /\ todo # << >>
  BY CommandCaller
<1>2. op # "none" /\ op \in Op
  BY <1>1 DEF PhaseInv, TypeOK
<1>3. SUFFICES ASSUME armed' = "yes", failures' = 0, phase # "down"
      PROVE  /\ op \notin {"AllowPort", "Teardown"} =>
                   /\ Exactly(chain'[ChainIn], "tcp", announced)
                   /\ Exactly(chain'[ChainIn], "udp", announced)
             /\ op # "AllowPort" => announced \in {NoPort, activePort'}
             /\ op = "AllowPort" => Switching(chain'[ChainIn], Len(todo'), activePort', announced)
             /\ op = "Teardown" => Closing(chain'[ChainIn], Len(todo'), activePort')
  BY <1>1 DEF PortInv
<1>4. failures = 0 /\ failures' # failures + 1
  <2>1. failures \in Nat
    BY BoundAssumption DEF TypeOK, BoundAssumption
  <2>2. QED BY <1>3, <2>1, FailureCount
<1>5. op # "Cleanup" /\ (op # "Setup" => armed = "yes")
  BY <1>3, Arming
<1>6. op # "AllowPort" => announced = NoPort
  BY <1>2 DEF CourseInv, PhaseInv, Op
<1>7. CASE op = "Setup"
  <2>1. NoPorts(chain'[ChainIn])
    BY <1>1, <1>3, <1>7 DEF BuildInv
  <2>2. \A proto \in {"tcp", "udp"} : Exactly(chain'[ChainIn], proto, NoPort)
    BY <2>1, NoneOfAny
  <2>3. QED BY <1>6, <1>7, <2>2
<1>8. CASE op = "AllowPort"
  <2>1. armed = "yes" /\ Switching(chain[ChainIn], Len(todo), activePort, announced)
    BY <1>3, <1>4, <1>5, <1>8 DEF PortInv
  <2>2. Framed(chain[ChainIn])
    BY <2>1 DEF BuildInv
  <2>3. Switching(chain'[ChainIn], Len(todo'), activePort', announced)
    BY <1>4, <1>8, <2>1, <2>2, SwitchingStep
  <2>4. QED BY <1>8, <2>3
<1>9. CASE op = "Teardown"
  <2>1. armed = "yes" /\ Closing(chain[ChainIn], Len(todo), activePort)
    BY <1>3, <1>4, <1>5, <1>9 DEF PortInv
  <2>2. Framed(chain[ChainIn])
    BY <2>1 DEF BuildInv
  <2>3. Closing(chain'[ChainIn], Len(todo'), activePort')
    BY <1>4, <1>9, <2>1, <2>2, ClosingStep
  <2>4. QED BY <1>6, <1>9, <2>3
<1>10. CASE op \notin {"Setup", "AllowPort", "Teardown"}
  <2>1. chain'[ChainIn] = chain[ChainIn]
    BY <1>5, <1>10, InElsewhere
  <2>2. Exactly(chain[ChainIn], "tcp", announced) /\ Exactly(chain[ChainIn], "udp", announced)
    BY <1>3, <1>4, <1>5, <1>10 DEF PortInv
  <2>3. QED BY <1>6, <1>10, <2>1, <2>2
<1>11. QED BY <1>7, <1>8, <1>9, <1>10

\* Calls and returns keep them: a port is announced, or given up, only when the
\* method that replaced the last one has returned.
LEMMA PortCaller ==
    ASSUME TypeOK, PhaseInv, CourseInv, PortInv, Next, ~RunCommand
    PROVE  PortInv'
<1>1. UNCHANGED <<chain, failures>>
  BY CallerFrame
<1> DEFINE s == chain[ChainIn]
           Held(q) == Exactly(s, "tcp", q) /\ Exactly(s, "udp", q)
<1>2. SUFFICES ASSUME armed' = "yes", failures = 0, phase' # "down"
      PROVE  /\ op' \notin {"AllowPort", "Teardown"} => Held(announced')
             /\ op' # "AllowPort" => announced' \in {NoPort, activePort'}
             /\ op' = "AllowPort" => Switching(s, Len(todo'), activePort', announced')
             /\ op' = "Teardown" => Closing(s, Len(todo'), activePort')
  BY <1>1 DEF PortInv
<1> HIDE DEF s, Held
<1>3. ASSUME armed = "yes", phase # "down"
      PROVE  /\ op \notin {"AllowPort", "Teardown"} => Held(announced)
             /\ op # "AllowPort" => announced \in {NoPort, activePort}
             /\ op = "AllowPort" => Switching(s, Len(todo), activePort, announced)
             /\ op = "Teardown" => Closing(s, Len(todo), activePort)
  BY <1>2, <1>3 DEF PortInv, s, Held
<1>4. activePort \in Port \cup {NoPort} /\ todo \in Seq(Commands)
  BY DEF TypeOK
<1>5. ASSUME armed = "yes", phase # "down", op = "none"
      PROVE  Only(s, "tcp", activePort) /\ Only(s, "udp", activePort)
  <2>1. Held(announced) /\ announced \in {NoPort, activePort}
    BY <1>3, <1>5
  <2>2. Only(s, "tcp", announced) /\ Only(s, "udp", announced)
    BY <2>1 DEF Held, Exactly
  <2>3. QED BY <2>1, <2>2, NoneOfAny
<1>6. CASE StartSetup
  BY <1>2, <1>6 DEF StartSetup
<1>7. CASE BeginCleanup
  BY <1>2, <1>7 DEF BeginCleanup
<1>8. CASE ErrorExit \/ Crash
  BY <1>2, <1>8 DEF ErrorExit, Crash, Dies
<1>9. CASE Stopped
  <2>1. UNCHANGED <<op, todo, armed, phase, announced, activePort>>
    BY <1>9 DEF Stopped, vars, call, caller, fields
  <2>2. QED BY <1>2, <1>3, <2>1
<1>10. CASE Announce
  <2>1. PICK p \in Port : announced' = p /\ todo' = AllowForwardedPort(activePort, p)
    BY <1>10 DEF Announce, Call
  <2>2. op' = "AllowPort" /\ activePort' = activePort /\ armed = "yes" /\ phase = "forward" /\ op = "none"
    BY <1>2, <1>10 DEF Announce, Call, fields, Idle
  <2>3. Len(todo') = (IF activePort = NoPort THEN 3 ELSE 5)
    BY <1>4, <2>1, PortScriptsAt
  <2>4. Only(s, "tcp", activePort) /\ Only(s, "udp", activePort)
    BY <1>5, <2>2
  <2>5. CASE activePort = NoPort
    <3>1. Switching(s, 3, activePort, p)
      BY <2>4, <2>5 DEF Switching
    <3>2. QED BY <2>1, <2>2, <2>3, <2>5, <3>1
  <2>6. CASE activePort # NoPort
    <3>1. Switching(s, 5, activePort, p)
      BY <2>4 DEF Switching
    <3>2. QED BY <2>1, <2>2, <2>3, <2>6, <3>1
  <2>7. QED BY <2>5, <2>6
<1>11. CASE AnnounceReturns
  <2>1. /\ op = "AllowPort" /\ todo = << >> /\ op' = "none"
        /\ UNCHANGED <<activePort, armed, phase, announced>>
    BY <1>11 DEF AnnounceReturns, Returns, caller, fields
  <2>2. Len(todo) = 0
    BY <2>1
  <2>3. Switching(s, 0, activePort, announced)
    BY <1>2, <1>3, <2>1, <2>2
  <2>4. Held(announced) /\ activePort = announced
    BY <2>3 DEF Switching, Held
  <2>5. QED BY <2>1, <2>4
<1>12. CASE BeginTeardown
  <2>1. /\ announced' = NoPort /\ todo' = teardown(activePort) /\ op' = "Teardown"
        /\ activePort' = activePort /\ armed = "yes" /\ phase = "forward" /\ op = "none"
    BY <1>2, <1>12 DEF BeginTeardown, Call, fields, Idle
  <2>2. Len(todo') = (IF activePort = NoPort THEN 1 ELSE 3)
    BY <1>4, <2>1, PortScriptsAt
  <2>3. Only(s, "tcp", activePort) /\ Only(s, "udp", activePort)
    BY <1>5, <2>1
  <2>4. CASE activePort = NoPort
    <3>1. Closing(s, 1, activePort)
      BY <2>3, <2>4 DEF Closing
    <3>2. QED BY <2>1, <2>2, <2>4, <3>1
  <2>5. CASE activePort # NoPort
    <3>1. Closing(s, 3, activePort)
      BY <2>3 DEF Closing
    <3>2. QED BY <2>1, <2>2, <2>5, <3>1
  <2>6. QED BY <2>4, <2>5
<1>13. CASE TeardownReturns
  <2>1. /\ op = "Teardown" /\ todo = << >> /\ op' = "none" /\ armed = "yes"
        /\ UNCHANGED <<activePort, announced>>
    BY <1>2, <1>13 DEF TeardownReturns, Returns, fields
  <2>2. Len(todo) = 0 /\ phase = "forward" /\ announced = NoPort
    BY <2>1 DEF CourseInv
  <2>3. Closing(s, 0, activePort)
    BY <1>3, <2>1, <2>2
  <2>4. Only(s, "tcp", NoPort) /\ Only(s, "udp", NoPort)
    BY <2>3 DEF Closing
  <2>5. Held(NoPort)
    BY <2>4, NoneOfAny DEF Held
  <2>6. QED BY <2>1, <2>2, <2>5
<1>14. CASE \/ SetupReturns \/ OpenExemption \/ OpenExemptions \/ ExemptReturns \/ CloseExemptions
            \/ UnexemptReturns \/ BeginConnect \/ BeginRoutes \/ RoutesReturn \/ BeginForward
            \/ ForwardReturns \/ LeaveServices \/ CleanupReturns
  <2> DEFINE Ports == {"AllowPort", "Teardown"}
  <2>1. CASE \/ SetupReturns \/ ExemptReturns \/ UnexemptReturns \/ RoutesReturn
             \/ ForwardReturns \/ CleanupReturns
    <3>1. /\ op \notin Ports /\ op # "none" /\ op' = "none"
          /\ UNCHANGED <<activePort, announced, armed>>
      BY <2>1 DEF SetupReturns, ExemptReturns, UnexemptReturns, RoutesReturn,
              ForwardReturns, CleanupReturns, Returns, fields
    <3>2. phase # "down"
      BY <3>1 DEF PhaseInv, Down
    <3>3. QED BY <1>2, <1>3, <3>1, <3>2
  <2>2. CASE \/ OpenExemption \/ OpenExemptions \/ CloseExemptions \/ BeginConnect
             \/ BeginRoutes \/ BeginForward \/ LeaveServices
    <3>1. /\ op = "none" /\ phase # "down" /\ op' \notin Ports
          /\ UNCHANGED <<activePort, announced, armed>>
      BY <2>2 DEF OpenExemption, OpenExemptions, CloseExemptions, BeginConnect,
              BeginRoutes, BeginForward, LeaveServices, Call, Idle, fields, call, caller
    <3>2. QED BY <1>2, <1>3, <3>1
  <2>3. QED BY <1>14, <2>1, <2>2
<1>15. QED
  BY <1>6, <1>7, <1>8, <1>9, <1>10, <1>11, <1>12, <1>13, <1>14 DEF Next, Progress

\* The rules of VPN_IN decide which port is open: nothing before the rule of a
\* port drops its packets, and no other rule accepts them.
LEMMA ExactlyAnnounced ==
    ASSUME TypeOK, Contents, Closed, BuildInv, PortInv
    PROVE  ForwardedPortExact
<1> SUFFICES ASSUME armed = "yes", Idle, failures = 0, NEW p \in Port, NEW proto \in {"tcp", "udp"}
    PROVE  Passes(ChainIn, PortRule(proto, p)) <=> p = announced
  BY DEF ForwardedPortExact
<1> DEFINE s == chain[ChainIn]
           r == PortRule(proto, p)
<1>1. Framed(s) /\ Exactly(s, proto, announced)
  BY DEF BuildInv, PortInv, Idle
<1>2. s \in Seq(Rules) /\ s \in Seq(Allowed(ChainIn)) /\ chain[ChainExempt] \in Seq(Endpoints)
  BY ChainNames DEF TypeOK, Contents, Allowed
<1>3. ChainIn \in wired /\ chainHasDrop(ChainIn)
  BY ChainNames DEF Closed
<1>4. r # Drop /\ r \notin Endpoints
  BY DEF PortRule, Drop, Endpoints, Exempt, Rule
<1>5. r \notin ToSet(chain[ChainExempt])
  <2>1. \A i \in 1..Len(chain[ChainExempt]) : chain[ChainExempt][i] \in Endpoints
    BY <1>2, ElementOfSeq
  <2>2. QED BY <1>2, <1>4, <2>1 DEF ToSet
<1>6. DOMAIN s = 1..Len(s) /\ Len(s) \in Nat
  BY <1>2
<1>7. Passes(ChainIn, r) <=> \E i \in 1..Len(s) : s[i] = r /\ \A j \in 1..(i - 1) : s[j] # Drop
  BY <1>3, <1>5, <1>6 DEF Passes, Matches
<1> HIDE DEF s, r
<1>8. ASSUME NEW i \in 1..Len(s), s[i] = r PROVE \A j \in 1..(i - 1) : s[j] # Drop
  <2>1. s[Len(s)] = Drop /\ \A j \in 1..Len(s) : s[j] = Drop => j = Len(s)
    BY <1>1 DEF Framed
  <2>2. \A n \in Nat : \A m \in 1..n : \A j \in 1..(m - 1) : j \in 1..n /\ j # n
    OBVIOUS
  <2>3. QED BY <1>6, <2>1, <2>2
<1>9. (\E i \in 1..Len(s) : s[i] = r) <=> p = announced
  <2>1. \A q \in Port, i \in 1..Len(s) : s[i] = PortRule(proto, q) => q = announced
    BY <1>1 DEF Exactly, Only
  <2>2. announced \in Port => \E i \in 1..Len(s) : s[i] = PortRule(proto, announced)
    BY <1>1 DEF Exactly
  <2>3. QED BY <2>1, <2>2 DEF r
<1>10. QED BY <1>7, <1>8, <1>9 DEF r

-----------------------------------------------------------------------------
(* The invariants of the whole program.                                    *)

\* What the invariants below rest on: the killswitch's own, the callers' course
\* and the rest of the running script.
CallInv == DenyInv /\ PhaseInv /\ CourseInv /\ ScriptInv

\* At the start no script runs.
LEMMA CallInit == Init => CallInv
<1>1. Init => PhaseInv
  BY DEF Init, PhaseInv, Down
<1>2. Init => CourseInv /\ ScriptInv
  BY DEF Init, CourseInv, ScriptInv
<1>3. QED BY <1>1, <1>2, DenyInit DEF CallInv

\* Every step takes the next command of the running script, or is a call or
\* return at the callers' place.
LEMMA CallStep ==
    ASSUME CallInv, Next
    PROVE  CallInv'
<1>1. DenyInv'
  BY TypeCommand, TypeCaller, DenyCommand, DenyCaller DEF CallInv, DenyInv
<1>2. PhaseInv'
  BY PhaseCommand, PhaseCaller DEF CallInv
<1>3. CourseInv'
  BY CourseStep DEF CallInv
<1>4. TypeOK
  BY DEF CallInv, DenyInv
<1>5. ScriptInv'
  BY <1>4, ScriptCommand, ScriptCaller DEF CallInv
<1>6. QED BY <1>1, <1>2, <1>3, <1>5 DEF CallInv

\* The program is always within its scripts and its callers' course.
LEMMA CallAlways == Spec => []CallInv
<1>1. CallInv /\ UNCHANGED vars => CallInv'
  <2> SUFFICES ASSUME CallInv, UNCHANGED vars PROVE CallInv'
    OBVIOUS
  <2>1. DenyInv'
    BY DEF CallInv, vars, DenyInv, TypeOK, Contents, WiredExist, Closed, chainHasDrop, TodoInv,
           VerifiedThenSafe, kernel, fields, call, caller, budgets
  <2>2. PhaseInv'
    BY DEF CallInv, vars, PhaseInv, Down, Awaited, call, caller
  <2>3. CourseInv'
    BY DEF CallInv, vars, CourseInv, call, caller
  <2>4. ScriptInv'
    BY DEF CallInv, vars, ScriptInv, call, caller, fields, RestOf
  <2>5. QED BY <2>1, <2>2, <2>3, <2>4 DEF CallInv
<1>2. CallInv /\ [Next]_vars => CallInv'
  BY <1>1, CallStep
<1>3. QED BY <1>2, CallInit, PTL DEF Spec

\* TunnelDNSGuarded: while the services run in pia mode, every DNS server of the
\* connection has its route through the tunnel and its guard, whatever commands
\* failed before and while port forwarding adds and removes its own route.
THEOREM DNSStaysGuarded == Spec => []TunnelDNSGuarded
<1>1. Init => DNSInv
  BY DEF Init, DNSInv, TunnelDNSGuarded
<1>2. CallInv /\ DNSInv /\ [Next]_vars => DNSInv'
  <2> SUFFICES ASSUME CallInv, DNSInv, [Next]_vars PROVE DNSInv'
    OBVIOUS
  <2>1. CASE UNCHANGED vars
    BY <2>1 DEF vars, DNSInv, TunnelDNSGuarded, Ran, Routed, kernel, call, caller
  <2>2. CASE Next
    BY <2>2, DNSCommand, DNSCaller DEF CallInv, DenyInv
  <2>3. QED BY <2>1, <2>2
<1>3. DNSInv => TunnelDNSGuarded
  BY DEF DNSInv
<1>4. QED BY <1>1, <1>2, <1>3, CallAlways, PTL DEF Spec

\* The chain of the exemptions in the whole program's life.
ChainInv == GrantScript /\ EndInv /\ JumpInv

\* Every step keeps the scripts of exemptions, their errors and the jump.
LEMMA ChainAlways == Spec => [](CallInv /\ ChainInv)
<1>1. Init => ChainInv
  <2> SUFFICES ASSUME Init PROVE ChainInv
    OBVIOUS
  <2>1. GrantScript /\ EndInv
    BY DEF Init, GrantScript, EndInv
  <2>2. chain[ChainOut] = << >> /\ op = "none"
    BY ChainNames DEF Init
  <2>3. JumpInv
    BY <2>2 DEF JumpInv, Jump
  <2>4. QED BY <2>1, <2>3 DEF ChainInv
<1>2. CallInv /\ ChainInv /\ [Next]_vars => ChainInv'
  <2> SUFFICES ASSUME CallInv, ChainInv, [Next]_vars PROVE ChainInv'
    OBVIOUS
  <2> USE DEF ChainInv
  <2>1. CASE UNCHANGED vars
    <3>1. UNCHANGED <<chain, exists, op, todo, err, held, armed>>
      BY <2>1 DEF vars, kernel, call, caller
    <3>2. GrantScript' /\ EndInv'
      BY <3>1 DEF GrantScript, Grants, EndInv, Ran
    <3>3. JumpInv'
      BY <3>1 DEF JumpInv, Jump, Ran, cmd
    <3>4. QED BY <3>2, <3>3
  <2>2. CASE Next
    <3>1. TypeOK /\ PhaseInv /\ ScriptInv
      BY DEF CallInv, DenyInv
    <3>2. GrantScript' /\ EndInv'
      BY <2>2, <3>1, GrantScriptStep, EndStep
    <3>3. JumpInv'
      BY <2>2, <3>1, JumpCommand, JumpCaller
    <3>4. QED BY <3>2, <3>3
  <2>3. QED BY <2>1, <2>2
<1>3. QED BY <1>1, <1>2, CallAlways, PTL DEF Spec

\* CleanExitRemovesAll: a clean shutdown leaves no chain, jump, routing rule or
\* MSS clamping rule of the program in the kernel, nor any that a process that
\* crashed before had left, as long as no command has failed.
THEOREM CleanExit == Spec => []CleanExitRemovesAll
<1>1. Init => CleanInv
  BY DEF Init, CleanInv, CleanExitRemovesAll
<1>2. (CallInv /\ ChainInv) /\ CleanInv /\ [Next]_vars => CleanInv'
  <2> SUFFICES ASSUME CallInv, ChainInv, CleanInv, [Next]_vars PROVE CleanInv'
    OBVIOUS
  <2>1. CASE UNCHANGED vars
    <3>1. UNCHANGED <<chain, exists, wired, iprules, mangle, op, todo, phase, failures>>
      BY <2>1 DEF vars, kernel, call, caller, budgets
    <3>2. \A c : Undone(c)' <=> Undone(c)
      BY <3>1 DEF Undone, Jump
    <3>3. CleanExitRemovesAll' <=> CleanExitRemovesAll
      BY <3>1 DEF CleanExitRemovesAll
    <3>4. QED BY <3>1, <3>2, <3>3 DEF CleanInv, Ran
  <2>2. CASE Next
    BY <2>2, CleanCommand, CleanCaller DEF CallInv, DenyInv, ChainInv
  <2>3. QED BY <2>1, <2>2
<1>3. CleanInv => CleanExitRemovesAll
  BY DEF CleanInv
<1>4. QED BY <1>1, <1>2, <1>3, ChainAlways, PTL DEF Spec

\* ExemptionsExact: with the killswitch armed and at most one command failed, an
\* endpoint gets through only under the scope that is open for it; and as long as
\* none has failed, an exemption that was granted is reached before DROP, also
\* when a crash has left the chain of another behind.
THEOREM ExemptionsStayExact == Spec => []ExemptionsExact
<1>1. Init => ScopeInv /\ OpenInv
  BY DEF Init, ScopeInv, OpenInv
<1>2. (CallInv /\ ChainInv) /\ (ScopeInv /\ OpenInv) /\ [Next]_vars => (ScopeInv /\ OpenInv)'
  <2> SUFFICES ASSUME CallInv, ChainInv, ScopeInv, OpenInv, [Next]_vars PROVE (ScopeInv /\ OpenInv)'
    OBVIOUS
  <2>1. CASE UNCHANGED vars
    <3>1. UNCHANGED <<chain, exists, op, todo, err, held, armed, phase, failures>>
      BY <2>1 DEF vars, kernel, call, caller, budgets
    <3>2. ScopeInv'
      BY <3>1 DEF ScopeInv, Shut, Empty, Jump, Opened, cmd
    <3>3. (Jump' <=> Jump) /\ (\A q : Opened(q)' <=> Opened(q)) /\ \A t : Grants(t)' <=> Grants(t)
      BY <3>1 DEF Jump, Opened, Grants
    <3>4. \A t : Granted(t)' <=> Granted(t)
      BY <3>1, <3>3 DEF Granted, Ran
    <3>5. OpenInv'
      BY <3>1, <3>3, <3>4 DEF OpenInv
    <3>6. QED BY <3>2, <3>5
  <2>2. CASE Next
    <3>1. /\ TypeOK /\ Contents /\ WiredExist /\ Closed /\ PhaseInv /\ CourseInv /\ ScriptInv
          /\ GrantScript /\ JumpInv /\ EndInv
      BY DEF CallInv, DenyInv, ChainInv
    <3>2. ScopeInv'
      BY <2>2, <3>1, ScopeCommand, ScopeCaller
    <3>3. OpenInv'
      BY <2>2, <3>1, OpenCommand, OpenCaller
    <3>4. QED BY <3>2, <3>3
  <2>3. QED BY <2>1, <2>2
<1>3. CallInv /\ ChainInv /\ ScopeInv /\ OpenInv => ExemptionsExact
  BY ExactlyHeld DEF CallInv, DenyInv, ChainInv
<1>4. QED BY <1>1, <1>2, <1>3, ChainAlways, PTL DEF Spec

\* ForwardedPortExact: between the calls of a process with the killswitch armed,
\* as long as no command has failed, the announced port and no other is open, on
\* TCP and on UDP: across renewals that change it, after a crash that left the
\* rules of another behind, and none after teardown.
THEOREM ForwardedPortStaysExact == Spec => []ForwardedPortExact
<1>1. Init => BuildInv /\ PortInv
  BY DEF Init, BuildInv, PortInv
<1>2. (CallInv /\ ChainInv) /\ (BuildInv /\ PortInv) /\ [Next]_vars => (BuildInv /\ PortInv)'
  <2> SUFFICES ASSUME CallInv, ChainInv, BuildInv, PortInv, [Next]_vars PROVE (BuildInv /\ PortInv)'
    OBVIOUS
  <2>1. CASE UNCHANGED vars
    <3>1. UNCHANGED <<chain, op, todo, armed, phase, failures, announced, activePort>>
      BY <2>1 DEF vars, kernel, call, caller, budgets, fields
    <3>2. BuildInv'
      BY <3>1 DEF BuildInv, Ran
    <3>3. PortInv'
      BY <3>1 DEF PortInv
    <3>4. QED BY <3>2, <3>3
  <2>2. CASE Next
    <3>1. /\ TypeOK /\ WiredExist /\ Closed /\ PhaseInv /\ CourseInv /\ ScriptInv
          /\ GrantScript /\ EndInv
      BY DEF CallInv, DenyInv, ChainInv
    <3>2. BuildInv'
      BY <2>2, <3>1, BuildStep
    <3>3. PortInv'
      BY <2>2, <3>1, <3>2, PortCommand, PortCaller
    <3>4. QED BY <3>2, <3>3
  <2>3. QED BY <2>1, <2>2
<1>3. CallInv /\ BuildInv /\ PortInv => ForwardedPortExact
  BY ExactlyAnnounced DEF CallInv, DenyInv
<1>4. QED BY <1>1, <1>2, <1>3, ChainAlways, PTL DEF Spec
=============================================================================
