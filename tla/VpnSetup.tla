------------------------------ MODULE VpnSetup ------------------------------
(***************************************************************************)
(* A connection attempt (vpn.Setup) and the data it lives on: the cache of *)
(* internal/cacher (login token, addresses, servers), the token file that  *)
(* outlives the process, the cacher that refreshes all of it while a       *)
(* connection lasts, and port forwarding, which presents the cached token. *)
(*                                                                         *)
(* PIA's side is the world at generation gen: the addresses its hosts      *)
(* resolve to and its server list, which both change while old answers are *)
(* still cached.  A server or address of an old generation that the        *)
(* current one does not have does not answer.  Time is in units of an hour *)
(* and one attempt, or one round of port forwarding's retries, is shorter  *)
(* than a unit.                                                            *)
(***************************************************************************)
EXTENDS Naturals, Sequences, FiniteSets, SequencesExt

CONSTANTS
    Modes,         \* how the server is chosen: "location", "all", "dip", "manual"
    Regions,       \* PIA_LOCATIONS, unless it is "all"
    PFRequired,    \* PF_ENABLED
    DIPRegion,     \* region of the dedicated IP
    AuthAnswers,   \* generation -> addresses of the login host
    ListAnswers,   \* generation -> addresses of the serverlist host
    Lists,         \* generation -> server list: sequence of Server records
    MaxCachedIPs,  \* maxCachedIPs
    MaxTokenAge,   \* maxTokenAge
    TokenLife,     \* age from which PIA refuses a token
    MaxTokens,     \* bound: tokens PIA issues
    MaxTime,       \* bound: units of time
    MaxFaults,     \* bound: failures nothing else in the model explains
    MaxCrashes,    \* bound: deaths of the process
    MaxStarts      \* bound: starts of the process

ASSUME WorldAssumption ==
    /\ Len(Lists) \in Nat \ {0}
    /\ Len(AuthAnswers) = Len(Lists) /\ Len(ListAnswers) = Len(Lists)
    /\ \A g \in 1..Len(Lists) :
          /\ AuthAnswers[g] # << >> /\ AuthAnswers[g] \in Seq(ToSet(AuthAnswers[g]))
          /\ ListAnswers[g] # << >> /\ ListAnswers[g] \in Seq(ToSet(ListAnswers[g]))
          /\ Lists[g] # << >> /\ Lists[g] \in Seq(ToSet(Lists[g]))

ASSUME CacheAssumption == MaxCachedIPs \in Nat \ {0}

ASSUME AgeAssumption ==
    MaxTokenAge \in Nat \ {0} /\ TokenLife \in Nat /\ TokenLife > MaxTokenAge

VARIABLES
    token, tokenTime,             \* Cache.Token (0 is ""), Cache.TokenTime
    authIPs, listIPs, servers,    \* the other fields of Cache; empty is nil
    file,                         \* /run/pia-tun/token
    pc, tok, srv,                 \* Setup, its token and its server
    pf,                           \* port forwarding: idle, or asking for a signature
    cacher, attempt,              \* cacher.Run and its attempt of a refresh
    cancelled,                    \* the connection's context is
    mode, now, gen,               \* configuration, clock, PIA's generation
    born, revoked,                \* token -> time of issue; tokens PIA refuses
    forgotten,                    \* history: tokens ClearToken has removed
    authGen, listGen,             \* history: generation last merged into the cache
    failed, began,                \* history: of the attempts in a row
    ticked,                       \* the clock has moved since the attempt or round began
    faults, crashes, starts

cache == <<token, tokenTime, authIPs, listIPs, servers>>
setup == <<pc, tok, srv>>
services == <<pf, cacher, attempt, cancelled>>
world == <<mode, now, gen, born, revoked, ticked>>
history == <<forgotten, authGen, listGen>>
streak == <<failed, began>>
budgets == <<faults, crashes, starts>>
vars == <<cache, file, setup, services, world, history, streak, budgets>>

Tokens == 1..MaxTokens
NoServer == [cn |-> "none", region |-> "none", pf |-> FALSE, ip |-> 0]

\* Contents of the token file: no file; less than two lines; a token and a
\* timestamp that lost digits; both lines.
NoFile == [kind |-> "none", token |-> 0, time |-> 0]
Torn == [kind |-> "torn", token |-> 0, time |-> 0]
Short(t) == [kind |-> "short", token |-> t, time |-> 0]
Whole(t, time) == [kind |-> "whole", token |-> t, time |-> time]

Alive == pc # "off"

Init ==
    /\ token = 0 /\ tokenTime = 0 /\ authIPs = << >> /\ listIPs = << >> /\ servers = << >>
    /\ file = NoFile
    /\ pc = "off" /\ tok = 0 /\ srv = NoServer /\ failed = FALSE /\ began = 0
    /\ pf = "idle" /\ cacher = "idle" /\ attempt = 0 /\ cancelled = FALSE
    /\ mode \in Modes /\ now = 0 /\ gen = 1 /\ born = << >> /\ revoked = {} /\ ticked = FALSE
    /\ forgotten = {} /\ authGen = 0 /\ listGen = 0
    /\ faults = 0 /\ crashes = 0 /\ starts = 0

-----------------------------------------------------------------------------
(* The cache.                                                              *)

\* Appends what is not there yet: the loops over seen.
AddNew(seq, new) ==
    FoldLeft(LAMBDA acc, ip : IF ip \in ToSet(acc) THEN acc ELSE Append(acc, ip), seq, new)

\* Mutant: the cached addresses stay in front.
mergeIPsBehind(existing, newIPs) ==
    LET merged == AddNew(AddNew(<< >>, existing), newIPs)
    IN  IF Len(merged) > MaxCachedIPs THEN SubSeq(merged, 1, MaxCachedIPs) ELSE merged

mergeIPs(existing, newIPs) ==
    LET merged == AddNew(AddNew(<< >>, newIPs), existing)
    IN  IF Len(merged) > MaxCachedIPs THEN SubSeq(merged, 1, MaxCachedIPs) ELSE merged

\* A server is known by its CN: it is replaced in place or appended.
MergeServers(existing, newServers) ==
    FoldLeft(LAMBDA acc, s :
                IF \E i \in DOMAIN acc : acc[i].cn = s.cn
                  THEN [i \in DOMAIN acc |-> IF acc[i].cn = s.cn THEN s ELSE acc[i]]
                  ELSE Append(acc, s),
             existing, newServers)

TokenFresh == token # 0 /\ now - tokenTime < MaxTokenAge

\* Mutant: a file that does not parse is taken at its word.
NewTrusting ==
    /\ IF file.kind \in {"short", "whole"} /\ now - file.time <= MaxTokenAge
         THEN token' = file.token /\ tokenTime' = now
         ELSE token' = 0 /\ tokenTime' = 0
    /\ UNCHANGED file

\* cacher.New and readTokenFile.  Fewer than two lines are refused; of a
\* timestamp that lost digits a second long ago is left, older than any token.
New ==
    IF file.kind = "whole" /\ now - file.time <= MaxTokenAge
      THEN token' = file.token /\ tokenTime' = file.time /\ UNCHANGED file
      ELSE /\ token' = 0 /\ tokenTime' = 0
           /\ file' = IF file.kind = "torn" THEN file ELSE NoFile

Fault == faults < MaxFaults /\ faults' = faults + 1 /\ UNCHANGED <<crashes, starts>>
NoFault == UNCHANGED budgets

\* SetToken: os.WriteFile, whose error is only logged, then the fields.
SetToken(t) ==
    /\ token' = t /\ tokenTime' = now
    /\ \/ file' = Whole(t, now) /\ NoFault
       \/ file' \in {Torn, Short(t), file} /\ Fault

\* Mutant: the file stays.
ClearTokenCached ==
    /\ token' = 0 /\ tokenTime' = 0
    /\ UNCHANGED file /\ NoFault /\ forgotten' = forgotten \cup {tok}

\* Mutant: the rejected token stays.
ClearTokenNot == UNCHANGED <<token, tokenTime, file, forgotten>> /\ NoFault

\* ClearToken: os.Remove, whose error is ignored, then the fields.
ClearToken ==
    /\ token' = 0 /\ tokenTime' = 0
    /\ \/ file' = NoFile /\ NoFault /\ forgotten' = forgotten \cup {tok}
       \/ UNCHANGED <<file, forgotten>> /\ Fault

-----------------------------------------------------------------------------
(* The world.                                                              *)

Issue == Len(born) < MaxTokens /\ born' = Append(born, now)
Issued == 1..Len(born)
Accepts(t) == t \notin revoked /\ now - born[t] < TokenLife
LiveServer(s) == s = NoServer \/ s \in ToSet(Lists[gen])    \* NoServer: manual or dedicated
Live(ips, answers) == \E i \in DOMAIN ips : ips[i] \in ToSet(answers[gen])

\* What the requests of internal/pia come to when nothing fails that the model
\* does not explain.  Addresses are tried in turn.  An address that does not
\* answer is an error, a refused token is fatal to ResolveDIP and
\* ErrTokenRejected to AddKey; AddKeyDIP presents the token of the dedicated IP.
GenerateToken(ips) == IF Live(ips, AuthAnswers) THEN "ok" ELSE "error"
FetchServerList(ips) == IF Live(ips, ListAnswers) THEN "ok" ELSE "error"
ResolveDIP(ips, t) ==
    IF ~Live(ips, AuthAnswers) THEN "error" ELSE IF Accepts(t) THEN "ok" ELSE "fatal"
AddKey(s, t) ==
    IF ~LiveServer(s) THEN "error" ELSE IF Accepts(t) THEN "ok" ELSE "rejected"
AddKeyDIP(s) == IF LiveServer(s) THEN "ok" ELSE "error"

-----------------------------------------------------------------------------
(* Setup.  The exemption around every request is in modules Firewall and   *)
(* Lifecycle; one that cannot be opened is a failure like any other.       *)

\* The history of the attempts in a row: how much the world has done to them
\* when the first one began, and whether one has failed.
Disturbances == faults + gen
Begin == began' = Disturbances /\ failed' = FALSE
Over == began' = 0 /\ failed' = FALSE

At(label) == pc = label /\ UNCHANGED <<services, mode, now, gen, revoked, ticked>>
Goto(label) == pc' = label /\ UNCHANGED streak

\* The attempt ends: with an error that is retried, or with a fatal one.
Fail == pc' = "retry" /\ failed' = TRUE /\ UNCHANGED began /\ tok' = 0 /\ srv' = NoServer
Fatal == pc' = "off" /\ Over /\ tok' = 0 /\ srv' = NoServer
Unexplained == Fault /\ (Fail \/ Fatal)

getToken ==
    /\ At("token") /\ NoFault
    /\ IF TokenFresh THEN tok' = token /\ Goto("servers") ELSE Goto("auth") /\ UNCHANGED tok
    /\ UNCHANGED <<cache, file, srv, born, history>>

\* Mutant: no fall back on DNS when there were cached addresses.
authenticateCachedOnly ==
    /\ At("auth") /\ UNCHANGED <<cache, file, history>>
    /\ \/ /\ GenerateToken(authIPs) = "ok" /\ NoFault /\ Issue
          /\ tok' = Len(born') /\ Goto("persist") /\ UNCHANGED srv
       \/ /\ authIPs = << >> /\ NoFault
          /\ Goto("resolve") /\ UNCHANGED <<tok, srv, born>>
       \/ /\ authIPs # << >> /\ GenerateToken(authIPs) = "error" /\ NoFault
          /\ Fail /\ UNCHANGED born

\* authenticate tries the cached addresses, then those DNS gives; a refused
\* login is fatal, a rate limit is retried after an hour.
authenticate ==
    /\ At("auth") /\ UNCHANGED <<cache, file, history>>
    /\ \/ /\ GenerateToken(authIPs) = "ok" /\ NoFault /\ Issue
          /\ tok' = Len(born') /\ Goto("persist") /\ UNCHANGED srv
       \/ /\ GenerateToken(authIPs) = "error" /\ NoFault
          /\ Goto("resolve") /\ UNCHANGED <<tok, srv, born>>
       \/ /\ GenerateToken(authIPs) = "ok" /\ Fault
          /\ Goto("resolve") /\ UNCHANGED <<tok, srv, born>>
       \/ authIPs # << >> /\ UNCHANGED born /\ Unexplained

authenticateResolved ==
    /\ At("resolve") /\ UNCHANGED <<token, tokenTime, listIPs, servers, file, forgotten, listGen>>
    /\ \/ /\ authIPs' = mergeIPs(authIPs, AuthAnswers[gen]) /\ authGen' = gen
          /\ \/ Issue /\ NoFault /\ tok' = Len(born') /\ Goto("persist") /\ UNCHANGED srv
             \/ UNCHANGED born /\ Unexplained
       \/ UNCHANGED <<authIPs, authGen, born>> /\ Fault /\ Fail

\* The token is in hand; SetToken.
StoreToken ==
    /\ At("persist") /\ SetToken(tok) /\ Goto("servers")
    /\ UNCHANGED <<authIPs, listIPs, servers, tok, srv, born, history>>

\* The switch on the configured way to choose a server.
Selected(m) == CASE m = "dip" -> "dip" [] m = "manual" -> "addkey" [] OTHER -> "select"

\* getServers, unless there is a list: resolve if no address is cached, fetch
\* from the cached addresses, drop them if none answers.
getServers ==
    /\ At("servers") /\ UNCHANGED <<token, tokenTime, authIPs, file, born, forgotten, authGen>>
    /\ LET ips == IF listIPs = << >> THEN mergeIPs(<< >>, ListAnswers[gen]) ELSE listIPs
       IN  \/ /\ servers # << >> /\ NoFault
              /\ Goto(Selected(mode)) /\ UNCHANGED <<listIPs, servers, listGen, tok, srv>>
           \/ /\ servers = << >> /\ FetchServerList(ips) = "ok" /\ NoFault
              /\ listIPs' = ips /\ servers' = MergeServers(servers, Lists[gen])
              /\ listGen' = gen
              /\ Goto(Selected(mode)) /\ UNCHANGED <<tok, srv>>
           \/ /\ servers = << >> /\ FetchServerList(ips) = "error" /\ NoFault
              /\ listIPs' = << >> /\ Fail /\ UNCHANGED <<servers, listGen>>
           \/ /\ servers = << >> /\ Fault
              /\ listIPs' = << >> /\ Fail /\ UNCHANGED <<servers, listGen>>

\* PIA_LOCATIONS.
Locations == IF mode = "all" THEN {"all"} ELSE Regions

filterServers(list, locations, pfRequired) ==
    SelectSeq(list, LAMBDA s : /\ "all" \in locations \/ s.region \in locations
                               /\ pfRequired => s.pf)

\* onePerRegion keeps the first server of every region.
onePerRegion(list) ==
    FoldLeft(LAMBDA acc, s : IF \E i \in DOMAIN acc : acc[i].region = s.region
                               THEN acc ELSE Append(acc, s),
             << >>, list)

candidates ==
    LET matching == filterServers(servers, Locations, PFRequired)
    IN  IF mode = "all" THEN onePerRegion(matching) ELSE matching

\* selectServer and raceServers: without a candidate the configuration is at
\* fault, or with "all" the attempt fails; else one that answered wins, or the
\* first if none did in time.
selectServer ==
    /\ At("select") /\ UNCHANGED <<cache, file, born, history>>
    /\ LET live == {i \in DOMAIN candidates : LiveServer(candidates[i])}
       IN  \/ /\ candidates = << >> /\ NoFault
              /\ IF mode = "all" THEN Fail ELSE Fatal
           \/ /\ \E i \in live : srv' = candidates[i]
              /\ NoFault /\ Goto("addkey") /\ UNCHANGED tok
           \/ /\ candidates # << >> /\ live = {} /\ NoFault
              /\ srv' = candidates[1] /\ Goto("addkey") /\ UNCHANGED tok
           \/ /\ live # {} /\ Fault
              /\ srv' = candidates[1] /\ Goto("addkey") /\ UNCHANGED tok
           \/ candidates # << >> /\ Fault /\ Fail

\* resolveDIP asks the cached addresses of the login host and no others; a
\* refused token is fatal, and it stays in the cache and in the file.
resolveDIP ==
    /\ At("dip") /\ UNCHANGED <<cache, file, born, history>>
    /\ LET pfAvailable == \E i \in DOMAIN servers :
                             /\ servers[i].region = DIPRegion /\ servers[i].pf
                             /\ \A j \in 1..(i - 1) : servers[j].region # DIPRegion
           answer == ResolveDIP(authIPs, tok)
       IN  \/ /\ answer = "ok" /\ NoFault
              /\ IF PFRequired /\ ~pfAvailable
                   THEN Fatal ELSE Goto("addkey") /\ UNCHANGED <<tok, srv>>
           \/ answer = "fatal" /\ NoFault /\ Fatal
           \/ answer = "error" /\ NoFault /\ Fail
           \/ answer # "error" /\ Unexplained

\* GenerateKeyPair, then AddKey with the login token, or AddKeyDIP with the
\* token of the dedicated IP.  ErrTokenRejected, which is also any status but
\* OK, clears the cached login token in either case.
addKey ==
    /\ At("addkey") /\ UNCHANGED <<authIPs, listIPs, servers, born, authGen, listGen>>
    /\ LET answer == IF mode = "dip" THEN AddKeyDIP(srv) ELSE AddKey(srv, tok)
       IN  \/ /\ answer = "ok" /\ NoFault
              /\ Goto("wgup") /\ UNCHANGED <<token, tokenTime, file, forgotten, tok, srv>>
           \/ answer = "rejected" /\ ClearToken /\ Fail
           \/ /\ answer = "ok" /\ Fault
              /\ token' = 0 /\ tokenTime' = 0 /\ file' = NoFile
              /\ forgotten' = forgotten \cup {tok} /\ Fail
           \/ /\ answer = "error" /\ NoFault
              /\ Fail /\ UNCHANGED <<token, tokenTime, file, forgotten>>
           \/ Unexplained /\ UNCHANGED <<token, tokenTime, file, forgotten>>

\* wg.Up and the rest of connect: see modules WireGuard and Lifecycle.  The
\* services start.
wgUp ==
    /\ At("wgup") /\ UNCHANGED <<cache, file, born, history>>
    /\ \/ NoFault /\ pc' = "up" /\ Over /\ tok' = 0 /\ srv' = NoServer
       \/ Unexplained

\* retryWithWANCheck calls connect again.
Retry ==
    /\ pc = "retry" /\ pc' = "token" /\ ticked' = FALSE
    /\ IF began = Disturbances THEN UNCHANGED streak ELSE Begin
    /\ UNCHANGED <<cache, file, tok, srv, services, mode, now, gen, born, revoked, history,
                   budgets>>

-----------------------------------------------------------------------------
(* The services.                                                           *)

Serves == UNCHANGED <<setup, streak, mode, now, gen, revoked, crashes, starts>>

\* The scheduled refresh of cacher.Run.
CacherTick ==
    /\ pc = "up" /\ cacher = "idle" /\ ~cancelled
    /\ cacher' = "login" /\ attempt' = 1
    /\ Serves /\ UNCHANGED <<cache, file, pf, cancelled, born, ticked, history, faults>>

\* refreshAll asks for addresses and a token through the tunnel; every error,
\* a refused login included, leaves the rest of the refresh to go on.
RefreshLogin ==
    /\ pc = "up" /\ cacher = "login" /\ Serves
    /\ UNCHANGED <<token, tokenTime, listIPs, servers, file, pf, cancelled, ticked, forgotten,
                   listGen>>
    /\ \/ /\ ~cancelled /\ authIPs' = mergeIPs(authIPs, AuthAnswers[gen]) /\ authGen' = gen
          /\ \/ Issue /\ cacher' = "persist" /\ UNCHANGED <<faults, attempt>>
             \/ Fault /\ cacher' = "listfailed" /\ UNCHANGED <<born, attempt>>
       \/ /\ ~cancelled /\ Fault /\ cacher' = "listfailed"
          /\ UNCHANGED <<authIPs, authGen, born, attempt>>
       \/ /\ cancelled /\ cacher' = "idle" /\ attempt' = 0
          /\ UNCHANGED <<authIPs, authGen, born, faults>>

RefreshToken ==
    /\ pc = "up" /\ cacher = "persist" /\ Serves
    /\ SetToken(Len(born))
    /\ cacher' = "list"
    /\ UNCHANGED <<authIPs, listIPs, servers, pf, attempt, cancelled, born, ticked, history>>

\* The second half.  Three attempts are made, a minute apart; a cancelled
\* context ends the cacher.
RefreshList ==
    /\ pc = "up" /\ cacher \in {"list", "listfailed"} /\ Serves
    /\ UNCHANGED <<token, tokenTime, authIPs, file, pf, cancelled, born, ticked, forgotten,
                   authGen>>
    /\ LET Ends(unfinished) ==
              IF unfinished /\ attempt < 3 THEN cacher' = "login" /\ attempt' = attempt + 1
                                       ELSE cacher' = "idle" /\ attempt' = 0
       IN  \/ /\ ~cancelled /\ UNCHANGED faults
              /\ listIPs' = mergeIPs(listIPs, ListAnswers[gen])
              /\ servers' = MergeServers(servers, Lists[gen]) /\ listGen' = gen
              /\ Ends(cacher = "listfailed")
           \/ /\ ~cancelled /\ Fault /\ Ends(TRUE)
              /\ listIPs' \in {listIPs, mergeIPs(listIPs, ListAnswers[gen])}
              /\ UNCHANGED <<servers, listGen>>
           \/ /\ cancelled /\ cacher' = "idle" /\ attempt' = 0
              /\ UNCHANGED <<listIPs, servers, listGen, faults>>

\* getSignatureWithRetry: the token is checked once and read again for every
\* request, until the port's lease would end.
AskSignature ==
    /\ pc = "up" /\ pf = "idle" /\ ~cancelled /\ PFRequired
    /\ \/ TokenFresh /\ pf' = "asking" /\ ticked' = FALSE /\ UNCHANGED cancelled
       \/ ~TokenFresh /\ cancelled' = TRUE /\ UNCHANGED <<pf, ticked>>
    /\ Serves /\ UNCHANGED <<cache, file, cacher, attempt, born, history, faults>>

Signed ==
    /\ pc = "up" /\ pf = "asking"
    /\ pf' = "idle" /\ cancelled' \in {cancelled, TRUE}
    /\ Serves /\ UNCHANGED <<cache, file, cacher, attempt, born, ticked, history, faults>>

\* A dead connection, or any other service's error, cancels the context.
Disconnect ==
    /\ pc = "up" /\ ~cancelled /\ cancelled' = TRUE
    /\ Serves /\ UNCHANGED <<cache, file, pf, cacher, attempt, born, ticked, history, faults>>

\* g.Wait, then the next attempt.
Reconnect ==
    /\ pc = "up" /\ cancelled /\ cacher = "idle" /\ pf = "idle"
    /\ pc' = "token" /\ Begin /\ ticked' = FALSE /\ cancelled' = FALSE
    /\ UNCHANGED <<cache, file, tok, srv, pf, cacher, attempt, mode, now, gen, born, revoked,
                   history, budgets>>

-----------------------------------------------------------------------------
(* The environment.                                                        *)

Start ==
    /\ ~Alive /\ starts < MaxStarts /\ starts' = starts + 1
    /\ New
    /\ authIPs' = << >> /\ listIPs' = << >> /\ servers' = << >>
    /\ authGen' = 0 /\ listGen' = 0
    /\ pc' = "token" /\ tok' = 0 /\ srv' = NoServer /\ Begin /\ ticked' = FALSE
    /\ UNCHANGED <<services, mode, now, gen, born, revoked, forgotten, faults, crashes>>

\* The process dies; a token being written may be whole, torn or not there.
Crash ==
    /\ Alive /\ crashes < MaxCrashes /\ crashes' = crashes + 1
    /\ pc' = "off" /\ tok' = 0 /\ srv' = NoServer /\ Over
    /\ pf' = "idle" /\ cacher' = "idle" /\ attempt' = 0 /\ cancelled' = FALSE
    /\ IF pc = "persist" \/ cacher = "persist"
         THEN file' \in {file, Torn, Short(Len(born)), Whole(Len(born), now)}
         ELSE UNCHANGED file
    /\ UNCHANGED <<cache, world, history, faults, starts>>

\* An attempt, a refresh of the token and a round of port forwarding's retries
\* are shorter than a unit of time: the clock moves at most once during each.
Tick ==
    /\ now < MaxTime /\ now' = now + 1
    /\ pc \notin {"off", "up"} \/ pf = "asking" => ~ticked
    /\ cacher # "persist" /\ pc # "persist"
    /\ ticked' = (pc \notin {"off", "up"} \/ pf = "asking")
    /\ UNCHANGED <<cache, file, setup, services, mode, gen, born, revoked, history, streak,
                   budgets>>

Move ==
    /\ gen < Len(Lists) /\ gen' = gen + 1
    /\ UNCHANGED <<cache, file, setup, services, mode, now, born, revoked, ticked, history,
                   streak, budgets>>

\* PIA stops accepting a token before its time.
Revoke ==
    /\ Fault /\ \E t \in Issued \ revoked : revoked' = revoked \cup {t}
    /\ UNCHANGED <<cache, file, setup, services, mode, now, gen, born, ticked, history, streak>>

Stopped == pc = "off" /\ UNCHANGED vars
Exhausted == pc \in {"auth", "resolve"} /\ Len(born) = MaxTokens /\ UNCHANGED vars

Next ==
    \/ getToken \/ authenticate \/ authenticateResolved \/ StoreToken \/ getServers
    \/ selectServer \/ resolveDIP \/ addKey \/ wgUp \/ Retry
    \/ CacherTick \/ RefreshLogin \/ RefreshToken \/ RefreshList
    \/ AskSignature \/ Signed \/ Disconnect \/ Reconnect
    \/ Start \/ Crash \/ Tick \/ Move \/ Revoke \/ Stopped \/ Exhausted

Spec == Init /\ [][Next]_vars

-----------------------------------------------------------------------------
(* Properties.                                                             *)

\* The cache never believes a token younger than it is, nor one PIA has not
\* issued, whatever a crash or a failing write has left in the token file.
TokenHonest == token # 0 => token \in Issued /\ tokenTime <= born[token]

\* A token is presented to PIA only while it is alive: maxTokenAge leaves room
\* for an attempt, and for port forwarding's retries, which check it once.
\* Also when the cacher has failed for so long that the token has aged.  And a
\* token that PIA has rejected is not presented to it again, neither by the
\* next attempt nor by a process that reads the token file.
PresentedUsable ==
    /\ pc \in {"dip", "addkey"} => now - born[tok] < TokenLife /\ tok \notin forgotten
    /\ pc = "up" /\ pf = "asking" => now - born[token] < TokenLife

\* The i-th address of an answer is not a duplicate of an earlier one, and its
\* place when duplicates are dropped.
FirstAt(answer, i) == \A k \in 1..(i - 1) : answer[k] # answer[i]
Place(answer, i) == Cardinality({answer[k] : k \in 1..i})

\* The i-th server of a list is the last with its CN.
LastOfCN(list, i) == \A j \in DOMAIN list : list[j].cn = list[i].cn => j <= i

\* The cached addresses begin with the latest answer of DNS in its order, and
\* hold no duplicates even if an answer does; and a server is cached once, as
\* the latest list that has it describes it last.
CacheCurrent ==
    /\ \A i, j \in DOMAIN authIPs : authIPs[i] = authIPs[j] => i = j
    /\ Len(authIPs) <= MaxCachedIPs
    /\ authGen # 0 => \A i \in DOMAIN AuthAnswers[authGen] :
                         LET p == Place(AuthAnswers[authGen], i)
                         IN  FirstAt(AuthAnswers[authGen], i) /\ p <= MaxCachedIPs =>
                                p \in DOMAIN authIPs /\ authIPs[p] = AuthAnswers[authGen][i]
    /\ \A i, j \in DOMAIN servers : servers[i].cn = servers[j].cn => i = j
    /\ listGen # 0 => \A i \in DOMAIN Lists[listGen] :
                         LastOfCN(Lists[listGen], i) => Lists[listGen][i] \in ToSet(servers)

\* None of the servers the attempt can choose from is PIA's any more.
ServersGone ==
    /\ mode \notin {"dip", "manual"} /\ servers # << >>
    /\ \A i \in DOMAIN candidates : ~LiveServer(candidates[i])

\* A connection attempt does not fail because of what is cached, unless the cache
\* offers nothing else: if the world has not changed and nothing has gone wrong
\* since the first of the attempts in a row, one fails only because all servers it
\* can choose from are gone, because resolveDIP has no address of the login host
\* that is not out of date, or, once, because PIA has revoked the token before;
\* addresses of the login host that are out of date are made up for by DNS, and
\* a token that was refused is not taken from the cache again.
AttemptExcused ==
    [][pc # "retry" /\ pc' = "retry" =>
          \/ Disturbances' # began
          \/ pc \in {"select", "addkey"} /\ ServersGone
          \/ pc = "dip" /\ ~Live(authIPs, AuthAnswers)
          \/ pc = "addkey" /\ tok \in revoked /\ ~failed]_vars
=============================================================================
