----------------------------- MODULE PortSync ------------------------------
(***************************************************************************)
(* The hand-over of forwarded ports (internal/portsync): port forwarding   *)
(* announces ports through a channel of capacity one, the syncer applies   *)
(* each of them to a client and a script, retrying until both succeed, a   *)
(* newer port arrives or the connection ends.  Every connection has a      *)
(* syncer of its own.  A port is the number of its announcement.           *)
(*                                                                         *)
(* The torrent client is a process of its own: it may restart between two  *)
(* of the requests that make up a SyncPort, and an answer may be lost      *)
(* after it has done as asked.  A request takes effect in time or never.   *)
(***************************************************************************)
EXTENDS Naturals, Sequences

CONSTANTS
    Clients,         \* values of PS_CLIENT: "none" or one of the torrent clients
    HasScript,       \* PS_SCRIPT is set
    MaxPorts,        \* bound: announcements
    MaxFailures,     \* bound: failures of a connection that is up, restarts of the client
    MaxConnections   \* bound: connections

ASSUME PortSyncAssumption ==
    /\ Clients \subseteq {"none", "qbittorrent", "transmission", "deluge"}
    /\ HasScript \in BOOLEAN
    /\ MaxPorts \in Nat /\ MaxFailures \in Nat /\ MaxConnections \in Nat \ {0}

None == 0

VARIABLES
    portCh,          \* the channel: a port or None
    announcing,      \* NotifyPort is between its drain and its send
    last,            \* the latest announcement
    frames,          \* calls of handleNewPort: innermost last
    at,              \* Run: select; handleNewPort: wait, client, script; done
    todo,            \* requests SyncPort still has to make
    cancelled,       \* the context of the services is cancelled
    kind,            \* PS_CLIENT
    client,          \* port the torrent client listens on
    session,         \* it would accept the session id or cookie the syncer holds
    linked,          \* Deluge: the web UI is connected to its daemon
    script,          \* port last passed to the script
    failures, connections

peer == <<kind, client, session, linked>>
vars == <<portCh, announcing, last, frames, at, todo, cancelled, peer, script,
          failures, connections>>

HasClient == kind # "none"
Frame(port) == [port |-> port, clientOK |-> ~HasClient, scriptOK |-> ~HasScript]
top == frames[Len(frames)]

Init ==
    /\ portCh = None /\ announcing = FALSE /\ last = None
    /\ frames = << >> /\ at = "select" /\ todo = << >> /\ cancelled = FALSE
    /\ kind \in Clients /\ client = None /\ session = FALSE /\ linked = FALSE
    /\ script = None
    /\ failures = 0 /\ connections = 1

-----------------------------------------------------------------------------
(* Port forwarding: NotifyPort.                                            *)

\* An unread port is taken out of the channel first.
Drain ==
    /\ ~announcing /\ last < MaxPorts
    /\ last' = last + 1 /\ announcing' = TRUE
    /\ portCh' = None
    /\ UNCHANGED <<frames, at, todo, cancelled, peer, script, failures, connections>>

\* The send blocks while the channel is full.
Send ==
    /\ announcing /\ portCh = None
    /\ portCh' = last /\ announcing' = FALSE
    /\ UNCHANGED <<last, frames, at, todo, cancelled, peer, script, failures, connections>>

-----------------------------------------------------------------------------
(* The syncer.                                                             *)

Syncer(label) ==
    /\ at = label
    /\ UNCHANGED <<announcing, last, cancelled, connections>>

\* A new port, also in the middle of the retries for the one before.
Receive ==
    /\ Syncer("select") \/ Syncer("wait")
    /\ portCh # None
    /\ frames' = Append(frames, Frame(portCh)) /\ portCh' = None /\ at' = "wait"
    /\ UNCHANGED <<todo, peer, script, failures>>

\* Mutant: the caller goes on with the port it should abandon.
ReturnOne ==
    /\ frames' = SubSeq(frames, 1, Len(frames) - 1)
    /\ at' = IF Len(frames) = 1 THEN "select" ELSE "wait"

\* handleNewPort returns, and with it every call that abandoned its port.
Return ==
    /\ frames' = << >>
    /\ at' = "select"

\* ctx.Done in Run or in handleNewPort.
Done ==
    /\ Syncer("select") \/ Syncer("wait")
    /\ cancelled
    /\ frames' = << >> /\ at' = "done"
    /\ UNCHANGED <<portCh, todo, peer, script, failures>>

\* SyncPort of each client: its requests.
SyncPort ==
    CASE kind = "qbittorrent" -> <<"login", "set", "verify">>
      [] kind = "transmission" -> <<"session", "set">>
      [] kind = "deluge" -> <<"login", "connected", "set">>
      [] OTHER -> << >>

\* The timer fires: trySync begins with what has not succeeded yet.
Timer ==
    /\ Syncer("wait")
    /\ IF top.clientOK THEN at' = "script" /\ UNCHANGED todo
                       ELSE at' = "client" /\ todo' = SyncPort
    /\ UNCHANGED <<portCh, frames, peer, script, failures>>

\* An attempt under a cancelled context fails; other failures are bounded.
Succeeds == ~cancelled /\ UNCHANGED failures
Fails ==
    \/ cancelled /\ UNCHANGED failures
    \/ ~cancelled /\ failures < MaxFailures /\ failures' = failures + 1

\* A request of SyncPort; the last one that is accepted makes it a success.
Request(requests) ==
    /\ Syncer("client") /\ todo # << >> /\ Head(todo) \in requests
    /\ UNCHANGED <<portCh, kind, script>>
Accepted ==
    /\ todo' = Tail(todo)
    /\ IF Len(todo) > 1 THEN UNCHANGED <<at, frames>>
       ELSE at' = "script" /\ frames' = [frames EXCEPT ![Len(frames)].clientOK = TRUE]
Rejected == todo' = << >> /\ at' = "script" /\ UNCHANGED frames

\* login, or getSessionID.
Login ==
    /\ Request({"login", "session"}) /\ Succeeds
    /\ session' = TRUE /\ Accepted /\ UNCHANGED <<client, linked>>

\* A refused login: qBittorrent answers it with status 200, which login accepts.
LoginRefused ==
    /\ Request({"login"}) /\ ~cancelled /\ Fails
    /\ session' = FALSE /\ UNCHANGED <<client, linked>>
    /\ IF kind = "qbittorrent" THEN Accepted ELSE Rejected

\* ensureConnected: without a connected daemon, and without a session, it asks
\* for the hosts, which it gets in a session only.  The answer of web.connect
\* is not looked at.
ensureConnected ==
    /\ UNCHANGED <<client, session>>
    /\ \/ /\ Request({"connected"}) /\ Succeeds /\ UNCHANGED linked
          /\ IF session /\ linked THEN Accepted
             ELSE todo' = <<"hosts", "connect">> \o Tail(todo) /\ UNCHANGED <<at, frames>>
       \/ /\ Request({"hosts"}) /\ Succeeds /\ UNCHANGED linked
          /\ IF session THEN Accepted ELSE Rejected
       \/ /\ Request({"connect"}) /\ Accepted
          /\ \/ Succeeds /\ linked' = (linked \/ session)
             \/ ~cancelled /\ Fails /\ UNCHANGED linked

\* The client does as told in a session, Deluge with its daemon at hand.
CanSet == session /\ (kind = "deluge" => linked)

\* Mutant: the answer is not looked at.
setPortUnchecked ==
    /\ Request({"set"}) /\ Succeeds
    /\ client' = (IF CanSet THEN top.port ELSE client)
    /\ Accepted /\ UNCHANGED <<session, linked>>

\* setPort: an error status or an error in the answer unless the client could.
setPort ==
    /\ Request({"set"}) /\ Succeeds
    /\ IF CanSet
         THEN client' = top.port /\ Accepted ELSE UNCHANGED client /\ Rejected
    /\ UNCHANGED <<session, linked>>

verifyPort ==
    /\ Request({"verify"}) /\ Succeeds
    /\ IF session /\ client = top.port THEN Accepted ELSE Rejected
    /\ UNCHANGED <<client, session, linked>>

\* A request that fails, or whose answer is lost after it took effect.
RequestFails ==
    /\ Request({"login", "session", "connected", "hosts", "connect", "set", "verify"})
    /\ Fails /\ Rejected /\ UNCHANGED <<session, linked>>
    /\ client' \in {client} \cup
                   (IF Head(todo) = "set" /\ CanSet
                      THEN {top.port} ELSE {})

Finish(scriptOK) ==
    \/ top.clientOK /\ scriptOK /\ Return
    \/ /\ ~(top.clientOK /\ scriptOK) /\ at' = "wait"
       /\ frames' = [frames EXCEPT ![Len(frames)].scriptOK = scriptOK]

SyncScript ==
    /\ Syncer("script")
    /\ \/ ~top.scriptOK /\ Succeeds /\ script' = top.port /\ Finish(TRUE)
       \/ ~top.scriptOK /\ Fails /\ UNCHANGED script /\ Finish(FALSE)
       \/ top.scriptOK /\ UNCHANGED <<script, failures>> /\ Finish(TRUE)
    /\ UNCHANGED <<portCh, todo, peer>>

-----------------------------------------------------------------------------
(* The connection.                                                         *)

Cancel ==
    /\ ~cancelled /\ cancelled' = TRUE
    /\ UNCHANGED <<portCh, announcing, last, frames, at, todo, peer, script, failures, connections>>

\* runServices of the next connection: portsync.New, with no cookies.
Reconnect ==
    /\ cancelled /\ at = "done" /\ ~announcing /\ connections < MaxConnections
    /\ connections' = connections + 1 /\ cancelled' = FALSE
    /\ portCh' = None /\ at' = "select" /\ session' = FALSE
    /\ UNCHANGED <<announcing, last, frames, todo, kind, client, linked, script, failures>>

\* The torrent client restarts: it keeps its settings and forgets its sessions.
Restart ==
    /\ HasClient /\ failures < MaxFailures /\ failures' = failures + 1
    /\ session' = FALSE /\ linked' = FALSE
    /\ UNCHANGED <<portCh, announcing, last, frames, at, todo, cancelled, kind, client,
                   script, connections>>

SyncClient == Login \/ LoginRefused \/ ensureConnected \/ setPort \/ verifyPort \/ RequestFails

SyncerStep == Receive \/ Done \/ Timer \/ SyncClient \/ SyncScript

\* Nothing is under way: the syncer waits for a port or has returned.
Quiet ==
    /\ ~announcing
    /\ at = "done" \/ (at = "select" /\ portCh = None)
    /\ UNCHANGED vars

Next == Drain \/ Send \/ SyncerStep \/ Cancel \/ Reconnect \/ Restart \/ Quiet

Spec == Init /\ [][Next]_vars

\* Both goroutines go on when they can and the timer fires.
FairSpec == Spec /\ WF_vars(Send) /\ WF_vars(SyncerStep)

-----------------------------------------------------------------------------
(* Properties.                                                             *)

\* The client and the script never go back from a newer port to an older one,
\* whatever the select of the retry loop picks.
NeverBackwards == [][client' >= client /\ script' >= script]_vars

\* "Exits on success, new port, or context cancellation": a port that stays
\* the latest reaches the client and the script, unless its connection ends.
\* The client listens on it, whatever SyncPort was told: a session that expired
\* or a daemon that was not connected is noticed and the port is set again.
LatestApplied ==
    \A p \in 1..MaxPorts :
        (announcing /\ last = p /\ ~cancelled) ~>
            \/ (HasClient => client = p) /\ (HasScript => script = p)
            \/ last # p \/ cancelled
=============================================================================
