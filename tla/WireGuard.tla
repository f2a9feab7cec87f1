----------------------------- MODULE WireGuard -----------------------------
(***************************************************************************)
(* The WireGuard interface pia0 (internal/wg): Up and Down command by      *)
(* command, with either backend, as internal/app calls them.  A command of *)
(* Up that fails ends it with an error; Down goes on after any.  Under a   *)
(* cancelled context no command runs at all.                               *)
(*                                                                         *)
(* The kernel's state and the files outlive the process.  wireguard-go is  *)
(* a process of its own: it takes its time to come up, and to die, and one *)
(* that is dying can meet its successor.                                   *)
(***************************************************************************)
EXTENDS Naturals, Sequences

CONSTANTS
    Backends,      \* values of WG_BACKEND: "kernel", "userspace", "auto"
    MaxFaults,     \* bound: failures nothing else in the model explains
    MaxCrashes,    \* bound: deaths of the process
    MaxStarts,     \* bound: starts of the process
    MaxDying       \* bound: wireguard-go's that are dying at a time

ASSUME BoundAssumption ==
    /\ MaxFaults \in Nat /\ MaxCrashes \in Nat
    /\ MaxStarts \in Nat \ {0} /\ MaxDying \in Nat \ {0}

VARIABLES
    link,          \* pia0: absent, kernel (a WireGuard link), tun (wireguard-go's) or
                   \* orphan (of a wireguard-go that is dying)
    conf,          \* what has been configured on it
    route, rules,  \* default route in table 51820; routing rules, by priority
    daemon, dying, \* wireguard-go; how many were told to die and have not yet
    sock,          \* the path of the UAPI socket exists
    app,           \* where internal/app is
    op, todo,      \* wg function running, commands it still has to run
    ctx,           \* the context of the call: "live" or "cancelled"
    backend,       \* WG_BACKEND
    hasKernel, hasTun, strict,  \* kernel module; TUN device; rp_filter is 1
    excuse,        \* history: why Up may fail, since Down last began
    dirty,         \* history: a command of the running or last Down was not run
    faults, crashes, starts

iface == <<link, conf, route>>
userspace == <<daemon, dying, sock>>
call == <<op, todo>>
host == <<backend, hasKernel, hasTun, strict>>
history == <<excuse, dirty>>
budgets == <<faults, crashes, starts>>
vars == <<iface, rules, userspace, app, call, ctx, host, history, budgets>>

Settings == {"key", "addr", "mtu", "fwmark", "peer", "up"}
Priorities == {"200", "300"}

\* Mutant: the peer is configured before its packets are marked.
UpPeerFirst ==
    <<"create", "key", "addr", "mtu", "peer", "fwmark", "up", "rpfilter", "route", "200", "300">>

Up ==
    <<"create", "key", "addr", "mtu", "fwmark", "peer", "up", "rpfilter", "route", "200", "300">>

\* Mutant: "ip rule del" for one priority only.
DownOnePriority == <<"linkdown", "linkdel", "pkill", "rmsock", "flush200">>

Down == <<"linkdown", "linkdel", "pkill", "rmsock", "flush200", "flush300">>

Alive == app # "off"
cmd == Head(todo)
Runs(name) == todo # << >> /\ cmd = name
Live == ctx = "live"

Init ==
    /\ link = "absent" /\ conf = {} /\ route = FALSE /\ rules = {}
    /\ daemon = "none" /\ dying = 0 /\ sock = FALSE
    /\ app = "off" /\ op = "none" /\ todo = << >> /\ ctx = "live"
    /\ backend \in Backends
    /\ hasKernel \in BOOLEAN /\ hasTun \in BOOLEAN /\ strict \in BOOLEAN
    /\ excuse = FALSE /\ dirty = FALSE
    /\ faults = 0 /\ crashes = 0 /\ starts = 0

Fault == faults < MaxFaults /\ faults' = faults + 1 /\ UNCHANGED <<crashes, starts>>
NoFault == UNCHANGED budgets

\* The interface goes away, and with it what was configured on it.
NoLink == link' = "absent" /\ conf' = {} /\ route' = FALSE

-----------------------------------------------------------------------------
(* Up.                                                                     *)

Continue == todo' = Tail(todo) /\ UNCHANGED <<op, app, history>>

\* Up returns an error.  The deferred clean-up looks at the err of
\* createInterface, which every later one shadows: nothing is undone.  An error
\* is fatal to the program.
UpFails(reason) ==
    /\ op' = "none" /\ todo' = << >> /\ app' = "exiting"
    /\ excuse' = (excuse \/ reason) /\ UNCHANGED dirty

\* createInterface with kernel WireGuard, alone or first.
AddLink ==
    /\ Runs("create") /\ backend \in {"kernel", "auto"}
    /\ Live /\ hasKernel /\ link = "absent" /\ NoFault
    /\ link' = "kernel" /\ Continue
    /\ UNCHANGED <<conf, route, rules, userspace, ctx, host>>

KernelFails == ~Live \/ ~hasKernel \/ link # "absent"

AddLinkFails ==
    /\ Runs("create") /\ backend = "kernel"
    /\ \/ KernelFails /\ NoFault /\ UpFails(~Live \/ ~hasKernel)
       \/ ~KernelFails /\ Fault /\ UpFails(TRUE)
    /\ UNCHANGED <<iface, rules, userspace, ctx, host>>

\* startUserspace, at once or after the kernel's refusal: ensureTUN, then
\* wireguard-go, which gives up if there is an interface already.
startUserspace ==
    /\ Runs("create") /\ backend \in {"userspace", "auto"} /\ UNCHANGED <<iface, rules, ctx, host>>
    /\ IF backend = "auto" /\ ~KernelFails THEN Fault ELSE NoFault
    /\ \/ /\ hasTun /\ Live
          /\ daemon' = (IF daemon = "none" THEN "starting" ELSE daemon)
          /\ todo' = <<"wait">> \o Tail(todo)
          /\ UNCHANGED <<op, app, dirty, dying, sock>>
          /\ excuse' = (excuse \/ faults' # faults)
       \/ ~(hasTun /\ Live) /\ UpFails(TRUE) /\ UNCHANGED userspace

\* Mutant: an interface that may still be coming is taken for ready.
waitForInterfaceNot ==
    /\ Runs("wait") /\ NoFault
    /\ Continue
    /\ UNCHANGED <<iface, rules, userspace, ctx, host>>

\* waitForInterface polls for the socket, until the context is cancelled or for
\* three seconds, which wireguard-go keeps to unless it failed.
waitForInterface ==
    /\ Runs("wait")
    /\ \/ sock /\ NoFault /\ Continue
       \/ ~sock /\ ~Live /\ NoFault /\ UpFails(TRUE)
       \/ ~sock /\ daemon # "starting" /\ NoFault /\ UpFails(FALSE)
       \/ ~sock /\ daemon = "starting" /\ Fault /\ UpFails(TRUE)
    /\ UNCHANGED <<iface, rules, userspace, ctx, host>>

\* The other commands of Up; "wg set" reaches wireguard-go through its socket.
CanRun(c) ==
    CASE c \in {"key", "fwmark", "peer"} -> link = "kernel" \/ (link # "absent" /\ sock)
      [] c \in {"addr", "mtu", "up"} -> link # "absent"
      [] c = "rpfilter" -> ~strict
      [] c = "route" -> "up" \in conf /\ ~route
      [] OTHER -> c \notin rules

Configures == op = "Up" /\ todo # << >> /\ cmd \notin {"create", "wait"}

\* checkRPFilter cannot tell under a cancelled context, and then accepts.
Configure ==
    /\ Configures /\ NoFault
    /\ (Live /\ CanRun(cmd)) \/ (cmd = "rpfilter" /\ ~Live)
    /\ conf' = conf \cup ({cmd} \cap Settings)
    /\ route' = (route \/ cmd = "route")
    /\ rules' = rules \cup ({cmd} \cap Priorities)
    /\ Continue
    /\ UNCHANGED <<link, userspace, ctx, host>>

ConfigureFails ==
    /\ Configures /\ ~(cmd = "rpfilter" /\ ~Live)
    /\ \/ (~Live \/ ~CanRun(cmd)) /\ NoFault /\ UpFails(~Live \/ cmd = "rpfilter")
       \/ Live /\ CanRun(cmd) /\ Fault /\ UpFails(TRUE)
    /\ UNCHANGED <<iface, rules, userspace, ctx, host>>

UpReturns ==
    /\ op = "Up" /\ todo = << >>
    /\ op' = "none" /\ app' = "connected"
    /\ UNCHANGED <<iface, rules, userspace, todo, ctx, host, history, budgets>>

-----------------------------------------------------------------------------
(* Down: every command is best effort.                                     *)

DownStep == op = "Down" /\ todo # << >> /\ todo' = Tail(todo) /\ UNCHANGED <<op, app, ctx, host>>

\* wireguard-go is signalled, or loses its device, and will exit.
Dies == daemon' = "none" /\ dying' = dying + 1

\* What each command does when it is run; pkill does not wait.
Undo ==
    /\ DownStep /\ Live /\ UNCHANGED <<history, budgets>>
    /\ \/ /\ cmd = "linkdown" /\ conf' = conf \ {"up"} /\ route' = FALSE
          /\ UNCHANGED <<link, rules, userspace>>
       \/ /\ cmd = "linkdel" /\ NoLink
          /\ IF link = "tun" THEN Dies ELSE UNCHANGED <<daemon, dying>>
          /\ UNCHANGED <<rules, sock>>
       \/ /\ cmd = "pkill" /\ link' = (IF link = "tun" THEN "orphan" ELSE link)
          /\ IF daemon # "none" THEN Dies ELSE UNCHANGED <<daemon, dying>>
          /\ UNCHANGED <<conf, route, rules, sock>>
       \/ /\ cmd \in {"flush200", "flush300"}
          /\ rules' = rules \ {IF cmd = "flush200" THEN "200" ELSE "300"}
          /\ UNCHANGED <<iface, userspace>>

\* os.Remove takes no context.
RemoveSocket ==
    /\ DownStep /\ cmd = "rmsock" /\ sock' = FALSE
    /\ UNCHANGED <<iface, rules, daemon, dying, history, budgets>>

UndoNot ==
    /\ DownStep /\ cmd # "rmsock" /\ dirty' = TRUE
    /\ \/ ~Live /\ NoFault /\ UNCHANGED excuse
       \/ Live /\ Fault /\ excuse' = TRUE
    /\ UNCHANGED <<iface, rules, userspace>>

\* connect goes on to vpn.Setup; after the Down of cleanup the process ends.
DownReturns ==
    /\ op = "Down" /\ todo = << >> /\ op' = "none"
    /\ app' = (IF app = "cleanup" THEN "off" ELSE "requests")
    /\ UNCHANGED <<iface, rules, userspace, todo, ctx, host, history, budgets>>

-----------------------------------------------------------------------------
(* The callers in internal/app.                                            *)

BeginDown(context, next) ==
    /\ op = "none" /\ op' = "Down" /\ todo' = Down
    /\ ctx' = context /\ app' = next
    /\ excuse' = FALSE /\ dirty' = FALSE
    /\ UNCHANGED <<iface, rules, userspace, host>>

\* A process starts; its first attempt begins with Down, under a context that
\* may be cancelled at any time.
Start ==
    /\ app = "off" /\ starts < MaxStarts /\ starts' = starts + 1
    /\ BeginDown("live", "connect") /\ UNCHANGED <<faults, crashes>>

\* A failed attempt, or a connection that is lost.
Reconnect ==
    /\ app \in {"requests", "connected"} /\ Live
    /\ BeginDown("live", "connect") /\ NoFault

\* vpn.Setup calls Up once PIA has accepted the key.  Nothing waits for the old
\* wireguard-go, so it may still be dying.
BeginUp ==
    /\ op = "none" /\ app = "requests" /\ dying < MaxDying
    /\ op' = "Up" /\ todo' = Up /\ excuse' = (excuse \/ dying # 0)
    /\ UNCHANGED <<iface, rules, userspace, app, ctx, host, dirty, budgets>>

\* cleanup, with a context of its own.
BeginCleanup ==
    /\ app = "exiting" \/ (app \in {"requests", "connected"} /\ ~Live)
    /\ BeginDown("live", "cleanup") /\ NoFault

Cancel ==
    /\ Live /\ app \in {"connect", "requests", "connected"} /\ ctx' = "cancelled"
    /\ UNCHANGED <<iface, rules, userspace, app, call, host, history, budgets>>

-----------------------------------------------------------------------------
(* wireguard-go, external.                                                 *)

DaemonUp ==
    /\ daemon = "starting" /\ link = "absent"
    /\ daemon' = "running" /\ link' = "tun" /\ sock' = TRUE
    /\ UNCHANGED <<conf, route, rules, dying, app, call, ctx, host, history, budgets>>

\* Also when the interface that is in its way is its predecessor's.
DaemonGivesUp ==
    /\ daemon = "starting"
    /\ \/ link # "absent" /\ UNCHANGED <<excuse, budgets>>
       \/ link = "absent" /\ Fault /\ excuse' = TRUE
    /\ daemon' = "none"
    /\ UNCHANGED <<iface, rules, dying, sock, app, call, ctx, host, dirty>>

\* It dies and removes its device, and the path of its socket, which may be its
\* successor's by then; one that had no socket yet leaves the path alone.
DaemonExits ==
    /\ dying # 0 /\ dying' = dying - 1 /\ sock' \in {sock, FALSE}
    /\ \/ link = "orphan" /\ NoLink
       \/ (link = "orphan" => dying > 1) /\ UNCHANGED iface
    /\ UNCHANGED <<rules, daemon, app, call, ctx, host, history, budgets>>

\* Killed, it leaves the socket.
DaemonKilled ==
    /\ daemon = "running" /\ Fault /\ excuse' = TRUE
    /\ daemon' = "none" /\ NoLink
    /\ UNCHANGED <<rules, dying, sock, app, call, ctx, host, dirty>>

\* pia-tun dies, wireguard-go may die with it.
Crash ==
    /\ Alive /\ crashes < MaxCrashes /\ crashes' = crashes + 1
    /\ app' = "off" /\ op' = "none" /\ todo' = << >> /\ ctx' = "live"
    /\ \/ UNCHANGED <<iface, daemon>>
       \/ daemon # "none" /\ daemon' = "none" /\ IF link = "tun" THEN NoLink ELSE UNCHANGED iface
    /\ UNCHANGED <<rules, dying, sock, host, history, faults, starts>>

Stopped == app = "off" /\ UNCHANGED vars

Next ==
    \/ AddLink \/ AddLinkFails \/ startUserspace \/ waitForInterface
    \/ Configure \/ ConfigureFails \/ UpReturns
    \/ Undo \/ RemoveSocket \/ UndoNot \/ DownReturns
    \/ Start \/ Reconnect \/ BeginUp \/ BeginCleanup \/ Cancel
    \/ DaemonUp \/ DaemonGivesUp \/ DaemonExits \/ DaemonKilled \/ Crash \/ Stopped

Spec == Init /\ [][Next]_vars

-----------------------------------------------------------------------------
(* Properties.                                                             *)

Configured ==
    /\ link \in {"kernel", "tun"} /\ conf = Settings /\ route /\ rules = Priorities
    /\ link = "tun" => daemon = "running" /\ sock

\* When Up reports success the interface is complete and routed, whatever an
\* earlier process, a failed Up or a Down that could not run has left, unless
\* wireguard-go has been killed since, or its predecessor was still dying when
\* Up began and took the interface or the socket with it.  And an Up that
\* fails, which ends the program, never does because of anything else that was
\* there before, once Down could run all of its commands.
UpReliable ==
    /\ app = "connected" /\ op = "none" /\ ~excuse => Configured
    /\ app = "exiting" /\ ~dirty => excuse

\* Up sets the mark "BEFORE peer config to prevent routing loops": no packet of
\* WireGuard's own can be routed into the tunnel, also halfway through a failed
\* Up and with the rules of an earlier process in place.
NoRoutingLoop == "peer" \in conf \/ (route /\ "200" \in rules) => "fwmark" \in conf

\* Down is "safe to call even if Up was never called or failed partway
\* through": whatever there was, it leaves nothing, except the device of a
\* wireguard-go that came up at the last moment and is about to die with it.
DownRestores ==
    op = "Down" /\ todo = << >> /\ ~dirty =>
        /\ ~route /\ rules = {}
        /\ link = "absent" \/ (link = "orphan" /\ dying # 0)
        /\ daemon = "none" /\ ~sock
=============================================================================
