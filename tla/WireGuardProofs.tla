-------------------------- MODULE WireGuardProofs --------------------------
(***************************************************************************)
(* Proofs about WireGuard, for every host, any number of command failures, *)
(* crashes and starts: Up and Down are reliable, and no order of events    *)
(* routes WireGuard's own packets into the tunnel.                         *)
(***************************************************************************)
EXTENDS WireGuard, SequenceTheorems, TLAPS

-----------------------------------------------------------------------------
(* The inductive invariant.  Both functions run fixed scripts: how many    *)
(* commands are left says which have been run.                             *)

UpTail(n) == [i \in 1..n |-> Up[11 - n + i]]
DownTail(n) == [i \in 1..n |-> Down[6 - n + i]]
Waiting == <<"wait">> \o UpTail(10)

left == Len(todo)

CourseInv ==
    /\ op \in {"none", "Up", "Down"}
    /\ op = "none" => todo = << >>
    /\ op = "Up" => todo = Waiting \/ \E n \in 0..11 : todo = UpTail(n)
    /\ op = "Down" => \E n \in 0..6 : todo = DownTail(n)

\* Types, and when internal/app is in which function.
AppInv ==
    /\ app \in {"off", "connect", "requests", "connected", "exiting", "cleanup"}
    /\ op = "Up" => app = "requests"
    /\ op = "Down" <=> app \in {"connect", "cleanup"}
    /\ link \in {"absent", "kernel", "tun", "orphan"}
    /\ daemon \in {"none", "starting", "running"} /\ dying \in Nat
    /\ conf \subseteq Settings /\ rules \subseteq Priorities
    /\ faults \in Nat

\* An interface of wireguard-go is there exactly as long as it runs, or until it
\* has died; what is configured goes with the interface.
LinkInv ==
    /\ link = "tun" <=> daemon = "running"
    /\ link = "orphan" => dying # 0
    /\ link = "absent" => conf = {} /\ ~route

\* Down leaves no socket beside the device of a wireguard-go that is dying.
OrphanInv == link = "orphan" /\ sock => app = "off" \/ (op = "Down" /\ left >= 3)

\* Marks come first, and an interface that was lost does not come back halfway.
MarkInv ==
    /\ "peer" \in conf \/ route => "fwmark" \in conf
    /\ op = "Up" /\ left <= 9 => link # "orphan"
    /\ op = "Up" /\ left <= 9 /\ link = "absent" => daemon = "none"
    /\ op = "Up" /\ left <= 6 /\ link # "absent" => "fwmark" \in conf

\* What Down has undone so far.
DownInv ==
    op = "Down" /\ ~dirty =>
        /\ left <= 5 => ~route
        /\ left <= 4 => link # "kernel" /\ conf = {}
        /\ left <= 3 => daemon = "none"
        /\ left <= 2 => ~sock
        /\ left <= 1 => "200" \notin rules
        /\ left = 0 => "300" \notin rules

\* What Up has done so far, whatever was there before, but for a wireguard-go that
\* was dying.
UpInv ==
    (op = "Up" \/ app = "connected") /\ ~excuse =>
        /\ dying = 0
        /\ left <= 9 => link # "absent" /\ (link = "tun" => sock) /\ "key" \in conf
        /\ left <= 8 => "addr" \in conf
        /\ left <= 7 => "mtu" \in conf
        /\ left <= 6 => "fwmark" \in conf
        /\ left <= 5 => "peer" \in conf
        /\ left <= 4 => "up" \in conf
        /\ left <= 2 => route
        /\ left <= 1 => "200" \in rules
        /\ left = 0 => "300" \in rules

\* What Down leaves, and what Up has not done yet after it.
CleanInv ==
    ~dirty /\ ~excuse =>
        /\ app # "exiting"
        /\ app = "requests" /\ op = "none" =>
              /\ ~route /\ rules = {} /\ link # "kernel"
              /\ daemon = "none" /\ ~sock
        /\ op = "Up" =>
              /\ left >= 3 => ~route
              /\ left >= 2 => rules = {}
              /\ left = 1 => "300" \notin rules
              /\ left = 10 => link = "kernel" \/ (link = "tun" /\ sock)
              /\ left = 11 /\ cmd = "create" => link = "absent" /\ daemon = "none" /\ ~sock
              /\ left = 11 /\ cmd = "wait" =>
                    \/ link = "absent" /\ daemon = "starting" /\ ~sock
                    \/ link = "tun" /\ sock

WireInv ==
    /\ CourseInv /\ AppInv /\ LinkInv /\ OrphanInv /\ MarkInv
    /\ DownInv /\ UpInv /\ CleanInv

-----------------------------------------------------------------------------
(* Lemmas about the scripts.                                               *)

Commands == {"wait"} \cup {Up[i] : i \in 1..11} \cup {Down[i] : i \in 1..6}

\* A sequence without its first element, for sequences given as functions.
LEMMA TailOf ==
    ASSUME NEW S, NEW n \in Nat, n > 0, NEW s \in Seq(S), Len(s) = n,
           NEW t \in Seq(S), Len(t) = n - 1, \A i \in 1..(n - 1) : t[i] = s[i + 1]
    PROVE  s # << >> /\ Head(s) = s[1] /\ Tail(s) = t
<1>1. s # << >> /\ Head(s) = s[1]
  OBVIOUS
<1>2. /\ Tail(s) \in Seq(S) /\ Len(Tail(s)) = n - 1
      /\ \A i \in 1..(n - 1) : Tail(s)[i] = s[i + 1]
  BY <1>1, HeadTailProperties
<1>3. \A i \in 1..(n - 1) : Tail(s)[i] = t[i]
  BY <1>2
<1>4. Tail(s) = t
  BY <1>2, <1>3, SeqEqual
<1>5. QED BY <1>1, <1>4

\* What is left of Up is a sequence of commands, ...
LEMMA UpShape ==
    ASSUME NEW n \in 0..11
    PROVE  /\ UpTail(n) \in Seq(Commands) /\ Len(UpTail(n)) = n
           /\ \A i \in 1..n : UpTail(n)[i] = Up[11 - n + i]
<1>1. \A i \in 1..n : 11 - n + i \in 1..11
  OBVIOUS
<1>2. \A i \in 1..11 : Up[i] \in Commands
  BY DEF Commands
<1> DEFINE u == Up
<1> HIDE DEF u
<1>3. [i \in 1..n |-> u[11 - n + i]] \in Seq(Commands)
  BY <1>1, <1>2 DEF u
<1>4. QED BY <1>3 DEF UpTail, u

\* ... of which each command leaves the rest.
LEMMA UpTails ==
    ASSUME NEW n \in 1..11
    PROVE  /\ UpTail(n) # << >> /\ Head(UpTail(n)) = Up[12 - n]
           /\ Tail(UpTail(n)) = UpTail(n - 1)
<1> DEFINE s == UpTail(n)
           t == UpTail(n - 1)
           u == Up
<1>1. n \in Nat /\ n > 0 /\ n \in 0..11 /\ n - 1 \in 0..11
  OBVIOUS
<1>2. s \in Seq(Commands) /\ Len(s) = n /\ \A i \in 1..n : s[i] = u[11 - n + i]
  BY <1>1, UpShape
<1>3. t \in Seq(Commands) /\ Len(t) = n - 1 /\ \A i \in 1..(n - 1) : t[i] = u[11 - (n - 1) + i]
  BY <1>1, UpShape
<1> HIDE DEF s, t, u
<1>4. \A i \in 1..(n - 1) : t[i] = s[i + 1]
  BY <1>1, <1>2, <1>3, SMTT(30)
<1>5. s # << >> /\ Head(s) = s[1] /\ Tail(s) = t
  <2>1. n \in Nat /\ n > 0 /\ s \in Seq(Commands) /\ Len(s) = n /\ t \in Seq(Commands) /\ Len(t) = n - 1
    BY <1>1, <1>2, <1>3
  <2>2. QED BY ONLY <1>4, <2>1, TailOf, SMTT(30)
<1>6. s[1] = u[12 - n]
  BY <1>1, <1>2
<1>7. QED BY <1>5, <1>6 DEF s, t, u

\* What is left of Down is a sequence of commands, ...
LEMMA DownShape ==
    ASSUME NEW n \in 0..6
    PROVE  /\ DownTail(n) \in Seq(Commands) /\ Len(DownTail(n)) = n
           /\ \A i \in 1..n : DownTail(n)[i] = Down[6 - n + i]
<1>1. \A i \in 1..n : 6 - n + i \in 1..6
  OBVIOUS
<1>2. \A i \in 1..6 : Down[i] \in Commands
  BY DEF Commands
<1> DEFINE u == Down
<1> HIDE DEF u
<1>3. [i \in 1..n |-> u[6 - n + i]] \in Seq(Commands)
  BY <1>1, <1>2 DEF u
<1>4. QED BY <1>3 DEF DownTail, u

\* ... of which each command leaves the rest.
LEMMA DownTails ==
    ASSUME NEW n \in 1..6
    PROVE  /\ DownTail(n) # << >> /\ Head(DownTail(n)) = Down[7 - n]
           /\ Tail(DownTail(n)) = DownTail(n - 1)
<1> DEFINE s == DownTail(n)
           t == DownTail(n - 1)
           u == Down
<1>1. n \in Nat /\ n > 0 /\ n \in 0..6 /\ n - 1 \in 0..6
  OBVIOUS
<1>2. s \in Seq(Commands) /\ Len(s) = n /\ \A i \in 1..n : s[i] = u[6 - n + i]
  BY <1>1, DownShape
<1>3. t \in Seq(Commands) /\ Len(t) = n - 1 /\ \A i \in 1..(n - 1) : t[i] = u[6 - (n - 1) + i]
  BY <1>1, DownShape
<1> HIDE DEF s, t, u
<1>4. \A i \in 1..(n - 1) : t[i] = s[i + 1]
  BY <1>1, <1>2, <1>3
<1>5. s # << >> /\ Head(s) = s[1] /\ Tail(s) = t
  <2>1. n \in Nat /\ n > 0 /\ s \in Seq(Commands) /\ Len(s) = n /\ t \in Seq(Commands) /\ Len(t) = n - 1
    BY <1>1, <1>2, <1>3
  <2>2. QED BY ONLY <1>4, <2>1, TailOf, SMTT(30)
<1>6. s[1] = u[7 - n]
  BY <1>1, <1>2
<1>7. QED BY <1>5, <1>6 DEF s, t, u

\* Waiting for wireguard-go stands where its creation stood.
LEMMA WaitingTail ==
    /\ Waiting # << >> /\ Len(Waiting) = 11
    /\ Head(Waiting) = "wait" /\ Tail(Waiting) = UpTail(10)
<1> DEFINE t == UpTail(10)
           w == <<"wait">>
<1>1. t \in Seq(Commands) /\ Len(t) = 10
  BY UpShape
<1>2. w \in Seq(Commands) /\ Len(w) = 1 /\ w[1] = "wait"
  <2>1. "wait" \in Commands
    BY DEF Commands
  <2> HIDE DEF Commands
  <2>2. QED BY <2>1
<1> HIDE DEF t, w
<1> DEFINE c == w \o t
<1>3. /\ c \in Seq(Commands) /\ Len(c) = Len(w) + Len(t)
      /\ \A i \in 1..(Len(w) + Len(t)) : c[i] = IF i <= Len(w) THEN w[i] ELSE t[i - Len(w)]
  BY <1>1, <1>2, ConcatProperties
<1> HIDE DEF c
<1>4. /\ Len(c) = 11 /\ c[1] = "wait" /\ Len(t) = Len(c) - 1
      /\ \A i \in 1..(Len(c) - 1) : t[i] = c[i + 1]
  BY <1>1, <1>2, <1>3
<1>5. c # << >> /\ Head(c) = c[1] /\ Tail(c) = t
  <2>1. Len(c) \in Nat /\ Len(c) > 0
    BY <1>4
  <2>2. QED BY <1>1, <1>3, <1>4, <2>1, TailOf
<1>6. QED BY <1>4, <1>5 DEF Waiting, c, w, t

\* Which command of Up is next, by the number that are left.
LEMMA UpCommand ==
    ASSUME CourseInv, op = "Up"
    PROVE  /\ left \in 0..11 /\ (todo = << >> <=> left = 0)
           /\ todo # << >> =>
                /\ Len(Tail(todo)) = left - 1 /\ Tail(todo) = UpTail(left - 1)
                /\ (left = 11 => cmd \in {"create", "wait"}) /\ (left = 10 => cmd = "key")
                /\ (left = 9 => cmd = "addr") /\ (left = 8 => cmd = "mtu")
                /\ (left = 7 => cmd = "fwmark") /\ (left = 6 => cmd = "peer")
                /\ (left = 5 => cmd = "up") /\ (left = 4 => cmd = "rpfilter")
                /\ (left = 3 => cmd = "route") /\ (left = 2 => cmd = "200")
                /\ (left = 1 => cmd = "300")
<1>1. CASE todo = Waiting
  BY <1>1, WaitingTail, UpShape DEF left, cmd
<1>2. CASE \E n \in 0..11 : todo = UpTail(n)
  <2>1. PICK n \in 0..11 : todo = UpTail(n)
    BY <1>2
  <2>2. todo \in Seq(Commands) /\ left = n
    BY <2>1, UpShape DEF left
  <2>3. todo = << >> <=> left = 0
    BY <2>2 DEF left
  <2>4. CASE n > 0
    <3>0. n - 1 \in 0..11 /\ n \in 1..11
      BY <2>4
    <3>1. cmd = Up[12 - n] /\ Tail(todo) = UpTail(n - 1) /\ Len(UpTail(n - 1)) = n - 1
      BY <2>1, <2>4, <3>0, UpTails, UpShape DEF cmd
    <3>2. /\ (n = 11 => Up[12 - n] = "create") /\ (n = 10 => Up[12 - n] = "key")
          /\ (n = 9 => Up[12 - n] = "addr") /\ (n = 8 => Up[12 - n] = "mtu")
          /\ (n = 7 => Up[12 - n] = "fwmark") /\ (n = 6 => Up[12 - n] = "peer")
          /\ (n = 5 => Up[12 - n] = "up") /\ (n = 4 => Up[12 - n] = "rpfilter")
          /\ (n = 3 => Up[12 - n] = "route") /\ (n = 2 => Up[12 - n] = "200")
          /\ (n = 1 => Up[12 - n] = "300")
      BY <2>4 DEF Up
    <3>3. QED BY <2>2, <2>3, <2>4, <3>1, <3>2
  <2>5. QED BY <2>2, <2>3, <2>4
<1>3. QED BY <1>1, <1>2 DEF CourseInv

\* The same of Down.
LEMMA DownCommand ==
    ASSUME CourseInv, op = "Down"
    PROVE  /\ left \in 0..6 /\ (todo = << >> <=> left = 0)
           /\ todo # << >> =>
                /\ Len(Tail(todo)) = left - 1 /\ Tail(todo) = DownTail(left - 1)
                /\ (left = 6 => cmd = "linkdown") /\ (left = 5 => cmd = "linkdel")
                /\ (left = 4 => cmd = "pkill") /\ (left = 3 => cmd = "rmsock")
                /\ (left = 2 => cmd = "flush200") /\ (left = 1 => cmd = "flush300")
<1>1. PICK n \in 0..6 : todo = DownTail(n)
  BY DEF CourseInv
<1>2. todo \in Seq(Commands) /\ left = n
  BY <1>1, DownShape DEF left
<1>3. todo = << >> <=> left = 0
  BY <1>2 DEF left
<1>4. CASE n > 0
  <2>0. n - 1 \in 0..6 /\ n \in 1..6
    BY <1>4
  <2>1. cmd = Down[7 - n] /\ Tail(todo) = DownTail(n - 1) /\ Len(DownTail(n - 1)) = n - 1
    BY <1>1, <1>4, <2>0, DownTails, DownShape DEF cmd
  <2>2. /\ (n = 6 => Down[7 - n] = "linkdown") /\ (n = 5 => Down[7 - n] = "linkdel")
        /\ (n = 4 => Down[7 - n] = "pkill") /\ (n = 3 => Down[7 - n] = "rmsock")
        /\ (n = 2 => Down[7 - n] = "flush200") /\ (n = 1 => Down[7 - n] = "flush300")
    BY <1>4 DEF Down
  <2>3. QED BY <1>2, <1>3, <1>4, <2>1, <2>2
<1>5. QED BY <1>2, <1>3, <1>4

\* The whole scripts, and none.
LEMMA Ends ==
    /\ Up = UpTail(11) /\ Len(Up) = 11 /\ Head(Up) = "create"
    /\ Down = DownTail(6) /\ Len(Down) = 6 /\ Len(<< >>) = 0
<1>1. Up = UpTail(11)
  BY DEF Up, UpTail
<1>2. Down = DownTail(6)
  BY DEF Down, DownTail
<1>3. Len(Up) = 11 /\ Head(Up) = "create" /\ Len(Down) = 6
  BY DEF Up, Down
<1>4. QED BY <1>1, <1>2, <1>3

\* How the next command depends on the number that are left, ...
LEMMA Course ==
    ASSUME CourseInv
    PROVE  /\ op \in {"none", "Up", "Down"}
           /\ op = "none" => todo = << >> /\ left = 0
           /\ Runs("create") \/ Runs("wait") => op = "Up" /\ left = 11
           /\ op = "Up" =>
                /\ left \in 0..11 /\ (todo = << >> <=> left = 0)
                /\ todo # << >> =>
                     /\ (left = 11 => cmd \in {"create", "wait"}) /\ (left = 10 => cmd = "key")
                     /\ (left = 9 => cmd = "addr") /\ (left = 8 => cmd = "mtu")
                     /\ (left = 7 => cmd = "fwmark") /\ (left = 6 => cmd = "peer")
                     /\ (left = 5 => cmd = "up") /\ (left = 4 => cmd = "rpfilter")
                     /\ (left = 3 => cmd = "route") /\ (left = 2 => cmd = "200")
                     /\ (left = 1 => cmd = "300")
           /\ op = "Down" =>
                /\ left \in 0..6 /\ (todo = << >> <=> left = 0)
                /\ todo # << >> =>
                     /\ (left = 6 => cmd = "linkdown") /\ (left = 5 => cmd = "linkdel")
                     /\ (left = 4 => cmd = "pkill") /\ (left = 3 => cmd = "rmsock")
                     /\ (left = 2 => cmd = "flush200") /\ (left = 1 => cmd = "flush300")
<1>1. op = "none" => todo = << >> /\ left = 0
  BY Ends DEF CourseInv, left
<1>2. Runs("create") \/ Runs("wait") => op = "Up" /\ left = 11
  <2>1. ASSUME op = "Down", todo # << >> PROVE cmd \notin {"create", "wait"}
    BY <2>1, DownCommand
  <2>2. ASSUME op = "Up", todo # << >>, left # 11 PROVE cmd \notin {"create", "wait"}
    <3>1. left \in 1..10
      BY <2>2, UpCommand
    <3>2. QED BY <2>2, <3>1, UpCommand
  <2>3. QED BY <1>1, <2>1, <2>2 DEF Runs, CourseInv
<1>3. QED BY <1>1, <1>2, UpCommand, DownCommand DEF CourseInv

\* ... and how that number changes.
LEMMA Advance ==
    ASSUME CourseInv
    PROVE  /\ op # "none" /\ todo # << >> /\ todo' = Tail(todo) => left' = left - 1
           /\ todo' = << >> => left' = 0
           /\ todo' = todo => left' = left /\ cmd' = cmd
           /\ todo' = Up => left' = 11 /\ cmd' = "create"
           /\ todo' = Down => left' = 6
           /\ Runs("create") /\ todo' = <<"wait">> \o Tail(todo) =>
                todo' = Waiting /\ left' = 11 /\ cmd' = "wait"
<1>1. op # "none" /\ todo # << >> /\ todo' = Tail(todo) => left' = left - 1
  BY UpCommand, DownCommand DEF left, CourseInv
<1>2. /\ todo' = << >> => left' = 0
      /\ todo' = todo => left' = left /\ cmd' = cmd
      /\ todo' = Up => left' = 11 /\ cmd' = "create"
      /\ todo' = Down => left' = 6
  BY Ends DEF left, cmd
<1>3. ASSUME Runs("create"), todo' = <<"wait">> \o Tail(todo)
      PROVE  todo' = Waiting /\ left' = 11 /\ cmd' = "wait"
  <2>1. op = "Up" /\ left = 11 /\ todo # << >>
    BY <1>3, Course DEF Runs
  <2>2. Tail(todo) = UpTail(10)
    BY <2>1, UpCommand
  <2>3. todo' = Waiting
    BY <1>3, <2>2 DEF Waiting
  <2>4. QED BY <2>3, WaitingTail DEF left, cmd
<1>4. QED BY <1>1, <1>2, <1>3

-----------------------------------------------------------------------------
(* Every step keeps the invariant.                                         *)

\* The scripts are followed.
LEMMA CourseStep ==
    ASSUME CourseInv, [Next]_vars
    PROVE  CourseInv'
<1>1. CASE /\ op = "Up" /\ todo # << >> /\ UNCHANGED op /\ todo' = Tail(todo)
  <2>1. left - 1 \in 0..11 /\ todo' = UpTail(left - 1)
    BY <1>1, UpCommand
  <2>2. QED BY <1>1, <2>1 DEF CourseInv
<1>2. CASE /\ op = "Down" /\ todo # << >> /\ UNCHANGED op /\ todo' = Tail(todo)
  <2>1. left - 1 \in 0..6 /\ todo' = DownTail(left - 1)
    BY <1>2, DownCommand
  <2>2. QED BY <1>2, <2>1 DEF CourseInv
<1>3. CASE /\ Runs("create") /\ todo' = <<"wait">> \o Tail(todo) /\ UNCHANGED op
  <2>1. op' = "Up" /\ todo' = Waiting
    BY <1>3, Course, Advance
  <2>2. QED BY <2>1 DEF CourseInv
<1>4. CASE \/ UNCHANGED call
           \/ op' = "none" /\ todo' = << >>
           \/ op' = "Up" /\ todo' = UpTail(11)
           \/ op' = "Down" /\ todo' = DownTail(6)
  BY <1>4 DEF CourseInv, call
<1>5. CASE \/ AddLink \/ AddLinkFails \/ startUserspace \/ waitForInterface
           \/ Configure \/ ConfigureFails \/ UpReturns
  BY <1>1, <1>3, <1>4, <1>5, Course DEF AddLink, AddLinkFails, startUserspace,
     waitForInterface, Configure, ConfigureFails, UpReturns, Runs, Configures, Continue, UpFails
<1>6. CASE Undo \/ RemoveSocket \/ UndoNot \/ DownReturns
  BY <1>2, <1>4, <1>6, Course DEF Undo, RemoveSocket, UndoNot, DownReturns, DownStep
<1>7. CASE Start \/ Reconnect \/ BeginUp \/ BeginCleanup
  BY <1>4, <1>7, Ends DEF Start, Reconnect, BeginUp, BeginCleanup, BeginDown
<1>8. CASE \/ Cancel \/ DaemonUp \/ DaemonGivesUp \/ DaemonExits \/ DaemonKilled \/ Crash
           \/ Stopped \/ UNCHANGED vars
  BY <1>4, <1>8
  DEF Cancel, DaemonUp, DaemonGivesUp, DaemonExits, DaemonKilled, Crash, Stopped, vars
<1>9. QED BY <1>5, <1>6, <1>7, <1>8 DEF Next

\* What each command of Up after the first needs and does.
LEMMA ConfigureDoes ==
    ASSUME CourseInv, Configure
    PROVE  /\ op = "Up" /\ left \in 1..10 /\ left' = left - 1
           /\ UNCHANGED <<op, app, link, daemon, dying, sock, excuse, dirty, faults>>
           /\ left \in {10, 7, 6} => link = "kernel" \/ (link # "absent" /\ sock)
           /\ left \in {9, 8, 5} => link # "absent"
           /\ left = 3 => "up" \in conf
           /\ (left = 10 => conf' = conf \cup {"key"}) /\ (left = 9 => conf' = conf \cup {"addr"})
           /\ (left = 8 => conf' = conf \cup {"mtu"}) /\ (left = 7 => conf' = conf \cup {"fwmark"})
           /\ (left = 6 => conf' = conf \cup {"peer"}) /\ (left = 5 => conf' = conf \cup {"up"})
           /\ left <= 4 => conf' = conf
           /\ route' <=> route \/ left = 3
           /\ left = 2 => rules' = rules \cup {"200"}
           /\ left = 1 => rules' = rules \cup {"300"}
           /\ left > 2 => rules' = rules
<1>1. /\ op = "Up" /\ todo # << >> /\ left \in 1..10 /\ todo' = Tail(todo)
      /\ UNCHANGED <<op, app, link, daemon, dying, sock, excuse, dirty, faults>>
  BY Course DEF Configure, Configures, Continue, userspace, history, NoFault, budgets
<1>2. left' = left - 1
  BY <1>1, Advance
<1>3. /\ (Live /\ CanRun(cmd)) \/ cmd = "rpfilter"
      /\ conf' = conf \cup ({cmd} \cap Settings) /\ rules' = rules \cup ({cmd} \cap Priorities)
      /\ route' = (route \/ cmd = "route")
  BY DEF Configure
<1>4. ASSUME left = 10
      PROVE  (link = "kernel" \/ (link # "absent" /\ sock)) /\ conf' = conf \cup {"key"} /\ (route' <=> route) /\ rules' = rules
  <2>1. cmd = "key"
    BY <1>1, <1>4, Course
  <2>2. QED BY <1>3, <2>1 DEF CanRun, Settings, Priorities
<1>5. ASSUME left = 9
      PROVE  link # "absent" /\ conf' = conf \cup {"addr"} /\ (route' <=> route) /\ rules' = rules
  <2>1. cmd = "addr"
    BY <1>1, <1>5, Course
  <2>2. QED BY <1>3, <2>1 DEF CanRun, Settings, Priorities
<1>6. ASSUME left = 8
      PROVE  link # "absent" /\ conf' = conf \cup {"mtu"} /\ (route' <=> route) /\ rules' = rules
  <2>1. cmd = "mtu"
    BY <1>1, <1>6, Course
  <2>2. QED BY <1>3, <2>1 DEF CanRun, Settings, Priorities
<1>7. ASSUME left = 7
      PROVE  (link = "kernel" \/ (link # "absent" /\ sock)) /\ conf' = conf \cup {"fwmark"} /\ (route' <=> route) /\ rules' = rules
  <2>1. cmd = "fwmark"
    BY <1>1, <1>7, Course
  <2>2. QED BY <1>3, <2>1 DEF CanRun, Settings, Priorities
<1>8. ASSUME left = 6
      PROVE  (link = "kernel" \/ (link # "absent" /\ sock)) /\ conf' = conf \cup {"peer"} /\ (route' <=> route) /\ rules' = rules
  <2>1. cmd = "peer"
    BY <1>1, <1>8, Course
  <2>2. QED BY <1>3, <2>1 DEF CanRun, Settings, Priorities
<1>9. ASSUME left = 5
      PROVE  link # "absent" /\ conf' = conf \cup {"up"} /\ (route' <=> route) /\ rules' = rules
  <2>1. cmd = "up"
    BY <1>1, <1>9, Course
  <2>2. QED BY <1>3, <2>1 DEF CanRun, Settings, Priorities
<1>10. ASSUME left = 4
      PROVE  conf' = conf /\ (route' <=> route) /\ rules' = rules
  <2>1. cmd = "rpfilter"
    BY <1>1, <1>10, Course
  <2>2. QED BY <1>3, <2>1 DEF CanRun, Settings, Priorities
<1>11. ASSUME left = 3
      PROVE  "up" \in conf /\ conf' = conf /\ (route' <=> TRUE) /\ rules' = rules
  <2>1. cmd = "route"
    BY <1>1, <1>11, Course
  <2>2. QED BY <1>3, <2>1 DEF CanRun, Settings, Priorities
<1>12. ASSUME left = 2
      PROVE  conf' = conf /\ (route' <=> route) /\ rules' = rules \cup {"200"}
  <2>1. cmd = "200"
    BY <1>1, <1>12, Course
  <2>2. QED BY <1>3, <2>1 DEF CanRun, Settings, Priorities
<1>13. ASSUME left = 1
      PROVE  conf' = conf /\ (route' <=> route) /\ rules' = rules \cup {"300"}
  <2>1. cmd = "300"
    BY <1>1, <1>13, Course
  <2>2. QED BY <1>3, <2>1 DEF CanRun, Settings, Priorities
<1>14. QED BY <1>1, <1>2, <1>4, <1>5, <1>6, <1>7, <1>8, <1>9, <1>10, <1>11, <1>12, <1>13

\* Types.
LEMMA AppStep ==
    ASSUME CourseInv, AppInv, [Next]_vars
    PROVE  AppInv'
<1> USE DEF AppInv, iface, userspace, call, host, history, budgets
<1>1. CASE AddLink
  BY <1>1, Course, Advance DEF AddLink, Runs, Continue, NoFault
<1>2. CASE AddLinkFails
  BY <1>2, Course, Advance DEF AddLinkFails, Runs, KernelFails, UpFails, NoFault, Fault
<1>3. CASE startUserspace
  BY <1>3, Course, Advance DEF startUserspace, Runs, KernelFails, UpFails, NoFault, Fault
<1>4. CASE waitForInterface
  BY <1>4, Course, Advance DEF waitForInterface, Runs, Continue, UpFails, NoFault, Fault
<1>5. CASE Configure
  BY <1>5, Course, Advance, SMTT(30) DEF Configure, Configures, CanRun, Continue, NoFault, Settings, Priorities
<1>6. CASE ConfigureFails
  BY <1>6, Course, Advance, SMTT(30) DEF ConfigureFails, Configures, CanRun, UpFails, NoFault, Fault
<1>7. CASE UpReturns
  BY <1>7, Course, Advance, SMTT(30) DEF UpReturns
<1>8. CASE Undo
  BY <1>8, Course, Advance DEF Undo, DownStep, Dies, NoLink
<1>9. CASE RemoveSocket
  BY <1>9, Course, Advance DEF RemoveSocket, DownStep
<1>10. CASE UndoNot
  BY <1>10, Course, Advance DEF UndoNot, DownStep, NoFault, Fault
<1>11. CASE DownReturns
  BY <1>11, Course, Advance DEF DownReturns
<1>12. CASE Start
  BY <1>12, Course, Advance DEF Start, BeginDown
<1>13. CASE Reconnect
  BY <1>13, Course, Advance DEF Reconnect, BeginDown, NoFault
<1>14. CASE BeginUp
  BY <1>14, Course, Advance DEF BeginUp
<1>15. CASE BeginCleanup
  BY <1>15, Course, Advance DEF BeginCleanup, BeginDown, NoFault
<1>16. CASE Cancel
  BY <1>16, Course, Advance DEF Cancel
<1>17. CASE DaemonUp
  BY <1>17, Course, Advance DEF DaemonUp
<1>18. CASE DaemonGivesUp
  BY <1>18, Course, Advance DEF DaemonGivesUp, Fault
<1>19. CASE DaemonExits
  BY <1>19, Course, Advance DEF DaemonExits, NoLink
<1>20. CASE DaemonKilled
  BY <1>20, Course, Advance DEF DaemonKilled, Fault, NoLink
<1>21. CASE Crash
  BY <1>21, Course, Advance DEF Crash, Alive, NoLink
<1>22. CASE Stopped
  BY <1>22, Course, Advance DEF Stopped, vars
<1>23. CASE UNCHANGED vars
  BY <1>23, Advance DEF vars
<1>24. QED
  BY <1>1, <1>2, <1>3, <1>4, <1>5, <1>6, <1>7, <1>8, <1>9, <1>10, <1>11, <1>12, <1>13,
          <1>14, <1>15, <1>16, <1>17, <1>18, <1>19, <1>20, <1>21, <1>22, <1>23
     DEF Next

\* The interface and wireguard-go.
LEMMA LinkStep ==
    ASSUME CourseInv, AppInv, LinkInv, [Next]_vars
    PROVE  LinkInv'
<1> USE DEF LinkInv, AppInv, iface, userspace, call, host, history, budgets
<1>1. CASE AddLink
  BY <1>1, Course, Advance DEF AddLink, Runs, Continue, NoFault
<1>2. CASE AddLinkFails
  BY <1>2, Course, Advance DEF AddLinkFails, Runs, KernelFails, UpFails, NoFault, Fault
<1>3. CASE startUserspace
  BY <1>3, Course, Advance DEF startUserspace, Runs, KernelFails, UpFails, NoFault, Fault
<1>4. CASE waitForInterface
  BY <1>4, Course, Advance DEF waitForInterface, Runs, Continue, UpFails, NoFault, Fault
<1>5. CASE Configure
  BY <1>5, Course, Advance, ZenonT(60) DEF Configure, Configures, CanRun, Continue, NoFault, Settings, Priorities
<1>6. CASE ConfigureFails
  BY <1>6, Course, Advance, SMTT(30) DEF ConfigureFails, Configures, CanRun, UpFails, NoFault, Fault
<1>7. CASE UpReturns
  BY <1>7, Course, Advance, SMTT(30) DEF UpReturns
<1>8. CASE Undo
  BY <1>8, Course, Advance DEF Undo, DownStep, Dies, NoLink
<1>9. CASE RemoveSocket
  BY <1>9, Course, Advance DEF RemoveSocket, DownStep
<1>10. CASE UndoNot
  BY <1>10, Course, Advance DEF UndoNot, DownStep, NoFault, Fault
<1>11. CASE DownReturns
  BY <1>11, Course, Advance DEF DownReturns
<1>12. CASE Start
  BY <1>12, Course, Advance DEF Start, BeginDown
<1>13. CASE Reconnect
  BY <1>13, Course, Advance DEF Reconnect, BeginDown, NoFault
<1>14. CASE BeginUp
  BY <1>14, Course, Advance DEF BeginUp
<1>15. CASE BeginCleanup
  BY <1>15, Course, Advance DEF BeginCleanup, BeginDown, NoFault
<1>16. CASE Cancel
  BY <1>16, Course, Advance DEF Cancel
<1>17. CASE DaemonUp
  BY <1>17, Course, Advance DEF DaemonUp
<1>18. CASE DaemonGivesUp
  BY <1>18, Course, Advance DEF DaemonGivesUp, Fault
<1>19. CASE DaemonExits
  BY <1>19, Course, Advance DEF DaemonExits, NoLink
<1>20. CASE DaemonKilled
  BY <1>20, Course, Advance DEF DaemonKilled, Fault, NoLink
<1>21. CASE Crash
  BY <1>21, Course, Advance DEF Crash, Alive, NoLink
<1>22. CASE Stopped
  BY <1>22, Course, Advance DEF Stopped, vars
<1>23. CASE UNCHANGED vars
  BY <1>23, Advance DEF vars
<1>24. QED
  BY <1>1, <1>2, <1>3, <1>4, <1>5, <1>6, <1>7, <1>8, <1>9, <1>10, <1>11, <1>12, <1>13,
          <1>14, <1>15, <1>16, <1>17, <1>18, <1>19, <1>20, <1>21, <1>22, <1>23
     DEF Next

\* A device outlives its wireguard-go's socket.
LEMMA OrphanStep ==
    ASSUME CourseInv, AppInv, OrphanInv, [Next]_vars
    PROVE  OrphanInv'
<1> USE DEF OrphanInv
<1> SUFFICES ASSUME link' = "orphan", sock' PROVE app' = "off" \/ (op' = "Down" /\ left' >= 3)
  OBVIOUS
<1>2. CASE Undo \/ RemoveSocket \/ UndoNot
  <2>0. DownStep
    BY <1>2 DEF Undo, RemoveSocket, UndoNot
  <2>1. op = "Down" /\ left \in 1..6 /\ op' = "Down" /\ left' = left - 1
    BY <2>0, Course, Advance DEF DownStep
  <2>2. CASE left <= 3
    <3>1. cmd # "pkill" /\ (left = 3 => cmd = "rmsock") /\ cmd # "linkdel"
      <4>1. todo # << >> /\ left \in {1, 2, 3}
        <5>1. todo # << >> BY <2>0 DEF DownStep
        <5>2. left \in {1, 2, 3} BY <2>1, <2>2, SMT
        <5>3. QED BY <5>1, <5>2
      <4>2. CASE left = 3
        BY <2>1, <4>1, <4>2, Course
      <4>3. CASE left \in {1, 2}
        BY <2>1, <4>1, <4>3, Course
      <4>4. QED BY <4>1, <4>2, <4>3
    <3>2. link = "orphan" /\ sock /\ left # 3
      BY <1>2, <3>1 DEF Undo, RemoveSocket, UndoNot, iface, userspace
    <3>3. app # "off"
      BY <2>1 DEF AppInv
    <3>4. QED BY <2>1, <2>2, <3>2, <3>3
  <2>3. QED BY <2>1, <2>2
<1>3. CASE Start \/ Reconnect \/ BeginCleanup
  BY <1>3, Advance DEF Start, Reconnect, BeginCleanup, BeginDown
<1>4. CASE Crash
  BY <1>4 DEF Crash
<1>5. CASE \/ DaemonUp \/ DaemonGivesUp \/ DaemonExits \/ DaemonKilled \/ Cancel
           \/ Stopped \/ UNCHANGED vars
  <2>1. UNCHANGED <<app, op, todo>>
    BY <1>5 DEF DaemonUp, DaemonGivesUp, DaemonExits, DaemonKilled, Cancel, Stopped, call, vars
  <2>2. link = "orphan" /\ sock
    BY <1>5 DEF DaemonUp, DaemonGivesUp, DaemonExits, DaemonKilled, Cancel, Stopped,
       NoLink, iface, userspace, vars
  <2>3. QED BY <2>1, <2>2, Advance
<1>6. CASE \/ AddLink \/ AddLinkFails \/ startUserspace \/ waitForInterface \/ Configure
           \/ ConfigureFails \/ UpReturns \/ BeginUp
  <2>1. op = "Up" \/ (op = "none" /\ app = "requests")
    BY <1>6, Course DEF AddLink, AddLinkFails, startUserspace, waitForInterface, Configure,
       ConfigureFails, Configures, UpReturns, BeginUp, Runs
  <2>2. UNCHANGED sock /\ (link' = link \/ link' = "kernel")
    BY <1>6 DEF AddLink, AddLinkFails, startUserspace, waitForInterface, Configure,
       ConfigureFails, UpReturns, BeginUp, iface, userspace
  <2>3. op # "Down" /\ app # "off"
    BY <2>1 DEF AppInv
  <2>4. QED BY <2>2, <2>3
<1>7. CASE DownReturns
  <2>1. op = "Down" /\ left = 0 /\ UNCHANGED <<link, sock>>
    BY <1>7, Course DEF DownReturns, iface, userspace
  <2>2. app # "off"
    BY <2>1 DEF AppInv
  <2>3. QED BY <2>1, <2>2
<1>8. QED
  BY <1>2, <1>3, <1>4, <1>5, <1>6, <1>7 DEF Next

\* The mark comes first.
LEMMA MarkStep ==
    ASSUME CourseInv, AppInv, LinkInv, OrphanInv, MarkInv, [Next]_vars
    PROVE  MarkInv'
<1> USE DEF MarkInv, AppInv, LinkInv, iface, userspace, call, host, history, budgets
<1>1. CASE AddLink
  BY <1>1, Course, Advance DEF AddLink, Runs, Continue, NoFault
<1>2. CASE AddLinkFails
  BY <1>2, Course, Advance DEF AddLinkFails, Runs, KernelFails, UpFails, NoFault, Fault
<1>3. CASE startUserspace
  BY <1>3, Course, Advance DEF startUserspace, Runs, KernelFails, UpFails, NoFault, Fault
<1>4. CASE waitForInterface
  BY <1>4, Course, Advance DEF waitForInterface, Runs, Continue, UpFails, NoFault, Fault
<1>5. CASE Configure
  <2>1. link = "orphan" => ~sock
    BY <1>5, ConfigureDoes DEF OrphanInv
  <2>2. QED BY <1>5, <2>1, ConfigureDoes, SMTT(30)
<1>6. CASE ConfigureFails
  BY <1>6, Course, Advance, SMTT(30) DEF ConfigureFails, Configures, CanRun, UpFails, NoFault, Fault
<1>7. CASE UpReturns
  BY <1>7, Course, Advance, SMTT(30) DEF UpReturns
<1>8. CASE Undo
  BY <1>8, Course, Advance DEF Undo, DownStep, Dies, NoLink
<1>9. CASE RemoveSocket
  BY <1>9, Course, Advance DEF RemoveSocket, DownStep
<1>10. CASE UndoNot
  BY <1>10, Course, Advance DEF UndoNot, DownStep, NoFault, Fault
<1>11. CASE DownReturns
  BY <1>11, Course, Advance DEF DownReturns
<1>12. CASE Start
  BY <1>12, Course, Advance DEF Start, BeginDown
<1>13. CASE Reconnect
  BY <1>13, Course, Advance DEF Reconnect, BeginDown, NoFault
<1>14. CASE BeginUp
  BY <1>14, Course, Advance DEF BeginUp
<1>15. CASE BeginCleanup
  BY <1>15, Course, Advance DEF BeginCleanup, BeginDown, NoFault
<1>16. CASE Cancel
  BY <1>16, Course, Advance DEF Cancel
<1>17. CASE DaemonUp
  BY <1>17, Course, Advance DEF DaemonUp
<1>18. CASE DaemonGivesUp
  BY <1>18, Course, Advance DEF DaemonGivesUp, Fault
<1>19. CASE DaemonExits
  BY <1>19, Course, Advance DEF DaemonExits, NoLink
<1>20. CASE DaemonKilled
  BY <1>20, Course, Advance DEF DaemonKilled, Fault, NoLink
<1>21. CASE Crash
  BY <1>21, Course, Advance DEF Crash, Alive, NoLink
<1>22. CASE Stopped
  BY <1>22, Course, Advance DEF Stopped, vars
<1>23. CASE UNCHANGED vars
  BY <1>23, Advance DEF vars
<1>24. QED
  BY <1>1, <1>2, <1>3, <1>4, <1>5, <1>6, <1>7, <1>8, <1>9, <1>10, <1>11, <1>12, <1>13,
          <1>14, <1>15, <1>16, <1>17, <1>18, <1>19, <1>20, <1>21, <1>22, <1>23
     DEF Next

\* Down undoes.
LEMMA DownOpStep ==
    ASSUME CourseInv, AppInv, LinkInv, DownInv, [Next]_vars
    PROVE  DownInv'
<1> USE DEF DownInv, AppInv, LinkInv, iface, userspace, call, host, history, budgets
<1>1. CASE AddLink
  BY <1>1, Course, Advance DEF AddLink, Runs, Continue, NoFault
<1>2. CASE AddLinkFails
  BY <1>2, Course, Advance DEF AddLinkFails, Runs, KernelFails, UpFails, NoFault, Fault
<1>3. CASE startUserspace
  BY <1>3, Course, Advance DEF startUserspace, Runs, KernelFails, UpFails, NoFault, Fault
<1>4. CASE waitForInterface
  BY <1>4, Course, Advance DEF waitForInterface, Runs, Continue, UpFails, NoFault, Fault
<1>5. CASE Configure
  BY <1>5, Course, Advance, SMTT(30) DEF Configure, Configures, CanRun, Continue, NoFault, Settings, Priorities
<1>6. CASE ConfigureFails
  BY <1>6, Course, Advance, SMTT(30) DEF ConfigureFails, Configures, CanRun, UpFails, NoFault, Fault
<1>7. CASE UpReturns
  BY <1>7, Course, Advance, SMTT(30) DEF UpReturns
<1>8. CASE Undo
  BY <1>8, Course, Advance DEF Undo, DownStep, Dies, NoLink
<1>9. CASE RemoveSocket
  BY <1>9, Course, Advance DEF RemoveSocket, DownStep
<1>10. CASE UndoNot
  BY <1>10, Course, Advance DEF UndoNot, DownStep, NoFault, Fault
<1>11. CASE DownReturns
  BY <1>11, Course, Advance DEF DownReturns
<1>12. CASE Start
  BY <1>12, Course, Advance DEF Start, BeginDown
<1>13. CASE Reconnect
  BY <1>13, Course, Advance DEF Reconnect, BeginDown, NoFault
<1>14. CASE BeginUp
  BY <1>14, Course, Advance DEF BeginUp
<1>15. CASE BeginCleanup
  BY <1>15, Course, Advance DEF BeginCleanup, BeginDown, NoFault
<1>16. CASE Cancel
  BY <1>16, Course, Advance DEF Cancel
<1>17. CASE DaemonUp
  BY <1>17, Course, Advance DEF DaemonUp
<1>18. CASE DaemonGivesUp
  BY <1>18, Course, Advance DEF DaemonGivesUp, Fault
<1>19. CASE DaemonExits
  BY <1>19, Course, Advance DEF DaemonExits, NoLink
<1>20. CASE DaemonKilled
  BY <1>20, Course, Advance DEF DaemonKilled, Fault, NoLink
<1>21. CASE Crash
  BY <1>21, Course, Advance DEF Crash, Alive, NoLink
<1>22. CASE Stopped
  BY <1>22, Course, Advance DEF Stopped, vars
<1>23. CASE UNCHANGED vars
  BY <1>23, Advance DEF vars
<1>24. QED
  BY <1>1, <1>2, <1>3, <1>4, <1>5, <1>6, <1>7, <1>8, <1>9, <1>10, <1>11, <1>12, <1>13,
          <1>14, <1>15, <1>16, <1>17, <1>18, <1>19, <1>20, <1>21, <1>22, <1>23
     DEF Next

\* Up does.
LEMMA UpOpStep ==
    ASSUME CourseInv, AppInv, LinkInv, UpInv, [Next]_vars
    PROVE  UpInv'
<1> USE DEF UpInv, AppInv, LinkInv, iface, userspace, call, host, history, budgets
<1>1. CASE AddLink
  BY <1>1, Course, Advance DEF AddLink, Runs, Continue, NoFault
<1>2. CASE AddLinkFails
  BY <1>2, Course, Advance DEF AddLinkFails, Runs, KernelFails, UpFails, NoFault, Fault
<1>3. CASE startUserspace
  <2>1. Runs("create") /\ op = "Up" /\ left = 11
    BY <1>3, Course DEF startUserspace
  <2>2. CASE UpFails(TRUE)
    BY <2>2 DEF UpFails
  <2>3. CASE todo' = <<"wait">> \o Tail(todo) /\ UNCHANGED <<op, app>>
    <3>1. left' = 11
      BY <2>1, <2>3, Advance
    <3>2. UNCHANGED dying /\ (excuse => excuse')
      BY <1>3, <2>1, <2>3 DEF startUserspace, UpFails
    <3>3. QED BY <2>1, <2>3, <3>1, <3>2
  <2>4. QED BY <1>3, <2>2, <2>3 DEF startUserspace
<1>4. CASE waitForInterface
  BY <1>4, Course, Advance DEF waitForInterface, Runs, Continue, UpFails, NoFault, Fault
<1>5. CASE Configure
  BY <1>5, ConfigureDoes
<1>6. CASE ConfigureFails
  BY <1>6, Course, Advance, SMTT(30) DEF ConfigureFails, Configures, CanRun, UpFails, NoFault, Fault
<1>7. CASE UpReturns
  BY <1>7, Course, Advance, SMTT(30) DEF UpReturns
<1>8. CASE Undo
  BY <1>8, Course, Advance DEF Undo, DownStep, Dies, NoLink
<1>9. CASE RemoveSocket
  BY <1>9, Course, Advance DEF RemoveSocket, DownStep
<1>10. CASE UndoNot
  BY <1>10, Course, Advance DEF UndoNot, DownStep, NoFault, Fault
<1>11. CASE DownReturns
  BY <1>11, Course, Advance DEF DownReturns
<1>12. CASE Start
  BY <1>12, Course, Advance DEF Start, BeginDown
<1>13. CASE Reconnect
  BY <1>13, Course, Advance DEF Reconnect, BeginDown, NoFault
<1>14. CASE BeginUp
  <2>1. left' = 11 /\ dying' = dying /\ (~excuse' => dying = 0)
    BY <1>14, Advance, Zenon DEF BeginUp
  <2>2. QED BY <2>1
<1>15. CASE BeginCleanup
  BY <1>15, Course, Advance DEF BeginCleanup, BeginDown, NoFault
<1>16. CASE Cancel
  BY <1>16, Course, Advance DEF Cancel
<1>17. CASE DaemonUp
  BY <1>17, Course, Advance DEF DaemonUp
<1>18. CASE DaemonGivesUp
  BY <1>18, Course, Advance DEF DaemonGivesUp, Fault
<1>19. CASE DaemonExits
  BY <1>19, Course, Advance DEF DaemonExits, NoLink
<1>20. CASE DaemonKilled
  BY <1>20, Course, Advance DEF DaemonKilled, Fault, NoLink
<1>21. CASE Crash
  BY <1>21, Course, Advance DEF Crash, Alive, NoLink
<1>22. CASE Stopped
  BY <1>22, Course, Advance DEF Stopped, vars
<1>23. CASE UNCHANGED vars
  BY <1>23, Advance DEF vars
<1>24. QED
  BY <1>1, <1>2, <1>3, <1>4, <1>5, <1>6, <1>7, <1>8, <1>9, <1>10, <1>11, <1>12, <1>13,
          <1>14, <1>15, <1>16, <1>17, <1>18, <1>19, <1>20, <1>21, <1>22, <1>23
     DEF Next

\* An Up that fails for a reason is excused.
LEMMA ExcusedFailure ==
    ASSUME AppInv, UpFails(TRUE) \/ (UpFails(FALSE) /\ (dirty \/ excuse))
    PROVE  CleanInv'
<1>1. app' = "exiting" /\ op' = "none" /\ (~dirty' => excuse')
  <2>1. CASE UpFails(TRUE)
    BY <2>1 DEF UpFails
  <2>2. CASE UpFails(FALSE) /\ (dirty \/ excuse)
    BY <2>2 DEF UpFails
  <2>3. QED BY <2>1, <2>2
<1>2. QED BY <1>1 DEF CleanInv

\* What was there before is no reason to fail.
LEMMA CleanStep ==
    ASSUME CourseInv, AppInv, LinkInv, DownInv, UpInv, CleanInv, [Next]_vars
    PROVE  CleanInv'
<1> USE DEF CleanInv, AppInv, LinkInv, DownInv, UpInv, iface, userspace, call, host,
            history, budgets
<1>1. CASE AddLink
  BY <1>1, Course, Advance DEF AddLink, Runs, Continue, NoFault
<1>2. CASE AddLinkFails
  <2>1. Runs("create") /\ op = "Up" /\ left = 11 /\ cmd = "create"
    BY <1>2, Course DEF AddLinkFails, Runs
  <2>2. link # "absent" => dirty \/ excuse
    BY <2>1
  <2>3. CASE KernelFails /\ UpFails(~Live \/ ~hasKernel)
    <3>1. CASE ~Live \/ ~hasKernel
      BY <2>3, <3>1 DEF UpFails
    <3>2. CASE Live /\ hasKernel
      <4>1. dirty \/ excuse
        BY <2>2, <2>3, <3>2 DEF KernelFails
      <4>2. QED BY <2>3, <4>1 DEF UpFails
    <3>3. QED BY <3>1, <3>2
  <2>4. CASE UpFails(TRUE)
    BY <2>4, ExcusedFailure
  <2>5. QED BY <1>2, <2>3, <2>4 DEF AddLinkFails
<1>3. CASE startUserspace
  <2>1. Runs("create") /\ op = "Up" /\ left = 11 /\ cmd = "create"
    BY <1>3, Course DEF startUserspace, Runs
  <2>2. CASE UpFails(TRUE)
    BY <2>2, ExcusedFailure
  <2>3. CASE todo' = <<"wait">> \o Tail(todo) /\ ~UpFails(TRUE)
    <3>1. left' = 11 /\ cmd' = "wait" /\ op' = "Up" /\ app' = app
      BY <1>3, <2>1, <2>3, Advance DEF startUserspace
    <3>2. /\ UNCHANGED <<link, conf, route, rules, dirty, sock>>
          /\ daemon' = (IF daemon = "none" THEN "starting" ELSE daemon)
          /\ excuse => excuse'
      BY <1>3, <2>3 DEF startUserspace
    <3>3. QED BY <2>1, <3>1, <3>2
  <2>4. QED BY <1>3, <2>2, <2>3 DEF startUserspace
<1>4. CASE waitForInterface
  <2>1. Runs("wait") /\ op = "Up" /\ left = 11 /\ cmd = "wait" /\ todo # << >>
    BY <1>4, Course DEF waitForInterface, Runs
  <2>2. UNCHANGED <<iface, rules, userspace>>
    BY <1>4 DEF waitForInterface
  <2>3. CASE sock /\ Continue
    <3>1. left' = 10 /\ UNCHANGED <<op, app, history>>
      BY <2>1, <2>3, Advance DEF Continue
    <3>2. QED BY <2>1, <2>2, <2>3, <3>1
  <2>4. CASE UpFails(TRUE)
    BY <2>4, ExcusedFailure
  <2>5. CASE ~sock /\ daemon # "starting" /\ UpFails(FALSE)
    <3>1. dirty \/ excuse
      BY <2>1, <2>5
    <3>2. QED BY <2>5, <3>1, ExcusedFailure
  <2>6. QED BY <1>4, <2>3, <2>4, <2>5 DEF waitForInterface
<1>5. CASE Configure
  BY <1>5, ConfigureDoes
<1>6. CASE ConfigureFails
  <2>1. op = "Up" /\ todo # << >> /\ cmd \notin {"create", "wait"} /\ left \in 1..10
    BY <1>6, Course DEF ConfigureFails, Configures
  <2>2. CASE UpFails(TRUE)
    BY <2>2, ExcusedFailure
  <2>3. CASE Live /\ ~CanRun(cmd) /\ cmd # "rpfilter" /\ UpFails(FALSE)
    <3>1. ~dirty /\ ~excuse => CanRun(cmd)
      <4>1. CASE left = 10
        <5>1. cmd = "key"
          BY <2>1, <4>1, Course
        <5>2. QED BY <2>1, <4>1, <5>1 DEF CanRun
      <4>2. CASE left = 9
        <5>1. cmd = "addr"
          BY <2>1, <4>2, Course
        <5>2. QED BY <2>1, <4>2, <5>1 DEF CanRun
      <4>3. CASE left = 8
        <5>1. cmd = "mtu"
          BY <2>1, <4>3, Course
        <5>2. QED BY <2>1, <4>3, <5>1 DEF CanRun
      <4>4. CASE left = 7
        <5>1. cmd = "fwmark"
          BY <2>1, <4>4, Course
        <5>2. QED BY <2>1, <4>4, <5>1 DEF CanRun
      <4>5. CASE left = 6
        <5>1. cmd = "peer"
          BY <2>1, <4>5, Course
        <5>2. QED BY <2>1, <4>5, <5>1 DEF CanRun
      <4>6. CASE left = 5
        <5>1. cmd = "up"
          BY <2>1, <4>6, Course
        <5>2. QED BY <2>1, <4>6, <5>1 DEF CanRun
      <4>7. CASE left = 4
        <5>1. cmd = "rpfilter"
          BY <2>1, <4>7, Course
        <5>2. QED BY <2>3, <2>1, <4>7, <5>1 DEF CanRun
      <4>8. CASE left = 3
        <5>1. cmd = "route"
          BY <2>1, <4>8, Course
        <5>2. QED BY <2>1, <4>8, <5>1 DEF CanRun
      <4>9. CASE left = 2
        <5>1. cmd = "200"
          BY <2>1, <4>9, Course
        <5>2. QED BY <2>1, <4>9, <5>1 DEF CanRun
      <4>10. CASE left = 1
        <5>1. cmd = "300"
          BY <2>1, <4>10, Course
        <5>2. QED BY <2>1, <4>10, <5>1 DEF CanRun
      <4>11. QED BY <2>1, <4>1, <4>2, <4>3, <4>4, <4>5, <4>6, <4>7, <4>8, <4>9, <4>10
    <3>2. QED BY <2>3, <3>1, ExcusedFailure
  <2>4. CASE UpFails(~Live \/ cmd = "rpfilter") /\ (~Live \/ cmd = "rpfilter")
    BY <2>4 DEF UpFails
  <2>5. CASE UpFails(~Live \/ cmd = "rpfilter") /\ Live /\ cmd # "rpfilter"
    BY <1>6, <2>3, <2>5 DEF ConfigureFails, UpFails, NoFault, Fault
  <2>6. QED BY <1>6, <2>2, <2>4, <2>5 DEF ConfigureFails
<1>7. CASE UpReturns
  BY <1>7, Course, Advance, SMTT(30) DEF UpReturns
<1>8. CASE Undo
  BY <1>8, Course, Advance DEF Undo, DownStep, Dies, NoLink
<1>9. CASE RemoveSocket
  BY <1>9, Course, Advance DEF RemoveSocket, DownStep
<1>10. CASE UndoNot
  BY <1>10, Course, Advance DEF UndoNot, DownStep, NoFault, Fault
<1>11. CASE DownReturns
  <2>1. op = "Down" /\ todo = << >> /\ left = 0 /\ op' = "none" /\ app' \in {"off", "requests"}
    BY <1>11, Course DEF DownReturns
  <2>2. UNCHANGED <<link, conf, route, rules, daemon, sock, dirty, excuse>>
    BY <1>11 DEF DownReturns
  <2>3. ~dirty => /\ ~route /\ link # "kernel" /\ daemon = "none" /\ ~sock
                  /\ "200" \notin rules /\ "300" \notin rules
    BY <2>1
  <2>4. ~dirty => rules = {}
    BY <2>3 DEF Priorities
  <2>5. QED BY <2>1, <2>2, <2>3, <2>4
<1>12. CASE Start
  BY <1>12, Course, Advance DEF Start, BeginDown
<1>13. CASE Reconnect
  BY <1>13, Course, Advance DEF Reconnect, BeginDown, NoFault
<1>14. CASE BeginUp
  <2>1. /\ left' = 11 /\ cmd' = "create" /\ op = "none" /\ app = "requests" /\ app' = app
        /\ UNCHANGED <<link, route, rules, daemon, sock, dirty>>
    BY <1>14, Advance DEF BeginUp
  <2>2. ~excuse' => ~excuse /\ dying = 0
    BY <1>14, Zenon DEF BeginUp
  <2>3. ~excuse' /\ ~dirty => link = "absent" /\ daemon = "none" /\ ~sock /\ ~route /\ rules = {}
    BY <2>1, <2>2
  <2>4. QED BY <2>1, <2>3
<1>15. CASE BeginCleanup
  BY <1>15, Course, Advance DEF BeginCleanup, BeginDown, NoFault
<1>16. CASE Cancel
  BY <1>16, Course, Advance DEF Cancel
<1>17. CASE DaemonUp
  BY <1>17, Course, Advance DEF DaemonUp
<1>18. CASE DaemonGivesUp
  BY <1>18, Course, Advance DEF DaemonGivesUp, Fault
<1>19. CASE DaemonExits
  BY <1>19, Course, Advance DEF DaemonExits, NoLink
<1>20. CASE DaemonKilled
  BY <1>20, Course, Advance DEF DaemonKilled, Fault, NoLink
<1>21. CASE Crash
  BY <1>21, Course, Advance DEF Crash, Alive, NoLink
<1>22. CASE Stopped
  BY <1>22, Course, Advance DEF Stopped, vars
<1>23. CASE UNCHANGED vars
  BY <1>23, Advance DEF vars
<1>24. QED
  BY <1>1, <1>2, <1>3, <1>4, <1>5, <1>6, <1>7, <1>8, <1>9, <1>10, <1>11, <1>12, <1>13,
          <1>14, <1>15, <1>16, <1>17, <1>18, <1>19, <1>20, <1>21, <1>22, <1>23
     DEF Next

-----------------------------------------------------------------------------
(* The theorems.                                                           *)

\* The invariant holds at first, ...
LEMMA WireInit == Init => WireInv
<1> SUFFICES ASSUME Init PROVE WireInv
  OBVIOUS
<1>1. CourseInv /\ left = 0
  BY Ends DEF Init, CourseInv, left
<1>2. AppInv /\ LinkInv /\ OrphanInv
  BY DEF Init, AppInv, LinkInv, OrphanInv
<1>3. MarkInv /\ DownInv /\ UpInv /\ CleanInv
  BY DEF Init, MarkInv, DownInv, UpInv, CleanInv
<1>4. QED BY <1>1, <1>2, <1>3 DEF WireInv

\* ... and every step keeps it.
LEMMA WireStep == WireInv /\ [Next]_vars => WireInv'
BY CourseStep, AppStep, LinkStep, OrphanStep, MarkStep, DownOpStep, UpOpStep, CleanStep DEF WireInv

\* So it always holds.
LEMMA WireAlways == Spec => []WireInv
BY WireInit, WireStep, PTL DEF Spec

\* An Up that succeeds has configured everything, on whatever an earlier process,
\* a failed Up or a Down that could not run left behind; one that fails has a
\* reason other than that, once Down could run.  For every backend and host.
THEOREM UpIsReliable == Spec => []UpReliable
<1>1. WireInv => UpReliable
  <2> SUFFICES ASSUME WireInv PROVE UpReliable
    OBVIOUS
  <2> USE DEF WireInv
  <2>1. ASSUME app = "connected", op = "none", ~excuse PROVE Configured
    <3>1. left = 0
      BY <2>1, Course
    <3>2. /\ link # "absent" /\ route /\ dying = 0 /\ (link = "tun" => sock)
          /\ {"key", "addr", "mtu", "fwmark", "peer", "up"} \subseteq conf
          /\ {"200", "300"} \subseteq rules
      BY <2>1, <3>1 DEF UpInv
    <3>3. conf = Settings /\ rules = Priorities
      BY <3>2 DEF AppInv, Settings, Priorities
    <3>4. link \in {"kernel", "tun"}
      BY <3>2 DEF AppInv, LinkInv
    <3>5. QED BY <3>2, <3>3, <3>4 DEF Configured, LinkInv
  <2>2. app = "exiting" /\ ~dirty => excuse
    BY DEF CleanInv
  <2>3. QED BY <2>1, <2>2 DEF UpReliable
<1>2. QED BY <1>1, WireAlways, PTL

\* WireGuard's own packets are never routed into the tunnel: the mark is set
\* before the peer and the route, and goes only with them.
THEOREM NeverLoops == Spec => []NoRoutingLoop
<1>1. WireInv => NoRoutingLoop
  BY DEF WireInv, MarkInv, NoRoutingLoop
<1>2. QED BY <1>1, WireAlways, PTL

\* A Down all of whose commands ran leaves nothing of what it found, be it half
\* an interface, a wireguard-go on its way up or the rules of a dead process.
THEOREM DownIsComplete == Spec => []DownRestores
<1>1. WireInv => DownRestores
  <2> SUFFICES ASSUME WireInv, op = "Down", todo = << >>, ~dirty
               PROVE  /\ ~route /\ rules = {}
                      /\ link = "absent" \/ (link = "orphan" /\ dying # 0)
                      /\ daemon = "none" /\ ~sock
    BY DEF DownRestores
  <2>1. left = 0
    BY Course DEF WireInv
  <2>2. /\ ~route /\ link # "kernel" /\ daemon = "none" /\ ~sock
        /\ "200" \notin rules /\ "300" \notin rules
    BY <2>1 DEF WireInv, DownInv
  <2>3. rules = {}
    BY <2>2 DEF WireInv, AppInv, Priorities
  <2>4. QED BY <2>2, <2>3 DEF WireInv, AppInv, LinkInv
<1>2. QED BY <1>1, WireAlways, PTL
=============================================================================
