--------------------------- MODULE PortSyncProofs ---------------------------
(***************************************************************************)
(* Proofs about PortSync, for every client, any number of announcements,   *)
(* failures and connections: neither the client nor the script goes back   *)
(* from a newer port to an older one.                                      *)
(***************************************************************************)
EXTENDS PortSync, SequenceTheorems, TLAPS

Frames == [port : Nat, clientOK : BOOLEAN, scriptOK : BOOLEAN]

PortTypes ==
    /\ portCh \in Nat /\ last \in Nat /\ client \in Nat /\ script \in Nat
    /\ frames \in Seq(Frames)

\* While a call of handleNewPort is under way there is a port it is about.
CallInv ==
    /\ at \in {"wait", "client", "script"} <=> frames # << >>
    /\ at \in {"select", "wait", "client", "script", "done"}

\* The port p is no older than what the client and the script were told.
Newest(p) == client <= p /\ script <= p

\* A port on its way is no older than what has been applied before it: the one of
\* the innermost call, the one in the channel, the one about to be sent.  Those the
\* outer calls are about are never applied again.
OrderInv ==
    /\ portCh <= last /\ Newest(last)
    /\ portCh # None => Newest(portCh)
    /\ frames # << >> => Newest(top.port) /\ top.port <= last
    /\ frames # << >> /\ portCh # None => top.port <= portCh

SyncInv == PortTypes /\ CallInv /\ OrderInv

Forward == client' >= client /\ script' >= script

\* The innermost call after one more, and after a change of its flags.
LEMMA TopOf ==
    ASSUME NEW s \in Seq(Frames)
    PROVE  /\ \A f \in Frames : /\ Append(s, f) \in Seq(Frames) /\ Append(s, f) # << >>
                                /\ Append(s, f)[Len(Append(s, f))] = f
           /\ s # << >> => /\ s[Len(s)] \in Frames /\ Len(s) \in 1..Len(s)
                           /\ \A b \in BOOLEAN :
                                LET t == [s EXCEPT ![Len(s)].clientOK = b]
                                    u == [s EXCEPT ![Len(s)].scriptOK = b] IN
                                /\ t \in Seq(Frames) /\ t # << >> /\ t[Len(t)].port = s[Len(s)].port
                                /\ u \in Seq(Frames) /\ u # << >> /\ u[Len(u)].port = s[Len(s)].port
<1>1. ASSUME NEW f \in Frames
      PROVE  /\ Append(s, f) \in Seq(Frames) /\ Append(s, f) # << >>
             /\ Append(s, f)[Len(Append(s, f))] = f
  BY AppendProperties
<1>2. ASSUME s # << >> PROVE s[Len(s)] \in Frames /\ Len(s) \in 1..Len(s)
  BY <1>2
<1>3. ASSUME s # << >>, NEW b \in BOOLEAN
      PROVE  LET t == [s EXCEPT ![Len(s)].clientOK = b]
                 u == [s EXCEPT ![Len(s)].scriptOK = b] IN
             /\ t \in Seq(Frames) /\ t # << >> /\ t[Len(t)].port = s[Len(s)].port
             /\ u \in Seq(Frames) /\ u # << >> /\ u[Len(u)].port = s[Len(s)].port
  <2> DEFINE n == Len(s)
             f == [s[n] EXCEPT !.clientOK = b]
             g == [s[n] EXCEPT !.scriptOK = b]
  <2>1. s[n] \in Frames /\ n \in 1..n /\ n \in Nat
    BY <1>2, <1>3
  <2>2. f \in Frames /\ f.port = s[n].port /\ g \in Frames /\ g.port = s[n].port
    BY <2>1 DEF Frames
  <2> HIDE DEF f, g, n
  <2>3. ASSUME NEW h \in Frames
        PROVE  LET t == [s EXCEPT ![n] = h] IN
               t \in Seq(Frames) /\ Len(t) = n /\ t[n] = h
    BY <2>1, ExceptSeq DEF n
  <2>4. \A h \in Frames : LET t == [s EXCEPT ![n] = h] IN t # << >>
    BY <2>1, <2>3
  <2>5. /\ [s EXCEPT ![n].clientOK = b] = [s EXCEPT ![n] = f]
        /\ [s EXCEPT ![n].scriptOK = b] = [s EXCEPT ![n] = g]
    BY DEF f, g
  <2> DEFINE t == [s EXCEPT ![n] = f]
             u == [s EXCEPT ![n] = g]
  <2>6. /\ t \in Seq(Frames) /\ Len(t) = n /\ t[n] = f /\ t # << >>
        /\ u \in Seq(Frames) /\ Len(u) = n /\ u[n] = g /\ u # << >>
    BY <2>2, <2>3, <2>4
  <2> HIDE DEF t, u
  <2>7. /\ t \in Seq(Frames) /\ t # << >> /\ t[Len(t)].port = s[n].port
        /\ u \in Seq(Frames) /\ u # << >> /\ u[Len(u)].port = s[n].port
    BY <2>2, <2>6
  <2>8. QED BY <2>5, <2>7 DEF n, t, u
<1>4. QED BY <1>1, <1>2, <1>3

\* An accepted or a rejected request leaves the innermost call's port.
LEMMA Answered ==
    ASSUME SyncInv, Accepted \/ Rejected, at = "client"
    PROVE  /\ frames \in Seq(Frames) /\ frames # << >>
           /\ frames' \in Seq(Frames) /\ frames' # << >> /\ top'.port = top.port
           /\ at' \in {"client", "script"}
<1>1. frames \in Seq(Frames) /\ frames # << >>
  BY DEF SyncInv, PortTypes, CallInv
<1>2. CASE UNCHANGED frames
  BY <1>1, <1>2 DEF Accepted, Rejected, top
<1>3. CASE frames' = [frames EXCEPT ![Len(frames)].clientOK = TRUE]
  BY <1>1, <1>3, TopOf DEF Accepted, Rejected, top
<1>4. QED BY <1>2, <1>3 DEF Accepted, Rejected

\* A step that keeps the ports or applies that of the innermost call keeps their
\* order and applies nothing older.
LEMMA Applies ==
    ASSUME SyncInv, frames # << >>, UNCHANGED <<portCh, last>>,
           client' \in {client, top.port}, script' \in {script, top.port},
           frames' \in Seq(Frames),
           frames' # << >> => top'.port = top.port,
           CallInv'
    PROVE  SyncInv' /\ Forward
<1>1. /\ top.port \in Nat /\ portCh \in Nat /\ last \in Nat /\ client \in Nat /\ script \in Nat
  BY TopOf DEF SyncInv, PortTypes, top, Frames
<1>2. PortTypes'
  BY <1>1 DEF PortTypes
<1>3. PICK p \in Nat : p = top.port
  BY <1>1
<1>4. client <= p /\ script <= p /\ p <= last /\ (portCh # None => p <= portCh) /\ portCh <= last
  BY <1>3 DEF SyncInv, OrderInv, Newest
<1>5. client' \in {client, p} /\ script' \in {script, p} /\ (frames' # << >> => top'.port = p)
  BY <1>3
<1>6. Forward /\ client' <= p /\ script' <= p
  BY <1>1, <1>4, <1>5 DEF Forward
<1>7. client' \in Nat /\ script' \in Nat
  BY <1>1, <1>5
<1>8. client' <= last /\ script' <= last /\ (portCh # None => client' <= portCh /\ script' <= portCh)
  BY <1>1, <1>4, <1>6, <1>7
<1>9. OrderInv'
  BY <1>4, <1>5, <1>6, <1>8 DEF OrderInv, Newest, None
<1>10. QED BY <1>2, <1>6, <1>9 DEF SyncInv

\* Every step keeps the order of the ports and applies nothing older.
LEMMA SyncStep ==
    ASSUME SyncInv, Next
    PROVE  SyncInv' /\ Forward
<1>0. /\ portCh \in Nat /\ last \in Nat /\ client \in Nat /\ script \in Nat /\ frames \in Seq(Frames)
      /\ CallInv
      /\ portCh <= last /\ client <= last /\ script <= last
      /\ portCh # None => client <= portCh /\ script <= portCh
      /\ frames # << >> => client <= top.port /\ script <= top.port /\ top.port <= last /\ top.port \in Nat
      /\ frames # << >> /\ portCh # None => top.port <= portCh
  BY TopOf DEF SyncInv, PortTypes, OrderInv, Newest, top, Frames
<1>1. CASE Drain
  <2>1. /\ UNCHANGED <<frames, at, client, script>> /\ last' = last + 1 /\ portCh' = 0
    BY <1>1 DEF Drain, peer, None
  <2>2. UNCHANGED top /\ CallInv'
    BY <1>0, <2>1 DEF top, CallInv
  <2>3. PortTypes' /\ Forward
    BY <1>0, <2>1 DEF PortTypes, Forward
  <2>4. OrderInv'
    BY <1>0, <2>1, <2>2 DEF OrderInv, Newest, None
  <2>5. QED BY <2>2, <2>3, <2>4 DEF SyncInv
<1>2. CASE Send
  <2>1. /\ UNCHANGED <<frames, at, client, script, last>> /\ portCh' = last
    BY <1>2 DEF Send, peer
  <2>2. UNCHANGED top /\ CallInv'
    BY <1>0, <2>1 DEF top, CallInv
  <2>3. PortTypes' /\ Forward
    BY <1>0, <2>1 DEF PortTypes, Forward
  <2>4. OrderInv'
    BY <1>0, <2>1, <2>2 DEF OrderInv, Newest
  <2>5. QED BY <2>2, <2>3, <2>4 DEF SyncInv
<1>3. CASE Receive
  <2>1. /\ portCh # 0 /\ frames' = Append(frames, Frame(portCh)) /\ portCh' = 0 /\ at' = "wait"
        /\ UNCHANGED <<last, client, script>>
    BY <1>3 DEF Receive, Syncer, peer, None
  <2>2. Frame(portCh) \in Frames /\ Frame(portCh).port = portCh
    BY <1>0, PortSyncAssumption DEF Frame, Frames, HasClient, PortSyncAssumption
  <2>3. frames' \in Seq(Frames) /\ frames' # << >> /\ top'.port = portCh
    BY <1>0, <2>1, <2>2, TopOf DEF top
  <2>4. PortTypes' /\ Forward /\ CallInv'
    BY <1>0, <2>1, <2>3 DEF PortTypes, Forward, CallInv
  <2>5. OrderInv'
    BY <1>0, <2>1, <2>3 DEF OrderInv, Newest, None
  <2>6. QED BY <2>4, <2>5 DEF SyncInv
<1>4. CASE Done
  <2>1. /\ frames' = << >> /\ at' = "done" /\ UNCHANGED <<portCh, last, client, script>>
    BY <1>4 DEF Done, Syncer, peer
  <2>2. PortTypes' /\ Forward /\ CallInv'
    BY <1>0, <2>1 DEF PortTypes, Forward, CallInv
  <2>3. OrderInv'
    BY <1>0, <2>1 DEF OrderInv, Newest
  <2>4. QED BY <2>2, <2>3 DEF SyncInv
<1>5. CASE Timer
  <2>1. /\ frames # << >> /\ at' \in {"script", "client"}
        /\ UNCHANGED <<portCh, last, client, script, frames>>
    BY <1>0, <1>5 DEF Timer, Syncer, peer, CallInv
  <2>2. CallInv' /\ UNCHANGED top
    BY <2>1 DEF CallInv, top
  <2>3. QED BY <1>0, <2>1, <2>2, Applies
<1>6. CASE SyncClient
  <2>1. /\ at = "client" /\ UNCHANGED <<portCh, last, script>>
        /\ client' \in {client, top.port}
        /\ Accepted \/ Rejected \/ (UNCHANGED frames /\ UNCHANGED at)
    <3>1. CASE Login \/ LoginRefused \/ verifyPort
      BY <3>1 DEF Login, LoginRefused, verifyPort, Request, Syncer
    <3>2. CASE ensureConnected
      BY <3>2 DEF ensureConnected, Request, Syncer
    <3>3. CASE setPort \/ RequestFails
      BY <3>3 DEF setPort, RequestFails, Request, Syncer
    <3>4. QED BY <1>6, <3>1, <3>2, <3>3 DEF SyncClient
  <2>2. frames # << >>
    BY <1>0, <2>1 DEF CallInv
  <2>3. /\ frames' \in Seq(Frames) /\ frames' # << >> /\ top'.port = top.port
        /\ at' \in {"client", "script"}
    <3>1. CASE Accepted \/ Rejected
      BY <2>1, <3>1, Answered
    <3>2. CASE UNCHANGED frames /\ UNCHANGED at
      BY <1>0, <2>1, <2>2, <3>2 DEF top
    <3>3. QED BY <2>1, <3>1, <3>2
  <2>4. CallInv'
    BY <2>3 DEF CallInv
  <2>5. QED BY <2>1, <2>2, <2>3, <2>4, Applies
<1>7. CASE SyncScript
  <2>1. /\ at = "script" /\ UNCHANGED <<portCh, last, client>> /\ script' \in {script, top.port}
        /\ \E b \in BOOLEAN : Finish(b)
    BY <1>7 DEF SyncScript, Syncer, peer
  <2>2. frames # << >>
    BY <1>0, <2>1 DEF CallInv
  <2>3. PICK b \in BOOLEAN : Finish(b)
    BY <2>1
  <2>4. CASE Return
    <3>1. CallInv' /\ frames' \in Seq(Frames) /\ frames' = << >>
      BY <2>4 DEF Return, CallInv
    <3>2. QED BY <2>1, <2>2, <3>1, Applies
  <2>5. CASE at' = "wait" /\ frames' = [frames EXCEPT ![Len(frames)].scriptOK = b]
    <3>1. frames' \in Seq(Frames) /\ frames' # << >> /\ top'.port = top.port
      BY <1>0, <2>2, <2>5, TopOf DEF top
    <3>2. CallInv'
      BY <2>5, <3>1 DEF CallInv
    <3>3. QED BY <2>1, <2>2, <3>1, <3>2, Applies
  <2>6. QED BY <2>3, <2>4, <2>5 DEF Finish
<1>8. CASE Cancel \/ Restart \/ Quiet
  <2>1. UNCHANGED <<portCh, last, client, script, frames, at>>
    BY <1>8 DEF Cancel, Restart, Quiet, vars, peer
  <2>2. CallInv' /\ PortTypes' /\ Forward
    BY <1>0, <2>1 DEF CallInv, PortTypes, Forward
  <2>3. OrderInv'
    BY <2>1 DEF SyncInv, OrderInv, Newest, top
  <2>4. QED BY <2>2, <2>3 DEF SyncInv
<1>9. CASE Reconnect
  <2>1. /\ at = "done" /\ at' = "select" /\ portCh' = 0
        /\ UNCHANGED <<last, client, script, frames>>
    BY <1>9 DEF Reconnect, None
  <2>2. frames' = << >>
    BY <1>0, <2>1 DEF CallInv
  <2>3. PortTypes' /\ Forward /\ CallInv'
    BY <1>0, <2>1, <2>2 DEF PortTypes, Forward, CallInv
  <2>4. OrderInv'
    BY <1>0, <2>1, <2>2 DEF OrderInv, Newest, None
  <2>5. QED BY <2>3, <2>4 DEF SyncInv
<1>10. QED
  BY <1>1, <1>2, <1>3, <1>4, <1>5, <1>6, <1>7, <1>8, <1>9 DEF Next, SyncerStep

\* NeverBackwards: whatever the selects of Run and of the retry loop pick, however
\* often requests fail and answers are lost, over any number of connections, a
\* port is applied only if no newer one has been.
THEOREM PortsNeverGoBackwards == Spec => NeverBackwards
<1>1. Init => SyncInv
  <2> SUFFICES ASSUME Init PROVE SyncInv
    OBVIOUS
  <2>1. frames = << >> /\ portCh = 0 /\ last = 0 /\ client = 0 /\ script = 0 /\ at = "select"
    BY DEF Init, None
  <2>2. PortTypes /\ CallInv
    BY <2>1 DEF PortTypes, CallInv
  <2>3. OrderInv
    BY <2>1 DEF OrderInv, Newest, None
  <2>4. QED BY <2>2, <2>3 DEF SyncInv
<1>2. SyncInv /\ [Next]_vars => SyncInv'
  <2>1. SyncInv /\ UNCHANGED vars => SyncInv'
    BY DEF SyncInv, PortTypes, CallInv, OrderInv, Newest, top, vars, peer
  <2>2. QED BY <2>1, SyncStep
<1>3. SyncInv /\ [Next]_vars => [client' >= client /\ script' >= script]_vars
  BY SyncStep DEF Forward
<1>4. QED BY <1>1, <1>2, <1>3, PTL DEF Spec, NeverBackwards
=============================================================================
