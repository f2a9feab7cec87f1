--------------------------- MODULE VpnSetupProofs ---------------------------
(***************************************************************************)
(* Proofs about VpnSetup, for any servers and addresses, any number of     *)
(* tokens, failures, crashes and starts, and any maxTokenAge that is below *)
(* the life of a token: what the cache and the token file say of a token   *)
(* is true, a token is presented only while it is good, and the cached     *)
(* addresses and servers are PIA's latest.  The last one rests on what the *)
(* loops of mergeIPs, MergeServers and onePerRegion compute for any input. *)
(***************************************************************************)
EXTENDS VpnSetup, SequenceTheorems, FiniteSetTheorems, WellFoundedInduction, TLAPS

-----------------------------------------------------------------------------
(* The inductive invariant.                                                *)

\* The clock and what PIA has issued so far.
ClockInv ==
    /\ now \in Nat /\ born \in Seq(Nat) /\ \A t \in Issued : born[t] <= now
    /\ token \in Nat /\ tokenTime \in Nat /\ tok \in Nat
    /\ forgotten \subseteq Issued

\* The services live inside a connection; a dedicated IP is resolved if there
\* is one.
CourseInv ==
    /\ cacher # "idle" \/ pf = "asking" => pc = "up"
    /\ pc = "dip" => mode = "dip"

\* A token on its way into the cache is the latest, and of this moment.
FreshInv ==
    pc = "persist" \/ cacher = "persist" =>
        /\ Len(born) \in Issued /\ born[Len(born)] = now /\ Len(born) \notin forgotten
        /\ pc = "persist" => tok = Len(born)

\* The cache and the file are right about the token they hold, and neither
\* holds one that was removed.
CacheInv ==
    token # 0 => token \in Issued /\ tokenTime <= born[token] /\ token \notin forgotten

FileInv ==
    file.kind = "whole" =>
        /\ file.token \in Issued /\ file.time \in Nat
        /\ file.time <= born[file.token] /\ file.token \notin forgotten

\* It was fresh when it was looked at, and the clock has moved once at most.
Young(t) ==
    /\ t \in Issued
    /\ now - born[t] < MaxTokenAge \/ (ticked /\ now - born[t] = MaxTokenAge)

UsableInv ==
    /\ pc \in {"servers", "select", "dip", "addkey"} => Young(tok) /\ tok \notin forgotten
    /\ pf = "asking" => Young(token)

SetupInv ==
    /\ ClockInv /\ CourseInv /\ FreshInv /\ CacheInv /\ FileInv /\ UsableInv

-----------------------------------------------------------------------------
(* Lemmas.                                                                 *)

\* A new token is the latest, and changes nothing about the others.
LEMMA IssueDoes ==
    ASSUME ClockInv, Issue
    PROVE  /\ born' \in Seq(Nat) /\ Len(born') = Len(born) + 1 /\ Len(born) \in Nat
           /\ born'[Len(born')] = now /\ \A t \in Issued : born'[t] = born[t]
BY AppendProperties DEF Issue, Issued, ClockInv

\* The switch of Setup.
LEMMA SelectedIs ==
    ASSUME NEW m
    PROVE  /\ Selected(m) \in {"dip", "addkey", "select"}
           /\ Selected(m) = "dip" => m = "dip"
           /\ Selected(m) = "addkey" => m = "manual"
<1>1. CASE m = "dip"
  BY <1>1 DEF Selected
<1>2. CASE m # "dip" /\ m = "manual"
  BY <1>2 DEF Selected
<1>3. CASE m # "dip" /\ m # "manual"
  BY <1>3 DEF Selected
<1>4. QED BY <1>1, <1>2, <1>3

-----------------------------------------------------------------------------
(* Every step keeps the invariant.                                         *)

\* Tokens are issued in time and only those are forgotten.
LEMMA ClockStep ==
    ASSUME ClockInv, FreshInv, CacheInv, FileInv, UsableInv, [Next]_vars
    PROVE  ClockInv'
<1> USE AgeAssumption DEF ClockInv, FreshInv, CacheInv, FileInv, UsableInv, Issued, Young,
        cache, setup,
            services, world, history, streak
<1>1. CASE getToken
  BY <1>1 DEF getToken, At, Goto, TokenFresh
<1>2. CASE authenticate
  <2>1. /\ UNCHANGED <<now, token, tokenTime, forgotten>>
        /\ (Issue /\ tok' \in {tok, Len(born')}) \/ (UNCHANGED born /\ tok' \in {tok, 0})
    BY <1>2 DEF authenticate, At, Goto, Unexplained, Fail, Fatal
  <2>2. CASE Issue
    <3>1. /\ born' \in Seq(Nat) /\ Len(born') = Len(born) + 1 /\ Len(born) \in Nat
          /\ born'[Len(born')] = now /\ \A t \in Issued : born'[t] = born[t]
      BY <2>2, IssueDoes
    <3>2. \A t \in Issued' : t \in Issued \/ t = Len(born')
      BY <3>1
    <3>3. Issued \subseteq Issued'
      BY <3>1
    <3>4. \A t \in Issued' : born'[t] <= now'
      BY <2>1, <3>1, <3>2, SMTT(30)
    <3>5. QED BY <2>1, <2>2, <3>1, <3>3, <3>4
  <2>3. CASE UNCHANGED born
    BY <2>1, <2>3, <2>2
  <2>4. QED BY <2>1, <2>2, <2>3
<1>3. CASE authenticateResolved
  <2>1. /\ UNCHANGED <<now, token, tokenTime, forgotten>>
        /\ (Issue /\ tok' \in {tok, Len(born')}) \/ (UNCHANGED born /\ tok' \in {tok, 0})
    BY <1>3 DEF authenticateResolved, At, Goto, Unexplained, Fail, Fatal
  <2>2. CASE Issue
    <3>1. /\ born' \in Seq(Nat) /\ Len(born') = Len(born) + 1 /\ Len(born) \in Nat
          /\ born'[Len(born')] = now /\ \A t \in Issued : born'[t] = born[t]
      BY <2>2, IssueDoes
    <3>2. \A t \in Issued' : t \in Issued \/ t = Len(born')
      BY <3>1
    <3>3. Issued \subseteq Issued'
      BY <3>1
    <3>4. \A t \in Issued' : born'[t] <= now'
      BY <2>1, <3>1, <3>2, SMTT(30)
    <3>5. QED BY <2>1, <2>2, <3>1, <3>3, <3>4
  <2>3. CASE UNCHANGED born
    BY <2>1, <2>3, <2>2
  <2>4. QED BY <2>1, <2>2, <2>3
<1>4. CASE StoreToken
  BY <1>4 DEF StoreToken, At, SetToken, Goto, Whole, Torn, Short
<1>5. CASE getServers
  BY <1>5, SelectedIs DEF getServers, At, Goto, Fail
<1>6. CASE selectServer
  BY <1>6 DEF selectServer, At, Goto, Fail, Fatal
<1>7. CASE resolveDIP
  BY <1>7 DEF resolveDIP, At, Goto, Fail, Fatal, Unexplained
<1>8. CASE addKey
  <2>1. /\ UNCHANGED <<now, born>> /\ token' \in {token, 0} /\ tokenTime' \in {tokenTime, 0}
        /\ tok' \in {tok, 0} /\ forgotten' \in {forgotten, forgotten \cup {tok}} /\ tok \in Issued
    BY <1>8 DEF addKey, At, Goto, Fail, Fatal, Unexplained, ClearToken
  <2>2. QED BY <2>1
<1>9. CASE wgUp
  BY <1>9 DEF wgUp, At, Goto, Fail, Fatal, Unexplained
<1>10. CASE Retry
  BY <1>10 DEF Retry
<1>11. CASE CacherTick
  BY <1>11 DEF CacherTick, Serves
<1>12. CASE RefreshLogin
  <2>1. /\ UNCHANGED <<now, token, tokenTime, forgotten>>
        /\ (Issue /\ tok' \in {tok, Len(born')}) \/ (UNCHANGED born /\ tok' \in {tok, 0})
    BY <1>12 DEF RefreshLogin, Serves
  <2>2. CASE Issue
    <3>1. /\ born' \in Seq(Nat) /\ Len(born') = Len(born) + 1 /\ Len(born) \in Nat
          /\ born'[Len(born')] = now /\ \A t \in Issued : born'[t] = born[t]
      BY <2>2, IssueDoes
    <3>2. \A t \in Issued' : t \in Issued \/ t = Len(born')
      BY <3>1
    <3>3. Issued \subseteq Issued'
      BY <3>1
    <3>4. \A t \in Issued' : born'[t] <= now'
      BY <2>1, <3>1, <3>2, SMTT(30)
    <3>5. QED BY <2>1, <2>2, <3>1, <3>3, <3>4
  <2>3. CASE UNCHANGED born
    BY <2>1, <2>3, <2>2
  <2>4. QED BY <2>1, <2>2, <2>3
<1>13. CASE RefreshToken
  BY <1>13 DEF RefreshToken, Serves, SetToken, Whole, Torn, Short
<1>14. CASE RefreshList
  BY <1>14 DEF RefreshList, Serves
<1>15. CASE AskSignature
  BY <1>15 DEF AskSignature, Serves, TokenFresh
<1>16. CASE Signed
  BY <1>16 DEF Signed, Serves
<1>17. CASE Disconnect
  BY <1>17 DEF Disconnect, Serves
<1>18. CASE Reconnect
  BY <1>18 DEF Reconnect
<1>19. CASE Start
  BY <1>19 DEF Start, New, NoFile, Alive
<1>20. CASE Crash
  BY <1>20 DEF Crash, Whole, Torn, Short
<1>21. CASE Tick
  BY <1>21 DEF Tick
<1>22. CASE Move
  BY <1>22 DEF Move
<1>23. CASE Revoke
  BY <1>23 DEF Revoke
<1>24. CASE Stopped
  BY <1>24 DEF Stopped, vars
<1>25. CASE Exhausted
  BY <1>25 DEF Exhausted, vars
<1>26. CASE UNCHANGED vars
  BY <1>26 DEF vars
<1>27. QED
  BY <1>1, <1>2, <1>3, <1>4, <1>5, <1>6, <1>7, <1>8, <1>9, <1>10, <1>11, <1>12, <1>13,
     <1>14, <1>15, <1>16, <1>17, <1>18, <1>19, <1>20, <1>21, <1>22, <1>23, <1>24, <1>25,
     <1>26
  DEF Next

\* The services and the dedicated IP.
LEMMA CourseStep ==
    ASSUME CourseInv, [Next]_vars
    PROVE  CourseInv'
<1> USE AgeAssumption DEF CourseInv, cache, setup, services, world, history, streak
<1>1. CASE getToken
  BY <1>1 DEF getToken, At, Goto, TokenFresh
<1>2. CASE authenticate
  BY <1>2, IssueDoes DEF authenticate, At, Goto, Unexplained, Fail, Fatal
<1>3. CASE authenticateResolved
  BY <1>3, IssueDoes DEF authenticateResolved, At, Goto, Unexplained, Fail, Fatal
<1>4. CASE StoreToken
  BY <1>4 DEF StoreToken, At, SetToken, Goto, Whole, Torn, Short
<1>5. CASE getServers
  BY <1>5, SelectedIs DEF getServers, At, Goto, Fail
<1>6. CASE selectServer
  BY <1>6 DEF selectServer, At, Goto, Fail, Fatal
<1>7. CASE resolveDIP
  BY <1>7 DEF resolveDIP, At, Goto, Fail, Fatal, Unexplained
<1>8. CASE addKey
  BY <1>8 DEF addKey, At, Goto, Fail, Fatal, Unexplained, ClearToken, NoFile
<1>9. CASE wgUp
  BY <1>9 DEF wgUp, At, Goto, Fail, Fatal, Unexplained
<1>10. CASE Retry
  BY <1>10 DEF Retry
<1>11. CASE CacherTick
  BY <1>11 DEF CacherTick, Serves
<1>12. CASE RefreshLogin
  BY <1>12, IssueDoes DEF RefreshLogin, Serves
<1>13. CASE RefreshToken
  BY <1>13 DEF RefreshToken, Serves, SetToken, Whole, Torn, Short
<1>14. CASE RefreshList
  BY <1>14 DEF RefreshList, Serves
<1>15. CASE AskSignature
  BY <1>15 DEF AskSignature, Serves, TokenFresh
<1>16. CASE Signed
  BY <1>16 DEF Signed, Serves
<1>17. CASE Disconnect
  BY <1>17 DEF Disconnect, Serves
<1>18. CASE Reconnect
  BY <1>18 DEF Reconnect
<1>19. CASE Start
  BY <1>19 DEF Start, New, NoFile, Alive
<1>20. CASE Crash
  BY <1>20 DEF Crash, Whole, Torn, Short
<1>21. CASE Tick
  BY <1>21 DEF Tick
<1>22. CASE Move
  BY <1>22 DEF Move
<1>23. CASE Revoke
  BY <1>23 DEF Revoke
<1>24. CASE Stopped
  BY <1>24 DEF Stopped, vars
<1>25. CASE Exhausted
  BY <1>25 DEF Exhausted, vars
<1>26. CASE UNCHANGED vars
  BY <1>26 DEF vars
<1>27. QED
  BY <1>1, <1>2, <1>3, <1>4, <1>5, <1>6, <1>7, <1>8, <1>9, <1>10, <1>11, <1>12, <1>13,
     <1>14, <1>15, <1>16, <1>17, <1>18, <1>19, <1>20, <1>21, <1>22, <1>23, <1>24, <1>25,
     <1>26
  DEF Next

\* What is about to be stored has just been issued.
LEMMA FreshStep ==
    ASSUME ClockInv, CourseInv, FreshInv, [Next]_vars
    PROVE  FreshInv'
<1> USE AgeAssumption DEF FreshInv, ClockInv, CourseInv, Issued, cache, setup, services, world,
        history, streak
<1>1. CASE getToken
  BY <1>1 DEF getToken, At, Goto, TokenFresh
<1>2. CASE authenticate
  <2>1. CASE Issue
    <3>1. /\ born' \in Seq(Nat) /\ Len(born') = Len(born) + 1 /\ Len(born) \in Nat
          /\ born'[Len(born')] = now /\ \A t \in Issued : born'[t] = born[t]
      BY <2>1, IssueDoes
    <3>2. QED BY <1>2, <2>1, <3>1 DEF authenticate, At, Goto, Unexplained, Fail, Fatal
  <2>2. CASE ~Issue
    BY <1>2, <2>2 DEF authenticate, At, Goto, Unexplained, Fail, Fatal
  <2>3. QED BY <2>1, <2>2
<1>3. CASE authenticateResolved
  <2>1. CASE Issue
    <3>1. /\ born' \in Seq(Nat) /\ Len(born') = Len(born) + 1 /\ Len(born) \in Nat
          /\ born'[Len(born')] = now /\ \A t \in Issued : born'[t] = born[t]
      BY <2>1, IssueDoes
    <3>2. QED BY <1>3, <2>1, <3>1 DEF authenticateResolved, At, Goto, Unexplained, Fail, Fatal
  <2>2. CASE ~Issue
    BY <1>3, <2>2 DEF authenticateResolved, At, Goto, Unexplained, Fail, Fatal
  <2>3. QED BY <2>1, <2>2
<1>4. CASE StoreToken
  BY <1>4 DEF StoreToken, At, SetToken, Goto, Whole, Torn, Short
<1>5. CASE getServers
  BY <1>5, SelectedIs DEF getServers, At, Goto, Fail
<1>6. CASE selectServer
  BY <1>6 DEF selectServer, At, Goto, Fail, Fatal
<1>7. CASE resolveDIP
  BY <1>7 DEF resolveDIP, At, Goto, Fail, Fatal, Unexplained
<1>8. CASE addKey
  BY <1>8 DEF addKey, At, Goto, Fail, Fatal, Unexplained, ClearToken, NoFile
<1>9. CASE wgUp
  BY <1>9 DEF wgUp, At, Goto, Fail, Fatal, Unexplained
<1>10. CASE Retry
  BY <1>10 DEF Retry
<1>11. CASE CacherTick
  BY <1>11 DEF CacherTick, Serves
<1>12. CASE RefreshLogin
  <2>1. CASE Issue
    <3>1. /\ born' \in Seq(Nat) /\ Len(born') = Len(born) + 1 /\ Len(born) \in Nat
          /\ born'[Len(born')] = now /\ \A t \in Issued : born'[t] = born[t]
      BY <2>1, IssueDoes
    <3>2. QED BY <1>12, <2>1, <3>1 DEF RefreshLogin, Serves
  <2>2. CASE ~Issue
    BY <1>12, <2>2 DEF RefreshLogin, Serves
  <2>3. QED BY <2>1, <2>2
<1>13. CASE RefreshToken
  BY <1>13 DEF RefreshToken, Serves, SetToken, Whole, Torn, Short
<1>14. CASE RefreshList
  BY <1>14 DEF RefreshList, Serves
<1>15. CASE AskSignature
  BY <1>15 DEF AskSignature, Serves, TokenFresh
<1>16. CASE Signed
  BY <1>16 DEF Signed, Serves
<1>17. CASE Disconnect
  BY <1>17 DEF Disconnect, Serves
<1>18. CASE Reconnect
  BY <1>18 DEF Reconnect
<1>19. CASE Start
  BY <1>19 DEF Start, New, NoFile, Alive
<1>20. CASE Crash
  BY <1>20 DEF Crash, Whole, Torn, Short
<1>21. CASE Tick
  BY <1>21 DEF Tick
<1>22. CASE Move
  BY <1>22 DEF Move
<1>23. CASE Revoke
  BY <1>23 DEF Revoke
<1>24. CASE Stopped
  BY <1>24 DEF Stopped, vars
<1>25. CASE Exhausted
  BY <1>25 DEF Exhausted, vars
<1>26. CASE UNCHANGED vars
  BY <1>26 DEF vars
<1>27. QED
  BY <1>1, <1>2, <1>3, <1>4, <1>5, <1>6, <1>7, <1>8, <1>9, <1>10, <1>11, <1>12, <1>13,
     <1>14, <1>15, <1>16, <1>17, <1>18, <1>19, <1>20, <1>21, <1>22, <1>23, <1>24, <1>25,
     <1>26
  DEF Next

\* The cache is filled by SetToken and from the file.
LEMMA CacheStep ==
    ASSUME ClockInv, FreshInv, CacheInv, FileInv, [Next]_vars
    PROVE  CacheInv'
<1> USE AgeAssumption DEF CacheInv, ClockInv, FreshInv, FileInv, Issued, cache, setup,
        services, world,
            history
<1>1. CASE getToken
  BY <1>1 DEF getToken, At, Goto, TokenFresh
<1>2. CASE authenticate
  <2>1. CASE Issue
    <3>1. /\ born' \in Seq(Nat) /\ Len(born') = Len(born) + 1 /\ Len(born) \in Nat
          /\ born'[Len(born')] = now /\ \A t \in Issued : born'[t] = born[t]
      BY <2>1, IssueDoes
    <3>2. QED BY <1>2, <2>1, <3>1 DEF authenticate, At, Goto, Unexplained, Fail, Fatal
  <2>2. CASE ~Issue
    BY <1>2, <2>2 DEF authenticate, At, Goto, Unexplained, Fail, Fatal
  <2>3. QED BY <2>1, <2>2
<1>3. CASE authenticateResolved
  <2>1. CASE Issue
    <3>1. /\ born' \in Seq(Nat) /\ Len(born') = Len(born) + 1 /\ Len(born) \in Nat
          /\ born'[Len(born')] = now /\ \A t \in Issued : born'[t] = born[t]
      BY <2>1, IssueDoes
    <3>2. QED BY <1>3, <2>1, <3>1, SMTT(30) DEF authenticateResolved, At, Goto, Unexplained,
                 Fail, Fatal
  <2>2. CASE ~Issue
    BY <1>3, <2>2 DEF authenticateResolved, At, Goto, Unexplained, Fail, Fatal
  <2>3. QED BY <2>1, <2>2
<1>4. CASE StoreToken
  BY <1>4 DEF StoreToken, At, SetToken, Goto, Whole, Torn, Short
<1>5. CASE getServers
  BY <1>5, SelectedIs DEF getServers, At, Goto, Fail
<1>6. CASE selectServer
  BY <1>6 DEF selectServer, At, Goto, Fail, Fatal
<1>7. CASE resolveDIP
  BY <1>7 DEF resolveDIP, At, Goto, Fail, Fatal, Unexplained
<1>8. CASE addKey
  BY <1>8 DEF addKey, At, Goto, Fail, Fatal, Unexplained, ClearToken, NoFile
<1>9. CASE wgUp
  BY <1>9 DEF wgUp, At, Goto, Fail, Fatal, Unexplained
<1>10. CASE Retry
  BY <1>10 DEF Retry
<1>11. CASE CacherTick
  BY <1>11 DEF CacherTick, Serves
<1>12. CASE RefreshLogin
  <2>1. CASE Issue
    <3>1. /\ born' \in Seq(Nat) /\ Len(born') = Len(born) + 1 /\ Len(born) \in Nat
          /\ born'[Len(born')] = now /\ \A t \in Issued : born'[t] = born[t]
      BY <2>1, IssueDoes
    <3>2. QED BY <1>12, <2>1, <3>1, SMTT(30) DEF RefreshLogin, Serves
  <2>2. CASE ~Issue
    BY <1>12, <2>2 DEF RefreshLogin, Serves
  <2>3. QED BY <2>1, <2>2
<1>13. CASE RefreshToken
  BY <1>13 DEF RefreshToken, Serves, SetToken, Whole, Torn, Short
<1>14. CASE RefreshList
  BY <1>14 DEF RefreshList, Serves
<1>15. CASE AskSignature
  BY <1>15 DEF AskSignature, Serves, TokenFresh
<1>16. CASE Signed
  BY <1>16 DEF Signed, Serves
<1>17. CASE Disconnect
  BY <1>17 DEF Disconnect, Serves
<1>18. CASE Reconnect
  BY <1>18 DEF Reconnect
<1>19. CASE Start
  BY <1>19 DEF Start, New, NoFile, Alive
<1>20. CASE Crash
  BY <1>20 DEF Crash, Whole, Torn, Short
<1>21. CASE Tick
  BY <1>21 DEF Tick
<1>22. CASE Move
  BY <1>22 DEF Move
<1>23. CASE Revoke
  BY <1>23 DEF Revoke
<1>24. CASE Stopped
  BY <1>24 DEF Stopped, vars
<1>25. CASE Exhausted
  BY <1>25 DEF Exhausted, vars
<1>26. CASE UNCHANGED vars
  BY <1>26 DEF vars
<1>27. QED
  BY <1>1, <1>2, <1>3, <1>4, <1>5, <1>6, <1>7, <1>8, <1>9, <1>10, <1>11, <1>12, <1>13,
     <1>14, <1>15, <1>16, <1>17, <1>18, <1>19, <1>20, <1>21, <1>22, <1>23, <1>24, <1>25,
     <1>26
  DEF Next

\* The file holds what SetToken wrote, if it is whole.
LEMMA FileStep ==
    ASSUME ClockInv, FreshInv, FileInv, [Next]_vars
    PROVE  FileInv'
<1> USE AgeAssumption DEF FileInv, ClockInv, FreshInv, Issued, cache, setup, services, world,
        history, streak
<1>1. CASE getToken
  BY <1>1 DEF getToken, At, Goto, TokenFresh
<1>2. CASE authenticate
  BY <1>2, IssueDoes, SMTT(30) DEF authenticate, At, Goto, Unexplained, Fail, Fatal
<1>3. CASE authenticateResolved
  BY <1>3, IssueDoes, SMTT(30) DEF authenticateResolved, At, Goto, Unexplained, Fail, Fatal
<1>4. CASE StoreToken
  BY <1>4 DEF StoreToken, At, SetToken, Goto, Whole, Torn, Short
<1>5. CASE getServers
  BY <1>5, SelectedIs DEF getServers, At, Goto, Fail
<1>6. CASE selectServer
  BY <1>6 DEF selectServer, At, Goto, Fail, Fatal
<1>7. CASE resolveDIP
  BY <1>7 DEF resolveDIP, At, Goto, Fail, Fatal, Unexplained
<1>8. CASE addKey
  BY <1>8 DEF addKey, At, Goto, Fail, Fatal, Unexplained, ClearToken, NoFile
<1>9. CASE wgUp
  BY <1>9 DEF wgUp, At, Goto, Fail, Fatal, Unexplained
<1>10. CASE Retry
  BY <1>10 DEF Retry
<1>11. CASE CacherTick
  BY <1>11 DEF CacherTick, Serves
<1>12. CASE RefreshLogin
  BY <1>12, IssueDoes, SMTT(30) DEF RefreshLogin, Serves
<1>13. CASE RefreshToken
  BY <1>13 DEF RefreshToken, Serves, SetToken, Whole, Torn, Short
<1>14. CASE RefreshList
  BY <1>14 DEF RefreshList, Serves
<1>15. CASE AskSignature
  BY <1>15 DEF AskSignature, Serves, TokenFresh
<1>16. CASE Signed
  BY <1>16 DEF Signed, Serves
<1>17. CASE Disconnect
  BY <1>17 DEF Disconnect, Serves
<1>18. CASE Reconnect
  BY <1>18 DEF Reconnect
<1>19. CASE Start
  BY <1>19 DEF Start, New, NoFile, Alive
<1>20. CASE Crash
  BY <1>20 DEF Crash, Whole, Torn, Short
<1>21. CASE Tick
  BY <1>21 DEF Tick
<1>22. CASE Move
  BY <1>22 DEF Move
<1>23. CASE Revoke
  BY <1>23 DEF Revoke
<1>24. CASE Stopped
  BY <1>24 DEF Stopped, vars
<1>25. CASE Exhausted
  BY <1>25 DEF Exhausted, vars
<1>26. CASE UNCHANGED vars
  BY <1>26 DEF vars
<1>27. QED
  BY <1>1, <1>2, <1>3, <1>4, <1>5, <1>6, <1>7, <1>8, <1>9, <1>10, <1>11, <1>12, <1>13,
     <1>14, <1>15, <1>16, <1>17, <1>18, <1>19, <1>20, <1>21, <1>22, <1>23, <1>24, <1>25,
     <1>26
  DEF Next

\* A token in use was fresh when it was taken.
LEMMA UsableStep ==
    ASSUME ClockInv, CourseInv, FreshInv, CacheInv, UsableInv, [Next]_vars
    PROVE  UsableInv'
<1> USE AgeAssumption DEF UsableInv, ClockInv, CourseInv, FreshInv, CacheInv, Issued, Young, cache,
            setup, services, world, history, streak
<1>1. CASE getToken
  BY <1>1 DEF getToken, At, Goto, TokenFresh
<1>2. CASE authenticate
  <2>1. CASE Issue
    <3>1. /\ born' \in Seq(Nat) /\ Len(born') = Len(born) + 1 /\ Len(born) \in Nat
          /\ born'[Len(born')] = now /\ \A t \in Issued : born'[t] = born[t]
      BY <2>1, IssueDoes
    <3>2. QED BY <1>2, <2>1, <3>1 DEF authenticate, At, Goto, Unexplained, Fail, Fatal
  <2>2. CASE ~Issue
    BY <1>2, <2>2 DEF authenticate, At, Goto, Unexplained, Fail, Fatal
  <2>3. QED BY <2>1, <2>2
<1>3. CASE authenticateResolved
  <2>1. CASE Issue
    <3>1. /\ born' \in Seq(Nat) /\ Len(born') = Len(born) + 1 /\ Len(born) \in Nat
          /\ born'[Len(born')] = now /\ \A t \in Issued : born'[t] = born[t]
      BY <2>1, IssueDoes
    <3>2. QED BY <1>3, <2>1, <3>1 DEF authenticateResolved, At, Goto, Unexplained, Fail, Fatal
  <2>2. CASE ~Issue
    BY <1>3, <2>2 DEF authenticateResolved, At, Goto, Unexplained, Fail, Fatal
  <2>3. QED BY <2>1, <2>2
<1>4. CASE StoreToken
  BY <1>4 DEF StoreToken, At, SetToken, Goto, Whole, Torn, Short
<1>5. CASE getServers
  BY <1>5, SelectedIs DEF getServers, At, Goto, Fail
<1>6. CASE selectServer
  BY <1>6 DEF selectServer, At, Goto, Fail, Fatal
<1>7. CASE resolveDIP
  BY <1>7 DEF resolveDIP, At, Goto, Fail, Fatal, Unexplained
<1>8. CASE addKey
  BY <1>8 DEF addKey, At, Goto, Fail, Fatal, Unexplained, ClearToken, NoFile
<1>9. CASE wgUp
  BY <1>9 DEF wgUp, At, Goto, Fail, Fatal, Unexplained
<1>10. CASE Retry
  BY <1>10 DEF Retry
<1>11. CASE CacherTick
  BY <1>11 DEF CacherTick, Serves
<1>12. CASE RefreshLogin
  <2>1. CASE Issue
    <3>1. /\ born' \in Seq(Nat) /\ Len(born') = Len(born) + 1 /\ Len(born) \in Nat
          /\ born'[Len(born')] = now /\ \A t \in Issued : born'[t] = born[t]
      BY <2>1, IssueDoes
    <3>2. QED BY <1>12, <2>1, <3>1, SMTT(30) DEF RefreshLogin, Serves
  <2>2. CASE ~Issue
    BY <1>12, <2>2 DEF RefreshLogin, Serves
  <2>3. QED BY <2>1, <2>2
<1>13. CASE RefreshToken
  BY <1>13 DEF RefreshToken, Serves, SetToken, Whole, Torn, Short
<1>14. CASE RefreshList
  BY <1>14 DEF RefreshList, Serves
<1>15. CASE AskSignature
  BY <1>15 DEF AskSignature, Serves, TokenFresh
<1>16. CASE Signed
  BY <1>16 DEF Signed, Serves
<1>17. CASE Disconnect
  BY <1>17 DEF Disconnect, Serves
<1>18. CASE Reconnect
  BY <1>18 DEF Reconnect
<1>19. CASE Start
  BY <1>19 DEF Start, New, NoFile, Alive
<1>20. CASE Crash
  BY <1>20 DEF Crash, Whole, Torn, Short
<1>21. CASE Tick
  <2>1. UNCHANGED <<pc, pf, tok, token, born, forgotten>> /\ now' = now + 1
    BY <1>21 DEF Tick
  <2>2. ASSUME pc \notin {"off", "up"} \/ pf = "asking" PROVE ~ticked /\ ticked'
    BY <1>21, <2>2 DEF Tick
  <2>3. \A i \in Issued : born[i] \in Nat
    OBVIOUS
  <2>4. ASSUME NEW i \in Issued, Young(i), ~ticked, ticked' PROVE Young(i)'
    BY <2>1, <2>3, <2>4, SMTT(30)
  <2>5. QED BY <2>1, <2>2, <2>4
<1>22. CASE Move
  BY <1>22 DEF Move
<1>23. CASE Revoke
  BY <1>23 DEF Revoke
<1>24. CASE Stopped
  BY <1>24 DEF Stopped, vars
<1>25. CASE Exhausted
  BY <1>25 DEF Exhausted, vars
<1>26. CASE UNCHANGED vars
  BY <1>26 DEF vars
<1>27. QED
  BY <1>1, <1>2, <1>3, <1>4, <1>5, <1>6, <1>7, <1>8, <1>9, <1>10, <1>11, <1>12, <1>13,
     <1>14, <1>15, <1>16, <1>17, <1>18, <1>19, <1>20, <1>21, <1>22, <1>23, <1>24, <1>25,
     <1>26
  DEF Next

-----------------------------------------------------------------------------
(* Loops.  A fold is a function on sets of indices, which takes the largest *)
(* off; on the sets 1..n it is the loop it stands for.                      *)

\* Induction up to a bound, for a set instead of a predicate: the least number
\* that is not in S would have a predecessor that is.
LEMMA SetInduction ==
    ASSUME NEW N \in Nat, NEW S, 0 \in S, \A n \in 0..(N-1) : n \in S => n + 1 \in S
    PROVE  0..N \subseteq S
<1> DEFINE R == OpToRel(<, Nat)
           T == (0..N) \ S
<1>1. SUFFICES ASSUME T # {} PROVE FALSE
  BY Zenon
<1>2. IsWellFoundedOn(R, Nat)
  BY NatLessThanWellFounded, Zenon
<1>3. T \subseteq Nat
  BY SMT
<1>4. PICK m \in T : \A y \in T : ~(<<y, m>> \in R)
  <2> HIDE DEF R, T
  <2>1. QED BY <1>1, <1>2, <1>3, WFMin, Zenon
<1>5. \A y \in T : ~(y < m)
  BY <1>3, <1>4 DEF OpToRel
<1>6. (0..N) \ S = T
  OBVIOUS
<1> HIDE DEF R, T
<1>7. m \in 1..N /\ m - 1 \in 0..(N-1) /\ m - 1 \in S
  BY <1>4, <1>5, <1>6
<1>8. QED BY <1>4, <1>6, <1>7

\* The largest index of a set of indices up to n that has n in it.
LEMMA MaxIs ==
    ASSUME NEW n \in Nat, NEW s \in SUBSET (1..n), n \in s
    PROVE  Max(s) = n
<1>1. \A y \in s : n >= y
  BY SMT
<1>2. \A x \in s : (\A y \in s : x >= y) => x = n
  BY SMT
<1>3. \E x \in s : \A y \in s : x >= y
  BY <1>1
<1>4. Max(s) \in s /\ \A y \in s : Max(s) >= y
  BY <1>3, Zenon DEF Max
<1>5. QED BY <1>2, <1>4

\* Every other set of indices has a largest one, too.
LEMMA MaxIn ==
    ASSUME NEW n \in Nat, NEW s \in SUBSET (1..n), s # {}
    PROVE  Max(s) \in s
<1> DEFINE S == {m \in 0..n : \A t \in SUBSET (1..m) : t # {} => Max(t) \in t}
<1>1. 0 \in S
  <2>1. 1..0 = {} /\ 0 \in 0..n
    BY SMT
  <2>2. QED BY <2>1
<1>2. ASSUME NEW m \in 0..(n-1), m \in S
      PROVE  m + 1 \in S
  <2>1. ASSUME NEW t \in SUBSET (1..(m+1)), t # {}
        PROVE  Max(t) \in t
    <3>1. CASE m + 1 \in t
      BY <3>1, MaxIs
    <3>2. CASE m + 1 \notin t
      <4>1. t \in SUBSET (1..m)
        BY <3>2, SMT
      <4>2. QED BY <1>2, <2>1, <4>1
    <3>3. QED BY <3>1, <3>2
  <2>2. m + 1 \in 0..n
    BY SMT
  <2>3. QED BY <2>1, <2>2
<1>3. 0..n \subseteq S
  <2> HIDE DEF S
  <2>1. QED BY <1>1, <1>2, SetInduction
<1>4. n \in S
  <2>1. n \in 0..n
    BY SMT
  <2> HIDE DEF S
  <2>2. QED BY <1>3, <2>1
<1>5. QED BY <1>4

\* The sets of indices a loop goes through.
LEMMA FoldStep ==
    ASSUME NEW N \in Nat, NEW n \in 0..(N - 1)
    PROVE  /\ 1..(n+1) \in SUBSET (1..N) /\ 1..(n+1) # {} /\ Max(1..(n+1)) = n + 1
           /\ (1..(n+1)) \ {n+1} = 1..n /\ 1..n \in SUBSET (1..N) /\ n + 1 \in 1..N
<1>1. n + 1 \in Nat /\ 1..(n+1) \in SUBSET (1..(n+1)) /\ n + 1 \in 1..(n+1)
  BY SMT
<1>2. Max(1..(n+1)) = n + 1
  BY <1>1, MaxIs
<1>3. QED BY <1>2, SMT

\* The equation of the function a fold is made of.
IsFold(N, A, base, step, g) ==
    /\ g \in [SUBSET (1..N) -> A]
    /\ \A s \in SUBSET (1..N) :
          g[s] = IF s = {} THEN base ELSE step[<<g[s \ {Max(s)}], Max(s)>>]

\* There is such a function: one for indices up to n gives one up to n + 1.
LEMMA FoldExists ==
    ASSUME NEW N \in Nat, NEW A, NEW base \in A, NEW step \in [A \X (1..N) -> A]
    PROVE  \E g : IsFold(N, A, base, step, g)
<1> DEFINE Unfolds(n, g) ==
              \A s \in SUBSET (1..n) :
                 g[s] = IF s = {} THEN base ELSE step[<<g[s \ {Max(s)}], Max(s)>>]
           S == {n \in 0..N : \E g \in [SUBSET (1..n) -> A] : Unfolds(n, g)}
<1>1. 0 \in S
  <2> DEFINE g == [s \in SUBSET (1..0) |-> base]
  <2>1. SUBSET (1..0) = {{}}
    OBVIOUS
  <2>2. g \in [SUBSET (1..0) -> A] /\ Unfolds(0, g)
    BY <2>1
  <2> HIDE DEF g, Unfolds
  <2>3. \E f \in [SUBSET (1..0) -> A] : Unfolds(0, f)
    BY <2>2
  <2>4. 0 \in 0..N
    BY SMT
  <2>5. QED BY <2>3, <2>4, Zenon
<1>2. ASSUME NEW n \in 0..(N-1), n \in S
      PROVE  n + 1 \in S
  <2>1. PICK g \in [SUBSET (1..n) -> A] : Unfolds(n, g)
    BY <1>2
  <2> DEFINE h == [s \in SUBSET (1..(n+1)) |->
                     IF n + 1 \in s THEN step[<<g[s \ {n+1}], n + 1>>] ELSE g[s]]
  <2>2. \A s \in SUBSET (1..(n+1)) :
          s \ {n+1} \in SUBSET (1..n) /\ (n + 1 \notin s => s \in SUBSET (1..n))
    BY SMT
  <2>3. n + 1 \in 1..N
    BY SMT
  <2>4. h \in [SUBSET (1..(n+1)) -> A]
    BY <2>2, <2>3
  <2>5. ASSUME NEW s \in SUBSET (1..(n+1))
        PROVE  h[s] = IF s = {} THEN base ELSE step[<<h[s \ {Max(s)}], Max(s)>>]
    <3>1. CASE n + 1 \in s
      <4>1. Max(s) = n + 1
        BY <3>1, MaxIs
      <4>2. h[s \ {n+1}] = g[s \ {n+1}]
        BY <2>2
      <4>3. QED BY <3>1, <4>1, <4>2
    <3>2. CASE n + 1 \notin s
      <4>1. s \in SUBSET (1..n) /\ s \ {Max(s)} \in SUBSET (1..n)
        BY <2>2, <3>2
      <4>2. h[s] = g[s] /\ h[s \ {Max(s)}] = g[s \ {Max(s)}]
        BY <3>2, <4>1
      <4>3. QED BY <2>1, <4>1, <4>2
    <3>3. QED BY <3>1, <3>2
  <2>6. Unfolds(n + 1, h)
    BY <2>5
  <2> HIDE DEF h, Unfolds
  <2>7. QED BY <2>3, <2>4, <2>6
<1> HIDE DEF Unfolds
<1>3. 0..N \subseteq S
  <2> HIDE DEF S
  <2>1. QED BY <1>1, <1>2, SetInduction
<1>4. N \in S
  <2>1. N \in 0..N
    BY SMT
  <2> HIDE DEF S
  <2>2. QED BY <1>3, <2>1
<1>5. \E g \in [SUBSET (1..N) -> A] : Unfolds(N, g)
  BY <1>4
<1>6. QED BY <1>5, Zenon DEF Unfolds, IsFold

\* The same equation where the values are in A, and the turns of a loop.
FoldsIn(N, A, base, step, iter) ==
    /\ iter[{}] = base
    /\ \A s \in SUBSET (1..N) : s # {} /\ iter[s \ {Max(s)}] \in A =>
          iter[s] = step[<<iter[s \ {Max(s)}], Max(s)>>]
IsLoop(N, A, base, step, result, acc) ==
    /\ acc \in [0..N -> A] /\ acc[0] = base /\ acc[N] = result
    /\ \A n \in 0..(N - 1) : acc[n+1] = step[<<acc[n], n + 1>>]

\* On the sets 1..n a fold is a loop.
LEMMA FoldIsLoop ==
    ASSUME NEW N \in Nat, NEW A, NEW base \in A, NEW step \in [A \X (1..N) -> A], NEW iter,
           FoldsIn(N, A, base, step, iter)
    PROVE  \E acc : IsLoop(N, A, base, step, iter[1..N], acc)
<1> USE DEF FoldsIn
<1> DEFINE acc == [n \in 0..N |-> iter[1..n]]
           S == {n \in 0..N : iter[1..n] \in A}
<1>1. 0 \in S /\ iter[1..0] = base
  <2>1. 1..0 = {} /\ 0 \in 0..N
    BY SMT
  <2>2. QED BY <2>1
<1>2. ASSUME NEW n \in 0..(N - 1), n \in S
      PROVE  n + 1 \in S /\ iter[1..(n+1)] = step[<<iter[1..n], n + 1>>]
  <2>1. /\ 1..(n+1) \in SUBSET (1..N) /\ 1..(n+1) # {} /\ Max(1..(n+1)) = n + 1
        /\ (1..(n+1)) \ {n+1} = 1..n /\ n + 1 \in 1..N
    BY FoldStep
  <2>2. n + 1 \in 0..N
    BY SMT
  <2>3. iter[1..n] \in A
    BY <1>2
  <2>4. iter[1..(n+1)] = step[<<iter[1..n], n + 1>>]
    BY <2>1, <2>3
  <2>5. step[<<iter[1..n], n + 1>>] \in A
    BY <2>1, <2>3
  <2>6. QED BY <2>2, <2>4, <2>5
<1>3. 0..N \subseteq S
  <2> HIDE DEF S
  <2>1. QED BY <1>1, <1>2, SetInduction
<1>4. acc \in [0..N -> A]
  BY <1>3
<1>5. 0 \in 0..N /\ N \in 0..N /\ \A n \in 0..(N - 1) : n \in 0..N /\ n + 1 \in 0..N
  BY SMT
<1>6. acc[0] = base /\ acc[N] = iter[1..N]
  BY <1>1, <1>5
<1>7. \A n \in 0..(N - 1) : acc[n+1] = step[<<acc[n], n + 1>>]
  <2> SUFFICES ASSUME NEW n \in 0..(N - 1) PROVE acc[n+1] = step[<<acc[n], n + 1>>]
    OBVIOUS
  <2>1. n \in S
    BY <1>3, <1>5
  <2>2. iter[1..(n+1)] = step[<<iter[1..n], n + 1>>]
    <3> HIDE DEF S
    <3>1. QED BY <1>2, <2>1
  <2>3. QED BY <1>5, <2>2
<1> HIDE DEF acc
<1>8. IsLoop(N, A, base, step, iter[1..N], acc)
  BY <1>4, <1>6, <1>7 DEF IsLoop
<1>9. QED BY <1>8

\* One turn of the loops of mergeIPs.
AddOne(acc, ip) == IF ip \in ToSet(acc) THEN acc ELSE Append(acc, ip)

\* It keeps to addresses.
LEMMA AddOneType ==
    ASSUME NEW X, NEW acc \in Seq(X), NEW x \in X
    PROVE  AddOne(acc, x) \in Seq(X)
BY AppendProperties DEF AddOne

\* AddNew is that loop.
LEMMA AddNewLoop ==
    ASSUME NEW X, NEW seq \in Seq(X), NEW new \in Seq(X)
    PROVE  \E acc \in [0..Len(new) -> Seq(X)] :
              /\ acc[0] = seq /\ acc[Len(new)] = AddNew(seq, new)
              /\ \A n \in 0..(Len(new) - 1) : acc[n+1] = AddOne(acc[n], new[n+1])
<1> DEFINE N == Len(new)
           A == Seq(X)
           base == seq
           step == [p \in A \X (1..N) |-> AddOne(p[1], new[p[2]])]
           Body(g) == [s \in SUBSET (1..N) |->
                         IF s = {} THEN base ELSE AddOne(g[s \ {Max(s)}], new[Max(s)])]
           iter == CHOOSE g : g = Body(g)
<1>1. N \in Nat /\ DOMAIN new = 1..N /\ base \in A /\ \A i \in 1..N : new[i] \in X
  BY LenProperties
<1>2. AddNew(seq, new) = iter[1..N]
  <2>1. AddNew(seq, new) =
           (CHOOSE g : g = [s \in SUBSET DOMAIN new |-> IF s = {} THEN seq
              ELSE IF new[Max(s)] \in ToSet(g[s \ {Max(s)}]) THEN g[s \ {Max(s)}]
                   ELSE Append(g[s \ {Max(s)}], new[Max(s)])])[DOMAIN new]
    BY Zenon DEF AddNew, FoldLeft, MapThenFoldSet
  <2>2. QED BY <1>1, <2>1, Zenon DEF AddOne
<1>3. \A a \in A, i \in 1..N : <<a, i>> \in A \X (1..N) /\ AddOne(a, new[i]) \in A
  BY <1>1, AddOneType
<1>4. step \in [A \X (1..N) -> A] /\ \A a \in A, i \in 1..N : step[<<a, i>>] = AddOne(a, new[i])
  <2> HIDE DEF A, N
  <2>1. \A p \in A \X (1..N) : p[1] \in A /\ p[2] \in 1..N
    OBVIOUS
  <2>2. \A p \in A \X (1..N) : AddOne(p[1], new[p[2]]) \in A
    BY <1>3, <2>1
  <2>3. step \in [A \X (1..N) -> A]
    BY <2>2, Zenon
  <2>4. \A a \in A, i \in 1..N : step[<<a, i>>] = AddOne(a, new[i])
    BY <1>3
  <2>5. QED BY <2>3, <2>4
<1> HIDE DEF N, A, base, step
<1>5. \A s \in SUBSET (1..N) : s # {} => Max(s) \in 1..N
  BY <1>1, MaxIn
<1>6. PICK g : IsFold(N, A, base, step, g)
  BY <1>1, <1>4, FoldExists
<1>7. g = Body(g)
  <2>1. /\ g = [s \in SUBSET (1..N) |-> g[s]]
        /\ \A s \in SUBSET (1..N) : g[s] \in A /\ s \ {Max(s)} \in SUBSET (1..N)
        /\ \A s \in SUBSET (1..N) :
              g[s] = IF s = {} THEN base ELSE step[<<g[s \ {Max(s)}], Max(s)>>]
    BY <1>6, Zenon DEF IsFold
  <2>2. \A s \in SUBSET (1..N) : s # {} =>
           step[<<g[s \ {Max(s)}], Max(s)>>] = AddOne(g[s \ {Max(s)}], new[Max(s)])
    BY <1>4, <1>5, <2>1
  <2>3. \A s \in SUBSET (1..N) :
           g[s] = IF s = {} THEN base ELSE AddOne(g[s \ {Max(s)}], new[Max(s)])
    BY <2>1, <2>2, Zenon
  <2>4. QED BY <2>1, <2>3, Zenon
<1>8. iter = Body(iter)
  <2> HIDE DEF Body
  <2>1. QED BY <1>7, Zenon
<1>9. \A s \in SUBSET (1..N) :
         iter[s] = IF s = {} THEN base ELSE AddOne(iter[s \ {Max(s)}], new[Max(s)])
  <2> HIDE DEF iter
  <2>1. QED BY <1>8
<1> HIDE DEF iter, Body
<1>10. iter[{}] = base
  BY <1>9
<1>11. \A s \in SUBSET (1..N) : s # {} /\ iter[s \ {Max(s)}] \in A =>
          iter[s] = step[<<iter[s \ {Max(s)}], Max(s)>>]
  BY <1>4, <1>5, <1>9
<1>12. PICK acc \in [0..N -> A] :
          /\ acc[0] = base /\ acc[N] = iter[1..N]
          /\ \A n \in 0..(N - 1) : acc[n+1] = step[<<acc[n], n + 1>>]
  <2>1. FoldsIn(N, A, base, step, iter)
    BY <1>10, <1>11 DEF FoldsIn
  <2>2. PICK acc : IsLoop(N, A, base, step, iter[1..N], acc)
    BY <1>1, <1>4, <2>1, FoldIsLoop
  <2>3. QED BY <2>2 DEF IsLoop
<1>13. \A n \in 0..(N - 1) : acc[n] \in A /\ n + 1 \in 1..N
  BY <1>1, SMT
<1>14. \A n \in 0..(N - 1) : acc[n+1] = AddOne(acc[n], new[n+1])
  BY <1>4, <1>12, <1>13
<1>15. QED BY <1>2, <1>12, <1>14 DEF N, A, base

\* One turn of the loop of MergeServers.
MergeOne(acc, s) ==
    IF \E i \in DOMAIN acc : acc[i].cn = s.cn
      THEN [i \in DOMAIN acc |-> IF acc[i].cn = s.cn THEN s ELSE acc[i]]
      ELSE Append(acc, s)

\* It keeps to servers.
LEMMA MergeOneType ==
    ASSUME NEW X, NEW acc \in Seq(X), NEW x \in X
    PROVE  MergeOne(acc, x) \in Seq(X)
<1>1. CASE \E i \in DOMAIN acc : acc[i].cn = x.cn
  <2> DEFINE r == [i \in DOMAIN acc |-> IF acc[i].cn = x.cn THEN x ELSE acc[i]]
  <2>1. DOMAIN acc = 1..Len(acc) /\ Len(acc) \in Nat /\ \A i \in DOMAIN acc : r[i] \in X
    BY LenProperties
  <2>2. r \in [1..Len(acc) -> X]
    BY <2>1
  <2>3. r \in Seq(X)
    BY <2>1, <2>2, SeqDef
  <2>4. QED BY <1>1, <2>3 DEF MergeOne
<1>2. CASE ~ \E i \in DOMAIN acc : acc[i].cn = x.cn
  BY <1>2, AppendProperties DEF MergeOne
<1>3. QED BY <1>1, <1>2

\* MergeServers is that loop.
LEMMA MergeServersLoop ==
    ASSUME NEW X, NEW seq \in Seq(X), NEW new \in Seq(X)
    PROVE  \E acc \in [0..Len(new) -> Seq(X)] :
              /\ acc[0] = seq /\ acc[Len(new)] = MergeServers(seq, new)
              /\ \A n \in 0..(Len(new) - 1) : acc[n+1] = MergeOne(acc[n], new[n+1])
<1> DEFINE N == Len(new)
           A == Seq(X)
           base == seq
           step == [p \in A \X (1..N) |-> MergeOne(p[1], new[p[2]])]
           Body(g) == [s \in SUBSET (1..N) |->
                         IF s = {} THEN base ELSE MergeOne(g[s \ {Max(s)}], new[Max(s)])]
           iter == CHOOSE g : g = Body(g)
<1>1. N \in Nat /\ DOMAIN new = 1..N /\ base \in A /\ \A i \in 1..N : new[i] \in X
  BY LenProperties
<1>2. MergeServers(seq, new) = iter[1..N]
  <2>1. MergeServers(seq, new) =
           (CHOOSE g : g = [s \in SUBSET DOMAIN new |-> IF s = {} THEN seq
              ELSE IF \E i \in DOMAIN g[s \ {Max(s)}] : g[s \ {Max(s)}][i].cn = new[Max(s)].cn
                     THEN [i \in DOMAIN g[s \ {Max(s)}] |->
                             IF g[s \ {Max(s)}][i].cn = new[Max(s)].cn
                               THEN new[Max(s)] ELSE g[s \ {Max(s)}][i]]
                     ELSE Append(g[s \ {Max(s)}], new[Max(s)])])[DOMAIN new]
    BY Zenon DEF MergeServers, FoldLeft, MapThenFoldSet
  <2>2. QED BY <1>1, <2>1, Zenon DEF MergeOne
<1>3. \A a \in A, i \in 1..N : <<a, i>> \in A \X (1..N) /\ MergeOne(a, new[i]) \in A
  BY <1>1, MergeOneType
<1>4. step \in [A \X (1..N) -> A] /\ \A a \in A, i \in 1..N : step[<<a, i>>] = MergeOne(a, new[i])
  <2> HIDE DEF A, N
  <2>1. \A p \in A \X (1..N) : p[1] \in A /\ p[2] \in 1..N
    OBVIOUS
  <2>2. \A p \in A \X (1..N) : MergeOne(p[1], new[p[2]]) \in A
    BY <1>3, <2>1
  <2>3. step \in [A \X (1..N) -> A]
    BY <2>2, Zenon
  <2>4. \A a \in A, i \in 1..N : step[<<a, i>>] = MergeOne(a, new[i])
    BY <1>3
  <2>5. QED BY <2>3, <2>4
<1> HIDE DEF N, A, base, step
<1>5. \A s \in SUBSET (1..N) : s # {} => Max(s) \in 1..N
  BY <1>1, MaxIn
<1>6. PICK g : IsFold(N, A, base, step, g)
  BY <1>1, <1>4, FoldExists
<1>7. g = Body(g)
  <2>1. /\ g = [s \in SUBSET (1..N) |-> g[s]]
        /\ \A s \in SUBSET (1..N) : g[s] \in A /\ s \ {Max(s)} \in SUBSET (1..N)
        /\ \A s \in SUBSET (1..N) :
              g[s] = IF s = {} THEN base ELSE step[<<g[s \ {Max(s)}], Max(s)>>]
    BY <1>6, Zenon DEF IsFold
  <2>2. \A s \in SUBSET (1..N) : s # {} =>
           step[<<g[s \ {Max(s)}], Max(s)>>] = MergeOne(g[s \ {Max(s)}], new[Max(s)])
    BY <1>4, <1>5, <2>1
  <2>3. \A s \in SUBSET (1..N) :
           g[s] = IF s = {} THEN base ELSE MergeOne(g[s \ {Max(s)}], new[Max(s)])
    BY <2>1, <2>2, Zenon
  <2>4. QED BY <2>1, <2>3, Zenon
<1>8. iter = Body(iter)
  <2> HIDE DEF Body
  <2>1. QED BY <1>7, Zenon
<1>9. \A s \in SUBSET (1..N) :
         iter[s] = IF s = {} THEN base ELSE MergeOne(iter[s \ {Max(s)}], new[Max(s)])
  <2> HIDE DEF iter
  <2>1. QED BY <1>8
<1> HIDE DEF iter, Body
<1>10. iter[{}] = base
  BY <1>9
<1>11. \A s \in SUBSET (1..N) : s # {} /\ iter[s \ {Max(s)}] \in A =>
          iter[s] = step[<<iter[s \ {Max(s)}], Max(s)>>]
  BY <1>4, <1>5, <1>9
<1>12. PICK acc \in [0..N -> A] :
          /\ acc[0] = base /\ acc[N] = iter[1..N]
          /\ \A n \in 0..(N - 1) : acc[n+1] = step[<<acc[n], n + 1>>]
  <2>1. FoldsIn(N, A, base, step, iter)
    BY <1>10, <1>11 DEF FoldsIn
  <2>2. PICK acc : IsLoop(N, A, base, step, iter[1..N], acc)
    BY <1>1, <1>4, <2>1, FoldIsLoop
  <2>3. QED BY <2>2 DEF IsLoop
<1>13. \A n \in 0..(N - 1) : acc[n] \in A /\ n + 1 \in 1..N
  BY <1>1, SMT
<1>14. \A n \in 0..(N - 1) : acc[n+1] = MergeOne(acc[n], new[n+1])
  BY <1>4, <1>12, <1>13
<1>15. QED BY <1>2, <1>12, <1>14 DEF N, A, base

\* One turn of the loop of onePerRegion.
KeepOne(acc, s) == IF \E i \in DOMAIN acc : acc[i].region = s.region THEN acc ELSE Append(acc, s)

\* It keeps to servers.
LEMMA KeepOneType ==
    ASSUME NEW X, NEW acc \in Seq(X), NEW x \in X
    PROVE  KeepOne(acc, x) \in Seq(X)
BY AppendProperties DEF KeepOne

\* onePerRegion is that loop.
LEMMA onePerRegionLoop ==
    ASSUME NEW X, NEW new \in Seq(X)
    PROVE  \E acc \in [0..Len(new) -> Seq(X)] :
              /\ acc[0] = << >> /\ acc[Len(new)] = onePerRegion(new)
              /\ \A n \in 0..(Len(new) - 1) : acc[n+1] = KeepOne(acc[n], new[n+1])
<1> DEFINE N == Len(new)
           A == Seq(X)
           base == << >>
           step == [p \in A \X (1..N) |-> KeepOne(p[1], new[p[2]])]
           Body(g) == [s \in SUBSET (1..N) |->
                         IF s = {} THEN base ELSE KeepOne(g[s \ {Max(s)}], new[Max(s)])]
           iter == CHOOSE g : g = Body(g)
<1>1. N \in Nat /\ DOMAIN new = 1..N /\ base \in A /\ \A i \in 1..N : new[i] \in X
  BY LenProperties
<1>2. onePerRegion(new) = iter[1..N]
  <2>1. onePerRegion(new) =
           (CHOOSE g : g = [s \in SUBSET DOMAIN new |-> IF s = {} THEN << >>
              ELSE IF \E i \in DOMAIN g[s \ {Max(s)}] :
                           g[s \ {Max(s)}][i].region = new[Max(s)].region
                     THEN g[s \ {Max(s)}]
                     ELSE Append(g[s \ {Max(s)}], new[Max(s)])])[DOMAIN new]
    BY Zenon DEF onePerRegion, FoldLeft, MapThenFoldSet
  <2>2. QED BY <1>1, <2>1, Zenon DEF KeepOne
<1>3. \A a \in A, i \in 1..N : <<a, i>> \in A \X (1..N) /\ KeepOne(a, new[i]) \in A
  BY <1>1, KeepOneType
<1>4. step \in [A \X (1..N) -> A] /\ \A a \in A, i \in 1..N : step[<<a, i>>] = KeepOne(a, new[i])
  <2> HIDE DEF A, N
  <2>1. \A p \in A \X (1..N) : p[1] \in A /\ p[2] \in 1..N
    OBVIOUS
  <2>2. \A p \in A \X (1..N) : KeepOne(p[1], new[p[2]]) \in A
    BY <1>3, <2>1
  <2>3. step \in [A \X (1..N) -> A]
    BY <2>2, Zenon
  <2>4. \A a \in A, i \in 1..N : step[<<a, i>>] = KeepOne(a, new[i])
    BY <1>3
  <2>5. QED BY <2>3, <2>4
<1> HIDE DEF N, A, base, step
<1>5. \A s \in SUBSET (1..N) : s # {} => Max(s) \in 1..N
  BY <1>1, MaxIn
<1>6. PICK g : IsFold(N, A, base, step, g)
  BY <1>1, <1>4, FoldExists
<1>7. g = Body(g)
  <2>1. /\ g = [s \in SUBSET (1..N) |-> g[s]]
        /\ \A s \in SUBSET (1..N) : g[s] \in A /\ s \ {Max(s)} \in SUBSET (1..N)
        /\ \A s \in SUBSET (1..N) :
              g[s] = IF s = {} THEN base ELSE step[<<g[s \ {Max(s)}], Max(s)>>]
    BY <1>6, Zenon DEF IsFold
  <2>2. \A s \in SUBSET (1..N) : s # {} =>
           step[<<g[s \ {Max(s)}], Max(s)>>] = KeepOne(g[s \ {Max(s)}], new[Max(s)])
    BY <1>4, <1>5, <2>1
  <2>3. \A s \in SUBSET (1..N) :
           g[s] = IF s = {} THEN base ELSE KeepOne(g[s \ {Max(s)}], new[Max(s)])
    BY <2>1, <2>2, Zenon
  <2>4. QED BY <2>1, <2>3, Zenon
<1>8. iter = Body(iter)
  <2> HIDE DEF Body
  <2>1. QED BY <1>7, Zenon
<1>9. \A s \in SUBSET (1..N) :
         iter[s] = IF s = {} THEN base ELSE KeepOne(iter[s \ {Max(s)}], new[Max(s)])
  <2> HIDE DEF iter
  <2>1. QED BY <1>8
<1> HIDE DEF iter, Body
<1>10. iter[{}] = base
  BY <1>9
<1>11. \A s \in SUBSET (1..N) : s # {} /\ iter[s \ {Max(s)}] \in A =>
          iter[s] = step[<<iter[s \ {Max(s)}], Max(s)>>]
  BY <1>4, <1>5, <1>9
<1>12. PICK acc \in [0..N -> A] :
          /\ acc[0] = base /\ acc[N] = iter[1..N]
          /\ \A n \in 0..(N - 1) : acc[n+1] = step[<<acc[n], n + 1>>]
  <2>1. FoldsIn(N, A, base, step, iter)
    BY <1>10, <1>11 DEF FoldsIn
  <2>2. PICK acc : IsLoop(N, A, base, step, iter[1..N], acc)
    BY <1>1, <1>4, <2>1, FoldIsLoop
  <2>3. QED BY <2>2 DEF IsLoop
<1>13. \A n \in 0..(N - 1) : acc[n] \in A /\ n + 1 \in 1..N
  BY <1>1, SMT
<1>14. \A n \in 0..(N - 1) : acc[n+1] = KeepOne(acc[n], new[n+1])
  BY <1>4, <1>12, <1>13
<1>15. QED BY <1>2, <1>12, <1>14 DEF N, A, base

-----------------------------------------------------------------------------
(* What the loops compute.                                                 *)

\* What the first n addresses of an answer are, each once.
Firsts(answer, n) == {answer[k] : k \in 1..n}

\* They grow by one address at a time.
LEMMA FirstsGrow ==
    ASSUME NEW answer, NEW n \in Nat
    PROVE  /\ Firsts(answer, n + 1) = Firsts(answer, n) \cup {answer[n+1]}
           /\ Firsts(answer, 0) = {}
<1>1. 1..(n+1) = (1..n) \cup {n+1} /\ 1..0 = {}
  BY SMT
<1>2. QED BY <1>1 DEF Firsts

\* What one turn makes of acc.
OneAdded(acc, x, r) ==
    /\ \A i, j \in 1..Len(r) : r[i] = r[j] => i = j
    /\ Len(acc) <= Len(r) /\ \A i \in 1..Len(acc) : r[i] = acc[i]
    /\ ToSet(r) = ToSet(acc) \cup {x}
    /\ Len(r) = IF x \in ToSet(acc) THEN Len(acc) ELSE Len(acc) + 1
    /\ x \notin ToSet(acc) => r[Len(r)] = x

\* AddOne adds an address that is not there yet, behind all others.
LEMMA AddOneDoes ==
    ASSUME NEW X, NEW acc \in Seq(X), NEW x \in X,
           \A i, j \in 1..Len(acc) : acc[i] = acc[j] => i = j
    PROVE  OneAdded(acc, x, AddOne(acc, x))
<1> USE DEF OneAdded
<1>1. Len(acc) \in Nat /\ DOMAIN acc = 1..Len(acc)
  BY LenProperties
<1>2. CASE x \in ToSet(acc)
  BY <1>1, <1>2 DEF AddOne
<1>3. CASE x \notin ToSet(acc)
  <2> DEFINE r == Append(acc, x)
  <2>1. /\ AddOne(acc, x) = r /\ r \in Seq(X) /\ Len(r) = Len(acc) + 1 /\ r[Len(acc) + 1] = x
        /\ \A i \in 1..Len(acc) : r[i] = acc[i] 
        /\ DOMAIN r = 1..(Len(acc) + 1)
    BY <1>3, AppendProperties, LenProperties DEF AddOne
  <2> HIDE DEF r
  <2>2. \A i \in 1..Len(acc) : acc[i] # x
    BY <1>1, <1>3 DEF ToSet
  <2>3. \A i, j \in 1..Len(r) : r[i] = r[j] => i = j
    <3>1. ASSUME NEW i \in 1..Len(r), NEW j \in 1..Len(r), r[i] = r[j]
          PROVE  i = j
      <4>1. CASE i \in 1..Len(acc) /\ j \in 1..Len(acc)
        BY <2>1, <3>1, <4>1
      <4>2. CASE i \in 1..Len(acc) /\ j = Len(acc) + 1
        BY <2>1, <2>2, <3>1, <4>2
      <4>3. CASE j \in 1..Len(acc) /\ i = Len(acc) + 1
        BY <2>1, <2>2, <3>1, <4>3
      <4>4. CASE i = Len(acc) + 1 /\ j = Len(acc) + 1
        BY <4>4
      <4>5. i \in 1..(Len(acc) + 1) /\ j \in 1..(Len(acc) + 1)
        BY <2>1
      <4>6. QED BY <1>1, <4>1, <4>2, <4>3, <4>4, <4>5
    <3>2. QED BY <3>1
  <2>4. ToSet(r) = ToSet(acc) \cup {x}
    <3>1. ASSUME NEW v \in ToSet(r) PROVE v \in ToSet(acc) \cup {x}
      BY <1>1, <2>1 DEF ToSet
    <3>2. x \in ToSet(r)
      BY <1>1, <2>1 DEF ToSet
    <3>3. ASSUME NEW v \in ToSet(acc) PROVE v \in ToSet(r)
      BY <1>1, <2>1 DEF ToSet
    <3>4. QED BY <3>1, <3>2, <3>3
  <2>5. Len(acc) <= Len(r)
    BY <1>1, <2>1
  <2>6. QED BY <1>3, <2>1, <2>3, <2>4, <2>5
<1>4. QED BY <1>2, <1>3

\* AddNew adds the addresses that are not there yet, behind all others.
LEMMA AddNewDoes ==
    ASSUME NEW X, NEW seq \in Seq(X), NEW new \in Seq(X),
           \A i, j \in 1..Len(seq) : seq[i] = seq[j] => i = j
    PROVE  LET r == AddNew(seq, new)
           IN  /\ r \in Seq(X)
               /\ \A i, j \in 1..Len(r) : r[i] = r[j] => i = j
               /\ Len(seq) <= Len(r) /\ \A i \in 1..Len(seq) : r[i] = seq[i]
               /\ ToSet(r) = ToSet(seq) \cup ToSet(new)
<1> DEFINE N == Len(new)
<1>1. N \in Nat /\ DOMAIN new = 1..N /\ Len(seq) \in Nat /\ \A i \in 1..N : new[i] \in X
  BY LenProperties
<1>2. PICK acc \in [0..N -> Seq(X)] :
         /\ acc[0] = seq /\ acc[N] = AddNew(seq, new)
         /\ \A n \in 0..(N - 1) : acc[n+1] = AddOne(acc[n], new[n+1])
  BY AddNewLoop
<1> DEFINE Grown(r, n) ==
              /\ \A i, j \in 1..Len(r) : r[i] = r[j] => i = j
              /\ Len(seq) <= Len(r) /\ \A i \in 1..Len(seq) : r[i] = seq[i]
              /\ ToSet(r) = ToSet(seq) \cup Firsts(new, n)
           S == {n \in 0..N : Grown(acc[n], n)}
<1> HIDE DEF N
<1>3. 0 \in S
  <2>1. Firsts(new, 0) = {} /\ 0 \in 0..N
    BY <1>1, FirstsGrow
  <2>2. Grown(seq, 0)
    BY <1>1, <2>1
  <2> HIDE DEF Grown
  <2>3. QED BY <1>2, <2>1, <2>2
<1>4. ASSUME NEW n \in 0..(N - 1), n \in S PROVE n + 1 \in S
  <2> DEFINE a == acc[n]
             r == AddOne(a, new[n+1])
  <2>1. n \in 0..N /\ n + 1 \in 0..N /\ n + 1 \in 1..N /\ n \in Nat
    BY <1>1, SMT
  <2>2. a \in Seq(X) /\ Grown(a, n) /\ Len(a) \in Nat /\ acc[n+1] = r /\ new[n+1] \in X
    BY <1>1, <1>2, <1>4, <2>1, LenProperties
  <2>3. /\ \A i, j \in 1..Len(r) : r[i] = r[j] => i = j
        /\ Len(a) <= Len(r) /\ \A i \in 1..Len(a) : r[i] = a[i]
        /\ ToSet(r) = ToSet(a) \cup {new[n+1]}
    <3>1. a \in Seq(X) /\ new[n+1] \in X /\ \A i, j \in 1..Len(a) : a[i] = a[j] => i = j
      BY <2>2
    <3>2. OneAdded(a, new[n+1], r)
      <4> HIDE DEF a, Grown, S
      <4>1. QED BY <3>1, AddOneDoes
    <3> HIDE DEF r, a
    <3>3. QED BY <3>2 DEF OneAdded
  <2>4. r \in Seq(X) /\ Len(r) \in Nat
    BY <2>2, AddOneType, LenProperties
  <2> HIDE DEF r, a
  <2>5. Len(seq) <= Len(r) /\ \A i \in 1..Len(seq) : r[i] = seq[i]
    BY <1>1, <2>2, <2>3, <2>4
  <2>6. ToSet(r) = ToSet(seq) \cup Firsts(new, n + 1)
    BY <2>1, <2>2, <2>3, FirstsGrow
  <2>7. Grown(r, n + 1)
    BY <2>3, <2>5, <2>6
  <2> HIDE DEF Grown
  <2>8. QED BY <2>1, <2>2, <2>7
<1>5. 0..N \subseteq S
  <2> HIDE DEF S
  <2>1. QED BY <1>1, <1>3, <1>4, SetInduction
<1>6. N \in 0..N
  BY <1>1, SMT
<1>7. Grown(acc[N], N) /\ acc[N] \in Seq(X)
  <2> HIDE DEF Grown
  <2>1. QED BY <1>2, <1>5, <1>6
<1>8. Firsts(new, N) = ToSet(new)
  BY <1>1 DEF Firsts, ToSet
<1>9. QED BY <1>2, <1>7, <1>8

\* Of an answer it leaves the first of equal addresses, in the answer's order.
LEMMA AddNewToNothing ==
    ASSUME NEW X, NEW new \in Seq(X)
    PROVE  LET r == AddNew(<< >>, new)
           IN  \A i \in 1..Len(new) : FirstAt(new, i) =>
                  Place(new, i) \in 1..Len(r) /\ r[Place(new, i)] = new[i]
<1> DEFINE N == Len(new)
           e == << >>
<1>1. N \in Nat /\ e \in Seq(X) /\ Len(e) = 0 /\ \A i \in 1..N : new[i] \in X
  BY LenProperties
<1>2. PICK acc \in [0..N -> Seq(X)] :
         /\ acc[0] = e /\ acc[N] = AddNew(e, new)
         /\ \A n \in 0..(N - 1) : acc[n+1] = AddOne(acc[n], new[n+1])
  <2> HIDE DEF e
  <2>1. QED BY <1>1, AddNewLoop
<1> DEFINE Placed(r, n) ==
              /\ \A i, j \in 1..Len(r) : r[i] = r[j] => i = j
              /\ ToSet(r) = Firsts(new, n) /\ IsFiniteSet(Firsts(new, n))
              /\ Len(r) = Cardinality(Firsts(new, n))
              /\ \A i \in 1..n : FirstAt(new, i) =>
                    Place(new, i) \in 1..Len(r) /\ r[Place(new, i)] = new[i]
           S == {n \in 0..N : Placed(acc[n], n)}
<1>3. 0 \in S
  <2>1. Firsts(new, 0) = {} /\ 0 \in 0..N
    BY <1>1, FirstsGrow
  <2>2. IsFiniteSet(Firsts(new, 0)) /\ Cardinality(Firsts(new, 0)) = 0
    BY <2>1, FS_EmptySet
  <2>3. ToSet(e) = {}
    BY DEF ToSet
  <2> HIDE DEF e, N
  <2>4. Placed(e, 0)
    BY <1>1, <2>1, <2>2, <2>3
  <2> HIDE DEF Placed
  <2>5. QED BY <1>2, <2>1, <2>4
<1> HIDE DEF N, e
<1>4. ASSUME NEW n \in 0..(N - 1), n \in S PROVE n + 1 \in S
  <2> DEFINE a == acc[n]
             r == AddOne(a, new[n+1])
  <2>1. n \in 0..N /\ n + 1 \in 0..N /\ n + 1 \in 1..N /\ n \in Nat
    BY <1>1, SMT
  <2>2. a \in Seq(X) /\ Placed(a, n) /\ Len(a) \in Nat /\ acc[n+1] = r /\ new[n+1] \in X
    BY <1>1, <1>2, <1>4, <2>1, LenProperties
  <2>3. /\ \A i, j \in 1..Len(r) : r[i] = r[j] => i = j
        /\ Len(a) <= Len(r) /\ \A i \in 1..Len(a) : r[i] = a[i]
        /\ ToSet(r) = ToSet(a) \cup {new[n+1]}
        /\ Len(r) = IF new[n+1] \in ToSet(a) THEN Len(a) ELSE Len(a) + 1
        /\ new[n+1] \notin ToSet(a) => r[Len(r)] = new[n+1]
    <3>1. a \in Seq(X) /\ new[n+1] \in X /\ \A i, j \in 1..Len(a) : a[i] = a[j] => i = j
      BY <2>2
    <3>2. OneAdded(a, new[n+1], r)
      <4> HIDE DEF a, Placed, S
      <4>1. QED BY <3>1, AddOneDoes
    <3> HIDE DEF r, a
    <3>3. QED BY <3>2 DEF OneAdded
  <2>4. r \in Seq(X) /\ Len(r) \in Nat /\ DOMAIN r = 1..Len(r) /\ DOMAIN a = 1..Len(a)
    BY <2>2, AddOneType, LenProperties
  <2>5. Firsts(new, n + 1) = Firsts(new, n) \cup {new[n+1]}
    BY <2>1, FirstsGrow
  <2> HIDE DEF r, a
  <2>6. /\ IsFiniteSet(Firsts(new, n + 1))
        /\ Cardinality(Firsts(new, n + 1)) =
              IF new[n+1] \in Firsts(new, n) THEN Cardinality(Firsts(new, n))
                                             ELSE Cardinality(Firsts(new, n)) + 1
    <3>1. IsFiniteSet(Firsts(new, n))
      BY <2>2
    <3>2. QED BY <2>5, <3>1, FS_AddElement
  <2>7. ToSet(r) = Firsts(new, n + 1) /\ Len(r) = Cardinality(Firsts(new, n + 1))
    BY <2>2, <2>3, <2>5, <2>6
  <2>8. ASSUME NEW i \in 1..n, FirstAt(new, i)
        PROVE  Place(new, i) \in 1..Len(r) /\ r[Place(new, i)] = new[i]
    <3>1. Place(new, i) \in 1..Len(a) /\ a[Place(new, i)] = new[i]
      BY <2>2, <2>8
    <3>2. QED BY <2>2, <2>3, <2>4, <3>1
  <2>9. ASSUME FirstAt(new, n + 1)
        PROVE  Place(new, n + 1) \in 1..Len(r) /\ r[Place(new, n + 1)] = new[n+1]
    <3>1. Place(new, n + 1) = Cardinality(Firsts(new, n + 1))
      BY DEF Place, Firsts
    <3>2. Place(new, n + 1) = Len(r)
      BY <2>7, <3>1
    <3>3. new[n+1] \notin ToSet(a)
      <4>1. \A k \in 1..n : new[k] # new[n+1]
        BY <2>1, <2>9 DEF FirstAt
      <4>2. QED BY <2>2, <4>1 DEF Firsts
    <3>4. Len(r) = Len(a) + 1 /\ r[Len(r)] = new[n+1]
      BY <2>3, <3>3
    <3>5. QED BY <2>2, <2>4, <3>2, <3>4
  <2>10. \A i \in 1..(n+1) : FirstAt(new, i) =>
             Place(new, i) \in 1..Len(r) /\ r[Place(new, i)] = new[i]
    <3>1. \A i \in 1..(n+1) : i \in 1..n \/ i = n + 1
      BY <2>1, SMT
    <3>2. QED BY <2>8, <2>9, <3>1, Zenon
  <2>11. Placed(r, n + 1)
    BY <2>3, <2>6, <2>7, <2>10
  <2> HIDE DEF Placed
  <2>12. QED BY <2>1, <2>2, <2>11
<1>5. 0..N \subseteq S
  <2> HIDE DEF S
  <2>1. QED BY <1>1, <1>3, <1>4, SetInduction
<1>6. Placed(acc[N], N)
  <2>1. N \in 0..N
    BY <1>1, SMT
  <2> HIDE DEF Placed
  <2>2. QED BY <1>5, <2>1
<1>7. QED BY <1>2, <1>6 DEF N, e


\* mergeIPs, for any addresses: what it returns has no duplicates and is no longer
\* than allowed, begins with the new addresses in their order, as many as fit, and
\* holds nothing else than new and cached ones, all of them if there is room left.
THEOREM MergedIPs ==
    ASSUME NEW X, NEW existing \in Seq(X), NEW newIPs \in Seq(X)
    PROVE  LET r == mergeIPs(existing, newIPs)
           IN  /\ r \in Seq(X) /\ Len(r) <= MaxCachedIPs
               /\ \A i, j \in DOMAIN r : r[i] = r[j] => i = j
               /\ \A i \in DOMAIN newIPs :
                     FirstAt(newIPs, i) /\ Place(newIPs, i) <= MaxCachedIPs =>
                        /\ Place(newIPs, i) \in DOMAIN r
                        /\ r[Place(newIPs, i)] = newIPs[i]
               /\ ToSet(r) \subseteq ToSet(newIPs) \cup ToSet(existing)
               /\ Len(r) < MaxCachedIPs => ToSet(r) = ToSet(newIPs) \cup ToSet(existing)
<1> DEFINE e == << >>
           front == AddNew(e, newIPs)
           all == AddNew(front, existing)
           r == mergeIPs(existing, newIPs)
<1>1. e \in Seq(X) /\ Len(e) = 0 /\ DOMAIN newIPs = 1..Len(newIPs) /\ MaxCachedIPs \in Nat
  BY LenProperties, CacheAssumption
<1>2. \A i, j \in 1..Len(e) : e[i] = e[j] => i = j
  BY <1>1
<1>3. /\ front \in Seq(X)
      /\ \A i, j \in 1..Len(front) : front[i] = front[j] => i = j
      /\ ToSet(front) = ToSet(e) \cup ToSet(newIPs)
  <2>1. e \in Seq(X)
    BY <1>1
  <2> HIDE DEF e, r, all
  <2>2. QED BY <1>2, <2>1, AddNewDoes
<1>4. \A i \in 1..Len(newIPs) : FirstAt(newIPs, i) =>
         Place(newIPs, i) \in 1..Len(front) /\ front[Place(newIPs, i)] = newIPs[i]
  BY AddNewToNothing
<1>5. r = IF Len(all) > MaxCachedIPs THEN SubSeq(all, 1, MaxCachedIPs) ELSE all
  BY DEF mergeIPs
<1> HIDE DEF front, r
<1>6. /\ all \in Seq(X)
      /\ \A i, j \in 1..Len(all) : all[i] = all[j] => i = j
      /\ Len(front) <= Len(all) /\ \A i \in 1..Len(front) : all[i] = front[i]
      /\ ToSet(all) = ToSet(front) \cup ToSet(existing)
  BY <1>3, AddNewDoes
<1>7. Len(all) \in Nat /\ DOMAIN all = 1..Len(all) /\ Len(front) \in Nat
  BY <1>3, <1>6, LenProperties
<1>8. \A i \in DOMAIN newIPs : FirstAt(newIPs, i) =>
         Place(newIPs, i) \in 1..Len(all) /\ all[Place(newIPs, i)] = newIPs[i]
  BY <1>1, <1>4, <1>6, <1>7
<1> HIDE DEF all
<1>9. ToSet(all) = ToSet(newIPs) \cup ToSet(existing)
  <2>1. ToSet(e) = {}
    BY DEF ToSet
  <2> HIDE DEF e
  <2>2. QED BY <1>3, <1>6, <2>1
<1>10. CASE Len(all) > MaxCachedIPs
  <2>1. r = SubSeq(all, 1, MaxCachedIPs)
    BY <1>5, <1>10
  <2>2. /\ SubSeq(all, 1, MaxCachedIPs) \in Seq(X)
        /\ Len(SubSeq(all, 1, MaxCachedIPs)) = MaxCachedIPs
        /\ \A i \in 1..MaxCachedIPs : SubSeq(all, 1, MaxCachedIPs)[i] = all[i]
    BY <1>1, <1>6, <1>7, <1>10, SubSeqProperties
  <2>3. r \in Seq(X) /\ Len(r) = MaxCachedIPs /\ \A i \in 1..MaxCachedIPs : r[i] = all[i]
    BY <2>1, <2>2
  <2>4. DOMAIN r = 1..MaxCachedIPs
    BY <2>3, LenProperties
  <2>5. \A i \in 1..MaxCachedIPs : i \in 1..Len(all)
    BY <1>1, <1>7, <1>10
  <2>6. \A i, j \in DOMAIN r : r[i] = r[j] => i = j
    BY <1>6, <2>3, <2>4, <2>5
  <2>7. \A i \in DOMAIN newIPs : FirstAt(newIPs, i) /\ Place(newIPs, i) <= MaxCachedIPs =>
           Place(newIPs, i) \in DOMAIN r /\ r[Place(newIPs, i)] = newIPs[i]
    BY <1>1, <1>7, <1>8, <2>3, <2>4
  <2>8. Len(r) <= MaxCachedIPs
    BY <1>1, <2>3
  <2>9. ToSet(r) \subseteq ToSet(all)
    BY <1>7, <2>3, <2>4, <2>5 DEF ToSet
  <2>10. ~(Len(r) < MaxCachedIPs)
    BY <1>1, <2>3
  <2>11. QED BY <1>9, <2>3, <2>6, <2>7, <2>8, <2>9, <2>10 DEF r
<1>11. CASE ~(Len(all) > MaxCachedIPs)
  <2>1. r = all
    BY <1>5, <1>11
  <2>2. QED BY <1>1, <1>6, <1>7, <1>8, <1>11, <1>9, <2>1 DEF r
<1>12. QED BY <1>10, <1>11

\* What one turn makes of acc.
OneMerged(acc, x, r) ==
    /\ \A i, j \in 1..Len(r) : r[i].cn = r[j].cn => i = j
    /\ x \in ToSet(r)
    /\ \A v \in ToSet(acc) : v.cn # x.cn => v \in ToSet(r)
    /\ ToSet(r) \subseteq ToSet(acc) \cup {x}

\* A server takes the place of the one with its CN, or the last.
LEMMA MergeOneDoes ==
    ASSUME NEW X, NEW acc \in Seq(X), NEW x \in X,
           \A i, j \in 1..Len(acc) : acc[i].cn = acc[j].cn => i = j
    PROVE  OneMerged(acc, x, MergeOne(acc, x))
<1> USE DEF OneMerged
<1>1. Len(acc) \in Nat /\ DOMAIN acc = 1..Len(acc)
  BY LenProperties
<1>2. CASE \E i \in DOMAIN acc : acc[i].cn = x.cn
  <2> DEFINE r == [i \in DOMAIN acc |-> IF acc[i].cn = x.cn THEN x ELSE acc[i]]
  <2>1. MergeOne(acc, x) = r /\ r \in Seq(X)
    BY <1>2, MergeOneType DEF MergeOne
  <2>2. DOMAIN r = DOMAIN acc /\ Len(r) = Len(acc)
    BY <1>1, <2>1, LenProperties
  <2>3. \A i \in DOMAIN acc :
          /\ r[i].cn = acc[i].cn /\ r[i] \in {x, acc[i]}
          /\ (acc[i].cn = x.cn => r[i] = x) /\ (acc[i].cn # x.cn => r[i] = acc[i])
    OBVIOUS
  <2> HIDE DEF r
  <2>4. \A i, j \in 1..Len(r) : r[i].cn = r[j].cn => i = j
    BY <1>1, <2>2, <2>3
  <2>5. x \in ToSet(r)
    BY <1>2, <2>2, <2>3 DEF ToSet
  <2>6. \A v \in ToSet(acc) : v.cn # x.cn => v \in ToSet(r)
    BY <2>2, <2>3 DEF ToSet
  <2>7. ToSet(r) \subseteq ToSet(acc) \cup {x}
    BY <2>2, <2>3 DEF ToSet
  <2>8. QED BY <2>1, <2>4, <2>5, <2>6, <2>7
<1>3. CASE ~ \E i \in DOMAIN acc : acc[i].cn = x.cn
  <2> DEFINE r == Append(acc, x)
  <2>1. /\ MergeOne(acc, x) = r /\ r \in Seq(X) /\ Len(r) = Len(acc) + 1 /\ r[Len(acc) + 1] = x
        /\ \A i \in 1..Len(acc) : r[i] = acc[i]
        /\ DOMAIN r = 1..(Len(acc) + 1)
    BY <1>3, AppendProperties, LenProperties DEF MergeOne
  <2> HIDE DEF r
  <2>2. \A i \in 1..(Len(acc) + 1) : i \in 1..Len(acc) \/ i = Len(acc) + 1
    BY <1>1, SMT
  <2>3. \A i, j \in 1..Len(r) : r[i].cn = r[j].cn => i = j
    <3>1. ASSUME NEW i \in 1..Len(r), NEW j \in 1..Len(r), r[i].cn = r[j].cn
          PROVE  i = j
      <4>1. CASE i \in 1..Len(acc) /\ j \in 1..Len(acc)
        BY <2>1, <3>1, <4>1
      <4>2. CASE i \in 1..Len(acc) /\ j = Len(acc) + 1
        BY <1>1, <1>3, <2>1, <3>1, <4>2
      <4>3. CASE j \in 1..Len(acc) /\ i = Len(acc) + 1
        BY <1>1, <1>3, <2>1, <3>1, <4>3
      <4>4. CASE i = Len(acc) + 1 /\ j = Len(acc) + 1
        BY <4>4
      <4>5. QED BY <2>1, <2>2, <4>1, <4>2, <4>3, <4>4
    <3>2. QED BY <3>1
  <2>4. x \in ToSet(r)
    BY <1>1, <2>1 DEF ToSet
  <2>5. \A v \in ToSet(acc) : v \in ToSet(r)
    BY <1>1, <2>1 DEF ToSet
  <2>6. ToSet(r) \subseteq ToSet(acc) \cup {x}
    BY <2>1, <2>2 DEF ToSet
  <2>7. QED BY <2>1, <2>3, <2>4, <2>5, <2>6
<1>4. QED BY <1>2, <1>3

\* MergeServers, for any servers: no two that it leaves have the same CN if there
\* were none before, every server of the list is there as the list describes it
\* last, cached servers the list does not have are still there, and nothing else.
THEOREM MergedServers ==
    ASSUME NEW X, NEW existing \in Seq(X), NEW list \in Seq(X),
           \A i, j \in DOMAIN existing : existing[i].cn = existing[j].cn => i = j
    PROVE  LET r == MergeServers(existing, list)
           IN  /\ r \in Seq(X)
               /\ \A i, j \in DOMAIN r : r[i].cn = r[j].cn => i = j
               /\ \A i \in DOMAIN list : LastOfCN(list, i) => list[i] \in ToSet(r)
               /\ \A v \in ToSet(existing) :
                     (\A i \in DOMAIN list : list[i].cn # v.cn) => v \in ToSet(r)
               /\ ToSet(r) \subseteq ToSet(existing) \cup ToSet(list)
<1> DEFINE N == Len(list)
<1>1. /\ N \in Nat /\ DOMAIN list = 1..N /\ DOMAIN existing = 1..Len(existing)
      /\ \A i \in 1..N : list[i] \in X
  BY LenProperties
<1>2. PICK acc \in [0..N -> Seq(X)] :
         /\ acc[0] = existing /\ acc[N] = MergeServers(existing, list)
         /\ \A n \in 0..(N - 1) : acc[n+1] = MergeOne(acc[n], list[n+1])
  BY MergeServersLoop
<1> HIDE DEF N
<1> DEFINE Merged(r, n) ==
              /\ \A i, j \in 1..Len(r) : r[i].cn = r[j].cn => i = j
              /\ \A i \in 1..n : (\A j \in 1..n : list[j].cn = list[i].cn => j <= i)
                                   => list[i] \in ToSet(r)
              /\ \A v \in ToSet(existing) :
                    (\A i \in 1..n : list[i].cn # v.cn) => v \in ToSet(r)
              /\ ToSet(r) \subseteq ToSet(existing) \cup ToSet(list)
           S == {n \in 0..N : Merged(acc[n], n)}
<1>3. 0 \in S
  <2>1. Merged(existing, 0)
    <3>1. \A i, j \in 1..Len(existing) : existing[i].cn = existing[j].cn => i = j
      BY <1>1
    <3>2. 1..0 = {}
      BY SMT
    <3>3. QED BY <3>1, <3>2
  <2>2. 0 \in 0..N
    BY <1>1, SMT
  <2> HIDE DEF Merged
  <2>3. QED BY <1>2, <2>1, <2>2
<1>4. ASSUME NEW n \in 0..(N - 1), n \in S PROVE n + 1 \in S
  <2> DEFINE a == acc[n]
             r == MergeOne(a, list[n+1])
  <2>1. n \in 0..N /\ n + 1 \in 0..N /\ n + 1 \in 1..N /\ n \in Nat
    BY <1>1, SMT
  <2>2. a \in Seq(X) /\ Merged(a, n) /\ acc[n+1] = r /\ list[n+1] \in X
    BY <1>1, <1>2, <1>4, <2>1
  <2>3. /\ \A i, j \in 1..Len(r) : r[i].cn = r[j].cn => i = j
        /\ list[n+1] \in ToSet(r)
        /\ \A v \in ToSet(a) : v.cn # list[n+1].cn => v \in ToSet(r)
        /\ ToSet(r) \subseteq ToSet(a) \cup {list[n+1]}
    <3>1. a \in Seq(X) /\ list[n+1] \in X
          /\ \A i, j \in 1..Len(a) : a[i].cn = a[j].cn => i = j
      BY <2>2
    <3>2. OneMerged(a, list[n+1], r)
      <4> HIDE DEF a, Merged, S
      <4>1. QED BY <3>1, MergeOneDoes
    <3> HIDE DEF r, a
    <3>3. QED BY <3>2 DEF OneMerged
  <2> HIDE DEF r, a
  <2>4. ASSUME NEW i \in 1..(n+1), \A j \in 1..(n+1) : list[j].cn = list[i].cn => j <= i
        PROVE  list[i] \in ToSet(r)
    <3>1. CASE i = n + 1
      BY <2>3, <3>1
    <3>2. CASE i # n + 1
      <4>1. i \in 1..n /\ n + 1 \in 1..(n+1) /\ ~(n + 1 <= i) /\ \A j \in 1..n : j \in 1..(n+1)
        BY <2>1, <3>2, SMT
      <4>2. list[n+1].cn # list[i].cn
        BY <2>4, <4>1
      <4>3. list[i] \in ToSet(a)
        BY <2>2, <2>4, <4>1
      <4>4. QED BY <2>3, <4>2, <4>3
    <3>3. QED BY <3>1, <3>2
  <2>5. ASSUME NEW v \in ToSet(existing), \A i \in 1..(n+1) : list[i].cn # v.cn
        PROVE  v \in ToSet(r)
    <3>1. n + 1 \in 1..(n+1) /\ \A i \in 1..n : i \in 1..(n+1)
      BY <2>1, SMT
    <3>2. v \in ToSet(a) /\ v.cn # list[n+1].cn
      BY <2>2, <2>5, <3>1
    <3>3. QED BY <2>3, <3>2
  <2>6. ToSet(r) \subseteq ToSet(existing) \cup ToSet(list)
    <3>1. list[n+1] \in ToSet(list)
      BY <1>1, <2>1 DEF ToSet
    <3>2. QED BY <2>2, <2>3, <3>1
  <2>7. Merged(r, n + 1)
    BY <2>3, <2>4, <2>5, <2>6
  <2> HIDE DEF Merged
  <2>8. QED BY <2>1, <2>2, <2>7
<1>5. 0..N \subseteq S
  <2> HIDE DEF S
  <2>1. QED BY <1>1, <1>3, <1>4, SetInduction
<1>6. N \in 0..N
  BY <1>1, SMT
<1>7. Merged(acc[N], N)
  <2> HIDE DEF Merged
  <2>1. QED BY <1>5, <1>6
<1>8. acc[N] \in Seq(X) /\ DOMAIN acc[N] = 1..Len(acc[N])
  BY <1>2, <1>6, LenProperties
<1>9. \A i \in DOMAIN list : LastOfCN(list, i) => list[i] \in ToSet(acc[N])
  BY <1>1, <1>7 DEF LastOfCN
<1>10. /\ \A i, j \in DOMAIN acc[N] : acc[N][i].cn = acc[N][j].cn => i = j
       /\ \A v \in ToSet(existing) :
             (\A i \in DOMAIN list : list[i].cn # v.cn) => v \in ToSet(acc[N])
       /\ ToSet(acc[N]) \subseteq ToSet(existing) \cup ToSet(list)
  BY <1>1, <1>7, <1>8
<1>11. acc[N] = MergeServers(existing, list)
  BY <1>2
<1> HIDE DEF Merged, S
<1>12. QED BY ONLY <1>8, <1>9, <1>10, <1>11


\* onePerRegion, for any servers: of every region it keeps one, the first.
THEOREM KeptServers ==
    ASSUME NEW X, NEW list \in Seq(X)
    PROVE  LET r == onePerRegion(list)
           IN  /\ r \in Seq(X) /\ ToSet(r) \subseteq ToSet(list)
               /\ \A i, j \in DOMAIN r : r[i].region = r[j].region => i = j
               /\ \A i \in DOMAIN list :
                     (\A j \in 1..(i - 1) : list[j].region # list[i].region)
                        => list[i] \in ToSet(r)
               /\ \A v \in ToSet(list) : \E w \in ToSet(r) : w.region = v.region
<1> DEFINE N == Len(list)
           e == << >>
<1>1. /\ N \in Nat /\ DOMAIN list = 1..N /\ e \in Seq(X) /\ Len(e) = 0
      /\ \A i \in 1..N : list[i] \in X
  BY LenProperties
<1>2. PICK acc \in [0..N -> Seq(X)] :
         /\ acc[0] = e /\ acc[N] = onePerRegion(list)
         /\ \A n \in 0..(N - 1) : acc[n+1] = KeepOne(acc[n], list[n+1])
  BY onePerRegionLoop
<1> DEFINE Kept(r, n) ==
              /\ ToSet(r) \subseteq ToSet(list)
              /\ \A i, j \in 1..Len(r) : r[i].region = r[j].region => i = j
              /\ \A i \in 1..n : (\A j \in 1..(i - 1) : list[j].region # list[i].region)
                                   => list[i] \in ToSet(r)
              /\ \A i \in 1..n : \E w \in ToSet(r) : w.region = list[i].region
              /\ \A w \in ToSet(r) : \E i \in 1..n : w = list[i]
           S == {n \in 0..N : Kept(acc[n], n)}
<1>3. 0 \in S
  <2>1. 1..0 = {} /\ 0 \in 0..N
    BY <1>1, SMT
  <2>2. ToSet(e) = {}
    BY DEF ToSet
  <2> HIDE DEF e, N
  <2>3. Kept(e, 0)
    BY <1>1, <2>1, <2>2
  <2> HIDE DEF Kept
  <2>4. QED BY <1>2, <2>1, <2>3
<1> HIDE DEF N, e
<1>4. ASSUME NEW n \in 0..(N - 1), n \in S PROVE n + 1 \in S
  <2> DEFINE a == acc[n]
             x == list[n+1]
             r == KeepOne(a, x)
  <2>1. n \in 0..N /\ n + 1 \in 0..N /\ n + 1 \in 1..N /\ n \in Nat
    BY <1>1, SMT
  <2>2. a \in Seq(X) /\ Kept(a, n) /\ acc[n+1] = r /\ x \in X /\ x \in ToSet(list)
    BY <1>1, <1>2, <1>4, <2>1 DEF ToSet
  <2>3. Len(a) \in Nat /\ DOMAIN a = 1..Len(a)
    BY <2>2, LenProperties
  <2>4. \A i \in 1..(n+1) : i \in 1..n \/ i = n + 1
    BY <2>1, SMT
  <2>5. \A i \in 1..n : i \in 1..(n+1) /\ n + 1 \in 1..(n+1)
    BY <2>1, SMT
  <2> HIDE DEF a, x
  <2>6. CASE \E i \in DOMAIN a : a[i].region = x.region
    <3>1. r = a
      BY <2>6 DEF KeepOne
    <3>2. \E w \in ToSet(a) : w.region = x.region
      BY <2>6 DEF ToSet
    <3>3. ~(\A j \in 1..((n+1) - 1) : list[j].region # list[n+1].region)
      <4>1. PICK w \in ToSet(a) : w.region = x.region
        BY <3>2
      <4>2. PICK j \in 1..n : w = list[j]
        BY <2>2
      <4>3. (n + 1) - 1 = n
        BY <2>1, SMT
      <4>4. QED BY <4>1, <4>2, <4>3 DEF x
    <3>4. \A i \in 1..(n+1) : (\A j \in 1..(i - 1) : list[j].region # list[i].region)
                                 => list[i] \in ToSet(a)
      BY <2>2, <2>4, <3>3
    <3>5. \A i \in 1..(n+1) : \E w \in ToSet(a) : w.region = list[i].region
      BY <2>2, <2>4, <3>2 DEF x
    <3>6. \A w \in ToSet(a) : \E i \in 1..(n+1) : w = list[i]
      BY <2>2, <2>5
    <3>7. Kept(a, n + 1)
      BY <2>2, <3>4, <3>5, <3>6
    <3> HIDE DEF Kept, r
    <3>8. QED BY <2>1, <2>2, <3>1, <3>7
  <2>7. CASE ~ \E i \in DOMAIN a : a[i].region = x.region
    <3>1. /\ r = Append(a, x) /\ r \in Seq(X) /\ Len(r) = Len(a) + 1 /\ r[Len(a) + 1] = x
          /\ \A i \in 1..Len(a) : r[i] = a[i]
          /\ DOMAIN r = 1..(Len(a) + 1)
      BY <2>2, <2>3, <2>7, AppendProperties, LenProperties DEF KeepOne
    <3> HIDE DEF r
    <3>2. \A i \in 1..(Len(a) + 1) : i \in 1..Len(a) \/ i = Len(a) + 1
      BY <2>3, SMT
    <3>3. \A i \in 1..Len(a) : i \in 1..(Len(a) + 1) /\ r[i].region # x.region
      BY <2>3, <2>7, <3>1
    <3>4. ToSet(r) = ToSet(a) \cup {x}
      <4>1. \A v \in ToSet(r) : v \in ToSet(a) \cup {x}
        BY <2>3, <3>1, <3>2 DEF ToSet
      <4>2. x \in ToSet(r)
        BY <2>3, <3>1 DEF ToSet
      <4>3. \A v \in ToSet(a) : v \in ToSet(r)
        BY <2>3, <3>1 DEF ToSet
      <4>4. QED BY <4>1, <4>2, <4>3
    <3>5. \A i, j \in 1..Len(r) : r[i].region = r[j].region => i = j
      <4>1. ASSUME NEW i \in 1..Len(r), NEW j \in 1..Len(r), r[i].region = r[j].region
            PROVE  i = j
        <5>1. CASE i \in 1..Len(a) /\ j \in 1..Len(a)
          BY <2>2, <3>1, <4>1, <5>1
        <5>2. CASE i \in 1..Len(a) /\ j = Len(a) + 1
          BY <3>1, <3>3, <4>1, <5>2
        <5>3. CASE j \in 1..Len(a) /\ i = Len(a) + 1
          BY <3>1, <3>3, <4>1, <5>3
        <5>4. CASE i = Len(a) + 1 /\ j = Len(a) + 1
          BY <5>4
        <5>5. QED BY <3>1, <3>2, <5>1, <5>2, <5>3, <5>4
      <4>2. QED BY <4>1
    <3>6. \A i \in 1..(n+1) : (\A j \in 1..(i - 1) : list[j].region # list[i].region)
                                 => list[i] \in ToSet(r)
      BY <2>2, <2>4, <3>4 DEF x
    <3>7. \A i \in 1..(n+1) : \E w \in ToSet(r) : w.region = list[i].region
      BY <2>2, <2>4, <3>4 DEF x
    <3>8. \A w \in ToSet(r) : \E i \in 1..(n+1) : w = list[i]
      <4>1. \A w \in ToSet(a) : \E i \in 1..(n+1) : w = list[i]
        BY <2>2, <2>5
      <4>2. n + 1 \in 1..(n+1)
        BY <2>1, SMT
      <4>3. QED BY <3>4, <4>1, <4>2 DEF x
    <3>9. ToSet(r) \subseteq ToSet(list)
      BY <2>2, <3>4
    <3>10. Kept(r, n + 1)
      BY <3>5, <3>6, <3>7, <3>8, <3>9
    <3> HIDE DEF Kept
    <3>11. QED BY <2>1, <2>2, <3>10
  <2>8. QED BY <2>6, <2>7
<1>5. 0..N \subseteq S
  <2> HIDE DEF S
  <2>1. QED BY <1>1, <1>3, <1>4, SetInduction
<1>6. N \in 0..N
  BY <1>1, SMT
<1>7. Kept(acc[N], N) /\ acc[N] \in Seq(X)
  <2> HIDE DEF Kept
  <2>1. QED BY <1>2, <1>5, <1>6
<1>8. DOMAIN acc[N] = 1..Len(acc[N])
  BY <1>7, LenProperties
<1>9. \A v \in ToSet(list) : \E w \in ToSet(acc[N]) : w.region = v.region
  <2>1. \A v \in ToSet(list) : \E i \in 1..N : v = list[i]
    BY <1>1 DEF ToSet
  <2>2. \A i \in 1..N : \E w \in ToSet(acc[N]) : w.region = list[i].region
    BY <1>7
  <2> HIDE DEF Kept, S
  <2>3. QED BY <2>1, <2>2
<1>10. QED BY <1>1, <1>2, <1>7, <1>8, <1>9

-----------------------------------------------------------------------------
(* What is cached of PIA's answers.                                       *)

\* Everything PIA's hosts ever answer.
Addresses == UNION {ToSet(AuthAnswers[g]) : g \in 1..Len(Lists)}
Known == UNION {ToSet(Lists[g]) : g \in 1..Len(Lists)}

\* Addresses ips with the answer of generation g merged last; no answer yet if 0.
AuthInv(ips, g) ==
    /\ ips \in Seq(Addresses) /\ Len(ips) <= MaxCachedIPs /\ g \in 0..Len(Lists)
    /\ \A i, j \in DOMAIN ips : ips[i] = ips[j] => i = j
    /\ g # 0 => \A i \in DOMAIN AuthAnswers[g] :
                   FirstAt(AuthAnswers[g], i) /\ Place(AuthAnswers[g], i) <= MaxCachedIPs =>
                      /\ Place(AuthAnswers[g], i) \in DOMAIN ips
                      /\ ips[Place(AuthAnswers[g], i)] = AuthAnswers[g][i]

\* A server list with the answer of generation g merged last.
ListInv(list, g) ==
    /\ list \in Seq(Known) /\ g \in 0..Len(Lists)
    /\ \A i, j \in DOMAIN list : list[i].cn = list[j].cn => i = j
    /\ g # 0 => \A i \in DOMAIN Lists[g] :
                   LastOfCN(Lists[g], i) => Lists[g][i] \in ToSet(list)

\* The inductive invariant: CacheCurrent, and where its parts come from.
AnswersInv ==
    gen \in 1..Len(Lists) /\ AuthInv(authIPs, authGen) /\ ListInv(servers, listGen)

\* An answer of any generation is one of these.
LEMMA AnswersTyped ==
    ASSUME NEW g \in 1..Len(Lists)
    PROVE  AuthAnswers[g] \in Seq(Addresses) /\ Lists[g] \in Seq(Known)
<1>1. AuthAnswers[g] \in Seq(ToSet(AuthAnswers[g])) /\ Lists[g] \in Seq(ToSet(Lists[g]))
  BY WorldAssumption
<1>2. ToSet(AuthAnswers[g]) \subseteq Addresses /\ ToSet(Lists[g]) \subseteq Known
  BY DEF Addresses, Known
<1>3. AuthAnswers[g] \in Seq(Addresses)
  BY <1>1, <1>2, SeqMonotonic
<1>4. Lists[g] \in Seq(Known)
  BY <1>1, <1>2, SeqMonotonic
<1>5. QED BY <1>3, <1>4

\* MergeAuthIPs leaves the addresses with the present answer merged last, ...
LEMMA AuthMerged ==
    ASSUME AnswersInv
    PROVE  AuthInv(mergeIPs(authIPs, AuthAnswers[gen]), gen)
<1> DEFINE answer == AuthAnswers[gen]
           r == mergeIPs(authIPs, answer)
<1>1. authIPs \in Seq(Addresses) /\ answer \in Seq(Addresses) /\ gen \in 1..Len(Lists)
  BY AnswersTyped DEF AnswersInv, AuthInv
<1>2. /\ r \in Seq(Addresses) /\ Len(r) <= MaxCachedIPs
      /\ \A i, j \in DOMAIN r : r[i] = r[j] => i = j
      /\ \A i \in DOMAIN answer :
            FirstAt(answer, i) /\ Place(answer, i) <= MaxCachedIPs =>
               Place(answer, i) \in DOMAIN r /\ r[Place(answer, i)] = answer[i]
  <2> HIDE DEF answer
  <2>1. QED BY <1>1, MergedIPs
<1>3. gen \in 0..Len(Lists)
  BY <1>1, WorldAssumption
<1> HIDE DEF r
<1>4. AuthInv(r, gen)
  BY <1>2, <1>3 DEF AuthInv
<1>5. QED BY <1>4 DEF r

\* ... MergeServers the server list, ...
LEMMA ListMerged ==
    ASSUME AnswersInv
    PROVE  ListInv(MergeServers(servers, Lists[gen]), gen)
<1> DEFINE list == Lists[gen]
           r == MergeServers(servers, list)
<1>1. /\ servers \in Seq(Known) /\ list \in Seq(Known) /\ gen \in 1..Len(Lists)
      /\ \A i, j \in DOMAIN servers : servers[i].cn = servers[j].cn => i = j
  BY AnswersTyped DEF AnswersInv, ListInv
<1>2. /\ r \in Seq(Known)
      /\ \A i, j \in DOMAIN r : r[i].cn = r[j].cn => i = j
      /\ \A i \in DOMAIN list : LastOfCN(list, i) => list[i] \in ToSet(r)
  <2> HIDE DEF list
  <2>1. QED BY <1>1, MergedServers
<1>3. gen \in 0..Len(Lists)
  BY <1>1, WorldAssumption
<1> HIDE DEF r
<1>4. ListInv(r, gen)
  BY <1>2, <1>3 DEF ListInv
<1>5. QED BY <1>4 DEF r

\* ... and a process starts with neither.
LEMMA NothingCached == AuthInv(<< >>, 0) /\ ListInv(<< >>, 0)
BY WorldAssumption, CacheAssumption DEF AuthInv, ListInv

\* What a step can do to the addresses, to the servers and to PIA.
AuthStep ==
    \/ UNCHANGED <<authIPs, authGen>>
    \/ authIPs' = mergeIPs(authIPs, AuthAnswers[gen]) /\ authGen' = gen
    \/ authIPs' = << >> /\ authGen' = 0
ListStep ==
    \/ UNCHANGED <<servers, listGen>>
    \/ servers' = MergeServers(servers, Lists[gen]) /\ listGen' = gen
    \/ servers' = << >> /\ listGen' = 0
GenStep == UNCHANGED gen \/ (gen < Len(Lists) /\ gen' = gen + 1)

\* No step does anything else: no request that fails, no crash and no refresh that
\* stops half-way leaves the cache between two answers.
LEMMA AnswersMove == [Next]_vars => AuthStep /\ ListStep /\ GenStep
<1> USE DEF AuthStep, ListStep, GenStep, cache, setup, services, world, history, streak
<1> SUFFICES ASSUME [Next]_vars PROVE AuthStep /\ ListStep /\ GenStep
  OBVIOUS
<1>1. CASE getToken
  BY <1>1 DEF getToken, At
<1>2. CASE authenticate
  BY <1>2 DEF authenticate, At
<1>3. CASE authenticateResolved
  BY <1>3 DEF authenticateResolved, At
<1>4. CASE StoreToken
  BY <1>4 DEF StoreToken, At
<1>5. CASE getServers
  BY <1>5 DEF getServers, At
<1>6. CASE selectServer
  BY <1>6 DEF selectServer, At
<1>7. CASE resolveDIP
  BY <1>7 DEF resolveDIP, At
<1>8. CASE addKey
  BY <1>8 DEF addKey, At
<1>9. CASE wgUp
  BY <1>9 DEF wgUp, At
<1>10. CASE Retry
  BY <1>10 DEF Retry
<1>11. CASE CacherTick
  BY <1>11 DEF CacherTick, Serves
<1>12. CASE RefreshLogin
  BY <1>12 DEF RefreshLogin, Serves
<1>13. CASE RefreshToken
  BY <1>13 DEF RefreshToken, Serves
<1>14. CASE RefreshList
  BY <1>14 DEF RefreshList, Serves
<1>15. CASE AskSignature
  BY <1>15 DEF AskSignature, Serves
<1>16. CASE Signed
  BY <1>16 DEF Signed, Serves
<1>17. CASE Disconnect
  BY <1>17 DEF Disconnect, Serves
<1>18. CASE Reconnect
  BY <1>18 DEF Reconnect
<1>19. CASE Start
  BY <1>19 DEF Start
<1>20. CASE Crash
  BY <1>20 DEF Crash
<1>21. CASE Tick
  BY <1>21 DEF Tick
<1>22. CASE Move
  BY <1>22 DEF Move
<1>23. CASE Revoke
  BY <1>23 DEF Revoke
<1>24. CASE UNCHANGED vars
  BY <1>24 DEF vars
<1>25. CASE Stopped \/ Exhausted
  BY <1>24, <1>25 DEF Stopped, Exhausted
<1> HIDE DEF AuthStep, ListStep, GenStep, cache, setup, services, world, history, streak
<1>26. QED
  BY <1>1, <1>2, <1>3, <1>4, <1>5, <1>6, <1>7, <1>8, <1>9, <1>10, <1>11, <1>12, <1>13,
     <1>14, <1>15, <1>16, <1>17, <1>18, <1>19, <1>20, <1>21, <1>22, <1>23, <1>24, <1>25, Zenon
  DEF Next

\* Every step keeps the invariant.
LEMMA AnswersStep == AnswersInv /\ [Next]_vars => AnswersInv'
<1> SUFFICES ASSUME AnswersInv, [Next]_vars PROVE AnswersInv'
  OBVIOUS
<1>1. AuthStep /\ ListStep /\ GenStep
  BY AnswersMove
<1>2. gen' \in 1..Len(Lists)
  BY <1>1, WorldAssumption DEF GenStep, AnswersInv
<1>3. AuthInv(authIPs', authGen')
  <2>1. CASE UNCHANGED <<authIPs, authGen>>
    BY <2>1 DEF AnswersInv
  <2>2. CASE authIPs' = mergeIPs(authIPs, AuthAnswers[gen]) /\ authGen' = gen
    BY <2>2, AuthMerged
  <2>3. CASE authIPs' = << >> /\ authGen' = 0
    BY <2>3, NothingCached
  <2>4. QED BY <1>1, <2>1, <2>2, <2>3 DEF AuthStep
<1>4. ListInv(servers', listGen')
  <2>1. CASE UNCHANGED <<servers, listGen>>
    BY <2>1 DEF AnswersInv
  <2>2. CASE servers' = MergeServers(servers, Lists[gen]) /\ listGen' = gen
    BY <2>2, ListMerged
  <2>3. CASE servers' = << >> /\ listGen' = 0
    BY <2>3, NothingCached
  <2>4. QED BY <1>1, <2>1, <2>2, <2>3 DEF ListStep
<1>5. QED BY <1>2, <1>3, <1>4 DEF AnswersInv, AuthInv, ListInv

-----------------------------------------------------------------------------
(* The attempts in a row.                                                  *)

\* What disturbs an attempt is counted, and only issued tokens are revoked.
CountInv ==
    /\ faults \in Nat /\ gen \in Nat \ {0} /\ began \in Nat /\ began <= Disturbances
    /\ revoked \subseteq Issued
    /\ pc \in {"off", "up"} => ~failed

\* Addresses of the serverlist host are only kept with a list, and a server is
\* only chosen from one.
KeptInv ==
    /\ servers = << >> => listIPs = << >>
    /\ pc \in {"select", "dip", "addkey", "wgup", "up"} => servers # << >>
    /\ mode \in {"dip", "manual"} => srv = NoServer /\ pc # "select"

\* While nothing disturbs it, the attempt has a server of PIA's if there is one,
\* and after a failed one a token that PIA has not revoked, if there is a server.
StreakInv ==
    began = Disturbances =>
        /\ pc = "addkey" => LiveServer(srv) \/ ServersGone
        /\ failed /\ mode # "dip" =>
              ServersGone \/ (token \notin revoked /\ tok \notin revoked)

\* Whether the servers are gone is a matter of the list and of PIA.
LEMMA GoneStays == UNCHANGED <<servers, mode, gen>> => ServersGone' = ServersGone
BY Zenon DEF ServersGone, candidates, Locations, LiveServer

\* DNS never gives the serverlist host's addresses of yesterday.
LEMMA FreshAnswerLives ==
    ASSUME gen \in 1..Len(Lists)
    PROVE  Live(mergeIPs(<< >>, ListAnswers[gen]), ListAnswers)
<1> DEFINE answer == ListAnswers[gen]
           X == ToSet(answer)
           e == << >>
           r == mergeIPs(e, answer)
<1>1. answer \in Seq(X) /\ answer # << >> /\ e \in Seq(X)
  BY WorldAssumption
<1>2. 1 \in DOMAIN answer /\ 1 <= MaxCachedIPs
  BY <1>1, CacheAssumption, LenProperties
<1> HIDE DEF answer, X, e
<1>3. FirstAt(answer, 1)
  BY DEF FirstAt
<1>4. Place(answer, 1) = 1
  <2>1. {answer[k] : k \in 1..1} = {answer[1]}
    OBVIOUS
  <2>2. QED BY <2>1, FS_Singleton DEF Place
<1>5. 1 \in DOMAIN r /\ r[1] = answer[1]
  BY <1>1, <1>2, <1>3, <1>4, MergedIPs
<1>6. answer[1] \in ToSet(answer)
  BY <1>2 DEF ToSet
<1> HIDE DEF r
<1>7. Live(r, ListAnswers)
  BY <1>5, <1>6 DEF Live, answer
<1>8. QED BY <1>7 DEF r, e, answer

\* A list that is merged leaves servers.
LEMMA MergeLeaves ==
    ASSUME AnswersInv
    PROVE  MergeServers(servers, Lists[gen]) # << >>
<1> DEFINE list == Lists[gen]
           r == MergeServers(servers, list)
<1>1. /\ servers \in Seq(Known) /\ list \in Seq(Known) /\ list # << >>
      /\ \A i, j \in DOMAIN servers : servers[i].cn = servers[j].cn => i = j
  BY AnswersTyped, WorldAssumption DEF AnswersInv, ListInv
<1> HIDE DEF list
<1>2. \A i \in DOMAIN list : LastOfCN(list, i) => list[i] \in ToSet(r)
  BY <1>1, MergedServers
<1>3. LastOfCN(list, Len(list)) /\ Len(list) \in DOMAIN list
  BY <1>1, LenProperties DEF LastOfCN
<1>4. \E v : v \in ToSet(r)
  BY <1>2, <1>3
<1> HIDE DEF r
<1>5. r # << >>
  BY <1>4 DEF ToSet
<1>6. QED BY <1>5 DEF r, list

\* The counts only grow.
LEMMA CountStep ==
    ASSUME ClockInv, CountInv, [Next]_vars
    PROVE  CountInv'
<1> USE DEF CountInv, ClockInv, Issued, Disturbances, Begin, Over, Fault, NoFault, cache, setup,
            services, world, history, streak, budgets
<1>1. CASE getToken
  BY <1>1 DEF getToken, At, Goto
<1>2. CASE authenticate
  BY <1>2, IssueDoes DEF authenticate, At, Goto, Unexplained, Fail, Fatal
<1>3. CASE authenticateResolved
  BY <1>3, IssueDoes DEF authenticateResolved, At, Goto, Unexplained, Fail, Fatal
<1>4. CASE StoreToken
  BY <1>4 DEF StoreToken, At, SetToken, Goto
<1>5. CASE getServers
  BY <1>5, SelectedIs DEF getServers, At, Goto, Fail
<1>6. CASE selectServer
  BY <1>6 DEF selectServer, At, Goto, Fail, Fatal
<1>7. CASE resolveDIP
  BY <1>7 DEF resolveDIP, At, Goto, Fail, Fatal, Unexplained
<1>8. CASE addKey
  BY <1>8 DEF addKey, At, Goto, Fail, Fatal, Unexplained, ClearToken
<1>9. CASE wgUp
  BY <1>9 DEF wgUp, At, Goto, Fail, Fatal, Unexplained
<1>10. CASE Retry
  BY <1>10 DEF Retry
<1>11. CASE CacherTick
  BY <1>11 DEF CacherTick, Serves
<1>12. CASE RefreshLogin
  BY <1>12, IssueDoes DEF RefreshLogin, Serves
<1>13. CASE RefreshToken
  BY <1>13 DEF RefreshToken, Serves, SetToken
<1>14. CASE RefreshList
  BY <1>14 DEF RefreshList, Serves
<1>15. CASE AskSignature
  BY <1>15 DEF AskSignature, Serves
<1>16. CASE Signed
  BY <1>16 DEF Signed, Serves
<1>17. CASE Disconnect
  BY <1>17 DEF Disconnect, Serves
<1>18. CASE Reconnect
  BY <1>18 DEF Reconnect
<1>19. CASE Start
  BY <1>19 DEF Start, New
<1>20. CASE Crash
  BY <1>20 DEF Crash
<1>21. CASE Tick
  BY <1>21 DEF Tick
<1>22. CASE Move
  BY <1>22 DEF Move
<1>23. CASE Revoke
  BY <1>23 DEF Revoke
<1>24. CASE Stopped
  BY <1>24 DEF Stopped, vars
<1>25. CASE Exhausted
  BY <1>25 DEF Exhausted, vars
<1>26. CASE UNCHANGED vars
  BY <1>26 DEF vars
<1>27. QED
  BY <1>1, <1>2, <1>3, <1>4, <1>5, <1>6, <1>7, <1>8, <1>9, <1>10, <1>11, <1>12, <1>13,
     <1>14, <1>15, <1>16, <1>17, <1>18, <1>19, <1>20, <1>21, <1>22, <1>23, <1>24, <1>25, <1>26
  DEF Next

\* What is kept, and chosen.
LEMMA KeptStep ==
    ASSUME CourseInv, CountInv, KeptInv, AnswersInv, [Next]_vars
    PROVE  KeptInv'
<1> USE DEF KeptInv, CourseInv, Begin, Over, Fault, NoFault, cache, setup,
            services, world, history, streak, budgets
<1>1. CASE getToken
  BY <1>1 DEF getToken, At, Goto
<1>2. CASE authenticate
  BY <1>2 DEF authenticate, At, Goto, Unexplained, Fail, Fatal
<1>3. CASE authenticateResolved
  BY <1>3 DEF authenticateResolved, At, Goto, Unexplained, Fail, Fatal
<1>4. CASE StoreToken
  BY <1>4 DEF StoreToken, At, SetToken, Goto
<1>5. CASE getServers
  <2>1. Selected(mode) = "select" => mode \notin {"dip", "manual"}
    BY DEF Selected
  <2>2. servers = << >> /\ servers' = MergeServers(servers, Lists[gen]) => servers' # << >>
    BY MergeLeaves
  <2>3. QED BY <1>5, <2>1, <2>2 DEF getServers, At, Goto, Fail
<1>6. CASE selectServer
  BY <1>6 DEF selectServer, At, Goto, Fail, Fatal
<1>7. CASE resolveDIP
  BY <1>7 DEF resolveDIP, At, Goto, Fail, Fatal, Unexplained
<1>8. CASE addKey
  BY <1>8 DEF addKey, At, Goto, Fail, Fatal, Unexplained, ClearToken
<1>9. CASE wgUp
  BY <1>9 DEF wgUp, At, Goto, Fail, Fatal, Unexplained
<1>10. CASE Retry
  BY <1>10 DEF Retry
<1>11. CASE CacherTick
  BY <1>11 DEF CacherTick, Serves
<1>12. CASE RefreshLogin
  BY <1>12 DEF RefreshLogin, Serves
<1>13. CASE RefreshToken
  BY <1>13 DEF RefreshToken, Serves, SetToken
<1>14. CASE RefreshList
  <2>1. servers # << >> /\ pc = "up" /\ UNCHANGED <<pc, srv, mode>>
    BY <1>14 DEF RefreshList, Serves
  <2>2. servers' \in {servers, MergeServers(servers, Lists[gen])}
    BY <1>14 DEF RefreshList
  <2>3. QED BY <2>1, <2>2, MergeLeaves
<1>15. CASE AskSignature
  BY <1>15 DEF AskSignature, Serves
<1>16. CASE Signed
  BY <1>16 DEF Signed, Serves
<1>17. CASE Disconnect
  BY <1>17 DEF Disconnect, Serves
<1>18. CASE Reconnect
  BY <1>18 DEF Reconnect
<1>19. CASE Start
  BY <1>19 DEF Start, New
<1>20. CASE Crash
  BY <1>20 DEF Crash
<1>21. CASE Tick
  BY <1>21 DEF Tick
<1>22. CASE Move
  BY <1>22 DEF Move
<1>23. CASE Revoke
  BY <1>23 DEF Revoke
<1>24. CASE Stopped
  BY <1>24 DEF Stopped, vars
<1>25. CASE Exhausted
  BY <1>25 DEF Exhausted, vars
<1>26. CASE UNCHANGED vars
  BY <1>26 DEF vars
<1>27. QED
  BY <1>1, <1>2, <1>3, <1>4, <1>5, <1>6, <1>7, <1>8, <1>9, <1>10, <1>11, <1>12, <1>13,
     <1>14, <1>15, <1>16, <1>17, <1>18, <1>19, <1>20, <1>21, <1>22, <1>23, <1>24, <1>25, <1>26
  DEF Next

\* An attempt that has not failed has left nothing, ...
LEMMA NothingLeft ==
    ASSUME ~failed', pc' # "addkey"
    PROVE  StreakInv'
BY DEF StreakInv

\* ... one that was disturbed is none of StreakInv's business, ...
LEMMA Disturbed ==
    ASSUME CountInv, began' = began, Disturbances' = Disturbances + 1
    PROVE  StreakInv'
<1>1. began' # Disturbances'
  BY SMT DEF CountInv, Disturbances
<1>2. QED BY <1>1 DEF StreakInv

\* ... and a quiet step passes on the tokens there are, and PIA's server.
LEMMA Quiet ==
    ASSUME StreakInv, UNCHANGED <<servers, mode, gen, faults, began, failed, revoked>>,
           pc' = "addkey" => LiveServer(srv') \/ ServersGone,
           token' \in {token, tok} \/ token' \notin revoked,
           tok' \in {token, tok} \/ tok' \notin revoked
    PROVE  StreakInv'
<1>1. ServersGone' = ServersGone /\ Disturbances' = Disturbances
  BY GoneStays DEF Disturbances
<1>2. LiveServer(srv)' = LiveServer(srv')
  BY DEF LiveServer
<1>3. QED BY <1>1, <1>2 DEF StreakInv

\* A step that no fault disturbs is not one that a fault does.
LEMMA NoFaultIsNone ==
    ASSUME CountInv
    PROVE  ~(NoFault /\ Fault)
BY SMT DEF CountInv, NoFault, Fault, budgets

\* A token just issued has not been revoked.
LEMMA IssuedIsGood ==
    ASSUME ClockInv, CountInv, Issue
    PROVE  Len(born') \notin revoked /\ 0 \notin revoked
BY IssueDoes DEF CountInv, Issued

\* The list is refreshed if there is none, and DNS answers then.
LEMMA ServersFetched ==
    ASSUME CountInv, KeptInv, AnswersInv, getServers, NoFault
    PROVE  /\ pc' = Selected(mode) /\ UNCHANGED <<token, tok, srv, streak, mode, gen, revoked>>
           /\ servers = << >> \/ UNCHANGED servers
<1> DEFINE ips == IF listIPs = << >> THEN mergeIPs(<< >>, ListAnswers[gen]) ELSE listIPs
<1>1. CASE servers = << >>
  <2>1. ips = mergeIPs(<< >>, ListAnswers[gen])
    BY <1>1 DEF KeptInv
  <2>2. Live(ips, ListAnswers)
    BY <2>1, FreshAnswerLives DEF AnswersInv
  <2>3. FetchServerList(ips) = "ok"
    BY <2>2 DEF FetchServerList
  <2> HIDE DEF ips
  <2>4. ~Fault
    BY NoFaultIsNone
  <2>5. FetchServerList(ips) # "error"
    BY <2>3
  <2>6. QED BY <1>1, <2>4, <2>5 DEF getServers, At, Goto, ips
<1>2. CASE servers # << >>
  BY <1>2 DEF getServers, At, Goto
<1>3. QED BY <1>1, <1>2

\* What a failure leaves to the next attempt.
LEMMA StreakStep ==
    ASSUME ClockInv, CourseInv, CountInv, KeptInv, StreakInv, AnswersInv, [Next]_vars
    PROVE  StreakInv'
<1> DEFINE Retries == Fault /\ UNCHANGED <<gen, began>>
           Calm == UNCHANGED <<servers, mode, gen, faults, began, failed, revoked>>
<1>1. Retries => StreakInv'
  <2>1. Retries => Disturbances' = Disturbances + 1
    BY SMT DEF Fault, Disturbances, CountInv
  <2>2. QED BY <2>1, Disturbed
<1>2. ~failed' /\ pc' # "addkey" => StreakInv'
  BY NothingLeft
<1>3. CASE getToken
  BY <1>3, Quiet DEF getToken, At, Goto, NoFault, world, streak, cache, budgets
<1>4. CASE authenticate
  <2>1. CASE NoFault
    BY <1>4, <2>1, Quiet, IssuedIsGood, NoFaultIsNone
    DEF authenticate, At, Goto, Unexplained, NoFault, streak, cache, budgets
  <2>2. QED
    BY <1>1, <1>2, <1>4, <2>1 DEF authenticate, At, Goto, Unexplained, Fail, Fatal, Over, streak
<1>5. CASE authenticateResolved
  <2>1. CASE NoFault
    BY <1>5, <2>1, Quiet, IssuedIsGood, NoFaultIsNone
    DEF authenticateResolved, At, Goto, Unexplained, NoFault, streak, cache, budgets
  <2>2. QED
    BY <1>1, <1>2, <1>5, <2>1
    DEF authenticateResolved, At, Goto, Unexplained, Fail, Fatal, Over, streak
<1>6. CASE StoreToken
  <2>1. CASE NoFault
    BY <1>6, <2>1, Quiet DEF StoreToken, SetToken, At, Goto, NoFault, streak, budgets
  <2>2. QED
    BY <1>1, <1>6, <2>1 DEF StoreToken, SetToken, At, Goto, streak
<1>7. CASE getServers
  <2>1. CASE NoFault
    <3>1. /\ pc' = Selected(mode)
          /\ servers = << >> \/ UNCHANGED servers
          /\ UNCHANGED <<token, tok, srv, failed, began, mode, gen, faults, revoked>>
      BY <1>7, <2>1, ServersFetched DEF streak, NoFault, budgets
    <3>2. pc' = "addkey" => srv = NoServer
      BY <3>1, SelectedIs DEF KeptInv
    <3>3. CASE servers = << >>
      <4>1. ~ServersGone
        BY <3>3 DEF ServersGone
      <4>2. Disturbances' = Disturbances
        BY <3>1 DEF Disturbances
      <4>3. pc' = "addkey" => LiveServer(srv)'
        BY <3>1, <3>2 DEF LiveServer
      <4>4. QED BY <3>1, <4>1, <4>2, <4>3 DEF StreakInv
    <3>4. CASE UNCHANGED servers
      BY <3>1, <3>2, <3>4, Quiet DEF LiveServer
    <3>5. QED BY <3>1, <3>3, <3>4
  <2>2. QED BY <1>1, <1>7, <2>1 DEF getServers, At, Fail
<1>8. CASE selectServer
  <2>1. mode \notin {"dip", "manual"} /\ servers # << >>
        /\ UNCHANGED <<servers, mode, gen, revoked>>
    BY <1>8 DEF selectServer, At, KeptInv, cache
  <2>2. CASE NoFault
    <3>1. CASE \E i \in DOMAIN candidates : LiveServer(candidates[i]) /\ srv' = candidates[i]
                                            /\ Goto("addkey") /\ UNCHANGED tok
      BY <1>8, <2>1, <2>2, <3>1, Quiet DEF selectServer, Goto, NoFault, streak, cache, budgets
    <3>2. CASE ServersGone /\ pc' \in {"addkey", "retry"} /\ UNCHANGED began
      <4>1. ServersGone'
        BY <2>1, <3>2, GoneStays
      <4>2. QED BY <4>1 DEF StreakInv
    <3>3. CASE Fatal
      BY <1>2, <3>3 DEF Fatal, Over
    <3>4. candidates = << >> \/ (\A i \in DOMAIN candidates : ~LiveServer(candidates[i]))
             => ServersGone
      BY <2>1 DEF ServersGone
    <3> HIDE DEF candidates
    <3>5. QED
      BY <1>8, <2>2, <3>1, <3>2, <3>3, <3>4, NoFaultIsNone DEF selectServer, Goto, Fail, streak
  <2>3. QED BY <1>1, <1>8, <2>1, <2>2 DEF selectServer, At, Goto, Fail, streak
<1>9. CASE resolveDIP
  <2>1. mode = "dip" /\ mode' = mode /\ srv = NoServer
    BY <1>9 DEF resolveDIP, At, CourseInv, KeptInv
  <2>2. CASE Fatal
    BY <1>2, <2>2 DEF Fatal, Over
  <2>3. CASE pc' \in {"addkey", "retry"} /\ (pc' = "addkey" => srv' = srv)
    BY <2>1, <2>3 DEF StreakInv, LiveServer
  <2>4. QED BY <1>9, <2>2, <2>3 DEF resolveDIP, At, Goto, Unexplained, Fail
<1>10. CASE addKey
  <2>1. /\ UNCHANGED <<servers, mode, gen, revoked>> /\ pc = "addkey" /\ 0 \notin revoked
        /\ ServersGone' = ServersGone
    BY <1>10, GoneStays DEF addKey, At, CountInv, Issued
  <2>2. CASE pc' = "retry" /\ tok' = 0 /\ token' = 0
    BY <2>1, <2>2 DEF StreakInv
  <2>3. CASE NoFault /\ UNCHANGED <<token, tok>> /\ Goto("wgup")
    BY <2>1, <2>3, Quiet DEF NoFault, Goto, streak, budgets
  <2>4. CASE Fatal
    BY <1>2, <2>4 DEF Fatal, Over
  <2>5. CASE NoFault /\ Fail /\ ~LiveServer(srv) /\ UNCHANGED token
    <3>1. began' = began /\ Disturbances' = Disturbances /\ pc' = "retry"
      BY <2>1, <2>5 DEF NoFault, budgets, Fail, Disturbances
    <3>2. QED BY <2>1, <2>5, <3>1 DEF StreakInv
  <2>6. CASE Fault /\ Fail
    BY <1>1, <2>1, <2>6 DEF Fail
  <2>7. AddKeyDIP(srv) = "error" \/ AddKey(srv, tok) = "error" => ~LiveServer(srv)
    BY DEF AddKeyDIP, AddKey
  <2>8. QED
    BY <1>10, <2>2, <2>3, <2>4, <2>5, <2>6, <2>7 DEF addKey, ClearToken, Unexplained, Fail
<1>11. CASE wgUp
  BY <1>1, <1>2, <1>11 DEF wgUp, At, Unexplained, Fail, Fatal, Over
<1>12. CASE Retry
  BY <1>2, <1>12, Quiet DEF Retry, Begin, streak, budgets, cache
<1>13. CASE pc = "up" /\ (UNCHANGED <<pc, failed>> \/ (pc' = "token" /\ Begin))
  BY <1>2, <1>13 DEF CountInv, Begin
<1>14. CASE Start
  BY <1>2, <1>14 DEF Start, Begin
<1>15. CASE Crash
  BY <1>2, <1>15 DEF Crash, Over
<1>16. CASE Tick
  <2>1. Calm /\ UNCHANGED <<pc, srv, token, tok>>
    BY <1>16 DEF Tick, cache, setup, streak, budgets
  <2>2. began # Disturbances => began' # Disturbances'
    BY <2>1 DEF Disturbances
  <2>3. ServersGone' = ServersGone /\ LiveServer(srv)' = LiveServer(srv)
    BY <2>1, GoneStays DEF LiveServer
  <2>4. QED BY <2>1, <2>2, <2>3 DEF StreakInv
<1>17. CASE Move
  <2>1. began' = began /\ faults' = faults /\ gen' = gen + 1
    BY <1>17 DEF Move, streak, budgets
  <2>2. Disturbances' = Disturbances + 1
    BY <2>1, SMT DEF Disturbances, CountInv
  <2>3. QED BY <2>1, <2>2, Disturbed
<1>18. CASE Revoke
  BY <1>1, <1>18 DEF Revoke, streak
<1>19. CASE UNCHANGED vars
  <2>1. Calm /\ UNCHANGED <<pc, srv, token, tok>>
    BY <1>19 DEF vars, cache, setup, streak, world, budgets
  <2>2. began # Disturbances => began' # Disturbances'
    BY <2>1 DEF Disturbances
  <2>3. ServersGone' = ServersGone /\ LiveServer(srv)' = LiveServer(srv)
    BY <2>1, GoneStays DEF LiveServer
  <2>4. QED BY <2>1, <2>2, <2>3 DEF StreakInv
<1>20. ASSUME CacherTick \/ RefreshLogin \/ RefreshToken \/ RefreshList \/ AskSignature \/ Signed
              \/ Disconnect \/ Reconnect
       PROVE  pc = "up" /\ (UNCHANGED <<pc, failed>> \/ (pc' = "token" /\ Begin))
  BY <1>20 DEF CacherTick, RefreshLogin, RefreshToken, RefreshList, AskSignature, Signed,
     Disconnect, Reconnect, Serves, setup, streak
<1> HIDE DEF Retries, Calm
<1>21. QED
  BY <1>3, <1>4, <1>5, <1>6, <1>7, <1>8, <1>9, <1>10, <1>11, <1>12, <1>13, <1>14, <1>15, <1>16,
     <1>17, <1>18, <1>19, <1>20
  DEF Next, Stopped, Exhausted

-----------------------------------------------------------------------------
(* The theorems.                                                           *)

\* The invariant holds at first, ...
LEMMA SetupInit == Init => SetupInv
<1> SUFFICES ASSUME Init PROVE SetupInv
  OBVIOUS
<1>1. born = << >> /\ Len(born) = 0 /\ born \in Seq(Nat)
  BY EmptySeq DEF Init
<1>2. ClockInv
  BY <1>1 DEF Init, ClockInv, Issued
<1>3. CourseInv /\ FreshInv /\ CacheInv /\ FileInv /\ UsableInv
  BY DEF Init, CourseInv, FreshInv, CacheInv, FileInv, UsableInv, NoFile
<1>4. QED BY <1>2, <1>3 DEF SetupInv

\* ... and every step keeps it.
LEMMA SetupStep == SetupInv /\ [Next]_vars => SetupInv'
BY ClockStep, CourseStep, FreshStep, CacheStep, FileStep, UsableStep DEF SetupInv

\* So it always holds.
LEMMA SetupAlways == Spec => []SetupInv
BY SetupInit, SetupStep, PTL DEF Spec

\* Neither a write that failed or was torn, nor a crash in the middle of one, nor
\* a process that reads the file later makes the cache believe in a token PIA has
\* not issued, or take one for younger than it is.
THEOREM CachedTokenIsHonest == Spec => []TokenHonest
<1>1. SetupInv => TokenHonest
  BY DEF SetupInv, CacheInv, TokenHonest
<1>2. QED BY <1>1, SetupAlways, PTL

\* A token that PIA sees is alive, with any maxTokenAge below its life, although
\* it is checked once and used later; and ClearToken is final.
THEOREM PresentedTokenIsUsable == Spec => []PresentedUsable
<1>1. SetupInv => PresentedUsable
  <2> SUFFICES ASSUME SetupInv PROVE PresentedUsable
    OBVIOUS
  <2>1. ASSUME NEW i, Young(i) PROVE now - born[i] < TokenLife
    <3>1. now \in Nat /\ born[i] \in Nat
      BY <2>1 DEF SetupInv, ClockInv, Young, Issued
    <3>2. QED BY <2>1, <3>1, AgeAssumption DEF Young
  <2>2. QED BY <2>1 DEF SetupInv, UsableInv, PresentedUsable
<1>2. QED BY <1>1, SetupAlways, PTL

\* The cache holds the latest answers and nothing twice, whatever the answers are,
\* duplicates in them included, however often a host moves, and whoever of Setup
\* and the cacher asked last.
THEOREM CachedAnswersAreCurrent == Spec => []CacheCurrent
<1>1. Init => AnswersInv
  BY NothingCached, WorldAssumption DEF Init, AnswersInv
<1>2. AnswersInv => CacheCurrent
  BY DEF AnswersInv, AuthInv, ListInv, CacheCurrent
<1>3. QED BY <1>1, <1>2, AnswersStep, PTL DEF Spec


\* The invariant of the attempts in a row holds at first, ...
LEMMA StreakInit == Init => CountInv /\ KeptInv /\ StreakInv
BY WorldAssumption DEF Init, CountInv, KeptInv, StreakInv, Disturbances, Issued

\* ... and every step keeps it.
LEMMA StreakAlways == Spec => [](SetupInv /\ AnswersInv /\ CountInv /\ KeptInv /\ StreakInv)
<1>1. Init => AnswersInv
  BY NothingCached, WorldAssumption DEF Init, AnswersInv
<1>2. SetupInv /\ AnswersInv /\ CountInv /\ KeptInv /\ StreakInv /\ [Next]_vars
         => CountInv' /\ KeptInv' /\ StreakInv'
  BY CountStep, KeptStep, StreakStep DEF SetupInv
<1>3. QED BY <1>1, <1>2, SetupInit, SetupStep, AnswersStep, StreakInit, PTL DEF Spec

\* What can make an attempt fail that nothing has disturbed since the first in a
\* row: with any servers, addresses and tokens.
LEMMA FailureIs ==
    ASSUME SetupInv, AnswersInv, CountInv, KeptInv, StreakInv, Next,
           pc # "retry", pc' = "retry", Disturbances' = began
    PROVE  \/ pc \in {"select", "addkey"} /\ ServersGone
           \/ pc = "dip" /\ ~Live(authIPs, AuthAnswers)
           \/ pc = "addkey" /\ tok \in revoked /\ ~failed
<1>1. ~(Fault /\ gen' = gen)
  BY SMT DEF Fault, Disturbances, CountInv
<1>2. CASE authenticate
  BY <1>1, <1>2 DEF authenticate, At, Goto, Unexplained
<1>3. CASE authenticateResolved
  BY <1>1, <1>3 DEF authenticateResolved, At, Goto, Unexplained
<1>4. CASE getServers
  <2>1. NoFault
    BY <1>1, <1>4 DEF getServers, At
  <2>2. pc' = Selected(mode)
    BY <1>4, <2>1, ServersFetched
  <2>3. QED BY <2>2, SelectedIs
<1>5. CASE selectServer
  <2>1. candidates = << >>
    BY <1>1, <1>5 DEF selectServer, At, Goto
  <2>2. ServersGone /\ pc = "select"
    BY <1>5, <2>1 DEF ServersGone, selectServer, At, KeptInv
  <2>3. QED BY <2>2
<1>6. CASE resolveDIP
  <2>1. pc = "dip" /\ ResolveDIP(authIPs, tok) = "error"
    BY <1>1, <1>6 DEF resolveDIP, At, Goto, Fatal, Unexplained
  <2>2. QED BY <2>1 DEF ResolveDIP
<1>7. CASE addKey
  <2> DEFINE answer == IF mode = "dip" THEN AddKeyDIP(srv) ELSE AddKey(srv, tok)
  <2>1. pc = "addkey" /\ NoFault /\ gen' = gen /\ answer \in {"rejected", "error"}
    BY <1>1, <1>7 DEF addKey, At, Goto, Unexplained, ClearToken
  <2>2. mode # "dip"
    BY <2>1 DEF AddKeyDIP, LiveServer, KeptInv
  <2>3. began = Disturbances
    BY <2>1 DEF NoFault, budgets, Disturbances
  <2>4. CASE ~LiveServer(srv)
    BY <2>1, <2>3, <2>4 DEF StreakInv
  <2>5. CASE LiveServer(srv)
    <3>1. ~Accepts(tok)
      BY <2>1, <2>2, <2>5 DEF AddKey
    <3>2. tok \in Issued /\ now - born[tok] <= MaxTokenAge
      <4>1. Young(tok) /\ now \in Nat /\ born \in Seq(Nat)
        BY <2>1 DEF SetupInv, UsableInv, ClockInv
      <4>2. born[tok] \in Nat
        BY <4>1 DEF Young, Issued
      <4>3. QED BY <4>1, <4>2, AgeAssumption, SMT DEF Young
    <3>3. born[tok] \in Nat /\ now \in Nat
      BY <3>2 DEF SetupInv, ClockInv, Issued
    <3>4. now - born[tok] < TokenLife
      BY <3>2, <3>3, AgeAssumption, SMT
    <3>5. tok \in revoked
      BY <3>1, <3>4 DEF Accepts
    <3>6. QED BY <2>1, <2>2, <2>3, <3>5 DEF StreakInv
  <2>6. QED BY <2>4, <2>5
<1>8. CASE wgUp
  BY <1>1, <1>8 DEF wgUp, At, Unexplained
<1>9. CASE getToken \/ StoreToken \/ Retry \/ CacherTick \/ RefreshLogin \/ RefreshToken
           \/ RefreshList \/ AskSignature \/ Signed \/ Disconnect \/ Reconnect \/ Start \/ Crash
           \/ Tick \/ Move \/ Revoke \/ Stopped \/ Exhausted
  BY <1>9 DEF getToken, StoreToken, At, Goto, Retry, CacherTick, RefreshLogin, RefreshToken,
     RefreshList, AskSignature, Signed, Disconnect, Reconnect, Start, Crash, Tick, Move, Revoke,
     Stopped, Exhausted, Serves, setup, vars
<1>10. QED
  BY <1>2, <1>3, <1>4, <1>5, <1>6, <1>7, <1>8, <1>9 DEF Next

\* A connection attempt that nothing has disturbed since the first in a row fails
\* only because PIA has none of the servers it can choose from any more, because
\* the dedicated IP's host has no address that is not out of date, or, once,
\* because PIA has revoked its token: what is out of date of the login host's
\* addresses is made up for by DNS, the first server list is fetched from fresh
\* ones, and a token that was refused does not come back.
THEOREM FailedAttemptIsExcused == Spec => AttemptExcused
<1>1. SetupInv /\ AnswersInv /\ CountInv /\ KeptInv /\ StreakInv /\ [Next]_vars =>
        [pc # "retry" /\ pc' = "retry" =>
            \/ Disturbances' # began
            \/ pc \in {"select", "addkey"} /\ ServersGone
            \/ pc = "dip" /\ ~Live(authIPs, AuthAnswers)
            \/ pc = "addkey" /\ tok \in revoked /\ ~failed]_vars
  BY FailureIs
<1>2. QED BY <1>1, StreakAlways, PTL DEF Spec, AttemptExcused
=============================================================================
