----------------------------- MODULE MCVpnSetup -----------------------------
(***************************************************************************)
(* VpnSetup with two generations of PIA: the login host moves completely,  *)
(* the serverlist host too, and of three servers in two regions one gets   *)
(* a new address and one is taken away.  The first answer repeats an       *)
(* address and the first list a server, since the code drops duplicates.   *)
(***************************************************************************)
EXTENDS VpnSetup

MCAuthAnswers == << <<"a1", "a1", "a2", "a1">>, <<"a3">> >>
MCListAnswers == << <<"l1">>, <<"l2">> >>

Server(cn, region, forwards, ip) ==
    [cn |-> cn, region |-> region, pf |-> forwards, ip |-> ip]
MCLists ==
    << <<Server("ca1", "ca", FALSE, 3), Server("ca1", "ca", FALSE, 1),
         Server("uk1", "uk", TRUE, 1), Server("uk2", "uk", TRUE, 1)>>,
       <<Server("ca1", "ca", FALSE, 1), Server("uk1", "uk", TRUE, 2)>> >>
=============================================================================
