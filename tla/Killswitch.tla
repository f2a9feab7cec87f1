----------------------------- MODULE Killswitch -----------------------------
(***************************************************************************)
(* What the killswitch promises, of which Firewall is the implementation   *)
(* command by command and Lifecycle the use the program makes of it.       *)
(*                                                                         *)
(* Once a process has closed it, nothing undesired leaks, whatever happens *)
(* to the process; it is opened again only because a shutdown was asked    *)
(* for, and rebuilt only by a new process that has not closed it yet.      *)
(***************************************************************************)
CONSTANT Traffic   \* what must not get through

VARIABLES
    proc,    \* the process: "none", "starting", "running" or "stopping"
    asked,   \* it has been asked to shut down
    mode,    \* the killswitch: "open", "building" or "closed"
    leak     \* the undesired traffic that gets through

vars == <<proc, asked, mode, leak>>

Init == proc = "none" /\ asked = FALSE /\ mode = "open" /\ leak \subseteq Traffic

\* A process starts; it may begin to build at once.
Start ==
    /\ proc = "none" /\ proc' = "starting"
    /\ mode' \in {mode, "building"} /\ UNCHANGED <<asked, leak>>

\* It builds the killswitch, from the ruins of an earlier one if need be.
Build ==
    /\ proc = "starting" /\ mode' = "building" /\ leak' \subseteq Traffic
    /\ UNCHANGED <<proc, asked>>

Close ==
    /\ proc = "starting" /\ proc' = "running"
    /\ mode = "building" /\ mode' = "closed" /\ leak' = {}
    /\ UNCHANGED asked

Request ==
    /\ proc # "none" /\ ~asked /\ asked' = TRUE
    /\ UNCHANGED <<proc, mode, leak>>

Lift ==
    /\ proc = "running" /\ asked /\ proc' = "stopping"
    /\ mode' = "open" /\ leak' \subseteq Traffic
    /\ UNCHANGED asked

Remove ==
    /\ proc = "stopping" /\ leak' \subseteq Traffic
    /\ UNCHANGED <<proc, asked, mode>>

\* The process ends, of itself or killed.  It leaves the killswitch as it is;
\* one that was being built may be complete.
Exit ==
    /\ proc # "none" /\ proc' = "none" /\ asked' = FALSE
    /\ \/ mode # "building" /\ UNCHANGED <<mode, leak>>
       \/ mode = "building" /\ mode' = "open" /\ leak' \subseteq Traffic
       \/ mode = "building" /\ mode' = "closed" /\ leak' = {}

Next == Start \/ Build \/ Close \/ Request \/ Lift \/ Remove \/ Exit

Spec == Init /\ [][Next]_vars
=============================================================================
