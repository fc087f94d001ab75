----------------------------- MODULE MCHandoff -----------------------------
(***************************************************************************)
(* Handoff for TLC, in two configurations (conf, which never changes):     *)
(*   "clean"   nobody is killed and a full round always gets a ticket      *)
(*   "killed"  either process may be killed, between any two writes        *)
(***************************************************************************)
EXTENDS Handoff

VARIABLE conf

mcvars == <<vars, conf>>

Clean  == INSTANCE Handoff WITH FullOutcomes <- {"fail", "psk"}, Kills <- {}
Killed == INSTANCE Handoff WITH MaxRounds <- MaxRounds - 1

MCInit ==
    \/ conf = "clean"  /\ Clean!Init
    \/ conf = "killed" /\ Killed!Init

MCNext ==
    /\ \/ conf = "clean"  /\ Clean!Next
       \/ conf = "killed" /\ Killed!Next
    /\ UNCHANGED conf

MCSpec == MCInit /\ [][MCNext]_mcvars

-----------------------------------------------------------------------------
\* The types of Handoff always; and as long as nobody is killed the ticket and
\* the two shares that two processes write are of one PSK (Consistent), and a
\* round without a new session leaves them as they were (SkipKeepsHandoff):
\* Roundhandoff.hpp and the two saves in MultiGet.b.cpp.
CleanHandoff == TypeOK /\ (conf = "clean" => Consistent /\ SkipKeepsHandoff)

=============================================================================
