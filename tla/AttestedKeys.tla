---------------------------- MODULE AttestedKeys ----------------------------
(***************************************************************************)
(* What the verifier promises about server traffic keys in the modes that  *)
(* capture sealed records (True and Rotate), with no connection, state     *)
(* machine or message in sight.  Each key goes through one life: the       *)
(* prover commits to its share, records of the origin are attested, the    *)
(* verifier's share is released; after that the key attests nothing.       *)
(***************************************************************************)
EXTENDS Integers

CONSTANTS Key, SeqNo

VARIABLES committed, released, attested

avars == <<committed, released, attested>>

\* The one ciphertext the origin sealed under key k with sequence number s.
OriginRecord(k, s) == [key |-> k, seq |-> s, by |-> "origin"]

AInit == committed = {} /\ released = {} /\ attested = {}

Commit(k) ==
    /\ k \notin committed
    /\ committed' = committed \cup {k}
    /\ UNCHANGED <<released, attested>>

Attest(k, s) ==
    /\ k \in committed \ released
    /\ attested' = attested \cup
                     {[key |-> k, seq |-> s, ct |-> OriginRecord(k, s)]}
    /\ UNCHANGED <<committed, released>>

Release(k) ==
    /\ k \in committed \ released
    /\ released' = released \cup {k}
    /\ UNCHANGED <<committed, attested>>

ANext == \E k \in Key : Commit(k) \/ Release(k) \/ \E s \in SeqNo : Attest(k, s)

ASpec == AInit /\ [][ANext]_avars
=============================================================================
