----------------------------- MODULE ByteStream -----------------------------
(***************************************************************************)
(* What emp expects of an IOChannel: recv_data(n) returns the next n bytes *)
(* of what the peer has sent, in order, until the channel fails; nothing   *)
(* is handed out as data after that.                                       *)
(***************************************************************************)
EXTENDS Integers

VARIABLES
    sent,    \* bytes sent so far
    taken,   \* bytes received so far
    chunk,   \* what the last receive returned: the bytes from .. to, or no data
    failed   \* has the receiving side failed?

NoData == [from |-> 0, to |-> 0]

Init == sent = 0 /\ taken = 0 /\ chunk = NoData /\ failed = FALSE

Send == sent' \in Nat /\ sent' > sent /\ UNCHANGED <<taken, chunk, failed>>

Take ==
    /\ ~failed /\ taken < sent
    /\ taken' \in taken + 1 .. sent
    /\ chunk' = [from |-> taken, to |-> taken']
    /\ UNCHANGED <<sent, failed>>

Fail == failed' = TRUE /\ chunk' = NoData /\ UNCHANGED <<sent, taken>>

Next == Send \/ Take \/ Fail

Spec == Init /\ [][Next]_<<sent, taken, chunk, failed>>
=============================================================================
