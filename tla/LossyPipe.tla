----------------------------- MODULE LossyPipe -----------------------------
(***************************************************************************)
(* What one direction of a proxied connection promises: a pipe whose bytes *)
(* leave in the order in which they entered, each at most once.  A pipe may *)
(* cut datagrams anywhere (the links move chunks, not datagrams) and may    *)
(* lose a contiguous run of the bytes in transit.  Nothing else happens to  *)
(* a byte.  ToxicLink implements this specification.                       *)
(***************************************************************************)
EXTENDS Integers, Sequences

CONSTANTS DatagramSize

VARIABLES
    sent,       \* number of datagrams that have entered the pipe
    transit,    \* the bytes inside the pipe, the oldest first
    delivered,  \* the bytes handed to the destination, in order
    lost        \* the set of bytes that will never arrive

vars == <<sent, transit, delivered, lost>>

\* The bytes of the n-th datagram, numbered from 1 over the whole stream.
Datagram(n) == [i \in 1..DatagramSize |-> (n - 1) * DatagramSize + i]

Init ==
    /\ sent = 0
    /\ transit = <<>>
    /\ delivered = <<>>
    /\ lost = {}

Enter ==
    /\ sent' = sent + 1
    /\ transit' = transit \o Datagram(sent + 1)
    /\ UNCHANGED <<delivered, lost>>

Deliver ==
    /\ \E n \in 1..Len(transit) :
         /\ delivered' = delivered \o SubSeq(transit, 1, n)
         /\ transit' = SubSeq(transit, n + 1, Len(transit))
    /\ UNCHANGED <<sent, lost>>

Lose ==
    /\ \E i \in 1..Len(transit) : \E j \in i..Len(transit) :
         /\ transit' = SubSeq(transit, 1, i - 1) \o SubSeq(transit, j + 1, Len(transit))
         /\ lost' = lost \cup {transit[n] : n \in i..j}
    /\ UNCHANGED <<sent, delivered>>

Next == Enter \/ Deliver \/ Lose

Spec == Init /\ [][Next]_vars
=============================================================================
