--------------------------- MODULE ReliableStream ---------------------------
(***************************************************************************)
(* What one KCP connection promises to the tunnel above it: two ordered,   *)
(* loss-free, duplicate-free message streams, one per direction.  The      *)
(* sender's messages are handed over whole, once, in the order of Send.    *)
(* An item is one fragment of a message: frg counts the fragments of the   *)
(* message that follow it, so 0 ends a message.                            *)
(***************************************************************************)
EXTENDS Integers, Sequences

CONSTANTS Peer,    \* the two ends of the connection
          Frags    \* how many fragments one message may have: within 1..255

VARIABLES sent,    \* sent[p]: every item p has submitted, in order
          got      \* got[p]: every item p has been handed, in order

sVars == <<sent, got>>

\* The items of a message of n fragments whose first item is number first.
MessageItems(n, first) == [i \in 1..n |-> [frg |-> n - i, data |-> first + i - 1]]

\* An item sequence that is exactly one message.
IsMessage(m) == /\ Len(m) > 0
                /\ \A i \in 1..Len(m) : m[i].frg = Len(m) - i

Init == /\ sent = [p \in Peer |-> <<>>]
        /\ got  = [p \in Peer |-> <<>>]

Submit(p) == \E n \in Frags :
               /\ sent' = [sent EXCEPT ![p] = @ \o MessageItems(n, Len(@) + 1)]
               /\ UNCHANGED got

\* q is handed the next message of p whole.
Deliver(p, q) == \E n \in 1..(Len(sent[p]) - Len(got[q])) :
               /\ LET m == SubSeq(sent[p], Len(got[q]) + 1, Len(got[q]) + n)
                  IN  /\ IsMessage(m)
                      /\ got' = [got EXCEPT ![q] = @ \o m]
               /\ UNCHANGED sent

Next == \/ \E p \in Peer : Submit(p)
        \/ \E p \in Peer : \E q \in Peer \ {p} : Deliver(p, q)

Spec == Init /\ [][Next]_sVars
=============================================================================
