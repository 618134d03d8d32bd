---------------------------- MODULE ConfigStore ----------------------------
(***************************************************************************)
(* What the `config' partition promises about server configurations,       *)
(* without buffers, events or tasks: it is erased, or it holds the first   *)
(* bytes of the newest message the broker delivered, and it goes from one  *)
(* configuration to the next through the erased state only.                *)
(***************************************************************************)
EXTENDS Integers, Sequences

CONSTANTS PartitionSize, Limit, MaxLength, Erased

VARIABLES
    sent,    \* sent[n] is the length of the n-th message
    content  \* bytes of the partition

vars == <<sent, content>>

Blank == [i \in 1..PartitionSize |-> Erased]

\* The first k bytes of message n, the rest erased.
Prefix(n, k) ==
    [i \in 1..PartitionSize |-> IF i <= k THEN <<n, i>> ELSE Erased]

Init == sent = <<>> /\ content = Blank

Publish ==
    /\ \E n \in 0..MaxLength : sent' = Append(sent, n)
    /\ UNCHANGED content

Erase == content' = Blank /\ UNCHANGED sent

\* The newest message is written, or cut off by a fault.
Fill ==
    /\ content = Blank
    /\ sent # <<>>
    /\ sent[Len(sent)] <= Limit
    /\ \E k \in 0..sent[Len(sent)] : content' = Prefix(Len(sent), k)
    /\ UNCHANGED sent

Next == Publish \/ Erase \/ Fill

Spec == Init /\ [][Next]_vars
=============================================================================
