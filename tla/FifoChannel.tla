---------------------------- MODULE FifoChannel ----------------------------
(***************************************************************************)
(* What KCP promises one direction of a session: the messages given to     *)
(* ikcp_send come out of ikcp_recv whole, in order, each exactly once.     *)
(***************************************************************************)
EXTENDS Naturals, Sequences

CONSTANT Messages

VARIABLES
    sent,       \* the messages accepted, oldest first
    got         \* the messages read

vars == <<sent, got>>

Init == sent = <<>> /\ got = <<>>

Accept(message) ==
    /\ sent' = Append(sent, message)
    /\ UNCHANGED got

Deliver ==
    /\ Len(got) < Len(sent)
    /\ got' = Append(got, sent[Len(got) + 1])
    /\ UNCHANGED sent

Next == Deliver \/ \E message \in Messages : Accept(message)

Spec == Init /\ [][Next]_vars
=============================================================================
