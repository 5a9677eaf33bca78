----------------------------- MODULE FlowChannel -----------------------------
(***************************************************************************)
(* What the OpenFlow channel promises to those who send through it,        *)
(* without its goroutines, locks, buffers and connections: the switch      *)
(* takes the messages in the order of the Sends, none of them twice and    *)
(* none left out, until the channel breaks.  It breaks with the connection *)
(* that has got the hello, and then nothing arrives for the rest of the    *)
(* process.                                                                *)
(***************************************************************************)
EXTENDS Integers, Sequences

CONSTANT Messages

VARIABLES
  sent,          \* the messages handed to Send
  delivered,     \* the messages the switch has taken
  broken

Send(m) ==
  /\ sent' = Append(sent, m)
  /\ UNCHANGED <<delivered, broken>>

Deliver ==
  /\ ~broken /\ Len(delivered) < Len(sent)
  /\ delivered' = Append(delivered, sent[Len(delivered) + 1])
  /\ UNCHANGED <<sent, broken>>

Break ==
  /\ ~broken /\ broken' = TRUE
  /\ UNCHANGED <<sent, delivered>>

Init == sent = <<>> /\ delivered = <<>> /\ broken = FALSE

Next == (\E m \in Messages : Send(m)) \/ Deliver \/ Break

Spec == Init /\ [][Next]_<<sent, delivered, broken>>
=============================================================================
