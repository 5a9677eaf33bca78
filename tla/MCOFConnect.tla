----------------------------- MODULE MCOFConnect -----------------------------
(* Instances of OFConnect for TLC. *)
EXTENDS OFConnect

OneFlow  == {"flow"}
TwoFlows == {"podFlow", "vswitchFlow"}
=============================================================================
