----------------------------- MODULE MCMailbox -----------------------------
(* Two senders; enough sends for several sleeps of the receiver.           *)
EXTENDS Mailbox
=============================================================================
