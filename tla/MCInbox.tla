------------------------------- MODULE MCInbox -------------------------------
(***************************************************************************)
(* An instance of Inbox: two wallets with a row and one without, a row of     *)
(* each table, and lists that are shorter than what there is to show.         *)
(***************************************************************************)
EXTENDS Inbox, TLC

MCFirst == <<Row("broadcast", None, 1), Row("alert", "v", 2), Row("threat", "u", 3)>>

Arrival(type, owner) == [type |-> type, owner |-> owner]

MCArrivals == {Arrival("alert", "u"), Arrival("activity", "u"), Arrival("approval_alert", "n"),
               Arrival("approval_alert", "N")}

MCSymmetry == Permutations(Workers)
=============================================================================
