----------------------------- MODULE MCContacts -----------------------------
(* Contacts for TLC: the names are numbers in their order. *)
EXTENDS Contacts
MCName == 1 .. 3
=============================================================================
