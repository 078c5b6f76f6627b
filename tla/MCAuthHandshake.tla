---- MODULE MCAuthHandshake ----
(* AuthHandshake for TLC: the headset's records take three fragments.       *)
EXTENDS AuthHandshake

MCDialects == {"pdp", "finish", "v2"}
====
