------------------------------- MODULE MCBot --------------------------------
(* Three READY events, and two interactions of this or another command.     *)
EXTENDS Bot

MCNames == {"ping", "other"}
=============================================================================
