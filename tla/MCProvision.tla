---------------------------- MODULE MCProvision ----------------------------
(* Provision for TLC: one command line next to the admin handler.          *)
EXTENDS Provision
=============================================================================
