----------------------------- MODULE MCMartSync -----------------------------
EXTENDS MartSync
=============================================================================
