-------------------------- MODULE MCClientTransfers --------------------------
EXTENDS ClientTransfers
=============================================================================
