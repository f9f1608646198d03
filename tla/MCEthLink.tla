----------------------------- MODULE MCEthLink -----------------------------
EXTENDS EthLink
=============================================================================
