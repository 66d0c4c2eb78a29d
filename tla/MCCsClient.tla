----------------------------- MODULE MCCsClient -----------------------------
EXTENDS CsClient
MCFloor == -2
=============================================================================
