-------------------------- MODULE MCPlayerSession ---------------------------
EXTENDS PlayerSession
==============================================================================
