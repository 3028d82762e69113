----------------------------- MODULE MCWfbGround -----------------------------
EXTENDS WfbGround
==============================================================================
