---------------------------- MODULE MCFwuBuffer ----------------------------
EXTENDS FwuBufferUse
=============================================================================
