------------------------- MODULE MCFwuSharedBuffer -------------------------
EXTENDS FwuSharedBuffer
===============================================================================
