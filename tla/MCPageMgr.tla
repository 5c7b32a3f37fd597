----------------------------- MODULE MCPageMgr -----------------------------
EXTENDS PageMgr
=============================================================================
