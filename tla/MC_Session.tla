----------------------------- MODULE MC_Session -----------------------------
EXTENDS Session
=============================================================================
