-------------------------- MODULE MCLiveCredential --------------------------
EXTENDS LiveCredential
=============================================================================
