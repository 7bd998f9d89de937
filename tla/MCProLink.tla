----------------------------- MODULE MCProLink ------------------------------
EXTENDS ProLink
=============================================================================
