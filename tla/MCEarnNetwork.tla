---------------------------- MODULE MCEarnNetwork ----------------------------
EXTENDS EarnNetwork
=============================================================================
