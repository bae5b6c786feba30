---------------------------- MODULE MCForkServer ----------------------------
EXTENDS ForkServer, TLC

CONSTANTS c1, c2
=============================================================================
