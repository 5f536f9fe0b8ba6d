------------------------------- MODULE MCRfs -------------------------------
EXTENDS Rfs
=============================================================================
