---------------------------- MODULE MCCommunicate ----------------------------
EXTENDS Communicate

MCMaxOut == [out |-> 1, err |-> 1]
=============================================================================
