------------------------------ MODULE MCProcess ------------------------------
EXTENDS RunProcess

MCSizes == {NoInput, 0, 3}
MCMaxOut == [out |-> 3, err |-> 1]
=============================================================================
