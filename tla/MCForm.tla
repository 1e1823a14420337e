------------------------------- MODULE MCForm -------------------------------
EXTENDS Form
=============================================================================
