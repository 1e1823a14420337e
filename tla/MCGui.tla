------------------------------- MODULE MCGui -------------------------------
EXTENDS Gui
=============================================================================
