------------------------------ MODULE MCWindows ------------------------------
EXTENDS Windows
MCBudget == [edit |-> 1, purge |-> 1, mishap |-> 1]
=============================================================================
