------------------------------ MODULE MCStation -------------------------------
EXTENDS Station
==============================================================================
