------------------------------- MODULE MCFiles -------------------------------
EXTENDS Files
CONSTANTS a
=============================================================================
