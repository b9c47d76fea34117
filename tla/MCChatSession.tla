--------------------------- MODULE MCChatSession ---------------------------
\* ChatSession for TLC.  Questions are asked in the order of their numbers,
\* so there is no symmetry to use.
EXTENDS ChatSession, TLC

=============================================================================
