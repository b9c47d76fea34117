--------------------------- MODULE MCAnswerStream ---------------------------
\* An instance of AnswerStream for TLC.  A liveness property rules symmetry out.
EXTENDS AnswerStream

=============================================================================
