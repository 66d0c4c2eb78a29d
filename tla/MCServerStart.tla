--------------------------- MODULE MCServerStart ---------------------------
EXTENDS ServerStart
=============================================================================
