--------------------------- MODULE MCSessionKeeper ---------------------------
\* SessionKeeper as it is; the .cfg gives the constants their values
EXTENDS SessionKeeper
==============================================================================
