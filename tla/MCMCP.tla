------------------------------- MODULE MCMCP -------------------------------
EXTENDS MCP

CONSTANTS n1, c1, c2, t1, t2
=============================================================================
