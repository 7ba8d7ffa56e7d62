--------------------------- MODULE MCSocketServer ---------------------------
EXTENDS SocketServer
CONSTANTS a, b
Steady == <<{}>>
FirstFrail == <<{"data", "fin", "reset"}, {"shutdown"}>>
=============================================================================
