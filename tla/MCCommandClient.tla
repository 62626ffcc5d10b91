---------------------------- MODULE MCCommandClient ----------------------------
\* Instances of CommandClient: two ordinary commands, an urgent one and a
\* corrupt packet.
EXTENDS CommandClient
=============================================================================
