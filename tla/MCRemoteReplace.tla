-------------------------- MODULE MCRemoteReplace --------------------------
EXTENDS RemoteReplace
=============================================================================
