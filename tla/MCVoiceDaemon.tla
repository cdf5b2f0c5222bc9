--------------------------- MODULE MCVoiceDaemon ---------------------------
EXTENDS VoiceDaemonProperties, TLC
=============================================================================
