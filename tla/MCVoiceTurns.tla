---------------------------- MODULE MCVoiceTurns ----------------------------
EXTENDS VoiceTurnsProperties, TLC
=============================================================================
