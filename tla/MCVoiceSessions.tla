-------------------------- MODULE MCVoiceSessions --------------------------
\* Two calls of one user, who may have one session; a window lets two requests through and counts a third.
EXTENDS VoiceSessions
=============================================================================
