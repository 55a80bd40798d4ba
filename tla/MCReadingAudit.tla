---------------------------- MODULE MCReadingAudit ----------------------------
\* Instances of ReadingAudit for TLC.
EXTENDS ReadingAudit

==============================================================================
