--------------------------- MODULE MCCalendarSync ---------------------------
\* What TLC needs to check CalendarSync: the flags of sync-calendar.
EXTENDS CalendarSync
AnyOptions == [limited : BOOLEAN, noResume : BOOLEAN]
=============================================================================
