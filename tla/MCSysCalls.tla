---------------------------- MODULE MCSysCalls ----------------------------
\* Identifiers for module SysCalls: below the table, in it, the first one
\* behind it, and beyond that.
EXTENDS SysCalls

OddIds == {-1, 0, 36, 37}
NoIds  == {}
===========================================================================
