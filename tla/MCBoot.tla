------------------------------- MODULE MCBoot -------------------------------
\* Increments for sbrk that a configuration file cannot write: the heap starts
\* at byte 12 and the last byte a break can have is 33.  From the start to that
\* byte, back past the start, and below zero.
EXTENDS Boot

SmallIncrs == {-16, 21}
=============================================================================
