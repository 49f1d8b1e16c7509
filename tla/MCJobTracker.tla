---------------------------- MODULE MCJobTracker ----------------------------
EXTENDS JobTracker

CONSTANTS c1, c2

=============================================================================
