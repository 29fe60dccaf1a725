--------------------------- MODULE MCBulkSelection ---------------------------
EXTENDS BulkSelection

CONSTANTS A, B
==============================================================================
