--------------------------- MODULE MCEnrollment ---------------------------
EXTENDS Enrollment
=============================================================================
