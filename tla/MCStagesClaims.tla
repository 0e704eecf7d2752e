--------------------------- MODULE MCStagesClaims ----------------------------
EXTENDS StagesClaims
CONSTANTS p1, v1
ClaimJobs == <<0, 0, 2>>
===============================================================================
