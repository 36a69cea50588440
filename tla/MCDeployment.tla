---------------------------- MODULE MCDeployment ----------------------------
EXTENDS Deployment

CONSTANTS r1, r2, r3
=============================================================================
