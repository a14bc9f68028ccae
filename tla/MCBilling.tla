------------------------------ MODULE MCBilling ------------------------------
EXTENDS Billing

CONSTANTS s1, w1, w2
=============================================================================
