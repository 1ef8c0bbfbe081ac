------------------------------ MODULE MCBilling ------------------------------
EXTENDS Billing, TLC
CONSTANTS t1, w1, w2
OneTransfer == t1 :> 1
OneSender == t1 :> w1
==============================================================================
