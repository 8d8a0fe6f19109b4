------------------------- MODULE MCSubscriptionSync -------------------------
EXTENDS SubscriptionSync, TLC

CONSTANTS starter, pro, h1, h2
============================================================================
