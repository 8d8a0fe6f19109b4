------------------------- MODULE MCWebhookDelivery -------------------------
EXTENDS WebhookDelivery, TLC

CONSTANTS e1, c1, c2, p1, w1, w2
============================================================================
