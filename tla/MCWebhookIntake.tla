--------------------------- MODULE MCWebhookIntake ---------------------------
EXTENDS WebhookIntake, TLC

\* Events of one route are alike, and so are slots.
Symmetry == Permutations(Signed) \union Permutations(Slot)
=============================================================================
