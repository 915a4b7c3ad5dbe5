-------------------------- MODULE MCConversation --------------------------
EXTENDS Conversation, TLC

Symmetry == Permutations(Msgs \ Guests)
=============================================================================
