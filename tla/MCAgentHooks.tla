--------------------------- MODULE MCAgentHooks ---------------------------
EXTENDS AgentHooks, TLC

SlotSymmetry == Permutations(Slots)
=============================================================================
