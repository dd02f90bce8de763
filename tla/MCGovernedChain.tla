---------------------------- MODULE MCGovernedChain ----------------------------
\* Two runs, the second of which may resume what the first one returned.
EXTENDS GovernedChain

=============================================================================
