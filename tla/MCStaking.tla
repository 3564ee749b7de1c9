----------------------------- MODULE MCStaking ------------------------------
EXTENDS Staking

\* Exactly MIN_STAKE, and two amounts that sum to MIN_STAKE - 1: a validator
\* reaches the bond boundary with one delegator, and falls one short of it
\* with two.
MCAmounts == {15, 16, 32}
=============================================================================
