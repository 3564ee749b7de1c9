------------------------------ MODULE Staking -------------------------------
(***************************************************************************)
(* The staking contract's state, crates/contracts/staking/src/state.rs,    *)
(* driven by process_block: each block's staking actions are applied in   *)
(* order (stake, delegate_to, deposit_for_fees, distribute) and then its   *)
(* new bonded validators are bonded.  The first error returns from         *)
(* process_block with the earlier actions of the block already applied to  *)
(* the state, which is what &mut self does; a Distribute action reaches    *)
(* todo!() and panics.                                                     *)
(*                                                                         *)
(* Validator keys are numbers so that bonded can be sorted as the code     *)
(* sorts it.  The Fees ledger (fees.rs, not in this repository) is left    *)
(* out: deposit_for_fees always succeeds and only touches it.              *)
(***************************************************************************)
EXTENDS Naturals, Sequences, SequencesExt, FiniteSets

CONSTANTS
    Identities,   \* staker identities
    Validators,   \* validator public keys (numbers)
    Amounts,      \* stake amounts a Stake action may carry
    MaxBlocks,    \* bound on processed blocks
    MaxActions    \* bound on staking actions per block

MIN_STAKE == 32

ASSUME Validators \subseteq Nat /\ Amounts \subseteq Nat \ {0}

VARIABLES
    stakes,       \* Staking.stakes: identity -> amount, for staked identities
    delegations,  \* Staking.delegations: validator -> delegators in order
    bonded,       \* Staking.bonded
    totalBond,    \* Staking.total_bond
    panicked,     \* process_block reached todo!()
    blocks        \* blocks processed so far

vars == <<stakes, delegations, bonded, totalBond, panicked, blocks>>

StakingActions ==
    [kind : {"Stake"}, identity : Identities, amount : Amounts]
    \union [kind : {"Delegate"}, identity : Identities, validator : Validators]
    \union [kind : {"DepositForFees"}, holder : Validators]
    \union [kind : {"Distribute"}]

\* The state as one record, so that a block can be folded over it.
State == [stakes |-> stakes, delegations |-> delegations,
          bonded |-> bonded, totalBond |-> totalBond]

Fail(s)  == [ok |-> FALSE, panic |-> FALSE, st |-> s]
Done(s)  == [ok |-> TRUE, panic |-> FALSE, st |-> s]
Panic(s) == [ok |-> FALSE, panic |-> TRUE, st |-> s]

-----------------------------------------------------------------------------

\* get_stake: the stakes of a known validator's delegators, unstaked ones
\* counting 0; nothing for an unknown validator.
StakeOf(s, d) == IF d \in DOMAIN s.stakes THEN s.stakes[d] ELSE 0

GetStake(s, v) ==
    FoldLeft(LAMBDA acc, d : acc + StakeOf(s, d), 0, s.delegations[v])

IsKnown(s, v) == v \in DOMAIN s.delegations

\* compute_voting_power: the stake of the distinct validators listed.
ComputeVotingPower(s, vs) ==
    FoldSet(LAMBDA v, acc : acc + (IF IsKnown(s, v) THEN GetStake(s, v) ELSE 0),
            0, ToSet(vs))

\* compute_f
ComputeF(s) == s.totalBond \div 3

\* Fault-injection variant of DoStake: no frozen-balance check, the
\* and_modify branch adds to the existing stake.
DoStakeAdds(s, id, amount) ==
    Done([s EXCEPT !.stakes = IF id \in DOMAIN @ THEN [@ EXCEPT ![id] = @ + amount]
                              ELSE (id :> amount) @@ @])

\* stake: a staked identity's balance is frozen.
DoStake(s, id, amount) ==
    IF id \in DOMAIN s.stakes THEN Fail(s)
    ELSE Done([s EXCEPT !.stakes = (id :> amount) @@ @])

\* Fault-injection variant of DelegateTo: no check for an earlier delegation.
DelegateToTwice(s, id, v) ==
    Done([s EXCEPT !.delegations =
             IF v \in DOMAIN @ THEN [@ EXCEPT ![v] = Append(@, id)]
             ELSE (v :> <<id>>) @@ @])

\* delegate_to: an identity delegates to at most one validator, once.
DelegateTo(s, id, v) ==
    IF \E w \in DOMAIN s.delegations : id \in ToSet(s.delegations[w])
    THEN Fail(s)
    ELSE Done([s EXCEPT !.delegations =
                  IF v \in DOMAIN @ THEN [@ EXCEPT ![v] = Append(@, id)]
                  ELSE (v :> <<id>>) @@ @])

\* Fault-injection variant of Bond: an off-by-one at the minimum stake.
BondOffByOne(s, v) ==
    IF v \in ToSet(s.bonded) \/ ~IsKnown(s, v) \/ GetStake(s, v) < MIN_STAKE - 1
    THEN Fail(s)
    ELSE Done([s EXCEPT !.bonded = SortSeq(Append(@, v), <),
                        !.totalBond = @ + GetStake(s, v)])

\* bond: a known validator with at least MIN_STAKE joins the sorted bonded
\* list and its current stake is added to total_bond.
Bond(s, v) ==
    IF v \in ToSet(s.bonded) \/ ~IsKnown(s, v) \/ GetStake(s, v) < MIN_STAKE
    THEN Fail(s)
    ELSE Done([s EXCEPT !.bonded = SortSeq(Append(@, v), <),
                        !.totalBond = @ + GetStake(s, v)])

ApplyAction(s, a) ==
    CASE a.kind = "Stake"    -> DoStake(s, a.identity, a.amount)
      [] a.kind = "Delegate" -> DelegateTo(s, a.identity, a.validator)
      [] a.kind = "Distribute" -> Panic(s)  \* todo!()
      [] OTHER               -> Done(s)  \* DepositForFees: the Fees ledger

\* The loops of process_block: stop at the first error, keeping what was
\* applied before it.
RECURSIVE ApplyActions(_, _)
ApplyActions(s, as) ==
    IF as = <<>> THEN Done(s)
    ELSE LET r == ApplyAction(s, Head(as))
         IN IF r.ok THEN ApplyActions(r.st, Tail(as)) ELSE r

RECURSIVE BondAll(_, _)
BondAll(s, vs) ==
    IF vs = <<>> THEN Done(s)
    ELSE LET r == Bond(s, Head(vs))
         IN IF r.ok THEN BondAll(r.st, Tail(vs)) ELSE r

-----------------------------------------------------------------------------

Init ==
    /\ stakes = <<>>          \* the empty function
    /\ delegations = <<>>
    /\ bonded = <<>>
    /\ totalBond = 0
    /\ panicked = FALSE
    /\ blocks = 0

\* process_block on a block with staking actions as and new bonded
\* validators nb.
ProcessBlock(as, nb) ==
    /\ ~panicked
    /\ blocks < MaxBlocks
    /\ blocks' = blocks + 1
    /\ LET r1 == ApplyActions(State, as)
           r  == IF r1.ok THEN BondAll(r1.st, nb) ELSE r1
       IN /\ stakes' = r.st.stakes
          /\ delegations' = r.st.delegations
          /\ bonded' = r.st.bonded
          /\ totalBond' = r.st.totalBond
          /\ panicked' = r.panic

Blocks == UNION {[1..k -> StakingActions] : k \in 0..MaxActions}
NewBonded == {<<>>} \union {<<v>> : v \in Validators}

Next == \E as \in Blocks, nb \in NewBonded : ProcessBlock(as, nb)

Spec == Init /\ [][Next]_vars

-----------------------------------------------------------------------------
(* Properties                                                              *)

TypeOK ==
    /\ DOMAIN stakes \subseteq Identities
    /\ \A id \in DOMAIN stakes : stakes[id] \in Amounts
    /\ DOMAIN delegations \subseteq Validators
    /\ \A v \in DOMAIN delegations : delegations[v] \in Seq(Identities)
    /\ bonded \in Seq(Validators)
    /\ totalBond \in Nat
    /\ panicked \in BOOLEAN
    /\ blocks \in 0..MaxBlocks

(* Every bonded validator is known and has at least MIN_STAKE behind it,   *)
(* and bonded is strictly increasing (sorted, no validator twice), over   *)
(* any sequence of blocks whose actions may fail half-way.                *)
BondedAreStaked ==
    /\ \A i \in DOMAIN bonded :
          IsKnown(State, bonded[i]) /\ GetStake(State, bonded[i]) >= MIN_STAKE
    /\ \A i \in 1..Len(bonded) - 1 : bonded[i] < bonded[i + 1]

(* total_bond is the stake of the bonded validators, the quantity          *)
(* compute_f divides and compute_voting_power is compared against.         *)
TotalBondIsBondedStake ==
    totalBond = ComputeVotingPower(State, bonded)

=============================================================================
