----------------------------- MODULE GenesisTxs ------------------------------
(***************************************************************************)
(* The genesis transactions of src/genesis.rs: generate_genesis_txs and    *)
(* its helpers build, one ProvableBlobTx at a time, the register, faucet,  *)
(* stake and token transactions, run each through the transaction          *)
(* executor (tx_executor.process) on the executor's own copy of the        *)
(* hydentity, hyllar and staking states, and append the blob transaction   *)
(* and a synthetic proof carrying the outputs the executor computed.       *)
(*                                                                         *)
(* A contract's state commitment is its state itself.  The contract logic  *)
(* of hydentity and hyllar is outside this repository and is modelled from *)
(* spec.md as little as genesis needs (register, nonce-checked verify,    *)
(* transfer); the staking contract runs state.rs, taken from Staking.      *)
(* The SMT token ledgers are two commitments, before and after the full-   *)
(* supply transfer.  A peer's identity "{pubkey}@hydentity" is the peer    *)
(* itself: every peer has one key.                                          *)
(***************************************************************************)
EXTENDS Naturals, Sequences, SequencesExt

CONSTANTS
    GenesisStake,  \* config.genesis.stakers: staker name -> genesis stake
    PubKey,        \* each node's validator public key (numbers sort as keys)
    NameOrder,     \* every node, in the string order of its name (BTreeMap order)
    KeepTokens,    \* config.genesis.keep_tokens_in_faucet
    FeeDeposit,    \* the 100_000_000_000 deposited for fees, scaled down
    FaucetSupply   \* the faucet's balance in Hyllar::default(), scaled down

Stk == INSTANCE Staking WITH Identities <- {}, Validators <- {}, Amounts <- {},
          MaxBlocks <- 0, MaxActions <- 0, stakes <- <<>>, delegations <- <<>>,
          bonded <- <<>>, totalBond <- 0, panicked <- FALSE, blocks <- 0

Faucet == "faucet"            \* FAUCET_ID
Wallet == "hyli@wallet"
Tokens == {"oranj", "oxygen", "vitamin"}
EmptyRoot == "empty-smt-root"        \* root of AccountSMT::default()
DrainedRoot == "smt-root-drained"    \* root after the full-supply transfer

\* The executor built by genesis_contracts_txs: default states.
Executor0 == [hydentity |-> <<>>, hyllar |-> (Faucet :> FaucetSupply),
              staking |-> Stk!State]

\* genesis_contracts_txs: the registration transaction gives every reserved
\* contract its state commitment, the executor's before any transaction.
Registry ==
    [c \in {"hyle", "blst", "sha3_256", "secp256k1", "risc0-recursion"} |-> "default"]
    @@ [t \in Tokens |-> EmptyRoot]
    @@ [c \in {"hydentity", "hyllar", "staking"} |-> Executor0[c]]

\* The peers of peer_pubkey in the order a BTreeMap iterates them.
PeerOrder(peers) == SelectSeq(NameOrder, LAMBDA n : n \in peers)

-----------------------------------------------------------------------------
(* The builders of the contract clients: one blob each.                    *)

\* register_identity: a RegisterIdentity action for the builder's identity.
RegisterIdentity(id) == [contract |-> "hydentity", kind |-> "Register", account |-> id]

\* verify_identity: reads the account's nonce from the executor's hydentity
\* state (get_nonce fails for an unknown account) and adds VerifyIdentity.
VerifyIdentity(e, id) ==
    IF id \in DOMAIN e.hydentity
    THEN [contract |-> "hydentity", kind |-> "Verify", account |-> id,
          nonce |-> e.hydentity[id]]
    ELSE [contract |-> "hydentity", kind |-> "NoAccount"]

Transfer(to, amount) == [contract |-> "hyllar", kind |-> "Transfer", to |-> to, amount |-> amount]
Stake(amount) == [contract |-> "staking", kind |-> "Stake", amount |-> amount]
DepositForFees(holder, amount) ==
    [contract |-> "staking", kind |-> "DepositForFees", holder |-> holder, amount |-> amount]
Delegate(v) == [contract |-> "staking", kind |-> "Delegate", validator |-> v]

-----------------------------------------------------------------------------
(* The contracts, as the executor runs them.                               *)

\* Left fold over a sequence, oldest element first.
RECURSIVE Iterate(_, _, _)
\* The accumulator is bound to a value (a \in {acc}) at each step, so that
\* TLC evaluates it once instead of re-evaluating a chain of applications.
Iterate(Op(_, _), acc, seq) ==
    IF seq = <<>> THEN acc
    ELSE CHOOSE r \in {Iterate(Op, Op(a, Head(seq)), Tail(seq)) : a \in {acc}} : TRUE

Balance(st, id) == IF id \in DOMAIN st THEN st[id] ELSE 0

\* hydentity and hyllar from the spec; staking is state.rs.
\* deposit_for_fees: the deposit goes to the fees ledger, which keeps no
\* state here; it always succeeds.
ExecDepositForFees(st) == Stk!Done(st)

Exec(st, id, b) ==
    CASE b.kind = "Register" ->
            [ok |-> b.account \notin DOMAIN st, st |-> (b.account :> 0) @@ st]
      [] b.kind = "Verify" ->
            [ok |-> b.account \in DOMAIN st /\ st[b.account] = b.nonce,
             st |-> [st EXCEPT ![b.account] = @ + 1]]
      [] b.kind = "Transfer" ->
            [ok |-> Balance(st, id) >= b.amount,
             st |-> LET s1 == [st EXCEPT ![id] = @ - b.amount]
                    IN (b.to :> Balance(s1, b.to) + b.amount) @@ s1]
      [] b.kind = "Stake"    -> Stk!DoStake(st, id, b.amount)
      [] b.kind = "Delegate" -> Stk!DelegateTo(st, id, b.validator)
      [] OTHER               -> ExecDepositForFees(st)

\* One blob through its contract's executor: the output is computed from
\* the state before and after, and an Err of the contract fails the call.
ContractStep(e, id, b) ==
    LET x == Exec(e[b.contract], id, b)
    IN [ok |-> x.ok, e |-> [e EXCEPT ![b.contract] = x.st]]

\* tx_executor.process: the blobs run in order; the first failure fails it.
Process(e, tx) ==
    Iterate(LAMBDA r, i :
               IF ~r.ok THEN r
               ELSE LET b == tx.blobs[i]
                        x == ContractStep(r.e, tx.identity, b)
                    IN IF ~x.ok THEN [r EXCEPT !.ok = FALSE]
                       ELSE [ok |-> TRUE, e |-> x.e,
                             outputs |-> Append(r.outputs,
                                [contract |-> b.contract, index |-> i - 1,
                                 initial |-> r.e[b.contract],
                                 next |-> x.e[b.contract], success |-> TRUE])],
             [ok |-> TRUE, e |-> e, outputs |-> <<>>],
             [i \in 1..Len(tx.blobs) |-> i])


-----------------------------------------------------------------------------
(* The generators.  r carries the status ("ok", "err" after a `?`, or      *)
(* "panic" after an expect), the executor and the ProofTxBuilders so far.  *)

\* Build-time errors (get_nonce) and process errors both return Err.
Push(r, tx) ==
    IF r.status # "ok" THEN r
    ELSE IF \E i \in DOMAIN tx.blobs : tx.blobs[i].kind = "NoAccount"
    THEN [r EXCEPT !.status = "err"]
    ELSE LET p == Process(r.e, tx)
         IN IF ~p.ok THEN [r EXCEPT !.status = "err"]
            ELSE [r EXCEPT !.e = p.e, !.builders = Append(@,
                    [identity |-> tx.identity, blobs |-> tx.blobs, outputs |-> p.outputs])]

\* generate_register_txs: the faucet's identity, then one per peer.
GenerateRegisterTxs(r, peers) ==
    Iterate(LAMBDA acc, p : Push(acc, [identity |-> p, blobs |-> <<RegisterIdentity(p)>>]),
             Push(r, [identity |-> Faucet, blobs |-> <<RegisterIdentity(Faucet)>>]),
             PeerOrder(peers))

\* generate_faucet_txs: the faucet sends each peer its stake plus the fee
\* deposit; a peer missing from the stakers map is an expect.
GenerateFaucetTxs(r, peers) ==
    Iterate(LAMBDA acc, p :
               IF acc.status # "ok" THEN acc
               ELSE IF p \notin DOMAIN GenesisStake THEN [acc EXCEPT !.status = "panic"]
               ELSE Push(acc, [identity |-> Faucet,
                               blobs |-> <<VerifyIdentity(acc.e, Faucet),
                                           Transfer(p, GenesisStake[p] + FeeDeposit)>>]),
             r, PeerOrder(peers))

\* Fault-injection variant of GenerateStakeTxs: the fee deposit is recorded
\* but never paid to the staking contract.
GenerateStakeTxsNoFee(r, peers) ==
    Iterate(LAMBDA acc, p :
               IF acc.status # "ok" THEN acc
               ELSE IF p \notin DOMAIN GenesisStake THEN [acc EXCEPT !.status = "panic"]
               ELSE Push(acc, [identity |-> p,
                               blobs |-> <<VerifyIdentity(acc.e, p),
                                           Stake(GenesisStake[p]),
                                           Transfer("staking", GenesisStake[p]),
                                           DepositForFees(PubKey[p], FeeDeposit),
                                           Delegate(PubKey[p])>>]),
             r, PeerOrder(peers))

\* generate_stake_txs: each peer stakes, pays the stake and the fee deposit
\* to the staking contract and delegates to its own key.
GenerateStakeTxs(r, peers) ==
    Iterate(LAMBDA acc, p :
               IF acc.status # "ok" THEN acc
               ELSE IF p \notin DOMAIN GenesisStake THEN [acc EXCEPT !.status = "panic"]
               ELSE Push(acc, [identity |-> p,
                               blobs |-> <<VerifyIdentity(acc.e, p),
                                           Stake(GenesisStake[p]),
                                           Transfer("staking", GenesisStake[p]),
                                           DepositForFees(PubKey[p], FeeDeposit),
                                           Transfer("staking", FeeDeposit),
                                           Delegate(PubKey[p])>>]),
             r, PeerOrder(peers))

SmtTransfer(t) == [contract |-> t, kind |-> "SmtTransfer", to |-> Wallet]

\* Fault-injection variant of TokenTx: the token blob is pushed without its
\* precomputed output.
TokenTxUnpatched(acc, t) ==
    LET p == Push(acc, [identity |-> Faucet, blobs |-> <<VerifyIdentity(acc.e, Faucet)>>])
        n == Len(p.builders)
    IN IF p.status # "ok" THEN p
       ELSE [p EXCEPT !.builders[n] = [@ EXCEPT !.blobs = Append(@, SmtTransfer(t))]]

\* One SMT token: process the faucet's verify, then push the token blob and
\* its precomputed output (index 1) onto the builder.
TokenTx(acc, t) ==
    LET p == Push(acc, [identity |-> Faucet, blobs |-> <<VerifyIdentity(acc.e, Faucet)>>])
        n == Len(p.builders)
    IN IF p.status # "ok" THEN p
       ELSE [p EXCEPT !.builders[n] =
               [@ EXCEPT !.blobs = Append(@, SmtTransfer(t)),
                         !.outputs = Append(@, [contract |-> t, index |-> 1,
                                                initial |-> EmptyRoot,
                                                next |-> DrainedRoot, success |-> TRUE])]]

\* generate_token_txs: the faucet's remaining hyllar to hyli@wallet, then
\* every SMT token's full supply.
GenerateTokenTxs(r) ==
    LET r1 == Push(r, [identity |-> Faucet,
                       blobs |-> <<VerifyIdentity(r.e, Faucet),
                                   Transfer(Wallet, Balance(r.e.hyllar, Faucet))>>])
    IN Iterate(TokenTx, r1, <<"oranj", "oxygen", "vitamin">>)

\* The block's transactions from the builders r and the program ids reg:
\* the registration transaction, then each builder's blob transaction
\* followed by its proof, in the order they were built.  A proof output on a
\* contract without a program id is an expect.
GenesisLayout(r, reg) ==
    LET txs == Iterate(LAMBDA acc, b :
                          acc \o << [kind |-> "blob", identity |-> b.identity, blobs |-> b.blobs],
                                    [kind |-> "proof", outputs |-> b.outputs] >>,
                        << [kind |-> "register", contracts |-> reg] >>, r.builders)
        unregistered == \E b \in ToSet(r.builders) :
                           \E o \in ToSet(b.outputs) : o.contract \notin DOMAIN reg
    IN [status |-> IF r.status = "ok" /\ unregistered THEN "panic" ELSE r.status,
        txs |-> txs]

\* generate_genesis_txs: register, faucet, stake and (unless the faucet keeps
\* them) token builders, processed in that order on one executor.
GenerateGenesisTxs(peers) ==
    LET r0 == [status |-> "ok", e |-> Executor0, builders |-> <<>>]
        r3 == GenerateStakeTxs(GenerateFaucetTxs(GenerateRegisterTxs(r0, peers), peers), peers)
    IN CHOOSE g \in {GenesisLayout(r, reg) :
                        r \in {IF KeepTokens THEN r3 ELSE GenerateTokenTxs(r3)},
                        reg \in {Registry}} : TRUE

-----------------------------------------------------------------------------
(* NodeState applying the genesis block (from the spec).                   *)

\* Each output must start from its contract's current state, and moves it.
ApplyOutputs(reg, os) ==
    Iterate(LAMBDA r, o :
               IF r.ok /\ o.contract \in DOMAIN r.reg /\ r.reg[o.contract] = o.initial
                  /\ o.success
               THEN [r EXCEPT !.reg[o.contract] = o.next]
               ELSE [r EXCEPT !.ok = FALSE],
             [ok |-> TRUE, reg |-> reg], os)

\* The block's transactions in order: registration sets the contracts; a
\* blob transaction settles when its proof has an applicable output for
\* every one of its blobs.
Replay(txs) ==
    Iterate(LAMBDA r, tx :
               IF ~r.ok THEN r
               ELSE CASE tx.kind = "register" -> [r EXCEPT !.reg = tx.contracts]
                      [] tx.kind = "blob"     -> [r EXCEPT !.pending = tx]
                      [] OTHER ->
                           LET a == ApplyOutputs(r.reg, tx.outputs)
                           IN [r EXCEPT !.ok = a.ok /\ {o.index : o \in ToSet(tx.outputs)}
                                                         = 0..(Len(r.pending.blobs) - 1),
                                        !.reg = a.reg],
             [ok |-> TRUE, reg |-> <<>>, pending |-> [blobs |-> <<>>]], txs)

=============================================================================
