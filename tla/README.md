# TLA+ models of the hyle node core

This directory holds TLA+ models of the parts of this repository that have
concurrency, protocol or state-machine behaviour worth model checking, the TLC
configurations that check them, and `PROJECT.json`. That file lists every
component, every run, the mutant that shows each checked property can fail, the
source lines each definition translates, the findings, and the hazards of the
code.

## 1. The system

The repository (see `spec.md`) is the core of a node built from *modules* that
talk over a typed broadcast *bus*.

| Part | Source | What it does |
|---|---|---|
| Typed bus | `crates/hyle-modules/src/bus.rs` | One tokio broadcast channel per message type. A bus client subscribes at build time. `send` checks `receiver_count()` and `len()` against a soft cap (`CAPACITY - 10`) before sending. `send_waiting_if_full` sleeps 100 ms while the channel is at the cap. |
| Module supervisor | `crates/hyle-modules/src/modules/mod.rs` | `ModulesHandler` builds the modules and spawns each one with a supervising task. That task races the module against a 5 s timeout armed by its `ShutdownModule`, and publishes `ShutdownCompleted` when either wins. `shutdown_loop` turns every completion of a long-running module into a request to stop the next one, in reverse start order, with a 6 s safety timer. `exit_process` runs that loop until it ends or SIGINT/SIGTERM arrives, then runs `shutdown_modules`. |
| Persistence and signal helpers | same file | `save_on_disk` writes a tmp file and renames it. `shutdown_aware*` and `module_handle_messages!` make module loops leave on their `ShutdownModule`. `run_module` persists only when `run` returns `Ok`. |
| Genesis | `src/genesis.rs` | A one-shot module. If `genesis.bin` says genesis was handled, it publishes `NoGenesis`. Otherwise a genesis staker waits for `PeerEvent::NewPeer` from every other staker, then builds the genesis block and publishes it. A non-staker, or any node that meets a peer already past height 0, publishes `NoGenesis`. `persist` then writes `genesis.bin`. |
| Hyle TLD handler | `crates/hyle-modules/src/node_state/hyle_tld.rs` | Applies register, delete, update-program-id and update-timeout-window blobs on the privileged `"hyle"` contract to the per-transaction `contract_changes`. `validate_hyle_contract_blobs` restricts the privileged actions to `hyli@wallet`. |
| Staking state | `crates/contracts/staking/src/state.rs` | Stakes, delegations, the sorted bonded list and `total_bond`. `process_block` applies a block's staking actions in order, then bonds its new validators. |
| Verifier dispatch | `src/mempool/verifiers.rs` | Stateless mapping from (verifier tag, program id, proof) to hyle outputs. |
| SDK, contract clients, config | `contract-sdk`, `hydentity/client.rs`, `hyllar/main.rs`, `config.rs` | Pure helpers, transaction builders and type definitions. |

How they interact:
- Modules publish and consume events on the bus.
- The supervisor and the modules exchange `ShutdownModule` and `ShutdownCompleted` on two bus channels.
- Genesis consumes `PeerEvent` from the p2p layer and publishes `GenesisEvent` to consensus. Both collaborators are outside this repository.
- The genesis block's transactions register identities, stake and delegate through the staking contract, whose state `Staking` models.
- NodeState settles transactions, calling the TLD handler for `"hyle"` blobs.

## 2. Modules

Each module has its state as VARIABLES, `Init`, one action per handler or step,
`Next` and `Spec`, and is parameterised by CONSTANTS. Each `MC*.tla` gives the
constants model values for TLC. A definition whose name ends in a fault
description (`...OffByOne`, `...Unchecked`, `...Twice` and so on) is a mutant:
a plausible bug in the definition after it, used only to show that a property
detects it.

### Supervisor.tla (mod.rs)

- **State.**
  - `modules`, `started` and `shut` are the handler's vectors.
  - `runState[m]` is the module's `run_module` future: built, running, persisting or exited.
  - `task[m]` is its supervising task.
  - `requests` and `completions` are the logs of the two broadcast channels.
  - `cursor` is where `shutdown_loop`'s current subscription starts: a late subscriber sees only later messages.
  - `pc` is the main task's place in `exit_process`, and `signalled` records SIGINT/SIGTERM.
- **Actions.**
  - `StartModules`
  - `ShutdownLoopEntry`: the loop subscribes, or returns at once when nothing is started.
  - `ReceiveCompleted`: the `ShutdownCompleted` arm.
  - `LoopTimer`: the 6 s arm.
  - `Signal`, `ShutdownModules`
  - `ModuleReturns`: a module ends on its own.
  - `ModuleShutdown`: a module leaves on its request.
  - `ModulePersists`
  - `TaskReportsExit` and `TaskReportsTimeout`: the two outcomes of the `select!`.
- **Helpers.** `ShutdownNext` is `shutdown_next_module`. It pops the last started module and publishes a request for it.
- **Timing.** Time is abstracted to order. The 6 s timer can fire only when no completion is unread and every asked module's 5 s timeout has already fired (`TimerExpires`), which is what 5 s < 6 s gives.
- **Constants.** `MCSupervisor` runs four modules, `genesis` (one-shot) then `a`, `b` and `c`. Each cfg chooses which of them may fail on their own (`MayFail`) and which never answer a shutdown request (`Stuck`).
- **Refinement.** `Supervisor` implements `SupervisorShutdown` (below) under the mapping `cause <- signalled or a long-running module in completions`, `asked <- requests`, `reported <- the modules in completions` (`ShutdownRefined`).

### SupervisorShutdown.tla (the supervisor's promise, spec.md §4.2–4.3)

- **State.** `cause` (shutdown has a reason), `asked` (the ShutdownModule requests in order) and `reported` (the modules whose ShutdownCompleted was published).
- **Actions.**
  - `AbsSignal` is a process signal.
  - `AbsAsk(m)` needs a cause, and asks a long-running module once, only when every module started after it is asked or has completed.
  - `AbsReport(m)` publishes a module's completion once, if it was asked or may stop on its own. A long-running one becomes a cause.
- It states no waiting and no liveness. The code does not wait for a completion before the next request (finding 1), and the cascade can stall (finding 2); the violation runs show both.

### Genesis.tla (genesis.rs, composed with p2p and consensus)

- **Genesis module, per node.**
  - `gpc`: start, waiting, returned, failed (generation or `save_on_disk` returned Err) or persisted.
  - `peerPubkey`: the peers recorded so far.
  - `inbox`: the PeerEvents published to it and not yet read.
  - `genesisBin`: the durable `genesis.bin` flag.
- **Consensus, per node.**
  - `event`: the GenesisEvent consensus has not applied yet.
  - `synced`: consensus holds the genesis block (durable).
- **Shared.** `connected`, the crash count and `emitted` (every published block, by validator set).
  `generated` holds `GenesisOf` for every set of nodes (a set with a non-staker is the `expect` panic): the generation status and NodeState's replay of the transactions. It is a pure function of the peer set, set once in `Init` and never changed, so TLC computes the transaction generation once instead of in every state and fairness test.
- **Actions.**
  - `Start` translates `start` and `DoGenesis` translates `do_genesis` up to the wait.
  - `ReceivePeer` is the PeerEvent arm of the wait loop.
  - `EmitBlock` is the end of `do_genesis`: it publishes the block, or returns the generation's `Err` (gpc `failed`, nothing published, no persist).
  - `Persist` is `run_module`'s persist after `Ok`. `SaveOnDisk` either renames a complete tmp file over `genesis.bin` or returns `Err` at create, write, flush or rename, leaving the file as it was. A failed save is a fault and counts against `MaxCrashes`, like a crash.
  - `Start` reads `genesis.bin` through `LoadFromDiskOrDefault`: a missing file gives `false`.
- **Spec-modelled collaborators.**
  - `Connect` is a p2p handshake publishing NewPeer both ways.
  - `ApplyGenesis` and `CatchUp` are consensus consuming GenesisBlock or NoGenesis.
  - `Crash` is a restart that loses volatile state and keeps `genesis.bin` and the applied chain.
- **Abstraction.** The genesis transactions and the block are functions of the peer map, so a block is its validator set; its transactions are `GenerateGenesisTxs` of that set (GenesisTxs.tla).
- **Constants.** `MCGenesis` has nodes `n1` and `n2` (the stakers) and `n3` (not a staker). The stakes are 100 and 40, the validator keys order the nodes differently from their names, the fee deposit is 10 and the faucet holds 1000.

### GenesisTxs.tla (genesis.rs generators, the Hydentity client, NodeState replay)

- **Executor.** One record of the three contract states genesis processes transactions on: `hydentity` (account → nonce), `hyllar` (balances) and `staking` (Staking.tla's state, whose `stake` and `delegate_to` are reused through `Stk == INSTANCE Staking`). `Executor0` and `Registry` are `genesis_contracts_txs`: the initial states and the registration transaction that gives every reserved contract its state commitment (a state is its own commitment).
- **Builders.** `RegisterIdentity` and `VerifyIdentity` are the Hydentity client's builders; `VerifyIdentity` reads the nonce from the executor's current state when the transaction is built, and an unknown account is the client's `NoAccount` error.
- **Processing.** `Process` and `Push` are `TxExecutor::process` (outside this repository, spec-modelled): the blobs run in order on the executor, each giving an output with its initial and next state; the first failure is an `Err` that `?` propagates.
- **Generators.** `GenerateRegisterTxs`, `GenerateFaucetTxs`, `GenerateStakeTxs` and `GenerateTokenTxs` translate the four generators, walking the peers in BTreeMap order (`PeerOrder`). `TokenTx` is one SMT token transaction: processed with only its verify blob, then patched with the token blob and a hand-built output at index 1. `GenerateGenesisTxs` chains them in the code's order and lays out the block's transactions (blob transaction, then its proof).
- **Replay.** `Replay` is NodeState applying the block (spec-modelled): each proof's outputs must start from the contract's current state and cover every blob of the transaction.
- **Abstraction.** Identities `<key>@hydentity` are the node names; amounts are small numbers (the fee deposit stands for 100_000_000_000); hashes, signatures and SMT roots are model values; the fees ledger keeps no state.

### HyleTld.tla (hyle_tld.rs, composed with NodeState settlement)

- **State.**
  - `contracts`: the registry, mapping a name to its program id and timeout window.
  - `log`: the committed side effects, with the transaction's identity.
  - `txs`: the number of transactions so far.
  - `lastId`: the identity of the last transaction submitted (history, for `RegistryChangedOnlyByTld`).
- **Handlers.** `HandleBlob` and the four handlers translate the code over `ch`, the `contract_changes` map. `MergeUpdate` is the shared `entry().and_modify().or_insert_with()`. `ValidateHyleContractBlobs` is admission.
- **Spec-modelled NodeState.** `SubmitTx` is one transaction:
  - It is refused at admission, or it fails at the first failing blob (`ApplyBlobs`), or it is committed (`Commit`).
  - `ValidRegistration` and `GetContract` stand for NodeState helpers outside this repository.
- **Constants.** `MCHyleTld` has the names `hyle`, `foo` (a fresh TLD) and `a.foo` (a subdomain of another TLD, invalid for `"hyle"`). It has two identities, two program ids and two windows, plus a missing window on register.

### Staking.tla (state.rs)

- **State.** `stakes`, `delegations`, `bonded`, `totalBond`, `panicked` and `blocks`.
- **Functions.** `DoStake`, `DelegateTo`, `Bond`, `GetStake`, `ComputeVotingPower` and `ComputeF` are functions of a state record.
- **Action.** `ProcessBlock` folds the block's actions over the state, then its new bonded validators, and keeps what was applied before the first error, as `&mut self` does. `Distribute` panics.
- **Constants.** Amounts are 15, 16 and 32, so `MIN_STAKE` = 32 is reached by one delegator, and two delegators of 15 and 16 fall exactly one short (31), the boundary of the `>=` at `state.rs:64`. There are two identities and validator keys 1 and 2 (numbers, so `bonded` can be sorted).

### Bus.tla (bus.rs)

- **State.**
  - `tail`: messages sent on the channel.
  - `pos`: per receiver, its read position.
  - `subscribed` and `dropped`: which receivers are alive and which were dropped.
  - `spc` and `sends`: per sender, its step (`idle`, `waiting`, `checked`) and how many calls it has made.
  - `errors`, `received` and `subFrom`: history (what each receiver got, and the tail when it subscribed).
- **Actions.**
  - `CheckSend` is the `receiver_count()` and `len()` checks of `send`.
  - `CheckWaiting` is the entry of `send_waiting_if_full`: its one `receiver_count()` check, which returns `Ok` at once when nobody listens.
  - `WaitLoop` is one wake-up of its `while len() >= CAPACITY_IF_WAITING` loop. A failed check is a stutter: it sleeps and checks again.
  - `SendChecked` is the broadcast `send` that follows the checks, a separate step.
  - `Recv` follows tokio's semantics, including `Lagged`. It is both `recv` and `try_recv`: `try_recv` takes the same step without awaiting, and its `Empty` changes nothing.
  - `Subscribe` and `Unsubscribe` are a client's subscription and drop.
- **Spec-modelled.** `ChannelLen` is tokio's `Sender::len`: values not yet seen by every live receiver, at most the capacity.
- **Scale.** Capacity 3 and margin 1 stand for 100000 and 10. The race depends only on the margin and the number of concurrent senders. tokio rounds the real capacity up to a power of two, so the model's buffer is smaller than the real one.
- **Refinement.** `Bus` implements `BroadcastChannel` under the mapping `published <- tail`, `from <- subFrom`, `delivered <- received`, `live <- subscribed`, `gone <- dropped`. The mapping uses the delivered history, not the cursors, because a `Lagged` skip of one message moves a cursor exactly as a delivery does.

### BroadcastChannel.tla (the bus's promise, spec.md §4.1)

The abstract specification of one message type:
- A publish counts only when someone listens.
- A subscriber sees the messages published after it subscribed, in order and without a gap.
- There is no capacity, so lag is exactly what it rules out.

Its actions are `Publish`, `Join`, `Leave` and `Deliver`.

### Proving.tla (contract SDK, Hyllar guest, verifiers; settlement from the spec)

One blob transaction from proof to settlement.
- **State.**
  - `blobs`: the transaction, indexed from 0 as `BlobIndex` is. A contract blob's data is either a `StructuredBlobData` (caller and callees; parameters left out) or `Raw` bytes that do not decode. A native blob carries an identity and whether its check passes.
  - `committed`: what each guest committed (`None`, an output, or `Panicked`).
  - `verified`: the output the node accepted for each blob (or `Rejected`).
  - `settled`.
- **Guest operators, translated from the SDK.**
  - `ParseStructuredBlob`, `CheckCallees` (RECURSIVE over the callees list) and `CheckCallerCallees` are `parse_structured_blob` and `check_caller_callees`.
  - `InitWithCaller`, `Fail` and `AsHyleOutput` are the guest helpers.
  - `GuestMain` is Hyllar's `main`: read, execute, commit. A panic commits nothing.
- **Spec-modelled.** The token logic (`Execute`) is abstracted to fail, leave the state, or debit the identity `init_with_caller` returned.
- **Node operators.**
  - `VerifyProof` is the tag dispatch of `verify_proof`, including the `sp1` feature and unknown tags. The `test` verifier is modelled as honest, although `verifiers.rs:24` accepts any outputs decoded from the proof bytes; no contract of `MCProving` uses it.
  - `VerifyNative` and `VerifyNativeImpl` are native verification: a malformed blob, a failed check, or success.
- **Actions.** `Prove(i)` is a prover running a guest. `SubmitProof(i)` and `CheckNative(i)` are the node's checks. `Settle` is NodeState settling once every blob has a successful output (spec-modelled).
- **Constants.** `MCProving` has two contracts, `c1` on `risc0-1` and `c2` on `sp1-4` with the feature off, and one native verifier `sha3`. It has two identities, at most two blobs and callees lists of at most two entries. `Init` ranges over every such transaction.

## 3. Runs

| Run | Expect | Checks | What it shows |
|---|---|---|---|
| supervisor_faults | pass | TypeOK, ShutdownRefined | Any module but `b` may fail on its own, `b` never answers, and signals may come at any time. Still, the supervisor implements `SupervisorShutdown`: no module is asked to stop before a failure or a signal; modules are asked in reverse start order, each at most once; and a completion is published only for a module that was asked or stopped on its own. |
| supervisor_early_exit | violation | DrainedOnExit | `exit_process` returns while an asked module is still running or persisting. |
| supervisor_lost_cascade | violation | ShutdownCascades | Once shutdown has a cause (a signal, or a long-running module that stopped), some long-running module may never be stopped: its trigger was published before `shutdown_loop` subscribed. |
| genesis_crash1 | pass | TypeOK, GenesisBlockAgreed, GenesisTxsSettle, GenesisLedger, NetworkStarts | Peer events come reordered, stale and duplicated, and one fault may strike: any node may crash at any point, or its save of `genesis.bin` may fail. Every published genesis block has exactly the stakers as validators. Its generated transactions all settle when replayed in block order, with the nonces, the order of the builders and the patched token outputs all consistent (`GenesisTxsSettle`). Afterwards each validator's key holds exactly its genesis stake, the staking contract holds every stake and fee deposit, and the faucet is drained (`GenesisLedger`). Every node eventually holds the chain. |
| genesis_crash2 | violation | NetworkStarts | Both stakers crash between `persist` and consensus applying the block. After that nobody can ever start the network. |
| tld_pass | pass | TypeOK, RegistryChangedOnlyByTld | Over all sequences of three transactions of up to two blobs, from `hyli@wallet` or another identity, no existing contract other than `"hyle"` is deleted or has its program id or timeout window changed except by a transaction of `hyli@wallet`. The property is stated on the registry, not on the side-effect labels, so it would also see a replacing register. `"hyle"` itself is the subject of `tld_hijack`. |
| tld_hijack | violation | HyleIntact | Any identity can re-register `"hyle"` and replace its record. |
| staking_pass | pass | TypeOK, BondedAreStaked | Blocks may fail half-way or panic, and a validator's stake may be exactly MIN_STAKE or one short of it. Bonded validators keep at least MIN_STAKE, and `bonded` stays sorted and unique. |
| staking_total_bond | violation | TotalBondIsBondedStake | A delegation after bonding leaves `total_bond` stale. |
| bus_pass | pass | TypeOK, BroadcastRefined | Runs with margin+1 concurrent senders (one of them in `send_waiting_if_full`), late subscribers and dropped receivers. The bus implements `BroadcastChannel`: every receiver gets every message published after it subscribed, in order, none skipped. |
| proving_pass | pass | TypeOK | Covers every transaction of up to two blobs: contract and native blobs, any caller/callees links, undecodable data, and a verifier that is compiled out. Every output has the shape the node expects, a native error included. The authentication question is `proving_caller`'s. |
| proving_caller | violation | CallerAuthentic | A blob can act for a contract whose blob never listed it as a callee. |

Deadlock checking is off for Genesis, HyleTld, Staking, Bus and Proving:
- Genesis is one-shot. Its last state is every node done, and `NetworkStarts` checks that this end is the right one.
- HyleTld, Staking and Bus end only when the named bounds (transactions, blocks, sends) are used up. None of these components blocks.
- In Proving, a transaction that can never settle (a failed or rejected blob) simply stops. Its timeout belongs to NodeState, outside this repository.

Deadlock checking is on for the Supervisor runs. The finished process takes a `Terminated` stuttering step, so only a genuine deadlock is reported.

### Findings (details in `PROJECT.json`)

1. **`mod.rs:447` and `:425`.** `started_modules` is emptied when modules are *asked* to stop, so the shutdown loops end before the last module has stopped. `spec.md` §4.3 says the supervisor waits for each `ShutdownCompleted`.
2. **`mod.rs:416` and `:465`.** `ShutdownCompleted` can be published before `shutdown_loop` subscribes.
   - Before the first subscription, a module's failure is lost and the cascade never starts.
   - After a signal, the cascade can stall for ever: `shut_modules` stays empty, so the 6 s timer does nothing.

   `ShutdownCascades` catches both. The tests see neither because they run on a current-thread runtime.
3. **`genesis.rs:78`.** `genesis.bin` is written before consensus has applied the genesis block (the code's TODO). Crashes of all stakers in that window leave a network that can never start.
4. **`hyle_tld.rs:58`.** The already-registered check exempts `"hyle"`, which genesis re-registers (`genesis.rs:550-563`). Register is open to everyone, so anyone can replace the TLD's record.
5. **`state.rs:69`.** `total_bond` is fixed when a validator bonds. Later delegations raise voting power but not the total that `compute_f` divides.
6. **`utils.rs:100`.** `check_caller_callees` rejects a caller only when the caller has a callees list that lacks this blob, and never checks that the caller is another blob.
   - A blob whose caller has no callees list gets the caller's contract as its identity.
   - So does a blob naming itself as both caller and callee (TLC's counterexample: one `c1` blob naming itself, blob 0, as caller, with callees `None`).
   - A token contract then spends that contract's account. The comment at `utils.rs:99` says the caller must list the blob as a callee.

Also observed, without a run of their own:
- The check `!shut_modules.contains(..)` in `shutdown_next_module` (`mod.rs:449`) can never be false, because `retain` removes shut modules from `started_modules` first.
- In the model, the soft-cap margin protects up to margin+1 concurrent senders, and `bus_pass` checks exactly that many; with one more sender the model breaks `BroadcastRefined`. The real channel has more slack: tokio rounds a broadcast capacity up to a power of two (100000 to 131072, 10000 to 16384), so thousands of slots lie beyond the soft cap and the overrun is not reachable in the code. The model's buffer of exactly `Capacity` is the conservative case.
- **Bus `send` with no receivers (`bus.rs:172`).** The last receiver can be dropped between `send`'s check and its broadcast. `send` then returns `Err`, where its comment documents a no-op `Ok`. The model records the error, and the refinement treats the failed send as a stutter.
- **`verify_native` with a bad secp256k1 signature.** A well-formed blob whose secp256k1 signature does not verify gets `success = false` with the *blob's* identity. Only a malformed blob gets the default identity. `spec.md` scenario 7 says `identity = default`. No property depends on it, because an unsuccessful output never settles.

## 4. Bounds, fairness and why they are enough

- **Supervisor.** Four modules: the one-shot genesis and three long-running modules. Three are needed for a cascade with a middle module, and for a failure arriving while an earlier request is still outstanding. The mix of fail, stuck and signal covers every arm of `select!` and of `shutdown_loop`.
- **Genesis.**
  - The pass run has two stakers and one non-staker with one fault (a crash or a failed save). Two stakers are the smallest network that waits for peers, and the non-staker exercises the filter.
  - The violation run needs two crashes, and is checked on the two stakers alone to keep it small.
  - The generation runs on both stakers with different stakes and keys ordered against names, so a stake sent to the wrong peer, a builder out of order or a missing patch changes the result; the three tokens, two faucet transfers and two stake transactions give 11 blob transactions.
- **HyleTld.** Three transactions of two blobs each reach every handler, every merge (register then update, update then update, delete after register) and every failure. The first transaction can already hijack `"hyle"`.
- **Staking.** Three blocks of two actions each reach bond after stake, stake after delegation, a half-failed block and a panic.
- **Bus.**
  - Two senders and two receivers, capacity 3, margin 1 and two sends per sender.
  - That fills the channel to the soft cap with both senders past their check: the worst case the margin must absorb.
- **Proving.**
  - Two blobs are the smallest transaction with a caller and a callee.
  - Callees lists of up to two entries reach a list whose first entry is wrong but whose second is right. They also reach out-of-range indices (the `index >= len` panic) and duplicates.
  - One native blob with each check outcome, and a contract whose verifier is compiled out, reach every verifier arm.

Fairness:
- **Supervisor.** Weak fairness on the main task, the module tasks and the supervising tasks, used by `ShutdownCascades` (the violation run). Tokio schedules every ready task, and the 5 s sleeps eventually complete. There is none on `Signal` (an operator may never send one) or on `ModuleReturns` (a module need not fail).
- **Genesis.** Weak fairness on every module and consensus step, and on each pair's handshake: p2p keeps retrying connections. There is none on crashes. `Persist` is weakly fair as a whole, so its successful branch need not be taken: a failed save is a fault the crash budget bounds.
- **Bus.** No fairness, and no liveness property. Whether a sender waiting in `send_waiting_if_full` returns depends on its receivers being polled. In the code, a module polls nothing while it handles a message or waits in `send_waiting_if_full` itself, and a receiver without a listen arm is never polled. So the code gives no fairness on receiving that a liveness property could rest on. That is the hazard at `bus.rs:187`, left without a property.
- **HyleTld, Staking, Proving.** Safety only, so no fairness.

## 5. Not modelled, and why

- **`save_on_disk`'s tmp-file race.** Within one process each module persists only its own file from its own task, so the race needs two writers the system does not have. It is listed as a hazard. The save itself is modelled (Genesis `SaveOnDisk`): the target changes only by the rename, so a failure or crash at any earlier step leaves it as it was. The orphaned tmp file is not modelled; nothing reads it.
- **`shutdown_aware` and `shutdown_aware_timeout`.** They cancel a future inside a module's own code. Neither changes state the supervisor model tells apart from `ModuleShutdown`.
- **`verify_recursive_proof` and `validate_program_id`.** Recursive verification decodes a risc0 journal of `(program id, output)` pairs. That journal is opaque to the model, which would have to invent its contents. Program-id validation is a pure pass-through to the backends.
- **`parse_blob`, `init_raw` and the `GuestEnv` I/O.** Raw decoding of one contract's own action. It has no links between blobs, so it adds nothing that `ParseStructuredBlob` does not.
- **The token logic of `hyllar`.** The token contract lives outside this repository, so `Execute` abstracts it to its effect on who is debited, and GenesisTxs to transfers on a balance map. The Hydentity builders are modelled in GenesisTxs; `setup_builder` is wiring.
- **Solo genesis of a non-staker.** In solo mode a node that is not a staker reaches `generate_faucet_txs` and panics on its `expect`. The runs use a network (`Solo = FALSE`); the hazard is listed.
- **Bus internals.** The bus registry's mutex and channel creation take one step, and are not a separate action. Metrics are left out.
- **Fees ledger (`fees.rs`).** Not in this repository; `deposit_for_fees` is a no-op on the modelled state.
- **Consensus, p2p and NodeState settlement.** Outside this repository. They are modelled from `spec.md` only as far as genesis, the TLD and proving need them, and marked `spec_modelled` in the map.
- **The `PersistModule` signal.** It persists mid-run. It is not modelled separately from the final persist.
- **Configuration (`config.rs`).** Type definitions only; the values genesis reads are the Genesis module's constants.

## 6. Plan for further work

1. **Supervisor liveness in the abstract specification.** `SupervisorShutdown` states the safety half of the shutdown promise. Its liveness half would add that the process exits only after all modules have stopped. With today's code that fails, for the reasons in findings 1 and 2.
2. **Genesis meets bonding.** GenesisTxs now gives the staking state after genesis (`GenesisLedger`). What remains is bonding: NodeState and consensus turn it into `new_bounded_validators` (outside this repository), after which every genesis validator should be bonded, and one with less than MIN_STAKE not.
3. **Larger instances.** Proving with three blobs, for chains of calls.
