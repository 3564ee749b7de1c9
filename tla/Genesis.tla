------------------------------ MODULE Genesis -------------------------------
(***************************************************************************)
(* The genesis module of src/genesis.rs on every node of a fresh network,  *)
(* composed with the two collaborators it talks to over the bus: the p2p   *)
(* layer, which publishes PeerEvent::NewPeer when a handshake completes,   *)
(* and consensus, which consumes the GenesisEvent.  Those two are outside  *)
(* this repository and are modelled from the spec, as little as the        *)
(* genesis protocol needs: a handshake delivers the peer's name and        *)
(* whether its chain is past height 0; consensus applies a GenesisBlock    *)
(* and, on NoGenesis, catches up from a connected peer that has the chain. *)
(*                                                                         *)
(* A node may crash and restart: it loses its bus messages, its genesis    *)
(* module's state, its connections and consensus' unapplied event; it      *)
(* keeps genesis.bin and the chain consensus applied.                      *)
(*                                                                         *)
(* Every node has one key (PubKey), so sorting validators by key and the  *)
(* BTreeMap of peers are functions of the set of peers, and so are the     *)
(* genesis transactions: a block is described by its validator set, its   *)
(* transactions those generate_genesis_txs gives for that set.           *)
(***************************************************************************)
EXTENDS Naturals, Sequences, FiniteSets, GenesisTxs

CONSTANTS
    Nodes,       \* the nodes of the network
    Stakers,     \* the keys of config.genesis.stakers, the same on every node
    Solo,        \* config.consensus.solo
    MaxCrashes   \* bound on faults (crash-restarts, failed saves) over the run

ASSUME /\ Stakers \subseteq Nodes /\ Stakers # {}
       /\ Solo \in BOOLEAN /\ MaxCrashes \in Nat
       /\ DOMAIN GenesisStake = Stakers

VARIABLES
    gpc,         \* per node: where its genesis module is
    peerPubkey,  \* per node: Genesis.peer_pubkey (names of the peers it holds)
    inbox,       \* per node: PeerEvents published to its genesis module, unread
    genesisBin,  \* per node: <data_directory>/genesis.bin holds true (durable)
    event,       \* per node: GenesisEvent published, not yet applied by consensus
    synced,      \* per node: consensus holds the genesis block (durable)
    connected,   \* per node: peers with an established p2p connection
    crashes,     \* faults so far: crash-restarts and failed saves
    emitted,     \* history: every GenesisBlock published
    generated    \* GenesisOf for every set of nodes a peer map can hold: a
                 \* pure function, set once so that TLC computes it once

vars == <<gpc, peerPubkey, inbox, genesisBin, event, synced, connected,
          crashes, emitted, generated>>

GenesisPcs == {"start", "waiting", "returned", "failed", "persisted"}

NoEvent   == [kind |-> "none"]
NoGenesis == [kind |-> "NoGenesis"]

NewPeer(p) == [name |-> p, height |-> IF synced[p] THEN 1 ELSE 0]

PeerEvents == [name : Nodes, height : {0, 1}]

(* make_genesis_block: the genesis transactions in one data proposal, and  *)
(* one candidacy per validator sorted by key; the candidacies and the      *)
(* certificate are determined by the validator set.                        *)
\* generate_genesis_txs depends only on the peers it is given: its status,
\* and NodeState's replay of the transactions it gives.
GenesisOf(ps) ==
    LET g == GenerateGenesisTxs(ps)
    IN [status |-> g.status, replay |-> Replay(g.txs)]

GenesisBlock(peers) == [kind |-> "Block", validators |-> peers]

-----------------------------------------------------------------------------
(* The genesis module.                                                     *)

Init ==
    /\ gpc = [n \in Nodes |-> "start"]
    /\ peerPubkey = [n \in Nodes |-> {}]
    /\ inbox = [n \in Nodes |-> <<>>]
    /\ genesisBin = [n \in Nodes |-> FALSE]
    /\ event = [n \in Nodes |-> NoEvent]
    /\ synced = [n \in Nodes |-> FALSE]
    /\ connected = [n \in Nodes |-> {}]
    /\ crashes = 0
    /\ emitted = {}
    /\ generated = [ps \in SUBSET Nodes |-> GenesisOf(ps)]

\* Generate the genesis transactions from peers; publish the block and
\* return Ok, or return the generation's Err (or panic) from run, which
\* run_module does not follow with persist.
EmitBlock(n, peers) ==
    LET g == generated[peers].status
    IN IF g = "ok"
       THEN /\ event' = [event EXCEPT ![n] = GenesisBlock(peers)]
            /\ emitted' = emitted \union {GenesisBlock(peers)}
            /\ UNCHANGED generated
            /\ gpc' = [gpc EXCEPT ![n] = "returned"]
       ELSE /\ gpc' = [gpc EXCEPT ![n] = "failed"]
            /\ UNCHANGED <<event, emitted, generated>>

\* Publish NoGenesis and return from run.
EmitNoGenesis(n) ==
    /\ event' = [event EXCEPT ![n] = NoGenesis]
    /\ gpc' = [gpc EXCEPT ![n] = "returned"]
    /\ UNCHANGED <<emitted, generated>>

\* Fault-injection variant of DoGenesis: waits only when there are more than
\* two stakers.
DoGenesisOffByOne(n) ==
    IF ~Solo /\ n \notin Stakers
    THEN EmitNoGenesis(n) /\ UNCHANGED peerPubkey
    ELSE /\ peerPubkey' = [peerPubkey EXCEPT ![n] = {n}]
         /\ IF ~Solo /\ Cardinality(Stakers) > 2
            THEN gpc' = [gpc EXCEPT ![n] = "waiting"] /\ UNCHANGED <<event, emitted, generated>>
            ELSE EmitBlock(n, {n})

\* do_genesis up to the wait: a node that is not a genesis staker (and not
\* solo) catches up; otherwise it records its own key and either waits for
\* the other stakers or builds the block alone.
DoGenesis(n) ==
    IF ~Solo /\ n \notin Stakers
    THEN EmitNoGenesis(n) /\ UNCHANGED peerPubkey
    ELSE /\ peerPubkey' = [peerPubkey EXCEPT ![n] = {n}]
         /\ IF ~Solo /\ Cardinality(Stakers) > 1
            THEN gpc' = [gpc EXCEPT ![n] = "waiting"] /\ UNCHANGED <<event, emitted, generated>>
            ELSE EmitBlock(n, {n})

\* load_from_disk: opening a missing file gives None; a present file is
\* decoded.  genesis.bin only ever appears by the rename of a complete tmp
\* file (save_on_disk), so a present file decodes to true.  The Option is
\* the set of its values.
LoadFromDisk(n) == IF genesisBin[n] THEN {TRUE} ELSE {}

\* load_from_disk_or_default: None gives bool::default(), false.
LoadFromDiskOrDefault(n) ==
    IF LoadFromDisk(n) = {} THEN FALSE ELSE CHOOSE v \in LoadFromDisk(n) : TRUE

\* start: skip genesis when genesis.bin says it was handled.
Start(n) ==
    /\ gpc[n] = "start"
    /\ IF LoadFromDiskOrDefault(n)
       THEN EmitNoGenesis(n) /\ UNCHANGED peerPubkey
       ELSE DoGenesis(n)
    /\ UNCHANGED <<inbox, genesisBin, synced, connected, crashes>>

\* Fault-injection variant of ReceivePeer: waits for one peer too many.
ReceivePeerOffByOne(n) ==
    /\ gpc[n] = "waiting"
    /\ inbox[n] # <<>>
    /\ inbox' = [inbox EXCEPT ![n] = Tail(@)]
    /\ LET e == Head(inbox[n])
           ps == peerPubkey[n] \union {e.name}
       IN CASE e.name \notin Stakers ->
                   UNCHANGED <<gpc, peerPubkey, event, emitted, generated>>
            [] e.height > 0 ->
                   EmitNoGenesis(n) /\ UNCHANGED peerPubkey
            [] OTHER ->
                   /\ peerPubkey' = [peerPubkey EXCEPT ![n] = ps]
                   /\ IF Cardinality(ps) = Cardinality(Stakers) + 1
                      THEN EmitBlock(n, ps)
                      ELSE UNCHANGED <<gpc, event, emitted, generated>>
    /\ UNCHANGED <<genesisBin, synced, connected, crashes>>

\* Fault-injection variant of ReceivePeer: does not filter non-stakers.
ReceivePeerAnyone(n) ==
    /\ gpc[n] = "waiting"
    /\ inbox[n] # <<>>
    /\ inbox' = [inbox EXCEPT ![n] = Tail(@)]
    /\ LET e == Head(inbox[n])
           ps == peerPubkey[n] \union {e.name}
       IN CASE e.height > 0 ->
                   EmitNoGenesis(n) /\ UNCHANGED peerPubkey
            [] OTHER ->
                   /\ peerPubkey' = [peerPubkey EXCEPT ![n] = ps]
                   /\ IF Cardinality(ps) = Cardinality(Stakers)
                      THEN EmitBlock(n, ps)
                      ELSE UNCHANGED <<gpc, event, emitted, generated>>
    /\ UNCHANGED <<genesisBin, synced, connected, crashes>>

\* The PeerEvent arm of the wait loop: ignore non-stakers, give up on genesis
\* when a staker is past height 0, otherwise record the peer and build the
\* block once every staker is known.
ReceivePeer(n) ==
    /\ gpc[n] = "waiting"
    /\ inbox[n] # <<>>
    /\ inbox' = [inbox EXCEPT ![n] = Tail(@)]
    /\ LET e == Head(inbox[n])
           ps == peerPubkey[n] \union {e.name}
       IN CASE e.name \notin Stakers ->
                   UNCHANGED <<gpc, peerPubkey, event, emitted, generated>>
            [] e.height > 0 ->
                   EmitNoGenesis(n) /\ UNCHANGED peerPubkey
            [] OTHER ->
                   /\ peerPubkey' = [peerPubkey EXCEPT ![n] = ps]
                   /\ IF Cardinality(ps) = Cardinality(Stakers)
                      THEN EmitBlock(n, ps)
                      ELSE UNCHANGED <<gpc, event, emitted, generated>>
    /\ UNCHANGED <<genesisBin, synced, connected, crashes>>

\* save_on_disk(genesis.bin, &true): create a salted tmp file, write and
\* flush it, then rename it over genesis.bin.  Any of the four steps may
\* return Err (ok = FALSE); genesis.bin is then left as it was, since only
\* the rename touches it.  A crash before the rename is the same as an Err
\* here, with the tmp file left behind.
SaveOnDisk(n, ok) ==
    genesisBin' = [genesisBin EXCEPT ![n] = IF ok THEN TRUE ELSE @]

\* run returned Ok, so run_module calls persist, whose save_on_disk result
\* is logged and returned: run_module ends Ok ("persisted") or Err ("failed").
Persist(n) ==
    /\ gpc[n] = "returned"
    /\ \/ /\ SaveOnDisk(n, TRUE)
          /\ gpc' = [gpc EXCEPT ![n] = "persisted"]
          /\ UNCHANGED crashes
       \/ /\ crashes < MaxCrashes
          /\ crashes' = crashes + 1
          /\ SaveOnDisk(n, FALSE)
          /\ gpc' = [gpc EXCEPT ![n] = "failed"]
    /\ UNCHANGED <<peerPubkey, inbox, event, synced, connected, emitted, generated>>

-----------------------------------------------------------------------------
(* The collaborators, from the spec.                                       *)

\* p2p handshake between n and p: each side publishes NewPeer for the other;
\* a genesis module that has finished has dropped its receiver.
Listening(n) == gpc[n] \in {"start", "waiting"}

Connect(n, p) ==
    /\ n # p
    /\ p \notin connected[n]
    /\ connected' = [connected EXCEPT ![n] = @ \union {p}, ![p] = @ \union {n}]
    /\ inbox' = [inbox EXCEPT
                    ![n] = IF Listening(n) THEN Append(@, NewPeer(p)) ELSE @,
                    ![p] = IF Listening(p) THEN Append(@, NewPeer(n)) ELSE @]
    /\ UNCHANGED <<gpc, peerPubkey, genesisBin, event, synced, crashes, emitted, generated>>

\* Consensus applies the genesis block it received.
ApplyGenesis(n) ==
    /\ event[n].kind = "Block"
    /\ synced' = [synced EXCEPT ![n] = TRUE]
    /\ event' = [event EXCEPT ![n] = NoEvent]
    /\ UNCHANGED <<gpc, peerPubkey, inbox, genesisBin, connected, crashes, emitted, generated>>

\* On NoGenesis, consensus catches up from a connected peer that has the chain.
CatchUp(n) ==
    /\ event[n].kind = "NoGenesis"
    /\ \E p \in connected[n] : synced[p]
    /\ synced' = [synced EXCEPT ![n] = TRUE]
    /\ event' = [event EXCEPT ![n] = NoEvent]
    /\ UNCHANGED <<gpc, peerPubkey, inbox, genesisBin, connected, crashes, emitted, generated>>

\* The node crashes and restarts: volatile state is lost, the module starts again.
Crash(n) ==
    /\ crashes < MaxCrashes
    /\ crashes' = crashes + 1
    /\ gpc' = [gpc EXCEPT ![n] = "start"]
    /\ peerPubkey' = [peerPubkey EXCEPT ![n] = {}]
    /\ inbox' = [inbox EXCEPT ![n] = <<>>]
    /\ event' = [event EXCEPT ![n] = NoEvent]
    /\ connected' = [q \in Nodes |-> IF q = n THEN {} ELSE connected[q] \ {n}]
    /\ UNCHANGED <<genesisBin, synced, emitted, generated>>

Next ==
    \/ \E n \in Nodes :
        \/ Start(n) \/ ReceivePeer(n) \/ Persist(n)
        \/ ApplyGenesis(n) \/ CatchUp(n) \/ Crash(n)
    \/ \E n, p \in Nodes : Connect(n, p)

(* Every task is scheduled and every pair of nodes eventually connects;    *)
(* crashes are not forced.                                                 *)
Fairness ==
    \A n \in Nodes :
        /\ WF_vars(Start(n)) /\ WF_vars(ReceivePeer(n)) /\ WF_vars(Persist(n))
        /\ WF_vars(ApplyGenesis(n)) /\ WF_vars(CatchUp(n))
        /\ \A p \in Nodes : WF_vars(Connect(n, p))

Spec == Init /\ [][Next]_vars /\ Fairness

-----------------------------------------------------------------------------
(* Properties                                                              *)


TypeOK ==
    /\ gpc \in [Nodes -> GenesisPcs]
    /\ peerPubkey \in [Nodes -> SUBSET Stakers]
    /\ inbox \in [Nodes -> Seq(PeerEvents)]
    /\ genesisBin \in [Nodes -> BOOLEAN] /\ synced \in [Nodes -> BOOLEAN]
    /\ event \in [Nodes -> {NoEvent, NoGenesis} \union emitted]
    /\ connected \in [Nodes -> SUBSET Nodes]
    /\ crashes \in 0..MaxCrashes
    /\ \A ps \in SUBSET Nodes : generated[ps].status \in {"ok", "err", "panic"}
    /\ \A b \in emitted : b.kind = "Block" /\ b.validators \subseteq Stakers

(* Every GenesisBlock any node publishes, whatever the order, duplication  *)
(* and staleness of the NewPeer events it saw and whatever crashes came    *)
(* between, has exactly the genesis stakers as validators: all nodes       *)
(* publish the same block.                                                 *)
GenesisBlockAgreed ==
    \A b \in emitted : b.validators = Stakers

(* The genesis block's transactions all settle when NodeState applies     *)
(* them in block order from the states the registration transaction gives  *)
(* the contracts: each proof has an output for every blob of its          *)
(* transaction, and each output starts from the state its contract is in  *)
(* at that point.  The outputs were computed ahead by one executor in      *)
(* generation order, and those of the SMT token transactions patched in   *)
(* by hand (generate_token_txs), so this holds only if the block keeps     *)
(* that order and every patch.                                             *)
GenesisTxsSettle ==
    \A b \in emitted : generated[b.validators].replay.ok

(* After the genesis block the ledgers back the validators: each genesis  *)
(* validator's key is delegated exactly its configured stake, the staking *)
(* contract holds in hyllar every stake and fee deposit, no validator's    *)
(* identity keeps a token of what the faucet sent it, and the faucet is    *)
(* drained to hyli@wallet unless keep_tokens_in_faucet is set.             *)
GenesisLedger ==
    \A b \in emitted :
        LET reg  == generated[b.validators].replay.reg
            paid == FoldSet(LAMBDA p, acc : acc + GenesisStake[p] + FeeDeposit,
                            0, b.validators)
        IN /\ \A p \in b.validators :
                 /\ Stk!IsKnown(reg.staking, PubKey[p])
                 /\ Stk!GetStake(reg.staking, PubKey[p]) = GenesisStake[p]
                 /\ Balance(reg.hyllar, p) = 0
           /\ Balance(reg.hyllar, "staking") = paid
           /\ Balance(reg.hyllar, Faucet) = IF KeepTokens THEN FaucetSupply - paid ELSE 0

(* The network starts: every node eventually holds the genesis block.      *)
NetworkStarts ==
    <>(\A n \in Nodes : synced[n])

=============================================================================
