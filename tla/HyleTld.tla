------------------------------ MODULE HyleTld -------------------------------
(***************************************************************************)
(* The contract registry governed by the privileged "hyle" contract:       *)
(* crates/hyle-modules/src/node_state/hyle_tld.rs.  A transaction is an    *)
(* identity and a sequence of blobs on "hyle".  Admission runs             *)
(* validate_hyle_contract_blobs; settlement runs handle_blob_for_hyle_tld  *)
(* on each blob in order, accumulating contract_changes, and either the    *)
(* whole transaction fails or its changes are committed to the registry.   *)
(* The settlement loop, the commit and the two helpers the handlers call   *)
(* (validate_contract_registration_metadata, NodeState::get_contract) are  *)
(* NodeState code outside this repository and are modelled from the spec. *)
(*                                                                         *)
(* A contract record is abstracted to the two fields the handlers change,  *)
(* program id and timeout window; ModifiedContractFields is left out (the  *)
(* side-effect list says the same).                                        *)
(***************************************************************************)
EXTENDS Naturals, Sequences, TLC

CONSTANTS
    Names,        \* contract names
    Parent,       \* Parent[c]: the domain c is a direct subdomain of, or NoParent
    NoParent,
    Identities,   \* transaction identities, HYLI_TLD_ID among them
    ProgramIds,
    Windows,      \* timeout windows, DefaultWindow among them
    DefaultWindow,
    HyleRecord,   \* the "hyle" contract as node state creates it
    MaxTxs,       \* bound on settled transactions
    MaxBlobs      \* bound on blobs per transaction

HYLI_TLD_ID == "hyli@wallet"

ASSUME /\ "hyle" \in Names /\ HYLI_TLD_ID \in Identities
       /\ DefaultWindow \in Windows /\ MaxTxs \in Nat /\ MaxBlobs \in Nat \ {0}

VARIABLES
    contracts,    \* the registry: name -> [program, window]
    log,          \* committed side effects: [name, effect, identity]
    txs,          \* transactions submitted so far
    lastId        \* history: the identity of the last transaction submitted

vars == <<contracts, log, txs, lastId>>

Records == [program : ProgramIds, window : Windows]

\* A blob on "hyle": which StructuredBlobData it decodes as, and its parameters.
\* A register's timeout window is optional.
Blobs ==
    [action : {"register"}, name : Names, program : ProgramIds,
     window : Windows \union {"None"}]
    \union [action : {"delete"}, name : Names]
    \union [action : {"update_program_id"}, name : Names, program : ProgramIds]
    \union [action : {"update_timeout_window"}, name : Names, window : Windows]
    \union [action : {"other"}]

Fail == [ok |-> FALSE]
Ok(ch) == [ok |-> TRUE, changes |-> ch]

NoRecord == [program |-> "none", window |-> "none"]

-----------------------------------------------------------------------------
(* The handlers.  ch is contract_changes for the transaction so far:       *)
(* name -> [status, contract, effects].                                    *)

\* validate_contract_registration_metadata with owner "hyle": the name is a
\* TLD or a direct subdomain of "hyle".
ValidRegistration(c) == Parent[c] \in {NoParent, "hyle"}

\* NodeState::get_contract: the pending change wins, a pending delete fails.
GetContract(ch, c) ==
    IF c \in DOMAIN ch
    THEN IF ch[c].status = "Updated" THEN Ok(ch[c].contract) ELSE Fail
    ELSE IF c \in DOMAIN contracts THEN Ok(contracts[c]) ELSE Fail

\* Fault-injection variant of HandleRegister: stores the window without
\* unwrap_or_default.
HandleRegisterNoDefault(ch, b) ==
    IF ~ValidRegistration(b.name)
       \/ (b.name # "hyle" /\ b.name \in DOMAIN contracts)
       \/ b.name \in DOMAIN ch
    THEN Fail
    ELSE Ok((b.name :> [status |-> "Updated",
                        contract |-> [program |-> b.program, window |-> b.window],
                        effects |-> <<"Register">>]) @@ ch)

\* The name must be valid, and neither registered (except "hyle", as the
\* conditions at line 58 group) nor pending in this transaction.
HandleRegister(ch, b) ==
    IF ~ValidRegistration(b.name)
       \/ (b.name # "hyle" /\ b.name \in DOMAIN contracts)
       \/ b.name \in DOMAIN ch
    THEN Fail
    ELSE Ok((b.name :> [status |-> "Updated",
                        contract |-> [program |-> b.program,
                                      window |-> IF b.window = "None"
                                                 THEN DefaultWindow ELSE b.window],
                        effects |-> <<"Register">>]) @@ ch)

HandleDelete(ch, b) ==
    IF b.name = "hyle" \/ ~(b.name \in DOMAIN contracts \/ b.name \in DOMAIN ch)
    THEN Fail
    ELSE Ok((b.name :> [status |-> "Deleted", contract |-> NoRecord,
                        effects |-> <<"Delete">>]) @@ ch)

\* The entry().and_modify().or_insert_with() merge shared by both updates:
\* set field to v in a pending Updated record (a pending Deleted keeps its
\* status), append the side effect; else insert the registered contract
\* with field changed.
MergeUpdate(ch, c, field, v, effect) ==
    LET g == GetContract(ch, c)
    IN IF c = "hyle" \/ ~g.ok THEN Fail
       ELSE IF c \in DOMAIN ch
       THEN Ok([ch EXCEPT ![c].contract =
                              IF ch[c].status = "Updated"
                              THEN [@ EXCEPT ![field] = v] ELSE @,
                          ![c].effects = Append(@, effect)])
       ELSE Ok((c :> [status |-> "Updated",
                      contract |-> [g.changes EXCEPT ![field] = v],
                      effects |-> <<effect>>]) @@ ch)

HandleUpdateProgramId(ch, b) ==
    MergeUpdate(ch, b.name, "program", b.program, "UpdateProgramId")

HandleUpdateTimeoutWindow(ch, b) ==
    MergeUpdate(ch, b.name, "window", b.window, "UpdateTimeoutWindow")

\* handle_blob_for_hyle_tld: dispatch on the action the blob decodes as.
HandleBlob(ch, b) ==
    CASE b.action = "register"              -> HandleRegister(ch, b)
      [] b.action = "delete"                -> HandleDelete(ch, b)
      [] b.action = "update_program_id"     -> HandleUpdateProgramId(ch, b)
      [] b.action = "update_timeout_window" -> HandleUpdateTimeoutWindow(ch, b)
      [] OTHER                              -> Fail

Privileged == {"delete", "update_program_id", "update_timeout_window"}

\* Fault-injection variant: the timeout-window action is treated as open,
\* like register.
ValidateTimeoutOpen(id, bs) ==
    \A i \in DOMAIN bs :
        /\ bs[i].action \in Privileged \ {"update_timeout_window"} => id = HYLI_TLD_ID
        /\ bs[i].action # "other"

\* validate_hyle_contract_blobs: privileged actions need HYLI_TLD_ID,
\* register is open, anything else is refused.
ValidateHyleContractBlobs(id, bs) ==
    \A i \in DOMAIN bs :
        /\ bs[i].action \in Privileged => id = HYLI_TLD_ID
        /\ bs[i].action # "other"

\* NodeState's settlement: handle the blobs in order, stop at the first error.
RECURSIVE ApplyBlobs(_, _)
ApplyBlobs(ch, bs) ==
    IF bs = <<>> THEN Ok(ch)
    ELSE LET r == HandleBlob(ch, Head(bs))
         IN IF r.ok THEN ApplyBlobs(r.changes, Tail(bs)) ELSE r

\* NodeState's commit of contract_changes.
Commit(ch) ==
    LET kept == {c \in DOMAIN contracts \union DOMAIN ch :
                    c \notin DOMAIN ch \/ ch[c].status = "Updated"}
    IN [c \in kept |-> IF c \in DOMAIN ch THEN ch[c].contract ELSE contracts[c]]

EffectsOf(ch, id) ==
    UNION {{[name |-> c, effect |-> ch[c].effects[i], identity |-> id] :
                i \in DOMAIN ch[c].effects} : c \in DOMAIN ch}

-----------------------------------------------------------------------------

Init ==
    /\ contracts = ("hyle" :> HyleRecord)
    /\ log = {}
    /\ txs = 0
    /\ lastId = HYLI_TLD_ID

\* A transaction with identity id and blobs bs on "hyle" is submitted: it is
\* refused at admission, fails at settlement, or its changes are committed.
SubmitTx(id, bs) ==
    /\ txs < MaxTxs
    /\ txs' = txs + 1
    /\ lastId' = id
    /\ LET r == ApplyBlobs(<<>>, bs)
       IN IF ValidateHyleContractBlobs(id, bs) /\ r.ok
          THEN /\ contracts' = Commit(r.changes)
               /\ log' = log \union EffectsOf(r.changes, id)
          ELSE UNCHANGED <<contracts, log>>

TxBlobs == UNION {[1..k -> Blobs] : k \in 1..MaxBlobs}

Next == \E id \in Identities, bs \in TxBlobs : SubmitTx(id, bs)

Spec == Init /\ [][Next]_vars

-----------------------------------------------------------------------------
(* Properties                                                              *)

TypeOK ==
    /\ DOMAIN contracts \subseteq Names
    /\ \A c \in DOMAIN contracts : contracts[c] \in Records
    /\ log \subseteq [name : Names, identity : Identities,
                      effect : {"Register", "Delete", "UpdateProgramId",
                                "UpdateTimeoutWindow"}]
    /\ txs \in 0..MaxTxs /\ lastId \in Identities

(* Outside "hyle" (whose re-registration the tld_hijack run shows), a     *)
(* contract that exists is deleted, or has its program id or timeout       *)
(* window changed, only by a transaction of hyli@wallet: admission         *)
(* (validate_hyle_contract_blobs), the already-registered check of         *)
(* handle_register_blob, the merges of the two updates over pending        *)
(* changes and the all-or-nothing commit together leave every other        *)
(* identity nothing but registrations of fresh names.  It is stated on the *)
(* registry, whatever side effect the change is logged as.                 *)
RegistryChangedOnlyByTld ==
    [][\A c \in DOMAIN contracts \ {"hyle"} :
          (c \notin DOMAIN contracts' \/ contracts'[c] # contracts[c])
              => lastId' = HYLI_TLD_ID
      ]_vars

(* The "hyle" TLD keeps the record node state created: no transaction      *)
(* deletes, updates or re-registers it.                                    *)
HyleIntact ==
    "hyle" \in DOMAIN contracts /\ contracts["hyle"] = HyleRecord

=============================================================================
