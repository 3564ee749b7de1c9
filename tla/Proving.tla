------------------------------ MODULE Proving --------------------------------
(***************************************************************************)
(* One blob transaction from proof to settlement.  Each contract blob is   *)
(* proven by its contract's guest (crates/contracts/hyllar/src/main.rs:   *)
(* read, execute, sdk::guest::commit), whose execute starts with           *)
(* init_with_caller (crates/contract-sdk/src/guest.rs, utils.rs): parse   *)
(* the blob as StructuredBlobData and resolve the identity the contract   *)
(* acts for from the caller/callees links between the blobs.  The node    *)
(* verifies each proof with verify_proof and each native blob with        *)
(* verify_native (src/mempool/verifiers.rs); the transaction settles when *)
(* every blob has a successful output (NodeState, modelled from the spec).*)
(*                                                                         *)
(* Blobs are indexed from 0 as BlobIndex is.  A blob's data is either a   *)
(* StructuredBlobData (caller, callees; the parameters are left out) or   *)
(* "raw" bytes that do not decode as one.  A contract's state change is   *)
(* abstracted to the account it debits: the identity init_with_caller     *)
(* returned, which is what a token contract spends from.                  *)
(***************************************************************************)
EXTENDS Naturals, Sequences, SequencesExt

CONSTANTS
    Contracts,    \* contract names of contract blobs
    Natives,      \* native verifier contracts (blst, sha3_256, secp256k1)
    Identities,   \* identities a native blob may carry
    TxIdentity,   \* the transaction's identity
    VerifierOf,   \* the verifier tag each contract is registered with
    SP1,          \* the "sp1" feature is compiled in
    MaxBlobs,     \* bound on blobs per transaction
    MaxCallees,   \* bound on the length of a callees list
    None,         \* Option::None, and "no output yet"
    Raw,          \* blob data that does not decode as StructuredBlobData
    Panicked,     \* the guest panicked: nothing was committed
    Rejected      \* the node rejected the proof

ASSUME TxIdentity \in Identities /\ MaxBlobs \in Nat \ {0}

DefaultIdentity == "default"

\* A BlobIndex a blob may name; MaxBlobs - 1 is past the end of a shorter tx.
Refs == 0..(MaxBlobs - 1)

CalleeLists == UNION {[1..k -> Refs] : k \in 0..MaxCallees}
StructuredData == [caller : Refs \union {None}, callees : CalleeLists \union {None}]

ContractBlobs == [contract : Contracts, data : StructuredData \union {Raw}]
NativeBlobs == [contract : Natives, data : {Raw}, identity : Identities,
                check : {"valid", "invalid", "malformed"}]

Txs == UNION {[0..(n - 1) -> ContractBlobs \union NativeBlobs] : n \in 1..MaxBlobs}

\* Outcomes of a Rust call: Ok(v), Err(message), or a panic.
OkV(v) == [kind |-> "ok", val |-> v]
Err    == [kind |-> "err"]
Panic  == [kind |-> "panic"]

\* A HyleOutput: the blob, the transaction identity, success, and the next
\* state as "initial" (unchanged) or the account the execution debited.
Output(i, id, ok, next) ==
    [index |-> i, identity |-> id, success |-> ok, next |-> next]

VARIABLES
    blobs,        \* the transaction's blobs (fixed by Init)
    committed,    \* per contract blob: None, Panicked, or the committed HyleOutput
    verified,     \* per blob: None, Rejected, or the output the node accepted
    settled       \* NodeState settled the transaction

vars == <<blobs, committed, verified, settled>>

-----------------------------------------------------------------------------
(* The guest side.                                                         *)

\* parse_structured_blob: None past the end, a panic when the blob is not
\* a StructuredBlob.
ParseStructuredBlob(bs, i) ==
    IF i \notin DOMAIN bs THEN [kind |-> "none"]
    ELSE IF bs[i].data = Raw THEN Panic
    ELSE OkV(bs[i].data)

\* The callee loop of check_caller_callees: input.blobs[k] panics past the
\* end, try_into().expect panics on a non-structured blob, and the first
\* callee not naming this blob as its caller is an error.
RECURSIVE CheckCallees(_, _, _)
CheckCallees(bs, i, cs) ==
    IF cs = <<>> THEN OkV(None)
    ELSE LET k == Head(cs)
         IN IF k \notin DOMAIN bs \/ bs[k].data = Raw THEN Panic
            ELSE IF bs[k].data.caller # i THEN Err
            ELSE CheckCallees(bs, i, Tail(cs))

\* check_caller_callees: the callees must name this blob as caller; a
\* caller that lists callees must list this blob; the identity is the
\* caller's contract name, or the transaction identity without a caller.
CheckCallerCallees(bs, i, d) ==
    LET c == IF d.callees = None THEN OkV(None) ELSE CheckCallees(bs, i, d.callees)
        j == d.caller
    IN IF c.kind # "ok" THEN c
       ELSE IF j = None THEN OkV(TxIdentity)
       ELSE IF j \notin DOMAIN bs \/ bs[j].data = Raw THEN Panic
       ELSE IF bs[j].data.callees # None /\ i \notin ToSet(bs[j].data.callees)
            THEN Err
       ELSE OkV(bs[j].contract)

\* init_with_caller
InitWithCaller(bs, i) ==
    LET p == ParseStructuredBlob(bs, i)
    IN CASE p.kind = "none"  -> Err
         [] p.kind = "panic" -> Panic
         [] OTHER            -> CheckCallerCallees(bs, i, p.val)

\* The contract's execute (outside this repository): init_with_caller, then
\* the contract's own logic fails, leaves the state, or debits the caller.
Execute(bs, i, e) ==
    LET r == InitWithCaller(bs, i)
    IN IF r.kind # "ok" THEN r
       ELSE CASE e = "fail"  -> Err
              [] e = "noop"  -> OkV("initial")
              [] OTHER       -> OkV(r.val)

\* guest::fail: the initial state as next state, success false.
Fail(i) == Output(i, TxIdentity, FALSE, "initial")

\* as_hyle_output
AsHyleOutput(i, res) ==
    IF res.kind = "ok" THEN Output(i, TxIdentity, TRUE, res.val) ELSE Fail(i)

\* The guest's main and guest::commit: a panic commits nothing.
GuestMain(bs, i, e) ==
    LET res == Execute(bs, i, e)
    IN IF res.kind = "panic" THEN Panicked ELSE AsHyleOutput(i, res)

-----------------------------------------------------------------------------
(* The node side.                                                          *)

\* verify_proof: dispatch on the verifier tag.  The proof is the honest
\* proof of the guest's journal, a single HyleOutput; "test" decodes the
\* canned list from the proof bytes, "sp1-4" exists only with the feature.
VerifyProof(tag, out) ==
    CASE tag \in {"test", "risc0-1", "noir"} -> OkV(<<out>>)
      [] tag = "sp1-4" /\ SP1              -> OkV(<<out>>)
      [] OTHER                             -> Err

\* verify_native_impl: a blob that does not decode (or whose key or
\* signature bytes do not parse) is an error; otherwise the blob's identity
\* and whether the signature or hash checks.
VerifyNativeImpl(b) ==
    CASE b.check = "malformed" -> Err
      [] b.check = "valid"     -> OkV([identity |-> b.identity, success |-> TRUE])
      [] OTHER                 -> OkV([identity |-> b.identity, success |-> FALSE])

\* Fault-injection variant of VerifyNative: an error leaves the identity unset.
VerifyNativeUnset(bs, i) ==
    LET r == VerifyNativeImpl(bs[i])
    IN IF r.kind = "ok" THEN Output(i, r.val.identity, r.val.success, "initial")
       ELSE Output(i, None, FALSE, "initial")

\* verify_native: an error becomes (Identity::default(), false); the state
\* commitments are the default ones.
VerifyNative(bs, i) ==
    LET r == VerifyNativeImpl(bs[i])
    IN IF r.kind = "ok" THEN Output(i, r.val.identity, r.val.success, "initial")
       ELSE Output(i, DefaultIdentity, FALSE, "initial")

IsOutput(o) == o \notin {None, Panicked, Rejected}

Init ==
    /\ blobs \in Txs
    /\ committed = [i \in DOMAIN blobs |-> None]
    /\ verified = [i \in DOMAIN blobs |-> None]
    /\ settled = FALSE

\* The prover runs the guest of contract blob i.
Prove(i) ==
    /\ blobs[i].contract \in Contracts
    /\ committed[i] = None
    /\ \E e \in {"fail", "noop", "debit"} :
          committed' = [committed EXCEPT ![i] = GuestMain(blobs, i, e)]
    /\ UNCHANGED <<blobs, verified, settled>>

\* The node verifies the proof of blob i with its contract's verifier and
\* records each output for the blob it names.
SubmitProof(i) ==
    /\ IsOutput(committed[i])
    /\ verified[i] = None
    /\ LET r == VerifyProof(VerifierOf[blobs[i].contract], committed[i])
       IN verified' = IF r.kind = "ok"
                      THEN [k \in DOMAIN verified |->
                              IF \E p \in DOMAIN r.val : r.val[p].index = k
                              THEN CHOOSE o \in ToSet(r.val) : o.index = k
                              ELSE verified[k]]
                      ELSE [verified EXCEPT ![i] = Rejected]
    /\ UNCHANGED <<blobs, committed, settled>>

\* The node checks native blob i.
CheckNative(i) ==
    /\ blobs[i].contract \in Natives
    /\ verified[i] = None
    /\ verified' = [verified EXCEPT ![i] = VerifyNative(blobs, i)]
    /\ UNCHANGED <<blobs, committed, settled>>

\* NodeState settles the transaction once every blob has a successful output.
Settle ==
    /\ ~settled
    /\ \A i \in DOMAIN blobs : IsOutput(verified[i]) /\ verified[i].success
    /\ settled' = TRUE
    /\ UNCHANGED <<blobs, committed, verified>>

Next ==
    \/ \E i \in DOMAIN blobs : Prove(i) \/ SubmitProof(i) \/ CheckNative(i)
    \/ Settle

Spec == Init /\ [][Next]_vars

-----------------------------------------------------------------------------
(* Properties                                                              *)

Outputs == [index : Refs, identity : Identities \union {DefaultIdentity},
            success : BOOLEAN, next : {"initial"} \union Identities \union Contracts]

TypeOK ==
    /\ blobs \in Txs
    /\ committed \in [DOMAIN blobs -> Outputs \union {None, Panicked}]
    /\ verified \in [DOMAIN blobs -> Outputs \union {None, Rejected}]
    /\ settled \in BOOLEAN

\* The caller/callees links of a blob as check_caller_callees reads them.
Structured(k) == k \in DOMAIN blobs /\ blobs[k].data # Raw
CalleesOf(k) == IF blobs[k].data.callees = None THEN {} ELSE ToSet(blobs[k].data.callees)

(* A settled transaction debits a contract's account only on that          *)
(* contract's behalf: the blob acting for contract C names as its caller  *)
(* another blob of C that lists it among its callees (the comment at       *)
(* utils.rs:99, "Check that caller has this blob as callee").             *)
CallerAuthentic ==
    settled =>
      \A i \in DOMAIN blobs :
        verified[i].next \in Contracts =>
          \E j \in DOMAIN blobs \ {i} :
             /\ blobs[j].contract = verified[i].next
             /\ Structured(j) /\ i \in CalleesOf(j)
             /\ blobs[i].data.caller = j

=============================================================================
