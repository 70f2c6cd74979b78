----------------------------- MODULE PeggyBridge -----------------------------
(***************************************************************************)
(* What the bridge promises, with the relayers, their accounts and the    *)
(* mempool abstracted away: the Cosmos chain builds batches and valsets    *)
(* and its validators confirm them; the Peggy contract executes a signed   *)
(* batch, which supersedes every earlier batch of its token, and moves    *)
(* its validator set forward to a confirmed one.  Nothing ever moves      *)
(* back: a batch once executed stays executed, and the contract's valset  *)
(* nonce only grows (§3, §4.2, §4.3 of the spec).                         *)
(***************************************************************************)
EXTENDS Naturals

CONSTANTS
    Tokens,      \* ERC20 contracts bridged by the Peggy contract
    NumBatches,  \* the Cosmos module builds batches 1..NumBatches
    BatchToken,  \* BatchToken[n]: token contract of batch n
    NumValsets   \* the Cosmos chain produces valsets 1..NumValsets

Batches == 1..NumBatches

VARIABLES
    created,    \* batches 1..created exist on Cosmos
    signed,     \* batches whose confirmations reach the threshold
    executed,   \* batches executed on Ethereum or superseded there
    latest,     \* nonce of the latest Cosmos valset
    confirmed,  \* valsets whose confirmations suffice
    valset      \* nonce of the validator set the contract holds

vars == <<created, signed, executed, latest, confirmed, valset>>

Init ==
    /\ created = 0
    /\ signed = {}
    /\ executed = {}
    /\ latest = 0
    /\ confirmed = {}
    /\ valset = 0

CreateBatch ==
    /\ created < NumBatches
    /\ created' = created + 1
    /\ UNCHANGED <<signed, executed, latest, confirmed, valset>>

SignBatch(b) ==
    /\ b \in 1..created
    /\ signed' = signed \cup {b}
    /\ UNCHANGED <<created, executed, latest, confirmed, valset>>

(* Executing b makes every batch of b's token up to b obsolete.           *)
ExecuteBatch(b) ==
    /\ b \in signed \ executed
    /\ executed' = executed \cup
                     {c \in Batches : BatchToken[c] = BatchToken[b] /\ c <= b}
    /\ UNCHANGED <<created, signed, latest, confirmed, valset>>

CreateValset ==
    /\ latest < NumValsets
    /\ latest' = latest + 1
    /\ UNCHANGED <<created, signed, executed, confirmed, valset>>

ConfirmValset(v) ==
    /\ v \in 1..latest
    /\ confirmed' = confirmed \cup {v}
    /\ UNCHANGED <<created, signed, executed, latest, valset>>

(* The contract takes a confirmed valset newer than its own.              *)
UpdateValset(v) ==
    /\ v \in confirmed
    /\ v > valset
    /\ valset' = v
    /\ UNCHANGED <<created, signed, executed, latest, confirmed>>

Next ==
    \/ CreateBatch
    \/ \E b \in Batches : SignBatch(b) \/ ExecuteBatch(b)
    \/ CreateValset
    \/ \E v \in 1..NumValsets : ConfirmValset(v) \/ UpdateValset(v)

Spec == Init /\ [][Next]_vars
=============================================================================
