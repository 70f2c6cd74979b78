-------------------------- MODULE BatchRelayProofs --------------------------
(***************************************************************************)
(* Proofs about BatchRelay that hold for every value of the constants:     *)
(* type correctness, and that no relayer ever puts a batch whose           *)
(* confirmations fall short of the threshold into the Ethereum mempool.    *)
(***************************************************************************)
EXTENDS BatchRelay, MinLemmas, TLAPS

(***************************************************************************)
(* TypeOK is not inductive alone: GetSigs takes the least element of todo, *)
(* which must then be non-empty, and the steps after it index BatchToken   *)
(* and build a transaction with cur, which must then be a batch. The       *)
(* invariant is split into the chains' part and the relayers' part, since  *)
(* a relayer step leaves the first alone but for the fault counter.        *)
(***************************************************************************)
ChainInv ==
    /\ created \in 0..NumBatches
    /\ storedBatches \subseteq Batches
    /\ signed \subseteq Batches
    /\ lastBatchNonce \in [Tokens -> Nat]
    /\ valsetNonce \in Nat
    /\ acctNonce \in [Relayers -> Nat]
    /\ mempool \subseteq Txs
    /\ faults \in 0..MaxFaults

LoopInv ==
    \A r \in Relayers :
        /\ pc[r] = "sigs" => todo[r] # {}
        /\ pc[r] \in {"ethnonce", "findvs", "send", "panicked"} => cur[r] \in Batches

RelayerInv ==
    /\ pc \in [Relayers -> PCs]
    /\ todo \in [Relayers -> SUBSET Batches]
    /\ cur \in [Relayers -> Batches \cup {NoBatch}]
    /\ base \in [Relayers -> Nat]
    /\ i \in [Relayers -> Nat]
    /\ sigsOk \in [Relayers -> BOOLEAN]
    /\ vset \in [Relayers -> Nat]
    /\ LoopInv

TypeInv == ChainInv /\ RelayerInv

USE BatchAssumption, BoundAssumption

LEMMA TypeInit == Init => TypeInv
  BY DEF Init, TypeInv, ChainInv, RelayerInv, LoopInv, Batches, NoBatch, PCs

\* Leaving relay_batches keeps the relayers' part.
LEMMA ReturnInv ==
    ASSUME RelayerInv, NEW r \in Relayers, Return(r)
    PROVE  RelayerInv'
  BY DEF RelayerInv, LoopInv, Return, PCs, Batches, NoBatch

\* Ending an iteration keeps it, if the rest and the counter are typed.
LEMMA ContinueInv ==
    ASSUME RelayerInv, NEW r \in Relayers, NEW rest \in SUBSET Batches,
           NEW n \in Nat, Continue(r, rest, n)
    PROVE  RelayerInv'
<1>1. CASE rest = {}
  BY <1>1, ReturnInv DEF Continue
<1>2. CASE rest # {}
  <2>1. /\ pc' = [pc EXCEPT ![r] = "sigs"]
        /\ todo' = [todo EXCEPT ![r] = rest]
        /\ cur' = [cur EXCEPT ![r] = NoBatch]
        /\ i' = [i EXCEPT ![r] = n]
        /\ sigsOk' = [sigsOk EXCEPT ![r] = FALSE]
        /\ vset' = [vset EXCEPT ![r] = 0]
        /\ UNCHANGED base
    BY <1>2 DEF Continue
  <2>2. QED
    BY <1>2, <2>1 DEF RelayerInv, LoopInv, PCs, Batches, NoBatch
<1>3. QED
  BY <1>1, <1>2

\* A relayer step changes the chains' part only by a fault or a broadcast.
LEMMA FaultInv ==
    ASSUME ChainInv, Fault, UNCHANGED <<cosmosVars, ethVars>>
    PROVE  ChainInv'
  BY DEF ChainInv, Fault, cosmosVars, ethVars

LEMMA QuietInv ==
    ASSUME ChainInv, UNCHANGED <<cosmosVars, ethVars, faults>>
    PROVE  ChainInv'
  BY DEF ChainInv, cosmosVars, ethVars

LEMMA TypeStep == TypeInv /\ [Next]_vars => TypeInv'
<1> SUFFICES ASSUME TypeInv, [Next]_vars PROVE TypeInv'
  OBVIOUS
<1>0. ChainInv /\ RelayerInv
  BY DEF TypeInv
<1> HIDE DEF TypeInv
<1>1. ASSUME NEW r \in Relayers, GetLatestBatches(r) PROVE TypeInv'
  <2>1. CASE /\ todo' = [todo EXCEPT ![r] = storedBatches]
             /\ pc' = [pc EXCEPT ![r] = "txcount"]
             /\ UNCHANGED faults
    BY <1>0, <1>1, <2>1, QuietInv DEF GetLatestBatches, TypeInv, RelayerInv, LoopInv,
       ChainInv, PCs
  <2>2. CASE Fault /\ UNCHANGED <<todo, pc>>
    BY <1>0, <1>1, <2>2, FaultInv DEF GetLatestBatches, TypeInv, RelayerInv, LoopInv
  <2>3. QED
    BY <1>1, <2>1, <2>2 DEF GetLatestBatches
<1>2. ASSUME NEW r \in Relayers, GetTxCount(r) PROVE TypeInv'
  <2>1. CASE /\ todo[r] # {}
             /\ base' = [base EXCEPT ![r] = acctNonce[r]]
             /\ pc' = [pc EXCEPT ![r] = "sigs"]
             /\ UNCHANGED <<todo, cur, i, sigsOk, vset, faults>>
    BY <1>0, <1>2, <2>1, QuietInv DEF GetTxCount, TypeInv, RelayerInv, LoopInv,
       ChainInv, PCs
  <2>2. CASE todo[r] = {} /\ Return(r) /\ UNCHANGED faults
    BY <1>0, <1>2, <2>2, QuietInv, ReturnInv DEF GetTxCount, TypeInv
  <2>3. CASE Fault /\ Return(r)
    BY <1>0, <1>2, <2>3, FaultInv, ReturnInv DEF GetTxCount, TypeInv
  <2>4. QED
    BY <1>2, <2>1, <2>2, <2>3 DEF GetTxCount
<1>3. ASSUME NEW r \in Relayers, GetSigs(r) PROVE TypeInv'
  <2> DEFINE b == Min(todo[r])
  <2>0. todo[r] \in SUBSET Batches /\ todo[r] # {}
    BY <1>0, <1>3 DEF GetSigs, RelayerInv, LoopInv
  <2>1. b \in todo[r]
    BY <2>0, MinInSet DEF Batches
  <2>2. CASE /\ todo' = [todo EXCEPT ![r] = todo[r] \ {b}]
             /\ cur' = [cur EXCEPT ![r] = b]
             /\ sigsOk' = [sigsOk EXCEPT ![r] = b \in signed]
             /\ pc' = [pc EXCEPT ![r] = "ethnonce"]
             /\ UNCHANGED <<base, i, vset, faults>>
             /\ UNCHANGED <<cosmosVars, ethVars>>
    <3>1. RelayerInv'
      BY <1>0, <2>0, <2>1, <2>2 DEF RelayerInv, LoopInv, PCs
    <3>2. QED
      BY <1>0, <2>2, <3>1, QuietInv DEF TypeInv
  <2>3. CASE Fault /\ Continue(r, todo[r] \ {b}, i[r]) /\ UNCHANGED <<cosmosVars, ethVars>>
    BY <1>0, <2>0, <2>3, FaultInv, ContinueInv DEF TypeInv, RelayerInv
  <2>4. QED
    BY <1>3, <2>2, <2>3 DEF GetSigs
<1>4. ASSUME NEW r \in Relayers, GetEthBatchNonce(r) PROVE TypeInv'
  <2>1. CASE /\ pc' = [pc EXCEPT ![r] = "findvs"]
             /\ UNCHANGED <<todo, cur, base, i, sigsOk, vset, faults>>
    BY <1>0, <1>4, <2>1, QuietInv DEF GetEthBatchNonce, TypeInv, RelayerInv, LoopInv, PCs
  <2>2. CASE Continue(r, todo[r], i[r]) /\ UNCHANGED faults
    BY <1>0, <1>4, <2>2, QuietInv, ContinueInv DEF GetEthBatchNonce, TypeInv, RelayerInv
  <2>3. CASE Fault /\ pc' = [pc EXCEPT ![r] = "panicked"]
                   /\ UNCHANGED <<todo, cur, base, i, sigsOk, vset>>
    BY <1>0, <1>4, <2>3, FaultInv DEF GetEthBatchNonce, TypeInv, RelayerInv, LoopInv, PCs
  <2>4. QED
    BY <1>4, <2>1, <2>2, <2>3 DEF GetEthBatchNonce
<1>5. ASSUME NEW r \in Relayers, FindLatestValset(r) PROVE TypeInv'
  <2>1. CASE /\ vset' = [vset EXCEPT ![r] = valsetNonce]
             /\ pc' = [pc EXCEPT ![r] = "send"]
             /\ UNCHANGED <<todo, cur, base, i, sigsOk, faults>>
    BY <1>0, <1>5, <2>1, QuietInv DEF FindLatestValset, TypeInv, RelayerInv, LoopInv,
       ChainInv, PCs
  <2>2. CASE Fault /\ Continue(r, todo[r], i[r])
    BY <1>0, <1>5, <2>2, FaultInv, ContinueInv DEF FindLatestValset, TypeInv, RelayerInv
  <2>3. QED
    BY <1>5, <2>1, <2>2 DEF FindLatestValset
<1>6. ASSUME NEW r \in Relayers, SendBatch(r) PROVE TypeInv'
  <2> DEFINE tx == [from |-> r, nonce |-> base[r] + i[r], batch |-> cur[r], vs |-> vset[r]]
  <2>1. tx \in Txs
    BY <1>0, <1>6 DEF SendBatch, Txs, RelayerInv, LoopInv
  <2>2. ChainInv'
    <3> USE <1>6 DEF SendBatch, SendEthTransactionBatch, ChainInv, cosmosVars
    <3>1. CASE mempool' = mempool \cup {tx} /\ UNCHANGED faults
      BY <1>0, <2>1, <3>1
    <3>2. CASE UNCHANGED <<mempool, faults>>
      BY <1>0, <3>2
    <3>3. CASE Fault /\ UNCHANGED mempool
      BY <1>0, <3>3 DEF Fault
    <3>4. QED
      BY <3>1, <3>2, <3>3
  <2>3. RelayerInv'
    <3>1. todo[r] \in SUBSET Batches /\ i[r] + 1 \in Nat
      BY <1>0 DEF RelayerInv
    <3>2. Continue(r, todo[r], i[r] + 1)
      BY <1>6 DEF SendBatch
    <3>3. QED
      BY <1>0, <3>1, <3>2, ContinueInv
  <2>4. QED
    BY <2>2, <2>3 DEF TypeInv
<1>7. ASSUME NEW r \in Relayers, Restart(r) PROVE TypeInv'
  BY <1>0, <1>7, QuietInv, ReturnInv DEF Restart, TypeInv
<1>8. CASE CreateBatch
  BY <1>0, <1>8 DEF CreateBatch, TypeInv, ChainInv, RelayerInv, LoopInv, ethVars,
     relayerVars, Batches
<1>9. ASSUME NEW b \in Batches, Confirm(b) PROVE TypeInv'
  BY <1>0, <1>9 DEF Confirm, TypeInv, ChainInv, RelayerInv, LoopInv, ethVars,
     relayerVars, Batches
<1>10. CASE ObserveExecuted
  BY <1>0, <1>10 DEF ObserveExecuted, TypeInv, ChainInv, RelayerInv, LoopInv, ethVars,
     relayerVars
<1>11. ASSUME NEW tx \in mempool, Mine(tx) PROVE TypeInv'
  <2>1. tx \in Txs
    BY <1>0 DEF ChainInv
  <2>2. BatchToken[tx.batch] \in Tokens /\ tx.from \in Relayers
    BY <2>1 DEF Txs, Batches
  <2>3. ChainInv'
    BY <1>0, <1>11, <2>1, <2>2 DEF Mine, ChainInv, cosmosVars, Txs, Batches
  <2>4. RelayerInv'
    BY <1>0, <1>11 DEF Mine, RelayerInv, LoopInv, relayerVars
  <2>5. QED
    BY <2>3, <2>4 DEF TypeInv
<1>12. CASE UpdateValset
  BY <1>0, <1>12 DEF UpdateValset, TypeInv, ChainInv, RelayerInv, LoopInv,
     cosmosVars, relayerVars
<1>13. CASE UNCHANGED vars
  BY <1>0, <1>13 DEF vars, cosmosVars, ethVars, relayerVars, TypeInv, ChainInv,
     RelayerInv, LoopInv
<1>14. QED
  BY <1>1, <1>2, <1>3, <1>4, <1>5, <1>6, <1>7, <1>8, <1>9, <1>10, <1>11,
     <1>12, <1>13 DEF Next, Relayer

(***************************************************************************)
(* Every state relay_batches, the Cosmos chain and Ethereum can reach is   *)
(* well typed: in particular the pass's locals (todo, cur, base, i, vset)  *)
(* stay in range through every early return, continue and panic.           *)
(***************************************************************************)
THEOREM TypeCorrect == Spec => []TypeOK
<1>1. Spec => []TypeInv
  BY TypeInit, TypeStep, PTL DEF Spec
<1>2. QED
  BY <1>1, PTL DEF TypeInv, ChainInv, RelayerInv, TypeOK

(***************************************************************************)
(* The strengthening of NoUnderSignedSubmission: a relayer that holds      *)
(* signatures judged sufficient holds them for a batch that is signed.     *)
(* Confirmations are never withdrawn, so what was signed at the fetch is   *)
(* still signed at the broadcast.                                          *)
(***************************************************************************)
SignedInv ==
    /\ \A r \in Relayers : sigsOk[r] => cur[r] \in signed
    /\ NoUnderSignedSubmission

LEMMA SignedInit == Init => SignedInv
  BY DEF Init, SignedInv, NoUnderSignedSubmission

\* A step after which every relayer holding sufficient signatures held
\* them before, for the same batch.
KeepsSigs ==
    \A q \in Relayers : sigsOk'[q] => sigsOk[q] /\ cur'[q] = cur[q]

\* Leaving the loop or an iteration forgets the signatures.
LEMMA ForgetSigs ==
    ASSUME NEW r \in Relayers, NEW rest, NEW n,
           Return(r) \/ Continue(r, rest, n),
           sigsOk \in [Relayers -> BOOLEAN],
           cur \in [Relayers -> Batches \cup {NoBatch}]
    PROVE  KeepsSigs
  BY DEF Return, Continue, KeepsSigs

LEMMA SignedStep == TypeInv /\ SignedInv /\ [Next]_vars => SignedInv'
<1> SUFFICES ASSUME TypeInv, SignedInv, [Next]_vars PROVE SignedInv'
  OBVIOUS
<1>0. /\ sigsOk \in [Relayers -> BOOLEAN]
      /\ cur \in [Relayers -> Batches \cup {NoBatch}]
      /\ mempool \subseteq Txs
  BY DEF TypeInv, ChainInv, RelayerInv
<1> USE DEF SignedInv, NoUnderSignedSubmission
\* The relayer steps that leave sigsOk, cur, signed and mempool alone, or
\* only forget the signatures.
<1>1. ASSUME NEW r \in Relayers, GetLatestBatches(r) PROVE SignedInv'
  BY <1>1 DEF GetLatestBatches, cosmosVars, ethVars
<1>2. ASSUME NEW r \in Relayers, GetTxCount(r) PROVE SignedInv'
  <2>1. UNCHANGED <<signed, mempool>>
    BY <1>2 DEF GetTxCount, cosmosVars, ethVars
  <2>2. KeepsSigs
    BY <1>0, <1>2, ForgetSigs DEF GetTxCount, KeepsSigs
  <2>3. QED
    BY <2>1, <2>2 DEF KeepsSigs
<1>3. ASSUME NEW r \in Relayers, GetSigs(r) PROVE SignedInv'
  <2>1. UNCHANGED <<signed, mempool>>
    BY <1>3 DEF GetSigs, cosmosVars, ethVars
  <2>2. CASE /\ cur' = [cur EXCEPT ![r] = Min(todo[r])]
             /\ sigsOk' = [sigsOk EXCEPT ![r] = Min(todo[r]) \in signed]
    BY <1>0, <2>1, <2>2
  <2>3. CASE KeepsSigs
    BY <2>1, <2>3 DEF KeepsSigs
  <2>4. QED
    BY <1>0, <1>3, <2>2, <2>3, ForgetSigs DEF GetSigs
<1>4. ASSUME NEW r \in Relayers, GetEthBatchNonce(r) PROVE SignedInv'
  <2>1. UNCHANGED <<signed, mempool>>
    BY <1>4 DEF GetEthBatchNonce, cosmosVars, ethVars
  <2>2. KeepsSigs
    BY <1>0, <1>4, ForgetSigs DEF GetEthBatchNonce, KeepsSigs
  <2>3. QED
    BY <2>1, <2>2 DEF KeepsSigs
<1>5. ASSUME NEW r \in Relayers, FindLatestValset(r) PROVE SignedInv'
  <2>1. UNCHANGED <<signed, mempool>>
    BY <1>5 DEF FindLatestValset, cosmosVars, ethVars
  <2>2. KeepsSigs
    BY <1>0, <1>5, ForgetSigs DEF FindLatestValset, KeepsSigs
  <2>3. QED
    BY <2>1, <2>2 DEF KeepsSigs
\* The broadcast: a transaction enters the mempool only with sigsOk.
<1>6. ASSUME NEW r \in Relayers, SendBatch(r) PROVE SignedInv'
  <2> DEFINE tx == [from |-> r, nonce |-> base[r] + i[r], batch |-> cur[r], vs |-> vset[r]]
  <2>1. UNCHANGED signed /\ KeepsSigs
    BY <1>0, <1>6, ForgetSigs DEF SendBatch, cosmosVars
  <2>2. mempool' = mempool \/ (sigsOk[r] /\ mempool' = mempool \cup {tx})
    BY <1>6 DEF SendBatch, SendEthTransactionBatch
  <2>3. QED
    BY <1>0, <2>1, <2>2 DEF KeepsSigs
<1>7. ASSUME NEW r \in Relayers, Restart(r) PROVE SignedInv'
  <2>1. KeepsSigs
    BY <1>0, <1>7, ForgetSigs DEF Restart
  <2>2. QED
    BY <1>7, <2>1 DEF Restart, cosmosVars, ethVars, KeepsSigs
\* The chains: signed only grows and mining only removes.
<1>8. CASE CreateBatch
  BY <1>8 DEF CreateBatch, ethVars, relayerVars
<1>9. ASSUME NEW b \in Batches, Confirm(b) PROVE SignedInv'
  BY <1>9 DEF Confirm, ethVars, relayerVars
<1>10. CASE ObserveExecuted
  BY <1>10 DEF ObserveExecuted, ethVars, relayerVars
<1>11. ASSUME NEW tx \in mempool, Mine(tx) PROVE SignedInv'
  BY <1>11 DEF Mine, cosmosVars, relayerVars
<1>12. CASE UpdateValset
  BY <1>12 DEF UpdateValset, cosmosVars, relayerVars
<1>13. CASE UNCHANGED vars
  BY <1>13 DEF vars, cosmosVars, ethVars, relayerVars
<1>14. QED
  BY <1>1, <1>2, <1>3, <1>4, <1>5, <1>6, <1>7, <1>8, <1>9, <1>10, <1>11,
     <1>12, <1>13 DEF Next, Relayer

(***************************************************************************)
(* No relayer ever broadcasts a batch whose confirmations fall short of    *)
(* the threshold (relay_batches forwards the fetched signatures unchecked; *)
(* the ordering in send_eth_transaction_batch is what refuses them).       *)
(***************************************************************************)
THEOREM SubmissionsSigned == Spec => []NoUnderSignedSubmission
<1>1. Spec => []TypeInv
  BY TypeInit, TypeStep, PTL DEF Spec
<1>2. Spec => [](TypeInv /\ SignedInv)
  BY <1>1, SignedInit, SignedStep, PTL DEF Spec
<1>3. QED
  BY <1>2, PTL DEF SignedInv

=============================================================================
