------------------------- MODULE ContactSendProofs -------------------------
(***************************************************************************)
(* Proof that Contact::retry_on_block returns within Timeout + Backoff of *)
(* its start, for every caller budget and every server timeout.           *)
(***************************************************************************)
EXTENDS ContactSend, TLAPS

USE TimeAssumption

Lookups == {"account", "blank", "chainid"}

(* The strengthening of ReturnsWithinBackoffOfDeadline: before           *)
(* retry_on_block the clock has not moved from start; a request in flight *)
(* cannot run past Timeout + Backoff because its budget is the time left  *)
(* plus the one-second sleep at most; the loop only computes time_left    *)
(* within the deadline, and the sleep then ends at most where the budget  *)
(* starts to count.                                                       *)
DeadlineInv ==
    /\ TypeOK
    /\ pc \in Lookups => now = start
    /\ pc \in {"send", "respond"} => Elapsed + budget <= Timeout + Backoff
    /\ pc \in {"check", "done"} => Elapsed <= Timeout + Backoff
    /\ pc = "timeleft" => Elapsed <= Timeout
    /\ pc = "sleep" => Elapsed + budget <= Timeout

LEMMA DeadlineInit == Init => DeadlineInv
  BY DEF Init, DeadlineInv, TypeOK, PCs, Results, Lookups, Elapsed

LEMMA DeadlineStep == DeadlineInv /\ [Next]_vars => DeadlineInv'
  <1> SUFFICES ASSUME DeadlineInv, [Next]_vars PROVE DeadlineInv'
    OBVIOUS
  <1>1. CASE GetAccountInfo
    BY <1>1 DEF GetAccountInfo, Finish, node, DeadlineInv, TypeOK, PCs,
               Results, Lookups, Elapsed, Backoff
  <1>2. CASE GetAccountInfoBlank
    BY <1>2 DEF GetAccountInfoBlank, Finish, node, DeadlineInv, TypeOK, PCs,
               Results, Lookups, Elapsed, Backoff
  <1>3. CASE GetLatestBlock
    BY <1>3 DEF GetLatestBlock, StartRetry, Finish, node, DeadlineInv,
               TypeOK, PCs, Results, Lookups, Elapsed, Backoff
  <1>4. CASE SendRequest
    BY <1>4 DEF SendRequest, DeadlineInv, TypeOK, PCs, Lookups, Elapsed
  <1>5. CASE ReceiveResponse
    <2>1. PICK d \in 0..budget, r \in Results :
                Outcome(d, r) /\ now' = now + d /\ res' = r
      BY <1>5 DEF ReceiveResponse
    <2>. QED BY <1>5, <2>1 DEF ReceiveResponse, node, DeadlineInv, TypeOK,
                PCs, Lookups, Elapsed, Backoff
  <1>6. CASE Commit
    BY <1>6 DEF Commit, DeadlineInv, TypeOK, PCs, Lookups, Elapsed
  <1>7. CASE CheckRetry
    BY <1>7 DEF CheckRetry, node, DeadlineInv, TypeOK, PCs, Lookups,
               Elapsed, Backoff
  <1>8. CASE ComputeTimeLeft
    <2>1. PICK gap \in {0, 1} :
            /\ now' = now + gap
            /\ IF now' - start > Timeout
                  THEN pc' = "panicked" /\ UNCHANGED budget
                  ELSE pc' = "sleep" /\ budget' = Timeout - (now' - start)
      BY <1>8 DEF ComputeTimeLeft
    <2>. QED BY <1>8, <2>1 DEF ComputeTimeLeft, node, DeadlineInv, TypeOK,
                PCs, Lookups, Elapsed
  <1>9. CASE Backoff1
    BY <1>9 DEF Backoff1, node, DeadlineInv, TypeOK, PCs, Lookups, Elapsed,
               Backoff
  <1>10. CASE UNCHANGED vars
    BY <1>10 DEF vars, DeadlineInv, TypeOK, Lookups, Elapsed
  <1>. QED BY <1>1, <1>2, <1>3, <1>4, <1>5, <1>6, <1>7, <1>8, <1>9, <1>10
           DEF Next

(* Whatever the node and the connection do, retry_on_block returns at    *)
(* most Timeout + Backoff seconds after it started: each retry is sent    *)
(* with the time left, so only the one-second delay_for taken after       *)
(* time_left is computed can run past the caller's deadline.              *)
THEOREM DeadlineBound == Spec => []ReturnsWithinBackoffOfDeadline
  <1>1. DeadlineInv => ReturnsWithinBackoffOfDeadline
    BY DEF DeadlineInv, ReturnsWithinBackoffOfDeadline
  <1>. QED BY <1>1, DeadlineInit, DeadlineStep, PTL DEF Spec

(* Every state of a create_and_send_transaction call is well typed; in   *)
(* particular the budget handed to request_method always lies between 0   *)
(* and self.timeout.                                                      *)
THEOREM ContactTypeCorrect == Spec => []TypeOK
  <1>1. DeadlineInv => TypeOK
    BY DEF DeadlineInv
  <1>. QED BY <1>1, DeadlineInit, DeadlineStep, PTL DEF Spec
=============================================================================
