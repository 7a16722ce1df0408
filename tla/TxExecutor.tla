----------------------------- MODULE TxExecutor -----------------------------
(***************************************************************************)
(* The transaction executor TXExecutor::transact of                        *)
(* src/cfx-evm/src/execution/executor.rs, applied to a sequence of         *)
(* transactions over a small world state.                                  *)
(*                                                                         *)
(* One transact call is three steps, one per function of the source:       *)
(*   Preprocess   transact_preprocessing (nonce check, base gas, balance   *)
(*                check, nonce bump, fee charge, root frame);              *)
(*   ExecFrame    FrameStack::exec of the root frame.  The frame stack and *)
(*                the VM are not under src/; the step is an arbitrary      *)
(*                result the VM may return (an error, a revert, or an      *)
(*                applied run that moves value, creates a contract, logs   *)
(*                and self-destructs contracts);                           *)
(*   Postprocess  transact_postprocessing (refund, kill_process, outcome). *)
(* Numbers are U256 words of W bits: `+`, `-` and `*` of the uint crate    *)
(* panic on overflow, saturating_mul saturates; U512 values (full_mul and  *)
(* the balance check) cannot overflow and are plain integers.              *)
(***************************************************************************)
EXTENDS Integers, SequencesExt

CONSTANTS
  Addr,              \* addresses of the Ethereum space (model values)
  Senders,           \* externally owned accounts that sign transactions
  InitCode,          \* addresses holding contract code initially
  InitBalance,       \* initial balances, a function Addr -> Nat
  W,                 \* bits of a U256 word in the model
  TxGas,             \* spec.tx_gas
  TxCreateGas,       \* spec.tx_create_gas
  TxDataZeroGas,     \* spec.tx_data_zero_gas
  TxDataNonZeroGas,  \* spec.tx_data_non_zero_gas
  StartNonce,        \* spec.account_start_nonce
  Gases,             \* gas limits a transaction may carry
  GasPrices,         \* gas prices a transaction may carry
  Values,            \* values a transaction may transfer
  Datas,             \* transaction data a transaction may carry (byte sequences)
  MaxNonce,          \* bound on nonces
  MaxTxs,            \* bound on the number of transact calls
  ChargeGasModes,    \* check_settings.charge_gas values the caller uses
  RealExecModes,     \* check_settings.real_execution values the caller uses
  GasManModes,       \* whether the observer carries a gas manager
  GasRequireds,      \* gas_required values a gas manager may report
  ContractAddress(_, _) \* contract_address(FromSenderNonce, .., sender, nonce, ..)

ASSUME Senders \subseteq Addr /\ InitCode \subseteq Addr \ Senders
ASSUME InitBalance \in [Addr -> Nat]
ASSUME ChargeGasModes \subseteq BOOLEAN /\ RealExecModes \subseteq BOOLEAN
ASSUME GasManModes \subseteq BOOLEAN /\ GasRequireds \subseteq Nat

VARIABLES
  accounts,     \* addresses with an account record (StateTrait::exists)
  balance,      \* balance of every address (0 when there is no record)
  nonce,        \* nonce of every address (StartNonce when no record)
  code,         \* addresses holding contract code
  totalIssued,  \* the global issued-supply counter
  gasPocket,    \* value held by the GasPayment pocket (fees collected)
  phase,        \* "idle" | "exec" | "post" | "done" | "panic"
  tx,           \* the transaction being executed
  initGas,      \* init_gas given to the root frame
  frame,        \* the FinalizationResult (or error) of the root frame
  substate,     \* the transaction substate
  outcome,      \* the ExecutionOutcome of the last transact call
  pre,          \* snapshot taken when transact starts (for properties)
  txCount,      \* number of transact calls so far
  killTrace     \* the kill_process trace as recorded by each of two nodes

state == <<accounts, balance, nonce, code, totalIssued, gasPocket>>
vars == <<state, phase, tx, initGas, frame, substate, outcome, pre, txCount, killTrace>>

(* Two nodes executing the same transaction (self-composition: each     *)
(* iterates the suicides HashSet in its own order).                      *)
Nodes == {"nodeA", "nodeB"}

-----------------------------------------------------------------------------
(* U256 arithmetic *)
MaxWord == 2^W - 1
SaturatingMul(a, b) == IF a * b > MaxWord THEN MaxWord ELSE a * b

(* gas_required_for: the base gas of a transaction (u64, no overflow).   *)
GasRequiredFor(isCreate, data) ==
  FoldLeft(LAMBDA g, b : g + (IF b = 0 THEN TxDataZeroGas ELSE TxDataNonZeroGas),
           IF isCreate THEN TxCreateGas ELSE TxGas,
           data)

(* StateTrait::nonce of an address without a record is the start nonce. *)
NonceOf(a) == IF a \in accounts THEN nonce[a] ELSE StartNonce

BalanceSum(bal, S) == MapThenSumSet(LAMBDA a : bal[a], S)

(* StateTrait::inc_nonce: creates the account with the start nonce when  *)
(* it is absent, then adds one.                                          *)
IncNonce(a) ==
  /\ accounts' = accounts \cup {a}
  /\ nonce' = [nonce EXCEPT ![a] = NonceOf(a) + 1]

(* Outcomes of a transact call *)
RejectKinds == {"OldNonce", "NotEnoughBaseGas", "InvalidNonce", "SenderDoesNotExist"}
ExecutedKinds == {"NotEnoughCash", "VmError", "Reverted", "Finished"}
(* Err(StateDbError) of transact: a database fault, not an outcome. *)
FaultKinds == {"DbError"}
(* estimate: {} for estimated_gas_limit = None, {v} for Some(v). *)
NoExecuted == [gasUsed |-> 0, gasCharged |-> 0, fee |-> 0, logs |-> 0, created |-> <<>>,
               estimate |-> {}]

EmptySubstate == [logs |-> 0, created |-> <<>>, suicides |-> {}]

Create == "Create"
Txs ==
  [sender : Senders, nonce : 0..MaxNonce - 1, gas : Gases, gasPrice : GasPrices,
   value : Values, action : {Create} \cup Addr, data : Datas,
   chargeGas : ChargeGasModes, realExecution : RealExecModes, gasMan : GasManModes]

-----------------------------------------------------------------------------
Init ==
  /\ accounts = {a \in Addr : InitBalance[a] > 0 \/ a \in InitCode}
  /\ balance = InitBalance
  /\ nonce = [a \in Addr |-> StartNonce]
  /\ code = InitCode
  /\ totalIssued = BalanceSum(InitBalance, Addr)
  /\ gasPocket = 0
  /\ phase = "idle"
  /\ tx = CHOOSE t \in Txs : TRUE
  /\ initGas = 0
  /\ frame = [ok |-> TRUE, gasLeft |-> 0, applyState |-> FALSE, dbError |-> FALSE,
               gasRequired |-> 0]
  /\ substate = EmptySubstate
  /\ outcome = [kind |-> "None"] @@ NoExecuted
  /\ pre = [nonce |-> StartNonce, pocket |-> 0,
            state |-> <<accounts, balance, nonce, code, totalIssued, gasPocket>>]
  /\ txCount = 0
  /\ killTrace = [node \in Nodes |-> <<>>]

(***************************************************************************)
(* transact_preprocessing (executor.rs 144-341), with the early return of  *)
(* transact (105-120) for the outcomes it produces.  Each alternative of   *)
(* the handler's chain of checks is one disjunct, guarded by the checks    *)
(* that precede it.                                                        *)
(***************************************************************************)
Reject(kind) ==
  /\ outcome' = [kind |-> kind] @@ NoExecuted
  /\ phase' = "done"
  /\ UNCHANGED <<state, initGas, frame, substate>>

(* Variant: the whole gas cost is charged although the balance is short. *)
ActualGasCostNoMin(gasCost, bal) == gasCost

(* actual_gas_cost = min(gas_cost, sender_balance) *)
ActualGasCost(gasCost, bal) == IF gasCost < bal THEN gasCost ELSE bal

(* Executed::not_enough_balance_fee_charged *)
NotEnoughBalanceFeeCharged(t, fee) ==
  [gasUsed |-> t.gas,
   gasCharged |-> IF t.gasPrice = 0 THEN 0 ELSE fee \div t.gasPrice,
   fee |-> fee, logs |-> 0, created |-> <<>>, estimate |-> {}]

(* Variant: the fee is charged but the nonce is not bumped. *)
NotEnoughCashNoBump(t, gasCost) ==
  LET cost == ActualGasCost(gasCost, balance[t.sender])
  IN /\ balance' = [balance EXCEPT ![t.sender] = @ - cost]
     /\ gasPocket' = gasPocket + cost
     /\ outcome' = [kind |-> "NotEnoughCash"] @@ NotEnoughBalanceFeeCharged(t, cost)
     /\ phase' = "done"
     /\ UNCHANGED <<accounts, nonce, code, totalIssued, initGas, frame, substate>>

(* The sender cannot pay value + gas: bump the nonce and charge what the  *)
(* balance can pay (executor.rs 211-238).                                 *)
NotEnoughCash(t, gasCost) ==
  LET cost == ActualGasCost(gasCost, balance[t.sender])
  IN /\ IncNonce(t.sender)
     /\ balance' = [balance EXCEPT ![t.sender] = @ - cost]
     /\ gasPocket' = gasPocket + cost
     /\ outcome' = [kind |-> "NotEnoughCash"] @@ NotEnoughBalanceFeeCharged(t, cost)
     /\ phase' = "done"
     /\ UNCHANGED <<code, totalIssued, initGas, frame, substate>>

(* Funds suffice: bump the nonce, charge gas_cost, build the root frame   *)
(* with init_gas = gas - base_gas_required (executor.rs 239-340).         *)
Admit(t, gasCost, base) ==
  /\ IncNonce(t.sender)
  /\ balance' = [balance EXCEPT ![t.sender] = @ - gasCost]
  /\ gasPocket' = gasPocket + gasCost
  /\ initGas' = t.gas - base
  /\ substate' = EmptySubstate
  /\ phase' = "exec"
  /\ UNCHANGED <<code, totalIssued, frame, outcome>>

Preprocess(t) ==
  LET n == NonceOf(t.sender)
      base == GasRequiredFor(t.action = Create, t.data)
      bal == balance[t.sender]
      gasCost == IF t.chargeGas THEN t.gas * t.gasPrice ELSE 0
      totalCost == t.value + gasCost
  IN
  /\ phase \in {"idle", "done"}
  /\ txCount < MaxTxs
  /\ n < MaxNonce
  /\ tx' = t
  /\ txCount' = txCount + 1
  /\ killTrace' = [node \in Nodes |-> <<>>]
  /\ pre' = [nonce |-> n, pocket |-> gasPocket, state |-> state]
  /\ \/ t.nonce < n /\ Reject("OldNonce")
     \/ t.nonce > n /\ Reject("InvalidNonce")
     \/ /\ t.nonce = n
        /\ t.gas < base
        /\ Reject("NotEnoughBaseGas")
     \/ /\ t.nonce = n /\ t.gas >= base /\ bal < totalCost
        /\ t.sender \notin accounts /\ t.realExecution
        /\ Reject("SenderDoesNotExist")
     \/ /\ t.nonce = n /\ t.gas >= base /\ bal < totalCost
        /\ t.sender \in accounts \/ ~t.realExecution
        /\ NotEnoughCash(t, gasCost)
     \/ /\ t.nonce = n /\ t.gas >= base /\ bal >= totalCost
        /\ Admit(t, gasCost, base)

(***************************************************************************)
(* FrameStack::exec of the root frame (not under src/: modelled from the   *)
(* spec, sections 4.4 and 7).  The VM returns                             *)
(*  - an error (a VM error, or a StateDbError of a database fault): every *)
(*    write below the root is rolled back; the gas the VM had left when    *)
(*    it failed is not part of the Err result;                             *)
(*  - Ok with apply_state = FALSE (REVERT): rolled back, gas_left kept;   *)
(*  - Ok with apply_state = TRUE: the value moves from the sender to the  *)
(*    receiver (the new contract for a Create, whose address must be      *)
(*    free), some contracts self-destruct to a beneficiary, logs are      *)
(*    emitted, and the root substate is accrued into the tx substate.     *)
(***************************************************************************)
Receiver(t, n) == IF t.action = Create THEN ContractAddress(t.sender, n) ELSE t.action

ApplyFrame(gasLeft, gr) ==
  LET r == Receiver(tx, pre.nonce)
      v == tx.value
      moved == [balance EXCEPT ![tx.sender] = @ - v]
      received == [moved EXCEPT ![r] = @ + v]
      created == IF tx.action = Create THEN <<r>> ELSE <<>>
      code1 == code \cup Range(created)
  IN
  /\ tx.action = Create => r \notin code
  /\ \E sui \in SUBSET code1, ben \in Addr, logs \in 0..1 :
       /\ balance' = [a \in Addr |->
                        IF a \in sui \ {ben} THEN 0
                        ELSE IF a = ben THEN received[a] + BalanceSum(received, sui \ {ben})
                        ELSE received[a]]
       /\ accounts' = accounts \cup Range(created) \cup {ben}
                      \cup (IF v > 0 THEN {r} ELSE {})
       /\ substate' = [logs |-> logs, created |-> created, suicides |-> sui]
  /\ code' = code1
  /\ frame' = [ok |-> TRUE, gasLeft |-> gasLeft, applyState |-> TRUE, dbError |-> FALSE,
               gasRequired |-> gr]
  /\ UNCHANGED <<nonce, totalIssued, gasPocket>>

(* The gas_required a gas manager of the observer reports: at most the   *)
(* gas the root frame was given; 0 when the observer has no gas manager.  *)
GasRequiredOf(t, g) == IF t.gasMan THEN {r \in GasRequireds : r <= g} ELSE {0}

ExecFrame ==
  /\ phase = "exec"
  /\ phase' = "post"
  /\ \E gr \in GasRequiredOf(tx, initGas) :
     \/ \E gl \in 0..initGas, db \in BOOLEAN :
          /\ frame' = [ok |-> FALSE, gasLeft |-> gl, applyState |-> FALSE, dbError |-> db,
                       gasRequired |-> gr]
          /\ UNCHANGED <<state, substate>>
     \/ \E gl \in 0..initGas :
          /\ frame' = [ok |-> TRUE, gasLeft |-> gl, applyState |-> FALSE, dbError |-> FALSE,
                       gasRequired |-> gr]
          /\ UNCHANGED <<state, substate>>
     \/ \E gl \in 0..initGas : ApplyFrame(gl, gr)
  /\ UNCHANGED <<tx, initGas, outcome, pre, txCount, killTrace>>

(***************************************************************************)
(* transact_postprocessing (executor.rs 343-467).                          *)
(***************************************************************************)
(* Variant: the gas the VM had left when it failed is kept. *)
GasLeftOfAny(f) == f.gasLeft

(* gas_left: the FinalizationResult's for an Ok result, 0 for an Err       *)
(* (executor.rs 366-369).                                                  *)
GasLeftOf(f) == IF f.ok THEN f.gasLeft ELSE 0

(* Variant: over-gassed transactions are refunded all the gas left      *)
(* although only a quarter of the limit is deducted from the charge.      *)
GasSettlementRefundLeft(t, gasLeft) ==
  LET gasUsed == t.gas - gasLeft
      chargeAll == 3 * gasLeft >= gasUsed
      gasRefunded == t.gas \div 4
      gasCharged == IF chargeAll THEN t.gas - gasRefunded ELSE gasUsed
  IN [gasUsed |-> gasUsed, gasCharged |-> gasCharged,
      fee |-> SaturatingMul(gasCharged, t.gasPrice),
      refund |-> SaturatingMul(gasLeft, t.gasPrice)]

(* Variant: the over-gassed clause refunds half the limit (tx.gas >> 1). *)
GasSettlementHalfRefund(t, gasLeft) ==
  LET gasUsed == t.gas - gasLeft
      chargeAll == 3 * gasLeft >= gasUsed
      gasRefunded == t.gas \div 2
      gasCharged == IF chargeAll THEN t.gas - gasRefunded ELSE gasUsed
  IN [gasUsed |-> gasUsed, gasCharged |-> gasCharged,
      fee |-> SaturatingMul(gasCharged, t.gasPrice),
      refund |-> IF chargeAll THEN SaturatingMul(gasRefunded, t.gasPrice)
                 ELSE SaturatingMul(gasLeft, t.gasPrice)]

(* The refund clause: gas_used, charge_all, gas_charged, fees_value and   *)
(* refund_value (executor.rs 366-390).                                    *)
GasSettlement(t, gasLeft) ==
  LET gasUsed == t.gas - gasLeft
      chargeAll == 3 * gasLeft >= gasUsed
      gasRefunded == t.gas \div 4
      gasCharged == IF chargeAll THEN t.gas - gasRefunded ELSE gasUsed
  IN [gasUsed |-> gasUsed, gasCharged |-> gasCharged,
      fee |-> SaturatingMul(gasCharged, t.gasPrice),
      refund |-> IF chargeAll THEN SaturatingMul(gasRefunded, t.gasPrice)
                 ELSE SaturatingMul(gasLeft, t.gasPrice)]

(* Variant: contracts are removed but total_issued is not reduced. *)
KillProcessNoBurn(bal, acc, suicides) ==
  /\ balance' = [a \in Addr |-> IF a \in suicides THEN 0 ELSE bal[a]]
  /\ accounts' = acc \ suicides
  /\ code' = code \ suicides
  /\ nonce' = [a \in Addr |-> IF a \in suicides THEN StartNonce ELSE nonce[a]]
  /\ UNCHANGED totalIssued

(* kill_process: for each suicided contract, burn its balance from the     *)
(* issued supply and remove the contract (executor.rs 531-551).  The loop  *)
(* order over the HashSet does not change the state.                      *)
KillProcess(bal, acc, suicides) ==
  /\ balance' = [a \in Addr |-> IF a \in suicides THEN 0 ELSE bal[a]]
  /\ accounts' = acc \ suicides
  /\ code' = code \ suicides
  /\ nonce' = [a \in Addr |-> IF a \in suicides THEN StartNonce ELSE nonce[a]]
  /\ totalIssued' = totalIssued - BalanceSum(bal, suicides)

(* The Balance(contract) -> MintBurn entries kill_process traces, in the *)
(* order it visits the suicided contracts (executor.rs 538-545).         *)
KillTraceOf(order, bal) == [i \in DOMAIN order |-> <<order[i], bal[order[i]]>>]

(* Executed::execution_error_fully_charged *)
ExecutionErrorFullyCharged(t) ==
  [gasUsed |-> t.gas, gasCharged |-> t.gas, fee |-> SaturatingMul(t.gas, t.gasPrice),
   logs |-> 0, created |-> <<>>, estimate |-> {}]

(* Variant: the division by 6 comes before the multiplication by 7. *)
EstimatedGasLimitDivFirst(gasRequired, base) == (gasRequired \div 6) * 7 + base

(* estimated_gas_limit = gas_required * 7 / 6 + base_gas_required, in     *)
(* U256 (executor.rs 361-364): the product and the sum panic on overflow.  *)
EstimatedGasLimit(gasRequired, base) == (gasRequired * 7) \div 6 + base
EstimateOverflows(gasRequired, base) ==
  gasRequired * 7 > MaxWord \/ EstimatedGasLimit(gasRequired, base) > MaxWord

(* Some(estimate) when the observer has a gas manager; base_gas_required  *)
(* is tx.gas - init_gas.                                                   *)
Estimate == IF tx.gasMan THEN {EstimatedGasLimit(frame.gasRequired, tx.gas - initGas)}
            ELSE {}

(* Postprocessing panics: the estimate, or `gas_left + gas_left +          *)
(* gas_left` of the refund clause (executor.rs 375), overflows U256.      *)
PostprocessPanics ==
  \/ tx.gasMan /\ EstimateOverflows(frame.gasRequired, tx.gas - initGas)
  \/ 3 * GasLeftOf(frame) > MaxWord

(* The final classification of the result (executor.rs 432-466): a      *)
(* StateDbError bails out with the database error.                        *)
Classify(settled) ==
  IF frame.dbError THEN [kind |-> "DbError"] @@ NoExecuted
  ELSE IF ~frame.ok
  THEN [kind |-> "VmError"] @@ ExecutionErrorFullyCharged(tx)
  ELSE [kind |-> IF frame.applyState THEN "Finished" ELSE "Reverted",
        gasUsed |-> settled.gasUsed, gasCharged |-> settled.gasCharged,
        fee |-> settled.fee, logs |-> substate.logs, created |-> substate.created,
        estimate |-> Estimate]

Postprocess ==
  LET settled == GasSettlement(tx, GasLeftOf(frame))
      refunded == [balance EXCEPT ![tx.sender] = @ + settled.refund]
      acc == IF settled.refund /= 0 THEN accounts \cup {tx.sender} ELSE accounts
  IN
  /\ phase = "post"
  /\ ~PostprocessPanics
  /\ gasPocket' = gasPocket - settled.refund
  /\ KillProcess(refunded, acc, substate.suicides)
  /\ \E order \in [Nodes -> SetToSeqs(substate.suicides)] :
       killTrace' = [node \in Nodes |-> KillTraceOf(order[node], refunded)]
  /\ outcome' = Classify(settled)
  /\ phase' = "done"
  /\ UNCHANGED <<tx, initGas, frame, substate, pre, txCount>>

(* A U256 operation of postprocessing overflows: the uint crate panics    *)
(* (executor.rs 361-375).                                                  *)
PostprocessOverflow ==
  /\ phase = "post"
  /\ PostprocessPanics
  /\ phase' = "panic"
  /\ UNCHANGED <<state, tx, initGas, frame, substate, outcome, pre, txCount, killTrace>>

Next ==
  \/ \E t \in Txs : Preprocess(t)
  \/ ExecFrame
  \/ Postprocess
  \/ PostprocessOverflow

Spec == Init /\ [][Next]_vars

-----------------------------------------------------------------------------
(* Properties *)

TypeOK ==
  /\ accounts \subseteq Addr
  /\ balance \in [Addr -> 0..MaxWord]
  /\ nonce \in [Addr -> 0..MaxNonce]
  /\ code \subseteq Addr
  /\ totalIssued \in 0..MaxWord
  /\ phase \in {"idle", "exec", "post", "done", "panic"}
  /\ outcome.kind \in RejectKinds \cup ExecutedKinds \cup FaultKinds \cup {"None"}

(* Value is conserved: the balances of all accounts plus what the         *)
(* GasPayment pocket holds always equal the issued supply, whatever value  *)
(* the frames move, and however kill_process burns the balances of         *)
(* self-destructed contracts and subtracts them from total_issued.         *)
ValueConserved ==
  BalanceSum(balance, Addr) + gasPocket = totalIssued

(* The fee an executed outcome reports is exactly what the transaction     *)
(* moved from the sender to the GasPayment pocket: the gas charged in      *)
(* preprocessing minus the refund credited in postprocessing (spec 3.2).   *)
FeeMatchesCharge ==
  phase = "done" /\ outcome.kind \in ExecutedKinds
    => gasPocket - pre.pocket = outcome.fee

(* The refund clause never charges less gas than the frame used and never  *)
(* more than the limit; when it charges more than used, it charges at     *)
(* least three quarters of the limit.                                      *)
ChargeBounds ==
  phase = "done" /\ outcome.kind \in {"Reverted", "Finished"}
    => /\ outcome.gasUsed <= outcome.gasCharged
       /\ outcome.gasCharged <= tx.gas
       /\ outcome.gasCharged = outcome.gasUsed \/ 4 * outcome.gasCharged >= 3 * tx.gas

(* A Finished or Reverted outcome of a run with a gas manager carries an  *)
(* estimated_gas_limit, and it covers what the gas manager measured plus   *)
(* the base gas: `gas_required * 7 / 6` multiplies before it truncates, so *)
(* rounding loses at most the extra sixth (the spec's open question),      *)
(* never part of the requirement itself.                                   *)
EstimateCoversRequired ==
  phase = "done" /\ outcome.kind \in {"Finished", "Reverted"} /\ tx.gasMan =>
    \E e \in outcome.estimate :
       /\ e >= frame.gasRequired + (tx.gas - initGas)
       /\ 6 * (e - (tx.gas - initGas)) <= 7 * frame.gasRequired

(* Nonce discipline: a pre-execution reject (NotExecutedDrop,              *)
(* NotExecutedToReconsiderPacking) leaves the whole world state as it was; *)
(* every other outcome bumps the sender's nonce by exactly one.            *)
NonceDiscipline ==
  phase = "done" =>
    IF outcome.kind \in RejectKinds
    THEN state = pre.state
    ELSE NonceOf(tx.sender) = pre.nonce + 1

(* A database fault surfaces as Err only after transact_postprocessing    *)
(* has run on the failed result (refund, kill_process).  The state the    *)
(* caller is left to discard then differs from the state before transact  *)
(* by exactly preprocessing's gas charge (and nonce bump, see             *)
(* NonceDiscipline): postprocessing of an Err refunds nothing and burns    *)
(* nothing.                                                                *)
DbFaultLeavesOnlyCharge ==
  phase = "done" /\ outcome.kind = "DbError" =>
    LET cost == IF tx.chargeGas THEN tx.gas * tx.gasPrice ELSE 0
    IN /\ balance = [pre.state[2] EXCEPT ![tx.sender] = @ - cost]
       /\ gasPocket = pre.pocket + cost
       /\ code = pre.state[4]
       /\ totalIssued = pre.state[5]

(* The refund postprocessing credits to the sender (add_balance of        *)
(* refund_value, executor.rs 392-403) is paid back out of what this       *)
(* transaction put into the GasPayment pocket in preprocessing: the       *)
(* pocket never ends a transaction below where it started, so no refund   *)
(* is minted.                                                              *)
RefundWithinCharge == phase = "done" => gasPocket >= pre.pocket

(* Determinism (spec 8.1): two nodes executing the same transaction on   *)
(* the same state record the same trace, including the MintBurn entries  *)
(* kill_process emits while iterating the suicides set.                   *)
KillTraceDeterministic == killTrace["nodeA"] = killTrace["nodeB"]

(* No U256 operation of transact panics. *)
NoOverflowPanic == phase /= "panic"

=============================================================================
