----------------------------- MODULE RootFrame ------------------------------
(***************************************************************************)
(* What FrameStack::exec promises its callers (transact and               *)
(* cross_vm_call): running a root frame is one atomic step that either    *)
(* applies (apply_state = true: the world state becomes whatever the run  *)
(* left and the substate carries the run's logs and created contracts) or *)
(* does not apply (an error or a revert: the world state is exactly the   *)
(* one before the frame and neither a log nor a created contract survives, *)
(* spec 8.5).  Value is conserved except for what the cross-space        *)
(* contract is credited by cross-VM calls whose frames survive: only a    *)
(* run that applies can create value.  This is the step ExecFrame of      *)
(* TxExecutor takes.                                                       *)
(***************************************************************************)
EXTENDS Integers, Sequences, FiniteSetsExt

CONSTANTS Addr, Keys, Vals, Datas, InitStorage, InitBalance

VARIABLES
  storage,  \* storage slot values, Addr -> (Keys -> Vals)
  balance,  \* balances, Addr -> Nat
  logs,     \* the logs of the substate returned to the caller
  created,  \* the contracts_created of that substate
  credited, \* value credited by cross-VM calls that survive
  status    \* "running" | "applied" | "reverted"

vars == <<storage, balance, logs, created, credited, status>>

Init ==
  /\ storage = InitStorage
  /\ balance = InitBalance
  /\ logs = <<>>
  /\ created = <<>>
  /\ credited = 0
  /\ status = "running"

TotalValue(bal) == MapThenSumSet(LAMBDA a : bal[a], Addr)

Apply ==
  /\ status = "running"
  /\ status' = "applied"
  /\ storage' \in [Addr -> [Keys -> Vals]]
  /\ balance' \in [Addr -> Nat]
  /\ logs' \in Seq([address : Addr, data : Datas])
  /\ created' \in Seq(Addr)
  /\ credited' \in Nat
  /\ TotalValue(balance') = TotalValue(balance) + credited'

Revert ==
  /\ status = "running"
  /\ status' = "reverted"
  /\ logs' = <<>>
  /\ created' = <<>>
  /\ credited' = 0
  /\ UNCHANGED <<storage, balance>>

Next == Apply \/ Revert

Spec == Init /\ [][Next]_vars
=============================================================================
