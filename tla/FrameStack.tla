----------------------------- MODULE FrameStack -----------------------------
(***************************************************************************)
(* The call/create frame stack run by FrameStack::exec, with the          *)
(* operations internal contracts perform through InternalRefContext       *)
(* (src/cfx-evm/src/internal_contract/components/context.rs) and the      *)
(* nested frame stack of TXExecutor::cross_vm_call                        *)
(* (src/cfx-evm/src/execution/executor.rs).                               *)
(*                                                                         *)
(* The frame stack itself (call_create_frame) is not under src/; its      *)
(* steps follow spec section 4.4: a frame takes a checkpoint when it is   *)
(* entered, a child's substate is accrued into its parent's when the      *)
(* child applies, and the state is rolled back to the checkpoint when it  *)
(* does not.  A frame's code is abstracted to the choice, at every step,  *)
(* of the operation it performs next; gas to the bound MaxOps on the      *)
(* operations of the whole run.                                            *)
(*                                                                         *)
(* Ghost variables record every effect and every log with the frame that  *)
(* made it and every frame's parent and fate, so that the state can be    *)
(* compared with a replay of the effects no revert has undone.            *)
(***************************************************************************)
EXTENDS Integers, SequencesExt

CONSTANTS
  Addr,           \* addresses (model values)
  Internal,       \* addresses of internal contracts (InternalRefContext)
  CrossSpace,     \* CROSS_SPACE_CONTRACT_ADDRESS, an internal contract
  Root,           \* the address the root frame runs at
  Keys, Vals,     \* storage keys and values
  Datas,          \* log data
  Amounts,        \* values a call may transfer
  NewContracts,   \* addresses a CREATE may deploy to
  InitStorage,    \* storage before the root frame, Addr -> (Keys -> Vals)
  InitBalance,    \* balances before the root frame, Addr -> Nat
  MaxDepth,       \* spec.max_depth
  MaxFrames,      \* bound on the frames entered in one run
  MaxOps,         \* bound on the log and storage operations of one run (gas)
  CrossVmEnabled  \* whether the cross-space contract calls cross_vm_call

ASSUME CrossSpace \in Internal /\ Internal \subseteq Addr /\ Root \in Addr
ASSUME MaxDepth \in Nat /\ MaxFrames \in Nat \ {0} /\ MaxOps \in Nat

VARIABLES
  storage,   \* the world state's storage
  balance,   \* the world state's balances
  stack,     \* the frames, root first; each a record (see Frame)
  status,    \* "running" | "applied" | "reverted": the root frame's fate
  out,       \* the substate FrameStackOutput returns: logs, contracts_created
  ops,       \* operations performed so far
  nextFid,   \* identifiers of entered frames are 1..nextFid
  effects,   \* ghost: every state change, tagged with its frame
  emitted,   \* ghost: every log pushed, tagged with its frame
  finished,  \* ghost: the CREATE frames that applied, in the order they returned
  parent,    \* ghost: the parent of every entered frame (0 for a root)
  fate       \* ghost: "running" | "applied" | "reverted" for every frame

vars == <<storage, balance, stack, status, out, ops, nextFid,
          effects, emitted, finished, parent, fate>>

Fids == 1..MaxFrames
LogEntries == [address : Addr, data : Datas]
Top == stack[Len(stack)]

(* A frame: the InternalRefContext fields the model keeps (the address    *)
(* the frame runs at, static_flag, depth, whether it is a CREATE, the     *)
(* substate's logs and contracts_created) and the checkpoint taken when   *)
(* it was entered.                                                         *)
Frame(fid, addr, static, depth, isCreate) ==
  [fid |-> fid, addr |-> addr, static |-> static, depth |-> depth,
   isCreate |-> isCreate, logs |-> <<>>, created |-> <<>>,
   checkpoint |-> <<storage, balance>>]

SetTopLogs(l) == [stack EXCEPT ![Len(stack)].logs = l]

Init ==
  /\ storage = InitStorage
  /\ balance = InitBalance
  /\ stack = <<Frame(1, Root, FALSE, 0, FALSE)>>
  /\ status = "running"
  /\ out = [logs |-> <<>>, created |-> <<>>]
  /\ ops = 0
  /\ nextFid = 1
  /\ effects = <<>>
  /\ emitted = <<>>
  /\ finished = <<>>
  /\ parent = [f \in Fids |-> 0]
  /\ fate = [f \in Fids |-> IF f = 1 THEN "running" ELSE "none"]

-----------------------------------------------------------------------------
(* Substate::accrue of the logs: the parent's own logs, then the child's. *)
AccrueLogsChildFirst(parentLogs, childLogs) == childLogs \o parentLogs
AccrueLogs(parentLogs, childLogs) == parentLogs \o childLogs

(* The logs a returning frame hands on: all of them when it applies.       *)
KeptLogsAlways(c, apply) == c.logs
KeptLogs(c, apply) == IF apply THEN c.logs ELSE <<>>

(* The contracts_created a returning frame hands on when it applies: the  *)
(* ones its children created, then its own address if it is a CREATE,    *)
(* so that a contract appears after every contract its constructor        *)
(* created (executed.rs: "B creation ends first").                        *)
KeptCreatedOwnFirst(c, apply) ==
  IF apply THEN (IF c.isCreate THEN <<c.addr>> ELSE <<>>) \o c.created ELSE <<>>
KeptCreated(c, apply) ==
  IF apply THEN c.created \o (IF c.isCreate THEN <<c.addr>> ELSE <<>>) ELSE <<>>

RollBack(c, apply) == IF apply THEN <<storage, balance>> ELSE c.checkpoint

(* The frame stack lets the top frame return, the root included.          *)
CanReturn == stack /= <<>>

(* Returning from the top frame.  apply_state = true accrues its logs     *)
(* into the parent's substate; false discards them and rolls the state    *)
(* back to the frame's checkpoint.  When the root returns, its substate   *)
(* is the run's output.                                                    *)
ReturnFrame(apply) ==
  LET c == Top
      rest == SubSeq(stack, 1, Len(stack) - 1)
  IN /\ CanReturn
     /\ IF Len(stack) = 1
          THEN /\ stack' = <<>>
               /\ status' = IF apply THEN "applied" ELSE "reverted"
               /\ out' = [logs |-> KeptLogs(c, apply),
                          created |-> KeptCreated(c, apply)]
          ELSE /\ stack' = [rest EXCEPT
                    ![Len(rest)].logs = AccrueLogs(@, KeptLogs(c, apply)),
                    ![Len(rest)].created = AccrueLogs(@, KeptCreated(c, apply))]
               /\ UNCHANGED <<status, out>>
     /\ storage' = RollBack(c, apply)[1]
     /\ balance' = RollBack(c, apply)[2]
     /\ fate' = [fate EXCEPT ![c.fid] = IF apply THEN "applied" ELSE "reverted"]
     /\ finished' = IF apply /\ c.isCreate
                     THEN Append(finished, [fid |-> c.fid, addr |-> c.addr])
                     ELSE finished
     /\ UNCHANGED <<nextFid, effects, emitted, parent>>

(* The frame's code finishes: it returns, applied or not.                 *)
Return(apply) == ReturnFrame(apply) /\ UNCHANGED ops

(* InternalRefContext::log: in a static context the call fails with      *)
(* MutableCallInStaticContext and the frame returns the error; otherwise  *)
(* a LogEntry of the frame's address is pushed onto the substate's logs.  *)
Log(d) ==
  LET e == [address |-> Top.addr, data |-> d]
  IN /\ stack /= <<>> /\ ops < MaxOps
     /\ ops' = ops + 1
     /\ IF Top.static
          THEN ReturnFrame(FALSE)
          ELSE /\ stack' = SetTopLogs(Append(Top.logs, e))
               /\ emitted' = Append(emitted, [fid |-> Top.fid, entry |-> e])
               /\ UNCHANGED <<storage, balance, status, out, nextFid,
                              effects, finished, parent, fate>>

(* InternalRefContext::set_storage: writes the slot of the frame's        *)
(* address, whatever static_flag is.                                      *)
SetStorage(k, v) ==
  /\ stack /= <<>> /\ ops < MaxOps
  /\ Top.addr \in Internal
  /\ ops' = ops + 1
  /\ storage' = [storage EXCEPT ![Top.addr][k] = v]
  /\ effects' = Append(effects, [fid |-> Top.fid, kind |-> "store",
                                 addr |-> Top.addr, key |-> k, val |-> v])
  /\ UNCHANGED <<balance, stack, status, out, nextFid, emitted, finished, parent, fate>>

(* SSTORE of the EVM: in a static context the frame fails; otherwise the  *)
(* slot of the frame's address is written.                                *)
Sstore(k, v) ==
  /\ stack /= <<>> /\ ops < MaxOps
  /\ Top.addr \notin Internal
  /\ ops' = ops + 1
  /\ IF Top.static
       THEN ReturnFrame(FALSE)
       ELSE /\ storage' = [storage EXCEPT ![Top.addr][k] = v]
            /\ effects' = Append(effects, [fid |-> Top.fid, kind |-> "store",
                                           addr |-> Top.addr, key |-> k, val |-> v])
            /\ UNCHANGED <<balance, stack, status, out, nextFid, emitted,
                           finished, parent, fate>>

(* Entering a child frame: the checkpoint is taken, then the value moves  *)
(* from the caller to the callee.  The child inherits static_flag.        *)
EnterFrame(from, to, amt, static, depth, isCreate) ==
  LET fid == nextFid + 1
  IN /\ nextFid' = fid
     /\ balance' = [balance EXCEPT ![from] = @ - amt, ![to] = @ + amt]
     /\ stack' = Append(stack, Frame(fid, to, static, depth, isCreate))
     /\ effects' = Append(effects, [fid |-> fid, kind |-> "move",
                                    from |-> from, to |-> to, amt |-> amt])
     /\ parent' = [parent EXCEPT ![fid] = Top.fid]
     /\ fate' = [fate EXCEPT ![fid] = "running"]

(* A call fails without entering a frame above max_depth, or when the    *)
(* caller cannot pay the value.                                            *)
CallFailsNoBalance(amt) == Top.depth + 1 > MaxDepth
CallFails(amt) == Top.depth + 1 > MaxDepth \/ balance[Top.addr] < amt

(* CALL or STATICCALL of the VM (a static call carries no value).  Above  *)
(* max_depth, or without the value to transfer, the call fails with no    *)
(* frame entered and the caller goes on.                                  *)
Call(to, amt, isStatic) ==
  /\ stack /= <<>> /\ ops < MaxOps
  /\ isStatic => amt = 0
  /\ CallFails(amt) \/ nextFid < MaxFrames
  /\ ops' = ops + 1
  /\ IF CallFails(amt)
       THEN UNCHANGED <<storage, balance, stack, nextFid, effects, parent, fate>>
       ELSE /\ EnterFrame(Top.addr, to, amt, Top.static \/ isStatic, Top.depth + 1, FALSE)
            /\ UNCHANGED storage
  /\ UNCHANGED <<status, out, emitted, finished>>

(* CREATE of the VM: in a static frame it fails with                      *)
(* MutableCallInStaticContext; otherwise, like a call, it fails above      *)
(* max_depth or without the endowment, and else enters a CREATE frame at  *)
(* the new contract's address.                                             *)
Create(new, amt) ==
  /\ stack /= <<>> /\ ops < MaxOps
  /\ Top.static \/ CallFails(amt) \/ nextFid < MaxFrames
  /\ ops' = ops + 1
  /\ IF Top.static
       THEN ReturnFrame(FALSE)
       ELSE /\ IF CallFails(amt)
                 THEN UNCHANGED <<storage, balance, stack, nextFid, effects, parent, fate>>
                 ELSE /\ EnterFrame(Top.addr, new, amt, FALSE, Top.depth + 1, TRUE)
                      /\ UNCHANGED storage
            /\ UNCHANGED <<status, out, emitted, finished>>

(* The root frame cross_vm_call_preprocessing builds: a CALL of the       *)
(* receiver from the cross-space contract, new_call_raw at depth 0 and    *)
(* static_flag false whatever the calling frame's context.                *)
CrossVmFrame(fid, to) == Frame(fid, to, FALSE, 0, FALSE)

(* Variant: the root frame's checkpoint is taken before the credit. *)
CrossVmCheckpointBeforeCredit(credited) == <<storage, balance>>

(* cross_vm_call_preprocessing credits the value to the cross-space       *)
(* contract before FrameStack::new, so the root frame of the cross call   *)
(* checkpoints a state that already holds the credit.                     *)
CrossVmCheckpoint(credited) == <<storage, credited>>

(* TXExecutor::cross_vm_call, called by the cross-space contract's frame: *)
(* cross_vm_call_preprocessing credits the value to the cross-space       *)
(* contract (add_balance, in the caller's frame), then a new FrameStack   *)
(* runs a plain Call from the cross-space contract to the receiver with   *)
(* depth 0 and static_flag false.  Its output is merged into the caller's *)
(* substate as a child's is.                                               *)
CrossVmCall(to, amt) ==
  LET credited == [balance EXCEPT ![CrossSpace] = @ + amt]
      fid == nextFid + 1
  IN /\ CrossVmEnabled
     /\ stack /= <<>> /\ ops < MaxOps /\ nextFid < MaxFrames
     /\ Top.addr = CrossSpace
     /\ ops' = ops + 1
     /\ nextFid' = fid
     /\ balance' = [credited EXCEPT ![CrossSpace] = @ - amt, ![to] = @ + amt]
     /\ stack' = Append(stack,
                   [CrossVmFrame(fid, to) EXCEPT !.checkpoint = CrossVmCheckpoint(credited)])
     /\ effects' = effects \o
          <<[fid |-> Top.fid, kind |-> "mint", addr |-> CrossSpace, amt |-> amt],
            [fid |-> fid, kind |-> "move", from |-> CrossSpace, to |-> to, amt |-> amt]>>
     /\ parent' = [parent EXCEPT ![fid] = Top.fid]
     /\ fate' = [fate EXCEPT ![fid] = "running"]
     /\ UNCHANGED <<storage, status, out, emitted, finished>>

Next ==
  \/ \E apply \in BOOLEAN : Return(apply)
  \/ \E d \in Datas : Log(d)
  \/ \E k \in Keys, v \in Vals : SetStorage(k, v) \/ Sstore(k, v)
  \/ \E to \in Addr, amt \in Amounts, isStatic \in BOOLEAN : Call(to, amt, isStatic)
  \/ \E new \in NewContracts, amt \in Amounts : Create(new, amt)
  \/ \E to \in Addr \ Internal, amt \in Amounts : CrossVmCall(to, amt)

Spec == Init /\ [][Next]_vars

-----------------------------------------------------------------------------
TypeOK ==
  /\ storage \in [Addr -> [Keys -> Vals]]
  /\ balance \in [Addr -> Nat]
  /\ stack \in Seq([fid : Fids, addr : Addr, static : BOOLEAN, depth : Nat,
                    isCreate : BOOLEAN, logs : Seq(LogEntries), created : Seq(Addr),
                    checkpoint : [Addr -> [Keys -> Vals]] \X [Addr -> Nat]])
  /\ status \in {"running", "applied", "reverted"}
  /\ out \in [logs : Seq(LogEntries), created : Seq(Addr)]
  /\ ops \in 0..MaxOps /\ nextFid \in Fids
  /\ fate \in [Fids -> {"none", "running", "applied", "reverted"}]

(* An effect survives when neither its frame nor any frame the frame was  *)
(* entered from has been reverted.                                         *)
RECURSIVE Survives(_)
Survives(fid) ==
  /\ fate[fid] /= "reverted"
  /\ parent[fid] = 0 \/ Survives(parent[fid])

ApplyEffect(st, e) ==
  LET s == st[1]  b == st[2]
  IN CASE e.kind = "store" -> <<[s EXCEPT ![e.addr][e.key] = e.val], b>>
       [] e.kind = "move" -> <<s, [b EXCEPT ![e.from] = @ - e.amt, ![e.to] = @ + e.amt]>>
       [] e.kind = "mint" -> <<s, [b EXCEPT ![e.addr] = @ + e.amt]>>

Surviving(seq) == SelectSeq(seq, LAMBDA e : Survives(e.fid))

LogsMatchSurvivingLogs ==
  FoldLeft(LAMBDA acc, f : acc \o f.logs, <<>>, stack) \o out.logs
    = [i \in DOMAIN Surviving(emitted) |-> Surviving(emitted)[i].entry]

(* contracts_created lists the contracts whose CREATE frame applied and   *)
(* survived, in the order their frames returned: a contract created by a  *)
(* constructor comes before the contract of that constructor.             *)
CreatedInCompletionOrder ==
  FoldLeft(LAMBDA acc, f : acc \o f.created, <<>>, stack) \o out.created
    = [i \in DOMAIN Surviving(finished) |-> Surviving(finished)[i].addr]

(* The value the cross-space contract was credited by cross-VM calls     *)
(* whose frames were not reverted.                                         *)
SurvivingCredit ==
  FoldLeft(LAMBDA acc, e : acc + (IF e.kind = "mint" THEN e.amt ELSE 0), 0,
           Surviving(effects))

(* The root frame is run as one atomic step: to its caller the world      *)
(* state does not change until the root returns, and a root that does not *)
(* apply leaves the state exactly as it found it and returns no logs and  *)
(* no created contracts; a root that applies has created value only by    *)
(* the cross-space credits that survive.                                   *)
AbstractRoot == INSTANCE RootFrame WITH
  storage <- IF status = "running" THEN InitStorage ELSE storage,
  balance <- IF status = "running" THEN InitBalance ELSE balance,
  logs <- out.logs,
  created <- out.created,
  credited <- IF status = "running" THEN 0 ELSE SurvivingCredit
RootFrameSpec == AbstractRoot!Spec

(* A static context is read-only (section 4.3): while a static frame is   *)
(* on the stack, storage and balances stay what they were when it was     *)
(* entered.                                                                *)
StaticNoMutation ==
  \A i \in DOMAIN stack :
    stack[i].static => <<storage, balance>> = stack[i].checkpoint

(* A frame's context continues its caller's (sections 4.3 and 4.4): it   *)
(* is one level deeper, so that max_depth bounds the stack, and it is      *)
(* static when its caller is.                                              *)
ContextInherited ==
  \A i \in 2..Len(stack) :
    /\ stack[i].depth = stack[i - 1].depth + 1
    /\ stack[i - 1].static => stack[i].static
=============================================================================
