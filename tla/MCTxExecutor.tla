---------------------------- MODULE MCTxExecutor ----------------------------
(* Instantiation of TxExecutor for TLC: two senders, one deployed contract *)
(* and one free address that a Create deploys to.                         *)
EXTENDS TxExecutor

CONSTANTS s1, s2, c1, c2

MCAddr == {s1, s2, c1, c2}
MCSenders == {s1, s2}
MCInitCode == {c1}
\* s1 is funded, s2 has no account, c1 holds a little value
MCInitBalance == (s1 :> 9) @@ (s2 :> 0) @@ (c1 :> 2) @@ (c2 :> 0)
\* contract_address(FromSenderNonce, ...) of any sender and nonce is c2
MCContractAddress(sender, n) == c2
\* empty data, or one non-zero byte
MCDatas == {<<>>, <<1>>}
=============================================================================
