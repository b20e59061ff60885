-------------------------------- MODULE MCBankDB -------------------------------
(* Instances of BankDB for TLC.                                               *)
EXTENDS BankDB

DoOp(kind, account, amount, target) ==
  [type |-> kind, account_id |-> account, amount_centavos |-> amount, target_account |-> target]

Dep(a, n)     == DoOp("DEPOSIT", a, n, NoAccount)
Wdr(a, n)     == DoOp("WITHDRAW", a, n, NoAccount)
Xfer(a, b, n) == DoOp("TRANSFER", a, n, b)
Bal(a)        == DoOp("BALANCE", a, 0, NoAccount)

\* The operations of a set of programs.
OperationsOf(programs) == UNION {{p[i] : i \in 1..Len(p)} : p \in programs}

ZeroOrOne == {0, 1}
OneEach   == {1}

\* Transfers both ways, updates that may abort, a deposit that is
\* ignored and an unknown account.
CorePrograms == { <<Xfer(1, 2, 1), Dep(2, 1)>>, <<Xfer(2, 1, 1), Dep(1, -1)>>, <<Dep(1, 1), Wdr(2, 2)>>,
                  <<Bal(1), Xfer(1, 7, 1)>> }
CoreOperations == OperationsOf(CorePrograms)

\* One account per transaction; whether the withdrawal of 2 succeeds depends on
\* the deposits that came before it.
SinglePrograms == { <<Dep(1, 1)>>, <<Wdr(2, 1), Bal(2)>>, <<Wdr(1, 2)>> }
SingleOperations == OperationsOf(SinglePrograms)

\* One transfer per transaction.
TransferPrograms == { <<Xfer(1, 2, 1)>>, <<Xfer(3, 4, 1)>> }
TransferOperations == OperationsOf(TransferPrograms)

\* A deposit, then a withdrawal of too much.
HalfDonePrograms == { <<Dep(1, 1), Wdr(1, 5)>>, <<Bal(1), Dep(2, 1)>> }
HalfDoneOperations == OperationsOf(HalfDonePrograms)

\* Deposits that add up to more than INT_MAX.
OverflowPrograms == { <<Dep(1, 2)>>, <<Bal(2), Dep(1, 1)>> }
OverflowOperations == OperationsOf(OverflowPrograms)
================================================================================
