-------------------------------- MODULE MCBank ---------------------------------
(* Instances of Bank for TLC: account IDs are integers, an INT_MAX of 3 makes  *)
(* ints of three bits, so that sums overflow.                                 *)
EXTENDS Bank, TLC

TxSymmetry == Permutations(Txs)

Op(kind, account, amount, target) ==
  [type |-> kind, account_id |-> account, amount_centavos |-> amount, target_account |-> target]

\* Every kind of operation, with an unknown account, a negative amount, a
\* transfer from an account to itself and transfers in both directions.
MixedOperations ==
  { Op("DEPOSIT", 1, 2, NoAccount),  Op("DEPOSIT", 2, -1, NoAccount),
    Op("WITHDRAW", 1, 1, NoAccount), Op("BALANCE", 1, 0, NoAccount),
    Op("BALANCE", 7, 0, NoAccount),  Op("TRANSFER", 1, 1, 2),
    Op("TRANSFER", 2, 2, 1),         Op("TRANSFER", 1, 1, 1),
    Op("TRANSFER", 1, 1, 7) }

MixedBalances == {0, 2}
================================================================================
