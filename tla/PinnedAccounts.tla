---------------------------- MODULE PinnedAccounts -----------------------------
(***************************************************************************)
(* What the buffer pool promises its transactions: an account stays        *)
(* resident while a transaction holds it, at most Capacity accounts are    *)
(* resident, and a transaction that has begun to release its accounts      *)
(* takes no more.  No slots, semaphores or counters.                       *)
(***************************************************************************)
EXTENDS BankTypes

CONSTANT Capacity   \* how many accounts may be resident at once

VARIABLES
  holders,          \* for each account, the transactions that hold it
  retired           \* the transactions that have begun to release

pinVars == <<holders, retired>>

Resident == {a \in Accounts : holders[a] # {}}

Init ==
  /\ holders = [a \in Accounts |-> {}]
  /\ retired = {}

\* A load takes effect: free of charge when the account is resident already.
PinAccount(t, a) ==
  /\ t \notin retired \cup holders[a]
  /\ a \in Resident \/ Cardinality(Resident) < Capacity
  /\ holders' = [holders EXCEPT ![a] = @ \cup {t}]
  /\ UNCHANGED retired

Retire(t) ==
  /\ t \notin retired
  /\ retired' = retired \cup {t}
  /\ UNCHANGED holders

\* An unload takes effect: it is never refused.
UnpinAccount(t, a) ==
  /\ t \in retired \cap holders[a]
  /\ holders' = [holders EXCEPT ![a] = @ \ {t}]
  /\ UNCHANGED retired

Next ==
  \E t \in Txs :
    \/ Retire(t)
    \/ \E a \in Accounts : PinAccount(t, a) \/ UnpinAccount(t, a)

Spec == Init /\ [][Next]_pinVars
================================================================================
