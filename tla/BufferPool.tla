------------------------------ MODULE BufferPool -------------------------------
(***************************************************************************)
(* The bounded buffer pool of src/concurrency/buffer_pool.c together with  *)
(* the protocol by which execute_transaction uses it: a transaction loads  *)
(* accounts one at a time, none of them twice, and releases all of them in *)
(* reverse order when it ends.                                             *)
(*                                                                         *)
(* One action per critical section of pool_lock, per semaphore operation   *)
(* and per return: pool_lock is never held across a blocking call, so a    *)
(* critical section is one step, while the semaphore operations made       *)
(* outside it interleave with the other threads.                           *)
(***************************************************************************)
EXTENDS BankTypes, SequencesExt

CONSTANT BUFFER_POOL_SIZE   \* number of slots; 5 in the code

ASSUME PoolAssumption == BUFFER_POOL_SIZE \in Nat \ {0}

VARIABLES
  slots,            \* pool->slots
  empty_slots,      \* value of the semaphore of that name
  full_slots,       \* value of the semaphore of that name
  pool_stats,       \* load_count, unload_count, blocked_count, current_usage, peak_usage
  pool_pc,          \* where each thread is inside load_account or unload_account
  request,          \* the account each thread is loading
  loaded_accounts   \* each transaction's own list of the accounts it has loaded

poolVars == <<slots, empty_slots, full_slots, pool_stats, pool_pc, request, loaded_accounts>>

Slots == 1..BUFFER_POOL_SIZE

\* init_buffer_slots; the data pointer is the account of account_id (or NULL),
\* so it carries nothing account_id does not.
EmptySlot == [account_id |-> NoAccount, in_use |-> FALSE, pin_count |-> 0]

\* The slots a scan for account a may stop at, and those a scan for space may.
SlotsOf(a) == {i \in Slots : slots[i].in_use /\ slots[i].account_id = a}
FreeSlots  == {i \in Slots : ~slots[i].in_use}
InUse      == {i \in Slots : slots[i].in_use}

GoTo(t, from, to) ==
  /\ pool_pc[t] = from
  /\ pool_pc' = [pool_pc EXCEPT ![t] = to]
--------------------------------------------------------------------------------
\* InitialPermits mutated: a permit more than there are slots.
InitialPermits_OneTooMany == BUFFER_POOL_SIZE + 1

InitialPermits == BUFFER_POOL_SIZE

PoolInit ==
  /\ slots = [i \in Slots |-> EmptySlot]
  /\ empty_slots = InitialPermits
  /\ full_slots = 0
  /\ pool_stats = [load_count |-> 0, unload_count |-> 0, blocked_count |-> 0,
                   current_usage |-> 0, peak_usage |-> 0]
  /\ pool_pc = [t \in Txs |-> "idle"]
  /\ request = [t \in Txs |-> NoAccount]
  /\ loaded_accounts = [t \in Txs |-> <<>>]
--------------------------------------------------------------------------------
(***************************************************************************)
(* What the critical sections of pool_lock do to the slots and the         *)
(* statistics.  A scan stops at the first slot that matches.               *)
(***************************************************************************)

\* Pin mutated: the pin is not counted.
Pin_Uncounted(a) == slots

Pin(a)   == [slots EXCEPT ![Min(SlotsOf(a))].pin_count = @ + 1]
Unpin(a) == [slots EXCEPT ![Min(SlotsOf(a))].pin_count = @ - 1]
Fill(a)  == [slots EXCEPT ![Min(FreeSlots)] =
               [account_id |-> a, in_use |-> TRUE, pin_count |-> 1]]
Clear(a) == [slots EXCEPT ![Min(SlotsOf(a))] = EmptySlot]

\* pool->slots[i].pin_count-- leaves nothing (unload_account's inner test).
LastPin(a) == SlotsOf(a) # {} /\ slots[Min(SlotsOf(a))].pin_count - 1 <= 0

\* LoadedMeanwhile mutated: the second scan is left out.
LoadedMeanwhile_NotChecked(a) == FALSE

\* The second scan of load_account, made after a permit was taken.
LoadedMeanwhile(a) == SlotsOf(a) # {}

CountLoad ==
  LET usage == pool_stats.current_usage + 1 IN
  [pool_stats EXCEPT !.load_count = @ + 1, !.current_usage = usage,
                     !.peak_usage = IF usage > @ THEN usage ELSE @]

\* CountUnload mutated: current_usage is not decremented.
CountUnload_UsageKept == [pool_stats EXCEPT !.unload_count = @ + 1]

CountUnload == [pool_stats EXCEPT !.unload_count = @ + 1, !.current_usage = @ - 1]

\* load_account returns and load_account_for_transaction notes the account.
ReturnLoad(t) ==
  /\ loaded_accounts' = [loaded_accounts EXCEPT ![t] = Append(@, request[t])]
  /\ request' = [request EXCEPT ![t] = NoAccount]
--------------------------------------------------------------------------------
(***************************************************************************)
(* load_account                                                            *)
(***************************************************************************)

\* load_account_for_transaction: only an account not yet loaded is requested.
CallLoad(t, a) ==
  /\ a \notin ToSet(loaded_accounts[t])
  /\ GoTo(t, "idle", "lookup")
  /\ request' = [request EXCEPT ![t] = a]
  /\ UNCHANGED <<slots, empty_slots, full_slots, pool_stats, loaded_accounts>>

\* First critical section: the account is in the pool, so it is only pinned.
LookupHit(t) ==
  /\ GoTo(t, "lookup", "idle")
  /\ SlotsOf(request[t]) # {}
  /\ slots' = Pin(request[t])
  /\ ReturnLoad(t)
  /\ UNCHANGED <<empty_slots, full_slots, pool_stats>>

LookupMiss(t) ==
  /\ GoTo(t, "lookup", "trywait")
  /\ SlotsOf(request[t]) = {}
  /\ UNCHANGED <<slots, empty_slots, full_slots, pool_stats, request, loaded_accounts>>

\* sem_trywait(&pool->empty_slots) succeeds.
TryWaitTaken(t) ==
  /\ GoTo(t, "trywait", "insert")
  /\ empty_slots > 0
  /\ empty_slots' = empty_slots - 1
  /\ UNCHANGED <<slots, full_slots, pool_stats, request, loaded_accounts>>

\* sem_trywait fails with EAGAIN: the pool has no permit left.
TryWaitFull(t) ==
  /\ GoTo(t, "trywait", "count_blocked")
  /\ empty_slots = 0
  /\ UNCHANGED <<slots, empty_slots, full_slots, pool_stats, request, loaded_accounts>>

\* The critical section that counts the blocked load.
CountBlocked(t) ==
  /\ GoTo(t, "count_blocked", "wait_empty")
  /\ pool_stats' = [pool_stats EXCEPT !.blocked_count = @ + 1]
  /\ UNCHANGED <<slots, empty_slots, full_slots, request, loaded_accounts>>

\* sem_wait(&pool->empty_slots) returns with a permit.
WaitEmpty(t) ==
  /\ GoTo(t, "wait_empty", "insert")
  /\ empty_slots > 0
  /\ empty_slots' = empty_slots - 1
  /\ UNCHANGED <<slots, full_slots, pool_stats, request, loaded_accounts>>

\* Second critical section, another thread loaded the account meanwhile.
InsertShared(t) ==
  /\ GoTo(t, "insert", "return_permit")
  /\ LoadedMeanwhile(request[t])
  /\ slots' = Pin(request[t])
  /\ UNCHANGED <<empty_slots, full_slots, pool_stats, request, loaded_accounts>>

\* Second critical section, the account takes the first free slot.  Finding no
\* free slot is not an error in the code: the permit is handed back and the
\* caller is told nothing.
InsertFresh(t) ==
  /\ ~LoadedMeanwhile(request[t])
  /\ IF FreeSlots # {}
     THEN /\ GoTo(t, "insert", "post_full")
          /\ slots' = Fill(request[t])
          /\ pool_stats' = CountLoad
     ELSE /\ GoTo(t, "insert", "return_permit")
          /\ UNCHANGED <<slots, pool_stats>>
  /\ UNCHANGED <<empty_slots, full_slots, request, loaded_accounts>>

\* PostFull mutated: the post is forgotten.
PostFull_Skipped(t) ==
  /\ GoTo(t, "post_full", "idle")
  /\ ReturnLoad(t)
  /\ UNCHANGED <<slots, empty_slots, full_slots, pool_stats>>

\* sem_post(&pool->full_slots) after the insertion, then the return.
PostFull(t) ==
  /\ GoTo(t, "post_full", "idle")
  /\ full_slots' = full_slots + 1
  /\ ReturnLoad(t)
  /\ UNCHANGED <<slots, empty_slots, pool_stats>>

\* ReturnPermit mutated: the permit is not handed back.
ReturnPermit_Leaked(t) ==
  /\ GoTo(t, "return_permit", "idle")
  /\ ReturnLoad(t)
  /\ UNCHANGED <<slots, empty_slots, full_slots, pool_stats>>

\* sem_post(&pool->empty_slots) for a permit that was not needed, then the return.
ReturnPermit(t) ==
  /\ GoTo(t, "return_permit", "idle")
  /\ empty_slots' = empty_slots + 1
  /\ ReturnLoad(t)
  /\ UNCHANGED <<slots, full_slots, pool_stats>>
--------------------------------------------------------------------------------
(***************************************************************************)
(* unload_transaction_accounts and unload_account                          *)
(***************************************************************************)

\* The transaction commits or aborts and starts to release its accounts.
BeginUnload(t) ==
  /\ GoTo(t, "idle", "unload")
  /\ UNCHANGED <<slots, empty_slots, full_slots, pool_stats, request, loaded_accounts>>

\* The critical section of unload_account when other pins remain (or, which
\* changes nothing, when the account has no slot).
UnloadShared(t) ==
  LET a == Last(loaded_accounts[t]) IN
  /\ loaded_accounts[t] # <<>>
  /\ ~LastPin(a)
  /\ GoTo(t, "unload", "unload")
  /\ slots' = IF SlotsOf(a) = {} THEN slots ELSE Unpin(a)
  /\ loaded_accounts' = [loaded_accounts EXCEPT ![t] = Front(@)]
  /\ UNCHANGED <<empty_slots, full_slots, pool_stats, request>>

\* The critical section of unload_account that frees the slot.
UnloadLast(t) ==
  LET a == Last(loaded_accounts[t]) IN
  /\ loaded_accounts[t] # <<>>
  /\ LastPin(a)
  /\ GoTo(t, "unload", "wait_full")
  /\ slots' = Clear(a)
  /\ pool_stats' = CountUnload
  /\ loaded_accounts' = [loaded_accounts EXCEPT ![t] = Front(@)]
  /\ UNCHANGED <<empty_slots, full_slots, request>>

\* sem_wait(&pool->full_slots)
WaitFull(t) ==
  /\ GoTo(t, "wait_full", "post_empty")
  /\ full_slots > 0
  /\ full_slots' = full_slots - 1
  /\ UNCHANGED <<slots, empty_slots, pool_stats, request, loaded_accounts>>

\* sem_post(&pool->empty_slots)
PostEmpty(t) ==
  /\ GoTo(t, "post_empty", "unload")
  /\ empty_slots' = empty_slots + 1
  /\ UNCHANGED <<slots, full_slots, pool_stats, request, loaded_accounts>>

FinishUnload(t) ==
  /\ loaded_accounts[t] = <<>>
  /\ GoTo(t, "unload", "done")
  /\ UNCHANGED <<slots, empty_slots, full_slots, pool_stats, request, loaded_accounts>>
--------------------------------------------------------------------------------
\* A step of the pool's own code in thread t.
PoolStep(t) ==
  \/ LookupHit(t)    \/ LookupMiss(t)   \/ TryWaitTaken(t) \/ TryWaitFull(t)
  \/ CountBlocked(t) \/ WaitEmpty(t)    \/ InsertShared(t) \/ InsertFresh(t)
  \/ PostFull(t)     \/ ReturnPermit(t)
  \/ UnloadShared(t) \/ UnloadLast(t)   \/ WaitFull(t)     \/ PostEmpty(t)
  \/ FinishUnload(t)

\* The most general client: any account not yet loaded, in any order.
ClientStep(t) ==
  \/ \E a \in Accounts : CallLoad(t, a)
  \/ BeginUnload(t)

AllDone == \A t \in Txs : pool_pc[t] = "done"

\* Every thread has ended: the only state in which the pool may stand still.
PoolTerminated == AllDone /\ UNCHANGED poolVars

PoolNext ==
  \/ \E t \in Txs : PoolStep(t) \/ ClientStep(t)
  \/ PoolTerminated

PoolSafeSpec == PoolInit /\ [][PoolNext]_poolVars

\* Each thread keeps running while it is not blocked; a transaction has
\* finitely many operations, so it loads finitely often and then ends.
PoolSpec == PoolSafeSpec /\ \A t \in Txs : WF_poolVars(PoolStep(t) \/ ClientStep(t))
--------------------------------------------------------------------------------
(***************************************************************************)
(* Properties                                                              *)
(***************************************************************************)

\* The threads between a sem_wait and the sem_post that gives the permit back,
\* other than the one that keeps it in an occupied slot.
EmptyPermits == {t \in Txs : pool_pc[t] \in {"insert", "return_permit", "wait_full", "post_empty"}}

At(label) == {t \in Txs : pool_pc[t] = label}

\* t has a pin on the slot of a: the load returned or is past its last
\* critical section, and the unload has not run its own.
Holds(t, a) ==
  \/ a \in ToSet(loaded_accounts[t])
  \/ pool_pc[t] \in {"post_full", "return_permit"} /\ request[t] = a

Holders(a) == {t \in Txs : Holds(t, a)}

\* Type invariant; the reported usage never exceeds the slots there are.
PoolTypeOK ==
  /\ slots \in [Slots -> [account_id : Accounts \cup {NoAccount},
                          in_use : BOOLEAN, pin_count : Nat]]
  /\ empty_slots \in Nat
  /\ full_slots \in Nat
  /\ pool_stats \in [load_count : Nat, unload_count : Nat, blocked_count : Nat,
                     current_usage : 0..BUFFER_POOL_SIZE,
                     peak_usage : 0..BUFFER_POOL_SIZE]
  /\ pool_pc \in [Txs -> {"idle", "lookup", "trywait", "count_blocked", "wait_empty",
                          "insert", "post_full", "return_permit",
                          "unload", "wait_full", "post_empty", "done"}]
  /\ request \in [Txs -> Accounts \cup {NoAccount}]
  /\ loaded_accounts \in [Txs -> Seq(Accounts)]

\* No account ever has two slots, although two threads may both miss it in the
\* first scan of load_account and both go on to take a permit for it.
NoDuplicateSlots ==
  \A i, j \in InUse : slots[i].account_id = slots[j].account_id => i = j

\* A slot's pin_count is the number of transactions that hold its account, and
\* every held account has its slot: no transaction's account is evicted under
\* it by another one's unload, and no slot outlives its last holder.
PinsMatchHolders ==
  /\ \A i \in InUse :
       /\ slots[i].pin_count > 0
       /\ slots[i].pin_count = Cardinality(Holders(slots[i].account_id))
  /\ \A t \in Txs, a \in Accounts : Holds(t, a) => SlotsOf(a) # {}

\* No empty_slots permit is lost or made up: each is free, or stands for an
\* occupied slot, or is in the hands of one thread.
PermitsConserved ==
  empty_slots + Cardinality(InUse) + Cardinality(EmptyPermits) = BUFFER_POOL_SIZE

\* The same for full_slots, whose post trails the insertion and whose wait
\* trails the removal.
FullConserved ==
  full_slots + Cardinality(At("post_full")) = Cardinality(InUse) + Cardinality(At("wait_full"))

\* A thread that took a permit finds a free slot when its account is not loaded,
\* so load_account never returns without having loaded the account.
PermitMeansFreeSlot ==
  \A t \in Txs : pool_pc[t] = "insert" /\ SlotsOf(request[t]) = {} => FreeSlots # {}

\* The sem_wait(&full_slots) of unload_account never blocks, in whatever order
\* the late sem_posts of load_account arrive.
UnloadNeverBlocks ==
  \A t \in Txs : pool_pc[t] = "wait_full" => full_slots > 0

\* The buffer pool report is exact at every moment: current_usage counts the
\* occupied slots, loads minus unloads is the usage, the peak never exceeds the
\* capacity, and blocked_count covers every load that is waiting.
ReportExact ==
  /\ pool_stats.current_usage = Cardinality(InUse)
  /\ pool_stats.load_count - pool_stats.unload_count = pool_stats.current_usage
  /\ pool_stats.current_usage <= pool_stats.peak_usage
  /\ pool_stats.peak_usage <= BUFFER_POOL_SIZE
  /\ Cardinality(At("wait_empty")) <= pool_stats.blocked_count

\* No thread can go on, yet some have not ended.
Stuck ==
  /\ ~AllDone
  /\ \A t \in Txs : \/ pool_pc[t] = "done"
                    \/ pool_pc[t] = "wait_empty" /\ empty_slots = 0
                    \/ pool_pc[t] = "wait_full" /\ full_slots = 0

\* There is one way to get stuck: every slot is occupied by an account of a
\* transaction that itself waits for a slot, and one of these transactions wants
\* an account that is in no slot.  So there must be more accounts than slots.
OnlyHoldAndWait ==
  LET Waiting == At("wait_empty") IN
  Stuck =>
    /\ \A i \in Slots : slots[i].in_use
                      /\ \E t \in Waiting : slots[i].account_id \in ToSet(loaded_accounts[t])
    /\ \E t \in Waiting : SlotsOf(request[t]) = {}

\* Every transaction gets its accounts and ends, when the accounts fit the pool.
AllFinish == <>AllDone

(***************************************************************************)
(* The pool implements a set of pins of bounded residency.                 *)
(***************************************************************************)
PinHolders == [a \in Accounts |-> Holders(a)]
Retired    == {t \in Txs : pool_pc[t] \in {"unload", "wait_full", "post_empty", "done"}}

Pins == INSTANCE PinnedAccounts WITH
  Capacity <- BUFFER_POOL_SIZE, holders <- PinHolders, retired <- Retired

\* load_account and unload_account, with their five kinds of steps and two
\* semaphores, look to the transactions like one atomic pin and one atomic unpin.
ImplementsPins == Pins!Spec
================================================================================
