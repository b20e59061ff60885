------------------------------- MODULE PinProofs -------------------------------
(***************************************************************************)
(* Proofs about who holds what in BufferPool: pin counts, evictions, the   *)
(* one way to get stuck, and the pool as a set of pins.  They build on the *)
(* invariant of BufferPoolProofs.                                          *)
(***************************************************************************)
EXTENDS BufferPoolProofs

\* A transaction's own list has each account once.
NoRepeats(s) == \A i, j \in DOMAIN s : s[i] = s[j] => i = j

OwnList(t) ==
  /\ NoRepeats(loaded_accounts[t])
  /\ pool_pc[t] \in LoadLabels => request[t] \notin ToSet(loaded_accounts[t])
  /\ pool_pc[t] = "done" => loaded_accounts[t] = <<>>

\* Two threads never both inserted a slot for one account.
PostersDistinct ==
  \A t, u \in At("post_full") : request[t] = request[u] => t = u

\* t missed its account in its first scan, and u has it now.  So u took it after
\* that scan, and whoever takes an account has not missed one since: the relation
\* has no circle.
MissLabels == {"trywait", "count_blocked", "wait_empty", "insert"}

Overtaken(t, u) == pool_pc[t] \in MissLabels /\ Holds(u, request[t])

OvertakenInOrder ==
  \A S \in (SUBSET Txs) \ {{}} : \E t \in S : \A u \in S : ~Overtaken(t, u)

\* The inductive invariant, beside that of the slots and permits.
PinIInv ==
  /\ PinsMatchHolders
  /\ \A t \in Txs : OwnList(t)
  /\ PostersDistinct
  /\ OvertakenInOrder

LEMMA PinInitially == PoolInit => PinIInv
<1> SUFFICES ASSUME PoolInit PROVE PinIInv
  OBVIOUS
<1>1. /\ \A t \in Txs : pool_pc[t] = "idle" /\ loaded_accounts[t] = <<>>
      /\ InUse = {}
  BY DEF PoolInit, InUse, EmptySlot
<1>2. ToSet(<<>>) = {} /\ NoRepeats(<<>>)
  BY DEF ToSet, NoRepeats
<1>3. \A t \in Txs : OwnList(t) /\ \A a : ~Holds(t, a)
  BY <1>1, <1>2 DEF OwnList, LoadLabels, Holds
<1> QED
  BY <1>1, <1>3 DEF PinIInv, PinsMatchHolders, PostersDistinct, At, OvertakenInOrder, Overtaken
--------------------------------------------------------------------------------
(***************************************************************************)
(* Lists of accounts.                                                      *)
(***************************************************************************)
LEMMA ListAppend ==
  ASSUME NEW s \in Seq(Accounts), NEW e \in Accounts
  PROVE  /\ ToSet(Append(s, e)) = ToSet(s) \cup {e}
         /\ NoRepeats(s) /\ e \notin ToSet(s) => NoRepeats(Append(s, e))
<1> DEFINE new == Append(s, e)
<1>1. /\ Len(s) \in Nat
      /\ DOMAIN s = 1..Len(s)
      /\ DOMAIN new = 1..(Len(s) + 1)
      /\ \A i \in 1..Len(s) : new[i] = s[i]
      /\ new[Len(s) + 1] = e
  BY AppendProperties, LenProperties
<1> HIDE DEF new
<1>2. ToSet(new) = ToSet(s) \cup {e}
  <2>1. ASSUME NEW x \in ToSet(new) PROVE x \in ToSet(s) \cup {e}
    <3>1. PICK i \in 1..(Len(s) + 1) : x = new[i]
      BY <1>1, <2>1 DEF ToSet
    <3>2. i \in 1..Len(s) \/ i = Len(s) + 1
      BY <1>1
    <3> QED
      BY <1>1, <3>1, <3>2 DEF ToSet
  <2>2. ASSUME NEW x \in ToSet(s) PROVE x \in ToSet(new)
    <3>1. PICK i \in 1..Len(s) : x = s[i]
      BY <1>1, <2>2 DEF ToSet
    <3>2. i \in 1..(Len(s) + 1)
      BY <1>1
    <3> QED
      BY <1>1, <3>1, <3>2 DEF ToSet
  <2>3. e \in ToSet(new)
    <3>1. Len(s) + 1 \in 1..(Len(s) + 1)
      BY <1>1
    <3> QED
      BY <1>1, <3>1 DEF ToSet
  <2> QED
    BY <2>1, <2>2, <2>3
<1>3. ASSUME NoRepeats(s), e \notin ToSet(s) PROVE NoRepeats(new)
  <2> SUFFICES ASSUME NEW i \in 1..(Len(s) + 1), NEW j \in 1..(Len(s) + 1), new[i] = new[j]
               PROVE  i = j
    BY <1>1 DEF NoRepeats
  <2>1. \A k \in 1..Len(s) : new[k] # e
    BY <1>1, <1>3 DEF ToSet
  <2>2. /\ i \in 1..Len(s) \/ i = Len(s) + 1
        /\ j \in 1..Len(s) \/ j = Len(s) + 1
    BY <1>1
  <2> QED
    BY <1>1, <1>3, <2>1, <2>2 DEF NoRepeats
<1> QED
  BY <1>2, <1>3 DEF new

LEMMA ListFront ==
  ASSUME NEW s \in Seq(Accounts), s # <<>>, NoRepeats(s)
  PROVE  /\ Last(s) \in Accounts
         /\ Last(s) \in ToSet(s)
         /\ ToSet(Front(s)) = ToSet(s) \ {Last(s)}
         /\ NoRepeats(Front(s))
<1> DEFINE new == Front(s)
           n == Len(s)
<1>1. n \in Nat \ {0} /\ DOMAIN s = 1..n /\ \A i \in 1..n : s[i] \in Accounts
  BY EmptySeq, LenProperties, ElementOfSeq
<1>2. /\ DOMAIN new = 1..(n - 1)
      /\ \A i \in 1..(n - 1) : new[i] = s[i]
  <2>1. \A i \in 1..(n - 1) : s[i] \in Accounts
    BY <1>1
  <2>2. /\ SubSeq(s, 1, n - 1) \in Seq(Accounts)
        /\ Len(SubSeq(s, 1, n - 1)) = n - 1
        /\ \A i \in 1..(n - 1) : SubSeq(s, 1, n - 1)[i] = s[i]
    BY <1>1, <2>1, SubSeqProperties
  <2> QED
    BY <2>2, LenProperties DEF Front
<1>3. Last(s) = s[n] /\ n \in 1..n
  BY <1>1 DEF Last
<1> HIDE DEF new, n
<1>4. Last(s) \in Accounts /\ Last(s) \in ToSet(s)
  BY <1>1, <1>3 DEF ToSet
<1>5. \A i \in 1..(n - 1) : i \in 1..n /\ i # n
  BY <1>1
<1>6. \A i \in 1..n : i = n \/ i \in 1..(n - 1)
  BY <1>1
<1>7. ToSet(new) = ToSet(s) \ {Last(s)}
  BY <1>1, <1>2, <1>3, <1>5, <1>6 DEF ToSet, NoRepeats
<1>8. NoRepeats(new)
  BY <1>1, <1>2, <1>5 DEF NoRepeats
<1> QED
  BY <1>4, <1>7, <1>8 DEF new
--------------------------------------------------------------------------------
(***************************************************************************)
(* What a step does to the accounts its thread holds: it takes one, drops  *)
(* one or keeps them.  Finding no free slot would leave a load without its *)
(* account; FreeSlotFound excludes it.                                     *)
(***************************************************************************)
ThreadMoves(t) == PoolStep(t) \/ ClientStep(t)

Takes(t) == LookupHit(t) \/ InsertShared(t) \/ (InsertFresh(t) /\ FreeSlots # {})
Drops(t) == UnloadShared(t) \/ UnloadLast(t)

SameHolder(t) ==
  /\ pool_pc'[t] = pool_pc[t] /\ request'[t] = request[t]
  /\ loaded_accounts'[t] = loaded_accounts[t]

LEMMA OthersStay ==
  ASSUME PoolShape, NEW t \in Txs, ThreadMoves(t), NEW u \in Txs, u # t
  PROVE  SameHolder(u)
BY DEF ThreadMoves, PoolStep, ClientStep, PoolShape, SameHolder, GoTo, ReturnLoad,
       CallLoad, BeginUnload, LookupHit, LookupMiss, TryWaitTaken, TryWaitFull, CountBlocked,
       WaitEmpty, InsertShared, InsertFresh, PostFull, ReturnPermit, UnloadShared, UnloadLast,
       WaitFull, PostEmpty, FinishUnload

LEMMA StayHolds ==
  ASSUME NEW u \in Txs, SameHolder(u)
  PROVE  /\ \A a : Holds(u, a)' <=> Holds(u, a)
         /\ OwnList(u)' <=> OwnList(u)
<1>1. \A a : Holds(u, a)' <=> Holds(u, a)
  BY DEF SameHolder, Holds
<1>2. OwnList(u)' <=> OwnList(u)
  BY DEF SameHolder, OwnList
<1> QED
  BY <1>1, <1>2

\* The return from load_account adds the account to the list.
LEMMA ReturnList ==
  ASSUME PoolShape, NEW t \in Txs, pool_pc[t] \in LoadLabels, OwnList(t), ReturnLoad(t)
  PROVE  /\ ToSet(loaded_accounts'[t]) = ToSet(loaded_accounts[t]) \cup {request[t]}
         /\ NoRepeats(loaded_accounts'[t])
<1>1. /\ request[t] \in Accounts /\ loaded_accounts[t] \in Seq(Accounts)
      /\ loaded_accounts'[t] = Append(loaded_accounts[t], request[t])
  BY DEF PoolShape, ReturnLoad
<1> QED
  BY <1>1, ListAppend DEF OwnList

LEMMA TakeHolds ==
  ASSUME PoolShape, NEW t \in Txs, OwnList(t), Takes(t)
  PROVE  /\ request[t] \in Accounts
         /\ ~Holds(t, request[t])
         /\ \A a : Holds(t, a)' <=> Holds(t, a) \/ a = request[t]
         /\ OwnList(t)'
         /\ pool_pc'[t] \notin MissLabels
<1>1. pool_pc[t] \in {"lookup", "insert"}
  BY DEF Takes, LookupHit, InsertShared, InsertFresh, GoTo
<1>2. /\ request[t] \in Accounts
      /\ request[t] \notin ToSet(loaded_accounts[t])
      /\ \A a : Holds(t, a) <=> a \in ToSet(loaded_accounts[t])
  BY <1>1 DEF PoolShape, LoadLabels, OwnList, Holds
<1>3. CASE LookupHit(t)
  <2>1. pool_pc'[t] = "idle" /\ ReturnLoad(t)
    BY <1>3 DEF LookupHit, GoTo, PoolShape
  <2>2. /\ ToSet(loaded_accounts'[t]) = ToSet(loaded_accounts[t]) \cup {request[t]}
        /\ NoRepeats(loaded_accounts'[t])
    BY <1>1, <2>1, ReturnList DEF LoadLabels
  <2>3. \A a : Holds(t, a)' <=> a \in ToSet(loaded_accounts'[t])
    BY <2>1 DEF Holds
  <2> QED
    BY <1>2, <2>1, <2>2, <2>3 DEF OwnList, LoadLabels, MissLabels
<1>4. CASE InsertShared(t) \/ (InsertFresh(t) /\ FreeSlots # {})
  <2>1. /\ pool_pc'[t] \in {"post_full", "return_permit"}
        /\ request' = request /\ loaded_accounts' = loaded_accounts
    BY <1>4 DEF InsertShared, InsertFresh, GoTo, PoolShape
  <2>2. \A a : Holds(t, a)' <=> Holds(t, a) \/ a = request[t]
    BY <1>2, <2>1 DEF Holds
  <2>3. OwnList(t)'
    BY <1>2, <2>1 DEF OwnList
  <2> QED
    BY <1>2, <2>1, <2>2, <2>3 DEF MissLabels
<1> QED
  BY <1>3, <1>4 DEF Takes

LEMMA DropHolds ==
  ASSUME PoolShape, NEW t \in Txs, OwnList(t), Drops(t)
  PROVE  LET b == Last(loaded_accounts[t])
         IN  /\ b \in Accounts
             /\ Holds(t, b)
             /\ \A a : Holds(t, a)' <=> Holds(t, a) /\ a # b
             /\ OwnList(t)'
             /\ pool_pc[t] = "unload" /\ pool_pc'[t] \in {"unload", "wait_full"}
<1> DEFINE s == loaded_accounts[t]
<1>1. s \in Seq(Accounts)
  BY DEF PoolShape
<1>2. /\ pool_pc[t] = "unload" /\ pool_pc'[t] \in {"unload", "wait_full"}
      /\ s # <<>>
      /\ loaded_accounts'[t] = Front(s)
  BY DEF Drops, UnloadShared, UnloadLast, GoTo, PoolShape
<1>3. NoRepeats(s)
  BY DEF OwnList
<1> HIDE DEF s
<1>4. /\ Last(s) \in Accounts /\ Last(s) \in ToSet(s)
      /\ ToSet(Front(s)) = ToSet(s) \ {Last(s)}
      /\ NoRepeats(Front(s))
  BY <1>1, <1>2, <1>3, ListFront
<1>5. /\ \A a : Holds(t, a) <=> a \in ToSet(s)
      /\ \A a : Holds(t, a)' <=> a \in ToSet(Front(s))
  BY <1>2 DEF Holds, s
<1>6. OwnList(t)'
  BY <1>2, <1>4 DEF OwnList, LoadLabels
<1> QED
  BY <1>2, <1>4, <1>5, <1>6 DEF s

LEMMA KeepHolds ==
  ASSUME PoolShape, NEW t \in Txs, OwnList(t), ThreadMoves(t), ~Takes(t), ~Drops(t),
         pool_pc[t] = "insert" => FreeSlots # {}
  PROVE  /\ slots' = slots
         /\ \A a : Holds(t, a)' <=> Holds(t, a)
         /\ OwnList(t)'
         /\ pool_pc'[t] \in MissLabels =>
              /\ request'[t] = request[t]
              /\ pool_pc[t] \in MissLabels \/ SlotsOf(request[t]) = {}
         /\ pool_pc'[t] # "post_full"
<1> DEFINE Outside == {"idle", "lookup", "trywait", "count_blocked", "wait_empty", "insert", "unload",
                       "wait_full", "post_empty", "done"}
<1>1. CASE \E a \in Accounts : CallLoad(t, a)
  <2>1. PICK a \in Accounts : CallLoad(t, a)
    BY <1>1
  <2>2. /\ slots' = slots /\ pool_pc[t] = "idle" /\ pool_pc'[t] = "lookup"
        /\ request'[t] = a /\ loaded_accounts' = loaded_accounts
        /\ a \notin ToSet(loaded_accounts[t])
    BY <2>1 DEF CallLoad, GoTo, PoolShape
  <2>3. \A b : Holds(t, b)' <=> Holds(t, b)
    BY <2>2 DEF Holds
  <2>4. OwnList(t)'
    BY <2>2 DEF OwnList
  <2> QED
    BY <2>2, <2>3, <2>4 DEF MissLabels
<1>2. CASE PostFull(t) \/ ReturnPermit(t)
  <2>1. /\ slots' = slots /\ pool_pc[t] \in {"post_full", "return_permit"} /\ pool_pc'[t] = "idle"
        /\ ReturnLoad(t)
    BY <1>2 DEF PostFull, ReturnPermit, GoTo, PoolShape
  <2>2. /\ ToSet(loaded_accounts'[t]) = ToSet(loaded_accounts[t]) \cup {request[t]}
        /\ NoRepeats(loaded_accounts'[t])
    BY <2>1, ReturnList DEF LoadLabels
  <2>3. \A a : Holds(t, a)' <=> Holds(t, a)
    BY <2>1, <2>2 DEF Holds
  <2>4. OwnList(t)'
    BY <2>1, <2>2 DEF OwnList, LoadLabels
  <2> QED
    BY <2>1, <2>3, <2>4 DEF MissLabels
<1>3. CASE \/ BeginUnload(t) \/ LookupMiss(t) \/ TryWaitTaken(t) \/ TryWaitFull(t)
           \/ CountBlocked(t) \/ WaitEmpty(t) \/ WaitFull(t) \/ PostEmpty(t) \/ FinishUnload(t)
  <2>1. /\ UNCHANGED <<slots, request, loaded_accounts>>
        /\ pool_pc[t] \in Outside /\ pool_pc'[t] \in Outside
        /\ pool_pc'[t] = "done" => loaded_accounts[t] = <<>>
        /\ pool_pc'[t] \in LoadLabels => pool_pc[t] \in LoadLabels
        /\ pool_pc'[t] \in MissLabels => pool_pc[t] \in MissLabels \/ SlotsOf(request[t]) = {}
    BY <1>3 DEF BeginUnload, LookupMiss, TryWaitTaken, TryWaitFull, CountBlocked, WaitEmpty, WaitFull,
                PostEmpty, FinishUnload, GoTo, PoolShape, LoadLabels, MissLabels
  <2>2. \A a : Holds(t, a)' <=> Holds(t, a)
    BY <2>1 DEF Holds
  <2>3. OwnList(t)'
    BY <2>1 DEF OwnList
  <2> QED
    BY <2>1, <2>2, <2>3
<1> QED
  BY <1>1, <1>2, <1>3
     DEF ThreadMoves, PoolStep, ClientStep, Takes, Drops, InsertFresh, GoTo
--------------------------------------------------------------------------------
(***************************************************************************)
(* Pin counts.                                                             *)
(***************************************************************************)

\* PinsMatchHolders by accounts rather than slots.
PinsExact ==
  /\ \A i \in InUse : \A b : slots[i].account_id = b =>
       slots[i].pin_count > 0 /\ slots[i].pin_count = Cardinality(Holders(b))
  /\ \A b : Holders(b) # {} => SlotsOf(b) # {}

LEMMA HeldAccounts ==
  ASSUME PoolShape, NEW t \in Txs, NEW a, Holds(t, a)
  PROVE  a \in Accounts
<1>1. CASE a \in ToSet(loaded_accounts[t])
  <2>1. loaded_accounts[t] \in Seq(Accounts)
    BY DEF PoolShape
  <2>2. \E i \in 1..Len(loaded_accounts[t]) : a = loaded_accounts[t][i]
    BY <1>1, <2>1, LenProperties DEF ToSet
  <2> QED
    BY <2>1, <2>2, ElementOfSeq
<1>2. CASE pool_pc[t] \in {"post_full", "return_permit"} /\ request[t] = a
  BY <1>2 DEF PoolShape, LoadLabels
<1> QED
  BY <1>1, <1>2 DEF Holds

LEMMA PinsByAccount == PoolShape => (PinsMatchHolders <=> PinsExact)
<1> SUFFICES ASSUME PoolShape PROVE PinsMatchHolders <=> PinsExact
  OBVIOUS
<1>1. ASSUME PinsMatchHolders PROVE PinsExact
  <2>1. ASSUME NEW b, Holders(b) # {} PROVE SlotsOf(b) # {}
    <3>1. PICK t \in Txs : Holds(t, b)
      BY <2>1 DEF Holders
    <3> QED
      BY <1>1, <3>1, HeldAccounts DEF PinsMatchHolders
  <2> QED
    BY <1>1, <2>1 DEF PinsMatchHolders, PinsExact, Holders
<1>2. ASSUME PinsExact PROVE PinsMatchHolders
  BY <1>2 DEF PinsMatchHolders, PinsExact, Holders
<1> QED
  BY <1>1, <1>2

LEMMA PinsByAccountNext == PoolShape' => (PinsMatchHolders' <=> PinsExact')
BY PinsByAccount, PTL

LEMMA HoldersFinite ==
  ASSUME NEW a
  PROVE  IsFiniteSet(Holders(a)) /\ Cardinality(Holders(a)) \in Nat
BY BankTypesAssumption, FS_Subset, FS_CardinalityType DEF Holders

\* Of the holders of an account a step changes at most its own thread.
LEMMA HoldersStep ==
  ASSUME NEW t \in Txs, \A u \in Txs : u # t => SameHolder(u), NEW a
  PROVE  /\ (Holds(t, a)' <=> Holds(t, a)) => Holders(a)' = Holders(a)
         /\ Holds(t, a)' => Holders(a)' = Holders(a) \cup {t}
         /\ ~Holds(t, a)' => Holders(a)' = Holders(a) \ {t}
<1>1. \A u \in Txs : u # t => (Holds(u, a)' <=> Holds(u, a))
  BY StayHolds
<1> QED
  BY <1>1 DEF Holders

LEMMA PinStep ==
  ASSUME PoolShape, NoDuplicateSlots, PinsExact,
         NEW t \in Txs, OwnList(t), Takes(t), \A u \in Txs : u # t => SameHolder(u)
  PROVE  PinsExact'
<1>1. PICK a : a = request[t]
  OBVIOUS
<1>2. /\ a \in Accounts /\ ~Holds(t, a)
      /\ \A b : Holds(t, b)' <=> Holds(t, b) \/ b = a
  BY <1>1, TakeHolds
<1>3. /\ Holders(a)' = Holders(a) \cup {t} /\ t \notin Holders(a)
      /\ \A b : b # a => Holders(b)' = Holders(b)
  <2>1. Holders(a)' = Holders(a) \cup {t} /\ t \notin Holders(a)
    BY <1>2, HoldersStep DEF Holders
  <2>2. ASSUME NEW b, b # a PROVE Holders(b)' = Holders(b)
    BY <1>2, <2>2, HoldersStep
  <2> QED
    BY <2>1, <2>2
<1>4. /\ IsFiniteSet(Holders(a)) /\ Cardinality(Holders(a)) \in Nat
      /\ Cardinality(Holders(a)') = Cardinality(Holders(a)) + 1
  BY <1>3, HoldersFinite, FS_AddElement
<1>5. \A i \in InUse : i \in Slots /\ slots[i].pin_count \in Nat
  BY DEF InUse, PoolShape, SlotType
<1>6. CASE SlotsOf(a) # {} /\ slots' = Pin(a)
  <2>1. PICK m : m = Min(SlotsOf(a))
    OBVIOUS
  <2>2. /\ m \in SlotsOf(a)
        /\ \A i \in Slots : /\ slots'[i].in_use = slots[i].in_use
                            /\ slots'[i].account_id = slots[i].account_id
                            /\ slots'[i].pin_count = IF i = m THEN slots[i].pin_count + 1
                                                     ELSE slots[i].pin_count
    BY <1>6, <2>1, PinEffect
  <2>3. m \in InUse /\ slots[m].account_id = a /\ m \in Slots
    BY <2>2 DEF SlotsOf, InUse
  <2>4. InUse' = InUse
    BY <2>2, SameInUse
  <2>5. ASSUME NEW i \in InUse, NEW b, slots'[i].account_id = b
        PROVE  slots'[i].pin_count > 0 /\ slots'[i].pin_count = Cardinality(Holders(b)')
    <3>1. CASE i = m
      <4>1. slots[m].pin_count > 0 /\ slots[m].pin_count = Cardinality(Holders(a))
        BY <2>3 DEF PinsExact
      <4>2. b = a /\ slots'[m].pin_count = slots[m].pin_count + 1
        BY <2>2, <2>3, <2>5, <3>1
      <4> QED
        BY <1>4, <3>1, <4>1, <4>2
    <3>2. CASE i # m
      <4>1. slots[i].account_id = b /\ slots'[i].pin_count = slots[i].pin_count
        BY <1>5, <2>2, <2>5, <3>2
      <4>2. b # a
        BY <2>3, <3>2, <4>1 DEF NoDuplicateSlots
      <4> QED
        BY <1>3, <4>1, <4>2 DEF PinsExact
    <3> QED
      BY <3>1, <3>2
  <2>6. ASSUME NEW b, Holders(b)' # {} PROVE SlotsOf(b)' # {}
    <3>1. SlotsOf(b)' = SlotsOf(b)
      BY <2>2 DEF SlotsOf, Slots
    <3> QED
      BY <1>3, <1>6, <2>6, <3>1 DEF PinsExact
  <2> QED
    BY <2>4, <2>5, <2>6 DEF PinsExact
<1>7. CASE SlotsOf(a) = {} /\ FreeSlots # {} /\ slots' = Fill(a)
  <2>1. PICK m : m = Min(FreeSlots)
    OBVIOUS
  <2>2. /\ m \in FreeSlots
        /\ slots'[m] = [account_id |-> a, in_use |-> TRUE, pin_count |-> 1]
        /\ \A i \in Slots : i # m => slots'[i] = slots[i]
    BY <1>2, <1>7, <2>1, FillEffect
  <2>3. m \in Slots /\ m \notin InUse
    BY <2>2 DEF FreeSlots, InUse
  <2>4. Holders(a) = {} /\ Cardinality(Holders(a)') = 1
    <3>1. Holders(a) = {}
      BY <1>7 DEF PinsExact
    <3> QED
      BY <1>4, <3>1, FS_EmptySet
  <2>5. \A i \in InUse' : i \in Slots /\ (i # m => i \in InUse)
    BY <2>2 DEF InUse, Slots
  <2>6. ASSUME NEW i \in InUse', NEW b, slots'[i].account_id = b
        PROVE  slots'[i].pin_count > 0 /\ slots'[i].pin_count = Cardinality(Holders(b)')
    <3>1. CASE i = m
      BY <2>2, <2>4, <2>6, <3>1
    <3>2. CASE i # m
      <4>1. i \in InUse /\ slots'[i] = slots[i]
        BY <2>2, <2>5, <2>6, <3>2
      <4>2. b # a
        BY <1>7, <2>6, <4>1 DEF SlotsOf, InUse
      <4> QED
        BY <1>3, <2>6, <4>1, <4>2 DEF PinsExact
    <3> QED
      BY <3>1, <3>2
  <2>7. ASSUME NEW b, Holders(b)' # {} PROVE SlotsOf(b)' # {}
    <3>1. CASE b = a
      <4>1. m \in SlotsOf(a)'
        BY <2>2, <2>3 DEF SlotsOf, Slots
      <4> QED
        BY <3>1, <4>1
    <3>2. CASE b # a
      <4>1. PICK i : i \in SlotsOf(b)
        BY <1>3, <2>7, <3>2 DEF PinsExact
      <4>2. i \in Slots /\ i # m
        BY <2>3, <4>1 DEF SlotsOf, InUse
      <4>3. i \in SlotsOf(b)'
        BY <2>2, <4>1, <4>2 DEF SlotsOf, Slots
      <4> QED
        BY <4>3
    <3> QED
      BY <3>1, <3>2
  <2> QED
    BY <2>6, <2>7 DEF PinsExact
<1> QED
  BY <1>1, <1>6, <1>7 DEF Takes, LookupHit, InsertShared, InsertFresh, LoadedMeanwhile

LEMMA UnpinStep ==
  ASSUME PoolShape, NoDuplicateSlots, PinsExact,
         NEW t \in Txs, OwnList(t), Drops(t), \A u \in Txs : u # t => SameHolder(u)
  PROVE  PinsExact'
<1>1. PICK a : a = Last(loaded_accounts[t])
  OBVIOUS
<1>2. /\ a \in Accounts /\ Holds(t, a)
      /\ \A b : Holds(t, b)' <=> Holds(t, b) /\ b # a
  BY <1>1, DropHolds
<1>3. /\ Holders(a)' = Holders(a) \ {t} /\ t \in Holders(a)
      /\ \A b : b # a => Holders(b)' = Holders(b)
  <2>1. Holders(a)' = Holders(a) \ {t} /\ t \in Holders(a)
    BY <1>2, HoldersStep DEF Holders
  <2>2. ASSUME NEW b, b # a PROVE Holders(b)' = Holders(b)
    BY <1>2, <2>2, HoldersStep
  <2> QED
    BY <2>1, <2>2
<1>4. /\ IsFiniteSet(Holders(a)) /\ Cardinality(Holders(a)) \in Nat
      /\ IsFiniteSet(Holders(a)')
      /\ Cardinality(Holders(a)') = Cardinality(Holders(a)) - 1
  BY <1>3, HoldersFinite, FS_RemoveElement
<1>5. \A i \in InUse : i \in Slots /\ slots[i].pin_count \in Nat
  BY DEF InUse, PoolShape, SlotType
<1>6. SlotsOf(a) # {}
  BY <1>3 DEF PinsExact
<1>7. PICK m : m = Min(SlotsOf(a))
  OBVIOUS
<1>8. /\ m \in SlotsOf(a) /\ m \in InUse /\ m \in Slots /\ slots[m].account_id = a
      /\ slots[m].pin_count > 0 /\ slots[m].pin_count = Cardinality(Holders(a))
  <2>1. m \in SlotsOf(a)
    BY <1>6, <1>7, FirstSlot
  <2>2. m \in InUse /\ m \in Slots /\ slots[m].account_id = a
    BY <2>1 DEF SlotsOf, InUse
  <2> QED
    BY <2>1, <2>2 DEF PinsExact
<1>9. ASSUME NEW i \in InUse, i # m PROVE slots[i].account_id # a
  BY <1>8, <1>9 DEF NoDuplicateSlots
<1>10. CASE ~LastPin(a) /\ slots' = Unpin(a)
  <2>1. \A i \in Slots : /\ slots'[i].in_use = slots[i].in_use
                         /\ slots'[i].account_id = slots[i].account_id
                         /\ slots'[i].pin_count = IF i = m THEN slots[i].pin_count - 1
                                                  ELSE slots[i].pin_count
    BY <1>6, <1>7, <1>10, UnpinEffect
  <2>2. slots[m].pin_count - 1 > 0
    BY <1>5, <1>6, <1>7, <1>8, <1>10 DEF LastPin
  <2>3. InUse' = InUse
    BY <2>1, SameInUse
  <2>4. ASSUME NEW i \in InUse, NEW b, slots'[i].account_id = b
        PROVE  slots'[i].pin_count > 0 /\ slots'[i].pin_count = Cardinality(Holders(b)')
    <3>1. CASE i = m
      BY <1>4, <1>8, <2>1, <2>2, <2>4, <3>1
    <3>2. CASE i # m
      <4>1. slots[i].account_id = b /\ slots'[i].pin_count = slots[i].pin_count
        BY <1>5, <2>1, <2>4, <3>2
      <4> QED
        BY <1>3, <1>9, <3>2, <4>1 DEF PinsExact
    <3> QED
      BY <3>1, <3>2
  <2>5. ASSUME NEW b, Holders(b)' # {} PROVE SlotsOf(b)' # {}
    <3>1. SlotsOf(b)' = SlotsOf(b)
      BY <2>1 DEF SlotsOf, Slots
    <3>2. Holders(b) # {}
      BY <1>3, <2>5
    <3> QED
      BY <3>1, <3>2 DEF PinsExact
  <2> QED
    BY <2>3, <2>4, <2>5 DEF PinsExact
<1>11. CASE LastPin(a) /\ slots' = Clear(a)
  <2>1. /\ slots'[m] = EmptySlot
        /\ \A i \in Slots : i # m => slots'[i] = slots[i]
    BY <1>6, <1>7, <1>11, ClearEffect
  <2>2. Cardinality(Holders(a)) = 1 /\ Cardinality(Holders(a)') = 0
    BY <1>4, <1>5, <1>7, <1>8, <1>11 DEF LastPin
  <2>3. Holders(a)' = {}
    BY <1>4, <2>2, FS_EmptySet
  <2>4. \A i \in InUse' : i \in InUse /\ i # m
    BY <2>1 DEF InUse, Slots, EmptySlot
  <2>5. ASSUME NEW i \in InUse', NEW b, slots'[i].account_id = b
        PROVE  slots'[i].pin_count > 0 /\ slots'[i].pin_count = Cardinality(Holders(b)')
    <3>1. i \in InUse /\ i # m /\ slots'[i] = slots[i]
      BY <1>5, <2>1, <2>4
    <3> QED
      BY <1>3, <1>9, <2>5, <3>1 DEF PinsExact
  <2>6. ASSUME NEW b, Holders(b)' # {} PROVE SlotsOf(b)' # {}
    <3>1. b # a /\ Holders(b) # {}
      BY <1>3, <2>3, <2>6
    <3>2. PICK i : i \in SlotsOf(b)
      BY <3>1 DEF PinsExact
    <3>3. i \in Slots /\ i # m
      BY <1>8, <3>1, <3>2 DEF SlotsOf
    <3>4. i \in SlotsOf(b)'
      BY <2>1, <3>2, <3>3 DEF SlotsOf, Slots
    <3> QED
      BY <3>4
  <2> QED
    BY <2>5, <2>6 DEF PinsExact
<1> QED
  BY <1>1, <1>6, <1>10, <1>11 DEF Drops, UnloadShared, UnloadLast

LEMMA KeepStep ==
  ASSUME PinsExact, NEW t \in Txs, slots' = slots,
         \A a : Holds(t, a)' <=> Holds(t, a), \A u \in Txs : u # t => SameHolder(u)
  PROVE  PinsExact'
<1>1. ASSUME NEW b PROVE Holders(b)' = Holders(b)
  BY HoldersStep
<1>2. InUse' = InUse /\ \A b : SlotsOf(b)' = SlotsOf(b)
  BY DEF InUse, SlotsOf, Slots
<1> QED
  BY <1>1, <1>2 DEF PinsExact
--------------------------------------------------------------------------------
(***************************************************************************)
(* The other parts of the invariant.                                       *)
(***************************************************************************)

\* A thread that inserts a slot found none for its account, so none of the
\* threads still to post has inserted one.
LEMMA PostersStep ==
  ASSUME PoolShape, PinsMatchHolders, PostersDistinct,
         NEW t \in Txs, OwnList(t), ThreadMoves(t), pool_pc[t] = "insert" => FreeSlots # {},
         \A u \in Txs : u # t => SameHolder(u)
  PROVE  PostersDistinct'
<1>1. ASSUME NEW u \in At("post_full")', u # t
      PROVE  u \in At("post_full") /\ request'[u] = request[u]
  BY <1>1 DEF At, SameHolder
<1>2. CASE pool_pc'[t] # "post_full"
  <2>1. \A u \in At("post_full")' : u # t
    BY <1>2 DEF At
  <2> QED
    BY <1>1, <2>1 DEF PostersDistinct
<1>3. CASE pool_pc'[t] = "post_full"
  <2>1. Takes(t) \/ Drops(t)
    BY <1>3, KeepHolds
  <2>2. InsertFresh(t)
    BY <1>3, <2>1 DEF Takes, Drops, LookupHit, InsertShared, UnloadShared, UnloadLast, GoTo, PoolShape
  <2>3. SlotsOf(request[t]) = {} /\ request'[t] = request[t]
    BY <2>2 DEF InsertFresh, LoadedMeanwhile
  <2>4. ASSUME NEW u \in At("post_full")', u # t PROVE request'[u] # request'[t]
    <3>1. u \in Txs /\ Holds(u, request[u]) /\ request'[u] = request[u]
      BY <1>1, <2>4 DEF At, Holds
    <3>2. request[u] \in Accounts
      BY <3>1, HeldAccounts
    <3> QED
      BY <2>3, <3>1, <3>2 DEF PinsMatchHolders
  <2> QED
    BY <1>1, <2>4 DEF PostersDistinct
<1> QED
  BY <1>2, <1>3

\* A thread that takes or drops an account misses none afterwards, and one that
\* has just missed its account finds it held by no one.
LEMMA OrderStep ==
  ASSUME PoolShape, PinsMatchHolders, OvertakenInOrder,
         NEW t \in Txs, OwnList(t), ThreadMoves(t), pool_pc[t] = "insert" => FreeSlots # {},
         \A u \in Txs : u # t => SameHolder(u)
  PROVE  OvertakenInOrder'
<1> SUFFICES ASSUME NEW S \in (SUBSET Txs) \ {{}}
             PROVE  \E v \in S : \A u \in S : ~Overtaken(v, u)'
  BY DEF OvertakenInOrder
<1>1. PICK s \in S : \A u \in S : ~Overtaken(s, u)
  BY DEF OvertakenInOrder
<1>2. ASSUME NEW v \in Txs, NEW u \in Txs, v # t, u # t
      PROVE  Overtaken(v, u)' <=> Overtaken(v, u)
  BY <1>2, StayHolds DEF Overtaken, SameHolder
<1>3. CASE t \notin S
  BY <1>1, <1>2, <1>3
<1>4. CASE t \in S /\ pool_pc'[t] \notin MissLabels
  BY <1>4 DEF Overtaken
<1>5. CASE t \in S /\ pool_pc'[t] \in MissLabels
  <2>1. ~Takes(t) /\ ~Drops(t)
    BY <1>5, TakeHolds, DropHolds DEF MissLabels
  <2>2. /\ \A a : Holds(t, a)' <=> Holds(t, a)
        /\ request'[t] = request[t]
        /\ pool_pc[t] \in MissLabels \/ SlotsOf(request[t]) = {}
    BY <1>5, <2>1, KeepHolds
  <2>3. \A u \in Txs : \A a : Holds(u, a)' <=> Holds(u, a)
    BY <2>2, StayHolds
  <2>4. CASE pool_pc[t] \in MissLabels
    <3>1. \A v, u \in Txs : Overtaken(v, u)' <=> Overtaken(v, u)
      BY <1>5, <2>2, <2>3, <2>4 DEF Overtaken, SameHolder
    <3> QED
      BY <1>1, <3>1
  <2>5. CASE SlotsOf(request[t]) = {}
    <3>1. \A u \in Txs : ~Holds(u, request[t])
      BY <2>5, HeldAccounts DEF PinsMatchHolders
    <3> QED
      BY <1>5, <2>2, <2>3, <3>1 DEF Overtaken
  <2> QED
    BY <2>2, <2>4, <2>5
<1> QED
  BY <1>3, <1>4, <1>5

LEMMA PinInvStep ==
  ASSUME PoolIInv, PinIInv, NEW t \in Txs, ThreadMoves(t)
  PROVE  PinIInv'
<1>1. /\ PoolShape /\ NoDuplicateSlots /\ PinsMatchHolders /\ PinsExact
      /\ OwnList(t) /\ PostersDistinct /\ OvertakenInOrder
  BY PinsByAccount DEF PoolIInv, PinIInv
<1>2. \A u \in Txs : u # t => SameHolder(u)
  BY <1>1, OthersStay
<1>3. pool_pc[t] = "insert" => FreeSlots # {}
  BY PermitLeavesRoom
<1>4. PinsMatchHolders'
  <2>1. PinsExact'
    <3>1. CASE Takes(t)
      BY <1>1, <1>2, <3>1, PinStep
    <3>2. CASE Drops(t)
      BY <1>1, <1>2, <3>2, UnpinStep
    <3>3. CASE ~Takes(t) /\ ~Drops(t)
      BY <1>1, <1>2, <1>3, <3>3, KeepHolds, KeepStep
    <3> QED
      BY <3>1, <3>2, <3>3
  <2>2. PoolShape'
    BY <1>1, ShapeStep DEF PoolNext, ThreadMoves
  <2> QED
    BY <2>1, <2>2, PinsByAccountNext
<1>5. ASSUME NEW u \in Txs PROVE OwnList(u)'
  <2>1. CASE u = t
    BY <1>1, <1>3, <2>1, TakeHolds, DropHolds, KeepHolds
  <2>2. CASE u # t
    BY <1>2, <2>2, StayHolds DEF PinIInv
  <2> QED
    BY <2>1, <2>2
<1>6. PostersDistinct'
  BY <1>1, <1>2, <1>3, PostersStep
<1>7. OvertakenInOrder'
  BY <1>1, <1>2, <1>3, OrderStep
<1> QED
  BY <1>4, <1>5, <1>6, <1>7 DEF PinIInv

LEMMA PinInvariance == PoolSafeSpec => [](PoolIInv /\ PinIInv)
<1>1. PoolInit => PinIInv
  BY PinInitially
<1>2. PoolIInv /\ PinIInv /\ [PoolNext]_poolVars => PinIInv'
  <2> SUFFICES ASSUME PoolIInv, PinIInv, [PoolNext]_poolVars PROVE PinIInv'
    OBVIOUS
  <2>1. CASE UNCHANGED poolVars
    BY <2>1 DEF PinIInv, PinsMatchHolders, OwnList, PostersDistinct, OvertakenInOrder, Overtaken,
                Holders, Holds, InUse, SlotsOf, Slots, At, poolVars
  <2>2. CASE \E t \in Txs : ThreadMoves(t)
    BY <2>2, PinInvStep
  <2> QED
    BY <2>1, <2>2 DEF PoolNext, PoolTerminated, ThreadMoves
<1> QED
  BY <1>1, <1>2, PoolInvariance, PTL DEF PoolSafeSpec
--------------------------------------------------------------------------------
(***************************************************************************)
(* The theorems                                                            *)
(***************************************************************************)

\* A slot lives exactly as long as some transaction holds its account, and its
\* pin_count is the number of those that do.
THEOREM PinsAlwaysExact == PoolSafeSpec => []PinsMatchHolders
<1>1. PinIInv => PinsMatchHolders
  BY DEF PinIInv
<1> QED
  BY <1>1, PinInvariance, PTL

\* Threads that inserted and have yet to post full_slots fill a slot each.
LEMMA PostersHaveSlots ==
  ASSUME PoolIInv, PinIInv
  PROVE  Cardinality(At("post_full")) <= Cardinality(InUse)
<1>1. ASSUME NEW t \in At("post_full") PROVE SlotsOf(request[t]) # {}
  <2>1. t \in Txs /\ Holds(t, request[t])
    BY DEF At, Holds
  <2>2. request[t] \in Accounts
    BY <2>1, HeldAccounts DEF PoolIInv
  <2> QED
    BY <2>1, <2>2 DEF PinIInv, PinsMatchHolders
<1> DEFINE f == [t \in At("post_full") |-> CHOOSE i \in SlotsOf(request[t]) : TRUE]
<1>2. \A t \in At("post_full") : f[t] \in InUse /\ slots[f[t]].account_id = request[t]
  BY <1>1 DEF SlotsOf, InUse
<1>3. DOMAIN f = At("post_full") /\ f \in [At("post_full") -> InUse]
  BY <1>2
<1> HIDE DEF f
<1>4. \A t, u \in At("post_full") : f[t] = f[u] => t = u
  BY <1>2 DEF PinIInv, PostersDistinct
<1>5. f \in Injection(At("post_full"), InUse)
  BY <1>3, <1>4 DEF Injection, IsInjective
<1>6. IsFiniteSet(InUse)
  BY Occupancy, FS_Subset
<1> QED
  BY <1>5, <1>6, FS_Injection

LEMMA UnloadHasSlot == PoolIInv /\ PinIInv => UnloadNeverBlocks
<1> SUFFICES ASSUME PoolIInv, PinIInv, NEW t \in Txs, pool_pc[t] = "wait_full"
             PROVE  full_slots > 0
  BY DEF UnloadNeverBlocks
<1>1. At("wait_full") # {} /\ IsFiniteSet(At("wait_full")) /\ IsFiniteSet(At("post_full"))
  BY BankTypesAssumption, FS_Subset DEF At
<1>2. /\ Cardinality(At("wait_full")) \in Nat /\ Cardinality(At("wait_full")) # 0
      /\ Cardinality(At("post_full")) \in Nat
  BY <1>1, FS_CardinalityType, FS_EmptySet
<1>3. Cardinality(InUse) \in Nat /\ full_slots \in Nat
  BY Occupancy, PoolAssumption DEF PoolIInv, PoolShape
<1>4. Cardinality(At("post_full")) <= Cardinality(InUse)
  BY PostersHaveSlots
<1> QED
  BY <1>2, <1>3, <1>4 DEF PoolIInv, PoolBooks, FullConserved

\* The sem_wait(&full_slots) of unload_account never blocks, although the
\* sem_post it waits for may come long after the slot it stands for was filled.
THEOREM UnloadsNeverBlock == PoolSafeSpec => []UnloadNeverBlocks
BY UnloadHasSlot, PinInvariance, PTL

\* Where the threads and the slots are when nobody can go on.
LEMMA StuckShape ==
  ASSUME PoolIInv, PinIInv, Stuck
  PROVE  /\ \A t \in Txs : pool_pc[t] \in {"done", "wait_empty"}
         /\ At("wait_empty") # {}
         /\ InUse = Slots
         /\ \A i \in Slots : \E t \in At("wait_empty") :
              slots[i].account_id \in ToSet(loaded_accounts[t])
<1>1. \A t \in Txs : pool_pc[t] \in {"done", "wait_empty"}
  BY UnloadHasSlot DEF Stuck, UnloadNeverBlocks
<1>2. At("wait_empty") # {} /\ empty_slots = 0
  BY <1>1 DEF Stuck, AllDone, At
<1>3. InUse = Slots
  <2>1. EmptyPermits = {}
    BY <1>1 DEF EmptyPermits
  <2>2. Cardinality(EmptyPermits) = 0 /\ Cardinality(InUse) \in Nat
    BY <2>1, FS_EmptySet, Occupancy, PoolAssumption
  <2>3. Cardinality(InUse) = BUFFER_POOL_SIZE
    BY <1>2, <2>2, PoolAssumption DEF PoolIInv, PoolBooks, PermitsConserved
  <2>4. IsFiniteSet(Slots) /\ Cardinality(Slots) = BUFFER_POOL_SIZE
    BY PoolAssumption, FS_Interval DEF Slots
  <2> QED
    BY <2>3, <2>4, Occupancy, FS_Subset
<1>4. ASSUME NEW i \in Slots
      PROVE  \E t \in At("wait_empty") : slots[i].account_id \in ToSet(loaded_accounts[t])
  <2>1. PICK a : a = slots[i].account_id
    OBVIOUS
  <2>2. slots[i].pin_count > 0 /\ slots[i].pin_count = Cardinality(Holders(a))
    BY <1>3, <2>1 DEF PinIInv, PinsMatchHolders
  <2>3. Holders(a) # {}
    BY <2>2, FS_EmptySet
  <2>4. PICK t \in Txs : Holds(t, a)
    BY <2>3 DEF Holders
  <2>5. a \in ToSet(loaded_accounts[t])
    BY <1>1, <2>4 DEF Holds
  <2>6. loaded_accounts[t] # <<>>
    BY <2>5 DEF ToSet
  <2>7. t \in At("wait_empty")
    BY <1>1, <2>4, <2>6 DEF PinIInv, OwnList, At
  <2> QED
    BY <2>1, <2>5, <2>7
<1> QED
  BY <1>1, <1>2, <1>3, <1>4

LEMMA StuckByHolding == PoolIInv /\ PinIInv => OnlyHoldAndWait
<1> SUFFICES ASSUME PoolIInv, PinIInv, Stuck
             PROVE  /\ \A i \in Slots :
                         /\ slots[i].in_use
                         /\ \E t \in At("wait_empty") :
                              slots[i].account_id \in ToSet(loaded_accounts[t])
                    /\ \E t \in At("wait_empty") : SlotsOf(request[t]) = {}
  BY DEF OnlyHoldAndWait
<1>1. \A i \in Slots : /\ slots[i].in_use
                       /\ \E t \in At("wait_empty") :
                            slots[i].account_id \in ToSet(loaded_accounts[t])
  BY StuckShape DEF InUse
<1>2. PICK t \in At("wait_empty") : \A u \in At("wait_empty") : ~Overtaken(t, u)
  BY StuckShape DEF PinIInv, OvertakenInOrder, At
<1>3. ASSUME NEW i \in SlotsOf(request[t]) PROVE FALSE
  <2>1. PICK u \in At("wait_empty") : request[t] \in ToSet(loaded_accounts[u])
    BY <1>1, <1>3 DEF SlotsOf
  <2>2. Overtaken(t, u)
    BY <2>1 DEF Overtaken, Holds, MissLabels, At
  <2> QED
    BY <1>2, <2>1, <2>2
<1> QED
  BY <1>1, <1>2, <1>3

\* The pool gets stuck in one way only: all its slots are held by transactions
\* that wait for a slot, and the account one of them wants is in none.
THEOREM DeadlocksOnlyByHolding == PoolSafeSpec => []OnlyHoldAndWait
BY StuckByHolding, PinInvariance, PTL

\* With no more accounts than slots no execution gets stuck, in whatever order
\* the transactions load their accounts.
THEOREM NeverStuckWhenAccountsFit ==
  ASSUME Cardinality(Accounts) <= BUFFER_POOL_SIZE
  PROVE  PoolSafeSpec => []~Stuck
<1>1. PoolIInv /\ PinIInv => ~Stuck
  <2> SUFFICES ASSUME PoolIInv, PinIInv, Stuck PROVE FALSE
    OBVIOUS
  <2>1. PICK t \in At("wait_empty") : SlotsOf(request[t]) = {}
    BY StuckByHolding DEF OnlyHoldAndWait
  <2>2. PICK wanted : wanted = request[t]
    OBVIOUS
  <2>3. wanted \in Accounts
    BY <2>2 DEF At, PoolIInv, PoolShape, LoadLabels
  <2> DEFINE Others == Accounts \ {wanted}
             f == [i \in Slots |-> slots[i].account_id]
  <2>4. ASSUME NEW i \in Slots PROVE slots[i].account_id \in Others
    <3>1. PICK u \in Txs : Holds(u, slots[i].account_id)
      BY StuckShape DEF At, Holds
    <3>2. slots[i].account_id \in Accounts
      BY <3>1, HeldAccounts DEF PoolIInv
    <3>3. slots[i].account_id # wanted
      BY <2>1, <2>2, StuckShape DEF SlotsOf, InUse
    <3> QED
      BY <3>2, <3>3
  <2>5. \A i, j \in Slots : slots[i].account_id = slots[j].account_id => i = j
    BY StuckShape DEF PoolIInv, NoDuplicateSlots
  <2>6. f \in Injection(Slots, Others)
    BY <2>4, <2>5 DEF Injection, IsInjective
  <2>7. /\ IsFiniteSet(Others) /\ Cardinality(Accounts) \in Nat
        /\ Cardinality(Others) = Cardinality(Accounts) - 1
    BY <2>3, BankTypesAssumption, FS_RemoveElement, FS_CardinalityType
  <2> HIDE DEF f, Others
  <2>8. Cardinality(Slots) <= Cardinality(Others)
    BY <2>6, <2>7, FS_Injection
  <2>9. Cardinality(Slots) = BUFFER_POOL_SIZE
    BY PoolAssumption, FS_Interval DEF Slots
  <2> QED
    BY <2>7, <2>8, <2>9, PoolAssumption
<1> QED
  BY <1>1, PinInvariance, PTL
--------------------------------------------------------------------------------
(***************************************************************************)
(* The pool implements PinnedAccounts: Takes is PinAccount, Drops is       *)
(* UnpinAccount, BeginUnload is Retire, and every other step changes       *)
(* neither the holders nor the retired.                                    *)
(***************************************************************************)

\* The abstract specification counts as this one does.
LEMMA SameCardinality == \A S : Pins!Cardinality(S) = Cardinality(S)
BY DEF Pins!Cardinality, Cardinality

\* The accounts someone holds are no more than the occupied slots.
LEMMA ResidentFitsInUse ==
  ASSUME PoolIInv, PinIInv
  PROVE  /\ Cardinality(Pins!Resident) \in Nat
         /\ Cardinality(Pins!Resident) <= Cardinality(InUse)
<1>1. ASSUME NEW a \in Pins!Resident PROVE SlotsOf(a) # {}
  BY PinsByAccount DEF Pins!Resident, PinHolders, PoolIInv, PinIInv, PinsExact
<1> DEFINE f == [a \in Pins!Resident |-> CHOOSE i \in SlotsOf(a) : TRUE]
<1>2. \A a \in Pins!Resident : f[a] \in InUse /\ slots[f[a]].account_id = a
  BY <1>1 DEF SlotsOf, InUse
<1>3. f \in [Pins!Resident -> InUse]
  BY <1>2
<1> HIDE DEF f
<1>4. f \in Injection(Pins!Resident, InUse)
  BY <1>2, <1>3 DEF Injection, IsInjective
<1>5. IsFiniteSet(InUse)
  BY Occupancy, FS_Subset
<1> QED
  BY <1>4, <1>5, FS_Injection, FS_CardinalityType

LEMMA SameHolders ==
  ASSUME NEW t \in Txs, \A u \in Txs : u # t => SameHolder(u),
         \A a : Holds(t, a)' <=> Holds(t, a)
  PROVE  PinHolders' = PinHolders
BY HoldersStep DEF PinHolders

\* Only BeginUnload changes which transactions have begun to release.
LEMMA RetiredStep ==
  ASSUME PoolShape, NEW t \in Txs, ThreadMoves(t), ~BeginUnload(t)
  PROVE  Retired' = Retired
<1>1. /\ pool_pc'[t] \in {"unload", "wait_full", "post_empty", "done"}
           <=> pool_pc[t] \in {"unload", "wait_full", "post_empty", "done"}
      /\ \A u \in Txs : u # t => pool_pc'[u] = pool_pc[u]
  BY DEF ThreadMoves, PoolStep, ClientStep, PoolShape, GoTo, CallLoad, LookupHit, LookupMiss,
         TryWaitTaken, TryWaitFull, CountBlocked, WaitEmpty, InsertShared, InsertFresh, PostFull,
         ReturnPermit, UnloadShared, UnloadLast, WaitFull, PostEmpty, FinishUnload
<1> QED
  BY <1>1 DEF Retired

LEMMA TakeIsPin ==
  ASSUME PoolIInv, PinIInv, NEW t \in Txs, Takes(t)
  PROVE  Pins!PinAccount(t, request[t])
<1>1. PICK a : a = request[t]
  OBVIOUS
<1>2. PoolShape /\ OwnList(t) /\ ThreadMoves(t) /\ ~BeginUnload(t)
  BY DEF PoolIInv, PinIInv, Takes, ThreadMoves, PoolStep, LookupHit, InsertShared, InsertFresh,
         BeginUnload, GoTo
<1>3. /\ a \in Accounts /\ ~Holds(t, a)
      /\ \A b : Holds(t, b)' <=> Holds(t, b) \/ b = a
  BY <1>1, <1>2, TakeHolds
<1>4. \A u \in Txs : u # t => SameHolder(u)
  BY <1>2, OthersStay
<1>5. Retired' = Retired
  BY <1>2, RetiredStep
<1>6. PinHolders' = [PinHolders EXCEPT ![a] = @ \cup {t}]
  <2>1. Holders(a)' = Holders(a) \cup {t}
    BY <1>3, <1>4, HoldersStep
  <2>2. ASSUME NEW b, b # a PROVE Holders(b)' = Holders(b)
    BY <1>3, <1>4, <2>2, HoldersStep
  <2> QED
    BY <1>3, <2>1, <2>2 DEF PinHolders
<1>7. t \notin Retired \cup PinHolders[a]
  <2>1. t \notin Retired
    BY DEF Retired, Takes, LookupHit, InsertShared, InsertFresh, GoTo
  <2> QED
    BY <1>3, <2>1 DEF PinHolders, Holders
<1>8. a \in Pins!Resident \/ Cardinality(Pins!Resident) < BUFFER_POOL_SIZE
  <2>1. CASE SlotsOf(a) # {}
    <3>1. PICK i \in InUse : slots[i].account_id = a
      BY <2>1 DEF SlotsOf, InUse
    <3>2. slots[i].pin_count > 0 /\ slots[i].pin_count = Cardinality(Holders(a))
      BY <3>1 DEF PinIInv, PinsMatchHolders
    <3>3. Holders(a) # {}
      BY <3>2, FS_EmptySet
    <3> QED
      BY <1>3, <3>3 DEF Pins!Resident, PinHolders
  <2>2. CASE SlotsOf(a) = {}
    <3>1. pool_pc[t] = "insert"
      BY <1>1, <2>2 DEF Takes, LookupHit, InsertShared, InsertFresh, LoadedMeanwhile, GoTo
    <3>2. Cardinality(InUse) < BUFFER_POOL_SIZE /\ Cardinality(InUse) \in Nat
      BY <3>1, PermitLeavesRoom, Occupancy, PoolAssumption
    <3> QED
      BY <3>2, ResidentFitsInUse, PoolAssumption
  <2> QED
    BY <2>1, <2>2
<1> QED
  BY <1>1, <1>5, <1>6, <1>7, <1>8, SameCardinality DEF Pins!PinAccount

LEMMA DropIsUnpin ==
  ASSUME PoolIInv, PinIInv, NEW t \in Txs, Drops(t)
  PROVE  Pins!UnpinAccount(t, Last(loaded_accounts[t]))
<1>1. PICK a : a = Last(loaded_accounts[t])
  OBVIOUS
<1>2. PoolShape /\ OwnList(t) /\ ThreadMoves(t) /\ ~BeginUnload(t)
  BY DEF PoolIInv, PinIInv, Drops, ThreadMoves, PoolStep, UnloadShared, UnloadLast, BeginUnload, GoTo
<1>3. /\ a \in Accounts /\ Holds(t, a) /\ pool_pc[t] = "unload"
      /\ \A b : Holds(t, b)' <=> Holds(t, b) /\ b # a
  BY <1>1, <1>2, DropHolds
<1>4. \A u \in Txs : u # t => SameHolder(u)
  BY <1>2, OthersStay
<1>5. Retired' = Retired
  BY <1>2, RetiredStep
<1>6. PinHolders' = [PinHolders EXCEPT ![a] = @ \ {t}]
  <2>1. Holders(a)' = Holders(a) \ {t}
    BY <1>3, <1>4, HoldersStep
  <2>2. ASSUME NEW b, b # a PROVE Holders(b)' = Holders(b)
    BY <1>3, <1>4, <2>2, HoldersStep
  <2> QED
    BY <1>3, <2>1, <2>2 DEF PinHolders
<1>7. t \in Retired \cap PinHolders[a]
  BY <1>3 DEF Retired, PinHolders, Holders
<1> QED
  BY <1>1, <1>5, <1>6, <1>7 DEF Pins!UnpinAccount

LEMMA BeginIsRetire ==
  ASSUME PoolIInv, PinIInv, NEW t \in Txs, BeginUnload(t)
  PROVE  Pins!Retire(t)
<1>1. /\ PoolShape /\ OwnList(t) /\ ThreadMoves(t) /\ ~Takes(t) /\ ~Drops(t)
      /\ pool_pc[t] = "idle" /\ pool_pc'[t] = "unload"
      /\ \A u \in Txs : u # t => pool_pc'[u] = pool_pc[u]
  BY DEF PoolIInv, PinIInv, ThreadMoves, ClientStep, BeginUnload, Takes, Drops, LookupHit,
         InsertShared, InsertFresh, UnloadShared, UnloadLast, GoTo, PoolShape
<1>2. PinHolders' = PinHolders
  BY <1>1, OthersStay, KeepHolds, SameHolders
<1>3. Retired' = Retired \cup {t} /\ t \notin Retired
  BY <1>1 DEF Retired
<1> QED
  BY <1>2, <1>3 DEF Pins!Retire

LEMMA KeepIsStutter ==
  ASSUME PoolIInv, PinIInv, NEW t \in Txs, ThreadMoves(t),
         ~Takes(t), ~Drops(t), ~BeginUnload(t)
  PROVE  UNCHANGED Pins!pinVars
<1>1. PoolShape /\ OwnList(t) /\ (pool_pc[t] = "insert" => FreeSlots # {})
  BY PermitLeavesRoom DEF PoolIInv, PinIInv
<1>2. PinHolders' = PinHolders
  BY <1>1, OthersStay, KeepHolds, SameHolders
<1> QED
  BY <1>1, <1>2, RetiredStep DEF Pins!pinVars

\* To the transactions, load_account and unload_account are an atomic pin and
\* an atomic unpin of at most BUFFER_POOL_SIZE resident accounts: the five kinds
\* of steps and the two semaphores between them do not show.
THEOREM PoolIsPinnedAccounts == PoolSafeSpec => ImplementsPins
<1>1. PoolInit => Pins!Init
  <2> SUFFICES ASSUME PoolInit PROVE Pins!Init
    OBVIOUS
  <2>1. \A t \in Txs, a \in Accounts : ~Holds(t, a)
    BY DEF PoolInit, Holds, ToSet
  <2>2. \A t \in Txs : t \notin Retired
    BY DEF PoolInit, Retired
  <2>3. Retired = {} /\ \A a \in Accounts : Holders(a) = {}
    BY <2>1, <2>2 DEF Holders, Retired
  <2> QED
    BY <2>3 DEF Pins!Init, PinHolders
<1>2. PoolIInv /\ PinIInv /\ [PoolNext]_poolVars => [Pins!Next]_(Pins!pinVars)
  <2> SUFFICES ASSUME PoolIInv, PinIInv, [PoolNext]_poolVars
               PROVE  Pins!Next \/ UNCHANGED Pins!pinVars
    OBVIOUS
  <2>1. CASE UNCHANGED poolVars
    BY <2>1 DEF poolVars, Pins!pinVars, PinHolders, Retired, Holders, Holds
  <2>2. ASSUME NEW t \in Txs, ThreadMoves(t) PROVE Pins!Next \/ UNCHANGED Pins!pinVars
    <3>1. CASE Takes(t)
      <4>1. request[t] \in Accounts
        BY <3>1, TakeHolds DEF PoolIInv, PinIInv
      <4> QED
        BY <3>1, <4>1, TakeIsPin DEF Pins!Next
    <3>2. CASE Drops(t)
      <4>1. Last(loaded_accounts[t]) \in Accounts
        BY <3>2, DropHolds DEF PoolIInv, PinIInv
      <4> QED
        BY <3>2, <4>1, DropIsUnpin DEF Pins!Next
    <3>3. CASE BeginUnload(t)
      BY <3>3, BeginIsRetire DEF Pins!Next
    <3> QED
      BY <2>2, <3>1, <3>2, <3>3, KeepIsStutter
  <2> QED
    BY <2>1, <2>2 DEF PoolNext, PoolTerminated, ThreadMoves
<1> QED
  BY <1>1, <1>2, PinInvariance, PTL DEF PoolSafeSpec, ImplementsPins, Pins!Spec
================================================================================
