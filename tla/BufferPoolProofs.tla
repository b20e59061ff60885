--------------------------- MODULE BufferPoolProofs ----------------------------
(***************************************************************************)
(* Proofs about BufferPool, for any number of transactions, accounts and   *)
(* slots.                                                                  *)
(***************************************************************************)
EXTENDS BufferPool, FiniteSetTheorems, SequenceTheorems, WellFoundedInduction, TLAPS

\* A scan that stops at the first match finds a match when there is one.
LEMMA MinElement ==
  ASSUME NEW S, S \subseteq Nat, S # {}
  PROVE  Min(S) \in S
<1> DEFINE Less == {p \in Nat \X Nat : p[1] < p[2]}
<1>1. IsWellFoundedOn(Less, Nat)
  BY NatLessThanWellFounded DEF OpToRel
<1>2. PICK x \in S : \A y \in S : ~ (<<y, x>> \in Less)
  <2> HIDE DEF Less
  <2> QED BY <1>1, WFMin
<1>3. ASSUME NEW y \in S PROVE x =< y
  <2>1. <<y, x>> \notin Less
    BY <1>2
  <2>2. x \in Nat /\ y \in Nat
    OBVIOUS
  <2>3. ~ (y < x)
    BY <2>1, <2>2
  <2> QED
    BY <2>2, <2>3
<1> QED
  BY <1>3 DEF Min
--------------------------------------------------------------------------------
(***************************************************************************)
(* Shape of the state: PoolTypeOK without the bounds on the usage, which   *)
(* only follow from the counting invariants below.                         *)
(***************************************************************************)
SlotType == [account_id : Accounts \cup {NoAccount}, in_use : BOOLEAN, pin_count : Nat]

Labels == {"idle", "lookup", "trywait", "count_blocked", "wait_empty", "insert", "post_full",
           "return_permit", "unload", "wait_full", "post_empty", "done"}

LoadLabels == {"lookup", "trywait", "count_blocked", "wait_empty", "insert", "post_full",
               "return_permit"}

StatsType == [load_count : Nat, unload_count : Nat, blocked_count : Nat,
              current_usage : Int, peak_usage : Int]

PoolShape ==
  /\ slots \in [Slots -> SlotType]
  /\ empty_slots \in Nat
  /\ full_slots \in Nat
  /\ pool_stats \in StatsType
  /\ pool_pc \in [Txs -> Labels]
  /\ request \in [Txs -> Accounts \cup {NoAccount}]
  /\ loaded_accounts \in [Txs -> Seq(Accounts)]
  /\ \A t \in Txs : pool_pc[t] \in LoadLabels => request[t] \in Accounts

\* The first slot of a non-empty scan is one of the slots scanned for.
LEMMA FirstSlot ==
  ASSUME NEW a
  PROVE  /\ SlotsOf(a) # {} => Min(SlotsOf(a)) \in SlotsOf(a)
         /\ FreeSlots # {} => Min(FreeSlots) \in FreeSlots
<1>1. SlotsOf(a) \subseteq Nat /\ FreeSlots \subseteq Nat
  BY PoolAssumption DEF SlotsOf, FreeSlots, Slots
<1> QED
  BY <1>1, MinElement

\* What a return from load_account does to the thread's own list.
LEMMA ReturnLoadShape ==
  ASSUME PoolShape, NEW t \in Txs, pool_pc[t] \in LoadLabels, ReturnLoad(t)
  PROVE  /\ request' \in [Txs -> Accounts \cup {NoAccount}]
         /\ \A u \in Txs : u # t => request'[u] = request[u]
         /\ loaded_accounts' \in [Txs -> Seq(Accounts)]
<1>1. request[t] \in Accounts /\ loaded_accounts[t] \in Seq(Accounts)
  BY DEF PoolShape
<1>2. Append(loaded_accounts[t], request[t]) \in Seq(Accounts)
  BY <1>1, AppendProperties
<1> QED
  BY <1>2 DEF PoolShape, ReturnLoad

\* What unload_transaction_accounts leaves of it.
LEMMA FrontShape ==
  ASSUME PoolShape, NEW t \in Txs, loaded_accounts[t] # <<>>
  PROVE  [loaded_accounts EXCEPT ![t] = Front(@)] \in [Txs -> Seq(Accounts)]
<1> DEFINE s == loaded_accounts[t]
<1>1. s \in Seq(Accounts)
  BY DEF PoolShape
<1>2. Len(s) \in Nat /\ \A i \in 1..(Len(s) - 1) : s[i] \in Accounts
  BY <1>1, LenProperties, ElementOfSeq
<1>3. Front(s) \in Seq(Accounts)
  BY <1>2, SubSeqProperties DEF Front
<1> QED
  BY <1>3 DEF PoolShape

\* Writing the counters keeps the statistics a record of counters.
LEMMA SetCounters ==
  ASSUME NEW ps \in StatsType, NEW n \in Nat, NEW i \in Int, NEW j \in Int
  PROVE  /\ [ps EXCEPT !.unload_count = n, !.current_usage = i] \in StatsType
         /\ [ps EXCEPT !.load_count = n, !.current_usage = i, !.peak_usage = j] \in StatsType
BY DEF StatsType

\* The statistics after a load, an unload and a blocked load.
LEMMA CountShape ==
  ASSUME PoolShape
  PROVE  /\ CountLoad \in StatsType
         /\ CountLoad.load_count = pool_stats.load_count + 1
         /\ CountLoad.unload_count = pool_stats.unload_count
         /\ CountLoad.blocked_count = pool_stats.blocked_count
         /\ CountLoad.current_usage = pool_stats.current_usage + 1
         /\ CountLoad.peak_usage = IF pool_stats.current_usage + 1 > pool_stats.peak_usage
                                   THEN pool_stats.current_usage + 1
                                   ELSE pool_stats.peak_usage
         /\ CountUnload \in StatsType
         /\ CountUnload.load_count = pool_stats.load_count
         /\ CountUnload.unload_count = pool_stats.unload_count + 1
         /\ CountUnload.blocked_count = pool_stats.blocked_count
         /\ CountUnload.current_usage = pool_stats.current_usage - 1
         /\ CountUnload.peak_usage = pool_stats.peak_usage
<1> DEFINE ps == pool_stats
           up == ps.current_usage + 1
           peak == IF up > ps.peak_usage THEN up ELSE ps.peak_usage
<1>1. ps \in StatsType
  BY DEF PoolShape
<1>2. /\ ps.load_count + 1 \in Nat /\ ps.unload_count + 1 \in Nat
      /\ up \in Int /\ peak \in Int /\ ps.current_usage - 1 \in Int
  BY <1>1 DEF StatsType
<1>3. CountUnload \in StatsType
  BY <1>1, <1>2, SetCounters DEF CountUnload
<1>4. CountLoad \in StatsType
  BY <1>1, <1>2, SetCounters DEF CountLoad
<1>5. /\ CountLoad.load_count = ps.load_count + 1
      /\ CountLoad.unload_count = ps.unload_count
      /\ CountLoad.blocked_count = ps.blocked_count
      /\ CountLoad.current_usage = up
      /\ CountLoad.peak_usage = peak
  BY <1>1 DEF CountLoad, StatsType
<1>6. /\ CountUnload.load_count = ps.load_count
      /\ CountUnload.unload_count = ps.unload_count + 1
      /\ CountUnload.blocked_count = ps.blocked_count
      /\ CountUnload.current_usage = ps.current_usage - 1
      /\ CountUnload.peak_usage = ps.peak_usage
  BY <1>1 DEF CountUnload, StatsType
<1> QED
  BY <1>3, <1>4, <1>5, <1>6

\* Writing the pin count of one slot leaves everything else as it is.
LEMMA SetPins ==
  ASSUME PoolShape, NEW m \in Slots, NEW k \in Nat
  PROVE  LET new == [slots EXCEPT ![m].pin_count = k]
         IN  /\ new \in [Slots -> SlotType]
             /\ \A i \in Slots : /\ new[i].in_use = slots[i].in_use
                                /\ new[i].account_id = slots[i].account_id
                                /\ new[i].pin_count = IF i = m THEN k ELSE slots[i].pin_count
<1> DEFINE new == [slots EXCEPT ![m].pin_count = k]
           r == [account_id |-> slots[m].account_id, in_use |-> slots[m].in_use, pin_count |-> k]
<1>1. slots \in [Slots -> SlotType] /\ slots[m] \in SlotType
  BY DEF PoolShape
<1>2. [slots[m] EXCEPT !.pin_count = k] = r
  BY <1>1 DEF SlotType
<1>3. new = [slots EXCEPT ![m] = r]
  BY <1>2
<1>4. r \in SlotType /\ r.in_use = slots[m].in_use /\ r.account_id = slots[m].account_id
      /\ r.pin_count = k
  BY <1>1 DEF SlotType
<1> HIDE DEF r
<1> QED
  BY <1>1, <1>3, <1>4

\* Pinning an account and dropping one of several pins touch a pin count only.
LEMMA PinEffect ==
  ASSUME PoolShape, NEW a, SlotsOf(a) # {}
  PROVE  /\ Min(SlotsOf(a)) \in SlotsOf(a)
         /\ Pin(a) \in [Slots -> SlotType]
         /\ \A i \in Slots :
              /\ Pin(a)[i].in_use = slots[i].in_use
              /\ Pin(a)[i].account_id = slots[i].account_id
              /\ Pin(a)[i].pin_count = IF i = Min(SlotsOf(a)) THEN slots[i].pin_count + 1
                                       ELSE slots[i].pin_count
<1> DEFINE m == Min(SlotsOf(a))
           k == slots[m].pin_count + 1
<1>1. m \in SlotsOf(a) /\ m \in Slots
  BY FirstSlot DEF SlotsOf
<1>2. k \in Nat
  BY <1>1 DEF PoolShape, SlotType
<1>3. Pin(a) = [slots EXCEPT ![m].pin_count = k]
  BY DEF Pin
<1> HIDE DEF k, m
<1>4. /\ Pin(a) \in [Slots -> SlotType]
      /\ \A i \in Slots : /\ Pin(a)[i].in_use = slots[i].in_use
                         /\ Pin(a)[i].account_id = slots[i].account_id
                         /\ Pin(a)[i].pin_count = IF i = m THEN k ELSE slots[i].pin_count
  BY <1>1, <1>2, <1>3, SetPins
<1> QED
  BY <1>1, <1>4 DEF m, k

LEMMA UnpinEffect ==
  ASSUME PoolShape, NEW a, SlotsOf(a) # {}, ~LastPin(a)
  PROVE  /\ Min(SlotsOf(a)) \in SlotsOf(a)
         /\ Unpin(a) \in [Slots -> SlotType]
         /\ \A i \in Slots :
              /\ Unpin(a)[i].in_use = slots[i].in_use
              /\ Unpin(a)[i].account_id = slots[i].account_id
              /\ Unpin(a)[i].pin_count = IF i = Min(SlotsOf(a)) THEN slots[i].pin_count - 1
                                         ELSE slots[i].pin_count
<1> DEFINE m == Min(SlotsOf(a))
           k == slots[m].pin_count - 1
<1>1. m \in SlotsOf(a) /\ m \in Slots
  BY FirstSlot DEF SlotsOf
<1>2. slots[m].pin_count \in Nat
  BY <1>1 DEF PoolShape, SlotType
<1>3. ~ (k <= 0)
  BY DEF LastPin
<1>4. k \in Nat
  BY <1>2, <1>3
<1>5. Unpin(a) = [slots EXCEPT ![m].pin_count = k]
  BY DEF Unpin
<1> HIDE DEF k, m
<1>6. /\ Unpin(a) \in [Slots -> SlotType]
      /\ \A i \in Slots : /\ Unpin(a)[i].in_use = slots[i].in_use
                         /\ Unpin(a)[i].account_id = slots[i].account_id
                         /\ Unpin(a)[i].pin_count = IF i = m THEN k ELSE slots[i].pin_count
  BY <1>1, <1>4, <1>5, SetPins
<1> QED
  BY <1>1, <1>6 DEF m, k

\* Filling takes a free slot, clearing empties a slot of the account.
LEMMA FillEffect ==
  ASSUME PoolShape, NEW a \in Accounts, FreeSlots # {}
  PROVE  /\ Min(FreeSlots) \in FreeSlots
         /\ Fill(a) \in [Slots -> SlotType]
         /\ Fill(a)[Min(FreeSlots)] = [account_id |-> a, in_use |-> TRUE, pin_count |-> 1]
         /\ \A i \in Slots : i # Min(FreeSlots) => Fill(a)[i] = slots[i]
<1> DEFINE m == Min(FreeSlots)
           r == [account_id |-> a, in_use |-> TRUE, pin_count |-> 1]
<1>1. m \in FreeSlots /\ m \in Slots
  BY FirstSlot DEF FreeSlots
<1>2. r \in SlotType
  BY DEF SlotType
<1>3. Fill(a) = [slots EXCEPT ![m] = r]
  BY DEF Fill
<1> HIDE DEF m, r
<1>4. /\ Fill(a) \in [Slots -> SlotType]
      /\ Fill(a)[m] = r
      /\ \A i \in Slots : i # m => Fill(a)[i] = slots[i]
  BY <1>1, <1>2, <1>3 DEF PoolShape
<1> QED
  BY <1>1, <1>4 DEF m, r

LEMMA ClearEffect ==
  ASSUME PoolShape, NEW a, SlotsOf(a) # {}
  PROVE  /\ Min(SlotsOf(a)) \in SlotsOf(a)
         /\ Clear(a) \in [Slots -> SlotType]
         /\ Clear(a)[Min(SlotsOf(a))] = EmptySlot
         /\ \A i \in Slots : i # Min(SlotsOf(a)) => Clear(a)[i] = slots[i]
<1> DEFINE m == Min(SlotsOf(a))
<1>1. m \in SlotsOf(a) /\ m \in Slots
  BY FirstSlot DEF SlotsOf
<1>2. EmptySlot \in SlotType
  BY DEF SlotType, EmptySlot
<1>3. Clear(a) = [slots EXCEPT ![m] = EmptySlot]
  BY DEF Clear
<1> HIDE DEF m
<1>4. /\ Clear(a) \in [Slots -> SlotType]
      /\ Clear(a)[m] = EmptySlot
      /\ \A i \in Slots : i # m => Clear(a)[i] = slots[i]
  BY <1>1, <1>2, <1>3 DEF PoolShape
<1> QED
  BY <1>1, <1>4 DEF m

\* The shape is inductive by itself.
LEMMA ShapeInit == PoolInit => PoolShape
<1> SUFFICES ASSUME PoolInit PROVE PoolShape
  OBVIOUS
<1>1. <<>> \in Seq(Accounts)
  BY EmptySeq
<1> QED
  BY <1>1, PoolAssumption
     DEF PoolInit, PoolShape, SlotType, StatsType, EmptySlot, InitialPermits, Labels, LoadLabels

LEMMA ShapeStep ==
  ASSUME PoolShape, [PoolNext]_poolVars
  PROVE  PoolShape'
<1> USE DEF PoolShape, Labels, LoadLabels, GoTo
<1>1. ASSUME NEW t \in Txs, NEW a \in Accounts, CallLoad(t, a) PROVE PoolShape'
  BY <1>1 DEF CallLoad
<1>2. ASSUME NEW t \in Txs, BeginUnload(t) PROVE PoolShape'
  BY <1>2 DEF BeginUnload
<1>3. ASSUME NEW t \in Txs, LookupHit(t) PROVE PoolShape'
  <2>1. slots' \in [Slots -> SlotType]
    BY <1>3, PinEffect DEF LookupHit
  <2> QED
    BY <1>3, <2>1, ReturnLoadShape DEF LookupHit
<1>4. ASSUME NEW t \in Txs, LookupMiss(t) PROVE PoolShape'
  BY <1>4 DEF LookupMiss
<1>5. ASSUME NEW t \in Txs, TryWaitTaken(t) PROVE PoolShape'
  BY <1>5 DEF TryWaitTaken
<1>6. ASSUME NEW t \in Txs, TryWaitFull(t) PROVE PoolShape'
  BY <1>6 DEF TryWaitFull
<1>7. ASSUME NEW t \in Txs, CountBlocked(t) PROVE PoolShape'
  <2>1. pool_stats' \in StatsType
    <3>1. pool_stats.blocked_count + 1 \in Nat
      BY DEF StatsType
    <3> QED
      BY <1>7, <3>1 DEF CountBlocked, StatsType
  <2> QED
    BY <1>7, <2>1 DEF CountBlocked
<1>8. ASSUME NEW t \in Txs, WaitEmpty(t) PROVE PoolShape'
  BY <1>8 DEF WaitEmpty
<1>9. ASSUME NEW t \in Txs, InsertShared(t) PROVE PoolShape'
  <2>1. slots' \in [Slots -> SlotType]
    BY <1>9, PinEffect DEF InsertShared, LoadedMeanwhile
  <2> QED
    BY <1>9, <2>1 DEF InsertShared
<1>10. ASSUME NEW t \in Txs, InsertFresh(t) PROVE PoolShape'
  <2>1. CASE FreeSlots # {}
    <3>1. slots' \in [Slots -> SlotType]
      BY <1>10, <2>1, FillEffect DEF InsertFresh
    <3>2. pool_stats' \in StatsType
      BY <1>10, <2>1, CountShape DEF InsertFresh
    <3> QED
      BY <1>10, <2>1, <3>1, <3>2 DEF InsertFresh
  <2>2. CASE FreeSlots = {}
    BY <1>10, <2>2 DEF InsertFresh
  <2> QED
    BY <2>1, <2>2
<1>11. ASSUME NEW t \in Txs, PostFull(t) PROVE PoolShape'
  BY <1>11, ReturnLoadShape DEF PostFull
<1>12. ASSUME NEW t \in Txs, ReturnPermit(t) PROVE PoolShape'
  BY <1>12, ReturnLoadShape DEF ReturnPermit
<1>13. ASSUME NEW t \in Txs, UnloadShared(t) PROVE PoolShape'
  <2>1. slots' \in [Slots -> SlotType]
    BY <1>13, UnpinEffect DEF UnloadShared
  <2> QED
    BY <1>13, <2>1, FrontShape DEF UnloadShared
<1>14. ASSUME NEW t \in Txs, UnloadLast(t) PROVE PoolShape'
  <2>1. slots' \in [Slots -> SlotType]
    BY <1>14, ClearEffect DEF UnloadLast, LastPin
  <2>2. pool_stats' \in StatsType
    BY <1>14, CountShape DEF UnloadLast
  <2> QED
    BY <1>14, <2>1, <2>2, FrontShape DEF UnloadLast
<1>15. ASSUME NEW t \in Txs, WaitFull(t) PROVE PoolShape'
  BY <1>15 DEF WaitFull
<1>16. ASSUME NEW t \in Txs, PostEmpty(t) PROVE PoolShape'
  BY <1>16 DEF PostEmpty
<1>17. ASSUME NEW t \in Txs, FinishUnload(t) PROVE PoolShape'
  BY <1>17 DEF FinishUnload
<1>18. CASE UNCHANGED poolVars
  BY <1>18 DEF poolVars
<1> HIDE DEF PoolShape
<1> QED
  BY <1>1, <1>2, <1>3, <1>4, <1>5, <1>6, <1>7, <1>8, <1>9, <1>10, <1>11, <1>12, <1>13,
     <1>14, <1>15, <1>16, <1>17, <1>18
     DEF PoolNext, PoolStep, ClientStep, PoolTerminated
--------------------------------------------------------------------------------
(***************************************************************************)
(* Counting.  The permits and the report are sums of the numbers of        *)
(* threads at some labels and of occupied slots; every step moves one      *)
(* thread and changes at most one slot.                                    *)
(***************************************************************************)
Ind(b) == IF b THEN 1 ELSE 0

PermitLabels == {"insert", "return_permit", "wait_full", "post_empty"}

\* Two finite sets that agree but for x.
LEMMA Toggle ==
  ASSUME NEW D, IsFiniteSet(D), NEW A, NEW B, A \subseteq D, B \subseteq D,
         NEW x, A \ {x} = B \ {x}
  PROVE  /\ Cardinality(A) \in Nat
         /\ Cardinality(B) \in Nat
         /\ Cardinality(B) = Cardinality(A) + Ind(x \in B) - Ind(x \in A)
<1> DEFINE R == A \ {x}
<1>1. IsFiniteSet(R) /\ x \notin R
  BY FS_Subset
<1>2. Cardinality(R) \in Nat
  BY <1>1, FS_CardinalityType
<1>3. Cardinality(R \cup {x}) = Cardinality(R) + 1
  BY <1>1, FS_AddElement
<1>4. /\ x \in A => A = R \cup {x}
      /\ x \notin A => A = R
      /\ x \in B => B = R \cup {x}
      /\ x \notin B => B = R
  OBVIOUS
<1> HIDE DEF R
<1>5. Cardinality(A) = Cardinality(R) + Ind(x \in A)
  <2>1. CASE x \in A
    <3>1. Cardinality(A) = Cardinality(R) + 1
      BY <1>3, <1>4, <2>1
    <3> QED
      BY <2>1, <3>1 DEF Ind
  <2>2. CASE x \notin A
    BY <1>2, <1>4, <2>2 DEF Ind
  <2> QED
    BY <2>1, <2>2
<1>6. Cardinality(B) = Cardinality(R) + Ind(x \in B)
  <2>1. CASE x \in B
    <3>1. Cardinality(B) = Cardinality(R) + 1
      BY <1>3, <1>4, <2>1
    <3> QED
      BY <2>1, <3>1 DEF Ind
  <2>2. CASE x \notin B
    BY <1>2, <1>4, <2>2 DEF Ind
  <2> QED
    BY <2>1, <2>2
<1> QED
  BY <1>2, <1>5, <1>6 DEF Ind

\* A step of one thread moves it between the sets of threads being counted.
LEMMA Moves ==
  ASSUME PoolShape, NEW t \in Txs, NEW from, NEW to \in Labels, GoTo(t, from, to)
  PROVE  /\ Cardinality(EmptyPermits) \in Nat
         /\ Cardinality(EmptyPermits)' \in Nat
         /\ Cardinality(EmptyPermits)' = Cardinality(EmptyPermits)
                                         + Ind(to \in PermitLabels) - Ind(from \in PermitLabels)
         /\ \A l \in Labels :
              /\ Cardinality(At(l)) \in Nat
              /\ Cardinality(At(l))' \in Nat
              /\ Cardinality(At(l))' = Cardinality(At(l)) + Ind(to = l) - Ind(from = l)
<1>1. /\ pool_pc' = [pool_pc EXCEPT ![t] = to]
      /\ pool_pc[t] = from
      /\ pool_pc \in [Txs -> Labels]
  BY DEF GoTo, PoolShape
<1>2. IsFiniteSet(Txs)
  BY BankTypesAssumption
<1>3. pool_pc'[t] = to /\ \A u \in Txs : u # t => pool_pc'[u] = pool_pc[u]
  BY <1>1
<1>4. /\ EmptyPermits \subseteq Txs /\ EmptyPermits' \subseteq Txs
      /\ EmptyPermits \ {t} = EmptyPermits' \ {t}
      /\ (t \in EmptyPermits) <=> (from \in PermitLabels)
      /\ (t \in EmptyPermits') <=> (to \in PermitLabels)
  BY <1>1, <1>3 DEF EmptyPermits, PermitLabels
<1>5. /\ Cardinality(EmptyPermits) \in Nat
      /\ Cardinality(EmptyPermits') \in Nat
      /\ Cardinality(EmptyPermits') = Cardinality(EmptyPermits)
                                      + Ind(t \in EmptyPermits') - Ind(t \in EmptyPermits)
  BY <1>2, <1>4, Toggle
<1>6. ASSUME NEW l \in Labels
      PROVE  /\ Cardinality(At(l)) \in Nat
             /\ Cardinality(At(l))' \in Nat
             /\ Cardinality(At(l))' = Cardinality(At(l)) + Ind(to = l) - Ind(from = l)
  <2> DEFINE A == At(l)
             B == At(l)'
  <2>1. /\ A \subseteq Txs /\ B \subseteq Txs /\ A \ {t} = B \ {t}
        /\ (t \in A) <=> (from = l)
        /\ (t \in B) <=> (to = l)
    BY <1>1, <1>3 DEF At
  <2> HIDE DEF A, B
  <2>2. /\ Cardinality(A) \in Nat
        /\ Cardinality(B) \in Nat
        /\ Cardinality(B) = Cardinality(A) + Ind(t \in B) - Ind(t \in A)
    BY <1>2, <2>1, Toggle
  <2>3. Cardinality(B) = Cardinality(A) + Ind(to = l) - Ind(from = l)
    BY <2>1, <2>2 DEF Ind
  <2> QED
    BY <2>2, <2>3 DEF A, B
<1> QED
  BY <1>4, <1>5, <1>6 DEF Ind

\* The number of occupied slots is a number up to BUFFER_POOL_SIZE, and when
\* it is less, a slot is free.
LEMMA Occupancy ==
  /\ IsFiniteSet(Slots)
  /\ InUse \subseteq Slots
  /\ Cardinality(InUse) \in 0..BUFFER_POOL_SIZE
  /\ Cardinality(InUse) < BUFFER_POOL_SIZE => FreeSlots # {}
<1>1. IsFiniteSet(Slots) /\ Cardinality(Slots) = BUFFER_POOL_SIZE
  BY PoolAssumption, FS_Interval DEF Slots
<1>2. InUse \subseteq Slots
  BY DEF InUse
<1>3. Cardinality(InUse) \in Nat /\ Cardinality(InUse) <= Cardinality(Slots)
  BY <1>1, <1>2, FS_Subset, FS_CardinalityType
<1>4. FreeSlots = {} => InUse = Slots
  BY DEF FreeSlots, InUse
<1> QED
  BY <1>1, <1>2, <1>3, <1>4, PoolAssumption
\* Changing pin counts only does not change which slots are occupied; filling
\* and clearing change that of one slot.
LEMMA SameInUse ==
  ASSUME \A i \in Slots : slots'[i].in_use = slots[i].in_use
  PROVE  InUse' = InUse /\ FreeSlots' = FreeSlots
BY DEF InUse, FreeSlots, Slots

LEMMA FillInUse ==
  ASSUME PoolShape, NEW a \in Accounts, FreeSlots # {}, slots' = Fill(a)
  PROVE  /\ Cardinality(InUse)' \in Nat
         /\ Cardinality(InUse)' = Cardinality(InUse) + 1
<1> DEFINE m == Min(FreeSlots)
<1>1. /\ m \in FreeSlots
      /\ slots'[m] = [account_id |-> a, in_use |-> TRUE, pin_count |-> 1]
      /\ \A i \in Slots : i # m => slots'[i] = slots[i]
  BY FillEffect
<1> HIDE DEF m
<1>2. m \in Slots /\ m \notin InUse /\ slots'[m].in_use
  BY <1>1 DEF FreeSlots, InUse
<1>3. /\ InUse \subseteq Slots /\ InUse' \subseteq Slots
      /\ InUse \ {m} = InUse' \ {m}
      /\ m \in InUse'
  BY <1>1, <1>2 DEF InUse, Slots
<1>4. /\ Cardinality(InUse) \in Nat
      /\ Cardinality(InUse') \in Nat
      /\ Cardinality(InUse') = Cardinality(InUse) + Ind(m \in InUse') - Ind(m \in InUse)
  BY <1>3, Occupancy, Toggle
<1> QED
  BY <1>2, <1>3, <1>4 DEF Ind

LEMMA ClearInUse ==
  ASSUME PoolShape, NEW a, SlotsOf(a) # {}, slots' = Clear(a)
  PROVE  /\ Cardinality(InUse)' \in Nat
         /\ Cardinality(InUse)' = Cardinality(InUse) - 1
<1> DEFINE m == Min(SlotsOf(a))
<1>1. /\ m \in SlotsOf(a)
      /\ slots'[m] = EmptySlot
      /\ \A i \in Slots : i # m => slots'[i] = slots[i]
  BY ClearEffect
<1> HIDE DEF m
<1>2. m \in Slots /\ m \in InUse /\ ~slots'[m].in_use
  BY <1>1 DEF SlotsOf, InUse, EmptySlot
<1>3. /\ InUse \subseteq Slots /\ InUse' \subseteq Slots
      /\ InUse \ {m} = InUse' \ {m}
      /\ m \notin InUse'
  BY <1>1, <1>2 DEF InUse, Slots
<1>4. /\ Cardinality(InUse) \in Nat
      /\ Cardinality(InUse') \in Nat
      /\ Cardinality(InUse') = Cardinality(InUse) + Ind(m \in InUse') - Ind(m \in InUse)
  BY <1>3, Occupancy, Toggle
<1> QED
  BY <1>2, <1>3, <1>4 DEF Ind

\* Two sums stay equal when they change by the same amount.
LEMMA SameShift ==
  ASSUME NEW f \in Int, NEW p \in Int, NEW u \in Int, NEW w \in Int, f + p = u + w,
         NEW ff \in Int, NEW pp, NEW uu \in Int, NEW ww,
         NEW a \in Int, NEW b \in Int, NEW c \in Int, NEW d \in Int,
         pp = p + a - b, ww = w + c - d,
         ff + a + d + u = f + b + c + uu
  PROVE  ff + pp = uu + ww
OBVIOUS

\* The conservation of permits across a step, from what the step adds to each
\* side of the two sums.
LEMMA PermitStep ==
  ASSUME PoolShape, PermitsConserved, FullConserved,
         NEW t \in Txs, NEW from \in Labels, NEW to \in Labels, GoTo(t, from, to),
         empty_slots' \in Nat, full_slots' \in Nat, Cardinality(InUse)' \in Nat,
         empty_slots' + Cardinality(InUse)' + Ind(to \in PermitLabels)
           = empty_slots + Cardinality(InUse) + Ind(from \in PermitLabels),
         full_slots' + Ind(to = "post_full") + Ind(from = "wait_full") + Cardinality(InUse)
           = full_slots + Ind(from = "post_full") + Ind(to = "wait_full") + Cardinality(InUse)'
  PROVE  PermitsConserved' /\ FullConserved'
<1>1. empty_slots \in Nat /\ full_slots \in Nat /\ Cardinality(InUse) \in Nat
  BY Occupancy, PoolAssumption DEF PoolShape
<1>2. "post_full" \in Labels /\ "wait_full" \in Labels
  BY DEF Labels
<1>3. PermitsConserved'
  <2>1. /\ Cardinality(EmptyPermits) \in Nat /\ Cardinality(EmptyPermits)' \in Nat
        /\ Cardinality(EmptyPermits)' = Cardinality(EmptyPermits)
                                        + Ind(to \in PermitLabels) - Ind(from \in PermitLabels)
    BY Moves
  <2>2. Ind(to \in PermitLabels) \in Int /\ Ind(from \in PermitLabels) \in Int
    BY DEF Ind
  <2> QED
    BY <1>1, <2>1, <2>2 DEF PermitsConserved
<1>4. FullConserved'
  <2> DEFINE posting == Cardinality(At("post_full"))
             waiting == Cardinality(At("wait_full"))
             toPost == Ind(to = "post_full")
             toWait == Ind(to = "wait_full")
             fromPost == Ind(from = "post_full")
             fromWait == Ind(from = "wait_full")
  <2>1. /\ posting \in Nat
        /\ waiting \in Nat
        /\ posting' = posting + toPost - fromPost
        /\ waiting' = waiting + toWait - fromWait
    BY <1>2, Moves
  <2>2. toPost \in Int /\ toWait \in Int /\ fromPost \in Int /\ fromWait \in Int
    BY DEF Ind
  <2>3. full_slots + posting = Cardinality(InUse) + waiting
    BY DEF FullConserved
  <2>4. full_slots' + toPost + fromWait + Cardinality(InUse)
          = full_slots + fromPost + toWait + Cardinality(InUse)'
    OBVIOUS
  <2>5. SUFFICES full_slots' + posting' = Cardinality(InUse)' + waiting'
    BY DEF FullConserved
  <2> HIDE DEF posting, waiting, toPost, toWait, fromPost, fromWait
  <2> QED
    BY <1>1, <2>1, <2>2, <2>3, <2>4, SameShift
<1> QED
  BY <1>3, <1>4

\* A step that leaves the slots' occupancy and the statistics alone keeps the
\* report exact, unless it starts a wait.
LEMMA ReportKept ==
  ASSUME PoolShape, ReportExact, NEW t \in Txs, NEW from \in Labels, NEW to \in Labels,
         GoTo(t, from, to), to # "wait_empty", InUse' = InUse, UNCHANGED pool_stats
  PROVE  ReportExact'
<1> DEFINE waiting == Cardinality(At("wait_empty"))
<1>1. "wait_empty" \in Labels
  BY DEF Labels
<1>2. /\ waiting \in Nat
      /\ waiting' = waiting + Ind(to = "wait_empty") - Ind(from = "wait_empty")
  BY <1>1, Moves
<1>3. waiting <= pool_stats.blocked_count /\ pool_stats.blocked_count \in Nat
  BY DEF ReportExact, PoolShape, StatsType
<1>4. SUFFICES waiting' <= pool_stats.blocked_count
  BY DEF ReportExact
<1> HIDE DEF waiting
<1> QED
  BY <1>2, <1>3 DEF Ind

PoolBooks == PermitsConserved /\ FullConserved /\ ReportExact

\* A step that touches no permit, occupies or frees no slot and counts nothing.
LEMMA QuietStep ==
  ASSUME PoolShape, PoolBooks,
         NEW t \in Txs, NEW from \in Labels, NEW to \in Labels, GoTo(t, from, to),
         (to \in PermitLabels) = (from \in PermitLabels),
         from \notin {"post_full", "wait_full"},
         to \notin {"post_full", "wait_full", "wait_empty"},
         InUse' = InUse, UNCHANGED <<empty_slots, full_slots, pool_stats>>
  PROVE  PoolBooks'
<1>1. /\ empty_slots \in Nat /\ full_slots \in Nat /\ Cardinality(InUse) \in Nat
  BY Occupancy, PoolAssumption DEF PoolShape
<1>2. /\ Ind(to \in PermitLabels) = Ind(from \in PermitLabels)
      /\ Ind(to \in PermitLabels) \in Int
      /\ Ind(to = "post_full") = 0 /\ Ind(from = "post_full") = 0
      /\ Ind(to = "wait_full") = 0 /\ Ind(from = "wait_full") = 0
  BY DEF Ind
<1>3. PermitsConserved' /\ FullConserved'
  BY <1>1, <1>2, PermitStep DEF PoolBooks
<1>4. ReportExact'
  BY ReportKept DEF PoolBooks
<1> QED
  BY <1>3, <1>4 DEF PoolBooks

LEMMA BooksInit == PoolInit => PoolBooks
<1> SUFFICES ASSUME PoolInit PROVE PoolBooks
  OBVIOUS
<1>1. InUse = {} /\ EmptyPermits = {} /\ \A l \in Labels \ {"idle"} : At(l) = {}
  BY DEF PoolInit, InUse, EmptySlot, EmptyPermits, At
<1>2. At("post_full") = {} /\ At("wait_full") = {} /\ At("wait_empty") = {}
  BY <1>1 DEF Labels
<1>3. /\ Cardinality(InUse) = 0 /\ Cardinality(EmptyPermits) = 0
      /\ Cardinality(At("post_full")) = 0 /\ Cardinality(At("wait_full")) = 0
      /\ Cardinality(At("wait_empty")) = 0
  BY <1>1, <1>2, FS_EmptySet
<1>4. empty_slots = BUFFER_POOL_SIZE /\ full_slots = 0
  BY DEF PoolInit, InitialPermits
<1>5. pool_stats = [load_count |-> 0, unload_count |-> 0, blocked_count |-> 0,
                    current_usage |-> 0, peak_usage |-> 0]
  BY DEF PoolInit
<1>6. PermitsConserved
  BY <1>3, <1>4, PoolAssumption DEF PermitsConserved
<1>7. FullConserved
  BY <1>3, <1>4 DEF FullConserved
<1>8. ReportExact
  BY <1>3, <1>5, PoolAssumption DEF ReportExact
<1> QED
  BY <1>6, <1>7, <1>8 DEF PoolBooks

LEMMA BooksStep ==
  ASSUME PoolShape, PoolBooks, [PoolNext]_poolVars
  PROVE  PoolBooks'
<1> USE DEF Labels, PermitLabels
<1>0. /\ empty_slots \in Nat /\ full_slots \in Nat /\ Cardinality(InUse) \in Nat
      /\ pool_stats \in StatsType
  BY Occupancy, PoolAssumption DEF PoolShape
<1>1. ASSUME NEW t \in Txs, NEW a \in Accounts, CallLoad(t, a) PROVE PoolBooks'
  <2>1. InUse' = InUse
    BY <1>1, SameInUse DEF CallLoad
  <2> QED
    BY <1>1, <2>1, QuietStep DEF CallLoad
<1>2. ASSUME NEW t \in Txs, BeginUnload(t) PROVE PoolBooks'
  <2>1. InUse' = InUse
    BY <1>2, SameInUse DEF BeginUnload
  <2> QED
    BY <1>2, <2>1, QuietStep DEF BeginUnload
<1>3. ASSUME NEW t \in Txs, LookupHit(t) PROVE PoolBooks'
  <2>1. InUse' = InUse
    BY <1>3, PinEffect, SameInUse DEF LookupHit
  <2> QED
    BY <1>3, <2>1, QuietStep DEF LookupHit
<1>4. ASSUME NEW t \in Txs, LookupMiss(t) PROVE PoolBooks'
  <2>1. InUse' = InUse
    BY <1>4, SameInUse DEF LookupMiss
  <2> QED
    BY <1>4, <2>1, QuietStep DEF LookupMiss
<1>5. ASSUME NEW t \in Txs, TryWaitTaken(t) PROVE PoolBooks'
  <2>1. InUse' = InUse
    BY <1>5, SameInUse DEF TryWaitTaken
  <2>2. PermitsConserved' /\ FullConserved'
    BY <1>0, <1>5, <2>1, PermitStep DEF TryWaitTaken, PoolBooks, Ind
  <2>3. ReportExact'
    BY <1>5, <2>1, ReportKept DEF TryWaitTaken, PoolBooks
  <2> QED
    BY <2>2, <2>3 DEF PoolBooks
<1>6. ASSUME NEW t \in Txs, TryWaitFull(t) PROVE PoolBooks'
  <2>1. InUse' = InUse
    BY <1>6, SameInUse DEF TryWaitFull
  <2> QED
    BY <1>6, <2>1, QuietStep DEF TryWaitFull
<1>7. ASSUME NEW t \in Txs, CountBlocked(t) PROVE PoolBooks'
  <2>1. InUse' = InUse
    BY <1>7, SameInUse DEF CountBlocked
  <2>2. PermitsConserved' /\ FullConserved'
    BY <1>0, <1>7, <2>1, PermitStep DEF CountBlocked, PoolBooks, Ind
  <2>3. ReportExact'
    <3> DEFINE waiting == Cardinality(At("wait_empty"))
    <3>1. waiting \in Nat /\ waiting' = waiting + 1
      BY <1>7, Moves DEF CountBlocked, Ind
    <3>2. /\ pool_stats'.load_count = pool_stats.load_count
          /\ pool_stats'.unload_count = pool_stats.unload_count
          /\ pool_stats'.current_usage = pool_stats.current_usage
          /\ pool_stats'.peak_usage = pool_stats.peak_usage
          /\ pool_stats'.blocked_count = pool_stats.blocked_count + 1
      BY <1>0, <1>7 DEF CountBlocked, StatsType
    <3>3. waiting <= pool_stats.blocked_count /\ pool_stats.blocked_count \in Nat
      BY <1>0 DEF PoolBooks, ReportExact, StatsType
    <3>4. waiting' <= pool_stats'.blocked_count
      <4> HIDE DEF waiting
      <4> QED
        BY <3>1, <3>2, <3>3
    <3> QED
      BY <2>1, <3>2, <3>4 DEF PoolBooks, ReportExact
  <2> QED
    BY <2>2, <2>3 DEF PoolBooks
<1>8. ASSUME NEW t \in Txs, WaitEmpty(t) PROVE PoolBooks'
  <2>1. InUse' = InUse
    BY <1>8, SameInUse DEF WaitEmpty
  <2>2. PermitsConserved' /\ FullConserved'
    BY <1>0, <1>8, <2>1, PermitStep DEF WaitEmpty, PoolBooks, Ind
  <2>3. ReportExact'
    BY <1>8, <2>1, ReportKept DEF WaitEmpty, PoolBooks
  <2> QED
    BY <2>2, <2>3 DEF PoolBooks
<1>9. ASSUME NEW t \in Txs, InsertShared(t) PROVE PoolBooks'
  <2>1. InUse' = InUse
    BY <1>9, PinEffect, SameInUse DEF InsertShared, LoadedMeanwhile
  <2> QED
    BY <1>9, <2>1, QuietStep DEF InsertShared
<1>10. ASSUME NEW t \in Txs, InsertFresh(t) PROVE PoolBooks'
  <2>1. CASE FreeSlots = {}
    <3>1. InUse' = InUse
      BY <1>10, <2>1, SameInUse DEF InsertFresh
    <3> QED
      BY <1>10, <2>1, <3>1, QuietStep DEF InsertFresh
  <2>2. CASE FreeSlots # {}
    <3>1. request[t] \in Accounts
      BY <1>10 DEF InsertFresh, GoTo, PoolShape, LoadLabels
    <3>2. /\ Cardinality(InUse)' \in Nat
          /\ Cardinality(InUse)' = Cardinality(InUse) + 1
      BY <1>10, <2>2, <3>1, FillInUse DEF InsertFresh
    <3>3. PermitsConserved' /\ FullConserved'
      BY <1>0, <1>10, <2>2, <3>2, PermitStep DEF InsertFresh, PoolBooks, Ind
    <3>4. Cardinality(InUse)' <= BUFFER_POOL_SIZE
      <4>1. Cardinality(EmptyPermits)' \in Nat
        BY <1>10, <2>2, Moves DEF InsertFresh
      <4>2. empty_slots' \in Nat
        BY <1>0, <1>10 DEF InsertFresh
      <4> QED
        BY <3>2, <3>3, <4>1, <4>2, PoolAssumption DEF PermitsConserved
    <3>5. ReportExact'
      <4> DEFINE waiting == Cardinality(At("wait_empty"))
                 usage == pool_stats.current_usage + 1
      <4>1. waiting \in Nat /\ waiting' = waiting
        BY <1>10, <2>2, Moves DEF InsertFresh, Ind
      <4>2. pool_stats' = CountLoad
        BY <1>10, <2>2 DEF InsertFresh
      <4>3. /\ pool_stats'.load_count = pool_stats.load_count + 1
            /\ pool_stats'.unload_count = pool_stats.unload_count
            /\ pool_stats'.blocked_count = pool_stats.blocked_count
            /\ pool_stats'.current_usage = usage
            /\ pool_stats'.peak_usage = IF usage > pool_stats.peak_usage THEN usage
                                        ELSE pool_stats.peak_usage
        BY <4>2, CountShape
      <4>4. waiting' <= pool_stats'.blocked_count
        BY <4>1, <4>3 DEF PoolBooks, ReportExact
      <4> HIDE DEF waiting
      <4>5. /\ pool_stats.current_usage = Cardinality(InUse)
            /\ pool_stats.load_count - pool_stats.unload_count = pool_stats.current_usage
            /\ pool_stats.peak_usage <= BUFFER_POOL_SIZE
            /\ pool_stats.load_count \in Nat /\ pool_stats.unload_count \in Nat
            /\ pool_stats.peak_usage \in Int
        BY <1>0 DEF PoolBooks, ReportExact, StatsType
      <4>6. /\ pool_stats'.current_usage = Cardinality(InUse)'
            /\ pool_stats'.load_count - pool_stats'.unload_count = pool_stats'.current_usage
            /\ pool_stats'.current_usage <= pool_stats'.peak_usage
            /\ pool_stats'.peak_usage <= BUFFER_POOL_SIZE
        BY <1>0, <3>2, <3>4, <4>3, <4>5, PoolAssumption
      <4> QED
        BY <4>4, <4>6 DEF ReportExact, waiting
    <3> QED
      BY <3>3, <3>5 DEF PoolBooks
  <2> QED
    BY <2>1, <2>2
<1>11. ASSUME NEW t \in Txs, PostFull(t) PROVE PoolBooks'
  <2>1. InUse' = InUse
    BY <1>11, SameInUse DEF PostFull
  <2>2. PermitsConserved' /\ FullConserved'
    BY <1>0, <1>11, <2>1, PermitStep DEF PostFull, PoolBooks, Ind
  <2>3. ReportExact'
    BY <1>11, <2>1, ReportKept DEF PostFull, PoolBooks
  <2> QED
    BY <2>2, <2>3 DEF PoolBooks
<1>12. ASSUME NEW t \in Txs, ReturnPermit(t) PROVE PoolBooks'
  <2>1. InUse' = InUse
    BY <1>12, SameInUse DEF ReturnPermit
  <2>2. PermitsConserved' /\ FullConserved'
    BY <1>0, <1>12, <2>1, PermitStep DEF ReturnPermit, PoolBooks, Ind
  <2>3. ReportExact'
    BY <1>12, <2>1, ReportKept DEF ReturnPermit, PoolBooks
  <2> QED
    BY <2>2, <2>3 DEF PoolBooks
<1>13. ASSUME NEW t \in Txs, UnloadShared(t) PROVE PoolBooks'
  <2>1. InUse' = InUse
    BY <1>13, UnpinEffect, SameInUse DEF UnloadShared
  <2> QED
    BY <1>13, <2>1, QuietStep DEF UnloadShared
<1>14. ASSUME NEW t \in Txs, UnloadLast(t) PROVE PoolBooks'
  <2>1. /\ Cardinality(InUse)' \in Nat
        /\ Cardinality(InUse)' = Cardinality(InUse) - 1
    BY <1>14, ClearInUse DEF UnloadLast, LastPin
  <2>2. PermitsConserved' /\ FullConserved'
    BY <1>0, <1>14, <2>1, PermitStep DEF UnloadLast, PoolBooks, Ind
  <2>3. ReportExact'
    <3> DEFINE waiting == Cardinality(At("wait_empty"))
    <3>1. waiting \in Nat /\ waiting' = waiting
      <4>1. GoTo(t, "unload", "wait_full")
        BY <1>14 DEF UnloadLast
      <4> QED
        BY <4>1, Moves DEF Ind
    <3>2. pool_stats' = CountUnload
      BY <1>14 DEF UnloadLast
    <3>3. /\ pool_stats'.load_count = pool_stats.load_count
          /\ pool_stats'.unload_count = pool_stats.unload_count + 1
          /\ pool_stats'.blocked_count = pool_stats.blocked_count
          /\ pool_stats'.current_usage = pool_stats.current_usage - 1
          /\ pool_stats'.peak_usage = pool_stats.peak_usage
      BY <3>2, CountShape
    <3>4. waiting' <= pool_stats'.blocked_count
      BY <3>1, <3>3 DEF PoolBooks, ReportExact
    <3> HIDE DEF waiting
    <3>5. /\ pool_stats.current_usage = Cardinality(InUse)
          /\ pool_stats.load_count - pool_stats.unload_count = pool_stats.current_usage
          /\ pool_stats.current_usage <= pool_stats.peak_usage
          /\ pool_stats.peak_usage <= BUFFER_POOL_SIZE
          /\ pool_stats.load_count \in Nat /\ pool_stats.unload_count \in Nat
          /\ pool_stats.peak_usage \in Int
      BY <1>0 DEF PoolBooks, ReportExact, StatsType
    <3>6. /\ pool_stats'.current_usage = Cardinality(InUse)'
          /\ pool_stats'.load_count - pool_stats'.unload_count = pool_stats'.current_usage
          /\ pool_stats'.current_usage <= pool_stats'.peak_usage
          /\ pool_stats'.peak_usage <= BUFFER_POOL_SIZE
      BY <1>0, <2>1, <3>3, <3>5
    <3> QED
      BY <3>4, <3>6 DEF ReportExact, waiting
  <2> QED
    BY <2>2, <2>3 DEF PoolBooks
<1>15. ASSUME NEW t \in Txs, WaitFull(t) PROVE PoolBooks'
  <2>1. InUse' = InUse
    BY <1>15, SameInUse DEF WaitFull
  <2>2. PermitsConserved' /\ FullConserved'
    BY <1>0, <1>15, <2>1, PermitStep DEF WaitFull, PoolBooks, Ind
  <2>3. ReportExact'
    BY <1>15, <2>1, ReportKept DEF WaitFull, PoolBooks
  <2> QED
    BY <2>2, <2>3 DEF PoolBooks
<1>16. ASSUME NEW t \in Txs, PostEmpty(t) PROVE PoolBooks'
  <2>1. InUse' = InUse
    BY <1>16, SameInUse DEF PostEmpty
  <2>2. PermitsConserved' /\ FullConserved'
    BY <1>0, <1>16, <2>1, PermitStep DEF PostEmpty, PoolBooks, Ind
  <2>3. ReportExact'
    BY <1>16, <2>1, ReportKept DEF PostEmpty, PoolBooks
  <2> QED
    BY <2>2, <2>3 DEF PoolBooks
<1>17. ASSUME NEW t \in Txs, FinishUnload(t) PROVE PoolBooks'
  <2>1. InUse' = InUse
    BY <1>17, SameInUse DEF FinishUnload
  <2> QED
    BY <1>17, <2>1, QuietStep DEF FinishUnload
<1>18. CASE UNCHANGED poolVars
  BY <1>18 DEF poolVars, PoolBooks, PermitsConserved, FullConserved, ReportExact,
               InUse, EmptyPermits, At
<1> QED
  BY <1>1, <1>2, <1>3, <1>4, <1>5, <1>6, <1>7, <1>8, <1>9, <1>10, <1>11, <1>12, <1>13,
     <1>14, <1>15, <1>16, <1>17, <1>18
     DEF PoolNext, PoolStep, ClientStep, PoolTerminated
--------------------------------------------------------------------------------
(***************************************************************************)
(* One slot per account.  Only the second critical section of load_account *)
(* gives an account a slot, and it has just scanned for one.               *)
(***************************************************************************)

\* A step that changes pin counts only keeps the slots distinct.
LEMMA SameOwners ==
  ASSUME NoDuplicateSlots,
         \A i \in Slots : /\ slots'[i].in_use = slots[i].in_use
                          /\ slots'[i].account_id = slots[i].account_id
  PROVE  NoDuplicateSlots'
BY DEF NoDuplicateSlots, InUse, Slots

LEMMA UniqueInit == PoolInit => NoDuplicateSlots
BY DEF PoolInit, NoDuplicateSlots, InUse, EmptySlot

LEMMA UniqueStep ==
  ASSUME PoolShape, NoDuplicateSlots, [PoolNext]_poolVars
  PROVE  NoDuplicateSlots'
<1>1. ASSUME UNCHANGED slots PROVE NoDuplicateSlots'
  BY <1>1, SameOwners
<1>2. ASSUME NEW t \in Txs, LookupHit(t) PROVE NoDuplicateSlots'
  BY <1>2, PinEffect, SameOwners DEF LookupHit
<1>3. ASSUME NEW t \in Txs, InsertShared(t) PROVE NoDuplicateSlots'
  BY <1>3, PinEffect, SameOwners DEF InsertShared, LoadedMeanwhile
<1>4. ASSUME NEW t \in Txs, InsertFresh(t) PROVE NoDuplicateSlots'
  <2>1. CASE FreeSlots = {}
    BY <1>1, <1>4, <2>1 DEF InsertFresh
  <2>2. CASE FreeSlots # {}
    <3> DEFINE m == Min(FreeSlots)
               a == request[t]
    <3>1. a \in Accounts
      BY <1>4 DEF InsertFresh, GoTo, PoolShape, LoadLabels
    <3>2. /\ slots' = Fill(a)
          /\ SlotsOf(a) = {}
      BY <1>4, <2>2 DEF InsertFresh, LoadedMeanwhile
    <3> HIDE DEF a
    <3>3. /\ slots'[m] = [account_id |-> a, in_use |-> TRUE, pin_count |-> 1]
          /\ \A i \in Slots : i # m => slots'[i] = slots[i]
      BY <2>2, <3>1, <3>2, FillEffect
    <3> HIDE DEF m
    <3>4. ASSUME NEW i \in InUse', i # m PROVE i \in InUse /\ slots'[i].account_id # a
      BY <3>2, <3>3, <3>4 DEF InUse, SlotsOf, Slots
    <3>5. \A i \in InUse' : i \in Slots
      BY DEF InUse, Slots
    <3> QED
      BY <3>3, <3>4, <3>5 DEF NoDuplicateSlots
  <2> QED
    BY <2>1, <2>2
<1>5. ASSUME NEW t \in Txs, UnloadShared(t) PROVE NoDuplicateSlots'
  <2> DEFINE a == Last(loaded_accounts[t])
  <2>1. CASE SlotsOf(a) = {}
    BY <1>1, <1>5, <2>1 DEF UnloadShared
  <2>2. CASE SlotsOf(a) # {}
    BY <1>5, <2>2, UnpinEffect, SameOwners DEF UnloadShared
  <2> QED
    BY <2>1, <2>2
<1>6. ASSUME NEW t \in Txs, UnloadLast(t) PROVE NoDuplicateSlots'
  <2> DEFINE a == Last(loaded_accounts[t])
             m == Min(SlotsOf(a))
  <2>1. SlotsOf(a) # {} /\ slots' = Clear(a)
    BY <1>6 DEF UnloadLast, LastPin
  <2>2. /\ m \in SlotsOf(a)
        /\ slots'[m] = EmptySlot
        /\ \A i \in Slots : i # m => slots'[i] = slots[i]
    BY <2>1, ClearEffect
  <2> HIDE DEF m
  <2>3. ASSUME NEW i \in InUse' PROVE i \in InUse /\ slots'[i] = slots[i]
    BY <2>2, <2>3 DEF InUse, EmptySlot, Slots
  <2> QED
    BY <2>3 DEF NoDuplicateSlots
<1> QED
  BY <1>1, <1>2, <1>3, <1>4, <1>5, <1>6
     DEF PoolNext, PoolStep, ClientStep, PoolTerminated, poolVars,
         CallLoad, BeginUnload, LookupMiss, TryWaitTaken, TryWaitFull, CountBlocked, WaitEmpty,
         PostFull, ReturnPermit, WaitFull, PostEmpty, FinishUnload
--------------------------------------------------------------------------------
(***************************************************************************)
(* The theorems                                                            *)
(***************************************************************************)

\* The inductive invariant: the shape of the state, the three books, and the
\* uniqueness of slots.
PoolIInv == PoolShape /\ PoolBooks /\ NoDuplicateSlots

LEMMA PoolInvariance == PoolSafeSpec => []PoolIInv
<1>1. PoolInit => PoolIInv
  BY ShapeInit, BooksInit, UniqueInit DEF PoolIInv
<1>2. PoolIInv /\ [PoolNext]_poolVars => PoolIInv'
  BY ShapeStep, BooksStep, UniqueStep DEF PoolIInv
<1> QED
  BY <1>1, <1>2, PTL DEF PoolSafeSpec

\* The pool keeps to its types, and current_usage and peak_usage never leave
\* 0..BUFFER_POOL_SIZE although no code compares them with the capacity.
THEOREM PoolTypeCorrect == PoolSafeSpec => []PoolTypeOK
<1>1. PoolIInv => PoolTypeOK
  <2> SUFFICES ASSUME PoolIInv PROVE PoolTypeOK
    OBVIOUS
  <2>1. PoolShape /\ ReportExact
    BY DEF PoolIInv, PoolBooks
  <2>2. Cardinality(InUse) \in 0..BUFFER_POOL_SIZE
    BY Occupancy
  <2>3. /\ pool_stats.current_usage \in 0..BUFFER_POOL_SIZE
        /\ pool_stats.peak_usage \in 0..BUFFER_POOL_SIZE
    BY <2>1, <2>2, PoolAssumption DEF PoolShape, StatsType, ReportExact
  <2>4. pool_stats \in [load_count : Nat, unload_count : Nat, blocked_count : Nat,
                        current_usage : 0..BUFFER_POOL_SIZE, peak_usage : 0..BUFFER_POOL_SIZE]
    BY <2>1, <2>3 DEF PoolShape, StatsType
  <2> QED
    BY <2>1, <2>4 DEF PoolShape, PoolTypeOK, SlotType, Labels
<1> QED
  BY <1>1, PoolInvariance, PTL

\* However the semaphore operations interleave with the critical sections, no
\* empty_slots permit is lost or made up.
THEOREM PermitsNeverLost == PoolSafeSpec => []PermitsConserved
<1>1. PoolIInv => PermitsConserved
  BY DEF PoolIInv, PoolBooks
<1> QED
  BY <1>1, PoolInvariance, PTL

\* The posts of full_slots that trail the insertions and its waits that trail
\* the removals account for every difference from the occupied slots.
THEOREM FullSlotsAccounted == PoolSafeSpec => []FullConserved
<1>1. PoolIInv => FullConserved
  BY DEF PoolIInv, PoolBooks
<1> QED
  BY <1>1, PoolInvariance, PTL

\* The statistics of the pool are exact in every state.
THEOREM StatisticsExact == PoolSafeSpec => []ReportExact
<1>1. PoolIInv => ReportExact
  BY DEF PoolIInv, PoolBooks
<1> QED
  BY <1>1, PoolInvariance, PTL

\* No account ever occupies two slots.
THEOREM OneSlotPerAccount == PoolSafeSpec => []NoDuplicateSlots
<1>1. PoolIInv => NoDuplicateSlots
  BY DEF PoolIInv
<1> QED
  BY <1>1, PoolInvariance, PTL

\* A thread that holds a permit for a slot it has not filled yet finds one.
LEMMA PermitLeavesRoom ==
  ASSUME PoolIInv, NEW t \in Txs, pool_pc[t] = "insert"
  PROVE  Cardinality(InUse) < BUFFER_POOL_SIZE /\ FreeSlots # {}
<1>1. IsFiniteSet(EmptyPermits) /\ t \in EmptyPermits
  BY BankTypesAssumption, FS_Subset DEF EmptyPermits
<1>2. Cardinality(EmptyPermits) \in Nat /\ Cardinality(EmptyPermits) # 0
  BY <1>1, FS_CardinalityType, FS_EmptySet
<1>3. empty_slots \in Nat /\ Cardinality(InUse) \in Nat
  BY Occupancy, PoolAssumption DEF PoolIInv, PoolShape
<1>4. Cardinality(InUse) < BUFFER_POOL_SIZE
  BY <1>2, <1>3, PoolAssumption DEF PoolIInv, PoolBooks, PermitsConserved
<1> QED
  BY <1>4, Occupancy

\* The scan for a free slot in load_account never comes up empty, so the path
\* on which it would return without the account is dead.
THEOREM FreeSlotFound == PoolSafeSpec => []PermitMeansFreeSlot
<1>1. PoolIInv => PermitMeansFreeSlot
  BY PermitLeavesRoom DEF PermitMeansFreeSlot
<1> QED
  BY <1>1, PoolInvariance, PTL
================================================================================
