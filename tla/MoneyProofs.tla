------------------------------ MODULE MoneyProofs ------------------------------
(***************************************************************************)
(* Proofs about the money and the report: the sums of BankDB over any      *)
(* number of accounts, transactions and operations.  The sums of Functions *)
(* are defined by recursion over a finite set; what is needed of them is   *)
(* shown first, by induction on the subsets of that set.                   *)
(***************************************************************************)
EXTENDS TransactionsProofs, WellFoundedInduction

\* A set of subsets of S that has the empty set, and every set of which it has all
\* the sets that lack one element, has S.
LEMMA SubsetInduction ==
  ASSUME NEW S, IsFiniteSet(S), NEW Good, {} \in Good,
         \A T \in SUBSET S : T # {} /\ (\A x \in T : T \ {x} \in Good) => T \in Good
  PROVE  S \in Good
<1> SUFFICES ASSUME S \notin Good PROVE FALSE
  OBVIOUS
<1> DEFINE Sizes == {n \in Nat : \E T \in SUBSET S : T \notin Good /\ Cardinality(T) = n}
<1>1. \A T \in SUBSET S : IsFiniteSet(T) /\ Cardinality(T) \in Nat
  BY FS_Subset, FS_CardinalityType
<1>2. Cardinality(S) \in Sizes
  BY <1>1
<1>3. PICK m \in Sizes : \A n \in Sizes : m <= n
  <2> HIDE DEF Sizes
  <2>1. Sizes \in SUBSET Nat
    BY DEF Sizes
  <2> QED
    BY <1>2, <2>1, LeastNat
<1>4. PICK T \in SUBSET S : T \notin Good /\ Cardinality(T) = m
  BY <1>3
<1>5. ASSUME NEW x \in T PROVE T \ {x} \in Good
  <2>1. /\ T \ {x} \in SUBSET S
        /\ Cardinality(T \ {x}) = Cardinality(T) - 1
    BY <1>1, <1>4, FS_RemoveElement
  <2>2. Cardinality(T \ {x}) \in Nat /\ Cardinality(T \ {x}) < m
    BY <1>1, <1>4, <2>1
  <2>3. Cardinality(T \ {x}) \in Sizes => m <= Cardinality(T \ {x})
    <3> HIDE DEF Sizes
    <3> QED
      BY <1>3
  <2>4. m \in Nat
    OBVIOUS
  <2>5. Cardinality(T \ {x}) \notin Sizes
    <3> HIDE DEF Sizes
    <3> QED
      BY <2>2, <2>3, <2>4
  <2> QED
    BY <2>1, <2>2, <2>5
<1> QED
  BY <1>4, <1>5

OneOf(s) == CHOOSE x \in s : TRUE

\* The function with which a sum over S is defined.
Sums(g, f, S) ==
  g = [s \in SUBSET S |-> IF s = {} THEN 0 ELSE f[OneOf(s)] + g[s \ {OneOf(s)}]]

PartSums(f, S) == CHOOSE g : Sums(g, f, S)

LEMMA SumDef == \A f, S : SumFunctionOnSet(f, S) = PartSums(f, S)[S]
BY DEF SumFunctionOnSet, FoldFunctionOnSet, MapThenFoldSet, PartSums, Sums, OneOf

LEMMA AnyMember == \A s : s # {} => OneOf(s) \in s
BY DEF OneOf

LEMMA SumsStep ==
  ASSUME NEW f, NEW S, NEW g, Sums(g, f, S), NEW s \in SUBSET S
  PROVE  g[s] = IF s = {} THEN 0 ELSE f[OneOf(s)] + g[s \ {OneOf(s)}]
BY DEF Sums

\* Two such functions agree.
LEMMA SumsAgree ==
  ASSUME NEW f, NEW S, NEW T, NEW g, NEW h, Sums(g, f, S), Sums(h, f, T),
         NEW s \in SUBSET (S \cap T), IsFiniteSet(s)
  PROVE  g[s] = h[s]
<1> DEFINE Good == {u \in SUBSET s : g[u] = h[u]}
<1>1. {} \in Good
  BY SumsStep
<1>2. ASSUME NEW u \in SUBSET s, u # {}, \A x \in u : u \ {x} \in Good PROVE u \in Good
  <2>1. OneOf(u) \in u
    BY <1>2, AnyMember
  <2>2. g[u \ {OneOf(u)}] = h[u \ {OneOf(u)}]
    BY <1>2, <2>1
  <2>3. /\ g[u] = f[OneOf(u)] + g[u \ {OneOf(u)}]
        /\ h[u] = f[OneOf(u)] + h[u \ {OneOf(u)}]
    BY <1>2, SumsStep
  <2> QED
    BY <2>2, <2>3
<1>3. s \in Good
  <2> HIDE DEF Good
  <2> QED
    BY <1>1, <1>2, SubsetInduction
<1> QED
  BY <1>3

\* There is one for every finite set.
LEMMA SumsExist ==
  ASSUME NEW f, NEW S, IsFiniteSet(S)
  PROVE  Sums(PartSums(f, S), f, S)
<1> DEFINE Good == {T \in SUBSET S : \A r \in SUBSET T : Sums(PartSums(f, r), f, r)}
<1>1. {} \in Good
  <2>1. \A g : g = [s \in SUBSET {} |-> 0] => Sums(g, f, {})
    BY DEF Sums
  <2> QED
    BY <2>1 DEF PartSums
<1>2. ASSUME NEW T \in SUBSET S, T # {}, \A x \in T : T \ {x} \in Good PROVE T \in Good
  <2> DEFINE sum(r) == PartSums(f, r)[r]
             h == [s \in SUBSET T |-> IF s = {} THEN 0 ELSE f[OneOf(s)] + sum(s \ {OneOf(s)})]
  <2>1. ASSUME NEW r \in SUBSET T, r # T PROVE Sums(PartSums(f, r), f, r) /\ IsFiniteSet(r)
    <3>1. PICK x \in T : x \notin r
      BY <2>1
    <3>2. r \in SUBSET (T \ {x})
      BY <3>1
    <3> QED
      BY <1>2, <3>2, FS_Subset
  <2>2. ASSUME NEW s \in SUBSET T, s # T PROVE h[s] = sum(s)
    <3>1. sum(s) = IF s = {} THEN 0 ELSE f[OneOf(s)] + PartSums(f, s)[s \ {OneOf(s)}]
      <4> DEFINE g == PartSums(f, s)
      <4>1. Sums(g, f, s) /\ s \in SUBSET s
        BY <2>1, <2>2
      <4> HIDE DEF g
      <4>2. g[s] = IF s = {} THEN 0 ELSE f[OneOf(s)] + g[s \ {OneOf(s)}]
        BY ONLY <4>1, SumsStep
      <4> QED
        BY <4>2 DEF g
    <3>2. ASSUME s # {} PROVE PartSums(f, s)[s \ {OneOf(s)}] = sum(s \ {OneOf(s)})
      <4>1. OneOf(s) \in s
        BY <3>2, AnyMember
      <4>2. s \ {OneOf(s)} \in SUBSET T /\ s \ {OneOf(s)} # T /\ s \ {OneOf(s)} \in SUBSET (s \cap (s \ {OneOf(s)}))
        BY <2>2, <4>1
      <4> QED
        BY <2>1, <2>2, <4>2, SumsAgree
    <3> HIDE DEF sum
    <3> QED
      BY <3>1, <3>2
  <2>3. Sums(h, f, T)
    <3>1. ASSUME NEW s \in SUBSET T, s # {} PROVE h[s \ {OneOf(s)}] = sum(s \ {OneOf(s)})
      <4>1. s \ {OneOf(s)} \in SUBSET T /\ s \ {OneOf(s)} # T
        BY <3>1, AnyMember
      <4> HIDE DEF h, sum
      <4> QED
        BY <2>2, <4>1
    <3>2. \A s \in SUBSET T : h[s] = IF s = {} THEN 0 ELSE f[OneOf(s)] + sum(s \ {OneOf(s)})
      BY DEF h
    <3>3. h = [s \in SUBSET T |-> h[s]]
      BY DEF h
    <3> HIDE DEF h, sum
    <3>4. \A s \in SUBSET T : h[s] = IF s = {} THEN 0 ELSE f[OneOf(s)] + h[s \ {OneOf(s)}]
      BY <3>1, <3>2
    <3> QED
      BY <3>3, <3>4 DEF Sums
  <2>4. Sums(PartSums(f, T), f, T)
    BY <2>3 DEF PartSums
  <2> QED
    BY <2>1, <2>4
<1> HIDE DEF Good
<1>3. S \in Good
  BY <1>1, <1>2, SubsetInduction
<1> QED
  BY <1>3 DEF Good

\* The sum of f over a finite set S.
Total(f, S) == SumFunctionOnSet(f, S)

\* A sum takes its terms in some order.
LEMMA SumUnfold ==
  ASSUME NEW f, NEW S, IsFiniteSet(S)
  PROVE  Total(f, S) = IF S = {} THEN 0 ELSE f[OneOf(S)] + Total(f, S \ {OneOf(S)})
<1>1. Total(f, S) = IF S = {} THEN 0 ELSE f[OneOf(S)] + PartSums(f, S)[S \ {OneOf(S)}]
  <2>1. Sums(PartSums(f, S), f, S) /\ S \in SUBSET S
    BY SumsExist
  <2>2. PartSums(f, S)[S] = IF S = {} THEN 0 ELSE f[OneOf(S)] + PartSums(f, S)[S \ {OneOf(S)}]
    BY <2>1, SumsStep
  <2> QED
    BY <2>2, SumDef DEF Total
<1>2. ASSUME S # {} PROVE PartSums(f, S)[S \ {OneOf(S)}] = Total(f, S \ {OneOf(S)})
  <2>1. IsFiniteSet(S \ {OneOf(S)})
    BY FS_Subset
  <2>2. /\ Sums(PartSums(f, S), f, S)
        /\ Sums(PartSums(f, S \ {OneOf(S)}), f, S \ {OneOf(S)})
    BY <2>1, SumsExist
  <2>3. PartSums(f, S)[S \ {OneOf(S)}] = PartSums(f, S \ {OneOf(S)})[S \ {OneOf(S)}]
    BY <2>1, <2>2, SumsAgree
  <2> QED
    BY <2>3, SumDef DEF Total
<1> QED
  BY <1>1, <1>2

LEMMA SumInt ==
  ASSUME NEW S, IsFiniteSet(S), NEW f, \A x \in S : f[x] \in Int
  PROVE  Total(f, S) \in Int
<1> DEFINE Good == {T \in SUBSET S : Total(f, T) \in Int}
<1>1. {} \in Good
  <2>1. Total(f, {}) = 0
    BY SumUnfold, FS_EmptySet
  <2> QED
    BY <2>1
<1>2. ASSUME NEW T \in SUBSET S, T # {}, \A x \in T : T \ {x} \in Good PROVE T \in Good
  <2>1. OneOf(T) \in T /\ IsFiniteSet(T)
    BY <1>2, AnyMember, FS_Subset
  <2>2. Total(f, T) = f[OneOf(T)] + Total(f, T \ {OneOf(T)})
    BY <1>2, <2>1, SumUnfold
  <2>3. f[OneOf(T)] \in Int /\ Total(f, T \ {OneOf(T)}) \in Int
    BY <1>2, <2>1
  <2> QED
    BY <2>2, <2>3
<1> HIDE DEF Good
<1>3. S \in Good
  BY <1>1, <1>2, SubsetInduction
<1> QED
  BY <1>3 DEF Good

\* The order does not matter.
LEMMA SumSplit ==
  ASSUME NEW S, IsFiniteSet(S), NEW f, \A x \in S : f[x] \in Int
  PROVE  \A x \in S : Total(f, S) = f[x] + Total(f, S \ {x})
<1> DEFINE Good == {T \in SUBSET S : \A x \in T : Total(f, T) = f[x] + Total(f, T \ {x})}
<1>1. {} \in Good
  OBVIOUS
<1>2. ASSUME NEW T \in SUBSET S, T # {}, \A x \in T : T \ {x} \in Good,
             NEW x \in T
      PROVE  Total(f, T) = f[x] + Total(f, T \ {x})
  <2>1. PICK c \in T : c = OneOf(T)
    BY <1>2, AnyMember
  <2>2. Total(f, T) = f[c] + Total(f, T \ {c})
    BY <1>2, <2>1, SumUnfold, FS_Subset
  <2>3. CASE x # c
    <3>1. PICK R \in SUBSET S : R = (T \ {c}) \ {x} /\ R = (T \ {x}) \ {c}
      OBVIOUS
    <3>2. Total(f, T \ {c}) = f[x] + Total(f, R)
      BY <1>2, <2>3, <3>1
    <3>3. Total(f, T \ {x}) = f[c] + Total(f, R)
      BY <1>2, <2>3, <3>1
    <3>4. Total(f, R) \in Int
      BY SumInt, FS_Subset
    <3>5. f[c] \in Int /\ f[x] \in Int
      OBVIOUS
    <3> QED
      BY <2>2, <3>2, <3>3, <3>4, <3>5
  <2>4. CASE x = c
    BY <2>2, <2>4
  <2> QED
    BY <2>3, <2>4
<1> HIDE DEF Good
<1>3. S \in Good
  BY <1>1, <1>2, SubsetInduction DEF Good
<1> QED
  BY <1>3 DEF Good

LEMMA SumEmpty == ASSUME NEW f PROVE Total(f, {}) = 0
BY SumUnfold, FS_EmptySet

\* Only the terms matter.
LEMMA SumEqual ==
  ASSUME NEW S, IsFiniteSet(S), NEW f, NEW g, \A x \in S : f[x] = g[x]
  PROVE  Total(f, S) = Total(g, S)
<1> DEFINE Good == {T \in SUBSET S : Total(f, T) = Total(g, T)}
<1>1. {} \in Good
  BY SumEmpty
<1>2. ASSUME NEW T \in SUBSET S, T # {}, \A x \in T : T \ {x} \in Good PROVE T \in Good
  <2>1. OneOf(T) \in T /\ IsFiniteSet(T)
    BY <1>2, AnyMember, FS_Subset
  <2>2. /\ Total(f, T) = f[OneOf(T)] + Total(f, T \ {OneOf(T)})
        /\ Total(g, T) = g[OneOf(T)] + Total(g, T \ {OneOf(T)})
    BY <1>2, <2>1, SumUnfold
  <2> QED
    BY <1>2, <2>1, <2>2
<1> HIDE DEF Good
<1>3. S \in Good
  BY <1>1, <1>2, SubsetInduction
<1> QED
  BY <1>3 DEF Good

\* One term changes.
LEMMA SumChange ==
  ASSUME NEW S, IsFiniteSet(S), NEW x \in S, NEW f, NEW g,
         \A y \in S : f[y] \in Int /\ g[y] \in Int, \A y \in S : y # x => g[y] = f[y]
  PROVE  Total(g, S) = Total(f, S) + (g[x] - f[x])
<1> DEFINE R == S \ {x}
<1>1. IsFiniteSet(R)
  BY FS_Subset
<1>2. Total(f, S) = f[x] + Total(f, R) /\ Total(g, S) = g[x] + Total(g, R)
  BY SumSplit
<1>3. Total(g, R) = Total(f, R) /\ Total(f, R) \in Int
  BY <1>1, SumEqual, SumInt
<1> QED
  BY <1>2, <1>3

LEMMA SumPlus ==
  ASSUME NEW S, IsFiniteSet(S), NEW f, NEW g, NEW h,
         \A x \in S : f[x] \in Int /\ g[x] \in Int /\ h[x] = f[x] + g[x]
  PROVE  Total(h, S) = Total(f, S) + Total(g, S)
<1> DEFINE Good == {T \in SUBSET S : Total(h, T) = Total(f, T) + Total(g, T)}
<1>1. {} \in Good
  BY SumEmpty
<1>2. ASSUME NEW T \in SUBSET S, T # {}, \A x \in T : T \ {x} \in Good PROVE T \in Good
  <2>1. PICK c \in T : c = OneOf(T)
    BY <1>2, AnyMember
  <2>2. PICK R \in SUBSET S : R = T \ {c}
    OBVIOUS
  <2>3. IsFiniteSet(T) /\ IsFiniteSet(R)
    BY FS_Subset
  <2>4. /\ Total(f, T) = f[c] + Total(f, R)
        /\ Total(g, T) = g[c] + Total(g, R)
        /\ Total(h, T) = h[c] + Total(h, R)
    BY <1>2, <2>1, <2>2, <2>3, SumUnfold
  <2>5. Total(h, R) = Total(f, R) + Total(g, R)
    BY <1>2, <2>2
  <2>6. Total(f, R) \in Int /\ Total(g, R) \in Int
    BY <2>3, SumInt
  <2> QED
    BY <2>4, <2>5, <2>6
<1> HIDE DEF Good
<1>3. S \in Good
  BY <1>1, <1>2, SubsetInduction
<1> QED
  BY <1>3 DEF Good

LEMMA SumUnion ==
  ASSUME NEW A, IsFiniteSet(A), NEW B, IsFiniteSet(B), A \cap B = {},
         NEW f, \A x \in A \cup B : f[x] \in Int
  PROVE  Total(f, A \cup B) = Total(f, A) + Total(f, B)
<1> DEFINE Good == {T \in SUBSET B : Total(f, A \cup T) = Total(f, A) + Total(f, T)}
<1>1. {} \in Good
  <2>1. Total(f, {}) = 0 /\ A \cup {} = A /\ Total(f, A) \in Int
    BY SumEmpty, SumInt
  <2> QED
    BY <2>1
<1>2. ASSUME NEW T \in SUBSET B, T # {}, \A x \in T : T \ {x} \in Good PROVE T \in Good
  <2>1. PICK c : c \in T
    BY <1>2
  <2>2. PICK R \in SUBSET B : R = T \ {c}
    OBVIOUS
  <2>3. IsFiniteSet(T) /\ IsFiniteSet(R) /\ IsFiniteSet(A \cup T)
    BY FS_Subset, FS_Union
  <2>4. Total(f, T) = f[c] + Total(f, R)
    BY <2>1, <2>2, <2>3, SumSplit
  <2>5. Total(f, A \cup T) = f[c] + Total(f, A \cup R)
    <3>1. (A \cup T) \ {c} = A \cup R /\ c \in A \cup T
      BY <2>1, <2>2
    <3>2. Total(f, A \cup T) = f[c] + Total(f, (A \cup T) \ {c})
      BY <2>3, <3>1, SumSplit
    <3> QED
      BY <3>1, <3>2
  <2>6. Total(f, A \cup R) = Total(f, A) + Total(f, R)
    BY <1>2, <2>1, <2>2
  <2>7. Total(f, A) \in Int /\ Total(f, R) \in Int /\ f[c] \in Int
    BY <2>1, <2>3, SumInt
  <2> QED
    BY <2>4, <2>5, <2>6, <2>7
<1> HIDE DEF Good
<1>3. B \in Good
  BY <1>1, <1>2, SubsetInduction
<1> QED
  BY <1>3 DEF Good

LEMMA SumBounds ==
  ASSUME NEW S, IsFiniteSet(S), NEW b \in Nat, NEW f, \A x \in S : f[x] \in Nat /\ f[x] <= b
  PROVE  Total(f, S) \in Nat /\ Total(f, S) <= Cardinality(S) * b
<1> DEFINE Good == {T \in SUBSET S : Total(f, T) \in Nat /\ Total(f, T) <= Cardinality(T) * b}
<1>1. {} \in Good
  BY SumEmpty, FS_EmptySet
<1>2. ASSUME NEW T \in SUBSET S, T # {}, \A x \in T : T \ {x} \in Good PROVE T \in Good
  <2>1. PICK c \in T : c = OneOf(T)
    BY <1>2, AnyMember
  <2>2. PICK R \in SUBSET S : R = T \ {c}
    OBVIOUS
  <2>3. IsFiniteSet(T) /\ Cardinality(T) \in Nat /\ Cardinality(R) = Cardinality(T) - 1
    BY <2>2, FS_Subset, FS_CardinalityType, FS_RemoveElement
  <2>4. Total(f, T) = f[c] + Total(f, R)
    BY <1>2, <2>1, <2>2, <2>3, SumUnfold
  <2>5. Total(f, R) \in Nat /\ Total(f, R) <= Cardinality(R) * b
    BY <1>2, <2>2
  <2>6. \A n \in Int : (n - 1) * b + b = n * b
    OBVIOUS
  <2>7. Total(f, T) <= Cardinality(R) * b + b /\ Total(f, T) \in Nat
    BY <2>3, <2>4, <2>5
  <2> QED
    BY <2>3, <2>6, <2>7
<1> HIDE DEF Good
<1>3. S \in Good
  BY <1>1, <1>2, SubsetInduction
<1> QED
  BY <1>3 DEF Good
--------------------------------------------------------------------------------
(***************************************************************************)
(* Types of the program's variables.                                       *)
(***************************************************************************)

\* A sum of natural numbers.
LEMMA TotalNat ==
  ASSUME NEW S, IsFiniteSet(S), NEW f, \A x \in S : f[x] \in Nat
  PROVE  Total(f, S) \in Nat
<1> DEFINE Good == {T \in SUBSET S : Total(f, T) \in Nat}
<1>1. {} \in Good
  BY SumEmpty
<1>2. ASSUME NEW T \in SUBSET S, T # {}, \A x \in T : T \ {x} \in Good PROVE T \in Good
  <2>1. OneOf(T) \in T /\ IsFiniteSet(T)
    BY <1>2, AnyMember, FS_Subset
  <2>2. Total(f, T) = f[OneOf(T)] + Total(f, T \ {OneOf(T)})
    BY <1>2, <2>1, SumUnfold
  <2>3. f[OneOf(T)] \in Nat /\ Total(f, T \ {OneOf(T)}) \in Nat
    BY <1>2, <2>1
  <2> QED
    BY <2>2, <2>3
<1> HIDE DEF Good
<1>3. S \in Good
  BY <1>1, <1>2, SubsetInduction
<1> QED
  BY <1>3 DEF Good

\* What of TypeOK the shape of the program leaves open: a thread goes past its
\* last operation by one, and main adds up and prints numbers.
ReportShape ==
  /\ \A t \in Txs : op_index[t] <= Len(ops[t]) + 1
  /\ initial_total \in Nat
  /\ balance_check \in {"none", "PASS", "FAIL"}
  /\ DOMAIN summary = DOMAIN NoSummary

LEMMA ReportShapeInitially == Init => ReportShape
<1> SUFFICES ASSUME Init PROVE ReportShape
  OBVIOUS
<1>1. \A t \in Txs : op_index[t] <= Len(ops[t]) + 1
  <2>1. ProgramShape
    BY ShapeOfProgramInit
  <2>2. \A t \in Txs : op_index[t] = 1 /\ Len(ops[t]) \in 1..MAX_OPS_PER_TX
    BY <2>1, OpsOfProgram DEF Init
  <2> QED
    BY <2>2, BankDBAssumption
<1>2. initial_total \in Nat
  <2>1. balance \in [Accounts -> InitialBalances]
    BY DEF Init, BankInit
  <2>2. DOMAIN balance = Accounts /\ \A a \in Accounts : balance[a] \in Nat
    <3>1. InitialBalances \subseteq Nat
      BY BankAssumption
    <3> QED
      BY <2>1, <3>1
  <2>3. Total(balance, Accounts) \in Nat
    BY <2>2, BankTypesAssumption, TotalNat
  <2>4. initial_total = Total(balance, Accounts)
    BY <2>2 DEF Init, TotalBalance, SumFunction, Total
  <2> QED
    BY <2>3, <2>4
<1> QED
  BY <1>1, <1>2 DEF Init, ReportShape

\* Only main writes what main reports.
LEMMA ReportOfThreads ==
  ASSUME NEW t \in Txs, TxStep(t)
  PROVE  UNCHANGED mainVars
BY DEF TxStep, Transaction, Wait, Spurious, Begin, LoadNext, Execute, TakeResult, Commit, Abort, InPool, InBank

LEMMA ReportShapeStep ==
  ASSUME EveryIInv, ReportShape, [Next]_vars
  PROVE  ReportShape'
<1>1. ASSUME NEW t \in Txs, TxStep(t) PROVE ReportShape'
  <2>1. UNCHANGED mainVars
    BY <1>1, ReportOfThreads
  <2>2. CASE TakeResult(t)
    <3>1. /\ ops' = ops /\ \A u \in Txs : u # t => op_index'[u] = op_index[u]
          /\ op_index'[t] = op_index[t] \/ op_index'[t] = op_index[t] + 1
      BY <2>2, StageFacts DEF TakeResult
    <3>2. bank_pc[t] # "idle"
      BY <2>2 DEF TakeResult, ReturnBank, Proceed
    <3>3. op_index[t] <= Len(ops[t]) /\ op_index[t] \in Nat /\ Len(ops[t]) \in Nat
      BY <3>2, StageFacts DEF ThreadStage, MoreOps
    <3>4. op_index'[t] <= Len(ops[t]) + 1
      BY <3>1, <3>3
    <3>5. \A u \in Txs : op_index'[u] <= Len(ops'[u]) + 1
      BY <3>1, <3>4 DEF ReportShape
    <3> QED
      BY <2>1, <3>5 DEF ReportShape, mainVars, reportVars
  <2>3. CASE ~TakeResult(t)
    <3>1. UNCHANGED <<ops, op_index>>
      BY <1>1, <2>3 DEF TxStep, Transaction, Wait, Spurious, Begin, LoadNext, Execute, Commit, Abort,
                        InPool, InBank, txVars
    <3> QED
      BY <2>1, <3>1 DEF ReportShape, mainVars, reportVars
  <2> QED
    BY <2>2, <2>3
<1>2. ASSUME NEW t \in Txs, CreateThread(t) PROVE ReportShape'
  BY <1>2 DEF CreateThread, ReportShape, reportVars
<1>3. CASE Bystander /\ ~Report
  BY <1>3 DEF Bystander, Clock, CreateTimer, CreateTimerFails, Stop, JoinTimer, Cleanup, JoinThread, vars,
              txVars, mainVars, reportVars, ReportShape
<1>4. CASE Report
  <2>1. UNCHANGED <<ops, op_index, initial_total>> /\ balance_check' \in {"PASS", "FAIL"}
    BY <1>4 DEF Report, txVars
  <2>2. DOMAIN summary' = DOMAIN NoSummary
    BY <1>4 DEF Report, Summary, NoSummary
  <2> QED
    BY <2>1, <2>2 DEF ReportShape
<1> QED
  BY <1>1, <1>2, <1>3, <1>4 DEF Next, Main, Terminated, TxStep, Bystander

LEMMA ReportShapeAlways == SafeSpec => [](EveryIInv /\ ReportShape)
<1>1. EveryIInv /\ ReportShape /\ [Next]_vars => ReportShape'
  BY ReportShapeStep
<1> QED
  BY <1>1, ReportShapeInitially, EveryInvariance, PTL DEF SafeSpec

\* The variables of the program keep their types; a refused operation is never
\* counted as done, and no thread reads its program beyond the end.
THEOREM ProgramTypeCorrect == SafeSpec => []TypeOK
<1>1. EveryIInv /\ ReportShape => TypeOK
  <2> SUFFICES ASSUME EveryIInv, ReportShape PROVE TypeOK
    OBVIOUS
  <2>1. ProgramShape
    BY DEF EveryIInv
  <2>2. ASSUME NEW t \in Txs
        PROVE  op_index[t] \in 1..(Len(ops[t]) + (IF failed[t] THEN 0 ELSE 1))
    <3>1. op_index[t] \in Nat \ {0} /\ Len(ops[t]) \in Nat /\ ThreadStage(t)
      BY StageFacts
    <3>2. CASE failed[t]
      BY <3>1, <3>2 DEF ThreadStage, MoreOps
    <3>3. CASE ~failed[t]
      BY <3>1, <3>3 DEF ReportShape
    <3> QED
      BY <3>2, <3>3
  <2> QED
    BY <2>1, <2>2 DEF ProgramShape, MainLabels, ReportShape, TypeOK
<1> QED
  BY <1>1, ReportShapeAlways, PTL
--------------------------------------------------------------------------------
(***************************************************************************)
(* The summary.                                                            *)
(***************************************************************************)

\* The clock has passed every tick that was recorded, and a transaction that was
\* not started has not waited.
TimesPast ==
  \A t \in Txs : /\ times[t].actual_end <= global_tick
                 /\ clock_pc[t] = "new" => times[t].wait_ticks = 0

\* The clock and what it is compared with are numbers.
LEMMA ClockTypes ==
  ASSUME TimerIInv
  PROVE  /\ global_tick \in Nat
         /\ \A t \in Txs : /\ start_tick[t] \in Nat
                           /\ times[t].actual_end \in Int /\ times[t].wait_ticks \in Int
         /\ times \in [Txs -> TimesType]
<1>1. /\ TimerTypeOK
      /\ TickBound \in Nat /\ global_tick \in 0..TickBound
      /\ \A t \in Txs : start_tick[t] \in 0..TickBound
  BY StartTickType DEF TimerIInv
<1>2. times \in [Txs -> TimesType]
  BY <1>1 DEF TimerTypeOK
<1>3. \A t \in Txs : times[t].actual_end \in Int /\ times[t].wait_ticks \in Int
  BY <1>2 DEF TimesType
<1> QED
  BY <1>1, <1>2, <1>3

LEMMA TimesPastStep ==
  ASSUME TimerIInv, TimesPast, [TimerNext]_timerVars
  PROVE  TimesPast'
<1>1. /\ global_tick \in Nat
      /\ \A t \in Txs : /\ start_tick[t] \in Nat
                        /\ times[t].actual_end \in Int /\ times[t].wait_ticks \in Int
      /\ times \in [Txs -> TimesType]
  BY ClockTypes
<1>2. ASSUME global_tick' \in Nat, global_tick <= global_tick', times' = times,
             \A t \in Txs : clock_pc'[t] = "new" => clock_pc[t] = "new"
      PROVE  TimesPast'
  <2> SUFFICES ASSUME NEW t \in Txs
               PROVE  /\ times[t].actual_end <= global_tick'
                      /\ clock_pc'[t] = "new" => times[t].wait_ticks = 0
    BY <1>2 DEF TimesPast
  <2>1. /\ times[t].actual_end <= global_tick
        /\ clock_pc[t] = "new" => times[t].wait_ticks = 0
    BY DEF TimesPast
  <2>2. times[t].actual_end \in Int
    BY <1>1
  <2> QED
    BY <1>1, <1>2, <2>1, <2>2
<1>3. TimerTypeOK
  BY DEF TimerIInv
<1>4. \A t \in Txs : Woken[t] = "new" => clock_pc[t] = "new"
  BY DEF Woken
<1>5. CASE TimerTick
  BY <1>1, <1>2, <1>4, <1>5 DEF TimerTick
<1>6. CASE StartTimer \/ StartTimerFails \/ TimerExit \/ StopSimulation \/ UNCHANGED timerVars
  BY <1>1, <1>2, <1>4, <1>6 DEF StartTimer, StartTimerFails, TimerExit, StopSimulation, timerVars
<1>7. ASSUME NEW t \in Txs, EnterWait(t) \/ TestTick(t) \/ SpuriousWakeup(t) PROVE TimesPast'
  <2>1. \A u \in Txs : clock_pc'[u] = "new" => clock_pc[u] = "new"
    BY <1>3, <1>7 DEF TimerTypeOK, EnterWait, TestTick, SpuriousWakeup, MoveClock
  <2> QED
    BY <1>1, <1>2, <1>7, <2>1 DEF EnterWait, TestTick, SpuriousWakeup
<1>8. ASSUME NEW t \in Txs, RecordStart(t) \/ RecordEnd(t) PROVE TimesPast'
  <2>1. /\ global_tick' = global_tick
        /\ \A u \in Txs : u # t => times'[u] = times[u] /\ clock_pc'[u] = clock_pc[u]
        /\ clock_pc'[t] # "new"
    BY <1>1, <1>3, <1>8 DEF TimerTypeOK, RecordStart, RecordEnd, MoveClock
  <2>2. times'[t].actual_end = times[t].actual_end \/ times'[t].actual_end = global_tick
    BY <1>1, <1>8 DEF RecordStart, RecordEnd, TimesType
  <2> QED
    BY <1>1, <2>1, <2>2 DEF TimesPast
<1> QED
  BY <1>5, <1>6, <1>7, <1>8 DEF TimerNext, TimerThread, ClockStep, TimerTerminated

LEMMA TimesPastAlways == TimerSafeSpec => [](TimerIInv /\ TimesPast)
<1>1. TimerInit => TimesPast
  BY DEF TimerInit, NoTimes, TimesPast
<1>2. TimerIInv /\ TimesPast /\ [TimerNext]_timerVars => TimesPast'
  BY TimesPastStep
<1> QED
  BY <1>1, <1>2, TimerInvariance, PTL DEF TimerSafeSpec

\* What the report relies on.
FinalIInv == EveryIInv /\ ReportShape /\ TimerIInv /\ TimesPast

LEMMA FinalInvariance == SafeSpec => []FinalIInv
BY ReportShapeAlways, ClockUsedAsAssumed, TimesPastAlways, PTL DEF FinalIInv

\* When main reports or has reported, no thread takes a step, and neither does
\* the clock.
LEMMA NothingRuns ==
  ASSUME EveryIInv, [Next]_vars, main_pc \in {"report", "cleanup", "exited"}
  PROVE  /\ UNCHANGED <<poolVars, bankVars, timerVars, txVars, initial_total>>
         /\ Report \/ UNCHANGED reportVars
         /\ main_pc # "report" => ~Report /\ main_pc' \in {"cleanup", "exited"}
<1>1. /\ \A t \in Txs : Over(t) /\ OwnParts(t)
      /\ timer_pc # "sleeping"
      /\ ProgramShape /\ PoolShape /\ BankTypeOK
  BY DEF EveryIInv, ProgramIInv, MainStage, OwnParts, PoolIInv, BankIInv
<1>2. ASSUME NEW t \in Txs, TxStep(t) PROVE FALSE
  BY <1>1, <1>2, StepsOfLiving DEF Over, Exited
<1>3. ASSUME NEW t \in Txs, CreateThread(t) \/ JoinThread(t) PROVE FALSE
  BY <1>3 DEF CreateThread, JoinThread, LoopTo, MainGoTo
<1>4. CASE Clock
  BY <1>1, <1>4 DEF Clock, TimerThread, TimerTick, TimerExit
<1>5. CASE CreateTimer \/ CreateTimerFails \/ Stop \/ JoinTimer
  BY <1>5 DEF CreateTimer, CreateTimerFails, Stop, JoinTimer, MainGoTo
<1>6. CASE Report \/ Cleanup
  BY <1>6 DEF Report, Cleanup, MainGoTo
<1>7. CASE UNCHANGED vars
  BY <1>7 DEF vars, mainVars, Report, MainGoTo
<1> QED
  BY <1>2, <1>3, <1>4, <1>5, <1>6, <1>7 DEF Next, Main, Terminated, TxStep

\* Only Report reports.
LEMMA OnlyReport ==
  ASSUME [Next]_vars, ~Report
  PROVE  UNCHANGED reportVars
<1>1. ASSUME NEW t \in Txs, TxStep(t) PROVE UNCHANGED reportVars
  BY <1>1, ReportOfThreads DEF mainVars
<1>2. ASSUME NEW t \in Txs, CreateThread(t) PROVE UNCHANGED reportVars
  BY <1>2 DEF CreateThread
<1>3. CASE Bystander
  BY <1>3 DEF Bystander, Clock, CreateTimer, CreateTimerFails, Stop, JoinTimer, Cleanup, JoinThread, vars,
              mainVars
<1> QED
  BY <1>1, <1>2, <1>3 DEF Next, Main, Terminated, TxStep, Bystander

\* The report is made when the clock and the threads have stopped, and is made
\* whenever there was a clock.
ReportTime ==
  /\ (balance_check # "none") <=> (main_pc \in {"cleanup", "exited"} /\ timer_pc = "exited")
  /\ balance_check = "none" => summary = NoSummary

\* main comes to its cleanup by the report or because there is no clock.
LEMMA CleanupEntered ==
  ASSUME EveryIInv, [Next]_vars, ~Report, main_pc \notin {"report", "cleanup", "exited"},
         main_pc' \in {"cleanup", "exited"}
  PROVE  timer_pc' = "failed"
<1>1. ASSUME NEW t \in Txs, TxStep(t) PROVE FALSE
  BY <1>1, ReportOfThreads DEF mainVars
<1>2. ASSUME NEW t \in Txs, CreateThread(t) \/ JoinThread(t) PROVE FALSE
  BY <1>2 DEF CreateThread, JoinThread, LoopTo, MainGoTo
<1>3. CASE Clock \/ UNCHANGED vars
  BY <1>3 DEF Clock, vars, mainVars
<1>4. CASE CreateTimer \/ Stop \/ JoinTimer \/ Cleanup
  BY <1>4 DEF CreateTimer, Stop, JoinTimer, Cleanup, MainGoTo
<1>5. CASE CreateTimerFails
  BY <1>5 DEF CreateTimerFails, StartTimerFails
<1> QED
  BY <1>1, <1>2, <1>3, <1>4, <1>5 DEF Next, Main, Terminated, TxStep

LEMMA MainStays ==
  ASSUME [Next]_vars, ~Report, main_pc = "report"
  PROVE  main_pc' = "report"
<1>1. ASSUME NEW t \in Txs, TxStep(t) PROVE main_pc' = "report"
  BY <1>1, ReportOfThreads DEF mainVars
<1>2. ASSUME NEW t \in Txs, CreateThread(t) \/ JoinThread(t) PROVE FALSE
  BY <1>2 DEF CreateThread, JoinThread, LoopTo, MainGoTo
<1>3. CASE Clock \/ UNCHANGED vars
  BY <1>3 DEF Clock, vars, mainVars
<1>4. CASE CreateTimer \/ CreateTimerFails \/ Stop \/ JoinTimer \/ Cleanup
  BY <1>4 DEF CreateTimer, CreateTimerFails, Stop, JoinTimer, Cleanup, MainGoTo
<1> QED
  BY <1>1, <1>2, <1>3, <1>4 DEF Next, Main, Terminated, TxStep

LEMMA ReportTimeStep ==
  ASSUME EveryIInv, ReportTime, [Next]_vars
  PROVE  ReportTime'
<1>1. CASE Report
  <2>1. main_pc = "report" /\ main_pc' = "cleanup" /\ timer_pc' = timer_pc /\ balance_check' # "none"
    BY <1>1 DEF Report, MainGoTo, timerVars
  <2>2. timer_pc = "exited"
    BY <2>1 DEF EveryIInv, ProgramIInv, MainStage
  <2> QED
    BY <2>1, <2>2 DEF ReportTime
<1>2. CASE ~Report
  <2>1. balance_check' = balance_check /\ summary' = summary
    BY <1>2, OnlyReport DEF reportVars
  <2>2. CASE main_pc \in {"cleanup", "exited"}
    BY <2>1, <2>2, NothingRuns DEF ReportTime, timerVars
  <2>3. CASE main_pc \notin {"cleanup", "exited"}
    <3>1. main_pc' \in {"cleanup", "exited"} => timer_pc' = "failed"
      <4>1. main_pc = "report" => main_pc' \notin {"cleanup", "exited"}
        BY <1>2, MainStays
      <4> QED
        BY <1>2, <2>3, <4>1, CleanupEntered
    <3> QED
      BY <2>1, <2>3, <3>1 DEF ReportTime
  <2> QED
    BY <2>2, <2>3
<1> QED
  BY <1>1, <1>2

\* A report is made once, of what then stays as it is.
LEMMA ReportMade ==
  ASSUME EveryIInv, ReportTime, [Next]_vars, balance_check' # "none"
  PROVE  \/ Report /\ main_pc = "report"
         \/ balance_check # "none" /\ UNCHANGED <<bankVars, timerVars, txVars, initial_total, reportVars>>
<1>1. CASE Report
  BY <1>1 DEF Report, MainGoTo
<1>2. CASE ~Report
  <2>1. UNCHANGED reportVars /\ balance_check # "none"
    BY <1>2, OnlyReport DEF reportVars
  <2>2. main_pc \in {"cleanup", "exited"}
    BY <2>1 DEF ReportTime
  <2> QED
    BY <2>1, <2>2, NothingRuns
<1> QED
  BY <1>1, <1>2

\* Of every transaction a verdict is printed, and both verdicts are counted.
LEMMA VerdictsCounted ==
  ASSUME EveryIInv, main_pc = "report"
  PROVE  Cardinality(Committed) + Cardinality({t \in Txs : status[t] = "ABORTED"}) = Cardinality(Txs)
<1> DEFINE Aborted == {t \in Txs : status[t] = "ABORTED"}
<1>1. \A t \in Txs : status[t] \in {"COMMITTED", "ABORTED"}
  <2> SUFFICES ASSUME NEW t \in Txs PROVE status[t] \in {"COMMITTED", "ABORTED"}
    OBVIOUS
  <2>1. Over(t) /\ (clock_pc[t] # "new" \/ status[t] = "ABORTED")
    BY DEF EveryIInv, ProgramIInv, MainStage
  <2>2. status[t] \in {"RUNNING", "COMMITTED", "ABORTED"} /\ ThreadStage(t) /\ StatusStage(t)
    BY StageFacts
  <2> QED
    BY <2>1, <2>2 DEF Over, Exited, ThreadStage, StatusStage, UnloadLabels
<1>2. Committed \cup Aborted = Txs /\ Committed \cap Aborted = {}
  BY <1>1 DEF Committed
<1>3. IsFiniteSet(Committed) /\ IsFiniteSet(Aborted)
  BY BankTypesAssumption, FS_Subset DEF Committed
<1>4. /\ Cardinality(Committed) \in Nat /\ Cardinality(Aborted) \in Nat
      /\ Cardinality(Committed \cup Aborted)
           = Cardinality(Committed) + Cardinality(Aborted) - Cardinality(Committed \cap Aborted)
  BY <1>3, FS_CardinalityType, FS_Union
<1>5. Cardinality({}) = 0
  BY FS_EmptySet
<1> HIDE DEF Aborted
<1>6. Cardinality(Txs) = Cardinality(Committed) + Cardinality(Aborted) - 0
  BY <1>2, <1>4, <1>5
<1>7. Cardinality(Committed) + Cardinality(Aborted) = Cardinality(Txs)
  BY <1>4, <1>6
<1> QED
  BY <1>7 DEF Aborted

\* The sum of the waits is that of the transactions that were started, and each
\* of these waited from its start tick to its start.
StartedTxs == {u \in Txs : clock_pc[u] # "new"}

Delays == [t \in StartedTxs |-> times[t].actual_start - start_tick[t]]

LEMMA WaitsAreDelays ==
  ASSUME FinalIInv, main_pc = "report"
  PROVE  TotalWait = SumFunction(Delays)
<1> DEFINE waits == [t \in Txs |-> times[t].wait_ticks]
<1>1. EveryIInv /\ TimerIInv /\ TimesPast
  BY DEF FinalIInv
<1>2. \A t \in StartedTxs : waits[t] = Delays[t]
  <2> SUFFICES ASSUME NEW t \in StartedTxs PROVE times[t].wait_ticks = times[t].actual_start - start_tick[t]
    BY DEF Delays, StartedTxs
  <2>1. t \in Txs /\ clock_pc[t] # "new"
    BY DEF StartedTxs
  <2>2. Over(t) /\ ThreadStage(t)
    BY <1>1, <2>1 DEF EveryIInv, ProgramIInv, MainStage
  <2>3. clock_pc[t] = "ended"
    BY <2>1, <2>2 DEF Over, Exited, ThreadStage, UnloadLabels
  <2> QED
    BY <1>1, <2>1, <2>3 DEF TimerIInv, TimesConsistent
<1>3. PICK R \in SUBSET Txs : R = Txs \ StartedTxs
  OBVIOUS
<1>4. \A t \in R : waits[t] = 0
  <2> SUFFICES ASSUME NEW t \in R PROVE waits[t] = 0
    OBVIOUS
  <2>1. t \in Txs /\ clock_pc[t] = "new"
    BY <1>3 DEF StartedTxs
  <2>2. times[t].wait_ticks = 0
    BY <1>1, <2>1 DEF TimesPast
  <2> QED
    BY <2>1, <2>2
<1>5. \A t \in Txs : waits[t] \in Int
  BY <1>1, ClockTypes
<1>6. DOMAIN waits = Txs /\ DOMAIN Delays = StartedTxs /\ TotalWait = SumFunction(waits)
  BY DEF TotalWait, Delays
<1>7. /\ StartedTxs \cup R = Txs /\ StartedTxs \cap R = {}
      /\ IsFiniteSet(StartedTxs) /\ IsFiniteSet(R)
  BY <1>3, BankTypesAssumption, FS_Subset DEF StartedTxs
<1> HIDE DEF waits
<1>8. TotalWait = Total(waits, Txs) /\ SumFunction(Delays) = Total(Delays, StartedTxs)
  BY <1>6 DEF SumFunction, Total
<1>9. Total(waits, StartedTxs \cup R) = Total(waits, StartedTxs) + Total(waits, R)
  BY <1>5, <1>7, SumUnion
<1>10. Total(waits, StartedTxs) = Total(Delays, StartedTxs) /\ Total(waits, StartedTxs) \in Int
  BY <1>2, <1>5, <1>7, SumEqual, SumInt
<1>11. Total(waits, R) = 0
  <2>1. Total(waits, R) \in Nat /\ Total(waits, R) <= Cardinality(R) * 0
    BY <1>4, <1>7, SumBounds
  <2>2. Cardinality(R) * 0 = 0
    BY <1>7, FS_CardinalityType
  <2> QED
    BY <2>1, <2>2
<1> QED
  BY <1>7, <1>8, <1>9, <1>10, <1>11

\* What the summary says of the run, as long as it stands.
SummaryRight ==
  /\ summary.committed + summary.aborted = Cardinality(Txs)
  /\ summary.total_ticks = global_tick
  /\ \A t \in Txs : /\ times[t].actual_end <= summary.total_ticks
                    /\ status[t] = "COMMITTED" => times[t].actual_end >= start_tick[t]
  /\ summary.total_wait = SumFunction(Delays)

SummaryStands == balance_check # "none" => SummaryRight

LEMMA SummaryStep ==
  ASSUME FinalIInv, ReportTime, SummaryStands, [Next]_vars
  PROVE  SummaryStands'
<1> SUFFICES ASSUME balance_check' # "none" PROVE SummaryRight'
  BY DEF SummaryStands
<1>1. EveryIInv /\ TimerIInv /\ TimesPast
  BY DEF FinalIInv
<1>2. CASE balance_check # "none" /\ UNCHANGED <<bankVars, timerVars, txVars, initial_total, reportVars>>
  <2>1. Delays' = Delays
    BY <1>2 DEF Delays, StartedTxs, timerVars
  <2> QED
    BY <1>2, <2>1 DEF SummaryStands, SummaryRight, timerVars, txVars, reportVars
<1>3. CASE Report /\ main_pc = "report"
  <2>1. summary' = Summary /\ UNCHANGED <<global_tick, clock_pc, times, start_tick, status>>
    BY <1>3 DEF Report, timerVars, txVars
  <2>2. /\ summary'.committed = Cardinality(Committed)
        /\ summary'.aborted = Cardinality({t \in Txs : status[t] = "ABORTED"})
        /\ summary'.total_ticks = global_tick /\ summary'.total_wait = TotalWait
    BY <2>1 DEF Summary
  <2>3. summary'.committed + summary'.aborted = Cardinality(Txs)
    BY <1>1, <1>3, <2>2, VerdictsCounted
  <2>4. /\ \A t \in Txs : times[t] \in TimesType /\ start_tick[t] \in Int
        /\ global_tick \in Nat
    BY <1>1, ClockTypes
  <2>5. ASSUME NEW t \in Txs, status[t] = "COMMITTED" PROVE times[t].actual_end >= start_tick[t]
    <3>1. clock_pc[t] = "ended"
      BY <1>1, <2>5, StageFacts DEF StatusStage
    <3>2. start_tick[t] <= times[t].actual_start /\ times[t].actual_start <= times[t].actual_end
      BY <1>1, <3>1 DEF TimerIInv, TimesConsistent
    <3> QED
      BY <2>4, <3>2 DEF TimesType
  <2>6. Delays' = Delays
    BY <2>1 DEF Delays, StartedTxs
  <2>7. summary'.total_wait = SumFunction(Delays)'
    <3>1. PICK D : D = Delays
      OBVIOUS
    <3>2. TotalWait = SumFunction(D)
      BY <1>3, <3>1, WaitsAreDelays
    <3> QED
      BY <2>2, <2>6, <3>1, <3>2
  <2>8. \A t \in Txs : times'[t].actual_end <= summary'.total_ticks
    <3>1. \A t \in Txs : times[t].actual_end <= global_tick
      BY <1>1 DEF TimesPast
    <3>2. times' = times /\ summary'.total_ticks = global_tick
      BY <2>1, <2>2
    <3> QED
      BY ONLY <3>1, <3>2
  <2> QED
    BY <2>1, <2>2, <2>3, <2>5, <2>7, <2>8 DEF SummaryRight
<1> QED
  BY <1>1, <1>2, <1>3, ReportMade

LEMMA ReportTimeAlways == SafeSpec => [](EveryIInv /\ ReportTime)
<1>1. Init => ReportTime
  BY DEF Init, ReportTime
<1>2. EveryIInv /\ ReportTime /\ [Next]_vars => ReportTime'
  BY ReportTimeStep
<1> QED
  BY <1>1, <1>2, EveryInvariance, PTL DEF SafeSpec

\* The summary is that of the whole run, whatever became of the transactions and
\* although it reads their results without a lock: it is printed exactly when main
\* comes to its cleanup with a clock that has stopped, counts every transaction
\* once, and its ticks and its waiting time are those that were recorded.
THEOREM SummaryOfTheRun == SafeSpec => []SummaryConsistent
<1>1. Init => SummaryStands
  BY DEF Init, SummaryStands
<1>2. FinalIInv /\ ReportTime /\ SummaryStands /\ [Next]_vars => SummaryStands'
  BY SummaryStep
<1>3. ReportTime /\ SummaryStands => SummaryConsistent
  BY DEF ReportTime, SummaryStands, SummaryRight, SummaryConsistent, Delays, StartedTxs
<1> QED
  BY <1>1, <1>2, <1>3, FinalInvariance, ReportTimeAlways, PTL DEF SafeSpec
--------------------------------------------------------------------------------
(***************************************************************************)
(* The money.  An int that overflows is undefined behaviour of the         *)
(* program, so the balances are only accounted for when there is not more  *)
(* money in the bank and in the deposits of the trace than an int can hold.*)
(***************************************************************************)
Deposited(op) == IF op.type = "DEPOSIT" /\ op.amount_centavos > 0 THEN op.amount_centavos ELSE 0

DepositsOf(operations) == SumFunction([j \in 1..Len(operations) |-> Deposited(operations[j])])

AllDeposits == [t \in Txs |-> DepositsOf(ops[t])]

MoneyFits == initial_total + SumFunction(AllDeposits) <= INT_MAX

\* The operations that took effect, and what they may have brought in.
DoneRight ==
  \A t \in Txs : /\ Dones[t] \in 0..Len(ops[t])
                 /\ \A j \in 1..Dones[t] : Effect(ops[t][j]) <= Deposited(ops[t][j])

\* The inductive invariant: no account is overdrawn, so that none holds more than
\* all of them.
MoneyIInv == MoneyFits /\ DoneRight /\ LedgerExact /\ \A a \in Accounts : Ledger[a] \in Nat

\* More facts about sums.
LEMMA SumTerm ==
  ASSUME NEW S, IsFiniteSet(S), NEW f, \A z \in S : f[z] \in Nat, NEW x \in S
  PROVE  f[x] <= Total(f, S)
<1>1. Total(f, S) = f[x] + Total(f, S \ {x})
  BY SumSplit
<1>2. Total(f, S \ {x}) \in Nat
  BY TotalNat, FS_Subset
<1> QED
  BY <1>1, <1>2

LEMMA SumTwoTerms ==
  ASSUME NEW S, IsFiniteSet(S), NEW f, \A z \in S : f[z] \in Nat, NEW x \in S, NEW y \in S, x # y
  PROVE  f[x] + f[y] <= Total(f, S)
<1>1. IsFiniteSet(S \ {x}) /\ y \in S \ {x}
  BY FS_Subset
<1>2. f[y] <= Total(f, S \ {x}) /\ Total(f, S \ {x}) \in Nat
  BY <1>1, SumTerm, TotalNat
<1>3. Total(f, S) = f[x] + Total(f, S \ {x})
  BY SumSplit
<1> QED
  BY <1>2, <1>3

LEMMA SumPart ==
  ASSUME NEW S, IsFiniteSet(S), NEW f, \A z \in S : f[z] \in Nat, NEW T, T \subseteq S
  PROVE  Total(f, T) <= Total(f, S)
<1>1. PICK R \in SUBSET S : R = S \ T
  OBVIOUS
<1>2. IsFiniteSet(T) /\ IsFiniteSet(R)
  BY FS_Subset
<1>3. Total(f, T) \in Nat /\ Total(f, R) \in Nat
  BY <1>2, TotalNat
<1>4. T \cup R = S /\ T \cap R = {}
  BY <1>1
<1>5. \A z \in T \cup R : f[z] \in Int
  OBVIOUS
<1>6. Total(f, T \cup R) = Total(f, T) + Total(f, R)
  BY <1>2, <1>4, <1>5, SumUnion
<1>7. Total(f, S) = Total(f, T) + Total(f, R)
  BY <1>4, <1>6
<1> QED
  BY <1>3, <1>7

LEMMA SumMonotone ==
  ASSUME NEW S, IsFiniteSet(S), NEW f, NEW g, \A x \in S : f[x] \in Int /\ g[x] \in Int /\ f[x] <= g[x]
  PROVE  Total(f, S) <= Total(g, S)
<1> DEFINE Good == {T \in SUBSET S : Total(f, T) <= Total(g, T)}
<1>1. {} \in Good
  BY SumEmpty
<1>2. ASSUME NEW T \in SUBSET S, T # {}, \A x \in T : T \ {x} \in Good PROVE T \in Good
  <2>1. PICK c \in T : c = OneOf(T)
    BY <1>2, AnyMember
  <2>2. PICK R \in SUBSET S : R = T \ {c}
    OBVIOUS
  <2>3. IsFiniteSet(T) /\ IsFiniteSet(R)
    BY FS_Subset
  <2>4. Total(f, T) = f[c] + Total(f, R) /\ Total(g, T) = g[c] + Total(g, R)
    BY <1>2, <2>1, <2>2, <2>3, SumUnfold
  <2>5. Total(f, R) <= Total(g, R) /\ Total(f, R) \in Int /\ Total(g, R) \in Int
    BY <1>2, <2>2, <2>3, SumInt
  <2> QED
    BY <2>4, <2>5
<1> HIDE DEF Good
<1>3. S \in Good
  BY <1>1, <1>2, SubsetInduction
<1> QED
  BY <1>3 DEF Good

\* The sum of a list that is one longer.
LEMMA SumNext ==
  ASSUME NEW d \in Nat, NEW f, \A j \in 1..(d + 1) : f[j] \in Int
  PROVE  Total(f, 1..(d + 1)) = Total(f, 1..d) + f[d + 1]
<1>1. IsFiniteSet(1..(d + 1)) /\ IsFiniteSet(1..d)
  BY FS_Interval
<1>2. (1..(d + 1)) \ {d + 1} = 1..d /\ d + 1 \in 1..(d + 1)
  OBVIOUS
<1>3. Total(f, 1..(d + 1)) = f[d + 1] + Total(f, (1..(d + 1)) \ {d + 1})
  BY <1>1, <1>2, SumSplit
<1>4. Total(f, 1..(d + 1)) = f[d + 1] + Total(f, 1..d)
  BY <1>2, <1>3
<1>5. Total(f, 1..d) \in Int /\ f[d + 1] \in Int
  <2>1. \A j \in 1..d : f[j] \in Int
    BY <1>2
  <2> QED
    BY <1>1, <1>2, <2>1, SumInt
<1> QED
  BY <1>4, <1>5

\* What operations bring in are numbers.
LEMMA OpNumbers ==
  ASSUME NEW op \in OperationType
  PROVE  Effect(op) \in Int /\ Flow(op) \in Int /\ Deposited(op) \in Nat
BY DEF OperationType, Effect, Flow, Deposited

LEMMA ProgramOps ==
  ASSUME ProgramShape, NEW t \in Txs
  PROVE  /\ Len(ops[t]) \in Nat
         /\ \A j \in 1..Len(ops[t]) : ops[t][j] \in OperationType
<1>1. Len(ops[t]) \in 1..MAX_OPS_PER_TX /\ ops[t] \in Seq(Operations)
  BY OpsOfProgram
<1>2. Len(ops[t]) \in Nat
  BY <1>1, BankDBAssumption
<1>3. \A j \in 1..Len(ops[t]) : ops[t][j] \in Operations
  BY <1>1, ElementOfSeq
<1> QED
  BY <1>2, <1>3, BankAssumption

\* The effects and the deposits of a transaction as lists that can be compared.
Effects(t) == [j \in 1..Len(ops[t]) |-> Effect(ops[t][j])]
Deposits(t) == [j \in 1..Len(ops[t]) |-> Deposited(ops[t][j])]

LEMMA EffectsOf ==
  ASSUME ProgramShape, DoneRight, NEW t \in Txs
  PROVE  /\ Len(ops[t]) \in Nat /\ Dones[t] \in 0..Len(ops[t])
         /\ \A j \in 1..Len(ops[t]) : /\ Effects(t)[j] = Effect(ops[t][j]) /\ Effects(t)[j] \in Int
                                      /\ Deposits(t)[j] = Deposited(ops[t][j]) /\ Deposits(t)[j] \in Nat
         /\ \A j \in 1..Dones[t] : Effects(t)[j] <= Deposits(t)[j]
         /\ EffectSoFar(t) = Total(Effects(t), 1..Dones[t])
         /\ DepositsOf(ops[t]) = Total(Deposits(t), 1..Len(ops[t]))
<1> DEFINE e == [j \in 1..Dones[t] |-> Effect(ops[t][j])]
<1>1. Len(ops[t]) \in Nat /\ Dones[t] \in 0..Len(ops[t])
  BY ProgramOps DEF DoneRight
<1>2. \A j \in 1..Len(ops[t]) : /\ Effects(t)[j] = Effect(ops[t][j]) /\ Effects(t)[j] \in Int
                                /\ Deposits(t)[j] = Deposited(ops[t][j]) /\ Deposits(t)[j] \in Nat
  BY ProgramOps, OpNumbers DEF Effects, Deposits
<1>3. \A j \in 1..Dones[t] : j \in 1..Len(ops[t])
  BY <1>1
<1>4. \A j \in 1..Dones[t] : e[j] = Effects(t)[j]
  BY <1>2, <1>3
<1>5. \A j \in 1..Dones[t] : Effects(t)[j] <= Deposits(t)[j]
  BY <1>2, <1>3 DEF DoneRight
<1>6. EffectSoFar(t) = Total(e, 1..Dones[t])
  BY DEF EffectSoFar, SumFunction, Total
<1>7. DepositsOf(ops[t]) = Total(Deposits(t), 1..Len(ops[t]))
  BY DEF DepositsOf, Deposits, SumFunction, Total
<1>8. Total(e, 1..Dones[t]) = Total(Effects(t), 1..Dones[t])
  <2> HIDE DEF e
  <2>1. IsFiniteSet(1..Dones[t])
    BY <1>1, FS_Interval
  <2> QED
    BY <1>4, <2>1, SumEqual
<1> QED
  BY <1>1, <1>2, <1>5, <1>6, <1>7, <1>8

\* What a transaction has brought in so far is no more than its deposits, nor is it
\* with its next operation.
LEMMA EffectBounds ==
  ASSUME ProgramShape, DoneRight, NEW t \in Txs
  PROVE  /\ EffectSoFar(t) \in Int /\ DepositsOf(ops[t]) \in Nat
         /\ EffectSoFar(t) <= DepositsOf(ops[t])
         /\ Dones[t] < Len(ops[t]) =>
              EffectSoFar(t) + Deposited(ops[t][Dones[t] + 1]) <= DepositsOf(ops[t])
<1>1. PICK n \in Nat, d \in Nat : n = Len(ops[t]) /\ d = Dones[t] /\ d <= n
  BY EffectsOf
<1>2. /\ \A j \in 1..n : Effects(t)[j] \in Int /\ Deposits(t)[j] \in Nat
      /\ \A j \in 1..d : Effects(t)[j] <= Deposits(t)[j]
      /\ EffectSoFar(t) = Total(Effects(t), 1..d)
      /\ DepositsOf(ops[t]) = Total(Deposits(t), 1..n)
  BY <1>1, EffectsOf
<1>3. IsFiniteSet(1..n) /\ IsFiniteSet(1..d) /\ d \in Nat
  BY FS_Interval
<1>4. \A j \in 1..d : j \in 1..n
  BY <1>1
<1>5. \A j \in 1..d : Effects(t)[j] \in Int /\ Deposits(t)[j] \in Nat
  BY <1>2, <1>4
<1>6. Total(Effects(t), 1..d) <= Total(Deposits(t), 1..d)
  BY <1>2, <1>3, <1>5, SumMonotone
<1>7. /\ Total(Effects(t), 1..d) \in Int /\ Total(Deposits(t), 1..d) \in Nat
      /\ Total(Deposits(t), 1..n) \in Nat
  BY <1>2, <1>3, <1>5, SumInt, TotalNat
<1>8. Total(Deposits(t), 1..d) <= Total(Deposits(t), 1..n)
  <2>1. 1..d \subseteq 1..n
    BY <1>1
  <2> QED
    BY <1>2, <1>3, <2>1, SumPart
<1>9. ASSUME d < n
      PROVE  Total(Effects(t), 1..d) + Deposited(ops[t][d + 1]) <= Total(Deposits(t), 1..n)
  <2>1. d + 1 \in Nat /\ d + 1 \in 1..n /\ 1..(d + 1) \subseteq 1..n
    BY <1>3, <1>9
  <2>2. \A j \in 1..(d + 1) : Deposits(t)[j] \in Int
    BY <1>2, <2>1
  <2>3. Total(Deposits(t), 1..(d + 1)) = Total(Deposits(t), 1..d) + Deposits(t)[d + 1]
    BY <1>3, <2>2, SumNext
  <2>4. Total(Deposits(t), 1..(d + 1)) <= Total(Deposits(t), 1..n)
    BY <1>2, <1>3, <2>1, SumPart
  <2>5. Deposits(t)[d + 1] = Deposited(ops[t][d + 1]) /\ Deposits(t)[d + 1] \in Nat
    BY <1>1, <2>1, EffectsOf
  <2> QED
    BY <1>6, <1>7, <2>3, <2>4, <2>5
<1> QED
  BY <1>1, <1>2, <1>6, <1>7, <1>8, <1>9

\* All that was brought in so far, and may be next, is in the deposits of the trace.
LEMMA RoomForMoney ==
  ASSUME ProgramShape, ReportShape, MoneyIInv
  PROVE  /\ Total(Ledger, Accounts) \in Nat /\ Total(Ledger, Accounts) <= INT_MAX
         /\ \A t \in Txs : Dones[t] < Len(ops[t]) =>
              Total(Ledger, Accounts) + Deposited(ops[t][Dones[t] + 1]) <= INT_MAX
<1> DEFINE sofar == [t \in Txs |-> EffectSoFar(t)]
<1>1. DoneRight /\ LedgerExact /\ MoneyFits
  BY DEF MoneyIInv
<1>2. initial_total \in Nat
  BY DEF ReportShape
<1>3. /\ \A t \in Txs : sofar[t] \in Int /\ AllDeposits[t] \in Int /\ AllDeposits[t] \in Nat
      /\ \A t \in Txs : sofar[t] <= AllDeposits[t]
  BY <1>1, EffectBounds DEF AllDeposits
<1>4. /\ DOMAIN Ledger = Accounts /\ Total(Ledger, Accounts) = initial_total + Total(sofar, Txs)
      /\ initial_total + Total(AllDeposits, Txs) <= INT_MAX
  <2>1. DOMAIN Ledger = Accounts /\ DOMAIN sofar = Txs /\ DOMAIN AllDeposits = Txs
    BY DEF Ledger, AllDeposits
  <2>2. SumFunction(Ledger) = initial_total + SumFunction(sofar)
    BY <1>1 DEF LedgerExact
  <2>3. initial_total + SumFunction(AllDeposits) <= INT_MAX
    BY <1>1 DEF MoneyFits
  <2> HIDE DEF sofar
  <2> QED
    BY <2>1, <2>2, <2>3 DEF SumFunction, Total
<1> HIDE DEF sofar
<1>5. Total(sofar, Txs) \in Int /\ Total(AllDeposits, Txs) \in Int
  BY <1>3, BankTypesAssumption, SumInt
<1>6. Total(sofar, Txs) <= Total(AllDeposits, Txs)
  BY <1>3, BankTypesAssumption, SumMonotone
<1>7. Total(Ledger, Accounts) \in Nat
  BY BankTypesAssumption, TotalNat DEF MoneyIInv
<1>8. INT_MAX \in Nat
  BY BankAssumption
<1>9. ASSUME NEW t \in Txs, Dones[t] < Len(ops[t])
      PROVE  Total(sofar, Txs) + Deposited(ops[t][Dones[t] + 1]) <= Total(AllDeposits, Txs)
  <2>1. PICK m : m = Deposited(ops[t][Dones[t] + 1])
    OBVIOUS
  <2>2. m \in Nat /\ sofar[t] + m <= AllDeposits[t]
    <3>1. Dones[t] + 1 \in 1..Len(ops[t])
      BY <1>1, <1>9, ProgramOps DEF DoneRight
    <3>2. m \in Nat
      BY <2>1, <3>1, ProgramOps, OpNumbers
    <3>3. EffectSoFar(t) + m <= DepositsOf(ops[t])
      BY <1>1, <1>9, <2>1, EffectBounds
    <3> QED
      BY <3>2, <3>3 DEF sofar, AllDeposits
  <2>3. PICK next : next = [u \in Txs |-> IF u = t THEN sofar[t] + m ELSE sofar[u]]
    OBVIOUS
  <2>4. /\ \A u \in Txs : next[u] \in Int /\ sofar[u] \in Int
        /\ \A u \in Txs : next[u] \in Int /\ AllDeposits[u] \in Int /\ next[u] <= AllDeposits[u]
        /\ \A u \in Txs : u # t => next[u] = sofar[u]
    BY <1>3, <2>2, <2>3
  <2>5. Total(next, Txs) <= Total(AllDeposits, Txs)
    BY <2>4, BankTypesAssumption, SumMonotone
  <2>6. Total(next, Txs) = Total(sofar, Txs) + (next[t] - sofar[t])
    BY <2>4, BankTypesAssumption, SumChange
  <2>7. next[t] - sofar[t] = m
    BY <1>3, <2>2, <2>3
  <2> QED
    BY <2>1, <2>5, <2>6, <2>7
<1>10. ASSUME NEW t \in Txs, Dones[t] < Len(ops[t])
      PROVE  Total(Ledger, Accounts) + Deposited(ops[t][Dones[t] + 1]) <= INT_MAX
  <2>1. PICK m : m = Deposited(ops[t][Dones[t] + 1])
    OBVIOUS
  <2>2. m \in Nat
    <3>1. Dones[t] + 1 \in 1..Len(ops[t])
      BY <1>1, <1>10, ProgramOps DEF DoneRight
    <3> QED
      BY <2>1, <3>1, ProgramOps, OpNumbers
  <2>3. Total(sofar, Txs) + m <= Total(AllDeposits, Txs)
    BY <1>9, <1>10, <2>1
  <2>4. Total(Ledger, Accounts) + m <= INT_MAX
    BY <1>2, <1>4, <1>5, <1>8, <2>2, <2>3
  <2> QED
    BY <2>1, <2>4
<1> QED
  BY <1>2, <1>4, <1>5, <1>6, <1>7, <1>8, <1>10

\* An operation that succeeds overflows nothing, overdraws nothing, and changes the
\* total as it should.
LEMMA MoneyMoved ==
  ASSUME NEW op \in OperationType, Transactions!Succeeds(op), \A a \in Accounts : Ledger[a] \in Nat,
         Total(Ledger, Accounts) + Deposited(op) <= INT_MAX,
         NEW after, after = [a \in Accounts |-> Ledger[a] + Transactions!Change(op, a)]
  PROVE  /\ \A a \in Accounts : after[a] \in 0..INT_MAX
         /\ Total(after, Accounts) = Total(Ledger, Accounts) + Effect(op)
         /\ Effect(op) <= Deposited(op)
<1> DEFINE source == op.account_id
           target == op.target_account
           amount == op.amount_centavos
<1>1. /\ op.type \in OpTypes /\ source \in Accounts /\ amount \in Int
      /\ op.type = "WITHDRAW" => amount >= 0 /\ Ledger[source] >= amount
      /\ op.type = "TRANSFER" => /\ target \in Accounts /\ target # source
                                 /\ amount >= 0 /\ Ledger[source] >= amount
  BY DEF OperationType, Transactions!Succeeds, Transactions!Sufficient
<1>2. /\ IsFiniteSet(Accounts) /\ INT_MAX \in Nat
      /\ Total(Ledger, Accounts) \in Nat
      /\ \A a \in Accounts : Ledger[a] <= Total(Ledger, Accounts)
      /\ \A a, b \in Accounts : a # b => Ledger[a] + Ledger[b] <= Total(Ledger, Accounts)
  <2>1. IsFiniteSet(Accounts) /\ INT_MAX \in Nat
    BY BankTypesAssumption, BankAssumption
  <2> QED
    BY <2>1, TotalNat, SumTerm, SumTwoTerms
<1>3. \A a \in Accounts : after[a] = Ledger[a] + Transactions!Change(op, a)
  OBVIOUS
<1>4. PICK total \in Nat : /\ total = Total(Ledger, Accounts)
                           /\ \A a \in Accounts : Ledger[a] <= total
                           /\ \A a, b \in Accounts : a # b => Ledger[a] + Ledger[b] <= total
                           /\ total + Deposited(op) <= INT_MAX
  BY <1>2
<1>5. Deposited(op) \in Nat
  BY OpNumbers
\* Nothing is deposited: the accounts keep within the total.
<1>6. CASE /\ Effect(op) = 0 /\ Effect(op) <= Deposited(op)
           /\ \A a \in Accounts : Transactions!Change(op, a) = 0
  <2>1. \A a \in Accounts : after[a] = Ledger[a]
    BY <1>3, <1>6
  <2>2. Total(after, Accounts) = Total(Ledger, Accounts)
    BY <1>2, <2>1, SumEqual
  <2>3. \A a \in Accounts : after[a] \in 0..INT_MAX
    BY <1>2, <1>4, <1>5, <2>1
  <2> QED
    BY <1>2, <1>6, <2>2, <2>3
<1>7. ASSUME NEW n \in Int, \A a \in Accounts : Transactions!Change(op, a) = IF a = source THEN n ELSE 0,
             Effect(op) = n, n <= Deposited(op), Ledger[source] + n >= 0
      PROVE  /\ \A a \in Accounts : after[a] \in 0..INT_MAX
             /\ Total(after, Accounts) = Total(Ledger, Accounts) + Effect(op)
             /\ Effect(op) <= Deposited(op)
  <2>1. /\ after[source] = Ledger[source] + n
        /\ \A a \in Accounts : a # source => after[a] = Ledger[a]
    BY <1>1, <1>3, <1>7
  <2>2. \A a \in Accounts : after[a] \in 0..INT_MAX
    BY <1>1, <1>2, <1>4, <1>5, <1>7, <2>1
  <2>3. \A a \in Accounts : Ledger[a] \in Int /\ after[a] \in Int
    BY <1>2, <2>2
  <2>4. Total(after, Accounts) = Total(Ledger, Accounts) + (after[source] - Ledger[source])
    BY <1>1, <1>2, <2>1, <2>3, SumChange
  <2>5. after[source] - Ledger[source] = n
    BY <1>1, <1>7, <2>1
  <2> QED
    BY <1>7, <2>2, <2>4, <2>5
<1>8. CASE op.type = "DEPOSIT"
  <2>1. CASE amount <= 0
    BY <1>1, <1>6, <1>8, <2>1 DEF Effect, Flow, Deposited, Transactions!Change
  <2>2. CASE amount > 0
    <3>1. /\ Effect(op) = amount /\ Deposited(op) = amount
          /\ \A a \in Accounts : Transactions!Change(op, a) = IF a = source THEN amount ELSE 0
      BY <1>1, <1>8, <2>2 DEF Effect, Flow, Deposited, Transactions!Change
    <3>2. Ledger[source] + amount >= 0
      BY <1>1, <2>2
    <3> QED
      BY <1>1, <1>7, <3>1, <3>2
  <2> QED
    BY <1>1, <2>1, <2>2
<1>9. CASE op.type = "WITHDRAW"
  <2>1. /\ Effect(op) = - amount /\ Deposited(op) = 0
        /\ \A a \in Accounts : Transactions!Change(op, a) = IF a = source THEN - amount ELSE 0
    BY <1>9 DEF Effect, Flow, Deposited, Transactions!Change
  <2>2. - amount \in Int /\ - amount <= 0 /\ Ledger[source] + (- amount) >= 0
    BY <1>1, <1>9
  <2> QED
    BY <1>7, <2>1, <2>2
<1>10. CASE op.type = "TRANSFER"
  <2>1. PICK middle : middle = [a \in Accounts |-> IF a = source THEN Ledger[a] - amount ELSE Ledger[a]]
    OBVIOUS
  <2>2. /\ Effect(op) = 0 /\ Deposited(op) = 0
        /\ after[source] = Ledger[source] + (- amount) /\ after[target] = Ledger[target] + amount
        /\ \A a \in Accounts : a # source /\ a # target => after[a] = Ledger[a] + 0
    BY <1>1, <1>3, <1>10 DEF Effect, Flow, Deposited, Transactions!Change
  <2>3. /\ amount \in Nat /\ Ledger[source] \in Nat /\ Ledger[target] \in Nat
        /\ Ledger[source] >= amount /\ Ledger[source] + Ledger[target] <= total
        /\ source \in Accounts /\ target \in Accounts /\ source # target
        /\ total <= INT_MAX
    BY <1>1, <1>2, <1>4, <1>5, <1>10
  <2>4. /\ after[source] \in 0..INT_MAX /\ after[target] \in 0..INT_MAX
        /\ \A a \in Accounts : a # source /\ a # target => after[a] \in 0..INT_MAX
    BY <1>2, <1>4, <2>2, <2>3
  <2>5. \A a \in Accounts : after[a] \in 0..INT_MAX
    BY <2>4
  <2>6. /\ \A a \in Accounts : Ledger[a] \in Int /\ middle[a] \in Int
        /\ \A a \in Accounts : middle[a] \in Int /\ after[a] \in Int
        /\ \A a \in Accounts : a # source => middle[a] = Ledger[a]
        /\ \A a \in Accounts : a # target => after[a] = middle[a]
    BY <1>2, <2>1, <2>2, <2>3, <2>5
  <2>7. Total(middle, Accounts) = Total(Ledger, Accounts) + (middle[source] - Ledger[source])
    BY <1>2, <2>3, <2>6, SumChange
  <2>8. Total(after, Accounts) = Total(middle, Accounts) + (after[target] - middle[target])
    BY <1>2, <2>3, <2>6, SumChange
  <2>9. middle[source] - Ledger[source] = - amount /\ after[target] - middle[target] = amount
    BY <2>1, <2>2, <2>3
  <2>10. Total(after, Accounts) = Total(Ledger, Accounts) + 0
    BY <1>2, <2>3, <2>7, <2>8, <2>9
  <2> QED
    BY <2>2, <2>5, <2>10
<1>11. CASE op.type = "BALANCE"
  BY <1>1, <1>6, <1>11 DEF Effect, Flow, Deposited, Transactions!Change
<1> QED
  BY <1>1, <1>8, <1>9, <1>10, <1>11 DEF OpTypes

\* The effects of a transaction change with its next operation only.
LEMMA EffectAdded ==
  ASSUME ProgramShape, DoneRight, ops' = ops,
         NEW t \in Txs, Dones[t] < Len(ops[t]), Dones'[t] = Dones[t] + 1
  PROVE  EffectSoFar(t)' = EffectSoFar(t) + Effect(ops[t][Dones[t] + 1])
<1>1. PICK n \in Nat, d \in Nat : n = Len(ops[t]) /\ d = Dones[t] /\ d <= n
  BY EffectsOf
<1>2. /\ \A j \in 1..n : Effects(t)[j] = Effect(ops[t][j]) /\ Effects(t)[j] \in Int
      /\ EffectSoFar(t) = Total(Effects(t), 1..d)
  BY <1>1, EffectsOf
<1>3. d + 1 \in Nat /\ d + 1 \in 1..n /\ \A j \in 1..(d + 1) : j \in 1..n
  BY <1>1
<1>4. PICK e : e = [j \in 1..(d + 1) |-> Effect(ops[t][j])]
  OBVIOUS
<1>5. EffectSoFar(t)' = Total(e, 1..(d + 1))
  <2>1. EffectSoFar(t)' = SumFunction([j \in 1..Dones'[t] |-> Effect(ops'[t][j])])
    BY DEF EffectSoFar
  <2>2. EffectSoFar(t)' = SumFunction(e)
    BY <1>1, <1>4, <2>1
  <2> QED
    BY <1>4, <2>2 DEF SumFunction, Total
<1>6. Total(e, 1..(d + 1)) = Total(Effects(t), 1..(d + 1))
  <2>1. \A j \in 1..(d + 1) : e[j] = Effects(t)[j]
    BY <1>2, <1>3, <1>4
  <2>2. IsFiniteSet(1..(d + 1))
    BY <1>3, FS_Interval
  <2> QED
    BY <2>1, <2>2, SumEqual
<1>7. Total(Effects(t), 1..(d + 1)) = Total(Effects(t), 1..d) + Effects(t)[d + 1]
  BY <1>1, <1>2, <1>3, SumNext
<1> QED
  BY <1>1, <1>2, <1>3, <1>5, <1>6, <1>7

LEMMA EffectKept ==
  ASSUME ops' = ops, NEW t \in Txs, Dones'[t] = Dones[t]
  PROVE  EffectSoFar(t)' = EffectSoFar(t)
BY DEF EffectSoFar

LEMMA PerformKeepsMoney ==
  ASSUME ProgramShape, ReportShape, MoneyIInv, initial_total' = initial_total,
         NEW t \in Txs, Transactions!Perform(t)
  PROVE  MoneyIInv'
<1> DEFINE sofar == [u \in Txs |-> EffectSoFar(u)]
<1>1. MoneyFits /\ DoneRight /\ LedgerExact /\ \A a \in Accounts : Ledger[a] \in Nat
  BY DEF MoneyIInv
<1>2. PICK op : op = ops[t][Dones[t] + 1]
  OBVIOUS
<1>3. PICK after : after = [a \in Accounts |-> Ledger[a] + Transactions!Change(op, a)]
  OBVIOUS
<1>4. /\ Dones[t] < Len(ops[t])
      /\ Transactions!Succeeds(op)
      /\ Ledger' = [a \in Accounts |-> Transactions!Int32(Ledger[a] + Transactions!Change(op, a))]
      /\ Dones' = [Dones EXCEPT ![t] = Dones[t] + 1]
      /\ ops' = ops
  BY <1>2 DEF Transactions!Perform, Transactions!NextOp
<1>5. op \in OperationType
  <2>1. Dones[t] + 1 \in 1..Len(ops[t])
    BY <1>1, <1>4, ProgramOps DEF DoneRight
  <2> QED
    BY <1>2, <2>1, ProgramOps
<1>6. /\ \A a \in Accounts : after[a] \in 0..INT_MAX
      /\ Total(after, Accounts) = Total(Ledger, Accounts) + Effect(op)
      /\ Effect(op) <= Deposited(op)
  <2>1. Total(Ledger, Accounts) + Deposited(op) <= INT_MAX
    BY <1>2, <1>4, RoomForMoney
  <2> QED
    BY <1>1, <1>3, <1>4, <1>5, <2>1, MoneyMoved
<1>7. Ledger' = after
  <2>1. \A a \in Accounts : Transactions!Int32(after[a]) = after[a]
    <3>1. \A a \in Accounts : after[a] \in Int32Range
      BY <1>6, BankAssumption DEF Int32Range
    <3> QED
      BY <3>1, WrapRange, SameInt32
  <2>2. \A a \in Accounts : after[a] = Ledger[a] + Transactions!Change(op, a)
    BY <1>3
  <2> QED
    BY <1>3, <1>4, <2>1, <2>2
<1>8. DOMAIN Dones = Txs
  BY DEF Dones
<1>9. Dones'[t] = Dones[t] + 1 /\ \A u \in Txs : u # t => Dones'[u] = Dones[u]
  BY <1>4, <1>8
<1>10. DoneRight'
  <2>1. /\ Dones[t] + 1 \in 0..Len(ops[t])
        /\ \A j \in 1..(Dones[t] + 1) : j \in 1..Dones[t] \/ j = Dones[t] + 1
    BY <1>1, <1>4, ProgramOps DEF DoneRight
  <2>2. \A j \in 1..(Dones[t] + 1) : Effect(ops[t][j]) <= Deposited(ops[t][j])
    BY <1>1, <1>2, <1>6, <2>1 DEF DoneRight
  <2> QED
    BY <1>1, <1>4, <1>9, <2>1, <2>2 DEF DoneRight
<1>11. MoneyFits'
  BY <1>1, <1>4 DEF MoneyFits, AllDeposits
<1>12. \A a \in Accounts : Ledger'[a] \in Nat
  BY <1>6, <1>7
<1>13. LedgerExact'
  <2>1. PICK next : next = [u \in Txs |-> EffectSoFar(u)']
    OBVIOUS
  <2>2. /\ next[t] = sofar[t] + Effect(op)
        /\ \A u \in Txs : u # t => next[u] = sofar[u]
    <3>1. next[t] = EffectSoFar(t) + Effect(op)
      BY <1>1, <1>2, <1>4, <1>9, <2>1, EffectAdded
    <3>2. \A u \in Txs : u # t => next[u] = EffectSoFar(u)
      BY <1>4, <1>9, <2>1, EffectKept
    <3> QED
      BY <3>1, <3>2
  <2>3. Effect(op) \in Int /\ \A u \in Txs : sofar[u] \in Int
    BY <1>1, <1>5, OpNumbers, EffectBounds
  <2>4. DOMAIN sofar = Txs /\ DOMAIN next = Txs /\ DOMAIN Ledger = Accounts /\ DOMAIN after = Accounts
    BY <1>3, <2>1 DEF Ledger
  <2>5. SumFunction(Ledger) = initial_total + SumFunction(sofar)
    BY <1>1 DEF LedgerExact
  <2> HIDE DEF sofar
  <2>6. Total(Ledger, Accounts) = initial_total + Total(sofar, Txs)
    BY <2>4, <2>5 DEF SumFunction, Total
  <2>7. \A u \in Txs : sofar[u] \in Int /\ next[u] \in Int
    BY <2>2, <2>3
  <2>8. Total(next, Txs) = Total(sofar, Txs) + (next[t] - sofar[t])
    BY <2>2, <2>7, BankTypesAssumption, SumChange
  <2>9. next[t] - sofar[t] = Effect(op) /\ Total(sofar, Txs) \in Int /\ initial_total \in Int
    <3>1. Total(sofar, Txs) \in Int
      BY <2>3, BankTypesAssumption, SumInt
    <3>2. next[t] - sofar[t] = Effect(op)
      BY <2>2, <2>3
    <3> QED
      BY <3>1, <3>2 DEF ReportShape
  <2>10. Total(after, Accounts) = initial_total + Total(next, Txs)
    BY <1>6, <2>3, <2>6, <2>8, <2>9
  <2>11. SumFunction(after) = initial_total + SumFunction(next)
    BY <2>4, <2>10 DEF SumFunction, Total
  <2>12. SumFunction(Ledger') = initial_total' + SumFunction([u \in Txs |-> EffectSoFar(u)'])
    BY <1>7, <2>1, <2>11
  <2> QED
    BY <2>12 DEF LedgerExact
<1> QED
  BY <1>10, <1>11, <1>12, <1>13 DEF MoneyIInv

\* Every other step leaves the money alone.
LEMMA MoneyStep ==
  ASSUME EveryIInv, EveryIInv', ReportShape, MoneyIInv, [Next]_vars
  PROVE  MoneyIInv'
<1>1. initial_total' = initial_total
  <2>1. ASSUME NEW t \in Txs, TxStep(t) PROVE initial_total' = initial_total
    BY <2>1, ReportOfThreads DEF mainVars
  <2>2. ASSUME NEW t \in Txs, CreateThread(t) PROVE initial_total' = initial_total
    BY <2>2 DEF CreateThread
  <2>3. CASE Bystander
    BY <2>3 DEF Bystander, Clock, CreateTimer, CreateTimerFails, Stop, JoinTimer, Report, Cleanup,
                JoinThread, vars, mainVars
  <2> QED
    BY <2>1, <2>2, <2>3 DEF Next, Main, Terminated, TxStep, Bystander
<1>2. ProgramShape
  BY DEF EveryIInv
<1>3. \/ Transactions!Next
      \/ UNCHANGED Transactions!transactionVars
  BY TransactionsStep
<1>4. ASSUME Ledger' = Ledger, ops' = ops, Dones' = Dones PROVE MoneyIInv'
  BY <1>1, <1>4 DEF MoneyIInv, MoneyFits, AllDeposits, DoneRight, LedgerExact, EffectSoFar
<1>5. ASSUME NEW t \in Txs, Transactions!Perform(t) PROVE MoneyIInv'
  BY <1>1, <1>2, <1>5, PerformKeepsMoney
<1>6. ASSUME NEW t \in Txs,
             \/ Transactions!Start(t) \/ Transactions!TurnAway(t)
             \/ Transactions!Fail(t) \/ Transactions!Complete(t)
      PROVE  MoneyIInv'
  BY <1>4, <1>6
     DEF Transactions!Start, Transactions!TurnAway, Transactions!Fail, Transactions!Complete, Transactions!Decide
<1>7. CASE UNCHANGED Transactions!transactionVars
  BY <1>4, <1>7 DEF Transactions!transactionVars
<1> QED
  BY <1>3, <1>5, <1>6, <1>7 DEF Transactions!Next

LEMMA MoneyInitially ==
  ASSUME Init, MoneyFits
  PROVE  MoneyIInv
<1>1. /\ Ledger = balance /\ balance \in [Accounts -> InitialBalances]
      /\ InitialBalances \subseteq Nat
  <2>1. \A a : Transferring(a) = {}
    BY DEF Init, BankInit, Transferring
  <2> QED
    BY <2>1, BankAssumption DEF Init, BankInit, Ledger
<1>2. \A t \in Txs : Dones[t] = 0
  BY TransactionsInitially DEF Transactions!Init
<1>3. DoneRight
  BY <1>2, ShapeOfProgramInit, ProgramOps DEF DoneRight
<1>4. LedgerExact
  <2> DEFINE sofar == [t \in Txs |-> EffectSoFar(t)]
  <2>1. \A t \in Txs : sofar[t] = 0
    <3>1. \A t \in Txs : EffectSoFar(t) = Total([j \in 1..0 |-> Effect(ops[t][j])], 1..0)
      BY <1>2 DEF EffectSoFar, SumFunction, Total
    <3>2. 1..0 = {}
      OBVIOUS
    <3>3. \A f : Total(f, {}) = 0
      BY SumEmpty
    <3> QED
      BY <3>1, <3>2, <3>3
  <2>2. DOMAIN sofar = Txs
    OBVIOUS
  <2> HIDE DEF sofar
  <2>3. SumFunction(sofar) = Total(sofar, Txs)
    BY <2>2 DEF SumFunction, Total
  <2>4. Total(sofar, Txs) \in Nat /\ Total(sofar, Txs) <= Cardinality(Txs) * 0
    BY <2>1, BankTypesAssumption, SumBounds
  <2>5. SumFunction(sofar) = 0
    <3>1. Cardinality(Txs) * 0 = 0
      BY BankTypesAssumption, FS_CardinalityType
    <3> QED
      BY <2>3, <2>4, <3>1
  <2>6. initial_total = SumFunction(Ledger) /\ initial_total \in Nat
    BY <1>1, ReportShapeInitially DEF Init, TotalBalance, ReportShape
  <2>7. SumFunction(Ledger) = initial_total + SumFunction(sofar)
    BY <2>5, <2>6
  <2> QED
    BY <2>7 DEF LedgerExact, sofar
<1> QED
  BY <1>1, <1>3, <1>4 DEF MoneyIInv

LEMMA MoneyInvariance == SafeSpec /\ MoneyFits => [](EveryIInv /\ ReportShape /\ MoneyIInv)
<1>1. EveryIInv /\ EveryIInv' /\ ReportShape /\ MoneyIInv /\ [Next]_vars => MoneyIInv'
  BY MoneyStep
<1>2. Init /\ MoneyFits => MoneyIInv
  BY MoneyInitially
<1> QED
  BY <1>1, <1>2, ReportShapeAlways, PTL DEF SafeSpec

\* At every moment of every interleaving the bank holds exactly the money it started
\* with plus what the operations done so far brought in or took out, provided that
\* the money there is and the deposits of the trace fit an int.
THEOREM MoneyAccountedFor == SafeSpec /\ MoneyFits => []LedgerExact
<1>1. MoneyIInv => LedgerExact
  BY DEF MoneyIInv
<1> QED
  BY <1>1, MoneyInvariance, PTL

\* Under the same condition no account is ever overdrawn and no int overflows: in the
\* middle of a transfer, too, every balance is a number from 0 to INT_MAX.
BalancesSound == \A a \in Accounts : balance[a] \in 0..INT_MAX

\* The checks that withdraw and transfer make under their locks suffice.
THEOREM NeverOverdrawn == SafeSpec /\ MoneyFits => []BalancesSound
<1>1. EveryIInv /\ MoneyIInv => BalancesSound
  <2> SUFFICES ASSUME EveryIInv, MoneyIInv, NEW a \in Accounts PROVE balance[a] \in 0..INT_MAX
    BY DEF BalancesSound
  <2>1. BankIInv /\ LedgerMeans /\ Ledger[a] \in Nat /\ INT_MAX \in Nat
    BY LedgerValue, BankAssumption DEF EveryIInv, MoneyIInv
  <2>2. balance[a] \in Int /\ balance[a] <= INT_MAX
    <3>1. balance[a] \in -(INT_MAX + 1)..INT_MAX
      BY <2>1 DEF BankIInv, BankTypeOK
    <3> QED
      BY <2>1, <3>1
  <2>3. balance[a] >= 0
    <3>1. CASE Transferring(a) = {}
      BY <2>1, <3>1 DEF LedgerMeans
    <3>2. CASE Transferring(a) # {}
      BY <2>1, <3>2 DEF BankIInv, DebitUndoable, Transferring
    <3> QED
      BY <3>1, <3>2
  <2> QED
    BY <2>1, <2>2, <2>3
<1> QED
  BY <1>1, MoneyInvariance, PTL
--------------------------------------------------------------------------------
(***************************************************************************)
(* The verdict of the balance check.                                       *)
(***************************************************************************)

\* When main reports, no transfer is under way.
LEMMA SettledLedger ==
  ASSUME EveryIInv, main_pc = "report"
  PROVE  Ledger = balance
<1>1. ASSUME NEW t \in Txs PROVE bank_pc[t] = "idle"
  <2>1. Over(t)
    BY DEF EveryIInv, ProgramIInv, MainStage
  <2> QED
    BY <2>1, StageFacts DEF Over, Exited, ThreadStage, UnloadLabels
<1>2. \A a : Transferring(a) = {}
  BY <1>1 DEF Transferring
<1>3. balance = [a \in Accounts |-> balance[a]]
  BY DEF EveryIInv, BankIInv, BankTypeOK
<1> QED
  BY <1>2, <1>3 DEF Ledger

\* The flow main counts for a transaction is a number.
LEMMA FlowNumber ==
  ASSUME ProgramShape, NEW t \in Txs
  PROVE  FlowOf(ops[t]) \in Int
<1> DEFINE f == [j \in 1..Len(ops[t]) |-> Flow(ops[t][j])]
<1>1. \A j \in 1..Len(ops[t]) : f[j] \in Int
  BY ProgramOps, OpNumbers
<1>2. FlowOf(ops[t]) = Total(f, 1..Len(ops[t]))
  BY DEF FlowOf, SumFunction, Total
<1>3. IsFiniteSet(1..Len(ops[t]))
  BY ProgramOps, FS_Interval
<1> HIDE DEF f
<1> QED
  BY <1>1, <1>2, <1>3, SumInt

\* What compute_committed_external_flow counts for the committed transactions and
\* what all transactions did differ by what BalanceCheckMeaning compares.
LEMMA CheckMeans ==
  ASSUME ProgramShape, ReportShape, MoneyIInv, Ledger = balance
  PROVE  initial_total + CommittedFlow = TotalBalance
           <=> SumFunction([t \in Txs \ Committed |-> EffectSoFar(t)])
                 = SumFunction([t \in Committed |-> FlowOf(ops[t]) - EffectSoFar(t)])
<1> DEFINE Rest == Txs \ Committed
           done == [t \in Txs |-> EffectSoFar(t)]
           flow == [t \in Committed |-> FlowOf(ops[t])]
           more == [t \in Committed |-> FlowOf(ops[t]) - EffectSoFar(t)]
           rest == [t \in Rest |-> EffectSoFar(t)]
<1>1. DoneRight /\ SumFunction(Ledger) = initial_total + SumFunction(done) /\ initial_total \in Int
  BY DEF MoneyIInv, LedgerExact, ReportShape
<1>2. /\ Committed \cup Rest = Txs /\ Committed \cap Rest = {}
      /\ IsFiniteSet(Committed) /\ IsFiniteSet(Rest)
  BY BankTypesAssumption, FS_Subset DEF Committed
<1>3. \A t \in Txs : done[t] \in Int /\ FlowOf(ops[t]) \in Int
  BY <1>1, EffectBounds, FlowNumber
<1>4. /\ \A t \in Committed : /\ done[t] \in Int /\ more[t] \in Int
                              /\ flow[t] = done[t] + more[t]
      /\ \A t \in Rest : done[t] \in Int /\ rest[t] = done[t]
  <2>1. \A t \in Committed : t \in Txs
    BY DEF Committed
  <2>2. \A t \in Committed : /\ flow[t] = FlowOf(ops[t]) /\ more[t] = FlowOf(ops[t]) - done[t]
                             /\ done[t] \in Int /\ FlowOf(ops[t]) \in Int
    BY <1>3, <2>1
  <2>3. \A t \in Rest : done[t] \in Int /\ rest[t] = done[t]
    BY <1>3
  <2> HIDE DEF flow, more, done
  <2> QED
    BY <2>2, <2>3
<1>5. /\ DOMAIN done = Txs /\ DOMAIN flow = Committed /\ DOMAIN more = Committed /\ DOMAIN rest = Rest
      /\ CommittedFlow = SumFunction(flow) /\ TotalBalance = SumFunction(Ledger)
  BY DEF CommittedFlow, TotalBalance
<1> HIDE DEF done, flow, more, rest, Rest
<1>6. Total(flow, Committed) = Total(done, Committed) + Total(more, Committed)
  BY <1>2, <1>4, SumPlus
<1>7. Total(done, Txs) = Total(done, Committed) + Total(done, Rest)
  <2>1. \A t \in Committed \cup Rest : done[t] \in Int
    BY <1>4
  <2>2. Total(done, Committed \cup Rest) = Total(done, Committed) + Total(done, Rest)
    BY <1>2, <2>1, SumUnion
  <2> QED
    BY <1>2, <2>2
<1>8. Total(rest, Rest) = Total(done, Rest)
  BY <1>2, <1>4, SumEqual
<1>9. /\ Total(done, Committed) \in Int /\ Total(more, Committed) \in Int /\ Total(done, Rest) \in Int
  BY <1>2, <1>4, SumInt
<1>10. /\ CommittedFlow = Total(flow, Committed)
       /\ TotalBalance = initial_total + Total(done, Txs)
       /\ SumFunction(rest) = Total(rest, Rest) /\ SumFunction(more) = Total(more, Committed)
  BY <1>1, <1>5 DEF SumFunction, Total
<1>11. initial_total + CommittedFlow = TotalBalance <=> SumFunction(rest) = SumFunction(more)
  <2>1. PICK i \in Int, x \in Int, y \in Int, z \in Int :
          i = initial_total /\ x = Total(done, Committed) /\ y = Total(more, Committed) /\ z = Total(done, Rest)
    BY <1>1, <1>9
  <2>2. /\ CommittedFlow = x + y /\ TotalBalance = i + (x + z)
        /\ SumFunction(rest) = z /\ SumFunction(more) = y
    BY <1>6, <1>7, <1>8, <1>10, <2>1
  <2>3. i + (x + y) = i + (x + z) <=> z = y
    OBVIOUS
  <2> QED
    BY <2>1, <2>2, <2>3
<1> QED
  BY <1>11 DEF rest, more, Rest

LEMMA CheckStep ==
  ASSUME EveryIInv, ReportShape, MoneyIInv, ReportTime, BalanceCheckMeaning, [Next]_vars
  PROVE  BalanceCheckMeaning'
<1>1. CASE balance_check' = "none"
  BY <1>1 DEF BalanceCheckMeaning
<1>2. CASE balance_check # "none" /\ UNCHANGED <<bankVars, timerVars, txVars, initial_total, reportVars>>
  <2>1. /\ balance_check' = balance_check /\ Committed' = Committed /\ ops' = ops
        /\ op_index' = op_index
        /\ \A t \in Txs : (Finished(t)' <=> Finished(t)) /\ (OpFailed(t)' <=> OpFailed(t))
    BY <1>2 DEF Committed, txVars, reportVars, bankVars, Finished, OpFailed, OpType
  <2>2. Dones' = Dones
    BY <2>1 DEF Dones
  <2> QED
    BY <1>2, <2>1, <2>2 DEF BalanceCheckMeaning, EffectSoFar
<1>3. CASE Report /\ main_pc = "report"
  <2>1. UNCHANGED <<bankVars, txVars>>
    BY <1>3 DEF Report
  <2>2. /\ Committed' = Committed /\ ops' = ops /\ op_index' = op_index
        /\ \A t \in Txs : (Finished(t)' <=> Finished(t)) /\ (OpFailed(t)' <=> OpFailed(t))
    BY <2>1 DEF Committed, txVars, bankVars, Finished, OpFailed, OpType
  <2>3. Dones' = Dones
    BY <2>2 DEF Dones
  <2>4. balance_check' = "PASS" <=> initial_total + CommittedFlow = TotalBalance
    BY <1>3 DEF Report
  <2>5. balance_check' = "PASS"
          <=> SumFunction([t \in Txs \ Committed |-> EffectSoFar(t)])
                = SumFunction([t \in Committed |-> FlowOf(ops[t]) - EffectSoFar(t)])
    BY <1>3, <2>4, CheckMeans, SettledLedger DEF EveryIInv
  <2> QED
    BY <2>2, <2>3, <2>5 DEF BalanceCheckMeaning, EffectSoFar
<1> QED
  BY <1>1, <1>2, <1>3, ReportMade

\* The verdict of the balance check, for any trace: it passes exactly when what the
\* aborted transactions did before they aborted equals what the check counts too
\* much for the committed ones.
THEOREM BalanceCheckMeans == SafeSpec /\ MoneyFits => []BalanceCheckMeaning
<1>1. Init => BalanceCheckMeaning
  BY DEF Init, BalanceCheckMeaning
<1>2. /\ EveryIInv /\ ReportShape /\ MoneyIInv /\ ReportTime /\ BalanceCheckMeaning /\ [Next]_vars
      => BalanceCheckMeaning'
  BY CheckStep
<1> QED
  BY <1>1, <1>2, MoneyInvariance, ReportTimeAlways, PTL DEF SafeSpec
================================================================================
