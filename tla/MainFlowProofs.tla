----------------------------- MODULE MainFlowProofs ----------------------------
(***************************************************************************)
(* Proofs about MainFlow, for every command line, accounts file and trace, *)
(* of any length, and every capacity: what the loops of parse_args,        *)
(* parse_accounts_file and parse_trace_file build, argument by argument    *)
(* and line by line, is what the whole command line or file says; and each *)
(* way out of main releases what exists.                                   *)
(***************************************************************************)
EXTENDS MainFlow, FiniteSetTheorems, SequenceTheorems, TLAPS

--------------------------------------------------------------------------------
(***************************************************************************)
(* The accounts file.                                                      *)
(***************************************************************************)
EntriesOf(file) == {k \in 1..Len(file) : file[k].kind = "account"}

AccountOf(line) ==
  [account_id |-> line.account_id, balance_centavos |-> line.initial_balance]

\* The stream is open while the file is read.
AccountsStream ==
  /\ accounts_pc = "unopened" => accounts_fp = "none"
  /\ accounts_pc = "reading" => accounts_fp = "open"
  /\ accounts_pc = "loaded" => accounts_fp = "closed"
  /\ accounts_pc = "failed" => accounts_fp # "open"

DistinctAccounts ==
  \A i, j \in 1..Len(accounts) : accounts[i].account_id = accounts[j].account_id => i = j

\* The table holds the entries of the file, each once.
TableHoldsFile ==
  /\ \A k \in 1..Len(accounts_file) : accounts_file[k].kind # "malformed"
  /\ \A k \in EntriesOf(accounts_file) :
       \E i \in 1..Len(accounts) : accounts[i] = AccountOf(accounts_file[k])
  /\ \A i \in 1..Len(accounts) :
       \E k \in EntriesOf(accounts_file) : accounts[i] = AccountOf(accounts_file[k])
  /\ \A k, l \in EntriesOf(accounts_file) :
       accounts_file[k].account_id = accounts_file[l].account_id => k = l
  /\ Cardinality(EntriesOf(accounts_file)) = Len(accounts)

TableIInv ==
  /\ TableTypeOK /\ AccountsStream /\ DistinctAccounts
  /\ accounts_pc # "failed" => TableHoldsFile
  /\ accounts_pc = "failed" /\ accounts_fp # "none" => ~AcceptableAccounts(accounts_file)

TableStep == OpenAccounts \/ AccountsUnreadable \/ TableNext

\* A line more has one position more, the last.
LEMMA OneLineMore ==
  ASSUME NEW Lines, NEW file \in Seq(Lines), NEW line \in Lines
  PROVE  /\ Append(file, line) \in Seq(Lines)
         /\ Len(Append(file, line)) = Len(file) + 1
         /\ Len(file) \in Nat
         /\ 1..Len(Append(file, line)) = 1..Len(file) \cup {Len(file) + 1}
         /\ Len(file) + 1 \notin 1..Len(file)
         /\ \A k \in 1..Len(file) : Append(file, line)[k] = file[k]
         /\ Append(file, line)[Len(file) + 1] = line
<1>1. Len(file) \in Nat
  BY LenProperties
<1>2. /\ Append(file, line) \in Seq(Lines)
      /\ Len(Append(file, line)) = Len(file) + 1
      /\ \A k \in 1..Len(file) : Append(file, line)[k] = file[k]
      /\ Append(file, line)[Len(file) + 1] = line
  BY AppendProperties
<1>3. 1..Len(file) + 1 = 1..Len(file) \cup {Len(file) + 1} /\ Len(file) + 1 \notin 1..Len(file)
  BY <1>1
<1> QED
  BY <1>1, <1>2, <1>3

\* What holds of a set of positions also holds when the last one joins it.
LEMMA OnePositionMore ==
  ASSUME NEW n \in Nat, NEW S \in SUBSET (1..n)
  PROVE  /\ IsFiniteSet(S) /\ Cardinality(S) \in Nat
         /\ IsFiniteSet(S \cup {n + 1}) /\ Cardinality(S \cup {n + 1}) = Cardinality(S) + 1
<1>1. IsFiniteSet(1..n)
  BY FS_Interval
<1>2. IsFiniteSet(S) /\ Cardinality(S) \in Nat
  BY <1>1, FS_Subset, FS_CardinalityType
<1>3. n + 1 \notin S
  OBVIOUS
<1> QED
  BY <1>2, <1>3, FS_AddElement

LEMMA EntriesGrow ==
  ASSUME NEW file \in Seq(AccountLines), NEW line \in AccountLines
  PROVE  /\ line.kind = "account" =>
              /\ EntriesOf(Append(file, line)) = EntriesOf(file) \cup {Len(file) + 1}
              /\ Cardinality(EntriesOf(Append(file, line))) = Cardinality(EntriesOf(file)) + 1
         /\ line.kind # "account" => EntriesOf(Append(file, line)) = EntriesOf(file)
         /\ Len(file) + 1 \notin EntriesOf(file)
<1> DEFINE new == Append(file, line)
<1>1. /\ Len(file) \in Nat
      /\ 1..Len(new) = 1..Len(file) \cup {Len(file) + 1}
      /\ Len(file) + 1 \notin 1..Len(file)
      /\ \A k \in 1..Len(file) : new[k] = file[k]
      /\ new[Len(file) + 1] = line
  BY OneLineMore
<1>2. EntriesOf(file) \in SUBSET (1..Len(file))
  BY DEF EntriesOf
<1> HIDE DEF new
<1>3. ASSUME line.kind = "account" PROVE EntriesOf(new) = EntriesOf(file) \cup {Len(file) + 1}
  BY <1>1, <1>3 DEF EntriesOf
<1>4. ASSUME line.kind # "account" PROVE EntriesOf(new) = EntriesOf(file)
  BY <1>1, <1>4 DEF EntriesOf
<1>5. Cardinality(EntriesOf(file) \cup {Len(file) + 1}) = Cardinality(EntriesOf(file)) + 1
  BY <1>1, <1>2, OnePositionMore
<1> QED
  BY <1>1, <1>2, <1>3, <1>4, <1>5 DEF new

\* An entry's fields are integers.
LEMMA EntryFields ==
  ASSUME NEW line \in AccountLines
  PROVE  /\ line.kind \in {"skip", "malformed", "account"}
         /\ line.kind = "account" => line.account_id \in Int /\ line.initial_balance \in Int
<1>1. line \in AccountLineType
  BY AccountTableAssumption
<1>2. CASE line \in [kind : {"skip", "malformed"}]
  BY <1>2
<1>3. CASE line \in [kind : {"account"}, account_id : Int, initial_balance : Int]
  BY <1>3
<1> QED
  BY <1>1, <1>2, <1>3 DEF AccountLineType

LEMMA TableStarts == TableInit => TableIInv
<1> SUFFICES ASSUME TableInit PROVE TableIInv
  OBVIOUS
<1> USE DEF TableInit
<1>1. accounts = <<>> /\ accounts_file = <<>> /\ Len(accounts) = 0 /\ Len(accounts_file) = 0
  OBVIOUS
<1>2. EntriesOf(accounts_file) = {} /\ Cardinality(EntriesOf(accounts_file)) = 0
  BY <1>1, FS_EmptySet DEF EntriesOf
<1>3. TableTypeOK
  BY AccountTableAssumption, EmptySeq DEF TableTypeOK
<1>4. TableHoldsFile /\ DistinctAccounts
  BY <1>1, <1>2 DEF TableHoldsFile, DistinctAccounts
<1> QED
  BY <1>3, <1>4 DEF TableIInv, AccountsStream

\* add_account: the entry finds room and no other of its ID.
LEMMA TableAddsAccount ==
  ASSUME TableIInv, NEW line \in AccountLines, AddAccount(line)
  PROVE  TableIInv'
<1> USE DEF TableIInv
<1>1. /\ accounts_pc = "reading" /\ line.kind = "account"
      /\ accounts_file' = Append(accounts_file, line)
      /\ accounts' = Append(accounts, AccountOf(line))
      /\ accounts_pc' = accounts_pc /\ accounts_fp' = accounts_fp
      /\ ~CannotAdd(line)
  BY DEF AddAccount, ReadAccountLine, AccountOf
<1>2. line.account_id \in Int /\ line.initial_balance \in Int
  BY <1>1, EntryFields
<1>2a. ~(line.account_id < 0) /\ ~(line.initial_balance < 0) /\ ~TableFull
       /\ ~Duplicate(line.account_id)
  BY <1>1 DEF CannotAdd
<1>2b. line.account_id >= 0 /\ line.initial_balance >= 0
  BY <1>2, <1>2a
<1>2c. ~(Len(accounts) >= MAX_ACCOUNTS)
  BY <1>2a DEF TableFull
<1> DEFINE Slots == [account_id : Nat, balance_centavos : Nat]
           n == Len(accounts)
           m == Len(accounts_file)
           new == Append(accounts_file, line)
<1>3. AccountOf(line) \in Slots
  BY <1>2, <1>2b DEF AccountOf
<1>4. accounts \in Seq(Slots) /\ accounts_file \in Seq(AccountLines) /\ n <= MAX_ACCOUNTS
  BY DEF TableTypeOK
<1>5. /\ accounts' \in Seq(Slots) /\ Len(accounts') = n + 1 /\ n \in Nat
      /\ 1..Len(accounts') = 1..n \cup {n + 1}
      /\ n + 1 \notin 1..n
      /\ \A i \in 1..n : accounts'[i] = accounts[i]
      /\ accounts'[n + 1] = AccountOf(line)
  BY <1>1, <1>3, <1>4, OneLineMore
<1>6. /\ new \in Seq(AccountLines) /\ Len(new) = m + 1 /\ m \in Nat
      /\ 1..Len(new) = 1..m \cup {m + 1}
      /\ m + 1 \notin 1..m
      /\ \A k \in 1..m : new[k] = accounts_file[k]
      /\ new[m + 1] = line
  BY <1>4, OneLineMore
<1>7. /\ EntriesOf(new) = EntriesOf(accounts_file) \cup {m + 1}
      /\ Cardinality(EntriesOf(new)) = Cardinality(EntriesOf(accounts_file)) + 1
      /\ m + 1 \notin EntriesOf(accounts_file)
  BY <1>1, <1>4, EntriesGrow
<1>8. TableHoldsFile
  BY <1>1
<1>9. \A i \in 1..n : accounts[i].account_id # line.account_id
  BY <1>2a DEF SlotsWith, Duplicate
<1>10. AccountOf(line).account_id = line.account_id
  BY DEF AccountOf
<1> HIDE DEF new, m, n, Slots
<1>11. EntriesOf(accounts_file) \subseteq 1..m
  BY DEF EntriesOf, m
<1>12. TableTypeOK'
  <2>1. n + 1 <= MAX_ACCOUNTS
    BY <1>2c, <1>4, <1>5, AccountTableAssumption DEF n
  <2> QED
    BY <2>1, <1>1, <1>5, <1>6 DEF TableTypeOK, Slots, new
<1>13. AccountsStream'
  BY <1>1 DEF AccountsStream
<1>14. DistinctAccounts'
  BY <1>5, <1>9, <1>10 DEF DistinctAccounts, n
<1>15. TableHoldsFile'
  <2>1. \A k \in 1..Len(new) : new[k].kind # "malformed"
    BY <1>1, <1>6, <1>8 DEF TableHoldsFile, m
  <2>2. \A k \in EntriesOf(new) : \E i \in 1..Len(accounts') : accounts'[i] = AccountOf(new[k])
    BY <1>5, <1>6, <1>7, <1>8, <1>11 DEF TableHoldsFile, n
  <2>3. \A i \in 1..Len(accounts') : \E k \in EntriesOf(new) : accounts'[i] = AccountOf(new[k])
    <3>1. ASSUME NEW i \in 1..n PROVE \E k \in EntriesOf(new) : accounts'[i] = AccountOf(new[k])
      <4>1. PICK k \in EntriesOf(accounts_file) : accounts[i] = AccountOf(accounts_file[k])
        BY <1>8 DEF TableHoldsFile, n
      <4> QED
        BY <4>1, <1>5, <1>6, <1>7, <1>11
    <3> QED
      BY <3>1, <1>5, <1>6, <1>7
  <2>4. ASSUME NEW k \in EntriesOf(accounts_file)
        PROVE  accounts_file[k].account_id # line.account_id
    <3>1. PICK i \in 1..n : accounts[i] = AccountOf(accounts_file[k])
      BY <1>8 DEF TableHoldsFile, n
    <3> QED
      BY <3>1, <1>9 DEF AccountOf
  <2>5. \A k, l \in EntriesOf(new) : new[k].account_id = new[l].account_id => k = l
    BY <2>4, <1>6, <1>7, <1>8, <1>11 DEF TableHoldsFile
  <2>6. Cardinality(EntriesOf(new)) = Len(accounts')
    BY <1>5, <1>7, <1>8 DEF TableHoldsFile, n
  <2> QED
    BY <2>1, <2>2, <2>3, <2>5, <2>6, <1>1 DEF TableHoldsFile, new
<1> QED
  BY <1>1, <1>12, <1>13, <1>14, <1>15

\* A line that is rejected makes the file unacceptable.
LEMMA TableRejects ==
  ASSUME TableIInv, NEW line \in AccountLines, RejectAccountLine(line)
  PROVE  TableIInv'
<1> USE DEF TableIInv
<1> DEFINE m == Len(accounts_file)
           new == Append(accounts_file, line)
<1>1. /\ accounts_pc = "reading" /\ accounts_pc' = "failed" /\ accounts_fp' = "closed"
      /\ accounts_file' = new /\ accounts' = accounts
      /\ \/ line.kind = "malformed"
         \/ line.kind = "account" /\ CannotAdd(line)
  BY DEF RejectAccountLine, ReadAccountLine
<1>2. accounts_file \in Seq(AccountLines)
  BY DEF TableTypeOK
<1>3. /\ new \in Seq(AccountLines)
      /\ 1..Len(new) = 1..m \cup {m + 1} /\ m + 1 \notin 1..m
      /\ \A k \in 1..m : new[k] = accounts_file[k]
      /\ new[m + 1] = line
  BY <1>2, OneLineMore
<1>4. TableHoldsFile
  BY <1>1
<1>5. line.kind = "account" =>
        /\ EntriesOf(new) = EntriesOf(accounts_file) \cup {m + 1}
        /\ Cardinality(EntriesOf(new)) = Cardinality(EntriesOf(accounts_file)) + 1
        /\ m + 1 \notin EntriesOf(accounts_file)
  BY <1>2, EntriesGrow
<1>6. EntriesOf(accounts_file) \subseteq 1..m
  BY DEF EntriesOf
<1> HIDE DEF m, new
<1>7. ~AcceptableAccounts(new)
  <2> SUFFICES ASSUME AcceptableAccounts(new) PROVE FALSE
    OBVIOUS
  <2>1. /\ \A k \in 1..Len(new) : new[k].kind # "malformed"
        /\ \A k \in EntriesOf(new) : new[k].account_id >= 0 /\ new[k].initial_balance >= 0
        /\ \A k, l \in EntriesOf(new) : new[k].account_id = new[l].account_id => k = l
        /\ Cardinality(EntriesOf(new)) <= MAX_ACCOUNTS
    BY DEF AcceptableAccounts, EntriesOf
  <2>2. line.kind = "account" /\ CannotAdd(line)
    BY <2>1, <1>1, <1>3
  <2>3. line.account_id >= 0 /\ line.initial_balance >= 0
    BY <2>1, <2>2, <1>3, <1>5
  <2>4. CASE TableFull
    <3>1. Cardinality(EntriesOf(accounts_file)) = Len(accounts)
      BY <1>4 DEF TableHoldsFile
    <3>2. Len(accounts) \in Nat /\ Len(accounts) >= MAX_ACCOUNTS
      BY <2>4, LenProperties DEF TableFull, TableTypeOK
    <3>3. Len(accounts) + 1 <= MAX_ACCOUNTS
      BY <2>1, <2>2, <1>5, <3>1
    <3> QED
      BY <3>2, <3>3, AccountTableAssumption
  <2>5. CASE Duplicate(line.account_id)
    <3>1. PICK i \in 1..Len(accounts) : accounts[i].account_id = line.account_id
      BY <2>5 DEF Duplicate, SlotsWith
    <3>2. PICK k \in EntriesOf(accounts_file) : accounts[i] = AccountOf(accounts_file[k])
      BY <1>4 DEF TableHoldsFile
    <3>3. new[k].account_id = line.account_id
      BY <3>1, <3>2, <1>3, <1>6 DEF AccountOf
    <3> QED
      BY <3>3, <2>1, <2>2, <1>3, <1>5, <1>6
  <2>6. ~(line.account_id < 0) /\ ~(line.initial_balance < 0)
    BY <2>2, <2>3, EntryFields
  <2> QED
    BY <2>2, <2>4, <2>5, <2>6 DEF CannotAdd
<1>8. TableTypeOK'
  BY <1>1, <1>3 DEF TableTypeOK
<1> QED
  BY <1>1, <1>7, <1>8 DEF AccountsStream, DistinctAccounts

LEMMA TableKept == TableIInv /\ (TableStep \/ UNCHANGED tableVars) => TableIInv'
<1> SUFFICES ASSUME TableIInv, TableStep \/ UNCHANGED tableVars PROVE TableIInv'
  OBVIOUS
<1>1. CASE OpenAccounts
  BY <1>1 DEF OpenAccounts, TableIInv, TableTypeOK, AccountsStream, DistinctAccounts, TableHoldsFile
<1>2. CASE AccountsUnreadable
  BY <1>2 DEF AccountsUnreadable, TableIInv, TableTypeOK, AccountsStream, DistinctAccounts
<1>3. ASSUME NEW line \in AccountLines, SkipAccountLine(line) PROVE TableIInv'
  <2> DEFINE new == Append(accounts_file, line)
  <2>1. /\ accounts_pc = "reading" /\ accounts_file' = new
        /\ UNCHANGED <<accounts, accounts_pc, accounts_fp>> /\ line.kind = "skip"
    BY <1>3 DEF SkipAccountLine, ReadAccountLine
  <2>2. accounts_file \in Seq(AccountLines)
    BY DEF TableIInv, TableTypeOK
  <2>3. /\ new \in Seq(AccountLines)
        /\ 1..Len(new) = 1..Len(accounts_file) \cup {Len(accounts_file) + 1}
        /\ \A k \in 1..Len(accounts_file) : new[k] = accounts_file[k]
        /\ new[Len(accounts_file) + 1] = line
    BY <2>2, OneLineMore
  <2>4. EntriesOf(new) = EntriesOf(accounts_file)
    BY <2>1, <2>2, EntriesGrow
  <2>5. \A k \in EntriesOf(accounts_file) : k \in 1..Len(accounts_file)
    BY DEF EntriesOf
  <2>6. TableHoldsFile
    BY <2>1 DEF TableIInv
  <2> HIDE DEF new
  <2>7. \A k \in EntriesOf(new) : new[k] = accounts_file[k]
    BY <2>3, <2>4, <2>5
  <2>8. TableHoldsFile'
    <3>1. \A k \in 1..Len(new) : new[k].kind # "malformed"
      BY <2>1, <2>3, <2>6 DEF TableHoldsFile
    <3>2. \A k \in EntriesOf(new) : \E i \in 1..Len(accounts) : accounts[i] = AccountOf(new[k])
      BY <2>4, <2>6, <2>7 DEF TableHoldsFile
    <3>3. \A i \in 1..Len(accounts) : \E k \in EntriesOf(new) : accounts[i] = AccountOf(new[k])
      BY <2>4, <2>6, <2>7 DEF TableHoldsFile
    <3>4. \A k, l \in EntriesOf(new) : new[k].account_id = new[l].account_id => k = l
      BY <2>4, <2>6, <2>7 DEF TableHoldsFile
    <3>5. Cardinality(EntriesOf(new)) = Len(accounts)
      BY <2>4, <2>6 DEF TableHoldsFile
    <3> QED
      BY <2>1, <3>1, <3>2, <3>3, <3>4, <3>5 DEF TableHoldsFile
  <2> QED
    BY <2>1, <2>3, <2>8 DEF TableIInv, TableTypeOK, AccountsStream, DistinctAccounts
<1>4. CASE EndOfAccounts
  BY <1>4 DEF EndOfAccounts, TableIInv, TableTypeOK, AccountsStream, DistinctAccounts, TableHoldsFile
<1>5. CASE UNCHANGED tableVars
  BY <1>5 DEF tableVars, TableIInv, TableTypeOK, AccountsStream, DistinctAccounts, TableHoldsFile,
              AcceptableAccounts
<1> QED
  BY <1>1, <1>2, <1>3, <1>4, <1>5, TableAddsAccount, TableRejects DEF TableStep, TableNext

LEMMA SlotFields ==
  ASSUME TableTypeOK
  PROVE  /\ Len(accounts) \in Nat
         /\ \A i \in 1..Len(accounts) :
              accounts[i].account_id \in Nat /\ accounts[i].balance_centavos \in Nat
<1>1. accounts \in Seq([account_id : Nat, balance_centavos : Nat])
  BY DEF TableTypeOK
<1>2. \A i \in 1..Len(accounts) : accounts[i] \in [account_id : Nat, balance_centavos : Nat]
  BY <1>1, ElementOfSeq
<1>3. Len(accounts) \in Nat
  BY <1>1, LenProperties
<1> QED
  BY <1>2, <1>3

\* The verdict on the file is that of its definition.
LEMMA VerdictOnAccounts == TableIInv => RejectsBadAccounts
<1> SUFFICES ASSUME TableIInv, accounts_fp # "none", accounts_pc # "failed"
             PROVE  AcceptableAccounts(accounts_file)
  BY DEF RejectsBadAccounts, TableIInv
<1>1. TableHoldsFile /\ TableTypeOK
  BY DEF TableIInv
<1>2. ASSUME NEW k \in EntriesOf(accounts_file)
      PROVE  accounts_file[k].account_id >= 0 /\ accounts_file[k].initial_balance >= 0
  <2>1. PICK i \in 1..Len(accounts) : accounts[i] = AccountOf(accounts_file[k])
    BY <1>1 DEF TableHoldsFile
  <2>2. accounts[i].account_id \in Nat /\ accounts[i].balance_centavos \in Nat
    BY <1>1, SlotFields
  <2> QED
    BY <2>1, <2>2 DEF AccountOf
<1> QED
  BY <1>1, <1>2 DEF AcceptableAccounts, TableHoldsFile, TableTypeOK, EntriesOf

\* Both paths of get_account lead to the one slot of the ID.
LEMMA TheSlotOfAnAccount ==
  ASSUME TableIInv, NEW id \in Int
  PROVE  IF GetAccount(id) = 0
         THEN \A i \in 1..Len(accounts) : accounts[i].account_id # id
         ELSE GetAccount(id) \in 1..Len(accounts) /\ accounts[GetAccount(id)].account_id = id
<1>1. DistinctAccounts
  BY DEF TableIInv
<1>2. Len(accounts) \in Nat /\ \A i \in 1..Len(accounts) : accounts[i].account_id \in Nat
  BY SlotFields DEF TableIInv
<1>3. CASE id < 0
  BY <1>2, <1>3 DEF GetAccount
<1>4. CASE ~(id < 0) /\ id \in 1..Len(accounts) /\ accounts[id].account_id = id
  BY <1>2, <1>4 DEF GetAccount
<1>5. CASE ~(id < 0) /\ ~(id \in 1..Len(accounts) /\ accounts[id].account_id = id)
  <2>1. CASE SlotsWith(id) = {}
    BY <1>5, <2>1 DEF GetAccount, SlotsWith
  <2>2. CASE SlotsWith(id) # {}
    <3>1. PICK i \in SlotsWith(id) : TRUE
      BY <2>2
    <3>2. i \in 1..Len(accounts) /\ accounts[i].account_id = id
      BY DEF SlotsWith
    <3>3. \A j \in SlotsWith(id) : j = i
      BY <1>1, <3>2 DEF DistinctAccounts, SlotsWith
    <3>4. \E k \in SlotsWith(id) : \A j \in SlotsWith(id) : k <= j
      BY <3>1, <3>2, <3>3, <1>2
    <3>5. GetAccount(id) = CHOOSE k \in SlotsWith(id) : \A j \in SlotsWith(id) : k <= j
      BY <1>5, <2>2 DEF GetAccount
    <3>6. GetAccount(id) \in SlotsWith(id)
      BY <3>4, <3>5
    <3>7. GetAccount(id) = i
      BY <3>3, <3>6
    <3> QED
      BY <3>2, <3>7, <1>2
  <2> QED
    BY <2>1, <2>2
<1> QED
  BY <1>3, <1>4, <1>5

LEMMA LookupIsExact == TableIInv => LookupExact
<1> SUFFICES ASSUME TableIInv, NEW line \in AccountLines, line.kind = "account",
                    accounts_pc # "failed"
             PROVE  IF GetAccount(line.account_id) = 0
                    THEN \A k \in EntriesOf(accounts_file) :
                           accounts_file[k].account_id # line.account_id
                    ELSE \E k \in EntriesOf(accounts_file) :
                           /\ accounts_file[k].account_id = line.account_id
                           /\ accounts_file[k].initial_balance =
                                accounts[GetAccount(line.account_id)].balance_centavos
  BY DEF LookupExact, EntriesOf
<1>1. PICK id \in Int : id = line.account_id
  BY EntryFields
<1>2. PICK slot : slot = GetAccount(id)
  OBVIOUS
<1>3. IF slot = 0 THEN \A i \in 1..Len(accounts) : accounts[i].account_id # id
      ELSE slot \in 1..Len(accounts) /\ accounts[slot].account_id = id
  BY <1>2, TheSlotOfAnAccount
<1>4. TableHoldsFile
  BY DEF TableIInv
<1>5. CASE slot = 0
  <2>1. ASSUME NEW k \in EntriesOf(accounts_file) PROVE accounts_file[k].account_id # id
    <3>1. PICK i \in 1..Len(accounts) : accounts[i] = AccountOf(accounts_file[k])
      BY <1>4 DEF TableHoldsFile
    <3> QED
      BY <3>1, <1>3, <1>5 DEF AccountOf
  <2> QED
    BY <2>1, <1>1, <1>2, <1>5
<1>6. CASE slot # 0
  <2>1. PICK k \in EntriesOf(accounts_file) : accounts[slot] = AccountOf(accounts_file[k])
    BY <1>3, <1>4, <1>6 DEF TableHoldsFile
  <2>2. /\ accounts_file[k].account_id = id
        /\ accounts_file[k].initial_balance = accounts[slot].balance_centavos
    BY <2>1, <1>3, <1>6 DEF AccountOf
  <2> QED
    BY <2>2, <1>1, <1>2, <1>6
<1> QED
  BY <1>5, <1>6

--------------------------------------------------------------------------------
(***************************************************************************)
(* The command line.                                                       *)
(***************************************************************************)
Values == STRING \cup {NULL}

ConfigType ==
  [accounts_file : Values, trace_file : Values, deadlock_mode : Values,
   tick_ms : 1..TICK_MS_MAX, verbose : BOOLEAN]

\* i is the last position of a set.
LastIn(i, S) == i \in S /\ \A j \in S : j <= i

\* The positions of an option among the first n arguments.
Seen(n, option) == {i \in 1..n : argv[i].opt = option}

\* A field that options with a value set.
SetBy(value, n, option) ==
  IF Seen(n, option) = {} THEN value = NULL
  ELSE \E i \in 1..n : LastIn(i, Seen(n, option)) /\ value = argv[i].value

\* After n arguments the configuration is what they ask for.
ConfigFollows(n) ==
  /\ \A i \in 1..n : ~Unusable(argv[i])
  /\ SetBy(config.accounts_file, n, "--accounts")
  /\ SetBy(config.trace_file, n, "--trace")
  /\ SetBy(config.deadlock_mode, n, "--deadlock")
  /\ IF Seen(n, "--tick-ms") = {} THEN config.tick_ms = DEFAULT_TICK_MS
     ELSE \E i \in 1..n : LastIn(i, Seen(n, "--tick-ms")) /\ config.tick_ms = argv[i].ms
  /\ config.verbose = TRUE <=> Seen(n, "--verbose") # {}

ArgsIInv ==
  /\ argv \in CommandLines \cup {<<>>}
  /\ arg_index \in 1..Len(argv) + 1
  /\ config \in ConfigType
  /\ flow_pc = "arguments" => ConfigFollows(arg_index - 1)

ArgsStep == ReadArgument \/ AcceptArguments \/ RefuseArguments

LEMMA ArgumentKinds ==
  ASSUME NEW arg \in ArgumentType
  PROVE  /\ arg.opt \in Options \cup {"--tick-ms", "--verbose", "unknown"}
         /\ arg.opt \in Options => arg.value \in STRING /\ arg.value # NULL
         /\ arg.opt = "--tick-ms" => arg.number \in BOOLEAN /\ arg.ms \in Int
<1>1. CASE arg \in [opt : Options, value : STRING \ {NULL}]
  BY <1>1 DEF Options
<1>2. CASE arg \in [opt : {"--tick-ms"}, number : BOOLEAN, ms : Int]
  BY <1>2 DEF Options
<1>3. CASE arg \in [opt : {"--verbose", "unknown"}]
  BY <1>3 DEF Options
<1> QED
  BY <1>1, <1>2, <1>3 DEF ArgumentType

LEMMA ArgvShape ==
  ASSUME argv \in CommandLines \cup {<<>>}
  PROVE  /\ argv \in Seq(ArgumentType)
         /\ Len(argv) \in Nat
         /\ \A i \in 1..Len(argv) : argv[i] \in ArgumentType
<1>1. argv \in Seq(ArgumentType)
  BY CommandLineAssumption, EmptySeq
<1> QED
  BY <1>1, LenProperties, ElementOfSeq

LEMMA ArgsStart == FlowInit => ArgsIInv
<1> SUFFICES ASSUME FlowInit PROVE ArgsIInv
  OBVIOUS
<1>1. argv \in CommandLines /\ arg_index = 1 /\ config = DefaultConfig
  BY DEF FlowInit
<1>2. Len(argv) \in Nat
  BY <1>1, ArgvShape
<1>3. config \in ConfigType
  BY <1>1, CommandLineAssumption DEF DefaultConfig, ConfigType, Values
<1>4. arg_index - 1 = 0 /\ 1..0 = {}
  BY <1>1
<1>5. \A option : Seen(0, option) = {}
  BY <1>4 DEF Seen
<1>6. ConfigFollows(0)
  BY <1>1, <1>4, <1>5 DEF ConfigFollows, SetBy, DefaultConfig
<1> QED
  BY <1>1, <1>2, <1>3, <1>4, <1>6 DEF ArgsIInv

\* One argument more is the last of its option.
LEMMA OneArgumentMore ==
  ASSUME NEW n \in Nat, NEW option
  PROVE  /\ argv[n + 1].opt = option =>
              /\ Seen(n + 1, option) # {}
              /\ LastIn(n + 1, Seen(n + 1, option))
         /\ argv[n + 1].opt # option =>
              /\ Seen(n + 1, option) = Seen(n, option)
<1>1. 1..n + 1 = 1..n \cup {n + 1} /\ \A i \in 1..n : i <= n + 1
  OBVIOUS
<1>2. ASSUME argv[n + 1].opt = option
      PROVE  Seen(n + 1, option) # {} /\ LastIn(n + 1, Seen(n + 1, option))
  <2>1. n + 1 \in Seen(n + 1, option)
    BY <1>2 DEF Seen
  <2>2. \A i \in Seen(n + 1, option) : i <= n + 1
    BY DEF Seen
  <2> QED
    BY <2>1, <2>2 DEF LastIn
<1>3. ASSUME argv[n + 1].opt # option PROVE Seen(n + 1, option) = Seen(n, option)
  BY <1>1, <1>3 DEF Seen
<1> QED
  BY <1>2, <1>3

\* The field of an option after one argument more.
LEMMA FieldAfterOneMore ==
  ASSUME NEW n \in Nat, NEW option, NEW old, NEW new,
         SetBy(old, n, option),
         IF argv[n + 1].opt = option THEN new = argv[n + 1].value ELSE new = old
  PROVE  SetBy(new, n + 1, option)
<1>1. 1..n \subseteq 1..n + 1 /\ n + 1 \in 1..n + 1
  OBVIOUS
<1>2. CASE argv[n + 1].opt = option
  BY <1>1, <1>2, OneArgumentMore DEF SetBy
<1>3. CASE argv[n + 1].opt # option
  BY <1>1, <1>3, OneArgumentMore DEF SetBy
<1> QED
  BY <1>2, <1>3

LEMMA ArgumentTaken ==
  ASSUME ArgsIInv, ReadArgument
  PROVE  ArgsIInv'
<1> DEFINE arg == argv[arg_index]
<1>0. PICK n : n = arg_index - 1
  OBVIOUS
<1>1. /\ flow_pc = "arguments" /\ arg_index <= Len(argv) /\ ~Unusable(arg)
      /\ config' = TakeArgument(config, arg)
      /\ arg_index' = arg_index + 1 /\ UNCHANGED <<argv, flow_pc>>
  BY DEF ReadArgument
<1>2. /\ argv \in CommandLines \cup {<<>>} /\ arg_index \in 1..Len(argv) + 1
      /\ config \in ConfigType /\ ConfigFollows(n)
  BY <1>0, <1>1 DEF ArgsIInv
<1>3. Len(argv) \in Nat /\ \A i \in 1..Len(argv) : argv[i] \in ArgumentType
  BY <1>2, ArgvShape
<1>4. n \in Nat /\ n + 1 = arg_index /\ arg_index' - 1 = n + 1 /\ arg_index \in 1..Len(argv)
      /\ arg_index' \in 1..Len(argv) + 1
  BY <1>0, <1>1, <1>2, <1>3
<1>5. arg \in ArgumentType
  BY <1>3, <1>4
<1>6. /\ arg.opt \in Options \cup {"--tick-ms", "--verbose", "unknown"}
      /\ arg.opt \in Options => arg.value \in STRING /\ arg.value # NULL
      /\ arg.opt = "--tick-ms" => arg.number \in BOOLEAN /\ arg.ms \in Int
  BY <1>5, ArgumentKinds
<1>7. arg.opt # "unknown" /\ (arg.opt = "--tick-ms" => arg.ms \in 1..TICK_MS_MAX)
  <2>1. arg.opt # "unknown" /\ (arg.opt = "--tick-ms" => TickAccepted(arg))
    BY <1>1 DEF Unusable
  <2>2. TICK_MS_MAX \in Nat
    BY CommandLineAssumption
  <2> QED
    BY <2>1, <2>2, <1>6 DEF TickAccepted
<1>8. arg.opt \in {"--accounts", "--trace", "--deadlock", "--tick-ms", "--verbose"}
  BY <1>6, <1>7 DEF Options
<1> HIDE DEF arg
<1>9. /\ config' \in ConfigType
      /\ config'.accounts_file = IF arg.opt = "--accounts" THEN arg.value ELSE config.accounts_file
      /\ config'.trace_file = IF arg.opt = "--trace" THEN arg.value ELSE config.trace_file
      /\ config'.deadlock_mode = IF arg.opt = "--deadlock" THEN arg.value ELSE config.deadlock_mode
      /\ config'.tick_ms = IF arg.opt = "--tick-ms" THEN arg.ms ELSE config.tick_ms
      /\ config'.verbose = IF arg.opt = "--verbose" THEN TRUE ELSE config.verbose
  <2>1. CASE arg.opt = "--accounts"
    <3>1. config' = [config EXCEPT !.accounts_file = arg.value] /\ arg.value \in Values
      BY <2>1, <1>1, <1>6 DEF TakeArgument, Options, Values
    <3> QED
      BY <2>1, <3>1, <1>2 DEF ConfigType
  <2>2. CASE arg.opt = "--trace"
    <3>1. config' = [config EXCEPT !.trace_file = arg.value] /\ arg.value \in Values
      BY <2>2, <1>1, <1>6 DEF TakeArgument, Options, Values
    <3> QED
      BY <2>2, <3>1, <1>2 DEF ConfigType
  <2>3. CASE arg.opt = "--deadlock"
    <3>1. config' = [config EXCEPT !.deadlock_mode = arg.value] /\ arg.value \in Values
      BY <2>3, <1>1, <1>6 DEF TakeArgument, Options, Values
    <3> QED
      BY <2>3, <3>1, <1>2 DEF ConfigType
  <2>4. CASE arg.opt = "--tick-ms"
    <3>1. config' = [config EXCEPT !.tick_ms = arg.ms] /\ arg.ms \in 1..TICK_MS_MAX
      BY <2>4, <1>1, <1>7 DEF TakeArgument
    <3> QED
      BY <2>4, <3>1, <1>2 DEF ConfigType
  <2>5. CASE arg.opt = "--verbose"
    <3>1. config' = [config EXCEPT !.verbose = TRUE]
      BY <2>5, <1>1 DEF TakeArgument
    <3> QED
      BY <2>5, <3>1, <1>2 DEF ConfigType
  <2> QED
    BY <1>8, <2>1, <2>2, <2>3, <2>4, <2>5
<1>10. argv[n + 1] = arg /\ 1..n \subseteq 1..n + 1 /\ 1..n + 1 = 1..n \cup {n + 1}
  BY <1>4 DEF arg
<1>11. \A i \in 1..n + 1 : ~Unusable(argv[i])
  BY <1>1, <1>2, <1>10 DEF ConfigFollows
<1>12. /\ SetBy(config'.accounts_file, n + 1, "--accounts")
       /\ SetBy(config'.trace_file, n + 1, "--trace")
       /\ SetBy(config'.deadlock_mode, n + 1, "--deadlock")
  <2>1. /\ SetBy(config.accounts_file, n, "--accounts")
        /\ SetBy(config.trace_file, n, "--trace")
        /\ SetBy(config.deadlock_mode, n, "--deadlock")
    BY <1>2 DEF ConfigFollows
  <2>2. SetBy(config'.accounts_file, n + 1, "--accounts")
    BY <2>1, <1>4, <1>9, <1>10, FieldAfterOneMore
  <2>3. SetBy(config'.trace_file, n + 1, "--trace")
    BY <2>1, <1>4, <1>9, <1>10, FieldAfterOneMore
  <2>4. SetBy(config'.deadlock_mode, n + 1, "--deadlock")
    BY <2>1, <1>4, <1>9, <1>10, FieldAfterOneMore
  <2> QED
    BY <2>2, <2>3, <2>4
<1>13. IF Seen(n + 1, "--tick-ms") = {} THEN config'.tick_ms = DEFAULT_TICK_MS
       ELSE \E i \in 1..n + 1 :
              LastIn(i, Seen(n + 1, "--tick-ms")) /\ config'.tick_ms = argv[i].ms
  <2>1. CASE arg.opt = "--tick-ms"
    BY <2>1, <1>4, <1>9, <1>10, OneArgumentMore
  <2>2. CASE arg.opt # "--tick-ms"
    <3>1. Seen(n + 1, "--tick-ms") = Seen(n, "--tick-ms") /\ config'.tick_ms = config.tick_ms
      BY <2>2, <1>4, <1>9, <1>10, OneArgumentMore
    <3> QED
      BY <3>1, <1>2, <1>10 DEF ConfigFollows
  <2> QED
    BY <2>1, <2>2
<1>14. config'.verbose = TRUE <=> Seen(n + 1, "--verbose") # {}
  <2>1. CASE arg.opt = "--verbose"
    BY <2>1, <1>4, <1>9, <1>10, OneArgumentMore
  <2>2. CASE arg.opt # "--verbose"
    <3>1. Seen(n + 1, "--verbose") = Seen(n, "--verbose") /\ config'.verbose = config.verbose
      BY <2>2, <1>4, <1>9, <1>10, OneArgumentMore
    <3> QED
      BY <3>1, <1>2 DEF ConfigFollows
  <2> QED
    BY <2>1, <2>2
<1>15. ConfigFollows(n + 1)'
  BY <1>1, <1>11, <1>12, <1>13, <1>14 DEF ConfigFollows, SetBy, Seen, LastIn
<1> QED
  BY <1>1, <1>2, <1>4, <1>9, <1>15 DEF ArgsIInv

LEMMA ArgsKept == ArgsIInv /\ [FlowNext]_flowVars => ArgsIInv'
<1> SUFFICES ASSUME ArgsIInv, [FlowNext]_flowVars PROVE ArgsIInv'
  OBVIOUS
<1>1. CASE ReadArgument
  BY <1>1, ArgumentTaken
<1>2. CASE AcceptArguments
  BY <1>2, EmptySeq DEF AcceptArguments, Step, ArgsIInv
<1>3. CASE /\ UNCHANGED <<argv, arg_index, config>>
           /\ flow_pc' = "arguments" => flow_pc = "arguments"
  BY <1>3 DEF ArgsIInv, ConfigFollows, SetBy, Seen, LastIn
<1>4. CASE RefuseArguments
  BY <1>3, <1>4 DEF RefuseArguments, Step
<1>5. CASE LoadAccounts \/ LoadTrace \/ UNCHANGED flowVars
  BY <1>3, <1>5 DEF LoadAccounts, LoadTrace, flowVars, frameVars
<1>6. CASE \/ AccountsFailed \/ InitAccountLocks \/ TraceFailed \/ InitPoolAndTimer
           \/ Simulate \/ NoTimerThread \/ CleanupTimer \/ CleanupBank \/ FlowTerminated
  BY <1>3, <1>6 DEF AccountsFailed, InitAccountLocks, TraceFailed, InitPoolAndTimer, Simulate,
                    NoTimerThread, CleanupTimer, CleanupBank, FlowTerminated, Step, flowVars, frameVars
<1> QED
  BY <1>1, <1>2, <1>4, <1>5, <1>6 DEF FlowNext

LEMMA LastIsMax ==
  ASSUME NEW n \in Nat, NEW S \in SUBSET (1..n), NEW i, LastIn(i, S)
  PROVE  Max(S) = i
<1>0. \A x \in S : x \in Int
  OBVIOUS
<1>1. i \in S /\ \A j \in S : i >= j
  BY <1>0 DEF LastIn
<1>2. \E x \in S : \A y \in S : x >= y
  BY <1>1
<1>3. PICK m : m = Max(S)
  OBVIOUS
<1>4. m \in S /\ \A y \in S : m >= y
  BY <1>2, <1>3 DEF Max
<1>5. m >= i /\ i >= m /\ m \in Int /\ i \in Int
  BY <1>0, <1>1, <1>4
<1> QED
  BY <1>3, <1>5

\* After the last argument a field has the value that counts, if any.
LEMMA FieldAtTheEnd ==
  ASSUME argv \in CommandLines \cup {<<>>}, NEW option \in Options, NEW value,
         SetBy(value, Len(argv), option)
  PROVE  /\ value # NULL <=> Given(argv, option)
         /\ value # NULL => value = Effective(argv, option).value
<1>1. Len(argv) \in Nat /\ \A i \in 1..Len(argv) : argv[i] \in ArgumentType
  BY ArgvShape
<1>2. Seen(Len(argv), option) = Settings(argv, option)
  BY DEF Seen, Settings
<1>3. CASE Seen(Len(argv), option) = {}
  BY <1>2, <1>3 DEF SetBy, Given
<1>4. CASE Seen(Len(argv), option) # {}
  <2>1. PICK i \in 1..Len(argv) : LastIn(i, Seen(Len(argv), option)) /\ value = argv[i].value
    BY <1>4 DEF SetBy
  <2>2. argv[i].opt = option
    BY <2>1 DEF LastIn, Seen
  <2>3. value # NULL
    BY <2>1, <2>2, <1>1, ArgumentKinds
  <2>4. Settings(argv, option) \in SUBSET (1..Len(argv))
    BY DEF Settings
  <2>5. Max(Settings(argv, option)) = i
    BY <2>1, <2>4, <1>1, <1>2, LastIsMax
  <2> QED
    BY <2>1, <2>3, <2>5, <1>2, <1>4 DEF Given, Effective
<1> QED
  BY <1>3, <1>4

LEMMA TickAtTheEnd ==
  ASSUME argv \in CommandLines \cup {<<>>}, ConfigFollows(Len(argv))
  PROVE  config.tick_ms = IF Given(argv, "--tick-ms")
                          THEN Effective(argv, "--tick-ms").ms ELSE DEFAULT_TICK_MS
<1>1. Len(argv) \in Nat
  BY ArgvShape
<1>2. Seen(Len(argv), "--tick-ms") = Settings(argv, "--tick-ms")
  BY DEF Seen, Settings
<1>3. CASE Seen(Len(argv), "--tick-ms") = {}
  BY <1>2, <1>3 DEF ConfigFollows, Given
<1>4. CASE Seen(Len(argv), "--tick-ms") # {}
  <2>1. PICK i \in 1..Len(argv) :
          LastIn(i, Seen(Len(argv), "--tick-ms")) /\ config.tick_ms = argv[i].ms
    BY <1>4 DEF ConfigFollows
  <2>2. Settings(argv, "--tick-ms") \in SUBSET (1..Len(argv))
    BY DEF Settings
  <2>3. Max(Settings(argv, "--tick-ms")) = i
    BY <2>1, <2>2, <1>1, <1>2, LastIsMax
  <2> QED
    BY <2>1, <2>3, <1>2, <1>4 DEF Given, Effective
<1> QED
  BY <1>3, <1>4

\* The command line was read to its end and accepted.
LEMMA AcceptedArguments ==
  ASSUME ArgsIInv, AcceptArguments
  PROVE  AcceptableArguments(argv) /\ config = AskedFor(argv)
<1>1. /\ arg_index > Len(argv) /\ Complete(config) /\ flow_pc = "arguments"
  BY DEF AcceptArguments, Step
<1>2. /\ argv \in CommandLines \cup {<<>>} /\ arg_index \in 1..Len(argv) + 1
      /\ config \in ConfigType /\ ConfigFollows(arg_index - 1)
  BY <1>1 DEF ArgsIInv
<1>3. Len(argv) \in Nat /\ \A i \in 1..Len(argv) : argv[i] \in ArgumentType
  BY <1>2, ArgvShape
<1>4. arg_index - 1 = Len(argv)
  BY <1>1, <1>2, <1>3
<1>5. ConfigFollows(Len(argv))
  BY <1>2, <1>4
<1>6. /\ config.accounts_file # NULL /\ config.trace_file # NULL /\ config.deadlock_mode # NULL
      /\ config.deadlock_mode = "prevention"
  BY <1>1 DEF Complete
<1>7. /\ Given(argv, "--accounts") /\ config.accounts_file = Effective(argv, "--accounts").value
      /\ Given(argv, "--trace") /\ config.trace_file = Effective(argv, "--trace").value
      /\ Given(argv, "--deadlock") /\ config.deadlock_mode = Effective(argv, "--deadlock").value
  BY <1>2, <1>5, <1>6, FieldAtTheEnd DEF ConfigFollows, Options
<1>8. ~Given(argv, "unknown")
  BY <1>5 DEF ConfigFollows, Unusable, Given, Settings
<1>9. ASSUME NEW i \in Settings(argv, "--tick-ms")
      PROVE  argv[i].number /\ argv[i].ms \in 1..TICK_MS_MAX
  <2>1. i \in 1..Len(argv) /\ argv[i].opt = "--tick-ms"
    BY DEF Settings
  <2>2. TickAccepted(argv[i])
    BY <2>1, <1>5 DEF ConfigFollows, Unusable
  <2>3. argv[i].ms \in Int
    BY <2>1, <1>3, ArgumentKinds
  <2>4. TICK_MS_MAX \in Nat
    BY CommandLineAssumption
  <2> QED
    BY <2>2, <2>3, <2>4 DEF TickAccepted
<1>10. AcceptableArguments(argv)
  BY <1>6, <1>7, <1>8, <1>9 DEF AcceptableArguments, Options
<1>11. config.verbose = Given(argv, "--verbose")
  <2>1. config.verbose \in BOOLEAN
    BY <1>2 DEF ConfigType
  <2>2. config.verbose = TRUE <=> Given(argv, "--verbose")
    BY <1>5 DEF ConfigFollows, Seen, Given, Settings
  <2>3. Given(argv, "--verbose") \in BOOLEAN
    BY DEF Given
  <2> QED
    BY <2>1, <2>2, <2>3
<1>12. config.tick_ms = IF Given(argv, "--tick-ms")
                        THEN Effective(argv, "--tick-ms").ms ELSE DEFAULT_TICK_MS
  BY <1>2, <1>5, TickAtTheEnd
<1>13. config = [accounts_file |-> config.accounts_file, trace_file |-> config.trace_file,
                 deadlock_mode |-> config.deadlock_mode, tick_ms |-> config.tick_ms,
                 verbose |-> config.verbose]
  BY <1>2 DEF ConfigType
<1>14. config = AskedFor(argv)
  BY <1>7, <1>11, <1>12, <1>13 DEF AskedFor
<1> QED
  BY <1>10, <1>14

LEMMA RefusedArguments ==
  ASSUME ArgsIInv, RefuseArguments
  PROVE  ~AcceptableArguments(argv)
<1> SUFFICES ASSUME AcceptableArguments(argv) PROVE FALSE
  OBVIOUS
<1>1. /\ flow_pc = "arguments"
      /\ IF arg_index <= Len(argv) THEN Unusable(argv[arg_index]) ELSE ~Complete(config)
  BY DEF RefuseArguments, Step
<1>2. /\ argv \in CommandLines \cup {<<>>} /\ arg_index \in 1..Len(argv) + 1
      /\ config \in ConfigType /\ ConfigFollows(arg_index - 1)
  BY <1>1 DEF ArgsIInv
<1>3. Len(argv) \in Nat /\ TICK_MS_MAX \in Nat
  BY <1>2, ArgvShape, CommandLineAssumption
<1>4. CASE arg_index <= Len(argv)
  <2>1. arg_index \in 1..Len(argv) /\ Unusable(argv[arg_index])
    BY <1>1, <1>2, <1>3, <1>4
  <2>2. CASE argv[arg_index].opt = "unknown"
    BY <2>1, <2>2 DEF AcceptableArguments, Given, Settings
  <2>3. CASE argv[arg_index].opt = "--tick-ms" /\ ~TickAccepted(argv[arg_index])
    <3>1. argv[arg_index].number /\ argv[arg_index].ms \in 1..TICK_MS_MAX
      BY <2>1, <2>3 DEF AcceptableArguments, Settings
    <3> QED
      BY <2>3, <3>1, <1>3 DEF TickAccepted
  <2> QED
    BY <2>1, <2>2, <2>3 DEF Unusable
<1>5. CASE ~(arg_index <= Len(argv))
  <2>1. arg_index - 1 = Len(argv)
    BY <1>2, <1>3, <1>5
  <2>2. ConfigFollows(Len(argv)) /\ ~Complete(config)
    BY <1>1, <1>2, <1>5, <2>1
  <2>3. /\ Given(argv, "--accounts") /\ Given(argv, "--trace") /\ Given(argv, "--deadlock")
        /\ Effective(argv, "--deadlock").value = "prevention"
    BY DEF AcceptableArguments, Options
  <2>4. /\ config.accounts_file # NULL /\ config.trace_file # NULL /\ config.deadlock_mode # NULL
        /\ config.deadlock_mode = "prevention"
    BY <1>2, <2>2, <2>3, FieldAtTheEnd DEF ConfigFollows, Options
  <2>5. config.tick_ms > 0
    BY <1>2, <1>3 DEF ConfigType
  <2> QED
    BY <2>2, <2>4, <2>5 DEF Complete
<1> QED
  BY <1>4, <1>5

\* What the one step that leaves the arguments decides.
LEMMA ArgumentsDecided ==
  ArgsIInv /\ [FlowNext]_flowVars =>
    (flow_pc = "arguments" /\ flow_pc' # "arguments" =>
       IF AcceptableArguments(argv)
       THEN flow_pc' = "accounts" /\ config' = AskedFor(argv)
       ELSE flow_pc' = "exited")
<1> SUFFICES ASSUME ArgsIInv, [FlowNext]_flowVars, flow_pc = "arguments", flow_pc' # "arguments"
             PROVE  IF AcceptableArguments(argv)
                    THEN flow_pc' = "accounts" /\ config' = AskedFor(argv)
                    ELSE flow_pc' = "exited"
  OBVIOUS
<1>1. AcceptArguments \/ RefuseArguments
  <2>1. ~(LoadAccounts \/ LoadTrace \/ UNCHANGED flowVars \/ ReadArgument)
    BY DEF LoadAccounts, LoadTrace, flowVars, frameVars, ReadArgument
  <2>2. ~(\/ AccountsFailed \/ InitAccountLocks \/ TraceFailed \/ InitPoolAndTimer
          \/ Simulate \/ NoTimerThread \/ CleanupTimer \/ CleanupBank \/ FlowTerminated)
    BY DEF AccountsFailed, InitAccountLocks, TraceFailed, InitPoolAndTimer, Simulate,
           NoTimerThread, CleanupTimer, CleanupBank, FlowTerminated, Step
  <2> QED
    BY <2>1, <2>2 DEF FlowNext
<1>2. CASE AcceptArguments
  BY <1>2, AcceptedArguments DEF AcceptArguments, Step
<1>3. CASE RefuseArguments
  BY <1>3, RefusedArguments DEF RefuseArguments, Step
<1> QED
  BY <1>1, <1>2, <1>3

--------------------------------------------------------------------------------
(***************************************************************************)
(* The trace.                                                              *)
(***************************************************************************)
TxType == [tx_id : Int, start_tick : Nat, ops : Seq(OperationType)]

OpsOf(file) == {k \in 1..Len(file) : file[k].kind = "operation"}

IdsOf(file) == {file[k].tx_id : k \in OpsOf(file)}

FirstIn(k, S) == k \in S /\ \A l \in S : k <= l

\* The operations are those of the positions S of the file, in their order.
OpsAre(operations, file, S) ==
  /\ Len(operations) = Cardinality(S)
  /\ \A k \in S : operations[Cardinality(S \cap 1..k)] = Operation(file[k])

TraceShape ==
  /\ transactions \in Seq(TxType)
  /\ trace \in Seq(TraceLines)
  /\ trace_pc \in {"unopened", "reading", "parsed", "failed"}
  /\ trace_fp \in {"none", "open", "closed"}

TraceStream ==
  /\ trace_pc = "unopened" => trace_fp = "none"
  /\ trace_pc = "reading" => trace_fp = "open"
  /\ trace_pc = "parsed" => trace_fp = "closed"
  /\ trace_pc = "failed" => trace_fp # "open"

\* Every operation of the trace is in its transaction.
LinesPlaced ==
  /\ \A k \in 1..Len(trace) : trace[k].kind # "malformed"
  /\ \A k \in OpsOf(trace) :
       /\ trace[k].op_str \in OpTypes /\ Len(trace[k].args) >= Operands(trace[k].op_str)
       /\ \E i \in 1..Len(transactions) : /\ transactions[i].tx_id = trace[k].tx_id
                                          /\ transactions[i].start_tick = trace[k].start_tick

\* A transaction holds its own operations, and they start after those of the
\* transactions before it.
OperationsOwn ==
  /\ \A i \in 1..Len(transactions) :
       /\ OpsAre(transactions[i].ops, trace, LinesOf(trace, transactions[i].tx_id))
       /\ \E k \in 1..Len(trace) : FirstIn(k, LinesOf(trace, transactions[i].tx_id))
  /\ \A i, j \in 1..Len(transactions) : i < j =>
       \E k \in LinesOf(trace, transactions[i].tx_id) :
         \A l \in LinesOf(trace, transactions[j].tx_id) : k < l

TransactionsHoldTrace ==
  /\ LinesPlaced /\ OperationsOwn
  /\ IsFiniteSet(IdsOf(trace)) /\ Cardinality(IdsOf(trace)) = Len(transactions)

TraceIInv ==
  /\ TraceShape /\ TraceStream
  /\ trace_pc # "failed" => TransactionsWellFormed /\ TransactionsHoldTrace
  /\ trace_pc = "failed" /\ trace_fp # "none" => ~AcceptableTrace(trace)

TraceStep == OpenTrace \/ TraceUnreadable \/ TraceNext

LEMMA TraceLineFields ==
  ASSUME NEW line \in TraceLines
  PROVE  /\ line.kind \in {"skip", "malformed", "operation"}
         /\ line.kind = "operation" =>
              line.tx_id \in Int /\ line.start_tick \in Int /\ line.args \in Seq(Int)
<1>1. line \in TraceLineType
  BY TraceParserAssumption
<1>2. CASE line \in [kind : {"skip", "malformed"}]
  BY <1>2
<1>3. CASE line \in [kind : {"operation"}, tx_id : Int, start_tick : Int, op_str : STRING,
                    args : Seq(Int)]
  BY <1>3
<1> QED
  BY <1>1, <1>2, <1>3 DEF TraceLineType

LEMMA TransactionFields ==
  ASSUME TraceShape
  PROVE  /\ Len(transactions) \in Nat
         /\ \A i \in 1..Len(transactions) :
              /\ transactions[i] \in TxType
              /\ transactions[i].tx_id \in Int /\ transactions[i].start_tick \in Nat
              /\ transactions[i].ops \in Seq(OperationType)
<1>1. Len(transactions) \in Nat /\ \A i \in 1..Len(transactions) : transactions[i] \in TxType
  BY LenProperties, ElementOfSeq DEF TraceShape
<1> QED
  BY <1>1 DEF TxType

\* find_or_create_transaction finds the one transaction of the ID, or none.
LEMMA PositionOf ==
  ASSUME TraceShape, TransactionsWellFormed, NEW id
  PROVE  \/ /\ Position(id) \in 1..Len(transactions)
            /\ transactions[Position(id)].tx_id = id
         \/ /\ Position(id) = Len(transactions) + 1
            /\ \A i \in 1..Len(transactions) : transactions[i].tx_id # id
<1> DEFINE Same == {i \in 1..Len(transactions) : transactions[i].tx_id = id}
<1>1. Len(transactions) \in Nat
  BY TransactionFields
<1>2. CASE Same = {}
  BY <1>2 DEF Position
<1>3. CASE Same # {}
  <2>1. PICK i \in Same : TRUE
    BY <1>3
  <2>2. \A j \in Same : j = i
    BY <2>1 DEF TransactionsWellFormed
  <2>3. \E x \in Same : \A y \in Same : x =< y
    BY <2>1, <2>2, <1>1
  <2>4. Min(Same) \in Same
    BY <2>3 DEF Min
  <2>5. Position(id) = Min(Same)
    BY <1>3 DEF Position
  <2> QED
    BY <2>4, <2>5
<1> QED
  BY <1>2, <1>3

\* The lines of a transaction in a file with a line more.
LEMMA LinesGrow ==
  ASSUME NEW file \in Seq(TraceLines), NEW line \in TraceLines, NEW id
  PROVE  /\ LinesOf(file, id) \in SUBSET (1..Len(file))
         /\ IsFiniteSet(LinesOf(file, id)) /\ Cardinality(LinesOf(file, id)) \in Nat
         /\ line.kind = "operation" /\ line.tx_id = id =>
              /\ LinesOf(Append(file, line), id) = LinesOf(file, id) \cup {Len(file) + 1}
              /\ Cardinality(LinesOf(Append(file, line), id)) = Cardinality(LinesOf(file, id)) + 1
         /\ ~(line.kind = "operation" /\ line.tx_id = id) =>
              LinesOf(Append(file, line), id) = LinesOf(file, id)
<1> DEFINE new == Append(file, line)
<1>1. /\ Len(file) \in Nat
      /\ 1..Len(new) = 1..Len(file) \cup {Len(file) + 1}
      /\ Len(file) + 1 \notin 1..Len(file)
      /\ \A k \in 1..Len(file) : new[k] = file[k]
      /\ new[Len(file) + 1] = line
  BY OneLineMore
<1>2. LinesOf(file, id) \in SUBSET (1..Len(file))
  BY DEF LinesOf
<1>3. /\ IsFiniteSet(LinesOf(file, id)) /\ Cardinality(LinesOf(file, id)) \in Nat
      /\ Cardinality(LinesOf(file, id) \cup {Len(file) + 1}) = Cardinality(LinesOf(file, id)) + 1
  BY <1>1, <1>2, OnePositionMore
<1> HIDE DEF new
<1>4. ASSUME line.kind = "operation" /\ line.tx_id = id
      PROVE  LinesOf(new, id) = LinesOf(file, id) \cup {Len(file) + 1}
  BY <1>1, <1>4 DEF LinesOf
<1>5. ASSUME ~(line.kind = "operation" /\ line.tx_id = id)
      PROVE  LinesOf(new, id) = LinesOf(file, id)
  BY <1>1, <1>5 DEF LinesOf
<1> QED
  BY <1>2, <1>3, <1>4, <1>5 DEF new

\* A line that is no operation changes no set of positions.
LEMMA OpsGrow ==
  ASSUME NEW file \in Seq(TraceLines), NEW line \in TraceLines
  PROVE  /\ OpsOf(file) \in SUBSET (1..Len(file))
         /\ line.kind = "operation" =>
              /\ OpsOf(Append(file, line)) = OpsOf(file) \cup {Len(file) + 1}
              /\ IdsOf(Append(file, line)) = IdsOf(file) \cup {line.tx_id}
         /\ line.kind # "operation" =>
              /\ OpsOf(Append(file, line)) = OpsOf(file)
              /\ IdsOf(Append(file, line)) = IdsOf(file)
<1> DEFINE new == Append(file, line)
<1>1. /\ Len(file) \in Nat
      /\ 1..Len(new) = 1..Len(file) \cup {Len(file) + 1}
      /\ Len(file) + 1 \notin 1..Len(file)
      /\ \A k \in 1..Len(file) : new[k] = file[k]
      /\ new[Len(file) + 1] = line
  BY OneLineMore
<1> HIDE DEF new
<1>2. OpsOf(file) \in SUBSET (1..Len(file))
  BY DEF OpsOf
<1>3. ASSUME line.kind = "operation"
      PROVE  /\ OpsOf(new) = OpsOf(file) \cup {Len(file) + 1}
             /\ IdsOf(new) = IdsOf(file) \cup {line.tx_id}
  <2>1. OpsOf(new) = OpsOf(file) \cup {Len(file) + 1}
    BY <1>1, <1>3 DEF OpsOf
  <2>2. \A k \in OpsOf(file) : new[k].tx_id = file[k].tx_id
    BY <1>1, <1>2
  <2> QED
    BY <2>1, <2>2, <1>1 DEF IdsOf
<1>4. ASSUME line.kind # "operation"
      PROVE  OpsOf(new) = OpsOf(file) /\ IdsOf(new) = IdsOf(file)
  <2>1. OpsOf(new) = OpsOf(file)
    BY <1>1, <1>4 DEF OpsOf
  <2>2. \A k \in OpsOf(file) : new[k].tx_id = file[k].tx_id
    BY <1>1, <1>2
  <2> QED
    BY <2>1, <2>2 DEF IdsOf
<1> QED
  BY <1>2, <1>3, <1>4 DEF new

LEMMA OperationTyped ==
  ASSUME NEW line \in TraceLines, line.kind = "operation",
         line.op_str \in OpTypes, Len(line.args) >= Operands(line.op_str)
  PROVE  Operation(line) \in OperationType
<1>1. line.args \in Seq(Int)
  BY TraceLineFields
<1>2. Len(line.args) \in Nat /\ \A i \in 1..Len(line.args) : line.args[i] \in Int
  BY <1>1, LenProperties, ElementOfSeq
<1>3. PICK type : type = line.op_str
  OBVIOUS
<1>4. Operands(type) \in 1..3 /\ (type = "TRANSFER" => Operands(type) = 3)
  BY DEF Operands
<1>5. 1 \in 1..Len(line.args) /\ Operands(type) \in 1..Len(line.args)
  BY <1>2, <1>3, <1>4
<1>6. type = "TRANSFER" => 2 \in 1..Len(line.args)
  BY <1>2, <1>3, <1>4
<1>7. /\ line.args[1] \in Int /\ line.args[Operands(type)] \in Int
      /\ type = "TRANSFER" => line.args[2] \in Int
  BY <1>2, <1>5, <1>6
<1>8. NoAccount \in Int
  BY DEF NoAccount
<1> QED
  BY <1>3, <1>7, <1>8 DEF Operation, OperationType

\* A line of another transaction changes nothing about a transaction's own.
LEMMA OpsStay ==
  ASSUME NEW file, NEW new, NEW n \in Nat, NEW S \in SUBSET (1..n), NEW operations,
         \A k \in 1..n : new[k] = file[k], OpsAre(operations, file, S)
  PROVE  OpsAre(operations, new, S)
BY DEF OpsAre

\* Its own line's operation goes to the end.
LEMMA OpsGrowToo ==
  ASSUME NEW file, NEW new, NEW n \in Nat, NEW S \in SUBSET (1..n),
         NEW operations \in Seq(OperationType), NEW op \in OperationType,
         \A k \in 1..n : new[k] = file[k], op = Operation(new[n + 1]),
         OpsAre(operations, file, S)
  PROVE  OpsAre(Append(operations, op), new, S \cup {n + 1})
<1> DEFINE More == S \cup {n + 1}
           longer == Append(operations, op)
<1>1. IsFiniteSet(S) /\ Cardinality(S) \in Nat /\ Cardinality(More) = Cardinality(S) + 1
  BY OnePositionMore
<1>2. /\ Len(operations) = Cardinality(S) /\ Len(longer) = Len(operations) + 1
      /\ \A i \in 1..Len(operations) : longer[i] = operations[i]
      /\ longer[Len(operations) + 1] = op
  BY AppendProperties DEF OpsAre
<1> HIDE DEF longer
<1>3. ASSUME NEW k \in S PROVE longer[Cardinality(More \cap 1..k)] = Operation(new[k])
  <2>1. k \in 1..n
    OBVIOUS
  <2>2. More \cap 1..k = S \cap 1..k
    BY <2>1
  <2>3. PICK c : c = Cardinality(S \cap 1..k)
    OBVIOUS
  <2>4. c \in Nat /\ c <= Cardinality(S)
    BY <1>1, <2>3, FS_Subset, FS_CardinalityType
  <2>5. c # 0
    <3>1. IsFiniteSet(S \cap 1..k) /\ k \in S \cap 1..k
      BY <1>1, <2>1, FS_Subset
    <3> QED
      BY <3>1, <2>3, FS_EmptySet
  <2>6. c \in 1..Len(operations)
    BY <1>1, <1>2, <2>4, <2>5
  <2>7. longer[c] = operations[c] /\ operations[c] = Operation(file[k])
    BY <1>2, <2>3, <2>6 DEF OpsAre
  <2> QED
    BY <2>1, <2>2, <2>3, <2>7
<1>4. longer[Cardinality(More \cap 1..n + 1)] = Operation(new[n + 1])
  <2>1. \A k \in More : k \in 1..n + 1
    OBVIOUS
  <2>2. More \cap 1..n + 1 = More
    BY <2>1
  <2> QED
    BY <2>2, <1>1, <1>2
<1>5. Len(longer) = Cardinality(More)
  BY <1>1, <1>2
<1> QED
  BY <1>3, <1>4, <1>5 DEF OpsAre, longer

\* What an accepted line makes of the array: transaction p, which may be new,
\* gets one operation more, and nothing else changes.
AddsTo(p, old, line) ==
  /\ Len(transactions') = (IF p \in 1..Len(transactions) THEN Len(transactions) ELSE p)
  /\ transactions'[p] = [tx_id |-> line.tx_id, start_tick |-> line.start_tick,
                         ops |-> Append(old, Operation(line))]
  /\ \A i \in 1..Len(transactions) : i # p => transactions'[i] = transactions[i]
  /\ \/ /\ p \in 1..Len(transactions)
        /\ transactions[p] = [tx_id |-> line.tx_id, start_tick |-> line.start_tick, ops |-> old]
     \/ /\ p = Len(transactions) + 1 /\ old = <<>>
        /\ \A i \in 1..Len(transactions) : transactions[i].tx_id # line.tx_id

LEMMA LineAccepted ==
  ASSUME TraceIInv, NEW line \in TraceLines, AppendOperation(line)
  PROVE  /\ trace_pc = "reading" /\ line.kind = "operation" /\ trace' = Append(trace, line)
         /\ UNCHANGED <<trace_pc, trace_fp>>
         /\ line.start_tick \in Nat /\ line.tx_id \in Int
         /\ Position(line.tx_id) <= MAX_TRANSACTIONS /\ SameTick(line)
         /\ line.op_str \in OpTypes /\ Len(line.args) >= Operands(line.op_str)
         /\ ~(Len(Found(line).ops) >= MAX_OPS_PER_TX)
<1>1. /\ trace_pc = "reading" /\ line.kind = "operation" /\ trace' = Append(trace, line)
      /\ UNCHANGED <<trace_pc, trace_fp>> /\ ~Rejected(line)
  BY DEF AppendOperation, ReadLine
<1>2. line.tx_id \in Int /\ line.start_tick \in Int /\ line.args \in Seq(Int)
  BY <1>1, TraceLineFields
<1>3. /\ ~(line.start_tick < 0) /\ ~(Position(line.tx_id) > MAX_TRANSACTIONS)
      /\ SameTick(line) /\ line.op_str \in OpTypes /\ ~(Len(line.args) < Operands(line.op_str))
      /\ ~OpsFull(Found(line))
  BY <1>1 DEF Rejected
<1>4. Position(line.tx_id) <= MAX_TRANSACTIONS
  <2>1. Position(line.tx_id) \in Int
    BY <1>1, PositionOf, TransactionFields DEF TraceIInv
  <2> QED
    BY <2>1, <1>3, TraceParserAssumption
<1>5. Len(line.args) >= Operands(line.op_str)
  <2>1. Len(line.args) \in Nat /\ Operands(line.op_str) \in Nat
    BY <1>2, LenProperties DEF Operands
  <2> QED
    BY <2>1, <1>3
<1> QED
  BY <1>1, <1>2, <1>3, <1>4, <1>5 DEF OpsFull

LEMMA MaxOfTwo ==
  ASSUME NEW a \in Nat, NEW b \in Nat
  PROVE  Max({a, b}) = IF b <= a THEN a ELSE b
<1>1. \E x \in {a, b} : \A y \in {a, b} : x >= y
  OBVIOUS
<1>2. PICK m : m = Max({a, b})
  OBVIOUS
<1>3. m \in {a, b} /\ \A y \in {a, b} : m >= y
  BY <1>1, <1>2 DEF Max
<1> QED
  BY <1>2, <1>3

LEMMA OperationAdded ==
  ASSUME TraceIInv, NEW line \in TraceLines, AppendOperation(line)
  PROVE  \E p \in 1..Len(transactions) + 1 : \E old \in Seq(OperationType) :
           /\ AddsTo(p, old, line) /\ transactions' \in Seq(TxType)
           /\ p <= MAX_TRANSACTIONS /\ ~(Len(old) >= MAX_OPS_PER_TX)
<1> DEFINE tx == Found(line)
           p == Position(line.tx_id)
           m == Len(transactions)
           longer == [tx EXCEPT !.ops = Append(@, Operation(line))]
<1>1. /\ line.start_tick \in Nat /\ line.tx_id \in Int
      /\ p <= MAX_TRANSACTIONS /\ tx.start_tick = line.start_tick
      /\ ~(Len(tx.ops) >= MAX_OPS_PER_TX)
      /\ Operation(line) \in OperationType
  BY LineAccepted, OperationTyped DEF SameTick
<1>2. transactions' = [i \in 1..Max({m, p}) |-> IF i = p THEN longer ELSE transactions[i]]
  BY DEF AppendOperation
<1>3. m \in Nat /\ \A i \in 1..m : transactions[i] \in TxType
  BY TransactionFields DEF TraceIInv
<1>4. \/ p \in 1..m /\ transactions[p].tx_id = line.tx_id
      \/ p = m + 1 /\ \A i \in 1..m : transactions[i].tx_id # line.tx_id
  BY LineAccepted, PositionOf DEF TraceIInv
<1>5. tx \in TxType /\ tx.tx_id = line.tx_id
      /\ (p \in 1..m => tx = transactions[p]) /\ (p = m + 1 => tx.ops = <<>>)
  <2>1. CASE p \in 1..m /\ transactions[p].tx_id = line.tx_id
    <3>1. ~(p > m) /\ p # m + 1
      BY <2>1, <1>3
    <3>2. tx = transactions[p]
      BY <3>1 DEF Found
    <3> QED
      BY <2>1, <3>1, <3>2, <1>3
  <2>2. CASE p = m + 1
    <3>1. p > m /\ p \notin 1..m
      BY <2>2, <1>3
    <3>2. tx = [tx_id |-> line.tx_id, start_tick |-> line.start_tick, ops |-> <<>>]
      BY <3>1 DEF Found, NewTransaction
    <3> QED
      BY <3>1, <3>2, <1>1, EmptySeq DEF TxType
  <2> QED
    BY <1>4, <2>1, <2>2
<1> HIDE DEF tx, p, longer
<1>6. PICK old : old = tx.ops
  OBVIOUS
<1>7. /\ old \in Seq(OperationType)
      /\ tx = [tx_id |-> line.tx_id, start_tick |-> line.start_tick, ops |-> old]
  BY <1>1, <1>5, <1>6 DEF TxType
<1>8. Append(old, Operation(line)) \in Seq(OperationType)
  BY <1>1, <1>7, AppendProperties
<1>9. longer = [tx_id |-> line.tx_id, start_tick |-> line.start_tick,
                ops |-> Append(old, Operation(line))]
  <2>1. PICK more : more = Append(tx.ops, Operation(line))
    OBVIOUS
  <2>2. longer = [tx EXCEPT !.ops = more]
    BY <2>1 DEF longer
  <2>3. longer = [tx_id |-> tx.tx_id, start_tick |-> tx.start_tick, ops |-> more]
    BY <2>2, <1>5 DEF TxType
  <2> QED
    BY <2>1, <2>3, <1>1, <1>5, <1>6
<1>10. longer \in TxType
  BY <1>1, <1>8, <1>9 DEF TxType
<1>11. p \in 1..m + 1 /\ p \in Nat /\ (p \in 1..m \/ p = m + 1)
  BY <1>3, <1>4
<1>12. PICK size \in Nat : size = (IF p \in 1..m THEN m ELSE p) /\ size = Max({m, p})
  <2>1. Max({m, p}) = IF p <= m THEN m ELSE p
    BY <1>3, <1>11, MaxOfTwo
  <2>2. p \in 1..m <=> p <= m
    BY <1>3, <1>11
  <2> QED
    BY <2>1, <2>2, <1>3, <1>11
<1>13. transactions' = [i \in 1..size |-> IF i = p THEN longer ELSE transactions[i]]
  BY <1>2, <1>12
<1>14. p \in 1..size /\ (\A i \in 1..m : i \in 1..size) /\ (\A i \in 1..size : i # p => i \in 1..m)
  BY <1>3, <1>11, <1>12
<1>15. transactions' \in Seq(TxType)
  <2>1. \A i \in 1..size : (IF i = p THEN longer ELSE transactions[i]) \in TxType
    BY <1>3, <1>10, <1>14
  <2> QED
    BY <2>1, <1>13
<1>16. Len(transactions') = size
  BY <1>13, <1>15, LenProperties
<1>17. AddsTo(p, old, line)
  <2>1. /\ transactions'[p] = longer
        /\ \A i \in 1..m : i # p => transactions'[i] = transactions[i]
    BY <1>13, <1>14
  <2>2. \/ p \in 1..m /\ transactions[p] = tx
        \/ p = m + 1 /\ old = <<>> /\ \A i \in 1..m : transactions[i].tx_id # line.tx_id
    BY <1>4, <1>5, <1>6
  <2> QED
    BY <2>1, <2>2, <1>7, <1>9, <1>12, <1>16 DEF AddsTo
<1> QED
  BY <1>1, <1>6, <1>7, <1>11, <1>15, <1>17

\* A transaction of the array has lines, and a line has its transaction.
LEMMA IdsInTheArray ==
  ASSUME TraceShape, TransactionsHoldTrace, NEW id
  PROVE  /\ LinesOf(trace, id) # {} <=> \E i \in 1..Len(transactions) : transactions[i].tx_id = id
         /\ LinesOf(trace, id) # {} <=> id \in IdsOf(trace)
<1>1. LinesOf(trace, id) # {} <=> id \in IdsOf(trace)
  BY DEF LinesOf, IdsOf, OpsOf
<1>2. ASSUME LinesOf(trace, id) # {}
      PROVE  \E i \in 1..Len(transactions) : transactions[i].tx_id = id
  <2>1. PICK k \in OpsOf(trace) : trace[k].tx_id = id
    BY <1>2 DEF LinesOf, OpsOf
  <2> QED
    BY <2>1 DEF TransactionsHoldTrace, LinesPlaced
<1>3. ASSUME NEW i \in 1..Len(transactions), transactions[i].tx_id = id
      PROVE  LinesOf(trace, id) # {}
  <2>1. \E k \in 1..Len(trace) : FirstIn(k, LinesOf(trace, transactions[i].tx_id))
    BY DEF TransactionsHoldTrace, OperationsOwn
  <2> QED
    BY <2>1, <1>3 DEF FirstIn
<1> QED
  BY <1>1, <1>2, <1>3

LEMMA TraceAppends ==
  ASSUME TraceIInv, NEW line \in TraceLines, AppendOperation(line)
  PROVE  TraceIInv'
<1> DEFINE id == line.tx_id
           n == Len(trace)
           m == Len(transactions)
<1>1. TraceShape /\ TransactionsWellFormed /\ TraceStream
  BY LineAccepted DEF TraceIInv
<1>2. /\ trace_pc = "reading" /\ line.kind = "operation" /\ trace' = Append(trace, line)
      /\ UNCHANGED <<trace_pc, trace_fp>>
      /\ line.start_tick \in Nat /\ id \in Int
      /\ line.op_str \in OpTypes /\ Len(line.args) >= Operands(line.op_str)
  BY LineAccepted
<1>3. LinesPlaced /\ OperationsOwn /\ TransactionsHoldTrace
  BY <1>2 DEF TraceIInv, TransactionsHoldTrace
<1>4. PICK p \in 1..m + 1, old \in Seq(OperationType) :
        /\ AddsTo(p, old, line) /\ transactions' \in Seq(TxType)
        /\ p <= MAX_TRANSACTIONS /\ ~(Len(old) >= MAX_OPS_PER_TX)
  BY OperationAdded
<1>5. trace \in Seq(TraceLines)
  BY <1>1 DEF TraceShape
<1>6. PICK new : new = trace'
  OBVIOUS
<1>7. /\ new \in Seq(TraceLines) /\ Len(new) = n + 1 /\ n \in Nat
      /\ 1..Len(new) = 1..n \cup {n + 1} /\ n + 1 \notin 1..n
      /\ \A k \in 1..n : new[k] = trace[k]
      /\ new[n + 1] = line
  BY <1>2, <1>5, <1>6, OneLineMore
<1>8. m \in Nat /\ \A i \in 1..m : transactions[i] \in TxType
  BY <1>1, TransactionFields
<1>9. PICK op \in OperationType : op = Operation(line)
  BY <1>2, OperationTyped
<1>10. /\ Append(old, op) \in Seq(OperationType) /\ Len(Append(old, op)) = Len(old) + 1
       /\ Len(old) \in Nat
  BY <1>4, <1>9, AppendProperties, LenProperties
<1>11. PICK more : more = Append(old, op)
  OBVIOUS
<1>12. more \in Seq(OperationType) /\ Len(more) \in 1..MAX_OPS_PER_TX
  BY <1>4, <1>10, <1>11, TraceParserAssumption
<1> HIDE DEF n, m, id
<1>13. /\ transactions'[p] = [tx_id |-> id, start_tick |-> line.start_tick, ops |-> more]
       /\ 1..Len(transactions') = 1..m \cup {p}
       /\ Len(transactions') <= MAX_TRANSACTIONS
       /\ \A i \in 1..m : i # p => transactions'[i] = transactions[i]
  <2>1. transactions'[p] = [tx_id |-> id, start_tick |-> line.start_tick, ops |-> more]
    BY <1>4, <1>9, <1>11 DEF AddsTo, id
  <2>2. \A i \in 1..m : i # p => transactions'[i] = transactions[i]
    BY <1>4 DEF AddsTo, m
  <2>3. Len(transactions') = (IF p \in 1..m THEN m ELSE p)
    BY <1>4 DEF AddsTo, m
  <2>4. m <= MAX_TRANSACTIONS
    BY <1>1 DEF TransactionsWellFormed, m
  <2>5. CASE p \in 1..m
    BY <2>1, <2>2, <2>3, <2>4, <2>5
  <2>6. CASE p = m + 1
    <3>1. p \notin 1..m
      BY <2>6, <1>8
    <3>2. Len(transactions') = m + 1
      BY <2>3, <2>6, <3>1
    <3>3. 1..m + 1 = 1..m \cup {m + 1}
      BY <1>8
    <3> QED
      BY <2>1, <2>2, <2>6, <3>2, <3>3, <1>4
  <2> QED
    BY <2>5, <2>6, <1>4, <1>8 DEF AddsTo
<1>14. \/ /\ p \in 1..m
          /\ transactions[p] = [tx_id |-> id, start_tick |-> line.start_tick, ops |-> old]
       \/ /\ p = m + 1 /\ old = <<>>
          /\ \A i \in 1..m : transactions[i].tx_id # id
  BY <1>4 DEF AddsTo, m, id
<1>15. \A i \in 1..m : i # p => transactions[i].tx_id # id
  BY <1>1, <1>14 DEF TransactionsWellFormed, m
<1>16. /\ LinesOf(trace, id) \in SUBSET (1..n)
       /\ LinesOf(new, id) = LinesOf(trace, id) \cup {n + 1}
       /\ \A i \in 1..m : i # p =>
            /\ LinesOf(trace, transactions[i].tx_id) \in SUBSET (1..n)
            /\ LinesOf(new, transactions[i].tx_id) = LinesOf(trace, transactions[i].tx_id)
  BY <1>2, <1>5, <1>6, <1>15, LinesGrow DEF id, n
<1>16a. ASSUME NEW i \in 1..m
        PROVE  /\ transactions'[i].tx_id = transactions[i].tx_id
               /\ transactions'[i].start_tick = transactions[i].start_tick
               /\ LinesOf(trace, transactions[i].tx_id) \in SUBSET (1..n)
               /\ LinesOf(trace, transactions[i].tx_id) \subseteq LinesOf(new, transactions[i].tx_id)
               /\ LinesOf(new, transactions[i].tx_id) \subseteq
                    LinesOf(trace, transactions[i].tx_id) \cup {n + 1}
  <2>1. CASE i = p
    <3>1. p # m + 1
      BY <2>1, <1>8
    <3>2. transactions[p] = [tx_id |-> id, start_tick |-> line.start_tick, ops |-> old]
      BY <1>14, <3>1
    <3>3. transactions[i].tx_id = id /\ transactions[i].start_tick = line.start_tick
      BY <2>1, <3>2
    <3>4. transactions'[i].tx_id = id /\ transactions'[i].start_tick = line.start_tick
      BY <2>1, <1>13
    <3> QED
      BY <3>3, <3>4, <1>16
  <2>2. CASE i # p
    BY <2>2, <1>13, <1>16
  <2> QED
    BY <2>1, <2>2
<1>17. TransactionsWellFormed'
  <2>1. ASSUME NEW i \in 1..Len(transactions')
        PROVE  /\ transactions'[i].start_tick >= 0
               /\ transactions'[i].ops \in Seq(OperationType)
               /\ Len(transactions'[i].ops) \in 1..MAX_OPS_PER_TX
    <3>1. CASE i = p
      <4>1. transactions'[i].start_tick = line.start_tick /\ transactions'[i].ops = more
        BY <3>1, <1>13
      <4> QED
        BY <4>1, <1>2, <1>12
    <3>2. CASE i # p
      <4>1. i \in 1..m /\ transactions'[i] = transactions[i]
        BY <3>2, <1>13
      <4> QED
        BY <4>1, <1>1 DEF TransactionsWellFormed, m
    <3> QED
      BY <3>1, <3>2
  <2>2. \A i \in 1..m : i # p => transactions'[i].tx_id = transactions[i].tx_id
    BY <1>13
  <2>3. transactions'[p].tx_id = id
    BY <1>13
  <2>4. \A i, j \in 1..m : transactions[i].tx_id = transactions[j].tx_id => i = j
    BY <1>1 DEF TransactionsWellFormed, m
  <2>5. \A i, j \in 1..Len(transactions') : transactions'[i].tx_id = transactions'[j].tx_id => i = j
    BY <2>2, <2>3, <2>4, <1>13, <1>15
  <2> QED
    BY <2>1, <2>5, <1>13 DEF TransactionsWellFormed
<1>18. LinesPlaced'
  <2>1. OpsOf(trace) \in SUBSET (1..n) /\ OpsOf(new) = OpsOf(trace) \cup {n + 1}
    BY <1>2, <1>5, <1>6, OpsGrow DEF n
  <2>2. \A k \in 1..Len(new) : new[k].kind # "malformed"
    BY <1>2, <1>3, <1>7 DEF LinesPlaced, n
  <2>3. ASSUME NEW k \in OpsOf(trace)
        PROVE  /\ new[k].op_str \in OpTypes /\ Len(new[k].args) >= Operands(new[k].op_str)
               /\ \E i \in 1..Len(transactions') : /\ transactions'[i].tx_id = new[k].tx_id
                                                   /\ transactions'[i].start_tick = new[k].start_tick
    <3>1. new[k] = trace[k]
      BY <2>1, <1>7
    <3>2. PICK i \in 1..m : /\ transactions[i].tx_id = trace[k].tx_id
                            /\ transactions[i].start_tick = trace[k].start_tick
      BY <1>3 DEF LinesPlaced, m
    <3>3. /\ transactions'[i].tx_id = transactions[i].tx_id
          /\ transactions'[i].start_tick = transactions[i].start_tick
      BY <1>16a
    <3>4. trace[k].op_str \in OpTypes /\ Len(trace[k].args) >= Operands(trace[k].op_str)
      BY <1>3 DEF LinesPlaced
    <3> QED
      BY <3>1, <3>2, <3>3, <3>4, <1>13
  <2>4. /\ transactions'[p].tx_id = new[n + 1].tx_id
        /\ transactions'[p].start_tick = new[n + 1].start_tick
        /\ p \in 1..Len(transactions')
    BY <1>7, <1>13 DEF id
  <2> QED
    BY <2>1, <2>2, <2>3, <2>4, <1>2, <1>6, <1>7 DEF LinesPlaced
<1>19. OpsAre(old, trace, LinesOf(trace, id))
  <2>1. CASE p \in 1..m /\ transactions[p] = [tx_id |-> id, start_tick |-> line.start_tick, ops |-> old]
    <3>1. transactions[p].tx_id = id /\ transactions[p].ops = old
      BY <2>1
    <3> QED
      BY <2>1, <3>1, <1>3 DEF OperationsOwn, m
  <2>2. CASE old = <<>> /\ \A i \in 1..m : transactions[i].tx_id # id
    <3>1. LinesOf(trace, id) = {}
      BY <2>2, <1>1, <1>3, IdsInTheArray DEF m
    <3> QED
      BY <2>2, <3>1, FS_EmptySet, EmptySeq DEF OpsAre
  <2> QED
    BY <2>1, <2>2, <1>14
<1>20. OpsAre(more, new, LinesOf(new, id))
  <2>1. op = Operation(new[n + 1])
    BY <1>7, <1>9
  <2>2. OpsAre(Append(old, op), new, LinesOf(trace, id) \cup {n + 1})
    BY <2>1, <1>7, <1>16, <1>19, OpsGrowToo
  <2> QED
    BY <2>2, <1>11, <1>16
<1>21. OperationsOwn'
  <2>1. ASSUME NEW i \in 1..Len(transactions')
        PROVE  OpsAre(transactions'[i].ops, new, LinesOf(new, transactions'[i].tx_id))
    <3>1. CASE i = p
      BY <3>1, <1>13, <1>20
    <3>2. CASE i # p
      <4>1. i \in 1..m /\ transactions'[i] = transactions[i]
        BY <3>2, <1>13
      <4>2. OpsAre(transactions[i].ops, trace, LinesOf(trace, transactions[i].tx_id))
        BY <4>1, <1>3 DEF OperationsOwn, m
      <4> QED
        BY <3>2, <4>1, <4>2, <1>7, <1>16, OpsStay
    <3> QED
      BY <3>1, <3>2
  <2>2. ASSUME NEW i \in 1..Len(transactions')
        PROVE  \E k \in 1..Len(new) : FirstIn(k, LinesOf(new, transactions'[i].tx_id))
    <3>1. CASE i \in 1..m
      <4>1. PICK k \in 1..n : FirstIn(k, LinesOf(trace, transactions[i].tx_id))
        BY <3>1, <1>3 DEF OperationsOwn, m, n
      <4>2. transactions'[i].tx_id = transactions[i].tx_id
        BY <3>1, <1>16a
      <4>3. \A l \in LinesOf(new, transactions[i].tx_id) :
              l \in LinesOf(trace, transactions[i].tx_id) \/ l = n + 1
        BY <3>1, <1>16a
      <4>4. k \in LinesOf(new, transactions[i].tx_id)
        BY <3>1, <4>1, <1>16a DEF FirstIn
      <4>5. k <= n + 1 /\ k \in 1..Len(new)
        BY <1>7
      <4> QED
        BY <4>1, <4>2, <4>3, <4>4, <4>5 DEF FirstIn
    <3>2. CASE i \notin 1..m
      <4>1. i = p /\ LinesOf(trace, id) = {}
        BY <3>2, <1>1, <1>3, <1>13, <1>14, IdsInTheArray DEF m
      <4>2. LinesOf(new, transactions'[i].tx_id) = {n + 1}
        BY <4>1, <1>13, <1>16
      <4>3. n + 1 \in 1..Len(new) /\ n + 1 <= n + 1
        BY <1>7
      <4> QED
        BY <4>2, <4>3 DEF FirstIn
    <3> QED
      BY <3>1, <3>2
  <2>3. ASSUME NEW i \in 1..Len(transactions'), NEW j \in 1..Len(transactions'), i < j
        PROVE  \E k \in LinesOf(new, transactions'[i].tx_id) :
                 \A l \in LinesOf(new, transactions'[j].tx_id) : k < l
    <3>1. i \in 1..m
      BY <2>3, <1>4, <1>8, <1>13
    <3>2. transactions'[i].tx_id = transactions[i].tx_id
      BY <3>1, <1>16a
    <3>3. LinesOf(trace, transactions[i].tx_id) \subseteq LinesOf(new, transactions[i].tx_id)
          /\ LinesOf(trace, transactions[i].tx_id) \subseteq 1..n
      BY <3>1, <1>16a
    <3>4. PICK k \in LinesOf(trace, transactions[i].tx_id) :
            j \in 1..m => \A l \in LinesOf(trace, transactions[j].tx_id) : k < l
      <4>1. CASE j \in 1..m
        BY <2>3, <3>1, <4>1, <1>3 DEF OperationsOwn, m
      <4>2. CASE j \notin 1..m
        BY <3>1, <4>2, <1>3 DEF OperationsOwn, FirstIn, m
      <4> QED
        BY <4>1, <4>2
    <3>5. k < n + 1
      BY <3>3, <1>7
    <3>6. ASSUME NEW l \in LinesOf(new, transactions'[j].tx_id) PROVE k < l
      <4>1. CASE j \in 1..m
        <5>1. transactions'[j].tx_id = transactions[j].tx_id
          BY <4>1, <1>16a
        <5>2. l \in LinesOf(new, transactions[j].tx_id)
          BY <5>1
        <5>3. l \in LinesOf(trace, transactions[j].tx_id) \/ l = n + 1
          BY <4>1, <5>2, <1>16a
        <5> QED
          BY <4>1, <5>3, <3>4, <3>5
      <4>2. CASE j \notin 1..m
        <5>1. j = p /\ LinesOf(trace, id) = {}
          BY <4>2, <1>1, <1>3, <1>13, <1>14, IdsInTheArray DEF m
        <5>2. l = n + 1
          BY <5>1, <1>13, <1>16
        <5> QED
          BY <5>2, <3>5
      <4> QED
        BY <4>1, <4>2
    <3> QED
      BY <3>2, <3>3, <3>4, <3>6
  <2> QED
    BY <2>1, <2>2, <2>3, <1>6 DEF OperationsOwn
<1>22. IsFiniteSet(IdsOf(new)) /\ Cardinality(IdsOf(new)) = Len(transactions')
  <2>1. IdsOf(new) = IdsOf(trace) \cup {id}
    BY <1>2, <1>5, <1>6, OpsGrow DEF id
  <2>2. IsFiniteSet(IdsOf(trace)) /\ Cardinality(IdsOf(trace)) = m
    BY <1>3 DEF TransactionsHoldTrace, m
  <2>3. id \in IdsOf(trace) <=> \E i \in 1..m : transactions[i].tx_id = id
    BY <1>1, <1>3, IdsInTheArray DEF m
  <2>4. CASE p \in 1..m
    <3>1. id \in IdsOf(trace)
      BY <2>3, <2>4, <1>14, <1>8
    <3>2. IdsOf(new) = IdsOf(trace)
      BY <2>1, <3>1
    <3>3. Len(transactions') = m
      BY <2>4, <1>4 DEF AddsTo, m
    <3> QED
      BY <2>2, <3>2, <3>3
  <2>5. CASE p \notin 1..m
    <3>1. p = m + 1 /\ id \notin IdsOf(trace)
      BY <2>3, <2>5, <1>14
    <3>2. Len(transactions') = m + 1
      BY <2>5, <3>1, <1>4 DEF AddsTo, m
    <3> QED
      BY <2>1, <2>2, <3>1, <3>2, FS_AddElement
  <2> QED
    BY <2>4, <2>5
<1>23. TraceShape' /\ TraceStream'
  BY <1>1, <1>2, <1>4, <1>6, <1>7 DEF TraceShape, TraceStream
<1> QED
  BY <1>2, <1>6, <1>17, <1>18, <1>21, <1>22, <1>23 DEF TraceIInv, TransactionsHoldTrace

\* The kinds of line are told apart.
LEMMA TraceSkips ==
  ASSUME TraceIInv, NEW line \in TraceLines, SkipLine(line)
  PROVE  TraceIInv'
<1> DEFINE n == Len(trace)
<1>1. /\ trace_pc = "reading" /\ line.kind = "skip" /\ trace' = Append(trace, line)
      /\ UNCHANGED <<transactions, trace_pc, trace_fp>>
  BY DEF SkipLine, ReadLine
<1>2. /\ TraceShape /\ TransactionsWellFormed /\ TraceStream
      /\ LinesPlaced /\ OperationsOwn /\ TransactionsHoldTrace
  BY <1>1 DEF TraceIInv, TransactionsHoldTrace
<1>3. trace \in Seq(TraceLines)
  BY <1>2 DEF TraceShape
<1>4. PICK new : new = trace'
  OBVIOUS
<1>5. /\ new \in Seq(TraceLines) /\ n \in Nat
      /\ 1..Len(new) = 1..n \cup {n + 1}
      /\ \A k \in 1..n : new[k] = trace[k]
      /\ new[n + 1] = line
  BY <1>1, <1>3, <1>4, OneLineMore
<1>6. /\ OpsOf(new) = OpsOf(trace) /\ IdsOf(new) = IdsOf(trace)
      /\ OpsOf(trace) \in SUBSET (1..n)
  BY <1>1, <1>3, <1>4, OpsGrow
<1>7. \A id : /\ LinesOf(new, id) = LinesOf(trace, id)
              /\ LinesOf(trace, id) \in SUBSET (1..n)
  BY <1>1, <1>3, <1>4, LinesGrow
<1> HIDE DEF n
<1>8. LinesPlaced'
  <2>1. \A k \in OpsOf(new) : new[k] = trace[k]
    BY <1>5, <1>6
  <2>2. \A k \in 1..Len(new) : new[k].kind # "malformed"
    BY <1>1, <1>2, <1>5 DEF LinesPlaced, n
  <2> QED
    BY <2>1, <2>2, <1>1, <1>2, <1>4, <1>6 DEF LinesPlaced
<1>9. OperationsOwn'
  <2>1. ASSUME NEW i \in 1..Len(transactions)
        PROVE  OpsAre(transactions[i].ops, new, LinesOf(new, transactions[i].tx_id))
    BY <1>2, <1>5, <1>7, OpsStay DEF OperationsOwn
  <2>2. ASSUME NEW i \in 1..Len(transactions)
        PROVE  \E k \in 1..Len(new) : FirstIn(k, LinesOf(new, transactions[i].tx_id))
    BY <1>2, <1>5, <1>7 DEF OperationsOwn, n
  <2>3. \A i, j \in 1..Len(transactions) : i < j =>
          \E k \in LinesOf(new, transactions[i].tx_id) :
            \A l \in LinesOf(new, transactions[j].tx_id) : k < l
    BY <1>2, <1>7 DEF OperationsOwn
  <2> QED
    BY <2>1, <2>2, <2>3, <1>1, <1>4 DEF OperationsOwn
<1>10. IsFiniteSet(IdsOf(new)) /\ Cardinality(IdsOf(new)) = Len(transactions)
  BY <1>2, <1>6 DEF TransactionsHoldTrace
<1> QED
  BY <1>1, <1>2, <1>4, <1>5, <1>8, <1>9, <1>10
  DEF TraceIInv, TraceShape, TraceStream, TransactionsWellFormed, TransactionsHoldTrace

\* A line that is rejected makes the trace unacceptable.
LEMMA TraceRejects ==
  ASSUME TraceIInv, NEW line \in TraceLines, RejectLine(line)
  PROVE  TraceIInv'
<1> DEFINE n == Len(trace)
           m == Len(transactions)
           id == line.tx_id
           tx == Found(line)
<1>1. /\ trace_pc = "reading" /\ trace' = Append(trace, line) /\ Rejected(line)
      /\ trace_pc' = "failed" /\ trace_fp' = "closed"
      /\ transactions' = IF Creates(line) THEN Append(transactions, NewTransaction(id, line.start_tick))
                         ELSE transactions
  BY DEF RejectLine, ReadLine
<1>2. /\ TraceShape /\ TransactionsWellFormed /\ TraceStream
      /\ LinesPlaced /\ OperationsOwn /\ TransactionsHoldTrace
  BY <1>1 DEF TraceIInv, TransactionsHoldTrace
<1>3. trace \in Seq(TraceLines)
  BY <1>2 DEF TraceShape
<1>4. PICK new : new = trace'
  OBVIOUS
<1>5. /\ new \in Seq(TraceLines) /\ n \in Nat
      /\ 1..Len(new) = 1..n \cup {n + 1}
      /\ \A k \in 1..n : new[k] = trace[k]
      /\ new[n + 1] = line
  BY <1>1, <1>3, <1>4, OneLineMore
<1>6. m \in Nat /\ \A i \in 1..m : transactions[i].ops \in Seq(OperationType)
  BY <1>2, TransactionFields
<1>7. \/ /\ Position(id) \in 1..m /\ transactions[Position(id)].tx_id = id
      \/ /\ Position(id) = m + 1 /\ \A i \in 1..m : transactions[i].tx_id # id
  BY <1>2, PositionOf
<1>8. /\ Position(id) \in 1..m => tx = transactions[Position(id)]
      /\ Position(id) = m + 1 => tx = NewTransaction(id, line.start_tick)
  BY <1>6 DEF Found
<1>9. ~AcceptableTrace(new)
  <2> SUFFICES ASSUME AcceptableTrace(new) PROVE FALSE
    OBVIOUS
  <2>1. \A k \in 1..Len(new) : new[k].kind # "malformed"
    BY DEF AcceptableTrace
  <2>2. line.kind = "operation"
    BY <2>1, <1>1, <1>5 DEF Rejected
  <2>3. line.start_tick \in Int /\ line.args \in Seq(Int)
    BY <2>2, TraceLineFields
  <2>4. /\ OpsOf(new) = OpsOf(trace) \cup {n + 1} /\ OpsOf(trace) \in SUBSET (1..n)
        /\ IdsOf(new) = IdsOf(trace) \cup {id}
    BY <2>2, <1>1, <1>3, <1>4, OpsGrow
  <2>5. /\ LinesOf(new, id) = LinesOf(trace, id) \cup {n + 1}
        /\ Cardinality(LinesOf(new, id)) = Cardinality(LinesOf(trace, id)) + 1
    BY <2>2, <1>1, <1>3, <1>4, LinesGrow
  <2>6. /\ line.start_tick >= 0
        /\ \/ line.op_str = "BALANCE" /\ Len(line.args) >= 1
           \/ line.op_str \in {"DEPOSIT", "WITHDRAW"} /\ Len(line.args) >= 2
           \/ line.op_str = "TRANSFER" /\ Len(line.args) >= 3
        /\ Cardinality(LinesOf(new, id)) <= MAX_OPS_PER_TX
    BY <2>4, <1>5 DEF AcceptableTrace, OpsOf
  <2>7. /\ \A k, l \in OpsOf(new) :
             new[k].tx_id = new[l].tx_id => new[k].start_tick = new[l].start_tick
        /\ Cardinality(IdsOf(new)) <= MAX_TRANSACTIONS
    BY DEF AcceptableTrace, OpsOf, IdsOf
  <2>8. PICK k \in OpsOf(new) : k = n + 1
    BY <2>4
  <2>9. CASE line.start_tick < 0
    BY <2>3, <2>6, <2>9
  <2>10. CASE Position(id) > MAX_TRANSACTIONS
    <3>1. m <= MAX_TRANSACTIONS
      BY <1>2 DEF TransactionsWellFormed
    <3>2. Position(id) = m + 1 /\ m + 1 > MAX_TRANSACTIONS /\ \A i \in 1..m : transactions[i].tx_id # id
      BY <2>10, <3>1, <1>6, <1>7, TraceParserAssumption
    <3>3. id \notin IdsOf(trace)
      BY <3>2, <1>2, IdsInTheArray
    <3>4. IsFiniteSet(IdsOf(trace)) /\ Cardinality(IdsOf(trace)) = m
      BY <1>2 DEF TransactionsHoldTrace
    <3>5. Cardinality(IdsOf(new)) = m + 1
      BY <2>4, <3>3, <3>4, FS_AddElement
    <3> QED
      BY <2>7, <3>2, <3>5, <1>6, TraceParserAssumption
  <2>11. CASE ~SameTick(line)
    <3>1. tx.start_tick # line.start_tick
      BY <2>11 DEF SameTick
    <3>2. Position(id) \in 1..m /\ transactions[Position(id)].tx_id = id
          /\ tx = transactions[Position(id)]
      BY <3>1, <1>7, <1>8 DEF NewTransaction
    <3>3. LinesOf(trace, id) # {}
      BY <3>2, <1>2, IdsInTheArray
    <3>4. PICK l \in OpsOf(trace) : trace[l].tx_id = id
      BY <3>3 DEF LinesOf, OpsOf
    <3>5. PICK i \in 1..m : /\ transactions[i].tx_id = trace[l].tx_id
                            /\ transactions[i].start_tick = trace[l].start_tick
      BY <1>2 DEF LinesPlaced
    <3>6. i = Position(id)
      BY <3>2, <3>4, <3>5, <1>2 DEF TransactionsWellFormed
    <3>7. new[l].tx_id = id /\ new[l].start_tick = tx.start_tick
      BY <3>2, <3>4, <3>5, <3>6, <2>4, <1>5
    <3>8. new[k].tx_id = id /\ new[k].start_tick = line.start_tick
      BY <2>8, <1>5
    <3> QED
      BY <2>4, <2>7, <3>1, <3>7, <3>8
  <2>12. CASE line.op_str \notin OpTypes
    BY <2>6, <2>12 DEF OpTypes
  <2>13. CASE Len(line.args) < Operands(line.op_str)
    <3>1. Len(line.args) \in Nat /\ Len(line.args) >= Operands(line.op_str)
      BY <2>3, <2>6, LenProperties DEF Operands
    <3> QED
      BY <2>13, <3>1 DEF Operands
  <2>14. CASE OpsFull(tx)
    <3>1. Len(tx.ops) >= MAX_OPS_PER_TX
      BY <2>14 DEF OpsFull
    <3>2. CASE Position(id) = m + 1
      <4>1. tx.ops = <<>>
        BY <3>2, <1>8 DEF NewTransaction
      <4> QED
        BY <4>1, <3>1, EmptySeq, TraceParserAssumption
    <3>3. CASE Position(id) \in 1..m /\ transactions[Position(id)].tx_id = id
      <4>1. Len(tx.ops) = Cardinality(LinesOf(trace, id))
        BY <3>3, <1>2, <1>8 DEF OperationsOwn, OpsAre
      <4>2. Len(tx.ops) \in Nat
        BY <3>3, <1>6, <1>8, LenProperties
      <4> QED
        BY <2>5, <2>6, <3>1, <4>1, <4>2, TraceParserAssumption
    <3> QED
      BY <3>2, <3>3, <1>7
  <2> QED
    BY <2>2, <2>9, <2>10, <2>11, <2>12, <2>13, <2>14, <1>1 DEF Rejected
<1>10. transactions' \in Seq(TxType)
  <2>1. transactions \in Seq(TxType)
    BY <1>2 DEF TraceShape
  <2>2. ASSUME Creates(line) PROVE NewTransaction(id, line.start_tick) \in TxType
    <3>1. id \in Int /\ line.start_tick \in Nat
      BY <2>2, TraceLineFields DEF Creates
    <3>2. <<>> \in Seq(OperationType)
      BY EmptySeq
    <3> QED
      BY <3>1, <3>2 DEF NewTransaction, TxType
  <2> HIDE DEF tx, n, m, id
  <2> QED
    BY <1>1, <2>1, <2>2, AppendProperties DEF TxType, id
<1> QED
  BY <1>1, <1>2, <1>4, <1>5, <1>9, <1>10 DEF TraceIInv, TraceShape, TraceStream

LEMMA TraceStarts == TraceInit => TraceIInv
<1> SUFFICES ASSUME TraceInit PROVE TraceIInv
  OBVIOUS
<1> USE DEF TraceInit
<1>1. transactions = <<>> /\ trace = <<>> /\ Len(transactions) = 0 /\ Len(trace) = 0
  OBVIOUS
<1>2. TraceShape
  BY EmptySeq DEF TraceShape
<1>3. TransactionsWellFormed
  BY <1>1, TraceParserAssumption DEF TransactionsWellFormed
<1>4. OpsOf(trace) = {}
  BY <1>1 DEF OpsOf
<1>5. IdsOf(trace) = {}
  BY <1>4 DEF IdsOf
<1>6. IsFiniteSet(IdsOf(trace)) /\ Cardinality(IdsOf(trace)) = 0
  BY <1>5, FS_EmptySet
<1>7. LinesPlaced /\ OperationsOwn
  BY <1>1, <1>4 DEF LinesPlaced, OperationsOwn
<1> QED
  BY <1>1, <1>2, <1>3, <1>6, <1>7 DEF TraceIInv, TraceStream, TransactionsHoldTrace

LEMMA TraceKept == TraceIInv /\ (TraceStep \/ UNCHANGED traceVars) => TraceIInv'
<1> SUFFICES ASSUME TraceIInv, TraceStep \/ UNCHANGED traceVars PROVE TraceIInv'
  OBVIOUS
<1>1. CASE \/ UNCHANGED traceVars
           \/ /\ UNCHANGED <<transactions, trace>>
              /\ trace_pc # "failed" /\ TraceShape' /\ TraceStream'
              /\ trace_pc' = "failed" => trace_fp' = "none"
  <2>1. TransactionsHoldTrace => TransactionsHoldTrace'
    BY <1>1 DEF TransactionsHoldTrace, LinesPlaced, OperationsOwn, traceVars
  <2>2. TransactionsWellFormed => TransactionsWellFormed'
    BY <1>1 DEF TransactionsWellFormed, traceVars
  <2>3. TraceShape' /\ TraceStream'
    BY <1>1 DEF TraceIInv, TraceShape, TraceStream, traceVars
  <2>4. trace' = trace => (AcceptableTrace(trace) <=> AcceptableTrace(trace'))
    OBVIOUS
  <2> QED
    BY <1>1, <2>1, <2>2, <2>3, <2>4 DEF TraceIInv, traceVars
<1>2. CASE OpenTrace
  BY <1>1, <1>2 DEF OpenTrace, TraceIInv, TraceShape, TraceStream
<1>3. CASE TraceUnreadable
  BY <1>1, <1>3 DEF TraceUnreadable, TraceIInv, TraceShape, TraceStream
<1>4. CASE EndOfTrace
  BY <1>1, <1>4 DEF EndOfTrace, TraceIInv, TraceShape, TraceStream
<1> QED
  BY <1>1, <1>2, <1>3, <1>4, TraceSkips, TraceAppends, TraceRejects DEF TraceStep, TraceNext

\* The verdict on the trace is that of its definition.
LEMMA VerdictOnTrace == TraceIInv => RejectsBadTrace
<1> SUFFICES ASSUME TraceIInv, trace_fp # "none", trace_pc # "failed" PROVE AcceptableTrace(trace)
  BY DEF RejectsBadTrace, TraceIInv
<1>1. /\ TraceShape /\ TransactionsWellFormed /\ LinesPlaced /\ OperationsOwn
      /\ Cardinality(IdsOf(trace)) = Len(transactions)
  BY DEF TraceIInv, TransactionsHoldTrace
<1>2. ASSUME NEW k \in OpsOf(trace)
      PROVE  /\ trace[k].start_tick >= 0
             /\ \/ trace[k].op_str = "BALANCE" /\ Len(trace[k].args) >= 1
                \/ trace[k].op_str \in {"DEPOSIT", "WITHDRAW"} /\ Len(trace[k].args) >= 2
                \/ trace[k].op_str = "TRANSFER" /\ Len(trace[k].args) >= 3
             /\ Cardinality(LinesOf(trace, trace[k].tx_id)) <= MAX_OPS_PER_TX
  <2>1. trace[k].op_str \in OpTypes /\ Len(trace[k].args) >= Operands(trace[k].op_str)
    BY <1>1 DEF LinesPlaced
  <2>2. PICK i \in 1..Len(transactions) : /\ transactions[i].tx_id = trace[k].tx_id
                                          /\ transactions[i].start_tick = trace[k].start_tick
    BY <1>1 DEF LinesPlaced
  <2>3. trace[k].start_tick >= 0
    BY <2>2, <1>1, TransactionFields
  <2>4. Cardinality(LinesOf(trace, trace[k].tx_id)) = Len(transactions[i].ops)
    BY <2>2, <1>1 DEF OperationsOwn, OpsAre
  <2>5. Len(transactions[i].ops) \in 1..MAX_OPS_PER_TX
    BY <2>2, <1>1 DEF TransactionsWellFormed
  <2>6. Cardinality(LinesOf(trace, trace[k].tx_id)) <= MAX_OPS_PER_TX
    BY <2>4, <2>5, TraceParserAssumption
  <2> QED
    BY <2>1, <2>3, <2>6 DEF OpTypes, Operands
<1>3. ASSUME NEW k \in OpsOf(trace), NEW l \in OpsOf(trace), trace[k].tx_id = trace[l].tx_id
      PROVE  trace[k].start_tick = trace[l].start_tick
  <2>1. PICK i \in 1..Len(transactions) : /\ transactions[i].tx_id = trace[k].tx_id
                                          /\ transactions[i].start_tick = trace[k].start_tick
    BY <1>1 DEF LinesPlaced
  <2>2. PICK j \in 1..Len(transactions) : /\ transactions[j].tx_id = trace[l].tx_id
                                          /\ transactions[j].start_tick = trace[l].start_tick
    BY <1>1 DEF LinesPlaced
  <2>3. i = j
    BY <2>1, <2>2, <1>1, <1>3 DEF TransactionsWellFormed
  <2> QED
    BY <2>1, <2>2, <2>3
<1>4. Cardinality(IdsOf(trace)) <= MAX_TRANSACTIONS
  BY <1>1 DEF TransactionsWellFormed
<1>5. \A k \in 1..Len(trace) : trace[k].kind # "malformed"
  BY <1>1 DEF LinesPlaced
<1> QED
  BY <1>2, <1>3, <1>4, <1>5 DEF AcceptableTrace, OpsOf, IdsOf

LEMMA LeastIsMin ==
  ASSUME NEW n \in Nat, NEW S \in SUBSET (1..n), NEW k, FirstIn(k, S)
  PROVE  Min(S) \in S /\ \A l \in S : Min(S) <= l
<1>1. \E x \in S : \A y \in S : x =< y
  BY DEF FirstIn
<1> QED
  BY <1>1 DEF Min

LEMMA Grouping == TraceIInv => GroupsTrace
<1> SUFFICES ASSUME TraceIInv, trace_pc # "failed"
             PROVE  /\ {transactions[i].tx_id : i \in 1..Len(transactions)} = IdsOf(trace)
                    /\ \A i \in 1..Len(transactions) :
                         OpsAre(transactions[i].ops, trace, LinesOf(trace, transactions[i].tx_id))
                    /\ \A i, j \in 1..Len(transactions) : i < j =>
                         Min(LinesOf(trace, transactions[i].tx_id)) <
                           Min(LinesOf(trace, transactions[j].tx_id))
  BY DEF GroupsTrace, OpsAre, IdsOf, OpsOf
<1>1. TraceShape /\ TransactionsHoldTrace /\ OperationsOwn
  BY DEF TraceIInv, TransactionsHoldTrace
<1>2. {transactions[i].tx_id : i \in 1..Len(transactions)} = IdsOf(trace)
  <2>1. \A id : id \in IdsOf(trace) <=> \E i \in 1..Len(transactions) : transactions[i].tx_id = id
    BY <1>1, IdsInTheArray
  <2> QED
    BY <2>1
<1>3. Len(trace) \in Nat
  BY <1>1, LenProperties DEF TraceShape
<1>4. ASSUME NEW i \in 1..Len(transactions)
      PROVE  /\ LinesOf(trace, transactions[i].tx_id) \in SUBSET (1..Len(trace))
             /\ Min(LinesOf(trace, transactions[i].tx_id)) \in LinesOf(trace, transactions[i].tx_id)
             /\ \A l \in LinesOf(trace, transactions[i].tx_id) :
                  Min(LinesOf(trace, transactions[i].tx_id)) <= l
  <2>1. PICK S : S = LinesOf(trace, transactions[i].tx_id)
    OBVIOUS
  <2>2. S \in SUBSET (1..Len(trace))
    BY <2>1 DEF LinesOf
  <2>3. PICK k \in 1..Len(trace) : FirstIn(k, S)
    BY <2>1, <1>1 DEF OperationsOwn
  <2>4. Min(S) \in S /\ \A l \in S : Min(S) <= l
    BY <2>2, <2>3, <1>3, LeastIsMin
  <2> QED
    BY <2>1, <2>2, <2>4
<1>5. ASSUME NEW i \in 1..Len(transactions), NEW j \in 1..Len(transactions), i < j
      PROVE  Min(LinesOf(trace, transactions[i].tx_id)) < Min(LinesOf(trace, transactions[j].tx_id))
  <2>1. PICK a : a = Min(LinesOf(trace, transactions[i].tx_id))
    OBVIOUS
  <2>2. PICK b : b = Min(LinesOf(trace, transactions[j].tx_id))
    OBVIOUS
  <2>3. PICK k \in LinesOf(trace, transactions[i].tx_id) :
          \A l \in LinesOf(trace, transactions[j].tx_id) : k < l
    BY <1>1, <1>5 DEF OperationsOwn
  <2>4. a <= k /\ k < b /\ a \in 1..Len(trace) /\ b \in 1..Len(trace) /\ k \in 1..Len(trace)
    BY <2>1, <2>2, <2>3, <1>4
  <2>5. a < b
    BY <2>4, <1>3
  <2> QED
    BY <2>1, <2>2, <2>5
<1> QED
  BY <1>1, <1>2, <1>5 DEF OperationsOwn

--------------------------------------------------------------------------------
(***************************************************************************)
(* main.                                                                   *)
(***************************************************************************)
FlowLabels ==
  {"arguments", "accounts", "trace", "simulate", "cleanup_timer", "cleanup_bank", "exited"}

FrameShape ==
  /\ flow_pc \in FlowLabels
  /\ life \in [Resources -> {"absent", "live", "destroyed"}]
  /\ exit_code \in {"failure", "success"}

\* What exists, and how far the files are read, at each place of main.
Stages ==
  /\ flow_pc = "arguments" => accounts_pc = "unopened"
  /\ flow_pc \in {"arguments", "accounts"} =>
       /\ trace_pc = "unopened"
       /\ life["bank_lock"] = IF flow_pc = "arguments" THEN "absent" ELSE "live"
       /\ \A r \in Resources \ {"bank_lock"} : life[r] = "absent"
  /\ flow_pc \in {"trace", "simulate", "cleanup_timer", "cleanup_bank"} =>
       accounts_pc = "loaded" /\ life["bank_lock"] = "live" /\ life["locks"] = "live"
  /\ flow_pc = "trace" => life["pool"] = "absent" /\ life["timer"] = "absent"
  /\ flow_pc \in {"simulate", "cleanup_timer"} =>
       trace_pc = "parsed" /\ life["pool"] = "live" /\ life["timer"] = "live"
  /\ flow_pc = "cleanup_bank" =>
       /\ trace_pc \in {"parsed", "failed"}
       /\ IF trace_pc = "parsed"
          THEN life["pool"] = "destroyed" /\ life["timer"] = "destroyed"
          ELSE life["pool"] = "absent" /\ life["timer"] = "absent"

\* A success is decided in the simulation, after both files were read.
SuccessEarned ==
  exit_code = "success" =>
    /\ flow_pc \in {"cleanup_timer", "cleanup_bank", "exited"}
    /\ flow_pc # "exited" => trace_pc = "parsed"

FrameIInv == FrameShape /\ Stages /\ SuccessEarned

FlowIInv == TableIInv /\ TraceIInv /\ ArgsIInv /\ FrameIInv

LEMMA FlowStarts == FlowInit => FlowIInv
<1> SUFFICES ASSUME FlowInit PROVE FlowIInv
  OBVIOUS
<1>1. TableIInv /\ TraceIInv /\ ArgsIInv
  BY TableStarts, TraceStarts, ArgsStart DEF FlowInit
<1>2. FrameIInv
  BY DEF FlowInit, TableInit, TraceInit, FrameIInv, FrameShape, FlowLabels, Stages, SuccessEarned, Resources
<1> QED
  BY <1>1, <1>2 DEF FlowIInv

LEMMA TableInFlow == [FlowNext]_flowVars => TableStep \/ UNCHANGED tableVars
<1> SUFFICES ASSUME [FlowNext]_flowVars PROVE TableStep \/ UNCHANGED tableVars
  OBVIOUS
<1>1. CASE LoadAccounts
  BY <1>1 DEF LoadAccounts, TableStep
<1>2. CASE ReadArgument \/ AcceptArguments \/ RefuseArguments \/ LoadTrace \/ UNCHANGED flowVars
  BY <1>2 DEF ReadArgument, AcceptArguments, RefuseArguments, LoadTrace, flowVars
<1>3. CASE \/ AccountsFailed \/ InitAccountLocks \/ TraceFailed \/ InitPoolAndTimer
           \/ Simulate \/ NoTimerThread \/ CleanupTimer \/ CleanupBank \/ FlowTerminated
  BY <1>3 DEF AccountsFailed, InitAccountLocks, TraceFailed, InitPoolAndTimer, Simulate,
              NoTimerThread, CleanupTimer, CleanupBank, FlowTerminated, flowVars
<1> QED
  BY <1>1, <1>2, <1>3 DEF FlowNext

LEMMA TraceInFlow == [FlowNext]_flowVars => TraceStep \/ UNCHANGED traceVars
<1> SUFFICES ASSUME [FlowNext]_flowVars PROVE TraceStep \/ UNCHANGED traceVars
  OBVIOUS
<1>1. CASE LoadTrace
  BY <1>1 DEF LoadTrace, TraceStep
<1>2. CASE ReadArgument \/ AcceptArguments \/ RefuseArguments \/ LoadAccounts \/ UNCHANGED flowVars
  BY <1>2 DEF ReadArgument, AcceptArguments, RefuseArguments, LoadAccounts, flowVars
<1>3. CASE \/ AccountsFailed \/ InitAccountLocks \/ TraceFailed \/ InitPoolAndTimer
           \/ Simulate \/ NoTimerThread \/ CleanupTimer \/ CleanupBank \/ FlowTerminated
  BY <1>3 DEF AccountsFailed, InitAccountLocks, TraceFailed, InitPoolAndTimer, Simulate,
              NoTimerThread, CleanupTimer, CleanupBank, FlowTerminated, flowVars
<1> QED
  BY <1>1, <1>2, <1>3 DEF FlowNext

\* A step of main's own, with its effect on every resource.
LEMMA FrameKept == FlowIInv /\ [FlowNext]_flowVars => FrameIInv'
<1> SUFFICES ASSUME FlowIInv, [FlowNext]_flowVars PROVE FrameIInv'
  OBVIOUS
<1> USE DEF FrameIInv
<1>0. FrameShape /\ Stages /\ SuccessEarned
  BY DEF FlowIInv
<1>1. CASE UNCHANGED <<frameVars, tableVars, traceVars>>
  BY <1>0, <1>1 DEF frameVars, tableVars, traceVars, FrameShape, Stages, SuccessEarned
<1>2. CASE ReadArgument
  BY <1>0, <1>2 DEF ReadArgument, tableVars, traceVars, FrameShape, Stages, SuccessEarned
<1>3. CASE AcceptArguments
  BY <1>0, <1>3 DEF AcceptArguments, Step, Become, Resources, tableVars, traceVars,
                    FrameShape, FlowLabels, Stages, SuccessEarned
<1>13. CASE RefuseArguments
  BY <1>0, <1>13 DEF RefuseArguments, Step, tableVars, traceVars,
                     FrameShape, FlowLabels, Stages, SuccessEarned
<1>4. CASE LoadAccounts
  BY <1>0, <1>4 DEF LoadAccounts, frameVars, traceVars, FrameShape, Stages, SuccessEarned
<1>5. CASE AccountsFailed
  BY <1>0, <1>5 DEF AccountsFailed, Step, tableVars, traceVars, FrameShape, FlowLabels, Stages, SuccessEarned
<1>6. CASE InitAccountLocks
  BY <1>0, <1>6 DEF InitAccountLocks, Step, Become, Resources, tableVars, traceVars,
                    FrameShape, FlowLabels, Stages, SuccessEarned
<1>7. CASE LoadTrace
  BY <1>0, <1>7 DEF LoadTrace, frameVars, tableVars, FrameShape, Stages, SuccessEarned
<1>8. CASE TraceFailed
  BY <1>0, <1>8 DEF TraceFailed, Step, tableVars, traceVars, FrameShape, FlowLabels, Stages, SuccessEarned
<1>9. CASE InitPoolAndTimer
  BY <1>0, <1>9 DEF InitPoolAndTimer, Step, Become, Resources, tableVars, traceVars,
                    FrameShape, FlowLabels, Stages, SuccessEarned
<1>10. CASE Simulate \/ NoTimerThread
  BY <1>0, <1>10 DEF Simulate, NoTimerThread, Step, tableVars, traceVars,
                     FrameShape, FlowLabels, Stages, SuccessEarned
<1>11. CASE CleanupTimer
  BY <1>0, <1>11 DEF CleanupTimer, Step, Become, Resources, tableVars, traceVars,
                     FrameShape, FlowLabels, Stages, SuccessEarned
<1>12. CASE CleanupBank
  BY <1>0, <1>12 DEF CleanupBank, Step, Become, Resources, tableVars, traceVars,
                     FrameShape, FlowLabels, Stages, SuccessEarned
<1> QED
  BY <1>1, <1>2, <1>3, <1>4, <1>5, <1>6, <1>7, <1>8, <1>9, <1>10, <1>11, <1>12, <1>13
  DEF FlowNext, FlowTerminated, flowVars

LEMMA FlowKept == FlowIInv /\ [FlowNext]_flowVars => FlowIInv'
BY TableInFlow, TableKept, TraceInFlow, TraceKept, ArgsKept, FrameKept DEF FlowIInv

LEMMA FlowHolds == FlowSpec => []FlowIInv
BY FlowStarts, FlowKept, PTL DEF FlowSpec

\* The stream variables have their last values when main exits.
LEMMA NothingElseLeft ==
  FlowIInv /\ [FlowNext]_flowVars /\ flowVars' # flowVars =>
    /\ \A r \in Resources : life'[r] = "destroyed" => life[r] # "absent"
    /\ flow_pc' = "exited" =>
         /\ \A r \in Resources \ {"bank_lock"} : life'[r] # "live"
         /\ life'["bank_lock"] = "live" <=> accounts_pc = "failed"
         /\ "open" \notin {accounts_fp, trace_fp}
         /\ exit_code = "success" => /\ accounts_pc = "loaded" /\ trace_pc = "parsed"
                                     /\ \A r \in Resources : life'[r] = "destroyed"
<1> SUFFICES ASSUME FlowIInv, FlowNext, flowVars' # flowVars
             PROVE  /\ \A r \in Resources : life'[r] = "destroyed" => life[r] # "absent"
                    /\ flow_pc' = "exited" =>
                         /\ \A r \in Resources \ {"bank_lock"} : life'[r] # "live"
                         /\ life'["bank_lock"] = "live" <=> accounts_pc = "failed"
                         /\ "open" \notin {accounts_fp, trace_fp}
                         /\ exit_code = "success" =>
                              /\ accounts_pc = "loaded" /\ trace_pc = "parsed"
                              /\ \A r \in Resources : life'[r] = "destroyed"
  OBVIOUS
<1>0. FrameShape /\ Stages /\ SuccessEarned /\ AccountsStream /\ TraceStream
  BY DEF FlowIInv, FrameIInv, TableIInv, TraceIInv
<1>1. CASE LoadAccounts \/ LoadTrace \/ ReadArgument
  BY <1>0, <1>1 DEF LoadAccounts, LoadTrace, ReadArgument, frameVars, Stages, FrameShape
<1>2. CASE TraceFailed \/ Simulate \/ NoTimerThread
  BY <1>0, <1>2 DEF TraceFailed, Simulate, NoTimerThread, Step, Stages, FrameShape
<1>3. CASE AcceptArguments \/ InitAccountLocks \/ InitPoolAndTimer
  BY <1>0, <1>3 DEF AcceptArguments, InitAccountLocks, InitPoolAndTimer, Step, Become, Resources,
                    Stages, FrameShape
<1>4. CASE RefuseArguments
  BY <1>0, <1>4 DEF RefuseArguments, Step, Resources, Stages, AccountsStream, TraceStream, SuccessEarned
<1>5. CASE AccountsFailed
  BY <1>0, <1>5 DEF AccountsFailed, Step, Resources, Stages, AccountsStream, TraceStream, SuccessEarned
<1>6. CASE CleanupTimer
  BY <1>0, <1>6 DEF CleanupTimer, Step, Become, Resources, Stages, FrameShape
<1>7. CASE CleanupBank
  BY <1>0, <1>7 DEF CleanupBank, Step, Become, Resources, Stages, FrameShape, AccountsStream,
                    TraceStream, SuccessEarned
<1> QED
  BY <1>1, <1>2, <1>3, <1>4, <1>5, <1>6, <1>7 DEF FlowNext, FlowTerminated
--------------------------------------------------------------------------------
(***************************************************************************)
(* Theorems                                                                *)
(***************************************************************************)

\* Type correctness of main: whatever the command line and the two files say,
\* the simulation gets a table within its capacity, well-formed transactions and
\* an interval between 1 and the largest int.
THEOREM FlowTypeCorrect == FlowSpec => []FlowTypeOK
<1>1. FlowIInv => FlowTypeOK
  BY DEF FlowIInv, TableIInv, TraceIInv, ArgsIInv, FrameIInv, FrameShape, FlowLabels, ConfigType,
         FlowTypeOK
<1> QED
  BY <1>1, FlowHolds, PTL

\* parse_args, an argument at a time, accepts exactly the documented command
\* lines, and the last value of an option counts.
THEOREM CommandLineUnderstood == FlowSpec => ArgumentsExact
<1>1. FlowIInv /\ [FlowNext]_flowVars =>
        [flow_pc = "arguments" /\ flow_pc' # "arguments" =>
           IF AcceptableArguments(argv)
           THEN flow_pc' = "accounts" /\ config' = AskedFor(argv)
           ELSE flow_pc' = "exited"]_flowVars
  BY ArgumentsDecided DEF FlowIInv
<1> QED
  BY <1>1, FlowHolds, PTL DEF FlowSpec, ArgumentsExact

\* get_account agrees with the accounts file, by either of its paths.
THEOREM LookupAgrees == FlowSpec => []LookupExact
<1>1. FlowIInv => LookupExact
  BY LookupIsExact DEF FlowIInv
<1> QED
  BY <1>1, FlowHolds, PTL

\* parse_accounts_file fails at the first line that makes the file unacceptable.
THEOREM BadAccountsRejected == FlowSpec => []RejectsBadAccounts
<1>1. FlowIInv => RejectsBadAccounts
  BY VerdictOnAccounts DEF FlowIInv
<1> QED
  BY <1>1, FlowHolds, PTL

\* parse_trace_file gives each transaction its own operations in their order.
THEOREM TraceGrouped == FlowSpec => []GroupsTrace
<1>1. FlowIInv => GroupsTrace
  BY Grouping DEF FlowIInv
<1> QED
  BY <1>1, FlowHolds, PTL

\* parse_trace_file fails at the first line that makes the trace unacceptable.
THEOREM BadTraceRejected == FlowSpec => []RejectsBadTrace
<1>1. FlowIInv => RejectsBadTrace
  BY VerdictOnTrace DEF FlowIInv
<1> QED
  BY <1>1, FlowHolds, PTL

\* Every return and goto of main releases what exists and nothing else, but for
\* the bank's own mutex when the accounts file is refused.
THEOREM WaysOutCleanUp == FlowSpec => CleansUp
<1>1. FlowIInv /\ [FlowNext]_flowVars =>
        [/\ \A r \in Resources : life'[r] = "destroyed" => life[r] # "absent"
         /\ flow_pc' = "exited" =>
              /\ \A r \in Resources \ {"bank_lock"} : life'[r] # "live"
              /\ life'["bank_lock"] = "live" <=> accounts_pc = "failed"
              /\ "open" \notin {accounts_fp, trace_fp}
              /\ exit_code = "success" =>
                   /\ accounts_pc = "loaded" /\ trace_pc = "parsed"
                   /\ \A r \in Resources : life'[r] = "destroyed"]_flowVars
  BY NothingElseLeft
<1> QED
  BY <1>1, FlowHolds, PTL DEF FlowSpec, CleansUp
================================================================================
