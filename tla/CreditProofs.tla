---------------------------- MODULE CreditProofs ----------------------------
(***************************************************************************)
(* The credits, for every set of organizations, accounts, amounts, limits  *)
(* and sessions: the operations of CreditLedger keep the books; each of    *)
(* them is a move of CreditFlow, or none; and the interleaved transactions *)
(* of CreditTxn implement them.  Then the components beside the store: the *)
(* budget of an account, the rate card and the plan of an organization.    *)
(***************************************************************************)
EXTENDS MCCredit, FiniteSetTheorems, TLAPS

-----------------------------------------------------------------------------
(* The operations.  The conjunction of the type invariant and the four     *)
(* reconciliations is inductive; each operation disturbs only some of its  *)
(* conjuncts, and each lemma below is about one operation.                 *)

Reconciled == /\ ReservedIsCovered
              /\ PoolReconciles
              /\ LifetimeReconciles
              /\ BudgetReconciles

IInv == TypeOK /\ Reconciled

-----------------------------------------------------------------------------

(* One more positive (negative) row adds its amount to the total of its    *)
(* organization, whatever its type.                                        *)
LEMMA CreditedRow ==
  ASSUME NEW f \in [CreditTypes -> Nat], NEW t \in CreditTypes, NEW n \in Nat
  PROVE  LET g == [f EXCEPT ![t] = @ + n]
         IN g["purchase"] + g["allocation"] + g["refund"] + g["expiry"]
              = f["purchase"] + f["allocation"] + f["refund"] + f["expiry"] + n
BY DEF CreditTypes

LEMMA DebitedRow ==
  ASSUME NEW f \in [DebitTypes -> Nat], NEW t \in DebitTypes, NEW n \in Nat
  PROVE  LET g == [f EXCEPT ![t] = @ + n]
         IN g["consumption"] + g["expiry"] = f["consumption"] + f["expiry"] + n
BY DEF DebitTypes

LEMMA DebitedTotal ==
  ASSUME debited \in [Orgs -> [DebitTypes -> Nat]],
         NEW o \in Orgs, NEW t \in DebitTypes, NEW n \in Nat,
         debited' = [debited EXCEPT ![o][t] = @ + n]
  PROVE  /\ debited' \in [Orgs -> [DebitTypes -> Nat]]
         /\ Debited(o)' = Debited(o) + n
         /\ \A x \in Orgs \ {o} : Debited(x)' = Debited(x)
<1>1. /\ debited' \in [Orgs -> [DebitTypes -> Nat]]
      /\ debited'[o] = [debited[o] EXCEPT ![t] = @ + n]
      /\ \A x \in Orgs \ {o} : debited'[x] = debited[x]
  OBVIOUS
<1>2. debited[o] \in [DebitTypes -> Nat]
  OBVIOUS
<1> QED BY <1>1, <1>2, DebitedRow DEF Debited

LEMMA AddCreditsStep ==
  ASSUME IInv, NEW o \in Orgs, NEW t \in CreditTypes, NEW n \in Nat,
         AddCredits(o, t, n)
  PROVE  IInv'
<1> USE DEF IInv
<1>0. /\ credited' \in [Orgs -> [CreditTypes -> Nat]]
      /\ credited'[o] = [credited[o] EXCEPT ![t] = @ + n]
      /\ \A x \in Orgs \ {o} : credited'[x] = credited[x]
  <2>1. credited' = [credited EXCEPT ![o][t] = @ + n]
    BY DEF AddCredits
  <2> QED BY <2>1 DEF TypeOK
<1>1. TypeOK'
  <2>1. lifetime_purchased' \in [Orgs -> Nat]
    <3>1. lifetime_purchased \in [Orgs -> Nat]
      BY DEF TypeOK
    <3>2. CASE t \in {"purchase", "allocation"}
      <4>1. lifetime_purchased' = [lifetime_purchased EXCEPT ![o] = @ + n]
        BY <3>2 DEF AddCredits
      <4> QED BY <3>1, <4>1
    <3>3. CASE t \notin {"purchase", "allocation"}
      BY <3>1, <3>3 DEF AddCredits
    <3> QED BY <3>2, <3>3
  <2>2. balance' \in [Orgs -> Nat]
    <3>1. balance' = [balance EXCEPT ![o] = @ + n]
      BY DEF AddCredits
    <3> QED BY <3>1 DEF TypeOK
  <2>3. UNCHANGED <<reserved, lifetime_used, budget, lifecycle, debited, accountLedger, byHand>>
    BY DEF AddCredits
  <2> QED BY <1>0, <2>1, <2>2, <2>3 DEF TypeOK, budget, lifecycle, accountLedger, byHand
<1>2. /\ Credited(o)' = Credited(o) + n
      /\ \A x \in Orgs \ {o} : Credited(x)' = Credited(x)
  <2>1. credited[o] \in [CreditTypes -> Nat]
    BY DEF TypeOK
  <2>2. LET g == [credited[o] EXCEPT ![t] = @ + n]
        IN g["purchase"] + g["allocation"] + g["refund"] + g["expiry"]
             = Credited(o) + n
    BY <2>1, CreditedRow DEF Credited
  <2>4. Credited(o)' = Credited(o) + n
    BY <1>0, <2>2 DEF Credited
  <2>3. \A x \in Orgs \ {o} : Credited(x)' = Credited(x)
    BY <1>0 DEF Credited
  <2> QED BY <2>3, <2>4
<1>3. PoolReconciles'
  <2>1. /\ balance' = [balance EXCEPT ![o] = @ + n]
        /\ UNCHANGED <<debited, moved>>
    BY DEF AddCredits, accountLedger, byHand
  <2>2. \A x \in Orgs : Debited(x)' = Debited(x) /\ moved'[x] = moved[x]
    BY <2>1 DEF Debited
  <2>3. \A x \in Orgs : Credited(x) \in Nat /\ Debited(x) \in Nat /\ moved[x] \in Nat
    BY DEF TypeOK, Credited, Debited, CreditTypes, DebitTypes
  <2> QED BY <1>2, <2>1, <2>2, <2>3 DEF TypeOK, Reconciled, PoolReconciles
<1>4. LifetimeReconciles'
  <2>1. CASE t \in {"purchase", "allocation"}
    BY <2>1 DEF IInv, TypeOK, Reconciled, LifetimeReconciles, AddCredits, Debited,
                CreditTypes
  <2>2. CASE t \notin {"purchase", "allocation"}
    BY <2>2 DEF IInv, TypeOK, Reconciled, LifetimeReconciles, AddCredits, Debited,
                CreditTypes
  <2> QED BY <2>1, <2>2
<1>5. ReservedIsCovered'
  BY DEF IInv, TypeOK, Reconciled, ReservedIsCovered, AddCredits
<1>6. BudgetReconciles'
  BY DEF IInv, Reconciled, BudgetReconciles, AddCredits, budget, accountLedger, byHand
<1> QED BY <1>1, <1>3, <1>4, <1>5, <1>6 DEF IInv, Reconciled

LEMMA DebitStep ==
  ASSUME IInv, NEW o \in Orgs, NEW t \in DebitTypes, NEW n \in Nat, Debit(o, t, n)
  PROVE  IInv'
<1>1. TypeOK'
  BY DEF IInv, TypeOK, Debit, Available, budget, lifecycle, accountLedger, byHand
<1>2. /\ Debited(o)' = Debited(o) + n
      /\ \A x \in Orgs \ {o} : Debited(x)' = Debited(x)
  BY DebitedTotal DEF IInv, TypeOK, Debit
<1>3. PoolReconciles'
  BY <1>2 DEF IInv, TypeOK, Reconciled, PoolReconciles, Debit, Credited,
              Debited, CreditTypes, DebitTypes, accountLedger, byHand
<1>4. LifetimeReconciles'
  BY <1>2 DEF IInv, TypeOK, Reconciled, LifetimeReconciles, Debit
<1>5. ReservedIsCovered'
  BY DEF IInv, TypeOK, Reconciled, ReservedIsCovered, Debit, Available
<1>6. BudgetReconciles'
  BY DEF IInv, Reconciled, BudgetReconciles, Debit, budget, accountLedger, byHand
<1> QED BY <1>1, <1>3, <1>4, <1>5, <1>6 DEF IInv, Reconciled

LEMMA ReservationStep ==
  ASSUME IInv, NEW o \in Orgs, NEW n \in Nat,
         ReserveCredits(o, n) \/ ReleaseReserved(o, n)
  PROVE  IInv'
<1>1. UNCHANGED <<balance, lifetime_purchased, lifetime_used, budget, lifecycle,
                  poolLedger, accountLedger, byHand>>
  BY DEF ReserveCredits, ReleaseReserved
<1>2. /\ reserved' \in [Orgs -> Nat]
      /\ \A x \in Orgs : reserved'[x] <= balance[x]
  <2>1. CASE ReserveCredits(o, n)
    BY <2>1 DEF IInv, TypeOK, Reconciled, ReservedIsCovered, ReserveCredits, Available
  <2>2. CASE ReleaseReserved(o, n)
    BY <2>2 DEF IInv, TypeOK, Reconciled, ReservedIsCovered, ReleaseReserved
  <2> QED BY <2>1, <2>2
<1>3. TypeOK'
  BY <1>1, <1>2 DEF IInv, TypeOK, budget, lifecycle, poolLedger, accountLedger, byHand
<1>4. ReservedIsCovered'
  BY <1>1, <1>2 DEF ReservedIsCovered
<1>5. PoolReconciles' /\ LifetimeReconciles' /\ BudgetReconciles'
  BY <1>1 DEF IInv, Reconciled, PoolReconciles, LifetimeReconciles, BudgetReconciles,
         Credited, Debited, budget, poolLedger, accountLedger, byHand
<1> QED BY <1>3, <1>4, <1>5 DEF IInv, Reconciled

LEMMA CommitStep ==
  ASSUME IInv, NEW o \in Orgs, NEW n \in Nat, CommitReservedConsumption(o, n)
  PROVE  IInv'
<1>1. "consumption" \in DebitTypes
  BY DEF DebitTypes
<1>0. debited' = [debited EXCEPT ![o]["consumption"] = @ + n]
  BY DEF CommitReservedConsumption
<1>3. /\ debited' \in [Orgs -> [DebitTypes -> Nat]]
      /\ Debited(o)' = Debited(o) + n
      /\ \A x \in Orgs \ {o} : Debited(x)' = Debited(x)
  BY <1>1, <1>0, DebitedTotal DEF IInv, TypeOK
<1>2. TypeOK'
  BY <1>3 DEF IInv, TypeOK, CommitReservedConsumption, budget, lifecycle, accountLedger, byHand
<1>4. PoolReconciles'
  BY <1>3 DEF IInv, TypeOK, Reconciled, PoolReconciles, CommitReservedConsumption,
              Credited, Debited, CreditTypes, DebitTypes, accountLedger, byHand
<1>5. LifetimeReconciles'
  BY <1>3 DEF IInv, TypeOK, Reconciled, LifetimeReconciles, CommitReservedConsumption
<1>6. ReservedIsCovered'
  BY DEF IInv, TypeOK, Reconciled, ReservedIsCovered, CommitReservedConsumption
<1>7. BudgetReconciles'
  BY DEF IInv, Reconciled, BudgetReconciles, CommitReservedConsumption, budget,
         accountLedger, byHand
<1> QED BY <1>2, <1>4, <1>5, <1>6, <1>7 DEF IInv, Reconciled

(* The counters of one account, its rows and its opening.                  *)
OpeningTyped(op) == /\ op.allocated \in Int /\ op.used \in Int
                    /\ op.granted \in Nat /\ op.charged \in Nat
Counted(x) == /\ allocated_credits[x] \in Int /\ used_credits[x] \in Int
              /\ granted[x] \in Nat /\ charged[x] \in Nat
BudgetOf(x) ==
  /\ allocated_credits[x] = opening[x].allocated + (granted[x] - opening[x].granted)
  /\ used_credits[x] = opening[x].used + (charged[x] - opening[x].charged)
  /\ used_credits[x] > allocated_credits[x] => charged[x] = opening[x].charged

LEMMA CountersTyped ==
  ASSUME TypeOK, NEW x \in Accounts
  PROVE  OpeningTyped(opening[x]) /\ Counted(x)
<1>1. opening[x] \in Openings
  BY DEF TypeOK
<1> QED BY <1>1 DEF TypeOK, Openings, OpeningTyped, Counted

LEMMA AllocateStep ==
  ASSUME IInv, NEW o \in Orgs, NEW a \in Accounts, NEW n \in Nat,
         AllocateToAccount(o, a, n)
  PROVE  IInv'
<1>1. TypeOK'
  BY DEF IInv, TypeOK, AllocateToAccount, Available, lifecycle, poolLedger, byHand
<1>2. PoolReconciles'
  BY DEF IInv, TypeOK, Reconciled, PoolReconciles, AllocateToAccount, Credited,
         Debited, CreditTypes, DebitTypes, poolLedger
<1>3. LifetimeReconciles'
  BY DEF IInv, Reconciled, LifetimeReconciles, AllocateToAccount, Debited, poolLedger
<1>4. ReservedIsCovered'
  BY DEF IInv, TypeOK, Reconciled, ReservedIsCovered, AllocateToAccount, Available
<1>5. BudgetReconciles'
  <2> SUFFICES ASSUME NEW x \in Accounts
               PROVE  /\ allocated_credits'[x] = opening'[x].allocated + (granted'[x] - opening'[x].granted)
                      /\ used_credits'[x] = opening'[x].used + (charged'[x] - opening'[x].charged)
                      /\ used_credits'[x] > allocated_credits'[x] => charged'[x] = opening'[x].charged
    BY DEF BudgetReconciles
  <2>1. /\ UNCHANGED <<opening, charged, used_credits>>
        /\ allocated_credits'[x] = allocated_credits[x] + (IF x = a THEN n ELSE 0)
        /\ granted'[x] = granted[x] + (IF x = a THEN n ELSE 0)
    BY DEF AllocateToAccount, byHand, IInv, TypeOK
  <2>2. OpeningTyped(opening[x]) /\ Counted(x)
    BY CountersTyped DEF IInv
  <2>3. BudgetOf(x)
    BY DEF IInv, Reconciled, BudgetReconciles, BudgetOf
  <2> QED BY <2>1, <2>2, <2>3 DEF OpeningTyped, Counted, BudgetOf
<1> QED BY <1>1, <1>2, <1>3, <1>4, <1>5 DEF IInv, Reconciled

LEMMA ConsumeStep ==
  ASSUME IInv, NEW o \in Orgs, NEW a \in Accounts, NEW n \in Nat,
         ConsumeFromAccount(o, a, n)
  PROVE  IInv'
<1>1. TypeOK'
  BY DEF IInv, TypeOK, ConsumeFromAccount, pool, lifecycle, poolLedger, byHand
<1>2. BudgetReconciles'
  <2> SUFFICES ASSUME NEW x \in Accounts
               PROVE  /\ allocated_credits'[x] = opening'[x].allocated + (granted'[x] - opening'[x].granted)
                      /\ used_credits'[x] = opening'[x].used + (charged'[x] - opening'[x].charged)
                      /\ used_credits'[x] > allocated_credits'[x] => charged'[x] = opening'[x].charged
    BY DEF BudgetReconciles
  <2>1. /\ UNCHANGED <<opening, granted, allocated_credits>>
        /\ x = a => allocated_credits[x] - used_credits[x] >= n
        /\ used_credits'[x] = used_credits[x] + (IF x = a THEN n ELSE 0)
        /\ charged'[x] = charged[x] + (IF x = a THEN n ELSE 0)
    BY DEF ConsumeFromAccount, Remaining, byHand, IInv, TypeOK
  <2>2. OpeningTyped(opening[x]) /\ Counted(x)
    BY CountersTyped DEF IInv
  <2>3. BudgetOf(x)
    BY DEF IInv, Reconciled, BudgetReconciles, BudgetOf
  <2> QED BY <2>1, <2>2, <2>3 DEF OpeningTyped, Counted, BudgetOf
<1>3. PoolReconciles' /\ LifetimeReconciles' /\ ReservedIsCovered'
  BY DEF IInv, Reconciled, PoolReconciles, LifetimeReconciles, ReservedIsCovered,
         ConsumeFromAccount, Credited, Debited, pool, poolLedger
<1> QED BY <1>1, <1>2, <1>3 DEF IInv, Reconciled

(* The single-field writes of an account touch no counter.                *)
LEMMA AccountWriteStep ==
  ASSUME IInv, NEW o \in Orgs, NEW a \in Accounts,
         \/ \E l \in Limits : SetLimit(o, a, l)
         \/ \E s \in {"active", "inactive"} : SetStatus(o, a, s)
         \/ RemoveAccount(o, a)
  PROVE  IInv'
<1>1. TypeOK'
  <2>1. ASSUME NEW l \in Limits, SetLimit(o, a, l) PROVE TypeOK'
    <3>1. l \in Int
      BY LimitsAssumption
    <3> QED BY <2>1, <3>1 DEF IInv, TypeOK, SetLimit, pool, lifecycle, poolLedger,
               accountLedger, byHand
  <2>2. ASSUME NEW s \in {"active", "inactive"}, SetStatus(o, a, s) PROVE TypeOK'
    BY <2>2 DEF IInv, TypeOK, SetStatus, pool, budget, poolLedger, accountLedger, byHand
  <2>3. ASSUME RemoveAccount(o, a) PROVE TypeOK'
    <3>1. is_deleted' \in [Accounts -> BOOLEAN]
      BY <2>3 DEF IInv, TypeOK, RemoveAccount
    <3> QED BY <2>3, <3>1 DEF IInv, TypeOK, RemoveAccount, pool, budget, poolLedger,
               accountLedger, byHand
  <2> QED BY <2>1, <2>2, <2>3
<1>2. /\ UNCHANGED <<pool, poolLedger, accountLedger, opening>>
      /\ UNCHANGED <<allocated_credits, used_credits>>
  BY DEF SetLimit, SetStatus, RemoveAccount, budget, byHand
<1>3. Reconciled'
  BY <1>2 DEF IInv, Reconciled, PoolReconciles, LifetimeReconciles, ReservedIsCovered,
              BudgetReconciles, Credited, Debited, pool, poolLedger, accountLedger
<1> QED BY <1>1, <1>3 DEF IInv

(* A merge of two budgets is a budget.                                     *)
LEMMA MergeTyped ==
  ASSUME NEW b \in Budgets, NEW body \in BudgetBodies
  PROVE  MergedBudget(b, body) \in Budgets
<1>1. b.limit \in Int /\ b.allocated \in Int /\ b.used \in Int
  BY DEF Budgets
<1>2. \A f \in DOMAIN body : body[f] \in Int
  BY BodiesAssumption
<1> QED BY <1>1, <1>2 DEF MergedBudget, Budgets

(* A PATCH in flight holds a budget it read.                               *)
LEMMA ReadStep ==
  ASSUME IInv, NEW o \in Orgs, NEW a \in Accounts, NEW e \in Editors,
         ReadBudget(o, a, e)
  PROVE  IInv'
<1>1. UNCHANGED <<pool, budget, lifecycle, poolLedger, accountLedger, opening>>
  BY DEF ReadBudget
<1>2. edit' \in [Editors -> {NoEdit} \cup [acc : Accounts, read : Budgets]]
  <2>1. edit \in [Editors -> {NoEdit} \cup [acc : Accounts, read : Budgets]]
    BY DEF IInv, TypeOK
  <2> DEFINE b == [limit |-> credit_limit[a], allocated |-> allocated_credits[a],
                   used |-> used_credits[a]]
  <2>2. b \in Budgets
    BY DEF Budgets, IInv, TypeOK
  <2>3. edit' = [edit EXCEPT ![e] = [acc |-> a, read |-> b]]
    BY DEF ReadBudget
  <2> HIDE DEF b
  <2> QED BY <2>1, <2>2, <2>3
<1>3. TypeOK'
  BY <1>1, <1>2 DEF IInv, TypeOK, pool, budget, lifecycle, poolLedger, accountLedger
<1>4. Reconciled'
  BY <1>1 DEF IInv, Reconciled, PoolReconciles, LifetimeReconciles, ReservedIsCovered,
         BudgetReconciles, Credited, Debited, pool, budget, poolLedger, accountLedger
<1> QED BY <1>3, <1>4 DEF IInv

LEMMA DropStep ==
  ASSUME IInv, NEW e \in Editors, DropEdit(e)
  PROVE  IInv'
<1>1. /\ UNCHANGED <<pool, budget, lifecycle, poolLedger, accountLedger, opening>>
      /\ edit' = [edit EXCEPT ![e] = NoEdit]
  BY DEF DropEdit
<1>2. TypeOK'
  BY <1>1 DEF IInv, TypeOK, pool, budget, lifecycle, poolLedger, accountLedger
<1>3. Reconciled'
  BY <1>1 DEF IInv, Reconciled, PoolReconciles, LifetimeReconciles, ReservedIsCovered,
         BudgetReconciles, Credited, Debited, pool, budget, poolLedger, accountLedger
<1> QED BY <1>2, <1>3 DEF IInv

(* What a PATCH that may write does to the account: it writes some budget, *)
(* and that is the new opening unless its counters are the ones there.     *)
LEMMA Patched ==
  ASSUME IInv, NEW o \in Orgs, NEW a \in Accounts, NEW e \in Editors,
         NEW body \in BudgetBodies, NEW s \in {"active", "inactive"},
         PatchBudget(o, a, e, body, s)
  PROVE  \E l \in Int, m \in Int, u \in Int :
           /\ credit_limit' = [credit_limit EXCEPT ![a] = l]
           /\ allocated_credits' = [allocated_credits EXCEPT ![a] = m]
           /\ used_credits' = [used_credits EXCEPT ![a] = u]
           /\ IF m = allocated_credits[a] /\ u = used_credits[a]
              THEN opening' = opening
              ELSE opening' = [opening EXCEPT ![a] =
                     [allocated |-> m, used |-> u,
                      granted |-> granted[a], charged |-> charged[a]]]
<1>1. edit[e] \in [acc : Accounts, read : Budgets]
  BY DEF PatchBudget, IInv, TypeOK
<1>2. edit[e].read \in Budgets
  BY <1>1
<1> DEFINE b == MergedBudget(edit[e].read, body)
<1>3. b \in Budgets
  BY <1>2, MergeTyped
<1>4. b.limit \in Int /\ b.allocated \in Int /\ b.used \in Int
  BY <1>3 DEF Budgets
<1>5. /\ credit_limit' = [credit_limit EXCEPT ![a] = b.limit]
      /\ allocated_credits' = [allocated_credits EXCEPT ![a] = b.allocated]
      /\ used_credits' = [used_credits EXCEPT ![a] = b.used]
      /\ IF b.allocated = allocated_credits[a] /\ b.used = used_credits[a]
         THEN opening' = opening
         ELSE opening' = [opening EXCEPT ![a] =
                [allocated |-> b.allocated, used |-> b.used,
                 granted |-> granted[a], charged |-> charged[a]]]
  BY DEF PatchBudget
<1> HIDE DEF b
<1> QED BY <1>4, <1>5

LEMMA PatchStep ==
  ASSUME IInv, NEW o \in Orgs, NEW a \in Accounts, NEW e \in Editors,
         NEW body \in BudgetBodies, NEW s \in {"active", "inactive"},
         PatchBudget(o, a, e, body, s)
  PROVE  IInv'
<1>1. PICK l \in Int, m \in Int, u \in Int :
        /\ credit_limit' = [credit_limit EXCEPT ![a] = l]
        /\ allocated_credits' = [allocated_credits EXCEPT ![a] = m]
        /\ used_credits' = [used_credits EXCEPT ![a] = u]
        /\ IF m = allocated_credits[a] /\ u = used_credits[a]
           THEN opening' = opening
           ELSE opening' = [opening EXCEPT ![a] =
                  [allocated |-> m, used |-> u,
                   granted |-> granted[a], charged |-> charged[a]]]
  BY Patched
<1>2. /\ status' = [status EXCEPT ![a] = s]
      /\ edit' = [edit EXCEPT ![e] = NoEdit]
      /\ UNCHANGED <<pool, is_deleted, poolLedger, accountLedger>>
  BY DEF PatchBudget
<1>3. opening' \in [Accounts -> Openings]
  <2>1. opening \in [Accounts -> Openings] /\ granted[a] \in Nat /\ charged[a] \in Nat
    BY DEF IInv, TypeOK
  <2>2. [allocated |-> m, used |-> u, granted |-> granted[a], charged |-> charged[a]] \in Openings
    BY <2>1 DEF Openings
  <2> QED BY <1>1, <2>1, <2>2
<1>4. TypeOK'
  BY <1>1, <1>2, <1>3 DEF IInv, TypeOK, pool, poolLedger, accountLedger
<1>5. BudgetReconciles'
  <2> SUFFICES ASSUME NEW x \in Accounts
               PROVE  /\ allocated_credits'[x] = opening'[x].allocated + (granted'[x] - opening'[x].granted)
                      /\ used_credits'[x] = opening'[x].used + (charged'[x] - opening'[x].charged)
                      /\ used_credits'[x] > allocated_credits'[x] => charged'[x] = opening'[x].charged
    BY DEF BudgetReconciles
  <2>1. OpeningTyped(opening[x]) /\ Counted(x)
    BY CountersTyped DEF IInv
  <2>2. BudgetOf(x)
    BY DEF IInv, Reconciled, BudgetReconciles, BudgetOf
  <2>3. granted'[x] = granted[x] /\ charged'[x] = charged[x]
    BY <1>2 DEF accountLedger
  <2>4. CASE x # a \/ (m = allocated_credits[a] /\ u = used_credits[a])
    <3>1. /\ allocated_credits'[x] = allocated_credits[x] /\ used_credits'[x] = used_credits[x]
          /\ opening'[x] = opening[x]
      BY <1>1, <2>4 DEF IInv, TypeOK
    <3> QED BY <2>2, <2>3, <3>1 DEF BudgetOf
  <2>5. CASE x = a /\ ~(m = allocated_credits[a] /\ u = used_credits[a])
    <3>1. /\ allocated_credits'[x] = m /\ used_credits'[x] = u
          /\ opening'[x] = [allocated |-> m, used |-> u,
                            granted |-> granted[x], charged |-> charged[x]]
      BY <1>1, <2>5 DEF IInv, TypeOK
    <3> QED BY <2>1, <2>3, <3>1 DEF Counted
  <2> QED BY <2>4, <2>5
<1>6. PoolReconciles' /\ LifetimeReconciles' /\ ReservedIsCovered'
  BY <1>2 DEF IInv, Reconciled, PoolReconciles, LifetimeReconciles, ReservedIsCovered,
         Credited, Debited, pool, poolLedger, accountLedger
<1> QED BY <1>4, <1>5, <1>6 DEF IInv, Reconciled

LEMMA StutterStep == IInv /\ UNCHANGED vars => IInv'
BY DEF vars, pool, budget, lifecycle, poolLedger, accountLedger, byHand, IInv, TypeOK,
       Reconciled, PoolReconciles, LifetimeReconciles, ReservedIsCovered,
       BudgetReconciles, Credited, Debited

LEMMA InitInv == Init => IInv
<1> SUFFICES ASSUME Init PROVE IInv
  OBVIOUS
<1>1. /\ credit_limit \in [Accounts -> Int]
      /\ allocated_credits \in [Accounts -> Int]
      /\ used_credits \in [Accounts -> Int]
  <2>1. PICK made \in [Accounts -> CreatedBudgets] :
          /\ credit_limit = [a \in Accounts |-> made[a].limit]
          /\ allocated_credits = [a \in Accounts |-> made[a].allocated]
          /\ used_credits = [a \in Accounts |-> made[a].used]
    BY DEF Init
  <2>2. ASSUME NEW a \in Accounts PROVE made[a] \in Budgets
    <3>1. made[a] \in CreatedBudgets
      OBVIOUS
    <3>2. [limit |-> 0, allocated |-> 0, used |-> 0] \in Budgets
      BY DEF Budgets
    <3> QED BY <3>1, <3>2, MergeTyped DEF CreatedBudgets
  <2>3. ASSUME NEW a \in Accounts
        PROVE  made[a].limit \in Int /\ made[a].allocated \in Int /\ made[a].used \in Int
    BY <2>2 DEF Budgets
  <2> QED BY <2>1, <2>3
<1>2. opening = [a \in Accounts |-> [allocated |-> allocated_credits[a],
                                   used |-> used_credits[a], granted |-> 0, charged |-> 0]]
  BY DEF Init
<1>3. opening \in [Accounts -> Openings]
  BY <1>1, <1>2 DEF Openings
<1>4. TypeOK
  BY <1>1, <1>3 DEF Init, TypeOK
<1>5. BudgetReconciles
  <2> SUFFICES ASSUME NEW x \in Accounts PROVE BudgetOf(x)
    BY DEF BudgetReconciles, BudgetOf
  <2>1. opening[x] = [allocated |-> allocated_credits[x], used |-> used_credits[x],
                      granted |-> 0, charged |-> 0]
    BY <1>2
  <2>2. granted[x] = 0 /\ charged[x] = 0
    BY DEF Init
  <2> QED BY <1>1, <2>1, <2>2 DEF BudgetOf
<1>6. PoolReconciles /\ LifetimeReconciles /\ ReservedIsCovered
  BY DEF Init, PoolReconciles, LifetimeReconciles, ReservedIsCovered,
         Credited, Debited, CreditTypes, DebitTypes
<1> QED BY <1>4, <1>5, <1>6 DEF IInv, Reconciled

LEMMA NextInv == IInv /\ [Next]_vars => IInv'
<1> SUFFICES ASSUME IInv, [Next]_vars PROVE IInv'
  OBVIOUS
<1>1. ASSUME NEW o \in Orgs, PoolNext(o) PROVE IInv'
  <2> PICK n \in Amounts :
        \/ \E t \in CreditTypes : AddCredits(o, t, n)
        \/ \E t \in DebitTypes : Debit(o, t, n)
        \/ ReserveCredits(o, n)
        \/ ReleaseReserved(o, n)
        \/ CommitReservedConsumption(o, n)
    BY <1>1 DEF PoolNext
  <2>1. n \in Nat
    BY AmountsAssumption
  <2> QED BY <2>1, AddCreditsStep, DebitStep, ReservationStep, CommitStep
<1>2. ASSUME NEW o \in Orgs, NEW a \in Accounts, AccountNext(o, a) PROVE IInv'
  <2>1. CASE \E n \in Amounts : AllocateToAccount(o, a, n) \/ ConsumeFromAccount(o, a, n)
    BY <2>1, AmountsAssumption, AllocateStep, ConsumeStep
  <2>2. CASE \/ \E l \in Limits : SetLimit(o, a, l)
             \/ \E s \in {"active", "inactive"} : SetStatus(o, a, s)
             \/ RemoveAccount(o, a)
    BY <2>2, AccountWriteStep
  <2>3. CASE \E e \in Editors :
               \/ ReadBudget(o, a, e)
               \/ \E body \in BudgetBodies, s \in {"active", "inactive"} :
                    PatchBudget(o, a, e, body, s)
    BY <2>3, ReadStep, PatchStep
  <2> QED BY <1>2, <2>1, <2>2, <2>3 DEF AccountNext
<1>3. ASSUME NEW e \in Editors, DropEdit(e) PROVE IInv'
  BY <1>3, DropStep
<1> QED BY <1>1, <1>2, <1>3, StutterStep DEF Next

LEMMA Invariance == Spec => []IInv
BY InitInv, NextInv, PTL DEF Spec

-----------------------------------------------------------------------------

(* The counters of a pool and the sums of rows stay natural numbers: no    *)
(* interleaving of operations takes a balance or a hold below zero, which  *)
(* the schema's min: 0 asks for.  The budget of an account, whose schema   *)
(* asks for nothing, is any numbers a body may write.                      *)
THEOREM TypeCorrect == Spec => []TypeOK
BY Invariance, PTL DEF IInv

(* Credits held by reserveCredits are always in the pool.                  *)
THEOREM Reservations == Spec => []ReservedIsCovered
BY Invariance, PTL DEF IInv, Reconciled

(* Every total the services keep in a document is the one its ledger rows  *)
(* add up to: for a pool always, for an account on top of what its create  *)
(* or its last PATCH of the counters wrote; and consumption overspends no  *)
(* account.                                                                *)
THEOREM Audit == Spec => []LedgerReconciles
BY Invariance, PTL DEF IInv, Reconciled, LedgerReconciles

(* A step that changes a counter of an account is an allocation to it, a   *)
(* consumption from it, or a PATCH that puts it on record.                 *)
LEMMA BudgetMoves ==
  ASSUME IInv, Next, NEW x \in Accounts,
         \/ allocated_credits'[x] # allocated_credits[x]
         \/ used_credits'[x] # used_credits[x]
         \/ granted'[x] # granted[x]
         \/ charged'[x] # charged[x]
  PROVE  \/ /\ opening'[x] # opening[x] /\ ~is_deleted[x]
            /\ granted'[x] = granted[x] /\ charged'[x] = charged[x]
         \/ \E o \in Orgs, n \in Amounts : AllocateToAccount(o, x, n)
         \/ \E o \in Orgs, n \in Amounts : ConsumeFromAccount(o, x, n)
<1>0. TypeOK
  BY DEF IInv
<1>1. ~(\E e \in Editors : DropEdit(e))
  BY DEF DropEdit, budget, accountLedger
<1>2. PICK o \in Orgs : PoolNext(o) \/ \E a \in Accounts : AccountNext(o, a)
  BY <1>1 DEF Next
<1>3. ~PoolNext(o)
  BY DEF PoolNext, AddCredits, Debit, ReserveCredits, ReleaseReserved,
         CommitReservedConsumption, budget, accountLedger
<1>4. PICK a \in Accounts : AccountNext(o, a)
  BY <1>2, <1>3
<1>5. ~(\E l \in Limits : SetLimit(o, a, l)) /\ ~RemoveAccount(o, a)
  BY DEF SetLimit, RemoveAccount, budget, accountLedger
<1>6. ~(\E s \in {"active", "inactive"} : SetStatus(o, a, s))
  BY DEF SetStatus, budget, accountLedger
<1>7. ~(\E e \in Editors : ReadBudget(o, a, e))
  BY DEF ReadBudget, budget, accountLedger
<1>8. CASE \E n \in Amounts : AllocateToAccount(o, a, n)
  <2>1. PICK n \in Amounts : AllocateToAccount(o, a, n)
    BY <1>8
  <2>2. a = x
    BY <1>0, <2>1 DEF AllocateToAccount, TypeOK
  <2> QED BY <2>1, <2>2
<1>9. CASE \E n \in Amounts : ConsumeFromAccount(o, a, n)
  <2>1. PICK n \in Amounts : ConsumeFromAccount(o, a, n)
    BY <1>9
  <2>2. a = x
    BY <1>0, <2>1 DEF ConsumeFromAccount, TypeOK
  <2> QED BY <2>1, <2>2
<1>10. CASE \E e \in Editors, body \in BudgetBodies, s \in {"active", "inactive"} :
              PatchBudget(o, a, e, body, s)
  <2>1. PICK e \in Editors, body \in BudgetBodies, s \in {"active", "inactive"} :
          PatchBudget(o, a, e, body, s)
    BY <1>10
  <2>2. PICK l \in Int, m \in Int, u \in Int :
          /\ credit_limit' = [credit_limit EXCEPT ![a] = l]
          /\ allocated_credits' = [allocated_credits EXCEPT ![a] = m]
          /\ used_credits' = [used_credits EXCEPT ![a] = u]
          /\ IF m = allocated_credits[a] /\ u = used_credits[a]
             THEN opening' = opening
             ELSE opening' = [opening EXCEPT ![a] =
                    [allocated |-> m, used |-> u,
                     granted |-> granted[a], charged |-> charged[a]]]
    BY <2>1, Patched
  <2>3. granted' = granted /\ charged' = charged /\ ~is_deleted[a]
    BY <2>1 DEF PatchBudget, AccountBelongsToOrg, accountLedger
  <2>4. a = x
    BY <1>0, <2>2, <2>3 DEF TypeOK
  <2>5. ~(m = allocated_credits[x] /\ u = used_credits[x])
    BY <1>0, <2>2, <2>3, <2>4 DEF TypeOK
  <2>6. opening'[x] = [allocated |-> m, used |-> u,
                       granted |-> granted[x], charged |-> charged[x]]
    BY <1>0, <2>2, <2>4, <2>5 DEF TypeOK
  <2>7. BudgetOf(x)
    BY DEF IInv, Reconciled, BudgetReconciles, BudgetOf
  <2>8. OpeningTyped(opening[x]) /\ Counted(x)
    BY <1>0, CountersTyped
  <2>9. opening'[x] # opening[x]
    <3> SUFFICES ASSUME opening'[x] = opening[x] PROVE FALSE
      OBVIOUS
    <3>1. /\ opening[x].allocated = m /\ opening[x].used = u
          /\ opening[x].granted = granted[x] /\ opening[x].charged = charged[x]
      BY <2>6
    <3>2. m = allocated_credits[x] /\ u = used_credits[x]
      BY <2>7, <2>8, <3>1 DEF BudgetOf, Counted
    <3> QED BY <2>5, <3>2
  <2> QED BY <2>3, <2>4, <2>9
<1> QED BY <1>4, <1>5, <1>6, <1>7, <1>8, <1>9, <1>10 DEF AccountNext

(* Only a PATCH on record raises an allocation past the limit in force.    *)
THEOREM AllocationLimit == Spec => AllocationRespectsLimit
<1>1. IInv /\ [Next]_vars =>
        [\A a \in Accounts :
           (allocated_credits'[a] > allocated_credits[a] /\ opening'[a] = opening[a]) =>
             \/ credit_limit[a] <= 0
             \/ allocated_credits'[a] <= credit_limit[a]]_vars
  <2> SUFFICES ASSUME IInv, Next, NEW x \in Accounts,
                      allocated_credits'[x] > allocated_credits[x],
                      opening'[x] = opening[x]
               PROVE  \/ credit_limit[x] <= 0
                      \/ allocated_credits'[x] <= credit_limit[x]
    OBVIOUS
  <2>1. Counted(x) /\ credit_limit[x] \in Int /\ TypeOK
    BY CountersTyped DEF IInv, TypeOK
  <2>2. allocated_credits'[x] # allocated_credits[x]
    BY <2>1 DEF Counted
  <2>3. ~(\E o \in Orgs, n \in Amounts : ConsumeFromAccount(o, x, n))
    BY <2>2 DEF ConsumeFromAccount
  <2>4. PICK o \in Orgs, n \in Amounts : AllocateToAccount(o, x, n)
    BY <2>2, <2>3, BudgetMoves
  <2>5. allocated_credits'[x] = allocated_credits[x] + n /\ WithinLimit(x, n) /\ n \in Nat
    BY <2>1, <2>4, AmountsAssumption DEF AllocateToAccount, TypeOK
  <2> QED BY <2>1, <2>5 DEF WithinLimit, Counted
<1> QED BY <1>1, Invariance, PTL DEF Spec, AllocationRespectsLimit

(* Credits move in or out of an account only while it is active, and what  *)
(* is removed stays as it is.                                              *)
THEOREM FrozenBudgets == Spec => InactiveBudgetIsFrozen
<1>1. IInv /\ [Next]_vars =>
        [\A a \in Accounts :
           (is_deleted[a] \/ status[a] = "inactive") =>
             /\ granted'[a] = granted[a] /\ charged'[a] = charged[a]
             /\ \/ allocated_credits'[a] = allocated_credits[a] /\ used_credits'[a] = used_credits[a]
                \/ ~is_deleted[a] /\ opening'[a] # opening[a]
             /\ is_deleted[a] => is_deleted'[a]]_vars
  <2> SUFFICES ASSUME IInv, Next, NEW x \in Accounts,
                      is_deleted[x] \/ status[x] = "inactive"
               PROVE  /\ granted'[x] = granted[x] /\ charged'[x] = charged[x]
                      /\ \/ /\ allocated_credits'[x] = allocated_credits[x]
                            /\ used_credits'[x] = used_credits[x]
                         \/ ~is_deleted[x] /\ opening'[x] # opening[x]
                      /\ is_deleted[x] => is_deleted'[x]
    OBVIOUS
  <2>1. \A o \in Orgs : ~ActiveAccountOf(o, x)
    BY DEF ActiveAccountOf, AccountBelongsToOrg
  <2>2. \A o \in Orgs, n \in Amounts : ~AllocateToAccount(o, x, n) /\ ~ConsumeFromAccount(o, x, n)
    BY <2>1 DEF AllocateToAccount, ConsumeFromAccount
  <2>3. is_deleted[x] => is_deleted'[x]
    <3>1. ASSUME NEW o \in Orgs, PoolNext(o) PROVE is_deleted' = is_deleted
      BY <3>1 DEF PoolNext, AddCredits, Debit, ReserveCredits, ReleaseReserved,
                  CommitReservedConsumption, lifecycle
    <3>2. ASSUME NEW o \in Orgs, NEW a \in Accounts, AccountNext(o, a)
          PROVE  is_deleted' = is_deleted \/ is_deleted' = [is_deleted EXCEPT ![a] = TRUE]
      BY <3>2 DEF AccountNext, AllocateToAccount, ConsumeFromAccount, SetLimit,
                  SetStatus, RemoveAccount, ReadBudget, PatchBudget, lifecycle
    <3>3. ASSUME NEW e \in Editors, DropEdit(e) PROVE is_deleted' = is_deleted
      BY <3>3 DEF DropEdit, lifecycle
    <3> QED BY <3>1, <3>2, <3>3 DEF Next, TypeOK, IInv
  <2> QED BY <2>2, <2>3, BudgetMoves
<1> QED BY <1>1, Invariance, PTL DEF Spec, InactiveBudgetIsFrozen

-----------------------------------------------------------------------------
(* CreditLedger implements CreditFlow: each operation is one move of       *)
(* credits between two places, or none, when the places are read off the   *)
(* documents as the instance Flow says.                                    *)

(* The places, read off the documents.                                     *)
Free == [o \in Orgs |-> balance[o] - reserved[o]]
Unused == [a \in Accounts |-> allocated_credits[a] - used_credits[a]]

(* A function that differs from f at x only is f with the value at x       *)
(* replaced.                                                               *)
LEMMA OnePlace ==
  ASSUME NEW S, NEW f \in [S -> Int], NEW g \in [S -> Int], NEW x \in S, NEW v \in Int,
         g[x] = v, \A y \in S \ {x} : g[y] = f[y]
  PROVE  g = [f EXCEPT ![x] = v]
OBVIOUS

(* What a pool's documents say is free rises when balance does or when     *)
(* reserved falls, and falls the other way round.                          *)
LEMMA FreeRises ==
  ASSUME TypeOK, NEW o \in Orgs, NEW n \in Nat,
         \/ balance' = [balance EXCEPT ![o] = @ + n] /\ reserved' = reserved
         \/ balance' = balance /\ reserved' = [reserved EXCEPT ![o] = @ - n]
  PROVE  Free' = [Free EXCEPT ![o] = @ + n]
<1>1. balance \in [Orgs -> Nat] /\ reserved \in [Orgs -> Nat]
  BY DEF TypeOK
<1>2. balance'[o] - reserved'[o] = balance[o] - reserved[o] + n
  BY <1>1
<1>3. \A x \in Orgs \ {o} : balance'[x] = balance[x] /\ reserved'[x] = reserved[x]
  BY <1>1
<1>4. \A x \in Orgs : balance'[x] \in Int /\ reserved'[x] \in Int
  BY <1>1
<1>5. /\ Free \in [Orgs -> Int] /\ Free' \in [Orgs -> Int]
      /\ Free'[o] = Free[o] + n
      /\ \A x \in Orgs \ {o} : Free'[x] = Free[x]
  BY <1>1, <1>2, <1>3, <1>4 DEF Free
<1>6. Free[o] + n \in Int
  BY <1>5
<1> QED BY <1>5, <1>6, OnePlace

LEMMA FreeFalls ==
  ASSUME TypeOK, NEW o \in Orgs, NEW n \in Nat,
         \/ balance' = [balance EXCEPT ![o] = @ - n] /\ reserved' = reserved
         \/ balance' = balance /\ reserved' = [reserved EXCEPT ![o] = @ + n]
  PROVE  Free' = [Free EXCEPT ![o] = @ - n]
<1>1. balance \in [Orgs -> Nat] /\ reserved \in [Orgs -> Nat]
  BY DEF TypeOK
<1>2. balance'[o] - reserved'[o] = balance[o] - reserved[o] - n
  BY <1>1
<1>3. \A x \in Orgs \ {o} : balance'[x] = balance[x] /\ reserved'[x] = reserved[x]
  BY <1>1
<1>4. \A x \in Orgs : balance'[x] \in Int /\ reserved'[x] \in Int
  BY <1>1
<1>5. /\ Free \in [Orgs -> Int] /\ Free' \in [Orgs -> Int]
      /\ Free'[o] = Free[o] - n
      /\ \A x \in Orgs \ {o} : Free'[x] = Free[x]
  BY <1>1, <1>2, <1>3, <1>4 DEF Free
<1>6. Free[o] - n \in Int
  BY <1>5
<1> QED BY <1>5, <1>6, OnePlace

(* An account's unused credits follow its two counters.                    *)
LEMMA UnusedMoves ==
  ASSUME TypeOK, NEW a \in Accounts, NEW n \in Nat
  PROVE  /\ /\ allocated_credits' = [allocated_credits EXCEPT ![a] = @ + n]
            /\ used_credits' = used_credits
            => Unused' = [Unused EXCEPT ![a] = @ + n]
         /\ /\ allocated_credits' = allocated_credits
            /\ used_credits' = [used_credits EXCEPT ![a] = @ + n]
            => Unused' = [Unused EXCEPT ![a] = @ - n]
<1>1. allocated_credits \in [Accounts -> Int] /\ used_credits \in [Accounts -> Int]
  BY DEF TypeOK
<1>2. Unused \in [Accounts -> Int] /\ Unused[a] + n \in Int /\ Unused[a] - n \in Int
  BY <1>1 DEF Unused
<1>3. ASSUME allocated_credits' = [allocated_credits EXCEPT ![a] = @ + n],
             used_credits' = used_credits
      PROVE  Unused' = [Unused EXCEPT ![a] = @ + n]
  <2>1. \A x \in Accounts : /\ allocated_credits'[x] \in Int /\ used_credits'[x] \in Int
                            /\ used_credits'[x] = used_credits[x]
    BY <1>1, <1>3
  <2>2. /\ allocated_credits'[a] = allocated_credits[a] + n
        /\ \A x \in Accounts \ {a} : allocated_credits'[x] = allocated_credits[x]
    BY <1>1, <1>3
  <2>3. /\ Unused' \in [Accounts -> Int]
        /\ Unused'[a] = Unused[a] + n
        /\ \A x \in Accounts \ {a} : Unused'[x] = Unused[x]
    BY <1>1, <2>1, <2>2 DEF Unused
  <2> QED BY <1>2, <2>3, OnePlace
<1>4. ASSUME allocated_credits' = allocated_credits,
             used_credits' = [used_credits EXCEPT ![a] = @ + n]
      PROVE  Unused' = [Unused EXCEPT ![a] = @ - n]
  <2>1. \A x \in Accounts : /\ allocated_credits'[x] \in Int /\ used_credits'[x] \in Int
                            /\ allocated_credits'[x] = allocated_credits[x]
    BY <1>1, <1>4
  <2>2. /\ used_credits'[a] = used_credits[a] + n
        /\ \A x \in Accounts \ {a} : used_credits'[x] = used_credits[x]
    BY <1>1, <1>4
  <2>3. /\ Unused' \in [Accounts -> Int]
        /\ Unused'[a] = Unused[a] - n
        /\ \A x \in Accounts \ {a} : Unused'[x] = Unused[x]
    BY <1>1, <2>1, <2>2 DEF Unused
  <2> QED BY <1>2, <2>3, OnePlace
<1> QED BY <1>3, <1>4

LEMMA AddIsIssue ==
  ASSUME TypeOK, NEW o \in Orgs, NEW t \in CreditTypes, NEW n \in Nat,
         AddCredits(o, t, n)
  PROVE  Flow!Issue(o, n)
<1>1. /\ balance' = [balance EXCEPT ![o] = @ + n]
      /\ UNCHANGED <<reserved, lifetime_used, budget, opening>>
  BY DEF AddCredits, byHand
<1>2. Free' = [Free EXCEPT ![o] = @ + n]
  BY <1>1, FreeRises
<1>3. Unused' = Unused /\ UNCHANGED used_credits
  BY <1>1 DEF budget, Unused
<1> QED BY <1>1, <1>2, <1>3 DEF Flow!Issue, Free, Unused

LEMMA DebitIsSpendFree ==
  ASSUME TypeOK, NEW o \in Orgs, NEW t \in DebitTypes, NEW n \in Nat, Debit(o, t, n)
  PROVE  Flow!SpendFree(o, n)
<1>1. /\ balance[o] - reserved[o] >= n
      /\ balance' = [balance EXCEPT ![o] = @ - n]
      /\ lifetime_used' = [lifetime_used EXCEPT ![o] = @ + n]
      /\ UNCHANGED <<reserved, budget, opening>>
  BY DEF Debit, Available, byHand
<1>3. Free' = [Free EXCEPT ![o] = @ - n]
  BY <1>1, FreeFalls
<1>4. Unused' = Unused /\ UNCHANGED used_credits
  BY <1>1 DEF budget, Unused
<1>5. Free[o] >= n
  BY <1>1 DEF Free
<1> QED BY <1>1, <1>3, <1>4, <1>5 DEF Flow!SpendFree, Free, Unused

LEMMA ReserveIsHold ==
  ASSUME TypeOK, NEW o \in Orgs, NEW n \in Nat, ReserveCredits(o, n)
  PROVE  Flow!Hold(o, n)
<1>1. /\ balance[o] - reserved[o] >= n
      /\ reserved' = [reserved EXCEPT ![o] = @ + n]
      /\ UNCHANGED <<balance, lifetime_used, budget, opening>>
  BY DEF ReserveCredits, Available, byHand
<1>3. Free' = [Free EXCEPT ![o] = @ - n]
  BY <1>1, FreeFalls
<1>4. Unused' = Unused /\ UNCHANGED used_credits
  BY <1>1 DEF budget, Unused
<1>5. Free[o] >= n
  BY <1>1 DEF Free
<1> QED BY <1>1, <1>3, <1>4, <1>5 DEF Flow!Hold, Free, Unused

LEMMA ReleaseIsRelease ==
  ASSUME TypeOK, NEW o \in Orgs, NEW n \in Nat, ReleaseReserved(o, n)
  PROVE  Flow!Release(o, n)
<1>1. /\ reserved[o] >= n
      /\ reserved' = [reserved EXCEPT ![o] = @ - n]
      /\ UNCHANGED <<balance, lifetime_used, budget, opening>>
  BY DEF ReleaseReserved, byHand
<1>2. Free' = [Free EXCEPT ![o] = @ + n]
  BY <1>1, FreeRises
<1>3. Unused' = Unused /\ UNCHANGED used_credits
  BY <1>1 DEF budget, Unused
<1> QED BY <1>1, <1>2, <1>3 DEF Flow!Release, Free, Unused

(* balance and reserved fall together, so what is free stays.              *)
LEMMA CommitIsSpendHeld ==
  ASSUME TypeOK, NEW o \in Orgs, NEW n \in Nat, CommitReservedConsumption(o, n)
  PROVE  Flow!SpendHeld(o, n)
<1>1. /\ reserved[o] >= n
      /\ reserved' = [reserved EXCEPT ![o] = @ - n]
      /\ balance' = [balance EXCEPT ![o] = @ - n]
      /\ lifetime_used' = [lifetime_used EXCEPT ![o] = @ + n]
      /\ UNCHANGED <<budget, opening>>
  BY DEF CommitReservedConsumption, byHand
<1>2. Free' = Free
  BY <1>1 DEF Free, TypeOK
<1>3. Unused' = Unused /\ UNCHANGED used_credits
  BY <1>1 DEF budget, Unused
<1> QED BY <1>1, <1>2, <1>3 DEF Flow!SpendHeld, Free, Unused

(* The account belongs to the organization whose pool pays.                *)
LEMMA AllocateIsGive ==
  ASSUME TypeOK, NEW o \in Orgs, NEW a \in Accounts, NEW n \in Nat,
         AllocateToAccount(o, a, n)
  PROVE  Flow!Give(a, n)
<1>1. /\ OrgOf[a] = o
      /\ balance[o] - reserved[o] >= n
      /\ balance' = [balance EXCEPT ![o] = @ - n]
      /\ allocated_credits' = [allocated_credits EXCEPT ![a] = @ + n]
      /\ UNCHANGED <<reserved, lifetime_used, used_credits, opening>>
  BY DEF AllocateToAccount, Available, ActiveAccountOf, AccountBelongsToOrg, byHand
<1>3. Free' = [Free EXCEPT ![o] = @ - n]
  BY <1>1, FreeFalls
<1>4. Unused' = [Unused EXCEPT ![a] = @ + n]
  BY <1>1, UnusedMoves
<1>5. Free[o] >= n
  BY <1>1 DEF Free
<1> QED BY <1>1, <1>3, <1>4, <1>5 DEF Flow!Give, Free, Unused

LEMMA ConsumeIsUse ==
  ASSUME TypeOK, NEW o \in Orgs, NEW a \in Accounts, NEW n \in Nat,
         ConsumeFromAccount(o, a, n)
  PROVE  Flow!Use(a, n)
<1>1. /\ allocated_credits[a] - used_credits[a] >= n
      /\ used_credits' = [used_credits EXCEPT ![a] = @ + n]
      /\ UNCHANGED <<balance, reserved, lifetime_used, allocated_credits, opening>>
  BY DEF ConsumeFromAccount, Remaining, pool, byHand
<1>2. Free' = Free
  BY <1>1 DEF Free
<1>3. Unused' = [Unused EXCEPT ![a] = @ - n]
  BY <1>1, UnusedMoves
<1>4. Unused[a] >= n
  BY <1>1 DEF Unused
<1> QED BY <1>1, <1>2, <1>3, <1>4 DEF Flow!Use, Free, Unused

(* The other services' writes of an account, and a step that changes       *)
(* nothing here, move no credit.                                           *)
LEMMA WriteMovesNothing ==
  ASSUME NEW o \in Orgs, NEW a \in Accounts,
         \/ \E l \in Limits : SetLimit(o, a, l)
         \/ \E s \in {"active", "inactive"} : SetStatus(o, a, s)
         \/ RemoveAccount(o, a)
         \/ \E e \in Editors : ReadBudget(o, a, e)
  PROVE  UNCHANGED Flow!places
<1>1. UNCHANGED <<balance, reserved, lifetime_used, allocated_credits, used_credits, opening>>
  BY DEF SetLimit, SetStatus, RemoveAccount, ReadBudget, pool, budget, byHand
<1> QED BY <1>1 DEF Flow!places

(* A PATCH that puts other counters on record is a statement; one that     *)
(* leaves them as they are moves nothing.                                  *)
LEMMA PatchIsRestate ==
  ASSUME IInv, NEW o \in Orgs, NEW a \in Accounts, NEW e \in Editors,
         NEW body \in BudgetBodies, NEW s \in {"active", "inactive"},
         PatchBudget(o, a, e, body, s)
  PROVE  Flow!Restate(a) \/ UNCHANGED Flow!places
<1>1. PICK l \in Int, m \in Int, u \in Int :
        /\ credit_limit' = [credit_limit EXCEPT ![a] = l]
        /\ allocated_credits' = [allocated_credits EXCEPT ![a] = m]
        /\ used_credits' = [used_credits EXCEPT ![a] = u]
        /\ IF m = allocated_credits[a] /\ u = used_credits[a]
           THEN opening' = opening
           ELSE opening' = [opening EXCEPT ![a] =
                  [allocated |-> m, used |-> u,
                   granted |-> granted[a], charged |-> charged[a]]]
  BY Patched
<1>2. /\ UNCHANGED <<balance, reserved, lifetime_used>>
      /\ Free' = Free
  BY DEF PatchBudget, pool, Free
<1>3. /\ allocated_credits \in [Accounts -> Int] /\ used_credits \in [Accounts -> Int]
      /\ opening \in [Accounts -> Openings]
  BY DEF IInv, TypeOK
<1>4. CASE m = allocated_credits[a] /\ u = used_credits[a]
  <2>1. UNCHANGED <<allocated_credits, used_credits, opening>>
    BY <1>1, <1>3, <1>4
  <2> QED BY <1>2, <2>1 DEF Flow!places
<1>5. CASE ~(m = allocated_credits[a] /\ u = used_credits[a])
  <2>1. opening' = [opening EXCEPT ![a] = [allocated |-> m, used |-> u,
                      granted |-> granted[a], charged |-> charged[a]]]
    BY <1>1, <1>5
  <2>2. opening'[a] = [allocated |-> m, used |-> u,
                       granted |-> granted[a], charged |-> charged[a]]
    BY <1>3, <2>1
  <2>3. opening'[a].allocated = m /\ opening'[a].used = u
    BY <2>2
  <2>4. opening' = [opening EXCEPT ![a] = opening'[a]]
    BY <2>1, <2>2
  <2>5. used_credits' = [used_credits EXCEPT ![a] = opening'[a].used]
    BY <1>1, <2>3
  <2>6. Unused' = [Unused EXCEPT ![a] = opening'[a].allocated - opening'[a].used]
    <3>1. /\ allocated_credits'[a] = m /\ used_credits'[a] = u
          /\ \A x \in Accounts \ {a} : /\ allocated_credits'[x] = allocated_credits[x]
                                       /\ used_credits'[x] = used_credits[x]
      BY <1>1, <1>3
    <3>2. /\ Unused \in [Accounts -> Int] /\ Unused' \in [Accounts -> Int]
          /\ Unused'[a] = m - u /\ m - u \in Int
          /\ \A x \in Accounts \ {a} : Unused'[x] = Unused[x]
      BY <1>3, <3>1 DEF Unused
    <3>3. Unused' = [Unused EXCEPT ![a] = m - u]
      BY <3>2, OnePlace
    <3> QED BY <2>3, <3>3
  <2> QED BY <1>2, <2>4, <2>5, <2>6 DEF Flow!Restate, Free, Unused
<1> QED BY <1>4, <1>5

LEMMA FlowStart == Init => Flow!FlowInit
<1> SUFFICES ASSUME Init PROVE Flow!FlowInit
  OBVIOUS
<1>1. allocated_credits \in [Accounts -> Int] /\ used_credits \in [Accounts -> Int]
  BY InitInv DEF IInv, TypeOK
<1>2. opening = [a \in Accounts |-> [allocated |-> allocated_credits[a],
                                   used |-> used_credits[a], granted |-> 0, charged |-> 0]]
  BY DEF Init
<1>3. \A a \in Accounts : /\ opening[a].allocated = allocated_credits[a]
                          /\ opening[a].used = used_credits[a]
  BY <1>2
<1>4. /\ balance = [o \in Orgs |-> 0] /\ reserved = [o \in Orgs |-> 0]
      /\ lifetime_used = [o \in Orgs |-> 0]
  BY DEF Init
<1> QED BY <1>1, <1>3, <1>4 DEF Flow!FlowInit

LEMMA FlowStep == IInv /\ [Next]_vars => [Flow!FlowNext]_(Flow!places)
<1> SUFFICES ASSUME IInv, [Next]_vars
             PROVE  Flow!FlowNext \/ UNCHANGED Flow!places
  OBVIOUS
<1>0. TypeOK
  BY DEF IInv
<1>1. ASSUME NEW o \in Orgs, PoolNext(o) PROVE Flow!FlowNext
  <2> PICK n \in Amounts :
        \/ \E t \in CreditTypes : AddCredits(o, t, n)
        \/ \E t \in DebitTypes : Debit(o, t, n)
        \/ ReserveCredits(o, n)
        \/ ReleaseReserved(o, n)
        \/ CommitReservedConsumption(o, n)
    BY <1>1 DEF PoolNext
  <2>1. n \in Nat
    BY AmountsAssumption
  <2>2. \/ Flow!Issue(o, n) \/ Flow!SpendFree(o, n) \/ Flow!Hold(o, n)
        \/ Flow!Release(o, n) \/ Flow!SpendHeld(o, n)
    BY <1>0, <2>1, AddIsIssue, DebitIsSpendFree, ReserveIsHold, ReleaseIsRelease,
       CommitIsSpendHeld
  <2> QED BY <2>2 DEF Flow!FlowNext
<1>2. ASSUME NEW o \in Orgs, NEW a \in Accounts, AccountNext(o, a)
      PROVE  Flow!FlowNext \/ UNCHANGED Flow!places
  <2>1. CASE \E n \in Amounts : AllocateToAccount(o, a, n) \/ ConsumeFromAccount(o, a, n)
    <3> PICK n \in Amounts : AllocateToAccount(o, a, n) \/ ConsumeFromAccount(o, a, n)
      BY <2>1
    <3>1. n \in Nat
      BY AmountsAssumption
    <3>2. Flow!Give(a, n) \/ Flow!Use(a, n)
      BY <1>0, <3>1, AllocateIsGive, ConsumeIsUse
    <3> QED BY <3>2 DEF Flow!FlowNext
  <2>2. CASE \/ \E l \in Limits : SetLimit(o, a, l)
             \/ \E s \in {"active", "inactive"} : SetStatus(o, a, s)
             \/ RemoveAccount(o, a)
             \/ \E e \in Editors : ReadBudget(o, a, e)
    BY <2>2, WriteMovesNothing
  <2>3. CASE \E e \in Editors, body \in BudgetBodies, s \in {"active", "inactive"} :
               PatchBudget(o, a, e, body, s)
    BY <2>3, PatchIsRestate DEF Flow!FlowNext
  <2> QED BY <1>2, <2>1, <2>2, <2>3 DEF AccountNext
<1>3. ASSUME NEW e \in Editors, DropEdit(e) PROVE UNCHANGED Flow!places
  BY <1>3 DEF DropEdit, pool, budget, Flow!places
<1>4. CASE UNCHANGED vars
  BY <1>4 DEF vars, pool, budget, byHand, Flow!places
<1> QED BY <1>1, <1>2, <1>3, <1>4 DEF Next

(* The documents implement the abstract promise: a credit is always in     *)
(* exactly one place, and no operation, for any number of organizations    *)
(* and accounts, moves one along a path CreditFlow does not have; a PATCH  *)
(* that writes the counters of an account is a statement on record.        *)
THEOREM FlowIsImplemented == Spec => ImplementsFlow
<1> QED BY Invariance, FlowStart, FlowStep, PTL DEF Spec, ImplementsFlow, Flow!FlowSpec

-----------------------------------------------------------------------------
(* The interleaved transactions implement the operations.  A commit writes *)
(* values computed from a snapshot; what has to be shown is that the       *)
(* snapshot, and every check made on it, is still true of the documents at *)
(* that moment.  The inductive invariant says why: what an open            *)
(* transaction has read of a document is current unless the document is    *)
(* marked stale for it, and a document it has written is locked by it and  *)
(* not stale.                                                              *)

(* The documents as a snapshot taken now would have them, and the          *)
(* operations it would accept.                                             *)
CurrentDocs == [d \in Docs |-> IF d \in Orgs THEN PoolSnapshot(d) ELSE BudgetSnapshot(d)]
Acceptable == {op \in Ops : Accepts(op)}

OpKinds == {"add", "debit", "reserve", "release", "commit", "allocate", "consume"}
PoolDocs == [balance : Nat, reserved : Nat, purchased : Nat, used : Nat]
BudgetDocs == [allocated : Int, used : Int]
Begun == [pc : {"begin"}, op : Ops]
Opened == [pc : {"open"}, op : Ops,
           docs : UNION {[W -> PoolDocs \cup BudgetDocs] : W \in SUBSET Docs},
           todo : SUBSET Docs, stale : SUBSET Docs]

SessionsTyped ==
  /\ session \in [Sessions -> {Idle} \cup Begun \cup Opened]
  /\ lock \in [Docs -> Sessions \cup {NoSession}]
  /\ \A s \in Sessions :
       session[s] # Idle /\ session[s].op.kind = "allocate" => ValidatorStubbed

(* What an open transaction t still knows of the documents and of its      *)
(* checks.                                                                 *)
Knows(t, current, acceptable) ==
  /\ \A d \in WriteSet(t.op) \ t.stale : t.docs[d] = current[d]
  /\ WriteSet(t.op) \cap t.stale = {} => t.op \in acceptable

(* The documents it has written are its own.                               *)
Owns(s, t, locks) == \A d \in WriteSet(t.op) \ t.todo : locks[d] = s /\ d \notin t.stale

OpenIsSound ==
  \A s \in Sessions : session[s].pc = "open" =>
    /\ Knows(session[s], CurrentDocs, Acceptable)
    /\ Owns(s, session[s], lock)

TxnInv == IInv /\ SessionsTyped /\ OpenIsSound

-----------------------------------------------------------------------------
(* Functions, pointwise                                                    *)

LEMMA ChangedAt ==
  ASSUME NEW S, NEW f \in [S -> Int], NEW g, g = [y \in S |-> g[y]],
         NEW x \in S, NEW v, g[x] = v, \A y \in S \ {x} : g[y] = f[y]
  PROVE  g = [f EXCEPT ![x] = v]
OBVIOUS

LEMMA ChangedNowhere ==
  ASSUME NEW S, NEW f \in [S -> Int], NEW g, g = [y \in S |-> g[y]],
         \A y \in S : g[y] = f[y]
  PROVE  g = f
OBVIOUS

-----------------------------------------------------------------------------
(* The operations                                                          *)

LEMMA OpTyped ==
  ASSUME NEW op \in Ops
  PROVE  /\ op.kind \in OpKinds /\ op.org \in Orgs /\ op.n \in Nat /\ op.n \in Amounts
         /\ op.kind = "add" => op.type \in CreditTypes
         /\ op.kind = "debit" => op.type \in DebitTypes
         /\ op.kind \in {"allocate", "consume"} => op.acc \in Accounts /\ OrgOf[op.acc] = op.org
BY AmountsAssumption, TypesAssumption DEF Ops, PoolOps, AccountOps, OpKinds

LEMMA Written ==
  ASSUME NEW op \in Ops
  PROVE  /\ WriteSet(op) \subseteq Docs
         /\ op.kind = "allocate" => WriteSet(op) = {op.org, op.acc}
         /\ op.kind = "consume" => WriteSet(op) = {op.acc}
         /\ op.kind \notin {"allocate", "consume"} => WriteSet(op) = {op.org}
<1>1. CASE op.kind = "allocate"
  BY <1>1, OpTyped DEF WriteSet, Docs
<1>2. CASE op.kind = "consume"
  BY <1>2, OpTyped DEF WriteSet, Docs
<1>3. CASE op.kind \notin {"allocate", "consume"}
  BY <1>3, OpTyped DEF WriteSet, Docs
<1> QED BY <1>1, <1>2, <1>3

(* The validator, asked about an organization in the place of an account,  *)
(* accepts none.                                                           *)
LEMMA ValidatedIsStubbed ==
  ASSUME NEW op \in Ops, op.kind = "allocate", Validated(op)
  PROVE  ValidatorStubbed
<1>1. op.org \notin Accounts
  BY OpTyped, DocsAssumption
<1> QED BY <1>1 DEF Validated, AccountBelongsToOrg

LEMMA IdleIsNeither ==
  /\ Idle.pc = "idle"
  /\ \A x \in Begun : x.pc = "begin" /\ x # Idle
  /\ \A x \in Opened : x.pc = "open" /\ x # Idle
BY DEF Idle, Begun, Opened

LEMMA WhenOpen ==
  ASSUME SessionsTyped, NEW s \in Sessions, session[s].pc = "open"
  PROVE  session[s] \in Opened /\ session[s].op \in Ops /\ session[s] # Idle
BY IdleIsNeither DEF SessionsTyped, Opened

LEMMA WhenBegun ==
  ASSUME SessionsTyped, NEW s \in Sessions, session[s].pc = "begin"
  PROVE  session[s] \in Begun /\ session[s].op \in Ops /\ session[s] # Idle
BY IdleIsNeither DEF SessionsTyped, Begun

LEMMA SnapshotTyped ==
  ASSUME TypeOK, NEW op \in Ops
  PROVE  /\ Snapshot(op) \in [WriteSet(op) -> PoolDocs \cup BudgetDocs]
         /\ \A d \in WriteSet(op) : Snapshot(op)[d] = CurrentDocs[d]
<1>1. \A d \in WriteSet(op) : d \in Docs
  BY Written
<1>2. \A d \in Orgs : PoolSnapshot(d) \in PoolDocs
  BY DEF TypeOK, PoolSnapshot, PoolDocs
<1>3. \A d \in Accounts : BudgetSnapshot(d) \in BudgetDocs
  BY DEF TypeOK, BudgetSnapshot, BudgetDocs
<1> QED BY <1>1, <1>2, <1>3 DEF Snapshot, CurrentDocs, Docs

(* What a snapshot of ds says and what is accepted on it depends on the    *)
(* documents of ds, with the rows of the pool among them, and on nothing   *)
(* else.                                                                   *)
SameDoc(d) ==
  IF d \in Orgs
  THEN /\ balance'[d] = balance[d] /\ reserved'[d] = reserved[d]
       /\ lifetime_purchased'[d] = lifetime_purchased[d]
       /\ lifetime_used'[d] = lifetime_used[d] /\ credited'[d] = credited[d]
  ELSE /\ status'[d] = status[d] /\ is_deleted'[d] = is_deleted[d]
       /\ credit_limit'[d] = credit_limit[d]
       /\ allocated_credits'[d] = allocated_credits[d] /\ used_credits'[d] = used_credits[d]

LEMMA Local ==
  ASSUME NEW ds \in SUBSET Docs, \A d \in Docs \ ds : SameDoc(d)
  PROVE  /\ \A d \in Docs \ ds : CurrentDocs'[d] = CurrentDocs[d]
         /\ \A op \in Ops : WriteSet(op) \cap ds = {} =>
              (op \in Acceptable' <=> op \in Acceptable)
<1>1. ASSUME NEW d \in Docs \ ds PROVE CurrentDocs'[d] = CurrentDocs[d]
  BY <1>1 DEF SameDoc, CurrentDocs, PoolSnapshot, BudgetSnapshot
<1>2. ASSUME NEW op \in Ops, WriteSet(op) \cap ds = {}
      PROVE  op \in Acceptable' <=> op \in Acceptable
  <2>1. \A d \in WriteSet(op) : SameDoc(d)
    BY <1>2, Written
  <2>2. op.kind # "consume" =>
          /\ balance'[op.org] = balance[op.org] /\ reserved'[op.org] = reserved[op.org]
          /\ credited'[op.org] = credited[op.org]
    BY <2>1, Written, OpTyped DEF SameDoc
  <2>3. op.kind \in {"allocate", "consume"} =>
          /\ status'[op.acc] = status[op.acc] /\ is_deleted'[op.acc] = is_deleted[op.acc]
          /\ credit_limit'[op.acc] = credit_limit[op.acc]
          /\ allocated_credits'[op.acc] = allocated_credits[op.acc]
          /\ used_credits'[op.acc] = used_credits[op.acc]
    <3>1. op.kind \in {"allocate", "consume"} =>
            op.acc \in Accounts /\ op.acc \notin Orgs /\ op.acc \in WriteSet(op)
      BY OpTyped, Written, DocsAssumption
    <3> QED BY <2>1, <3>1 DEF SameDoc
  <2>4. CASE op.kind \in {"add", "debit", "reserve", "release", "commit"}
    BY <2>2, <2>4 DEF Acceptable, Accepts, Credited, Available
  <2>5. CASE op.kind \in {"allocate", "consume"}
    BY <2>2, <2>3, <2>5 DEF Acceptable, Accepts, Available, ActiveAccountOf,
                            AccountBelongsToOrg, WithinLimit, Remaining
  <2> QED BY <2>4, <2>5, OpTyped DEF OpKinds
<1> QED BY <1>1, <1>2

-----------------------------------------------------------------------------
(* A commit is the operation                                               *)

(* What a commit of op writes, in terms of the documents as they are.      *)
Effect(op) ==
  /\ balance' = [o \in Orgs |-> IF o \in WriteSet(op) THEN WrittenPool(op, PoolSnapshot(o)).balance
                                ELSE balance[o]]
  /\ reserved' = [o \in Orgs |-> IF o \in WriteSet(op) THEN WrittenPool(op, PoolSnapshot(o)).reserved
                                 ELSE reserved[o]]
  /\ lifetime_purchased' =
       [o \in Orgs |-> IF o \in WriteSet(op) THEN WrittenPool(op, PoolSnapshot(o)).purchased
                       ELSE lifetime_purchased[o]]
  /\ lifetime_used' =
       [o \in Orgs |-> IF o \in WriteSet(op) THEN WrittenPool(op, PoolSnapshot(o)).used
                       ELSE lifetime_used[o]]
  /\ allocated_credits' =
       [a \in Accounts |-> IF a \in WriteSet(op) THEN WrittenBudget(op, BudgetSnapshot(a)).allocated
                           ELSE allocated_credits[a]]
  /\ used_credits' =
       [a \in Accounts |-> IF a \in WriteSet(op) THEN WrittenBudget(op, BudgetSnapshot(a)).used
                           ELSE used_credits[a]]
  /\ InsertRow(op)
  /\ UNCHANGED <<credit_limit, lifecycle, byHand>>

LEMMA CommitIsCurrent ==
  ASSUME TxnInv, NEW s \in Sessions, Commit(s)
  PROVE  /\ session[s].op \in Ops
         /\ Accepts(session[s].op)
         /\ Effect(session[s].op)
<1> DEFINE t == session[s]
           op == session[s].op
<1>1. t \in Opened /\ op \in Ops /\ t.pc = "open" /\ t.todo = {}
  BY WhenOpen DEF TxnInv, Commit
<1>2. \A d \in WriteSet(op) : d \notin t.stale
  BY <1>1 DEF TxnInv, OpenIsSound, Owns
<1>3. \A d \in WriteSet(op) : t.docs[d] = CurrentDocs[d]
  BY <1>1, <1>2 DEF TxnInv, OpenIsSound, Knows
<1>4. Accepts(op)
  BY <1>1, <1>2 DEF TxnInv, OpenIsSound, Knows, Acceptable
<1>5. \A o \in Orgs : o \in WriteSet(op) => t.docs[o] = PoolSnapshot(o)
  BY <1>3 DEF CurrentDocs, Docs
<1>6. \A a \in Accounts : a \in WriteSet(op) => t.docs[a] = BudgetSnapshot(a)
  BY <1>3, DocsAssumption DEF CurrentDocs, Docs
<1>7. Effect(op)
  <2> HIDE DEF op, t
  <2>1. /\ balance' = [o \in Orgs |-> IF o \in WriteSet(op) THEN WrittenPool(op, t.docs[o]).balance
                                      ELSE balance[o]]
        /\ reserved' = [o \in Orgs |-> IF o \in WriteSet(op) THEN WrittenPool(op, t.docs[o]).reserved
                                       ELSE reserved[o]]
        /\ lifetime_purchased' =
             [o \in Orgs |-> IF o \in WriteSet(op) THEN WrittenPool(op, t.docs[o]).purchased
                             ELSE lifetime_purchased[o]]
        /\ lifetime_used' =
             [o \in Orgs |-> IF o \in WriteSet(op) THEN WrittenPool(op, t.docs[o]).used
                             ELSE lifetime_used[o]]
        /\ allocated_credits' =
             [a \in Accounts |-> IF a \in WriteSet(op) THEN WrittenBudget(op, t.docs[a]).allocated
                                 ELSE allocated_credits[a]]
        /\ used_credits' =
             [a \in Accounts |-> IF a \in WriteSet(op) THEN WrittenBudget(op, t.docs[a]).used
                                 ELSE used_credits[a]]
        /\ InsertRow(op)
        /\ UNCHANGED <<credit_limit, lifecycle, byHand>>
    BY DEF Commit, op, t
  <2> QED BY <1>5, <1>6, <2>1 DEF Effect
<1> QED BY <1>1, <1>4, <1>7

-----------------------------------------------------------------------------
(* The effect of each kind of operation, as CreditLedger has it.           *)

LEMMA Functional ==
  ASSUME NEW op \in Ops, Effect(op)
  PROVE  /\ balance' = [o \in Orgs |-> balance'[o]]
         /\ reserved' = [o \in Orgs |-> reserved'[o]]
         /\ lifetime_purchased' = [o \in Orgs |-> lifetime_purchased'[o]]
         /\ lifetime_used' = [o \in Orgs |-> lifetime_used'[o]]
         /\ allocated_credits' = [a \in Accounts |-> allocated_credits'[a]]
         /\ used_credits' = [a \in Accounts |-> used_credits'[a]]
BY DEF Effect

LEMMA PoolOrNone ==
  ASSUME TypeOK, NEW op \in Ops, Effect(op), op.kind \notin {"allocate", "consume"}
  PROVE  /\ UNCHANGED <<budget, lifecycle, accountLedger, byHand>>
         /\ op.kind # "add" => UNCHANGED <<credited, lifetime_purchased>>
         /\ op.kind \notin {"debit", "commit"} => UNCHANGED <<debited, lifetime_used>>
         /\ op.kind \notin {"reserve", "release", "commit"} => UNCHANGED reserved
         /\ op.kind \in {"reserve", "release"} => UNCHANGED balance
<1>1. WriteSet(op) = {op.org} /\ op.org \in Orgs /\ op.org \notin Accounts
  BY Written, OpTyped, DocsAssumption
<1>2. UNCHANGED <<allocated_credits, used_credits>>
  <2>1. \A a \in Accounts : /\ allocated_credits'[a] = allocated_credits[a]
                            /\ used_credits'[a] = used_credits[a]
    BY <1>1 DEF Effect
  <2> QED BY <2>1, ChangedNowhere, Functional DEF TypeOK
<1>3. UNCHANGED <<budget, lifecycle, accountLedger, byHand>>
  BY <1>2 DEF Effect, InsertRow, budget, accountLedger
<1>4. CASE op.kind = "add"
  <2>1. \A o \in Orgs : reserved'[o] = reserved[o] /\ lifetime_used'[o] = lifetime_used[o]
    BY <1>4 DEF Effect, WrittenPool, PoolSnapshot
  <2>2. UNCHANGED <<reserved, lifetime_used>>
    BY <2>1, ChangedNowhere, Functional DEF TypeOK
  <2> QED BY <1>3, <1>4, <2>2 DEF Effect, InsertRow
<1>5. CASE op.kind # "add"
  <2>1. \A o \in Orgs : lifetime_purchased'[o] = lifetime_purchased[o]
    BY <1>5 DEF Effect, WrittenPool, PoolSnapshot
  <2>2. UNCHANGED <<credited, lifetime_purchased>>
    BY <1>5, <2>1, ChangedNowhere, Functional DEF TypeOK, Effect, InsertRow
  <2>3. op.kind \notin {"debit", "commit"} => UNCHANGED <<debited, lifetime_used>>
    <3> SUFFICES ASSUME op.kind \notin {"debit", "commit"} PROVE UNCHANGED <<debited, lifetime_used>>
      OBVIOUS
    <3>1. \A o \in Orgs : lifetime_used'[o] = lifetime_used[o]
      BY DEF Effect, WrittenPool, PoolSnapshot
    <3> QED BY <3>1, ChangedNowhere, Functional DEF TypeOK, Effect, InsertRow
  <2>4. op.kind \notin {"reserve", "release", "commit"} => UNCHANGED reserved
    <3> SUFFICES ASSUME op.kind \notin {"reserve", "release", "commit"} PROVE UNCHANGED reserved
      OBVIOUS
    <3>1. \A o \in Orgs : reserved'[o] = reserved[o]
      BY DEF Effect, WrittenPool, PoolSnapshot
    <3> QED BY <3>1, ChangedNowhere, Functional DEF TypeOK
  <2>5. op.kind \in {"reserve", "release"} => UNCHANGED balance
    <3> SUFFICES ASSUME op.kind \in {"reserve", "release"} PROVE UNCHANGED balance
      OBVIOUS
    <3>1. \A o \in Orgs : balance'[o] = balance[o]
      BY DEF Effect, WrittenPool, PoolSnapshot
    <3> QED BY <3>1, ChangedNowhere, Functional DEF TypeOK
  <2> QED BY <1>3, <1>5, <2>2, <2>3, <2>4, <2>5
<1> QED BY <1>4, <1>5

LEMMA AddIsOne ==
  ASSUME TypeOK, NEW op \in Ops, Effect(op), Accepts(op), op.kind = "add"
  PROVE  AddCredits(op.org, op.type, op.n)
<1>1. WriteSet(op) = {op.org} /\ op.org \in Orgs
  BY Written, OpTyped
<1>2. UNCHANGED <<reserved, lifetime_used, budget, lifecycle, debited, accountLedger, byHand>>
  BY PoolOrNone
<1>3. balance' = [balance EXCEPT ![op.org] = @ + op.n]
  <2>1. balance'[op.org] = balance[op.org] + op.n
    BY <1>1 DEF Effect, WrittenPool, PoolSnapshot
  <2>2. \A o \in Orgs \ {op.org} : balance'[o] = balance[o]
    BY <1>1 DEF Effect
  <2> QED BY <1>1, <2>1, <2>2, ChangedAt, Functional DEF TypeOK
<1>4. lifetime_purchased' =
        IF op.type \in {"purchase", "allocation"}
        THEN [lifetime_purchased EXCEPT ![op.org] = @ + op.n]
        ELSE lifetime_purchased
  <2>1. lifetime_purchased'[op.org] =
          IF op.type \in {"purchase", "allocation"}
          THEN lifetime_purchased[op.org] + op.n ELSE lifetime_purchased[op.org]
    BY <1>1 DEF Effect, WrittenPool, PoolSnapshot
  <2>2. \A o \in Orgs \ {op.org} : lifetime_purchased'[o] = lifetime_purchased[o]
    BY <1>1 DEF Effect
  <2>3. CASE op.type \in {"purchase", "allocation"}
    <3>1. lifetime_purchased'[op.org] = lifetime_purchased[op.org] + op.n
      BY <2>1, <2>3
    <3>2. lifetime_purchased' = [lifetime_purchased EXCEPT ![op.org] = @ + op.n]
      BY <1>1, <2>2, <3>1, ChangedAt, Functional DEF TypeOK
    <3> QED BY <2>3, <3>2
  <2>4. CASE op.type \notin {"purchase", "allocation"}
    BY <1>1, <2>1, <2>2, <2>4, ChangedNowhere, Functional DEF TypeOK
  <2> QED BY <2>3, <2>4
<1>5. credited' = [credited EXCEPT ![op.org][op.type] = @ + op.n]
  BY DEF Effect, InsertRow
<1>6. Credited(op.org) + op.n <= MaxIssued
  BY DEF Accepts
<1> QED BY <1>2, <1>3, <1>4, <1>5, <1>6 DEF AddCredits

LEMMA BalanceFalls ==
  ASSUME TypeOK, NEW op \in Ops, Effect(op), op.kind \in {"debit", "commit", "allocate"}
  PROVE  balance' = [balance EXCEPT ![op.org] = @ - op.n]
<1>1. op.org \in WriteSet(op) /\ op.org \in Orgs
  BY Written, OpTyped
<1>2. \A o \in Orgs \ {op.org} : o \notin WriteSet(op)
  BY Written, OpTyped, DocsAssumption
<1>3. balance'[op.org] = balance[op.org] - op.n
  BY <1>1 DEF Effect, WrittenPool, PoolSnapshot
<1>4. \A o \in Orgs \ {op.org} : balance'[o] = balance[o]
  BY <1>2 DEF Effect
<1> QED BY <1>1, <1>3, <1>4, ChangedAt, Functional DEF TypeOK

LEMMA UseGrows ==
  ASSUME TypeOK, NEW op \in Ops, Effect(op), op.kind \in {"debit", "commit"}
  PROVE  lifetime_used' = [lifetime_used EXCEPT ![op.org] = @ + op.n]
<1>1. WriteSet(op) = {op.org} /\ op.org \in Orgs
  BY Written, OpTyped
<1>2. lifetime_used'[op.org] = lifetime_used[op.org] + op.n
  BY <1>1 DEF Effect, WrittenPool, PoolSnapshot
<1>3. \A o \in Orgs \ {op.org} : lifetime_used'[o] = lifetime_used[o]
  BY <1>1 DEF Effect
<1> QED BY <1>1, <1>2, <1>3, ChangedAt, Functional DEF TypeOK

LEMMA DebitIsOne ==
  ASSUME TypeOK, NEW op \in Ops, Effect(op), Accepts(op), op.kind = "debit"
  PROVE  Debit(op.org, op.type, op.n)
<1>1. UNCHANGED <<reserved, lifetime_purchased, budget, lifecycle, credited, accountLedger, byHand>>
  BY PoolOrNone
<1>2. debited' = [debited EXCEPT ![op.org][op.type] = @ + op.n]
  BY DEF Effect, InsertRow
<1>3. Available(op.org) >= op.n
  BY DEF Accepts
<1> QED BY <1>1, <1>2, <1>3, BalanceFalls, UseGrows DEF Debit

LEMMA HoldIsOne ==
  ASSUME TypeOK, NEW op \in Ops, Effect(op), Accepts(op),
         op.kind \in {"reserve", "release", "commit"}
  PROVE  \/ ReserveCredits(op.org, op.n)
         \/ ReleaseReserved(op.org, op.n)
         \/ CommitReservedConsumption(op.org, op.n)
<1>1. WriteSet(op) = {op.org} /\ op.org \in Orgs
  BY Written, OpTyped
<1>2. \A o \in Orgs \ {op.org} : reserved'[o] = reserved[o]
  BY <1>1 DEF Effect
<1>3. CASE op.kind = "reserve"
  <2>1. reserved'[op.org] = reserved[op.org] + op.n
    BY <1>1, <1>3 DEF Effect, WrittenPool, PoolSnapshot
  <2>2. reserved' = [reserved EXCEPT ![op.org] = @ + op.n]
    BY <1>1, <1>2, <2>1, ChangedAt, Functional DEF TypeOK
  <2>3. UNCHANGED <<balance, lifetime_purchased, lifetime_used, budget, lifecycle,
                    poolLedger, accountLedger, byHand>>
    BY <1>3, PoolOrNone DEF poolLedger
  <2>4. Available(op.org) >= op.n
    BY <1>3 DEF Accepts
  <2> QED BY <2>2, <2>3, <2>4 DEF ReserveCredits
<1>4. op.kind \in {"release", "commit"} => reserved' = [reserved EXCEPT ![op.org] = @ - op.n]
  <2> SUFFICES ASSUME op.kind \in {"release", "commit"}
               PROVE  reserved' = [reserved EXCEPT ![op.org] = @ - op.n]
    OBVIOUS
  <2>1. reserved'[op.org] = reserved[op.org] - op.n
    BY <1>1 DEF Effect, WrittenPool, PoolSnapshot
  <2> QED BY <1>1, <1>2, <2>1, ChangedAt, Functional DEF TypeOK
<1>5. CASE op.kind = "release"
  <2>1. UNCHANGED <<balance, lifetime_purchased, lifetime_used, budget, lifecycle,
                    poolLedger, accountLedger, byHand>>
    BY <1>5, PoolOrNone DEF poolLedger
  <2>2. reserved[op.org] >= op.n
    BY <1>5 DEF Accepts
  <2> QED BY <1>4, <1>5, <2>1, <2>2 DEF ReleaseReserved
<1>6. CASE op.kind = "commit"
  <2>1. UNCHANGED <<lifetime_purchased, budget, lifecycle, credited, accountLedger, byHand>>
    BY <1>6, PoolOrNone
  <2>2. reserved[op.org] >= op.n /\ balance[op.org] >= op.n
    BY <1>6 DEF Accepts
  <2>3. debited' = [debited EXCEPT ![op.org]["consumption"] = @ + op.n]
    BY <1>6 DEF Effect, InsertRow
  <2>4. /\ balance' = [balance EXCEPT ![op.org] = @ - op.n]
        /\ lifetime_used' = [lifetime_used EXCEPT ![op.org] = @ + op.n]
    BY <1>6, BalanceFalls, UseGrows
  <2> QED BY <1>4, <1>6, <2>1, <2>2, <2>3, <2>4 DEF CommitReservedConsumption
<1> QED BY <1>3, <1>5, <1>6

LEMMA AllocationIsOne ==
  ASSUME TypeOK, NEW op \in Ops, Effect(op), Accepts(op), op.kind = "allocate",
         ValidatorStubbed
  PROVE  AllocateToAccount(op.org, op.acc, op.n)
<1>1. /\ WriteSet(op) = {op.org, op.acc}
      /\ op.acc \in Accounts /\ op.org \in Orgs /\ op.org \notin Accounts
  BY Written, OpTyped, DocsAssumption
<1>2. UNCHANGED <<reserved, lifetime_purchased, lifetime_used>>
  <2>1. \A o \in Orgs : /\ reserved'[o] = reserved[o]
                        /\ lifetime_purchased'[o] = lifetime_purchased[o]
                        /\ lifetime_used'[o] = lifetime_used[o]
    BY DEF Effect, WrittenPool, PoolSnapshot
  <2> QED BY <2>1, ChangedNowhere, Functional DEF TypeOK
<1>3. UNCHANGED used_credits
  <2>1. \A a \in Accounts : used_credits'[a] = used_credits[a]
    BY DEF Effect, WrittenBudget, BudgetSnapshot
  <2> QED BY <2>1, ChangedNowhere, Functional DEF TypeOK
<1>4. allocated_credits' = [allocated_credits EXCEPT ![op.acc] = @ + op.n]
  <2>1. allocated_credits'[op.acc] = allocated_credits[op.acc] + op.n
    BY <1>1 DEF Effect, WrittenBudget, BudgetSnapshot
  <2>2. \A a \in Accounts \ {op.acc} : allocated_credits'[a] = allocated_credits[a]
    BY <1>1 DEF Effect
  <2> QED BY <1>1, <2>1, <2>2, ChangedAt, Functional DEF TypeOK
<1>5. /\ moved' = [moved EXCEPT ![op.org] = @ + op.n]
      /\ granted' = [granted EXCEPT ![op.acc] = @ + op.n]
      /\ UNCHANGED <<credit_limit, lifecycle, poolLedger, charged, byHand>>
  BY DEF Effect, InsertRow, poolLedger
<1>6. /\ ActiveAccountOf(op.org, op.acc)
      /\ WithinLimit(op.acc, op.n)
      /\ Available(op.org) >= op.n
  BY DEF Accepts
<1> QED BY <1>2, <1>3, <1>4, <1>5, <1>6, BalanceFalls DEF AllocateToAccount

LEMMA ConsumptionIsOne ==
  ASSUME TypeOK, NEW op \in Ops, Effect(op), Accepts(op), op.kind = "consume"
  PROVE  ConsumeFromAccount(op.org, op.acc, op.n)
<1>1. /\ WriteSet(op) = {op.acc}
      /\ op.acc \in Accounts /\ op.acc \notin Orgs
  BY Written, OpTyped, DocsAssumption
<1>2. UNCHANGED pool
  <2>1. \A o \in Orgs : /\ balance'[o] = balance[o]
                        /\ reserved'[o] = reserved[o]
                        /\ lifetime_purchased'[o] = lifetime_purchased[o]
                        /\ lifetime_used'[o] = lifetime_used[o]
    BY <1>1 DEF Effect
  <2> QED BY <2>1, ChangedNowhere, Functional DEF TypeOK, pool
<1>3. UNCHANGED allocated_credits
  <2>1. \A a \in Accounts : allocated_credits'[a] = allocated_credits[a]
    BY DEF Effect, WrittenBudget, BudgetSnapshot
  <2> QED BY <2>1, ChangedNowhere, Functional DEF TypeOK
<1>4. used_credits' = [used_credits EXCEPT ![op.acc] = @ + op.n]
  <2>1. used_credits'[op.acc] = used_credits[op.acc] + op.n
    BY <1>1 DEF Effect, WrittenBudget, BudgetSnapshot
  <2>2. \A a \in Accounts \ {op.acc} : used_credits'[a] = used_credits[a]
    BY <1>1 DEF Effect
  <2> QED BY <1>1, <2>1, <2>2, ChangedAt, Functional DEF TypeOK
<1>5. /\ charged' = [charged EXCEPT ![op.acc] = @ + op.n]
      /\ UNCHANGED <<credit_limit, lifecycle, poolLedger, moved, granted, byHand>>
  BY DEF Effect, InsertRow, poolLedger
<1>6. ActiveAccountOf(op.org, op.acc) /\ Remaining(op.acc) >= op.n
  BY DEF Accepts
<1> QED BY <1>2, <1>3, <1>4, <1>5, <1>6 DEF ConsumeFromAccount

LEMMA CommitIsOne ==
  ASSUME TxnInv, NEW s \in Sessions, Commit(s)
  PROVE  Next
<1> DEFINE op == session[s].op
<1>1. op \in Ops /\ Accepts(op) /\ Effect(op) /\ TypeOK
  BY CommitIsCurrent DEF TxnInv, IInv
<1>2. op.kind = "allocate" => ValidatorStubbed
  BY WhenOpen DEF TxnInv, SessionsTyped, Commit
<1> HIDE DEF op
<1>3. op.org \in Orgs /\ op.n \in Amounts /\ op.kind \in OpKinds
  BY <1>1, OpTyped
<1>4. CASE op.kind = "add"
  BY <1>1, <1>3, <1>4, OpTyped, AddIsOne DEF Next, PoolNext
<1>5. CASE op.kind = "debit"
  BY <1>1, <1>3, <1>5, OpTyped, DebitIsOne DEF Next, PoolNext
<1>6. CASE op.kind \in {"reserve", "release", "commit"}
  BY <1>1, <1>3, <1>6, HoldIsOne DEF Next, PoolNext
<1>7. CASE op.kind = "allocate"
  BY <1>1, <1>2, <1>3, <1>7, OpTyped, AllocationIsOne DEF Next, AccountNext
<1>8. CASE op.kind = "consume"
  BY <1>1, <1>3, <1>8, OpTyped, ConsumptionIsOne DEF Next, AccountNext
<1> QED BY <1>3, <1>4, <1>5, <1>6, <1>7, <1>8 DEF OpKinds

-----------------------------------------------------------------------------
(* The invariant                                                           *)

(* A commit changes no document it has not written.                        *)
LEMMA CommitIsLocal ==
  ASSUME TypeOK, NEW op \in Ops, Effect(op)
  PROVE  \A d \in Docs \ WriteSet(op) : SameDoc(d)
<1> SUFFICES ASSUME NEW d \in Docs \ WriteSet(op) PROVE SameDoc(d)
  OBVIOUS
<1>1. CASE d \in Orgs
  <2>1. credited'[d] = credited[d]
    <3>1. CASE op.kind = "add"
      <4>1. d # op.org
        BY <3>1, Written
      <4>2. credited' = [credited EXCEPT ![op.org][op.type] = @ + op.n]
        BY <3>1 DEF Effect, InsertRow
      <4> QED BY <1>1, <4>1, <4>2 DEF TypeOK
    <3>2. CASE op.kind # "add"
      BY <3>2 DEF Effect, InsertRow
    <3> QED BY <3>1, <3>2
  <2> QED BY <1>1, <2>1 DEF Effect, SameDoc
<1>2. CASE d \notin Orgs
  <2>1. d \in Accounts
    BY <1>2 DEF Docs
  <2> QED BY <1>2, <2>1 DEF Effect, SameDoc, lifecycle
<1> QED BY <1>1, <1>2

LEMMA PlainIsLocal ==
  ASSUME TypeOK, NEW o \in Orgs, NEW a \in Accounts, PlainWrite(o, a)
  PROVE  \A d \in Docs \ {a} : SameDoc(d)
<1> SUFFICES ASSUME NEW d \in Docs \ {a} PROVE SameDoc(d)
  OBVIOUS
<1> USE DEF pool, budget, lifecycle, poolLedger, SameDoc, TypeOK
<1>1. CASE \E l \in Limits : SetLimit(o, a, l)
  BY <1>1 DEF SetLimit, Docs
<1>2. CASE \E v \in {"active", "inactive"} : SetStatus(o, a, v)
  BY <1>2 DEF SetStatus, Docs
<1>3. CASE RemoveAccount(o, a)
  BY <1>3 DEF RemoveAccount, Docs
<1>4. CASE \E e \in Editors, body \in BudgetBodies, v \in {"active", "inactive"} :
             PatchBudget(o, a, e, body, v)
  BY <1>4 DEF PatchBudget, Docs
<1> QED BY <1>1, <1>2, <1>3, <1>4 DEF PlainWrite

LEMMA PlainIsOne ==
  ASSUME NEW o \in Orgs, NEW a \in Accounts, PlainWrite(o, a)
  PROVE  Next
BY DEF PlainWrite, Next, AccountNext

(* No step of a session or of another service but a commit or a plain      *)
(* write touches a document.                                               *)
LEMMA StillDocs ==
  ASSUME UNCHANGED <<pool, budget, lifecycle, poolLedger, accountLedger>>
  PROVE  CurrentDocs' = CurrentDocs /\ Acceptable' = Acceptable
BY DEF pool, budget, lifecycle, poolLedger, accountLedger, CurrentDocs, Acceptable,
       PoolSnapshot, BudgetSnapshot, Accepts, Credited, Available, Remaining,
       ActiveAccountOf, AccountBelongsToOrg, WithinLimit

LEMMA Quiet ==
  ASSUME UNCHANGED vars
  PROVE  CurrentDocs' = CurrentDocs /\ Acceptable' = Acceptable
<1>1. UNCHANGED <<pool, budget, lifecycle, poolLedger, accountLedger>>
  BY DEF vars
<1> QED BY <1>1, StillDocs

LEMMA TxnInitInv == TxnInit => TxnInv
<1> SUFFICES ASSUME TxnInit PROVE TxnInv
  OBVIOUS
<1>1. IInv
  BY InitInv DEF TxnInit
<1>2. \A s \in Sessions : session[s] = Idle
  BY DEF TxnInit
<1>3. SessionsTyped
  BY <1>2 DEF TxnInit, SessionsTyped
<1>4. OpenIsSound
  BY <1>2, IdleIsNeither DEF OpenIsSound
<1> QED BY <1>1, <1>3, <1>4 DEF TxnInv

LEMMA StartStep ==
  ASSUME TxnInv, NEW s \in Sessions, NEW op \in Ops, Start(s, op)
  PROVE  TxnInv'
<1>1. IInv' /\ UNCHANGED vars
  BY StutterStep DEF TxnInv, Start
<1> DEFINE t == [pc |-> "begin", op |-> op]
<1>2. t \in Begun /\ t.pc = "begin" /\ t.op = op
  BY DEF Begun
<1>3. op.kind = "allocate" => ValidatorStubbed
  BY ValidatedIsStubbed DEF Start
<1>4. session' = [session EXCEPT ![s] = t] /\ lock' = lock
  BY DEF Start
<1> HIDE DEF t
<1>5. /\ session'[s] = t
      /\ \A x \in Sessions \ {s} : session'[x] = session[x]
      /\ session' \in [Sessions -> {Idle} \cup Begun \cup Opened]
  BY <1>2, <1>4 DEF TxnInv, SessionsTyped
<1>6. SessionsTyped'
  BY <1>2, <1>3, <1>4, <1>5 DEF TxnInv, SessionsTyped
<1>7. OpenIsSound'
  BY <1>1, <1>2, <1>4, <1>5, Quiet DEF TxnInv, OpenIsSound
<1> QED BY <1>1, <1>6, <1>7 DEF TxnInv

LEMMA LoadStep ==
  ASSUME TxnInv, NEW s \in Sessions, Load(s)
  PROVE  TxnInv'
<1> DEFINE op == session[s].op
           t == [pc |-> "open", op |-> op, docs |-> Snapshot(op), todo |-> WriteSet(op),
                 stale |-> {}]
<1>1. IInv' /\ UNCHANGED vars /\ TypeOK
  BY StutterStep DEF TxnInv, Load, IInv
<1>2. op \in Ops /\ session[s] # Idle
  BY WhenBegun DEF TxnInv, Load
<1>3. op.kind = "allocate" => ValidatorStubbed
  BY <1>2 DEF TxnInv, SessionsTyped
<1>4. /\ session' = [session EXCEPT ![s] = IF Accepts(op) THEN t ELSE Idle]
      /\ lock' = lock
  BY DEF Load
<1> HIDE DEF op
<1>5. t \in Opened
  <2>1. WriteSet(op) \in SUBSET Docs /\ Snapshot(op) \in [WriteSet(op) -> PoolDocs \cup BudgetDocs]
    BY <1>1, <1>2, Written, SnapshotTyped
  <2> QED BY <1>2, <2>1 DEF Opened
<1>6. Accepts(op) => Knows(t, CurrentDocs, Acceptable)
  BY <1>1, <1>2, SnapshotTyped DEF Knows, Acceptable
<1>7. Owns(s, t, lock)
  BY DEF Owns
<1>8. t.pc = "open" /\ t.op = op
  OBVIOUS
<1> HIDE DEF t
<1>9. /\ \A x \in Sessions \ {s} : session'[x] = session[x]
      /\ session'[s] = IF Accepts(op) THEN t ELSE Idle
      /\ session' \in [Sessions -> {Idle} \cup Begun \cup Opened]
  BY <1>4, <1>5 DEF TxnInv, SessionsTyped
<1>10. SessionsTyped'
  BY <1>3, <1>4, <1>8, <1>9 DEF TxnInv, SessionsTyped
<1>11. OpenIsSound'
  <2> SUFFICES ASSUME NEW x \in Sessions, session'[x].pc = "open"
               PROVE  /\ Knows(session'[x], CurrentDocs, Acceptable)
                      /\ Owns(x, session'[x], lock)
    BY <1>1, <1>4, Quiet DEF OpenIsSound
  <2>1. CASE x = s
    BY <1>6, <1>7, <1>9, <2>1, IdleIsNeither
  <2>2. CASE x # s
    BY <1>9, <2>2 DEF TxnInv, OpenIsSound
  <2> QED BY <2>1, <2>2
<1> QED BY <1>1, <1>10, <1>11 DEF TxnInv

(* Freeing the locks of s leaves those of the others.                      *)
LEMMA UnlockedKeeps ==
  ASSUME SessionsTyped, NEW s \in Sessions
  PROVE  /\ Unlocked(s) \in [Docs -> Sessions \cup {NoSession}]
         /\ \A x \in Sessions \ {s}, d \in Docs : lock[d] = x => Unlocked(s)[d] = x
BY DEF SessionsTyped, Unlocked

(* A session that ends or starts over gives up its locks; the others keep  *)
(* theirs and what they know.                                              *)
LEMMA GivesUp ==
  ASSUME TxnInv, NEW s \in Sessions, NEW t \in {Idle} \cup Begun,
         t # Idle /\ t.op.kind = "allocate" => ValidatorStubbed,
         session' = [session EXCEPT ![s] = t], lock' = Unlocked(s), UNCHANGED vars
  PROVE  TxnInv'
<1>1. IInv'
  BY StutterStep DEF TxnInv
<1>2. /\ session'[s] = t
      /\ \A x \in Sessions \ {s} : session'[x] = session[x]
      /\ session' \in [Sessions -> {Idle} \cup Begun \cup Opened]
  BY DEF TxnInv, SessionsTyped
<1>3. SessionsTyped'
  BY <1>2, UnlockedKeeps DEF TxnInv, SessionsTyped
<1>4. OpenIsSound'
  <2> SUFFICES ASSUME NEW x \in Sessions, session'[x].pc = "open"
               PROVE  /\ Knows(session'[x], CurrentDocs, Acceptable)
                      /\ Owns(x, session'[x], lock')
    BY Quiet DEF OpenIsSound
  <2>1. x # s
    BY <1>2, IdleIsNeither
  <2>2. Knows(session[x], CurrentDocs, Acceptable) /\ Owns(x, session[x], lock)
    BY <1>2, <2>1 DEF TxnInv, OpenIsSound
  <2>3. WriteSet(session[x].op) \subseteq Docs
    BY <1>2, <2>1, WhenOpen, Written DEF TxnInv
  <2> QED BY <1>2, <2>1, <2>2, <2>3, UnlockedKeeps DEF TxnInv, Owns
<1> QED BY <1>1, <1>3, <1>4 DEF TxnInv

LEMMA AbortStep ==
  ASSUME TxnInv, NEW s \in Sessions, Abort(s)
  PROVE  TxnInv'
BY GivesUp DEF Abort

LEMMA WriteStep ==
  ASSUME TxnInv, NEW s \in Sessions, NEW d \in Docs, Write(s, d)
  PROVE  TxnInv'
<1>1. UNCHANGED vars /\ session[s].pc = "open" /\ session[s] \in Opened
  BY WhenOpen DEF TxnInv, Write
<1>2. CASE ~MayWrite(s, d)
  <2> DEFINE t == [pc |-> "begin", op |-> session[s].op]
  <2>1. t \in Begun
    BY <1>1, WhenOpen DEF TxnInv, Begun
  <2>2. t.op.kind = "allocate" => ValidatorStubbed
    BY <1>1, WhenOpen DEF TxnInv, SessionsTyped
  <2>3. session' = [session EXCEPT ![s] = t] /\ lock' = Unlocked(s)
    BY <1>2 DEF Write
  <2> HIDE DEF t
  <2> QED BY <1>1, <2>1, <2>2, <2>3, GivesUp
<1>3. CASE MayWrite(s, d)
  <2> DEFINE t == [session[s] EXCEPT !.todo = @ \ {d}]
  <2>1. /\ session' = [session EXCEPT ![s] = t] /\ lock' = [lock EXCEPT ![d] = s]
        /\ d \notin session[s].stale /\ lock[d] = NoSession
    BY <1>3 DEF Write, MayWrite
  <2>2. /\ t \in Opened /\ t.op = session[s].op /\ t.docs = session[s].docs
        /\ t.stale = session[s].stale /\ t.todo = session[s].todo \ {d} /\ t # Idle
    BY <1>1, IdleIsNeither DEF Opened
  <2> HIDE DEF t
  <2>3. /\ session'[s] = t
        /\ \A x \in Sessions \ {s} : session'[x] = session[x]
        /\ session' \in [Sessions -> {Idle} \cup Begun \cup Opened]
        /\ lock' \in [Docs -> Sessions \cup {NoSession}]
        /\ lock'[d] = s /\ \A e \in Docs \ {d} : lock'[e] = lock[e]
    BY <2>1, <2>2 DEF TxnInv, SessionsTyped
  <2>4. SessionsTyped'
    BY <1>1, <2>2, <2>3, WhenOpen DEF TxnInv, SessionsTyped
  <2>5. Knows(t, CurrentDocs, Acceptable)
    BY <1>1, <2>2 DEF TxnInv, OpenIsSound, Knows
  <2>6. Owns(s, t, lock')
    <3>1. Owns(s, session[s], lock) /\ WriteSet(t.op) \subseteq Docs
      BY <1>1, <2>2, WhenOpen, Written DEF TxnInv, OpenIsSound
    <3> QED BY <2>1, <2>2, <2>3, <3>1 DEF Owns
  <2>7. ASSUME NEW x \in Sessions \ {s}, session[x].pc = "open"
        PROVE  Knows(session[x], CurrentDocs, Acceptable) /\ Owns(x, session[x], lock')
    <3>1. /\ Knows(session[x], CurrentDocs, Acceptable) /\ Owns(x, session[x], lock)
          /\ WriteSet(session[x].op) \subseteq Docs
      BY <2>7, WhenOpen, Written DEF TxnInv, OpenIsSound
    <3> QED BY <2>1, <2>3, <3>1, NoSessionAssumption DEF Owns
  <2>8. OpenIsSound'
    BY <1>1, <2>3, <2>5, <2>6, <2>7, Quiet DEF OpenIsSound
  <2> QED BY <1>1, <2>4, <2>8, StutterStep DEF TxnInv
<1> QED BY <1>2, <1>3

(* The sessions told that ds has changed lose what they knew of it and     *)
(* nothing else, as long as the documents they have written are not in it. *)
LEMMA Outdated ==
  ASSUME TxnInv, NEW ds \in SUBSET Docs, NEW others \in SUBSET Sessions,
         NEW x \in others, session[x].pc = "open",
         \A d \in Docs \ ds : SameDoc(d), \A d \in ds : lock[d] # x
  PROVE  LET t == Outdate(ds, others)[x] IN
         /\ t \in Opened /\ t.op = session[x].op /\ t.todo = session[x].todo
         /\ Knows(t, CurrentDocs', Acceptable')
         /\ Owns(x, t, lock)
<1> DEFINE t == [session[x] EXCEPT !.stale = @ \cup ds]
<1>1. Outdate(ds, others)[x] = t
  BY DEF Outdate
<1>2. session[x] \in Opened /\ session[x].op \in Ops /\ WriteSet(session[x].op) \subseteq Docs
  BY WhenOpen, Written DEF TxnInv
<1>3. /\ t \in Opened /\ t.op = session[x].op /\ t.todo = session[x].todo
      /\ t.docs = session[x].docs /\ t.stale = session[x].stale \cup ds
  BY <1>2 DEF Opened
<1> HIDE DEF t
<1>4. Knows(session[x], CurrentDocs, Acceptable) /\ Owns(x, session[x], lock)
  BY DEF TxnInv, OpenIsSound
<1>5. /\ \A d \in Docs \ ds : CurrentDocs'[d] = CurrentDocs[d]
      /\ \A op \in Ops : WriteSet(op) \cap ds = {} =>
           (op \in Acceptable' <=> op \in Acceptable)
  BY Local
<1>6. \A d \in WriteSet(t.op) \ t.stale : t.docs[d] = CurrentDocs'[d]
  BY <1>2, <1>3, <1>4, <1>5 DEF Knows
<1>7. WriteSet(t.op) \cap t.stale = {} => t.op \in Acceptable'
  BY <1>2, <1>3, <1>4, <1>5 DEF Knows
<1>8. Owns(x, t, lock)
  BY <1>3, <1>4 DEF Owns
<1> QED BY <1>1, <1>3, <1>6, <1>7, <1>8 DEF Knows

LEMMA CommitTxnStep ==
  ASSUME TxnInv, NEW s \in Sessions, Commit(s)
  PROVE  TxnInv'
<1> DEFINE ds == WriteSet(session[s].op)
           others == Sessions \ {s}
<1>1. /\ session[s].op \in Ops /\ session[s].pc = "open" /\ session[s].todo = {}
      /\ ds \subseteq Docs
  BY CommitIsCurrent, Written DEF Commit
<1>2. \A d \in Docs \ ds : SameDoc(d)
  BY <1>1, CommitIsCurrent, CommitIsLocal DEF TxnInv, IInv
<1>3. \A d \in ds : lock[d] = s
  BY <1>1 DEF TxnInv, OpenIsSound, Owns
<1>4. session' = [Outdate(ds, others) EXCEPT ![s] = Idle] /\ lock' = Unlocked(s)
  BY DEF Commit
<1> HIDE DEF ds
<1>5. /\ session'[s] = Idle
      /\ \A x \in others : session'[x] = Outdate(ds, others)[x]
      /\ session' = [x \in Sessions |-> session'[x]]
  BY <1>4 DEF Outdate
<1>6. \A x \in others : session[x].pc # "open" => session'[x] = session[x]
  BY <1>5 DEF Outdate
<1>7. ASSUME NEW x \in others, session[x].pc = "open"
      PROVE  /\ session'[x] \in Opened /\ session'[x].op = session[x].op
             /\ Knows(session'[x], CurrentDocs', Acceptable')
             /\ Owns(x, session'[x], lock')
  <2>1. \A d \in ds : lock[d] # x
    BY <1>3
  <2>2. /\ session'[x] \in Opened /\ session'[x].op = session[x].op
        /\ Knows(session'[x], CurrentDocs', Acceptable')
        /\ Owns(x, session'[x], lock)
    BY <1>1, <1>2, <1>5, <1>7, <2>1, Outdated
  <2>3. WriteSet(session'[x].op) \subseteq Docs
    BY <1>7, <2>2, WhenOpen, Written DEF TxnInv
  <2>4. \A d \in Docs : lock[d] = x => lock'[d] = x
    BY <1>4, UnlockedKeeps DEF TxnInv
  <2> QED BY <2>2, <2>3, <2>4 DEF Owns
<1>8. SessionsTyped'
  <2>1. ASSUME NEW x \in Sessions
        PROVE  /\ session'[x] \in {Idle} \cup Begun \cup Opened
               /\ session'[x] # Idle /\ session'[x].op.kind = "allocate" => ValidatorStubbed
    <3>1. CASE x = s
      BY <1>5, <3>1
    <3>2. CASE x # s /\ session[x].pc # "open"
      BY <1>6, <3>2 DEF TxnInv, SessionsTyped
    <3>3. CASE x # s /\ session[x].pc = "open"
      BY <1>7, <3>3, WhenOpen DEF TxnInv, SessionsTyped
    <3> QED BY <3>1, <3>2, <3>3
  <2> QED BY <1>4, <1>5, <2>1, UnlockedKeeps DEF TxnInv, SessionsTyped
<1>9. OpenIsSound'
  <2> SUFFICES ASSUME NEW x \in Sessions, session'[x].pc = "open"
               PROVE  /\ Knows(session'[x], CurrentDocs', Acceptable')
                      /\ Owns(x, session'[x], lock')
    BY DEF OpenIsSound
  <2>1. x # s
    BY <1>5, IdleIsNeither
  <2>2. session[x].pc = "open"
    BY <1>6, <2>1
  <2> QED BY <1>7, <2>1, <2>2
<1>10. IInv'
  BY CommitIsOne, NextInv DEF TxnInv
<1> QED BY <1>8, <1>9, <1>10 DEF TxnInv

LEMMA PlainStep ==
  ASSUME TxnInv, NEW o \in Orgs, NEW a \in Accounts, PlainWrite(o, a)
  PROVE  TxnInv'
<1>1. {a} \in SUBSET Docs /\ \A d \in Docs \ {a} : SameDoc(d)
  BY PlainIsLocal DEF TxnInv, IInv, Docs
<1>2. session' = Outdate({a}, Sessions) /\ lock' = lock /\ lock[a] = NoSession
  BY DEF PlainWrite
<1>3. \A x \in Sessions : session[x].pc # "open" => session'[x] = session[x]
  BY <1>2 DEF Outdate
<1>4. ASSUME NEW x \in Sessions, session[x].pc = "open"
      PROVE  /\ session'[x] \in Opened /\ session'[x].op = session[x].op
             /\ Knows(session'[x], CurrentDocs', Acceptable')
             /\ Owns(x, session'[x], lock')
  <2>1. \A d \in {a} : lock[d] # x
    BY <1>2, NoSessionAssumption
  <2> QED BY <1>1, <1>2, <1>4, <2>1, Outdated
<1>5. SessionsTyped'
  <2>1. ASSUME NEW x \in Sessions
        PROVE  /\ session'[x] \in {Idle} \cup Begun \cup Opened
               /\ session'[x] # Idle /\ session'[x].op.kind = "allocate" => ValidatorStubbed
    <3>1. CASE session[x].pc # "open"
      BY <1>3, <3>1 DEF TxnInv, SessionsTyped
    <3>2. CASE session[x].pc = "open"
      BY <1>4, <3>2, WhenOpen DEF TxnInv, SessionsTyped
    <3> QED BY <3>1, <3>2
  <2>2. session' = [x \in Sessions |-> session'[x]]
    BY <1>2 DEF Outdate
  <2> QED BY <1>2, <2>1, <2>2 DEF TxnInv, SessionsTyped
<1>6. OpenIsSound'
  BY <1>3, <1>4 DEF OpenIsSound
<1>7. IInv'
  BY PlainIsOne, NextInv DEF TxnInv
<1> QED BY <1>5, <1>6, <1>7 DEF TxnInv

(* A PATCH that reads, or ends, leaves documents and sessions alone.       *)
LEMMA PlainReadStep ==
  ASSUME TxnInv, PlainRead
  PROVE  TxnInv' /\ Next
<1>1. PICK e \in Editors : DropEdit(e) \/ \E o \in Orgs, a \in Accounts : ReadBudget(o, a, e)
  BY DEF PlainRead
<1>2. Next
  BY <1>1 DEF Next, AccountNext
<1>3. UNCHANGED <<pool, budget, lifecycle, poolLedger, accountLedger>>
  BY <1>1 DEF DropEdit, ReadBudget
<1>4. CurrentDocs' = CurrentDocs /\ Acceptable' = Acceptable
  BY <1>3, StillDocs
<1>5. session' = session /\ lock' = lock
  BY DEF PlainRead
<1>6. SessionsTyped' /\ OpenIsSound'
  BY <1>4, <1>5 DEF TxnInv, SessionsTyped, OpenIsSound
<1>7. IInv'
  BY <1>2, NextInv DEF TxnInv
<1> QED BY <1>2, <1>6, <1>7 DEF TxnInv

LEMMA TxnNextInv == TxnInv /\ [TxnNext]_txnVars => TxnInv' /\ [Next]_vars
<1> SUFFICES ASSUME TxnInv, [TxnNext]_txnVars PROVE TxnInv' /\ [Next]_vars
  OBVIOUS
<1>1. CASE UNCHANGED txnVars
  <2>1. UNCHANGED vars /\ session' = session /\ lock' = lock
    BY <1>1 DEF txnVars
  <2>2. SessionsTyped' /\ OpenIsSound'
    BY <2>1, Quiet DEF TxnInv, SessionsTyped, OpenIsSound
  <2> QED BY <2>1, <2>2, StutterStep DEF TxnInv
<1>2. ASSUME NEW s \in Sessions, NEW op \in Ops, Start(s, op)
      PROVE  TxnInv' /\ UNCHANGED vars
  BY <1>2, StartStep DEF Start
<1>3. ASSUME NEW s \in Sessions, Load(s) PROVE TxnInv' /\ UNCHANGED vars
  BY <1>3, LoadStep DEF Load
<1>4. ASSUME NEW s \in Sessions, NEW d \in Docs, Write(s, d) PROVE TxnInv' /\ UNCHANGED vars
  BY <1>4, WriteStep DEF Write
<1>5. ASSUME NEW s \in Sessions, Commit(s) PROVE TxnInv' /\ Next
  BY <1>5, CommitTxnStep, CommitIsOne
<1>6. ASSUME NEW s \in Sessions, Abort(s) PROVE TxnInv' /\ UNCHANGED vars
  BY <1>6, AbortStep DEF Abort
<1>7. ASSUME NEW o \in Orgs, NEW a \in Accounts, PlainWrite(o, a) PROVE TxnInv' /\ Next
  BY <1>7, PlainStep, PlainIsOne
<1>8. ASSUME PlainRead PROVE TxnInv' /\ Next
  BY <1>8, PlainReadStep
<1> QED BY <1>1, <1>2, <1>3, <1>4, <1>5, <1>6, <1>7, <1>8 DEF TxnNext

-----------------------------------------------------------------------------

(* Whatever the interleaving of snapshots, writes, conflicts, retries,     *)
(* plain writes and deaths, the committed documents and rows change as the *)
(* operations of CreditLedger change them: MongoDB's conflict check is     *)
(* all the services of credits need.                                       *)
THEOREM TransactionsAreOperations == TxnSpec => ImplementsLedger
<1>1. TxnInit => Init
  BY DEF TxnInit
<1> QED BY <1>1, TxnInitInv, TxnNextInv, PTL DEF TxnSpec, ImplementsLedger, Spec

(* So everything CreditLedger promises holds of the committed documents:   *)
(* holds are covered, the rows add up to the totals, no allocation passes  *)
(* the limit in force and credits only move, PATCHes of the counters being *)
(* on record.                                                              *)
THEOREM TransactionsKeepTheBooks ==
  TxnSpec => /\ [](ReservedIsCovered /\ LedgerReconciles)
             /\ AllocationRespectsLimit
             /\ ImplementsFlow
<1>1. TxnSpec => Spec
  BY TransactionsAreOperations DEF ImplementsLedger
<1> QED BY <1>1, Reservations, Audit, AllocationLimit, FlowIsImplemented, PTL

-----------------------------------------------------------------------------
(* The budget of an account.  A request that merges a PATCH holds counters *)
(* that it read together.                                                  *)

BudgetTyped ==
  /\ doc \in [Fields -> Int] /\ rows \in [{"granted", "charged"} -> Int]
  /\ call \in [Calls -> {NoCall} \cup [pc : {"sync"}] \cup [pc : {"upsert", "merge"}, doc : [Fields -> Int]]]
  /\ overwritten \subseteq {"stale", "counters"} /\ opened \in [{"allocated", "used"} -> Int]

Covered(b, u) == b["used"] <= b["allocated"] \/ b["used"] = u

MergesCover ==
  "counters" \notin overwritten => \A c \in Calls : call[c].pc = "merge" => Covered(call[c].doc, opened.used)

BudgetInv == BudgetTyped /\ BudgetMatchesRows /\ MergesCover

LEMMA BudgetStarts == BudgetInit => BudgetInv
<1> SUFFICES ASSUME BudgetInit PROVE BudgetInv
  OBVIOUS
<1>1. PICK body \in Bodies : doc = Merged([f \in Fields |-> 0], body)
  BY DEF BudgetInit
<1>2. doc \in [Fields -> Int]
  BY <1>1, PatchesAssumption DEF Merged
<1>3. /\ doc["allocated"] \in Int /\ doc["used"] \in Int
      /\ opened = [allocated |-> doc["allocated"], used |-> doc["used"]]
  BY <1>2 DEF BudgetInit, Fields
<1>4. /\ opened \in [{"allocated", "used"} -> Int]
      /\ opened.allocated = doc["allocated"] /\ opened.used = doc["used"]
  BY <1>3
<1>5. /\ rows \in [{"granted", "charged"} -> Int] /\ rows["granted"] = 0 /\ rows["charged"] = 0
      /\ overwritten = {} /\ call = [c \in Calls |-> NoCall]
  BY DEF BudgetInit
<1>6. BudgetMatchesRows
  BY <1>3, <1>4, <1>5 DEF BudgetMatchesRows
<1>7. MergesCover
  BY <1>5 DEF MergesCover, NoCall
<1> QED
  BY <1>2, <1>4, <1>5, <1>6, <1>7 DEF BudgetInv, BudgetTyped

CallStates == {NoCall} \cup [pc : {"sync"}] \cup [pc : {"upsert", "merge"}, doc : [Fields -> Int]]

(* A call that goes on holds counters to merge only if it read them now.   *)
LEMMA CallsHold ==
  ASSUME BudgetInv, NEW c \in Calls, NEW x \in CallStates, call' = [call EXCEPT ![c] = x],
         x.pc = "merge" => x.doc = doc, UNCHANGED <<overwritten, opened>>
  PROVE  call' \in [Calls -> CallStates] /\ MergesCover'
<1>1. call \in [Calls -> CallStates]
  BY DEF BudgetInv, BudgetTyped, CallStates
<1>2. call'[c] = x /\ \A d \in Calls \ {c} : call'[d] = call[d]
  BY <1>1
<1>3. ASSUME "counters" \notin overwritten', NEW d \in Calls, call'[d].pc = "merge"
      PROVE  Covered(call'[d].doc, opened'.used)
  <2>1. CASE d = c
    BY <1>2, <1>3, <2>1 DEF BudgetInv, BudgetMatchesRows, Covered
  <2>2. CASE d # c
    BY <1>2, <1>3, <2>2 DEF BudgetInv, MergesCover
  <2> QED
    BY <2>1, <2>2
<1> QED
  BY <1>1, <1>3 DEF MergesCover

LEMMA Reading ==
  ASSUME BudgetInv, NEW c \in Calls, NEW x \in CallStates, call' = [call EXCEPT ![c] = x],
         x.pc = "merge" => x.doc = doc, UNCHANGED <<doc, rows, overwritten, opened>>
  PROVE  BudgetInv'
BY CallsHold DEF BudgetInv, BudgetTyped, BudgetMatchesRows, CallStates

LEMMA Held == \A b \in [Fields -> Int] : /\ Holding("upsert", b) \in CallStates /\ Holding("upsert", b).pc = "upsert"
                                         /\ Holding("merge", b) \in CallStates /\ Holding("merge", b).doc = b
BY DEF Holding, CallStates

LEMMA Unheld ==
  /\ NoCall \in CallStates /\ NoCall.pc = "idle"
  /\ \A x : x = [pc |-> "sync"] => x \in CallStates /\ x.pc = "sync"
<1>1. NoCall \in CallStates
  BY DEF CallStates
<1>2. NoCall.pc = "idle"
  BY DEF NoCall
<1>3. ASSUME NEW x, x = [pc |-> "sync"] PROVE x \in CallStates /\ x.pc = "sync"
  <2>1. x.pc = "sync" /\ x \in [pc : {"sync"}]
    BY <1>3
  <2> QED
    BY <2>1 DEF CallStates
<1> QED
  BY <1>1, <1>2, <1>3

(* The budget is written by an operator that keeps counters and rows in    *)
(* step.                                                                   *)
LEMMA Writing ==
  ASSUME BudgetInv, NEW c \in Calls, NEW x \in CallStates, call' = [call EXCEPT ![c] = x], x.pc # "merge",
         doc' \in [Fields -> Int], rows' \in [{"granted", "charged"} -> Int],
         doc'["allocated"] - doc["allocated"] = rows'["granted"] - rows["granted"],
         doc'["used"] - doc["used"] = rows'["charged"] - rows["charged"],
         Covered(doc, opened.used) => Covered(doc', opened.used), UNCHANGED <<overwritten, opened>>
  PROVE  BudgetInv'
<1>1. /\ doc \in [Fields -> Int] /\ rows \in [{"granted", "charged"} -> Int]
      /\ doc["allocated"] \in Int /\ doc["used"] \in Int /\ doc'["allocated"] \in Int /\ doc'["used"] \in Int
      /\ rows["granted"] \in Int /\ rows["charged"] \in Int /\ rows'["granted"] \in Int /\ rows'["charged"] \in Int
      /\ opened["allocated"] \in Int /\ opened["used"] \in Int
  BY DEF BudgetInv, BudgetTyped, Fields
<1>2. BudgetMatchesRows'
  BY <1>1 DEF BudgetInv, BudgetMatchesRows, Covered
<1> QED
  BY <1>2, CallsHold DEF BudgetInv, BudgetTyped, CallStates

LEMMA Allocating ==
  ASSUME BudgetInv, NEW c \in Calls, NEW n \in Requested, Allocate(c, n)
  PROVE  BudgetInv'
<1>1. /\ doc \in [Fields -> Int] /\ rows \in [{"granted", "charged"} -> Int] /\ n \in Nat
      /\ UNCHANGED <<overwritten, opened>>
  BY BudgetAssumption DEF BudgetInv, BudgetTyped, Allocate
<1>2. CASE UNCHANGED <<doc, rows, call>>
  BY <1>1, <1>2 DEF BudgetInv, BudgetTyped, BudgetMatchesRows, MergesCover
<1>3. ASSUME NEW b, b = [doc EXCEPT !["allocated"] = @ + n], doc' = b, call' = [call EXCEPT ![c] = Holding("upsert", b)],
             rows' = [rows EXCEPT !["granted"] = @ + n]
      PROVE  BudgetInv'
  <2>1. /\ b \in [Fields -> Int] /\ b["allocated"] = doc["allocated"] + n /\ b["used"] = doc["used"]
        /\ rows' \in [{"granted", "charged"} -> Int]
        /\ rows'["granted"] = rows["granted"] + n /\ rows'["charged"] = rows["charged"]
        /\ doc["allocated"] \in Int /\ doc["used"] \in Int /\ rows["granted"] \in Int /\ rows["charged"] \in Int
    BY <1>1, <1>3 DEF Fields
  <2>2. Covered(doc, opened.used) => Covered(b, opened.used)
    BY <1>1, <2>1 DEF Covered
  <2> QED
    <3>1. PICK x \in CallStates : x = Holding("upsert", b) /\ x.pc = "upsert"
      BY <2>1, Held
    <3>2. /\ doc' \in [Fields -> Int] /\ (Covered(doc, opened.used) => Covered(doc', opened.used))
          /\ doc'["allocated"] - doc["allocated"] = n /\ doc'["used"] - doc["used"] = 0
          /\ rows'["granted"] - rows["granted"] = n /\ rows'["charged"] - rows["charged"] = 0
      BY <1>1, <1>3, <2>1, <2>2
    <3> QED
      BY <1>1, <1>3, <2>1, <3>1, <3>2, Writing
<1> QED
  BY <1>2, <1>3 DEF Allocate

LEMMA Consuming ==
  ASSUME BudgetInv, NEW c \in Calls, NEW n \in Requested, Consume(c, n)
  PROVE  BudgetInv'
<1>1. /\ doc \in [Fields -> Int] /\ rows \in [{"granted", "charged"} -> Int] /\ n \in Nat
      /\ UNCHANGED <<overwritten, opened>> /\ call' = [call EXCEPT ![c] = [pc |-> "sync"]]
      /\ doc' = [doc EXCEPT !["used"] = @ + n] /\ rows' = [rows EXCEPT !["charged"] = @ + n]
      /\ doc["allocated"] - doc["used"] >= n
  BY BudgetAssumption DEF BudgetInv, BudgetTyped, Consume
<1>2. /\ doc' \in [Fields -> Int] /\ doc'["used"] = doc["used"] + n /\ doc'["allocated"] = doc["allocated"]
      /\ rows' \in [{"granted", "charged"} -> Int]
      /\ rows'["charged"] = rows["charged"] + n /\ rows'["granted"] = rows["granted"]
      /\ doc["allocated"] \in Int /\ doc["used"] \in Int /\ rows["granted"] \in Int /\ rows["charged"] \in Int
  BY <1>1 DEF Fields
<1>3. Covered(doc', opened.used)
  BY <1>1, <1>2 DEF Covered
<1>4. PICK x \in CallStates : x = [pc |-> "sync"] /\ x.pc = "sync"
  BY Unheld
<1>5. Covered(doc, opened.used) => Covered(doc', opened.used)
  BY <1>3
<1>6. doc'["allocated"] - doc["allocated"] = 0 /\ rows'["granted"] - rows["granted"] = 0
  BY <1>2
<1>7. doc'["used"] - doc["used"] = n /\ rows'["charged"] - rows["charged"] = n
  BY <1>1, <1>2
<1> QED
  BY <1>1, <1>2, <1>4, <1>5, <1>6, <1>7, Writing

LEMMA Limiting ==
  ASSUME BudgetInv, NEW c \in Calls, NEW l \in NewLimits, SetAccountLimit(c, l)
  PROVE  BudgetInv'
<1>1. /\ doc \in [Fields -> Int] /\ rows \in [{"granted", "charged"} -> Int] /\ l \in Int
      /\ UNCHANGED <<overwritten, opened>> /\ rows' = rows
  <2>1. l \in Int
    BY BudgetAssumption
  <2> QED
    BY <2>1 DEF BudgetInv, BudgetTyped, SetAccountLimit
<1>2. CASE UNCHANGED <<doc, call>>
  BY <1>1, <1>2 DEF BudgetInv, BudgetTyped, BudgetMatchesRows, MergesCover
<1>3. ASSUME NEW b, b = [doc EXCEPT !["limit"] = l], doc' = b, call' = [call EXCEPT ![c] = Holding("upsert", b)]
      PROVE  BudgetInv'
  <2>1. /\ b \in [Fields -> Int] /\ b["allocated"] = doc["allocated"] /\ b["used"] = doc["used"]
        /\ doc["allocated"] \in Int /\ doc["used"] \in Int /\ rows["granted"] \in Int /\ rows["charged"] \in Int
    BY <1>1, <1>3 DEF Fields
  <2>2. Covered(doc, opened.used) => Covered(b, opened.used)
    BY <2>1 DEF Covered
  <2> QED
    <3>1. PICK x \in CallStates : x = Holding("upsert", b) /\ x.pc = "upsert"
      BY <2>1, Held
    <3>2. /\ doc' \in [Fields -> Int] /\ (Covered(doc, opened.used) => Covered(doc', opened.used))
          /\ doc'["allocated"] - doc["allocated"] = 0 /\ doc'["used"] - doc["used"] = 0
          /\ rows'["granted"] - rows["granted"] = 0 /\ rows'["charged"] - rows["charged"] = 0
      BY <1>1, <1>3, <2>1, <2>2
    <3> QED
      BY <1>1, <1>3, <2>1, <3>1, <3>2, Writing
<1> QED
  BY <1>2, <1>3 DEF SetAccountLimit

LEMMA Merging ==
  ASSUME BudgetInv, NEW c \in Calls, NEW patch \in Patches, UpdateWrite(c, patch)
  PROVE  BudgetInv'
<1>1. /\ doc \in [Fields -> Int] /\ rows \in [{"granted", "charged"} -> Int]
      /\ rows' = rows /\ opened' = opened
      /\ call' = [call EXCEPT ![c] = NoCall] /\ call[c].pc = "merge"
      /\ overwritten \subseteq {"stale", "counters"} /\ call \in [Calls -> CallStates]
  BY DEF BudgetInv, BudgetTyped, UpdateWrite, CallStates
<1>2. CASE UNCHANGED <<doc, overwritten>>
  <2>1. PICK x \in CallStates : x = NoCall /\ x.pc = "idle"
    BY Unheld
  <2> QED
    BY <1>1, <1>2, <2>1, Reading
<1>3. ASSUME NEW read, read = call[c].doc, doc' = Merged(read, patch),
             overwritten' = overwritten
                  \cup {o \in {"stale"} : <<read["allocated"], read["used"]>> # <<doc["allocated"], doc["used"]>>}
                  \cup {o \in {"counters"} : ~(DOMAIN patch \subseteq {"limit"})}
      PROVE  BudgetInv'
  <2>1. read \in [Fields -> Int]
    BY <1>1, <1>3 DEF CallStates, NoCall
  <2>2. doc' \in [Fields -> Int]
    BY <1>3, <2>1, PatchesAssumption DEF Merged
  <2>3. /\ overwritten' \subseteq {"stale", "counters"} /\ overwritten \subseteq overwritten'
        /\ overwritten' = {} => read["allocated"] = doc["allocated"] /\ read["used"] = doc["used"]
        /\ "counters" \notin overwritten' => DOMAIN patch \subseteq {"limit"}
    BY <1>1, <1>3
  <2>4. DOMAIN patch \subseteq {"limit"} => doc'["allocated"] = read["allocated"] /\ doc'["used"] = read["used"]
    BY <1>3 DEF Merged, Fields
  <2>5. "counters" \notin overwritten => Covered(read, opened.used)
    BY <1>1, <1>3 DEF BudgetInv, MergesCover
  <2>6. BudgetMatchesRows'
    BY <1>1, <2>3, <2>4, <2>5 DEF BudgetInv, BudgetMatchesRows, Covered
  <2>7. call' \in [Calls -> CallStates] /\ call'[c] = NoCall /\ \A d \in Calls \ {c} : call'[d] = call[d]
    BY <1>1, Unheld
  <2>8. MergesCover'
    <3>1. "counters" \notin overwritten' => "counters" \notin overwritten
      BY <2>3
    <3>2. call'[c].pc # "merge"
      BY <2>7, Unheld
    <3>3. ASSUME "counters" \notin overwritten', NEW d \in Calls, call'[d].pc = "merge"
          PROVE  Covered(call'[d].doc, opened'.used)
      <4>1. d # c
        BY <3>2, <3>3
      <4>2. call'[d] = call[d]
        BY <2>7, <4>1
      <4> QED
        BY <1>1, <3>1, <3>3, <4>2 DEF BudgetInv, MergesCover
    <3> QED
      BY <3>3 DEF MergesCover
  <2> QED
    BY <1>1, <2>2, <2>3, <2>6, <2>7, <2>8 DEF BudgetInv, BudgetTyped, CallStates
<1> QED
  BY <1>2, <1>3 DEF UpdateWrite

LEMMA BudgetGoesOn == BudgetInv /\ [BudgetNext]_budgetVars => BudgetInv'
<1> SUFFICES ASSUME BudgetInv, [BudgetNext]_budgetVars PROVE BudgetInv'
  OBVIOUS
<1>1. doc \in [Fields -> Int]
  BY DEF BudgetInv, BudgetTyped
<1>2. CASE UNCHANGED <<doc, rows, call, overwritten, opened>>
  BY <1>2 DEF BudgetInv, BudgetTyped, BudgetMatchesRows, MergesCover
<1>3. ASSUME NEW c \in Calls, GetBudget(c) \/ SyncRead(c) \/ Upsert(c) \/ UpdateRead(c) \/ CrashCall(c)
      PROVE  BudgetInv'
  <2>1. UNCHANGED <<doc, rows, overwritten, opened>>
    BY <1>3 DEF GetBudget, SyncRead, Upsert, UpdateRead, CrashCall
  <2>2. \/ UNCHANGED call \/ call' = [call EXCEPT ![c] = NoCall]
        \/ call' = [call EXCEPT ![c] = Holding("upsert", doc)] \/ call' = [call EXCEPT ![c] = Holding("merge", doc)]
    BY <1>3 DEF GetBudget, SyncRead, Upsert, UpdateRead, CrashCall
  <2>3. ASSUME NEW x \in CallStates, call' = [call EXCEPT ![c] = x], x.pc = "merge" => x.doc = doc
        PROVE  BudgetInv'
    BY <2>1, <2>3, Reading
  <2>4. NoCall \in CallStates /\ (NoCall.pc = "merge" => NoCall.doc = doc)
    BY Unheld
  <2>5. /\ Holding("upsert", doc) \in CallStates
        /\ Holding("upsert", doc).pc = "merge" => Holding("upsert", doc).doc = doc
        /\ Holding("merge", doc) \in CallStates /\ Holding("merge", doc).doc = doc
    BY <1>1, Held
  <2> QED
    BY <1>2, <2>1, <2>2, <2>3, <2>4, <2>5
<1>4. Remove => BudgetInv'
  BY <1>2 DEF Remove
<1>5. UNCHANGED budgetVars => BudgetInv'
  BY <1>2 DEF budgetVars
<1> QED
  BY <1>3, <1>4, <1>5, Allocating, Consuming, Limiting, Merging DEF BudgetNext

(* Until a PATCH writes counters back, the budget of an account is what it *)
(* was created with and the sums of its ledger rows; and unless a PATCH    *)
(* sets counters itself, an account never shows more use than allocation,  *)
(* but for use it was created with (account.service.ts:51, :107).          *)
THEOREM BudgetsMatch == BudgetSpec => []BudgetMatchesRows
<1>1. BudgetInv => BudgetMatchesRows
  BY DEF BudgetInv
<1> QED
  BY <1>1, BudgetStarts, BudgetGoesOn, PTL DEF BudgetSpec

-----------------------------------------------------------------------------
(* The rate card.  Whatever a clerk has read was in force once, and cards  *)
(* that were in force stay known.                                          *)

Desks ==
  {AtDesk} \cup [at : {"charge"}, kind : Work, amount : Nat]
    \cup [at : {"write", "log"}, custom : UNION {[K -> Nat] : K \in SUBSET Work},
          before : [rates : [Work -> Nat], source : {"default", "custom"}]]

RatesTyped == clerk \in [Clerks -> Desks]

DesksAreKnown ==
  \A c \in Clerks :
    /\ clerk[c].at = "charge" => \E card \in KnownCards : card[clerk[c].kind] = clerk[c].amount
    /\ clerk[c].at \in {"write", "log"} => clerk[c].before.rates \in KnownCards

RatesInv == RatesTyped /\ DesksAreKnown /\ ChargesAreExplained /\ Rates(overrides) \in [Work -> Nat]

LEMMA RatesStart == RatesInit => RatesInv
<1> SUFFICES ASSUME RatesInit PROVE RatesInv
  OBVIOUS
<1>1. Rates(overrides) = DefaultRates /\ DefaultRates \in [Work -> Nat]
  BY RatesAssumption DEF RatesInit, Rates, NoOverrides
<1>2. \A c \in Clerks : clerk[c].at = "desk"
  BY DEF RatesInit, AtDesk
<1> QED
  BY <1>1, <1>2 DEF RatesInit, RatesInv, RatesTyped, Desks, DesksAreKnown, ChargesAreExplained, KnownCards

LEMMA Desk == \A c \in Clerks : RatesTyped =>
  /\ clerk[c].at = "desk" <=> clerk[c] = AtDesk
  /\ clerk[c].at = "charge" => clerk[c] \in [at : {"charge"}, kind : Work, amount : Nat]
  /\ clerk[c].at \in {"write", "log"} =>
       clerk[c] \in [at : {"write", "log"}, custom : UNION {[K -> Nat] : K \in SUBSET Work},
                     before : [rates : [Work -> Nat], source : {"default", "custom"}]]
BY DEF RatesTyped, Desks, AtDesk

LEMMA CardsOf == ASSUME NEW custom \in UNION {[K -> Nat] : K \in SUBSET Work} PROVE Rates(custom) \in [Work -> Nat]
BY RatesAssumption DEF Rates

(* A clerk that goes on makes no card unknown, if the card it was logging  *)
(* is known now.                                                           *)
LEMMA CardsStay ==
  ASSUME RatesTyped, NEW c \in Clerks, NEW x \in Desks, clerk' = [clerk EXCEPT ![c] = x],
         rateLog \subseteq rateLog', silent \subseteq silent',
         clerk[c].at = "log" => Rates(clerk[c].custom) \in KnownCards'
  PROVE  KnownCards \subseteq KnownCards'
<1>1. \A d \in Clerks \ {c} : clerk'[d] = clerk[d]
  BY DEF RatesTyped
<1>2. ASSUME NEW d \in Clerks, clerk[d].at = "log" PROVE Rates(clerk[d].custom) \in KnownCards'
  <2>1. CASE d = c
    BY <1>2, <2>1
  <2>2. CASE d # c
    <3>1. clerk'[d].at = "log" /\ clerk'[d].custom = clerk[d].custom
      BY <1>1, <1>2, <2>2
    <3> QED
      BY <3>1 DEF KnownCards, Rates
  <2> QED
    BY <2>1, <2>2
<1> QED
  BY <1>2 DEF KnownCards

(* A step of one clerk, by what it needs to know.                          *)
LEMMA ClerkGoesOn ==
  ASSUME RatesInv, NEW c \in Clerks, NEW x \in Desks, clerk' = [clerk EXCEPT ![c] = x],
         KnownCards \subseteq KnownCards',
         x.at = "charge" => \E card \in KnownCards' : card[x.kind] = x.amount,
         x.at \in {"write", "log"} => x.before.rates \in KnownCards',
         \A y \in charges' \ charges : \E card \in KnownCards' : card[y.kind] = y.amount,
         \A e \in rateLog' \ rateLog : e.before.rates \in KnownCards',
         Rates(overrides)' \in KnownCards' /\ Rates(overrides)' \in [Work -> Nat]
  PROVE  RatesInv'
<1>1. clerk' \in [Clerks -> Desks] /\ clerk'[c] = x /\ \A d \in Clerks \ {c} : clerk'[d] = clerk[d]
  BY DEF RatesInv, RatesTyped
<1>2. DesksAreKnown'
  BY <1>1 DEF RatesInv, DesksAreKnown
<1>3. ChargesAreExplained'
  BY DEF RatesInv, ChargesAreExplained
<1> QED
  BY <1>1, <1>2, <1>3 DEF RatesInv, RatesTyped

LEMMA ChangeBegins ==
  ASSUME RatesInv, NEW c \in Clerks, NEW custom \in UNION {[K -> Nat] : K \in SUBSET Work}, BeginChange(c, custom)
  PROVE  RatesInv'
<1>1. PICK r : r = [rates |-> Rates(overrides), source |-> Shown(overrides).source]
  OBVIOUS
<1>2. r = Shown(overrides) /\ r.rates = Rates(overrides) /\ r \in [rates : [Work -> Nat], source : {"default", "custom"}]
  BY <1>1 DEF Shown, RatesInv
<1>3. PICK x : x = [at |-> "write", custom |-> custom, before |-> r]
  OBVIOUS
<1>4. x.at = "write" /\ x.before = r
  BY <1>3
<1>5. x \in [at : {"write", "log"}, custom : UNION {[K -> Nat] : K \in SUBSET Work},
          before : [rates : [Work -> Nat], source : {"default", "custom"}]]
  BY <1>2, <1>3
<1>6. x \in Desks
  BY <1>5 DEF Desks
<1>7. /\ clerk[c] = AtDesk /\ UNCHANGED <<overrides, rateLog, charges, silent>>
      /\ clerk' = [clerk EXCEPT ![c] = x]
  BY <1>2, <1>3 DEF BeginChange
<1>8. KnownCards \subseteq KnownCards'
  <2>1. clerk[c].at = "desk"
    BY <1>7 DEF AtDesk
  <2> QED
    BY <1>6, <1>7, <2>1, CardsStay DEF RatesInv
<1>9. Rates(overrides)' = Rates(overrides)
  BY <1>7 DEF Rates
<1> QED
  BY <1>2, <1>4, <1>6, <1>7, <1>8, <1>9, ClerkGoesOn DEF RatesInv, ChargesAreExplained

LEMMA RatesAreWritten ==
  ASSUME RatesInv, NEW c \in Clerks, WriteRates(c)
  PROVE  RatesInv'
<1>1. /\ clerk[c].at = "write" /\ UNCHANGED <<rateLog, charges, silent>> /\ overrides' = clerk[c].custom
      /\ clerk' = [clerk EXCEPT ![c].at = "log"]
  BY DEF WriteRates
<1>2. PICK k, b : /\ clerk[c] = [at |-> "write", custom |-> k, before |-> b]
                  /\ k \in UNION {[K -> Nat] : K \in SUBSET Work}
                  /\ b \in [rates : [Work -> Nat], source : {"default", "custom"}]
                  /\ clerk[c].custom = k /\ clerk[c].before = b
  BY <1>1, Desk DEF RatesInv
<1>3. PICK x : x = [at |-> "log", custom |-> k, before |-> b]
  OBVIOUS
<1>4. x \in [at : {"write", "log"}, custom : UNION {[K -> Nat] : K \in SUBSET Work},
          before : [rates : [Work -> Nat], source : {"default", "custom"}]]
      /\ x.at = "log" /\ x.custom = k /\ x.before = b
  BY <1>2, <1>3
<1>5. x \in Desks
  BY <1>4 DEF Desks
<1>6. clerk' = [clerk EXCEPT ![c] = x]
  <2>1. [clerk[c] EXCEPT !.at = "log"] = x
    BY <1>2, <1>3
  <2> QED
    BY <1>1, <2>1
<1>7. KnownCards \subseteq KnownCards'
  BY <1>1, <1>5, <1>6, CardsStay DEF RatesInv
<1>8. Rates(overrides)' = Rates(k) /\ Rates(k) \in [Work -> Nat]
  BY <1>1, <1>2, CardsOf DEF Rates
<1>9. clerk'[c] = x
  BY <1>5, <1>6 DEF RatesInv, RatesTyped
<1>10. Rates(k) \in KnownCards'
  <2>1. clerk'[c].at = "log" /\ clerk'[c].custom = k
    BY <1>4, <1>9
  <2> QED
    BY <2>1 DEF KnownCards, Rates
<1>11. b.rates \in KnownCards'
  BY <1>1, <1>2, <1>7 DEF RatesInv, DesksAreKnown
<1> QED
  BY <1>1, <1>4, <1>5, <1>6, <1>7, <1>8, <1>10, <1>11, ClerkGoesOn

LEMMA RatesAreLogged ==
  ASSUME RatesInv, NEW c \in Clerks, NEW saved \in BOOLEAN, LogRates(c, saved)
  PROVE  RatesInv'
<1>1. PICK before, after : before = clerk[c].before /\ after = After(clerk[c].custom, clerk[c].before)
  OBVIOUS
<1>2. PICK e : e = [before |-> before, after |-> after]
  OBVIOUS
<1>3. /\ clerk[c].at = "log" /\ UNCHANGED <<overrides, charges>>
      /\ rateLog' = rateLog \cup {d \in {e} : saved}
      /\ silent' = silent \cup {r \in {Rates(clerk[c].custom)} : ~saved}
      /\ clerk' = [clerk EXCEPT ![c] = AtDesk]
  BY <1>1, <1>2 DEF LogRates
<1>4. e.before = before /\ e.after.rates = Rates(clerk[c].custom)
  BY <1>1, <1>2 DEF After
<1>5. Rates(clerk[c].custom) \in KnownCards'
  BY <1>3, <1>4 DEF KnownCards
<1>6. AtDesk \in Desks /\ AtDesk.at = "desk"
  BY DEF Desks, AtDesk
<1>7. KnownCards \subseteq KnownCards'
  BY <1>3, <1>5, <1>6, CardsStay DEF RatesInv
<1>8. before.rates \in KnownCards'
  BY <1>1, <1>3, <1>7 DEF RatesInv, DesksAreKnown
<1>9. \A d \in rateLog' \ rateLog : d.before.rates \in KnownCards'
  BY <1>3, <1>4, <1>8
<1>10. Rates(overrides)' = Rates(overrides)
  BY <1>3 DEF Rates
<1> QED
  BY <1>3, <1>6, <1>7, <1>9, <1>10, ClerkGoesOn DEF RatesInv, ChargesAreExplained

LEMMA RateIsRead ==
  ASSUME RatesInv, NEW c \in Clerks, NEW k \in Work, ReadRate(c, k)
  PROVE  RatesInv'
<1>1. PICK n \in Nat : n = Rates(overrides)[k]
  BY DEF RatesInv
<1>2. PICK x : x = [at |-> "charge", kind |-> k, amount |-> n]
  OBVIOUS
<1>3. x \in [at : {"charge"}, kind : Work, amount : Nat] /\ x.at = "charge" /\ x.kind = k /\ x.amount = n
  BY <1>2
<1>4. x \in Desks
  BY <1>3 DEF Desks
<1>5. clerk[c] = AtDesk /\ UNCHANGED <<overrides, rateLog, charges, silent>> /\ clerk' = [clerk EXCEPT ![c] = x]
  BY <1>1, <1>2 DEF ReadRate
<1>6. KnownCards \subseteq KnownCards'
  <2>1. clerk[c].at = "desk"
    BY <1>5 DEF AtDesk
  <2> QED
    BY <1>4, <1>5, <2>1, CardsStay DEF RatesInv
<1>7. Rates(overrides)' = Rates(overrides)
  BY <1>5 DEF Rates
<1>8. \E card \in KnownCards' : card[k] = n
  BY <1>1, <1>6 DEF RatesInv, ChargesAreExplained
<1> QED
  BY <1>3, <1>4, <1>5, <1>6, <1>7, <1>8, ClerkGoesOn DEF RatesInv, ChargesAreExplained

LEMMA RateIsCharged ==
  ASSUME RatesInv, NEW c \in Clerks, ChargeRate(c)
  PROVE  RatesInv'
<1>1. PICK row : row = [kind |-> clerk[c].kind, amount |-> clerk[c].amount]
  OBVIOUS
<1>2. /\ clerk[c].at = "charge" /\ charges' = charges \cup {row} /\ clerk' = [clerk EXCEPT ![c] = AtDesk]
      /\ UNCHANGED <<overrides, rateLog, silent>> /\ row.kind = clerk[c].kind /\ row.amount = clerk[c].amount
  BY <1>1 DEF ChargeRate
<1>3. AtDesk \in Desks /\ AtDesk.at = "desk"
  BY DEF Desks, AtDesk
<1>4. KnownCards \subseteq KnownCards'
  BY <1>2, <1>3, CardsStay DEF RatesInv
<1>5. \E card \in KnownCards' : card[row.kind] = row.amount
  BY <1>2, <1>4 DEF RatesInv, DesksAreKnown
<1>6. Rates(overrides)' = Rates(overrides)
  BY <1>2 DEF Rates
<1> QED
  BY <1>2, <1>3, <1>4, <1>5, <1>6, ClerkGoesOn DEF RatesInv, ChargesAreExplained

LEMMA RatesGoOn == RatesInv /\ [RatesNext]_rateVars => RatesInv'
<1> SUFFICES ASSUME RatesInv, [RatesNext]_rateVars PROVE RatesInv'
  OBVIOUS
<1>1. ASSUME UNCHANGED rateVars PROVE RatesInv'
  BY <1>1 DEF rateVars, RatesInv, RatesTyped, DesksAreKnown, ChargesAreExplained, KnownCards, Rates
<1>2. ASSUME NEW c \in Clerks, NEW body \in RateBodies, SetRates(c, body) PROVE RatesInv'
  <2>1. body \in [DOMAIN body -> Nat] /\ DOMAIN body \in SUBSET Work
    BY RatesAssumption
  <2> QED
    BY <1>2, <2>1, ChangeBegins DEF SetRates
<1>3. ASSUME NEW c \in Clerks, ClearRates(c) PROVE RatesInv'
  <2>1. NoOverrides \in [{} -> Nat] /\ {} \in SUBSET Work
    BY DEF NoOverrides
  <2> QED
    BY <1>3, <2>1, ChangeBegins DEF ClearRates
<1> QED
  BY <1>1, <1>2, <1>3, RatesAreWritten, RatesAreLogged, RateIsRead, RateIsCharged DEF RatesNext

(* The log explains the bill: every amount charged, the card in force and  *)
(* the one a change replaced are cards the history of changes names, for   *)
(* any rates and however changes and charges overlap                       *)
(* (credit-rates.service.ts:89).                                           *)
THEOREM ChargesHaveACard == RatesSpec => []ChargesAreExplained
<1>1. RatesInv => ChargesAreExplained
  BY DEF RatesInv
<1> QED
  BY <1>1, RatesStart, RatesGoOn, PTL DEF RatesSpec

(* Budgets agree with rows and charges with cards, whichever component of  *)
(* the composition moves.                                                  *)
THEOREM RecordsAgree == MCSpec => []RecordsExplainAccounts
<1>1. MCInit => BudgetInit /\ RatesInit
  BY DEF MCInit
<1>2. [MCNext]_<<txnVars, budgetVars, planVars, rateVars, focus>> => [BudgetNext]_budgetVars /\ [RatesNext]_rateVars
  BY DEF MCNext
<1>3. MCSpec => BudgetSpec /\ RatesSpec
  BY <1>1, <1>2, PTL DEF MCSpec, BudgetSpec, RatesSpec
<1> QED
  BY <1>3, BudgetsMatch, ChargesHaveACard, PTL DEF RecordsExplainAccounts

-----------------------------------------------------------------------------
(* The plan.  A request that is alone knows what it has read: the plan,    *)
(* that there is room, or which subscription bills it.                     *)

Asked == [kind : Kinds, pc : {"read", "count", "insert", "limits", "apply", "customer", "subscribe"}, plan : Tiers]
Stored == [kind : Kinds \cap {"change", "subscribe"}, pc : {"store"}, plan : Tiers, sub : Nat \ {0}]
Bought == [kind : Kinds \cap {"subscribe"}, pc : {"save", "subscribe"}, plan : Tiers, customer : Nat]

PlanTyped ==
  /\ plan \in Tiers /\ accounts \in Nat /\ crashes \in Nat /\ customer \in Nat /\ customers \in Nat
  /\ subscription \in Nat /\ subs \in Seq(Tiers)
  /\ subscription # None => subscription \in 1..Len(subs)
  /\ request \in [Requests -> {NoRequest} \cup Asked \cup Stored \cup Bought]
  /\ \A c \in Requests : request[c].pc \in {"count", "insert"} => request[c].kind = "create"
  /\ \A c \in Requests : request[c].pc \in {"limits", "apply"} => request[c].kind = "change"
  /\ \A c \in Requests : request[c].pc = "store" => request[c].sub \in 1..Len(subs)

OneRequest ==
  "overlap" \notin seen => \A c, d \in Requests : request[c] # NoRequest /\ request[d] # NoRequest => c = d

Unforced == seen \cap {"overlap", "forced"} = {}

RoomWasThere ==
  Unforced => \A c \in Requests :
    /\ request[c].pc = "count" => request[c].plan = plan
    /\ request[c].pc = "insert" => accounts < MaxAccounts[plan]
    /\ request[c].pc = "apply" => accounts <= MaxAccounts[request[c].plan]
    /\ request[c].pc = "store" /\ request[c].kind = "change" => accounts <= MaxAccounts[request[c].plan]

Inserting == {c \in Requests : request[c].pc = "insert"}

(* While the plan is the first one, requests that are past the check are   *)
(* all that the limit can be exceeded by.                                  *)
OverrunIsCounted ==
  "changed" \notin seen =>
    /\ \A c \in Requests : request[c].pc = "count" => request[c].plan = plan
    /\ accounts + Cardinality(Inserting) < MaxAccounts[plan] + Cardinality(Requests)

BilledAsStored ==
  "overlap" \notin seen => \A c \in Requests : request[c].pc = "store" => subs[request[c].sub] = request[c].plan

PlanInv == PlanTyped /\ OneRequest /\ RoomWasThere /\ OverrunIsCounted /\ BilledAsStored /\ AccountsFitThePlan

Stages == {NoRequest} \cup Asked \cup Stored \cup Bought

LEMMA StageOf ==
  ASSUME PlanTyped, NEW c \in Requests
  PROVE  /\ request[c] = NoRequest <=> request[c].pc = "idle"
         /\ request[c].pc \in {"read", "count", "insert", "limits", "apply", "customer"} => request[c] \in Asked
         /\ request[c].pc = "subscribe" => request[c] \in Asked \cup Bought
         /\ request[c].pc = "save" => request[c] \in Bought
         /\ request[c].pc = "store" => request[c] \in Stored
BY DEF PlanTyped, NoRequest, Asked, Stored, Bought

LEMMA Stage ==
  ASSUME PlanTyped, NEW c \in Requests, NEW x \in Stages, request' = [request EXCEPT ![c] = x]
  PROVE  request' \in [Requests -> Stages] /\ request'[c] = x /\ \A d \in Requests \ {c} : request'[d] = request[d]
BY DEF PlanTyped, Stages

LEMMA Going ==
  ASSUME PlanTyped, NEW c \in Requests, request[c] \in Asked,
         NEW p \in {"insert", "limits", "apply", "customer", "subscribe"}, Goto(c, p)
  PROVE  \E x \in Stages : /\ request' = [request EXCEPT ![c] = x]
                           /\ x.pc = p /\ x.kind = request[c].kind /\ x.plan = request[c].plan
<1>1. PICK k \in Kinds, t \in Tiers :
        k = request[c].kind /\ t = request[c].plan /\ request[c] = [kind |-> k, pc |-> request[c].pc, plan |-> t]
  BY DEF Asked
<1>2. PICK x : x = [kind |-> k, pc |-> p, plan |-> t]
  OBVIOUS
<1>3. x \in Asked /\ x.pc = p /\ x.kind = k /\ x.plan = t
  BY <1>1, <1>2 DEF Asked
<1>4. [request[c] EXCEPT !.pc = p] = x
  BY <1>1, <1>2
<1>5. request' = [request EXCEPT ![c] = x]
  BY <1>4 DEF PlanTyped, Goto
<1> QED
  BY <1>1, <1>3, <1>5 DEF Stages

LEMMA InsertingIsFinite == /\ IsFiniteSet(Inserting) /\ Cardinality(Inserting) \in Nat
                           /\ IsFiniteSet(Requests) /\ Cardinality(Requests) \in Nat \ {0}
                           /\ Cardinality(Inserting) <= Cardinality(Requests)
<1>1. IsFiniteSet(Requests) /\ Requests # {}
  BY RequestsAssumption
<1>2. Inserting \subseteq Requests
  BY DEF Inserting
<1> QED
  BY <1>1, <1>2, FS_Subset, FS_CardinalityType, FS_EmptySet

LEMMA FewerInserting ==
  ASSUME Inserting' \subseteq Inserting
  PROVE  Cardinality(Inserting') \in Nat /\ Cardinality(Inserting') <= Cardinality(Inserting)
BY InsertingIsFinite, FS_Subset, FS_CardinalityType

LEMMA PlanStarts == PlanInit => PlanInv
<1> SUFFICES ASSUME PlanInit PROVE PlanInv
  OBVIOUS
<1>1. /\ \A c \in Requests : request[c] = NoRequest /\ request[c].pc = "idle"
      /\ MaxAccounts[plan] \in Nat /\ plan \in Tiers
  BY MaxAccountsAssumption, FirstTierAssumption DEF PlanInit, NoRequest
<1>2. PlanTyped
  BY <1>1 DEF PlanInit, PlanTyped, None
<1>3. Inserting = {}
  BY <1>1 DEF Inserting
<1>4. 0 + Cardinality(Inserting) < MaxAccounts[plan] + Cardinality(Requests)
  BY <1>1, <1>3, InsertingIsFinite, FS_EmptySet
<1>5. AccountsFitThePlan
  BY <1>1, InsertingIsFinite DEF PlanInit, AccountsFitThePlan
<1> QED
  BY <1>1, <1>2, <1>4, <1>5 DEF PlanInit, PlanInv, OneRequest, RoomWasThere, OverrunIsCounted, BilledAsStored

(* A request that goes on and writes neither plan, accounts nor            *)
(* subscription.                                                           *)
LEMMA Passing ==
  ASSUME PlanInv, NEW c \in Requests, NEW x \in Stages, request[c] # NoRequest, request' = [request EXCEPT ![c] = x],
         UNCHANGED <<plan, accounts, subscription, subs, seen>>,
         customer' \in Nat, customers' \in Nat, crashes' \in Nat, x.pc # "store",
         x.pc \in {"count", "insert"} => x.kind = "create",
         x.pc \in {"limits", "apply"} => x.kind = "change",
         x.pc = "count" => x.plan = plan,
         x.pc = "insert" /\ (Unforced \/ "changed" \notin seen) => accounts < MaxAccounts[plan],
         x.pc = "apply" /\ Unforced => accounts <= MaxAccounts[x.plan]
  PROVE  PlanInv'
<1>1. PlanTyped /\ (Unforced' <=> Unforced)
  BY DEF PlanInv, Unforced
<1>2. request' \in [Requests -> Stages] /\ request'[c] = x /\ \A d \in Requests \ {c} : request'[d] = request[d]
  BY <1>1, Stage
<1>3. PlanTyped'
  BY <1>1, <1>2 DEF PlanTyped, Stages
<1>4. OneRequest'
  BY <1>2 DEF PlanInv, OneRequest
<1>5. RoomWasThere'
  BY <1>1, <1>2 DEF PlanInv, RoomWasThere
<1>6. OverrunIsCounted'
  <2>1. \A d \in Requests : "changed" \notin seen => (request'[d].pc = "count" => request'[d].plan = plan)
    BY <1>2 DEF PlanInv, OverrunIsCounted
  <2>2. /\ accounts \in Nat /\ MaxAccounts[plan] \in Nat
    BY <1>1, MaxAccountsAssumption DEF PlanTyped
  <2>3. ASSUME "changed" \notin seen
        PROVE  accounts + Cardinality(Inserting)' < MaxAccounts[plan] + Cardinality(Requests)
    <3>1. CASE x.pc = "insert"
      <4>1. accounts < MaxAccounts[plan]
        BY <2>3, <3>1
      <4>2. Inserting' \subseteq Requests
        BY DEF Inserting
      <4>3. Cardinality(Inserting') \in Nat /\ Cardinality(Inserting') <= Cardinality(Requests)
        BY <4>2, InsertingIsFinite, FS_Subset, FS_CardinalityType
      <4> QED
        BY <2>2, <4>1, <4>3, InsertingIsFinite
    <3>2. CASE x.pc # "insert"
      <4>1. Inserting' \subseteq Inserting
        BY <1>2, <3>2 DEF Inserting
      <4>2. accounts + Cardinality(Inserting) < MaxAccounts[plan] + Cardinality(Requests)
        BY <2>3 DEF PlanInv, OverrunIsCounted
      <4> QED
        BY <2>2, <4>1, <4>2, FewerInserting, InsertingIsFinite
    <3> QED
      BY <3>1, <3>2
  <2> QED
    BY <2>1, <2>3 DEF OverrunIsCounted
<1>7. BilledAsStored'
  BY <1>2 DEF PlanInv, BilledAsStored
<1>8. AccountsFitThePlan'
  BY DEF PlanInv, AccountsFitThePlan
<1> QED
  BY <1>3, <1>4, <1>5, <1>6, <1>7, <1>8 DEF PlanInv

LEMMA Asking ==
  ASSUME PlanInv, NEW c \in Requests, NEW kind \in Kinds, NEW tier \in Tiers, Ask(c, kind, tier)
  PROVE  PlanInv'
<1>1. PICK x : x = [kind |-> kind, pc |-> "read", plan |-> tier]
  OBVIOUS
<1>2. x \in Asked /\ x \in Stages /\ x.pc = "read"
  BY <1>1 DEF Asked, Stages
<1>3. /\ PlanTyped /\ request[c] = NoRequest /\ request' = [request EXCEPT ![c] = x]
      /\ UNCHANGED <<plan, accounts, subscription, subs, customer, customers, crashes>>
      /\ seen' = seen \cup {s \in {"overlap"} : \E d \in Requests : request[d] # NoRequest}
  BY <1>1 DEF PlanInv, Ask, orgDoc, atStripe
<1>4. request' \in [Requests -> Stages] /\ request'[c] = x /\ \A d \in Requests \ {c} : request'[d] = request[d]
  BY <1>2, <1>3, Stage
<1>5. /\ Unforced' => Unforced
      /\ "overlap" \notin seen' => "overlap" \notin seen /\ \A d \in Requests : request[d] = NoRequest
      /\ "changed" \in seen' <=> "changed" \in seen
  BY <1>3 DEF Unforced
<1>6. PlanTyped'
  BY <1>2, <1>3, <1>4 DEF PlanTyped, Stages
<1>7. OneRequest'
  BY <1>4, <1>5 DEF OneRequest
<1>8. RoomWasThere' /\ BilledAsStored'
  BY <1>2, <1>3, <1>4, <1>5 DEF PlanInv, RoomWasThere, BilledAsStored
<1>9. OverrunIsCounted'
  <2>1. Inserting' = Inserting
    BY <1>2, <1>3, <1>4, StageOf DEF Inserting
  <2>2. Cardinality(Inserting)' = Cardinality(Inserting)
    BY <2>1
  <2> QED
    BY <1>2, <1>3, <1>4, <1>5, <2>2 DEF PlanInv, OverrunIsCounted
<1>10. AccountsFitThePlan'
  BY <1>3, <1>5 DEF PlanInv, AccountsFitThePlan, Unforced
<1> QED
  BY <1>6, <1>7, <1>8, <1>9, <1>10 DEF PlanInv

LEMMA Ending ==
  ASSUME PlanInv, NEW c \in Requests, request[c] # NoRequest, Done(c),
         UNCHANGED <<plan, accounts, subscription, subs, seen>>, customer' \in Nat, customers' \in Nat, crashes' \in Nat
  PROVE  PlanInv'
<1>1. PICK x \in Stages : x = NoRequest /\ x.pc = "idle"
  BY DEF Stages, NoRequest
<1>2. request' = [request EXCEPT ![c] = x]
  BY <1>1 DEF Done
<1> QED
  BY <1>1, <1>2, Passing

LEMMA Creating ==
  ASSUME PlanInv, NEW c \in Requests, ReadPlan(c) \/ CountAccounts(c)
  PROVE  PlanInv'
<1>1. /\ PlanTyped /\ UNCHANGED <<plan, accounts, subscription, subs, seen, customer, customers, crashes>>
      /\ customer \in Nat /\ customers \in Nat /\ crashes \in Nat /\ plan \in Tiers /\ accounts \in Nat
      /\ request[c].kind = "create" /\ request[c].pc \in {"read", "count"}
  BY DEF PlanInv, PlanTyped, ReadPlan, CountAccounts, At, orgDoc, atStripe
<1>2. request[c] # NoRequest /\ request[c] \in Asked
  BY <1>1, StageOf
<1>3. CASE ReadPlan(c)
  <2>1. PICK x : x = [kind |-> "create", pc |-> "count", plan |-> plan]
    OBVIOUS
  <2>2. x \in Stages /\ x.pc = "count" /\ x.kind = "create" /\ x.plan = plan
    <3>1. "create" \in Kinds
      BY <1>1, <1>2 DEF Asked
    <3> QED
      BY <1>1, <2>1, <3>1 DEF Stages, Asked
  <2>3. request' = [request EXCEPT ![c] = x]
    BY <1>3, <2>1 DEF ReadPlan
  <2> QED
    BY <1>1, <1>2, <2>2, <2>3, Passing
<1>4. CASE CountAccounts(c) /\ accounts >= MaxAccounts[request[c].plan]
  BY <1>1, <1>2, <1>4, Ending DEF CountAccounts
<1>5. CASE CountAccounts(c) /\ ~(accounts >= MaxAccounts[request[c].plan])
  <2>1. request[c].pc = "count" /\ Goto(c, "insert")
    BY <1>5 DEF CountAccounts, At
  <2>2. PICK x \in Stages : request' = [request EXCEPT ![c] = x] /\ x.pc = "insert" /\ x.kind = "create"
    BY <1>1, <1>2, <2>1, Going
  <2>3. Unforced \/ "changed" \notin seen => accounts < MaxAccounts[plan]
    <3>1. Unforced \/ "changed" \notin seen => request[c].plan = plan
      BY <2>1 DEF PlanInv, RoomWasThere, OverrunIsCounted
    <3>2. MaxAccounts[plan] \in Nat
      BY <1>1, MaxAccountsAssumption
    <3> QED
      BY <1>1, <1>5, <3>1, <3>2
  <2> QED
    BY <1>1, <1>2, <2>2, <2>3, Passing
<1> QED
  BY <1>3, <1>4, <1>5

LEMMA Changing ==
  ASSUME PlanInv, NEW c \in Requests, ReadOrg(c) \/ CheckLimits(c)
  PROVE  PlanInv'
<1>1. /\ PlanTyped /\ UNCHANGED <<plan, accounts, subscription, subs, seen, customer, customers, crashes>>
      /\ customer \in Nat /\ customers \in Nat /\ crashes \in Nat /\ plan \in Tiers /\ accounts \in Nat
      /\ request[c].kind = "change" /\ request[c].pc \in {"read", "limits"}
  BY DEF PlanInv, PlanTyped, ReadOrg, CheckLimits, At, orgDoc, atStripe
<1>2. request[c] # NoRequest /\ request[c] \in Asked
  BY <1>1, StageOf
<1>3. PICK t \in Tiers : t = request[c].plan
  BY <1>2 DEF Asked
<1>4. MaxAccounts[t] \in Nat /\ MaxAccounts[plan] \in Nat
  BY <1>1, MaxAccountsAssumption
<1>5. ASSUME NEW p \in {"limits", "apply"}, Goto(c, p),
             p = "apply" /\ Unforced => accounts <= MaxAccounts[t]
      PROVE  PlanInv'
  <2>1. PICK x \in Stages : request' = [request EXCEPT ![c] = x] /\ x.pc = p /\ x.kind = "change" /\ x.plan = t
    BY <1>1, <1>2, <1>3, <1>5, Going
  <2> QED
    BY <1>1, <1>2, <1>5, <2>1, Passing
<1>6. CASE ReadOrg(c)
  <2>1. Unforced => accounts <= MaxAccounts[plan]
    BY DEF PlanInv, AccountsFitThePlan, Unforced
  <2>2. CASE IsDowngrade(plan, t)
    <3>1. Goto(c, "limits")
      BY <1>3, <1>6, <2>2 DEF ReadOrg
    <3> QED
      BY <1>5, <3>1
  <2>3. CASE ~IsDowngrade(plan, t)
    <3>1. Goto(c, "apply")
      BY <1>3, <1>6, <2>3 DEF ReadOrg
    <3>2. Unforced => accounts <= MaxAccounts[t]
      BY <1>1, <1>4, <2>1, <2>3 DEF IsDowngrade
    <3> QED
      BY <1>5, <3>1, <3>2
  <2> QED
    BY <2>2, <2>3
<1>7. CASE CheckLimits(c) /\ accounts > MaxAccounts[t]
  BY <1>1, <1>2, <1>3, <1>7, Ending DEF CheckLimits
<1>8. CASE CheckLimits(c) /\ ~(accounts > MaxAccounts[t])
  <2>1. Goto(c, "apply")
    BY <1>3, <1>8 DEF CheckLimits
  <2>2. accounts <= MaxAccounts[t]
    BY <1>1, <1>4, <1>8
  <2> QED
    BY <1>5, <2>1, <2>2
<1> QED
  BY <1>6, <1>7, <1>8

LEMMA Subscribing ==
  ASSUME PlanInv, NEW c \in Requests, ReadCustomer(c) \/ CreateCustomer(c) \/ SaveCustomer(c)
  PROVE  PlanInv'
<1>1. /\ PlanTyped /\ UNCHANGED <<plan, accounts, subscription, subs, seen, crashes>>
      /\ customer \in Nat /\ customers \in Nat /\ crashes \in Nat
      /\ request[c].kind = "subscribe" /\ request[c].pc \in {"read", "customer", "save"}
  BY DEF PlanInv, PlanTyped, ReadCustomer, CreateCustomer, SaveCustomer, At, orgDoc, atStripe
<1>2. request[c] # NoRequest
  BY <1>1, StageOf
<1>3. CASE ReadCustomer(c)
  <2>1. request[c] \in Asked /\ UNCHANGED <<customer, customers>>
    BY <1>1, <1>3, StageOf DEF ReadCustomer, orgDoc, atStripe, At
  <2>2. PICK p \in {"subscribe", "customer"} : Goto(c, p)
    BY <1>3 DEF ReadCustomer
  <2>3. PICK x \in Stages : request' = [request EXCEPT ![c] = x] /\ x.pc = p
    BY <1>1, <2>1, <2>2, Going
  <2> QED
    BY <1>1, <1>2, <2>1, <2>2, <2>3, Passing
<1>4. CASE CreateCustomer(c)
  <2>1. request[c] \in Asked /\ customer' = customer /\ customers' = customers + 1
    BY <1>1, <1>4, StageOf DEF CreateCustomer, orgDoc, At
  <2>2. PICK t \in Tiers : t = request[c].plan
    BY <2>1 DEF Asked
  <2>3. PICK x : x = [kind |-> "subscribe", pc |-> "save", plan |-> t, customer |-> customers + 1]
    OBVIOUS
  <2>4. x \in Stages /\ x.pc = "save"
    <3>1. "subscribe" \in Kinds
      BY <1>1, <2>1 DEF Asked
    <3> QED
      BY <1>1, <2>3, <3>1 DEF Stages, Bought
  <2>5. request' = [request EXCEPT ![c] = x]
    BY <1>4, <2>2, <2>3 DEF CreateCustomer
  <2>6. customers' \in Nat /\ customer' \in Nat /\ crashes' \in Nat
    BY <1>1, <2>1
  <2> QED
    BY <1>1, <1>2, <2>4, <2>5, <2>6, Passing
<1>5. CASE SaveCustomer(c)
  <2>1. request[c] \in Bought /\ customers' = customers /\ customer' = request[c].customer
    BY <1>1, <1>5, StageOf DEF SaveCustomer, atStripe, At
  <2>2. PICK t \in Tiers, n \in Nat : /\ t = request[c].plan /\ n = request[c].customer
                                      /\ request[c] = [kind |-> "subscribe", pc |-> request[c].pc, plan |-> t, customer |-> n]
                                      /\ "subscribe" \in Kinds
    BY <1>1, <2>1 DEF Bought
  <2>3. PICK x : x = [kind |-> "subscribe", pc |-> "subscribe", plan |-> t, customer |-> n]
    OBVIOUS
  <2>4. x \in Stages /\ x.pc = "subscribe"
    BY <2>2, <2>3 DEF Stages, Bought
  <2>5. request' = [request EXCEPT ![c] = x]
    <3>1. [request[c] EXCEPT !.pc = "subscribe"] = x
      BY <2>2, <2>3
    <3>2. request' = [request EXCEPT ![c].pc = "subscribe"]
      BY <1>5 DEF SaveCustomer, Goto
    <3> QED
      BY <3>1, <3>2
  <2> QED
    BY <1>1, <1>2, <2>1, <2>2, <2>4, <2>5, Passing
<1> QED
  BY <1>3, <1>4, <1>5

LEMMA Alone ==
  ASSUME PlanInv, NEW c \in Requests, request[c] # NoRequest, Done(c)
  PROVE  /\ request' \in [Requests -> Stages] /\ request'[c] = NoRequest /\ request'[c].pc = "idle"
         /\ \A d \in Requests \ {c} : request'[d] = request[d]
         /\ "overlap" \notin seen => \A d \in Requests : request'[d] = NoRequest /\ request'[d].pc = "idle"
<1>1. PICK x \in Stages : x = NoRequest /\ x.pc = "idle"
  BY DEF Stages, NoRequest
<1>2. PlanTyped /\ request' = [request EXCEPT ![c] = x]
  BY <1>1 DEF Done, PlanInv
<1>3. request' \in [Requests -> Stages] /\ request'[c] = x /\ \A d \in Requests \ {c} : request'[d] = request[d]
  BY <1>2, Stage
<1> QED
  BY <1>1, <1>3 DEF PlanInv, OneRequest

LEMMA Inserted ==
  ASSUME PlanInv, NEW c \in Requests, InsertAccount(c)
  PROVE  PlanInv'
<1>1. /\ PlanTyped /\ UNCHANGED <<plan, subscription, subs, seen, customer, customers, crashes>>
      /\ accounts \in Nat /\ accounts' = accounts + 1 /\ Done(c) /\ request[c].pc = "insert"
      /\ MaxAccounts[plan] \in Nat
  BY MaxAccountsAssumption DEF PlanInv, PlanTyped, InsertAccount, At, orgDoc, atStripe
<1>2. request[c] # NoRequest
  BY <1>1, StageOf
<1>3. /\ request' \in [Requests -> Stages] /\ request'[c] = NoRequest /\ request'[c].pc = "idle"
      /\ \A d \in Requests \ {c} : request'[d] = request[d]
      /\ "overlap" \notin seen => \A d \in Requests : request'[d] = NoRequest /\ request'[d].pc = "idle"
  BY <1>1, <1>2, Alone
<1>4. PlanTyped'
  BY <1>1, <1>3 DEF PlanTyped, Stages
<1>5. OneRequest'
  BY <1>1, <1>3 DEF OneRequest
<1>6. RoomWasThere' /\ BilledAsStored'
  BY <1>1, <1>3 DEF RoomWasThere, BilledAsStored, Unforced
<1>7. Inserting' = Inserting \ {c} /\ c \in Inserting
  BY <1>1, <1>3 DEF Inserting
<1>8. Cardinality(Inserting)' = Cardinality(Inserting) - 1
  BY <1>7, InsertingIsFinite, FS_RemoveElement
<1>9. "changed" \notin seen => accounts' + Cardinality(Inserting)' < MaxAccounts[plan] + Cardinality(Requests)
  <2>1. "changed" \notin seen => accounts + Cardinality(Inserting) < MaxAccounts[plan] + Cardinality(Requests)
    BY DEF PlanInv, OverrunIsCounted
  <2> QED
    BY <1>1, <1>8, <2>1, InsertingIsFinite
<1>10. OverrunIsCounted'
  BY <1>1, <1>3, <1>9 DEF PlanInv, OverrunIsCounted
<1>11. AccountsFitThePlan'
  <2>1. Unforced => accounts < MaxAccounts[plan]
    BY <1>1 DEF PlanInv, RoomWasThere
  <2>2. Unforced => accounts' <= MaxAccounts[plan]
    BY <1>1, <2>1
  <2>3. Cardinality(Inserting)' \in Nat
    BY <1>7, FewerInserting
  <2>4. "changed" \notin seen => accounts' < MaxAccounts[plan] + Cardinality(Requests)
    BY <1>1, <1>9, <2>3, InsertingIsFinite
  <2> QED
    BY <1>1, <2>2, <2>4 DEF AccountsFitThePlan, Unforced
<1> QED
  BY <1>4, <1>5, <1>6, <1>10, <1>11 DEF PlanInv

LEMMA Dropped ==
  ASSUME PlanInv, DropAccount
  PROVE  PlanInv'
<1>1. /\ PlanTyped /\ UNCHANGED <<plan, subscription, subs, seen, customer, customers, crashes, request>>
      /\ accounts \in Nat /\ accounts' \in Nat /\ accounts' < accounts
      /\ MaxAccounts \in [Tiers -> Nat] /\ MaxAccounts[plan] \in Nat
  BY MaxAccountsAssumption DEF PlanInv, PlanTyped, DropAccount, orgDoc, atStripe
<1>2. Inserting' = Inserting /\ Cardinality(Inserting)' = Cardinality(Inserting)
  BY <1>1 DEF Inserting
<1>3. PlanTyped' /\ OneRequest' /\ BilledAsStored'
  BY <1>1 DEF PlanInv, PlanTyped, OneRequest, BilledAsStored
<1>4. RoomWasThere'
  <2> SUFFICES ASSUME Unforced, NEW c \in Requests
               PROVE  /\ request[c].pc = "count" => request[c].plan = plan
                      /\ request[c].pc = "insert" => accounts' < MaxAccounts[plan]
                      /\ request[c].pc = "apply" => accounts' <= MaxAccounts[request[c].plan]
                      /\ request[c].pc = "store" /\ request[c].kind = "change" => accounts' <= MaxAccounts[request[c].plan]
    BY <1>1 DEF RoomWasThere, Unforced
  <2>1. /\ request[c].pc = "count" => request[c].plan = plan
        /\ request[c].pc = "insert" => accounts < MaxAccounts[plan]
        /\ request[c].pc = "apply" => accounts <= MaxAccounts[request[c].plan]
        /\ request[c].pc = "store" /\ request[c].kind = "change" => accounts <= MaxAccounts[request[c].plan]
    BY DEF PlanInv, RoomWasThere
  <2>2. request[c].pc \in {"apply", "store"} => MaxAccounts[request[c].plan] \in Nat
    BY <1>1, StageOf DEF Asked, Stored
  <2> QED
    BY <1>1, <2>1, <2>2
<1>5. OverrunIsCounted'
  BY <1>1, <1>2, InsertingIsFinite DEF PlanInv, OverrunIsCounted
<1>6. AccountsFitThePlan'
  BY <1>1, InsertingIsFinite DEF PlanInv, AccountsFitThePlan
<1> QED
  BY <1>3, <1>4, <1>5, <1>6 DEF PlanInv

(* The plan of the organization is written.                                *)
LEMMA Planned ==
  ASSUME PlanInv, NEW c \in Requests, request[c] # NoRequest, Done(c), NEW t \in Tiers, plan' = t,
         UNCHANGED <<accounts, subs, customer, customers, crashes>>,
         subscription' \in Nat, subscription' # None => subscription' \in 1..Len(subs),
         "changed" \in seen', "overlap" \in seen => "overlap" \in seen', Unforced' => accounts <= MaxAccounts[t]
  PROVE  PlanInv'
<1>1. /\ request' \in [Requests -> Stages] /\ request'[c] = NoRequest /\ request'[c].pc = "idle"
      /\ \A d \in Requests \ {c} : request'[d] = request[d]
      /\ "overlap" \notin seen => \A d \in Requests : request'[d] = NoRequest /\ request'[d].pc = "idle"
  BY Alone
<1>2. PlanTyped'
  BY <1>1 DEF PlanInv, PlanTyped, Stages
<1>3. OneRequest' /\ RoomWasThere' /\ BilledAsStored'
  BY <1>1 DEF OneRequest, RoomWasThere, BilledAsStored, Unforced
<1>4. OverrunIsCounted' /\ AccountsFitThePlan'
  BY DEF OverrunIsCounted, AccountsFitThePlan, Unforced
<1> QED
  BY <1>2, <1>3, <1>4 DEF PlanInv

LEMMA Deciding ==
  ASSUME PlanInv, NEW c \in Requests, ApplyPlan(c) \/ Store(c)
  PROVE  PlanInv'
<1>1. /\ PlanTyped /\ Done(c) /\ UNCHANGED <<accounts, subs, customer, customers, crashes>>
      /\ request[c].pc \in {"apply", "store"}
      /\ plan' = request[c].plan /\ seen \cup {"changed"} \subseteq seen'
  BY DEF PlanInv, ApplyPlan, Store, At, orgDoc, atStripe
<1>2. request[c] # NoRequest /\ request[c].plan \in Tiers
  BY <1>1, StageOf DEF Asked, Stored
<1>3. PICK t \in Tiers : t = request[c].plan /\ plan' = t
  BY <1>1, <1>2
<1>4. Unforced' => Unforced
  BY <1>1 DEF Unforced
<1>5. CASE ApplyPlan(c)
  <2>1. subscription' = subscription /\ request[c].pc = "apply"
    BY <1>5 DEF ApplyPlan, At
  <2>2. subscription' \in Nat /\ (subscription' # None => subscription' \in 1..Len(subs))
    BY <1>1, <2>1 DEF PlanTyped
  <2>3. Unforced' => accounts <= MaxAccounts[t]
    BY <1>3, <1>4, <2>1 DEF PlanInv, RoomWasThere
  <2> QED
    BY <1>1, <1>2, <1>3, <2>2, <2>3, Planned
<1>6. CASE Store(c)
  <2>1. /\ subscription' = request[c].sub /\ request[c].pc = "store"
        /\ seen' = seen \cup {"changed"} \cup {s \in {"forced"} : request[c].kind = "subscribe"}
    BY <1>6 DEF Store
  <2>2. subscription' \in Nat /\ (subscription' # None => subscription' \in 1..Len(subs))
    BY <1>1, <2>1, StageOf DEF PlanTyped, Stored
  <2>3. Unforced' => request[c].kind = "change"
    BY <1>1, <2>1, StageOf DEF Stored, Unforced
  <2>4. Unforced' => accounts <= MaxAccounts[t]
    BY <1>3, <1>4, <2>1, <2>3 DEF PlanInv, RoomWasThere
  <2> QED
    BY <1>1, <1>2, <1>3, <2>2, <2>4, Planned
<1> QED
  BY <1>5, <1>6

(* A subscription of Stripe bills a plan, which is to be stored.           *)
LEMMA Telling ==
  ASSUME PlanInv, NEW c \in Requests, request[c] # NoRequest, NEW x \in Stored, request' = [request EXCEPT ![c] = x],
         UNCHANGED <<plan, subscription, customer, customers, accounts, crashes, seen>>,
         subs' \in Seq(Tiers), Len(subs) <= Len(subs'), x.sub \in 1..Len(subs'), subs'[x.sub] = x.plan,
         x.kind = "change" /\ Unforced => accounts <= MaxAccounts[x.plan]
  PROVE  PlanInv'
<1>1. PlanTyped /\ (Unforced' <=> Unforced) /\ x \in Stages /\ x.pc = "store"
  BY DEF PlanInv, Unforced, Stages, Stored
<1>2. request' \in [Requests -> Stages] /\ request'[c] = x /\ \A d \in Requests \ {c} : request'[d] = request[d]
  BY <1>1, Stage
<1>3. Len(subs) \in Nat /\ Len(subs') \in Nat
  BY <1>1 DEF PlanTyped
<1>4. PlanTyped'
  <2>1. \A d \in Requests : request'[d].pc = "store" => request'[d].sub \in 1..Len(subs')
    BY <1>1, <1>2, <1>3, StageOf DEF PlanTyped, Stored
  <2>2. subscription' # None => subscription' \in 1..Len(subs')
    BY <1>1, <1>3 DEF PlanTyped
  <2> QED
    BY <1>1, <1>2, <2>1, <2>2 DEF PlanTyped, Stages
<1>5. OneRequest'
  BY <1>2 DEF PlanInv, OneRequest
<1>6. RoomWasThere'
  BY <1>1, <1>2 DEF PlanInv, RoomWasThere
<1>7. OverrunIsCounted'
  <2>1. Inserting' \subseteq Inserting
    BY <1>1, <1>2 DEF Inserting
  <2>2. "changed" \notin seen =>
          accounts + Cardinality(Inserting)' < MaxAccounts[plan] + Cardinality(Requests)
    <3>1. "changed" \notin seen =>
          accounts + Cardinality(Inserting) < MaxAccounts[plan] + Cardinality(Requests)
      BY DEF PlanInv, OverrunIsCounted
    <3>2. accounts \in Nat /\ MaxAccounts[plan] \in Nat
      BY <1>1, MaxAccountsAssumption DEF PlanTyped
    <3> QED
      BY <2>1, <3>1, <3>2, FewerInserting, InsertingIsFinite
  <2>3. "changed" \notin seen => \A d \in Requests : request'[d].pc = "count" => request'[d].plan = plan
    BY <1>1, <1>2 DEF PlanInv, OverrunIsCounted
  <2> QED
    BY <2>2, <2>3 DEF OverrunIsCounted
<1>8. BilledAsStored'
  <2>1. "overlap" \notin seen => \A d \in Requests \ {c} : request[d] = NoRequest /\ request[d].pc = "idle"
    BY <1>1, StageOf DEF PlanInv, OneRequest
  <2> QED
    BY <1>2, <2>1 DEF BilledAsStored
<1>9. AccountsFitThePlan'
  BY DEF PlanInv, AccountsFitThePlan
<1> QED
  BY <1>4, <1>5, <1>6, <1>7, <1>8, <1>9 DEF PlanInv

LEMMA Billing ==
  ASSUME PlanInv, NEW c \in Requests, ChangeSubscription(c) \/ Subscribe(c)
  PROVE  PlanInv'
<1>1. /\ PlanTyped /\ UNCHANGED <<plan, subscription, customer, customers, accounts, crashes, seen>>
      /\ subscription \in Nat /\ subs \in Seq(Tiers) /\ Len(subs) \in Nat
      /\ \/ request[c].kind = "change" /\ request[c].pc = "apply"
         \/ request[c].kind = "subscribe" /\ request[c].pc = "subscribe"
  BY DEF PlanInv, PlanTyped, ChangeSubscription, Subscribe, At, orgDoc, atStripe
<1>2. request[c] # NoRequest /\ request[c].plan \in Tiers /\ request[c].kind \in Kinds
  BY <1>1, StageOf DEF Asked, Bought
<1>3. PICK t \in Tiers : t = request[c].plan
  BY <1>2
<1>4. request[c].kind = "change" /\ Unforced => accounts <= MaxAccounts[t]
  BY <1>1, <1>3 DEF PlanInv, RoomWasThere
<1>5. CASE ChangeSubscription(c) /\ subscription # None
  <2>1. /\ request[c].kind = "change" /\ subs' = [subs EXCEPT ![subscription] = t]
        /\ request' = [request EXCEPT ![c] = [kind |-> "change", pc |-> "store", plan |-> t, sub |-> subscription]]
    BY <1>3, <1>5 DEF ChangeSubscription, At
  <2>2. PICK x : x = [kind |-> "change", pc |-> "store", plan |-> t, sub |-> subscription]
    OBVIOUS
  <2>3. x \in Stored /\ x.kind = "change" /\ x.plan = t /\ x.sub = subscription
    BY <1>1, <1>2, <1>5, <2>1, <2>2 DEF Stored, None
  <2>4. subscription \in 1..Len(subs)
    BY <1>1, <1>5 DEF PlanTyped
  <2>5. subs' \in Seq(Tiers) /\ Len(subs') = Len(subs) /\ subs'[subscription] = t
    BY <1>1, <2>1, <2>4
  <2>6. Len(subs) <= Len(subs') /\ x.sub \in 1..Len(subs') /\ subs'[x.sub] = x.plan
    BY <1>1, <2>3, <2>4, <2>5
  <2>7. request' = [request EXCEPT ![c] = x]
    BY <2>1, <2>2
  <2>8. x.kind = "change" /\ Unforced => accounts <= MaxAccounts[x.plan]
    BY <1>4, <2>1, <2>3
  <2> QED
    BY <1>1, <1>2, <2>3, <2>5, <2>6, <2>7, <2>8, Telling
<1>6. CASE Subscribe(c) \/ (ChangeSubscription(c) /\ subscription = None)
  <2>1. PICK k \in {"change", "subscribe"} :
          /\ request[c].kind = k /\ subs' = Append(subs, t)
          /\ request' = [request EXCEPT ![c] = [kind |-> k, pc |-> "store", plan |-> t, sub |-> Len(subs) + 1]]
    BY <1>3, <1>6 DEF ChangeSubscription, Subscribe, At
  <2>2. PICK x : x = [kind |-> k, pc |-> "store", plan |-> t, sub |-> Len(subs) + 1]
    OBVIOUS
  <2>3. Len(subs) + 1 \in Nat \ {0}
    BY <1>1
  <2>4. x \in Stored /\ x.kind = k /\ x.plan = t /\ x.sub = Len(subs) + 1
    BY <1>1, <1>2, <2>1, <2>2, <2>3 DEF Stored
  <2>5. subs' \in Seq(Tiers) /\ Len(subs') = Len(subs) + 1 /\ subs'[Len(subs) + 1] = t
    BY <1>1, <2>1
  <2>6. Len(subs) <= Len(subs') /\ x.sub \in 1..Len(subs') /\ subs'[x.sub] = x.plan
    BY <1>1, <2>4, <2>5
  <2>7. request' = [request EXCEPT ![c] = x]
    BY <2>1, <2>2
  <2>8. x.kind = "change" /\ Unforced => accounts <= MaxAccounts[x.plan]
    BY <1>4, <2>1, <2>4
  <2> QED
    BY <1>1, <1>2, <2>4, <2>5, <2>6, <2>7, <2>8, Telling
<1> QED
  BY <1>5, <1>6

LEMMA Dying ==
  ASSUME PlanInv, NEW c \in Requests, CrashRequest(c)
  PROVE  PlanInv'
<1>1. /\ request[c] # NoRequest /\ Done(c) /\ UNCHANGED <<plan, accounts, subscription, subs, seen>>
      /\ customer' = customer /\ customers' = customers /\ crashes' = crashes + 1
      /\ customer \in Nat /\ customers \in Nat /\ crashes \in Nat
  BY DEF PlanInv, PlanTyped, CrashRequest, orgDoc, atStripe
<1>2. customer' \in Nat /\ customers' \in Nat /\ crashes' \in Nat
  BY <1>1
<1> QED
  BY <1>1, <1>2, Ending

LEMMA PlanGoesOn == PlanInv /\ [PlanNext]_planVars => PlanInv'
<1> SUFFICES ASSUME PlanInv, [PlanNext]_planVars PROVE PlanInv'
  OBVIOUS
<1>1. CASE UNCHANGED planVars
  <2>1. UNCHANGED <<customer, subscription, plan, accounts, customers, subs, request, crashes, seen>>
    BY <1>1 DEF planVars, orgDoc, atStripe
  <2>2. Inserting' = Inserting /\ Cardinality(Inserting)' = Cardinality(Inserting)
    BY <2>1 DEF Inserting
  <2> QED
    BY <2>1, <2>2 DEF PlanInv, PlanTyped, OneRequest, RoomWasThere, OverrunIsCounted, BilledAsStored,
                      AccountsFitThePlan, Unforced
<1>2. CASE DropAccount
  BY <1>2, Dropped
<1>3. ASSUME NEW c \in Requests,
             \/ \E kind \in Kinds, tier \in Tiers : Ask(c, kind, tier)
             \/ ReadPlan(c) \/ CountAccounts(c) \/ InsertAccount(c)
             \/ ReadOrg(c) \/ CheckLimits(c) \/ ApplyPlan(c) \/ ChangeSubscription(c)
             \/ ReadCustomer(c) \/ CreateCustomer(c) \/ SaveCustomer(c) \/ Subscribe(c)
             \/ Store(c) \/ CrashRequest(c)
      PROVE  PlanInv'
  BY <1>3, Asking, Creating, Inserted, Changing, Deciding, Billing, Subscribing, Dying
<1> QED
  BY <1>1, <1>2, <1>3 DEF PlanNext

(* The accounts of an organization fit its plan while requests come one at *)
(* a time, and exceed it by fewer than the requests that are in flight     *)
(* when they overlap (plan-limits.validator.ts:72).                        *)
THEOREM PlanIsKept == PlanSpec => []AccountsFitThePlan
<1>1. PlanInv => AccountsFitThePlan
  BY DEF PlanInv
<1> QED
  BY PlanStarts, PlanGoesOn, <1>1, PTL DEF PlanSpec

(* A change of plan that is answered leaves the plan shown and the plan    *)
(* billed in agreement when requests come one at a time, whatever died     *)
(* before (plan.service.ts).                                               *)
THEOREM ChangesAgree == PlanSpec => AnsweredChangeAgrees
<1>1. ASSUME PlanInv, PlanNext, NEW c \in Requests,
             "overlap" \notin seen, request[c].pc = "store", request'[c] = NoRequest, crashes' = crashes
      PROVE  ShownPlanIsBilled'
  <2>1. PlanTyped /\ request[c] # NoRequest /\ \A d \in Requests \ {c} : request[d] = NoRequest /\ request[d].pc = "idle"
    BY <1>1, StageOf DEF PlanInv, OneRequest
  <2>2. Store(c)
    <3>1. ~CrashRequest(c)
      <4>1. crashes \in Nat
        BY <2>1 DEF PlanTyped
      <4> QED
        BY <1>1, <4>1 DEF CrashRequest
    <3>2. request' # request
      BY <1>1, <2>1
    <3>3. ~DropAccount
      BY <3>2 DEF DropAccount
    <3>4. ASSUME NEW d \in Requests, NEW kind \in Kinds, NEW tier \in Tiers, Ask(d, kind, tier) PROVE FALSE
      <4>1. request[d] = NoRequest /\ d # c
        BY <2>1, <3>4 DEF Ask
      <4>2. request'[c] = request[c]
        BY <2>1, <3>4, <4>1 DEF Ask, PlanTyped
      <4> QED
        BY <1>1, <2>1, <4>2
    <3>5. ASSUME NEW d \in Requests,
                 \/ ReadPlan(d) \/ CountAccounts(d) \/ InsertAccount(d)
                 \/ ReadOrg(d) \/ CheckLimits(d) \/ ApplyPlan(d) \/ ChangeSubscription(d)
                 \/ ReadCustomer(d) \/ CreateCustomer(d) \/ SaveCustomer(d) \/ Subscribe(d)
          PROVE  FALSE
      BY <1>1, <2>1, <3>5 DEF At, ReadPlan, CountAccounts, InsertAccount, ReadOrg, CheckLimits, ApplyPlan,
           ChangeSubscription, ReadCustomer, CreateCustomer, SaveCustomer, Subscribe
    <3>6. \A d \in Requests \ {c} : ~Store(d) /\ ~CrashRequest(d)
      BY <2>1 DEF Store, CrashRequest
    <3> QED
      BY <1>1, <3>1, <3>3, <3>4, <3>5, <3>6 DEF PlanNext
  <2>3. subs' = subs /\ subscription' = request[c].sub /\ plan' = request[c].plan
    BY <2>2 DEF Store, atStripe
  <2>4. subs[request[c].sub] = request[c].plan
    BY <1>1 DEF PlanInv, BilledAsStored
  <2> QED
    BY <2>3, <2>4 DEF ShownPlanIsBilled
<1>2. PlanInv /\ [PlanNext]_planVars
      => [\A c \in Requests :
            (/\ "overlap" \notin seen
             /\ request[c].pc = "store" /\ request'[c] = NoRequest /\ crashes' = crashes)
              => ShownPlanIsBilled']_planVars
  BY <1>1
<1> QED
  BY PlanStarts, PlanGoesOn, <1>2, PTL DEF PlanSpec, AnsweredChangeAgrees

=============================================================================
