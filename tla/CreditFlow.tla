----------------------------- MODULE CreditFlow -----------------------------
(***************************************************************************)
(* What the credit modules promise, without documents, counters or ledger  *)
(* rows: a credit that was issued to an organization is in exactly one     *)
(* place, and moves from place to place along a few paths only.  It is     *)
(* free in the pool, held by a reservation, spent from the pool, or given  *)
(* to one account of the organization, where it is unused and then used.   *)
(* Nothing returns from an account and nothing is ever unspent.  Beside    *)
(* that, an administrator may state what an account has: that moves no     *)
(* credit, and is on record.                                               *)
(***************************************************************************)
EXTENDS Integers

CONSTANTS Orgs, Accounts, OrgOf, Amounts

VARIABLES
  free, held, spent,   \* of each organization
  unused, used,        \* of each account
  stated               \* the last statement on record for each account

places == <<free, held, spent, unused, used, stated>>

FlowInit ==
  /\ free = [o \in Orgs |-> 0]
  /\ held = [o \in Orgs |-> 0]
  /\ spent = [o \in Orgs |-> 0]
  /\ unused = [a \in Accounts |-> stated[a].allocated - stated[a].used]
  /\ used = [a \in Accounts |-> stated[a].used]

Issue(o, n) ==
  /\ free' = [free EXCEPT ![o] = @ + n]
  /\ UNCHANGED <<held, spent, unused, used, stated>>

Hold(o, n) ==
  /\ free[o] >= n
  /\ free' = [free EXCEPT ![o] = @ - n]
  /\ held' = [held EXCEPT ![o] = @ + n]
  /\ UNCHANGED <<spent, unused, used, stated>>

Release(o, n) ==
  /\ held[o] >= n
  /\ free' = [free EXCEPT ![o] = @ + n]
  /\ held' = [held EXCEPT ![o] = @ - n]
  /\ UNCHANGED <<spent, unused, used, stated>>

SpendFree(o, n) ==
  /\ free[o] >= n
  /\ free' = [free EXCEPT ![o] = @ - n]
  /\ spent' = [spent EXCEPT ![o] = @ + n]
  /\ UNCHANGED <<held, unused, used, stated>>

SpendHeld(o, n) ==
  /\ held[o] >= n
  /\ held' = [held EXCEPT ![o] = @ - n]
  /\ spent' = [spent EXCEPT ![o] = @ + n]
  /\ UNCHANGED <<free, unused, used, stated>>

Give(a, n) ==
  /\ free[OrgOf[a]] >= n
  /\ free' = [free EXCEPT ![OrgOf[a]] = @ - n]
  /\ unused' = [unused EXCEPT ![a] = @ + n]
  /\ UNCHANGED <<held, spent, used, stated>>

Use(a, n) ==
  /\ unused[a] >= n
  /\ unused' = [unused EXCEPT ![a] = @ - n]
  /\ used' = [used EXCEPT ![a] = @ + n]
  /\ UNCHANGED <<free, held, spent, stated>>

(* The statement says what the account has from now on; the other accounts *)
(* and the pools keep what they have.                                      *)
Restate(a) ==
  /\ stated' = [stated EXCEPT ![a] = stated'[a]]
  /\ unused' = [unused EXCEPT ![a] = stated'[a].allocated - stated'[a].used]
  /\ used' = [used EXCEPT ![a] = stated'[a].used]
  /\ UNCHANGED <<free, held, spent>>

FlowNext ==
  \/ \E a \in Accounts : Restate(a)
  \/ \E n \in Amounts :
      \/ \E o \in Orgs : \/ Issue(o, n) \/ Hold(o, n) \/ Release(o, n)
                         \/ SpendFree(o, n) \/ SpendHeld(o, n)
      \/ \E a \in Accounts : Give(a, n) \/ Use(a, n)

FlowSpec == FlowInit /\ [][FlowNext]_places

=============================================================================
