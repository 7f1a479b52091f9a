----------------------------- MODULE CreditTxn -----------------------------
(***************************************************************************)
(* The transactions behind the operations of CreditLedger.  Every one is   *)
(* a session.withTransaction callback: it reads documents from a snapshot, *)
(* checks them, writes them back one by one and commits.  MongoDB lets a   *)
(* write through only if nobody else has written the document since the    *)
(* snapshot and no other open transaction has written it; otherwise the    *)
(* transaction aborts and withTransaction runs the callback again.         *)
(*                                                                         *)
(* What is written is computed from the snapshot, so a missing conflict    *)
(* check would lose updates.  The committed documents are the variables of *)
(* CreditLedger: the module shows that these steps implement its Spec.     *)
(***************************************************************************)
EXTENDS CreditLedger

CONSTANTS
  Sessions, NoSession,
  AddTypes, TakeTypes   \* bound: the ledger types the requests use

ASSUME NoSessionAssumption == NoSession \notin Sessions
ASSUME DocsAssumption == Orgs \cap Accounts = {}
ASSUME TypesAssumption == AddTypes \subseteq CreditTypes /\ TakeTypes \subseteq DebitTypes

VARIABLES
  session,  \* the callback each client session is running
  lock      \* the open transaction that has written a document

txnVars == <<vars, session, lock>>

Docs == Orgs \cup Accounts

PoolOps == [kind : {"add"}, org : Orgs, type : AddTypes, n : Amounts]
           \cup [kind : {"debit"}, org : Orgs, type : TakeTypes, n : Amounts]
           \cup [kind : {"reserve", "release", "commit"}, org : Orgs, n : Amounts]
AccountOps == {op \in [kind : {"allocate", "consume"}, org : Orgs, acc : Accounts,
                       n : Amounts] : OrgOf[op.acc] = op.org}
Ops == PoolOps \cup AccountOps

Idle == [pc |-> "idle"]

TxnInit == /\ Init
           /\ session = [s \in Sessions |-> Idle]
           /\ lock = [d \in Docs |-> NoSession]

-----------------------------------------------------------------------------
(* What a callback checks and what it writes.                              *)

(* The documents a callback writes.                                        *)
WriteSet(op) ==
  CASE op.kind = "allocate" -> {op.org, op.acc}
    [] op.kind = "consume" -> {op.acc}
    [] OTHER -> {op.org}

(* Every throw of the callback, on the documents as they are when it       *)
(* reads them.                                                             *)
Accepts(op) ==
  CASE op.kind = "add" -> Credited(op.org) + op.n <= MaxIssued
    [] op.kind \in {"debit", "reserve"} -> Available(op.org) >= op.n
    [] op.kind = "release" -> reserved[op.org] >= op.n
    [] op.kind = "commit" -> reserved[op.org] >= op.n /\ balance[op.org] >= op.n
    [] op.kind = "allocate" -> /\ ActiveAccountOf(op.org, op.acc)
                               /\ WithinLimit(op.acc, op.n)
                               /\ Available(op.org) >= op.n
    [] op.kind = "consume" -> /\ ActiveAccountOf(op.org, op.acc)
                              /\ Remaining(op.acc) >= op.n

PoolSnapshot(o) == [balance |-> balance[o], reserved |-> reserved[o],
                    purchased |-> lifetime_purchased[o], used |-> lifetime_used[o]]
BudgetSnapshot(a) == [allocated |-> allocated_credits[a], used |-> used_credits[a]]

Snapshot(op) ==
  [d \in WriteSet(op) |-> IF d \in Orgs THEN PoolSnapshot(d) ELSE BudgetSnapshot(d)]

(* Mutant: committing a hold frees it and leaves its credits in the pool.  *)
WrittenPool_KeepsHeld(op, p) ==
  [balance |-> CASE op.kind = "add" -> p.balance + op.n
                 [] op.kind \in {"debit", "allocate"} -> p.balance - op.n
                 [] OTHER -> p.balance,
   reserved |-> CASE op.kind = "reserve" -> p.reserved + op.n
                  [] op.kind \in {"release", "commit"} -> p.reserved - op.n
                  [] OTHER -> p.reserved,
   purchased |-> IF op.kind = "add" /\ op.type \in {"purchase", "allocation"}
                 THEN p.purchased + op.n ELSE p.purchased,
   used |-> IF op.kind \in {"debit", "commit"} THEN p.used + op.n ELSE p.used]

(* Mutant: the account gets credits the pool does not give.                *)
WrittenPool_PoolKept(op, p) ==
  [balance |-> CASE op.kind = "add" -> p.balance + op.n
                 [] op.kind \in {"debit", "commit"} -> p.balance - op.n
                 [] OTHER -> p.balance,
   reserved |-> CASE op.kind = "reserve" -> p.reserved + op.n
                  [] op.kind \in {"release", "commit"} -> p.reserved - op.n
                  [] OTHER -> p.reserved,
   purchased |-> IF op.kind = "add" /\ op.type \in {"purchase", "allocation"}
                 THEN p.purchased + op.n ELSE p.purchased,
   used |-> IF op.kind \in {"debit", "commit"} THEN p.used + op.n ELSE p.used]

(* The document that is written back.                                      *)
WrittenPool(op, p) ==
  [balance |-> CASE op.kind = "add" -> p.balance + op.n
                 [] op.kind \in {"debit", "commit", "allocate"} -> p.balance - op.n
                 [] OTHER -> p.balance,
   reserved |-> CASE op.kind = "reserve" -> p.reserved + op.n
                  [] op.kind \in {"release", "commit"} -> p.reserved - op.n
                  [] OTHER -> p.reserved,
   purchased |-> IF op.kind = "add" /\ op.type \in {"purchase", "allocation"}
                 THEN p.purchased + op.n ELSE p.purchased,
   used |-> IF op.kind \in {"debit", "commit"} THEN p.used + op.n ELSE p.used]

WrittenBudget(op, b) ==
  [allocated |-> IF op.kind = "allocate" THEN b.allocated + op.n ELSE b.allocated,
   used |-> IF op.kind = "consume" THEN b.used + op.n ELSE b.used]

-----------------------------------------------------------------------------
(* The steps of a callback                                                 *)

(* A request reaches the service, which asks the validator about an        *)
(* allocation before it opens a transaction.                               *)
Validated(op) == ValidatorStubbed \/ AccountBelongsToOrg(op.org, op.acc)

Start(s, op) ==
  /\ session[s] = Idle
  /\ op.kind = "allocate" => Validated(op)
  /\ session' = [session EXCEPT ![s] = [pc |-> "begin", op |-> op]]
  /\ UNCHANGED <<vars, lock>>

(* The callback reads its documents and throws if they do not allow the    *)
(* operation, which aborts the transaction.                                *)
Load(s) ==
  /\ session[s].pc = "begin"
  /\ LET op == session[s].op IN
     session' = [session EXCEPT ![s] =
       IF Accepts(op)
       THEN [pc |-> "open", op |-> op, docs |-> Snapshot(op), todo |-> WriteSet(op),
             stale |-> {}]
       ELSE Idle]
  /\ UNCHANGED <<vars, lock>>

(* Mutant: the last writer wins.                                           *)
MayWrite_Always(s, d) == TRUE

(* The transaction may write d: nobody else has since its snapshot.        *)
MayWrite(s, d) == d \notin session[s].stale /\ lock[d] = NoSession

Unlocked(s) == [d \in Docs |-> IF lock[d] = s THEN NoSession ELSE lock[d]]

(* doc.save or findOneAndUpdate of one document inside the transaction; a  *)
(* write conflict aborts it and withTransaction starts over.               *)
Write(s, d) ==
  /\ session[s].pc = "open"
  /\ d \in session[s].todo
  /\ IF MayWrite(s, d)
     THEN /\ session' = [session EXCEPT ![s].todo = @ \ {d}]
          /\ lock' = [lock EXCEPT ![d] = s]
     ELSE /\ session' = [session EXCEPT ![s] = [pc |-> "begin", op |-> session[s].op]]
          /\ lock' = Unlocked(s)
  /\ UNCHANGED vars

(* The documents in ds have changed under every other open snapshot.       *)
Outdate(ds, others) ==
  [t \in Sessions |->
     IF t \in others /\ session[t].pc = "open"
     THEN [session[t] EXCEPT !.stale = @ \cup ds] ELSE session[t]]

(* The ledger row of the operation.                                        *)
InsertRow(op) ==
  /\ credited' = IF op.kind = "add"
                 THEN [credited EXCEPT ![op.org][op.type] = @ + op.n] ELSE credited
  /\ debited' = CASE op.kind = "debit" -> [debited EXCEPT ![op.org][op.type] = @ + op.n]
                  [] op.kind = "commit" -> [debited EXCEPT ![op.org]["consumption"] = @ + op.n]
                  [] OTHER -> debited
  /\ moved' = IF op.kind = "allocate" THEN [moved EXCEPT ![op.org] = @ + op.n] ELSE moved
  /\ granted' = IF op.kind = "allocate"
                THEN [granted EXCEPT ![op.acc] = @ + op.n] ELSE granted
  /\ charged' = IF op.kind = "consume"
                THEN [charged EXCEPT ![op.acc] = @ + op.n] ELSE charged

Commit(s) ==
  /\ session[s].pc = "open"
  /\ session[s].todo = {}
  /\ LET op == session[s].op
         docs == session[s].docs
         Pool(o) == WrittenPool(op, docs[o])
         Budget(a) == WrittenBudget(op, docs[a])
         ds == WriteSet(op)
     IN /\ balance' = [o \in Orgs |-> IF o \in ds THEN Pool(o).balance ELSE balance[o]]
        /\ reserved' = [o \in Orgs |-> IF o \in ds THEN Pool(o).reserved ELSE reserved[o]]
        /\ lifetime_purchased' =
             [o \in Orgs |-> IF o \in ds THEN Pool(o).purchased ELSE lifetime_purchased[o]]
        /\ lifetime_used' =
             [o \in Orgs |-> IF o \in ds THEN Pool(o).used ELSE lifetime_used[o]]
        /\ allocated_credits' =
             [a \in Accounts |-> IF a \in ds THEN Budget(a).allocated ELSE allocated_credits[a]]
        /\ used_credits' =
             [a \in Accounts |-> IF a \in ds THEN Budget(a).used ELSE used_credits[a]]
        /\ InsertRow(op)
        /\ session' = [Outdate(ds, Sessions \ {s}) EXCEPT ![s] = Idle]
        /\ lock' = Unlocked(s)
        /\ UNCHANGED <<credit_limit, lifecycle, byHand>>

(* The process dies or the connection drops before the commit.             *)
Abort(s) ==
  /\ session[s] # Idle
  /\ session' = [session EXCEPT ![s] = Idle]
  /\ lock' = Unlocked(s)
  /\ UNCHANGED vars

(* A write outside any transaction waits for the transaction that has      *)
(* written the document, and outdates every snapshot of it.                *)
PlainWrite(o, a) ==
  /\ lock[a] = NoSession
  /\ \/ \E l \in Limits : SetLimit(o, a, l)
     \/ \E v \in {"active", "inactive"} : SetStatus(o, a, v)
     \/ RemoveAccount(o, a)
     \/ \E e \in Editors, body \in BudgetBodies, v \in {"active", "inactive"} :
          PatchBudget(o, a, e, body, v)
  /\ session' = Outdate({a}, Sessions)
  /\ UNCHANGED lock

(* The PATCH reads the committed account, and may end without a write.     *)
PlainRead ==
  /\ \E e \in Editors :
       DropEdit(e) \/ \E o \in Orgs, a \in Accounts : ReadBudget(o, a, e)
  /\ UNCHANGED <<session, lock>>

TxnNext ==
  \/ \E s \in Sessions :
       \/ \E op \in Ops : Start(s, op)
       \/ Load(s)
       \/ \E d \in Docs : Write(s, d)
       \/ Commit(s)
       \/ Abort(s)
  \/ \E o \in Orgs, a \in Accounts : PlainWrite(o, a)
  \/ PlainRead

TxnSpec == TxnInit /\ [][TxnNext]_txnVars

-----------------------------------------------------------------------------
(* Properties                                                              *)

(* Whatever the interleaving of reads, writes, conflicts, retries and      *)
(* crashes, the committed documents and rows change only as the operations *)
(* of CreditLedger change them, one whole operation at a time.             *)
ImplementsLedger == Spec

=============================================================================
