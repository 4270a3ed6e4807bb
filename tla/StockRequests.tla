---------------------------- MODULE StockRequests ----------------------------
(***************************************************************************)
(* The same calls with others between their reads and their commit.  A     *)
(* handler reads inside prisma.$transaction(async tx => ...), at InnoDB's  *)
(* default isolation: its reads take no lock and all see the state of its  *)
(* first one, and its updates write the values computed from them.  The    *)
(* rows it writes stay locked until it commits, so the commit is one step  *)
(* (updateStatus and cancel of an order read and write one row, without a  *)
(* transaction).                                                           *)
(***************************************************************************)
EXTENDS StockLedger

CONSTANT Reqs \* calls that may be in flight together

VARIABLE req  \* [Reqs -> what the call will commit, NoChange when there is none]

vars == <<stock, req>>

Read(r, c) ==
  /\ req[r] = NoChange
  /\ req' = [req EXCEPT ![r] = c]
  /\ UNCHANGED stock

ReadReserve(r, p) == CanReserve(p) /\ Read(r, ReserveChange(p))
ReadConsume(r, p, q) == CanConsume(p, q) /\ Read(r, ConsumeChange(p, q))
ReadReturn(r, p, q) == CanReturn(p, q) /\ Read(r, ReturnChange(p, q))
ReadCancelPart(r, p) == CanCancelPart(p) /\ Read(r, CancelPartChange(p))
ReadAdjustIn(r, w, q) == Fits(w, q) /\ Read(r, AdjustInChange(w, q))
ReadAdjustOut(r, w, q) == CanAdjustOut(w, q) /\ Read(r, AdjustOutChange(w, q))
ReadTransfer(r, from, to, q) ==
  CanTransfer(from, to, q) /\ Fits(to, q) /\ Read(r, TransferChange(from, to, q))
ReadUpdateStatus(r, o, to) == CanUpdateStatus(o, to) /\ Read(r, OrderChange(o, to))
ReadCancelOrder(r, o) == CanCancelOrder(o) /\ Read(r, OrderChange(o, "cancelled"))
ReadReceive(r, i, w, q) ==
  CanReceive(i, q) /\ Fits(w, q) /\ Read(r, ReceiveChange(i, w, q))

End(r) == req' = [req EXCEPT ![r] = NoChange]

\* The commit fails when the inventory row it inserts has been inserted since:
\* (part_id, warehouse_id) is unique.
Commit(r) ==
  /\ req[r] # NoChange
  /\ req[r].create \cap rows = {}
  /\ Apply(req[r])
  /\ End(r)

\* Mutant: without the transaction a failure leaves the inventory row written.
RollbackHalf(r) ==
  /\ req[r] # NoChange
  /\ End(r)
  /\ onHand' = Set(onHand, req[r].onHand)
  /\ reserved' = Set(reserved, req[r].reserved)
  /\ available' = Set(available, req[r].available)
  /\ UNCHANGED <<rows, moved, part, order, ordered, received>>

\* That failure, a deadlock of two transfers, a lost connection: rolled back.
Rollback(r) ==
  /\ req[r] # NoChange
  /\ End(r)
  /\ UNCHANGED stock

RInit == Init /\ req = [r \in Reqs |-> NoChange]

ReadJobPart(r, p) ==
  \/ ReadReserve(r, p)
  \/ \E q \in Amounts : ReadConsume(r, p, q) \/ ReadReturn(r, p, q)
  \/ ReadCancelPart(r, p)

ReadInventory(r, w, q) ==
  \/ ReadAdjustIn(r, w, q) \/ ReadAdjustOut(r, w, q)
  \/ \E to \in Warehouses : ReadTransfer(r, w, to, q)

ReadOrder(r, o) ==
  \/ \E to \in OrderStatuses : ReadUpdateStatus(r, o, to)
  \/ ReadCancelOrder(r, o)

\* The inserts that open a job part or an order depend on no other row.
Insert ==
  \/ \E p \in Parts, place \in Places, q \in Needs : AddMemo(p, place, q)
  \/ \E o \in Orders : \E quantity \in [ItemsOf(o) -> Lots] :
       PlaceOrder(o, quantity)

RNext ==
  \/ Insert /\ UNCHANGED req
  \/ \E r \in Reqs :
       \/ \E p \in Parts : ReadJobPart(r, p)
       \/ \E w \in Warehouses, q \in Lots : ReadInventory(r, w, q)
       \/ \E o \in Orders : ReadOrder(r, o)
       \/ \E i \in Items, w \in Warehouses, q \in Lots : ReadReceive(r, i, w, q)
       \/ Commit(r) \/ Rollback(r)

RSpec == RInit /\ [][RNext]_vars

\* With one call in flight at a time, each call takes effect at once: every step
\* that changes the stock is a call of the ledger (so Ledger!Spec, with the steps
\* that change nothing left aside before a call is looked for).
Ledger == INSTANCE StockLedger
ImplementsLedger == Ledger!Init /\ [][stock' # stock /\ Ledger!Next]_stock
==============================================================================
