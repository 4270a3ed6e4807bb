----------------------------- MODULE StockLedger -----------------------------
(***************************************************************************)
(* The stock of one catalogue part as the inventory, job-parts and         *)
(* purchase-orders services keep it, each call taken as one step: the      *)
(* service works on the rows it read and commits what it computed.  Rows   *)
(* of different parts never meet in a handler, so one part stands for all. *)
(*                                                                         *)
(* A call is a pair of operators, Can... (what it checks) and ...Change    *)
(* (the columns it writes); StockRequests puts other calls between them.   *)
(***************************************************************************)
EXTENDS Integers, FiniteSets

CONSTANTS
  Warehouses, \* warehouse ids
  Parts,      \* job_parts ids
  Orders,     \* purchase_orders ids
  Items,      \* purchase_order_items ids
  OrderOf,    \* [Items -> Orders]
  Needs,      \* quantities that job parts are asked for
  Amounts,    \* quantities that consume and return carry: any integer, or none
  Lots,       \* quantities that stock is ordered, received, adjusted and moved in
  StockBound  \* no call starts that would bring more than this into a warehouse

ASSUME StockAssumption ==
  /\ OrderOf \in [Items -> Orders]
  /\ Needs \subseteq Nat \ {0}
  /\ Needs \subseteq Amounts /\ Amounts \subseteq Int
  /\ Lots \subseteq Nat \ {0}
  /\ StockBound \in Nat
  /\ IsFiniteSet(Parts) /\ IsFiniteSet(Items) /\ IsFiniteSet(Warehouses)

VARIABLES
  rows,      \* warehouses with an inventory row for the part
  onHand,    \* [Warehouses -> inventory.quantity_on_hand]
  reserved,  \* [Warehouses -> inventory.reserved_quantity]
  available, \* [Warehouses -> inventory.available_quantity]
  moved,     \* [Warehouses \X Types -> total quantity of the stock_movements]
  part,      \* [Parts -> row of job_parts], status "none" before it exists
  order,     \* [Orders -> purchase_orders.status], "none" before it exists
  ordered,   \* [Items -> ordered_qty]
  received   \* [Items -> received_qty]

stock == <<rows, onHand, reserved, available, moved, part, order, ordered, received>>

-----------------------------------------------------------------------------
(* Rows *)

\* Consumptions and returns may write movements of a negative quantity, which
\* are totalled apart and without their sign.
Types ==
  {"purchase_in", "adjustment_in", "adjustment_out", "transfer_in",
   "transfer_out", "job_reserve", "job_consume", "job_return",
   "job_consume_negative", "job_return_negative"}

PartStatuses == {"none", "memo", "reserved", "used", "returned", "cancelled"}

\* Where a job part is drawn from: a warehouse; "unplaced", a catalogue part no
\* warehouse was chosen for; "adhoc", a part outside the catalogue (no part_id).
Places == Warehouses \cup {"unplaced", "adhoc"}

OrderStatuses ==
  {"none", "draft", "ordered", "partially_received", "received", "cancelled"}

ItemsOf(o) == {i \in Items : OrderOf[i] = o}

-----------------------------------------------------------------------------
(* Changes: for each column the rows a transaction writes and their new      *)
(* values; movements are inserted, so theirs are added.                      *)

At(x, value) == [y \in {x} |-> value]

Consumed(w, q) ==
  IF q >= 0 THEN At(<<w, "job_consume">>, q) ELSE At(<<w, "job_consume_negative">>, -q)

Returned(w, q) ==
  IF q >= 0 THEN At(<<w, "job_return">>, q) ELSE At(<<w, "job_return_negative">>, -q)

NoChange ==
  [create |-> {}, onHand |-> <<>>, reserved |-> <<>>, available |-> <<>>,
   moved |-> <<>>, part |-> <<>>, order |-> <<>>, received |-> <<>>]

Set(f, g) == [x \in DOMAIN f |-> IF x \in DOMAIN g THEN g[x] ELSE f[x]]

Add(f, g) == [x \in DOMAIN f |-> IF x \in DOMAIN g THEN f[x] + g[x] ELSE f[x]]

\* All that suppliers, adjustments and transfers ever brought into warehouse w.
CameIn(w) ==
  moved[<<w, "purchase_in">>] + moved[<<w, "adjustment_in">>] + moved[<<w, "transfer_in">>]

UsedUp(w) == moved[<<w, "job_consume">>] - moved[<<w, "job_consume_negative">>]

GivenBack(w) == moved[<<w, "job_return">>] - moved[<<w, "job_return_negative">>]

WentOut(w) == moved[<<w, "adjustment_out">>] + moved[<<w, "transfer_out">>] + UsedUp(w)

StillHeld(w) == moved[<<w, "job_reserve">>] - UsedUp(w) - GivenBack(w)

Fits(w, q) == CameIn(w) + q <= StockBound

Apply(c) ==
  /\ part' = [p \in Parts |-> IF p \in DOMAIN c.part
                              THEN [part[p] EXCEPT !.status = c.part[p]] ELSE part[p]]
  /\ order' = Set(order, c.order)
  /\ received' = Set(received, c.received)
  /\ onHand' = Set(onHand, c.onHand)
  /\ reserved' = Set(reserved, c.reserved)
  /\ available' = Set(available, c.available)
  /\ rows' = rows \cup c.create
  /\ moved' = Add(moved, c.moved)
  /\ UNCHANGED ordered

\* What a handler writes when it leaves warehouse w with these two columns.
Level(w, hand, held) ==
  [NoChange EXCEPT !.onHand = At(w, hand), !.reserved = At(w, held),
                   !.available = At(w, hand - held)]

\* Mutant: available_quantity is left as it was.
HoldReservedOnly(w, held) == [NoChange EXCEPT !.reserved = At(w, held)]

\* What a handler writes when it only moves one of them.
Hold(w, held) ==
  [NoChange EXCEPT !.reserved = At(w, held), !.available = At(w, onHand[w] - held)]

\* The row is found, or created with zeros, first.
Stow(w, hand) ==
  [NoChange EXCEPT !.create = {w} \ rows, !.onHand = At(w, hand),
                   !.available = At(w, hand - reserved[w])]

-----------------------------------------------------------------------------
(* JobPartsService *)

\* reserveForJob only writes down what the job will need.
AddMemo(p, place, qty) ==
  /\ part[p].status = "none"
  /\ part' = [part EXCEPT ![p] = [status |-> "memo", place |-> place, qty |-> qty]]
  /\ UNCHANGED <<rows, onHand, reserved, available, moved, order, ordered, received>>

\* Mutant: the stock on hand is checked, not the stock available.
CanReserveOnHand(p) ==
  /\ part[p].status = "memo"
  /\ part[p].place \in rows
  /\ onHand[part[p].place] >= part[p].qty

CanReserve(p) ==
  /\ part[p].status = "memo"
  /\ part[p].place \in rows
  /\ available[part[p].place] >= part[p].qty

ReserveChange(p) ==
  LET w == part[p].place
      q == part[p].qty
  IN  [Hold(w, reserved[w] + q) EXCEPT !.moved = At(<<w, "job_reserve">>, q),
                                       !.part = At(p, "reserved")]

\* q is the quantity in the body, or the whole of the part's when there is none;
\* nothing keeps it from being zero or negative.
CanConsume(p, q) ==
  /\ part[p].status = "reserved" \/ (part[p].status = "memo" /\ part[p].place = "adhoc")
  /\ q <= part[p].qty

ConsumeChange(p, q) ==
  LET w == part[p].place
  IN  IF w \in {"unplaced", "adhoc"} THEN [NoChange EXCEPT !.part = At(p, "used")]
      ELSE [Level(w, onHand[w] - q, reserved[w] - q)
              EXCEPT !.moved = Consumed(w, q), !.part = At(p, "used")]

CanReturn(p, q) ==
  /\ part[p].status = "reserved"
  /\ part[p].place \in Warehouses
  /\ q <= part[p].qty

\* Mutant: a part given back in part stays reserved.
ReturnChangeStays(p, q) ==
  LET w == part[p].place
  IN  [Hold(w, reserved[w] - q) EXCEPT
         !.moved = Returned(w, q),
         !.part = IF q < part[p].qty THEN <<>> ELSE At(p, "returned")]

ReturnChange(p, q) ==
  LET w == part[p].place
  IN  [Hold(w, reserved[w] - q) EXCEPT !.moved = Returned(w, q),
                                       !.part = At(p, "returned")]

CanCancelPart(p) == part[p].status \in {"memo", "reserved"}

CancelPartChange(p) ==
  LET w == part[p].place
      q == part[p].qty
  IN  IF part[p].status = "memo" \/ w \notin Warehouses
      THEN [NoChange EXCEPT !.part = At(p, "cancelled")]
      ELSE [Hold(w, reserved[w] - q) EXCEPT !.moved = At(<<w, "job_return">>, q),
                                            !.part = At(p, "cancelled")]

-----------------------------------------------------------------------------
(* InventoryService *)

AdjustInChange(w, q) ==
  [Stow(w, onHand[w] + q) EXCEPT !.moved = At(<<w, "adjustment_in">>, q)]

CanAdjustOut(w, q) == onHand[w] - q >= 0

AdjustOutChange(w, q) ==
  [Stow(w, onHand[w] - q) EXCEPT !.moved = At(<<w, "adjustment_out">>, q)]

CanTransfer(from, to, q) ==
  /\ from # to
  /\ from \in rows
  /\ available[from] >= q

\* Mutant: the destination's new quantity is computed from the source's.
TransferChangeCrossed(from, to, q) ==
  LET hand == [w \in {from, to} |-> IF w = from THEN onHand[w] - q ELSE onHand[from] + q]
  IN  [NoChange EXCEPT
         !.create = {to} \ rows, !.onHand = hand,
         !.available = [w \in {from, to} |-> hand[w] - reserved[w]],
         !.moved = [x \in {<<from, "transfer_out">>, <<to, "transfer_in">>} |-> q]]

TransferChange(from, to, q) ==
  LET hand == [w \in {from, to} |-> IF w = from THEN onHand[w] - q ELSE onHand[w] + q]
  IN  [NoChange EXCEPT
         !.create = {to} \ rows,
         !.onHand = hand,
         !.available = [w \in {from, to} |-> hand[w] - reserved[w]],
         !.moved = [x \in {<<from, "transfer_out">>, <<to, "transfer_in">>} |-> q]]

-----------------------------------------------------------------------------
(* PurchaseOrdersService *)

PlaceOrder(o, quantity) ==
  /\ order[o] = "none"
  /\ order' = [order EXCEPT ![o] = "draft"]
  /\ ordered' = Set(ordered, quantity)
  /\ UNCHANGED <<rows, onHand, reserved, available, moved, part, received>>

ValidTransitions ==
  [draft |-> {"ordered", "cancelled"},
   ordered |-> {"partially_received", "received", "cancelled"},
   partially_received |-> {"received", "cancelled"}]

CanUpdateStatus(o, to) ==
  /\ order[o] \in DOMAIN ValidTransitions
  /\ to \in ValidTransitions[order[o]]

CanCancelOrder(o) == order[o] \notin {"none", "received"}

OrderChange(o, to) == [NoChange EXCEPT !.order = At(o, to)]

CanReceive(i, q) ==
  /\ order[OrderOf[i]] \in {"ordered", "partially_received"}
  /\ received[i] + q <= ordered[i]

\* Mutants: the items are counted as they were before this receipt; a status
\* the column does not have.
StatusBefore(i, q) ==
  IF \A k \in ItemsOf(OrderOf[i]) : received[k] >= ordered[k]
  THEN "received" ELSE "partially_received"

StatusMisnamed(i, q) ==
  IF \A k \in ItemsOf(OrderOf[i]) :
       received[k] + (IF k = i THEN q ELSE 0) >= ordered[k]
  THEN "received" ELSE "partial"

\* newStatus: the item now has q more, the order's other items what was read.
\* q is never 0, so something has been received.
StatusAfter(i, q) ==
  IF \A k \in ItemsOf(OrderOf[i]) :
       received[k] + (IF k = i THEN q ELSE 0) >= ordered[k]
  THEN "received" ELSE "partially_received"

\* Mutant: the receipt is booked in as an adjustment.
ReceiveChangeAdjusts(i, w, q) ==
  LET o == OrderOf[i]
      to == StatusAfter(i, q)
  IN  [Stow(w, onHand[w] + q) EXCEPT
         !.moved = At(<<w, "adjustment_in">>, q),
         !.received = At(i, received[i] + q),
         !.order = IF to = order[o] THEN <<>> ELSE At(o, to)]

ReceiveChange(i, w, q) ==
  LET o == OrderOf[i]
      to == StatusAfter(i, q)
  IN  [Stow(w, onHand[w] + q) EXCEPT
         !.moved = At(<<w, "purchase_in">>, q),
         !.received = At(i, received[i] + q),
         !.order = IF to = order[o] THEN <<>> ELSE At(o, to)]

-----------------------------------------------------------------------------
(* One call at a time *)

Reserve(p) == CanReserve(p) /\ Apply(ReserveChange(p))
Consume(p, q) == CanConsume(p, q) /\ Apply(ConsumeChange(p, q))
Return(p, q) == CanReturn(p, q) /\ Apply(ReturnChange(p, q))
CancelPart(p) == CanCancelPart(p) /\ Apply(CancelPartChange(p))
AdjustIn(w, q) == Fits(w, q) /\ Apply(AdjustInChange(w, q))
AdjustOut(w, q) == CanAdjustOut(w, q) /\ Apply(AdjustOutChange(w, q))
Transfer(from, to, q) ==
  CanTransfer(from, to, q) /\ Fits(to, q) /\ Apply(TransferChange(from, to, q))
UpdateStatus(o, to) == CanUpdateStatus(o, to) /\ Apply(OrderChange(o, to))
CancelOrder(o) == CanCancelOrder(o) /\ Apply(OrderChange(o, "cancelled"))
Receive(i, w, q) ==
  CanReceive(i, q) /\ Fits(w, q) /\ Apply(ReceiveChange(i, w, q))

Init ==
  /\ rows = {}
  /\ onHand = [w \in Warehouses |-> 0]
  /\ reserved = [w \in Warehouses |-> 0]
  /\ available = [w \in Warehouses |-> 0]
  /\ moved = [x \in Warehouses \X Types |-> 0]
  /\ part = [p \in Parts |-> [status |-> "none", place |-> "unplaced", qty |-> 0]]
  /\ order = [o \in Orders |-> "none"]
  /\ ordered = [i \in Items |-> 0]
  /\ received = [i \in Items |-> 0]

JobPartCall ==
  \E p \in Parts :
    \/ \E place \in Places, q \in Needs : AddMemo(p, place, q)
    \/ Reserve(p)
    \/ \E q \in Amounts : Consume(p, q) \/ Return(p, q)
    \/ CancelPart(p)

InventoryCall ==
  \E w \in Warehouses, q \in Lots :
    \/ AdjustIn(w, q) \/ AdjustOut(w, q)
    \/ \E to \in Warehouses : Transfer(w, to, q)

OrderCall ==
  \/ \E o \in Orders :
       \/ \E quantity \in [ItemsOf(o) -> Lots] : PlaceOrder(o, quantity)
       \/ \E to \in OrderStatuses : UpdateStatus(o, to)
       \/ CancelOrder(o)
  \/ \E i \in Items, w \in Warehouses, q \in Lots : Receive(i, w, q)

Next == JobPartCall \/ InventoryCall \/ OrderCall

Spec == Init /\ [][Next]_stock

-----------------------------------------------------------------------------
(* Properties *)

\* Every column has its type; on hand, reserved and available may be negative.
TypeOK ==
  /\ rows \subseteq Warehouses
  /\ onHand \in [Warehouses -> Int]
  /\ reserved \in [Warehouses -> Int]
  /\ available \in [Warehouses -> Int]
  /\ moved \in [Warehouses \X Types -> Nat]
  /\ part \in [Parts -> [status : PartStatuses, place : Places, qty : Nat]]
  /\ order \in [Orders -> OrderStatuses]
  /\ ordered \in [Items -> Nat]
  /\ received \in [Items -> Nat]

\* The stored available_quantity is what is on hand less what is reserved,
\* whichever two of the three columns a handler wrote (test/stock-logic.ts
\* asserts it after a consumption).
AvailableIsDifference ==
  \A w \in Warehouses : available[w] = onHand[w] - reserved[w]

\* The movements explain the columns: a warehouse holds what came in less what
\* went out, and what was reserved less what was consumed or given back is
\* what it has reserved (every handler that writes inventory adds movements).
LedgerExplainsStock ==
  \A w \in Warehouses :
    onHand[w] = CameIn(w) - WentOut(w) /\ reserved[w] = StillHeld(w)

\* The units a function counts, one by one: as many as its values add up to.
Units(f) == UNION {{x} \X (1 .. f[x]) : x \in DOMAIN f}

ReservedAt(w) == {p \in Parts : part[p].status = "reserved" /\ part[p].place = w}

\* What the reserved job parts of a warehouse ask for is held there: neither
\* partial consumption nor partial return gives away another job's parts.
ReservationsBacked ==
  \A w \in Warehouses :
    reserved[w] >= Cardinality(Units([p \in ReservedAt(w) |-> part[p].qty]))

\* What a warehouse has promised beyond what it holds was taken from under the
\* reservations by hand (adjustStock checks what is on hand) or given back as a
\* negative quantity (returnForJob checks only that it is not too much); reserve
\* and transfer, which check what is available, add nothing to it.
OversoldIsAccountedFor ==
  \A w \in Warehouses :
    available[w] >= -(moved[<<w, "adjustment_out">>] + moved[<<w, "job_return_negative">>])

\* Nothing is received beyond what was ordered, and an order whose items have
\* all come in says so, whatever was done to its status by hand in between
\* (receiveItem, updateStatus, cancel).
OrdersFillUp ==
  /\ \A i \in Items : received[i] <= ordered[i]
  /\ \A o \in Orders :
       /\ order[o] # "none" /\ ItemsOf(o) # {}
       /\ \A i \in ItemsOf(o) : received[i] = ordered[i]
       => order[o] = "received"

\* What suppliers delivered is what the warehouses booked in as purchases.
ReceiptsReachStock ==
  Cardinality(Units(received))
    = Cardinality(Units([w \in Warehouses |-> moved[<<w, "purchase_in">>]]))
==============================================================================
