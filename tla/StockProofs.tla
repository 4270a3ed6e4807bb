----------------------------- MODULE StockProofs -----------------------------
(***************************************************************************)
(* Proofs about StockLedger and StockRequests, for any warehouses, job     *)
(* parts, orders and quantities and any bound on the stock.                *)
(***************************************************************************)
EXTENDS StockRequests, FiniteSetTheorems, TLAPS

-----------------------------------------------------------------------------
(* What a change does to each row *)

\* A change whose every value has the type of the column it goes to.
Typed(c) ==
  /\ c.create \subseteq Warehouses
  /\ \A w \in DOMAIN c.onHand : c.onHand[w] \in Int
  /\ \A w \in DOMAIN c.reserved : c.reserved[w] \in Int
  /\ \A w \in DOMAIN c.available : c.available[w] \in Int
  /\ \A x \in DOMAIN c.moved : c.moved[x] \in Nat
  /\ \A p \in DOMAIN c.part : c.part[p] \in PartStatuses
  /\ \A o \in DOMAIN c.order : c.order[o] \in OrderStatuses
  /\ \A i \in DOMAIN c.received : c.received[i] \in Nat

\* A committed change of typed values leaves typed columns.
LEMMA ApplyType ==
  ASSUME TypeOK, NEW c, Typed(c), Apply(c)
  PROVE  TypeOK'
<1>1. rows' \subseteq Warehouses
  BY DEF TypeOK, Typed, Apply
<1>2. onHand' \in [Warehouses -> Int]
  BY DEF TypeOK, Typed, Apply, Set
<1>3. reserved' \in [Warehouses -> Int]
  BY DEF TypeOK, Typed, Apply, Set
<1>4. available' \in [Warehouses -> Int]
  BY DEF TypeOK, Typed, Apply, Set
<1>5. moved' \in [Warehouses \X Types -> Nat]
  BY DEF TypeOK, Typed, Apply, Add
<1>6. part' \in [Parts -> [status : PartStatuses, place : Places, qty : Nat]]
  BY DEF TypeOK, Typed, Apply
<1>7. order' \in [Orders -> OrderStatuses]
  BY DEF TypeOK, Typed, Apply, Set
<1>8. received' \in [Items -> Nat]
  BY DEF TypeOK, Typed, Apply, Set
<1>9. ordered' \in [Items -> Nat]
  BY DEF TypeOK, Apply
<1> QED BY <1>1, <1>2, <1>3, <1>4, <1>5, <1>6, <1>7, <1>8, <1>9 DEF TypeOK

\* The columns of a warehouse after a change: the values it carries, or the
\* old ones.
LEMMA NewLevels ==
  ASSUME TypeOK, NEW c, Apply(c), NEW w \in Warehouses
  PROVE  /\ onHand'[w] = IF w \in DOMAIN c.onHand THEN c.onHand[w] ELSE onHand[w]
         /\ reserved'[w] = IF w \in DOMAIN c.reserved THEN c.reserved[w] ELSE reserved[w]
         /\ available'[w] = IF w \in DOMAIN c.available THEN c.available[w]
                            ELSE available[w]
         /\ \A t \in Types :
              moved'[<<w, t>>] = IF <<w, t>> \in DOMAIN c.moved
                                 THEN moved[<<w, t>>] + c.moved[<<w, t>>]
                                 ELSE moved[<<w, t>>]
BY DEF TypeOK, Apply, Set, Add

\* Every handler's change is typed.
LEMMA ChangeTypes ==
  ASSUME TypeOK, StockAssumption
  PROVE  /\ \A p \in Parts : CanReserve(p) => Typed(ReserveChange(p))
         /\ \A p \in Parts, q \in Amounts : CanConsume(p, q) => Typed(ConsumeChange(p, q))
         /\ \A p \in Parts, q \in Amounts : CanReturn(p, q) => Typed(ReturnChange(p, q))
         /\ \A p \in Parts : CanCancelPart(p) => Typed(CancelPartChange(p))
         /\ \A w \in Warehouses, q \in Lots :
              Typed(AdjustInChange(w, q)) /\ Typed(AdjustOutChange(w, q))
         /\ \A w, v \in Warehouses, q \in Lots : Typed(TransferChange(w, v, q))
         /\ \A o \in Orders, to \in OrderStatuses : Typed(OrderChange(o, to))
         /\ \A i \in Items, w \in Warehouses, q \in Lots : Typed(ReceiveChange(i, w, q))
<1> USE DEF Typed, NoChange, At
<1>0. /\ rows \subseteq Warehouses
      /\ \A w \in Warehouses : onHand[w] \in Int /\ reserved[w] \in Int
      /\ \A p \in Parts : part[p].place \in Places /\ part[p].qty \in Nat
      /\ \A i \in Items : received[i] \in Nat /\ OrderOf[i] \in Orders
      /\ \A q \in Amounts : q \in Int
      /\ \A q \in Lots : q \in Nat
  BY DEF TypeOK, StockAssumption
<1>1. ASSUME NEW p \in Parts, CanReserve(p) PROVE Typed(ReserveChange(p))
  <2>1. part[p].place \in Warehouses
    BY <1>0, <1>1 DEF CanReserve
  <2> QED BY <1>0, <2>1 DEF ReserveChange, Hold, PartStatuses
<1>2. ASSUME NEW p \in Parts, NEW q \in Amounts, CanConsume(p, q)
      PROVE  Typed(ConsumeChange(p, q))
  <2>1. CASE part[p].place \in {"unplaced", "adhoc"}
    BY <2>1 DEF ConsumeChange, PartStatuses
  <2>2. CASE part[p].place \notin {"unplaced", "adhoc"}
    <3>1. part[p].place \in Warehouses
      BY <1>0, <2>2 DEF Places
    <3> QED BY <1>0, <2>2, <3>1 DEF ConsumeChange, Level, Consumed, PartStatuses
  <2> QED BY <2>1, <2>2
<1>3. ASSUME NEW p \in Parts, NEW q \in Amounts, CanReturn(p, q)
      PROVE  Typed(ReturnChange(p, q))
  BY <1>0, <1>3 DEF CanReturn, ReturnChange, Hold, Returned, PartStatuses
<1>4. ASSUME NEW p \in Parts PROVE Typed(CancelPartChange(p))
  BY <1>0 DEF CancelPartChange, Hold, PartStatuses
<1>5. ASSUME NEW w \in Warehouses, NEW q \in Lots
      PROVE  Typed(AdjustInChange(w, q)) /\ Typed(AdjustOutChange(w, q))
  BY <1>0 DEF AdjustInChange, AdjustOutChange, Stow
<1>6. ASSUME NEW w \in Warehouses, NEW v \in Warehouses, NEW q \in Lots
      PROVE  Typed(TransferChange(w, v, q))
  BY <1>0 DEF TransferChange
<1>7. ASSUME NEW o \in Orders, NEW to \in OrderStatuses PROVE Typed(OrderChange(o, to))
  BY DEF OrderChange
<1>8. ASSUME NEW i \in Items, NEW w \in Warehouses, NEW q \in Lots
      PROVE  Typed(ReceiveChange(i, w, q))
  BY <1>0 DEF ReceiveChange, Stow, StatusAfter, OrderStatuses
<1> QED BY <1>1, <1>2, <1>3, <1>4, <1>5, <1>6, <1>7, <1>8

-----------------------------------------------------------------------------
(* The calls of the ledger preserve their types *)

\* Each disjunct of the ledger's next-state relation is one call applied whole,
\* or an insert.
LEMMA CallsAreChanges ==
  ASSUME TypeOK, StockAssumption, Next
  PROVE  \/ \E p \in Parts, place \in Places, q \in Needs : AddMemo(p, place, q)
         \/ \E o \in Orders : \E quantity \in [ItemsOf(o) -> Lots] : PlaceOrder(o, quantity)
         \/ \E c : Typed(c) /\ Apply(c)
<1> USE ChangeTypes
<1>1. CASE JobPartCall
  <2>1. PICK p \in Parts :
          \/ \E place \in Places, q \in Needs : AddMemo(p, place, q)
          \/ Reserve(p)
          \/ \E q \in Amounts : Consume(p, q) \/ Return(p, q)
          \/ CancelPart(p)
    BY <1>1 DEF JobPartCall
  <2>2. CASE Reserve(p)
    BY <2>2 DEF Reserve
  <2>3. ASSUME NEW q \in Amounts, Consume(p, q) PROVE \E c : Typed(c) /\ Apply(c)
    BY <2>3 DEF Consume
  <2>4. ASSUME NEW q \in Amounts, Return(p, q) PROVE \E c : Typed(c) /\ Apply(c)
    BY <2>4 DEF Return
  <2>5. CASE CancelPart(p)
    BY <2>5 DEF CancelPart
  <2> QED BY <2>1, <2>2, <2>3, <2>4, <2>5
<1>2. CASE InventoryCall
  <2>1. PICK w \in Warehouses, q \in Lots :
          AdjustIn(w, q) \/ AdjustOut(w, q) \/ \E to \in Warehouses : Transfer(w, to, q)
    BY <1>2 DEF InventoryCall
  <2>2. CASE AdjustIn(w, q)
    BY <2>2 DEF AdjustIn
  <2>3. CASE AdjustOut(w, q)
    BY <2>3 DEF AdjustOut
  <2>4. ASSUME NEW to \in Warehouses, Transfer(w, to, q) PROVE \E c : Typed(c) /\ Apply(c)
    BY <2>4 DEF Transfer
  <2> QED BY <2>1, <2>2, <2>3, <2>4
<1>3. CASE OrderCall
  <2>1. ASSUME NEW o \in Orders, NEW to \in OrderStatuses, UpdateStatus(o, to)
        PROVE  \E c : Typed(c) /\ Apply(c)
    BY <2>1 DEF UpdateStatus
  <2>2. ASSUME NEW o \in Orders, CancelOrder(o) PROVE \E c : Typed(c) /\ Apply(c)
    BY <2>2 DEF CancelOrder, OrderStatuses
  <2>3. ASSUME NEW i \in Items, NEW w \in Warehouses, NEW q \in Lots, Receive(i, w, q)
        PROVE  \E c : Typed(c) /\ Apply(c)
    BY <2>3 DEF Receive
  <2> QED BY <1>3, <2>1, <2>2, <2>3 DEF OrderCall
<1> QED BY <1>1, <1>2, <1>3 DEF Next

\* A new job part or a new order leaves the columns typed.
LEMMA InsertType ==
  ASSUME TypeOK, StockAssumption
  PROVE  /\ \A p \in Parts, place \in Places, q \in Needs :
              AddMemo(p, place, q) => TypeOK'
         /\ \A o \in Orders : \A quantity \in [ItemsOf(o) -> Lots] :
              PlaceOrder(o, quantity) => TypeOK'
<1>1. ASSUME NEW p \in Parts, NEW place \in Places, NEW q \in Needs, AddMemo(p, place, q)
      PROVE  TypeOK'
  <2>1. [status |-> "memo", place |-> place, qty |-> q]
          \in [status : PartStatuses, place : Places, qty : Nat]
    BY DEF StockAssumption, PartStatuses
  <2>2. part' \in [Parts -> [status : PartStatuses, place : Places, qty : Nat]]
    BY <1>1, <2>1 DEF TypeOK, AddMemo
  <2> QED BY <1>1, <2>2 DEF TypeOK, AddMemo
<1>2. ASSUME NEW o \in Orders, NEW quantity \in [ItemsOf(o) -> Lots],
             PlaceOrder(o, quantity)
      PROVE  TypeOK'
  <2>1. ordered' \in [Items -> Nat]
    BY <1>2 DEF TypeOK, PlaceOrder, Set, StockAssumption, ItemsOf
  <2>2. order' \in [Orders -> OrderStatuses]
    BY <1>2 DEF TypeOK, PlaceOrder, OrderStatuses
  <2> QED BY <1>2, <2>1, <2>2 DEF TypeOK, PlaceOrder
<1> QED BY <1>1, <1>2

LEMMA InitType == StockAssumption /\ Init => TypeOK
BY DEF Init, TypeOK, StockAssumption, PartStatuses, Places, OrderStatuses

LEMMA NextType == StockAssumption /\ TypeOK /\ [Next]_stock => TypeOK'
<1> SUFFICES ASSUME StockAssumption, TypeOK, [Next]_stock PROVE TypeOK'
  OBVIOUS
<1>1. CASE Next
  BY <1>1, CallsAreChanges, InsertType, ApplyType
<1>2. CASE UNCHANGED stock
  BY <1>2 DEF stock, TypeOK
<1> QED BY <1>1, <1>2

\* The ledger's columns keep their types, however the calls follow each other.
THEOREM StockTyping == Spec => []TypeOK
<1>1. Init => TypeOK
  BY InitType, StockAssumption
<1>2. TypeOK /\ [Next]_stock => TypeOK'
  BY NextType, StockAssumption
<1> QED BY <1>1, <1>2, PTL DEF Spec

-----------------------------------------------------------------------------
(* The columns of inventory against each other and against the movements *)

\* One warehouse's part of the three invariants about its columns.
Sound(w) ==
  /\ available[w] = onHand[w] - reserved[w]
  /\ onHand[w] = CameIn(w) - WentOut(w) /\ reserved[w] = StillHeld(w)
  /\ available[w] + moved[<<w, "adjustment_out">>] + moved[<<w, "job_return_negative">>] >= 0

ColumnsSound == \A w \in Warehouses : Sound(w)

\* The movement types, one by one.
LEMMA TypesNamed ==
  /\ "purchase_in" \in Types /\ "adjustment_in" \in Types
  /\ "transfer_in" \in Types /\ "adjustment_out" \in Types
  /\ "transfer_out" \in Types /\ "job_consume" \in Types
  /\ "job_reserve" \in Types /\ "job_return" \in Types
  /\ "job_consume_negative" \in Types /\ "job_return_negative" \in Types
BY DEF Types

\* The numbers of one warehouse are integers, and movements only add up.
LEMMA Numbers ==
  ASSUME TypeOK, NEW w \in Warehouses
  PROVE  /\ onHand[w] \in Int /\ reserved[w] \in Int /\ available[w] \in Int
         /\ moved[<<w, "purchase_in">>] \in Nat /\ moved[<<w, "adjustment_in">>] \in Nat
         /\ moved[<<w, "transfer_in">>] \in Nat /\ moved[<<w, "adjustment_out">>] \in Nat
         /\ moved[<<w, "transfer_out">>] \in Nat /\ moved[<<w, "job_consume">>] \in Nat
         /\ moved[<<w, "job_reserve">>] \in Nat /\ moved[<<w, "job_return">>] \in Nat
         /\ moved[<<w, "job_consume_negative">>] \in Nat
         /\ moved[<<w, "job_return_negative">>] \in Nat
<1>1. /\ onHand[w] \in Int /\ reserved[w] \in Int /\ available[w] \in Int
      /\ \A t \in Types : moved[<<w, t>>] \in Nat
  BY DEF TypeOK
<1> QED BY <1>1, TypesNamed

\* A change that carries no column of a warehouse and no movement there.
LEMMA Untouched ==
  ASSUME TypeOK, NEW c, Apply(c), NEW w \in Warehouses, Sound(w),
         w \notin DOMAIN c.onHand, w \notin DOMAIN c.reserved,
         w \notin DOMAIN c.available,
         \A t \in Types : <<w, t>> \notin DOMAIN c.moved
  PROVE  Sound(w)'
<1>1. /\ onHand'[w] = onHand[w] /\ reserved'[w] = reserved[w]
      /\ available'[w] = available[w]
  BY NewLevels
<1>2. \A t \in Types : moved'[<<w, t>>] = moved[<<w, t>>]
  BY NewLevels
<1>3. /\ CameIn(w)' = CameIn(w) /\ WentOut(w)' = WentOut(w)
      /\ StillHeld(w)' = StillHeld(w)
      /\ moved'[<<w, "adjustment_out">>] = moved[<<w, "adjustment_out">>]
      /\ moved'[<<w, "job_return_negative">>] = moved[<<w, "job_return_negative">>]
  BY <1>2, TypesNamed DEF CameIn, WentOut, StillHeld, UsedUp, GivenBack
<1> QED BY <1>1, <1>3 DEF Sound

\* What one movement adds to the sums of its warehouse.
In(type, q) ==
  IF type \in {"purchase_in", "adjustment_in", "transfer_in"} THEN q ELSE 0
Out(type, q) ==
  IF type \in {"adjustment_out", "transfer_out", "job_consume"} THEN q
  ELSE IF type = "job_consume_negative" THEN -q ELSE 0
Held(type, q) ==
  IF type \in {"job_reserve", "job_consume_negative", "job_return_negative"} THEN q
  ELSE IF type \in {"job_consume", "job_return"} THEN -q ELSE 0

\* A change with one movement at a warehouse adds to the total of its type and
\* to no other.
LEMMA OneMovement ==
  ASSUME TypeOK, NEW c, Apply(c), NEW w \in Warehouses, NEW type \in Types, NEW q \in Nat,
         \A t \in Types : <<w, t>> \in DOMAIN c.moved <=> t = type,
         c.moved[<<w, type>>] = q
  PROVE  /\ CameIn(w)' = CameIn(w) + In(type, q)
         /\ WentOut(w)' = WentOut(w) + Out(type, q)
         /\ StillHeld(w)' = StillHeld(w) + Held(type, q)
         /\ moved'[<<w, "adjustment_out">>] =
              moved[<<w, "adjustment_out">>] + (IF type = "adjustment_out" THEN q ELSE 0)
         /\ moved'[<<w, "job_return_negative">>] =
              moved[<<w, "job_return_negative">>]
                + (IF type = "job_return_negative" THEN q ELSE 0)
<1> DEFINE add(t) == IF t = type THEN q ELSE 0
<1>1. \A t \in Types : moved'[<<w, t>>] = moved[<<w, t>>] + add(t)
  <2>1. ASSUME NEW t \in Types PROVE moved'[<<w, t>>] = moved[<<w, t>>] + add(t)
    <3>1. moved[<<w, t>>] \in Nat
      BY DEF TypeOK
    <3> QED BY <3>1, NewLevels
  <2> QED BY <2>1
<1>2. /\ add("purchase_in") \in Nat /\ add("adjustment_in") \in Nat
      /\ add("transfer_in") \in Nat /\ add("adjustment_out") \in Nat
      /\ add("transfer_out") \in Nat /\ add("job_consume") \in Nat
      /\ add("job_reserve") \in Nat /\ add("job_return") \in Nat
      /\ add("job_consume_negative") \in Nat /\ add("job_return_negative") \in Nat
  OBVIOUS
<1> HIDE DEF add
<1>3. /\ moved'[<<w, "purchase_in">>] = moved[<<w, "purchase_in">>] + add("purchase_in")
      /\ moved'[<<w, "adjustment_in">>] = moved[<<w, "adjustment_in">>] + add("adjustment_in")
      /\ moved'[<<w, "transfer_in">>] = moved[<<w, "transfer_in">>] + add("transfer_in")
      /\ moved'[<<w, "adjustment_out">>] = moved[<<w, "adjustment_out">>] + add("adjustment_out")
      /\ moved'[<<w, "transfer_out">>] = moved[<<w, "transfer_out">>] + add("transfer_out")
      /\ moved'[<<w, "job_consume">>] = moved[<<w, "job_consume">>] + add("job_consume")
      /\ moved'[<<w, "job_reserve">>] = moved[<<w, "job_reserve">>] + add("job_reserve")
      /\ moved'[<<w, "job_return">>] = moved[<<w, "job_return">>] + add("job_return")
      /\ moved'[<<w, "job_consume_negative">>] =
           moved[<<w, "job_consume_negative">>] + add("job_consume_negative")
      /\ moved'[<<w, "job_return_negative">>] =
           moved[<<w, "job_return_negative">>] + add("job_return_negative")
  BY <1>1, TypesNamed
<1>4. /\ moved[<<w, "purchase_in">>] \in Nat /\ moved[<<w, "adjustment_in">>] \in Nat
      /\ moved[<<w, "transfer_in">>] \in Nat /\ moved[<<w, "adjustment_out">>] \in Nat
      /\ moved[<<w, "transfer_out">>] \in Nat /\ moved[<<w, "job_consume">>] \in Nat
      /\ moved[<<w, "job_reserve">>] \in Nat /\ moved[<<w, "job_return">>] \in Nat
      /\ moved[<<w, "job_consume_negative">>] \in Nat
      /\ moved[<<w, "job_return_negative">>] \in Nat
  BY Numbers
<1>5. CameIn(w)' = CameIn(w)
        + (add("purchase_in") + add("adjustment_in") + add("transfer_in"))
  BY <1>2, <1>3, <1>4 DEF CameIn
<1>6. WentOut(w)' = WentOut(w)
        + (add("adjustment_out") + add("transfer_out") + add("job_consume")
             - add("job_consume_negative"))
  BY <1>2, <1>3, <1>4 DEF WentOut, UsedUp
<1>7. StillHeld(w)' = StillHeld(w)
        + (add("job_reserve") - add("job_consume") + add("job_consume_negative")
             - add("job_return") + add("job_return_negative"))
  BY <1>2, <1>3, <1>4 DEF StillHeld, UsedUp, GivenBack
<1>8. /\ add("purchase_in") + add("adjustment_in") + add("transfer_in") = In(type, q)
      /\ add("adjustment_out") + add("transfer_out") + add("job_consume")
           - add("job_consume_negative") = Out(type, q)
      /\ add("job_reserve") - add("job_consume") + add("job_consume_negative")
           - add("job_return") + add("job_return_negative") = Held(type, q)
  BY DEF add, In, Out, Held, Types
<1> QED BY <1>3, <1>5, <1>6, <1>7, <1>8 DEF add

\* A change to one warehouse by one movement that moves its columns by as much
\* leaves it sound, if what it takes from the available stock was there or is
\* taken by hand.
LEMMA OneWarehouse ==
  ASSUME TypeOK, NEW c, Apply(c), NEW w \in Warehouses, Sound(w),
         NEW type \in Types, NEW q \in Nat,
         \A t \in Types : <<w, t>> \in DOMAIN c.moved <=> t = type,
         c.moved[<<w, type>>] = q,
         onHand'[w] = onHand[w] + In(type, q) - Out(type, q),
         reserved'[w] = reserved[w] + Held(type, q),
         available'[w] = onHand'[w] - reserved'[w],
         type \in {"job_reserve", "transfer_out"} => available[w] >= q
  PROVE  Sound(w)'
<1>1. /\ onHand[w] \in Int /\ reserved[w] \in Int /\ available[w] \in Int
      /\ moved[<<w, "adjustment_out">>] \in Nat
      /\ moved[<<w, "job_return_negative">>] \in Nat
      /\ CameIn(w) \in Int /\ WentOut(w) \in Int /\ StillHeld(w) \in Int
  <2>1. /\ moved[<<w, "purchase_in">>] \in Nat /\ moved[<<w, "adjustment_in">>] \in Nat
        /\ moved[<<w, "transfer_in">>] \in Nat /\ moved[<<w, "adjustment_out">>] \in Nat
        /\ moved[<<w, "transfer_out">>] \in Nat /\ moved[<<w, "job_consume">>] \in Nat
        /\ moved[<<w, "job_reserve">>] \in Nat /\ moved[<<w, "job_return">>] \in Nat
        /\ moved[<<w, "job_consume_negative">>] \in Nat
        /\ moved[<<w, "job_return_negative">>] \in Nat
    BY Numbers
  <2>2. onHand[w] \in Int /\ reserved[w] \in Int /\ available[w] \in Int
    BY DEF TypeOK
  <2> QED BY <2>1, <2>2 DEF CameIn, WentOut, StillHeld, UsedUp, GivenBack
<1>2. /\ CameIn(w)' = CameIn(w) + In(type, q)
      /\ WentOut(w)' = WentOut(w) + Out(type, q)
      /\ StillHeld(w)' = StillHeld(w) + Held(type, q)
      /\ moved'[<<w, "adjustment_out">>] =
           moved[<<w, "adjustment_out">>] + (IF type = "adjustment_out" THEN q ELSE 0)
      /\ moved'[<<w, "job_return_negative">>] =
           moved[<<w, "job_return_negative">>]
             + (IF type = "job_return_negative" THEN q ELSE 0)
  BY OneMovement
<1>3. In(type, q) \in Int /\ Out(type, q) \in Int /\ Held(type, q) \in Int
  BY DEF In, Out, Held
<1>4. /\ onHand'[w] = (CameIn(w) - WentOut(w))'
      /\ reserved'[w] = StillHeld(w)'
  BY <1>1, <1>2, <1>3 DEF Sound
<1>5. available'[w] = available[w] + In(type, q) - Out(type, q) - Held(type, q)
  BY <1>1, <1>3 DEF Sound
<1>6. available'[w] + moved'[<<w, "adjustment_out">>]
        + moved'[<<w, "job_return_negative">>] >= 0
  BY <1>1, <1>2, <1>5 DEF Sound, In, Out, Held, Types
<1> QED BY <1>4, <1>6 DEF Sound

\* The same, for every warehouse: the others are not touched.
LEMMA ChangeSound ==
  ASSUME TypeOK, ColumnsSound, NEW c, Apply(c), NEW w \in Warehouses,
         NEW type \in Types, NEW q \in Nat,
         DOMAIN c.onHand \subseteq {w}, DOMAIN c.reserved \subseteq {w},
         DOMAIN c.available = {w}, c.moved = At(<<w, type>>, q),
         (IF w \in DOMAIN c.onHand THEN c.onHand[w] ELSE onHand[w])
           = onHand[w] + In(type, q) - Out(type, q),
         (IF w \in DOMAIN c.reserved THEN c.reserved[w] ELSE reserved[w])
           = reserved[w] + Held(type, q),
         c.available[w] = (IF w \in DOMAIN c.onHand THEN c.onHand[w] ELSE onHand[w])
                          - (IF w \in DOMAIN c.reserved THEN c.reserved[w] ELSE reserved[w]),
         type \in {"job_reserve", "transfer_out"} => available[w] >= q
  PROVE  ColumnsSound'
<1>1. ASSUME NEW v \in Warehouses, v # w PROVE Sound(v)'
  <2>1. \A t \in Types : <<v, t>> \notin DOMAIN c.moved
    BY <1>1 DEF At
  <2>2. v \notin DOMAIN c.onHand /\ v \notin DOMAIN c.reserved /\ v \notin DOMAIN c.available
    BY <1>1
  <2> QED BY <2>1, <2>2, Untouched DEF ColumnsSound
<1>2. Sound(w)'
  <2>1. /\ \A t \in Types : <<w, t>> \in DOMAIN c.moved <=> t = type
        /\ c.moved[<<w, type>>] = q
    BY DEF At
  <2>2. /\ onHand'[w] = onHand[w] + In(type, q) - Out(type, q)
        /\ reserved'[w] = reserved[w] + Held(type, q)
        /\ available'[w] = onHand'[w] - reserved'[w]
    BY NewLevels
  <2> QED BY <2>1, <2>2, OneWarehouse DEF ColumnsSound
<1> QED BY <1>1, <1>2 DEF ColumnsSound

\* A change without columns or movements of stock.
LEMMA NoStockSound ==
  ASSUME TypeOK, ColumnsSound, NEW c, Apply(c), c.onHand = <<>>, c.reserved = <<>>,
         c.available = <<>>, c.moved = <<>>
  PROVE  ColumnsSound'
BY Untouched DEF ColumnsSound

-----------------------------------------------------------------------------
(* Each call keeps the columns sound *)

LEMMA ReserveSound ==
  ASSUME TypeOK, ColumnsSound, NEW p \in Parts, Reserve(p)
  PROVE  ColumnsSound'
<1> DEFINE c == ReserveChange(p)
           w == part[p].place
           q == part[p].qty
<1>1. w \in Warehouses /\ q \in Nat /\ available[w] >= q /\ Apply(c)
  BY DEF Reserve, CanReserve, TypeOK
<1>2. /\ DOMAIN c.onHand = {} /\ DOMAIN c.reserved = {w} /\ DOMAIN c.available = {w}
      /\ c.moved = At(<<w, "job_reserve">>, q)
      /\ c.reserved[w] = reserved[w] + q
      /\ c.available[w] = onHand[w] - (reserved[w] + q)
  BY DEF ReserveChange, Hold, NoChange, At
<1>3. onHand[w] \in Int /\ reserved[w] \in Int
  BY <1>1 DEF TypeOK
<1> HIDE DEF c, w, q
<1>4. /\ In("job_reserve", q) = 0 /\ Out("job_reserve", q) = 0
      /\ Held("job_reserve", q) = q
  BY DEF In, Out, Held
<1> QED BY <1>1, <1>2, <1>3, <1>4, ChangeSound, TypesNamed

LEMMA ConsumeSound ==
  ASSUME TypeOK, ColumnsSound, StockAssumption, NEW p \in Parts, NEW q \in Amounts,
         Consume(p, q)
  PROVE  ColumnsSound'
<1> DEFINE c == ConsumeChange(p, q)
           w == part[p].place
           type == IF q >= 0 THEN "job_consume" ELSE "job_consume_negative"
           m == IF q >= 0 THEN q ELSE -q
<1>1. w \in Places /\ q \in Int /\ Apply(c)
  BY DEF Consume, TypeOK, StockAssumption
<1>2. CASE w \in {"unplaced", "adhoc"}
  <2>1. /\ c.onHand = <<>> /\ c.reserved = <<>> /\ c.available = <<>>
        /\ c.moved = <<>>
    BY <1>2 DEF ConsumeChange, NoChange
  <2> HIDE DEF c
  <2> QED BY <1>1, <2>1, NoStockSound
<1>3. CASE w \notin {"unplaced", "adhoc"}
  <2>1. w \in Warehouses
    BY <1>1, <1>3 DEF Places
  <2>2. /\ DOMAIN c.onHand = {w} /\ DOMAIN c.reserved = {w} /\ DOMAIN c.available = {w}
        /\ c.moved = Consumed(w, q)
        /\ c.onHand[w] = onHand[w] - q /\ c.reserved[w] = reserved[w] - q
        /\ c.available[w] = (onHand[w] - q) - (reserved[w] - q)
    BY <1>3 DEF ConsumeChange, Level, NoChange, At
  <2>3. onHand[w] \in Int /\ reserved[w] \in Int
    BY <2>1 DEF TypeOK
  <2>4. Consumed(w, q) = At(<<w, type>>, m)
    BY DEF Consumed
  <2>5. /\ m \in Nat /\ type \in Types /\ type \notin {"job_reserve", "transfer_out"}
        /\ In(type, m) = 0 /\ Out(type, m) = q /\ Held(type, m) = -q
    BY <1>1, TypesNamed DEF In, Out, Held
  <2> HIDE DEF c, w, type, m
  <2> QED BY <1>1, <2>1, <2>2, <2>3, <2>4, <2>5, ChangeSound
<1> QED BY <1>2, <1>3

\* Giving quantity q back to the available stock of warehouse w, as return and
\* cancel do.
LEMMA GiveBackSound ==
  ASSUME TypeOK, ColumnsSound, NEW w \in Warehouses, NEW q \in Int, NEW c, Apply(c),
         c.onHand = <<>>, c.reserved = At(w, reserved[w] - q),
         c.available = At(w, onHand[w] - (reserved[w] - q)),
         c.moved = Returned(w, q)
  PROVE  ColumnsSound'
<1> DEFINE type == IF q >= 0 THEN "job_return" ELSE "job_return_negative"
           m == IF q >= 0 THEN q ELSE -q
<1>1. /\ DOMAIN c.onHand = {} /\ DOMAIN c.reserved = {w} /\ DOMAIN c.available = {w}
      /\ c.reserved[w] = reserved[w] - q
      /\ c.available[w] = onHand[w] - (reserved[w] - q)
  BY DEF At
<1>2. onHand[w] \in Int /\ reserved[w] \in Int
  BY DEF TypeOK
<1>3. Returned(w, q) = At(<<w, type>>, m)
  BY DEF Returned
<1>4. /\ m \in Nat /\ type \in Types /\ type \notin {"job_reserve", "transfer_out"}
      /\ In(type, m) = 0 /\ Out(type, m) = 0 /\ Held(type, m) = -q
  BY TypesNamed DEF In, Out, Held
<1> HIDE DEF type, m
<1>5. /\ onHand[w] = onHand[w] + In(type, m) - Out(type, m)
      /\ reserved[w] - q = reserved[w] + Held(type, m)
  BY <1>2, <1>4
<1>6. c.moved = At(<<w, type>>, m)
  BY <1>3
<1> QED BY <1>1, <1>4, <1>5, <1>6, ChangeSound

LEMMA ReturnSound ==
  ASSUME TypeOK, ColumnsSound, StockAssumption, NEW p \in Parts, NEW q \in Amounts,
         Return(p, q)
  PROVE  ColumnsSound'
<1> DEFINE c == ReturnChange(p, q)
           w == part[p].place
<1>1. w \in Warehouses /\ q \in Int /\ Apply(c)
  BY DEF Return, CanReturn, StockAssumption
<1>2. /\ c.onHand = <<>> /\ c.reserved = At(w, reserved[w] - q)
      /\ c.available = At(w, onHand[w] - (reserved[w] - q))
      /\ c.moved = Returned(w, q)
  BY DEF ReturnChange, Hold, NoChange
<1> HIDE DEF c, w
<1> QED BY <1>1, <1>2, GiveBackSound

LEMMA CancelPartSound ==
  ASSUME TypeOK, ColumnsSound, NEW p \in Parts, CancelPart(p)
  PROVE  ColumnsSound'
<1> DEFINE c == CancelPartChange(p)
           w == part[p].place
           q == part[p].qty
<1>1. q \in Nat /\ Apply(c)
  BY DEF CancelPart, TypeOK
<1>2. CASE part[p].status = "memo" \/ w \notin Warehouses
  <2>1. /\ c.onHand = <<>> /\ c.reserved = <<>> /\ c.available = <<>>
        /\ c.moved = <<>>
    BY <1>2 DEF CancelPartChange, NoChange
  <2> HIDE DEF c
  <2> QED BY <1>1, <2>1, NoStockSound
<1>3. CASE ~(part[p].status = "memo" \/ w \notin Warehouses)
  <2>1. /\ c.onHand = <<>> /\ c.reserved = At(w, reserved[w] - q)
        /\ c.available = At(w, onHand[w] - (reserved[w] - q))
        /\ c.moved = Returned(w, q)
    BY <1>1, <1>3 DEF CancelPartChange, Hold, NoChange, Returned
  <2>2. w \in Warehouses
    BY <1>3
  <2> HIDE DEF c, w, q
  <2> QED BY <1>1, <2>1, <2>2, GiveBackSound
<1> QED BY <1>2, <1>3

\* Stock that comes into warehouse w, as a receipt and adjustment_in do.
LEMMA BringInSound ==
  ASSUME TypeOK, ColumnsSound, NEW w \in Warehouses, NEW q \in Nat, NEW c, Apply(c),
         NEW type \in {"purchase_in", "adjustment_in"},
         c.onHand = At(w, onHand[w] + q), c.reserved = <<>>,
         c.available = At(w, (onHand[w] + q) - reserved[w]),
         c.moved = At(<<w, type>>, q)
  PROVE  ColumnsSound'
<1>1. /\ DOMAIN c.onHand = {w} /\ DOMAIN c.reserved = {} /\ DOMAIN c.available = {w}
      /\ c.onHand[w] = onHand[w] + q
      /\ c.available[w] = (onHand[w] + q) - reserved[w]
  BY DEF At
<1>2. onHand[w] \in Int /\ reserved[w] \in Int
  BY DEF TypeOK
<1>3. In(type, q) = q /\ Out(type, q) = 0 /\ Held(type, q) = 0
  BY DEF In, Out, Held
<1>4. type \in Types /\ type \notin {"job_reserve", "transfer_out", "adjustment_out"}
  BY TypesNamed
<1> QED BY <1>1, <1>2, <1>3, <1>4, ChangeSound

LEMMA AdjustInSound ==
  ASSUME TypeOK, ColumnsSound, StockAssumption, NEW w \in Warehouses, NEW q \in Lots,
         AdjustIn(w, q)
  PROVE  ColumnsSound'
<1> DEFINE c == AdjustInChange(w, q)
<1>1. q \in Nat /\ Apply(c)
  BY DEF AdjustIn, StockAssumption
<1>2. /\ c.onHand = At(w, onHand[w] + q) /\ c.reserved = <<>>
      /\ c.available = At(w, (onHand[w] + q) - reserved[w])
      /\ c.moved = At(<<w, "adjustment_in">>, q)
  BY DEF AdjustInChange, Stow, NoChange
<1> HIDE DEF c
<1> QED BY <1>1, <1>2, BringInSound

LEMMA AdjustOutSound ==
  ASSUME TypeOK, ColumnsSound, StockAssumption, NEW w \in Warehouses, NEW q \in Lots,
         AdjustOut(w, q)
  PROVE  ColumnsSound'
<1> DEFINE c == AdjustOutChange(w, q)
<1>1. q \in Nat /\ Apply(c)
  BY DEF AdjustOut, StockAssumption
<1>2. /\ DOMAIN c.onHand = {w} /\ DOMAIN c.reserved = {} /\ DOMAIN c.available = {w}
      /\ c.onHand[w] = onHand[w] - q
      /\ c.available[w] = (onHand[w] - q) - reserved[w]
      /\ c.moved = At(<<w, "adjustment_out">>, q)
  BY DEF AdjustOutChange, Stow, NoChange, At
<1>3. onHand[w] \in Int /\ reserved[w] \in Int
  BY DEF TypeOK
<1> HIDE DEF c
<1>4. /\ In("adjustment_out", q) = 0 /\ Out("adjustment_out", q) = q
      /\ Held("adjustment_out", q) = 0
  BY DEF In, Out, Held
<1> QED BY <1>1, <1>2, <1>3, <1>4, ChangeSound, TypesNamed

LEMMA TransferSound ==
  ASSUME TypeOK, ColumnsSound, StockAssumption, NEW from \in Warehouses,
         NEW to \in Warehouses, NEW q \in Lots, Transfer(from, to, q)
  PROVE  ColumnsSound'
<1> DEFINE c == TransferChange(from, to, q)
<1>1. q \in Nat /\ Apply(c) /\ from # to /\ available[from] >= q
  BY DEF Transfer, CanTransfer, StockAssumption
<1>2. /\ DOMAIN c.onHand = {from, to} /\ DOMAIN c.reserved = {}
      /\ DOMAIN c.available = {from, to}
      /\ DOMAIN c.moved = {<<from, "transfer_out">>, <<to, "transfer_in">>}
      /\ c.onHand[from] = onHand[from] - q /\ c.onHand[to] = onHand[to] + q
      /\ c.available[from] = (onHand[from] - q) - reserved[from]
      /\ c.available[to] = (onHand[to] + q) - reserved[to]
      /\ c.moved[<<from, "transfer_out">>] = q /\ c.moved[<<to, "transfer_in">>] = q
  BY <1>1 DEF TransferChange, NoChange
<1> HIDE DEF c
<1>3. /\ onHand[from] \in Int /\ reserved[from] \in Int
      /\ onHand[to] \in Int /\ reserved[to] \in Int
  BY DEF TypeOK
<1>4. Sound(from)'
  <2>1. /\ onHand'[from] = onHand[from] - q /\ reserved'[from] = reserved[from]
        /\ available'[from] = (onHand[from] - q) - reserved[from]
    BY <1>1, <1>2, NewLevels
  <2>2. /\ \A t \in Types : <<from, t>> \in DOMAIN c.moved <=> t = "transfer_out"
        /\ c.moved[<<from, "transfer_out">>] = q
    BY <1>1, <1>2
  <2>3. /\ In("transfer_out", q) = 0 /\ Out("transfer_out", q) = q
        /\ Held("transfer_out", q) = 0
    BY DEF In, Out, Held
  <2>4. /\ onHand'[from] = onHand[from] + 0 - q /\ reserved'[from] = reserved[from] + 0
        /\ available'[from] = onHand'[from] - reserved'[from]
    BY <1>1, <1>3, <2>1
  <2> QED BY <1>1, <2>2, <2>3, <2>4, OneWarehouse, TypesNamed DEF ColumnsSound
<1>5. Sound(to)'
  <2>1. /\ onHand'[to] = onHand[to] + q /\ reserved'[to] = reserved[to]
        /\ available'[to] = (onHand[to] + q) - reserved[to]
    BY <1>1, <1>2, NewLevels
  <2>2. /\ \A t \in Types : <<to, t>> \in DOMAIN c.moved <=> t = "transfer_in"
        /\ c.moved[<<to, "transfer_in">>] = q
    BY <1>1, <1>2
  <2>3. /\ In("transfer_in", q) = q /\ Out("transfer_in", q) = 0
        /\ Held("transfer_in", q) = 0
    BY DEF In, Out, Held
  <2>4. /\ onHand'[to] = onHand[to] + q - 0 /\ reserved'[to] = reserved[to] + 0
        /\ available'[to] = onHand'[to] - reserved'[to]
    BY <1>1, <1>3, <2>1
  <2> QED BY <1>1, <2>2, <2>3, <2>4, OneWarehouse, TypesNamed DEF ColumnsSound
<1>6. ASSUME NEW v \in Warehouses \ {from, to} PROVE Sound(v)'
  BY <1>1, <1>2, Untouched DEF ColumnsSound
<1> QED BY <1>4, <1>5, <1>6 DEF ColumnsSound

LEMMA ReceiveSound ==
  ASSUME TypeOK, ColumnsSound, StockAssumption, NEW i \in Items, NEW w \in Warehouses,
         NEW q \in Lots, Receive(i, w, q)
  PROVE  ColumnsSound'
<1> DEFINE c == ReceiveChange(i, w, q)
<1>1. q \in Nat /\ Apply(c)
  BY DEF Receive, StockAssumption
<1>2. /\ c.onHand = At(w, onHand[w] + q) /\ c.reserved = <<>>
      /\ c.available = At(w, (onHand[w] + q) - reserved[w])
      /\ c.moved = At(<<w, "purchase_in">>, q)
  BY DEF ReceiveChange, Stow, NoChange
<1> HIDE DEF c
<1> QED BY <1>1, <1>2, BringInSound

\* A change of an order's status.
LEMMA OrderSound ==
  ASSUME TypeOK, ColumnsSound, NEW o \in Orders, NEW to, Apply(OrderChange(o, to))
  PROVE  ColumnsSound'
<1> DEFINE c == OrderChange(o, to)
<1>1. Apply(c) /\ c.onHand = <<>> /\ c.reserved = <<>> /\ c.available = <<>> /\ c.moved = <<>>
  BY DEF OrderChange, NoChange
<1> HIDE DEF c
<1> QED BY <1>1, NoStockSound

\* Every step of the ledger keeps the columns of every warehouse sound.
LEMMA NextSound ==
  StockAssumption /\ TypeOK /\ ColumnsSound /\ [Next]_stock => ColumnsSound'
<1> SUFFICES ASSUME StockAssumption, TypeOK, ColumnsSound, [Next]_stock
             PROVE  ColumnsSound'
  OBVIOUS
<1>0. ASSUME UNCHANGED <<onHand, reserved, available, moved>> PROVE ColumnsSound'
  BY <1>0 DEF ColumnsSound, Sound, CameIn, WentOut, StillHeld, UsedUp, GivenBack
<1>1. CASE JobPartCall
  <2>1. ASSUME NEW p \in Parts, NEW place \in Places, NEW q \in Needs, AddMemo(p, place, q)
        PROVE  ColumnsSound'
    BY <1>0, <2>1 DEF AddMemo
  <2> QED BY <1>1, <2>1, ReserveSound, ConsumeSound, ReturnSound, CancelPartSound
          DEF JobPartCall
<1>2. CASE InventoryCall
  BY <1>2, AdjustInSound, AdjustOutSound, TransferSound DEF InventoryCall
<1>3. CASE OrderCall
  <2>1. ASSUME NEW o \in Orders, NEW quantity \in [ItemsOf(o) -> Lots],
               PlaceOrder(o, quantity)
        PROVE  ColumnsSound'
    BY <1>0, <2>1 DEF PlaceOrder
  <2>2. ASSUME NEW o \in Orders, NEW to \in OrderStatuses, UpdateStatus(o, to)
        PROVE  ColumnsSound'
    BY <2>2, OrderSound DEF UpdateStatus
  <2>3. ASSUME NEW o \in Orders, CancelOrder(o) PROVE ColumnsSound'
    BY <2>3, OrderSound DEF CancelOrder
  <2> QED BY <1>3, <2>1, <2>2, <2>3, ReceiveSound DEF OrderCall
<1>4. CASE UNCHANGED stock
  BY <1>0, <1>4 DEF stock
<1> QED BY <1>1, <1>2, <1>3, <1>4 DEF Next

LEMMA InitSound == Init => ColumnsSound
BY DEF Init, ColumnsSound, Sound, CameIn, WentOut, StillHeld, UsedUp, GivenBack, Types

\* The columns of a warehouse are sound in every state of the ledger.
THEOREM LedgerSound == Spec => [](TypeOK /\ ColumnsSound)
<1>1. Init => TypeOK /\ ColumnsSound
  BY InitType, InitSound, StockAssumption
<1>2. TypeOK /\ ColumnsSound /\ [Next]_stock => (TypeOK /\ ColumnsSound)'
  BY NextType, NextSound, StockAssumption
<1> QED BY <1>1, <1>2, PTL DEF Spec

\* With one call at a time available_quantity is the difference it is meant to be.
THEOREM AvailableDerived == Spec => []AvailableIsDifference
<1>1. ColumnsSound => AvailableIsDifference
  BY DEF ColumnsSound, Sound, AvailableIsDifference
<1> QED BY <1>1, LedgerSound, PTL

\* With one call at a time the movements account for every unit on hand and for
\* every unit reserved.
THEOREM LedgerComplete == Spec => []LedgerExplainsStock
<1>1. ColumnsSound => LedgerExplainsStock
  BY DEF ColumnsSound, Sound, LedgerExplainsStock
<1> QED BY <1>1, LedgerSound, PTL

\* What is promised beyond what is held was taken by hand or given back as a
\* negative quantity, in any number of warehouses and for any quantities.
THEOREM OversoldExplained == Spec => []OversoldIsAccountedFor
<1>1. ASSUME TypeOK, ColumnsSound, NEW w \in Warehouses
      PROVE  available[w] >=
               -(moved[<<w, "adjustment_out">>] + moved[<<w, "job_return_negative">>])
  <2>1. /\ available[w] \in Int /\ moved[<<w, "adjustment_out">>] \in Nat
        /\ moved[<<w, "job_return_negative">>] \in Nat
    BY <1>1, Numbers
  <2>2. available[w] + moved[<<w, "adjustment_out">>]
          + moved[<<w, "job_return_negative">>] >= 0
    BY <1>1 DEF ColumnsSound, Sound
  <2> QED BY <2>1, <2>2
<1>2. TypeOK /\ ColumnsSound => OversoldIsAccountedFor
  BY <1>1 DEF OversoldIsAccountedFor
<1> QED BY <1>2, LedgerSound, PTL

-----------------------------------------------------------------------------
(* Sums: the units of a function of naturals are as many as its values add up *)
(* to, and one value that grows brings as many more.                          *)

LEMMA UnitsFinite ==
  ASSUME NEW D, IsFiniteSet(D), NEW f \in [D -> Nat]
  PROVE  IsFiniteSet(Units(f)) /\ Cardinality(Units(f)) \in Nat
<1> DEFINE g == [x \in D |-> {x} \X (1 .. f[x])]
<1>1. IsFiniteSet({g[x] : x \in D})
  <2> HIDE DEF g
  <2>1. g \in Surjection(D, {g[x] : x \in D})
    BY DEF Surjection, g
  <2> QED BY <2>1, FS_Surjection
<1>2. \A x \in D : IsFiniteSet(g[x])
  <2> TAKE x \in D
  <2>1. IsFiniteSet({x})
    BY FS_Singleton
  <2>2. 1 \in Int /\ f[x] \in Int
    OBVIOUS
  <2>3. IsFiniteSet(1 .. f[x])
    BY <2>2, FS_Interval
  <2> QED BY <2>1, <2>3, FS_Product
<1>3. Units(f) = UNION {g[x] : x \in D}
  BY DEF Units
<1>4. IsFiniteSet(Units(f))
  <2> HIDE DEF g
  <2>1. \A T \in {g[x] : x \in D} : IsFiniteSet(T)
    BY <1>2
  <2> QED BY <1>1, <1>3, <2>1, FS_UNION
<1> QED BY <1>4, FS_CardinalityType

\* The q units of one thing that come after the first a of them.
UnitsOf(x, a, q) == {x} \X (a + 1 .. a + q)

LEMMA UnitsOfOne ==
  ASSUME NEW x, NEW a \in Nat, NEW q \in Nat
  PROVE  IsFiniteSet(UnitsOf(x, a, q)) /\ Cardinality(UnitsOf(x, a, q)) = q
<1>1. IsFiniteSet({x}) /\ Cardinality({x}) = 1
  BY FS_Singleton
<1>2. IsFiniteSet(a + 1 .. a + q) /\ Cardinality(a + 1 .. a + q) = q
  BY FS_Interval
<1>3. /\ IsFiniteSet({x} \X (a + 1 .. a + q))
      /\ Cardinality({x} \X (a + 1 .. a + q)) = Cardinality({x}) * Cardinality(a + 1 .. a + q)
  BY <1>1, <1>2, FS_Product
<1> QED BY <1>1, <1>2, <1>3 DEF UnitsOf

LEMMA UnitsMore ==
  ASSUME NEW D, IsFiniteSet(D), NEW f \in [D -> Nat], NEW g \in [D -> Nat], NEW y \in D,
         NEW q \in Nat, g[y] = f[y] + q, \A x \in D \ {y} : g[x] = f[x]
  PROVE  Cardinality(Units(g)) = Cardinality(Units(f)) + q
<1> DEFINE more == UnitsOf(y, f[y], q)
<1>1. \A x \in D : f[x] \in Nat
  OBVIOUS
<1>2. g \in [D -> Nat] /\ g[y] = f[y] + q /\ \A x \in D \ {y} : g[x] = f[x]
  BY <1>1
<1>3. \A u : u \in Units(f) <=> \E x \in D : \E k \in 1 .. f[x] : u = <<x, k>>
  BY DEF Units
<1>4. \A u : u \in Units(g) <=> \E x \in D : \E k \in 1 .. g[x] : u = <<x, k>>
  BY <1>2 DEF Units
<1>5. Units(g) = Units(f) \cup more
  <2>1. 1 .. g[y] = (1 .. f[y]) \cup (f[y] + 1 .. f[y] + q)
    BY <1>1, <1>2
  <2>2. \A u : u \in more <=> \E k \in f[y] + 1 .. f[y] + q : u = <<y, k>>
    BY DEF UnitsOf
  <2> HIDE DEF more
  <2>3. ASSUME NEW u \in Units(g) PROVE u \in Units(f) \cup more
    <3>1. PICK x \in D : \E k \in 1 .. g[x] : u = <<x, k>>
      BY <1>4, <2>3
    <3>2. CASE x = y
      BY <1>3, <2>1, <2>2, <3>1, <3>2
    <3>3. CASE x # y
      BY <1>2, <1>3, <3>1, <3>3
    <3> QED BY <3>2, <3>3
  <2>4. ASSUME NEW u \in Units(f) PROVE u \in Units(g)
    <3>1. PICK x \in D : \E k \in 1 .. f[x] : u = <<x, k>>
      BY <1>3, <2>4
    <3>2. 1 .. f[x] \subseteq 1 .. g[x]
      BY <1>2, <2>1
    <3> QED BY <1>4, <3>1, <3>2
  <2>5. ASSUME NEW u \in more PROVE u \in Units(g)
    BY <1>4, <2>1, <2>2, <2>5
  <2> QED BY <2>3, <2>4, <2>5
<1>6. Units(f) \cap more = {}
  <2>1. (1 .. f[y]) \cap (f[y] + 1 .. f[y] + q) = {}
    BY <1>1
  <2> QED BY <1>3, <2>1 DEF UnitsOf
<1>7. IsFiniteSet(more) /\ Cardinality(more) = q
  BY <1>1, UnitsOfOne
<1>8. Cardinality(Units(f) \cap more) = 0
  BY <1>6, FS_EmptySet
<1> HIDE DEF more
<1>9. IsFiniteSet(Units(f)) /\ Cardinality(Units(f)) \in Nat
  BY UnitsFinite
<1>10. Cardinality(Units(g)) = Cardinality(Units(f)) + Cardinality(more)
                                 - Cardinality(Units(f) \cap more)
  BY <1>5, <1>7, <1>9, FS_Union
<1> QED BY <1>7, <1>8, <1>9, <1>10

\* One more thing to count, or one less, changes the units by its own.
LEMMA UnitsWithout ==
  ASSUME NEW D, IsFiniteSet(D), NEW f \in [D -> Nat], NEW y \in D,
         NEW g, g = [x \in D \ {y} |-> f[x]]
  PROVE  Cardinality(Units(f)) = Cardinality(Units(g)) + f[y]
<1> DEFINE less == UnitsOf(y, 0, f[y])
<1>1. f[y] \in Nat /\ g \in [D \ {y} -> Nat]
  OBVIOUS
<1>2. \A u : u \in Units(f) <=> \E x \in D : \E k \in 1 .. f[x] : u = <<x, k>>
  BY DEF Units
<1>3. \A u : u \in Units(g) <=> \E x \in D \ {y} : \E k \in 1 .. f[x] : u = <<x, k>>
  BY DEF Units
<1>4. \A u : u \in less <=> \E k \in 1 .. f[y] : u = <<y, k>>
  BY <1>1 DEF UnitsOf
<1> HIDE DEF less
<1>5. Units(f) = Units(g) \cup less
  BY <1>2, <1>3, <1>4
<1>6. Units(g) \cap less = {}
  BY <1>3, <1>4
<1>7. IsFiniteSet(less) /\ Cardinality(less) = f[y]
  <2>1. 0 \in Nat
    OBVIOUS
  <2> QED BY <1>1, <2>1, UnitsOfOne DEF less
<1>8. Cardinality(Units(g) \cap less) = 0
  BY <1>6, FS_EmptySet
<1>9. IsFiniteSet(Units(g)) /\ Cardinality(Units(g)) \in Nat
  <2>1. IsFiniteSet(D \ {y})
    BY FS_RemoveElement
  <2> QED BY <1>1, <2>1, UnitsFinite
<1>10. Cardinality(Units(f)) = Cardinality(Units(g)) + Cardinality(less)
                                 - Cardinality(Units(g) \cap less)
  BY <1>5, <1>7, <1>9, FS_Union
<1> QED BY <1>1, <1>7, <1>8, <1>9, <1>10

-----------------------------------------------------------------------------
(* What the calls leave alone: job parts and inventory the orders, inventory   *)
(* and orders the job parts and what is reserved.                              *)

NoOrders(c) ==
  /\ c.order = <<>> /\ c.received = <<>>
  /\ \A w \in Warehouses : <<w, "purchase_in">> \notin DOMAIN c.moved

NoParts(c) == c.part = <<>> /\ c.reserved = <<>>

PartCall(p) ==
  Reserve(p) \/ CancelPart(p) \/ \E q \in Amounts : Consume(p, q) \/ Return(p, q)

LEMMA InventoryShapes ==
  ASSUME NEW w \in Warehouses, NEW v \in Warehouses, NEW q
  PROVE  /\ NoOrders(AdjustInChange(w, q)) /\ NoParts(AdjustInChange(w, q))
         /\ NoOrders(AdjustOutChange(w, q)) /\ NoParts(AdjustOutChange(w, q))
         /\ NoOrders(TransferChange(w, v, q)) /\ NoParts(TransferChange(w, v, q))
<1>1. NoOrders(AdjustInChange(w, q)) /\ NoParts(AdjustInChange(w, q))
  BY DEF AdjustInChange, Stow, NoChange, NoOrders, NoParts, At
<1>2. NoOrders(AdjustOutChange(w, q)) /\ NoParts(AdjustOutChange(w, q))
  BY DEF AdjustOutChange, Stow, NoChange, NoOrders, NoParts, At
<1>3. NoOrders(TransferChange(w, v, q)) /\ NoParts(TransferChange(w, v, q))
  BY DEF TransferChange, NoChange, NoOrders, NoParts
<1> QED BY <1>1, <1>2, <1>3

LEMMA PartShapes ==
  ASSUME NEW p \in Parts, NEW q
  PROVE  /\ NoOrders(ReserveChange(p)) /\ NoOrders(CancelPartChange(p))
         /\ NoOrders(ConsumeChange(p, q)) /\ NoOrders(ReturnChange(p, q))
<1>1. NoOrders(ReserveChange(p)) /\ NoOrders(ReturnChange(p, q))
  BY DEF ReserveChange, ReturnChange, Returned, Hold, NoChange, NoOrders, At
<1>2. NoOrders(CancelPartChange(p))
  <2>1. CASE part[p].status = "memo" \/ part[p].place \notin Warehouses
    BY <2>1 DEF CancelPartChange, NoChange, NoOrders
  <2>2. CASE ~(part[p].status = "memo" \/ part[p].place \notin Warehouses)
    BY <2>2 DEF CancelPartChange, Hold, NoChange, NoOrders, At
  <2> QED BY <2>1, <2>2
<1>3. NoOrders(ConsumeChange(p, q))
  <2>1. CASE part[p].place \in {"unplaced", "adhoc"}
    BY <2>1 DEF ConsumeChange, NoChange, NoOrders
  <2>2. CASE part[p].place \notin {"unplaced", "adhoc"}
    BY <2>2 DEF ConsumeChange, Level, Consumed, NoChange, NoOrders, At
  <2> QED BY <2>1, <2>2
<1> QED BY <1>1, <1>2, <1>3

\* The steps of the ledger by what they may change.
LEMMA NextByShape ==
  ASSUME Next
  PROVE  \/ \E p \in Parts, place \in Places, q \in Needs : AddMemo(p, place, q)
         \/ \E o \in Orders : \E quantity \in [ItemsOf(o) -> Lots] : PlaceOrder(o, quantity)
         \/ \E p \in Parts : PartCall(p)
         \/ \E c : NoOrders(c) /\ NoParts(c) /\ Apply(c)
         \/ \E o \in Orders, to \in OrderStatuses :
              CanUpdateStatus(o, to) /\ Apply(OrderChange(o, to))
         \/ \E o \in Orders : CanCancelOrder(o) /\ Apply(OrderChange(o, "cancelled"))
         \/ \E i \in Items, w \in Warehouses, q \in Lots : Receive(i, w, q)
<1>1. CASE JobPartCall
  BY <1>1 DEF JobPartCall, PartCall
<1>2. CASE InventoryCall
  <2>1. PICK w \in Warehouses, q \in Lots :
          AdjustIn(w, q) \/ AdjustOut(w, q) \/ \E to \in Warehouses : Transfer(w, to, q)
    BY <1>2 DEF InventoryCall
  <2> QED BY <2>1, InventoryShapes DEF AdjustIn, AdjustOut, Transfer
<1>3. CASE OrderCall
  BY <1>3 DEF OrderCall, UpdateStatus, CancelOrder
<1> QED BY <1>1, <1>2, <1>3 DEF Next

LEMMA PartCallShape ==
  ASSUME NEW p \in Parts, PartCall(p)
  PROVE  \E c : NoOrders(c) /\ Apply(c)
BY PartShapes DEF PartCall, Reserve, Consume, Return, CancelPart

\* A change without orders and receipts leaves what was bought alone.
LEMMA NoOrdersKeeps ==
  ASSUME TypeOK, NEW c, NoOrders(c), Apply(c)
  PROVE  /\ UNCHANGED <<order, ordered, received>>
         /\ \A w \in Warehouses :
              moved'[<<w, "purchase_in">>] = moved[<<w, "purchase_in">>]
<1>1. order' = order /\ received' = received /\ ordered' = ordered
  BY DEF TypeOK, NoOrders, Apply, Set
<1> QED BY <1>1, NewLevels, TypesNamed DEF NoOrders

-----------------------------------------------------------------------------
(* Purchase orders *)

\* Nothing has come in for an order that is not there yet.
OrdersSound ==
  OrdersFillUp /\ \A i \in Items : order[OrderOf[i]] = "none" => received[i] = 0

LEMMA PlaceOrderSound ==
  ASSUME TypeOK, OrdersSound, NEW o \in Orders, NEW quantity \in [ItemsOf(o) -> Lots],
         PlaceOrder(o, quantity)
  PROVE  OrdersSound'
<1>1. /\ order[o] = "none" /\ order' = [order EXCEPT ![o] = "draft"]
      /\ ordered' = Set(ordered, quantity) /\ received' = received
  BY DEF PlaceOrder
<1>2. /\ order'[o] = "draft" /\ \A x \in Orders \ {o} : order'[x] = order[x]
      /\ \A i \in Items : received[i] \in Nat /\ ordered[i] \in Nat /\ OrderOf[i] \in Orders
  BY <1>1, StockAssumption DEF TypeOK
<1>3. /\ \A i \in ItemsOf(o) : ordered'[i] \in Nat \ {0} /\ received[i] = 0
      /\ \A i \in Items \ ItemsOf(o) : ordered'[i] = ordered[i]
  <2>1. /\ \A i \in ItemsOf(o) : ordered'[i] = quantity[i] /\ quantity[i] \in Lots
        /\ \A i \in Items \ ItemsOf(o) : ordered'[i] = ordered[i]
    BY <1>1 DEF Set, TypeOK, ItemsOf
  <2>2. \A i \in ItemsOf(o) : received[i] = 0
    BY <1>1 DEF OrdersSound, ItemsOf
  <2> QED BY <2>1, <2>2, StockAssumption
<1>4. \A i \in Items : received'[i] <= ordered'[i]
  BY <1>1, <1>2, <1>3 DEF OrdersSound, OrdersFillUp
<1>5. ASSUME NEW x \in Orders, order'[x] # "none", ItemsOf(x) # {},
             \A i \in ItemsOf(x) : received'[i] = ordered'[i]
      PROVE  order'[x] = "received"
  <2>1. x # o
    BY <1>1, <1>3, <1>5
  <2>2. \A i \in ItemsOf(x) : i \in Items \ ItemsOf(o)
    BY <2>1 DEF ItemsOf
  <2> QED BY <1>1, <1>2, <1>3, <1>5, <2>1, <2>2 DEF OrdersSound, OrdersFillUp
<1>6. \A i \in Items : order'[OrderOf[i]] = "none" => received'[i] = 0
  BY <1>1, <1>2 DEF OrdersSound
<1>7. \A x \in Orders : ItemsOf(x)' = ItemsOf(x)
  BY DEF ItemsOf
<1> QED BY <1>4, <1>5, <1>6, <1>7 DEF OrdersSound, OrdersFillUp

\* An order whose items have all come in is received, and leaves that to no one:
\* a status is set only where one may be left, and none becomes "none".
LEMMA OrderChangeSound ==
  ASSUME TypeOK, OrdersSound, NEW o \in Orders, NEW to \in OrderStatuses \ {"none"},
         order[o] \notin {"none", "received"}, Apply(OrderChange(o, to))
  PROVE  OrdersSound'
<1>1. /\ ordered' = ordered /\ received' = received
      /\ order'[o] = to /\ \A x \in Orders \ {o} : order'[x] = order[x]
  BY DEF Apply, OrderChange, NoChange, At, Set, TypeOK
<1>2. \A i \in Items : OrderOf[i] \in Orders
  BY StockAssumption
<1>3. ASSUME NEW x \in Orders, order'[x] # "none", ItemsOf(x) # {},
             \A i \in ItemsOf(x) : received'[i] = ordered'[i]
      PROVE  order'[x] = "received"
  BY <1>1, <1>3 DEF OrdersSound, OrdersFillUp
<1>4. \A i \in Items : order'[OrderOf[i]] = "none" => received'[i] = 0
  BY <1>1, <1>2 DEF OrdersSound
<1>5. \A x \in Orders : ItemsOf(x)' = ItemsOf(x)
  BY DEF ItemsOf
<1> QED BY <1>1, <1>3, <1>4, <1>5 DEF OrdersSound, OrdersFillUp

\* A receipt sets the status its own count calls for.
LEMMA ReceiveOrders ==
  ASSUME TypeOK, OrdersSound, NEW i \in Items, NEW w \in Warehouses, NEW q \in Lots,
         Receive(i, w, q)
  PROVE  OrdersSound'
<1> DEFINE o == OrderOf[i]
           c == ReceiveChange(i, w, q)
<1>1. /\ o \in Orders /\ q \in Nat /\ Apply(c) /\ order[o] \in {"ordered", "partially_received"}
      /\ received[i] + q <= ordered[i]
      /\ \A k \in Items : received[k] \in Nat /\ ordered[k] \in Nat /\ OrderOf[k] \in Orders
  BY StockAssumption DEF Receive, CanReceive, TypeOK
<1>2. /\ c.received = At(i, received[i] + q)
      /\ c.order = IF StatusAfter(i, q) = order[o] THEN <<>> ELSE At(o, StatusAfter(i, q))
  BY DEF ReceiveChange, Stow, NoChange
<1>3. /\ received'[i] = received[i] + q /\ ordered' = ordered
      /\ \A k \in Items \ {i} : received'[k] = received[k]
  <2> HIDE DEF c
  <2> QED BY <1>1, <1>2 DEF Apply, Set, At, TypeOK
<1>4. order'[o] = StatusAfter(i, q) /\ \A x \in Orders \ {o} : order'[x] = order[x]
  <2> HIDE DEF c
  <2>1. order' = Set(order, c.order) /\ order \in [Orders -> OrderStatuses]
    BY <1>1 DEF Apply, TypeOK
  <2>2. CASE StatusAfter(i, q) = order[o]
    BY <1>1, <1>2, <2>1, <2>2 DEF Set
  <2>3. CASE StatusAfter(i, q) # order[o]
    BY <1>1, <1>2, <2>1, <2>3 DEF Set, At
  <2> QED BY <2>2, <2>3
<1>5. \A k \in Items : received'[k] <= ordered'[k]
  BY <1>1, <1>3 DEF OrdersSound, OrdersFillUp
<1>6. ASSUME NEW x \in Orders, order'[x] # "none", ItemsOf(x) # {},
             \A k \in ItemsOf(x) : received'[k] = ordered'[k]
      PROVE  order'[x] = "received"
  <2>1. CASE x = o
    <3>1. \A k \in ItemsOf(o) : received[k] + (IF k = i THEN q ELSE 0) >= ordered[k]
      <4> TAKE k \in ItemsOf(o)
      <4>1. k \in Items /\ received'[k] = ordered[k]
        BY <1>3, <1>6, <2>1 DEF ItemsOf
      <4> QED BY <1>1, <1>3, <4>1
    <3> QED BY <1>4, <2>1, <3>1 DEF StatusAfter
  <2>2. CASE x # o
    <3>1. \A k \in ItemsOf(x) : k \in Items \ {i}
      BY <2>2 DEF ItemsOf
    <3> QED BY <1>3, <1>4, <1>6, <2>2, <3>1 DEF OrdersSound, OrdersFillUp
  <2> QED BY <2>1, <2>2
<1>7. \A k \in Items : order'[OrderOf[k]] = "none" => received'[k] = 0
  <2>1. order'[o] # "none"
    BY <1>4 DEF StatusAfter
  <2> QED BY <1>1, <1>3, <1>4, <2>1 DEF OrdersSound
<1>8. \A x \in Orders : ItemsOf(x)' = ItemsOf(x)
  BY DEF ItemsOf
<1> QED BY <1>5, <1>6, <1>7, <1>8 DEF OrdersSound, OrdersFillUp

LEMMA NextOrders == TypeOK /\ OrdersSound /\ [Next]_stock => OrdersSound'
<1> SUFFICES ASSUME TypeOK, OrdersSound, [Next]_stock PROVE OrdersSound'
  OBVIOUS
<1>0. ASSUME UNCHANGED <<order, ordered, received>> PROVE OrdersSound'
  BY <1>0 DEF OrdersSound, OrdersFillUp, ItemsOf
<1>1. ASSUME NEW c, NoOrders(c), Apply(c) PROVE OrdersSound'
  BY <1>0, <1>1, NoOrdersKeeps
<1>2. ASSUME NEW p \in Parts, NEW place \in Places, NEW q \in Needs, AddMemo(p, place, q)
      PROVE  OrdersSound'
  BY <1>0, <1>2 DEF AddMemo
<1>3. ASSUME NEW o \in Orders, NEW to \in OrderStatuses, CanUpdateStatus(o, to),
             Apply(OrderChange(o, to))
      PROVE  OrdersSound'
  <2>1. to # "none" /\ order[o] \notin {"none", "received"}
    BY <1>3 DEF CanUpdateStatus, ValidTransitions
  <2> QED BY <1>3, <2>1, OrderChangeSound
<1>4. ASSUME NEW o \in Orders, CanCancelOrder(o), Apply(OrderChange(o, "cancelled"))
      PROVE  OrdersSound'
  BY <1>4, OrderChangeSound DEF CanCancelOrder, OrderStatuses
<1>5. CASE UNCHANGED stock
  BY <1>0, <1>5 DEF stock
<1> QED BY <1>1, <1>2, <1>3, <1>4, <1>5, NextByShape, PartCallShape, PlaceOrderSound,
           ReceiveOrders

\* Nothing comes in beyond what was ordered, and an order whose items have all
\* come in says so (OrdersFillUp), with one call at a time.
THEOREM OrdersComplete == Spec => []OrdersFillUp
<1>1. Init => TypeOK /\ OrdersSound
  <2>1. Init => OrdersSound
    BY StockAssumption DEF Init, OrdersSound, OrdersFillUp
  <2> QED BY <2>1, InitType, StockAssumption
<1>2. TypeOK /\ OrdersSound /\ [Next]_stock => (TypeOK /\ OrdersSound)'
  BY NextType, NextOrders, StockAssumption
<1>3. OrdersSound => OrdersFillUp
  BY DEF OrdersSound
<1> QED BY <1>1, <1>2, <1>3, PTL DEF Spec

-----------------------------------------------------------------------------
(* What was bought *)

\* The units booked in as purchases, warehouse by warehouse.
Bought == [w \in Warehouses |-> moved[<<w, "purchase_in">>]]

\* A receipt counts q units at its item and books q in at its warehouse.
LEMMA ReceiveBooks ==
  ASSUME TypeOK, NEW i \in Items, NEW w \in Warehouses, NEW q \in Lots, Receive(i, w, q)
  PROVE  /\ q \in Nat
         /\ received' = [received EXCEPT ![i] = received[i] + q]
         /\ Bought' = [Bought EXCEPT ![w] = Bought[w] + q]
<1> DEFINE c == ReceiveChange(i, w, q)
<1>1. /\ q \in Nat /\ Apply(c)
      /\ c.received = At(i, received[i] + q) /\ c.moved = At(<<w, "purchase_in">>, q)
  BY StockAssumption DEF Receive, ReceiveChange, Stow, NoChange
<1> HIDE DEF c
<1>2. received' = [received EXCEPT ![i] = received[i] + q]
  BY <1>1 DEF Apply, Set, At, TypeOK
<1>3. \A v \in Warehouses : moved'[<<v, "purchase_in">>] =
        IF v = w THEN moved[<<v, "purchase_in">>] + q ELSE moved[<<v, "purchase_in">>]
  BY <1>1, NewLevels, TypesNamed DEF At
<1>4. Bought' = [Bought EXCEPT ![w] = Bought[w] + q]
  BY <1>3 DEF Bought
<1> QED BY <1>1, <1>2, <1>4

LEMMA ReceiveReceipts ==
  ASSUME TypeOK, ReceiptsReachStock, NEW i \in Items, NEW w \in Warehouses, NEW q \in Lots,
         Receive(i, w, q)
  PROVE  ReceiptsReachStock'
<1>1. /\ q \in Nat
      /\ received' = [received EXCEPT ![i] = received[i] + q]
      /\ Bought' = [Bought EXCEPT ![w] = Bought[w] + q]
  BY ReceiveBooks
<1>2. received \in [Items -> Nat] /\ IsFiniteSet(Items)
  BY StockAssumption DEF TypeOK
<1>3. Bought \in [Warehouses -> Nat] /\ IsFiniteSet(Warehouses)
  BY StockAssumption, Numbers DEF Bought
<1>4. ASSUME NEW f, NEW g, f = received, g = received'
      PROVE  Cardinality(Units(g)) = Cardinality(Units(f)) + q
  <2>1. /\ f \in [Items -> Nat] /\ g \in [Items -> Nat] /\ g[i] = f[i] + q
        /\ \A x \in Items \ {i} : g[x] = f[x]
    BY <1>1, <1>2, <1>4
  <2>2. q \in Nat /\ IsFiniteSet(Items)
    BY <1>1, <1>2
  <2> QED BY <2>1, <2>2, UnitsMore
<1>5. ASSUME NEW f, NEW g, f = Bought, g = Bought'
      PROVE  Cardinality(Units(g)) = Cardinality(Units(f)) + q
  <2>1. /\ f \in [Warehouses -> Nat] /\ g \in [Warehouses -> Nat] /\ g[w] = f[w] + q
        /\ \A x \in Warehouses \ {w} : g[x] = f[x]
    BY <1>1, <1>3, <1>5
  <2>2. q \in Nat /\ IsFiniteSet(Warehouses)
    BY <1>1, <1>3
  <2> QED BY <2>1, <2>2, UnitsMore
<1>6. Cardinality(Units(received)) = Cardinality(Units(Bought))
  BY DEF ReceiptsReachStock, Bought
<1>7. Cardinality(Units(received')) = Cardinality(Units(Bought'))
  BY <1>4, <1>5, <1>6
<1> QED BY <1>7 DEF ReceiptsReachStock, Bought, Units

LEMMA NextReceipts == TypeOK /\ ReceiptsReachStock /\ [Next]_stock => ReceiptsReachStock'
<1> SUFFICES ASSUME TypeOK, ReceiptsReachStock, [Next]_stock PROVE ReceiptsReachStock'
  OBVIOUS
<1>0. ASSUME received' = received,
             \A w \in Warehouses : moved'[<<w, "purchase_in">>] = moved[<<w, "purchase_in">>]
      PROVE  ReceiptsReachStock'
  <2>1. Bought' = Bought
    BY <1>0 DEF Bought
  <2>2. Cardinality(Units(received')) = Cardinality(Units(Bought'))
    BY <1>0, <2>1 DEF ReceiptsReachStock, Bought
  <2> QED BY <2>2 DEF ReceiptsReachStock, Bought, Units
<1>1. ASSUME NEW c, NoOrders(c), Apply(c) PROVE ReceiptsReachStock'
  BY <1>0, <1>1, NoOrdersKeeps
<1>2. ASSUME NEW p \in Parts, NEW place \in Places, NEW q \in Needs, AddMemo(p, place, q)
      PROVE  ReceiptsReachStock'
  BY <1>0, <1>2 DEF AddMemo
<1>3. ASSUME NEW o \in Orders, NEW quantity \in [ItemsOf(o) -> Lots],
             PlaceOrder(o, quantity)
      PROVE  ReceiptsReachStock'
  BY <1>0, <1>3 DEF PlaceOrder
<1>4. ASSUME NEW o \in Orders, NEW to, Apply(OrderChange(o, to)) PROVE ReceiptsReachStock'
  <2> DEFINE c == OrderChange(o, to)
  <2>1. Apply(c) /\ c.received = <<>> /\ c.moved = <<>>
    BY <1>4 DEF OrderChange, NoChange
  <2> HIDE DEF c
  <2>2. received' = received
    BY <2>1 DEF Apply, Set, TypeOK
  <2> QED BY <1>0, <2>1, <2>2, NewLevels, TypesNamed
<1>5. CASE UNCHANGED stock
  BY <1>0, <1>5 DEF stock
<1> QED BY <1>1, <1>2, <1>3, <1>4, <1>5, NextByShape, PartCallShape, ReceiveReceipts

\* Nothing received, nothing booked in.
LEMMA InitReceipts == Init => ReceiptsReachStock
<1> SUFFICES ASSUME Init PROVE ReceiptsReachStock
  OBVIOUS
<1>1. Units(received) = {}
  BY DEF Init, Units
<1>2. Units(Bought) = {}
  <2>1. \A w \in Warehouses : moved[<<w, "purchase_in">>] = 0
    BY TypesNamed DEF Init
  <2>2. DOMAIN Bought = Warehouses /\ \A w \in Warehouses : Bought[w] = 0
    BY <2>1 DEF Bought
  <2> QED BY <2>2 DEF Units
<1> QED BY <1>1, <1>2 DEF ReceiptsReachStock, Bought

\* What suppliers delivered is what the warehouses booked in as purchases
\* (ReceiptsReachStock), with one call at a time.
THEOREM ReceiptsBooked == Spec => []ReceiptsReachStock
<1>1. Init => TypeOK /\ ReceiptsReachStock
  BY InitType, InitReceipts, StockAssumption
<1>2. TypeOK /\ ReceiptsReachStock /\ [Next]_stock => (TypeOK /\ ReceiptsReachStock)'
  BY NextType, NextReceipts, StockAssumption
<1> QED BY <1>1, <1>2, PTL DEF Spec

-----------------------------------------------------------------------------
(* What is reserved *)

\* The job parts that are reserved at warehouse w in table t, and what they
\* ask for.
Reserving(t, w) == {p \in Parts : t[p].status = "reserved" /\ t[p].place = w}
Asked(t, w) == [p \in Reserving(t, w) |-> t[p].qty]

LEMMA BackedIs ==
  /\ ReservationsBacked <=>
       \A w \in Warehouses : reserved[w] >= Cardinality(Units(Asked(part, w)))
  /\ ReservationsBacked' <=>
       \A w \in Warehouses : reserved'[w] >= Cardinality(Units(Asked(part', w)))
BY DEF ReservationsBacked, ReservedAt, Asked, Reserving, Units

LEMMA AskedType ==
  ASSUME NEW t, \A p \in Parts : t[p].qty \in Nat, NEW w
  PROVE  /\ IsFiniteSet(Reserving(t, w)) /\ Asked(t, w) \in [Reserving(t, w) -> Nat]
         /\ Cardinality(Units(Asked(t, w))) \in Nat
<1>1. Reserving(t, w) \subseteq Parts
  BY DEF Reserving
<1>2. IsFiniteSet(Reserving(t, w))
  BY <1>1, StockAssumption, FS_Subset
<1>3. Asked(t, w) \in [Reserving(t, w) -> Nat]
  BY <1>1 DEF Asked
<1> QED BY <1>2, <1>3, UnitsFinite

\* One reserved part less at a warehouse takes what it asks for from the sum.
LEMMA AskedWithout ==
  ASSUME NEW t, \A x \in Parts : t[x].qty \in Nat, NEW u, NEW w, NEW p \in Reserving(t, w),
         Reserving(u, w) = Reserving(t, w) \ {p},
         \A x \in Reserving(u, w) : u[x].qty = t[x].qty
  PROVE  Cardinality(Units(Asked(t, w))) = Cardinality(Units(Asked(u, w))) + t[p].qty
<1>1. Asked(u, w) = [x \in Reserving(t, w) \ {p} |-> Asked(t, w)[x]]
  BY DEF Asked
<1>2. IsFiniteSet(Reserving(t, w)) /\ Asked(t, w) \in [Reserving(t, w) -> Nat]
  BY AskedType
<1>3. Asked(t, w)[p] = t[p].qty
  BY DEF Asked
<1>4. ASSUME NEW f, NEW g, f = Asked(t, w), g = Asked(u, w)
      PROVE  Cardinality(Units(f)) = Cardinality(Units(g)) + f[p]
  BY <1>1, <1>2, <1>4, UnitsWithout
<1> QED BY <1>3, <1>4

\* A change that takes one part out of the reserved ones, whatever its new
\* status, and gives back at its warehouse no more than it asks for.
LEMMA PartLeaves ==
  ASSUME TypeOK, ReservationsBacked, NEW c, Apply(c), NEW p \in Parts, NEW s, s # "reserved",
         c.part = At(p, s), reserved' \in [Warehouses -> Int],
         \A w \in Warehouses : reserved'[w] >=
           reserved[w] - (IF p \in Reserving(part, w) THEN part[p].qty ELSE 0)
  PROVE  ReservationsBacked'
<1>1. /\ part'[p].status = s
      /\ \A x \in Parts : part'[x].qty = part[x].qty /\ part'[x].place = part[x].place
      /\ \A x \in Parts \ {p} : part'[x].status = part[x].status
  BY DEF Apply, At, TypeOK
<1>2. \A x \in Parts : part[x].qty \in Nat
  BY DEF TypeOK
<1>3. ASSUME NEW w \in Warehouses
      PROVE  reserved'[w] >= Cardinality(Units(Asked(part', w)))
  <2>1. /\ Reserving(part', w) = Reserving(part, w) \ {p}
        /\ \A x \in Reserving(part', w) : part'[x].qty = part[x].qty
    BY <1>1 DEF Reserving
  <2>2. reserved[w] >= Cardinality(Units(Asked(part, w)))
    BY BackedIs
  <2>3. /\ Cardinality(Units(Asked(part, w))) \in Nat
        /\ Cardinality(Units(Asked(part', w))) \in Nat
    <3>1. \A x \in Parts : part'[x].qty \in Nat
      BY <1>1, <1>2
    <3> QED BY <1>2, <3>1, AskedType
  <2>4. reserved[w] \in Int /\ reserved'[w] \in Int
    BY DEF TypeOK
  <2>5. CASE p \in Reserving(part, w)
    <3>1. Cardinality(Units(Asked(part, w)))
            = Cardinality(Units(Asked(part', w))) + part[p].qty
      BY <1>2, <2>1, <2>5, AskedWithout
    <3> QED BY <1>2, <2>2, <2>3, <2>4, <2>5, <3>1
  <2>6. CASE p \notin Reserving(part, w)
    <3>1. Asked(part', w) = Asked(part, w)
      BY <2>1, <2>6 DEF Asked
    <3> QED BY <2>2, <2>3, <2>4, <2>6, <3>1
  <2> QED BY <2>5, <2>6
<1> QED BY <1>3, BackedIs

\* A reserved part whose warehouse gets back, or loses, no more than it asks for.
LEMMA GivesUp ==
  ASSUME TypeOK, ReservationsBacked, NEW c, Apply(c), NEW home \in Warehouses,
         NEW p \in Reserving(part, home), NEW q \in Int, q <= part[p].qty,
         NEW s, s # "reserved", c.part = At(p, s),
         c.reserved = At(home, reserved[home] - q)
  PROVE  ReservationsBacked'
<1>1. /\ p \in Parts /\ part[p].qty \in Nat
      /\ \A w \in Warehouses : reserved[w] \in Int
      /\ \A w \in Warehouses : p \in Reserving(part, w) <=> w = home
  BY DEF TypeOK, Reserving
<1>2. \A w \in Warehouses :
        reserved'[w] = IF w = home THEN reserved[home] - q ELSE reserved[w]
  BY NewLevels DEF At
<1>3. reserved' \in [Warehouses -> Int]
  BY <1>1 DEF Apply, Set, At, TypeOK
<1>4. \A w \in Warehouses : reserved'[w] >=
        reserved[w] - (IF p \in Reserving(part, w) THEN part[p].qty ELSE 0)
  BY <1>1, <1>2
<1> QED BY <1>1, <1>3, <1>4, PartLeaves

LEMMA ReserveBacked ==
  ASSUME TypeOK, ReservationsBacked, NEW p \in Parts, Reserve(p)
  PROVE  ReservationsBacked'
<1> DEFINE c == ReserveChange(p)
           home == part[p].place
           q == part[p].qty
<1>1. /\ part[p].status = "memo" /\ home \in Warehouses /\ q \in Nat /\ Apply(c)
      /\ c.reserved = At(home, reserved[home] + q) /\ c.part = At(p, "reserved")
  BY DEF Reserve, CanReserve, ReserveChange, Hold, NoChange, TypeOK
<1> HIDE DEF c
<1>2. \A w \in Warehouses :
        reserved'[w] = IF w = home THEN reserved[home] + q ELSE reserved[w]
  BY <1>1, NewLevels DEF At
<1>3. /\ part'[p].status = "reserved"
      /\ \A x \in Parts : part'[x].qty = part[x].qty /\ part'[x].place = part[x].place
      /\ \A x \in Parts \ {p} : part'[x].status = part[x].status
  BY <1>1 DEF Apply, At, TypeOK
<1>4. \A x \in Parts : part'[x].qty \in Nat /\ part[x].qty \in Nat
  BY <1>3 DEF TypeOK
<1>5. ASSUME NEW w \in Warehouses
      PROVE  reserved'[w] >= Cardinality(Units(Asked(part', w)))
  <2>1. /\ reserved[w] >= Cardinality(Units(Asked(part, w))) /\ reserved[w] \in Int
        /\ Cardinality(Units(Asked(part, w))) \in Nat
    BY <1>4, BackedIs, AskedType DEF TypeOK
  <2>2. CASE w = home
    <3>1. /\ p \in Reserving(part', w)
          /\ Reserving(part, w) = Reserving(part', w) \ {p}
          /\ \A x \in Reserving(part, w) : part[x].qty = part'[x].qty
      BY <1>1, <1>3, <2>2 DEF Reserving
    <3>2. ASSUME NEW t, NEW u, t = part', u = part
          PROVE  Cardinality(Units(Asked(t, w))) = Cardinality(Units(Asked(u, w))) + t[p].qty
      <4>1. /\ p \in Reserving(t, w) /\ Reserving(u, w) = Reserving(t, w) \ {p}
            /\ \A x \in Reserving(u, w) : u[x].qty = t[x].qty
            /\ \A x \in Parts : t[x].qty \in Nat
        BY <1>4, <3>1, <3>2
      <4> QED BY <4>1, AskedWithout
    <3>3. part'[p].qty = q /\ q \in Nat
      BY <1>1, <1>3
    <3>4. reserved'[w] = reserved[w] + q
      BY <1>2, <2>2
    <3> HIDE DEF q, home
    <3> QED BY <2>1, <3>2, <3>3, <3>4
  <2>3. CASE w # home
    <3>1. /\ Reserving(part', w) = Reserving(part, w)
          /\ \A x \in Reserving(part, w) : part'[x].qty = part[x].qty
      BY <1>1, <1>3, <2>3 DEF Reserving
    <3>2. Asked(part', w) = Asked(part, w)
      BY <3>1 DEF Asked
    <3> QED BY <1>2, <2>1, <2>3, <3>2
  <2> QED BY <2>2, <2>3
<1> QED BY <1>5, BackedIs

LEMMA ConsumeBacked ==
  ASSUME TypeOK, ReservationsBacked, NEW p \in Parts, NEW q \in Amounts, Consume(p, q)
  PROVE  ReservationsBacked'
<1> DEFINE c == ConsumeChange(p, q)
           home == part[p].place
<1>1. /\ home \in Places /\ q \in Int /\ q <= part[p].qty /\ Apply(c) /\ part[p].qty \in Nat
      /\ part[p].status = "reserved" \/ home = "adhoc"
      /\ \A w \in Warehouses : reserved[w] \in Int
  BY StockAssumption DEF Consume, CanConsume, TypeOK
<1>2. c.part = At(p, "used")
  BY DEF ConsumeChange, Level, NoChange
<1>3. CASE home \in {"unplaced", "adhoc"}
  <2>1. c.reserved = <<>>
    BY <1>3 DEF ConsumeChange, NoChange
  <2> HIDE DEF c
  <2>2. \A w \in Warehouses : reserved'[w] = reserved[w]
    BY <1>1, <2>1, NewLevels
  <2>3. reserved' \in [Warehouses -> Int]
    BY <1>1, <2>1 DEF Apply, Set, TypeOK
  <2> QED BY <1>1, <1>2, <2>2, <2>3, PartLeaves
<1>4. CASE home \notin {"unplaced", "adhoc"}
  <2>1. c.reserved = At(home, reserved[home] - q) /\ home \in Warehouses
    BY <1>1, <1>4 DEF ConsumeChange, Level, NoChange, Places
  <2> HIDE DEF c
  <2>2. p \in Reserving(part, home)
    BY <1>1, <1>4 DEF Reserving
  <2> QED BY <1>1, <1>2, <2>1, <2>2, GivesUp
<1> QED BY <1>3, <1>4

LEMMA ReturnBacked ==
  ASSUME TypeOK, ReservationsBacked, NEW p \in Parts, NEW q \in Amounts, Return(p, q)
  PROVE  ReservationsBacked'
<1> DEFINE c == ReturnChange(p, q)
           home == part[p].place
<1>1. /\ home \in Warehouses /\ q \in Int /\ q <= part[p].qty /\ Apply(c)
      /\ p \in Reserving(part, home)
  BY StockAssumption DEF Return, CanReturn, Reserving
<1>2. c.reserved = At(home, reserved[home] - q) /\ c.part = At(p, "returned")
  BY DEF ReturnChange, Hold, NoChange
<1> HIDE DEF c
<1> QED BY <1>1, <1>2, GivesUp

LEMMA CancelPartBacked ==
  ASSUME TypeOK, ReservationsBacked, NEW p \in Parts, CancelPart(p)
  PROVE  ReservationsBacked'
<1> DEFINE c == CancelPartChange(p)
           home == part[p].place
           q == part[p].qty
<1>1. /\ q \in Nat /\ Apply(c) /\ part[p].status \in {"memo", "reserved"}
      /\ \A w \in Warehouses : reserved[w] \in Int
  BY DEF CancelPart, CanCancelPart, TypeOK
<1>2. c.part = At(p, "cancelled")
  BY DEF CancelPartChange, Hold, NoChange
<1>3. CASE part[p].status = "memo" \/ home \notin Warehouses
  <2>1. c.reserved = <<>>
    BY <1>3 DEF CancelPartChange, NoChange
  <2> HIDE DEF c
  <2>2. \A w \in Warehouses : reserved'[w] = reserved[w]
    BY <1>1, <2>1, NewLevels
  <2>3. reserved' \in [Warehouses -> Int]
    BY <1>1, <2>1 DEF Apply, Set, TypeOK
  <2>4. \A w \in Warehouses : reserved'[w] >=
          reserved[w] - (IF p \in Reserving(part, w) THEN part[p].qty ELSE 0)
    BY <1>1, <2>2
  <2> QED BY <1>1, <1>2, <2>3, <2>4, PartLeaves
<1>4. CASE ~(part[p].status = "memo" \/ home \notin Warehouses)
  <2>1. c.reserved = At(home, reserved[home] - q) /\ home \in Warehouses
    BY <1>4 DEF CancelPartChange, Hold, NoChange
  <2>2. p \in Reserving(part, home) /\ q <= part[p].qty
    BY <1>1, <1>4 DEF Reserving
  <2> HIDE DEF c
  <2> QED BY <1>1, <1>2, <2>1, <2>2, GivesUp
<1> QED BY <1>3, <1>4

LEMMA NextBacked == TypeOK /\ ReservationsBacked /\ [Next]_stock => ReservationsBacked'
<1> SUFFICES ASSUME TypeOK, ReservationsBacked, [Next]_stock PROVE ReservationsBacked'
  OBVIOUS
<1>0. ASSUME part' = part, reserved' = reserved PROVE ReservationsBacked'
  BY <1>0 DEF ReservationsBacked, ReservedAt, Units
<1>1. ASSUME NEW c, c.part = <<>>, c.reserved = <<>>, Apply(c) PROVE ReservationsBacked'
  <2>1. part' = part /\ reserved' = reserved
    BY <1>1 DEF Apply, Set, TypeOK
  <2> QED BY <1>0, <2>1
<1>2. ASSUME NEW p \in Parts, NEW place \in Places, NEW q \in Needs, AddMemo(p, place, q)
      PROVE  ReservationsBacked'
  <2>1. /\ reserved' = reserved /\ part[p].status = "none" /\ part'[p].status = "memo"
        /\ \A x \in Parts \ {p} : part'[x] = part[x]
    BY <1>2 DEF AddMemo, TypeOK
  <2>2. \A w \in Warehouses :
          /\ Reserving(part', w) = Reserving(part, w)
          /\ \A x \in Reserving(part, w) : part'[x].qty = part[x].qty
    BY <2>1 DEF Reserving
  <2>3. \A w \in Warehouses : Asked(part', w) = Asked(part, w)
    BY <2>2 DEF Asked
  <2>4. \A w \in Warehouses : reserved'[w] >= Cardinality(Units(Asked(part', w)))
    BY <2>1, <2>3, BackedIs
  <2> QED BY <2>4, BackedIs
<1>3. ASSUME NEW p \in Parts, PartCall(p) PROVE ReservationsBacked'
  BY <1>3, ReserveBacked, ConsumeBacked, ReturnBacked, CancelPartBacked DEF PartCall
<1>4. ASSUME NEW o \in Orders, NEW quantity \in [ItemsOf(o) -> Lots],
             PlaceOrder(o, quantity)
      PROVE  ReservationsBacked'
  BY <1>0, <1>4 DEF PlaceOrder
<1>5. ASSUME NEW o \in Orders, NEW to, Apply(OrderChange(o, to)) PROVE ReservationsBacked'
  <2>1. OrderChange(o, to).part = <<>> /\ OrderChange(o, to).reserved = <<>>
    BY DEF OrderChange, NoChange
  <2> QED BY <1>1, <1>5, <2>1
<1>6. ASSUME NEW i \in Items, NEW w \in Warehouses, NEW q \in Lots, Receive(i, w, q)
      PROVE  ReservationsBacked'
  <2>1. ReceiveChange(i, w, q).part = <<>> /\ ReceiveChange(i, w, q).reserved = <<>>
    BY DEF ReceiveChange, Stow, NoChange
  <2> QED BY <1>1, <1>6, <2>1 DEF Receive
<1>7. CASE UNCHANGED stock
  BY <1>0, <1>7 DEF stock
<1> QED BY <1>1, <1>2, <1>3, <1>4, <1>5, <1>6, <1>7, NextByShape DEF NoParts

LEMMA InitBacked == Init => ReservationsBacked
<1> SUFFICES ASSUME Init PROVE ReservationsBacked
  OBVIOUS
<1>1. \A w \in Warehouses : reserved[w] = 0 /\ Reserving(part, w) = {}
  BY DEF Init, Reserving
<1>2. \A w \in Warehouses : Units(Asked(part, w)) = {}
  BY <1>1 DEF Units, Asked
<1>3. Cardinality({}) = 0
  BY FS_EmptySet
<1>4. \A w \in Warehouses : reserved[w] >= Cardinality(Units(Asked(part, w)))
  BY <1>1, <1>2, <1>3
<1> QED BY <1>4, BackedIs

\* What the reserved job parts of a warehouse ask for is held there
\* (ReservationsBacked), with one call at a time.
THEOREM ReservationsHeld == Spec => []ReservationsBacked
<1>1. Init => TypeOK /\ ReservationsBacked
  BY InitType, InitBacked, StockAssumption
<1>2. TypeOK /\ ReservationsBacked /\ [Next]_stock => (TypeOK /\ ReservationsBacked)'
  BY NextType, NextBacked, StockAssumption
<1> QED BY <1>1, <1>2, PTL DEF Spec

-----------------------------------------------------------------------------
(* Calls with others between read and commit *)

\* What some call would commit if it read now.
JobPartComputes(c) ==
  \E p \in Parts :
    \/ CanReserve(p) /\ c = ReserveChange(p)
    \/ \E q \in Amounts : \/ CanConsume(p, q) /\ c = ConsumeChange(p, q)
                          \/ CanReturn(p, q) /\ c = ReturnChange(p, q)
    \/ CanCancelPart(p) /\ c = CancelPartChange(p)

InventoryComputes(c) ==
  \E w \in Warehouses, q \in Lots :
    \/ Fits(w, q) /\ c = AdjustInChange(w, q)
    \/ CanAdjustOut(w, q) /\ c = AdjustOutChange(w, q)
    \/ \E to \in Warehouses :
         CanTransfer(w, to, q) /\ Fits(to, q) /\ c = TransferChange(w, to, q)

OrderComputes(c) ==
  \/ \E o \in Orders, to \in OrderStatuses : CanUpdateStatus(o, to) /\ c = OrderChange(o, to)
  \/ \E o \in Orders : CanCancelOrder(o) /\ c = OrderChange(o, "cancelled")

ReceiptComputes(c) ==
  \E i \in Items, w \in Warehouses, q \in Lots :
    CanReceive(i, q) /\ Fits(w, q) /\ c = ReceiveChange(i, w, q)

Computed(c) ==
  JobPartComputes(c) \/ InventoryComputes(c) \/ OrderComputes(c) \/ ReceiptComputes(c)

\* A call in flight will commit what it would compute if it read now.
Fresh ==
  /\ DOMAIN req = Reqs
  /\ \A r \in Reqs : req[r] # NoChange => Computed(req[r])

\* Committed at once, it is a call of the ledger.
LEMMA ComputedStep ==
  ASSUME NEW c, Computed(c), Apply(c)
  PROVE  Next
<1>1. CASE JobPartComputes(c)
  BY <1>1 DEF JobPartComputes, Next, JobPartCall, Reserve, Consume, Return, CancelPart
<1>2. CASE InventoryComputes(c)
  BY <1>2 DEF InventoryComputes, Next, InventoryCall, AdjustIn, AdjustOut, Transfer
<1>3. CASE OrderComputes(c)
  BY <1>3 DEF OrderComputes, Next, OrderCall, UpdateStatus, CancelOrder
<1>4. CASE ReceiptComputes(c)
  BY <1>4 DEF ReceiptComputes, Next, OrderCall, Receive
<1> QED BY <1>1, <1>2, <1>3, <1>4 DEF Computed

\* The steps of the service by what they do to a call in flight.
LEMMA RNextShape ==
  ASSUME RNext
  PROVE  \/ Insert /\ UNCHANGED req
         \/ \E r \in Reqs : \/ \E c : Computed(c) /\ Read(r, c)
                            \/ Commit(r) \/ Rollback(r)
<1>1. ASSUME NEW r \in Reqs, NEW p \in Parts, ReadJobPart(r, p)
      PROVE  \E c : Computed(c) /\ Read(r, c)
  <2>1. CASE ReadReserve(r, p) \/ ReadCancelPart(r, p)
    BY <2>1 DEF ReadReserve, ReadCancelPart, JobPartComputes, Computed
  <2>2. ASSUME NEW q \in Amounts, ReadConsume(r, p, q) \/ ReadReturn(r, p, q)
        PROVE  \E c : Computed(c) /\ Read(r, c)
    BY <2>2 DEF ReadConsume, ReadReturn, JobPartComputes, Computed
  <2> QED BY <1>1, <2>1, <2>2 DEF ReadJobPart
<1>2. ASSUME NEW r \in Reqs, NEW w \in Warehouses, NEW q \in Lots, ReadInventory(r, w, q)
      PROVE  \E c : Computed(c) /\ Read(r, c)
  <2>1. PICK c : InventoryComputes(c) /\ Read(r, c)
    BY <1>2 DEF ReadInventory, ReadAdjustIn, ReadAdjustOut, ReadTransfer, InventoryComputes
  <2> QED BY <2>1 DEF Computed
<1>3. ASSUME NEW r \in Reqs, NEW o \in Orders, ReadOrder(r, o)
      PROVE  \E c : Computed(c) /\ Read(r, c)
  <2>1. PICK c : OrderComputes(c) /\ Read(r, c)
    BY <1>3 DEF ReadOrder, ReadUpdateStatus, ReadCancelOrder, OrderComputes
  <2> QED BY <2>1 DEF Computed
<1>4. ASSUME NEW r \in Reqs, NEW i \in Items, NEW w \in Warehouses, NEW q \in Lots,
             ReadReceive(r, i, w, q)
      PROVE  \E c : Computed(c) /\ Read(r, c)
  <2>1. PICK c : ReceiptComputes(c) /\ Read(r, c)
    BY <1>4 DEF ReadReceive, ReceiptComputes
  <2> QED BY <2>1 DEF Computed
<1> QED BY <1>1, <1>2, <1>3, <1>4 DEF RNext

\* What a job part's call computes depends on that part and on the inventory.
LEMMA JobPartKept ==
  ASSUME UNCHANGED <<rows, onHand, reserved, available>>,
         \A p \in Parts : part[p].status # "none" => part'[p] = part[p],
         NEW c, JobPartComputes(c)
  PROVE  JobPartComputes(c)'
<1>1. PICK p \in Parts :
        \/ CanReserve(p) /\ c = ReserveChange(p)
        \/ \E q \in Amounts : \/ CanConsume(p, q) /\ c = ConsumeChange(p, q)
                              \/ CanReturn(p, q) /\ c = ReturnChange(p, q)
        \/ CanCancelPart(p) /\ c = CancelPartChange(p)
  BY DEF JobPartComputes
<1>2. part'[p] = part[p]
  BY <1>1 DEF CanReserve, CanConsume, CanReturn, CanCancelPart
<1>3. /\ CanReserve(p)' = CanReserve(p) /\ CanCancelPart(p)' = CanCancelPart(p)
      /\ \A q \in Amounts : /\ CanConsume(p, q)' = CanConsume(p, q)
                            /\ CanReturn(p, q)' = CanReturn(p, q)
  BY <1>2 DEF CanReserve, CanConsume, CanReturn, CanCancelPart
<1>4. ReserveChange(p)' = ReserveChange(p)
  BY <1>2 DEF ReserveChange, Hold
<1>5. CancelPartChange(p)' = CancelPartChange(p)
  BY <1>2 DEF CancelPartChange, Hold
<1>6. \A q \in Amounts : ConsumeChange(p, q)' = ConsumeChange(p, q)
  BY <1>2 DEF ConsumeChange, Level, Consumed
<1>7. \A q \in Amounts : ReturnChange(p, q)' = ReturnChange(p, q)
  BY <1>2 DEF ReturnChange, Hold, Returned
<1> QED BY <1>1, <1>3, <1>4, <1>5, <1>6, <1>7 DEF JobPartComputes

LEMMA InventoryKept ==
  ASSUME UNCHANGED <<rows, onHand, reserved, available, moved>>,
         NEW c, InventoryComputes(c)
  PROVE  InventoryComputes(c)'
<1>1. \A w, q : Fits(w, q)' = Fits(w, q) /\ CanAdjustOut(w, q)' = CanAdjustOut(w, q)
  BY DEF Fits, CameIn, CanAdjustOut
<1>2. \A w, to, q : CanTransfer(w, to, q)' = CanTransfer(w, to, q)
  BY DEF CanTransfer
<1>3. \A w, q : AdjustInChange(w, q)' = AdjustInChange(w, q)
  BY DEF AdjustInChange, Stow
<1>4. \A w, q : AdjustOutChange(w, q)' = AdjustOutChange(w, q)
  BY DEF AdjustOutChange, Stow
<1>5. \A w, to, q : TransferChange(w, to, q)' = TransferChange(w, to, q)
  BY DEF TransferChange
<1> QED BY <1>1, <1>2, <1>3, <1>4, <1>5 DEF InventoryComputes

LEMMA OrderKept ==
  ASSUME \A o \in Orders : order[o] # "none" => order'[o] = order[o],
         NEW c, OrderComputes(c)
  PROVE  OrderComputes(c)'
<1>1. \A o \in Orders, to \in OrderStatuses :
        CanUpdateStatus(o, to) => CanUpdateStatus(o, to)'
  <2> SUFFICES ASSUME NEW o \in Orders, NEW to \in OrderStatuses, CanUpdateStatus(o, to)
               PROVE  CanUpdateStatus(o, to)'
    OBVIOUS
  <2>1. order[o] # "none"
    BY DEF CanUpdateStatus, ValidTransitions
  <2> QED BY <2>1 DEF CanUpdateStatus
<1>2. \A o \in Orders : CanCancelOrder(o) => CanCancelOrder(o)'
  BY DEF CanCancelOrder
<1>3. \A o, to : OrderChange(o, to)' = OrderChange(o, to)
  BY DEF OrderChange
<1> QED BY <1>1, <1>2, <1>3 DEF OrderComputes

LEMMA ReceiptKept ==
  ASSUME UNCHANGED <<rows, onHand, reserved, moved, received>>,
         \A o \in Orders : order[o] # "none" => order'[o] = order[o],
         \A i \in Items : order[OrderOf[i]] # "none" => ordered'[i] = ordered[i],
         NEW c, ReceiptComputes(c)
  PROVE  ReceiptComputes(c)'
<1>1. PICK i \in Items : \E w \in Warehouses, q \in Lots :
        CanReceive(i, q) /\ Fits(w, q) /\ c = ReceiveChange(i, w, q)
  BY DEF ReceiptComputes
<1>2. PICK w \in Warehouses, q \in Lots :
        CanReceive(i, q) /\ Fits(w, q) /\ c = ReceiveChange(i, w, q)
  BY <1>1
<1>3. /\ order'[OrderOf[i]] = order[OrderOf[i]]
      /\ \A k \in ItemsOf(OrderOf[i]) : ordered'[k] = ordered[k]
      /\ ordered'[i] = ordered[i]
  BY <1>2, StockAssumption DEF CanReceive, ItemsOf
<1>4. CanReceive(i, q)' /\ Fits(w, q)'
  BY <1>2, <1>3 DEF CanReceive, Fits, CameIn
<1>5. StatusAfter(i, q)' = StatusAfter(i, q)
  BY <1>3 DEF StatusAfter, ItemsOf
<1>6. ReceiveChange(i, w, q)' = ReceiveChange(i, w, q)
  BY <1>3, <1>5 DEF ReceiveChange, Stow
<1> QED BY <1>2, <1>4, <1>6 DEF ReceiptComputes

\* The inserts touch only rows no call in flight has read.
LEMMA InsertKeeps ==
  ASSUME TypeOK, Insert \/ UNCHANGED stock, NEW c, Computed(c)
  PROVE  Computed(c)'
<1> DEFINE kept ==
      /\ UNCHANGED <<rows, onHand, reserved, available, moved, received>>
      /\ \A p \in Parts : part[p].status # "none" => part'[p] = part[p]
      /\ \A o \in Orders : order[o] # "none" => order'[o] = order[o]
      /\ \A i \in Items : order[OrderOf[i]] # "none" => ordered'[i] = ordered[i]
<1>1. kept
  <2>1. ASSUME NEW p \in Parts, NEW place \in Places, NEW q \in Needs, AddMemo(p, place, q)
        PROVE  kept
    BY <2>1 DEF AddMemo, TypeOK
  <2>2. ASSUME NEW o \in Orders, NEW quantity \in [ItemsOf(o) -> Lots],
               PlaceOrder(o, quantity)
        PROVE  kept
    BY <2>2 DEF PlaceOrder, TypeOK, Set, ItemsOf
  <2>3. CASE UNCHANGED stock
    BY <2>3 DEF stock
  <2> QED BY <2>1, <2>2, <2>3 DEF Insert
<1> QED BY <1>1, JobPartKept, InventoryKept, OrderKept, ReceiptKept DEF Computed

\* With one call in flight at a time.
OneCall == \A r, s \in Reqs : r = s

\* Every step of the service is a step of the ledger or leaves it alone, and
\* keeps the call in flight fresh.
LEMMA RNextFresh ==
  ASSUME OneCall, TypeOK, Fresh, [RNext]_vars
  PROVE  [Next]_stock /\ Fresh'
<1>1. ASSUME Insert \/ UNCHANGED stock, UNCHANGED req PROVE Fresh'
  <2>1. DOMAIN req' = Reqs
    BY <1>1 DEF Fresh
  <2>2. ASSUME NEW r \in Reqs, req'[r] # NoChange PROVE Computed(req[r])'
    <3>1. PICK c : c = req[r]
      OBVIOUS
    <3>2. Computed(c)'
      BY <1>1, <2>2, <3>1, InsertKeeps DEF Fresh
    <3> QED BY <1>1, <3>1, <3>2
  <2> QED BY <2>1, <2>2 DEF Fresh, NoChange
<1>2. CASE Insert /\ UNCHANGED req
  BY <1>1, <1>2 DEF Insert, Next, JobPartCall, OrderCall
<1>3. ASSUME NEW r \in Reqs, NEW c, Computed(c), Read(r, c) PROVE [Next]_stock /\ Fresh'
  <2>1. req' = [req EXCEPT ![r] = c] /\ UNCHANGED stock
    BY <1>3 DEF Read
  <2>2. DOMAIN req' = Reqs /\ req'[r] = c /\ \A s \in Reqs : s = r
    BY <2>1 DEF Fresh, OneCall
  <2>3. Computed(c)'
    BY <1>3, <2>1, InsertKeeps
  <2> QED BY <2>1, <2>2, <2>3 DEF Fresh
<1>4. ASSUME NEW r \in Reqs, End(r) PROVE Fresh'
  <2>1. DOMAIN req' = Reqs /\ \A s \in Reqs : req'[s] = NoChange
    BY <1>4 DEF End, Fresh, OneCall
  <2> QED BY <2>1 DEF Fresh, NoChange
<1>5. ASSUME NEW r \in Reqs, Commit(r) PROVE [Next]_stock /\ Fresh'
  <2>1. PICK c : c = req[r]
    OBVIOUS
  <2>2. Computed(c) /\ Apply(c)
    BY <1>5, <2>1 DEF Commit, Fresh
  <2> QED BY <1>4, <1>5, <2>2, ComputedStep DEF Commit
<1>6. ASSUME NEW r \in Reqs, Rollback(r) PROVE [Next]_stock /\ Fresh'
  BY <1>4, <1>6 DEF Rollback
<1>7. CASE UNCHANGED vars
  BY <1>1, <1>7 DEF vars
<1> QED BY <1>2, <1>3, <1>5, <1>6, <1>7, <1>1, RNextShape

\* With one call in flight at a time the service only ever does what the ledger
\* allows: every theorem about the ledger is one about the service.
THEOREM OneCallIsLedger == OneCall => (RSpec => Spec)
<1> SUFFICES ASSUME OneCall PROVE RSpec => Spec
  OBVIOUS
<1>1. RInit => Init /\ TypeOK /\ Fresh
  BY InitType, StockAssumption DEF RInit, Fresh, NoChange
<1>2. TypeOK /\ Fresh /\ [RNext]_vars => [Next]_stock /\ (TypeOK /\ Fresh)'
  BY RNextFresh, NextType, StockAssumption
<1> QED BY <1>1, <1>2, PTL DEF RSpec, Spec

\* The instance with the same parameters is the ledger itself, and a step that
\* leaves the stock alone needs no call.
LEMMA LedgerIsSpec == Spec => ImplementsLedger
<1>1. Init => Ledger!Init
  BY DEF Init, Ledger!Init, Ledger!Types, Types
<1>2. Next => Ledger!Next
  BY DEF Next, JobPartCall, InventoryCall, OrderCall, AddMemo, Reserve, Consume, Return,
         CancelPart, AdjustIn, AdjustOut, Transfer, PlaceOrder, UpdateStatus, CancelOrder,
         Receive, CanReserve, CanConsume, CanReturn, CanCancelPart, Fits, CameIn,
         CanAdjustOut, CanTransfer, CanUpdateStatus, CanCancelOrder, CanReceive,
         ValidTransitions, ReserveChange, ConsumeChange, ReturnChange, CancelPartChange,
         AdjustInChange, AdjustOutChange, TransferChange, OrderChange, ReceiveChange,
         StatusAfter, ItemsOf, OrderStatuses, Places, Hold, Level, Stow, Consumed, Returned,
         NoChange, At, Set, Add, Apply, Ledger!Next, Ledger!JobPartCall, Ledger!InventoryCall, Ledger!OrderCall,
         Ledger!AddMemo, Ledger!Reserve, Ledger!Consume, Ledger!Return, Ledger!CancelPart,
         Ledger!AdjustIn, Ledger!AdjustOut, Ledger!Transfer, Ledger!PlaceOrder,
         Ledger!UpdateStatus, Ledger!CancelOrder, Ledger!Receive, Ledger!CanReserve,
         Ledger!CanConsume, Ledger!CanReturn, Ledger!CanCancelPart, Ledger!Fits,
         Ledger!CameIn, Ledger!CanAdjustOut, Ledger!CanTransfer, Ledger!CanUpdateStatus,
         Ledger!CanCancelOrder, Ledger!CanReceive, Ledger!ValidTransitions,
         Ledger!ReserveChange, Ledger!ConsumeChange, Ledger!ReturnChange,
         Ledger!CancelPartChange, Ledger!AdjustInChange, Ledger!AdjustOutChange,
         Ledger!TransferChange, Ledger!OrderChange, Ledger!ReceiveChange, Ledger!StatusAfter,
         Ledger!ItemsOf, Ledger!OrderStatuses, Ledger!Places, Ledger!Hold, Ledger!Level,
         Ledger!Stow, Ledger!Consumed,
         Ledger!Returned, Ledger!NoChange, Ledger!At, Ledger!Set, Ledger!Add, Ledger!Apply
<1>3. [Next]_stock => [stock' # stock /\ Ledger!Next]_stock
  BY <1>2
<1> QED BY <1>1, <1>3, PTL DEF Spec, ImplementsLedger

\* The service with one call in flight implements the ledger (ImplementsLedger).
THEOREM OneCallImplementsLedger == OneCall => (RSpec => ImplementsLedger)
BY OneCallIsLedger, LedgerIsSpec

-----------------------------------------------------------------------------
(* Any number of calls in flight *)

\* Nothing is received beyond what was ordered.
NotOverReceived == \A i \in Items : received[i] <= ordered[i]

\* What a call in flight carries for the orders: a status an existing order may
\* have, and a receipt that fits what was ordered.
Carries(c) ==
  /\ Typed(c)
  /\ \A o \in DOMAIN c.order : c.order[o] # "none"
  /\ DOMAIN c.received \subseteq Items
  /\ \A i \in DOMAIN c.received : order[OrderOf[i]] # "none" /\ c.received[i] <= ordered[i]

RacesSound ==
  /\ DOMAIN req = Reqs
  /\ \A r \in Reqs : Carries(req[r])
  /\ \A i \in Items :
       received[i] <= ordered[i] /\ (order[OrderOf[i]] = "none" => received[i] = 0)

\* What a call computes carries that, whatever the others are doing.
LEMMA ComputedCarries ==
  ASSUME TypeOK, NEW c, Computed(c)
  PROVE  Carries(c)
<1>1. ASSUME Typed(c), NoOrders(c) PROVE Carries(c)
  BY <1>1 DEF Carries, NoOrders
<1>2. CASE JobPartComputes(c)
  <2>1. PICK p \in Parts :
          \/ CanReserve(p) /\ c = ReserveChange(p)
          \/ \E q \in Amounts : \/ CanConsume(p, q) /\ c = ConsumeChange(p, q)
                                \/ CanReturn(p, q) /\ c = ReturnChange(p, q)
          \/ CanCancelPart(p) /\ c = CancelPartChange(p)
    BY <1>2 DEF JobPartComputes
  <2>2. Typed(c)
    BY <2>1, ChangeTypes, StockAssumption
  <2>3. NoOrders(c)
    BY <2>1, PartShapes
  <2> QED BY <1>1, <2>2, <2>3
<1>3. CASE InventoryComputes(c)
  <2>1. PICK w \in Warehouses, q \in Lots :
          \/ c = AdjustInChange(w, q) \/ c = AdjustOutChange(w, q)
          \/ \E to \in Warehouses : c = TransferChange(w, to, q)
    BY <1>3 DEF InventoryComputes
  <2>2. Typed(c)
    BY <2>1, ChangeTypes, StockAssumption
  <2>3. NoOrders(c)
    BY <2>1, InventoryShapes
  <2> QED BY <1>1, <2>2, <2>3
<1>4. CASE OrderComputes(c)
  <2>1. PICK o \in Orders, to \in OrderStatuses \ {"none"} : c = OrderChange(o, to)
    BY <1>4 DEF OrderComputes, CanUpdateStatus, ValidTransitions, OrderStatuses
  <2>2. Typed(c)
    BY <2>1, ChangeTypes, StockAssumption
  <2>3. c.order = At(o, to) /\ c.received = <<>>
    BY <2>1 DEF OrderChange, NoChange
  <2> QED BY <2>1, <2>2, <2>3 DEF Carries, At
<1>5. CASE ReceiptComputes(c)
  <2>1. PICK i \in Items : \E w \in Warehouses, q \in Lots :
          CanReceive(i, q) /\ c = ReceiveChange(i, w, q)
    BY <1>5 DEF ReceiptComputes
  <2>2. PICK w \in Warehouses, q \in Lots : CanReceive(i, q) /\ c = ReceiveChange(i, w, q)
    BY <2>1
  <2>3. Typed(c)
    BY <2>2, ChangeTypes, StockAssumption
  <2>4. /\ c.received = At(i, received[i] + q)
        /\ c.order = IF StatusAfter(i, q) = order[OrderOf[i]] THEN <<>>
                     ELSE At(OrderOf[i], StatusAfter(i, q))
    BY <2>2 DEF ReceiveChange, Stow, NoChange
  <2>5. \A o \in DOMAIN c.order : c.order[o] # "none"
    BY <2>4 DEF At, StatusAfter
  <2>6. \A k \in DOMAIN c.received :
          order[OrderOf[k]] # "none" /\ c.received[k] <= ordered[k]
    BY <2>2, <2>4 DEF At, CanReceive
  <2>7. DOMAIN c.received \subseteq Items
    BY <2>4 DEF At
  <2> QED BY <2>3, <2>5, <2>6, <2>7 DEF Carries
<1> QED BY <1>2, <1>3, <1>4, <1>5 DEF Computed

LEMMA NoChangeCarries == Carries(NoChange)
BY DEF Carries, Typed, NoChange

\* What is carried stays right while orders stay there and keep their quantities.
LEMMA CarriesKept ==
  ASSUME NEW c, Carries(c),
         \A i \in DOMAIN c.received : order[OrderOf[i]] # "none" =>
           order'[OrderOf[i]] # "none" /\ ordered'[i] = ordered[i]
  PROVE  Carries(c)'
BY DEF Carries, Typed

LEMMA RNextRaces ==
  ASSUME TypeOK, RacesSound, [RNext]_vars
  PROVE  TypeOK' /\ RacesSound'
<1> DEFINE bought == \A i \in Items :
      received[i] <= ordered[i] /\ (order[OrderOf[i]] = "none" => received[i] = 0)
           kept == \A i \in Items : order[OrderOf[i]] # "none" =>
      order'[OrderOf[i]] # "none" /\ ordered'[i] = ordered[i]
<1>0. /\ DOMAIN req = Reqs /\ bought
      /\ \A i \in Items : OrderOf[i] \in Orders /\ received[i] \in Nat /\ ordered[i] \in Nat
  BY StockAssumption DEF RacesSound, TypeOK
\* Orders stay there and keep their quantities, so what is carried stays right.
<1>1. ASSUME kept, NEW c, Carries(c) PROVE Carries(c)'
  <2>1. \A i \in DOMAIN c.received : i \in Items
    BY <1>1 DEF Carries
  <2> QED BY <1>1, <2>1, CarriesKept
<1>2. ASSUME DOMAIN req' = Reqs, NEW c, Carries(c)',
             \A s \in Reqs : req'[s] = req[s] \/ req'[s] = c,
             TypeOK', bought', kept
      PROVE  TypeOK' /\ RacesSound'
  <2>1. ASSUME NEW s \in Reqs PROVE Carries(req[s])'
    <3>1. PICK d : d = req'[s]
      OBVIOUS
    <3>2. CASE d = c
      BY <1>2, <3>1, <3>2
    <3>3. CASE d = req[s]
      <4>1. Carries(d)
        BY <3>3 DEF RacesSound
      <4>2. Carries(d)'
        BY <1>1, <1>2, <4>1
      <4> QED BY <3>1, <4>2
    <3> QED BY <1>2, <3>1, <3>2, <3>3
  <2> QED BY <1>2, <2>1 DEF RacesSound
<1>3. ASSUME UNCHANGED stock PROVE TypeOK' /\ bought'
  BY <1>0, <1>3 DEF stock, TypeOK
<1>4. ASSUME NEW r \in Reqs, NEW c, Computed(c), Read(r, c) PROVE TypeOK' /\ RacesSound'
  <2>1. req' = [req EXCEPT ![r] = c] /\ UNCHANGED stock
    BY <1>4 DEF Read
  <2>2. order' = order /\ ordered' = ordered
    BY <2>1 DEF stock
  <2>3. Carries(c)'
    BY <1>1, <1>4, <2>2, ComputedCarries
  <2> QED BY <1>0, <1>2, <1>3, <2>1, <2>2, <2>3
<1>5. ASSUME NEW r \in Reqs, Rollback(r) PROVE TypeOK' /\ RacesSound'
  <2>1. req' = [req EXCEPT ![r] = NoChange] /\ UNCHANGED stock
    BY <1>5 DEF Rollback, End
  <2>2. order' = order /\ ordered' = ordered
    BY <2>1 DEF stock
  <2>3. Carries(NoChange)'
    BY <1>1, <2>2, NoChangeCarries
  <2> QED BY <1>0, <1>2, <1>3, <2>1, <2>2, <2>3
<1>6. ASSUME NEW r \in Reqs, Commit(r) PROVE TypeOK' /\ RacesSound'
  <2>1. PICK c : c = req[r]
    OBVIOUS
  <2>2. Carries(c) /\ Apply(c) /\ req' = [req EXCEPT ![r] = NoChange]
    BY <1>6, <2>1 DEF Commit, End, RacesSound
  <2>3. TypeOK'
    BY <2>2, ApplyType DEF Carries
  <2>4. /\ ordered' = ordered
        /\ \A o \in Orders : order'[o] = IF o \in DOMAIN c.order THEN c.order[o] ELSE order[o]
        /\ \A i \in Items : received'[i] =
             IF i \in DOMAIN c.received THEN c.received[i] ELSE received[i]
    BY <2>2 DEF Apply, Set, TypeOK
  <2>5. kept
    BY <1>0, <2>2, <2>4 DEF Carries
  <2>6. bought'
    <3> SUFFICES ASSUME NEW i \in Items
                 PROVE  /\ received'[i] <= ordered'[i]
                        /\ order'[OrderOf[i]] = "none" => received'[i] = 0
      OBVIOUS
    <3>1. CASE i \in DOMAIN c.received
      BY <2>2, <2>4, <2>5, <3>1 DEF Carries
    <3>2. CASE i \notin DOMAIN c.received
      BY <1>0, <2>4, <2>5, <3>2
    <3> QED BY <3>1, <3>2
  <2>7. Carries(NoChange)'
    BY <1>1, <2>5, NoChangeCarries
  <2> QED BY <1>0, <1>2, <2>2, <2>3, <2>5, <2>6, <2>7
<1>7. ASSUME req' = req, Insert \/ UNCHANGED stock PROVE TypeOK' /\ RacesSound'
  <2>1. TypeOK' /\ bought' /\ kept
    <3>1. CASE UNCHANGED stock
      BY <1>3, <3>1 DEF stock
    <3>2. ASSUME NEW p \in Parts, NEW place \in Places, NEW q \in Needs,
                 AddMemo(p, place, q)
          PROVE  TypeOK' /\ bought' /\ kept
      BY <1>0, <3>2, InsertType, StockAssumption DEF AddMemo
    <3>3. ASSUME NEW o \in Orders, NEW quantity \in [ItemsOf(o) -> Lots],
                 PlaceOrder(o, quantity)
          PROVE  TypeOK' /\ bought' /\ kept
      <4>1. /\ order[o] = "none" /\ received' = received
            /\ \A x \in Orders : order'[x] = IF x = o THEN "draft" ELSE order[x]
            /\ \A i \in Items : OrderOf[i] # o => ordered'[i] = ordered[i]
        BY <3>3 DEF PlaceOrder, Set, ItemsOf, TypeOK
      <4>2. TypeOK'
        BY <3>3, InsertType, StockAssumption
      <4>3. \A i \in Items : ordered'[i] \in Nat
        BY <4>2 DEF TypeOK
      <4> QED BY <1>0, <4>1, <4>2, <4>3
    <3> QED BY <1>7, <3>1, <3>2, <3>3 DEF Insert
  <2>2. Carries(NoChange)'
    BY <1>1, <2>1, NoChangeCarries
  <2> QED BY <1>0, <1>2, <1>7, <2>1, <2>2
<1>8. CASE UNCHANGED vars
  BY <1>7, <1>8 DEF vars
<1> QED BY <1>4, <1>5, <1>6, <1>7, <1>8, RNextShape

\* Calls that race lose updates of the stock (StockRace), but they never leave a
\* column without its type, and never receive more than was ordered: quantities
\* ordered do not change, so the check a receipt made when it read still holds
\* when it commits.
THEOREM RacesNeverOverReceive == RSpec => [](TypeOK /\ NotOverReceived)
<1>1. RInit => TypeOK /\ RacesSound
  <2>1. RInit => TypeOK
    BY InitType, StockAssumption DEF RInit
  <2>2. RInit => RacesSound
    BY NoChangeCarries DEF RInit, Init, RacesSound
  <2> QED BY <2>1, <2>2
<1>2. TypeOK /\ RacesSound /\ [RNext]_vars => (TypeOK /\ RacesSound)'
  BY RNextRaces
<1>3. RacesSound => NotOverReceived
  BY DEF RacesSound, NotOverReceived
<1> QED BY <1>1, <1>2, <1>3, PTL DEF RSpec
==============================================================================
