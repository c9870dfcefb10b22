--------------------------- MODULE ExecutorProofs ---------------------------
(***************************************************************************)
(* For every value of Executor's constants: the type invariant, and that   *)
(* the fills, the bracket legs and their sizes of every order stay sound   *)
(* (OcoSound), whatever the interleaving of the two tasks and the venue.   *)
(*                                                                         *)
(* An order's record changes only through the helpers of Executor          *)
(* (ApplyFill, ArmBracketOrders, TriggerLeg, ...), so the argument has two *)
(* layers: each helper turns a good record into a good record, and each    *)
(* action applies one helper to one record.                                *)
(***************************************************************************)
EXTENDS Executor, TLAPS, SequenceTheorems

\* What is invariant of one order record.
GoodOrder(o) == o \in OrderRec /\ FillsAgree(o) /\ OneExit(o) /\ ExitWithinPosition(o)

USE DEF Legs, OpenStatuses, FINAL_ORDER_STATUSES, BracketStates

\* Nothing can be said against an order that does not exist.
LEMMA NoOrderGood == GoodOrder(NoOrder)
BY DEF GoodOrder, NoOrder, OrderRec, FillsAgree, OneExit, ExitWithinPosition, HasLegs, BracketStates

\* A new order has bought nothing and has no legs.
LEMMA NewOrderGood ==
  ASSUME NEW kind \in {"entry", "exit"}, NEW key \in Keys \cup {NoKey}, NEW size \in Nat
  PROVE  /\ GoodOrder(NewOrder(kind, key, size))
         /\ NewOrder(kind, key, size).kind = kind
         /\ NewOrder(kind, key, size).filled = 0
         /\ NewOrder(kind, key, size).size = size
<1> DEFINE o == NewOrder(kind, key, size)
<1>1. NoOrder \in OrderRec
  BY NoOrderGood DEF GoodOrder
<1>2. o \in OrderRec
  BY <1>1 DEF NewOrder, OrderRec
<1>3. /\ o.kind = kind /\ o.filled = NoOrder.filled /\ o.size = size /\ o.status = "placed"
      /\ o.leg = NoOrder.leg
  BY <1>1 DEF NewOrder, OrderRec
<1>4. NoOrder.filled = 0 /\ NoOrder.leg = [l \in Legs |-> "none"]
  BY DEF NoOrder
<1>5. FillsAgree(o) /\ OneExit(o) /\ ExitWithinPosition(o)
  BY <1>3, <1>4 DEF FillsAgree, OneExit, ExitWithinPosition, HasLegs
<1> QED
  BY <1>2, <1>3, <1>4, <1>5 DEF GoodOrder

\* A fill is clipped to what remains, and only ever adds.
LEMMA ApplyFillGood ==
  ASSUME NEW o, GoodOrder(o), NEW a \in Int
  PROVE  /\ GoodOrder(ApplyFill(o, a))
         /\ ApplyFill(o, a).filled >= o.filled
         /\ ApplyFill(o, a).kind = o.kind
         /\ ApplyFill(o, a).size = o.size
         /\ ApplyFill(o, a).leg = o.leg
         /\ ApplyFill(o, a).legSize = o.legSize
         /\ ApplyFill(o, a).filled = o.filled => ApplyFill(o, a) = o
<1> DEFINE f == Least(a, o.size - o.filled)
           n == [o EXCEPT !.filled = o.filled + f,
                          !.status = IF o.filled + f = o.size THEN "filled" ELSE "partially_filled"]
<1>1. /\ o \in OrderRec /\ o.filled \in Nat /\ o.size \in Nat /\ o.filled <= o.size
      /\ f \in Int /\ f <= o.size - o.filled
  BY DEF GoodOrder, OrderRec, FillsAgree, Least
<1>2. CASE f <= 0
  <2>1. ApplyFill(o, a) = o
    BY <1>2 DEF ApplyFill
  <2> QED
    BY <2>1, <1>1
<1>3. CASE f > 0
  <2>1. ApplyFill(o, a) = n
    BY <1>3, <1>1 DEF ApplyFill
  <2> HIDE DEF f
  <2>2. n \in OrderRec
    <3>1. /\ o.filled + f \in Nat
          /\ (IF o.filled + f = o.size THEN "filled" ELSE "partially_filled") \in OpenStatuses \cup FINAL_ORDER_STATUSES
      BY <1>1, <1>3
    <3> QED
      BY <1>1, <3>1 DEF OrderRec
  <2>3. /\ n.filled = o.filled + f /\ n.size = o.size /\ n.kind = o.kind
        /\ n.leg = o.leg /\ n.legSize = o.legSize
        /\ n.status = IF o.filled + f = o.size THEN "filled" ELSE "partially_filled"
    BY <1>1 DEF OrderRec
  <2> HIDE DEF n
  <2>4. FillsAgree(n) /\ OneExit(n) /\ ExitWithinPosition(n)
    <3>1. o.legSize \in [Legs -> Nat]
      BY <1>1 DEF OrderRec
    <3> QED
      BY <1>1, <1>3, <2>3, <3>1 DEF GoodOrder, FillsAgree, OneExit, ExitWithinPosition, HasLegs
  <2> QED
    BY <1>1, <1>3, <2>1, <2>2, <2>3, <2>4 DEF GoodOrder
<1> QED
  BY <1>1, <1>2, <1>3

\* Arming a bracket behind a fill.
LEMMA ArmGood ==
  ASSUME NEW o, GoodOrder(o), o.filled > 0
  PROVE  /\ GoodOrder(ArmBracketOrders(o))
         /\ ArmBracketOrders(o).filled = o.filled
         /\ ArmBracketOrders(o).kind = o.kind
         /\ \A l \in Legs : LegSold(ArmBracketOrders(o), l) = LegSold(o, l)
<1> DEFINE n == ArmBracketOrders(o)
<1>1. /\ o \in OrderRec /\ o.filled \in Nat /\ o.leg \in [Legs -> {"none", "armed"} \cup FINAL_ORDER_STATUSES]
      /\ o.legSize \in [Legs -> Nat] /\ ActiveSize(o) = o.filled
  BY DEF GoodOrder, OrderRec, ActiveSize
<1>2. CASE o.kind # "entry"
  BY <1>2 DEF ArmBracketOrders
<1>3. CASE o.kind = "entry" /\ HasLegs(o)
  <2>1. n = [o EXCEPT !.bracket = "armed",
                      !.legSize = [l \in Legs |-> IF o.leg[l] = "armed" THEN o.filled ELSE o.legSize[l]]]
    BY <1>1, <1>3 DEF ArmBracketOrders, SyncChildSizes, ActiveSize, OrderRec
  <2>2. n \in OrderRec
    <3>1. [l \in Legs |-> IF o.leg[l] = "armed" THEN o.filled ELSE o.legSize[l]] \in [Legs -> Nat]
      BY <1>1
    <3> HIDE DEF n
    <3> QED
      BY <1>1, <2>1, <3>1 DEF OrderRec
  <2>3. /\ n.filled = o.filled /\ n.size = o.size /\ n.kind = o.kind /\ n.leg = o.leg /\ n.status = o.status
        /\ n.legSize = [l \in Legs |-> IF o.leg[l] = "armed" THEN o.filled ELSE o.legSize[l]]
    BY <1>1, <2>1 DEF OrderRec
  <2> HIDE DEF n
  <2>4. FillsAgree(n) /\ OneExit(n) /\ ExitWithinPosition(n)
    BY <1>1, <2>3 DEF GoodOrder, FillsAgree, OneExit, ExitWithinPosition, HasLegs
  <2>5. \A l \in Legs : LegSold(n, l) = LegSold(o, l)
    BY <1>1, <2>3 DEF LegSold
  <2> QED
    BY <2>2, <2>3, <2>4, <2>5 DEF GoodOrder, n
<1>4. CASE o.kind = "entry" /\ ~HasLegs(o)
  <2>1. n = [o EXCEPT !.bracket = "armed", !.leg = [l \in Legs |-> "armed"],
                      !.legSize = [l \in Legs |-> o.filled]]
    BY <1>1, <1>4 DEF ArmBracketOrders
  <2>2. n \in OrderRec
    <3>1. /\ [l \in Legs |-> "armed"] \in [Legs -> {"none", "armed"} \cup FINAL_ORDER_STATUSES]
          /\ [l \in Legs |-> o.filled] \in [Legs -> Nat]
      BY <1>1
    <3> HIDE DEF n
    <3> QED
      BY <1>1, <2>1, <3>1 DEF OrderRec
  <2>3. /\ n.filled = o.filled /\ n.size = o.size /\ n.kind = o.kind /\ n.status = o.status
        /\ n.leg = [l \in Legs |-> "armed"] /\ n.legSize = [l \in Legs |-> o.filled]
    BY <1>1, <2>1 DEF OrderRec
  <2> HIDE DEF n
  <2>4. FillsAgree(n) /\ OneExit(n) /\ ExitWithinPosition(n)
    BY <1>1, <1>4, <2>3 DEF GoodOrder, FillsAgree, OneExit, ExitWithinPosition, HasLegs
  <2>5. \A l \in Legs : LegSold(n, l) = LegSold(o, l)
    BY <1>1, <1>4, <2>3 DEF LegSold, GoodOrder, FillsAgree
  <2> QED
    BY <2>2, <2>3, <2>4, <2>5 DEF GoodOrder, n
<1> QED
  BY <1>2, <1>3, <1>4

\* An order keeps its promises when it ends, or legs it has end, and what it bought and what
\* its legs are to sell stay as they were.
LEMMA LegsEndGood ==
  ASSUME NEW o, GoodOrder(o), NEW n \in OrderRec, OneExit(n),
         n.kind = o.kind, n.size = o.size, n.filled = o.filled, n.legSize = o.legSize,
         n.status = o.status \/ n.status \in {"cancelled", "expired"},
         \A l \in Legs : n.leg[l] = "none" <=> o.leg[l] = "none"
  PROVE  GoodOrder(n)
<1>1. HasLegs(n) <=> HasLegs(o)
  BY DEF HasLegs
<1>2. FillsAgree(n)
  BY <1>1 DEF GoodOrder, FillsAgree
<1>3. ExitWithinPosition(n)
  BY <1>1 DEF GoodOrder, ExitWithinPosition
<1> QED
  BY <1>2, <1>3 DEF GoodOrder

\* So it does when the legs stay as they are too.
LEMMA RootEndsGood ==
  ASSUME NEW o, GoodOrder(o), NEW n \in OrderRec,
         n.kind = o.kind, n.size = o.size, n.filled = o.filled, n.legSize = o.legSize,
         n.status = o.status \/ n.status \in {"cancelled", "expired"}, n.leg = o.leg
  PROVE  GoodOrder(n)
<1>1. OneExit(n)
  BY DEF GoodOrder, OneExit
<1> QED
  BY <1>1, LegsEndGood

\* A trigger fills one armed leg and takes the other out.
LEMMA TriggerLegGood ==
  ASSUME NEW o, GoodOrder(o), NEW l \in Legs, o.leg[l] = "armed"
  PROVE  GoodOrder(TriggerLeg(o, l))
<1> DEFINE n == TriggerLeg(o, l)
           f == [k \in Legs |-> IF k = l THEN "filled" ELSE IF o.leg[k] = "armed" THEN "cancelled" ELSE o.leg[k]]
<1>1. o \in OrderRec /\ o.leg \in [Legs -> {"none", "armed"} \cup FINAL_ORDER_STATUSES]
  BY DEF GoodOrder, OrderRec
<1>2. f \in [Legs -> {"none", "armed"} \cup FINAL_ORDER_STATUSES] /\ f[l] = "filled"
  BY <1>1
<1>3. \A k \in Legs : f[k] = "none" <=> o.leg[k] = "none"
  OBVIOUS
<1>4. \A k \in Legs : k # l => f[k] \in {"cancelled", "expired"}
  <2> SUFFICES ASSUME NEW k \in Legs, k # l PROVE f[k] \in {"cancelled", "expired"}
    OBVIOUS
  <2>1. o.leg[k] # "none" /\ o.leg[k] # "filled"
    BY DEF GoodOrder, FillsAgree, OneExit
  <2> QED
    BY <1>1, <2>1
<1>5. n = [o EXCEPT !.bracket = "closed", !.leg = f]
  BY DEF TriggerLeg
<1> HIDE DEF f, n
<1>6. /\ n \in OrderRec /\ n.kind = o.kind /\ n.size = o.size /\ n.filled = o.filled
      /\ n.legSize = o.legSize /\ n.status = o.status /\ n.leg = f
  BY <1>1, <1>2, <1>5 DEF OrderRec
<1>7. OneExit(n)
  BY <1>4, <1>6 DEF OneExit
<1>8. GoodOrder(n)
  BY <1>3, <1>6, <1>7, LegsEndGood
<1> QED
  BY <1>8 DEF n

\* An armed leg that ends without a fill.
LEMMA LegEndsGood ==
  ASSUME NEW o, GoodOrder(o), NEW l \in Legs, o.leg[l] = "armed", NEW x \in {"cancelled", "expired"},
         NEW n, \/ n = [o EXCEPT !.bracket = "expired", !.leg[l] = x]
                \/ n = [o EXCEPT !.leg[l] = x]
  PROVE  GoodOrder(n)
<1> DEFINE f == [o.leg EXCEPT ![l] = x]
<1>1. o \in OrderRec /\ o.leg \in [Legs -> {"none", "armed"} \cup FINAL_ORDER_STATUSES]
  BY DEF GoodOrder, OrderRec
<1>2. /\ f \in [Legs -> {"none", "armed"} \cup FINAL_ORDER_STATUSES]
      /\ \A k \in Legs : f[k] = IF k = l THEN x ELSE o.leg[k]
  BY <1>1
<1>3. n = [o EXCEPT !.bracket = "expired", !.leg = f] \/ n = [o EXCEPT !.leg = f]
  BY <1>1
<1> HIDE DEF f
<1>4. /\ n \in OrderRec /\ n.kind = o.kind /\ n.size = o.size /\ n.filled = o.filled
      /\ n.legSize = o.legSize /\ n.status = o.status /\ n.leg = f
  <2>1. CASE n = [o EXCEPT !.bracket = "expired", !.leg = f]
    BY <1>1, <1>2, <2>1 DEF OrderRec
  <2>2. CASE n = [o EXCEPT !.leg = f]
    BY <1>1, <1>2, <2>2 DEF OrderRec
  <2> QED
    BY <1>3, <2>1, <2>2
<1>5. OneExit(n)
  <2>1. OneExit(o)
    BY DEF GoodOrder
  <2> QED
    BY <1>2, <1>4, <2>1 DEF OneExit
<1>6. \A k \in Legs : f[k] = "none" <=> o.leg[k] = "none"
  BY <1>2
<1> QED
  BY <1>4, <1>5, <1>6, LegsEndGood

\* An armed leg that expires or is cancelled.
LEMMA EndLegGood ==
  ASSUME NEW o, GoodOrder(o), NEW l \in Legs, o.leg[l] = "armed"
  PROVE  /\ GoodOrder(ExpireLeg(o, l))
         /\ GoodOrder(ExpireLegOnly(o, l))
         /\ GoodOrder(CancelLeg(o, l))
<1>1. ExpireLeg(o, l) = [o EXCEPT !.bracket = "expired", !.leg[l] = "expired"]
  BY DEF ExpireLeg
<1>2. ExpireLegOnly(o, l) = [o EXCEPT !.leg[l] = "expired"] /\ CancelLeg(o, l) = [o EXCEPT !.leg[l] = "cancelled"]
  BY DEF ExpireLegOnly, CancelLeg
<1> QED
  BY <1>1, <1>2, LegEndsGood

\* A root that is cancelled or expires, with its armed legs or without them.
LEMMA EndRootGood ==
  ASSUME NEW o, GoodOrder(o)
  PROVE  /\ GoodOrder(CancelLocal(o))
         /\ GoodOrder(CancelLive(o))
         /\ GoodOrder([o EXCEPT !.status = "cancelled"])
         /\ GoodOrder([o EXCEPT !.status = "expired"])
<1>1. o \in OrderRec /\ o.leg \in [Legs -> {"none", "armed"} \cup FINAL_ORDER_STATUSES]
  BY DEF GoodOrder, OrderRec
<1>2. GoodOrder(CancelLive(o))
  <2> DEFINE n == CancelLive(o)
  <2>1. /\ n \in OrderRec /\ n.kind = o.kind /\ n.size = o.size /\ n.filled = o.filled
        /\ n.legSize = o.legSize /\ n.status = "cancelled" /\ n.leg = o.leg
    BY <1>1 DEF CancelLive, OrderRec
  <2> HIDE DEF n
  <2>2. GoodOrder(n)
    BY <2>1, RootEndsGood
  <2> QED
    BY <2>2 DEF n
<1>3. ASSUME NEW x \in {"cancelled", "expired"} PROVE GoodOrder([o EXCEPT !.status = x])
  <2> DEFINE n == [o EXCEPT !.status = x]
  <2>1. /\ n \in OrderRec /\ n.kind = o.kind /\ n.size = o.size /\ n.filled = o.filled
        /\ n.legSize = o.legSize /\ n.status = x /\ n.leg = o.leg
    BY <1>1 DEF OrderRec
  <2> HIDE DEF n
  <2>2. GoodOrder(n)
    BY <2>1, RootEndsGood
  <2> QED
    BY <2>2 DEF n
<1>4. GoodOrder(CancelLocal(o))
  <2>1. CASE o.kind # "entry"
    BY <1>3, <2>1 DEF CancelLocal
  <2>2. CASE o.kind = "entry"
    <3> DEFINE n == CancelLocal(o)
               f == [l \in Legs |-> IF o.leg[l] = "armed" THEN "cancelled" ELSE o.leg[l]]
    <3>1. f \in [Legs -> {"none", "armed"} \cup FINAL_ORDER_STATUSES]
      BY <1>1
    <3>2. \A l \in Legs : f[l] = IF o.leg[l] = "armed" THEN "cancelled" ELSE o.leg[l]
      OBVIOUS
    <3>3. n = [o EXCEPT !.status = "cancelled", !.bracket = "cancelled", !.leg = f]
      BY <2>2 DEF CancelLocal
    <3> HIDE DEF f, n
    <3>4. /\ n \in OrderRec /\ n.kind = o.kind /\ n.size = o.size /\ n.filled = o.filled
          /\ n.legSize = o.legSize /\ n.status = "cancelled" /\ n.leg = f
      BY <1>1, <3>1, <3>3 DEF OrderRec
    <3>5. OneExit(n)
      <4>1. OneExit(o)
        BY DEF GoodOrder
      <4> QED
        BY <3>2, <3>4, <4>1 DEF OneExit
    <3>6. \A l \in Legs : f[l] = "none" <=> o.leg[l] = "none"
      BY <3>2
    <3>7. GoodOrder(n)
      BY <3>4, <3>5, <3>6, LegsEndGood
    <3> QED
      BY <3>7 DEF n
  <2> QED
    BY <2>1, <2>2
<1> QED
  BY <1>2, <1>3, <1>4

\* The exchange ids, the age and the GTT flag touch no fill and no leg.
LEMMA MarkGood ==
  ASSUME NEW o, GoodOrder(o), NEW got \in SUBSET Chunks
  PROVE  /\ GoodOrder(WithIds(o, got))
         /\ GoodOrder([o EXCEPT !.aged = TRUE])
         /\ GoodOrder([o EXCEPT !.due = TRUE])
<1>1. o \in OrderRec
  BY DEF GoodOrder
<1>2. GoodOrder(WithIds(o, got))
  <2> DEFINE b == IF EnableBrackets /\ o.kind = "entry" THEN "pending_fill" ELSE o.bracket
             n == [o EXCEPT !.eids = got, !.bracket = b]
  <2>1. b \in BracketStates /\ WithIds(o, got) = n
    BY <1>1 DEF WithIds, OrderRec
  <2> HIDE DEF b
  <2>2. /\ n \in OrderRec /\ n.kind = o.kind /\ n.size = o.size /\ n.filled = o.filled
        /\ n.legSize = o.legSize /\ n.status = o.status /\ n.leg = o.leg
    BY <1>1, <2>1 DEF OrderRec
  <2> HIDE DEF n
  <2> QED
    BY <2>1, <2>2, RootEndsGood
<1>3. GoodOrder([o EXCEPT !.aged = TRUE])
  <2> DEFINE n == [o EXCEPT !.aged = TRUE]
  <2>1. /\ n \in OrderRec /\ n.kind = o.kind /\ n.size = o.size /\ n.filled = o.filled
        /\ n.legSize = o.legSize /\ n.status = o.status /\ n.leg = o.leg
    BY <1>1 DEF OrderRec
  <2> HIDE DEF n
  <2>2. GoodOrder(n)
    BY <2>1, RootEndsGood
  <2> QED
    BY <2>2 DEF n
<1>4. GoodOrder([o EXCEPT !.due = TRUE])
  <2> DEFINE n == [o EXCEPT !.due = TRUE]
  <2>1. /\ n \in OrderRec /\ n.kind = o.kind /\ n.size = o.size /\ n.filled = o.filled
        /\ n.legSize = o.legSize /\ n.status = o.status /\ n.leg = o.leg
    BY <1>1 DEF OrderRec
  <2> HIDE DEF n
  <2>2. GoodOrder(n)
    BY <2>1, RootEndsGood
  <2> QED
    BY <2>2 DEF n
<1> QED
  BY <1>2, <1>3, <1>4

\* Arming what a fill left without legs.
LEMMA ArmIfMissingGood ==
  ASSUME NEW o, GoodOrder(o)
  PROVE  GoodOrder(ArmIfMissing(o))
BY ArmGood DEF ArmIfMissing

\* A paper fill changes the status only by filling something.
LEMMA PaperFillGood ==
  ASSUME NEW o, GoodOrder(o), PartialDivisor \in Nat \ {0}
  PROVE  GoodOrder(PaperFill(o))
<1> DEFINE a == Least(o.size - o.filled, o.size \div PartialDivisor)
           f == ApplyFill(o, a)
<1>1. o.size \in Nat /\ o.filled \in Nat
  BY DEF GoodOrder, OrderRec
<1>2. a \in Int
  BY <1>1 DEF Least
<1>3. GoodOrder(f) /\ (f.status # o.status => f.filled > 0)
  <2>1. GoodOrder(f) /\ f.filled >= o.filled /\ (f.filled = o.filled => f = o)
    BY <1>2, ApplyFillGood
  <2>2. f.filled \in Nat
    BY <2>1 DEF GoodOrder, OrderRec
  <2> QED
    BY <1>1, <2>1, <2>2
<1>4. PaperFill(o) = IF f.status # o.status /\ EnableBrackets THEN ArmBracketOrders(f) ELSE f
  BY DEF PaperFill
<1> HIDE DEF f
<1> QED
  BY <1>3, <1>4, ArmGood

\* The rows of the venue, whatever they say.
LEMMA ApplyRowsGood ==
  ASSUME NEW o, GoodOrder(o), NEW seen, NEW sum \in Nat
  PROVE  GoodOrder(ApplyRows(o, seen, sum))
<1> DEFINE f == ApplyFill(o, sum - o.filled)
           e == IF f.status \in {"filled", "partially_filled"} THEN f
                ELSE IF "cancelled" \in seen THEN [f EXCEPT !.status = "cancelled"]
                ELSE IF "expired" \in seen THEN [f EXCEPT !.status = "expired"] ELSE f
<1>1. GoodOrder(f)
  <2>1. o.filled \in Nat
    BY DEF GoodOrder, OrderRec
  <2> QED
    BY <2>1, ApplyFillGood
<1>2. ApplyRows(o, seen, sum) =
        IF seen = {} THEN o ELSE IF e.filled > 0 /\ EnableBrackets THEN ArmBracketOrders(e) ELSE e
  BY DEF ApplyRows
<1> HIDE DEF f
<1>3. GoodOrder(e)
  BY <1>1, EndRootGood
<1> HIDE DEF e
<1> QED
  BY <1>2, <1>3, ArmGood

-----------------------------------------------------------------------------
(* The inductive invariant: good orders, calls that know what they work    *)
(* on, and a typed outside.                                                *)

OrdersGood ==
  /\ ord \in [Roots -> OrderRec]
  /\ orders \in Seq(Ids)
  /\ \A r \in Roots : GoodOrder(ord[r])

\* A call that awaits works on a root, and on a chunk of it inside its count.
CallSound(s) ==
  /\ s.pc \notin {"idle", "run"} => s.root \in Roots
  /\ s.pc \in {"posting", "cancelling", "fetching", "pause"} => s.chunk \in Chunks
  /\ s.pc = "pause" => s.chunk < s.n
  /\ s.pc \in {"cancelling", "fetching"} => s.todo # <<>>

CallsGood ==
  /\ task \in [Tasks -> TaskRec]
  /\ \A t \in Tasks : CallSound(task[t])
  /\ lock \in Tasks \cup {Free}
  /\ loop \in Tasks \cup {Free}

OutsideGood ==
  /\ used \in SUBSET Roots
  /\ recent \in SUBSET Keys
  /\ venue \in [Roots \X Chunks -> VenueRec]
  /\ vcancel \in SUBSET (Roots \X Chunks)
  /\ intents \in SUBSET [root: Roots, key: Keys, fresh: BOOLEAN]
  /\ killed \in BOOLEAN
  /\ proc \in {"up", "stopping", "closing", "down"}
  /\ mishap \in SUBSET Roots

IInv == OrdersGood /\ CallsGood /\ OutsideGood

\* The invariant of the calls and orders contains the two properties proved here.
LEMMA IInvImplies == IInv => TypeOK /\ OcoSound
BY DEF IInv, OrdersGood, CallsGood, OutsideGood, GoodOrder, TypeOK, OcoSound

\* What the awaits of a call leave alone: the orders stay good.
LEMMA OrdersUnchanged == OrdersGood /\ UNCHANGED <<ord, orders>> => OrdersGood'
BY DEF OrdersGood

\* What the venue and the clock leave alone: the calls stay sound.
LEMMA CallsUnchanged == CallsGood /\ UNCHANGED <<task, lock, loop>> => CallsGood'
BY DEF CallsGood

\* What the synchronous stretches leave alone: venue, requests, intents, switch.
LEMMA OutsideUnchanged ==
  OutsideGood /\ UNCHANGED <<used, recent, outside, mishap>> => OutsideGood'
BY DEF OutsideGood, outside

\* Putting a good record in place keeps the orders good.
LEMMA SetOrderGood ==
  ASSUME OrdersGood, NEW r \in Roots, NEW o, GoodOrder(o), SetOrder(r, o)
  PROVE  OrdersGood'
<1>1. ord' \in [Roots -> OrderRec] /\ \A q \in Roots : GoodOrder(ord'[q])
  BY DEF OrdersGood, SetOrder, GoodOrder
<1>2. NewIds(r, ord[r], o) \in Seq(Ids)
  <2> DEFINE first == IF ord[r].status = "none" THEN << <<r, "root">> >> ELSE <<>>
             children == IF HasLegs(o) /\ ~HasLegs(ord[r])
                         THEN << <<r, "take_profit">>, <<r, "stop_loss">> >> ELSE <<>>
  <2>1. <<r, "root">> \in Ids /\ <<r, "take_profit">> \in Ids /\ <<r, "stop_loss">> \in Ids
    BY DEF Ids, Slots, Legs
  <2>2. first \in Seq(Ids)
    BY <2>1
  <2>3. children \in Seq(Ids)
    BY <2>1
  <2>4. NewIds(r, ord[r], o) = first \o children
    BY DEF NewIds
  <2> HIDE DEF first, children
  <2> QED
    BY <2>2, <2>3, <2>4, ConcatProperties
<1>3. orders' \in Seq(Ids)
  BY <1>2, ConcatProperties DEF OrdersGood, SetOrder
<1> QED
  BY <1>1, <1>3 DEF OrdersGood

\* A call that moves on (await, return) keeps the calls good if its new state is.
LEMMA SetTaskGood ==
  ASSUME CallsGood, NEW t \in Tasks, NEW s \in TaskRec, CallSound(s), SetTask(t, s),
         lock' \in Tasks \cup {Free}, loop' \in Tasks \cup {Free}
  PROVE  CallsGood'
BY DEF CallsGood, SetTask

\* A coroutine that is not running holds nothing.
LEMMA IdleTaskGood == MaxChunks \in Nat \ {0} => IdleTask \in TaskRec /\ CallSound(IdleTask)
BY DEF IdleTask, TaskRec, PCs, Ops, CallSound, VenueStates, Chunks

\* A call that returns gives back the lock and the loop, and nothing else changes.
LEMMA ReturnGood ==
  ASSUME CallsGood, NEW t \in Tasks, Return(t), MaxChunks \in Nat \ {0}
  PROVE  CallsGood'
BY IdleTaskGood, SetTaskGood DEF Return, CallsGood

\* The next element of a snapshot: the rest of a list of ids is a list of ids.
LEMMA ContinueGood ==
  ASSUME CallsGood, NEW t \in Tasks, Continue(t), task[t].todo # <<>>, UNCHANGED lock, MaxChunks \in Nat \ {0}
  PROVE  CallsGood'
<1> DEFINE s == [task[t] EXCEPT !.pc = "run", !.todo = Tail(@), !.root = NoRoot,
                                !.left = {}, !.chunk = 0, !.seen = {}, !.sum = 0]
<1>1. task[t] \in TaskRec /\ Tail(task[t].todo) \in Seq(Ids)
  <2>1. task[t] \in TaskRec /\ task[t].todo \in Seq(Ids)
    BY DEF CallsGood, TaskRec
  <2> QED
    BY <2>1
<1>2. s \in TaskRec
  <2>1. "run" \in PCs /\ {} \in SUBSET Chunks /\ {} \in SUBSET VenueStates /\ 0 \in 0..MaxChunks
    BY DEF PCs
  <2> QED
    BY <1>1, <2>1 DEF TaskRec
<1>3. s.pc = "run"
  BY <1>1 DEF TaskRec
<1>4. CallSound(s)
  BY <1>3 DEF CallSound
<1> QED
  BY <1>2, <1>4, SetTaskGood DEF Continue, CallsGood

\* A loop that takes its snapshot of self.orders visits ids only.
LEMMA ScanGood ==
  ASSUME CallsGood, NEW t \in Tasks, NEW op \in Ops, NEW snapshot \in Seq(Ids),
         NEW books \in SUBSET Keys, Scan(t, op, snapshot, books),
         lock' \in Tasks \cup {Free}, MaxChunks \in Nat \ {0}
  PROVE  CallsGood'
<1> DEFINE s == [IdleTask EXCEPT !.pc = "run", !.op = op, !.todo = snapshot, !.books = books]
<1>1. IdleTask \in TaskRec
  BY IdleTaskGood
<1>2. s \in TaskRec
  BY <1>1 DEF TaskRec, PCs
<1>3. s.pc = "run"
  BY <1>1 DEF TaskRec
<1>4. CallSound(s)
  BY <1>3 DEF CallSound
<1> QED
  BY <1>2, <1>4, SetTaskGood DEF Scan

\* The head of a snapshot is an id.
LEMMA VisitedGood ==
  ASSUME CallsGood, NEW t \in Tasks, task[t].todo # <<>>
  PROVE  Visited(t) \in Ids
<1>1. task[t].todo \in Seq(Ids)
  BY DEF CallsGood, TaskRec
<1> QED
  BY <1>1 DEF Visited

\* The settings and bounds in the forms the steps below use.
LEMMA Constants ==
  /\ MaxChunks \in Nat \ {0} /\ ChunkTarget \in Nat \ {0} /\ SplitAbove \in Nat
  /\ PartialDivisor \in Nat \ {0} /\ Sizes \subseteq Nat \ {0}
BY ExecutorAssumption

\* _submit_with_retries splits an order into at least one and at most 15 orders.
LEMMA ChunkCount ==
  ASSUME NEW size \in Sizes
  PROVE  size \in Nat \ {0} /\ NChunks(size) \in 1..MaxChunks
<1>1. size \in Nat \ {0} /\ MaxChunks \in Nat \ {0} /\ ChunkTarget \in Nat \ {0} /\ SplitAbove \in Nat
  BY Constants
<1>2. size + ChunkTarget - 1 >= ChunkTarget /\ size + ChunkTarget - 1 \in Nat
  BY <1>1
<1>3. CeilDiv(size, ChunkTarget) \in Nat \ {0}
  BY <1>1, <1>2 DEF CeilDiv
<1> QED
  BY <1>1, <1>3 DEF NChunks, Least

\* A chunk goes out: a typed row for the venue, and a call that waits for it.
LEMMA SendGood ==
  ASSUME OrdersGood, CallsGood, OutsideGood, NEW t \in Tasks, NEW c \in Chunks,
         task[t].root \in Roots, Send(t, c), UNCHANGED <<used, recent, lock, loop, mishap>>
  PROVE  CallsGood' /\ OutsideGood'
<1> DEFINE s == [task[t] EXCEPT !.pc = "posting", !.chunk = c]
           row == [st |-> "sent", filled |-> 0, size |-> ord[task[t].root].size \div task[t].n]
<1>1. task[t] \in TaskRec /\ task[t].n \in Nat \ {0} /\ ord[task[t].root].size \in Nat
  <2>1. task[t] \in TaskRec /\ ord[task[t].root] \in OrderRec
    BY DEF OrdersGood, CallsGood
  <2>2. MaxChunks \in Nat
    BY Constants
  <2>3. task[t].n \in 1..MaxChunks
    BY <2>1 DEF TaskRec
  <2>4. ord[task[t].root].size \in Nat
    BY <2>1 DEF OrderRec
  <2> QED
    BY <2>1, <2>2, <2>3, <2>4
<1>2. row \in VenueRec
  <2>1. ord[task[t].root].size \div task[t].n \in Nat
    BY <1>1
  <2> QED
    BY <2>1 DEF VenueRec, VenueStates
<1>3. venue' \in [Roots \X Chunks -> VenueRec]
  BY <1>2 DEF OutsideGood, Send
<1>4. s \in TaskRec /\ CallSound(s)
  <2>1. "posting" \in PCs /\ c \in 0..MaxChunks /\ c \in Chunks
    BY Constants DEF PCs, Chunks
  <2>2. s \in TaskRec
    BY <1>1, <2>1 DEF TaskRec
  <2>3. s.pc = "posting" /\ s.chunk = c /\ s.root = task[t].root
    BY <1>1 DEF TaskRec
  <2> QED
    BY <2>1, <2>2, <2>3 DEF CallSound
<1> QED
  BY <1>3, <1>4, SetTaskGood DEF Send, OutsideGood, CallsGood

-----------------------------------------------------------------------------
(* Every step keeps the invariant: one step of the proof per action.       *)

\* A new OrderExecutor has no orders and no calls under way.
LEMMA InitGood == Init => IInv
<1> SUFFICES ASSUME Init PROVE IInv
  OBVIOUS
<1>1. MaxChunks \in Nat \ {0}
  BY ExecutorAssumption
<1>2. OrdersGood
  BY NoOrderGood DEF Init, OrdersGood, GoodOrder
<1>3. CallsGood
  BY <1>1, IdleTaskGood DEF Init, CallsGood
<1>4. OutsideGood
  <2>1. NoVenueOrder \in VenueRec
    BY DEF NoVenueOrder, VenueRec, VenueStates
  <2> QED
    BY <2>1 DEF Init, OutsideGood
<1> QED
  BY <1>2, <1>3, <1>4 DEF IInv

\* A new call.
LEMMA CallStep ==
  ASSUME IInv, NEW t \in Tasks, Call(t)
  PROVE  IInv'
<1>1. OrdersGood /\ CallsGood /\ OutsideGood
  BY DEF IInv
<1>2. MaxChunks \in Nat \ {0} /\ IdleTask \in TaskRec
  BY ExecutorAssumption, IdleTaskGood
<1>3. lock \in Tasks \cup {Free} /\ loop \in Tasks \cup {Free} /\ orders \in Seq(Ids)
  BY <1>1 DEF CallsGood, OrdersGood
<1>4. ASSUME NEW r \in Roots, NEW k \in Keys, NEW s \in Sizes, PlacePaper(t, r, k, s) PROVE IInv'
  <2> DEFINE o == NewOrder("entry", k, s)
             f == IF PaperFillOnPlace THEN ApplyFill(o, s) ELSE o
             n == IF PaperFillOnPlace /\ EnableBrackets THEN ArmBracketOrders(f) ELSE f
  <2>1. s \in Nat \ {0}
    BY ChunkCount
  <2>2. GoodOrder(o) /\ o.filled = 0 /\ o.size = s
    BY <2>1, NewOrderGood
  <2>3. GoodOrder(f) /\ (PaperFillOnPlace => f.filled > 0)
    <3>1. ApplyFill(o, s).filled = s
      <4> HIDE DEF o
      <4>1. Least(s, o.size - o.filled) = s /\ o \in OrderRec
        BY <2>1, <2>2 DEF Least, GoodOrder
      <4> QED
        BY <2>1, <2>2, <4>1 DEF ApplyFill, OrderRec
    <3> HIDE DEF o
    <3> QED
      BY <2>1, <2>2, <3>1, ApplyFillGood
  <2>4. GoodOrder(n)
    <3> HIDE DEF f
    <3> QED
      BY <2>3, ArmGood
  <2>5. SetOrder(r, n)
    BY <1>4 DEF PlacePaper
  <2> HIDE DEF n
  <2>6. OrdersGood'
    BY <1>1, <2>4, <2>5, SetOrderGood
  <2>7. CallsGood' /\ OutsideGood'
    BY <1>1, <1>4, CallsUnchanged DEF PlacePaper, OutsideGood, outside
  <2> QED
    BY <2>6, <2>7 DEF IInv
<1>5. ASSUME NEW r \in Roots, NEW k \in Keys, NEW s \in Sizes, PlaceLive(t, r, k, s) PROVE IInv'
  <2> DEFINE x == [IdleTask EXCEPT !.pc = "preflight", !.op = "place", !.root = r, !.n = NChunks(s)]
  <2>1. s \in Nat \ {0} /\ NChunks(s) \in 1..MaxChunks
    BY ChunkCount
  <2>2. OrdersGood'
    <3>1. GoodOrder(NewOrder("entry", k, s))
      BY <2>1, NewOrderGood
    <3> QED
      BY <1>1, <1>5, <3>1, SetOrderGood DEF PlaceLive
  <2>3. x \in TaskRec /\ CallSound(x)
    BY <1>2, <2>1 DEF TaskRec, CallSound, PCs, Ops
  <2>4. SetTask(t, x) /\ lock' = t /\ loop' = loop
    BY <1>5 DEF PlaceLive
  <2> HIDE DEF x
  <2>5. CallsGood'
    BY <1>1, <1>3, <2>3, <2>4, SetTaskGood
  <2>6. OutsideGood'
    <3>1. [root |-> r, key |-> k, fresh |-> TRUE] \in [root: Roots, key: Keys, fresh: BOOLEAN]
      OBVIOUS
    <3> QED
      BY <1>1, <1>5, <3>1 DEF PlaceLive, OutsideGood
  <2> QED
    BY <2>2, <2>5, <2>6 DEF IInv
<1>6. ASSUME NEW r \in Roots, NEW s \in Sizes, CloseCall(t, r, s) PROVE IInv'
  <2> DEFINE o == NewOrder("exit", NoKey, s)
             n == IF Live THEN o ELSE ApplyFill(o, s)
             x == [IdleTask EXCEPT !.pc = "posting", !.op = "close", !.root = r, !.chunk = 1]
             row == [st |-> "sent", filled |-> 0, size |-> s]
  <2>1. s \in Nat \ {0}
    BY ChunkCount
  <2>2. GoodOrder(n)
    <3>1. GoodOrder(o)
      BY <2>1, NewOrderGood
    <3> HIDE DEF o
    <3> QED
      BY <2>1, <3>1, ApplyFillGood
  <2>3. SetOrder(r, n)
    BY <1>6 DEF CloseCall
  <2> HIDE DEF n
  <2>4. OrdersGood'
    BY <1>1, <2>2, <2>3, SetOrderGood
  <2>5. x \in TaskRec /\ CallSound(x)
    <3>1. "posting" \in PCs /\ "close" \in Ops /\ 1 \in 0..MaxChunks /\ 1 \in Chunks
      BY <1>2 DEF PCs, Ops, Chunks
    <3>2. x \in TaskRec
      BY <1>2, <3>1 DEF TaskRec
    <3>3. x.pc = "posting" /\ x.chunk = 1 /\ x.root = r
      BY <1>2 DEF TaskRec
    <3> QED
      BY <3>1, <3>2, <3>3 DEF CallSound
  <2>6. CASE Live
    <3>1. SetTask(t, x) /\ UNCHANGED <<lock, loop>>
      BY <1>6, <2>6 DEF CloseCall
    <3>2. CallsGood'
      <4> HIDE DEF x
      <4> QED
        BY <1>1, <1>3, <2>5, <3>1, SetTaskGood
    <3>3. row \in VenueRec
      BY <2>1 DEF VenueRec, VenueStates
    <3>4. OutsideGood'
      BY <1>1, <1>6, <2>6, <3>3 DEF CloseCall, OutsideGood
    <3> QED
      BY <2>4, <3>2, <3>4 DEF IInv
  <2>7. CASE ~Live
    <3>1. CallsGood' /\ OutsideGood'
      BY <1>1, <1>6, <2>7, CallsUnchanged DEF CloseCall, OutsideGood
    <3> QED
      BY <2>4, <3>1 DEF IInv
  <2> QED
    BY <2>6, <2>7
<1>7. CASE ReconcileCall(t)
  <2>1. PICK books \in SUBSET Keys : Scan(t, "reconcile", orders, books)
    BY <1>7 DEF ReconcileCall
  <2>2. CallsGood'
    BY <1>1, <1>2, <1>3, <1>7, <2>1, ScanGood DEF ReconcileCall, Ops
  <2>3. OrdersGood' /\ OutsideGood'
    BY <1>1, <1>7, OrdersUnchanged, OutsideUnchanged DEF ReconcileCall, memory
  <2> QED
    BY <2>2, <2>3 DEF IInv
<1>8. CASE CancelAllCall(t)
  <2>1. CallsGood'
    BY <1>1, <1>2, <1>3, <1>8, ScanGood DEF CancelAllCall, Ops
  <2>2. OrdersGood' /\ OutsideGood'
    BY <1>1, <1>8, OrdersUnchanged, OutsideUnchanged DEF CancelAllCall, memory
  <2> QED
    BY <2>1, <2>2 DEF IInv
<1>9. CASE CancelExpiredCall(t)
  <2>1. CallsGood'
    BY <1>1, <1>2, <1>3, <1>9, ScanGood DEF CancelExpiredCall, Ops
  <2>2. OrdersGood' /\ OutsideGood'
    BY <1>1, <1>9, OrdersUnchanged, OutsideUnchanged DEF CancelExpiredCall, memory
  <2> QED
    BY <2>1, <2>2 DEF IInv
<1>10. ASSUME NEW r \in Roots, CancelOneCall(t, r) PROVE IInv'
  <2>1. << <<r, "root">> >> \in Seq(Ids)
    BY DEF Ids, Slots
  <2>2. CallsGood'
    <3>1. Scan(t, "cancel_all", << <<r, "root">> >>, {}) /\ lock' = lock
      BY <1>10 DEF CancelOneCall
    <3>2. "cancel_all" \in Ops /\ {} \in SUBSET Keys
      BY DEF Ops
    <3> QED
      BY <1>1, <1>2, <1>3, <2>1, <3>1, <3>2, ScanGood
  <2>3. OrdersGood' /\ OutsideGood'
    BY <1>1, <1>10, OrdersUnchanged, OutsideUnchanged DEF CancelOneCall, memory
  <2> QED
    BY <2>2, <2>3 DEF IInv
<1> QED
  BY <1>4, <1>5, <1>6, <1>7, <1>8, <1>9, <1>10 DEF Call

\* The next step of a call under way: placing orders.
LEMMA PlacingStep ==
  ASSUME IInv, NEW t \in Tasks,
         \/ PreflightOk(t) \/ PreflightFail(t) \/ NextChunk(t) \/ PostFail(t)
         \/ \E named \in BOOLEAN : PostReplyMore(t, named) \/ PostReplyLast(t, named)
  PROVE  IInv'
<1> DEFINE r == task[t].root
           c == task[t].chunk
<1>1. OrdersGood /\ CallsGood /\ OutsideGood
  BY DEF IInv
<1>2. MaxChunks \in Nat \ {0}
  BY Constants
<1>3. task[t] \in TaskRec /\ CallSound(task[t])
  BY <1>1 DEF CallsGood
<1>4. ASSUME task[t].pc \in {"preflight", "posting", "pause"}
      PROVE  r \in Roots /\ GoodOrder(ord[r])
  BY <1>1, <1>3, <1>4 DEF CallSound, OrdersGood
<1>5. CASE PreflightOk(t)
  <2>1. r \in Roots /\ 1 \in Chunks
    BY <1>2, <1>4, <1>5 DEF PreflightOk, At, Chunks
  <2>2. CallsGood' /\ OutsideGood'
    BY <1>1, <1>5, <2>1, SendGood DEF PreflightOk, memory
  <2>3. OrdersGood'
    BY <1>1, <1>5, OrdersUnchanged DEF PreflightOk, memory
  <2> QED
    BY <2>2, <2>3 DEF IInv
<1>6. CASE PreflightFail(t)
  <2>1. r \in Roots /\ GoodOrder([ord[r] EXCEPT !.status = "cancelled"])
    BY <1>4, <1>6, EndRootGood DEF PreflightFail, At
  <2>2. OrdersGood'
    BY <1>1, <1>6, <2>1, SetOrderGood DEF PreflightFail
  <2>3. CallsGood' /\ OutsideGood'
    BY <1>1, <1>2, <1>6, ReturnGood, OutsideUnchanged DEF PreflightFail
  <2> QED
    BY <2>2, <2>3 DEF IInv
<1>7. CASE NextChunk(t)
  <2>1. r \in Roots /\ c + 1 \in Chunks
    <3>1. task[t].pc = "pause"
      BY <1>7 DEF NextChunk, At
    <3>2. c \in Chunks /\ c < task[t].n /\ task[t].n \in 1..MaxChunks
      BY <1>3, <3>1 DEF CallSound, TaskRec
    <3> QED
      BY <1>2, <1>4, <3>1, <3>2 DEF Chunks
  <2>2. CallsGood' /\ OutsideGood'
    BY <1>1, <1>7, <2>1, SendGood DEF NextChunk, memory
  <2>3. OrdersGood'
    BY <1>1, <1>7, OrdersUnchanged DEF NextChunk, memory
  <2> QED
    BY <2>2, <2>3 DEF IInv
<1>8. CASE PostFail(t)
  <2>1. r \in Roots /\ GoodOrder([ord[r] EXCEPT !.status = "cancelled"])
    BY <1>4, <1>8, EndRootGood DEF PostFail, At
  <2>2. OrdersGood'
    BY <1>1, <1>8, <2>1, SetOrderGood DEF PostFail
  <2>3. CallsGood' /\ OutsideGood'
    BY <1>1, <1>2, <1>8, <2>1, ReturnGood DEF PostFail, OutsideGood, outside
  <2> QED
    BY <2>2, <2>3 DEF IInv
<1>9. ASSUME NEW named \in BOOLEAN, Answered(t, named)
      PROVE  /\ r \in Roots /\ GoodOrder(ord[r]) /\ c \in Chunks
             /\ GotIds(t, named) \in SUBSET Chunks
             /\ mishap' \in SUBSET Roots
  <2>1. task[t].pc = "posting"
    BY <1>9 DEF Answered, At
  <2>2. r \in Roots /\ GoodOrder(ord[r]) /\ c \in Chunks
    BY <1>3, <1>4, <2>1 DEF CallSound
  <2>3. GotIds(t, named) \in SUBSET Chunks
    BY <1>3, <2>2 DEF GotIds, TaskRec
  <2>4. mishap' \in SUBSET Roots
    BY <1>1, <1>9, <2>2 DEF Answered, OutsideGood
  <2> QED
    BY <2>2, <2>3, <2>4
<1>10. ASSUME NEW named \in BOOLEAN, PostReplyMore(t, named) PROVE IInv'
  <2> DEFINE s == [task[t] EXCEPT !.pc = "pause", !.got = GotIds(t, named)]
  <2>1. r \in Roots /\ c \in Chunks /\ GotIds(t, named) \in SUBSET Chunks /\ mishap' \in SUBSET Roots
    BY <1>9, <1>10 DEF PostReplyMore
  <2>2. s \in TaskRec
    BY <1>3, <2>1 DEF TaskRec, PCs
  <2>3. s.pc = "pause" /\ s.root = r /\ s.chunk = c /\ s.n = task[t].n
    BY <1>3 DEF TaskRec
  <2>4. c < task[t].n /\ SetTask(t, s) /\ UNCHANGED <<lock, loop>>
    BY <1>10 DEF PostReplyMore
  <2>5. CallSound(s)
    BY <2>1, <2>3, <2>4 DEF CallSound
  <2> HIDE DEF s
  <2>6. CallsGood'
    BY <1>1, <2>2, <2>4, <2>5, SetTaskGood DEF CallsGood
  <2>7. OrdersGood' /\ OutsideGood'
    BY <1>1, <1>10, <2>1, OrdersUnchanged DEF PostReplyMore, memory, OutsideGood, outside
  <2> QED
    BY <2>6, <2>7 DEF IInv
<1>11. ASSUME NEW named \in BOOLEAN, PostReplyLast(t, named) PROVE IInv'
  <2>1. r \in Roots /\ GoodOrder(ord[r]) /\ GotIds(t, named) \in SUBSET Chunks /\ mishap' \in SUBSET Roots
    BY <1>9, <1>11 DEF PostReplyLast
  <2>2. GoodOrder(WithIds(ord[r], GotIds(t, named)))
    BY <2>1, MarkGood
  <2>3. OrdersGood'
    BY <1>1, <1>11, <2>1, <2>2, SetOrderGood DEF PostReplyLast
  <2>4. CallsGood' /\ OutsideGood'
    BY <1>1, <1>2, <1>11, <2>1, ReturnGood DEF PostReplyLast, OutsideGood, outside
  <2> QED
    BY <2>3, <2>4 DEF IInv
<1> QED
  BY <1>5, <1>6, <1>7, <1>8, <1>10, <1>11

\* The next step of a call under way: cancelling.
LEMMA CancellingStep ==
  ASSUME IInv, NEW t \in Tasks,
         \/ ScanSkip(t) \/ ScanExpire(t) \/ ScanCancelLocal(t) \/ ScanCancelNoIds(t)
         \/ ScanCancelLive(t) \/ CancelReplyMore(t) \/ CancelReplyLast(t) \/ CancelFail(t)
         \/ ScanDone(t)
  PROVE  IInv'
<1> DEFINE id == Visited(t)
           q == task[t].root
<1>1. OrdersGood /\ CallsGood /\ OutsideGood
  BY DEF IInv
<1>2. MaxChunks \in Nat \ {0}
  BY Constants
<1>3. task[t] \in TaskRec /\ CallSound(task[t])
  BY <1>1 DEF CallsGood
<1>4. ASSUME Scanning(t)
      PROVE  task[t].todo # <<>> /\ id \in Ids /\ id[1] \in Roots /\ GoodOrder(ord[id[1]])
  <2>1. task[t].todo # <<>>
    BY <1>4 DEF Scanning, Visiting
  <2>2. id \in Ids
    BY <1>1, <2>1, VisitedGood
  <2> QED
    BY <1>1, <2>1, <2>2 DEF Ids, OrdersGood
<1>5. ASSUME CancelReply(t) \/ At(t, "cancelling")
      PROVE  q \in Roots /\ GoodOrder(ord[q]) /\ task[t].todo # <<>>
  BY <1>1, <1>3, <1>5 DEF CancelReply, At, CallSound, OrdersGood
<1>6. CASE ScanSkip(t)
  <2>1. CallsGood'
    BY <1>1, <1>2, <1>4, <1>6, ContinueGood DEF ScanSkip
  <2>2. OrdersGood' /\ OutsideGood'
    BY <1>1, <1>6, OrdersUnchanged, OutsideUnchanged DEF ScanSkip, memory
  <2> QED
    BY <2>1, <2>2 DEF IInv
<1>7. CASE ScanExpire(t)
  <2>1. GoodOrder(ExpireLegOnly(ord[id[1]], id[2]))
    <3>1. id[2] \in Legs /\ ord[id[1]].leg[id[2]] = "armed"
      BY <1>7 DEF ScanExpire, ToExpire, StatusOf
    <3> QED
      BY <1>4, <1>7, <3>1, EndLegGood DEF ScanExpire
  <2>2. OrdersGood'
    BY <1>1, <1>4, <1>7, <2>1, SetOrderGood DEF ScanExpire
  <2>3. CallsGood' /\ OutsideGood'
    BY <1>1, <1>2, <1>4, <1>7, ContinueGood, OutsideUnchanged DEF ScanExpire
  <2> QED
    BY <2>2, <2>3 DEF IInv
<1>8. CASE ScanCancelLocal(t)
  <2> DEFINE o == IF id[2] = "root" THEN CancelLocal(ord[id[1]]) ELSE CancelLeg(ord[id[1]], id[2])
  <2>1. Scanning(t) /\ ToCancel(t, id) /\ SetOrder(id[1], o)
    BY <1>8 DEF ScanCancelLocal
  <2>2. id \in Ids /\ id[1] \in Roots /\ GoodOrder(ord[id[1]])
    BY <1>4, <2>1
  <2>3. GoodOrder(o)
    <3>1. CASE id[2] = "root"
      BY <2>2, <3>1, EndRootGood
    <3>2. CASE id[2] # "root"
      <4>1. id[2] \in Legs /\ StatusOf(id) = ord[id[1]].leg[id[2]]
        BY <2>2, <3>2 DEF Ids, Slots, StatusOf
      <4>2. ord[id[1]].leg[id[2]] \in {"none", "armed"} \cup FINAL_ORDER_STATUSES
        BY <2>2, <4>1 DEF GoodOrder, OrderRec
      <4>3. ord[id[1]].leg[id[2]] = "armed"
        BY <2>1, <3>2, <4>1, <4>2 DEF ToCancel, Open
      <4> QED
        BY <2>2, <3>2, <4>1, <4>3, EndLegGood
    <3> QED
      BY <3>1, <3>2
  <2> HIDE DEF o
  <2>4. OrdersGood'
    BY <1>1, <2>1, <2>2, <2>3, SetOrderGood
  <2>5. CallsGood' /\ OutsideGood'
    BY <1>1, <1>2, <1>4, <1>8, ContinueGood, OutsideUnchanged DEF ScanCancelLocal
  <2> QED
    BY <2>4, <2>5 DEF IInv
<1>9. CASE ScanCancelNoIds(t)
  <2>1. PICK r \in Roots : /\ LiveEntryToCancel(t, r)
                           /\ SetOrder(r, CancelLive(ord[r]))
                           /\ mishap' = mishap \cup {r}
                           /\ Continue(t)
                           /\ UNCHANGED <<used, recent, lock, outside>>
    BY <1>9 DEF ScanCancelNoIds
  <2>2. OrdersGood'
    <3>1. GoodOrder(CancelLive(ord[r]))
      BY <1>1, EndRootGood DEF OrdersGood
    <3> QED
      BY <1>1, <2>1, <3>1, SetOrderGood
  <2>3. CallsGood' /\ OutsideGood'
    BY <1>1, <1>2, <1>4, <2>1, ContinueGood DEF LiveEntryToCancel, OutsideGood, outside
  <2> QED
    BY <2>2, <2>3 DEF IInv
<1>10. ASSUME NEW r \in Roots, NEW ids \in SUBSET Chunks, task[t].todo # <<>>, SendCancel(t, r, ids)
       PROVE  IInv'
  <2>1. PICK c \in Chunks :
          /\ vcancel' = vcancel \cup {<<r, c>>}
          /\ SetTask(t, [task[t] EXCEPT !.pc = "cancelling", !.root = r, !.chunk = c, !.left = ids \ {c}])
          /\ loop' = Free
          /\ UNCHANGED <<memory, used, lock, venue, intents, killed, proc, mishap>>
    BY <1>10 DEF SendCancel
  <2> DEFINE s == [task[t] EXCEPT !.pc = "cancelling", !.root = r, !.chunk = c, !.left = ids \ {c}]
  <2>2. s \in TaskRec
    <3>1. "cancelling" \in PCs /\ c \in 0..MaxChunks /\ ids \ {c} \in SUBSET Chunks
      BY <1>2 DEF PCs, Chunks
    <3> QED
      BY <1>3, <3>1 DEF TaskRec
  <2>3. s.pc = "cancelling" /\ s.root = r /\ s.chunk = c /\ s.todo = task[t].todo
    BY <1>3 DEF TaskRec
  <2>4. CallSound(s) /\ SetTask(t, s)
    BY <1>10, <2>1, <2>3 DEF CallSound
  <2> HIDE DEF s
  <2>5. CallsGood'
    BY <1>1, <2>1, <2>2, <2>4, SetTaskGood DEF CallsGood
  <2>6. OrdersGood' /\ OutsideGood'
    BY <1>1, <2>1, OrdersUnchanged DEF memory, OutsideGood
  <2> QED
    BY <2>5, <2>6 DEF IInv
<1>11. CASE ScanCancelLive(t)
  <2>1. PICK r \in Roots : LiveEntryToCancel(t, r) /\ SendCancel(t, r, ord[r].eids)
    BY <1>11 DEF ScanCancelLive
  <2>2. ord[r].eids \in SUBSET Chunks
    BY <1>1 DEF OrdersGood, OrderRec
  <2> QED
    BY <1>4, <1>10, <2>1, <2>2 DEF LiveEntryToCancel
<1>12. CASE CancelReplyMore(t)
  <2>1. task[t].left \in SUBSET Chunks
    BY <1>3 DEF TaskRec
  <2> QED
    BY <1>5, <1>10, <1>12, <2>1 DEF CancelReplyMore
<1>13. CASE CancelReplyLast(t)
  <2>1. q \in Roots /\ GoodOrder(CancelLive(ord[q]))
    BY <1>5, <1>13, EndRootGood DEF CancelReplyLast
  <2>2. OrdersGood'
    BY <1>1, <1>13, <2>1, SetOrderGood DEF CancelReplyLast
  <2>3. CallsGood' /\ OutsideGood'
    BY <1>1, <1>2, <1>5, <1>13, ContinueGood, OutsideUnchanged DEF CancelReplyLast
  <2> QED
    BY <2>2, <2>3 DEF IInv
<1>14. CASE CancelFail(t)
  <2>1. CallsGood'
    BY <1>1, <1>2, <1>5, <1>14, ContinueGood DEF CancelFail
  <2>2. OrdersGood' /\ OutsideGood'
    BY <1>1, <1>5, <1>14, OrdersUnchanged DEF CancelFail, memory, OutsideGood, outside
  <2> QED
    BY <2>1, <2>2 DEF IInv
<1>15. CASE ScanDone(t)
  <2>1. CallsGood'
    BY <1>1, <1>2, <1>15, ReturnGood DEF ScanDone
  <2>2. OrdersGood' /\ OutsideGood'
    BY <1>1, <1>15, OrdersUnchanged DEF ScanDone, memory, OutsideGood
  <2> QED
    BY <2>1, <2>2 DEF IInv
<1> QED
  BY <1>6, <1>7, <1>8, <1>9, <1>11, <1>12, <1>13, <1>14, <1>15

\* The next step of a call under way: reconciling.
LEMMA ReconcilingStep ==
  ASSUME IInv, NEW t \in Tasks,
         \/ VisitSkip(t)
         \/ \E r \in Roots : VisitPaperEntry(t, r) \/ VisitLiveEntry(t, r)
         \/ \E r \in Roots, l \in Legs : VisitLegExpired(t, r, l) \/ VisitLegTriggered(t, r, l)
         \/ FetchReply(t) \/ FetchFail(t) \/ ReconcileDone(t)
  PROVE  IInv'
<1> DEFINE q == task[t].root
<1>1. OrdersGood /\ CallsGood /\ OutsideGood
  BY DEF IInv
<1>2. MaxChunks \in Nat \ {0} /\ PartialDivisor \in Nat \ {0}
  BY Constants
<1>3. task[t] \in TaskRec /\ CallSound(task[t])
  BY <1>1 DEF CallsGood
<1>4. ASSUME NEW r \in Roots PROVE GoodOrder(ord[r])
  BY <1>1 DEF OrdersGood
<1>5. CASE VisitSkip(t)
  <2>1. CallsGood'
    BY <1>1, <1>2, <1>5, ContinueGood DEF VisitSkip, Visiting
  <2>2. OrdersGood' /\ OutsideGood'
    BY <1>1, <1>5, OrdersUnchanged, OutsideUnchanged DEF VisitSkip, memory
  <2> QED
    BY <2>1, <2>2 DEF IInv
<1>6. ASSUME NEW r \in Roots, VisitPaperEntry(t, r) PROVE IInv'
  <2>1. PICK o \in {ord[r], PaperFill(ord[r])} : SetOrder(r, ArmIfMissing(o))
    BY <1>6 DEF VisitPaperEntry
  <2>2. GoodOrder(ArmIfMissing(o))
    BY <1>2, <1>4, <2>1, PaperFillGood, ArmIfMissingGood
  <2>3. OrdersGood'
    BY <1>1, <2>1, <2>2, SetOrderGood
  <2>4. CallsGood' /\ OutsideGood'
    BY <1>1, <1>2, <1>6, ContinueGood, OutsideUnchanged DEF VisitPaperEntry, VisitRoot, Visiting
  <2> QED
    BY <2>3, <2>4 DEF IInv
<1>7. ASSUME NEW r \in Roots, NEW l \in Legs, VisitLegExpired(t, r, l) PROVE IInv'
  <2>1. VisitArmedLeg(t, r, l) /\ SetOrder(r, ExpireLeg(ord[r], l))
    BY <1>7 DEF VisitLegExpired
  <2>2. GoodOrder(ExpireLeg(ord[r], l))
    BY <1>4, <2>1, EndLegGood DEF VisitArmedLeg
  <2>3. OrdersGood'
    BY <1>1, <2>1, <2>2, SetOrderGood
  <2>4. CallsGood' /\ OutsideGood'
    BY <1>1, <1>2, <1>7, <2>1, ContinueGood, OutsideUnchanged DEF VisitLegExpired, VisitArmedLeg, Visiting
  <2> QED
    BY <2>3, <2>4 DEF IInv
<1>8. ASSUME NEW r \in Roots, NEW l \in Legs, VisitLegTriggered(t, r, l) PROVE IInv'
  <2>1. VisitArmedLeg(t, r, l) /\ SetOrder(r, TriggerLeg(ord[r], l))
    BY <1>8 DEF VisitLegTriggered
  <2>2. GoodOrder(TriggerLeg(ord[r], l))
    BY <1>4, <2>1, TriggerLegGood DEF VisitArmedLeg
  <2>3. OrdersGood'
    BY <1>1, <2>1, <2>2, SetOrderGood
  <2>4. CallsGood' /\ OutsideGood'
    BY <1>1, <1>2, <1>8, <2>1, ContinueGood, OutsideUnchanged DEF VisitLegTriggered, VisitArmedLeg, Visiting
  <2> QED
    BY <2>3, <2>4 DEF IInv
<1>9. ASSUME NEW r \in Roots, NEW seen, NEW sum \in Nat, task[t].todo # <<>>, Apply(t, r, seen, sum)
      PROVE  IInv'
  <2>1. GoodOrder(ArmIfMissing(ApplyRows(ord[r], seen, sum)))
    BY <1>4, ApplyRowsGood, ArmIfMissingGood
  <2>2. OrdersGood'
    BY <1>1, <1>9, <2>1, SetOrderGood DEF Apply
  <2>3. CallsGood' /\ OutsideGood'
    BY <1>1, <1>2, <1>9, ContinueGood, OutsideUnchanged DEF Apply
  <2> QED
    BY <2>2, <2>3 DEF IInv
<1>10. ASSUME NEW r \in Roots, NEW ids \in SUBSET Chunks, NEW seen \in SUBSET VenueStates,
              NEW sum \in Nat, task[t].todo # <<>>, Fetch(t, r, ids, seen, sum)
       PROVE  IInv'
  <2>1. PICK c \in Chunks :
          /\ SetTask(t, [task[t] EXCEPT !.pc = "fetching", !.root = r, !.chunk = c, !.left = ids \ {c},
                                        !.seen = seen, !.sum = sum])
          /\ loop' = Free
          /\ UNCHANGED <<memory, used, lock, outside, mishap>>
    BY <1>10 DEF Fetch
  <2> DEFINE s == [task[t] EXCEPT !.pc = "fetching", !.root = r, !.chunk = c, !.left = ids \ {c},
                                  !.seen = seen, !.sum = sum]
  <2>2. s \in TaskRec
    <3>1. "fetching" \in PCs /\ c \in 0..MaxChunks /\ ids \ {c} \in SUBSET Chunks
      BY <1>2 DEF PCs, Chunks
    <3> QED
      BY <1>3, <3>1 DEF TaskRec
  <2>3. s.pc = "fetching" /\ s.root = r /\ s.chunk = c /\ s.todo = task[t].todo
    BY <1>3 DEF TaskRec
  <2>4. CallSound(s) /\ SetTask(t, s)
    BY <1>10, <2>1, <2>3 DEF CallSound
  <2> HIDE DEF s
  <2>5. CallsGood'
    BY <1>1, <2>1, <2>2, <2>4, SetTaskGood DEF CallsGood
  <2>6. OrdersGood' /\ OutsideGood'
    BY <1>1, <2>1, OrdersUnchanged, OutsideUnchanged DEF memory
  <2> QED
    BY <2>5, <2>6 DEF IInv
<1>11. ASSUME NEW r \in Roots, VisitLiveEntry(t, r) PROVE IInv'
  <2>1. task[t].todo # <<>> /\ ord[r].eids \in SUBSET Chunks
    BY <1>1, <1>11 DEF VisitLiveEntry, VisitRoot, Visiting, OrdersGood, OrderRec
  <2>2. Fetch(t, r, ord[r].eids, {}, 0) \/ Apply(t, r, {}, 0)
    BY <1>11 DEF VisitLiveEntry
  <2>3. {} \in SUBSET VenueStates /\ 0 \in Nat
    OBVIOUS
  <2> QED
    BY <1>9, <1>10, <2>1, <2>2, <2>3
<1>12. ASSUME task[t].pc = "fetching", NEW seen \in SUBSET VenueStates, NEW sum \in Nat, Fetched(t, seen, sum)
       PROVE  IInv'
  <2>1. q \in Roots /\ task[t].todo # <<>> /\ task[t].left \in SUBSET Chunks
    BY <1>3, <1>12 DEF CallSound, TaskRec
  <2> QED
    BY <1>9, <1>10, <1>12, <2>1 DEF Fetched
<1>13. CASE FetchReply(t)
  <2> DEFINE row == venue[<<q, task[t].chunk>>]
  <2>1. task[t].pc = "fetching" /\ Fetched(t, task[t].seen \cup {row.st}, task[t].sum + row.filled)
    BY <1>13 DEF FetchReply, At
  <2>2. row \in VenueRec
    BY <1>1, <1>3, <2>1 DEF CallSound, OutsideGood
  <2>3. task[t].seen \cup {row.st} \in SUBSET VenueStates
    BY <1>3, <2>2 DEF TaskRec, VenueRec
  <2>4. task[t].sum + row.filled \in Nat
    <3>1. task[t].sum \in Nat
      BY <1>3 DEF TaskRec
    <3>2. row.filled \in Nat
      BY <2>2 DEF VenueRec
    <3> HIDE DEF row
    <3> QED
      BY <3>1, <3>2
  <2> QED
    BY <1>12, <2>1, <2>3, <2>4
<1>14. CASE FetchFail(t)
  <2>1. task[t].pc = "fetching" /\ Fetched(t, task[t].seen, task[t].sum)
    BY <1>14 DEF FetchFail, At
  <2>2. task[t].seen \in SUBSET VenueStates /\ task[t].sum \in Nat
    BY <1>3 DEF TaskRec
  <2> QED
    BY <1>12, <2>1, <2>2
<1>15. CASE ReconcileDone(t)
  <2>1. CallsGood'
    BY <1>1, <1>2, <1>15, ReturnGood DEF ReconcileDone
  <2>2. OrdersGood' /\ OutsideGood'
    BY <1>1, <1>15, OrdersUnchanged, OutsideUnchanged DEF ReconcileDone, memory
  <2> QED
    BY <2>1, <2>2 DEF IInv
<1> QED
  BY <1>5, <1>6, <1>7, <1>8, <1>11, <1>13, <1>14, <1>15

\* The next step of a call under way, whichever it is.
LEMMA AdvanceStep ==
  ASSUME IInv, NEW t \in Tasks, Advance(t)
  PROVE  IInv'
BY PlacingStep, CancellingStep, ReconcilingStep DEF Advance

\* The venue moves rows and requests only.
LEMMA VenueStep ==
  ASSUME IInv, NEW x \in Roots \X Chunks,
         VenueReceive(x) \/ VenueFill(x) \/ VenueEnd(x) \/ VenueCancel(x)
  PROVE  IInv'
<1>1. OrdersGood /\ CallsGood /\ OutsideGood /\ venue[x] \in VenueRec /\ x[1] \in Roots
  BY DEF IInv, OutsideGood
<1>2. OrdersGood'
  BY <1>1, OrdersUnchanged
     DEF VenueReceive, VenueFill, VenueEnd, VenueCancel, VenueAnswers, memory
<1>3. CallsGood'
  BY <1>1, CallsUnchanged
     DEF VenueReceive, VenueFill, VenueEnd, VenueCancel, VenueAnswers
<1>4. VenueEnds \subseteq {"cancelled", "expired"}
  BY ExecutorAssumption
<1>5. venue' \in [Roots \X Chunks -> VenueRec] /\ mishap' \in SUBSET Roots /\ vcancel' \in SUBSET (Roots \X Chunks)
  <2>1. CASE VenueReceive(x)
    BY <1>1, <2>1 DEF VenueReceive, VenueAnswers, VenueRec, VenueStates, OutsideGood
  <2>2. CASE VenueFill(x)
    <3> DEFINE row == [venue[x] EXCEPT !.filled = @ + 1,
                                       !.st = IF venue[x].filled + 1 = venue[x].size THEN "matched" ELSE @]
    <3>1. row \in VenueRec
      <4>1. venue[x].filled + 1 \in Nat /\ "matched" \in VenueStates
        BY <1>1 DEF VenueRec, VenueStates
      <4> QED
        BY <1>1, <4>1 DEF VenueRec
    <3>2. venue' = [venue EXCEPT ![x] = row] /\ UNCHANGED <<mishap, vcancel>>
      BY <1>1, <2>2 DEF VenueFill, OutsideGood, VenueRec
    <3> QED
      BY <1>1, <3>1, <3>2 DEF OutsideGood
  <2>3. CASE VenueEnd(x)
    BY <1>1, <1>4, <2>3 DEF VenueEnd, VenueAnswers, VenueRec, VenueStates, OutsideGood
  <2>4. CASE VenueCancel(x)
    BY <1>1, <2>4 DEF VenueCancel, VenueRec, VenueStates, OutsideGood
  <2> QED
    BY <2>1, <2>2, <2>3, <2>4
<1>6. OutsideGood'
  BY <1>1, <1>5 DEF OutsideGood, memory, VenueReceive, VenueFill, VenueEnd, VenueCancel, VenueAnswers
<1> QED
  BY <1>2, <1>3, <1>6 DEF IInv

\* A process that ends takes its orders, calls and locks with it.
LEMMA LoseMemoryGood ==
  ASSUME IInv, LoseMemory
  PROVE  IInv'
<1>1. OrdersGood'
  BY NoOrderGood DEF LoseMemory, OrdersGood, GoodOrder
<1>2. CallsGood'
  BY IdleTaskGood, Constants DEF LoseMemory, CallsGood
<1>3. OutsideGood'
  BY DEF LoseMemory, IInv, OutsideGood
<1> QED
  BY <1>1, <1>2, <1>3 DEF IInv

\* The clock, the kill-switch file, signals, the end and the start of the process.
LEMMA EnvironmentStep ==
  ASSUME IInv, Environment
  PROVE  IInv'
<1>1. OrdersGood /\ CallsGood /\ OutsideGood
  BY DEF IInv
<1>2. CASE Venue
  BY <1>2, VenueStep DEF Venue
<1>3. CASE KillSwitchFlip
  <2>1. OrdersGood' /\ CallsGood'
    BY <1>1, <1>3, OrdersUnchanged, CallsUnchanged DEF KillSwitchFlip, memory
  <2>2. OutsideGood'
    BY <1>1, <1>3 DEF KillSwitchFlip, OutsideGood, memory
  <2> QED
    BY <2>1, <2>2 DEF IInv
<1>4. ASSUME NEW k \in Keys, WindowPasses(k) PROVE IInv'
  <2>1. OrdersGood' /\ CallsGood'
    BY <1>1, <1>4, OrdersUnchanged, CallsUnchanged DEF WindowPasses
  <2>2. intents' \in SUBSET [root: Roots, key: Keys, fresh: BOOLEAN]
    BY <1>1, <1>4 DEF WindowPasses, OutsideGood
  <2>3. OutsideGood'
    BY <1>1, <1>4, <2>2 DEF WindowPasses, OutsideGood
  <2> QED
    BY <2>1, <2>3 DEF IInv
<1>5. ASSUME NEW r \in Roots, OrderAges(r) \/ GttPasses(r) PROVE IInv'
  <2>1. GoodOrder([ord[r] EXCEPT !.aged = TRUE]) /\ GoodOrder([ord[r] EXCEPT !.due = TRUE])
    BY <1>1, MarkGood DEF OrdersGood
  <2>2. \/ ord' = [ord EXCEPT ![r] = [ord[r] EXCEPT !.aged = TRUE]]
        \/ ord' = [ord EXCEPT ![r] = [ord[r] EXCEPT !.due = TRUE]]
    BY <1>5 DEF OrderAges, GttPasses
  <2>3. OrdersGood'
    BY <1>1, <1>5, <2>1, <2>2 DEF OrdersGood, OrderAges, GttPasses, GoodOrder
  <2>4. CallsGood' /\ OutsideGood'
    BY <1>1, <1>5, CallsUnchanged, OutsideUnchanged DEF OrderAges, GttPasses
  <2> QED
    BY <2>3, <2>4 DEF IInv
<1>6. CASE Signal
  <2>1. CallsGood'
    <3>1. Scan(Shutdown, "cancel_all", orders, {}) /\ lock' = lock
      BY <1>6 DEF Signal
    <3>2. "cancel_all" \in Ops /\ orders \in Seq(Ids) /\ lock \in Tasks \cup {Free} /\ Shutdown \in Tasks
      BY <1>1 DEF Ops, OrdersGood, CallsGood, Tasks
    <3> QED
      BY <1>1, <3>1, <3>2, Constants, ScanGood
  <2>2. OrdersGood' /\ OutsideGood'
    BY <1>1, <1>6, OrdersUnchanged DEF Signal, memory, OutsideGood
  <2> QED
    BY <2>1, <2>2 DEF IInv
<1>7. CASE HookTimeout
  <2>1. Shutdown \in Tasks /\ task[Shutdown].root \in Roots
    BY <1>1, <1>7 DEF HookTimeout, At, Tasks, CallsGood, CallSound
  <2>2. CallsGood'
    BY <1>1, <1>7, <2>1, Constants, ReturnGood DEF HookTimeout
  <2>3. OrdersGood' /\ OutsideGood'
    BY <1>1, <1>7, <2>1, OrdersUnchanged DEF HookTimeout, memory, OutsideGood
  <2> QED
    BY <2>2, <2>3 DEF IInv
<1>8. CASE Exit \/ Crash
  BY <1>8, LoseMemoryGood DEF Exit, Crash
<1>9. CASE Restart
  <2>1. OrdersGood' /\ CallsGood'
    BY <1>1, <1>9, OrdersUnchanged, CallsUnchanged DEF Restart, memory
  <2>2. OutsideGood'
    BY <1>1, <1>9 DEF Restart, OutsideGood, memory
  <2> QED
    BY <2>1, <2>2 DEF IInv
<1> QED
  BY <1>2, <1>3, <1>4, <1>5, <1>6, <1>7, <1>8, <1>9 DEF Environment

\* Every step of the executor and of its environment keeps the invariant.
LEMMA InvariantStep == IInv /\ [Next]_vars => IInv'
<1> SUFFICES ASSUME IInv, [Next]_vars PROVE IInv'
  OBVIOUS
<1>1. CASE UNCHANGED vars
  <2>1. OrdersGood' /\ CallsGood' /\ OutsideGood'
    BY <1>1, OrdersUnchanged, CallsUnchanged, OutsideUnchanged DEF vars, outside, IInv
  <2> QED
    BY <2>1 DEF IInv
<1>2. ASSUME NEW t \in Tasks, Call(t) \/ Advance(t) PROVE IInv'
  BY <1>2, CallStep, AdvanceStep
<1>3. CASE Environment
  BY <1>3, EnvironmentStep
<1> QED
  BY <1>1, <1>2, <1>3 DEF Next

-----------------------------------------------------------------------------
\* In every behaviour of the executor the state stays well formed: every record, call
\* and venue row keeps its fields in their ranges (Order, lines 36-73).
THEOREM TypeCorrect == Spec => []TypeOK
<1>1. IInv => TypeOK
  BY IInvImplies
<1> QED
  BY <1>1, InitGood, InvariantStep, PTL DEF Spec

\* In every behaviour of the executor the fills of every order stay within its size and
\* agree with its status, at most one leg of a bracket sells, and never more than the
\* entry bought: for any number of orders, chunks and keys, paper or live, and any
\* interleaving of the two tasks with the venue (_apply_fill, _arm_bracket_orders,
\* _reconcile_orders_unlocked, cancel_order).
THEOREM OcoSafe == Spec => []OcoSound
<1>1. IInv => OcoSound
  BY IInvImplies
<1> QED
  BY <1>1, InitGood, InvariantStep, PTL DEF Spec

=============================================================================
