------------------------ MODULE ExecutorSafetyProofs ------------------------
(***************************************************************************)
(* More of Executor for every value of its constants: that the executor    *)
(* implements BracketPosition, that a finished order stays as it finished, *)
(* that armed legs cover the position and that they are armed together.    *)
(*                                                                         *)
(* The argument has the layers of ExecutorProofs.  A helper of the code    *)
(* takes a sound record to a sound record by one permitted move (Moves);   *)
(* every action leaves the records alone, moves one of them, or ends the   *)
(* process (Changes); each property follows from that one shape.           *)
(***************************************************************************)
EXTENDS ExecutorProofs

USE DEF Legs, OpenStatuses, FINAL_ORDER_STATUSES, BracketStates

Waiting(t) == task[t].pc \notin {"idle", "run"}

\* A second partial fill leaves the status at "partially_filled", and then the code
\* resizes no leg; with a fill ratio of one half or more there is no second one.
HalvesAtLeast == Live \/ PartialDivisor <= 2

Covered(o) ==
  EnableBrackets /\ HalvesAtLeast /\ o.kind = "entry" /\ o.filled > 0 =>
    HasLegs(o) /\ \A l \in Legs : o.leg[l] = "armed" => o.legSize[l] = o.filled

Halved(o) ==
  ~Live /\ HalvesAtLeast /\ o.kind = "entry" /\ o.status = "partially_filled" =>
    2 * o.filled >= o.size

\* What is invariant of one record, over GoodOrder.
Sound(o) ==
  /\ GoodOrder(o) /\ Covered(o) /\ Halved(o)
  /\ o.kind = "none" <=> o.status = "none"
  /\ o.kind # "none" => o.size \in Sizes

SoldTotal(o) == LegSold(o, "take_profit") + LegSold(o, "stop_loss")

\* The bracket sells nothing, or what it sells is its first and only sale.
SoldStep(o, n) ==
  \/ SoldTotal(n) = SoldTotal(o)
  \/ /\ SoldTotal(o) = 0 /\ 0 < SoldTotal(n) /\ SoldTotal(n) <= o.filled
     /\ o.kind = "entry" /\ n.filled = o.filled

Moves(o, n) ==
  /\ Sound(n)
  /\ n.filled >= o.filled
  /\ n.kind = o.kind /\ n.size = o.size
  /\ SoldStep(o, n)

Creates(o, n) == o = NoOrder /\ Sound(n) /\ n.kind # "none" /\ SoldTotal(n) = 0

-----------------------------------------------------------------------------
(* The helpers.                                                            *)

\* An order that does not exist is sound.
LEMMA NoOrderSound == Sound(NoOrder)
BY NoOrderGood DEF Sound, NoOrder, Covered, Halved

\* The two cases of OneExit, and what a sold leg says of the other.
LEMMA SoldFacts ==
  ASSUME NEW o, GoodOrder(o)
  PROVE  /\ \A l \in Legs : LegSold(o, l) \in Nat
         /\ ~HasLegs(o) => SoldTotal(o) = 0
         /\ (\A l \in Legs : o.leg[l] # "filled") => SoldTotal(o) = 0
<1>1. o.legSize \in [Legs -> Nat] /\ (\A l \in Legs : o.leg[l] = "none" <=> ~HasLegs(o))
  BY DEF GoodOrder, OrderRec, FillsAgree
<1> QED
  BY <1>1 DEF LegSold, SoldTotal

\* Arming a bracket covers what the entry bought, and sells nothing.
LEMMA ArmCovers ==
  ASSUME NEW o, GoodOrder(o), o.filled > 0
  PROVE  LET n == ArmBracketOrders(o) IN
         /\ GoodOrder(n) /\ Covered(n)
         /\ n.filled = o.filled /\ n.kind = o.kind /\ n.size = o.size /\ n.status = o.status
         /\ SoldTotal(n) = SoldTotal(o)
<1> DEFINE n == ArmBracketOrders(o)
<1>1. /\ GoodOrder(n) /\ n.filled = o.filled /\ n.kind = o.kind /\ SoldTotal(n) = SoldTotal(o)
  BY ArmGood DEF SoldTotal
<1>2. o \in OrderRec /\ ActiveSize(o) = o.filled
  BY DEF GoodOrder, ActiveSize
<1>3. n.size = o.size /\ n.status = o.status
  BY <1>2 DEF ArmBracketOrders, SyncChildSizes, OrderRec
<1>4. o.kind = "entry" => HasLegs(n) /\ \A l \in Legs : n.leg[l] = "armed" => n.legSize[l] = o.filled
  <2>1. CASE o.kind = "entry" /\ HasLegs(o)
    <3>1. /\ n.leg = o.leg
          /\ n.legSize = [l \in Legs |-> IF o.leg[l] = "armed" THEN o.filled ELSE o.legSize[l]]
      BY <1>2, <2>1 DEF ArmBracketOrders, SyncChildSizes, OrderRec, ActiveSize
    <3> QED
      BY <2>1, <3>1 DEF HasLegs
  <2>2. CASE o.kind = "entry" /\ ~HasLegs(o)
    <3>1. n.leg = [l \in Legs |-> "armed"] /\ n.legSize = [l \in Legs |-> o.filled]
      BY <1>2, <2>2 DEF ArmBracketOrders, OrderRec
    <3> QED
      BY <3>1 DEF HasLegs
  <2> QED
    BY <2>1, <2>2
<1> QED
  BY <1>1, <1>3, <1>4 DEF Covered

\* The last part of a visit arms what has no legs, and moves nothing else.
LEMMA ArmIfMissingMoves ==
  ASSUME NEW o, Sound(o)
  PROVE  LET n == ArmIfMissing(o) IN
         /\ Sound(n)
         /\ n.filled = o.filled /\ n.kind = o.kind /\ n.size = o.size /\ n.status = o.status
         /\ SoldTotal(n) = SoldTotal(o)
<1>1. CASE ArmIfMissing(o) = o
  BY <1>1
<1>2. CASE o.filled > 0 /\ ArmIfMissing(o) = ArmBracketOrders(o)
  BY <1>2, ArmCovers DEF Sound, Halved
<1> QED
  BY <1>1, <1>2 DEF ArmIfMissing

\* A trigger is the first sale of the bracket, at most of what the entry bought.
LEMMA TriggerMoves ==
  ASSUME NEW o, Sound(o), NEW l \in Legs, o.leg[l] = "armed"
  PROVE  Moves(o, TriggerLeg(o, l)) /\ TriggerLeg(o, l).status = o.status
                                    /\ TriggerLeg(o, l).filled = o.filled
<1> DEFINE n == TriggerLeg(o, l)
<1>1. GoodOrder(n) /\ o \in OrderRec /\ GoodOrder(o)
  BY TriggerLegGood DEF Sound, GoodOrder
<1>2. /\ n.filled = o.filled /\ n.kind = o.kind /\ n.size = o.size /\ n.status = o.status
      /\ n.legSize = o.legSize
      /\ n.leg = [k \in Legs |-> IF k = l THEN "filled"
                                 ELSE IF o.leg[k] = "armed" THEN "cancelled" ELSE o.leg[k]]
  BY <1>1 DEF TriggerLeg, OrderRec
<1> HIDE DEF n
<1>3. /\ HasLegs(o) /\ o.kind = "entry" /\ \A k \in Legs : o.leg[k] # "filled"
  BY <1>1 DEF GoodOrder, FillsAgree, OneExit
<1>4. /\ SoldTotal(o) = 0
      /\ 0 < o.legSize[l] /\ o.legSize[l] <= o.filled
  BY <1>1, <1>3, SoldFacts DEF GoodOrder, ExitWithinPosition
<1>5. o.legSize \in [Legs -> Nat] /\ o.filled \in Nat
  BY <1>1 DEF OrderRec
<1>6. SoldTotal(n) = o.legSize[l]
  BY <1>2, <1>3, <1>5 DEF SoldTotal, LegSold
<1>7. SoldStep(o, n)
  BY <1>2, <1>3, <1>4, <1>6 DEF SoldStep
<1>8. Sound(n)
  <2>1. Covered(n)
    BY <1>2 DEF Sound, Covered, HasLegs
  <2>2. Halved(n)
    BY <1>2 DEF Sound, Halved
  <2> QED
    BY <1>1, <1>2, <2>1, <2>2 DEF Sound
<1> QED
  BY <1>2, <1>5, <1>7, <1>8 DEF Moves, n

\* A leg that expires or is cancelled sells nothing.
LEMMA EndLegMoves ==
  ASSUME NEW o, Sound(o), NEW l \in Legs, o.leg[l] = "armed",
         NEW n \in {ExpireLeg(o, l), ExpireLegOnly(o, l), CancelLeg(o, l)}
  PROVE  Moves(o, n) /\ n.status = o.status /\ n.filled = o.filled
<1>1. GoodOrder(n) /\ o \in OrderRec /\ GoodOrder(o)
  BY EndLegGood DEF Sound, GoodOrder
<1>2. /\ n.filled = o.filled /\ n.kind = o.kind /\ n.size = o.size /\ n.status = o.status
      /\ n.legSize = o.legSize
      /\ n.leg \in {[o.leg EXCEPT ![l] = "expired"], [o.leg EXCEPT ![l] = "cancelled"]}
  BY <1>1 DEF ExpireLeg, ExpireLegOnly, CancelLeg, OrderRec
<1>3. o.legSize \in [Legs -> Nat] /\ o.filled \in Nat
      /\ o.leg \in [Legs -> {"none", "armed"} \cup FINAL_ORDER_STATUSES]
  BY <1>1 DEF OrderRec
<1>4. SoldTotal(n) = SoldTotal(o)
  BY <1>2, <1>3 DEF SoldTotal, LegSold
<1>5. Covered(n)
  BY <1>2, <1>3 DEF Sound, Covered, HasLegs
<1> QED
  BY <1>1, <1>2, <1>3, <1>4, <1>5 DEF Moves, Sound, SoldStep, Halved

\* A root that is cancelled or expires keeps its fills, and its bracket sells nothing.
LEMMA EndRootMoves ==
  ASSUME NEW o, Sound(o), o.kind # "none",
         NEW n \in {CancelLocal(o), CancelLive(o),
                    [o EXCEPT !.status = "cancelled"], [o EXCEPT !.status = "expired"]}
  PROVE  Moves(o, n)
<1>1. GoodOrder(n) /\ o \in OrderRec /\ GoodOrder(o)
  BY EndRootGood DEF Sound, GoodOrder
<1>2. /\ n.filled = o.filled /\ n.kind = o.kind /\ n.size = o.size
      /\ n.status \in {"cancelled", "expired"}
      /\ n.legSize = o.legSize
      /\ n.leg \in {o.leg, [l \in Legs |-> IF o.leg[l] = "armed" THEN "cancelled" ELSE o.leg[l]]}
  BY <1>1 DEF CancelLocal, CancelLive, OrderRec
<1>3. o.legSize \in [Legs -> Nat] /\ o.filled \in Nat
  BY <1>1 DEF OrderRec
<1>4. SoldTotal(n) = SoldTotal(o)
  BY <1>2, <1>3 DEF SoldTotal, LegSold
<1>5. Covered(n)
  BY <1>2, <1>3 DEF Sound, Covered, HasLegs
<1> QED
  BY <1>1, <1>2, <1>3, <1>4, <1>5 DEF Moves, Sound, SoldStep, Halved

\* The exchange ids, the age and the GTT flag move nothing.
LEMMA MarkMoves ==
  ASSUME NEW o, Sound(o), o.kind # "none", NEW got \in SUBSET Chunks,
         NEW n \in {WithIds(o, got), [o EXCEPT !.aged = TRUE], [o EXCEPT !.due = TRUE]}
  PROVE  Moves(o, n) /\ n.status = o.status /\ n.filled = o.filled
<1>1. GoodOrder(n) /\ o \in OrderRec /\ GoodOrder(o)
  BY MarkGood DEF Sound, GoodOrder
<1>2. /\ n.filled = o.filled /\ n.kind = o.kind /\ n.size = o.size /\ n.status = o.status
      /\ n.legSize = o.legSize /\ n.leg = o.leg
  BY <1>1 DEF WithIds, OrderRec
<1>3. o.filled \in Nat /\ SoldTotal(n) = SoldTotal(o) /\ Covered(n)
  BY <1>1, <1>2 DEF OrderRec, SoldTotal, LegSold, Sound, Covered, HasLegs
<1> QED
  BY <1>1, <1>2, <1>3 DEF Moves, Sound, SoldStep, Halved

\* What a fill does to the status and to the sum of the fills.
LEMMA FillFacts ==
  ASSUME NEW o, GoodOrder(o), NEW a \in Int
  PROVE  LET fill == Least(a, o.size - o.filled)
             f == ApplyFill(o, a)
         IN /\ fill <= 0 => f = o
            /\ fill > 0 => /\ f.filled = o.filled + fill
                           /\ f.status = IF f.filled = o.size THEN "filled" ELSE "partially_filled"
            /\ SoldTotal(f) = SoldTotal(o)
<1> DEFINE fill == Least(a, o.size - o.filled)
           f == ApplyFill(o, a)
<1>1. o \in OrderRec
  BY DEF GoodOrder
<1>2. fill <= 0 => f = o
  BY DEF ApplyFill
<1>3. fill > 0 => /\ f.filled = o.filled + fill
                  /\ f.status = IF f.filled = o.size THEN "filled" ELSE "partially_filled"
  <2> SUFFICES ASSUME fill > 0
               PROVE  /\ f.filled = o.filled + fill
                      /\ f.status = IF f.filled = o.size THEN "filled" ELSE "partially_filled"
    OBVIOUS
  <2>1. ~ (fill <= 0)
    <3>1. o.size \in Nat /\ o.filled \in Nat
      BY <1>1 DEF OrderRec
    <3> QED
      BY <3>1 DEF Least
  <2>2. f = [o EXCEPT !.filled = o.filled + fill,
                      !.status = IF o.filled + fill = o.size THEN "filled" ELSE "partially_filled"]
    BY <1>1, <2>1 DEF ApplyFill, OrderRec
  <2> HIDE DEF fill, f
  <2> QED
    BY <1>1, <2>2 DEF OrderRec
<1>4. SoldTotal(f) = SoldTotal(o)
  BY ApplyFillGood DEF SoldTotal, LegSold
<1> QED
  BY <1>2, <1>3, <1>4

\* A paper fill only adds to the position, and the bracket follows: of two fills the
\* second one finishes the order, when the fill ratio is one half or more.
LEMMA PaperFillMoves ==
  ASSUME NEW o, Sound(o), o.kind = "entry", o.status \in OpenStatuses, ~Live
  PROVE  Moves(o, PaperFill(o))
<1> DEFINE part == o.size \div PartialDivisor
           a == Least(o.size - o.filled, part)
           f == ApplyFill(o, a)
           fill == Least(a, o.size - o.filled)
           n == PaperFill(o)
<1>0. n = IF f.status # o.status /\ EnableBrackets THEN ArmBracketOrders(f) ELSE f
  BY DEF PaperFill
<1>1. /\ o \in OrderRec /\ GoodOrder(o) /\ o.size \in Nat /\ o.filled \in Nat
      /\ o.filled <= o.size /\ o.size \in Sizes
      /\ PartialDivisor \in Nat \ {0} /\ o.size % PartialDivisor = 0
  <2>1. GoodOrder(o) /\ o.size \in Sizes
    BY DEF Sound
  <2>2. o \in OrderRec /\ o.filled <= o.size
    BY <2>1 DEF GoodOrder, FillsAgree
  <2> QED
    BY <2>1, <2>2, ExecutorAssumption DEF OrderRec
<1>2. part \in Nat /\ (PartialDivisor <= 2 => 2 * part >= o.size)
  <2>1. part \in Nat
    BY <1>1
  <2>2. PartialDivisor = 1 => part = o.size
    BY <1>1
  <2>3. PartialDivisor = 2 => 2 * part = o.size
    BY <1>1
  <2> QED
    BY <1>1, <2>1, <2>2, <2>3
<1> HIDE DEF part
<1>3. /\ a \in Int /\ a <= o.size - o.filled /\ fill = a
      /\ a = o.size - o.filled \/ a = part
  BY <1>1, <1>2 DEF Least
<1>4. /\ GoodOrder(f) /\ f.filled >= o.filled /\ f.kind = o.kind /\ f.size = o.size
      /\ f.leg = o.leg /\ f.legSize = o.legSize /\ (f.filled = o.filled => f = o)
  BY <1>1, <1>3, ApplyFillGood
<1>5. /\ a <= 0 => f = o
      /\ a > 0 => /\ f.filled = o.filled + a
                  /\ f.status = IF f.filled = o.size THEN "filled" ELSE "partially_filled"
      /\ SoldTotal(f) = SoldTotal(o)
  BY <1>1, <1>3, FillFacts
<1> HIDE DEF a, f, fill
<1>7. Halved(f)
  <2>1. CASE f = o
    BY <2>1 DEF Sound
  <2>2. CASE f # o /\ PartialDivisor <= 2
    <3>1. a > 0
      BY <1>3, <1>5, <2>2
    <3>2. f.status = "partially_filled" => 2 * f.filled >= o.size
      BY <1>1, <1>2, <1>3, <1>5, <2>2, <3>1
    <3> QED
      BY <1>4, <3>2 DEF Halved
  <2>3. CASE ~ (PartialDivisor <= 2)
    BY <2>3 DEF Halved, HalvesAtLeast
  <2> QED
    BY <2>1, <2>2, <2>3
<1>8. f.status = o.status /\ PartialDivisor <= 2 => f = o
  <2> SUFFICES ASSUME f.status = o.status, PartialDivisor <= 2, f # o PROVE FALSE
    OBVIOUS
  <2>1. a > 0 /\ f.filled = o.filled + a
    BY <1>3, <1>5
  <2>2. f.status = "partially_filled" /\ f.filled # o.size
    BY <1>5, <2>1
  <2>3. 2 * o.filled >= o.size
    BY <2>2 DEF Sound, Halved, HalvesAtLeast
  <2> QED
    BY <1>1, <1>2, <1>3, <2>1, <2>2, <2>3
<1>9. CASE f.status # o.status /\ EnableBrackets
  <2>1. f.filled > 0
    <3>1. f.filled \in Nat
      BY <1>4 DEF GoodOrder, OrderRec
    <3> QED
      BY <1>1, <1>4, <1>9, <3>1
  <2>2. /\ GoodOrder(n) /\ Covered(n)
        /\ n.filled = f.filled /\ n.kind = f.kind /\ n.size = f.size /\ n.status = f.status
        /\ SoldTotal(n) = SoldTotal(f)
    BY <1>4, <1>0, <1>9, <2>1, ArmCovers
  <2>3. f.status # "none"
    BY <1>5, <1>3, <1>9
  <2>4. Sound(n)
    BY <1>1, <1>4, <1>7, <2>2, <2>3 DEF Sound, Halved
  <2> QED
    BY <1>4, <1>5, <2>2, <2>4 DEF Moves, SoldStep
<1>10. CASE ~(f.status # o.status /\ EnableBrackets)
  <2>1. Covered(n)
    <3>1. EnableBrackets /\ HalvesAtLeast => n = o
      BY <1>0, <1>8, <1>10 DEF HalvesAtLeast
    <3> QED
      BY <3>1 DEF Sound, Covered
  <2>2. f.status # "none"
    BY <1>3, <1>5
  <2>3. Sound(n)
    BY <1>1, <1>4, <1>0, <1>7, <1>10, <2>1, <2>2 DEF Sound
  <2> QED
    BY <1>4, <1>5, <1>0, <1>10, <2>3 DEF Moves, SoldStep
<1> QED
  BY <1>9, <1>10

\* What the venue's rows say only adds to the position, and the bracket follows.
LEMMA ApplyRowsMoves ==
  ASSUME NEW o, Sound(o), o.kind = "entry", NEW seen, NEW sum \in Nat, Live
  PROVE  /\ Moves(o, ApplyRows(o, seen, sum))
         /\ ApplyRows(o, seen, sum).filled <= sum \/ ApplyRows(o, seen, sum).filled = o.filled
<1> DEFINE f == ApplyFill(o, sum - o.filled)
           e == IF f.status \in {"filled", "partially_filled"} THEN f
                ELSE IF "cancelled" \in seen THEN [f EXCEPT !.status = "cancelled"]
                ELSE IF "expired" \in seen THEN [f EXCEPT !.status = "expired"] ELSE f
           n == ApplyRows(o, seen, sum)
<1>1. /\ GoodOrder(o) /\ o \in OrderRec /\ o.filled \in Nat /\ o.size \in Nat /\ o.size \in Sizes
      /\ o.status # "none"
  BY DEF Sound, GoodOrder, OrderRec
<1>2. sum - o.filled \in Int
  BY <1>1
<1>3. /\ GoodOrder(f) /\ f.filled >= o.filled /\ f.kind = o.kind /\ f.size = o.size
      /\ SoldTotal(f) = SoldTotal(o) /\ f.status # "none"
      /\ f.filled <= sum \/ f.filled = o.filled
  <2>1. /\ GoodOrder(f) /\ f.filled >= o.filled /\ f.kind = o.kind /\ f.size = o.size
        /\ SoldTotal(f) = SoldTotal(o)
    BY <1>1, <1>2, ApplyFillGood, FillFacts
  <2>2. f.status # "none" /\ (f.filled <= sum \/ f.filled = o.filled)
    <3> DEFINE fill == Least(sum - o.filled, o.size - o.filled)
    <3>1. fill \in Int /\ fill <= sum - o.filled
      BY <1>1 DEF Least
    <3>2. /\ fill <= 0 => f = o
          /\ fill > 0 => /\ f.filled = o.filled + fill
                         /\ f.status = IF f.filled = o.size THEN "filled" ELSE "partially_filled"
      BY <1>1, <1>2, FillFacts
    <3> HIDE DEF fill, f
    <3> QED
      BY <1>1, <3>1, <3>2
  <2> QED
    BY <2>1, <2>2
<1>4. n = IF seen = {} THEN o ELSE IF e.filled > 0 /\ EnableBrackets THEN ArmBracketOrders(e) ELSE e
  BY DEF ApplyRows
<1> HIDE DEF f
<1>5. /\ GoodOrder(e) /\ e.filled = f.filled /\ e.kind = f.kind /\ e.size = f.size
      /\ SoldTotal(e) = SoldTotal(f) /\ e.status # "none"
  <2>1. f \in OrderRec
    BY <1>3 DEF GoodOrder
  <2>2. ASSUME NEW st \in {"cancelled", "expired"}
        PROVE  LET g == [f EXCEPT !.status = st] IN
               /\ GoodOrder(g) /\ g.filled = f.filled /\ g.kind = f.kind /\ g.size = f.size
               /\ SoldTotal(g) = SoldTotal(f) /\ g.status # "none"
    <3> DEFINE g == [f EXCEPT !.status = st]
    <3>1. GoodOrder(g)
      BY <1>3, EndRootGood
    <3>2. /\ g.filled = f.filled /\ g.kind = f.kind /\ g.size = f.size
          /\ g.leg = f.leg /\ g.legSize = f.legSize /\ g.status = st
      BY <2>1 DEF OrderRec
    <3> QED
      BY <3>1, <3>2 DEF SoldTotal, LegSold
  <2> QED
    BY <1>3, <2>2
<1> HIDE DEF e
<1>6. CASE seen = {}
  <2>1. n = o
    BY <1>4, <1>6
  <2> QED
    BY <1>1, <2>1 DEF Moves, SoldStep
<1>7. CASE seen # {} /\ e.filled > 0 /\ EnableBrackets
  <2>1. /\ GoodOrder(n) /\ Covered(n)
        /\ n.filled = e.filled /\ n.kind = e.kind /\ n.size = e.size /\ n.status = e.status
        /\ SoldTotal(n) = SoldTotal(e)
    BY <1>4, <1>5, <1>7, ArmCovers
  <2>2. Sound(n)
    BY <1>1, <1>3, <1>5, <2>1 DEF Sound, Halved
  <2> QED
    BY <1>3, <1>5, <2>1, <2>2 DEF Moves, SoldStep
<1>8. CASE seen # {} /\ ~(e.filled > 0 /\ EnableBrackets)
  <2>1. n = e
    BY <1>4, <1>8
  <2>2. Sound(n)
    BY <1>1, <1>3, <1>5, <1>8, <2>1 DEF Sound, Halved, Covered
  <2> QED
    BY <1>3, <1>5, <2>1, <2>2 DEF Moves, SoldStep
<1> QED
  BY <1>6, <1>7, <1>8

\* A new order has sold nothing; when it is filled at once its bracket covers it at once.
LEMMA NewOrderCreates ==
  ASSUME NEW kind \in {"entry", "exit"}, NEW key \in Keys \cup {NoKey}, NEW size \in Sizes
  PROVE  LET o == NewOrder(kind, key, size) IN
         /\ Creates(NoOrder, o) /\ o.kind = kind /\ o.filled = 0 /\ o.eids = {} /\ o.status = "placed"
         /\ kind = "exit" => Creates(NoOrder, ApplyFill(o, size))
                             /\ ApplyFill(o, size).kind = kind
         /\ LET f == ApplyFill(o, size)
                n == IF EnableBrackets THEN ArmBracketOrders(f) ELSE f
            IN Creates(NoOrder, n) /\ n.kind = kind
<1> DEFINE o == NewOrder(kind, key, size)
           f == ApplyFill(o, size)
           n == IF EnableBrackets THEN ArmBracketOrders(f) ELSE f
<1>1. size \in Nat \ {0}
  BY Constants
<1>2. /\ GoodOrder(o) /\ o.kind = kind /\ o.filled = 0 /\ o.size = size
  BY <1>1, NewOrderGood
<1>3. o.status = "placed" /\ o.eids = {} /\ ~HasLegs(o)
  BY DEF NewOrder, NoOrder, HasLegs
<1>4. Creates(NoOrder, o)
  <2>1. SoldTotal(o) = 0
    BY <1>2, <1>3, SoldFacts
  <2>2. Sound(o)
    BY <1>2, <1>3 DEF Sound, Covered, Halved
  <2> QED
    BY <1>2, <2>1, <2>2 DEF Creates
<1> HIDE DEF o
<1>5. Least(size, o.size - o.filled) = size
  BY <1>1, <1>2 DEF Least
<1>6. /\ GoodOrder(f) /\ f.kind = kind /\ f.size = size /\ f.filled = size /\ f.status = "filled"
      /\ SoldTotal(f) = 0
  BY <1>1, <1>2, <1>4, <1>5, ApplyFillGood, FillFacts DEF Creates
<1> HIDE DEF f
<1>7. kind = "exit" => Creates(NoOrder, f)
  BY <1>6 DEF Creates, Sound, Covered, Halved
<1>8. /\ GoodOrder(n) /\ Covered(n) /\ n.kind = kind /\ n.size = size /\ n.status = "filled"
      /\ SoldTotal(n) = 0
  <2>1. CASE EnableBrackets
    BY <1>1, <1>6, <2>1, ArmCovers
  <2>2. CASE ~EnableBrackets
    BY <1>6, <2>2 DEF Covered
  <2> QED
    BY <2>1, <2>2
<1>9. Creates(NoOrder, n)
  BY <1>8 DEF Creates, Sound, Halved
<1> QED
  BY <1>2, <1>3, <1>4, <1>6, <1>7, <1>8, <1>9 DEF o, f

-----------------------------------------------------------------------------
(* The invariant: sound records, and calls that know the record they await *)
(* for.  A call awaits in live mode only; the shutdown hook only cancels,  *)
(* and while the cycle is alone the order it awaits for is open.           *)

RecordsSound == \A r \in Roots : Sound(ord[r]) /\ (r \notin used => ord[r] = NoOrder)

KnownCall(s) ==
  /\ s.pc \notin {"idle", "run"} => Live /\ s.root \in used /\ ord[s.root].kind # "none"
  /\ s.pc \in {"cancelling", "fetching"} => ord[s.root].kind = "entry"

CallsKnown ==
  /\ \A t \in Tasks : KnownCall(task[t])
  /\ task[Shutdown].pc \in {"idle", "run", "cancelling"} /\ task[Shutdown].op \in {"none", "cancel_all"}
  /\ proc # "stopping" => task[Shutdown].pc = "idle"
  /\ proc = "down" => task[Cycle].pc = "idle"
  /\ proc = "up" /\ Waiting(Cycle) => ord[task[Cycle].root].status \in OpenStatuses

SInv == IInv /\ RecordsSound /\ CallsKnown

-----------------------------------------------------------------------------
(* The shape of every step.                                                *)

\* Nobody else works on the orders: paper mode, where no call awaits, or the cycle alone.
Settled == Live => proc = "up"

RecordChange(r, n) ==
  /\ ord' = [ord EXCEPT ![r] = n]
  /\ r \in used'
  /\ Moves(ord[r], n) \/ Creates(ord[r], n)
  /\ Settled /\ ord[r].status \in FINAL_ORDER_STATUSES =>
       n.status = ord[r].status /\ n.filled = ord[r].filled

Changes ==
  /\ used \subseteq used'
  /\ \/ UNCHANGED ord
     \/ \E r \in Roots : \E n : RecordChange(r, n)

TaskMove(t) == \E s \in TaskRec :
  /\ task' = [task EXCEPT ![t] = s]
  /\ KnownCall(s)'
  /\ t = Shutdown => s.pc \in {"idle", "run", "cancelling"} /\ s.op \in {"none", "cancel_all"}
  /\ t = Cycle /\ proc' = "up" /\ s.pc \notin {"idle", "run"} =>
       ord'[s.root].status \in OpenStatuses

Stepped(t) ==
  /\ Changes /\ TaskMove(t) /\ proc' = proc
  /\ t = Shutdown => proc = "stopping"
  /\ proc # "down"

\* A sound record in the place of a sound one leaves all records sound.
LEMMA ChangesKeepRecords ==
  ASSUME SInv, Changes
  PROVE  RecordsSound'
<1>1. ord \in [Roots -> OrderRec]
  BY DEF SInv, IInv, OrdersGood
<1>2. CASE UNCHANGED ord
  BY <1>2 DEF SInv, RecordsSound, Changes
<1>3. ASSUME NEW r \in Roots, NEW n, RecordChange(r, n) PROVE RecordsSound'
  BY <1>1, <1>3 DEF RecordChange, Moves, Creates, SInv, RecordsSound, Changes
<1> QED
  BY <1>2, <1>3 DEF Changes

\* What a call knows of its record stays true when records change by moves.
LEMMA ChangesKeepCall ==
  ASSUME SInv, Changes, NEW s, KnownCall(s), s.pc \notin {"idle", "run"} => s.root \in Roots
  PROVE  KnownCall(s)'
<1>1. ord \in [Roots -> OrderRec]
  BY DEF SInv, IInv, OrdersGood
<1>2. CASE UNCHANGED ord
  BY <1>2 DEF KnownCall, Changes
<1>3. ASSUME NEW r \in Roots, NEW n, RecordChange(r, n) PROVE KnownCall(s)'
  <2>1. s.root \in Roots /\ ord[s.root].kind # "none" => ord'[s.root].kind = ord[s.root].kind
    BY <1>1, <1>3 DEF RecordChange, Moves, Creates, NoOrder
  <2> QED
    BY <2>1 DEF KnownCall, Changes
<1> QED
  BY <1>2, <1>3 DEF Changes

\* The step of one task keeps the invariant.
LEMMA SteppedKeeps ==
  ASSUME SInv, NEW t \in Tasks, Stepped(t)
  PROVE  RecordsSound' /\ CallsKnown'
<1>1. PICK s \in TaskRec :
        /\ task' = [task EXCEPT ![t] = s]
        /\ KnownCall(s)'
        /\ t = Shutdown => s.pc \in {"idle", "run", "cancelling"} /\ s.op \in {"none", "cancel_all"}
        /\ t = Cycle /\ proc' = "up" /\ s.pc \notin {"idle", "run"} =>
             ord'[s.root].status \in OpenStatuses
  BY DEF Stepped, TaskMove
<1>2. /\ task \in [Tasks -> TaskRec] /\ \A u \in Tasks : CallSound(task[u])
      /\ CallsKnown /\ Cycle # Shutdown
  BY ExecutorAssumption DEF SInv, IInv, CallsGood
<1>3. task'[t] = s /\ \A u \in Tasks : u # t => task'[u] = task[u]
  BY <1>1, <1>2
<1>4. RecordsSound'
  BY ChangesKeepRecords DEF Stepped
<1>5. \A u \in Tasks : KnownCall(task[u])'
  <2> TAKE u \in Tasks
  <2>1. KnownCall(task[u]) /\ CallSound(task[u])
    BY <1>2 DEF CallsKnown
  <2>2. ASSUME NEW x, x = task[u] PROVE KnownCall(x)'
    BY <2>1, <2>2, ChangesKeepCall DEF Stepped, CallSound
  <2>3. CASE u # t
    BY <1>3, <2>2, <2>3 DEF KnownCall
  <2>4. CASE u = t
    BY <1>1, <1>3, <2>4 DEF KnownCall
  <2> QED
    BY <2>3, <2>4
<1>6. CASE t = Shutdown
  BY <1>1, <1>2, <1>3, <1>5, <1>4, <1>6 DEF CallsKnown, Stepped, Waiting, Tasks
<1>7. CASE t = Cycle
  BY <1>1, <1>2, <1>3, <1>5, <1>4, <1>7 DEF CallsKnown, Stepped, Waiting, Tasks
<1> QED
  BY <1>6, <1>7 DEF Tasks

-----------------------------------------------------------------------------
(* Every step of a task has that shape.                                    *)

\* What the invariant says of one record and one call.
LEMMA Known ==
  ASSUME SInv, NEW t \in Tasks
  PROVE  /\ ord \in [Roots -> OrderRec] /\ used \in SUBSET Roots /\ task \in [Tasks -> TaskRec]
         /\ task[t] \in TaskRec /\ CallSound(task[t]) /\ KnownCall(task[t])
         /\ task[t].pc \notin {"idle", "run"} =>
              task[t].root \in Roots /\ task[t].root \in used
              /\ Sound(ord[task[t].root]) /\ ord[task[t].root].kind # "none" /\ Live
         /\ \A r \in Roots : Sound(ord[r]) /\ GoodOrder(ord[r]) /\ ord[r] \in OrderRec
                             /\ (r \notin used => ord[r] = NoOrder)
         /\ t = Shutdown /\ task[t].pc # "idle" => proc = "stopping"
         /\ task[t].pc # "idle" => proc # "down"
         /\ t = Shutdown => task[t].pc \in {"idle", "run", "cancelling"}
                            /\ task[t].op \in {"none", "cancel_all"}
<1>1. /\ OrdersGood /\ CallsGood /\ OutsideGood /\ RecordsSound /\ CallsKnown
  BY DEF SInv, IInv
<1>2. /\ ord \in [Roots -> OrderRec] /\ used \in SUBSET Roots
      /\ task \in [Tasks -> TaskRec] /\ task[t] \in TaskRec /\ CallSound(task[t])
      /\ KnownCall(task[t])
  BY <1>1 DEF OrdersGood, CallsGood, OutsideGood, CallsKnown
<1>3. \A r \in Roots : Sound(ord[r]) /\ GoodOrder(ord[r]) /\ ord[r] \in OrderRec
                       /\ (r \notin used => ord[r] = NoOrder)
  BY <1>1 DEF RecordsSound, Sound, GoodOrder
<1>4. task[t].pc \notin {"idle", "run"} =>
        task[t].root \in Roots /\ task[t].root \in used
        /\ Sound(ord[task[t].root]) /\ ord[task[t].root].kind # "none" /\ Live
  BY <1>2, <1>3 DEF CallSound, KnownCall
<1>5. /\ t = Shutdown /\ task[t].pc # "idle" => proc = "stopping"
      /\ task[t].pc # "idle" => proc # "down"
      /\ t = Shutdown => task[t].pc \in {"idle", "run", "cancelling"}
                         /\ task[t].op \in {"none", "cancel_all"}
  BY <1>1 DEF CallsKnown, Tasks
<1> QED
  BY <1>2, <1>3, <1>4, <1>5

\* A call that goes on to the next element of its list awaits nothing.
LEMMA ContinueMoves ==
  ASSUME SInv, NEW t \in Tasks, Continue(t), task[t].todo # <<>>
  PROVE  TaskMove(t)
<1> DEFINE s == [task[t] EXCEPT !.pc = "run", !.todo = Tail(@), !.root = NoRoot,
                                !.left = {}, !.chunk = 0, !.seen = {}, !.sum = 0]
<1>1. task[t] \in TaskRec /\ Tail(task[t].todo) \in Seq(Ids)
  <2>1. task[t] \in TaskRec
    BY Known
  <2>2. task[t].todo \in Seq(Ids)
    BY <2>1 DEF TaskRec
  <2> QED
    BY <2>1, <2>2
<1>2. s \in TaskRec
  <2>1. "run" \in PCs /\ {} \in SUBSET Chunks /\ {} \in SUBSET VenueStates /\ 0 \in 0..MaxChunks
    BY Constants DEF PCs
  <2> QED
    BY <1>1, <2>1 DEF TaskRec
<1>3. s.pc = "run" /\ s.op = task[t].op
  BY <1>1 DEF TaskRec
<1>4. task' = [task EXCEPT ![t] = s]
  BY DEF Continue, SetTask
<1> HIDE DEF s
<1> QED
  BY <1>2, <1>3, <1>4, Known DEF TaskMove, KnownCall

\* A call that returns awaits nothing.
LEMMA ReturnMoves ==
  ASSUME SInv, NEW t \in Tasks, Return(t)
  PROVE  TaskMove(t)
<1>1. IdleTask \in TaskRec /\ IdleTask.pc = "idle" /\ IdleTask.op = "none"
  BY IdleTaskGood, Constants DEF IdleTask
<1> QED
  BY <1>1 DEF Return, SetTask, TaskMove, KnownCall

\* A loop over a snapshot awaits nothing at its start.
LEMMA ScanMoves ==
  ASSUME SInv, NEW t \in Tasks, NEW op \in Ops, NEW snapshot \in Seq(Ids), NEW books \in SUBSET Keys,
         Scan(t, op, snapshot, books), t = Shutdown => op = "cancel_all"
  PROVE  TaskMove(t)
<1> DEFINE s == [IdleTask EXCEPT !.pc = "run", !.op = op, !.todo = snapshot, !.books = books]
<1>1. IdleTask \in TaskRec
  BY IdleTaskGood, Constants
<1>2. s \in TaskRec
  BY <1>1 DEF TaskRec, PCs
<1>3. s.pc = "run" /\ s.op = op
  BY <1>1 DEF TaskRec
<1>4. task' = [task EXCEPT ![t] = s]
  BY DEF Scan, SetTask
<1> HIDE DEF s
<1> QED
  BY <1>2, <1>3, <1>4 DEF TaskMove, KnownCall

\* A call that only moves on in its own local state, waiting for the same open order.
LEMMA WaitMoves ==
  ASSUME SInv, NEW t \in Tasks, NEW s \in TaskRec, SetTask(t, s),
         UNCHANGED <<ord, proc>>, used \subseteq used', Live,
         s.root \in used, ord[s.root].kind # "none",
         s.pc \in {"cancelling", "fetching"} => ord[s.root].kind = "entry",
         t = Shutdown => s.pc = "cancelling" /\ s.op = task[t].op,
         proc = "up" => ord[s.root].status \in OpenStatuses
  PROVE  TaskMove(t)
BY Known DEF SetTask, TaskMove, KnownCall

\* A step that leaves the records alone.
LEMMA NoChange == UNCHANGED <<ord, used>> => Changes
BY DEF Changes

\* A step that moves one existing record.
LEMMA OneChange ==
  ASSUME SInv, NEW r \in Roots, NEW n, SetOrder(r, n), Moves(ord[r], n), UNCHANGED used, r \in used,
         Settled /\ ord[r].status \in FINAL_ORDER_STATUSES =>
           n.status = ord[r].status /\ n.filled = ord[r].filled
  PROVE  Changes
BY DEF SetOrder, Changes, RecordChange

\* A step that creates a record under a fresh id.
LEMMA OneCreation ==
  ASSUME SInv, NEW r \in Roots, NEW n, SetOrder(r, n), Creates(NoOrder, n), r \notin used,
         used' = used \cup {r}
  PROVE  Changes
<1>1. ord[r] = NoOrder
  BY DEF SInv, RecordsSound
<1>2. NoOrder.status = "none"
  BY DEF NoOrder
<1> QED
  BY <1>1, <1>2 DEF SetOrder, Changes, RecordChange

\* A new call.
LEMMA CallStepped ==
  ASSUME SInv, NEW t \in Tasks, Call(t)
  PROVE  Stepped(t)
<1>1. /\ orders \in Seq(Ids) /\ task \in [Tasks -> TaskRec] /\ IdleTask \in TaskRec
      /\ task[t] \in TaskRec /\ Cycle # Shutdown
  BY IdleTaskGood, Constants, ExecutorAssumption DEF SInv, IInv, OrdersGood, CallsGood
<1>2. t = Cycle /\ proc # "down" /\ task[t].pc = "idle"
  BY DEF Call, PlacePaper, PlaceLive, Admits, CloseCall, ReconcileCall, CancelAllCall, CancelExpiredCall,
         CancelOneCall, MayCall
<1>3. ASSUME UNCHANGED task PROVE TaskMove(t)
  BY <1>1, <1>2, <1>3 DEF TaskMove, KnownCall
<1>4. ASSUME NEW r \in Roots, NEW k \in Keys, NEW s \in Sizes, PlacePaper(t, r, k, s) PROVE Stepped(t)
  <2> DEFINE o == NewOrder("entry", k, s)
             f == IF PaperFillOnPlace THEN ApplyFill(o, s) ELSE o
             n == IF PaperFillOnPlace /\ EnableBrackets THEN ArmBracketOrders(f) ELSE f
  <2>1. SetOrder(r, n) /\ r \notin used /\ used' = used \cup {r} /\ UNCHANGED <<task, proc>>
    BY <1>4 DEF PlacePaper, Admits, outside
  <2>2. Creates(NoOrder, n)
    BY NewOrderCreates
  <2> HIDE DEF n
  <2>3. Changes
    BY <2>1, <2>2, OneCreation
  <2>4. TaskMove(t)
    BY <1>3, <2>1
  <2> QED
    BY <1>2, <2>1, <2>3, <2>4, <1>1 DEF Stepped
<1>5. ASSUME NEW r \in Roots, NEW k \in Keys, NEW s \in Sizes, PlaceLive(t, r, k, s) PROVE Stepped(t)
  <2> DEFINE o == NewOrder("entry", k, s)
             x == [IdleTask EXCEPT !.pc = "preflight", !.op = "place", !.root = r, !.n = NChunks(s)]
  <2>1. /\ SetOrder(r, o) /\ r \notin used /\ used' = used \cup {r} /\ Live /\ UNCHANGED proc
        /\ task' = [task EXCEPT ![t] = x]
    BY <1>5 DEF PlaceLive, Admits, SetTask
  <2>2. Creates(NoOrder, o) /\ o.kind = "entry" /\ o.status = "placed"
    BY NewOrderCreates
  <2>3. x \in TaskRec /\ x.pc = "preflight" /\ x.root = r
    <3>1. NChunks(s) \in 1..MaxChunks
      BY ChunkCount
    <3> QED
      BY <1>1, <3>1 DEF TaskRec, PCs, Ops
  <2> HIDE DEF x, o
  <2>4. Changes /\ ord'[r] = o
    BY <2>1, <2>2, OneCreation, Known DEF SetOrder
  <2>5. KnownCall(x)'
    BY <2>1, <2>2, <2>3, <2>4 DEF KnownCall
  <2> QED
    BY <1>1, <1>2, <2>1, <2>2, <2>3, <2>4, <2>5 DEF Stepped, TaskMove
<1>6. ASSUME NEW r \in Roots, NEW s \in Sizes, CloseCall(t, r, s) PROVE Stepped(t)
  <2> DEFINE o == NewOrder("exit", NoKey, s)
             n == IF Live THEN o ELSE ApplyFill(o, s)
             x == [IdleTask EXCEPT !.pc = "posting", !.op = "close", !.root = r, !.chunk = 1]
  <2>1. /\ SetOrder(r, n) /\ r \notin used /\ used' = used \cup {r} /\ UNCHANGED proc
        /\ IF Live THEN task' = [task EXCEPT ![t] = x] ELSE UNCHANGED task
    BY <1>6 DEF CloseCall, SetTask
  <2>2. Creates(NoOrder, n) /\ n.kind = "exit" /\ (Live => n.status = "placed")
    BY NewOrderCreates
  <2>3. x \in TaskRec /\ x.pc = "posting" /\ x.root = r
    <3>1. "posting" \in PCs /\ "close" \in Ops /\ 1 \in 0..MaxChunks
      BY Constants DEF PCs, Ops
    <3> QED
      BY <1>1, <3>1 DEF TaskRec
  <2> HIDE DEF x, n
  <2>4. Changes /\ ord'[r] = n
    BY <2>1, <2>2, OneCreation, Known DEF SetOrder
  <2>5. CASE Live
    <3>1. KnownCall(x)'
      BY <2>1, <2>2, <2>3, <2>4, <2>5 DEF KnownCall
    <3> QED
      BY <1>1, <1>2, <2>1, <2>2, <2>3, <2>4, <2>5, <3>1 DEF Stepped, TaskMove
  <2>6. CASE ~Live
    <3>1. TaskMove(t)
      BY <1>3, <2>1, <2>6
    <3> QED
      BY <1>1, <1>2, <2>1, <2>4, <3>1 DEF Stepped
  <2> QED
    BY <2>5, <2>6
<1>7. ASSUME NEW op \in Ops, NEW snapshot \in Seq(Ids), NEW books \in SUBSET Keys,
             Scan(t, op, snapshot, books), UNCHANGED <<ord, used, proc>>
      PROVE  Stepped(t)
  BY <1>1, <1>2, <1>7, ScanMoves, NoChange DEF Stepped
<1>8. CASE ReconcileCall(t)
  <2>1. PICK books \in SUBSET Keys : Scan(t, "reconcile", orders, books)
    BY <1>8 DEF ReconcileCall
  <2>2. "reconcile" \in Ops /\ UNCHANGED <<ord, used, proc>>
    BY <1>8 DEF ReconcileCall, memory, outside, Ops
  <2> QED
    BY <1>1, <1>7, <2>1, <2>2
<1>9. CASE CancelAllCall(t)
  <2>1. Scan(t, "cancel_all", orders, {}) /\ "cancel_all" \in Ops /\ UNCHANGED <<ord, used, proc>>
    BY <1>9 DEF CancelAllCall, memory, outside, Ops
  <2> QED
    BY <1>1, <1>7, <2>1
<1>10. CASE CancelExpiredCall(t)
  <2>1. Scan(t, "cancel_expired", orders, {}) /\ "cancel_expired" \in Ops /\ UNCHANGED <<ord, used, proc>>
    BY <1>10 DEF CancelExpiredCall, memory, outside, Ops
  <2> QED
    BY <1>1, <1>7, <2>1
<1>11. ASSUME NEW r \in Roots, CancelOneCall(t, r) PROVE Stepped(t)
  <2> DEFINE snapshot == << <<r, "root">> >>
  <2>1. Scan(t, "cancel_all", snapshot, {}) /\ "cancel_all" \in Ops /\ UNCHANGED <<ord, used, proc>>
    BY <1>11 DEF CancelOneCall, memory, outside, Ops
  <2>2. snapshot \in Seq(Ids)
    BY DEF Ids, Slots
  <2> HIDE DEF snapshot
  <2> QED
    BY <1>7, <2>1, <2>2
<1> QED
  BY <1>4, <1>5, <1>6, <1>8, <1>9, <1>10, <1>11 DEF Call

\* The next step of a call under way: placing orders.
LEMMA PlacingStepped ==
  ASSUME SInv, NEW t \in Tasks,
         \/ PreflightOk(t) \/ PreflightFail(t) \/ NextChunk(t) \/ PostFail(t)
         \/ \E named \in BOOLEAN : PostReplyMore(t, named) \/ PostReplyLast(t, named)
  PROVE  Stepped(t)
<1> DEFINE r == task[t].root
<1>1. /\ task[t].pc \in {"preflight", "posting", "pause"} /\ UNCHANGED <<used, proc>>
  BY DEF PreflightOk, PreflightFail, NextChunk, PostFail, PostReplyMore, PostReplyLast, At, Answered,
         Send, outside
<1>2. /\ task[t] \in TaskRec /\ CallSound(task[t]) /\ r \in Roots /\ r \in used
      /\ Sound(ord[r]) /\ ord[r].kind # "none" /\ Live /\ proc # "down" /\ t # Shutdown
      /\ task[t].chunk \in Nat /\ MaxChunks \in Nat /\ task[t].n \in 1..MaxChunks
  <2>1. task[t] \in TaskRec /\ task[t].chunk \in 0..MaxChunks /\ task[t].n \in 1..MaxChunks /\ MaxChunks \in Nat
    BY Known, Constants DEF TaskRec
  <2> QED
    BY <1>1, <2>1, Known
<1>3. t = Cycle /\ (proc = "up" => ord[r].status \in OpenStatuses)
  BY <1>1, <1>2 DEF SInv, CallsKnown, Waiting, Tasks
<1>4. Settled => ord[r].status \notin FINAL_ORDER_STATUSES
  BY <1>2, <1>3 DEF Settled
<1>5. ASSUME NEW n, SetOrder(r, n), Moves(ord[r], n), Return(t) PROVE Stepped(t)
  BY <1>1, <1>2, <1>4, <1>5, OneChange, ReturnMoves DEF Stepped
<1>6. ASSUME NEW s \in TaskRec, SetTask(t, s), UNCHANGED ord,
             s.root = r, s.pc \in {"posting", "pause"}
      PROVE  Stepped(t)
  BY <1>1, <1>2, <1>3, <1>6, WaitMoves, NoChange DEF Stepped
<1>7. ASSUME NEW c \in Chunks, Send(t, c), UNCHANGED ord PROVE Stepped(t)
  <2> DEFINE s == [task[t] EXCEPT !.pc = "posting", !.chunk = c]
  <2>1. s \in TaskRec /\ s.root = r /\ s.pc = "posting"
    <3>1. "posting" \in PCs /\ c \in 0..MaxChunks
      BY <1>2 DEF PCs, Chunks
    <3> QED
      BY <1>2, <3>1 DEF TaskRec
  <2>2. SetTask(t, s)
    BY <1>7 DEF Send
  <2> HIDE DEF s
  <2> QED
    BY <1>6, <1>7, <2>1, <2>2
<1>8. CASE PreflightOk(t)
  BY <1>7, <1>8, Constants DEF PreflightOk, memory, Chunks
<1>9. CASE NextChunk(t)
  <2>1. task[t].chunk + 1 \in Chunks
    BY <1>2, <1>9 DEF NextChunk, At, CallSound, Chunks
  <2> QED
    BY <1>7, <1>9, <2>1 DEF NextChunk, memory
<1>10. CASE PreflightFail(t) \/ PostFail(t)
  BY <1>2, <1>5, <1>10, EndRootMoves DEF PreflightFail, PostFail
<1>11. ASSUME NEW named \in BOOLEAN, Answered(t, named) PROVE GotIds(t, named) \in SUBSET Chunks
  <2>1. task[t].pc = "posting" /\ task[t].got \in SUBSET Chunks
    BY <1>2, <1>11 DEF Answered, At, TaskRec
  <2> QED
    BY <1>2, <2>1 DEF GotIds, CallSound
<1>12. ASSUME NEW named \in BOOLEAN, PostReplyMore(t, named) PROVE Stepped(t)
  <2> DEFINE s == [task[t] EXCEPT !.pc = "pause", !.got = GotIds(t, named)]
  <2>1. s \in TaskRec /\ s.root = r /\ s.pc = "pause"
    <3>1. "pause" \in PCs /\ GotIds(t, named) \in SUBSET Chunks
      BY <1>11, <1>12 DEF PCs, PostReplyMore
    <3> QED
      BY <1>2, <3>1 DEF TaskRec
  <2>2. SetTask(t, s) /\ UNCHANGED ord
    BY <1>12 DEF PostReplyMore, memory
  <2> HIDE DEF s
  <2> QED
    BY <1>6, <2>1, <2>2
<1>13. ASSUME NEW named \in BOOLEAN, PostReplyLast(t, named) PROVE Stepped(t)
  <2>1. Moves(ord[r], WithIds(ord[r], GotIds(t, named)))
    BY <1>2, <1>11, <1>13, MarkMoves DEF PostReplyLast
  <2> QED
    BY <1>5, <1>13, <2>1 DEF PostReplyLast
<1> QED
  BY <1>8, <1>9, <1>10, <1>12, <1>13

\* The head of a snapshot, in a loop that has something to visit.
LEMMA HeadKnown ==
  ASSUME SInv, NEW t \in Tasks, NEW op, Visiting(t, op)
  PROVE  LET id == Visited(t) IN
         /\ task[t].pc = "run" /\ task[t].todo # <<>> /\ id \in Ids /\ id[1] \in Roots /\ id[2] \in Slots
         /\ Sound(ord[id[1]])
<1>1. task[t].todo # <<>> /\ task[t].pc = "run"
  BY DEF Visiting, At
<1>2. Visited(t) \in Ids
  BY <1>1, VisitedGood DEF SInv, IInv
<1> QED
  BY <1>1, <1>2, Known DEF Ids

\* The next step of a call under way: cancelling.
LEMMA CancellingStepped ==
  ASSUME SInv, NEW t \in Tasks,
         \/ ScanSkip(t) \/ ScanExpire(t) \/ ScanCancelLocal(t) \/ ScanCancelNoIds(t)
         \/ ScanCancelLive(t) \/ CancelReplyMore(t) \/ CancelReplyLast(t) \/ CancelFail(t)
  PROVE  Stepped(t)
<1> DEFINE id == Visited(t)
           q == task[t].root
<1>1. task[t].pc \in {"run", "cancelling"} /\ UNCHANGED <<used, proc>>
  BY DEF ScanSkip, ScanExpire, ScanCancelLocal, ScanCancelNoIds, ScanCancelLive, CancelReplyMore,
         CancelReplyLast, CancelFail, CancelReply, Scanning, LiveEntryToCancel, Visiting, At, SendCancel, outside
<1>2. /\ task[t] \in TaskRec /\ CallSound(task[t]) /\ proc # "down" /\ (t = Shutdown => proc = "stopping")
      /\ used \in SUBSET Roots
  BY <1>1, Known
<1>3. ASSUME Scanning(t)
      PROVE  /\ task[t].pc = "run" /\ task[t].todo # <<>> /\ id \in Ids /\ id[1] \in Roots /\ id[2] \in Slots
             /\ Sound(ord[id[1]])
  BY <1>3, HeadKnown DEF Scanning
<1>4. ASSUME task[t].pc = "cancelling"
      PROVE  /\ q \in Roots /\ q \in used /\ Sound(ord[q]) /\ ord[q].kind = "entry" /\ Live
             /\ task[t].todo # <<>>
             /\ (proc = "up" => ord[q].status \in OpenStatuses)
  <2>1. proc = "up" => ord[q].status \in OpenStatuses
    BY <1>2, <1>4 DEF SInv, CallsKnown, Waiting, Tasks
  <2> QED
    BY <1>4, <2>1, Known DEF CallSound, KnownCall
<1>5. ASSUME UNCHANGED ord, Continue(t), task[t].todo # <<>> PROVE Stepped(t)
  BY <1>1, <1>2, <1>5, ContinueMoves, NoChange DEF Stepped
<1>6. ASSUME NEW r \in Roots, NEW n, SetOrder(r, n), Moves(ord[r], n), ord[r].kind # "none",
             Continue(t), task[t].todo # <<>>,
             Settled /\ ord[r].status \in FINAL_ORDER_STATUSES =>
               n.status = ord[r].status /\ n.filled = ord[r].filled
      PROVE  Stepped(t)
  <2>1. r \in used
    BY <1>6, Known DEF NoOrder
  <2> QED
    BY <1>1, <1>2, <1>6, <2>1, ContinueMoves, OneChange DEF Stepped
<1>7. CASE ScanSkip(t)
  BY <1>3, <1>5, <1>7 DEF ScanSkip, memory
<1>8. ASSUME NEW r \in Roots, NEW l \in Legs, ord[r].leg[l] = "armed" PROVE ord[r].kind = "entry"
  BY <1>8, Known DEF GoodOrder, FillsAgree
<1>9. CASE ScanExpire(t)
  <2>1. id[2] \in Legs /\ ord[id[1]].leg[id[2]] = "armed" /\ id[1] \in Roots /\ Sound(ord[id[1]])
        /\ task[t].todo # <<>>
    BY <1>3, <1>9 DEF ScanExpire, ToExpire, StatusOf
  <2> DEFINE n == ExpireLegOnly(ord[id[1]], id[2])
  <2>2. Moves(ord[id[1]], n) /\ n.status = ord[id[1]].status /\ n.filled = ord[id[1]].filled
    BY <2>1, EndLegMoves
  <2>3. SetOrder(id[1], n) /\ Continue(t)
    BY <1>9 DEF ScanExpire
  <2> HIDE DEF n, id
  <2> QED
    BY <1>6, <1>8, <2>1, <2>2, <2>3
<1>10. CASE ScanCancelLocal(t)
  <2> DEFINE o == ord[id[1]]
             n == IF id[2] = "root" THEN CancelLocal(o) ELSE CancelLeg(o, id[2])
  <2>1. ToCancel(t, id) /\ SetOrder(id[1], n) /\ Continue(t) /\ Scanning(t)
    BY <1>10 DEF ScanCancelLocal
  <2>2. id \in Ids /\ id[1] \in Roots /\ id[2] \in Slots /\ Sound(o) /\ o \in OrderRec /\ task[t].todo # <<>>
    BY <1>3, <2>1, Known
  <2>3. CASE id[2] = "root"
    <3>1. o.status \in OpenStatuses
      BY <2>1, <2>2, <2>3 DEF ToCancel, Open, StatusOf, OrderRec
    <3>2. o.kind # "none"
      BY <2>2, <3>1 DEF Sound
    <3>3. Moves(o, n)
      BY <2>2, <2>3, <3>2, EndRootMoves
    <3> HIDE DEF n, id
    <3> QED
      BY <1>6, <2>1, <2>2, <3>1, <3>2, <3>3
  <2>4. CASE id[2] # "root"
    <3>1. id[2] \in Legs
      BY <2>2, <2>4 DEF Slots
    <3>2. o.leg[id[2]] = "armed"
      BY <2>1, <2>2, <2>4, <3>1 DEF ToCancel, Open, StatusOf, OrderRec
    <3>3. Moves(o, n) /\ n.status = o.status /\ n.filled = o.filled
      BY <2>2, <2>4, <3>1, <3>2, EndLegMoves
    <3> HIDE DEF n, id
    <3> QED
      BY <1>6, <1>8, <2>1, <2>2, <3>1, <3>2, <3>3
  <2> QED
    BY <2>3, <2>4
<1>11. ASSUME NEW r \in Roots, LiveEntryToCancel(t, r)
       PROVE  /\ task[t].pc = "run" /\ task[t].todo # <<>> /\ Live /\ r \in used
              /\ Sound(ord[r]) /\ ord[r].kind = "entry" /\ ord[r].status \in OpenStatuses
  <2>1. /\ id = <<r, "root">> /\ ToCancel(t, id) /\ Scanning(t) /\ Live /\ ord[r].kind = "entry"
    BY <1>11 DEF LiveEntryToCancel
  <2>2. ord[r].status \in OpenStatuses
    <3>1. ord[r] \in OrderRec
      BY Known
    <3> HIDE DEF id
    <3> QED
      BY <2>1, <3>1 DEF ToCancel, Open, StatusOf, OrderRec
  <2> QED
    BY <1>3, <2>1, <2>2, Known DEF NoOrder
<1>12. CASE ScanCancelNoIds(t)
  <2>1. PICK r \in Roots : LiveEntryToCancel(t, r) /\ SetOrder(r, CancelLive(ord[r])) /\ Continue(t)
    BY <1>12 DEF ScanCancelNoIds
  <2>2. Moves(ord[r], CancelLive(ord[r]))
    BY <1>11, <2>1, EndRootMoves
  <2> QED
    BY <1>6, <1>11, <2>1, <2>2
<1>13. ASSUME NEW r \in Roots, NEW ids \in SUBSET Chunks, SendCancel(t, r, ids), Live, r \in used,
              ord[r].kind = "entry", proc = "up" => ord[r].status \in OpenStatuses
       PROVE  Stepped(t)
  <2>1. PICK c \in Chunks :
          /\ SetTask(t, [task[t] EXCEPT !.pc = "cancelling", !.root = r, !.chunk = c, !.left = ids \ {c}])
          /\ UNCHANGED <<ord, used, proc>>
    BY <1>13 DEF SendCancel, memory
  <2> DEFINE s == [task[t] EXCEPT !.pc = "cancelling", !.root = r, !.chunk = c, !.left = ids \ {c}]
  <2>2. s \in TaskRec
    <3>1. "cancelling" \in PCs /\ c \in 0..MaxChunks /\ ids \ {c} \in SUBSET Chunks
      BY Constants DEF PCs, Chunks
    <3> QED
      BY <1>2, <3>1 DEF TaskRec
  <2>3. s.pc = "cancelling" /\ s.root = r /\ s.op = task[t].op
    BY <1>2 DEF TaskRec
  <2>4. SetTask(t, s)
    BY <2>1
  <2> HIDE DEF s
  <2>5. TaskMove(t)
    BY <1>13, <2>1, <2>2, <2>3, <2>4, WaitMoves
  <2> QED
    BY <1>2, <2>1, <2>5, NoChange DEF Stepped
<1>14. CASE ScanCancelLive(t)
  <2>1. PICK r \in Roots : LiveEntryToCancel(t, r) /\ SendCancel(t, r, ord[r].eids)
    BY <1>14 DEF ScanCancelLive
  <2>2. ord[r].eids \in SUBSET Chunks
    BY Known DEF OrderRec
  <2> QED
    BY <1>11, <1>13, <2>1, <2>2
<1>15. CASE CancelReplyMore(t)
  <2>1. task[t].left \in SUBSET Chunks /\ task[t].pc = "cancelling"
    BY <1>2, <1>15 DEF TaskRec, CancelReplyMore, CancelReply, At
  <2> QED
    BY <1>4, <1>13, <1>15, <2>1 DEF CancelReplyMore
<1>16. CASE CancelReplyLast(t)
  <2>1. task[t].pc = "cancelling" /\ SetOrder(q, CancelLive(ord[q])) /\ Continue(t)
    BY <1>16 DEF CancelReplyLast, CancelReply, At
  <2>2. Moves(ord[q], CancelLive(ord[q]))
    BY <1>4, <2>1, EndRootMoves
  <2>3. Settled => ord[q].status \notin FINAL_ORDER_STATUSES
    BY <1>4, <2>1 DEF Settled
  <2> QED
    BY <1>4, <1>6, <2>1, <2>2, <2>3
<1>17. CASE CancelFail(t)
  BY <1>4, <1>5, <1>17 DEF CancelFail, At, memory
<1> QED
  BY <1>7, <1>9, <1>10, <1>12, <1>14, <1>15, <1>16, <1>17

\* The next step of a call under way: reconciling.
LEMMA ReconcilingStepped ==
  ASSUME SInv, NEW t \in Tasks,
         \/ VisitSkip(t)
         \/ \E r \in Roots : VisitPaperEntry(t, r) \/ VisitLiveEntry(t, r)
         \/ \E r \in Roots, l \in Legs : VisitLegExpired(t, r, l) \/ VisitLegTriggered(t, r, l)
         \/ FetchReply(t) \/ FetchFail(t) \/ ReconcileDone(t)
  PROVE  Stepped(t)
<1> DEFINE q == task[t].root
<1>1. task[t].pc \in {"run", "fetching"}
  BY DEF VisitSkip, VisitPaperEntry, VisitLiveEntry, VisitLegExpired, VisitLegTriggered, FetchReply,
         FetchFail, ReconcileDone, VisitRoot, VisitArmedLeg, Visiting, At
<1>2. /\ task[t] \in TaskRec /\ CallSound(task[t]) /\ proc # "down" /\ (t = Shutdown => proc = "stopping")
      /\ used \in SUBSET Roots
  BY <1>1, Known
<1>3. task[t].pc = "fetching" \/ task[t].op = "reconcile" => t # Shutdown
  BY Known
<1>4. UNCHANGED <<used, proc>>
  BY DEF VisitSkip, VisitPaperEntry, VisitLiveEntry, VisitLegExpired, VisitLegTriggered, FetchReply,
         FetchFail, ReconcileDone, Fetched, Fetch, Apply, outside
<1>5. ASSUME UNCHANGED ord, Continue(t), task[t].todo # <<>> PROVE Stepped(t)
  BY <1>2, <1>4, <1>5, ContinueMoves, NoChange DEF Stepped
<1>6. ASSUME NEW r \in Roots, NEW n, SetOrder(r, n), Moves(ord[r], n), ord[r].kind # "none",
             Continue(t), task[t].todo # <<>>,
             Settled /\ ord[r].status \in FINAL_ORDER_STATUSES =>
               n.status = ord[r].status /\ n.filled = ord[r].filled
      PROVE  Stepped(t)
  <2>1. r \in used
    BY <1>6, Known DEF NoOrder
  <2> QED
    BY <1>2, <1>4, <1>6, <2>1, ContinueMoves, OneChange DEF Stepped
<1>7. CASE VisitSkip(t)
  BY <1>5, <1>7, HeadKnown DEF VisitSkip, memory
<1>8. ASSUME NEW r \in Roots, OpenEntry(r)
      PROVE  /\ Sound(ord[r]) /\ ord[r].kind = "entry" /\ ord[r].status \in OpenStatuses
             /\ r \in used /\ ord[r].eids \in SUBSET Chunks
  BY <1>8, Known DEF OpenEntry, Sound, OrderRec, NoOrder
<1>9. ASSUME NEW r \in Roots, VisitPaperEntry(t, r) PROVE Stepped(t)
  <2>1. PICK o \in {ord[r], PaperFill(ord[r])} : SetOrder(r, ArmIfMissing(o))
    BY <1>9 DEF VisitPaperEntry
  <2>2. ~Live /\ OpenEntry(r) /\ Continue(t) /\ task[t].todo # <<>>
    BY <1>9 DEF VisitPaperEntry, VisitRoot, Visiting
  <2>3. Moves(ord[r], o)
    <3>1. Moves(ord[r], ord[r])
      BY <1>8, <2>2, Known DEF Moves, SoldStep, Sound, GoodOrder, OrderRec
    <3>2. Moves(ord[r], PaperFill(ord[r]))
      BY <1>8, <2>2, PaperFillMoves
    <3> QED
      BY <2>1, <3>1, <3>2
  <2> DEFINE n == ArmIfMissing(o)
  <2>4. /\ Sound(n) /\ n.filled = o.filled /\ n.kind = o.kind /\ n.size = o.size
        /\ SoldTotal(n) = SoldTotal(o)
    BY <2>3, ArmIfMissingMoves DEF Moves
  <2>5. SetOrder(r, n)
    BY <2>1
  <2> HIDE DEF n
  <2>6. Moves(ord[r], n)
    BY <2>3, <2>4 DEF Moves, SoldStep
  <2> QED
    BY <1>6, <1>8, <2>2, <2>5, <2>6
<1>10. ASSUME NEW r \in Roots, NEW l \in Legs, VisitLegExpired(t, r, l) PROVE Stepped(t)
  <2>1. /\ task[t].todo # <<>> /\ ord[r].leg[l] = "armed" /\ Continue(t)
        /\ SetOrder(r, ExpireLeg(ord[r], l))
    BY <1>10 DEF VisitLegExpired, VisitArmedLeg, Visiting
  <2> DEFINE n == ExpireLeg(ord[r], l)
  <2>2. Moves(ord[r], n) /\ n.status = ord[r].status /\ n.filled = ord[r].filled
    BY <2>1, Known, EndLegMoves
  <2>3. ord[r].kind = "entry" /\ SetOrder(r, n)
    BY <2>1, Known DEF GoodOrder, FillsAgree
  <2> HIDE DEF n
  <2> QED
    BY <1>6, <2>1, <2>2, <2>3
<1>11. ASSUME NEW r \in Roots, NEW l \in Legs, VisitLegTriggered(t, r, l) PROVE Stepped(t)
  <2>1. /\ task[t].todo # <<>> /\ ord[r].leg[l] = "armed" /\ Continue(t)
        /\ SetOrder(r, TriggerLeg(ord[r], l))
    BY <1>11 DEF VisitLegTriggered, VisitArmedLeg, Visiting
  <2> DEFINE n == TriggerLeg(ord[r], l)
  <2>2. Moves(ord[r], n) /\ n.status = ord[r].status /\ n.filled = ord[r].filled
    BY <2>1, Known, TriggerMoves
  <2>3. ord[r].kind = "entry" /\ SetOrder(r, n)
    BY <2>1, Known DEF GoodOrder, FillsAgree
  <2> HIDE DEF n
  <2> QED
    BY <1>6, <2>1, <2>2, <2>3
<1>12. ASSUME NEW r \in Roots, NEW seen, NEW sum \in Nat, Apply(t, r, seen, sum), task[t].todo # <<>>,
              Live, ord[r].kind = "entry", Settled => ord[r].status \notin FINAL_ORDER_STATUSES
       PROVE  Stepped(t)
  <2> DEFINE o == ApplyRows(ord[r], seen, sum)
             n == ArmIfMissing(o)
  <2>1. SetOrder(r, n) /\ Continue(t)
    BY <1>12 DEF Apply
  <2>2. Moves(ord[r], o)
    BY <1>12, Known, ApplyRowsMoves
  <2>3. /\ Sound(n) /\ n.filled = o.filled /\ n.kind = o.kind /\ n.size = o.size
        /\ SoldTotal(n) = SoldTotal(o)
    BY <2>2, ArmIfMissingMoves DEF Moves
  <2> HIDE DEF n, o
  <2>4. Moves(ord[r], n)
    BY <2>2, <2>3 DEF Moves, SoldStep
  <2> QED
    BY <1>6, <1>12, <2>1, <2>4
<1>13. ASSUME NEW r \in Roots, NEW ids \in SUBSET Chunks, NEW seen \in SUBSET VenueStates,
              NEW sum \in Nat, Fetch(t, r, ids, seen, sum), Live, r \in used, t # Shutdown,
              ord[r].kind = "entry", proc = "up" => ord[r].status \in OpenStatuses
       PROVE  Stepped(t)
  <2>1. PICK c \in Chunks :
          /\ SetTask(t, [task[t] EXCEPT !.pc = "fetching", !.root = r, !.chunk = c, !.left = ids \ {c},
                                        !.seen = seen, !.sum = sum])
          /\ UNCHANGED <<ord, used, proc>>
    BY <1>13 DEF Fetch, memory, outside
  <2> DEFINE s == [task[t] EXCEPT !.pc = "fetching", !.root = r, !.chunk = c, !.left = ids \ {c},
                                  !.seen = seen, !.sum = sum]
  <2>2. s \in TaskRec
    <3>1. "fetching" \in PCs /\ c \in 0..MaxChunks /\ ids \ {c} \in SUBSET Chunks
      BY Constants DEF PCs, Chunks
    <3> QED
      BY <1>2, <3>1 DEF TaskRec
  <2>3. s.pc = "fetching" /\ s.root = r
    BY <1>2 DEF TaskRec
  <2>4. SetTask(t, s)
    BY <2>1
  <2> HIDE DEF s
  <2>5. TaskMove(t)
    BY <1>13, <2>1, <2>2, <2>3, <2>4, WaitMoves
  <2> QED
    BY <1>2, <1>13, <2>1, <2>5, NoChange DEF Stepped
<1>14. ASSUME NEW r \in Roots, VisitLiveEntry(t, r) PROVE Stepped(t)
  <2>1. Live /\ OpenEntry(r) /\ task[t].todo # <<>> /\ task[t].op = "reconcile"
    BY <1>14 DEF VisitLiveEntry, VisitRoot, Visiting
  <2>2. Fetch(t, r, ord[r].eids, {}, 0) \/ Apply(t, r, {}, 0)
    BY <1>14 DEF VisitLiveEntry
  <2>3. {} \in SUBSET VenueStates /\ 0 \in Nat
    OBVIOUS
  <2> QED
    BY <1>3, <1>8, <1>12, <1>13, <2>1, <2>2, <2>3
<1>15. ASSUME task[t].pc = "fetching", NEW seen \in SUBSET VenueStates, NEW sum \in Nat, Fetched(t, seen, sum)
       PROVE  Stepped(t)
  <2>1. q \in Roots /\ q \in used /\ Live /\ ord[q].kind = "entry" /\ task[t].todo # <<>>
        /\ task[t].left \in SUBSET Chunks
    BY <1>2, <1>15, Known DEF CallSound, KnownCall, TaskRec
  <2>2. t # Shutdown /\ (proc = "up" => ord[q].status \in OpenStatuses)
    BY <1>3, <1>15 DEF SInv, CallsKnown, Waiting, Tasks
  <2>3. Settled => ord[q].status \notin FINAL_ORDER_STATUSES
    BY <2>1, <2>2 DEF Settled
  <2> QED
    BY <1>12, <1>13, <1>15, <2>1, <2>2, <2>3 DEF Fetched
<1>16. CASE FetchReply(t) \/ FetchFail(t)
  <2> DEFINE row == venue[<<q, task[t].chunk>>]
  <2>1. task[t].pc = "fetching"
    BY <1>16 DEF FetchReply, FetchFail, At
  <2>2. task[t].seen \in SUBSET VenueStates /\ task[t].sum \in Nat
    BY <1>2 DEF TaskRec
  <2>3. row \in VenueRec
    BY <1>2, <2>1 DEF CallSound, SInv, IInv, OutsideGood
  <2>4. row.st \in VenueStates /\ row.filled \in Nat
    BY <2>3 DEF VenueRec
  <2>5. \/ Fetched(t, task[t].seen \cup {row.st}, task[t].sum + row.filled)
        \/ Fetched(t, task[t].seen, task[t].sum)
    BY <1>16 DEF FetchReply, FetchFail
  <2> HIDE DEF row
  <2>6. task[t].seen \cup {row.st} \in SUBSET VenueStates /\ task[t].sum + row.filled \in Nat
    BY <2>2, <2>4
  <2> QED
    BY <1>15, <2>1, <2>2, <2>5, <2>6
<1>17. CASE ReconcileDone(t)
  BY <1>2, <1>4, <1>17, ReturnMoves, NoChange DEF ReconcileDone, memory, Stepped
<1> QED
  BY <1>7, <1>9, <1>10, <1>11, <1>14, <1>16, <1>17

-----------------------------------------------------------------------------
(* The invariant holds, and so do the properties.                          *)

\* The shutdown hook's end: no task changes an order on the way out.
HookEnds == Return(Shutdown) /\ proc' = "closing" /\ UNCHANGED <<ord, used>>

\* The start of an instance: no orders, no calls.
LEMMA InitSound == Init => SInv
<1> SUFFICES ASSUME Init PROVE SInv
  OBVIOUS
<1>1. IInv
  BY InitGood
<1>2. RecordsSound
  BY NoOrderSound DEF Init, RecordsSound
<1>3. Cycle \in Tasks /\ Shutdown \in Tasks /\ IdleTask.pc = "idle" /\ IdleTask.op = "none"
  BY DEF Tasks, IdleTask
<1>4. CallsKnown
  BY <1>3 DEF Init, CallsKnown, KnownCall, Waiting
<1> QED
  BY <1>1, <1>2, <1>4 DEF SInv

\* A process that ends leaves nothing to know.
LEMMA EndsKeeps ==
  ASSUME SInv, LoseMemory
  PROVE  RecordsSound' /\ CallsKnown'
<1>1. RecordsSound'
  BY NoOrderSound DEF LoseMemory, RecordsSound
<1>2. Cycle \in Tasks /\ Shutdown \in Tasks /\ IdleTask.pc = "idle" /\ IdleTask.op = "none"
  BY DEF Tasks, IdleTask
<1>3. CallsKnown'
  BY <1>2 DEF LoseMemory, CallsKnown, KnownCall, Waiting
<1> QED
  BY <1>1, <1>3

\* The time limit of the shutdown hook, and its regular end.
LEMMA HookEndsKeeps ==
  ASSUME SInv, HookEnds
  PROVE  RecordsSound' /\ CallsKnown'
<1>1. Cycle \in Tasks /\ Shutdown \in Tasks /\ IdleTask.pc = "idle" /\ IdleTask.op = "none"
      /\ task \in [Tasks -> TaskRec] /\ Cycle # Shutdown
  BY ExecutorAssumption DEF Tasks, IdleTask, SInv, IInv, CallsGood
<1>2. RecordsSound'
  BY DEF HookEnds, SInv, RecordsSound
<1>3. CallsKnown'
  BY <1>1 DEF HookEnds, Return, SetTask, SInv, CallsKnown, KnownCall, Waiting
<1> QED
  BY <1>2, <1>3

\* The environment: it moves records only by marks, and calls only by their end.
LEMMA EnvironmentKeeps ==
  ASSUME SInv, Environment
  PROVE  /\ RecordsSound' /\ CallsKnown'
         /\ \/ Changes
            \/ ord' = [r \in Roots |-> NoOrder] /\ proc' = "down"
<1>1. OrdersGood /\ CallsGood /\ OutsideGood /\ ord \in [Roots -> OrderRec]
  BY DEF SInv, IInv, OrdersGood
<1>2. ASSUME UNCHANGED <<ord, used, task, proc>> PROVE RecordsSound' /\ CallsKnown' /\ Changes
  BY <1>2, NoChange DEF SInv, RecordsSound, CallsKnown, KnownCall, Waiting
<1>3. CASE Venue \/ KillSwitchFlip \/ \E k \in Keys : WindowPasses(k)
  BY <1>2, <1>3 DEF Venue, VenueReceive, VenueFill, VenueEnd, VenueCancel, VenueAnswers, KillSwitchFlip,
                    WindowPasses, memory
<1>4. ASSUME NEW r \in Roots, OrderAges(r) \/ GttPasses(r) PROVE RecordsSound' /\ CallsKnown' /\ Changes
  <2>1. ord[r].kind # "none" /\ Sound(ord[r]) /\ r \in used
    BY <1>4, Known, NoOrderSound DEF OrderAges, GttPasses, Sound, GoodOrder, FillsAgree, NoOrder, Tasks
  <2>2. PICK n \in {[ord[r] EXCEPT !.aged = TRUE], [ord[r] EXCEPT !.due = TRUE]} : ord' = [ord EXCEPT ![r] = n]
    BY <1>4 DEF OrderAges, GttPasses
  <2>3. Moves(ord[r], n) /\ n.status = ord[r].status /\ n.filled = ord[r].filled
    BY <2>1, <2>2, MarkMoves
  <2>4. UNCHANGED <<used, task, proc>>
    BY <1>4 DEF OrderAges, GttPasses, outside
  <2>5. Changes
    BY <2>1, <2>2, <2>3, <2>4 DEF Changes, RecordChange
  <2>6. RecordsSound'
    BY <2>5, ChangesKeepRecords
  <2>7. \A q \in Roots : ord'[q].kind = ord[q].kind /\ ord'[q].status = ord[q].status
    BY <1>1, <2>2, <2>3 DEF Moves
  <2>8. CallsKnown'
    BY <1>1, <2>4, <2>7, ExecutorAssumption
       DEF SInv, CallsKnown, KnownCall, Waiting, CallsGood, CallSound, Tasks
  <2> QED
    BY <2>5, <2>6, <2>8
<1>5. CASE Signal
  <2>1. orders \in Seq(Ids) /\ task \in [Tasks -> TaskRec] /\ Cycle # Shutdown
        /\ "cancel_all" \in Ops /\ IdleTask \in TaskRec
    BY <1>1, ExecutorAssumption, IdleTaskGood, Constants DEF OrdersGood, CallsGood, Ops
  <2> DEFINE s == [IdleTask EXCEPT !.pc = "run", !.op = "cancel_all", !.todo = orders, !.books = {}]
  <2>2. s.pc = "run" /\ s.op = "cancel_all"
    BY <2>1 DEF TaskRec
  <2>3. task' = [task EXCEPT ![Shutdown] = s] /\ proc' = "stopping" /\ UNCHANGED <<ord, used>>
    BY <1>5 DEF Signal, Scan, SetTask, memory
  <2> HIDE DEF s
  <2>4. CallsKnown'
    BY <2>1, <2>2, <2>3 DEF SInv, CallsKnown, KnownCall, Waiting, Tasks
  <2>5. RecordsSound' /\ Changes
    BY <2>3, NoChange DEF SInv, RecordsSound
  <2> QED
    BY <2>4, <2>5
<1>6. CASE HookTimeout
  <2>1. HookEnds
    BY <1>6 DEF HookTimeout, HookEnds, memory
  <2> QED
    BY <2>1, HookEndsKeeps, NoChange DEF HookEnds
<1>7. CASE Exit \/ Crash
  BY <1>7, EndsKeeps DEF Exit, Crash, LoseMemory
<1>8. CASE Restart
  <2>1. UNCHANGED <<ord, used, task>> /\ proc = "down" /\ proc' = "up"
    BY <1>8 DEF Restart, memory
  <2> QED
    BY <2>1, NoChange DEF SInv, RecordsSound, CallsKnown, KnownCall, Waiting
<1> QED
  BY <1>3, <1>4, <1>5, <1>6, <1>7, <1>8 DEF Environment

\* Every step keeps the invariant, and moves the records in one of the permitted ways.
LEMMA SoundStep ==
  ASSUME SInv, [Next]_vars
  PROVE  /\ SInv'
         /\ \/ Changes
            \/ ord' = [r \in Roots |-> NoOrder] /\ proc' = "down"
<1>1. IInv'
  BY InvariantStep DEF SInv
<1>2. CASE UNCHANGED vars
  BY <1>1, <1>2, NoChange DEF vars, outside, SInv, RecordsSound, CallsKnown, KnownCall, Waiting
<1>3. ASSUME NEW t \in Tasks, Stepped(t) PROVE SInv' /\ Changes
  BY <1>1, <1>3, SteppedKeeps DEF SInv, Stepped
<1>4. ASSUME NEW t \in Tasks, ScanDone(t) PROVE SInv' /\ Changes
  <2>1. Return(t) /\ UNCHANGED <<ord, used>> /\ task[t].pc = "run"
    BY <1>4 DEF ScanDone, At, memory
  <2>2. CASE t = Shutdown
    BY <1>1, <1>4, <2>1, <2>2, HookEndsKeeps, NoChange DEF HookEnds, ScanDone, SInv
  <2>3. CASE t # Shutdown
    <3>1. Stepped(t)
      BY <1>4, <2>1, <2>3, ReturnMoves, NoChange, Known DEF ScanDone, Stepped
    <3> QED
      BY <1>3, <3>1
  <2> QED
    BY <2>2, <2>3
<1>5. ASSUME NEW t \in Tasks, Call(t) \/ Advance(t) PROVE SInv' /\ Changes
  BY <1>3, <1>4, <1>5, CallStepped, PlacingStepped, CancellingStepped, ReconcilingStepped DEF Advance
<1>6. CASE Environment
  BY <1>1, <1>6, EnvironmentKeeps DEF SInv
<1> QED
  BY <1>2, <1>5, <1>6 DEF Next

\* With half-or-more fills, or live, an armed leg sells exactly what its entry bought:
\* _arm_bracket_orders creates the pair behind the first fill and resizes it behind each
\* later one, and no cancel, expiry, trigger or restart leaves a position without it.
THEOREM BracketsCover ==
  ASSUME Live \/ PartialDivisor <= 2
  PROVE  Spec => []BracketCoversPosition
<1>1. SInv => BracketCoversPosition
  BY DEF SInv, RecordsSound, Sound, Covered, HalvesAtLeast, BracketCoversPosition
<1>2. SInv /\ [Next]_vars => SInv'
  BY SoundStep
<1> QED
  BY <1>1, <1>2, InitSound, PTL DEF Spec

\* A finished order stays as it finished: in paper mode always, in live mode while the
\* cycle runs alone (the FINAL_ORDER_STATUSES tests of reconcile and cancel, and nothing
\* between an await and the write that follows it reopens an order).
THEOREM FinishedStaysFinished == Spec => FinalIsFinal
<1> DEFINE A == \A r \in Roots :
                  ord[r].status \in FINAL_ORDER_STATUSES /\ proc' # "down" /\ (Live => proc = "up") =>
                    ord'[r].status = ord[r].status /\ ord'[r].filled = ord[r].filled
<1>1. SInv /\ [Next]_vars => A
  <2> SUFFICES ASSUME SInv, [Next]_vars PROVE A
    OBVIOUS
  <2>1. Changes \/ proc' = "down"
    BY SoundStep
  <2>2. ord \in [Roots -> OrderRec]
    BY DEF SInv, IInv, OrdersGood
  <2>3. ASSUME NEW q \in Roots, NEW n, RecordChange(q, n) PROVE A
    BY <2>2, <2>3 DEF RecordChange, Settled, Creates, NoOrder
  <2> QED
    BY <2>1, <2>3 DEF Changes
<1>2. SInv /\ [Next]_vars => SInv'
  BY SoundStep
<1>3. SInv /\ [Next]_vars => [A]_vars
  BY <1>1
<1>4. FinalIsFinal <=> [][A]_vars
  BY DEF FinalIsFinal
<1> HIDE DEF A
<1> QED
  BY <1>2, <1>3, <1>4, InitSound, PTL DEF Spec

\* The executor implements BracketPosition: whatever the two tasks, the venue and the
\* process do, an entry's position is only added to and its bracket sells it at most
\* once, at most as much as was bought by then (lines 385-415, 985-1025).
THEOREM ImplementsBracketPosition == Spec => PositionSpec
<1> DEFINE buys == [r \in Roots |-> IF ord[r].kind = "entry" THEN ord[r].filled ELSE 0]
           sells == [r \in Roots |-> LegSold(ord[r], "take_profit") + LegSold(ord[r], "stop_loss")]
<1>1. Init => Position!Init
  <2> SUFFICES ASSUME Init PROVE Position!Init
    OBVIOUS
  <2>1. \A r \in Roots : ord[r] = NoOrder
    BY DEF Init
  <2>2. NoOrder.kind = "none" /\ SoldTotal(NoOrder) = 0
    BY NoOrderGood, SoldFacts DEF NoOrder, HasLegs
  <2> QED
    BY <2>1, <2>2 DEF Position!Init, SoldTotal
<1>2. SInv /\ [Next]_vars => [Position!Next]_Position!vars
  <2> SUFFICES ASSUME SInv, [Next]_vars PROVE [Position!Next]_Position!vars
    OBVIOUS
  <2>1. \/ Changes
        \/ ord' = [r \in Roots |-> NoOrder]
    BY SoundStep
  <2>2. /\ ord \in [Roots -> OrderRec] /\ \A r \in Roots : Sound(ord[r]) /\ ord[r].filled \in Nat
    BY Known DEF SInv, IInv, OrdersGood, OrderRec, Tasks
  <2>3. CASE UNCHANGED ord
    BY <2>3 DEF Position!vars
  <2>4. CASE ord' = [r \in Roots |-> NoOrder]
    <3>1. NoOrder.kind = "none" /\ SoldTotal(NoOrder) = 0
      BY NoOrderGood, SoldFacts DEF NoOrder, HasLegs
    <3>2. Position!Forget
      BY <2>4, <3>1 DEF Position!Forget, SoldTotal
    <3> QED
      BY <3>2 DEF Position!Next
  <2>5. ASSUME NEW q \in Roots, NEW n, RecordChange(q, n) PROVE [Position!Next]_Position!vars
    <3>1. ord'[q] = n /\ \A r \in Roots : r # q => ord'[r] = ord[r]
      BY <2>2, <2>5 DEF RecordChange
    <3>2. Sound(n) /\ n.filled \in Nat
      BY <2>5 DEF RecordChange, Moves, Creates, Sound, GoodOrder, OrderRec
    <3>3. /\ buys \in [Roots -> Nat] /\ buys' \in [Roots -> Nat]
      BY <2>2, <3>1, <3>2
    <3>4. /\ \A r \in Roots : r # q => buys'[r] = buys[r] /\ sells'[r] = sells[r]
          /\ buys[q] = IF ord[q].kind = "entry" THEN ord[q].filled ELSE 0
          /\ buys'[q] = IF n.kind = "entry" THEN n.filled ELSE 0
          /\ sells[q] = SoldTotal(ord[q]) /\ sells'[q] = SoldTotal(n)
      BY <3>1 DEF SoldTotal
    <3>5. DOMAIN buys = Roots /\ DOMAIN sells = Roots /\ DOMAIN buys' = Roots /\ DOMAIN sells' = Roots
          /\ buys = [r \in Roots |-> buys[r]] /\ sells = [r \in Roots |-> sells[r]]
          /\ buys' = [r \in Roots |-> buys'[r]] /\ sells' = [r \in Roots |-> sells'[r]]
      OBVIOUS
    <3> HIDE DEF buys, sells
    <3>6. \/ buys' = buys /\ sells' = sells
          \/ buys'[q] > buys[q] /\ buys' = [buys EXCEPT ![q] = buys'[q]] /\ sells' = sells
          \/ /\ sells[q] = 0 /\ sells' = [sells EXCEPT ![q] = sells'[q]]
             /\ 0 < sells'[q] /\ sells'[q] <= buys[q] /\ buys' = buys
      <4>1. CASE Creates(ord[q], n)
        <5>1. buys[q] = 0 /\ sells[q] = 0 /\ sells'[q] = 0
          <6>1. ord[q].kind = "none" /\ SoldTotal(ord[q]) = 0
            BY <4>1, NoOrderGood, SoldFacts DEF Creates, NoOrder, HasLegs
          <6> QED
            BY <3>4, <4>1, <6>1 DEF Creates
        <5>2. sells' = sells
          BY <3>4, <3>5, <5>1
        <5>3. buys'[q] = 0 \/ buys'[q] > buys[q]
          BY <3>3, <5>1
        <5>4. buys' = [buys EXCEPT ![q] = buys'[q]]
          BY <3>4, <3>5
        <5>5. buys'[q] = buys[q] => buys' = buys
          BY <3>4, <3>5
        <5> QED
          BY <5>1, <5>2, <5>3, <5>4, <5>5
      <4>2. CASE Moves(ord[q], n)
        <5>1. buys'[q] >= buys[q]
          BY <2>2, <3>2, <3>4, <4>2 DEF Moves
        <5>2. buys' = [buys EXCEPT ![q] = buys'[q]] /\ (buys'[q] = buys[q] => buys' = buys)
          BY <3>4, <3>5
        <5>3. sells' = [sells EXCEPT ![q] = sells'[q]] /\ (sells'[q] = sells[q] => sells' = sells)
          BY <3>4, <3>5
        <5>4. \/ sells'[q] = sells[q]
              \/ /\ sells[q] = 0 /\ 0 < sells'[q] /\ sells'[q] <= buys[q] /\ buys'[q] = buys[q]
          BY <3>4, <4>2 DEF Moves, SoldStep
        <5>5. buys'[q] = buys[q] \/ buys'[q] > buys[q]
          BY <3>3, <5>1
        <5> QED
          BY <5>2, <5>3, <5>4, <5>5
      <4> QED
        BY <2>5, <4>1, <4>2 DEF RecordChange
    <3>7. \/ UNCHANGED <<buys, sells>>
          \/ Position!Buy(q)
          \/ Position!Sell(q)
      BY <3>3, <3>6 DEF Position!Buy, Position!Sell, buys, sells
    <3> QED
      BY <3>7 DEF Position!Next, Position!vars, buys, sells
  <2> QED
    BY <2>1, <2>3, <2>4, <2>5 DEF Changes
<1>3. SInv /\ [Next]_vars => SInv'
  BY SoundStep
<1> QED
  BY <1>1, <1>2, <1>3, InitSound, PTL DEF Spec, PositionSpec, Position!Spec

-----------------------------------------------------------------------------
(* LegsTogether: whenever the loop is free, the two legs of a bracket are  *)
(* armed together or not at all.  The legs of an entry stand next to each  *)
(* other in self.orders, the take-profit first, because                    *)
(* _arm_bracket_orders inserts them together.  A loop over a snapshot      *)
(* therefore visits the stop-loss right after the take-profit, without an  *)
(* await between, and ends it for the same reason it ended the             *)
(* take-profit.  The invariant says so of every list of ids, and of the    *)
(* one moment when a loop stands between two legs.                         *)

\* In a list of ids a take-profit is followed by its stop-loss, and a stop-loss follows
\* a take-profit.
LegsAdjacent(s) ==
  /\ \A i \in 1..Len(s) : s[i][2] = "take_profit" =>
       i + 1 \in 1..Len(s) /\ s[i + 1] = <<s[i][1], "stop_loss">>
  /\ \A i \in 1..Len(s) : s[i][2] = "stop_loss" /\ i # 1 => s[i - 1][2] = "take_profit"

NotAtStop(s) == s # <<>> => s[1][2] # "stop_loss"

-----------------------------------------------------------------------------
(* Lists of ids.                                                           *)

\* The rest of a list: only a take-profit uncovers a stop-loss.
LEMMA TailAdjacent ==
  ASSUME NEW s \in Seq(Ids), s # <<>>, LegsAdjacent(s)
  PROVE  /\ LegsAdjacent(Tail(s))
         /\ Tail(s) # <<>> /\ Head(Tail(s))[2] = "stop_loss" =>
              Head(s) = <<Head(Tail(s))[1], "take_profit">>
         /\ Head(s)[2] = "take_profit" =>
              Tail(s) # <<>> /\ Head(Tail(s)) = <<Head(s)[1], "stop_loss">>
<1> DEFINE u == Tail(s)
<1>1. /\ Len(s) \in Nat /\ Len(s) > 0 /\ Len(u) = Len(s) - 1 /\ u \in Seq(Ids)
      /\ \A i \in 1..Len(u) : u[i] = s[i + 1]
      /\ Head(s) = s[1] /\ s[1] \in Ids
  OBVIOUS
<1> HIDE DEF u
<1>2. \A i \in 1..Len(u) : i + 1 \in 1..Len(s) /\ i + 1 # 1 /\ i + 1 - 1 = i
  BY <1>1
<1>3. LegsAdjacent(u)
  <2>1. ASSUME NEW i \in 1..Len(u), u[i][2] = "take_profit"
        PROVE  i + 1 \in 1..Len(u) /\ u[i + 1] = <<u[i][1], "stop_loss">>
    <3>1. i + 1 \in 1..Len(s) /\ s[i + 1][2] = "take_profit"
      BY <1>1, <1>2, <2>1
    <3>2. i + 1 + 1 \in 1..Len(s) /\ s[i + 1 + 1] = <<s[i + 1][1], "stop_loss">>
      BY <3>1 DEF LegsAdjacent
    <3>3. i + 1 \in 1..Len(u)
      BY <1>1, <3>2
    <3> QED
      BY <1>1, <3>2, <3>3
  <2>2. ASSUME NEW i \in 1..Len(u), u[i][2] = "stop_loss", i # 1
        PROVE  u[i - 1][2] = "take_profit"
    <3>1. i + 1 \in 1..Len(s) /\ s[i + 1][2] = "stop_loss" /\ i + 1 # 1 /\ i + 1 - 1 = i
      BY <1>1, <1>2, <2>2
    <3>2. s[i][2] = "take_profit"
      BY <3>1 DEF LegsAdjacent
    <3>3. i - 1 \in 1..Len(u) /\ i - 1 + 1 = i
      BY <1>1, <2>2
    <3> QED
      BY <1>1, <3>2, <3>3
  <2> QED
    BY <2>1, <2>2 DEF LegsAdjacent
<1>4. Head(s)[2] = "take_profit" => u # <<>> /\ Head(u) = <<Head(s)[1], "stop_loss">>
  <2> SUFFICES ASSUME Head(s)[2] = "take_profit" PROVE u # <<>> /\ Head(u) = <<Head(s)[1], "stop_loss">>
    OBVIOUS
  <2>1. 1 \in 1..Len(s) /\ s[1][2] = "take_profit"
    BY <1>1
  <2>2. 1 + 1 \in 1..Len(s) /\ s[1 + 1] = <<s[1][1], "stop_loss">>
    BY <2>1 DEF LegsAdjacent
  <2>3. Len(u) > 0 /\ 1 \in 1..Len(u)
    BY <1>1, <2>2
  <2>4. u # <<>> /\ Head(u) = u[1]
    BY <1>1, <2>3
  <2> QED
    BY <1>1, <2>2, <2>3, <2>4
<1>5. u # <<>> /\ Head(u)[2] = "stop_loss" => Head(s) = <<Head(u)[1], "take_profit">>
  <2> SUFFICES ASSUME u # <<>>, Head(u)[2] = "stop_loss" PROVE Head(s) = <<Head(u)[1], "take_profit">>
    OBVIOUS
  <2>1. Head(u) = u[1] /\ 1 \in 1..Len(u)
    BY <1>1
  <2>2. s[2][2] = "stop_loss" /\ 2 \in 1..Len(s) /\ Head(u) = s[2]
    BY <1>1, <1>2, <2>1
  <2>3. s[1][2] = "take_profit"
    BY <2>2 DEF LegsAdjacent
  <2>4. Head(u) = <<s[1][1], "stop_loss">>
    BY <1>1, <1>4, <2>3
  <2>5. s[1] = <<s[1][1], s[1][2]>>
    BY <1>1 DEF Ids
  <2> QED
    BY <1>1, <2>3, <2>4, <2>5
<1> QED
  BY <1>3, <1>4, <1>5 DEF u

\* Appending ids that start with no stop-loss.
LEMMA ConcatAdjacent ==
  ASSUME NEW s \in Seq(Ids), NEW u \in Seq(Ids), LegsAdjacent(s), LegsAdjacent(u), NotAtStop(s), NotAtStop(u)
  PROVE  LegsAdjacent(s \o u) /\ NotAtStop(s \o u)
<1> DEFINE w == s \o u
           m == Len(s)
           k == Len(u)
<1>1. /\ m \in Nat /\ k \in Nat /\ w \in Seq(Ids) /\ Len(w) = m + k
      /\ \A i \in 1..m : w[i] = s[i]
      /\ \A i \in 1..k : w[m + i] = u[i]
  BY ConcatProperties
<1>2. /\ s = <<>> => m = 0
      /\ m = 0 => s = <<>>
      /\ k = 0 => u = <<>>
  OBVIOUS
<1>3. \A i \in 1..Len(w) : i \in 1..m \/ (i - m \in 1..k /\ m + (i - m) = i /\ i > m)
  BY <1>1
<1>4. \A j \in 1..k : w[m + j] = u[j] /\ m + j \in 1..Len(w)
  BY <1>1
<1>5. \A j \in 1..m : w[j] = s[j] /\ j \in 1..Len(w)
  BY <1>1
<1> HIDE DEF w, m, k
<1>6. ASSUME NEW i \in 1..Len(w), w[i][2] = "take_profit"
      PROVE  i + 1 \in 1..Len(w) /\ w[i + 1] = <<w[i][1], "stop_loss">>
  <2>1. CASE i \in 1..m
    <3>1. i + 1 \in 1..m /\ s[i + 1] = <<s[i][1], "stop_loss">>
      BY <1>5, <1>6, <2>1 DEF LegsAdjacent, m
    <3> QED
      BY <1>5, <2>1, <3>1
  <2>2. CASE i - m \in 1..k /\ m + (i - m) = i
    <3> DEFINE j == i - m
    <3>1. j \in 1..k /\ w[i] = u[j]
      BY <1>4, <2>2
    <3>2. j + 1 \in 1..k /\ u[j + 1] = <<u[j][1], "stop_loss">>
      BY <1>6, <3>1 DEF LegsAdjacent, k
    <3>3. m + (j + 1) = i + 1
      BY <1>1, <2>2
    <3> QED
      BY <1>4, <3>1, <3>2, <3>3
  <2> QED
    BY <1>3, <2>1, <2>2
<1>7. ASSUME NEW i \in 1..Len(w), w[i][2] = "stop_loss", i # 1
      PROVE  w[i - 1][2] = "take_profit"
  <2>1. CASE i \in 1..m
    <3>1. s[i - 1][2] = "take_profit" /\ i - 1 \in 1..m
      BY <1>1, <1>5, <1>7, <2>1 DEF LegsAdjacent, m
    <3> QED
      BY <1>5, <3>1
  <2>2. CASE i - m \in 1..k /\ m + (i - m) = i /\ i > m
    <3> DEFINE j == i - m
    <3>1. j \in 1..k /\ w[i] = u[j]
      BY <1>4, <2>2
    <3>2. j # 1
      <4>1. u # <<>>
        BY <1>1, <3>1 DEF k
      <4> QED
        BY <1>7, <3>1, <4>1 DEF NotAtStop
    <3>3. u[j - 1][2] = "take_profit" /\ j - 1 \in 1..k
      BY <1>1, <1>7, <3>1, <3>2 DEF LegsAdjacent, k
    <3>4. m + (j - 1) = i - 1
      BY <1>1, <2>2
    <3> QED
      BY <1>4, <3>3, <3>4
  <2> QED
    BY <1>3, <2>1, <2>2
<1>8. NotAtStop(w)
  <2> SUFFICES ASSUME w # <<>> PROVE w[1][2] # "stop_loss"
    BY DEF NotAtStop
  <2>1. 1 \in 1..Len(w)
    BY <1>1
  <2>2. CASE m = 0
    <3>1. 1 \in 1..k /\ w[1] = u[1]
      <4>1. 1 \in 1..k /\ m + 1 = 1
        BY <1>1, <2>1, <2>2
      <4> QED
        BY <1>4, <4>1
    <3>2. u # <<>>
      BY <3>1 DEF k
    <3> QED
      BY <3>1, <3>2 DEF NotAtStop
  <2>3. CASE m # 0
    <3>1. 1 \in 1..m /\ s # <<>>
      BY <1>1, <1>2, <2>3
    <3> QED
      BY <1>5, <3>1 DEF NotAtStop
  <2> QED
    BY <2>2, <2>3
<1> QED
  BY <1>6, <1>7, <1>8 DEF LegsAdjacent, w

\* _arm_bracket_orders inserts the take-profit, then the stop-loss.
LEMMA NewIdsAdjacent ==
  ASSUME NEW r \in Roots, NEW old, NEW new
  PROVE  /\ NewIds(r, old, new) \in Seq(Ids)
         /\ LegsAdjacent(NewIds(r, old, new)) /\ NotAtStop(NewIds(r, old, new))
<1> DEFINE first == IF old.status = "none" THEN << <<r, "root">> >> ELSE <<>>
           pair == << <<r, "take_profit">>, <<r, "stop_loss">> >>
           children == IF HasLegs(new) /\ ~HasLegs(old) THEN pair ELSE <<>>
<1>1. <<r, "root">> \in Ids /\ <<r, "take_profit">> \in Ids /\ <<r, "stop_loss">> \in Ids
  BY DEF Ids, Slots
<1>2. first \in Seq(Ids) /\ LegsAdjacent(first) /\ NotAtStop(first)
  BY <1>1 DEF LegsAdjacent, NotAtStop
<1>3. pair \in Seq(Ids) /\ LegsAdjacent(pair) /\ NotAtStop(pair)
  <2>1. pair \in Seq(Ids) /\ Len(pair) = 2 /\ pair[1] = <<r, "take_profit">> /\ pair[2] = <<r, "stop_loss">>
    BY <1>1
  <2>2. 1..2 = {1, 2}
    OBVIOUS
  <2> HIDE DEF pair
  <2> QED
    BY <2>1, <2>2 DEF LegsAdjacent, NotAtStop
<1>4. <<>> \in Seq(Ids) /\ LegsAdjacent(<<>>) /\ NotAtStop(<<>>)
  BY DEF LegsAdjacent, NotAtStop
<1> HIDE DEF pair
<1>5. children \in Seq(Ids) /\ LegsAdjacent(children) /\ NotAtStop(children)
  BY <1>3, <1>4
<1>6. NewIds(r, old, new) = first \o children
  BY DEF NewIds, pair
<1> HIDE DEF first, children
<1> QED
  BY <1>2, <1>5, <1>6, ConcatAdjacent, ConcatProperties

-----------------------------------------------------------------------------
(* The invariant.                                                          *)

Paired(o) == o.leg["take_profit"] = "armed" <=> o.leg["stop_loss"] = "armed"

\* The loop of t stands between the two legs of r: the take-profit is behind it.
AtStop(t, r) ==
  task[t].pc = "run" /\ task[t].todo # <<>> /\ Head(task[t].todo) = <<r, "stop_loss">>

\* The loop of s ends an armed leg of o when it visits it, whatever the price.
EndsLegs(s, o) ==
  \/ s.op = "cancel_all"
  \/ s.op = "cancel_expired" /\ o.due
  \/ s.op = "reconcile" /\ o.due /\ o.key \in s.books

\* The take-profit is gone exactly when the loop is about to end the stop-loss too.
Between(s, o) ==
  IF o.leg["stop_loss"] = "armed"
  THEN IF EndsLegs(s, o) THEN o.leg["take_profit"] # "armed" ELSE o.leg["take_profit"] = "armed"
  ELSE o.leg["take_profit"] # "armed"

ListsAdjacent ==
  /\ LegsAdjacent(orders) /\ NotAtStop(orders)
  /\ \A t \in Tasks : LegsAdjacent(task[t].todo)
  /\ \A t \in Tasks : task[t].pc # "run" => NotAtStop(task[t].todo)
  /\ \A t \in Tasks : task[t].pc \in {"cancelling", "fetching"} => Head(task[t].todo)[2] = "root"

LegsInStep ==
  /\ \A r \in Roots : Paired(ord[r]) \/ \E t \in Tasks : AtStop(t, r)
  /\ \A t \in Tasks, r \in Roots : AtStop(t, r) => Between(task[t], ord[r])

LoopHeld == \A t \in Tasks : task[t].pc = "run" => loop = t

LInv == SInv /\ ListsAdjacent /\ LegsInStep /\ LoopHeld

\* What a change of one record does to the pair: nothing, arms it, or ends it.
KeepsPair(o, n) == Paired(o) => Paired(n)

PairsKept == \A r \in Roots : KeepsPair(ord[r], ord'[r])

\* An order that does not exist has no pair.
LEMMA NoOrderPaired == Paired(NoOrder)
BY DEF Paired, NoOrder

\* Arming, filling, marking and cancelling a root treat the two legs alike.
LEMMA RootKeepsPair ==
  ASSUME NEW o, Sound(o)
  PROVE  /\ KeepsPair(o, ArmBracketOrders(o))
         /\ KeepsPair(o, ArmIfMissing(o))
         /\ KeepsPair(o, CancelLocal(o)) /\ KeepsPair(o, CancelLive(o))
         /\ \A a \in Int : KeepsPair(o, ApplyFill(o, a))
         /\ \A got : KeepsPair(o, WithIds(o, got))
         /\ \A st : KeepsPair(o, [o EXCEPT !.status = st])
         /\ \A l \in Legs : o.leg[l] = "armed" => Paired(TriggerLeg(o, l))
<1>1. o \in OrderRec /\ GoodOrder(o)
  BY DEF Sound, GoodOrder
<1>2. KeepsPair(o, ArmBracketOrders(o))
  BY <1>1 DEF KeepsPair, Paired, ArmBracketOrders, SyncChildSizes, OrderRec
<1>3. KeepsPair(o, ArmIfMissing(o))
  BY <1>2 DEF ArmIfMissing, KeepsPair
<1>4. KeepsPair(o, CancelLocal(o)) /\ KeepsPair(o, CancelLive(o))
  BY <1>1 DEF KeepsPair, Paired, CancelLocal, CancelLive, OrderRec
<1>5. \A a \in Int : KeepsPair(o, ApplyFill(o, a))
  BY <1>1, ApplyFillGood DEF KeepsPair, Paired
<1>6. \A got : KeepsPair(o, WithIds(o, got))
  BY <1>1 DEF KeepsPair, Paired, WithIds, OrderRec
<1>7. \A st : KeepsPair(o, [o EXCEPT !.status = st])
  BY <1>1 DEF KeepsPair, Paired, OrderRec
<1>8. \A l \in Legs : o.leg[l] = "armed" => Paired(TriggerLeg(o, l))
  BY <1>1 DEF Paired, TriggerLeg, OrderRec
<1> QED
  BY <1>2, <1>3, <1>4, <1>5, <1>6, <1>7, <1>8

\* So do the two kinds of fills of a reconcile pass.
LEMMA FillsKeepPair ==
  ASSUME NEW o, Sound(o)
  PROVE  /\ KeepsPair(o, PaperFill(o))
         /\ \A seen : \A sum \in Nat : KeepsPair(o, ApplyRows(o, seen, sum))
<1>1. o.size \in Nat /\ o.filled \in Nat /\ PartialDivisor \in Nat \ {0}
  BY Constants DEF Sound, GoodOrder, OrderRec
<1>2. ASSUME NEW f PROVE KeepsPair(f, ArmBracketOrders(f)) \/ f \notin OrderRec
  BY DEF KeepsPair, Paired, ArmBracketOrders, SyncChildSizes, OrderRec
<1>3. KeepsPair(o, PaperFill(o))
  <2> DEFINE a == Least(o.size - o.filled, o.size \div PartialDivisor)
             f == ApplyFill(o, a)
  <2>1. a \in Int
    BY <1>1 DEF Least
  <2>2. f \in OrderRec /\ KeepsPair(o, f)
    BY <2>1, RootKeepsPair, ApplyFillGood DEF Sound, GoodOrder
  <2>3. PaperFill(o) = IF f.status # o.status /\ EnableBrackets THEN ArmBracketOrders(f) ELSE f
    BY DEF PaperFill
  <2> HIDE DEF f
  <2> QED
    BY <1>2, <2>2, <2>3 DEF KeepsPair
<1>4. ASSUME NEW seen, NEW sum \in Nat PROVE KeepsPair(o, ApplyRows(o, seen, sum))
  <2> DEFINE f == ApplyFill(o, sum - o.filled)
             e == IF f.status \in {"filled", "partially_filled"} THEN f
                  ELSE IF "cancelled" \in seen THEN [f EXCEPT !.status = "cancelled"]
                  ELSE IF "expired" \in seen THEN [f EXCEPT !.status = "expired"] ELSE f
  <2>1. sum - o.filled \in Int
    BY <1>1
  <2>2. f \in OrderRec /\ KeepsPair(o, f)
    BY <2>1, RootKeepsPair, ApplyFillGood DEF Sound, GoodOrder
  <2>3. ApplyRows(o, seen, sum) =
          IF seen = {} THEN o ELSE IF e.filled > 0 /\ EnableBrackets THEN ArmBracketOrders(e) ELSE e
    BY DEF ApplyRows
  <2> HIDE DEF f
  <2>4. e \in OrderRec /\ KeepsPair(f, e)
    BY <2>2 DEF KeepsPair, Paired, OrderRec
  <2> HIDE DEF e
  <2> QED
    BY <1>2, <2>2, <2>3, <2>4 DEF KeepsPair
<1> QED
  BY <1>3, <1>4

-----------------------------------------------------------------------------
(* Steps.                                                                  *)

\* While t holds the loop or nobody does, no other task is in a synchronous stretch.
LEMMA OthersWait ==
  ASSUME LInv, NEW t \in Tasks, loop \in {Free, t}
  PROVE  \A u \in Tasks : u # t => task[u].pc # "run"
BY ExecutorAssumption DEF LInv, LoopHeld

\* New records keep self.orders in order.
LEMMA SetOrderAdjacent ==
  ASSUME LInv, NEW r \in Roots, NEW n, SetOrder(r, n)
  PROVE  LegsAdjacent(orders)' /\ NotAtStop(orders)'
<1>1. orders \in Seq(Ids) /\ LegsAdjacent(orders) /\ NotAtStop(orders)
  BY DEF LInv, SInv, IInv, OrdersGood, ListsAdjacent
<1>2. LegsAdjacent(orders \o NewIds(r, ord[r], n)) /\ NotAtStop(orders \o NewIds(r, ord[r], n))
  BY <1>1, NewIdsAdjacent, ConcatAdjacent
<1> QED
  BY <1>2 DEF SetOrder, LegsAdjacent, NotAtStop

\* A step of t that begins and ends away from a stop-loss.
LEMMA AwayFromStop ==
  ASSUME LInv, SInv', NEW t \in Tasks, loop \in {Free, t},
         NEW s, task' = [task EXCEPT ![t] = s],
         LegsAdjacent(orders)', NotAtStop(orders)',
         LegsAdjacent(s.todo), NotAtStop(s.todo), s.pc = "run" => loop' = t,
         s.pc \in {"cancelling", "fetching"} => Head(s.todo)[2] = "root",
         \A r \in Roots : ~AtStop(t, r),
         PairsKept
  PROVE  LInv'
<1>1. task \in [Tasks -> TaskRec] /\ Free \notin Tasks
  BY ExecutorAssumption DEF LInv, SInv, IInv, CallsGood
<1>2. task'[t] = s /\ \A u \in Tasks : u # t => task'[u] = task[u] /\ task[u].pc # "run"
  BY <1>1, OthersWait
<1>3. \A u \in Tasks, r \in Roots : ~AtStop(u, r)
  BY <1>2 DEF AtStop
<1>4. \A u \in Tasks, r \in Roots : ~AtStop(u, r)'
  <2> TAKE u \in Tasks, r \in Roots
  <2>1. CASE u # t
    BY <1>2, <2>1 DEF AtStop
  <2>2. CASE u = t
    <3> SUFFICES ASSUME s.pc = "run", s.todo # <<>>, Head(s.todo) = <<r, "stop_loss">> PROVE FALSE
      BY <1>2, <2>2 DEF AtStop
    <3>1. Head(s.todo) = s.todo[1]
      OBVIOUS
    <3> QED
      BY <3>1 DEF NotAtStop
  <2> QED
    BY <2>1, <2>2
<1>5. \A r \in Roots : Paired(ord[r]) /\ Paired(ord'[r])
  BY <1>3 DEF LInv, LegsInStep, PairsKept, KeepsPair
<1>6. LegsInStep'
  BY <1>4, <1>5 DEF LegsInStep, Paired
<1>7. ListsAdjacent'
  <2>1. \A u \in Tasks : LegsAdjacent(task'[u].todo)
    BY <1>2 DEF LInv, ListsAdjacent
  <2>2. \A u \in Tasks : /\ task'[u].pc # "run" => NotAtStop(task'[u].todo)
                         /\ task'[u].pc \in {"cancelling", "fetching"} => Head(task'[u].todo)[2] = "root"
    BY <1>2 DEF LInv, ListsAdjacent
  <2>3. \A u \in Tasks : LegsAdjacent(task[u].todo)'
    BY <2>1 DEF LegsAdjacent
  <2>4. ASSUME NEW u \in Tasks, task'[u].pc # "run" PROVE NotAtStop(task[u].todo)'
    <3>1. NotAtStop(task'[u].todo)
      BY <2>2, <2>4
    <3> QED
      BY <3>1 DEF NotAtStop
  <2> QED
    BY <2>2, <2>3, <2>4 DEF ListsAdjacent
<1>8. LoopHeld'
  BY <1>2 DEF LoopHeld
<1> QED
  BY <1>6, <1>7, <1>8 DEF LInv

\* A step of the environment: it moves while the loop is free.
LEMMA WhileFree ==
  ASSUME LInv, SInv', \A t \in Tasks : task[t].pc # "run",
         UNCHANGED <<task, orders, loop>>, PairsKept
  PROVE  LInv'
<1>1. \A u \in Tasks, r \in Roots : ~AtStop(u, r) /\ ~AtStop(u, r)'
  BY DEF AtStop
<1>2. LegsInStep'
  BY <1>1 DEF LInv, LegsInStep, PairsKept, KeepsPair, Paired
<1>3. ListsAdjacent' /\ LoopHeld'
  BY DEF LInv, ListsAdjacent, LoopHeld, LegsAdjacent, NotAtStop
<1> QED
  BY <1>2, <1>3 DEF LInv

\* The visit of a leg: the loop of t goes on, and changes the legs of that root only.
LEMMA LegVisited ==
  ASSUME LInv, SInv', NEW t \in Tasks, NEW r \in Roots, NEW l \in Legs, NEW n \in OrderRec,
         task[t].pc = "run", task[t].todo # <<>>, Visited(t) = <<r, l>>, Continue(t),
         ord' = [ord EXCEPT ![r] = n], LegsAdjacent(orders)', NotAtStop(orders)',
         n.due = ord[r].due, n.key = ord[r].key,
         l = "take_profit" /\ Paired(ord[r]) => Between(task[t], n),
         l = "stop_loss" /\ Between(task[t], ord[r]) => Paired(n)
  PROVE  LInv'
<1> DEFINE s == [task[t] EXCEPT !.pc = "run", !.todo = Tail(@), !.root = NoRoot,
                                !.left = {}, !.chunk = 0, !.seen = {}, !.sum = 0]
<1>1. /\ task \in [Tasks -> TaskRec] /\ task[t] \in TaskRec /\ Free \notin Tasks /\ loop = t
      /\ ord \in [Roots -> OrderRec] /\ task[t].todo \in Seq(Ids) /\ LegsAdjacent(task[t].todo)
  <2>1. task \in [Tasks -> TaskRec] /\ task[t] \in TaskRec /\ Free \notin Tasks /\ loop = t
        /\ ord \in [Roots -> OrderRec] /\ LegsAdjacent(task[t].todo)
    BY ExecutorAssumption DEF LInv, SInv, IInv, CallsGood, OrdersGood, LoopHeld, ListsAdjacent
  <2> QED
    BY <2>1 DEF TaskRec
<1>2. /\ s.pc = "run" /\ s.todo = Tail(task[t].todo) /\ s.op = task[t].op /\ s.books = task[t].books
  BY <1>1 DEF TaskRec
<1>3. task'[t] = s /\ loop' = t /\ \A u \in Tasks : u # t => task'[u] = task[u] /\ task[u].pc # "run"
  BY <1>1, OthersWait DEF Continue, SetTask
<1> HIDE DEF s
<1>4. /\ LegsAdjacent(s.todo)
      /\ s.todo # <<>> /\ Head(s.todo)[2] = "stop_loss" =>
           Visited(t) = <<Head(s.todo)[1], "take_profit">>
      /\ l = "take_profit" => s.todo # <<>> /\ Head(s.todo) = <<r, "stop_loss">>
  BY <1>1, <1>2, TailAdjacent DEF Visited
<1>5. ord'[r] = n /\ \A q \in Roots : q # r => ord'[q] = ord[q]
  BY <1>1
<1>6. \A u \in Tasks, q \in Roots : AtStop(u, q)' => u = t /\ q = r /\ l = "take_profit"
  <2> SUFFICES ASSUME NEW u \in Tasks, NEW q \in Roots, AtStop(u, q)'
               PROVE  u = t /\ q = r /\ l = "take_profit"
    OBVIOUS
  <2>1. u = t
    BY <1>3 DEF AtStop
  <2>2. s.todo # <<>> /\ Head(s.todo) = <<q, "stop_loss">>
    BY <1>3, <2>1 DEF AtStop
  <2> QED
    BY <1>4, <2>1, <2>2
<1>7. \A u \in Tasks, q \in Roots : AtStop(u, q) => u = t /\ q = r /\ l = "stop_loss"
  BY <1>3 DEF AtStop, Visited
<1>8. LegsInStep'
  <2>1. CASE l = "take_profit"
    <3>1. \A q \in Roots : Paired(ord[q])
      BY <1>7, <2>1 DEF LInv, LegsInStep
    <3>2. Between(task[t], n) /\ AtStop(t, r)'
      BY <1>2, <1>3, <1>4, <2>1, <3>1 DEF AtStop
    <3>3. Between(task'[t], ord'[r])
      BY <1>2, <1>3, <1>5, <3>2 DEF Between, EndsLegs
    <3>4. \A q \in Roots : q # r => Paired(ord'[q])
      BY <1>5, <3>1
    <3> QED
      BY <1>6, <3>2, <3>3, <3>4 DEF LegsInStep, Paired, Between, EndsLegs
  <2>2. CASE l = "stop_loss"
    <3>1. AtStop(t, r)
      BY <2>2 DEF AtStop, Visited
    <3>2. Paired(n)
      BY <2>2, <3>1 DEF LInv, LegsInStep
    <3>3. \A q \in Roots : q # r => Paired(ord[q])
      BY <1>7 DEF LInv, LegsInStep
    <3>4. \A q \in Roots : Paired(ord'[q])
      BY <1>5, <3>2, <3>3
    <3> QED
      BY <1>6, <2>2, <3>4 DEF LegsInStep, Paired
  <2> QED
    BY <2>1, <2>2
<1>9. ListsAdjacent'
  <2>1. \A u \in Tasks : LegsAdjacent(task'[u].todo)
    BY <1>2, <1>3, <1>4 DEF LInv, ListsAdjacent
  <2>2. \A u \in Tasks : /\ task'[u].pc # "run" => NotAtStop(task'[u].todo)
                         /\ task'[u].pc \in {"cancelling", "fetching"} => Head(task'[u].todo)[2] = "root"
    BY <1>2, <1>3 DEF LInv, ListsAdjacent
  <2>3. \A u \in Tasks : LegsAdjacent(task[u].todo)'
    BY <2>1 DEF LegsAdjacent
  <2>4. ASSUME NEW u \in Tasks, task'[u].pc # "run" PROVE NotAtStop(task[u].todo)'
    <3>1. NotAtStop(task'[u].todo)
      BY <2>2, <2>4
    <3> QED
      BY <3>1 DEF NotAtStop
  <2> QED
    BY <2>2, <2>3, <2>4 DEF ListsAdjacent
<1>10. LoopHeld'
  BY <1>3 DEF LoopHeld
<1> QED
  BY <1>8, <1>9, <1>10 DEF LInv

\* One record changes, and keeps its pair; or none does.
LEMMA OnePairKept ==
  ASSUME LInv, NEW r \in Roots, NEW n, SetOrder(r, n), KeepsPair(ord[r], n)
  PROVE  PairsKept
<1>1. ord \in [Roots -> OrderRec]
  BY DEF LInv, SInv, IInv, OrdersGood
<1> QED
  BY <1>1 DEF SetOrder, PairsKept, KeepsPair

\* No record changes.
LEMMA NoPairChange ==
  ASSUME LInv, UNCHANGED <<ord, orders>>
  PROVE  PairsKept /\ LegsAdjacent(orders)' /\ NotAtStop(orders)'
BY DEF LInv, ListsAdjacent, PairsKept, KeepsPair, LegsAdjacent, NotAtStop

\* A call without a list has nothing to visit.
LEMMA NothingToVisit == LegsAdjacent(<<>>) /\ NotAtStop(<<>>)
BY DEF LegsAdjacent, NotAtStop

\* After a root, a loop does not stand at a stop-loss.
LEMMA RootVisited ==
  ASSUME LInv, SInv', NEW t \in Tasks, loop \in {Free, t}, Continue(t), task[t].todo # <<>>,
         Head(task[t].todo)[2] = "root", LegsAdjacent(orders)', NotAtStop(orders)', PairsKept
  PROVE  LInv'
<1> DEFINE s == [task[t] EXCEPT !.pc = "run", !.todo = Tail(@), !.root = NoRoot,
                                !.left = {}, !.chunk = 0, !.seen = {}, !.sum = 0]
<1>1. task[t] \in TaskRec /\ LegsAdjacent(task[t].todo)
  BY DEF LInv, SInv, IInv, CallsGood, ListsAdjacent
<1>2. task[t].todo \in Seq(Ids)
  BY <1>1 DEF TaskRec
<1>3. s.pc = "run" /\ s.todo = Tail(task[t].todo)
  BY <1>1 DEF TaskRec
<1>4. task' = [task EXCEPT ![t] = s] /\ loop' = t
  BY DEF Continue, SetTask
<1> HIDE DEF s
<1>5. LegsAdjacent(s.todo) /\ ~(s.todo # <<>> /\ Head(s.todo)[2] = "stop_loss")
  BY <1>1, <1>2, <1>3, TailAdjacent
<1>6. NotAtStop(s.todo)
  <2>1. s.todo \in Seq(Ids)
    BY <1>2, <1>3
  <2>2. s.todo # <<>> => Head(s.todo) = s.todo[1]
    BY <2>1
  <2> QED
    BY <1>5, <2>2 DEF NotAtStop
<1>7. \A r \in Roots : ~AtStop(t, r)
  BY DEF AtStop
<1> QED
  BY <1>3, <1>4, <1>5, <1>6, <1>7, AwayFromStop

\* A call that returns from where no stop-loss is next.
LEMMA ReturnedAway ==
  ASSUME LInv, SInv', NEW t \in Tasks, loop \in {Free, t}, Return(t),
         task[t].pc # "run" \/ task[t].todo = <<>>,
         LegsAdjacent(orders)', NotAtStop(orders)', PairsKept
  PROVE  LInv'
<1>1. IdleTask.pc = "idle" /\ IdleTask.todo = <<>>
  BY DEF IdleTask
<1>2. \A r \in Roots : ~AtStop(t, r)
  BY DEF AtStop
<1>3. task' = [task EXCEPT ![t] = IdleTask]
  BY DEF Return, SetTask
<1> QED
  BY <1>1, <1>2, <1>3, NothingToVisit, AwayFromStop

\* A loop that takes its snapshot of self.orders.
LEMMA ScannedAway ==
  ASSUME LInv, SInv', NEW t \in Tasks, loop = Free, NEW op, NEW snapshot, NEW books,
         Scan(t, op, snapshot, books), LegsAdjacent(snapshot), NotAtStop(snapshot),
         UNCHANGED <<ord, orders>>
  PROVE  LInv'
<1> DEFINE s == [IdleTask EXCEPT !.pc = "run", !.op = op, !.todo = snapshot, !.books = books]
<1>1. s.pc = "run" /\ s.todo = snapshot
  BY DEF IdleTask
<1>2. task' = [task EXCEPT ![t] = s] /\ loop' = t
  BY DEF Scan, SetTask
<1> HIDE DEF s
<1>3. \A r \in Roots : ~AtStop(t, r)
  BY ExecutorAssumption DEF AtStop, LInv, LoopHeld
<1> QED
  BY <1>1, <1>2, <1>3, NoPairChange, AwayFromStop

\* A step of a call that stays at the same await or goes to the next one.
LEMMA WaitedAway ==
  ASSUME LInv, SInv', NEW t \in Tasks, loop \in {Free, t}, NEW s, task' = [task EXCEPT ![t] = s],
         task[t].pc \notin {"idle", "run"} \/ (task[t].todo # <<>> /\ Head(task[t].todo)[2] = "root"),
         s.pc # "run", s.todo = task[t].todo,
         s.pc \in {"cancelling", "fetching"} =>
           task[t].pc \in {"cancelling", "fetching"} \/ Head(task[t].todo)[2] = "root",
         UNCHANGED <<ord, orders>>
  PROVE  LInv'
<1>1. task[t] \in TaskRec /\ LegsAdjacent(task[t].todo) /\ (task[t].pc # "run" => NotAtStop(task[t].todo))
      /\ (task[t].pc \in {"cancelling", "fetching"} => Head(task[t].todo)[2] = "root")
  BY DEF LInv, SInv, IInv, CallsGood, ListsAdjacent
<1>2. task[t].todo # <<>> => Head(task[t].todo) = task[t].todo[1]
  BY <1>1 DEF TaskRec
<1>3. NotAtStop(task[t].todo)
  BY <1>1, <1>2 DEF NotAtStop
<1>4. \A r \in Roots : ~AtStop(t, r)
  BY <1>1 DEF AtStop
<1> QED
  BY <1>1, <1>3, <1>4, NoPairChange, AwayFromStop

\* A new call.
LEMMA CallLegs ==
  ASSUME LInv, SInv', NEW t \in Tasks, Call(t)
  PROVE  LInv'
<1>1. loop = Free /\ task[t].pc = "idle"
  BY DEF Call, PlacePaper, PlaceLive, Admits, CloseCall, ReconcileCall, CancelAllCall, CancelExpiredCall,
         CancelOneCall, MayCall
<1>2. /\ orders \in Seq(Ids) /\ LegsAdjacent(orders) /\ NotAtStop(orders)
      /\ task \in [Tasks -> TaskRec] /\ LegsAdjacent(task[t].todo) /\ NotAtStop(task[t].todo)
  BY <1>1 DEF LInv, SInv, IInv, OrdersGood, CallsGood, ListsAdjacent
<1>3. \A r \in Roots : ~AtStop(t, r)
  BY <1>1 DEF AtStop
<1>4. ASSUME NEW s, task' = [task EXCEPT ![t] = s], s.todo = <<>>, s.pc \in {"preflight", "posting"},
             NEW r \in Roots, NEW n, SetOrder(r, n), KeepsPair(ord[r], n)
      PROVE  LInv'
  BY <1>1, <1>3, <1>4, NothingToVisit, OnePairKept, SetOrderAdjacent, AwayFromStop
<1>5. ASSUME UNCHANGED task, NEW r \in Roots, NEW n, SetOrder(r, n), KeepsPair(ord[r], n)
      PROVE  LInv'
  <2>1. task' = [task EXCEPT ![t] = task[t]]
    BY <1>2, <1>5
  <2> QED
    BY <1>1, <1>2, <1>3, <1>5, <2>1, OnePairKept, SetOrderAdjacent, AwayFromStop
<1>6. ASSUME NEW kind, NEW key, NEW size \in Sizes
      PROVE  /\ Paired(NewOrder(kind, key, size))
             /\ kind \in {"entry", "exit"} /\ key \in Keys \cup {NoKey} =>
                  /\ Paired(ApplyFill(NewOrder(kind, key, size), size))
                  /\ Paired(ArmBracketOrders(ApplyFill(NewOrder(kind, key, size), size)))
  <2> DEFINE o == NewOrder(kind, key, size)
  <2>1. Paired(o)
    BY DEF NewOrder, NoOrder, Paired
  <2>2. ASSUME kind \in {"entry", "exit"}, key \in Keys \cup {NoKey}
        PROVE  Paired(ApplyFill(o, size)) /\ Paired(ArmBracketOrders(ApplyFill(o, size)))
    <3>1. GoodOrder(o) /\ size \in Int
      BY <2>2, NewOrderGood, Constants
    <3>2. ApplyFill(o, size) \in OrderRec /\ ApplyFill(o, size).leg = o.leg
      BY <3>1, ApplyFillGood DEF GoodOrder
    <3> QED
      BY <2>1, <3>2 DEF Paired, ArmBracketOrders, SyncChildSizes, OrderRec
  <2> QED
    BY <2>1, <2>2
<1>7. ASSUME NEW r \in Roots, NEW k \in Keys, NEW s \in Sizes, PlacePaper(t, r, k, s) PROVE LInv'
  <2> DEFINE o == NewOrder("entry", k, s)
             f == IF PaperFillOnPlace THEN ApplyFill(o, s) ELSE o
             n == IF PaperFillOnPlace /\ EnableBrackets THEN ArmBracketOrders(f) ELSE f
  <2>1. SetOrder(r, n) /\ UNCHANGED task
    BY <1>7 DEF PlacePaper
  <2>2. Paired(n)
    BY <1>6
  <2> HIDE DEF n
  <2> QED
    BY <1>5, <2>1, <2>2 DEF KeepsPair
<1>8. ASSUME NEW r \in Roots, NEW k \in Keys, NEW s \in Sizes, PlaceLive(t, r, k, s) PROVE LInv'
  <2> DEFINE x == [IdleTask EXCEPT !.pc = "preflight", !.op = "place", !.root = r, !.n = NChunks(s)]
             n == NewOrder("entry", k, s)
  <2>1. task' = [task EXCEPT ![t] = x] /\ SetOrder(r, n)
    BY <1>8 DEF PlaceLive, SetTask
  <2>2. x.todo = <<>> /\ x.pc = "preflight"
    BY DEF IdleTask
  <2>3. Paired(n)
    BY <1>6
  <2> HIDE DEF n, x
  <2> QED
    BY <1>4, <2>1, <2>2, <2>3 DEF KeepsPair
<1>9. ASSUME NEW r \in Roots, NEW s \in Sizes, CloseCall(t, r, s) PROVE LInv'
  <2> DEFINE x == [IdleTask EXCEPT !.pc = "posting", !.op = "close", !.root = r, !.chunk = 1]
             o == NewOrder("exit", NoKey, s)
             n == IF Live THEN o ELSE ApplyFill(o, s)
  <2>1. (IF Live THEN task' = [task EXCEPT ![t] = x] ELSE UNCHANGED task) /\ SetOrder(r, n)
    BY <1>9 DEF CloseCall, SetTask
  <2>2. x.todo = <<>> /\ x.pc = "posting"
    BY DEF IdleTask
  <2>3. Paired(n)
    BY <1>6
  <2> HIDE DEF n, x
  <2> QED
    BY <1>4, <1>5, <2>1, <2>2, <2>3 DEF KeepsPair
<1>10. CASE ReconcileCall(t) \/ CancelAllCall(t) \/ CancelExpiredCall(t)
  <2>1. PICK op, books : Scan(t, op, orders, books) /\ UNCHANGED <<ord, orders>>
    BY <1>10 DEF ReconcileCall, CancelAllCall, CancelExpiredCall, memory
  <2> QED
    BY <1>1, <1>2, <2>1, ScannedAway
<1>11. ASSUME NEW r \in Roots, CancelOneCall(t, r) PROVE LInv'
  <2> DEFINE one == << <<r, "root">> >>
  <2>1. Scan(t, "cancel_all", one, {}) /\ UNCHANGED <<ord, orders>>
    BY <1>11 DEF CancelOneCall, memory
  <2>2. LegsAdjacent(one) /\ NotAtStop(one)
    BY DEF LegsAdjacent, NotAtStop
  <2> HIDE DEF one
  <2> QED
    BY <1>1, <2>1, <2>2, ScannedAway
<1> QED
  BY <1>7, <1>8, <1>9, <1>10, <1>11 DEF Call

\* Placing: the calls have no list, and change a root only.
LEMMA PlacingLegs ==
  ASSUME LInv, SInv', NEW t \in Tasks,
         \/ PreflightOk(t) \/ PreflightFail(t) \/ NextChunk(t) \/ PostFail(t)
         \/ \E named \in BOOLEAN : PostReplyMore(t, named) \/ PostReplyLast(t, named)
  PROVE  LInv'
<1> DEFINE r == task[t].root
<1>1. task[t].pc \in {"preflight", "posting", "pause"} /\ loop \in {Free, t}
  BY DEF PreflightOk, PreflightFail, NextChunk, PostFail, PostReplyMore, PostReplyLast, At, Answered
<1>2. task[t] \in TaskRec /\ r \in Roots /\ Sound(ord[r])
  BY <1>1, Known DEF LInv
<1>3. ASSUME NEW n, SetOrder(r, n), KeepsPair(ord[r], n), Return(t) PROVE LInv'
  BY <1>1, <1>2, <1>3, OnePairKept, SetOrderAdjacent, ReturnedAway
<1>4. ASSUME NEW s, SetTask(t, s), s.todo = task[t].todo, s.pc \in {"posting", "pause"},
             UNCHANGED <<ord, orders>>
      PROVE  LInv'
  BY <1>1, <1>4, WaitedAway DEF SetTask
<1>5. CASE PreflightFail(t) \/ PostFail(t)
  BY <1>2, <1>3, <1>5, RootKeepsPair DEF PreflightFail, PostFail
<1>6. ASSUME NEW c, Send(t, c), UNCHANGED <<ord, orders>> PROVE LInv'
  <2> DEFINE s == [task[t] EXCEPT !.pc = "posting", !.chunk = c]
  <2>1. SetTask(t, s) /\ s.todo = task[t].todo /\ s.pc = "posting"
    BY <1>2, <1>6 DEF Send, TaskRec
  <2> HIDE DEF s
  <2> QED
    BY <1>4, <1>6, <2>1
<1>7. CASE PreflightOk(t) \/ NextChunk(t)
  BY <1>6, <1>7 DEF PreflightOk, NextChunk, memory
<1>8. ASSUME NEW named \in BOOLEAN, PostReplyMore(t, named) PROVE LInv'
  <2> DEFINE s == [task[t] EXCEPT !.pc = "pause", !.got = GotIds(t, named)]
  <2>1. SetTask(t, s) /\ s.todo = task[t].todo /\ s.pc = "pause" /\ UNCHANGED <<ord, orders>>
    BY <1>2, <1>8 DEF PostReplyMore, TaskRec, memory
  <2> HIDE DEF s
  <2> QED
    BY <1>4, <2>1
<1>9. ASSUME NEW named \in BOOLEAN, PostReplyLast(t, named) PROVE LInv'
  BY <1>2, <1>3, <1>9, RootKeepsPair DEF PostReplyLast
<1> QED
  BY <1>5, <1>7, <1>8, <1>9

\* What a loop visits: a root, or a leg next to its sibling.
LEMMA VisitedSlot ==
  ASSUME LInv, NEW t \in Tasks, NEW op, Visiting(t, op)
  PROVE  LET r == Visited(t)[1]  slot == Visited(t)[2] IN
         /\ task[t].pc = "run" /\ task[t].op = op /\ task[t].todo # <<>> /\ loop \in {Free, t}
         /\ Visited(t) = <<r, slot>> /\ r \in Roots /\ slot \in {"root"} \cup Legs
         /\ ord[r] \in OrderRec /\ Sound(ord[r])
         /\ slot # "root" => StatusOf(Visited(t)) = ord[r].leg[slot]
         /\ Paired(ord[r]) => PairsKept \/ ~UNCHANGED ord
<1>1. Visited(t) \in Ids /\ Visited(t)[1] \in Roots /\ Visited(t)[2] \in Slots /\ Sound(ord[Visited(t)[1]])
      /\ task[t].pc = "run" /\ task[t].todo # <<>>
  BY HeadKnown DEF LInv
<1>2. Visited(t) = <<Visited(t)[1], Visited(t)[2]>>
  BY <1>1 DEF Ids
<1>3. UNCHANGED ord => PairsKept
  BY DEF PairsKept, KeepsPair
<1> QED
  BY <1>1, <1>2, <1>3 DEF Visiting, At, Slots, StatusOf, Sound, GoodOrder

\* A visit of a leg that leaves it as it is.
LEMMA LegSkipped ==
  ASSUME LInv, SInv', NEW t \in Tasks, NEW r \in Roots, NEW l \in Legs,
         task[t].pc = "run", task[t].todo # <<>>, Visited(t) = <<r, l>>, Continue(t),
         UNCHANGED <<ord, orders>>,
         ord[r].leg[l] = "armed" => ~EndsLegs(task[t], ord[r])
  PROVE  LInv'
<1>1. ord \in [Roots -> OrderRec] /\ ord[r] \in OrderRec
  BY DEF LInv, SInv, IInv, OrdersGood
<1>2. ord' = [ord EXCEPT ![r] = ord[r]]
  BY <1>1
<1>3. l = "take_profit" /\ Paired(ord[r]) => Between(task[t], ord[r])
  BY DEF Paired, Between
<1>4. l = "stop_loss" /\ Between(task[t], ord[r]) => Paired(ord[r])
  BY DEF Paired, Between
<1>5. LegsAdjacent(orders)' /\ NotAtStop(orders)'
  BY NoPairChange
<1> DEFINE n == ord[r]
<1>6. /\ n \in OrderRec /\ ord' = [ord EXCEPT ![r] = n] /\ n.due = ord[r].due /\ n.key = ord[r].key
      /\ l = "take_profit" /\ Paired(ord[r]) => Between(task[t], n)
      /\ l = "stop_loss" /\ Between(task[t], ord[r]) => Paired(n)
  BY <1>1, <1>2, <1>3, <1>4
<1> HIDE DEF n
<1> QED
  BY <1>5, <1>6, LegVisited

\* Triggering a leg leaves neither leg of the order armed.
LEMMA TriggerEndsLegs ==
  ASSUME NEW o \in OrderRec, NEW l \in Legs
  PROVE  \A k \in Legs : TriggerLeg(o, l).leg[k] # "armed"
<1> DEFINE f == [k \in Legs |-> IF k = l THEN "filled" ELSE IF o.leg[k] = "armed" THEN "cancelled" ELSE o.leg[k]]
<1>1. TriggerLeg(o, l).leg = f
  BY DEF TriggerLeg, OrderRec
<1>2. \A k \in Legs : f[k] # "armed"
  OBVIOUS
<1> QED
  BY <1>1, <1>2

\* A visit that ends a leg, for a reason that ends its sibling too.
LEMMA LegEnded ==
  ASSUME LInv, SInv', NEW t \in Tasks, NEW r \in Roots, NEW l \in Legs, NEW n,
         task[t].pc = "run", task[t].todo # <<>>, Visited(t) = <<r, l>>, Continue(t), SetOrder(r, n),
         ord[r].leg[l] = "armed",
         \/ EndsLegs(task[t], ord[r]) /\ n \in {ExpireLeg(ord[r], l), ExpireLegOnly(ord[r], l), CancelLeg(ord[r], l)}
         \/ n = TriggerLeg(ord[r], l)
  PROVE  LInv'
<1>1. ord[r] \in OrderRec /\ GoodOrder(ord[r])
  BY DEF LInv, SInv, IInv, OrdersGood
<1>2. n \in OrderRec
  BY <1>1, EndLegGood, TriggerLegGood DEF GoodOrder
<1>3. n.due = ord[r].due /\ n.key = ord[r].key
  BY <1>1 DEF ExpireLeg, ExpireLegOnly, CancelLeg, TriggerLeg, OrderRec
<1>4. \/ /\ EndsLegs(task[t], ord[r])
         /\ n.leg \in {[ord[r].leg EXCEPT ![l] = "expired"], [ord[r].leg EXCEPT ![l] = "cancelled"]}
      \/ \A k \in Legs : n.leg[k] # "armed"
  <2>1. CASE EndsLegs(task[t], ord[r]) /\ n \in {ExpireLeg(ord[r], l), ExpireLegOnly(ord[r], l), CancelLeg(ord[r], l)}
    BY <1>1, <2>1 DEF ExpireLeg, ExpireLegOnly, CancelLeg, OrderRec
  <2>2. CASE n = TriggerLeg(ord[r], l)
    BY <1>1, <2>2, TriggerEndsLegs
  <2> QED
    BY <2>1, <2>2
<1>5. ord[r].leg \in [Legs -> {"none", "armed"} \cup FINAL_ORDER_STATUSES]
  BY <1>1 DEF OrderRec
<1>6. EndsLegs(task[t], n) <=> EndsLegs(task[t], ord[r])
  BY <1>3 DEF EndsLegs
<1>7. l = "take_profit" /\ Paired(ord[r]) => Between(task[t], n)
  BY <1>4, <1>5, <1>6 DEF Paired, Between
<1>8. l = "stop_loss" /\ Between(task[t], ord[r]) => Paired(n)
  BY <1>4, <1>5 DEF Paired, Between
<1>9. ord' = [ord EXCEPT ![r] = n]
  BY DEF SetOrder
<1> QED
  BY <1>2, <1>3, <1>7, <1>8, <1>9, SetOrderAdjacent, LegVisited

\* Cancelling: the legs go one after the other, or with their root.
LEMMA CancellingLegs ==
  ASSUME LInv, SInv', NEW t \in Tasks,
         \/ ScanSkip(t) \/ ScanExpire(t) \/ ScanCancelLocal(t) \/ ScanCancelNoIds(t)
         \/ ScanCancelLive(t) \/ CancelReplyMore(t) \/ CancelReplyLast(t) \/ CancelFail(t)
  PROVE  LInv'
<1> DEFINE id == Visited(t)
           q == task[t].root
<1>1. task[t] \in TaskRec /\ CallSound(task[t])
  BY Known DEF LInv
<1>2. ASSUME Scanning(t)
      PROVE  /\ task[t].pc = "run" /\ task[t].todo # <<>> /\ loop \in {Free, t}
             /\ task[t].op \in {"cancel_all", "cancel_expired"}
             /\ id = <<id[1], id[2]>> /\ id[1] \in Roots /\ id[2] \in {"root"} \cup Legs
             /\ ord[id[1]] \in OrderRec /\ Sound(ord[id[1]])
             /\ id[2] # "root" => StatusOf(id) = ord[id[1]].leg[id[2]]
  BY <1>2, VisitedSlot DEF Scanning
<1>3. ASSUME Continue(t), task[t].todo # <<>>, id[2] = "root", loop \in {Free, t},
             \/ UNCHANGED <<ord, orders>>
             \/ \E r \in Roots : \E n : SetOrder(r, n) /\ KeepsPair(ord[r], n)
      PROVE  LInv'
  BY <1>3, NoPairChange, OnePairKept, SetOrderAdjacent, RootVisited DEF Visited
<1>4. ASSUME task[t].pc = "cancelling"
      PROVE  /\ task[t].todo # <<>> /\ id[2] = "root" /\ q \in Roots /\ Sound(ord[q])
  BY <1>1, <1>4, Known DEF LInv, ListsAdjacent, CallSound, Visited
<1>5. CASE ScanSkip(t)
  <2>1. Scanning(t) /\ ~ToCancel(t, id) /\ ~ToExpire(t, id) /\ Continue(t) /\ UNCHANGED <<ord, orders>>
    BY <1>5 DEF ScanSkip, memory
  <2>2. CASE id[2] = "root"
    BY <1>2, <1>3, <2>1, <2>2
  <2>3. CASE id[2] \in Legs
    <3>1. ord[id[1]].leg[id[2]] = "armed" => ~EndsLegs(task[t], ord[id[1]])
      BY <1>2, <2>1, <2>3 DEF ToCancel, ToExpire, Open, EndsLegs
    <3> HIDE DEF id
    <3> QED
      BY <1>2, <2>1, <2>3, <3>1, LegSkipped DEF id
  <2> QED
    BY <1>2, <2>1, <2>2, <2>3
<1>6. CASE ScanExpire(t)
  <2> DEFINE n == ExpireLegOnly(ord[id[1]], id[2])
  <2>1. Scanning(t) /\ ToExpire(t, id) /\ Continue(t) /\ SetOrder(id[1], n)
    BY <1>6 DEF ScanExpire
  <2>2. id[2] \in Legs /\ ord[id[1]].leg[id[2]] = "armed" /\ EndsLegs(task[t], ord[id[1]])
    BY <1>2, <2>1 DEF ToExpire, EndsLegs
  <2> QED
    BY <1>2, <2>1, <2>2, LegEnded
<1>7. CASE ScanCancelLocal(t)
  <2> DEFINE n == IF id[2] = "root" THEN CancelLocal(ord[id[1]]) ELSE CancelLeg(ord[id[1]], id[2])
  <2>1. Scanning(t) /\ ToCancel(t, id) /\ Continue(t) /\ SetOrder(id[1], n)
    BY <1>7 DEF ScanCancelLocal
  <2>2. CASE id[2] = "root"
    <3>1. KeepsPair(ord[id[1]], n)
      BY <1>2, <2>1, <2>2, RootKeepsPair
    <3> HIDE DEF n
    <3> QED
      BY <1>2, <1>3, <2>1, <2>2, <3>1
  <2>3. CASE id[2] \in Legs
    <3>1. ord[id[1]].leg[id[2]] = "armed" /\ EndsLegs(task[t], ord[id[1]])
      <4>1. ord[id[1]].leg[id[2]] \in {"none", "armed"} \cup FINAL_ORDER_STATUSES
        BY <1>2, <2>1, <2>3 DEF OrderRec
      <4> QED
        BY <1>2, <2>1, <2>3, <4>1 DEF ToCancel, Open, EndsLegs
    <3>2. n = CancelLeg(ord[id[1]], id[2])
      BY <2>3
    <3> HIDE DEF n, id
    <3> QED
      BY <1>2, <2>1, <2>3, <3>1, <3>2, LegEnded DEF id
  <2> QED
    BY <1>2, <2>1, <2>2, <2>3
<1>8. ASSUME NEW r \in Roots, LiveEntryToCancel(t, r)
      PROVE  task[t].pc = "run" /\ task[t].todo # <<>> /\ id[2] = "root" /\ loop \in {Free, t} /\ Sound(ord[r])
  BY <1>2, <1>8, Known DEF LiveEntryToCancel, LInv
<1>9. CASE ScanCancelNoIds(t)
  <2>1. PICK r \in Roots : LiveEntryToCancel(t, r) /\ SetOrder(r, CancelLive(ord[r])) /\ Continue(t)
    BY <1>9 DEF ScanCancelNoIds
  <2>2. KeepsPair(ord[r], CancelLive(ord[r]))
    BY <1>8, <2>1, RootKeepsPair
  <2> QED
    BY <1>3, <1>8, <2>1, <2>2
<1>10. ASSUME NEW r \in Roots, NEW ids, SendCancel(t, r, ids), loop \in {Free, t},
              task[t].todo # <<>>, id[2] = "root"
       PROVE  LInv'
  <2>1. PICK c \in Chunks :
          /\ SetTask(t, [task[t] EXCEPT !.pc = "cancelling", !.root = r, !.chunk = c, !.left = ids \ {c}])
          /\ UNCHANGED <<ord, orders>>
    BY <1>10 DEF SendCancel, memory
  <2> DEFINE s == [task[t] EXCEPT !.pc = "cancelling", !.root = r, !.chunk = c, !.left = ids \ {c}]
  <2>2. s.pc = "cancelling" /\ s.todo = task[t].todo /\ task' = [task EXCEPT ![t] = s]
    BY <1>1, <2>1 DEF TaskRec, SetTask
  <2> HIDE DEF s
  <2> QED
    BY <1>10, <2>1, <2>2, WaitedAway DEF Visited
<1>11. CASE ScanCancelLive(t)
  <2>1. PICK r \in Roots : LiveEntryToCancel(t, r) /\ SendCancel(t, r, ord[r].eids)
    BY <1>11 DEF ScanCancelLive
  <2> QED
    BY <1>8, <1>10, <2>1
<1>12. CASE CancelReplyMore(t)
  <2>1. task[t].pc = "cancelling" /\ loop \in {Free, t} /\ SendCancel(t, q, task[t].left)
    BY <1>12 DEF CancelReplyMore, CancelReply, At
  <2> QED
    BY <1>4, <1>10, <2>1
<1>13. CASE CancelReplyLast(t)
  <2>1. /\ task[t].pc = "cancelling" /\ loop \in {Free, t} /\ SetOrder(q, CancelLive(ord[q])) /\ Continue(t)
    BY <1>13 DEF CancelReplyLast, CancelReply, At
  <2>2. KeepsPair(ord[q], CancelLive(ord[q]))
    BY <1>4, <2>1, RootKeepsPair
  <2> QED
    BY <1>3, <1>4, <2>1, <2>2
<1>14. CASE CancelFail(t)
  BY <1>3, <1>4, <1>14 DEF CancelFail, At, memory
<1> QED
  BY <1>5, <1>6, <1>7, <1>9, <1>11, <1>12, <1>13, <1>14

\* Reconciling: a due leg takes its sibling along, a trigger ends both.
LEMMA ReconcilingLegs ==
  ASSUME LInv, SInv', NEW t \in Tasks,
         \/ VisitSkip(t)
         \/ \E r \in Roots : VisitPaperEntry(t, r) \/ VisitLiveEntry(t, r)
         \/ \E r \in Roots, l \in Legs : VisitLegExpired(t, r, l) \/ VisitLegTriggered(t, r, l)
         \/ FetchReply(t) \/ FetchFail(t)
  PROVE  LInv'
<1> DEFINE id == Visited(t)
           q == task[t].root
<1>1. task[t] \in TaskRec /\ CallSound(task[t])
  BY Known DEF LInv
<1>2. ASSUME Visiting(t, "reconcile")
      PROVE  /\ task[t].pc = "run" /\ task[t].op = "reconcile" /\ task[t].todo # <<>> /\ loop \in {Free, t}
             /\ id = <<id[1], id[2]>> /\ id[1] \in Roots /\ id[2] \in {"root"} \cup Legs
             /\ ord[id[1]] \in OrderRec /\ Sound(ord[id[1]])
             /\ id[2] # "root" => StatusOf(id) = ord[id[1]].leg[id[2]]
  BY <1>2, VisitedSlot
<1>3. ASSUME Continue(t), task[t].todo # <<>>, id[2] = "root", loop \in {Free, t},
             \/ UNCHANGED <<ord, orders>>
             \/ \E r \in Roots : \E n : SetOrder(r, n) /\ KeepsPair(ord[r], n)
      PROVE  LInv'
  BY <1>3, NoPairChange, OnePairKept, SetOrderAdjacent, RootVisited DEF Visited
<1>4. CASE VisitSkip(t)
  <2>1. Visiting(t, "reconcile") /\ Continue(t) /\ UNCHANGED <<ord, orders>>
    BY <1>4 DEF VisitSkip, memory
  <2>2. CASE id[2] = "root"
    BY <1>2, <1>3, <2>1, <2>2
  <2>3. CASE id[2] \in Legs
    <3>1. ord[id[1]].leg[id[2]] = "armed" /\ HasBook(t, id[1]) => ~ord[id[1]].due
      BY <1>2, <1>4, <2>1, <2>3 DEF VisitSkip
    <3>2. ord[id[1]].leg[id[2]] = "armed" => ~EndsLegs(task[t], ord[id[1]])
      BY <1>2, <2>1, <3>1 DEF EndsLegs, HasBook
    <3> HIDE DEF id
    <3> QED
      BY <1>2, <2>1, <2>3, <3>2, LegSkipped DEF id
  <2> QED
    BY <1>2, <2>1, <2>2, <2>3
<1>5. ASSUME NEW r \in Roots, VisitPaperEntry(t, r) PROVE LInv'
  <2>1. PICK o \in {ord[r], PaperFill(ord[r])} : SetOrder(r, ArmIfMissing(o))
    BY <1>5 DEF VisitPaperEntry
  <2>2. Visiting(t, "reconcile") /\ id = <<r, "root">> /\ OpenEntry(r) /\ ~Live /\ Continue(t)
    BY <1>5 DEF VisitPaperEntry, VisitRoot
  <2>3. Sound(ord[r]) /\ ord[r].status \in OpenStatuses /\ ord[r].kind = "entry"
    BY <2>2, Known DEF LInv, OpenEntry, Sound, OrderRec
  <2>4. Sound(o) /\ KeepsPair(ord[r], o)
    BY <2>1, <2>2, <2>3, FillsKeepPair, PaperFillMoves DEF KeepsPair, Moves
  <2>5. KeepsPair(ord[r], ArmIfMissing(o))
    BY <2>4, RootKeepsPair DEF KeepsPair
  <2> QED
    BY <1>2, <1>3, <2>1, <2>2, <2>5
<1>6. ASSUME NEW r \in Roots, NEW l \in Legs, VisitLegExpired(t, r, l) PROVE LInv'
  <2>1. /\ task[t].pc = "run" /\ task[t].todo # <<>> /\ id = <<r, l>> /\ ord[r].leg[l] = "armed"
        /\ Continue(t) /\ SetOrder(r, ExpireLeg(ord[r], l)) /\ EndsLegs(task[t], ord[r])
    BY <1>6 DEF VisitLegExpired, VisitArmedLeg, Visiting, At, EndsLegs, HasBook
  <2> QED
    BY <2>1, LegEnded
<1>7. ASSUME NEW r \in Roots, NEW l \in Legs, VisitLegTriggered(t, r, l) PROVE LInv'
  <2>1. /\ task[t].pc = "run" /\ task[t].todo # <<>> /\ id = <<r, l>> /\ ord[r].leg[l] = "armed"
        /\ Continue(t) /\ SetOrder(r, TriggerLeg(ord[r], l))
    BY <1>7 DEF VisitLegTriggered, VisitArmedLeg, Visiting, At
  <2> QED
    BY <2>1, LegEnded
<1>8. ASSUME NEW r \in Roots, NEW seen, NEW sum \in Nat, Apply(t, r, seen, sum), task[t].todo # <<>>,
             id[2] = "root", loop \in {Free, t}, ord[r].kind = "entry", Live
      PROVE  LInv'
  <2>1. SetOrder(r, ArmIfMissing(ApplyRows(ord[r], seen, sum))) /\ Continue(t)
    BY <1>8 DEF Apply
  <2>2. Sound(ord[r])
    BY Known DEF LInv
  <2>3. Sound(ApplyRows(ord[r], seen, sum)) /\ KeepsPair(ord[r], ApplyRows(ord[r], seen, sum))
    BY <1>8, <2>2, FillsKeepPair, ApplyRowsMoves DEF Moves
  <2>4. KeepsPair(ord[r], ArmIfMissing(ApplyRows(ord[r], seen, sum)))
    BY <2>3, RootKeepsPair DEF KeepsPair
  <2> QED
    BY <1>3, <1>8, <2>1, <2>4
<1>9. ASSUME NEW r \in Roots, NEW ids, NEW seen, NEW sum, Fetch(t, r, ids, seen, sum),
             task[t].todo # <<>>, id[2] = "root", loop \in {Free, t}
      PROVE  LInv'
  <2>1. PICK c \in Chunks :
          /\ SetTask(t, [task[t] EXCEPT !.pc = "fetching", !.root = r, !.chunk = c, !.left = ids \ {c},
                                        !.seen = seen, !.sum = sum])
          /\ UNCHANGED <<ord, orders>>
    BY <1>9 DEF Fetch, memory
  <2> DEFINE s == [task[t] EXCEPT !.pc = "fetching", !.root = r, !.chunk = c, !.left = ids \ {c},
                                  !.seen = seen, !.sum = sum]
  <2>2. s.pc = "fetching" /\ s.todo = task[t].todo /\ task' = [task EXCEPT ![t] = s]
    BY <1>1, <2>1 DEF TaskRec, SetTask
  <2> HIDE DEF s
  <2> QED
    BY <1>9, <2>1, <2>2, WaitedAway DEF Visited
<1>10. ASSUME NEW r \in Roots, VisitLiveEntry(t, r) PROVE LInv'
  <2>1. Visiting(t, "reconcile") /\ id = <<r, "root">> /\ ord[r].kind = "entry" /\ Live
    BY <1>10 DEF VisitLiveEntry, VisitRoot, OpenEntry
  <2>2. Fetch(t, r, ord[r].eids, {}, 0) \/ Apply(t, r, {}, 0)
    BY <1>10 DEF VisitLiveEntry
  <2> QED
    BY <1>2, <1>8, <1>9, <2>1, <2>2
<1>11. ASSUME task[t].pc = "fetching", loop \in {Free, t}, NEW seen, NEW sum \in Nat, Fetched(t, seen, sum)
       PROVE  LInv'
  <2>1. /\ task[t].todo # <<>> /\ id[2] = "root" /\ q \in Roots /\ ord[q].kind = "entry" /\ Live
    BY <1>1, <1>11, Known DEF LInv, ListsAdjacent, CallSound, KnownCall, Visited
  <2> QED
    BY <1>8, <1>9, <1>11, <2>1 DEF Fetched
<1>12. CASE FetchReply(t) \/ FetchFail(t)
  <2> DEFINE row == venue[<<q, task[t].chunk>>]
  <2>1. task[t].pc = "fetching" /\ loop \in {Free, t}
    BY <1>12 DEF FetchReply, FetchFail, At
  <2>2. row \in VenueRec /\ task[t].sum \in Nat
    <3>1. task[t].sum \in Nat /\ q \in Roots /\ task[t].chunk \in Chunks
      BY <1>1, <2>1 DEF TaskRec, CallSound
    <3> QED
      BY <3>1 DEF LInv, SInv, IInv, OutsideGood
  <2>3. row.filled \in Nat
    BY <2>2 DEF VenueRec
  <2>4. \/ Fetched(t, task[t].seen \cup {row.st}, task[t].sum + row.filled)
        \/ Fetched(t, task[t].seen, task[t].sum)
    BY <1>12 DEF FetchReply, FetchFail
  <2> HIDE DEF row
  <2>5. task[t].sum + row.filled \in Nat
    BY <2>2, <2>3
  <2> QED
    BY <1>11, <2>1, <2>2, <2>4, <2>5
<1> QED
  BY <1>4, <1>5, <1>6, <1>7, <1>10, <1>12

-----------------------------------------------------------------------------
\* The environment moves while the loop is free.
LEMMA EnvironmentLegs ==
  ASSUME LInv, SInv', Environment
  PROVE  LInv'
<1>1. Free \notin Tasks /\ Cycle # Shutdown /\ (\A t \in Tasks : task[t].pc = "run" => loop = t)
      /\ ord \in [Roots -> OrderRec] /\ Shutdown \in Tasks
  BY ExecutorAssumption DEF LInv, LoopHeld, SInv, IInv, OrdersGood, Tasks
<1>2. CASE Venue \/ KillSwitchFlip \/ \E k \in Keys : WindowPasses(k)
  <2>1. loop = Free /\ UNCHANGED <<ord, orders, task, loop>>
    BY <1>2 DEF Venue, VenueReceive, VenueFill, VenueEnd, VenueCancel, VenueAnswers, KillSwitchFlip,
                WindowPasses, memory
  <2> QED
    BY <1>1, <2>1, WhileFree, NoPairChange
<1>3. ASSUME NEW r \in Roots, OrderAges(r) \/ GttPasses(r) PROVE LInv'
  <2>1. loop = Free /\ UNCHANGED <<orders, task, loop>>
    BY <1>3 DEF OrderAges, GttPasses
  <2>2. \A x \in Roots : ord'[x].leg = ord[x].leg
    BY <1>1, <1>3 DEF OrderAges, GttPasses, OrderRec
  <2>3. PairsKept
    BY <2>2 DEF PairsKept, KeepsPair, Paired
  <2> QED
    BY <1>1, <2>1, <2>3, WhileFree
<1>4. CASE Signal
  <2>1. /\ loop = Free /\ Scan(Shutdown, "cancel_all", orders, {}) /\ UNCHANGED <<ord, orders>>
        /\ LegsAdjacent(orders) /\ NotAtStop(orders)
    BY <1>4 DEF Signal, memory, LInv, ListsAdjacent
  <2> QED
    BY <1>1, <2>1, ScannedAway
<1>5. CASE HookTimeout
  <2>1. /\ loop \in {Free, Shutdown} /\ task[Shutdown].pc = "cancelling" /\ Return(Shutdown)
        /\ UNCHANGED <<ord, orders>>
    BY <1>5 DEF HookTimeout, At, memory
  <2> QED
    BY <1>1, <2>1, NoPairChange, ReturnedAway
<1>6. CASE Exit \/ Crash
  <2>1. /\ ord' = [r \in Roots |-> NoOrder] /\ orders' = <<>> /\ task' = [t \in Tasks |-> IdleTask]
    BY <1>6 DEF Exit, Crash, LoseMemory
  <2>2. IdleTask.pc = "idle" /\ IdleTask.todo = <<>>
    BY DEF IdleTask
  <2>3. ListsAdjacent'
    <3>1. \A t \in Tasks : task'[t] = IdleTask
      BY <2>1
    <3>2. LegsAdjacent(orders)' /\ NotAtStop(orders)'
      BY <2>1, NothingToVisit DEF LegsAdjacent, NotAtStop
    <3>3. \A t \in Tasks : LegsAdjacent(task[t].todo)' /\ NotAtStop(task[t].todo)'
      BY <2>2, <3>1, NothingToVisit DEF LegsAdjacent, NotAtStop
    <3> QED
      BY <2>2, <3>1, <3>2, <3>3 DEF ListsAdjacent
  <2>4. LegsInStep' /\ LoopHeld'
    BY <2>1, <2>2, NoOrderPaired DEF LegsInStep, LoopHeld, AtStop, Paired
  <2> QED
    BY <2>3, <2>4 DEF LInv
<1>7. CASE Restart
  <2>1. UNCHANGED <<ord, orders, task, loop>>
    BY <1>7 DEF Restart, memory
  <2> QED
    BY <2>1 DEF LInv, ListsAdjacent, LegsInStep, LoopHeld, LegsAdjacent, NotAtStop, AtStop, Between,
                EndsLegs, Paired
<1> QED
  BY <1>2, <1>3, <1>4, <1>5, <1>6, <1>7 DEF Environment

\* Every step keeps the legs in step.
LEMMA LegsStep ==
  ASSUME LInv, [Next]_vars
  PROVE  LInv'
<1>1. SInv'
  BY SoundStep DEF LInv
<1>2. CASE UNCHANGED vars
  BY <1>1, <1>2 DEF vars, LInv, ListsAdjacent, LegsInStep, LoopHeld, LegsAdjacent, NotAtStop, AtStop,
                    Between, EndsLegs, Paired
<1>3. ASSUME NEW t \in Tasks, ScanDone(t) \/ ReconcileDone(t) PROVE LInv'
  <2>1. loop \in {Free, t} /\ task[t].todo = <<>> /\ Return(t) /\ UNCHANGED <<ord, orders>>
    BY <1>3 DEF ScanDone, ReconcileDone, At, memory
  <2> QED
    BY <1>1, <2>1, NoPairChange, ReturnedAway
<1>4. ASSUME NEW t \in Tasks, Call(t) \/ Advance(t) PROVE LInv'
  BY <1>1, <1>3, <1>4, CallLegs, PlacingLegs, CancellingLegs, ReconcilingLegs DEF Advance
<1>5. CASE Environment
  BY <1>1, <1>5, EnvironmentLegs
<1> QED
  BY <1>2, <1>4, <1>5 DEF Next

\* Seen from another task, from the venue or after an await, the two legs of a bracket are
\* armed together or not at all: a pass that expires, cancels or triggers one ends the
\* other in the same synchronous stretch, because self.orders holds them side by side
\* (_arm_bracket_orders lines 431-540, _reconcile_orders_unlocked lines 898-1028,
\* cancel_all_open_orders, cancel_expired_orders).
THEOREM LegsStayTogether == Spec => []LegsTogether
<1>1. Init => LInv
  <2> SUFFICES ASSUME Init PROVE LInv
    OBVIOUS
  <2>1. SInv
    BY InitSound
  <2>2. IdleTask.pc = "idle" /\ IdleTask.todo = <<>> /\ \A t \in Tasks : task[t] = IdleTask
    BY DEF Init, IdleTask
  <2>3. ListsAdjacent
    BY <2>2, NothingToVisit DEF Init, ListsAdjacent
  <2>4. LegsInStep /\ LoopHeld
    BY <2>2, NoOrderPaired DEF Init, LegsInStep, LoopHeld, AtStop
  <2> QED
    BY <2>1, <2>3, <2>4 DEF LInv
<1>2. LInv => LegsTogether
  BY ExecutorAssumption DEF LInv, LegsInStep, LoopHeld, AtStop, Paired, LegsTogether
<1>3. LInv /\ [Next]_vars => LInv'
  BY LegsStep
<1> QED
  BY <1>1, <1>2, <1>3, PTL DEF Spec

=============================================================================
