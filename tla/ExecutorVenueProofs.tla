------------------------- MODULE ExecutorVenueProofs -------------------------
(***************************************************************************)
(* The executor and the exchange: the fills an entry reports were made by  *)
(* the venue, whatever the rows of its chunks are read around.             *)
(*                                                                         *)
(* A reconciliation adds up rows it reads one after the other, in chunk    *)
(* order, while the venue trades on; so the sum it holds is bounded by the *)
(* fills of the chunks it has passed, and a venue row only ever grows.     *)
(* The second needs that a chunk is sent once: ids are fresh, and a call   *)
(* that places sends the chunks of its order in turn.                      *)
(***************************************************************************)
EXTENDS ExecutorSafetyProofs, SumTheorems

USE DEF Legs, OpenStatuses, FINAL_ORDER_STATUSES, BracketStates

-----------------------------------------------------------------------------
(* Sums over the chunks of an order.                                       *)

Rows == [Roots \X Chunks -> VenueRec]

IsSum(f, v, r) == f = [c \in 0..MaxChunks |-> IF c = 0 THEN 0 ELSE f[c - 1] + v[<<r, c>>].filled]

\* What the venue filled of the chunks of r up to each one.
UpTo(v, r) == CHOOSE f : IsSum(f, v, r)

\* The sum VenueFilled takes of an order's chunks is UpTo at the last chunk.
LEMMA VenueFilledIsUpTo == \A r \in Roots : VenueFilled(r) = UpTo(venue, r)[MaxChunks]
BY DEF VenueFilled, UpTo, IsSum

\* The sum over the chunks exists: it is built chunk by chunk.
LEMMA RowsAddUp ==
  ASSUME NEW v \in Rows, NEW r \in Roots
  PROVE  IsSum(UpTo(v, r), v, r)
<1> DEFINE Fits(f, n) == f = [c \in 0..n |-> IF c = 0 THEN 0 ELSE f[c - 1] + v[<<r, c>>].filled]
           S == {n \in Nat : \E f : Fits(f, n)}
<1>1. 0 \in S
  <2> DEFINE f == [c \in 0..0 |-> 0]
  <2>1. Fits(f, 0)
    OBVIOUS
  <2> HIDE DEF f, Fits
  <2> QED
    BY <2>1
<1>2. ASSUME NEW n \in Nat, n \in S PROVE n + 1 \in S
  <2>1. PICK f : Fits(f, n)
    BY <1>2
  <2> DEFINE g == [c \in 0..n + 1 |-> IF c = n + 1 THEN f[n] + v[<<r, n + 1>>].filled ELSE f[c]]
  <2>2. ASSUME NEW c \in 0..n + 1
        PROVE  g[c] = IF c = 0 THEN 0 ELSE g[c - 1] + v[<<r, c>>].filled
    <3>1. CASE c = n + 1
      BY <3>1
    <3>2. CASE c \in 0..n /\ c # 0
      <4>1. c - 1 \in 0..n /\ g[c] = f[c] /\ g[c - 1] = f[c - 1]
        BY <3>2
      <4>2. f[c] = f[c - 1] + v[<<r, c>>].filled
        BY <2>1, <3>2
      <4> QED
        BY <3>2, <4>1, <4>2
    <3>3. CASE c = 0
      <4>1. g[c] = f[c] /\ f[c] = 0
        BY <2>1, <3>3
      <4> QED
        BY <3>3, <4>1
    <3> QED
      BY <3>1, <3>2, <3>3
  <2>3. g = [c \in 0..n + 1 |-> g[c]]
    OBVIOUS
  <2> HIDE DEF g
  <2>4. Fits(g, n + 1)
    BY <2>2, <2>3
  <2> HIDE DEF Fits
  <2> QED
    BY <2>4
<1>3. MaxChunks \in S
  <2> HIDE DEF S
  <2>1. \A n \in Nat : n \in S
    BY <1>1, <1>2, CountingUp
  <2> QED
    BY <2>1, ExecutorAssumption
<1>4. \E f : IsSum(f, v, r)
  BY <1>3 DEF IsSum
<1> QED
  BY <1>4 DEF UpTo

\* The sum, chunk by chunk, is a number.
LEMMA UpToAddsUp ==
  ASSUME NEW v \in Rows, NEW r \in Roots
  PROVE  /\ UpTo(v, r)[0] = 0
         /\ \A c \in Chunks : UpTo(v, r)[c] = UpTo(v, r)[c - 1] + v[<<r, c>>].filled
         /\ \A c \in 0..MaxChunks : UpTo(v, r)[c] \in Nat
<1> DEFINE f == UpTo(v, r)
<1>1. f = [c \in 0..MaxChunks |-> IF c = 0 THEN 0 ELSE f[c - 1] + v[<<r, c>>].filled]
  BY RowsAddUp DEF IsSum
<1>2. MaxChunks \in Nat \ {0} /\ \A c \in Chunks : v[<<r, c>>].filled \in Nat
  BY ExecutorAssumption DEF Rows, VenueRec
<1> HIDE DEF f
<1>3. f[0] = 0 /\ \A c \in Chunks : c \in 0..MaxChunks /\ c # 0 /\ f[c] = f[c - 1] + v[<<r, c>>].filled
  BY <1>1, <1>2 DEF Chunks
<1> DEFINE S == {n \in Nat : n \in 0..MaxChunks => f[n] \in Nat}
<1>4. ASSUME NEW n \in Nat, n \in S PROVE n + 1 \in S
  <2> SUFFICES ASSUME n + 1 \in 0..MaxChunks PROVE f[n + 1] \in Nat
    OBVIOUS
  <2>1. n + 1 \in Chunks /\ f[n] \in Nat /\ (n + 1) - 1 = n
    BY <1>2, <1>4 DEF Chunks
  <2>2. f[n + 1] = f[n] + v[<<r, n + 1>>].filled
    BY <1>3, <2>1
  <2> QED
    BY <1>2, <2>1, <2>2
<1>5. 0 \in S
  BY <1>3
<1>6. \A n \in Nat : n \in S
  <2> HIDE DEF S
  <2> QED
    BY <1>4, <1>5, CountingUp
<1> QED
  BY <1>3, <1>6 DEF f

\* More chunks, and fuller ones, do not make the sum smaller.
LEMMA SumGrows ==
  ASSUME NEW v \in Rows, NEW w \in Rows, NEW r \in Roots,
         \A c \in Chunks : v[<<r, c>>].filled <= w[<<r, c>>].filled
  PROVE  \A c, d \in 0..MaxChunks : c <= d => UpTo(v, r)[c] <= UpTo(w, r)[d]
<1> DEFINE f == UpTo(v, r)
           g == UpTo(w, r)
<1>1. /\ f[0] = 0 /\ g[0] = 0
      /\ \A c \in Chunks : f[c] = f[c - 1] + v[<<r, c>>].filled /\ g[c] = g[c - 1] + w[<<r, c>>].filled
      /\ \A c \in 0..MaxChunks : f[c] \in Nat /\ g[c] \in Nat
  BY UpToAddsUp
<1>2. MaxChunks \in Nat \ {0} /\ \A c \in Chunks : v[<<r, c>>].filled \in Nat /\ w[<<r, c>>].filled \in Nat
  BY ExecutorAssumption DEF Rows, VenueRec
<1> HIDE DEF f, g
<1> DEFINE S == {n \in Nat : n \in 0..MaxChunks => \A c \in 0..MaxChunks : c <= n => f[c] <= g[n]}
<1>3. ASSUME NEW n \in Nat, n \in S PROVE n + 1 \in S
  <2> SUFFICES ASSUME n + 1 \in 0..MaxChunks, NEW c \in 0..MaxChunks, c <= n + 1 PROVE f[c] <= g[n + 1]
    OBVIOUS
  <2>1. n + 1 \in Chunks /\ n \in 0..MaxChunks /\ (n + 1) - 1 = n /\ \A e \in 0..MaxChunks : e <= n => f[e] <= g[n]
    BY <1>2, <1>3 DEF Chunks
  <2>2. g[n + 1] = g[n] + w[<<r, n + 1>>].filled /\ f[n + 1] = f[n] + v[<<r, n + 1>>].filled
    BY <1>1, <2>1
  <2>3. CASE c <= n
    BY <1>1, <1>2, <2>1, <2>2, <2>3
  <2>4. CASE c = n + 1
    BY <1>1, <1>2, <2>1, <2>2, <2>4
  <2> QED
    BY <2>3, <2>4
<1>4. 0 \in S
  BY <1>1, <1>2
<1>5. \A n \in Nat : n \in S
  <2> HIDE DEF S
  <2> QED
    BY <1>3, <1>4, CountingUp
<1> QED
  BY <1>2, <1>5 DEF f, g

-----------------------------------------------------------------------------
(* The invariant: chunks are sent in turn and once, and a reconciliation   *)
(* has counted no more than the chunks it passed.                          *)

Placing == {"preflight", "posting", "pause"}

\* A call that places an order has sent its chunks up to `chunk`, and no other.
InTurn(s) ==
  s.pc \in Placing =>
    /\ s.pc = "preflight" => s.chunk = 0
    /\ \A c \in Chunks : c > s.chunk => venue[<<s.root, c>>] = NoVenueOrder

\* A call that fetches rows goes up the chunks.
Passed(s) ==
  s.pc = "fetching" =>
    /\ \A c \in s.left : c > s.chunk
    /\ s.sum <= UpTo(venue, s.root)[s.chunk - 1]

Unsent == \A x \in Roots \X Chunks : ~Live \/ x[1] \notin used => venue[x] = NoVenueOrder

VInv ==
  /\ SInv /\ Unsent /\ FillsAreReal
  /\ \A t \in Tasks : InTurn(task[t]) /\ Passed(task[t])

\* No step takes a fill of the venue back.
VenueGrows == \A x \in Roots \X Chunks : venue[x].filled <= venue'[x].filled

\* What an entry reports is left alone, forgotten, or within what the venue filled.
FillsKept ==
  Live => \A r \in Roots : ord'[r].filled \in {0, ord[r].filled} \/ ord'[r].filled <= VenueFilled(r)

\* The types the sums need.
LEMMA VenueTyped ==
  ASSUME VInv
  PROVE  /\ venue \in Rows /\ ord \in [Roots -> OrderRec] /\ task \in [Tasks -> TaskRec]
         /\ MaxChunks \in Nat \ {0} /\ used \in SUBSET Roots
BY ExecutorAssumption DEF VInv, SInv, IInv, OrdersGood, CallsGood, OutsideGood, Rows

\* An entry's fills stay real while the venue's fills grow.
LEMMA RealKept ==
  ASSUME VInv, SInv', VenueGrows, FillsKept
  PROVE  FillsAreReal'
<1> SUFFICES ASSUME Live, NEW r \in Roots PROVE ord'[r].filled <= VenueFilled(r)'
  BY DEF FillsAreReal
<1>1. venue \in Rows /\ venue' \in Rows /\ ord \in [Roots -> OrderRec] /\ ord' \in [Roots -> OrderRec]
      /\ MaxChunks \in Nat \ {0}
  BY VenueTyped DEF SInv, IInv, OrdersGood, OutsideGood, Rows
<1>2. UpTo(venue, r)[MaxChunks] <= UpTo(venue', r)[MaxChunks]
  <2>1. \A c \in Chunks : venue[<<r, c>>].filled <= venue'[<<r, c>>].filled
    BY DEF VenueGrows
  <2> QED
    BY <1>1, <2>1, SumGrows
<1>3. UpTo(venue, r)[MaxChunks] \in Nat /\ UpTo(venue', r)[MaxChunks] \in Nat
  BY <1>1, UpToAddsUp
<1>4. VenueFilled(r) = UpTo(venue, r)[MaxChunks] /\ VenueFilled(r)' = UpTo(venue', r)[MaxChunks]
  <2>1. VenueFilled(r) = UpTo(venue, r)[MaxChunks]
    BY VenueFilledIsUpTo
  <2>2. VenueFilled(r)' = UpTo(venue', r)[MaxChunks]
    BY DEF VenueFilled, UpTo, IsSum
  <2> QED
    BY <2>1, <2>2
<1>5. ord[r].filled <= VenueFilled(r) /\ ord[r].filled \in Nat /\ ord'[r].filled \in Nat
  BY <1>1 DEF VInv, FillsAreReal, OrderRec
<1> QED
  BY <1>2, <1>3, <1>4, <1>5 DEF FillsKept

\* A sum counted so far stays within the fills of the chunks passed.
LEMMA PassedKept ==
  ASSUME VInv, SInv', VenueGrows, NEW s \in TaskRec, CallSound(s), Passed(s)
  PROVE  Passed(s)'
<1> SUFFICES ASSUME s.pc = "fetching" PROVE s.sum <= UpTo(venue', s.root)[s.chunk - 1]
  BY DEF Passed
<1>1. s.root \in Roots /\ s.chunk \in Chunks /\ s.sum \in Nat
  BY DEF CallSound, TaskRec
<1>2. venue \in Rows /\ venue' \in Rows /\ s.chunk - 1 \in 0..MaxChunks
  BY <1>1, VenueTyped DEF SInv, IInv, OutsideGood, Rows, Chunks
<1>3. \A c \in Chunks : venue[<<s.root, c>>].filled <= venue'[<<s.root, c>>].filled
  BY <1>1 DEF VenueGrows
<1>4. /\ UpTo(venue, s.root)[s.chunk - 1] <= UpTo(venue', s.root)[s.chunk - 1]
      /\ UpTo(venue, s.root)[s.chunk - 1] \in Nat /\ UpTo(venue', s.root)[s.chunk - 1] \in Nat
  <2>1. s.chunk - 1 <= s.chunk - 1
    BY <1>1 DEF Chunks
  <2> QED
    BY <1>1, <1>2, <1>3, <2>1, SumGrows, UpToAddsUp
<1> QED
  BY <1>1, <1>4 DEF Passed

\* A step of one task that sends nothing.
LEMMA QuietStep ==
  ASSUME VInv, SInv', UNCHANGED <<venue, used>>, FillsKept, NEW t \in Tasks, NEW s,
         task' = [task EXCEPT ![t] = s], InTurn(s), Passed(s)
  PROVE  VInv'
<1>1. task \in [Tasks -> TaskRec] /\ venue \in Rows
  BY VenueTyped
<1>2. VenueGrows
  <2>1. \A x \in Roots \X Chunks : venue[x].filled \in Nat
    BY <1>1 DEF Rows, VenueRec
  <2> QED
    BY <2>1 DEF VenueGrows
<1>3. FillsAreReal'
  BY <1>2, RealKept
<1>4. \A u \in Tasks : InTurn(task[u])' /\ Passed(task[u])'
  BY <1>1 DEF VInv, InTurn, Passed
<1> QED
  BY <1>3, <1>4 DEF VInv, Unsent

\* A step of the cycle that sends one chunk, which was not sent before.
LEMMA SendStep ==
  ASSUME VInv, SInv', FillsKept, Live, NEW r \in Roots, NEW c \in Chunks, NEW row, NEW s,
         venue' = [venue EXCEPT ![<<r, c>>] = row], row.filled \in Nat,
         \A d \in Chunks : d >= c => venue[<<r, d>>] = NoVenueOrder,
         r \in used', used \subseteq used',
         task' = [task EXCEPT ![Cycle] = s], s.pc = "posting", s.root = r, s.chunk = c
  PROVE  VInv'
<1>1. task \in [Tasks -> TaskRec] /\ venue \in Rows /\ Cycle \in Tasks /\ Shutdown \in Tasks
  BY VenueTyped DEF Tasks
<1>2. venue[<<r, c>>].filled = 0 /\ \A x \in Roots \X Chunks : venue[x].filled \in Nat
  BY <1>1 DEF NoVenueOrder, Rows, VenueRec, Chunks
<1>3. VenueGrows
  BY <1>1, <1>2 DEF VenueGrows, Rows
<1>4. FillsAreReal'
  BY <1>3, RealKept
<1>5. Unsent'
  BY <1>1 DEF VInv, Unsent, Rows
<1>6. task'[Cycle] = s /\ task'[Shutdown].pc \notin Placing \cup {"fetching"}
  <2>1. task[Shutdown].pc \in {"idle", "run", "cancelling"} /\ Cycle # Shutdown
    BY ExecutorAssumption DEF VInv, SInv, CallsKnown
  <2> QED
    BY <1>1, <2>1 DEF Placing
<1>7. \A d \in Chunks : d > c => venue'[<<r, d>>] = NoVenueOrder
  BY <1>1 DEF Rows, Chunks
<1>8. \A u \in Tasks : InTurn(task[u])' /\ Passed(task[u])'
  BY <1>6, <1>7 DEF InTurn, Passed, Tasks, Placing
<1> QED
  BY <1>4, <1>5, <1>8 DEF VInv

\* A step of the outside: the records and the calls stay, the venue's fills grow, and
\* what was not sent stays so.
LEMMA OutsideStep ==
  ASSUME VInv, SInv', VenueGrows, FillsKept, UNCHANGED <<used, task>>,
         \A x \in Roots \X Chunks : venue[x] = NoVenueOrder => venue'[x] = NoVenueOrder
  PROVE  VInv'
<1>1. FillsAreReal'
  BY RealKept
<1>2. Unsent'
  BY DEF VInv, Unsent
<1>3. ASSUME NEW t \in Tasks PROVE InTurn(task[t])' /\ Passed(task[t])'
  <2>1. task[t] \in TaskRec /\ CallSound(task[t]) /\ InTurn(task[t]) /\ Passed(task[t])
    BY Known DEF VInv
  <2>2. InTurn(task[t])'
    <3>1. task[t].pc \in Placing => task[t].root \in Roots
      BY <2>1 DEF CallSound, Placing
    <3> QED
      BY <2>1, <3>1 DEF InTurn
  <2>3. ASSUME NEW s \in TaskRec, s = task[t] PROVE Passed(s)'
    BY <2>1, <2>3, PassedKept
  <2>4. Passed(task[t])'
    BY <2>1, <2>3 DEF Passed
  <2> QED
    BY <2>2, <2>4
<1> QED
  BY <1>1, <1>2, <1>3 DEF VInv

-----------------------------------------------------------------------------
(* The steps.                                                              *)

\* A call that goes on to its list, to the end, or to await a cancel.
Rests(t) == \E s : task' = [task EXCEPT ![t] = s] /\ s.pc \in {"idle", "run", "cancelling"}

\* What ends or continues a call, or sends a cancel, leaves it with no chunk in hand.
LEMMA RestsAfter ==
  ASSUME VInv, NEW t \in Tasks,
         \/ Continue(t) \/ Return(t)
         \/ \E op, todo, books : Scan(t, op, todo, books)
         \/ \E r, ids : SendCancel(t, r, ids)
  PROVE  Rests(t)
<1>1. task[t] \in TaskRec
  BY Known DEF VInv
<1>2. CASE Continue(t)
  <2> DEFINE s == [task[t] EXCEPT !.pc = "run", !.todo = Tail(@), !.root = NoRoot,
                                  !.left = {}, !.chunk = 0, !.seen = {}, !.sum = 0]
  <2>1. s.pc = "run" /\ task' = [task EXCEPT ![t] = s]
    BY <1>1, <1>2 DEF Continue, SetTask, TaskRec
  <2> QED
    BY <2>1 DEF Rests
<1>3. CASE Return(t)
  <2>1. IdleTask.pc = "idle" /\ task' = [task EXCEPT ![t] = IdleTask]
    BY <1>3 DEF Return, SetTask, IdleTask
  <2> QED
    BY <2>1 DEF Rests
<1>4. ASSUME NEW op, NEW todo, NEW books, Scan(t, op, todo, books) PROVE Rests(t)
  <2> DEFINE s == [IdleTask EXCEPT !.pc = "run", !.op = op, !.todo = todo, !.books = books]
  <2>1. s.pc = "run" /\ task' = [task EXCEPT ![t] = s]
    BY <1>4 DEF Scan, SetTask, IdleTask
  <2> QED
    BY <2>1 DEF Rests
<1>5. ASSUME NEW r, NEW ids, SendCancel(t, r, ids) PROVE Rests(t)
  <2>1. PICK c \in Chunks :
          SetTask(t, [task[t] EXCEPT !.pc = "cancelling", !.root = r, !.chunk = c, !.left = ids \ {c}])
    BY <1>5 DEF SendCancel
  <2> DEFINE s == [task[t] EXCEPT !.pc = "cancelling", !.root = r, !.chunk = c, !.left = ids \ {c}]
  <2>2. s.pc = "cancelling" /\ task' = [task EXCEPT ![t] = s]
    BY <1>1, <2>1 DEF SetTask, TaskRec
  <2> QED
    BY <2>2 DEF Rests
<1> QED
  BY <1>2, <1>3, <1>4, <1>5

\* Such a step keeps the invariant when it changes no fill.
LEMMA RestStep ==
  ASSUME VInv, SInv', NEW t \in Tasks, Rests(t), FillsKept, UNCHANGED <<venue, used>>
  PROVE  VInv'
<1>1. PICK s : task' = [task EXCEPT ![t] = s] /\ s.pc \in {"idle", "run", "cancelling"}
  BY DEF Rests
<1>2. InTurn(s) /\ Passed(s)
  BY <1>1 DEF InTurn, Passed, Placing
<1> QED
  BY <1>1, <1>2, QuietStep

\* Marks, cancels, expiries and triggers leave the fill of a record alone.
LEMMA SameFill ==
  ASSUME NEW o \in OrderRec, NEW l \in Legs, NEW got,
         NEW n \in {CancelLocal(o), CancelLive(o), ExpireLeg(o, l), ExpireLegOnly(o, l), CancelLeg(o, l),
                    TriggerLeg(o, l), WithIds(o, got), [o EXCEPT !.status = "cancelled"],
                    [o EXCEPT !.aged = TRUE], [o EXCEPT !.due = TRUE]}
  PROVE  n.filled = o.filled
<1>1. CancelLocal(o).filled = o.filled /\ CancelLive(o).filled = o.filled
  BY DEF CancelLocal, CancelLive, OrderRec
<1>2. ExpireLeg(o, l).filled = o.filled /\ ExpireLegOnly(o, l).filled = o.filled /\ CancelLeg(o, l).filled = o.filled
  BY DEF ExpireLeg, ExpireLegOnly, CancelLeg, OrderRec
<1>3. TriggerLeg(o, l).filled = o.filled /\ WithIds(o, got).filled = o.filled
  BY DEF TriggerLeg, WithIds, OrderRec
<1>4. /\ [o EXCEPT !.status = "cancelled"].filled = o.filled
      /\ [o EXCEPT !.aged = TRUE].filled = o.filled /\ [o EXCEPT !.due = TRUE].filled = o.filled
  BY DEF OrderRec
<1> QED
  BY <1>1, <1>2, <1>3, <1>4

\* A record that keeps its fill, or starts without one.
LEMMA OneFillKept ==
  ASSUME VInv, NEW r \in Roots, NEW n, ord' = [ord EXCEPT ![r] = n],
         Live => n.filled \in {0, ord[r].filled} \/ n.filled <= VenueFilled(r)
  PROVE  FillsKept
BY VenueTyped DEF FillsKept

\* Nothing changed.
LEMMA NoFill == UNCHANGED ord => FillsKept
BY DEF FillsKept

\* The calls: a fresh order has no fill in live mode, and no chunk yet.
LEMMA CallVenue ==
  ASSUME VInv, SInv', NEW t \in Tasks, Call(t)
  PROVE  VInv'
<1>1. CASE ReconcileCall(t) \/ CancelAllCall(t) \/ CancelExpiredCall(t) \/ \E r \in Roots : CancelOneCall(t, r)
  <2>1. UNCHANGED <<ord, venue, used>> /\ \E op, todo, books : Scan(t, op, todo, books)
    BY <1>1 DEF ReconcileCall, CancelAllCall, CancelExpiredCall, CancelOneCall, memory, outside
  <2> QED
    BY <2>1, RestsAfter, RestStep, NoFill
<1>2. ASSUME NEW r \in Roots, NEW k \in Keys, NEW s \in Sizes, PlacePaper(t, r, k, s) PROVE VInv'
  <2>1. ~Live /\ UNCHANGED <<venue, task>> /\ used' = used \cup {r}
    BY <1>2 DEF PlacePaper, outside
  <2>2. FillsAreReal' /\ Unsent' /\ \A u \in Tasks : InTurn(task[u])' /\ Passed(task[u])'
    BY <2>1 DEF VInv, FillsAreReal, Unsent, InTurn, Passed
  <2> QED
    BY <2>2 DEF VInv
<1>3. ASSUME NEW r \in Roots, NEW k \in Keys, NEW z \in Sizes, PlaceLive(t, r, k, z) PROVE VInv'
  <2> DEFINE s == [IdleTask EXCEPT !.pc = "preflight", !.op = "place", !.root = r, !.n = NChunks(z)]
  <2>1. /\ r \notin used /\ used' = used \cup {r} /\ UNCHANGED venue /\ task' = [task EXCEPT ![t] = s]
        /\ ord' = [ord EXCEPT ![r] = NewOrder("entry", k, z)]
    BY <1>3 DEF PlaceLive, Admits, SetTask, SetOrder
  <2>2. s.pc = "preflight" /\ s.root = r /\ s.chunk = 0
    BY DEF IdleTask
  <2>3. NewOrder("entry", k, z).filled = 0
    BY DEF NewOrder, NoOrder
  <2> HIDE DEF s
  <2>4. FillsKept
    BY <2>1, <2>3, OneFillKept
  <2>5. \A c \in Chunks : venue[<<r, c>>] = NoVenueOrder
    BY <2>1 DEF VInv, Unsent
  <2>6. VenueGrows /\ FillsAreReal'
    <3>1. \A x \in Roots \X Chunks : venue[x].filled \in Nat
      BY VenueTyped DEF Rows, VenueRec
    <3>2. VenueGrows
      BY <2>1, <3>1 DEF VenueGrows
    <3> QED
      BY <2>4, <3>2, RealKept
  <2>7. Unsent'
    BY <2>1 DEF VInv, Unsent
  <2>8. InTurn(s)' /\ Passed(s)'
    BY <2>1, <2>2, <2>5 DEF InTurn, Passed
  <2>9. \A u \in Tasks : InTurn(task[u])' /\ Passed(task[u])'
    BY <2>1, <2>8, VenueTyped DEF VInv, InTurn, Passed
  <2> QED
    BY <2>6, <2>7, <2>9 DEF VInv
<1>4. ASSUME NEW r \in Roots, NEW z \in Sizes, CloseCall(t, r, z) PROVE VInv'
  <2>1. r \notin used /\ used' = used \cup {r} /\ t = Cycle /\ z \in Nat
    BY <1>4, ExecutorAssumption DEF CloseCall, MayCall
  <2>2. CASE ~Live
    <3>1. UNCHANGED <<venue, task>>
      BY <1>4, <2>2 DEF CloseCall
    <3>2. FillsAreReal' /\ Unsent' /\ \A u \in Tasks : InTurn(task[u])' /\ Passed(task[u])'
      BY <2>1, <2>2, <3>1 DEF VInv, FillsAreReal, Unsent, InTurn, Passed
    <3> QED
      BY <3>2 DEF VInv
  <2>3. CASE Live
    <3> DEFINE s == [IdleTask EXCEPT !.pc = "posting", !.op = "close", !.root = r, !.chunk = 1]
               row == [st |-> "sent", filled |-> 0, size |-> z]
    <3>1. /\ venue' = [venue EXCEPT ![<<r, 1>>] = row] /\ task' = [task EXCEPT ![Cycle] = s]
          /\ ord' = [ord EXCEPT ![r] = NewOrder("exit", NoKey, z)]
      BY <1>4, <2>1, <2>3 DEF CloseCall, SetTask, SetOrder
    <3>2. s.pc = "posting" /\ s.root = r /\ s.chunk = 1 /\ row.filled = 0 /\ 1 \in Chunks
      <4>1. 1 \in Chunks
        BY Constants DEF Chunks
      <4> QED
        BY <4>1 DEF IdleTask
    <3>3. NewOrder("exit", NoKey, z).filled = 0
      BY DEF NewOrder, NoOrder
    <3> HIDE DEF s, row
    <3>4. FillsKept
      BY <3>1, <3>3, OneFillKept
    <3>5. \A c \in Chunks : venue[<<r, c>>] = NoVenueOrder
      BY <2>1 DEF VInv, Unsent
    <3>6. row.filled \in Nat /\ r \in used' /\ used \subseteq used'
      BY <2>1, <3>2
    <3> QED
      BY <2>3, <3>1, <3>2, <3>4, <3>5, <3>6, SendStep
  <2> QED
    BY <2>2, <2>3
<1> QED
  BY <1>1, <1>2, <1>3, <1>4 DEF Call

\* The cycle is the only task that places or fetches, and its root is a known order.
LEMMA PlacingKnown ==
  ASSUME VInv, NEW t \in Tasks, task[t].pc \in Placing \cup {"fetching"}
  PROVE  /\ t = Cycle /\ Live /\ task[t].root \in Roots /\ task[t].root \in used
         /\ task[t] \in TaskRec /\ CallSound(task[t])
         /\ task[t].n \in 1..MaxChunks /\ task[t].chunk \in 0..MaxChunks
BY Known DEF VInv, Tasks, TaskRec, Placing

\* The next step of a call under way: placing an order in the live mode.
LEMMA PlacingVenue ==
  ASSUME VInv, SInv', NEW t \in Tasks,
         \/ PreflightOk(t) \/ PreflightFail(t) \/ NextChunk(t) \/ PostFail(t)
         \/ \E named \in BOOLEAN : PostReplyMore(t, named) \/ PostReplyLast(t, named)
  PROVE  VInv'
<1> DEFINE q == task[t].root
<1>1. task[t].pc \in Placing
  BY DEF PreflightOk, PreflightFail, NextChunk, PostFail, PostReplyMore, PostReplyLast, Answered, At, Placing
<1>2. /\ t = Cycle /\ Live /\ q \in Roots /\ q \in used /\ task[t] \in TaskRec /\ CallSound(task[t])
      /\ task[t].n \in 1..MaxChunks /\ task[t].chunk \in 0..MaxChunks /\ ord[q] \in OrderRec
  BY <1>1, PlacingKnown, VenueTyped
<1>3. InTurn(task[t])
  BY DEF VInv
<1>4. ASSUME NEW c \in Chunks, Send(t, c), c > task[t].chunk, UNCHANGED <<ord, used>> PROVE VInv'
  <2> DEFINE s == [task[t] EXCEPT !.pc = "posting", !.chunk = c]
             row == [st |-> "sent", filled |-> 0, size |-> ord[q].size \div task[t].n]
  <2>1. venue' = [venue EXCEPT ![<<q, c>>] = row] /\ task' = [task EXCEPT ![Cycle] = s]
    BY <1>2, <1>4 DEF Send, SetTask
  <2>2. s.pc = "posting" /\ s.root = q /\ s.chunk = c /\ row.filled \in Nat
    BY <1>2 DEF TaskRec
  <2>3. \A d \in Chunks : d >= c => venue[<<q, d>>] = NoVenueOrder
    BY <1>1, <1>2, <1>3, <1>4 DEF InTurn, Chunks
  <2> HIDE DEF s, row
  <2>4. q \in used' /\ used \subseteq used' /\ FillsKept
    BY <1>2, <1>4, NoFill
  <2> QED
    BY <1>2, <2>1, <2>2, <2>3, <2>4, SendStep
<1>5. CASE PreflightOk(t)
  <2>1. task[t].chunk = 0 /\ 1 \in Chunks
    BY <1>3, <1>5, Constants DEF PreflightOk, At, InTurn, Placing, Chunks
  <2> QED
    BY <1>4, <1>5, <2>1 DEF PreflightOk, memory
<1>6. CASE NextChunk(t)
  <2>1. task[t].chunk + 1 \in Chunks /\ task[t].chunk + 1 > task[t].chunk
    BY <1>2, <1>6, Constants DEF NextChunk, At, CallSound, Chunks
  <2> QED
    BY <1>4, <1>6, <2>1 DEF NextChunk, memory
<1>7. ASSUME NEW n, SetOrder(q, n), n.filled = ord[q].filled, Return(t), UNCHANGED <<used, venue>> PROVE VInv'
  BY <1>2, <1>7, OneFillKept, RestsAfter, RestStep DEF SetOrder
<1>8. CASE PreflightFail(t) \/ PostFail(t)
  BY <1>2, <1>7, <1>8, SameFill DEF PreflightFail, PostFail, outside
<1>9. ASSUME NEW named, PostReplyLast(t, named) PROVE VInv'
  BY <1>2, <1>7, <1>9, SameFill DEF PostReplyLast, outside
<1>10. ASSUME NEW named, PostReplyMore(t, named) PROVE VInv'
  <2> DEFINE s == [task[t] EXCEPT !.pc = "pause", !.got = GotIds(t, named)]
  <2>1. task' = [task EXCEPT ![t] = s] /\ UNCHANGED <<ord, used, venue>> /\ task[t].pc = "posting"
    BY <1>10 DEF PostReplyMore, SetTask, Answered, At, memory, outside
  <2>2. s.pc = "pause" /\ s.root = q /\ s.chunk = task[t].chunk
    BY <1>2 DEF TaskRec
  <2> HIDE DEF s
  <2>3. InTurn(s) /\ Passed(s)
    BY <1>3, <2>1, <2>2 DEF InTurn, Passed, Placing
  <2> QED
    BY <2>1, <2>3, QuietStep, NoFill
<1> QED
  BY <1>5, <1>6, <1>8, <1>9, <1>10

\* The next step of a call under way: cancelling.
LEMMA CancellingVenue ==
  ASSUME VInv, SInv', NEW t \in Tasks,
         \/ ScanSkip(t) \/ ScanExpire(t) \/ ScanCancelLocal(t) \/ ScanCancelNoIds(t)
         \/ ScanCancelLive(t) \/ CancelReplyMore(t) \/ CancelReplyLast(t) \/ CancelFail(t) \/ ScanDone(t)
  PROVE  VInv'
<1>1. UNCHANGED <<venue, used>>
  BY DEF ScanSkip, ScanExpire, ScanCancelLocal, ScanCancelNoIds, ScanCancelLive, CancelReplyMore, SendCancel,
         CancelReplyLast, CancelFail, ScanDone, outside
<1>2. Rests(t)
  BY RestsAfter DEF ScanSkip, ScanExpire, ScanCancelLocal, ScanCancelNoIds, ScanCancelLive, CancelReplyMore,
                    CancelReplyLast, CancelFail, ScanDone
<1>3. ASSUME NEW r \in Roots, NEW n, SetOrder(r, n), n.filled = ord[r].filled PROVE VInv'
  BY <1>1, <1>2, <1>3, OneFillKept, RestStep DEF SetOrder
<1>4. CASE ScanSkip(t) \/ ScanCancelLive(t) \/ CancelReplyMore(t) \/ CancelFail(t) \/ ScanDone(t)
  <2>1. UNCHANGED ord
    BY <1>4 DEF ScanSkip, ScanCancelLive, CancelReplyMore, SendCancel, CancelFail, ScanDone, memory
  <2> QED
    BY <1>1, <1>2, <2>1, NoFill, RestStep
<1>5. CASE ScanExpire(t) \/ ScanCancelLocal(t)
  <2> DEFINE id == Visited(t)
  <2>1. id[1] \in Roots /\ id[2] \in Slots /\ ord[id[1]] \in OrderRec
    BY <1>5, HeadKnown, VenueTyped DEF ScanExpire, ScanCancelLocal, Scanning, VInv
  <2>2. id[2] # "root" => id[2] \in Legs
    BY <2>1 DEF Slots
  <2>3. CASE ScanExpire(t)
    <3>1. SetOrder(id[1], ExpireLegOnly(ord[id[1]], id[2])) /\ id[2] \in Legs
      BY <2>3 DEF ScanExpire, ToExpire
    <3> QED
      BY <1>3, <2>1, <3>1, SameFill
  <2>4. CASE ScanCancelLocal(t)
    <3>1. SetOrder(id[1], IF id[2] = "root" THEN CancelLocal(ord[id[1]]) ELSE CancelLeg(ord[id[1]], id[2]))
      BY <2>4 DEF ScanCancelLocal
    <3>2. CASE id[2] = "root"
      BY <1>3, <2>1, <3>1, <3>2, SameFill
    <3>3. CASE id[2] # "root"
      BY <1>3, <2>1, <2>2, <3>1, <3>3, SameFill
    <3> QED
      BY <3>2, <3>3
  <2> QED
    BY <1>5, <2>3, <2>4
<1>6. CASE ScanCancelNoIds(t)
  <2>1. PICK r \in Roots : SetOrder(r, CancelLive(ord[r]))
    BY <1>6 DEF ScanCancelNoIds
  <2>2. CancelLive(ord[r]).filled = ord[r].filled
    BY VenueTyped, SameFill
  <2> QED
    BY <1>3, <2>1, <2>2
<1>7. CASE CancelReplyLast(t)
  <2> DEFINE q == task[t].root
  <2>1. q \in Roots /\ SetOrder(q, CancelLive(ord[q]))
    BY <1>7, Known DEF CancelReplyLast, CancelReply, At, VInv
  <2>2. CancelLive(ord[q]).filled = ord[q].filled
    BY <2>1, VenueTyped, SameFill
  <2> QED
    BY <1>3, <2>1, <2>2
<1> QED
  BY <1>4, <1>5, <1>6, <1>7

\* What was counted up to chunk k is applied, or the next row is asked for.
LEMMA FetchedVenue ==
  ASSUME VInv, SInv', NEW t \in Tasks, NEW r \in Roots, NEW left \in SUBSET Chunks, NEW seen,
         NEW sum \in Nat, NEW k \in 0..MaxChunks, \A c \in left : c > k,
         sum <= UpTo(venue, r)[k], ord[r].kind = "entry", Live,
         Fetch(t, r, left, seen, sum) \/ Apply(t, r, seen, sum)
  PROVE  VInv'
<1>1. venue \in Rows /\ task[t] \in TaskRec /\ MaxChunks \in Nat \ {0} /\ Sound(ord[r])
  BY VenueTyped DEF VInv, SInv, RecordsSound
<1>2. \A c \in 0..MaxChunks : UpTo(venue, r)[c] \in Nat
  BY <1>1, UpToAddsUp
<1>3. \A c \in 0..MaxChunks : k <= c => sum <= UpTo(venue, r)[c]
  <2> SUFFICES ASSUME NEW c \in 0..MaxChunks, k <= c PROVE sum <= UpTo(venue, r)[c]
    OBVIOUS
  <2>1. UpTo(venue, r)[k] <= UpTo(venue, r)[c]
    <3>1. \A d \in Chunks : venue[<<r, d>>].filled <= venue[<<r, d>>].filled
      BY <1>1 DEF Rows, VenueRec
    <3> QED
      BY <1>1, <3>1, SumGrows
  <2> QED
    BY <1>2, <2>1
<1>4. CASE Fetch(t, r, left, seen, sum)
  <2>1. PICK c \in Chunks :
          /\ First(left, c) /\ UNCHANGED <<ord, venue, used>>
          /\ SetTask(t, [task[t] EXCEPT !.pc = "fetching", !.root = r, !.chunk = c, !.left = left \ {c},
                                        !.seen = seen, !.sum = sum])
    BY <1>4 DEF Fetch, memory, outside
  <2> DEFINE s == [task[t] EXCEPT !.pc = "fetching", !.root = r, !.chunk = c, !.left = left \ {c},
                                  !.seen = seen, !.sum = sum]
  <2>2. /\ s.pc = "fetching" /\ s.root = r /\ s.chunk = c /\ s.left = left \ {c} /\ s.sum = sum
        /\ task' = [task EXCEPT ![t] = s]
    BY <1>1, <2>1 DEF TaskRec, SetTask
  <2> HIDE DEF s
  <2>3. c - 1 \in 0..MaxChunks /\ k <= c - 1 /\ \A d \in left \ {c} : d > c
    BY <1>1, <2>1 DEF First, Chunks
  <2>4. sum <= UpTo(venue, r)[c - 1]
    BY <1>3, <2>3
  <2>5. InTurn(s) /\ Passed(s)
    BY <2>2, <2>3, <2>4 DEF InTurn, Passed, Placing
  <2> QED
    BY <2>1, <2>2, <2>5, QuietStep, NoFill
<1>5. CASE Apply(t, r, seen, sum)
  <2> DEFINE o == ApplyRows(ord[r], seen, sum)
             n == ArmIfMissing(o)
  <2>1. ord' = [ord EXCEPT ![r] = n] /\ Continue(t) /\ UNCHANGED <<venue, used>>
    BY <1>5 DEF Apply, SetOrder, outside
  <2>2. Sound(o) /\ (o.filled <= sum \/ o.filled = ord[r].filled) /\ o.filled \in Nat
    <3>1. Moves(ord[r], o) /\ (o.filled <= sum \/ o.filled = ord[r].filled)
      BY <1>1, ApplyRowsMoves
    <3> HIDE DEF o
    <3> QED
      BY <3>1 DEF Moves, Sound, GoodOrder, OrderRec
  <2> HIDE DEF o
  <2>3. n.filled = o.filled
    BY <2>2, ArmIfMissingMoves
  <2> HIDE DEF n
  <2>4. sum <= VenueFilled(r) /\ VenueFilled(r) \in Nat
    <3>1. MaxChunks \in 0..MaxChunks /\ k <= MaxChunks
      BY <1>1
    <3> QED
      BY <1>2, <1>3, <3>1, VenueFilledIsUpTo
  <2>5. n.filled = ord[r].filled \/ n.filled <= VenueFilled(r)
    BY <2>2, <2>3, <2>4
  <2>6. FillsKept
    BY <2>1, <2>5, OneFillKept
  <2> QED
    BY <2>1, <2>6, RestsAfter, RestStep
<1> QED
  BY <1>4, <1>5

\* The next step of a call under way: reconciling.
LEMMA ReconcilingVenue ==
  ASSUME VInv, SInv', NEW t \in Tasks,
         \/ VisitSkip(t) \/ FetchReply(t) \/ FetchFail(t) \/ ReconcileDone(t)
         \/ \E r \in Roots : VisitPaperEntry(t, r) \/ VisitLiveEntry(t, r)
         \/ \E r \in Roots, l \in Legs : VisitLegExpired(t, r, l) \/ VisitLegTriggered(t, r, l)
  PROVE  VInv'
<1>1. CASE VisitSkip(t) \/ ReconcileDone(t)
  <2>1. UNCHANGED <<ord, venue, used>> /\ (Continue(t) \/ Return(t))
    BY <1>1 DEF VisitSkip, ReconcileDone, memory, outside
  <2> QED
    BY <2>1, NoFill, RestsAfter, RestStep
<1>2. ASSUME NEW r \in Roots, VisitPaperEntry(t, r) PROVE VInv'
  <2>1. ~Live /\ Continue(t) /\ UNCHANGED <<venue, used>>
    BY <1>2 DEF VisitPaperEntry, outside
  <2> QED
    BY <2>1, RestsAfter, RestStep DEF FillsKept
<1>3. ASSUME NEW r \in Roots, NEW l \in Legs, VisitLegExpired(t, r, l) \/ VisitLegTriggered(t, r, l) PROVE VInv'
  <2>1. PICK n \in {ExpireLeg(ord[r], l), TriggerLeg(ord[r], l)} : ord' = [ord EXCEPT ![r] = n]
    BY <1>3 DEF VisitLegExpired, VisitLegTriggered, SetOrder
  <2>2. n.filled = ord[r].filled
    BY <2>1, VenueTyped, SameFill
  <2>3. FillsKept
    BY <2>1, <2>2, OneFillKept
  <2>4. Continue(t) /\ UNCHANGED <<venue, used>>
    BY <1>3 DEF VisitLegExpired, VisitLegTriggered, outside
  <2> QED
    BY <2>3, <2>4, RestsAfter, RestStep
<1>4. ASSUME NEW r \in Roots, VisitLiveEntry(t, r) PROVE VInv'
  <2>1. Live /\ ord[r].kind = "entry" /\ venue \in Rows /\ ord[r] \in OrderRec
    BY <1>4, VenueTyped DEF VisitLiveEntry, OpenEntry
  <2>2. UpTo(venue, r)[0] = 0 /\ 0 \in 0..MaxChunks
    BY <2>1, UpToAddsUp, Constants
  <2>3. ord[r].eids \in SUBSET Chunks /\ \A c \in ord[r].eids : c > 0
    BY <2>1 DEF OrderRec, Chunks
  <2>4. Fetch(t, r, ord[r].eids, {}, 0) \/ Apply(t, r, {}, 0)
    BY <1>4 DEF VisitLiveEntry
  <2> QED
    BY <2>1, <2>2, <2>3, <2>4, FetchedVenue
<1>5. CASE FetchReply(t) \/ FetchFail(t)
  <2> DEFINE s == task[t]
             row == venue[<<s.root, s.chunk>>]
  <2>1. s.pc = "fetching"
    BY <1>5 DEF FetchReply, FetchFail, At
  <2>2. /\ s.root \in Roots /\ Live /\ s.chunk \in Chunks /\ s.sum \in Nat /\ s.left \in SUBSET Chunks
        /\ ord[s.root].kind = "entry"
    <3>1. s \in TaskRec /\ CallSound(s) /\ KnownCall(s)
      BY Known DEF VInv
    <3> QED
      BY <2>1, <3>1 DEF CallSound, KnownCall, TaskRec
  <2>3. (\A c \in s.left : c > s.chunk) /\ s.sum <= UpTo(venue, s.root)[s.chunk - 1]
    BY <2>1 DEF VInv, Passed
  <2>4. /\ venue \in Rows /\ s.chunk - 1 \in 0..MaxChunks /\ s.chunk \in 0..MaxChunks
        /\ row.filled \in Nat
    BY <2>2, VenueTyped DEF Chunks, Rows, VenueRec
  <2>5. /\ UpTo(venue, s.root)[s.chunk] = UpTo(venue, s.root)[s.chunk - 1] + row.filled
        /\ UpTo(venue, s.root)[s.chunk] \in Nat /\ UpTo(venue, s.root)[s.chunk - 1] \in Nat
    BY <2>2, <2>4, UpToAddsUp
  <2>6. PICK add \in {0, row.filled}, seen \in {s.seen, s.seen \cup {row.st}} : Fetched(t, seen, s.sum + add)
    <3>1. CASE FetchReply(t)
      BY <3>1 DEF FetchReply
    <3>2. CASE FetchFail(t)
      <4>1. s.sum + 0 = s.sum
        BY <2>2
      <4> QED
        BY <3>2, <4>1 DEF FetchFail
    <3> QED
      BY <1>5, <3>1, <3>2
  <2> HIDE DEF row
  <2>7. s.sum + add \in Nat /\ s.sum + add <= UpTo(venue, s.root)[s.chunk]
    BY <2>2, <2>3, <2>4, <2>5, <2>6
  <2>8. Fetch(t, s.root, s.left, seen, s.sum + add) \/ Apply(t, s.root, seen, s.sum + add)
    BY <2>6 DEF Fetched
  <2> HIDE DEF s
  <2> QED
    BY <2>2, <2>3, <2>4, <2>7, <2>8, FetchedVenue
<1> QED
  BY <1>1, <1>2, <1>3, <1>4, <1>5

\* The venue, the clock and the process: rows grow, orders age or are forgotten.
LEMMA EnvironmentVenue ==
  ASSUME VInv, SInv', Environment
  PROVE  VInv'
<1>1. venue \in Rows /\ task \in [Tasks -> TaskRec] /\ ord \in [Roots -> OrderRec]
  BY VenueTyped
<1>2. \A x \in Roots \X Chunks : venue[x] \in VenueRec /\ venue[x].filled \in Nat
  BY <1>1 DEF Rows, VenueRec
<1>3. UNCHANGED venue => VenueGrows
  BY <1>2 DEF VenueGrows
<1>4. ASSUME NEW x \in Roots \X Chunks, VenueReceive(x) \/ VenueFill(x) \/ VenueEnd(x) \/ VenueCancel(x)
      PROVE  VInv'
  <2>1. UNCHANGED <<ord, used, task>>
    BY <1>4 DEF VenueReceive, VenueFill, VenueEnd, VenueCancel, VenueAnswers, memory
  <2>2. \/ \E st \in VenueStates : venue' = [venue EXCEPT ![x].st = st] /\ venue[x].st # "none"
        \/ VenueFill(x)
        \/ venue' = [venue EXCEPT ![x].st = IF @ = "live" THEN "cancelled" ELSE @]
    BY <1>4, ExecutorAssumption DEF VenueReceive, VenueEnd, VenueCancel, VenueAnswers, VenueStates
  <2>3. VenueGrows /\ \A y \in Roots \X Chunks : venue[y] = NoVenueOrder => venue'[y] = NoVenueOrder
    <3>1. CASE \E st \in VenueStates : venue' = [venue EXCEPT ![x].st = st] /\ venue[x].st # "none"
      BY <1>1, <1>2, <3>1 DEF Rows, VenueRec, VenueGrows, NoVenueOrder
    <3>2. CASE VenueFill(x)
      <4> DEFINE row == [venue[x] EXCEPT !.filled = @ + 1,
                           !.st = IF venue[x].filled + 1 = venue[x].size THEN "matched" ELSE @]
      <4>1. venue' = [venue EXCEPT ![x] = row] /\ venue[x].st = "live"
        BY <1>1, <3>2 DEF VenueFill, Rows, VenueRec
      <4>2. row.filled = venue[x].filled + 1
        BY <1>2 DEF VenueRec
      <4> HIDE DEF row
      <4> QED
        BY <1>1, <1>2, <4>1, <4>2 DEF Rows, VenueGrows, NoVenueOrder
    <3>3. CASE venue' = [venue EXCEPT ![x].st = IF @ = "live" THEN "cancelled" ELSE @]
      <4> DEFINE row == [venue[x] EXCEPT !.st = IF venue[x].st = "live" THEN "cancelled" ELSE venue[x].st]
      <4>1. venue' = [venue EXCEPT ![x] = row]
        BY <1>1, <3>3 DEF Rows
      <4>2. row.filled = venue[x].filled /\ (venue[x] = NoVenueOrder => row = NoVenueOrder)
        BY <1>2 DEF VenueRec, NoVenueOrder
      <4> HIDE DEF row
      <4> QED
        BY <1>1, <1>2, <4>1, <4>2 DEF Rows, VenueGrows
    <3> QED
      BY <2>2, <3>1, <3>2, <3>3
  <2> QED
    BY <2>1, <2>3, NoFill, OutsideStep
<1>5. CASE KillSwitchFlip \/ Restart \/ \E k \in Keys : WindowPasses(k)
  <2>1. UNCHANGED <<ord, used, task, venue>>
    BY <1>5 DEF KillSwitchFlip, Restart, WindowPasses, memory
  <2> QED
    BY <1>3, <2>1, NoFill, OutsideStep
<1>6. ASSUME NEW r \in Roots, OrderAges(r) \/ GttPasses(r) PROVE VInv'
  <2>1. PICK n \in {[ord[r] EXCEPT !.aged = TRUE], [ord[r] EXCEPT !.due = TRUE]} : ord' = [ord EXCEPT ![r] = n]
    BY <1>6 DEF OrderAges, GttPasses
  <2>2. n.filled = ord[r].filled
    BY <1>1, <2>1, SameFill
  <2>3. FillsKept
    BY <2>1, <2>2, OneFillKept
  <2>4. UNCHANGED <<used, task, venue>>
    BY <1>6 DEF OrderAges, GttPasses, outside
  <2> QED
    BY <1>3, <2>3, <2>4, OutsideStep
<1>7. CASE Signal \/ HookTimeout
  <2>1. UNCHANGED <<ord, used, venue>> /\ Shutdown \in Tasks
        /\ (Return(Shutdown) \/ \E op, todo, books : Scan(Shutdown, op, todo, books))
    BY <1>7 DEF Signal, HookTimeout, memory, Tasks
  <2> QED
    BY <2>1, NoFill, RestsAfter, RestStep
<1>8. CASE Exit \/ Crash
  <2>1. /\ ord' = [r \in Roots |-> NoOrder] /\ task' = [t \in Tasks |-> IdleTask]
        /\ UNCHANGED <<used, venue>>
    BY <1>8 DEF Exit, Crash, LoseMemory
  <2>2. NoOrder.filled = 0 /\ IdleTask.pc = "idle"
    BY DEF NoOrder, IdleTask
  <2>3. FillsAreReal'
    <3>1. FillsKept
      BY <2>1, <2>2 DEF FillsKept
    <3> QED
      BY <1>3, <2>1, <3>1, RealKept
  <2>4. Unsent' /\ \A t \in Tasks : InTurn(task[t])' /\ Passed(task[t])'
    BY <2>1, <2>2 DEF VInv, Unsent, InTurn, Passed, Placing
  <2> QED
    BY <2>3, <2>4 DEF VInv
<1> QED
  BY <1>4, <1>5, <1>6, <1>7, <1>8 DEF Environment, Venue

\* The start of an instance: nothing sent, nothing filled.
LEMMA InitVenue == Init => VInv
<1> SUFFICES ASSUME Init PROVE VInv
  OBVIOUS
<1>1. SInv
  BY InitSound
<1>2. venue \in Rows /\ MaxChunks \in 0..MaxChunks
  BY <1>1, Constants DEF SInv, IInv, OutsideGood, Rows
<1>3. FillsAreReal
  <2>1. ASSUME NEW r \in Roots PROVE ord[r].filled = 0 /\ VenueFilled(r) \in Nat
    BY <1>2, UpToAddsUp, VenueFilledIsUpTo DEF Init, NoOrder
  <2>2. ASSUME NEW r \in Roots PROVE ord[r].filled <= VenueFilled(r)
    <3> HIDE DEF VenueFilled
    <3> QED
      BY <2>1
  <2> QED
    BY <2>2 DEF FillsAreReal
<1>4. IdleTask.pc = "idle"
  BY DEF IdleTask
<1>5. Unsent /\ \A t \in Tasks : InTurn(task[t]) /\ Passed(task[t])
  BY <1>4 DEF Init, Unsent, InTurn, Passed, Placing
<1> QED
  BY <1>1, <1>3, <1>5 DEF VInv

\* Every step keeps the invariant.
LEMMA VenueStepKept ==
  ASSUME VInv, [Next]_vars
  PROVE  VInv'
<1>1. SInv'
  BY SoundStep DEF VInv
<1>2. CASE UNCHANGED vars
  <2>1. UNCHANGED <<ord, used, task, venue>>
    BY <1>2 DEF vars
  <2>2. \A x \in Roots \X Chunks : venue[x].filled <= venue'[x].filled
    BY <2>1, VenueTyped DEF Rows, VenueRec
  <2> QED
    BY <1>1, <2>1, <2>2, NoFill, OutsideStep DEF VenueGrows
<1>3. ASSUME NEW t \in Tasks, Call(t) \/ Advance(t) PROVE VInv'
  BY <1>1, <1>3, CallVenue, PlacingVenue, CancellingVenue, ReconcilingVenue DEF Advance
<1>4. CASE Environment
  BY <1>1, <1>4, EnvironmentVenue
<1> QED
  BY <1>2, <1>3, <1>4 DEF Next

\* The fills a live order reports were made by the venue: the rows of its chunks, read at
\* different times around fills, cancels and timeouts, never add up to more than was
\* traded (_reconcile_live_entry lines 617-702, _submit_with_retries lines 704-806).
THEOREM ReportedFillsAreReal == Spec => []FillsAreReal
<1>1. VInv /\ [Next]_vars => VInv'
  BY VenueStepKept
<1>2. VInv => FillsAreReal
  BY DEF VInv
<1> QED
  BY <1>1, <1>2, InitVenue, PTL DEF Spec

==============================================================================
