------------------------ MODULE ExecutorOrphanProofs ------------------------
(***************************************************************************)
(* The executor and the exchange: no live order of the venue is forgotten  *)
(* without a cause.                                                        *)
(*                                                                         *)
(* Of an entry that nothing interfered with, the invariant says which of   *)
(* its chunks the venue may still work on, and who knows them: a placing   *)
(* call holds the ids it was given; afterwards the order holds them; and a *)
(* cancelled entry has only chunks that are over, or that a cancelling     *)
(* call still goes through.  A filled entry has none, because its chunks   *)
(* add up to its size and a live one is not full.                          *)
(***************************************************************************)
EXTENDS ExecutorVenueProofs

USE DEF Legs, OpenStatuses, FINAL_ORDER_STATUSES, BracketStates

-----------------------------------------------------------------------------
(* The invariant of one entry.                                             *)

St(r, c) == venue[<<r, c>>].st

Dead(r, c) == St(r, c) \notin {"sent", "live"}

On(s, r) == s.pc \notin {"idle", "run"} /\ s.root = r

InPlacement(r) == \E t \in Tasks : On(task[t], r) /\ task[t].pc \in Placing

\* A cancelling call has the chunk before it.
Held(r, c) ==
  \E t \in Tasks :
    On(task[t], r) /\ task[t].pc = "cancelling" /\ c \in task[t].left \cup {task[t].chunk}

HeldOrDead(r) == \A c \in ord[r].eids : Dead(r, c) \/ Held(r, c)

\* The size of one chunk of the entry.
Part(o) == o.size \div NChunks(o.size)

\* The rows of the venue: equal parts, filled up to their size.
RowFits(o, row, c) ==
  /\ row.st = "none" => row = NoVenueOrder
  /\ row.st # "none" => c <= NChunks(o.size) /\ row.size = Part(o)
  /\ row.filled <= row.size
  /\ row.st = "live" => row.filled < row.size
  /\ row.st = "sent" => row.filled = 0
  /\ row.st # "expired"

RowsFit(r) == \A c \in Chunks : RowFits(ord[r], venue[<<r, c>>], c)

\* The chunks a placing call has had an answer for.
Answers(s) == {c \in Chunks : c < s.chunk \/ (c = s.chunk /\ s.pc = "pause")}

PlacingWell(r, s) ==
  /\ s.op = "place" /\ s.n = NChunks(ord[r].size)
  /\ ord[r].status = "placed" /\ ord[r].eids = {}
  /\ \A c \in Answers(s) : St(r, c) # "sent" /\ (c \in s.got \/ Dead(r, c))
  /\ s.got \subseteq Answers(s)
  /\ \A c \in s.got : St(r, c) \notin {"none", "sent"}
  /\ s.pc = "posting" => St(r, s.chunk) # "none"
  /\ \A c \in Chunks : <<r, c>> \notin vcancel /\ St(r, c) # "cancelled"

PlacedWell(r) ==
  /\ \A c \in Chunks : /\ St(r, c) # "sent"
                       /\ St(r, c) = "live" => c \in ord[r].eids
  /\ \A c \in ord[r].eids : St(r, c) # "none"
  /\ ord[r].status = "cancelled" => HeldOrDead(r)
  /\ ord[r].status = "filled" => \A c \in Chunks : St(r, c) # "live"

CallWell(r, s) ==
  /\ s.pc = "cancelling" =>
       /\ s.left \cup {s.chunk} \subseteq ord[r].eids
       /\ \A c \in ord[r].eids : c \in s.left \cup {s.chunk} \/ Dead(r, c)
       /\ <<r, s.chunk>> \in vcancel \/ Dead(r, s.chunk)
  /\ s.pc = "fetching" =>
       /\ "cancelled" \in s.seen => HeldOrDead(r)
       /\ "expired" \notin s.seen

Ends(r) ==
  /\ \A c \in Chunks : (<<r, c>> \in vcancel \/ St(r, c) = "cancelled") => HeldOrDead(r)
  /\ ord[r].status # "expired"

Whole(r) ==
  /\ RowsFit(r) /\ Ends(r)
  /\ \A t \in Tasks : On(task[t], r) =>
       CallWell(r, task[t]) /\ (task[t].pc \in Placing => PlacingWell(r, task[t]))
  /\ InPlacement(r) \/ PlacedWell(r)

Fine(r) ==
  /\ r \notin used => \A c \in Chunks : <<r, c>> \notin vcancel
  /\ r \in used /\ r \notin mishap =>
       ord[r].kind # "none" /\ (ord[r].kind = "entry" => Whole(r))

OInv == VInv /\ (Live => \A r \in Roots : Fine(r))

-----------------------------------------------------------------------------
(* What the invariant means.                                               *)

\* The size of an entry is its chunks' number times their size.
LEMMA PartsAdd ==
  ASSUME NEW size \in Sizes
  PROVE  LET n == NChunks(size) IN
         /\ n \in 1..MaxChunks /\ size \div n \in Nat \ {0} /\ n * (size \div n) = size
<1> DEFINE n == NChunks(size)
<1>1. size \in Nat \ {0} /\ n \in 1..MaxChunks /\ MaxChunks \in Nat
  BY ChunkCount, Constants
<1>2. size % n = 0
  BY ExecutorAssumption
<1> HIDE DEF n
<1>3. n \in Nat \ {0}
  BY <1>1
<1>4. size = n * (size \div n) + (size % n) /\ size \div n \in Int
  BY <1>1, <1>3
<1>5. size \div n # 0 /\ size \div n >= 0
  BY <1>1, <1>2, <1>3, <1>4
<1> QED
  BY <1>1, <1>2, <1>4, <1>5 DEF n

\* A row that is not full makes the sum of the parts smaller than the size.
LEMMA FullIsOver ==
  ASSUME NEW v \in Rows, NEW r \in Roots, NEW o, o.size \in Sizes,
         \A c \in Chunks : RowFits(o, v[<<r, c>>], c),
         o.size <= UpTo(v, r)[MaxChunks]
  PROVE  \A c \in Chunks : v[<<r, c>>].st # "live"
<1> DEFINE f == UpTo(v, r)
           n == NChunks(o.size)
           q == Part(o)
           b(m) == IF m <= n THEN m * q ELSE o.size
<1>1. /\ f[0] = 0
      /\ \A c \in Chunks : f[c] = f[c - 1] + v[<<r, c>>].filled
      /\ \A c \in 0..MaxChunks : f[c] \in Nat
  BY UpToAddsUp
<1>2. n \in 1..MaxChunks /\ q \in Nat \ {0} /\ n * q = o.size /\ MaxChunks \in Nat \ {0}
  BY PartsAdd, Constants DEF Part
<1>3. o.size \in Nat
  BY Constants
<1>4. ASSUME NEW c \in Chunks
      PROVE  LET row == v[<<r, c>>] IN
             /\ row.filled \in Nat
             /\ c <= n => row.filled <= q /\ (row.st = "live" => row.filled < q)
             /\ c > n => row.filled = 0 /\ row.st # "live"
  <2> DEFINE row == v[<<r, c>>]
  <2>1. row.filled \in Nat /\ row.size \in Nat /\ RowFits(o, row, c)
    BY DEF Rows, VenueRec
  <2>2. CASE row.st = "none"
    <3>1. row.filled = 0 /\ row.st # "live"
      BY <2>1, <2>2 DEF RowFits, NoVenueOrder
    <3> QED
      BY <1>2, <3>1
  <2>3. CASE row.st # "none"
    <3>1. c <= n /\ row.size = q /\ row.filled <= row.size /\ (row.st = "live" => row.filled < row.size)
      BY <2>1, <2>3 DEF RowFits
    <3> QED
      BY <1>2, <2>1, <3>1 DEF Chunks
  <2> QED
    BY <2>2, <2>3
<1> HIDE DEF f, n, q
<1>5. \A m \in Nat : b(m) \in Nat /\ (m + 1 <= n => b(m + 1) = b(m) + q) /\ (m + 1 > n => b(m + 1) = b(m))
  <2> SUFFICES ASSUME NEW m \in Nat
               PROVE  b(m) \in Nat /\ (m + 1 <= n => b(m + 1) = b(m) + q) /\ (m + 1 > n => b(m + 1) = b(m))
    OBVIOUS
  <2>1. m * q \in Nat /\ (m + 1) * q = m * q + q
    BY <1>2
  <2>2. m + 1 > n => m > n \/ m = n
    BY <1>2
  <2> QED
    BY <1>2, <1>3, <2>1, <2>2
<1>6. b(0) = 0 /\ b(MaxChunks) = o.size
  <2>1. 0 * q = 0
    BY <1>2
  <2>2. MaxChunks <= n => MaxChunks = n
    BY <1>2
  <2> QED
    BY <1>2, <2>1, <2>2
<1> HIDE DEF b
<1> DEFINE S == {m \in Nat : m \in 0..MaxChunks =>
                   /\ f[m] <= b(m)
                   /\ \A d \in Chunks : d <= m /\ v[<<r, d>>].st = "live" => f[m] < b(m)}
<1>7. ASSUME NEW m \in Nat, m \in S PROVE m + 1 \in S
  <2> SUFFICES ASSUME m + 1 \in 0..MaxChunks
               PROVE  /\ f[m + 1] <= b(m + 1)
                      /\ \A d \in Chunks : d <= m + 1 /\ v[<<r, d>>].st = "live" => f[m + 1] < b(m + 1)
    OBVIOUS
  <2> DEFINE row == v[<<r, m + 1>>]
  <2>1. m + 1 \in Chunks /\ m \in 0..MaxChunks /\ (m + 1) - 1 = m
    BY <1>2 DEF Chunks
  <2>2. f[m + 1] = f[m] + row.filled /\ f[m] \in Nat /\ f[m + 1] \in Nat
    <3>1. f[m + 1] = f[(m + 1) - 1] + row.filled
      BY <1>1, <2>1
    <3> QED
      BY <1>1, <2>1, <3>1
  <2>3. /\ f[m] <= b(m)
        /\ \A d \in Chunks : d <= m /\ v[<<r, d>>].st = "live" => f[m] < b(m)
    BY <1>7, <2>1
  <2>4. /\ row.filled \in Nat
        /\ m + 1 <= n => row.filled <= q /\ (row.st = "live" => row.filled < q)
        /\ m + 1 > n => row.filled = 0 /\ row.st # "live"
    BY <1>4, <2>1
  <2>5. b(m) \in Nat /\ b(m + 1) \in Nat /\ (m + 1 <= n => b(m + 1) = b(m) + q) /\ (m + 1 > n => b(m + 1) = b(m))
    <3>1. m + 1 \in Nat
      OBVIOUS
    <3> QED
      BY <1>5, <3>1
  <2> HIDE DEF row
  <2>6. f[m + 1] <= b(m + 1)
    BY <1>2, <2>2, <2>3, <2>4, <2>5
  <2>7. ASSUME NEW d \in Chunks, d <= m + 1, v[<<r, d>>].st = "live" PROVE f[m + 1] < b(m + 1)
    <3>1. CASE d = m + 1
      <4>1. row.st = "live"
        BY <2>7, <3>1 DEF row
      <4> QED
        BY <1>2, <2>2, <2>3, <2>4, <2>5, <4>1
    <3>2. CASE d # m + 1
      <4>1. d <= m
        BY <2>7, <3>2 DEF Chunks
      <4>2. f[m] < b(m)
        BY <2>3, <2>7, <4>1
      <4> QED
        BY <1>2, <2>2, <2>4, <2>5, <4>2
    <3> QED
      BY <3>1, <3>2
  <2> QED
    BY <2>6, <2>7
<1>8. 0 \in S
  BY <1>1, <1>6 DEF Chunks
<1>9. \A m \in Nat : m \in S
  <2> HIDE DEF S
  <2> QED
    BY <1>7, <1>8, CountingUp
<1>10. MaxChunks \in 0..MaxChunks /\ f[MaxChunks] \in Nat /\ ~ (f[MaxChunks] < o.size)
  BY <1>1, <1>2, <1>3 DEF f
<1>11. \A d \in Chunks : v[<<r, d>>].st = "live" => f[MaxChunks] < b(MaxChunks)
  BY <1>2, <1>9, <1>10 DEF Chunks
<1> QED
  BY <1>6, <1>10, <1>11

\* The entry's chunks that the venue still works on are known to someone.
LEMMA FineMeans ==
  ASSUME OInv
  PROVE  NoOrphanWithoutCause
<1> SUFFICES ASSUME NEW r \in Roots, NEW c \in Chunks,
                    St(r, c) = "live", r \notin mishap, ord[r].kind # "exit"
             PROVE  (ord[r].status \in OpenStatuses /\ c \in ord[r].eids) \/ InHand(<<r, c>>)
  BY DEF NoOrphanWithoutCause, St
<1>1. Live /\ r \in used
  BY DEF OInv, VInv, Unsent, St, NoVenueOrder
<1>2. ord[r] \in OrderRec /\ Sound(ord[r]) /\ Fine(r)
  BY <1>1, VenueTyped DEF OInv, VInv, SInv, RecordsSound
<1>3. ord[r].kind = "entry" /\ Whole(r)
  BY <1>1, <1>2 DEF Fine, OrderRec
<1>4. CASE InPlacement(r)
  <2>1. PICK t \in Tasks : On(task[t], r) /\ task[t].pc \in Placing
    BY <1>4 DEF InPlacement
  <2>2. PlacingWell(r, task[t]) /\ InTurn(task[t])
    BY <1>3, <2>1 DEF Whole, OInv, VInv
  <2>3. task[t].root = r /\ task[t].chunk \in 0..MaxChunks /\ task[t].op = "place" /\ MaxChunks \in Nat
    BY <2>1, <2>2, PlacingKnown, Constants DEF On, PlacingWell, OInv
  <2>4. ~ (c > task[t].chunk)
    BY <2>1, <2>2, <2>3 DEF InTurn, St, NoVenueOrder
  <2>5. CASE c \in Answers(task[t])
    <3>1. c \in task[t].got /\ task[t].pc # "preflight"
      BY <2>1, <2>2, <2>3, <2>5 DEF PlacingWell, Dead, Answers, InTurn, Chunks
    <3> QED
      BY <2>1, <2>3, <3>1 DEF InHand, Placing
  <2>6. CASE c \notin Answers(task[t])
    <3>1. c = task[t].chunk /\ task[t].pc # "pause"
      BY <2>3, <2>4, <2>6 DEF Answers, Chunks
    <3>2. task[t].pc = "posting"
      BY <2>1, <2>2, <3>1 DEF InTurn, Placing, Chunks
    <3> QED
      BY <2>3, <3>1, <3>2 DEF InHand
  <2> QED
    BY <2>5, <2>6
<1>5. CASE PlacedWell(r)
  <2>1. c \in ord[r].eids
    BY <1>5 DEF PlacedWell
  <2>2. ord[r].status \notin {"none", "expired", "filled"}
    BY <1>2, <1>3, <1>5 DEF Whole, Ends, PlacedWell, Sound
  <2>3. CASE ord[r].status = "cancelled"
    BY <1>5, <2>1, <2>3 DEF PlacedWell, HeldOrDead, Dead, Held, On, InHand
  <2>4. CASE ord[r].status # "cancelled"
    BY <1>2, <2>1, <2>2, <2>4 DEF OrderRec
  <2> QED
    BY <2>3, <2>4
<1> QED
  BY <1>3, <1>4, <1>5 DEF Whole

-----------------------------------------------------------------------------
(* Steps that concern one entry, and leave the others alone.               *)

SameRoot(r) ==
  /\ ord'[r].kind = ord[r].kind /\ ord'[r].size = ord[r].size
  /\ ord'[r].status = ord[r].status /\ ord'[r].eids = ord[r].eids
  /\ \A c \in Chunks : venue'[<<r, c>>] = venue[<<r, c>>] /\ (<<r, c>> \in vcancel' <=> <<r, c>> \in vcancel)
  /\ \A t \in Tasks : task'[t] = task[t] \/ (~On(task[t], r) /\ ~On(task'[t], r))
  /\ (r \in used' <=> r \in used) /\ mishap \subseteq mishap'

\* An entry no step touches stays as fine as it was.
LEMMA Untouched ==
  ASSUME VInv, NEW r \in Roots, Fine(r), SameRoot(r)
  PROVE  Fine(r)'
<1> SUFFICES ASSUME r \in used, r \notin mishap, ord[r].kind = "entry" PROVE Whole(r)'
  BY DEF Fine, SameRoot
<1>1. Whole(r)
  BY DEF Fine
<1>2. \A c \in Chunks : St(r, c)' = St(r, c) /\ Dead(r, c)' = Dead(r, c)
  BY DEF SameRoot, St, Dead
<1>3. \A t \in Tasks : On(task[t], r) \/ On(task'[t], r) => task'[t] = task[t]
  BY DEF SameRoot
<1>4. InPlacement(r)' = InPlacement(r)
  BY <1>3 DEF InPlacement
<1>5. ord[r].eids \in SUBSET Chunks
  BY VenueTyped DEF OrderRec
<1>6. \A c \in Chunks : Held(r, c)' = Held(r, c)
  BY <1>3 DEF Held
<1>7. HeldOrDead(r)' = HeldOrDead(r)
  BY <1>2, <1>5, <1>6 DEF HeldOrDead, SameRoot
<1>8. RowsFit(r)'
  BY <1>1 DEF Whole, RowsFit, RowFits, Part, SameRoot
<1>9. Ends(r)'
  BY <1>1, <1>2, <1>7 DEF Whole, Ends, SameRoot
<1>10. InPlacement(r)' \/ PlacedWell(r)'
  BY <1>1, <1>2, <1>4, <1>5, <1>7 DEF Whole, PlacedWell, SameRoot
<1>11. ASSUME NEW t \in Tasks, On(task'[t], r)
       PROVE  /\ CallWell(r, task[t])'
              /\ task'[t].pc \in Placing => PlacingWell(r, task[t])'
  <2> DEFINE s == task[t]
  <2>1. task'[t] = s /\ On(s, r) /\ CallWell(r, s) /\ (s.pc \in Placing => PlacingWell(r, s))
        /\ CallSound(s)
    BY <1>1, <1>3, <1>11, Known DEF Whole, VInv
  <2> HIDE DEF s
  <2>2. CallWell(r, s) => CallWell(r, task[t])'
    BY <1>2, <1>5, <1>7, <2>1 DEF CallWell, SameRoot, Dead, St
  <2>3. PlacingWell(r, s) => PlacingWell(r, task[t])'
    BY <1>2, <2>1 DEF PlacingWell, Answers, SameRoot, Dead, CallSound
  <2> QED
    BY <2>1, <2>2, <2>3
<1>12. ASSUME NEW t \in Tasks
       PROVE  On(task[t], r)' =>
                CallWell(r, task[t])' /\ ((task[t].pc \in Placing)' => PlacingWell(r, task[t])')
  BY <1>11 DEF On
<1> QED
  BY <1>8, <1>9, <1>10, <1>12 DEF Whole

\* A step that touches no entry.
LEMMA TouchesNone ==
  ASSUME OInv, VInv', \A r \in Roots : SameRoot(r)
  PROVE  OInv'
BY Untouched DEF OInv

\* A step of one task that touches one entry: the others stay fine.
Touches(q, t) ==
  /\ UNCHANGED ord \/ \E n : ord' = [ord EXCEPT ![q] = n]
  /\ \A r \in Roots : r # q => \A c \in Chunks :
       venue'[<<r, c>>] = venue[<<r, c>>] /\ (<<r, c>> \in vcancel' <=> <<r, c>> \in vcancel)
  /\ UNCHANGED task \/ \E s : /\ task' = [task EXCEPT ![t] = s]
                              /\ \A r \in Roots : r # q => ~On(s, r) /\ ~On(task[t], r)
  /\ used' \in {used, used \cup {q}} /\ mishap \subseteq mishap'

\* So it is enough to look at the entry the step touches.
LEMMA TouchesOne ==
  ASSUME OInv, VInv', NEW q \in Roots, NEW t \in Tasks, Touches(q, t), Live => Fine(q)'
  PROVE  OInv'
<1> SUFFICES ASSUME Live, NEW r \in Roots, r # q PROVE Fine(r)'
  BY DEF OInv
<1>1. ord'[r] = ord[r]
  BY VenueTyped DEF OInv, Touches
<1>2. \A u \in Tasks : task'[u] = task[u] \/ (~On(task[u], r) /\ ~On(task'[u], r))
  BY VenueTyped DEF OInv, Touches
<1>3. SameRoot(r)
  BY <1>1, <1>2 DEF SameRoot, Touches
<1> QED
  BY <1>3, Untouched DEF OInv

\* A call that goes on to its next element, or ends, works on no entry.
LEMMA NotOn ==
  ASSUME VInv, NEW t \in Tasks,
         Continue(t) \/ Return(t) \/ \E op, todo, books : Scan(t, op, todo, books)
  PROVE  \E s : task' = [task EXCEPT ![t] = s] /\ s.pc \in {"idle", "run"}
<1>1. task[t] \in TaskRec
  BY Known DEF VInv
<1>2. CASE Continue(t)
  <2> DEFINE s == [task[t] EXCEPT !.pc = "run", !.todo = Tail(@), !.root = NoRoot,
                                  !.left = {}, !.chunk = 0, !.seen = {}, !.sum = 0]
  <2>1. s.pc = "run" /\ task' = [task EXCEPT ![t] = s]
    BY <1>1, <1>2 DEF Continue, SetTask, TaskRec
  <2> QED
    BY <2>1
<1>3. CASE Return(t)
  <2>1. IdleTask.pc = "idle" /\ task' = [task EXCEPT ![t] = IdleTask]
    BY <1>3 DEF Return, SetTask, IdleTask
  <2> QED
    BY <2>1
<1>4. ASSUME NEW op, NEW todo, NEW books, Scan(t, op, todo, books)
      PROVE  \E s : task' = [task EXCEPT ![t] = s] /\ s.pc \in {"idle", "run"}
  <2> DEFINE s == [IdleTask EXCEPT !.pc = "run", !.op = op, !.todo = todo, !.books = books]
  <2>1. s.pc = "run" /\ task' = [task EXCEPT ![t] = s]
    BY <1>4 DEF Scan, SetTask, IdleTask
  <2> QED
    BY <2>1
<1> QED
  BY <1>2, <1>3, <1>4

\* A synchronous step, from one element of a loop to the next, that changes at most the
\* legs, the age or the bracket of a record.
LEMMA LoopStep ==
  ASSUME OInv, VInv', NEW t \in Tasks, task[t].pc \in {"idle", "run"},
         Continue(t) \/ Return(t) \/ \E op, todo, books : Scan(t, op, todo, books),
         UNCHANGED <<venue, vcancel, used, mishap>>,
         \A r \in Roots : /\ ord'[r].kind = ord[r].kind /\ ord'[r].size = ord[r].size
                          /\ ord'[r].status = ord[r].status /\ ord'[r].eids = ord[r].eids
  PROVE  OInv'
<1>1. PICK s : task' = [task EXCEPT ![t] = s] /\ s.pc \in {"idle", "run"}
  BY NotOn DEF OInv
<1>2. \A r \in Roots, u \in Tasks : task'[u] = task[u] \/ (~On(task[u], r) /\ ~On(task'[u], r))
  BY <1>1, VenueTyped DEF OInv, On
<1>3. \A r \in Roots : SameRoot(r)
  BY <1>2 DEF SameRoot
<1> QED
  BY <1>3, TouchesNone

\* What another call holds of the entry stays true while its ids stay, chunks that are
\* over stay over, and a cancel that was sent is pending or was executed.
LEMMA CallKept ==
  ASSUME NEW r \in Roots, NEW s, CallWell(r, s), ord'[r].eids = ord[r].eids,
         \A c \in ord[r].eids : Dead(r, c) => Dead(r, c)',
         \A c \in ord[r].eids : <<r, c>> \in vcancel => <<r, c>> \in vcancel' \/ Dead(r, c)',
         HeldOrDead(r) => HeldOrDead(r)'
  PROVE  CallWell(r, s)'
<1>1. s.pc = "cancelling" =>
        /\ s.left \cup {s.chunk} \subseteq ord'[r].eids
        /\ \A c \in ord'[r].eids : c \in s.left \cup {s.chunk} \/ Dead(r, c)'
        /\ <<r, s.chunk>> \in vcancel' \/ Dead(r, s.chunk)'
  BY DEF CallWell
<1>2. s.pc = "fetching" => ("cancelled" \in s.seen => HeldOrDead(r)') /\ "expired" \notin s.seen
  BY DEF CallWell
<1> QED
  BY <1>1, <1>2 DEF CallWell, Dead, St

-----------------------------------------------------------------------------
(* Placing an order.                                                       *)

\* Of an order the venue knows no chunk of, every row fits.
LEMMA BlankFits == ASSUME NEW o, NEW c PROVE RowFits(o, NoVenueOrder, c)
BY DEF RowFits, NoVenueOrder

\* An entry without ids has nothing to cancel.
LEMMA NothingHeld == ASSUME NEW r, ord[r].eids = {} PROVE HeldOrDead(r)
BY DEF HeldOrDead

\* Only the cycle places.
LEMMA OnePlaces ==
  ASSUME VInv, NEW t \in Tasks, NEW u \in Tasks, t # u, task[t].pc \in Placing
  PROVE  task[u].pc \notin Placing \cup {"fetching"}
BY PlacingKnown

\* The calls: a fresh entry has no chunk at the venue, and its call has none in hand.
LEMMA CallOrphan ==
  ASSUME OInv, VInv', NEW t \in Tasks, Call(t)
  PROVE  OInv'
<1>0. VInv
  BY DEF OInv
<1>1. CASE ReconcileCall(t) \/ CancelAllCall(t) \/ CancelExpiredCall(t) \/ \E r \in Roots : CancelOneCall(t, r)
  <2>1. UNCHANGED <<ord, venue, vcancel, used, mishap>> /\ task[t].pc = "idle"
        /\ \E op, todo, books : Scan(t, op, todo, books)
    BY <1>1 DEF ReconcileCall, CancelAllCall, CancelExpiredCall, CancelOneCall, MayCall, memory, outside
  <2> QED
    BY <2>1, LoopStep
<1>2. CASE ~Live
  BY <1>2 DEF OInv
<1>3. ASSUME Live, NEW r \in Roots, NEW k \in Keys, NEW z \in Sizes, PlaceLive(t, r, k, z) PROVE OInv'
  <2> DEFINE s == [IdleTask EXCEPT !.pc = "preflight", !.op = "place", !.root = r, !.n = NChunks(z)]
             n == NewOrder("entry", k, z)
  <2>1. /\ r \notin used /\ used' = used \cup {r} /\ UNCHANGED <<venue, vcancel, mishap>>
        /\ task' = [task EXCEPT ![t] = s] /\ ord' = [ord EXCEPT ![r] = n]
        /\ task[t].pc = "idle"
    BY <1>3 DEF PlaceLive, Admits, MayCall, SetTask, SetOrder
  <2>2. s.pc = "preflight" /\ s.op = "place" /\ s.root = r /\ s.n = NChunks(z) /\ s.chunk = 0 /\ s.got = {}
    BY DEF IdleTask
  <2>3. n.kind = "entry" /\ n.status = "placed" /\ n.size = z /\ n.eids = {}
    BY DEF NewOrder, NoOrder
  <2> HIDE DEF s, n
  <2>4. ord'[r] = n /\ task'[t] = s /\ \A u \in Tasks : u # t => task'[u] = task[u]
    BY <1>0, <2>1, VenueTyped
  <2>5. Touches(r, t)
    BY <2>1, <2>2 DEF Touches, On
  <2>6. \A c \in Chunks : venue'[<<r, c>>] = NoVenueOrder /\ <<r, c>> \notin vcancel'
    BY <1>0, <1>3, <2>1 DEF VInv, Unsent, OInv, Fine
  <2>7. RowsFit(r)'
    BY <2>6, BlankFits DEF RowsFit, RowFits
  <2>8. Ends(r)'
    BY <2>3, <2>4 DEF Ends, HeldOrDead
  <2>9. \A u \in Tasks : u # t => ~On(task'[u], r)
    BY <1>0, <2>1, <2>4, Known DEF VInv, On
  <2>12. CallWell(r, task[t])' /\ PlacingWell(r, task[t])'
    <3>1. Answers(task[t])' = {}
      BY <2>2, <2>4 DEF Answers, Chunks
    <3>2. \A c \in Chunks : St(r, c)' = "none"
      BY <2>6 DEF NoVenueOrder, St
    <3>3. CallWell(r, task[t])'
      BY <2>2, <2>4 DEF CallWell
    <3>4. PlacingWell(r, task[t])'
      BY <2>2, <2>3, <2>4, <2>6, <3>1, <3>2 DEF PlacingWell
    <3> QED
      BY <3>3, <3>4
  <2>13. InPlacement(r)'
    BY <2>2, <2>4 DEF InPlacement, On, Placing
  <2>14. Whole(r)'
    BY <2>7, <2>8, <2>9, <2>12, <2>13 DEF Whole, On
  <2>15. Fine(r)'
    BY <2>1, <2>3, <2>4, <2>14 DEF Fine
  <2> QED
    BY <2>5, <2>15, TouchesOne
<1>4. ASSUME Live, NEW r \in Roots, NEW z \in Sizes, CloseCall(t, r, z) PROVE OInv'
  <2> DEFINE s == [IdleTask EXCEPT !.pc = "posting", !.op = "close", !.root = r, !.chunk = 1]
             n == NewOrder("exit", NoKey, z)
  <2>1. /\ r \notin used /\ used' = used \cup {r} /\ UNCHANGED <<vcancel, mishap>>
        /\ task' = [task EXCEPT ![t] = s] /\ ord' = [ord EXCEPT ![r] = n]
        /\ venue' = [venue EXCEPT ![<<r, 1>>] = [st |-> "sent", filled |-> 0, size |-> z]]
        /\ task[t].pc = "idle"
    BY <1>4 DEF CloseCall, MayCall, SetTask, SetOrder
  <2>2. s.root = r /\ n.kind = "exit"
    BY DEF IdleTask, NewOrder, NoOrder
  <2> HIDE DEF s, n
  <2>3. ord'[r] = n
    BY <1>0, <2>1, VenueTyped
  <2>4. Touches(r, t)
    BY <1>0, <2>1, <2>2, VenueTyped DEF Touches, On, Rows
  <2>5. Fine(r)'
    BY <2>1, <2>2, <2>3 DEF Fine
  <2> QED
    BY <2>4, <2>5, TouchesOne
<1>5. ASSUME NEW r \in Roots, NEW k \in Keys, NEW z \in Sizes, PlacePaper(t, r, k, z) PROVE OInv'
  BY <1>2, <1>5 DEF PlacePaper
<1> QED
  BY <1>1, <1>2, <1>3, <1>4, <1>5, ExecutorAssumption DEF Call

\* The other task's call holds on to what it knew, in a step that keeps the ids.
LEMMA OthersKept ==
  ASSUME NEW q \in Roots, NEW t \in Tasks, Whole(q), ord'[q].eids = ord[q].eids,
         \A u \in Tasks : u # t => task'[u] = task[u] /\ ~(On(task[u], q) /\ task[u].pc \in Placing),
         \A c \in ord[q].eids : Dead(q, c) => Dead(q, c)',
         \A c \in ord[q].eids : <<q, c>> \in vcancel => <<q, c>> \in vcancel' \/ Dead(q, c)',
         HeldOrDead(q) => HeldOrDead(q)'
  PROVE  \A u \in Tasks : u # t => (On(task[u], q)' =>
           CallWell(q, task[u])' /\ ((task[u].pc \in Placing)' => PlacingWell(q, task[u])'))
<1> SUFFICES ASSUME NEW u \in Tasks, u # t, On(task[u], q)'
             PROVE  CallWell(q, task[u])' /\ (task[u].pc \in Placing)' = FALSE
  OBVIOUS
<1>1. On(task[u], q) /\ task[u].pc \notin Placing /\ task'[u] = task[u]
  BY DEF On
<1>2. ASSUME NEW x, x = task[u] PROVE CallWell(q, x)'
  <2>1. CallWell(q, x)
    BY <1>1, <1>2 DEF Whole
  <2> QED
    BY <2>1, CallKept
<1>3. CallWell(q, task[u])'
  BY <1>1, <1>2 DEF CallWell
<1> QED
  BY <1>1, <1>3

\* A chunk of an entry leaves for the venue: it is the call's, and no row before it is open
\* without an answer.
LEMMA SendOrphan ==
  ASSUME OInv, VInv', Live, NEW t \in Tasks, NEW c \in Chunks, Send(t, c), c = task[t].chunk + 1,
         task[t].pc \in {"preflight", "pause"}, UNCHANGED <<ord, used, mishap, vcancel>>
  PROVE  OInv'
<1>0. PICK q \in Roots : q = task[t].root
  BY PlacingKnown DEF OInv, Placing
<1> DEFINE s == [task[t] EXCEPT !.pc = "posting", !.chunk = c]
           row == [st |-> "sent", filled |-> 0, size |-> ord[q].size \div task[t].n]
<1>1. /\ q = task[t].root /\ q \in used /\ task[t] \in TaskRec /\ CallSound(task[t]) /\ InTurn(task[t])
      /\ ord[q] \in OrderRec /\ Sound(ord[q]) /\ task[t].pc \in Placing
  BY <1>0, PlacingKnown, Known, VenueTyped DEF OInv, VInv, Placing
<1>2. venue' = [venue EXCEPT ![<<q, c>>] = row] /\ task' = [task EXCEPT ![t] = s]
  BY <1>0 DEF Send, SetTask
<1>3. /\ s.pc = "posting" /\ s.root = q /\ s.chunk = c
      /\ s.op = task[t].op /\ s.n = task[t].n /\ s.got = task[t].got
  BY <1>1 DEF TaskRec
<1>4. row.st = "sent" /\ row.filled = 0 /\ row.size = ord[q].size \div task[t].n
  OBVIOUS
<1> HIDE DEF s, row
<1>5. /\ task'[t] = s /\ venue'[<<q, c>>] = row
      /\ \A u \in Tasks : u # t => task'[u] = task[u]
      /\ \A d \in Chunks : d # c => venue'[<<q, d>>] = venue[<<q, d>>]
  BY <1>1, <1>2, VenueTyped DEF OInv, Rows
<1>6. Touches(q, t)
  <2>1. \A r \in Roots : r # q => \A d \in Chunks : venue'[<<r, d>>] = venue[<<r, d>>]
    BY <1>1, <1>2, VenueTyped DEF OInv, Rows
  <2>2. \A r \in Roots : r # q => ~On(s, r) /\ ~On(task[t], r)
    BY <1>1, <1>3 DEF On
  <2> QED
    BY <1>2, <2>1, <2>2 DEF Touches
<1>7. ASSUME q \notin mishap, ord[q].kind = "entry" PROVE Whole(q)'
  <2>1. Whole(q) /\ On(task[t], q)
    BY <1>1, <1>7 DEF OInv, Fine, On, Placing
  <2>2. PlacingWell(q, task[t])
    BY <1>1, <2>1 DEF Whole
  <2>3. ord[q].size \in Sizes /\ task[t].n = NChunks(ord[q].size) /\ ord[q].eids = {} /\ ord[q].status = "placed"
        /\ task[t].op = "place"
    BY <1>1, <1>7, <2>2 DEF Sound, PlacingWell
  <2>4. row.size = Part(ord[q]) /\ row.size \in Nat /\ c <= NChunks(ord[q].size)
    <3>1. NChunks(ord[q].size) \in 1..MaxChunks /\ Part(ord[q]) \in Nat
      BY <2>3, PartsAdd DEF Part
    <3>2. task[t].pc = "preflight" => c = 1
      BY <1>1 DEF InTurn, Placing
    <3>3. task[t].pc = "pause" => task[t].chunk < task[t].n /\ task[t].chunk \in Nat
      BY <1>1, Constants DEF CallSound, Chunks
    <3> QED
      BY <1>4, <2>3, <3>1, <3>2, <3>3, Constants DEF Part
  <2>5. RowsFit(q)'
    <3>1. ASSUME NEW d \in Chunks PROVE RowFits(ord[q], venue'[<<q, d>>], d)
      <4>1. CASE d = c
        BY <1>4, <1>5, <2>4, <4>1 DEF RowFits
      <4>2. CASE d # c
        BY <1>5, <2>1, <4>2 DEF Whole, RowsFit
      <4> QED
        BY <4>1, <4>2
    <3> QED
      BY <3>1 DEF RowsFit, RowFits, Part
  <2>6. HeldOrDead(q)' /\ Ends(q)'
    BY <2>3 DEF HeldOrDead, Ends
  <2>7. \A u \in Tasks : u # t => (On(task[u], q)' =>
           CallWell(q, task[u])' /\ ((task[u].pc \in Placing)' => PlacingWell(q, task[u])'))
    <3>1. \A u \in Tasks : u # t => task'[u] = task[u] /\ ~(On(task[u], q) /\ task[u].pc \in Placing)
      BY <1>1, <1>5, OnePlaces DEF OInv
    <3>2. \A d \in ord[q].eids : FALSE
      BY <2>3
    <3> QED
      BY <1>1, <2>1, <2>6, <3>1, <3>2, OthersKept
  <2>8. Answers(task[t])' = {d \in Chunks : d < c}
    BY <1>3, <1>5 DEF Answers
  <2>9. \A d \in Chunks : d < c => d \in Answers(task[t])
    <3>1. task[t].pc = "preflight" => c = 1
      BY <1>1 DEF InTurn, Placing
    <3> QED
      BY <1>1, <3>1 DEF Answers, Chunks, TaskRec
  <2>10. Answers(task[t]) \subseteq {d \in Chunks : d < c}
    BY <1>1, Constants DEF Answers, CallSound, TaskRec, Chunks
  <2>11. CallWell(q, task[t])'
    BY <1>3, <1>5 DEF CallWell
  <2>12. PlacingWell(q, task[t])'
    <3>1. \A d \in Chunks : d # c => St(q, d)' = St(q, d)
      BY <1>5 DEF St
    <3>2. St(q, c)' = "sent"
      BY <1>4, <1>5 DEF St
    <3>3. \A d \in Answers(task[t])' : d \in Answers(task[t]) /\ d # c
      BY <2>8, <2>9 DEF Chunks
    <3>4. \A d \in Answers(task[t])' : St(q, d)' # "sent" /\ (d \in s.got \/ Dead(q, d)')
      BY <1>3, <2>2, <2>8, <3>1, <3>3 DEF PlacingWell, Dead
    <3>5. s.got \subseteq Answers(task[t])' /\ \A d \in s.got : St(q, d)' \notin {"none", "sent"}
      BY <1>3, <2>2, <2>8, <2>10, <3>1, <3>3 DEF PlacingWell
    <3>6. \A d \in Chunks : <<q, d>> \notin vcancel' /\ St(q, d)' # "cancelled"
      BY <2>2, <3>1, <3>2 DEF PlacingWell
    <3> QED
      BY <1>3, <1>5, <2>3, <3>2, <3>4, <3>5, <3>6 DEF PlacingWell
  <2>13. InPlacement(q)'
    BY <1>3, <1>5 DEF InPlacement, On, Placing
  <2> QED
    BY <2>5, <2>6, <2>7, <2>11, <2>12, <2>13 DEF Whole
<1>8. Fine(q)'
  BY <1>1, <1>7 DEF Fine, OInv
<1> QED
  BY <1>1, <1>6, <1>8, TouchesOne

\* The steps between the messages of a placement: what was answered is in the call's
\* hands, and at the end in the order's.
LEMMA PlacingOrphan ==
  ASSUME OInv, VInv', NEW t \in Tasks,
         \/ PreflightOk(t) \/ PreflightFail(t) \/ NextChunk(t) \/ PostFail(t)
         \/ \E named \in BOOLEAN : PostReplyMore(t, named) \/ PostReplyLast(t, named)
  PROVE  OInv'
<1>1. task[t].pc \in Placing
  BY DEF PreflightOk, PreflightFail, NextChunk, PostFail, PostReplyMore, PostReplyLast, Answered, At, Placing
<1>2. PICK q \in Roots : q = task[t].root
  BY <1>1, PlacingKnown DEF OInv
<1>3. /\ Live /\ q \in used /\ task[t] \in TaskRec /\ CallSound(task[t]) /\ InTurn(task[t])
      /\ ord[q] \in OrderRec /\ On(task[t], q)
      /\ task[t].n \in 1..MaxChunks /\ task[t].chunk \in 0..MaxChunks
  BY <1>1, <1>2, PlacingKnown, VenueTyped DEF OInv, VInv, On, Placing
<1>4. ord \in [Roots -> OrderRec] /\ task \in [Tasks -> TaskRec] /\ MaxChunks \in Nat \ {0}
  BY VenueTyped DEF OInv
<1>5. \A u \in Tasks : u # t => task[u].pc \notin Placing
  BY <1>1, OnePlaces DEF OInv
<1>6. CASE PreflightOk(t) \/ NextChunk(t)
  <2>1. task[t].pc = "preflight" => task[t].chunk + 1 = 1
    BY <1>3 DEF InTurn, Placing
  <2>2. task[t].chunk + 1 \in Chunks
    BY <1>3, <1>4, <1>6, <2>1 DEF PreflightOk, NextChunk, At, CallSound, Chunks
  <2>3. PICK c \in Chunks : Send(t, c) /\ c = task[t].chunk + 1
    BY <1>6, <2>1, <2>2 DEF PreflightOk, NextChunk, At
  <2>4. task[t].pc \in {"preflight", "pause"} /\ UNCHANGED <<ord, used, mishap, vcancel>>
    BY <1>6 DEF PreflightOk, NextChunk, At, Send, memory
  <2> QED
    BY <1>3, <2>3, <2>4, SendOrphan
<1>7. ASSUME NEW n, SetOrder(q, n), Return(t), UNCHANGED <<used, venue, vcancel>>, mishap \subseteq mishap',
             n.kind = ord[q].kind, n.size = ord[q].size, Fine(q)'
      PROVE  OInv'
  <2>1. PICK s : task' = [task EXCEPT ![t] = s] /\ s.pc \in {"idle", "run"}
    BY <1>7, NotOn DEF OInv
  <2>2. \A r \in Roots : r # q => ~On(s, r) /\ ~On(task[t], r)
    BY <1>3, <2>1 DEF On
  <2>3. Touches(q, t)
    BY <1>7, <2>1, <2>2 DEF Touches, SetOrder
  <2> QED
    BY <1>7, <2>3, TouchesOne
<1>8. ASSUME NEW n, SetOrder(q, n), Return(t), UNCHANGED <<used, venue, vcancel>>, mishap' = mishap,
             n.kind = ord[q].kind, n.size = ord[q].size, n.eids \in SUBSET Chunks,
             q \notin mishap, ord[q].kind = "entry",
             n.status \in {"placed", "cancelled"}, n.status = "cancelled" => n.eids = {},
             \A c \in Chunks : St(q, c) # "sent" /\ (St(q, c) = "live" => c \in n.eids),
             \A c \in n.eids : St(q, c) # "none"
      PROVE  Whole(q)'
  <2>1. Whole(q) /\ PlacingWell(q, task[t])
    BY <1>1, <1>3, <1>8 DEF OInv, Fine, Whole
  <2>2. ord'[q] = n /\ \A c \in Chunks : St(q, c)' = St(q, c)
    BY <1>4, <1>8 DEF SetOrder, St
  <2>3. task'[t].pc \notin Placing /\ ~On(task'[t], q) /\ \A u \in Tasks : u # t => task'[u] = task[u]
    <3>1. task'[t].pc \in {"idle", "run"}
      BY <1>4, <1>8, NotOn DEF OInv
    <3> QED
      BY <1>4, <1>8, <3>1 DEF Return, SetTask, On, Placing
  <2>4. RowsFit(q)'
    BY <1>8, <2>1, <2>2 DEF Whole, RowsFit, RowFits, Part
  <2>5. \A c \in Chunks : <<q, c>> \notin vcancel /\ St(q, c) # "cancelled"
    BY <2>1 DEF PlacingWell
  <2>6. Ends(q)'
    BY <1>8, <2>2, <2>5 DEF Ends
  <2>7. ~InPlacement(q)' /\ PlacedWell(q)'
    <3>1. ~InPlacement(q)'
      BY <1>5, <2>3 DEF InPlacement
    <3>2. ord'[q].status = "cancelled" => HeldOrDead(q)'
      BY <1>8, <2>2 DEF HeldOrDead
    <3> QED
      BY <1>8, <2>2, <3>1, <3>2 DEF PlacedWell
  <2>8. ASSUME NEW u \in Tasks, On(task[u], q)'
        PROVE  CallWell(q, task[u])' /\ (task[u].pc \in Placing)' = FALSE
    <3>1. u # t /\ task'[u] = task[u] /\ On(task[u], q) /\ task[u].pc \notin Placing \cup {"fetching"}
      BY <1>1, <2>3, <2>8, OnePlaces DEF On, OInv
    <3>2. CallWell(q, task[u]) /\ ord[q].eids = {}
      BY <2>1, <3>1 DEF Whole, PlacingWell
    <3>3. task[u].pc # "cancelling"
      BY <3>2 DEF CallWell
    <3> QED
      BY <3>1, <3>3 DEF CallWell
  <2> QED
    BY <2>4, <2>6, <2>7, <2>8 DEF Whole
<1>9. CASE PostFail(t)
  <2>1. /\ SetOrder(q, [ord[q] EXCEPT !.status = "cancelled"]) /\ Return(t)
        /\ UNCHANGED <<used, venue, vcancel>> /\ mishap' = mishap \cup {q}
    BY <1>2, <1>9 DEF PostFail, outside
  <2>2. LET n == [ord[q] EXCEPT !.status = "cancelled"] IN n.kind = ord[q].kind /\ n.size = ord[q].size
    BY <1>3 DEF OrderRec
  <2>3. Fine(q)'
    BY <1>3, <2>1 DEF Fine
  <2> QED
    BY <1>7, <2>1, <2>2, <2>3
<1>10. CASE PreflightFail(t)
  <2> DEFINE n == [ord[q] EXCEPT !.status = "cancelled"]
  <2>1. SetOrder(q, n) /\ Return(t) /\ UNCHANGED <<used, venue, vcancel, mishap>>
    BY <1>2, <1>10 DEF PreflightFail, outside
  <2>2. n.kind = ord[q].kind /\ n.size = ord[q].size /\ n.status = "cancelled" /\ n.eids = ord[q].eids
    BY <1>3 DEF OrderRec
  <2> HIDE DEF n
  <2>3. \A c \in Chunks : St(q, c) = "none"
    BY <1>1, <1>2, <1>3, <1>10 DEF InTurn, PreflightFail, At, Chunks, St, NoVenueOrder
  <2>4. ASSUME q \notin mishap, ord[q].kind = "entry" PROVE Whole(q)'
    <3>1. n.eids = {}
      BY <1>1, <1>3, <2>2, <2>4 DEF OInv, Fine, Whole, PlacingWell
    <3> QED
      BY <1>8, <2>1, <2>2, <2>3, <2>4, <3>1
  <2>5. ord'[q] = n /\ ord[q].kind # "none"
    BY <1>1, <1>2, <1>4, <2>1, Known DEF SetOrder, OInv, VInv, Placing
  <2>6. Fine(q)'
    BY <1>3, <2>1, <2>2, <2>4, <2>5 DEF Fine
  <2> QED
    BY <1>7, <2>1, <2>2, <2>6
<1>11. ASSUME NEW named \in BOOLEAN, Answered(t, named)
       PROVE  /\ task[t].pc = "posting" /\ task[t].chunk \in Chunks
              /\ St(q, task[t].chunk) # "sent"
              /\ mishap \subseteq mishap'
              /\ q \notin mishap' => /\ mishap' = mishap
                                     /\ named \/ Dead(q, task[t].chunk)
              /\ named => St(q, task[t].chunk) # "rejected"
              /\ GotIds(t, named) = task[t].got \cup (IF named THEN {task[t].chunk} ELSE {})
  BY <1>2, <1>3, <1>11 DEF Answered, At, St, Dead, GotIds, CallSound
<1>12. ASSUME NEW named \in BOOLEAN, Answered(t, named), q \notin mishap', ord[q].kind = "entry"
       PROVE  /\ PlacingWell(q, task[t])
              /\ \A c \in Chunks : c <= task[t].chunk =>
                   St(q, c) # "sent" /\ (c \in GotIds(t, named) \/ Dead(q, c))
              /\ \A c \in GotIds(t, named) : c \in Chunks /\ c <= task[t].chunk /\ St(q, c) \notin {"none", "sent"}
  <2>1. PlacingWell(q, task[t]) /\ task[t].pc = "posting"
    BY <1>1, <1>3, <1>11, <1>12 DEF OInv, Fine, Whole
  <2>2. Answers(task[t]) = {c \in Chunks : c < task[t].chunk}
    BY <2>1 DEF Answers
  <2>3. ASSUME NEW c \in Chunks, c <= task[t].chunk
        PROVE  St(q, c) # "sent" /\ (c \in GotIds(t, named) \/ Dead(q, c))
    <3>1. CASE c = task[t].chunk
      BY <1>11, <1>12, <3>1
    <3>2. CASE c # task[t].chunk
      <4>1. c \in Answers(task[t])
        BY <1>3, <2>2, <2>3, <3>2 DEF Chunks
      <4> QED
        BY <1>11, <1>12, <2>1, <4>1 DEF PlacingWell
    <3> QED
      BY <3>1, <3>2
  <2>4. ASSUME NEW c \in GotIds(t, named)
        PROVE  c \in Chunks /\ c <= task[t].chunk /\ St(q, c) \notin {"none", "sent"}
    <3>1. CASE c = task[t].chunk
      BY <1>11, <1>12, <2>1, <3>1 DEF PlacingWell, Chunks
    <3>2. CASE c # task[t].chunk
      <4>1. c \in task[t].got
        BY <1>11, <1>12, <3>2
      <4> QED
        BY <1>3, <2>1, <2>2, <4>1 DEF PlacingWell, Chunks
    <3> QED
      BY <3>1, <3>2
  <2> QED
    BY <2>1, <2>3, <2>4
<1>13. ASSUME NEW named \in BOOLEAN, PostReplyLast(t, named) PROVE OInv'
  <2> DEFINE n == WithIds(ord[q], GotIds(t, named))
  <2>1. /\ SetOrder(q, n) /\ Return(t) /\ UNCHANGED <<used, venue, vcancel>>
        /\ Answered(t, named) /\ task[t].chunk = task[t].n
    BY <1>2, <1>13 DEF PostReplyLast, outside
  <2>2. n.kind = ord[q].kind /\ n.size = ord[q].size /\ n.status = ord[q].status /\ n.eids = GotIds(t, named)
    BY <1>3 DEF WithIds, OrderRec
  <2> HIDE DEF n
  <2>3. ord'[q] = n /\ ord[q].kind # "none"
    BY <1>1, <1>2, <1>4, <2>1, Known DEF SetOrder, OInv, VInv, Placing
  <2>4. ASSUME q \notin mishap', ord[q].kind = "entry" PROVE Whole(q)'
    <3>1. PlacingWell(q, task[t]) /\ mishap' = mishap /\ q \notin mishap
      BY <1>11, <1>12, <2>1, <2>4
    <3>2. \A c \in Chunks : c > task[t].chunk => St(q, c) = "none"
      BY <1>1, <1>2, <1>3 DEF InTurn, St, NoVenueOrder
    <3>3. \A c \in Chunks : St(q, c) # "sent" /\ (St(q, c) = "live" => c \in n.eids)
      <4> SUFFICES ASSUME NEW c \in Chunks PROVE St(q, c) # "sent" /\ (St(q, c) = "live" => c \in n.eids)
        OBVIOUS
      <4>1. CASE c <= task[t].chunk
        BY <1>12, <2>1, <2>2, <2>4, <4>1 DEF Dead
      <4>2. CASE ~(c <= task[t].chunk)
        <5>1. c > task[t].chunk
          BY <1>3, <4>2 DEF Chunks
        <5> QED
          BY <3>2, <5>1
      <4> QED
        BY <4>1, <4>2
    <3>4. n.eids \in SUBSET Chunks /\ \A c \in n.eids : St(q, c) # "none"
      BY <1>12, <2>1, <2>2, <2>4
    <3>5. n.status = "placed"
      BY <2>2, <3>1 DEF PlacingWell
    <3> QED
      BY <1>8, <2>1, <2>2, <2>4, <3>1, <3>3, <3>4, <3>5
  <2>5. Fine(q)'
    BY <1>3, <2>1, <2>2, <2>3, <2>4 DEF Fine
  <2> QED
    BY <1>7, <1>11, <2>1, <2>2, <2>5
<1>14. ASSUME NEW named \in BOOLEAN, PostReplyMore(t, named) PROVE OInv'
  <2> DEFINE s == [task[t] EXCEPT !.pc = "pause", !.got = GotIds(t, named)]
  <2>1. /\ task' = [task EXCEPT ![t] = s] /\ UNCHANGED <<ord, used, venue, vcancel>>
        /\ Answered(t, named)
    BY <1>14 DEF PostReplyMore, SetTask, memory, outside
  <2>2. /\ s.pc = "pause" /\ s.root = q /\ s.chunk = task[t].chunk /\ s.got = GotIds(t, named)
        /\ s.op = task[t].op /\ s.n = task[t].n
    BY <1>2, <1>3 DEF TaskRec
  <2> HIDE DEF s
  <2>3. task'[t] = s /\ \A u \in Tasks : u # t => task'[u] = task[u]
    BY <1>4, <2>1
  <2>4. Touches(q, t)
    <3>1. \A r \in Roots : r # q => ~On(s, r) /\ ~On(task[t], r)
      BY <1>3, <2>2 DEF On
    <3> QED
      BY <1>11, <2>1, <3>1 DEF Touches
  <2>5. ASSUME q \notin mishap', ord[q].kind = "entry" PROVE Whole(q)'
    <3>1. /\ PlacingWell(q, task[t]) /\ mishap' = mishap /\ Whole(q)
          /\ ord[q].eids = {}
      BY <1>3, <1>11, <1>12, <2>1, <2>5 DEF OInv, Fine, PlacingWell
    <3>2. \A c \in Chunks : St(q, c)' = St(q, c)
      BY <2>1 DEF St
    <3>3. RowsFit(q)'
      BY <2>1, <3>1 DEF Whole, RowsFit, RowFits, Part
    <3>4. HeldOrDead(q)' /\ Ends(q)'
      BY <2>1, <3>1 DEF HeldOrDead, Ends, Whole
    <3>5. \A u \in Tasks : u # t => (On(task[u], q)' =>
             CallWell(q, task[u])' /\ ((task[u].pc \in Placing)' => PlacingWell(q, task[u])'))
      <4>1. \A u \in Tasks : u # t => task'[u] = task[u] /\ ~(On(task[u], q) /\ task[u].pc \in Placing)
        BY <1>5, <2>3
      <4>2. \A d \in ord[q].eids : FALSE
        BY <3>1
      <4> QED
        BY <2>1, <3>1, <3>4, <4>1, <4>2, OthersKept
    <3>6. CallWell(q, task[t])'
      BY <2>2, <2>3 DEF CallWell
    <3>7. PlacingWell(q, task[t])'
      <4>1. Answers(task[t])' = {c \in Chunks : c <= task[t].chunk}
        BY <1>3, <2>2, <2>3 DEF Answers, Chunks
      <4>2. \A c \in Answers(task[t])' : St(q, c)' # "sent" /\ (c \in s.got \/ Dead(q, c)')
        BY <1>12, <2>1, <2>2, <2>5, <3>2, <4>1 DEF Dead
      <4>3. s.got \subseteq Answers(task[t])' /\ \A c \in s.got : St(q, c)' \notin {"none", "sent"}
        BY <1>12, <2>1, <2>2, <2>5, <3>2, <4>1
      <4> QED
        BY <2>1, <2>2, <2>3, <3>1, <3>2, <4>2, <4>3 DEF PlacingWell
    <3>8. InPlacement(q)'
      BY <2>2, <2>3 DEF InPlacement, On, Placing
    <3> QED
      BY <3>3, <3>4, <3>5, <3>6, <3>7, <3>8 DEF Whole
  <2>6. ord[q].kind # "none"
    BY <1>1, <1>2, Known DEF OInv, VInv, Placing
  <2>7. Fine(q)'
    BY <1>3, <2>1, <2>5, <2>6 DEF Fine
  <2> QED
    BY <2>4, <2>7, TouchesOne
<1> QED
  BY <1>6, <1>9, <1>10, <1>13, <1>14

-----------------------------------------------------------------------------
(* Cancelling.                                                             *)

\* A cancel request leaves: every chunk of the entry is over or before the call.
LEMMA SendCancelOrphan ==
  ASSUME OInv, VInv', Live, NEW t \in Tasks, NEW q \in Roots, NEW ids \in SUBSET Chunks,
         SendCancel(t, q, ids), q \in used, task[t].pc = "run" \/ On(task[t], q),
         task[t].pc \notin Placing,
         ids \subseteq ord[q].eids, \A c \in ord[q].eids : c \in ids \/ Dead(q, c)
  PROVE  OInv'
<1>1. PICK c \in Chunks :
        /\ First(ids, c) /\ vcancel' = vcancel \cup {<<q, c>>}
        /\ SetTask(t, [task[t] EXCEPT !.pc = "cancelling", !.root = q, !.chunk = c, !.left = ids \ {c}])
        /\ UNCHANGED <<ord, used, venue, mishap>>
  BY DEF SendCancel, memory
<1> DEFINE s == [task[t] EXCEPT !.pc = "cancelling", !.root = q, !.chunk = c, !.left = ids \ {c}]
<1>2. /\ ord \in [Roots -> OrderRec] /\ task \in [Tasks -> TaskRec] /\ task[t] \in TaskRec /\ ord[q] \in OrderRec
  BY VenueTyped DEF OInv
<1>3. s.pc = "cancelling" /\ s.root = q /\ s.chunk = c /\ s.left = ids \ {c}
  BY <1>2 DEF TaskRec
<1>4. task' = [task EXCEPT ![t] = s]
  BY <1>1 DEF SetTask
<1> HIDE DEF s
<1>5. task'[t] = s /\ (\A u \in Tasks : u # t => task'[u] = task[u]) /\ c \in ids /\ s.left \cup {s.chunk} = ids
  BY <1>1, <1>2, <1>3, <1>4 DEF First
<1>6. Touches(q, t)
  <2>1. \A r \in Roots : r # q => ~On(s, r) /\ ~On(task[t], r)
    BY <1>3 DEF On
  <2> QED
    BY <1>1, <1>4, <2>1 DEF Touches
<1>7. ASSUME q \notin mishap, ord[q].kind = "entry" PROVE Whole(q)'
  <2>1. Whole(q) /\ c \in ord[q].eids
    BY <1>5, <1>7 DEF OInv, Fine
  <2>2. ~InPlacement(q) /\ PlacedWell(q)
    BY <2>1 DEF Whole, InPlacement, PlacingWell
  <2>3. \A d \in Chunks : St(q, d)' = St(q, d) /\ Dead(q, d)' = Dead(q, d)
    BY <1>1 DEF St, Dead
  <2>4. ord[q].eids \in SUBSET Chunks
    BY <1>2 DEF OrderRec
  <2>5. HeldOrDead(q)'
    <3>1. \A d \in ids : Held(q, d)'
      BY <1>3, <1>5 DEF Held, On
    <3> QED
      BY <1>1, <2>3, <2>4, <3>1 DEF HeldOrDead
  <2>6. RowsFit(q)' /\ Ends(q)'
    BY <1>1, <2>1, <2>5 DEF Whole, RowsFit, RowFits, Part, Ends
  <2>7. PlacedWell(q)'
    BY <1>1, <2>2, <2>3, <2>4, <2>5 DEF PlacedWell
  <2>8. \A u \in Tasks : u # t => (On(task[u], q)' =>
           CallWell(q, task[u])' /\ ((task[u].pc \in Placing)' => PlacingWell(q, task[u])'))
    <3>1. \A u \in Tasks : u # t => task'[u] = task[u] /\ ~(On(task[u], q) /\ task[u].pc \in Placing)
      BY <1>5, <2>2 DEF InPlacement
    <3>2. /\ \A d \in ord[q].eids : Dead(q, d) => Dead(q, d)'
          /\ \A d \in ord[q].eids : <<q, d>> \in vcancel => <<q, d>> \in vcancel' \/ Dead(q, d)'
      BY <1>1, <2>3, <2>4
    <3> QED
      BY <1>1, <2>1, <2>5, <3>1, <3>2, OthersKept
  <2>9. CallWell(q, task[t])'
    <3>1. \A d \in ord'[q].eids : d \in ids \/ Dead(q, d)'
      BY <1>1, <2>3, <2>4
    <3> QED
      BY <1>1, <1>3, <1>5, <3>1 DEF CallWell
  <2>10. (task[t].pc \in Placing)' = FALSE
    BY <1>3, <1>5 DEF Placing
  <2> QED
    BY <2>6, <2>7, <2>8, <2>9, <2>10 DEF Whole
<1>8. ord[q].kind # "none" \/ q \in mishap
  BY DEF OInv, Fine
<1>9. Fine(q)'
  BY <1>1, <1>7, <1>8 DEF Fine
<1> QED
  BY <1>6, <1>9, TouchesOne

\* The next step of a call under way: cancelling.
LEMMA CancellingOrphan ==
  ASSUME OInv, VInv', NEW t \in Tasks,
         \/ ScanSkip(t) \/ ScanExpire(t) \/ ScanCancelLocal(t) \/ ScanCancelNoIds(t)
         \/ ScanCancelLive(t) \/ CancelReplyMore(t) \/ CancelReplyLast(t) \/ CancelFail(t) \/ ScanDone(t)
  PROVE  OInv'
<1> DEFINE id == Visited(t)
<1>0. CASE ~Live
  BY <1>0 DEF OInv
<1> SUFFICES ASSUME Live PROVE OInv'
  BY <1>0
<1>1. /\ ord \in [Roots -> OrderRec] /\ task \in [Tasks -> TaskRec] /\ task[t] \in TaskRec /\ VInv
      /\ CallSound(task[t]) /\ KnownCall(task[t]) /\ \A r \in Roots : r \notin used => ord[r] = NoOrder
  BY VenueTyped, Known DEF OInv, VInv
<1>2. ASSUME Scanning(t)
      PROVE  /\ task[t].pc = "run" /\ id[1] \in Roots /\ id[2] \in Slots /\ ord[id[1]] \in OrderRec
             /\ id[2] # "root" => id[2] \in Legs
  BY <1>1, <1>2, HeadKnown DEF Scanning, VInv, Slots
<1>3. ASSUME NEW r \in Roots, NEW n, SetOrder(r, n), Continue(t), task[t].pc = "run",
             UNCHANGED <<used, venue, vcancel>>, mishap \subseteq mishap', Fine(r)'
      PROVE  OInv'
  <2>1. PICK s : task' = [task EXCEPT ![t] = s] /\ s.pc \in {"idle", "run"}
    BY <1>1, <1>3, NotOn
  <2>2. Touches(r, t)
    BY <1>3, <2>1 DEF Touches, On, SetOrder
  <2> QED
    BY <1>3, <2>2, TouchesOne
<1>4. ASSUME NEW r \in Roots, NEW n, SetOrder(r, n), Continue(t), task[t].pc = "run",
             UNCHANGED <<used, venue, vcancel, mishap>>,
             n.kind = ord[r].kind, n.size = ord[r].size, n.status = ord[r].status, n.eids = ord[r].eids
      PROVE  OInv'
  BY <1>1, <1>4, LoopStep DEF SetOrder
<1>5. CASE ScanSkip(t) \/ ScanDone(t)
  <2>1. /\ Continue(t) \/ Return(t)
        /\ UNCHANGED <<ord, used, venue, vcancel, mishap>> /\ task[t].pc = "run"
    BY <1>2, <1>5 DEF ScanSkip, ScanDone, At, memory, outside
  <2> QED
    BY <2>1, LoopStep
<1>6. CASE ScanExpire(t)
  <2> DEFINE n == ExpireLegOnly(ord[id[1]], id[2])
  <2>1. SetOrder(id[1], n) /\ Continue(t) /\ Scanning(t) /\ UNCHANGED <<used, venue, vcancel, mishap>>
    BY <1>6 DEF ScanExpire, outside
  <2>2. /\ n.kind = ord[id[1]].kind /\ n.size = ord[id[1]].size
        /\ n.status = ord[id[1]].status /\ n.eids = ord[id[1]].eids
    BY <1>2, <2>1 DEF ExpireLegOnly, OrderRec
  <2> QED
    BY <1>2, <1>4, <2>1, <2>2
<1>7. CASE ScanCancelLocal(t)
  <2>1. /\ Scanning(t) /\ Continue(t) /\ UNCHANGED <<used, venue, vcancel, mishap>>
        /\ id[2] # "root" \/ ord[id[1]].kind # "entry"
        /\ ToCancel(t, id)
        /\ SetOrder(id[1], IF id[2] = "root" THEN CancelLocal(ord[id[1]]) ELSE CancelLeg(ord[id[1]], id[2]))
    BY <1>7 DEF ScanCancelLocal, outside
  <2>2. CASE id[2] # "root"
    <3> DEFINE n == CancelLeg(ord[id[1]], id[2])
    <3>1. /\ n.kind = ord[id[1]].kind /\ n.size = ord[id[1]].size
          /\ n.status = ord[id[1]].status /\ n.eids = ord[id[1]].eids
      BY <1>2, <2>1 DEF CancelLeg, OrderRec
    <3>2. SetOrder(id[1], n)
      BY <2>1, <2>2
    <3> QED
      BY <1>2, <1>4, <2>1, <3>1, <3>2
  <2>3. CASE id[2] = "root"
    <3> DEFINE n == CancelLocal(ord[id[1]])
    <3>1. PICK r \in Roots : r = id[1]
      BY <1>2, <2>1
    <3>2. n.kind = ord[r].kind /\ SetOrder(r, n)
      BY <1>2, <2>1, <2>3, <3>1 DEF CancelLocal, OrderRec
    <3>3. ord'[r].kind = ord[r].kind /\ ord[r].kind # "entry"
      BY <1>1, <2>1, <2>3, <3>1, <3>2 DEF SetOrder
    <3>4. Fine(r)'
      BY <2>1, <3>3 DEF OInv, Fine
    <3> QED
      BY <1>2, <1>3, <2>1, <3>2, <3>4
  <2> QED
    BY <2>2, <2>3
<1>8. CASE ScanCancelNoIds(t)
  <2>1. PICK r \in Roots :
          /\ LiveEntryToCancel(t, r) /\ SetOrder(r, CancelLive(ord[r]))
          /\ mishap' = mishap \cup {r} /\ Continue(t) /\ UNCHANGED <<used, venue, vcancel>>
    BY <1>8 DEF ScanCancelNoIds, outside
  <2>2. Fine(r)' /\ task[t].pc = "run"
    BY <1>2, <2>1 DEF Fine, OInv, LiveEntryToCancel
  <2> QED
    BY <1>3, <2>1, <2>2
<1>9. CASE ScanCancelLive(t)
  <2>1. PICK r \in Roots : LiveEntryToCancel(t, r) /\ SendCancel(t, r, ord[r].eids)
    BY <1>9 DEF ScanCancelLive
  <2>2. task[t].pc = "run" /\ ord[r].kind = "entry" /\ ord[r].eids \in SUBSET Chunks
    BY <1>1, <1>2, <2>1 DEF LiveEntryToCancel, OrderRec
  <2>3. r \in used
    BY <1>1, <2>2 DEF NoOrder
  <2> QED
    BY <2>1, <2>2, <2>3, SendCancelOrphan DEF Placing
<1>10. ASSUME CancelReply(t), CancelReplyMore(t) \/ CancelReplyLast(t) PROVE OInv'
  <2>1. PICK q \in Roots : q = task[t].root
    BY <1>1, <1>10 DEF CancelReply, At, CallSound
  <2>2. /\ task[t].pc = "cancelling" /\ <<q, task[t].chunk>> \notin vcancel /\ On(task[t], q)
        /\ q \in used /\ ord[q].kind = "entry" /\ task[t].left \in SUBSET Chunks /\ task[t].chunk \in Chunks
        /\ ord[q] \in OrderRec
    BY <1>1, <1>10, <2>1 DEF CancelReply, At, On, KnownCall, TaskRec, CallSound
  <2>3. ASSUME q \notin mishap
        PROVE  /\ Whole(q) /\ task[t].left \subseteq ord[q].eids /\ task[t].chunk \in ord[q].eids
               /\ \A c \in ord[q].eids : c \in task[t].left \/ Dead(q, c)
    <3>1. Whole(q) /\ CallWell(q, task[t])
      BY <2>2, <2>3 DEF OInv, Fine, Whole
    <3> QED
      BY <2>2, <3>1 DEF CallWell
  <2>4. CASE CancelReplyMore(t)
    <3>1. SendCancel(t, q, task[t].left)
      BY <2>1, <2>4 DEF CancelReplyMore
    <3>2. CASE q \notin mishap
      BY <2>2, <2>3, <3>1, <3>2, SendCancelOrphan DEF Placing
    <3>3. CASE q \in mishap
      <4>1. PICK c \in Chunks :
              /\ vcancel' = vcancel \cup {<<q, c>>}
              /\ SetTask(t, [task[t] EXCEPT !.pc = "cancelling", !.root = q, !.chunk = c,
                                            !.left = task[t].left \ {c}])
              /\ UNCHANGED <<ord, used, venue, mishap>>
        BY <3>1 DEF SendCancel, memory
      <4> DEFINE s == [task[t] EXCEPT !.pc = "cancelling", !.root = q, !.chunk = c, !.left = task[t].left \ {c}]
      <4>2. s.root = q /\ task' = [task EXCEPT ![t] = s]
        BY <1>1, <4>1 DEF TaskRec, SetTask
      <4> HIDE DEF s
      <4>3. \A r \in Roots : r # q => ~On(s, r) /\ ~On(task[t], r)
        BY <2>2, <4>2 DEF On
      <4>4. Touches(q, t)
        BY <4>1, <4>2, <4>3 DEF Touches
      <4>5. Fine(q)'
        BY <2>2, <3>3, <4>1 DEF Fine
      <4> QED
        BY <4>4, <4>5, TouchesOne
    <3> QED
      BY <3>2, <3>3
  <2>5. CASE CancelReplyLast(t)
    <3> DEFINE n == CancelLive(ord[q])
    <3>1. /\ SetOrder(q, n) /\ Continue(t) /\ UNCHANGED <<used, venue, vcancel, mishap>> /\ task[t].left = {}
      BY <2>1, <2>5 DEF CancelReplyLast, outside
    <3>2. n.kind = ord[q].kind /\ n.size = ord[q].size /\ n.status = "cancelled" /\ n.eids = ord[q].eids
      BY <2>2 DEF CancelLive, OrderRec
    <3> HIDE DEF n
    <3>3. PICK s : task' = [task EXCEPT ![t] = s] /\ s.pc \in {"idle", "run"}
      BY <1>1, <3>1, NotOn
    <3>4. task'[t] = s /\ (\A u \in Tasks : u # t => task'[u] = task[u]) /\ ord'[q] = n
      BY <1>1, <3>1, <3>3 DEF SetOrder
    <3>5. Touches(q, t)
      BY <2>2, <3>1, <3>3 DEF Touches, On, SetOrder
    <3>6. ASSUME q \notin mishap PROVE Whole(q)'
      <4>1. \A c \in ord[q].eids : c \in Chunks /\ Dead(q, c)
        BY <2>2, <2>3, <3>1, <3>6 DEF OrderRec
      <4>2. \A c \in Chunks : St(q, c)' = St(q, c) /\ Dead(q, c)' = Dead(q, c)
        BY <3>1 DEF St, Dead
      <4>3. HeldOrDead(q)'
        BY <3>2, <3>4, <4>1, <4>2 DEF HeldOrDead
      <4>4. Whole(q) /\ ~InPlacement(q) /\ PlacedWell(q)
        BY <2>3, <3>6 DEF Whole, InPlacement, PlacingWell
      <4>5. RowsFit(q)' /\ Ends(q)'
        BY <3>1, <3>2, <3>4, <4>3, <4>4 DEF Whole, RowsFit, RowFits, Part, Ends
      <4>6. PlacedWell(q)'
        BY <3>2, <3>4, <4>1, <4>2, <4>3, <4>4 DEF PlacedWell
      <4>7. \A u \in Tasks : u # t => (On(task[u], q)' =>
               CallWell(q, task[u])' /\ ((task[u].pc \in Placing)' => PlacingWell(q, task[u])'))
        <5>1. \A u \in Tasks : u # t => task'[u] = task[u] /\ ~(On(task[u], q) /\ task[u].pc \in Placing)
          BY <3>4, <4>4 DEF InPlacement
        <5>2. /\ ord'[q].eids = ord[q].eids
              /\ \A d \in ord[q].eids : Dead(q, d) => Dead(q, d)'
              /\ \A d \in ord[q].eids : <<q, d>> \in vcancel => <<q, d>> \in vcancel' \/ Dead(q, d)'
          BY <3>1, <3>2, <3>4, <4>1, <4>2
        <5> QED
          BY <4>3, <4>4, <5>1, <5>2, OthersKept
      <4>8. ~On(task[t], q)'
        BY <3>3, <3>4 DEF On
      <4> QED
        BY <4>5, <4>6, <4>7, <4>8 DEF Whole
    <3>7. Fine(q)'
      BY <2>2, <3>1, <3>2, <3>4, <3>6 DEF Fine
    <3> QED
      BY <3>5, <3>7, TouchesOne
  <2> QED
    BY <1>10, <2>4, <2>5
<1>11. CASE CancelFail(t)
  <2>1. PICK q \in Roots : q = task[t].root
    BY <1>1, <1>11 DEF CancelFail, At, CallSound
  <2>2. /\ On(task[t], q) /\ q \in used /\ Continue(t)
        /\ UNCHANGED <<ord, used, venue, vcancel>> /\ mishap' = mishap \cup {q}
    BY <1>1, <1>11, <2>1 DEF CancelFail, At, On, KnownCall, CallSound, memory, outside
  <2>3. PICK s : task' = [task EXCEPT ![t] = s] /\ s.pc \in {"idle", "run"}
    BY <1>1, <2>2, NotOn
  <2>4. \A r \in Roots : r # q => ~On(s, r) /\ ~On(task[t], r)
    BY <2>2, <2>3 DEF On
  <2>5. Touches(q, t)
    BY <2>2, <2>3, <2>4 DEF Touches
  <2>6. Fine(q)'
    BY <2>2 DEF Fine
  <2> QED
    BY <2>5, <2>6, TouchesOne
<1> QED
  BY <1>5, <1>6, <1>7, <1>8, <1>9, <1>10, <1>11 DEF CancelReplyMore, CancelReplyLast
-----------------------------------------------------------------------------
(* Reconciling.                                                            *)

\* What a visit makes of a record: a status the rows report, and the ids it had.
LEMMA VisitKeeps ==
  ASSUME NEW o \in OrderRec, NEW seen, NEW sum \in Nat
  PROVE  LET n == ArmIfMissing(ApplyRows(o, seen, sum)) IN
         /\ n.kind = o.kind /\ n.size = o.size /\ n.eids = o.eids
         /\ \/ n.status \in {o.status, "filled", "partially_filled"}
            \/ n.status \in {"cancelled", "expired"} /\ n.status \in seen
<1> DEFINE f == ApplyFill(o, sum - o.filled)
           e == IF f.status \in {"filled", "partially_filled"} THEN f
                ELSE IF "cancelled" \in seen THEN [f EXCEPT !.status = "cancelled"]
                ELSE IF "expired" \in seen THEN [f EXCEPT !.status = "expired"] ELSE f
           p == ApplyRows(o, seen, sum)
           D == {"kind", "key", "status", "size", "filled", "bracket", "eids", "leg", "legSize", "aged", "due"}
           Is(a) == a = [k \in D |-> a[k]]
           Same(a, b) == b.kind = a.kind /\ b.size = a.size /\ b.eids = a.eids
<1>1. Is(o)
  BY DEF OrderRec
<1>2. Is(f) /\ Same(o, f) /\ f.status \in {o.status, "filled", "partially_filled"}
  BY <1>1 DEF ApplyFill
<1>3. \A a : Is(a) => /\ Is(ArmBracketOrders(a)) /\ Same(a, ArmBracketOrders(a))
                      /\ ArmBracketOrders(a).status = a.status
  <2> SUFFICES ASSUME NEW a, Is(a)
               PROVE  /\ Is(ArmBracketOrders(a)) /\ Same(a, ArmBracketOrders(a))
                      /\ ArmBracketOrders(a).status = a.status
    OBVIOUS
  <2> DEFINE armed == [a EXCEPT !.bracket = "armed"]
             legs == [a EXCEPT !.bracket = "armed", !.leg = [l \in Legs |-> "armed"],
                               !.legSize = [l \in Legs |-> ActiveSize(a)]]
             sizes == [l \in Legs |-> IF armed.leg[l] = "armed" THEN ActiveSize(armed) ELSE armed.legSize[l]]
             both == [armed EXCEPT !.legSize = sizes]
  <2>1. ArmBracketOrders(a) \in {a, both, legs}
    BY DEF ArmBracketOrders, SyncChildSizes
  <2>2. Is(armed) /\ Same(a, armed) /\ armed.status = a.status
    OBVIOUS
  <2>3. Is(legs) /\ Same(a, legs) /\ legs.status = a.status
    OBVIOUS
  <2> HIDE DEF armed, sizes, legs
  <2>4. Is(both) /\ Same(armed, both) /\ both.status = armed.status
    BY <2>2
  <2> HIDE DEF both
  <2> QED
    BY <2>1, <2>2, <2>3, <2>4
<1> HIDE DEF f
<1>4. /\ Is(e) /\ Same(f, e)
      /\ \/ e.status = f.status
         \/ e.status \in {"cancelled", "expired"} /\ e.status \in seen
  BY <1>2
<1>5. p \in {o, e, ArmBracketOrders(e)}
  BY DEF ApplyRows, f
<1> HIDE DEF e, p, Is, Same
<1>6. Is(p) /\ p.kind = o.kind /\ p.size = o.size /\ p.eids = o.eids
      /\ (p.status = e.status \/ p.status = o.status)
  BY <1>1, <1>2, <1>3, <1>4, <1>5 DEF Same
<1>7. ArmIfMissing(p) \in {p, ArmBracketOrders(p)}
  BY DEF ArmIfMissing
<1>8. Same(p, ArmIfMissing(p)) /\ ArmIfMissing(p).status = p.status
  BY <1>3, <1>6, <1>7 DEF Same
<1> QED
  BY <1>2, <1>4, <1>6, <1>8 DEF p, Same
\* What the rows of an entry said is held by the call, or applied to the order: an entry
\* is filled only when no chunk is live, and cancelled only when a chunk of it was.
LEMMA SeenOrphan ==
  ASSUME OInv, VInv', Live, NEW t \in Tasks, NEW q \in Roots, NEW ids \in SUBSET Chunks,
         NEW seen, NEW sum \in Nat, Fetch(t, q, ids, seen, sum) \/ Apply(t, q, seen, sum),
         q \in used, ord[q].kind = "entry", t = Cycle,
         task[t].pc = "run" \/ (task[t].pc = "fetching" /\ task[t].root = q),
         q \notin mishap => ("cancelled" \in seen => HeldOrDead(q)) /\ "expired" \notin seen
  PROVE  OInv'
<1>1. /\ ord \in [Roots -> OrderRec] /\ task \in [Tasks -> TaskRec] /\ task[t] \in TaskRec
      /\ ord[q] \in OrderRec /\ VInv
  BY VenueTyped DEF OInv
<1>2. \A u \in Tasks : task[u].pc \notin Placing
  BY <1>1, PlacingKnown DEF Placing
<1>3. \A r \in Roots : r # q => ~On(task[t], r)
  BY DEF On
<1>4. ASSUME q \notin mishap
      PROVE  /\ Whole(q) /\ ~InPlacement(q) /\ PlacedWell(q)
             /\ "cancelled" \in seen => HeldOrDead(q)
             /\ "expired" \notin seen
  BY <1>2, <1>4 DEF OInv, Fine, Whole, InPlacement
<1>5. CASE Fetch(t, q, ids, seen, sum)
  <2>1. PICK c \in Chunks :
          /\ SetTask(t, [task[t] EXCEPT !.pc = "fetching", !.root = q, !.chunk = c, !.left = ids \ {c},
                                        !.seen = seen, !.sum = sum])
          /\ UNCHANGED <<ord, used, venue, vcancel, mishap>>
    BY <1>5 DEF Fetch, memory, outside
  <2> DEFINE s == [task[t] EXCEPT !.pc = "fetching", !.root = q, !.chunk = c, !.left = ids \ {c},
                                  !.seen = seen, !.sum = sum]
  <2>2. s.pc = "fetching" /\ s.root = q /\ s.seen = seen /\ task' = [task EXCEPT ![t] = s]
    BY <1>1, <2>1 DEF TaskRec, SetTask
  <2> HIDE DEF s
  <2>3. task'[t] = s /\ \A u \in Tasks : u # t => task'[u] = task[u]
    BY <1>1, <2>2
  <2>4. Touches(q, t)
    <3>1. \A r \in Roots : r # q => ~On(s, r)
      BY <2>2 DEF On
    <3> QED
      BY <1>3, <2>1, <2>2, <3>1 DEF Touches
  <2>5. \A d \in Chunks : St(q, d)' = St(q, d) /\ Dead(q, d)' = Dead(q, d)
    BY <2>1 DEF St, Dead
  <2>6. HeldOrDead(q) => HeldOrDead(q)'
    <3>1. \A d \in Chunks : Held(q, d) => Held(q, d)'
      BY <2>3 DEF Held
    <3> QED
      BY <1>1, <2>1, <2>5, <3>1 DEF HeldOrDead, OrderRec
  <2>7. ASSUME q \notin mishap PROVE Whole(q)'
    <3>1. RowsFit(q)' /\ Ends(q)'
      BY <1>4, <2>1, <2>5, <2>6, <2>7 DEF Whole, RowsFit, RowFits, Part, Ends
    <3>2. PlacedWell(q)'
      BY <1>1, <1>4, <2>1, <2>5, <2>6, <2>7 DEF PlacedWell, OrderRec
    <3>3. \A u \in Tasks : u # t => (On(task[u], q)' =>
             CallWell(q, task[u])' /\ ((task[u].pc \in Placing)' => PlacingWell(q, task[u])'))
      <4>1. /\ ord'[q].eids = ord[q].eids
            /\ \A d \in ord[q].eids : Dead(q, d) => Dead(q, d)'
            /\ \A d \in ord[q].eids : <<q, d>> \in vcancel => <<q, d>> \in vcancel' \/ Dead(q, d)'
        BY <1>1, <2>1, <2>5 DEF OrderRec
      <4>2. \A u \in Tasks : u # t => task'[u] = task[u] /\ ~(On(task[u], q) /\ task[u].pc \in Placing)
        BY <1>2, <2>3
      <4> QED
        BY <1>4, <2>6, <2>7, <4>1, <4>2, OthersKept
    <3>4. CallWell(q, task[t])' /\ (task[t].pc \in Placing)' = FALSE
      BY <1>4, <2>2, <2>3, <2>6, <2>7 DEF CallWell, Placing
    <3> QED
      BY <3>1, <3>2, <3>3, <3>4 DEF Whole
  <2>8. Fine(q)'
    BY <2>1, <2>7 DEF Fine
  <2> QED
    BY <2>4, <2>8, TouchesOne
<1>6. CASE Apply(t, q, seen, sum)
  <2> DEFINE n == ArmIfMissing(ApplyRows(ord[q], seen, sum))
  <2>1. /\ SetOrder(q, n) /\ Continue(t) /\ UNCHANGED <<used, venue, vcancel, mishap>>
    BY <1>6 DEF Apply, outside
  <2>2. /\ n.kind = ord[q].kind /\ n.size = ord[q].size /\ n.eids = ord[q].eids
        /\ \/ n.status \in {ord[q].status, "filled", "partially_filled"}
           \/ n.status \in {"cancelled", "expired"} /\ n.status \in seen
    BY <1>1, VisitKeeps
  <2> HIDE DEF n
  <2>3. PICK s : task' = [task EXCEPT ![t] = s] /\ s.pc \in {"idle", "run"}
    BY <1>1, <2>1, NotOn
  <2>4. ord'[q] = n /\ task'[t] = s /\ (\A u \in Tasks : u # t => task'[u] = task[u]) /\ ~On(s, q)
    BY <1>1, <2>1, <2>3 DEF SetOrder, On
  <2>5. Touches(q, t)
    <3>1. \A r \in Roots : r # q => ~On(s, r)
      BY <2>3 DEF On
    <3> QED
      BY <1>3, <2>1, <2>3, <3>1 DEF Touches, SetOrder
  <2>6. \A d \in Chunks : St(q, d)' = St(q, d) /\ Dead(q, d)' = Dead(q, d)
    BY <2>1 DEF St, Dead
  <2>7. ord[q].eids \in SUBSET Chunks
    BY <1>1 DEF OrderRec
  <2>8. HeldOrDead(q) => HeldOrDead(q)'
    <3>1. \A d \in Chunks : Held(q, d) => Held(q, d)'
      BY <2>4 DEF Held
    <3> QED
      BY <2>2, <2>4, <2>6, <2>7, <3>1 DEF HeldOrDead
  <2>9. ASSUME q \notin mishap PROVE Whole(q)'
    <3>1. RowsFit(q)'
      BY <1>4, <2>1, <2>2, <2>4, <2>9 DEF Whole, RowsFit, RowFits, Part
    <3>2. Ends(q)'
      BY <1>4, <2>1, <2>2, <2>4, <2>6, <2>8, <2>9 DEF Whole, Ends
    <3>3. n.status = "filled" => \A d \in Chunks : St(q, d) # "live"
      <4> SUFFICES ASSUME n.status = "filled" PROVE \A d \in Chunks : St(q, d) # "live"
        OBVIOUS
      <4>1. Sound(n) /\ n.filled = n.size /\ n.size \in Sizes
        <5>1. Sound(n)
          BY <2>4 DEF VInv, SInv, RecordsSound
        <5> QED
          BY <2>2, <5>1 DEF Sound, GoodOrder, FillsAgree
      <4>2. n.filled <= UpTo(venue, q)[MaxChunks]
        <5>1. n.filled <= VenueFilled(q)'
          BY <2>4 DEF VInv, FillsAreReal
        <5>2. VenueFilled(q)' = UpTo(venue', q)[MaxChunks]
          BY DEF VenueFilled, UpTo, IsSum
        <5> QED
          BY <2>1, <5>1, <5>2
      <4>3. venue \in Rows /\ ord[q].size \in Sizes /\ ord[q].size <= UpTo(venue, q)[MaxChunks]
        BY <1>1, <2>2, <4>1, <4>2, VenueTyped
      <4>4. \A d \in Chunks : RowFits(ord[q], venue[<<q, d>>], d)
        BY <1>4, <2>9 DEF Whole, RowsFit
      <4> QED
        BY <4>3, <4>4, FullIsOver DEF St
    <3>4. PlacedWell(q)'
      BY <1>4, <2>2, <2>4, <2>6, <2>7, <2>8, <2>9, <3>3 DEF PlacedWell
    <3>5. \A u \in Tasks : u # t => (On(task[u], q)' =>
             CallWell(q, task[u])' /\ ((task[u].pc \in Placing)' => PlacingWell(q, task[u])'))
      <4>1. /\ ord'[q].eids = ord[q].eids
            /\ \A d \in ord[q].eids : Dead(q, d) => Dead(q, d)'
            /\ \A d \in ord[q].eids : <<q, d>> \in vcancel => <<q, d>> \in vcancel' \/ Dead(q, d)'
        BY <2>1, <2>2, <2>4, <2>6, <2>7
      <4>2. \A u \in Tasks : u # t => task'[u] = task[u] /\ ~(On(task[u], q) /\ task[u].pc \in Placing)
        BY <1>2, <2>4
      <4> QED
        BY <1>4, <2>8, <2>9, <4>1, <4>2, OthersKept
    <3>6. On(task[t], q)' = FALSE
      BY <2>4 DEF On
    <3> QED
      BY <3>1, <3>2, <3>4, <3>5, <3>6 DEF Whole
  <2>10. Fine(q)'
    BY <2>1, <2>2, <2>4, <2>9 DEF Fine
  <2> QED
    BY <2>5, <2>10, TouchesOne
<1> QED
  BY <1>5, <1>6
\* The next step of a call under way: reconciling.
LEMMA ReconcilingOrphan ==
  ASSUME OInv, VInv', NEW t \in Tasks,
         \/ VisitSkip(t) \/ FetchReply(t) \/ FetchFail(t) \/ ReconcileDone(t)
         \/ \E r \in Roots : VisitPaperEntry(t, r) \/ VisitLiveEntry(t, r)
         \/ \E r \in Roots, l \in Legs : VisitLegExpired(t, r, l) \/ VisitLegTriggered(t, r, l)
  PROVE  OInv'
<1>1. /\ ord \in [Roots -> OrderRec] /\ task[t] \in TaskRec /\ VInv /\ SInv
      /\ CallSound(task[t]) /\ KnownCall(task[t]) /\ venue \in Rows
      /\ \A r \in Roots : r \notin used => ord[r] = NoOrder
      /\ t = Shutdown => task[t].pc \in {"idle", "run", "cancelling"} /\ task[t].op \in {"none", "cancel_all"}
  BY VenueTyped, Known DEF OInv, VInv
<1>2. CASE VisitSkip(t) \/ ReconcileDone(t)
  <2>1. UNCHANGED <<ord, venue, vcancel, used, mishap>> /\ (Continue(t) \/ Return(t)) /\ task[t].pc = "run"
    BY <1>2 DEF VisitSkip, ReconcileDone, Visiting, At, memory, outside
  <2> QED
    BY <2>1, LoopStep
<1>3. ASSUME NEW r \in Roots, NEW l \in Legs, VisitLegExpired(t, r, l) \/ VisitLegTriggered(t, r, l) PROVE OInv'
  <2>1. PICK n \in {ExpireLeg(ord[r], l), TriggerLeg(ord[r], l)} : ord' = [ord EXCEPT ![r] = n]
    BY <1>3 DEF VisitLegExpired, VisitLegTriggered, SetOrder
  <2>2. n.kind = ord[r].kind /\ n.size = ord[r].size /\ n.status = ord[r].status /\ n.eids = ord[r].eids
    <3>1. ord[r] \in OrderRec
      BY <1>1
    <3>2. ASSUME NEW o \in OrderRec
          PROVE  /\ ExpireLeg(o, l).kind = o.kind /\ ExpireLeg(o, l).size = o.size
                 /\ ExpireLeg(o, l).status = o.status /\ ExpireLeg(o, l).eids = o.eids
      BY DEF ExpireLeg, OrderRec
    <3>3. ASSUME NEW o \in OrderRec
          PROVE  /\ TriggerLeg(o, l).kind = o.kind /\ TriggerLeg(o, l).size = o.size
                 /\ TriggerLeg(o, l).status = o.status /\ TriggerLeg(o, l).eids = o.eids
      BY DEF TriggerLeg, OrderRec
    <3> QED
      BY <2>1, <3>1, <3>2, <3>3
  <2>3. \A x \in Roots : /\ ord'[x].kind = ord[x].kind /\ ord'[x].size = ord[x].size
                         /\ ord'[x].status = ord[x].status /\ ord'[x].eids = ord[x].eids
    BY <1>1, <2>1, <2>2
  <2>4. Continue(t) /\ UNCHANGED <<venue, vcancel, used, mishap>> /\ task[t].pc = "run"
    BY <1>3 DEF VisitLegExpired, VisitLegTriggered, VisitArmedLeg, Visiting, At, outside
  <2> QED
    BY <2>3, <2>4, LoopStep
<1>4. ASSUME NEW r \in Roots, VisitPaperEntry(t, r) PROVE OInv'
  BY <1>4 DEF VisitPaperEntry, OInv
<1>5. ASSUME NEW r \in Roots, VisitLiveEntry(t, r) PROVE OInv'
  <2>1. /\ Live /\ ord[r].kind = "entry" /\ task[t].pc = "run" /\ task[t].op = "reconcile"
        /\ Fetch(t, r, ord[r].eids, {}, 0) \/ Apply(t, r, {}, 0)
    BY <1>5 DEF VisitLiveEntry, OpenEntry, VisitRoot, Visiting, At
  <2>2. r \in used /\ ord[r].eids \in SUBSET Chunks /\ t = Cycle
    BY <1>1, <2>1 DEF NoOrder, OrderRec, Tasks
  <2> QED
    BY <2>1, <2>2, SeenOrphan
<1>6. CASE FetchReply(t) \/ FetchFail(t)
  <2>1. PICK q \in Roots : q = task[t].root
    BY <1>1, <1>6 DEF FetchReply, FetchFail, At, CallSound
  <2> DEFINE row == venue[<<q, task[t].chunk>>]
  <2>2. /\ task[t].pc = "fetching" /\ task[t].root = q /\ Live /\ q \in used /\ ord[q].kind = "entry"
        /\ task[t].chunk \in Chunks /\ task[t].sum \in Nat /\ task[t].left \in SUBSET Chunks /\ t = Cycle
    BY <1>1, <1>6, <2>1 DEF FetchReply, FetchFail, At, CallSound, KnownCall, TaskRec, Tasks
  <2>3. row.filled \in Nat /\ row.st = St(q, task[t].chunk)
    BY <1>1, <2>2 DEF Rows, VenueRec, St
  <2>4. PICK add \in {0, row.filled}, seen \in {task[t].seen, task[t].seen \cup {row.st}} :
          Fetched(t, seen, task[t].sum + add)
    <3>1. CASE FetchReply(t)
      BY <2>1, <3>1 DEF FetchReply
    <3>2. CASE FetchFail(t)
      <4>1. task[t].sum + 0 = task[t].sum
        BY <2>2
      <4> QED
        BY <3>2, <4>1 DEF FetchFail
    <3> QED
      BY <1>6, <3>1, <3>2
  <2> HIDE DEF row
  <2>5. task[t].sum + add \in Nat
    BY <2>2, <2>3, <2>4
  <2>6. Fetch(t, q, task[t].left, seen, task[t].sum + add) \/ Apply(t, q, seen, task[t].sum + add)
    BY <2>1, <2>4 DEF Fetched
  <2>7. q \notin mishap => ("cancelled" \in seen => HeldOrDead(q)) /\ "expired" \notin seen
    <3> SUFFICES ASSUME q \notin mishap PROVE ("cancelled" \in seen => HeldOrDead(q)) /\ "expired" \notin seen
      OBVIOUS
    <3>1. Whole(q) /\ CallWell(q, task[t])
      BY <2>2 DEF OInv, Fine, Whole, On
    <3>2. /\ "cancelled" \in task[t].seen => HeldOrDead(q)
          /\ "expired" \notin task[t].seen
      BY <2>2, <3>1 DEF CallWell
    <3>3. row.st = "cancelled" => HeldOrDead(q)
      BY <2>2, <2>3, <3>1 DEF Whole, Ends
    <3>4. row.st # "expired"
      BY <2>2, <2>3, <3>1 DEF Whole, RowsFit, RowFits, St
    <3> QED
      BY <2>4, <3>2, <3>3, <3>4
  <2> QED
    BY <2>2, <2>5, <2>6, <2>7, SeenOrphan
<1> QED
  BY <1>2, <1>3, <1>4, <1>5, <1>6
-----------------------------------------------------------------------------
(* The environment.                                                        *)

\* What the venue may make of a row: it does not come back, and it is cancelled on request.
RowOk(q, c, row) ==
  /\ RowFits(ord[q], row, c)
  /\ row.st # "sent" /\ (row.st = "none" => St(q, c) = "none")
  /\ row.st = "live" => ~Dead(q, c)
  /\ row.st = "cancelled" => St(q, c) = "cancelled" \/ <<q, c>> \in vcancel
  /\ <<q, c>> \in vcancel => <<q, c>> \in vcancel' \/ row.st # "live"

\* The venue changes a row: what is over stays over, and what the calls know stays true.
LEMMA RowOrphan ==
  ASSUME OInv, VInv', NEW q \in Roots, NEW c \in Chunks, NEW row,
         venue' = [venue EXCEPT ![<<q, c>>] = row], UNCHANGED <<ord, used, task>>,
         vcancel' \in {vcancel, vcancel \ {<<q, c>>}}, mishap \subseteq mishap',
         Live /\ q \notin mishap' /\ ord[q].kind = "entry" /\ Whole(q) => RowOk(q, c, row)
  PROVE  OInv'
<1>1. venue \in Rows /\ ord \in [Roots -> OrderRec] /\ Cycle \in Tasks
  BY VenueTyped DEF OInv, Tasks
<1>2. /\ venue'[<<q, c>>] = row /\ \A d \in Chunks : d # c => venue'[<<q, d>>] = venue[<<q, d>>]
      /\ \A r \in Roots : r # q => \A d \in Chunks : venue'[<<r, d>>] = venue[<<r, d>>]
  BY <1>1 DEF Rows
<1>3. Touches(q, Cycle)
  BY <1>2 DEF Touches
<1>4. ASSUME Live, q \in used, q \notin mishap', ord[q].kind = "entry" PROVE Whole(q)'
  <2>1. Whole(q)
    BY <1>4 DEF OInv, Fine
  <2>2. RowOk(q, c, row)
    BY <1>4, <2>1
  <2>3. St(q, c)' = row.st /\ \A d \in Chunks : d # c => St(q, d)' = St(q, d)
    BY <1>2 DEF St
  <2>4. ord[q].eids \in SUBSET Chunks
    BY <1>1 DEF OrderRec
  <2>5. \A d \in Chunks : Dead(q, d) => Dead(q, d)'
    BY <2>2, <2>3 DEF Dead, RowOk
  <2>6. \A d \in Chunks : <<q, d>> \in vcancel => <<q, d>> \in vcancel' \/ Dead(q, d)'
    BY <2>2, <2>3 DEF Dead, RowOk
  <2>7. HeldOrDead(q) => HeldOrDead(q)'
    <3>1. \A d \in Chunks : Held(q, d)' = Held(q, d)
      BY DEF Held
    <3> QED
      BY <2>4, <2>5, <3>1 DEF HeldOrDead
  <2>8. RowsFit(q)'
    <3>1. \A d \in Chunks : RowFits(ord[q], venue'[<<q, d>>], d)
      BY <1>2, <2>1, <2>2 DEF Whole, RowsFit, RowOk
    <3> QED
      BY <3>1 DEF RowsFit, RowFits, Part
  <2>9. Ends(q)'
    <3>1. \A d \in Chunks : St(q, d)' = "cancelled" => St(q, d) = "cancelled" \/ <<q, d>> \in vcancel
      BY <2>2, <2>3 DEF RowOk
    <3> QED
      BY <2>1, <2>7, <3>1 DEF Whole, Ends
  <2>10. ASSUME NEW u \in Tasks, On(task[u], q)
         PROVE  CallWell(q, task[u])' /\ (task[u].pc \in Placing => PlacingWell(q, task[u])')
    <3>1. CallWell(q, task[u]) /\ (task[u].pc \in Placing => PlacingWell(q, task[u]))
      BY <2>1, <2>10 DEF Whole
    <3>2. CallWell(q, task[u])'
      <4>1. ASSUME NEW s, s = task[u] PROVE CallWell(q, s)'
        <5>1. CallWell(q, s)
          BY <3>1, <4>1
        <5> QED
          BY <2>4, <2>5, <2>6, <2>7, <5>1, CallKept
      <4> QED
        BY <4>1 DEF CallWell
    <3>3. ASSUME task[u].pc \in Placing PROVE PlacingWell(q, task[u])'
      <4>1. PlacingWell(q, task[u]) /\ task[u].chunk \in 0..MaxChunks
        BY <3>1, <3>3, PlacingKnown DEF OInv
      <4>2. \A d \in Answers(task[u]) : St(q, d)' # "sent" /\ (d \in task[u].got \/ Dead(q, d)')
        BY <2>2, <2>3, <2>5, <4>1 DEF PlacingWell, Answers, RowOk
      <4>3. \A d \in task[u].got : St(q, d)' \notin {"none", "sent"}
        BY <2>2, <2>3, <4>1 DEF PlacingWell, Answers, RowOk
      <4>4. task[u].pc = "posting" => St(q, task[u].chunk)' # "none"
        <5>1. CASE task[u].chunk = c
          BY <2>2, <2>3, <4>1, <5>1 DEF PlacingWell, RowOk
        <5>2. CASE task[u].chunk # c
          <6> SUFFICES ASSUME task[u].pc = "posting" PROVE St(q, task[u].chunk)' # "none"
            OBVIOUS
          <6>1. task[u].chunk \in Chunks
            BY Known DEF CallSound, OInv, VInv
          <6> QED
            BY <2>3, <4>1, <5>2, <6>1 DEF PlacingWell
        <5> QED
          BY <5>1, <5>2
      <4>5. \A d \in Chunks : <<q, d>> \notin vcancel' /\ St(q, d)' # "cancelled"
        BY <2>2, <2>3, <4>1 DEF PlacingWell, RowOk
      <4>6. Answers(task[u])' = Answers(task[u])
        BY DEF Answers
      <4> QED
        BY <4>1, <4>2, <4>3, <4>4, <4>5, <4>6 DEF PlacingWell
    <3> QED
      BY <3>2, <3>3
  <2>11. InPlacement(q)' \/ PlacedWell(q)'
    <3>1. CASE InPlacement(q)
      BY <3>1 DEF InPlacement
    <3>2. CASE PlacedWell(q)
      BY <2>2, <2>3, <2>4, <2>7, <3>2 DEF PlacedWell, RowOk, Dead
    <3> QED
      BY <2>1, <3>1, <3>2 DEF Whole
  <2> QED
    BY <2>8, <2>9, <2>10, <2>11 DEF Whole
<1>5. Live => Fine(q)'
  BY <1>4 DEF OInv, Fine
<1> QED
  BY <1>1, <1>3, <1>5, TouchesOne
\* The venue accepts, refuses, fills, ends or cancels.
LEMMA VenueOrphan ==
  ASSUME OInv, VInv', NEW q \in Roots, NEW c \in Chunks,
         VenueReceive(<<q, c>>) \/ VenueFill(<<q, c>>) \/ VenueEnd(<<q, c>>) \/ VenueCancel(<<q, c>>)
  PROVE  OInv'
<1> DEFINE x == <<q, c>>
           old == venue[x]
<1>1. venue \in Rows /\ old \in VenueRec /\ old.filled \in Nat /\ old.size \in Nat /\ x \in Roots \X Chunks
  BY VenueTyped DEF OInv, Rows, VenueRec
<1>2. /\ UNCHANGED <<ord, used, task>> /\ mishap \subseteq mishap' /\ vcancel' \in {vcancel, vcancel \ {x}}
  BY DEF VenueReceive, VenueFill, VenueEnd, VenueCancel, VenueAnswers, memory
<1>3. St(q, c) = old.st
  BY DEF St
<1>4. ASSUME Whole(q), ord[q].kind = "entry"
      PROVE  RowFits(ord[q], old, c) /\ Part(ord[q]) \in Nat \ {0}
  <2>1. ord[q].size \in Sizes
    BY <1>4 DEF OInv, VInv, SInv, RecordsSound, Sound
  <2> QED
    BY <1>4, <2>1, PartsAdd DEF Whole, RowsFit, Part
<1> HIDE DEF old
<1>5. CASE VenueReceive(x)
  <2>1. PICK st \in {"live", "rejected"} :
          venue' = [venue EXCEPT ![x].st = st] /\ old.st = "sent" /\ UNCHANGED vcancel
    BY <1>5 DEF VenueReceive, VenueAnswers, old
  <2> DEFINE row == [old EXCEPT !.st = st]
  <2>2. venue' = [venue EXCEPT ![x] = row]
    BY <1>1, <2>1 DEF Rows, old
  <2>3. row.st = st /\ row.filled = old.filled /\ row.size = old.size
    BY <1>1 DEF VenueRec
  <2> HIDE DEF row
  <2>4. Whole(q) /\ ord[q].kind = "entry" => RowOk(q, c, row)
    BY <1>1, <1>3, <1>4, <2>1, <2>3 DEF RowOk, RowFits, Dead
  <2> QED
    BY <1>2, <2>2, <2>4, RowOrphan
<1>6. CASE VenueFill(x)
  <2> DEFINE row == [old EXCEPT !.filled = @ + 1, !.st = IF old.filled + 1 = old.size THEN "matched" ELSE @]
  <2>1. venue' = [venue EXCEPT ![x] = row] /\ old.st = "live" /\ UNCHANGED vcancel
    BY <1>1, <1>6 DEF VenueFill, Rows, VenueRec, old
  <2>2. /\ row.st = (IF old.filled + 1 = old.size THEN "matched" ELSE "live")
        /\ row.filled = old.filled + 1 /\ row.size = old.size
    BY <1>1, <2>1 DEF VenueRec
  <2> HIDE DEF row
  <2>3. Whole(q) /\ ord[q].kind = "entry" => RowOk(q, c, row)
    <3> SUFFICES ASSUME Whole(q), ord[q].kind = "entry" PROVE RowOk(q, c, row)
      OBVIOUS
    <3>1. old.filled < old.size /\ c <= NChunks(ord[q].size) /\ old.size = Part(ord[q])
      BY <1>4, <2>1 DEF RowFits
    <3>2. RowFits(ord[q], row, c)
      BY <1>1, <2>2, <3>1 DEF RowFits
    <3> QED
      BY <1>3, <2>1, <2>2, <3>2 DEF RowOk, Dead
  <2> QED
    BY <1>2, <2>1, <2>3, RowOrphan
<1>7. CASE VenueEnd(x)
  <2>1. PICK st : venue' = [venue EXCEPT ![x].st = st]
    BY <1>7 DEF VenueEnd, VenueAnswers
  <2> DEFINE row == [old EXCEPT !.st = st]
  <2>2. venue' = [venue EXCEPT ![x] = row] /\ q \in mishap'
    BY <1>1, <1>7, <2>1 DEF Rows, VenueEnd, old
  <2> HIDE DEF row
  <2> QED
    BY <1>2, <2>2, RowOrphan
<1>8. CASE VenueCancel(x)
  <2> DEFINE row == [old EXCEPT !.st = IF old.st = "live" THEN "cancelled" ELSE old.st]
  <2>1. venue' = [venue EXCEPT ![x] = row] /\ x \in vcancel /\ mishap' = mishap
    BY <1>1, <1>8 DEF VenueCancel, Rows, old
  <2>2. /\ row.st = (IF old.st = "live" THEN "cancelled" ELSE old.st)
        /\ row.filled = old.filled /\ row.size = old.size
    BY <1>1 DEF VenueRec
  <2>3. old = NoVenueOrder => row = NoVenueOrder
    BY DEF NoVenueOrder
  <2> HIDE DEF row
  <2>4. Whole(q) /\ ord[q].kind = "entry" => RowOk(q, c, row)
    <3> SUFFICES ASSUME Whole(q), ord[q].kind = "entry" PROVE RowOk(q, c, row)
      OBVIOUS
    <3>1. old.st # "sent"
      <4>1. CASE InPlacement(q)
        BY <2>1, <4>1 DEF Whole, InPlacement, PlacingWell
      <4>2. CASE PlacedWell(q)
        BY <1>3, <4>2 DEF PlacedWell
      <4> QED
        BY <4>1, <4>2 DEF Whole
    <3>2. RowFits(ord[q], row, c)
      BY <1>1, <1>4, <2>2, <2>3 DEF RowFits
    <3> QED
      BY <1>3, <2>1, <2>2, <3>1, <3>2 DEF RowOk
  <2> QED
    BY <1>2, <2>1, <2>4, RowOrphan
<1> QED
  BY <1>5, <1>6, <1>7, <1>8

\* The venue, the clock and the process.
LEMMA EnvironmentOrphan ==
  ASSUME OInv, VInv', Environment
  PROVE  OInv'
<1>1. /\ ord \in [Roots -> OrderRec] /\ task \in [Tasks -> TaskRec] /\ VInv /\ SInv
      /\ Shutdown \in Tasks /\ used \in SUBSET Roots
  BY VenueTyped DEF OInv, VInv, Tasks
<1>2. ASSUME NEW x \in Roots \X Chunks, VenueReceive(x) \/ VenueFill(x) \/ VenueEnd(x) \/ VenueCancel(x)
      PROVE  OInv'
  BY <1>2, VenueOrphan
<1>3. CASE KillSwitchFlip \/ Restart \/ \E k \in Keys : WindowPasses(k)
  <2>1. UNCHANGED <<ord, used, task, venue, vcancel, mishap>>
    BY <1>3 DEF KillSwitchFlip, Restart, WindowPasses, memory
  <2> QED
    BY <2>1, TouchesNone DEF SameRoot
<1>4. ASSUME NEW r \in Roots, OrderAges(r) \/ GttPasses(r) PROVE OInv'
  <2>1. PICK n \in {[ord[r] EXCEPT !.aged = TRUE], [ord[r] EXCEPT !.due = TRUE]} : ord' = [ord EXCEPT ![r] = n]
    BY <1>4 DEF OrderAges, GttPasses
  <2>2. n.kind = ord[r].kind /\ n.size = ord[r].size /\ n.status = ord[r].status /\ n.eids = ord[r].eids
    BY <1>1, <2>1 DEF OrderRec
  <2>3. UNCHANGED <<used, task, venue, vcancel, mishap>>
    BY <1>4 DEF OrderAges, GttPasses, outside
  <2>4. \A x \in Roots : SameRoot(x)
    BY <1>1, <2>1, <2>2, <2>3 DEF SameRoot
  <2> QED
    BY <2>4, TouchesNone
<1>5. CASE Signal
  <2>1. /\ UNCHANGED <<ord, used, venue, vcancel, mishap>>
        /\ \E op, todo, books : Scan(Shutdown, op, todo, books)
    BY <1>5 DEF Signal, memory
  <2>2. task[Shutdown].pc \in {"idle", "run"}
    BY <1>1, <1>5 DEF Signal, SInv, CallsKnown
  <2> QED
    BY <1>1, <2>1, <2>2, LoopStep
<1>6. CASE HookTimeout
  <2>1. PICK q \in Roots : q = task[Shutdown].root
    BY <1>1, <1>6, Known DEF HookTimeout, At
  <2>2. /\ task[Shutdown].pc = "cancelling" /\ Return(Shutdown) /\ mishap' = mishap \cup {q} /\ q \in used
        /\ UNCHANGED <<ord, used, venue, vcancel>>
    BY <1>1, <1>6, <2>1, Known DEF HookTimeout, At, memory
  <2>3. PICK s : task' = [task EXCEPT ![Shutdown] = s] /\ s.pc \in {"idle", "run"}
    BY <1>1, <2>2, NotOn
  <2>4. \A r \in Roots : r # q => ~On(s, r) /\ ~On(task[Shutdown], r)
    BY <2>1, <2>3 DEF On
  <2>5. Touches(q, Shutdown)
    BY <2>2, <2>3, <2>4 DEF Touches
  <2>6. Fine(q)'
    BY <2>2 DEF Fine
  <2> QED
    BY <1>1, <2>5, <2>6, TouchesOne
<1>7. CASE Exit \/ Crash
  <2>1. UNCHANGED <<used, vcancel>> /\ mishap' = mishap \cup used
    BY <1>7 DEF Exit, Crash, LoseMemory
  <2> QED
    BY <2>1 DEF OInv, Fine
<1> QED
  BY <1>2, <1>3, <1>4, <1>5, <1>6, <1>7 DEF Environment, Venue

\* The start of an instance: no id drawn, no cancel request.
LEMMA InitOrphan == Init => OInv
<1> SUFFICES ASSUME Init PROVE OInv
  OBVIOUS
<1>1. \A r \in Roots : Fine(r)
  BY DEF Init, Fine
<1> QED
  BY <1>1, InitVenue DEF OInv

\* Every step keeps the invariant.
LEMMA OrphanStep ==
  ASSUME OInv, [Next]_vars
  PROVE  OInv'
<1>1. VInv'
  BY VenueStepKept DEF OInv
<1>2. CASE UNCHANGED vars
  <2>1. UNCHANGED <<ord, used, task, venue, vcancel, mishap>>
    BY <1>2 DEF vars
  <2> QED
    BY <1>1, <2>1, TouchesNone DEF SameRoot
<1>3. ASSUME NEW t \in Tasks, Call(t) \/ Advance(t) PROVE OInv'
  BY <1>1, <1>3, CallOrphan, PlacingOrphan, CancellingOrphan, ReconcilingOrphan DEF Advance
<1>4. CASE Environment
  BY <1>1, <1>4, EnvironmentOrphan
<1> QED
  BY <1>2, <1>3, <1>4 DEF Next

\* A live order of the venue is known: its entry is open and holds its id, or a call has it
\* in hand, whatever order answers, fills, cancels and reads come in; the causes of the
\* exceptions are a failed venue call, an end the venue chose, the shutdown in the middle
\* of its placement or the end of the process (_submit_with_retries lines 704-806,
\* cancel_order, _reconcile_live_entry lines 617-702).
THEOREM LiveOrdersAreKnown == Spec => []NoOrphanWithoutCause
<1>1. OInv /\ [Next]_vars => OInv'
  BY OrphanStep
<1>2. OInv => NoOrphanWithoutCause
  BY FineMeans
<1> QED
  BY <1>1, <1>2, InitOrphan, PTL DEF Spec

==============================================================================
