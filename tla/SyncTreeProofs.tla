--------------------------- MODULE SyncTreeProofs ---------------------------
(***************************************************************************)
(* Theorems about the client's cache, for any paths, values and handlers.  *)
(***************************************************************************)
EXTENDS SyncTree, SequenceTheorems, WellFoundedInduction, TLAPS

NatLess == OpToRel(<, Nat)

\* A bounded set of numbers that is not empty has a greatest element.
LEMMA BoundedHasMax ==
  ASSUME NEW S \in SUBSET Nat, S # {},
         NEW b \in Nat, \A x \in S : x <= b
  PROVE  \E m \in S : \A x \in S : x <= m
<1> DEFINE T == {b - x : x \in S}
<1>0. \A x \in S : x \in Nat /\ b - x \in Nat
  OBVIOUS
<1>1. T \subseteq Nat /\ T # {}
  BY <1>0
<1>2. IsWellFoundedOn(NatLess, Nat)
  BY NatLessThanWellFounded DEF NatLess
<1>3. \E t \in T : \A u \in T : ~(<<u, t>> \in NatLess)
  BY <1>1, <1>2, WFMin
<1>4. \A u, t \in T : u < t => <<u, t>> \in NatLess
  BY <1>1 DEF NatLess, OpToRel
<1>5. PICK t \in T : \A u \in T : ~(u < t)
  BY <1>3, <1>4
<1>6. PICK m \in S : t = b - m
  OBVIOUS
<1>7. \A x \in S : x <= m
  <2>1. SUFFICES ASSUME NEW x \in S PROVE x <= m
    OBVIOUS
  <2>2. b - x \in T
    OBVIOUS
  <2>3. ~(b - x < b - m)
    BY <2>2, <1>5, <1>6
  <2> QED
    BY <1>0, <2>3
<1> QED
  BY <1>7

\* The blocks of a value event are blocks of the main queue.
LEMMA ValueEventsType ==
  ASSUME NEW old \in View, NEW new \in View
  PROVE  ValueEvents(old, new) \in Seq(Block)
<1> DEFINE s == [i \in 1..Len(new.regs) |-> ValueBlock(new.regs[i], new.event)]
<1>1. new.regs \in Seq(Handlers) /\ new.event \in Values
  BY DEF View
<1>2. Len(new.regs) \in Nat
  BY <1>1, LenProperties
<1>3. \A i \in 1..Len(new.regs) : ValueBlock(new.regs[i], new.event) \in Block
  BY <1>1, ElementOfSeq DEF ValueBlock, Block
<1>4. s \in [1..Len(new.regs) -> Block]
  BY <1>3
<1>5. s \in Seq(Block)
  BY <1>2, <1>4, SeqDef
<1> QED
  BY <1>5, EmptySeq DEF ValueEvents

\* Each step of the view processor yields a view.
LEMMA ViewsType ==
  ASSUME SyncTreeAssumption, NEW v \in View, NEW val \in Values,
         NEW shadow
  PROVE  /\ UserOverwrite(v, val) \in View
         /\ ServerOverwrite(v, val, shadow) \in View
         /\ AckWrite(v, shadow) \in View
         /\ RevertWrite(v, shadow) \in View
  BY DEF SyncTreeAssumption, View, UserOverwrite, ServerOverwrite, AckWrite,
         RevertWrite

UniqueIds(ws) == \A w, x \in ws : w.id = x.id => w = x

IsNewest(w, ws, p) ==
  /\ w \in ws /\ w.path = p
  /\ \A x \in ws : x.path = p => x.id <= w.id

\* With distinct ids there is one newest write, and NewestWrite is it.
LEMMA NewestIs ==
  ASSUME NEW ws \in SUBSET Write, UniqueIds(ws), NEW p, NEW w,
         IsNewest(w, ws, p)
  PROVE  NewestWrite(ws, p) = w
<1>1. \A x : IsNewest(x, ws, p) => x = w
  <2>1. SUFFICES ASSUME NEW x, IsNewest(x, ws, p) PROVE x = w
    OBVIOUS
  <2>2. x.id \in Nat /\ w.id \in Nat
    BY <2>1 DEF IsNewest, Write
  <2>3. x.id = w.id
    BY <2>1, <2>2 DEF IsNewest
  <2> QED
    BY <2>1, <2>3 DEF IsNewest, UniqueIds
<1> QED
  BY <1>1 DEF NewestWrite, IsNewest

\* Writes of a path whose ids are bounded have a newest one.
LEMMA NewestExists ==
  ASSUME NEW ws \in SUBSET Write, NEW b \in Nat, \A w \in ws : w.id <= b,
         NEW p, \E w \in ws : w.path = p
  PROVE  \E w : IsNewest(w, ws, p)
<1> DEFINE S == {w.id : w \in {x \in ws : x.path = p}}
<1>1. S \in SUBSET Nat /\ S # {} /\ \A i \in S : i <= b
  BY DEF Write
<1> HIDE DEF S
<1>2. PICK m \in S : \A i \in S : i <= m
  BY <1>1, BoundedHasMax
<1>3. PICK w \in ws : w.path = p /\ w.id = m
  BY <1>2 DEF S
<1>4. \A x \in ws : x.path = p => x.id <= w.id
  BY <1>2, <1>3 DEF S
<1> QED
  BY <1>3, <1>4 DEF IsNewest

\* The visible value of a path is that of its newest write.
LEMMA LayerIs ==
  ASSUME NEW ws \in SUBSET Write, UniqueIds(ws), NEW p
  PROVE  /\ \A w : IsNewest(w, ws, p) => Layer(ws, p) = w.val
         /\ (\A w \in ws : w.path # p) => Layer(ws, p) = NoWrite
  BY NewestIs DEF Layer, IsNewest

\* resetTree moves lastWriteId to the greatest id that is left.
LEMMA LastIdIs ==
  ASSUME NEW ws \in SUBSET Write, NEW b \in Nat, \A w \in ws : w.id <= b
  PROVE  /\ LastId(ws) \in Nat \cup {-1}
         /\ LastId(ws) <= b
         /\ \A w \in ws : w.id <= LastId(ws)
<1>1. CASE ws = {}
  BY <1>1 DEF LastId
<1>2. CASE ws # {}
  <2> DEFINE S == {w.id : w \in ws}
  <2>1. S \in SUBSET Nat /\ S # {} /\ \A i \in S : i <= b
    BY <1>2 DEF Write
  <2> HIDE DEF S
  <2>2. PICK m \in S : \A i \in S : i <= m
    BY <2>1, BoundedHasMax
  <2>3. \E w \in ws : \A x \in ws : x.id <= w.id
    BY <2>2 DEF S
  <2> DEFINE l == CHOOSE w \in ws : \A x \in ws : x.id <= w.id
  <2>4. l \in ws /\ \A x \in ws : x.id <= l.id
    BY <2>3
  <2>5. LastId(ws) = l.id
    BY <1>2 DEF LastId
  <2> QED
    BY <2>4, <2>5 DEF Write
<1> QED
  BY <1>1, <1>2

-----------------------------------------------------------------------------
\* A view without registrations knows nothing: it is made afresh when its
\* path is observed again.
UnobservedIsEmpty == \A p \in Paths : ~Observed(view[p]) => ~view[p].serverFull

\* The inductive invariant.
IInv == /\ TypeOK
        /\ WritesStack
        /\ VisibleIsLayered
        /\ ViewIsOverlay
        /\ UnobservedIsEmpty

\* A client that has just been made.
LEMMA Initially == Init => IInv
<1> SUFFICES ASSUME Init PROVE IInv
  OBVIOUS
<1> USE SyncTreeAssumption DEF Init, SyncTreeAssumption
<1>1. TypeOK
  <2>1. NoView \in View
    BY EmptySeq DEF NoView, View
  <2>2. mainQueue \in Seq(Block)
    BY EmptySeq
  <2> QED
    BY <2>1, <2>2 DEF TypeOK
<1>2. WritesStack
  BY DEF WritesStack
<1>3. VisibleIsLayered
  BY DEF VisibleIsLayered, Layer
<1>4. ViewIsOverlay
  BY DEF ViewIsOverlay, Observed, NoView
<1>5. UnobservedIsEmpty
  BY DEF UnobservedIsEmpty, NoView
<1> QED
  BY <1>1, <1>2, <1>3, <1>4, <1>5 DEF IInv

\* Appending events and one more block leaves the main queue a queue.
LEMMA QueueType ==
  ASSUME TypeOK, NEW old \in View, NEW new \in View, NEW b \in Block
  PROVE  /\ mainQueue \o ValueEvents(old, new) \in Seq(Block)
         /\ mainQueue \o ValueEvents(old, new) \o <<b>> \in Seq(Block)
         /\ Append(mainQueue, b) \in Seq(Block)
<1>1. mainQueue \in Seq(Block) /\ ValueEvents(old, new) \in Seq(Block)
  BY ValueEventsType DEF TypeOK
<1>2. mainQueue \o ValueEvents(old, new) \in Seq(Block)
  BY <1>1, ConcatProperties
<1>3. <<b>> \in Seq(Block)
  OBVIOUS
<1>4. mainQueue \o ValueEvents(old, new) \o <<b>> \in Seq(Block)
  BY <1>2, <1>3, ConcatProperties
<1>5. Append(mainQueue, b) \in Seq(Block)
  BY <1>1, AppendProperties
<1> QED
  BY <1>2, <1>4, <1>5

-----------------------------------------------------------------------------
\* A local write: it is newer than all the others, hence the visible one.
LEMMA SetKeeps ==
  ASSUME IInv, NEW p \in Paths, NEW val \in Values, ApplyUserOverwrite(p, val)
  PROVE  IInv'
<1> DEFINE w   == [id |-> writeIdCounter, path |-> p, val |-> val]
           new == UserOverwrite(view[p], val)
<1>1. /\ writeIdCounter \in Nat /\ lastWriteId \in Nat \cup {-1}
      /\ allWrites \in SUBSET Write
      /\ visibleWrites \in [Paths -> Values \cup {NoWrite}]
      /\ view \in [Paths -> View]
  BY DEF IInv, TypeOK
<1>2. w \in Write /\ new \in View
  BY <1>1, ViewsType, SyncTreeAssumption DEF Write
<1>3. /\ writeIdCounter' = writeIdCounter + 1
      /\ allWrites' = allWrites \cup {w}
      /\ visibleWrites' = [visibleWrites EXCEPT ![p] = val]
      /\ lastWriteId' = writeIdCounter
      /\ view' = [view EXCEPT ![p] = new]
      /\ mainQueue' = mainQueue \o ValueEvents(view[p], new)
      /\ shown' = shown
  BY DEF ApplyUserOverwrite
<1> HIDE DEF new
<1>4. TypeOK'
  <2>1. mainQueue' \in Seq(Block)
    BY <1>1, <1>2, <1>3, ConcatProperties, ValueEventsType DEF IInv, TypeOK
  <2> QED
    BY <1>1, <1>2, <1>3, <2>1 DEF IInv, TypeOK
<1>5. WritesStack'
  BY <1>1, <1>3 DEF IInv, WritesStack, Write
<1>6. VisibleIsLayered'
  <2>1. UniqueIds(allWrites')
    BY <1>5 DEF WritesStack, UniqueIds
  <2>2. IsNewest(w, allWrites', p)
    BY <1>1, <1>3 DEF IInv, WritesStack, IsNewest, Write
  <2>3. Layer(allWrites', p) = val
    BY <1>1, <1>2, <1>3, <2>1, <2>2, LayerIs
  <2>4. ASSUME NEW q \in Paths, q # p
        PROVE  Layer(allWrites', q) = Layer(allWrites, q)
    <3>1. \A x \in allWrites' : x.path = q <=> x \in allWrites /\ x.path = q
      BY <1>3, <2>4
    <3>2. NewestWrite(allWrites', q) = NewestWrite(allWrites, q)
      BY <1>3, <3>1 DEF NewestWrite
    <3> QED
      BY <1>3, <3>1, <3>2 DEF Layer
  <2> QED
    BY <1>1, <1>3, <2>3, <2>4 DEF IInv, VisibleIsLayered
<1>7. ViewIsOverlay'
  BY <1>1, <1>3, SyncTreeAssumption
     DEF IInv, ViewIsOverlay, new, UserOverwrite, Observed, SyncTreeAssumption,
         View
<1>8. UnobservedIsEmpty'
  BY <1>1, <1>3 DEF IInv, UnobservedIsEmpty, new, UserOverwrite, Observed, View
<1> QED
  BY <1>4, <1>5, <1>6, <1>7, <1>8 DEF IInv

\* The server's value of a path, given again or new: the writes stay.
LEMMA ServerOverwriteKeeps ==
  ASSUME IInv, NEW p \in Paths, NEW val \in Values, ApplyServerOverwrite(p, val)
  PROVE  IInv'
<1> DEFINE new == ServerOverwrite(view[p], val, visibleWrites[p])
<1>1. view \in [Paths -> View] /\ mainQueue \in Seq(Block)
  BY DEF IInv, TypeOK
<1>2. new \in View
  BY <1>1, ViewsType, SyncTreeAssumption
<1>3. /\ view' = [view EXCEPT ![p] = new]
      /\ mainQueue' = mainQueue \o ValueEvents(view[p], new)
      /\ UNCHANGED <<writeIdCounter, allWrites, visibleWrites, lastWriteId,
                     shown>>
  BY DEF ApplyServerOverwrite
<1>4. mainQueue' \in Seq(Block)
  BY <1>1, <1>2, <1>3, ConcatProperties, ValueEventsType
<1> HIDE DEF new
<1>5. TypeOK'
  BY <1>1, <1>2, <1>3, <1>4 DEF IInv, TypeOK
<1>6. WritesStack' /\ VisibleIsLayered'
  BY <1>3 DEF IInv, WritesStack, VisibleIsLayered, Layer, NewestWrite
<1>7. ViewIsOverlay'
  BY <1>1, <1>3
     DEF IInv, ViewIsOverlay, new, ServerOverwrite, Observed, View
<1>8. UnobservedIsEmpty'
  BY <1>1, <1>3
     DEF IInv, UnobservedIsEmpty, new, ServerOverwrite, Observed, View
<1> QED
  BY <1>5, <1>6, <1>7, <1>8 DEF IInv

\* A refused listen, a new registration, a block of the app and a step of the
\* main queue leave the writes alone.
LEMMA WritesUnchanged ==
  ASSUME WritesStack, VisibleIsLayered,
         UNCHANGED <<writeIdCounter, allWrites, visibleWrites, lastWriteId>>
  PROVE  WritesStack' /\ VisibleIsLayered'
  BY DEF WritesStack, VisibleIsLayered, Layer, NewestWrite

\* A refused listen removes the view.
LEMMA RefuseKeeps ==
  ASSUME IInv, NEW p \in Paths, ListenRefused(p)
  PROVE  IInv'
<1>1. NoView \in View
  BY SyncTreeAssumption, EmptySeq DEF NoView, View, SyncTreeAssumption
<1>2. TypeOK'
  BY <1>1 DEF IInv, TypeOK, ListenRefused
<1>3. WritesStack' /\ VisibleIsLayered'
  BY WritesUnchanged DEF IInv, ListenRefused
<1>4. ViewIsOverlay'
  BY DEF IInv, TypeOK, ViewIsOverlay, ListenRefused, Observed, NoView
<1>5. UnobservedIsEmpty'
  BY DEF IInv, TypeOK, UnobservedIsEmpty, ListenRefused, Observed, NoView
<1> QED
  BY <1>2, <1>3, <1>4, <1>5 DEF IInv

\* A path that is observed anew shows its visible write at once.
LEMMA ObserveKeeps ==
  ASSUME IInv, NEW h \in Handlers, AddEventRegistration(h)
  PROVE  IInv'
<1> DEFINE p   == PathOf[h]
           old == IF Observed(view[p]) THEN view[p] ELSE FreshView(p)
           new == [old EXCEPT !.regs = Append(old.regs, h)]
<1>1. /\ p \in Paths /\ view \in [Paths -> View]
      /\ visibleWrites \in [Paths -> Values \cup {NoWrite}]
      /\ mainQueue \in Seq(Block)
  BY SyncTreeAssumption DEF IInv, TypeOK, SyncTreeAssumption
<1>2. old \in View
  BY <1>1, SyncTreeAssumption, EmptySeq
     DEF FreshView, NoView, View, SyncTreeAssumption
<1>3. /\ view' = [view EXCEPT ![p] = new]
      /\ mainQueue' = IF old.eventFull
                      THEN Append(mainQueue, ValueBlock(h, old.event))
                      ELSE mainQueue
      /\ UNCHANGED <<writeIdCounter, allWrites, visibleWrites, lastWriteId,
                     shown>>
  BY DEF AddEventRegistration
<1>4. /\ old.regs \in Seq(Handlers) /\ old.event \in Values
      /\ Append(old.regs, h) \in Seq(Handlers) /\ Append(old.regs, h) # <<>>
  BY <1>2, AppendProperties, EmptySeq DEF View
<1>5. /\ ~Observed(view[p]) =>
           /\ ~old.serverFull
           /\ visibleWrites[p] # NoWrite =>
                old.eventFull /\ old.event = visibleWrites[p]
  BY <1>1 DEF FreshView, NoView
<1>6. Observed(view[p]) => old = view[p]
  OBVIOUS
<1>7. new \in View /\ Observed(new) /\ new.event = old.event
      /\ new.eventFull = old.eventFull /\ new.server = old.server
      /\ new.serverFull = old.serverFull
  BY <1>2, <1>4 DEF View, Observed
<1>8. mainQueue' \in Seq(Block)
  <2>1. ValueBlock(h, old.event) \in Block
    BY <1>4 DEF ValueBlock, Block
  <2> QED
    BY <1>1, <1>3, <2>1, AppendProperties
<1> HIDE DEF old, new, p
<1>9. TypeOK'
  BY <1>1, <1>3, <1>7, <1>8 DEF IInv, TypeOK
<1>10. WritesStack' /\ VisibleIsLayered'
  BY <1>3, WritesUnchanged DEF IInv
<1>11. ViewIsOverlay'
  <2>1. SUFFICES ASSUME NEW q \in Paths, InOrder, Observed(view'[q])
                 PROVE  /\ visibleWrites[q] # NoWrite =>
                             /\ view'[q].eventFull
                             /\ view'[q].event = visibleWrites[q]
                        /\ visibleWrites[q] = NoWrite /\ view'[q].serverFull =>
                             /\ view'[q].eventFull
                             /\ view'[q].event = view'[q].server
    BY <1>3 DEF ViewIsOverlay
  <2>2. CASE q # p
    BY <1>1, <1>3, <2>1, <2>2 DEF IInv, ViewIsOverlay
  <2>3. CASE q = p /\ Observed(view[p])
    BY <1>1, <1>3, <1>6, <1>7, <2>1, <2>3 DEF IInv, ViewIsOverlay
  <2>4. CASE q = p /\ ~Observed(view[p])
    BY <1>1, <1>3, <1>5, <1>7, <2>4
  <2> QED
    BY <2>2, <2>3, <2>4
<1>12. UnobservedIsEmpty'
  BY <1>1, <1>3, <1>7 DEF IInv, UnobservedIsEmpty
<1> QED
  BY <1>9, <1>10, <1>11, <1>12 DEF IInv

\* A block of the app itself touches nothing of the client.
LEMMA DispatchKeeps ==
  ASSUME IInv, NEW t \in Tasks, Dispatch(t)
  PROVE  IInv'
<1>1. mainQueue' \in Seq(Block)
  <2>1. TaskBlock(t) \in Block
    BY DEF TaskBlock, Block
  <2> QED
    BY <2>1, AppendProperties DEF IInv, TypeOK, Dispatch
<1>2. TypeOK' /\ ViewIsOverlay' /\ UnobservedIsEmpty'
  BY <1>1 DEF IInv, TypeOK, ViewIsOverlay, UnobservedIsEmpty, Dispatch
<1>3. WritesStack' /\ VisibleIsLayered'
  BY WritesUnchanged DEF IInv, Dispatch
<1> QED
  BY <1>2, <1>3 DEF IInv

\* Running a block of the main queue touches only what is shown.
LEMMA FireEventKeeps ==
  ASSUME IInv, NEW ts \in TaskLists, FireEvent(ts)
  PROVE  IInv'
<1>1. mainQueue \in Seq(Block) /\ mainQueue # <<>>
  BY DEF IInv, TypeOK, FireEvent
<1>2. Head(mainQueue) \in Block /\ Tail(mainQueue) \in Seq(Block)
  BY <1>1, HeadTailProperties
<1>3. ts \in Seq(Block)
  <2>1. ASSUME NEW t \in Tasks PROVE <<TaskBlock(t)>> \in Seq(Block)
    <3>1. TaskBlock(t) \in Block
      BY DEF TaskBlock, Block
    <3> QED
      BY <3>1
  <2> QED
    BY <2>1, EmptySeq DEF TaskLists
<1>4. mainQueue' \in Seq(Block)
  BY <1>2, <1>3, ConcatProperties DEF FireEvent
<1>5. shown' \in [Handlers -> Values \cup {NoWrite}]
  <2>1. CASE Head(mainQueue).kind = "value"
    <3>1. Head(mainQueue).val \in Values
      BY <1>2, <2>1 DEF Block
    <3> QED
      BY <2>1, <3>1 DEF IInv, TypeOK, FireEvent
  <2>2. CASE Head(mainQueue).kind # "value"
    BY <2>2 DEF IInv, TypeOK, FireEvent
  <2> QED
    BY <2>1, <2>2
<1>6. TypeOK' /\ ViewIsOverlay' /\ UnobservedIsEmpty'
  BY <1>4, <1>5
     DEF IInv, TypeOK, ViewIsOverlay, UnobservedIsEmpty, FireEvent
<1>7. WritesStack' /\ VisibleIsLayered'
  BY WritesUnchanged DEF IInv, FireEvent
<1> QED
  BY <1>6, <1>7 DEF IInv

\* Removing a write: what is left of its path, in the three cases the code
\* tells apart.
LEMMA RemovedWrite ==
  ASSUME IInv, NEW w \in allWrites
  PROVE  VisibleWithout(w, allWrites \ {w}) = Layer(allWrites \ {w}, w.path)
<1> DEFINE rest == allWrites \ {w}
<1>1. /\ writeIdCounter \in Nat /\ lastWriteId \in Nat \cup {-1}
      /\ allWrites \in SUBSET Write /\ rest \in SUBSET Write
  BY DEF IInv, TypeOK
<1>2. UniqueIds(allWrites) /\ UniqueIds(rest)
  BY DEF IInv, WritesStack, UniqueIds
<1>3. \A x \in allWrites : x.id <= writeIdCounter
  BY <1>1 DEF IInv, WritesStack, Write
<1>4. visibleWrites[w.path] = Layer(allWrites, w.path)
  BY <1>1 DEF IInv, VisibleIsLayered, Write
<1>5. CASE Hidden(w, rest)
  <2>1. PICK n : IsNewest(n, allWrites, w.path)
    BY <1>1, <1>3, NewestExists
  <2>2. PICK x \in rest : x.path = w.path /\ x.id > w.id
    BY <1>5 DEF Hidden
  <2>3. n # w
    BY <1>1, <2>1, <2>2 DEF IsNewest, Write
  <2>4. IsNewest(n, rest, w.path)
    BY <2>1, <2>3 DEF IsNewest
  <2>5. Layer(rest, w.path) = n.val /\ Layer(allWrites, w.path) = n.val
    BY <1>1, <1>2, <2>1, <2>4, LayerIs
  <2> QED
    BY <1>4, <1>5, <2>5 DEF VisibleWithout
<1>6. CASE ~Hidden(w, rest) /\ Overlaps(w, rest)
  BY <1>6 DEF VisibleWithout
<1>7. CASE ~Hidden(w, rest) /\ ~Overlaps(w, rest)
  <2>1. \A x \in rest : x.path # w.path
    <3>1. SUFFICES ASSUME NEW x \in rest, x.path = w.path PROVE FALSE
      OBVIOUS
    <3>2. x.id \in Nat /\ w.id \in Nat /\ x.id # w.id
      BY <1>1, <1>2 DEF UniqueIds, Write
    <3> QED
      BY <1>7, <3>1, <3>2 DEF Hidden, Overlaps
  <2>2. Layer(rest, w.path) = NoWrite
    BY <1>1, <1>2, <2>1, LayerIs
  <2> QED
    BY <1>7, <2>2 DEF VisibleWithout
<1> QED
  BY <1>5, <1>6, <1>7

\* The visible value that layering gives is a value, or none.
LEMMA LayerType ==
  ASSUME IInv, NEW w \in allWrites, NEW p
  PROVE  Layer(allWrites \ {w}, p) \in Values \cup {NoWrite}
<1> DEFINE rest == allWrites \ {w}
<1>1. /\ writeIdCounter \in Nat /\ lastWriteId \in Nat \cup {-1}
      /\ rest \in SUBSET Write
  BY DEF IInv, TypeOK
<1>2. UniqueIds(rest)
  BY DEF IInv, WritesStack, UniqueIds
<1>3. \A x \in rest : x.id <= writeIdCounter
  BY <1>1 DEF IInv, WritesStack, Write
<1> HIDE DEF rest
<1>4. CASE \E x \in rest : x.path = p
  <2>1. PICK n : IsNewest(n, rest, p)
    BY <1>1, <1>3, <1>4, NewestExists
  <2>2. Layer(rest, p) = n.val
    BY <1>1, <1>2, <2>1, LayerIs
  <2> QED
    BY <1>1, <2>1, <2>2 DEF IsNewest, Write, rest
<1>5. CASE \A x \in rest : x.path # p
  BY <1>1, <1>2, <1>5, LayerIs DEF rest
<1> QED
  BY <1>4, <1>5

\* The server's answer to a write, in its order if it keeps one.
LEMMA AckKeeps ==
  ASSUME IInv, NEW w \in allWrites, NEW ok \in BOOLEAN, AckUserWrite(w, ok),
         InOrder => \A x \in allWrites : x.path = w.path => w.id <= x.id
  PROVE  IInv'
<1> DEFINE rest   == allWrites \ {w}
           shadow == VisibleWithout(w, rest)
           old    == view[w.path]
           new    == IF Hidden(w, rest) THEN old
                     ELSE IF ok THEN AckWrite(old, shadow)
                     ELSE RevertWrite(old, shadow)
<1>1. /\ writeIdCounter \in Nat /\ lastWriteId \in Nat \cup {-1}
      /\ allWrites \in SUBSET Write
      /\ visibleWrites \in [Paths -> Values \cup {NoWrite}]
      /\ view \in [Paths -> View] /\ mainQueue \in Seq(Block)
  BY DEF IInv, TypeOK
<1>2. w \in Write /\ w.path \in Paths /\ w.id \in Nat /\ rest \in SUBSET Write
  BY <1>1 DEF Write
<1>3. shadow = Layer(rest, w.path) /\ shadow \in Values \cup {NoWrite}
  BY RemovedWrite, LayerType
<1>4. old \in View /\ new \in View
  BY <1>1, <1>2, ViewsType, SyncTreeAssumption DEF View
<1>5. /\ allWrites' = rest
      /\ visibleWrites' = [visibleWrites EXCEPT ![w.path] = shadow]
      /\ lastWriteId' = IF ~Hidden(w, rest) /\ Overlaps(w, rest)
                        THEN LastId(rest) ELSE lastWriteId
      /\ view' = [view EXCEPT ![w.path] = new]
      /\ mainQueue' = mainQueue \o ValueEvents(old, new) \o <<DoneBlock(w, ok)>>
      /\ UNCHANGED <<writeIdCounter, shown>>
  BY DEF AckUserWrite
<1>6. mainQueue' \in Seq(Block)
  <2>1. DoneBlock(w, ok) \in Block
    BY <1>2 DEF DoneBlock, Block
  <2> QED
    BY <1>4, <1>5, <2>1, QueueType DEF IInv
<1>7. InOrder /\ ~Hidden(w, rest) => shadow = NoWrite
  <2>1. SUFFICES ASSUME InOrder, ~Hidden(w, rest) PROVE shadow = NoWrite
    OBVIOUS
  <2>2. \A x \in rest : x.path # w.path
    <3>1. SUFFICES ASSUME NEW x \in rest, x.path = w.path PROVE FALSE
      OBVIOUS
    <3>2. x.id \in Nat /\ x.id # w.id /\ w.id <= x.id
      BY <1>2, <2>1, <3>1 DEF IInv, WritesStack, Write
    <3> QED
      BY <1>2, <2>1, <3>1, <3>2 DEF Hidden
  <2> QED
    BY <1>3, <2>2 DEF Layer
<1>8. Hidden(w, rest) => shadow = visibleWrites[w.path]
  BY DEF VisibleWithout
<1> HIDE DEF rest, shadow, old, new
<1>9. LastId(rest) \in Nat \cup {-1} /\ LastId(rest) <= writeIdCounter - 1
      /\ \A x \in rest : x.id <= LastId(rest)
  <2>1. CASE writeIdCounter = 0
    <3>1. rest = {}
      BY <1>1, <1>2, <2>1 DEF IInv, WritesStack, Write, rest
    <3> QED
      BY <2>1, <3>1 DEF LastId
  <2>2. CASE writeIdCounter # 0
    <3>1. /\ writeIdCounter - 1 \in Nat
          /\ \A x \in rest : x.id <= writeIdCounter - 1
      BY <1>1, <1>2, <2>2 DEF IInv, WritesStack, Write, rest
    <3> QED
      BY <1>2, <3>1, LastIdIs
  <2> QED
    BY <2>1, <2>2
<1>10. TypeOK'
  BY <1>1, <1>2, <1>3, <1>4, <1>5, <1>6, <1>9 DEF IInv, TypeOK
<1>11. WritesStack'
  <2>1. lastWriteId' < writeIdCounter' /\ \A x \in rest : x.id <= lastWriteId'
    <3>1. CASE ~Hidden(w, rest) /\ Overlaps(w, rest)
      BY <1>1, <1>5, <1>9, <3>1
    <3>2. CASE ~(~Hidden(w, rest) /\ Overlaps(w, rest))
      <4>1. lastWriteId' = lastWriteId
        BY <1>5, <3>2
      <4> QED
        BY <1>5, <4>1 DEF IInv, WritesStack, rest
    <3> QED
      BY <3>1, <3>2
  <2>2. \A x, y \in rest : x.id = y.id => x = y
    BY DEF IInv, WritesStack, rest
  <2> QED
    BY <1>5, <2>1, <2>2 DEF WritesStack
<1>12. VisibleIsLayered'
  <2>1. ASSUME NEW q \in Paths, q # w.path
        PROVE  Layer(rest, q) = Layer(allWrites, q)
    <3>1. \A x : x \in rest /\ x.path = q <=> x \in allWrites /\ x.path = q
      BY <2>1 DEF rest
    <3>2. NewestWrite(rest, q) = NewestWrite(allWrites, q)
      BY <3>1 DEF NewestWrite
    <3> QED
      BY <3>1, <3>2 DEF Layer
  <2> QED
    BY <1>1, <1>2, <1>3, <1>5, <2>1 DEF IInv, VisibleIsLayered
<1>13. ViewIsOverlay'
  <2>1. SUFFICES ASSUME NEW q \in Paths, InOrder, Observed(view'[q])
                 PROVE  /\ visibleWrites'[q] # NoWrite =>
                             /\ view'[q].eventFull
                             /\ view'[q].event = visibleWrites'[q]
                        /\ visibleWrites'[q] = NoWrite /\ view'[q].serverFull =>
                             /\ view'[q].eventFull
                             /\ view'[q].event = view'[q].server
    BY DEF ViewIsOverlay
  <2>2. CASE q # w.path
    BY <1>1, <1>2, <1>5, <2>1, <2>2 DEF IInv, ViewIsOverlay
  <2>3. CASE q = w.path /\ Hidden(w, rest)
    BY <1>1, <1>2, <1>5, <1>8, <2>1, <2>3 DEF IInv, ViewIsOverlay, new, old
  <2>4. CASE q = w.path /\ ~Hidden(w, rest)
    BY <1>1, <1>2, <1>4, <1>5, <1>7, <2>1, <2>4
       DEF new, AckWrite, RevertWrite, ServerOverwrite, Observed, View
  <2> QED
    BY <2>2, <2>3, <2>4
<1>14. UnobservedIsEmpty'
  <2>1. Observed(new) = Observed(old) /\ new.serverFull = old.serverFull
    BY <1>4 DEF new, AckWrite, RevertWrite, ServerOverwrite, Observed, View
  <2> QED
    BY <1>1, <1>2, <1>5, <2>1 DEF IInv, UnobservedIsEmpty, old
<1> QED
  BY <1>10, <1>11, <1>12, <1>13, <1>14 DEF IInv

-----------------------------------------------------------------------------
\* Every step of the client keeps the invariant.
LEMMA StepKeeps == IInv /\ [Next]_vars => IInv'
<1> SUFFICES ASSUME IInv, [Next]_vars PROVE IInv'
  OBVIOUS
<1>1. ASSUME NEW p \in Paths, NEW val \in Values, Set(p, val) PROVE IInv'
  BY <1>1, SetKeeps DEF Set
<1>2. ASSUME NEW p \in Paths, NEW val \in Values, ServerData(p, val) PROVE IInv'
  BY <1>2, ServerOverwriteKeeps DEF ServerData
<1>3. ASSUME NEW p \in Paths, ListenAccepted(p) PROVE IInv'
  <2>1. view[p].server \in Values
    BY DEF IInv, TypeOK, View
  <2> QED
    BY <1>3, <2>1, ServerOverwriteKeeps DEF ListenAccepted, ApplyListenComplete
<1>4. ASSUME NEW p \in Paths, Refuse(p) PROVE IInv'
  BY <1>4, RefuseKeeps DEF Refuse
<1>5. ASSUME NEW w \in allWrites, NEW ok \in BOOLEAN, Answer(w, ok) PROVE IInv'
  BY <1>5, AckKeeps DEF Answer
<1>6. ASSUME NEW h \in Handlers, Observe(h) PROVE IInv'
  BY <1>6, ObserveKeeps DEF Observe
<1>7. ASSUME NEW t \in Tasks, Dispatch(t) PROVE IInv'
  BY <1>7, DispatchKeeps
<1>8. ASSUME NEW ts \in TaskLists, FireEvent(ts) PROVE IInv'
  BY <1>8, FireEventKeeps
<1>9. CASE UNCHANGED vars
  <2>1. TypeOK' /\ ViewIsOverlay' /\ UnobservedIsEmpty'
    BY <1>9 DEF vars, IInv, TypeOK, ViewIsOverlay, UnobservedIsEmpty
  <2>2. WritesStack' /\ VisibleIsLayered'
    BY <1>9, WritesUnchanged DEF vars, IInv
  <2> QED
    BY <2>1, <2>2 DEF IInv
<1> QED
  BY <1>1, <1>2, <1>3, <1>4, <1>5, <1>6, <1>7, <1>8, <1>9 DEF Next

\* The inductive invariant holds of every behaviour of the client.
THEOREM Invariant == Spec => []IInv
  BY Initially, StepKeeps, PTL DEF Spec

\* Every variable of the client keeps its type.
THEOREM Typing == Spec => []TypeOK
<1>1. IInv => TypeOK
  BY DEF IInv
<1> QED
  BY <1>1, Invariant, PTL

\* Pending writes have distinct ids below the next one to be handed out, in
\* any order of the answers.
THEOREM WriteIds == Spec => []WritesStack
<1>1. IInv => WritesStack
  BY DEF IInv
<1> QED
  BY <1>1, Invariant, PTL

\* removeWriteId's shortcuts are right: the visible writes it maintains are
\* the layering of the pending writes.
THEOREM Layering == Spec => []VisibleIsLayered
<1>1. IInv => VisibleIsLayered
  BY DEF IInv
<1> QED
  BY <1>1, Invariant, PTL

\* A view shows the newest unanswered write, or else the server's value,
\* provided that the server answers the writes of a path in order.
THEOREM Overlay == Spec => []ViewIsOverlay
<1>1. IInv => ViewIsOverlay
  BY DEF IInv
<1> QED
  BY <1>1, Invariant, PTL

-----------------------------------------------------------------------------
\* No step takes the server's value away from a view that lives on.
LEMMA SnapStep ==
  ASSUME IInv, [Next]_vars, NEW p \in Paths,
         view[p].serverFull, Observed(view'[p])
  PROVE  view'[p].serverFull
<1>1. view \in [Paths -> View]
  BY DEF IInv, TypeOK
<1>2. ASSUME NEW q \in Paths, NEW val \in Values,
             ApplyUserOverwrite(q, val) \/ ApplyServerOverwrite(q, val)
      PROVE  view'[p].serverFull
  BY <1>1, <1>2 DEF ApplyUserOverwrite, ApplyServerOverwrite, UserOverwrite,
                    ServerOverwrite, Observed, View
<1>3. ASSUME NEW q \in Paths, ListenAccepted(q) PROVE view'[p].serverFull
  <2>1. view[q].server \in Values
    BY <1>1 DEF View
  <2> QED
    BY <1>2, <1>3, <2>1 DEF ListenAccepted, ApplyListenComplete
<1>4. ASSUME NEW q \in Paths, Refuse(q) PROVE view'[p].serverFull
  BY <1>1, <1>4 DEF Refuse, ListenRefused, NoView, Observed
<1>5. ASSUME NEW w \in allWrites, NEW ok \in BOOLEAN, Answer(w, ok)
      PROVE  view'[p].serverFull
  <2>1. w.path \in Paths
    BY DEF IInv, TypeOK, Write
  <2> QED
    BY <1>1, <1>5, <2>1 DEF Answer, AckUserWrite, AckWrite, RevertWrite,
                            ServerOverwrite, Observed, View
<1>6. ASSUME NEW h \in Handlers, Observe(h) PROVE view'[p].serverFull
  <2>1. PathOf[h] \in Paths
    BY SyncTreeAssumption DEF SyncTreeAssumption
  <2>2. Observed(view[p])
    BY DEF IInv, UnobservedIsEmpty
  <2> QED
    BY <1>1, <1>6, <2>1, <2>2 DEF Observe, AddEventRegistration, View
<1>7. ASSUME NEW t \in Tasks, Dispatch(t) PROVE view'[p].serverFull
  BY <1>7 DEF Dispatch
<1>8. ASSUME NEW ts \in TaskLists, FireEvent(ts) PROVE view'[p].serverFull
  BY <1>8 DEF FireEvent
<1>9. CASE UNCHANGED vars
  BY <1>9 DEF vars
<1> QED
  BY <1>2, <1>3, <1>4, <1>5, <1>6, <1>7, <1>8, <1>9 DEF Next, Set, ServerData

\* The assertion that a complete server snap never goes back cannot fail.
THEOREM SnapStays == Spec => ServerSnapStays
<1>1. IInv /\ [Next]_vars =>
        [\A p \in Paths : view[p].serverFull /\ Observed(view'[p])
                            => view'[p].serverFull]_vars
  BY SnapStep
<1> QED
  BY <1>1, Invariant, PTL DEF Spec, ServerSnapStays

-----------------------------------------------------------------------------
\* WillShow, of any queue q and any record s of what the handlers have shown.
For(b, h) == b.kind = "value" /\ b.handler = h

LastIs(q, s, h, val) ==
  \/ s[h] = val /\ \A i \in 1..Len(q) : ~For(q[i], h)
  \/ \E i \in 1..Len(q) :
       /\ For(q[i], h) /\ q[i].val = val
       /\ \A j \in 1..Len(q) : For(q[j], h) => j <= i

\* Whom the three kinds of block are for, and what they carry.
LEMMA BlockFor ==
  /\ \A x, v, h : For(ValueBlock(x, v), h) <=> x = h
  /\ \A x, v : ValueBlock(x, v).val = v
  /\ \A w, ok, h : ~For(DoneBlock(w, ok), h)
  /\ \A t, h : ~For(TaskBlock(t), h)
  BY DEF For, ValueBlock, DoneBlock, TaskBlock

\* LastIs is WillShow of the main queue and of what has been shown.
LEMMA WillShowIs ==
  ASSUME NEW h, NEW val
  PROVE  WillShow(h, val) <=> LastIs(mainQueue, shown, h, val)
<1>1. WillShow(h, val) => LastIs(mainQueue, shown, h, val)
  BY DEF WillShow, PendingEvents, LastIs, For
<1>2. LastIs(mainQueue, shown, h, val) => WillShow(h, val)
  BY DEF WillShow, PendingEvents, LastIs, For
<1> QED
  BY <1>1, <1>2

\* Blocks for others do not change what a handler will show.
LEMMA AppendOther ==
  ASSUME NEW q \in Seq(Block), NEW t \in Seq(Block), NEW s, NEW h, NEW val,
         LastIs(q, s, h, val), \A i \in 1..Len(t) : ~For(t[i], h)
  PROVE  LastIs(q \o t, s, h, val)
<1>1. /\ Len(q) \in Nat /\ Len(t) \in Nat /\ Len(q \o t) = Len(q) + Len(t)
      /\ \A i \in 1..Len(q) + Len(t) :
           (q \o t)[i] = IF i <= Len(q) THEN q[i] ELSE t[i - Len(q)]
  BY ConcatProperties, LenProperties
<1>2. \A i \in 1..Len(q \o t) :
        For((q \o t)[i], h) => i \in 1..Len(q) /\ (q \o t)[i] = q[i]
  <2>1. SUFFICES ASSUME NEW i \in 1..Len(q \o t), For((q \o t)[i], h)
                 PROVE  i \in 1..Len(q) /\ (q \o t)[i] = q[i]
    OBVIOUS
  <2>2. CASE i > Len(q)
    <3>1. i - Len(q) \in 1..Len(t) /\ (q \o t)[i] = t[i - Len(q)]
      BY <1>1, <2>2
    <3> QED
      BY <2>1, <3>1
  <2> QED
    BY <1>1, <2>2
<1>3. \A i \in 1..Len(q) : i \in 1..Len(q \o t) /\ (q \o t)[i] = q[i]
  BY <1>1
<1> QED
  BY <1>1, <1>2, <1>3 DEF LastIs

\* A handler that is sent a value, and no other, will show it.
LEMMA AppendValue ==
  ASSUME NEW q \in Seq(Block), NEW t \in Seq(Block), NEW s, NEW h, NEW val,
         \E i \in 1..Len(t) : For(t[i], h),
         \A i \in 1..Len(t) : For(t[i], h) => t[i].val = val
  PROVE  LastIs(q \o t, s, h, val)
<1>1. /\ Len(q) \in Nat /\ Len(t) \in Nat /\ Len(q \o t) = Len(q) + Len(t)
      /\ \A i \in 1..Len(q) + Len(t) :
           (q \o t)[i] = IF i <= Len(q) THEN q[i] ELSE t[i - Len(q)]
  BY ConcatProperties, LenProperties
<1> DEFINE S == {i \in 1..Len(t) : For(t[i], h)}
<1>2. S \in SUBSET Nat /\ S # {} /\ \A i \in S : i <= Len(t)
  <2>1. S # {}
    OBVIOUS
  <2>2. \A i \in 1..Len(t) : i \in Nat /\ i <= Len(t)
    BY <1>1
  <2> QED
    BY <2>1, <2>2
<1> HIDE DEF S
<1>3. PICK m \in S : \A i \in S : i <= m
  BY <1>1, <1>2, BoundedHasMax
<1>4. m \in 1..Len(t) /\ For(t[m], h) /\ t[m].val = val
  BY <1>3 DEF S
<1>5. Len(q) + m \in 1..Len(q \o t) /\ (q \o t)[Len(q) + m] = t[m]
  BY <1>1, <1>4
<1>6. \A j \in 1..Len(q \o t) : For((q \o t)[j], h) => j <= Len(q) + m
  <2>1. SUFFICES ASSUME NEW j \in 1..Len(q \o t), For((q \o t)[j], h),
                        j > Len(q)
                 PROVE  j <= Len(q) + m
    BY <1>1, <1>4
  <2>2. j - Len(q) \in 1..Len(t) /\ (q \o t)[j] = t[j - Len(q)]
    BY <1>1, <2>1
  <2>3. j - Len(q) \in S
    BY <2>1, <2>2 DEF S
  <2> QED
    BY <1>1, <1>3, <1>4, <2>3
<1> QED
  BY <1>4, <1>5, <1>6 DEF LastIs

\* Running the first block changes what is pending and what is shown, not
\* what will be shown.
LEMMA FireLast ==
  ASSUME NEW q \in Seq(Block), q # <<>>, NEW s \in [Handlers -> Values \cup {NoWrite}],
         NEW h \in Handlers, NEW val, LastIs(q, s, h, val)
  PROVE  LastIs(Tail(q),
                IF Head(q).kind = "value"
                THEN [s EXCEPT ![Head(q).handler] = Head(q).val] ELSE s,
                h, val)
<1> DEFINE r == IF Head(q).kind = "value"
                THEN [s EXCEPT ![Head(q).handler] = Head(q).val] ELSE s
<1>1. /\ Len(q) \in Nat /\ Len(q) > 0 /\ Len(Tail(q)) = Len(q) - 1
      /\ Head(q) = q[1]
      /\ \A i \in 1..Len(Tail(q)) : Tail(q)[i] = q[i + 1]
  BY HeadTailProperties, LenProperties, EmptySeq
<1>2. For(q[1], h) => r[h] = q[1].val
  BY <1>1 DEF For
<1>3. ~For(q[1], h) => r[h] = s[h]
  BY <1>1 DEF For
<1> HIDE DEF r
<1>4. CASE s[h] = val /\ \A i \in 1..Len(q) : ~For(q[i], h)
  <2>1. ~For(q[1], h) /\ \A i \in 1..Len(Tail(q)) : ~For(Tail(q)[i], h)
    BY <1>1, <1>4
  <2> QED
    BY <1>3, <1>4, <2>1 DEF LastIs, r
<1>5. ASSUME NEW i \in 1..Len(q), For(q[i], h), q[i].val = val,
             \A j \in 1..Len(q) : For(q[j], h) => j <= i
      PROVE  LastIs(Tail(q), r, h, val)
  <2>1. CASE i = 1
    <3>1. \A j \in 1..Len(Tail(q)) : ~For(Tail(q)[j], h)
      <4>1. SUFFICES ASSUME NEW j \in 1..Len(Tail(q)), For(Tail(q)[j], h)
                     PROVE  FALSE
        OBVIOUS
      <4>2. j + 1 \in 1..Len(q) /\ For(q[j + 1], h)
        BY <1>1, <4>1
      <4> QED
        BY <1>5, <2>1, <4>2
    <3> QED
      BY <1>2, <1>5, <2>1, <3>1 DEF LastIs
  <2>2. CASE i > 1
    <3>1. i - 1 \in 1..Len(Tail(q)) /\ Tail(q)[i - 1] = q[i]
      BY <1>1, <2>2
    <3>2. \A j \in 1..Len(Tail(q)) : For(Tail(q)[j], h) => j <= i - 1
      <4>1. SUFFICES ASSUME NEW j \in 1..Len(Tail(q)), For(Tail(q)[j], h)
                     PROVE  j <= i - 1
        OBVIOUS
      <4>2. j + 1 \in 1..Len(q) /\ For(q[j + 1], h)
        BY <1>1, <4>1
      <4> QED
        BY <1>1, <1>5, <4>2
    <3> QED
      BY <1>5, <3>1, <3>2 DEF LastIs
  <2> QED
    BY <1>1, <2>1, <2>2
<1> QED
  BY <1>4, <1>5 DEF LastIs, r

\* ObserversCurrent, for one handler.
Registered(v, h) == \E i \in 1..Len(v.regs) : v.regs[i] = h

Current(v, q, s, h) ==
  Registered(v, h) /\ v.eventFull => LastIs(q, s, h, v.event)

AllCurrent ==
  \A h \in Handlers : Current(view[PathOf[h]], mainQueue, shown, h)

\* The property of every handler, one by one.
LEMMA ObserversCurrentIs == AllCurrent <=> ObserversCurrent
  BY WillShowIs DEF AllCurrent, ObserversCurrent, Current, Registered

\* A view changes and its value events are dispatched: whoever is registered
\* with it is current again.
LEMMA EventsKeepCurrent ==
  ASSUME NEW old \in View, NEW new \in View, new.regs = old.regs,
         NEW q \in Seq(Block), NEW s, NEW h, Current(old, q, s, h)
  PROVE  Current(new, q \o ValueEvents(old, new), s, h)
<1> DEFINE t == ValueEvents(old, new)
<1>1. t \in Seq(Block)
  BY ValueEventsType
<1>2. SUFFICES ASSUME Registered(new, h), new.eventFull
               PROVE  LastIs(q \o t, s, h, new.event)
  BY DEF Current
<1>3. CASE ~old.eventFull \/ new.event # old.event
  <2>1. t = [i \in 1..Len(new.regs) |-> ValueBlock(new.regs[i], new.event)]
    BY <1>2, <1>3 DEF ValueEvents
  <2>2. Len(new.regs) \in Nat
    BY LenProperties DEF View
  <2>3. Len(t) = Len(new.regs)
    BY <2>1, <2>2
  <2>4. \A i \in 1..Len(t) : t[i] = ValueBlock(new.regs[i], new.event)
    BY <2>1, <2>3
  <2> HIDE DEF t
  <2>5. \A i \in 1..Len(t) : For(t[i], h) <=> new.regs[i] = h
    BY <2>4, BlockFor
  <2>6. \E i \in 1..Len(t) : For(t[i], h)
    BY <1>2, <2>3, <2>5 DEF Registered
  <2>7. \A i \in 1..Len(t) : For(t[i], h) => t[i].val = new.event
    BY <2>4, BlockFor
  <2> QED
    BY <1>1, <2>6, <2>7, AppendValue DEF t
<1>4. CASE old.eventFull /\ new.event = old.event
  <2>1. t = <<>>
    BY <1>4 DEF ValueEvents
  <2>2. LastIs(q, s, h, new.event)
    BY <1>2, <1>4 DEF Current, Registered
  <2> QED
    BY <2>1, <2>2, ConcatEmptySeq
<1> QED
  BY <1>3, <1>4

\* Blocks for others keep a handler current.
LEMMA OthersKeepCurrent ==
  ASSUME NEW v, NEW q \in Seq(Block), NEW t \in Seq(Block), NEW s, NEW h,
         Current(v, q, s, h), \A i \in 1..Len(t) : ~For(t[i], h)
  PROVE  Current(v, q \o t, s, h)
  BY AppendOther DEF Current

\* The value events of one path are none of the business of another's handlers.
LEMMA EventsForOthers ==
  ASSUME NEW old \in View, NEW new \in View, NEW h, ~Registered(new, h)
  PROVE  \A i \in 1..Len(ValueEvents(old, new)) :
           ~For(ValueEvents(old, new)[i], h)
<1> DEFINE t == [i \in 1..Len(new.regs) |-> ValueBlock(new.regs[i], new.event)]
<1>1. Len(new.regs) \in Nat
  BY LenProperties DEF View
<1>2. \A i \in 1..Len(t) : ~For(t[i], h)
  BY <1>1 DEF For, ValueBlock, Registered
<1>3. \A i \in 1..Len(<<>>) : ~For(<<>>[i], h)
  BY EmptySeq
<1> QED
  BY <1>2, <1>3 DEF ValueEvents

\* A handler is registered with the view of its own path only.
OwnRegistrations ==
  \A p \in Paths : \A i \in 1..Len(view[p].regs) : PathOf[view[p].regs[i]] = p

CInv == IInv /\ OwnRegistrations /\ AllCurrent

\* The three ways in which a view changes: a write, server data, an answer.
LEMMA ViewStepKeepsCurrent ==
  ASSUME CInv, NEW p \in Paths, NEW new \in View, new.regs = view[p].regs,
         NEW t \in Seq(Block), \A i \in 1..Len(t) : t[i].kind # "value",
         view' = [view EXCEPT ![p] = new],
         mainQueue' = mainQueue \o ValueEvents(view[p], new) \o t,
         shown' = shown
  PROVE  OwnRegistrations' /\ AllCurrent'
<1>1. view \in [Paths -> View] /\ mainQueue \in Seq(Block)
  BY DEF CInv, IInv, TypeOK
<1>2. OwnRegistrations'
  BY <1>1 DEF CInv, OwnRegistrations
<1> DEFINE e == ValueEvents(view[p], new)
<1>3. e \in Seq(Block) /\ mainQueue \o e \in Seq(Block)
  BY <1>1, ValueEventsType, ConcatProperties
<1>4. ASSUME NEW h \in Handlers
      PROVE  Current(view'[PathOf[h]], mainQueue', shown', h)
  <2>1. PathOf[h] \in Paths
    BY SyncTreeAssumption DEF SyncTreeAssumption
  <2>2. Current(view[PathOf[h]], mainQueue, shown, h)
    BY DEF CInv, AllCurrent
  <2>3. \A i \in 1..Len(t) : ~For(t[i], h)
    BY DEF For
  <2>4. Current(view'[PathOf[h]], mainQueue \o e, shown, h)
    <3>1. CASE PathOf[h] = p
      BY <1>1, <2>2, <3>1, EventsKeepCurrent
    <3>2. CASE PathOf[h] # p
      <4>1. ~Registered(new, h)
        BY <1>1, <3>2 DEF CInv, OwnRegistrations, Registered
      <4>2. \A i \in 1..Len(e) : ~For(e[i], h)
        BY <1>1, <4>1, EventsForOthers
      <4>3. view'[PathOf[h]] = view[PathOf[h]]
        BY <1>1, <2>1, <3>2
      <4> HIDE DEF e
      <4> QED
        BY <1>1, <1>3, <2>2, <4>2, <4>3, OthersKeepCurrent
    <3> QED
      BY <3>1, <3>2
  <2> HIDE DEF e
  <2>5. Current(view'[PathOf[h]], (mainQueue \o e) \o t, shown, h)
    BY <1>3, <2>3, <2>4, OthersKeepCurrent
  <2> QED
    BY <2>5 DEF e
<1>5. AllCurrent'
  BY <1>4 DEF AllCurrent
<1> QED
  BY <1>2, <1>5

\* Each step of the view processor keeps the registrations.
LEMMA RegsKept ==
  ASSUME NEW v \in View, NEW val, NEW shadow
  PROVE  /\ UserOverwrite(v, val).regs = v.regs
         /\ ServerOverwrite(v, val, shadow).regs = v.regs
         /\ AckWrite(v, shadow).regs = v.regs
         /\ RevertWrite(v, shadow).regs = v.regs
  BY DEF View, UserOverwrite, ServerOverwrite, AckWrite, RevertWrite

\* A write and a data message dispatch the value they leave in the view.
LEMMA CurrentWrites ==
  ASSUME CInv, NEW p \in Paths, NEW val \in Values,
         ApplyUserOverwrite(p, val) \/ ApplyServerOverwrite(p, val)
  PROVE  OwnRegistrations' /\ AllCurrent'
<1> DEFINE new == IF ApplyUserOverwrite(p, val) THEN UserOverwrite(view[p], val)
                  ELSE ServerOverwrite(view[p], val, visibleWrites[p])
<1>1. view \in [Paths -> View] /\ mainQueue \in Seq(Block)
  BY DEF CInv, IInv, TypeOK
<1>2. new \in View /\ new.regs = view[p].regs
  BY <1>1, ViewsType, RegsKept, SyncTreeAssumption
<1>3. /\ view' = [view EXCEPT ![p] = new] /\ shown' = shown
      /\ mainQueue' = mainQueue \o ValueEvents(view[p], new)
  BY DEF ApplyUserOverwrite, ApplyServerOverwrite
<1> HIDE DEF new
<1>4. mainQueue \o ValueEvents(view[p], new) \in Seq(Block)
  BY <1>1, <1>2, ValueEventsType, ConcatProperties
<1>5. mainQueue' = mainQueue \o ValueEvents(view[p], new) \o <<>>
  BY <1>3, <1>4, ConcatEmptySeq
<1>6. <<>> \in Seq(Block) /\ \A i \in 1..Len(<<>>) : <<>>[i].kind # "value"
  BY EmptySeq
<1> QED
  BY <1>2, <1>3, <1>5, <1>6, ViewStepKeepsCurrent

\* So does an answer, before the completion block.
LEMMA CurrentAck ==
  ASSUME CInv, NEW w \in allWrites, NEW ok \in BOOLEAN, AckUserWrite(w, ok)
  PROVE  OwnRegistrations' /\ AllCurrent'
<1> DEFINE rest   == allWrites \ {w}
           shadow == VisibleWithout(w, rest)
           old    == view[w.path]
           new    == IF Hidden(w, rest) THEN old
                     ELSE IF ok THEN AckWrite(old, shadow)
                     ELSE RevertWrite(old, shadow)
           t      == <<DoneBlock(w, ok)>>
<1>1. w \in Write /\ w.path \in Paths /\ view \in [Paths -> View]
  BY DEF CInv, IInv, TypeOK, Write
<1>2. view[w.path] \in View
  BY <1>1
<1>3. new \in View /\ new.regs = view[w.path].regs
  <2>1. view[w.path].server \in Values
    BY <1>2 DEF View
  <2> QED
    BY <1>2, <2>1, ViewsType, RegsKept, SyncTreeAssumption
<1>4. /\ view' = [view EXCEPT ![w.path] = new] /\ shown' = shown
      /\ mainQueue' = mainQueue \o ValueEvents(view[w.path], new) \o t
  BY DEF AckUserWrite
<1>5. DoneBlock(w, ok) \in Block /\ DoneBlock(w, ok).kind = "done"
  BY <1>1 DEF DoneBlock, Block
<1>6. t \in Seq(Block) /\ \A i \in 1..Len(t) : t[i].kind # "value"
  BY <1>5
<1> HIDE DEF new, t
<1> QED
  BY <1>1, <1>3, <1>4, <1>6, ViewStepKeepsCurrent

\* A refused listen leaves no handler registered.
LEMMA CurrentRefuse ==
  ASSUME CInv, NEW p \in Paths, ListenRefused(p)
  PROVE  OwnRegistrations' /\ AllCurrent'
<1>1. /\ view' = [view EXCEPT ![p] = NoView] /\ view \in [Paths -> View]
      /\ UNCHANGED <<mainQueue, shown>>
  BY DEF CInv, IInv, TypeOK, ListenRefused
<1>2. NoView.regs = <<>> /\ ~NoView.eventFull
  BY DEF NoView
<1>3. OwnRegistrations'
  BY <1>1, <1>2, EmptySeq DEF CInv, OwnRegistrations
<1>4. AllCurrent'
  <2>1. SUFFICES ASSUME NEW h \in Handlers
                 PROVE  Current(view'[PathOf[h]], mainQueue', shown', h)
    BY DEF AllCurrent
  <2>2. PathOf[h] \in Paths /\ Current(view[PathOf[h]], mainQueue, shown, h)
    BY SyncTreeAssumption DEF CInv, AllCurrent, SyncTreeAssumption
  <2> QED
    BY <1>1, <1>2, <2>2 DEF Current
<1> QED
  BY <1>3, <1>4

\* A new registration is told the value that is known.
LEMMA CurrentObserve ==
  ASSUME CInv, NEW g \in Handlers, AddEventRegistration(g)
  PROVE  OwnRegistrations' /\ AllCurrent'
<1> DEFINE p   == PathOf[g]
           old == IF Observed(view[p]) THEN view[p] ELSE FreshView(p)
           new == [old EXCEPT !.regs = Append(old.regs, g)]
           t   == IF old.eventFull THEN <<ValueBlock(g, old.event)>> ELSE <<>>
<1>1. /\ p \in Paths /\ view \in [Paths -> View]
      /\ visibleWrites \in [Paths -> Values \cup {NoWrite}]
      /\ mainQueue \in Seq(Block)
  BY SyncTreeAssumption DEF CInv, IInv, TypeOK, SyncTreeAssumption
<1>2. old \in View
  BY <1>1, SyncTreeAssumption, EmptySeq
     DEF FreshView, NoView, View, SyncTreeAssumption
<1>3. old.regs = view[p].regs
  BY <1>1 DEF FreshView, NoView, Observed
<1>4. /\ old.regs \in Seq(Handlers) /\ old.event \in Values
      /\ Append(old.regs, g) \in Seq(Handlers)
      /\ new.regs = Append(old.regs, g) /\ new.event = old.event
      /\ new.eventFull = old.eventFull
  BY <1>2, AppendProperties DEF View
<1>5. /\ Len(old.regs) \in Nat /\ Len(new.regs) = Len(old.regs) + 1
      /\ \A i \in 1..Len(old.regs) : new.regs[i] = old.regs[i]
      /\ new.regs[Len(old.regs) + 1] = g
  BY <1>4, AppendProperties, LenProperties
<1>6. ValueBlock(g, old.event) \in Block /\ For(ValueBlock(g, old.event), g)
  BY <1>4 DEF ValueBlock, Block, For
<1>7. t \in Seq(Block)
  BY <1>6, EmptySeq
<1>8. /\ view' = [view EXCEPT ![p] = new] /\ shown' = shown
      /\ mainQueue' = mainQueue \o t
  <2>1. Append(mainQueue, ValueBlock(g, old.event)) =
          mainQueue \o <<ValueBlock(g, old.event)>>
    BY <1>1, <1>6, AppendIsConcat
  <2>2. mainQueue = mainQueue \o <<>>
    BY <1>1, ConcatEmptySeq
  <2> QED
    BY <2>1, <2>2 DEF AddEventRegistration
<1>9. OwnRegistrations'
  <2>1. SUFFICES ASSUME NEW q \in Paths, NEW i \in 1..Len(view'[q].regs)
                 PROVE  PathOf[view'[q].regs[i]] = q
    BY DEF OwnRegistrations
  <2>2. CASE q # p
    BY <1>1, <1>8, <2>1, <2>2 DEF CInv, OwnRegistrations
  <2>3. CASE q = p
    <3>1. view'[q] = new
      BY <1>1, <1>8, <2>3
    <3> HIDE DEF new, old, t
    <3>2. CASE i \in 1..Len(old.regs)
      BY <1>1, <1>3, <1>5, <2>3, <3>1, <3>2 DEF CInv, OwnRegistrations
    <3>3. CASE i = Len(old.regs) + 1
      BY <1>5, <2>3, <3>1, <3>3
    <3> QED
      BY <1>5, <2>1, <3>1, <3>2, <3>3
  <2> QED
    BY <2>2, <2>3
<1>10. AllCurrent'
  <2>1. SUFFICES ASSUME NEW h \in Handlers
                 PROVE  Current(view'[PathOf[h]], mainQueue \o t, shown, h)
    BY <1>8 DEF AllCurrent
  <2>2. PathOf[h] \in Paths /\ Current(view[PathOf[h]], mainQueue, shown, h)
    BY SyncTreeAssumption DEF CInv, AllCurrent, SyncTreeAssumption
  <2>3. CASE h # g
    <3>1. \A i \in 1..Len(t) : ~For(t[i], h)
      BY <2>3 DEF For, ValueBlock
    <3>2. Current(view[PathOf[h]], mainQueue \o t, shown, h)
      <4> HIDE DEF t
      <4> QED
        BY <1>1, <1>7, <2>2, <3>1, OthersKeepCurrent
    <3>3. CASE PathOf[h] # p
      BY <1>1, <1>8, <2>2, <3>2, <3>3
    <3>4. CASE PathOf[h] = p
      <4>1. view'[PathOf[h]] = new
        BY <1>1, <1>8, <3>4
      <4>2. Registered(new, h) => Registered(view[p], h)
        <5> HIDE DEF new, old
        <5>1. SUFFICES ASSUME NEW i \in 1..Len(new.regs), new.regs[i] = h
                       PROVE  \E j \in 1..Len(view[p].regs) :
                                view[p].regs[j] = h
          BY DEF Registered
        <5>2. i \in 1..Len(old.regs)
          BY <1>5, <2>3, <5>1
        <5> QED
          BY <1>3, <1>5, <5>1, <5>2
      <4>3. Registered(view[p], h) => Observed(view[p])
        BY EmptySeq DEF Registered, Observed
      <4>4. Registered(new, h) => old = view[p]
        BY <4>2, <4>3
      <4> HIDE DEF new, old, t
      <4> QED
        BY <1>4, <3>2, <3>4, <4>1, <4>2, <4>4 DEF Current
    <3> QED
      BY <3>3, <3>4
  <2>4. CASE h = g
    <3>1. view'[PathOf[h]] = new
      BY <1>1, <1>8, <2>4
    <3>2. SUFFICES ASSUME old.eventFull
                   PROVE  LastIs(mainQueue \o t, shown, h, old.event)
      BY <1>4, <3>1 DEF Current
    <3>3. t = <<ValueBlock(g, old.event)>>
      BY <3>2
    <3>4. /\ \E i \in 1..Len(t) : For(t[i], h)
          /\ \A i \in 1..Len(t) : For(t[i], h) => t[i].val = old.event
      BY <1>6, <2>4, <3>3 DEF ValueBlock
    <3> HIDE DEF t, old
    <3> QED
      BY <1>1, <1>7, <3>4, AppendValue
  <2> QED
    BY <2>3, <2>4
<1> QED
  BY <1>9, <1>10

\* A block that runs shows what it was to show; the others still will.
LEMMA CurrentMainQueue ==
  ASSUME CInv,
         \/ \E t \in Tasks : Dispatch(t)
         \/ \E ts \in TaskLists : FireEvent(ts)
  PROVE  OwnRegistrations' /\ AllCurrent'
<1>1. /\ view \in [Paths -> View] /\ mainQueue \in Seq(Block)
      /\ shown \in [Handlers -> Values \cup {NoWrite}]
  BY DEF CInv, IInv, TypeOK
<1>2. view' = view
  BY DEF Dispatch, FireEvent
<1>3. OwnRegistrations'
  BY <1>2 DEF CInv, OwnRegistrations
<1>4. ASSUME NEW h \in Handlers
      PROVE  Current(view[PathOf[h]], mainQueue, shown, h)
  BY DEF CInv, AllCurrent
<1>5. ASSUME NEW t \in Tasks
      PROVE  /\ <<TaskBlock(t)>> \in Seq(Block)
             /\ \A h, i \in 1..Len(<<TaskBlock(t)>>) :
                  ~For(<<TaskBlock(t)>>[i], h)
  BY DEF TaskBlock, Block, For
<1>6. ASSUME NEW t \in Tasks, Dispatch(t), NEW h \in Handlers
      PROVE  Current(view'[PathOf[h]], mainQueue', shown', h)
  <2>1. mainQueue' = mainQueue \o <<TaskBlock(t)>> /\ shown' = shown
    BY <1>1, <1>5, <1>6, AppendIsConcat DEF Dispatch, TaskBlock, Block
  <2>2. \A i \in 1..Len(<<TaskBlock(t)>>) : ~For(<<TaskBlock(t)>>[i], h)
    BY DEF TaskBlock, For
  <2> QED
    BY <1>1, <1>2, <1>4, <1>5, <2>1, <2>2, OthersKeepCurrent
<1>7. ASSUME NEW ts \in TaskLists, FireEvent(ts), NEW h \in Handlers
      PROVE  Current(view'[PathOf[h]], mainQueue', shown', h)
  <2>1. ts \in Seq(Block) /\ \A i \in 1..Len(ts) : ~For(ts[i], h)
    <3>1. CASE ts = <<>>
      BY <3>1, EmptySeq
    <3>2. CASE \E t \in Tasks : ts = <<TaskBlock(t)>>
      <4>1. PICK t \in Tasks : ts = <<TaskBlock(t)>>
        BY <3>2
      <4>2. Len(ts) = 1 /\ ts[1] = TaskBlock(t)
        BY <4>1
      <4> QED
        BY <1>5, <4>1, <4>2, BlockFor
    <3> QED
      BY <1>7, <3>1, <3>2 DEF TaskLists
  <2>2. Current(view[PathOf[h]], Tail(mainQueue), shown', h)
    BY <1>1, <1>4, <1>7, FireLast DEF Current, FireEvent
  <2>3. Tail(mainQueue) \in Seq(Block)
    BY <1>1, <1>7, HeadTailProperties DEF FireEvent
  <2>4. mainQueue' = Tail(mainQueue) \o ts
    BY <1>7 DEF FireEvent
  <2> QED
    BY <1>2, <2>1, <2>2, <2>3, <2>4, OthersKeepCurrent
<1>8. AllCurrent'
  BY <1>6, <1>7 DEF AllCurrent
<1> QED
  BY <1>3, <1>8

\* Each step keeps every registered handler current.
LEMMA CurrentStep == CInv /\ [Next]_vars => CInv'
<1> SUFFICES ASSUME CInv, [Next]_vars PROVE CInv'
  OBVIOUS
<1>1. IInv'
  BY StepKeeps DEF CInv
<1>2. ASSUME NEW p \in Paths, NEW val \in Values,
             Set(p, val) \/ ServerData(p, val)
      PROVE  OwnRegistrations' /\ AllCurrent'
  BY <1>2, CurrentWrites DEF Set, ServerData
<1>3. ASSUME NEW p \in Paths, ListenAccepted(p)
      PROVE  OwnRegistrations' /\ AllCurrent'
  <2>1. view[p].server \in Values
    BY DEF CInv, IInv, TypeOK, View
  <2> QED
    BY <1>3, <2>1, CurrentWrites DEF ListenAccepted, ApplyListenComplete
<1>4. ASSUME NEW p \in Paths, Refuse(p) PROVE OwnRegistrations' /\ AllCurrent'
  BY <1>4, CurrentRefuse DEF Refuse
<1>5. ASSUME NEW w \in allWrites, NEW ok \in BOOLEAN, Answer(w, ok)
      PROVE  OwnRegistrations' /\ AllCurrent'
  BY <1>5, CurrentAck DEF Answer
<1>6. ASSUME NEW h \in Handlers, Observe(h)
      PROVE  OwnRegistrations' /\ AllCurrent'
  BY <1>6, CurrentObserve DEF Observe
<1>7. ASSUME \/ \E t \in Tasks : Dispatch(t)
             \/ \E ts \in TaskLists : FireEvent(ts)
      PROVE  OwnRegistrations' /\ AllCurrent'
  BY <1>7, CurrentMainQueue
<1>8. ASSUME UNCHANGED vars PROVE OwnRegistrations' /\ AllCurrent'
  BY <1>8 DEF vars, CInv, OwnRegistrations, AllCurrent
<1> QED
  BY <1>1, <1>2, <1>3, <1>4, <1>5, <1>6, <1>7, <1>8 DEF Next, CInv

\* Nobody observes anything yet.
LEMMA CurrentInitially == Init => CInv
<1> SUFFICES ASSUME Init PROVE CInv
  OBVIOUS
<1>1. \A p \in Paths : view[p] = NoView
  BY DEF Init
<1>2. OwnRegistrations
  BY <1>1, EmptySeq DEF OwnRegistrations, NoView
<1>3. AllCurrent
  BY <1>1, SyncTreeAssumption
     DEF AllCurrent, Current, NoView, SyncTreeAssumption
<1> QED
  BY <1>2, <1>3, Initially DEF CInv

\* Although value events are raised only when the client believes a value to
\* have changed, no registered callback is left with another value than its
\* view's: the last event sent to it carries that value.
THEOREM NobodyLeftBehind == Spec => []ObserversCurrent
<1>1. CInv => ObserversCurrent
  BY ObserversCurrentIs DEF CInv
<1> QED
  BY <1>1, CurrentInitially, CurrentStep, PTL DEF Spec
=============================================================================
