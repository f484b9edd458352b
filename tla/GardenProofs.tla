---------------------------- MODULE GardenProofs ----------------------------
(***************************************************************************)
(* What the screens show and write, for any number of rows, speeds, limits *)
(* and thresholds, and any writes of others: the control screen and the    *)
(* settings screen beside anything else the app does, the pump's slider,   *)
(* and the three tabs of the app together.                                 *)
(***************************************************************************)
EXTENDS Garden, PumpScreen, ServiceProofs

-----------------------------------------------------------------------------
(* The overlay.  Nobody counts its users, but each of them has asked for   *)
(* something that will dismiss it: a callback of one of the handlers Hs,   *)
(* or the completion of a write of one of the leaves Ts.                   *)

IsShow(b) == b.kind = "task" /\ b.task = "show"

\* Does b dismiss the overlay, or dispatch a block that does?
Hides(b, Hs, Ts) ==
  \/ b.kind = "task" /\ b.task = "hide"
  \/ b.kind = "value" /\ b.handler \in Hs
  \/ b.kind = "done" /\ b.write.path \in Ts

HideDue(q, Hs, Ts) == \E k \in 1..Len(q) : Hides(q[k], Hs, Ts)

NoShow(q) == \A k \in 1..Len(q) : ~IsShow(q[k])

\* Each show of q comes before a block that undoes it.
Covered(q, Hs, Ts) ==
  \A k \in 1..Len(q) : IsShow(q[k]) => \E j \in 1..Len(q) : k < j /\ Hides(q[j], Hs, Ts)

\* Is there a first call of one of Hs to come, or an answer to a write of Ts?
HideComing(Hs, Ts) ==
  \/ \E h \in Hs : AskedFor(sharedQueue, h) \/ (Watches(view, h) /\ ~Fed(view, h))
  \/ \E k \in 1..Len(sharedQueue) : \E p \in Ts : IsSet(sharedQueue[k], p)
  \/ \E w \in allWrites : w.path \in Ts

\* The overlay is or will be taken down.
Overlay(Hs, Ts) ==
  /\ viewBackground => alpha = 1
  /\ viewBackground => hideAnimations > 0 \/ HideDue(mainQueue, Hs, Ts) \/ HideComing(Hs, Ts)
  /\ Covered(mainQueue, Hs, Ts) \/ HideComing(Hs, Ts)
  /\ hideAnimations \in Nat

LEMMA HideDueJoined ==
  ASSUME NEW D, NEW q \in Seq(D), NEW t \in Seq(D), NEW Hs, NEW Ts
  PROVE  HideDue(q \o t, Hs, Ts) <=> HideDue(q, Hs, Ts) \/ HideDue(t, Hs, Ts)
<1> DEFINE u == q \o t
<1>1. Together(q, t, u)
  BY Joined
<1> HIDE DEF u
<1>2. HideDue(u, Hs, Ts) <=> HideDue(q, Hs, Ts) \/ HideDue(t, Hs, Ts)
  BY <1>1 DEF HideDue, Together
<1> QED
  BY <1>2 DEF u

\* More blocks without a show, or with one that undoes them all.
LEMMA CoveredJoined ==
  ASSUME NEW D, NEW q \in Seq(D), NEW t \in Seq(D), NEW Hs, NEW Ts, NoShow(t),
         Covered(q, Hs, Ts) \/ HideDue(t, Hs, Ts)
  PROVE  Covered(q \o t, Hs, Ts)
<1> DEFINE u == q \o t
<1>1. Together(q, t, u)
  BY Joined
<1> HIDE DEF u
<1>2. SUFFICES ASSUME NEW k \in 1..Len(u), IsShow(u[k])
               PROVE  \E j \in 1..Len(u) : k < j /\ Hides(u[j], Hs, Ts)
  BY DEF Covered, u
<1>3. k \in 1..Len(q) /\ u[k] = q[k] /\ Len(q) \in Nat
  BY <1>1, <1>2 DEF Together, NoShow
<1>4. CASE Covered(q, Hs, Ts)
  <2>1. PICK j \in 1..Len(q) : k < j /\ Hides(q[j], Hs, Ts)
    BY <1>2, <1>3, <1>4 DEF Covered
  <2> QED
    BY <1>1, <2>1 DEF Together
<1>5. CASE HideDue(t, Hs, Ts)
  <2>1. PICK j \in 1..Len(t) : Hides(t[j], Hs, Ts)
    BY <1>5 DEF HideDue
  <2>2. Len(q) + j \in 1..Len(u) /\ u[Len(q) + j] = t[j] /\ k < Len(q) + j
    BY <1>1, <1>3, <2>1 DEF Together
  <2> QED
    BY <2>1, <2>2
<1> QED
  BY <1>4, <1>5

\* One block less.
LEMMA HidesShortened ==
  ASSUME NEW D, NEW q \in Seq(D), q # <<>>, NEW Hs, NEW Ts
  PROVE  /\ HideDue(q, Hs, Ts) => HideDue(Tail(q), Hs, Ts) \/ Hides(Head(q), Hs, Ts)
         /\ Covered(q, Hs, Ts) => Covered(Tail(q), Hs, Ts)
         /\ Covered(q, Hs, Ts) /\ IsShow(Head(q)) => HideDue(Tail(q), Hs, Ts)
<1> DEFINE x == Head(q)
           t == Tail(q)
<1>1. Without(q, x, t)
  BY Shortened
<1>2. /\ Len(q) \in Nat /\ Len(q) > 0 /\ x = q[1] /\ Len(t) = Len(q) - 1
      /\ \A k \in 1..Len(t) : t[k] = q[k + 1]
  BY HeadTailProperties, LenProperties, EmptySeq
<1> HIDE DEF x, t
<1>3. HideDue(q, Hs, Ts) => HideDue(t, Hs, Ts) \/ Hides(x, Hs, Ts)
  BY <1>1 DEF HideDue, Without
<1>4. ASSUME Covered(q, Hs, Ts), NEW k \in 1..Len(q), IsShow(q[k])
      PROVE  \E j \in 1..Len(t) : k < j + 1 /\ Hides(t[j], Hs, Ts)
  <2>1. PICK j \in 1..Len(q) : k < j /\ Hides(q[j], Hs, Ts)
    BY <1>4 DEF Covered
  <2>2. j - 1 \in 1..Len(t) /\ t[j - 1] = q[j] /\ k < (j - 1) + 1
    BY <1>2, <2>1
  <2> QED
    BY <2>1, <2>2
<1>5. Covered(q, Hs, Ts) => Covered(t, Hs, Ts)
  <2> SUFFICES ASSUME Covered(q, Hs, Ts), NEW k \in 1..Len(t), IsShow(t[k])
               PROVE  \E j \in 1..Len(t) : k < j /\ Hides(t[j], Hs, Ts)
    BY DEF Covered
  <2>1. k + 1 \in 1..Len(q) /\ IsShow(q[k + 1])
    BY <1>2
  <2>2. PICK j \in 1..Len(t) : k + 1 < j + 1 /\ Hides(t[j], Hs, Ts)
    BY <1>4, <2>1
  <2> QED
    BY <2>2
<1>6. Covered(q, Hs, Ts) /\ IsShow(x) => HideDue(t, Hs, Ts)
  BY <1>2, <1>4 DEF HideDue
<1> QED
  BY <1>3, <1>5, <1>6 DEF x, t

\* What is to come, comes, or is still to come.
LEMMA ComingStays ==
  ASSUME DatabaseInv, Heard, ServiceNext, NEW Hs \in SUBSET Handlers, NEW Ts, NEW t, Raised(t),
         RunObserve /\ Fed(view', Head(sharedQueue).handler) => Due(t, Head(sharedQueue).handler),
         HideComing(Hs, Ts)
  PROVE  HideDue(t, Hs, Ts) \/ HideComing(Hs, Ts)'
<1>1. \A h \in Hs : Due(t, h) => HideDue(t, Hs, Ts)
  BY DEF Due, ClientP!For, HideDue, Hides
<1>2. ASSUME NEW h \in Hs, AskedFor(sharedQueue, h)
      PROVE  HideDue(t, Hs, Ts) \/ HideComing(Hs, Ts)'
  <2>1. CASE RunSet
    <3>1. ~IsObserve(Head(sharedQueue), h)
      BY <2>1, RunSetTakes DEF IsSet, IsObserve
    <3>2. AskedFor(sharedQueue, h) => AskedFor(sharedQueue', h)
      BY <2>1, <3>1, RunSetTakes, AskedShortened
    <3> QED
      BY <1>2, <3>2 DEF HideComing
  <2>2. CASE RunObserve
    <3> DEFINE x == Head(sharedQueue).handler
    <3>1. AskedFor(sharedQueue', h) \/ x = h
      BY <1>2, <2>2, RunObserveTakes, AskedShortened DEF IsObserve
    <3>2. Client!TypeOK /\ ClientP!OwnRegistrations
      BY DatabaseTypes DEF DatabaseInv, ClientP!CInv
    <3>3. Watches(view', x)
      BY <2>2, <3>2, RunObserveTakes, ObserveRaises
    <3>4. Fed(view', x) => Due(t, x)
      BY <2>2
    <3> QED
      BY <1>1, <3>1, <3>3, <3>4 DEF HideComing
  <2>3. CASE sharedQueue' = sharedQueue
    BY <1>2, <2>3 DEF HideComing
  <2> QED
    BY <2>1, <2>2, <2>3, CallsTaken
<1>3. ASSUME NEW h \in Hs, Watches(view, h), ~Fed(view, h)
      PROVE  HideDue(t, Hs, Ts) \/ HideComing(Hs, Ts)'
  <2>1. Watches(view', h)
    BY <1>3 DEF Raised
  <2>2. Fed(view', h) => Due(t, h)
    BY <1>3, FirstCall
  <2> QED
    BY <1>1, <2>1, <2>2 DEF HideComing
<1>4. ASSUME NEW k \in 1..Len(sharedQueue), NEW p \in Ts, IsSet(sharedQueue[k], p)
      PROVE  HideComing(Hs, Ts)'
  <2>1. CASE sharedQueue' = sharedQueue
    BY <1>4, <2>1 DEF HideComing
  <2>2. CASE RunSet \/ RunObserve
    <3> DEFINE x == Head(sharedQueue)
               s == Tail(sharedQueue)
    <3>1. sharedQueue # <<>> /\ sharedQueue' = s
      BY <2>2, RunSetTakes, RunObserveTakes
    <3>2. Without(sharedQueue, x, s)
      BY <3>1, DatabaseTypes, Shortened
    <3>3. RunObserve => ~IsSet(x, p)
      BY DEF RunObserve, IsSet
    <3>4. RunSet => \E w \in allWrites' : w.path = x.path
      <4> DEFINE w == [id |-> writeIdCounter, path |-> x.path, val |-> x.val]
      <4> HIDE DEF x
      <4>1. w.path = x.path
        OBVIOUS
      <4>2. RunSet => w \in allWrites'
        BY RunSetTakes DEF Client!ApplyUserOverwrite, x
      <4> QED
        BY <4>1, <4>2
    <3> HIDE DEF x, s
    <3>5. (\E j \in 1..Len(s) : IsSet(s[j], p)) \/ IsSet(x, p)
      BY <1>4, <3>2 DEF Without
    <3>6. CASE \E j \in 1..Len(s) : IsSet(s[j], p)
      BY <3>1, <3>6 DEF HideComing
    <3>7. CASE IsSet(x, p)
      BY <2>2, <3>3, <3>4, <3>7 DEF HideComing, IsSet
    <3> QED
      BY <3>5, <3>6, <3>7
  <2> QED
    BY <2>1, <2>2, CallsTaken
<1>5. ASSUME NEW w \in allWrites, w.path \in Ts
      PROVE  HideDue(t, Hs, Ts) \/ HideComing(Hs, Ts)'
  <2>1. w \in allWrites' \/ \E k \in 1..Len(t) : t[k].kind = "done" /\ t[k].write = w
    BY DEF Raised
  <2> QED
    BY <1>5, <2>1 DEF HideComing, HideDue, Hides
<1> QED
  BY <1>2, <1>3, <1>4, <1>5 DEF HideComing

LEMMA OverlayBelow ==
  ASSUME DatabaseInv, Heard, ServiceNext, UNCHANGED hudVars,
         NEW Hs \in SUBSET Handlers, NEW Ts, Overlay(Hs, Ts)
  PROVE  Overlay(Hs, Ts)'
<1>1. PICK t : /\ Raised(t)
               /\ RunObserve /\ Fed(view', Head(sharedQueue).handler)
                    => Due(t, Head(sharedQueue).handler)
  BY ServiceRaises
<1>2. mainQueue' = mainQueue \o t /\ t \in Seq(Client!Block) /\ mainQueue \in Seq(Client!Block)
  BY <1>1, DatabaseTypes DEF Raised
<1>3. NoShow(t)
  BY <1>1 DEF Raised, NoShow, IsShow
<1>4. HideComing(Hs, Ts) => HideDue(t, Hs, Ts) \/ HideComing(Hs, Ts)'
  BY <1>1, ComingStays
<1>5. HideDue(mainQueue', Hs, Ts) <=> HideDue(mainQueue, Hs, Ts) \/ HideDue(t, Hs, Ts)
  BY <1>2, HideDueJoined
<1>6. Covered(mainQueue, Hs, Ts) \/ HideDue(t, Hs, Ts) => Covered(mainQueue', Hs, Ts)
  BY <1>2, <1>3, CoveredJoined
<1> QED
  BY <1>4, <1>5, <1>6 DEF Overlay, hudVars

\* Calls take nothing away from what is to come, and may add to it.
LEMMA ComingMore ==
  ASSUME DatabaseInv, NEW cs, NEW Ls, AppCalls(cs, Ls), NEW Hs, NEW Ts,
         \/ HideComing(Hs, Ts)
         \/ \E h \in Hs : AskedFor(cs, h)
         \/ \E k \in 1..Len(cs) : \E p \in Ts : IsSet(cs[k], p)
  PROVE  HideComing(Hs, Ts)'
<1>1. view' = view /\ allWrites' = allWrites
  BY DEF AppCalls, clientVars, Client!Dispatch, Client!FireEvent
<1>2. /\ sharedQueue \in Seq(Calls) /\ cs \in Seq(Calls) /\ sharedQueue' = sharedQueue \o cs
  BY DatabaseTypes DEF AppCalls
<1>3. Together(sharedQueue, cs, sharedQueue')
  BY <1>2, Joined
<1>4. \A h : AskedFor(sharedQueue, h) \/ AskedFor(cs, h) => AskedFor(sharedQueue', h)
  BY <1>2, AskedJoined
<1> DEFINE u == sharedQueue'
<1>5. ASSUME NEW p, \/ \E k \in 1..Len(sharedQueue) : IsSet(sharedQueue[k], p)
                    \/ \E k \in 1..Len(cs) : IsSet(cs[k], p)
      PROVE  \E k \in 1..Len(sharedQueue') : IsSet(sharedQueue'[k], p)
  <2> HIDE DEF u
  <2>1. Together(sharedQueue, cs, u)
    BY <1>3 DEF u
  <2>2. \E k \in 1..Len(u) : IsSet(u[k], p)
    BY <1>5, <2>1 DEF Together
  <2> QED
    BY <2>2 DEF u
<1> QED
  BY <1>1, <1>4, <1>5 DEF HideComing

\* A step of the app that is no block of the overlay: a show only with
\* something that undoes it, and a callback that dismisses dispatches a hide.
LEMMA OverlayApp ==
  ASSUME DatabaseInv, NEW cs, NEW Ls, AppCalls(cs, Ls), UNCHANGED hudVars,
         NEW Hs, NEW Ts, Overlay(Hs, Ts), "hide" \in Tasks,
         \/ UNCHANGED mainQueue
         \/ /\ \E t \in Tasks : Client!Dispatch(t)
            /\ \/ \E h \in Hs : AskedFor(cs, h)
               \/ \E k \in 1..Len(cs) : \E p \in Ts : IsSet(cs[k], p)
         \/ \E ts \in {<<>>, HideBlock} :
              /\ Client!FireEvent(ts) /\ ~Running("task")
              /\ Hides(Head(mainQueue), Hs, Ts) => ts = HideBlock
  PROVE  Overlay(Hs, Ts)'
<1>1. mainQueue \in Seq(Client!Block)
  BY DatabaseTypes
<1>2. HideComing(Hs, Ts) => HideComing(Hs, Ts)'
  BY ComingMore
<1>3. CASE UNCHANGED mainQueue
  BY <1>2, <1>3 DEF Overlay, hudVars
<1>4. ASSUME NEW t \in Tasks, Client!Dispatch(t),
             \/ \E h \in Hs : AskedFor(cs, h)
             \/ \E k \in 1..Len(cs) : \E p \in Ts : IsSet(cs[k], p)
      PROVE  Overlay(Hs, Ts)'
  <2>1. HideComing(Hs, Ts)'
    BY <1>4, ComingMore
  <2> QED
    BY <2>1 DEF Overlay, hudVars
<1>5. ASSUME NEW ts \in {<<>>, HideBlock}, Client!FireEvent(ts), ~Running("task"),
             Hides(Head(mainQueue), Hs, Ts) => ts = HideBlock
      PROVE  Overlay(Hs, Ts)'
  <2> DEFINE x == Head(mainQueue)
             q == Tail(mainQueue)
  <2>1. mainQueue # <<>> /\ mainQueue' = q \o ts /\ q \in Seq(Client!Block)
    BY <1>1, <1>5, Shortened DEF Client!FireEvent
  <2>2. /\ HideDue(mainQueue, Hs, Ts) => HideDue(q, Hs, Ts) \/ Hides(x, Hs, Ts)
        /\ Covered(mainQueue, Hs, Ts) => Covered(q, Hs, Ts)
    BY <1>1, <2>1, HidesShortened
  <2> HIDE DEF q
  <2>3. ts \in Seq(Client!Block) /\ NoShow(ts) /\ (ts # <<>> => HideDue(ts, Hs, Ts))
    <3> DEFINE b == Client!TaskBlock("hide")
    <3>1. b \in Client!Block /\ b.kind = "task" /\ b.task = "hide"
      BY TasksCallNobody DEF Client!TaskBlock
    <3>2. HideBlock = <<b>>
      BY DEF HideBlock
    <3> HIDE DEF b
    <3>3. <<b>> \in Seq(Client!Block) /\ Len(<<b>>) = 1 /\ <<b>>[1] = b
      BY <3>1
    <3>4. NoShow(<<b>>) /\ HideDue(<<b>>, Hs, Ts)
      BY <3>1, <3>3 DEF NoShow, IsShow, HideDue, Hides
    <3>5. <<>> \in Seq(Client!Block) /\ NoShow(<<>>)
      BY EmptySeq DEF NoShow
    <3> QED
      BY <3>2, <3>3, <3>4, <3>5
  <2>4. HideDue(mainQueue', Hs, Ts) <=> HideDue(q, Hs, Ts) \/ HideDue(ts, Hs, Ts)
    BY <2>1, <2>3, HideDueJoined
  <2>5. Covered(q, Hs, Ts) => Covered(mainQueue', Hs, Ts)
    BY <2>1, <2>3, CoveredJoined
  <2>6. Hides(x, Hs, Ts) => HideDue(ts, Hs, Ts)
    <3>1. HideBlock # <<>>
      BY EmptySeq DEF HideBlock
    <3> QED
      BY <1>5, <2>3, <3>1
  <2> QED
    BY <1>2, <2>2, <2>4, <2>5, <2>6 DEF Overlay, hudVars
<1> QED
  BY <1>3, <1>4, <1>5

\* A block of the overlay.
LEMMA OverlayBlock ==
  ASSUME DatabaseInv, HudBlock, NEW Hs, NEW Ts, Overlay(Hs, Ts), Tasks = {"show", "hide"}
  PROVE  Overlay(Hs, Ts)'
<1> DEFINE x == Head(mainQueue)
           q == Tail(mainQueue)
<1>1. mainQueue \in Seq(Client!Block)
  BY DatabaseTypes
<1>2. /\ mainQueue # <<>> /\ mainQueue' = q \o <<>> /\ x.kind = "task"
      /\ UNCHANGED <<sharedQueue, view, allWrites>>
  BY DEF HudBlock, Running, Client!FireEvent
<1>3. q \in Seq(Client!Block) /\ x \in Client!Block
  BY <1>1, <1>2, Shortened
<1>4. mainQueue' = q
  BY <1>2, <1>3, ConcatEmptySeq
<1>5. x.task \in {"show", "hide"}
  BY <1>2, <1>3 DEF Client!Block
<1>6. /\ HideDue(mainQueue, Hs, Ts) => HideDue(q, Hs, Ts) \/ Hides(x, Hs, Ts)
      /\ Covered(mainQueue, Hs, Ts) => Covered(q, Hs, Ts)
      /\ Covered(mainQueue, Hs, Ts) /\ IsShow(x) => HideDue(q, Hs, Ts)
  BY <1>1, <1>2, HidesShortened
<1>7. HideComing(Hs, Ts)' <=> HideComing(Hs, Ts)
  BY <1>2 DEF HideComing
<1>8. CASE x.task = "show"
  <2>1. viewBackground' /\ alpha' = 1 /\ hideAnimations' = hideAnimations /\ IsShow(x)
    BY <1>2, <1>8 DEF HudBlock, HudSetup, IsShow
  <2> QED
    BY <1>4, <1>6, <1>7, <2>1 DEF Overlay
<1>9. CASE x.task = "hide"
  <2>1. /\ hideAnimations' = IF alpha = 1 THEN hideAnimations + 1 ELSE hideAnimations
        /\ alpha' = alpha /\ viewBackground' = viewBackground
    BY <1>2, <1>9 DEF HudBlock, HudHide
  <2> QED
    BY <1>4, <1>6, <1>7, <2>1 DEF Overlay
<1> QED
  BY <1>5, <1>8, <1>9

\* The overlay has faded out.
LEMMA OverlayFaded ==
  ASSUME HudHidden, UNCHANGED serviceVars, NEW Hs, NEW Ts, Overlay(Hs, Ts)
  PROVE  Overlay(Hs, Ts)'
<1>1. UNCHANGED <<sharedQueue, view, allWrites, mainQueue>>
  BY DEF serviceVars, clientVars
<1>2. HideComing(Hs, Ts)' <=> HideComing(Hs, Ts)
  BY <1>1 DEF HideComing
<1> QED
  BY <1>1, <1>2 DEF Overlay, HudHidden

\* Steps that touch neither it nor the queues.
LEMMA OverlayUntouched ==
  ASSUME UNCHANGED <<serviceVars, hudVars>>, NEW Hs, NEW Ts, Overlay(Hs, Ts)
  PROVE  Overlay(Hs, Ts)'
<1>1. UNCHANGED <<sharedQueue, view, allWrites, mainQueue>>
  BY DEF serviceVars, clientVars
<1>2. HideComing(Hs, Ts)' <=> HideComing(Hs, Ts)
  BY <1>1 DEF HideComing
<1> QED
  BY <1>1, <1>2 DEF Overlay, hudVars

LEMMA OverlayInitially ==
  ASSUME NEW initial, ServiceInit(initial), HudInit, NEW Hs, NEW Ts
  PROVE  Overlay(Hs, Ts)
<1>1. mainQueue = <<>>
  BY DEF ServiceInit, Client!Init
<1> QED
  BY <1>1, EmptySeq DEF Overlay, HudInit, Covered

\* Once nothing is on its way and nothing fades, it is down.
LEMMA OverlayWhenQuiet ==
  ASSUME DatabaseInv, NEW Hs \in SUBSET Handlers, NEW Ts, Overlay(Hs, Ts)
  PROVE  OverlayDown
<1> SUFFICES ASSUME Quiet, hideAnimations = 0 PROVE ~viewBackground
  BY DEF OverlayDown
<1>1. ~HideDue(mainQueue, Hs, Ts) /\ \A h : ~AskedFor(sharedQueue, h)
  BY EmptySeq DEF Quiet, HideDue, AskedFor
<1>2. ~\E k \in 1..Len(sharedQueue) : TRUE
  BY EmptySeq DEF Quiet
<1>3. allWrites = {}
  BY ViewsWhenQuiet
<1>4. ASSUME NEW h \in Handlers, Watches(view, h) PROVE Fed(view, h)
  BY <1>4, DatabaseTypes, WatchedIsObserved, ViewsWhenQuiet DEF Fed
<1>5. ~HideComing(Hs, Ts)
  BY <1>1, <1>2, <1>3, <1>4 DEF HideComing
<1> QED
  BY <1>1, <1>5 DEF Overlay

-----------------------------------------------------------------------------
(* What the steps of the screens do to the client and to the overlay.      *)

\* The callback of h runs, makes the calls cs and dispatches ts.
Called(h, cs, ts) ==
  /\ RunningHandler(h) /\ Client!FireEvent(ts) /\ sharedQueue' = sharedQueue \o cs
  /\ UNCHANGED <<farVars, hudVars>>

\* The completion of a write of p runs.
Completed(p, cs, ts) ==
  /\ RunningDone(p) /\ Client!FireEvent(ts) /\ sharedQueue' = sharedQueue \o cs
  /\ UNCHANGED <<farVars, hudVars>>

\* The overlay is asked for, and the calls cs are made.
Asks(cs) ==
  /\ Client!Room /\ Client!Dispatch("show") /\ sharedQueue' = sharedQueue \o cs
  /\ UNCHANGED <<farVars, hudVars>>

\* Nothing but the calls cs.
Only(cs) ==
  /\ UNCHANGED <<clientVars, farVars, hudVars>> /\ sharedQueue' = sharedQueue \o cs

HomeCalls == <<ObserveCall("sensors"), ObserveCall("rain")>>

LEMMA HomeDoes ==
  ASSUME DatabaseInv
  PROVE  /\ LoadHome =>
              /\ Asks(HomeCalls) /\ alert' = alert
              /\ homeLoaded' = TRUE /\ UNCHANGED <<parameterValues, rainState>>
         /\ HomeCallback =>
              \/ /\ Called("sensors", <<>>, HideBlock) /\ UNCHANGED <<homeLoaded, rainState, tab>>
                 /\ alert' \in {alert, alert \/ tab = "home"}
                 /\ parameterValues' = IF Head(mainQueue).val # Null THEN Head(mainQueue).val
                                       ELSE parameterValues
              \/ /\ Called("rain", <<>>, HideBlock) /\ UNCHANGED <<homeLoaded, parameterValues, tab>>
                 /\ alert' \in {alert, alert \/ tab = "home"}
                 /\ rainState' = IF Head(mainQueue).val # Null THEN Head(mainQueue).val
                                 ELSE rainState
<1>1. sharedQueue \o <<>> = sharedQueue
  BY DatabaseTypes, ConcatEmptySeq
<1>2. ASSUME LoadHome
      PROVE  /\ Asks(HomeCalls) /\ alert' = alert
             /\ homeLoaded' = TRUE /\ UNCHANGED <<parameterValues, rainState>>
  BY <1>2 DEF LoadHome, Client!Room, Client!Dispatch, Client!TaskBlock, ObserveCall, farVars,
    connectionVars, serverVars, hudVars, Asks, HomeCalls
<1>3. ASSUME SensorEvent
      PROVE  /\ Called("sensors", <<>>, HideBlock) /\ UNCHANGED <<homeLoaded, rainState, tab>>
             /\ alert' \in {alert, alert \/ tab = "home"}
             /\ parameterValues' = IF Head(mainQueue).val # Null THEN Head(mainQueue).val
                                   ELSE parameterValues
  BY <1>1, <1>3 DEF SensorEvent, Shows, RunningHandler, Running, Readable, ShowAlert,
    Client!FireEvent, HideBlock, Client!TaskBlock, farVars, connectionVars, serverVars, hudVars,
    Called
<1>4. ASSUME RainEvent
      PROVE  /\ Called("rain", <<>>, HideBlock) /\ UNCHANGED <<homeLoaded, parameterValues, tab>>
             /\ alert' \in {alert, alert \/ tab = "home"}
             /\ rainState' = IF Head(mainQueue).val # Null THEN Head(mainQueue).val
                             ELSE rainState
  BY <1>1, <1>4 DEF RainEvent, Shows, RunningHandler, Running, Readable, ShowAlert,
    Client!FireEvent, HideBlock, Client!TaskBlock, farVars, connectionVars, serverVars, hudVars,
    Called
<1> QED
  BY <1>2, <1>3, <1>4 DEF HomeCallback

LEMMA ControlDoes ==
  ASSUME DatabaseInv, {"mode", "engine"} \subseteq Handlers
  PROVE  /\ LoadControl =>
              /\ Asks(<<ObserveCall("mode")>>) /\ alert' = alert
              /\ opened' = TRUE /\ UNCHANGED <<workMode, engineStates, taps>>
         /\ ModeEvent =>
              \E cs \in {<<>>, <<ObserveCall("engine")>>} :
                /\ Called("mode", cs, HideBlock) /\ UNCHANGED <<opened, engineStates, taps, tab>>
                /\ alert' \in {alert, alert \/ tab = "control"}
                /\ workMode' = IF Head(mainQueue).val # Null THEN Head(mainQueue).val ELSE workMode
         /\ EngineEvent =>
              /\ Called("engine", <<>>, <<>>) /\ UNCHANGED <<opened, workMode, taps, tab>>
              /\ alert' \in {alert, alert \/ tab = "control"}
              /\ engineStates' = IF Head(mainQueue).val # Null THEN Head(mainQueue).val
                                 ELSE engineStates
         /\ EngineWritten =>
              /\ Completed("TINHIEUDONGCO", <<>>, HideBlock) /\ UNCHANGED <<controlVars, tab>>
              /\ alert' \in {alert, alert \/ tab = "control"}
         /\ SpeedWritten =>
              /\ Completed("pumpSpeed", <<>>, <<>>) /\ UNCHANGED <<controlVars, tab>>
              /\ alert' \in {alert, alert \/ tab = "control"}
         /\ \A r : Tap(r) =>
              /\ opened /\ Touchable("control") /\ (QuickTaps \/ ~ShowPending)
              /\ Asks(SwitchCalls(engineStates, engineStates'))
              /\ taps < MaxTaps /\ taps' = taps + 1
              /\ engineStates' \in {engineStates \cup {r}, engineStates \ {r}}
              /\ UNCHANGED <<opened, workMode, tab, alert>>
<1>1. sharedQueue \in Seq(Calls) /\ sharedQueue \o <<>> = sharedQueue
  BY DatabaseTypes, ConcatEmptySeq
<1>2. ASSUME NEW h, ObserveCall(h) \in Calls
      PROVE  Append(sharedQueue, ObserveCall(h)) = sharedQueue \o <<ObserveCall(h)>>
  BY <1>1, <1>2, AppendIsConcat
<1>3. /\ Append(sharedQueue, ObserveCall("mode")) = sharedQueue \o <<ObserveCall("mode")>>
      /\ Append(sharedQueue, ObserveCall("engine")) = sharedQueue \o <<ObserveCall("engine")>>
  BY <1>2, FewCalls
<1>4. ASSUME LoadControl
      PROVE  /\ Asks(<<ObserveCall("mode")>>) /\ alert' = alert
             /\ opened' = TRUE /\ UNCHANGED <<workMode, engineStates, taps>>
  BY <1>3, <1>4 DEF LoadControl, Asks
<1>5. ASSUME ModeEvent
      PROVE  \E cs \in {<<>>, <<ObserveCall("engine")>>} :
                /\ Called("mode", cs, HideBlock) /\ UNCHANGED <<opened, engineStates, taps, tab>>
                /\ alert' \in {alert, alert \/ tab = "control"}
                /\ workMode' = IF Head(mainQueue).val # Null THEN Head(mainQueue).val ELSE workMode
  BY <1>1, <1>3, <1>5 DEF ModeEvent, Readable, ShowAlert, Called
<1>6. ASSUME EngineEvent
      PROVE  /\ Called("engine", <<>>, <<>>) /\ UNCHANGED <<opened, workMode, taps, tab>>
             /\ alert' \in {alert, alert \/ tab = "control"}
             /\ engineStates' = IF Head(mainQueue).val # Null THEN Head(mainQueue).val
                                ELSE engineStates
  BY <1>1, <1>6 DEF EngineEvent, Readable, ShowAlert, Called
<1>7. ASSUME EngineWritten
      PROVE  /\ Completed("TINHIEUDONGCO", <<>>, HideBlock) /\ UNCHANGED <<controlVars, tab>>
             /\ alert' \in {alert, alert \/ tab = "control"}
  BY <1>1, <1>7 DEF EngineWritten, Written, ShowAlert, Completed
<1>8. ASSUME SpeedWritten
      PROVE  /\ Completed("pumpSpeed", <<>>, <<>>) /\ UNCHANGED <<controlVars, tab>>
             /\ alert' \in {alert, alert \/ tab = "control"}
  BY <1>1, <1>8 DEF SpeedWritten, Written, ShowAlert, Completed
<1>9. ASSUME NEW r, Tap(r)
      PROVE  /\ opened /\ Touchable("control") /\ (QuickTaps \/ ~ShowPending)
             /\ Asks(SwitchCalls(engineStates, engineStates'))
             /\ taps < MaxTaps /\ taps' = taps + 1
             /\ engineStates' \in {engineStates \cup {r}, engineStates \ {r}}
             /\ UNCHANGED <<opened, workMode, tab, alert>>
  BY <1>9 DEF Tap, SetRow, Asks
<1> QED
  BY <1>4, <1>5, <1>6, <1>7, <1>8, <1>9

\* The thresholds are written from what the fields hold, and nothing else is.
LEMMA ThresholdCallsAre ==
  ASSUME SettingTypeOK, NEW m
  PROVE  /\ ThresholdCalls(m) \in Seq(Calls)
         /\ \A p : p \notin ThresholdPaths => NoSets(ThresholdCalls(m), p)
<1> DEFINE f == [i \in 1..Len(Thresholds) |->
                   SetCall(Thresholds[i], Format(fields[Thresholds[i]]))]
<1>1. Len(Thresholds) \in Nat
  BY LenProperties, SettingScreenAssumption
<1>2. ASSUME NEW i \in 1..Len(Thresholds)
      PROVE  /\ Thresholds[i] \in ThresholdPaths /\ Thresholds[i] \in Paths
             /\ Format(fields[Thresholds[i]]) \in Values
  BY <1>2, SettingScreenAssumption DEF SettingTypeOK, ThresholdPaths, Format
<1>3. \A i \in 1..Len(Thresholds) :
        /\ f[i] \in Calls /\ f[i].call = "set" /\ f[i].path = Thresholds[i]
  BY <1>2 DEF SetCall, Calls
<1>4. f \in [1..Len(Thresholds) -> Calls]
  BY <1>3
<1>5. f \in Seq(Calls) /\ Len(f) = Len(Thresholds)
  BY <1>1, <1>4, FunctionIsSeq
<1> HIDE DEF f
<1>6. \A p : p \notin ThresholdPaths => NoSets(f, p)
  BY <1>2, <1>3, <1>5 DEF NoSets, IsSet
<1>7. CASE m # AutoMode
  BY <1>7, FewCalls DEF ThresholdCalls
<1>8. CASE m = AutoMode
  BY <1>5, <1>6, <1>8 DEF ThresholdCalls, f
<1> QED
  BY <1>7, <1>8

LEMMA SettingDoes ==
  ASSUME DatabaseInv
  PROVE  /\ LoadSetting =>
              /\ Asks(<<ObserveCall("setting")>>) /\ alert' = alert
              /\ loaded' = TRUE /\ switches' = {} /\ UNCHANGED <<fields, turned, edits, bypassed>>
         /\ SettingEvent =>
              /\ Called("setting", <<>>, HideBlock)
              /\ UNCHANGED <<loaded, fields, turned, edits, bypassed, tab>>
              /\ alert' \in {alert, alert \/ tab = "setting"}
              /\ switches' = IF Head(mainQueue).val # Null
                             THEN SwitchesOf(Head(mainQueue).val) ELSE switches
         /\ ModeWritten =>
              \E cs \in {<<>>, ThresholdCalls(Head(mainQueue).write.val)} :
                /\ Completed("CHEDO", cs, <<>>) /\ UNCHANGED <<settingVars, tab>>
                /\ alert' \in {alert, alert \/ tab = "setting"}
         /\ ThresholdWritten =>
              \E p \in ThresholdPaths :
                /\ Completed(p, <<>>, <<>>) /\ UNCHANGED <<settingVars, tab>>
                /\ alert' \in {alert, alert \/ tab = "setting"}
         /\ \A m \in Modes : Turn(m) =>
              /\ loaded /\ turned < MaxTurns /\ turned' = turned + 1 /\ switches' = Turned(m)
              /\ bypassed' \in BOOLEAN
              /\ \/ Only(<<SetCall("CHEDO", m)>>) /\ alert' = alert
                 \/ Asks(<<ObserveCall("setting")>>) /\ alert' \in {alert, alert \/ tab = "setting"}
              /\ UNCHANGED <<loaded, fields, edits, tab>>
         /\ \A p \in ThresholdPaths : \A text \in Texts \cup {Empty} : Edit(p, text) =>
              /\ Only(<<>>) /\ edits < MaxEdits /\ edits' = edits + 1 /\ bypassed' \in BOOLEAN
              /\ fields' = [fields EXCEPT ![p] = text]
              /\ UNCHANGED <<loaded, switches, turned, tab, alert>>
<1>1. sharedQueue \in Seq(Calls) /\ sharedQueue \o <<>> = sharedQueue
  BY DatabaseTypes, ConcatEmptySeq
<1>2. "setting" \in Handlers /\ "CHEDO" \in Paths /\ Modes \subseteq Values
  BY SettingScreenAssumption
<1>3. ASSUME NEW c \in Calls
      PROVE  Append(sharedQueue, c) = sharedQueue \o <<c>>
  BY <1>1, AppendIsConcat
<1>4. /\ Append(sharedQueue, ObserveCall("setting")) = sharedQueue \o <<ObserveCall("setting")>>
      /\ \A m \in Modes :
           Append(sharedQueue, SetCall("CHEDO", m)) = sharedQueue \o <<SetCall("CHEDO", m)>>
  BY <1>2, <1>3, FewCalls
<1>5. InitDataMode =>
        Client!Room /\ Client!Dispatch("show") /\ sharedQueue' = sharedQueue \o <<ObserveCall("setting")>>
  BY <1>4 DEF InitDataMode
<1>6. ASSUME LoadSetting
      PROVE  /\ Asks(<<ObserveCall("setting")>>) /\ alert' = alert
             /\ loaded' = TRUE /\ switches' = {} /\ UNCHANGED <<fields, turned, edits, bypassed>>
  BY <1>5, <1>6 DEF LoadSetting, Asks
<1>7. ASSUME SettingEvent
      PROVE  /\ Called("setting", <<>>, HideBlock)
             /\ UNCHANGED <<loaded, fields, turned, edits, bypassed, tab>>
             /\ alert' \in {alert, alert \/ tab = "setting"}
             /\ switches' = IF Head(mainQueue).val # Null
                            THEN SwitchesOf(Head(mainQueue).val) ELSE switches
  BY <1>1, <1>7 DEF SettingEvent, Readable, ShowAlert, Called
<1>8. ASSUME ModeWritten
      PROVE  \E cs \in {<<>>, ThresholdCalls(Head(mainQueue).write.val)} :
               /\ Completed("CHEDO", cs, <<>>) /\ UNCHANGED <<settingVars, tab>>
               /\ alert' \in {alert, alert \/ tab = "setting"}
  BY <1>1, <1>8 DEF ModeWritten, ShowAlert, Completed
<1>9. ASSUME ThresholdWritten
      PROVE  \E p \in ThresholdPaths :
               /\ Completed(p, <<>>, <<>>) /\ UNCHANGED <<settingVars, tab>>
               /\ alert' \in {alert, alert \/ tab = "setting"}
  BY <1>1, <1>9 DEF ThresholdWritten, Written, ShowAlert,
    Completed
<1>10. ASSUME NEW m \in Modes, Turn(m)
       PROVE  /\ loaded /\ turned < MaxTurns /\ turned' = turned + 1 /\ switches' = Turned(m)
              /\ bypassed' \in BOOLEAN
              /\ \/ Only(<<SetCall("CHEDO", m)>>) /\ alert' = alert
                 \/ Asks(<<ObserveCall("setting")>>) /\ alert' \in {alert, alert \/ tab = "setting"}
              /\ UNCHANGED <<loaded, fields, edits, tab>>
  BY <1>4, <1>5, <1>10 DEF Turn, ShowAlert, Only, Asks
<1>11. ASSUME NEW p \in ThresholdPaths, NEW text \in Texts \cup {Empty}, Edit(p, text)
       PROVE  /\ Only(<<>>) /\ edits < MaxEdits /\ edits' = edits + 1 /\ bypassed' \in BOOLEAN
              /\ fields' = [fields EXCEPT ![p] = text]
              /\ UNCHANGED <<loaded, switches, turned, tab, alert>>
  <2>1. UNCHANGED serviceVars => UNCHANGED <<clientVars, farVars, sharedQueue>>
    BY DEF serviceVars, farVars
  <2> QED
    BY <1>1, <1>11, <2>1 DEF Edit, Only
<1> QED
  BY <1>6, <1>7, <1>8, <1>9, <1>10, <1>11

-----------------------------------------------------------------------------
(* A step that is not of the screen.                                       *)

\* A step below the app, or one of the app that neither calls Hs nor writes Ps.
Beside(Hs, Ps) ==
  \/ ServiceNext
  \/ \E cs \in Seq(Calls) : AppCalls(cs, Hs) /\ \A p \in Ps : NoSets(cs, p)

LEMMA BesideMoves ==
  ASSUME NEW Hs, NEW Ps, Beside(Hs, Ps)
  PROVE  Moves
BY CallsMove DEF Beside, Moves

LEMMA IdleBeside ==
  ASSUME DatabaseInv, UNCHANGED serviceVars, NEW Hs, NEW Ps
  PROVE  Beside(Hs, Ps)
<1>1. sharedQueue \o <<>> = sharedQueue
  BY DatabaseTypes, ConcatEmptySeq
<1>2. UNCHANGED <<clientVars, farVars, sharedQueue>>
  BY DEF serviceVars, farVars
<1> QED
  BY <1>1, <1>2, FewCalls DEF Beside, AppCalls

LEMMA FollowsBeside ==
  ASSUME DatabaseInv, Heard, NEW Hs, NEW Ps, Beside(Hs, Ps), NEW h \in Handlers, h \in Hs,
         NEW S, NEW W \in SUBSET S, W = {} \/ PathOf[h] \in Ps,
         Follows(shown, mainQueue, sharedQueue, h, S, W)
  PROVE  Follows(shown', mainQueue', sharedQueue', h, S, W)
<1>1. CASE ServiceNext
  BY <1>1, FollowsBelow
<1>2. ASSUME NEW cs \in Seq(Calls), AppCalls(cs, Hs), \A p \in Ps : NoSets(cs, p)
      PROVE  Follows(shown', mainQueue', sharedQueue', h, S, W)
  BY <1>2, FollowsOn
<1> QED
  BY <1>1, <1>2 DEF Beside

LEMMA WantedBeside ==
  ASSUME DatabaseInv, NEW Hs, NEW Ps, Beside(Hs, Ps), NEW h \in Handlers,
         Wanted(sharedQueue, view, h)
  PROVE  Wanted(sharedQueue', view', h)
BY WantedBelow, WantedMore DEF Beside

LEMMA HeldBeside ==
  ASSUME DatabaseInv, NEW Hs, NEW Ps, Beside(Hs, Ps), NEW p \in Paths, p \in Ps,
         NEW S \in SUBSET Values, Null \in S, HeldIn(p, S),
         p \in RemotePaths => RemoteValues[p] \subseteq S
  PROVE  HeldIn(p, S)'
<1>1. CASE ServiceNext
  BY <1>1, HeldBelow
<1>2. ASSUME NEW cs \in Seq(Calls), AppCalls(cs, Hs), \A q \in Ps : NoSets(cs, q)
      PROVE  HeldIn(p, S)'
  BY <1>2, HeldApp DEF NoSets
<1> QED
  BY <1>1, <1>2 DEF Beside

\* The calls of each kind of step.
LEMMA StepCalls ==
  ASSUME DatabaseInv, NEW cs \in Seq(Calls), NEW ts \in Client!TaskLists
  PROVE  /\ Only(cs) => AppCalls(cs, Handlers)
         /\ "show" \in Tasks /\ Asks(cs) => AppCalls(cs, Handlers)
         /\ \A h \in Handlers :
              Called(h, cs, ts) => AppCalls(cs, Handlers \ {h}) /\ ClientP!For(Head(mainQueue), h)
                                   /\ mainQueue # <<>>
         /\ \A p : Completed(p, cs, ts) => AppCalls(cs, Handlers)
         /\ HudBlock => AppCalls(<<>>, Handlers)
<1>1. sharedQueue \o <<>> = sharedQueue
  BY DatabaseTypes, ConcatEmptySeq
<1>2. <<>> \in Client!TaskLists
  BY DEF Client!TaskLists
<1>3. ASSUME NEW h \in Handlers, Called(h, cs, ts)
      PROVE  /\ AppCalls(cs, Handlers \ {h}) /\ ClientP!For(Head(mainQueue), h)
             /\ mainQueue # <<>>
  BY <1>3 DEF Called, AppCalls, ClientP!For, RunningHandler, Running
<1>4. ASSUME NEW p, Completed(p, cs, ts) PROVE AppCalls(cs, Handlers)
  BY <1>4 DEF Completed, AppCalls, ClientP!For, RunningDone, Running
<1>5. HudBlock => AppCalls(<<>>, Handlers)
  BY <1>1, <1>2, FewCalls DEF HudBlock, AppCalls, ClientP!For, Running
<1>6. Only(cs) => AppCalls(cs, Handlers)
  BY DEF Only, AppCalls
<1>7. "show" \in Tasks /\ Asks(cs) => AppCalls(cs, Handlers)
  BY DEF Asks, AppCalls
<1> QED
  BY <1>3, <1>4, <1>5, <1>6, <1>7

\* A weaker statement of the same calls.
LEMMA FewerLeftAlone ==
  ASSUME NEW cs, NEW Hs, NEW Ls, Ls \subseteq Hs, AppCalls(cs, Hs)
  PROVE  AppCalls(cs, Ls)
BY DEF AppCalls

\* And what they do to the overlay.
LEMMA StepOverlay ==
  ASSUME DatabaseInv, Tasks = {"show", "hide"}, NEW cs \in Seq(Calls),
         NEW Hs \in SUBSET Handlers, NEW Ts, Overlay(Hs, Ts)
  PROVE  /\ Only(cs) => Overlay(Hs, Ts)'
         /\ Asks(cs) /\ (\/ \E h \in Hs : AskedFor(cs, h)
                         \/ \E k \in 1..Len(cs) : \E p \in Ts : IsSet(cs[k], p))
              => Overlay(Hs, Ts)'
         /\ \A h \in Handlers :
              /\ Called(h, cs, HideBlock) => Overlay(Hs, Ts)'
              /\ Called(h, cs, <<>>) /\ h \notin Hs => Overlay(Hs, Ts)'
         /\ \A p : /\ Completed(p, cs, HideBlock) => Overlay(Hs, Ts)'
                   /\ Completed(p, cs, <<>>) /\ p \notin Ts => Overlay(Hs, Ts)'
<1>1. HideBlock \in Client!TaskLists /\ <<>> \in Client!TaskLists
  BY DEF HideBlock, Client!TaskLists
<1>2. ASSUME Only(cs) PROVE Overlay(Hs, Ts)'
  <2>1. AppCalls(cs, Handlers) /\ UNCHANGED hudVars /\ UNCHANGED mainQueue
    BY <1>1, <1>2, StepCalls DEF Only, clientVars
  <2> QED
    BY <2>1, OverlayApp
<1>3. ASSUME Asks(cs), \/ \E h \in Hs : AskedFor(cs, h)
                       \/ \E k \in 1..Len(cs) : \E p \in Ts : IsSet(cs[k], p)
      PROVE  Overlay(Hs, Ts)'
  <2>1. AppCalls(cs, Handlers) /\ UNCHANGED hudVars /\ \E t \in Tasks : Client!Dispatch(t)
    BY <1>1, <1>3, StepCalls DEF Asks
  <2> QED
    BY <1>3, <2>1, OverlayApp
<1>4. ASSUME NEW h \in Handlers, NEW ts \in {<<>>, HideBlock}, Called(h, cs, ts),
             h \in Hs => ts = HideBlock
      PROVE  Overlay(Hs, Ts)'
  <2>1. AppCalls(cs, Handlers \ {h}) /\ UNCHANGED hudVars
    BY <1>1, <1>4, StepCalls DEF Called
  <2>2. Client!FireEvent(ts) /\ ~Running("task") /\ (Hides(Head(mainQueue), Hs, Ts) => ts = HideBlock)
    BY <1>4 DEF Called, RunningHandler, Running, Hides
  <2> QED
    BY <2>1, <2>2, OverlayApp
<1>5. ASSUME NEW p, NEW ts \in {<<>>, HideBlock}, Completed(p, cs, ts),
             p \in Ts => ts = HideBlock
      PROVE  Overlay(Hs, Ts)'
  <2>1. AppCalls(cs, Handlers) /\ UNCHANGED hudVars
    BY <1>1, <1>5, StepCalls DEF Completed
  <2>2. Client!FireEvent(ts) /\ ~Running("task") /\ (Hides(Head(mainQueue), Hs, Ts) => ts = HideBlock)
    BY <1>5 DEF Completed, RunningDone, Running, Hides
  <2> QED
    BY <2>1, <2>2, OverlayApp
<1> QED
  BY <1>2, <1>3, <1>4, <1>5

-----------------------------------------------------------------------------
(* What each screen keeps: what it asked for is watched, and what it shows *)
(* follows what it watches.                                                *)

HomeInv ==
  /\ HomeTypeOK
  /\ homeLoaded => Wanted(sharedQueue, view, "sensors") /\ Wanted(sharedQueue, view, "rain")
  /\ Follows(shown, mainQueue, sharedQueue, "sensors", {parameterValues}, {})
  /\ Follows(shown, mainQueue, sharedQueue, "rain", {rainState}, {})

\* The engines' string is written by this screen itself: its last write counts.
ControlInv ==
  /\ ControlTypeOK
  /\ opened => Wanted(sharedQueue, view, "mode")
  /\ Follows(shown, mainQueue, sharedQueue, "mode", {workMode}, {})
  /\ Follows(shown, mainQueue, sharedQueue, "engine", {engineStates}, {engineStates})
  /\ HeldIn("TINHIEUDONGCO", EngineStates \cup {Null})

\* The modes that the switches may stand for.
Meant(on) == {mode \in Values : SwitchesOf(mode) = on}

SettingInv ==
  /\ SettingTypeOK
  /\ loaded => Wanted(sharedQueue, view, "setting")
  /\ switches # {} =>
       Follows(shown, mainQueue, sharedQueue, "setting", Meant(switches), Meant(switches))

\* What the assumptions of the screens say of the names.
HomeNames ==
  /\ "DULIEUCAMBIEN" \in Paths /\ {"sensors", "rain"} \subseteq Handlers
  /\ PathOf["sensors"] = "DULIEUCAMBIEN" /\ PathOf["rain"] = "DULIEUCAMBIEN"

LEMMA HomeBeside ==
  ASSUME DatabaseInv, Heard, HomeInv, HomeNames, UNCHANGED homeVars,
         NEW Hs, NEW Ps, Beside(Hs, Ps), {"sensors", "rain"} \subseteq Hs
  PROVE  HomeInv'
<1>1. UNCHANGED <<homeLoaded, parameterValues, rainState>>
  BY DEF homeVars
<1>2. HomeTypeOK'
  BY <1>1 DEF HomeInv, HomeTypeOK
<1>3. homeLoaded =>
        Wanted(sharedQueue', view', "sensors") /\ Wanted(sharedQueue', view', "rain")
  BY WantedBeside DEF HomeInv, HomeNames
<1>4. /\ Follows(shown', mainQueue', sharedQueue', "sensors", {parameterValues}, {})
      /\ Follows(shown', mainQueue', sharedQueue', "rain", {rainState}, {})
  BY FollowsBeside DEF HomeInv, HomeNames
<1> QED
  BY <1>1, <1>2, <1>3, <1>4 DEF HomeInv

LEMMA ControlBeside ==
  ASSUME DatabaseInv, Heard, ControlInv, UNCHANGED controlVars,
         NEW Hs, NEW Ps, Beside(Hs, Ps), {"mode", "engine"} \subseteq Hs, "TINHIEUDONGCO" \in Ps
  PROVE  ControlInv'
<1>1. UNCHANGED <<opened, workMode, engineStates, taps>>
  BY DEF controlVars
<1>2. /\ {"mode", "engine"} \subseteq Handlers /\ "TINHIEUDONGCO" \in Paths
      /\ PathOf["engine"] = "TINHIEUDONGCO"
      /\ EngineStates \cup {Null} \in SUBSET Values
      /\ "TINHIEUDONGCO" \in RemotePaths
           => RemoteValues["TINHIEUDONGCO"] \subseteq EngineStates \cup {Null}
  BY RealtimeDatabaseAssumption, ConfigScreenAssumption
<1>3. ControlTypeOK'
  BY <1>1 DEF ControlInv, ControlTypeOK
<1>4. opened => Wanted(sharedQueue', view', "mode")
  BY <1>2, WantedBeside DEF ControlInv
<1>5. /\ Follows(shown', mainQueue', sharedQueue', "mode", {workMode}, {})
      /\ Follows(shown', mainQueue', sharedQueue', "engine", {engineStates}, {engineStates})
  BY <1>2, FollowsBeside DEF ControlInv
<1>6. HeldIn("TINHIEUDONGCO", EngineStates \cup {Null})'
  BY <1>2, HeldBeside DEF ControlInv
<1> QED
  BY <1>1, <1>3, <1>4, <1>5, <1>6 DEF ControlInv

LEMMA SettingBeside ==
  ASSUME DatabaseInv, Heard, SettingInv, UNCHANGED settingVars,
         NEW Hs, NEW Ps, Beside(Hs, Ps), "setting" \in Hs, "CHEDO" \in Ps
  PROVE  SettingInv'
<1>1. UNCHANGED <<loaded, switches, fields, turned, edits, bypassed>>
  BY DEF settingVars
<1>2. "setting" \in Handlers /\ PathOf["setting"] = "CHEDO"
  BY SettingScreenAssumption
<1>3. SettingTypeOK'
  BY <1>1 DEF SettingInv, SettingTypeOK
<1>4. loaded => Wanted(sharedQueue', view', "setting")
  BY <1>2, WantedBeside DEF SettingInv
<1>5. switches # {} =>
        Follows(shown', mainQueue', sharedQueue', "setting", Meant(switches), Meant(switches))
  BY <1>2, FollowsBeside DEF SettingInv
<1> QED
  BY <1>1, <1>3, <1>4, <1>5 DEF SettingInv, Meant, SwitchesOf, Modes

-----------------------------------------------------------------------------
(* The screens' own steps.                                                 *)

LEMMA HomeCallsAre ==
  ASSUME HomeNames
  PROVE  /\ HomeCalls \in Seq(Calls) /\ \A p : NoSets(HomeCalls, p)
         /\ AskedFor(HomeCalls, "sensors") /\ AskedFor(HomeCalls, "rain")
<1> DEFINE a == ObserveCall("sensors")
           b == ObserveCall("rain")
           s == <<a>>
           t == <<b>>
<1>1. /\ s \in Seq(Calls) /\ AskedFor(s, "sensors") /\ \A p : NoSets(s, p)
      /\ t \in Seq(Calls) /\ AskedFor(t, "rain") /\ \A p : NoSets(t, p)
  BY FewCalls DEF HomeNames
<1>2. HomeCalls = s \o t
  BY DEF HomeCalls
<1> HIDE DEF s, t
<1>3. Together(s, t, HomeCalls) /\ HomeCalls \in Seq(Calls)
  BY <1>1, <1>2, Joined
<1>4. \A p : NoSets(HomeCalls, p)
  BY <1>1, <1>3 DEF NoSets, Together
<1> QED
  BY <1>1, <1>2, <1>3, <1>4, AskedJoined

\* What a callback is given is a value.
LEMMA ValueGiven ==
  ASSUME DatabaseInv, mainQueue # <<>>, NEW h, ClientP!For(Head(mainQueue), h)
  PROVE  Head(mainQueue).val \in Values
<1>1. Head(mainQueue) \in Client!Block
  BY DatabaseTypes, Shortened
<1> QED
  BY <1>1 DEF Client!Block, ClientP!For

LEMMA HomeOwn ==
  ASSUME DatabaseInv, HomeInv, HomeNames, Tasks = {"show", "hide"}, LoadHome \/ HomeCallback
  PROVE  /\ HomeInv'
         /\ \E cs \in Seq(Calls) : AppCalls(cs, Handlers \ {"sensors", "rain"}) /\ \A p : NoSets(cs, p)
<1>1. <<>> \in Seq(Calls) /\ HideBlock \in Client!TaskLists /\ \A p : NoSets(<<>>, p)
  BY FewCalls DEF HideBlock, Client!TaskLists
<1>2. CASE LoadHome
  <2>1. /\ Asks(HomeCalls) /\ homeLoaded' = TRUE /\ UNCHANGED <<parameterValues, rainState>>
    BY <1>2, HomeDoes
  <2>2. AppCalls(HomeCalls, Handlers)
    BY <1>1, <2>1, HomeCallsAre, StepCalls
  <2>3. Wanted(sharedQueue', view', "sensors") /\ Wanted(sharedQueue', view', "rain")
    BY <2>2, HomeCallsAre, WantedMore DEF HomeNames
  <2>4. /\ Follows(shown', mainQueue', sharedQueue', "sensors", {parameterValues}, {})
        /\ Follows(shown', mainQueue', sharedQueue', "rain", {rainState}, {})
    BY <2>2, FollowsOn DEF HomeInv, HomeNames
  <2>5. AppCalls(HomeCalls, Handlers \ {"sensors", "rain"})
    BY <2>2, FewerLeftAlone
  <2> QED
    BY <2>1, <2>3, <2>4, <2>5, HomeCallsAre DEF HomeInv, HomeTypeOK
<1>3. ASSUME NEW h \in {"sensors", "rain"}, Called(h, <<>>, HideBlock)
      PROVE  /\ AppCalls(<<>>, Handlers \ {h}) /\ AppCalls(<<>>, Handlers \ {"sensors", "rain"})
             /\ Wanted(sharedQueue, view, "sensors") => Wanted(sharedQueue', view', "sensors")
             /\ Wanted(sharedQueue, view, "rain") => Wanted(sharedQueue', view', "rain")
             /\ Head(mainQueue).val \in Values
             /\ \A S : Head(mainQueue).val \in {Null} \cup S
                         => Follows(shown', mainQueue', sharedQueue', h, S, {})
  <2>1. /\ AppCalls(<<>>, Handlers \ {h}) /\ ClientP!For(Head(mainQueue), h) /\ mainQueue # <<>>
        /\ Client!FireEvent(HideBlock) /\ h \in Handlers
    BY <1>1, <1>3, StepCalls DEF Called, HomeNames
  <2>2. AppCalls(<<>>, Handlers \ {"sensors", "rain"})
    BY <2>1, FewerLeftAlone
  <2>3. /\ Wanted(sharedQueue, view, "sensors") => Wanted(sharedQueue', view', "sensors")
        /\ Wanted(sharedQueue, view, "rain") => Wanted(sharedQueue', view', "rain")
    BY <2>1, WantedMore DEF HomeNames
  <2>4. \A S : Head(mainQueue).val \in {Null} \cup S
                 => Follows(shown', mainQueue', sharedQueue', h, S, {})
    BY <1>1, <2>1, FollowsCalled
  <2> QED
    BY <2>1, <2>2, <2>3, <2>4, ValueGiven
<1>4. CASE /\ Called("sensors", <<>>, HideBlock) /\ UNCHANGED <<homeLoaded, rainState, tab>>
           /\ parameterValues' = IF Head(mainQueue).val # Null THEN Head(mainQueue).val
                                 ELSE parameterValues
  <2>1. Follows(shown', mainQueue', sharedQueue', "rain", {rainState}, {})
    BY <1>3, <1>4, FollowsOn DEF HomeInv, HomeNames
  <2>2. Follows(shown', mainQueue', sharedQueue', "sensors", {parameterValues'}, {})
    BY <1>3, <1>4
  <2> QED
    BY <1>1, <1>3, <1>4, <2>1, <2>2 DEF HomeInv, HomeTypeOK
<1>5. CASE /\ Called("rain", <<>>, HideBlock) /\ UNCHANGED <<homeLoaded, parameterValues, tab>>
           /\ rainState' = IF Head(mainQueue).val # Null THEN Head(mainQueue).val
                           ELSE rainState
  <2>1. Follows(shown', mainQueue', sharedQueue', "sensors", {parameterValues}, {})
    BY <1>3, <1>5, FollowsOn DEF HomeInv, HomeNames
  <2>2. Follows(shown', mainQueue', sharedQueue', "rain", {rainState'}, {})
    BY <1>3, <1>5
  <2> QED
    BY <1>1, <1>3, <1>5, <2>1, <2>2 DEF HomeInv, HomeTypeOK
<1> QED
  BY <1>2, <1>4, <1>5, HomeDoes

\* The calls of a switch end with the write of the engines.
LEMMA SwitchCallsAre ==
  ASSUME NEW old, NEW new \in SUBSET Rows
  PROVE  /\ SwitchCalls(old, new) \in Seq(Calls)
         /\ LastSet(SwitchCalls(old, new), "TINHIEUDONGCO", {new})
         /\ \A i \in 1..Len(SwitchCalls(old, new)) :
              IsSet(SwitchCalls(old, new)[i], "TINHIEUDONGCO")
                => SwitchCalls(old, new)[i].val = new
         /\ \E i \in 1..Len(SwitchCalls(old, new)) :
              IsSet(SwitchCalls(old, new)[i], "TINHIEUDONGCO")
         /\ \A p : p \notin {"TINHIEUDONGCO", "pumpSpeed"} => NoSets(SwitchCalls(old, new), p)
<1> DEFINE T == "TINHIEUDONGCO"
           a == SetCall("pumpSpeed", One)
           b == SetCall(T, new)
           s == IF Pump \in new \ old THEN <<a>> ELSE <<>>
           t == <<b>>
           u == SwitchCalls(old, new)
<1>1. {"pumpSpeed", T} \subseteq Paths /\ One \in Values /\ new \in Values
  BY ConfigScreenAssumption DEF EngineStates
<1>2. /\ t \in Seq(Calls) /\ LastSet(t, T, {new}) /\ (\A p : p # T => NoSets(t, p))
      /\ IsSet(b, T) /\ b.val = new
  BY <1>1, FewCalls
<1>3. s \in Seq(Calls) /\ \A p : p # "pumpSpeed" => NoSets(s, p)
  BY <1>1, FewCalls
<1>4. Len(t) = 1 /\ t[1] = b
  OBVIOUS
<1>5. u = s \o t
  BY DEF SwitchCalls, SetCall
<1> HIDE DEF a, b, s, t, u
<1>6. u \in Seq(Calls) /\ Together(s, t, u)
  BY <1>2, <1>3, <1>5, Joined
<1>7. LastSet(u, T, {new})
  BY <1>2, <1>3, <1>5, LastSetJoined
<1>8. ASSUME NEW p, p \notin {T, "pumpSpeed"} PROVE NoSets(u, p)
  <2>1. NoSets(s, p) /\ NoSets(t, p)
    BY <1>2, <1>3, <1>8
  <2> QED
    BY <1>6, <2>1 DEF NoSets, Together
<1>9. \A i \in 1..Len(u) : IsSet(u[i], T) => u[i].val = new
  <2>1. NoSets(s, T)
    BY <1>3
  <2> QED
    BY <1>2, <1>4, <1>6, <2>1 DEF NoSets, Together
<1>10. \E i \in 1..Len(u) : IsSet(u[i], T)
  BY <1>2, <1>4, <1>6 DEF Together
<1> QED
  BY <1>6, <1>7, <1>8, <1>9, <1>10 DEF u

LEMMA ControlOwn ==
  ASSUME DatabaseInv, ControlInv,
         LoadControl \/ ControlCallback \/ \E r \in Rows : Tap(r)
  PROVE  /\ ControlInv'
         /\ \E cs \in Seq(Calls) :
              /\ AppCalls(cs, Handlers \ {"mode", "engine"})
              /\ \A p : p \notin {"TINHIEUDONGCO", "pumpSpeed"} => NoSets(cs, p)
<1> DEFINE T == "TINHIEUDONGCO"
           E == EngineStates \cup {Null}
           N == Handlers \ {"mode", "engine"}
           Fine == \E cs \in Seq(Calls) : /\ AppCalls(cs, N)
                                          /\ \A p : p \notin {T, "pumpSpeed"} => NoSets(cs, p)
<1>1. /\ {"mode", "engine"} \subseteq Handlers /\ {T, "pumpSpeed"} \subseteq Paths
      /\ PathOf["engine"] = T /\ Tasks = {"show", "hide"} /\ MaxTaps \in Nat
      /\ \A x : x \in EngineStates <=> x \subseteq Rows
  BY ConfigScreenAssumption DEF EngineStates
<1>2. HideBlock \in Client!TaskLists /\ <<>> \in Client!TaskLists
  BY <1>1 DEF HideBlock, Client!TaskLists
<1>3. /\ opened \in BOOLEAN /\ workMode \in Values \ {Null} /\ engineStates \subseteq Rows
      /\ taps \in 0..MaxTaps
  BY DEF ControlInv, ControlTypeOK
<1>4. ASSUME NEW cs \in Seq(Calls), AppCalls(cs, N), \A p : p \notin {T, "pumpSpeed"} => NoSets(cs, p),
             \A i \in 1..Len(cs) : IsSet(cs[i], T) => cs[i].val \in EngineStates
      PROVE  Fine /\ HeldIn(T, E)' /\ (Wanted(sharedQueue, view, "mode") => Wanted(sharedQueue', view', "mode"))
  <2>1. HeldIn(T, E)'
    BY <1>1, <1>4, HeldApp DEF ControlInv
  <2> QED
    BY <1>1, <1>4, <2>1, WantedMore
<1>5. ASSUME NEW cs \in Seq(Calls), AppCalls(cs, Handlers)
      PROVE  /\ AppCalls(cs, N)
             /\ Follows(shown', mainQueue', sharedQueue', "mode", {workMode}, {})
             /\ NoSets(cs, T) =>
                  Follows(shown', mainQueue', sharedQueue', "engine", {engineStates}, {engineStates})
  BY <1>1, <1>5, FollowsOn, FewerLeftAlone DEF ControlInv
<1>6. CASE LoadControl
  <2> DEFINE cs == <<ObserveCall("mode")>>
  <2>1. Asks(cs) /\ opened' = TRUE /\ UNCHANGED <<workMode, engineStates, taps>>
    BY <1>1, <1>6, ControlDoes
  <2>2. cs \in Seq(Calls) /\ AskedFor(cs, "mode") /\ \A p : NoSets(cs, p)
    BY <1>1, FewCalls
  <2> HIDE DEF cs
  <2>3. AppCalls(cs, Handlers)
    BY <1>1, <1>2, <2>1, <2>2, StepCalls
  <2>4. Wanted(sharedQueue', view', "mode")
    BY <1>1, <2>2, <2>3, WantedMore
  <2>5. Fine /\ HeldIn(T, E)'
    BY <1>4, <1>5, <2>2, <2>3 DEF NoSets
  <2> QED
    BY <1>3, <1>5, <2>1, <2>2, <2>3, <2>4, <2>5 DEF ControlInv, ControlTypeOK
<1>7. CASE ModeEvent
  <2>1. PICK cs \in {<<>>, <<ObserveCall("engine")>>} :
          /\ Called("mode", cs, HideBlock) /\ UNCHANGED <<opened, engineStates, taps>>
          /\ workMode' = IF Head(mainQueue).val # Null THEN Head(mainQueue).val ELSE workMode
    BY <1>1, <1>7, ControlDoes
  <2>2. cs \in Seq(Calls) /\ \A p : NoSets(cs, p)
    <3>1. /\ <<ObserveCall("engine")>> \in Seq(Calls) /\ \A p : NoSets(<<ObserveCall("engine")>>, p)
          /\ <<>> \in Seq(Calls) /\ \A p : NoSets(<<>>, p)
      BY <1>1, FewCalls
    <3> HIDE DEF Fine
    <3> QED
      BY <2>1, <3>1
  <2>3. /\ AppCalls(cs, Handlers \ {"mode"}) /\ ClientP!For(Head(mainQueue), "mode")
        /\ mainQueue # <<>> /\ Client!FireEvent(HideBlock)
    BY <1>1, <1>2, <2>1, <2>2, StepCalls DEF Called
  <2>4. AppCalls(cs, N)
    BY <2>3, FewerLeftAlone
  <2>5. Head(mainQueue).val \in Values
    BY <2>3, ValueGiven
  <2>6. Follows(shown', mainQueue', sharedQueue', "mode", {workMode'}, {})
    BY <1>1, <1>2, <2>1, <2>3, FollowsCalled
  <2>7. Follows(shown', mainQueue', sharedQueue', "engine", {engineStates}, {engineStates})
    BY <1>1, <2>2, <2>3, FollowsOn DEF ControlInv
  <2>8. Fine /\ HeldIn(T, E)' /\ (Wanted(sharedQueue, view, "mode") => Wanted(sharedQueue', view', "mode"))
    BY <1>4, <2>2, <2>4 DEF NoSets
  <2> QED
    BY <1>3, <2>1, <2>5, <2>6, <2>7, <2>8 DEF ControlInv, ControlTypeOK
<1>8. CASE EngineEvent
  <2>1. /\ Called("engine", <<>>, <<>>) /\ UNCHANGED <<opened, workMode, taps>>
        /\ engineStates' = IF Head(mainQueue).val # Null THEN Head(mainQueue).val ELSE engineStates
    BY <1>1, <1>8, ControlDoes
  <2>2. <<>> \in Seq(Calls) /\ \A p : NoSets(<<>>, p)
    BY FewCalls
  <2>3. /\ AppCalls(<<>>, Handlers \ {"engine"}) /\ ClientP!For(Head(mainQueue), "engine")
        /\ mainQueue # <<>> /\ Client!FireEvent(<<>>)
    BY <1>1, <1>2, <2>1, <2>2, StepCalls DEF Called
  <2>4. AppCalls(<<>>, N)
    BY <2>3, FewerLeftAlone
  <2>5. Head(mainQueue).val \in E
    BY <1>1, <2>3, HeldFired DEF ControlInv
  <2>6. engineStates' \subseteq Rows
    BY <1>1, <1>3, <2>1, <2>5
  <2>7. Follows(shown', mainQueue', sharedQueue', "engine", {engineStates'}, {engineStates'})
    BY <1>1, <1>2, <2>1, <2>3, FollowsCalled
  <2>8. Follows(shown', mainQueue', sharedQueue', "mode", {workMode}, {})
    BY <1>1, <2>2, <2>3, FollowsOn DEF ControlInv
  <2>9. Fine /\ HeldIn(T, E)' /\ (Wanted(sharedQueue, view, "mode") => Wanted(sharedQueue', view', "mode"))
    BY <1>4, <2>2, <2>4 DEF NoSets
  <2> QED
    BY <1>3, <2>1, <2>6, <2>7, <2>8, <2>9 DEF ControlInv, ControlTypeOK
<1>9. CASE EngineWritten \/ SpeedWritten
  <2>1. UNCHANGED <<opened, workMode, engineStates, taps>>
    BY <1>1, <1>9, ControlDoes DEF controlVars
  <2>2. <<>> \in Seq(Calls) /\ \A p : NoSets(<<>>, p)
    BY FewCalls
  <2>3. \E p : \E ts \in {<<>>, HideBlock} : Completed(p, <<>>, ts)
    BY <1>1, <1>9, ControlDoes
  <2>4. AppCalls(<<>>, Handlers)
    BY <1>2, <2>2, <2>3, StepCalls
  <2>5. Fine /\ HeldIn(T, E)' /\ (Wanted(sharedQueue, view, "mode") => Wanted(sharedQueue', view', "mode"))
    BY <1>4, <1>5, <2>2, <2>4 DEF NoSets
  <2> QED
    BY <1>3, <1>5, <2>1, <2>2, <2>4, <2>5 DEF ControlInv, ControlTypeOK
<1>10. ASSUME NEW r \in Rows, Tap(r)
       PROVE  ControlInv' /\ Fine
  <2> DEFINE cs == SwitchCalls(engineStates, engineStates')
  <2>1. /\ Asks(cs) /\ taps < MaxTaps /\ taps' = taps + 1 /\ UNCHANGED <<opened, workMode>>
        /\ engineStates' \in {engineStates \cup {r}, engineStates \ {r}}
    BY <1>1, <1>10, ControlDoes
  <2>2. engineStates' \in SUBSET Rows /\ engineStates' \in EngineStates
    BY <1>1, <1>3, <2>1
  <2>3. /\ cs \in Seq(Calls) /\ LastSet(cs, T, {engineStates'})
        /\ \A i \in 1..Len(cs) : IsSet(cs[i], T) => cs[i].val = engineStates'
        /\ \A p : p \notin {T, "pumpSpeed"} => NoSets(cs, p)
    BY <2>2, SwitchCallsAre
  <2> HIDE DEF cs
  <2>4. AppCalls(cs, Handlers)
    BY <1>1, <1>2, <2>1, <2>3, StepCalls
  <2>5. Follows(shown', mainQueue', sharedQueue', "engine", {engineStates'}, {engineStates'})
    BY <1>1, <2>3, <2>4, FollowsOwn
  <2>6. Fine /\ HeldIn(T, E)' /\ (Wanted(sharedQueue, view, "mode") => Wanted(sharedQueue', view', "mode"))
    BY <1>4, <1>5, <2>2, <2>3, <2>4
  <2>7. taps' \in 0..MaxTaps
    BY <1>1, <1>3, <2>1
  <2> QED
    BY <1>3, <1>5, <2>1, <2>2, <2>3, <2>4, <2>5, <2>6, <2>7 DEF ControlInv, ControlTypeOK
<1> QED
  BY <1>6, <1>7, <1>8, <1>9, <1>10 DEF ControlCallback

LEMMA SettingOwn ==
  ASSUME DatabaseInv, SettingInv,
         LoadSetting \/ SettingCallback \/ SettingUser
  PROVE  /\ SettingInv'
         /\ \E cs \in Seq(Calls) :
              /\ AppCalls(cs, Handlers \ {"setting"})
              /\ \A p : p \notin ThresholdPaths \cup {"CHEDO"} => NoSets(cs, p)
<1> DEFINE N == Handlers \ {"setting"}
           Fine == \E cs \in Seq(Calls) :
                     /\ AppCalls(cs, N)
                     /\ \A p : p \notin ThresholdPaths \cup {"CHEDO"} => NoSets(cs, p)
           Held == switches # {} => Follows(shown, mainQueue, sharedQueue, "setting",
                                            Meant(switches), Meant(switches))
           HeldNext == switches' # {} => Follows(shown', mainQueue', sharedQueue', "setting",
                                                 Meant(switches'), Meant(switches'))
           WantedStays == Wanted(sharedQueue, view, "setting")
                            => Wanted(sharedQueue', view', "setting")
<1>1. /\ "setting" \in Handlers /\ "CHEDO" \in Paths /\ PathOf["setting"] = "CHEDO"
      /\ "CHEDO" \notin ThresholdPaths /\ Tasks = {"show", "hide"}
      /\ Modes \subseteq Values /\ AutoMode \in Modes /\ App \in Modes
      /\ MaxTurns \in Nat /\ MaxEdits \in Nat
  BY SettingScreenAssumption DEF Modes
<1>2. /\ HideBlock \in Client!TaskLists /\ <<>> \in Client!TaskLists
      /\ <<>> \in Seq(Calls) /\ \A p : NoSets(<<>>, p)
  BY <1>1, FewCalls DEF HideBlock, Client!TaskLists
<1>3. SettingTypeOK /\ Held /\ (loaded => Wanted(sharedQueue, view, "setting"))
  BY DEF SettingInv
<1>4. ASSUME NEW cs \in Seq(Calls), AppCalls(cs, Handlers),
             \A p : p \notin ThresholdPaths \cup {"CHEDO"} => NoSets(cs, p)
      PROVE  /\ Fine /\ WantedStays
             /\ NoSets(cs, "CHEDO") /\ UNCHANGED switches => HeldNext
  <2>1. AppCalls(cs, N)
    BY <1>4, FewerLeftAlone
  <2>2. WantedStays
    BY <1>1, <1>4, WantedMore
  <2>3. NoSets(cs, "CHEDO") /\ UNCHANGED switches => HeldNext
    BY <1>1, <1>3, <1>4, FollowsOn DEF Meant
  <2> QED
    BY <1>4, <2>1, <2>2, <2>3
<1>5. \A x : SwitchesOf(x) \subseteq Modes
  BY <1>1 DEF SwitchesOf
<1>6. CASE LoadSetting
  <2> DEFINE cs == <<ObserveCall("setting")>>
  <2>1. Asks(cs) /\ loaded' = TRUE /\ switches' = {} /\ UNCHANGED <<fields, turned, edits, bypassed>>
    BY <1>6, SettingDoes
  <2>2. cs \in Seq(Calls) /\ AskedFor(cs, "setting") /\ \A p : NoSets(cs, p)
    BY <1>1, FewCalls
  <2> HIDE DEF cs
  <2>3. AppCalls(cs, Handlers)
    BY <1>1, <1>2, <2>1, <2>2, StepCalls
  <2>4. Wanted(sharedQueue', view', "setting")
    BY <1>1, <2>2, <2>3, WantedMore
  <2>5. Fine
    BY <1>4, <2>2, <2>3
  <2>6. SettingTypeOK'
    BY <1>3, <2>1 DEF SettingTypeOK
  <2> QED
    BY <2>1, <2>4, <2>5, <2>6 DEF SettingInv
<1>7. CASE SettingEvent
  <2>1. /\ Called("setting", <<>>, HideBlock) /\ UNCHANGED <<loaded, fields, turned, edits, bypassed>>
        /\ switches' = IF Head(mainQueue).val # Null
                       THEN SwitchesOf(Head(mainQueue).val) ELSE switches
    BY <1>7, SettingDoes
  <2>2. /\ AppCalls(<<>>, N) /\ ClientP!For(Head(mainQueue), "setting")
        /\ mainQueue # <<>> /\ Client!FireEvent(HideBlock)
    BY <1>1, <1>2, <2>1, StepCalls DEF Called
  <2>3. Head(mainQueue).val \in Values
    BY <2>2, ValueGiven
  <2>4. Head(mainQueue).val \in {Null} \cup Meant(switches')
    BY <2>1, <2>3 DEF Meant, SwitchesOf, Modes
  <2>5. HeldNext
    BY <1>1, <1>2, <2>2, <2>4, FollowsCalled
  <2>6. Fine /\ WantedStays
    BY <1>1, <1>2, <2>2, WantedMore
  <2>7. SettingTypeOK'
    BY <1>3, <1>5, <2>1 DEF SettingTypeOK
  <2> QED
    BY <1>3, <2>1, <2>5, <2>6, <2>7 DEF SettingInv
<1>8. CASE ModeWritten
  <2>1. PICK cs \in {<<>>, ThresholdCalls(Head(mainQueue).write.val)} :
          Completed("CHEDO", cs, <<>>) /\ UNCHANGED settingVars
    BY <1>8, SettingDoes
  <2>2. cs \in Seq(Calls) /\ \A p : p \notin ThresholdPaths => NoSets(cs, p)
    <3> HIDE DEF Fine, Held
    <3>1. /\ ThresholdCalls(Head(mainQueue).write.val) \in Seq(Calls)
          /\ \A p : p \notin ThresholdPaths
                      => NoSets(ThresholdCalls(Head(mainQueue).write.val), p)
      BY <1>3, ThresholdCallsAre
    <3> QED
      BY <1>2, <2>1, <3>1
  <2>3. AppCalls(cs, Handlers)
    BY <1>2, <2>1, <2>2, StepCalls
  <2>4. UNCHANGED <<loaded, switches, fields, turned, edits, bypassed>>
    BY <2>1 DEF settingVars
  <2>5. Fine /\ WantedStays /\ HeldNext
    BY <1>1, <1>4, <2>2, <2>3, <2>4
  <2>6. SettingTypeOK'
    BY <1>3, <2>4 DEF SettingTypeOK
  <2> QED
    BY <1>3, <2>4, <2>5, <2>6 DEF SettingInv
<1>9. CASE ThresholdWritten
  <2>1. UNCHANGED settingVars /\ \E p : Completed(p, <<>>, <<>>)
    BY <1>9, SettingDoes
  <2>2. AppCalls(<<>>, Handlers)
    BY <1>2, <2>1, StepCalls
  <2>3. UNCHANGED <<loaded, switches, fields, turned, edits, bypassed>>
    BY <2>1 DEF settingVars
  <2>4. Fine /\ WantedStays /\ HeldNext
    BY <1>2, <1>4, <2>2, <2>3
  <2>5. SettingTypeOK'
    BY <1>3, <2>3 DEF SettingTypeOK
  <2> QED
    BY <1>3, <2>3, <2>4, <2>5 DEF SettingInv
<1>10. ASSUME NEW m \in Modes, Turn(m)
       PROVE  SettingInv' /\ Fine
  <2>1. /\ loaded /\ turned < MaxTurns /\ turned' = turned + 1 /\ switches' = Turned(m)
        /\ bypassed' \in BOOLEAN /\ UNCHANGED <<loaded, fields, edits>>
        /\ \/ Only(<<SetCall("CHEDO", m)>>) \/ Asks(<<ObserveCall("setting")>>)
    BY <1>10, SettingDoes
  <2>2. SettingTypeOK'
    BY <1>1, <1>3, <2>1 DEF SettingTypeOK, Turned
  <2>3. CASE Only(<<SetCall("CHEDO", m)>>)
    <3> DEFINE cs == <<SetCall("CHEDO", m)>>
    <3>1. /\ cs \in Seq(Calls) /\ (\A p : p # "CHEDO" => NoSets(cs, p))
          /\ \A W : m \in W => LastSet(cs, "CHEDO", W)
      BY <1>1, FewCalls
    <3>2. Only(cs)
      BY <2>3
    <3> HIDE DEF cs
    <3>3. AppCalls(cs, Handlers)
      BY <1>2, <3>1, <3>2, StepCalls
    <3>4. switches' # {} => m \in Meant(switches')
      BY <1>1, <2>1 DEF Meant, Turned, SwitchesOf
    <3>5. HeldNext
      BY <1>1, <3>1, <3>3, <3>4, FollowsOwn
    <3>6. Fine /\ WantedStays
      BY <1>4, <3>1, <3>3
    <3> QED
      BY <1>3, <2>1, <2>2, <3>5, <3>6 DEF SettingInv
  <2>4. CASE Asks(<<ObserveCall("setting")>>)
    <3> DEFINE cs == <<ObserveCall("setting")>>
    <3>1. cs \in Seq(Calls) /\ AskedFor(cs, "setting") /\ \A p : NoSets(cs, p)
      BY <1>1, FewCalls
    <3>2. Asks(cs)
      BY <2>4
    <3> HIDE DEF cs
    <3>3. AppCalls(cs, Handlers)
      BY <1>1, <1>2, <3>1, <3>2, StepCalls
    <3>4. HeldNext
      BY <1>1, <3>1, <3>3, FollowsOwn
    <3>5. Fine /\ WantedStays
      BY <1>4, <3>1, <3>3
    <3> QED
      BY <1>3, <2>1, <2>2, <3>4, <3>5 DEF SettingInv
  <2> QED
    BY <2>1, <2>3, <2>4
<1>11. ASSUME NEW p \in ThresholdPaths, NEW text \in Texts \cup {Empty}, Edit(p, text)
       PROVE  SettingInv' /\ Fine
  <2>1. /\ Only(<<>>) /\ edits < MaxEdits /\ edits' = edits + 1 /\ bypassed' \in BOOLEAN
        /\ fields' = [fields EXCEPT ![p] = text] /\ UNCHANGED <<loaded, switches, turned>>
    BY <1>11, SettingDoes
  <2>2. AppCalls(<<>>, Handlers)
    BY <1>2, <2>1, StepCalls
  <2>3. Fine /\ WantedStays /\ HeldNext
    BY <1>2, <1>4, <2>1, <2>2
  <2>4. SettingTypeOK'
    BY <1>1, <1>3, <2>1 DEF SettingTypeOK
  <2> QED
    BY <1>3, <2>1, <2>3, <2>4 DEF SettingInv
<1> QED
  BY <1>6, <1>7, <1>8, <1>9, <1>10, <1>11 DEF SettingCallback, SettingUser

-----------------------------------------------------------------------------
(* The pump's screen.                                                      *)

LampInv ==
  /\ pumpModeSlider \in Values
  /\ pumpLoaded => Wanted(sharedQueue, view, "speed")
  /\ ~unsent => Follows(shown, mainQueue, sharedQueue, "speed", {pumpModeSlider}, {pumpModeSlider})

\* Right behind a limit among the calls there is a speed.
Paired(cs) ==
  \A i \in 1..Len(cs) :
    IsSet(cs[i], "timeoutPump") => i + 1 \in 1..Len(cs) /\ IsSet(cs[i + 1], "pumpSpeed")

IsPut(r, p) == r.msg = "put" /\ r.path = p

\* And so there is behind a limit on its way to the server; behind the last
\* request there are the calls.
LimitPaired(requests, cs) ==
  \A i \in 1..Len(requests) :
    IsPut(requests[i], "timeoutPump") =>
      IF i + 1 \in 1..Len(requests) THEN IsPut(requests[i + 1], "pumpSpeed")
      ELSE 1 \in 1..Len(cs) /\ IsSet(cs[1], "pumpSpeed")

LimitInv == Paired(sharedQueue) /\ LimitPaired(toServer, sharedQueue)

LEMMA PairedJoined ==
  ASSUME NEW cs \in Seq(Calls), NEW ds \in Seq(Calls), Paired(cs), Paired(ds)
  PROVE  Paired(cs \o ds)
<1> DEFINE u == cs \o ds
<1>1. Together(cs, ds, u)
  BY Joined
<1> HIDE DEF u
<1> SUFFICES ASSUME NEW i \in 1..Len(u), IsSet(u[i], "timeoutPump")
             PROVE  i + 1 \in 1..Len(u) /\ IsSet(u[i + 1], "pumpSpeed")
  BY DEF Paired, u
<1>2. CASE i \in 1..Len(cs)
  <2>1. i + 1 \in 1..Len(cs) /\ IsSet(cs[i + 1], "pumpSpeed")
    BY <1>1, <1>2 DEF Together, Paired
  <2> QED
    BY <1>1, <2>1 DEF Together
<1>3. CASE i \notin 1..Len(cs)
  <2>1. PICK k \in 1..Len(ds) : i = Len(cs) + k /\ u[i] = ds[k]
    BY <1>1, <1>3 DEF Together
  <2>2. k + 1 \in 1..Len(ds) /\ IsSet(ds[k + 1], "pumpSpeed")
    BY <2>1 DEF Paired
  <2>3. Len(cs) + (k + 1) \in 1..Len(u) /\ u[Len(cs) + (k + 1)] = ds[k + 1]
    BY <1>1, <2>2 DEF Together
  <2>4. i + 1 = Len(cs) + (k + 1)
    BY <1>1, <2>1 DEF Together
  <2> QED
    BY <2>2, <2>3, <2>4
<1> QED
  BY <1>2, <1>3

LEMMA PairedShortened ==
  ASSUME NEW cs \in Seq(Calls), cs # <<>>, Paired(cs)
  PROVE  /\ Paired(Tail(cs))
         /\ IsSet(Head(cs), "timeoutPump")
              => 1 \in 1..Len(Tail(cs)) /\ IsSet(Tail(cs)[1], "pumpSpeed")
<1> DEFINE x == Head(cs)
           t == Tail(cs)
<1>1. Without(cs, x, t)
  BY Shortened
<1> HIDE DEF x, t
<1>2. ASSUME NEW i \in 1..Len(t), IsSet(t[i], "timeoutPump")
      PROVE  i + 1 \in 1..Len(t) /\ IsSet(t[i + 1], "pumpSpeed")
  <2>1. i + 1 \in 1..Len(cs) /\ cs[i + 1] = t[i]
    BY <1>1 DEF Without
  <2>2. (i + 1) + 1 \in 1..Len(cs) /\ IsSet(cs[(i + 1) + 1], "pumpSpeed")
    BY <1>2, <2>1 DEF Paired
  <2>3. PICK j \in 1..Len(t) : (i + 1) + 1 = j + 1 /\ t[j] = cs[(i + 1) + 1]
    BY <1>1, <2>2 DEF Without
  <2>4. j = i + 1
    BY <2>3
  <2> QED
    BY <2>2, <2>3, <2>4
<1>3. ASSUME IsSet(x, "timeoutPump")
      PROVE  1 \in 1..Len(t) /\ IsSet(t[1], "pumpSpeed")
  <2>1. 2 \in 1..Len(cs) /\ IsSet(cs[2], "pumpSpeed")
    BY <1>1, <1>3 DEF Paired, Without
  <2>2. PICK j \in 1..Len(t) : 2 = j + 1 /\ t[j] = cs[2]
    BY <1>1, <2>1 DEF Without
  <2>3. j = 1
    BY <2>2
  <2> QED
    BY <2>1, <2>2, <2>3
<1> QED
  BY <1>2, <1>3 DEF Paired, x, t

\* A request leaves: what it names is not among the calls any more.
LEMMA LimitSent ==
  ASSUME NEW q \in Seq(Requests), NEW r \in Requests, NEW cs \in Seq(Calls), cs # <<>>, Paired(cs),
         LimitPaired(q, cs), \A p : IsSet(Head(cs), p) <=> IsPut(r, p)
  PROVE  LimitPaired(q \o <<r>>, Tail(cs))
<1> DEFINE s == <<r>>
           u == q \o s
           t == Tail(cs)
           x == Head(cs)
<1>1. s \in Seq(Requests) /\ Len(s) = 1 /\ s[1] = r
  OBVIOUS
<1>2. Without(cs, x, t)
  BY Shortened
<1>3. IsSet(x, "timeoutPump") => 1 \in 1..Len(t) /\ IsSet(t[1], "pumpSpeed")
  BY PairedShortened
<1>4. \A p : IsSet(x, p) <=> IsPut(r, p)
  OBVIOUS
<1> HIDE DEF s
<1>5. Together(q, s, u) /\ Len(u) = Len(q) + Len(s)
  BY <1>1, Joined, ConcatProperties
<1> HIDE DEF u, t, x
<1>6. Len(q) + 1 \in 1..Len(u) /\ u[Len(q) + 1] = r /\ Len(u) = Len(q) + 1
  BY <1>1, <1>5 DEF Together
<1> SUFFICES ASSUME NEW i \in 1..Len(u), IsPut(u[i], "timeoutPump")
             PROVE  IF i + 1 \in 1..Len(u) THEN IsPut(u[i + 1], "pumpSpeed")
                    ELSE 1 \in 1..Len(t) /\ IsSet(t[1], "pumpSpeed")
  BY DEF LimitPaired, u, t, s
<1>7. CASE i \in 1..Len(q)
  <2>1. q[i] = u[i] /\ i + 1 \in 1..Len(u)
    BY <1>5, <1>6, <1>7 DEF Together
  <2>2. CASE i + 1 \in 1..Len(q)
    <3>1. IsPut(q[i + 1], "pumpSpeed")
      BY <1>7, <2>1, <2>2 DEF LimitPaired
    <3> QED
      BY <1>5, <2>1, <2>2, <3>1 DEF Together
  <2>3. CASE i + 1 \notin 1..Len(q)
    <3>1. IsSet(cs[1], "pumpSpeed")
      BY <1>7, <2>1, <2>3 DEF LimitPaired
    <3>2. IsPut(r, "pumpSpeed")
      BY <1>2, <1>4, <3>1 DEF Without
    <3>3. i + 1 = Len(q) + 1
      BY <1>5, <1>7, <2>3 DEF Together
    <3> QED
      BY <1>6, <2>1, <3>2, <3>3
  <2> QED
    BY <2>2, <2>3
<1>8. CASE i \notin 1..Len(q)
  <2>1. i = Len(q) + 1 /\ Len(q) \in Nat
    BY <1>5, <1>6, <1>8 DEF Together
  <2>2. i + 1 \notin 1..Len(u) /\ IsPut(r, "timeoutPump")
    BY <1>6, <2>1
  <2> QED
    BY <1>3, <1>4, <2>2
<1> QED
  BY <1>7, <1>8

LEMMA LimitTaken ==
  ASSUME NEW q \in Seq(Requests), q # <<>>, NEW cs, LimitPaired(q, cs)
  PROVE  LimitPaired(Tail(q), cs)
<1> DEFINE x == Head(q)
           t == Tail(q)
<1>1. Without(q, x, t)
  BY Shortened
<1> HIDE DEF x, t
<1>2. ASSUME NEW i \in 1..Len(t), IsPut(t[i], "timeoutPump")
      PROVE  IF i + 1 \in 1..Len(t) THEN IsPut(t[i + 1], "pumpSpeed")
             ELSE 1 \in 1..Len(cs) /\ IsSet(cs[1], "pumpSpeed")
  <2>1. i + 1 \in 1..Len(q) /\ q[i + 1] = t[i]
    BY <1>1 DEF Without
  <2>2. IF (i + 1) + 1 \in 1..Len(q) THEN IsPut(q[(i + 1) + 1], "pumpSpeed")
        ELSE 1 \in 1..Len(cs) /\ IsSet(cs[1], "pumpSpeed")
    BY <1>2, <2>1 DEF LimitPaired
  <2>3. CASE i + 1 \in 1..Len(t)
    <3>1. (i + 1) + 1 \in 1..Len(q) /\ q[(i + 1) + 1] = t[i + 1]
      BY <1>1, <2>3 DEF Without
    <3> QED
      BY <2>2, <2>3, <3>1
  <2>4. CASE i + 1 \notin 1..Len(t)
    <3>1. ASSUME (i + 1) + 1 \in 1..Len(q)
          PROVE  FALSE
      <4>1. PICK j \in 1..Len(t) : (i + 1) + 1 = j + 1
        BY <1>1, <3>1 DEF Without
      <4>2. j = i + 1
        BY <4>1
      <4> QED
        BY <2>4, <4>2
    <3> QED
      BY <2>2, <2>4, <3>1
  <2> QED
    BY <2>3, <2>4
<1> QED
  BY <1>2 DEF LimitPaired, t

LEMMA LimitMore ==
  ASSUME NEW q, NEW cs \in Seq(Calls), NEW ds \in Seq(Calls), LimitPaired(q, cs)
  PROVE  LimitPaired(q, cs \o ds)
<1> DEFINE u == cs \o ds
<1>1. Together(cs, ds, u)
  BY Joined
<1> HIDE DEF u
<1>2. 1 \in 1..Len(cs) => 1 \in 1..Len(u) /\ u[1] = cs[1]
  BY <1>1 DEF Together
<1> QED
  BY <1>2 DEF LimitPaired, u

LEMMA LimitBelow ==
  ASSUME DatabaseInv, ServiceNext, LimitInv
  PROVE  LimitInv'
<1>1. sharedQueue \in Seq(Calls) /\ toServer \in Seq(Requests) /\ Client!TypeOK
  BY DatabaseTypes DEF DatabaseInv, ServiceInv, Typed
<1>2. CASE RunSet
  <2> DEFINE c == Head(sharedQueue)
             r == Put(writeIdCounter, c.path, c.val)
  <2>1. /\ sharedQueue # <<>> /\ sharedQueue' = Tail(sharedQueue)
        /\ c.path \in Paths /\ c.val \in Values /\ c.call = "set"
    BY <1>2, RunSetTakes DEF IsSet
  <2>2. writeIdCounter \in Nat /\ toServer' = Append(toServer, r)
    BY <1>1, <1>2 DEF RunSet, Send, Client!TypeOK
  <2>3. r \in Requests /\ r.msg = "put" /\ r.path = c.path
    BY <2>1, <2>2 DEF Put, Requests
  <2> HIDE DEF r
  <2>4. toServer' = toServer \o <<r>>
    BY <1>1, <2>2, <2>3, AppendIsConcat
  <2>5. \A p : IsSet(c, p) <=> IsPut(r, p)
    BY <2>1, <2>3 DEF IsSet, IsPut
  <2>6. LimitPaired(toServer', sharedQueue')
    BY <1>1, <2>1, <2>3, <2>4, <2>5, LimitSent DEF LimitInv
  <2> QED
    BY <1>1, <2>1, <2>6, PairedShortened DEF LimitInv
<1>3. CASE RunObserve
  <2> DEFINE c == Head(sharedQueue)
             r == Listen(PathOf[c.handler])
  <2>1. /\ sharedQueue # <<>> /\ sharedQueue' = Tail(sharedQueue)
        /\ c.handler \in Handlers /\ c.call = "observe"
    BY <1>3, RunObserveTakes DEF IsObserve
  <2>2. \/ toServer' = toServer
        \/ toServer' = Append(toServer, r)
    BY <1>3 DEF RunObserve, Send
  <2>3. r \in Requests /\ r.msg = "listen"
    BY <2>1, RealtimeDatabaseAssumption DEF Listen, Requests
  <2> HIDE DEF r
  <2>4. LimitPaired(toServer \o <<r>>, sharedQueue')
    BY <1>1, <2>1, <2>3, LimitSent DEF LimitInv, IsSet, IsPut
  <2>5. CASE toServer' = toServer
    <3> DEFINE t == Tail(sharedQueue)
    <3>1. c = sharedQueue[1]
      BY <1>1, <2>1, Shortened DEF Without
    <3>2. ~IsSet(sharedQueue[1], "pumpSpeed")
      BY <2>1, <3>1 DEF IsSet
    <3> HIDE DEF t
    <3>3. LimitPaired(toServer, t)
      BY <3>2 DEF LimitPaired, LimitInv
    <3> QED
      BY <1>1, <2>1, <2>5, <3>3, PairedShortened DEF LimitInv, t
  <2>6. CASE toServer' = Append(toServer, r)
    <3>1. toServer' = toServer \o <<r>>
      BY <1>1, <2>3, <2>6, AppendIsConcat
    <3> QED
      BY <1>1, <2>1, <2>4, <3>1, PairedShortened DEF LimitInv
  <2> QED
    BY <2>2, <2>5, <2>6
<1>4. CASE ServePut \/ ServeListen
  <2>1. toServer # <<>> /\ toServer' = Tail(toServer) /\ sharedQueue' = sharedQueue
    BY <1>4 DEF ServePut, ServeListen
  <2> QED
    BY <1>1, <2>1, LimitTaken DEF LimitInv
<1>5. CASE UNCHANGED <<toServer, sharedQueue>>
  BY <1>5 DEF LimitInv
<1> QED
  BY <1>2, <1>3, <1>4, <1>5 DEF ServiceNext, Receive, AckPut, RemoteWrite, serverVars

LEMMA LampDoes ==
  ASSUME DatabaseInv
  PROVE  /\ PumpViewDidLoad =>
              /\ Only(<<ObserveCall("speed")>>)
              /\ pumpLoaded' = TRUE /\ UNCHANGED <<pumpModeSlider, unsent>>
         /\ SpeedEvent =>
              /\ Called("speed", <<>>, <<>>) /\ UNCHANGED pumpLoaded
              /\ IF Head(mainQueue).val # Null
                 THEN pumpModeSlider' = Head(mainQueue).val /\ unsent' = FALSE
                 ELSE UNCHANGED <<pumpModeSlider, unsent>>
         /\ \A speed : MoveSlider(speed) =>
              /\ Only(<<>>) /\ pumpModeSlider' = speed /\ unsent' = TRUE /\ UNCHANGED pumpLoaded
         /\ \A limit : Press(limit) =>
              /\ Only(ButtonCalls(limit)) /\ UNCHANGED <<pumpLoaded, pumpModeSlider>>
              /\ unsent' = IF limit = Over THEN unsent ELSE FALSE
         /\ \A p : WriteAnswered(p) => Completed(p, <<>>, <<>>) /\ UNCHANGED pumpVars
<1>1. sharedQueue \in Seq(Calls) /\ sharedQueue \o <<>> = sharedQueue
  BY DatabaseTypes, ConcatEmptySeq
<1>2. "speed" \in Handlers
  BY PumpScreenAssumption
<1>3. Append(sharedQueue, ObserveCall("speed")) = sharedQueue \o <<ObserveCall("speed")>>
  BY <1>1, <1>2, FewCalls, AppendIsConcat
<1>4. UNCHANGED serviceVars => UNCHANGED <<clientVars, farVars, sharedQueue>>
  BY DEF serviceVars, farVars
<1>5. ASSUME PumpViewDidLoad
      PROVE  /\ Only(<<ObserveCall("speed")>>)
             /\ pumpLoaded' = TRUE /\ UNCHANGED <<pumpModeSlider, unsent>>
  BY <1>3, <1>5 DEF PumpViewDidLoad, Only
<1>6. ASSUME SpeedEvent
      PROVE  /\ Called("speed", <<>>, <<>>) /\ UNCHANGED pumpLoaded
             /\ IF Head(mainQueue).val # Null
                THEN pumpModeSlider' = Head(mainQueue).val /\ unsent' = FALSE
                ELSE UNCHANGED <<pumpModeSlider, unsent>>
  BY <1>1, <1>6 DEF SpeedEvent, Readable, Called
<1>7. ASSUME NEW speed, MoveSlider(speed)
      PROVE  /\ Only(<<>>) /\ pumpModeSlider' = speed /\ unsent' = TRUE /\ UNCHANGED pumpLoaded
  BY <1>1, <1>4, <1>7 DEF MoveSlider, Only
<1>8. ASSUME NEW limit, Press(limit)
      PROVE  /\ Only(ButtonCalls(limit)) /\ UNCHANGED <<pumpLoaded, pumpModeSlider>>
             /\ unsent' = IF limit = Over THEN unsent ELSE FALSE
  BY <1>8 DEF Press, Only
<1>9. ASSUME NEW p, WriteAnswered(p)
      PROVE  Completed(p, <<>>, <<>>) /\ UNCHANGED pumpVars
  BY <1>1, <1>9 DEF WriteAnswered, Completed
<1> QED
  BY <1>5, <1>6, <1>7, <1>8, <1>9

\* The button writes the speed last.
LEMMA ButtonCallsAre ==
  ASSUME pumpModeSlider \in Values, NEW limit \in Limits \cup {None, Over}
  PROVE  /\ ButtonCalls(limit) \in Seq(Calls) /\ Paired(ButtonCalls(limit))
         /\ limit # Over => LastSet(ButtonCalls(limit), "pumpSpeed", {pumpModeSlider})
         /\ limit = Over => ButtonCalls(limit) = <<>>
<1> DEFINE a == SetCall("timeoutPump", limit)
           b == SetCall("pumpSpeed", pumpModeSlider)
           s == IF limit = None THEN <<>> ELSE <<a>>
           t == <<b>>
           u == ButtonCalls(limit)
<1>1. CASE limit = Over
  <2>1. u = <<>>
    BY <1>1 DEF ButtonCalls
  <2> QED
    BY <1>1, <2>1, FewCalls DEF Paired
<1>2. CASE limit # Over
  <2>1. {"pumpSpeed", "timeoutPump"} \subseteq Paths /\ limit \in Limits \cup {None}
        /\ Limits \subseteq Values
    BY <1>2, PumpScreenAssumption
  <2>2. /\ t \in Seq(Calls) /\ LastSet(t, "pumpSpeed", {pumpModeSlider})
        /\ IsSet(b, "pumpSpeed") /\ NoSets(t, "timeoutPump")
    BY <2>1, FewCalls
  <2>3. s \in Seq(Calls) /\ Len(s) \in {0, 1}
    BY <2>1, FewCalls
  <2>4. Len(t) = 1 /\ t[1] = b
    OBVIOUS
  <2>5. u = s \o t
    BY <1>2 DEF ButtonCalls, SetCall
  <2> HIDE DEF a, b, s, t, u
  <2>6. u \in Seq(Calls) /\ Together(s, t, u)
    BY <2>2, <2>3, <2>5, Joined
  <2>7. LastSet(u, "pumpSpeed", {pumpModeSlider})
    BY <2>2, <2>3, <2>5, LastSetJoined
  <2>8. Paired(u)
    <3> SUFFICES ASSUME NEW i \in 1..Len(u), IsSet(u[i], "timeoutPump")
                 PROVE  i + 1 \in 1..Len(u) /\ IsSet(u[i + 1], "pumpSpeed")
      BY DEF Paired
    <3>1. i \in 1..Len(s)
      BY <2>2, <2>6 DEF Together, NoSets
    <3>2. i = 1 /\ Len(s) = 1
      <4>1. CASE Len(s) = 0
        BY <3>1, <4>1
      <4>2. CASE Len(s) = 1
        BY <3>1, <4>2
      <4> QED
        BY <2>3, <4>1, <4>2
    <3>3. Len(s) + 1 \in 1..Len(u) /\ u[Len(s) + 1] = b
      BY <2>4, <2>6 DEF Together
    <3> QED
      BY <2>2, <3>2, <3>3
  <2> QED
    BY <1>2, <2>6, <2>7, <2>8 DEF u
<1> QED
  BY <1>1, <1>2

LEMMA LampApp ==
  ASSUME DatabaseInv, LimitInv, NEW cs, NEW Hs, AppCalls(cs, Hs), Paired(cs)
  PROVE  LimitInv'
<1>1. cs \in Seq(Calls) /\ sharedQueue' = sharedQueue \o cs /\ toServer' = toServer
  BY DEF AppCalls, farVars, serverVars
<1>2. sharedQueue \in Seq(Calls)
  BY DatabaseTypes
<1>3. Paired(sharedQueue \o cs)
  BY <1>1, <1>2, PairedJoined DEF LimitInv
<1>4. LimitPaired(toServer, sharedQueue \o cs)
  BY <1>1, <1>2, LimitMore DEF LimitInv
<1> QED
  BY <1>1, <1>3, <1>4 DEF LimitInv

\* Calls that change the slider as they should keep what the screen keeps.
LEMMA LampKept ==
  ASSUME DatabaseInv, LampInv, LimitInv,
         NEW cs, AppCalls(cs, Handlers), Paired(cs),
         UNCHANGED <<pumpLoaded, pumpModeSlider, unsent>>,
         NoSets(cs, "pumpSpeed")
  PROVE  LampInv' /\ LimitInv'
<1>1. "speed" \in Handlers /\ PathOf["speed"] = "pumpSpeed"
  BY PumpScreenAssumption
<1>2. Wanted(sharedQueue, view, "speed") => Wanted(sharedQueue', view', "speed")
  BY <1>1, WantedMore
<1>3. ~unsent => Follows(shown', mainQueue', sharedQueue', "speed", {pumpModeSlider}, {pumpModeSlider})
  BY <1>1, FollowsOn DEF LampInv
<1> QED
  BY <1>2, <1>3, LampApp DEF LampInv

LEMMA LampOwn ==
  ASSUME DatabaseInv, LampInv, LimitInv,
         \/ PumpViewDidLoad \/ PumpMainThread
         \/ \E speed \in Speeds : MoveSlider(speed)
         \/ \E limit \in Limits \cup {None, Over} : Press(limit)
  PROVE  LampInv' /\ LimitInv' /\ Moves
<1>1. /\ "speed" \in Handlers /\ PathOf["speed"] = "pumpSpeed" /\ "pumpSpeed" \in Paths
      /\ Speeds \subseteq Values
  BY PumpScreenAssumption
<1>2. /\ <<>> \in Client!TaskLists /\ <<>> \in Seq(Calls) /\ Paired(<<>>)
      /\ \A p : NoSets(<<>>, p)
  BY FewCalls DEF Client!TaskLists, Paired
<1>3. CASE PumpViewDidLoad
  <2> DEFINE cs == <<ObserveCall("speed")>>
  <2>1. Only(cs) /\ pumpLoaded' = TRUE /\ UNCHANGED <<pumpModeSlider, unsent>>
    BY <1>3, LampDoes
  <2>2. cs \in Seq(Calls) /\ AskedFor(cs, "speed") /\ \A p : NoSets(cs, p)
    BY <1>1, FewCalls
  <2> HIDE DEF cs
  <2>3. Paired(cs)
    BY <2>2 DEF Paired, NoSets
  <2>4. AppCalls(cs, Handlers)
    BY <1>2, <2>1, <2>2, StepCalls
  <2>5. Wanted(sharedQueue', view', "speed")
    BY <1>1, <2>2, <2>4, WantedMore
  <2>6. ~unsent => Follows(shown', mainQueue', sharedQueue', "speed", {pumpModeSlider}, {pumpModeSlider})
    BY <1>1, <2>2, <2>4, FollowsOn DEF LampInv
  <2> QED
    BY <2>1, <2>3, <2>4, <2>5, <2>6, LampApp, CallsMove DEF LampInv
<1>4. CASE SpeedEvent
  <2>1. /\ Called("speed", <<>>, <<>>) /\ UNCHANGED pumpLoaded
        /\ IF Head(mainQueue).val # Null
           THEN pumpModeSlider' = Head(mainQueue).val /\ unsent' = FALSE
           ELSE UNCHANGED <<pumpModeSlider, unsent>>
    BY <1>4, LampDoes
  <2>2. /\ AppCalls(<<>>, Handlers \ {"speed"}) /\ ClientP!For(Head(mainQueue), "speed")
        /\ mainQueue # <<>> /\ Client!FireEvent(<<>>)
    BY <1>1, <1>2, <2>1, StepCalls DEF Called
  <2>3. Head(mainQueue).val \in Values
    BY <2>2, ValueGiven
  <2>4. Head(mainQueue).val \in {Null} \cup {pumpModeSlider'}
    BY <2>1
  <2>5. Follows(shown', mainQueue', sharedQueue', "speed", {pumpModeSlider'}, {pumpModeSlider'})
    BY <1>1, <1>2, <2>2, <2>4, FollowsCalled
  <2>6. Wanted(sharedQueue, view, "speed") => Wanted(sharedQueue', view', "speed")
    BY <1>1, <2>2, WantedMore
  <2> QED
    BY <1>2, <2>1, <2>2, <2>3, <2>5, <2>6, LampApp, CallsMove DEF LampInv
<1>5. CASE WriteAnswered("pumpSpeed") \/ WriteAnswered("timeoutPump")
  <2>1. UNCHANGED pumpVars /\ \E p : Completed(p, <<>>, <<>>)
    BY <1>5, LampDoes
  <2>2. AppCalls(<<>>, Handlers)
    BY <1>2, <2>1, StepCalls
  <2>3. UNCHANGED <<pumpLoaded, pumpModeSlider, unsent>>
    BY <2>1 DEF pumpVars
  <2> QED
    BY <1>2, <2>2, <2>3, LampKept, CallsMove
<1>6. ASSUME NEW speed \in Speeds, MoveSlider(speed)
      PROVE  LampInv' /\ LimitInv' /\ Moves
  <2>1. Only(<<>>) /\ pumpModeSlider' = speed /\ unsent' = TRUE /\ UNCHANGED pumpLoaded
    BY <1>6, LampDoes
  <2>2. AppCalls(<<>>, Handlers)
    BY <1>2, <2>1, StepCalls
  <2>3. Wanted(sharedQueue, view, "speed") => Wanted(sharedQueue', view', "speed")
    BY <1>1, <2>2, WantedMore
  <2> QED
    BY <1>1, <1>2, <2>1, <2>2, <2>3, LampApp, CallsMove DEF LampInv
<1>7. ASSUME NEW limit \in Limits \cup {None, Over}, Press(limit)
      PROVE  LampInv' /\ LimitInv' /\ Moves
  <2> DEFINE cs == ButtonCalls(limit)
  <2>1. Only(cs) /\ UNCHANGED <<pumpLoaded, pumpModeSlider>>
        /\ unsent' = IF limit = Over THEN unsent ELSE FALSE
    BY <1>7, LampDoes
  <2>2. /\ cs \in Seq(Calls) /\ Paired(cs)
        /\ limit # Over => LastSet(cs, "pumpSpeed", {pumpModeSlider})
        /\ limit = Over => cs = <<>>
    BY <1>7, ButtonCallsAre DEF LampInv
  <2> HIDE DEF cs
  <2>3. AppCalls(cs, Handlers)
    BY <1>2, <2>1, <2>2, StepCalls
  <2>4. Wanted(sharedQueue, view, "speed") => Wanted(sharedQueue', view', "speed")
    BY <1>1, <2>3, WantedMore
  <2>5. CASE limit = Over
    BY <1>2, <2>1, <2>2, <2>3, <2>5, LampKept, CallsMove
  <2>6. CASE limit # Over
    <3>1. Follows(shown', mainQueue', sharedQueue', "speed", {pumpModeSlider}, {pumpModeSlider})
      BY <1>1, <2>2, <2>3, <2>6, FollowsOwn
    <3> QED
      BY <2>1, <2>2, <2>3, <2>4, <2>6, <3>1, LampApp, CallsMove DEF LampInv
  <2> QED
    BY <2>5, <2>6
<1> QED
  BY <1>3, <1>4, <1>5, <1>6, <1>7 DEF PumpMainThread

\* What the steps that all screens share leave alone.
LEMMA SharedParts ==
  /\ Background => ServiceNext /\ UNCHANGED hudVars
  /\ DismissAlert => UNCHANGED <<serviceVars, hudVars>>
  /\ HideAnimationDone => HudHidden /\ UNCHANGED serviceVars
  /\ UNCHANGED sharedVars => UNCHANGED <<serviceVars, hudVars>>
BY DEF Background, DismissAlert, HideAnimationDone, sharedVars

LEMMA BelowMoves ==
  ServiceNext \/ UNCHANGED serviceVars => Moves
BY DEF Moves

-----------------------------------------------------------------------------
(* The pump's screen.                                                      *)

LEMMA LampUntouched ==
  ASSUME LampInv, LimitInv, UNCHANGED serviceVars, UNCHANGED pumpVars
  PROVE  LampInv' /\ LimitInv'
BY DEF LampInv, LimitInv, serviceVars, clientVars, serverVars, pumpVars

LEMMA LampBeside ==
  ASSUME DatabaseInv, Heard, ServiceNext, LampInv, LimitInv, UNCHANGED pumpVars
  PROVE  LampInv' /\ LimitInv'
<1>1. UNCHANGED <<pumpLoaded, pumpModeSlider, unsent>> /\ "speed" \in Handlers
  BY PumpScreenAssumption DEF pumpVars
<1>2. pumpLoaded => Wanted(sharedQueue', view', "speed")
  BY <1>1, WantedBelow DEF LampInv
<1>3. ~unsent => Follows(shown', mainQueue', sharedQueue', "speed", {pumpModeSlider}, {pumpModeSlider})
  BY <1>1, FollowsBelow DEF LampInv
<1> QED
  BY <1>1, <1>2, <1>3, LimitBelow DEF LampInv

LEMMA LampStarts ==
  ASSUME PumpScreenInit
  PROVE  DatabaseInv /\ Heard /\ LampInv /\ LimitInv
<1>1. /\ InitialDb \in [Paths -> Values] /\ Slowest \in Values /\ "speed" \in Handlers
  BY PumpScreenAssumption, ScreenAssumption
<1>2. /\ ServiceInit(InitialDb) /\ ~pumpLoaded /\ pumpModeSlider = Slowest
  BY DEF PumpScreenInit
<1>3. DatabaseInv /\ Heard
  BY <1>1, <1>2, DatabaseInitially, HeardInitially
<1>4. LampInv
  BY <1>1, <1>2, FollowsInitially DEF LampInv
<1>5. LimitInv
  BY <1>2 DEF LimitInv, Paired, LimitPaired, ServiceInit
<1> QED
  BY <1>3, <1>4, <1>5

LEMMA LampStep ==
  ASSUME DatabaseInv, Heard, LampInv, LimitInv,
         [PumpScreenNext]_pumpScreenVars
  PROVE  DatabaseInv' /\ Heard' /\ LampInv' /\ LimitInv'
<1> DEFINE Own == \/ PumpViewDidLoad \/ PumpMainThread
                  \/ \E speed \in Speeds : MoveSlider(speed)
                  \/ \E limit \in Limits \cup {None, Over} : Press(limit)
<1>1. CASE Own
  BY <1>1, LampOwn, DatabaseStep, HeardStep
<1>2. CASE ServiceNext /\ UNCHANGED pumpVars
  BY <1>2, LampBeside, BelowMoves, DatabaseStep, HeardStep
<1>3. CASE UNCHANGED serviceVars /\ UNCHANGED pumpVars
  BY <1>3, LampUntouched, BelowMoves, DatabaseStep, HeardStep
<1>4. Own \/ (ServiceNext /\ UNCHANGED pumpVars) \/ (UNCHANGED serviceVars /\ UNCHANGED pumpVars)
  BY SharedParts DEF PumpScreenNext, pumpScreenVars
<1> QED
  BY <1>1, <1>2, <1>3, <1>4

LEMMA LampShows ==
  ASSUME DatabaseInv, LampInv, LimitInv
  PROVE  SliderIsSpeed /\ SpeedFollowsLimit
<1>1. "speed" \in Handlers /\ PathOf["speed"] = "pumpSpeed"
  BY PumpScreenAssumption
<1>2. SliderIsSpeed
  <2> SUFFICES ASSUME pumpLoaded, Quiet, ~unsent, db["pumpSpeed"] # Null
               PROVE  pumpModeSlider = db["pumpSpeed"]
    BY DEF SliderIsSpeed
  <2> QED
    BY <1>1, FollowsWhenQuiet DEF LampInv
<1>3. SpeedFollowsLimit
  <2>1. toServer \in Seq(Requests) /\ sharedQueue \in Seq(Calls)
    BY DatabaseTypes DEF DatabaseInv, ServiceInv, Typed
  <2>2. Len(toServer) \in Nat
    BY <2>1, LenProperties
  <2>3. 1 \in 1..Len(sharedQueue) => sharedQueue # <<>>
    BY <2>1, EmptySeq
  <2>4. sharedQueue # <<>> => Head(sharedQueue) = sharedQueue[1]
    BY <2>1, Shortened DEF Without
  <2> SUFFICES ASSUME NEW i \in 1..Len(toServer), IsPut(toServer[i], "timeoutPump")
               PROVE  IF i < Len(toServer) THEN IsPut(toServer[i + 1], "pumpSpeed")
                      ELSE sharedQueue # <<>> /\ IsSet(Head(sharedQueue), "pumpSpeed")
    BY DEF SpeedFollowsLimit, IsPut, IsSet
  <2>5. i < Len(toServer) <=> i + 1 \in 1..Len(toServer)
    BY <2>2
  <2> QED
    BY <2>3, <2>4, <2>5 DEF LimitInv, LimitPaired
<1> QED
  BY <1>2, <1>3

\* Once nothing is on its way, the slider of the pump's screen stands at the
\* pump's speed unless the user has moved it and not pressed the button since
\* (LampViewController): for any speeds, limits, refusals and other writers.
THEOREM SliderFollowsSpeed ==
  PumpScreenSpec => []SliderIsSpeed
<1> DEFINE I == DatabaseInv /\ Heard /\ LampInv /\ LimitInv
<1>1. PumpScreenInit => I
  BY LampStarts
<1>2. I /\ [PumpScreenNext]_pumpScreenVars => I'
  BY LampStep
<1>3. I => SliderIsSpeed
  BY LampShows
<1> QED
  BY <1>1, <1>2, <1>3, PTL DEF PumpScreenSpec

\* The button writes the limit ahead of the speed, and nothing that the client's
\* queue or the connection does comes between them: right behind a limit on its
\* way to the garden there is a speed, whatever becomes of either.
THEOREM LimitNeverAlone ==
  PumpScreenSpec => []SpeedFollowsLimit
<1> DEFINE I == DatabaseInv /\ Heard /\ LampInv /\ LimitInv
<1>1. PumpScreenInit => I
  BY LampStarts
<1>2. I /\ [PumpScreenNext]_pumpScreenVars => I'
  BY LampStep
<1>3. I => SpeedFollowsLimit
  BY LampShows
<1> QED
  BY <1>1, <1>2, <1>3, PTL DEF PumpScreenSpec

-----------------------------------------------------------------------------
(* The overlay: what each screen raises it is bound to lower.              *)

LEMMA HomeOverlay ==
  ASSUME DatabaseInv, HomeNames, Tasks = {"show", "hide"}, NEW Hs \in SUBSET Handlers, NEW Ts,
         {"sensors", "rain"} \subseteq Hs, Overlay(Hs, Ts), LoadHome \/ HomeCallback
  PROVE  Overlay(Hs, Ts)'
<1>1. HomeCalls \in Seq(Calls) /\ AskedFor(HomeCalls, "sensors") /\ <<>> \in Seq(Calls)
  BY HomeCallsAre, FewCalls
<1>2. CASE LoadHome
  BY <1>1, <1>2, HomeDoes, StepOverlay
<1>3. CASE HomeCallback
  <2>1. \E h \in Handlers : Called(h, <<>>, HideBlock)
    BY <1>3, HomeDoes DEF HomeNames
  <2> QED
    BY <1>1, <2>1, StepOverlay
<1> QED
  BY <1>2, <1>3

LEMMA ControlOverlay ==
  ASSUME DatabaseInv, ControlInv, NEW Hs \in SUBSET Handlers, NEW Ts,
         "mode" \in Hs, "engine" \notin Hs, "TINHIEUDONGCO" \in Ts, "pumpSpeed" \notin Ts,
         Overlay(Hs, Ts), LoadControl \/ ControlCallback \/ \E r \in Rows : Tap(r)
  PROVE  Overlay(Hs, Ts)'
<1> DEFINE T == "TINHIEUDONGCO"
<1>1. {"mode", "engine"} \subseteq Handlers /\ Tasks = {"show", "hide"}
  BY ConfigScreenAssumption
<1>2. /\ <<ObserveCall("mode")>> \in Seq(Calls) /\ AskedFor(<<ObserveCall("mode")>>, "mode")
      /\ <<ObserveCall("engine")>> \in Seq(Calls) /\ <<>> \in Seq(Calls)
  BY <1>1, FewCalls
<1>3. CASE LoadControl
  BY <1>1, <1>2, <1>3, ControlDoes, StepOverlay
<1>4. CASE ModeEvent
  <2>1. \E cs \in {<<>>, <<ObserveCall("engine")>>} : Called("mode", cs, HideBlock)
    BY <1>1, <1>4, ControlDoes
  <2>2. ASSUME NEW cs \in Seq(Calls), Called("mode", cs, HideBlock) PROVE Overlay(Hs, Ts)'
    BY <1>1, <2>2, StepOverlay
  <2> QED
    BY <1>2, <2>1, <2>2
<1>5. CASE EngineEvent
  <2>1. Called("engine", <<>>, <<>>)
    BY <1>1, <1>5, ControlDoes
  <2> QED
    BY <1>1, <1>2, <2>1, StepOverlay
<1>6. CASE EngineWritten
  <2>1. Completed(T, <<>>, HideBlock)
    BY <1>1, <1>6, ControlDoes
  <2> QED
    BY <1>1, <1>2, <2>1, StepOverlay
<1>7. CASE SpeedWritten
  <2>1. Completed("pumpSpeed", <<>>, <<>>)
    BY <1>1, <1>7, ControlDoes
  <2> QED
    BY <1>1, <1>2, <2>1, StepOverlay
<1>8. ASSUME NEW r \in Rows, Tap(r)
      PROVE  Overlay(Hs, Ts)'
  <2> DEFINE cs == SwitchCalls(engineStates, engineStates')
  <2>1. Asks(cs) /\ engineStates' \in {engineStates \cup {r}, engineStates \ {r}}
    BY <1>1, <1>8, ControlDoes
  <2>2. engineStates' \in SUBSET Rows
    BY <2>1 DEF ControlInv, ControlTypeOK
  <2>3. cs \in Seq(Calls) /\ \E i \in 1..Len(cs) : IsSet(cs[i], T)
    BY <2>2, SwitchCallsAre
  <2> HIDE DEF cs
  <2>4. \E k \in 1..Len(cs) : \E p \in Ts : IsSet(cs[k], p)
    BY <2>3
  <2> QED
    BY <1>1, <2>1, <2>3, <2>4, StepOverlay
<1> QED
  BY <1>3, <1>4, <1>5, <1>6, <1>7, <1>8 DEF ControlCallback

LEMMA SettingOverlay ==
  ASSUME DatabaseInv, SettingInv, NEW Hs \in SUBSET Handlers, NEW Ts,
         "setting" \in Hs, "CHEDO" \notin Ts, ThresholdPaths \cap Ts = {},
         Overlay(Hs, Ts), LoadSetting \/ SettingCallback \/ SettingUser
  PROVE  Overlay(Hs, Ts)'
<1>1. /\ "setting" \in Handlers /\ Tasks = {"show", "hide"}
      /\ "CHEDO" \in Paths /\ Modes \subseteq Values
  BY SettingScreenAssumption
<1>2. /\ <<ObserveCall("setting")>> \in Seq(Calls) /\ AskedFor(<<ObserveCall("setting")>>, "setting")
      /\ <<>> \in Seq(Calls) /\ \A m \in Modes : <<SetCall("CHEDO", m)>> \in Seq(Calls)
  BY <1>1, FewCalls
<1>3. CASE LoadSetting
  BY <1>1, <1>2, <1>3, SettingDoes, StepOverlay
<1>4. CASE SettingEvent
  <2>1. Called("setting", <<>>, HideBlock)
    BY <1>4, SettingDoes
  <2> QED
    BY <1>1, <1>2, <2>1, StepOverlay
<1>5. CASE ModeWritten
  <2> DEFINE ds == ThresholdCalls(Head(mainQueue).write.val)
  <2>1. \E cs \in {<<>>, ds} : Completed("CHEDO", cs, <<>>)
    BY <1>5, SettingDoes
  <2>2. ds \in Seq(Calls)
    BY ThresholdCallsAre DEF SettingInv
  <2> HIDE DEF ds
  <2>3. ASSUME NEW cs \in Seq(Calls), Completed("CHEDO", cs, <<>>) PROVE Overlay(Hs, Ts)'
    BY <1>1, <2>3, StepOverlay
  <2> QED
    BY <1>2, <2>1, <2>2, <2>3
<1>6. CASE ThresholdWritten
  <2>1. PICK p \in ThresholdPaths : Completed(p, <<>>, <<>>)
    BY <1>6, SettingDoes
  <2>2. p \notin Ts
    OBVIOUS
  <2> QED
    BY <1>1, <1>2, <2>1, <2>2, StepOverlay
<1>7. ASSUME NEW m \in Modes, Turn(m)
      PROVE  Overlay(Hs, Ts)'
  <2>1. Only(<<SetCall("CHEDO", m)>>) \/ Asks(<<ObserveCall("setting")>>)
    BY <1>7, SettingDoes
  <2>2. CASE Only(<<SetCall("CHEDO", m)>>)
    <3>1. <<SetCall("CHEDO", m)>> \in Seq(Calls)
      BY <1>2
    <3> QED
      BY <1>1, <2>2, <3>1, StepOverlay
  <2>3. CASE Asks(<<ObserveCall("setting")>>)
    BY <1>1, <1>2, <2>3, StepOverlay
  <2> QED
    BY <2>1, <2>2, <2>3
<1>8. ASSUME NEW p \in ThresholdPaths, NEW text \in Texts \cup {Empty}, Edit(p, text)
      PROVE  Overlay(Hs, Ts)'
  <2>1. Only(<<>>)
    BY <1>8, SettingDoes
  <2> QED
    BY <1>1, <1>2, <2>1, StepOverlay
<1> QED
  BY <1>3, <1>4, <1>5, <1>6, <1>7, <1>8 DEF SettingCallback, SettingUser

LEMMA BelowBeside ==
  ASSUME DatabaseInv, NEW Hs \in SUBSET Handlers, NEW Ps,
         ServiceNext \/ HudBlock \/ UNCHANGED serviceVars
  PROVE  Beside(Hs, Ps)
<1>1. CASE HudBlock
  <2>1. <<>> \in Seq(Calls) /\ (\A p : NoSets(<<>>, p)) /\ <<>> \in Client!TaskLists
    BY FewCalls DEF Client!TaskLists
  <2>2. AppCalls(<<>>, Handlers)
    BY <1>1, <2>1, StepCalls
  <2>3. AppCalls(<<>>, Hs)
    BY <2>1, <2>2, FewerLeftAlone
  <2> QED
    BY <2>1, <2>3 DEF Beside
<1> QED
  BY <1>1, IdleBeside DEF Beside

\* What is left of a step once the screens' own steps are set apart.
Shared ==
  \/ ServiceNext /\ UNCHANGED hudVars
  \/ HudBlock
  \/ UNCHANGED serviceVars /\ (HudHidden \/ UNCHANGED hudVars)

LEMMA SharedDoes ==
  ASSUME DatabaseInv, Heard, Shared, NEW Hs \in SUBSET Handlers, NEW Ps, Tasks = {"show", "hide"}
  PROVE  /\ Beside(Hs, Ps)
         /\ \A Ts : Overlay(Hs, Ts) => Overlay(Hs, Ts)'
<1>1. Beside(Hs, Ps)
  BY BelowBeside DEF Shared
<1>2. ASSUME NEW Ts, Overlay(Hs, Ts)
      PROVE  Overlay(Hs, Ts)'
  <2>1. CASE ServiceNext /\ UNCHANGED hudVars
    BY <1>2, <2>1, OverlayBelow
  <2>2. CASE HudBlock
    BY <1>2, <2>2, OverlayBlock
  <2>3. CASE UNCHANGED serviceVars /\ HudHidden
    BY <1>2, <2>3, OverlayFaded
  <2>4. CASE UNCHANGED serviceVars /\ UNCHANGED hudVars
    BY <1>2, <2>4, OverlayUntouched
  <2> QED
    BY <2>1, <2>2, <2>3, <2>4 DEF Shared
<1> QED
  BY <1>1, <1>2

-----------------------------------------------------------------------------
(* The control screen alone.                                               *)

ControlHolds ==
  DatabaseInv /\ Heard /\ ControlInv /\ Overlay({"mode"}, {"TINHIEUDONGCO"})

LEMMA ControlBegins ==
  ASSUME ControlInit, ServiceInit(InitialDb)
  PROVE  ControlInv
<1>1. /\ {"mode", "engine"} \subseteq Handlers /\ "TINHIEUDONGCO" \in Paths
      /\ InitialDb \in [Paths -> Values] /\ Button \in Values \ {Null}
      /\ InitialDb["TINHIEUDONGCO"] \in EngineStates \cup {Null} /\ MaxTaps \in Nat
  BY ConfigScreenAssumption, ScreenAssumption
<1>2. ControlTypeOK /\ ~opened
  <2>1. opened = FALSE /\ workMode = Button /\ engineStates = {} /\ taps = 0
    BY DEF ControlInit
  <2>2. taps \in 0..MaxTaps
    BY <1>1, <2>1
  <2>3. workMode \in Values \ {Null} /\ engineStates \subseteq Rows
    BY <1>1, <2>1
  <2>4. opened \in BOOLEAN /\ ~opened
    BY <2>1
  <2> QED
    BY <2>2, <2>3, <2>4 DEF ControlTypeOK
<1>3. HeldIn("TINHIEUDONGCO", EngineStates \cup {Null})
  BY <1>1, HeldInitially
<1>4. /\ Follows(shown, mainQueue, sharedQueue, "mode", {workMode}, {})
      /\ Follows(shown, mainQueue, sharedQueue, "engine", {engineStates}, {engineStates})
  BY <1>1, FollowsInitially
<1> QED
  BY <1>2, <1>3, <1>4 DEF ControlInv

LEMMA ControlStarts ==
  ASSUME ControlScreenInit
  PROVE  ControlHolds
<1>1. ServiceInit(InitialDb) /\ HudInit /\ InitialDb \in [Paths -> Values]
  BY ScreenAssumption DEF ControlScreenInit
<1>2. ControlInv
  BY <1>1, ControlBegins DEF ControlScreenInit
<1> QED
  BY <1>1, <1>2, DatabaseInitially, HeardInitially, OverlayInitially DEF ControlHolds

LEMMA ControlStep ==
  ASSUME ControlHolds, [ControlScreenNext]_controlScreenVars
  PROVE  ControlHolds'
<1> DEFINE Own == LoadControl \/ ControlCallback \/ \E r \in Rows : Tap(r)
<1>1. /\ {"mode", "engine"} \subseteq Handlers /\ Tasks = {"show", "hide"}
      /\ "mode" # "engine" /\ "TINHIEUDONGCO" # "pumpSpeed"
  BY ConfigScreenAssumption
<1>2. CASE Own
  <2>1. ControlInv' /\ \E cs \in Seq(Calls) : AppCalls(cs, Handlers \ {"mode", "engine"})
    BY <1>2, ControlOwn DEF ControlHolds
  <2>2. Moves
    BY <2>1, CallsMove
  <2>3. Overlay({"mode"}, {"TINHIEUDONGCO"})'
    BY <1>1, <1>2, ControlOverlay DEF ControlHolds
  <2> QED
    BY <2>1, <2>2, <2>3, DatabaseStep, HeardStep DEF ControlHolds
<1>3. CASE Shared /\ UNCHANGED controlVars
  <2>1. Beside({"mode", "engine"}, {"TINHIEUDONGCO"})
    BY <1>1, <1>3, SharedDoes DEF ControlHolds
  <2>2. ControlInv'
    BY <1>3, <2>1, ControlBeside DEF ControlHolds
  <2>3. Overlay({"mode"}, {"TINHIEUDONGCO"})'
    BY <1>1, <1>3, SharedDoes DEF ControlHolds
  <2> QED
    BY <2>1, <2>2, <2>3, BesideMoves, DatabaseStep, HeardStep DEF ControlHolds
<1>4. Own \/ (Shared /\ UNCHANGED controlVars)
  BY SharedParts DEF ControlScreenNext, controlScreenVars, ControlViewDidLoad,
    ControlMainThread, Shared
<1> QED
  BY <1>2, <1>3, <1>4

\* Whoever watches the leaf of the engines is the callback of the engines.
LEMMA EngineWatched ==
  ASSUME DatabaseInv, Client!Observed(view["TINHIEUDONGCO"])
  PROVE  Watches(view, "engine")
<1> DEFINE v == view["TINHIEUDONGCO"]
<1>1. /\ "TINHIEUDONGCO" \in Paths /\ PathOf["engine"] = "TINHIEUDONGCO" /\ "engine" \in Handlers
      /\ \A h \in Handlers : PathOf[h] = "TINHIEUDONGCO" => h = "engine"
  BY ConfigScreenAssumption
<1>2. v \in Client!View
  BY <1>1, DatabaseTypes
<1>3. v.regs \in Seq(Handlers) /\ v.regs # <<>>
  BY <1>2 DEF Client!View, Client!Observed
<1>4. 1 \in 1..Len(v.regs) /\ v.regs[1] \in Handlers
  BY <1>3
<1>5. PathOf[v.regs[1]] = "TINHIEUDONGCO"
  BY <1>1, <1>4 DEF DatabaseInv, ClientP!CInv, ClientP!OwnRegistrations
<1> QED
  BY <1>1, <1>4, <1>5 DEF Watches, ClientP!Registered

LEMMA ControlShows ==
  ASSUME DatabaseInv, ControlInv
  PROVE  ScreenCurrent
<1>1. /\ {"mode", "engine"} \subseteq Handlers
      /\ PathOf["mode"] = "CHEDO" /\ PathOf["engine"] = "TINHIEUDONGCO"
  BY ConfigScreenAssumption
<1>2. SUFFICES ASSUME opened, Quiet
               PROVE  /\ db["CHEDO"] # Null => workMode = db["CHEDO"]
                      /\ Client!Observed(view["TINHIEUDONGCO"]) /\ db["TINHIEUDONGCO"] # Null
                           => engineStates = db["TINHIEUDONGCO"]
  BY DEF ScreenCurrent
<1>3. ASSUME db["CHEDO"] # Null PROVE workMode = db["CHEDO"]
  BY <1>1, <1>2, <1>3, FollowsWhenQuiet DEF ControlInv
<1>4. ASSUME Client!Observed(view["TINHIEUDONGCO"]), db["TINHIEUDONGCO"] # Null
      PROVE  engineStates = db["TINHIEUDONGCO"]
  <2>1. Watches(view, "engine")
    BY <1>4, EngineWatched
  <2>2. Wanted(sharedQueue, view, "engine")
    BY <2>1 DEF Wanted
  <2> QED
    BY <1>1, <1>2, <1>4, <2>2, FollowsWhenQuiet DEF ControlInv
<1> QED
  BY <1>3, <1>4

\* Once nothing is on its way, the control screen shows what the database
\* holds, whatever taps, refusals, writes of others and late events there
\* were (ConfigViewController): for any number of rows, taps and writers.
THEOREM ControlIsCurrent ==
  ControlScreenSpec => []ScreenCurrent
<1>1. ControlScreenInit => ControlHolds
  BY ControlStarts
<1>2. ControlHolds /\ [ControlScreenNext]_controlScreenVars => ControlHolds'
  BY ControlStep
<1>3. ControlHolds => ScreenCurrent
  BY ControlShows DEF ControlHolds
<1> QED
  BY <1>1, <1>2, <1>3, PTL DEF ControlScreenSpec

\* The overlay that the control screen raises does not stay up: once nothing
\* is on its way and nothing fades, it is down.
THEOREM ControlOverlayDown ==
  ControlScreenSpec => []OverlayDown
<1>1. ControlScreenInit => ControlHolds
  BY ControlStarts
<1>2. ControlHolds /\ [ControlScreenNext]_controlScreenVars => ControlHolds'
  BY ControlStep
<1>3. ControlHolds => OverlayDown
  <2>1. {"mode"} \in SUBSET Handlers
    BY ConfigScreenAssumption
  <2> QED
    BY <2>1, OverlayWhenQuiet DEF ControlHolds
<1> QED
  BY <1>1, <1>2, <1>3, PTL DEF ControlScreenSpec

-----------------------------------------------------------------------------
(* The settings screen alone.                                              *)

SettingHolds ==
  DatabaseInv /\ Heard /\ SettingInv /\ Overlay({"setting"}, {})

LEMMA SettingBegins ==
  ASSUME SettingInit
  PROVE  SettingInv
<1>1. /\ loaded = FALSE /\ switches = {} /\ fields = [p \in ThresholdPaths |-> Empty]
      /\ turned = 0 /\ edits = 0 /\ bypassed = FALSE
  BY DEF SettingInit
<1>2. turned \in 0..MaxTurns /\ edits \in 0..MaxEdits
  BY <1>1, SettingScreenAssumption
<1>3. fields \in [ThresholdPaths -> Texts \cup {Empty}]
  BY <1>1
<1>4. loaded \in BOOLEAN /\ ~loaded /\ bypassed \in BOOLEAN
  BY <1>1
<1> QED
  BY <1>1, <1>2, <1>3, <1>4 DEF SettingInv, SettingTypeOK

LEMMA SettingStarts ==
  ASSUME SettingScreenInit
  PROVE  SettingHolds
<1>1. ServiceInit(InitialDb) /\ HudInit /\ InitialDb \in [Paths -> Values]
  BY ScreenAssumption DEF SettingScreenInit
<1>2. SettingInv
  BY SettingBegins DEF SettingScreenInit
<1> QED
  BY <1>1, <1>2, DatabaseInitially, HeardInitially, OverlayInitially DEF SettingHolds

LEMMA SettingStep ==
  ASSUME SettingHolds, [SettingScreenNext]_settingScreenVars
  PROVE  SettingHolds'
<1> DEFINE Own == LoadSetting \/ SettingCallback \/ SettingUser
<1>1. "setting" \in Handlers /\ Tasks = {"show", "hide"}
  BY SettingScreenAssumption
<1>2. CASE Own
  <2>1. SettingInv' /\ \E cs \in Seq(Calls) : AppCalls(cs, Handlers \ {"setting"})
    BY <1>2, SettingOwn DEF SettingHolds
  <2>2. Moves
    BY <2>1, CallsMove
  <2>3. Overlay({"setting"}, {})'
    BY <1>1, <1>2, SettingOverlay DEF SettingHolds
  <2> QED
    BY <2>1, <2>2, <2>3, DatabaseStep, HeardStep DEF SettingHolds
<1>3. CASE Shared /\ UNCHANGED settingVars
  <2>1. Beside({"setting"}, {"CHEDO"})
    BY <1>1, <1>3, SharedDoes DEF SettingHolds
  <2>2. SettingInv'
    BY <1>3, <2>1, SettingBeside DEF SettingHolds
  <2>3. Overlay({"setting"}, {})'
    BY <1>1, <1>3, SharedDoes DEF SettingHolds
  <2> QED
    BY <2>1, <2>2, <2>3, BesideMoves, DatabaseStep, HeardStep DEF SettingHolds
<1>4. Own \/ (Shared /\ UNCHANGED settingVars)
  BY SharedParts DEF SettingScreenNext, settingScreenVars, SettingViewDidLoad,
    SettingMainThread, Shared
<1> QED
  BY <1>2, <1>3, <1>4

LEMMA SettingShows ==
  ASSUME DatabaseInv, SettingInv
  PROVE  SwitchIsMode
<1>1. "setting" \in Handlers /\ PathOf["setting"] = "CHEDO"
  BY SettingScreenAssumption
<1>2. SUFFICES ASSUME loaded, Quiet, switches # {}, db["CHEDO"] # Null
               PROVE  switches = SwitchesOf(db["CHEDO"])
  BY DEF SwitchIsMode
<1>3. db["CHEDO"] \in Meant(switches)
  BY <1>1, <1>2, FollowsWhenQuiet DEF SettingInv
<1> QED
  BY <1>3 DEF Meant

\* Once nothing is on its way, a switch of the settings screen that is on is
\* the garden's mode, whatever was refused, overtaken or turned meanwhile
\* (SettingViewController).
THEOREM SwitchFollowsMode ==
  SettingScreenSpec => []SwitchIsMode
<1>1. SettingScreenInit => SettingHolds
  BY SettingStarts
<1>2. SettingHolds /\ [SettingScreenNext]_settingScreenVars => SettingHolds'
  BY SettingStep
<1>3. SettingHolds => SwitchIsMode
  BY SettingShows DEF SettingHolds
<1> QED
  BY <1>1, <1>2, <1>3, PTL DEF SettingScreenSpec

\* The overlay that the settings screen raises, also the one for a mode that
\* it read again instead of writing, does not stay up.
THEOREM SettingOverlayDown ==
  SettingScreenSpec => []OverlayDown
<1>1. SettingScreenInit => SettingHolds
  BY SettingStarts
<1>2. SettingHolds /\ [SettingScreenNext]_settingScreenVars => SettingHolds'
  BY SettingStep
<1>3. SettingHolds => OverlayDown
  <2>1. {"setting"} \in SUBSET Handlers
    BY SettingScreenAssumption
  <2> QED
    BY <2>1, OverlayWhenQuiet DEF SettingHolds
<1> QED
  BY <1>1, <1>2, <1>3, PTL DEF SettingScreenSpec

-----------------------------------------------------------------------------
(* The three tabs of the app together.                                     *)

HidingHandlers == {"sensors", "rain", "mode", "setting"}

TabsTypes ==
  /\ HudTypeOK /\ alert \in BOOLEAN
  /\ tab \in {"home", "setting", "control"} /\ selections \in 0..MaxSelections

TabsHolds ==
  /\ DatabaseInv /\ Heard
  /\ HomeInv /\ ControlInv /\ SettingInv
  /\ Overlay(HidingHandlers, {"TINHIEUDONGCO"})

HomeSteps == (LoadHome \/ HomeCallback) /\ UNCHANGED <<controlVars, settingVars>>
ControlSteps ==
  /\ LoadControl \/ ControlCallback \/ \E r \in Rows : Tap(r)
  /\ UNCHANGED <<homeVars, settingVars>>
SettingSteps ==
  (LoadSetting \/ SettingCallback \/ SettingUser) /\ UNCHANGED <<homeVars, controlVars>>
OtherSteps == Shared /\ UNCHANGED <<homeVars, controlVars, settingVars>>

LEMMA TabsNames ==
  /\ HomeNames /\ Tasks = {"show", "hide"} /\ HidingHandlers \in SUBSET Handlers
  /\ {"mode", "engine", "setting"} \subseteq Handlers
  /\ "TINHIEUDONGCO" \notin ThresholdPaths \cup {"CHEDO"}
  /\ MaxSelections \in Nat
<1>1. HomeNames /\ MaxSelections \in Nat
  BY GardenAssumption DEF HomeNames
<1>2. Tasks = {"show", "hide"} /\ {"mode", "engine", "setting"} \subseteq Handlers
  BY ConfigScreenAssumption, SettingScreenAssumption
<1>3. HidingHandlers \in SUBSET Handlers
  BY <1>1, <1>2 DEF HidingHandlers, HomeNames
<1>4. "TINHIEUDONGCO" \notin ThresholdPaths \cup {"CHEDO"}
  BY GardenAssumption
<1> QED
  BY <1>1, <1>2, <1>3, <1>4

LEMMA TabsSteps ==
  ASSUME [Next]_vars
  PROVE  HomeSteps \/ ControlSteps \/ SettingSteps \/ OtherSteps
<1>1. CASE UNCHANGED vars
  BY <1>1, SharedParts DEF vars, OtherSteps, Shared
<1>2. CASE Start
  BY <1>2 DEF Start, HomeSteps
<1>3. ASSUME NEW t, SelectTab(t)
      PROVE  ControlSteps \/ SettingSteps \/ OtherSteps
  BY <1>3 DEF SelectTab, LoadTab, ControlSteps, SettingSteps,
    OtherSteps, Shared
<1>4. CASE MainThread
  BY <1>4, SharedParts DEF MainThread, HomeSteps,
    ControlSteps, SettingSteps, OtherSteps, Shared
<1>5. CASE User
  BY <1>5 DEF User, ControlSteps, SettingSteps
<1>6. CASE /\ HideAnimationDone \/ DismissAlert \/ Background
           /\ UNCHANGED <<homeVars, controlVars, settingVars, selections>>
  BY <1>6, SharedParts DEF OtherSteps, Shared
<1> QED
  BY <1>1, <1>2, <1>3, <1>4, <1>5, <1>6 DEF Next

LEMMA TabsStarts ==
  ASSUME Init
  PROVE  TabsHolds /\ TabsTypes
<1>1. /\ ServiceInit(InitialDb) /\ HudInit /\ HomeInit /\ ControlInit
      /\ SettingInit /\ InitialDb \in [Paths -> Values]
  BY ScreenAssumption DEF Init
<1>2. DatabaseInv /\ Heard /\ ControlInv /\ SettingInv
  BY <1>1, TabsNames, DatabaseInitially, HeardInitially, ControlBegins, SettingBegins
<1>3. HomeInv
  <2>1. {"sensors", "rain"} \subseteq Handlers
    BY TabsNames DEF HomeNames
  <2>2. /\ Follows(shown, mainQueue, sharedQueue, "sensors", {parameterValues}, {})
        /\ Follows(shown, mainQueue, sharedQueue, "rain", {rainState}, {})
    BY <1>1, <2>1, FollowsInitially
  <2> QED
    BY <1>1, <2>2 DEF HomeInv, HomeInit, HomeTypeOK
<1>4. Overlay(HidingHandlers, {"TINHIEUDONGCO"})
  BY <1>1, OverlayInitially
<1>5. TabsTypes
  <2>1. tab = "home" /\ alert = FALSE /\ selections = 0 /\ MaxSelections \in Nat
    BY TabsNames DEF Init
  <2>2. HudTypeOK
    BY <1>1 DEF HudInit, HudTypeOK
  <2>3. alert \in BOOLEAN
    BY <2>1
  <2>4. tab \in {"home", "setting", "control"}
    BY <2>1
  <2>5. selections \in 0..MaxSelections
    BY <2>1
  <2> QED
    BY <2>2, <2>3, <2>4, <2>5 DEF TabsTypes
<1> QED
  BY <1>2, <1>3, <1>4, <1>5 DEF TabsHolds

LEMMA TabsStep ==
  ASSUME TabsHolds, [Next]_vars
  PROVE  TabsHolds'
<1> DEFINE T == "TINHIEUDONGCO"
<1>1. /\ HomeNames /\ Tasks = {"show", "hide"} /\ HidingHandlers \in SUBSET Handlers
      /\ {"sensors", "rain", "mode", "engine", "setting"} \subseteq Handlers
      /\ T \notin ThresholdPaths \cup {"CHEDO"}
  BY TabsNames DEF HomeNames
<1>2. DatabaseInv /\ Heard /\ HomeInv /\ ControlInv /\ SettingInv /\ Overlay(HidingHandlers, {T})
  BY DEF TabsHolds
<1>3. /\ {"sensors", "rain"} \subseteq HidingHandlers /\ "mode" \in HidingHandlers
      /\ "setting" \in HidingHandlers /\ "engine" \notin HidingHandlers
  BY DEF HidingHandlers
<1>4. CASE HomeSteps
  <2> DEFINE Hs == Handlers \ {"sensors", "rain"}
             Ps == {T, "CHEDO"}
  <2>1. HomeInv' /\ \E cs \in Seq(Calls) : AppCalls(cs, Hs) /\ \A p : NoSets(cs, p)
    BY <1>1, <1>2, <1>4, HomeOwn DEF HomeSteps
  <2>2. Beside(Hs, Ps)
    BY <2>1 DEF Beside
  <2>3. {"mode", "engine"} \subseteq Hs /\ "setting" \in Hs /\ T \in Ps /\ "CHEDO" \in Ps
    BY <1>1
  <2> HIDE DEF Hs, Ps
  <2>4. ControlInv' /\ SettingInv'
    BY <1>1, <1>2, <1>4, <2>2, <2>3, ControlBeside, SettingBeside DEF HomeSteps
  <2>5. Overlay(HidingHandlers, {T})'
    BY <1>1, <1>2, <1>3, <1>4, HomeOverlay DEF HomeSteps
  <2> QED
    BY <1>2, <2>1, <2>2, <2>4, <2>5, BesideMoves, DatabaseStep, HeardStep DEF TabsHolds
<1>5. CASE ControlSteps
  <2> DEFINE Hs == Handlers \ {"mode", "engine"}
             Ps == {"CHEDO"}
  <2>1. /\ ControlInv'
        /\ \E cs \in Seq(Calls) : /\ AppCalls(cs, Hs)
                                  /\ \A p : p \notin {T, "pumpSpeed"} => NoSets(cs, p)
    BY <1>1, <1>2, <1>5, ControlOwn DEF ControlSteps
  <2>2. Beside(Hs, Ps)
    BY <2>1 DEF Beside
  <2>3. {"sensors", "rain"} \subseteq Hs /\ "setting" \in Hs /\ "CHEDO" \in Ps
    BY <1>1
  <2> HIDE DEF Hs, Ps
  <2>4. HomeInv' /\ SettingInv'
    BY <1>1, <1>2, <1>5, <2>2, <2>3, HomeBeside, SettingBeside DEF ControlSteps
  <2>5. "pumpSpeed" \notin {T}
    OBVIOUS
  <2>6. Overlay(HidingHandlers, {T})'
    BY <1>1, <1>2, <1>3, <1>5, <2>5, ControlOverlay DEF ControlSteps
  <2> QED
    BY <1>2, <2>1, <2>2, <2>4, <2>6, BesideMoves, DatabaseStep, HeardStep DEF TabsHolds
<1>6. CASE SettingSteps
  <2> DEFINE Hs == Handlers \ {"setting"}
             Ps == {T}
  <2>1. /\ SettingInv'
        /\ \E cs \in Seq(Calls) :
             /\ AppCalls(cs, Hs)
             /\ \A p : p \notin ThresholdPaths \cup {"CHEDO"} => NoSets(cs, p)
    BY <1>1, <1>2, <1>6, SettingOwn DEF SettingSteps
  <2>2. Beside(Hs, Ps)
    BY <1>1, <2>1 DEF Beside
  <2>3. {"sensors", "rain"} \subseteq Hs /\ {"mode", "engine"} \subseteq Hs /\ T \in Ps
    BY <1>1
  <2> HIDE DEF Hs, Ps
  <2>4. HomeInv' /\ ControlInv'
    BY <1>1, <1>2, <1>6, <2>2, <2>3, HomeBeside, ControlBeside DEF SettingSteps
  <2>5. "CHEDO" \notin {T} /\ ThresholdPaths \cap {T} = {}
    BY <1>1
  <2>6. Overlay(HidingHandlers, {T})'
    BY <1>1, <1>2, <1>3, <1>6, <2>5, SettingOverlay DEF SettingSteps
  <2> QED
    BY <1>2, <2>1, <2>2, <2>4, <2>6, BesideMoves, DatabaseStep, HeardStep DEF TabsHolds
<1>7. CASE OtherSteps
  <2> DEFINE Ps == {T, "CHEDO"}
  <2>1. Beside(Handlers, Ps)
    BY <1>1, <1>2, <1>7, SharedDoes DEF OtherSteps
  <2>2. T \in Ps /\ "CHEDO" \in Ps
    OBVIOUS
  <2> HIDE DEF Ps
  <2>3. HomeInv' /\ ControlInv' /\ SettingInv'
    BY <1>1, <1>2, <1>7, <2>1, <2>2, HomeBeside, ControlBeside, SettingBeside DEF OtherSteps
  <2>4. Overlay(HidingHandlers, {T})'
    BY <1>1, <1>2, <1>7, SharedDoes DEF OtherSteps
  <2> QED
    BY <1>2, <2>1, <2>3, <2>4, BesideMoves, DatabaseStep, HeardStep DEF TabsHolds
<1> QED
  BY <1>4, <1>5, <1>6, <1>7, TabsSteps

\* What the steps do to the alert and the overlay's own state.
LEMMA AlertStays ==
  ASSUME TabsHolds, alert \in BOOLEAN,
         HomeSteps \/ ControlSteps \/ SettingSteps
  PROVE  alert' \in BOOLEAN /\ UNCHANGED hudVars
<1>1. /\ DatabaseInv /\ {"mode", "engine"} \subseteq Handlers
  BY TabsNames DEF TabsHolds
<1>2. /\ alert' \in {alert, alert \/ tab = "home"} => alert' \in BOOLEAN
      /\ alert' \in {alert, alert \/ tab = "control"} => alert' \in BOOLEAN
      /\ alert' \in {alert, alert \/ tab = "setting"} => alert' \in BOOLEAN
      /\ alert' = alert => alert' \in BOOLEAN
  OBVIOUS
<1>3. CASE HomeSteps
  <2>1. alert' = alert \/ alert' \in {alert, alert \/ tab = "home"}
    BY <1>1, <1>3, HomeDoes DEF HomeSteps
  <2>2. \/ Asks(HomeCalls) \/ Called("sensors", <<>>, HideBlock) \/ Called("rain", <<>>, HideBlock)
    BY <1>1, <1>3, HomeDoes DEF HomeSteps
  <2>3. alert' \in BOOLEAN
    BY <1>2, <2>1
  <2>4. UNCHANGED hudVars
    BY <2>2 DEF Called, Completed, Asks, Only
  <2> QED
    BY <2>3, <2>4
<1>4. CASE ControlSteps
  <2>1. alert' = alert \/ alert' \in {alert, alert \/ tab = "control"}
    BY <1>1, <1>4, ControlDoes DEF ControlSteps, ControlCallback
  <2>2. \E cs : \/ Asks(cs) \/ \E h, ts : Called(h, cs, ts) \/ Completed(h, cs, ts)
    BY <1>1, <1>4, ControlDoes DEF ControlSteps, ControlCallback
  <2>3. alert' \in BOOLEAN
    BY <1>2, <2>1
  <2>4. UNCHANGED hudVars
    BY <2>2 DEF Called, Completed, Asks, Only
  <2> QED
    BY <2>3, <2>4
<1>5. CASE SettingSteps
  <2>1. alert' = alert \/ alert' \in {alert, alert \/ tab = "setting"}
    BY <1>1, <1>5, SettingDoes DEF SettingSteps, SettingCallback, SettingUser
  <2>2. \E cs : \/ Asks(cs) \/ Only(cs) \/ \E h, ts : Called(h, cs, ts) \/ Completed(h, cs, ts)
    BY <1>1, <1>5, SettingDoes DEF SettingSteps, SettingCallback, SettingUser
  <2>3. alert' \in BOOLEAN
    BY <1>2, <2>1
  <2>4. UNCHANGED hudVars
    BY <2>2 DEF Called, Completed, Asks, Only
  <2> QED
    BY <2>3, <2>4
<1> QED
  BY <1>3, <1>4, <1>5

LEMMA TabStays ==
  ASSUME TabsHolds
  PROVE  /\ HomeCallback => UNCHANGED tab
         /\ ControlCallback => UNCHANGED tab
         /\ SettingCallback => UNCHANGED tab
         /\ \A r : Tap(r) => UNCHANGED tab
         /\ SettingUser => UNCHANGED tab
<1>1. /\ DatabaseInv /\ {"mode", "engine"} \subseteq Handlers
  BY TabsNames DEF TabsHolds
<1>2. HomeCallback => UNCHANGED tab
  BY <1>1, HomeDoes
<1>3. ControlCallback => UNCHANGED tab
  BY <1>1, ControlDoes DEF ControlCallback
<1>4. \A r : Tap(r) => UNCHANGED tab
  BY <1>1, ControlDoes
<1>5. SettingCallback \/ SettingUser => UNCHANGED tab
  BY <1>1, SettingDoes DEF SettingCallback, SettingUser
<1> QED
  BY <1>2, <1>3, <1>4, <1>5

LEMMA HudTypesStay ==
  ASSUME HudTypeOK, UNCHANGED hudVars \/ HudHidden \/ HudBlock
  PROVE  HudTypeOK'
<1>1. alpha \in {0, 1} /\ viewBackground \in BOOLEAN /\ hideAnimations \in Nat
  BY DEF HudTypeOK
<1>2. CASE UNCHANGED hudVars
  BY <1>1, <1>2 DEF hudVars, HudTypeOK
<1>3. CASE HudHidden
  <2>1. alpha' = 0 /\ viewBackground' = FALSE /\ hideAnimations' = hideAnimations - 1
        /\ hideAnimations > 0
    BY <1>3 DEF HudHidden
  <2>2. alpha' \in {0, 1} /\ hideAnimations' \in Nat
    BY <1>1, <2>1
  <2>3. viewBackground' \in BOOLEAN
    BY <2>1
  <2> QED
    BY <2>2, <2>3 DEF HudTypeOK
<1>4. CASE HudBlock
  <2>1. \/ alpha' = 1 /\ viewBackground' = TRUE /\ hideAnimations' = hideAnimations
        \/ /\ alpha' = alpha /\ viewBackground' = viewBackground
           /\ hideAnimations' = hideAnimations + 1 \/ hideAnimations' = hideAnimations
    BY <1>4 DEF HudBlock, HudSetup, HudHide
  <2>2. alpha' \in {0, 1} /\ hideAnimations' \in Nat
    BY <1>1, <2>1
  <2>3. viewBackground' \in BOOLEAN
    BY <1>1, <2>1
  <2> QED
    BY <2>2, <2>3 DEF HudTypeOK
<1> QED
  BY <1>2, <1>3, <1>4

LEMMA TabsTypesStep ==
  ASSUME TabsHolds, TabsTypes, [Next]_vars
  PROVE  TabsTypes'
<1>1. /\ HudTypeOK /\ alert \in BOOLEAN /\ tab \in {"home", "setting", "control"}
      /\ selections \in 0..MaxSelections /\ MaxSelections \in Nat
  BY TabsNames DEF TabsTypes
<1>2. HomeSteps \/ ControlSteps \/ SettingSteps => alert' \in BOOLEAN /\ HudTypeOK'
  BY <1>1, AlertStays, HudTypesStay
<1>3. alert' = alert \/ alert' = FALSE => alert' \in BOOLEAN
  BY <1>1
<1>4. UNCHANGED <<tab, selections>> =>
        tab' \in {"home", "setting", "control"} /\ selections' \in 0..MaxSelections
  BY <1>1
<1>5. CASE UNCHANGED vars
  <2>1. UNCHANGED <<tab, selections, alert>> /\ UNCHANGED hudVars
    BY <1>5 DEF vars, sharedVars
  <2>2. HudTypeOK' /\ alert' \in BOOLEAN
    BY <1>1, <1>3, <2>1, HudTypesStay
  <2> QED
    BY <1>4, <2>1, <2>2 DEF TabsTypes
<1>6. CASE Start
  <2>1. HomeSteps
    BY <1>6 DEF Start, HomeSteps
  <2>2. UNCHANGED <<tab, selections>>
    BY <1>6 DEF Start
  <2> QED
    BY <1>2, <1>4, <2>1, <2>2 DEF TabsTypes
<1>7. ASSUME NEW t \in {"home", "setting", "control"}, SelectTab(t)
      PROVE  TabsTypes'
  <2>1. tab' = t /\ selections < MaxSelections /\ selections' = selections + 1
    BY <1>7 DEF SelectTab
  <2>2. tab' \in {"home", "setting", "control"}
    BY <2>1
  <2>3. selections' \in 0..MaxSelections
    BY <1>1, <2>1
  <2>4. ControlSteps \/ SettingSteps \/ (UNCHANGED hudVars /\ alert' = alert)
    BY <1>7 DEF SelectTab, LoadTab, ControlSteps,
      SettingSteps
  <2>5. HudTypeOK' /\ alert' \in BOOLEAN
    BY <1>1, <1>2, <1>3, <2>4, HudTypesStay
  <2> QED
    BY <2>2, <2>3, <2>5 DEF TabsTypes
<1>8. CASE MainThread \/ User
  <2>1. \/ HomeSteps \/ ControlSteps \/ SettingSteps
        \/ HudBlock /\ alert' = alert
    BY <1>8, SharedParts DEF MainThread, User,
      HomeSteps, ControlSteps, SettingSteps, HudBlock
  <2>2. UNCHANGED tab
    BY <1>8, TabStays DEF MainThread, User, HudBlock
  <2>3. UNCHANGED selections
    BY <1>8 DEF MainThread, User
  <2>4. HudTypeOK' /\ alert' \in BOOLEAN
    BY <1>1, <1>2, <1>3, <2>1, HudTypesStay
  <2> QED
    BY <1>4, <2>2, <2>3, <2>4 DEF TabsTypes
<1>9. CASE /\ HideAnimationDone \/ DismissAlert \/ Background
           /\ UNCHANGED <<homeVars, controlVars, settingVars, selections>>
  <2>1. UNCHANGED <<tab, selections>> /\ (alert' = alert \/ alert' = FALSE)
    BY <1>9 DEF HideAnimationDone, DismissAlert, Background
  <2>2. UNCHANGED hudVars \/ HudHidden
    BY <1>9, SharedParts
  <2>3. HudTypeOK' /\ alert' \in BOOLEAN
    BY <1>1, <1>3, <2>1, <2>2, HudTypesStay
  <2> QED
    BY <1>4, <2>1, <2>3 DEF TabsTypes
<1> QED
  BY <1>5, <1>6, <1>7, <1>8, <1>9 DEF Next

LEMMA TabsTyped ==
  ASSUME TabsHolds, TabsTypes
  PROVE  TypeOK
<1>1. ServiceTypeOK
  <2>1. Client!TypeOK
    BY DatabaseTypes DEF TabsHolds
  <2>2. Typed
    BY DEF TabsHolds, DatabaseInv, ServiceInv
  <2> QED
    BY <2>1, <2>2 DEF Typed, ServiceTypeOK, Answers
<1>2. SharedTypeOK
  BY <1>1 DEF SharedTypeOK, HudTypeOK, TabsTypes
<1>3. HomeTypeOK /\ ControlTypeOK /\ SettingTypeOK
  BY DEF TabsHolds, HomeInv, ControlInv, SettingInv
<1> QED
  BY <1>2, <1>3 DEF TabsTypes, TypeOK

LEMMA HomeShows ==
  ASSUME DatabaseInv, HomeInv, HomeNames
  PROVE  SensorsCurrent
<1>1. SUFFICES ASSUME homeLoaded, Quiet, db["DULIEUCAMBIEN"] # Null
               PROVE  parameterValues = db["DULIEUCAMBIEN"] /\ rainState = db["DULIEUCAMBIEN"]
  BY DEF SensorsCurrent
<1>2. Wanted(sharedQueue, view, "sensors") /\ Wanted(sharedQueue, view, "rain")
  BY <1>1 DEF HomeInv
<1>3. /\ Follows(shown, mainQueue, sharedQueue, "sensors", {parameterValues}, {})
      /\ Follows(shown, mainQueue, sharedQueue, "rain", {rainState}, {})
  BY DEF HomeInv
<1>4. db[PathOf["sensors"]] \in {parameterValues} /\ db[PathOf["rain"]] \in {rainState}
  BY <1>1, <1>2, <1>3, FollowsWhenQuiet DEF HomeNames
<1> QED
  BY <1>4 DEF HomeNames

LEMMA TabsShow ==
  ASSUME TabsHolds
  PROVE  AllCurrent /\ OverlayDown
<1>1. SensorsCurrent
  BY TabsNames, HomeShows DEF TabsHolds
<1>2. ScreenCurrent
  BY ControlShows DEF TabsHolds
<1>3. SwitchIsMode
  BY SettingShows DEF TabsHolds
<1>4. OverlayDown
  BY TabsNames, OverlayWhenQuiet DEF TabsHolds
<1> QED
  BY <1>1, <1>2, <1>3, <1>4 DEF AllCurrent

\* In the app with its three tabs no variable of the client, the connection,
\* the server, the overlay or a screen ever leaves its type (TabbarController
\* and the screens it keeps loaded).
THEOREM GardenTyped ==
  Spec => []TypeOK
<1> DEFINE I == TabsHolds /\ TabsTypes
<1>1. Init => I
  BY TabsStarts
<1>2. I /\ [Next]_vars => I'
  BY TabsStep, TabsTypesStep
<1>3. I => TypeOK
  BY TabsTyped
<1> QED
  BY <1>1, <1>2, <1>3, PTL DEF Spec

\* Three screens and their seven kinds of callbacks on one main queue: once
\* nothing is on its way, each screen that was loaded shows what the database
\* holds, also the two that the tab bar does not show.
THEOREM GardenIsCurrent ==
  Spec => []AllCurrent
<1>1. Init => TabsHolds
  BY TabsStarts
<1>2. TabsHolds /\ [Next]_vars => TabsHolds'
  BY TabsStep
<1>3. TabsHolds => AllCurrent
  BY TabsShow
<1> QED
  BY <1>1, <1>2, <1>3, PTL DEF Spec

\* The three screens share one overlay that counts nobody (ProgressHUB.swift):
\* once nothing is on its way and nothing fades, it is down.
THEOREM GardenOverlayDown ==
  Spec => []OverlayDown
<1>1. Init => TabsHolds
  BY TabsStarts
<1>2. TabsHolds /\ [Next]_vars => TabsHolds'
  BY TabsStep
<1>3. TabsHolds => OverlayDown
  BY TabsShow
<1> QED
  BY <1>1, <1>2, <1>3, PTL DEF Spec

-----------------------------------------------------------------------------
(* Sequences in which nothing of A comes before something of B.            *)

Has(q, S) == \E i \in 1..Len(q) : q[i] \in S
Led(q, A, B) == \A i \in 1..Len(q) : q[i] \in A => \E j \in 1..Len(q) : j < i /\ q[j] \in B

LEMMA HasJoined ==
  ASSUME NEW D, NEW q \in Seq(D), NEW t \in Seq(D), NEW S
  PROVE  Has(q \o t, S) <=> Has(q, S) \/ Has(t, S)
<1> DEFINE u == q \o t
<1>1. Together(q, t, u)
  BY Joined
<1> HIDE DEF u
<1>2. Has(u, S) <=> Has(q, S) \/ Has(t, S)
  BY <1>1 DEF Has, Together
<1> QED
  BY <1>2 DEF u

LEMMA HasShortened ==
  ASSUME NEW D, NEW q \in Seq(D), q # <<>>, NEW S
  PROVE  Has(q, S) <=> Has(Tail(q), S) \/ Head(q) \in S
<1> DEFINE x == Head(q)
           t == Tail(q)
<1>1. Without(q, x, t)
  BY Shortened
<1> HIDE DEF x, t
<1>2. Has(q, S) => Has(t, S) \/ x \in S
  BY <1>1 DEF Has, Without
<1>3. Has(t, S) => Has(q, S)
  BY <1>1 DEF Has, Without
<1>4. x \in S => Has(q, S)
  BY <1>1 DEF Has, Without
<1> QED
  BY <1>2, <1>3, <1>4 DEF x, t

LEMMA HasOne ==
  ASSUME NEW x, NEW S
  PROVE  Has(<<x>>, S) <=> x \in S
<1>1. Len(<<x>>) = 1 /\ <<x>>[1] = x
  OBVIOUS
<1> QED
  BY <1>1 DEF Has

LEMMA LedJoined ==
  ASSUME NEW D, NEW q \in Seq(D), NEW t \in Seq(D), NEW A, NEW B,
         Led(q, A, B), Has(q, B) \/ Led(t, A, B)
  PROVE  Led(q \o t, A, B)
<1> DEFINE u == q \o t
<1>1. Together(q, t, u)
  BY Joined
<1> HIDE DEF u
<1> SUFFICES ASSUME NEW i \in 1..Len(u), u[i] \in A
             PROVE  \E j \in 1..Len(u) : j < i /\ u[j] \in B
  BY DEF Led, u
<1>2. CASE i \in 1..Len(q)
  <2>1. PICK j \in 1..Len(q) : j < i /\ q[j] \in B
    BY <1>1, <1>2 DEF Led, Together
  <2> QED
    BY <1>1, <2>1 DEF Together
<1>3. CASE i \notin 1..Len(q)
  <2>1. PICK k \in 1..Len(t) : i = Len(q) + k /\ u[i] = t[k]
    BY <1>1, <1>3 DEF Together
  <2>2. CASE Has(q, B)
    <3>1. PICK j \in 1..Len(q) : q[j] \in B
      BY <2>2 DEF Has
    <3>2. j < i /\ j \in 1..Len(u) /\ u[j] = q[j]
      BY <1>1, <2>1 DEF Together
    <3> QED
      BY <3>1, <3>2
  <2>3. CASE Led(t, A, B)
    <3>1. PICK j \in 1..Len(t) : j < k /\ t[j] \in B
      BY <2>1, <2>3 DEF Led
    <3>2. Len(q) + j \in 1..Len(u) /\ u[Len(q) + j] = t[j] /\ Len(q) + j < i
      BY <1>1, <2>1, <3>1 DEF Together
    <3> QED
      BY <3>1, <3>2
  <2> QED
    BY <2>2, <2>3
<1> QED
  BY <1>2, <1>3

LEMMA LedShortened ==
  ASSUME NEW D, NEW q \in Seq(D), q # <<>>, NEW A, NEW B, Led(q, A, B)
  PROVE  Head(q) \notin A /\ (Head(q) \in B \/ Led(Tail(q), A, B))
<1> DEFINE x == Head(q)
           t == Tail(q)
<1>1. Without(q, x, t)
  BY Shortened
<1> HIDE DEF x, t
<1>2. x \notin A
  BY <1>1 DEF Led, Without
<1>3. ASSUME x \notin B, NEW i \in 1..Len(t), t[i] \in A
      PROVE  \E j \in 1..Len(t) : j < i /\ t[j] \in B
  <2>1. i + 1 \in 1..Len(q) /\ q[i + 1] = t[i]
    BY <1>1 DEF Without
  <2>2. PICK k \in 1..Len(q) : k < i + 1 /\ q[k] \in B
    BY <1>3, <2>1 DEF Led
  <2>3. PICK j \in 1..Len(t) : k = j + 1 /\ t[j] = q[k]
    BY <1>1, <1>3, <2>2 DEF Without
  <2> QED
    BY <2>2, <2>3
<1> QED
  BY <1>2, <1>3 DEF Led, x, t

-----------------------------------------------------------------------------
(* The speed is reset before the pump is turned on.                        *)

\* The engines' strings with the pump off.
Off == {on \in EngineStates : Pump \notin on}

\* The calls and requests of the control screen, those that turn the pump on
\* and those that reset its speed.
OwnCalls == {c \in Calls : /\ IsSet(c, "TINHIEUDONGCO") => c.val \in EngineStates
                           /\ IsSet(c, "pumpSpeed") => c.val = One}
OwnRequests == {r \in Requests : /\ IsPut(r, "TINHIEUDONGCO") => r.val \in EngineStates
                                 /\ IsPut(r, "pumpSpeed") => r.val = One}
OnCalls == {c \in Calls : IsSet(c, "TINHIEUDONGCO") /\ Pump \in c.val}
OnPuts == {r \in Requests : IsPut(r, "TINHIEUDONGCO") /\ Pump \in r.val}
SpeedCalls == {c \in Calls : IsSet(c, "pumpSpeed")}
SpeedPuts == {r \in Requests : IsPut(r, "pumpSpeed")}

SpeedServed == db["pumpSpeed"] = One
SpeedComing == SpeedServed \/ Has(toServer, SpeedPuts)
SpeedTold == SpeedComing \/ Has(sharedQueue, SpeedCalls)

\* Whatever turns the pump on has the speed ahead of it; before the first
\* speed nobody has heard of the pump being on.
SpeedInv ==
  /\ sharedQueue \in Seq(OwnCalls) /\ toServer \in Seq(OwnRequests)
  /\ SpeedServed \/ Led(toServer, OnPuts, SpeedPuts)
  /\ SpeedComing \/ Led(sharedQueue, OnCalls, SpeedCalls)
  /\ SpeedTold \/ (HeldIn("TINHIEUDONGCO", Off \cup {Null}) /\ engineStates \in Off)

\* One user whose writes are accepted, and whose garden starts with the pump
\* off; others neither turn it on nor write its speed.
OneUser ==
  /\ Verdicts = {TRUE} /\ "pumpSpeed" \notin RemotePaths
  /\ "TINHIEUDONGCO" \in RemotePaths => RemoteValues["TINHIEUDONGCO"] \subseteq Off \cup {Null}
  /\ InitialDb["TINHIEUDONGCO"] \in Off \cup {Null}

LEMMA SpeedRunSet ==
  ASSUME DatabaseInv, RunSet, SpeedInv
  PROVE  /\ sharedQueue' \in Seq(OwnCalls) /\ toServer' \in Seq(OwnRequests)
         /\ SpeedServed' \/ Led(toServer', OnPuts, SpeedPuts)
         /\ SpeedComing' \/ Led(sharedQueue', OnCalls, SpeedCalls)
         /\ SpeedTold => SpeedTold'
<1> DEFINE c == Head(sharedQueue)
           r == Put(writeIdCounter, c.path, c.val)
<1>1. /\ sharedQueue # <<>> /\ sharedQueue' = Tail(sharedQueue) /\ SpeedServed' = SpeedServed
      /\ c.path \in Paths /\ c.val \in Values /\ c.call = "set"
  BY RunSetTakes DEF IsSet, SpeedServed, RunSet
<1>2. sharedQueue \in Seq(OwnCalls) /\ toServer \in Seq(OwnRequests) /\ c \in OwnCalls /\ c \in Calls
  BY <1>1 DEF SpeedInv, OwnCalls
<1>3. writeIdCounter \in Nat /\ toServer' = Append(toServer, r)
  BY DatabaseTypes DEF RunSet, Send, Client!TypeOK
<1>4. r \in Requests /\ r.msg = "put" /\ r.path = c.path /\ r.val = c.val
  BY <1>1, <1>3 DEF Put, Requests
<1> HIDE DEF r
<1>5. r \in OwnRequests
  BY <1>1, <1>2, <1>4 DEF OwnRequests, OwnCalls, IsPut, IsSet
<1>6. /\ c \in OnCalls <=> r \in OnPuts
      /\ c \in SpeedCalls <=> r \in SpeedPuts
  BY <1>1, <1>2, <1>4 DEF OnCalls, OnPuts, SpeedCalls, SpeedPuts, IsPut, IsSet
<1> HIDE DEF c
<1>7. toServer' = toServer \o <<r>> /\ <<r>> \in Seq(OwnRequests)
  BY <1>2, <1>3, <1>5, AppendIsConcat
<1>8. Has(toServer', SpeedPuts) <=> Has(toServer, SpeedPuts) \/ c \in SpeedCalls
  BY <1>2, <1>6, <1>7, HasJoined, HasOne
<1>9. Has(sharedQueue, SpeedCalls) <=> Has(sharedQueue', SpeedCalls) \/ c \in SpeedCalls
  BY <1>1, <1>2, HasShortened DEF c
<1>10. SpeedServed' \/ Led(toServer', OnPuts, SpeedPuts)
  <2>1. SUFFICES ASSUME ~SpeedServed, ~Has(toServer, SpeedPuts)
                 PROVE  Led(toServer', OnPuts, SpeedPuts)
    <3>1. Has(toServer, SpeedPuts) /\ ~SpeedServed => Led(toServer', OnPuts, SpeedPuts)
      BY <1>2, <1>7, LedJoined DEF SpeedInv
    <3> QED
      BY <1>1, <3>1
  <2>2. Led(sharedQueue, OnCalls, SpeedCalls)
    BY <2>1 DEF SpeedInv, SpeedComing
  <2>3. r \notin OnPuts
    BY <1>1, <1>2, <1>6, <2>2, LedShortened DEF c
  <2>4. Len(<<r>>) = 1 /\ <<r>>[1] = r
    OBVIOUS
  <2>5. Led(<<r>>, OnPuts, SpeedPuts)
    BY <2>3, <2>4 DEF Led
  <2> QED
    BY <1>2, <1>7, <2>1, <2>5, LedJoined DEF SpeedInv
<1>11. SpeedComing' \/ Led(sharedQueue', OnCalls, SpeedCalls)
  <2>1. SpeedComing => SpeedComing'
    BY <1>1, <1>8 DEF SpeedComing
  <2>2. c \in SpeedCalls => SpeedComing'
    BY <1>8 DEF SpeedComing
  <2>3. Led(sharedQueue, OnCalls, SpeedCalls) => c \in SpeedCalls \/ Led(sharedQueue', OnCalls, SpeedCalls)
    BY <1>1, <1>2, LedShortened DEF c
  <2> QED
    BY <2>1, <2>2, <2>3 DEF SpeedInv
<1>12. SpeedTold => SpeedTold'
  BY <1>1, <1>8, <1>9 DEF SpeedTold, SpeedComing
<1>13. sharedQueue' \in Seq(OwnCalls) /\ toServer' \in Seq(OwnRequests)
  BY <1>1, <1>2, <1>3, <1>5
<1> QED
  BY <1>10, <1>11, <1>12, <1>13

LEMMA SpeedRunObserve ==
  ASSUME DatabaseInv, RunObserve, SpeedInv
  PROVE  /\ sharedQueue' \in Seq(OwnCalls) /\ toServer' \in Seq(OwnRequests)
         /\ SpeedServed' \/ Led(toServer', OnPuts, SpeedPuts)
         /\ SpeedComing' \/ Led(sharedQueue', OnCalls, SpeedCalls)
         /\ SpeedTold => SpeedTold'
<1> DEFINE c == Head(sharedQueue)
           r == Listen(PathOf[c.handler])
<1>1. /\ sharedQueue # <<>> /\ sharedQueue' = Tail(sharedQueue) /\ SpeedServed' = SpeedServed
      /\ c.handler \in Handlers /\ c.call = "observe"
  BY RunObserveTakes DEF IsObserve, SpeedServed, RunObserve
<1>2. sharedQueue \in Seq(OwnCalls) /\ toServer \in Seq(OwnRequests) /\ c \notin SpeedCalls
  BY <1>1 DEF SpeedInv, SpeedCalls, IsSet
<1>3. toServer' \in {toServer, Append(toServer, r)}
  BY DEF RunObserve, Send
<1>4. r \in Requests /\ r.msg = "listen"
  BY <1>1, RealtimeDatabaseAssumption DEF Listen, Requests
<1> HIDE DEF r
<1>5. r \in OwnRequests /\ r \notin OnPuts /\ r \notin SpeedPuts
  BY <1>4 DEF OwnRequests, OnPuts, SpeedPuts, IsPut
<1> HIDE DEF c
<1>6. Append(toServer, r) = toServer \o <<r>> /\ <<r>> \in Seq(OwnRequests)
  BY <1>2, <1>5, AppendIsConcat
<1>7. Has(toServer', SpeedPuts) <=> Has(toServer, SpeedPuts)
  <2>1. ~Has(<<r>>, SpeedPuts)
    BY <1>5, HasOne
  <2>2. Has(toServer \o <<r>>, SpeedPuts) <=> Has(toServer, SpeedPuts)
    BY <1>2, <1>6, <2>1, HasJoined
  <2> QED
    BY <1>3, <1>6, <2>2
<1>8. Has(sharedQueue, SpeedCalls) <=> Has(sharedQueue', SpeedCalls)
  BY <1>1, <1>2, HasShortened DEF c
<1>9. Led(toServer, OnPuts, SpeedPuts) => Led(toServer', OnPuts, SpeedPuts)
  <2>1. Len(<<r>>) = 1 /\ <<r>>[1] = r
    OBVIOUS
  <2>2. Led(<<r>>, OnPuts, SpeedPuts)
    BY <1>5, <2>1 DEF Led
  <2> QED
    BY <1>2, <1>3, <1>6, <2>2, LedJoined
<1>10. Led(sharedQueue, OnCalls, SpeedCalls) => Led(sharedQueue', OnCalls, SpeedCalls)
  BY <1>1, <1>2, LedShortened DEF c
<1>11. (SpeedComing' <=> SpeedComing) /\ (SpeedTold' <=> SpeedTold)
  BY <1>1, <1>7, <1>8 DEF SpeedTold, SpeedComing
<1>12. sharedQueue' \in Seq(OwnCalls) /\ toServer' \in Seq(OwnRequests)
  BY <1>1, <1>2, <1>3, <1>5
<1> QED
  BY <1>1, <1>9, <1>10, <1>11, <1>12 DEF SpeedInv

LEMMA SpeedServe ==
  ASSUME OneUser, DatabaseInv, ServePut \/ ServeListen, SpeedInv
  PROVE  /\ sharedQueue' \in Seq(OwnCalls) /\ toServer' \in Seq(OwnRequests)
         /\ SpeedServed' \/ Led(toServer', OnPuts, SpeedPuts)
         /\ SpeedComing' \/ Led(sharedQueue', OnCalls, SpeedCalls)
         /\ SpeedTold => SpeedTold'
<1> DEFINE r == Head(toServer)
<1>1. /\ toServer # <<>> /\ toServer' = Tail(toServer) /\ sharedQueue' = sharedQueue
      /\ sharedQueue \in Seq(OwnCalls) /\ toServer \in Seq(OwnRequests)
  BY DEF ServePut, ServeListen, SpeedInv
<1>2. r \in OwnRequests /\ r \in Requests
  BY <1>1 DEF OwnRequests
<1>3. db \in [Paths -> Values] /\ "pumpSpeed" \in Paths
  BY DatabaseTypes, ConfigScreenAssumption
<1>4. CASE SpeedServed
  <2>1. SpeedServed'
    <3>1. CASE ServeListen
      BY <1>4, <3>1 DEF ServeListen, SpeedServed
    <3>2. CASE ServePut
      <4>1. db' = [db EXCEPT ![r.path] = r.val] /\ r.msg = "put"
        BY <3>2 DEF ServePut, OneUser
      <4>2. r.path = "pumpSpeed" => r.val = One
        BY <1>2, <4>1 DEF OwnRequests, IsPut
      <4> QED
        BY <1>3, <1>4, <4>1, <4>2 DEF SpeedServed
    <3> QED
      BY <3>1, <3>2
  <2>2. sharedQueue' \in Seq(OwnCalls) /\ toServer' \in Seq(OwnRequests)
    BY <1>1
  <2> QED
    BY <2>1, <2>2 DEF SpeedComing, SpeedTold
<1>5. CASE ~SpeedServed
  <2>1. r \in SpeedPuts \/ Led(toServer', OnPuts, SpeedPuts)
    BY <1>1, <1>5, LedShortened DEF SpeedInv
  <2>2. Has(toServer, SpeedPuts) <=> Has(toServer', SpeedPuts) \/ r \in SpeedPuts
    BY <1>1, HasShortened
  <2>3. ASSUME r \in SpeedPuts
        PROVE  SpeedServed'
    <3>1. r.msg = "put" /\ r.path = "pumpSpeed" /\ r.val = One
      BY <1>2, <2>3 DEF SpeedPuts, OwnRequests, IsPut
    <3>2. db' = [db EXCEPT !["pumpSpeed"] = One]
      BY <3>1 DEF ServePut, ServeListen, OneUser
    <3> QED
      BY <1>3, <3>2 DEF SpeedServed
  <2>4. sharedQueue' \in Seq(OwnCalls) /\ toServer' \in Seq(OwnRequests)
    BY <1>1
  <2> QED
    BY <1>1, <1>5, <2>1, <2>2, <2>3, <2>4 DEF SpeedInv, SpeedComing, SpeedTold
<1> QED
  BY <1>4, <1>5

LEMMA SpeedBelow ==
  ASSUME OneUser, DatabaseInv, ServiceNext, SpeedInv,
         UNCHANGED engineStates
  PROVE  SpeedInv'
<1>1. /\ sharedQueue' \in Seq(OwnCalls) /\ toServer' \in Seq(OwnRequests)
      /\ SpeedServed' \/ Led(toServer', OnPuts, SpeedPuts)
      /\ SpeedComing' \/ Led(sharedQueue', OnCalls, SpeedCalls)
      /\ SpeedTold => SpeedTold'
  <2>1. CASE UNCHANGED <<sharedQueue, toServer>> /\ db'["pumpSpeed"] = db["pumpSpeed"]
    BY <2>1 DEF SpeedInv, SpeedServed, SpeedComing, SpeedTold
  <2>2. CASE Receive \/ AckPut
    <3>1. UNCHANGED <<sharedQueue, toServer, db>>
      BY <2>2 DEF Receive, AckPut, serverVars
    <3> QED
      BY <2>1, <3>1
  <2>3. ASSUME NEW p \in RemotePaths, NEW val \in RemoteValues[p], RemoteWrite(p, val)
        PROVE  UNCHANGED <<sharedQueue, toServer>> /\ db'["pumpSpeed"] = db["pumpSpeed"]
    <3>1. p # "pumpSpeed" /\ db \in [Paths -> Values] /\ "pumpSpeed" \in Paths
      BY DatabaseTypes, ConfigScreenAssumption DEF OneUser
    <3> QED
      BY <2>3, <3>1 DEF RemoteWrite
  <2> QED
    BY <2>1, <2>2, <2>3, SpeedRunSet, SpeedRunObserve, SpeedServe DEF ServiceNext
<1>2. HeldIn("TINHIEUDONGCO", Off \cup {Null}) => HeldIn("TINHIEUDONGCO", Off \cup {Null})'
  <2>1. "TINHIEUDONGCO" \in Paths /\ Off \cup {Null} \in SUBSET Values
    BY RealtimeDatabaseAssumption, ConfigScreenAssumption DEF Off
  <2> QED
    BY <2>1, HeldBelow DEF OneUser
<1> QED
  BY <1>1, <1>2 DEF SpeedInv

LEMMA SpeedApp ==
  ASSUME DatabaseInv, SpeedInv,
         NEW cs \in Seq(OwnCalls), NEW Hs, AppCalls(cs, Hs),
         SpeedTold \/ Led(cs, OnCalls, SpeedCalls),
         \/ SpeedTold \/ Has(cs, SpeedCalls)
         \/ /\ engineStates' \in Off
            /\ \A i \in 1..Len(cs) : IsSet(cs[i], "TINHIEUDONGCO") => cs[i].val \in Off
  PROVE  SpeedInv'
<1>1. /\ sharedQueue' = sharedQueue \o cs /\ sharedQueue \in Seq(OwnCalls)
      /\ UNCHANGED <<toServer, db>> /\ toServer \in Seq(OwnRequests)
  BY DEF AppCalls, farVars, serverVars, SpeedInv
<1>2. sharedQueue' \in Seq(OwnCalls)
  BY <1>1
<1>3. Has(sharedQueue', SpeedCalls) <=> Has(sharedQueue, SpeedCalls) \/ Has(cs, SpeedCalls)
  BY <1>1, HasJoined
<1>4. (SpeedServed' <=> SpeedServed) /\ (SpeedComing' <=> SpeedComing)
  BY <1>1 DEF SpeedServed, SpeedComing
<1>5. SpeedServed' \/ Led(toServer', OnPuts, SpeedPuts)
  BY <1>1, <1>4 DEF SpeedInv
<1>6. SpeedComing' \/ Led(sharedQueue', OnCalls, SpeedCalls)
  <2>1. CASE SpeedComing
    BY <1>4, <2>1
  <2>2. CASE ~SpeedComing
    <3>1. Has(sharedQueue, SpeedCalls) \/ Led(cs, OnCalls, SpeedCalls)
      BY <2>2 DEF SpeedTold
    <3>2. Led(sharedQueue, OnCalls, SpeedCalls)
      BY <2>2 DEF SpeedInv
    <3> QED
      BY <1>1, <3>1, <3>2, LedJoined
  <2> QED
    BY <2>1, <2>2
<1>7. SpeedTold' <=> SpeedTold \/ Has(cs, SpeedCalls)
  BY <1>3, <1>4 DEF SpeedTold
<1>8. ASSUME ~SpeedTold'
      PROVE  HeldIn("TINHIEUDONGCO", Off \cup {Null})' /\ engineStates' \in Off
  <2>1. /\ engineStates' \in Off /\ HeldIn("TINHIEUDONGCO", Off \cup {Null})
        /\ \A i \in 1..Len(cs) : IsSet(cs[i], "TINHIEUDONGCO") => cs[i].val \in Off \cup {Null}
    BY <1>7, <1>8 DEF SpeedInv
  <2>2. "TINHIEUDONGCO" \in Paths
    BY ConfigScreenAssumption
  <2> QED
    BY <2>1, <2>2, HeldApp
<1> QED
  BY <1>1, <1>2, <1>5, <1>6, <1>8 DEF SpeedInv

\* What a switch writes: the pump goes on behind a speed, unless it is on.
LEMMA SwitchLeads ==
  ASSUME NEW old \in SUBSET Rows, NEW new \in SUBSET Rows
  PROVE  LET cs == SwitchCalls(old, new)
         IN /\ cs \in Seq(OwnCalls)
            /\ \A i \in 1..Len(cs) : IsSet(cs[i], "TINHIEUDONGCO") => cs[i].val = new
            /\ Pump \in new \ old => Has(cs, SpeedCalls)
            /\ Pump \in old \/ Led(cs, OnCalls, SpeedCalls)
<1> DEFINE T == "TINHIEUDONGCO"
           a == SetCall("pumpSpeed", One)
           b == SetCall(T, new)
           s == IF Pump \in new \ old THEN <<a>> ELSE <<>>
           t == <<b>>
           u == SwitchCalls(old, new)
<1>1. {"pumpSpeed", T} \subseteq Paths /\ One \in Values /\ new \in Values /\ new \in EngineStates
  BY ConfigScreenAssumption DEF EngineStates
<1>2. a \in Calls /\ a.call = "set" /\ a.path = "pumpSpeed" /\ a.val = One
  BY <1>1 DEF SetCall, Calls
<1>3. b \in Calls /\ b.call = "set" /\ b.path = T /\ b.val = new
  BY <1>1 DEF SetCall, Calls
<1>4. Len(t) = 1 /\ t[1] = b
  OBVIOUS
<1>5. u = s \o t
  BY DEF SwitchCalls, SetCall
<1> HIDE DEF a, b, u
<1>6. a \in OwnCalls /\ a \in SpeedCalls /\ a \notin OnCalls
  BY <1>2 DEF OwnCalls, SpeedCalls, OnCalls, IsSet
<1>7. b \in OwnCalls /\ (b \in OnCalls => Pump \in new)
  BY <1>1, <1>3 DEF OwnCalls, OnCalls, IsSet
<1>8. s \in Seq(OwnCalls) /\ t \in Seq(OwnCalls)
  BY <1>6, <1>7
<1>9. Pump \in new \ old => Has(s, SpeedCalls)
  BY <1>6, HasOne
<1>10. Led(s, OnCalls, SpeedCalls)
  <2>1. \A i \in 1..Len(s) : s[i] = a
    OBVIOUS
  <2> QED
    BY <1>6, <2>1 DEF Led
<1>11. NoSets(s, T)
  <2>1. \A i \in 1..Len(s) : s[i] = a
    OBVIOUS
  <2> QED
    BY <1>2, <2>1 DEF NoSets, IsSet
<1> HIDE DEF s, t
<1>12. u \in Seq(OwnCalls)
  BY <1>5, <1>8
<1>13. Together(s, t, u)
  BY <1>5, <1>8, Joined
<1>14. \A i \in 1..Len(u) : IsSet(u[i], T) => u[i].val = new
  BY <1>3, <1>4, <1>11, <1>13 DEF Together, NoSets
<1>15. Pump \in new \ old => Has(u, SpeedCalls)
  BY <1>5, <1>8, <1>9, HasJoined
<1>16. Pump \notin new => Led(t, OnCalls, SpeedCalls)
  BY <1>4, <1>7 DEF Led
<1>17. Pump \in old \/ Led(u, OnCalls, SpeedCalls)
  <2>1. Has(s, SpeedCalls) \/ Led(t, OnCalls, SpeedCalls) => Led(u, OnCalls, SpeedCalls)
    BY <1>5, <1>8, <1>10, LedJoined
  <2> QED
    BY <1>9, <1>16, <2>1
<1> QED
  BY <1>12, <1>14, <1>15, <1>17 DEF u

LEMMA SpeedOwn ==
  ASSUME DatabaseInv, ControlInv, SpeedInv,
         LoadControl \/ ControlCallback \/ \E r \in Rows : Tap(r)
  PROVE  SpeedInv'
<1>1. /\ {"mode", "engine"} \subseteq Handlers /\ Tasks = {"show", "hide"} /\ "engine" \in Handlers
      /\ PathOf["engine"] = "TINHIEUDONGCO"
      /\ \A x : x \in EngineStates <=> x \subseteq Rows
  BY ConfigScreenAssumption DEF EngineStates
<1>2. HideBlock \in Client!TaskLists /\ <<>> \in Client!TaskLists
  BY <1>1 DEF HideBlock, Client!TaskLists
<1>3. engineStates \in SUBSET Rows /\ (~SpeedTold => engineStates \in Off)
  BY DEF ControlInv, ControlTypeOK, SpeedInv
<1>4. ASSUME NEW cs \in Seq(Calls), NEW Hs, AppCalls(cs, Hs), \A p : NoSets(cs, p),
             engineStates' \in Off \/ SpeedTold
      PROVE  SpeedInv'
  <2>1. \A i \in 1..Len(cs) : cs[i] \in Calls
    BY <1>4
  <2>2. \A i \in 1..Len(cs) : \A p : ~IsSet(cs[i], p)
    BY <1>4 DEF NoSets
  <2>3. \A i \in 1..Len(cs) : cs[i] \in Calls /\ \A p : ~IsSet(cs[i], p)
    BY <2>1, <2>2
  <2>4. \A i \in 1..Len(cs) : cs[i] \in OwnCalls /\ cs[i] \notin OnCalls
    BY <2>3 DEF OwnCalls, OnCalls
  <2>5. cs \in Seq(OwnCalls)
    BY <2>4
  <2>6. Led(cs, OnCalls, SpeedCalls)
    BY <2>4 DEF Led
  <2> QED
    BY <1>4, <2>3, <2>5, <2>6, SpeedApp
<1>5. CASE LoadControl \/ ModeEvent
  <2>1. PICK cs \in {<<ObserveCall("mode")>>, <<>>, <<ObserveCall("engine")>>} :
          /\ Asks(cs) \/ Called("mode", cs, HideBlock)
          /\ engineStates' = engineStates
    BY <1>1, <1>5, ControlDoes
  <2>2. cs \in Seq(Calls) /\ \A p : NoSets(cs, p)
    <3>1. /\ <<ObserveCall("engine")>> \in Seq(Calls) /\ \A p : NoSets(<<ObserveCall("engine")>>, p)
          /\ <<ObserveCall("mode")>> \in Seq(Calls) /\ \A p : NoSets(<<ObserveCall("mode")>>, p)
          /\ <<>> \in Seq(Calls) /\ \A p : NoSets(<<>>, p)
      BY <1>1, FewCalls
    <3> QED
      BY <2>1, <3>1
  <2>3. \E Hs : AppCalls(cs, Hs)
    BY <1>1, <1>2, <2>1, <2>2, StepCalls
  <2> QED
    BY <1>3, <1>4, <2>1, <2>2, <2>3
<1>6. CASE EngineEvent
  <2>1. /\ Called("engine", <<>>, <<>>)
        /\ engineStates' = IF Head(mainQueue).val # Null THEN Head(mainQueue).val ELSE engineStates
    BY <1>1, <1>6, ControlDoes
  <2>2. <<>> \in Seq(Calls) /\ \A p : NoSets(<<>>, p)
    BY FewCalls
  <2>3. /\ AppCalls(<<>>, Handlers \ {"engine"}) /\ ClientP!For(Head(mainQueue), "engine")
        /\ mainQueue # <<>>
    BY <1>1, <1>2, <2>1, <2>2, StepCalls
  <2>4. ~SpeedTold => Head(mainQueue).val \in Off \cup {Null}
    BY <1>1, <2>3, HeldFired DEF SpeedInv
  <2> QED
    BY <1>3, <1>4, <2>1, <2>2, <2>3, <2>4
<1>7. CASE EngineWritten \/ SpeedWritten
  <2>1. UNCHANGED engineStates
    BY <1>1, <1>7, ControlDoes DEF controlVars
  <2>2. <<>> \in Seq(Calls) /\ \A p : NoSets(<<>>, p)
    BY FewCalls
  <2>3. \E p : \E ts \in {<<>>, HideBlock} : Completed(p, <<>>, ts)
    BY <1>1, <1>7, ControlDoes
  <2>4. AppCalls(<<>>, Handlers)
    BY <1>2, <2>2, <2>3, StepCalls
  <2> QED
    BY <1>3, <1>4, <2>1, <2>2, <2>4
<1>8. ASSUME NEW r \in Rows, Tap(r)
      PROVE  SpeedInv'
  <2> DEFINE cs == SwitchCalls(engineStates, engineStates')
  <2>1. Asks(cs) /\ engineStates' \in {engineStates \cup {r}, engineStates \ {r}}
    BY <1>1, <1>8, ControlDoes
  <2>2. engineStates' \in SUBSET Rows /\ engineStates' \in EngineStates
    BY <1>1, <1>3, <2>1
  <2>3. /\ cs \in Seq(OwnCalls)
        /\ \A i \in 1..Len(cs) : IsSet(cs[i], "TINHIEUDONGCO") => cs[i].val = engineStates'
        /\ Pump \in engineStates' \ engineStates => Has(cs, SpeedCalls)
        /\ Pump \in engineStates \/ Led(cs, OnCalls, SpeedCalls)
    BY <1>3, <2>2, SwitchLeads
  <2>4. cs \in Seq(Calls)
    BY <1>3, <2>2, SwitchCallsAre
  <2> HIDE DEF cs
  <2>5. AppCalls(cs, Handlers)
    BY <1>1, <1>2, <2>1, <2>4, StepCalls
  <2>6. Pump \in engineStates => SpeedTold
    BY <1>3 DEF Off
  <2>7. CASE Pump \in engineStates'
    BY <2>3, <2>5, <2>6, <2>7, SpeedApp
  <2>8. CASE Pump \notin engineStates'
    <3>1. engineStates' \in Off
      BY <2>2, <2>8 DEF Off
    <3> QED
      BY <2>3, <2>5, <2>6, <3>1, SpeedApp
  <2> QED
    BY <2>7, <2>8
<1> QED
  BY <1>5, <1>6, <1>7, <1>8 DEF ControlCallback

LEMMA SpeedUntouched ==
  ASSUME SpeedInv, UNCHANGED serviceVars, UNCHANGED engineStates
  PROVE  SpeedInv'
BY DEF SpeedInv, SpeedTold, SpeedComing, SpeedServed, HeldIn, serviceVars, clientVars, serverVars

LEMMA SpeedStep ==
  ASSUME OneUser, ControlHolds, SpeedInv, [ControlScreenNext]_controlScreenVars
  PROVE  SpeedInv'
<1> DEFINE Own == LoadControl \/ ControlCallback \/ \E r \in Rows : Tap(r)
<1>1. CASE Own
  BY <1>1, SpeedOwn DEF ControlHolds
<1>2. CASE Shared /\ UNCHANGED controlVars
  <2>1. UNCHANGED engineStates
    BY <1>2 DEF controlVars
  <2>2. CASE ServiceNext
    BY <2>1, <2>2, SpeedBelow DEF ControlHolds
  <2>3. CASE UNCHANGED serviceVars
    BY <2>1, <2>3, SpeedUntouched
  <2>4. CASE HudBlock
    <3>1. <<>> \in Seq(Calls) /\ (\A p : NoSets(<<>>, p)) /\ <<>> \in Client!TaskLists
      BY FewCalls DEF Client!TaskLists
    <3>2. AppCalls(<<>>, Handlers) /\ DatabaseInv
      BY <2>4, <3>1, StepCalls DEF ControlHolds
    <3>3. <<>> \in Seq(OwnCalls) /\ Led(<<>>, OnCalls, SpeedCalls)
      BY DEF Led
    <3>4. \/ SpeedTold
          \/ /\ engineStates' \in Off
             /\ \A i \in 1..Len(<<>>) : IsSet(<<>>[i], "TINHIEUDONGCO") => <<>>[i].val \in Off
      BY <2>1 DEF SpeedInv
    <3> QED
      BY <3>2, <3>3, <3>4, SpeedApp
  <2> QED
    BY <1>2, <2>2, <2>3, <2>4 DEF Shared
<1>3. Own \/ (Shared /\ UNCHANGED controlVars)
  BY SharedParts DEF ControlScreenNext, controlScreenVars, ControlViewDidLoad,
    ControlMainThread, Shared
<1> QED
  BY <1>1, <1>2, <1>3

LEMMA SpeedStarts ==
  ASSUME OneUser, ControlScreenInit
  PROVE  SpeedInv
<1>1. /\ ServiceInit(InitialDb) /\ InitialDb \in [Paths -> Values] /\ "TINHIEUDONGCO" \in Paths
      /\ engineStates = {}
  BY ScreenAssumption, ConfigScreenAssumption DEF ControlScreenInit, ControlInit
<1>2. sharedQueue = <<>> /\ toServer = <<>>
  BY <1>1 DEF ServiceInit
<1>3. HeldIn("TINHIEUDONGCO", Off \cup {Null})
  BY <1>1, HeldInitially DEF OneUser
<1>4. {} \in Off
  BY DEF Off, EngineStates
<1> QED
  BY <1>1, <1>2, <1>3, <1>4 DEF SpeedInv, Led

LEMMA SpeedShows ==
  ASSUME OneUser, DatabaseInv, SpeedInv, ServePut,
         Pump \in db'["TINHIEUDONGCO"] \ db["TINHIEUDONGCO"]
  PROVE  SpeedServed
<1> DEFINE r == Head(toServer)
<1>1. /\ toServer # <<>> /\ r.msg = "put" /\ db' = [db EXCEPT ![r.path] = r.val]
  BY DEF ServePut, OneUser
<1>2. toServer \in Seq(OwnRequests)
  BY DEF SpeedInv
<1>3. r \in OwnRequests /\ r \in Requests
  BY <1>1, <1>2 DEF OwnRequests
<1>4. db \in [Paths -> Values] /\ "TINHIEUDONGCO" \in Paths
  BY DatabaseTypes, ConfigScreenAssumption
<1> HIDE DEF r
<1>5. r.path = "TINHIEUDONGCO" /\ Pump \in r.val
  BY <1>1, <1>4
<1>6. r \in OnPuts
  BY <1>1, <1>3, <1>5 DEF OnPuts, IsPut
<1> QED
  BY <1>1, <1>2, <1>6, LedShortened DEF SpeedInv, r

\* The garden never sees the pump turned on by the control screen before it
\* has seen the pump's speed set to 1 (handleSwitchChanged), however fast and
\* often its switches are turned, over a connection that keeps the order.
THEOREM SpeedComesFirst ==
  ASSUME OneUser
  PROVE  ControlScreenSpec => PumpSpeedFirst
<1> DEFINE I == ControlHolds /\ SpeedInv
           A == ServePut /\ Pump \in db'["TINHIEUDONGCO"] \ db["TINHIEUDONGCO"]
                  => db["pumpSpeed"] = One
<1>1. ControlScreenInit => I
  BY ControlStarts, SpeedStarts
<1>2. I /\ [ControlScreenNext]_controlScreenVars => I'
  BY ControlStep, SpeedStep
<1>3. I /\ [ControlScreenNext]_controlScreenVars => [A]_controlScreenVars
  BY SpeedShows DEF ControlHolds, SpeedServed
<1>4. [][A]_controlScreenVars <=> PumpSpeedFirst
  BY DEF PumpSpeedFirst
<1> QED
  BY <1>1, <1>2, <1>3, <1>4, PTL DEF ControlScreenSpec

-----------------------------------------------------------------------------
(* The overlay is the lock of the control screen.                          *)

\* Not two of the elements of q are in S.
Lone(q, S) == \A i, j \in 1..Len(q) : q[i] \in S /\ q[j] \in S => i = j

LEMMA LoneJoined ==
  ASSUME NEW D, NEW q \in Seq(D), NEW t \in Seq(D), NEW S, Lone(q, S), Lone(t, S),
         ~Has(q, S) \/ ~Has(t, S)
  PROVE  Lone(q \o t, S)
<1> DEFINE u == q \o t
<1>1. Together(q, t, u)
  BY Joined
<1> HIDE DEF u
<1> SUFFICES ASSUME NEW i \in 1..Len(u), NEW j \in 1..Len(u), u[i] \in S, u[j] \in S
             PROVE  i = j
  BY DEF Lone, u
<1>2. \A k \in 1..Len(u) : u[k] \in S =>
        \/ k \in 1..Len(q) /\ q[k] \in S
        \/ \E m \in 1..Len(t) : k = Len(q) + m /\ t[m] \in S
  BY <1>1 DEF Together
<1>3. CASE ~Has(q, S)
  <2>1. /\ \E m \in 1..Len(t) : i = Len(q) + m /\ t[m] \in S
        /\ \E m \in 1..Len(t) : j = Len(q) + m /\ t[m] \in S
    BY <1>2, <1>3 DEF Has
  <2> QED
    BY <2>1 DEF Lone
<1>4. CASE ~Has(t, S)
  <2>1. /\ i \in 1..Len(q) /\ q[i] \in S
        /\ j \in 1..Len(q) /\ q[j] \in S
    BY <1>2, <1>4 DEF Has
  <2> QED
    BY <2>1 DEF Lone
<1> QED
  BY <1>3, <1>4

LEMMA LoneShortened ==
  ASSUME NEW D, NEW q \in Seq(D), q # <<>>, NEW S, Lone(q, S)
  PROVE  Lone(Tail(q), S) /\ (Head(q) \in S => ~Has(Tail(q), S))
<1> DEFINE x == Head(q)
           t == Tail(q)
<1>1. Without(q, x, t)
  BY Shortened
<1> HIDE DEF x, t
<1>2. \A i \in 1..Len(t) : i + 1 \in 1..Len(q) /\ q[i + 1] = t[i]
  BY <1>1 DEF Without
<1>3. Lone(t, S)
  <2> SUFFICES ASSUME NEW i \in 1..Len(t), NEW j \in 1..Len(t), t[i] \in S, t[j] \in S
               PROVE  i = j
    BY DEF Lone
  <2>1. i + 1 = j + 1
    BY <1>2 DEF Lone
  <2> QED
    BY <2>1
<1>4. ASSUME x \in S, NEW i \in 1..Len(t), t[i] \in S
      PROVE  FALSE
  <2>1. 1 \in 1..Len(q) /\ q[1] \in S
    BY <1>1, <1>4 DEF Without
  <2>2. i + 1 = 1
    BY <1>2, <1>4, <2>1 DEF Lone
  <2> QED
    BY <2>2
<1> QED
  BY <1>3, <1>4 DEF Has, x, t

LEMMA LoneFew ==
  /\ \A S : Lone(<<>>, S) /\ ~Has(<<>>, S)
  /\ \A x, S : Lone(<<x>>, S)
<1>1. ASSUME NEW x, NEW S PROVE Lone(<<x>>, S)
  <2>1. Len(<<x>>) = 1
    OBVIOUS
  <2> QED
    BY <2>1 DEF Lone
<1>2. Len(<<>>) = 0
  OBVIOUS
<1> QED
  BY <1>1, <1>2 DEF Lone, Has

\* The calls, requests and messages there are while nobody changes the mode.
LockCalls == {c \in Calls : /\ c.call = "set" => c.path \in {"TINHIEUDONGCO", "pumpSpeed"}
                            /\ c.call = "observe" => c.handler \in {"mode", "engine"}}
LockRequests == {r \in Requests : ~IsPut(r, "CHEDO")}
LockMessages == {m \in Messages : m.msg = "data" /\ m.path = "CHEDO" => m.val = InitialDb["CHEDO"]}

ModeAsked == {c \in Calls : IsObserve(c, "mode")}
ModeData == {m \in Messages : m.msg = "data" /\ m.path = "CHEDO"}
ModeTold == {m \in Messages : m.msg = "listening" /\ m.path = "CHEDO"}

\* The view of the mode before it has come, and after.
Waiting == [Client!NoView EXCEPT !.regs = <<"mode">>]
Having == [regs |-> <<"mode">>, server |-> InitialDb["CHEDO"], serverFull |-> TRUE,
           event |-> InitialDb["CHEDO"], eventFull |-> TRUE]

\* The mode comes once.
ModeInv ==
  /\ sharedQueue \in Seq(LockCalls) /\ toServer \in Seq(LockRequests)
  /\ toClient \in Seq(LockMessages)
  /\ \A w \in allWrites : w.path \in {"TINHIEUDONGCO", "pumpSpeed"}
  /\ db["CHEDO"] = InitialDb["CHEDO"]
  /\ view["CHEDO"] \in {Client!NoView, Waiting, Having}
  /\ view["CHEDO"] = Having \/ Led(toClient, ModeTold, ModeData)
  /\ Has(sharedQueue, ModeAsked) \/ ~opened => view["CHEDO"] = Client!NoView

\* The calls that will have the overlay dismissed, and the blocks that will.
Claims == {c \in Calls : IsSet(c, "TINHIEUDONGCO") \/ IsObserve(c, "mode")}
Hiding == {b \in Client!Block : Hides(b, {"mode"}, {"TINHIEUDONGCO"})}

EngineWrites == {w \in allWrites : w.path = "TINHIEUDONGCO"}

\* Who has the lock: a call of the screen, its write, the answer to it, the
\* animation that ends it, or the mode that is waited for.
Owners == {"nobody", "call", "write", "block", "fading", "listen"}
HeldBy(o) ==
  /\ Has(sharedQueue, Claims) => o = "call"
  /\ EngineWrites # {} => o = "write"
  /\ Has(mainQueue, Hiding) => o = "block"
  /\ hideAnimations # 0 => o = "fading"
  /\ view["CHEDO"] = Waiting => o = "listen"

\* The overlay is up, or about to be.
Locked == viewBackground \/ ShowPending

LockInv ==
  /\ Lone(sharedQueue, Claims) /\ Lone(mainQueue, Hiding) /\ hideAnimations \in {0, 1}
  /\ \A w, x \in EngineWrites : w = x
  /\ \E o \in Owners : HeldBy(o) /\ (o # "nobody" => opened /\ Locked)

\* One user, who waits for the overlay to come up, and a mode that stays.
OneAtATime == ~QuickTaps /\ "CHEDO" \notin RemotePaths

LEMMA LockNames ==
  /\ {"CHEDO", "TINHIEUDONGCO", "pumpSpeed"} \subseteq Paths
  /\ {"mode", "engine"} \subseteq Handlers /\ Tasks = {"show", "hide"}
  /\ PathOf["mode"] = "CHEDO" /\ PathOf["engine"] = "TINHIEUDONGCO"
  /\ InitialDb["CHEDO"] \in Values /\ Null \in Values
  /\ LockCalls \subseteq Calls /\ LockRequests \subseteq Requests /\ LockMessages \subseteq Messages
BY ConfigScreenAssumption, ScreenAssumption, RealtimeDatabaseAssumption
   DEF LockCalls, LockRequests, LockMessages

LEMMA LockTypes ==
  ASSUME DatabaseInv, ModeInv
  PROVE  /\ mainQueue \in Seq(Client!Block) /\ sharedQueue \in Seq(LockCalls)
         /\ view \in [Paths -> Client!View] /\ db \in [Paths -> Values]
         /\ toServer \in Seq(LockRequests) /\ toClient \in Seq(LockMessages)
         /\ visibleWrites["CHEDO"] = NoWrite
<1>1. \A w \in allWrites : w.path = "CHEDO" => w.val \in {}
  BY DEF ModeInv
<1>2. visibleWrites["CHEDO"] \in {} \cup {NoWrite}
  BY <1>1, LockNames, VisibleIn
<1> QED
  BY <1>2, DatabaseTypes DEF ModeInv

\* Blocks that are added keep a show that is pending.
LEMMA ShowStays ==
  ASSUME NEW t \in Seq(Client!Block), mainQueue \in Seq(Client!Block), mainQueue' = mainQueue \o t,
         ShowPending
  PROVE  ShowPending'
<1> DEFINE u == mainQueue \o t
<1>1. Together(mainQueue, t, u)
  BY Joined
<1>2. mainQueue' = u
  OBVIOUS
<1> HIDE DEF u
<1>3. PICK i \in 1..Len(mainQueue) : mainQueue[i] = Client!TaskBlock("show")
  BY DEF ShowPending
<1>4. i \in 1..Len(mainQueue') /\ mainQueue'[i] = Client!TaskBlock("show")
  BY <1>1, <1>2, <1>3 DEF Together
<1> QED
  BY <1>4 DEF ShowPending, Client!TaskBlock

\* The events of a view that is not the mode's dismiss nothing.
LEMMA EventsElsewhere ==
  ASSUME DatabaseInv, NEW p \in Paths, p # "CHEDO", NEW new \in Client!View,
         new.regs = view[p].regs
  PROVE  /\ Client!ValueEvents(view[p], new) \in Seq(Client!Block)
         /\ ~Has(Client!ValueEvents(view[p], new), Hiding)
<1> DEFINE e == Client!ValueEvents(view[p], new)
<1>1. view[p] \in Client!View
  BY DatabaseTypes
<1>2. /\ e \in Seq(Client!Block)
      /\ \A k \in 1..Len(e) : /\ k \in 1..Len(new.regs)
                              /\ e[k] = Client!ValueBlock(new.regs[k], new.event)
  BY <1>1, EventsAre
<1> HIDE DEF e
<1>3. ASSUME NEW k \in 1..Len(e), e[k] \in Hiding
      PROVE  FALSE
  <2> DEFINE h == new.regs[k]
  <2>1. e[k] = Client!ValueBlock(h, new.event) /\ k \in 1..Len(new.regs)
    BY <1>2, <1>3
  <2>2. PathOf[h] = p
    BY <2>1 DEF DatabaseInv, ClientP!CInv, ClientP!OwnRegistrations
  <2> HIDE DEF h
  <2>3. e[k].kind = "value" /\ e[k].handler = h
    BY <2>1 DEF Client!ValueBlock
  <2> QED
    BY <1>3, <2>2, <2>3, LockNames DEF Hiding, Hides
<1> QED
  BY <1>2, <1>3 DEF Has, e

\* The first call is taken.
LEMMA LockTaken ==
  ASSUME ModeInv, LockInv, sharedQueue # <<>>, sharedQueue' = Tail(sharedQueue)
  PROVE  LET c == Head(sharedQueue)
         IN /\ c \in LockCalls /\ sharedQueue' \in Seq(LockCalls) /\ Lone(sharedQueue', Claims)
            /\ Has(sharedQueue, Claims) <=> Has(sharedQueue', Claims) \/ c \in Claims
            /\ c \in Claims => ~Has(sharedQueue', Claims)
            /\ Has(sharedQueue, ModeAsked) <=> Has(sharedQueue', ModeAsked) \/ c \in ModeAsked
<1>1. sharedQueue \in Seq(LockCalls) /\ Lone(sharedQueue, Claims)
  BY DEF ModeInv, LockInv
<1> QED
  BY <1>1, Shortened, LoneShortened, HasShortened

\* A write of the screen is run: the call hands the lock on to the write.
LEMMA LockRunSet ==
  ASSUME DatabaseInv, ModeInv, LockInv, RunSet, UNCHANGED <<hudVars, opened>>
  PROVE  ModeInv' /\ LockInv'
<1> DEFINE c == Head(sharedQueue)
           p == c.path
           new == Client!UserOverwrite(view[p], c.val)
           e == Client!ValueEvents(view[p], new)
           r == Put(writeIdCounter, p, c.val)
           x == [id |-> writeIdCounter, path |-> p, val |-> c.val]
<1>1. /\ sharedQueue # <<>> /\ sharedQueue' = Tail(sharedQueue) /\ c.call = "set"
      /\ p \in Paths /\ c.val \in Values /\ Client!ApplyUserOverwrite(p, c.val)
  BY RunSetTakes DEF IsSet
<1>2. /\ c \in LockCalls /\ sharedQueue' \in Seq(LockCalls) /\ Lone(sharedQueue', Claims)
      /\ Has(sharedQueue, Claims) <=> Has(sharedQueue', Claims) \/ c \in Claims
      /\ c \in Claims => ~Has(sharedQueue', Claims)
      /\ Has(sharedQueue', ModeAsked) => Has(sharedQueue, ModeAsked)
  BY <1>1, LockTaken
<1>3. p \in {"TINHIEUDONGCO", "pumpSpeed"} /\ (c \in Claims <=> p = "TINHIEUDONGCO")
  BY <1>1, <1>2 DEF LockCalls, Claims, IsSet, IsObserve
<1>4. /\ view' = [view EXCEPT ![p] = new] /\ mainQueue' = mainQueue \o e
      /\ allWrites' = allWrites \cup {x} /\ toServer' = Append(toServer, r)
      /\ UNCHANGED <<toClient, db>>
  BY <1>1 DEF RunSet, Send, Client!ApplyUserOverwrite
<1>5. /\ view \in [Paths -> Client!View] /\ mainQueue \in Seq(Client!Block)
      /\ toServer \in Seq(LockRequests) /\ writeIdCounter \in Nat
  BY LockTypes, DatabaseTypes DEF Client!TypeOK
<1>6. new \in Client!View /\ new.regs = view[p].regs
  BY <1>1, <1>5, ViewsAre
<1>7. r \in LockRequests
  BY <1>1, <1>3, <1>5 DEF LockRequests, Requests, Put, IsPut
<1>8. x.path = p
  OBVIOUS
<1> HIDE DEF c, p, new, r, x
<1>9. e \in Seq(Client!Block) /\ ~Has(e, Hiding)
  BY <1>1, <1>3, <1>6, EventsElsewhere
<1> HIDE DEF e
<1>10. view'["CHEDO"] = view["CHEDO"]
  BY <1>3, <1>4, <1>5, LockNames
<1>11. /\ Has(mainQueue', Hiding) <=> Has(mainQueue, Hiding)
       /\ Lone(mainQueue', Hiding)
  <2>1. Has(mainQueue', Hiding) <=> Has(mainQueue, Hiding) \/ Has(e, Hiding)
    BY <1>4, <1>5, <1>9, HasJoined
  <2>2. Lone(e, Hiding)
    BY <1>9 DEF Lone, Has
  <2> QED
    BY <1>4, <1>5, <1>9, <2>1, <2>2, LoneJoined DEF LockInv
<1>12. Locked => Locked'
  BY <1>4, <1>5, <1>9, ShowStays DEF Locked, hudVars
<1>13. toServer' \in Seq(LockRequests)
  BY <1>4, <1>5, <1>7
<1>14. ModeInv'
  <2>1. \A w \in allWrites' : w.path \in {"TINHIEUDONGCO", "pumpSpeed"}
    BY <1>3, <1>4, <1>8 DEF ModeInv
  <2> QED
    BY <1>2, <1>4, <1>10, <1>13, <2>1 DEF ModeInv
<1>15. EngineWrites' = IF p = "TINHIEUDONGCO" THEN EngineWrites \cup {x} ELSE EngineWrites
  BY <1>4, <1>8 DEF EngineWrites
<1>16. PICK o \in Owners : HeldBy(o) /\ (o # "nobody" => opened /\ Locked)
  BY DEF LockInv
<1>17. hideAnimations' \in {0, 1} /\ hideAnimations' = hideAnimations
  BY DEF LockInv, hudVars
<1>18. CASE p = "TINHIEUDONGCO"
  <2>1. o = "call" /\ ~Has(sharedQueue', Claims)
    BY <1>2, <1>3, <1>16, <1>18 DEF HeldBy
  <2>2. EngineWrites' = {x}
    BY <1>15, <1>16, <1>18, <2>1 DEF HeldBy
  <2>3. HeldBy("write")'
    BY <1>10, <1>11, <1>16, <1>17, <2>1 DEF HeldBy
  <2> QED
    BY <1>2, <1>11, <1>12, <1>14, <1>16, <1>17, <2>1, <2>2, <2>3 DEF LockInv, Owners
<1>19. CASE p # "TINHIEUDONGCO"
  <2>1. HeldBy(o)'
    BY <1>2, <1>3, <1>10, <1>11, <1>15, <1>16, <1>17, <1>19 DEF HeldBy
  <2>2. EngineWrites' = EngineWrites
    BY <1>15, <1>19
  <2> QED
    BY <1>2, <1>11, <1>12, <1>14, <1>16, <1>17, <2>1, <2>2 DEF LockInv
<1> QED
  BY <1>18, <1>19

\* A handler is registered: the call of the mode's hands the lock on to the
\* listen.
LEMMA LockRunObserve ==
  ASSUME DatabaseInv, ModeInv, LockInv, RunObserve, UNCHANGED <<hudVars, opened>>
  PROVE  ModeInv' /\ LockInv'
<1> DEFINE c == Head(sharedQueue)
           h == c.handler
           p == PathOf[h]
           old == IF Client!Observed(view[p]) THEN view[p] ELSE Client!FreshView(p)
           b == Client!ValueBlock(h, old.event)
           r == Listen(p)
<1>1. /\ sharedQueue # <<>> /\ sharedQueue' = Tail(sharedQueue) /\ c.call = "observe"
      /\ h \in Handlers /\ Client!AddEventRegistration(h)
  BY RunObserveTakes DEF IsObserve
<1>2. /\ c \in LockCalls /\ sharedQueue' \in Seq(LockCalls) /\ Lone(sharedQueue', Claims)
      /\ Has(sharedQueue, Claims) <=> Has(sharedQueue', Claims) \/ c \in Claims
      /\ c \in Claims => ~Has(sharedQueue', Claims)
      /\ Has(sharedQueue, ModeAsked) <=> Has(sharedQueue', ModeAsked) \/ c \in ModeAsked
  BY <1>1, LockTaken
<1>3. /\ h \in {"mode", "engine"} /\ (c \in Claims <=> h = "mode")
      /\ c \in ModeAsked <=> h = "mode"
  BY <1>1, <1>2 DEF LockCalls, Claims, ModeAsked, IsSet, IsObserve
<1>4. /\ view' = [view EXCEPT ![p] = [old EXCEPT !.regs = Append(old.regs, h)]]
      /\ mainQueue' = IF old.eventFull THEN Append(mainQueue, b) ELSE mainQueue
      /\ toServer' = toServer \/ toServer' = Append(toServer, r)
      /\ UNCHANGED <<toClient, db, allWrites>>
  BY <1>1 DEF RunObserve, Send, Client!AddEventRegistration
<1>5. /\ view \in [Paths -> Client!View] /\ mainQueue \in Seq(Client!Block)
      /\ toServer \in Seq(LockRequests) /\ p \in Paths /\ visibleWrites["CHEDO"] = NoWrite
  BY <1>1, LockTypes, RealtimeDatabaseAssumption
<1>6. r \in LockRequests
  BY <1>5 DEF LockRequests, Requests, Listen, IsPut
<1>7. toServer' \in Seq(LockRequests)
  <2> HIDE DEF r
  <2>1. Append(toServer, r) \in Seq(LockRequests)
    BY <1>5, <1>6
  <2> QED
    BY <1>4, <1>5, <2>1
<1>8. EngineWrites' = EngineWrites /\ (\A w, x \in EngineWrites' : w = x)
  BY <1>4 DEF EngineWrites, LockInv
<1>9. PICK o \in Owners : HeldBy(o) /\ (o # "nobody" => opened /\ Locked)
  BY DEF LockInv
<1>10. hideAnimations' \in {0, 1} /\ hideAnimations' = hideAnimations
  BY DEF LockInv, hudVars
<1>11. CASE h = "mode"
  <2>1. p = "CHEDO" /\ view[p] = Client!NoView
    BY <1>2, <1>3, <1>11, LockNames DEF ModeInv
  <2>2. ~Client!Observed(view[p])
    BY <2>1 DEF Client!Observed, Client!NoView
  <2>3. old = Client!NoView
    BY <1>5, <2>1, <2>2 DEF Client!FreshView
  <2>4. Append(old.regs, h) = <<"mode">> /\ ~old.eventFull
    <3> HIDE DEF old, h
    <3>1. old.regs = <<>> /\ ~old.eventFull
      BY <2>3 DEF Client!NoView
    <3>2. Append(<<>>, "mode") = <<"mode">>
      OBVIOUS
    <3> QED
      BY <1>11, <3>1, <3>2
  <2> HIDE DEF old, b, h
  <2>5. view'["CHEDO"] = Waiting
    <3>1. view'[p] = [old EXCEPT !.regs = <<"mode">>]
      BY <1>4, <1>5, <2>4
    <3> QED
      BY <2>1, <2>3, <3>1 DEF Waiting
  <2>6. mainQueue' = mainQueue
    BY <1>4, <2>4
  <2>7. o = "call" /\ ~Has(sharedQueue', Claims)
    BY <1>2, <1>3, <1>9, <1>11 DEF HeldBy
  <2>8. ~Has(sharedQueue', ModeAsked)
    BY <2>7 DEF Has, ModeAsked, Claims
  <2>9. HeldBy("listen")'
    BY <1>8, <1>9, <1>10, <2>6, <2>7 DEF HeldBy
  <2>10. Locked'
    BY <1>9, <2>6, <2>7 DEF Locked, ShowPending, hudVars, Client!TaskBlock
  <2>11. LockInv'
    BY <1>2, <1>8, <1>9, <1>10, <2>6, <2>7, <2>9, <2>10 DEF LockInv, Owners
  <2>12. ModeInv'
    <3>1. Waiting # Having
      BY DEF Waiting, Having, Client!NoView
    <3>2. Led(toClient', ModeTold, ModeData)
      BY <1>4, <2>1, LockNames DEF ModeInv, Client!NoView, Having
    <3> QED
      BY <1>2, <1>4, <1>7, <1>9, <2>5, <2>7, <2>8, <3>2 DEF ModeInv
  <2> QED
    BY <2>11, <2>12
<1>12. CASE h = "engine"
  <2>1. p = "TINHIEUDONGCO"
    BY <1>12, LockNames
  <2>2. view'["CHEDO"] = view["CHEDO"]
    BY <1>4, <1>5, <2>1, LockNames
  <2>3. old \in Client!View
    <3>1. visibleWrites \in [Paths -> Values \cup {NoWrite}] /\ view[p] \in Client!View
      BY <1>5, DatabaseTypes DEF Client!TypeOK
    <3>2. Client!NoView \in Client!View
      BY LockNames, EmptySeq DEF Client!NoView, Client!View
    <3>3. visibleWrites[p] # NoWrite => visibleWrites[p] \in Values
      BY <1>5, <3>1
    <3> QED
      BY <3>1, <3>2, <3>3 DEF Client!FreshView, Client!View
  <2>4. b \in Client!Block /\ b \notin Hiding
    BY <1>12, <2>3, LockNames DEF Client!ValueBlock, Client!Block, Client!View, Hiding, Hides
  <2> HIDE DEF b, old, p, r
  <2> DEFINE t == IF old.eventFull THEN <<b>> ELSE <<>>
  <2>5. t \in Seq(Client!Block) /\ ~Has(t, Hiding) /\ Lone(t, Hiding)
    BY <2>4, HasOne, LoneFew
  <2>6. mainQueue' = mainQueue \o t
    BY <1>4, <1>5, <2>4, AppendIsConcat, ConcatEmptySeq
  <2> HIDE DEF t
  <2>7. /\ Has(mainQueue', Hiding) <=> Has(mainQueue, Hiding)
        /\ Lone(mainQueue', Hiding)
    BY <1>5, <2>5, <2>6, HasJoined, LoneJoined DEF LockInv
  <2>8. Locked => Locked'
    BY <1>5, <2>5, <2>6, ShowStays DEF Locked, hudVars
  <2>9. c \notin Claims /\ c \notin ModeAsked
    BY <1>3, <1>12
  <2>10. HeldBy(o)'
    BY <1>2, <1>8, <1>9, <1>10, <2>2, <2>7, <2>9 DEF HeldBy
  <2>11. LockInv'
    BY <1>2, <1>8, <1>9, <1>10, <2>7, <2>8, <2>10 DEF LockInv
  <2>12. ModeInv'
    BY <1>2, <1>4, <1>7, <2>2, <2>9 DEF ModeInv
  <2> QED
    BY <2>11, <2>12
<1> QED
  BY <1>3, <1>11, <1>12

\* Blocks are added that dismiss nothing, or one that answers who has the lock.
LEMMA LockRaised ==
  ASSUME LockInv, mainQueue \in Seq(Client!Block), UNCHANGED <<sharedQueue, opened, hudVars>>,
         NEW t \in Seq(Client!Block), mainQueue' = mainQueue \o t, Lone(t, Hiding),
         EngineWrites' \in {EngineWrites, {}},
         view'["CHEDO"] = Waiting => view["CHEDO"] = Waiting,
         Has(t, Hiding) =>
           /\ EngineWrites # {} \/ view["CHEDO"] = Waiting
           /\ EngineWrites' = {} /\ view'["CHEDO"] # Waiting
  PROVE  LockInv'
<1>1. PICK o \in Owners : HeldBy(o) /\ (o # "nobody" => opened /\ Locked)
  BY DEF LockInv
<1>2. Has(mainQueue', Hiding) <=> Has(mainQueue, Hiding) \/ Has(t, Hiding)
  BY HasJoined
<1>3. Locked => Locked'
  BY ShowStays DEF Locked, hudVars
<1>4. hideAnimations' \in {0, 1} /\ hideAnimations' = hideAnimations
  BY DEF LockInv, hudVars
<1>5. /\ Lone(sharedQueue', Claims) /\ (\A w, x \in EngineWrites' : w = x)
      /\ Has(sharedQueue', Claims) <=> Has(sharedQueue, Claims)
  BY DEF LockInv
<1>6. CASE ~Has(t, Hiding)
  <2>1. Lone(mainQueue', Hiding)
    BY <1>6, LoneJoined DEF LockInv
  <2>2. HeldBy(o)'
    BY <1>1, <1>2, <1>4, <1>5, <1>6 DEF HeldBy
  <2> QED
    BY <1>1, <1>3, <1>4, <1>5, <2>1, <2>2 DEF LockInv
<1>7. CASE Has(t, Hiding)
  <2>1. o \in {"write", "listen"}
    BY <1>1, <1>7 DEF HeldBy
  <2>2. ~Has(mainQueue, Hiding) /\ hideAnimations = 0 /\ ~Has(sharedQueue, Claims)
    BY <1>1, <2>1 DEF HeldBy
  <2>3. Lone(mainQueue', Hiding)
    BY <2>2, LoneJoined DEF LockInv
  <2>4. HeldBy("block")'
    BY <1>4, <1>5, <1>7, <2>2 DEF HeldBy
  <2> QED
    BY <1>1, <1>3, <1>4, <1>5, <2>1, <2>3, <2>4 DEF LockInv, Owners
<1> QED
  BY <1>6, <1>7

\* The mode comes, first or again.
LEMMA LockMode ==
  ASSUME view["CHEDO"] \in {Waiting, Having}
  PROVE  LET new == Client!ServerOverwrite(view["CHEDO"], InitialDb["CHEDO"], NoWrite)
             e   == Client!ValueEvents(view["CHEDO"], new)
         IN /\ new = Having /\ e \in Seq(Client!Block) /\ Lone(e, Hiding)
            /\ Has(e, Hiding) => view["CHEDO"] = Waiting
<1> DEFINE val == InitialDb["CHEDO"]
           v   == view["CHEDO"]
           new == Client!ServerOverwrite(v, val, NoWrite)
           e   == Client!ValueEvents(v, new)
           b   == Client!ValueBlock("mode", val)
<1>1. val \in Values /\ Null \in Values /\ "mode" \in Handlers
  BY LockNames
<1>2. <<"mode">> \in Seq(Handlers) /\ Len(<<"mode">>) = 1 /\ <<"mode">> # <<>> /\ <<"mode">>[1] = "mode"
  BY <1>1
<1>3. /\ Waiting = [regs |-> <<"mode">>, server |-> Null, serverFull |-> FALSE,
                    event |-> Null, eventFull |-> FALSE]
      /\ Waiting \in Client!View /\ Having \in Client!View
  <2>1. Waiting = [regs |-> <<"mode">>, server |-> Null, serverFull |-> FALSE,
                   event |-> Null, eventFull |-> FALSE]
    <3> DEFINE r == <<"mode">>
               v0 == Client!NoView
               w == [v0 EXCEPT !.regs = r]
    <3>1. v0 = [regs |-> <<>>, server |-> Null, serverFull |-> FALSE,
                event |-> Null, eventFull |-> FALSE]
      BY DEF Client!NoView
    <3>2. Waiting = w
      BY DEF Waiting
    <3> HIDE DEF r, v0
    <3>3. w \in [regs : {r}, server : {Null}, serverFull : {FALSE},
                 event : {Null}, eventFull : {FALSE}]
      BY <3>1
    <3> HIDE DEF w
    <3>4. w = [regs |-> r, server |-> Null, serverFull |-> FALSE,
               event |-> Null, eventFull |-> FALSE]
      BY <3>3
    <3> QED
      BY <3>2, <3>4 DEF r
  <2>2. Having \in Client!View
    BY <1>1, <1>2 DEF Having, Client!View
  <2>3. Waiting \in Client!View
    BY <1>1, <1>2, <2>1 DEF Client!View
  <2> QED
    BY <2>1, <2>2, <2>3
<1>4. Client!Observed(Waiting) /\ Client!Observed(Having)
  BY <1>2, <1>3 DEF Having, Client!Observed
<1>5. /\ Client!ServerOverwrite(Waiting, val, NoWrite) = Having
      /\ Client!ServerOverwrite(Having, val, NoWrite) = Having
  BY <1>3, <1>4 DEF Client!ServerOverwrite, Having
<1>6. new = Having
  BY <1>5
<1> HIDE DEF val
<1>7. CASE v = Having
  <2>1. e = <<>>
    BY <1>6, <1>7 DEF Client!ValueEvents
  <2> QED
    BY <1>6, <2>1, LoneFew, EmptySeq DEF val
<1>8. CASE v = Waiting
  <2>1. e \in Seq(Client!Block) /\ \A k \in 1..Len(e) : k \in 1..Len(Having.regs)
    BY <1>3, <1>6, <1>8, EventsAre
  <2>2. Having.regs = <<"mode">>
    BY DEF Having
  <2> HIDE DEF e
  <2>3. Lone(e, Hiding)
    <3>1. \A k \in 1..Len(e) : k = 1
      BY <1>2, <2>1, <2>2
    <3> QED
      BY <3>1 DEF Lone
  <2> QED
    BY <1>6, <1>8, <2>1, <2>3 DEF val, e
<1> QED
  BY <1>7, <1>8

\* Data of the server comes, or its answer to a listen.
LEMMA LockData ==
  ASSUME DatabaseInv, ModeInv, LockInv, Receive, Head(toClient).msg \in {"data", "listening"},
         UNCHANGED <<hudVars, opened>>
  PROVE  ModeInv' /\ LockInv'
<1> DEFINE m   == Head(toClient)
           p   == m.path
           val == IF m.msg = "data" THEN m.val ELSE view[p].server
           new == Client!ServerOverwrite(view[p], val, visibleWrites[p])
           e   == Client!ValueEvents(view[p], new)
<1>1. /\ toClient # <<>> /\ toClient' = Tail(toClient)
      /\ Client!ApplyServerOverwrite(p, val)
      /\ UNCHANGED <<sharedQueue, toServer, listens, db>>
  BY DEF Receive, Client!ApplyListenComplete
<1>2. /\ toClient \in Seq(LockMessages) /\ toClient' \in Seq(LockMessages) /\ m \in LockMessages
      /\ m \in Messages
  BY <1>1, LockTypes, Shortened DEF LockMessages
<1>3. /\ view \in [Paths -> Client!View] /\ mainQueue \in Seq(Client!Block)
      /\ visibleWrites["CHEDO"] = NoWrite
  BY LockTypes
<1>4. p \in Paths /\ (m.msg = "data" => m.val \in Values)
  BY <1>2, Kinds
<1>5. val \in Values /\ view[p] \in Client!View
  BY <1>3, <1>4 DEF Client!View
<1>6. /\ view' = [view EXCEPT ![p] = new] /\ mainQueue' = mainQueue \o e
      /\ UNCHANGED allWrites
  BY <1>1 DEF Client!ApplyServerOverwrite
<1>7. new \in Client!View /\ new.regs = view[p].regs
  BY <1>5, ViewsAre
<1>8. m \notin ModeTold \/ view["CHEDO"] = Having
  BY <1>1, <1>2, LedShortened DEF ModeInv
<1>9. view["CHEDO"] = Having \/ m \in ModeData \/ Led(toClient', ModeTold, ModeData)
  BY <1>1, <1>2, LedShortened DEF ModeInv
<1>10. EngineWrites' = EngineWrites
  BY <1>6 DEF EngineWrites
<1>11. m.msg = "data" => Client!Observed(view[p])
  <2>1. toClient \in Seq(Messages)
    BY DEF DatabaseInv, ServiceInv, Typed
  <2>2. m.msg = "data" => Fewer(toClient, Tail(toClient), "data", m)
    BY <1>1, <2>1, TailDoes
  <2> HIDE DEF m
  <2>3. m.msg = "data" => p \in Coming
    BY <2>2 DEF Fewer, Coming
  <2> QED
    BY <1>4, <2>3 DEF DatabaseInv, ServiceInv, Followed
<1>12. CASE p # "CHEDO"
  <2>1. e \in Seq(Client!Block) /\ ~Has(e, Hiding)
    BY <1>4, <1>7, <1>12, EventsElsewhere
  <2> HIDE DEF e, new, val
  <2>2. view'["CHEDO"] = view["CHEDO"]
    BY <1>6, <1>3, <1>12, LockNames
  <2>3. Lone(e, Hiding)
    BY <2>1 DEF Lone, Has
  <2>4. LockInv'
    BY <1>1, <1>3, <1>6, <1>10, <2>1, <2>2, <2>3, LockRaised
  <2>5. m \notin ModeData
    BY <1>12 DEF ModeData
  <2>6. ModeInv'
    BY <1>1, <1>2, <1>6, <1>9, <2>2, <2>5 DEF ModeInv
  <2> QED
    BY <2>4, <2>6
<1>13. CASE p = "CHEDO"
  <2>1. m.msg = "data" => m.val = InitialDb["CHEDO"] /\ view["CHEDO"] \in {Waiting, Having}
    <3>1. ~Client!Observed(Client!NoView)
      BY DEF Client!NoView, Client!Observed
    <3> QED
      BY <1>2, <1>11, <1>13, <3>1 DEF LockMessages, ModeInv
  <2>2. m.msg = "listening" => view["CHEDO"] = Having
    BY <1>2, <1>8, <1>13 DEF ModeTold
  <2>3. val = InitialDb["CHEDO"] /\ view["CHEDO"] \in {Waiting, Having}
    BY <1>13, <2>1, <2>2 DEF Having
  <2>4. /\ new = Having /\ e \in Seq(Client!Block) /\ Lone(e, Hiding)
        /\ Has(e, Hiding) => view["CHEDO"] = Waiting
    BY <1>3, <1>13, <2>3, LockMode
  <2> HIDE DEF e, new, val
  <2>5. view'["CHEDO"] = Having
    BY <1>3, <1>4, <1>6, <1>13, <2>4
  <2>6. Waiting # Having
    BY DEF Waiting, Having, Client!NoView
  <2>7. Client!NoView # Having /\ Client!NoView # Waiting
    <3>1. <<"mode">> # <<>>
      OBVIOUS
    <3> QED
      BY <3>1 DEF Waiting, Having, Client!NoView
  <2>8. view["CHEDO"] = Waiting => EngineWrites = {}
    BY DEF LockInv, HeldBy
  <2>9. LockInv'
    BY <1>1, <1>3, <1>6, <1>10, <2>4, <2>5, <2>6, <2>8, LockRaised
  <2>10. ModeInv'
    BY <1>1, <1>2, <1>6, <2>3, <2>5, <2>7 DEF ModeInv
  <2> QED
    BY <2>9, <2>10
<1> QED
  BY <1>12, <1>13

\* A message comes that is no word of the mode.
LEMMA LockReceived ==
  ASSUME ModeInv, toClient # <<>>, toClient' = Tail(toClient), Head(toClient).msg = "answer"
  PROVE  /\ toClient' \in Seq(LockMessages)
         /\ view["CHEDO"] = Having \/ Led(toClient', ModeTold, ModeData)
<1>1. toClient \in Seq(LockMessages) /\ Head(toClient) \notin ModeData
  BY DEF ModeInv, ModeData
<1> QED
  BY <1>1, Shortened, LedShortened DEF ModeInv

\* A write is answered: it hands the lock on to its completion.
LEMMA LockAnswer ==
  ASSUME DatabaseInv, ModeInv, LockInv, NEW m \in Answers, Acknowledge(m),
         toClient' \in Seq(LockMessages),
         view["CHEDO"] = Having \/ Led(toClient', ModeTold, ModeData),
         UNCHANGED <<sharedQueue, toServer, db, hudVars, opened>>
  PROVE  ModeInv' /\ LockInv'
<1>1. PICK w \in allWrites : w.id = m.id /\ Client!AckUserWrite(w, m.ok)
  BY DEF Acknowledge
<1> DEFINE rest   == allWrites \ {w}
           shadow == Client!VisibleWithout(w, rest)
           p      == w.path
           old    == view[w.path]
           new    == IF Client!Hidden(w, rest) THEN old
                     ELSE IF m.ok THEN Client!AckWrite(old, shadow)
                     ELSE Client!RevertWrite(old, shadow)
           e      == Client!ValueEvents(old, new)
           b      == Client!DoneBlock(w, m.ok)
<1>2. /\ view' = [view EXCEPT ![p] = new] /\ allWrites' = rest
      /\ mainQueue' = mainQueue \o e \o <<b>>
  BY <1>1 DEF Client!AckUserWrite
<1>3. /\ view \in [Paths -> Client!View] /\ mainQueue \in Seq(Client!Block)
      /\ w \in Client!Write /\ m.ok \in BOOLEAN
  BY LockTypes, DatabaseTypes, Kinds DEF Client!TypeOK
<1>4. p \in {"TINHIEUDONGCO", "pumpSpeed"} /\ p \in Paths /\ p # "CHEDO"
  BY LockNames DEF ModeInv
<1>5. old \in Client!View /\ old = view[p]
  BY <1>3, <1>4
<1> HIDE DEF shadow
<1>6. new \in Client!View /\ new.regs = view[p].regs
  <2> HIDE DEF old
  <2>1. Null \in Values
    BY LockNames
  <2> QED
    BY <1>5, <2>1, ViewsAre
<1>7. b \in Client!Block /\ (b \in Hiding <=> p = "TINHIEUDONGCO")
  <2>1. b.kind = "done" /\ b.write = w /\ b \in Client!Block
    BY <1>3 DEF Client!DoneBlock, Client!Block
  <2> HIDE DEF b
  <2> QED
    BY <2>1 DEF Hiding, Hides
<1> HIDE DEF b, new
<1>8. e \in Seq(Client!Block) /\ ~Has(e, Hiding)
  BY <1>4, <1>5, <1>6, EventsElsewhere
<1> HIDE DEF e, old, p, rest
<1> DEFINE t == e \o <<b>>
<1>9. /\ t \in Seq(Client!Block) /\ Lone(t, Hiding)
      /\ Has(t, Hiding) <=> p = "TINHIEUDONGCO"
  <2>1. <<b>> \in Seq(Client!Block) /\ Lone(<<b>>, Hiding) /\ (Has(<<b>>, Hiding) <=> b \in Hiding)
    BY <1>7, LoneFew, HasOne
  <2>2. Lone(e, Hiding)
    BY <1>8 DEF Lone, Has
  <2>3. Has(t, Hiding) <=> Has(e, Hiding) \/ Has(<<b>>, Hiding)
    BY <1>8, <2>1, HasJoined
  <2>4. Lone(t, Hiding)
    BY <1>8, <2>1, <2>2, LoneJoined
  <2> QED
    BY <1>7, <1>8, <2>1, <2>3, <2>4
<1>10. mainQueue' = mainQueue \o t
  BY <1>2, <1>3, <1>7, <1>8
<1> HIDE DEF t
<1>11. view'["CHEDO"] = view["CHEDO"]
  BY <1>2, <1>3, <1>4, LockNames
<1>12. EngineWrites' = EngineWrites \ {w} /\ (w \in EngineWrites <=> p = "TINHIEUDONGCO")
  BY <1>2 DEF EngineWrites, rest, p
<1>13. /\ EngineWrites' = IF p = "TINHIEUDONGCO" THEN {} ELSE EngineWrites
       /\ p = "TINHIEUDONGCO" => EngineWrites # {} /\ view["CHEDO"] # Waiting
  <2>1. \A x \in EngineWrites : w \in EngineWrites => x = w
    BY DEF LockInv
  <2>2. EngineWrites # {} => view["CHEDO"] # Waiting
    BY DEF LockInv, HeldBy
  <2> QED
    BY <1>12, <2>1, <2>2
<1>14. LockInv'
  BY <1>3, <1>9, <1>10, <1>11, <1>13, LockRaised
<1>15. ModeInv'
  <2>1. \A x \in allWrites' : x \in allWrites
    BY <1>2 DEF rest
  <2> QED
    BY <1>11, <2>1 DEF ModeInv
<1> QED
  BY <1>14, <1>15

\* A step that leaves alone who has the lock.
LEMMA LockElsewhere ==
  ASSUME LockInv, UNCHANGED <<sharedQueue, allWrites, mainQueue, view, hudVars, opened>>
  PROVE  LockInv'
BY DEF LockInv, HeldBy, Locked, ShowPending, EngineWrites, hudVars

\* The server handles requests, and others write.
LEMMA LockServer ==
  ASSUME OneAtATime, DatabaseInv, ModeInv, LockInv, UNCHANGED <<hudVars, opened>>,
         \/ ServePut
         \/ ServeListen
         \/ \E p \in RemotePaths : \E val \in RemoteValues[p] : RemoteWrite(p, val)
  PROVE  ModeInv' /\ LockInv'
<1> DEFINE C == "CHEDO"
<1>1. /\ toServer \in Seq(LockRequests) /\ toClient \in Seq(LockMessages)
      /\ db \in [Paths -> Values] /\ C \in Paths /\ db[C] = InitialDb[C]
  BY LockTypes, LockNames DEF ModeInv
<1>2. UNCHANGED <<sharedQueue, allWrites, mainQueue, view>>
  BY DEF ServePut, ServeListen, RemoteWrite, clientVars
<1>3. LockInv'
  BY <1>2, LockElsewhere
<1>4. SUFFICES /\ toServer' \in Seq(LockRequests) /\ db'[C] = InitialDb[C]
               /\ \E t \in Seq(LockMessages) : toClient' = toClient \o t /\ Led(t, ModeTold, ModeData)
  <2>1. ASSUME NEW t \in Seq(LockMessages), toClient' = toClient \o t, Led(t, ModeTold, ModeData)
        PROVE  /\ toClient' \in Seq(LockMessages)
               /\ Led(toClient, ModeTold, ModeData) => Led(toClient', ModeTold, ModeData)
    BY <1>1, <2>1, LedJoined
  <2> QED
    BY <1>2, <1>3, <2>1 DEF ModeInv
<1>5. ASSUME NEW m \in Messages, m.msg # "listening",
             m.msg = "data" /\ m.path = C => m.val = InitialDb[C]
      PROVE  <<m>> \in Seq(LockMessages) /\ Led(<<m>>, ModeTold, ModeData)
  <2>1. m \in LockMessages /\ m \notin ModeTold
    BY <1>5 DEF LockMessages, ModeTold
  <2>2. Len(<<m>>) = 1 /\ <<m>>[1] = m
    OBVIOUS
  <2> QED
    BY <2>1, <2>2 DEF Led
<1>6. <<>> \in Seq(LockMessages) /\ Led(<<>>, ModeTold, ModeData)
  BY EmptySeq DEF Led
<1>7. ASSUME NEW p \in Paths, NEW val \in Values, p = C => val = InitialDb[C]
      PROVE  Push(p, val) \in Seq(LockMessages) /\ Led(Push(p, val), ModeTold, ModeData)
  <2> DEFINE d == Data(p, val)
  <2>1. d \in Messages /\ d.msg = "data" /\ d.path = p /\ d.val = val
    BY MessagesMade
  <2>2. Push(p, val) = IF p \in listens THEN <<d>> ELSE <<>>
    BY DEF Push
  <2> HIDE DEF d
  <2> QED
    BY <1>5, <1>6, <1>7, <2>1, <2>2
<1>8. CASE ServePut
  <2> DEFINE r == Head(toServer)
  <2>1. /\ toServer # <<>> /\ r.msg = "put" /\ toServer' = Tail(toServer)
    BY <1>8 DEF ServePut
  <2>2. r \in LockRequests /\ r \in Requests /\ toServer' \in Seq(LockRequests)
    BY <1>1, <2>1, Shortened DEF LockRequests
  <2>3. r.path # C /\ r.id \in Nat /\ r.path \in Paths /\ r.val \in Values
    BY <2>1, <2>2, Kinds DEF LockRequests, IsPut
  <2>4. db'[C] = db[C]
    BY <1>1, <1>8, <2>3 DEF ServePut
  <2>5. PICK ok \in BOOLEAN :
          \/ toClient' = toClient \o Push(r.path, r.val) \o <<Answer(r.id, ok)>>
          \/ toClient' = Append(toClient, Answer(r.id, ok))
    BY <1>8 DEF ServePut
  <2> DEFINE a == Answer(r.id, ok)
             u == Push(r.path, r.val)
  <2>6. a \in Messages /\ a.msg = "answer"
    BY <2>3, MessagesMade
  <2>7. u \in Seq(LockMessages) /\ Led(u, ModeTold, ModeData)
    BY <1>7, <2>3
  <2> HIDE DEF r, a, u
  <2>8. <<a>> \in Seq(LockMessages) /\ Led(<<a>>, ModeTold, ModeData)
    BY <1>5, <2>6
  <2>9. u \o <<a>> \in Seq(LockMessages) /\ Led(u \o <<a>>, ModeTold, ModeData)
    <3> DEFINE v == <<a>>
    <3>1. v \in Seq(LockMessages) /\ Led(v, ModeTold, ModeData)
      BY <2>8
    <3> HIDE DEF v
    <3>2. u \o v \in Seq(LockMessages)
      BY <2>7, <3>1
    <3>3. Led(u \o v, ModeTold, ModeData)
      BY <2>7, <3>1, LedJoined
    <3> QED
      BY <3>2, <3>3 DEF v
  <2>10. toClient \o u \o <<a>> = toClient \o (u \o <<a>>)
    BY <1>1, <2>7, <2>8
  <2>11. Append(toClient, a) = toClient \o <<a>>
    <3>1. a \in LockMessages
      BY <2>6 DEF LockMessages
    <3> QED
      BY <1>1, <3>1, AppendIsConcat
  <2>12. toClient' = toClient \o (u \o <<a>>) \/ toClient' = toClient \o <<a>>
    BY <2>5, <2>10, <2>11 DEF a, u
  <2>13. \E t \in Seq(LockMessages) : toClient' = toClient \o t /\ Led(t, ModeTold, ModeData)
    BY <2>8, <2>9, <2>12
  <2> QED
    BY <1>1, <2>2, <2>4, <2>13
<1>9. CASE ServeListen
  <2> DEFINE r == Head(toServer)
             p == r.path
             d == Data(p, db[p])
             l == Listening(p)
  <2>1. /\ toServer # <<>> /\ r.msg = "listen" /\ toServer' = Tail(toServer)
        /\ toClient' = toClient \o <<d, l>> /\ db' = db
    BY <1>9 DEF ServeListen
  <2>2. r \in Requests /\ toServer' \in Seq(LockRequests)
    BY <1>1, <2>1, Shortened DEF LockRequests
  <2>3. p \in Paths /\ db[p] \in Values
    BY <1>1, <2>1, <2>2, Kinds
  <2>4. d \in Messages /\ d.msg = "data" /\ d.path = p /\ d.val = db[p]
    BY <2>3, MessagesMade
  <2>5. l \in Messages /\ l.msg = "listening" /\ l.path = p
    BY <2>3, MessagesMade
  <2> HIDE DEF r, p, d, l
  <2>6. d \in LockMessages /\ l \in LockMessages
    BY <1>1, <2>4, <2>5 DEF LockMessages
  <2>7. Len(<<d, l>>) = 2 /\ <<d, l>>[1] = d /\ <<d, l>>[2] = l
    OBVIOUS
  <2>8. <<d, l>> \in Seq(LockMessages)
    BY <2>6
  <2>9. d \notin ModeTold /\ (l \in ModeTold => d \in ModeData)
    BY <2>4, <2>5 DEF ModeTold, ModeData
  <2>10. Led(<<d, l>>, ModeTold, ModeData)
    <3> SUFFICES ASSUME NEW i \in 1..2, <<d, l>>[i] \in ModeTold
                 PROVE  \E j \in 1..2 : j < i /\ <<d, l>>[j] \in ModeData
      BY <2>7 DEF Led
    <3>1. i = 2
      BY <2>7, <2>9
    <3> QED
      BY <2>7, <2>9, <3>1
  <2> QED
    BY <1>1, <2>1, <2>2, <2>8, <2>10
<1>10. ASSUME NEW p \in RemotePaths, NEW val \in RemoteValues[p], RemoteWrite(p, val)
       PROVE  /\ toServer' \in Seq(LockRequests) /\ db'[C] = InitialDb[C]
              /\ \E t \in Seq(LockMessages) : toClient' = toClient \o t /\ Led(t, ModeTold, ModeData)
  <2>1. p \in Paths /\ val \in Values /\ p # C
    BY RealtimeDatabaseAssumption DEF OneAtATime
  <2>2. /\ toClient' = toClient \o Push(p, val) /\ toServer' = toServer
        /\ db' = [db EXCEPT ![p] = val]
    BY <1>10 DEF RemoteWrite
  <2>3. db'[C] = db[C]
    BY <1>1, <2>1, <2>2
  <2> QED
    BY <1>1, <1>7, <2>1, <2>2, <2>3
<1> QED
  BY <1>8, <1>9, <1>10

\* Below the screen.
LEMMA LockBelow ==
  ASSUME OneAtATime, DatabaseInv, ModeInv, LockInv, ServiceNext, UNCHANGED <<hudVars, opened>>
  PROVE  ModeInv' /\ LockInv'
<1>1. CASE RunSet \/ RunObserve
  BY <1>1, LockRunSet, LockRunObserve
<1>2. CASE Receive
  <2>1. toClient # <<>> /\ toClient' = Tail(toClient) /\ UNCHANGED <<sharedQueue, toServer, db>>
    BY <1>2 DEF Receive
  <2>2. CASE Head(toClient).msg \in {"data", "listening"}
    BY <1>2, <2>2, LockData
  <2>3. CASE Head(toClient).msg = "answer"
    <3>1. /\ toClient' \in Seq(LockMessages)
          /\ view["CHEDO"] = Having \/ Led(toClient', ModeTold, ModeData)
      BY <2>1, <2>3, LockReceived
    <3>2. CASE Acknowledge(Head(toClient))
      <4>1. Head(toClient) \in Answers
        <5>1. toClient \in Seq(Messages)
          BY DEF DatabaseInv, ServiceInv, Typed
        <5>2. Head(toClient) \in Messages
          BY <2>1, <5>1, Shortened
        <5> QED
          BY <2>3, <5>2, Kinds
      <4> QED
        BY <2>1, <3>1, <3>2, <4>1, LockAnswer
    <3>3. CASE UNCHANGED clientVars
      <4>1. LockInv'
        BY <2>1, <3>3, LockElsewhere DEF clientVars
      <4>2. ModeInv'
        BY <2>1, <3>1, <3>3 DEF ModeInv, clientVars
      <4> QED
        BY <4>1, <4>2
    <3> QED
      BY <1>2, <2>3, <3>2, <3>3 DEF Receive
  <2> QED
    BY <1>2, <2>2, <2>3 DEF Receive
<1>3. CASE AckPut
  <2>1. /\ putsToAck # <<>> /\ Acknowledge(Head(putsToAck))
        /\ UNCHANGED <<sharedQueue, toServer, toClient, db>>
    BY <1>3 DEF AckPut, LettingGo, serverVars
  <2>2. Head(putsToAck) \in Answers
    <3>1. putsToAck \in Seq(Answers)
      BY DEF DatabaseInv, ServiceInv, Typed
    <3> QED
      BY <2>1, <3>1, Shortened
  <2>3. /\ toClient' \in Seq(LockMessages)
        /\ view["CHEDO"] = Having \/ Led(toClient', ModeTold, ModeData)
    BY <2>1 DEF ModeInv
  <2> QED
    BY <2>1, <2>2, <2>3, LockAnswer
<1> QED
  BY <1>1, <1>2, <1>3, LockServer DEF ServiceNext

ShowBlocks == {Client!TaskBlock("show")}

LEMMA ShowsPending == ShowPending <=> Has(mainQueue, ShowBlocks)
BY DEF ShowPending, Has, ShowBlocks

LEMMA ShowsPendingNext == ShowPending' <=> Has(mainQueue', ShowBlocks)
BY DEF ShowPending, Has, ShowBlocks, Client!TaskBlock

LEMMA TasksHide ==
  /\ Client!TaskBlock("show") \in Client!Block /\ Client!TaskBlock("hide") \in Client!Block
  /\ Client!TaskBlock("hide") \in Hiding /\ Client!TaskBlock("show") \notin Hiding
  /\ Client!TaskBlock("hide") \notin ShowBlocks
BY LockNames DEF Client!TaskBlock, Client!Block, Hiding, Hides, ShowBlocks

\* A block of the screen runs, and passes the lock on to a hide at most.
LEMMA LockFired ==
  ASSUME DatabaseInv, ModeInv, LockInv, NEW ts \in {<<>>, HideBlock}, Client!FireEvent(ts),
         Head(mainQueue).kind # "task", ts # <<>> => Head(mainQueue) \in Hiding,
         NEW cs \in {<<>>, <<ObserveCall("engine")>>}, sharedQueue' = sharedQueue \o cs,
         UNCHANGED <<farVars, hudVars, opened>>
  PROVE  ModeInv' /\ LockInv'
<1> DEFINE x == Head(mainQueue)
           q == Tail(mainQueue)
<1>1. /\ mainQueue # <<>> /\ mainQueue' = q \o ts
      /\ UNCHANGED <<view, allWrites, toServer, toClient, db>>
  BY DEF Client!FireEvent, farVars, serverVars
<1>2. /\ mainQueue \in Seq(Client!Block) /\ sharedQueue \in Seq(LockCalls)
  BY LockTypes
<1>3. /\ q \in Seq(Client!Block)
      /\ Lone(q, Hiding) /\ (x \in Hiding => ~Has(q, Hiding))
      /\ Has(mainQueue, Hiding) <=> Has(q, Hiding) \/ x \in Hiding
      /\ Has(mainQueue, ShowBlocks) <=> Has(q, ShowBlocks) \/ x \in ShowBlocks
  BY <1>1, <1>2, Shortened, LoneShortened, HasShortened DEF LockInv
<1>4. /\ ts \in Seq(Client!Block) /\ Lone(ts, Hiding) /\ (ts = <<>> => ~Has(ts, Hiding))
  <2>1. <<Client!TaskBlock("hide")>> \in Seq(Client!Block) /\ <<>> \in Seq(Client!Block)
    BY TasksHide
  <2> QED
    BY <2>1, LoneFew DEF HideBlock
<1>5. x \notin ShowBlocks
  BY DEF ShowBlocks, Client!TaskBlock
<1> HIDE DEF x, q
<1>6. /\ Has(mainQueue', Hiding) => Has(mainQueue, Hiding)
      /\ Has(mainQueue, ShowBlocks) => Has(mainQueue', ShowBlocks)
  <2>1. /\ Has(mainQueue', Hiding) <=> Has(q, Hiding) \/ Has(ts, Hiding)
        /\ Has(mainQueue', ShowBlocks) <=> Has(q, ShowBlocks) \/ Has(ts, ShowBlocks)
    BY <1>1, <1>3, <1>4, HasJoined
  <2> QED
    BY <1>3, <1>4, <1>5, <2>1 DEF x
<1>7. Lone(mainQueue', Hiding)
  <2>1. ~Has(q, Hiding) \/ ~Has(ts, Hiding)
    BY <1>3, <1>4 DEF x
  <2> QED
    BY <1>1, <1>3, <1>4, <2>1, LoneJoined
<1>8. cs \in Seq(LockCalls) /\ ~Has(cs, Claims) /\ ~Has(cs, ModeAsked) /\ Lone(cs, Claims)
  <2> DEFINE c == ObserveCall("engine")
  <2>1. c \in LockCalls /\ c \notin Claims /\ c \notin ModeAsked
    BY LockNames DEF ObserveCall, LockCalls, Calls, Claims, ModeAsked, IsSet, IsObserve
  <2> HIDE DEF c
  <2>2. <<c>> \in Seq(LockCalls) /\ ~Has(<<c>>, Claims) /\ ~Has(<<c>>, ModeAsked) /\ Lone(<<c>>, Claims)
    BY <2>1, HasOne, LoneFew
  <2>3. <<>> \in Seq(LockCalls) /\ ~Has(<<>>, Claims) /\ ~Has(<<>>, ModeAsked) /\ Lone(<<>>, Claims)
    BY EmptySeq, LoneFew
  <2>4. cs = <<>> \/ cs = <<c>>
    BY DEF c
  <2> QED
    BY <2>2, <2>3, <2>4
<1>9. /\ sharedQueue' \in Seq(LockCalls) /\ Lone(sharedQueue', Claims)
      /\ Has(sharedQueue', Claims) <=> Has(sharedQueue, Claims)
      /\ Has(sharedQueue', ModeAsked) <=> Has(sharedQueue, ModeAsked)
  <2>1. sharedQueue' \in Seq(LockCalls)
    BY <1>2, <1>8
  <2>2. Lone(sharedQueue', Claims)
    BY <1>2, <1>8, LoneJoined DEF LockInv
  <2>3. /\ Has(sharedQueue', Claims) <=> Has(sharedQueue, Claims) \/ Has(cs, Claims)
        /\ Has(sharedQueue', ModeAsked) <=> Has(sharedQueue, ModeAsked) \/ Has(cs, ModeAsked)
    BY <1>2, <1>8, HasJoined
  <2> QED
    BY <1>8, <2>1, <2>2, <2>3
<1>10. Locked => Locked'
  BY <1>6, ShowsPending, ShowsPendingNext DEF Locked, hudVars
<1>11. PICK o \in Owners : HeldBy(o) /\ (o # "nobody" => opened /\ Locked)
  BY DEF LockInv
<1>12. EngineWrites' = EngineWrites /\ hideAnimations' = hideAnimations
  BY <1>1 DEF EngineWrites, hudVars
<1>13. HeldBy(o)'
  BY <1>1, <1>6, <1>9, <1>11, <1>12 DEF HeldBy
<1>14. LockInv'
  BY <1>7, <1>9, <1>10, <1>11, <1>12, <1>13 DEF LockInv
<1>15. ModeInv'
  BY <1>1, <1>9 DEF ModeInv
<1> QED
  BY <1>14, <1>15

\* A block of the overlay runs.
LEMMA LockHud ==
  ASSUME DatabaseInv, ModeInv, LockInv, HudBlock, UNCHANGED opened
  PROVE  ModeInv' /\ LockInv'
<1> DEFINE x == Head(mainQueue)
           q == Tail(mainQueue)
<1>1. /\ mainQueue # <<>> /\ mainQueue' = q \o <<>> /\ x.kind = "task"
      /\ UNCHANGED <<view, allWrites, sharedQueue, toServer, toClient, db>>
  BY DEF HudBlock, Running, Client!FireEvent, farVars, serverVars
<1>2. mainQueue \in Seq(Client!Block)
  BY LockTypes
<1>3. /\ q \in Seq(Client!Block) /\ x \in Client!Block
      /\ Lone(q, Hiding) /\ (x \in Hiding => ~Has(q, Hiding))
      /\ Has(mainQueue, Hiding) <=> Has(q, Hiding) \/ x \in Hiding
      /\ Has(mainQueue, ShowBlocks) <=> Has(q, ShowBlocks) \/ x \in ShowBlocks
  BY <1>1, <1>2, Shortened, LoneShortened, HasShortened DEF LockInv
<1>4. mainQueue' = q
  BY <1>1, <1>3, ConcatEmptySeq
<1>5. x.task \in {"show", "hide"}
  BY <1>1, <1>3, LockNames DEF Client!Block
<1>6. EngineWrites' = EngineWrites
  BY <1>1 DEF EngineWrites
<1>7. PICK o \in Owners : HeldBy(o) /\ (o # "nobody" => opened /\ Locked)
  BY DEF LockInv
<1>8. ModeInv'
  BY <1>1 DEF ModeInv
<1>9. CASE x.task = "show"
  <2>1. viewBackground' = TRUE /\ hideAnimations' = hideAnimations
    BY <1>1, <1>9 DEF HudBlock, HudSetup
  <2> HIDE DEF x, q
  <2>2. HeldBy(o)'
    BY <1>1, <1>3, <1>4, <1>6, <1>7, <2>1 DEF HeldBy
  <2> QED
    BY <1>1, <1>3, <1>4, <1>6, <1>7, <1>8, <2>1, <2>2 DEF LockInv, Locked
<1>10. CASE x.task = "hide"
  <2>1. /\ hideAnimations' = IF alpha = 1 THEN hideAnimations + 1 ELSE hideAnimations
        /\ viewBackground' = viewBackground
    BY <1>1, <1>10 DEF HudBlock, HudHide
  <2>2. x \in Hiding /\ x \notin ShowBlocks
    BY <1>1, <1>3, <1>10 DEF Hiding, Hides, ShowBlocks, Client!TaskBlock
  <2> HIDE DEF x, q
  <2>3. /\ ~Has(mainQueue', Hiding) /\ Lone(mainQueue', Hiding)
        /\ Has(mainQueue', ShowBlocks) <=> Has(mainQueue, ShowBlocks)
    BY <1>3, <1>4, <2>2
  <2>4. o = "block" /\ hideAnimations = 0
    BY <1>3, <1>7, <2>2 DEF HeldBy
  <2>5. hideAnimations' \in {0, 1}
    BY <2>1, <2>4
  <2>6. Locked'
    BY <1>7, <2>1, <2>3, <2>4, ShowsPending, ShowsPendingNext DEF Locked
  <2>7. HeldBy("fading")'
    BY <1>1, <1>6, <1>7, <2>3, <2>4 DEF HeldBy
  <2> QED
    BY <1>1, <1>6, <1>7, <1>8, <2>3, <2>4, <2>5, <2>6, <2>7 DEF LockInv, Owners
<1> QED
  BY <1>5, <1>9, <1>10

\* The overlay has faded: nobody has the lock.
LEMMA LockFaded ==
  ASSUME ModeInv, LockInv, HudHidden, UNCHANGED serviceVars, UNCHANGED opened
  PROVE  ModeInv' /\ LockInv'
<1>1. UNCHANGED <<view, allWrites, mainQueue, sharedQueue, toServer, toClient, db>>
  BY DEF serviceVars, clientVars, serverVars
<1>2. PICK o \in Owners : HeldBy(o) /\ (o # "nobody" => opened /\ Locked)
  BY DEF LockInv
<1>3. hideAnimations' = 0 /\ hideAnimations # 0
  BY DEF HudHidden, LockInv
<1>4. o = "fading" /\ EngineWrites' = EngineWrites
  BY <1>1, <1>2, <1>3 DEF HeldBy, EngineWrites
<1>5. HeldBy("nobody")'
  BY <1>1, <1>2, <1>3, <1>4 DEF HeldBy
<1>6. LockInv'
  BY <1>1, <1>3, <1>4, <1>5 DEF LockInv, Owners
<1>7. ModeInv'
  BY <1>1 DEF ModeInv
<1> QED
  BY <1>6, <1>7

LEMMA LockUntouched ==
  ASSUME ModeInv, LockInv, UNCHANGED <<serviceVars, hudVars, opened>>
  PROVE  ModeInv' /\ LockInv'
<1>1. UNCHANGED <<view, allWrites, mainQueue, sharedQueue, toServer, toClient, db>>
  BY DEF serviceVars, clientVars, serverVars
<1>2. LockInv'
  BY <1>1, LockElsewhere
<1>3. ModeInv'
  BY <1>1 DEF ModeInv
<1> QED
  BY <1>2, <1>3

\* The screen asks for the overlay, and so for the lock, which nobody has.
LEMMA LockAsks ==
  ASSUME DatabaseInv, ModeInv, LockInv, NEW cs \in Seq(LockCalls), Asks(cs), Lone(cs, Claims),
         opened' = TRUE, ~opened \/ ~Locked, Has(cs, ModeAsked) => ~opened
  PROVE  ModeInv' /\ LockInv'
<1> DEFINE b == Client!TaskBlock("show")
<1>1. /\ mainQueue' = Append(mainQueue, b) /\ sharedQueue' = sharedQueue \o cs
      /\ UNCHANGED <<view, allWrites, toServer, toClient, db>> /\ hideAnimations' = hideAnimations
  BY DEF Asks, Client!Dispatch, farVars, serverVars, hudVars
<1>2. mainQueue \in Seq(Client!Block) /\ sharedQueue \in Seq(LockCalls)
  BY LockTypes
<1>3. b \in Client!Block /\ b \notin Hiding /\ b \in ShowBlocks
  BY TasksHide DEF ShowBlocks
<1> HIDE DEF b
<1>4. mainQueue' = mainQueue \o <<b>> /\ <<b>> \in Seq(Client!Block)
  BY <1>1, <1>2, <1>3, AppendIsConcat
<1>5. /\ Has(mainQueue', Hiding) <=> Has(mainQueue, Hiding)
      /\ Has(mainQueue', ShowBlocks)
      /\ Lone(mainQueue', Hiding)
  <2>1. /\ Has(mainQueue', Hiding) <=> Has(mainQueue, Hiding) \/ Has(<<b>>, Hiding)
        /\ Has(mainQueue', ShowBlocks) <=> Has(mainQueue, ShowBlocks) \/ Has(<<b>>, ShowBlocks)
    BY <1>2, <1>4, HasJoined
  <2>2. ~Has(<<b>>, Hiding) /\ Has(<<b>>, ShowBlocks) /\ Lone(<<b>>, Hiding)
    BY <1>3, HasOne, LoneFew
  <2>3. Lone(mainQueue', Hiding)
    BY <1>2, <1>4, <2>2, LoneJoined DEF LockInv
  <2> QED
    BY <2>1, <2>2, <2>3
<1>6. Locked'
  BY <1>5, ShowsPendingNext DEF Locked
<1>7. PICK o \in Owners : HeldBy(o) /\ (o # "nobody" => opened /\ Locked)
  BY DEF LockInv
<1>8. o = "nobody" /\ ~Has(sharedQueue, Claims)
  BY <1>7 DEF HeldBy
<1>9. sharedQueue' \in Seq(LockCalls) /\ Lone(sharedQueue', Claims)
  <2>1. Lone(sharedQueue', Claims)
    BY <1>1, <1>2, <1>8, LoneJoined DEF LockInv
  <2> QED
    BY <1>1, <1>2, <2>1
<1>10. Has(sharedQueue', ModeAsked) <=> Has(sharedQueue, ModeAsked) \/ Has(cs, ModeAsked)
  BY <1>1, <1>2, HasJoined
<1>11. EngineWrites' = EngineWrites
  BY <1>1 DEF EngineWrites
<1>12. HeldBy("call")'
  BY <1>1, <1>5, <1>7, <1>8, <1>11 DEF HeldBy
<1>13. LockInv'
  BY <1>1, <1>5, <1>6, <1>9, <1>11, <1>12 DEF LockInv, Owners
<1>14. ModeInv'
  BY <1>1, <1>9, <1>10 DEF ModeInv
<1> QED
  BY <1>13, <1>14

\* A switch makes one claim.
LEMMA SwitchClaims ==
  ASSUME NEW old, NEW new \in SUBSET Rows
  PROVE  LET cs == SwitchCalls(old, new)
         IN cs \in Seq(LockCalls) /\ Lone(cs, Claims) /\ ~Has(cs, ModeAsked)
<1> DEFINE T == "TINHIEUDONGCO"
           a == SetCall("pumpSpeed", One)
           b == SetCall(T, new)
           s == IF Pump \in new \ old THEN <<a>> ELSE <<>>
           t == <<b>>
           u == SwitchCalls(old, new)
<1>1. {"pumpSpeed", T} \subseteq Paths /\ One \in Values /\ new \in Values
  BY ConfigScreenAssumption DEF EngineStates
<1>2. a \in LockCalls /\ a \notin Claims /\ a \notin ModeAsked
  BY <1>1 DEF SetCall, Calls, LockCalls, Claims, ModeAsked, IsSet, IsObserve
<1>3. b \in LockCalls /\ b \notin ModeAsked
  BY <1>1 DEF SetCall, Calls, LockCalls, ModeAsked, IsObserve
<1>4. u = s \o t
  BY DEF SwitchCalls, SetCall
<1> HIDE DEF a, b, u
<1>5. t \in Seq(LockCalls) /\ Lone(t, Claims) /\ ~Has(t, ModeAsked)
  BY <1>3, LoneFew, HasOne
<1>6. s \in Seq(LockCalls) /\ Lone(s, Claims) /\ ~Has(s, ModeAsked) /\ ~Has(s, Claims)
  <2>1. /\ <<a>> \in Seq(LockCalls) /\ Lone(<<a>>, Claims)
        /\ ~Has(<<a>>, ModeAsked) /\ ~Has(<<a>>, Claims)
    BY <1>2, LoneFew, HasOne
  <2>2. /\ <<>> \in Seq(LockCalls) /\ Lone(<<>>, Claims)
        /\ ~Has(<<>>, ModeAsked) /\ ~Has(<<>>, Claims)
    BY EmptySeq, LoneFew
  <2> QED
    BY <2>1, <2>2
<1> HIDE DEF s, t
<1>7. u \in Seq(LockCalls)
  BY <1>4, <1>5, <1>6
<1>8. Lone(u, Claims)
  BY <1>4, <1>5, <1>6, LoneJoined
<1>9. ~Has(u, ModeAsked)
  BY <1>4, <1>5, <1>6, HasJoined
<1> QED
  BY <1>7, <1>8, <1>9 DEF u

LEMMA LockOwn ==
  ASSUME OneAtATime, DatabaseInv, ControlInv, ModeInv, LockInv,
         LoadControl \/ ControlCallback \/ \E r \in Rows : Tap(r)
  PROVE  ModeInv' /\ LockInv'
<1>1. DatabaseInv /\ {"mode", "engine"} \subseteq Handlers
  BY LockNames
<1>2. HideBlock # <<>> /\ <<>> \in {<<>>, HideBlock} /\ HideBlock \in {<<>>, HideBlock}
  BY EmptySeq DEF HideBlock
<1>3. mainQueue \in Seq(Client!Block) /\ sharedQueue \in Seq(LockCalls)
  BY LockTypes
<1>4. CASE LoadControl
  <2> DEFINE c == ObserveCall("mode")
  <2>1. Asks(<<c>>) /\ opened' = TRUE
    BY <1>1, <1>4, ControlDoes
  <2>2. ~opened
    BY <1>4 DEF LoadControl
  <2>3. c \in LockCalls
    BY LockNames DEF ObserveCall, LockCalls, Calls
  <2> HIDE DEF c
  <2>4. <<c>> \in Seq(LockCalls) /\ Lone(<<c>>, Claims)
    BY <2>3, LoneFew
  <2> QED
    BY <2>1, <2>2, <2>4, LockAsks
<1>5. ASSUME NEW r \in Rows, Tap(r)
      PROVE  ModeInv' /\ LockInv'
  <2> DEFINE cs == SwitchCalls(engineStates, engineStates')
  <2>1. /\ opened /\ Touchable("control") /\ (QuickTaps \/ ~ShowPending) /\ Asks(cs)
        /\ engineStates' \in {engineStates \cup {r}, engineStates \ {r}} /\ opened' = opened
    BY <1>1, <1>5, ControlDoes
  <2>2. engineStates' \in SUBSET Rows
    BY <2>1 DEF ControlInv, ControlTypeOK
  <2>3. cs \in Seq(LockCalls) /\ Lone(cs, Claims) /\ ~Has(cs, ModeAsked)
    BY <2>2, SwitchClaims
  <2>4. ~Locked /\ opened' = TRUE
    BY <2>1 DEF OneAtATime, Touchable, Locked, ControlInv, ControlTypeOK
  <2> HIDE DEF cs
  <2> QED
    BY <2>1, <2>3, <2>4, LockAsks
<1>6. CASE ControlCallback
  <2>1. PICK cs \in {<<>>, <<ObserveCall("engine")>>}, ts \in {<<>>, HideBlock} :
          \/ Called("mode", cs, ts) /\ opened' = opened
          \/ Called("engine", cs, ts) /\ ts = <<>> /\ opened' = opened
          \/ Completed("TINHIEUDONGCO", cs, ts) /\ opened' = opened
          \/ Completed("pumpSpeed", cs, ts) /\ ts = <<>> /\ opened' = opened
    <3>1. CASE ModeEvent
      BY <1>1, <1>2, <3>1, ControlDoes
    <3>2. CASE EngineEvent
      BY <1>1, <1>2, <3>2, ControlDoes
    <3>3. CASE EngineWritten
      BY <1>1, <1>2, <3>3, ControlDoes DEF controlVars
    <3>4. CASE SpeedWritten
      BY <1>1, <1>2, <3>4, ControlDoes DEF controlVars
    <3> QED
      BY <1>6, <3>1, <3>2, <3>3, <3>4 DEF ControlCallback
  <2>2. /\ Client!FireEvent(ts) /\ sharedQueue' = sharedQueue \o cs
        /\ UNCHANGED <<farVars, hudVars, opened>>
    BY <2>1 DEF Called, Completed
  <2>3. mainQueue # <<>> /\ Head(mainQueue) \in Client!Block
    BY <1>3, <2>2, Shortened DEF Client!FireEvent
  <2>4. Head(mainQueue).kind # "task"
    BY <2>1 DEF Called, Completed, RunningHandler, RunningDone, Running
  <2>5. ts # <<>> => Head(mainQueue) \in Hiding
    BY <2>1, <2>3 DEF Called, Completed, RunningHandler, RunningDone, Running, Hiding, Hides
  <2> QED
    BY <2>2, <2>4, <2>5, LockFired
<1> QED
  BY <1>4, <1>5, <1>6

LEMMA LockStep ==
  ASSUME OneAtATime, ControlHolds, ModeInv, LockInv, [ControlScreenNext]_controlScreenVars
  PROVE  ModeInv' /\ LockInv'
<1> DEFINE Own == LoadControl \/ ControlCallback \/ \E r \in Rows : Tap(r)
<1>1. CASE Own
  BY <1>1, LockOwn DEF ControlHolds
<1>2. CASE Shared /\ UNCHANGED controlVars
  <2>1. opened' = opened /\ DatabaseInv
    BY <1>2 DEF controlVars, ControlHolds
  <2>2. CASE ServiceNext /\ UNCHANGED hudVars
    BY <2>1, <2>2, LockBelow
  <2>3. CASE HudBlock
    BY <2>1, <2>3, LockHud
  <2>4. CASE UNCHANGED serviceVars /\ HudHidden
    BY <2>1, <2>4, LockFaded
  <2>5. CASE UNCHANGED serviceVars /\ UNCHANGED hudVars
    BY <2>1, <2>5, LockUntouched
  <2> QED
    BY <1>2, <2>2, <2>3, <2>4, <2>5 DEF Shared
<1>3. Own \/ (Shared /\ UNCHANGED controlVars)
  BY SharedParts DEF ControlScreenNext, controlScreenVars, ControlViewDidLoad,
    ControlMainThread, Shared
<1> QED
  BY <1>1, <1>2, <1>3

LEMMA LockStarts ==
  ASSUME ControlScreenInit
  PROVE  ModeInv /\ LockInv
<1>1. /\ sharedQueue = <<>> /\ toServer = <<>> /\ toClient = <<>> /\ mainQueue = <<>>
      /\ allWrites = {} /\ db = InitialDb /\ view = [p \in Paths |-> Client!NoView]
      /\ hideAnimations = 0 /\ opened = FALSE
  BY DEF ControlScreenInit, ServiceInit, Client!Init, HudInit, ControlInit
<1>2. \A S : Lone(<<>>, S) /\ ~Has(<<>>, S)
  BY LoneFew
<1>3. view["CHEDO"] = Client!NoView /\ Client!NoView # Waiting
  <2>1. <<"mode">> # <<>>
    OBVIOUS
  <2>2. Waiting.regs = <<"mode">> /\ Client!NoView.regs = <<>>
    BY DEF Waiting, Client!NoView
  <2> QED
    BY <1>1, <2>1, <2>2, LockNames
<1>4. Led(<<>>, ModeTold, ModeData)
  BY EmptySeq DEF Led
<1>5. ModeInv
  BY <1>1, <1>2, <1>3, <1>4 DEF ModeInv
<1>6. EngineWrites = {}
  BY <1>1 DEF EngineWrites
<1>7. HeldBy("nobody")
  BY <1>1, <1>2, <1>3, <1>6 DEF HeldBy
<1>8. LockInv
  BY <1>1, <1>2, <1>6, <1>7 DEF LockInv, Owners
<1> QED
  BY <1>5, <1>8

LEMMA LockShows ==
  ASSUME DatabaseInv, LockInv
  PROVE  OverlayLocks
<1> DEFINE T == "TINHIEUDONGCO"
           writes == {w \in allWrites : w.path = T}
           calls == {i \in 1..Len(sharedQueue) : sharedQueue[i].call = "set" /\ sharedQueue[i].path = T}
<1>1. PICK o \in Owners : HeldBy(o) /\ (o # "nobody" => opened /\ Locked)
  BY DEF LockInv
<1>2. writes = EngineWrites
  BY DEF EngineWrites
<1>3. \A i \in calls : i \in 1..Len(sharedQueue) /\ sharedQueue[i] \in Claims
  <2>1. sharedQueue \in Seq(Calls)
    BY DatabaseTypes
  <2> QED
    BY <2>1 DEF Claims, IsSet
<1>4. \A i, j \in calls : i = j
  BY <1>3 DEF LockInv, Lone
<1>5. calls # {} => o = "call"
  BY <1>1, <1>3 DEF HeldBy, Has
<1>6. writes # {} => o = "write"
  BY <1>1, <1>2 DEF HeldBy
<1>7. \A w, x \in writes : w = x
  BY <1>2 DEF LockInv
<1> HIDE DEF writes, calls
<1>8. writes = {} \/ calls = {}
  BY <1>5, <1>6
<1>9. writes # {} \/ calls # {} => viewBackground \/ ShowPending
  BY <1>1, <1>5, <1>6 DEF Locked
<1> QED
  BY <1>4, <1>7, <1>8, <1>9 DEF OverlayLocks, writes, calls

\* The overlay that displayIndicator puts up on each touch is the lock of
\* handleSwitchChanged's read-modify-write of the engines' string: at most one
\* write of it is outstanding, and the overlay is up or about to be until that
\* one is answered, as long as nobody changes the mode, whose callback takes
\* the overlay down too, and a second tap waits for the overlay to come up.
THEOREM ControlLocks ==
  ASSUME OneAtATime
  PROVE  ControlScreenSpec => []OverlayLocks
<1> DEFINE I == ControlHolds /\ ModeInv /\ LockInv
<1>1. ControlScreenInit => I
  BY ControlStarts, LockStarts
<1>2. I /\ [ControlScreenNext]_controlScreenVars => I'
  BY ControlStep, LockStep
<1>3. I => OverlayLocks
  BY LockShows DEF ControlHolds
<1> QED
  BY <1>1, <1>2, <1>3, PTL DEF ControlScreenSpec

=============================================================================
