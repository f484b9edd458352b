------------------------------ MODULE SyncTree ------------------------------
(***************************************************************************)
(* The part of the Firebase client the app's screens talk to: FRepo,       *)
(* FSyncTree, FView, FViewProcessor and FWriteTree.  A path is a leaf      *)
(* string of the database ("CHEDO", "TINHIEUDONGCO", ...).  A view keeps   *)
(* what the server last said about the path and what the observers are to  *)
(* see: the server's value overlaid by the newest local write that the     *)
(* server has not answered.  Every action below is one block of the        *)
(* client's serial queue; the events it raises are appended to the main    *)
(* queue, where FireEvent runs them one by one.                            *)
(***************************************************************************)
EXTENDS Integers, Sequences

CONSTANTS
  Paths,      \* the observed and written leaves of the database
  Values,     \* the values a leaf may have
  Null,       \* the value of a leaf that is missing (FEmptyNode)
  NoWrite,    \* no value at all: no local write, nothing shown yet
  Handlers,   \* the app's observe(.value) callbacks
  Tasks,      \* the blocks the app itself dispatches to the main queue
  PathOf,     \* the path each of them observes
  InOrder,    \* does the server answer the writes of a path in order?
  MaxWrites,  \* bound: calls of setValue
  MaxRegs,    \* bound: registrations of one path
  MaxQueue    \* bound: blocks waiting on the main queue

ASSUME SyncTreeAssumption ==
  /\ Null \in Values
  /\ NoWrite \notin Values
  /\ PathOf \in [Handlers -> Paths]
  /\ InOrder \in BOOLEAN
  /\ MaxWrites \in Nat /\ MaxRegs \in Nat /\ MaxQueue \in Nat

VARIABLES
  writeIdCounter,  \* FRepo.writeIdCounter
  allWrites,       \* FWriteTree.allWrites, ordered by id
  visibleWrites,   \* FWriteTree.visibleWrites at each path, NoWrite if none
  lastWriteId,     \* FWriteTree.lastWriteId
  view,            \* the FView of each path, NoView where there is none
  mainQueue,       \* the blocks dispatched to the main queue
  shown            \* the value each handler was last called with

vars == <<writeIdCounter, allWrites, visibleWrites, lastWriteId, view,
          mainQueue, shown>>

Write == [id : Nat, path : Paths, val : Values]

View == [regs : Seq(Handlers), server : Values, serverFull : BOOLEAN,
         event : Values, eventFull : BOOLEAN]

ValueBlock(h, v) == [kind |-> "value", handler |-> h, val |-> v]
DoneBlock(w, ok) == [kind |-> "done", write |-> w, ok |-> ok]
TaskBlock(t) == [kind |-> "task", task |-> t]

Block == [kind : {"value"}, handler : Handlers, val : Values]
           \cup [kind : {"done"}, write : Write, ok : BOOLEAN]
           \cup [kind : {"task"}, task : Tasks]

NoView == [regs |-> <<>>, server |-> Null, serverFull |-> FALSE,
           event |-> Null, eventFull |-> FALSE]

Observed(v) == v.regs # <<>>

Init ==
  /\ writeIdCounter = 0
  /\ allWrites = {}
  /\ visibleWrites = [p \in Paths |-> NoWrite]
  /\ lastWriteId = -1
  /\ view = [p \in Paths |-> NoView]
  /\ mainQueue = <<>>
  /\ shown = [h \in Handlers |-> NoWrite]

-----------------------------------------------------------------------------
(* FViewProcessor: the next state of one view.  shadow is the visible      *)
(* write at the path, NoWrite if there is none.                            *)

\* applyUserOverwriteTo: the write is what the observers see.
UserOverwrite(v, val) ==
  IF Observed(v) THEN [v EXCEPT !.event = val, !.eventFull = TRUE] ELSE v

\* Mutant: the server's value covers the local write.
ServerOverwriteOnTop(v, val, shadow) ==
  IF ~Observed(v) THEN v
  ELSE [v EXCEPT !.server = val, !.serverFull = TRUE,
                 !.event = val, !.eventFull = TRUE]

\* applyServerOverwriteTo and generateEventCacheAfterServerEvent.
ServerOverwrite(v, val, shadow) ==
  IF ~Observed(v) THEN v
  ELSE IF shadow # NoWrite THEN [v EXCEPT !.server = val, !.serverFull = TRUE]
  ELSE [v EXCEPT !.server = val, !.serverFull = TRUE,
                 !.event = val, !.eventFull = TRUE]

\* ackUserWriteOn: re-apply the server's value, unless a write shadows it or
\* the server has said nothing yet.
AckWrite(v, shadow) ==
  IF shadow # NoWrite \/ ~v.serverFull THEN v
  ELSE ServerOverwrite(v, v.server, shadow)

\* Mutant: a refusal throws away what the server said.
RevertToNothing(v, shadow) ==
  IF shadow # NoWrite \/ ~Observed(v) THEN v ELSE [NoView EXCEPT !.regs = v.regs]

\* Mutant: a refusal leaves the view alone.
RevertNothing(v, shadow) == v

\* revertUserWriteOn: back to the server's value, if there is one.
RevertWrite(v, shadow) ==
  IF shadow # NoWrite \/ ~Observed(v) THEN v
  ELSE [v EXCEPT !.event = IF v.serverFull THEN v.server ELSE Null,
                 !.eventFull = v.serverFull]

\* Mutant: becoming complete is not a change.
ValueEventsOnNewValue(old, new) ==
  IF new.eventFull /\ new.event # old.event
  THEN [i \in 1..Len(new.regs) |-> ValueBlock(new.regs[i], new.event)]
  ELSE <<>>

\* maybeAddValueFromOldViewCache: one value event per registration, only if
\* the value is complete and differs from what it was.
ValueEvents(old, new) ==
  IF new.eventFull /\ (~old.eventFull \/ new.event # old.event)
  THEN [i \in 1..Len(new.regs) |-> ValueBlock(new.regs[i], new.event)]
  ELSE <<>>

-----------------------------------------------------------------------------
(* FSyncTree, as FRepo calls it on the client's serial queue.              *)

\* FRepo set: number the write, record it, show it to the observers.
ApplyUserOverwrite(p, val) ==
  LET new == UserOverwrite(view[p], val)
  IN /\ writeIdCounter' = writeIdCounter + 1
     /\ allWrites' = allWrites
                       \cup {[id |-> writeIdCounter, path |-> p, val |-> val]}
     /\ visibleWrites' = [visibleWrites EXCEPT ![p] = val]
     /\ lastWriteId' = writeIdCounter
     /\ view' = [view EXCEPT ![p] = new]
     /\ mainQueue' = mainQueue \o ValueEvents(view[p], new)
     /\ UNCHANGED shown

\* FRepo onDataUpdate: the server's new value of a path.
ApplyServerOverwrite(p, val) ==
  LET new == ServerOverwrite(view[p], val, visibleWrites[p])
  IN /\ view' = [view EXCEPT ![p] = new]
     /\ mainQueue' = mainQueue \o ValueEvents(view[p], new)
     /\ UNCHANGED <<writeIdCounter, allWrites, visibleWrites, lastWriteId,
                    shown>>

\* The server accepted the listen: what it has sent so far is complete.
ApplyListenComplete(p) == ApplyServerOverwrite(p, view[p].server)

\* The server refused the listen: every registration of the path is removed.
\* The app passes no cancel callback, so no block is dispatched.
ListenRefused(p) ==
  /\ view' = [view EXCEPT ![p] = NoView]
  /\ UNCHANGED <<writeIdCounter, allWrites, visibleWrites, lastWriteId,
                 mainQueue, shown>>

NewestWrite(ws, p) ==
  CHOOSE w \in ws : w.path = p /\ \A x \in ws : x.path = p => x.id <= w.id

\* Mutant: the first of the writes that are left, not the last.
FirstId(ws) ==
  IF ws = {} THEN -1 ELSE (CHOOSE w \in ws : \A x \in ws : w.id <= x.id).id

LastId(ws) ==
  IF ws = {} THEN -1 ELSE (CHOOSE w \in ws : \A x \in ws : x.id <= w.id).id

\* layerTreeFromWrites: the visible value of a path, from its writes.
Layer(ws, p) ==
  IF \E w \in ws : w.path = p THEN NewestWrite(ws, p).val ELSE NoWrite

\* removeWriteId: does a later write of the same path hide write w?
Hidden(w, rest) == \E x \in rest : x.path = w.path /\ x.id > w.id

\* removeWriteId: does an earlier write of the same path come to light?
Overlaps(w, rest) == \E x \in rest : x.path = w.path /\ x.id < w.id

\* Mutant: nothing is rebuilt.
GoneWithout(w, rest) ==
  IF Hidden(w, rest) THEN visibleWrites[w.path] ELSE NoWrite

\* The visible value of w's path once w is removed: unchanged if w was
\* hidden; rebuilt from the writes that are left if they overlap w (resetTree);
\* otherwise gone.
VisibleWithout(w, rest) ==
  IF Hidden(w, rest) THEN visibleWrites[w.path]
  ELSE IF Overlaps(w, rest) THEN Layer(rest, w.path)
  ELSE NoWrite

\* FRepo ackWrite and callOnComplete: the server answered write w.  The views
\* are re-evaluated only if the write may have been visible; the completion
\* block is dispatched after the events.
AckUserWrite(w, ok) ==
  LET rest   == allWrites \ {w}
      shadow == VisibleWithout(w, rest)
      old    == view[w.path]
      new    == IF Hidden(w, rest) THEN old
                ELSE IF ok THEN AckWrite(old, shadow)
                ELSE RevertWrite(old, shadow)
  IN /\ allWrites' = rest
     /\ visibleWrites' = [visibleWrites EXCEPT ![w.path] = shadow]
     /\ lastWriteId' = IF ~Hidden(w, rest) /\ Overlaps(w, rest)
                       THEN LastId(rest) ELSE lastWriteId
     /\ view' = [view EXCEPT ![w.path] = new]
     /\ mainQueue' = mainQueue \o ValueEvents(old, new)
                               \o <<DoneBlock(w, ok)>>
     /\ UNCHANGED <<writeIdCounter, shown>>

\* Mutant: every new view starts from a visible write.
FreshViewOfWrite(p) == [NoView EXCEPT !.event = visibleWrites[p],
                                      !.eventFull = TRUE]

\* A view that did not exist starts from the visible write, if there is one.
\* The persistence cache is off, so nothing is known of the server's value.
FreshView(p) ==
  IF visibleWrites[p] = NoWrite THEN NoView
  ELSE [NoView EXCEPT !.event = visibleWrites[p], !.eventFull = TRUE]

\* FRepo addEventRegistration: register the handler and, if the value is
\* known, dispatch the initial event to it.
AddEventRegistration(h) ==
  LET p   == PathOf[h]
      old == IF Observed(view[p]) THEN view[p] ELSE FreshView(p)
  IN /\ view' = [view EXCEPT ![p] = [old EXCEPT !.regs = Append(old.regs, h)]]
     /\ mainQueue' = IF old.eventFull
                     THEN Append(mainQueue, ValueBlock(h, old.event))
                     ELSE mainQueue
     /\ UNCHANGED <<writeIdCounter, allWrites, visibleWrites, lastWriteId,
                    shown>>

\* The app's code, on the main thread, dispatches a block of its own.
Dispatch(t) ==
  /\ mainQueue' = Append(mainQueue, TaskBlock(t))
  /\ UNCHANGED <<writeIdCounter, allWrites, visibleWrites, lastWriteId, view,
                 shown>>

\* What a callback of the app may dispatch while it runs: at most one block.
TaskLists == {<<>>} \cup {<<TaskBlock(t)>> : t \in Tasks}

\* The main queue runs its first block, which dispatches ts.
FireEvent(ts) ==
  /\ mainQueue # <<>>
  /\ mainQueue' = Tail(mainQueue) \o ts
  /\ shown' = IF Head(mainQueue).kind = "value"
              THEN [shown EXCEPT ![Head(mainQueue).handler] =
                                   Head(mainQueue).val]
              ELSE shown
  /\ UNCHANGED <<writeIdCounter, allWrites, visibleWrites, lastWriteId, view>>

-----------------------------------------------------------------------------
(* The client against any server.  Data may come at any time; the writes   *)
(* of a path are answered in order if InOrder, in any order if not.        *)

Room == Len(mainQueue) < MaxQueue

Set(p, val) == Room /\ writeIdCounter < MaxWrites /\ ApplyUserOverwrite(p, val)
ServerData(p, val) == Room /\ ApplyServerOverwrite(p, val)
ListenAccepted(p) == Room /\ Observed(view[p]) /\ ApplyListenComplete(p)
Refuse(p) == Observed(view[p]) /\ ListenRefused(p)
Answer(w, ok) ==
  /\ Room
  /\ InOrder => \A x \in allWrites : x.path = w.path => w.id <= x.id
  /\ AckUserWrite(w, ok)
Observe(h) == /\ Room /\ Len(view[PathOf[h]].regs) < MaxRegs
              /\ AddEventRegistration(h)

Next ==
  \/ \E p \in Paths, val \in Values : Set(p, val) \/ ServerData(p, val)
  \/ \E p \in Paths : ListenAccepted(p) \/ Refuse(p)
  \/ \E w \in allWrites, ok \in BOOLEAN : Answer(w, ok)
  \/ \E h \in Handlers : Observe(h)
  \/ \E t \in Tasks : Room /\ Dispatch(t)
  \/ \E ts \in TaskLists : FireEvent(ts)

Spec == Init /\ [][Next]_vars

-----------------------------------------------------------------------------
TypeOK ==
  /\ writeIdCounter \in Nat
  /\ allWrites \in SUBSET Write
  /\ visibleWrites \in [Paths -> Values \cup {NoWrite}]
  /\ lastWriteId \in Nat \cup {-1}
  /\ view \in [Paths -> View]
  /\ mainQueue \in Seq(Block)
  /\ shown \in [Handlers -> Values \cup {NoWrite}]

\* Write ids are handed out in order and never reused while a write is
\* pending, also after resetTree has moved lastWriteId back: the assertion
\* "Stacking an older write on top of a newer one" cannot fail.
WritesStack ==
  /\ lastWriteId < writeIdCounter
  /\ \A w \in allWrites : w.id <= lastWriteId
  /\ \A w, x \in allWrites : w.id = x.id => w = x

\* The tree of visible writes, which is updated step by step, is at every
\* moment what layering all the pending writes afresh would give.
VisibleIsLayered == \A p \in Paths : visibleWrites[p] = Layer(allWrites, p)

\* What an observed view shows is the newest unanswered local write, or else
\* what the server said: no answer and no data message leaves the screen on a
\* value that is neither.  The client relies on the server's order for this:
\* revertUserWriteOn leaves a view alone while any write shadows it, so the
\* refusal of a newer write before an older one would stay on the screen.
ViewIsOverlay ==
  \A p \in Paths :
    InOrder /\ Observed(view[p]) =>
      /\ visibleWrites[p] # NoWrite =>
           view[p].eventFull /\ view[p].event = visibleWrites[p]
      /\ visibleWrites[p] = NoWrite /\ view[p].serverFull =>
           view[p].eventFull /\ view[p].event = view[p].server

PendingEvents(h) ==
  {i \in 1..Len(mainQueue) :
     mainQueue[i].kind = "value" /\ mainQueue[i].handler = h}

\* The value handler h has been called with once its events have been run.
WillShow(h, val) ==
  \/ PendingEvents(h) = {} /\ shown[h] = val
  \/ \E i \in PendingEvents(h) :
       /\ \A j \in PendingEvents(h) : j <= i
       /\ mainQueue[i].val = val

\* The code raises a value event only when it believes the value changed.  No
\* registered handler is ever left behind: the last event dispatched to it,
\* or the last one it ran, is the view's present value.
ObserversCurrent ==
  \A h \in Handlers :
    LET v == view[PathOf[h]]
    IN (\E i \in 1..Len(v.regs) : v.regs[i] = h) /\ v.eventFull
         => WillShow(h, v.event)

\* A view that has the server's value keeps having one as long as it lives
\* (the assertion "Once a server snap is complete, it should never go back").
ServerSnapStays ==
  [][\A p \in Paths : view[p].serverFull /\ Observed(view'[p])
                        => view'[p].serverFull]_vars
=============================================================================
