--------------------------- MODULE ServiceProofs ---------------------------
(***************************************************************************)
(* What every screen may rely on, for any number of paths, values,         *)
(* handlers, calls and writes of others: the inductive invariant of the    *)
(* database client, its connection and the server, under an app that makes *)
(* calls and runs the blocks of the main queue as it likes; and what a     *)
(* step of theirs may do to what the screens see.                          *)
(***************************************************************************)
EXTENDS RealtimeDatabase, ChannelProofs

ClientP == INSTANCE SyncTreeProofs WITH InOrder <- TRUE

\* The numbers of the writes whose answer is held back, whose answer is on
\* its way, and that are on their way themselves.
HeldIds == IdsOf(putsToAck, "answer")
AnsweredIds == IdsOf(toClient, "answer")
SentIds == IdsOf(toServer, "put")

\* The paths of the listens on their way, of the responses to them, and of
\* the data on its way.
Asked == PathsOf(toServer, "listen")
Told == PathsOf(toClient, "listening")
Coming == PathsOf(toClient, "data")

Before(A, B) == \A i \in A, j \in B : i < j

-----------------------------------------------------------------------------
(* The inductive invariant.                                                *)

Answers == [msg : {"answer"}, id : Nat, ok : BOOLEAN]

Typed ==
  /\ sharedQueue \in Seq(Calls)
  /\ unackedListens \in Nat
  /\ putsToAck \in Seq(Answers)
  /\ toServer \in Seq(Requests)
  /\ toClient \in Seq(Messages)
  /\ listens \subseteq Paths
  /\ db \in [Paths -> Values]
  /\ remoteWrites \in 0..MaxRemote

\* The answers come in the order of the writes, those that are held back
\* first, and no pending write is without its answer or still on its way.
InTurn ==
  /\ Rising(putsToAck, "answer") /\ Rising(toClient, "answer") /\ Rising(toServer, "put")
  /\ Before(HeldIds, AnsweredIds) /\ Before(HeldIds, SentIds) /\ Before(AnsweredIds, SentIds)
  /\ \A i \in HeldIds \cup AnsweredIds \cup SentIds : i < writeIdCounter
  /\ \A w \in allWrites : w.id \in HeldIds \cup AnsweredIds \cup SentIds

\* The count of unanswered listens is what it says.
Counted == unackedListens = Count(toServer, "listen") + Count(toClient, "listening")

\* Every observed path is listened to or will be; what the server last sent
\* of it is what the database has, and the view has it when it has come; and
\* once the listen is answered the view has the server's value.
Followed ==
  /\ \A p \in Paths : Client!Observed(view[p]) <=> p \in Asked \cup listens
  /\ Told \subseteq listens /\ Coming \subseteq listens /\ Newest(toClient, db)
  /\ \A p \in listens \ Coming : view[p].serverFull /\ view[p].server = db[p]
  /\ \A p \in listens \ Told : view[p].serverFull
  /\ \A p \in Paths : ~Client!Observed(view[p]) => ~view[p].eventFull

ServiceInv == Typed /\ InTurn /\ Counted /\ Followed

DatabaseInv == ServiceInv /\ ClientP!CInv

\* What the app may do, on the main thread: make calls, and run the next block
\* of the main queue or dispatch one of its own.
AppMoves ==
  /\ \E cs \in Seq(Calls) : sharedQueue' = sharedQueue \o cs
  /\ \/ UNCHANGED clientVars
     \/ \E t \in Tasks : Client!Room /\ Client!Dispatch(t)
     \/ \E ts \in Client!TaskLists : Client!FireEvent(ts)
  /\ UNCHANGED farVars

\* Every step, of the app or of what is below it.
Moves == ServiceNext \/ AppMoves \/ UNCHANGED serviceVars

-----------------------------------------------------------------------------
(* The client's actions are those of SyncTreeProofs, whose lemmas are      *)
(* about the client by itself.                                             *)

\* The assumption of SyncTree holds of the client.
LEMMA ClientAssumption == ClientP!SyncTreeAssumption
BY RealtimeDatabaseAssumption DEF ClientP!SyncTreeAssumption

\* Two names for one client.
LEMMA SameClient ==
  /\ Client!Init <=> ClientP!Init
  /\ [Client!Next]_(Client!vars) <=> [ClientP!Next]_(ClientP!vars)
  /\ Client!TypeOK <=> ClientP!TypeOK
<1>1. Client!Init <=> ClientP!Init
  BY DEF Client!Init, ClientP!Init, Client!NoView, ClientP!NoView
<1>2. Client!TypeOK <=> ClientP!TypeOK
  BY DEF Client!TypeOK, ClientP!TypeOK, Client!Write, ClientP!Write, Client!View, ClientP!View,
         Client!Block, ClientP!Block
<1>3. [Client!Next]_(Client!vars) <=> [ClientP!Next]_(ClientP!vars)
  BY DEF Client!Next, ClientP!Next, Client!vars, ClientP!vars,
         Client!Set, ClientP!Set, Client!ServerData, ClientP!ServerData,
         Client!ListenAccepted, ClientP!ListenAccepted, Client!Refuse, ClientP!Refuse,
         Client!Answer, ClientP!Answer, Client!Observe, ClientP!Observe,
         Client!Room, ClientP!Room, Client!Dispatch, ClientP!Dispatch,
         Client!TaskLists, ClientP!TaskLists, Client!TaskBlock, ClientP!TaskBlock,
         Client!FireEvent, ClientP!FireEvent, Client!Observed, ClientP!Observed,
         Client!ApplyUserOverwrite, ClientP!ApplyUserOverwrite,
         Client!ApplyServerOverwrite, ClientP!ApplyServerOverwrite,
         Client!ApplyListenComplete, ClientP!ApplyListenComplete,
         Client!ListenRefused, ClientP!ListenRefused, Client!NoView, ClientP!NoView,
         Client!AckUserWrite, ClientP!AckUserWrite,
         Client!AddEventRegistration, ClientP!AddEventRegistration,
         Client!UserOverwrite, ClientP!UserOverwrite,
         Client!ServerOverwrite, ClientP!ServerOverwrite,
         Client!AckWrite, ClientP!AckWrite, Client!RevertWrite, ClientP!RevertWrite,
         Client!ValueEvents, ClientP!ValueEvents, Client!ValueBlock, ClientP!ValueBlock,
         Client!DoneBlock, ClientP!DoneBlock, Client!NewestWrite, ClientP!NewestWrite,
         Client!LastId, ClientP!LastId, Client!Layer, ClientP!Layer,
         Client!Hidden, ClientP!Hidden, Client!Overlaps, ClientP!Overlaps,
         Client!VisibleWithout, ClientP!VisibleWithout,
         Client!FreshView, ClientP!FreshView
<1> QED
  BY <1>1, <1>2, <1>3

-----------------------------------------------------------------------------
(* What the client's actions do to the views.                              *)

\* The view keeps its handlers and what it has of the server.
KeepsServer(old, new) ==
  new.regs = old.regs /\ new.serverFull = old.serverFull /\ new.server = old.server

\* It goes on showing something, and shows nothing if nobody looks.
KeepsShowing(old, new) ==
  /\ old.eventFull => new.eventFull
  /\ ~Client!Observed(old) => new.eventFull = old.eventFull

\* A view by itself.
LEMMA ViewDoes ==
  ASSUME NEW v \in Client!View, NEW val \in Values, NEW shadow
  PROVE  /\ KeepsServer(v, Client!UserOverwrite(v, val))
         /\ KeepsShowing(v, Client!UserOverwrite(v, val))
         /\ Client!ServerOverwrite(v, val, shadow).regs = v.regs
         /\ Client!Observed(v) => /\ Client!ServerOverwrite(v, val, shadow).serverFull
                                  /\ Client!ServerOverwrite(v, val, shadow).server = val
         /\ KeepsShowing(v, Client!ServerOverwrite(v, val, shadow))
         /\ KeepsServer(v, Client!AckWrite(v, shadow))
         /\ KeepsShowing(v, Client!AckWrite(v, shadow))
         /\ KeepsServer(v, Client!RevertWrite(v, shadow))
         /\ v.serverFull \/ ~Client!Observed(v)
              => KeepsShowing(v, Client!RevertWrite(v, shadow))
<1>1. v = [regs |-> v.regs, server |-> v.server, serverFull |-> v.serverFull,
           event |-> v.event, eventFull |-> v.eventFull] /\ v.serverFull \in BOOLEAN
  BY DEF Client!View
<1> QED
  BY <1>1 DEF KeepsServer, KeepsShowing, Client!View, Client!Observed, Client!UserOverwrite,
              Client!ServerOverwrite, Client!AckWrite, Client!RevertWrite

\* A view that does not change.
LEMMA Kept == \A v : KeepsServer(v, v) /\ KeepsShowing(v, v)
BY DEF KeepsServer, KeepsShowing

\* A write of the app.
LEMMA WriteViews ==
  ASSUME Client!TypeOK, NEW p \in Paths, NEW val \in Values, Client!ApplyUserOverwrite(p, val)
  PROVE  \A q \in Paths : KeepsServer(view[q], view'[q]) /\ KeepsShowing(view[q], view'[q])
<1> SUFFICES ASSUME NEW q \in Paths
             PROVE  KeepsServer(view[q], view'[q]) /\ KeepsShowing(view[q], view'[q])
  OBVIOUS
<1>1. view \in [Paths -> Client!View]
      /\ view' = [view EXCEPT ![p] = Client!UserOverwrite(view[p], val)]
  BY DEF Client!TypeOK, Client!ApplyUserOverwrite
<1>2. view'[q] = IF q = p THEN Client!UserOverwrite(view[q], val) ELSE view[q]
  BY <1>1
<1> QED
  BY <1>1, <1>2, ViewDoes, Kept

\* Data of the server, for a path that is observed.
LEMMA DataViews ==
  ASSUME Client!TypeOK, NEW p \in Paths, NEW val \in Values, Client!ApplyServerOverwrite(p, val)
  PROVE  /\ \A q \in Paths : q # p => KeepsServer(view[q], view'[q])
         /\ view'[p].regs = view[p].regs
         /\ Client!Observed(view[p]) => view'[p].serverFull /\ view'[p].server = val
         /\ \A q \in Paths : KeepsShowing(view[q], view'[q])
<1>1. view \in [Paths -> Client!View]
      /\ view' = [view EXCEPT ![p] =
                    Client!ServerOverwrite(view[p], val, visibleWrites[p])]
  BY DEF Client!TypeOK, Client!ApplyServerOverwrite
<1>2. \A q \in Paths : view'[q] = IF q = p
                                  THEN Client!ServerOverwrite(view[q], val, visibleWrites[p])
                                  ELSE view[q]
  BY <1>1
<1> QED
  BY <1>1, <1>2, ViewDoes, Kept

\* The answer to a write: it may take away what is shown, unless the view has
\* the server's value to show instead.
LEMMA AnswerViews ==
  ASSUME Client!TypeOK, NEW w \in allWrites, NEW ok \in BOOLEAN, Client!AckUserWrite(w, ok)
  PROVE  /\ \A q \in Paths : KeepsServer(view[q], view'[q])
         /\ \A q \in Paths : view[q].serverFull \/ ~Client!Observed(view[q])
                              => KeepsShowing(view[q], view'[q])
<1> DEFINE p      == w.path
           rest   == allWrites \ {w}
           shadow == Client!VisibleWithout(w, rest)
           old    == view[w.path]
           new    == IF Client!Hidden(w, rest) THEN old
                     ELSE IF ok THEN Client!AckWrite(old, shadow)
                     ELSE Client!RevertWrite(old, shadow)
<1>1. view \in [Paths -> Client!View] /\ p \in Paths /\ view' = [view EXCEPT ![p] = new]
  BY DEF Client!TypeOK, Client!Write, Client!AckUserWrite
<1>2. /\ \A q \in Paths : view'[q] = IF q = p THEN new ELSE view[q]
      /\ old \in Client!View /\ old = view[p]
  BY <1>1
<1> HIDE DEF p, shadow, old
<1>3. KeepsServer(old, new)
  BY <1>2, ViewDoes, Kept, RealtimeDatabaseAssumption
<1>4. old.serverFull \/ ~Client!Observed(old) => KeepsShowing(old, new)
  BY <1>2, ViewDoes, Kept, RealtimeDatabaseAssumption
<1> HIDE DEF new
<1> QED
  BY <1>1, <1>2, <1>3, <1>4, Kept

\* A registration.
LEMMA ObserveViews ==
  ASSUME Client!TypeOK, NEW h \in Handlers, Client!AddEventRegistration(h)
  PROVE  /\ PathOf[h] \in Paths
         /\ Client!Observed(view'[PathOf[h]])
         /\ \A q \in Paths : q # PathOf[h] => view'[q] = view[q]
         /\ Client!Observed(view[PathOf[h]]) =>
              /\ view'[PathOf[h]].serverFull = view[PathOf[h]].serverFull
              /\ view'[PathOf[h]].server = view[PathOf[h]].server
              /\ view'[PathOf[h]].eventFull = view[PathOf[h]].eventFull
<1> DEFINE p   == PathOf[h]
           old == IF Client!Observed(view[p]) THEN view[p] ELSE Client!FreshView(p)
           new == [old EXCEPT !.regs = Append(old.regs, h)]
<1>1. /\ p \in Paths /\ view \in [Paths -> Client!View]
      /\ visibleWrites \in [Paths -> Values \cup {NoWrite}]
      /\ view' = [view EXCEPT ![p] = new]
  BY RealtimeDatabaseAssumption DEF Client!TypeOK, Client!AddEventRegistration
<1>2. old \in Client!View
  <2>1. Client!NoView \in Client!View
    BY RealtimeDatabaseAssumption, EmptySeq DEF Client!NoView, Client!View
  <2>2. CASE Client!Observed(view[p])
    BY <1>1, <2>2
  <2>3. CASE ~Client!Observed(view[p]) /\ visibleWrites[p] = NoWrite
    BY <2>1, <2>3 DEF Client!FreshView
  <2>4. CASE ~Client!Observed(view[p]) /\ visibleWrites[p] # NoWrite
    <3>1. visibleWrites[p] \in Values
      BY <1>1, <2>4
    <3> QED
      BY <2>1, <2>4, <3>1 DEF Client!FreshView, Client!View
  <2> QED
    BY <2>2, <2>3, <2>4
<1>3. /\ \A q \in Paths : view'[q] = IF q = p THEN new ELSE view[q]
      /\ Client!Observed(view[p]) => old = view[p]
  BY <1>1
<1> HIDE DEF p, old
<1>4. /\ new.serverFull = old.serverFull /\ new.server = old.server
      /\ new.eventFull = old.eventFull /\ new.regs = Append(old.regs, h)
  BY <1>2 DEF Client!View
<1>5. Append(old.regs, h) # <<>>
  <2>1. old.regs \in Seq(Handlers)
    BY <1>2 DEF Client!View
  <2> QED
    BY <2>1, AppendProperties, EmptySeq
<1> HIDE DEF new
<1>6. PathOf[h] = p
  BY DEF p
<1> QED
  BY <1>1, <1>3, <1>4, <1>5, <1>6 DEF Client!Observed

-----------------------------------------------------------------------------
(* What is on its way.                                                     *)

\* What is in a call, a request or a message of each kind.
LEMMA Kinds ==
  /\ \A c \in Calls : c.call = "set" => c.path \in Paths /\ c.val \in Values
  /\ \A c \in Calls : c.call = "observe" => c.handler \in Handlers
  /\ \A r \in Requests : r.msg = "put" => r.id \in Nat /\ r.path \in Paths /\ r.val \in Values
  /\ \A r \in Requests : r.msg = "listen" => r.path \in Paths
  /\ \A m \in Messages : m.msg = "data" => m.path \in Paths /\ m.val \in Values
  /\ \A m \in Messages : m.msg = "listening" => m.path \in Paths
  /\ \A m \in Messages : m.msg = "answer" => m \in Answers
  /\ \A m \in Answers : m.msg = "answer" /\ m.id \in Nat /\ m.ok \in BOOLEAN
<1>1. \A c \in Calls : c.call = "set" => c.path \in Paths /\ c.val \in Values
  BY DEF Calls
<1>2. \A c \in Calls : c.call = "observe" => c.handler \in Handlers
  BY DEF Calls
<1>3. \A r \in Requests : r.msg = "put" => r.id \in Nat /\ r.path \in Paths /\ r.val \in Values
  BY DEF Requests
<1>4. \A r \in Requests : r.msg = "listen" => r.path \in Paths
  BY DEF Requests
<1>5. \A m \in Messages : m.msg = "data" => m.path \in Paths /\ m.val \in Values
  BY DEF Messages
<1>6. \A m \in Messages : m.msg = "listening" => m.path \in Paths
  BY DEF Messages
<1>7. \A m \in Messages : m.msg = "answer" => m \in Answers
  BY DEF Messages, Answers
<1>8. \A m \in Answers : m.msg = "answer" /\ m.id \in Nat /\ m.ok \in BOOLEAN
  BY DEF Answers
<1> QED
  BY <1>1, <1>2, <1>3, <1>4, <1>5, <1>6, <1>7, <1>8

\* The numbers of writes are numbers, and the paths are paths.
LEMMA IdsAre ==
  ASSUME Typed
  PROVE  /\ HeldIds \subseteq Nat /\ AnsweredIds \subseteq Nat /\ SentIds \subseteq Nat
         /\ Asked \subseteq Paths /\ Told \subseteq Paths /\ Coming \subseteq Paths
<1>1. /\ putsToAck \in Seq(Answers) /\ toClient \in Seq(Messages) /\ toServer \in Seq(Requests)
  BY DEF Typed
<1>2. /\ \A k \in At(putsToAck, "answer") : putsToAck[k].id \in Nat
      /\ \A k \in At(toClient, "answer") : toClient[k].id \in Nat
      /\ \A k \in At(toServer, "put") : toServer[k].id \in Nat
  BY <1>1, Positions, Kinds
<1>3. /\ \A k \in At(toServer, "listen") : toServer[k].path \in Paths
      /\ \A k \in At(toClient, "listening") : toClient[k].path \in Paths
      /\ \A k \in At(toClient, "data") : toClient[k].path \in Paths
  BY <1>1, Positions, Kinds
<1> QED
  BY <1>2, <1>3 DEF HeldIds, AnsweredIds, SentIds, Asked, Told, Coming, IdsOf, PathsOf

\* Where nothing is, there are no numbers and no paths.
LEMMA NothingThere == \A m : IdsOf(<<>>, m) = {} /\ PathsOf(<<>>, m) = {} /\ At(<<>>, m) = {}
<1>1. \A m : At(<<>>, m) = {}
  BY EmptySeq DEF At
<1> QED
  BY <1>1 DEF IdsOf, PathsOf

\* An answer that comes while none is held back is the one to the oldest
\* write that is pending.
LEMMA OldestAnswered ==
  ASSUME Typed, InTurn, putsToAck = <<>>, toClient # <<>>, Head(toClient).msg = "answer",
         NEW x \in allWrites, Client!TypeOK
  PROVE  Head(toClient).id <= x.id
<1> DEFINE m == Head(toClient)
           t == Tail(toClient)
<1>1. Fewer(toClient, t, "answer", m) /\ m \in Messages
  BY TailDoes DEF Typed
<1> HIDE DEF m, t
<1>2. m.id \in Nat /\ x.id \in Nat
  BY <1>1, Kinds DEF Client!TypeOK, Client!Write, m
<1>3. HeldIds = {}
  BY NothingThere DEF HeldIds
<1>4. AnsweredIds = IdsOf(t, "answer") \cup {m.id} /\ \A i \in IdsOf(t, "answer") : m.id < i
  BY <1>1 DEF AnsweredIds, Fewer, InTurn
<1>5. x.id \in AnsweredIds \/ x.id \in SentIds
  BY <1>3 DEF InTurn
<1>6. \A i \in SentIds : m.id < i
  BY <1>4 DEF InTurn, Before
<1>7. m.id <= x.id
  BY <1>2, <1>4, <1>5, <1>6
<1> QED
  BY <1>7 DEF m

\* So is the first of those that are held back.
LEMMA OldestHeld ==
  ASSUME Typed, InTurn, putsToAck # <<>>, NEW x \in allWrites, Client!TypeOK
  PROVE  Head(putsToAck).id <= x.id
<1> DEFINE m == Head(putsToAck)
           t == Tail(putsToAck)
<1>1. m \in Answers
  BY TailDoes DEF Typed
<1>2. Fewer(putsToAck, t, "answer", m)
  BY <1>1, TailDoes, Kinds DEF Typed
<1> HIDE DEF m, t
<1>3. m.id \in Nat /\ x.id \in Nat
  BY <1>1, Kinds DEF Client!TypeOK, Client!Write
<1>4. HeldIds = IdsOf(t, "answer") \cup {m.id} /\ \A i \in IdsOf(t, "answer") : m.id < i
  BY <1>2 DEF HeldIds, Fewer, InTurn
<1>5. x.id \in HeldIds \/ x.id \in AnsweredIds \/ x.id \in SentIds
  BY DEF InTurn
<1>6. \A i \in AnsweredIds \cup SentIds : m.id < i
  BY <1>4 DEF InTurn, Before
<1>7. m.id <= x.id
  BY <1>3, <1>4, <1>5, <1>6
<1> QED
  BY <1>7 DEF m

-----------------------------------------------------------------------------
(* A step of the app, the connection or the server is one of the client or *)
(* none.                                                                   *)

\* The client's steps by name.
LEMMA ClientMoves ==
  /\ \A p \in Paths, val \in Values :
       Client!Set(p, val) \/ Client!ServerData(p, val) => Client!Next
  /\ \A p \in Paths : Client!ListenAccepted(p) => Client!Next
  /\ \A w \in allWrites, ok \in BOOLEAN : Client!Answer(w, ok) => Client!Next
  /\ \A h \in Handlers : Client!Observe(h) => Client!Next
  /\ \A t \in Tasks : Client!Room /\ Client!Dispatch(t) => Client!Next
  /\ \A ts \in Client!TaskLists : Client!FireEvent(ts) => Client!Next
<1>1. \A t \in Tasks : Client!Room /\ Client!Dispatch(t) => Client!Next
  BY DEF Client!Next
<1>2. \A ts \in Client!TaskLists : Client!FireEvent(ts) => Client!Next
  BY DEF Client!Next
<1>3. \A p \in Paths, val \in Values :
        Client!Set(p, val) \/ Client!ServerData(p, val) => Client!Next
  BY DEF Client!Next
<1>4. \A p \in Paths : Client!ListenAccepted(p) => Client!Next
  BY DEF Client!Next
<1>5. \A w \in allWrites, ok \in BOOLEAN : Client!Answer(w, ok) => Client!Next
  BY DEF Client!Next
<1>6. \A h \in Handlers : Client!Observe(h) => Client!Next
  BY DEF Client!Next
<1> QED
  BY <1>1, <1>2, <1>3, <1>4, <1>5, <1>6

\* An answer that is handed on is to the oldest pending write.
LEMMA AcknowledgeMoves ==
  ASSUME NEW m \in Answers, Client!Room, Acknowledge(m), \A x \in allWrites : m.id <= x.id
  PROVE  Client!Next
<1>1. PICK w \in allWrites : w.id = m.id /\ Client!AckUserWrite(w, m.ok)
  BY DEF Acknowledge
<1>2. Client!Answer(w, m.ok) /\ m.ok \in BOOLEAN
  BY <1>1, Kinds DEF Client!Answer
<1> QED
  BY <1>2, ClientMoves

\* Each step is one of SyncTree under a server that answers in order.
LEMMA ClientStep ==
  ASSUME ServiceInv, Client!TypeOK, Moves
  PROVE  [Client!Next]_(Client!vars)
<1>1. ASSUME UNCHANGED clientVars PROVE UNCHANGED Client!vars
  BY <1>1 DEF clientVars, Client!vars
<1>2. CASE AppMoves
  BY <1>1, <1>2, ClientMoves DEF AppMoves
<1>4. CASE RunSet
  <2>1. Head(sharedQueue) \in Calls
    BY <1>4, TailDoes DEF RunSet, ServiceInv, Typed
  <2> QED
    BY <1>4, <2>1, Kinds, ClientMoves DEF RunSet
<1>5. CASE RunObserve
  <2>1. Head(sharedQueue) \in Calls
    BY <1>5, TailDoes DEF RunObserve, ServiceInv, Typed
  <2> QED
    BY <1>5, <2>1, Kinds, ClientMoves DEF RunObserve
<1>6. CASE Receive
  <2> DEFINE m == Head(toClient)
  <2>1. /\ toClient # <<>> /\ toClient \in Seq(Messages) /\ Client!Room /\ Free
        /\ m \in Messages
    BY <1>6, TailDoes DEF Receive, ServiceInv, Typed
  <2>2. CASE m.msg = "data" /\ Client!ApplyServerOverwrite(m.path, m.val)
    <3>1. m.path \in Paths /\ m.val \in Values
      BY <2>1, <2>2, Kinds
    <3>2. Client!ServerData(m.path, m.val)
      BY <2>1, <2>2 DEF Client!ServerData
    <3> QED
      BY <3>1, <3>2, ClientMoves
  <2>3. CASE m.msg = "listening" /\ Client!ApplyListenComplete(m.path)
    <3>1. m.path \in Paths /\ m.path \in Told
      BY <2>1, <2>3, Kinds, TailDoes DEF Told, Fewer
    <3>2. Client!ListenAccepted(m.path)
      BY <2>1, <2>3, <3>1 DEF ServiceInv, Followed, Client!ListenAccepted
    <3> QED
      BY <3>1, <3>2, ClientMoves
  <2>4. CASE m.msg = "answer" /\ ~HeldBack /\ Acknowledge(m)
    <3>1. putsToAck = <<>>
      BY <2>1, <2>4 DEF HeldBack, Free, LettingGo, ServiceInv, Typed
    <3>2. \A x \in allWrites : m.id <= x.id
      BY <2>1, <2>4, <3>1, OldestAnswered DEF ServiceInv
    <3> QED
      BY <2>1, <2>4, <3>2, Kinds, AcknowledgeMoves
  <2>5. CASE UNCHANGED clientVars
    BY <1>1, <2>5
  <2> QED
    BY <1>6, <2>2, <2>3, <2>4, <2>5 DEF Receive
<1>7. CASE AckPut
  <2>1. putsToAck # <<>> /\ Client!Room /\ Acknowledge(Head(putsToAck))
    BY <1>7 DEF AckPut, LettingGo
  <2>2. Head(putsToAck) \in Answers
    BY <2>1, TailDoes DEF ServiceInv, Typed
  <2> QED
    BY <2>1, <2>2, OldestHeld, AcknowledgeMoves DEF ServiceInv
<1>8. CASE \/ ServePut \/ ServeListen
           \/ \E p \in RemotePaths : \E val \in RemoteValues[p] : RemoteWrite(p, val)
  BY <1>1, <1>8 DEF ServePut, ServeListen, RemoteWrite
<1>9. CASE UNCHANGED serviceVars
  BY <1>1, <1>9 DEF serviceVars
<1> QED
  BY <1>2, <1>4, <1>5, <1>6, <1>7, <1>8, <1>9 DEF Moves, ServiceNext

-----------------------------------------------------------------------------
(* The steps of the client's queue.                                        *)

\* The views keep their observers and what they have of the server.
ViewsFollow ==
  \A q \in Paths :
    /\ Client!Observed(view'[q]) <=> Client!Observed(view[q])
    /\ view'[q].serverFull = view[q].serverFull
    /\ view'[q].server = view[q].server
    /\ ~Client!Observed(view[q]) => view'[q].eventFull = view[q].eventFull

\* They do if nothing changes, and in the terms of the views' lemmas.
LEMMA ViewsFollowIf ==
  ASSUME \/ UNCHANGED view
         \/ \A q \in Paths : KeepsServer(view[q], view'[q])
                               /\ (~Client!Observed(view[q])
                                     => view'[q].eventFull = view[q].eventFull)
  PROVE  ViewsFollow
<1>1. ASSUME UNCHANGED view PROVE ViewsFollow
  BY <1>1 DEF ViewsFollow
<1>2. ASSUME NEW old, NEW new, KeepsServer(old, new)
      PROVE  /\ Client!Observed(new) <=> Client!Observed(old)
             /\ new.serverFull = old.serverFull /\ new.server = old.server
  BY <1>2 DEF KeepsServer, Client!Observed
<1> QED
  BY <1>1, <1>2 DEF ViewsFollow

\* What is followed stays so when no listen and no data is sent or comes.
LEMMA FollowedKept ==
  ASSUME Typed, Followed, ViewsFollow, Newest(toClient', db),
         UNCHANGED <<listens, db, Asked, Told, Coming>>
  PROVE  Followed'
<1>1. listens \subseteq Paths
  BY DEF Typed
<1>2. \A p \in Paths : Client!Observed(view'[p]) <=> p \in Asked' \cup listens'
  BY DEF Followed, ViewsFollow
<1>3. Told' \subseteq listens' /\ Coming' \subseteq listens' /\ Newest(toClient', db')
  BY DEF Followed
<1>4. /\ \A p \in listens' \ Coming' : view'[p].serverFull /\ view'[p].server = db'[p]
      /\ \A p \in listens' \ Told' : view'[p].serverFull
  BY <1>1 DEF Followed, ViewsFollow
<1>5. \A p \in Paths : ~Client!Observed(view'[p]) => ~view'[p].eventFull
  BY DEF Followed, ViewsFollow
<1> QED
  BY <1>2, <1>3, <1>4, <1>5 DEF Followed

\* A step that leaves the channels, the client and the database alone.
LEMMA ServiceUnchanged ==
  ASSUME ServiceInv, sharedQueue' \in Seq(Calls), ViewsFollow,
         UNCHANGED <<connectionVars, serverVars, writeIdCounter, allWrites>>
  PROVE  ServiceInv'
<1>1. UNCHANGED <<unackedListens, putsToAck, toServer, toClient, listens, db, remoteWrites>>
  BY DEF connectionVars, serverVars
<1>2. UNCHANGED <<Asked, Told, Coming, HeldIds, AnsweredIds, SentIds>>
  BY <1>1 DEF Asked, Told, Coming, HeldIds, AnsweredIds, SentIds
<1>3. Followed'
  BY <1>1, <1>2, FollowedKept DEF ServiceInv, Followed
<1>4. Typed'
  BY <1>1 DEF ServiceInv, Typed
<1>5. InTurn'
  BY <1>1, <1>2 DEF ServiceInv, InTurn
<1>6. Counted'
  BY <1>1 DEF ServiceInv, Counted
<1> QED
  BY <1>3, <1>4, <1>5, <1>6 DEF ServiceInv

\* A call of setValue is run.
LEMMA RunSetKeeps ==
  ASSUME ServiceInv, Client!TypeOK, RunSet
  PROVE  ServiceInv'
<1> DEFINE c   == Head(sharedQueue)
           p   == c.path
           val == c.val
           x   == Put(writeIdCounter, p, val)
<1>1. /\ Tail(sharedQueue) \in Seq(Calls) /\ p \in Paths /\ val \in Values
      /\ toServer \in Seq(Requests)
  BY TailDoes, Kinds DEF RunSet, ServiceInv, Typed
<1>2. /\ sharedQueue' = Tail(sharedQueue) /\ toServer' = Append(toServer, x)
      /\ Client!ApplyUserOverwrite(p, val)
      /\ UNCHANGED <<unackedListens, putsToAck, toClient, listens, db, remoteWrites>>
  BY DEF RunSet, Client!Set, Send, connectionVars
<1>3. /\ writeIdCounter \in Nat /\ writeIdCounter' = writeIdCounter + 1
      /\ \A w \in allWrites' : w \in allWrites \/ w.id = writeIdCounter
  BY <1>2 DEF Client!ApplyUserOverwrite, Client!TypeOK
<1>4. x \in Requests /\ x.msg = "put" /\ x.id = writeIdCounter
  BY <1>1, <1>3 DEF Put, Requests
<1>5. \A q \in Paths : KeepsServer(view[q], view'[q]) /\ KeepsShowing(view[q], view'[q])
  BY <1>1, <1>2, WriteViews
<1> HIDE DEF c, p, val, x
<1>6. /\ toServer' \in Seq(Requests)
      /\ More(toServer, toServer', "put", x) /\ Same(toServer, toServer', "listen")
  BY <1>1, <1>2, <1>4, AppendDoes
<1>7. /\ HeldIds' = HeldIds /\ AnsweredIds' = AnsweredIds
      /\ SentIds' = SentIds \cup {writeIdCounter}
      /\ Asked' = Asked /\ Told' = Told /\ Coming' = Coming
  BY <1>2, <1>4, <1>6 DEF HeldIds, AnsweredIds, SentIds, Asked, Told, Coming, More, Same
<1>8. Typed'
  BY <1>1, <1>2, <1>6 DEF ServiceInv, Typed
<1>9. InTurn'
  <2>1. HeldIds \subseteq Nat /\ AnsweredIds \subseteq Nat /\ SentIds \subseteq Nat
    BY IdsAre DEF ServiceInv
  <2>2. \A i \in HeldIds \cup AnsweredIds \cup SentIds : i < writeIdCounter
    BY DEF ServiceInv, InTurn
  <2>3. Rising(putsToAck, "answer")' /\ Rising(toClient, "answer")' /\ Rising(toServer, "put")'
    BY <1>2, <1>4, <1>6, <2>2 DEF More, ServiceInv, InTurn, SentIds
  <2>4. Before(HeldIds, AnsweredIds)' /\ Before(HeldIds, SentIds)' /\ Before(AnsweredIds, SentIds)'
    BY <1>7, <2>2 DEF ServiceInv, InTurn, Before
  <2>5. \A i \in HeldIds' \cup AnsweredIds' \cup SentIds' : i < writeIdCounter'
    BY <1>3, <1>7, <2>1, <2>2
  <2>6. \A w \in allWrites' : w.id \in HeldIds' \cup AnsweredIds' \cup SentIds'
    BY <1>3, <1>7 DEF ServiceInv, InTurn
  <2> QED
    BY <2>3, <2>4, <2>5, <2>6 DEF InTurn
<1>10. Counted'
  BY <1>2, <1>6 DEF ServiceInv, Counted, Same
<1>11. Followed'
  <2>1. ViewsFollow
    BY <1>5, ViewsFollowIf DEF KeepsShowing
  <2> QED
    BY <1>2, <1>7, <2>1, FollowedKept DEF ServiceInv, Followed
<1> QED
  BY <1>8, <1>9, <1>10, <1>11 DEF ServiceInv

\* A call of observe is run.
LEMMA RunObserveKeeps ==
  ASSUME ServiceInv, Client!TypeOK, RunObserve
  PROVE  ServiceInv'
<1> DEFINE h == Head(sharedQueue).handler
           p == PathOf[h]
           x == Listen(p)
<1>1. /\ Tail(sharedQueue) \in Seq(Calls) /\ h \in Handlers /\ toServer \in Seq(Requests)
  BY TailDoes, Kinds DEF RunObserve, ServiceInv, Typed
<1>2. /\ sharedQueue' = Tail(sharedQueue) /\ Client!AddEventRegistration(h)
      /\ Client!Observed(view[p]) => UNCHANGED <<toServer, unackedListens>>
      /\ ~Client!Observed(view[p]) => /\ toServer' = Append(toServer, x)
                                      /\ unackedListens' = unackedListens + 1
      /\ UNCHANGED <<putsToAck, toClient, listens, db, remoteWrites>>
  BY DEF RunObserve, Client!Observe, Send
<1>3. UNCHANGED <<writeIdCounter, allWrites>>
  BY <1>2 DEF Client!AddEventRegistration
<1>4. /\ p \in Paths
      /\ Client!Observed(view'[p])
      /\ \A q \in Paths : q # p => view'[q] = view[q]
      /\ Client!Observed(view[p]) =>
           /\ view'[p].serverFull = view[p].serverFull
           /\ view'[p].server = view[p].server
           /\ view'[p].eventFull = view[p].eventFull
  BY <1>1, <1>2, ObserveViews
<1>5. x \in Requests /\ x.msg = "listen" /\ x.path = p
  BY <1>4 DEF Listen, Requests
<1> HIDE DEF h, p, x
<1>6. CASE Client!Observed(view[p])
  <2>1. ViewsFollow
    BY <1>4, <1>6 DEF ViewsFollow
  <2> QED
    BY <1>1, <1>2, <1>3, <1>6, <2>1, ServiceUnchanged DEF connectionVars, serverVars
<1>7. CASE ~Client!Observed(view[p])
  <2>1. /\ toServer' \in Seq(Requests)
        /\ More(toServer, toServer', "listen", x) /\ Same(toServer, toServer', "put")
    BY <1>1, <1>2, <1>5, <1>7, AppendDoes
  <2>2. /\ HeldIds' = HeldIds /\ AnsweredIds' = AnsweredIds /\ SentIds' = SentIds
        /\ Asked' = Asked \cup {p} /\ Told' = Told /\ Coming' = Coming
    BY <1>2, <1>5, <2>1 DEF HeldIds, AnsweredIds, SentIds, Asked, Told, Coming, More, Same
  <2>3. Typed'
    BY <1>1, <1>2, <1>7, <2>1 DEF ServiceInv, Typed
  <2>4. InTurn'
    BY <1>2, <1>3, <2>1, <2>2 DEF ServiceInv, InTurn, Same
  <2>5. Counted'
    <3>1. Count(toServer, "listen") \in Nat /\ Count(toClient, "listening") \in Nat
      BY CountIs DEF ServiceInv, Typed
    <3> QED
      BY <1>2, <1>7, <2>1, <3>1 DEF ServiceInv, Counted, More
  <2>6. Followed'
    <3>1. p \notin Asked /\ p \notin listens
      BY <1>4, <1>7 DEF ServiceInv, Followed
    <3>2. listens \subseteq Paths
      BY DEF ServiceInv, Typed
    <3>3. \A q \in Paths : Client!Observed(view'[q]) <=> q \in Asked' \cup listens'
      BY <1>2, <1>4, <2>2 DEF ServiceInv, Followed
    <3>4. \A q \in Paths : q # p => view'[q] = view[q]
      BY <1>4
    <3> QED
      BY <1>2, <1>4, <2>2, <3>1, <3>2, <3>3, <3>4 DEF ServiceInv, Followed
  <2> QED
    BY <2>3, <2>4, <2>5, <2>6 DEF ServiceInv
<1> QED
  BY <1>6, <1>7

-----------------------------------------------------------------------------
(* The messages of the server reach the client.                            *)

\* What the client's own invariant says that is needed here.
LEMMA ClientInv ==
  ASSUME DatabaseInv
  PROVE  /\ Client!TypeOK
         /\ \A w, x \in allWrites : w.id = x.id => w = x
BY SameClient DEF DatabaseInv, ClientP!CInv, ClientP!IInv, ClientP!WritesStack

\* Data comes.
LEMMA DataKeeps ==
  ASSUME DatabaseInv, Receive, Head(toClient).msg = "data"
  PROVE  ServiceInv'
<1> DEFINE m   == Head(toClient)
           t   == Tail(toClient)
           p   == m.path
           val == m.val
<1>1. /\ toClient # <<>> /\ toClient' = t
      /\ Client!ApplyServerOverwrite(p, val)
      /\ UNCHANGED <<unackedListens, putsToAck, sharedQueue, toServer, listens, db, remoteWrites>>
  BY DEF Receive, connectionVars
<1>2. UNCHANGED <<writeIdCounter, allWrites>>
  BY <1>1 DEF Client!ApplyServerOverwrite
<1>3. /\ t \in Seq(Messages) /\ p \in Paths /\ val \in Values
      /\ Fewer(toClient, t, "data", m)
      /\ Same(toClient, t, "answer") /\ Same(toClient, t, "listening")
  BY <1>1, TailDoes, Kinds DEF DatabaseInv, ServiceInv, Typed
<1>4. Newest(t, db) /\ (p \notin PathsOf(t, "data") => val = db[p])
  BY <1>1, TailNewest DEF DatabaseInv, ServiceInv, Typed, Followed
<1>5. /\ \A q \in Paths : q # p => KeepsServer(view[q], view'[q])
      /\ view'[p].regs = view[p].regs
      /\ Client!Observed(view[p]) => view'[p].serverFull /\ view'[p].server = val
      /\ \A q \in Paths : KeepsShowing(view[q], view'[q])
  BY <1>1, <1>3, DataViews, ClientInv
<1> HIDE DEF m, t, val
<1>6. /\ HeldIds' = HeldIds /\ AnsweredIds' = AnsweredIds /\ SentIds' = SentIds
      /\ Asked' = Asked /\ Told' = Told /\ Coming = Coming' \cup {p}
  BY <1>1, <1>3 DEF HeldIds, AnsweredIds, SentIds, Asked, Told, Coming, Fewer, Same
<1> HIDE DEF p
<1>7. Typed'
  BY <1>1, <1>3 DEF DatabaseInv, ServiceInv, Typed
<1>8. InTurn'
  BY <1>1, <1>2, <1>3, <1>6 DEF DatabaseInv, ServiceInv, InTurn, Same
<1>9. Counted'
  BY <1>1, <1>3 DEF DatabaseInv, ServiceInv, Counted, Same
<1>10. Followed'
  <2>1. listens \subseteq Paths /\ p \in listens /\ Followed
    BY <1>6 DEF DatabaseInv, ServiceInv, Typed, Followed
  <2>2. \A q \in Paths : Client!Observed(view'[q]) <=> Client!Observed(view[q])
    BY <1>5 DEF KeepsServer, Client!Observed
  <2>3. Client!Observed(view[p])
    BY <1>3, <2>1 DEF Followed
  <2>4. \A q \in Paths : Client!Observed(view'[q]) <=> q \in Asked' \cup listens'
    BY <1>1, <1>6, <2>1, <2>2 DEF Followed
  <2>5. Told' \subseteq listens' /\ Coming' \subseteq listens' /\ Newest(toClient', db')
    BY <1>1, <1>4, <1>6, <2>1 DEF Followed
  <2>6. ASSUME NEW q \in listens', q \notin Coming'
        PROVE  view'[q].serverFull /\ view'[q].server = db'[q]
    <3>1. CASE q = p
      BY <1>1, <1>4, <1>5, <2>3, <2>6, <3>1 DEF Coming
    <3>2. CASE q # p
      <4>1. q \in listens \ Coming /\ q \in Paths
        BY <1>1, <1>6, <2>1, <2>6, <3>2
      <4> QED
        BY <1>1, <1>5, <2>1, <3>2, <4>1 DEF Followed, KeepsServer
    <3> QED
      BY <3>1, <3>2
  <2>7. \A q \in listens' \ Told' : view'[q].serverFull
    BY <1>1, <1>5, <1>6, <2>1, <2>3 DEF Followed, KeepsServer
  <2>8. \A q \in Paths : ~Client!Observed(view'[q]) => ~view'[q].eventFull
    BY <1>5, <2>1, <2>2 DEF Followed, KeepsShowing
  <2> QED
    BY <2>4, <2>5, <2>6, <2>7, <2>8 DEF Followed
<1> QED
  BY <1>7, <1>8, <1>9, <1>10 DEF ServiceInv

\* The response to a listen comes.
LEMMA ListeningKeeps ==
  ASSUME DatabaseInv, Receive, Head(toClient).msg = "listening"
  PROVE  ServiceInv'
<1> DEFINE m   == Head(toClient)
           t   == Tail(toClient)
           p   == m.path
           val == view[p].server
<1>1. /\ toClient # <<>> /\ toClient' = t
      /\ Client!ApplyServerOverwrite(p, val)
      /\ unackedListens' = unackedListens - 1
      /\ UNCHANGED <<putsToAck, sharedQueue, toServer, listens, db, remoteWrites>>
  BY DEF Receive, Client!ApplyListenComplete
<1>2. UNCHANGED <<writeIdCounter, allWrites>>
  BY <1>1 DEF Client!ApplyServerOverwrite
<1>3. /\ t \in Seq(Messages) /\ p \in Paths
      /\ Fewer(toClient, t, "listening", m)
      /\ Same(toClient, t, "answer") /\ Same(toClient, t, "data")
  BY <1>1, TailDoes, Kinds DEF DatabaseInv, ServiceInv, Typed
<1>4. Newest(t, db)
  BY <1>1, TailNewest DEF DatabaseInv, ServiceInv, Typed, Followed
<1>5. /\ \A q \in Paths : q # p => KeepsServer(view[q], view'[q])
      /\ view'[p].regs = view[p].regs
      /\ Client!Observed(view[p]) => view'[p].serverFull /\ view'[p].server = val
      /\ \A q \in Paths : KeepsShowing(view[q], view'[q])
  <2>1. val \in Values
    BY <1>3, ClientInv DEF Client!TypeOK, Client!View
  <2> QED
    BY <1>1, <1>3, <2>1, DataViews, ClientInv
<1> HIDE DEF m, t
<1>6. /\ HeldIds' = HeldIds /\ AnsweredIds' = AnsweredIds /\ SentIds' = SentIds
      /\ Asked' = Asked /\ Told = Told' \cup {p} /\ Coming' = Coming
  BY <1>1, <1>3 DEF HeldIds, AnsweredIds, SentIds, Asked, Told, Coming, Fewer, Same
<1>7. Typed' /\ Counted'
  <2>1. /\ Count(toServer, "listen") \in Nat /\ Count(t, "listening") \in Nat
        /\ Count(toClient, "listening") = Count(t, "listening") + 1
    BY <1>3, CountIs DEF DatabaseInv, ServiceInv, Typed, Fewer
  <2>2. Counted' /\ unackedListens' \in Nat
    BY <1>1, <2>1 DEF DatabaseInv, ServiceInv, Counted
  <2> QED
    BY <1>1, <1>3, <2>2 DEF DatabaseInv, ServiceInv, Typed
<1> HIDE DEF p
<1>8. InTurn'
  BY <1>1, <1>2, <1>3, <1>6 DEF DatabaseInv, ServiceInv, InTurn, Same
<1>9. Followed'
  <2>1. listens \subseteq Paths /\ p \in listens /\ Followed
    BY <1>6 DEF DatabaseInv, ServiceInv, Typed, Followed
  <2>2. \A q \in Paths : Client!Observed(view'[q]) <=> Client!Observed(view[q])
    BY <1>5 DEF KeepsServer, Client!Observed
  <2>3. Client!Observed(view[p])
    BY <1>3, <2>1 DEF Followed
  <2>4. \A q \in Paths : Client!Observed(view'[q]) <=> q \in Asked' \cup listens'
    BY <1>1, <1>6, <2>1, <2>2 DEF Followed
  <2>5. Told' \subseteq listens' /\ Coming' \subseteq listens' /\ Newest(toClient', db')
    BY <1>1, <1>4, <1>6, <2>1 DEF Followed
  <2>6. \A q \in listens' \ Coming' : view'[q].serverFull /\ view'[q].server = db'[q]
    BY <1>1, <1>5, <1>6, <2>1, <2>3 DEF Followed, KeepsServer
  <2>7. \A q \in listens' \ Told' : view'[q].serverFull
    BY <1>1, <1>5, <1>6, <2>1, <2>3 DEF Followed, KeepsServer
  <2>8. \A q \in Paths : ~Client!Observed(view'[q]) => ~view'[q].eventFull
    BY <1>5, <2>1, <2>2 DEF Followed, KeepsShowing
  <2> QED
    BY <2>4, <2>5, <2>6, <2>7, <2>8 DEF Followed
<1> QED
  BY <1>7, <1>8, <1>9 DEF ServiceInv

\* An answer is handed on: its write is no longer pending.
LEMMA AcknowledgeDoes ==
  ASSUME DatabaseInv, NEW m \in Answers, Acknowledge(m)
  PROVE  /\ writeIdCounter' = writeIdCounter
         /\ \A x \in allWrites' : x \in allWrites /\ x.id # m.id
         /\ \A q \in Paths : KeepsServer(view[q], view'[q])
         /\ \A q \in Paths : view[q].serverFull \/ ~Client!Observed(view[q])
                              => KeepsShowing(view[q], view'[q])
         /\ ViewsFollow
<1>1. PICK w \in allWrites : w.id = m.id /\ Client!AckUserWrite(w, m.ok)
  BY DEF Acknowledge
<1>2. m.ok \in BOOLEAN
  BY Kinds
<1>3. writeIdCounter' = writeIdCounter /\ allWrites' = allWrites \ {w}
  BY <1>1 DEF Client!AckUserWrite
<1>4. \A x \in allWrites' : x \in allWrites /\ x.id # m.id
  BY <1>1, <1>3, ClientInv
<1>5. /\ \A q \in Paths : KeepsServer(view[q], view'[q])
      /\ \A q \in Paths : view[q].serverFull \/ ~Client!Observed(view[q])
                           => KeepsShowing(view[q], view'[q])
  BY <1>1, <1>2, AnswerViews, ClientInv
<1>6. ViewsFollow
  BY <1>5, ViewsFollowIf DEF KeepsShowing
<1> QED
  BY <1>3, <1>4, <1>5, <1>6

\* An answer comes.
LEMMA AnswerKeeps ==
  ASSUME DatabaseInv, Receive, Head(toClient).msg = "answer"
  PROVE  ServiceInv'
<1> DEFINE m == Head(toClient)
           t == Tail(toClient)
<1>1. /\ toClient # <<>> /\ toClient' = t
      /\ \/ /\ ~HeldBack /\ Acknowledge(m)
            /\ UNCHANGED <<unackedListens, putsToAck>>
         \/ /\ putsToAck' = Append(putsToAck, m)
            /\ UNCHANGED <<clientVars, unackedListens>>
      /\ Free
      /\ UNCHANGED <<sharedQueue, toServer, listens, db, remoteWrites>>
  BY DEF Receive, connectionVars
<1>2. /\ t \in Seq(Messages) /\ m \in Answers /\ m.msg = "answer"
      /\ Fewer(toClient, t, "answer", m)
      /\ Same(toClient, t, "listening") /\ Same(toClient, t, "data")
  BY <1>1, TailDoes, Kinds DEF DatabaseInv, ServiceInv, Typed
<1>3. Newest(t, db)
  BY <1>1, TailNewest DEF DatabaseInv, ServiceInv, Typed, Followed
<1> HIDE DEF m, t
<1>4. /\ AnsweredIds = AnsweredIds' \cup {m.id} /\ SentIds' = SentIds
      /\ Asked' = Asked /\ Told' = Told /\ Coming' = Coming
  BY <1>1, <1>2 DEF AnsweredIds, SentIds, Asked, Told, Coming, Fewer, Same
<1>5. /\ Rising(toClient, "answer")' /\ Rising(toServer, "put")'
      /\ \A i \in AnsweredIds' : m.id < i
      /\ \A i \in SentIds : m.id < i
      /\ m.id < writeIdCounter
  <2>1. InTurn
    BY DEF DatabaseInv, ServiceInv
  <2>2. Rising(toClient, "answer")' /\ \A i \in AnsweredIds' : m.id < i
    BY <1>1, <1>2, <2>1 DEF InTurn, Fewer, AnsweredIds
  <2>3. Rising(toServer, "put")'
    BY <1>1, <2>1 DEF InTurn
  <2> QED
    BY <1>4, <2>1, <2>2, <2>3 DEF InTurn, Before
<1>6. Counted'
  BY <1>1, <1>2 DEF DatabaseInv, ServiceInv, Counted, Same
<1>7. ASSUME ViewsFollow PROVE Followed'
  BY <1>1, <1>3, <1>4, <1>7, FollowedKept DEF DatabaseInv, ServiceInv
<1>8. CASE /\ Acknowledge(m) /\ UNCHANGED <<unackedListens, putsToAck>>
  <2>1. HeldIds' = HeldIds
    BY <1>8 DEF HeldIds
  <2>2. /\ writeIdCounter' = writeIdCounter
        /\ \A x \in allWrites' : x \in allWrites /\ x.id # m.id
        /\ ViewsFollow
    BY <1>2, <1>8, AcknowledgeDoes
  <2>3. Typed'
    BY <1>1, <1>2, <1>8 DEF DatabaseInv, ServiceInv, Typed
  <2>4. InTurn'
    BY <1>4, <1>5, <1>8, <2>1, <2>2 DEF DatabaseInv, ServiceInv, InTurn, Before
  <2> QED
    BY <1>6, <1>7, <2>2, <2>3, <2>4 DEF ServiceInv
<1>9. CASE putsToAck' = Append(putsToAck, m) /\ UNCHANGED <<clientVars, unackedListens>>
  <2>1. UNCHANGED <<view, writeIdCounter, allWrites>>
    BY <1>9 DEF clientVars
  <2>2. putsToAck' \in Seq(Answers) /\ More(putsToAck, putsToAck', "answer", m)
    BY <1>2, <1>9, AppendDoes DEF DatabaseInv, ServiceInv, Typed
  <2>3. HeldIds' = HeldIds \cup {m.id}
    BY <2>2 DEF HeldIds, More
  <2>4. \A i \in HeldIds : i < m.id
    BY <1>4 DEF DatabaseInv, ServiceInv, InTurn, Before
  <2>5. Rising(putsToAck, "answer")'
    BY <2>2, <2>4 DEF DatabaseInv, ServiceInv, InTurn, More, HeldIds
  <2>6. InTurn'
    <3>1. Before(HeldIds, AnsweredIds)' /\ Before(HeldIds, SentIds)'
      BY <1>4, <1>5, <2>3 DEF DatabaseInv, ServiceInv, InTurn, Before
    <3>2. Before(AnsweredIds, SentIds)'
      BY <1>4 DEF DatabaseInv, ServiceInv, InTurn, Before
    <3>3. HeldIds' \cup AnsweredIds' \cup SentIds' = HeldIds \cup AnsweredIds \cup SentIds
      BY <1>4, <2>3
    <3> QED
      BY <1>5, <2>1, <2>5, <3>1, <3>2, <3>3 DEF DatabaseInv, ServiceInv, InTurn
  <2>7. Typed'
    BY <1>1, <1>2, <1>9, <2>2 DEF DatabaseInv, ServiceInv, Typed
  <2> QED
    BY <1>6, <1>7, <2>1, <2>6, <2>7, ViewsFollowIf DEF ServiceInv
<1> QED
  BY <1>1, <1>8, <1>9

\* An answer that was held back is handed on.
LEMMA AckPutKeeps ==
  ASSUME DatabaseInv, AckPut
  PROVE  ServiceInv'
<1> DEFINE m == Head(putsToAck)
           t == Tail(putsToAck)
<1>1. /\ putsToAck # <<>> /\ putsToAck' = t /\ Acknowledge(m)
      /\ UNCHANGED <<sharedQueue, unackedListens, toServer, toClient, listens, db, remoteWrites>>
  BY DEF AckPut, LettingGo, serverVars
<1>2. t \in Seq(Answers) /\ m \in Answers /\ Fewer(putsToAck, t, "answer", m)
  BY <1>1, TailDoes, Kinds DEF DatabaseInv, ServiceInv, Typed
<1> HIDE DEF m, t
<1>3. /\ HeldIds = HeldIds' \cup {m.id} /\ AnsweredIds' = AnsweredIds /\ SentIds' = SentIds
      /\ Asked' = Asked /\ Told' = Told /\ Coming' = Coming
  BY <1>1, <1>2 DEF HeldIds, AnsweredIds, SentIds, Asked, Told, Coming, Fewer
<1>4. /\ writeIdCounter' = writeIdCounter
      /\ \A x \in allWrites' : x \in allWrites /\ x.id # m.id
      /\ ViewsFollow
  BY <1>1, <1>2, AcknowledgeDoes
<1>5. Typed' /\ Counted'
  BY <1>1, <1>2 DEF DatabaseInv, ServiceInv, Typed, Counted
<1>6. InTurn'
  <2>1. Rising(putsToAck, "answer")' /\ Rising(toClient, "answer")' /\ Rising(toServer, "put")'
    BY <1>1, <1>2 DEF DatabaseInv, ServiceInv, InTurn, Fewer
  <2> QED
    BY <1>3, <1>4, <2>1 DEF DatabaseInv, ServiceInv, InTurn, Before
<1>7. Followed'
  BY <1>1, <1>3, <1>4, FollowedKept DEF DatabaseInv, ServiceInv, Followed
<1> QED
  BY <1>5, <1>6, <1>7 DEF ServiceInv

-----------------------------------------------------------------------------
(* The steps of the server.                                                *)

\* A message that is made.
LEMMA MessagesMade ==
  /\ \A p \in Paths, val \in Values :
       /\ Data(p, val) \in Messages /\ Data(p, val).msg = "data"
       /\ Data(p, val).path = p /\ Data(p, val).val = val
  /\ \A p \in Paths :
       Listening(p) \in Messages /\ Listening(p).msg = "listening" /\ Listening(p).path = p
  /\ \A i \in Nat, ok \in BOOLEAN :
       Answer(i, ok) \in Messages /\ Answer(i, ok).msg = "answer" /\ Answer(i, ok).id = i
BY DEF Data, Listening, Answer, Messages

\* A new value is pushed to a client that listens.
Pushed(u, p, val) ==
  /\ u \in Seq(Messages)
  /\ Same(toClient, u, "answer") /\ Same(toClient, u, "listening")
  /\ PathsOf(u, "data") = Coming \cup (IF p \in listens THEN {p} ELSE {})
  /\ Newest(u, [db EXCEPT ![p] = val])

\* So it is.
LEMMA PushDoes ==
  ASSUME ServiceInv, NEW p \in Paths, NEW val \in Values
  PROVE  Pushed(toClient \o Push(p, val), p, val)
<1> DEFINE u == toClient \o Push(p, val)
           g == [db EXCEPT ![p] = val]
<1>1. /\ toClient \in Seq(Messages) /\ Newest(toClient, db) /\ Coming \subseteq listens
      /\ listens \subseteq Paths /\ db \in [Paths -> Values]
  BY DEF ServiceInv, Typed, Followed
<1>2. g[p] = val /\ \A q \in Paths : q # p => g[q] = db[q]
  BY <1>1
<1>3. CASE p \in listens
  <2> DEFINE d == Data(p, val)
  <2>1. d \in Messages /\ d.msg = "data" /\ d.path = p /\ d.val = val
    BY MessagesMade
  <2>2. u = toClient \o <<d>>
    BY <1>3 DEF Push
  <2> HIDE DEF d, u, g
  <2>3. u = Append(toClient, d)
    BY <1>1, <2>1, <2>2, AppendIsConcat
  <2>4. /\ u \in Seq(Messages) /\ More(toClient, u, "data", d)
        /\ Same(toClient, u, "answer") /\ Same(toClient, u, "listening")
    BY <1>1, <2>1, <2>3, AppendDoes
  <2>5. \A q \in PathsOf(toClient, "data") : q # d.path => g[q] = db[q]
    BY <1>1, <1>2, <2>1 DEF Coming
  <2>6. Newest(Append(toClient, d), g)
    BY <1>1, <1>2, <2>1, <2>5, AppendNewest
  <2>7. Pushed(u, p, val)
    BY <1>3, <2>1, <2>3, <2>4, <2>6 DEF Pushed, More, Coming, g
  <2> QED
    BY <2>7 DEF u
<1>4. CASE p \notin listens
  <2>1. Push(p, val) = <<>>
    BY <1>4 DEF Push
  <2>2. u = toClient
    BY <1>1, <2>1, ConcatEmptySeq
  <2>3. \A q \in PathsOf(toClient, "data") : g[q] = db[q]
    BY <1>1, <1>2, <1>4 DEF Coming
  <2> HIDE DEF u, g
  <2>4. Newest(toClient, g)
    BY <1>1, <2>3, NewestKept
  <2>5. Pushed(u, p, val)
    BY <1>1, <1>4, <2>2, <2>4 DEF Pushed, Same, Coming, g
  <2> QED
    BY <2>5 DEF u
<1> QED
  BY <1>3, <1>4

\* What is followed stays so when the value is on its way or nobody listens.
LEMMA FollowedPushed ==
  ASSUME Typed, Followed, NEW p \in Paths, NEW val \in Values,
         db' = [db EXCEPT ![p] = val], Newest(toClient', db'),
         Coming' = Coming \cup (IF p \in listens THEN {p} ELSE {}),
         UNCHANGED <<listens, view, Asked, Told>>
  PROVE  Followed'
<1>1. listens \subseteq Paths /\ db \in [Paths -> Values]
  BY DEF Typed
<1>2. \A q \in Paths : q # p => db'[q] = db[q]
  BY <1>1
<1>3. \A q \in listens' \ Coming' : q \in listens \ Coming /\ q \in Paths /\ q # p
  BY <1>1
<1>4. \A q \in listens' \ Coming' : view'[q].serverFull /\ view'[q].server = db'[q]
  BY <1>2, <1>3 DEF Followed
<1>5. Told' \subseteq listens' /\ Coming' \subseteq listens'
  BY DEF Followed
<1>6. \A q \in Paths : Client!Observed(view'[q]) <=> q \in Asked' \cup listens'
  BY DEF Followed
<1> QED
  BY <1>4, <1>5, <1>6 DEF Followed

\* A write is accepted or refused.
LEMMA ServePutKeeps ==
  ASSUME ServiceInv, Client!TypeOK, ServePut
  PROVE  ServiceInv'
<1> DEFINE r   == Head(toServer)
           i   == r.id
           p   == r.path
           val == r.val
<1>1. /\ toServer # <<>> /\ toServer' = Tail(toServer)
      /\ UNCHANGED <<writeIdCounter, allWrites, view, sharedQueue, unackedListens, putsToAck,
                     listens, remoteWrites>>
  BY DEF ServePut, clientVars, connectionVars
<1>2. /\ toServer' \in Seq(Requests) /\ i \in Nat /\ p \in Paths /\ val \in Values
      /\ Fewer(toServer, toServer', "put", r) /\ Same(toServer, toServer', "listen")
  BY <1>1, TailDoes, Kinds DEF ServePut, ServiceInv, Typed
<1>3. PICK ok \in Verdicts :
        IF ok THEN /\ db' = [db EXCEPT ![p] = val]
                   /\ toClient' = toClient \o Push(p, val) \o <<Answer(i, TRUE)>>
              ELSE db' = db /\ toClient' = Append(toClient, Answer(i, FALSE))
  BY DEF ServePut
<1>4. ok \in BOOLEAN
  BY RealtimeDatabaseAssumption
<1> HIDE DEF p, val
<1>5. PICK u, x : /\ u \in Seq(Messages) /\ x \in Messages /\ x.msg = "answer" /\ x.id = i
                  /\ toClient' = Append(u, x)
                  /\ Same(toClient, u, "answer") /\ Same(toClient, u, "listening")
                  /\ Newest(u, db')
                  /\ \/ PathsOf(u, "data") = Coming /\ db' = db
                     \/ /\ PathsOf(u, "data") = Coming \cup (IF p \in listens THEN {p} ELSE {})
                        /\ db' = [db EXCEPT ![p] = val]
  <2>1. CASE ok
    <3> DEFINE u == toClient \o Push(p, val)
               x == Answer(i, TRUE)
    <3>1. Pushed(u, p, val)
      BY <1>2, PushDoes
    <3>2. x \in Messages /\ x.msg = "answer" /\ x.id = i
      BY <1>2, MessagesMade
    <3>3. toClient' = u \o <<x>> /\ db' = [db EXCEPT ![p] = val]
      BY <1>3, <2>1
    <3> HIDE DEF u, x
    <3>4. toClient' = Append(u, x)
      BY <3>1, <3>2, <3>3, AppendIsConcat DEF Pushed
    <3> QED
      BY <3>1, <3>2, <3>3, <3>4 DEF Pushed
  <2>2. CASE ~ok
    <3> DEFINE x == Answer(i, FALSE)
    <3>1. x \in Messages /\ x.msg = "answer" /\ x.id = i
      BY <1>2, MessagesMade
    <3>2. toClient' = Append(toClient, x) /\ db' = db
      BY <1>3, <2>2
    <3> HIDE DEF x
    <3>3. toClient \in Seq(Messages) /\ Newest(toClient, db')
      BY <3>2 DEF ServiceInv, Typed, Followed
    <3>4. Same(toClient, toClient, "answer") /\ Same(toClient, toClient, "listening")
      BY DEF Same
    <3> QED
      BY <3>1, <3>2, <3>3, <3>4 DEF Coming
  <2> QED
    BY <1>4, <2>1, <2>2
<1> HIDE DEF r, i
<1>6. /\ toClient' \in Seq(Messages) /\ More(u, toClient', "answer", x)
      /\ Same(u, toClient', "listening") /\ Same(u, toClient', "data")
      /\ Newest(toClient', db')
  BY <1>5, AppendDoes, AppendNewest
<1>7. /\ HeldIds' = HeldIds /\ AnsweredIds' = AnsweredIds \cup {i} /\ SentIds = SentIds' \cup {i}
      /\ Asked' = Asked /\ Told' = Told /\ Coming' = PathsOf(u, "data")
  BY <1>1, <1>2, <1>5, <1>6
     DEF HeldIds, AnsweredIds, SentIds, Asked, Told, Coming, Fewer, More, Same, i
<1>8. Typed'
  <2>1. db' \in [Paths -> Values]
    BY <1>2, <1>5 DEF ServiceInv, Typed
  <2> QED
    BY <1>1, <1>2, <1>6, <2>1 DEF ServiceInv, Typed
<1>9. Counted'
  BY <1>1, <1>2, <1>5, <1>6 DEF ServiceInv, Counted, Same
<1>10. InTurn'
  <2>1. InTurn
    BY DEF ServiceInv
  <2>2. Rising(toServer, "put")' /\ \A j \in SentIds' : i < j
    BY <1>1, <1>2, <2>1 DEF InTurn, Fewer, SentIds, i
  <2>3. \A j \in AnsweredIds : j < i
    BY <1>7, <2>1 DEF InTurn, Before
  <2>4. Rising(u, "answer") /\ \A j \in IdsOf(u, "answer") : j < x.id
    BY <1>5, <2>1, <2>3 DEF InTurn, Same, AnsweredIds
  <2>5. Rising(toClient, "answer")'
    BY <1>6, <2>4 DEF More
  <2>6. Before(HeldIds, AnsweredIds)' /\ Before(HeldIds, SentIds)' /\ Before(AnsweredIds, SentIds)'
    BY <1>7, <2>1, <2>2 DEF InTurn, Before
  <2>7. HeldIds' \cup AnsweredIds' \cup SentIds' = HeldIds \cup AnsweredIds \cup SentIds
    BY <1>7
  <2> QED
    BY <1>1, <2>1, <2>2, <2>5, <2>6, <2>7 DEF InTurn
<1>11. Followed'
  <2>1. CASE PathsOf(u, "data") = Coming /\ db' = db
    BY <1>1, <1>6, <1>7, <2>1, FollowedKept, ViewsFollowIf DEF ServiceInv
  <2>2. CASE /\ PathsOf(u, "data") = Coming \cup (IF p \in listens THEN {p} ELSE {})
             /\ db' = [db EXCEPT ![p] = val]
    BY <1>1, <1>2, <1>6, <1>7, <2>2, FollowedPushed DEF ServiceInv
  <2> QED
    BY <1>5, <2>1, <2>2
<1> QED
  BY <1>8, <1>9, <1>10, <1>11 DEF ServiceInv

\* A listen is served: the value, then the response.
LEMMA ServeListenKeeps ==
  ASSUME ServiceInv, Client!TypeOK, ServeListen
  PROVE  ServiceInv'
<1> DEFINE r == Head(toServer)
           p == r.path
           d == Data(p, db[p])
           x == Listening(p)
           u == Append(toClient, d)
<1>1. /\ toServer # <<>> /\ toServer' = Tail(toServer) /\ listens' = listens \cup {p}
      /\ toClient' = toClient \o <<d, x>>
      /\ UNCHANGED <<writeIdCounter, allWrites, view, sharedQueue, unackedListens, putsToAck,
                     db, remoteWrites>>
  BY DEF ServeListen, clientVars, connectionVars
<1>2. /\ toServer' \in Seq(Requests) /\ p \in Paths
      /\ Fewer(toServer, toServer', "listen", r) /\ Same(toServer, toServer', "put")
  BY <1>1, TailDoes, Kinds DEF ServeListen, ServiceInv, Typed
<1>3. /\ toClient \in Seq(Messages) /\ Newest(toClient, db) /\ db[p] \in Values
  BY <1>2 DEF ServiceInv, Typed, Followed
<1>4. /\ d \in Messages /\ d.msg = "data" /\ d.path = p /\ d.val = db[p]
      /\ x \in Messages /\ x.msg = "listening" /\ x.path = p
  BY <1>2, <1>3, MessagesMade
<1> HIDE DEF d, x
<1>5. toClient' = Append(u, x)
  BY <1>1, <1>3, <1>4
<1>6. /\ u \in Seq(Messages) /\ More(toClient, u, "data", d)
      /\ Same(toClient, u, "answer") /\ Same(toClient, u, "listening")
  BY <1>3, <1>4, AppendDoes
<1>7. Newest(u, db)
  BY <1>3, <1>4, AppendNewest
<1> HIDE DEF u
<1>8. /\ toClient' \in Seq(Messages) /\ More(u, toClient', "listening", x)
      /\ Same(u, toClient', "answer") /\ Same(u, toClient', "data")
      /\ Newest(toClient', db)
  BY <1>4, <1>5, <1>6, <1>7, AppendDoes, AppendNewest
<1>9. /\ HeldIds' = HeldIds /\ AnsweredIds' = AnsweredIds /\ SentIds' = SentIds
      /\ Asked = Asked' \cup {p} /\ Told' = Told \cup {p} /\ Coming' = Coming \cup {p}
  BY <1>1, <1>2, <1>4, <1>6, <1>8
     DEF HeldIds, AnsweredIds, SentIds, Asked, Told, Coming, Fewer, More, Same
<1> HIDE DEF r, p
<1>10. Typed'
  BY <1>1, <1>2, <1>8 DEF ServiceInv, Typed
<1>11. Counted'
  <2>1. /\ Count(toServer', "listen") \in Nat /\ Count(toServer, "listen") \in Nat
        /\ Count(toClient, "listening") \in Nat
    BY <1>2, CountIs DEF ServiceInv, Typed
  <2> QED
    BY <1>1, <1>2, <1>6, <1>8, <2>1 DEF ServiceInv, Counted, Fewer, More, Same
<1>12. InTurn'
  BY <1>1, <1>2, <1>6, <1>8, <1>9 DEF ServiceInv, InTurn, Same
<1>13. Followed'
  <2>1. p \in Paths /\ Followed /\ listens \subseteq Paths
    BY <1>2 DEF ServiceInv, Typed
  <2>2. \A q \in Paths : Client!Observed(view'[q]) <=> q \in Asked' \cup listens'
    BY <1>1, <1>9, <2>1 DEF Followed
  <2>3. Told' \subseteq listens' /\ Coming' \subseteq listens' /\ Newest(toClient', db')
    BY <1>1, <1>8, <1>9, <2>1 DEF Followed
  <2>4. \A q \in listens' \ Coming' : view'[q].serverFull /\ view'[q].server = db'[q]
    BY <1>1, <1>9, <2>1 DEF Followed
  <2>5. \A q \in listens' \ Told' : view'[q].serverFull
    BY <1>1, <1>9, <2>1 DEF Followed
  <2>6. \A q \in Paths : ~Client!Observed(view'[q]) => ~view'[q].eventFull
    BY <1>1, <2>1 DEF Followed
  <2> QED
    BY <2>2, <2>3, <2>4, <2>5, <2>6 DEF Followed
<1> QED
  BY <1>10, <1>11, <1>12, <1>13 DEF ServiceInv

\* Others write.
LEMMA RemoteWriteKeeps ==
  ASSUME ServiceInv, NEW p \in RemotePaths, NEW val \in RemoteValues[p], RemoteWrite(p, val)
  PROVE  ServiceInv'
<1>1. /\ remoteWrites < MaxRemote /\ remoteWrites' = remoteWrites + 1
      /\ db' = [db EXCEPT ![p] = val] /\ toClient' = toClient \o Push(p, val)
      /\ UNCHANGED <<writeIdCounter, allWrites, view, sharedQueue, unackedListens, putsToAck,
                     toServer, listens>>
  BY DEF RemoteWrite, clientVars, connectionVars
<1>2. p \in Paths /\ val \in Values
  BY RealtimeDatabaseAssumption
<1>3. Pushed(toClient', p, val)
  BY <1>1, <1>2, PushDoes
<1>4. /\ HeldIds' = HeldIds /\ AnsweredIds' = AnsweredIds /\ SentIds' = SentIds
      /\ Asked' = Asked /\ Told' = Told
      /\ Coming' = Coming \cup (IF p \in listens THEN {p} ELSE {})
      /\ Newest(toClient', db')
  BY <1>1, <1>3 DEF HeldIds, AnsweredIds, SentIds, Asked, Told, Coming, Pushed, Same
<1>5. Typed'
  <2>1. db' \in [Paths -> Values] /\ remoteWrites' \in 0..MaxRemote
    BY <1>1, <1>2, RealtimeDatabaseAssumption DEF ServiceInv, Typed
  <2> QED
    BY <1>1, <1>3, <2>1 DEF ServiceInv, Typed, Pushed
<1>6. InTurn' /\ Counted'
  BY <1>1, <1>3, <1>4 DEF ServiceInv, InTurn, Counted, Pushed, Same
<1>7. Followed'
  BY <1>1, <1>2, <1>4, FollowedPushed DEF ServiceInv
<1> QED
  BY <1>5, <1>6, <1>7 DEF ServiceInv

-----------------------------------------------------------------------------
(* The invariant, and what follows from it.                                *)

\* When the app starts nothing is on its way.
LEMMA DatabaseInitially ==
  ASSUME NEW initial \in [Paths -> Values], ServiceInit(initial)
  PROVE  DatabaseInv
<1>2. ClientP!CInv
  BY ClientAssumption, SameClient, ClientP!CurrentInitially DEF ServiceInit
<1>3. /\ toServer = <<>> /\ toClient = <<>> /\ putsToAck = <<>> /\ sharedQueue = <<>>
      /\ unackedListens = 0 /\ listens = {} /\ db = initial /\ remoteWrites = 0
      /\ writeIdCounter = 0 /\ allWrites = {} /\ view = [p \in Paths |-> Client!NoView]
  BY DEF ServiceInit, Client!Init
<1>4. \A m : At(<<>>, m) = {} /\ IdsOf(<<>>, m) = {} /\ PathsOf(<<>>, m) = {}
  BY NothingThere
<1>5. Typed
  <2>1. 0 \in 0..MaxRemote
    BY RealtimeDatabaseAssumption
  <2> QED
    BY <1>3, <2>1, EmptySeq DEF Typed
<1>6. InTurn
  BY <1>3, <1>4 DEF InTurn, HeldIds, AnsweredIds, SentIds, Rising, Before
<1>7. Counted
  <2>1. \A m : Count(<<>>, m) = 0
    BY <1>4, FS_EmptySet DEF Count
  <2> QED
    BY <1>3, <2>1 DEF Counted
<1>8. Followed
  <2>1. Newest(toClient, db)
    BY <1>3, <1>4 DEF Newest
  <2>2. \A p \in Paths : ~Client!Observed(view[p]) /\ ~view[p].eventFull
    BY <1>3 DEF Client!NoView, Client!Observed
  <2> QED
    BY <1>3, <1>4, <2>1, <2>2 DEF Followed, Asked, Told, Coming
<1> QED
  BY <1>2, <1>5, <1>6, <1>7, <1>8 DEF DatabaseInv, ServiceInv

\* Each step keeps it.
LEMMA DatabaseStep ==
  ASSUME DatabaseInv, Moves
  PROVE  DatabaseInv'
<1>1. ServiceInv /\ Client!TypeOK /\ ClientP!CInv
  BY ClientInv DEF DatabaseInv
<1>2. ClientP!CInv'
  BY <1>1, ClientStep, SameClient, ClientAssumption, ClientP!CurrentStep
<1> SUFFICES ServiceInv'
  BY <1>2 DEF DatabaseInv
<1>3. CASE AppMoves
  <2>1. PICK cs \in Seq(Calls) : sharedQueue' = sharedQueue \o cs
    BY <1>3 DEF AppMoves
  <2>2. UNCHANGED <<connectionVars, serverVars, writeIdCounter, allWrites, view>>
    BY <1>3 DEF AppMoves, clientVars, farVars, Client!Dispatch, Client!FireEvent
  <2>3. sharedQueue' \in Seq(Calls)
    BY <1>1, <2>1, ConcatProperties DEF ServiceInv, Typed
  <2> QED
    BY <1>1, <2>2, <2>3, ServiceUnchanged, ViewsFollowIf
<1>6. CASE RunSet \/ RunObserve
  BY <1>1, <1>6, RunSetKeeps, RunObserveKeeps
<1>7. CASE Receive
  <2>1. Head(toClient).msg = "data" \/ Head(toClient).msg = "listening"
        \/ Head(toClient).msg = "answer"
    BY <1>7 DEF Receive
  <2> QED
    BY <1>7, <2>1, DataKeeps, ListeningKeeps, AnswerKeeps
<1>8. CASE AckPut
  BY <1>8, AckPutKeeps
<1>9. CASE ServePut \/ ServeListen
  BY <1>1, <1>9, ServePutKeeps, ServeListenKeeps
<1>10. CASE \E p \in RemotePaths : \E val \in RemoteValues[p] : RemoteWrite(p, val)
  BY <1>1, <1>10, RemoteWriteKeeps
<1>11. CASE UNCHANGED serviceVars
  <2>1. UNCHANGED <<sharedQueue, connectionVars, serverVars, writeIdCounter, allWrites, view>>
    BY <1>11 DEF serviceVars, clientVars
  <2>2. sharedQueue' \in Seq(Calls)
    BY <1>1, <2>1 DEF ServiceInv, Typed
  <2> QED
    BY <1>1, <2>1, <2>2, ServiceUnchanged, ViewsFollowIf
<1> QED
  BY <1>3, <1>6, <1>7, <1>8, <1>9, <1>10, <1>11 DEF Moves, ServiceNext

\* Once the listens are answered the observed views have the server's value.
LEMMA AllServed ==
  ASSUME DatabaseInv, unackedListens = 0
  PROVE  \A q \in Paths : view[q].serverFull \/ ~Client!Observed(view[q])
<1>1. /\ Count(toServer, "listen") \in Nat /\ Count(toClient, "listening") \in Nat
      /\ Count(toServer, "listen") = 0 => At(toServer, "listen") = {}
      /\ Count(toClient, "listening") = 0 => At(toClient, "listening") = {}
  BY CountIs DEF DatabaseInv, ServiceInv, Typed
<1>2. Count(toServer, "listen") = 0 /\ Count(toClient, "listening") = 0
  BY <1>1 DEF DatabaseInv, ServiceInv, Counted
<1>3. Asked = {} /\ Told = {}
  BY <1>1, <1>2 DEF Asked, Told, PathsOf
<1> QED
  BY <1>3 DEF DatabaseInv, ServiceInv, Followed

\* No step takes away what a view shows.
LEMMA ShowingStep ==
  ASSUME DatabaseInv, Moves, NEW p \in Paths, view[p].eventFull
  PROVE  view'[p].eventFull
<1>1. Client!TypeOK /\ Typed /\ Followed
  BY ClientInv DEF DatabaseInv, ServiceInv
<1>2. CASE UNCHANGED view
  BY <1>2
<1>3. CASE RunSet
  <2>1. Head(sharedQueue).path \in Paths /\ Head(sharedQueue).val \in Values
    BY <1>1, <1>3, TailDoes, Kinds DEF RunSet, Typed
  <2> QED
    BY <1>1, <1>3, <2>1, WriteViews DEF RunSet, Client!Set, KeepsShowing
<1>4. CASE RunObserve
  <2> DEFINE h == Head(sharedQueue).handler
  <2>1. h \in Handlers /\ Client!AddEventRegistration(h)
    BY <1>1, <1>4, TailDoes, Kinds DEF RunObserve, Client!Observe, Typed
  <2> HIDE DEF h
  <2>2. Client!Observed(view[p])
    BY <1>1 DEF Followed
  <2> QED
    BY <1>1, <2>1, <2>2, ObserveViews
<1>5. CASE Receive
  <2> DEFINE m == Head(toClient)
  <2>1. m \in Messages /\ Free
    BY <1>1, <1>5, TailDoes DEF Receive, Typed
  <2>2. CASE m.msg = "data" /\ Client!ApplyServerOverwrite(m.path, m.val)
    <3>1. m.path \in Paths /\ m.val \in Values
      BY <2>1, <2>2, Kinds
    <3> QED
      BY <1>1, <2>2, <3>1, DataViews DEF KeepsShowing
  <2>3. CASE m.msg = "listening" /\ Client!ApplyListenComplete(m.path)
    <3>1. m.path \in Paths
      BY <2>1, <2>3, Kinds
    <3>2. view[m.path].server \in Values
      BY <1>1, <3>1 DEF Client!TypeOK, Client!View
    <3> QED
      BY <1>1, <2>3, <3>1, <3>2, DataViews DEF KeepsShowing, Client!ApplyListenComplete
  <2>4. CASE m.msg = "answer" /\ ~HeldBack /\ Acknowledge(m)
    <3>1. unackedListens = 0
      BY <1>1, <2>4 DEF HeldBack, Typed
    <3>2. m \in Answers
      BY <2>1, <2>4, Kinds
    <3> QED
      BY <2>4, <3>1, <3>2, AllServed, AcknowledgeDoes DEF KeepsShowing
  <2>5. CASE UNCHANGED clientVars
    BY <2>5 DEF clientVars
  <2> QED
    BY <1>5, <2>2, <2>3, <2>4, <2>5 DEF Receive
<1>6. CASE AckPut
  <2>1. unackedListens = 0 /\ Acknowledge(Head(putsToAck)) /\ putsToAck # <<>>
    BY <1>6 DEF AckPut, LettingGo
  <2>2. Head(putsToAck) \in Answers
    BY <1>1, <2>1, TailDoes DEF Typed
  <2> QED
    BY <2>1, <2>2, AllServed, AcknowledgeDoes DEF KeepsShowing
<1>7. UNCHANGED view \/ RunSet \/ RunObserve \/ Receive \/ AckPut
  BY DEF Moves, ServiceNext, AppMoves, Client!Dispatch, Client!FireEvent, ServePut, ServeListen,
         RemoteWrite, clientVars, serviceVars
<1> QED
  BY <1>2, <1>3, <1>4, <1>5, <1>6, <1>7

\* When nothing is on its way no write is pending, and every observed view
\* shows what the database holds.
LEMMA ViewsWhenQuiet ==
  ASSUME DatabaseInv, Quiet
  PROVE  /\ allWrites = {}
         /\ \A p \in Paths : Client!Observed(view[p]) => view[p].eventFull /\ view[p].event = db[p]
<1>1. ServiceInv /\ Client!TypeOK /\ ClientP!CInv
  BY ClientInv DEF DatabaseInv
<1>2. \A m : At(toServer, m) = {} /\ At(toClient, m) = {} /\ At(putsToAck, m) = {}
  BY NothingThere DEF Quiet
<1>3. Asked = {} /\ Coming = {} /\ HeldIds = {} /\ AnsweredIds = {} /\ SentIds = {}
  BY <1>2 DEF Asked, Coming, HeldIds, AnsweredIds, SentIds, PathsOf, IdsOf
<1>4. allWrites = {}
  BY <1>1, <1>3 DEF ServiceInv, InTurn
<1>5. ASSUME NEW p \in Paths, Client!Observed(view[p])
      PROVE  view[p].eventFull /\ view[p].event = db[p]
  <2>1. view[p].serverFull /\ view[p].server = db[p]
    BY <1>1, <1>3, <1>5 DEF ServiceInv, Followed
  <2>2. visibleWrites[p] = NoWrite
    BY <1>1, <1>4
       DEF ClientP!CInv, ClientP!IInv, ClientP!VisibleIsLayered, ClientP!Layer
  <2>3. ClientP!Observed(view[p])
    BY <1>5 DEF Client!Observed, ClientP!Observed
  <2> QED
    BY <1>1, <2>1, <2>2, <2>3 DEF ClientP!CInv, ClientP!IInv, ClientP!ViewIsOverlay
<1> QED
  BY <1>4, <1>5

\* Does h watch its path?
Watches(views, h) == ClientP!Registered(views[PathOf[h]], h)

\* Who watches a path observes it.
LEMMA WatchedIsObserved ==
  ASSUME Client!TypeOK, NEW h \in Handlers, Watches(view, h)
  PROVE  PathOf[h] \in Paths /\ Client!Observed(view[PathOf[h]])
<1>1. PathOf[h] \in Paths
  BY RealtimeDatabaseAssumption
<1>2. view[PathOf[h]].regs \in Seq(Handlers) /\ \E i \in 1..Len(view[PathOf[h]].regs) : TRUE
  BY <1>1 DEF Watches, ClientP!Registered, Client!TypeOK, Client!View
<1> QED
  BY <1>1, <1>2, EmptySeq DEF Client!Observed

\* When nothing is on its way every registered handler was called with what
\* the database holds.
LEMMA ShownWhenQuiet ==
  ASSUME DatabaseInv, Quiet, NEW h \in Handlers, Watches(view, h)
  PROVE  shown[h] = db[PathOf[h]]
<1>1. Client!TypeOK /\ ClientP!CInv
  BY ClientInv DEF DatabaseInv
<1>2. view[PathOf[h]].eventFull /\ view[PathOf[h]].event = db[PathOf[h]]
  BY <1>1, WatchedIsObserved, ViewsWhenQuiet
<1>3. ClientP!LastIs(mainQueue, shown, h, view[PathOf[h]].event)
  BY <1>1, <1>2 DEF ClientP!CInv, ClientP!AllCurrent, ClientP!Current, Watches
<1>4. ~ \E k \in 1..Len(mainQueue) : TRUE
  BY EmptySeq DEF Quiet
<1> QED
  BY <1>2, <1>3, <1>4 DEF ClientP!LastIs

-----------------------------------------------------------------------------
(* What a screen may say of its callbacks and of its calls.                *)

\* Is a block of q a call of h?
Due(q, h) == \E k \in 1..Len(q) : ClientP!For(q[k], h)

IsSet(c, p) == c.call = "set" /\ c.path = p
IsObserve(c, h) == c.call = "observe" /\ c.handler = h

\* Is a call of cs to register h?
AskedFor(cs, h) == \E k \in 1..Len(cs) : IsObserve(cs[k], h)

\* Is the last write of p among cs one of the values W?
LastSet(cs, p, W) ==
  \E i \in 1..Len(cs) : /\ IsSet(cs[i], p) /\ cs[i].val \in W
                        /\ \A j \in 1..Len(cs) : IsSet(cs[j], p) => j <= i

\* Does h watch a view that has something to show?
Fed(views, h) == Watches(views, h) /\ views[PathOf[h]].eventFull

\* Nobody was called, or will be, who does not watch such a view.
Heard == \A h \in Handlers : shown[h] # NoWrite \/ Due(mainQueue, h) => Fed(view, h)

\* A screen that goes by the values S is right about what h shows, or will be
\* told: by a block of q, by a registration or a write W of its own in cs.
Follows(s, q, cs, h, S, W) ==
  \/ s[h] \in {NoWrite, Null} \cup S
  \/ Due(q, h) \/ AskedFor(cs, h) \/ LastSet(cs, PathOf[h], W)

\* Is u the elements of s and then those of t?
Together(s, t, u) ==
  /\ Len(s) \in Nat /\ Len(t) \in Nat
  /\ \A k \in 1..Len(s) : k \in 1..Len(u) /\ u[k] = s[k]
  /\ \A k \in 1..Len(t) : Len(s) + k \in 1..Len(u) /\ u[Len(s) + k] = t[k]
  /\ \A k \in 1..Len(u) : \/ k \in 1..Len(s) /\ u[k] = s[k]
                          \/ \E i \in 1..Len(t) : k = Len(s) + i /\ u[k] = t[i]

\* The elements of two sequences put together.
LEMMA Joined ==
  ASSUME NEW D, NEW s \in Seq(D), NEW t \in Seq(D)
  PROVE  s \o t \in Seq(D) /\ Together(s, t, s \o t)
<1>1. /\ Len(s) \in Nat /\ Len(t) \in Nat /\ s \o t \in Seq(D) /\ Len(s \o t) = Len(s) + Len(t)
      /\ \A i \in 1..Len(s) + Len(t) : (s \o t)[i] = IF i <= Len(s) THEN s[i] ELSE t[i - Len(s)]
  BY ConcatProperties, LenProperties
<1>2. \A k \in 1..Len(s) : k \in 1..Len(s \o t) /\ (s \o t)[k] = s[k]
  BY <1>1
<1>3. ASSUME NEW k \in 1..Len(t)
      PROVE  Len(s) + k \in 1..Len(s \o t) /\ (s \o t)[Len(s) + k] = t[k]
  <2>1. Len(s) + k \in 1..Len(s) + Len(t) /\ ~(Len(s) + k <= Len(s)) /\ (Len(s) + k) - Len(s) = k
    BY <1>1
  <2> QED
    BY <1>1, <2>1
<1>4. ASSUME NEW k \in 1..Len(s \o t), k \notin 1..Len(s)
      PROVE  \E i \in 1..Len(t) : k = Len(s) + i /\ (s \o t)[k] = t[i]
  <2>1. k - Len(s) \in 1..Len(t) /\ k = Len(s) + (k - Len(s))
    BY <1>1, <1>4
  <2> QED
    BY <1>3, <2>1
<1> QED
  BY <1>1, <1>2, <1>3, <1>4 DEF Together

\* Is t the elements of s but the first, x?
Without(s, x, t) ==
  /\ x = s[1] /\ 1 \in 1..Len(s) /\ Len(t) \in Nat
  /\ \A k \in 1..Len(s) : k = 1 \/ \E i \in 1..Len(t) : k = i + 1 /\ t[i] = s[k]
  /\ \A i \in 1..Len(t) : i + 1 \in 1..Len(s) /\ s[i + 1] = t[i]

\* The elements of a sequence without its first.
LEMMA Shortened ==
  ASSUME NEW D, NEW s \in Seq(D), s # <<>>
  PROVE  Tail(s) \in Seq(D) /\ Head(s) \in D /\ Without(s, Head(s), Tail(s))
<1>1. /\ Tail(s) \in Seq(D) /\ Head(s) \in D /\ Head(s) = s[1] /\ Len(s) \in Nat /\ Len(s) > 0
      /\ Len(Tail(s)) = Len(s) - 1
      /\ \A i \in 1..Len(Tail(s)) : Tail(s)[i] = s[i + 1]
  BY HeadTailProperties, LenProperties, EmptySeq
<1>2. \A i \in 1..Len(Tail(s)) : i + 1 \in 1..Len(s) /\ s[i + 1] = Tail(s)[i]
  BY <1>1
<1>3. ASSUME NEW k \in 1..Len(s), k # 1
      PROVE  \E i \in 1..Len(Tail(s)) : k = i + 1 /\ Tail(s)[i] = s[k]
  <2>1. k - 1 \in 1..Len(Tail(s)) /\ k = (k - 1) + 1
    BY <1>1, <1>3
  <2> QED
    BY <1>2, <2>1
<1> QED
  BY <1>1, <1>2, <1>3 DEF Without

\* What is due, asked for and written, when two queues are put together.
LEMMA DueJoined ==
  ASSUME NEW D, NEW q \in Seq(D), NEW t \in Seq(D), NEW h
  PROVE  Due(q \o t, h) <=> Due(q, h) \/ Due(t, h)
<1> DEFINE u == q \o t
<1>1. Together(q, t, u)
  BY Joined
<1> HIDE DEF u
<1>2. Due(u, h) <=> Due(q, h) \/ Due(t, h)
  BY <1>1 DEF Due, Together
<1> QED
  BY <1>2 DEF u

LEMMA AskedJoined ==
  ASSUME NEW cs \in Seq(Calls), NEW ds \in Seq(Calls), NEW h
  PROVE  AskedFor(cs \o ds, h) <=> AskedFor(cs, h) \/ AskedFor(ds, h)
<1> DEFINE u == cs \o ds
<1>1. Together(cs, ds, u)
  BY Joined
<1> HIDE DEF u
<1>2. AskedFor(u, h) <=> AskedFor(cs, h) \/ AskedFor(ds, h)
  BY <1>1 DEF AskedFor, Together
<1> QED
  BY <1>2 DEF u

LEMMA LastSetJoined ==
  ASSUME NEW cs \in Seq(Calls), NEW ds \in Seq(Calls), NEW p, NEW W
  PROVE  /\ LastSet(ds, p, W) => LastSet(cs \o ds, p, W)
         /\ LastSet(cs, p, W) /\ (\A i \in 1..Len(ds) : ~IsSet(ds[i], p))
              => LastSet(cs \o ds, p, W)
<1> DEFINE u == cs \o ds
<1>0. Together(cs, ds, u)
  BY Joined
<1> HIDE DEF u
<1>1. ASSUME LastSet(ds, p, W) PROVE LastSet(u, p, W)
  <2>1. PICK i \in 1..Len(ds) : /\ IsSet(ds[i], p) /\ ds[i].val \in W
                                /\ \A j \in 1..Len(ds) : IsSet(ds[j], p) => j <= i
    BY <1>1 DEF LastSet
  <2>2. Len(cs) + i \in 1..Len(u) /\ u[Len(cs) + i] = ds[i]
    BY <1>0 DEF Together
  <2>3. \A j \in 1..Len(u) : IsSet(u[j], p) => j <= Len(cs) + i
    <3>1. ASSUME NEW j \in 1..Len(u), IsSet(u[j], p) PROVE j <= Len(cs) + i
      <4>1. CASE j \in 1..Len(cs)
        BY <1>0, <2>1, <4>1 DEF Together
      <4>2. CASE \E k \in 1..Len(ds) : j = Len(cs) + k /\ u[j] = ds[k]
        BY <1>0, <2>1, <3>1, <4>2 DEF Together
      <4> QED
        BY <1>0, <4>1, <4>2 DEF Together
    <3> QED
      BY <3>1
  <2> QED
    BY <2>1, <2>2, <2>3 DEF LastSet
<1>2. ASSUME LastSet(cs, p, W), \A i \in 1..Len(ds) : ~IsSet(ds[i], p)
      PROVE  LastSet(u, p, W)
  <2>1. PICK i \in 1..Len(cs) : /\ IsSet(cs[i], p) /\ cs[i].val \in W
                                /\ \A j \in 1..Len(cs) : IsSet(cs[j], p) => j <= i
    BY <1>2 DEF LastSet
  <2>2. i \in 1..Len(u) /\ u[i] = cs[i]
    BY <1>0 DEF Together
  <2>3. \A j \in 1..Len(u) : IsSet(u[j], p) => j <= i
    BY <1>0, <1>2, <2>1 DEF Together
  <2> QED
    BY <2>1, <2>2, <2>3 DEF LastSet
<1> QED
  BY <1>1, <1>2 DEF u

\* And when the first of them is taken.
LEMMA DueShortened ==
  ASSUME NEW D, NEW q \in Seq(D), q # <<>>, NEW h
  PROVE  Due(q, h) <=> Due(Tail(q), h) \/ ClientP!For(Head(q), h)
<1> DEFINE x == Head(q)
           t == Tail(q)
<1>1. Without(q, x, t)
  BY Shortened
<1> HIDE DEF x, t
<1>2. Due(q, h) <=> Due(t, h) \/ ClientP!For(x, h)
  BY <1>1 DEF Due, Without
<1> QED
  BY <1>2 DEF x, t

LEMMA AskedShortened ==
  ASSUME NEW cs \in Seq(Calls), cs # <<>>, NEW h
  PROVE  AskedFor(cs, h) <=> AskedFor(Tail(cs), h) \/ IsObserve(Head(cs), h)
<1> DEFINE x == Head(cs)
           t == Tail(cs)
<1>1. Without(cs, x, t)
  BY Shortened
<1> HIDE DEF x, t
<1>2. AskedFor(cs, h) <=> AskedFor(t, h) \/ IsObserve(x, h)
  BY <1>1 DEF AskedFor, Without
<1> QED
  BY <1>2 DEF x, t

LEMMA LastSetShortened ==
  ASSUME NEW cs \in Seq(Calls), cs # <<>>, NEW p, NEW W, LastSet(cs, p, W)
  PROVE  \/ LastSet(Tail(cs), p, W)
         \/ IsSet(Head(cs), p) /\ Head(cs).val \in W
<1> DEFINE x == Head(cs)
           t == Tail(cs)
<1>0. Without(cs, x, t)
  BY Shortened
<1> HIDE DEF x, t
<1>1. PICK i \in 1..Len(cs) : /\ IsSet(cs[i], p) /\ cs[i].val \in W
                              /\ \A j \in 1..Len(cs) : IsSet(cs[j], p) => j <= i
  BY DEF LastSet
<1>2. CASE i = 1
  BY <1>0, <1>1, <1>2 DEF Without
<1>3. CASE i # 1
  <2>1. PICK k \in 1..Len(t) : i = k + 1 /\ t[k] = cs[i]
    BY <1>0, <1>3 DEF Without
  <2>2. \A j \in 1..Len(t) : IsSet(t[j], p) => j <= k
    <3>1. ASSUME NEW j \in 1..Len(t), IsSet(t[j], p) PROVE j <= k
      <4>1. j + 1 \in 1..Len(cs) /\ cs[j + 1] = t[j]
        BY <1>0 DEF Without
      <4>2. j + 1 <= k + 1
        BY <1>1, <2>1, <3>1, <4>1
      <4> QED
        BY <4>2
    <3> QED
      BY <3>1
  <2> QED
    BY <1>1, <2>1, <2>2 DEF LastSet
<1> QED
  BY <1>2, <1>3 DEF x, t

-----------------------------------------------------------------------------
(* What the client raises.                                                 *)

\* It appends to the main queue events of what the views now show, to those
\* who watch, and the completions of the writes that are answered.
Raised(t) ==
  /\ t \in Seq(Client!Block)
  /\ mainQueue' = mainQueue \o t /\ shown' = shown
  /\ \A k \in 1..Len(t) :
       \/ t[k].kind = "done"
       \/ /\ t[k].kind = "value" /\ t[k].handler \in Handlers /\ Fed(view', t[k].handler)
          /\ t[k].val = view'[PathOf[t[k].handler]].event
  /\ \A h \in Handlers : Watches(view, h) => Watches(view', h)
  /\ \A w \in allWrites :
       w \in allWrites' \/ \E k \in 1..Len(t) : t[k].kind = "done" /\ t[k].write = w

\* The value events of one view.
LEMMA EventsAre ==
  ASSUME NEW old \in Client!View, NEW new \in Client!View
  PROVE  /\ Client!ValueEvents(old, new) \in Seq(Client!Block)
         /\ \A k \in 1..Len(Client!ValueEvents(old, new)) :
              /\ new.eventFull /\ k \in 1..Len(new.regs)
              /\ Client!ValueEvents(old, new)[k] = Client!ValueBlock(new.regs[k], new.event)
<1> DEFINE s == [i \in 1..Len(new.regs) |-> Client!ValueBlock(new.regs[i], new.event)]
<1>1. new.regs \in Seq(Handlers) /\ new.event \in Values /\ Len(new.regs) \in Nat
  BY LenProperties DEF Client!View
<1>2. \A i \in 1..Len(new.regs) : Client!ValueBlock(new.regs[i], new.event) \in Client!Block
  BY <1>1, ElementOfSeq DEF Client!ValueBlock, Client!Block
<1>3. s \in [1..Len(new.regs) -> Client!Block]
  BY <1>2
<1>4. s \in Seq(Client!Block) /\ Len(s) = Len(new.regs)
  BY <1>1, <1>3, FunctionIsSeq
<1>5. CASE new.eventFull /\ (~old.eventFull \/ new.event # old.event)
  BY <1>1, <1>4, <1>5 DEF Client!ValueEvents
<1>6. CASE ~(new.eventFull /\ (~old.eventFull \/ new.event # old.event))
  BY <1>6, EmptySeq DEF Client!ValueEvents
<1> QED
  BY <1>5, <1>6

\* One view changes, its events are raised, and then the completions t.
LEMMA ViewRaises ==
  ASSUME Client!TypeOK, ClientP!OwnRegistrations, NEW p \in Paths, NEW new \in Client!View,
         new.regs = view[p].regs, view' = [view EXCEPT ![p] = new],
         NEW t \in Seq(Client!Block), \A k \in 1..Len(t) : t[k].kind = "done",
         mainQueue' = mainQueue \o Client!ValueEvents(view[p], new) \o t, shown' = shown,
         \A w \in allWrites :
           w \in allWrites' \/ \E k \in 1..Len(t) : t[k].kind = "done" /\ t[k].write = w
  PROVE  \E u : Raised(u)
<1> DEFINE e == Client!ValueEvents(view[p], new)
           u == e \o t
<1>1. /\ view \in [Paths -> Client!View] /\ view[p] \in Client!View
      /\ mainQueue \in Seq(Client!Block)
  BY DEF Client!TypeOK
<1>2. e \in Seq(Client!Block) /\ \A k \in 1..Len(e) :
        /\ new.eventFull /\ k \in 1..Len(new.regs)
        /\ e[k] = Client!ValueBlock(new.regs[k], new.event)
  BY <1>1, EventsAre
<1>3. mainQueue' = (mainQueue \o e) \o t
  OBVIOUS
<1> HIDE DEF e
<1>4. u \in Seq(Client!Block) /\ Together(e, t, u)
  BY <1>2, Joined
<1>5. mainQueue' = mainQueue \o u
  BY <1>1, <1>2, <1>3, ConcatAssociative
<1> HIDE DEF u
<1>6. view'[p] = new /\ \A q \in Paths : view'[q].regs = view[q].regs
  BY <1>1
<1>7. ASSUME NEW k \in 1..Len(e)
      PROVE  /\ e[k].kind = "value" /\ e[k].handler \in Handlers /\ Fed(view', e[k].handler)
             /\ e[k].val = view'[PathOf[e[k].handler]].event
  <2>0. e[k] = Client!ValueBlock(new.regs[k], new.event)
    BY <1>2
  <2>1. e[k].kind = "value" /\ e[k].handler = new.regs[k] /\ e[k].val = new.event
    BY <2>0 DEF Client!ValueBlock
  <2>2. new.regs[k] \in Handlers /\ PathOf[new.regs[k]] = p
    <3>1. new.regs \in Seq(Handlers) /\ k \in 1..Len(new.regs)
      BY <1>2 DEF Client!View
    <3> QED
      BY <3>1, ElementOfSeq DEF ClientP!OwnRegistrations
  <2> QED
    BY <1>2, <1>6, <2>1, <2>2 DEF Fed, Watches, ClientP!Registered
<1>8. ASSUME NEW k \in 1..Len(u)
      PROVE  \/ u[k].kind = "done"
             \/ /\ u[k].kind = "value" /\ u[k].handler \in Handlers /\ Fed(view', u[k].handler)
                /\ u[k].val = view'[PathOf[u[k].handler]].event
  <2>1. CASE k \in 1..Len(e) /\ u[k] = e[k]
    BY <1>7, <2>1
  <2>2. CASE \E i \in 1..Len(t) : k = Len(e) + i /\ u[k] = t[i]
    BY <2>2
  <2> QED
    BY <1>4, <2>1, <2>2 DEF Together
<1>9. \A h \in Handlers : Watches(view, h) => Watches(view', h)
  BY <1>6, RealtimeDatabaseAssumption DEF Watches, ClientP!Registered
<1>10. \A w \in allWrites :
         w \in allWrites' \/ \E k \in 1..Len(u) : u[k].kind = "done" /\ u[k].write = w
  <2> SUFFICES ASSUME NEW w \in allWrites, w \notin allWrites'
               PROVE  \E k \in 1..Len(u) : u[k].kind = "done" /\ u[k].write = w
    OBVIOUS
  <2>1. PICK k \in 1..Len(t) : t[k].kind = "done" /\ t[k].write = w
    OBVIOUS
  <2>2. Len(e) + k \in 1..Len(u) /\ u[Len(e) + k] = t[k]
    BY <1>4 DEF Together
  <2> QED
    BY <2>1, <2>2
<1>11. Raised(u)
  BY <1>4, <1>5, <1>8, <1>9, <1>10 DEF Raised
<1> QED
  BY <1>11

\* A view and no completion.
LEMMA ViewRaisesOnly ==
  ASSUME Client!TypeOK, ClientP!OwnRegistrations, NEW p \in Paths, NEW new \in Client!View,
         new.regs = view[p].regs, view' = [view EXCEPT ![p] = new],
         mainQueue' = mainQueue \o Client!ValueEvents(view[p], new), shown' = shown,
         \A w \in allWrites : w \in allWrites'
  PROVE  \E u : Raised(u)
<1> DEFINE e == Client!ValueEvents(view[p], new)
           q == mainQueue \o e
<1>1. mainQueue \in Seq(Client!Block) /\ e \in Seq(Client!Block)
  BY EventsAre DEF Client!TypeOK
<1>2. q \in Seq(Client!Block)
  BY <1>1, ConcatProperties
<1> HIDE DEF q
<1>3. q \o <<>> = q
  BY <1>2, ConcatEmptySeq
<1>4. mainQueue' = mainQueue \o e \o <<>>
  BY <1>3 DEF q
<1>5. <<>> \in Seq(Client!Block) /\ \A k \in 1..Len(<<>>) : <<>>[k].kind = "done"
  BY EmptySeq
<1> QED
  BY <1>4, <1>5, ViewRaises

\* The views that the view processor makes.
LEMMA ViewsAre ==
  ASSUME NEW v \in Client!View, NEW val \in Values, NEW shadow
  PROVE  /\ Client!UserOverwrite(v, val) \in Client!View
         /\ Client!ServerOverwrite(v, val, shadow) \in Client!View
         /\ Client!AckWrite(v, shadow) \in Client!View
         /\ Client!RevertWrite(v, shadow) \in Client!View
         /\ Client!UserOverwrite(v, val).regs = v.regs
         /\ Client!ServerOverwrite(v, val, shadow).regs = v.regs
         /\ Client!AckWrite(v, shadow).regs = v.regs
         /\ Client!RevertWrite(v, shadow).regs = v.regs
<1>1. Null \in Values
  BY RealtimeDatabaseAssumption
<1>2. v.server \in Values
  BY DEF Client!View
<1> QED
  BY <1>1, <1>2 DEF Client!View, Client!Observed, Client!UserOverwrite, Client!ServerOverwrite,
                    Client!AckWrite, Client!RevertWrite

LEMMA WriteRaises ==
  ASSUME Client!TypeOK, ClientP!OwnRegistrations, NEW p \in Paths, NEW val \in Values,
         Client!ApplyUserOverwrite(p, val)
  PROVE  \E u : Raised(u)
<1> DEFINE new == Client!UserOverwrite(view[p], val)
<1>1. view[p] \in Client!View
  BY DEF Client!TypeOK
<1>2. new \in Client!View /\ new.regs = view[p].regs
  BY <1>1, ViewsAre
<1>3. /\ view' = [view EXCEPT ![p] = new] /\ shown' = shown
      /\ mainQueue' = mainQueue \o Client!ValueEvents(view[p], new)
      /\ \A w \in allWrites : w \in allWrites'
  BY DEF Client!ApplyUserOverwrite
<1> HIDE DEF new
<1> QED
  BY <1>2, <1>3, ViewRaisesOnly

LEMMA DataRaises ==
  ASSUME Client!TypeOK, ClientP!OwnRegistrations, NEW p \in Paths, NEW val \in Values,
         Client!ApplyServerOverwrite(p, val)
  PROVE  \E u : Raised(u)
<1> DEFINE new == Client!ServerOverwrite(view[p], val, visibleWrites[p])
<1>1. view[p] \in Client!View
  BY DEF Client!TypeOK
<1>2. new \in Client!View /\ new.regs = view[p].regs
  BY <1>1, ViewsAre
<1>3. /\ view' = [view EXCEPT ![p] = new] /\ shown' = shown
      /\ mainQueue' = mainQueue \o Client!ValueEvents(view[p], new)
      /\ \A w \in allWrites : w \in allWrites'
  BY DEF Client!ApplyServerOverwrite
<1> HIDE DEF new
<1> QED
  BY <1>2, <1>3, ViewRaisesOnly

LEMMA AnswerRaises ==
  ASSUME Client!TypeOK, ClientP!OwnRegistrations, NEW w \in allWrites, NEW ok \in BOOLEAN,
         Client!AckUserWrite(w, ok)
  PROVE  \E u : Raised(u)
<1> DEFINE rest   == allWrites \ {w}
           shadow == Client!VisibleWithout(w, rest)
           p      == w.path
           old    == view[w.path]
           new    == IF Client!Hidden(w, rest) THEN old
                     ELSE IF ok THEN Client!AckWrite(old, shadow)
                     ELSE Client!RevertWrite(old, shadow)
           t      == <<Client!DoneBlock(w, ok)>>
<1>1. p \in Paths /\ old \in Client!View /\ w \in Client!Write
  BY DEF Client!TypeOK, Client!Write
<1>2. /\ view' = [view EXCEPT ![p] = new] /\ shown' = shown
      /\ mainQueue' = mainQueue \o Client!ValueEvents(view[p], new) \o t
      /\ \A x \in allWrites : x \in allWrites' \/ x = w
  BY DEF Client!AckUserWrite
<1>3. old = view[p]
  OBVIOUS
<1>4. t \in Seq(Client!Block) /\ Len(t) = 1 /\ t[1].kind = "done" /\ t[1].write = w
  BY <1>1 DEF Client!Block, Client!DoneBlock
<1> HIDE DEF p, old, shadow, rest, t
<1>5. new \in Client!View /\ new.regs = old.regs
  BY <1>1, ViewsAre, RealtimeDatabaseAssumption
<1> HIDE DEF new
<1>6. /\ \A k \in 1..Len(t) : t[k].kind = "done"
      /\ \A x \in allWrites :
           x \in allWrites' \/ \E k \in 1..Len(t) : t[k].kind = "done" /\ t[k].write = x
  BY <1>2, <1>4
<1> QED
  BY <1>1, <1>2, <1>3, <1>4, <1>5, <1>6, ViewRaises

\* A registration, which calls the new handler if there is something to show.
LEMMA ObserveRaises ==
  ASSUME Client!TypeOK, ClientP!OwnRegistrations, NEW h \in Handlers,
         Client!AddEventRegistration(h)
  PROVE  /\ Watches(view', h)
         /\ \E t : Raised(t) /\ (Fed(view', h) => Due(t, h))
<1> DEFINE p   == PathOf[h]
           old == IF Client!Observed(view[p]) THEN view[p] ELSE Client!FreshView(p)
           new == [old EXCEPT !.regs = Append(old.regs, h)]
<1>1. /\ p \in Paths /\ view \in [Paths -> Client!View] /\ mainQueue \in Seq(Client!Block)
      /\ visibleWrites \in [Paths -> Values \cup {NoWrite}]
      /\ view' = [view EXCEPT ![p] = new] /\ shown' = shown /\ allWrites' = allWrites
      /\ mainQueue' = IF old.eventFull THEN Append(mainQueue, Client!ValueBlock(h, old.event))
                      ELSE mainQueue
  BY RealtimeDatabaseAssumption DEF Client!TypeOK, Client!AddEventRegistration
<1>2. old \in Client!View /\ (Client!Observed(view[p]) => old.regs = view[p].regs)
  <2>1. Client!NoView \in Client!View
    BY RealtimeDatabaseAssumption, EmptySeq DEF Client!NoView, Client!View
  <2>2. CASE Client!Observed(view[p])
    BY <1>1, <2>2
  <2>3. CASE ~Client!Observed(view[p]) /\ visibleWrites[p] = NoWrite
    BY <2>1, <2>3 DEF Client!FreshView
  <2>4. CASE ~Client!Observed(view[p]) /\ visibleWrites[p] # NoWrite
    <3>1. visibleWrites[p] \in Values
      BY <1>1, <2>4
    <3> QED
      BY <2>1, <2>4, <3>1 DEF Client!FreshView, Client!View
  <2> QED
    BY <2>2, <2>3, <2>4
<1>3. PathOf[h] = p
  OBVIOUS
<1> HIDE DEF p, old
<1>4. /\ new.event = old.event /\ new.eventFull = old.eventFull /\ new.regs = Append(old.regs, h)
      /\ old.event \in Values /\ old.regs \in Seq(Handlers)
  BY <1>2 DEF Client!View
<1> HIDE DEF new
<1>5. view'[p] = new /\ \A q \in Paths : q # p => view'[q] = view[q]
  BY <1>1
<1>6. /\ Len(new.regs) = Len(old.regs) + 1 /\ Len(old.regs) \in Nat
      /\ new.regs[Len(old.regs) + 1] = h
      /\ \A i \in 1..Len(old.regs) : new.regs[i] = old.regs[i]
  BY <1>4, AppendProperties, LenProperties
<1>7. Watches(view', h)
  <2>1. Len(old.regs) + 1 \in 1..Len(new.regs)
    BY <1>6
  <2> QED
    BY <1>3, <1>5, <1>6, <2>1 DEF Watches, ClientP!Registered
<1>8. ASSUME NEW x \in Handlers, Watches(view, x)
      PROVE  Watches(view', x)
  <2>1. PathOf[x] \in Paths
    BY RealtimeDatabaseAssumption
  <2>2. CASE PathOf[x] # p
    BY <1>5, <1>8, <2>1, <2>2 DEF Watches
  <2>3. CASE PathOf[x] = p
    <3>1. PICK i \in 1..Len(view[p].regs) : view[p].regs[i] = x
      BY <1>8, <2>3 DEF Watches, ClientP!Registered
    <3>2. Client!Observed(view[p])
      BY <3>1, EmptySeq DEF Client!Observed
    <3>3. i \in 1..Len(new.regs) /\ new.regs[i] = x
      BY <1>2, <1>6, <3>1, <3>2
    <3> QED
      BY <1>5, <2>3, <3>3 DEF Watches, ClientP!Registered
  <2> QED
    BY <2>2, <2>3
<1>9. CASE old.eventFull
  <2> DEFINE b == Client!ValueBlock(h, old.event)
             t == <<b>>
  <2>1. b \in Client!Block /\ b.kind = "value" /\ b.handler = h /\ b.val = old.event
    BY <1>4 DEF Client!ValueBlock, Client!Block
  <2>2. mainQueue' = Append(mainQueue, b)
    BY <1>1, <1>9
  <2> HIDE DEF b
  <2>3. t \in Seq(Client!Block) /\ Len(t) = 1 /\ t[1] = b
    BY <2>1
  <2>4. mainQueue' = mainQueue \o t
    BY <1>1, <2>1, <2>2, AppendIsConcat
  <2> HIDE DEF t
  <2>5. Fed(view', h)
    BY <1>3, <1>4, <1>5, <1>7, <1>9 DEF Fed
  <2>6. view'[PathOf[h]].event = old.event
    BY <1>3, <1>4, <1>5
  <2>7. \A k \in 1..Len(t) : /\ t[k].kind = "value" /\ t[k].handler = h
                             /\ t[k].val = view'[PathOf[h]].event
    BY <2>1, <2>3, <2>6
  <2>8. Raised(t)
    BY <1>1, <1>8, <2>3, <2>4, <2>5, <2>7 DEF Raised
  <2>9. Due(t, h)
    BY <2>1, <2>3 DEF Due, ClientP!For
  <2> QED
    BY <1>7, <2>8, <2>9
<1>10. CASE ~old.eventFull
  <2>1. mainQueue' = mainQueue \o <<>>
    BY <1>1, <1>10, ConcatEmptySeq
  <2>2. <<>> \in Seq(Client!Block) /\ \A k \in 1..Len(<<>>) : FALSE
    BY EmptySeq
  <2>3. Raised(<<>>)
    BY <1>1, <1>8, <2>1, <2>2 DEF Raised
  <2>4. ~Fed(view', h)
    BY <1>3, <1>4, <1>5, <1>10 DEF Fed
  <2> QED
    BY <1>7, <2>3, <2>4
<1> QED
  BY <1>9, <1>10

\* A step that leaves the client alone raises nothing.
LEMMA NothingRaised ==
  ASSUME Client!TypeOK, UNCHANGED clientVars
  PROVE  Raised(<<>>)
<1>1. UNCHANGED <<allWrites, view, mainQueue, shown>> /\ mainQueue \in Seq(Client!Block)
  BY DEF clientVars, Client!TypeOK
<1>2. mainQueue' = mainQueue \o <<>>
  BY <1>1, ConcatEmptySeq
<1>3. <<>> \in Seq(Client!Block) /\ \A k \in 1..Len(<<>>) : FALSE
  BY EmptySeq
<1> QED
  BY <1>1, <1>2, <1>3 DEF Raised

\* The two steps that take a call.
LEMMA RunSetTakes ==
  ASSUME DatabaseInv, RunSet
  PROVE  /\ sharedQueue \in Seq(Calls) /\ sharedQueue # <<>> /\ sharedQueue' = Tail(sharedQueue)
         /\ Head(sharedQueue).path \in Paths /\ Head(sharedQueue).val \in Values
         /\ IsSet(Head(sharedQueue), Head(sharedQueue).path)
         /\ Client!ApplyUserOverwrite(Head(sharedQueue).path, Head(sharedQueue).val)
BY TailDoes, Kinds DEF RunSet, IsSet, Client!Set, DatabaseInv, ServiceInv, Typed

LEMMA RunObserveTakes ==
  ASSUME DatabaseInv, RunObserve
  PROVE  /\ sharedQueue \in Seq(Calls) /\ sharedQueue # <<>> /\ sharedQueue' = Tail(sharedQueue)
         /\ Head(sharedQueue).handler \in Handlers
         /\ IsObserve(Head(sharedQueue), Head(sharedQueue).handler)
         /\ Client!AddEventRegistration(Head(sharedQueue).handler)
BY TailDoes, Kinds DEF RunObserve, IsObserve, Client!Observe, DatabaseInv, ServiceInv, Typed

\* Every step below the app raises what Raised says, and greets a new handler.
LEMMA ServiceRaises ==
  ASSUME DatabaseInv, ServiceNext
  PROVE  \E t : /\ Raised(t)
                /\ RunObserve /\ Fed(view', Head(sharedQueue).handler)
                     => Due(t, Head(sharedQueue).handler)
<1>1. Client!TypeOK /\ ClientP!OwnRegistrations /\ Typed
  BY ClientInv DEF DatabaseInv, ServiceInv, ClientP!CInv
<1>2. CASE RunObserve
  BY <1>1, <1>2, RunObserveTakes, ObserveRaises
<1>3. ASSUME ~RunObserve PROVE \E t : Raised(t)
  <2>1. CASE RunSet
    BY <1>1, <2>1, RunSetTakes, WriteRaises
  <2>2. ASSUME NEW m \in Answers, Acknowledge(m) PROVE \E t : Raised(t)
    <3>1. PICK w \in allWrites : w.id = m.id /\ Client!AckUserWrite(w, m.ok)
      BY <2>2 DEF Acknowledge
    <3>2. m.ok \in BOOLEAN
      BY Kinds
    <3> QED
      BY <1>1, <3>1, <3>2, AnswerRaises
  <2>3. CASE Receive
    <3> DEFINE m == Head(toClient)
    <3>1. m \in Messages
      BY <1>1, <2>3, TailDoes DEF Receive, Typed
    <3>2. CASE m.msg = "data" /\ Client!ApplyServerOverwrite(m.path, m.val)
      <4>1. m.path \in Paths /\ m.val \in Values
        BY <3>1, <3>2, Kinds
      <4> QED
        BY <1>1, <3>2, <4>1, DataRaises
    <3>3. CASE m.msg = "listening" /\ Client!ApplyListenComplete(m.path)
      <4>1. m.path \in Paths
        BY <3>1, <3>3, Kinds
      <4>2. view[m.path].server \in Values
        BY <1>1, <4>1 DEF Client!TypeOK, Client!View
      <4> QED
        BY <1>1, <3>3, <4>1, <4>2, DataRaises DEF Client!ApplyListenComplete
    <3>4. CASE m.msg = "answer" /\ Acknowledge(m)
      BY <2>2, <3>1, <3>4, Kinds
    <3>5. CASE UNCHANGED clientVars
      BY <1>1, <3>5, NothingRaised
    <3> QED
      BY <2>3, <3>2, <3>3, <3>4, <3>5 DEF Receive
  <2>4. CASE AckPut
    <3>1. putsToAck # <<>> /\ Acknowledge(Head(putsToAck))
      BY <2>4 DEF AckPut, LettingGo
    <3>2. Head(putsToAck) \in Answers
      BY <1>1, <3>1, TailDoes DEF Typed
    <3> QED
      BY <2>2, <3>1, <3>2
  <2>5. CASE UNCHANGED clientVars
    BY <1>1, <2>5, NothingRaised
  <2>6. RunSet \/ Receive \/ AckPut \/ UNCHANGED clientVars
    BY <1>3 DEF ServiceNext, ServePut, ServeListen, RemoteWrite
  <2> QED
    BY <2>1, <2>3, <2>4, <2>5, <2>6
<1> QED
  BY <1>2, <1>3

\* The calls are taken one by one.
LEMMA CallsTaken ==
  ASSUME ServiceNext
  PROVE  RunSet \/ RunObserve \/ sharedQueue' = sharedQueue
BY DEF ServiceNext, Receive, AckPut, ServePut, ServeListen, RemoteWrite

-----------------------------------------------------------------------------
(* Who was called watches something: Heard is an invariant.                *)

LEMMA DatabaseTypes ==
  ASSUME DatabaseInv
  PROVE  /\ Client!TypeOK /\ mainQueue \in Seq(Client!Block) /\ sharedQueue \in Seq(Calls)
         /\ shown \in [Handlers -> Values \cup {NoWrite}] /\ view \in [Paths -> Client!View]
         /\ db \in [Paths -> Values]
BY ClientInv DEF DatabaseInv, ServiceInv, Typed, Client!TypeOK

\* A view that is watched and shows something stays so.
LEMMA FedStays ==
  ASSUME DatabaseInv, Moves, NEW h \in Handlers, Fed(view, h), Watches(view', h)
  PROVE  Fed(view', h)
<1>1. PathOf[h] \in Paths
  BY RealtimeDatabaseAssumption
<1> QED
  BY <1>1, ShowingStep DEF Fed

LEMMA HeardRaised ==
  ASSUME DatabaseInv, Heard, Moves, NEW t, Raised(t)
  PROVE  Heard'
<1>1. t \in Seq(Client!Block) /\ mainQueue' = mainQueue \o t /\ shown' = shown
  BY DEF Raised
<1>2. ASSUME NEW h \in Handlers, shown'[h] # NoWrite \/ Due(mainQueue', h)
      PROVE  Fed(view', h)
  <2>1. CASE Due(t, h)
    BY <2>1 DEF Due, ClientP!For, Raised
  <2>2. CASE shown[h] # NoWrite \/ Due(mainQueue, h)
    <3>1. Fed(view, h)
      BY <2>2 DEF Heard
    <3>2. Watches(view', h)
      BY <3>1 DEF Raised, Fed
    <3> QED
      BY <3>1, <3>2, FedStays
  <2>3. Due(mainQueue', h) => Due(mainQueue, h) \/ Due(t, h)
    BY <1>1, DatabaseTypes, DueJoined
  <2> QED
    BY <1>1, <1>2, <2>1, <2>2, <2>3
<1> QED
  BY <1>2 DEF Heard

\* The blocks of the app call nobody.
LEMMA TasksCallNobody ==
  /\ \A t \in Tasks : Client!TaskBlock(t) \in Client!Block
  /\ \A ts \in Client!TaskLists : ts \in Seq(Client!Block) /\ \A h : ~Due(ts, h)
<1>1. \A t \in Tasks : Client!TaskBlock(t) \in Client!Block /\ Client!TaskBlock(t).kind = "task"
  BY DEF Client!TaskBlock, Client!Block
<1>2. ASSUME NEW t \in Tasks
      PROVE  <<Client!TaskBlock(t)>> \in Seq(Client!Block) /\ \A h : ~Due(<<Client!TaskBlock(t)>>, h)
  <2> DEFINE b == Client!TaskBlock(t)
  <2>1. b \in Client!Block /\ b.kind = "task"
    BY <1>1
  <2> HIDE DEF b
  <2>2. <<b>> \in Seq(Client!Block) /\ Len(<<b>>) = 1 /\ <<b>>[1] = b
    BY <2>1
  <2>3. \A h : ~Due(<<b>>, h)
    BY <2>1, <2>2 DEF Due, ClientP!For
  <2> QED
    BY <2>2, <2>3 DEF b
<1>3. <<>> \in Seq(Client!Block) /\ \A h : ~Due(<<>>, h)
  BY EmptySeq DEF Due
<1> QED
  BY <1>1, <1>2, <1>3 DEF Client!TaskLists

\* The first block of the main queue is run, and dispatches ts.
LEMMA FireDoes ==
  ASSUME DatabaseInv, NEW ts \in Client!TaskLists, Client!FireEvent(ts)
  PROVE  /\ mainQueue # <<>> /\ mainQueue' = Tail(mainQueue) \o ts /\ view' = view
         /\ Tail(mainQueue) \in Seq(Client!Block) /\ ts \in Seq(Client!Block)
         /\ Head(mainQueue) \in Client!Block
         /\ \A h \in Handlers :
              /\ Due(mainQueue, h) <=> Due(mainQueue', h) \/ ClientP!For(Head(mainQueue), h)
              /\ ClientP!For(Head(mainQueue), h) => shown'[h] = Head(mainQueue).val
              /\ ~ClientP!For(Head(mainQueue), h) => shown'[h] = shown[h]
<1> DEFINE b == Head(mainQueue)
           q == Tail(mainQueue)
<1>1. /\ mainQueue # <<>> /\ mainQueue' = q \o ts /\ view' = view
      /\ shown' = IF b.kind = "value" THEN [shown EXCEPT ![b.handler] = b.val] ELSE shown
  BY DEF Client!FireEvent
<1>2. mainQueue \in Seq(Client!Block) /\ shown \in [Handlers -> Values \cup {NoWrite}]
  BY DatabaseTypes
<1>3. q \in Seq(Client!Block) /\ b \in Client!Block
  BY <1>1, <1>2, Shortened
<1>4. ts \in Seq(Client!Block) /\ \A h : ~Due(ts, h)
  BY TasksCallNobody
<1>5. \A h : Due(mainQueue, h) <=> Due(q, h) \/ ClientP!For(b, h)
  BY <1>1, <1>2, DueShortened
<1> HIDE DEF b, q
<1>6. \A h : Due(mainQueue', h) <=> Due(q, h)
  BY <1>1, <1>3, <1>4, DueJoined
<1>7. ASSUME NEW h \in Handlers
      PROVE  /\ ClientP!For(b, h) => shown'[h] = b.val
             /\ ~ClientP!For(b, h) => shown'[h] = shown[h]
  BY <1>1, <1>2 DEF ClientP!For
<1>8. \A h \in Handlers : Due(mainQueue, h) <=> Due(mainQueue', h) \/ ClientP!For(b, h)
  BY <1>5, <1>6
<1>9. mainQueue # <<>> /\ mainQueue' = q \o ts /\ view' = view
  BY <1>1
<1> QED
  BY <1>3, <1>4, <1>7, <1>8, <1>9 DEF b, q

LEMMA HeardFired ==
  ASSUME DatabaseInv, Heard, NEW ts \in Client!TaskLists, Client!FireEvent(ts)
  PROVE  Heard'
<1>1. ASSUME NEW h \in Handlers, shown'[h] # NoWrite \/ Due(mainQueue', h)
      PROVE  Fed(view, h)
  BY <1>1, FireDoes DEF Heard
<1>2. view' = view
  BY FireDoes
<1> QED
  BY <1>1, <1>2 DEF Heard

\* A block of the app's own is dispatched.
LEMMA DispatchDoes ==
  ASSUME DatabaseInv, NEW t \in Tasks, Client!Dispatch(t)
  PROVE  /\ mainQueue' = mainQueue \o <<Client!TaskBlock(t)>>
         /\ <<Client!TaskBlock(t)>> \in Seq(Client!Block)
         /\ shown' = shown /\ view' = view /\ allWrites' = allWrites
         /\ \A h : Due(mainQueue', h) <=> Due(mainQueue, h)
<1> DEFINE ts == <<Client!TaskBlock(t)>>
<1>1. ts \in Seq(Client!Block) /\ \A h : ~Due(ts, h)
  BY TasksCallNobody DEF Client!TaskLists
<1>2. Client!TaskBlock(t) \in Client!Block
  BY TasksCallNobody
<1>3. mainQueue \in Seq(Client!Block)
  BY DatabaseTypes
<1>4. mainQueue' = mainQueue \o ts
  BY <1>2, <1>3, AppendIsConcat DEF Client!Dispatch
<1> HIDE DEF ts
<1>5. \A h : Due(mainQueue', h) <=> Due(mainQueue, h)
  BY <1>1, <1>3, <1>4, DueJoined
<1> QED
  BY <1>1, <1>4, <1>5 DEF ts, Client!Dispatch

\* Each step keeps it.
LEMMA HeardStep ==
  ASSUME DatabaseInv, Heard, Moves
  PROVE  Heard'
<1>1. CASE ServiceNext
  BY <1>1, ServiceRaises, HeardRaised
<1>2. CASE UNCHANGED clientVars
  BY <1>2, DatabaseTypes, NothingRaised, HeardRaised
<1>3. ASSUME NEW t \in Tasks, Client!Dispatch(t) PROVE Heard'
  BY <1>3, DispatchDoes DEF Heard
<1>4. CASE \E ts \in Client!TaskLists : Client!FireEvent(ts)
  BY <1>4, HeardFired
<1>5. UNCHANGED serviceVars => UNCHANGED clientVars
  BY DEF serviceVars
<1> QED
  BY <1>1, <1>2, <1>3, <1>4, <1>5 DEF Moves, AppMoves

\* At first nobody was called.
LEMMA HeardInitially ==
  ASSUME NEW initial, ServiceInit(initial)
  PROVE  Heard
<1>1. shown = [h \in Handlers |-> NoWrite] /\ mainQueue = <<>>
  BY DEF ServiceInit, Client!Init
<1> QED
  BY <1>1, EmptySeq DEF Heard, Due

-----------------------------------------------------------------------------
(* What is asked for is watched, and who goes by what h shows follows it.  *)

Wanted(cs, views, h) == AskedFor(cs, h) \/ Watches(views, h)

LEMMA WantedBelow ==
  ASSUME DatabaseInv, ServiceNext, NEW h \in Handlers, Wanted(sharedQueue, view, h)
  PROVE  Wanted(sharedQueue', view', h)
<1>1. Watches(view, h) => Watches(view', h)
  BY ServiceRaises DEF Raised
<1>2. CASE RunSet
  <2>1. ~IsObserve(Head(sharedQueue), h)
    BY <1>2, RunSetTakes DEF IsSet, IsObserve
  <2>2. AskedFor(sharedQueue, h) => AskedFor(sharedQueue', h)
    BY <1>2, <2>1, RunSetTakes, AskedShortened
  <2> QED
    BY <1>1, <2>2 DEF Wanted
<1>3. CASE RunObserve
  <2>1. Client!TypeOK /\ ClientP!OwnRegistrations
    BY DatabaseTypes DEF DatabaseInv, ClientP!CInv
  <2>2. Watches(view', Head(sharedQueue).handler)
    BY <1>3, <2>1, RunObserveTakes, ObserveRaises
  <2>3. AskedFor(sharedQueue, h) => AskedFor(sharedQueue', h) \/ Head(sharedQueue).handler = h
    BY <1>3, RunObserveTakes, AskedShortened DEF IsObserve
  <2> QED
    BY <1>1, <2>2, <2>3 DEF Wanted
<1>4. CASE sharedQueue' = sharedQueue
  BY <1>1, <1>4 DEF Wanted
<1> QED
  BY <1>2, <1>3, <1>4, CallsTaken

\* A handler that was not called yet is called when there is something to show.
LEMMA FirstCall ==
  ASSUME DatabaseInv, Heard, ServiceNext, NEW t, Raised(t), NEW h \in Handlers,
         Watches(view, h), ~Fed(view, h), Fed(view', h)
  PROVE  Due(t, h)
<1>1. shown[h] = NoWrite /\ ~Due(mainQueue, h)
  BY DEF Heard
<1>2. DatabaseInv'
  BY DatabaseStep DEF Moves
<1>3. PathOf[h] \in Paths
  BY RealtimeDatabaseAssumption
<1>4. view'[PathOf[h]].event \in Values /\ NoWrite \notin Values
  <2>1. view' \in [Paths -> ClientP!View]
    BY <1>2 DEF DatabaseInv, ClientP!CInv, ClientP!IInv, ClientP!TypeOK
  <2> QED
    BY <1>3, <2>1, RealtimeDatabaseAssumption DEF ClientP!View
<1>5. ClientP!LastIs(mainQueue', shown', h, view'[PathOf[h]].event)
  BY <1>2 DEF DatabaseInv, ClientP!CInv, ClientP!AllCurrent, ClientP!Current, Fed, Watches
<1>6. shown' = shown /\ mainQueue' = mainQueue \o t /\ t \in Seq(Client!Block)
  BY DEF Raised
<1>7. Due(mainQueue', h)
  BY <1>1, <1>4, <1>5, <1>6 DEF ClientP!LastIs, Due
<1> QED
  BY <1>1, <1>6, <1>7, DatabaseTypes, DueJoined

\* Who follows goes on doing so, whatever happens below the app.
LEMMA FollowsBelow ==
  ASSUME DatabaseInv, Heard, ServiceNext, NEW h \in Handlers, NEW S, NEW W \in SUBSET S,
         Follows(shown, mainQueue, sharedQueue, h, S, W)
  PROVE  Follows(shown', mainQueue', sharedQueue', h, S, W)
<1>1. PICK t : /\ Raised(t)
               /\ RunObserve /\ Fed(view', Head(sharedQueue).handler)
                    => Due(t, Head(sharedQueue).handler)
  BY ServiceRaises
<1>2. shown' = shown /\ mainQueue' = mainQueue \o t /\ t \in Seq(Client!Block)
  BY <1>1 DEF Raised
<1>3. Due(mainQueue', h) <=> Due(mainQueue, h) \/ Due(t, h)
  BY <1>2, DatabaseTypes, DueJoined
<1>4. PathOf[h] \in Paths
  BY RealtimeDatabaseAssumption
<1>5. CASE shown[h] \in {NoWrite, Null} \cup S \/ Due(mainQueue, h)
  BY <1>2, <1>3, <1>5 DEF Follows
<1>6. CASE sharedQueue' = sharedQueue
  BY <1>2, <1>3, <1>6 DEF Follows
<1>7. CASE RunSet
  <2>1. /\ sharedQueue \in Seq(Calls) /\ sharedQueue # <<>> /\ sharedQueue' = Tail(sharedQueue)
        /\ ~IsObserve(Head(sharedQueue), h)
    BY <1>7, RunSetTakes DEF IsSet, IsObserve
  <2>2. AskedFor(sharedQueue, h) => AskedFor(sharedQueue', h)
    BY <2>1, AskedShortened
  <2>3. ASSUME IsSet(Head(sharedQueue), PathOf[h]), Head(sharedQueue).val \in W
        PROVE  Follows(shown', mainQueue', sharedQueue', h, S, W)
    <3>1. CASE ~Fed(view, h)
      <4>1. shown[h] = NoWrite
        BY <3>1 DEF Heard
      <4> QED
        BY <1>2, <4>1 DEF Follows
    <3>2. CASE Fed(view, h)
      <4> DEFINE p   == Head(sharedQueue).path
                 val == Head(sharedQueue).val
      <4>1. p = PathOf[h] /\ val \in S /\ val \in Values /\ Client!ApplyUserOverwrite(p, val)
        BY <1>7, <2>3, RunSetTakes DEF IsSet
      <4>2. view[p] \in Client!View /\ Client!Observed(view[p])
        BY <1>4, <3>2, <4>1, DatabaseTypes, WatchedIsObserved DEF Fed
      <4>3. view'[p] = Client!UserOverwrite(view[p], val)
        BY <1>4, <4>1, DatabaseTypes DEF Client!ApplyUserOverwrite
      <4>4. view'[p].event = val /\ view'[p].eventFull
        BY <4>2, <4>3 DEF Client!UserOverwrite, Client!View
      <4>5. Watches(view', h)
        BY <1>1, <3>2 DEF Raised, Fed
      <4>6. ClientP!CInv'
        BY DatabaseStep DEF Moves, DatabaseInv
      <4>7. ClientP!LastIs(mainQueue', shown', h, val)
        BY <4>1, <4>4, <4>5, <4>6 DEF ClientP!CInv, ClientP!AllCurrent, ClientP!Current, Watches
      <4>8. Due(mainQueue', h) \/ shown'[h] = val
        BY <4>7 DEF ClientP!LastIs, Due
      <4> QED
        BY <4>1, <4>8 DEF Follows
    <3> QED
      BY <3>1, <3>2
  <2>4. LastSet(sharedQueue, PathOf[h], W) =>
          \/ LastSet(sharedQueue', PathOf[h], W)
          \/ IsSet(Head(sharedQueue), PathOf[h]) /\ Head(sharedQueue).val \in W
    BY <2>1, LastSetShortened
  <2> QED
    BY <1>5, <2>2, <2>3, <2>4 DEF Follows
<1>8. CASE RunObserve
  <2> DEFINE x == Head(sharedQueue)
  <2>1. /\ sharedQueue \in Seq(Calls) /\ sharedQueue # <<>> /\ sharedQueue' = Tail(sharedQueue)
        /\ IsObserve(x, x.handler)
    BY <1>8, RunObserveTakes
  <2>2. LastSet(sharedQueue, PathOf[h], W) => LastSet(sharedQueue', PathOf[h], W)
    BY <2>1, LastSetShortened DEF IsSet, IsObserve
  <2>3. CASE x.handler # h
    <3>1. AskedFor(sharedQueue, h) => AskedFor(sharedQueue', h)
      BY <2>1, <2>3, AskedShortened DEF IsObserve
    <3> QED
      BY <1>5, <2>2, <3>1 DEF Follows
  <2>4. CASE x.handler = h
    <3>1. CASE Fed(view', h)
      BY <1>1, <1>3, <1>8, <2>4, <3>1 DEF Follows
    <3>2. CASE ~Fed(view', h)
      <4>1. Heard'
        BY HeardStep DEF Moves
      <4>2. shown'[h] = NoWrite
        BY <3>2, <4>1 DEF Heard
      <4> QED
        BY <4>2 DEF Follows
    <3> QED
      BY <3>1, <3>2
  <2> QED
    BY <2>3, <2>4
<1> QED
  BY <1>6, <1>7, <1>8, CallsTaken

\* More blocks and more calls, none of which writes h's path after W.
LEMMA FollowsMore ==
  ASSUME NEW s, NEW q \in Seq(Client!Block), NEW t \in Seq(Client!Block),
         NEW cs \in Seq(Calls), NEW ds \in Seq(Calls), NEW h, NEW S, NEW W,
         Follows(s, q, cs, h, S, W),
         W = {} \/ \A i \in 1..Len(ds) : ~IsSet(ds[i], PathOf[h])
  PROVE  Follows(s, q \o t, cs \o ds, h, S, W)
<1>1. Due(q, h) => Due(q \o t, h)
  BY DueJoined
<1>2. AskedFor(cs, h) => AskedFor(cs \o ds, h)
  BY AskedJoined
<1>3. LastSet(cs, PathOf[h], W) => LastSet(cs \o ds, PathOf[h], W)
  <2>1. CASE W = {}
    BY <2>1 DEF LastSet
  <2> QED
    BY <2>1, LastSetJoined
<1> QED
  BY <1>1, <1>2, <1>3 DEF Follows

\* A callback of another handler, or a block that calls nobody.
LEMMA FollowsFired ==
  ASSUME DatabaseInv, NEW ts \in Client!TaskLists, Client!FireEvent(ts), NEW h \in Handlers,
         NEW cs, NEW S, NEW W, Follows(shown, mainQueue, cs, h, S, W),
         ClientP!For(Head(mainQueue), h) => Head(mainQueue).val \in {Null} \cup S
  PROVE  Follows(shown', mainQueue', cs, h, S, W)
BY FireDoes DEF Follows

\* The callback of h itself, after which the screen goes by S.
LEMMA FollowsCalled ==
  ASSUME DatabaseInv, NEW ts \in Client!TaskLists, Client!FireEvent(ts), NEW h \in Handlers,
         ClientP!For(Head(mainQueue), h), NEW cs, NEW S, NEW W,
         Head(mainQueue).val \in {Null} \cup S
  PROVE  Follows(shown', mainQueue', cs, h, S, W)
BY FireDoes DEF Follows

\* Once nothing is on its way, who follows a handler that is wanted goes by
\* what the database holds.
LEMMA FollowsWhenQuiet ==
  ASSUME DatabaseInv, Quiet, NEW h \in Handlers, Wanted(sharedQueue, view, h), NEW S, NEW W,
         Follows(shown, mainQueue, sharedQueue, h, S, W), db[PathOf[h]] # Null
  PROVE  db[PathOf[h]] \in S
<1>1. ~AskedFor(sharedQueue, h) /\ ~Due(mainQueue, h) /\ ~LastSet(sharedQueue, PathOf[h], W)
  BY EmptySeq DEF Quiet, AskedFor, Due, LastSet
<1>2. Watches(view, h)
  BY <1>1 DEF Wanted
<1>3. shown[h] = db[PathOf[h]]
  BY <1>2, ShownWhenQuiet
<1>4. db[PathOf[h]] \in Values /\ NoWrite \notin Values
  BY DatabaseTypes, RealtimeDatabaseAssumption
<1> QED
  BY <1>1, <1>3, <1>4 DEF Follows

-----------------------------------------------------------------------------
(* What may ever be at a path: its values stay among those it is given.    *)

\* The value of p is one of S, and so is all that was and will be made of it.
HeldIn(p, S) ==
  /\ db[p] \in S /\ view[p].server \in S /\ view[p].event \in S
  /\ \A w \in allWrites : w.path = p => w.val \in S
  /\ mainQueue \in Seq({b \in Client!Block :
                          b.kind = "value" /\ PathOf[b.handler] = p => b.val \in S})
  /\ sharedQueue \in Seq({c \in Calls : IsSet(c, p) => c.val \in S})
  /\ toServer \in Seq({r \in Requests : r.msg = "put" /\ r.path = p => r.val \in S})
  /\ toClient \in Seq({m \in Messages : m.msg = "data" /\ m.path = p => m.val \in S})

\* The visible write is one of the pending ones.
LEMMA VisibleIn ==
  ASSUME DatabaseInv, NEW p \in Paths, NEW S, \A w \in allWrites : w.path = p => w.val \in S
  PROVE  visibleWrites[p] \in S \cup {NoWrite}
<1>1. /\ ClientP!TypeOK /\ ClientP!WritesStack /\ ClientP!VisibleIsLayered /\ InTurn
  BY DEF DatabaseInv, ServiceInv, ClientP!CInv, ClientP!IInv
<1>2. allWrites \in SUBSET ClientP!Write /\ writeIdCounter \in Nat
      /\ \A w \in allWrites : w.id <= writeIdCounter
  BY <1>1 DEF ClientP!TypeOK, ClientP!WritesStack, ClientP!Write, InTurn
<1>3. ClientP!UniqueIds(allWrites)
  BY <1>1 DEF ClientP!WritesStack, ClientP!UniqueIds
<1>4. visibleWrites[p] = ClientP!Layer(allWrites, p)
  BY <1>1 DEF ClientP!VisibleIsLayered
<1>5. CASE \E w \in allWrites : w.path = p
  <2>1. PICK n : ClientP!IsNewest(n, allWrites, p)
    BY <1>2, <1>5, ClientAssumption, ClientP!NewestExists
  <2>2. ClientP!Layer(allWrites, p) = n.val
    BY <1>2, <1>3, <2>1, ClientAssumption, ClientP!LayerIs
  <2> QED
    BY <1>4, <2>1, <2>2 DEF ClientP!IsNewest
<1>6. CASE ~ \E w \in allWrites : w.path = p
  BY <1>4, <1>6 DEF ClientP!Layer
<1> QED
  BY <1>5, <1>6

\* So what is raised is as it should be if the view is.
LEMMA RaisedIn ==
  ASSUME DatabaseInv, NEW t, Raised(t), NEW p \in Paths, NEW S, HeldIn(p, S),
         view'[p].event \in S
  PROVE  mainQueue' \in Seq({b \in Client!Block :
                               b.kind = "value" /\ PathOf[b.handler] = p => b.val \in S})
<1> DEFINE G == {b \in Client!Block : b.kind = "value" /\ PathOf[b.handler] = p => b.val \in S}
<1>1. t \in Seq(Client!Block) /\ mainQueue' = mainQueue \o t /\ mainQueue \in Seq(G)
  BY DEF Raised, HeldIn
<1>2. \A k \in 1..Len(t) : t[k] \in Client!Block
  BY <1>1, ElementOfSeq
<1>3. \A k \in 1..Len(t) : t[k].kind = "value" /\ PathOf[t[k].handler] = p => t[k].val \in S
  BY DEF Raised
<1>4. \A k \in 1..Len(t) : t[k] \in G
  BY <1>2, <1>3
<1> HIDE DEF G
<1>5. t \in Seq(G)
  <2>1. Len(t) \in Nat /\ t = [k \in 1..Len(t) |-> t[k]]
    BY <1>1, LenProperties
  <2>2. t \in [1..Len(t) -> G]
    BY <1>4, <2>1
  <2> QED
    BY <2>1, <2>2, SeqDef
<1>6. mainQueue \o t \in Seq(G)
  BY <1>1, <1>5, ConcatProperties
<1> QED
  BY <1>1, <1>6 DEF G

\* The views that are made of values in S show values in S.
LEMMA ViewsIn ==
  ASSUME NEW v \in Client!View, NEW S \in SUBSET Values, Null \in S, v.server \in S, v.event \in S,
         NEW val \in S, NEW shadow
  PROVE  /\ Client!UserOverwrite(v, val).server \in S /\ Client!UserOverwrite(v, val).event \in S
         /\ Client!ServerOverwrite(v, val, shadow).server \in S
         /\ Client!ServerOverwrite(v, val, shadow).event \in S
         /\ Client!AckWrite(v, shadow).server \in S /\ Client!AckWrite(v, shadow).event \in S
         /\ Client!RevertWrite(v, shadow).server \in S /\ Client!RevertWrite(v, shadow).event \in S
BY DEF Client!View, Client!Observed, Client!UserOverwrite, Client!ServerOverwrite,
       Client!AckWrite, Client!RevertWrite

\* A write of the app is run.
LEMMA HeldRunSet ==
  ASSUME DatabaseInv, RunSet, NEW p \in Paths, NEW S \in SUBSET Values, Null \in S, HeldIn(p, S)
  PROVE  HeldIn(p, S)'
<1> DEFINE c == Head(sharedQueue)
           x == Put(writeIdCounter, c.path, c.val)
           C == {y \in Calls : IsSet(y, p) => y.val \in S}
           R == {r \in Requests : r.msg = "put" /\ r.path = p => r.val \in S}
<1>1. sharedQueue \in Seq(C) /\ toServer \in Seq(R) /\ sharedQueue # <<>>
  BY DEF HeldIn, RunSet
<1>2. c \in C /\ Tail(sharedQueue) \in Seq(C)
  BY <1>1, Shortened
<1>3. /\ sharedQueue' = Tail(sharedQueue) /\ c.path \in Paths /\ c.val \in Values
      /\ IsSet(c, c.path) /\ Client!ApplyUserOverwrite(c.path, c.val)
  BY RunSetTakes
<1>4. toServer' = Append(toServer, x) /\ UNCHANGED <<db, toClient>>
  BY DEF RunSet, Send
<1>5. c.path = p => c.val \in S
  BY <1>2, <1>3
<1>6. x \in R
  <2>1. writeIdCounter \in Nat
    BY DatabaseTypes DEF Client!TypeOK
  <2> QED
    BY <1>3, <1>5, <2>1 DEF Put, Requests
<1> HIDE DEF x, R
<1>7. toServer' \in Seq(R)
  BY <1>1, <1>4, <1>6, AppendProperties
<1> HIDE DEF c
<1>8. view'[p].server \in S /\ view'[p].event \in S
  <2>1. view \in [Paths -> Client!View]
        /\ view' = [view EXCEPT ![c.path] = Client!UserOverwrite(view[c.path], c.val)]
    BY <1>3, DatabaseTypes DEF Client!ApplyUserOverwrite
  <2>2. CASE c.path = p
    BY <1>5, <2>1, <2>2, ViewsIn DEF HeldIn
  <2>3. CASE c.path # p
    BY <2>1, <2>3 DEF HeldIn
  <2> QED
    BY <2>2, <2>3
<1>9. \A w \in allWrites' : w.path = p => w.val \in S
  BY <1>3, <1>5 DEF Client!ApplyUserOverwrite, HeldIn
<1>10. mainQueue' \in Seq({b \in Client!Block :
                            b.kind = "value" /\ PathOf[b.handler] = p => b.val \in S})
  BY <1>8, ServiceRaises, RaisedIn DEF ServiceNext
<1> QED
  BY <1>2, <1>3, <1>4, <1>7, <1>8, <1>9, <1>10 DEF HeldIn, C, R

\* A registration is run.
LEMMA HeldRunObserve ==
  ASSUME DatabaseInv, RunObserve, NEW p \in Paths, NEW S \in SUBSET Values, Null \in S, HeldIn(p, S)
  PROVE  HeldIn(p, S)'
<1> DEFINE C == {y \in Calls : IsSet(y, p) => y.val \in S}
           R == {r \in Requests : r.msg = "put" /\ r.path = p => r.val \in S}
           h == Head(sharedQueue).handler
           q == PathOf[h]
           x == Listen(q)
           old == IF Client!Observed(view[q]) THEN view[q] ELSE Client!FreshView(q)
<1>1. sharedQueue \in Seq(C) /\ toServer \in Seq(R) /\ sharedQueue # <<>>
  BY DEF HeldIn, RunObserve
<1>2. Tail(sharedQueue) \in Seq(C)
  BY <1>1, Shortened
<1>3. /\ sharedQueue' = Tail(sharedQueue) /\ h \in Handlers /\ Client!AddEventRegistration(h)
      /\ UNCHANGED <<db, toClient, allWrites>>
      /\ toServer' = toServer \/ toServer' = Append(toServer, x)
  BY RunObserveTakes DEF RunObserve, Send, Client!AddEventRegistration
<1>4. q \in Paths /\ x \in R
  BY <1>3, RealtimeDatabaseAssumption DEF Listen, Requests
<1> HIDE DEF x, R, C
<1>5. toServer' \in Seq(R)
  BY <1>1, <1>3, <1>4, AppendProperties
<1>6. /\ view \in [Paths -> Client!View]
      /\ view' = [view EXCEPT ![q] = [old EXCEPT !.regs = Append(old.regs, h)]]
  BY <1>3, DatabaseTypes DEF Client!AddEventRegistration
<1>7. ASSUME q = p
      PROVE  old.server \in S /\ old.event \in S /\ \E r : old = [regs |-> r, server |-> old.server,
                serverFull |-> old.serverFull, event |-> old.event, eventFull |-> old.eventFull]
  <2>1. visibleWrites[p] \in S \cup {NoWrite}
    BY VisibleIn DEF HeldIn
  <2>2. CASE Client!Observed(view[q])
    BY <1>4, <1>6, <1>7, <2>2 DEF HeldIn, Client!View
  <2>3. CASE ~Client!Observed(view[q])
    BY <1>7, <2>1, <2>3 DEF Client!FreshView, Client!NoView
  <2> QED
    BY <2>2, <2>3
<1> HIDE DEF q, h, old
<1>8. view'[p].server \in S /\ view'[p].event \in S
  BY <1>4, <1>6, <1>7 DEF HeldIn
<1>9. mainQueue' \in Seq({b \in Client!Block :
                            b.kind = "value" /\ PathOf[b.handler] = p => b.val \in S})
  BY <1>8, ServiceRaises, RaisedIn DEF ServiceNext
<1> QED
  BY <1>2, <1>3, <1>5, <1>8, <1>9 DEF HeldIn, C, R

\* Data of the server comes.
LEMMA HeldData ==
  ASSUME DatabaseInv, Receive, NEW p \in Paths, NEW S \in SUBSET Values, Null \in S, HeldIn(p, S),
         NEW q \in Paths, NEW val, Client!ApplyServerOverwrite(q, val), q = p => val \in S
  PROVE  HeldIn(p, S)'
<1> DEFINE M == {m \in Messages : m.msg = "data" /\ m.path = p => m.val \in S}
<1>1. toClient' \in Seq(M)
  <2>1. toClient \in Seq(M) /\ toClient # <<>> /\ toClient' = Tail(toClient)
    BY DEF HeldIn, Receive
  <2> QED
    BY <2>1, Shortened
<1>2. UNCHANGED <<sharedQueue, toServer, db, allWrites>>
  BY DEF Receive, Client!ApplyServerOverwrite
<1>3. view'[p].server \in S /\ view'[p].event \in S
  <2>1. view \in [Paths -> Client!View]
        /\ view' = [view EXCEPT ![q] = Client!ServerOverwrite(view[q], val, visibleWrites[q])]
    BY DatabaseTypes DEF Client!ApplyServerOverwrite
  <2>2. CASE q = p
    BY <2>1, <2>2, ViewsIn DEF HeldIn
  <2>3. CASE q # p
    BY <2>1, <2>3 DEF HeldIn
  <2> QED
    BY <2>2, <2>3
<1>4. mainQueue' \in Seq({b \in Client!Block :
                            b.kind = "value" /\ PathOf[b.handler] = p => b.val \in S})
  BY <1>3, ServiceRaises, RaisedIn DEF ServiceNext
<1> QED
  BY <1>1, <1>2, <1>3, <1>4 DEF HeldIn

\* An answer is handed on.
LEMMA HeldAnswer ==
  ASSUME DatabaseInv, ServiceNext, NEW p \in Paths, NEW S \in SUBSET Values, Null \in S, HeldIn(p, S),
         NEW m \in Answers, Acknowledge(m), UNCHANGED <<sharedQueue, toServer, db>>,
         toClient' = toClient \/ (toClient # <<>> /\ toClient' = Tail(toClient))
  PROVE  HeldIn(p, S)'
<1> DEFINE M == {x \in Messages : x.msg = "data" /\ x.path = p => x.val \in S}
<1>1. toClient' \in Seq(M)
  <2>1. toClient \in Seq(M)
    BY DEF HeldIn
  <2> QED
    BY <2>1, Shortened
<1>2. PICK w \in allWrites : w.id = m.id /\ Client!AckUserWrite(w, m.ok)
  BY DEF Acknowledge
<1> DEFINE rest   == allWrites \ {w}
           shadow == Client!VisibleWithout(w, rest)
           q      == w.path
           old    == view[w.path]
           new    == IF Client!Hidden(w, rest) THEN old
                     ELSE IF m.ok THEN Client!AckWrite(old, shadow)
                     ELSE Client!RevertWrite(old, shadow)
<1>3. /\ view \in [Paths -> Client!View] /\ view' = [view EXCEPT ![q] = new]
      /\ q \in Paths /\ allWrites' = rest /\ old = view[q]
  BY <1>2, DatabaseTypes DEF Client!AckUserWrite, Client!TypeOK, Client!Write
<1>4. \A x \in allWrites' : x.path = p => x.val \in S
  BY <1>3 DEF HeldIn
<1> HIDE DEF rest, shadow, q, old
<1>5. q = p => new.server \in S /\ new.event \in S
  BY <1>3, ViewsIn DEF HeldIn
<1> HIDE DEF new
<1>6. view'[p].server \in S /\ view'[p].event \in S
  BY <1>3, <1>5 DEF HeldIn
<1>7. mainQueue' \in Seq({b \in Client!Block :
                            b.kind = "value" /\ PathOf[b.handler] = p => b.val \in S})
  BY <1>6, ServiceRaises, RaisedIn
<1> QED
  BY <1>1, <1>4, <1>6, <1>7 DEF HeldIn

\* A step of the server.
LEMMA HeldServer ==
  ASSUME DatabaseInv, NEW p \in Paths, NEW S \in SUBSET Values, Null \in S, HeldIn(p, S),
         p \in RemotePaths => RemoteValues[p] \subseteq S,
         ServePut \/ ServeListen
           \/ \E q \in RemotePaths : \E val \in RemoteValues[q] : RemoteWrite(q, val)
  PROVE  HeldIn(p, S)'
<1> DEFINE M == {m \in Messages : m.msg = "data" /\ m.path = p => m.val \in S}
           R == {r \in Requests : r.msg = "put" /\ r.path = p => r.val \in S}
<1>1. /\ toClient \in Seq(M) /\ toServer \in Seq(R) /\ db[p] \in S /\ db \in [Paths -> Values]
  BY DatabaseTypes DEF HeldIn
<1>2. UNCHANGED <<allWrites, view, mainQueue, sharedQueue>>
  BY DEF ServePut, ServeListen, RemoteWrite, clientVars
<1>3. ASSUME NEW q \in Paths, NEW val \in Values, q = p => val \in S
      PROVE  /\ Push(q, val) \in Seq(M) /\ [db EXCEPT ![q] = val][p] \in S
             /\ toClient \o Push(q, val) \in Seq(M)
  <2>1. Data(q, val) \in M
    BY <1>3, MessagesMade
  <2> HIDE DEF M
  <2>2. Push(q, val) \in Seq(M)
    BY <2>1, EmptySeq DEF Push
  <2> QED
    BY <1>1, <1>3, <2>2, ConcatProperties
<1>4. ASSUME NEW x \in Messages, x.msg # "data" PROVE <<x>> \in Seq(M)
  BY <1>4
<1>5. CASE ServePut
  <2> DEFINE r == Head(toServer)
  <2>1. r \in R /\ toServer' \in Seq(R) /\ r.msg = "put"
    BY <1>1, <1>5, Shortened DEF ServePut
  <2>2. r.path \in Paths /\ r.val \in Values /\ r.id \in Nat /\ (r.path = p => r.val \in S)
    BY <2>1, Kinds
  <2>3. PICK ok \in Verdicts :
          IF ok THEN /\ db' = [db EXCEPT ![r.path] = r.val]
                     /\ toClient' = toClient \o Push(r.path, r.val) \o <<Answer(r.id, TRUE)>>
                ELSE db' = db /\ toClient' = Append(toClient, Answer(r.id, FALSE))
    BY <1>5 DEF ServePut
  <2>4. \A b \in BOOLEAN : Answer(r.id, b) \in Messages /\ Answer(r.id, b).msg = "answer"
    BY <2>2, MessagesMade DEF Answer
  <2>5. \A b \in BOOLEAN : Answer(r.id, b) \in M
    BY <2>4
  <2>6. \A b \in BOOLEAN : <<Answer(r.id, b)>> \in Seq(M)
    BY <2>5
  <2>7. toClient \o Push(r.path, r.val) \in Seq(M) /\ [db EXCEPT ![r.path] = r.val][p] \in S
    BY <1>3, <2>2
  <2> HIDE DEF r, M
  <2>8. CASE ok
    <3> DEFINE s == toClient \o Push(r.path, r.val)
               a == <<Answer(r.id, TRUE)>>
    <3>1. toClient' = s \o a /\ s \in Seq(M) /\ a \in Seq(M)
      BY <2>3, <2>6, <2>7, <2>8
    <3> HIDE DEF s, a
    <3>2. toClient' \in Seq(M)
      BY <3>1, ConcatProperties
    <3> QED
      BY <1>2, <2>1, <2>3, <2>7, <2>8, <3>2 DEF HeldIn, M
  <2>9. CASE ~ok
    <3> DEFINE a == Answer(r.id, FALSE)
    <3>1. toClient' = Append(toClient, a) /\ a \in M /\ toClient \in Seq(M)
      BY <1>1, <2>3, <2>5, <2>9
    <3> HIDE DEF a
    <3>2. toClient' \in Seq(M)
      BY <3>1, AppendProperties
    <3> QED
      BY <1>1, <1>2, <2>1, <2>3, <2>9, <3>2 DEF HeldIn, M
  <2> QED
    BY <2>8, <2>9
<1>6. CASE ServeListen
  <2> DEFINE q == Head(toServer).path
  <2>1. /\ toServer' \in Seq(R) /\ q \in Paths /\ db' = db
        /\ toClient' = toClient \o <<Data(q, db[q]), Listening(q)>>
    BY <1>1, <1>6, Shortened, Kinds DEF ServeListen
  <2>2. Data(q, db[q]) \in M /\ Listening(q) \in M
    BY <1>1, <2>1, MessagesMade DEF Listening
  <2> HIDE DEF q, M
  <2>3. toClient' \in Seq(M)
    <3>1. <<Data(q, db[q]), Listening(q)>> \in Seq(M)
      BY <2>2
    <3> QED
      BY <1>1, <2>1, <3>1, ConcatProperties
  <2> QED
    BY <1>1, <1>2, <2>1, <2>3 DEF HeldIn, M
<1>7. CASE \E q \in RemotePaths : \E val \in RemoteValues[q] : RemoteWrite(q, val)
  <2>1. PICK q \in RemotePaths : \E val \in RemoteValues[q] : RemoteWrite(q, val)
    BY <1>7
  <2>4. PICK val \in RemoteValues[q] : RemoteWrite(q, val)
    BY <2>1
  <2>2. q \in Paths /\ val \in Values /\ (q = p => val \in S)
    BY RealtimeDatabaseAssumption
  <2>3. /\ db' = [db EXCEPT ![q] = val] /\ toClient' = toClient \o Push(q, val)
        /\ toServer' = toServer
    BY <2>4 DEF RemoteWrite
  <2>5. toClient' \in Seq(M) /\ db'[p] \in S
    BY <1>1, <1>3, <2>2, <2>3
  <2> QED
    BY <1>1, <1>2, <2>3, <2>5 DEF HeldIn
<1> QED
  BY <1>5, <1>6, <1>7

\* No step below the app brings another value to the path.
LEMMA HeldBelow ==
  ASSUME DatabaseInv, ServiceNext, NEW p \in Paths, NEW S \in SUBSET Values, Null \in S,
         HeldIn(p, S), p \in RemotePaths => RemoteValues[p] \subseteq S
  PROVE  HeldIn(p, S)'
<1>1. CASE Receive
  <2> DEFINE m == Head(toClient)
             M == {x \in Messages : x.msg = "data" /\ x.path = p => x.val \in S}
  <2>1. m \in M /\ toClient # <<>> /\ toClient' \in Seq(M) /\ toClient' = Tail(toClient)
        /\ UNCHANGED <<sharedQueue, toServer, db>>
    BY <1>1, Shortened DEF Receive, HeldIn
  <2>2. CASE m.msg = "data" /\ Client!ApplyServerOverwrite(m.path, m.val)
    BY <1>1, <2>1, <2>2, Kinds, HeldData
  <2>3. CASE m.msg = "listening" /\ Client!ApplyListenComplete(m.path)
    <3>1. m.path \in Paths
      BY <2>1, <2>3, Kinds
    <3> QED
      BY <1>1, <2>3, <3>1, HeldData DEF Client!ApplyListenComplete, HeldIn
  <2>4. CASE m.msg = "answer" /\ Acknowledge(m)
    BY <1>1, <2>1, <2>4, Kinds, HeldAnswer
  <2>5. CASE UNCHANGED clientVars
    <3>1. UNCHANGED <<allWrites, view, mainQueue>>
      BY <2>5 DEF clientVars
    <3> QED
      BY <2>1, <3>1 DEF HeldIn
  <2> QED
    BY <1>1, <2>2, <2>3, <2>4, <2>5 DEF Receive
<1>2. CASE AckPut
  <2>1. /\ putsToAck # <<>> /\ Acknowledge(Head(putsToAck))
        /\ UNCHANGED <<sharedQueue, toServer, db, toClient>>
    BY <1>2 DEF AckPut, LettingGo, serverVars
  <2>2. Head(putsToAck) \in Answers
    BY <2>1, TailDoes DEF DatabaseInv, ServiceInv, Typed
  <2> QED
    BY <2>1, <2>2, HeldAnswer
<1> QED
  BY <1>1, <1>2, HeldRunSet, HeldRunObserve, HeldServer DEF ServiceNext

-----------------------------------------------------------------------------
(* The steps of a screen.                                                  *)

\* A step of the app that makes the calls cs, and does not call the handlers Hs.
AppCalls(cs, Hs) ==
  /\ cs \in Seq(Calls) /\ sharedQueue' = sharedQueue \o cs
  /\ UNCHANGED farVars
  /\ \/ UNCHANGED clientVars
     \/ \E t \in Tasks : Client!Room /\ Client!Dispatch(t)
     \/ /\ \E ts \in Client!TaskLists : Client!FireEvent(ts)
        /\ \A h \in Hs : ~ClientP!For(Head(mainQueue), h)

\* None of the calls cs writes p.
NoSets(cs, p) == \A i \in 1..Len(cs) : ~IsSet(cs[i], p)

LEMMA CallsMove ==
  ASSUME NEW cs, NEW Hs, AppCalls(cs, Hs)
  PROVE  Moves
BY DEF AppCalls, AppMoves, Moves

\* No call, or one.
LEMMA FewCalls ==
  /\ <<>> \in Seq(Calls) /\ \A p : NoSets(<<>>, p)
  /\ \A h \in Handlers :
       /\ ObserveCall(h) \in Calls /\ <<ObserveCall(h)>> \in Seq(Calls)
       /\ AskedFor(<<ObserveCall(h)>>, h)
       /\ \A p : NoSets(<<ObserveCall(h)>>, p)
  /\ \A p \in Paths : \A val \in Values :
       /\ SetCall(p, val) \in Calls /\ <<SetCall(p, val)>> \in Seq(Calls)
       /\ IsSet(SetCall(p, val), p) /\ SetCall(p, val).val = val
       /\ \A W : val \in W => LastSet(<<SetCall(p, val)>>, p, W)
       /\ \A q : q # p => NoSets(<<SetCall(p, val)>>, q)
<1>1. <<>> \in Seq(Calls) /\ \A p : NoSets(<<>>, p)
  BY EmptySeq DEF NoSets
<1>2. ASSUME NEW h \in Handlers
      PROVE  /\ ObserveCall(h) \in Calls /\ <<ObserveCall(h)>> \in Seq(Calls)
             /\ AskedFor(<<ObserveCall(h)>>, h) /\ \A p : NoSets(<<ObserveCall(h)>>, p)
  <2> DEFINE c == ObserveCall(h)
  <2>1. c \in Calls /\ c.call = "observe" /\ c.handler = h
    BY DEF ObserveCall, Calls
  <2> HIDE DEF c
  <2>2. <<c>> \in Seq(Calls) /\ Len(<<c>>) = 1 /\ <<c>>[1] = c
    BY <2>1
  <2>3. AskedFor(<<c>>, h)
    BY <2>1, <2>2 DEF AskedFor, IsObserve
  <2>4. \A p : NoSets(<<c>>, p)
    BY <2>1, <2>2 DEF NoSets, IsSet
  <2> QED
    BY <2>1, <2>2, <2>3, <2>4 DEF c
<1>3. ASSUME NEW p \in Paths, NEW val \in Values
      PROVE  /\ SetCall(p, val) \in Calls /\ <<SetCall(p, val)>> \in Seq(Calls)
             /\ IsSet(SetCall(p, val), p) /\ SetCall(p, val).val = val
             /\ \A W : val \in W => LastSet(<<SetCall(p, val)>>, p, W)
             /\ \A q : q # p => NoSets(<<SetCall(p, val)>>, q)
  <2> DEFINE c == SetCall(p, val)
  <2>1. c \in Calls /\ c.call = "set" /\ c.path = p /\ c.val = val
    BY DEF SetCall, Calls
  <2> HIDE DEF c
  <2>2. <<c>> \in Seq(Calls) /\ Len(<<c>>) = 1 /\ <<c>>[1] = c
    BY <2>1
  <2>3. \A W : val \in W => LastSet(<<c>>, p, W)
    BY <2>1, <2>2 DEF LastSet, IsSet
  <2>4. \A q : q # p => NoSets(<<c>>, q)
    BY <2>1, <2>2 DEF NoSets, IsSet
  <2>5. IsSet(c, p)
    BY <2>1 DEF IsSet
  <2> QED
    BY <2>1, <2>2, <2>3, <2>4, <2>5 DEF c
<1> QED
  BY <1>1, <1>2, <1>3

\* One call more, as Append makes it.
LEMMA OneCall ==
  ASSUME DatabaseInv, NEW c \in Calls, sharedQueue' = Append(sharedQueue, c)
  PROVE  sharedQueue' = sharedQueue \o <<c>>
BY DatabaseTypes, AppendIsConcat

\* What is asked for stays asked for.
LEMMA WantedMore ==
  ASSUME DatabaseInv, NEW cs, NEW Hs, AppCalls(cs, Hs), NEW h \in Handlers,
         Wanted(sharedQueue, view, h) \/ AskedFor(cs, h)
  PROVE  Wanted(sharedQueue', view', h)
<1>1. view' = view
  BY DEF AppCalls, clientVars, Client!Dispatch, Client!FireEvent
<1>2. AskedFor(sharedQueue', h) <=> AskedFor(sharedQueue, h) \/ AskedFor(cs, h)
  BY DatabaseTypes, AskedJoined DEF AppCalls
<1> QED
  BY <1>1, <1>2 DEF Wanted

\* Who follows h follows it still if h is not called and its path not written.
LEMMA FollowsOn ==
  ASSUME DatabaseInv, NEW cs, NEW Hs, AppCalls(cs, Hs), NEW h \in Handlers, h \in Hs,
         NEW S, NEW W, Follows(shown, mainQueue, sharedQueue, h, S, W),
         W = {} \/ NoSets(cs, PathOf[h])
  PROVE  Follows(shown', mainQueue', sharedQueue', h, S, W)
<1>1. cs \in Seq(Calls) /\ sharedQueue \in Seq(Calls) /\ mainQueue \in Seq(Client!Block)
      /\ sharedQueue' = sharedQueue \o cs
  BY DatabaseTypes DEF AppCalls
<1>2. ASSUME NEW q \in Seq(Client!Block), NEW s, Follows(s, q, sharedQueue, h, S, W)
      PROVE  Follows(s, q, sharedQueue', h, S, W)
  <2>1. <<>> \in Seq(Client!Block) /\ q \o <<>> = q
    BY EmptySeq, ConcatEmptySeq
  <2> QED
    BY <1>1, <1>2, <2>1, FollowsMore DEF NoSets
<1>3. CASE UNCHANGED clientVars
  BY <1>1, <1>2, <1>3 DEF clientVars
<1>4. ASSUME NEW t \in Tasks, Client!Dispatch(t)
      PROVE  Follows(shown', mainQueue', sharedQueue', h, S, W)
  <2>1. /\ mainQueue' = mainQueue \o <<Client!TaskBlock(t)>> /\ shown' = shown
        /\ <<Client!TaskBlock(t)>> \in Seq(Client!Block)
    BY <1>4, DispatchDoes
  <2> QED
    BY <1>1, <2>1, FollowsMore DEF NoSets
<1>5. ASSUME NEW ts \in Client!TaskLists, Client!FireEvent(ts), ~ClientP!For(Head(mainQueue), h)
      PROVE  Follows(shown', mainQueue', sharedQueue', h, S, W)
  <2>1. Follows(shown', mainQueue', sharedQueue, h, S, W)
    BY <1>5, FollowsFired
  <2>2. mainQueue' \in Seq(Client!Block)
    BY <1>5, FireDoes, ConcatProperties
  <2> QED
    BY <1>2, <2>1, <2>2
<1> QED
  BY <1>3, <1>4, <1>5 DEF AppCalls

\* What the app writes itself makes it follow.
LEMMA FollowsOwn ==
  ASSUME DatabaseInv, NEW cs, NEW Hs, AppCalls(cs, Hs), NEW h, NEW S, NEW W,
         LastSet(cs, PathOf[h], W) \/ AskedFor(cs, h)
  PROVE  Follows(shown', mainQueue', sharedQueue', h, S, W)
<1>1. cs \in Seq(Calls) /\ sharedQueue \in Seq(Calls) /\ sharedQueue' = sharedQueue \o cs
  BY DatabaseTypes DEF AppCalls
<1>2. LastSet(cs, PathOf[h], W) => LastSet(sharedQueue', PathOf[h], W)
  BY <1>1, LastSetJoined
<1>3. AskedFor(cs, h) => AskedFor(sharedQueue', h)
  BY <1>1, AskedJoined
<1> QED
  BY <1>2, <1>3 DEF Follows

\* At first everything is followed.
LEMMA FollowsInitially ==
  ASSUME NEW initial, ServiceInit(initial), NEW h \in Handlers, NEW S, NEW W
  PROVE  Follows(shown, mainQueue, sharedQueue, h, S, W)
BY DEF ServiceInit, Client!Init, Follows

-----------------------------------------------------------------------------
(* The values of a path, under the steps of the app.                       *)

LEMMA HeldInitially ==
  ASSUME NEW initial \in [Paths -> Values], ServiceInit(initial), NEW p \in Paths, NEW S,
         initial[p] \in S, Null \in S
  PROVE  HeldIn(p, S)
<1>1. db[p] \in S /\ view[p].server \in S /\ view[p].event \in S /\ allWrites = {}
  BY DEF ServiceInit, Client!Init, Client!NoView
<1>2. sharedQueue = <<>> /\ mainQueue = <<>> /\ toServer = <<>> /\ toClient = <<>>
  BY DEF ServiceInit, Client!Init
<1>3. \A D : <<>> \in Seq(D)
  BY EmptySeq
<1> QED
  BY <1>1, <1>2, <1>3 DEF HeldIn

LEMMA HeldApp ==
  ASSUME DatabaseInv, NEW cs, NEW Hs, AppCalls(cs, Hs), NEW p \in Paths, NEW S, HeldIn(p, S),
         \A i \in 1..Len(cs) : IsSet(cs[i], p) => cs[i].val \in S
  PROVE  HeldIn(p, S)'
<1> DEFINE G == {b \in Client!Block : b.kind = "value" /\ PathOf[b.handler] = p => b.val \in S}
           C == {c \in Calls : IsSet(c, p) => c.val \in S}
<1>1. mainQueue \in Seq(G) /\ sharedQueue \in Seq(C)
  BY DEF HeldIn
<1>2. UNCHANGED <<db, view, allWrites, toServer, toClient>>
  BY DEF AppCalls, farVars, serverVars, clientVars, Client!Dispatch, Client!FireEvent
<1>3. sharedQueue' \in Seq(C)
  <2>1. cs \in Seq(Calls) /\ sharedQueue' = sharedQueue \o cs
    BY DEF AppCalls
  <2>2. \A i \in 1..Len(cs) : cs[i] \in C
    BY <2>1, ElementOfSeq
  <2> HIDE DEF C
  <2>3. cs \in Seq(C)
    <3>1. Len(cs) \in Nat /\ cs = [k \in 1..Len(cs) |-> cs[k]]
      BY <2>1, LenProperties
    <3>2. cs \in [1..Len(cs) -> C]
      BY <2>2, <3>1
    <3> QED
      BY <3>1, <3>2, SeqDef
  <2> QED
    BY <1>1, <2>1, <2>3, ConcatProperties
<1>4. \A t \in Tasks : Client!TaskBlock(t) \in G
  BY TasksCallNobody DEF Client!TaskBlock
<1>5. \A ts \in Client!TaskLists : ts \in Seq(G)
  <2> HIDE DEF G
  <2>1. \A t \in Tasks : <<Client!TaskBlock(t)>> \in Seq(G)
    BY <1>4
  <2> QED
    BY <2>1, EmptySeq DEF Client!TaskLists
<1> HIDE DEF G
<1>6. mainQueue' \in Seq(G)
  <2>1. CASE UNCHANGED clientVars
    BY <1>1, <2>1 DEF clientVars
  <2>2. ASSUME NEW t \in Tasks, Client!Dispatch(t) PROVE mainQueue' \in Seq(G)
    BY <1>1, <1>4, <2>2, AppendProperties DEF Client!Dispatch
  <2>3. ASSUME NEW ts \in Client!TaskLists, Client!FireEvent(ts) PROVE mainQueue' \in Seq(G)
    <3>1. mainQueue # <<>> /\ mainQueue' = Tail(mainQueue) \o ts
      BY <2>3 DEF Client!FireEvent
    <3>2. Tail(mainQueue) \in Seq(G)
      BY <1>1, <3>1, Shortened
    <3> QED
      BY <1>5, <3>1, <3>2, ConcatProperties
  <2> QED
    BY <2>1, <2>2, <2>3 DEF AppCalls
<1> QED
  BY <1>2, <1>3, <1>6 DEF HeldIn, G, C

\* What a callback is called with is one of those values.
LEMMA HeldFired ==
  ASSUME NEW p, NEW S, HeldIn(p, S), mainQueue # <<>>, NEW h,
         ClientP!For(Head(mainQueue), h), PathOf[h] = p
  PROVE  Head(mainQueue).val \in S
<1> DEFINE G == {b \in Client!Block : b.kind = "value" /\ PathOf[b.handler] = p => b.val \in S}
<1>1. Head(mainQueue) \in G
  <2>1. mainQueue \in Seq(G)
    BY DEF HeldIn
  <2> HIDE DEF G
  <2> QED
    BY <2>1, Shortened
<1> QED
  BY <1>1 DEF ClientP!For

=============================================================================
