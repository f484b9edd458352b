-------------------------- MODULE AnyScreenProofs --------------------------
(***************************************************************************)
(* Theorems about the client under an app that may make any call at any    *)
(* time: it is a client of a server that answers in order (ClientSpec),    *)
(* its observers converge and nothing shown is taken away, for any number  *)
(* of paths, values, handlers, calls and writes of others.                 *)
(***************************************************************************)
EXTENDS AnyScreen, ServiceProofs

\* A step of this app is one that every app may take.
LEMMA AnyMoves ==
  ASSUME [Next]_vars
  PROVE  Moves
<1>1. ASSUME NEW c \in Calls, Call(c) PROVE AppMoves
  <2>1. sharedQueue' = sharedQueue \o <<c>>
    BY <1>1 DEF Call
  <2>2. <<c>> \in Seq(Calls)
    OBVIOUS
  <2> QED
    BY <1>1, <2>1, <2>2 DEF AppMoves, Call
<1>2. CASE \/ \E p \in Paths, val \in Values \ {Null} : WriteDataToFirebase(p, val)
           \/ \E h \in Handlers : FetchDataFromFirebase(h)
  <2>1. /\ \A p \in Paths, val \in Values : SetCall(p, val) \in Calls
        /\ \A h \in Handlers : ObserveCall(h) \in Calls
    BY DEF SetCall, ObserveCall, Calls
  <2> QED
    BY <1>1, <1>2, <2>1 DEF WriteDataToFirebase, FetchDataFromFirebase, Moves
<1>3. CASE RunBlock
  <2>1. sharedQueue' = sharedQueue \o <<>>
    BY <1>3 DEF RunBlock
  <2>2. <<>> \in Seq(Calls) /\ <<>> \in Client!TaskLists
    BY DEF Client!TaskLists
  <2> QED
    BY <1>3, <2>1, <2>2 DEF RunBlock, AppMoves, Moves
<1>4. CASE UNCHANGED vars
  BY <1>4 DEF vars, Moves
<1> QED
  BY <1>2, <1>3, <1>4 DEF Next, Moves

\* The calls, the requests, the messages and the answers stay what they are:
\* the writes are answered in order, every observed path is listened to, and
\* the answers are held back while a listen is unanswered.
THEOREM AnyInvariant == Spec => []DatabaseInv
<1>1. Init => DatabaseInv
  BY AnyScreenAssumption, DatabaseInitially DEF Init
<1>2. DatabaseInv /\ [Next]_vars => DatabaseInv'
  BY AnyMoves, DatabaseStep
<1> QED
  BY <1>1, <1>2, PTL DEF Spec

\* Whatever the app, the connection and the server do, the client's cache is
\* one of SyncTree under a server that answers in order: what is proved of
\* SyncTree is so under every screen.
THEOREM ImplementsClient == Spec => ClientSpec
<1>1. Init => Client!Init
  BY DEF Init, ServiceInit
<1>2. DatabaseInv /\ [Next]_vars => [Client!Next]_(Client!vars)
  BY ClientInv, AnyMoves, ClientStep DEF DatabaseInv
<1> QED
  BY <1>1, <1>2, AnyInvariant, PTL DEF Spec, ClientSpec, Client!Spec

\* A view that has something to show never loses it: an answer that would
\* take it away, a refusal, is held back until the server's value is there.
THEOREM NothingTakenAway == Spec => EventSnapStays
<1>1. DatabaseInv /\ [Next]_vars
        => [\A p \in Paths : view[p].eventFull => view'[p].eventFull]_vars
  BY AnyMoves, ShowingStep
<1> QED
  BY <1>1, AnyInvariant, PTL DEF Spec, EventSnapStays

\* The observers converge, whatever was refused, overtaken or held back.
THEOREM Converge == Spec => []ObserversConverge
<1>1. DatabaseInv => ObserversConverge
  <2> SUFFICES ASSUME DatabaseInv, Quiet, NEW p \in Paths, Client!Observed(view[p]),
                      NEW i \in 1..Len(view[p].regs)
               PROVE  shown[view[p].regs[i]] = db[p]
    BY DEF ObserversConverge
  <2>1. Client!TypeOK /\ ClientP!CInv
    BY ClientInv DEF DatabaseInv
  <2>2. view[p].regs \in Seq(Handlers)
    BY <2>1 DEF Client!TypeOK, Client!View
  <2>3. view[p].regs[i] \in Handlers
    BY <2>2
  <2>4. PathOf[view[p].regs[i]] = p
    BY <2>1 DEF ClientP!CInv, ClientP!OwnRegistrations
  <2>5. Watches(view, view[p].regs[i])
    BY <2>4 DEF Watches, ClientP!Registered
  <2> QED
    BY <2>3, <2>4, <2>5, ShownWhenQuiet
<1> QED
  BY <1>1, AnyInvariant, PTL

\* Every variable of the client, the connection and the server keeps its type.
THEOREM Types == Spec => []ServiceTypeOK
<1>1. DatabaseInv => ServiceTypeOK
  BY ClientInv DEF DatabaseInv, ServiceInv, Typed, Answers, ServiceTypeOK
<1> QED
  BY <1>1, AnyInvariant, PTL
=============================================================================
