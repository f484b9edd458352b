----------------------------- MODULE AnyScreen -----------------------------
(***************************************************************************)
(* The database client under an app that may make any call at any time:    *)
(* what every screen may rely on.  The main thread makes the calls and     *)
(* runs the blocks of its queue, one at a time.                            *)
(***************************************************************************)
EXTENDS RealtimeDatabase

CONSTANTS
  InitialDb,  \* the database when the app is started
  MaxCalls    \* bound: calls of setValue and observe

ASSUME AnyScreenAssumption ==
  /\ InitialDb \in [Paths -> Values]
  /\ MaxCalls \in Nat /\ MaxCalls <= MaxWrites /\ MaxCalls <= MaxRegs

VARIABLE calls

vars == <<serviceVars, calls>>

Init == ServiceInit(InitialDb) /\ calls = 0

-----------------------------------------------------------------------------
Call(c) ==
  /\ calls < MaxCalls
  /\ calls' = calls + 1
  /\ sharedQueue' = Append(sharedQueue, c)
  /\ UNCHANGED <<clientVars, farVars>>

WriteDataToFirebase(p, val) == Call(SetCall(p, val))

FetchDataFromFirebase(h) == Call(ObserveCall(h))

\* The next block of the main queue: a handler or a completion is called.
RunBlock == Client!FireEvent(<<>>) /\ UNCHANGED <<sharedQueue, farVars, calls>>

Next ==
  \/ \E p \in Paths, val \in Values \ {Null} : WriteDataToFirebase(p, val)
  \/ \E h \in Handlers : FetchDataFromFirebase(h)
  \/ RunBlock
  \/ ServiceNext /\ UNCHANGED calls

\* Nobody has to call; what is called is carried out.
Spec == Init /\ [][Next]_vars /\ ServiceFairness /\ WF_vars(RunBlock)

-----------------------------------------------------------------------------
\* Once nothing is on its way, every registered handler has been called with
\* what the database holds, whatever was refused, overtaken by the writes of
\* others or held back.
ObserversConverge ==
  Quiet => \A p \in Paths : Client!Observed(view[p]) =>
             \A i \in 1..Len(view[p].regs) : shown[view[p].regs[i]] = db[p]

\* A view that has something to show never loses it.  A refused write would
\* take it away before the server has sent its own value: this is what the
\* answers are held back for.
EventSnapStays ==
  [][\A p \in Paths : view[p].eventFull => view'[p].eventFull]_vars

\* Every write is answered in the end: no answer is held back for ever.
WritesAnswered == allWrites # {} ~> allWrites = {}
=============================================================================
