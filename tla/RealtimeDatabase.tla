-------------------------- MODULE RealtimeDatabase --------------------------
(***************************************************************************)
(* What a screen of the app has under its feet: the two calls it makes     *)
(* (writeDataToFirebase and fetchDataFromFirebase), the serial queue of    *)
(* the client that runs them, the client's cache (SyncTree), an ordered    *)
(* connection that stays up, and the database server, which other phones   *)
(* and the garden's controller write to as well.  The screens extend this  *)
(* module: they make calls and run the blocks of the main queue.           *)
(***************************************************************************)
EXTENDS Integers, Sequences

CONSTANTS
  Paths, Values, Null, NoWrite, Handlers, Tasks, PathOf,
  MaxWrites, MaxRegs, MaxQueue,
  RemotePaths,  \* the leaves that other clients write to
  RemoteValues, \* the values they may write to each of them
  MaxRemote,    \* bound: their writes
  Verdicts      \* what the server's rules may answer to a write

ASSUME RealtimeDatabaseAssumption ==
  /\ Null \in Values /\ NoWrite \notin Values
  /\ PathOf \in [Handlers -> Paths]
  /\ MaxWrites \in Nat /\ MaxRegs \in Nat /\ MaxQueue \in Nat
  /\ RemotePaths \subseteq Paths
  /\ RemoteValues \in [RemotePaths -> SUBSET Values]
  /\ MaxRemote \in Nat
  /\ Verdicts \in (SUBSET BOOLEAN) \ {{}}

VARIABLES
  writeIdCounter, allWrites, visibleWrites, lastWriteId, view, mainQueue,
  shown,
  sharedQueue,   \* the calls waiting on the client's serial queue
  unackedListens, \* FPersistentConnection.unackedListensCount
  putsToAck,     \* answers held back while a listen is unanswered
  toServer,      \* requests on their way to the server
  toClient,      \* messages on their way to the client
  listens,       \* the paths the server pushes to this client
  db,            \* the database
  remoteWrites   \* how many writes the others have made

clientVars == <<writeIdCounter, allWrites, visibleWrites, lastWriteId, view,
                mainQueue, shown>>
connectionVars == <<unackedListens, putsToAck>>
serverVars == <<toServer, toClient, listens, db, remoteWrites>>
serviceVars == <<clientVars, sharedQueue, connectionVars, serverVars>>

\* What the main thread never touches.
farVars == <<connectionVars, serverVars>>

Client == INSTANCE SyncTree WITH InOrder <- TRUE

SetCall(p, val) == [call |-> "set", path |-> p, val |-> val]
ObserveCall(h) == [call |-> "observe", handler |-> h]

Calls == [call : {"set"}, path : Paths, val : Values]
           \cup [call : {"observe"}, handler : Handlers]

Put(id, p, val) == [msg |-> "put", id |-> id, path |-> p, val |-> val]
Listen(p) == [msg |-> "listen", path |-> p]
Data(p, val) == [msg |-> "data", path |-> p, val |-> val]
Listening(p) == [msg |-> "listening", path |-> p]
Answer(id, ok) == [msg |-> "answer", id |-> id, ok |-> ok]

Requests == [msg : {"put"}, id : Nat, path : Paths, val : Values]
              \cup [msg : {"listen"}, path : Paths]
Messages == [msg : {"data"}, path : Paths, val : Values]
              \cup [msg : {"listening"}, path : Paths]
              \cup [msg : {"answer"}, id : Nat, ok : BOOLEAN]

ServiceInit(initial) ==
  /\ Client!Init
  /\ sharedQueue = <<>>
  /\ unackedListens = 0
  /\ putsToAck = <<>>
  /\ toServer = <<>>
  /\ toClient = <<>>
  /\ listens = {}
  /\ db = initial
  /\ remoteWrites = 0

-----------------------------------------------------------------------------
(* The client's serial queue.  The answer to a listen lets go of the       *)
(* answers that were held back, before the queue does anything else.       *)

\* Mutant: the count is never below zero.
LettingGoLate == unackedListens < 0 /\ putsToAck # <<>>

\* The condition of ackPuts in the callback of sendListen.
LettingGo == unackedListens = 0 /\ putsToAck # <<>>
Free == ~LettingGo

\* Mutant: a request overtakes those that wait.
SendFirst(request) == toServer' = <<request>> \o toServer

\* Requests leave in the order of the calls.
Send(request) == toServer' = Append(toServer, request)

\* A setValue call: apply the write to the cache and send it.
RunSet ==
  /\ Free /\ sharedQueue # <<>> /\ Head(sharedQueue).call = "set"
  /\ LET c == Head(sharedQueue)
     IN /\ Client!Set(c.path, c.val)
        /\ Send(Put(writeIdCounter, c.path, c.val))
  /\ sharedQueue' = Tail(sharedQueue)
  /\ UNCHANGED <<connectionVars, toClient, listens, db, remoteWrites>>

\* An observe call: register the handler, and listen if nobody did before.
RunObserve ==
  /\ Free /\ sharedQueue # <<>> /\ Head(sharedQueue).call = "observe"
  /\ LET h == Head(sharedQueue).handler
         p == PathOf[h]
     IN /\ Client!Observe(h)
        /\ IF Client!Observed(view[p])
           THEN UNCHANGED <<toServer, unackedListens>>
           ELSE Send(Listen(p)) /\ unackedListens' = unackedListens + 1
  /\ sharedQueue' = Tail(sharedQueue)
  /\ UNCHANGED <<putsToAck, toClient, listens, db, remoteWrites>>

\* FRepo ackWrite, for the write that an answer names.
Acknowledge(m) == \E w \in allWrites : w.id = m.id /\ Client!AckUserWrite(w, m.ok)

\* Mutant: every answer goes straight to the cache.
HeldBackNever == FALSE

\* sendPut's callback: an answer waits while a listen is unanswered.
HeldBack == unackedListens > 0

\* A message of the server reaches the client.
Receive ==
  /\ Free /\ toClient # <<>> /\ Client!Room
  /\ toClient' = Tail(toClient)
  /\ LET m == Head(toClient)
     IN \/ /\ m.msg = "data"
           /\ Client!ApplyServerOverwrite(m.path, m.val)
           /\ UNCHANGED connectionVars
        \/ /\ m.msg = "listening"
           /\ Client!ApplyListenComplete(m.path)
           /\ unackedListens' = unackedListens - 1
           /\ UNCHANGED putsToAck
        \/ /\ m.msg = "answer" /\ ~HeldBack
           /\ Acknowledge(m)
           /\ UNCHANGED connectionVars
        \/ /\ m.msg = "answer" /\ HeldBack
           /\ putsToAck' = Append(putsToAck, m)
           /\ UNCHANGED <<clientVars, unackedListens>>
  /\ UNCHANGED <<sharedQueue, toServer, listens, db, remoteWrites>>

\* ackPuts: one of the answers that were held back.
AckPut ==
  /\ LettingGo /\ Client!Room
  /\ Acknowledge(Head(putsToAck))
  /\ putsToAck' = Tail(putsToAck)
  /\ UNCHANGED <<sharedQueue, unackedListens, serverVars>>

-----------------------------------------------------------------------------
(* The database server, as the client relies on it: requests are handled   *)
(* in order; a new value is pushed to the listening client before the      *)
(* answer to the write that made it.                                       *)

Push(p, val) == IF p \in listens THEN <<Data(p, val)>> ELSE <<>>

ServePut ==
  /\ toServer # <<>> /\ Head(toServer).msg = "put"
  /\ LET r == Head(toServer)
     IN \E ok \in Verdicts :
          IF ok
          THEN /\ db' = [db EXCEPT ![r.path] = r.val]
               /\ toClient' = toClient \o Push(r.path, r.val)
                                       \o <<Answer(r.id, TRUE)>>
          ELSE /\ db' = db
               /\ toClient' = Append(toClient, Answer(r.id, FALSE))
  /\ toServer' = Tail(toServer)
  /\ UNCHANGED <<clientVars, sharedQueue, connectionVars, listens, remoteWrites>>

ServeListen ==
  /\ toServer # <<>> /\ Head(toServer).msg = "listen"
  /\ LET p == Head(toServer).path
     IN /\ listens' = listens \cup {p}
        /\ toClient' = toClient \o <<Data(p, db[p]), Listening(p)>>
  /\ toServer' = Tail(toServer)
  /\ UNCHANGED <<clientVars, sharedQueue, connectionVars, db, remoteWrites>>

\* Another phone or the garden's controller writes to the database.
RemoteWrite(p, val) ==
  /\ remoteWrites < MaxRemote
  /\ val # db[p]
  /\ remoteWrites' = remoteWrites + 1
  /\ db' = [db EXCEPT ![p] = val]
  /\ toClient' = toClient \o Push(p, val)
  /\ UNCHANGED <<clientVars, sharedQueue, connectionVars, toServer, listens>>

ServiceNext ==
  \/ RunSet
  \/ RunObserve
  \/ Receive
  \/ AckPut
  \/ ServePut
  \/ ServeListen
  \/ \E p \in RemotePaths : \E val \in RemoteValues[p] : RemoteWrite(p, val)

\* The client's queue runs what it is given, the connection delivers and the
\* server answers.
ServiceFairness ==
  /\ WF_serviceVars(RunSet)
  /\ WF_serviceVars(RunObserve)
  /\ WF_serviceVars(Receive)
  /\ WF_serviceVars(AckPut)
  /\ WF_serviceVars(ServePut)
  /\ WF_serviceVars(ServeListen)

-----------------------------------------------------------------------------
ServiceTypeOK ==
  /\ Client!TypeOK
  /\ sharedQueue \in Seq(Calls)
  /\ unackedListens \in Nat
  /\ putsToAck \in Seq([msg : {"answer"}, id : Nat, ok : BOOLEAN])
  /\ toServer \in Seq(Requests)
  /\ toClient \in Seq(Messages)
  /\ listens \subseteq Paths
  /\ db \in [Paths -> Values]
  /\ remoteWrites \in 0..MaxRemote

\* Nothing is on its way and nothing is waiting to be run.
Quiet == /\ sharedQueue = <<>> /\ mainQueue = <<>> /\ putsToAck = <<>>
         /\ toServer = <<>> /\ toClient = <<>>

\* What the client does, whatever the screen asks of it, is a behaviour of
\* SyncTree under a server that answers in order: its invariants are the
\* screens' as well.
ClientSpec == Client!Spec
=============================================================================
