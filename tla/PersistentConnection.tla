------------------------ MODULE PersistentConnection ------------------------
(***************************************************************************)
(* The connection of the database client (FPersistentConnection, with the  *)
(* FConnection it opens and its FIRRetryHelper): it is opened, lost at any *)
(* moment, taken down and up again by the app, killed by the server.  What *)
(* was listened to and what was not answered is sent again on each new     *)
(* connection.  Nobody signs in, so that a connection is of use as soon as *)
(* it is ready.  The delays between two attempts are left to fairness.     *)
(***************************************************************************)
EXTENDS Integers, Sequences, FiniteSets, Functions

CONSTANTS
  Paths, Values,
  Null,           \* a leaf that does not exist, a member of Values
  Unknown,        \* no value has been received yet
  Verdicts,       \* what the rules may answer to a write
  ListenVerdicts, \* what they may answer to a listen
  MaxPuts,        \* bound: writes
  MaxListens,     \* bound: listen calls
  MaxLosses,      \* bound: connections lost
  MaxInterrupts,  \* bound: goOffline calls and kills by the server
  MaxRemote       \* bound: writes of others

ASSUME PersistentConnectionAssumption ==
  /\ Null \in Values /\ Unknown \notin Values
  /\ Verdicts \in (SUBSET BOOLEAN) \ {{}} /\ ListenVerdicts \in (SUBSET BOOLEAN) \ {{}}
  /\ MaxPuts \in Nat /\ MaxListens \in Nat /\ MaxLosses \in Nat
  /\ MaxInterrupts \in Nat /\ MaxRemote \in Nat

VARIABLES
  connectionState,  \* "disconnected", "gettingToken", "connecting", "connected"
  interruptReasons,
  scheduledRetry,   \* is an attempt to connect scheduled?
  currentFetchTokenAttempt,
  fetches,          \* the attempts whose token has not come yet
  realtime,         \* the FConnection: "none", "connecting" or "connected"
  putCounter,
  outstandingPuts,  \* the unanswered writes, by their number
  listens,          \* the paths listened to
  unackedListensCount,
  putsToAck,        \* answers held back while a listen is unanswered
  cache,            \* what the views hold of the server's data
  acked,            \* the answers handed on to the cache, in order
  toServer, toClient, serverListens, db,
  log,              \* what the server has handled, in order (a ghost)
  listenCalls, losses, interrupts, remoteWrites

attemptVars == <<interruptReasons, scheduledRetry, currentFetchTokenAttempt, fetches>>
stateVars == <<connectionState, realtime, attemptVars>>
requestVars == <<putCounter, outstandingPuts, listens>>
answerVars == <<unackedListensCount, putsToAck, cache, acked>>
serverVars == <<serverListens, db, log>>
boundVars == <<listenCalls, losses, interrupts, remoteWrites>>
vars == <<stateVars, requestVars, answerVars, toServer, toClient, serverVars, boundVars>>

Init ==
  /\ connectionState = "disconnected"
  /\ interruptReasons = {"waitingForOpen"}
  /\ scheduledRetry = FALSE
  /\ currentFetchTokenAttempt = 0
  /\ fetches = {}
  /\ realtime = "none"
  /\ putCounter = 0
  /\ outstandingPuts = <<>>
  /\ listens = {}
  /\ unackedListensCount = 0
  /\ putsToAck = <<>>
  /\ cache = [p \in Paths |-> Unknown]
  /\ acked = <<>>
  /\ toServer = <<>> /\ toClient = <<>>
  /\ serverListens = {}
  /\ db \in [Paths -> Values]
  /\ log = <<>>
  /\ listenCalls = 0 /\ losses = 0 /\ interrupts = 0 /\ remoteWrites = 0

-----------------------------------------------------------------------------
(* Requests and messages.                                                  *)

Put(i, put) == [msg |-> "put", index |-> i, path |-> put.path, val |-> put.val]

\* A listen carries the hash of what the views hold when it is sent; nothing
\* at all has the hash of a missing leaf.
HashOf(val) == IF val = Unknown THEN Null ELSE val
Listen(p) == [msg |-> "listen", path |-> p, hash |-> HashOf(cache[p])]

Data(p, val) == [msg |-> "data", path |-> p, val |-> val]
ListenAnswer(p, ok) == [msg |-> "listening", path |-> p, ok |-> ok]
PutAnswer(i, ok) == [msg |-> "answer", index |-> i, ok |-> ok]

Requests == [msg : {"put"}, index : Nat, path : Paths, val : Values]
              \cup [msg : {"listen"}, path : Paths, hash : Values]
Messages == [msg : {"data"}, path : Paths, val : Values]
              \cup [msg : {"listening"}, path : Paths, ok : BOOLEAN]
              \cup [msg : {"answer"}, index : Nat, ok : BOOLEAN]

CanSendWrites == connectionState = "connected"

-----------------------------------------------------------------------------
(* Connecting.                                                             *)

ShouldReconnect == interruptReasons = {}

\* tryScheduleReconnect: a retry that was scheduled before is cancelled.
\* Where it is called, the connection is or has just become disconnected.
TryScheduleReconnect(reasons) == scheduledRetry' = (scheduledRetry \/ reasons = {})

\* Mutant: nothing is scheduled while a token is being fetched.
ResumeUnlessFetching(reason) ==
  /\ interruptReasons' = interruptReasons \ {reason}
  /\ IF connectionState = "disconnected" /\ fetches = {}
     THEN TryScheduleReconnect(interruptReasons')
     ELSE UNCHANGED scheduledRetry
  /\ UNCHANGED <<connectionState, realtime, currentFetchTokenAttempt, fetches>>

\* resumeForReason.
Resume(reason) ==
  /\ interruptReasons' = interruptReasons \ {reason}
  /\ IF connectionState = "disconnected" THEN TryScheduleReconnect(interruptReasons')
     ELSE UNCHANGED scheduledRetry
  /\ UNCHANGED <<connectionState, realtime, currentFetchTokenAttempt, fetches>>

\* Mutant: the attempts are not numbered.
RetryUnnumbered ==
  /\ scheduledRetry /\ scheduledRetry' = FALSE
  /\ connectionState' = "gettingToken"
  /\ fetches' = fetches \cup {currentFetchTokenAttempt}
  /\ UNCHANGED <<interruptReasons, currentFetchTokenAttempt, realtime, requestVars,
                 answerVars, toServer, toClient, serverVars, boundVars>>

\* The block of tryScheduleReconnect, run by the retry helper.
Retry ==
  /\ scheduledRetry /\ scheduledRetry' = FALSE
  /\ connectionState' = "gettingToken"
  /\ currentFetchTokenAttempt' = currentFetchTokenAttempt + 1
  /\ fetches' = fetches \cup {currentFetchTokenAttempt'}
  /\ UNCHANGED <<interruptReasons, realtime, requestVars, answerVars, toServer,
                 toClient, serverVars, boundVars>>

\* Mutant: a token is as good as any other.
LatestOrNot(attempt) == TRUE

Latest(attempt) == attempt = currentFetchTokenAttempt

\* The token of an attempt comes: openNetworkConnectionWithToken, unless it
\* is not the latest attempt or has been interrupted.
TokenFetched(attempt) ==
  /\ attempt \in fetches /\ fetches' = fetches \ {attempt}
  /\ IF Latest(attempt) /\ connectionState = "gettingToken"
     THEN connectionState' = "connecting" /\ realtime' = "connecting"
     ELSE UNCHANGED <<connectionState, realtime>>
  /\ UNCHANGED <<interruptReasons, scheduledRetry, currentFetchTokenAttempt,
                 requestVars, answerVars, toServer, toClient, serverVars, boundVars>>

\* Mutant: the newest write first.
SortedBackwards(ids) == \A k, l \in DOMAIN ids : k < l => ids[k] > ids[l]

\* The ways to go through a set of paths, and the one through the numbers of
\* the outstanding writes that restoreState sorts.
Orders(S) == Bijection(1..Cardinality(S), S)
Sorted(ids) == \A k, l \in DOMAIN ids : k < l => ids[k] < ids[l]

\* Mutant: only the writes are sent again.
RestoredPuts(order, ids) == [k \in 1..Len(ids) |-> Put(ids[k], outstandingPuts[ids[k]])]

\* restoreState: the listens in the order of a dictionary, then the writes in
\* the order of their numbers.
Restored(order, ids) ==
  [k \in 1..Len(order) |-> Listen(order[k])]
    \o [k \in 1..Len(ids) |-> Put(ids[k], outstandingPuts[ids[k]])]

\* onReady, after the handshake: restoreAuth has no token to send.  The server
\* ends whatever connection it had with this client.
Ready ==
  /\ realtime = "connecting"
  /\ realtime' = "connected"
  /\ connectionState' = "connected"
  /\ \E order \in Orders(listens), ids \in Orders(DOMAIN outstandingPuts) :
       Sorted(ids) /\ toServer' = Restored(order, ids)
  /\ unackedListensCount' = unackedListensCount + Cardinality(listens)
  /\ toClient' = <<>>
  /\ serverListens' = {}
  /\ UNCHANGED <<attemptVars, requestVars, putsToAck, cache, acked, db, log, boundVars>>

-----------------------------------------------------------------------------
(* Losing the connection.                                                  *)

\* Mutant: the count of the listens is kept.
OnDisconnectKeepingCount(reasons) ==
  /\ connectionState' = "disconnected"
  /\ realtime' = "none"
  /\ toClient' = <<>>
  /\ UNCHANGED unackedListensCount
  /\ TryScheduleReconnect(reasons)

\* onDisconnect: the callbacks of all requests are forgotten, and the listens
\* no longer count as unanswered; the answers held back stay held back.
OnDisconnect(reasons) ==
  /\ connectionState' = "disconnected"
  /\ realtime' = "none"
  /\ toClient' = <<>>
  /\ unackedListensCount' = 0
  /\ TryScheduleReconnect(reasons)

\* The websocket is closed, or the server resets the connection.  What was
\* sent may still reach the server, until there is a new connection.
Lose ==
  /\ realtime # "none"
  /\ losses < MaxLosses /\ losses' = losses + 1
  /\ OnDisconnect(interruptReasons)
  /\ UNCHANGED <<interruptReasons, currentFetchTokenAttempt, fetches, requestVars,
                 putsToAck, cache, acked, toServer, serverVars, listenCalls,
                 interrupts, remoteWrites>>

\* FIRRetryHelper cancel.
Cancel == scheduledRetry' = FALSE

\* interruptForReason.
Interrupt(reason) ==
  /\ interrupts < MaxInterrupts /\ interrupts' = interrupts + 1
  /\ interruptReasons' = interruptReasons \cup {reason}
  /\ \/ realtime # "none" /\ OnDisconnect(interruptReasons')
     \/ /\ realtime = "none" /\ Cancel
        /\ connectionState' = "disconnected"
        /\ UNCHANGED <<realtime, toClient, unackedListensCount>>
  /\ UNCHANGED <<currentFetchTokenAttempt, fetches, requestVars, putsToAck, cache,
                 acked, toServer, serverVars, listenCalls, losses, remoteWrites>>

Open == "waitingForOpen" \in interruptReasons /\ Resume("waitingForOpen")
GoOnline == "repoInterrupt" \in interruptReasons /\ Resume("repoInterrupt")
GoOffline == Interrupt("repoInterrupt")

\* reachabilityCallback and enteringForeground: the network or the app is back.
\* They also reset the delay, and are made as often as they please.
Back ==
  /\ connectionState = "disconnected"
  /\ TryScheduleReconnect(interruptReasons)
  /\ UNCHANGED <<connectionState, realtime, interruptReasons, currentFetchTokenAttempt,
                 fetches>>

\* onKill: no reason of the code ends this one.
ServerKill == realtime = "connected" /\ Interrupt("serverKill")

-----------------------------------------------------------------------------
(* Requests.                                                               *)

\* putInternal.
PutData(p, val) ==
  /\ putCounter < MaxPuts /\ putCounter' = putCounter + 1
  /\ outstandingPuts' = [i \in DOMAIN outstandingPuts \cup {putCounter} |->
                           IF i = putCounter THEN [path |-> p, val |-> val]
                           ELSE outstandingPuts[i]]
  /\ toServer' = IF CanSendWrites
                 THEN Append(toServer, Put(putCounter, [path |-> p, val |-> val]))
                 ELSE toServer
  /\ UNCHANGED <<stateVars, listens, answerVars, toClient, serverVars, boundVars>>

\* listen.
ListenTo(p) ==
  /\ p \notin listens
  /\ listenCalls < MaxListens /\ listenCalls' = listenCalls + 1
  /\ listens' = listens \cup {p}
  /\ IF CanSendWrites
     THEN /\ toServer' = Append(toServer, Listen(p))
          /\ unackedListensCount' = unackedListensCount + 1
     ELSE UNCHANGED <<toServer, unackedListensCount>>
  /\ UNCHANGED <<stateVars, putCounter, outstandingPuts, putsToAck, cache, acked,
                 toClient, serverVars, losses, interrupts, remoteWrites>>

-----------------------------------------------------------------------------
(* Messages of the server.                                                 *)

Arrives(m) == toClient # <<>> /\ Head(toClient).msg = m /\ toClient' = Tail(toClient)

\* onDataPushWithAction: a leaf without a view is not listened to.
ReceiveData ==
  /\ Arrives("data")
  /\ LET m == Head(toClient)
     IN cache' = IF m.path \in listens THEN [cache EXCEPT ![m.path] = m.val] ELSE cache
  /\ UNCHANGED <<stateVars, requestVars, unackedListensCount, putsToAck, acked,
                 toServer, serverVars, boundVars>>

\* The response to a listen: applyListenComplete, or the listen and its view
\* are removed; the last response lets go of the answers held back.
ReceiveListening ==
  /\ Arrives("listening")
  /\ LET m == Head(toClient)
     IN /\ listens' = IF m.ok THEN listens ELSE listens \ {m.path}
        /\ cache' = [cache EXCEPT ![m.path] = IF m.ok THEN HashOf(@) ELSE Unknown]
  /\ unackedListensCount' = unackedListensCount - 1
  /\ IF unackedListensCount' = 0
     THEN acked' = acked \o putsToAck /\ putsToAck' = <<>>
     ELSE UNCHANGED <<acked, putsToAck>>
  /\ UNCHANGED <<stateVars, putCounter, outstandingPuts, toServer, serverVars, boundVars>>

\* Mutant: a write whose answer is held back stays outstanding.
ReceiveAnswerKeeping ==
  /\ Arrives("answer")
  /\ LET m == Head(toClient)
         answer == [index |-> m.index, ok |-> m.ok]
     IN IF unackedListensCount = 0
        THEN /\ outstandingPuts' = [i \in DOMAIN outstandingPuts \ {m.index} |->
                                      outstandingPuts[i]]
             /\ acked' = Append(acked, answer) /\ UNCHANGED putsToAck
        ELSE /\ putsToAck' = Append(putsToAck, answer)
             /\ UNCHANGED <<acked, outstandingPuts>>
  /\ UNCHANGED <<stateVars, putCounter, listens, unackedListensCount, cache, toServer,
                 serverVars, boundVars>>

\* The response to a put.
ReceiveAnswer ==
  /\ Arrives("answer")
  /\ LET m == Head(toClient)
         answer == [index |-> m.index, ok |-> m.ok]
     IN /\ outstandingPuts' = [i \in DOMAIN outstandingPuts \ {m.index} |->
                                 outstandingPuts[i]]
        /\ IF unackedListensCount = 0
           THEN acked' = Append(acked, answer) /\ UNCHANGED putsToAck
           ELSE putsToAck' = Append(putsToAck, answer) /\ UNCHANGED acked
  /\ UNCHANGED <<stateVars, putCounter, listens, unackedListensCount, cache, toServer,
                 serverVars, boundVars>>

-----------------------------------------------------------------------------
(* The database server, as the client relies on it.  To a connection that  *)
(* the client has lost it sends nothing that arrives.                      *)

Reply(messages) ==
  toClient' = IF realtime = "connected" THEN toClient \o messages ELSE toClient

Push(p, val) == IF p \in serverListens THEN <<Data(p, val)>> ELSE <<>>

ServePut ==
  /\ toServer # <<>> /\ Head(toServer).msg = "put"
  /\ toServer' = Tail(toServer)
  /\ LET r == Head(toServer)
     IN \E ok \in Verdicts :
          /\ log' = Append(log, [index |-> r.index, ok |-> ok])
          /\ db' = IF ok THEN [db EXCEPT ![r.path] = r.val] ELSE db
          /\ Reply((IF ok THEN Push(r.path, r.val) ELSE <<>>) \o <<PutAnswer(r.index, ok)>>)
  /\ UNCHANGED <<stateVars, requestVars, answerVars, serverListens, boundVars>>

\* The data is sent only if it has another hash than what the client holds.
ServeListen ==
  /\ toServer # <<>> /\ Head(toServer).msg = "listen"
  /\ toServer' = Tail(toServer)
  /\ LET r == Head(toServer)
         p == r.path
     IN \E ok \in ListenVerdicts :
          /\ serverListens' = IF ok THEN serverListens \cup {p} ELSE serverListens
          /\ Reply((IF ok /\ r.hash # db[p] THEN <<Data(p, db[p])>> ELSE <<>>)
                     \o <<ListenAnswer(p, ok)>>)
  /\ UNCHANGED <<stateVars, requestVars, answerVars, db, log, boundVars>>

RemoteWrite(p, val) ==
  /\ remoteWrites < MaxRemote /\ remoteWrites' = remoteWrites + 1
  /\ db' = [db EXCEPT ![p] = val]
  /\ Reply(Push(p, val))
  /\ UNCHANGED <<stateVars, requestVars, answerVars, toServer, serverListens, log,
                 listenCalls, losses, interrupts>>

-----------------------------------------------------------------------------
Connect == Retry \/ (\E attempt \in fetches : TokenFetched(attempt)) \/ Ready
Disconnect == Lose \/ GoOffline \/ ServerKill
Resumed == /\ Open \/ GoOnline \/ Back
           /\ UNCHANGED <<requestVars, answerVars, toServer, toClient, serverVars, boundVars>>
Request == \/ \E p \in Paths, val \in Values : PutData(p, val)
           \/ \E p \in Paths : ListenTo(p)
Receive == ReceiveData \/ ReceiveListening \/ ReceiveAnswer
Serve == ServePut \/ ServeListen

Next ==
  \/ Connect
  \/ Disconnect
  \/ Resumed
  \/ Request
  \/ Receive
  \/ Serve
  \/ \E p \in Paths, val \in Values : RemoteWrite(p, val)

\* The client is opened, its queue runs, a network that is not lost delivers,
\* and the server answers.  Nobody has to go online again.
Fairness ==
  /\ WF_vars(Resumed /\ "waitingForOpen" \in interruptReasons)
  /\ WF_vars(Connect)
  /\ WF_vars(Receive)
  /\ WF_vars(Serve)

Spec == Init /\ [][Next]_vars /\ Fairness

-----------------------------------------------------------------------------
Answers == [index : Nat, ok : BOOLEAN]

TypeOK ==
  /\ connectionState \in {"disconnected", "gettingToken", "connecting", "connected"}
  /\ interruptReasons \subseteq {"waitingForOpen", "repoInterrupt", "serverKill"}
  /\ scheduledRetry \in BOOLEAN
  /\ currentFetchTokenAttempt \in Nat
  /\ fetches \subseteq 1..currentFetchTokenAttempt
  /\ realtime \in {"none", "connecting", "connected"}
  /\ putCounter \in Nat
  /\ DOMAIN outstandingPuts \subseteq 0..(putCounter - 1)
  /\ \A i \in DOMAIN outstandingPuts : outstandingPuts[i] \in [path : Paths, val : Values]
  /\ listens \subseteq Paths
  /\ unackedListensCount \in Nat
  /\ putsToAck \in Seq(Answers) /\ acked \in Seq(Answers)
  /\ cache \in [Paths -> Values \cup {Unknown}]
  /\ toServer \in Seq(Requests) /\ toClient \in Seq(Messages)
  /\ serverListens \subseteq Paths
  /\ db \in [Paths -> Values]

\* What tryScheduleReconnect, its blocks, openNetworkConnectionWithToken and
\* restoreAuth assert about the state of the connection, at the moments they
\* may run, and that FConnection is never sent anything while it is not
\* connected: no interruption, loss or late token brings them together wrongly.
AssertionsHold ==
  /\ scheduledRetry => connectionState = "disconnected"
  /\ \A attempt \in fetches :
       Latest(attempt) => connectionState \in {"gettingToken", "disconnected"}
  /\ realtime = "connecting" => connectionState = "connecting"
  /\ CanSendWrites => realtime = "connected"

\* The connection is never stranded: unless something interrupts it, it is up,
\* on its way up, or an attempt is scheduled.
NeverStranded ==
  interruptReasons = {} =>
    \/ scheduledRetry
    \/ connectionState = "gettingToken" /\ currentFetchTokenAttempt \in fetches
    \/ connectionState = "connecting" /\ realtime = "connecting"
    \/ connectionState = "connected" /\ realtime = "connected"

\* What was written and changed while the connection was down is learned when
\* it is up again: a leaf that is listened to is held as the database has it
\* once nothing is on its way, although the server leaves out what the hash
\* says the client knows.
CacheCurrent ==
  connectionState = "connected" /\ toServer = <<>> /\ toClient = <<>> =>
    \A p \in listens : cache[p] = db[p]

Ledger == INSTANCE WriteLedger
  WITH issued <- putCounter, answered <- [k \in 1..Len(acked) |-> acked[k].ok]

\* At least once, in order, and never again after the answer.
LedgerSpec == Ledger!Spec

\* The answers come in the order of the writes, which is what the cache
\* relies on, also when some were held back across a loss of the connection.
AnswersInOrder == \A k \in 1..Len(acked) : acked[k].index = k - 1

\* However often the connection is lost, each write is answered in the end,
\* unless the connection stays interrupted.
WritesAnswered ==
  \A n \in 1..MaxPuts :
    putCounter >= n ~> Len(acked) >= n \/ interruptReasons # {}
=============================================================================
