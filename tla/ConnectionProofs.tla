-------------------------- MODULE ConnectionProofs --------------------------
(***************************************************************************)
(* Theorems about a connection that may be lost, for any number of writes, *)
(* listens, losses, interruptions, late tokens and writes of others: how   *)
(* the client connects, what becomes of its writes (the connection         *)
(* implements WriteLedger), and what it holds of the leaves it listens to. *)
(***************************************************************************)
EXTENDS PersistentConnection, ChannelProofs

(* How the client connects.                                                *)

\* The variables of the attempts to connect, typed.
AttemptsTyped ==
  /\ connectionState \in {"disconnected", "gettingToken", "connecting", "connected"}
  /\ realtime \in {"none", "connecting", "connected"}
  /\ scheduledRetry \in BOOLEAN
  /\ currentFetchTokenAttempt \in Nat
  /\ fetches \subseteq 1..currentFetchTokenAttempt

\* The state of the connection says which of the three steps that lead to the
\* next one is pending, and that it is the only one that counts.
OneStepPending ==
  /\ scheduledRetry => connectionState = "disconnected"
  /\ interruptReasons = {} /\ connectionState = "disconnected" => scheduledRetry
  /\ connectionState = "gettingToken" => currentFetchTokenAttempt \in fetches
  /\ connectionState \in {"connecting", "connected"} =>
       /\ realtime = connectionState
       /\ currentFetchTokenAttempt \notin fetches
  /\ connectionState \in {"disconnected", "gettingToken"} => realtime = "none"

IInv == AttemptsTyped /\ OneStepPending

\* The connection waits to be opened.
LEMMA Initially == Init => IInv
<1> SUFFICES ASSUME Init PROVE IInv
  OBVIOUS
<1>1. /\ connectionState = "disconnected" /\ realtime = "none"
      /\ interruptReasons # {} /\ scheduledRetry = FALSE
      /\ currentFetchTokenAttempt = 0 /\ fetches = {}
  BY DEF Init
<1> QED
  BY <1>1 DEF IInv, AttemptsTyped, OneStepPending

\* A retry makes a new attempt, which is the latest.
LEMMA RetryKeeps == IInv /\ Retry => IInv'
<1> SUFFICES ASSUME IInv, Retry PROVE IInv'
  OBVIOUS
<1>1. /\ scheduledRetry' = FALSE /\ connectionState' = "gettingToken"
      /\ currentFetchTokenAttempt' = currentFetchTokenAttempt + 1
      /\ fetches' = fetches \cup {currentFetchTokenAttempt'}
      /\ UNCHANGED <<interruptReasons, realtime>>
  BY DEF Retry
<1>2. AttemptsTyped'
  <2>1. currentFetchTokenAttempt \in Nat /\ fetches \subseteq 1..currentFetchTokenAttempt
    BY DEF IInv, AttemptsTyped
  <2>2. currentFetchTokenAttempt' \in Nat /\ fetches' \subseteq 1..currentFetchTokenAttempt'
    BY <1>1, <2>1
  <2>3. realtime' \in {"none", "connecting", "connected"}
    BY <1>1 DEF IInv, AttemptsTyped
  <2> QED
    BY <1>1, <2>2, <2>3 DEF AttemptsTyped
<1>3. OneStepPending'
  BY <1>1 DEF Retry, IInv, AttemptsTyped, OneStepPending
<1> QED
  BY <1>2, <1>3 DEF IInv

\* A token opens a connection only if its attempt is the latest and still
\* wanted; any other leaves the connection as it is.
LEMMA TokenKeeps == IInv /\ (\E attempt \in fetches : TokenFetched(attempt)) => IInv'
<1> SUFFICES ASSUME IInv, NEW attempt \in fetches, TokenFetched(attempt) PROVE IInv'
  OBVIOUS
<1>1. /\ fetches' = fetches \ {attempt}
      /\ UNCHANGED <<interruptReasons, scheduledRetry, currentFetchTokenAttempt>>
  BY DEF TokenFetched
<1>2. CASE Latest(attempt) /\ connectionState = "gettingToken"
  <2>1. connectionState' = "connecting" /\ realtime' = "connecting"
    BY <1>2 DEF TokenFetched
  <2> QED
    BY <1>1, <1>2, <2>1 DEF IInv, AttemptsTyped, OneStepPending, Latest
<1>3. CASE ~(Latest(attempt) /\ connectionState = "gettingToken")
  <2>1. UNCHANGED <<connectionState, realtime>>
    BY <1>3 DEF TokenFetched
  <2> QED
    BY <1>1, <1>3, <2>1 DEF IInv, AttemptsTyped, OneStepPending, Latest
<1> QED
  BY <1>2, <1>3

\* A connection that is ready was being opened.
LEMMA ReadyKeeps == IInv /\ Ready => IInv'
  BY DEF Ready, attemptVars, IInv, AttemptsTyped, OneStepPending

\* A lost connection is scheduled anew unless it was interrupted.
LEMMA DisconnectKeeps == IInv /\ Disconnect => IInv'
<1> SUFFICES ASSUME IInv, Disconnect PROVE IInv'
  OBVIOUS
<1>1. CASE Lose
  BY <1>1 DEF Lose, OnDisconnect, TryScheduleReconnect, IInv, AttemptsTyped,
              OneStepPending
<1>2. ASSUME NEW reason, Interrupt(reason) PROVE IInv'
  <2>1. /\ interruptReasons' = interruptReasons \cup {reason}
        /\ UNCHANGED <<currentFetchTokenAttempt, fetches>>
    BY <1>2 DEF Interrupt
  <2>2. interruptReasons' # {}
    BY <2>1
  <2>3. connectionState' = "disconnected" /\ realtime' = "none"
    BY <1>2 DEF Interrupt, OnDisconnect
  <2>4. scheduledRetry' \in BOOLEAN
    BY <1>2 DEF Interrupt, OnDisconnect, TryScheduleReconnect, Cancel
  <2> QED
    BY <2>1, <2>2, <2>3, <2>4 DEF IInv, AttemptsTyped, OneStepPending
<1> QED
  BY <1>1, <1>2 DEF Disconnect, GoOffline, ServerKill

\* The network or the app is back: an attempt is scheduled unless something
\* keeps the connection down.
LEMMA BackKeeps == IInv /\ Back => IInv'
BY DEF Back, TryScheduleReconnect, IInv, AttemptsTyped, OneStepPending

\* The last reason to stay down is gone: an attempt is scheduled, unless the
\* connection is not down.
LEMMA ResumeKeeps == IInv /\ Resumed => IInv'
<1> SUFFICES ASSUME IInv, NEW reason, Resume(reason) PROVE IInv'
  BY BackKeeps DEF Resumed, Open, GoOnline
<1>1. /\ interruptReasons' = interruptReasons \ {reason}
      /\ UNCHANGED <<connectionState, realtime, currentFetchTokenAttempt, fetches>>
  BY DEF Resume
<1>2. CASE connectionState = "disconnected"
  BY <1>1, <1>2 DEF Resume, TryScheduleReconnect, IInv, AttemptsTyped, OneStepPending
<1>3. CASE connectionState # "disconnected"
  BY <1>1, <1>3 DEF Resume, IInv, AttemptsTyped, OneStepPending
<1> QED
  BY <1>2, <1>3

\* Requests, messages and the server have no part in connecting.
LEMMA OthersKeep ==
  ASSUME IInv,
         \/ Request \/ Receive \/ Serve
         \/ \E p \in Paths, val \in Values : RemoteWrite(p, val)
  PROVE  IInv'
<1>1. UNCHANGED stateVars
  BY DEF Request, PutData, ListenTo, Receive, ReceiveData, ReceiveListening,
         ReceiveAnswer, Serve, ServePut, ServeListen, RemoteWrite
<1> QED
  BY <1>1 DEF stateVars, attemptVars, IInv, AttemptsTyped, OneStepPending

\* The inductive invariant of the connection's attempts.
THEOREM Invariant == Spec => []IInv
<1>1. IInv /\ [Next]_vars => IInv'
  <2> SUFFICES ASSUME IInv, [Next]_vars PROVE IInv'
    OBVIOUS
  <2>1. CASE UNCHANGED vars
    BY <2>1 DEF vars, stateVars, attemptVars, IInv, AttemptsTyped, OneStepPending
  <2>2. CASE Next
    BY <2>2, RetryKeeps, TokenKeeps, ReadyKeeps, DisconnectKeeps, ResumeKeeps,
       OthersKeep DEF Next, Connect
  <2> QED
    BY <2>1, <2>2
<1> QED
  BY Initially, <1>1, PTL DEF Spec

\* None of the assertions of FPersistentConnection about the state of the
\* connection can fail, whatever is interrupted, lost or late.
THEOREM Asserted == Spec => []AssertionsHold
<1>1. IInv => AssertionsHold
  BY DEF IInv, AttemptsTyped, OneStepPending, AssertionsHold, Latest, CanSendWrites
<1> QED
  BY Invariant, <1>1, PTL

\* Unless something interrupts it, the connection is up or a step towards it
\* is pending, which is what fairness needs to bring it up.
THEOREM Unstranded == Spec => []NeverStranded
<1>1. IInv => NeverStranded
  BY DEF IInv, AttemptsTyped, OneStepPending, NeverStranded
<1> QED
  BY Invariant, <1>1, PTL

-----------------------------------------------------------------------------
(* What becomes of the writes: each is answered in its turn.               *)

\* The writes that have been answered, handed on to the cache or held back.
Settled == Len(acked) + Len(putsToAck)

\* Where the messages of each kind are.
PutAt == At(toServer, "put")
ListenAt == At(toServer, "listen")
AnswerAt == At(toClient, "answer")
ListeningAt == At(toClient, "listening")

-----------------------------------------------------------------------------
(* The inductive invariant.                                                *)

Typed ==
  /\ interruptReasons \subseteq {"waitingForOpen", "repoInterrupt", "serverKill"}
  /\ putCounter \in Nat
  /\ \A i \in DOMAIN outstandingPuts : outstandingPuts[i] \in [path : Paths, val : Values]
  /\ listens \subseteq Paths
  /\ putsToAck \in Seq(Answers) /\ acked \in Seq(Answers)
  /\ cache \in [Paths -> Values \cup {Unknown}]
  /\ toServer \in Seq(Requests) /\ toClient \in Seq(Messages)
  /\ serverListens \subseteq Paths
  /\ db \in [Paths -> Values]
  /\ log \in Seq(Answers)

\* The writes are settled in their order: those that are not are outstanding.
Outstanding ==
  /\ Settled <= putCounter
  /\ DOMAIN outstandingPuts = Settled..(putCounter - 1)

Numbered ==
  /\ \A k \in 1..Len(acked) : acked[k].index = k - 1
  /\ \A k \in 1..Len(putsToAck) : putsToAck[k].index = Len(acked) + k - 1

\* On their way are only outstanding writes and answers to them, in order,
\* with the answers ahead of the writes.
InTurn ==
  /\ \A k \in PutAt : toServer[k].index \in DOMAIN outstandingPuts
  /\ \A k, l \in PutAt : k < l => toServer[k].index < toServer[l].index
  /\ \A k \in AnswerAt : toClient[k].index \in DOMAIN outstandingPuts
  /\ \A k, l \in AnswerAt : k < l => toClient[k].index < toClient[l].index
  /\ \A k \in AnswerAt, l \in PutAt : toClient[k].index < toServer[l].index

\* While the connection is up, each outstanding write or its answer is on its
\* way, so that the next answer is the one to the oldest of them.
NoneLost ==
  connectionState = "connected" =>
    \A i \in DOMAIN outstandingPuts :
      \/ \E k \in AnswerAt : toClient[k].index = i
      \/ \E k \in PutAt : toServer[k].index = i

NothingWhileDown ==
  connectionState # "connected" => toClient = <<>> /\ unackedListensCount = 0

\* The listens that are on their way, and those whose response is.
Asked == {toServer[k].path : k \in ListenAt}
Told == {toClient[k].path : k \in ListeningAt}

\* The count of unanswered listens is what it says.
Counted ==
  /\ \A k, l \in ListenAt : toServer[k].path = toServer[l].path => k = l
  /\ \A k, l \in ListeningAt : toClient[k].path = toClient[l].path => k = l
  /\ Asked \cap Told = {}
  /\ Asked \cup Told \subseteq listens
  /\ IsFiniteSet(listens)
  /\ connectionState = "connected" =>
       unackedListensCount = Cardinality(Asked \cup Told)

\* There is a listen whose response will let go of the answers held back: on
\* the next connection if this one is lost.
HeldBehindListen ==
  putsToAck # <<>> =>
    /\ listens # {}
    /\ connectionState = "connected" => unackedListensCount > 0

Handled(i) == \E k \in 1..Len(log) : log[k].index = i

LastWord(i, ok) ==
  \E k \in 1..Len(log) :
    /\ log[k] = [index |-> i, ok |-> ok]
    /\ \A l \in (k + 1)..Len(log) : log[l].index # i

\* An answer that is on its way or held back is the server's last word.
Spoken ==
  /\ \A k \in AnswerAt : LastWord(toClient[k].index, toClient[k].ok)
  /\ \A k \in 1..Len(putsToAck) : LastWord(putsToAck[k].index, putsToAck[k].ok)
  /\ \A j \in 0..(Settled - 1) : Handled(j)

\* No write overtakes an earlier one that was never handled.
NoGap ==
  \A k \in PutAt : \A j \in 0..(toServer[k].index - 1) :
    Handled(j) \/ \E l \in PutAt : l < k /\ toServer[l].index = j

Answering ==
  /\ Typed
  /\ Outstanding /\ Numbered /\ InTurn /\ NoneLost /\ NothingWhileDown
  /\ Counted /\ HeldBehindListen
  /\ Spoken /\ NoGap

-----------------------------------------------------------------------------
(* Requests and messages.                                                  *)

\* A request that is made.
LEMMA RequestsMade ==
  /\ \A i \in Nat, put \in [path : Paths, val : Values] :
       /\ Put(i, put) \in Requests /\ Put(i, put).msg = "put" /\ Put(i, put).index = i
       /\ Put(i, put).path = put.path /\ Put(i, put).val = put.val
  /\ Typed => \A p \in Paths :
       /\ Listen(p) \in Requests /\ Listen(p).msg = "listen" /\ Listen(p).path = p
<1>1. ASSUME NEW i \in Nat, NEW put \in [path : Paths, val : Values]
      PROVE  /\ Put(i, put) \in Requests /\ Put(i, put).msg = "put" /\ Put(i, put).index = i
             /\ Put(i, put).path = put.path /\ Put(i, put).val = put.val
  BY DEF Put, Requests
<1>2. ASSUME Typed, NEW p \in Paths
      PROVE  Listen(p) \in Requests /\ Listen(p).msg = "listen" /\ Listen(p).path = p
  <2>1. HashOf(cache[p]) \in Values
    BY <1>2, PersistentConnectionAssumption DEF HashOf, Typed
  <2> QED
    BY <2>1 DEF Listen, Requests
<1> QED
  BY <1>1, <1>2

\* A message that is made.
LEMMA MessagesMade ==
  /\ \A p \in Paths, val \in Values :
       Data(p, val) \in Messages /\ Data(p, val).msg = "data"
  /\ \A p \in Paths, ok \in BOOLEAN :
       /\ ListenAnswer(p, ok) \in Messages /\ ListenAnswer(p, ok).msg = "listening"
       /\ ListenAnswer(p, ok).path = p
  /\ \A i \in Nat, ok \in BOOLEAN :
       /\ PutAnswer(i, ok) \in Messages /\ PutAnswer(i, ok).msg = "answer"
       /\ PutAnswer(i, ok).index = i /\ PutAnswer(i, ok).ok = ok
  BY DEF Data, ListenAnswer, PutAnswer, Messages

\* What is in a request or a message of each kind.
LEMMA Kinds ==
  /\ \A r \in Requests : r.msg = "put" => r.index \in Nat /\ r.path \in Paths /\ r.val \in Values
  /\ \A r \in Requests : r.msg = "listen" => r.path \in Paths /\ r.hash \in Values
  /\ \A m \in Messages : m.msg = "data" => m.path \in Paths /\ m.val \in Values
  /\ \A m \in Messages : m.msg = "listening" => m.path \in Paths /\ m.ok \in BOOLEAN
  /\ \A m \in Messages : m.msg = "answer" => m.index \in Nat /\ m.ok \in BOOLEAN
<1>1. ASSUME NEW r \in Requests, r.msg = "put"
      PROVE  r.index \in Nat /\ r.path \in Paths /\ r.val \in Values
  BY <1>1 DEF Requests
<1>2. ASSUME NEW r \in Requests, r.msg = "listen" PROVE r.path \in Paths /\ r.hash \in Values
  BY <1>2 DEF Requests
<1>3. ASSUME NEW m \in Messages, m.msg = "data" PROVE m.path \in Paths /\ m.val \in Values
  BY <1>3 DEF Messages
<1>4. ASSUME NEW m \in Messages, m.msg = "listening" PROVE m.path \in Paths /\ m.ok \in BOOLEAN
  BY <1>4 DEF Messages
<1>5. ASSUME NEW m \in Messages, m.msg = "answer" PROVE m.index \in Nat /\ m.ok \in BOOLEAN
  BY <1>5 DEF Messages
<1> QED
  BY <1>1, <1>2, <1>3, <1>4, <1>5

\* A reply: data or none, and the response.
LEMMA ReplyShape ==
  ASSUME NEW b, NEW p \in Paths, NEW val \in Values, NEW x \in Messages,
         NEW t, t = (IF b THEN <<Data(p, val)>> ELSE <<>>) \o <<x>>
  PROVE  /\ t \in Seq(Messages) /\ t # <<>> /\ t[Len(t)] = x
         /\ \A k \in 1..Len(t) : k # Len(t) => t[k].msg = "data"
<1>1. Data(p, val) \in Messages /\ Data(p, val).msg = "data"
  BY MessagesMade
<1>2. <<x>> \in Seq(Messages) /\ Len(<<x>>) = 1 /\ <<x>>[1] = x
  OBVIOUS
<1>3. CASE b
  <2> DEFINE d == <<Data(p, val)>>
  <2>1. d \in Seq(Messages) /\ Len(d) = 1 /\ d[1] = Data(p, val)
    BY <1>1
  <2>2. t = d \o <<x>>
    BY <1>3
  <2> HIDE DEF d
  <2>3. t \in Seq(Messages) /\ Len(t) = 2 /\ t[1] = d[1] /\ t[2] = x
    BY <1>2, <2>1, <2>2, ConcatProperties
  <2> QED
    BY <1>1, <2>1, <2>3, EmptySeq
<1>4. CASE ~b
  <2>1. t = <<>> \o <<x>>
    BY <1>4
  <2>2. t = <<x>>
    BY <1>2, <2>1, ConcatEmptySeq
  <2>3. t \in Seq(Messages) /\ Len(t) = 1 /\ t[1] = x
    BY <1>2, <2>2
  <2>4. t # <<>>
    BY <2>3, EmptySeq
  <2>5. ~ \E k \in 1..Len(t) : k # Len(t)
    BY <2>3
  <2> QED
    BY <2>3, <2>4, <2>5
<1> QED
  BY <1>3, <1>4

\* What the connection sends again: the listens, then the writes in order.
IsRestored(R, order, ids) ==
  /\ R \in Seq(Requests)
  /\ Len(order) \in Nat /\ Len(ids) \in Nat /\ Len(R) = Len(order) + Len(ids)
  /\ order \in [1..Len(order) -> listens]
  /\ ids \in [1..Len(ids) -> DOMAIN outstandingPuts]
  /\ \A k \in 1..Len(order) : R[k] = Listen(order[k])
  /\ \A k \in 1..Len(ids) : R[Len(order) + k] = Put(ids[k], outstandingPuts[ids[k]])
  /\ \A k, l \in 1..Len(order) : order[k] = order[l] => k = l
  /\ \A p \in listens : \E k \in 1..Len(order) : order[k] = p
  /\ \A i \in DOMAIN outstandingPuts : \E k \in 1..Len(ids) : ids[k] = i
  /\ DOMAIN outstandingPuts \subseteq Nat

\* So it is.
LEMMA RestoredIs ==
  ASSUME Typed, Outstanding, IsFiniteSet(listens),
         NEW order \in Orders(listens), NEW ids \in Orders(DOMAIN outstandingPuts),
         NEW R, R = Restored(order, ids)
  PROVE  IsRestored(R, order, ids)
<1> DEFINE n == Cardinality(listens)
           q == Cardinality(DOMAIN outstandingPuts)
           L == [k \in 1..Len(order) |-> Listen(order[k])]
           P == [k \in 1..Len(ids) |-> Put(ids[k], outstandingPuts[ids[k]])]
<1>1. n \in Nat
  BY FS_CardinalityType
<1>2. /\ order \in [1..n -> listens]
      /\ \A k, l \in 1..n : order[k] = order[l] => k = l
      /\ \A p \in listens : \E k \in 1..n : order[k] = p
  BY DEF Orders, Bijection, Injection, Surjection, IsInjective
<1>3. DOMAIN outstandingPuts \subseteq Nat /\ IsFiniteSet(DOMAIN outstandingPuts)
  <2>1. Len(acked) \in Nat /\ Len(putsToAck) \in Nat /\ Settled \in Nat
    BY LenProperties DEF Settled, Typed
  <2>2. putCounter - 1 \in Int
    BY DEF Typed
  <2>3. Settled..(putCounter - 1) \subseteq Nat
    BY <2>1, <2>2
  <2>4. IsFiniteSet(Settled..(putCounter - 1))
    BY <2>1, <2>2, FS_Interval
  <2> QED
    BY <2>3, <2>4 DEF Outstanding
<1>4. q \in Nat
  BY <1>3, FS_CardinalityType
<1>5. /\ ids \in [1..q -> DOMAIN outstandingPuts]
      /\ \A i \in DOMAIN outstandingPuts : \E k \in 1..q : ids[k] = i
  BY DEF Orders, Bijection, Injection, Surjection, IsInjective
<1>6. Len(order) = n /\ Len(ids) = q
  BY <1>1, <1>2, <1>4, <1>5, FunctionIsSeq
<1>7. L \in Seq(Requests) /\ Len(L) = n /\ \A k \in 1..n : L[k] = Listen(order[k])
  <2>1. \A k \in 1..n : Listen(order[k]) \in Requests
    BY <1>2, RequestsMade DEF Typed
  <2>2. L \in [1..n -> Requests]
    BY <1>6, <2>1
  <2> QED
    BY <1>1, <1>6, <2>2, FunctionIsSeq
<1>8. /\ P \in Seq(Requests) /\ Len(P) = q
      /\ \A k \in 1..q : P[k] = Put(ids[k], outstandingPuts[ids[k]])
  <2>1. \A k \in 1..q : Put(ids[k], outstandingPuts[ids[k]]) \in Requests
    BY <1>3, <1>5, RequestsMade DEF Typed
  <2>2. P \in [1..q -> Requests]
    BY <1>6, <2>1
  <2> QED
    BY <1>4, <1>6, <2>2, FunctionIsSeq
<1>9. R = L \o P
  BY DEF Restored
<1> HIDE DEF n, q, L, P
<1>10. /\ R \in Seq(Requests) /\ Len(R) = n + q
       /\ \A k \in 1..(n + q) : R[k] = IF k <= n THEN L[k] ELSE P[k - n]
  BY <1>7, <1>8, <1>9, ConcatProperties
<1>11. \A k \in 1..q : R[n + k] = P[k]
  <2> SUFFICES ASSUME NEW k \in 1..q PROVE R[n + k] = P[k]
    OBVIOUS
  <2>1. n + k \in 1..(n + q) /\ ~(n + k <= n) /\ (n + k) - n = k
    BY <1>1, <1>4
  <2> QED
    BY <1>10, <2>1
<1>12. \A k \in 1..n : R[k] = L[k]
  BY <1>1, <1>4, <1>10
<1> QED
  BY <1>1, <1>2, <1>3, <1>4, <1>5, <1>6, <1>7, <1>8, <1>10, <1>11, <1>12
     DEF IsRestored

-----------------------------------------------------------------------------
(* The steps keep the types.                                               *)

\* Of the server: it takes a request and may send messages.
LEMMA ServeTypes ==
  ASSUME Typed,
         Serve \/ \E p \in Paths, val \in Values : RemoteWrite(p, val)
  PROVE  Typed'
<1>1. CASE ServePut
  <2>1. /\ toServer # <<>> /\ Head(toServer) \in Requests /\ Head(toServer).msg = "put"
        /\ toServer' = Tail(toServer) /\ toServer' \in Seq(Requests)
    BY <1>1, HeadTailProperties DEF ServePut, Typed
  <2>2. PICK ok \in Verdicts :
          /\ log' = Append(log, [index |-> Head(toServer).index, ok |-> ok])
          /\ db' = IF ok THEN [db EXCEPT ![Head(toServer).path] = Head(toServer).val] ELSE db
          /\ Reply((IF ok THEN Push(Head(toServer).path, Head(toServer).val) ELSE <<>>)
                     \o <<PutAnswer(Head(toServer).index, ok)>>)
    BY <1>1 DEF ServePut
  <2>3. ok \in BOOLEAN
    BY PersistentConnectionAssumption
  <2>4. Head(toServer).index \in Nat /\ Head(toServer).path \in Paths /\ Head(toServer).val \in Values
    BY <2>1, Kinds
  <2>5. log' \in Seq(Answers)
    <3>1. [index |-> Head(toServer).index, ok |-> ok] \in Answers
      BY <2>3, <2>4 DEF Answers
    <3> QED
      BY <2>2, <3>1, AppendProperties DEF Typed
  <2>6. db' \in [Paths -> Values]
    BY <2>2, <2>4 DEF Typed
  <2>7. toClient' \in Seq(Messages)
    <3> DEFINE b == ok /\ Head(toServer).path \in serverListens
               t == (IF b THEN <<Data(Head(toServer).path, Head(toServer).val)>> ELSE <<>>)
                      \o <<PutAnswer(Head(toServer).index, ok)>>
    <3>1. Reply(t)
      BY <2>2 DEF Push
    <3>2. t \in Seq(Messages)
      BY <2>3, <2>4, MessagesMade, ReplyShape
    <3> HIDE DEF t
    <3> QED
      BY <3>1, <3>2, ConcatProperties DEF Reply, Typed
  <2>8. UNCHANGED <<stateVars, requestVars, answerVars, serverListens>>
    BY <1>1 DEF ServePut
  <2> QED
    BY <2>1, <2>5, <2>6, <2>7, <2>8 DEF Typed, stateVars, attemptVars, requestVars, answerVars
<1>2. CASE ServeListen
  <2>1. /\ toServer # <<>> /\ Head(toServer) \in Requests /\ Head(toServer).msg = "listen"
        /\ toServer' = Tail(toServer) /\ toServer' \in Seq(Requests)
    BY <1>2, HeadTailProperties DEF ServeListen, Typed
  <2> DEFINE p == Head(toServer).path
  <2>2. PICK ok \in ListenVerdicts :
          /\ serverListens' = IF ok THEN serverListens \cup {p} ELSE serverListens
          /\ Reply((IF ok /\ Head(toServer).hash # db[p] THEN <<Data(p, db[p])>> ELSE <<>>)
                     \o <<ListenAnswer(p, ok)>>)
    BY <1>2 DEF ServeListen
  <2>3. ok \in BOOLEAN
    BY PersistentConnectionAssumption
  <2>4. p \in Paths /\ db[p] \in Values
    BY <2>1, Kinds DEF Typed
  <2>5. serverListens' \subseteq Paths
    BY <2>2, <2>4 DEF Typed
  <2>6. toClient' \in Seq(Messages)
    <3> DEFINE b == ok /\ Head(toServer).hash # db[p]
               t == (IF b THEN <<Data(p, db[p])>> ELSE <<>>) \o <<ListenAnswer(p, ok)>>
    <3>1. Reply(t)
      BY <2>2
    <3>2. t \in Seq(Messages)
      BY <2>3, <2>4, MessagesMade, ReplyShape
    <3> HIDE DEF t
    <3> QED
      BY <3>1, <3>2, ConcatProperties DEF Reply, Typed
  <2>7. UNCHANGED <<stateVars, requestVars, answerVars, db, log>>
    BY <1>2 DEF ServeListen
  <2> QED
    BY <2>1, <2>5, <2>6, <2>7 DEF Typed, stateVars, attemptVars, requestVars, answerVars
<1>3. ASSUME NEW p \in Paths, NEW val \in Values, RemoteWrite(p, val) PROVE Typed'
  <2>1. Push(p, val) \in Seq(Messages)
    <3>1. Data(p, val) \in Messages
      BY MessagesMade
    <3>2. <<>> \in Seq(Messages) /\ <<Data(p, val)>> \in Seq(Messages)
      BY <3>1
    <3> QED
      BY <3>2 DEF Push
  <2>2. toClient' \in Seq(Messages)
    BY <1>3, <2>1, ConcatProperties DEF RemoteWrite, Reply, Typed
  <2>3. db' \in [Paths -> Values]
    BY <1>3 DEF RemoteWrite, Typed
  <2>4. UNCHANGED <<stateVars, requestVars, answerVars, toServer, serverListens, log>>
    BY <1>3 DEF RemoteWrite
  <2> QED
    BY <2>2, <2>3, <2>4 DEF Typed, stateVars, attemptVars, requestVars, answerVars
<1> QED
  BY <1>1, <1>2, <1>3 DEF Serve

\* Of the client, when a message comes.
LEMMA ReceiveTypes == Typed /\ Receive => Typed'
<1> SUFFICES ASSUME Typed, Receive PROVE Typed'
  OBVIOUS
<1>1. /\ toClient # <<>> /\ Head(toClient) \in Messages
      /\ toClient' = Tail(toClient) /\ toClient' \in Seq(Messages)
  <2>1. toClient # <<>> /\ toClient' = Tail(toClient)
    BY DEF Receive, ReceiveData, ReceiveListening, ReceiveAnswer, Arrives
  <2> QED
    BY <2>1, HeadTailProperties DEF Typed
<1>2. CASE ReceiveData
  <2>1. Head(toClient).path \in Paths /\ Head(toClient).val \in Values
    BY <1>1, <1>2, Kinds DEF ReceiveData, Arrives
  <2>2. cache' \in [Paths -> Values \cup {Unknown}]
    BY <1>2, <2>1 DEF ReceiveData, Typed
  <2>3. UNCHANGED <<stateVars, requestVars, putsToAck, acked, toServer, serverVars>>
    BY <1>2 DEF ReceiveData
  <2> QED
    BY <1>1, <2>2, <2>3 DEF Typed, stateVars, attemptVars, requestVars, serverVars
<1>3. CASE ReceiveListening
  <2>1. Head(toClient).path \in Paths
    BY <1>1, <1>3, Kinds DEF ReceiveListening, Arrives
  <2>2. cache' \in [Paths -> Values \cup {Unknown}]
    <3>1. HashOf(cache[Head(toClient).path]) \in Values \cup {Unknown}
      BY <2>1, PersistentConnectionAssumption DEF HashOf, Typed
    <3> QED
      BY <1>3, <2>1, <3>1 DEF ReceiveListening, Typed
  <2>3. listens' \subseteq Paths
    BY <1>3 DEF ReceiveListening, Typed
  <2>4. acked' \in Seq(Answers) /\ putsToAck' \in Seq(Answers)
    <3>1. acked \o putsToAck \in Seq(Answers) /\ <<>> \in Seq(Answers)
      BY ConcatProperties, EmptySeq DEF Typed
    <3> QED
      BY <1>3, <3>1 DEF ReceiveListening, Typed
  <2>5. UNCHANGED <<stateVars, putCounter, outstandingPuts, toServer, serverVars>>
    BY <1>3 DEF ReceiveListening
  <2> QED
    BY <1>1, <2>2, <2>3, <2>4, <2>5 DEF Typed, stateVars, attemptVars, serverVars
<1>4. CASE ReceiveAnswer
  <2> DEFINE answer == [index |-> Head(toClient).index, ok |-> Head(toClient).ok]
  <2>1. answer \in Answers
    <3>1. Head(toClient).index \in Nat /\ Head(toClient).ok \in BOOLEAN
      BY <1>1, <1>4, Kinds DEF ReceiveAnswer, Arrives
    <3> QED
      BY <3>1 DEF Answers
  <2>2. \/ acked' = Append(acked, answer) /\ putsToAck' = putsToAck
        \/ putsToAck' = Append(putsToAck, answer) /\ acked' = acked
    BY <1>4 DEF ReceiveAnswer
  <2> HIDE DEF answer
  <2>3. acked' \in Seq(Answers) /\ putsToAck' \in Seq(Answers)
    <3>1. Append(acked, answer) \in Seq(Answers) /\ Append(putsToAck, answer) \in Seq(Answers)
      BY <2>1, AppendProperties DEF Typed
    <3> QED
      BY <2>2, <3>1 DEF Typed
  <2>4. \A i \in DOMAIN outstandingPuts' : outstandingPuts'[i] \in [path : Paths, val : Values]
    BY <1>4 DEF ReceiveAnswer, Typed
  <2>5. UNCHANGED <<stateVars, putCounter, listens, cache, toServer, serverVars>>
    BY <1>4 DEF ReceiveAnswer
  <2> QED
    BY <1>1, <2>3, <2>4, <2>5 DEF Typed, stateVars, attemptVars, serverVars
<1> QED
  BY <1>2, <1>3, <1>4 DEF Receive

\* Of the client, when it is asked for something.
LEMMA RequestTypes == Typed /\ Request => Typed'
<1> SUFFICES ASSUME Typed, Request PROVE Typed'
  OBVIOUS
<1>1. ASSUME NEW p \in Paths, NEW val \in Values, PutData(p, val) PROVE Typed'
  <2> DEFINE put == [path |-> p, val |-> val]
  <2>1. put \in [path : Paths, val : Values] /\ Put(putCounter, put) \in Requests
    BY RequestsMade DEF Typed
  <2>2. toServer' \in Seq(Requests)
    BY <1>1, <2>1, AppendProperties DEF PutData, Typed
  <2>3. \A i \in DOMAIN outstandingPuts' : outstandingPuts'[i] \in [path : Paths, val : Values]
    BY <1>1, <2>1 DEF PutData, Typed
  <2>4. putCounter' \in Nat
    BY <1>1 DEF PutData, Typed
  <2>5. UNCHANGED <<stateVars, listens, answerVars, toClient, serverVars>>
    BY <1>1 DEF PutData
  <2> QED
    BY <2>2, <2>3, <2>4, <2>5 DEF Typed, stateVars, attemptVars, answerVars, serverVars
<1>2. ASSUME NEW p \in Paths, ListenTo(p) PROVE Typed'
  <2>1. toServer' \in Seq(Requests)
    <3>1. Listen(p) \in Requests
      BY RequestsMade
    <3>2. Append(toServer, Listen(p)) \in Seq(Requests)
      BY <3>1, AppendProperties DEF Typed
    <3> QED
      BY <1>2, <3>2 DEF ListenTo, Typed
  <2>2. listens' \subseteq Paths
    BY <1>2 DEF ListenTo, Typed
  <2>3. UNCHANGED <<stateVars, putCounter, outstandingPuts, putsToAck, cache, acked,
                    toClient, serverVars>>
    BY <1>2 DEF ListenTo
  <2> QED
    BY <2>1, <2>2, <2>3 DEF Typed, stateVars, attemptVars, serverVars
<1> QED
  BY <1>1, <1>2 DEF Request

\* Of the connection, as it goes up and down.
LEMMA ConnectionTypes ==
  ASSUME Typed, Outstanding, IsFiniteSet(listens), Connect \/ Disconnect \/ Resumed
  PROVE  Typed'
<1>1. CASE Ready
  <2>1. toServer' \in Seq(Requests)
    BY <1>1, RestoredIs DEF Ready, IsRestored
  <2>2. toClient' \in Seq(Messages) /\ serverListens' \subseteq Paths
    BY <1>1, EmptySeq DEF Ready
  <2>3. UNCHANGED <<attemptVars, requestVars, putsToAck, cache, acked, db, log>>
    BY <1>1 DEF Ready
  <2> QED
    BY <2>1, <2>2, <2>3 DEF Typed, attemptVars, requestVars
<1>2. CASE Retry \/ \E attempt \in fetches : TokenFetched(attempt)
  BY <1>2 DEF Retry, TokenFetched, Typed, requestVars, answerVars, serverVars
<1>3. CASE Lose
  BY <1>3, EmptySeq DEF Lose, OnDisconnect, Typed, requestVars, serverVars
<1>4. ASSUME NEW reason \in {"repoInterrupt", "serverKill"}, Interrupt(reason) PROVE Typed'
  <2>1. interruptReasons' \subseteq {"waitingForOpen", "repoInterrupt", "serverKill"}
    BY <1>4 DEF Interrupt, Typed
  <2>2. toClient' \in Seq(Messages)
    BY <1>4, EmptySeq DEF Interrupt, OnDisconnect, Typed
  <2>3. UNCHANGED <<requestVars, putsToAck, cache, acked, toServer, serverVars>>
    BY <1>4 DEF Interrupt
  <2> QED
    BY <2>1, <2>2, <2>3 DEF Typed, requestVars, serverVars
<1>5. CASE Resumed
  BY <1>5 DEF Resumed, Open, GoOnline, Back, Resume, Typed, requestVars, answerVars, serverVars
<1> QED
  BY <1>1, <1>2, <1>3, <1>4, <1>5 DEF Connect, Disconnect, GoOffline, ServerKill

-----------------------------------------------------------------------------
(* What the steps do to the channels.                                      *)

\* The server sends only on a connection that the client has.
LEMMA ReplyDoes ==
  ASSUME IInv, NEW t, Reply(t)
  PROVE  toClient' = IF connectionState = "connected" THEN toClient \o t ELSE toClient
  BY DEF Reply, IInv, AttemptsTyped, OneStepPending

\* The write at the head becomes the last answer.
LEMMA ServePutDoes ==
  ASSUME IInv, Typed, ServePut
  PROVE  /\ Removed(toServer, toServer', "put") /\ Shifted(toServer, toServer', "listen", 1)
         /\ toServer[1].index \in Nat
         /\ \E ok \in BOOLEAN :
              /\ log' = Append(log, [index |-> toServer[1].index, ok |-> ok])
              /\ connectionState = "connected" =>
                   /\ Added(toClient, toClient', "answer", PutAnswer(toServer[1].index, ok))
                   /\ Shifted(toClient, toClient', "listening", 0)
         /\ connectionState # "connected" => toClient' = toClient
         /\ UNCHANGED <<stateVars, requestVars, answerVars>>
<1>1. /\ toServer # <<>> /\ Head(toServer) \in Requests /\ Head(toServer).msg = "put"
      /\ toServer' = Tail(toServer) /\ Head(toServer) = toServer[1]
  BY HeadTailProperties DEF ServePut, Typed
<1> DEFINE r == toServer[1]
<1>2. PICK ok \in Verdicts :
        /\ log' = Append(log, [index |-> r.index, ok |-> ok])
        /\ Reply((IF ok THEN Push(r.path, r.val) ELSE <<>>) \o <<PutAnswer(r.index, ok)>>)
  BY <1>1 DEF ServePut
<1>3. ok \in BOOLEAN
  BY PersistentConnectionAssumption
<1>4. r.index \in Nat /\ r.path \in Paths /\ r.val \in Values
  BY <1>1, Kinds
<1>5. Removed(toServer, toServer', "put")
  BY <1>1, TailRemoves DEF Typed
<1>6. Shifted(toServer, toServer', "listen", 1)
  BY <1>1, TailShifts DEF Typed
<1> DEFINE t == (IF ok /\ r.path \in serverListens THEN <<Data(r.path, r.val)>> ELSE <<>>)
                  \o <<PutAnswer(r.index, ok)>>
<1>7. toClient' = IF connectionState = "connected" THEN toClient \o t ELSE toClient
  <2>1. Reply(t)
    BY <1>2 DEF Push
  <2> HIDE DEF t
  <2> QED
    BY <2>1, ReplyDoes
<1>8. PutAnswer(r.index, ok) \in Messages /\ PutAnswer(r.index, ok).msg = "answer"
  BY <1>3, <1>4, MessagesMade
<1>9. /\ t \in Seq(Messages) /\ t # <<>> /\ t[Len(t)] = PutAnswer(r.index, ok)
      /\ \A k \in 1..Len(t) : k # Len(t) => t[k].msg = "data"
  <2>1. t = (IF ok /\ r.path \in serverListens THEN <<Data(r.path, r.val)>> ELSE <<>>)
              \o <<PutAnswer(r.index, ok)>>
    OBVIOUS
  <2> HIDE DEF t, r
  <2> QED
    BY <1>4, <1>8, <2>1, ReplyShape
<1> HIDE DEF t
<1>10. /\ Added(toClient, toClient \o t, "answer", PutAnswer(r.index, ok))
       /\ Shifted(toClient, toClient \o t, "listening", 0)
  <2>1. Added(toClient, toClient \o t, "answer", t[Len(t)])
    BY <1>8, <1>9, ConcatAdds DEF Typed
  <2>2. \A k \in 1..Len(t) : t[k].msg # "listening"
    BY <1>8, <1>9
  <2>3. Shifted(toClient, toClient \o t, "listening", 0)
    BY <1>9, <2>2, ConcatShifts DEF Typed
  <2> QED
    BY <1>9, <2>1, <2>3
<1>11. UNCHANGED <<stateVars, requestVars, answerVars>>
  BY DEF ServePut
<1> QED
  BY <1>2, <1>3, <1>4, <1>5, <1>6, <1>7, <1>10, <1>11

\* The listen at the head becomes the last response.
LEMMA ServeListenDoes ==
  ASSUME IInv, Typed, ServeListen
  PROVE  /\ Removed(toServer, toServer', "listen") /\ Shifted(toServer, toServer', "put", 1)
         /\ \E ok \in BOOLEAN :
              connectionState = "connected" =>
                /\ Added(toClient, toClient', "listening", ListenAnswer(toServer[1].path, ok))
                /\ Shifted(toClient, toClient', "answer", 0)
         /\ connectionState # "connected" => toClient' = toClient
         /\ UNCHANGED <<stateVars, requestVars, answerVars, log>>
<1>1. /\ toServer # <<>> /\ Head(toServer) \in Requests /\ Head(toServer).msg = "listen"
      /\ toServer' = Tail(toServer) /\ Head(toServer) = toServer[1]
  BY HeadTailProperties DEF ServeListen, Typed
<1> DEFINE p == toServer[1].path
           b(ok) == ok /\ toServer[1].hash # db[p]
<1>2. PICK ok \in ListenVerdicts :
        Reply((IF b(ok) THEN <<Data(p, db[p])>> ELSE <<>>) \o <<ListenAnswer(p, ok)>>)
  BY <1>1 DEF ServeListen
<1>3. ok \in BOOLEAN
  BY PersistentConnectionAssumption
<1>4. p \in Paths /\ db[p] \in Values
  BY <1>1, Kinds DEF Typed
<1>5. Removed(toServer, toServer', "listen")
  BY <1>1, TailRemoves DEF Typed
<1>6. Shifted(toServer, toServer', "put", 1)
  BY <1>1, TailShifts DEF Typed
<1> DEFINE t == (IF b(ok) THEN <<Data(p, db[p])>> ELSE <<>>) \o <<ListenAnswer(p, ok)>>
<1>7. toClient' = IF connectionState = "connected" THEN toClient \o t ELSE toClient
  <2>1. Reply(t)
    BY <1>2
  <2> HIDE DEF t
  <2> QED
    BY <2>1, ReplyDoes
<1>8. ListenAnswer(p, ok) \in Messages /\ ListenAnswer(p, ok).msg = "listening"
  BY <1>3, <1>4, MessagesMade
<1>9. /\ t \in Seq(Messages) /\ t # <<>> /\ t[Len(t)] = ListenAnswer(p, ok)
      /\ \A k \in 1..Len(t) : k # Len(t) => t[k].msg = "data"
  <2>1. t = (IF b(ok) THEN <<Data(p, db[p])>> ELSE <<>>) \o <<ListenAnswer(p, ok)>>
    OBVIOUS
  <2> HIDE DEF b, t, p
  <2> QED
    BY <1>4, <1>8, <2>1, ReplyShape
<1> HIDE DEF t
<1>10. /\ Added(toClient, toClient \o t, "listening", ListenAnswer(p, ok))
       /\ Shifted(toClient, toClient \o t, "answer", 0)
  <2>1. Added(toClient, toClient \o t, "listening", t[Len(t)])
    BY <1>8, <1>9, ConcatAdds DEF Typed
  <2>2. \A k \in 1..Len(t) : t[k].msg # "answer"
    BY <1>8, <1>9
  <2>3. Shifted(toClient, toClient \o t, "answer", 0)
    BY <1>9, <2>2, ConcatShifts DEF Typed
  <2> QED
    BY <1>9, <2>1, <2>3
<1>11. UNCHANGED <<stateVars, requestVars, answerVars, log>>
  BY DEF ServeListen
<1> QED
  BY <1>3, <1>5, <1>6, <1>7, <1>10, <1>11

\* Others bring data only.
LEMMA RemoteWriteDoes ==
  ASSUME IInv, Typed, NEW p \in Paths, NEW val \in Values, RemoteWrite(p, val)
  PROVE  /\ Shifted(toClient, toClient', "answer", 0)
         /\ Shifted(toClient, toClient', "listening", 0)
         /\ connectionState # "connected" => toClient' = toClient
         /\ UNCHANGED <<stateVars, requestVars, answerVars, toServer, log>>
<1>1. toClient' = IF connectionState = "connected" THEN toClient \o Push(p, val) ELSE toClient
  BY ReplyDoes DEF RemoteWrite
<1>2. /\ Push(p, val) \in Seq(Messages)
      /\ \A k \in 1..Len(Push(p, val)) : Push(p, val)[k].msg = "data"
  <2> DEFINE d == <<Data(p, val)>>
  <2>1. Data(p, val) \in Messages /\ Data(p, val).msg = "data"
    BY MessagesMade
  <2>2. d \in Seq(Messages) /\ Len(d) = 1 /\ d[1] = Data(p, val)
    BY <2>1
  <2>3. Push(p, val) = IF p \in serverListens THEN d ELSE <<>>
    BY DEF Push
  <2> HIDE DEF d
  <2>4. \A k \in 1..Len(d) : d[k].msg = "data"
    BY <2>1, <2>2
  <2>5. <<>> \in Seq(Messages) /\ Len(<<>>) = 0
    BY EmptySeq
  <2>6. ~ \E k \in 1..0 : TRUE
    OBVIOUS
  <2>7. CASE p \in serverListens
    BY <2>2, <2>3, <2>4, <2>7
  <2>8. CASE p \notin serverListens
    BY <2>3, <2>5, <2>6, <2>8
  <2> QED
    BY <2>7, <2>8
<1>3. ASSUME NEW m \in {"answer", "listening"} PROVE Shifted(toClient, toClient', m, 0)
  <2>1. \A k \in 1..Len(Push(p, val)) : Push(p, val)[k].msg # m
    BY <1>2
  <2>2. Shifted(toClient, toClient \o Push(p, val), m, 0)
    BY <1>2, <2>1, ConcatShifts DEF Typed
  <2>3. Shifted(toClient, toClient, m, 0)
    BY SameShifts DEF Typed
  <2> QED
    BY <1>1, <2>2, <2>3
<1> QED
  BY <1>1, <1>3 DEF RemoteWrite

\* A message is taken from the head.
LEMMA ArrivesDoes ==
  ASSUME Typed, NEW m, Arrives(m)
  PROVE  /\ Removed(toClient, toClient', m)
         /\ \A n : n # m => Shifted(toClient, toClient', n, 1)
         /\ Head(toClient) = toClient[1] /\ toClient[1] \in Messages /\ toClient[1].msg = m
<1>1. /\ toClient # <<>> /\ Head(toClient) \in Messages /\ Head(toClient).msg = m
      /\ toClient' = Tail(toClient) /\ Head(toClient) = toClient[1]
  BY HeadTailProperties DEF Arrives, Typed
<1>2. Removed(toClient, toClient', m)
  BY <1>1, TailRemoves DEF Typed
<1>3. ASSUME NEW n, n # m PROVE Shifted(toClient, toClient', n, 1)
  BY <1>1, <1>3, TailShifts DEF Typed
<1> QED
  BY <1>1, <1>2, <1>3

-----------------------------------------------------------------------------
(* The steps keep the writes and their answers in turn.                    *)

\* The positions of the messages on their way are numbers.
LEMMA Places ==
  ASSUME Typed
  PROVE  /\ \A k \in PutAt : k \in Nat /\ k >= 1 /\ toServer[k].index \in Nat
         /\ \A k \in AnswerAt : k \in Nat /\ k >= 1 /\ k <= Len(toClient)
                                  /\ toClient[k].index \in Nat /\ toClient[k].ok \in BOOLEAN
         /\ \A k \in ListenAt : k \in Nat /\ k >= 1 /\ toServer[k].path \in Paths
         /\ \A k \in ListeningAt : k \in Nat /\ k >= 1 /\ k <= Len(toClient)
                                     /\ toClient[k].path \in Paths
         /\ Len(acked) \in Nat /\ Len(putsToAck) \in Nat /\ Settled \in Nat
<1>1. /\ \A k \in PutAt : k \in Nat /\ k >= 1 /\ toServer[k] \in Requests /\ toServer[k].msg = "put"
      /\ \A k \in ListenAt : k \in Nat /\ k >= 1 /\ toServer[k] \in Requests /\ toServer[k].msg = "listen"
      /\ \A k \in AnswerAt : /\ k \in Nat /\ k >= 1 /\ k <= Len(toClient)
                             /\ toClient[k] \in Messages /\ toClient[k].msg = "answer"
      /\ \A k \in ListeningAt : /\ k \in Nat /\ k >= 1 /\ k <= Len(toClient)
                                /\ toClient[k] \in Messages /\ toClient[k].msg = "listening"
  BY Positions DEF Typed, PutAt, ListenAt, AnswerAt, ListeningAt
<1>2. Len(acked) \in Nat /\ Len(putsToAck) \in Nat /\ Settled \in Nat
  BY LenProperties DEF Typed, Settled
<1> QED
  BY <1>1, <1>2, Kinds

\* Neither a write nor an answer comes or goes.
LEMMA TurnShifted ==
  ASSUME Typed, InTurn, NoneLost, Typed', NEW d \in Int, NEW e \in Int,
         Shifted(toServer, toServer', "put", d), Shifted(toClient, toClient', "answer", e),
         outstandingPuts' = outstandingPuts,
         connectionState' = "connected" => connectionState = "connected"
  PROVE  InTurn' /\ NoneLost'
<1>1. /\ \A k \in PutAt' : k \in Nat /\ k + d \in PutAt /\ toServer'[k] = toServer[k + d]
      /\ \A k \in PutAt : k \in Nat /\ k - d \in PutAt' /\ toServer'[k - d] = toServer[k]
  BY Places, Positions DEF Shifted, PutAt, Typed
<1>2. /\ \A k \in AnswerAt' : k \in Nat /\ k + e \in AnswerAt /\ toClient'[k] = toClient[k + e]
      /\ \A k \in AnswerAt : k \in Nat /\ k - e \in AnswerAt' /\ toClient'[k - e] = toClient[k]
  BY Places, Positions DEF Shifted, AnswerAt, Typed
<1>3. \A k, l \in PutAt' : k < l => toServer'[k].index < toServer'[l].index
  <2> SUFFICES ASSUME NEW k \in PutAt', NEW l \in PutAt', k < l
               PROVE  toServer'[k].index < toServer'[l].index
    OBVIOUS
  <2>1. k + d < l + d
    BY <1>1
  <2> QED
    BY <1>1, <2>1 DEF InTurn
<1>4. \A k, l \in AnswerAt' : k < l => toClient'[k].index < toClient'[l].index
  <2> SUFFICES ASSUME NEW k \in AnswerAt', NEW l \in AnswerAt', k < l
               PROVE  toClient'[k].index < toClient'[l].index
    OBVIOUS
  <2>1. k + e < l + e
    BY <1>2
  <2> QED
    BY <1>2, <2>1 DEF InTurn
<1>5. InTurn'
  BY <1>1, <1>2, <1>3, <1>4 DEF InTurn
<1>6. NoneLost'
  <2> SUFFICES ASSUME connectionState = "connected", NEW i \in DOMAIN outstandingPuts
               PROVE  \/ \E k \in AnswerAt' : toClient'[k].index = i
                      \/ \E k \in PutAt' : toServer'[k].index = i
    BY DEF NoneLost
  <2>1. ASSUME NEW k \in AnswerAt, toClient[k].index = i
        PROVE  \E l \in AnswerAt' : toClient'[l].index = i
    BY <1>2, <2>1
  <2>2. ASSUME NEW k \in PutAt, toServer[k].index = i
        PROVE  \E l \in PutAt' : toServer'[l].index = i
    BY <1>1, <2>2
  <2> QED
    BY <2>1, <2>2 DEF NoneLost
<1> QED
  BY <1>5, <1>6

\* The oldest write on its way becomes the newest answer, or is handled in
\* vain if nobody is there to be answered.
LEMMA TurnServePut ==
  ASSUME IInv, Typed, InTurn, NoneLost, NothingWhileDown, Typed', ServePut
  PROVE  InTurn' /\ NoneLost'
<1>1. /\ 1 \in PutAt
      /\ \A k \in PutAt' : k \in Nat /\ k + 1 \in PutAt /\ toServer'[k] = toServer[k + 1]
      /\ \A k \in PutAt : k = 1 \/ (k - 1 \in PutAt' /\ toServer'[k - 1] = toServer[k])
  BY ServePutDoes, Positions DEF Removed, PutAt, Typed
<1>2. UNCHANGED <<outstandingPuts, connectionState>>
  BY ServePutDoes DEF requestVars, stateVars
<1>3. \A k \in PutAt' : /\ toServer'[k].index \in DOMAIN outstandingPuts
                        /\ toServer[1].index < toServer'[k].index
  <2> SUFFICES ASSUME NEW k \in PutAt'
               PROVE  /\ toServer'[k].index \in DOMAIN outstandingPuts
                      /\ toServer[1].index < toServer'[k].index
    OBVIOUS
  <2>1. k + 1 \in PutAt /\ 1 < k + 1 /\ toServer'[k] = toServer[k + 1]
    BY <1>1, Positions DEF PutAt, Typed
  <2> QED
    BY <1>1, <2>1 DEF InTurn
<1>4. \A k, l \in PutAt' : k < l => toServer'[k].index < toServer'[l].index
  <2> SUFFICES ASSUME NEW k \in PutAt', NEW l \in PutAt', k < l
               PROVE  toServer'[k].index < toServer'[l].index
    OBVIOUS
  <2>1. k + 1 < l + 1
    BY <1>1
  <2> QED
    BY <1>1, <2>1 DEF InTurn
<1>5. CASE connectionState = "connected"
  <2> DEFINE i == toServer[1].index
             n == Len(toClient')
  <2>1. /\ \A k \in AnswerAt : k \in AnswerAt' /\ toClient'[k] = toClient[k] /\ k < n
        /\ n \in AnswerAt' /\ toClient'[n].index = i
        /\ \A k \in AnswerAt' : k = n \/ k \in AnswerAt
    <3>1. PICK ok \in BOOLEAN : Added(toClient, toClient', "answer", PutAnswer(i, ok))
      BY <1>5, ServePutDoes
    <3>2. i \in Nat /\ PutAnswer(i, ok).index = i
      BY ServePutDoes, MessagesMade
    <3> HIDE DEF i
    <3> QED
      BY <3>1, <3>2 DEF Added, AnswerAt
  <2>2. i \in DOMAIN outstandingPuts /\ \A k \in AnswerAt : toClient[k].index < i
    BY <1>1 DEF InTurn
  <2>3. \A k \in AnswerAt' : toClient'[k].index \in DOMAIN outstandingPuts
    BY <2>1, <2>2 DEF InTurn
  <2>4. \A k, l \in AnswerAt' : k < l => toClient'[k].index < toClient'[l].index
    <3> SUFFICES ASSUME NEW k \in AnswerAt', NEW l \in AnswerAt', k < l
                 PROVE  toClient'[k].index < toClient'[l].index
      OBVIOUS
    <3>1. k \in Nat /\ l \in Nat /\ n \in Nat
      BY <2>1, Positions DEF AnswerAt, Typed
    <3>2. k # n
      BY <2>1, <3>1
    <3>3. k \in AnswerAt /\ toClient'[k] = toClient[k]
      BY <2>1, <3>2
    <3>4. CASE l = n
      BY <2>1, <2>2, <3>3, <3>4
    <3>5. CASE l # n
      BY <2>1, <3>3, <3>5 DEF InTurn
    <3> QED
      BY <3>4, <3>5
  <2>5. \A k \in AnswerAt', l \in PutAt' : toClient'[k].index < toServer'[l].index
    <3> SUFFICES ASSUME NEW k \in AnswerAt', NEW l \in PutAt'
                 PROVE  toClient'[k].index < toServer'[l].index
      OBVIOUS
    <3>1. i < toServer'[l].index /\ l + 1 \in PutAt /\ toServer'[l] = toServer[l + 1]
      BY <1>1, <1>3
    <3>2. CASE k = n
      BY <2>1, <3>1, <3>2
    <3>3. CASE k # n
      BY <2>1, <3>1, <3>3 DEF InTurn
    <3> QED
      BY <3>2, <3>3
  <2>6. InTurn'
    BY <1>2, <1>3, <1>4, <2>3, <2>4, <2>5 DEF InTurn
  <2>7. NoneLost'
    <3> SUFFICES ASSUME NEW j \in DOMAIN outstandingPuts
                 PROVE  \/ \E k \in AnswerAt' : toClient'[k].index = j
                        \/ \E k \in PutAt' : toServer'[k].index = j
      BY <1>2 DEF NoneLost
    <3>1. CASE \E k \in AnswerAt : toClient[k].index = j
      BY <2>1, <3>1
    <3>2. ASSUME NEW k \in PutAt, toServer[k].index = j
          PROVE  \/ \E l \in AnswerAt' : toClient'[l].index = j
                 \/ \E l \in PutAt' : toServer'[l].index = j
      <4>1. CASE k = 1
        BY <2>1, <3>2, <4>1
      <4>2. CASE k # 1
        BY <1>1, <3>2, <4>2
      <4> QED
        BY <4>1, <4>2
    <3> QED
      BY <1>5, <3>1, <3>2 DEF NoneLost
  <2> QED
    BY <2>6, <2>7
<1>6. CASE connectionState # "connected"
  <2>1. AnswerAt' = {}
    <3>1. toClient' = <<>>
      BY <1>6, ServePutDoes DEF NothingWhileDown
    <3>2. Len(toClient') = 0
      BY <3>1, EmptySeq
    <3> QED
      BY <3>2 DEF AnswerAt, At
  <2>2. InTurn'
    BY <1>2, <1>3, <1>4, <2>1 DEF InTurn
  <2> QED
    BY <1>2, <1>6, <2>2 DEF NoneLost
<1> QED
  BY <1>5, <1>6

\* The first answer is the one to the oldest outstanding write.
LEMMA NextAnswer ==
  ASSUME Typed, Outstanding, InTurn, NoneLost, NothingWhileDown, 1 \in AnswerAt
  PROVE  /\ connectionState = "connected" /\ toClient[1].index = Settled
         /\ Settled \in DOMAIN outstandingPuts
<1>1. connectionState = "connected"
  <2>1. Len(toClient) # 0
    BY DEF AnswerAt, At
  <2> QED
    BY <2>1, EmptySeq DEF NothingWhileDown
<1> DEFINE i == toClient[1].index
<1>2. i \in DOMAIN outstandingPuts
  BY DEF InTurn
<1>3. i \in Nat /\ i >= Settled /\ Settled \in DOMAIN outstandingPuts
  BY <1>2, Places DEF Outstanding, Typed
<1>4. ASSUME NEW k \in AnswerAt, toClient[k].index = Settled PROVE i = Settled
  <2>1. k = 1 \/ 1 < k
    BY Places
  <2> QED
    BY <1>3, <1>4, <2>1, Places DEF InTurn
<1>5. ASSUME NEW k \in PutAt, toServer[k].index = Settled PROVE i = Settled
  <2>1. i < toServer[k].index
    BY DEF InTurn
  <2> QED
    BY <1>3, <1>5, <2>1, Places
<1> QED
  BY <1>1, <1>3, <1>4, <1>5 DEF NoneLost

\* The oldest outstanding write is settled.
LEMMA TurnReceiveAnswer ==
  ASSUME Typed, Outstanding, Numbered, InTurn, NoneLost, NothingWhileDown,
         HeldBehindListen, Typed', ReceiveAnswer
  PROVE  /\ Outstanding' /\ Numbered' /\ InTurn' /\ NoneLost'
         /\ connectionState = "connected" /\ toClient[1].index = Settled /\ 1 \in AnswerAt
         /\ Settled' = Settled + 1
<1> DEFINE answer == [index |-> toClient[1].index, ok |-> toClient[1].ok]
<1>1. /\ Head(toClient) = toClient[1] /\ Removed(toClient, toClient', "answer")
      /\ UNCHANGED <<connectionState, putCounter, toServer>>
  BY ArrivesDoes DEF ReceiveAnswer, stateVars
<1>2. 1 \in AnswerAt
  BY <1>1 DEF Removed, AnswerAt
<1>3. /\ connectionState = "connected" /\ toClient[1].index = Settled
      /\ Settled \in DOMAIN outstandingPuts
  BY <1>2, NextAnswer
<1>4. /\ Settled \in Nat /\ Len(acked) \in Nat /\ Len(putsToAck) \in Nat /\ putCounter \in Nat
      /\ Settled <= putCounter - 1
  BY <1>3, Places DEF Outstanding, Typed
<1>5. \/ unackedListensCount = 0 /\ acked' = Append(acked, answer) /\ putsToAck' = putsToAck
      \/ unackedListensCount # 0 /\ putsToAck' = Append(putsToAck, answer) /\ acked' = acked
  BY <1>1 DEF ReceiveAnswer
<1>6. answer \in Answers /\ answer.index = Settled
  BY <1>2, <1>3, Places DEF Answers
<1> HIDE DEF answer
<1>7. /\ Len(Append(acked, answer)) = Len(acked) + 1
      /\ Len(Append(putsToAck, answer)) = Len(putsToAck) + 1
      /\ \A k \in 1..Len(acked) : Append(acked, answer)[k] = acked[k]
      /\ Append(acked, answer)[Len(acked) + 1] = answer
      /\ \A k \in 1..Len(putsToAck) : Append(putsToAck, answer)[k] = putsToAck[k]
      /\ Append(putsToAck, answer)[Len(putsToAck) + 1] = answer
  BY <1>6, AppendProperties DEF Typed
<1>8. Settled' = Settled + 1
  BY <1>4, <1>5, <1>7 DEF Settled
<1>9. DOMAIN outstandingPuts' = (Settled + 1)..(putCounter - 1)
  <2>1. DOMAIN outstandingPuts' = DOMAIN outstandingPuts \ {Settled}
    BY <1>1, <1>3 DEF ReceiveAnswer
  <2> QED
    BY <1>4, <2>1 DEF Outstanding
<1>10. Outstanding'
  BY <1>1, <1>4, <1>8, <1>9 DEF Outstanding
<1>11. Numbered'
  <2>1. CASE acked' = Append(acked, answer) /\ putsToAck' = putsToAck /\ putsToAck = <<>>
    <3>1. Len(putsToAck) = 0 /\ Settled = Len(acked)
      BY <1>4, <2>1, EmptySeq DEF Settled
    <3>2. \A k \in 1..Len(acked') : acked'[k].index = k - 1
      BY <1>4, <1>6, <1>7, <2>1, <3>1 DEF Numbered
    <3> QED
      BY <2>1, <3>1, <3>2 DEF Numbered
  <2>2. CASE putsToAck' = Append(putsToAck, answer) /\ acked' = acked
    <3>1. ASSUME NEW k \in 1..Len(putsToAck')
          PROVE  putsToAck'[k].index = Len(acked) + k - 1
      <4>1. k = Len(putsToAck) + 1 \/ k \in 1..Len(putsToAck)
        BY <1>4, <1>7, <2>2
      <4>2. CASE k = Len(putsToAck) + 1
        BY <1>4, <1>6, <1>7, <2>2, <4>2 DEF Settled
      <4>3. CASE k \in 1..Len(putsToAck)
        BY <1>7, <2>2, <4>3 DEF Numbered
      <4> QED
        BY <4>1, <4>2, <4>3
    <3> QED
      BY <2>2, <3>1 DEF Numbered
  <2>3. unackedListensCount = 0 => putsToAck = <<>>
    BY <1>3 DEF HeldBehindListen
  <2> QED
    BY <1>5, <2>1, <2>2, <2>3
<1>12. /\ \A k \in AnswerAt' : /\ k \in Nat /\ k >= 1 /\ k + 1 \in AnswerAt
                               /\ toClient'[k] = toClient[k + 1]
       /\ \A k \in AnswerAt : k = 1 \/ (k - 1 \in AnswerAt' /\ toClient'[k - 1] = toClient[k])
  BY <1>1, Places, Positions DEF Removed, AnswerAt, Typed
<1>13. PutAt' = PutAt
  BY <1>1 DEF PutAt
<1>14. InTurn'
  <2>1. \A k \in PutAt' : toServer'[k].index \in DOMAIN outstandingPuts'
    <3> SUFFICES ASSUME NEW k \in PutAt PROVE toServer[k].index \in DOMAIN outstandingPuts'
      BY <1>1, <1>13
    <3>1. toServer[k].index \in Settled..(putCounter - 1) /\ Settled < toServer[k].index
      BY <1>2, <1>3 DEF InTurn, Outstanding
    <3> QED
      BY <1>4, <1>9, <3>1
  <2>2. \A k \in AnswerAt' : toClient'[k].index \in DOMAIN outstandingPuts'
    <3> SUFFICES ASSUME NEW k \in AnswerAt' PROVE toClient'[k].index \in DOMAIN outstandingPuts'
      OBVIOUS
    <3>1. k + 1 \in AnswerAt /\ 1 < k + 1 /\ toClient'[k] = toClient[k + 1]
      BY <1>12
    <3>2. toClient[k + 1].index \in Settled..(putCounter - 1) /\ Settled < toClient[k + 1].index
      BY <1>2, <1>3, <3>1 DEF InTurn, Outstanding
    <3> QED
      BY <1>4, <1>9, <3>1, <3>2
  <2>3. \A k, l \in AnswerAt' : k < l => toClient'[k].index < toClient'[l].index
    <3> SUFFICES ASSUME NEW k \in AnswerAt', NEW l \in AnswerAt', k < l
                 PROVE  toClient'[k].index < toClient'[l].index
      OBVIOUS
    <3>1. k + 1 < l + 1
      BY <1>12
    <3> QED
      BY <1>12, <3>1 DEF InTurn
  <2>4. \A k \in AnswerAt', l \in PutAt' : toClient'[k].index < toServer'[l].index
    BY <1>1, <1>12, <1>13 DEF InTurn
  <2>5. \A k, l \in PutAt' : k < l => toServer'[k].index < toServer'[l].index
    BY <1>1, <1>13 DEF InTurn
  <2> QED
    BY <2>1, <2>2, <2>3, <2>4, <2>5 DEF InTurn
<1>15. NoneLost'
  <2> SUFFICES ASSUME NEW i \in DOMAIN outstandingPuts'
               PROVE  \/ \E k \in AnswerAt' : toClient'[k].index = i
                      \/ \E k \in PutAt' : toServer'[k].index = i
    BY DEF NoneLost
  <2>1. i \in DOMAIN outstandingPuts /\ i # Settled
    BY <1>4, <1>9 DEF Outstanding
  <2>2. ASSUME NEW k \in AnswerAt, toClient[k].index = i
        PROVE  \E l \in AnswerAt' : toClient'[l].index = i
    BY <1>3, <1>12, <2>1, <2>2
  <2>3. ASSUME NEW k \in PutAt, toServer[k].index = i
        PROVE  \E l \in PutAt' : toServer'[l].index = i
    BY <1>1, <1>13, <2>3
  <2> QED
    BY <1>3, <2>1, <2>2, <2>3 DEF NoneLost
<1> QED
  BY <1>2, <1>3, <1>8, <1>10, <1>11, <1>14, <1>15

\* A new write is the newest of all, and sent at once if the connection is up.
LEMMA TurnPutData ==
  ASSUME Typed, Outstanding, Numbered, InTurn, NoneLost, NothingWhileDown, Typed',
         NEW p \in Paths, NEW val \in Values, PutData(p, val)
  PROVE  /\ Outstanding' /\ Numbered' /\ InTurn' /\ NoneLost'
         /\ Settled' = Settled /\ putCounter' = putCounter + 1
         /\ connectionState = "connected" =>
              \E put \in [path : Paths, val : Values] :
                Added(toServer, toServer', "put", Put(putCounter, put))
         /\ connectionState # "connected" => toServer' = toServer
         /\ Shifted(toServer, toServer', "listen", 0)
<1>1. /\ putCounter' = putCounter + 1
      /\ DOMAIN outstandingPuts' = DOMAIN outstandingPuts \cup {putCounter}
      /\ UNCHANGED <<stateVars, listens, answerVars, toClient, serverVars>>
  BY DEF PutData
<1>2. UNCHANGED <<acked, putsToAck, connectionState, toClient>>
  BY <1>1 DEF stateVars, answerVars
<1>3. Settled' = Settled /\ Settled \in Nat /\ putCounter \in Nat
  BY <1>2, Places DEF Settled, Typed
<1>4. Outstanding'
  BY <1>1, <1>3 DEF Outstanding
<1>5. Numbered'
  BY <1>2 DEF Numbered
<1> DEFINE put == [path |-> p, val |-> val]
           r == Put(putCounter, put)
<1>6. put \in [path : Paths, val : Values]
  OBVIOUS
<1>7. r \in Requests /\ r.msg = "put" /\ r.index = putCounter
  BY <1>3, <1>6, RequestsMade
<1>8. toServer' = IF connectionState = "connected" THEN Append(toServer, r) ELSE toServer
  BY DEF PutData, CanSendWrites
<1> HIDE DEF r, put
<1>9. connectionState = "connected" => Added(toServer, toServer', "put", r)
  BY <1>7, <1>8, AppendAdds DEF Typed
<1>10. Shifted(toServer, toServer', "listen", 0)
  <2>1. Shifted(toServer, Append(toServer, r), "listen", 0)
    BY <1>7, AppendAdds DEF Typed
  <2>2. Shifted(toServer, toServer, "listen", 0)
    BY SameShifts DEF Typed
  <2> QED
    BY <1>8, <2>1, <2>2
<1>11. AnswerAt' = AnswerAt
  BY <1>2 DEF AnswerAt
<1>12. \A i \in DOMAIN outstandingPuts : i \in Nat /\ i < putCounter /\ i \in DOMAIN outstandingPuts'
  BY <1>1, <1>3 DEF Outstanding
<1>13. CASE connectionState = "connected"
  <2> DEFINE n == Len(toServer')
  <2>1. /\ \A k \in PutAt : k \in PutAt' /\ toServer'[k] = toServer[k] /\ k < n
        /\ n \in PutAt' /\ toServer'[n].index = putCounter
        /\ \A k \in PutAt' : k = n \/ k \in PutAt
    BY <1>7, <1>9, <1>13 DEF Added, PutAt
  <2>2. \A k \in PutAt' : k \in Nat
    BY Positions DEF PutAt, Typed
  <2>3. \A k \in PutAt' : toServer'[k].index \in DOMAIN outstandingPuts'
    <3>1. putCounter \in DOMAIN outstandingPuts'
      BY <1>1
    <3> QED
      BY <1>12, <2>1, <3>1 DEF InTurn
  <2>4. \A k, l \in PutAt' : k < l => toServer'[k].index < toServer'[l].index
    <3> SUFFICES ASSUME NEW k \in PutAt', NEW l \in PutAt', k < l
                 PROVE  toServer'[k].index < toServer'[l].index
      OBVIOUS
    <3>1. k # n
      <4> SUFFICES ASSUME k = n PROVE FALSE
        OBVIOUS
      <4>1. l \in PutAt
        BY <2>1, <2>2
      <4> QED
        BY <2>1, <2>2, <4>1
    <3>2. k \in PutAt /\ toServer'[k] = toServer[k] /\ toServer[k].index < putCounter
      BY <1>12, <2>1, <3>1 DEF InTurn
    <3>3. CASE l = n
      BY <2>1, <3>2, <3>3
    <3>4. CASE l # n
      BY <2>1, <3>2, <3>4 DEF InTurn
    <3> QED
      BY <3>3, <3>4
  <2>5. \A k \in AnswerAt', l \in PutAt' : toClient'[k].index < toServer'[l].index
    <3> SUFFICES ASSUME NEW k \in AnswerAt, NEW l \in PutAt'
                 PROVE  toClient[k].index < toServer'[l].index
      BY <1>2, <1>11
    <3>1. CASE l = n
      BY <1>12, <2>1, <3>1 DEF InTurn
    <3>2. CASE l # n
      BY <2>1, <3>2 DEF InTurn
    <3> QED
      BY <3>1, <3>2
  <2>6. /\ \A k \in AnswerAt' : toClient'[k].index \in DOMAIN outstandingPuts'
        /\ \A k, l \in AnswerAt' : k < l => toClient'[k].index < toClient'[l].index
    BY <1>2, <1>11, <1>12 DEF InTurn
  <2>7. NoneLost'
    <3> SUFFICES ASSUME NEW i \in DOMAIN outstandingPuts'
                 PROVE  \/ \E k \in AnswerAt' : toClient'[k].index = i
                        \/ \E k \in PutAt' : toServer'[k].index = i
      BY DEF NoneLost
    <3>1. CASE i = putCounter
      BY <2>1, <3>1
    <3>2. ASSUME NEW k \in AnswerAt, toClient[k].index = i
          PROVE  \E l \in AnswerAt' : toClient'[l].index = i
      BY <1>2, <1>11, <3>2
    <3>3. ASSUME NEW k \in PutAt, toServer[k].index = i
          PROVE  \E l \in PutAt' : toServer'[l].index = i
      BY <2>1, <3>3
    <3>4. CASE i \in DOMAIN outstandingPuts
      BY <1>13, <3>2, <3>3, <3>4 DEF NoneLost
    <3> QED
      BY <1>1, <3>1, <3>4
  <2>8. InTurn'
    BY <2>3, <2>4, <2>5, <2>6 DEF InTurn
  <2>9. Added(toServer, toServer', "put", Put(putCounter, put))
    BY <1>9, <1>13 DEF r
  <2>10. \E pt \in [path : Paths, val : Values] :
          Added(toServer, toServer', "put", Put(putCounter, pt))
    BY <1>6, <2>9
  <2> QED
    BY <1>1, <1>3, <1>4, <1>5, <1>10, <1>13, <2>7, <2>8, <2>10
<1>14. CASE connectionState # "connected"
  <2>1. toServer' = toServer /\ PutAt' = PutAt
    BY <1>8, <1>14 DEF PutAt
  <2>2. InTurn'
    BY <1>2, <1>11, <1>12, <2>1 DEF InTurn
  <2>3. NoneLost'
    BY <1>2, <1>14 DEF NoneLost
  <2> QED
    BY <1>1, <1>3, <1>4, <1>5, <1>10, <1>14, <2>1, <2>2, <2>3
<1> QED
  BY <1>13, <1>14

\* All that is outstanding is on its way again, in order.
LEMMA TurnReady ==
  ASSUME Typed, Outstanding, IsFiniteSet(listens), Typed', Ready
  PROVE  /\ InTurn' /\ NoneLost' /\ AnswerAt' = {} /\ ListeningAt' = {}
         /\ \A k \in PutAt' : \A j \in DOMAIN outstandingPuts :
              j < toServer'[k].index => \E l \in PutAt' : l < k /\ toServer'[l].index = j
         /\ \A k \in ListenAt' : toServer'[k].path \in listens
         /\ \A p \in listens : \E k \in ListenAt' : toServer'[k].path = p
         /\ \A k, l \in ListenAt' : toServer'[k].path = toServer'[l].path => k = l
<1>1. PICK order \in Orders(listens), ids \in Orders(DOMAIN outstandingPuts) :
        Sorted(ids) /\ toServer' = Restored(order, ids)
  BY DEF Ready
<1> DEFINE n == Len(order)
           q == Len(ids)
<1>2. IsRestored(toServer', order, ids)
  BY <1>1, RestoredIs
<1>3. /\ n \in Nat /\ q \in Nat /\ Len(toServer') = n + q
      /\ DOMAIN outstandingPuts \subseteq Nat
  BY <1>2 DEF IsRestored
<1>4. /\ \A k \in 1..n : order[k] \in listens
      /\ \A k \in 1..q : ids[k] \in DOMAIN outstandingPuts /\ ids[k] \in Nat
  BY <1>2 DEF IsRestored
<1>5. /\ \A k \in 1..n : toServer'[k] = Listen(order[k])
      /\ \A k \in 1..q : toServer'[n + k] = Put(ids[k], outstandingPuts[ids[k]])
  BY <1>2 DEF IsRestored
<1>6. /\ \A k, l \in 1..n : order[k] = order[l] => k = l
      /\ \A p \in listens : \E k \in 1..n : order[k] = p
      /\ \A i \in DOMAIN outstandingPuts : \E k \in 1..q : ids[k] = i
  BY <1>2 DEF IsRestored
<1>7. DOMAIN ids = 1..q
  BY <1>2 DEF IsRestored
<1>8. \A k, l \in 1..q : k < l => ids[k] < ids[l]
  BY <1>1, <1>7 DEF Sorted
<1> HIDE DEF n, q
<1>9. \A k \in 1..n : toServer'[k].msg = "listen" /\ toServer'[k].path = order[k]
  <2> SUFFICES ASSUME NEW k \in 1..n
               PROVE  toServer'[k].msg = "listen" /\ toServer'[k].path = order[k]
    OBVIOUS
  <2>1. order[k] \in Paths /\ toServer'[k] = Listen(order[k])
    BY <1>4, <1>5 DEF Typed
  <2> QED
    BY <2>1, RequestsMade
<1>10. \A k \in 1..q : toServer'[n + k].msg = "put" /\ toServer'[n + k].index = ids[k]
  <2> SUFFICES ASSUME NEW k \in 1..q
               PROVE  toServer'[n + k].msg = "put" /\ toServer'[n + k].index = ids[k]
    OBVIOUS
  <2>1. ids[k] \in DOMAIN outstandingPuts /\ ids[k] \in Nat
    BY <1>4
  <2>2. outstandingPuts[ids[k]] \in [path : Paths, val : Values]
    BY <2>1 DEF Typed
  <2>3. toServer'[n + k] = Put(ids[k], outstandingPuts[ids[k]])
    BY <1>5
  <2> QED
    BY <2>1, <2>2, <2>3, RequestsMade
<1>11. \A k \in 1..(n + q) : k \in 1..n \/ (k - n \in 1..q /\ n + (k - n) = k)
  BY <1>3
<1>12. \A k \in PutAt' : k \in Nat /\ k - n \in 1..q /\ toServer'[k].index = ids[k - n]
  <2> SUFFICES ASSUME NEW k \in PutAt'
               PROVE  k \in Nat /\ k - n \in 1..q /\ toServer'[k].index = ids[k - n]
    OBVIOUS
  <2>1. k \in 1..(n + q) /\ toServer'[k].msg = "put" /\ k \in Nat
    BY <1>3 DEF PutAt, At
  <2>2. k \notin 1..n
    BY <1>9, <2>1
  <2>3. k - n \in 1..q /\ n + (k - n) = k
    BY <1>11, <2>1, <2>2
  <2> QED
    BY <1>10, <2>1, <2>3
<1>13. \A k \in 1..q : n + k \in PutAt' /\ toServer'[n + k].index = ids[k]
  <2> SUFFICES ASSUME NEW k \in 1..q PROVE n + k \in PutAt'
    BY <1>10
  <2>1. n + k \in 1..(n + q)
    BY <1>3
  <2> QED
    BY <1>3, <1>10, <2>1 DEF PutAt, At
<1>14. \A k \in ListenAt' : k \in 1..n /\ toServer'[k].path = order[k]
  <2> SUFFICES ASSUME NEW k \in ListenAt' PROVE k \in 1..n
    BY <1>9
  <2>1. k \in 1..(n + q) /\ toServer'[k].msg = "listen"
    BY <1>3 DEF ListenAt, At
  <2>2. ASSUME k \notin 1..n PROVE FALSE
    <3>1. k - n \in 1..q /\ n + (k - n) = k
      BY <1>11, <2>1, <2>2
    <3> QED
      BY <1>10, <2>1, <3>1
  <2> QED
    BY <2>2
<1>15. \A k \in 1..n : k \in ListenAt'
  <2> SUFFICES ASSUME NEW k \in 1..n PROVE k \in ListenAt'
    OBVIOUS
  <2>1. k \in 1..(n + q)
    BY <1>3
  <2> QED
    BY <1>3, <1>9, <2>1 DEF ListenAt, At
<1>16. AnswerAt' = {} /\ ListeningAt' = {}
  <2>1. Len(toClient') = 0
    BY EmptySeq DEF Ready
  <2> QED
    BY <2>1 DEF AnswerAt, ListeningAt, At
<1>17. outstandingPuts' = outstandingPuts
  BY DEF Ready, requestVars
<1>18. \A k, l \in PutAt' : k < l => toServer'[k].index < toServer'[l].index
  <2> SUFFICES ASSUME NEW k \in PutAt', NEW l \in PutAt', k < l
               PROVE  toServer'[k].index < toServer'[l].index
    OBVIOUS
  <2>1. k - n < l - n
    BY <1>3, <1>12
  <2> QED
    BY <1>8, <1>12, <2>1
<1>19. InTurn'
  <2>1. \A k \in PutAt' : toServer'[k].index \in DOMAIN outstandingPuts'
    BY <1>4, <1>12, <1>17
  <2> QED
    BY <1>16, <1>18, <2>1 DEF InTurn
<1>20. NoneLost'
  BY <1>6, <1>13, <1>17 DEF NoneLost
<1>21. ASSUME NEW k \in PutAt', NEW j \in DOMAIN outstandingPuts, j < toServer'[k].index
       PROVE  \E l \in PutAt' : l < k /\ toServer'[l].index = j
  <2>1. PICK l \in 1..q : ids[l] = j
    BY <1>6
  <2>2. k - n \in 1..q /\ ids[k - n] \in Nat /\ j \in Nat /\ j < ids[k - n]
    BY <1>3, <1>4, <1>12, <1>21
  <2>3. l < k - n
    <3>1. l = k - n \/ l > k - n \/ l < k - n
      BY <2>2
    <3>2. l > k - n => ids[k - n] < ids[l]
      BY <1>8, <2>2
    <3> QED
      BY <2>1, <2>2, <3>1, <3>2
  <2>4. n + l < k
    BY <1>3, <1>12, <2>3
  <2> QED
    BY <1>13, <2>1, <2>4
<1>22. \A k \in ListenAt' : toServer'[k].path \in listens
  BY <1>4, <1>14
<1>23. \A p \in listens : \E k \in ListenAt' : toServer'[k].path = p
  <2> SUFFICES ASSUME NEW p \in listens PROVE \E k \in ListenAt' : toServer'[k].path = p
    OBVIOUS
  <2>1. PICK k \in 1..n : order[k] = p
    BY <1>6
  <2> QED
    BY <1>9, <1>15, <2>1
<1>24. \A k, l \in ListenAt' : toServer'[k].path = toServer'[l].path => k = l
  BY <1>6, <1>14
<1> QED
  BY <1>16, <1>19, <1>20, <1>21, <1>22, <1>23, <1>24

\* The connection is lost, and with it all that was on its way to the client.
LEMMA DownDoes ==
  ASSUME IInv, NothingWhileDown, Disconnect
  PROVE  /\ connectionState' = "disconnected" /\ toClient' = <<>>
         /\ unackedListensCount' = 0
         /\ AnswerAt' = {} /\ ListeningAt' = {}
         /\ UNCHANGED <<requestVars, putsToAck, acked, toServer, log>>
<1>1. ASSUME Lose
      PROVE  /\ connectionState' = "disconnected" /\ toClient' = <<>>
             /\ unackedListensCount' = 0
             /\ UNCHANGED <<requestVars, putsToAck, acked, toServer, log>>
  BY <1>1 DEF Lose, OnDisconnect, serverVars
<1>2. ASSUME NEW reason, Interrupt(reason)
      PROVE  /\ connectionState' = "disconnected" /\ toClient' = <<>>
             /\ unackedListensCount' = 0
             /\ UNCHANGED <<requestVars, putsToAck, acked, toServer, log>>
  <2>1. UNCHANGED <<requestVars, putsToAck, acked, toServer, log>>
    BY <1>2 DEF Interrupt, serverVars
  <2>2. CASE realtime # "none"
    BY <1>2, <2>1, <2>2 DEF Interrupt, OnDisconnect
  <2>3. CASE realtime = "none"
    <3>1. connectionState # "connected"
      BY <2>3 DEF IInv, OneStepPending
    <3> QED
      BY <1>2, <2>1, <2>3, <3>1 DEF Interrupt, NothingWhileDown
  <2> QED
    BY <2>2, <2>3
<1>3. /\ connectionState' = "disconnected" /\ toClient' = <<>>
      /\ unackedListensCount' = 0
      /\ UNCHANGED <<requestVars, putsToAck, acked, toServer, log>>
  <2>1. Lose \/ Interrupt("repoInterrupt") \/ Interrupt("serverKill")
    BY DEF Disconnect, GoOffline, ServerKill
  <2>2. CASE Lose
    BY <1>1, <2>2
  <2>3. CASE Interrupt("repoInterrupt")
    BY <1>2, <2>3
  <2>4. CASE Interrupt("serverKill")
    BY <1>2, <2>4
  <2> QED
    BY <2>1, <2>2, <2>3, <2>4
<1>4. AnswerAt' = {} /\ ListeningAt' = {}
  <2>1. Len(toClient') = 0
    BY <1>3, EmptySeq
  <2> QED
    BY <2>1 DEF AnswerAt, ListeningAt, At
<1> QED
  BY <1>3, <1>4

\* The listen goes behind the requests that are on their way.
LEMMA ListenToDoes ==
  ASSUME Typed, NEW p \in Paths, ListenTo(p)
  PROVE  /\ p \notin listens /\ listens' = listens \cup {p}
         /\ connectionState = "connected" =>
              /\ Added(toServer, toServer', "listen", Listen(p))
              /\ unackedListensCount' = unackedListensCount + 1
         /\ connectionState # "connected" =>
              toServer' = toServer /\ unackedListensCount' = unackedListensCount
         /\ Shifted(toServer, toServer', "put", 0)
         /\ UNCHANGED <<stateVars, putCounter, outstandingPuts, putsToAck, acked, toClient, log>>
<1>1. /\ p \notin listens /\ listens' = listens \cup {p}
      /\ UNCHANGED <<stateVars, putCounter, outstandingPuts, putsToAck, acked, toClient, log>>
  BY DEF ListenTo, serverVars
<1> DEFINE r == Listen(p)
<1>2. r \in Requests /\ r.msg = "listen"
  BY RequestsMade
<1>3. IF connectionState = "connected"
      THEN toServer' = Append(toServer, r) /\ unackedListensCount' = unackedListensCount + 1
      ELSE toServer' = toServer /\ unackedListensCount' = unackedListensCount
  BY DEF ListenTo, CanSendWrites
<1> HIDE DEF r
<1>4. Added(toServer, Append(toServer, r), "listen", r)
  BY <1>2, AppendAdds DEF Typed
<1>5. Shifted(toServer, Append(toServer, r), "put", 0)
  BY <1>2, AppendAdds DEF Typed
<1>6. Shifted(toServer, toServer, "put", 0)
  BY SameShifts DEF Typed
<1>7. Shifted(toServer, toServer', "put", 0)
  BY <1>3, <1>5, <1>6
<1>8. connectionState = "connected" => Added(toServer, toServer', "listen", r)
  BY <1>3, <1>4
<1> QED
  BY <1>1, <1>3, <1>7, <1>8 DEF r

\* The response to a listen: the answers held back are handed on as they are.
LEMMA TurnReceiveListening ==
  ASSUME Typed, Outstanding, Numbered, Typed', ReceiveListening
  PROVE  Outstanding' /\ Numbered' /\ Settled' = Settled
<1>1. /\ \/ acked' = acked \o putsToAck /\ putsToAck' = <<>> /\ unackedListensCount' = 0
         \/ acked' = acked /\ putsToAck' = putsToAck
      /\ UNCHANGED <<putCounter, outstandingPuts>>
  BY DEF ReceiveListening
<1>2. /\ Len(acked) \in Nat /\ Len(putsToAck) \in Nat
      /\ Len(acked \o putsToAck) = Len(acked) + Len(putsToAck)
      /\ \A k \in 1..Len(acked) : (acked \o putsToAck)[k] = acked[k]
      /\ \A k \in (Len(acked) + 1)..(Len(acked) + Len(putsToAck)) :
           (acked \o putsToAck)[k] = putsToAck[k - Len(acked)]
  BY ConcatProperties, LenProperties DEF Typed
<1>3. Len(<<>>) = 0
  OBVIOUS
<1>4. Settled' = Settled
  BY <1>1, <1>2, <1>3 DEF Settled
<1>5. Outstanding'
  BY <1>1, <1>4 DEF Outstanding
<1>6. CASE acked' = acked \o putsToAck /\ putsToAck' = <<>>
  <2>1. ASSUME NEW k \in 1..(Len(acked) + Len(putsToAck))
        PROVE  (acked \o putsToAck)[k].index = k - 1
    <3>1. CASE k \in 1..Len(acked)
      BY <1>2, <3>1 DEF Numbered
    <3>2. CASE k \notin 1..Len(acked)
      <4>1. /\ k \in (Len(acked) + 1)..(Len(acked) + Len(putsToAck))
            /\ k - Len(acked) \in 1..Len(putsToAck)
            /\ Len(acked) + (k - Len(acked)) - 1 = k - 1
        BY <1>2, <3>2
      <4> QED
        BY <1>2, <4>1 DEF Numbered
    <3> QED
      BY <3>1, <3>2
  <2>2. \A k \in 1..Len(acked') : acked'[k].index = k - 1
    BY <1>2, <1>6, <2>1
  <2>3. ~ \E k \in 1..Len(putsToAck') : TRUE
    BY <1>3, <1>6
  <2> QED
    BY <1>4, <1>5, <2>2, <2>3 DEF Numbered
<1>7. CASE acked' = acked /\ putsToAck' = putsToAck
  BY <1>4, <1>5, <1>7 DEF Numbered
<1> QED
  BY <1>1, <1>6, <1>7

-----------------------------------------------------------------------------
(* The steps keep the count of the listens.                                *)

\* No listen and no response comes or goes.
LEMMA ListensShifted ==
  ASSUME Typed, Typed', Counted, NEW d \in Int, NEW e \in Int,
         Shifted(toServer, toServer', "listen", d),
         Shifted(toClient, toClient', "listening", e),
         UNCHANGED <<listens, unackedListensCount, connectionState>>
  PROVE  Counted'
<1>1. /\ \A k \in ListenAt' : k \in Nat /\ k + d \in ListenAt /\ toServer'[k] = toServer[k + d]
      /\ \A k \in ListenAt : k \in Nat /\ k - d \in ListenAt' /\ toServer'[k - d] = toServer[k]
  BY Places, Positions DEF Shifted, ListenAt, Typed
<1>2. /\ \A k \in ListeningAt' : /\ k \in Nat /\ k + e \in ListeningAt
                                 /\ toClient'[k] = toClient[k + e]
      /\ \A k \in ListeningAt : /\ k \in Nat /\ k - e \in ListeningAt'
                                /\ toClient'[k - e] = toClient[k]
  BY Places, Positions DEF Shifted, ListeningAt, Typed
<1>3. Asked' = Asked
  BY <1>1 DEF Asked
<1>4. Told' = Told
  BY <1>2 DEF Told
<1>5. ASSUME NEW k \in ListenAt', NEW l \in ListenAt', toServer'[k].path = toServer'[l].path
      PROVE  k = l
  <2>1. k + d = l + d
    BY <1>1, <1>5 DEF Counted
  <2> QED
    BY <1>1, <2>1
<1>6. ASSUME NEW k \in ListeningAt', NEW l \in ListeningAt',
             toClient'[k].path = toClient'[l].path
      PROVE  k = l
  <2>1. k + e = l + e
    BY <1>2, <1>6 DEF Counted
  <2> QED
    BY <1>2, <2>1
<1> QED
  BY <1>3, <1>4, <1>5, <1>6 DEF Counted

\* A listen that is counted is listened to.
LEMMA CountedListens ==
  ASSUME Counted, connectionState = "connected"
  PROVE  /\ unackedListensCount \in Nat
         /\ unackedListensCount > 0 => listens # {}
<1>1. IsFiniteSet(Asked \cup Told)
  BY FS_Subset DEF Counted
<1>2. Cardinality(Asked \cup Told) \in Nat
  BY <1>1, FS_CardinalityType
<1>3. Asked \cup Told = {} => Cardinality(Asked \cup Told) = 0
  BY <1>1, FS_EmptySet
<1> QED
  BY <1>2, <1>3 DEF Counted

\* One more listen is on its way, or will be on the next connection.
LEMMA CountListenTo ==
  ASSUME IInv, Typed, Typed', Counted, NothingWhileDown, NEW p \in Paths, ListenTo(p)
  PROVE  Counted'
<1>1. /\ p \notin listens /\ listens' = listens \cup {p}
      /\ UNCHANGED <<connectionState, toClient>>
  BY ListenToDoes DEF stateVars
<1>2. IsFiniteSet(listens') /\ ListeningAt' = ListeningAt /\ Told' = Told
  BY <1>1, FS_AddElement DEF Counted, ListeningAt, Told
<1>3. CASE connectionState = "connected"
  <2> DEFINE n == Len(toServer')
  <2>1. Listen(p).path = p
    BY RequestsMade
  <2>2. /\ \A k \in ListenAt : k \in ListenAt' /\ toServer'[k] = toServer[k] /\ k < n
        /\ n \in ListenAt' /\ toServer'[n].path = p
        /\ \A k \in ListenAt' : k = n \/ k \in ListenAt
    BY <1>3, <2>1, ListenToDoes DEF Added, ListenAt
  <2> HIDE DEF n
  <2>3. Asked' = Asked \cup {p}
    BY <2>2 DEF Asked
  <2>4. \A k \in ListenAt : toServer[k].path # p
    BY <1>1 DEF Counted, Asked
  <2>5. \A k, l \in ListenAt' : toServer'[k].path = toServer'[l].path => k = l
    BY <2>2, <2>4 DEF Counted
  <2>6. Asked' \cup Told' = (Asked \cup Told) \cup {p} /\ p \notin Asked \cup Told
    BY <1>1, <1>2, <2>3 DEF Counted
  <2>7. IsFiniteSet(Asked \cup Told)
    BY FS_Subset DEF Counted
  <2>8. Cardinality(Asked' \cup Told') = Cardinality(Asked \cup Told) + 1
    BY <2>6, <2>7, FS_AddElement
  <2>9. unackedListensCount' = Cardinality(Asked' \cup Told')
    BY <1>3, <2>8, ListenToDoes DEF Counted
  <2>10. Asked' \cap Told' = {} /\ Asked' \cup Told' \subseteq listens'
    BY <1>1, <1>2, <2>3, <2>6 DEF Counted
  <2> QED
    BY <1>1, <1>2, <2>5, <2>9, <2>10 DEF Counted
<1>4. CASE connectionState # "connected"
  <2>1. toServer' = toServer /\ ListenAt' = ListenAt /\ Asked' = Asked
    BY <1>4, ListenToDoes DEF ListenAt, Asked
  <2> QED
    BY <1>1, <1>2, <1>4, <2>1 DEF Counted
<1> QED
  BY <1>3, <1>4

\* A listen becomes a response, if anyone is there to hear it.
LEMMA CountServeListen ==
  ASSUME IInv, Typed, Typed', Counted, NothingWhileDown, ServeListen
  PROVE  Counted'
<1> DEFINE p == toServer[1].path
<1>1. /\ 1 \in ListenAt
      /\ \A k \in ListenAt' : k + 1 \in ListenAt /\ toServer'[k] = toServer[k + 1]
      /\ \A k \in ListenAt : k = 1 \/ (k - 1 \in ListenAt' /\ toServer'[k - 1] = toServer[k])
  BY ServeListenDoes DEF Removed, ListenAt
<1>2. UNCHANGED <<listens, connectionState, unackedListensCount>>
  BY ServeListenDoes DEF stateVars, requestVars, answerVars
<1>3. \A k \in ListenAt' : k \in Nat /\ k >= 1
  BY Positions DEF ListenAt, Typed
<1>4. \A k \in ListenAt' : toServer'[k].path # p
  <2> SUFFICES ASSUME NEW k \in ListenAt', toServer'[k].path = p PROVE FALSE
    OBVIOUS
  <2>1. k + 1 \in ListenAt /\ toServer[k + 1].path = p
    BY <1>1
  <2>2. k + 1 = 1
    BY <1>1, <2>1 DEF Counted
  <2> QED
    BY <1>3, <2>2
<1>5. Asked' = Asked \ {p} /\ p \in Asked
  <2>1. \A x \in Asked' : x \in Asked /\ x # p
    BY <1>1, <1>4 DEF Asked
  <2>2. \A x \in Asked : x # p => x \in Asked'
    BY <1>1 DEF Asked
  <2>3. p \in Asked /\ p \notin Asked'
    BY <1>1, <1>4 DEF Asked
  <2> QED
    BY <2>1, <2>2, <2>3
<1>6. \A k, l \in ListenAt' : toServer'[k].path = toServer'[l].path => k = l
  <2> SUFFICES ASSUME NEW k \in ListenAt', NEW l \in ListenAt',
                      toServer'[k].path = toServer'[l].path
               PROVE  k = l
    OBVIOUS
  <2>1. k + 1 = l + 1
    BY <1>1 DEF Counted
  <2> QED
    BY <1>3, <2>1
<1>7. CASE connectionState = "connected"
  <2> DEFINE n == Len(toClient')
  <2>1. /\ \A k \in ListeningAt : k \in ListeningAt' /\ toClient'[k] = toClient[k] /\ k < n
        /\ n \in ListeningAt' /\ toClient'[n].path = p
        /\ \A k \in ListeningAt' : k = n \/ k \in ListeningAt
    <3>1. PICK ok \in BOOLEAN : Added(toClient, toClient', "listening", ListenAnswer(p, ok))
      BY <1>7, ServeListenDoes
    <3>2. ListenAnswer(p, ok).path = p
      BY DEF ListenAnswer
    <3> HIDE DEF p
    <3> QED
      BY <3>1, <3>2 DEF Added, ListeningAt
  <2> HIDE DEF n
  <2>2. Told' = Told \cup {p}
    BY <2>1 DEF Told
  <2>3. \A k \in ListeningAt : toClient[k].path # p
    BY <1>5 DEF Counted, Told
  <2>4. \A k, l \in ListeningAt' : toClient'[k].path = toClient'[l].path => k = l
    BY <2>1, <2>3 DEF Counted
  <2>5. Asked' \cup Told' = Asked \cup Told
    BY <1>5, <2>2
  <2>6. Asked' \cap Told' = {}
    BY <1>5, <2>2 DEF Counted
  <2> QED
    BY <1>2, <1>6, <2>4, <2>5, <2>6 DEF Counted
<1>8. CASE connectionState # "connected"
  <2>1. toClient' = toClient /\ ListeningAt' = ListeningAt /\ Told' = Told
    BY <1>8, ServeListenDoes DEF ListeningAt, Told
  <2> QED
    BY <1>2, <1>5, <1>6, <1>8, <2>1 DEF Counted
<1> QED
  BY <1>7, <1>8

\* The response to a listen is taken, and the listen with it if it was refused.
LEMMA CountReceiveListening ==
  ASSUME Typed, Typed', Counted, NothingWhileDown, ReceiveListening
  PROVE  Counted' /\ connectionState = "connected"
<1> DEFINE p == toClient[1].path
<1>1. /\ 1 \in ListeningAt /\ Head(toClient) = toClient[1]
      /\ \A k \in ListeningAt' : k + 1 \in ListeningAt /\ toClient'[k] = toClient[k + 1]
      /\ \A k \in ListeningAt :
           k = 1 \/ (k - 1 \in ListeningAt' /\ toClient'[k - 1] = toClient[k])
  BY ArrivesDoes DEF ReceiveListening, Removed, ListeningAt
<1>2. /\ UNCHANGED <<connectionState, toServer>>
      /\ unackedListensCount' = unackedListensCount - 1
      /\ listens' = listens \/ listens' = listens \ {p}
  BY <1>1 DEF ReceiveListening, stateVars
<1>3. \A k \in ListeningAt' : k \in Nat /\ k >= 1
  BY Positions DEF ListeningAt, Typed
<1>4. connectionState = "connected"
  <2>1. Len(toClient) # 0
    BY <1>1 DEF ListeningAt, At
  <2> QED
    BY <2>1, EmptySeq DEF NothingWhileDown
<1>5. \A k \in ListeningAt' : toClient'[k].path # p
  <2> SUFFICES ASSUME NEW k \in ListeningAt', toClient'[k].path = p PROVE FALSE
    OBVIOUS
  <2>1. k + 1 \in ListeningAt /\ toClient[k + 1].path = p
    BY <1>1
  <2>2. k + 1 = 1
    BY <1>1, <2>1 DEF Counted
  <2> QED
    BY <1>3, <2>2
<1>6. Told' = Told \ {p} /\ p \in Told
  <2>1. \A x \in Told' : x \in Told /\ x # p
    BY <1>1, <1>5 DEF Told
  <2>2. \A x \in Told : x # p => x \in Told'
    BY <1>1 DEF Told
  <2>3. p \in Told /\ p \notin Told'
    BY <1>1, <1>5 DEF Told
  <2> QED
    BY <2>1, <2>2, <2>3
<1>7. \A k, l \in ListeningAt' : toClient'[k].path = toClient'[l].path => k = l
  <2> SUFFICES ASSUME NEW k \in ListeningAt', NEW l \in ListeningAt',
                      toClient'[k].path = toClient'[l].path
               PROVE  k = l
    OBVIOUS
  <2>1. k + 1 = l + 1
    BY <1>1 DEF Counted
  <2> QED
    BY <1>3, <2>1
<1>8. ListenAt' = ListenAt /\ Asked' = Asked
  BY <1>2 DEF ListenAt, Asked
<1> HIDE DEF p
<1>9. Asked' \cup Told' = (Asked \cup Told) \ {p} /\ p \in Asked \cup Told
  BY <1>6, <1>8 DEF Counted
<1>10. IsFiniteSet(Asked \cup Told)
  BY FS_Subset DEF Counted
<1>11. Cardinality(Asked' \cup Told') = Cardinality(Asked \cup Told) - 1
  BY <1>9, <1>10, FS_RemoveElement
<1>12. IsFiniteSet(listens')
  BY <1>2, FS_RemoveElement, FS_Subset DEF Counted
<1>13. Asked' \cup Told' \subseteq listens' /\ Asked' \cap Told' = {}
  BY <1>2, <1>6, <1>8, <1>9 DEF Counted
<1>14. \A k, l \in ListenAt' : toServer'[k].path = toServer'[l].path => k = l
  BY <1>2, <1>8 DEF Counted
<1>15. unackedListensCount' = Cardinality(Asked' \cup Told')
  BY <1>2, <1>4, <1>11 DEF Counted
<1> QED
  BY <1>4, <1>7, <1>12, <1>13, <1>14, <1>15 DEF Counted

\* On a new connection every listen is counted.
LEMMA CountReady ==
  ASSUME IInv, Typed, Typed', Outstanding, Counted, NothingWhileDown, Ready
  PROVE  /\ Counted' /\ connectionState' = "connected"
         /\ listens # {} => unackedListensCount' > 0
<1>1. /\ connectionState # "connected" /\ connectionState' = "connected"
      /\ unackedListensCount' = unackedListensCount + Cardinality(listens)
      /\ listens' = listens
  BY DEF Ready, requestVars, IInv, OneStepPending
<1>2. unackedListensCount = 0
  BY <1>1 DEF NothingWhileDown
<1>3. Cardinality(listens) \in Nat /\ (listens # {} => Cardinality(listens) # 0)
  BY FS_CardinalityType, FS_EmptySet DEF Counted
<1>4. IsFiniteSet(listens)
  BY DEF Counted
<1>5. /\ ListeningAt' = {}
      /\ \A k \in ListenAt' : toServer'[k].path \in listens
      /\ \A p \in listens : \E k \in ListenAt' : toServer'[k].path = p
      /\ \A k, l \in ListenAt' : toServer'[k].path = toServer'[l].path => k = l
  BY <1>4, TurnReady
<1>6. Asked' = listens
  BY <1>5 DEF Asked
<1>7. Told' = {}
  BY <1>5 DEF Told
<1>8. Asked' \cup Told' = listens /\ Asked' \cap Told' = {}
  BY <1>6, <1>7
<1>9. unackedListensCount' = Cardinality(listens)
  BY <1>1, <1>2, <1>3
<1>10. Counted'
  BY <1>1, <1>4, <1>5, <1>8, <1>9 DEF Counted
<1> QED
  BY <1>1, <1>3, <1>9, <1>10

\* When the connection is lost nothing counts as unanswered any more.
LEMMA CountDown ==
  ASSUME IInv, Typed, Typed', Counted, NothingWhileDown, HeldBehindListen, Disconnect
  PROVE  Counted' /\ NothingWhileDown' /\ HeldBehindListen'
<1>1. /\ connectionState' = "disconnected" /\ toClient' = <<>> /\ unackedListensCount' = 0
      /\ ListeningAt' = {}
      /\ UNCHANGED <<listens, putsToAck, toServer>>
  BY DownDoes DEF requestVars
<1>2. ListenAt' = ListenAt /\ Asked' = Asked
  BY <1>1 DEF ListenAt, Asked
<1>3. Told' = {}
  BY <1>1 DEF Told
<1>4. Counted'
  BY <1>1, <1>2, <1>3 DEF Counted
<1> QED
  BY <1>1, <1>4 DEF NothingWhileDown, HeldBehindListen

-----------------------------------------------------------------------------
(* The steps keep what the server has said.                                *)

\* The last word on a write is a word.
LEMMA SaidIsHandled == \A i, ok : LastWord(i, ok) => Handled(i)
  BY DEF LastWord, Handled

\* What stays handled, and what stays the last word, when i is handled next.
LEMMA LogGrows ==
  ASSUME Typed, NEW i \in Nat, NEW ok \in BOOLEAN,
         log' = Append(log, [index |-> i, ok |-> ok])
  PROVE  /\ \A j : Handled(j) => Handled(j)'
         /\ Handled(i)'
         /\ LastWord(i, ok)'
         /\ \A j, v : j # i /\ LastWord(j, v) => LastWord(j, v)'
<1> DEFINE x == [index |-> i, ok |-> ok]
<1>1. x \in Answers /\ x.index = i
  BY DEF Answers
<1>2. log' = Append(log, x)
  OBVIOUS
<1>3. x = [index |-> i, ok |-> ok]
  OBVIOUS
<1> HIDE DEF x
<1>4. /\ Len(log) \in Nat /\ Len(log') = Len(log) + 1
      /\ \A k \in 1..Len(log) : log'[k] = log[k]
      /\ log'[Len(log) + 1] = x
  BY <1>1, <1>2, AppendProperties, LenProperties DEF Typed
<1>5. \A k \in 1..Len(log) : k \in 1..Len(log') /\ log'[k] = log[k]
  BY <1>4
<1>6. Len(log) + 1 \in 1..Len(log')
  BY <1>4
<1>7. ASSUME NEW j, Handled(j) PROVE Handled(j)'
  BY <1>5, <1>7 DEF Handled
<1>8. Handled(i)'
  BY <1>1, <1>4, <1>6 DEF Handled
<1>9. LastWord(i, ok)'
  <2>1. ~ \E l \in (Len(log) + 1 + 1)..Len(log') : TRUE
    BY <1>4
  <2> QED
    BY <1>3, <1>4, <1>6, <2>1 DEF LastWord
<1>10. ASSUME NEW j, NEW v, j # i, LastWord(j, v) PROVE LastWord(j, v)'
  <2>1. PICK k \in 1..Len(log) : /\ log[k] = [index |-> j, ok |-> v]
                                 /\ \A l \in (k + 1)..Len(log) : log[l].index # j
    BY <1>10 DEF LastWord
  <2>2. k \in 1..Len(log') /\ log'[k] = [index |-> j, ok |-> v]
    BY <1>5, <2>1
  <2>3. ASSUME NEW l \in (k + 1)..Len(log') PROVE log'[l].index # j
    <3>1. l = Len(log) + 1 \/ (l \in (k + 1)..Len(log) /\ l \in 1..Len(log))
      BY <1>4
    <3>2. CASE l = Len(log) + 1
      BY <1>1, <1>4, <1>10, <3>2
    <3>3. CASE l \in (k + 1)..Len(log) /\ l \in 1..Len(log)
      BY <1>5, <2>1, <3>3
    <3> QED
      BY <3>1, <3>2, <3>3
  <2> QED
    BY <2>2, <2>3 DEF LastWord
<1> QED
  BY <1>7, <1>8, <1>9, <1>10

\* The writes on their way stay in line, and what was handled stays so.
LEMMA GapShifted ==
  ASSUME Typed, Typed', NoGap, NEW d \in Int, Shifted(toServer, toServer', "put", d),
         \A j : Handled(j) => Handled(j)'
  PROVE  NoGap'
<1>1. /\ \A k \in PutAt' : k \in Nat /\ k + d \in PutAt /\ toServer'[k] = toServer[k + d]
      /\ \A k \in PutAt : k \in Nat /\ k - d \in PutAt' /\ toServer'[k - d] = toServer[k]
  BY Places, Positions DEF Shifted, PutAt, Typed
<1> SUFFICES ASSUME NEW k \in PutAt', NEW j \in 0..(toServer'[k].index - 1)
             PROVE  Handled(j)' \/ \E l \in PutAt' : l < k /\ toServer'[l].index = j
  BY DEF NoGap
<1>2. Handled(j) \/ \E l \in PutAt : l < k + d /\ toServer[l].index = j
  BY <1>1 DEF NoGap
<1>3. ASSUME NEW l \in PutAt, l < k + d, toServer[l].index = j
      PROVE  \E m \in PutAt' : m < k /\ toServer'[m].index = j
  <2>1. l - d < k /\ l - d \in PutAt' /\ toServer'[l - d].index = j
    BY <1>1, <1>3
  <2> QED
    BY <2>1
<1> QED
  BY <1>2, <1>3

\* The server says nothing, and no answer comes or goes.
LEMMA SaidShifted ==
  ASSUME Typed, Typed', Spoken, NoGap, NEW d \in Int, NEW e \in Int,
         Shifted(toServer, toServer', "put", d), Shifted(toClient, toClient', "answer", e),
         UNCHANGED <<acked, putsToAck, log>>
  PROVE  Spoken' /\ NoGap'
<1>1. /\ \A j : Handled(j)' = Handled(j)
      /\ \A j, ok : LastWord(j, ok)' = LastWord(j, ok)
  BY DEF Handled, LastWord
<1>2. \A k \in AnswerAt' : k + e \in AnswerAt /\ toClient'[k] = toClient[k + e]
  BY DEF Shifted, AnswerAt
<1>3. Settled' = Settled
  BY DEF Settled
<1>4. Spoken'
  BY <1>1, <1>2, <1>3 DEF Spoken
<1>5. NoGap'
  BY <1>1, GapShifted
<1> QED
  BY <1>4, <1>5

\* The answers held back are handed on.
LEMMA SaidReceiveListening ==
  ASSUME Typed, Typed', Outstanding, Numbered, Spoken, NoGap, ReceiveListening
  PROVE  Spoken' /\ NoGap'
<1>1. /\ putsToAck' = <<>> \/ putsToAck' = putsToAck
      /\ UNCHANGED <<toServer, log>>
  BY DEF ReceiveListening, serverVars
<1>2. /\ \A j : Handled(j)' = Handled(j)
      /\ \A j, ok : LastWord(j, ok)' = LastWord(j, ok)
  BY <1>1 DEF Handled, LastWord
<1>3. Shifted(toClient, toClient', "answer", 1)
  BY ArrivesDoes DEF ReceiveListening
<1>4. \A k \in AnswerAt' : k + 1 \in AnswerAt /\ toClient'[k] = toClient[k + 1]
  BY <1>3 DEF Shifted, AnswerAt
<1>5. Settled' = Settled
  BY TurnReceiveListening
<1>6. \A k \in 1..Len(putsToAck') : LastWord(putsToAck'[k].index, putsToAck'[k].ok)
  <2>1. ~ \E k \in 1..Len(<<>>) : TRUE
    OBVIOUS
  <2> QED
    BY <1>1, <2>1 DEF Spoken
<1>7. Spoken'
  BY <1>2, <1>4, <1>5, <1>6 DEF Spoken
<1>8. Shifted(toServer, toServer', "put", 0)
  BY <1>1, SameShifts DEF Typed
<1>9. NoGap'
  BY <1>2, <1>8, GapShifted
<1> QED
  BY <1>7, <1>9

\* The answer that is settled was the last word on its write.
LEMMA SaidReceiveAnswer ==
  ASSUME Typed, Typed', Outstanding, Numbered, InTurn, NoneLost, NothingWhileDown,
         HeldBehindListen, Spoken, NoGap, ReceiveAnswer
  PROVE  Spoken' /\ NoGap' /\ LastWord(Settled, toClient[1].ok)
<1> DEFINE answer == [index |-> toClient[1].index, ok |-> toClient[1].ok]
<1>1. /\ Head(toClient) = toClient[1] /\ Removed(toClient, toClient', "answer")
      /\ UNCHANGED <<toServer, log>>
  BY ArrivesDoes DEF ReceiveAnswer, serverVars
<1>2. toClient[1].index = Settled /\ 1 \in AnswerAt /\ Settled' = Settled + 1
  BY TurnReceiveAnswer
<1>3. \/ acked' = Append(acked, answer) /\ putsToAck' = putsToAck
      \/ putsToAck' = Append(putsToAck, answer) /\ acked' = acked
  BY <1>1 DEF ReceiveAnswer
<1>4. answer \in Answers /\ answer.index = toClient[1].index /\ answer.ok = toClient[1].ok
  BY <1>2, Places DEF Answers
<1> HIDE DEF answer
<1>5. LastWord(answer.index, answer.ok)
  BY <1>2, <1>4 DEF Spoken
<1>6. /\ \A j : Handled(j)' = Handled(j)
      /\ \A j, ok : LastWord(j, ok)' = LastWord(j, ok)
  BY <1>1 DEF Handled, LastWord
<1>7. \A k \in AnswerAt' : k + 1 \in AnswerAt /\ toClient'[k] = toClient[k + 1]
  BY <1>1 DEF Removed, AnswerAt
<1>8. \A k \in 1..Len(putsToAck') : LastWord(putsToAck'[k].index, putsToAck'[k].ok)
  <2>1. CASE putsToAck' = putsToAck
    BY <2>1 DEF Spoken
  <2>2. CASE putsToAck' = Append(putsToAck, answer)
    <3>1. /\ Len(putsToAck) \in Nat /\ Len(putsToAck') = Len(putsToAck) + 1
          /\ \A k \in 1..Len(putsToAck) : putsToAck'[k] = putsToAck[k]
          /\ putsToAck'[Len(putsToAck) + 1] = answer
      BY <1>4, <2>2, AppendProperties, LenProperties DEF Typed
    <3> SUFFICES ASSUME NEW k \in 1..Len(putsToAck')
                 PROVE  LastWord(putsToAck'[k].index, putsToAck'[k].ok)
      OBVIOUS
    <3>2. CASE k = Len(putsToAck) + 1
      BY <1>5, <3>1, <3>2
    <3>3. CASE k # Len(putsToAck) + 1
      <4>1. k \in 1..Len(putsToAck)
        BY <3>1, <3>3
      <4> QED
        BY <3>1, <4>1 DEF Spoken
    <3> QED
      BY <3>2, <3>3
  <2> QED
    BY <1>3, <2>1, <2>2
<1>9. \A j \in 0..(Settled' - 1) : Handled(j)
  <2> SUFFICES ASSUME NEW j \in 0..(Settled' - 1) PROVE Handled(j)
    OBVIOUS
  <2>1. j = Settled \/ j \in 0..(Settled - 1)
    BY <1>2, Places
  <2>2. Handled(Settled)
    BY <1>2, <1>4, <1>5, SaidIsHandled
  <2> QED
    BY <2>1, <2>2 DEF Spoken
<1>10. Spoken'
  BY <1>6, <1>7, <1>8, <1>9 DEF Spoken
<1>11. Shifted(toServer, toServer', "put", 0)
  BY <1>1, SameShifts DEF Typed
<1>12. NoGap'
  BY <1>6, <1>11, GapShifted
<1> QED
  BY <1>2, <1>4, <1>5, <1>10, <1>12

\* Before a new write that is sent, each earlier one was handled or is on its way.
LEMMA SaidPutData ==
  ASSUME Typed, Typed', Outstanding, Numbered, InTurn, NoneLost, NothingWhileDown,
         Spoken, NoGap, NEW p \in Paths, NEW val \in Values, PutData(p, val)
  PROVE  Spoken' /\ NoGap'
<1>1. UNCHANGED <<connectionState, putsToAck, acked, toClient, log>>
  BY DEF PutData, stateVars, answerVars, serverVars
<1>2. /\ \A j : Handled(j)' = Handled(j)
      /\ \A j, ok : LastWord(j, ok)' = LastWord(j, ok)
  BY <1>1 DEF Handled, LastWord
<1>3. AnswerAt' = AnswerAt /\ Settled' = Settled
  BY <1>1 DEF AnswerAt, Settled
<1>4. Spoken'
  BY <1>1, <1>2, <1>3 DEF Spoken
<1>5. CASE connectionState = "connected"
  <2>1. PICK put \in [path : Paths, val : Values] :
          Added(toServer, toServer', "put", Put(putCounter, put))
    BY <1>5, TurnPutData
  <2>2. Put(putCounter, put).index = putCounter
    BY DEF Put
  <2> DEFINE n == Len(toServer')
  <2>3. /\ \A k \in PutAt : k \in PutAt' /\ toServer'[k] = toServer[k] /\ k < n
        /\ toServer'[n].index = putCounter
        /\ \A k \in PutAt' : k = n \/ k \in PutAt
    BY <2>1, <2>2 DEF Added, PutAt
  <2> HIDE DEF n
  <2> SUFFICES ASSUME NEW k \in PutAt', NEW j \in 0..(toServer'[k].index - 1)
               PROVE  Handled(j)' \/ \E l \in PutAt' : l < k /\ toServer'[l].index = j
    BY <1>4 DEF NoGap
  <2>4. CASE k \in PutAt
    BY <1>2, <2>3, <2>4 DEF NoGap
  <2>5. CASE k = n
    <3>1. Settled \in Nat /\ putCounter \in Nat /\ j \in 0..(putCounter - 1)
      BY <2>3, <2>5, Places DEF Typed
    <3>2. CASE j < Settled
      <4>1. j \in 0..(Settled - 1)
        BY <3>1, <3>2
      <4> QED
        BY <1>2, <4>1 DEF Spoken
    <3>3. CASE ~(j < Settled)
      <4>1. j \in DOMAIN outstandingPuts
        BY <3>1, <3>3 DEF Outstanding
      <4>2. ASSUME NEW l \in AnswerAt, toClient[l].index = j PROVE Handled(j)
        BY <4>2, SaidIsHandled DEF Spoken
      <4>3. ASSUME NEW l \in PutAt, toServer[l].index = j
            PROVE  \E m \in PutAt' : m < k /\ toServer'[m].index = j
        BY <2>3, <2>5, <4>3
      <4> QED
        BY <1>2, <1>5, <4>1, <4>2, <4>3 DEF NoneLost
    <3> QED
      BY <3>2, <3>3
  <2> QED
    BY <2>3, <2>4, <2>5
<1>6. CASE connectionState # "connected"
  <2>1. toServer' = toServer /\ PutAt' = PutAt
    BY <1>6, TurnPutData DEF PutAt
  <2> QED
    BY <1>2, <1>4, <2>1 DEF NoGap
<1> QED
  BY <1>5, <1>6

\* On a new connection all that is not settled is sent again, in order.
LEMMA SaidReady ==
  ASSUME Typed, Typed', Outstanding, IsFiniteSet(listens), Spoken, Ready
  PROVE  Spoken' /\ NoGap'
<1>1. UNCHANGED <<putsToAck, acked, log, putCounter, outstandingPuts>>
  BY DEF Ready, requestVars
<1>2. /\ \A j : Handled(j)' = Handled(j)
      /\ \A j, ok : LastWord(j, ok)' = LastWord(j, ok)
  BY <1>1 DEF Handled, LastWord
<1>3. /\ InTurn' /\ AnswerAt' = {} /\ Settled' = Settled
      /\ \A k \in PutAt' : \A j \in DOMAIN outstandingPuts :
           j < toServer'[k].index => \E l \in PutAt' : l < k /\ toServer'[l].index = j
  BY <1>1, TurnReady DEF Settled
<1>4. Spoken'
  BY <1>1, <1>2, <1>3 DEF Spoken
<1> SUFFICES ASSUME NEW k \in PutAt', NEW j \in 0..(toServer'[k].index - 1)
             PROVE  Handled(j)' \/ \E l \in PutAt' : l < k /\ toServer'[l].index = j
  BY <1>4 DEF NoGap
<1>5. /\ Settled \in Nat /\ putCounter \in Nat /\ toServer'[k].index \in Settled..(putCounter - 1)
      /\ j \in Nat /\ j < toServer'[k].index
  BY <1>1, <1>3, Places DEF InTurn, Outstanding, Typed
<1>6. CASE j < Settled
  <2>1. j \in 0..(Settled - 1)
    BY <1>5, <1>6
  <2> QED
    BY <1>2, <2>1 DEF Spoken
<1>7. CASE ~(j < Settled)
  <2>1. j \in DOMAIN outstandingPuts
    BY <1>5, <1>7 DEF Outstanding
  <2> QED
    BY <1>3, <1>5, <2>1
<1> QED
  BY <1>6, <1>7

\* What was on its way to the client is gone, with what it said.
LEMMA SaidDown ==
  ASSUME IInv, Typed, Typed', NothingWhileDown, Spoken, NoGap, Disconnect
  PROVE  Spoken' /\ NoGap'
<1>1. AnswerAt' = {} /\ UNCHANGED <<putsToAck, acked, toServer, log>>
  BY DownDoes
<1>2. /\ \A j : Handled(j)' = Handled(j)
      /\ \A j, ok : LastWord(j, ok)' = LastWord(j, ok)
  BY <1>1 DEF Handled, LastWord
<1>3. PutAt' = PutAt /\ Settled' = Settled
  BY <1>1 DEF PutAt, Settled
<1>4. Spoken'
  BY <1>1, <1>2, <1>3 DEF Spoken
<1>5. NoGap'
  BY <1>1, <1>2, <1>3 DEF NoGap
<1> QED
  BY <1>4, <1>5

\* The write that is handled is not one of those whose answers are on their
\* way or held back, so that these remain the last words on theirs.
LEMMA SaidServePut ==
  ASSUME IInv, Typed, Typed', Outstanding, Numbered, InTurn, NothingWhileDown,
         Spoken, NoGap, ServePut
  PROVE  Spoken' /\ NoGap'
<1> PICK i \in Nat : i = toServer[1].index
  BY ServePutDoes
<1>1. /\ 1 \in PutAt
      /\ \A k \in PutAt' : k + 1 \in PutAt /\ toServer'[k] = toServer[k + 1]
      /\ \A k \in PutAt : k = 1 \/ (k - 1 \in PutAt' /\ toServer'[k - 1] = toServer[k])
  BY ServePutDoes DEF Removed, PutAt
<1>2. PICK ok \in BOOLEAN :
        /\ log' = Append(log, [index |-> i, ok |-> ok])
        /\ connectionState = "connected" =>
             Added(toClient, toClient', "answer", PutAnswer(i, ok))
  BY ServePutDoes
<1>3. /\ connectionState # "connected" => toClient' = toClient
      /\ UNCHANGED <<putsToAck, acked>>
  BY ServePutDoes DEF answerVars
<1>4. i \in DOMAIN outstandingPuts /\ \A k \in AnswerAt : toClient[k].index < i
  BY <1>1 DEF InTurn
<1>5. /\ \A j : Handled(j) => Handled(j)'
      /\ Handled(i)' /\ LastWord(i, ok)'
      /\ \A j, v : j # i /\ LastWord(j, v) => LastWord(j, v)'
  BY <1>1, <1>2, LogGrows
<1>6. \A k \in AnswerAt' : \A a, v :
        a = toClient'[k].index /\ v = toClient'[k].ok => LastWord(a, v)'
  <2>1. \A k \in AnswerAt : \A a, v :
          a = toClient[k].index /\ v = toClient[k].ok => LastWord(a, v)'
    <3> SUFFICES ASSUME NEW k \in AnswerAt, NEW a, NEW v,
                        a = toClient[k].index, v = toClient[k].ok
                 PROVE  LastWord(a, v)'
      OBVIOUS
    <3>1. LastWord(a, v) /\ a < i /\ a \in Nat
      BY <1>4, Places DEF Spoken
    <3> QED
      BY <1>5, <3>1
  <2>2. CASE connectionState = "connected"
    <3>1. PutAnswer(i, ok).index = i /\ PutAnswer(i, ok).ok = ok
      BY DEF PutAnswer
    <3>2. /\ \A k \in AnswerAt : toClient'[k] = toClient[k]
          /\ toClient'[Len(toClient')] = PutAnswer(i, ok)
          /\ \A k \in AnswerAt' : k = Len(toClient') \/ k \in AnswerAt
      BY <1>2, <2>2 DEF Added, AnswerAt
    <3> QED
      BY <1>5, <2>1, <3>1, <3>2
  <2>3. CASE connectionState # "connected"
    <3>1. toClient' = toClient /\ AnswerAt' = AnswerAt
      BY <1>3, <2>3 DEF AnswerAt
    <3> QED
      BY <2>1, <3>1
  <2> QED
    BY <2>2, <2>3
<1>7. \A k \in 1..Len(putsToAck) : \A a, v :
        a = putsToAck[k].index /\ v = putsToAck[k].ok => LastWord(a, v)'
  <2> SUFFICES ASSUME NEW k \in 1..Len(putsToAck), NEW a, NEW v,
                      a = putsToAck[k].index, v = putsToAck[k].ok
               PROVE  LastWord(a, v)'
    OBVIOUS
  <2>1. a = Len(acked) + k - 1
    BY DEF Numbered
  <2>2. a < Settled /\ Settled <= i
    BY <1>4, <2>1, Places DEF Settled, Outstanding, Typed
  <2>3. a # i
    BY <2>1, <2>2, Places
  <2>4. LastWord(a, v)
    BY DEF Spoken
  <2> QED
    BY <1>5, <2>3, <2>4
<1>8. Spoken'
  <2>1. Settled' = Settled
    BY <1>3 DEF Settled
  <2>2. \A j \in 0..(Settled - 1) : Handled(j)'
    BY <1>5 DEF Spoken
  <2> QED
    BY <1>3, <1>6, <1>7, <2>1, <2>2 DEF Spoken
<1>9. \A k \in PutAt \cup PutAt' : k \in Nat /\ k >= 1
  BY Positions DEF PutAt, Typed
<1>10. NoGap'
  <2> SUFFICES ASSUME NEW k \in PutAt', NEW j \in 0..(toServer'[k].index - 1)
               PROVE  Handled(j)' \/ \E l \in PutAt' : l < k /\ toServer'[l].index = j
    BY DEF NoGap
  <2>1. Handled(j) \/ \E l \in PutAt : l < k + 1 /\ toServer[l].index = j
    BY <1>1 DEF NoGap
  <2>2. ASSUME NEW l \in PutAt, l < k + 1, toServer[l].index = j
        PROVE  Handled(j)' \/ \E m \in PutAt' : m < k /\ toServer'[m].index = j
    <3>1. CASE l = 1
      BY <1>5, <2>2, <3>1
    <3>2. CASE l # 1
      <4>1. l - 1 \in PutAt' /\ toServer'[l - 1].index = j /\ l - 1 < k
        BY <1>1, <1>9, <2>2, <3>2
      <4> QED
        BY <4>1
    <3> QED
      BY <3>1, <3>2
  <2> QED
    BY <1>5, <2>1, <2>2
<1> QED
  BY <1>8, <1>10

-----------------------------------------------------------------------------
(* The invariant is inductive.                                             *)

\* At first there is nothing.
LEMMA AnsweringInitially == Init => Answering
<1> SUFFICES ASSUME Init PROVE Answering
  OBVIOUS
<1>1. /\ interruptReasons = {"waitingForOpen"} /\ connectionState = "disconnected"
      /\ putCounter = 0 /\ outstandingPuts = <<>> /\ listens = {} /\ unackedListensCount = 0
      /\ putsToAck = <<>> /\ acked = <<>> /\ toServer = <<>> /\ toClient = <<>>
      /\ serverListens = {} /\ db \in [Paths -> Values] /\ log = <<>>
      /\ cache = [p \in Paths |-> Unknown]
  BY DEF Init
<1>2. Len(<<>>) = 0 /\ DOMAIN <<>> = {} /\ (\A S : <<>> \in Seq(S)) /\ 1..0 = {}
  BY EmptySeq
<1>3. Typed
  BY <1>1, <1>2 DEF Typed
<1>4. PutAt = {} /\ ListenAt = {} /\ AnswerAt = {} /\ ListeningAt = {}
  BY <1>1, <1>2 DEF PutAt, ListenAt, AnswerAt, ListeningAt, At
<1>5. Settled = 0 /\ Settled..(putCounter - 1) = {}
  BY <1>1, <1>2 DEF Settled
<1>6. Outstanding
  BY <1>1, <1>2, <1>5 DEF Outstanding
<1>7. Numbered
  BY <1>1, <1>2 DEF Numbered
<1>8. InTurn /\ NoneLost /\ NothingWhileDown /\ HeldBehindListen
  BY <1>1, <1>4 DEF InTurn, NoneLost, NothingWhileDown, HeldBehindListen
<1>9. Counted
  <2>1. Asked = {}
    BY <1>4 DEF Asked
  <2>2. Told = {}
    BY <1>4 DEF Told
  <2>3. IsFiniteSet(listens)
    BY <1>1, FS_EmptySet
  <2> QED
    BY <1>1, <1>4, <2>1, <2>2, <2>3 DEF Counted
<1>10. Spoken /\ NoGap
  <2>1. 0..(Settled - 1) = {}
    BY <1>5
  <2>2. Spoken
    BY <1>1, <1>2, <1>4, <2>1 DEF Spoken
  <2> QED
    BY <1>4, <2>2 DEF NoGap
<1> QED
  BY <1>3, <1>6, <1>7, <1>8, <1>9, <1>10 DEF Answering

\* A step that has no part in requests, messages and answers.
LEMMA AnsweringQuiet ==
  ASSUME Answering, Typed',
         UNCHANGED <<putCounter, outstandingPuts, listens, unackedListensCount, putsToAck,
                     acked, toServer, toClient, log>>,
         connectionState' = "connected" <=> connectionState = "connected"
  PROVE  Answering'
<1>1. /\ PutAt' = PutAt /\ ListenAt' = ListenAt
      /\ AnswerAt' = AnswerAt /\ ListeningAt' = ListeningAt
      /\ Settled' = Settled
  BY DEF PutAt, ListenAt, AnswerAt, ListeningAt, Settled
<1>2. Asked' = Asked
  BY <1>1 DEF Asked
<1>3. Told' = Told
  BY <1>1 DEF Told
<1>4. /\ \A j : Handled(j)' = Handled(j)
      /\ \A j, ok : LastWord(j, ok)' = LastWord(j, ok)
  BY DEF Handled, LastWord
<1>5. Outstanding' /\ Numbered'
  BY <1>1 DEF Answering, Outstanding, Numbered
<1>6. InTurn'
  BY <1>1 DEF Answering, InTurn
<1>7. NoneLost' /\ NothingWhileDown' /\ HeldBehindListen'
  BY <1>1 DEF Answering, NoneLost, NothingWhileDown, HeldBehindListen
<1>8. Counted'
  BY <1>1, <1>2, <1>3 DEF Answering, Counted
<1>9. Spoken'
  BY <1>1, <1>4 DEF Answering, Spoken
<1>10. NoGap'
  BY <1>1, <1>4 DEF Answering, NoGap
<1> QED
  BY <1>5, <1>6, <1>7, <1>8, <1>9, <1>10 DEF Answering

\* The connection goes up.
LEMMA AnsweringConnect == IInv /\ Answering /\ Connect => Answering'
<1> SUFFICES ASSUME IInv, Answering, Connect PROVE Answering'
  OBVIOUS
<1>1. Typed'
  BY ConnectionTypes DEF Answering, Counted
<1>2. CASE Retry \/ \E attempt \in fetches : TokenFetched(attempt)
  <2>1. UNCHANGED <<putCounter, outstandingPuts, listens, unackedListensCount, putsToAck,
                    acked, toServer, toClient, log>>
    BY <1>2 DEF Retry, TokenFetched, requestVars, answerVars, serverVars
  <2>2. connectionState' = "connected" <=> connectionState = "connected"
    BY <1>2 DEF Retry, TokenFetched, IInv, OneStepPending
  <2> QED
    BY <1>1, <2>1, <2>2, AnsweringQuiet
<1>3. CASE Ready
  <2>1. IsFiniteSet(listens)
    BY DEF Answering, Counted
  <2>2. InTurn' /\ NoneLost'
    BY <1>1, <1>3, <2>1, TurnReady DEF Answering
  <2>3. Spoken' /\ NoGap'
    BY <1>1, <1>3, <2>1, SaidReady DEF Answering
  <2>4. /\ Counted' /\ connectionState' = "connected"
        /\ listens # {} => unackedListensCount' > 0
    BY <1>1, <1>3, CountReady DEF Answering
  <2>5. UNCHANGED <<putsToAck, acked, putCounter, outstandingPuts, listens>>
    BY <1>3 DEF Ready, requestVars
  <2>6. Outstanding' /\ Numbered'
    BY <2>5 DEF Answering, Outstanding, Numbered, Settled
  <2>7. NothingWhileDown' /\ HeldBehindListen'
    BY <2>4, <2>5 DEF Answering, NothingWhileDown, HeldBehindListen
  <2> QED
    BY <1>1, <2>2, <2>3, <2>4, <2>6, <2>7 DEF Answering
<1> QED
  BY <1>2, <1>3 DEF Connect

\* The connection goes down.
LEMMA AnsweringDisconnect == IInv /\ Answering /\ Disconnect => Answering'
<1> SUFFICES ASSUME IInv, Answering, Disconnect PROVE Answering'
  OBVIOUS
<1>1. Typed'
  BY ConnectionTypes DEF Answering, Counted
<1>2. /\ connectionState' = "disconnected" /\ AnswerAt' = {}
      /\ UNCHANGED <<requestVars, putsToAck, acked, toServer>>
  BY DownDoes DEF Answering
<1>3. Counted' /\ NothingWhileDown' /\ HeldBehindListen'
  BY <1>1, CountDown DEF Answering
<1>4. Spoken' /\ NoGap'
  BY <1>1, SaidDown DEF Answering
<1>5. Outstanding' /\ Numbered'
  BY <1>2 DEF Answering, Outstanding, Numbered, Settled, requestVars
<1>6. PutAt' = PutAt
  BY <1>2 DEF PutAt
<1>7. InTurn' /\ NoneLost'
  BY <1>2, <1>6 DEF Answering, InTurn, NoneLost, requestVars
<1> QED
  BY <1>1, <1>3, <1>4, <1>5, <1>7 DEF Answering

\* The client is asked for something.
LEMMA AnsweringRequest == IInv /\ Answering /\ Request => Answering'
<1> SUFFICES ASSUME IInv, Answering, Request PROVE Answering'
  OBVIOUS
<1>1. Typed'
  BY RequestTypes DEF Answering
<1>2. ASSUME NEW p \in Paths, NEW val \in Values, PutData(p, val) PROVE Answering'
  <2>1. /\ Outstanding' /\ Numbered' /\ InTurn' /\ NoneLost'
        /\ Shifted(toServer, toServer', "listen", 0)
    BY <1>1, <1>2, TurnPutData DEF Answering
  <2>2. Spoken' /\ NoGap'
    BY <1>1, <1>2, SaidPutData DEF Answering
  <2>3. UNCHANGED <<connectionState, listens, unackedListensCount, putsToAck, toClient>>
    BY <1>2 DEF PutData, stateVars, answerVars
  <2>4. Shifted(toClient, toClient', "listening", 0)
    BY <2>3, SameShifts DEF Answering, Typed
  <2>5. Counted'
    BY <1>1, <2>1, <2>3, <2>4, ListensShifted DEF Answering
  <2>6. NothingWhileDown' /\ HeldBehindListen'
    BY <2>3 DEF Answering, NothingWhileDown, HeldBehindListen
  <2> QED
    BY <1>1, <2>1, <2>2, <2>5, <2>6 DEF Answering
<1>3. ASSUME NEW p \in Paths, ListenTo(p) PROVE Answering'
  <2>1. /\ listens' = listens \cup {p}
        /\ connectionState = "connected" => unackedListensCount' = unackedListensCount + 1
        /\ connectionState # "connected" => unackedListensCount' = unackedListensCount
        /\ Shifted(toServer, toServer', "put", 0)
        /\ UNCHANGED <<connectionState, putCounter, outstandingPuts, putsToAck, acked,
                       toClient, log>>
    BY <1>3, ListenToDoes DEF Answering, stateVars
  <2>2. Shifted(toClient, toClient', "answer", 0)
    BY <2>1, SameShifts DEF Answering, Typed
  <2>3. InTurn' /\ NoneLost'
    BY <1>1, <2>1, <2>2, TurnShifted DEF Answering
  <2>4. Spoken' /\ NoGap'
    BY <1>1, <2>1, <2>2, SaidShifted DEF Answering
  <2>5. Counted'
    BY <1>1, <1>3, CountListenTo DEF Answering
  <2>6. Outstanding' /\ Numbered'
    BY <2>1 DEF Answering, Outstanding, Numbered, Settled
  <2>7. NothingWhileDown'
    BY <2>1 DEF Answering, NothingWhileDown
  <2>8. HeldBehindListen'
    <3>1. connectionState = "connected" => unackedListensCount \in Nat
      BY CountedListens DEF Answering
    <3> QED
      BY <2>1, <3>1 DEF HeldBehindListen
  <2> QED
    BY <1>1, <2>3, <2>4, <2>5, <2>6, <2>7, <2>8 DEF Answering
<1> QED
  BY <1>2, <1>3 DEF Request

\* A message comes.
LEMMA AnsweringReceive == IInv /\ Answering /\ Receive => Answering'
<1> SUFFICES ASSUME IInv, Answering, Receive PROVE Answering'
  OBVIOUS
<1>1. Typed'
  BY ReceiveTypes DEF Answering
<1>2. CASE ReceiveData
  <2>1. /\ Shifted(toClient, toClient', "answer", 1)
        /\ Shifted(toClient, toClient', "listening", 1)
        /\ toClient # <<>>
    BY <1>2, ArrivesDoes DEF Answering, ReceiveData, Arrives
  <2>2. UNCHANGED <<connectionState, putCounter, outstandingPuts, listens,
                    unackedListensCount, putsToAck, acked, toServer, log>>
    BY <1>2 DEF ReceiveData, stateVars, requestVars, serverVars
  <2>3. /\ Shifted(toServer, toServer', "put", 0)
        /\ Shifted(toServer, toServer', "listen", 0)
    BY <2>2, SameShifts DEF Answering, Typed
  <2>4. InTurn' /\ NoneLost'
    BY <1>1, <2>1, <2>2, <2>3, TurnShifted DEF Answering
  <2>5. Spoken' /\ NoGap'
    BY <1>1, <2>1, <2>2, <2>3, SaidShifted DEF Answering
  <2>6. Counted'
    BY <1>1, <2>1, <2>2, <2>3, ListensShifted DEF Answering
  <2>7. Outstanding' /\ Numbered'
    BY <2>2 DEF Answering, Outstanding, Numbered, Settled
  <2>8. NothingWhileDown' /\ HeldBehindListen'
    BY <2>1, <2>2 DEF Answering, NothingWhileDown, HeldBehindListen
  <2> QED
    BY <1>1, <2>4, <2>5, <2>6, <2>7, <2>8 DEF Answering
<1>3. CASE ReceiveListening
  <2>1. /\ Shifted(toClient, toClient', "answer", 1) /\ toClient # <<>>
    BY <1>3, ArrivesDoes DEF Answering, ReceiveListening, Arrives
  <2>2. UNCHANGED <<connectionState, putCounter, outstandingPuts, toServer, log>>
    BY <1>3 DEF ReceiveListening, stateVars, serverVars
  <2>3. Shifted(toServer, toServer', "put", 0)
    BY <2>2, SameShifts DEF Answering, Typed
  <2>4. InTurn' /\ NoneLost'
    BY <1>1, <2>1, <2>2, <2>3, TurnShifted DEF Answering
  <2>5. Spoken' /\ NoGap'
    BY <1>1, <1>3, SaidReceiveListening DEF Answering
  <2>6. Outstanding' /\ Numbered'
    BY <1>1, <1>3, TurnReceiveListening DEF Answering
  <2>7. Counted' /\ connectionState = "connected"
    BY <1>1, <1>3, CountReceiveListening DEF Answering
  <2>8. NothingWhileDown'
    BY <2>2, <2>7 DEF NothingWhileDown
  <2>9. HeldBehindListen'
    <3>1. unackedListensCount' \in Nat /\ (unackedListensCount' > 0 => listens' # {})
      <4>1. IsFiniteSet(Asked' \cup Told') /\ Asked' \cup Told' \subseteq listens'
        BY <2>7, FS_Subset DEF Counted
      <4>2. /\ Cardinality(Asked' \cup Told') \in Nat
            /\ Asked' \cup Told' = {} => Cardinality(Asked' \cup Told') = 0
        BY <4>1, FS_CardinalityType, FS_EmptySet
      <4>3. unackedListensCount' = Cardinality(Asked' \cup Told')
        BY <2>2, <2>7 DEF Counted
      <4> QED
        BY <4>1, <4>2, <4>3
    <3>2. putsToAck' # <<>> => unackedListensCount' # 0
      BY <1>3 DEF ReceiveListening
    <3> QED
      BY <3>1, <3>2 DEF HeldBehindListen
  <2> QED
    BY <1>1, <2>4, <2>5, <2>6, <2>7, <2>8, <2>9 DEF Answering
<1>4. CASE ReceiveAnswer
  <2>1. Shifted(toClient, toClient', "listening", 1)
    BY <1>4, ArrivesDoes DEF Answering, ReceiveAnswer
  <2>2. UNCHANGED <<connectionState, listens, unackedListensCount, toServer>>
    BY <1>4 DEF ReceiveAnswer, stateVars
  <2>3. Shifted(toServer, toServer', "listen", 0)
    BY <2>2, SameShifts DEF Answering, Typed
  <2>4. Outstanding' /\ Numbered' /\ InTurn' /\ NoneLost' /\ connectionState = "connected"
    BY <1>1, <1>4, TurnReceiveAnswer DEF Answering
  <2>5. Spoken' /\ NoGap'
    BY <1>1, <1>4, SaidReceiveAnswer DEF Answering
  <2>6. Counted'
    BY <1>1, <2>1, <2>2, <2>3, ListensShifted DEF Answering
  <2>7. NothingWhileDown'
    BY <2>2, <2>4 DEF NothingWhileDown
  <2>8. HeldBehindListen'
    <3>1. unackedListensCount \in Nat /\ (unackedListensCount > 0 => listens # {})
      BY <2>4, CountedListens DEF Answering
    <3>2. unackedListensCount = 0 => putsToAck' = putsToAck
      BY <1>4 DEF ReceiveAnswer
    <3> QED
      BY <2>2, <2>4, <3>1, <3>2 DEF Answering, HeldBehindListen
  <2> QED
    BY <1>1, <2>4, <2>5, <2>6, <2>7, <2>8 DEF Answering
<1> QED
  BY <1>2, <1>3, <1>4 DEF Receive

\* The server handles a request, or another client writes.
LEMMA AnsweringServe ==
  ASSUME IInv, Answering,
         Serve \/ \E p \in Paths, val \in Values : RemoteWrite(p, val)
  PROVE  Answering'
<1>1. Typed'
  BY ServeTypes DEF Answering
<1>2. CASE ServePut
  <2>1. /\ Shifted(toServer, toServer', "listen", 1)
        /\ connectionState = "connected" => Shifted(toClient, toClient', "listening", 0)
        /\ connectionState # "connected" => toClient' = toClient
        /\ UNCHANGED <<connectionState, putCounter, outstandingPuts, listens,
                       unackedListensCount, putsToAck, acked>>
    BY <1>2, ServePutDoes DEF Answering, stateVars, requestVars, answerVars
  <2>2. Shifted(toClient, toClient', "listening", 0)
    BY <2>1, SameShifts DEF Answering, Typed
  <2>3. InTurn' /\ NoneLost'
    BY <1>1, <1>2, TurnServePut DEF Answering
  <2>4. Spoken' /\ NoGap'
    BY <1>1, <1>2, SaidServePut DEF Answering
  <2>5. Counted'
    BY <1>1, <2>1, <2>2, ListensShifted DEF Answering
  <2>6. Outstanding' /\ Numbered'
    BY <2>1 DEF Answering, Outstanding, Numbered, Settled
  <2>7. NothingWhileDown' /\ HeldBehindListen'
    BY <2>1 DEF Answering, NothingWhileDown, HeldBehindListen
  <2> QED
    BY <1>1, <2>3, <2>4, <2>5, <2>6, <2>7 DEF Answering
<1>3. CASE ServeListen
  <2>1. /\ Shifted(toServer, toServer', "put", 1)
        /\ connectionState = "connected" => Shifted(toClient, toClient', "answer", 0)
        /\ connectionState # "connected" => toClient' = toClient
        /\ UNCHANGED <<connectionState, putCounter, outstandingPuts, listens,
                       unackedListensCount, putsToAck, acked, log>>
    BY <1>3, ServeListenDoes DEF Answering, stateVars, requestVars, answerVars
  <2>2. Shifted(toClient, toClient', "answer", 0)
    BY <2>1, SameShifts DEF Answering, Typed
  <2>3. InTurn' /\ NoneLost'
    BY <1>1, <2>1, <2>2, TurnShifted DEF Answering
  <2>4. Spoken' /\ NoGap'
    BY <1>1, <2>1, <2>2, SaidShifted DEF Answering
  <2>5. Counted'
    BY <1>1, <1>3, CountServeListen DEF Answering
  <2>6. Outstanding' /\ Numbered'
    BY <2>1 DEF Answering, Outstanding, Numbered, Settled
  <2>7. NothingWhileDown' /\ HeldBehindListen'
    BY <2>1 DEF Answering, NothingWhileDown, HeldBehindListen
  <2> QED
    BY <1>1, <2>3, <2>4, <2>5, <2>6, <2>7 DEF Answering
<1>4. ASSUME NEW p \in Paths, NEW val \in Values, RemoteWrite(p, val) PROVE Answering'
  <2>1. /\ Shifted(toClient, toClient', "answer", 0)
        /\ Shifted(toClient, toClient', "listening", 0)
        /\ connectionState # "connected" => toClient' = toClient
        /\ UNCHANGED <<connectionState, putCounter, outstandingPuts, listens,
                       unackedListensCount, putsToAck, acked, toServer, log>>
    BY <1>4, RemoteWriteDoes DEF Answering, stateVars, requestVars, answerVars
  <2>2. /\ Shifted(toServer, toServer', "put", 0)
        /\ Shifted(toServer, toServer', "listen", 0)
    BY <2>1, SameShifts DEF Answering, Typed
  <2>3. InTurn' /\ NoneLost'
    BY <1>1, <2>1, <2>2, TurnShifted DEF Answering
  <2>4. Spoken' /\ NoGap'
    BY <1>1, <2>1, <2>2, SaidShifted DEF Answering
  <2>5. Counted'
    BY <1>1, <2>1, <2>2, ListensShifted DEF Answering
  <2>6. Outstanding' /\ Numbered'
    BY <2>1 DEF Answering, Outstanding, Numbered, Settled
  <2>7. NothingWhileDown' /\ HeldBehindListen'
    BY <2>1 DEF Answering, NothingWhileDown, HeldBehindListen
  <2> QED
    BY <1>1, <2>3, <2>4, <2>5, <2>6, <2>7 DEF Answering
<1> QED
  BY <1>2, <1>3, <1>4 DEF Serve

\* The connection may try to go up again.
LEMMA AnsweringResumed == IInv /\ Answering /\ Resumed => Answering'
<1> SUFFICES ASSUME IInv, Answering, Resumed PROVE Answering'
  OBVIOUS
<1>1. Typed'
  BY ConnectionTypes DEF Answering, Counted
<1>2. UNCHANGED <<connectionState, putCounter, outstandingPuts, listens,
                  unackedListensCount, putsToAck, acked, toServer, toClient, log>>
  BY DEF Resumed, Open, GoOnline, Back, Resume, requestVars, answerVars, serverVars
<1> QED
  BY <1>1, <1>2, AnsweringQuiet

\* The inductive invariant of the writes and their answers.
THEOREM AnswersInvariant == Spec => [](IInv /\ Answering)
<1>1. Init => IInv /\ Answering
  BY Initially, AnsweringInitially
<1>2. IInv /\ Answering /\ [Next]_vars => Answering'
  <2> SUFFICES ASSUME IInv, Answering, [Next]_vars PROVE Answering'
    OBVIOUS
  <2>1. CASE UNCHANGED vars
    <3>1. UNCHANGED <<interruptReasons, putCounter, outstandingPuts, listens, putsToAck,
                      acked, cache, toServer, toClient, serverListens, db, log>>
      BY <2>1 DEF vars, stateVars, attemptVars, requestVars, answerVars, serverVars
    <3>2. Typed'
      BY <3>1 DEF Answering, Typed
    <3>3. UNCHANGED <<connectionState, unackedListensCount>>
      BY <2>1 DEF vars, stateVars, answerVars
    <3> QED
      BY <3>1, <3>2, <3>3, AnsweringQuiet
  <2>2. CASE Next
    BY <2>2, AnsweringConnect, AnsweringDisconnect, AnsweringResumed, AnsweringRequest,
       AnsweringReceive, AnsweringServe DEF Next
  <2> QED
    BY <2>1, <2>2
<1> QED
  BY <1>1, <1>2, Invariant, PTL DEF Spec

-----------------------------------------------------------------------------
(* Theorems.                                                               *)

\* The variables keep their types.
THEOREM Typing == Spec => []TypeOK
<1>1. IInv /\ Answering => TypeOK
  <2> SUFFICES ASSUME IInv, Answering PROVE TypeOK
    OBVIOUS
  <2>1. DOMAIN outstandingPuts \subseteq 0..(putCounter - 1)
    BY Places DEF Answering, Outstanding, Typed
  <2>2. unackedListensCount \in Nat
    BY CountedListens DEF Answering, NothingWhileDown
  <2> QED
    BY <2>1, <2>2 DEF IInv, AttemptsTyped, Answering, Typed, TypeOK
<1> QED
  BY AnswersInvariant, <1>1, PTL

\* The answers are handed on in the order of the writes, none twice and none
\* left out, however often the connection was lost while some were held back.
THEOREM InOrder == Spec => []AnswersInOrder
<1>1. Answering => AnswersInOrder
  BY DEF Answering, Numbered, AnswersInOrder
<1> QED
  BY AnswersInvariant, <1>1, PTL

-----------------------------------------------------------------------------
(* The connection implements WriteLedger.                                  *)

\* The answers as the ledger has them.
Oks == [k \in 1..Len(acked) |-> acked[k].ok]

\* They are a sequence.
LEMMA OksAreASequence ==
  ASSUME NEW a \in Seq(Answers), NEW o, o = [k \in 1..Len(a) |-> a[k].ok]
  PROVE  o \in Seq(BOOLEAN) /\ Len(o) = Len(a) /\ \A k \in 1..Len(a) : o[k] = a[k].ok
<1>1. Len(a) \in Nat
  BY LenProperties
<1>2. \A k \in 1..Len(a) : a[k].ok \in BOOLEAN
  <2> SUFFICES ASSUME NEW k \in 1..Len(a) PROVE a[k].ok \in BOOLEAN
    OBVIOUS
  <2>1. a[k] \in Answers
    BY ElementOfSeq
  <2> QED
    BY <2>1 DEF Answers
<1>3. o \in [1..Len(a) -> BOOLEAN]
  BY <1>2
<1>4. \A k \in 1..Len(a) : o[k] = a[k].ok
  OBVIOUS
<1> QED
  BY <1>1, <1>3, <1>4, FunctionIsSeq

\* A step of the server that handles a write is one of the ledger.
LEMMA ServePutHandles ==
  ASSUME IInv, Answering, ServePut
  PROVE  \E i \in 0..(putCounter - 1), ok \in BOOLEAN : Ledger!Handle(i, ok)
<1> PICK i \in Nat : i = toServer[1].index
  BY ServePutDoes DEF Answering
<1>1. PICK ok \in BOOLEAN : log' = Append(log, [index |-> i, ok |-> ok])
  BY ServePutDoes DEF Answering
<1>2. 1 \in PutAt /\ UNCHANGED <<acked, putCounter>>
  BY ServePutDoes DEF Answering, Removed, PutAt, requestVars, answerVars
<1>3. i \in Settled..(putCounter - 1)
  BY <1>2 DEF Answering, InTurn, Outstanding
<1>4. ASSUME NEW j \in 0..(i - 1) PROVE Handled(j)
  <2>1. Handled(j) \/ \E l \in PutAt : l < 1 /\ toServer[l].index = j
    BY <1>2 DEF Answering, NoGap
  <2> QED
    BY <2>1, Places DEF Answering
<1>5. /\ Len(acked) \in Nat /\ Settled \in Nat /\ Len(acked) <= Settled
      /\ putCounter \in Nat /\ Len(Oks) = Len(acked)
  BY Places, OksAreASequence DEF Answering, Settled, Typed, Oks
<1>6. i \in Len(Oks)..(putCounter - 1) /\ i \in 0..(putCounter - 1)
  BY <1>3, <1>5
<1>7. Oks' = Oks
  BY <1>2 DEF Oks
<1>8. \A j \in 0..(i - 1) : Ledger!Handled(j)
  BY <1>4 DEF Handled, Ledger!Handled
<1>9. Ledger!Handle(i, ok)
  BY <1>1, <1>2, <1>6, <1>7, <1>8 DEF Ledger!Handle, Oks
<1> QED
  BY <1>6, <1>9

\* Answers that are handed on, if they are the last words on their writes, make
\* a step of the ledger.
LEMMA HandedOnAnswers ==
  ASSUME Typed, Typed', NEW t \in Seq(Answers), acked' = acked \o t,
         UNCHANGED <<putCounter, log>>,
         \A k \in 1..Len(t) : LastWord(Len(acked) + k - 1, t[k].ok)
  PROVE  Ledger!Answer(SubSeq(Oks', Len(Oks) + 1, Len(Oks')))
<1> DEFINE a == acked
           b == acked'
           o == [k \in 1..Len(a) |-> a[k].ok]
           q == [k \in 1..Len(b) |-> b[k].ok]
<1>1. a \in Seq(Answers) /\ b \in Seq(Answers) /\ b = a \o t
  BY DEF Typed
<1>2. Oks = o /\ Oks' = q
  BY DEF Oks
<1>3. \A k \in 1..Len(t) : LastWord(Len(a) + k - 1, t[k].ok)
  OBVIOUS
<1> HIDE DEF a, b
<1>4. /\ o \in Seq(BOOLEAN) /\ Len(o) = Len(a)
      /\ \A k \in 1..Len(a) : o[k] = a[k].ok
  BY <1>1, OksAreASequence
<1>5. /\ q \in Seq(BOOLEAN) /\ Len(q) = Len(b)
      /\ \A k \in 1..Len(b) : q[k] = b[k].ok
  BY <1>1, OksAreASequence
<1> HIDE DEF o, q
<1>6. /\ Len(a) \in Nat /\ Len(t) \in Nat /\ Len(b) = Len(a) + Len(t)
      /\ \A k \in 1..(Len(a) + Len(t)) : b[k] = IF k <= Len(a) THEN a[k] ELSE t[k - Len(a)]
  BY <1>1, ConcatProperties, LenProperties
<1> DEFINE u == SubSeq(q, Len(o) + 1, Len(q))
<1>7. /\ u \in Seq(BOOLEAN) /\ Len(u) = Len(t)
      /\ \A k \in 1..Len(t) : u[k] = q[Len(a) + k]
  <2> DEFINE m == Len(o) + 1
             n == Len(q)
  <2>1. m \in Int /\ n \in Int /\ m = Len(a) + 1 /\ n = Len(a) + Len(t)
    BY <1>4, <1>5, <1>6
  <2>2. \A k \in m..n : q[k] \in BOOLEAN
    <3> SUFFICES ASSUME NEW k \in m..n PROVE q[k] \in BOOLEAN
      OBVIOUS
    <3>1. k \in 1..Len(q)
      BY <1>6, <2>1
    <3> QED
      BY <1>5, <3>1, ElementOfSeq
  <2> HIDE DEF m, n
  <2>3. /\ SubSeq(q, m, n) \in Seq(BOOLEAN)
        /\ Len(SubSeq(q, m, n)) = IF m <= n THEN n - m + 1 ELSE 0
        /\ \A k \in 1..(n - m + 1) : SubSeq(q, m, n)[k] = q[m + k - 1]
    BY <2>1, <2>2, SubSeqProperties
  <2>4. n - m + 1 = Len(t) /\ (IF m <= n THEN n - m + 1 ELSE 0) = Len(t)
    BY <1>6, <2>1
  <2>5. \A k \in 1..Len(t) : m + k - 1 = Len(a) + k
    BY <1>6, <2>1
  <2>6. u = SubSeq(q, m, n)
    BY DEF m, n
  <2> HIDE DEF u
  <2> QED
    BY <2>3, <2>4, <2>5, <2>6
<1>8. u = SubSeq(Oks', Len(Oks) + 1, Len(Oks'))
  BY <1>2
<1> HIDE DEF u
<1>9. /\ o \o u \in Seq(BOOLEAN) /\ Len(o \o u) = Len(a) + Len(t)
      /\ \A k \in 1..(Len(a) + Len(t)) :
           (o \o u)[k] = IF k <= Len(a) THEN o[k] ELSE u[k - Len(a)]
  <2>1. /\ o \o u \in Seq(BOOLEAN) /\ Len(o \o u) = Len(o) + Len(u)
        /\ \A k \in 1..(Len(o) + Len(u)) :
             (o \o u)[k] = IF k <= Len(o) THEN o[k] ELSE u[k - Len(o)]
    BY <1>4, <1>7, ConcatProperties
  <2>2. Len(o) = Len(a) /\ Len(u) = Len(t)
    BY <1>4, <1>7
  <2> QED
    BY <2>1, <2>2
<1>10. \A k \in 1..Len(q) : q[k] = (o \o u)[k]
  <2> SUFFICES ASSUME NEW k \in 1..(Len(a) + Len(t)) PROVE q[k] = (o \o u)[k]
    BY <1>5, <1>6
  <2>1. CASE k <= Len(a)
    <3>1. k \in 1..Len(a)
      BY <1>6, <2>1
    <3> QED
      BY <1>4, <1>5, <1>6, <1>9, <2>1, <3>1
  <2>2. CASE ~(k <= Len(a))
    <3>1. k - Len(a) \in 1..Len(t) /\ Len(a) + (k - Len(a)) = k
      BY <1>6, <2>2
    <3> QED
      BY <1>7, <1>9, <2>2, <3>1
  <2> QED
    BY <2>1, <2>2
<1>11. q = o \o u
  <2>1. Len(q) = Len(o \o u)
    BY <1>5, <1>6, <1>9
  <2> QED
    BY <1>5, <1>9, <1>10, <2>1, SeqEqual
<1>12. ASSUME NEW k \in 1..Len(u) PROVE Ledger!LastWord(Len(o) + k - 1, u[k])
  <2>1. k \in 1..Len(t) /\ u[k] = q[Len(a) + k]
    BY <1>7
  <2>2. Len(a) + k \in 1..Len(b) /\ ~(Len(a) + k <= Len(a)) /\ (Len(a) + k) - Len(a) = k
    BY <1>6, <2>1
  <2>3. u[k] = t[k].ok
    BY <1>5, <1>6, <2>1, <2>2
  <2>4. LastWord(Len(o) + k - 1, u[k])
    BY <1>3, <1>4, <2>1, <2>3
  <2> QED
    BY <2>4 DEF LastWord, Ledger!LastWord
<1>13. /\ Oks' = Oks \o u
       /\ \A k \in 1..Len(u) : Ledger!LastWord(Len(Oks) + k - 1, u[k])
  BY <1>2, <1>11, <1>12
<1> QED
  BY <1>8, <1>13 DEF Ledger!Answer, Oks

\* At first the ledger is empty.
LEMMA LedgerInitially == Init => Ledger!Init
<1> SUFFICES ASSUME Init PROVE Ledger!Init
  OBVIOUS
<1>1. putCounter = 0 /\ acked = <<>> /\ log = <<>>
  BY DEF Init
<1>2. <<>> \in Seq(Answers) /\ Len(<<>>) = 0
  BY EmptySeq
<1>3. Oks \in Seq(BOOLEAN) /\ Len(Oks) = 0
  BY <1>1, <1>2, OksAreASequence DEF Oks
<1>4. Oks = <<>>
  BY <1>3, EmptySeq
<1> QED
  BY <1>1, <1>4 DEF Ledger!Init, Oks

\* Answers that come are handed on at once, held back, or let go.
LEMMA ReceiveAnswers ==
  ASSUME IInv, Answering, Typed', Receive
  PROVE  Ledger!Next \/ UNCHANGED Ledger!ledgerVars
<1>1. UNCHANGED <<putCounter, log>>
  BY DEF Receive, ReceiveData, ReceiveListening, ReceiveAnswer, requestVars, serverVars
<1>2. CASE acked' = acked
  BY <1>1, <1>2 DEF Ledger!ledgerVars
<1>3. ASSUME NEW t \in Seq(Answers), acked' = acked \o t,
             \A k \in 1..Len(t) : LastWord(Len(acked) + k - 1, t[k].ok)
      PROVE  Ledger!Next
  <2>1. Ledger!Answer(SubSeq(Oks', Len(Oks) + 1, Len(Oks')))
    BY <1>1, <1>3, HandedOnAnswers DEF Answering
  <2> QED
    BY <2>1 DEF Ledger!Next, Oks
<1>4. CASE ReceiveListening /\ acked' # acked
  <2>1. acked' = acked \o putsToAck /\ putsToAck \in Seq(Answers)
    BY <1>4 DEF ReceiveListening, Answering, Typed
  <2>2. ASSUME NEW k \in 1..Len(putsToAck)
        PROVE  LastWord(Len(acked) + k - 1, putsToAck[k].ok)
    BY DEF Answering, Numbered, Spoken
  <2> QED
    BY <1>3, <2>1, <2>2
<1>5. CASE ReceiveAnswer /\ acked' # acked
  <2> DEFINE answer == [index |-> toClient[1].index, ok |-> toClient[1].ok]
  <2>1. toClient[1].index = Settled /\ 1 \in AnswerAt
    BY <1>5, TurnReceiveAnswer DEF Answering
  <2>2. answer \in Answers /\ answer.ok = toClient[1].ok
    BY <2>1, Places DEF Answering, Answers
  <2>3. Head(toClient) = toClient[1]
    BY <1>5, ArrivesDoes DEF ReceiveAnswer, Answering
  <2>4. acked' = Append(acked, answer) /\ unackedListensCount = 0
    BY <1>5, <2>3 DEF ReceiveAnswer
  <2>5. connectionState = "connected"
    BY <1>5, TurnReceiveAnswer DEF Answering
  <2>6. putsToAck = <<>>
    BY <2>4, <2>5 DEF Answering, HeldBehindListen
  <2>7. Settled = Len(acked) /\ Len(acked) \in Nat
    BY <2>6, EmptySeq, Places DEF Settled, Answering
  <2>8. LastWord(Len(acked), answer.ok)
    BY <1>5, <2>2, <2>7, SaidReceiveAnswer DEF Answering
  <2> HIDE DEF answer
  <2> DEFINE t == <<answer>>
  <2>9. t \in Seq(Answers) /\ Len(t) = 1 /\ t[1] = answer
    BY <2>2
  <2>10. acked' = acked \o t
    <3>1. acked \in Seq(Answers)
      BY DEF Answering, Typed
    <3> QED
      BY <2>2, <2>4, <3>1, AppendIsConcat
  <2> HIDE DEF t
  <2>11. ASSUME NEW k \in 1..Len(t) PROVE LastWord(Len(acked) + k - 1, t[k].ok)
    <3>1. k = 1 /\ Len(acked) + k - 1 = Len(acked) /\ t[k] = answer
      BY <2>7, <2>9
    <3> QED
      BY <2>8, <3>1
  <2> QED
    BY <1>3, <2>9, <2>10, <2>11
<1>6. ReceiveData => acked' = acked
  BY DEF ReceiveData
<1> QED
  BY <1>2, <1>4, <1>5, <1>6 DEF Receive

\* The steps that have no part in the ledger.
LEMMA OthersStutter ==
  ASSUME \/ Connect \/ Disconnect \/ Resumed \/ ServeListen
         \/ \E p \in Paths : ListenTo(p)
         \/ \E p \in Paths, val \in Values : RemoteWrite(p, val)
         \/ UNCHANGED vars
  PROVE  UNCHANGED Ledger!ledgerVars
<1>1. UNCHANGED <<putCounter, acked, log>>
  <2>1. CASE Connect
    BY <2>1 DEF Connect, Retry, TokenFetched, Ready, requestVars, answerVars, serverVars
  <2>2. CASE Disconnect
    BY <2>2 DEF Disconnect, Lose, GoOffline, ServerKill, Interrupt, requestVars, serverVars
  <2>3. CASE Resumed
    BY <2>3 DEF Resumed, requestVars, answerVars, serverVars
  <2>4. CASE ServeListen
    BY <2>4 DEF ServeListen, requestVars, answerVars
  <2>5. CASE \E p \in Paths : ListenTo(p)
    BY <2>5 DEF ListenTo, serverVars
  <2>6. CASE \E p \in Paths, val \in Values : RemoteWrite(p, val)
    BY <2>6 DEF RemoteWrite, requestVars, answerVars
  <2>7. CASE UNCHANGED vars
    BY <2>7 DEF vars, requestVars, answerVars, serverVars
  <2> QED
    BY <2>1, <2>2, <2>3, <2>4, <2>5, <2>6, <2>7
<1> QED
  BY <1>1 DEF Ledger!ledgerVars

\* Whatever becomes of the connection, the client may count on what WriteLedger
\* says: a write is handled at least once, not before an earlier one nor after
\* it was answered, and the answer is the server's last word on it.
THEOREM Implements == Spec => LedgerSpec
<1>1. IInv /\ Answering /\ (IInv /\ Answering)' /\ [Next]_vars
        => [Ledger!Next]_(Ledger!ledgerVars)
  <2> SUFFICES ASSUME IInv, Answering, Typed', [Next]_vars
               PROVE  Ledger!Next \/ UNCHANGED Ledger!ledgerVars
    BY DEF Answering
  <2>1. ASSUME NEW p \in Paths, NEW val \in Values, PutData(p, val) PROVE Ledger!Next
    BY <2>1 DEF PutData, answerVars, serverVars, Ledger!Next, Ledger!Issue
  <2>2. CASE ServePut
    BY <2>2, ServePutHandles DEF Ledger!Next
  <2>3. CASE Receive
    BY <2>3, ReceiveAnswers
  <2> QED
    BY <2>1, <2>2, <2>3, OthersStutter DEF Next, Request, Serve
<1> QED
  BY LedgerInitially, <1>1, AnswersInvariant, PTL DEF Spec, LedgerSpec, Ledger!Spec

-----------------------------------------------------------------------------
(* What the client holds of a leaf that it listens to.                     *)

\* The data of these paths is on its way.
Coming == PathsOf(toClient, "data")

\* The refusals on their way in a channel, and the paths they are about.
RefusalAt(s) == {k \in At(s, "listening") : s[k].ok = FALSE}
RefusedIn(s) == {s[k].path : k \in RefusalAt(s)}
Refused == RefusedIn(toClient)

-----------------------------------------------------------------------------
(* The inductive invariant.                                                *)

\* A listen on its way tells what the cache holds.
HashesTrue == \A k \in ListenAt : toServer[k].hash = HashOf(cache[toServer[k].path])

\* The server knows of every listen, but for those on their way to it and
\* those it has refused.
ListensKnown == serverListens = listens \ (Asked \cup Refused)

\* Data comes only for what the server knows to be listened to, and what
\* comes last is what the database has.
DataCurrent == Coming \subseteq serverListens /\ Newest(toClient, db)

\* Where no data comes the cache is current, except that it may not know yet
\* that a leaf does not exist.
HeldCurrent ==
  \A p \in serverListens \ Coming :
    /\ HashOf(cache[p]) = db[p]
    /\ p \in Told \/ cache[p] # Unknown

InStep == HashesTrue /\ ListensKnown /\ DataCurrent /\ HeldCurrent

Following == connectionState = "connected" => InStep

-----------------------------------------------------------------------------
(* What a step does to the refusals.                                       *)

\* The refusals stay,
LEMMA RefusedShifted ==
  ASSUME NEW s, NEW t, NEW d, Shifted(s, t, "listening", d)
  PROVE  RefusedIn(t) = RefusedIn(s)
<1>1. \A p \in RefusedIn(t) : p \in RefusedIn(s)
  BY DEF RefusedIn, RefusalAt, Shifted
<1>2. \A p \in RefusedIn(s) : p \in RefusedIn(t)
  BY DEF RefusedIn, RefusalAt, Shifted
<1> QED
  BY <1>1, <1>2

\* are one more when a listen is refused,
LEMMA RefusedAdded ==
  ASSUME NEW s, NEW t, NEW x, Added(s, t, "listening", x)
  PROVE  RefusedIn(t) = RefusedIn(s) \cup (IF x.ok = FALSE THEN {x.path} ELSE {})
<1>1. \A p \in RefusedIn(t) : p \in RefusedIn(s) \/ (x.ok = FALSE /\ p = x.path)
  BY DEF RefusedIn, RefusalAt, Added
<1>2. \A p \in RefusedIn(s) : p \in RefusedIn(t)
  BY DEF RefusedIn, RefusalAt, Added
<1>3. x.ok = FALSE => x.path \in RefusedIn(t)
  BY DEF RefusedIn, RefusalAt, Added
<1> QED
  BY <1>1, <1>2, <1>3

\* and one less when a refusal is taken.
LEMMA RefusedRemoved ==
  ASSUME NEW S, NEW s \in Seq(S), NEW t \in Seq(S), Removed(s, t, "listening"),
         \A k, l \in At(s, "listening") : s[k].path = s[l].path => k = l
  PROVE  /\ RefusedIn(t) = RefusedIn(s) \ {s[1].path}
         /\ s[1].path \in RefusedIn(s) <=> s[1].ok = FALSE
<1>1. s[1].path \notin PathsOf(t, "listening")
  BY PathsRemoved
<1>2. \A p \in RefusedIn(t) : p \in RefusedIn(s) /\ p # s[1].path
  BY <1>1 DEF RefusedIn, RefusalAt, PathsOf, Removed
<1>3. \A p \in RefusedIn(s) : p # s[1].path => p \in RefusedIn(t)
  BY DEF RefusedIn, RefusalAt, Removed
<1>4. s[1].path \in RefusedIn(s) => s[1].ok = FALSE
  BY DEF RefusedIn, RefusalAt, Removed
<1>5. s[1].ok = FALSE => s[1].path \in RefusedIn(s)
  BY DEF RefusedIn, RefusalAt, Removed
<1> QED
  BY <1>2, <1>3, <1>4, <1>5

-----------------------------------------------------------------------------
(* The steps keep the cache current.                                       *)

\* Data, as the server sends it.
LEMMA DataIs ==
  \A p \in Paths, val \in Values :
    /\ Data(p, val) \in Messages /\ Data(p, val).msg = "data"
    /\ Data(p, val).path = p /\ Data(p, val).val = val
BY DEF Data, Messages

\* The sets by their names.
LEMMA Named ==
  /\ Asked = PathsOf(toServer, "listen") /\ Asked' = PathsOf(toServer', "listen")
  /\ Told = PathsOf(toClient, "listening") /\ Told' = PathsOf(toClient', "listening")
  /\ Coming' = PathsOf(toClient', "data") /\ Refused' = RefusedIn(toClient')
BY DEF Asked, Told, ListenAt, ListeningAt, PathsOf, Coming, Refused, RefusedIn, RefusalAt, At

\* What the server knows to be listened to is.
LEMMA KnownListens ==
  ASSUME Typed, Counted, InStep
  PROVE  /\ serverListens \subseteq listens /\ serverListens \cap Asked = {}
         /\ Refused \subseteq Told /\ serverListens \cap Refused = {}
<1>1. Refused \subseteq Told
  BY DEF Refused, RefusedIn, RefusalAt, Told, ListeningAt
<1> QED
  BY <1>1 DEF InStep, ListensKnown

\* Nothing of it changes.
LEMMA FollowingQuiet ==
  ASSUME Following,
         UNCHANGED <<listens, cache, toServer, toClient, serverListens, db>>,
         connectionState' = "connected" => connectionState = "connected"
  PROVE  Following'
<1>1. /\ Asked' = Asked /\ Told' = Told /\ Refused' = Refused /\ Coming' = Coming
      /\ ListenAt' = ListenAt
  BY DEF Asked, ListenAt, Told, ListeningAt, Refused, RefusedIn, RefusalAt, Coming,
         PathsOf, At
<1>2. Newest(toClient, db)' <=> Newest(toClient, db)
  BY DEF Newest, At
<1>3. HashesTrue => HashesTrue'
  BY <1>1 DEF HashesTrue, HashOf
<1>4. ListensKnown => ListensKnown'
  BY <1>1 DEF ListensKnown
<1>5. DataCurrent => DataCurrent'
  BY <1>1, <1>2 DEF DataCurrent
<1>6. HeldCurrent => HeldCurrent'
  BY <1>1 DEF HeldCurrent, HashOf
<1> QED
  BY <1>3, <1>4, <1>5, <1>6 DEF Following, InStep

\* On a new connection the server has still to be told of every listen.
LEMMA FollowingReady ==
  ASSUME IInv, Answering, Typed', Ready
  PROVE  Following'
<1>1. PICK order \in Orders(listens), ids \in Orders(DOMAIN outstandingPuts) :
        toServer' = Restored(order, ids)
  BY DEF Ready
<1>2. IsRestored(toServer', order, ids)
  BY <1>1, RestoredIs DEF Answering, Counted
<1>3. toClient' = <<>> /\ serverListens' = {} /\ UNCHANGED <<listens, cache>>
  BY DEF Ready, requestVars
<1>4. HashesTrue'
  <2> SUFFICES ASSUME NEW k \in ListenAt'
               PROVE  toServer'[k].hash = HashOf(cache[toServer'[k].path])
    BY <1>3 DEF HashesTrue, HashOf
  <2>1. k \in Nat /\ k >= 1 /\ k <= Len(toServer') /\ toServer'[k].msg = "listen"
    BY Positions DEF ListenAt, Typed
  <2>2. k \in 1..Len(order)
    <3> SUFFICES ASSUME k \notin 1..Len(order) PROVE FALSE
      OBVIOUS
    <3> DEFINE j == k - Len(order)
    <3>1. Len(order) \in Nat /\ Len(ids) \in Nat /\ Len(toServer') = Len(order) + Len(ids)
      BY <1>2 DEF IsRestored
    <3>2. j \in 1..Len(ids) /\ Len(order) + j = k
      BY <2>1, <3>1
    <3> HIDE DEF j
    <3>3. toServer'[k] = Put(ids[j], outstandingPuts[ids[j]])
      BY <1>2, <3>2 DEF IsRestored
    <3> QED
      BY <2>1, <3>3 DEF Put
  <2>3. toServer'[k] = Listen(order[k])
    BY <1>2, <2>2 DEF IsRestored
  <2> QED
    BY <2>3 DEF Listen
<1>5. Len(toClient') = 0
  BY <1>3
<1>6. Told' = {} /\ Refused' = {} /\ Coming' = {} /\ Newest(toClient, db)'
  BY <1>5 DEF Told, ListeningAt, Refused, RefusedIn, RefusalAt, Coming, PathsOf, Newest, At
<1>7. Asked' = listens
  <2>1. /\ \A k \in ListenAt' : toServer'[k].path \in listens
        /\ \A p \in listens : \E k \in ListenAt' : toServer'[k].path = p
    BY TurnReady DEF Answering, Counted
  <2> QED
    BY <2>1 DEF Asked
<1>8. ListensKnown' /\ DataCurrent' /\ HeldCurrent'
  BY <1>3, <1>6, <1>7 DEF ListensKnown, DataCurrent, HeldCurrent
<1> QED
  BY <1>4, <1>8 DEF Following, InStep

\* A new write is no listen.
LEMMA FollowingPutData ==
  ASSUME Answering, Following, Typed', NEW p \in Paths, NEW val \in Values, PutData(p, val)
  PROVE  Following'
<1>1. /\ Shifted(toServer, toServer', "listen", 0)
      /\ UNCHANGED <<connectionState, listens, cache, toClient, serverListens, db>>
  BY TurnPutData DEF Answering, PutData, stateVars, answerVars, serverVars
<1> SUFFICES ASSUME connectionState = "connected" PROVE InStep'
  BY <1>1 DEF Following
<1>2. InStep
  BY DEF Following
<1>3. Asked' = Asked
  BY <1>1, Named, PathsShifted
<1>4. Told' = Told /\ Refused' = Refused /\ Coming' = Coming
  BY <1>1 DEF Told, ListeningAt, Refused, Coming
<1>5. \A k \in ListenAt' : k \in Nat /\ k + 0 = k
  BY Positions DEF ListenAt, Typed
<1>6. HashesTrue'
  BY <1>1, <1>2, <1>5 DEF InStep, HashesTrue, ListenAt, Shifted, HashOf
<1>7. ListensKnown' /\ DataCurrent'
  BY <1>1, <1>2, <1>3, <1>4 DEF InStep, ListensKnown, DataCurrent
<1>8. HeldCurrent'
  BY <1>1, <1>2, <1>4 DEF InStep, HeldCurrent, HashOf
<1> QED
  BY <1>6, <1>7, <1>8 DEF InStep

\* A new listen is on its way with what the cache holds.
LEMMA FollowingListenTo ==
  ASSUME Answering, Following, Typed', NEW p \in Paths, ListenTo(p)
  PROVE  Following'
<1>1. /\ p \notin listens /\ listens' = listens \cup {p}
      /\ connectionState = "connected" => Added(toServer, toServer', "listen", Listen(p))
      /\ UNCHANGED <<connectionState, cache, toClient, serverListens, db>>
  BY ListenToDoes DEF Answering, ListenTo, stateVars, serverVars
<1> SUFFICES ASSUME connectionState = "connected" PROVE InStep'
  BY <1>1 DEF Following
<1>2. InStep
  BY DEF Following
<1>3. Listen(p).path = p /\ Listen(p).hash = HashOf(cache[p])
  BY DEF Listen
<1>4. Asked' = Asked \cup {p}
  BY <1>1, <1>3, Named, PathsAdded
<1>5. Told' = Told /\ Refused' = Refused /\ Coming' = Coming
  BY <1>1 DEF Told, ListeningAt, Refused, Coming
<1>6. HashesTrue'
  <2> SUFFICES ASSUME NEW k \in ListenAt'
               PROVE  toServer'[k].hash = HashOf(cache[toServer'[k].path])
    BY <1>1 DEF HashesTrue, HashOf
  <2>1. k = Len(toServer') \/ k \in ListenAt
    BY <1>1 DEF Added, ListenAt
  <2>2. CASE k = Len(toServer')
    BY <1>1, <1>3, <2>2 DEF Added
  <2>3. CASE k \in ListenAt
    BY <1>1, <1>2, <2>3 DEF Added, ListenAt, InStep, HashesTrue
  <2> QED
    BY <2>1, <2>2, <2>3
<1>7. ListensKnown'
  BY <1>1, <1>2, <1>4, <1>5 DEF InStep, ListensKnown
<1>8. DataCurrent'
  BY <1>1, <1>2, <1>5 DEF InStep, DataCurrent
<1>9. HeldCurrent'
  BY <1>1, <1>2, <1>5 DEF InStep, HeldCurrent, HashOf
<1> QED
  BY <1>6, <1>7, <1>8, <1>9 DEF InStep

\* A value never has the hash of another, and a hash is its own.
LEMMA Hashes ==
  /\ \A val \in Values : HashOf(val) = val /\ val # Unknown
  /\ \A held \in Values \cup {Unknown} :
       HashOf(held) \in Values /\ HashOf(HashOf(held)) = HashOf(held)
BY PersistentConnectionAssumption DEF HashOf

\* Data comes: if no more is on its way for the leaf, it is what the database has.
LEMMA FollowingReceiveData ==
  ASSUME Answering, Following, Typed', ReceiveData
  PROVE  Following'
<1>1. /\ Removed(toClient, toClient', "data") /\ Shifted(toClient, toClient', "listening", 1)
      /\ Head(toClient) = toClient[1] /\ toClient[1] \in Messages /\ toClient[1].msg = "data"
  BY ArrivesDoes DEF Answering, ReceiveData
<1> DEFINE p == toClient[1].path
           val == toClient[1].val
<1>2. /\ cache' = IF p \in listens THEN [cache EXCEPT ![p] = val] ELSE cache
      /\ UNCHANGED <<connectionState, listens, toServer, serverListens, db>>
  BY <1>1 DEF ReceiveData, stateVars, requestVars, serverVars
<1>3. p \in Paths /\ val \in Values /\ cache \in [Paths -> Values \cup {Unknown}]
  BY <1>1, Kinds DEF Answering, Typed
<1> SUFFICES ASSUME connectionState = "connected" PROVE InStep'
  BY <1>2 DEF Following
<1>4. InStep
  BY DEF Following
<1>5. Coming = Coming' \cup {p}
  BY <1>1, Named, PathsRemoved DEF Coming, Answering, Typed
<1>6. Told' = Told /\ Refused' = Refused
  BY <1>1, Named, PathsShifted, RefusedShifted DEF Refused
<1>7. Asked' = Asked /\ ListenAt' = ListenAt
  BY <1>2 DEF Asked, ListenAt
<1>8. Newest(toClient', db) /\ (p \notin Coming' => val = db[p])
  BY <1>1, <1>4, Named, NewestRemoved DEF InStep, DataCurrent, Answering, Typed
<1>9. p \in listens /\ p \notin Asked
  BY <1>4, <1>5, KnownListens DEF Answering, InStep, DataCurrent
<1> HIDE DEF p, val
<1>10. cache' = [cache EXCEPT ![p] = val] /\ cache'[p] = val
  BY <1>2, <1>3, <1>9
<1>11. HashesTrue'
  <2> SUFFICES ASSUME NEW k \in ListenAt
               PROVE  toServer[k].hash = HashOf(cache'[toServer[k].path])
    BY <1>2, <1>7 DEF HashesTrue, HashOf
  <2>1. toServer[k].path \in Asked /\ toServer[k].path \in Paths
    BY Places DEF Asked, Answering
  <2>2. cache'[toServer[k].path] = cache[toServer[k].path]
    BY <1>3, <1>9, <1>10, <2>1
  <2> QED
    BY <1>4, <2>2 DEF InStep, HashesTrue
<1>12. ListensKnown'
  BY <1>2, <1>4, <1>6, <1>7 DEF InStep, ListensKnown
<1>13. DataCurrent'
  BY <1>2, <1>4, <1>5, <1>8 DEF InStep, DataCurrent
<1>14. HeldCurrent'
  <2> SUFFICES ASSUME NEW q \in serverListens, q \notin Coming'
               PROVE  HashOf(cache'[q]) = db[q] /\ (q \in Told \/ cache'[q] # Unknown)
    BY <1>2, <1>6 DEF HeldCurrent, HashOf
  <2>1. CASE q = p
    BY <1>3, <1>8, <1>10, <2>1, Hashes
  <2>2. CASE q # p
    <3>1. q \in serverListens \ Coming /\ q \in Paths
      BY <1>5, <2>2 DEF Answering, Typed
    <3>2. cache'[q] = cache[q]
      BY <1>3, <1>10, <2>2, <3>1
    <3> QED
      BY <1>4, <3>1, <3>2 DEF InStep, HeldCurrent
  <2> QED
    BY <2>1, <2>2
<1> QED
  BY <1>11, <1>12, <1>13, <1>14 DEF InStep

\* The response to a listen comes: the leaf is known, or no longer listened to.
LEMMA FollowingReceiveListening ==
  ASSUME Answering, Following, Typed', ReceiveListening
  PROVE  Following'
<1>1. /\ Removed(toClient, toClient', "listening") /\ Shifted(toClient, toClient', "data", 1)
      /\ Head(toClient) = toClient[1] /\ toClient[1] \in Messages
      /\ toClient[1].msg = "listening"
  BY ArrivesDoes DEF Answering, ReceiveListening
<1> DEFINE p == toClient[1].path
           ok == toClient[1].ok
<1>2. /\ listens' = IF ok THEN listens ELSE listens \ {p}
      /\ cache' = [cache EXCEPT ![p] = IF ok THEN HashOf(cache[p]) ELSE Unknown]
      /\ UNCHANGED <<connectionState, toServer, serverListens, db>>
  BY <1>1 DEF ReceiveListening, stateVars, serverVars
<1>3. p \in Paths /\ ok \in BOOLEAN /\ cache \in [Paths -> Values \cup {Unknown}]
  BY <1>1, Kinds DEF Answering, Typed
<1> SUFFICES ASSUME connectionState = "connected" PROVE InStep'
  BY <1>2 DEF Following
<1>4. InStep
  BY DEF Following
<1>5. \A k, l \in At(toClient, "listening") : toClient[k].path = toClient[l].path => k = l
  BY DEF Answering, Counted, ListeningAt
<1>6. Told' = Told \ {p} /\ p \in Told
  <2>1. toClient \in Seq(Messages) /\ toClient' \in Seq(Messages)
    BY DEF Answering, Typed
  <2>2. PathsOf(toClient', "listening") = PathsOf(toClient, "listening") \ {p}
    BY <1>1, <1>5, <2>1, PathsRemoved
  <2>3. p \in PathsOf(toClient, "listening")
    BY <1>1, <2>1, PathsRemoved
  <2> QED
    BY <2>2, <2>3, Named
<1>7. Refused' = Refused \ {p} /\ (p \in Refused <=> ok = FALSE)
  BY <1>1, <1>5, Named, RefusedRemoved DEF Refused, Answering, Typed
<1>8. Coming' = Coming /\ Newest(toClient', db)
  BY <1>1, <1>4, Named, PathsShifted, NewestShifted
  DEF Coming, InStep, DataCurrent, Answering, Typed
<1>9. Asked' = Asked /\ ListenAt' = ListenAt
  BY <1>2 DEF Asked, ListenAt
<1>10. p \notin Asked
  BY <1>6 DEF Answering, Counted
<1> HIDE DEF p, ok
<1>11. /\ \A q \in Paths : q # p => cache'[q] = cache[q]
       /\ cache'[p] = IF ok THEN HashOf(cache[p]) ELSE Unknown
  BY <1>2, <1>3
<1>12. HashesTrue'
  <2> SUFFICES ASSUME NEW k \in ListenAt
               PROVE  toServer[k].hash = HashOf(cache'[toServer[k].path])
    BY <1>2, <1>9 DEF HashesTrue, HashOf
  <2>1. toServer[k].path \in Asked /\ toServer[k].path \in Paths
    BY Places DEF Asked, Answering
  <2>2. cache'[toServer[k].path] = cache[toServer[k].path]
    BY <1>10, <1>11, <2>1
  <2> QED
    BY <1>4, <2>2 DEF InStep, HashesTrue
<1>13. ListensKnown'
  <2>1. CASE ok
    BY <1>2, <1>3, <1>4, <1>7, <1>9, <2>1 DEF InStep, ListensKnown
  <2>2. CASE ~ ok
    BY <1>2, <1>3, <1>4, <1>7, <1>9, <2>2 DEF InStep, ListensKnown
  <2> QED
    BY <2>1, <2>2
<1>14. DataCurrent'
  BY <1>2, <1>4, <1>8 DEF InStep, DataCurrent
<1>15. HeldCurrent'
  <2> SUFFICES ASSUME NEW q \in serverListens, q \notin Coming
               PROVE  HashOf(cache'[q]) = db[q] /\ (q \in Told' \/ cache'[q] # Unknown)
    BY <1>2, <1>8 DEF HeldCurrent, HashOf
  <2>1. q \in Paths /\ HashOf(cache[q]) = db[q] /\ (q \in Told \/ cache[q] # Unknown)
    BY <1>4 DEF InStep, HeldCurrent, Answering, Typed
  <2>2. CASE q = p
    <3>1. ok
      BY <1>3, <1>4, <1>7, <2>2, KnownListens DEF Answering
    <3> QED
      BY <1>3, <1>11, <2>1, <2>2, <3>1, Hashes
  <2>3. CASE q # p
    BY <1>6, <1>11, <2>1, <2>3
  <2> QED
    BY <2>2, <2>3
<1> QED
  BY <1>12, <1>13, <1>14, <1>15 DEF InStep

\* The answer to a write comes.
LEMMA FollowingReceiveAnswer ==
  ASSUME Answering, Following, Typed', ReceiveAnswer
  PROVE  Following'
<1>1. Shifted(toClient, toClient', "data", 1) /\ Shifted(toClient, toClient', "listening", 1)
  BY ArrivesDoes DEF Answering, ReceiveAnswer
<1>2. UNCHANGED <<connectionState, listens, cache, toServer, serverListens, db>>
  BY DEF ReceiveAnswer, stateVars, serverVars
<1> SUFFICES ASSUME connectionState = "connected" PROVE InStep'
  BY <1>2 DEF Following
<1>3. InStep
  BY DEF Following
<1>4. Told' = Told /\ Refused' = Refused
  BY <1>1, Named, PathsShifted, RefusedShifted DEF Refused
<1>5. Coming' = Coming /\ Newest(toClient', db)
  BY <1>1, <1>3, Named, PathsShifted, NewestShifted
  DEF Coming, InStep, DataCurrent, Answering, Typed
<1>6. Asked' = Asked /\ ListenAt' = ListenAt
  BY <1>2 DEF Asked, ListenAt
<1>7. HashesTrue' /\ ListensKnown'
  BY <1>2, <1>3, <1>4, <1>6 DEF InStep, HashesTrue, ListensKnown, HashOf
<1>8. DataCurrent' /\ HeldCurrent'
  BY <1>2, <1>3, <1>4, <1>5 DEF InStep, DataCurrent, HeldCurrent, HashOf
<1> QED
  BY <1>7, <1>8 DEF InStep

\* What the server does to the data when a leaf is written: data follows if the
\* leaf is listened to.
LEMMA Written ==
  ASSUME Answering, InStep, NEW p \in Paths, NEW val \in Values,
         db' = [db EXCEPT ![p] = val],
         UNCHANGED <<cache, serverListens>>, Told' = Told,
         Coming' = Coming \cup (IF p \in serverListens THEN {p} ELSE {}),
         Newest(toClient', db')
  PROVE  DataCurrent' /\ HeldCurrent'
<1>1. DataCurrent'
  BY DEF InStep, DataCurrent
<1>2. HeldCurrent'
  <2> SUFFICES ASSUME NEW q \in serverListens, q \notin Coming'
               PROVE  HashOf(cache[q]) = db'[q] /\ (q \in Told \/ cache[q] # Unknown)
    BY DEF HeldCurrent, HashOf
  <2>1. q # p /\ q \notin Coming /\ q \in Paths
    BY DEF Answering, Typed
  <2>2. db'[q] = db[q]
    BY <2>1 DEF Answering, Typed
  <2> QED
    BY <2>1, <2>2 DEF InStep, HeldCurrent
<1> QED
  BY <1>1, <1>2

\* The server handles a write.
LEMMA FollowingServePut ==
  ASSUME IInv, Answering, Following, Typed', ServePut
  PROVE  Following'
<1>1. /\ toServer # <<>> /\ Head(toServer) \in Requests /\ Head(toServer).msg = "put"
      /\ Head(toServer) = toServer[1]
  BY HeadTailProperties DEF ServePut, Answering, Typed
<1> DEFINE p == toServer[1].path
           val == toServer[1].val
           i == toServer[1].index
<1>2. i \in Nat /\ p \in Paths /\ val \in Values
  BY <1>1, Kinds
<1>3. UNCHANGED <<connectionState, listens, cache, serverListens>>
  BY DEF ServePut, stateVars, requestVars, answerVars
<1> SUFFICES ASSUME connectionState = "connected" PROVE InStep'
  BY <1>3 DEF Following
<1>4. InStep
  BY DEF Following
<1>5. Shifted(toServer, toServer', "listen", 1) /\ Shifted(toClient, toClient', "listening", 0)
  BY ServePutDoes DEF Answering
<1>6. PICK ok \in Verdicts :
        /\ db' = IF ok THEN [db EXCEPT ![p] = val] ELSE db
        /\ Reply((IF ok THEN Push(p, val) ELSE <<>>) \o <<PutAnswer(i, ok)>>)
  BY <1>1 DEF ServePut
<1>7. ok \in BOOLEAN
  BY PersistentConnectionAssumption
<1> DEFINE b == ok /\ p \in serverListens
           x == PutAnswer(i, ok)
<1>8. toClient' = toClient \o ((IF b THEN <<Data(p, val)>> ELSE <<>>) \o <<x>>)
  <2> DEFINE t == (IF b THEN <<Data(p, val)>> ELSE <<>>) \o <<x>>
  <2>1. Reply(t)
    BY <1>6 DEF Push
  <2> HIDE DEF t
  <2>2. toClient' = toClient \o t
    BY <2>1, ReplyDoes
  <2> QED
    BY <2>2 DEF t
<1>9. x \in Messages /\ x.msg # "data"
  BY <1>2, <1>7, MessagesMade
<1>10. toClient \in Seq(Messages) /\ Newest(toClient, db) /\ Coming \subseteq serverListens
       /\ db \in [Paths -> Values] /\ serverListens \subseteq Paths
  BY <1>4 DEF Answering, Typed, InStep, DataCurrent
<1> HIDE DEF p, val, i, x
<1>11. /\ ok => db'[p] = val /\ \A q \in Paths : q # p => db'[q] = db[q]
       /\ ~ ok => db' = db
  BY <1>2, <1>6, <1>10
<1>12. Coming' = Coming \cup (IF b THEN {p} ELSE {}) /\ Newest(toClient', db')
  <2>1. CASE b
    <3>1. db'[p] = val /\ \A q \in PathsOf(toClient, "data") : q # p => db'[q] = db[q]
      BY <1>10, <1>11, <2>1 DEF Coming
    <3>2. toClient' = toClient \o (<<Data(p, val)>> \o <<x>>)
      BY <1>8, <2>1
    <3>3. /\ PathsOf(toClient', "data") = PathsOf(toClient, "data") \cup {p}
          /\ Newest(toClient', db')
      <4> DEFINE d == Data(p, val)
      <4>1. d \in Messages /\ d.msg = "data" /\ d.path = p /\ d.val = val
        BY <1>2, DataIs
      <4>2. toClient' = toClient \o (<<d>> \o <<x>>)
        BY <3>2
      <4> HIDE DEF d
      <4> QED
        BY <1>9, <1>10, <3>1, <4>1, <4>2, ReplyBrings
    <3> QED
      BY <2>1, <3>3, Named DEF Coming
  <2>2. CASE ~ b
    <3>1. \A q \in PathsOf(toClient, "data") : db'[q] = db[q]
      BY <1>10, <1>11, <2>2 DEF Coming
    <3>2. toClient' = toClient \o (<<>> \o <<x>>)
      BY <1>8, <2>2
    <3>3. PathsOf(toClient', "data") = PathsOf(toClient, "data") /\ Newest(toClient', db')
      BY <1>9, <1>10, <3>1, <3>2, ReplyBringsNone
    <3> QED
      BY <2>2, <3>3, Named DEF Coming
  <2> QED
    BY <2>1, <2>2
<1>13. Asked' = Asked /\ Told' = Told /\ Refused' = Refused
  BY <1>5, Named, PathsShifted, RefusedShifted DEF Refused
<1>14. HashesTrue'
  BY <1>3, <1>4, <1>5 DEF InStep, HashesTrue, ListenAt, Shifted, HashOf
<1>15. ListensKnown'
  BY <1>3, <1>4, <1>13 DEF InStep, ListensKnown
<1>16. DataCurrent' /\ HeldCurrent'
  <2>1. CASE ok
    BY <1>2, <1>3, <1>4, <1>6, <1>12, <1>13, <2>1, Written
  <2>2. CASE ~ ok
    BY <1>3, <1>4, <1>11, <1>12, <1>13, <2>2 DEF InStep, DataCurrent, HeldCurrent, HashOf
  <2> QED
    BY <2>1, <2>2
<1> QED
  BY <1>14, <1>15, <1>16 DEF InStep

\* Others write.
LEMMA FollowingRemoteWrite ==
  ASSUME IInv, Answering, Following, Typed', NEW p \in Paths, NEW val \in Values,
         RemoteWrite(p, val)
  PROVE  Following'
<1>1. /\ db' = [db EXCEPT ![p] = val] /\ Reply(Push(p, val))
      /\ UNCHANGED <<connectionState, listens, cache, toServer, serverListens>>
  BY DEF RemoteWrite, stateVars, requestVars, answerVars
<1> SUFFICES ASSUME connectionState = "connected" PROVE InStep'
  BY <1>1 DEF Following
<1>2. InStep
  BY DEF Following
<1>3. Shifted(toClient, toClient', "listening", 0)
  BY RemoteWriteDoes DEF Answering
<1>4. toClient' = toClient \o Push(p, val)
  BY <1>1, ReplyDoes
<1>5. toClient \in Seq(Messages) /\ Newest(toClient, db) /\ Coming \subseteq serverListens
      /\ db \in [Paths -> Values] /\ serverListens \subseteq Paths
  BY <1>2 DEF Answering, Typed, InStep, DataCurrent
<1>6. db'[p] = val /\ \A q \in Paths : q # p => db'[q] = db[q]
  BY <1>1, <1>5
<1>7. /\ Coming' = Coming \cup (IF p \in serverListens THEN {p} ELSE {})
      /\ Newest(toClient', db')
  <2>1. CASE p \in serverListens
    <3>1. toClient' = toClient \o <<Data(p, val)>>
      BY <1>4, <2>1 DEF Push
    <3>2. \A q \in PathsOf(toClient, "data") : q # p => db'[q] = db[q]
      BY <1>5, <1>6 DEF Coming
    <3>3. PathsOf(toClient', "data") = PathsOf(toClient, "data") \cup {p}
          /\ Newest(toClient', db')
      BY <1>5, <1>6, <3>1, <3>2, DataIs, DataBehind
    <3> QED
      BY <2>1, <3>3, Named DEF Coming
  <2>2. CASE p \notin serverListens
    <3>1. toClient' = toClient
      BY <1>4, <1>5, <2>2, ConcatEmptySeq DEF Push
    <3>2. \A q \in PathsOf(toClient, "data") : db'[q] = db[q]
      BY <1>5, <1>6, <2>2 DEF Coming
    <3>3. Newest(toClient, db')
      BY <1>5, <3>2, NewestKept
    <3> QED
      BY <2>2, <3>1, <3>3 DEF Coming
  <2> QED
    BY <2>1, <2>2
<1>8. Told' = Told /\ Refused' = Refused
  BY <1>3, Named, PathsShifted, RefusedShifted DEF Refused
<1>9. Asked' = Asked /\ ListenAt' = ListenAt
  BY <1>1 DEF Asked, ListenAt
<1>10. HashesTrue' /\ ListensKnown'
  BY <1>1, <1>2, <1>8, <1>9 DEF InStep, HashesTrue, ListensKnown, HashOf
<1>11. DataCurrent' /\ HeldCurrent'
  BY <1>1, <1>2, <1>7, <1>8, Written
<1> QED
  BY <1>10, <1>11 DEF InStep

\* The server handles a listen: it sends what the client does not hold.
LEMMA FollowingServeListen ==
  ASSUME IInv, Answering, Following, Typed', ServeListen
  PROVE  Following'
<1>1. /\ toServer # <<>> /\ Head(toServer) \in Requests /\ Head(toServer).msg = "listen"
      /\ Head(toServer) = toServer[1]
  BY HeadTailProperties DEF ServeListen, Answering, Typed
<1> DEFINE p == toServer[1].path
           h == toServer[1].hash
<1>2. UNCHANGED <<connectionState, listens, cache, db>>
  BY DEF ServeListen, stateVars, requestVars, answerVars
<1> SUFFICES ASSUME connectionState = "connected" PROVE InStep'
  BY <1>2 DEF Following
<1>3. InStep
  BY DEF Following
<1>4. /\ toClient \in Seq(Messages) /\ toServer \in Seq(Requests) /\ toServer' \in Seq(Requests)
      /\ Newest(toClient, db) /\ Coming \subseteq serverListens
      /\ db \in [Paths -> Values] /\ serverListens \subseteq Paths
  BY <1>3 DEF Answering, Typed, InStep, DataCurrent
<1>5. p \in Paths /\ db[p] \in Values
  BY <1>1, <1>4, Kinds
<1>6. Removed(toServer, toServer', "listen")
  BY ServeListenDoes DEF Answering
<1>7. h = HashOf(cache[p])
  BY <1>3, <1>6 DEF InStep, HashesTrue, Removed, ListenAt
<1>8. Asked' = Asked \ {p} /\ p \in Asked
  <2>1. \A k, l \in At(toServer, "listen") : toServer[k].path = toServer[l].path => k = l
    BY DEF Answering, Counted, ListenAt
  <2>2. PathsOf(toServer', "listen") = PathsOf(toServer, "listen") \ {p}
    BY <1>4, <1>6, <2>1, PathsRemoved
  <2>3. p \in PathsOf(toServer, "listen")
    BY <1>4, <1>6, PathsRemoved
  <2> QED
    BY <2>2, <2>3, Named
<1>9. p \in listens /\ p \notin Refused /\ p \notin serverListens /\ p \notin Coming
  BY <1>3, <1>4, <1>8, KnownListens DEF Answering, Counted
<1>10. PICK ok \in ListenVerdicts :
         /\ serverListens' = IF ok THEN serverListens \cup {p} ELSE serverListens
         /\ Reply((IF ok /\ h # db[p] THEN <<Data(p, db[p])>> ELSE <<>>)
                    \o <<ListenAnswer(p, ok)>>)
  BY <1>1 DEF ServeListen
<1>11. ok \in BOOLEAN
  BY PersistentConnectionAssumption
<1> DEFINE b == ok /\ h # db[p]
           x == ListenAnswer(p, ok)
           t == (IF b THEN <<Data(p, db[p])>> ELSE <<>>) \o <<x>>
<1>12. toClient' = toClient \o t
  <2>1. Reply(t)
    BY <1>10
  <2> HIDE DEF t
  <2> QED
    BY <2>1, ReplyDoes
<1>13. x \in Messages /\ x.msg = "listening" /\ x.path = p /\ x.ok = ok
  BY <1>5, <1>11, MessagesMade DEF ListenAnswer
<1> HIDE DEF p, h, x
<1>14. Added(toClient, toClient', "listening", x)
  <2>1. t = (IF b THEN <<Data(p, db[p])>> ELSE <<>>) \o <<x>>
    OBVIOUS
  <2> HIDE DEF t, b
  <2>2. /\ t \in Seq(Messages) /\ t # <<>> /\ t[Len(t)] = x
        /\ \A k \in 1..Len(t) : k # Len(t) => t[k].msg = "data"
    BY <1>5, <1>13, <2>1, ReplyShape
  <2>3. Added(toClient, toClient \o t, "listening", t[Len(t)])
    BY <1>4, <1>13, <2>2, ConcatAdds
  <2> QED
    BY <1>12, <2>2, <2>3
<1>15. Told' = Told \cup {p} /\ Refused' = Refused \cup (IF ok = FALSE THEN {p} ELSE {})
  <2>1. PathsOf(toClient', "listening") = PathsOf(toClient, "listening") \cup {x.path}
    BY <1>14, PathsAdded
  <2>2. RefusedIn(toClient')
          = RefusedIn(toClient) \cup (IF x.ok = FALSE THEN {x.path} ELSE {})
    BY <1>14, RefusedAdded
  <2> QED
    BY <1>13, <2>1, <2>2, Named DEF Refused
<1>16. Coming' = Coming \cup (IF b THEN {p} ELSE {}) /\ Newest(toClient', db)
  <2>1. CASE b
    <3>1. toClient' = toClient \o (<<Data(p, db[p])>> \o <<x>>)
      BY <1>12, <2>1
    <3>2. /\ PathsOf(toClient', "data") = PathsOf(toClient, "data") \cup {p}
          /\ Newest(toClient', db)
      <4> DEFINE d == Data(p, db[p])
      <4>1. d \in Messages /\ d.msg = "data" /\ d.path = p /\ d.val = db[p]
        BY <1>4, <1>5, DataIs
      <4>2. toClient' = toClient \o (<<d>> \o <<x>>)
        BY <3>1
      <4> HIDE DEF d
      <4> QED
        BY <1>4, <1>13, <4>1, <4>2, ReplyBrings
    <3> QED
      BY <2>1, <3>2, Named DEF Coming
  <2>2. CASE ~ b
    <3>1. toClient' = toClient \o (<<>> \o <<x>>)
      BY <1>12, <2>2
    <3>2. PathsOf(toClient', "data") = PathsOf(toClient, "data") /\ Newest(toClient', db)
      BY <1>4, <1>13, <3>1, ReplyBringsNone
    <3> QED
      BY <2>2, <3>2, Named DEF Coming
  <2> QED
    BY <2>1, <2>2
<1>17. HashesTrue'
  BY <1>2, <1>3, <1>6 DEF InStep, HashesTrue, ListenAt, Removed, HashOf
<1>18. ListensKnown'
  <2>1. CASE ok
    BY <1>2, <1>3, <1>8, <1>9, <1>10, <1>15, <2>1 DEF InStep, ListensKnown
  <2>2. CASE ~ ok
    BY <1>2, <1>3, <1>8, <1>9, <1>10, <1>11, <1>15, <2>2 DEF InStep, ListensKnown
  <2> QED
    BY <2>1, <2>2
<1>19. DataCurrent'
  BY <1>2, <1>4, <1>10, <1>16 DEF DataCurrent
<1>20. HeldCurrent'
  <2> SUFFICES ASSUME NEW q \in serverListens', q \notin Coming'
               PROVE  HashOf(cache[q]) = db[q] /\ (q \in Told' \/ cache[q] # Unknown)
    BY <1>2 DEF HeldCurrent, HashOf
  <2>1. CASE q = p
    BY <1>7, <1>9, <1>10, <1>15, <1>16, <2>1
  <2>2. CASE q # p
    BY <1>3, <1>10, <1>15, <1>16, <2>2 DEF InStep, HeldCurrent
  <2> QED
    BY <2>1, <2>2
<1> QED
  BY <1>17, <1>18, <1>19, <1>20 DEF InStep

-----------------------------------------------------------------------------
(* Theorems.                                                               *)

\* Connecting, and losing the connection.
LEMMA FollowingConnection ==
  ASSUME IInv, Answering, Following, Typed', Connect \/ Disconnect \/ Resumed
  PROVE  Following'
<1>1. CASE Retry \/ \E attempt \in fetches : TokenFetched(attempt)
  <2>1. /\ UNCHANGED <<listens, cache, toServer, toClient, serverListens, db>>
        /\ connectionState' = "connected" => connectionState = "connected"
    BY <1>1 DEF Retry, TokenFetched, requestVars, answerVars, serverVars
  <2> QED
    BY <2>1, FollowingQuiet
<1>2. CASE Ready
  BY <1>2, FollowingReady
<1>3. CASE Disconnect
  <2>1. connectionState' = "disconnected"
    BY <1>3, DownDoes DEF Answering
  <2> QED
    BY <2>1 DEF Following
<1>4. CASE Resumed
  <2>1. UNCHANGED <<connectionState, listens, cache, toServer, toClient, serverListens, db>>
    BY <1>4 DEF Resumed, Open, GoOnline, Back, Resume, requestVars, answerVars, serverVars
  <2> QED
    BY <2>1, FollowingQuiet
<1> QED
  BY <1>1, <1>2, <1>3, <1>4 DEF Connect

\* The inductive invariant of the cache.
THEOREM FollowingInvariant == Spec => []Following
<1>1. Init => Following
  BY DEF Init, Following
<1>2. Following /\ IInv /\ Answering /\ Answering' /\ [Next]_vars => Following'
  <2> SUFFICES ASSUME Following, IInv, Answering, Answering', [Next]_vars PROVE Following'
    OBVIOUS
  <2>1. Typed'
    BY DEF Answering
  <2>2. CASE UNCHANGED vars
    <3>1. UNCHANGED <<connectionState, listens, cache, toServer, toClient, serverListens, db>>
      BY <2>2 DEF vars, stateVars, requestVars, answerVars, serverVars
    <3> QED
      BY <3>1, FollowingQuiet
  <2>3. CASE Connect \/ Disconnect \/ Resumed
    BY <2>1, <2>3, FollowingConnection
  <2>4. CASE Request
    BY <2>1, <2>4, FollowingPutData, FollowingListenTo DEF Request
  <2>5. CASE Receive
    BY <2>1, <2>5, FollowingReceiveData, FollowingReceiveListening, FollowingReceiveAnswer
    DEF Receive
  <2>6. CASE Serve
    BY <2>1, <2>6, FollowingServePut, FollowingServeListen DEF Serve
  <2>7. CASE \E p \in Paths, val \in Values : RemoteWrite(p, val)
    BY <2>1, <2>7, FollowingRemoteWrite
  <2> QED
    BY <2>2, <2>3, <2>4, <2>5, <2>6, <2>7 DEF Next
<1> QED
  BY <1>1, <1>2, AnswersInvariant, PTL DEF Spec

\* However the connection is lost and taken up again, and whatever is written
\* meanwhile, a leaf that is listened to is held as the database has it once
\* nothing is on its way: what the server leaves out because of the hash of a
\* listen is what the cache holds.
THEOREM Current == Spec => []CacheCurrent
<1>1. Answering /\ Following => CacheCurrent
  <2> SUFFICES ASSUME Answering, Following, connectionState = "connected",
                      toServer = <<>>, toClient = <<>>, NEW p \in listens
               PROVE  cache[p] = db[p]
    BY DEF CacheCurrent
  <2>1. InStep
    BY DEF Following
  <2>2. Len(toServer) = 0 /\ Len(toClient) = 0
    OBVIOUS
  <2>3. Asked = {} /\ Told = {} /\ Refused = {} /\ Coming = {}
    BY <2>2 DEF Asked, ListenAt, Told, ListeningAt, Refused, RefusedIn, RefusalAt, Coming,
                PathsOf, At
  <2>4. HashOf(cache[p]) = db[p] /\ cache[p] # Unknown
    BY <2>1, <2>3 DEF InStep, ListensKnown, HeldCurrent
  <2> QED
    BY <2>4 DEF HashOf
<1> QED
  BY <1>1, AnswersInvariant, FollowingInvariant, PTL
=============================================================================
