--------------------------- MODULE ChannelProofs ---------------------------
(***************************************************************************)
(* Lemmas about a channel, a sequence of messages of several kinds: where  *)
(* the messages of a kind are, what paths they are about, and which data   *)
(* is the newest, when a message is taken from the head or put behind.     *)
(***************************************************************************)
EXTENDS Integers, Sequences, FiniteSets, FiniteSetTheorems,
        FunctionTheorems, SequenceTheorems, TLAPS

\* Where the messages of a kind are in a channel.
At(s, m) == {k \in 1..Len(s) : s[k].msg = m}

\* The paths that the messages of a kind are about.
PathsOf(s, m) == {s[k].path : k \in At(s, m)}

\* The last data of each path that is on its way is what f has for the path.
Newest(s, f) ==
  \A k \in At(s, "data") :
    (\A l \in At(s, "data") : s[l].path = s[k].path => l <= k)
      => s[k].val = f[s[k].path]

\* A function on 1..n is a sequence.
LEMMA FunctionIsSeq ==
  ASSUME NEW S, NEW n \in Nat, NEW f \in [1..n -> S]
  PROVE  f \in Seq(S) /\ Len(f) = n
<1>1. f \in Seq(S)
  BY SeqDef
<1>2. Len(f) \in Nat /\ DOMAIN f = 1..Len(f)
  BY <1>1, LenProperties
<1> QED
  BY <1>1, <1>2

-----------------------------------------------------------------------------
(* What a step does to the messages of one kind in a channel.              *)

\* They stay, d places nearer to its head.
Shifted(s, t, m, d) ==
  /\ \A k \in At(t, m) : k + d \in At(s, m) /\ t[k] = s[k + d]
  /\ \A k \in At(s, m) : k - d \in At(t, m) /\ t[k - d] = s[k]

\* They stay, and x comes after them.
Added(s, t, m, x) ==
  /\ \A k \in At(s, m) : k \in At(t, m) /\ t[k] = s[k] /\ k < Len(t)
  /\ Len(t) \in At(t, m) /\ t[Len(t)] = x
  /\ \A k \in At(t, m) : k = Len(t) \/ k \in At(s, m)

\* The first of them, at the head, goes.
Removed(s, t, m) ==
  /\ 1 \in At(s, m)
  /\ \A k \in At(t, m) : k + 1 \in At(s, m) /\ t[k] = s[k + 1]
  /\ \A k \in At(s, m) : k = 1 \/ (k - 1 \in At(t, m) /\ t[k - 1] = s[k])

\* A position is a number.
LEMMA Positions ==
  ASSUME NEW S, NEW s \in Seq(S), NEW m
  PROVE  /\ \A k \in At(s, m) : k \in Nat /\ k >= 1 /\ k <= Len(s) /\ s[k].msg = m
         /\ \A k \in At(s, m) : s[k] \in S
<1>1. Len(s) \in Nat
  BY LenProperties
<1> QED
  BY <1>1, ElementOfSeq DEF At

\* Nothing happens.
LEMMA SameShifts ==
  ASSUME NEW S, NEW s \in Seq(S), NEW m
  PROVE  Shifted(s, s, m, 0)
<1>1. \A k \in At(s, m) : k \in Nat
  BY Positions
<1> QED
  BY <1>1 DEF Shifted

\* The head is taken: of another kind,
LEMMA TailShifts ==
  ASSUME NEW S, NEW s \in Seq(S), s # <<>>, NEW m, Head(s).msg # m
  PROVE  Shifted(s, Tail(s), m, 1)
<1>1. /\ Len(s) \in Nat /\ Len(Tail(s)) = Len(s) - 1 /\ Head(s) = s[1]
      /\ \A k \in 1..Len(Tail(s)) : Tail(s)[k] = s[k + 1]
  BY HeadTailProperties, LenProperties
<1>2. \A k \in At(Tail(s), m) : k + 1 \in At(s, m) /\ Tail(s)[k] = s[k + 1]
  BY <1>1 DEF At
<1>3. ASSUME NEW k \in At(s, m) PROVE k - 1 \in At(Tail(s), m) /\ Tail(s)[k - 1] = s[k]
  <2>1. k \in 1..Len(s) /\ s[k].msg = m /\ k # 1
    BY <1>1 DEF At
  <2>2. k - 1 \in 1..Len(Tail(s)) /\ (k - 1) + 1 = k
    BY <1>1, <2>1
  <2> QED
    BY <1>1, <2>1, <2>2 DEF At
<1> QED
  BY <1>2, <1>3 DEF Shifted

\* or of this one.
LEMMA TailRemoves ==
  ASSUME NEW S, NEW s \in Seq(S), s # <<>>, NEW m, Head(s).msg = m
  PROVE  Removed(s, Tail(s), m)
<1>1. /\ Len(s) \in Nat /\ Len(Tail(s)) = Len(s) - 1 /\ Head(s) = s[1] /\ Len(s) > 0
      /\ \A k \in 1..Len(Tail(s)) : Tail(s)[k] = s[k + 1]
  BY HeadTailProperties, LenProperties, EmptySeq
<1>2. \A k \in At(Tail(s), m) : k + 1 \in At(s, m) /\ Tail(s)[k] = s[k + 1]
  BY <1>1 DEF At
<1>3. ASSUME NEW k \in At(s, m), k # 1
      PROVE k - 1 \in At(Tail(s), m) /\ Tail(s)[k - 1] = s[k]
  <2>1. k \in 1..Len(s) /\ s[k].msg = m
    BY DEF At
  <2>2. k - 1 \in 1..Len(Tail(s)) /\ (k - 1) + 1 = k
    BY <1>1, <1>3, <2>1
  <2> QED
    BY <1>1, <2>1, <2>2 DEF At
<1>4. 1 \in At(s, m)
  BY <1>1 DEF At
<1> QED
  BY <1>2, <1>3, <1>4 DEF Removed

\* Messages of other kinds come behind.
LEMMA ConcatShifts ==
  ASSUME NEW S, NEW s \in Seq(S), NEW t \in Seq(S), NEW m,
         \A k \in 1..Len(t) : t[k].msg # m
  PROVE  Shifted(s, s \o t, m, 0)
<1>1. /\ Len(s) \in Nat /\ Len(t) \in Nat /\ Len(s \o t) = Len(s) + Len(t)
      /\ \A k \in 1..Len(s) : (s \o t)[k] = s[k]
      /\ \A k \in (Len(s) + 1)..(Len(s) + Len(t)) : (s \o t)[k] = t[k - Len(s)]
  BY ConcatProperties, LenProperties
<1>2. ASSUME NEW k \in At(s \o t, m) PROVE k \in At(s, m) /\ (s \o t)[k] = s[k]
  <2>1. k \in 1..(Len(s) + Len(t)) /\ (s \o t)[k].msg = m
    BY <1>1 DEF At
  <2>2. k \in 1..Len(s)
    <3>1. SUFFICES ASSUME k \notin 1..Len(s) PROVE FALSE
      OBVIOUS
    <3>2. k \in (Len(s) + 1)..(Len(s) + Len(t)) /\ k - Len(s) \in 1..Len(t)
      BY <1>1, <2>1, <3>1
    <3> QED
      BY <1>1, <2>1, <3>2
  <2> QED
    BY <1>1, <2>1, <2>2 DEF At
<1>3. \A k \in At(s, m) : k \in At(s \o t, m) /\ (s \o t)[k] = s[k]
  BY <1>1 DEF At
<1>4. \A k \in At(s, m) \cup At(s \o t, m) : k + 0 = k /\ k - 0 = k
  BY <1>1 DEF At
<1> QED
  BY <1>2, <1>3, <1>4 DEF Shifted

\* Messages come behind of which only the last is of this kind.
LEMMA ConcatAdds ==
  ASSUME NEW S, NEW s \in Seq(S), NEW t \in Seq(S), t # <<>>, NEW m,
         t[Len(t)].msg = m,
         \A k \in 1..Len(t) : k # Len(t) => t[k].msg # m
  PROVE  Added(s, s \o t, m, t[Len(t)])
<1>1. /\ Len(s) \in Nat /\ Len(t) \in Nat /\ Len(t) > 0
      /\ Len(s \o t) = Len(s) + Len(t)
      /\ \A k \in 1..Len(s) : (s \o t)[k] = s[k]
      /\ \A k \in (Len(s) + 1)..(Len(s) + Len(t)) : (s \o t)[k] = t[k - Len(s)]
  BY ConcatProperties, LenProperties, EmptySeq
<1>2. \A k \in At(s, m) : k \in At(s \o t, m) /\ (s \o t)[k] = s[k] /\ k < Len(s \o t)
  BY <1>1 DEF At
<1>3. Len(s \o t) \in At(s \o t, m) /\ (s \o t)[Len(s \o t)] = t[Len(t)]
  <2>1. (Len(s) + Len(t)) - Len(s) = Len(t)
    BY <1>1
  <2>2. Len(s) + Len(t) \in (Len(s) + 1)..(Len(s) + Len(t))
    BY <1>1
  <2>3. (s \o t)[Len(s) + Len(t)] = t[Len(t)]
    BY <1>1, <2>1, <2>2
  <2> QED
    BY <1>1, <2>3 DEF At
<1>4. ASSUME NEW k \in At(s \o t, m), k # Len(s \o t) PROVE k \in At(s, m)
  <2>1. k \in 1..(Len(s) + Len(t)) /\ (s \o t)[k].msg = m /\ k # Len(s) + Len(t)
    BY <1>1, <1>4 DEF At
  <2>2. k \in 1..Len(s)
    <3>1. SUFFICES ASSUME k \notin 1..Len(s) PROVE FALSE
      OBVIOUS
    <3>2. /\ k \in (Len(s) + 1)..(Len(s) + Len(t)) /\ k - Len(s) \in 1..Len(t)
          /\ k - Len(s) # Len(t)
      BY <1>1, <2>1, <3>1
    <3> QED
      BY <1>1, <2>1, <3>2
  <2> QED
    BY <1>1, <2>1, <2>2 DEF At
<1> QED
  BY <1>2, <1>3, <1>4 DEF Added

\* One message of this kind or another comes behind.
LEMMA AppendAdds ==
  ASSUME NEW S, NEW s \in Seq(S), NEW x \in S, NEW m
  PROVE  /\ x.msg = m => Added(s, Append(s, x), m, x)
         /\ x.msg # m => Shifted(s, Append(s, x), m, 0)
<1>1. /\ Len(s) \in Nat /\ Len(Append(s, x)) = Len(s) + 1
      /\ \A k \in 1..Len(s) : Append(s, x)[k] = s[k]
      /\ Append(s, x)[Len(s) + 1] = x
  BY AppendProperties, LenProperties
<1>2. \A k \in At(s, m) : k \in At(Append(s, x), m) /\ Append(s, x)[k] = s[k] /\ k < Len(s) + 1
  BY <1>1 DEF At
<1>3. \A k \in At(Append(s, x), m) : k = Len(s) + 1 \/ k \in At(s, m)
  BY <1>1 DEF At
<1>4. CASE x.msg = m
  <2>1. Len(s) + 1 \in At(Append(s, x), m)
    BY <1>1, <1>4 DEF At
  <2> QED
    BY <1>1, <1>2, <1>3, <1>4, <2>1 DEF Added
<1>5. CASE x.msg # m
  <2>1. Len(s) + 1 \notin At(Append(s, x), m)
    BY <1>1, <1>5 DEF At
  <2>2. \A k \in At(s, m) \cup At(Append(s, x), m) : k + 0 = k /\ k - 0 = k
    BY <1>1 DEF At
  <2> QED
    BY <1>2, <1>3, <1>5, <2>1, <2>2 DEF Shifted
<1> QED
  BY <1>4, <1>5

-----------------------------------------------------------------------------
(* What it does to the paths that messages are about.                      *)

\* They stay when the messages stay,
LEMMA PathsShifted ==
  ASSUME NEW s, NEW t, NEW m, NEW d, Shifted(s, t, m, d)
  PROVE  PathsOf(t, m) = PathsOf(s, m)
<1>1. \A p \in PathsOf(t, m) : p \in PathsOf(s, m)
  BY DEF PathsOf, Shifted
<1>2. \A p \in PathsOf(s, m) : p \in PathsOf(t, m)
  BY DEF PathsOf, Shifted
<1> QED
  BY <1>1, <1>2

\* are one more when a message comes behind,
LEMMA PathsAdded ==
  ASSUME NEW s, NEW t, NEW m, NEW x, Added(s, t, m, x)
  PROVE  PathsOf(t, m) = PathsOf(s, m) \cup {x.path}
<1>1. \A p \in PathsOf(t, m) : p \in PathsOf(s, m) \cup {x.path}
  BY DEF PathsOf, Added
<1>2. \A p \in PathsOf(s, m) \cup {x.path} : p \in PathsOf(t, m)
  BY DEF PathsOf, Added
<1> QED
  BY <1>1, <1>2

\* and one less, or as many, when the first is taken.
LEMMA PathsRemoved ==
  ASSUME NEW S, NEW s \in Seq(S), NEW t \in Seq(S), NEW m, Removed(s, t, m)
  PROVE  /\ PathsOf(s, m) = PathsOf(t, m) \cup {s[1].path}
         /\ (\A k, l \in At(s, m) : s[k].path = s[l].path => k = l)
              => PathsOf(t, m) = PathsOf(s, m) \ {s[1].path}
<1>1. \A p \in PathsOf(s, m) : p \in PathsOf(t, m) \cup {s[1].path}
  BY DEF PathsOf, Removed
<1>2. \A p \in PathsOf(t, m) \cup {s[1].path} : p \in PathsOf(s, m)
  BY DEF PathsOf, Removed
<1>3. ASSUME \A k, l \in At(s, m) : s[k].path = s[l].path => k = l
      PROVE  s[1].path \notin PathsOf(t, m)
  <2> SUFFICES ASSUME NEW k \in At(t, m), t[k].path = s[1].path PROVE FALSE
    BY DEF PathsOf
  <2>1. k \in Nat /\ k >= 1
    BY Positions
  <2>2. k + 1 \in At(s, m) /\ 1 \in At(s, m) /\ s[k + 1].path = s[1].path
    BY DEF Removed
  <2>3. k + 1 = 1
    BY <1>3, <2>2
  <2> QED
    BY <2>1, <2>3
<1> QED
  BY <1>1, <1>2, <1>3

-----------------------------------------------------------------------------
(* What a step does to the newest data.                                    *)

\* The data stays.
LEMMA NewestShifted ==
  ASSUME NEW S, NEW s \in Seq(S), NEW t \in Seq(S), NEW d \in Int,
         Shifted(s, t, "data", d), NEW f, Newest(s, f)
  PROVE  Newest(t, f)
<1> SUFFICES ASSUME NEW k \in At(t, "data"),
                    \A l \in At(t, "data") : t[l].path = t[k].path => l <= k
             PROVE  t[k].val = f[t[k].path]
  BY DEF Newest
<1>1. k \in Nat /\ k + d \in At(s, "data") /\ t[k] = s[k + d]
  BY Positions DEF Shifted
<1>2. ASSUME NEW l \in At(s, "data"), s[l].path = s[k + d].path PROVE l <= k + d
  <2>1. l \in Nat /\ l - d \in At(t, "data") /\ t[l - d] = s[l]
    BY Positions DEF Shifted
  <2>2. l - d <= k
    BY <1>1, <1>2, <2>1
  <2> QED
    BY <1>1, <2>1, <2>2
<1> QED
  BY <1>1, <1>2 DEF Newest

\* New data comes behind.
LEMMA NewestAdded ==
  ASSUME NEW S, NEW s \in Seq(S), NEW t \in Seq(S), NEW x, Added(s, t, "data", x),
         NEW f, NEW g, Newest(s, f),
         g[x.path] = x.val,
         \A p \in PathsOf(s, "data") : p # x.path => g[p] = f[p]
  PROVE  Newest(t, g)
<1> SUFFICES ASSUME NEW k \in At(t, "data"),
                    \A l \in At(t, "data") : t[l].path = t[k].path => l <= k
             PROVE  t[k].val = g[t[k].path]
  BY DEF Newest
<1> DEFINE n == Len(t)
<1>1. n \in At(t, "data") /\ t[n] = x /\ n \in Nat /\ k \in Nat
  BY Positions, LenProperties DEF Added
<1>2. CASE k = n
  BY <1>1, <1>2
<1>3. CASE k # n
  <2>1. k \in At(s, "data") /\ t[k] = s[k] /\ k < n
    BY <1>1, <1>3 DEF Added
  <2>2. t[k].path # x.path
    BY <1>1, <2>1
  <2>3. \A l \in At(s, "data") : s[l].path = s[k].path => l <= k
    BY <2>1 DEF Added
  <2>4. s[k].val = f[s[k].path]
    BY <2>1, <2>3 DEF Newest
  <2>5. s[k].path \in PathsOf(s, "data")
    BY <2>1 DEF PathsOf
  <2> QED
    BY <2>1, <2>2, <2>4, <2>5
<1> QED
  BY <1>2, <1>3

\* The first data is taken: if no more is to come for its path, it was the last.
LEMMA NewestRemoved ==
  ASSUME NEW S, NEW s \in Seq(S), NEW t \in Seq(S), Removed(s, t, "data"),
         NEW f, Newest(s, f)
  PROVE  /\ Newest(t, f)
         /\ s[1].path \notin PathsOf(t, "data") => s[1].val = f[s[1].path]
<1>1. ASSUME NEW k \in At(t, "data"),
             \A l \in At(t, "data") : t[l].path = t[k].path => l <= k
      PROVE  t[k].val = f[t[k].path]
  <2>1. k \in Nat /\ k >= 1 /\ k + 1 \in At(s, "data") /\ t[k] = s[k + 1]
    BY Positions DEF Removed
  <2>2. ASSUME NEW l \in At(s, "data"), s[l].path = s[k + 1].path PROVE l <= k + 1
    <3>1. l \in Nat /\ (l = 1 \/ (l - 1 \in At(t, "data") /\ t[l - 1] = s[l]))
      BY Positions DEF Removed
    <3>2. l = 1 \/ l - 1 <= k
      BY <1>1, <2>1, <2>2, <3>1
    <3> QED
      BY <2>1, <3>1, <3>2
  <2> QED
    BY <2>1, <2>2 DEF Newest
<1>2. ASSUME s[1].path \notin PathsOf(t, "data") PROVE s[1].val = f[s[1].path]
  <2>1. ASSUME NEW l \in At(s, "data"), s[l].path = s[1].path PROVE l <= 1
    <3>1. l \in Nat /\ (l = 1 \/ (l - 1 \in At(t, "data") /\ t[l - 1] = s[l]))
      BY Positions DEF Removed
    <3>2. l = 1
      BY <1>2, <2>1, <3>1 DEF PathsOf
    <3> QED
      BY <3>2
  <2>2. 1 \in At(s, "data")
    BY DEF Removed
  <2> QED
    BY <2>1, <2>2 DEF Newest
<1> QED
  BY <1>1, <1>2 DEF Newest

\* What is newest for one value of the database is so for another that is the
\* same where data is on its way.
LEMMA NewestKept ==
  ASSUME NEW s, NEW f, NEW g, Newest(s, f),
         \A p \in PathsOf(s, "data") : g[p] = f[p]
  PROVE  Newest(s, g)
<1> SUFFICES ASSUME NEW k \in At(s, "data"),
                    \A l \in At(s, "data") : s[l].path = s[k].path => l <= k
             PROVE  s[k].val = g[s[k].path]
  BY DEF Newest
<1>1. g[s[k].path] = f[s[k].path]
  BY DEF PathsOf
<1>2. s[k].val = f[s[k].path]
  BY DEF Newest
<1> QED
  BY <1>1, <1>2

\* Data is the last that comes behind,
LEMMA DataBehind ==
  ASSUME NEW S, NEW s \in Seq(S), NEW x \in S, x.msg = "data",
         NEW f, NEW g, Newest(s, f), g[x.path] = x.val,
         \A q \in PathsOf(s, "data") : q # x.path => g[q] = f[q]
  PROVE  /\ s \o <<x>> \in Seq(S)
         /\ PathsOf(s \o <<x>>, "data") = PathsOf(s, "data") \cup {x.path}
         /\ Newest(s \o <<x>>, g)
<1> DEFINE t == Append(s, x)
<1>1. s \o <<x>> = t /\ t \in Seq(S)
  BY AppendIsConcat, AppendProperties
<1>2. Added(s, t, "data", x)
  BY AppendAdds
<1> HIDE DEF t
<1>3. PathsOf(t, "data") = PathsOf(s, "data") \cup {x.path}
  BY <1>2, PathsAdded
<1>4. Newest(t, g)
  BY <1>1, <1>2, NewestAdded
<1> QED
  BY <1>1, <1>3, <1>4

\* or a response.
LEMMA ResponseBehind ==
  ASSUME NEW S, NEW s \in Seq(S), NEW x \in S, x.msg # "data", NEW f, Newest(s, f)
  PROVE  /\ PathsOf(s \o <<x>>, "data") = PathsOf(s, "data")
         /\ Newest(s \o <<x>>, f)
<1> DEFINE t == Append(s, x)
<1>1. s \o <<x>> = t /\ t \in Seq(S)
  BY AppendIsConcat, AppendProperties
<1>2. Shifted(s, t, "data", 0)
  BY AppendAdds
<1> HIDE DEF t
<1>3. PathsOf(t, "data") = PathsOf(s, "data")
  BY <1>2, PathsShifted
<1>4. Newest(t, f)
  BY <1>1, <1>2, NewestShifted
<1> QED
  BY <1>1, <1>3, <1>4

\* A reply with data d and a response x,
LEMMA ReplyBrings ==
  ASSUME NEW S, NEW s \in Seq(S), NEW d \in S, d.msg = "data", NEW x \in S, x.msg # "data",
         NEW f, NEW g, Newest(s, f), g[d.path] = d.val,
         \A q \in PathsOf(s, "data") : q # d.path => g[q] = f[q]
  PROVE  /\ PathsOf(s \o (<<d>> \o <<x>>), "data") = PathsOf(s, "data") \cup {d.path}
         /\ Newest(s \o (<<d>> \o <<x>>), g)
<1> DEFINE u == s \o <<d>>
<1>1. u \in Seq(S) /\ PathsOf(u, "data") = PathsOf(s, "data") \cup {d.path} /\ Newest(u, g)
  BY DataBehind
<1>2. s \o (<<d>> \o <<x>>) = u \o <<x>>
  BY ConcatAssociative
<1> HIDE DEF u
<1>3. PathsOf(u \o <<x>>, "data") = PathsOf(s, "data") \cup {d.path} /\ Newest(u \o <<x>>, g)
  BY <1>1, ResponseBehind
<1> QED
  BY <1>2, <1>3

\* and one without data.
LEMMA ReplyBringsNone ==
  ASSUME NEW S, NEW s \in Seq(S), NEW x \in S, x.msg # "data",
         NEW f, NEW g, Newest(s, f), \A q \in PathsOf(s, "data") : g[q] = f[q]
  PROVE  /\ PathsOf(s \o (<<>> \o <<x>>), "data") = PathsOf(s, "data")
         /\ Newest(s \o (<<>> \o <<x>>), g)
<1>1. <<>> \o <<x>> = <<x>>
  BY ConcatEmptySeq
<1>2. Newest(s, g)
  BY NewestKept
<1> QED
  BY <1>1, <1>2, ResponseBehind

-----------------------------------------------------------------------------
(* The numbers of the messages of a kind, and how many there are.          *)

IdsOf(s, m) == {s[k].id : k \in At(s, m)}

\* The numbers rise from the head to the end.
Rising(s, m) == \A k, l \in At(s, m) : k < l => s[k].id < s[l].id

Count(s, m) == Cardinality(At(s, m))

\* A set of places that is moved has as many of them as before.
LEMMA MovedCount ==
  ASSUME NEW A, NEW B, IsFiniteSet(A), A \subseteq Int, B \subseteq Int, NEW d \in Int,
         \A k \in A : k - d \in B, \A k \in B : k + d \in A
  PROVE  Cardinality(B) = Cardinality(A)
<1> DEFINE f == [k \in A |-> k - d]
<1>1. f \in [A -> B]
  OBVIOUS
<1>2. \A k, l \in A : f[k] = f[l] => k = l
  OBVIOUS
<1>3. \A l \in B : \E k \in A : f[k] = l
  <2> SUFFICES ASSUME NEW l \in B PROVE \E k \in A : f[k] = l
    OBVIOUS
  <2>1. l + d \in A /\ (l + d) - d = l
    OBVIOUS
  <2> QED
    BY <2>1
<1> HIDE DEF f
<1>4. f \in Bijection(A, B)
  BY <1>1, <1>2, <1>3 DEF Bijection, Injection, Surjection, IsInjective
<1>5. ExistsBijection(A, B)
  BY <1>4, Fun_ExistsBij
<1> QED
  BY <1>5, FS_Bijection

\* There are finitely many messages.
LEMMA CountIs ==
  ASSUME NEW S, NEW s \in Seq(S), NEW m
  PROVE  /\ IsFiniteSet(At(s, m)) /\ Count(s, m) \in Nat
         /\ Count(s, m) = 0 <=> At(s, m) = {}
<1>1. IsFiniteSet(1..Len(s))
  BY LenProperties, FS_Interval
<1>2. IsFiniteSet(At(s, m))
  BY <1>1, FS_Subset DEF At
<1> QED
  BY <1>2, FS_CardinalityType, FS_EmptySet DEF Count

\* What can be said of a kind whose messages stay,
Same(s, t, m) ==
  /\ PathsOf(t, m) = PathsOf(s, m)
  /\ IdsOf(t, m) = IdsOf(s, m)
  /\ Count(t, m) = Count(s, m)
  /\ Rising(s, m) => Rising(t, m)

\* of one that x comes behind,
More(s, t, m, x) ==
  /\ PathsOf(t, m) = PathsOf(s, m) \cup {x.path}
  /\ IdsOf(t, m) = IdsOf(s, m) \cup {x.id}
  /\ Count(t, m) = Count(s, m) + 1
  /\ Rising(s, m) /\ (\A i \in IdsOf(s, m) : i < x.id) => Rising(t, m)

\* and of one that x, its first, is taken from.
Fewer(s, t, m, x) ==
  /\ PathsOf(s, m) = PathsOf(t, m) \cup {x.path}
  /\ IdsOf(s, m) = IdsOf(t, m) \cup {x.id}
  /\ Count(s, m) = Count(t, m) + 1
  /\ Rising(s, m) => Rising(t, m) /\ \A i \in IdsOf(t, m) : x.id < i

\* So it is if they stay,
LEMMA ShiftedSame ==
  ASSUME NEW S, NEW s \in Seq(S), NEW t \in Seq(S), NEW m, NEW d \in Int,
         Shifted(s, t, m, d)
  PROVE  Same(s, t, m)
<1>1. PathsOf(t, m) = PathsOf(s, m)
  BY PathsShifted
<1>2. IdsOf(t, m) = IdsOf(s, m)
  <2>1. \A i \in IdsOf(t, m) : i \in IdsOf(s, m)
    BY DEF IdsOf, Shifted
  <2>2. \A i \in IdsOf(s, m) : i \in IdsOf(t, m)
    BY DEF IdsOf, Shifted
  <2> QED
    BY <2>1, <2>2
<1>3. At(s, m) \subseteq Int /\ At(t, m) \subseteq Int /\ IsFiniteSet(At(s, m))
  BY Positions, CountIs
<1>4. Count(t, m) = Count(s, m)
  <2>1. (\A k \in At(s, m) : k - d \in At(t, m)) /\ (\A k \in At(t, m) : k + d \in At(s, m))
    BY DEF Shifted
  <2> QED
    BY <1>3, <2>1, MovedCount DEF Count
<1>5. ASSUME Rising(s, m), NEW k \in At(t, m), NEW l \in At(t, m), k < l
      PROVE  t[k].id < t[l].id
  <2>1. k + d \in At(s, m) /\ l + d \in At(s, m) /\ t[k] = s[k + d] /\ t[l] = s[l + d]
    BY DEF Shifted
  <2>2. k + d < l + d
    BY <1>3, <1>5
  <2> QED
    BY <1>5, <2>1, <2>2 DEF Rising
<1> QED
  BY <1>1, <1>2, <1>4, <1>5 DEF Same, Rising

\* if one comes behind,
LEMMA AddedMore ==
  ASSUME NEW S, NEW s \in Seq(S), NEW t \in Seq(S), NEW m, NEW x, Added(s, t, m, x)
  PROVE  More(s, t, m, x)
<1>1. PathsOf(t, m) = PathsOf(s, m) \cup {x.path}
  BY PathsAdded
<1>2. IdsOf(t, m) = IdsOf(s, m) \cup {x.id}
  <2>1. \A i \in IdsOf(t, m) : i \in IdsOf(s, m) \cup {x.id}
    BY DEF IdsOf, Added
  <2>2. \A i \in IdsOf(s, m) \cup {x.id} : i \in IdsOf(t, m)
    BY DEF IdsOf, Added
  <2> QED
    BY <2>1, <2>2
<1>3. At(s, m) \subseteq Int /\ At(t, m) \subseteq Int /\ IsFiniteSet(At(s, m)) /\ Len(t) \in Nat
  BY Positions, CountIs, LenProperties
<1>4. At(t, m) = At(s, m) \cup {Len(t)} /\ Len(t) \notin At(s, m)
  BY <1>3 DEF Added
<1>5. Count(t, m) = Count(s, m) + 1
  BY <1>3, <1>4, FS_AddElement DEF Count
<1>6. ASSUME Rising(s, m), \A i \in IdsOf(s, m) : i < x.id,
             NEW k \in At(t, m), NEW l \in At(t, m), k < l
      PROVE  t[k].id < t[l].id
  <2>1. k \in At(s, m) /\ t[k] = s[k] /\ s[k].id \in IdsOf(s, m)
    BY <1>3, <1>4, <1>6, Positions DEF Added, IdsOf
  <2>2. CASE l = Len(t)
    BY <1>6, <2>1, <2>2 DEF Added
  <2>3. CASE l \in At(s, m)
    BY <1>6, <2>1, <2>3 DEF Added, Rising
  <2> QED
    BY <1>4, <2>2, <2>3
<1> QED
  BY <1>1, <1>2, <1>5, <1>6 DEF More, Rising

\* and if the first is taken.
LEMMA RemovedFewer ==
  ASSUME NEW S, NEW s \in Seq(S), NEW t \in Seq(S), NEW m, Removed(s, t, m)
  PROVE  Fewer(s, t, m, s[1])
<1>1. PathsOf(s, m) = PathsOf(t, m) \cup {s[1].path}
  BY PathsRemoved
<1>2. IdsOf(s, m) = IdsOf(t, m) \cup {s[1].id}
  <2>1. \A i \in IdsOf(s, m) : i \in IdsOf(t, m) \cup {s[1].id}
    BY DEF IdsOf, Removed
  <2>2. \A i \in IdsOf(t, m) \cup {s[1].id} : i \in IdsOf(s, m)
    BY DEF IdsOf, Removed
  <2> QED
    BY <2>1, <2>2
<1>3. /\ \A k \in At(s, m) : k \in Int /\ k >= 1
      /\ \A k \in At(t, m) : k \in Int /\ k >= 1
      /\ IsFiniteSet(At(s, m))
  BY Positions, CountIs
<1>4. Count(s, m) = Count(t, m) + 1
  <2> DEFINE A == At(s, m) \ {1}
  <2>1. IsFiniteSet(A) /\ Cardinality(A) = Cardinality(At(s, m)) - 1 /\ 1 \in At(s, m)
    BY <1>3, FS_RemoveElement DEF Removed
  <2>2. A \subseteq Int /\ At(t, m) \subseteq Int
    BY <1>3
  <2>3. \A k \in A : k - 1 \in At(t, m)
    BY DEF Removed
  <2>4. \A k \in At(t, m) : k + 1 \in A
    BY <1>3 DEF Removed
  <2> HIDE DEF A
  <2>5. Cardinality(At(t, m)) = Cardinality(A)
    <3> DEFINE B == At(t, m)
               d == 1
    <3>1. B \subseteq Int /\ (\A k \in A : k - d \in B) /\ (\A k \in B : k + d \in A)
          /\ d \in Int
      BY <2>2, <2>3, <2>4
    <3> HIDE DEF B, d
    <3>2. Cardinality(B) = Cardinality(A)
      BY <2>1, <2>2, <3>1, MovedCount
    <3> QED
      BY <3>2 DEF B
  <2>6. Cardinality(At(s, m)) \in Nat
    BY <1>3, FS_CardinalityType
  <2> QED
    BY <2>1, <2>5, <2>6 DEF Count
<1>5. ASSUME Rising(s, m), NEW k \in At(t, m)
      PROVE  /\ s[1].id < t[k].id
             /\ \A l \in At(t, m) : k < l => t[k].id < t[l].id
  <2>1. /\ k + 1 \in At(s, m) /\ t[k] = s[k + 1] /\ 1 \in At(s, m)
        /\ \A l \in At(t, m) : l + 1 \in At(s, m) /\ t[l] = s[l + 1]
    BY DEF Removed
  <2>2. 1 < k + 1 /\ \A l \in At(t, m) : k < l => k + 1 < l + 1
    BY <1>3
  <2> QED
    BY <1>5, <2>1, <2>2 DEF Rising
<1>6. Rising(s, m) => \A i \in IdsOf(t, m) : s[1].id < i
  BY <1>5 DEF IdsOf
<1>7. Rising(s, m) => Rising(t, m)
  BY <1>5 DEF Rising
<1> QED
  BY <1>1, <1>2, <1>4, <1>6, <1>7 DEF Fewer

\* A message is put behind the others.
LEMMA AppendDoes ==
  ASSUME NEW S, NEW s \in Seq(S), NEW x \in S
  PROVE  /\ Append(s, x) \in Seq(S)
         /\ \A m : x.msg = m => More(s, Append(s, x), m, x)
         /\ \A m : x.msg # m => Same(s, Append(s, x), m)
<1> DEFINE t == Append(s, x)
<1>1. t \in Seq(S)
  BY AppendProperties
<1>2. /\ \A m : x.msg = m => Added(s, t, m, x)
      /\ \A m : x.msg # m => Shifted(s, t, m, 0)
  BY AppendAdds
<1> HIDE DEF t
<1>3. \A m : x.msg = m => More(s, t, m, x)
  BY <1>1, <1>2, AddedMore
<1>4. ASSUME NEW m, x.msg # m PROVE Same(s, t, m)
  <2>1. Shifted(s, t, m, 0)
    BY <1>2, <1>4
  <2> QED
    BY <1>1, <2>1, ShiftedSame
<1> QED
  BY <1>1, <1>3, <1>4 DEF t

\* The first message is taken.
LEMMA TailDoes ==
  ASSUME NEW S, NEW s \in Seq(S), s # <<>>
  PROVE  /\ Tail(s) \in Seq(S) /\ Head(s) \in S
         /\ \A m : Head(s).msg = m => Fewer(s, Tail(s), m, Head(s))
         /\ \A m : Head(s).msg # m => Same(s, Tail(s), m)
<1> DEFINE t == Tail(s)
           x == Head(s)
<1>1. t \in Seq(S) /\ x \in S /\ x = s[1]
  BY HeadTailProperties
<1>2. /\ \A m : x.msg = m => Removed(s, t, m)
      /\ \A m : x.msg # m => Shifted(s, t, m, 1)
  BY TailRemoves, TailShifts
<1> HIDE DEF t, x
<1>3. \A m : x.msg = m => Fewer(s, t, m, x)
  BY <1>1, <1>2, RemovedFewer
<1>4. \A m : x.msg # m => Same(s, t, m)
  BY <1>1, <1>2, ShiftedSame
<1> QED
  BY <1>1, <1>3, <1>4 DEF t, x

\* What the newest data is, when a message is put behind the others
LEMMA AppendNewest ==
  ASSUME NEW S, NEW s \in Seq(S), NEW x \in S, NEW f, Newest(s, f)
  PROVE  /\ x.msg # "data" => Newest(Append(s, x), f)
         /\ x.msg = "data" => \A g :
              /\ g[x.path] = x.val
              /\ \A q \in PathsOf(s, "data") : q # x.path => g[q] = f[q]
              => Newest(Append(s, x), g)
<1> DEFINE t == Append(s, x)
<1>1. t \in Seq(S)
  BY AppendProperties
<1>2. /\ x.msg = "data" => Added(s, t, "data", x)
      /\ x.msg # "data" => Shifted(s, t, "data", 0)
  BY AppendAdds
<1> HIDE DEF t
<1>3. ASSUME x.msg # "data" PROVE Newest(t, f)
  BY <1>1, <1>2, <1>3, NewestShifted
<1>4. ASSUME x.msg = "data", NEW g, g[x.path] = x.val,
             \A q \in PathsOf(s, "data") : q # x.path => g[q] = f[q]
      PROVE  Newest(t, g)
  BY <1>1, <1>2, <1>4, NewestAdded
<1> QED
  BY <1>3, <1>4 DEF t

\* and when the first is taken.
LEMMA TailNewest ==
  ASSUME NEW S, NEW s \in Seq(S), s # <<>>, NEW f, Newest(s, f)
  PROVE  /\ Newest(Tail(s), f)
         /\ Head(s).msg = "data" /\ Head(s).path \notin PathsOf(Tail(s), "data")
              => Head(s).val = f[Head(s).path]
<1> DEFINE t == Tail(s)
           x == Head(s)
<1>1. t \in Seq(S) /\ x = s[1]
  BY HeadTailProperties
<1>2. /\ x.msg = "data" => Removed(s, t, "data")
      /\ x.msg # "data" => Shifted(s, t, "data", 1)
  BY TailRemoves, TailShifts
<1> HIDE DEF t, x
<1>3. Newest(t, f)
  BY <1>1, <1>2, NewestRemoved, NewestShifted
<1>4. x.msg = "data" /\ x.path \notin PathsOf(t, "data") => x.val = f[x.path]
  BY <1>1, <1>2, NewestRemoved
<1> QED
  BY <1>3, <1>4 DEF t, x
=============================================================================
