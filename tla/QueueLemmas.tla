----------------------------- MODULE QueueLemmas -----------------------------
(***************************************************************************)
(* Sequences used as queues: what taking the first element and adding a    *)
(* last one do, element by element; paths; and texts: what lies where in a *)
(* long sequence, and what FlattenSeq makes of a list of sequences.  The   *)
(* proof modules share them.                                               *)
(***************************************************************************)
EXTENDS Naturals, Sequences, SequenceTheorems, WellFoundedInduction, TLAPS

\* The queue without elements has no positions.
LEMMA NoElement == ASSUME NEW S PROVE <<>> \in Seq(S) /\ DOMAIN <<>> = {}
BY EmptySeq

\* Taking the first element moves every other one up by a position.
LEMMA TakeFirst ==
    ASSUME NEW S, NEW s \in Seq(S), s # <<>>
    PROVE  /\ Head(s) \in S
           /\ Head(s) = s[1]
           /\ Tail(s) \in Seq(S)
           /\ Len(s) \in Nat \ {0}
           /\ Len(Tail(s)) = Len(s) - 1
           /\ DOMAIN s = 1 .. Len(s)
           /\ DOMAIN Tail(s) = 1 .. Len(s) - 1
           /\ \A i \in 1 .. Len(s) - 1 : Tail(s)[i] = s[i + 1]
<1>1. Len(s) \in Nat /\ DOMAIN s = 1 .. Len(s)
  BY LenProperties
<1>2. Len(s) # 0
  BY EmptySeq
<1> QED
  BY <1>1, <1>2, HeadTailProperties

\* Adding a last element leaves every other one where it is.
LEMMA AddLast ==
    ASSUME NEW S, NEW s \in Seq(S), NEW e \in S
    PROVE  /\ Append(s, e) \in Seq(S)
           /\ Append(s, e) # <<>>
           /\ Len(s) \in Nat
           /\ Len(Append(s, e)) = Len(s) + 1
           /\ DOMAIN s = 1 .. Len(s)
           /\ DOMAIN Append(s, e) = 1 .. Len(s) + 1
           /\ Append(s, e)[Len(s) + 1] = e
           /\ \A i \in 1 .. Len(s) : Append(s, e)[i] = s[i]
BY LenProperties, AppendProperties

-----------------------------------------------------------------------------
(* What is in a queue, and that nothing is in it twice *)

Elements(s) == {s[i] : i \in DOMAIN s}

Distinct(s) == \A i, j \in DOMAIN s : s[i] = s[j] => i = j

\* The empty queue holds nothing.
LEMMA ElementsEmpty == ASSUME NEW S PROVE Elements(<<>>) = {} /\ Distinct(<<>>)
BY NoElement DEF Elements, Distinct

\* A queue holds elements of the set it is over; it is empty if it holds none.
LEMMA ElementsType ==
    ASSUME NEW S, NEW s \in Seq(S)
    PROVE  Elements(s) \subseteq S /\ (Elements(s) = {} <=> s = <<>>)
<1>1. Len(s) \in Nat /\ DOMAIN s = 1 .. Len(s) /\ \A i \in DOMAIN s : s[i] \in S
  BY LenProperties, ElementOfSeq
<1>2. ASSUME s # <<>> PROVE s[1] \in Elements(s)
  BY <1>2, TakeFirst DEF Elements
<1> QED
  BY <1>1, <1>2, NoElement DEF Elements

\* Adding a last element.
LEMMA AppendElements ==
    ASSUME NEW S, NEW s \in Seq(S), NEW e \in S
    PROVE  /\ Append(s, e) \in Seq(S)
           /\ Elements(Append(s, e)) = Elements(s) \cup {e}
           /\ Distinct(s) /\ e \notin Elements(s) => Distinct(Append(s, e))
<1> DEFINE t == Append(s, e)
           n == Len(s) + 1
<1>1. /\ n \in Nat
      /\ DOMAIN s = 1 .. n - 1
      /\ DOMAIN t = 1 .. n
      /\ t[n] = e
      /\ \A i \in 1 .. n - 1 : t[i] = s[i]
  BY AddLast
<1>2. n \in DOMAIN t /\ \A i \in DOMAIN s : i \in DOMAIN t /\ t[i] = s[i]
  BY <1>1
<1>3. \A i \in DOMAIN t : i = n \/ i \in DOMAIN s
  BY <1>1
<1>4. t \in Seq(S)
  BY AddLast
<1> HIDE DEF t, n
<1>5. Elements(t) = Elements(s) \cup {e}
  BY <1>1, <1>2, <1>3 DEF Elements
<1>6. ASSUME Distinct(s), e \notin Elements(s) PROVE Distinct(t)
  <2> SUFFICES ASSUME NEW i \in DOMAIN t, NEW j \in DOMAIN t, t[i] = t[j] PROVE i = j
    BY DEF Distinct
  <2> QED
    BY <1>1, <1>2, <1>3, <1>6 DEF Distinct, Elements
<1> QED
  BY <1>4, <1>5, <1>6 DEF t

\* Taking the first element of a queue that holds none twice.
LEMMA TailElements ==
    ASSUME NEW S, NEW s \in Seq(S), s # <<>>
    PROVE  /\ Tail(s) \in Seq(S)
           /\ Head(s) \in S /\ Head(s) \in Elements(s)
           /\ Elements(s) = Elements(Tail(s)) \cup {Head(s)}
           /\ Distinct(s) => /\ Elements(Tail(s)) = Elements(s) \ {Head(s)}
                             /\ Distinct(Tail(s))
<1> DEFINE t == Tail(s)
<1>1. /\ Len(s) \in Nat \ {0}
      /\ DOMAIN s = 1 .. Len(s)
      /\ DOMAIN t = 1 .. Len(s) - 1
      /\ \A i \in 1 .. Len(s) - 1 : t[i] = s[i + 1]
      /\ s[1] = Head(s)
      /\ t \in Seq(S) /\ Head(s) \in S
  BY TakeFirst
<1>2. \A i \in DOMAIN t : i + 1 \in DOMAIN s /\ i + 1 # 1 /\ t[i] = s[i + 1]
  BY <1>1
<1>3. \A i \in DOMAIN s : i = 1 \/ (i - 1 \in DOMAIN t /\ t[i - 1] = s[i])
  BY <1>1
<1>4. 1 \in DOMAIN s /\ \A i, j \in DOMAIN t : i + 1 = j + 1 => i = j
  BY <1>1
<1> HIDE DEF t
<1>5. Elements(s) = Elements(t) \cup {Head(s)}
  <2>1. ASSUME NEW i \in DOMAIN s PROVE s[i] \in Elements(t) \cup {Head(s)}
    BY <1>1, <1>3 DEF Elements
  <2>2. ASSUME NEW i \in DOMAIN t PROVE t[i] \in Elements(s)
    BY <1>2 DEF Elements
  <2>3. Head(s) \in Elements(s)
    BY <1>1, <1>4 DEF Elements
  <2> QED
    BY <2>1, <2>2, <2>3 DEF Elements
<1>6. ASSUME Distinct(s) PROVE Head(s) \notin Elements(t) /\ Distinct(t)
  BY <1>1, <1>2, <1>4, <1>6 DEF Elements, Distinct
<1> QED
  BY <1>1, <1>5, <1>6 DEF t
-----------------------------------------------------------------------------
(* Sequences in two parts *)

\* A sequence cut in two, and put together again.
LEMMA CutInTwo ==
    ASSUME NEW S, NEW s \in Seq(S), NEW n \in 0 .. Len(s)
    PROVE  /\ SubSeq(s, 1, n) \in Seq(S)
           /\ SubSeq(s, n + 1, Len(s)) \in Seq(S)
           /\ Len(SubSeq(s, 1, n)) = n
           /\ Len(SubSeq(s, n + 1, Len(s))) = Len(s) - n
           /\ SubSeq(s, 1, n) \o SubSeq(s, n + 1, Len(s)) = s
<1>1. Len(s) \in Nat /\ \A i \in 1 .. Len(s) : s[i] \in S
  BY LenProperties, ElementOfSeq
<1>2. SubSeq(s, 1, n) \in Seq(S) /\ Len(SubSeq(s, 1, n)) = n
  BY <1>1, SubSeqProperties
<1>3. /\ SubSeq(s, n + 1, Len(s)) \in Seq(S)
      /\ Len(SubSeq(s, n + 1, Len(s))) = Len(s) - n
  BY <1>1, SubSeqProperties
<1>4. SubSeq(s, 1, n) \o SubSeq(s, n + 1, Len(s)) = SubSeq(s, 1, Len(s))
  <2>1. 1 \in 1 .. Len(s) + 1 /\ n \in 1 - 1 .. Len(s) /\ Len(s) \in n .. Len(s)
    BY <1>1
  <2> QED
    BY <2>1, ConcatAdjacentSubSeq
<1> QED
  BY <1>2, <1>3, <1>4, SubSeqFull

\* Two sequences in one: the first one's elements, then the second one's.
LEMMA JoinTwo ==
    ASSUME NEW S, NEW s \in Seq(S), NEW t \in Seq(S)
    PROVE  /\ s \o t \in Seq(S) /\ Len(s \o t) = Len(s) + Len(t)
           /\ \A i \in 1 .. Len(s) : (s \o t)[i] = s[i]
           /\ \A j \in 1 .. Len(t) : (s \o t)[Len(s) + j] = t[j]
OBVIOUS

\* The first i elements are the first i - 1 and the i-th.
LEMMA OneLonger ==
    ASSUME NEW S, NEW s \in Seq(S), NEW i \in 1 .. Len(s)
    PROVE  /\ Append(SubSeq(s, 1, i - 1), s[i]) = SubSeq(s, 1, i)
           /\ SubSeq(s, 1, i) \in Seq(S)
           /\ Len(SubSeq(s, 1, i)) = i
           /\ SubSeq(s, 1, i) # <<>>
           /\ SubSeq(s, 1, Len(s)) = s
<1> DEFINE u == SubSeq(s, 1, i - 1)
           v == SubSeq(s, 1, i)
<1>1. Len(s) \in Nat /\ s[i] \in S /\ i - 1 \in 0 .. Len(s) /\ i \in 0 .. Len(s)
  BY LenProperties, ElementOfSeq
<1>2. /\ u \in Seq(S) /\ Len(u) = i - 1 /\ \A j \in 1 .. i - 1 : u[j] = s[j]
      /\ v \in Seq(S) /\ Len(v) = i /\ \A j \in 1 .. i : v[j] = s[j]
  BY <1>1
<1>3. SubSeq(s, 1, Len(s)) = s
  BY <1>1
<1> HIDE DEF u, v
<1>4. /\ Append(u, s[i]) \in Seq(S) /\ Len(Append(u, s[i])) = i
      /\ \A j \in 1 .. i - 1 : Append(u, s[i])[j] = u[j]
      /\ Append(u, s[i])[i] = s[i]
  BY <1>1, <1>2
<1>5. \A j \in 1 .. i : Append(u, s[i])[j] = v[j]
  BY <1>1, <1>2, <1>4
<1>6. Append(u, s[i]) = v
  BY <1>2, <1>4, <1>5, SeqEqual
<1>7. v # <<>>
  BY <1>2, EmptySeq
<1> QED
  BY <1>2, <1>3, <1>6, <1>7 DEF u, v

\* What follows a sequence does not matter to taking its first element.
LEMMA TakeFromConcat ==
    ASSUME NEW S, NEW s \in Seq(S), NEW t \in Seq(S), s # <<>>
    PROVE  /\ s \o t # <<>>
           /\ (s \o t)[1] = Head(s)
           /\ Tail(s) \o t = Tail(s \o t)
<1> DEFINE u == s \o t
           v == Tail(s) \o t
<1>1. /\ Len(s) \in Nat \ {0} /\ Len(t) \in Nat
      /\ Head(s) = s[1]
      /\ Tail(s) \in Seq(S)
      /\ Len(Tail(s)) = Len(s) - 1
      /\ \A i \in 1 .. Len(s) - 1 : Tail(s)[i] = s[i + 1]
  BY TakeFirst, LenProperties
<1>2. /\ u \in Seq(S)
      /\ Len(u) = Len(s) + Len(t)
      /\ \A i \in 1 .. Len(s) + Len(t) :
            u[i] = IF i <= Len(s) THEN s[i] ELSE t[i - Len(s)]
  BY ConcatProperties
<1>3. /\ v \in Seq(S)
      /\ Len(v) = Len(s) - 1 + Len(t)
      /\ \A i \in 1 .. Len(s) - 1 + Len(t) :
            v[i] = IF i <= Len(s) - 1 THEN Tail(s)[i] ELSE t[i - (Len(s) - 1)]
  BY <1>1, ConcatProperties
<1> HIDE DEF u, v
<1>4. u # <<>>
  BY <1>1, <1>2, EmptySeq
<1>5. /\ Tail(u) \in Seq(S)
      /\ Len(Tail(u)) = Len(u) - 1
      /\ \A i \in 1 .. Len(u) - 1 : Tail(u)[i] = u[i + 1]
  BY <1>2, <1>4, TakeFirst
<1>6. ASSUME NEW i \in 1 .. Len(v) PROVE v[i] = Tail(u)[i]
  <2>1. i + 1 \in 1 .. Len(s) + Len(t) /\ Tail(u)[i] = u[i + 1]
    BY <1>1, <1>2, <1>3, <1>5
  <2>2. CASE i <= Len(s) - 1
    BY <1>1, <1>2, <1>3, <2>1, <2>2
  <2>3. CASE ~(i <= Len(s) - 1)
    <3>1. i - (Len(s) - 1) = i + 1 - Len(s)
      BY <1>1
    <3> QED
      BY <1>1, <1>2, <1>3, <2>1, <2>3, <3>1
  <2> QED
    BY <2>2, <2>3
<1>7. v = Tail(u)
  BY <1>1, <1>2, <1>3, <1>5, <1>6, SeqEqual
<1> QED
  BY <1>1, <1>2, <1>4, <1>7 DEF u, v

-----------------------------------------------------------------------------
(* The first position at which something holds                               *)

\* A non-empty set of naturals has a least element.
LEMMA Least ==
    ASSUME NEW T, T \subseteq Nat, T # {}
    PROVE  \E m \in T : \A n \in T : m <= n
<1> DEFINE less == {p \in Nat \X Nat : p[1] < p[2]}
<1>1. IsWellFoundedOn(less, Nat)
  BY NatLessThanWellFounded, Zenon DEF OpToRel
<1> HIDE DEF less
<1>2. PICK m \in T : \A n \in T : <<n, m>> \notin less
  BY <1>1, WFMin
<1>3. \A n \in T : ~(n < m)
  BY <1>2 DEF less
<1>4. m \in Nat /\ \A n \in T : n \in Nat
  OBVIOUS
<1>5. \A n \in T : m <= n
  BY <1>3, <1>4
<1> QED
  BY <1>5

-----------------------------------------------------------------------------
(* Paths: a sequence read by an automaton whose steps are a set of triples,  *)
(* state, element, state.                                                    *)

Path(rel, A, w, a, c) ==
    \E run \in [0 .. Len(w) -> A] :
        /\ run[0] = a /\ run[Len(w)] = c
        /\ \A i \in 1 .. Len(w) : <<run[i - 1], w[i], run[i]>> \in rel

\* Nothing to read leaves the state as it is.
LEMMA PathNone ==
    ASSUME NEW rel, NEW A, NEW a \in A
    PROVE  /\ Path(rel, A, <<>>, a, a)
           /\ \A c : Path(rel, A, <<>>, a, c) => c = a
<1>1. Len(<<>>) = 0
  OBVIOUS
<1>2. Path(rel, A, <<>>, a, a)
  <2> DEFINE run == [i \in 0 .. 0 |-> a]
  <2>1. run \in [0 .. 0 -> A] /\ run[0] = a
    OBVIOUS
  <2>2. 1 .. 0 = {}
    OBVIOUS
  <2> HIDE DEF run
  <2> QED
    BY <1>1, <2>1, <2>2 DEF Path
<1>3. ASSUME NEW c, Path(rel, A, <<>>, a, c) PROVE c = a
  BY <1>1, <1>3 DEF Path
<1> QED
  BY <1>2, <1>3

\* One element is one step.
LEMMA PathOne ==
    ASSUME NEW rel, NEW A, NEW a \in A, NEW b \in A, NEW u, <<a, u, b>> \in rel
    PROVE  Path(rel, A, <<u>>, a, b)
<1> DEFINE run == [i \in 0 .. 1 |-> IF i = 0 THEN a ELSE b]
<1>1. Len(<<u>>) = 1 /\ <<u>>[1] = u
  OBVIOUS
<1>2. run \in [0 .. 1 -> A] /\ run[0] = a /\ run[1] = b
  OBVIOUS
<1> HIDE DEF run
<1>3. \A i \in 1 .. 1 : <<run[i - 1], <<u>>[i], run[i]>> \in rel
  <2>1. \A i \in 1 .. 1 : i = 1 /\ i - 1 = 0
    OBVIOUS
  <2> QED
    BY <1>1, <1>2, <2>1
<1> QED
  BY <1>1, <1>2, <1>3 DEF Path

\* More steps make no path impossible.
LEMMA PathWider ==
    ASSUME NEW rel, NEW wider, rel \subseteq wider, NEW A, NEW w, NEW a, NEW c,
           Path(rel, A, w, a, c)
    PROVE  Path(wider, A, w, a, c)
<1>1. PICK run \in [0 .. Len(w) -> A] :
         /\ run[0] = a /\ run[Len(w)] = c
         /\ \A i \in 1 .. Len(w) : <<run[i - 1], w[i], run[i]>> \in rel
  BY DEF Path
<1>2. \A i \in 1 .. Len(w) : <<run[i - 1], w[i], run[i]>> \in wider
  BY <1>1
<1> QED
  BY <1>1, <1>2 DEF Path

\* One path after another.
LEMMA PathJoin ==
    ASSUME NEW rel, NEW A, NEW U, NEW w \in Seq(U), NEW v \in Seq(U), NEW a, NEW b, NEW c,
           Path(rel, A, w, a, b), Path(rel, A, v, b, c)
    PROVE  Path(rel, A, w \o v, a, c)
<1>1. PICK f \in [0 .. Len(w) -> A] :
         /\ f[0] = a /\ f[Len(w)] = b
         /\ \A i \in 1 .. Len(w) : <<f[i - 1], w[i], f[i]>> \in rel
  BY DEF Path
<1>2. PICK g \in [0 .. Len(v) -> A] :
         /\ g[0] = b /\ g[Len(v)] = c
         /\ \A i \in 1 .. Len(v) : <<g[i - 1], v[i], g[i]>> \in rel
  BY DEF Path
<1>3. /\ Len(w) \in Nat /\ Len(v) \in Nat /\ Len(w \o v) = Len(w) + Len(v)
      /\ \A i \in 1 .. Len(w) : (w \o v)[i] = w[i]
      /\ \A j \in 1 .. Len(v) : (w \o v)[Len(w) + j] = v[j]
  BY JoinTwo, LenProperties
<1> DEFINE run == [i \in 0 .. Len(w) + Len(v) |-> IF i <= Len(w) THEN f[i] ELSE g[i - Len(w)]]
<1>4. /\ run \in [0 .. Len(w \o v) -> A]
      /\ \A i \in 0 .. Len(w) : run[i] = f[i]
      /\ \A j \in 0 .. Len(v) : run[Len(w) + j] = g[j]
  <2>1. ASSUME NEW i \in 0 .. Len(w) + Len(v)
        PROVE  (IF i <= Len(w) THEN f[i] ELSE g[i - Len(w)]) \in A
    <3>1. CASE i <= Len(w)
      BY <1>3, <3>1
    <3>2. CASE ~(i <= Len(w))
      <4>1. i - Len(w) \in 0 .. Len(v)
        BY <1>3, <3>2
      <4> QED
        BY <3>2, <4>1
    <3> QED
      BY <3>1, <3>2
  <2>2. run \in [0 .. Len(w \o v) -> A]
    BY <1>3, <2>1
  <2>3. \A i \in 0 .. Len(w) : run[i] = f[i]
    BY <1>3
  <2>4. ASSUME NEW j \in 0 .. Len(v) PROVE run[Len(w) + j] = g[j]
    <3>1. Len(w) + j \in 0 .. Len(w) + Len(v) /\ Len(w) + j - Len(w) = j
      BY <1>3
    <3>2. CASE j = 0
      BY <1>1, <1>2, <1>3, <3>1, <3>2
    <3>3. CASE j # 0
      <4>1. ~(Len(w) + j <= Len(w))
        BY <1>3, <3>3
      <4> QED
        BY <3>1, <4>1
    <3> QED
      BY <3>2, <3>3
  <2> QED
    BY <2>2, <2>3, <2>4
<1> HIDE DEF run
<1>5. run[0] = a /\ run[Len(w \o v)] = c
  <2>1. 0 \in 0 .. Len(w) /\ Len(v) \in 0 .. Len(v)
    BY <1>3
  <2> QED
    BY <1>1, <1>2, <1>3, <1>4, <2>1
<1>6. ASSUME NEW i \in 1 .. Len(w \o v)
      PROVE  <<run[i - 1], (w \o v)[i], run[i]>> \in rel
  <2>1. CASE i <= Len(w)
    <3>1. i \in 1 .. Len(w) /\ i - 1 \in 0 .. Len(w) /\ i \in 0 .. Len(w)
      BY <1>3, <2>1
    <3> QED
      BY <1>1, <1>3, <1>4, <3>1
  <2>2. CASE ~(i <= Len(w))
    <3>1. PICK j \in 1 .. Len(v) : i = Len(w) + j
      <4>1. i - Len(w) \in 1 .. Len(v) /\ i = Len(w) + (i - Len(w))
        BY <1>3, <2>2
      <4> QED
        BY <4>1
    <3>2. j - 1 \in 0 .. Len(v) /\ j \in 0 .. Len(v) /\ i - 1 = Len(w) + (j - 1)
      BY <1>3, <3>1
    <3>3. run[i - 1] = g[j - 1] /\ run[i] = g[j] /\ (w \o v)[i] = v[j]
      BY <1>3, <1>4, <3>1, <3>2
    <3> QED
      BY <1>2, <3>3
  <2> QED
    BY <2>1, <2>2
<1> QED
  BY <1>4, <1>5, <1>6 DEF Path

\* A path to any place, and on from it.
LEMMA PathCut ==
    ASSUME NEW rel, NEW A, NEW U, NEW w \in Seq(U), NEW a, NEW c, NEW n \in 0 .. Len(w),
           Path(rel, A, w, a, c)
    PROVE  \E b \in A : /\ Path(rel, A, SubSeq(w, 1, n), a, b)
                        /\ Path(rel, A, SubSeq(w, n + 1, Len(w)), b, c)
<1>1. PICK run \in [0 .. Len(w) -> A] :
         /\ run[0] = a /\ run[Len(w)] = c
         /\ \A i \in 1 .. Len(w) : <<run[i - 1], w[i], run[i]>> \in rel
  BY DEF Path
<1>2. Len(w) \in Nat /\ n \in Nat /\ n <= Len(w)
  BY LenProperties
<1>3. /\ Len(SubSeq(w, 1, n)) = n /\ Len(SubSeq(w, n + 1, Len(w))) = Len(w) - n
      /\ \A i \in 1 .. n : SubSeq(w, 1, n)[i] = w[i]
      /\ \A i \in 1 .. Len(w) - n : SubSeq(w, n + 1, Len(w))[i] = w[n + i]
  BY <1>2
<1> DEFINE f == [i \in 0 .. n |-> run[i]]
           g == [i \in 0 .. Len(w) - n |-> run[n + i]]
<1>4. Path(rel, A, SubSeq(w, 1, n), a, run[n])
  <2>1. f \in [0 .. n -> A] /\ f[0] = a /\ f[n] = run[n]
    BY <1>1, <1>2
  <2>2. ASSUME NEW i \in 1 .. n PROVE <<f[i - 1], w[i], f[i]>> \in rel
    <3>1. i - 1 \in 0 .. n /\ i \in 0 .. n /\ i \in 1 .. Len(w)
      BY <1>2
    <3> QED
      BY <1>1, <3>1
  <2> HIDE DEF f
  <2> QED
    BY <1>3, <2>1, <2>2 DEF Path
<1>5. Path(rel, A, SubSeq(w, n + 1, Len(w)), run[n], c)
  <2>1. g \in [0 .. Len(w) - n -> A] /\ g[0] = run[n] /\ g[Len(w) - n] = c
    BY <1>1, <1>2
  <2>2. ASSUME NEW i \in 1 .. Len(w) - n PROVE <<g[i - 1], w[n + i], g[i]>> \in rel
    <3>1. /\ i - 1 \in 0 .. Len(w) - n /\ i \in 0 .. Len(w) - n /\ n + i \in 1 .. Len(w)
          /\ n + (i - 1) = n + i - 1
      BY <1>2
    <3>2. g[i - 1] = run[n + i - 1] /\ g[i] = run[n + i]
      BY <3>1
    <3> QED
      BY <1>1, <3>1, <3>2
  <2> HIDE DEF g
  <2> QED
    BY <1>3, <2>1, <2>2 DEF Path
<1>6. run[n] \in A
  BY <1>1, <1>2
<1> QED
  BY <1>4, <1>5, <1>6

\* Where the first elements leave no choice, the path goes where they lead.
LEMMA PathFollow ==
    ASSUME NEW rel, NEW A, NEW U, NEW w \in Seq(U), NEW a, NEW c, NEW n \in 0 .. Len(w),
           Path(rel, A, w, a, c), NEW f, f[0] = a,
           \A i \in 1 .. n : \A s \in A : <<f[i - 1], w[i], s>> \in rel => s = f[i]
    PROVE  /\ \A i \in 1 .. n : f[i] \in A /\ <<f[i - 1], w[i], f[i]>> \in rel
           /\ Path(rel, A, SubSeq(w, n + 1, Len(w)), f[n], c)
<1>1. PICK run \in [0 .. Len(w) -> A] :
         /\ run[0] = a /\ run[Len(w)] = c
         /\ \A i \in 1 .. Len(w) : <<run[i - 1], w[i], run[i]>> \in rel
  BY DEF Path
<1>2. Len(w) \in Nat /\ n \in Nat /\ n <= Len(w)
  BY LenProperties
<1>3. \A i \in 0 .. n : run[i] = f[i]
  <2> DEFINE Off == {i \in 0 .. n : run[i] # f[i]}
  <2> SUFFICES ASSUME Off # {} PROVE FALSE
    OBVIOUS
  <2>1. Off \subseteq Nat
    BY <1>2
  <2>2. PICK m \in Off : \A i \in Off : m <= i
    BY <2>1, Least
  <2>3. m # 0
    BY <1>1, <2>2
  <2>4. m \in 1 .. n /\ m - 1 \in 0 .. n /\ m \in 1 .. Len(w) /\ m - 1 \notin Off
    BY <1>2, <2>2, <2>3
  <2>5. run[m - 1] = f[m - 1] /\ run[m] \in A
    BY <1>1, <2>4
  <2>6. run[m] = f[m]
    BY <1>1, <2>4, <2>5
  <2> QED
    BY <2>2, <2>6
<1>4. ASSUME NEW i \in 1 .. n PROVE f[i] \in A /\ <<f[i - 1], w[i], f[i]>> \in rel
  <2>1. i \in 0 .. n /\ i - 1 \in 0 .. n /\ i \in 1 .. Len(w) /\ i \in 0 .. Len(w)
    BY <1>2
  <2> QED
    BY <1>1, <1>3, <2>1
<1>5. Path(rel, A, SubSeq(w, n + 1, Len(w)), f[n], c)
  <2> DEFINE g == [i \in 0 .. Len(w) - n |-> run[n + i]]
  <2>1. /\ Len(SubSeq(w, n + 1, Len(w))) = Len(w) - n
        /\ \A i \in 1 .. Len(w) - n : SubSeq(w, n + 1, Len(w))[i] = w[n + i]
    BY <1>2
  <2>2. n \in 0 .. n
    BY <1>2
  <2>3. g \in [0 .. Len(w) - n -> A] /\ g[0] = f[n] /\ g[Len(w) - n] = c
    BY <1>1, <1>2, <1>3, <2>2
  <2>4. ASSUME NEW i \in 1 .. Len(w) - n PROVE <<g[i - 1], w[n + i], g[i]>> \in rel
    <3>1. /\ i - 1 \in 0 .. Len(w) - n /\ i \in 0 .. Len(w) - n /\ n + i \in 1 .. Len(w)
          /\ n + (i - 1) = n + i - 1
      BY <1>2
    <3>2. g[i - 1] = run[n + i - 1] /\ g[i] = run[n + i]
      BY <3>1
    <3> QED
      BY <1>1, <3>1, <3>2
  <2> HIDE DEF g
  <2> QED
    BY <2>1, <2>3, <2>4 DEF Path
<1> QED
  BY <1>4, <1>5

-----------------------------------------------------------------------------
(* Stretches of a text                                                       *)

\* s is what the text w has behind its first p bytes, up to its q-th.
Stretch(s, w, p, q) ==
    /\ p \in Nat /\ q \in Nat /\ p <= q /\ q <= Len(w)
    /\ Len(s) = q - p
    /\ \A i \in 1 .. q - p : s[i] = w[p + i]

LEMMA StretchJoin ==
    ASSUME NEW X, NEW w \in Seq(X), NEW s \in Seq(X), NEW t \in Seq(X), NEW p, NEW q, NEW r,
           Stretch(s, w, p, q), Stretch(t, w, q, r)
    PROVE  Stretch(s \o t, w, p, r)
<1>1. /\ p \in Nat /\ q \in Nat /\ r \in Nat /\ p <= q /\ q <= r /\ r <= Len(w)
      /\ Len(s) = q - p /\ Len(t) = r - q
  BY DEF Stretch
<1>2. /\ Len(s \o t) = Len(s) + Len(t)
      /\ \A i \in 1 .. Len(s) + Len(t) : (s \o t)[i] = IF i <= Len(s) THEN s[i] ELSE t[i - Len(s)]
  BY ConcatProperties
<1>3. Len(s \o t) = r - p
  BY <1>1, <1>2
<1>4. ASSUME NEW i \in 1 .. r - p PROVE (s \o t)[i] = w[p + i]
  <2>1. i \in 1 .. Len(s) + Len(t)
    BY <1>1
  <2>2. CASE i <= Len(s)
    BY <1>1, <1>2, <2>1, <2>2 DEF Stretch
  <2>3. CASE ~(i <= Len(s))
    <3>1. (s \o t)[i] = t[i - Len(s)]
      BY <1>2, <2>1, <2>3
    <3>2. i - Len(s) \in 1 .. r - q /\ q + (i - Len(s)) = p + i
      BY <1>1, <2>1, <2>3
    <3>3. t[i - Len(s)] = w[q + (i - Len(s))]
      BY <3>2 DEF Stretch
    <3> QED
      BY <3>1, <3>2, <3>3
  <2> QED
    BY <2>2, <2>3
<1> QED
  BY <1>1, <1>3, <1>4 DEF Stretch

LEMMA StretchCut ==
    ASSUME NEW X, NEW w \in Seq(X), NEW s \in Seq(X), NEW p, NEW q, Stretch(s, w, p, q),
           NEW n \in 0 .. Len(s)
    PROVE  /\ Stretch(SubSeq(s, 1, n), w, p, p + n)
           /\ Stretch(SubSeq(s, n + 1, Len(s)), w, p + n, q)
           /\ SubSeq(s, 1, n) \in Seq(X) /\ SubSeq(s, n + 1, Len(s)) \in Seq(X)
<1>1. /\ p \in Nat /\ q \in Nat /\ p <= q /\ q <= Len(w) /\ Len(s) = q - p /\ Len(w) \in Nat
      /\ \A i \in 1 .. q - p : s[i] = w[p + i]
  BY LenProperties DEF Stretch
<1>2. \A i \in 1 .. Len(s) : s[i] \in X
  BY ElementOfSeq
<1>3. /\ SubSeq(s, 1, n) \in Seq(X) /\ Len(SubSeq(s, 1, n)) = n
      /\ \A i \in 1 .. n : SubSeq(s, 1, n)[i] = s[i]
  BY <1>1, <1>2
<1>4. /\ SubSeq(s, n + 1, Len(s)) \in Seq(X) /\ Len(SubSeq(s, n + 1, Len(s))) = Len(s) - n
      /\ \A i \in 1 .. Len(s) - n : SubSeq(s, n + 1, Len(s))[i] = s[n + i]
  BY <1>1, <1>2
<1>5. Stretch(SubSeq(s, 1, n), w, p, p + n)
  BY <1>1, <1>3 DEF Stretch
<1>6. Stretch(SubSeq(s, n + 1, Len(s)), w, p + n, q)
  <2>1. ASSUME NEW i \in 1 .. q - (p + n)
        PROVE  SubSeq(s, n + 1, Len(s))[i] = w[(p + n) + i]
    <3>1. i \in 1 .. Len(s) - n /\ n + i \in 1 .. q - p /\ (p + n) + i = p + (n + i)
      BY <1>1
    <3> QED
      BY <1>1, <1>4, <3>1
  <2>2. p + n \in Nat /\ p + n <= q /\ Len(s) - n = q - (p + n)
    BY <1>1
  <2> QED
    BY <1>1, <1>4, <2>1, <2>2 DEF Stretch
<1> QED
  BY <1>3, <1>4, <1>5, <1>6

LEMMA StretchSame ==
    ASSUME NEW X, NEW w \in Seq(X), NEW s \in Seq(X), NEW t \in Seq(X), NEW p, NEW q,
           Stretch(s, w, p, q), Stretch(t, w, p, q)
    PROVE  s = t
<1>1. Len(s) = Len(t) /\ \A i \in 1 .. Len(s) : s[i] = t[i]
  BY DEF Stretch
<1> QED
  BY <1>1, SeqEqual

\* A stretch of a beginning of the text.
LEMMA StretchWider ==
    ASSUME NEW X, NEW w \in Seq(X), NEW u \in Seq(X), NEW s, NEW p, NEW q, Stretch(s, w, p, q)
    PROVE  Stretch(s, w \o u, p, q)
<1>1. /\ p \in Nat /\ q \in Nat /\ p <= q /\ q <= Len(w) /\ Len(w) \in Nat /\ Len(u) \in Nat
  BY LenProperties DEF Stretch
<1>2. Len(w \o u) = Len(w) + Len(u) /\ \A i \in 1 .. Len(w) : (w \o u)[i] = w[i]
  BY <1>1, ConcatProperties
<1>3. \A i \in 1 .. q - p : p + i \in 1 .. Len(w)
  BY <1>1
<1> QED
  BY <1>1, <1>2, <1>3 DEF Stretch

\* What is put behind a text.
LEMMA StretchLast ==
    ASSUME NEW X, NEW w \in Seq(X), NEW u \in Seq(X)
    PROVE  Stretch(u, w \o u, Len(w), Len(w) + Len(u))
<1>1. Len(w) \in Nat /\ Len(u) \in Nat /\ Len(w \o u) = Len(w) + Len(u)
  BY LenProperties, ConcatProperties
<1>2. \A i \in 1 .. Len(u) : (w \o u)[Len(w) + i] = u[i]
  <2>1. ASSUME NEW i \in 1 .. Len(u) PROVE (w \o u)[Len(w) + i] = u[i]
    <3>1. Len(w) + i \in 1 .. Len(w) + Len(u) /\ ~(Len(w) + i <= Len(w)) /\ (Len(w) + i) - Len(w) = i
      BY <1>1
    <3> QED
      BY <3>1, ConcatProperties
  <2> QED
    BY <2>1
<1> QED
  BY <1>1, <1>2 DEF Stretch

\* A stretch of a text that something precedes.
LEMMA StretchShift ==
    ASSUME NEW X, NEW w \in Seq(X), NEW u \in Seq(X), NEW s, NEW p, NEW q, Stretch(s, w, p, q)
    PROVE  Stretch(s, u \o w, Len(u) + p, Len(u) + q)
<1>1. /\ p \in Nat /\ q \in Nat /\ p <= q /\ q <= Len(w) /\ Len(w) \in Nat /\ Len(u) \in Nat
      /\ Len(u \o w) = Len(u) + Len(w) /\ Len(s) = q - p
  BY LenProperties, ConcatProperties DEF Stretch
<1>2. ASSUME NEW i \in 1 .. q - p PROVE s[i] = (u \o w)[Len(u) + p + i]
  <2>1. p + i \in 1 .. Len(w) /\ s[i] = w[p + i]
    BY <1>1 DEF Stretch
  <2>2. Stretch(w, u \o w, Len(u), Len(u) + Len(w))
    BY StretchLast
  <2>3. w[p + i] = (u \o w)[Len(u) + (p + i)]
    BY <1>1, <2>1, <2>2 DEF Stretch
  <2>4. Len(u) + (p + i) = Len(u) + p + i
    BY <1>1
  <2> QED
    BY <2>1, <2>3, <2>4
<1>3. (Len(u) + q) - (Len(u) + p) = q - p
  BY <1>1
<1> QED
  BY <1>1, <1>2, <1>3 DEF Stretch

LEMMA StretchNone ==
    ASSUME NEW X, NEW w \in Seq(X), NEW p \in 0 .. Len(w)
    PROVE  Stretch(<<>>, w, p, p) /\ <<>> \in Seq(X)
<1>1. Len(w) \in Nat /\ <<>> \in Seq(X) /\ Len(<<>>) = 0
  BY LenProperties, NoElement
<1>2. p - p = 0 /\ p \in Nat /\ \A i \in 1 .. p - p : FALSE
  BY <1>1
<1> QED
  BY <1>1, <1>2 DEF Stretch

LEMMA StretchPart ==
    ASSUME NEW X, NEW w \in Seq(X), NEW t \in Seq(X), NEW c, Stretch(t, w, c, c + Len(t)), c \in Nat,
           NEW a \in Nat, NEW n \in Nat, a + n <= Len(t)
    PROVE  /\ Stretch(SubSeq(t, a + 1, a + n), w, c + a, c + a + n)
           /\ SubSeq(t, a + 1, a + n) \in Seq(X)
<1>1. Len(t) \in Nat /\ Len(w) \in Nat /\ c + Len(t) <= Len(w)
  BY LenProperties DEF Stretch
<1> DEFINE u == SubSeq(t, a + 1, a + n)
<1>2. u \in Seq(X) /\ Len(u) = n /\ \A i \in 1 .. n : u[i] = t[a + i]
  BY <1>1
<1> HIDE DEF u
<1>3. ASSUME NEW i \in 1 .. n PROVE u[i] = w[(c + a) + i]
  <2>1. a + i \in 1 .. (c + Len(t)) - c /\ c + (a + i) = (c + a) + i
    BY <1>1
  <2>2. t[a + i] = w[c + (a + i)]
    BY <2>1 DEF Stretch
  <2> QED
    BY <1>2, <2>1, <2>2
<1>4. c + a \in Nat /\ c + a + n \in Nat /\ c + a <= c + a + n /\ c + a + n <= Len(w)
      /\ (c + a + n) - (c + a) = n
  BY <1>1
<1>5. Stretch(u, w, c + a, c + a + n)
  BY <1>2, <1>3, <1>4 DEF Stretch
<1> QED
  BY <1>2, <1>5 DEF u

\* A beginning of t, and what follows it.
LEMMA PrefixGrows ==
    ASSUME NEW X, NEW t \in Seq(X), NEW u \in Seq(X), NEW c \in Nat, NEW n \in 0 .. Len(u),
           c + n <= Len(t), \A i \in 1 .. n : u[i] = t[c + i]
    PROVE  SubSeq(t, 1, c) \o SubSeq(u, 1, n) = SubSeq(t, 1, c + n)
<1> DEFINE x == SubSeq(t, 1, c)
           y == SubSeq(u, 1, n)
           z == SubSeq(t, 1, c + n)
<1>1. n \in Nat /\ Len(t) \in Nat /\ Len(u) \in Nat
  BY LenProperties
<1>2. x \in Seq(X) /\ Len(x) = c /\ \A i \in 1 .. c : x[i] = t[i]
  BY <1>1
<1>3. y \in Seq(X) /\ Len(y) = n /\ \A i \in 1 .. n : y[i] = u[i]
  BY <1>1
<1>4. z \in Seq(X) /\ Len(z) = c + n /\ \A i \in 1 .. c + n : z[i] = t[i]
  BY <1>1
<1> HIDE DEF x, y, z
<1>5. /\ x \o y \in Seq(X) /\ Len(x \o y) = Len(x) + Len(y)
      /\ \A i \in 1 .. Len(x) + Len(y) : (x \o y)[i] = IF i <= Len(x) THEN x[i] ELSE y[i - Len(x)]
  BY <1>2, <1>3, ConcatProperties
<1>6. ASSUME NEW i \in 1 .. c + n PROVE (x \o y)[i] = z[i]
  <2>1. CASE i <= c
    <3>1. i \in 1 .. c
      BY <2>1
    <3> QED
      BY <1>2, <1>3, <1>4, <1>5, <2>1, <3>1
  <2>2. CASE ~(i <= c)
    <3>1. i - c \in 1 .. n /\ c + (i - c) = i
      BY <1>1, <2>2
    <3>2. (x \o y)[i] = y[i - c]
      BY <1>2, <1>3, <1>5, <2>2
    <3> QED
      BY <1>3, <1>4, <3>1, <3>2
  <2> QED
    BY <2>1, <2>2
<1>7. x \o y = z
  BY <1>2, <1>3, <1>4, <1>5, <1>6, SeqEqual
<1> QED
  BY <1>7 DEF x, y, z

LEMMA SeqWider ==
    ASSUME NEW S, NEW X, S \subseteq X, NEW s \in Seq(S)
    PROVE  s \in Seq(X)
<1>1. Len(s) \in Nat /\ \A i \in 1 .. Len(s) : s[i] \in X
  BY LenProperties, ElementOfSeq
<1>2. s = [i \in 1 .. Len(s) |-> s[i]]
  BY LenProperties
<1>3. [i \in 1 .. Len(s) |-> s[i]] \in Seq(X)
  BY <1>1
<1> QED
  BY <1>2, <1>3

\* The first element.
LEMMA FirstAlone ==
    ASSUME NEW X, NEW u \in Seq(X), Len(u) >= 1
    PROVE  SubSeq(u, 1, 1) = <<u[1]>>
<1>1. u[1] \in X /\ Len(u) \in Nat
  BY ElementOfSeq
<1>2. SubSeq(u, 1, 1) \in Seq(X) /\ Len(SubSeq(u, 1, 1)) = 1 /\ SubSeq(u, 1, 1)[1] = u[1]
  BY <1>1
<1>3. <<u[1]>> \in Seq(X) /\ Len(<<u[1]>>) = 1 /\ <<u[1]>>[1] = u[1]
  BY <1>1
<1>4. \A i \in 1 .. 1 : SubSeq(u, 1, 1)[i] = <<u[1]>>[i]
  BY <1>2, <1>3
<1> QED
  BY <1>2, <1>3, <1>4, SeqEqual

-----------------------------------------------------------------------------
(* FlattenSeq puts one behind the other.  Its function exists, for the lists  *)
(* cut off at every length: else there were a shortest one without it.        *)

Lists == INSTANCE SequencesExt

FlatSoFar(g, s, m) ==
    g = [i \in 1 .. m |-> IF i = 1 THEN s[i] ELSE g[i - 1] \o s[i]]

LEMMA FlatExists ==
    ASSUME NEW s, NEW m \in Nat
    PROVE  \E g : FlatSoFar(g, s, m)
<1> DEFINE Without(n) == ~\E g : FlatSoFar(g, s, n)
           Bad == {n \in Nat : Without(n)}
<1> SUFFICES ASSUME Bad # {} PROVE FALSE
  OBVIOUS
<1> HIDE DEF Without
<1>1. PICK n \in Bad : \A k \in Bad : n <= k
  BY Least
<1> USE DEF Without
<1>2. n # 0
  <2>1. [i \in 1 .. 0 |-> 0] = [i \in 1 .. 0 |-> IF i = 1 THEN s[i] ELSE [j \in 1 .. 0 |-> 0][i - 1] \o s[i]]
    OBVIOUS
  <2>2. FlatSoFar([i \in 1 .. 0 |-> 0], s, 0)
    BY <2>1 DEF FlatSoFar
  <2> QED
    BY <2>2
<1>3. n - 1 \in Nat /\ n - 1 \notin Bad
  BY <1>1, <1>2
<1>4. PICK g : FlatSoFar(g, s, n - 1)
  BY <1>3
<1> DEFINE next(k, f) == IF k = 1 THEN s[k] ELSE f[k - 1] \o s[k]
           h == [k \in 1 .. n |-> IF k = n THEN next(n, g) ELSE g[k]]
<1>5. \A k \in 1 .. n - 1 : h[k] = g[k]
  BY <1>3
<1>6. g = [k \in 1 .. n - 1 |-> next(k, g)]
  BY <1>4 DEF FlatSoFar
<1>7. ASSUME NEW k \in 1 .. n PROVE next(k, g) = next(k, h)
  <2>1. k = 1 \/ k - 1 \in 1 .. n - 1
    BY <1>3
  <2> QED
    BY <1>5, <2>1
<1>8. h = [k \in 1 .. n |-> next(k, g)]
  <2>1. \A k \in 1 .. n - 1 : g[k] = next(k, g)
    BY <1>6, Zenon
  <2> HIDE DEF next
  <2>2. \A k \in 1 .. n : k = n \/ k \in 1 .. n - 1
    OBVIOUS
  <2> QED
    BY <1>2, <2>1, <2>2
<1>9. h = [k \in 1 .. n |-> next(k, h)]
  <2> HIDE DEF h, next
  <2> QED
    BY <1>7, <1>8
<1>10. FlatSoFar(h, s, n)
  BY <1>9, Zenon DEF FlatSoFar
<1> QED
  BY <1>10

\* The list up to its m-th member, flat.
Flat(s, m) == Lists!FlattenSeq(SubSeq(s, 1, m))

LEMMA FlatIs ==
    ASSUME NEW X, NEW s \in Seq(Seq(X)), NEW g, FlatSoFar(g, s, Len(s))
    PROVE  \A m \in 1 .. Len(s) : Flat(s, m) = g[m]
<1>1. Len(s) \in Nat
  BY LenProperties
<1>2. \A i \in 1 .. Len(s) : g[i] = IF i = 1 THEN s[i] ELSE g[i - 1] \o s[i]
  BY Zenon DEF FlatSoFar
<1>3. ASSUME NEW m \in 1 .. Len(s) PROVE Flat(s, m) = g[m]
  <2> DEFINE t == SubSeq(s, 1, m)
             f == CHOOSE f : FlatSoFar(f, t, m)
             Bad == {i \in 1 .. m : f[i] # g[i]}
  <2>1. Len(t) = m /\ m # 0 /\ \A i \in 1 .. m : t[i] = s[i]
    BY <1>1
  <2>2. Flat(s, m) = f[m]
    BY <2>1 DEF Flat, Lists!FlattenSeq, FlatSoFar
  <2>3. FlatSoFar(f, t, m)
    <3>1. m \in Nat
      BY <1>1
    <3> HIDE DEF t
    <3>2. \E h : FlatSoFar(h, t, m)
      BY <3>1, FlatExists
    <3> QED
      BY <3>2, Zenon
  <2> HIDE DEF f, t
  <2>4. \A i \in 1 .. m : f[i] = IF i = 1 THEN t[i] ELSE f[i - 1] \o t[i]
    BY <2>3, Zenon DEF FlatSoFar
  <2>5. ASSUME NEW i \in Bad, \A k \in Bad : i <= k PROVE FALSE
    <3>1. i \in 1 .. Len(s) /\ i \in 1 .. m
      BY <1>1
    <3>2. CASE i = 1
      BY <1>2, <2>1, <2>4, <3>1, <3>2
    <3>3. CASE i # 1
      <4>1. i - 1 \in 1 .. m /\ ~(i <= i - 1)
        BY <1>1, <3>1, <3>3
      <4>2. f[i - 1] = g[i - 1]
        <5>1. i - 1 \notin Bad
          <6> HIDE DEF Bad
          <6> QED
            BY <2>5, <4>1
        <5> QED
          BY <4>1, <5>1
      <4> QED
        BY <1>2, <2>1, <2>4, <3>1, <3>3, <4>2
    <3> QED
      BY <3>2, <3>3
  <2>6. Bad = {}
    <3>1. Bad \subseteq Nat
      BY <1>1
    <3> QED
      BY <2>5, <3>1, Least
  <2>7. m \in 1 .. m
    BY <1>1
  <2>8. f[m] = g[m]
    BY <2>6, <2>7
  <2> QED
    BY <2>2, <2>8
<1> QED
  BY <1>3

\* Nothing is nothing, and one more goes behind those before it.
LEMMA FlatSteps ==
    ASSUME NEW X, NEW s \in Seq(Seq(X))
    PROVE  /\ Flat(s, 0) = <<>>
           /\ \A m \in 1 .. Len(s) : Flat(s, m) = Flat(s, m - 1) \o s[m]
           /\ \A m \in 0 .. Len(s) : Flat(s, m) \in Seq(X)
           /\ Flat(s, Len(s)) = Lists!FlattenSeq(s)
<1>1. Len(s) \in Nat /\ \A i \in 1 .. Len(s) : s[i] \in Seq(X)
  BY LenProperties, ElementOfSeq
<1>2. PICK g : FlatSoFar(g, s, Len(s))
  BY <1>1, FlatExists
<1>3. \A m \in 1 .. Len(s) : Flat(s, m) = g[m]
  BY <1>2, FlatIs
<1>4. \A i \in 1 .. Len(s) : g[i] = IF i = 1 THEN s[i] ELSE g[i - 1] \o s[i]
  BY <1>2, Zenon DEF FlatSoFar
<1>5. Flat(s, 0) = <<>>
  <2>1. SubSeq(s, 1, 0) = <<>> /\ Len(<<>>) = 0
    OBVIOUS
  <2> QED
    BY <2>1 DEF Flat, Lists!FlattenSeq
<1>6. ASSUME NEW m \in 1 .. Len(s) PROVE Flat(s, m) = Flat(s, m - 1) \o s[m]
  <2>1. CASE m = 1
    <3>1. Flat(s, m) = s[m] /\ s[m] \in Seq(X) /\ Flat(s, m - 1) = <<>>
      BY <1>1, <1>3, <1>4, <1>5, <2>1
    <3>2. <<>> \o s[m] = s[m]
      BY <3>1, ConcatEmptySeq
    <3> QED
      BY <3>1, <3>2
  <2>2. CASE m # 1
    <3>1. m - 1 \in 1 .. Len(s)
      BY <1>1, <2>2
    <3> QED
      BY <1>3, <1>4, <2>2, <3>1
  <2> QED
    BY <2>1, <2>2
<1>7. \A m \in 0 .. Len(s) : Flat(s, m) \in Seq(X)
  <2> DEFINE Bad == {m \in 0 .. Len(s) : Flat(s, m) \notin Seq(X)}
  <2>1. ASSUME NEW m \in Bad, \A k \in Bad : m <= k PROVE FALSE
    <3>0. <<>> \in Seq(X)
      BY NoElement
    <3>1. m # 0
      BY <1>5, <3>0
    <3>2. m \in 1 .. Len(s) /\ m - 1 \in 0 .. Len(s) /\ m - 1 \notin Bad
      BY <1>1, <2>1, <3>1
    <3>3. Flat(s, m - 1) \in Seq(X) /\ s[m] \in Seq(X)
      BY <1>1, <3>2
    <3>4. Flat(s, m) \in Seq(X)
      BY <1>6, <3>2, <3>3, ConcatProperties
    <3> QED
      BY <3>4
  <2>2. Bad \subseteq Nat
    BY <1>1
  <2>3. Bad = {}
    BY <2>1, <2>2, Least
  <2> QED
    BY <2>3
<1>8. Flat(s, Len(s)) = Lists!FlattenSeq(s)
  <2>1. SubSeq(s, 1, Len(s)) = s
    <3>1. /\ SubSeq(s, 1, Len(s)) \in Seq(Seq(X)) /\ Len(SubSeq(s, 1, Len(s))) = Len(s)
          /\ \A i \in 1 .. Len(s) : SubSeq(s, 1, Len(s))[i] = s[i]
      BY <1>1
    <3> QED
      BY <3>1, SeqEqual
  <2> QED
    BY <2>1 DEF Flat
<1> QED
  BY <1>5, <1>6, <1>7, <1>8

\* The members of s lie in w one behind the other.
Strung(s, w, off) ==
    /\ off \in [1 .. Len(s) + 1 -> Nat]
    /\ \A g \in 1 .. Len(s) : Stretch(s[g], w, off[g], off[g + 1])

\* And do so when it is flat.
LEMMA FlatStrung ==
    ASSUME NEW X, NEW s \in Seq(Seq(X))
    PROVE  \E off : /\ Strung(s, Lists!FlattenSeq(s), off)
                    /\ off[1] = 0 /\ off[Len(s) + 1] = Len(Lists!FlattenSeq(s))
<1> DEFINE off == [g \in 1 .. Len(s) + 1 |-> Len(Flat(s, g - 1))]
           Lies(m) == \A g \in 1 .. m : Stretch(s[g], Flat(s, m), off[g], off[g + 1])
           Bad == {m \in 0 .. Len(s) : ~Lies(m)}
<1>1. Len(s) \in Nat /\ \A i \in 1 .. Len(s) : s[i] \in Seq(X)
  BY LenProperties, ElementOfSeq
<1>2. /\ Flat(s, 0) = <<>>
      /\ \A m \in 1 .. Len(s) : Flat(s, m) = Flat(s, m - 1) \o s[m]
      /\ \A m \in 0 .. Len(s) : Flat(s, m) \in Seq(X)
      /\ Flat(s, Len(s)) = Lists!FlattenSeq(s)
  BY FlatSteps
<1>3. \A g \in 1 .. Len(s) + 1 : off[g] = Len(Flat(s, g - 1)) /\ g - 1 \in 0 .. Len(s)
  BY <1>1
<1>4. off \in [1 .. Len(s) + 1 -> Nat]
  BY <1>1, <1>2, <1>3, LenProperties
<1> HIDE DEF off, Lies
<1>5. ASSUME NEW m \in Bad, \A k \in Bad : m <= k PROVE FALSE
  <2>1. m # 0
    <3>1. Lies(0)
      BY DEF Lies
    <3> QED
      BY <3>1
  <2>2. m \in 1 .. Len(s) /\ m - 1 \in 0 .. Len(s) /\ ~(m <= m - 1)
    BY <1>1, <2>1
  <2>3. \A g \in 1 .. m - 1 : Stretch(s[g], Flat(s, m - 1), off[g], off[g + 1])
    <3>1. m - 1 \notin Bad
      <4> HIDE DEF Bad
      <4> QED
        BY <1>5, <2>2
    <3> QED
      BY <2>2, <3>1 DEF Lies
  <2>4. /\ Flat(s, m - 1) \in Seq(X) /\ s[m] \in Seq(X)
        /\ Flat(s, m) = Flat(s, m - 1) \o s[m]
    BY <1>1, <1>2, <2>2
  <2>5. \A g \in 1 .. m - 1 : Stretch(s[g], Flat(s, m), off[g], off[g + 1])
    BY <2>3, <2>4, StretchWider
  <2>6. off[m] = Len(Flat(s, m - 1)) /\ off[m + 1] = Len(Flat(s, m - 1)) + Len(s[m])
    <3>1. off[m] = Len(Flat(s, m - 1)) /\ off[m + 1] = Len(Flat(s, m))
      BY <1>1, <1>3, <2>2
    <3> QED
      BY <2>4, <3>1, ConcatProperties
  <2>7. Stretch(s[m], Flat(s, m), off[m], off[m + 1])
    BY <2>4, <2>6, StretchLast
  <2>8. \A g \in 1 .. m : g = m \/ g \in 1 .. m - 1
    BY <2>2
  <2>9. Lies(m)
    BY <2>5, <2>7, <2>8 DEF Lies
  <2> QED
    BY <2>9
<1>6. Bad = {}
  <2>1. Bad \subseteq Nat
    BY <1>1
  <2> HIDE DEF Bad
  <2> QED
    BY <1>5, <2>1, Least
<1>7. \A g \in 1 .. Len(s) : Stretch(s[g], Lists!FlattenSeq(s), off[g], off[g + 1])
  <2>1. Len(s) \in 0 .. Len(s) /\ Len(s) \notin Bad
    BY <1>1, <1>6
  <2>2. \A g \in 1 .. Len(s) : Stretch(s[g], Flat(s, Len(s)), off[g], off[g + 1])
    BY <2>1 DEF Lies
  <2> QED
    BY <1>2, <2>2
<1>8. off[1] = 0 /\ off[Len(s) + 1] = Len(Lists!FlattenSeq(s))
  <2>1. 1 \in 1 .. Len(s) + 1 /\ Len(s) + 1 \in 1 .. Len(s) + 1
    BY <1>1
  <2> QED
    BY <1>1, <1>2, <1>3, <2>1
<1> QED
  BY <1>4, <1>7, <1>8 DEF Strung

\* Up to its m-th member, too.
LEMMA FlatStretch ==
    ASSUME NEW X, NEW s \in Seq(Seq(X)), NEW w \in Seq(X), NEW off, Strung(s, w, off),
           Len(s) # 0
    PROVE  \A m \in 0 .. Len(s) : Stretch(Flat(s, m), w, off[1], off[m + 1])
<1> DEFINE Lies(m) == Stretch(Flat(s, m), w, off[1], off[m + 1])
           Bad == {m \in 0 .. Len(s) : ~Lies(m)}
<1>1. Len(s) \in Nat /\ Len(w) \in Nat /\ \A i \in 1 .. Len(s) : s[i] \in Seq(X)
  BY LenProperties, ElementOfSeq
<1>2. /\ Flat(s, 0) = <<>>
      /\ \A m \in 1 .. Len(s) : Flat(s, m) = Flat(s, m - 1) \o s[m]
      /\ \A m \in 0 .. Len(s) : Flat(s, m) \in Seq(X)
  BY FlatSteps
<1>3. off \in [1 .. Len(s) + 1 -> Nat] /\ off[1] \in Nat
      /\ \A g \in 1 .. Len(s) : Stretch(s[g], w, off[g], off[g + 1])
  <2>1. off \in [1 .. Len(s) + 1 -> Nat]
    BY Zenon DEF Strung
  <2>2. \A g \in 1 .. Len(s) : Stretch(s[g], w, off[g], off[g + 1])
    BY Zenon DEF Strung
  <2>3. 1 \in 1 .. Len(s) + 1
    BY <1>1
  <2> QED
    BY <2>1, <2>2, <2>3
<1> HIDE DEF Lies
<1>4. ASSUME NEW m \in Bad, \A k \in Bad : m <= k, m # 0 PROVE FALSE
  <2>1. m \in 1 .. Len(s) /\ m - 1 \in 0 .. Len(s) /\ ~(m <= m - 1) /\ (m - 1) + 1 = m
    BY <1>1, <1>4
  <2>2. Stretch(Flat(s, m - 1), w, off[1], off[m])
    <3>1. m - 1 \notin Bad
      <4> HIDE DEF Bad
      <4> QED
        BY <1>4, <2>1
    <3> QED
      BY <2>1, <3>1 DEF Lies
  <2>3. Flat(s, m) = Flat(s, m - 1) \o s[m] /\ Flat(s, m - 1) \in Seq(X) /\ s[m] \in Seq(X)
    BY <1>1, <1>2, <2>1
  <2>4. Stretch(Flat(s, m), w, off[1], off[m + 1])
    BY <1>3, <2>1, <2>2, <2>3, StretchJoin
  <2> QED
    BY <2>4 DEF Lies
<1>5. Lies(0)
  <2>1. off[1] <= Len(w)
    <3>1. Stretch(s[1], w, off[1], off[1 + 1])
      BY <1>1, <1>3
    <3>2. off[1] <= off[1 + 1] /\ off[1 + 1] <= Len(w) /\ off[1 + 1] \in Nat
      BY <3>1 DEF Stretch
    <3> QED
      BY <1>1, <1>3, <3>2
  <2>2. Stretch(<<>>, w, off[1], off[1])
    BY <1>1, <1>3, <2>1 DEF Stretch
  <2> QED
    BY <1>2, <2>2 DEF Lies
<1>6. Bad = {}
  <2>1. Bad \subseteq Nat /\ \A m \in Bad : m # 0
    BY <1>1, <1>5
  <2> HIDE DEF Bad
  <2> QED
    BY <1>4, <2>1, Least
<1> QED
  BY <1>6 DEF Lies

\* A flat list of triples.
LEMMA FlatThrees ==
    ASSUME NEW X, NEW s \in Seq(Seq(X)), \A i \in 1 .. Len(s) : Len(s[i]) = 3
    PROVE  /\ Lists!FlattenSeq(s) \in Seq(X) /\ Len(Lists!FlattenSeq(s)) = 3 * Len(s)
           /\ \A i \in 1 .. Len(s) :
                  /\ Lists!FlattenSeq(s)[3 * i - 2] = s[i][1]
                  /\ Lists!FlattenSeq(s)[3 * i - 1] = s[i][2]
                  /\ Lists!FlattenSeq(s)[3 * i] = s[i][3]
<1> DEFINE w == Lists!FlattenSeq(s)
<1>1. Len(s) \in Nat
  BY LenProperties
<1>2. w \in Seq(X)
  <2>1. Len(s) \in 0 .. Len(s)
    BY <1>1
  <2> QED
    BY <2>1, FlatSteps
<1>3. PICK off : Strung(s, w, off) /\ off[1] = 0 /\ off[Len(s) + 1] = Len(w)
  BY FlatStrung
<1> HIDE DEF w
<1>4. /\ off \in [1 .. Len(s) + 1 -> Nat]
      /\ \A g \in 1 .. Len(s) : Stretch(s[g], w, off[g], off[g + 1])
  BY <1>3 DEF Strung
<1>5. \A g \in 1 .. Len(s) : off[g] \in Nat /\ off[g + 1] \in Nat /\ off[g + 1] = off[g] + 3
  <2>1. ASSUME NEW g \in 1 .. Len(s)
        PROVE  off[g] \in Nat /\ off[g + 1] \in Nat /\ off[g + 1] = off[g] + 3
    <3>1. g \in 1 .. Len(s) + 1 /\ g + 1 \in 1 .. Len(s) + 1
      BY <1>1
    <3>2. off[g] \in Nat /\ off[g + 1] \in Nat
      BY <1>4, <3>1
    <3>3. Len(s[g]) = off[g + 1] - off[g] /\ Len(s[g]) = 3
      BY <1>4 DEF Stretch
    <3>4. off[g + 1] - off[g] = 3
      BY <3>3
    <3>5. \A a, c \in Nat : c - a = 3 => c = a + 3
      OBVIOUS
    <3> QED
      BY <3>2, <3>4, <3>5
  <2> QED
    BY <2>1
<1>6. \A g \in 1 .. Len(s) + 1 : off[g] = 3 * (g - 1)
  <2> DEFINE Bad == {g \in 1 .. Len(s) + 1 : off[g] # 3 * (g - 1)}
  <2>1. ASSUME NEW g \in Bad, \A k \in Bad : g <= k PROVE FALSE
    <3>1. g # 1
      BY <1>3
    <3>2. g - 1 \in 1 .. Len(s) /\ g - 1 \in 1 .. Len(s) + 1 /\ ~(g <= g - 1) /\ (g - 1) + 1 = g
      BY <1>1, <3>1
    <3>3. off[g - 1] = 3 * (g - 2)
      <4>1. g - 1 \notin Bad
        <5> HIDE DEF Bad
        <5> QED
          BY <2>1, <3>2
      <4> QED
        BY <3>2, <4>1
    <3>4. off[g] = off[g - 1] + 3
      BY <1>5, <3>2
    <3> QED
      BY <3>3, <3>4
  <2>2. Bad \subseteq Nat
    BY <1>1
  <2>3. Bad = {}
    <3> HIDE DEF Bad
    <3> QED
      BY <2>1, <2>2, Least
  <2> QED
    BY <2>3
<1>7. Len(w) = 3 * Len(s)
  <2>1. Len(s) + 1 \in 1 .. Len(s) + 1
    BY <1>1
  <2> QED
    BY <1>1, <1>3, <1>6, <2>1
<1>8. ASSUME NEW i \in 1 .. Len(s)
      PROVE  w[3 * i - 2] = s[i][1] /\ w[3 * i - 1] = s[i][2] /\ w[3 * i] = s[i][3]
  <2>1. off[i] = 3 * i - 3 /\ off[i + 1] = 3 * i
    <3>1. i \in 1 .. Len(s) + 1 /\ i + 1 \in 1 .. Len(s) + 1
      BY <1>1
    <3> QED
      BY <1>6, <3>1
  <2>2. \A j \in 1 .. 3 : s[i][j] = w[3 * i - 3 + j]
    BY <1>4, <2>1 DEF Stretch
  <2> QED
    BY <2>2
<1> QED
  BY <1>2, <1>7, <1>8 DEF w

\* The segments left when n bytes of the first are gone.
Shortened(g, n) ==
    IF n = Len(g[1]) THEN Tail(g) ELSE <<SubSeq(g[1], n + 1, Len(g[1]))>> \o Tail(g)

ShortenedLies(X, g, n, w, o) ==
    /\ Shortened(g, n) \in Seq(Seq(X)) /\ Stretch(SubSeq(g[1], 1, n), w, o[1], o[1] + n)
    /\ SubSeq(g[1], 1, n) \in Seq(X)
    /\ \E x : /\ Strung(Shortened(g, n), w, x) /\ x[1] = o[1] + n
              /\ x[Len(Shortened(g, n)) + 1] = o[Len(g) + 1]

LEMMA SegmentCut ==
    ASSUME NEW X, NEW w \in Seq(X), NEW g \in Seq(Seq(X)), Len(g) # 0, NEW o, Strung(g, w, o),
           NEW n \in 0 .. Len(g[1])
    PROVE  ShortenedLies(X, g, n, w, o)
<1>10. PICK h : h = Shortened(g, n)
  OBVIOUS
<1> DEFINE l == Len(g)
           t == g[1]
<1>1. l \in Nat /\ l >= 1
  <2>1. l \in Nat /\ l # 0
    BY LenProperties
  <2> QED
    BY <2>1
<1>2. t \in Seq(X) /\ Len(t) \in Nat
  <2>1. 1 \in 1 .. Len(g)
    BY <1>1
  <2> QED
    BY <2>1, ElementOfSeq, LenProperties
<1>3. /\ o \in [1 .. l + 1 -> Nat] /\ \A i \in 1 .. l : Stretch(g[i], w, o[i], o[i + 1])
  BY DEF Strung
<1>4. Stretch(t, w, o[1], o[2]) /\ o[1] \in Nat
  <2>1. 1 \in 1 .. l /\ 1 + 1 = 2
    BY <1>1
  <2>2. Stretch(t, w, o[1], o[1 + 1])
    BY <1>3, <2>1
  <2> QED
    BY <2>1, <2>2 DEF Stretch
<1> HIDE DEF t
<1>5. /\ Stretch(SubSeq(t, 1, n), w, o[1], o[1] + n)
      /\ Stretch(SubSeq(t, n + 1, Len(t)), w, o[1] + n, o[2])
      /\ SubSeq(t, 1, n) \in Seq(X) /\ SubSeq(t, n + 1, Len(t)) \in Seq(X)
  <2>1. n \in 0 .. Len(t)
    BY DEF t
  <2> QED
    BY <1>2, <1>4, <2>1, StretchCut
<1>6. /\ Tail(g) \in Seq(Seq(X)) /\ Len(Tail(g)) = l - 1
      /\ \A i \in 1 .. l - 1 : Tail(g)[i] = g[i + 1]
  BY <1>1
<1>7. CASE n = Len(t)
  <2> DEFINE x == [i \in 1 .. l |-> o[i + 1]]
  <2>1. h = Tail(g)
    BY <1>7, <1>10 DEF t, Shortened
  <2>7. Len(h) = l - 1
    BY <1>6, <2>1, Zenon
  <2>2. x \in [1 .. Len(h) + 1 -> Nat] /\ \A i \in 1 .. l : x[i] = o[i + 1]
    <3>1. Len(h) + 1 = l
      BY <1>1, <2>7
    <3>2. \A i \in 1 .. l : i + 1 \in 1 .. l + 1
      BY <1>1
    <3> QED
      BY <1>3, <3>1, <3>2
  <2> HIDE DEF x
  <2>3. ASSUME NEW i \in 1 .. Len(h) PROVE Stretch(h[i], w, x[i], x[i + 1])
    <3>1. i \in 1 .. l - 1 /\ i \in 1 .. l /\ i + 1 \in 1 .. l /\ (i + 1) + 1 \in 1 .. l + 1
      BY <1>1, <2>7
    <3>2. Stretch(g[i + 1], w, o[i + 1], o[(i + 1) + 1])
      BY <1>3, <3>1
    <3> QED
      BY <1>6, <2>1, <2>2, <3>1, <3>2
  <2>4. Strung(h, w, x)
    BY <2>2, <2>3 DEF Strung
  <2>5. x[1] = o[1] + n
    <3>1. 1 \in 1 .. l /\ 1 + 1 = 2
      BY <1>1
    <3>2. x[1] = o[2]
      BY <2>2, <3>1
    <3>3. Len(t) = o[2] - o[1] /\ o[2] \in Nat
      BY <1>4 DEF Stretch
    <3> QED
      BY <1>4, <1>7, <3>2, <3>3
  <2>6. x[Len(h) + 1] = o[l + 1]
    <3>1. Len(h) + 1 = l /\ l \in 1 .. l
      BY <1>1, <2>7
    <3> QED
      BY <2>2, <3>1
  <2> QED
    BY <1>5, <1>6, <1>10, <2>1, <2>4, <2>5, <2>6 DEF t, ShortenedLies
<1>8. CASE n # Len(t)
  <2> DEFINE x == [o EXCEPT ![1] = o[1] + n]
             u == SubSeq(t, n + 1, Len(t))
  <2>1. h = <<u>> \o Tail(g)
    BY <1>8, <1>10 DEF t, Shortened
  <2>2. u \in Seq(X) /\ Stretch(u, w, o[1] + n, o[2])
    BY <1>5
  <2> HIDE DEF u
  <2>3. /\ h \in Seq(Seq(X)) /\ Len(h) = l /\ h[1] = u
        /\ \A i \in 2 .. l : h[i] = g[i]
    <3>1. <<u>> \in Seq(Seq(X)) /\ Len(<<u>>) = 1 /\ <<u>>[1] = u
      BY <2>2
    <3>2. /\ <<u>> \o Tail(g) \in Seq(Seq(X)) /\ Len(<<u>> \o Tail(g)) = 1 + (l - 1)
          /\ \A i \in 1 .. 1 + (l - 1) :
                 (<<u>> \o Tail(g))[i] = IF i <= 1 THEN <<u>>[i] ELSE Tail(g)[i - 1]
      BY <1>6, <3>1, ConcatProperties
    <3>3. ASSUME NEW i \in 2 .. l PROVE h[i] = g[i]
      <4>1. i \in 1 .. 1 + (l - 1) /\ ~(i <= 1) /\ i - 1 \in 1 .. l - 1 /\ (i - 1) + 1 = i
        BY <1>1
      <4> QED
        BY <1>6, <2>1, <3>2, <4>1
    <3>4. 1 \in 1 .. 1 + (l - 1) /\ 1 + (l - 1) = l
      BY <1>1
    <3>5. (<<u>> \o Tail(g))[1] = u
      BY <3>1, <3>2, <3>4
    <3>6. Len(h) = l /\ h[1] = u /\ h \in Seq(Seq(X))
      BY <2>1, <3>2, <3>4, <3>5, Zenon
    <3> QED
      BY <3>3, <3>6
  <2>4. /\ x \in [1 .. l + 1 -> Nat] /\ x[1] = o[1] + n /\ \A i \in 2 .. l + 1 : x[i] = o[i]
    <3>1. n \in Nat
      BY <1>2 DEF t
    <3>2. o[1] + n \in Nat /\ 1 \in 1 .. l + 1 /\ \A i \in 2 .. l + 1 : i \in 1 .. l + 1 /\ i # 1
      BY <1>1, <1>4, <3>1
    <3> QED
      BY <1>3, <3>2
  <2> HIDE DEF x
  <2>5. ASSUME NEW i \in 1 .. Len(h) PROVE Stretch(h[i], w, x[i], x[i + 1])
    <3>1. CASE i = 1
      <4>1. i + 1 = 2 /\ 2 \in 2 .. l + 1
        BY <1>1, <3>1
      <4> QED
        BY <2>2, <2>3, <2>4, <3>1, <4>1
    <3>2. CASE i # 1
      <4>1. i \in 2 .. l /\ i \in 2 .. l + 1 /\ i + 1 \in 2 .. l + 1 /\ i \in 1 .. l
        BY <1>1, <2>3, <3>2
      <4>2. Stretch(g[i], w, o[i], o[i + 1])
        BY <1>3, <4>1
      <4> QED
        BY <2>3, <2>4, <4>1, <4>2
    <3> QED
      BY <3>1, <3>2
  <2>6. Strung(h, w, x) /\ x[Len(h) + 1] = o[l + 1]
    <3>1. l + 1 \in 2 .. l + 1
      BY <1>1
    <3> QED
      BY <2>3, <2>4, <2>5, <3>1 DEF Strung
  <2> QED
    BY <1>5, <1>10, <2>3, <2>4, <2>6 DEF t, ShortenedLies
<1> QED
  BY <1>7, <1>8 DEF t
=============================================================================
