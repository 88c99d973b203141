--------------------------- MODULE SnapshotProofs ---------------------------
(***************************************************************************)
(* What a snapshot of the recorder holds, for every window that can be     *)
(* asked for.                                                              *)
(***************************************************************************)
EXTENDS RecorderProofs

-----------------------------------------------------------------------------
(* Collecting what each element of a sequence contributes.                 *)

\* The contributions G[c[1]], G[c[2]], ... one after another.
Gather(c, G) == FlattenSeq([i \in DOMAIN c |-> G[c[i]]])

\* Gathering over the concatenation d of two sequences.
Gathers(G, A, B) == G \in [A -> Seq(B)]

LEMMA GatherParts ==
    ASSUME NEW A, NEW B, NEW G, Gathers(G, A, B), NEW c \in Seq(A)
    PROVE  /\ [i \in DOMAIN c |-> G[c[i]]] \in Seq(Seq(B)) /\ Len([i \in DOMAIN c |-> G[c[i]]]) = Len(c)
           /\ Gather(c, G) \in Seq(B)
<1>1. DOMAIN c = 1..Len(c) /\ Len(c) \in Nat
  OBVIOUS
<1>2. \A i \in DOMAIN c : G[c[i]] \in Seq(B)
  BY DEF Gathers
<1>3. [i \in DOMAIN c |-> G[c[i]]] \in Seq(Seq(B)) /\ Len([i \in DOMAIN c |-> G[c[i]]]) = Len(c)
  BY <1>1, <1>2
<1> QED
  BY <1>3, FlatSeq DEF Gather

LEMMA GatherConcat ==
    ASSUME NEW A, NEW B, NEW G, Gathers(G, A, B), NEW c \in Seq(A), NEW d \in Seq(A)
    PROVE  Gather(c \o d, G) = Gather(c, G) \o Gather(d, G)
<1> DEFINE M(e) == [i \in DOMAIN e |-> G[e[i]]]
<1>1. c \o d \in Seq(A) /\ Len(c) \in Nat /\ Len(d) \in Nat /\ Len(c \o d) = Len(c) + Len(d)
  BY ConcatProperties
<1>2. /\ M(c) \in Seq(Seq(B)) /\ M(d) \in Seq(Seq(B)) /\ M(c \o d) \in Seq(Seq(B))
      /\ Len(M(c)) = Len(c) /\ Len(M(d)) = Len(d) /\ Len(M(c \o d)) = Len(c) + Len(d)
  BY <1>1, GatherParts
<1>3. M(c) \o M(d) \in Seq(Seq(B)) /\ Len(M(c) \o M(d)) = Len(c) + Len(d)
  <2>1. \A x, y \in Seq(Seq(B)) : x \o y \in Seq(Seq(B)) /\ Len(x \o y) = Len(x) + Len(y)
    BY ConcatProperties
  <2> HIDE DEF M
  <2>2. M(c) \o M(d) \in Seq(Seq(B)) /\ Len(M(c) \o M(d)) = Len(M(c)) + Len(M(d))
    BY <1>2, <2>1, Zenon
  <2> QED
    BY <1>2, <2>2
<1>4. ASSUME NEW i \in 1..(Len(c) + Len(d)) PROVE M(c \o d)[i] = (M(c) \o M(d))[i]
  <2>1. (c \o d)[i] = IF i <= Len(c) THEN c[i] ELSE d[i - Len(c)]
    BY ConcatProperties
  <2>2. (M(c) \o M(d))[i] = IF i <= Len(c) THEN M(c)[i] ELSE M(d)[i - Len(c)]
    <3>1. \A x, y \in Seq(Seq(B)) : \A j \in 1..(Len(x) + Len(y)) :
             (x \o y)[j] = IF j <= Len(x) THEN x[j] ELSE y[j - Len(x)]
      BY ConcatProperties
    <3> HIDE DEF M
    <3>2. i \in 1..(Len(M(c)) + Len(M(d)))
      BY <1>2
    <3>3. (M(c) \o M(d))[i] = IF i <= Len(M(c)) THEN M(c)[i] ELSE M(d)[i - Len(M(c))]
      BY <1>2, <3>1, <3>2, Zenon
    <3> QED
      BY <1>2, <3>3
  <2>3. M(c \o d)[i] = G[(c \o d)[i]]
    BY <1>1
  <2>4. CASE i <= Len(c)
    <3>1. M(c)[i] = G[c[i]]
      BY <1>1, <2>4
    <3> HIDE DEF M
    <3> QED
      BY <2>1, <2>2, <2>3, <2>4, <3>1
  <2>5. CASE ~(i <= Len(c))
    <3>1. i - Len(c) \in 1..Len(d)
      BY <1>1, <2>5
    <3>2. M(d)[i - Len(c)] = G[d[i - Len(c)]]
      BY <1>1, <3>1
    <3> HIDE DEF M
    <3> QED
      BY <2>1, <2>2, <2>3, <2>5, <3>2
  <2> QED
    BY <2>4, <2>5
<1> HIDE DEF M
<1>5. M(c \o d) = M(c) \o M(d)
  BY <1>2, <1>3, <1>4, SeqEqual
<1>6. FlattenSeq(M(c \o d)) = FlattenSeq(M(c)) \o FlattenSeq(M(d))
  BY <1>2, <1>5, FlatConcat
<1> QED
  BY <1>6 DEF Gather, M

LEMMA GatherOne ==
    ASSUME NEW A, NEW B, NEW G, Gathers(G, A, B), NEW e \in A
    PROVE  Gather(<<e>>, G) = G[e]
<1>1. G[e] \in Seq(B)
  BY DEF Gathers
<1>2. [i \in DOMAIN <<e>> |-> G[<<e>>[i]]] = <<G[e]>>
  OBVIOUS
<1>3. FlattenSeq(<<G[e]>>) = G[e]
  BY <1>1, FlatOne
<1> QED
  BY <1>2, <1>3 DEF Gather

LEMMA GatherEmpty ==
    ASSUME NEW G
    PROVE  Gather(<<>>, G) = <<>>
<1>1. [i \in DOMAIN <<>> |-> G[<<>>[i]]] = <<>>
  OBVIOUS
<1> QED
  BY <1>1, FlatEmpty DEF Gather

LEMMA GatherAppend ==
    ASSUME NEW A, NEW B, NEW G, Gathers(G, A, B), NEW c \in Seq(A), NEW e \in A
    PROVE  Gather(Append(c, e), G) = Gather(c, G) \o G[e]
<1>1. Append(c, e) = c \o <<e>> /\ <<e>> \in Seq(A)
  OBVIOUS
<1>2. Gather(c \o <<e>>, G) = Gather(c, G) \o Gather(<<e>>, G)
  <2>1. \A d \in Seq(A) : Gather(c \o d, G) = Gather(c, G) \o Gather(d, G)
    BY GatherConcat
  <2> QED
    BY <1>1, <2>1, Zenon
<1>3. Gather(<<e>>, G) = G[e]
  BY GatherOne
<1> QED
  BY <1>1, <1>2, <1>3

\* Induction over the sequences over A, for a property given as a set.
LEMMA SequenceInduction ==
    ASSUME NEW A, NEW P, <<>> \in P,
           \A c \in Seq(A) : \A e \in A : c \in P => Append(c, e) \in P
    PROVE  Seq(A) \subseteq P
<1> DEFINE T == {n \in Nat : \A c \in Seq(A) : Len(c) = n => c \in P}
<1>1. 0 \in T
  BY EmptySeq
<1>2. ASSUME NEW n \in Nat, n \in T PROVE n + 1 \in T
  <2> SUFFICES ASSUME NEW c \in Seq(A), Len(c) = n + 1 PROVE c \in P
    OBVIOUS
  <2> DEFINE d == SubSeq(c, 1, n)
  <2>1. d \in Seq(A) /\ Len(d) = n /\ c[n + 1] \in A /\ c = Append(d, c[n + 1])
    <3>1. n + 1 \in DOMAIN c /\ c[n + 1] \in A
      OBVIOUS
    <3>2. d \in Seq(A) /\ Len(d) = n /\ \A i \in 1..n : d[i] = c[i]
      OBVIOUS
    <3> HIDE DEF d
    <3>3. Append(d, c[n + 1]) \in Seq(A) /\ Len(Append(d, c[n + 1])) = n + 1
      BY <3>1, <3>2
    <3>4. \A i \in 1..(n + 1) : Append(d, c[n + 1])[i] = c[i]
      BY <3>1, <3>2
    <3>5. c = Append(d, c[n + 1])
      BY <3>3, <3>4, SeqEqual
    <3> QED
      BY <3>1, <3>2, <3>5
  <2> HIDE DEF d
  <2>2. d \in P
    BY <1>2, <2>1
  <2> QED
    BY <2>1, <2>2
<1>3. Nat \subseteq T
  <2> HIDE DEF T
  <2> QED
    BY <1>1, <1>2, Induction
<1>4. \A c \in Seq(A) : Len(c) \in Nat
  OBVIOUS
<1> QED
  BY <1>3, <1>4

\* What is gathered from what was gathered.
Regathered(G, H, A) == [x \in A |-> Gather(G[x], H)]

LEMMA GatherGather ==
    ASSUME NEW A, NEW B, NEW C, NEW G, NEW H, Gathers(G, A, B), Gathers(H, B, C), NEW c \in Seq(A)
    PROVE  /\ Gathers(Regathered(G, H, A), A, C)
           /\ Gather(Gather(c, G), H) = Gather(c, Regathered(G, H, A))
<1> DEFINE K == Regathered(G, H, A)
           P == {d \in Seq(A) : Gather(Gather(d, G), H) = Gather(d, K)}
<1>1. Gathers(K, A, C)
  <2>1. \A x \in A : G[x] \in Seq(B)
    BY DEF Gathers
  <2>2. \A x \in A : Gather(G[x], H) \in Seq(C)
    BY <2>1, GatherParts
  <2> QED
    BY <2>2 DEF Gathers, Regathered
<1>2. \A x \in A : K[x] = Gather(G[x], H)
  BY DEF Regathered
<1> HIDE DEF K
<1>3. <<>> \in P
  BY GatherEmpty
<1>4. ASSUME NEW d \in Seq(A), NEW e \in A, d \in P PROVE Append(d, e) \in P
  <2>1. Gather(Append(d, e), G) = Gather(d, G) \o G[e] /\ Gather(d, G) \in Seq(B) /\ G[e] \in Seq(B)
    <3>1. Gather(Append(d, e), G) = Gather(d, G) \o G[e]
      BY GatherAppend, Zenon
    <3>2. Gather(d, G) \in Seq(B)
      BY GatherParts, Zenon
    <3>3. G[e] \in Seq(B)
      BY DEF Gathers
    <3> QED
      BY <3>1, <3>2, <3>3
  <2>2. Gather(Gather(d, G) \o G[e], H) = Gather(Gather(d, G), H) \o Gather(G[e], H)
    <3>1. \A x, y \in Seq(B) : Gather(x \o y, H) = Gather(x, H) \o Gather(y, H)
      BY GatherConcat
    <3> QED
      BY <2>1, <3>1, Zenon
  <2>3. Gather(Append(d, e), K) = Gather(d, K) \o K[e]
    BY <1>1, GatherAppend
  <2>4. Append(d, e) \in Seq(A)
    OBVIOUS
  <2> QED
    BY <1>2, <1>4, <2>1, <2>2, <2>3, <2>4
<1>5. Seq(A) \subseteq P
  <2> HIDE DEF P
  <2> QED
    BY <1>3, <1>4, SequenceInduction
<1> QED
  BY <1>1, <1>5 DEF K

LEMMA GatherSame ==
    ASSUME NEW A, NEW c \in Seq(A), NEW G, NEW H, \A i \in DOMAIN c : G[c[i]] = H[c[i]]
    PROVE  Gather(c, G) = Gather(c, H)
<1>1. [i \in DOMAIN c |-> G[c[i]]] = [i \in DOMAIN c |-> H[c[i]]]
  OBVIOUS
<1> QED
  BY <1>1 DEF Gather

LEMMA SetConcat ==
    ASSUME NEW S, NEW a \in Seq(S), NEW b \in Seq(S)
    PROVE  ToSet(a \o b) = ToSet(a) \cup ToSet(b)
<1>1. /\ Len(a \o b) = Len(a) + Len(b) /\ a \o b \in Seq(S) /\ Len(a) \in Nat /\ Len(b) \in Nat
      /\ \A i \in 1..(Len(a) + Len(b)) : (a \o b)[i] = IF i <= Len(a) THEN a[i] ELSE b[i - Len(a)]
  BY ConcatProperties
<1>2. DOMAIN a = 1..Len(a) /\ DOMAIN b = 1..Len(b) /\ DOMAIN (a \o b) = 1..(Len(a) + Len(b))
  BY <1>1
<1>3. ASSUME NEW i \in DOMAIN (a \o b) PROVE (a \o b)[i] \in ToSet(a) \cup ToSet(b)
  <2>1. CASE i <= Len(a)
    BY <1>1, <1>2, <1>3, <2>1 DEF ToSet
  <2>2. CASE ~(i <= Len(a))
    <3>1. i - Len(a) \in DOMAIN b
      BY <1>1, <1>2, <1>3, <2>2
    <3> QED
      BY <1>1, <1>2, <1>3, <2>2, <3>1 DEF ToSet
  <2> QED
    BY <2>1, <2>2
<1>4. ASSUME NEW i \in DOMAIN a PROVE a[i] \in ToSet(a \o b)
  <2>1. i \in DOMAIN (a \o b) /\ (a \o b)[i] = a[i]
    BY <1>1, <1>2
  <2> QED
    BY <2>1 DEF ToSet
<1>5. ASSUME NEW i \in DOMAIN b PROVE b[i] \in ToSet(a \o b)
  <2>1. i + Len(a) \in DOMAIN (a \o b) /\ (a \o b)[i + Len(a)] = b[i]
    BY <1>1, <1>2
  <2> QED
    BY <2>1 DEF ToSet
<1>6. /\ \A x \in ToSet(a \o b) : \E i \in DOMAIN (a \o b) : x = (a \o b)[i]
      /\ \A x \in ToSet(a) : \E i \in DOMAIN a : x = a[i]
      /\ \A x \in ToSet(b) : \E i \in DOMAIN b : x = b[i]
  BY DEF ToSet
<1> QED
  BY <1>3, <1>4, <1>5, <1>6

\* y is gathered from the elements of c.
Yields(c, G, y) == \E x \in ToSet(c) : y \in ToSet(G[x])

LEMMA GatherSet ==
    ASSUME NEW A, NEW B, NEW G, Gathers(G, A, B), NEW c \in Seq(A)
    PROVE  \A y : y \in ToSet(Gather(c, G)) <=> Yields(c, G, y)
<1> DEFINE P == {d \in Seq(A) : \A y : y \in ToSet(Gather(d, G)) <=> Yields(d, G, y)}
<1>1. <<>> \in P
  <2>1. Gather(<<>>, G) = <<>> /\ ToSet(<<>>) = {}
    BY GatherEmpty DEF ToSet
  <2> QED
    BY <2>1 DEF Yields
<1>2. ASSUME NEW d \in Seq(A), NEW e \in A, d \in P PROVE Append(d, e) \in P
  <2>1. Gather(Append(d, e), G) = Gather(d, G) \o G[e] /\ Gather(d, G) \in Seq(B) /\ G[e] \in Seq(B)
    <3>1. Gather(Append(d, e), G) = Gather(d, G) \o G[e]
      BY GatherAppend, Zenon
    <3>2. Gather(d, G) \in Seq(B)
      BY GatherParts, Zenon
    <3>3. G[e] \in Seq(B)
      BY DEF Gathers
    <3> QED
      BY <3>1, <3>2, <3>3
  <2>2. ToSet(Gather(d, G) \o G[e]) = ToSet(Gather(d, G)) \cup ToSet(G[e])
    <3>1. \A x, y \in Seq(B) : ToSet(x \o y) = ToSet(x) \cup ToSet(y)
      BY SetConcat
    <3> QED
      BY <2>1, <3>1, Zenon
  <2>3. Append(d, e) = d \o <<e>> /\ <<e>> \in Seq(A) /\ Append(d, e) \in Seq(A)
    OBVIOUS
  <2>4. ToSet(d \o <<e>>) = ToSet(d) \cup ToSet(<<e>>)
    <3>1. \A x, y \in Seq(A) : ToSet(x \o y) = ToSet(x) \cup ToSet(y)
      BY SetConcat
    <3> QED
      BY <2>3, <3>1, Zenon
  <2>5. ToSet(<<e>>) = {e}
    BY DEF ToSet
  <2>6. \A y : Yields(Append(d, e), G, y) <=> Yields(d, G, y) \/ y \in ToSet(G[e])
    BY <2>3, <2>4, <2>5, Zenon DEF Yields
  <2>7. \A y : y \in ToSet(Gather(d, G)) <=> Yields(d, G, y)
    BY <1>2
  <2>8. \A y : y \in ToSet(Gather(Append(d, e), G)) <=> y \in ToSet(Gather(d, G)) \/ y \in ToSet(G[e])
    BY <2>1, <2>2, Zenon
  <2>9. \A y : y \in ToSet(Gather(Append(d, e), G)) <=> Yields(Append(d, e), G, y)
    BY <2>6, <2>7, <2>8, Zenon
  <2> QED
    BY <2>3, <2>9, Zenon
<1>3. Seq(A) \subseteq P
  <2> HIDE DEF P
  <2> QED
    BY <1>1, <1>2, SequenceInduction
<1> QED
  BY <1>3

-----------------------------------------------------------------------------
(* The elements of a sequence that are in a set.                           *)

\* What x contributes to the elements that are in T.
Kept(T, A) == [x \in A |-> IF x \in T THEN <<x>> ELSE <<>>]

LEMMA AmongKept ==
    ASSUME NEW A, NEW c \in Seq(A), NEW T
    PROVE  /\ Gathers(Kept(T, A), A, A) /\ Among(c, T) = Gather(c, Kept(T, A))
           /\ Among(c, T) \in Seq(A)
<1>1. Gathers(Kept(T, A), A, A)
  BY DEF Gathers, Kept
<1>2. [i \in DOMAIN c |-> IF c[i] \in T THEN <<c[i]>> ELSE <<>>] = [i \in DOMAIN c |-> Kept(T, A)[c[i]]]
  BY DEF Kept
<1>3. Among(c, T) = Gather(c, Kept(T, A))
  BY <1>2 DEF Among, Gather
<1> QED
  BY <1>1, <1>3, GatherParts

LEMMA AmongEmpty ==
    ASSUME NEW T
    PROVE  Among(<<>>, T) = <<>>
<1>1. [i \in DOMAIN <<>> |-> IF <<>>[i] \in T THEN <<<<>>[i]>> ELSE <<>>] = <<>>
  OBVIOUS
<1> QED
  BY <1>1, FlatEmpty DEF Among

LEMMA AmongAll ==
    ASSUME NEW A, NEW c \in Seq(A), NEW T, \A i \in DOMAIN c : c[i] \in T
    PROVE  Among(c, T) = c
<1> DEFINE U == [x \in A |-> <<x>>]
           P == {d \in Seq(A) : Gather(d, U) = d}
<1>1. Gathers(U, A, A)
  BY DEF Gathers
<1>2. <<>> \in P
  BY GatherEmpty
<1>3. ASSUME NEW d \in Seq(A), NEW e \in A, d \in P PROVE Append(d, e) \in P
  <2>1. U[e] = <<e>> /\ Append(d, e) = d \o <<e>> /\ Append(d, e) \in Seq(A)
    OBVIOUS
  <2> HIDE DEF U
  <2>2. Gather(Append(d, e), U) = Gather(d, U) \o U[e]
    BY <1>1, GatherAppend
  <2> QED
    BY <1>3, <2>1, <2>2
<1>4. Seq(A) \subseteq P
  <2> HIDE DEF P
  <2> QED
    BY <1>2, <1>3, SequenceInduction
<1>5. \A i \in DOMAIN c : Kept(T, A)[c[i]] = U[c[i]]
  BY DEF Kept
<1> HIDE DEF U
<1>6. Gather(c, Kept(T, A)) = Gather(c, U)
  BY <1>5, GatherSame
<1> QED
  BY <1>4, <1>6, AmongKept

LEMMA AmongNone ==
    ASSUME NEW A, NEW c \in Seq(A), NEW T, \A i \in DOMAIN c : c[i] \notin T
    PROVE  Among(c, T) = <<>>
<1> DEFINE U == [x \in A |-> <<>>]
           P == {d \in Seq(A) : Gather(d, U) = <<>>}
<1>1. Gathers(U, A, A)
  BY DEF Gathers
<1>2. <<>> \in P
  BY GatherEmpty
<1>3. ASSUME NEW d \in Seq(A), NEW e \in A, d \in P PROVE Append(d, e) \in P
  <2>1. U[e] = <<>> /\ Append(d, e) \in Seq(A)
    OBVIOUS
  <2> HIDE DEF U
  <2>2. Gather(Append(d, e), U) = Gather(d, U) \o U[e]
    BY <1>1, GatherAppend
  <2>3. <<>> \o <<>> = <<>>
    OBVIOUS
  <2> QED
    BY <1>3, <2>1, <2>2, <2>3
<1>4. Seq(A) \subseteq P
  <2> HIDE DEF P
  <2> QED
    BY <1>2, <1>3, SequenceInduction
<1>5. \A i \in DOMAIN c : Kept(T, A)[c[i]] = U[c[i]]
  BY DEF Kept
<1> HIDE DEF U
<1>6. Gather(c, Kept(T, A)) = Gather(c, U)
  BY <1>5, GatherSame
<1> QED
  BY <1>4, <1>6, AmongKept

LEMMA AmongSet ==
    ASSUME NEW A, NEW c \in Seq(A), NEW T
    PROVE  ToSet(Among(c, T)) = ToSet(c) \cap T
<1>1. /\ Gathers(Kept(T, A), A, A) /\ Among(c, T) = Gather(c, Kept(T, A))
  BY AmongKept
<1>2. \A y : y \in ToSet(Gather(c, Kept(T, A))) <=> Yields(c, Kept(T, A), y)
  BY <1>1, GatherSet
<1>3. \A x \in ToSet(c) : x \in A
  BY DEF ToSet
<1>4. \A x \in A : ToSet(Kept(T, A)[x]) = IF x \in T THEN {x} ELSE {}
  <2>1. \A x \in A : Kept(T, A)[x] = IF x \in T THEN <<x>> ELSE <<>>
    BY DEF Kept
  <2>2. \A x : ToSet(<<x>>) = {x}
    BY DEF ToSet
  <2>3. ToSet(<<>>) = {}
    BY DEF ToSet
  <2> QED
    BY <2>1, <2>2, <2>3
<1>5. \A y : Yields(c, Kept(T, A), y) <=> y \in ToSet(c) /\ y \in T
  BY <1>3, <1>4 DEF Yields
<1> QED
  BY <1>1, <1>2, <1>5

-----------------------------------------------------------------------------
(* What a segment contributes to a capture.                                *)

Picks == [events : Seq(Nat), metrics : Seq(Aggregates)]

EventsOf(S) == [s \in S |-> s.events]

\* The window of a capture: details are asked for from eventStart on.
Windowed(from, eventStart, end) ==
    from \in Nat /\ eventStart \in Nat /\ end \in Nat /\ from <= eventStart

\* s contributes p: its events in the window, and no other aggregate than those
\* that lie in it.
Contributes(s, p, from, eventStart, end) ==
    /\ p.events = Among(s.events, eventStart..end)
    /\ ToSet(p.metrics) = Inner(s, from, end)

\* What a segment outside the window would contribute.
Nothing(s, from, eventStart, end) ==
    Among(s.events, eventStart..end) = <<>> /\ Inner(s, from, end) = {}

\* s lies outside the window, or wholly inside it.
Outside(s, from, end) == s.max < from \/ s.min > end

Whole(s, from, eventStart, end) ==
    s.min >= from /\ s.max <= end /\ (s.events = <<>> \/ s.min >= eventStart)

LEMMA WithinFields ==
    ASSUME NEW s \in Segments, Within(s)
    PROVE  /\ s.min \in Nat /\ s.max \in Nat /\ s.end \in Nat /\ s.min <= s.max
           /\ s.events \in Seq(Nat) /\ s.metrics \in Seq(Aggregates)
           /\ \A i \in DOMAIN s.events : s.events[i] \in Nat /\ s.min <= s.events[i] /\ s.events[i] <= s.max
           /\ \A m \in ToSet(s.metrics) :
                  /\ m \in Aggregates /\ m.start \in Nat /\ m.end \in Nat /\ 1 <= m.start
                  /\ s.min <= m.start /\ m.start < m.end /\ m.end <= s.max /\ m.end <= s.end
<1>1. /\ s.min \in Nat /\ s.max \in Nat /\ s.end \in Nat
      /\ s.events \in Seq(Nat) /\ s.metrics \in Seq(Aggregates)
  BY SegmentFields
<1>2. \A i \in DOMAIN s.events : s.events[i] \in Nat /\ s.min <= s.events[i] /\ s.events[i] <= s.max
  BY <1>1 DEF Within
<1>3. ASSUME NEW m \in ToSet(s.metrics)
      PROVE  /\ m \in Aggregates /\ m.start \in Nat /\ m.end \in Nat /\ 1 <= m.start
             /\ s.min <= m.start /\ m.start < m.end /\ m.end <= s.max /\ m.end <= s.end
  <2>1. PICK i \in DOMAIN s.metrics : m = s.metrics[i]
    BY DEF ToSet
  <2>2. m \in Aggregates
    BY <1>1, <2>1
  <2>3. m.start \in Nat /\ m.end \in Nat
    BY <1>1, <2>1, AggregateFields
  <2> QED
    BY <2>1, <2>2, <2>3 DEF Within
<1>4. s.min <= s.max
  BY DEF Within
<1> QED
  BY <1>1, <1>2, <1>3, <1>4

LEMMA InnerAll ==
    ASSUME NEW s \in Segments, Within(s), NEW from, NEW eventStart, NEW end,
           Windowed(from, eventStart, end), Whole(s, from, eventStart, end)
    PROVE  Inner(s, from, end) = ToSet(s.metrics) /\ Among(s.events, eventStart..end) = s.events
<1>1. /\ from \in Nat /\ eventStart \in Nat /\ end \in Nat /\ from <= eventStart
      /\ s.min >= from /\ s.max <= end /\ (s.events = <<>> \/ s.min >= eventStart)
  BY DEF Windowed, Whole
<1>2. \A m \in ToSet(s.metrics) : from <= m.start /\ m.end <= end
  BY <1>1, WithinFields
<1>3. Inner(s, from, end) = ToSet(s.metrics)
  BY <1>2 DEF Inner
<1>4. s.events \in Seq(Nat) /\ \A i \in DOMAIN s.events : s.events[i] \in eventStart..end
  <2>1. /\ s.min \in Nat /\ s.max \in Nat /\ s.events \in Seq(Nat)
        /\ \A i \in DOMAIN s.events : s.events[i] \in Nat /\ s.min <= s.events[i] /\ s.events[i] <= s.max
    BY WithinFields
  <2>2. ASSUME NEW i \in DOMAIN s.events PROVE s.events[i] \in eventStart..end
    <3>1. s.events # <<>>
      BY <2>1, <2>2
    <3> QED
      BY <1>1, <2>1, <3>1
  <2> QED
    BY <2>1, <2>2
<1>5. Among(s.events, eventStart..end) = s.events
  BY <1>4, AmongAll
<1> QED
  BY <1>3, <1>5

LEMMA InnerNone ==
    ASSUME NEW s \in Segments, Within(s), NEW from, NEW eventStart, NEW end,
           Windowed(from, eventStart, end), Outside(s, from, end) \/ s.end < from,
           \A i \in DOMAIN s.events : s.events[i] > end \/ s.events[i] < from
    PROVE  Nothing(s, from, eventStart, end)
<1>1. /\ from \in Nat /\ eventStart \in Nat /\ end \in Nat /\ from <= eventStart
      /\ s.max < from \/ s.min > end \/ s.end < from
  BY DEF Windowed, Outside
<1>2. \A m \in ToSet(s.metrics) : ~(from <= m.start /\ m.end <= end)
  BY <1>1, WithinFields
<1>3. Inner(s, from, end) = {}
  BY <1>2 DEF Inner
<1>4. s.events \in Seq(Nat) /\ \A i \in DOMAIN s.events : s.events[i] \notin eventStart..end
  <2>1. s.events \in Seq(Nat) /\ \A i \in DOMAIN s.events : s.events[i] \in Nat
    BY WithinFields
  <2>2. ASSUME NEW i \in DOMAIN s.events PROVE s.events[i] \notin eventStart..end
    <3> DEFINE e == s.events[i]
    <3>1. e \in Nat /\ (e > end \/ e < from)
      BY <2>1
    <3> HIDE DEF e
    <3>2. e \notin eventStart..end
      BY <1>1, <3>1
    <3> QED
      BY <3>2 DEF e
  <2> QED
    BY <2>1, <2>2
<1>5. Among(s.events, eventStart..end) = <<>>
  BY <1>4, AmongNone
<1> QED
  BY <1>3, <1>5 DEF Nothing

LEMMA SelectedIs ==
    ASSUME NEW s \in Segments, Within(s), NEW from, NEW eventStart, NEW end,
           Windowed(from, eventStart, end)
    PROVE  \/ Selected(s, from, eventStart, end) = <<>> /\ Nothing(s, from, eventStart, end)
           \/ \E p \in Picks : /\ Selected(s, from, eventStart, end) = <<p>>
                              /\ Contributes(s, p, from, eventStart, end)
<1>1. /\ s.min \in Nat /\ s.max \in Nat /\ s.min <= s.max
      /\ s.events \in Seq(Nat) /\ s.metrics \in Seq(Aggregates)
      /\ \A i \in DOMAIN s.events : s.events[i] \in Nat /\ s.min <= s.events[i] /\ s.events[i] <= s.max
  BY WithinFields
<1>2. CASE Outside(s, from, end)
  <2>1. Selected(s, from, eventStart, end) = <<>>
    BY <1>2 DEF Selected, Outside
  <2>2. \A i \in DOMAIN s.events : s.events[i] > end \/ s.events[i] < from
    BY <1>1, <1>2 DEF Outside, Windowed
  <2> QED
    BY <1>2, <2>1, <2>2, InnerNone
<1>3. CASE ~Outside(s, from, end) /\ Whole(s, from, eventStart, end)
  <2> DEFINE p == [events |-> s.events, metrics |-> s.metrics]
  <2>1. Selected(s, from, eventStart, end) = <<p>>
    BY <1>3 DEF Selected, Outside, Whole
  <2>2. p \in Picks /\ p.events = s.events /\ p.metrics = s.metrics
    BY <1>1 DEF Picks
  <2> HIDE DEF p
  <2>3. Contributes(s, p, from, eventStart, end)
    BY <1>3, <2>2, InnerAll DEF Contributes
  <2> QED
    BY <2>1, <2>2, <2>3
<1>4. CASE ~Outside(s, from, end) /\ ~Whole(s, from, eventStart, end)
  <2> DEFINE e == Among(s.events, eventStart..end)
             n == Among(s.metrics, Inner(s, from, end))
             p == [events |-> e, metrics |-> n]
  <2>1. Selected(s, from, eventStart, end) = <<p>>
    BY <1>4 DEF Selected, Outside, Whole
  <2>2. e \in Seq(Nat) /\ n \in Seq(Aggregates)
    BY <1>1, AmongKept
  <2>3. ToSet(n) = ToSet(s.metrics) \cap Inner(s, from, end)
    BY <1>1, AmongSet
  <2>4. Inner(s, from, end) \subseteq ToSet(s.metrics)
    BY DEF Inner
  <2>5. p \in Picks /\ p.events = e /\ p.metrics = n
    <3> HIDE DEF e, n
    <3> QED
      BY <2>2 DEF Picks
  <2> HIDE DEF n, p
  <2>6. Contributes(s, p, from, eventStart, end)
    BY <2>3, <2>4, <2>5 DEF Contributes
  <2> QED
    BY <2>1, <2>5, <2>6
<1> QED
  BY <1>2, <1>3, <1>4

\* The selection of s, whichever branch made it.
LEMMA SelectedYields ==
    ASSUME NEW s \in Segments, Within(s), NEW from, NEW eventStart, NEW end,
           Windowed(from, eventStart, end)
    PROVE  /\ Selected(s, from, eventStart, end) \in Seq(Picks)
           /\ Gather(Selected(s, from, eventStart, end), EventsOf(Picks)) = Among(s.events, eventStart..end)
           /\ \A m : m \in Metrics(Selected(s, from, eventStart, end)) <=> m \in Inner(s, from, end)
<1> DEFINE q == Selected(s, from, eventStart, end)
<1>1. Gathers(EventsOf(Picks), Picks, Nat)
  BY DEF Gathers, EventsOf, Picks
<1>2. \/ q = <<>> /\ Nothing(s, from, eventStart, end)
      \/ \E p \in Picks : q = <<p>> /\ Contributes(s, p, from, eventStart, end)
  BY SelectedIs
<1> HIDE DEF q
<1>3. CASE q = <<>> /\ Nothing(s, from, eventStart, end)
  <2>1. q \in Seq(Picks) /\ ToSet(q) = {} /\ Metrics(q) = {}
    BY <1>3 DEF ToSet, Metrics
  <2>2. Gather(q, EventsOf(Picks)) = <<>>
    BY <1>3, GatherEmpty
  <2> QED
    BY <1>3, <2>1, <2>2 DEF Nothing, q
<1>4. CASE \E p \in Picks : q = <<p>> /\ Contributes(s, p, from, eventStart, end)
  <2>1. PICK p \in Picks : q = <<p>> /\ Contributes(s, p, from, eventStart, end)
    BY <1>4
  <2>2. q \in Seq(Picks) /\ ToSet(q) = {p}
    BY <2>1 DEF ToSet
  <2>3. Gather(q, EventsOf(Picks)) = p.events
    <3>1. Gather(<<p>>, EventsOf(Picks)) = EventsOf(Picks)[p]
      BY <1>1, GatherOne
    <3> QED
      BY <2>1, <3>1 DEF EventsOf
  <2>4. Metrics(q) = ToSet(p.metrics)
    BY <2>2 DEF Metrics
  <2> QED
    BY <2>1, <2>2, <2>3, <2>4 DEF Contributes, q
<1> QED
  BY <1>2, <1>3, <1>4

-----------------------------------------------------------------------------
(* The contents of a capture.                                              *)

SelectedOf(S, from, eventStart, end) == [s \in S |-> Selected(s, from, eventStart, end)]

\* The segments whose contents are consistent.
Sorted == {s \in Segments : Within(s)}

Details(from, eventStart, end) == [s \in Sorted |-> Among(s.events, eventStart..end)]

LEMMA PickedIs ==
    ASSUME NEW from, NEW eventStart, NEW end, Windowed(from, eventStart, end), NEW c \in Seq(Sorted)
    PROVE  /\ Gathers(SelectedOf(Sorted, from, eventStart, end), Sorted, Picks)
           /\ Picked(c, from, eventStart, end) = Gather(c, SelectedOf(Sorted, from, eventStart, end))
           /\ Picked(c, from, eventStart, end) \in Seq(Picks)
<1> DEFINE G == SelectedOf(Sorted, from, eventStart, end)
<1>1. Gathers(G, Sorted, Picks)
  <2>1. \A s \in Sorted : Selected(s, from, eventStart, end) \in Seq(Picks)
    BY SelectedYields DEF Sorted
  <2> QED
    BY <2>1 DEF Gathers, SelectedOf
<1>2. [i \in DOMAIN c |-> Selected(c[i], from, eventStart, end)] = [i \in DOMAIN c |-> G[c[i]]]
  <2>1. \A s \in Sorted : G[s] = Selected(s, from, eventStart, end)
    BY DEF SelectedOf
  <2>2. \A i \in DOMAIN c : c[i] \in Sorted
    OBVIOUS
  <2> HIDE DEF G
  <2> QED
    BY <2>1, <2>2
<1>3. Picked(c, from, eventStart, end) = Gather(c, G)
  BY <1>2 DEF Picked, Gather
<1>4. Gather(c, G) \in Seq(Picks)
  BY <1>1, GatherParts
<1> QED
  BY <1>1, <1>3, <1>4

LEMMA EventsIs ==
    ASSUME NEW S, NEW c \in Seq(S)
    PROVE  Events(c) = Gather(c, EventsOf(S))
<1>1. [i \in DOMAIN c |-> c[i].events] = [i \in DOMAIN c |-> EventsOf(S)[c[i]]]
  BY DEF EventsOf
<1> QED
  BY <1>1 DEF Events, Gather

LEMMA PickedEvents ==
    ASSUME NEW from, NEW eventStart, NEW end, Windowed(from, eventStart, end), NEW c \in Seq(Sorted)
    PROVE  /\ Gathers(Details(from, eventStart, end), Sorted, Nat)
           /\ Events(Picked(c, from, eventStart, end)) = Gather(c, Details(from, eventStart, end))
<1> DEFINE G == SelectedOf(Sorted, from, eventStart, end)
           E == EventsOf(Picks)
           D == Details(from, eventStart, end)
<1>1. Gathers(G, Sorted, Picks) /\ Picked(c, from, eventStart, end) = Gather(c, G)
      /\ Picked(c, from, eventStart, end) \in Seq(Picks)
  BY PickedIs
<1>2. Gathers(E, Picks, Nat)
  BY DEF Gathers, EventsOf, Picks
<1>3. Events(Gather(c, G)) = Gather(Gather(c, G), E)
  BY <1>1, EventsIs
<1>4. Gathers(Regathered(G, E, Sorted), Sorted, Nat)
      /\ Gather(Gather(c, G), E) = Gather(c, Regathered(G, E, Sorted))
  BY <1>1, <1>2, GatherGather
<1>5. Regathered(G, E, Sorted) = D
  <2>1. \A s \in Sorted : Gather(Selected(s, from, eventStart, end), E) = Among(s.events, eventStart..end)
    BY SelectedYields DEF Sorted
  <2>2. \A s \in Sorted : G[s] = Selected(s, from, eventStart, end)
    BY DEF SelectedOf
  <2> HIDE DEF G, E
  <2>3. \A s \in Sorted : Gather(G[s], E) = Among(s.events, eventStart..end)
    BY <2>1, <2>2
  <2> QED
    BY <2>3 DEF Regathered, Details
<1> QED
  BY <1>1, <1>3, <1>4, <1>5

LEMMA PickedMetrics ==
    ASSUME NEW from, NEW eventStart, NEW end, Windowed(from, eventStart, end), NEW c \in Seq(Sorted)
    PROVE  \A m : m \in Metrics(Picked(c, from, eventStart, end)) <=>
                     \E s \in ToSet(c) : m \in Inner(s, from, end)
<1> DEFINE G == SelectedOf(Sorted, from, eventStart, end)
           q == Picked(c, from, eventStart, end)
<1>1. Gathers(G, Sorted, Picks) /\ q = Gather(c, G)
  BY PickedIs
<1>2. \A p : p \in ToSet(Gather(c, G)) <=> Yields(c, G, p)
  BY <1>1, GatherSet
<1>3. \A s \in ToSet(c) : s \in Segments /\ Within(s) /\ s \in Sorted
  BY DEF ToSet, Sorted
<1>4. \A s \in ToSet(c) : G[s] = Selected(s, from, eventStart, end)
  BY <1>3 DEF SelectedOf
<1>5. \A s \in ToSet(c) : \A m : m \in Metrics(Selected(s, from, eventStart, end)) <=> m \in Inner(s, from, end)
  BY <1>3, SelectedYields
<1> HIDE DEF G, q
<1>6. \A p : p \in ToSet(q) <=> \E s \in ToSet(c) : p \in ToSet(G[s])
  BY <1>1, <1>2 DEF Yields
<1>7. \A s \in ToSet(c) : \A m : (\E p \in ToSet(G[s]) : m \in ToSet(p.metrics)) <=> m \in Inner(s, from, end)
  BY <1>4, <1>5 DEF Metrics
<1>8. \A m : m \in Metrics(q) <=> \E p \in ToSet(q) : m \in ToSet(p.metrics)
  BY DEF Metrics
<1>9. \A m : m \in Metrics(q) <=> \E s \in ToSet(c) : m \in Inner(s, from, end)
  BY <1>6, <1>7, <1>8, Zenon
<1> QED
  BY <1>9 DEF q

\* The sealed segments that end before the window hold nothing of it.
LEMMA LeftOut ==
    ASSUME NEW s \in Segments, RawOK(s), NEW from, NEW eventStart, NEW end,
           Windowed(from, eventStart, end), s.end < from
    PROVE  Nothing(s, from, eventStart, end)
<1>1. Within(s) /\ s.events \in Seq(Nat) /\ s.end \in Nat /\ \A i \in DOMAIN s.events : s.events[i] <= s.end
  BY SegmentFields DEF RawOK
<1>2. ASSUME NEW i \in DOMAIN s.events PROVE s.events[i] < from
  <2> DEFINE e == s.events[i]
  <2>1. e \in Nat /\ e <= s.end
    BY <1>1
  <2> HIDE DEF e
  <2>2. e < from
    BY <1>1, <2>1 DEF Windowed
  <2> QED
    BY <2>2 DEF e
<1> QED
  BY <1>1, <1>2, InnerNone

\* The segments of a recorder, in the two parts a capture is made of.
Shelved(r) ==
    /\ Rollups(r) \in Seq(Sorted) /\ r.sealed \in Seq(Sorted) /\ r.active \in Sorted
    /\ \A i \in DOMAIN r.sealed : RawOK(r.sealed[i])

LEMMA BooksShelved ==
    ASSUME NEW r, Books(r)
    PROVE  Shelved(r)
<1>1. r \in Recorders /\ r.sealed \in Seq(Segments) /\ r.active \in Segments /\ r.rollups \in Seq(Segments)
      /\ (r.rollupActive # NoRollup => r.rollupActive \in Segments)
  BY RecorderFields DEF Books
<1>2. /\ \A i \in DOMAIN r.rollups : Within(r.rollups[i])
      /\ r.rollupActive # NoRollup => Within(r.rollupActive)
      /\ \A i \in DOMAIN r.sealed : RawOK(r.sealed[i]) /\ Within(r.sealed[i])
      /\ Within(r.active)
  BY DEF Books, RollupOK, RawOK
<1>3. /\ \A i \in DOMAIN r.rollups : r.rollups[i] \in Sorted
      /\ \A i \in DOMAIN r.sealed : r.sealed[i] \in Sorted
      /\ r.active \in Sorted
      /\ r.rollupActive # NoRollup => r.rollupActive \in Sorted
  BY <1>1, <1>2 DEF Sorted
<1>4. ASSUME NEW c \in Seq(Segments), \A i \in DOMAIN c : c[i] \in Sorted PROVE c \in Seq(Sorted)
  BY <1>4
<1>5. r.rollups \in Seq(Sorted) /\ r.sealed \in Seq(Sorted)
  BY <1>1, <1>3, <1>4
<1>6. Rollups(r) \in Seq(Sorted)
  <2>1. CASE r.rollupActive = NoRollup
    BY <1>5, <2>1 DEF Rollups
  <2>2. CASE r.rollupActive # NoRollup
    BY <1>3, <1>5, <2>2 DEF Rollups
  <2> QED
    BY <2>1, <2>2
<1> QED
  BY <1>2, <1>3, <1>5, <1>6 DEF Shelved

\* The sealed segments the search leaves out.
Late(r, from) == {s \in ToSet(r.sealed) : s.end >= from}

LEMMA SearchLosesNothing ==
    ASSUME NEW r, Shelved(r), NEW from, NEW eventStart, NEW end, Windowed(from, eventStart, end)
    PROVE  /\ Among(r.sealed, Late(r, from)) \in Seq(Sorted)
           /\ Gather(Among(r.sealed, Late(r, from)), Details(from, eventStart, end))
                = Gather(r.sealed, Details(from, eventStart, end))
           /\ \A m : (\E s \in ToSet(Among(r.sealed, Late(r, from))) : m \in Inner(s, from, end))
                       <=> (\E s \in ToSet(r.sealed) : m \in Inner(s, from, end))
<1> DEFINE K == Late(r, from)
           c == r.sealed
           U == Kept(K, Sorted)
           D == Details(from, eventStart, end)
<1>1. c \in Seq(Sorted) /\ \A i \in DOMAIN c : RawOK(c[i])
  BY DEF Shelved
<1>2. Gathers(D, Sorted, Nat)
  <2>1. <<>> \in Seq(Sorted)
    OBVIOUS
  <2> QED
    BY <2>1, PickedEvents
<1>3. ASSUME NEW s \in ToSet(c), s \notin K PROVE Nothing(s, from, eventStart, end)
  <2>1. PICK i \in DOMAIN c : s = c[i]
    BY DEF ToSet
  <2>2. s \in Segments /\ RawOK(s) /\ s.end \in Nat /\ from \in Nat
    <3>1. s \in Segments /\ RawOK(s)
      BY <1>1, <2>1 DEF Sorted
    <3> QED
      BY <3>1, SegmentFields DEF Windowed
  <2>3. s.end < from
    BY <1>3, <2>2 DEF Late
  <2> QED
    BY <2>2, <2>3, LeftOut
<1>4. /\ Gathers(U, Sorted, Sorted) /\ Among(c, K) = Gather(c, U) /\ Among(c, K) \in Seq(Sorted)
  BY <1>1, AmongKept
<1>5. ToSet(Among(c, K)) = ToSet(c) \cap K
  BY <1>1, AmongSet
<1>6. Gather(Gather(c, U), D) = Gather(c, Regathered(U, D, Sorted))
  <2> HIDE DEF c, U, D, K
  <2>1. ASSUME NEW d \in Seq(Sorted)
        PROVE  /\ Gathers(Regathered(U, D, Sorted), Sorted, Nat)
               /\ Gather(Gather(d, U), D) = Gather(d, Regathered(U, D, Sorted))
    <3>1. Gathers(U, Sorted, Sorted) /\ Gathers(D, Sorted, Nat)
      BY <1>2, <1>4
    <3> QED
      BY <3>1, GatherGather
  <2> QED
    BY <1>1, <2>1, Zenon
<1>7. ASSUME NEW i \in DOMAIN c PROVE Regathered(U, D, Sorted)[c[i]] = D[c[i]]
  <2> DEFINE s == c[i]
  <2>1. s \in Sorted /\ s \in ToSet(c)
    BY <1>1 DEF ToSet
  <2>2. Regathered(U, D, Sorted)[s] = Gather(U[s], D)
    BY <2>1 DEF Regathered
  <2>3. U[s] = IF s \in K THEN <<s>> ELSE <<>>
    BY <2>1 DEF Kept
  <2>4. D[s] = Among(s.events, eventStart..end)
    BY <2>1 DEF Details
  <2> HIDE DEF s, U, D, K
  <2>5. CASE s \in K
    <3>1. Gather(<<s>>, D) = D[s]
      BY <1>2, <2>1, GatherOne
    <3> QED
      BY <2>2, <2>3, <2>5, <3>1 DEF s
  <2>6. CASE s \notin K
    <3>1. Gather(<<>>, D) = <<>>
      BY GatherEmpty
    <3>2. D[s] = <<>>
      BY <1>3, <2>1, <2>4, <2>6 DEF Nothing
    <3> QED
      BY <2>2, <2>3, <2>6, <3>1, <3>2 DEF s
  <2> QED
    BY <2>5, <2>6
<1>8. Gather(c, Regathered(U, D, Sorted)) = Gather(c, D)
  <2> HIDE DEF U, D
  <2> QED
    BY <1>1, <1>7, GatherSame
<1>9. \A m : (\E s \in ToSet(Among(c, K)) : m \in Inner(s, from, end))
               <=> (\E s \in ToSet(c) : m \in Inner(s, from, end))
  <2> HIDE DEF K, c
  <2>1. \A s \in ToSet(c) : s \notin K => Inner(s, from, end) = {}
    BY <1>3 DEF Nothing
  <2> QED
    BY <1>5, <2>1
<1> QED
  BY <1>4, <1>6, <1>8, <1>9

\* What Exact asks of the segments of a capture.
Exactly(r, segments, from, eventStart, end) ==
    /\ Metrics(segments) = {m \in Metrics(Everything(r)) : from <= m.start /\ m.end <= end}
    /\ Events(segments) = Among(Events(Everything(r)), eventStart..end)

Old(r, from, eventStart, end) == Picked(Rollups(r), from, eventStart, end)

Raw(r, from, eventStart, end) ==
    Picked(Append(Among(r.sealed, Late(r, from)), r.active), from, eventStart, end)

LEMMA EverythingEvents ==
    ASSUME NEW r, Shelved(r), NEW from, NEW eventStart, NEW end, Windowed(from, eventStart, end)
    PROVE  /\ Everything(r) \in Seq(Sorted)
           /\ Among(Events(Everything(r)), eventStart..end)
                = Gather(Everything(r), Details(from, eventStart, end))
<1> DEFINE c == Everything(r)
           T == eventStart..end
           E == EventsOf(Sorted)
           U == Kept(T, Nat)
           D == Details(from, eventStart, end)
<1>1. c \in Seq(Sorted)
  <2>1. Append(r.sealed, r.active) \in Seq(Sorted) /\ Rollups(r) \in Seq(Sorted)
    BY DEF Shelved
  <2>2. Rollups(r) \o Append(r.sealed, r.active) \in Seq(Sorted)
    BY <2>1, ConcatProperties
  <2> QED
    BY <2>2 DEF Everything
<1>2. Gathers(E, Sorted, Nat)
  <2>1. \A s \in Sorted : s.events \in Seq(Nat)
    BY SegmentFields DEF Sorted
  <2> QED
    BY <2>1 DEF Gathers, EventsOf
<1>3. Events(c) = Gather(c, E) /\ Events(c) \in Seq(Nat)
  <2> HIDE DEF c, E
  <2>1. Events(c) = Gather(c, E)
    BY <1>1, EventsIs DEF E
  <2>2. Gather(c, E) \in Seq(Nat)
    BY <1>1, <1>2, GatherParts
  <2> QED
    BY <2>1, <2>2
<1>4. Gathers(U, Nat, Nat) /\ Among(Events(c), T) = Gather(Events(c), U)
  BY <1>3, AmongKept
<1>5. Gather(Gather(c, E), U) = Gather(c, Regathered(E, U, Sorted))
  <2> HIDE DEF c, E, U, T
  <2>1. ASSUME NEW d \in Seq(Sorted)
        PROVE  /\ Gathers(Regathered(E, U, Sorted), Sorted, Nat)
               /\ Gather(Gather(d, E), U) = Gather(d, Regathered(E, U, Sorted))
    <3>1. Gathers(E, Sorted, Nat) /\ Gathers(U, Nat, Nat)
      BY <1>2, <1>4
    <3> QED
      BY <3>1, GatherGather
  <2> QED
    BY <1>1, <2>1, Zenon
<1>6. Regathered(E, U, Sorted) = D
  <2>1. \A s \in Sorted : Gather(s.events, U) = Among(s.events, T)
    <3>1. \A s \in Sorted : s.events \in Seq(Nat)
      BY SegmentFields DEF Sorted
    <3> QED
      BY <3>1, AmongKept
  <2>2. \A s \in Sorted : E[s] = s.events
    BY DEF EventsOf
  <2> HIDE DEF E, U, T
  <2>3. \A s \in Sorted : Gather(E[s], U) = Among(s.events, T)
    BY <2>1, <2>2
  <2> QED
    BY <2>3 DEF Regathered, Details, T
<1> QED
  BY <1>1, <1>3, <1>4, <1>5, <1>6

LEMMA CaptureExact ==
    ASSUME NEW r, Shelved(r), NEW from, NEW eventStart, NEW end, Windowed(from, eventStart, end)
    PROVE  Exactly(r, Old(r, from, eventStart, end) \o Raw(r, from, eventStart, end), from, eventStart, end)
<1> DEFINE old == Old(r, from, eventStart, end)
           raw == Raw(r, from, eventStart, end)
           kept == Among(r.sealed, Late(r, from))
           D == Details(from, eventStart, end)
           a == r.active
           A == Rollups(r)
           Z == r.sealed
<1>1. A \in Seq(Sorted) /\ Z \in Seq(Sorted) /\ a \in Sorted
  BY DEF Shelved
<1>2. /\ kept \in Seq(Sorted) /\ Gather(kept, D) = Gather(Z, D)
      /\ \A m : (\E s \in ToSet(kept) : m \in Inner(s, from, end))
                 <=> (\E s \in ToSet(Z) : m \in Inner(s, from, end))
  BY SearchLosesNothing
<1>3. /\ Everything(r) \in Seq(Sorted) /\ Everything(r) = A \o Append(Z, a)
      /\ Among(Events(Everything(r)), eventStart..end) = Gather(Everything(r), D)
  BY EverythingEvents DEF Everything
<1>4. Append(kept, a) \in Seq(Sorted) /\ Append(Z, a) \in Seq(Sorted)
  BY <1>1, <1>2
<1>5. old = Picked(A, from, eventStart, end) /\ raw = Picked(Append(kept, a), from, eventStart, end)
  BY DEF Old, Raw
<1> HIDE DEF kept, A, Z, a
<1>6. old \in Seq(Picks) /\ Events(old) = Gather(A, D) /\ Gathers(D, Sorted, Nat)
  BY <1>1, <1>5, PickedIs, PickedEvents
<1>7. raw \in Seq(Picks) /\ Events(raw) = Gather(Append(kept, a), D)
  BY <1>4, <1>5, PickedIs, PickedEvents
<1>8. \A m : m \in Metrics(old) <=> \E s \in ToSet(A) : m \in Inner(s, from, end)
  BY <1>1, <1>5, PickedMetrics
<1>9. \A m : m \in Metrics(raw) <=> \E s \in ToSet(Append(kept, a)) : m \in Inner(s, from, end)
  BY <1>4, <1>5, PickedMetrics
<1> HIDE DEF old, raw, D
<1>10. Events(old \o raw) = Among(Events(Everything(r)), eventStart..end)
  <2>1. Gathers(EventsOf(Picks), Picks, Nat)
    BY DEF Gathers, EventsOf, Picks
  <2>2. old \o raw \in Seq(Picks)
    BY <1>6, <1>7, ConcatProperties
  <2>3. /\ Events(old \o raw) = Gather(old \o raw, EventsOf(Picks))
        /\ Events(old) = Gather(old, EventsOf(Picks)) /\ Events(raw) = Gather(raw, EventsOf(Picks))
    BY <1>6, <1>7, <2>2, EventsIs
  <2>4. Gather(old \o raw, EventsOf(Picks)) = Gather(old, EventsOf(Picks)) \o Gather(raw, EventsOf(Picks))
    BY <1>6, <1>7, <2>1, GatherConcat
  <2>5. Events(old \o raw) = Gather(A, D) \o Gather(Append(kept, a), D)
    BY <1>6, <1>7, <2>3, <2>4
  <2>6. /\ Gather(Append(kept, a), D) = Gather(kept, D) \o D[a]
        /\ Gather(Append(Z, a), D) = Gather(Z, D) \o D[a]
    <3>1. \A c \in Seq(Sorted) : \A e \in Sorted : Gather(Append(c, e), D) = Gather(c, D) \o D[e]
      BY <1>6, GatherAppend
    <3> QED
      BY <1>1, <1>2, <3>1, Zenon
  <2>7. Gather(A \o Append(Z, a), D) = Gather(A, D) \o Gather(Append(Z, a), D)
    <3>1. \A c \in Seq(Sorted) : \A e \in Seq(Sorted) : Gather(c \o e, D) = Gather(c, D) \o Gather(e, D)
      BY <1>6, GatherConcat
    <3> QED
      BY <1>1, <1>4, <3>1, Zenon
  <2> QED
    BY <1>2, <1>3, <2>5, <2>6, <2>7
<1>11. \A m : m \in Metrics(old \o raw) <=> \E s \in ToSet(Everything(r)) : m \in Inner(s, from, end)
  <2>1. ToSet(old \o raw) = ToSet(old) \cup ToSet(raw)
    BY <1>6, <1>7, SetConcat
  <2>2. \A m : m \in Metrics(old \o raw) <=> m \in Metrics(old) \/ m \in Metrics(raw)
    BY <2>1 DEF Metrics
  <2>3. ToSet(Append(kept, a)) = ToSet(kept) \cup {a} /\ ToSet(Append(Z, a)) = ToSet(Z) \cup {a}
    <3>1. <<a>> \in Seq(Sorted) /\ ToSet(<<a>>) = {a}
      BY <1>1 DEF ToSet
    <3>2. Append(kept, a) = kept \o <<a>> /\ Append(Z, a) = Z \o <<a>>
      <4>1. \A c \in Seq(Sorted) : \A e \in Sorted : Append(c, e) = c \o <<e>>
        OBVIOUS
      <4> QED
        BY <1>1, <1>2, <4>1, Zenon
    <3>3. ToSet(kept \o <<a>>) = ToSet(kept) \cup ToSet(<<a>>) /\ ToSet(Z \o <<a>>) = ToSet(Z) \cup ToSet(<<a>>)
      <4>1. \A c, d \in Seq(Sorted) : ToSet(c \o d) = ToSet(c) \cup ToSet(d)
        BY SetConcat
      <4> QED
        BY <1>1, <1>2, <3>1, <4>1, Zenon
    <3> QED
      BY <3>1, <3>2, <3>3
  <2>4. ToSet(A \o Append(Z, a)) = ToSet(A) \cup ToSet(Append(Z, a))
    <3>1. \A c, d \in Seq(Sorted) : ToSet(c \o d) = ToSet(c) \cup ToSet(d)
      BY SetConcat
    <3> QED
      BY <1>1, <1>4, <3>1, Zenon
  <2> QED
    BY <1>2, <1>3, <1>8, <1>9, <2>2, <2>3, <2>4
<1>12. \A m : m \in {n \in Metrics(Everything(r)) : from <= n.start /\ n.end <= end}
                <=> \E s \in ToSet(Everything(r)) : m \in Inner(s, from, end)
  BY DEF Metrics, Inner
<1>13. Metrics(old \o raw) = {n \in Metrics(Everything(r)) : from <= n.start /\ n.end <= end}
  BY <1>11, <1>12
<1> QED
  BY <1>10, <1>13 DEF Exactly, old, raw

-----------------------------------------------------------------------------
(* The window of a snapshot.                                               *)

LEMMA MinIs ==
    ASSUME NEW T \in SUBSET Nat, T # {}
    PROVE  Min(T) \in T /\ \A n \in T : Min(T) <= n
<1>1. \E m \in T : \A n \in T : m <= n
  BY Least
<1> QED
  BY <1>1 DEF Min

LEMMA MaxIs ==
    ASSUME NEW T \in SUBSET Nat, T # {}, NEW b \in Nat, \A n \in T : n <= b
    PROVE  Max(T) \in T /\ \A n \in T : n <= Max(T)
<1> DEFINE D == {k \in 0..b : b - k \in T}
<1>1. D \in SUBSET Nat /\ D # {}
  <2>1. PICK n \in T : TRUE
    OBVIOUS
  <2>2. n \in Nat /\ n <= b /\ b - n \in 0..b /\ b - (b - n) = n
    BY <2>1
  <2>3. b - n \in D
    BY <2>1, <2>2
  <2>4. D \in SUBSET Nat
    OBVIOUS
  <2> HIDE DEF D
  <2> QED
    BY <2>3, <2>4
<1>2. PICK k \in D : \A j \in D : k <= j
  <2> HIDE DEF D
  <2> QED
    BY <1>1, Least
<1>3. b - k \in T /\ k \in 0..b
  BY <1>2
<1>4. ASSUME NEW n \in T PROVE b - k >= n
  <2>1. n \in Nat /\ n <= b /\ b - n \in 0..b /\ b - (b - n) = n
    BY <1>4
  <2>2. b - n \in D
    BY <1>4, <2>1
  <2>3. k <= b - n
    BY <1>2, <2>2
  <2> QED
    BY <1>3, <2>1, <2>3
<1>5. \E m \in T : \A n \in T : m >= n
  BY <1>3, <1>4
<1>6. Max(T) \in T /\ \A n \in T : Max(T) >= n
  BY <1>5 DEF Max
<1> QED
  BY <1>6

\* Where a window that starts at start and ends at end can begin.
Beginning(r, start, end, from) ==
    /\ from \in Nat /\ 1 <= from /\ from <= end
    /\ start > from =>
          \E s \in ToSet(Rollups(r)) : \E m \in Inner(s, from, end) : m.end > start

LEMMA RetainedFromIs ==
    ASSUME NEW r, Books(r)
    PROVE  RetainedFrom(r) \in Nat /\ 1 <= RetainedFrom(r)
<1>1. r \in Recorders /\ r.sealed \in Seq(Segments) /\ r.active \in Segments /\ r.rollups \in Seq(Segments)
      /\ (r.rollupActive # NoRollup => r.rollupActive \in Segments)
  BY RecorderFields DEF Books
<1>2. /\ \A i \in DOMAIN r.rollups : 1 <= r.rollups[i].min
      /\ r.rollupActive # NoRollup => 1 <= r.rollupActive.min
      /\ \A i \in DOMAIN r.sealed : 1 <= r.sealed[i].start
      /\ 1 <= r.active.start
  BY DEF Books, RollupOK, RawOK
<1> DEFINE d == IF r.sealed # <<>> THEN Head(r.sealed).start ELSE r.active.start
           o == IF r.rollups # <<>> THEN {Head(r.rollups).min}
                ELSE IF r.rollupActive # NoRollup THEN {r.rollupActive.min} ELSE {}
<1>3. d \in Nat /\ 1 <= d
  <2>1. CASE r.sealed = <<>>
    BY <1>1, <1>2, <2>1, SegmentFields
  <2>2. CASE r.sealed # <<>>
    <3>1. 1 \in DOMAIN r.sealed /\ Head(r.sealed) = r.sealed[1] /\ r.sealed[1] \in Segments
      BY <1>1, <2>2
    <3>2. r.sealed[1].start \in Nat /\ 1 <= r.sealed[1].start
      BY <1>2, <3>1, SegmentFields
    <3> QED
      BY <2>2, <3>1, <3>2
  <2> QED
    BY <2>1, <2>2
<1>4. o \in SUBSET Nat /\ \A n \in o : 1 <= n
  <2>1. CASE r.rollups # <<>>
    <3>1. 1 \in DOMAIN r.rollups /\ Head(r.rollups) = r.rollups[1] /\ r.rollups[1] \in Segments
      BY <1>1, <2>1
    <3>2. r.rollups[1].min \in Nat /\ 1 <= r.rollups[1].min
      BY <1>2, <3>1, SegmentFields
    <3> QED
      BY <2>1, <3>1, <3>2
  <2>2. CASE r.rollups = <<>> /\ r.rollupActive # NoRollup
    BY <1>1, <1>2, <2>2, SegmentFields
  <2>3. CASE r.rollups = <<>> /\ r.rollupActive = NoRollup
    BY <2>3
  <2> QED
    BY <2>1, <2>2, <2>3
<1>5. RetainedFrom(r) = Min({d} \cup o)
  BY DEF RetainedFrom
<1> HIDE DEF d, o
<1>6. Min({d} \cup o) \in {d} \cup o
  BY <1>3, <1>4, MinIs
<1> QED
  BY <1>3, <1>4, <1>5, <1>6

LEMMA WindowBegins ==
    ASSUME NEW r, Books(r), NEW start \in Nat, NEW end \in Nat, start <= end, 1 <= end
    PROVE  Beginning(r, start, end, SelectedStart(r, start, end))
<1> DEFINE f == RetainedFrom(r)
           b == IF start < f THEN Min({f, end}) ELSE start
           looked == {s \in ToSet(r.rollups) : s.max > b /\ s.min < b} \cup ({r.rollupActive} \ {NoRollup})
           crossing == {m \in UNION {ToSet(s.metrics) : s \in looked} :
                           m.start < b /\ m.end > b /\ m.end <= end}
           starts == {m.start : m \in crossing}
           from == Min({b} \cup starts)
<1>1. SelectedStart(r, start, end) = from
  BY DEF SelectedStart, Widened
<1>2. b \in Nat /\ 1 <= b /\ b <= end /\ start <= b
  <2>1. f \in Nat /\ 1 <= f
    BY RetainedFromIs
  <2> HIDE DEF f
  <2>2. Min({f, end}) \in {f, end} /\ \A n \in {f, end} : Min({f, end}) <= n
    BY <2>1, MinIs
  <2>3. CASE start < f
    BY <2>1, <2>2, <2>3
  <2>4. CASE ~(start < f)
    BY <2>1, <2>4
  <2> QED
    BY <2>3, <2>4
<1>3. ASSUME NEW s \in looked PROVE s \in ToSet(Rollups(r)) /\ s \in Segments /\ Within(s)
  <2>1. r.rollups \in Seq(Segments) /\ (r.rollupActive # NoRollup => r.rollupActive \in Segments)
    BY RecorderFields DEF Books
  <2>2. s \in ToSet(Rollups(r))
    <3>1. CASE r.rollupActive = NoRollup
      BY <1>3, <3>1 DEF Rollups
    <3>2. CASE r.rollupActive # NoRollup
      <4> DEFINE c == r.rollups
                 a == r.rollupActive
      <4>1. c \in Seq(Segments) /\ a \in Segments /\ (s \in ToSet(c) \/ s = a) /\ Rollups(r) = Append(c, a)
        BY <1>3, <2>1, <3>2 DEF Rollups
      <4> HIDE DEF c, a
      <4>2. Append(c, a) = c \o <<a>> /\ <<a>> \in Seq(Segments) /\ a \in ToSet(<<a>>)
        BY <4>1 DEF ToSet
      <4>3. ToSet(c \o <<a>>) = ToSet(c) \cup ToSet(<<a>>)
        <5>1. \A d \in Seq(Segments) : ToSet(c \o d) = ToSet(c) \cup ToSet(d)
          BY <4>1, SetConcat
        <5> QED
          BY <4>2, <5>1, Zenon
      <4> QED
        BY <4>1, <4>2, <4>3
    <3> QED
      BY <3>1, <3>2
  <2>3. \A z \in ToSet(Rollups(r)) : z \in Sorted
    <3>1. Rollups(r) \in Seq(Sorted)
      BY BooksShelved DEF Shelved
    <3> QED
      BY <3>1 DEF ToSet
  <2> QED
    BY <2>2, <2>3 DEF Sorted
<1>4. ASSUME NEW m \in crossing
      PROVE  /\ m.start \in Nat /\ m.end \in Nat /\ 1 <= m.start /\ m.start < b /\ m.end > b /\ m.end <= end
             /\ \E s \in ToSet(Rollups(r)) : m \in ToSet(s.metrics)
  <2>1. PICK s \in looked : m \in ToSet(s.metrics)
    BY <1>4
  <2>2. s \in ToSet(Rollups(r)) /\ s \in Segments /\ Within(s)
    BY <1>3, <2>1
  <2>3. m.start \in Nat /\ m.end \in Nat /\ 1 <= m.start
    BY <2>1, <2>2, WithinFields
  <2>4. m.start < b /\ m.end > b /\ m.end <= end
    BY <1>4
  <2> QED
    BY <2>1, <2>2, <2>3, <2>4
<1> HIDE DEF looked, crossing, b, f
<1>5. {b} \cup starts \in SUBSET Nat /\ \A n \in {b} \cup starts : 1 <= n /\ n <= b
  BY <1>2, <1>4
<1>6. from \in {b} \cup starts
  <2> HIDE DEF starts
  <2> QED
    BY <1>5, MinIs
<1>7. from \in Nat /\ 1 <= from /\ from <= end
  <2> HIDE DEF from, starts
  <2> QED
    BY <1>2, <1>5, <1>6
<1>8. ASSUME start > from
      PROVE  \E s \in ToSet(Rollups(r)) : \E m \in Inner(s, from, end) : m.end > start
  <2>1. from # b
    <3> HIDE DEF from
    <3> QED
      BY <1>2, <1>7, <1>8
  <2>2. PICK m \in crossing : m.start = from
    <3>1. from \in starts
      <4> HIDE DEF from, starts
      <4> QED
        BY <1>6, <2>1
    <3> HIDE DEF from
    <3> QED
      BY <3>1
  <2> HIDE DEF from, starts
  <2>3. PICK s \in ToSet(Rollups(r)) : m \in ToSet(s.metrics)
    BY <1>4, <2>2
  <2>4. m \in Inner(s, from, end) /\ m.end > start
    BY <1>2, <1>4, <1>7, <2>2, <2>3 DEF Inner
  <2> QED
    BY <2>3, <2>4
<1> HIDE DEF from
<1> QED
  BY <1>1, <1>7, <1>8 DEF Beginning

\* The segments of the capture of a window.
Segmented(r, c, start, end, from, eventStart) ==
    /\ c.start = from /\ c.end = end /\ c.requested = start
    /\ c.segments = Old(r, from, eventStart, end) \o Raw(r, from, eventStart, end)
    /\ c.aggregateOnlyUntil = Max({0} \cup {m.end : m \in Metrics(Old(r, from, eventStart, end))})

LEMMA WindowSegmented ==
    ASSUME NEW r, NEW start, NEW end
    PROVE  LET from == SelectedStart(r, start, end)
           IN  Segmented(r, SnapshotWindow(r, start, end), start, end, from, Max({start, from}))
BY DEF Segmented, SnapshotWindow, CaptureFrom, Capture, Old, Raw, Late

LEMMA LaterStart ==
    ASSUME NEW a \in Nat, NEW b \in Nat
    PROVE  Max({a, b}) \in Nat /\ b <= Max({a, b}) /\ a <= Max({a, b})
<1>1. a + b \in Nat /\ {a, b} \in SUBSET Nat /\ \A n \in {a, b} : n <= a + b
  OBVIOUS
<1>2. Max({a, b}) \in {a, b} /\ \A n \in {a, b} : n <= Max({a, b})
  BY <1>1, MaxIs
<1> QED
  BY <1>2

\* The end of the last aggregate that has no detail.
LEMMA OnlyUntil ==
    ASSUME NEW r, Shelved(r), NEW from, NEW eventStart, NEW end, Windowed(from, eventStart, end),
           NEW u, u = Max({0} \cup {m.end : m \in Metrics(Old(r, from, eventStart, end))})
    PROVE  /\ u # 0 => from <= u /\ u <= end
           /\ u \in Nat
           /\ \A s \in ToSet(Rollups(r)) : \A m \in Inner(s, from, end) : m.end <= u
<1> DEFINE M == Metrics(Old(r, from, eventStart, end))
           T == {m.end : m \in M}
<1>1. \A m : m \in M <=> \E s \in ToSet(Rollups(r)) : m \in Inner(s, from, end)
  <2>1. Rollups(r) \in Seq(Sorted)
    BY DEF Shelved
  <2> QED
    BY <2>1, PickedMetrics DEF Old
<1>2. ASSUME NEW s \in ToSet(Rollups(r)), NEW m \in Inner(s, from, end)
      PROVE  m.start \in Nat /\ m.end \in Nat /\ m.start < m.end /\ from <= m.start /\ m.end <= end
  <2>1. s \in Segments /\ Within(s)
    BY DEF Shelved, ToSet, Sorted
  <2>2. m \in ToSet(s.metrics) /\ from <= m.start /\ m.end <= end
    BY DEF Inner
  <2> QED
    BY <2>1, <2>2, WithinFields
<1> HIDE DEF M
<1>3. \A m \in M : m.start \in Nat /\ m.end \in Nat /\ m.start < m.end /\ from <= m.start /\ m.end <= end
  BY <1>1, <1>2
<1>4. from \in Nat /\ end \in Nat
  BY DEF Windowed
<1>5. /\ \A n \in T : n \in Nat /\ from <= n /\ n <= end
      /\ \A m \in M : m.end \in T
  BY <1>3, <1>4
<1> HIDE DEF T
<1>6. {0} \cup T \in SUBSET Nat /\ \A n \in {0} \cup T : n <= end
  BY <1>4, <1>5
<1>7. u = Max({0} \cup T)
  BY DEF M, T
<1>8. u \in {0} \cup T /\ \A n \in {0} \cup T : n <= u
  BY <1>4, <1>6, <1>7, MaxIs
<1> QED
  BY <1>1, <1>5, <1>6, <1>8

LEMMA WindowSound ==
    ASSUME NEW r, Books(r), NEW start \in Nat, NEW end \in Nat, start <= end, 1 <= end,
           NEW c, c = SnapshotWindow(r, start, end)
    PROVE  /\ Readable(c)
           /\ c.end = end /\ Exactly(r, c.segments, c.start, Max({c.start, c.requested}), end)
<1> DEFINE from == SelectedStart(r, start, end)
           es == Max({start, from})
           u == c.aggregateOnlyUntil
<1>1. Segmented(r, c, start, end, from, es)
  BY WindowSegmented
<1>2. Shelved(r) /\ Beginning(r, start, end, from)
  BY BooksShelved, WindowBegins
<1> HIDE DEF from
<1>3. from \in Nat /\ 1 <= from /\ from <= end
  BY <1>2 DEF Beginning
<1>4. es \in Nat /\ from <= es
  BY <1>3, LaterStart
<1>5. {start, from} = {from, start}
  OBVIOUS
<1>6. c.start = from /\ c.end = end /\ c.requested = start /\ Max({c.start, c.requested}) = es
  BY <1>1, <1>5 DEF Segmented
<1> HIDE DEF es
<1>7. Windowed(from, es, end)
  BY <1>3, <1>4 DEF Windowed
<1>8. Exactly(r, c.segments, from, es, end)
  BY <1>1, <1>2, <1>7, CaptureExact DEF Segmented
<1>9. /\ u # 0 => from <= u /\ u <= end
      /\ u \in Nat
      /\ \A s \in ToSet(Rollups(r)) : \A m \in Inner(s, from, end) : m.end <= u
  <2> HIDE DEF u
  <2>1. u = Max({0} \cup {m.end : m \in Metrics(Old(r, from, es, end))})
    BY <1>1 DEF Segmented, u
  <2> QED
    BY <1>2, <1>7, <2>1, OnlyUntil
<1>10. start > from => u > start
  <2> SUFFICES ASSUME start > from PROVE u > start
    OBVIOUS
  <2>1. PICK s \in ToSet(Rollups(r)) : \E m \in Inner(s, from, end) : m.end > start
    BY <1>2 DEF Beginning
  <2>2. PICK m \in Inner(s, from, end) : m.end > start
    BY <2>1
  <2>3. m.end <= u /\ m.end \in Nat
    <3>1. s \in Segments /\ Within(s)
      BY <1>2 DEF Shelved, ToSet, Sorted
    <3>2. m \in ToSet(s.metrics)
      BY DEF Inner
    <3> QED
      BY <1>9, <3>1, <3>2, WithinFields
  <2> HIDE DEF u
  <2> QED
    BY <1>9, <2>2, <2>3
<1>11. \A e \in ToSet(Events(c.segments)) : from <= e /\ e <= end
  <2>1. Events(c.segments) = Among(Events(Everything(r)), es..end)
    BY <1>8 DEF Exactly
  <2>2. Events(Everything(r)) \in Seq(Nat)
    <3>1. Everything(r) \in Seq(Sorted)
      BY <1>2, <1>7, EverythingEvents
    <3>2. Gathers(EventsOf(Sorted), Sorted, Nat)
      <4>1. \A s \in Sorted : s.events \in Seq(Nat)
        BY SegmentFields DEF Sorted
      <4> QED
        BY <4>1 DEF Gathers, EventsOf
    <3>3. Events(Everything(r)) = Gather(Everything(r), EventsOf(Sorted))
      BY <3>1, EventsIs
    <3>4. Gather(Everything(r), EventsOf(Sorted)) \in Seq(Nat)
      BY <3>1, <3>2, GatherParts
    <3> QED
      BY <3>3, <3>4
  <2>3. ToSet(Events(c.segments)) = ToSet(Events(Everything(r))) \cap (es..end)
    BY <2>1, <2>2, AmongSet
  <2>4. \A e \in es..end : from <= e /\ e <= end
    BY <1>3, <1>4
  <2> QED
    BY <2>3, <2>4
<1>12. \A m \in Metrics(c.segments) : m.start <= m.end /\ from <= m.start /\ m.end <= end
  <2>1. \A m \in Metrics(c.segments) : m \in Metrics(Everything(r)) /\ from <= m.start /\ m.end <= end
    BY <1>8 DEF Exactly
  <2>2. \A m \in Metrics(Everything(r)) : m.start \in Nat /\ m.end \in Nat /\ m.start < m.end
    <3>1. \A s \in ToSet(Everything(r)) : s \in Segments /\ Within(s)
      BY EverythingFields
    <3> QED
      BY <3>1, WithinFields DEF Metrics
  <2> QED
    BY <2>1, <2>2
<1> HIDE DEF u
<1>13. Readable(c)
  BY <1>3, <1>6, <1>9, <1>10, <1>11, <1>12 DEF Readable, u
<1> QED
  BY <1>6, <1>8, <1>13

(* A snapshot of any window can be read back and holds exactly what is     *)
(* retained of it (recorder.go: Snapshot, capture, selectSegment), for     *)
(* every number of sensors, budget and interval: bounds on timestamps only *)
(* skip what has no part in the window.                                    *)
THEOREM SnapshotsFaithful ==
    ASSUME RecorderAssumption
    PROVE  Spec => []SnapshotSound
<1>1. RecorderInv => SnapshotSound
  <2> SUFFICES ASSUME RecorderInv PROVE SnapshotSound
    OBVIOUS
  <2>1. Books(rec) /\ now \in Nat
    BY InvFields DEF Sound
  <2>2. ASSUME NEW w \in Windows
        PROVE  LET c == SnapshotWindow(rec, w.start, w.end)
               IN  /\ Readable(c)
                   /\ Exact(c, Metrics(Everything(rec)), Events(Everything(rec)))
    <3>1. w.start \in Nat /\ w.end \in Nat /\ w.start <= w.end /\ 1 <= w.end
      BY <2>1 DEF Windows
    <3> DEFINE c == SnapshotWindow(rec, w.start, w.end)
    <3>2. /\ Readable(c)
          /\ c.end = w.end /\ Exactly(rec, c.segments, c.start, Max({c.start, c.requested}), w.end)
      <4> HIDE DEF c
      <4> QED
        BY <2>1, <3>1, WindowSound DEF c
    <3> HIDE DEF c
    <3> QED
      BY <3>2 DEF Exactly, Exact, c
  <2> QED
    BY <2>2 DEF SnapshotSound
<1>2. Spec => []RecorderInv
  BY RecorderInvariant
<1> QED
  BY <1>1, <1>2, PTL

=============================================================================
