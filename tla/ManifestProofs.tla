--------------------------- MODULE ManifestProofs ---------------------------
(***************************************************************************)
(* What the differences of module Manifest do, for slices of any length    *)
(* and any ids and values: the events that lead from one state of the      *)
(* world to another, applied to a memory that shows the first, make it     *)
(* show the second.                                                        *)
(*                                                                         *)
(* Keep and ApplyEvents are recursive functions of the length of a slice.  *)
(* What they compute is shown by induction, about a set of numbers instead *)
(* of a predicate.  The rest is about Ids and Lookup, which are followed   *)
(* through Keep, Events and the concatenation of slices.                   *)
(***************************************************************************)
EXTENDS Manifest, WellFoundedInduction, SequenceTheorems, TLAPS

(* Induction over the natural numbers.                                     *)

\* A set of natural numbers that is not empty has a smallest member.
LEMMA Smallest ==
    ASSUME NEW T \in SUBSET Nat, T # {}
    PROVE  \E n \in T : \A k \in T : n <= k
<1>1. \A x, y \in Nat : y < x => <<y, x>> \in OpToRel(<, Nat)
  BY DEF OpToRel
<1>2. \E x \in T : \A y \in T : ~ (<<y, x>> \in OpToRel(<, Nat))
  BY NatLessThanWellFounded, WFMin, Zenon
<1>3. PICK x \in T : \A y \in T : ~ (<<y, x>> \in OpToRel(<, Nat))
  BY <1>2
<1>4. \A y \in T : ~ (y < x)
  BY <1>1, <1>3
<1> QED
  BY <1>4

\* Induction over the natural numbers.
LEMMA Induct ==
    ASSUME NEW S, 0 \in S, \A n \in Nat : n \in S => n + 1 \in S
    PROVE  Nat \subseteq S
<1> SUFFICES ASSUME NEW x \in Nat, x \notin S PROVE FALSE
  OBVIOUS
<1> DEFINE T == {n \in Nat : n \notin S}
<1>1. PICK n \in T : \A k \in T : n <= k
  <2> HIDE DEF T
  <2>1. T \in SUBSET Nat /\ T # {}
    BY DEF T
  <2> QED
    BY <2>1, Smallest
<1>2. n # 0 /\ n - 1 \in Nat
  OBVIOUS
<1>3. n - 1 \in S
  BY <1>1, <1>2
<1> QED
  BY <1>1, <1>2, <1>3
-----------------------------------------------------------------------------
(* Keep.                                                                   *)

\* What Keep makes of the objects before and of the next one.
KeepNext(kept, o, set) == IF o \in set THEN Append(kept, o) ELSE kept

\* f is the function that Keep defines, up to n objects.
KeepsUpto(objs, set, n, f) ==
    f = [i \in 0..n |-> IF i = 0 THEN <<>> ELSE KeepNext(f[i - 1], objs[i], set)]

\* The recursion of Keep is well defined.
LEMMA KeepDef ==
    ASSUME NEW X, NEW objs \in Seq(X), NEW set
    PROVE  \E f : /\ KeepsUpto(objs, set, Len(objs), f)
                  /\ Keep(objs, set) = f[Len(objs)]
<1> DEFINE N == Len(objs)
           kept[i \in 0..N] ==
               IF i = 0 THEN <<>>
               ELSE IF objs[i] \in set THEN Append(kept[i - 1], objs[i]) ELSE kept[i - 1]
           S == {n \in Nat : \E f : KeepsUpto(objs, set, n, f)}
<1>1. 0 \in S
  <2> DEFINE g == [i \in 0..0 |-> <<>>]
  <2>1. KeepsUpto(objs, set, 0, g)
    BY DEF KeepsUpto
  <2> QED
    BY <2>1
<1>2. ASSUME NEW n \in Nat, n \in S PROVE n + 1 \in S
  <2> PICK f : KeepsUpto(objs, set, n, f)
    BY <1>2
  <2> DEFINE g == [i \in 0..(n + 1) |->
                      IF i <= n THEN f[i] ELSE KeepNext(f[i - 1], objs[i], set)]
  <2>1. KeepsUpto(objs, set, n + 1, g)
    BY DEF KeepsUpto
  <2> HIDE DEF g
  <2> QED
    BY <2>1
<1>3. N \in S
  <2> HIDE DEF S
  <2> QED
    BY <1>1, <1>2, Induct
<1>4. PICK f : KeepsUpto(objs, set, N, f)
  BY <1>3
<1>5. f = [i \in 0..N |->
              IF i = 0 THEN <<>>
              ELSE IF objs[i] \in set THEN Append(f[i - 1], objs[i]) ELSE f[i - 1]]
  BY <1>4 DEF KeepsUpto, KeepNext
<1>6. kept = [i \in 0..N |->
                 IF i = 0 THEN <<>>
                 ELSE IF objs[i] \in set THEN Append(kept[i - 1], objs[i]) ELSE kept[i - 1]]
  BY <1>5
<1>7. Keep(objs, set) = kept[N]
  BY DEF Keep
<1> HIDE DEF kept
<1>8. KeepsUpto(objs, set, N, kept)
  BY <1>6 DEF KeepsUpto, KeepNext
<1> QED
  BY <1>7, <1>8

\* A slice of members of S is one of members of any larger set.
LEMMA SeqLarger ==
    ASSUME NEW S, NEW T, S \subseteq T, NEW s \in Seq(S)
    PROVE  s \in Seq(T)
<1>1. Len(s) \in Nat /\ DOMAIN s = 1..Len(s) /\ \A i \in 1..Len(s) : s[i] \in T
  OBVIOUS
<1>2. s \in [1..Len(s) -> T]
  BY <1>1
<1> QED
  BY <1>1, <1>2

\* Position i of s is the last one with this id.
IsLast(s, i, n) ==
    /\ i \in DOMAIN s
    /\ s[i].id = n
    /\ \A j \in DOMAIN s : s[j].id = n => j <= i

\* kept holds, in their order, those of the first n objects that are in set: h takes
\* the positions of kept to theirs.
Picks(objs, set, n, kept, h) ==
    /\ h \in [1..Len(kept) -> 1..n]
    /\ \A k \in 1..Len(kept) : kept[k] = objs[h[k]] /\ objs[h[k]] \in set
    /\ \A k, l \in 1..Len(kept) : k < l => h[k] < h[l]
    /\ \A j \in 1..n : objs[j] \in set => \E k \in 1..Len(kept) : h[k] = j

\* Keep picks the objects in set, in their order.
LEMMA KeepPicks ==
    ASSUME NEW X, NEW objs \in Seq(X), NEW set
    PROVE  /\ Keep(objs, set) \in Seq(X)
           /\ \E h : Picks(objs, set, Len(objs), Keep(objs, set), h)
<1> DEFINE N == Len(objs)
<1>1. PICK f : KeepsUpto(objs, set, N, f) /\ Keep(objs, set) = f[N]
  BY KeepDef
<1>2. /\ N \in Nat
      /\ f[0] = <<>>
      /\ \A n \in Nat : n + 1 <= N => f[n + 1] = KeepNext(f[n], objs[n + 1], set)
  BY <1>1 DEF KeepsUpto
<1> DEFINE Good(n) == f[n] \in Seq(X) /\ \E h : Picks(objs, set, n, f[n], h)
           S == {n \in Nat : n <= N => Good(n)}
<1>3. 0 \in S
  <2> DEFINE h == [i \in 1..0 |-> 0]
  <2>1. Picks(objs, set, 0, <<>>, h)
    BY DEF Picks
  <2> HIDE DEF h
  <2>2. f[0] \in Seq(X) /\ Picks(objs, set, 0, f[0], h)
    BY <1>2, <2>1
  <2> QED
    BY <2>2
<1>4. ASSUME NEW n \in Nat, n \in S PROVE n + 1 \in S
  <2> SUFFICES ASSUME n + 1 <= N PROVE Good(n + 1)
    OBVIOUS
  <2>1. Good(n)
    BY <1>2, <1>4
  <2>2. PICK h : Picks(objs, set, n, f[n], h)
    BY <2>1
  <2>3. objs[n + 1] \in X
    BY <1>2
  <2> DEFINE o == objs[n + 1]
             L == Len(f[n])
  <2>4. L \in Nat
    BY <2>1
  <2>5. CASE o \in set
    <3> DEFINE g == [k \in 1..(L + 1) |-> IF k = L + 1 THEN n + 1 ELSE h[k]]
    <3>1. f[n + 1] = Append(f[n], o)
      BY <1>2, <2>5 DEF KeepNext
    <3>2. /\ Len(f[n + 1]) = L + 1
          /\ f[n + 1][L + 1] = o
          /\ \A k \in 1..L : f[n + 1][k] = f[n][k]
      BY <3>1, <2>1
    <3>3. Picks(objs, set, n + 1, f[n + 1], g)
      <4>1. g \in [1..(L + 1) -> 1..(n + 1)]
        BY <2>2, <2>4 DEF Picks
      <4>2. \A k \in 1..(L + 1) : f[n + 1][k] = objs[g[k]] /\ objs[g[k]] \in set
        BY <2>2, <2>4, <2>5, <3>2 DEF Picks
      <4>3. \A k, l \in 1..(L + 1) : k < l => g[k] < g[l]
        <5> TAKE k, l \in 1..(L + 1)
        <5> HAVE k < l
        <5>0. k \in 1..L /\ g[k] = h[k]
          BY <2>4
        <5>1. k \in 1..L /\ h[k] \in 1..n /\ g[k] = h[k]
          BY <5>0, <2>2 DEF Picks
        <5>2. CASE l = L + 1
          BY <5>1, <5>2
        <5>3. CASE l # L + 1
          <6>1. l \in 1..L /\ g[l] = h[l]
            BY <5>3, <2>4
          <6> QED
            BY <5>1, <6>1, <2>2 DEF Picks
        <5> QED
          BY <5>2, <5>3
      <4>4. \A j \in 1..(n + 1) : objs[j] \in set => \E k \in 1..(L + 1) : g[k] = j
        <5> TAKE j \in 1..(n + 1)
        <5> HAVE objs[j] \in set
        <5>1. CASE j = n + 1
          <6>1. L + 1 \in 1..(L + 1) /\ g[L + 1] = n + 1
            BY <2>4
          <6> QED
            BY <5>1, <6>1
        <5>2. CASE j # n + 1
          <6>1. j \in 1..n
            BY <1>2, <5>2
          <6>2. PICK k \in 1..L : h[k] = j
            BY <6>1, <2>2 DEF Picks
          <6>3. k \in 1..(L + 1) /\ k # L + 1
            BY <2>4
          <6>4. g[k] = j
            BY <6>2, <6>3
          <6> QED
            BY <6>3, <6>4
        <5> QED
          BY <5>1, <5>2
      <4> HIDE DEF g
      <4> QED
        BY <4>1, <4>2, <4>3, <4>4, <3>2 DEF Picks
    <3> HIDE DEF g
    <3> QED
      BY <3>1, <3>3, <2>1, <2>3
  <2>6. CASE o \notin set
    <3>1. f[n + 1] = f[n]
      BY <1>2, <2>6 DEF KeepNext
    <3>2. Picks(objs, set, n + 1, f[n], h)
      <4>1. h \in [1..L -> 1..(n + 1)]
        BY <2>2 DEF Picks
      <4>2. \A j \in 1..(n + 1) : objs[j] \in set => j \in 1..n
        BY <2>6
      <4> QED
        BY <4>1, <4>2, <2>2 DEF Picks
    <3> QED
      BY <3>1, <3>2, <2>1
  <2> QED
    BY <2>5, <2>6
<1>5. N \in S
  <2> HIDE DEF S
  <2> QED
    BY <1>2, <1>3, <1>4, Induct
<1> QED
  BY <1>1, <1>2, <1>5
-----------------------------------------------------------------------------
(* Ids and Lookup.                                                         *)

\* An id of a slice has a last position.
LEMMA LastExists ==
    ASSUME NEW X, NEW s \in Seq(X), NEW n \in Ids(s)
    PROVE  \E i : IsLast(s, i, n)
<1> DEFINE T == {k \in Nat : \E i \in DOMAIN s : s[i].id = n /\ k = Len(s) - i}
<1>1. DOMAIN s = 1..Len(s) /\ Len(s) \in Nat
  OBVIOUS
<1>2. T \in SUBSET Nat /\ T # {}
  <2>1. PICK i \in DOMAIN s : s[i].id = n
    BY DEF Ids
  <2>2. Len(s) - i \in T
    BY <1>1, <2>1
  <2> QED
    BY <2>2
<1>3. PICK k \in T : \A l \in T : k <= l
  <2> HIDE DEF T
  <2> QED
    BY <1>2, Smallest
<1>4. PICK i \in DOMAIN s : s[i].id = n /\ k = Len(s) - i
  BY <1>3
<1>5. ASSUME NEW j \in DOMAIN s, s[j].id = n PROVE j <= i
  <2>1. Len(s) - j \in T
    BY <1>1, <1>5
  <2> QED
    BY <1>1, <1>3, <1>4, <2>1
<1> QED
  BY <1>4, <1>5 DEF IsLast

\* Lookup finds the object at the last position of an id.
LEMMA LookupLast ==
    ASSUME NEW X, NEW s \in Seq(X), NEW n, NEW i, IsLast(s, i, n)
    PROVE  Lookup(s, n) = s[i] /\ n \in Ids(s)
<1>1. DOMAIN s = 1..Len(s)
  OBVIOUS
<1>2. \A j \in DOMAIN s :
        s[j].id = n /\ (\A k \in DOMAIN s : s[k].id = n => k <= j) => j = i
  BY <1>1 DEF IsLast
<1>3. i = CHOOSE j \in DOMAIN s :
            s[j].id = n /\ \A k \in DOMAIN s : s[k].id = n => k <= j
  BY <1>2 DEF IsLast
<1> QED
  BY <1>3 DEF Lookup, Ids, IsLast

\* What Lookup finds is an object of the slice with this id.
LEMMA LookupFinds ==
    ASSUME NEW X, NEW s \in Seq(X), NEW n \in Ids(s)
    PROVE  Lookup(s, n) \in ToSet(s) /\ Lookup(s, n) \in X /\ Lookup(s, n).id = n
<1>1. PICK i : IsLast(s, i, n)
  BY LastExists
<1>2. Lookup(s, n) = s[i]
  BY <1>1, LookupLast
<1> QED
  BY <1>1, <1>2 DEF IsLast, ToSet

\* An object of a slice at some position.
LEMMA IdsToSet ==
    ASSUME NEW s
    PROVE  Ids(s) = {o.id : o \in ToSet(s)}
BY DEF Ids, ToSet

\* Keep keeps the objects in set and no others.
LEMMA KeepSet ==
    ASSUME NEW X, NEW objs \in Seq(X), NEW set
    PROVE  ToSet(Keep(objs, set)) = ToSet(objs) \cap set
<1> DEFINE kept == Keep(objs, set)
<1>1. kept \in Seq(X)
  BY KeepPicks
<1>2. PICK h : Picks(objs, set, Len(objs), kept, h)
  BY KeepPicks
<1> HIDE DEF kept
<1>3. DOMAIN kept = 1..Len(kept) /\ DOMAIN objs = 1..Len(objs)
  BY <1>1
<1>4. ASSUME NEW o \in ToSet(kept) PROVE o \in ToSet(objs) \cap set
  <2>1. PICK k \in 1..Len(kept) : o = kept[k]
    BY <1>3 DEF ToSet
  <2> QED
    BY <2>1, <1>2, <1>3 DEF Picks, ToSet
<1>5. ASSUME NEW o \in ToSet(objs), o \in set PROVE o \in ToSet(kept)
  <2>1. PICK j \in 1..Len(objs) : o = objs[j]
    BY <1>3 DEF ToSet
  <2>2. PICK k \in 1..Len(kept) : h[k] = j
    BY <2>1, <1>2, <1>5 DEF Picks
  <2> QED
    BY <2>1, <2>2, <1>2, <1>3 DEF Picks, ToSet
<1> QED
  BY <1>4, <1>5 DEF kept

\* When all objects of an id are kept, the last one is still the last.
LEMMA KeepLookup ==
    ASSUME NEW X, NEW objs \in Seq(X), NEW set, NEW n \in Ids(objs),
           \A o \in ToSet(objs) : o.id = n => o \in set
    PROVE  n \in Ids(Keep(objs, set)) /\ Lookup(Keep(objs, set), n) = Lookup(objs, n)
<1> DEFINE kept == Keep(objs, set)
<1>1. kept \in Seq(X)
  BY KeepPicks
<1>2. PICK h : Picks(objs, set, Len(objs), kept, h)
  BY KeepPicks
<1> HIDE DEF kept
<1>3. DOMAIN kept = 1..Len(kept) /\ DOMAIN objs = 1..Len(objs) /\ Len(kept) \in Nat
  BY <1>1
<1>4. PICK i : IsLast(objs, i, n)
  BY LastExists
<1>5. i \in 1..Len(objs) /\ objs[i].id = n /\ objs[i] \in set
  BY <1>3, <1>4 DEF IsLast, ToSet
<1>6. PICK k \in 1..Len(kept) : h[k] = i
  BY <1>2, <1>5 DEF Picks
<1>7. kept[k] = objs[i]
  BY <1>2, <1>6 DEF Picks
<1>8. ASSUME NEW l \in 1..Len(kept), kept[l].id = n PROVE l <= k
  <2>1. h[l] \in 1..Len(objs) /\ objs[h[l]].id = n
    BY <1>2, <1>8 DEF Picks
  <2>2. h[l] <= h[k]
    BY <2>1, <1>3, <1>4, <1>6 DEF IsLast
  <2>3. k < l => h[k] < h[l]
    BY <1>2, <1>6 DEF Picks
  <2>4. h[k] \in Nat /\ h[l] \in Nat
    BY <2>1, <1>5, <1>6
  <2> QED
    BY <2>2, <2>3, <2>4
<1>9. IsLast(kept, k, n)
  BY <1>3, <1>5, <1>7, <1>8 DEF IsLast
<1>10. Lookup(kept, n) = kept[k] /\ n \in Ids(kept)
  BY <1>1, <1>9, LookupLast
<1>11. Lookup(objs, n) = objs[i]
  BY <1>4, LookupLast
<1> QED
  BY <1>7, <1>10, <1>11 DEF kept

\* Of two slices in a row, the second counts where it has an id.
LEMMA ConcatLookup ==
    ASSUME NEW X, NEW s \in Seq(X), NEW t \in Seq(X)
    PROVE  /\ s \o t \in Seq(X)
           /\ Ids(s \o t) = Ids(s) \cup Ids(t)
           /\ \A n \in Ids(t) : Lookup(s \o t, n) = Lookup(t, n)
           /\ \A n \in Ids(s) \ Ids(t) : Lookup(s \o t, n) = Lookup(s, n)
<1> DEFINE st == s \o t
<1>1. /\ st \in Seq(X)
      /\ DOMAIN st = 1..(Len(s) + Len(t)) /\ DOMAIN s = 1..Len(s) /\ DOMAIN t = 1..Len(t)
      /\ Len(s) \in Nat /\ Len(t) \in Nat
      /\ \A i \in DOMAIN s : st[i] = s[i]
      /\ \A i \in DOMAIN t : st[Len(s) + i] = t[i]
      /\ \A j \in DOMAIN st : j \in DOMAIN s \/ j - Len(s) \in DOMAIN t
  OBVIOUS
<1> HIDE DEF st
<1>2. \A j \in DOMAIN st :
        \/ j \in DOMAIN s /\ st[j] = s[j]
        \/ j - Len(s) \in DOMAIN t /\ st[j] = t[j - Len(s)]
  <2> TAKE j \in DOMAIN st
  <2>1. CASE j \in DOMAIN s
    BY <1>1, <2>1
  <2>2. CASE j - Len(s) \in DOMAIN t
    <3>1. st[Len(s) + (j - Len(s))] = t[j - Len(s)]
      BY <1>1, <2>2
    <3>2. Len(s) + (j - Len(s)) = j
      BY <1>1
    <3> QED
      BY <3>1, <3>2, <2>2
  <2> QED
    BY <1>1, <2>1, <2>2
<1>3. \A i \in DOMAIN s : i \in DOMAIN st
  BY <1>1
<1>4. \A i \in DOMAIN t : Len(s) + i \in DOMAIN st
  BY <1>1
<1>5. Ids(st) = Ids(s) \cup Ids(t)
  <2>1. Ids(st) \subseteq Ids(s) \cup Ids(t)
    BY <1>2 DEF Ids
  <2>2. Ids(s) \subseteq Ids(st)
    BY <1>1, <1>3 DEF Ids
  <2>3. Ids(t) \subseteq Ids(st)
    <3> SUFFICES ASSUME NEW i \in DOMAIN t PROVE t[i].id \in Ids(st)
      BY DEF Ids
    <3>1. st[Len(s) + i] = t[i] /\ Len(s) + i \in DOMAIN st
      BY <1>1, <1>4
    <3> QED
      BY <3>1 DEF Ids
  <2> QED
    BY <2>1, <2>2, <2>3
<1>6. ASSUME NEW n \in Ids(t) PROVE Lookup(st, n) = Lookup(t, n)
  <2>1. PICK i : IsLast(t, i, n)
    BY LastExists
  <2>2. IsLast(st, Len(s) + i, n)
    <3>1. Len(s) + i \in DOMAIN st /\ st[Len(s) + i].id = n
      BY <2>1, <1>1, <1>4 DEF IsLast
    <3>2. ASSUME NEW j \in DOMAIN st, st[j].id = n PROVE j <= Len(s) + i
      <4>1. CASE j \in DOMAIN s
        BY <4>1, <1>1, <2>1 DEF IsLast
      <4>2. CASE j \notin DOMAIN s
        <5>1. j - Len(s) \in DOMAIN t /\ t[j - Len(s)].id = n
          BY <1>2, <3>2, <4>2
        <5>2. j - Len(s) <= i
          BY <5>1, <2>1 DEF IsLast
        <5> QED
          BY <5>1, <5>2, <1>1, <2>1 DEF IsLast
      <4> QED
        BY <4>1, <4>2
    <3> QED
      BY <3>1, <3>2 DEF IsLast
  <2>3. Lookup(st, n) = st[Len(s) + i]
    BY <1>1, <2>2, LookupLast
  <2>4. Lookup(t, n) = t[i]
    BY <2>1, LookupLast
  <2> QED
    BY <2>1, <2>3, <2>4, <1>1 DEF IsLast
<1>7. ASSUME NEW n \in Ids(s) \ Ids(t) PROVE Lookup(st, n) = Lookup(s, n)
  <2>1. PICK i : IsLast(s, i, n)
    BY LastExists
  <2>2. \A j \in DOMAIN st : st[j].id = n => j \in DOMAIN s /\ s[j].id = n
    BY <1>2, <1>7 DEF Ids
  <2>3. IsLast(st, i, n)
    BY <2>1, <2>2, <1>1, <1>3 DEF IsLast
  <2>4. Lookup(st, n) = st[i]
    BY <1>1, <2>3, LookupLast
  <2>5. Lookup(s, n) = s[i]
    BY <2>1, LookupLast
  <2> QED
    BY <2>1, <2>4, <2>5, <1>1 DEF IsLast
<1> QED
  BY <1>1, <1>5, <1>6, <1>7 DEF st
-----------------------------------------------------------------------------
(* ApplyEvents.                                                            *)

\* What an event makes of the memory.
ApplyNext(mem, ev) == [mem EXCEPT ![ev.id] = Outcome(ev)]

\* f is the function that ApplyEvents defines, up to n events.
AppliesUpto(memory, evs, n, f) ==
    f = [i \in 0..n |-> IF i = 0 THEN memory ELSE ApplyNext(f[i - 1], evs[i])]

\* The recursion of ApplyEvents is well defined.
LEMMA ApplyDef ==
    ASSUME NEW X, NEW evs \in Seq(X), NEW memory
    PROVE  \E f : /\ AppliesUpto(memory, evs, Len(evs), f)
                  /\ ApplyEvents(memory, evs) = f[Len(evs)]
<1> DEFINE L == Len(evs)
           mem[i \in 0..L] ==
               IF i = 0 THEN memory
               ELSE [mem[i - 1] EXCEPT ![evs[i].id] = Outcome(evs[i])]
           S == {n \in Nat : \E f : AppliesUpto(memory, evs, n, f)}
<1>1. 0 \in S
  <2> DEFINE g == [i \in 0..0 |-> memory]
  <2>1. AppliesUpto(memory, evs, 0, g)
    BY DEF AppliesUpto
  <2> QED
    BY <2>1
<1>2. ASSUME NEW n \in Nat, n \in S PROVE n + 1 \in S
  <2> PICK f : AppliesUpto(memory, evs, n, f)
    BY <1>2
  <2> DEFINE g == [i \in 0..(n + 1) |->
                      IF i <= n THEN f[i] ELSE ApplyNext(f[i - 1], evs[i])]
  <2>1. AppliesUpto(memory, evs, n + 1, g)
    BY DEF AppliesUpto
  <2> HIDE DEF g
  <2> QED
    BY <2>1
<1>3. L \in S
  <2> HIDE DEF S
  <2> QED
    BY <1>1, <1>2, Induct
<1>4. PICK f : AppliesUpto(memory, evs, L, f)
  BY <1>3
<1>5. f = [i \in 0..L |-> IF i = 0 THEN memory
                          ELSE [f[i - 1] EXCEPT ![evs[i].id] = Outcome(evs[i])]]
  BY <1>4 DEF AppliesUpto, ApplyNext
<1>6. mem = [i \in 0..L |-> IF i = 0 THEN memory
                            ELSE [mem[i - 1] EXCEPT ![evs[i].id] = Outcome(evs[i])]]
  BY <1>5
<1>7. ApplyEvents(memory, evs) = mem[L]
  BY DEF ApplyEvents
<1> HIDE DEF mem
<1>8. AppliesUpto(memory, evs, L, mem)
  BY <1>6 DEF AppliesUpto, ApplyNext
<1> QED
  BY <1>7, <1>8

\* A batch leaves of each id what its last event says, and the rest as it was.
LEMMA ApplyExact ==
    ASSUME NEW X, NEW evs \in Seq(X), NEW N, NEW memory,
           memory = [n \in N |-> memory[n]]
    PROVE  ApplyEvents(memory, evs) =
               [n \in N |-> IF n \in Ids(evs) THEN Outcome(Lookup(evs, n)) ELSE memory[n]]
<1> DEFINE L == Len(evs)
           Upto(k) == SubSeq(evs, 1, k)
           After(k) == [n \in N |-> IF n \in Ids(Upto(k)) THEN Outcome(Lookup(Upto(k), n))
                                    ELSE memory[n]]
<1>1. PICK f : AppliesUpto(memory, evs, L, f) /\ ApplyEvents(memory, evs) = f[L]
  BY ApplyDef
<1>2. /\ L \in Nat
      /\ f[0] = memory
      /\ \A k \in Nat : k + 1 <= L => f[k + 1] = ApplyNext(f[k], evs[k + 1])
  <2>1. \A i \in 0..L : f[i] = IF i = 0 THEN memory ELSE ApplyNext(f[i - 1], evs[i])
    BY <1>1, Zenon DEF AppliesUpto
  <2>2. L \in Nat
    OBVIOUS
  <2>3. \A k \in Nat : k + 1 <= L => k + 1 \in 0..L /\ k + 1 # 0 /\ (k + 1) - 1 = k
    BY <2>2
  <2>4. 0 \in 0..L
    BY <2>2
  <2>5. f[0] = memory
    BY <2>1, <2>4, Zenon
  <2>6. ASSUME NEW k \in Nat, k + 1 <= L PROVE f[k + 1] = ApplyNext(f[k], evs[k + 1])
    <3>1. k + 1 \in 0..L /\ k + 1 # 0 /\ (k + 1) - 1 = k
      BY <2>3, <2>6
    <3>2. f[k + 1] = ApplyNext(f[(k + 1) - 1], evs[k + 1])
      BY <2>1, <3>1, Zenon
    <3> QED
      BY <3>1, <3>2, Zenon
  <2> QED
    BY <2>2, <2>5, <2>6
<1> DEFINE S == {k \in Nat : k <= L => f[k] = After(k)}
<1>3. 0 \in S
  <2>1. Ids(Upto(0)) = {}
    BY DEF Ids
  <2>2. After(0) = [n \in N |-> memory[n]]
    BY <2>1
  <2> QED
    BY <1>2, <2>2
<1>4. ASSUME NEW k \in Nat, k \in S PROVE k + 1 \in S
  <2> SUFFICES ASSUME k + 1 <= L PROVE f[k + 1] = After(k + 1)
    OBVIOUS
  <2> DEFINE ev == evs[k + 1]
             one == <<ev>>
  <2>1. f[k] = After(k)
    BY <1>2, <1>4
  <2> DEFINE s == Upto(k)
             t == Upto(k + 1)
  <2>2. ev \in X /\ s \in Seq(X) /\ t \in Seq(X) /\ one \in Seq(X)
    BY <1>2
  <2>3. t = s \o one
    <3>1. 1 \in 1..Len(evs) /\ k + 1 \in 1..Len(evs) /\ (k + 1) - 1 = k
      BY <1>2
    <3> HIDE DEF L
    <3> QED
      BY <3>1, SubSeqRecursiveSecond
  <2>4. Ids(one) = {ev.id}
    BY DEF Ids
  <2>5. Lookup(one, ev.id) = ev
    <3>1. IsLast(one, 1, ev.id)
      BY DEF IsLast
    <3>2. Lookup(one, ev.id) = one[1]
      BY <2>2, <3>1, LookupLast
    <3> QED
      BY <3>2
  <2> HIDE DEF ev, one, s, t
  <2>6. Ids(t) = Ids(s) \cup {ev.id}
    BY <2>2, <2>3, <2>4, ConcatLookup
  <2>7. Lookup(t, ev.id) = ev
    BY <2>2, <2>3, <2>4, <2>5, ConcatLookup
  <2>8. \A n \in Ids(s) \ {ev.id} : Lookup(t, n) = Lookup(s, n)
    BY <2>2, <2>3, <2>4, ConcatLookup
  <2>9. f[k + 1] = [After(k) EXCEPT ![ev.id] = Outcome(ev)]
    BY <1>2, <2>1 DEF ev, ApplyNext
  <2>10. After(k) = [n \in N |-> IF n \in Ids(s) THEN Outcome(Lookup(s, n)) ELSE memory[n]]
    BY DEF s
  <2>11. After(k + 1) =
            [n \in N |-> IF n \in Ids(t) THEN Outcome(Lookup(t, n)) ELSE memory[n]]
    BY DEF t
  <2> HIDE DEF After
  <2> QED
    BY <2>6, <2>7, <2>8, <2>9, <2>10, <2>11
<1>5. f[L] = After(L)
  <2>1. L \in S
    <3> HIDE DEF S
    <3> QED
      BY <1>2, <1>3, <1>4, Induct
  <2> QED
    BY <1>2, <2>1
<1>6. Upto(L) = evs
  OBVIOUS
<1> HIDE DEF Upto
<1> QED
  BY <1>1, <1>5, <1>6
-----------------------------------------------------------------------------
(* Compare, Events and GenerateEvents.                                     *)

\* The difference of two slices: what is new comes with its last object, what is in
\* both is left out only if the old objects all agree with the last new one.
LEMMA CompareExact ==
    ASSUME NEW X, NEW s1 \in Seq(X), NEW s2 \in Seq(X)
    PROVE  LET d == Compare(s1, s2)
           IN  /\ d.added \in Seq(X) /\ d.deleted \in Seq(X) /\ d.updated \in Seq(X)
               /\ Ids(d.added) = Ids(s2) \ Ids(s1)
               /\ \A n \in Ids(d.added) : Lookup(d.added, n) = Lookup(s2, n)
               /\ Ids(d.deleted) = Ids(s1) \ Ids(s2)
               /\ Ids(d.updated) \subseteq Ids(s1) \cap Ids(s2)
               /\ \A n \in Ids(d.updated) : Lookup(d.updated, n) = Lookup(s2, n)
               /\ \A n \in (Ids(s1) \cap Ids(s2)) \ Ids(d.updated) :
                    Lookup(s1, n) = Lookup(s2, n)
               /\ \A x \in ToSet(s1) :
                    x.id \in Ids(s2) \ Ids(d.updated) => x \in ToSet(s2)
<1> DEFINE new == {o \in ToSet(s2) : o.id \notin Ids(s1)}
           gone == {o \in ToSet(s1) : o.id \notin Ids(s2)}
           differ == {o \in ToSet(s1) : o.id \in Ids(s2) /\ Lookup(s2, o.id) # o}
           changed == Keep(s1, differ)
           added == Keep(s2, new)
           deleted == Keep(s1, gone)
           updated == [i \in DOMAIN changed |-> Lookup(s2, changed[i].id)]
<1>1. Compare(s1, s2) = [added |-> added, deleted |-> deleted, updated |-> updated]
  BY DEF Compare
<1>2. added \in Seq(X) /\ deleted \in Seq(X) /\ changed \in Seq(X)
  BY KeepPicks
<1>3. ToSet(added) = new /\ ToSet(deleted) = gone /\ ToSet(changed) = differ
  <2>1. ToSet(added) = ToSet(s2) \cap new
    BY KeepSet
  <2>2. ToSet(deleted) = ToSet(s1) \cap gone
    BY KeepSet
  <2>3. ToSet(changed) = ToSet(s1) \cap differ
    BY KeepSet
  <2> QED
    BY <2>1, <2>2, <2>3
<1>4. /\ Ids(s1) = {o.id : o \in ToSet(s1)}
      /\ Ids(s2) = {o.id : o \in ToSet(s2)}
      /\ Ids(added) = {o.id : o \in ToSet(added)}
      /\ Ids(deleted) = {o.id : o \in ToSet(deleted)}
      /\ Ids(changed) = {o.id : o \in ToSet(changed)}
  BY IdsToSet
<1>5. Ids(added) = Ids(s2) \ Ids(s1)
  BY <1>3, <1>4
<1>6. Ids(deleted) = Ids(s1) \ Ids(s2)
  BY <1>3, <1>4
<1>7. ASSUME NEW n \in Ids(added) PROVE Lookup(added, n) = Lookup(s2, n)
  <2>1. n \in Ids(s2) /\ \A o \in ToSet(s2) : o.id = n => o \in new
    BY <1>5, <1>7
  <2> HIDE DEF new
  <2> QED
    BY <2>1, KeepLookup
<1>8. Ids(changed) = {o.id : o \in differ}
  BY <1>3, <1>4
<1>9. Ids(changed) \subseteq Ids(s1) \cap Ids(s2)
  BY <1>8, <1>4
<1> HIDE DEF changed
<1>10. \A i \in DOMAIN changed :
         /\ changed[i].id \in Ids(s2)
         /\ updated[i] \in X /\ updated[i].id = changed[i].id
  <2> TAKE i \in DOMAIN changed
  <2>1. changed[i].id \in Ids(s2)
    BY <1>9 DEF Ids
  <2> QED
    BY <2>1, LookupFinds
<1>11. updated \in Seq(X) /\ DOMAIN updated = DOMAIN changed
  BY <1>2, <1>10
<1>12. Ids(updated) = Ids(changed)
  BY <1>10, <1>11 DEF Ids
<1>13. ASSUME NEW n \in Ids(updated) PROVE Lookup(updated, n) = Lookup(s2, n)
  <2>1. PICK i : IsLast(updated, i, n)
    BY <1>11, LastExists
  <2>2. Lookup(updated, n) = updated[i] /\ i \in DOMAIN changed /\ updated[i].id = n
    BY <1>11, <2>1, LookupLast DEF IsLast
  <2> QED
    BY <1>10, <2>2
<1>14. ASSUME NEW n \in (Ids(s1) \cap Ids(s2)) \ Ids(updated)
       PROVE  Lookup(s1, n) = Lookup(s2, n)
  <2>1. Lookup(s1, n) \in ToSet(s1) /\ Lookup(s1, n).id = n
    BY LookupFinds
  <2>2. Lookup(s1, n) \notin differ
    BY <2>1, <1>8, <1>12
  <2> QED
    BY <2>1, <2>2
<1>15. ASSUME NEW x \in ToSet(s1), x.id \in Ids(s2) \ Ids(updated) PROVE x \in ToSet(s2)
  <2>1. x \notin differ
    BY <1>8, <1>12, <1>15
  <2>2. Lookup(s2, x.id) = x
    BY <1>15, <2>1
  <2> QED
    BY <1>15, <2>2, LookupFinds
<1> HIDE DEF updated, added, deleted
<1> QED
  BY <1>1, <1>2, <1>5, <1>6, <1>7, <1>9, <1>11, <1>12, <1>13, <1>14, <1>15

\* A manifest of objects of X, and the events of them.
IsManifest(m, X) == m.routes \in Seq(X) /\ m.upstreams \in Seq(X)
EventType == {"add", "delete", "update"}
EventOf(X) == {[type |-> y, id |-> o.id, val |-> o.val] : y \in EventType, o \in X}

\* The ids of routes are none of upstreams: the kind is a part of a key.
KindsApart(m, o) ==
    (Ids(m.routes) \cup Ids(o.routes)) \cap (Ids(m.upstreams) \cup Ids(o.upstreams)) = {}

\* What a memory that follows the manifest m holds under an id.
Shown(m, n) ==
    IF n \in Ids(m.routes) THEN Lookup(m.routes, n).val
    ELSE IF n \in Ids(m.upstreams) THEN Lookup(m.upstreams, n).val
    ELSE NoObject

\* The events of a manifest, by id.
LEMMA EventsExact ==
    ASSUME NEW X, NEW m, IsManifest(m, X), NEW y \in EventType
    PROVE  LET evs == Events(m, y)
           IN  /\ evs \in Seq(EventOf(X))
               /\ Ids(evs) = Ids(m.routes) \cup Ids(m.upstreams)
               /\ \A n \in Ids(m.upstreams) :
                    /\ Lookup(evs, n).type = y
                    /\ Lookup(evs, n).val = Lookup(m.upstreams, n).val
               /\ \A n \in Ids(m.routes) \ Ids(m.upstreams) :
                    /\ Lookup(evs, n).type = y
                    /\ Lookup(evs, n).val = Lookup(m.routes, n).val
<1> DEFINE objs == m.routes \o m.upstreams
           evs == [i \in DOMAIN objs |->
                      [type |-> y, id |-> objs[i].id, val |-> objs[i].val]]
<1>1. Events(m, y) = evs
  BY DEF Events
<1>2. /\ objs \in Seq(X)
      /\ Ids(objs) = Ids(m.routes) \cup Ids(m.upstreams)
      /\ \A n \in Ids(m.upstreams) : Lookup(objs, n) = Lookup(m.upstreams, n)
      /\ \A n \in Ids(m.routes) \ Ids(m.upstreams) : Lookup(objs, n) = Lookup(m.routes, n)
  BY ConcatLookup DEF IsManifest
<1> HIDE DEF objs
<1>3. /\ DOMAIN objs = 1..Len(objs) /\ Len(objs) \in Nat
      /\ \A i \in DOMAIN objs : objs[i] \in X
  BY <1>2
<1>4. evs \in Seq(EventOf(X)) /\ DOMAIN evs = DOMAIN objs
  <2>1. \A i \in DOMAIN objs : evs[i] \in EventOf(X)
    <3> TAKE i \in DOMAIN objs
    <3>1. evs[i] = [type |-> y, id |-> objs[i].id, val |-> objs[i].val]
      OBVIOUS
    <3>2. objs[i] \in X
      BY <1>3
    <3> HIDE DEF evs
    <3> QED
      BY <3>1, <3>2 DEF EventOf
  <2>2. DOMAIN evs = 1..Len(objs)
    BY <1>3
  <2> QED
    BY <1>3, <2>1, <2>2
<1>5. \A i \in DOMAIN objs :
        evs[i].id = objs[i].id /\ evs[i].type = y /\ evs[i].val = objs[i].val
  OBVIOUS
<1> HIDE DEF evs
<1>6. Ids(evs) = Ids(objs)
  BY <1>4, <1>5 DEF Ids
<1>7. ASSUME NEW n \in Ids(objs)
      PROVE  Lookup(evs, n).type = y /\ Lookup(evs, n).val = Lookup(objs, n).val
  <2>1. PICK i : IsLast(objs, i, n)
    BY <1>2, LastExists
  <2>2. IsLast(evs, i, n)
    BY <2>1, <1>4, <1>5 DEF IsLast
  <2>3. Lookup(objs, n) = objs[i]
    BY <1>2, <2>1, LookupLast
  <2>4. Lookup(evs, n) = evs[i]
    BY <1>4, <2>2, LookupLast
  <2> QED
    BY <2>1, <2>3, <2>4, <1>5 DEF IsLast
<1> QED
  BY <1>1, <1>2, <1>4, <1>6, <1>7

\* The events evs lead from the manifest o to m: what they say of an id, last, is what
\* m shows under it, and an id they leave out shows the same in both; the upstreams they
\* leave out are still in the manifest.
Lead(evs, o, m, X) ==
    /\ evs \in Seq(EventOf(X))
    /\ Ids(evs) \subseteq Ids(m.routes) \cup Ids(m.upstreams)
                            \cup Ids(o.routes) \cup Ids(o.upstreams)
    /\ \A n \in Ids(evs) : Outcome(Lookup(evs, n)) = Shown(m, n)
    /\ \A n : n \notin Ids(evs) => Shown(m, n) = Shown(o, n)
    /\ \A x \in ToSet(o.upstreams) : x.id \notin Ids(evs) => x \in ToSet(m.upstreams)

\* The events of a difference lead from the old state to the new one.
LEMMA GenerateLeads ==
    ASSUME NEW X, NEW m, NEW o, IsManifest(m, X), IsManifest(o, X), KindsApart(m, o)
    PROVE  Lead(GenerateEvents(m, o), o, m, X)
<1> DEFINE r == Compare(o.routes, m.routes)
           u == Compare(o.upstreams, m.upstreams)
           A == [routes |-> r.added, upstreams |-> u.added]
           D == [routes |-> r.deleted, upstreams |-> u.deleted]
           U == [routes |-> r.updated, upstreams |-> u.updated]
           EA == Events(A, "add")
           ED == Events(D, "delete")
           EU == Events(U, "update")
           evs == EA \o ED \o EU
<1>1. GenerateEvents(m, o) = evs
  BY DEF GenerateEvents, DiffFrom, CompareRoutes, CompareUpstreams
<1>2. /\ r.added \in Seq(X) /\ r.deleted \in Seq(X) /\ r.updated \in Seq(X)
      /\ Ids(r.added) = Ids(m.routes) \ Ids(o.routes)
      /\ \A n \in Ids(r.added) : Lookup(r.added, n) = Lookup(m.routes, n)
      /\ Ids(r.deleted) = Ids(o.routes) \ Ids(m.routes)
      /\ Ids(r.updated) \subseteq Ids(o.routes) \cap Ids(m.routes)
      /\ \A n \in Ids(r.updated) : Lookup(r.updated, n) = Lookup(m.routes, n)
      /\ \A n \in (Ids(o.routes) \cap Ids(m.routes)) \ Ids(r.updated) :
            Lookup(o.routes, n) = Lookup(m.routes, n)
      /\ \A x \in ToSet(o.routes) :
            x.id \in Ids(m.routes) \ Ids(r.updated) => x \in ToSet(m.routes)
  BY CompareExact DEF IsManifest
<1>3. /\ u.added \in Seq(X) /\ u.deleted \in Seq(X) /\ u.updated \in Seq(X)
      /\ Ids(u.added) = Ids(m.upstreams) \ Ids(o.upstreams)
      /\ \A n \in Ids(u.added) : Lookup(u.added, n) = Lookup(m.upstreams, n)
      /\ Ids(u.deleted) = Ids(o.upstreams) \ Ids(m.upstreams)
      /\ Ids(u.updated) \subseteq Ids(o.upstreams) \cap Ids(m.upstreams)
      /\ \A n \in Ids(u.updated) : Lookup(u.updated, n) = Lookup(m.upstreams, n)
      /\ \A n \in (Ids(o.upstreams) \cap Ids(m.upstreams)) \ Ids(u.updated) :
            Lookup(o.upstreams, n) = Lookup(m.upstreams, n)
      /\ \A x \in ToSet(o.upstreams) :
            x.id \in Ids(m.upstreams) \ Ids(u.updated) => x \in ToSet(m.upstreams)
  BY CompareExact DEF IsManifest
<1> HIDE DEF r, u
<1>4. IsManifest(A, X) /\ IsManifest(D, X) /\ IsManifest(U, X)
  BY <1>2, <1>3 DEF IsManifest
<1> DEFINE Tells(es, q, y) ==
             /\ es \in Seq(EventOf(X))
             /\ Ids(es) = Ids(q.routes) \cup Ids(q.upstreams)
             /\ \A n \in Ids(q.upstreams) :
                   /\ Lookup(es, n).type = y
                   /\ Lookup(es, n).val = Lookup(q.upstreams, n).val
             /\ \A n \in Ids(q.routes) \ Ids(q.upstreams) :
                   /\ Lookup(es, n).type = y
                   /\ Lookup(es, n).val = Lookup(q.routes, n).val
<1>T. Tells(EA, A, "add") /\ Tells(ED, D, "delete") /\ Tells(EU, U, "update")
  <2> HIDE DEF A, D, U
  <2> QED
    BY <1>4, EventsExact DEF EventType
<1>5. /\ EA \in Seq(EventOf(X))
      /\ Ids(EA) = Ids(r.added) \cup Ids(u.added)
      /\ \A n \in Ids(u.added) :
            Lookup(EA, n).type = "add" /\ Lookup(EA, n).val = Lookup(u.added, n).val
      /\ \A n \in Ids(r.added) \ Ids(u.added) :
            Lookup(EA, n).type = "add" /\ Lookup(EA, n).val = Lookup(r.added, n).val
  BY <1>T
<1>6. /\ ED \in Seq(EventOf(X))
      /\ Ids(ED) = Ids(r.deleted) \cup Ids(u.deleted)
      /\ \A n \in Ids(ED) : Lookup(ED, n).type = "delete"
  BY <1>T
<1>7. /\ EU \in Seq(EventOf(X))
      /\ Ids(EU) = Ids(r.updated) \cup Ids(u.updated)
      /\ \A n \in Ids(u.updated) :
            Lookup(EU, n).type = "update" /\ Lookup(EU, n).val = Lookup(u.updated, n).val
      /\ \A n \in Ids(r.updated) \ Ids(u.updated) :
            Lookup(EU, n).type = "update" /\ Lookup(EU, n).val = Lookup(r.updated, n).val
  BY <1>T
<1> HIDE DEF A, D, U, EA, ED, EU
<1>8. /\ EA \o ED \in Seq(EventOf(X))
      /\ Ids(EA \o ED) = Ids(EA) \cup Ids(ED)
      /\ \A n \in Ids(ED) : Lookup(EA \o ED, n) = Lookup(ED, n)
      /\ \A n \in Ids(EA) \ Ids(ED) : Lookup(EA \o ED, n) = Lookup(EA, n)
  BY <1>5, <1>6, ConcatLookup
<1> DEFINE AD == EA \o ED
<1> HIDE DEF AD
<1>9. /\ AD \o EU \in Seq(EventOf(X))
      /\ Ids(AD \o EU) = Ids(AD) \cup Ids(EU)
      /\ \A n \in Ids(EU) : Lookup(AD \o EU, n) = Lookup(EU, n)
      /\ \A n \in Ids(AD) \ Ids(EU) : Lookup(AD \o EU, n) = Lookup(AD, n)
  <2>1. AD \in Seq(EventOf(X))
    BY <1>8 DEF AD
  <2> QED
    BY <1>7, <2>1, ConcatLookup
<1>10. evs = AD \o EU
  BY DEF AD
<1> HIDE DEF evs
<1>11. /\ evs \in Seq(EventOf(X))
       /\ Ids(evs) = Ids(EA) \cup Ids(ED) \cup Ids(EU)
       /\ \A n \in Ids(EU) : Lookup(evs, n) = Lookup(EU, n)
       /\ \A n \in Ids(ED) \ Ids(EU) : Lookup(evs, n) = Lookup(ED, n)
       /\ \A n \in (Ids(EA) \ Ids(ED)) \ Ids(EU) : Lookup(evs, n) = Lookup(EA, n)
  BY <1>8, <1>9, <1>10 DEF AD
<1>12. Ids(evs) \subseteq Ids(m.routes) \cup Ids(m.upstreams)
                            \cup Ids(o.routes) \cup Ids(o.upstreams)
  BY <1>2, <1>3, <1>5, <1>6, <1>7, <1>11
<1>13. ASSUME NEW n \in Ids(evs) PROVE Outcome(Lookup(evs, n)) = Shown(m, n)
  <2>1. CASE n \in Ids(EU)
    <3>1. Lookup(evs, n).type = "update" /\ Lookup(evs, n).val = Lookup(EU, n).val
      BY <2>1, <1>7, <1>11
    <3>2. CASE n \in Ids(u.updated)
      BY <3>1, <3>2, <1>3, <1>7 DEF Outcome, Shown, KindsApart
    <3>3. CASE n \in Ids(r.updated) \ Ids(u.updated)
      BY <3>1, <3>3, <1>2, <1>7 DEF Outcome, Shown, KindsApart
    <3> QED
      BY <2>1, <3>2, <3>3, <1>7
  <2>2. CASE n \in Ids(ED) \ Ids(EU)
    <3>1. Outcome(Lookup(evs, n)) = NoObject
      BY <2>2, <1>6, <1>11 DEF Outcome
    <3>2. n \notin Ids(m.routes) /\ n \notin Ids(m.upstreams)
      BY <2>2, <1>2, <1>3, <1>6 DEF KindsApart
    <3> QED
      BY <3>1, <3>2 DEF Shown
  <2>3. CASE n \in (Ids(EA) \ Ids(ED)) \ Ids(EU)
    <3>1. Lookup(evs, n).type = "add" /\ Lookup(evs, n).val = Lookup(EA, n).val
      BY <2>3, <1>5, <1>11
    <3>2. CASE n \in Ids(u.added)
      BY <3>1, <3>2, <1>3, <1>5 DEF Outcome, Shown, KindsApart
    <3>3. CASE n \in Ids(r.added) \ Ids(u.added)
      BY <3>1, <3>3, <1>2, <1>5 DEF Outcome, Shown, KindsApart
    <3> QED
      BY <2>3, <3>2, <3>3, <1>5
  <2> QED
    BY <2>1, <2>2, <2>3, <1>11
<1>14. ASSUME NEW n, n \notin Ids(evs) PROVE Shown(m, n) = Shown(o, n)
  <2>1. /\ n \in Ids(m.routes) <=> n \in Ids(o.routes)
        /\ n \in Ids(m.upstreams) <=> n \in Ids(o.upstreams)
        /\ n \notin Ids(r.updated) /\ n \notin Ids(u.updated)
    BY <1>2, <1>3, <1>5, <1>6, <1>7, <1>11, <1>14
  <2>2. CASE n \in Ids(m.routes)
    BY <2>1, <2>2, <1>2 DEF Shown
  <2>3. CASE n \notin Ids(m.routes) /\ n \in Ids(m.upstreams)
    BY <2>1, <2>3, <1>3 DEF Shown
  <2>4. CASE n \notin Ids(m.routes) /\ n \notin Ids(m.upstreams)
    BY <2>1, <2>4 DEF Shown
  <2> QED
    BY <2>2, <2>3, <2>4
<1>15. ASSUME NEW x \in ToSet(o.upstreams), x.id \notin Ids(evs)
       PROVE  x \in ToSet(m.upstreams)
  <2>1. x.id \in Ids(o.upstreams)
    BY IdsToSet
  <2>2. x.id \in Ids(m.upstreams) \ Ids(u.updated)
    BY <2>1, <1>3, <1>6, <1>7, <1>11, <1>15
  <2> QED
    BY <2>2, <1>3
<1> QED
  BY <1>1, <1>11, <1>12, <1>13, <1>14, <1>15 DEF Lead

\* The events that generateEvents makes of two states of the world (manifest.go, with
\* CompareRoutes and CompareUpstreams), applied to a memory that shows the old one,
\* leave exactly the new one: whatever the length of the slices, also when an id occurs
\* more than once in them.
THEOREM DiffIsExact ==
    ASSUME NEW X, NEW m, NEW o, IsManifest(m, X), IsManifest(o, X), KindsApart(m, o), NEW N
    PROVE  ApplyEvents([n \in N |-> Shown(o, n)], GenerateEvents(m, o))
               = [n \in N |-> Shown(m, n)]
<1> DEFINE evs == GenerateEvents(m, o)
           memory == [n \in N |-> Shown(o, n)]
<1>1. /\ evs \in Seq(EventOf(X))
      /\ \A n \in Ids(evs) : Outcome(Lookup(evs, n)) = Shown(m, n)
      /\ \A n : n \notin Ids(evs) => Shown(m, n) = Shown(o, n)
  <2>1. Lead(evs, o, m, X)
    BY GenerateLeads
  <2> QED
    BY <2>1 DEF Lead
<1>2. memory = [n \in N |-> memory[n]] /\ \A n \in N : memory[n] = Shown(o, n)
  OBVIOUS
<1> HIDE DEF evs, memory
<1>3. ApplyEvents(memory, evs) =
        [n \in N |-> IF n \in Ids(evs) THEN Outcome(Lookup(evs, n)) ELSE memory[n]]
  BY <1>1, <1>2, ApplyExact
<1>4. ApplyEvents(memory, evs) = [n \in N |-> Shown(m, n)]
  BY <1>1, <1>2, <1>3
<1> QED
  BY <1>4 DEF evs, memory
=============================================================================
