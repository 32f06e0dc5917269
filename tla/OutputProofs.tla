----------------------------- MODULE OutputProofs -----------------------------
(***************************************************************************)
(* What a caller sees of a command's output, for any symbols, commands,    *)
(* streams and requests.                                                   *)
(*                                                                         *)
(* LearnedHidden: redaction and the budget replace parts of a text by      *)
(* marks and never move an element of it (Thinning), so a value that       *)
(* stands in the text stands in what is left of it, until the first pass   *)
(* that replaces a part of it. The values go longest first; of values that *)
(* never overlap, the pass of a value's own comes before anything has cut  *)
(* it, or a longer one has replaced it altogether.                         *)
(*                                                                         *)
(* BudgetExact and WholeUnlessTruncated: what a budget keeps is the list,  *)
(* in order, of the lines it asks for (Enumerates); what is rendered from  *)
(* such a list comes apart at its line breaks into the same lines and gap  *)
(* marks, which are read back one by one to the last line of the stream.   *)
(***************************************************************************)
EXTENDS ExecOutput, TLAPS, FiniteSetTheorems, SequenceTheorems, WellFoundedInduction

-----------------------------------------------------------------------------
(***************************************************************************)
(* Induction, and runs of functions that are defined by recursion.         *)
(***************************************************************************)

\* Induction over the numbers, for a set of them.
LEMMA SetInduction ==
  ASSUME NEW T, 0 \in T, \A n \in Nat : n \in T => n + 1 \in T
  PROVE  \A n \in Nat : n \in T
<1> DEFINE R == OpToRel(<, Nat)
           U == Nat \ T
<1>1. IsWellFoundedOn(R, Nat)
  BY NatLessThanWellFounded, Zenon
<1> SUFFICES ASSUME U # {} PROVE FALSE
  OBVIOUS
<1>2. U \subseteq Nat
  OBVIOUS
<1> HIDE DEF R, U
<1>3. PICK x \in U : \A y \in U : ~(<<y, x>> \in R)
  BY <1>1, <1>2, WFMin, Zenon
<1>4. x \in Nat /\ x \notin T /\ x # 0
  BY DEF U
<1>5. x - 1 \in Nat /\ (x - 1) + 1 = x
  BY <1>4
<1>6. x - 1 \notin T
  BY <1>4, <1>5
<1>7. x - 1 \in U
  BY <1>5, <1>6 DEF U
<1>8. <<x - 1, x>> \in R
  BY <1>4, <1>5 DEF R, OpToRel
<1> QED
  BY <1>3, <1>7, <1>8

\* The same up to a bound, for what holds of a function.
LEMMA Throughout ==
  ASSUME NEW N \in Nat, NEW f, NEW T, f[0] \in T[0],
         \A n \in 1..N : f[n - 1] \in T[n - 1] => f[n] \in T[n]
  PROVE  \A n \in 0..N : f[n] \in T[n]
<1> DEFINE H(n) == n <= N => f[n] \in T[n]
           G == {n \in Nat : H(n)}
<1>1. 0 \in G
  OBVIOUS
<1>2. ASSUME NEW n \in Nat, n \in G PROVE n + 1 \in G
  <2>1. H(n)
    BY <1>2
  <2>2. n + 1 \in Nat
    OBVIOUS
  <2>3. ASSUME n + 1 <= N PROVE f[n + 1] \in T[n + 1]
    <3>1. PICK m \in 1..N : m = n + 1
      BY <2>3
    <3>2. m - 1 = n /\ n <= N
      BY <3>1
    <3>3. f[m - 1] \in T[m - 1]
      BY <2>1, <3>2
    <3>4. f[m] \in T[m]
      BY <3>3
    <3> QED
      BY <3>1, <3>4
  <2>4. H(n + 1)
    BY <2>3
  <2> HIDE DEF H
  <2> QED
    BY <2>2, <2>4
<1> HIDE DEF H
<1>3. \A n \in Nat : n \in G
  <2> HIDE DEF G
  <2> QED
    BY <1>1, <1>2, SetInduction
<1>4. \A n \in Nat : H(n)
  BY <1>3
<1> QED
  BY <1>4 DEF H

\* A function that each step g[n] takes from its value before, if the values stay
\* where the steps are defined.
Iterated(N, base, g, f) == f = [n \in 0..N |-> IF n = 0 THEN base ELSE g[n][f[n - 1]]]

LEMMA IteratedOn ==
  ASSUME NEW N \in Nat, NEW base, NEW g, NEW f, Iterated(N, base, g, f)
  PROVE  f[0] = base /\ \A n \in 1..N : f[n] = g[n][f[n - 1]]
<1>1. f = [n \in 0..N |-> IF n = 0 THEN base ELSE g[n][f[n - 1]]]
  BY DEF Iterated
<1>2. f[0] = base
  <2>1. 0 \in 0..N
    OBVIOUS
  <2> QED
    BY <1>1, <2>1
<1>3. ASSUME NEW n \in 1..N PROVE f[n] = g[n][f[n - 1]]
  <2>1. n \in 0..N /\ n # 0
    OBVIOUS
  <2> QED
    BY <1>1, <2>1
<1> QED
  BY <1>2, <1>3

LEMMA Iterates ==
  ASSUME NEW N \in Nat, NEW base, NEW g
  PROVE  \E f : Iterated(N, base, g, f)
<1> DEFINE T == {n \in Nat : \E f : Iterated(n, base, g, f)}
<1>1. 0 \in T
  <2> DEFINE f == [i \in {0} |-> base]
  <2>1. 0..0 = {0}
    OBVIOUS
  <2>2. Iterated(0, base, g, f)
    BY <2>1 DEF Iterated
  <2>3. \E h : Iterated(0, base, g, h)
    BY <2>2, Zenon
  <2> QED
    BY <2>3
<1>2. ASSUME NEW n \in Nat, n \in T PROVE n + 1 \in T
  <2>1. PICK f : Iterated(n, base, g, f)
    BY <1>2
  <2> DEFINE x == g[n + 1][f[n]]
  <2> HIDE DEF x
  <2> DEFINE h == [i \in 0..(n + 1) |-> IF i = n + 1 THEN x ELSE f[i]]
  <2>2. ASSUME NEW i \in 0..(n + 1)
        PROVE  h[i] = IF i = 0 THEN base ELSE g[i][h[i - 1]]
    <3>0. f[0] = base /\ \A m \in 1..n : f[m] = g[m][f[m - 1]]
      BY <2>1, IteratedOn
    <3>1. CASE i = 0
      <4>1. i \in 0..n /\ i # n + 1
        BY <3>1
      <4> QED
        BY <3>0, <3>1, <4>1
    <3>2. CASE i = n + 1
      <4>1. i # 0 /\ i - 1 = n /\ n \in 0..(n + 1) /\ n # n + 1
        BY <3>2
      <4>2. h[i] = x /\ h[i - 1] = f[n]
        BY <3>2, <4>1
      <4> QED
        BY <3>2, <4>1, <4>2, Zenon DEF x
    <3>3. CASE i # 0 /\ i # n + 1
      <4>1. i \in 1..n /\ i - 1 \in 0..(n + 1) /\ i - 1 # n + 1
        BY <3>3
      <4>2. h[i] = f[i] /\ h[i - 1] = f[i - 1]
        BY <3>3, <4>1
      <4>3. f[i] = g[i][f[i - 1]]
        BY <3>0, <4>1
      <4> QED
        BY <3>3, <4>2, <4>3, Zenon
    <3> QED
      BY <3>1, <3>2, <3>3
  <2>3. h = [i \in 0..(n + 1) |-> h[i]]
    OBVIOUS
  <2> HIDE DEF h
  <2>4. Iterated(n + 1, base, g, h)
    BY <2>2, <2>3 DEF Iterated
  <2>5. \E k : Iterated(n + 1, base, g, k)
    BY <2>4, Zenon
  <2>6. n + 1 \in Nat
    OBVIOUS
  <2> QED
    BY <2>5, <2>6
<1> HIDE DEF T
<1>3. \A n \in Nat : n \in T
  BY <1>1, <1>2, SetInduction
<1> QED
  BY <1>3 DEF T

\* Its values stay where the steps lead.
Course(N, S, base, g, h) ==
  /\ h = [n \in 0..N |-> IF n = 0 THEN base ELSE g[n][h[n - 1]]]
  /\ h[0] = base /\ \A n \in 1..N : h[n] = g[n][h[n - 1]]
  /\ \A n \in 0..N : h[n] \in S

LEMMA Recursion ==
  ASSUME NEW N \in Nat, NEW S, NEW base \in S, NEW g \in [1..N -> [S -> S]]
  PROVE  \E h : Course(N, S, base, g, h)
<1>1. PICK h : Iterated(N, base, g, h)
  BY Iterates
<1>2. h[0] = base /\ \A n \in 1..N : h[n] = g[n][h[n - 1]]
  BY <1>1, IteratedOn
<1> DEFINE A == [n \in 0..N |-> S]
<1>3. \A n \in 0..N : h[n] \in A[n]
  <2>1. h[0] \in A[0]
    BY <1>2
  <2>2. ASSUME NEW n \in 1..N, h[n - 1] \in A[n - 1] PROVE h[n] \in A[n]
    <3>1. n \in 0..N /\ n - 1 \in 0..N
      OBVIOUS
    <3>2. h[n - 1] \in S
      BY <2>2, <3>1
    <3>3. g[n][h[n - 1]] \in S
      BY <3>2
    <3> QED
      BY <1>2, <3>1, <3>3
  <2> HIDE DEF A
  <2> QED
    BY <2>1, <2>2, Throughout
<1>4. h = [n \in 0..N |-> IF n = 0 THEN base ELSE g[n][h[n - 1]]]
  BY <1>1 DEF Iterated
<1> QED
  BY <1>2, <1>3, <1>4 DEF Course

-----------------------------------------------------------------------------
(***************************************************************************)
(* Texts of which parts have been replaced by marks.                       *)
(***************************************************************************)

\* U is what is left of the first p elements of T, of which pos tells where each one
\* stood: parts are replaced, each by one mark, and nothing else is inserted.
Thinning(T, p, U, pos) ==
  /\ pos \in [1..Len(U) -> 1..p]
  /\ \A k, l \in 1..Len(U) : k < l => pos[k] < pos[l]
  /\ \A k \in 1..Len(U) : U[k] = T[pos[k]] \/ U[k] = Redacted
  /\ \A k \in 1..(Len(U) - 1) : U[k] # Redacted => pos[k + 1] = pos[k] + 1
  /\ Len(U) > 0 /\ U[Len(U)] # Redacted => pos[Len(U)] = p
Thinned(T, p, U) == \E pos : Thinning(T, p, U, pos)

LEMMA ThinEmpty == ASSUME NEW T PROVE Thinned(T, 0, <<>>)
<1> DEFINE pos == [k \in 1..0 |-> 1]
<1>1. 1..0 = {} /\ Len(<<>>) = 0
  OBVIOUS
<1>2. Thinning(T, 0, <<>>, pos)
  BY <1>1 DEF Thinning
<1> HIDE DEF pos
<1> QED
  BY <1>2 DEF Thinned

\* Nothing is replaced.
LEMMA ThinSame ==
  ASSUME NEW T \in Seq(Int), NEW U \in Seq(Int), Len(U) = Len(T),
         \A i \in 1..Len(T) : U[i] = T[i] \/ U[i] = Redacted
  PROVE  Thinned(T, Len(T), U)
<1>1. PICK n \in Nat : n = Len(T)
  OBVIOUS
<1> DEFINE pos == [k \in 1..n |-> k]
<1>2. Thinning(T, n, U, pos)
  BY <1>1 DEF Thinning
<1> HIDE DEF pos
<1> QED
  BY <1>1, <1>2 DEF Thinned

\* The length and the elements of a concatenation.
LEMMA Joining ==
  ASSUME NEW S, NEW s \in Seq(S), NEW t \in Seq(S)
  PROVE  /\ s \o t \in Seq(S) /\ Len(s \o t) = Len(s) + Len(t)
         /\ \A i \in 1..Len(s) : (s \o t)[i] = s[i]
         /\ \A i \in (Len(s) + 1)..(Len(s) + Len(t)) : (s \o t)[i] = t[i - Len(s)]
BY ConcatProperties

\* The length and the elements of a part.
LEMMA PartIs ==
  ASSUME NEW S, NEW s \in Seq(S), NEW m \in Nat, NEW n \in Nat, 1 <= m, m <= n + 1, n <= Len(s)
  PROVE  /\ SubSeq(s, m, n) \in Seq(S) /\ Len(SubSeq(s, m, n)) = n - m + 1
         /\ \A i \in 1..(n - m + 1) : SubSeq(s, m, n)[i] = s[m + i - 1]
<1>1. \A i \in m..n : s[i] \in S
  BY ElementOfSeq, LenProperties
<1> QED
  BY <1>1, SubSeqProperties

\* more goes on where pos ends, with the d places behind p.
GoesOn(pos, more, n, p, d) ==
  /\ \A k \in 1..n : more[k] = pos[k]
  /\ \A k \in (n + 1)..(n + d) : more[k] = p + (k - n)

\* The next elements are kept.
LEMMA ThinKeep ==
  ASSUME NEW T \in Seq(Int), NEW p \in Nat, NEW q \in Nat, NEW U \in Seq(Int), p <= q, q <= Len(T),
         NEW pos, Thinning(T, p, U, pos)
  PROVE  \E more : /\ Thinning(T, q, U \o SubSeq(T, p + 1, q), more)
                   /\ GoesOn(pos, more, Len(U), p, q - p)
<1>2. PICK n \in Nat : n = Len(U)
  OBVIOUS
<1>3. PICK d \in Nat : d = q - p
  OBVIOUS
<1>4. PICK r \in Nat : r = p + 1
  OBVIOUS
<1>5. PICK t \in Seq(Int) : t = SubSeq(T, r, q)
  <2>1. SubSeq(T, r, q) \in Seq(Int)
    BY <1>4, PartIs
  <2> QED
    BY <2>1
<1>6. Len(t) = d /\ \A i \in 1..d : t[i] = T[p + i]
  <2>1. /\ Len(SubSeq(T, r, q)) = q - r + 1
        /\ \A i \in 1..(q - r + 1) : SubSeq(T, r, q)[i] = T[r + i - 1]
    BY <1>4, PartIs
  <2>2. q - r + 1 = d /\ \A i \in 1..d : r + i - 1 = p + i
    BY <1>3, <1>4
  <2> QED
    BY <1>5, <2>1, <2>2, Zenon
<1>7. PICK W \in Seq(Int) : W = U \o t
  BY Joining
<1>8. /\ Len(W) = n + d /\ \A i \in 1..n : W[i] = U[i]
      /\ \A i \in (n + 1)..(n + d) : W[i] = t[i - n]
  <2>1. Len(U \o t) = Len(U) + Len(t)
    BY Joining
  <2>2. \A i \in 1..Len(U) : (U \o t)[i] = U[i]
    BY Joining
  <2>3. \A i \in (Len(U) + 1)..(Len(U) + Len(t)) : (U \o t)[i] = t[i - Len(U)]
    BY Joining
  <2>4. Len(t) = d
    BY <1>6
  <2> QED
    BY <1>2, <1>7, <2>1, <2>2, <2>3, <2>4, Zenon
<1>9. \A i \in (n + 1)..(n + d) : W[i] = T[p + (i - n)]
  <2>1. ASSUME NEW i \in (n + 1)..(n + d) PROVE W[i] = T[p + (i - n)]
    <3>1. PICK j \in 1..d : j = i - n
      OBVIOUS
    <3>2. W[i] = t[j] /\ t[j] = T[p + j]
      BY <1>6, <1>8, <3>1
    <3> QED
      BY <3>1, <3>2
  <2> QED
    BY <2>1
<1> DEFINE next == [k \in 1..(n + d) |-> IF k <= n THEN pos[k] ELSE p + (k - n)]
<1>10. /\ pos \in [1..n -> 1..p]
       /\ \A k, l \in 1..n : k < l => pos[k] < pos[l]
       /\ \A k \in 1..n : U[k] = T[pos[k]] \/ U[k] = Redacted
       /\ \A k \in 1..(n - 1) : U[k] # Redacted => pos[k + 1] = pos[k] + 1
       /\ n > 0 /\ U[n] # Redacted => pos[n] = p
  BY <1>2 DEF Thinning
<1>11. next \in [1..(n + d) -> 1..q]
  <2>1. ASSUME NEW k \in 1..(n + d) PROVE next[k] \in 1..q
    <3>1. CASE k <= n
      <4>1. k \in 1..n
        BY <3>1
      <4>2. pos[k] \in 1..p
        BY <1>10, <4>1
      <4> QED
        BY <3>1, <4>2
    <3>2. CASE k > n
      BY <1>3, <3>2
    <3> QED
      BY <3>1, <3>2
  <2> QED
    BY <2>1
<1>12. ASSUME NEW k \in 1..(n + d), NEW l \in 1..(n + d), k < l PROVE next[k] < next[l]
  <2>1. CASE l <= n
    BY <1>10, <1>12, <2>1
  <2>2. CASE k > n
    BY <1>12, <2>2
  <2>3. CASE k <= n /\ l > n
    <3>0. k \in 1..n
      BY <2>3
    <3>1. pos[k] \in 1..p
      BY <1>10, <3>0
    <3>2. next[k] = pos[k] /\ next[l] = p + (l - n)
      BY <2>3
    <3> QED
      BY <2>3, <3>1, <3>2
  <2> QED
    BY <2>1, <2>2, <2>3
<1>13. ASSUME NEW k \in 1..(n + d) PROVE W[k] = T[next[k]] \/ W[k] = Redacted
  <2>1. CASE k <= n
    <3>1. next[k] = pos[k] /\ k \in 1..n
      BY <2>1
    <3> HIDE DEF next
    <3> QED
      BY <1>8, <1>10, <3>1
  <2>2. CASE k > n
    <3>1. k \in (n + 1)..(n + d) /\ next[k] = p + (k - n)
      BY <2>2
    <3> QED
      BY <1>9, <3>1
  <2> QED
    BY <2>1, <2>2
<1>14. ASSUME NEW k \in 1..(n + d - 1), W[k] # Redacted PROVE next[k + 1] = next[k] + 1
  <2>1. CASE k + 1 <= n
    <3>1. U[k] # Redacted /\ k \in 1..(n - 1)
      BY <1>8, <1>14, <2>1
    <3>2. pos[k + 1] = pos[k] + 1
      BY <1>10, <3>1
    <3> QED
      BY <2>1, <3>2
  <2>2. CASE k = n
    <3>1. n > 0 /\ U[n] # Redacted
      BY <1>8, <1>14, <2>2, SMTT(30)
    <3>2. pos[n] = p
      BY <1>10, <3>1
    <3> QED
      BY <2>2, <3>1, <3>2
  <2>3. CASE k > n
    BY <2>3
  <2> QED
    BY <2>1, <2>2, <2>3
<1>15. n + d > 0 /\ W[n + d] # Redacted => next[n + d] = q
  <2>1. CASE d = 0
    <3>1. n + d = n /\ p = q
      BY <1>3, <2>1
    <3>2. n > 0 => n \in 1..n /\ next[n] = pos[n]
      BY <2>1
    <3>3. n > 0 => W[n] = U[n]
      BY <1>8, <3>2
    <3> HIDE DEF next
    <3> QED
      BY <1>10, <3>1, <3>2, <3>3
  <2>2. CASE d > 0
    <3>1. next[n + d] = p + (n + d - n)
      BY <2>2
    <3> HIDE DEF next
    <3> QED
      BY <1>3, <3>1
  <2> QED
    BY <2>1, <2>2
<1>17. /\ \A k \in 1..n : next[k] = pos[k]
       /\ \A k \in (n + 1)..(n + d) : next[k] = p + (k - n)
  OBVIOUS
<1> HIDE DEF next
<1>16. Thinning(T, q, W, next)
  <2>1. Len(W) = n + d
    BY <1>8
  <2>2. next \in [1..Len(W) -> 1..q] /\ \A k, l \in 1..Len(W) : k < l => next[k] < next[l]
    BY <1>11, <1>12, <2>1
  <2>3. /\ \A k \in 1..Len(W) : W[k] = T[next[k]] \/ W[k] = Redacted
        /\ \A k \in 1..(Len(W) - 1) : W[k] # Redacted => next[k + 1] = next[k] + 1
    BY <1>13, <1>14, <2>1
  <2>4. Len(W) > 0 /\ W[Len(W)] # Redacted => next[Len(W)] = q
    BY <1>15, <2>1
  <2> QED
    BY <2>2, <2>3, <2>4, Zenon DEF Thinning
<1> QED
  BY <1>2, <1>3, <1>4, <1>5, <1>7, <1>16, <1>17, Zenon DEF GoesOn

\* A part is replaced by a mark.
LEMMA ThinCut ==
  ASSUME NEW T \in Seq(Int), NEW p \in Nat, NEW q \in Nat, NEW U \in Seq(Int), p < q,
         NEW pos, Thinning(T, p, U, pos)
  PROVE  \E more : /\ Thinning(T, q, Append(U, Redacted), more)
                   /\ \A k \in 1..Len(U) : more[k] = pos[k]
                   /\ more[Len(U) + 1] = p + 1
<1>2. PICK n \in Nat : n = Len(U)
  OBVIOUS
<1>3. PICK W \in Seq(Int) : W = Append(U, Redacted)
  <2>1. Append(U, Redacted) \in Seq(Int)
    BY AppendProperties DEF Redacted
  <2> QED
    BY <2>1
<1>4. Len(W) = n + 1 /\ (\A i \in 1..n : W[i] = U[i]) /\ W[n + 1] = Redacted
  BY <1>2, <1>3, AppendProperties DEF Redacted
<1>5. /\ pos \in [1..n -> 1..p]
      /\ \A k, l \in 1..n : k < l => pos[k] < pos[l]
      /\ \A k \in 1..n : U[k] = T[pos[k]] \/ U[k] = Redacted
      /\ \A k \in 1..(n - 1) : U[k] # Redacted => pos[k + 1] = pos[k] + 1
      /\ n > 0 /\ U[n] # Redacted => pos[n] = p
  BY <1>2 DEF Thinning
<1> DEFINE next == [k \in 1..(n + 1) |-> IF k <= n THEN pos[k] ELSE p + 1]
<1>6. next \in [1..(n + 1) -> 1..q]
  BY <1>5, SMTT(30)
<1>7. ASSUME NEW k \in 1..(n + 1), NEW l \in 1..(n + 1), k < l PROVE next[k] < next[l]
  <2>1. CASE l <= n
    BY <1>5, <1>7, <2>1
  <2>2. CASE l = n + 1
    <3>0. k \in 1..n
      BY <1>7, <2>2
    <3>1. pos[k] \in 1..p /\ k <= n
      BY <1>5, <3>0
    <3> QED
      BY <2>2, <3>1
  <2>3. l <= n \/ l = n + 1
    OBVIOUS
  <2> QED
    BY <2>1, <2>2, <2>3, Zenon
<1>8. ASSUME NEW k \in 1..(n + 1) PROVE W[k] = T[next[k]] \/ W[k] = Redacted
  <2>1. CASE k = n + 1
    BY <1>4, <2>1, Zenon
  <2>2. CASE k <= n
    <3>1. next[k] = pos[k] /\ k \in 1..n
      BY <2>2
    <3> HIDE DEF next
    <3> QED
      BY <1>4, <1>5, <3>1
  <2>3. k <= n \/ k = n + 1
    OBVIOUS
  <2> QED
    BY <2>1, <2>2, <2>3, Zenon
<1>9. ASSUME NEW k \in 1..n, W[k] # Redacted PROVE next[k + 1] = next[k] + 1
  <2>1. CASE k + 1 <= n
    <3>1. U[k] # Redacted /\ k \in 1..(n - 1)
      BY <1>4, <1>9, <2>1
    <3>2. pos[k + 1] = pos[k] + 1
      BY <1>5, <3>1
    <3> QED
      BY <2>1, <3>2
  <2>2. CASE k = n
    <3>1. n > 0 /\ U[n] # Redacted
      BY <1>4, <1>9, <2>2
    <3>2. pos[n] = p
      BY <1>5, <3>1
    <3> QED
      BY <2>2, <3>1, <3>2
  <2> QED
    BY <2>1, <2>2
<1>12. (\A k \in 1..n : next[k] = pos[k]) /\ next[n + 1] = p + 1
  OBVIOUS
<1> HIDE DEF next
<1>10. n + 1 - 1 = n
  OBVIOUS
<1>11. Thinning(T, q, W, next)
  BY <1>4, <1>6, <1>7, <1>8, <1>9, <1>10 DEF Thinning
<1> QED
  BY <1>2, <1>3, <1>11, <1>12, Zenon

\* One element is kept.
LEMMA OneMore ==
  ASSUME NEW T \in Seq(Int), NEW U \in Seq(Int), NEW q \in 1..Len(T)
  PROVE  Append(U, T[q]) = U \o SubSeq(T, q, q)
<1>1. /\ SubSeq(T, q, q) \in Seq(Int) /\ Len(SubSeq(T, q, q)) = q - q + 1
      /\ \A i \in 1..(q - q + 1) : SubSeq(T, q, q)[i] = T[q + i - 1]
  BY PartIs
<1>2. T[q] \in Int
  OBVIOUS
<1>3. SubSeq(T, q, q) = <<T[q]>>
  <2>1. Len(SubSeq(T, q, q)) = 1 /\ SubSeq(T, q, q)[1] = T[q]
    BY <1>1
  <2>2. <<T[q]>> \in Seq(Int) /\ Len(<<T[q]>>) = 1 /\ <<T[q]>>[1] = T[q]
    BY <1>2
  <2>3. \A i \in 1..Len(<<T[q]>>) : SubSeq(T, q, q)[i] = <<T[q]>>[i]
    BY <2>1, <2>2
  <2> HIDE DEF Thinned
  <2> QED
    BY <1>1, <2>1, <2>2, <2>3, SeqEqual
<1> QED
  BY <1>2, <1>3, AppendIsConcat

LEMMA ThinKept ==
  ASSUME NEW T \in Seq(Int), NEW p \in Nat, NEW q \in Nat, NEW U \in Seq(Int), p <= q, q <= Len(T),
         Thinned(T, p, U)
  PROVE  Thinned(T, q, U \o SubSeq(T, p + 1, q))
<1>1. PICK pos : Thinning(T, p, U, pos)
  BY DEF Thinned
<1>2. PICK more : Thinning(T, q, U \o SubSeq(T, p + 1, q), more)
  BY <1>1, ThinKeep
<1> QED
  BY <1>2, Zenon DEF Thinned

LEMMA ThinReplaced ==
  ASSUME NEW T \in Seq(Int), NEW p \in Nat, NEW q \in Nat, NEW U \in Seq(Int), p < q,
         Thinned(T, p, U)
  PROVE  Thinned(T, q, Append(U, Redacted))
<1>1. PICK pos : Thinning(T, p, U, pos)
  BY DEF Thinned
<1>2. PICK more : Thinning(T, q, Append(U, Redacted), more)
  BY <1>1, ThinCut
<1> QED
  BY <1>2, Zenon DEF Thinned

\* Thinned twice.
LEMMA ThinTwice ==
  ASSUME NEW T \in Seq(Int), NEW U \in Seq(Int), NEW W \in Seq(Int),
         NEW pos, Thinning(T, Len(T), U, pos), NEW at, Thinning(U, Len(U), W, at)
  PROVE  Thinning(T, Len(T), W, [k \in 1..Len(W) |-> pos[at[k]]])
<1>3. PICK m \in Nat, n \in Nat, l \in Nat : l = Len(T) /\ m = Len(U) /\ n = Len(W)
  OBVIOUS
<1>4. /\ pos \in [1..m -> 1..l]
      /\ \A i, j \in 1..m : i < j => pos[i] < pos[j]
      /\ \A k \in 1..m : U[k] = T[pos[k]] \/ U[k] = Redacted
      /\ \A k \in 1..(m - 1) : U[k] # Redacted => pos[k + 1] = pos[k] + 1
      /\ m > 0 /\ U[m] # Redacted => pos[m] = l
  BY <1>3 DEF Thinning
<1>5. /\ at \in [1..n -> 1..m]
      /\ \A i, j \in 1..n : i < j => at[i] < at[j]
      /\ \A k \in 1..n : W[k] = U[at[k]] \/ W[k] = Redacted
      /\ \A k \in 1..(n - 1) : W[k] # Redacted => at[k + 1] = at[k] + 1
      /\ n > 0 /\ W[n] # Redacted => at[n] = m
  BY <1>3 DEF Thinning
<1> DEFINE both == [k \in 1..n |-> pos[at[k]]]
<1>6. both \in [1..n -> 1..l]
  BY <1>4, <1>5
<1>7. \A i, j \in 1..n : i < j => both[i] < both[j]
  BY <1>4, <1>5
<1>8. \A k \in 1..n : W[k] = T[both[k]] \/ W[k] = Redacted
  BY <1>4, <1>5
<1>9. ASSUME NEW k \in 1..(n - 1), W[k] # Redacted PROVE both[k + 1] = both[k] + 1
  <2>1. k \in 1..n /\ k + 1 \in 1..n
    OBVIOUS
  <2>2. PICK i \in 1..m : i = at[k]
    BY <1>5, <2>1
  <2>3. at[k + 1] = i + 1 /\ at[k + 1] \in 1..m
    BY <1>5, <1>9, <2>1, <2>2
  <2>4. U[i] # Redacted /\ i \in 1..(m - 1)
    <3>1. i \in 1..(m - 1)
      BY <2>3
    <3>2. W[k] = U[i]
      BY <1>5, <1>9, <2>1, <2>2, Zenon
    <3> QED
      BY <1>9, <3>1, <3>2
  <2>5. pos[i + 1] = pos[i] + 1
    BY <1>4, <2>4
  <2> QED
    BY <2>1, <2>2, <2>3, <2>5
<1>10. n > 0 /\ W[n] # Redacted => both[n] = l
  BY <1>4, <1>5, SMTT(30)
<1>12. both = [k \in 1..Len(W) |-> pos[at[k]]]
  BY <1>3
<1> HIDE DEF both
<1>11. Thinning(T, l, W, both)
  BY <1>3, <1>6, <1>7, <1>8, <1>9, <1>10 DEF Thinning
<1> QED
  BY <1>3, <1>11, <1>12, Zenon

-----------------------------------------------------------------------------
(***************************************************************************)
(* Where a value stands, before and after.                                 *)
(***************************************************************************)

\* What may be learned, without the marks: a value is not empty.
Value == {v \in Seq(Symbols) : Len(v) > 0}

\* A value stands at index i of T, element by element.
Spelled(v, src, T, i) ==
  i + Len(v) - 1 <= Len(T) /\ \A j \in 0..(Len(v) - 1) : Sym(src, T[i + j]) = v[j + 1]

LEMMA ValueIs ==
  ASSUME NEW v \in Value
  PROVE  v \in Seq(Symbols) /\ Len(v) \in Nat /\ Len(v) > 0 /\ \A j \in 1..Len(v) : v[j] # "mark"
<1>1. v \in Seq(Symbols) /\ Len(v) > 0
  BY DEF Value
<1>2. \A j \in 1..Len(v) : v[j] \in Symbols
  BY <1>1
<1>3. "mark" \notin Symbols
  BY ExecAssumed DEF ExecAssumption
<1> QED
  BY <1>1, <1>2, <1>3

LEMMA MarkIs == \A src : Sym(src, Redacted) = "mark"
BY DEF Sym, Redacted, NewLine

\* The symbols of a text.
LEMMA SymsIs ==
  ASSUME NEW src, NEW T \in Seq(Int)
  PROVE  \E S : Syms(src, T) \in Seq(S) /\ Len(Syms(src, T)) = Len(T)
                /\ \A i \in 1..Len(T) : Syms(src, T)[i] = Sym(src, T[i])
<1>1. PICK n \in Nat : n = Len(T)
  OBVIOUS
<1> DEFINE S == {Sym(src, T[i]) : i \in 1..n}
           t == [i \in 1..n |-> Sym(src, T[i])]
<1>2. \A i \in 1..n : Sym(src, T[i]) \in S
  OBVIOUS
<1> HIDE DEF S
<1>3. t \in Seq(S)
  BY <1>2
<1>4. Len(t) = n /\ \A i \in 1..n : t[i] = Sym(src, T[i])
  OBVIOUS
<1>5. Syms(src, T) = t
  BY <1>1 DEF Syms
<1> HIDE DEF t
<1> QED
  BY <1>1, <1>3, <1>4, <1>5

\* The search of str::replace finds just that.
LEMMA StandsAt ==
  ASSUME NEW src, NEW T \in Seq(Int), NEW v \in Value, NEW i \in Nat, i >= 1
  PROVE  Stands(v, src, T, i) <=> Spelled(v, src, T, i)
<1>1. PICK n \in Nat, l \in Nat : n = Len(T) /\ l = Len(v)
  BY ValueIs
<1>2. v \in Seq(Symbols) /\ l > 0
  BY <1>1, ValueIs
<1>3. PICK S : /\ Syms(src, T) \in Seq(S) /\ Len(Syms(src, T)) = Len(T)
               /\ \A k \in 1..Len(T) : Syms(src, T)[k] = Sym(src, T[k])
  BY SymsIs
<1>4. PICK t \in Seq(S) : t = Syms(src, T)
  BY <1>3
<1>5. Len(t) = n /\ \A k \in 1..n : t[k] = Sym(src, T[k])
  BY <1>1, <1>3, <1>4
<1>6. CASE ~(i + l - 1 <= n)
  BY <1>1, <1>6 DEF Stands, Spelled
<1>7. CASE i + l - 1 <= n
  <2>1. PICK to \in Nat : to = i + l - 1
    BY <1>2
  <2>2. /\ SubSeq(t, i, to) \in Seq(S) /\ Len(SubSeq(t, i, to)) = to - i + 1
        /\ \A k \in 1..(to - i + 1) : SubSeq(t, i, to)[k] = t[i + k - 1]
    <3>1. i <= to + 1 /\ to <= Len(t)
      BY <1>2, <1>5, <1>7, <2>1
    <3> QED
      BY <3>1, PartIs
  <2>3. PICK u \in Seq(S) : u = SubSeq(t, i, to)
    BY <2>2
  <2>4. Len(u) = l /\ \A k \in 1..l : u[k] = t[i + k - 1]
    <3>1. to - i + 1 = l
      BY <2>1
    <3> QED
      BY <2>2, <2>3, <3>1, Zenon
  <2>5. \A k \in 1..l : u[k] = Sym(src, T[i + k - 1])
    BY <1>5, <1>7, <2>4
  <2>6. ASSUME u = v PROVE \A j \in 0..(l - 1) : Sym(src, T[i + j]) = v[j + 1]
    <3>1. ASSUME NEW j \in 0..(l - 1) PROVE Sym(src, T[i + j]) = v[j + 1]
      <4>1. PICK k \in 1..l : k = j + 1
        OBVIOUS
      <4>2. i + k - 1 = i + j
        BY <4>1
      <4>3. u[k] = Sym(src, T[i + j])
        BY <2>5, <4>2
      <4> QED
        BY <2>6, <4>1, <4>3
    <3> QED
      BY <3>1
  <2>7. ASSUME \A j \in 0..(l - 1) : Sym(src, T[i + j]) = v[j + 1] PROVE u = v
    <3>1. ASSUME NEW k \in 1..l PROVE u[k] = v[k]
      <4>1. PICK j \in 0..(l - 1) : j = k - 1
        OBVIOUS
      <4>2. i + k - 1 = i + j /\ j + 1 = k
        BY <4>1
      <4>3. u[k] = Sym(src, T[i + j])
        BY <2>5, <4>2
      <4> QED
        BY <2>7, <4>2, <4>3
    <3>2. Len(u) = Len(v)
      BY <1>1, <2>4
    <3> QED
      BY <1>1, <1>2, <3>1, <3>2, SeqEqual, SMTT(30)
  <2>8. Stands(v, src, T, i) <=> u = v
    BY <1>1, <1>4, <1>7, <2>1, <2>3 DEF Stands
  <2> QED
    BY <1>1, <1>7, <2>6, <2>7, <2>8 DEF Spelled
<1> QED
  BY <1>6, <1>7

\* U holds at i and behind it what T holds where pos leads; none of the places of v
\* at f is replaced.
Traced(T, U, pos, v, i) ==
  \A j \in 0..(Len(v) - 1) : pos[i + j] = pos[i] + j /\ U[i + j] = T[pos[i] + j]
AllKept(T, U, pos, v, f) ==
  \A j \in 0..(Len(v) - 1) : \E k \in 1..Len(U) : pos[k] = f + j /\ U[k] = T[f + j]

\* What stands in a thinned text has stood in the text it was made from, at the same
\* places.
LEMMA SpelledBefore ==
  ASSUME NEW T \in Seq(Int), NEW U \in Seq(Int), NEW pos, Thinning(T, Len(T), U, pos),
         NEW src, NEW v \in Value, NEW i \in 1..Len(U), Spelled(v, src, U, i)
  PROVE  /\ pos[i] \in 1..Len(T) /\ Spelled(v, src, T, pos[i])
         /\ Traced(T, U, pos, v, i)
<1>1. PICK m \in Nat, n \in Nat, l \in Nat : m = Len(U) /\ n = Len(T) /\ l = Len(v)
  BY ValueIs
<1>2. /\ pos \in [1..m -> 1..n]
      /\ \A k \in 1..m : U[k] = T[pos[k]] \/ U[k] = Redacted
      /\ \A k \in 1..(m - 1) : U[k] # Redacted => pos[k + 1] = pos[k] + 1
  BY <1>1 DEF Thinning
<1>3. l > 0 /\ \A j \in 1..l : v[j] # "mark"
  BY <1>1, ValueIs
<1>4. i + l - 1 <= m /\ \A j \in 0..(l - 1) : Sym(src, U[i + j]) = v[j + 1]
  BY <1>1 DEF Spelled
<1>5. i \in 1..m
  BY <1>1
<1>6. ASSUME NEW j \in 0..(l - 1) PROVE U[i + j] # Redacted /\ i + j \in 1..m
  <2>1. j + 1 \in 1..l
    OBVIOUS
  <2>2. Sym(src, U[i + j]) # "mark"
    BY <1>3, <1>4, <2>1
  <2>3. U[i + j] # Redacted
    BY <2>2, MarkIs, Zenon
  <2> QED
    BY <1>4, <1>5, <2>3
<1>7. PICK f \in 1..n : f = pos[i]
  BY <1>2, <1>5
<1> DEFINE at == [j \in 0..(l - 1) |-> pos[i + j]]
           A == [j \in 0..(l - 1) |-> {f + j}]
<1>8. at[0] \in A[0]
  BY <1>3, <1>7
<1>9. ASSUME NEW j \in 1..(l - 1), at[j - 1] \in A[j - 1] PROVE at[j] \in A[j]
  <2>1. PICK k \in 0..(l - 1) : k = j - 1
    OBVIOUS
  <2>2. k + 1 = j /\ i + k + 1 = i + j /\ j \in 0..(l - 1)
    BY <1>5, <2>1
  <2>3. U[i + k] # Redacted /\ i + k \in 1..m /\ i + j \in 1..m
    BY <1>6, <2>2
  <2>4. pos[i + k] = f + k
    BY <1>9, <2>1
  <2>5. i + k \in 1..(m - 1)
    BY <2>2, <2>3
  <2>6. pos[i + k + 1] = pos[i + k] + 1
    BY <1>2, <2>3, <2>5
  <2>7. pos[i + j] = f + j
    BY <2>1, <2>2, <2>4, <2>6
  <2> QED
    BY <2>2, <2>7
<1>10. l - 1 \in Nat
  BY <1>3
<1>11. \A j \in 0..(l - 1) : at[j] \in A[j]
  <2> HIDE DEF at, A
  <2> QED
    BY <1>8, <1>9, <1>10, Throughout
<1>12. \A j \in 0..(l - 1) : pos[i + j] = f + j
  BY <1>11
<1> HIDE DEF at, A
<1>13. ASSUME NEW j \in 0..(l - 1) PROVE U[i + j] = T[f + j] /\ f + j \in 1..n
  <2>1. pos[i + j] = f + j /\ i + j \in 1..m /\ U[i + j] # Redacted
    BY <1>6, <1>12
  <2>2. pos[i + j] \in 1..n
    BY <1>2, <2>1
  <2>3. U[i + j] = T[pos[i + j]]
    BY <1>2, <2>1, Zenon
  <2> QED
    BY <2>1, <2>2, <2>3, Zenon
<1>14. f + l - 1 <= n
  <2>1. l - 1 \in 0..(l - 1)
    BY <1>10
  <2>2. f + (l - 1) \in 1..n
    BY <1>13, <2>1
  <2> QED
    BY <2>2
<1>15. \A j \in 0..(l - 1) : Sym(src, T[f + j]) = v[j + 1]
  BY <1>4, <1>13
<1>16. Spelled(v, src, T, f)
  BY <1>1, <1>14, <1>15 DEF Spelled
<1> QED
  BY <1>1, <1>7, <1>12, <1>13, <1>16 DEF Traced

\* Places of which none was replaced still stand next to each other.
LEMMA SpelledAfter ==
  ASSUME NEW T \in Seq(Int), NEW U \in Seq(Int), NEW pos, Thinning(T, Len(T), U, pos),
         NEW src, NEW v \in Value, NEW f \in 1..Len(T), Spelled(v, src, T, f),
         AllKept(T, U, pos, v, f)
  PROVE  \E k \in 1..Len(U) : pos[k] = f /\ Spelled(v, src, U, k)
<1>1. PICK m \in Nat, n \in Nat, l \in Nat : m = Len(U) /\ n = Len(T) /\ l = Len(v)
  BY ValueIs
<1>2. /\ pos \in [1..m -> 1..n]
      /\ \A i, j \in 1..m : i < j => pos[i] < pos[j]
      /\ \A k \in 1..(m - 1) : U[k] # Redacted => pos[k + 1] = pos[k] + 1
  BY <1>1 DEF Thinning
<1>3. l > 0 /\ \A j \in 1..l : v[j] # "mark"
  BY <1>1, ValueIs
<1>4. f \in 1..n /\ f + l - 1 <= n /\ \A j \in 0..(l - 1) : Sym(src, T[f + j]) = v[j + 1]
  BY <1>1 DEF Spelled
<1> DEFINE Unhurt(j, k) == pos[k] = f + j /\ U[k] = T[f + j]
           at == [j \in 0..(l - 1) |-> CHOOSE k \in 1..m : Unhurt(j, k)]
<1>5. ASSUME NEW j \in 0..(l - 1) PROVE at[j] \in 1..m /\ Unhurt(j, at[j]) /\ U[at[j]] # Redacted
  <2>1. \E k \in 1..m : Unhurt(j, k)
    BY <1>1 DEF AllKept
  <2>2. at[j] = CHOOSE k \in 1..m : Unhurt(j, k)
    OBVIOUS
  <2> HIDE DEF Unhurt, at
  <2>3. at[j] \in 1..m /\ Unhurt(j, at[j])
    BY <2>1, <2>2, Zenon
  <2>4. j + 1 \in 1..l
    OBVIOUS
  <2>5. Sym(src, U[at[j]]) # "mark"
    BY <1>3, <1>4, <2>3, <2>4 DEF Unhurt
  <2>6. U[at[j]] # Redacted
    BY <2>5, MarkIs, Zenon
  <2> QED
    BY <2>3, <2>6
<1> HIDE DEF Unhurt, at
<1>6. 0 \in 0..(l - 1)
  BY <1>3
<1>7. PICK k \in 1..m : k = at[0]
  BY <1>5, <1>6
<1> DEFINE A == [j \in 0..(l - 1) |-> {k + j}]
<1>8. at[0] \in A[0]
  BY <1>6, <1>7
<1>9. ASSUME NEW j \in 1..(l - 1), at[j - 1] \in A[j - 1] PROVE at[j] \in A[j]
  <2>1. PICK i \in 0..(l - 1) : i = j - 1
    OBVIOUS
  <2>2. j \in 0..(l - 1) /\ j = i + 1
    BY <2>1
  <2>3. PICK x \in 1..m, y \in 1..m : x = at[i] /\ y = at[j]
    BY <1>5, <2>2
  <2>4. pos[x] = f + i /\ pos[y] = f + j /\ U[x] # Redacted
    BY <1>5, <2>2, <2>3 DEF Unhurt
  <2>5. x < y
    <3>1. ~(y < x)
      BY <1>2, <1>4, <2>2, <2>4
    <3>2. y # x
      BY <1>4, <2>2, <2>4
    <3> QED
      BY <3>1, <3>2
  <2>6. x \in 1..(m - 1) /\ x + 1 \in 1..m
    BY <2>5
  <2>7. pos[x + 1] = f + i + 1
    BY <1>2, <2>4, <2>6
  <2>8. ~(x + 1 < y)
    BY <1>2, <1>4, <2>2, <2>4, <2>6, <2>7
  <2>9. y = x + 1
    BY <2>5, <2>8
  <2>10. x = k + i
    BY <1>9, <2>1, <2>3
  <2>11. y = k + j
    BY <2>2, <2>9, <2>10
  <2> QED
    BY <2>2, <2>3, <2>11
<1>10. l - 1 \in Nat
  BY <1>3
<1>11. \A j \in 0..(l - 1) : at[j] \in A[j]
  <2> HIDE DEF A
  <2> QED
    BY <1>8, <1>9, <1>10, Throughout
<1>12. \A j \in 0..(l - 1) : at[j] = k + j
  BY <1>11
<1>13. k + l - 1 <= m
  <2>1. l - 1 \in 0..(l - 1)
    BY <1>10
  <2>2. at[l - 1] = k + (l - 1) /\ at[l - 1] \in 1..m
    BY <1>5, <1>12, <2>1
  <2> QED
    BY <2>2
<1>14. \A j \in 0..(l - 1) : Sym(src, U[k + j]) = v[j + 1]
  BY <1>4, <1>5, <1>12 DEF Unhurt
<1>15. pos[k] = f
  BY <1>4, <1>5, <1>6, <1>7 DEF Unhurt
<1>16. Spelled(v, src, U, k)
  BY <1>1, <1>13, <1>14 DEF Spelled
<1> QED
  BY <1>1, <1>15, <1>16
-----------------------------------------------------------------------------
(***************************************************************************)
(* str::replace, from left to right.                                       *)
(***************************************************************************)
ScanState == [next : Nat, out : Seq(Int)]

LEMMA ReplacedRuns ==
  ASSUME NEW src, NEW T \in Seq(Int), NEW v \in Value
  PROVE  \E f : /\ f[0] = [next |-> 1, out |-> <<>>]
                /\ \A n \in 1..Len(T) : f[n] = ReplacedAt(src, T, v, f[n - 1], n)
                /\ \A n \in 0..Len(T) : f[n] \in ScanState
                /\ Replaced(src, T, v) = f[Len(T)].out
<1>1. PICK N \in Nat : N = Len(T)
  OBVIOUS
<1> DEFINE base == [next |-> 1, out |-> <<>>]
           Step(s, n) == ReplacedAt(src, T, v, s, n)
           Rec(f) == f = [n \in 0..N |-> IF n = 0 THEN base ELSE Step(f[n - 1], n)]
<1>2. base \in ScanState
  BY EmptySeq DEF ScanState
<1>3. ASSUME NEW s \in ScanState, NEW n \in 1..N PROVE Step(s, n) \in ScanState
  <2>1. s.next \in Nat /\ s.out \in Seq(Int) /\ Len(v) \in Nat /\ T[n] \in Int /\ Redacted \in Int
    BY <1>1, ValueIs DEF ScanState, Redacted
  <2>2. Append(s.out, Redacted) \in Seq(Int) /\ Append(s.out, T[n]) \in Seq(Int)
    BY <2>1, AppendProperties
  <2>3. n + Len(v) \in Nat /\ n + 1 \in Nat
    BY <2>1
  <2>4. /\ [next |-> n + Len(v), out |-> Append(s.out, Redacted)] \in ScanState
        /\ [next |-> n + 1, out |-> Append(s.out, T[n])] \in ScanState
    BY <2>2, <2>3 DEF ScanState
  <2> QED
    BY <2>4, Zenon DEF ReplacedAt
<1> HIDE DEF base, Step
<1> DEFINE g == [n \in 1..N |-> [s \in ScanState |-> Step(s, n)]]
<1>4. PICK h : Course(N, ScanState, base, g, h)
  <2>1. g \in [1..N -> [ScanState -> ScanState]]
    BY <1>3
  <2> HIDE DEF g
  <2> QED
    BY <1>2, <2>1, Recursion
<1>5. \A n \in 0..N : h[n] = IF n = 0 THEN base ELSE Step(h[n - 1], n)
  <2>1. ASSUME NEW n \in 0..N, n # 0 PROVE h[n] = Step(h[n - 1], n)
    <3>1. n \in 1..N /\ n - 1 \in 0..N
      BY <2>1
    <3>2. h[n - 1] \in ScanState /\ h[n] = g[n][h[n - 1]]
      BY <1>4, <3>1 DEF Course
    <3> QED
      BY <3>1, <3>2
  <2>2. h[0] = base
    BY <1>4 DEF Course
  <2> QED
    BY <2>1, <2>2
<1>6. h = [n \in 0..N |-> h[n]]
  BY <1>4 DEF Course
<1>9. Rec(h)
  BY <1>5, <1>6
<1> DEFINE f == CHOOSE k : Rec(k)
<1>10. Rec(f)
  <2> HIDE DEF Rec
  <2> QED
    BY <1>9, Zenon
<1>11. Replaced(src, T, v) = f[N].out
  BY <1>1, Zenon DEF Replaced, Step, base
<1> HIDE DEF f
<1>12. f[0] = base /\ \A n \in 1..N : f[n] = Step(f[n - 1], n)
  <2>1. f[0] = base
    <3>1. 0 \in 0..N
      OBVIOUS
    <3> QED
      BY <1>10, <3>1
  <2>2. ASSUME NEW n \in 1..N PROVE f[n] = Step(f[n - 1], n)
    <3>1. n \in 0..N /\ n # 0
      OBVIOUS
    <3> QED
      BY <1>10, <3>1
  <2> QED
    BY <2>1, <2>2
<1> DEFINE A == [n \in 0..N |-> ScanState]
<1>13. \A n \in 0..N : f[n] \in A[n]
  <2>1. f[0] \in A[0]
    BY <1>2, <1>12
  <2>2. ASSUME NEW n \in 1..N, f[n - 1] \in A[n - 1] PROVE f[n] \in A[n]
    BY <1>3, <1>12, <2>2
  <2> HIDE DEF A
  <2> QED
    BY <2>1, <2>2, Throughout
<1> QED
  BY <1>1, <1>11, <1>12, <1>13 DEF Step, base

\* W is what the search for v made of the first p elements of U: C holds the indexes
\* where it replaced the value.
Meets(v, c, j) == c <= j /\ j <= c + Len(v) - 1
Cutting(v, src, U, p, W, pos, C) ==
  /\ Thinning(U, p, W, pos)
  /\ C \subseteq 1..p
  /\ \A c \in C : c + Len(v) - 1 <= p /\ Spelled(v, src, U, c)
  /\ \A j \in 1..p : (\A c \in C : ~Meets(v, c, j)) => \E k \in 1..Len(W) : pos[k] = j /\ W[k] = U[j]
  /\ \A k \in 1..Len(W) : \A c \in C : Meets(v, c, pos[k]) => W[k] = Redacted
  /\ \A j \in 1..p : Spelled(v, src, U, j) => \E c \in C : Meets(v, c, j)
Cut(v, src, U, p, W) == \E pos, C : Cutting(v, src, U, p, W, pos, C)

LEMMA CutNone ==
  ASSUME NEW v, NEW src, NEW U
  PROVE  Cut(v, src, U, 0, <<>>)
<1>1. PICK pos : Thinning(U, 0, <<>>, pos)
  BY ThinEmpty DEF Thinned
<1>2. 1..0 = {} /\ Len(<<>>) = 0
  OBVIOUS
<1>3. Cutting(v, src, U, 0, <<>>, pos, {})
  BY <1>1, <1>2 DEF Cutting
<1> QED
  BY <1>3 DEF Cut

\* Where the value does not stand, the element is kept.
LEMMA CutKeeps ==
  ASSUME NEW v \in Value, NEW src, NEW U \in Seq(Int), NEW p \in Nat, NEW q \in 1..Len(U), q = p + 1,
         NEW W \in Seq(Int), Cut(v, src, U, p, W), ~Spelled(v, src, U, q)
  PROVE  Cut(v, src, U, q, Append(W, U[q]))
<1>1. PICK pos, C : Cutting(v, src, U, p, W, pos, C)
  BY DEF Cut
<1>2. PICK n \in Nat, l \in Nat : n = Len(W) /\ l = Len(v)
  BY ValueIs
<1>3. /\ Thinning(U, p, W, pos)
      /\ C \subseteq 1..p
      /\ \A c \in C : c + Len(v) - 1 <= p /\ Spelled(v, src, U, c)
      /\ \A j \in 1..p : (\A c \in C : ~Meets(v, c, j)) => \E k \in 1..Len(W) : pos[k] = j /\ W[k] = U[j]
      /\ \A k \in 1..Len(W) : \A c \in C : Meets(v, c, pos[k]) => W[k] = Redacted
      /\ \A j \in 1..p : Spelled(v, src, U, j) => \E c \in C : Meets(v, c, j)
  BY <1>1 DEF Cutting
<1>4. PICK X \in Seq(Int) : X = Append(W, U[q])
  <2>1. U[q] \in Int
    OBVIOUS
  <2>2. Append(W, U[q]) \in Seq(Int)
    BY <2>1, AppendProperties
  <2> QED
    BY <2>2
<1>5. Len(X) = n + 1 /\ (\A k \in 1..n : X[k] = W[k]) /\ X[n + 1] = U[q]
  <2>1. U[q] \in Int
    OBVIOUS
  <2> QED
    BY <1>2, <1>4, <2>1, AppendProperties
<1>6. PICK more : /\ Thinning(U, q, X, more)
                  /\ \A k \in 1..n : more[k] = pos[k]
                  /\ more[n + 1] = q
  <2>1. X = W \o SubSeq(U, p + 1, q)
    BY <1>4, OneMore
  <2>2. p <= q /\ q <= Len(U) /\ q \in Nat
    OBVIOUS
  <2>3. PICK more : /\ Thinning(U, q, W \o SubSeq(U, p + 1, q), more)
                    /\ GoesOn(pos, more, Len(W), p, q - p)
    <3>1. Thinning(U, p, W, pos)
      BY <1>3
    <3> QED
      BY <2>2, <3>1, ThinKeep
  <2>4. n + 1 \in (n + 1)..(n + (q - p)) /\ p + ((n + 1) - n) = q
    OBVIOUS
  <2>5. more[n + 1] = q
    BY <1>2, <2>3, <2>4, Zenon DEF GoesOn
  <2> QED
    BY <1>2, <2>1, <2>3, <2>5, Zenon DEF GoesOn
<1>7. C \subseteq 1..q /\ \A c \in C : c + Len(v) - 1 <= q /\ Spelled(v, src, U, c)
  <2>1. ASSUME NEW c \in C PROVE c \in 1..q /\ c + Len(v) - 1 <= q /\ Spelled(v, src, U, c)
    <3>1. c \in 1..p /\ c + Len(v) - 1 <= p /\ Spelled(v, src, U, c)
      BY <1>3
    <3> HIDE DEF Spelled
    <3> QED
      BY <1>2, <3>1
  <2> QED
    BY <2>1
<1>8. \A c \in C : ~Meets(v, c, q)
  BY <1>2, <1>3, SMTT(30) DEF Meets
<1>9. ASSUME NEW j \in 1..q, \A c \in C : ~Meets(v, c, j)
      PROVE  \E k \in 1..(n + 1) : more[k] = j /\ X[k] = U[j]
  <2>1. CASE j = q
    BY <1>5, <1>6, <2>1
  <2>2. CASE j # q
    <3>1. j \in 1..p
      BY <2>2
    <3>2. PICK k \in 1..n : pos[k] = j /\ W[k] = U[j]
      BY <1>2, <1>3, <1>9, <3>1
    <3>3. more[k] = j /\ X[k] = U[j]
      BY <1>5, <1>6, <3>2, Zenon
    <3>4. k \in 1..(n + 1)
      OBVIOUS
    <3> QED
      BY <3>3, <3>4
  <2> QED
    BY <2>1, <2>2
<1>10. ASSUME NEW k \in 1..(n + 1), NEW c \in C, Meets(v, c, more[k]) PROVE X[k] = Redacted
  <2>1. k # n + 1
    BY <1>6, <1>8, <1>10
  <2>2. k \in 1..n
    BY <2>1
  <2> QED
    BY <1>2, <1>3, <1>5, <1>6, <1>10, <2>2
<1>11. ASSUME NEW j \in 1..q, Spelled(v, src, U, j) PROVE \E c \in C : Meets(v, c, j)
  <2>1. j # q
    BY <1>11
  <2>2. j \in 1..p
    BY <2>1
  <2> QED
    BY <1>3, <1>11, <2>2
<1>12. Cutting(v, src, U, q, X, more, C)
  BY <1>5, <1>6, <1>7, <1>9, <1>10, <1>11 DEF Cutting
<1> QED
  BY <1>4, <1>12 DEF Cut

\* Where it stands, it is replaced.
LEMMA CutReplaces ==
  ASSUME NEW v \in Value, NEW src, NEW U \in Seq(Int), NEW p \in Nat, NEW b \in 1..Len(U), b = p + 1,
         NEW q \in 1..Len(U), q = p + Len(v),
         NEW W \in Seq(Int), Cut(v, src, U, p, W), Spelled(v, src, U, b)
  PROVE  Cut(v, src, U, q, Append(W, Redacted))
<1>1. PICK pos, C : Cutting(v, src, U, p, W, pos, C)
  BY DEF Cut
<1>2. PICK n \in Nat, l \in Nat : n = Len(W) /\ l = Len(v)
  BY ValueIs
<1>0. l > 0
  BY <1>2, ValueIs
<1>3. /\ Thinning(U, p, W, pos)
      /\ C \subseteq 1..p
      /\ \A c \in C : c + Len(v) - 1 <= p /\ Spelled(v, src, U, c)
      /\ \A j \in 1..p : (\A c \in C : ~Meets(v, c, j)) => \E k \in 1..Len(W) : pos[k] = j /\ W[k] = U[j]
      /\ \A k \in 1..Len(W) : \A c \in C : Meets(v, c, pos[k]) => W[k] = Redacted
      /\ \A j \in 1..p : Spelled(v, src, U, j) => \E c \in C : Meets(v, c, j)
  BY <1>1 DEF Cutting
<1>4. PICK X \in Seq(Int) : X = Append(W, Redacted)
  <2>1. Redacted \in Int
    BY DEF Redacted
  <2>2. Append(W, Redacted) \in Seq(Int)
    BY <2>1, AppendProperties
  <2> QED
    BY <2>2
<1>5. Len(X) = n + 1 /\ (\A k \in 1..n : X[k] = W[k]) /\ X[n + 1] = Redacted
  <2>1. Redacted \in Int
    BY DEF Redacted
  <2> QED
    BY <1>2, <1>4, <2>1, AppendProperties
<1>6. PICK more : /\ Thinning(U, q, X, more)
                  /\ \A k \in 1..n : more[k] = pos[k]
                  /\ more[n + 1] = b
  <2>1. p < q /\ q \in Nat
    BY <1>0, <1>2, SMTT(30)
  <2>2. PICK more : /\ Thinning(U, q, Append(W, Redacted), more)
                    /\ \A k \in 1..Len(W) : more[k] = pos[k]
                    /\ more[Len(W) + 1] = p + 1
    BY <1>3, <2>1, ThinCut, SMTT(30)
  <2> QED
    BY <1>2, <1>4, <2>2, Zenon
<1> DEFINE D == C \cup {b}
<1>7. D \subseteq 1..q /\ \A c \in D : c + Len(v) - 1 <= q /\ Spelled(v, src, U, c)
  <2>1. b \in 1..q /\ b + Len(v) - 1 <= q
    BY <1>0, <1>2, SMTT(30)
  <2>2. ASSUME NEW c \in C PROVE c \in 1..q /\ c + Len(v) - 1 <= q /\ Spelled(v, src, U, c)
    <3>1. c \in 1..p /\ c + Len(v) - 1 <= p /\ Spelled(v, src, U, c)
      BY <1>3
    <3>2. c + l - 1 <= p
      BY <1>2, <3>1, Zenon
    <3>3. c \in 1..q /\ c + l - 1 <= q
      BY <1>0, <1>2, <3>1, <3>2, SMTT(30)
    <3> QED
      BY <1>2, <3>1, <3>3, Zenon
  <2> QED
    BY <2>1, <2>2
<1>8. \A j \in b..q : Meets(v, b, j)
  BY <1>2 DEF Meets
<1>9. ASSUME NEW j \in 1..q, \A c \in D : ~Meets(v, c, j)
      PROVE  \E k \in 1..(n + 1) : more[k] = j /\ X[k] = U[j]
  <2>1. j \in 1..p
    BY <1>8, <1>9
  <2>2. PICK k \in 1..n : pos[k] = j /\ W[k] = U[j]
    BY <1>2, <1>3, <1>9, <2>1
  <2>3. more[k] = j /\ X[k] = U[j]
    BY <1>5, <1>6, <2>2, Zenon
  <2>4. k \in 1..(n + 1)
    OBVIOUS
  <2> QED
    BY <2>3, <2>4
<1>10. ASSUME NEW k \in 1..(n + 1), NEW c \in D, Meets(v, c, more[k]) PROVE X[k] = Redacted
  <2>1. CASE k = n + 1
    BY <1>5, <2>1
  <2>2. CASE k # n + 1
    <3>1. k \in 1..n /\ more[k] = pos[k]
      BY <1>6, <2>2
    <3>2. pos[k] \in 1..p
      BY <1>2, <1>3, <3>1 DEF Thinning
    <3>3. c # b
      <4>1. c <= pos[k]
        BY <1>10, <3>1, Zenon DEF Meets
      <4> QED
        BY <3>2, <4>1, SMTT(30)
    <3>4. c \in C /\ Meets(v, c, pos[k])
      BY <1>10, <3>1, <3>3
    <3> QED
      BY <1>2, <1>3, <1>5, <3>1, <3>4
  <2> QED
    BY <2>1, <2>2
<1>11. ASSUME NEW j \in 1..q, Spelled(v, src, U, j) PROVE \E c \in D : Meets(v, c, j)
  <2>1. CASE j \in 1..p
    BY <1>3, <1>11, <2>1
  <2>2. CASE j \notin 1..p
    BY <1>8, <2>2
  <2> QED
    BY <2>1, <2>2
<1> HIDE DEF D
<1>12. Cutting(v, src, U, q, X, more, D)
  BY <1>5, <1>6, <1>7, <1>9, <1>10, <1>11 DEF Cutting
<1> QED
  BY <1>4, <1>12 DEF Cut

\* So does the whole search.
LEMMA ReplacedCuts ==
  ASSUME NEW v \in Value, NEW src, NEW U \in Seq(Int)
  PROVE  Replaced(src, U, v) \in Seq(Int) /\ Cut(v, src, U, Len(U), Replaced(src, U, v))
<1>1. PICK N \in Nat, l \in Nat : N = Len(U) /\ l = Len(v)
  BY ValueIs
<1>2. PICK f : /\ f[0] = [next |-> 1, out |-> <<>>]
               /\ \A n \in 1..N : f[n] = ReplacedAt(src, U, v, f[n - 1], n)
               /\ \A n \in 0..N : f[n] \in ScanState
               /\ Replaced(src, U, v) = f[N].out
  BY <1>1, ReplacedRuns
<1>3. l > 0
  BY <1>1, ValueIs
<1> DEFINE Done(n, s) == s.next > n /\ s.next <= N + 1 /\ Cut(v, src, U, s.next - 1, s.out)
           A == [n \in 0..N |-> {s \in ScanState : Done(n, s)}]
<1>4. f[0] \in A[0]
  <2>1. Cut(v, src, U, 0, <<>>)
    BY CutNone
  <2>2. f[0].next = 1 /\ f[0].out = <<>> /\ f[0].next - 1 = 0
    BY <1>2
  <2>3. Done(0, f[0])
    BY <2>1, <2>2
  <2> HIDE DEF Done
  <2> QED
    BY <1>2, <2>3
<1>5. ASSUME NEW n \in 1..N, f[n - 1] \in A[n - 1] PROVE f[n] \in A[n]
  <2>1. n - 1 \in 0..N /\ n \in 0..N
    OBVIOUS
  <2>2. PICK s \in ScanState : s = f[n - 1]
    BY <1>2, <2>1
  <2>3. PICK x \in Nat, W \in Seq(Int) : x = s.next /\ W = s.out
    BY DEF ScanState
  <2>4. Done(n - 1, s)
    BY <1>5, <2>1, <2>2
  <2>5. x >= n /\ x <= N + 1 /\ Cut(v, src, U, x - 1, W)
    BY <2>3, <2>4
  <2>6. f[n] = ReplacedAt(src, U, v, s, n)
    BY <1>2, <2>2
  <2>7. Done(n, f[n])
    <3>1. CASE n < x
      <4>1. f[n] = s
        BY <2>3, <2>6, <3>1 DEF ReplacedAt
      <4> QED
        BY <2>3, <2>5, <3>1, <4>1
    <3>2. CASE n = x
      <4>1. PICK p \in Nat : p = x - 1
        BY <3>2
      <4>2. Cut(v, src, U, p, W) /\ n = p + 1
        BY <2>5, <3>2, <4>1
      <4>3. n \in 1..Len(U) /\ n >= 1
        BY <1>1
      <4>4. CASE Stands(v, src, U, n)
        <5>1. Spelled(v, src, U, n)
          BY <4>3, <4>4, StandsAt
        <5>2. PICK q \in 1..N : q = p + l
          <6>1. n + l - 1 <= N
            BY <1>1, <5>1 DEF Spelled
          <6> QED
            BY <1>3, <4>2, <6>1
        <5>3. Cut(v, src, U, q, Append(W, Redacted))
          BY <1>1, <4>2, <4>3, <5>1, <5>2, CutReplaces
        <5>4. f[n] = [next |-> n + l, out |-> Append(W, Redacted)]
          BY <1>1, <2>3, <2>6, <3>2, <4>4 DEF ReplacedAt
        <5>5. f[n].next = n + l /\ f[n].out = Append(W, Redacted)
          BY <5>4
        <5>6. n + l > n /\ n + l <= N + 1 /\ n + l - 1 = q
          BY <1>3, <4>2, <5>2
        <5> QED
          BY <5>3, <5>5, <5>6
      <4>5. CASE ~Stands(v, src, U, n)
        <5>1. ~Spelled(v, src, U, n)
          BY <4>3, <4>5, StandsAt
        <5>3. Cut(v, src, U, n, Append(W, U[n]))
          BY <4>2, <4>3, <5>1, CutKeeps
        <5>4. f[n] = [next |-> n + 1, out |-> Append(W, U[n])]
          BY <2>3, <2>6, <3>2, <4>5 DEF ReplacedAt
        <5>5. f[n].next = n + 1 /\ f[n].out = Append(W, U[n])
          BY <5>4
        <5>6. n + 1 > n /\ n + 1 <= N + 1 /\ n + 1 - 1 = n
          OBVIOUS
        <5> QED
          BY <5>3, <5>5, <5>6
      <4> QED
        BY <4>4, <4>5
    <3> QED
      BY <2>5, <3>1, <3>2
  <2> HIDE DEF Done
  <2> QED
    BY <1>2, <2>1, <2>7
<1>6. \A n \in 0..N : f[n] \in A[n]
  <2> HIDE DEF A
  <2> QED
    BY <1>4, <1>5, Throughout
<1>7. N \in 0..N
  OBVIOUS
<1>8. f[N] \in ScanState /\ Done(N, f[N])
  BY <1>6, <1>7
<1>9. f[N].next = N + 1 /\ f[N].out \in Seq(Int)
  BY <1>8 DEF ScanState
<1>10. N + 1 - 1 = N
  OBVIOUS
<1>11. Cut(v, src, U, N, f[N].out)
  BY <1>8, <1>9, <1>10
<1> QED
  BY <1>1, <1>2, <1>9, <1>11

-----------------------------------------------------------------------------
(***************************************************************************)
(* What a search may cut.                                                  *)
(***************************************************************************)

\* Two runs of l and m elements at f and i are nested or have nothing in common.
Apart(f, l, i, m) ==
  \/ i + m - 1 < f \/ f + l - 1 < i
  \/ i <= f /\ f + l - 1 <= i + m - 1
  \/ f <= i /\ i + m - 1 <= f + l - 1

\* The value v stands at f, nested with every value of K.
Clear(K, src, T, v, f) ==
  /\ Spelled(v, src, T, f)
  /\ \A w \in K : \A i \in 1..Len(T) : Spelled(w, src, T, i) => Apart(f, Len(v), i, Len(w))

\* Of U, thinned from T: what stood at f is gone, or is still there.
Gone(v, U, pos, f) ==
  \A k \in 1..Len(U) : f <= pos[k] /\ pos[k] <= f + Len(v) - 1 => U[k] = Redacted
Still(v, src, U, pos, f) == \E k \in 1..Len(U) : pos[k] = f /\ Spelled(v, src, U, k)

LEMMA StaysGone ==
  ASSUME NEW T \in Seq(Int), NEW U \in Seq(Int), NEW pos, Thinning(T, Len(T), U, pos),
         NEW v \in Value, NEW f, Gone(v, U, pos, f),
         NEW W \in Seq(Int), NEW at, Thinning(U, Len(U), W, at)
  PROVE  Gone(v, W, [k \in 1..Len(W) |-> pos[at[k]]], f)
<1>1. PICK n \in Nat, m \in Nat : n = Len(W) /\ m = Len(U)
  OBVIOUS
<1>2. at \in [1..n -> 1..m] /\ \A k \in 1..n : W[k] = U[at[k]] \/ W[k] = Redacted
  BY <1>1 DEF Thinning
<1>3. \A k \in 1..m : f <= pos[k] /\ pos[k] <= f + Len(v) - 1 => U[k] = Redacted
  BY <1>1 DEF Gone
<1> DEFINE both == [k \in 1..n |-> pos[at[k]]]
<1>4. ASSUME NEW k \in 1..n, f <= both[k], both[k] <= f + Len(v) - 1 PROVE W[k] = Redacted
  <2>1. at[k] \in 1..m /\ both[k] = pos[at[k]]
    BY <1>2
  <2>2. U[at[k]] = Redacted
    BY <1>3, <1>4, <2>1, Zenon
  <2> QED
    BY <1>2, <2>2, Zenon
<1>5. both = [k \in 1..Len(W) |-> pos[at[k]]]
  BY <1>1
<1> HIDE DEF both
<1>6. Gone(v, W, both, f)
  BY <1>1, <1>4 DEF Gone
<1> QED
  BY <1>5, <1>6

\* A value that is at least as long is replaced in a text in which v still stands.
LEMMA StillOrGone ==
  ASSUME NEW K, NEW src, NEW T \in Seq(Int), NEW v \in Value, NEW f \in 1..Len(T), Clear(K, src, T, v, f),
         NEW U \in Seq(Int), NEW pos, Thinning(T, Len(T), U, pos), Still(v, src, U, pos, f),
         NEW w \in Value, w \in K, Len(v) <= Len(w),
         NEW W \in Seq(Int), NEW at, NEW C, Cutting(w, src, U, Len(U), W, at, C)
  PROVE  LET both == [k \in 1..Len(W) |-> pos[at[k]]]
         IN Gone(v, W, both, f) \/ (w # v /\ Still(v, src, W, both, f))
<1>1. PICK n \in Nat, m \in Nat, s \in Nat : n = Len(W) /\ m = Len(U) /\ s = Len(T)
  OBVIOUS
<1>2. PICK l \in Nat, d \in Nat : l = Len(v) /\ d = Len(w) /\ l > 0 /\ d > 0
  BY ValueIs
<1>3. PICK h \in 1..m : pos[h] = f /\ Spelled(v, src, U, h)
  BY <1>1 DEF Still
<1>4. /\ Thinning(U, m, W, at)
      /\ \A c \in C : c \in 1..m /\ c + d - 1 <= m /\ Spelled(w, src, U, c)
      /\ \A j \in 1..m : (\A c \in C : ~Meets(w, c, j)) => \E k \in 1..n : at[k] = j /\ W[k] = U[j]
      /\ \A k \in 1..n : \A c \in C : Meets(w, c, at[k]) => W[k] = Redacted
      /\ \A j \in 1..m : Spelled(w, src, U, j) => \E c \in C : Meets(w, c, j)
  BY <1>1, <1>2 DEF Cutting
<1>5. \A j \in 0..(l - 1) : pos[h + j] = f + j
  <2>1. h \in 1..Len(U)
    BY <1>1
  <2>2. Traced(T, U, pos, v, h)
    BY <1>3, <2>1, SpelledBefore
  <2> QED
    BY <1>2, <1>3, <2>2 DEF Traced
<1>6. h + l - 1 <= m
  BY <1>1, <1>2, <1>3 DEF Spelled
<1>7. pos \in [1..m -> 1..s] /\ \A i, j \in 1..m : i < j => pos[i] < pos[j]
  BY <1>1 DEF Thinning
<1>8. at \in [1..n -> 1..m]
  BY <1>1, <1>4 DEF Thinning
<1> DEFINE both == [k \in 1..n |-> pos[at[k]]]
<1>9. CASE \E c \in C : c <= h + l - 1 /\ h <= c + d - 1
  <2>1. PICK c \in 1..m : c \in C /\ c <= h + l - 1 /\ h <= c + d - 1
    BY <1>4, <1>9
  <2>2. Spelled(w, src, U, c) /\ c + d - 1 <= m
    BY <1>4, <2>1
  <2>3. /\ pos[c] \in 1..Len(T) /\ Spelled(w, src, T, pos[c])
        /\ Traced(T, U, pos, w, c)
    <3>1. c \in 1..Len(U)
      BY <1>1
    <3> QED
      BY <2>2, <3>1, SpelledBefore
  <2>4. PICK g \in 1..s : g = pos[c]
    BY <1>1, <2>3
  <2>5. \A j \in 0..(d - 1) : pos[c + j] = g + j
    BY <1>2, <2>3, <2>4 DEF Traced
  <2>6. Apart(f, l, g, d)
    <3>1. g \in 1..Len(T) /\ Spelled(w, src, T, g)
      BY <1>1, <2>3, <2>4
    <3> QED
      BY <1>2, <3>1 DEF Clear
  <2>7. g - c = f - h
    <3>1. CASE c <= h
      <4>1. h - c \in 0..(d - 1) /\ c + (h - c) = h
        BY <2>1, <3>1
      <4>2. pos[h] = g + (h - c)
        BY <2>5, <4>1
      <4> QED
        BY <1>3, <4>2
    <3>2. CASE h < c
      <4>1. c - h \in 0..(l - 1) /\ h + (c - h) = c
        BY <2>1, <3>2
      <4>2. pos[c] = f + (c - h)
        BY <1>5, <4>1
      <4> QED
        BY <2>4, <4>2
    <3> QED
      BY <3>1, <3>2
  <2>8. c <= h /\ h + l - 1 <= c + d - 1
    <3>1. f \in Nat /\ l <= d
      BY <1>1, <1>2
    <3>2. c <= h + l - 1 /\ h <= c + d - 1
      BY <2>1, Zenon
    <3>3. f - g = h - c
      BY <2>7, <3>1
    <3>4. g <= f /\ f + l - 1 <= g + d - 1
      BY <2>6, <3>1, <3>2, <3>3 DEF Apart
    <3> QED
      BY <3>1, <3>3, <3>4
  <2>9. ASSUME NEW k \in 1..n, f <= both[k], both[k] <= f + l - 1 PROVE W[k] = Redacted
    <3>1. PICK a \in 1..m : a = at[k]
      BY <1>8
    <3>2. PICK j \in 0..(l - 1) : pos[a] = f + j
      <4>0. both[k] = pos[a]
        BY <3>1
      <4>5. pos[a] \in 1..s
        <5>1. pos \in [1..m -> 1..s] /\ a \in 1..m
          BY <1>7
        <5> HIDE DEF both
        <5> QED
          BY <5>1, Zenon
      <4>6. f \in Nat
        OBVIOUS
      <4>3. pos[a] \in 1..s /\ f \in Nat
        BY <4>5, <4>6, Zenon
      <4>4. f <= pos[a] /\ pos[a] <= f + l - 1
        <5> HIDE DEF both
        <5> QED
          BY <2>9, <4>0, Zenon
      <4>1. pos[a] \in 1..s /\ f \in Nat /\ f <= pos[a] /\ pos[a] <= f + l - 1
        BY <4>3, <4>4, Zenon
      <4>2. pos[a] - f \in 0..(l - 1) /\ pos[a] = f + (pos[a] - f)
        BY <4>1, SMTT(30)
      <4> QED
        BY <4>2
    <3>3. PICK b \in 1..m : b = h + j
      BY <1>6
    <3>4. pos[b] = pos[a]
      BY <1>5, <3>2, <3>3
    <3>5. a = b
      <4>1. pos[a] \in 1..s /\ pos[b] \in 1..s
        BY <1>7
      <4>2. ~(a < b) /\ ~(b < a)
        BY <1>7, <3>4, <4>1, SMTT(30)
      <4> QED
        BY <4>2
    <3>6. Meets(w, c, at[k])
      BY <1>2, <2>8, <3>1, <3>3, <3>5 DEF Meets
    <3> QED
      BY <1>4, <2>1, <3>6
  <2> HIDE DEF both
  <2>10. Gone(v, W, both, f)
    BY <1>1, <1>2, <2>9 DEF Gone
  <2> QED
    BY <1>1, <2>10 DEF both
<1>10. CASE ~\E c \in C : c <= h + l - 1 /\ h <= c + d - 1
  <2>1. ASSUME NEW j \in 0..(l - 1) PROVE \E k \in 1..n : at[k] = h + j /\ W[k] = U[h + j]
    <3>1. PICK b \in 1..m : b = h + j
      BY <1>6
    <3>2. ASSUME NEW c \in C PROVE ~Meets(w, c, b)
      <4>1. c \in 1..m /\ ~(c <= h + l - 1 /\ h <= c + d - 1)
        BY <1>4, <1>10
      <4> QED
        BY <1>2, <3>1, <4>1, SMTT(30) DEF Meets
    <3>3. \E k \in 1..n : at[k] = b /\ W[k] = U[b]
      BY <1>4, <3>2
    <3> QED
      BY <3>1, <3>3
  <2>2. \E k \in 1..n : at[k] = h /\ Spelled(v, src, W, k)
    <3>1. h \in 1..Len(U) /\ Thinning(U, Len(U), W, at)
      BY <1>1, <1>4
    <3>2. AllKept(U, W, at, v, h)
      BY <1>1, <1>2, <2>1 DEF AllKept
    <3>3. \E k \in 1..Len(W) : at[k] = h /\ Spelled(v, src, W, k)
      BY <1>3, <3>1, <3>2, SpelledAfter
    <3> QED
      BY <1>1, <3>3
  <2>3. PICK k \in 1..n : at[k] = h /\ Spelled(v, src, W, k)
    BY <2>2
  <2>4. both[k] = f
    BY <1>3, <2>3
  <2> HIDE DEF both
  <2>5. Still(v, src, W, both, f)
    BY <1>1, <2>3, <2>4 DEF Still
  <2>6. w # v
    <3>1. SUFFICES ASSUME w = v PROVE FALSE
      OBVIOUS
    <3>2. Spelled(w, src, U, h)
      BY <1>3, <3>1
    <3>3. PICK c \in C : Meets(w, c, h)
      BY <1>4, <3>2
    <3>4. c \in 1..m /\ c <= h /\ h <= c + d - 1
      BY <1>2, <1>4, <3>3 DEF Meets
    <3>5. c <= h + l - 1
      BY <1>2, <3>4
    <3> QED
      BY <1>10, <3>3, <3>4, <3>5
  <2> QED
    BY <1>1, <2>5, <2>6 DEF both
<1> QED
  BY <1>9, <1>10
-----------------------------------------------------------------------------
(***************************************************************************)
(* Least and greatest numbers.                                             *)
(***************************************************************************)
LEMMA LeastExists ==
  ASSUME NEW S, S \subseteq Nat, S # {}
  PROVE  \E x \in S : \A y \in S : x <= y
<1> DEFINE R == OpToRel(<, Nat)
<1>1. IsWellFoundedOn(R, Nat)
  BY NatLessThanWellFounded, Zenon
<1> HIDE DEF R
<1>2. PICK x \in S : \A y \in S : ~(<<y, x>> \in R)
  BY <1>1, WFMin, Zenon
<1>3. ASSUME NEW y \in S, y < x PROVE <<y, x>> \in R
  <2>1. y \in Nat /\ x \in Nat
    OBVIOUS
  <2> QED
    BY <1>3, <2>1 DEF R, OpToRel
<1>4. ASSUME NEW y \in S PROVE x <= y
  <2>1. ~(y < x)
    BY <1>2, <1>3
  <2>2. y \in Nat /\ x \in Nat
    OBVIOUS
  <2> QED
    BY <2>1, <2>2
<1> QED
  BY <1>4

LEMMA MinIs ==
  ASSUME NEW S, S \subseteq Nat, S # {}
  PROVE  Min(S) \in S /\ \A y \in S : Min(S) <= y
<1>1. \E x \in S : \A y \in S : x <= y
  BY LeastExists
<1>2. Min(S) = CHOOSE x \in S : \A y \in S : x <= y
  BY Zenon DEF Min
<1> QED
  BY <1>1, <1>2, Zenon

LEMMA MaxIs ==
  ASSUME NEW N \in Nat, NEW S, S \subseteq 0..N, S # {}
  PROVE  Max(S) \in S /\ \A y \in S : Max(S) >= y
<1> DEFINE B == {n \in Nat : \A y \in S : n >= y}
<1>1. N \in B
  OBVIOUS
<1>2. B \subseteq Nat /\ B # {}
  BY <1>1
<1>3. PICK x \in B : \A y \in B : x <= y
  <2> HIDE DEF B
  <2> QED
    BY <1>2, LeastExists
<1>4. x \in Nat /\ \A y \in S : x >= y
  OBVIOUS
<1>5. x \in S
  <2> SUFFICES ASSUME x \notin S PROVE FALSE
    OBVIOUS
  <2>1. x # 0
    <3>1. PICK z \in S : TRUE
      OBVIOUS
    <3>2. z \in Nat /\ z # x /\ z <= x
      BY <1>4
    <3> QED
      BY <3>2
  <2>2. x - 1 \in Nat
    BY <1>4, <2>1
  <2>3. ASSUME NEW y \in S PROVE x - 1 >= y
    <3>1. y # x /\ x >= y /\ y \in Nat
      BY <1>4
    <3> QED
      BY <1>4, <3>1
  <2>4. x - 1 \in B
    BY <2>2, <2>3
  <2>5. x <= x - 1
    BY <1>3, <2>4
  <2> QED
    BY <1>4, <2>5
<1>6. \E z \in S : \A y \in S : z >= y
  BY <1>4, <1>5
<1>7. Max(S) = CHOOSE z \in S : \A y \in S : z >= y
  BY Zenon DEF Max
<1> QED
  BY <1>6, <1>7, Zenon
-----------------------------------------------------------------------------
(***************************************************************************)
(* The values, longest first.                                              *)
(***************************************************************************)
Descending(s) == \A i, j \in 1..Len(s) : i <= j => Len(s[i]) >= Len(s[j])

\* A value inserted behind those that are as long.
LEMMA InsertedIs ==
  ASSUME NEW s \in Seq(Value), NEW v \in Value
  PROVE  /\ Inserted(s, v) \in Seq(Value)
         /\ \A w \in Value : (\E i \in 1..Len(Inserted(s, v)) : Inserted(s, v)[i] = w)
                               <=> w = v \/ \E i \in 1..Len(s) : s[i] = w
         /\ Descending(s) => Descending(Inserted(s, v))
<1>1. PICK m \in Nat, l \in Nat : m = Len(s) /\ l = Len(v)
  BY ValueIs
<1> DEFINE B == {i \in 1..m : Len(s[i]) >= l} \cup {0}
<1>2. B \subseteq 0..m /\ B # {}
  OBVIOUS
<1>3. Max(B) \in B /\ \A y \in B : Max(B) >= y
  <2> HIDE DEF B
  <2> QED
    BY <1>2, MaxIs
<1>4. PICK n \in 0..m : n = Max(B)
  BY <1>2, <1>3
<1>5. /\ n = 0 \/ Len(s[n]) >= l
      /\ \A i \in 1..m : i > n => ~(Len(s[i]) >= l)
  BY <1>3, <1>4, SMTT(30)
<1>6. Inserted(s, v) = SubSeq(s, 1, n) \o <<v>> \o SubSeq(s, n + 1, m)
  BY <1>1, <1>4, Zenon DEF Inserted
<1> HIDE DEF B
<1>7. PICK a \in Seq(Value), b \in Seq(Value) : a = SubSeq(s, 1, n) /\ b = SubSeq(s, n + 1, m)
  <2>1. SubSeq(s, 1, n) \in Seq(Value)
    BY <1>1, PartIs
  <2>2. SubSeq(s, n + 1, m) \in Seq(Value)
    <3>1. PICK k \in Nat : k = n + 1
      OBVIOUS
    <3>2. SubSeq(s, k, m) \in Seq(Value)
      BY <1>1, <3>1, PartIs
    <3> QED
      BY <3>1, <3>2
  <2> QED
    BY <2>1, <2>2
<1>8. Len(a) = n /\ \A i \in 1..n : a[i] = s[i]
  <2>1. /\ Len(SubSeq(s, 1, n)) = n - 1 + 1
        /\ \A i \in 1..(n - 1 + 1) : SubSeq(s, 1, n)[i] = s[1 + i - 1]
    BY <1>1, PartIs
  <2>2. n - 1 + 1 = n /\ \A i \in 1..n : 1 + i - 1 = i
    OBVIOUS
  <2> QED
    BY <1>7, <2>1, <2>2, Zenon
<1>9. Len(b) = m - n /\ \A i \in 1..(m - n) : b[i] = s[n + i]
  <2>0. PICK k \in Nat : k = n + 1
    OBVIOUS
  <2>1. /\ Len(SubSeq(s, k, m)) = m - k + 1
        /\ \A i \in 1..(m - k + 1) : SubSeq(s, k, m)[i] = s[k + i - 1]
    BY <1>1, <2>0, PartIs
  <2>2. m - k + 1 = m - n /\ \A i \in 1..(m - n) : k + i - 1 = n + i
    BY <2>0
  <2> QED
    BY <1>7, <2>0, <2>1, <2>2, Zenon
<1>10. PICK r \in Seq(Value) : r = a \o <<v>> \o b
  <2>1. <<v>> \in Seq(Value)
    OBVIOUS
  <2>2. a \o <<v>> \in Seq(Value)
    BY <2>1, Joining
  <2>3. (a \o <<v>>) \o b \in Seq(Value)
    BY <2>2, Joining
  <2> QED
    BY <2>3
<1>11. /\ Len(r) = m + 1 /\ (\A i \in 1..n : r[i] = s[i]) /\ r[n + 1] = v
       /\ \A i \in (n + 2)..(m + 1) : r[i] = s[i - 1]
  <2>1. <<v>> \in Seq(Value) /\ Len(<<v>>) = 1 /\ <<v>>[1] = v
    OBVIOUS
  <2>2. PICK c \in Seq(Value) : c = a \o <<v>>
    <3>1. a \o <<v>> \in Seq(Value)
      BY <2>1, Joining
    <3> QED
      BY <3>1
  <2>3. Len(c) = n + 1 /\ (\A i \in 1..n : c[i] = s[i]) /\ c[n + 1] = v
    <3>1. /\ Len(a \o <<v>>) = Len(a) + Len(<<v>>)
          /\ \A i \in 1..Len(a) : (a \o <<v>>)[i] = a[i]
          /\ \A i \in (Len(a) + 1)..(Len(a) + Len(<<v>>)) : (a \o <<v>>)[i] = <<v>>[i - Len(a)]
      BY <2>1, Joining
    <3>2. n + 1 \in (n + 1)..(n + 1) /\ n + 1 - n = 1
      OBVIOUS
    <3>3. c[n + 1] = v
      BY <1>8, <2>1, <2>2, <3>1, <3>2
    <3> QED
      BY <1>8, <2>1, <2>2, <3>1, <3>3
  <2>4. /\ Len(c \o b) = Len(c) + Len(b)
        /\ \A i \in 1..Len(c) : (c \o b)[i] = c[i]
        /\ \A i \in (Len(c) + 1)..(Len(c) + Len(b)) : (c \o b)[i] = b[i - Len(c)]
    BY Joining
  <2>5. r = c \o b
    BY <1>10, <2>2
  <2>6. Len(r) = m + 1
    BY <1>9, <2>3, <2>4, <2>5, SMTT(30)
  <2>7. ASSUME NEW i \in 1..n PROVE r[i] = s[i]
    <3>1. i \in 1..Len(c)
      BY <2>3
    <3> QED
      BY <2>3, <2>4, <2>5, <3>1
  <2>8. r[n + 1] = v
    BY <2>3, <2>4, <2>5
  <2>9. ASSUME NEW i \in (n + 2)..(m + 1) PROVE r[i] = s[i - 1]
    <3>1. PICK j \in 1..(m - n) : j = i - (n + 1)
      OBVIOUS
    <3>2. i \in (Len(c) + 1)..(Len(c) + Len(b)) /\ i - Len(c) = j /\ n + j = i - 1
      BY <1>9, <2>3, <3>1
    <3>3. r[i] = b[j]
      BY <2>4, <2>5, <3>2
    <3> QED
      BY <1>9, <3>2, <3>3
  <2> QED
    BY <2>6, <2>7, <2>8, <2>9
<1>12. r = Inserted(s, v)
  BY <1>6, <1>7, <1>10
<1>13. ASSUME NEW w \in Value
       PROVE  (\E i \in 1..Len(r) : r[i] = w) <=> w = v \/ \E i \in 1..Len(s) : s[i] = w
  <2>1. ASSUME NEW i \in 1..(m + 1), r[i] = w PROVE w = v \/ \E j \in 1..m : s[j] = w
    <3>1. CASE i \in 1..n
      <4>1. i \in 1..m /\ s[i] = w
        BY <1>11, <2>1, <3>1
      <4> QED
        BY <4>1
    <3>2. CASE i = n + 1
      BY <1>11, <2>1, <3>2
    <3>3. CASE i \in (n + 2)..(m + 1)
      <4>1. i - 1 \in 1..m /\ s[i - 1] = w
        BY <1>11, <2>1, <3>3
      <4> QED
        BY <4>1
    <3> QED
      BY <3>1, <3>2, <3>3
  <2>2. n + 1 \in 1..(m + 1) /\ r[n + 1] = v
    BY <1>11
  <2>3. ASSUME NEW j \in 1..m PROVE \E i \in 1..(m + 1) : r[i] = s[j]
    <3>1. CASE j <= n
      BY <1>11, <3>1
    <3>2. CASE j > n
      <4>1. j + 1 \in (n + 2)..(m + 1) /\ j + 1 - 1 = j
        BY <3>2
      <4>2. r[j + 1] = s[j] /\ j + 1 \in 1..(m + 1)
        BY <1>11, <4>1
      <4> QED
        BY <4>2
    <3> QED
      BY <3>1, <3>2
  <2> QED
    BY <1>1, <1>11, <2>1, <2>2, <2>3
<1>14. ASSUME Descending(s) PROVE Descending(r)
  <2>1. \A i, j \in 1..m : i <= j => Len(s[i]) >= Len(s[j])
    BY <1>1, <1>14 DEF Descending
  <2>2. \A i \in 1..m : Len(s[i]) \in Nat
    <3>1. \A i \in 1..m : s[i] \in Value
      BY <1>1
    <3> QED
      BY <3>1, ValueIs
  <2>3. \A i \in 1..n : Len(s[i]) >= l
    <3>1. ASSUME NEW i \in 1..n PROVE Len(s[i]) >= l
      <4>1. i \in 1..m /\ n \in 1..m /\ i <= n
        OBVIOUS
      <4>2. Len(s[i]) >= Len(s[n]) /\ Len(s[n]) >= l
        BY <1>5, <2>1, <4>1
      <4> QED
        BY <2>2, <4>1, <4>2, SMTT(30)
    <3> QED
      BY <3>1
  <2>4. \A i \in 1..m : i > n => l >= Len(s[i])
    BY <1>5, <2>2
  <2>5. ASSUME NEW i \in 1..(m + 1), NEW j \in 1..(m + 1), i <= j PROVE Len(r[i]) >= Len(r[j])
    <3>1. CASE i <= n /\ j <= n
      <4>1. i \in 1..m /\ j \in 1..m /\ r[i] = s[i] /\ r[j] = s[j]
        BY <1>11, <3>1
      <4> QED
        BY <2>1, <2>5, <4>1
    <3>2. CASE i <= n /\ j = n + 1
      <4>1. i \in 1..n /\ r[i] = s[i] /\ r[j] = v
        BY <1>11, <3>2
      <4> QED
        BY <1>1, <2>3, <4>1
    <3>3. CASE i <= n /\ j > n + 1
      <4>1. i \in 1..m /\ j - 1 \in 1..m /\ i <= j - 1 /\ r[i] = s[i] /\ r[j] = s[j - 1]
        BY <1>11, <3>3
      <4> QED
        BY <2>1, <4>1
    <3>4. CASE i = n + 1 /\ j = n + 1
      <4>1. r[i] = v /\ r[j] = v
        BY <1>11, <3>4
      <4> QED
        BY <1>1, <4>1
    <3>5. CASE i = n + 1 /\ j > n + 1
      <4>1. j - 1 \in 1..m /\ j - 1 > n /\ r[i] = v /\ r[j] = s[j - 1]
        BY <1>11, <3>5
      <4> QED
        BY <1>1, <2>4, <4>1
    <3>6. CASE i > n + 1 /\ j > n + 1
      <4>1. i - 1 \in 1..m /\ j - 1 \in 1..m /\ i - 1 <= j - 1 /\ r[i] = s[i - 1] /\ r[j] = s[j - 1]
        BY <1>11, <2>5, <3>6
      <4> QED
        BY <2>1, <4>1
    <3> QED
      BY <2>5, <3>1, <3>2, <3>3, <3>4, <3>5, <3>6
  <2> QED
    BY <1>11, <2>5 DEF Descending
<1> QED
  BY <1>12, <1>13, <1>14

LEMMA ByLengthRuns ==
  ASSUME NEW known \in Seq(Value)
  PROVE  \E f : /\ f[0] = <<>>
                /\ \A n \in 1..Len(known) : f[n] = Inserted(f[n - 1], known[n])
                /\ \A n \in 0..Len(known) : f[n] \in Seq(Value)
                /\ ByLength(known) = f[Len(known)]
<1>1. PICK N \in Nat : N = Len(known)
  OBVIOUS
<1> DEFINE base == <<>>
           Step(s, n) == Inserted(s, known[n])
           Rec(f) == f = [n \in 0..N |-> IF n = 0 THEN base ELSE Step(f[n - 1], n)]
<1>2. base \in Seq(Value)
  BY EmptySeq
<1>3. ASSUME NEW s \in Seq(Value), NEW n \in 1..N PROVE Step(s, n) \in Seq(Value)
  <2>1. known[n] \in Value
    BY <1>1
  <2> QED
    BY <2>1, InsertedIs
<1> HIDE DEF base, Step
<1> DEFINE g == [n \in 1..N |-> [s \in Seq(Value) |-> Step(s, n)]]
<1>4. PICK h : Course(N, Seq(Value), base, g, h)
  <2>1. g \in [1..N -> [Seq(Value) -> Seq(Value)]]
    BY <1>3
  <2> HIDE DEF g
  <2> QED
    BY <1>2, <2>1, Recursion
<1>5. \A n \in 0..N : h[n] = IF n = 0 THEN base ELSE Step(h[n - 1], n)
  <2>1. ASSUME NEW n \in 0..N, n # 0 PROVE h[n] = Step(h[n - 1], n)
    <3>1. n \in 1..N /\ n - 1 \in 0..N
      BY <2>1
    <3>2. h[n - 1] \in Seq(Value) /\ h[n] = g[n][h[n - 1]]
      BY <1>4, <3>1 DEF Course
    <3> QED
      BY <3>1, <3>2
  <2>2. h[0] = base
    BY <1>4 DEF Course
  <2> QED
    BY <2>1, <2>2
<1>6. h = [n \in 0..N |-> h[n]]
  BY <1>4 DEF Course
<1>9. Rec(h)
  BY <1>5, <1>6
<1> DEFINE f == CHOOSE k : Rec(k)
<1>10. Rec(f)
  <2> HIDE DEF Rec
  <2> QED
    BY <1>9, Zenon
<1>11. ByLength(known) = f[N]
  BY <1>1, Zenon DEF ByLength, Step, base
<1> HIDE DEF f
<1>12. f[0] = base /\ \A n \in 1..N : f[n] = Step(f[n - 1], n)
  <2>1. f[0] = base
    <3>1. 0 \in 0..N
      OBVIOUS
    <3> QED
      BY <1>10, <3>1
  <2>2. ASSUME NEW n \in 1..N PROVE f[n] = Step(f[n - 1], n)
    <3>1. n \in 0..N /\ n # 0
      OBVIOUS
    <3> QED
      BY <1>10, <3>1
  <2> QED
    BY <2>1, <2>2
<1> DEFINE A == [n \in 0..N |-> Seq(Value)]
<1>13. \A n \in 0..N : f[n] \in A[n]
  <2>1. f[0] \in A[0]
    BY <1>2, <1>12
  <2>2. ASSUME NEW n \in 1..N, f[n - 1] \in A[n - 1] PROVE f[n] \in A[n]
    BY <1>3, <1>12, <2>2
  <2> HIDE DEF A
  <2> QED
    BY <2>1, <2>2, Throughout
<1> QED
  BY <1>1, <1>11, <1>12, <1>13 DEF Step, base

\* All values, longest first.
LEMMA ByLengthIs ==
  ASSUME NEW known \in Seq(Value)
  PROVE  /\ ByLength(known) \in Seq(Value) /\ Descending(ByLength(known))
         /\ \A w \in Value : (\E i \in 1..Len(ByLength(known)) : ByLength(known)[i] = w)
                               <=> \E i \in 1..Len(known) : known[i] = w
<1>1. PICK N \in Nat : N = Len(known)
  OBVIOUS
<1>2. PICK f : /\ f[0] = <<>>
               /\ \A n \in 1..N : f[n] = Inserted(f[n - 1], known[n])
               /\ \A n \in 0..N : f[n] \in Seq(Value)
               /\ ByLength(known) = f[N]
  BY <1>1, ByLengthRuns
<1> DEFINE All(n, s) == \A w \in Value : (\E i \in 1..Len(s) : s[i] = w) <=> \E i \in 1..n : known[i] = w
           A == [n \in 0..N |-> {s \in Seq(Value) : Descending(s) /\ All(n, s)}]
<1>3. f[0] \in A[0]
  <2>1. Descending(<<>>) /\ All(0, <<>>) /\ <<>> \in Seq(Value)
    BY EmptySeq DEF Descending
  <2> HIDE DEF All
  <2>2. 0 \in 0..N
    OBVIOUS
  <2> QED
    BY <1>2, <2>1, <2>2
<1>4. ASSUME NEW n \in 1..N, f[n - 1] \in A[n - 1] PROVE f[n] \in A[n]
  <2>1. n - 1 \in 0..N /\ n \in 0..N
    OBVIOUS
  <2>2. PICK s \in Seq(Value) : s = f[n - 1]
    BY <1>2, <2>1
  <2>3. PICK v \in Value : v = known[n]
    BY <1>1
  <2>4. Descending(s) /\ All(n - 1, s)
    BY <1>4, <2>1, <2>2
  <2>5. f[n] = Inserted(s, v)
    BY <1>2, <2>2, <2>3
  <2>6. /\ Inserted(s, v) \in Seq(Value)
        /\ \A w \in Value : (\E i \in 1..Len(Inserted(s, v)) : Inserted(s, v)[i] = w)
                              <=> w = v \/ \E i \in 1..Len(s) : s[i] = w
        /\ Descending(s) => Descending(Inserted(s, v))
    BY InsertedIs
  <2>7. ASSUME NEW w \in Value
        PROVE (\E i \in 1..n : known[i] = w) <=> w = v \/ \E i \in 1..(n - 1) : known[i] = w
    <3>1. \A i \in 1..n : i = n \/ i \in 1..(n - 1)
      OBVIOUS
    <3>2. \A i \in 1..(n - 1) : i \in 1..n
      OBVIOUS
    <3>3. n \in 1..n
      OBVIOUS
    <3> QED
      BY <2>3, <3>1, <3>2, <3>3, Zenon
  <2>8. All(n, f[n])
    BY <2>4, <2>5, <2>6, <2>7, ZenonT(30)
  <2>9. f[n] \in Seq(Value) /\ Descending(f[n])
    BY <2>4, <2>5, <2>6
  <2> HIDE DEF All
  <2> QED
    BY <2>1, <2>8, <2>9
<1>5. \A n \in 0..N : f[n] \in A[n]
  <2> HIDE DEF A
  <2> QED
    BY <1>3, <1>4, Throughout
<1>6. N \in 0..N
  OBVIOUS
<1>7. f[N] \in Seq(Value) /\ Descending(f[N]) /\ All(N, f[N])
  <2> HIDE DEF All
  <2> QED
    BY <1>5, <1>6
<1>8. PICK r \in Seq(Value) : r = ByLength(known) /\ r = f[N]
  BY <1>2, <1>7
<1>9. Descending(r) /\ \A w \in Value : (\E i \in 1..Len(r) : r[i] = w) <=> \E i \in 1..N : known[i] = w
  BY <1>7, <1>8, Zenon
<1> QED
  BY <1>1, <1>8, <1>9, Zenon

\* r is the text of Redact after each value.
RedactCourse(values, known, src, T, paired, r) ==
  /\ r[0] = paired
  /\ \A n \in 1..Len(values) : r[n] = Replaced(src, r[n - 1], values[n])
  /\ \A n \in 0..Len(values) : r[n] \in Seq(Int)
  /\ Redact(known, src, T) = r[Len(values)]

LEMMA RedactRuns ==
  ASSUME NEW values \in Seq(Value), NEW known, values = ByLength(known), NEW src, NEW T,
         NEW paired \in Seq(Int), paired = KeyValues(src, RedactShapes(src, T))
  PROVE  \E r : RedactCourse(values, known, src, T, paired, r)
<1>1. PICK N \in Nat : N = Len(values)
  OBVIOUS
<1> DEFINE Step(s, n) == Replaced(src, s, values[n])
           Rec(f) == f = [n \in 0..N |-> IF n = 0 THEN paired ELSE Step(f[n - 1], n)]
<1>3. ASSUME NEW s \in Seq(Int), NEW n \in 1..N PROVE Step(s, n) \in Seq(Int)
  <2>1. values[n] \in Value
    BY <1>1
  <2> QED
    BY <2>1, ReplacedCuts
<1> HIDE DEF Step
<1> DEFINE g == [n \in 1..N |-> [s \in Seq(Int) |-> Step(s, n)]]
<1>4. PICK h : Course(N, Seq(Int), paired, g, h)
  <2>1. g \in [1..N -> [Seq(Int) -> Seq(Int)]]
    BY <1>3
  <2> HIDE DEF g
  <2> QED
    BY <2>1, Recursion
<1>5. \A n \in 0..N : h[n] = IF n = 0 THEN paired ELSE Step(h[n - 1], n)
  <2>1. ASSUME NEW n \in 0..N, n # 0 PROVE h[n] = Step(h[n - 1], n)
    <3>1. n \in 1..N /\ n - 1 \in 0..N
      BY <2>1
    <3>2. h[n - 1] \in Seq(Int) /\ h[n] = g[n][h[n - 1]]
      BY <1>4, <3>1 DEF Course
    <3> QED
      BY <3>1, <3>2
  <2>2. h[0] = paired
    BY <1>4 DEF Course
  <2> QED
    BY <2>1, <2>2
<1>6. h = [n \in 0..N |-> h[n]]
  BY <1>4 DEF Course
<1>9. Rec(h)
  BY <1>5, <1>6
<1> DEFINE f == CHOOSE k : Rec(k)
<1>10. Rec(f)
  <2> HIDE DEF Rec
  <2> QED
    BY <1>9, Zenon
<1>11. Redact(known, src, T) = f[N]
  BY <1>1, Zenon DEF Redact, Step
<1> HIDE DEF f
<1>12. f[0] = paired /\ \A n \in 1..N : f[n] = Step(f[n - 1], n)
  <2>1. f[0] = paired
    <3>1. 0 \in 0..N
      OBVIOUS
    <3> QED
      BY <1>10, <3>1
  <2>2. ASSUME NEW n \in 1..N PROVE f[n] = Step(f[n - 1], n)
    <3>1. n \in 0..N /\ n # 0
      OBVIOUS
    <3> QED
      BY <1>10, <3>1
  <2> QED
    BY <2>1, <2>2
<1> DEFINE A == [n \in 0..N |-> Seq(Int)]
<1>13. \A n \in 0..N : f[n] \in A[n]
  <2>1. f[0] \in A[0]
    BY <1>12
  <2>2. ASSUME NEW n \in 1..N, f[n - 1] \in A[n - 1] PROVE f[n] \in A[n]
    BY <1>3, <1>12, <2>2
  <2> HIDE DEF A
  <2> QED
    BY <2>1, <2>2, Throughout
<1> QED
  BY <1>1, <1>11, <1>12, <1>13 DEF Step, RedactCourse

\* What stood at f is gone, or it is still there and has yet to be replaced.
Stage(values, v, src, T, f, n, U) ==
  \E pos : /\ Thinning(T, Len(T), U, pos)
           /\ \/ Gone(v, U, pos, f)
              \/ Still(v, src, U, pos, f) /\ \A m \in 1..n : values[m] # v

LEMMA StageStep ==
  ASSUME NEW values \in Seq(Value), Descending(values), NEW K, \A i \in 1..Len(values) : values[i] \in K,
         NEW src, NEW T \in Seq(Int), NEW v \in Value, NEW f \in 1..Len(T), Clear(K, src, T, v, f),
         NEW j \in 1..Len(values), values[j] = v,
         NEW n \in 1..Len(values), NEW U \in Seq(Int), Stage(values, v, src, T, f, n - 1, U)
  PROVE  Stage(values, v, src, T, f, n, Replaced(src, U, values[n]))
<1>1. PICK w \in Value : w = values[n] /\ w \in K
  OBVIOUS
<1>2. PICK W \in Seq(Int) : W = Replaced(src, U, w) /\ Cut(w, src, U, Len(U), W)
  BY ReplacedCuts
<1>3. PICK pos : /\ Thinning(T, Len(T), U, pos)
                 /\ \/ Gone(v, U, pos, f)
                    \/ Still(v, src, U, pos, f) /\ \A m \in 1..(n - 1) : values[m] # v
  BY DEF Stage
<1>4. PICK at, C : Cutting(w, src, U, Len(U), W, at, C)
  BY <1>2 DEF Cut
<1>5. Thinning(U, Len(U), W, at)
  BY <1>4 DEF Cutting
<1> DEFINE both == [k \in 1..Len(W) |-> pos[at[k]]]
<1>6. Thinning(T, Len(T), W, both)
  BY <1>3, <1>5, ThinTwice
<1>7. Gone(v, U, pos, f) => Gone(v, W, both, f)
  BY <1>3, <1>5, StaysGone
<1>8. ASSUME Still(v, src, U, pos, f), \A m \in 1..(n - 1) : values[m] # v
      PROVE  Gone(v, W, both, f) \/ (Still(v, src, W, both, f) /\ \A m \in 1..n : values[m] # v)
  <2>1. j >= n
    BY <1>8
  <2>2. Len(v) <= Len(w)
    <3>1. Len(values[n]) >= Len(values[j])
      BY <2>1 DEF Descending
    <3>2. Len(v) \in Nat /\ Len(w) \in Nat
      BY ValueIs
    <3> QED
      BY <1>1, <3>1, <3>2
  <2>3. Gone(v, W, both, f) \/ (w # v /\ Still(v, src, W, both, f))
    <3>1. Thinning(T, Len(T), U, pos) /\ w \in K
      BY <1>1, <1>3, Zenon
    <3> QED
      BY <1>4, <1>8, <2>2, <3>1, StillOrGone, SMTT(30)
  <2>4. w # v => \A m \in 1..n : values[m] # v
    <3>1. \A m \in 1..n : m = n \/ m \in 1..(n - 1)
      OBVIOUS
    <3> QED
      BY <1>1, <1>8, <3>1, Zenon
  <2> QED
    BY <2>3, <2>4, Zenon
<1> HIDE DEF both
<1>9. Gone(v, W, both, f) \/ (Still(v, src, W, both, f) /\ \A m \in 1..n : values[m] # v)
  BY <1>3, <1>7, <1>8, Zenon
<1>10. Stage(values, v, src, T, f, n, W)
  BY <1>6, <1>9, Zenon DEF Stage
<1> QED
  BY <1>1, <1>2, <1>10

\* No two elements of a text are the same position.
Distinct(T) == \A i, j \in 1..Len(T) : T[i] = T[j] /\ T[i] > 0 => i = j

\* A value that stands free in a text is not in what is shown of it, if no shape and
\* no pair has replaced a part of it before.
LEMMA RedactHides ==
  ASSUME NEW known \in Seq(Value), NEW src, NEW T \in Seq(Int), Distinct(T),
         NEW paired \in Seq(Int), paired = KeyValues(src, RedactShapes(src, T)), Thinned(T, Len(T), paired),
         NEW h \in 1..Len(known), NEW f \in 1..Len(T), Clear(ToSet(known), src, T, known[h], f),
         \A j \in 0..(Len(known[h]) - 1) : T[f + j] > 0 /\ T[f + j] \in ToSet(paired)
  PROVE  /\ Redact(known, src, T) \in Seq(Int)
         /\ \A j \in 0..(Len(known[h]) - 1) : T[f + j] \notin ToSet(Redact(known, src, T))
<1>1. PICK values \in Seq(Value) : values = ByLength(known)
  BY ByLengthIs
<1>2. /\ Descending(values)
      /\ \A w \in Value : (\E i \in 1..Len(values) : values[i] = w) <=> \E i \in 1..Len(known) : known[i] = w
  BY <1>1, ByLengthIs, ZenonT(30)
<1>3. PICK v \in Value : v = known[h]
  OBVIOUS
<1>4. PICK K : K = ToSet(known)
  OBVIOUS
<1>5. \A i \in 1..Len(values) : values[i] \in K
  <2>1. ASSUME NEW i \in 1..Len(values) PROVE values[i] \in K
    <3>1. values[i] \in Value
      OBVIOUS
    <3>2. PICK k \in 1..Len(known) : known[k] = values[i]
      BY <1>2, <3>1, Zenon
    <3> QED
      BY <1>4, <3>2 DEF ToSet
  <2> QED
    BY <2>1
<1>6. PICK z \in 1..Len(values) : values[z] = v
  BY <1>2, <1>3, Zenon
<1>7. PICK N \in Nat, l \in Nat, t \in Nat, p \in Nat :
        N = Len(values) /\ l = Len(v) /\ t = Len(T) /\ p = Len(paired)
  BY ValueIs
<1>8. PICK r : /\ r[0] = paired
               /\ \A n \in 1..N : r[n] = Replaced(src, r[n - 1], values[n])
               /\ \A n \in 0..N : r[n] \in Seq(Int)
               /\ Redact(known, src, T) = r[N]
  <2>1. PICK r : RedactCourse(values, known, src, T, paired, r)
    BY <1>1, RedactRuns
  <2> QED
    BY <1>7, <2>1 DEF RedactCourse
<1>9. Clear(K, src, T, v, f)
  BY <1>3, <1>4
<1>10. Spelled(v, src, T, f) /\ l > 0 /\ f + l - 1 <= t /\ f \in 1..t
  BY <1>7, <1>9, ValueIs DEF Clear, Spelled
<1>11. \A j \in 0..(l - 1) : T[f + j] > 0 /\ T[f + j] \in ToSet(paired) /\ f + j \in 1..t
  <2>1. \A j \in 0..(l - 1) : f + j \in 1..t
    BY <1>10
  <2>2. l = Len(v)
    BY <1>7, Zenon
  <2> QED
    BY <1>3, <2>1, <2>2, Zenon
<1>12. Stage(values, v, src, T, f, 0, paired)
  <2>1. PICK pos : Thinning(T, Len(T), paired, pos)
    BY DEF Thinned
  <2>2. pos \in [1..p -> 1..t] /\ \A k \in 1..p : paired[k] = T[pos[k]] \/ paired[k] = Redacted
    BY <1>7, <2>1 DEF Thinning
  <2>3. ASSUME NEW j \in 0..(l - 1) PROVE \E k \in 1..p : pos[k] = f + j /\ paired[k] = T[f + j]
    <3>1. PICK x \in 1..t : x = f + j
      BY <1>11
    <3>2. T[x] > 0 /\ T[x] \in ToSet(paired)
      BY <1>11, <3>1
    <3>3. PICK k \in 1..p : paired[k] = T[x]
      BY <1>7, <3>2, SMTT(30) DEF ToSet
    <3>4. paired[k] # Redacted
      BY <3>2, <3>3 DEF Redacted
    <3>5. T[pos[k]] = T[x] /\ pos[k] \in 1..t
      BY <2>2, <3>3, <3>4
    <3>6. pos[k] = x
      BY <1>7, <3>2, <3>5 DEF Distinct
    <3> QED
      BY <3>1, <3>3, <3>6
  <2>4. AllKept(T, paired, pos, v, f)
    BY <1>7, <2>3 DEF AllKept
  <2>5. Still(v, src, paired, pos, f)
    <3>1. \E k \in 1..Len(paired) : pos[k] = f /\ Spelled(v, src, paired, k)
      BY <1>10, <2>1, <2>4, SpelledAfter
    <3> QED
      BY <3>1 DEF Still
  <2>6. \A m \in 1..0 : values[m] # v
    OBVIOUS
  <2> QED
    BY <2>1, <2>5, <2>6 DEF Stage
<1> DEFINE A == [n \in 0..N |-> {U \in Seq(Int) : Stage(values, v, src, T, f, n, U)}]
<1>13. r[0] \in A[0]
  BY <1>8, <1>12
<1>14. ASSUME NEW n \in 1..N, r[n - 1] \in A[n - 1] PROVE r[n] \in A[n]
  <2>1. n - 1 \in 0..N /\ n \in 0..N /\ n \in 1..Len(values)
    BY <1>7
  <2>2. PICK U \in Seq(Int) : U = r[n - 1]
    BY <1>8, <2>1
  <2>3. Stage(values, v, src, T, f, n - 1, U)
    BY <1>14, <2>1, <2>2
  <2>4. Stage(values, v, src, T, f, n, Replaced(src, U, values[n]))
    BY <1>2, <1>5, <1>6, <1>9, <2>1, <2>3, StageStep
  <2>5. Stage(values, v, src, T, f, n, r[n]) /\ r[n] \in Seq(Int)
    BY <1>8, <2>1, <2>2, <2>4
  <2> QED
    BY <2>1, <2>5
<1>15. \A n \in 0..N : r[n] \in A[n]
  <2> HIDE DEF A
  <2> QED
    BY <1>13, <1>14, Throughout
<1>16. N \in 0..N
  OBVIOUS
<1>17. PICK W \in Seq(Int) : W = r[N] /\ Stage(values, v, src, T, f, N, W)
  BY <1>15, <1>16
<1>18. PICK pos : Thinning(T, Len(T), W, pos) /\ Gone(v, W, pos, f)
  BY <1>6, <1>7, <1>17 DEF Stage
<1>19. PICK m \in Nat : m = Len(W)
  OBVIOUS
<1>20. /\ pos \in [1..m -> 1..t]
       /\ \A k \in 1..m : W[k] = T[pos[k]] \/ W[k] = Redacted
       /\ \A k \in 1..m : f <= pos[k] /\ pos[k] <= f + l - 1 => W[k] = Redacted
  BY <1>7, <1>18, <1>19 DEF Thinning, Gone
<1>21. ASSUME NEW j \in 0..(l - 1) PROVE T[f + j] \notin ToSet(W)
  <2> SUFFICES ASSUME T[f + j] \in ToSet(W) PROVE FALSE
    OBVIOUS
  <2>1. PICK x \in 1..t : x = f + j /\ T[x] > 0
    BY <1>11
  <2>2. PICK k \in 1..m : W[k] = T[x]
    BY <1>19, <2>1, SMTT(30) DEF ToSet
  <2>3. W[k] # Redacted
    BY <2>1, <2>2 DEF Redacted
  <2>4. T[pos[k]] = T[x] /\ pos[k] \in 1..t
    BY <1>20, <2>2, <2>3
  <2>5. pos[k] = x
    BY <1>7, <2>1, <2>4 DEF Distinct
  <2>6. f <= x /\ x <= f + l - 1
    BY <1>10, <2>1
  <2> QED
    BY <1>20, <2>3, <2>5, <2>6
<1> QED
  BY <1>3, <1>7, <1>8, <1>17, <1>21
-----------------------------------------------------------------------------
(***************************************************************************)
(* The key/value pass. A match lies behind its name, in the text.          *)
(***************************************************************************)
Matched(m, i, n) ==
  /\ m.from \in Nat /\ m.end \in Nat /\ m.next \in Nat
  /\ i < m.from /\ m.from < m.end /\ m.end <= m.next /\ m.next <= n + 1
MatchAt(m, i, n) == m = NoMatch \/ Matched(m, i, n)

\* The first index from i that has a property, or the one behind the end.
LEMMA FirstFrom ==
  ASSUME NEW n \in Nat, NEW i \in Nat, i >= 1, NEW B, B \subseteq i..n
  PROVE  /\ Min(B \cup {n + 1}) \in 1..(n + 1)
         /\ i <= n + 1 => Min(B \cup {n + 1}) >= i
<1> DEFINE D == B \cup {n + 1}
<1>1. D \subseteq Nat /\ D # {}
  OBVIOUS
<1>2. Min(D) \in D
  <2> HIDE DEF D
  <2> QED
    BY <1>1, MinIs
<1>3. PICK x \in D : x = Min(B \cup {n + 1})
  BY <1>2
<1>4. x \in i..n \/ x = n + 1
  OBVIOUS
<1> HIDE DEF D
<1>5. x \in 1..(n + 1) /\ (i <= n + 1 => x >= i)
  BY <1>4
<1> QED
  BY <1>3, <1>5

LEMMA RunEndIs ==
  ASSUME NEW S, NEW syms \in Seq(S), NEW i \in Nat, i >= 1, NEW stop
  PROVE  /\ RunEnd(syms, i, stop) \in 1..(Len(syms) + 1)
         /\ i <= Len(syms) + 1 => RunEnd(syms, i, stop) >= i
<1>1. PICK n \in Nat : n = Len(syms)
  OBVIOUS
<1> DEFINE B == {j \in i..n : syms[j] \in stop}
<1>2. B \subseteq i..n
  OBVIOUS
<1>3. RunEnd(syms, i, stop) = Min(B \cup {n + 1})
  BY <1>1, Zenon DEF RunEnd
<1> HIDE DEF B
<1>4. /\ Min(B \cup {n + 1}) \in 1..(n + 1)
      /\ i <= n + 1 => Min(B \cup {n + 1}) >= i
  BY <1>2, FirstFrom
<1> QED
  BY <1>1, <1>3, <1>4

LEMMA SkipBlanksIs ==
  ASSUME NEW S, NEW syms \in Seq(S), NEW i \in Nat, i >= 1
  PROVE  /\ SkipBlanks(syms, i) \in 1..(Len(syms) + 1)
         /\ i <= Len(syms) + 1 => SkipBlanks(syms, i) >= i
<1>1. PICK n \in Nat : n = Len(syms)
  OBVIOUS
<1> DEFINE B == {j \in i..n : syms[j] \notin Blank}
<1>2. B \subseteq i..n
  OBVIOUS
<1>3. SkipBlanks(syms, i) = Min(B \cup {n + 1})
  BY <1>1, Zenon DEF SkipBlanks
<1> HIDE DEF B
<1>4. /\ Min(B \cup {n + 1}) \in 1..(n + 1)
      /\ i <= n + 1 => Min(B \cup {n + 1}) >= i
  BY <1>2, FirstFrom
<1> QED
  BY <1>1, <1>3, <1>4

LEMMA AtIs ==
  ASSUME NEW S, NEW syms \in Seq(S), NEW i \in Int, At(syms, i) # "end"
  PROVE  i \in 1..Len(syms)
BY DEF At

LEMMA BareMatchIs ==
  ASSUME NEW S, NEW syms \in Seq(S), NEW i \in Nat, NEW from \in Nat, i < from
  PROVE  MatchAt(BareMatch(syms, from), i, Len(syms))
<1>1. PICK n \in Nat : n = Len(syms)
  OBVIOUS
<1>2. PICK stop : stop = Blank \cup Quotes \cup {";", "&", "|", ")"}
  OBVIOUS
<1>3. PICK e \in 1..(n + 1) : e = RunEnd(syms, from, stop)
  <2>1. from >= 1
    OBVIOUS
  <2> QED
    BY <1>1, <2>1, RunEndIs
<1>4. MinKeyValue \in Nat /\ MinKeyValue > 0
  BY ExecAssumed DEF ExecAssumption
<1> DEFINE next == IF At(syms, e) \in Quotes \cup {")"} THEN e + 1 ELSE e
           m == BareMatch(syms, from)
<1>5. m = IF e - from < MinKeyValue THEN NoMatch
          ELSE [from |-> from, end |-> e, quoted |-> FALSE, next |-> next]
  BY <1>2, <1>3, Zenon DEF BareMatch
<1>6. next \in Nat /\ e <= next /\ next <= n + 1
  <2>1. CASE At(syms, e) \in Quotes \cup {")"}
    <3>1. At(syms, e) # "end" /\ e \in Int
      BY <2>1 DEF Quotes
    <3>2. e \in 1..Len(syms)
      BY <3>1, AtIs
    <3> QED
      BY <1>1, <2>1, <3>2
  <2>2. CASE At(syms, e) \notin Quotes \cup {")"}
    BY <2>2
  <2> QED
    BY <2>1, <2>2
<1> HIDE DEF next, m
<1>7. CASE e - from < MinKeyValue
  BY <1>5, <1>7 DEF MatchAt, m
<1>8. CASE ~(e - from < MinKeyValue)
  <2>1. m = [from |-> from, end |-> e, quoted |-> FALSE, next |-> next]
    BY <1>5, <1>8
  <2>2. m.from = from /\ m.end = e /\ m.next = next
    BY <2>1
  <2>3. from < e
    BY <1>4, <1>8
  <2>4. Matched(m, i, n)
    BY <1>6, <2>2, <2>3 DEF Matched
  <2> QED
    BY <1>1, <2>4 DEF MatchAt, m
<1> QED
  BY <1>7, <1>8

LEMMA ValueMatchIs ==
  ASSUME NEW S, NEW syms \in Seq(S), NEW i \in Nat, NEW from \in Nat, i < from
  PROVE  MatchAt(ValueMatch(syms, from), i, Len(syms))
<1>1. PICK n \in Nat : n = Len(syms)
  OBVIOUS
<1> DEFINE quote == At(syms, from)
           close == RunEnd(syms, from + 1, {quote, "nl"})
<1>2. MinKeyValue \in Nat /\ MinKeyValue > 0
  BY ExecAssumed DEF ExecAssumption
<1>3. close \in 1..(n + 1)
  <2>1. from + 1 \in Nat /\ from + 1 >= 1
    OBVIOUS
  <2> QED
    BY <1>1, <2>1, RunEndIs
<1>4. MatchAt(BareMatch(syms, from), i, Len(syms))
  BY BareMatchIs
<1>5. MatchAt(BareMatch(syms, from + 1), i, Len(syms))
  <2>1. PICK k \in Nat : k = from + 1 /\ i < k
    OBVIOUS
  <2> QED
    BY <2>1, BareMatchIs
<1> HIDE DEF close
<1>6. CASE quote \notin Quotes
  <2>1. ValueMatch(syms, from) = BareMatch(syms, from)
    BY <1>6 DEF ValueMatch
  <2> QED
    BY <1>4, <2>1
<1>7. CASE quote \in Quotes /\ At(syms, close) = quote /\ close - from - 1 >= MinKeyValue
  <2>1. ValueMatch(syms, from) = [from |-> from + 1, end |-> close, next |-> close + 1, quoted |-> TRUE]
    BY <1>7, Zenon DEF ValueMatch, close
  <2>2. At(syms, close) # "end" /\ close \in Int
    BY <1>3, <1>7 DEF Quotes
  <2>3. close \in 1..n
    BY <1>1, <2>2, AtIs
  <2>4. i < from + 1 /\ from + 1 < close
    BY <1>2, <1>3, <1>7
  <2> DEFINE m == ValueMatch(syms, from)
  <2>5. m.from = from + 1 /\ m.end = close /\ m.next = close + 1
    BY <2>1
  <2> HIDE DEF m
  <2>6. Matched(m, i, n)
    BY <2>3, <2>4, <2>5 DEF Matched
  <2> QED
    BY <1>1, <2>6 DEF MatchAt, m
<1>8. CASE quote \in Quotes /\ ~(At(syms, close) = quote /\ close - from - 1 >= MinKeyValue)
  <2>1. ValueMatch(syms, from) = BareMatch(syms, from + 1)
    BY <1>8, Zenon DEF ValueMatch, close
  <2> QED
    BY <1>5, <2>1
<1> QED
  BY <1>6, <1>7, <1>8

LEMMA KeyValueAtIs ==
  ASSUME NEW S, NEW syms \in Seq(S), NEW i \in 1..Len(syms)
  PROVE  MatchAt(KeyValueAt(syms, i), i, Len(syms))
<1>1. PICK n \in Nat : n = Len(syms)
  OBVIOUS
<1> DEFINE start == IF At(syms, i + 1) \in Quotes THEN i + 2 ELSE i + 1
           equals == SkipBlanks(syms, start)
           from == SkipBlanks(syms, equals + 1)
<1>2. start \in Nat /\ start >= i + 1 /\ start <= n + 1
  <2>1. CASE At(syms, i + 1) \in Quotes
    <3>1. At(syms, i + 1) # "end" /\ i + 1 \in Int
      BY <2>1 DEF Quotes
    <3>2. i + 1 \in 1..n
      BY <1>1, <3>1, AtIs
    <3> QED
      BY <2>1, <3>2
  <2>2. CASE At(syms, i + 1) \notin Quotes
    BY <1>1, <2>2
  <2> QED
    BY <2>1, <2>2
<1> HIDE DEF start
<1>3. equals \in 1..(n + 1) /\ equals >= start
  <2>1. start >= 1
    BY <1>2
  <2> QED
    BY <1>1, <1>2, <2>1, SkipBlanksIs
<1> DEFINE found == /\ At(syms, i) \in KeyNames /\ At(syms, i - 1) \notin Letters
                    /\ At(syms, equals) \in {"=", ":"}
<1>4. KeyValueAt(syms, i) = IF found THEN ValueMatch(syms, from) ELSE NoMatch
  BY Zenon DEF KeyValueAt, start
<1> HIDE DEF equals, from
<1>5. CASE found
  <2>1. At(syms, equals) # "end" /\ equals \in Int
    BY <1>3, <1>5
  <2>2. equals \in 1..n
    BY <1>1, <2>1, AtIs
  <2>3. PICK k \in Nat : k = equals + 1 /\ k >= 1 /\ k <= n + 1 /\ k > i
    BY <1>2, <1>3, <2>2
  <2>4. from \in 1..(n + 1) /\ from >= k
    BY <1>1, <2>3, SkipBlanksIs DEF from
  <2>5. from \in Nat /\ i < from
    BY <2>3, <2>4
  <2>6. MatchAt(ValueMatch(syms, from), i, Len(syms))
    BY <2>5, ValueMatchIs
  <2> QED
    BY <1>4, <1>5, <2>6
<1>6. CASE ~found
  <2>1. KeyValueAt(syms, i) = NoMatch
    BY <1>4, <1>6, Zenon
  <2> QED
    BY <2>1 DEF MatchAt
<1> QED
  BY <1>5, <1>6

\* A value goes on behind where it stopped, or ends there.
LEMMA BalancedEndIs ==
  ASSUME NEW S, NEW syms \in Seq(S), NEW from \in Nat, from >= 1, NEW at \in Nat, at <= Len(syms) + 1,
         NEW stop
  PROVE  BalancedEnd(syms, from, at, stop) \in at..(Len(syms) + 1)
<1> DEFINE N == Len(syms)
           opened == Cardinality({i \in from..(at - 1) : syms[i] = "("})
<1>1. N \in Nat /\ N = Len(syms)
  OBVIOUS
<1>2. opened \in Int
  <2> DEFINE D == {i \in from..(at - 1) : syms[i] = "("}
  <2>1. D \subseteq from..(at - 1)
    OBVIOUS
  <2>2. IsFiniteSet(from..(at - 1))
    <3>1. at - 1 \in Int /\ from \in Int
      OBVIOUS
    <3> QED
      BY <3>1, FS_Interval
  <2>3. Cardinality(D) \in Nat
    <3> HIDE DEF D
    <3> QED
      BY <2>1, <2>2, FS_Subset, FS_CardinalityType
  <2> HIDE DEF D
  <2>4. Cardinality(D) \in Int
    BY <2>3
  <2> QED
    BY <2>4, Zenon DEF D, opened
<1> HIDE DEF N, opened
<1> USE <1>1
<1> DEFINE base == [end |-> at, depth |-> opened, done |-> FALSE]
           State == [end : at..(N + 1), depth : Int, done : BOOLEAN]
           Step(s, i) ==
             IF i < at \/ s.done THEN s
             ELSE IF syms[i] \in stop \/ (syms[i] = ")" /\ s.depth = 0) THEN [s EXCEPT !.done = TRUE]
             ELSE [end |-> i + 1, done |-> FALSE,
                   depth |-> s.depth + (IF syms[i] = "(" THEN 1 ELSE IF syms[i] = ")" THEN -1 ELSE 0)]
           Rec(f) == f = [n \in 0..N |-> IF n = 0 THEN base ELSE Step(f[n - 1], n)]
<1>3. base \in State
  BY <1>1, <1>2
<1>4. ASSUME NEW s \in State, NEW i \in 1..N PROVE Step(s, i) \in State
  <2>1. s.depth \in Int /\ s.done \in BOOLEAN
    OBVIOUS
  <2>2. CASE i < at \/ s.done
    <3>1. Step(s, i) = s
      BY <2>2
    <3> QED
      BY <3>1
  <2>3. CASE ~(i < at \/ s.done) /\ (syms[i] \in stop \/ (syms[i] = ")" /\ s.depth = 0))
    <3>1. Step(s, i) = [s EXCEPT !.done = TRUE]
      BY <2>3
    <3> QED
      BY <3>1
  <2>4. CASE ~(i < at \/ s.done) /\ ~(syms[i] \in stop \/ (syms[i] = ")" /\ s.depth = 0))
    <3> DEFINE more == s.depth + (IF syms[i] = "(" THEN 1 ELSE IF syms[i] = ")" THEN -1 ELSE 0)
    <3>1. Step(s, i) = [end |-> i + 1, done |-> FALSE, depth |-> more]
      BY <2>4
    <3>2. more \in Int
      BY <2>1
    <3>3. i + 1 \in at..(N + 1)
      BY <2>4
    <3> HIDE DEF more, Step
    <3> QED
      BY <3>1, <3>2, <3>3
  <2> QED
    BY <2>2, <2>3, <2>4
<1> HIDE DEF base, Step, State
<1> DEFINE g == [n \in 1..N |-> [s \in State |-> Step(s, n)]]
<1>5. PICK h : Course(N, State, base, g, h)
  <2>1. g \in [1..N -> [State -> State]]
    BY <1>4
  <2> HIDE DEF g
  <2> QED
    BY <1>3, <2>1, Recursion
<1>6. \A n \in 0..N : h[n] = IF n = 0 THEN base ELSE Step(h[n - 1], n)
  <2>1. ASSUME NEW n \in 0..N, n # 0 PROVE h[n] = Step(h[n - 1], n)
    <3>1. n \in 1..N /\ n - 1 \in 0..N
      BY <2>1
    <3>2. h[n - 1] \in State /\ h[n] = g[n][h[n - 1]]
      BY <1>5, <3>1 DEF Course
    <3> QED
      BY <3>1, <3>2
  <2>2. h[0] = base
    BY <1>5 DEF Course
  <2> QED
    BY <2>1, <2>2
<1>7. h = [n \in 0..N |-> h[n]]
  BY <1>5 DEF Course
<1>8. Rec(h)
  BY <1>6, <1>7
<1> DEFINE f == CHOOSE k : Rec(k)
<1>9. Rec(f)
  <2> HIDE DEF Rec
  <2> QED
    BY <1>8, Zenon
<1>10. BalancedEnd(syms, from, at, stop) = IF opened = 0 THEN at ELSE f[N].end
  BY Zenon DEF BalancedEnd, Step, base, N, opened
<1> HIDE DEF f
<1>11. f[0] = base /\ \A n \in 1..N : f[n] = Step(f[n - 1], n)
  <2>1. f[0] = base
    <3>1. 0 \in 0..N
      OBVIOUS
    <3> QED
      BY <1>9, <3>1
  <2>2. ASSUME NEW n \in 1..N PROVE f[n] = Step(f[n - 1], n)
    <3>1. n \in 0..N /\ n # 0
      OBVIOUS
    <3> QED
      BY <1>9, <3>1
  <2> QED
    BY <2>1, <2>2
<1> DEFINE A == [n \in 0..N |-> State]
<1>12. \A n \in 0..N : f[n] \in A[n]
  <2>1. f[0] \in A[0]
    BY <1>3, <1>11
  <2>2. ASSUME NEW n \in 1..N, f[n - 1] \in A[n - 1] PROVE f[n] \in A[n]
    BY <1>4, <1>11, <2>2
  <2> HIDE DEF A
  <2> QED
    BY <2>1, <2>2, Throughout
<1>13. f[N].end \in at..(N + 1)
  <2>1. f[N] \in State
    BY <1>12
  <2> QED
    BY <2>1 DEF State
<1> QED
  BY <1>1, <1>10, <1>13

\* What a match makes of the text: it goes on behind it, thinned.
LEMMA TakenIs ==
  ASSUME NEW S, NEW syms \in Seq(S), NEW T \in Seq(Int), Len(syms) = Len(T),
         NEW i \in 1..Len(T), NEW W \in Seq(Int), NEW m, MatchAt(m, i, Len(T))
  PROVE  /\ KeyValueTaken(T, syms, W, i, m) \in ScanState
         /\ KeyValueTaken(T, syms, W, i, m).next \in (i + 1)..(Len(T) + 1)
         /\ Thinned(T, i - 1, W) =>
              Thinned(T, KeyValueTaken(T, syms, W, i, m).next - 1, KeyValueTaken(T, syms, W, i, m).out)
<1>1. PICK N \in Nat, p \in Nat : N = Len(T) /\ p = i - 1 /\ i = p + 1
  OBVIOUS
<1> DEFINE code == ~m.quoted /\ LooksLikeCode(SubSeq(syms, m.from, m.end - 1), At(syms, m.end))
           e == IF ~m.quoted /\ At(syms, m.end) = ")"
                THEN BalancedEnd(syms, m.from, m.end, Blank \cup Quotes \cup {";", "&", "|"})
                ELSE m.end
           r == KeyValueTaken(T, syms, W, i, m)
<1>2. r = IF m = NoMatch THEN [next |-> i + 1, out |-> Append(W, T[i])]
          ELSE IF code THEN [next |-> m.next, out |-> W \o SubSeq(T, i, m.next - 1)]
          ELSE [next |-> Max({e, m.next}),
                out |-> W \o SubSeq(T, i, m.from - 1) \o <<Redacted>> \o SubSeq(T, e, m.next - 1)]
  BY Zenon DEF KeyValueTaken
<1> DEFINE Goal == r \in ScanState /\ r.next \in (i + 1)..(N + 1)
                   /\ (Thinned(T, p, W) => Thinned(T, r.next - 1, r.out))
<1> HIDE DEF r, code, e, Goal
<1>3. ASSUME m = NoMatch PROVE Goal
  <2>1. r = [next |-> i + 1, out |-> Append(W, T[i])]
    BY <1>2, <1>3
  <2>2. T[i] \in Int
    OBVIOUS
  <2>3. Append(W, T[i]) \in Seq(Int) /\ i + 1 \in Nat
    BY <2>2, AppendProperties
  <2>4. r.next = i + 1 /\ r.out = Append(W, T[i]) /\ r \in ScanState
    BY <2>1, <2>3 DEF ScanState
  <2>5. Thinned(T, p, W) => Thinned(T, i, W \o SubSeq(T, p + 1, i))
    <3>1. i \in Nat /\ p <= i /\ i <= Len(T)
      BY <1>1
    <3> QED
      BY <3>1, ThinKept
  <2>6. Append(W, T[i]) = W \o SubSeq(T, p + 1, i)
    BY <1>1, OneMore
  <2>7. r.next - 1 = i /\ r.next \in (i + 1)..(N + 1)
    BY <1>1, <2>4
  <2>8. Thinned(T, p, W) => Thinned(T, r.next - 1, r.out)
    BY <2>4, <2>5, <2>6, <2>7, Zenon
  <2> QED
    BY <2>4, <2>7, <2>8, Zenon DEF Goal
<1>4. ASSUME Matched(m, i, N) PROVE Goal
  <2>1. PICK from \in Nat, end \in Nat, next \in Nat :
          /\ from = m.from /\ end = m.end /\ next = m.next
          /\ i < from /\ from < end /\ end <= next /\ next <= N + 1
    BY <1>4 DEF Matched
  <2>2. m # NoMatch
    <3>1. NoMatch.from = 0
      BY DEF NoMatch
    <3> QED
      BY <2>1, <3>1
  <2>3. PICK q \in Nat : q = next - 1 /\ i <= q /\ q <= N
    <3>1. i < from /\ from < end /\ end <= next /\ next <= N + 1
      BY <2>1, Zenon
    <3>2. next - 1 \in Nat /\ i <= next - 1 /\ next - 1 <= N
      BY <3>1
    <3> QED
      BY <3>2, Zenon
  <2>4. CASE code
    <3>1. r = [next |-> next, out |-> W \o SubSeq(T, i, q)]
      BY <1>2, <2>1, <2>2, <2>3, <2>4, Zenon
    <3>2. SubSeq(T, i, q) \in Seq(Int)
      <4>1. i \in Nat /\ 1 <= i /\ i <= q + 1 /\ q <= Len(T)
        BY <1>1, <2>3
      <4> QED
        BY <4>1, PartIs
    <3>3. W \o SubSeq(T, i, q) \in Seq(Int)
      BY <3>2, Joining
    <3>4. r.next = next /\ r.out = W \o SubSeq(T, i, q) /\ r \in ScanState
      BY <3>1, <3>3 DEF ScanState
    <3>5. Thinned(T, p, W) => Thinned(T, q, W \o SubSeq(T, p + 1, q))
      <4>1. p <= q /\ q <= Len(T)
        BY <1>1, <2>3
      <4> QED
        BY <4>1, ThinKept
    <3>6. r.next - 1 = q /\ r.next \in (i + 1)..(N + 1)
      BY <2>1, <2>3, <3>4, SMTT(30)
    <3>7. Thinned(T, p, W) => Thinned(T, r.next - 1, r.out)
      BY <1>1, <3>4, <3>5, <3>6, Zenon
    <3> QED
      BY <3>4, <3>6, <3>7, Zenon DEF Goal
  <2>5. CASE ~code
    <3>1. e \in end..(N + 1)
      <4>1. CASE ~m.quoted /\ At(syms, m.end) = ")"
        <5>1. from >= 1 /\ end <= Len(syms) + 1
          BY <1>1, <2>1, SMTT(30)
        <5>2. BalancedEnd(syms, from, end, Blank \cup Quotes \cup {";", "&", "|"}) \in end..(Len(syms) + 1)
          BY <5>1, BalancedEndIs
        <5> QED
          BY <1>1, <2>1, <4>1, <5>2 DEF e
      <4>2. CASE ~(~m.quoted /\ At(syms, m.end) = ")")
        <5>1. e = end
          BY <2>1, <4>2, Zenon DEF e
        <5> QED
          BY <2>1, <5>1, SMTT(30)
      <4> QED
        BY <4>1, <4>2
    <3>2. PICK x \in Nat : x = e /\ from < x /\ end <= x /\ x <= N + 1
      BY <2>1, <3>1, SMTT(30)
    <3>14. from - 1 \in Nat /\ x - 1 \in Nat /\ p <= from - 1 /\ from - 1 < x - 1 /\ x - 1 <= N /\ i <= from - 1 + 1
      <4>1. i < from
        BY <2>1
      <4>2. from < x /\ x <= N + 1
        BY <3>2
      <4>3. p \in Nat /\ i = p + 1
        BY <1>1
      <4> QED
        BY <4>1, <4>2, <4>3
    <3>3. PICK b \in Nat, c \in Nat : b = from - 1 /\ c = x - 1 /\ b < c /\ c <= N /\ p <= b /\ b <= N /\ i <= b + 1
      BY <3>14
    <3>4. r = [next |-> Max({x, next}),
               out |-> W \o SubSeq(T, i, b) \o <<Redacted>> \o SubSeq(T, x, q)]
      BY <1>2, <2>1, <2>2, <2>3, <2>5, <3>2, <3>3, Zenon
    <3>5. PICK z \in Nat : z = Max({x, next}) /\ x <= z /\ next <= z /\ (z = x \/ z = next)
      <4>1. {x, next} \subseteq 0..(N + 1) /\ {x, next} # {} /\ N + 1 \in Nat
        BY <2>1, <3>2
      <4>2. Max({x, next}) \in {x, next} /\ \A y \in {x, next} : Max({x, next}) >= y
        BY <4>1, MaxIs
      <4> QED
        BY <4>2
    <3>6. PICK t1 \in Seq(Int) : t1 = W \o SubSeq(T, i, b)
      <4>1. i \in Nat /\ 1 <= i /\ b <= Len(T)
        BY <1>1, <3>3
      <4>2. SubSeq(T, i, b) \in Seq(Int)
        BY <3>3, <4>1, PartIs
      <4>3. W \o SubSeq(T, i, b) \in Seq(Int)
        BY <4>2, Joining
      <4> QED
        BY <4>3
    <3>7. PICK t2 \in Seq(Int) : t2 = t1 \o <<Redacted>> /\ t2 = Append(t1, Redacted)
      <4>1. Redacted \in Int
        BY DEF Redacted
      <4>2. Append(t1, Redacted) \in Seq(Int) /\ Append(t1, Redacted) = t1 \o <<Redacted>>
        BY <4>1, AppendProperties, AppendIsConcat
      <4> QED
        BY <4>2
    <3>8. Thinned(T, p, W) => Thinned(T, c, t2)
      <4>1. ASSUME Thinned(T, p, W) PROVE Thinned(T, c, t2)
        <5>1. Thinned(T, b, W \o SubSeq(T, p + 1, b))
          <6>1. b <= Len(T)
            BY <1>1, <3>3
          <6> QED
            BY <3>3, <4>1, <6>1, ThinKept
        <5>2. Thinned(T, b, t1)
          BY <1>1, <3>6, <5>1
        <5>3. Thinned(T, c, Append(t1, Redacted))
          BY <3>3, <5>2, ThinReplaced, SMTT(30)
        <5> QED
          BY <3>7, <5>3
      <4> QED
        BY <4>1
    <3>9. r.next = z /\ r.out = t2 \o SubSeq(T, x, q)
      BY <3>4, <3>5, <3>6, <3>7
    <3>10. r = [next |-> r.next, out |-> r.out]
      BY <3>4
    <3>11. CASE x < next
      <4>1. z = next /\ 1 <= x /\ x <= q + 1 /\ q <= Len(T) /\ c <= q
        BY <1>1, <2>3, <3>2, <3>3, <3>5, <3>11
      <4>2. SubSeq(T, x, q) \in Seq(Int)
        BY <4>1, PartIs
      <4>3. t2 \o SubSeq(T, x, q) \in Seq(Int)
        BY <4>2, Joining
      <4>4. Thinned(T, c, t2) => Thinned(T, q, t2 \o SubSeq(T, c + 1, q))
        BY <4>1, ThinKept
      <4>5. c + 1 = x
        BY <3>2, <3>3
      <4>6. r \in ScanState
        BY <3>9, <3>10, <4>3 DEF ScanState
      <4>7. r.next - 1 = q /\ r.next \in (i + 1)..(N + 1)
        <5>3. q = next - 1 /\ i <= q /\ q <= N
          BY <2>3, Zenon
        <5>1. next - 1 = q /\ next \in (i + 1)..(N + 1)
          BY <5>3
        <5>2. r.next = next
          BY <3>9, <4>1, Zenon
        <5> QED
          BY <5>1, <5>2, Zenon
      <4>8. Thinned(T, p, W) => Thinned(T, r.next - 1, r.out)
        BY <3>8, <3>9, <4>4, <4>5, <4>7, Zenon
      <4> QED
        BY <4>6, <4>7, <4>8, Zenon DEF Goal
    <3>12. CASE ~(x < next)
      <4>1. z = x /\ q < x /\ x \in Int /\ q \in Int
        BY <2>3, <3>2, <3>5, <3>12
      <4>2. SubSeq(T, x, q) = <<>>
        BY <4>1, SubSeqEmpty
      <4>3. t2 \o <<>> = t2
        BY ConcatEmptySeq
      <4>4. r.out = t2 /\ r.next = x
        BY <3>9, <4>1, <4>2, <4>3
      <4>5. r \in ScanState
        BY <3>10, <4>4 DEF ScanState
      <4>6. r.next - 1 = c /\ r.next \in (i + 1)..(N + 1)
        <5>1. i < from /\ from < x /\ x <= N + 1 /\ c = x - 1
          BY <2>1, <3>2, <3>3, Zenon
        <5>2. x - 1 = c /\ x \in (i + 1)..(N + 1)
          BY <5>1
        <5> QED
          BY <4>4, <5>2, Zenon
      <4>7. Thinned(T, p, W) => Thinned(T, r.next - 1, r.out)
        BY <3>8, <4>4, <4>6, Zenon
      <4> QED
        BY <4>5, <4>6, <4>7, Zenon DEF Goal
    <3> QED
      BY <3>11, <3>12
  <2> QED
    BY <2>4, <2>5
<1>5. m = NoMatch \/ Matched(m, i, N)
  BY <1>1 DEF MatchAt
<1>6. Goal
  BY <1>3, <1>4, <1>5
<1> QED
  BY <1>1, <1>6, Zenon DEF r, Goal
-----------------------------------------------------------------------------
(***************************************************************************)
(* The shapes and the key/value pairs.                                     *)
(***************************************************************************)

\* The scan of the key/value pattern.
LEMMA KeyValuesRuns ==
  ASSUME NEW src, NEW T \in Seq(Int)
  PROVE  \E f : /\ f[0] = [next |-> 1, out |-> <<>>]
                /\ \A n \in 1..Len(T) :
                     f[n] = IF n < f[n - 1].next THEN f[n - 1]
                            ELSE KeyValueTaken(T, Syms(src, T), f[n - 1].out, n, KeyValueAt(Syms(src, T), n))
                /\ KeyValues(src, T) = f[Len(T)].out
<1> DEFINE N == Len(T)
           base == [next |-> 1, out |-> <<>>]
           Step(s, n) ==
             IF n < s.next THEN s ELSE KeyValueTaken(T, Syms(src, T), s.out, n, KeyValueAt(Syms(src, T), n))
           Rec(f) == f = [n \in 0..N |-> IF n = 0 THEN base ELSE Step(f[n - 1], n)]
<1>1. N \in Nat
  OBVIOUS
<1>2. base \in ScanState
  BY EmptySeq DEF ScanState
<1>3. ASSUME NEW s \in ScanState, NEW n \in 1..N PROVE Step(s, n) \in ScanState
  <2>1. s.next \in Nat /\ s.out \in Seq(Int) /\ n \in 1..Len(T)
    BY DEF ScanState
  <2>2. PICK S : Syms(src, T) \in Seq(S) /\ Len(Syms(src, T)) = Len(T)
    BY SymsIs
  <2>3. MatchAt(KeyValueAt(Syms(src, T), n), n, Len(T))
    BY <2>1, <2>2, KeyValueAtIs
  <2>4. KeyValueTaken(T, Syms(src, T), s.out, n, KeyValueAt(Syms(src, T), n)) \in ScanState
    BY <2>1, <2>2, <2>3, TakenIs
  <2> QED
    BY <2>4, Zenon
<1> HIDE DEF N, base, Step
<1> USE <1>1
<1> DEFINE g == [n \in 1..N |-> [s \in ScanState |-> Step(s, n)]]
<1>4. PICK h : Course(N, ScanState, base, g, h)
  <2>1. g \in [1..N -> [ScanState -> ScanState]]
    BY <1>3
  <2> HIDE DEF g
  <2> QED
    BY <1>2, <2>1, Recursion
<1>5. \A n \in 0..N : h[n] = IF n = 0 THEN base ELSE Step(h[n - 1], n)
  <2>1. ASSUME NEW n \in 0..N, n # 0 PROVE h[n] = Step(h[n - 1], n)
    <3>1. n \in 1..N /\ n - 1 \in 0..N
      BY <2>1
    <3>2. h[n - 1] \in ScanState /\ h[n] = g[n][h[n - 1]]
      BY <1>4, <3>1 DEF Course
    <3> QED
      BY <3>1, <3>2
  <2>2. h[0] = base
    BY <1>4 DEF Course
  <2> QED
    BY <2>1, <2>2
<1>6. h = [n \in 0..N |-> h[n]]
  BY <1>4 DEF Course
<1>7. Rec(h)
  BY <1>5, <1>6
<1> DEFINE f == CHOOSE k : Rec(k)
<1>8. Rec(f)
  <2> HIDE DEF Rec
  <2> QED
    BY <1>7, Zenon
<1>9. KeyValues(src, T) = f[N].out
  BY Zenon DEF KeyValues, Step, base, N
<1> HIDE DEF f
<1>10. f[0] = base
  <2>1. 0 \in 0..N
    OBVIOUS
  <2> QED
    BY <1>8, <2>1
<1>11. \A n \in 1..N : f[n] = Step(f[n - 1], n)
  <2>1. ASSUME NEW n \in 1..N PROVE f[n] = Step(f[n - 1], n)
    <3>1. n \in 0..N /\ n # 0
      OBVIOUS
    <3> QED
      BY <1>8, <3>1
  <2> QED
    BY <2>1
<1> QED
  BY <1>9, <1>10, <1>11, Zenon DEF Step, base, N

\* A state of the scan behind the first n elements.
Pairing(T, n) ==
  {s \in ScanState : n < s.next /\ s.next <= Len(T) + 1 /\ Thinned(T, s.next - 1, s.out)}

LEMMA PairingStep ==
  ASSUME NEW src, NEW T \in Seq(Int), NEW n \in 1..Len(T), NEW s \in Pairing(T, n - 1)
  PROVE  (IF n < s.next THEN s
          ELSE KeyValueTaken(T, Syms(src, T), s.out, n, KeyValueAt(Syms(src, T), n))) \in Pairing(T, n)
<1>1. PICK N \in Nat, next \in Nat, W \in Seq(Int) :
        /\ N = Len(T) /\ next = s.next /\ W = s.out /\ s \in ScanState
        /\ n - 1 < next /\ next <= N + 1 /\ Thinned(T, next - 1, W)
  BY DEF Pairing, ScanState
<1>2. CASE n < next
  BY <1>1, <1>2 DEF Pairing
<1>3. CASE ~(n < next)
  <2>1. next = n
    BY <1>1, <1>3
  <2>2. PICK S : Syms(src, T) \in Seq(S) /\ Len(Syms(src, T)) = Len(T)
    BY SymsIs
  <2>3. MatchAt(KeyValueAt(Syms(src, T), n), n, Len(T))
    BY <2>2, KeyValueAtIs
  <2> DEFINE r == KeyValueTaken(T, Syms(src, T), W, n, KeyValueAt(Syms(src, T), n))
  <2>4. /\ r \in ScanState /\ r.next \in (n + 1)..(Len(T) + 1)
        /\ Thinned(T, n - 1, W) => Thinned(T, r.next - 1, r.out)
    BY <2>2, <2>3, TakenIs
  <2> HIDE DEF r
  <2>5. Thinned(T, r.next - 1, r.out)
    BY <1>1, <2>1, <2>4, Zenon
  <2>6. n < r.next /\ r.next <= Len(T) + 1
    BY <2>4
  <2>7. r \in Pairing(T, n)
    BY <2>4, <2>5, <2>6 DEF Pairing
  <2> QED
    BY <1>1, <1>3, <2>7, Zenon DEF r
<1> QED
  BY <1>2, <1>3

\* What the key/value pattern leaves is a thinned text.
LEMMA KeyValuesThin ==
  ASSUME NEW src, NEW T \in Seq(Int)
  PROVE  KeyValues(src, T) \in Seq(Int) /\ Thinned(T, Len(T), KeyValues(src, T))
<1>1. PICK f : /\ f[0] = [next |-> 1, out |-> <<>>]
               /\ \A n \in 1..Len(T) :
                    f[n] = IF n < f[n - 1].next THEN f[n - 1]
                           ELSE KeyValueTaken(T, Syms(src, T), f[n - 1].out, n, KeyValueAt(Syms(src, T), n))
               /\ KeyValues(src, T) = f[Len(T)].out
  BY KeyValuesRuns
<1>2. PICK N \in Nat : N = Len(T)
  OBVIOUS
<1> DEFINE A == [n \in 0..N |-> Pairing(T, n)]
<1>3. f[0] \in A[0]
  <2>1. f[0] \in ScanState /\ f[0].next = 1 /\ f[0].out = <<>>
    BY <1>1, EmptySeq DEF ScanState
  <2>2. Thinned(T, 0, <<>>)
    BY ThinEmpty
  <2>3. Thinned(T, f[0].next - 1, f[0].out)
    <3>1. f[0].next - 1 = 0
      BY <2>1
    <3> QED
      BY <2>1, <2>2, <3>1, Zenon
  <2>4. 0 < f[0].next /\ f[0].next <= Len(T) + 1
    BY <1>2, <2>1
  <2>5. f[0] \in Pairing(T, 0)
    BY <2>1, <2>3, <2>4 DEF Pairing
  <2> QED
    BY <2>5
<1>4. ASSUME NEW n \in 1..N, f[n - 1] \in A[n - 1] PROVE f[n] \in A[n]
  <2>1. n \in 1..Len(T) /\ n - 1 \in 0..N /\ n \in 0..N
    BY <1>2
  <2>2. f[n - 1] \in Pairing(T, n - 1)
    BY <1>4, <2>1
  <2>3. f[n] = IF n < f[n - 1].next THEN f[n - 1]
               ELSE KeyValueTaken(T, Syms(src, T), f[n - 1].out, n, KeyValueAt(Syms(src, T), n))
    BY <1>1, <2>1, Zenon
  <2>4. f[n] \in Pairing(T, n)
    BY <2>1, <2>2, <2>3, PairingStep
  <2> QED
    BY <2>1, <2>4
<1>5. f[N] \in Pairing(T, N)
  <2> HIDE DEF A
  <2>1. \A n \in 0..N : f[n] \in A[n]
    BY <1>3, <1>4, Throughout
  <2>2. N \in 0..N
    BY <1>2
  <2> QED
    BY <2>1, <2>2 DEF A
<1>6. f[N].out \in Seq(Int) /\ Thinned(T, f[N].next - 1, f[N].out) /\ f[N].next - 1 = N
  BY <1>2, <1>5 DEF Pairing, ScanState
<1> QED
  BY <1>1, <1>2, <1>6, Zenon

\* What the shapes and the key/value pairs leave.
LEMMA ShapesThin ==
  ASSUME NEW src, NEW T \in Seq(Int)
  PROVE  /\ KeyValues(src, RedactShapes(src, T)) \in Seq(Int)
         /\ Thinned(T, Len(T), KeyValues(src, RedactShapes(src, T)))
<1> DEFINE U == RedactShapes(src, T)
           W == KeyValues(src, U)
<1>1. /\ U \in Seq(Int) /\ Len(U) = Len(T)
      /\ \A i \in 1..Len(T) : U[i] = T[i] \/ U[i] = Redacted
  <2>1. PICK N \in Nat : N = Len(T)
    OBVIOUS
  <2>2. Redacted \in Int /\ \A i \in 1..N : T[i] \in Int
    BY <2>1 DEF Redacted
  <2>3. U = [i \in 1..N |-> IF Sym(src, T[i]) \in Shapes THEN Redacted ELSE T[i]]
    BY <2>1, Zenon DEF RedactShapes
  <2> HIDE DEF U
  <2>4. U \in [1..N -> Int]
    BY <2>2, <2>3
  <2>5. U \in Seq(Int) /\ Len(U) = N
    BY <2>4, SeqDef
  <2>6. \A i \in 1..N : U[i] = T[i] \/ U[i] = Redacted
    BY <2>3
  <2> QED
    BY <2>1, <2>5, <2>6
<1> HIDE DEF U
<1>2. PICK pos : Thinning(T, Len(T), U, pos)
  BY <1>1, ThinSame DEF Thinned
<1>3. W \in Seq(Int) /\ Thinned(U, Len(U), W)
  BY <1>1, KeyValuesThin
<1> HIDE DEF W
<1>4. PICK at : Thinning(U, Len(U), W, at)
  BY <1>3 DEF Thinned
<1>5. Thinning(T, Len(T), W, [k \in 1..Len(W) |-> pos[at[k]]])
  BY <1>1, <1>2, <1>3, <1>4, ThinTwice
<1>6. Thinned(T, Len(T), W)
  BY <1>5, Zenon DEF Thinned
<1> QED
  BY <1>3, <1>6 DEF W, U
-----------------------------------------------------------------------------
(***************************************************************************)
(* What Hidden asks for.                                                   *)
(***************************************************************************)
LEMMA ToSetIs ==
  ASSUME NEW S, NEW s \in Seq(S)
  PROVE  \A x : x \in ToSet(s) <=> \E i \in 1..Len(s) : s[i] = x
<1>1. DOMAIN s = 1..Len(s)
  OBVIOUS
<1>2. ToSet(s) = {s[i] : i \in DOMAIN s}
  BY Zenon DEF ToSet
<1> QED
  BY <1>1, <1>2

\* Where a value stands.
Place(i, l) == [from |-> i, to |-> i + l - 1]

StandsThere(v, src, T, o) == \E i \in 1..Len(T) : Spelled(v, src, T, i) /\ o = Place(i, Len(v))

LEMMA OccurrenceIs ==
  ASSUME NEW src, NEW T \in Seq(Int), NEW v \in Value, NEW o
  PROVE  o \in OccurrencesOf(v, src, T) <=> StandsThere(v, src, T, o)
<1>1. PICK n \in Nat, l \in Nat : n = Len(T) /\ l = Len(v) /\ l > 0
  BY ValueIs
<1> DEFINE B == {j \in 1..(n - l + 1) : SubSeq(Syms(src, T), j, j + l - 1) = v}
<1>2. OccurrencesOf(v, src, T) = {Place(i, l) : i \in B}
  BY <1>1, Zenon DEF OccurrencesOf, Place
<1>3. \A i \in 1..n : i \in B <=> Spelled(v, src, T, i)
  <2>1. ASSUME NEW i \in 1..n PROVE i \in B <=> Spelled(v, src, T, i)
    <3>1. Stands(v, src, T, i) <=> Spelled(v, src, T, i)
      BY <1>1, StandsAt
    <3>2. Stands(v, src, T, i) <=> (i + l - 1 <= n /\ SubSeq(Syms(src, T), i, i + l - 1) = v)
      <4>1. i + Len(v) - 1 = i + l - 1
        BY <1>1
      <4> QED
        BY <1>1, <4>1, Zenon DEF Stands
    <3>3. i + l - 1 <= n <=> i \in 1..(n - l + 1)
      BY <1>1
    <3> QED
      BY <3>1, <3>2, <3>3
  <2> QED
    BY <2>1
<1>4. B \subseteq 1..n
  BY <1>1
<1> HIDE DEF B
<1>5. (\E i \in B : o = Place(i, l)) <=> \E i \in 1..n : Spelled(v, src, T, i) /\ o = Place(i, l)
  BY <1>3, <1>4, Zenon
<1> QED
  BY <1>1, <1>2, <1>5 DEF StandsThere

LEMMA RedactTyped ==
  ASSUME NEW known \in Seq(Value), NEW src, NEW T \in Seq(Int)
  PROVE  Redact(known, src, T) \in Seq(Int)
<1>1. PICK values \in Seq(Value) : values = ByLength(known)
  <2>1. ByLength(known) \in Seq(Value)
    BY ByLengthIs
  <2> QED
    BY <2>1
<1>2. PICK paired \in Seq(Int) : paired = KeyValues(src, RedactShapes(src, T))
  <2>1. KeyValues(src, RedactShapes(src, T)) \in Seq(Int)
    BY ShapesThin
  <2> QED
    BY <2>1
<1>3. PICK r : RedactCourse(values, known, src, T, paired, r)
  BY <1>1, <1>2, RedactRuns
<1>4. Len(values) \in 0..Len(values)
  OBVIOUS
<1> QED
  BY <1>3, <1>4 DEF RedactCourse

\* Nothing but what is redacted is shown.
Shows(shown, redacted) == \A x \in ToSet(shown) : x > 0 => x \in ToSet(redacted)

LEMMA HidesIn ==
  ASSUME NEW known \in Seq(Value), NEW src, NEW T \in Seq(Int), Distinct(T),
         NEW shown, Shows(shown, Redact(known, src, T))
  PROVE  HiddenIn(known, src, T, shown)
<1>1. PICK paired \in Seq(Int) : paired = KeyValues(src, RedactShapes(src, T)) /\ Thinned(T, Len(T), paired)
  <2>1. /\ KeyValues(src, RedactShapes(src, T)) \in Seq(Int)
        /\ Thinned(T, Len(T), KeyValues(src, RedactShapes(src, T)))
    BY ShapesThin
  <2> QED
    BY <2>1
<1> DEFINE all == AllOccurrences(known, src, T)
           places(o) == {T[i] : i \in o.from..o.to}
<1>2. ASSUME NEW o \in all, \A q \in all : Nested(o, q),
             \A x \in places(o) : x > 0 /\ (x \in ToSet(T) => x \in ToSet(paired)),
             NEW y \in places(o) \cap ToSet(shown)
      PROVE  FALSE
  <2>1. PICK v \in ToSet(known) : o \in OccurrencesOf(v, src, T)
    BY <1>2 DEF AllOccurrences
  <2>2. PICK h \in 1..Len(known) : known[h] = v
    BY ToSetIs
  <2>3. v \in Value
    BY <2>2
  <2>4. PICK f \in 1..Len(T) : Spelled(v, src, T, f) /\ o = Place(f, Len(v))
    BY <2>1, <2>3, OccurrenceIs DEF StandsThere
  <2>5. PICK l \in Nat, n \in Nat : l = Len(v) /\ n = Len(T) /\ l > 0 /\ f + l - 1 <= n
    BY <2>3, <2>4, ValueIs DEF Spelled
  <2>6. o.from = f /\ o.to = f + l - 1
    BY <2>4, <2>5 DEF Place
  <2>7. Clear(ToSet(known), src, T, v, f)
    <3>1. ASSUME NEW w \in ToSet(known), NEW i \in 1..Len(T), Spelled(w, src, T, i)
          PROVE  Apart(f, Len(v), i, Len(w))
      <4>1. w \in Value
        <5>1. PICK m \in 1..Len(known) : known[m] = w
          BY ToSetIs
        <5> QED
          BY <5>1
      <4>2. Place(i, Len(w)) \in OccurrencesOf(w, src, T)
        <5>1. StandsThere(w, src, T, Place(i, Len(w)))
          BY <3>1, Zenon DEF StandsThere
        <5> QED
          BY <4>1, <5>1, OccurrenceIs
      <4>3. Place(i, Len(w)) \in all
        BY <4>2 DEF AllOccurrences
      <4>4. Nested(o, Place(i, Len(w)))
        BY <1>2, <4>3
      <4>5. Place(i, Len(w)).from = i /\ Place(i, Len(w)).to = i + Len(w) - 1
        BY DEF Place
      <4> QED
        BY <2>5, <2>6, <4>4, <4>5, Zenon DEF Nested, Apart
    <3> QED
      BY <2>4, <3>1 DEF Clear
  <2>8. ASSUME NEW j \in 0..(l - 1) PROVE T[f + j] > 0 /\ T[f + j] \in ToSet(paired)
    <3>1. f + j \in o.from..o.to /\ f + j \in 1..Len(T)
      <4>1. f + j \in f..(f + l - 1)
        BY <2>5
      <4>2. f + j \in 1..Len(T)
        BY <2>5, <4>1
      <4> QED
        BY <2>6, <4>1, <4>2, Zenon
    <3>2. T[f + j] \in places(o) /\ T[f + j] \in ToSet(T)
      BY <3>1, ToSetIs
    <3> QED
      BY <1>2, <3>2
  <2>9. \A j \in 0..(l - 1) : T[f + j] \notin ToSet(Redact(known, src, T))
    <3>1. Clear(ToSet(known), src, T, known[h], f)
      BY <2>2, <2>7
    <3>2. \A j \in 0..(Len(known[h]) - 1) : T[f + j] > 0 /\ T[f + j] \in ToSet(paired)
      BY <2>2, <2>5, <2>8
    <3>3. \A j \in 0..(Len(known[h]) - 1) : T[f + j] \notin ToSet(Redact(known, src, T))
      BY <1>1, <3>1, <3>2, RedactHides
    <3> QED
      BY <2>2, <2>5, <3>3
  <2>10. PICK k \in o.from..o.to : y = T[k]
    BY <1>2
  <2>11. k - f \in 0..(l - 1) /\ f + (k - f) = k
    BY <2>5, <2>6, <2>10
  <2>12. y \notin ToSet(Redact(known, src, T))
    BY <2>9, <2>10, <2>11
  <2>13. y > 0
    BY <1>2
  <2> QED
    BY <1>2, <2>12, <2>13 DEF Shows
<1> HIDE DEF all
<1> QED
  BY <1>1, <1>2, Zenon DEF HiddenIn, Hidden, all
-----------------------------------------------------------------------------
(***************************************************************************)
(* What is learned is never empty.                                         *)
(***************************************************************************)
LEMMA ValueAtIs ==
  ASSUME NEW syms \in Seq(Symbols), NEW i \in Assignments(syms)
  PROVE  ValueAt(syms, i).value \in Seq(Symbols) /\ ValueAt(syms, i).next \in Nat
<1>1. PICK n \in Nat, from \in Nat : n = Len(syms) /\ from = i + 2 /\ 1 <= from /\ from <= n
  <2>1. i \in 1..(Len(syms) - 2) /\ Len(syms) \in Nat
    BY DEF Assignments
  <2>2. i + 2 \in Nat /\ 1 <= i + 2 /\ i + 2 <= Len(syms)
    BY <2>1
  <2> QED
    BY <2>1, <2>2
<1> DEFINE closing == {j \in (from + 1)..n : syms[j] = syms[from]}
           run == RunEnd(syms, from, WordEnds \cup {")"})
           bare == BalancedEnd(syms, from, run, WordEnds)
<1>2. ValueAt(syms, i) =
        IF syms[from] \in Quotes /\ closing # {}
        THEN [value |-> SubSeq(syms, from + 1, Min(closing) - 1), next |-> Min(closing) + 1]
        ELSE [value |-> SubSeq(syms, from, bare - 1), next |-> bare]
  BY <1>1, Zenon DEF ValueAt
<1>3. CASE syms[from] \in Quotes /\ closing # {}
  <2>1. closing \subseteq Nat
    BY <1>1
  <2>2. Min(closing) \in closing
    <3> HIDE DEF closing
    <3> QED
      BY <1>3, <2>1, MinIs
  <2>3. PICK m \in Nat, p \in Nat : m = Min(closing) /\ p = m - 1 /\ from + 1 <= p + 1 /\ p <= n
    <3>1. Min(closing) \in (from + 1)..n
      BY <2>2
    <3>2. Min(closing) \in Nat /\ Min(closing) - 1 \in Nat /\ from + 1 <= Min(closing) - 1 + 1 /\ Min(closing) - 1 <= n
      <4> HIDE DEF closing
      <4> QED
        BY <1>1, <3>1
    <3> QED
      BY <3>2, Zenon
  <2>4. SubSeq(syms, from + 1, p) \in Seq(Symbols)
    <3>1. from + 1 \in Nat /\ 1 <= from + 1 /\ from + 1 <= p + 1 /\ p <= Len(syms)
      BY <1>1, <2>3
    <3> QED
      BY <3>1, PartIs
  <2>5. ValueAt(syms, i) = [value |-> SubSeq(syms, from + 1, p), next |-> m + 1]
    BY <1>2, <1>3, <2>3, Zenon
  <2>6. m + 1 \in Nat
    OBVIOUS
  <2> QED
    BY <2>4, <2>5, <2>6
<1>4. CASE ~(syms[from] \in Quotes /\ closing # {})
  <2>1. run \in from..(n + 1)
    BY <1>1, RunEndIs
  <2>2. run \in Nat /\ run <= Len(syms) + 1 /\ from <= run
    <3> HIDE DEF run
    <3> QED
      BY <1>1, <2>1
  <2>3. bare \in run..(Len(syms) + 1)
    <3> HIDE DEF run
    <3> QED
      BY <1>1, <2>2, BalancedEndIs
  <2>4. PICK b \in Nat, p \in Nat : b = bare /\ p = b - 1 /\ from <= p + 1 /\ p <= n
    <3>1. bare \in Nat /\ bare - 1 \in Nat /\ from <= bare - 1 + 1 /\ bare - 1 <= n
      <4> HIDE DEF bare, run
      <4> QED
        BY <1>1, <2>2, <2>3
    <3> QED
      BY <3>1, Zenon
  <2>5. SubSeq(syms, from, p) \in Seq(Symbols)
    BY <1>1, <2>4, PartIs
  <2>6. ValueAt(syms, i) = [value |-> SubSeq(syms, from, p), next |-> b]
    BY <1>2, <1>4, <2>4, Zenon
  <2> QED
    BY <2>5, <2>6
<1> QED
  BY <1>3, <1>4

LEMMA AddLiteralIs ==
  ASSUME NEW known \in Seq(Value), NEW name, NEW v \in Seq(Symbols)
  PROVE  AddLiteral(known, name, v) \in Seq(Value)
<1>1. CASE name \in SecretNames /\ Len(v) >= MinLearned /\ v \notin ToSet(known)
  <2>1. MinLearned \in Nat \ {0} /\ Len(v) \in Nat
    BY ExecAssumed DEF ExecAssumption
  <2>2. Len(v) > 0
    BY <1>1, <2>1
  <2>3. v \in Value
    BY <2>2 DEF Value
  <2>4. Append(known, v) \in Seq(Value)
    BY <2>3, AppendProperties
  <2> QED
    BY <1>1, <2>4, Zenon DEF AddLiteral
<1>2. CASE ~(name \in SecretNames /\ Len(v) >= MinLearned /\ v \notin ToSet(known))
  BY <1>2, Zenon DEF AddLiteral
<1> QED
  BY <1>1, <1>2

LearnState == [literals : Seq(Value), next : Nat]

LEMMA LearnedIs ==
  ASSUME NEW syms \in Seq(Symbols), NEW s \in LearnState, NEW i
  PROVE  Learned(syms, s, i) \in LearnState
<1>1. CASE i < s.next \/ i \notin Assignments(syms)
  BY <1>1, Zenon DEF Learned
<1>2. CASE ~(i < s.next \/ i \notin Assignments(syms))
  <2>1. ValueAt(syms, i).value \in Seq(Symbols) /\ ValueAt(syms, i).next \in Nat
    BY <1>2, ValueAtIs
  <2>2. s.literals \in Seq(Value)
    BY DEF LearnState
  <2>3. AddLiteral(s.literals, syms[i], ValueAt(syms, i).value) \in Seq(Value)
    BY <2>1, <2>2, AddLiteralIs
  <2>4. Learned(syms, s, i) = [literals |-> AddLiteral(s.literals, syms[i], ValueAt(syms, i).value),
                               next |-> ValueAt(syms, i).next]
    BY <1>2, Zenon DEF Learned
  <2> QED
    BY <2>1, <2>3, <2>4 DEF LearnState
<1> QED
  BY <1>1, <1>2

LEMMA LearnIs ==
  ASSUME NEW known \in Seq(Value), NEW syms \in Seq(Symbols)
  PROVE  Learn(known, syms) \in Seq(Value)
<1> DEFINE N == Len(syms)
           base == [literals |-> known, next |-> 1]
           Rec(f) == f = [n \in 0..N |-> IF n = 0 THEN base ELSE Learned(syms, f[n - 1], n)]
<1>1. N \in Nat
  OBVIOUS
<1>2. base \in LearnState
  BY DEF LearnState
<1> HIDE DEF N, base
<1> USE <1>1
<1> DEFINE g == [n \in 1..N |-> [s \in LearnState |-> Learned(syms, s, n)]]
<1>4. PICK h : Course(N, LearnState, base, g, h)
  <2>1. g \in [1..N -> [LearnState -> LearnState]]
    BY LearnedIs
  <2> HIDE DEF g
  <2> QED
    BY <1>2, <2>1, Recursion
<1>5. \A n \in 0..N : h[n] = IF n = 0 THEN base ELSE Learned(syms, h[n - 1], n)
  <2>1. ASSUME NEW n \in 0..N, n # 0 PROVE h[n] = Learned(syms, h[n - 1], n)
    <3>1. n \in 1..N /\ n - 1 \in 0..N
      BY <2>1
    <3>2. h[n - 1] \in LearnState /\ h[n] = g[n][h[n - 1]]
      BY <1>4, <3>1 DEF Course
    <3> QED
      BY <3>1, <3>2
  <2>2. h[0] = base
    BY <1>4 DEF Course
  <2> QED
    BY <2>1, <2>2
<1>6. h = [n \in 0..N |-> h[n]]
  BY <1>4 DEF Course
<1>7. Rec(h)
  BY <1>5, <1>6
<1> DEFINE f == CHOOSE k : Rec(k)
<1>8. Rec(f)
  <2> HIDE DEF Rec
  <2> QED
    BY <1>7, Zenon
<1>9. Learn(known, syms) = f[N].literals
  BY Zenon DEF Learn, base, N
<1> HIDE DEF f
<1>10. f[0] = base
  <2>1. 0 \in 0..N
    OBVIOUS
  <2> QED
    BY <1>8, <2>1
<1>11. ASSUME NEW n \in 1..N PROVE f[n] = Learned(syms, f[n - 1], n)
  <2>1. n \in 0..N /\ n # 0
    OBVIOUS
  <2> QED
    BY <1>8, <2>1
<1> DEFINE A == [n \in 0..N |-> LearnState]
<1>12. f[0] \in A[0]
  BY <1>2, <1>10
<1>13. ASSUME NEW n \in 1..N, f[n - 1] \in A[n - 1] PROVE f[n] \in A[n]
  <2>1. f[n - 1] \in LearnState
    BY <1>13
  <2>2. f[n] \in LearnState
    BY <1>11, <2>1, LearnedIs
  <2> QED
    BY <2>2
<1>14. f[N] \in LearnState
  <2>1. \A n \in 0..N : f[n] \in A[n]
    <3> HIDE DEF A
    <3> QED
      BY <1>12, <1>13, Throughout
  <2> QED
    BY <2>1
<1> QED
  BY <1>9, <1>14 DEF LearnState
-----------------------------------------------------------------------------
(***************************************************************************)
(* The budget shows elements of the text and marks, nothing else.          *)
(***************************************************************************)
LEMMA PartIn ==
  ASSUME NEW S, NEW s \in Seq(S), NEW m \in Int, NEW n \in Int, m >= 1, n <= Len(s)
  PROVE  SubSeq(s, m, n) \in Seq(S)
<1>1. \A i \in m..n : i \in 1..Len(s)
  OBVIOUS
<1>2. \A i \in m..n : s[i] \in S
  BY <1>1, ElementOfSeq
<1> QED
  BY <1>2, SubSeqProperties

\* Lines, of which there is at least one.
Split(X) == {p \in Seq(Seq(X)) : Len(p) > 0}

LEMMA ContinuedIs ==
  ASSUME NEW src, NEW X, NEW p \in Split(X), NEW x \in X
  PROVE  Continued(src, p, x) \in Split(X)
<1>1. p \in Seq(Seq(X)) /\ Len(p) \in Nat /\ Len(p) > 0
  BY DEF Split
<1>2. CASE Sym(src, x) = "nl"
  <2>1. Append(p, <<>>) \in Seq(Seq(X)) /\ Len(Append(p, <<>>)) = Len(p) + 1
    BY <1>1, EmptySeq, AppendProperties
  <2>2. Len(Append(p, <<>>)) > 0
    BY <1>1, <2>1
  <2> QED
    BY <1>2, <2>1, <2>2 DEF Continued, Split
<1>3. CASE Sym(src, x) # "nl"
  <2>1. Len(p) \in 1..Len(p)
    BY <1>1
  <2>2. p[Len(p)] \in Seq(X)
    BY <1>1, <2>1, ElementOfSeq
  <2>3. Append(p[Len(p)], x) \in Seq(X)
    BY <2>2, AppendProperties
  <2> DEFINE q == [p EXCEPT ![Len(p)] = Append(p[Len(p)], x)]
  <2>4. q \in Seq(Seq(X)) /\ Len(q) = Len(p)
    BY <1>1, <2>1, <2>3, ExceptSeq
  <2>5. Continued(src, p, x) = q
    BY <1>3, Zenon DEF Continued
  <2> HIDE DEF q
  <2> QED
    BY <1>1, <2>4, <2>5 DEF Split
<1> QED
  BY <1>2, <1>3

LEMMA PiecesRuns ==
  ASSUME NEW src, NEW X, NEW T \in Seq(X)
  PROVE  \E f : /\ f[0] = <<(<<>>)>>
                /\ \A n \in 1..Len(T) : f[n] = Continued(src, f[n - 1], T[n])
                /\ \A n \in 0..Len(T) : f[n] \in Split(X)
                /\ Pieces(src, T) = f[Len(T)]
<1> DEFINE N == Len(T)
           base == <<(<<>>)>>
           Step(s, n) == Continued(src, s, T[n])
           State == Split(X)
           Rec(f) == f = [n \in 0..N |-> IF n = 0 THEN base ELSE Step(f[n - 1], n)]
<1>1. N \in Nat
  OBVIOUS
<1>2. base \in State
  <2>1. <<>> \in Seq(X)
    BY EmptySeq
  <2>2. base = [i \in 1..1 |-> <<>>]
    OBVIOUS
  <2>3. base \in Seq(Seq(X)) /\ Len(base) = 1
    BY <2>1
  <2> QED
    BY <2>3 DEF Split
<1>3. ASSUME NEW s \in State, NEW n \in 1..N PROVE Step(s, n) \in State
  <2>1. T[n] \in X
    BY ElementOfSeq
  <2> QED
    BY <2>1, ContinuedIs
<1> HIDE DEF N, base, Step, State
<1> USE <1>1
<1> DEFINE g == [n \in 1..N |-> [s \in State |-> Step(s, n)]]
<1>4. PICK h : Course(N, State, base, g, h)
  <2>1. g \in [1..N -> [State -> State]]
    BY <1>3
  <2> HIDE DEF g
  <2> QED
    BY <1>2, <2>1, Recursion
<1>5. \A n \in 0..N : h[n] = IF n = 0 THEN base ELSE Step(h[n - 1], n)
  <2>1. ASSUME NEW n \in 0..N, n # 0 PROVE h[n] = Step(h[n - 1], n)
    <3>1. n \in 1..N /\ n - 1 \in 0..N
      BY <2>1
    <3>2. h[n - 1] \in State /\ h[n] = g[n][h[n - 1]]
      BY <1>4, <3>1 DEF Course
    <3> QED
      BY <3>1, <3>2
  <2>2. h[0] = base
    BY <1>4 DEF Course
  <2> QED
    BY <2>1, <2>2
<1>6. h = [n \in 0..N |-> h[n]]
  BY <1>4 DEF Course
<1>7. Rec(h)
  BY <1>5, <1>6
<1> DEFINE f == CHOOSE k : Rec(k)
<1>8. Rec(f)
  <2> HIDE DEF Rec
  <2> QED
    BY <1>7, Zenon
<1>9. Pieces(src, T) = f[N]
  BY Zenon DEF Pieces, Step, base, N
<1> HIDE DEF f
<1>10. f[0] = base
  <2>1. 0 \in 0..N
    OBVIOUS
  <2> QED
    BY <1>8, <2>1
<1>11. \A n \in 1..N : f[n] = Step(f[n - 1], n)
  <2>1. ASSUME NEW n \in 1..N PROVE f[n] = Step(f[n - 1], n)
    <3>1. n \in 0..N /\ n # 0
      OBVIOUS
    <3> QED
      BY <1>8, <3>1
  <2> QED
    BY <2>1
<1> DEFINE A == [n \in 0..N |-> State]
<1>12. \A n \in 0..N : f[n] \in A[n]
  <2>1. f[0] \in A[0]
    BY <1>2, <1>10
  <2>2. ASSUME NEW n \in 1..N, f[n - 1] \in A[n - 1] PROVE f[n] \in A[n]
    <3>1. f[n - 1] \in State
      BY <2>2
    <3>2. f[n] = Step(f[n - 1], n)
      BY <1>11
    <3> QED
      BY <1>3, <3>1, <3>2
  <2> HIDE DEF A
  <2> QED
    BY <2>1, <2>2, Throughout
<1>13. \A n \in 0..N : f[n] \in State
  BY <1>12
<1> QED
  BY <1>9, <1>10, <1>11, <1>13, Zenon DEF Step, base, N, State

LEMMA LinesIs ==
  ASSUME NEW src, NEW X, NEW T \in Seq(X)
  PROVE  Lines(src, T) \in Seq(Seq(X))
<1>1. PICK n \in Nat : n = Len(T)
  OBVIOUS
<1>2. Pieces(src, T) \in Split(X)
  <2>1. PICK f : (\A k \in 0..Len(T) : f[k] \in Split(X)) /\ Pieces(src, T) = f[Len(T)]
    BY PiecesRuns
  <2>2. n \in 0..n
    BY <1>1
  <2> QED
    BY <1>1, <2>1, <2>2
<1>3. PICK p \in Seq(Seq(X)) : p = Pieces(src, T) /\ Len(p) > 0
  BY <1>2 DEF Split
<1>4. Front(p) \in Seq(Seq(X))
  <2>1. Len(p) - 1 \in Int /\ 1 \in Int /\ 1 >= 1 /\ Len(p) - 1 <= Len(p)
    OBVIOUS
  <2> QED
    BY <2>1, PartIn DEF Front
<1> QED
  BY <1>3, <1>4, Zenon DEF Lines

LEMMA FilteredRuns ==
  ASSUME NEW k \in Nat, NEW set
  PROVE  \E f : /\ f[0] = <<>>
                /\ \A n \in 1..k : /\ n \in set => f[n] = Append(f[n - 1], n)
                                   /\ n \notin set => f[n] = f[n - 1]
                /\ \A n \in 0..k : f[n] \in Seq(1..k)
                /\ Filtered(k, set) = f[k]
<1> DEFINE N == k
           base == <<>>
           Step(s, n) == s \o (IF n \in set THEN <<n>> ELSE <<>>)
           State == Seq(1..k)
           Rec(f) == f = [n \in 0..N |-> IF n = 0 THEN base ELSE Step(f[n - 1], n)]
<1>1. N \in Nat
  OBVIOUS
<1>2. base \in State
  BY EmptySeq
<1>3. ASSUME NEW s \in State, NEW n \in 1..N PROVE Step(s, n) \in State
  <2>1. <<n>> \in Seq(1..k) /\ <<>> \in Seq(1..k)
    BY EmptySeq
  <2> QED
    BY <2>1, ConcatProperties
<1> HIDE DEF N, base, Step, State
<1> USE <1>1
<1> DEFINE g == [n \in 1..N |-> [s \in State |-> Step(s, n)]]
<1>4. PICK h : Course(N, State, base, g, h)
  <2>1. g \in [1..N -> [State -> State]]
    BY <1>3
  <2> HIDE DEF g
  <2> QED
    BY <1>2, <2>1, Recursion
<1>5. \A n \in 0..N : h[n] = IF n = 0 THEN base ELSE Step(h[n - 1], n)
  <2>1. ASSUME NEW n \in 0..N, n # 0 PROVE h[n] = Step(h[n - 1], n)
    <3>1. n \in 1..N /\ n - 1 \in 0..N
      BY <2>1
    <3>2. h[n - 1] \in State /\ h[n] = g[n][h[n - 1]]
      BY <1>4, <3>1 DEF Course
    <3> QED
      BY <3>1, <3>2
  <2>2. h[0] = base
    BY <1>4 DEF Course
  <2> QED
    BY <2>1, <2>2
<1>6. h = [n \in 0..N |-> h[n]]
  BY <1>4 DEF Course
<1>7. Rec(h)
  BY <1>5, <1>6
<1> DEFINE f == CHOOSE c : Rec(c)
<1>8. Rec(f)
  <2> HIDE DEF Rec
  <2> QED
    BY <1>7, Zenon
<1>9. Filtered(k, set) = f[N]
  BY Zenon DEF Filtered, Step, base, N
<1> HIDE DEF f
<1>10. f[0] = base
  <2>1. 0 \in 0..N
    OBVIOUS
  <2> QED
    BY <1>8, <2>1
<1>11. \A n \in 1..N : f[n] = Step(f[n - 1], n)
  <2>1. ASSUME NEW n \in 1..N PROVE f[n] = Step(f[n - 1], n)
    <3>1. n \in 0..N /\ n # 0
      OBVIOUS
    <3> QED
      BY <1>8, <3>1
  <2> QED
    BY <2>1
<1> DEFINE A == [n \in 0..N |-> State]
<1>12. \A n \in 0..N : f[n] \in A[n]
  <2>1. f[0] \in A[0]
    BY <1>2, <1>10
  <2>2. ASSUME NEW n \in 1..N, f[n - 1] \in A[n - 1] PROVE f[n] \in A[n]
    <3>1. f[n - 1] \in State
      BY <2>2
    <3>2. f[n] = Step(f[n - 1], n)
      BY <1>11
    <3> QED
      BY <1>3, <3>1, <3>2
  <2> HIDE DEF A
  <2> QED
    BY <2>1, <2>2, Throughout
<1>13. \A n \in 0..N : f[n] \in State
  BY <1>12
<1>14. ASSUME NEW n \in 1..N
       PROVE  (n \in set => f[n] = Append(f[n - 1], n)) /\ (n \notin set => f[n] = f[n - 1])
  <2>1. n - 1 \in 0..N
    OBVIOUS
  <2>2. PICK s \in Seq(1..k) : s = f[n - 1]
    BY <1>13, <2>1 DEF State
  <2>3. f[n] = s \o (IF n \in set THEN <<n>> ELSE <<>>)
    BY <1>11, <2>2, Zenon DEF Step
  <2>4. n \in set => f[n] = Append(s, n)
    <3>1. s \o <<n>> = Append(s, n)
      BY DEF N
    <3> QED
      BY <2>3, <3>1
  <2>5. n \notin set => f[n] = s
    <3>1. s \o <<>> = s
      OBVIOUS
    <3> QED
      BY <2>3, <3>1
  <2> QED
    BY <2>2, <2>4, <2>5
<1> QED
  BY <1>9, <1>10, <1>13, <1>14, Zenon DEF base, N, State

LEMMA FilteredIs ==
  ASSUME NEW k \in Nat, NEW set
  PROVE  Filtered(k, set) \in Seq(1..k)
<1>1. PICK f : /\ f[0] = <<>>
               /\ \A n \in 1..k : /\ n \in set => f[n] = Append(f[n - 1], n)
                                  /\ n \notin set => f[n] = f[n - 1]
               /\ \A n \in 0..k : f[n] \in Seq(1..k)
               /\ Filtered(k, set) = f[k]
  BY FilteredRuns
<1>2. k \in 0..k
  OBVIOUS
<1> QED
  BY <1>1, <1>2

\* A keep that the code can be given.
Keeping(keep) ==
  /\ keep.mode \in {"all", "tail", "head", "head_tail"}
  /\ keep.mode \in {"tail", "head"} => keep.n \in Nat
  /\ keep.mode = "head_tail" => keep.head \in Nat /\ keep.tail \in Nat

LEMMA MinOfTwo ==
  ASSUME NEW a \in Nat, NEW b \in Nat
  PROVE  Min({a, b}) \in Nat /\ Min({a, b}) <= a /\ Min({a, b}) <= b
<1>1. {a, b} \subseteq Nat /\ {a, b} # {}
  OBVIOUS
<1>2. Min({a, b}) \in {a, b} /\ \A y \in {a, b} : Min({a, b}) <= y
  BY <1>1, MinIs
<1> QED
  BY <1>2

LEMMA KeepSubsetIs ==
  ASSUME NEW S, NEW idx \in Seq(S), NEW keep, Keeping(keep)
  PROVE  KeepSubset(idx, keep) \in Seq(S)
<1>1. PICK n \in Nat : n = Len(idx)
  OBVIOUS
<1>2. CASE keep.mode = "all"
  <2>1. KeepSubset(idx, keep) = idx
    BY <1>2 DEF KeepSubset
  <2> QED
    BY <2>1
<1>3. CASE keep.mode = "tail"
  <2>1. KeepSubset(idx, keep) = SubSeq(idx, Monus(n, keep.n) + 1, n)
    BY <1>1, <1>3 DEF KeepSubset
  <2>2. keep.n \in Nat
    BY <1>3 DEF Keeping
  <2>3. Monus(n, keep.n) + 1 \in Int /\ Monus(n, keep.n) + 1 >= 1
    BY <2>2 DEF Monus
  <2>4. SubSeq(idx, Monus(n, keep.n) + 1, n) \in Seq(S)
    BY <1>1, <2>3, PartIn
  <2> QED
    BY <2>1, <2>4
<1>4. CASE keep.mode = "head"
  <2>1. KeepSubset(idx, keep) = SubSeq(idx, 1, Min({keep.n, n}))
    BY <1>1, <1>4 DEF KeepSubset
  <2>2. keep.n \in Nat
    BY <1>4 DEF Keeping
  <2>3. Min({keep.n, n}) \in Nat /\ Min({keep.n, n}) <= n
    BY <2>2, MinOfTwo
  <2>4. SubSeq(idx, 1, Min({keep.n, n})) \in Seq(S)
    <3>1. PICK m \in Int : m = Min({keep.n, n}) /\ m <= Len(idx)
      BY <1>1, <2>3
    <3>2. SubSeq(idx, 1, m) \in Seq(S)
      <4>1. 1 \in Int /\ m \in Int /\ 1 >= 1 /\ m <= Len(idx)
        BY <3>1
      <4> QED
        BY <4>1, PartIn, Zenon
    <3> QED
      BY <3>1, <3>2, Zenon
  <2> QED
    BY <2>1, <2>4
<1>5. CASE keep.mode = "head_tail"
  <2>1. KeepSubset(idx, keep) =
          IF SaturatingAdd(keep.head, keep.tail) >= n THEN idx
          ELSE SubSeq(idx, 1, Min({keep.head, n})) \o SubSeq(idx, n - Min({keep.tail, n}) + 1, n)
    BY <1>1, <1>5 DEF KeepSubset
  <2>2. keep.head \in Nat /\ keep.tail \in Nat
    BY <1>5 DEF Keeping
  <2>3. Min({keep.head, n}) \in Nat /\ Min({keep.head, n}) <= n
    BY <2>2, MinOfTwo
  <2>4. Min({keep.tail, n}) \in Nat /\ Min({keep.tail, n}) <= n
    BY <2>2, MinOfTwo
  <2>5. SubSeq(idx, 1, Min({keep.head, n})) \in Seq(S)
    <3>1. PICK m \in Int : m = Min({keep.head, n}) /\ m <= Len(idx)
      BY <1>1, <2>3
    <3>2. SubSeq(idx, 1, m) \in Seq(S)
      <4>1. 1 \in Int /\ m \in Int /\ 1 >= 1 /\ m <= Len(idx)
        BY <3>1
      <4> QED
        BY <4>1, PartIn, Zenon
    <3> QED
      BY <3>1, <3>2, Zenon
  <2>6. n - Min({keep.tail, n}) + 1 \in Int /\ n - Min({keep.tail, n}) + 1 >= 1
    BY <2>4
  <2>7. SubSeq(idx, n - Min({keep.tail, n}) + 1, n) \in Seq(S)
    <3>1. PICK m \in Int : m = n - Min({keep.tail, n}) + 1 /\ m >= 1
      BY <2>6, Zenon
    <3>2. SubSeq(idx, m, n) \in Seq(S)
      <4>1. m \in Int /\ n \in Int /\ m >= 1 /\ n <= Len(idx)
        BY <1>1, <3>1
      <4> QED
        BY <4>1, PartIn, Zenon
    <3> QED
      BY <3>1, <3>2, Zenon
  <2>8. SubSeq(idx, 1, Min({keep.head, n})) \o SubSeq(idx, n - Min({keep.tail, n}) + 1, n) \in Seq(S)
    BY <2>5, <2>7, ConcatProperties
  <2> QED
    BY <2>1, <2>8, Zenon
<1> QED
  BY <1>2, <1>3, <1>4, <1>5 DEF Keeping

LEMMA KeptIs ==
  ASSUME NEW src, NEW S, NEW lines \in Seq(S), NEW budget, Keeping(budget.keep)
  PROVE  Kept(src, lines, budget) \in Seq(1..Len(lines))
<1>1. PICK n \in Nat : n = Len(lines)
  OBVIOUS
<1>2. [i \in 1..n |-> i] \in Seq(1..n)
  <2>1. [i \in 1..n |-> i] \in [1..n -> 1..n]
    OBVIOUS
  <2> QED
    BY <2>1, SeqDef
<1>3. GrepKeepIndices(src, lines, budget.grep, budget.context) \in Seq(1..n)
  BY <1>1, FilteredIs DEF GrepKeepIndices
<1> DEFINE idx == IF budget.grep = NoGrep THEN [i \in 1..Len(lines) |-> i]
                  ELSE GrepKeepIndices(src, lines, budget.grep, budget.context)
<1>4. idx \in Seq(1..n)
  BY <1>1, <1>2, <1>3, Zenon
<1>5. Kept(src, lines, budget) = KeepSubset(idx, budget.keep)
  BY Zenon DEF Kept
<1> HIDE DEF idx
<1> QED
  BY <1>1, <1>4, <1>5, KeepSubsetIs

\* The marks that a budget inserts.
LineMarks == {LinesElided(n) : n \in Nat}
Marks == {NewLine} \cup LineMarks \cup {CharsElided(n) : n \in Nat}

LEMMA MarksIs == \A x \in Marks : x \in Int /\ x < 0
<1>1. NewLine \in Int /\ NewLine < 0
  BY DEF NewLine
<1>2. \A n \in Nat : LinesElided(n) \in Int /\ LinesElided(n) < 0
  BY DEF LinesElided
<1>3. \A n \in Nat : CharsElided(n) \in Int /\ CharsElided(n) < 0
  BY DEF CharsElided
<1> QED
  BY <1>1, <1>2, <1>3 DEF Marks, LineMarks

\* One part behind the other.
LEMMA JoinedRuns ==
  ASSUME NEW X, Marks \subseteq X, NEW parts \in Seq(Seq(X)), Len(parts) > 0
  PROVE  \E f : /\ f[1] = parts[1]
                /\ \A n \in 2..Len(parts) : f[n] = f[n - 1] \o <<NewLine>> \o parts[n]
                /\ \A n \in 1..Len(parts) : f[n] \in Seq(X)
                /\ Joined(parts) = f[Len(parts)]
<1> DEFINE N == Len(parts)
           Step(s, n) == s \o <<NewLine>> \o parts[n]
           Rec(f) == f = [n \in 1..N |-> IF n = 1 THEN parts[1] ELSE Step(f[n - 1], n)]
<1>1. N \in Nat /\ N > 0
  OBVIOUS
<1>2. parts[1] \in Seq(X)
  BY <1>1
<1>3. ASSUME NEW s \in Seq(X), NEW n \in 1..N PROVE Step(s, n) \in Seq(X)
  <2>1. NewLine \in X
    BY DEF Marks
  <2>2. <<NewLine>> \in Seq(X) /\ parts[n] \in Seq(X)
    BY <2>1
  <2> QED
    BY <2>2, ConcatProperties
<1>14. \A n \in 1..N : parts[n] \in Seq(X)
  OBVIOUS
<1> HIDE DEF N, Step
<1> USE <1>1
<1> DEFINE g == [n \in 1..(N - 1) |-> [s \in Seq(X) |-> Step(s, n + 1)]]
<1>4. PICK h : Course(N - 1, Seq(X), parts[1], g, h)
  <2>1. g \in [1..(N - 1) -> [Seq(X) -> Seq(X)]]
    <3>1. \A n \in 1..(N - 1) : n + 1 \in 1..N
      OBVIOUS
    <3> QED
      BY <1>3, <3>1
  <2>2. N - 1 \in Nat
    OBVIOUS
  <2> HIDE DEF g
  <2> QED
    BY <1>2, <2>1, <2>2, Recursion
<1> DEFINE k == [n \in 1..N |-> h[n - 1]]
<1>5. \A n \in 1..N : k[n] = IF n = 1 THEN parts[1] ELSE Step(k[n - 1], n)
  <2>1. ASSUME NEW n \in 1..N, n # 1 PROVE k[n] = Step(k[n - 1], n)
    <3>1. PICK m \in 1..(N - 1) : n = m + 1 /\ n - 1 = m /\ m - 1 \in 0..(N - 1)
      BY <2>1
    <3>2. h[m - 1] \in Seq(X) /\ h[m] = g[m][h[m - 1]]
      BY <1>4, <3>1 DEF Course
    <3>3. h[m] = Step(h[m - 1], m + 1)
      BY <3>2
    <3>4. k[n] = h[m]
      BY <3>1
    <3>5. k[n - 1] = h[m - 1]
      <4>1. n - 1 \in 1..N
        BY <3>1
      <4> QED
        BY <3>1, <4>1
    <3> QED
      BY <3>1, <3>3, <3>4, <3>5
  <2>2. k[1] = parts[1]
    <3>1. 1 \in 1..N /\ 1 - 1 = 0
      OBVIOUS
    <3>2. h[0] = parts[1]
      BY <1>4 DEF Course
    <3> QED
      BY <3>1, <3>2
  <2> QED
    BY <2>1, <2>2
<1>6. k = [n \in 1..N |-> k[n]]
  OBVIOUS
<1>7. Rec(k)
  <2> HIDE DEF k
  <2> QED
    BY <1>5, <1>6
<1> DEFINE f == CHOOSE q : Rec(q)
<1>8. Rec(f)
  <2> HIDE DEF Rec, k
  <2> QED
    BY <1>7, Zenon
<1>9. Joined(parts) = f[N]
  BY Zenon DEF Joined, Step, N
<1> HIDE DEF f
<1>10. f[1] = parts[1]
  <2>1. 1 \in 1..N
    OBVIOUS
  <2> QED
    BY <1>8, <2>1
<1>11. ASSUME NEW n \in 1..N, n # 1 PROVE f[n] = Step(f[n - 1], n)
  BY <1>8, <1>11
<1> DEFINE p == [n \in 0..(N - 1) |-> f[n + 1]]
           A == [n \in 0..(N - 1) |-> Seq(X)]
<1>12. \A n \in 0..(N - 1) : p[n] \in A[n]
  <2>1. p[0] \in A[0]
    BY <1>2, <1>10
  <2>2. ASSUME NEW n \in 1..(N - 1), p[n - 1] \in A[n - 1] PROVE p[n] \in A[n]
    <3>1. n \in 0..(N - 1) /\ n - 1 \in 0..(N - 1) /\ n + 1 \in 1..N /\ n + 1 # 1 /\ n + 1 - 1 = n /\ n - 1 + 1 = n
      OBVIOUS
    <3>2. f[n] \in Seq(X)
      BY <2>2, <3>1
    <3>3. f[n + 1] = Step(f[n], n + 1)
      <4>1. f[n + 1] = Step(f[n + 1 - 1], n + 1)
        BY <1>11, <3>1
      <4> QED
        BY <3>1, <4>1, Zenon
    <3>4. f[n + 1] \in Seq(X)
      BY <1>3, <3>1, <3>2, <3>3
    <3> QED
      BY <3>1, <3>4
  <2>3. N - 1 \in Nat
    OBVIOUS
  <2> HIDE DEF A, p
  <2> QED
    BY <2>1, <2>2, <2>3, Throughout
<1>13. ASSUME NEW n \in 1..N PROVE f[n] \in Seq(X)
  <2>1. n - 1 \in 0..(N - 1) /\ n - 1 + 1 = n
    OBVIOUS
  <2>2. p[n - 1] \in A[n - 1]
    BY <1>12, <2>1
  <2> QED
    BY <2>1, <2>2
<1>15. ASSUME NEW n \in 2..N PROVE f[n] = f[n - 1] \o <<NewLine>> \o parts[n]
  <2>1. n \in 1..N /\ n # 1
    OBVIOUS
  <2>2. f[n] = Step(f[n - 1], n)
    BY <1>11, <2>1
  <2> QED
    BY <2>2, Zenon DEF Step
<1> QED
  BY <1>9, <1>10, <1>13, <1>15, Zenon DEF N

LEMMA JoinedIs ==
  ASSUME NEW X, Marks \subseteq X, NEW parts \in Seq(Seq(X)), Len(parts) > 0
  PROVE  Joined(parts) \in Seq(X)
<1>1. PICK f : (\A n \in 1..Len(parts) : f[n] \in Seq(X)) /\ Joined(parts) = f[Len(parts)]
  BY JoinedRuns, Zenon
<1>2. Len(parts) \in 1..Len(parts)
  OBVIOUS
<1> QED
  BY <1>1, <1>2

LEMMA GapIs ==
  ASSUME NEW X, LineMarks \subseteq X, NEW from \in Int, NEW to \in Int
  PROVE  Gap(from, to) \in Seq(Seq(X))
<1>1. CASE to > from + 1
  <2>1. to - from - 1 \in Nat
    BY <1>1
  <2>2. LinesElided(to - from - 1) \in X
    BY <2>1 DEF LineMarks
  <2>3. PICK x \in X : x = LinesElided(to - from - 1)
    BY <2>2
  <2>4. <<(<<x>>)>> \in Seq(Seq(X))
    OBVIOUS
  <2>5. Gap(from, to) = <<(<<x>>)>>
    BY <1>1, <2>3, Zenon DEF Gap
  <2> QED
    BY <2>4, <2>5
<1>2. CASE ~(to > from + 1)
  <2>1. Gap(from, to) = <<>>
    BY <1>2, Zenon DEF Gap
  <2> QED
    BY <2>1, EmptySeq
<1> QED
  BY <1>1, <1>2

LEMMA PartsRuns ==
  ASSUME NEW X, LineMarks \subseteq X, NEW lines \in Seq(Seq(X)), NEW kept \in Seq(1..Len(lines))
  PROVE  \E f : /\ f[0] = <<>>
                /\ \A n \in 1..Len(kept) :
                     f[n] = f[n - 1] \o Gap(IF n = 1 THEN 0 ELSE kept[n - 1], kept[n]) \o <<lines[kept[n]]>>
                /\ \A n \in 0..Len(kept) : f[n] \in Seq(Seq(X))
                /\ Parts(lines, kept) = f[Len(kept)]
<1> DEFINE N == Len(kept)
           base == <<>>
           Step(s, n) == s \o Gap(IF n = 1 THEN 0 ELSE kept[n - 1], kept[n]) \o <<lines[kept[n]]>>
           State == Seq(Seq(X))
           Rec(f) == f = [n \in 0..N |-> IF n = 0 THEN base ELSE Step(f[n - 1], n)]
<1>1. N \in Nat
  OBVIOUS
<1>2. base \in State
  BY EmptySeq
<1>3. ASSUME NEW s \in State, NEW n \in 1..N PROVE Step(s, n) \in State
  <2>1. kept[n] \in Int /\ lines[kept[n]] \in Seq(X)
    <3>1. kept[n] \in 1..Len(lines)
      BY ElementOfSeq
    <3> QED
      BY <3>1, ElementOfSeq, SMTT(30)
  <2>2. (IF n = 1 THEN 0 ELSE kept[n - 1]) \in Int
    <3>1. CASE n = 1
      BY <3>1
    <3>2. CASE n # 1
      <4>1. n - 1 \in 1..Len(kept)
        BY <3>2
      <4>2. kept[n - 1] \in 1..Len(lines)
        BY <4>1, ElementOfSeq
      <4> QED
        BY <3>2, <4>2, SMTT(30)
    <3> QED
      BY <3>1, <3>2
  <2>3. Gap(IF n = 1 THEN 0 ELSE kept[n - 1], kept[n]) \in Seq(Seq(X))
    BY <2>1, <2>2, GapIs
  <2>4. PICK gap \in Seq(Seq(X)) : gap = Gap(IF n = 1 THEN 0 ELSE kept[n - 1], kept[n])
    BY <2>3, Zenon
  <2>5. <<lines[kept[n]]>> \in Seq(Seq(X))
    BY <2>1
  <2>6. s \o gap \in Seq(Seq(X))
    BY ConcatProperties
  <2>7. s \o gap \o <<lines[kept[n]]>> \in Seq(Seq(X))
    BY <2>5, <2>6, ConcatProperties
  <2>8. Step(s, n) = s \o gap \o <<lines[kept[n]]>>
    BY <2>4, Zenon
  <2> QED
    BY <2>7, <2>8, Zenon
<1> HIDE DEF N, base, Step, State
<1> USE <1>1
<1> DEFINE g == [n \in 1..N |-> [s \in State |-> Step(s, n)]]
<1>4. PICK h : Course(N, State, base, g, h)
  <2>1. g \in [1..N -> [State -> State]]
    BY <1>3
  <2> HIDE DEF g
  <2> QED
    BY <1>2, <2>1, Recursion
<1>5. \A n \in 0..N : h[n] = IF n = 0 THEN base ELSE Step(h[n - 1], n)
  <2>1. ASSUME NEW n \in 0..N, n # 0 PROVE h[n] = Step(h[n - 1], n)
    <3>1. n \in 1..N /\ n - 1 \in 0..N
      BY <2>1
    <3>2. h[n - 1] \in State /\ h[n] = g[n][h[n - 1]]
      BY <1>4, <3>1 DEF Course
    <3> QED
      BY <3>1, <3>2
  <2>2. h[0] = base
    BY <1>4 DEF Course
  <2> QED
    BY <2>1, <2>2
<1>6. h = [n \in 0..N |-> h[n]]
  BY <1>4 DEF Course
<1>7. Rec(h)
  BY <1>5, <1>6
<1> DEFINE f == CHOOSE k : Rec(k)
<1>8. Rec(f)
  <2> HIDE DEF Rec
  <2> QED
    BY <1>7, Zenon
<1>9. Parts(lines, kept) = f[N]
  BY Zenon DEF Parts, Step, base, N
<1> HIDE DEF f
<1>10. f[0] = base
  <2>1. 0 \in 0..N
    OBVIOUS
  <2> QED
    BY <1>8, <2>1
<1>11. \A n \in 1..N : f[n] = Step(f[n - 1], n)
  <2>1. ASSUME NEW n \in 1..N PROVE f[n] = Step(f[n - 1], n)
    <3>1. n \in 0..N /\ n # 0
      OBVIOUS
    <3> QED
      BY <1>8, <3>1
  <2> QED
    BY <2>1
<1> DEFINE A == [n \in 0..N |-> State]
<1>12. \A n \in 0..N : f[n] \in A[n]
  <2>1. f[0] \in A[0]
    BY <1>2, <1>10
  <2>2. ASSUME NEW n \in 1..N, f[n - 1] \in A[n - 1] PROVE f[n] \in A[n]
    <3>1. f[n - 1] \in State
      BY <2>2
    <3>2. f[n] = Step(f[n - 1], n)
      BY <1>11
    <3> QED
      BY <1>3, <3>1, <3>2
  <2> HIDE DEF A
  <2> QED
    BY <2>1, <2>2, Throughout
<1>13. \A n \in 0..N : f[n] \in State
  BY <1>12
<1> QED
  BY <1>9, <1>10, <1>11, <1>13, Zenon DEF Step, base, N, State

LEMMA PartsIs ==
  ASSUME NEW X, LineMarks \subseteq X, NEW lines \in Seq(Seq(X)), NEW kept \in Seq(1..Len(lines))
  PROVE  Parts(lines, kept) \in Seq(Seq(X)) /\ (kept # <<>> => Parts(lines, kept) # <<>>)
<1> DEFINE N == Len(kept)
<1>1. N \in Nat
  OBVIOUS
<1>2. PICK f : /\ f[0] = <<>>
               /\ \A n \in 1..N :
                    f[n] = f[n - 1] \o Gap(IF n = 1 THEN 0 ELSE kept[n - 1], kept[n]) \o <<lines[kept[n]]>>
               /\ \A n \in 0..N : f[n] \in Seq(Seq(X))
               /\ Parts(lines, kept) = f[N]
  BY PartsRuns
<1> HIDE DEF N
<1> USE <1>1
<1>14. f[N] \in Seq(Seq(X))
  BY <1>2
<1>15. ASSUME kept # <<>> PROVE f[N] # <<>>
  <2>1. N \in 1..N /\ N - 1 \in 0..N /\ N \in 1..Len(kept)
    <3>1. Len(kept) \in Nat \ {0}
      BY <1>15, EmptySeq
    <3> QED
      BY <3>1 DEF N
  <2>2. kept[N] \in Int /\ lines[kept[N]] \in Seq(X)
    <3>1. kept[N] \in 1..Len(lines)
      BY <2>1, ElementOfSeq
    <3> QED
      BY <3>1, ElementOfSeq
  <2>3. (IF N = 1 THEN 0 ELSE kept[N - 1]) \in Int
    <3>1. CASE N = 1
      BY <3>1
    <3>2. CASE N # 1
      <4>1. N - 1 \in 1..Len(kept)
        BY <2>1, <3>2
      <4>2. kept[N - 1] \in 1..Len(lines)
        BY <4>1, ElementOfSeq
      <4> QED
        BY <3>2, <4>2
    <3> QED
      BY <3>1, <3>2
  <2>4. PICK gap \in Seq(Seq(X)) : gap = Gap(IF N = 1 THEN 0 ELSE kept[N - 1], kept[N])
    <3>1. Gap(IF N = 1 THEN 0 ELSE kept[N - 1], kept[N]) \in Seq(Seq(X))
      BY <2>2, <2>3, GapIs
    <3> QED
      BY <3>1, Zenon
  <2>5. PICK s \in Seq(Seq(X)) : s = f[N - 1]
    BY <1>2, <2>1
  <2>6. <<lines[kept[N]]>> \in Seq(Seq(X)) /\ Len(<<lines[kept[N]]>>) = 1
    BY <2>2
  <2>7. s \o gap \in Seq(Seq(X)) /\ Len(s \o gap) \in Nat
    BY ConcatProperties, LenProperties
  <2>8. Len(s \o gap \o <<lines[kept[N]]>>) = Len(s \o gap) + 1
    BY <2>6, <2>7, ConcatProperties
  <2>9. f[N] = s \o gap \o <<lines[kept[N]]>>
    <3>1. f[N] = f[N - 1] \o Gap(IF N = 1 THEN 0 ELSE kept[N - 1], kept[N]) \o <<lines[kept[N]]>>
      BY <1>2, <2>1
    <3> QED
      BY <2>4, <2>5, <3>1, Zenon
  <2>10. Len(f[N]) > 0
    BY <2>7, <2>8, <2>9
  <2> QED
    BY <2>10
<1> QED
  BY <1>2, <1>14, <1>15

LEMMA RenderIs ==
  ASSUME NEW X, Marks \subseteq X, NEW lines \in Seq(Seq(X)), NEW kept \in Seq(1..Len(lines))
  PROVE  Render(lines, kept, Len(lines)) \in Seq(X)
<1> LineMarks \subseteq X
  BY DEF Marks
<1>1. PICK total \in Nat : total = Len(lines)
  OBVIOUS
<1>2. CASE total = 0
  <2>1. Render(lines, kept, Len(lines)) = <<>>
    BY <1>1, <1>2 DEF Render
  <2> QED
    BY <2>1, EmptySeq
<1>3. CASE total # 0 /\ kept = <<>>
  <2>1. LinesElided(total) \in X
    BY DEF Marks, LineMarks
  <2>2. Render(lines, kept, Len(lines)) = <<LinesElided(total)>>
    BY <1>1, <1>3, Zenon DEF Render
  <2> QED
    BY <2>1, <2>2
<1>4. CASE total # 0 /\ kept # <<>>
  <2>1. PICK p \in Seq(Seq(X)) : p = Parts(lines, kept) /\ p # <<>>
    BY <1>4, PartsIs
  <2>2. Last(kept) \in Int /\ total + 1 \in Int
    <3>1. Len(kept) \in 1..Len(kept)
      <4>1. Len(kept) \in Nat \ {0}
        BY <1>4, EmptySeq
      <4> QED
        BY <4>1
    <3>2. kept[Len(kept)] \in 1..Len(lines)
      BY <3>1, ElementOfSeq
    <3> QED
      BY <3>2 DEF Last
  <2>3. PICK gap \in Seq(Seq(X)) : gap = Gap(Last(kept), total + 1)
    <3>1. Gap(Last(kept), total + 1) \in Seq(Seq(X))
      BY <2>2, GapIs
    <3> QED
      BY <3>1, Zenon
  <2>4. p \o gap \in Seq(Seq(X)) /\ Len(p \o gap) = Len(p) + Len(gap)
    BY ConcatProperties
  <2>5. Len(p) \in Nat \ {0} /\ Len(gap) \in Nat
    BY <2>1, EmptySeq, LenProperties
  <2>6. Len(p \o gap) > 0
    BY <2>4, <2>5
  <2>7. Joined(p \o gap) \in Seq(X)
    BY <2>4, <2>6, JoinedIs
  <2>8. Render(lines, kept, Len(lines)) = Joined(p \o gap)
    BY <1>1, <1>4, <2>1, <2>3, Zenon DEF Render
  <2> QED
    BY <2>7, <2>8
<1> QED
  BY <1>2, <1>3, <1>4

LEMMA BoundIs ==
  ASSUME NEW X, Marks \subseteq X, NEW T \in Seq(X), NEW max \in Nat
  PROVE  Bound(T, max).text \in Seq(X)
<1>1. PICK n \in Nat : n = Len(T)
  OBVIOUS
<1>2. PICK half \in Nat : half = max \div 2 /\ 2 * half <= max
  OBVIOUS
<1>3. PICK cut \in Int : cut = n - 2 * half
  OBVIOUS
<1>4. Bound(T, max) =
        IF n <= max THEN [text |-> T, capped |-> FALSE]
        ELSE IF max < 2 THEN [text |-> <<>>, capped |-> TRUE]
        ELSE [text |-> SubSeq(T, 1, half) \o <<NewLine, CharsElided(cut), NewLine>> \o SubSeq(T, n - half + 1, n),
              capped |-> TRUE]
  BY <1>1, <1>2, <1>3, Zenon DEF Bound
<1>5. CASE n <= max
  <2>1. Bound(T, max) = [text |-> T, capped |-> FALSE]
    BY <1>4, <1>5
  <2> QED
    BY <2>1
<1>6. CASE ~(n <= max) /\ max < 2
  <2>1. Bound(T, max) = [text |-> <<>>, capped |-> TRUE]
    BY <1>4, <1>6
  <2> QED
    BY <2>1, EmptySeq
<1>7. CASE ~(n <= max) /\ ~(max < 2)
  <2>1. cut \in Nat /\ half <= n
    BY <1>2, <1>3, <1>7
  <2>2. NewLine \in X /\ CharsElided(cut) \in X
    BY <2>1 DEF Marks
  <2>3. PICK mark \in Seq(X) : mark = <<NewLine, CharsElided(cut), NewLine>>
    <3>1. PICK a \in X, b \in X : a = NewLine /\ b = CharsElided(cut)
      BY <2>2, Zenon
    <3>2. <<a, b, a>> \in Seq(X)
      OBVIOUS
    <3> QED
      BY <3>1, <3>2, Zenon
  <2>4. PICK head \in Seq(X) : head = SubSeq(T, 1, half)
    <3>1. 1 \in Int /\ half \in Int /\ 1 >= 1 /\ half <= Len(T)
      BY <1>1, <2>1
    <3>2. SubSeq(T, 1, half) \in Seq(X)
      BY <3>1, PartIn, Zenon
    <3> QED
      BY <3>2
  <2>5. PICK tail \in Seq(X) : tail = SubSeq(T, n - half + 1, n)
    <3>1. n - half + 1 \in Int /\ n \in Int /\ n - half + 1 >= 1 /\ n <= Len(T)
      BY <1>1, <2>1
    <3>2. SubSeq(T, n - half + 1, n) \in Seq(X)
      BY <3>1, PartIn, Zenon
    <3> QED
      BY <3>2
  <2>6. head \o mark \in Seq(X)
    BY ConcatProperties
  <2>7. head \o mark \o tail \in Seq(X)
    BY <2>6, ConcatProperties
  <2>8. Bound(T, max) = [text |-> head \o mark \o tail, capped |-> TRUE]
    BY <1>4, <1>7, <2>3, <2>4, <2>5, Zenon
  <2> QED
    BY <2>7, <2>8
<1> QED
  BY <1>5, <1>6, <1>7

\* A budget that the code can be given.
Budgeted(budget) == Keeping(budget.keep) /\ budget.max \in Nat \cup {NoMax}

LEMMA ApplyIs ==
  ASSUME NEW src, NEW X, Marks \subseteq X, NEW T \in Seq(X), NEW budget, Budgeted(budget), NEW fallback \in Nat
  PROVE  Apply(src, T, budget, fallback).text \in Seq(X)
<1>1. PICK lines \in Seq(Seq(X)) : lines = Lines(src, T)
  <2>1. Lines(src, T) \in Seq(Seq(X))
    BY LinesIs
  <2> QED
    BY <2>1
<1>2. PICK kept \in Seq(1..Len(lines)) : kept = Kept(src, lines, budget)
  <2>1. Keeping(budget.keep)
    BY DEF Budgeted
  <2>2. Kept(src, lines, budget) \in Seq(1..Len(lines))
    BY <2>1, KeptIs
  <2> QED
    BY <2>2
<1>3. PICK max \in Nat : max = IF budget.max = NoMax THEN fallback ELSE budget.max
  BY DEF Budgeted
<1>4. PICK shown \in Seq(X) : shown = Render(lines, kept, Len(lines))
  <2>1. Render(lines, kept, Len(lines)) \in Seq(X)
    BY RenderIs
  <2> QED
    BY <2>1
<1>5. Apply(src, T, budget, fallback) =
        [text |-> Bound(shown, max).text, capped |-> Bound(shown, max).capped,
         total |-> Len(lines), kept |-> Len(kept)]
  BY <1>1, <1>2, <1>3, <1>4, Zenon DEF Apply
<1>6. Bound(shown, max).text \in Seq(X)
  BY BoundIs
<1> QED
  BY <1>5, <1>6

\* What is shown of a text is part of it, but for marks.
LEMMA ApplyShows ==
  ASSUME NEW src, NEW T \in Seq(Int), NEW budget, Budgeted(budget), NEW fallback \in Nat
  PROVE  Shows(Apply(src, T, budget, fallback).text, T)
<1> DEFINE X == ToSet(T) \cup Marks
<1>1. T \in Seq(X)
  <2>1. PICK n \in Nat : n = Len(T)
    OBVIOUS
  <2>2. \A i \in 1..n : T[i] \in ToSet(T)
    BY <2>1, ToSetIs
  <2>3. T \in [1..n -> Int]
    BY <2>1, LenProperties
  <2>4. T \in [1..n -> X]
    BY <2>2, <2>3
  <2> HIDE DEF X
  <2> QED
    BY <2>4, SeqDef
<1>2. Marks \subseteq X
  OBVIOUS
<1>3. PICK t \in Seq(X) : t = Apply(src, T, budget, fallback).text
  <2> HIDE DEF X
  <2>1. Apply(src, T, budget, fallback).text \in Seq(X)
    BY <1>1, <1>2, ApplyIs
  <2> QED
    BY <2>1
<1>4. ASSUME NEW x \in ToSet(t), x > 0 PROVE x \in ToSet(T)
  <2>1. PICK i \in 1..Len(t) : t[i] = x
    BY ToSetIs
  <2>2. x \in X
    <3> HIDE DEF X
    <3> QED
      BY <2>1, ElementOfSeq
  <2>3. x \notin Marks
    BY <1>4, MarksIs
  <2> QED
    BY <2>2, <2>3
<1> QED
  BY <1>3, <1>4 DEF Shows
-----------------------------------------------------------------------------
(***************************************************************************)
(* No position of a source is in its text twice.                           *)
(***************************************************************************)
Ordered(T) == T \in Seq(Int) /\ \A i, j \in 1..Len(T) : i < j => T[i] < T[j]

LEMMA OrderedDistinct ==
  ASSUME NEW T, Ordered(T)
  PROVE  Distinct(T)
<1>1. PICK n \in Nat : n = Len(T)
  BY DEF Ordered
<1>2. \A i \in 1..n : T[i] \in Int
  BY <1>1 DEF Ordered
<1>3. \A i, j \in 1..n : i < j => T[i] < T[j]
  BY <1>1 DEF Ordered
<1>4. ASSUME NEW i \in 1..n, NEW j \in 1..n, T[i] = T[j] PROVE i = j
  BY <1>2, <1>3, <1>4
<1> QED
  BY <1>1, <1>4 DEF Distinct

LEMMA EmptyOrdered == Ordered(<<>>)
BY EmptySeq DEF Ordered

LEMMA PartOrdered ==
  ASSUME NEW T, Ordered(T), NEW m \in Int, NEW n \in Int, m >= 1, n <= Len(T)
  PROVE  Ordered(SubSeq(T, m, n))
<1>1. T \in Seq(Int) /\ \A i, j \in 1..Len(T) : i < j => T[i] < T[j]
  BY DEF Ordered
<1>2. CASE n < m
  <2>1. SubSeq(T, m, n) = <<>>
    BY <1>2, SubSeqEmpty
  <2> QED
    BY <2>1, EmptyOrdered
<1>3. CASE m <= n
  <2>1. PICK a \in Nat, b \in Nat : a = m /\ b = n /\ 1 <= a /\ a <= b + 1
    BY <1>3
  <2>2. /\ SubSeq(T, a, b) \in Seq(Int) /\ Len(SubSeq(T, a, b)) = b - a + 1
        /\ \A i \in 1..(b - a + 1) : SubSeq(T, a, b)[i] = T[a + i - 1]
    BY <1>1, <2>1, PartIs, SMTT(30)
  <2>3. ASSUME NEW i \in 1..(b - a + 1), NEW j \in 1..(b - a + 1), i < j
        PROVE  SubSeq(T, a, b)[i] < SubSeq(T, a, b)[j]
    <3>1. a + i - 1 \in 1..Len(T) /\ a + j - 1 \in 1..Len(T) /\ a + i - 1 < a + j - 1
      BY <1>1, <2>1, <2>3
    <3>2. T[a + i - 1] < T[a + j - 1]
      BY <1>1, <3>1
    <3> QED
      BY <2>2, <3>2
  <2> QED
    BY <2>1, <2>2, <2>3 DEF Ordered
<1> QED
  BY <1>2, <1>3

LEMMA WholeIs ==
  ASSUME NEW S, NEW src \in Seq(S)
  PROVE  /\ Ordered(Whole(src)) /\ Whole(src) \in Seq(Int) /\ Len(Whole(src)) = Len(src)
         /\ \A i \in 1..Len(src) : Whole(src)[i] = i
<1>1. PICK n \in Nat : n = Len(src)
  OBVIOUS
<1>2. Whole(src) = [i \in 1..n |-> i]
  BY <1>1 DEF Whole
<1>3. Whole(src) \in [1..n -> Int]
  BY <1>2
<1>4. Whole(src) \in Seq(Int) /\ Len(Whole(src)) = n
  BY <1>3, SeqDef
<1>5. \A i \in 1..n : Whole(src)[i] = i
  BY <1>2
<1>6. \A i, j \in 1..n : i < j => Whole(src)[i] < Whole(src)[j]
  BY <1>5
<1> QED
  BY <1>1, <1>4, <1>5, <1>6 DEF Ordered

TextState == [mode : {"text", "esc", "csi", "osc", "oscEsc"}, out : Seq(Int)]

LEMMA ScannedIs ==
  ASSUME NEW src, NEW s \in TextState, NEW x \in Int
  PROVE  /\ Scanned(src, s, x) \in TextState
         /\ Scanned(src, s, x).out = s.out \/ Scanned(src, s, x).out = Append(s.out, x)
<1>1. s.out \in Seq(Int) /\ s.mode \in {"text", "esc", "csi", "osc", "oscEsc"}
  BY DEF TextState
<1>2. ScanMode(s.mode, Sym(src, x)) \in {"text", "esc", "csi", "osc", "oscEsc"}
  BY <1>1 DEF ScanMode
<1>3. Append(s.out, x) \in Seq(Int)
  BY <1>1, AppendProperties
<1> DEFINE more == IF s.mode = "text" /\ Sym(src, x) \notin Controls \cup {"esc"} THEN Append(s.out, x) ELSE s.out
<1>4. more \in Seq(Int) /\ (more = s.out \/ more = Append(s.out, x))
  BY <1>1, <1>3, Zenon
<1>5. Scanned(src, s, x) = [mode |-> ScanMode(s.mode, Sym(src, x)), out |-> more]
  BY Zenon DEF Scanned
<1> HIDE DEF more
<1> QED
  BY <1>2, <1>4, <1>5 DEF TextState

LEMMA ScanRuns ==
  ASSUME NEW src, NEW T \in Seq(Int)
  PROVE  \E f : /\ f[0] = [mode |-> "text", out |-> <<>>]
                /\ \A n \in 1..Len(T) : f[n] = Scanned(src, f[n - 1], T[n])
                /\ \A n \in 0..Len(T) : f[n] \in TextState
                /\ ScanText(src, T) = f[Len(T)]
<1> DEFINE N == Len(T)
           base == [mode |-> "text", out |-> <<>>]
           Step(s, n) == Scanned(src, s, T[n])
           State == TextState
           Rec(f) == f = [n \in 0..N |-> IF n = 0 THEN base ELSE Step(f[n - 1], n)]
<1>1. N \in Nat
  OBVIOUS
<1>2. base \in State
  BY EmptySeq DEF TextState
<1>3. ASSUME NEW s \in State, NEW n \in 1..N PROVE Step(s, n) \in State
  <2>1. T[n] \in Int
    BY ElementOfSeq
  <2> QED
    BY <2>1, ScannedIs
<1> HIDE DEF N, base, Step, State
<1> USE <1>1
<1> DEFINE g == [n \in 1..N |-> [s \in State |-> Step(s, n)]]
<1>4. PICK h : Course(N, State, base, g, h)
  <2>1. g \in [1..N -> [State -> State]]
    BY <1>3
  <2> HIDE DEF g
  <2> QED
    BY <1>2, <2>1, Recursion
<1>5. \A n \in 0..N : h[n] = IF n = 0 THEN base ELSE Step(h[n - 1], n)
  <2>1. ASSUME NEW n \in 0..N, n # 0 PROVE h[n] = Step(h[n - 1], n)
    <3>1. n \in 1..N /\ n - 1 \in 0..N
      BY <2>1
    <3>2. h[n - 1] \in State /\ h[n] = g[n][h[n - 1]]
      BY <1>4, <3>1 DEF Course
    <3> QED
      BY <3>1, <3>2
  <2>2. h[0] = base
    BY <1>4 DEF Course
  <2> QED
    BY <2>1, <2>2
<1>6. h = [n \in 0..N |-> h[n]]
  BY <1>4 DEF Course
<1>7. Rec(h)
  BY <1>5, <1>6
<1> DEFINE f == CHOOSE k : Rec(k)
<1>8. Rec(f)
  <2> HIDE DEF Rec
  <2> QED
    BY <1>7, Zenon
<1>9. ScanText(src, T) = f[N]
  BY Zenon DEF ScanText, Step, base, N
<1> HIDE DEF f
<1>10. f[0] = base
  <2>1. 0 \in 0..N
    OBVIOUS
  <2> QED
    BY <1>8, <2>1
<1>11. \A n \in 1..N : f[n] = Step(f[n - 1], n)
  <2>1. ASSUME NEW n \in 1..N PROVE f[n] = Step(f[n - 1], n)
    <3>1. n \in 0..N /\ n # 0
      OBVIOUS
    <3> QED
      BY <1>8, <3>1
  <2> QED
    BY <2>1
<1> DEFINE A == [n \in 0..N |-> State]
<1>12. \A n \in 0..N : f[n] \in A[n]
  <2>1. f[0] \in A[0]
    BY <1>2, <1>10
  <2>2. ASSUME NEW n \in 1..N, f[n - 1] \in A[n - 1] PROVE f[n] \in A[n]
    <3>1. f[n - 1] \in State
      BY <2>2
    <3>2. f[n] = Step(f[n - 1], n)
      BY <1>11
    <3> QED
      BY <1>3, <3>1, <3>2
  <2> HIDE DEF A
  <2> QED
    BY <2>1, <2>2, Throughout
<1>13. \A n \in 0..N : f[n] \in State
  BY <1>12
<1> QED
  BY <1>9, <1>10, <1>11, <1>13, Zenon DEF Step, base, N, State

\* Behind n elements of T, an ordered part of them is kept.
Scanning(T, n) ==
  {s \in TextState : /\ Ordered(s.out)
                     /\ \A k \in 1..Len(s.out) : n > 0 /\ s.out[k] <= T[n]}

LEMMA ScanOrdered ==
  ASSUME NEW src, NEW T, Ordered(T)
  PROVE  Ordered(ScanText(src, T).out)
<1>1. T \in Seq(Int) /\ \A i, j \in 1..Len(T) : i < j => T[i] < T[j]
  BY DEF Ordered
<1>2. PICK N \in Nat : N = Len(T)
  BY <1>1
<1>3. PICK f : /\ f[0] = [mode |-> "text", out |-> <<>>]
               /\ \A n \in 1..Len(T) : f[n] = Scanned(src, f[n - 1], T[n])
               /\ \A n \in 0..Len(T) : f[n] \in TextState
               /\ ScanText(src, T) = f[Len(T)]
  BY <1>1, ScanRuns
<1> DEFINE A == [n \in 0..N |-> Scanning(T, n)]
<1>4. f[0] \in A[0]
  <2>1. f[0] \in TextState /\ f[0].out = <<>> /\ Len(<<>>) = 0
    BY <1>2, <1>3, EmptySeq
  <2>2. f[0] \in Scanning(T, 0)
    BY <2>1, EmptyOrdered DEF Scanning
  <2> QED
    BY <2>2
<1>5. ASSUME NEW n \in 1..N, f[n - 1] \in A[n - 1] PROVE f[n] \in A[n]
  <2>1. n \in 1..Len(T) /\ n - 1 \in 0..N /\ n \in 0..N /\ T[n] \in Int /\ n > 0
    BY <1>1, <1>2
  <2>2. PICK x \in Int : x = T[n]
    BY <2>1
  <2>3. PICK s \in TextState : s = f[n - 1] /\ s \in Scanning(T, n - 1)
    <3>1. f[n - 1] \in Scanning(T, n - 1)
      BY <1>5, <2>1
    <3>2. f[n - 1] \in TextState
      BY <3>1 DEF Scanning
    <3> QED
      BY <3>1, <3>2
  <2>4. PICK o \in Seq(Int) : o = s.out /\ Ordered(o)
    BY <2>3 DEF Scanning, TextState
  <2>5. \A k \in 1..Len(o) : o[k] < x
    <3>1. ASSUME NEW k \in 1..Len(o) PROVE o[k] < x
      <4>1. n - 1 > 0 /\ o[k] <= T[n - 1]
        BY <2>3, <2>4 DEF Scanning
      <4>2. n - 1 \in 1..Len(T) /\ n - 1 < n
        BY <2>1, <4>1
      <4>3. T[n - 1] < T[n] /\ T[n - 1] \in Int
        <5>1. \A i, j \in 1..Len(T) : i < j => T[i] < T[j]
          BY DEF Ordered
        <5>2. T[n - 1] < T[n]
          BY <2>1, <4>2, <5>1, Zenon
        <5>3. T[n - 1] \in Int
          BY <4>2, ElementOfSeq DEF Ordered
        <5> QED
          BY <5>2, <5>3
      <4>4. o[k] \in Int
        OBVIOUS
      <4> QED
        BY <2>2, <4>1, <4>3, <4>4
    <3> QED
      BY <3>1
  <2>6. /\ Scanned(src, s, x) \in TextState
        /\ Scanned(src, s, x).out = o \/ Scanned(src, s, x).out = Append(o, x)
    BY <2>4, ScannedIs
  <2>7. ASSUME NEW q \in TextState, q.out = o PROVE q \in Scanning(T, n)
    <3>1. \A k \in 1..Len(o) : o[k] <= x
      <4>1. ASSUME NEW k \in 1..Len(o) PROVE o[k] <= x
        <5>1. o[k] \in Int /\ o[k] < x
          BY <2>5
        <5> QED
          BY <5>1
      <4> QED
        BY <4>1
    <3> QED
      BY <2>1, <2>2, <2>4, <2>7, <3>1 DEF Scanning
  <2>8. ASSUME NEW q \in TextState, q.out = Append(o, x) PROVE q \in Scanning(T, n)
    <3>1. PICK l \in Nat : l = Len(o)
      OBVIOUS
    <3>2. PICK t \in Seq(Int) : t = Append(o, x) /\ Len(t) = l + 1 /\ t[l + 1] = x /\ \A k \in 1..l : t[k] = o[k]
      <4>1. /\ Append(o, x) \in Seq(Int) /\ Len(Append(o, x)) = Len(o) + 1
            /\ Append(o, x)[Len(o) + 1] = x /\ \A k \in 1..Len(o) : Append(o, x)[k] = o[k]
        BY AppendProperties
      <4> QED
        BY <3>1, <4>1, Zenon
    <3>3. \A k \in 1..l : t[k] \in Int /\ t[k] < x
      BY <2>5, <3>1, <3>2
    <3>4. \A k \in 1..Len(t) : t[k] <= x
      <4>1. ASSUME NEW k \in 1..Len(t) PROVE t[k] <= x
        <5>1. k \in 1..l \/ k = l + 1
          BY <3>2
        <5> QED
          BY <3>2, <3>3, <5>1
      <4> QED
        BY <4>1
    <3>5. \A i, j \in 1..Len(t) : i < j => t[i] < t[j]
      <4>1. ASSUME NEW i \in 1..Len(t), NEW j \in 1..Len(t), i < j PROVE t[i] < t[j]
        <5>1. i \in 1..l
          BY <3>2, <4>1
        <5>2. CASE j = l + 1
          BY <3>2, <3>3, <5>1, <5>2
        <5>3. CASE j # l + 1
          <6>1. j \in 1..l
            BY <3>2, <5>3
          <6>2. o[i] < o[j]
            BY <2>4, <3>1, <4>1, <5>1, <6>1 DEF Ordered
          <6> QED
            BY <3>2, <5>1, <6>1, <6>2
        <5> QED
          BY <5>2, <5>3
      <4> QED
        BY <4>1
    <3>6. Ordered(t)
      BY <3>5 DEF Ordered
    <3> QED
      BY <2>1, <2>2, <2>8, <3>2, <3>4, <3>6 DEF Scanning
  <2>9. f[n] = Scanned(src, s, x)
    BY <1>3, <2>1, <2>2, <2>3, Zenon
  <2>10. f[n] \in Scanning(T, n)
    BY <2>6, <2>7, <2>8, <2>9
  <2> QED
    BY <2>1, <2>10
<1>6. f[N] \in Scanning(T, N)
  <2>1. \A n \in 0..N : f[n] \in A[n]
    <3> HIDE DEF A
    <3> QED
      BY <1>4, <1>5, Throughout
  <2>2. N \in 0..N
    BY <1>2
  <2> QED
    BY <2>1, <2>2
<1> QED
  BY <1>2, <1>3, <1>6 DEF Scanning

LEMMA TrimmedIs ==
  ASSUME NEW src, NEW T, Ordered(T)
  PROVE  Ordered(Trimmed(src, T))
<1>1. PICK n \in Nat : n = Len(T)
  BY DEF Ordered
<1> DEFINE solid == {i \in 1..n : Sym(src, T[i]) # "nl"}
<1>2. Trimmed(src, T) = IF solid = {} THEN <<>> ELSE SubSeq(T, Min(solid), Max(solid))
  BY <1>1, Zenon DEF Trimmed
<1>3. solid \subseteq 1..n
  OBVIOUS
<1> HIDE DEF solid
<1>4. CASE solid = {}
  BY <1>2, <1>4, EmptyOrdered
<1>5. CASE solid # {}
  <2>1. solid \subseteq Nat /\ solid \subseteq 0..n
    BY <1>3
  <2>2. Min(solid) \in solid
    BY <1>5, <2>1, MinIs
  <2>3. Max(solid) \in solid
    BY <1>5, <2>1, MaxIs
  <2>6. Min(solid) \in Int /\ Max(solid) \in Int /\ Min(solid) >= 1 /\ Max(solid) <= Len(T)
    <3>1. Min(solid) \in 1..n /\ Max(solid) \in 1..n
      BY <1>3, <2>2, <2>3
    <3> QED
      BY <1>1, <3>1
  <2>4. PICK a \in Int, b \in Int : a = Min(solid) /\ b = Max(solid) /\ a >= 1 /\ b <= Len(T)
    BY <2>6, Zenon
  <2>5. Ordered(SubSeq(T, a, b))
    BY <2>4, PartOrdered
  <2> QED
    BY <1>2, <1>5, <2>4, <2>5, Zenon
<1> QED
  BY <1>4, <1>5

LEMMA CleanOrdered ==
  ASSUME NEW src, NEW T, Ordered(T)
  PROVE  Ordered(Clean(src, T))
BY ScanOrdered, TrimmedIs DEF Clean

LEMMA LastBreakIs ==
  ASSUME NEW src, NEW T \in Seq(Int)
  PROVE  /\ LastBreak(src, T) \in 0..Len(T)
         /\ LastBreak(src, T) > 0 => Sym(src, T[LastBreak(src, T)]) = "nl"
         /\ \A i \in 1..Len(T) : Sym(src, T[i]) = "nl" => i <= LastBreak(src, T)
<1>1. PICK n \in Nat : n = Len(T)
  OBVIOUS
<1> DEFINE S == {i \in 1..n : Sym(src, T[i]) = "nl"} \cup {0}
<1>2. LastBreak(src, T) = Max(S)
  BY <1>1, Zenon DEF LastBreak
<1>3. S \subseteq 0..n /\ S # {}
  OBVIOUS
<1>4. Max(S) \in S /\ \A y \in S : Max(S) >= y
  <2> HIDE DEF S
  <2> QED
    BY <1>3, MaxIs
<1> DEFINE m == Max(S)
<1>5. m \in S /\ \A y \in S : m >= y
  BY <1>4
<1> HIDE DEF m
<1>6. m \in 0..n /\ (m > 0 => Sym(src, T[m]) = "nl")
  BY <1>5
<1>7. ASSUME NEW i \in 1..n, Sym(src, T[i]) = "nl" PROVE i <= m
  <2>1. i \in S
    BY <1>7
  <2>2. m >= i
    BY <1>5, <2>1
  <2> QED
    BY <1>6, <2>2
<1> QED
  BY <1>1, <1>2, <1>6, <1>7, Zenon DEF m

LEMMA FramedOrdered ==
  ASSUME NEW file \in Seq(Symbols), NEW cap \in Nat
  PROVE  Ordered(FramedStderr(file, cap))
<1>1. PICK S : file \o Footer \in Seq(S)
  <2>1. file \in Seq(Symbols \cup {"nl", "size", "#"})
    BY SeqMonotonic
  <2>2. Footer \in Seq(Symbols \cup {"nl", "size", "#"})
    BY DEF Footer
  <2> QED
    BY <2>1, <2>2, ConcatProperties
<1>2. PICK src \in Seq(S) : src = file \o Footer
  BY <1>1
<1>3. Ordered(Whole(src)) /\ Len(Whole(src)) = Len(src)
  BY WholeIs
<1>4. PICK a \in Int, n \in Int : a = Monus(Len(file), cap) + 1 /\ a >= 1 /\ n = Len(src)
  <2>1. Monus(Len(file), cap) \in Nat
    BY DEF Monus
  <2>2. Monus(Len(file), cap) + 1 \in Int /\ Monus(Len(file), cap) + 1 >= 1 /\ Len(src) \in Int
    BY <2>1
  <2> QED
    BY <2>2, Zenon
<1>5. Ordered(SubSeq(Whole(src), a, n))
  BY <1>3, <1>4, PartOrdered
<1>6. FramedStderr(file, cap) = Clean(src, SubSeq(Whole(src), a, n))
  BY <1>2, <1>4, Zenon DEF FramedStderr
<1> QED
  BY <1>5, <1>6, CleanOrdered

LEMMA TailOrdered ==
  ASSUME NEW file \in Seq(Symbols), NEW cap \in Nat
  PROVE  Ordered(StderrTail(file, cap))
<1>1. PICK src, text : src = file \o Footer /\ text = FramedStderr(file, cap)
  OBVIOUS
<1>2. Ordered(text) /\ text \in Seq(Int)
  BY <1>1, FramedOrdered DEF Ordered
<1>3. PICK broken \in Int : broken = LastBreak(src, text) /\ broken <= Len(text)
  BY <1>2, LastBreakIs
<1>4. Ordered(SubSeq(text, 1, broken - 1))
  <2>1. broken - 1 \in Int /\ 1 \in Int /\ 1 >= 1 /\ broken - 1 <= Len(text)
    BY <1>2, <1>3
  <2> QED
    BY <1>2, <2>1, PartOrdered
<1>5. PICK tail : tail = SubSeq(text, 1, broken - 1) /\ Ordered(tail)
  BY <1>4
<1> DEFINE breaks == {i \in 1..Len(tail) : Sym(src, tail[i]) = "nl"}
           readable == SubSeq(Syms(src, text), broken + 1, Len(text)) = <<"size", "#">>
<1>6. StderrTail(file, cap) =
        IF text = <<>> \/ Sym(src, IF text = <<>> THEN 0 ELSE Last(text)) # "#" THEN text
        ELSE IF ~readable \/ Len(file) <= cap THEN tail
        ELSE IF breaks = {} THEN <<>> ELSE SubSeq(tail, Min(breaks) + 1, Len(tail))
  BY <1>1, <1>3, <1>5, Zenon DEF StderrTail
<1>7. breaks = {} \/ Ordered(SubSeq(tail, Min(breaks) + 1, Len(tail)))
  <2>1. ASSUME breaks # {} PROVE Ordered(SubSeq(tail, Min(breaks) + 1, Len(tail)))
    <3>1. tail \in Seq(Int)
      BY <1>5 DEF Ordered
    <3>2. breaks \subseteq Nat
      OBVIOUS
    <3>3. Min(breaks) \in breaks
      <4> HIDE DEF breaks
      <4> QED
        BY <2>1, <3>2, MinIs
    <3>4. Min(breaks) \in Nat
      <4> HIDE DEF breaks
      <4> QED
        BY <3>2, <3>3
    <3>5. PICK a \in Int, n \in Int : a = Min(breaks) + 1 /\ n = Len(tail) /\ a >= 1
      <4> HIDE DEF breaks
      <4> QED
        BY <3>1, <3>4
    <3>6. Ordered(SubSeq(tail, a, n))
      <4>1. n <= Len(tail)
        BY <3>5
      <4> QED
        BY <1>5, <3>5, <4>1, PartOrdered, Zenon
    <3> QED
      BY <3>5, <3>6, Zenon
  <2> QED
    BY <2>1
<1> HIDE DEF breaks, readable
<1> QED
  BY <1>2, <1>5, <1>6, <1>7, EmptyOrdered, Zenon

\* Marks behind a text.
LEMMA MarkedDistinct ==
  ASSUME NEW T, Ordered(T), NEW m \in Seq(Int), \A i \in 1..Len(m) : m[i] <= 0
  PROVE  T \o m \in Seq(Int) /\ Distinct(T \o m)
<1>1. PICK n \in Nat, k \in Nat : n = Len(T) /\ k = Len(m)
  BY DEF Ordered
<1>2. PICK t \in Seq(Int) : /\ t = T \o m /\ Len(t) = n + k
                            /\ \A i \in 1..n : t[i] = T[i]
                            /\ \A i \in (n + 1)..(n + k) : t[i] = m[i - n]
  <2>1. T \in Seq(Int)
    BY DEF Ordered
  <2> QED
    <3>1. /\ T \o m \in Seq(Int) /\ Len(T \o m) = Len(T) + Len(m)
          /\ \A i \in 1..Len(T) : (T \o m)[i] = T[i]
          /\ \A i \in (Len(T) + 1)..(Len(T) + Len(m)) : (T \o m)[i] = m[i - Len(T)]
      BY <2>1, Joining
    <3> QED
      BY <1>1, <3>1, Zenon
<1>3. \A i \in (n + 1)..(n + k) : t[i] <= 0
  <2>1. ASSUME NEW i \in (n + 1)..(n + k) PROVE t[i] <= 0
    <3>1. i - n \in 1..Len(m)
      BY <1>1
    <3> QED
      BY <1>2, <3>1
  <2> QED
    BY <2>1
<1>4. Distinct(T)
  BY OrderedDistinct
<1>5. ASSUME NEW i \in 1..Len(t), NEW j \in 1..Len(t), t[i] = t[j], t[i] > 0 PROVE i = j
  <2>1. t[i] \in Int /\ t[j] \in Int
    OBVIOUS
  <2>4. i \in 1..(n + k) /\ j \in 1..(n + k)
    BY <1>2
  <2>5. i \notin (n + 1)..(n + k) /\ j \notin (n + 1)..(n + k)
    <3>1. ~(t[i] <= 0) /\ ~(t[j] <= 0)
      BY <1>5, <2>1
    <3> QED
      BY <1>3, <3>1, Zenon
  <2>2. i \in 1..n /\ j \in 1..n
    BY <2>4, <2>5
  <2>3. T[i] = T[j] /\ T[i] > 0
    BY <1>2, <1>5, <2>2
  <2> QED
    BY <1>1, <1>4, <2>2, <2>3 DEF Distinct
<1> QED
  BY <1>2, <1>5 DEF Distinct

\* What the guidance puts behind a text: marks only.
Behind(T, m) == m \in Seq(Int) /\ \A i \in 1..Len(m) : m[i] \in {NewLine, Guidance}

Marked(src, T) == \E m : Behind(T, m) /\ WithGuidance(src, T) = T \o m

LEMMA GuidanceIs ==
  ASSUME NEW src, NEW T \in Seq(Int)
  PROVE  Marked(src, T)
<1> DEFINE gap == IF T = <<>> \/ Sym(src, Last(T)) = "nl" THEN <<>> ELSE <<NewLine>>
<1>1. WithGuidance(src, T) = T \o gap \o <<Guidance>>
  BY Zenon DEF WithGuidance
<1>2. gap = <<>> \/ gap = <<NewLine>>
  OBVIOUS
<1> HIDE DEF gap
<1>3. gap \in Seq(Int) /\ <<Guidance>> \in Seq(Int)
  <2>1. NewLine \in Int /\ Guidance \in Int
    BY DEF NewLine, Guidance
  <2>2. <<NewLine>> \in Seq(Int) /\ <<Guidance>> \in Seq(Int) /\ <<>> \in Seq(Int)
    BY <2>1, EmptySeq
  <2> QED
    BY <1>2, <2>2, Zenon
<1>4. PICK m \in Seq(Int) : m = gap \o <<Guidance>>
  BY <1>3, ConcatProperties
<1>5. T \o gap \o <<Guidance>> = T \o m
  BY <1>3, <1>4, ConcatAssociative, SMTT(30)
<1>6. \A i \in 1..Len(m) : m[i] \in {NewLine, Guidance}
  <2>1. CASE gap = <<>>
    <3>1. m = <<Guidance>>
      BY <1>3, <1>4, <2>1, ConcatEmptySeq
    <3> QED
      BY <3>1
  <2>2. CASE gap = <<NewLine>>
    <3>1. PICK a \in Int, b \in Int : a = NewLine /\ b = Guidance
      BY DEF NewLine, Guidance
    <3>2. m = <<a>> \o <<b>>
      BY <1>4, <2>2, <3>1, Zenon
    <3>3. <<a>> \in Seq(Int) /\ <<b>> \in Seq(Int) /\ Len(<<a>>) = 1 /\ Len(<<b>>) = 1
      OBVIOUS
    <3>4. /\ Len(m) = 2 /\ \A i \in 1..1 : m[i] = <<a>>[i]
          /\ \A i \in 2..2 : m[i] = <<b>>[i - 1]
      BY <3>2, <3>3, Joining
    <3> QED
      BY <3>1, <3>4
  <2> QED
    BY <1>2, <2>1, <2>2
<1> QED
  BY <1>1, <1>4, <1>5, <1>6 DEF Marked, Behind

MarkAt(src, x) == x <= 0 /\ Sym(src, x) \in {"nl", "mark"}

LEMMA MarkBehind ==
  ASSUME NEW src
  PROVE  MarkAt(src, NewLine) /\ MarkAt(src, Guidance)
<1>1. NewLine = -1 /\ Guidance = -2
  BY DEF NewLine, Guidance
<1>2. Sym(src, NewLine) = "nl"
  BY <1>1 DEF Sym
<1>3. Sym(src, Guidance) = "mark"
  BY <1>1 DEF Sym
<1>4. NewLine <= 0 /\ Guidance <= 0
  BY <1>1
<1> QED
  BY <1>2, <1>3, <1>4 DEF MarkAt

LEMMA ErrTextIs ==
  ASSUME NEW file \in Seq(Symbols), NEW timedOut \in BOOLEAN
  PROVE  ErrText(file, timedOut) \in Seq(Int) /\ Distinct(ErrText(file, timedOut))
<1>1. CASE timedOut
  <2>1. PICK src, T : src = ErrSource(file, TRUE) /\ T = StderrTail(file, TailCap)
    OBVIOUS
  <2>2. Ordered(T)
    <3>1. TailCap \in Nat
      BY ExecAssumed DEF ExecAssumption
    <3> QED
      BY <2>1, <3>1, TailOrdered
  <2>3. ErrText(file, timedOut) = WithGuidance(src, T)
    BY <1>1, <2>1, Zenon DEF ErrText
  <2>4. PICK m : Behind(T, m) /\ WithGuidance(src, T) = T \o m
    <3>1. T \in Seq(Int)
      BY <2>2 DEF Ordered
    <3>2. Marked(src, T)
      BY <3>1, GuidanceIs
    <3> QED
      BY <3>2, Zenon DEF Marked
  <2>5. m \in Seq(Int)
    BY <2>4 DEF Behind
  <2>6. ASSUME NEW i \in 1..Len(m) PROVE m[i] <= 0
    <3>1. m[i] = NewLine \/ m[i] = Guidance
      BY <2>4 DEF Behind
    <3>2. MarkAt(src, m[i])
      BY <3>1, MarkBehind, Zenon
    <3> QED
      BY <3>2 DEF MarkAt
  <2>7. T \o m \in Seq(Int) /\ Distinct(T \o m)
    BY <2>2, <2>5, <2>6, MarkedDistinct
  <2> QED
    BY <2>3, <2>4, <2>7, Zenon
<1>2. CASE ~timedOut
  <2>1. ErrText(file, timedOut) = Clean(file, Whole(file))
    BY <1>2, Zenon DEF ErrText
  <2>2. Ordered(Whole(file))
    BY WholeIs
  <2>3. Ordered(Clean(file, Whole(file)))
    BY <2>2, CleanOrdered
  <2>4. Clean(file, Whole(file)) \in Seq(Int) /\ Distinct(Clean(file, Whole(file)))
    BY <2>3, OrderedDistinct DEF Ordered
  <2> QED
    BY <2>1, <2>4
<1> QED
  BY <1>1, <1>2
-----------------------------------------------------------------------------
(***************************************************************************)
(* What is left of an interrupted command's stderr, without escapes: its   *)
(* end, from the beginning of a line on.                                   *)
(***************************************************************************)

\* The positions from s to n.
Stretch(T, s, n) == T \in Seq(Int) /\ Len(T) = n - s + 1 /\ \A k \in 1..Len(T) : T[k] = s + k - 1

LEMMA StretchPart ==
  ASSUME NEW T, NEW s \in Int, NEW n \in Int, Stretch(T, s, n),
         NEW a \in Nat, NEW b \in Nat, 1 <= a, a <= b + 1, b <= Len(T)
  PROVE  Stretch(SubSeq(T, a, b), s + a - 1, s + b - 1)
<1>1. T \in Seq(Int) /\ \A k \in 1..Len(T) : T[k] = s + k - 1
  BY DEF Stretch
<1>2. PICK t \in Seq(Int) : /\ t = SubSeq(T, a, b) /\ Len(t) = b - a + 1
                            /\ \A i \in 1..(b - a + 1) : t[i] = T[a + i - 1]
  <2>1. /\ SubSeq(T, a, b) \in Seq(Int) /\ Len(SubSeq(T, a, b)) = b - a + 1
        /\ \A i \in 1..(b - a + 1) : SubSeq(T, a, b)[i] = T[a + i - 1]
    BY <1>1, PartIs
  <2> QED
    BY <2>1, Zenon
<1>3. ASSUME NEW k \in 1..Len(t) PROVE t[k] = s + a - 1 + k - 1
  <2>1. k \in 1..(b - a + 1) /\ a + k - 1 \in 1..Len(T)
    BY <1>1, <1>2
  <2>2. t[k] = T[a + k - 1]
    BY <1>2, <2>1
  <2>3. T[a + k - 1] = s + (a + k - 1) - 1
    BY <1>1, <2>1
  <2> QED
    BY <2>2, <2>3
<1>4. Len(t) = s + b - 1 - (s + a - 1) + 1
  BY <1>2, SMTT(30)
<1>5. Stretch(t, s + a - 1, s + b - 1)
  BY <1>3, <1>4 DEF Stretch
<1> QED
  BY <1>2, <1>5, Zenon

\* Text without escapes and control bytes is scanned as it is.
LEMMA PlainScan ==
  ASSUME NEW src, NEW T \in Seq(Int),
         \A i \in 1..Len(T) : Sym(src, T[i]) \notin Controls \cup {"esc"}
  PROVE  ScanText(src, T).out = T
<1>1. PICK N \in Nat : N = Len(T)
  OBVIOUS
<1>2. PICK f : /\ f[0] = [mode |-> "text", out |-> <<>>]
               /\ \A n \in 1..Len(T) : f[n] = Scanned(src, f[n - 1], T[n])
               /\ \A n \in 0..Len(T) : f[n] \in TextState
               /\ ScanText(src, T) = f[Len(T)]
  BY ScanRuns
<1> DEFINE A == [n \in 0..N |-> {[mode |-> "text", out |-> SubSeq(T, 1, n)]}]
<1>3. f[0] \in A[0]
  <2>1. SubSeq(T, 1, 0) = <<>>
    BY SubSeqEmpty
  <2>2. A[0] = {[mode |-> "text", out |-> SubSeq(T, 1, 0)]}
    BY <1>1
  <2> HIDE DEF A
  <2> QED
    BY <1>2, <2>1, <2>2
<1>4. ASSUME NEW n \in 1..N, f[n - 1] \in A[n - 1] PROVE f[n] \in A[n]
  <2>1. n \in 1..Len(T) /\ n - 1 \in 0..N /\ n \in 0..N
    BY <1>1
  <2>2. /\ A[n - 1] = {[mode |-> "text", out |-> SubSeq(T, 1, n - 1)]}
        /\ A[n] = {[mode |-> "text", out |-> SubSeq(T, 1, n)]}
    BY <2>1
  <2> HIDE DEF A
  <2>3. f[n - 1] = [mode |-> "text", out |-> SubSeq(T, 1, n - 1)]
    BY <1>4, <2>2
  <2>4. PICK c : c = Sym(src, T[n]) /\ c \notin Controls \cup {"esc"}
    BY <2>1
  <2>5. ScanMode("text", c) = "text"
    BY <2>4 DEF ScanMode
  <2>6. f[n] = Scanned(src, f[n - 1], T[n])
    BY <1>2, <2>1
  <2>7. Scanned(src, f[n - 1], T[n]) = [mode |-> "text", out |-> Append(SubSeq(T, 1, n - 1), T[n])]
    <3>1. f[n - 1].mode = "text" /\ f[n - 1].out = SubSeq(T, 1, n - 1)
      BY <2>3
    <3> QED
      BY <2>4, <2>5, <3>1, Zenon DEF Scanned
  <2>8. Append(SubSeq(T, 1, n - 1), T[n]) = SubSeq(T, 1, n)
    <3>1. PICK p \in Nat : p = n - 1
      BY <2>1
    <3>2. SubSeq(T, 1, p) \in Seq(Int)
      <4>1. 1 \in Nat /\ 1 <= 1 /\ 1 <= p + 1 /\ p <= Len(T)
        BY <2>1, <3>1
      <4> QED
        BY <4>1, PartIs
    <3>3. Append(SubSeq(T, 1, p), T[n]) = SubSeq(T, 1, p) \o <<T[n]>>
      <4>1. T[n] \in Int
        BY <2>1
      <4> QED
        BY <3>2, <4>1, AppendIsConcat
    <3>4. SubSeq(T, 1, n) = SubSeq(T, 1, n - 1) \o <<T[n]>>
      <4>1. 1 \in 1..Len(T) /\ n \in 1..Len(T)
        BY <2>1
      <4> QED
        BY <4>1, SubSeqRecursiveSecond
    <3> QED
      BY <3>1, <3>3, <3>4
  <2> QED
    BY <2>2, <2>6, <2>7, <2>8
<1>5. f[N] \in A[N]
  <2>1. \A n \in 0..N : f[n] \in A[n]
    <3> HIDE DEF A
    <3> QED
      BY <1>3, <1>4, Throughout
  <2>2. N \in 0..N
    OBVIOUS
  <2> HIDE DEF A
  <2> QED
    BY <2>1, <2>2
<1>6. A[N] = {[mode |-> "text", out |-> SubSeq(T, 1, N)]}
  BY <1>1
<1> HIDE DEF A
<1>7. f[N].out = SubSeq(T, 1, N)
  BY <1>5, <1>6
<1>8. SubSeq(T, 1, N) = T
  BY <1>1, SubSeqFull
<1> QED
  BY <1>1, <1>2, <1>7, <1>8

\* The source of an interrupted command's stderr.
Framed(src, file, N) ==
  /\ N = Len(file) /\ src = file \o Footer /\ Len(src) = N + 3
  /\ \A i \in 1..N : Sym(src, i) = file[i]
  /\ Sym(src, N + 1) = "nl" /\ Sym(src, N + 2) = "size" /\ Sym(src, N + 3) = "#"

LEMMA FramedIs ==
  ASSUME NEW file \in Seq(Symbols)
  PROVE  /\ Framed(file \o Footer, file, Len(file))
         /\ \E S : file \o Footer \in Seq(S)
<1> DEFINE S == Symbols \cup {"nl", "size", "#"}
<1>1. file \in Seq(S) /\ Footer \in Seq(S)
  <2>1. file \in Seq(S)
    BY SeqMonotonic
  <2>2. Footer \in Seq(S)
    BY DEF Footer
  <2> QED
    BY <2>1, <2>2
<1>2. PICK N \in Nat : N = Len(file)
  OBVIOUS
<1>3. Len(Footer) = 3 /\ Footer[1] = "nl" /\ Footer[2] = "size" /\ Footer[3] = "#"
  BY DEF Footer
<1> HIDE DEF S
<1>4. PICK src \in Seq(S) : /\ src = file \o Footer /\ Len(src) = N + 3
                            /\ \A i \in 1..N : src[i] = file[i]
                            /\ \A i \in (N + 1)..(N + 3) : src[i] = Footer[i - N]
  <2>1. /\ file \o Footer \in Seq(S) /\ Len(file \o Footer) = Len(file) + Len(Footer)
        /\ \A i \in 1..Len(file) : (file \o Footer)[i] = file[i]
        /\ \A i \in (Len(file) + 1)..(Len(file) + Len(Footer)) : (file \o Footer)[i] = Footer[i - Len(file)]
    BY <1>1, Joining
  <2> QED
    BY <1>2, <1>3, <2>1, Zenon
<1>5. \A i \in 1..(N + 3) : Sym(src, i) = src[i]
  <2>1. ASSUME NEW i \in 1..(N + 3) PROVE Sym(src, i) = src[i]
    <3>1. i > 0 /\ i # NewLine
      BY DEF NewLine
    <3> QED
      BY <3>1, Zenon DEF Sym
  <2> QED
    BY <2>1
<1>6. \A i \in 1..N : Sym(src, i) = file[i]
  <2>1. \A i \in 1..N : i \in 1..(N + 3)
    OBVIOUS
  <2> QED
    BY <1>4, <1>5, <2>1, Zenon
<1>7. src[N + 1] = "nl" /\ src[N + 2] = "size" /\ src[N + 3] = "#"
  <2>1. /\ N + 1 \in (N + 1)..(N + 3) /\ N + 2 \in (N + 1)..(N + 3) /\ N + 3 \in (N + 1)..(N + 3)
        /\ N + 1 - N = 1 /\ N + 2 - N = 2 /\ N + 3 - N = 3
    OBVIOUS
  <2>2. src[N + 1] = Footer[N + 1 - N] /\ src[N + 2] = Footer[N + 2 - N] /\ src[N + 3] = Footer[N + 3 - N]
    <3>1. src[N + 1] = Footer[N + 1 - N]
      BY <1>4, <2>1
    <3>2. src[N + 2] = Footer[N + 2 - N]
      BY <1>4, <2>1
    <3>3. src[N + 3] = Footer[N + 3 - N]
      BY <1>4, <2>1
    <3> QED
      BY <3>1, <3>2, <3>3
  <2> QED
    BY <1>3, <2>1, <2>2, Zenon
<1>8. N + 1 \in 1..(N + 3) /\ N + 2 \in 1..(N + 3) /\ N + 3 \in 1..(N + 3)
  OBVIOUS
<1> QED
  BY <1>2, <1>4, <1>5, <1>6, <1>7, <1>8, Zenon DEF Framed

\* What the resync printed: from s0 on, behind the breaks that were trimmed.
LEMMA FramedPlain ==
  ASSUME NEW file \in Seq(Symbols), Plain(file), NEW cap \in Nat,
         NEW src, NEW N \in Nat, Framed(src, file, N)
  PROVE  \E s \in Nat : /\ Monus(N, cap) + 1 <= s /\ s <= N + 2
                        /\ Stretch(FramedStderr(file, cap), s, N + 3)
                        /\ s > Monus(N, cap) + 1 => Sym(src, s - 1) = "nl"
<1>1. PICK c \in Nat : c = Monus(N, cap) /\ c <= N
  <2>1. Monus(N, cap) \in Nat /\ Monus(N, cap) <= N
    BY DEF Monus
  <2> QED
    BY <2>1
<1>2. /\ N = Len(file) /\ src = file \o Footer /\ Len(src) = N + 3
      /\ \A i \in 1..N : Sym(src, i) = file[i]
      /\ Sym(src, N + 1) = "nl" /\ Sym(src, N + 2) = "size" /\ Sym(src, N + 3) = "#"
  BY DEF Framed
<1>3. PICK S : src \in Seq(S)
  BY <1>2, FramedIs
<1>4. Stretch(Whole(src), 1, N + 3)
  <2>1. /\ Whole(src) \in Seq(Int) /\ Len(Whole(src)) = Len(src)
        /\ \A i \in 1..Len(src) : Whole(src)[i] = i
    BY <1>3, WholeIs
  <2> QED
    BY <1>2, <2>1 DEF Stretch
<1>5. PICK T : T = SubSeq(Whole(src), c + 1, N + 3) /\ Stretch(T, c + 1, N + 3)
  <2>1. Len(Whole(src)) = N + 3
    BY <1>4 DEF Stretch
  <2>2. Stretch(SubSeq(Whole(src), c + 1, N + 3), 1 + (c + 1) - 1, 1 + (N + 3) - 1)
    <3>1. c + 1 \in Nat /\ N + 3 \in Nat /\ 1 <= c + 1 /\ c + 1 <= N + 3 + 1 /\ N + 3 <= Len(Whole(src))
      BY <1>1, <2>1
    <3>2. 1 \in Int /\ N + 3 \in Int
      OBVIOUS
    <3> QED
      BY <1>4, <3>1, <3>2, StretchPart
  <2>3. 1 + (c + 1) - 1 = c + 1 /\ 1 + (N + 3) - 1 = N + 3
    OBVIOUS
  <2> QED
    BY <2>2, <2>3, Zenon
<1>6. PICK L \in Nat : T \in Seq(Int) /\ L = Len(T) /\ L = N + 3 - c /\ \A k \in 1..L : T[k] = c + k
  <2>1. N + 3 - c \in Nat /\ N + 3 - (c + 1) + 1 = N + 3 - c
    BY <1>1
  <2>2. T \in Seq(Int) /\ Len(T) = N + 3 - c
    BY <1>5, <2>1 DEF Stretch
  <2>3. \A k \in 1..(N + 3 - c) : T[k] = c + 1 + k - 1 /\ c + 1 + k - 1 = c + k
    BY <1>5, <2>2 DEF Stretch
  <2> QED
    BY <2>1, <2>2, <2>3, Zenon
<1>7. \A i \in 1..(N + 3) : Sym(src, i) \notin Controls \cup {"esc"}
  <2>1. ASSUME NEW i \in 1..(N + 3) PROVE Sym(src, i) \notin Controls \cup {"esc"}
    <3>1. CASE i \in 1..N
      <4>1. Sym(src, i) \in ToSet(file)
        BY <1>2, <3>1, ToSetIs
      <4> QED
        BY <4>1 DEF Plain
    <3>2. CASE i \notin 1..N
      <4>1. i = N + 1 \/ i = N + 2 \/ i = N + 3
        BY <3>2
      <4> QED
        BY <1>2, <4>1 DEF Controls
    <3> QED
      BY <3>1, <3>2
  <2> QED
    BY <2>1
<1>8. ScanText(src, T).out = T
  <2>1. ASSUME NEW k \in 1..Len(T) PROVE Sym(src, T[k]) \notin Controls \cup {"esc"}
    <3>2. L = N + 3 - c
      BY <1>6, Zenon
    <3>3. k \in 1..L /\ c + k \in 1..(N + 3)
      BY <1>6, <3>2
    <3>1. T[k] \in 1..(N + 3)
      BY <1>6, <3>3, Zenon
    <3> QED
      BY <1>7, <3>1
  <2> QED
    BY <1>6, <2>1, PlainScan
<1> DEFINE solid == {i \in 1..L : Sym(src, T[i]) # "nl"}
<1>9. FramedStderr(file, cap) = IF solid = {} THEN <<>> ELSE SubSeq(T, Min(solid), Max(solid))
  <2>1. FramedStderr(file, cap) = Clean(src, T)
    BY <1>1, <1>2, <1>5, Zenon DEF FramedStderr
  <2>2. Clean(src, T) = Trimmed(src, T)
    BY <1>8, Zenon DEF Clean
  <2>3. Trimmed(src, T) = IF solid = {} THEN <<>> ELSE SubSeq(T, Min(solid), Max(solid))
    BY <1>6, Zenon DEF Trimmed
  <2> QED
    BY <2>1, <2>2, <2>3, Zenon
<1>10. L \in solid /\ L - 1 \in solid
  <2>3. L = N + 3 - c /\ c <= N
    BY <1>1, <1>6, Zenon
  <2>2. L \in 1..L /\ L - 1 \in 1..L /\ c + L = N + 3 /\ c + (L - 1) = N + 2
    BY <2>3
  <2>1. L \in 1..L /\ L - 1 \in 1..L /\ T[L] = N + 3 /\ T[L - 1] = N + 2
    BY <1>6, <2>2, Zenon
  <2> QED
    BY <1>2, <2>1
<1>11. solid \subseteq Nat /\ solid \subseteq 0..L
  OBVIOUS
<1>12. \A i \in 1..L : i \in solid <=> Sym(src, c + i) # "nl"
  BY <1>6
<1> HIDE DEF solid
<1>13. PICK m \in Nat : m = Min(solid) /\ m \in solid /\ \A y \in solid : m <= y
  <2>1. Min(solid) \in solid /\ \A y \in solid : Min(solid) <= y
    BY <1>10, <1>11, MinIs
  <2> QED
    BY <1>11, <2>1
<1>14. Max(solid) = L
  <2>1. Max(solid) \in solid /\ \A y \in solid : Max(solid) >= y
    BY <1>10, <1>11, MaxIs
  <2>2. Max(solid) \in 0..L /\ Max(solid) >= L
    BY <1>10, <1>11, <2>1
  <2> QED
    BY <2>2
<1>15. 1 <= m /\ m <= L - 1
  <2>1. m # 0
    BY <1>13 DEF solid
  <2> QED
    BY <1>10, <1>13, <2>1
<1>16. Stretch(SubSeq(T, m, L), c + 1 + m - 1, c + 1 + L - 1)
  <2>1. c + 1 \in Int /\ N + 3 \in Int /\ m <= L + 1 /\ L <= Len(T)
    BY <1>6, <1>15
  <2> QED
    BY <1>5, <1>15, <2>1, StretchPart
<1>17. FramedStderr(file, cap) = SubSeq(T, m, L)
  BY <1>9, <1>10, <1>13, <1>14, Zenon
<1>18. c + 1 + m - 1 = c + m /\ c + 1 + L - 1 = N + 3
  BY <1>6
<1>19. Stretch(FramedStderr(file, cap), c + m, N + 3)
  BY <1>16, <1>17, <1>18, Zenon
<1>20. ASSUME c + m > c + 1 PROVE Sym(src, c + m - 1) = "nl"
  <2>1. m - 1 \in 1..L /\ ~(m <= m - 1) /\ c + (m - 1) = c + m - 1
    BY <1>15, <1>20
  <2>2. m - 1 \notin solid
    BY <1>13, <2>1
  <2>3. Sym(src, c + (m - 1)) = "nl"
    BY <1>12, <2>1, <2>2
  <2> QED
    BY <2>1, <2>3, Zenon
<1>21. c + m \in Nat /\ c + 1 <= c + m /\ c + m <= N + 2
  <2>1. L = N + 3 - c
    BY <1>6, Zenon
  <2> QED
    BY <1>15, <2>1
<1>22. Monus(N, cap) = c
  BY <1>1
<1>23. PICK s \in Nat : s = c + m
  BY <1>21
<1>24. c + 1 <= s /\ s <= N + 2 /\ Stretch(FramedStderr(file, cap), s, N + 3) /\ (s > c + 1 => Sym(src, s - 1) = "nl")
  <2>1. c + m > c + 1 => Sym(src, c + m - 1) = "nl"
    BY <1>20
  <2> QED
    <3>1. Stretch(FramedStderr(file, cap), s, N + 3)
      BY <1>19, <1>23, Zenon
    <3>2. c + 1 <= s /\ s <= N + 2
      BY <1>21, <1>23
    <3>3. s > c + 1 => Sym(src, s - 1) = "nl"
      BY <1>23, <2>1
    <3> QED
      BY <3>1, <3>2, <3>3
<1> QED
  BY <1>22, <1>24, Zenon

\* The tail of a file is empty, or its end from the beginning of a line on.
TailShape(file, T) ==
  T = <<>> \/ \E s \in 1..Len(file) : Stretch(T, s, Len(file)) /\ (s > 1 => file[s - 1] = "nl")

\* Where the lines of the tail end, and what the resync appended.
LEMMA FooterIs ==
  ASSUME NEW src, NEW file, NEW N \in Nat, Framed(src, file, N),
         NEW s \in Nat, 1 <= s, s <= N + 2, NEW text, Stretch(text, s, N + 3)
  PROVE  /\ text # <<>> /\ Sym(src, Last(text)) = "#"
         /\ LastBreak(src, text) = N + 2 - s
         /\ SubSeq(Syms(src, text), LastBreak(src, text) + 1, Len(text)) = <<"size", "#">>
<1>1. PICK L \in Nat : /\ L = Len(text) /\ L = N + 4 - s /\ L >= 2
                       /\ text \in Seq(Int) /\ \A k \in 1..L : text[k] = s + k - 1
  <2>1. N + 4 - s \in Nat /\ N + 4 - s >= 2 /\ N + 3 - s + 1 = N + 4 - s
    OBVIOUS
  <2>2. text \in Seq(Int) /\ Len(text) = N + 3 - s + 1 /\ \A k \in 1..Len(text) : text[k] = s + k - 1
    BY DEF Stretch
  <2> QED
    BY <2>1, <2>2
<1>2. /\ Sym(src, N + 1) = "nl" /\ Sym(src, N + 2) = "size" /\ Sym(src, N + 3) = "#"
  BY DEF Framed
<1>3. text[L] = N + 3 /\ text[L - 1] = N + 2
  <2>1. L \in 1..L /\ L - 1 \in 1..L /\ s + L - 1 = N + 3 /\ s + (L - 1) - 1 = N + 2
    BY <1>1
  <2> QED
    BY <1>1, <2>1
<1>4. text # <<>> /\ Last(text) = N + 3
  <2>1. text # <<>>
    <3>1. Len(<<>>) = 0
      BY EmptySeq
    <3>2. Len(text) # 0
      BY <1>1
    <3> QED
      BY <3>1, <3>2, Zenon
  <2> QED
    BY <1>1, <1>3, <2>1 DEF Last
<1>5. PICK b \in Nat : /\ b = LastBreak(src, text) /\ b <= L
                       /\ b > 0 => Sym(src, text[b]) = "nl"
                       /\ \A i \in 1..L : Sym(src, text[i]) = "nl" => i <= b
  <2>1. /\ LastBreak(src, text) \in 0..L
        /\ LastBreak(src, text) > 0 => Sym(src, text[LastBreak(src, text)]) = "nl"
        /\ \A i \in 1..L : Sym(src, text[i]) = "nl" => i <= LastBreak(src, text)
    BY <1>1, LastBreakIs
  <2>2. LastBreak(src, text) \in Nat /\ LastBreak(src, text) <= L
    BY <2>1
  <2> QED
    BY <2>1, <2>2
<1>6. b = N + 2 - s
  <2>1. b # L /\ b # L - 1
    <3>1. L - 1 > 0 /\ L > 0
      BY <1>1
    <3> QED
      BY <1>2, <1>3, <1>5, <3>1
  <2>2. CASE s <= N + 1
    <3>1. N + 2 - s \in 1..L /\ s + (N + 2 - s) - 1 = N + 1
      BY <1>1, <2>2
    <3>2. text[N + 2 - s] = N + 1
      BY <1>1, <3>1
    <3>3. N + 2 - s <= b
      BY <1>2, <1>5, <3>1, <3>2
    <3>4. b \in Int /\ L \in Int /\ b <= L /\ b # L /\ b # L - 1
      BY <1>5, <2>1
    <3>5. L = N + 4 - s
      BY <1>1
    <3> QED
      BY <3>3, <3>4, <3>5
  <2>3. CASE s = N + 2
    <3>1. L = 2
      BY <1>1, <2>3
    <3> QED
      BY <1>5, <2>1, <2>3, <3>1
  <2> QED
    BY <2>2, <2>3
<1>7. SubSeq(Syms(src, text), b + 1, L) = <<"size", "#">>
  <2>1. PICK S : /\ Syms(src, text) \in Seq(S) /\ Len(Syms(src, text)) = L
                 /\ \A i \in 1..L : Syms(src, text)[i] = Sym(src, text[i])
    BY <1>1, SymsIs
  <2>2. PICK y \in Seq(S) : y = Syms(src, text) /\ Len(y) = L /\ \A i \in 1..L : y[i] = Sym(src, text[i])
    BY <2>1
  <2>3. b + 1 \in Nat /\ 1 <= b + 1 /\ b + 1 <= L + 1 /\ L <= Len(y) /\ b + 1 = L - 1
    BY <1>1, <1>6, <2>2
  <2>4. PICK z \in Seq(S) : /\ z = SubSeq(y, b + 1, L) /\ Len(z) = L - (b + 1) + 1
                            /\ \A i \in 1..(L - (b + 1) + 1) : z[i] = y[b + 1 + i - 1]
    <3>1. /\ SubSeq(y, b + 1, L) \in Seq(S) /\ Len(SubSeq(y, b + 1, L)) = L - (b + 1) + 1
          /\ \A i \in 1..(L - (b + 1) + 1) : SubSeq(y, b + 1, L)[i] = y[b + 1 + i - 1]
      BY <2>3, PartIs
    <3> QED
      BY <3>1, Zenon
  <2>5. L - (b + 1) + 1 = 2 /\ b + 1 + 1 - 1 = L - 1 /\ b + 1 + 2 - 1 = L
    BY <2>3
  <2>6. Len(z) = 2 /\ z[1] = y[L - 1] /\ z[2] = y[L]
    <3>1. 1 \in 1..2 /\ 2 \in 1..2
      OBVIOUS
    <3>2. Len(z) = 2 /\ \A i \in 1..2 : z[i] = y[b + 1 + i - 1]
      BY <2>4, <2>5
    <3> QED
      BY <2>5, <3>1, <3>2
  <2>7. L - 1 \in 1..L /\ L \in 1..L
    BY <1>1
  <2>8. y[L - 1] = "size" /\ y[L] = "#"
    BY <1>2, <1>3, <2>2, <2>7
  <2>9. z = <<"size", "#">>
    BY <2>6, <2>8
  <2> QED
    BY <2>2, <2>4, <2>9
<1> QED
  BY <1>1, <1>2, <1>4, <1>5, <1>6, <1>7, Zenon

LEMMA TailPlain ==
  ASSUME NEW file \in Seq(Symbols), Plain(file), NEW cap \in Nat
  PROVE  TailShape(file, StderrTail(file, cap))
<1> DEFINE src == file \o Footer
<1>1. PICK N \in Nat : N = Len(file) /\ src = file \o Footer
  OBVIOUS
<1>2. Framed(src, file, N)
  BY <1>1, FramedIs
<1> HIDE DEF src
<1>3. PICK text : text = FramedStderr(file, cap)
  OBVIOUS
<1>4. PICK s \in Nat : /\ Monus(N, cap) + 1 <= s /\ s <= N + 2 /\ Stretch(text, s, N + 3)
                       /\ s > Monus(N, cap) + 1 => Sym(src, s - 1) = "nl"
  BY <1>2, <1>3, FramedPlain
<1>5. Monus(N, cap) \in Nat /\ (N <= cap => Monus(N, cap) = 0)
  BY DEF Monus
<1>6. 1 <= s
  BY <1>4, <1>5
<1>7. PICK b \in Nat : /\ b = LastBreak(src, text) /\ b = N + 2 - s
                       /\ text # <<>> /\ Sym(src, Last(text)) = "#"
                       /\ SubSeq(Syms(src, text), b + 1, Len(text)) = <<"size", "#">>
  <2>1. /\ text # <<>> /\ Sym(src, Last(text)) = "#"
        /\ LastBreak(src, text) = N + 2 - s
        /\ SubSeq(Syms(src, text), LastBreak(src, text) + 1, Len(text)) = <<"size", "#">>
    BY <1>2, <1>4, <1>6, FooterIs
  <2>2. N + 2 - s \in Nat
    BY <1>4
  <2> QED
    BY <2>1, <2>2
<1> DEFINE tail == SubSeq(text, 1, b - 1)
           breaks == {i \in 1..Len(tail) : Sym(src, tail[i]) = "nl"}
<1>8. StderrTail(file, cap) =
        IF Len(file) <= cap THEN tail ELSE IF breaks = {} THEN <<>> ELSE SubSeq(tail, Min(breaks) + 1, Len(tail))
  <2> DEFINE readable == SubSeq(Syms(src, text), b + 1, Len(text)) = <<"size", "#">>
  <2>1. StderrTail(file, cap) =
          IF text = <<>> \/ Sym(src, IF text = <<>> THEN 0 ELSE Last(text)) # "#" THEN text
          ELSE IF ~readable \/ Len(file) <= cap THEN tail
          ELSE IF breaks = {} THEN <<>> ELSE SubSeq(tail, Min(breaks) + 1, Len(tail))
    BY <1>1, <1>3, <1>7, Zenon DEF StderrTail
  <2>2. readable
    BY <1>7
  <2> HIDE DEF readable, breaks, tail
  <2> QED
    BY <1>7, <2>1, <2>2, Zenon
<1>9. CASE s > N
  <2>1. b - 1 <= 0
    BY <1>7, <1>9
  <2>2. tail = <<>>
    BY <2>1, SubSeqEmpty
  <2>3. Len(<<>>) = 0
    BY EmptySeq
  <2>4. breaks = {}
    <3>1. 1..Len(tail) = {}
      <4> HIDE DEF tail
      <4> QED
        BY <2>2, <2>3
    <3> HIDE DEF tail
    <3> QED
      BY <3>1
  <2> HIDE DEF breaks, tail
  <2>5. StderrTail(file, cap) = <<>>
    BY <1>8, <2>2, <2>4, Zenon
  <2> QED
    BY <2>5 DEF TailShape
<1>10. CASE s <= N
  <2>1. Stretch(tail, s, N)
    <3>1. PICK p \in Nat : p = b - 1 /\ 1 <= p + 1 /\ p <= Len(text)
      <4>1. Len(text) = N + 3 - s + 1
        BY <1>4 DEF Stretch
      <4>2. b - 1 \in Nat /\ 1 <= b - 1 + 1 /\ b - 1 <= N + 3 - s + 1
        BY <1>7, <1>10
      <4> QED
        BY <4>1, <4>2
    <3>2. Stretch(SubSeq(text, 1, p), s + 1 - 1, s + p - 1)
      <4>1. s \in Int /\ N + 3 \in Int /\ 1 \in Nat /\ 1 <= 1
        OBVIOUS
      <4> QED
        BY <1>4, <3>1, <4>1, StretchPart
    <3>3. s + 1 - 1 = s /\ s + p - 1 = N
      BY <1>7, <3>1
    <3> QED
      BY <3>1, <3>2, <3>3, Zenon
  <2>2. \A i \in 1..N : Sym(src, i) = file[i]
    BY <1>2 DEF Framed
  <2>3. CASE N <= cap
    <3>1. StderrTail(file, cap) = tail
      BY <1>1, <1>8, <2>3, Zenon
    <3>2. s > 1 => file[s - 1] = "nl"
      <4>1. ASSUME s > 1 PROVE file[s - 1] = "nl"
        <5>1. s > Monus(N, cap) + 1
          BY <1>5, <2>3, <4>1
        <5>2. s - 1 \in 1..N
          BY <1>10, <4>1
        <5> QED
          BY <1>4, <2>2, <5>1, <5>2
      <4> QED
        BY <4>1
    <3>3. s \in 1..Len(file)
      BY <1>1, <1>6, <1>10
    <3> HIDE DEF tail
    <3> QED
      BY <1>1, <2>1, <3>1, <3>2, <3>3, Zenon DEF TailShape
  <2>4. CASE ~(N <= cap) /\ breaks = {}
    <3> HIDE DEF breaks, tail
    <3>1. StderrTail(file, cap) = <<>>
      BY <1>1, <1>8, <2>4, Zenon
    <3> QED
      BY <3>1 DEF TailShape
  <2>5. CASE ~(N <= cap) /\ breaks # {}
    <3>1. PICK t \in Seq(Int), n \in Nat : t = tail /\ n = Len(t) /\ n = N - s + 1 /\ \A k \in 1..n : t[k] = s + k - 1
      <4> HIDE DEF tail
      <4>1. tail \in Seq(Int) /\ Len(tail) = N - s + 1 /\ \A k \in 1..Len(tail) : tail[k] = s + k - 1
        BY <2>1 DEF Stretch
      <4>2. N - s + 1 \in Nat
        BY <1>10
      <4> QED
        BY <4>1, <4>2
    <3>2. PICK m \in Nat : m = Min(breaks) /\ m \in breaks
      <4>1. breaks \subseteq Nat
        OBVIOUS
      <4> HIDE DEF breaks
      <4>2. Min(breaks) \in breaks
        BY <2>5, <4>1, MinIs
      <4> QED
        BY <4>1, <4>2
    <3>3. m \in 1..n /\ Sym(src, t[m]) = "nl"
      BY <3>1, <3>2
    <3>4. s + m - 1 \in 1..N /\ t[m] = s + m - 1
      BY <1>6, <3>1, <3>3
    <3>5. file[s + m - 1] = "nl"
      BY <2>2, <3>3, <3>4
    <3>6. StderrTail(file, cap) = SubSeq(t, m + 1, n)
      <4> HIDE DEF breaks, tail
      <4> QED
        BY <1>1, <1>8, <2>5, <3>1, <3>2, Zenon
    <3>7. CASE m = n
      <4>1. n < m + 1
        BY <3>7
      <4>2. SubSeq(t, m + 1, n) = <<>>
        BY <4>1, SubSeqEmpty
      <4> QED
        BY <3>6, <4>2, Zenon DEF TailShape
    <3>8. CASE m # n
      <4>1. Stretch(SubSeq(t, m + 1, n), s + (m + 1) - 1, s + n - 1)
        <5>1. Stretch(t, s, N)
          BY <2>1, <3>1
        <5>2. s \in Int /\ N \in Int /\ m + 1 \in Nat /\ 1 <= m + 1 /\ m + 1 <= n + 1 /\ n <= Len(t)
          BY <3>1, <3>3
        <5> HIDE DEF tail, breaks
        <5> QED
          BY <5>1, <5>2, StretchPart
      <4>2. PICK q \in 1..N : q = s + m /\ q - 1 = s + m - 1 /\ q = s + (m + 1) - 1 /\ s + n - 1 = N
        <5>1. s + m \in 1..N
          BY <1>6, <3>1, <3>3, <3>8
        <5>2. s + m - 1 = s + m - 1 /\ s + m = s + (m + 1) - 1 /\ s + n - 1 = N
          BY <3>1
        <5> QED
          BY <5>1, <5>2
      <4>3. Stretch(StderrTail(file, cap), q, N)
        BY <3>6, <4>1, <4>2, Zenon
      <4>4. file[q - 1] = "nl"
        BY <3>5, <4>2, Zenon
      <4> HIDE DEF tail, breaks
      <4> QED
        BY <1>1, <4>3, <4>4, Zenon DEF TailShape
    <3> QED
      BY <3>7, <3>8
  <2> QED
    BY <2>3, <2>4, <2>5
<1> QED
  BY <1>9, <1>10

\* Redaction only takes away.
LEMMA RedactThin ==
  ASSUME NEW known \in Seq(Value), NEW src, NEW T \in Seq(Int)
  PROVE  Thinned(T, Len(T), Redact(known, src, T))
<1>1. PICK values \in Seq(Value) : values = ByLength(known)
  <2>1. ByLength(known) \in Seq(Value)
    BY ByLengthIs
  <2> QED
    BY <2>1
<1>2. PICK paired \in Seq(Int) : paired = KeyValues(src, RedactShapes(src, T)) /\ Thinned(T, Len(T), paired)
  <2>1. /\ KeyValues(src, RedactShapes(src, T)) \in Seq(Int)
        /\ Thinned(T, Len(T), KeyValues(src, RedactShapes(src, T)))
    BY ShapesThin
  <2> QED
    BY <2>1
<1>3. PICK r : RedactCourse(values, known, src, T, paired, r)
  BY <1>1, <1>2, RedactRuns
<1>4. /\ r[0] = paired
      /\ \A n \in 1..Len(values) : r[n] = Replaced(src, r[n - 1], values[n])
      /\ \A n \in 0..Len(values) : r[n] \in Seq(Int)
      /\ Redact(known, src, T) = r[Len(values)]
  BY <1>3 DEF RedactCourse
<1>5. PICK N \in Nat : N = Len(values)
  OBVIOUS
<1> DEFINE Parts1 == {U \in Seq(Int) : Thinned(T, Len(T), U)}
           A == [n \in 0..N |-> Parts1]
<1>6. r[0] \in A[0]
  BY <1>2, <1>4
<1>7. ASSUME NEW n \in 1..N, r[n - 1] \in A[n - 1] PROVE r[n] \in A[n]
  <2>1. n \in 1..Len(values) /\ n - 1 \in 0..N /\ n \in 0..N
    BY <1>5
  <2>2. PICK U \in Seq(Int) : U = r[n - 1] /\ Thinned(T, Len(T), U)
    BY <1>7, <2>1
  <2>3. PICK v \in Value : v = values[n]
    BY <2>1, ElementOfSeq
  <2>4. r[n] = Replaced(src, U, v)
    BY <1>4, <2>1, <2>2, <2>3
  <2>5. PICK W \in Seq(Int) : W = Replaced(src, U, v) /\ Cut(v, src, U, Len(U), W)
    <3>1. Replaced(src, U, v) \in Seq(Int) /\ Cut(v, src, U, Len(U), Replaced(src, U, v))
      BY ReplacedCuts
    <3> QED
      BY <3>1
  <2>6. PICK at, C : Cutting(v, src, U, Len(U), W, at, C)
    BY <2>5 DEF Cut
  <2>7. Thinning(U, Len(U), W, at)
    BY <2>6 DEF Cutting
  <2>8. PICK pos : Thinning(T, Len(T), U, pos)
    BY <2>2 DEF Thinned
  <2>9. Thinning(T, Len(T), W, [k \in 1..Len(W) |-> pos[at[k]]])
    BY <2>7, <2>8, ThinTwice
  <2>10. Thinned(T, Len(T), W)
    BY <2>9, Zenon DEF Thinned
  <2> QED
    BY <2>1, <2>4, <2>5, <2>10
<1>8. r[N] \in Parts1
  <2>1. \A n \in 0..N : r[n] \in A[n]
    <3> HIDE DEF A
    <3> QED
      BY <1>6, <1>7, Throughout
  <2>2. N \in 0..N
    OBVIOUS
  <2> QED
    BY <2>1, <2>2
<1> QED
  BY <1>4, <1>5, <1>8

LEMMA RedactWithin ==
  ASSUME NEW known \in Seq(Value), NEW src, NEW T \in Seq(Int), NEW x \in ToSet(Redact(known, src, T)), x > 0
  PROVE  x \in ToSet(T)
<1>1. PICK U \in Seq(Int) : U = Redact(known, src, T)
  <2>1. Redact(known, src, T) \in Seq(Int)
    BY RedactTyped
  <2> QED
    BY <2>1
<1>2. PICK pos : Thinning(T, Len(T), U, pos)
  BY <1>1, RedactThin DEF Thinned
<1>3. PICK k \in 1..Len(U) : U[k] = x
  BY <1>1, ToSetIs
<1>4. U[k] = T[pos[k]] \/ U[k] = Redacted
  BY <1>2 DEF Thinning
<1>5. pos[k] \in 1..Len(T)
  BY <1>2 DEF Thinning
<1>6. x # Redacted
  BY DEF Redacted
<1> QED
  BY <1>3, <1>4, <1>5, <1>6, ToSetIs
-----------------------------------------------------------------------------
(***************************************************************************)
(* A value in the stderr of an interrupted command is in the tail, or it   *)
(* is not: lines are not cut, and a value has no line break.               *)
(***************************************************************************)

\* The tail, which ends where the file does, with the guidance behind it.
Guided(src, file, N, s, text, n) ==
  /\ Framed(src, file, N) /\ n = N - s + 1
  /\ \A k \in 1..n : text[k] = s + k - 1
  /\ \A k \in (n + 1)..Len(text) : text[k] <= 0 /\ Sym(src, text[k]) \in {"nl", "mark"}

\* In such a text a value without line breaks stands where it stands in the file.
LEMMA SpelledInFile ==
  ASSUME NEW file \in Seq(Symbols), NEW src, NEW N \in Nat, NEW s \in 1..N, NEW text \in Seq(Int), NEW n \in Nat,
         Guided(src, file, N, s, text, n), n <= Len(text),
         NEW w \in Value, "nl" \notin ToSet(w), NEW i \in 1..Len(text), Spelled(w, src, text, i)
  PROVE  i + Len(w) - 1 <= n /\ Spelled(w, src, Whole(file), s + i - 1)
<1>1. PICK l \in Nat, L \in Nat : l = Len(w) /\ l > 0 /\ L = Len(text)
  BY ValueIs
<1>2. /\ i + l - 1 <= L
      /\ \A j \in 0..(l - 1) : Sym(src, text[i + j]) = w[j + 1]
  BY <1>1 DEF Spelled
<1>3. \A j \in 0..(l - 1) : w[j + 1] \notin {"nl", "mark"}
  <2>1. ASSUME NEW j \in 0..(l - 1) PROVE w[j + 1] \notin {"nl", "mark"}
    <3>1. j + 1 \in 1..Len(w)
      BY <1>1
    <3>2. w \in Seq(Symbols) /\ w[j + 1] # "mark"
      BY <3>1, ValueIs
    <3>3. w[j + 1] \in ToSet(w)
      BY <3>1, <3>2, ToSetIs
    <3> QED
      BY <3>2, <3>3
  <2> QED
    BY <2>1
<1>4. /\ n = N - s + 1 /\ N = Len(file)
      /\ \A k \in 1..n : text[k] = s + k - 1
      /\ \A k \in (n + 1)..L : text[k] <= 0 /\ Sym(src, text[k]) \in {"nl", "mark"}
      /\ \A k \in 1..N : Sym(src, k) = file[k]
  BY <1>1 DEF Guided, Framed
<1>5. \A j \in 0..(l - 1) : i + j <= n
  <2>1. ASSUME NEW j \in 0..(l - 1) PROVE i + j <= n
    <3>1. i + j \in 1..L
      BY <1>1, <1>2
    <3>2. i + j \notin (n + 1)..L
      BY <1>2, <1>3, <1>4
    <3> QED
      BY <3>1, <3>2
  <2> QED
    BY <2>1
<1>6. i + l - 1 <= n
  <2>1. l - 1 \in 0..(l - 1)
    BY <1>1
  <2>2. i + (l - 1) <= n
    BY <1>5, <2>1
  <2> QED
    BY <2>2
<1>7. Len(Whole(file)) = N /\ \A k \in 1..N : Whole(file)[k] = k
  BY <1>4, WholeIs
<1>8. ASSUME NEW j \in 0..(l - 1) PROVE Sym(src, Whole(file)[s + i - 1 + j]) = w[j + 1]
  <2>1. i + j \in 1..n /\ s + (i + j) - 1 \in 1..N /\ s + i - 1 + j = s + (i + j) - 1
    <3>1. i + j <= n
      BY <1>5
    <3>2. n = N - s + 1
      BY <1>4
    <3> QED
      BY <3>1, <3>2
  <2>2. Whole(file)[s + i - 1 + j] = s + (i + j) - 1
    BY <1>7, <2>1
  <2>3. text[i + j] = s + (i + j) - 1
    BY <1>4, <2>1
  <2>4. Sym(src, text[i + j]) = w[j + 1]
    BY <1>2
  <2> QED
    BY <2>2, <2>3, <2>4, Zenon
<1>9. s + i - 1 + l - 1 <= N
  BY <1>1, <1>4, <1>6
<1> QED
  BY <1>1, <1>6, <1>7, <1>8, <1>9 DEF Spelled

\* A value that stands in the tail of the file stands in the text.
InText(v, src, text, f, g) ==
  /\ g \in 1..Len(text) /\ Spelled(v, src, text, g)
  /\ \A j \in 0..(Len(v) - 1) : text[g + j] = f + j

LEMMA SpelledInText ==
  ASSUME NEW file \in Seq(Symbols), NEW src, NEW N \in Nat, NEW s \in 1..N, NEW text \in Seq(Int), NEW n \in Nat,
         Guided(src, file, N, s, text, n), n <= Len(text),
         NEW v \in Value, NEW f \in s..N, Spelled(v, src, Whole(file), f)
  PROVE  InText(v, src, text, f, f - s + 1)
<1>1. PICK l \in Nat, L \in Nat : l = Len(v) /\ l > 0 /\ L = Len(text)
  BY ValueIs
<1>2. /\ n = N - s + 1 /\ N = Len(file)
      /\ \A k \in 1..n : text[k] = s + k - 1
  BY DEF Guided, Framed
<1>3. Len(Whole(file)) = N /\ \A k \in 1..N : Whole(file)[k] = k
  BY <1>2, WholeIs
<1>4. f + l - 1 <= N /\ \A j \in 0..(l - 1) : Sym(src, Whole(file)[f + j]) = v[j + 1]
  BY <1>1, <1>3 DEF Spelled
<1>5. ASSUME NEW j \in 0..(l - 1) PROVE text[f - s + 1 + j] = f + j /\ Sym(src, text[f - s + 1 + j]) = v[j + 1]
  <2>1. f - s + 1 + j \in 1..n /\ s + (f - s + 1 + j) - 1 = f + j /\ f + j \in 1..N
    BY <1>1, <1>2, <1>4, SMTT(30)
  <2>2. text[f - s + 1 + j] = s + (f - s + 1 + j) - 1
    BY <1>2, <2>1
  <2>3. Whole(file)[f + j] = f + j
    BY <1>3, <2>1
  <2>4. Sym(src, Whole(file)[f + j]) = v[j + 1]
    BY <1>4
  <2>5. text[f - s + 1 + j] = f + j
    BY <2>1, <2>2
  <2> QED
    BY <2>3, <2>4, <2>5, Zenon
<1>6. f - s + 1 \in 1..L /\ f - s + 1 + l - 1 <= L
  BY <1>1, <1>2, <1>4, SMTT(30)
<1> QED
  BY <1>1, <1>5, <1>6 DEF Spelled, InText

LEMMA HidesCut ==
  ASSUME NEW known \in Seq(Value), SingleLine(known), NEW file \in Seq(Symbols), NEW src, NEW N \in Nat,
         NEW s \in 1..N, s > 1 => file[s - 1] = "nl", NEW text \in Seq(Int), Distinct(text), NEW n \in Nat,
         Guided(src, file, N, s, text, n), n <= Len(text),
         NEW shown, Shows(shown, Redact(known, src, text))
  PROVE  Hidden(known, src, Whole(file), text, shown)
<1>1. PICK paired \in Seq(Int) : paired = KeyValues(src, RedactShapes(src, text)) /\ Thinned(text, Len(text), paired)
  <2>1. /\ KeyValues(src, RedactShapes(src, text)) \in Seq(Int)
        /\ Thinned(text, Len(text), KeyValues(src, RedactShapes(src, text)))
    BY ShapesThin
  <2> QED
    BY <2>1
<1>2. /\ n = N - s + 1 /\ N = Len(file)
      /\ \A k \in 1..n : text[k] = s + k - 1
      /\ \A k \in (n + 1)..Len(text) : text[k] <= 0
      /\ \A k \in 1..N : Sym(src, k) = file[k]
  BY DEF Guided, Framed
<1>3. Whole(file) \in Seq(Int) /\ Len(Whole(file)) = N /\ \A k \in 1..N : Whole(file)[k] = k
  BY <1>2, WholeIs
<1> DEFINE all == AllOccurrences(known, src, Whole(file))
           places(o) == {Whole(file)[i] : i \in o.from..o.to}
<1>4. ASSUME NEW o \in all, \A q \in all : Nested(o, q),
             \A x \in places(o) : x > 0 /\ (x \in ToSet(text) => x \in ToSet(paired)),
             NEW y \in places(o) \cap ToSet(shown)
      PROVE  FALSE
  <2>1. PICK v \in ToSet(known) : o \in OccurrencesOf(v, src, Whole(file))
    BY <1>4 DEF AllOccurrences
  <2>2. PICK h \in 1..Len(known) : known[h] = v
    BY ToSetIs
  <2>3. v \in Value
    BY <2>2
  <2>4. PICK f \in 1..Len(Whole(file)) : Spelled(v, src, Whole(file), f) /\ o = Place(f, Len(v))
    <3>1. StandsThere(v, src, Whole(file), o)
      BY <1>3, <2>1, <2>3, OccurrenceIs
    <3> QED
      BY <3>1, Zenon DEF StandsThere
  <2>5. PICK l \in Nat : l = Len(v) /\ l > 0 /\ f + l - 1 <= N /\ f \in 1..N
    BY <1>3, <2>3, <2>4, ValueIs DEF Spelled
  <2>6. o.from = f /\ o.to = f + l - 1
    BY <2>4, <2>5 DEF Place
  <2>7. y \in f..(f + l - 1)
    <3>1. PICK k \in o.from..o.to : y = Whole(file)[k]
      BY <1>4
    <3>2. k \in 1..N /\ k \in f..(f + l - 1)
      BY <2>5, <2>6, <3>1
    <3> QED
      BY <1>3, <3>1, <3>2
  <2>8. y > 0 /\ y \in ToSet(Redact(known, src, text))
    BY <1>4 DEF Shows
  <2>9. s <= y
    <3>1. y \in ToSet(text)
      BY <2>8, RedactWithin
    <3>2. PICK k \in 1..Len(text) : text[k] = y
      BY <3>1, ToSetIs
    <3>3. text[k] \in Int
      OBVIOUS
    <3>4. k \in 1..n
      <4>1. k \notin (n + 1)..Len(text)
        <5>1. ~(text[k] <= 0)
          BY <2>8, <3>2, <3>3, SMTT(30)
        <5> QED
          BY <1>2, <5>1, Zenon
      <4> QED
        BY <4>1
    <3>5. text[k] = s + k - 1
      BY <1>2, <3>4
    <3> QED
      BY <3>2, <3>4, <3>5, SMTT(30)
  <2>10. s <= f
    <3>1. ASSUME f < s PROVE FALSE
      <4>1. s - 1 \in f..(f + l - 1) /\ s > 1 /\ s - 1 \in 1..N /\ s - 1 - f \in 0..(l - 1) /\ f + (s - 1 - f) = s - 1
        BY <2>5, <2>7, <2>9, <3>1, SMTT(30)
      <4>2. Sym(src, Whole(file)[f + (s - 1 - f)]) = v[s - 1 - f + 1]
        BY <2>4, <2>5, <4>1 DEF Spelled
      <4>3. Sym(src, Whole(file)[f + (s - 1 - f)]) = "nl"
        <5>1. Whole(file)[s - 1] = s - 1 /\ Sym(src, s - 1) = file[s - 1] /\ file[s - 1] = "nl"
          BY <1>2, <1>3, <4>1
        <5> QED
          BY <4>1, <5>1, Zenon
      <4>4. s - 1 - f + 1 \in 1..Len(v) /\ v \in Seq(Symbols)
        <5>1. v \in Seq(Symbols)
          BY <2>3, ValueIs
        <5>2. l \in Nat /\ l = Len(v) /\ s - 1 - f \in 0..(l - 1)
          BY <2>5, <4>1
        <5>3. s - 1 - f + 1 \in 1..l
          BY <5>2
        <5> QED
          BY <5>1, <5>2, <5>3, Zenon
      <4>5. v[s - 1 - f + 1] \in ToSet(v)
        BY <4>4, ToSetIs
      <4>6. "nl" \in ToSet(v)
        BY <4>2, <4>3, <4>5
      <4> QED
        BY <4>6 DEF SingleLine
    <3> QED
      BY <2>5, <3>1
  <2>11. PICK g \in 1..Len(text) : /\ g = f - s + 1 /\ Spelled(v, src, text, g)
                                   /\ \A j \in 0..(l - 1) : text[g + j] = f + j
    <3>1. f \in s..N
      BY <2>5, <2>10
    <3>2. InText(v, src, text, f, f - s + 1)
      BY <2>3, <2>4, <3>1, SpelledInText
    <3> QED
      BY <2>5, <3>2, Zenon DEF InText
  <2>12. Clear(ToSet(known), src, text, v, g)
    <3>1. ASSUME NEW w \in ToSet(known), NEW i \in 1..Len(text), Spelled(w, src, text, i)
          PROVE  Apart(g, Len(v), i, Len(w))
      <4>1. w \in Value /\ "nl" \notin ToSet(w)
        <5>1. PICK m \in 1..Len(known) : known[m] = w
          BY ToSetIs
        <5>2. w \in Value
          BY <5>1, ElementOfSeq
        <5>3. "nl" \notin ToSet(w)
          BY Zenon DEF SingleLine
        <5> QED
          BY <5>2, <5>3
      <4>2. PICK d \in Nat : d = Len(w) /\ d > 0
        BY <4>1, ValueIs
      <4>3. i + d - 1 <= n /\ Spelled(w, src, Whole(file), s + i - 1)
        BY <3>1, <4>1, <4>2, SpelledInFile
      <4>4. s + i - 1 \in 1..Len(Whole(file))
        <5>1. n = N - s + 1 /\ Len(Whole(file)) = N
          BY <1>2, <1>3
        <5>2. i + d - 1 <= n /\ d > 0
          BY <4>2, <4>3
        <5> QED
          BY <5>1, <5>2
      <4>5. Place(s + i - 1, d) \in OccurrencesOf(w, src, Whole(file))
        <5>1. StandsThere(w, src, Whole(file), Place(s + i - 1, d))
          BY <4>2, <4>3, <4>4, Zenon DEF StandsThere
        <5> QED
          BY <1>3, <4>1, <5>1, OccurrenceIs
      <4>6. Place(s + i - 1, d) \in all
        BY <4>5 DEF AllOccurrences
      <4>7. Nested(o, Place(s + i - 1, d))
        BY <1>4, <4>6
      <4>8. Place(s + i - 1, d).from = s + i - 1 /\ Place(s + i - 1, d).to = s + i - 1 + d - 1
        BY DEF Place
      <4>9. \/ f + l - 1 < s + i - 1 \/ s + i - 1 + d - 1 < f
            \/ f <= s + i - 1 /\ s + i - 1 + d - 1 <= f + l - 1
            \/ s + i - 1 <= f /\ f + l - 1 <= s + i - 1 + d - 1
        BY <2>6, <4>7, <4>8, Zenon DEF Nested
      <4>10. g = f - s + 1 /\ i \in Int /\ g \in Int
        BY <2>11
      <4>11. Apart(g, l, i, d)
        BY <4>9, <4>10 DEF Apart
      <4> QED
        BY <2>5, <4>2, <4>11
    <3> QED
      BY <2>11, <3>1 DEF Clear
  <2>13. ASSUME NEW j \in 0..(l - 1) PROVE text[g + j] > 0 /\ text[g + j] \in ToSet(paired)
    <3>1. f + j \in o.from..o.to /\ f + j \in 1..N
      <4>1. f + l - 1 <= N /\ f \in 1..N
        BY <2>5
      <4>2. f + j \in f..(f + l - 1) /\ f + j \in 1..N
        BY <4>1
      <4> QED
        BY <2>6, <4>2, Zenon
    <3>2. f + j \in places(o)
      <4>1. Whole(file)[f + j] = f + j
        BY <1>3, <3>1
      <4> QED
        BY <3>1, <4>1
    <3>3. text[g + j] = f + j
      BY <2>11
    <3>4. g + j \in 1..Len(text)
      <4>1. g + l - 1 <= Len(text)
        BY <2>5, <2>11 DEF Spelled
      <4> QED
        BY <4>1
    <3>5. f + j \in ToSet(text)
      BY <3>3, <3>4, ToSetIs
    <3> QED
      BY <1>4, <3>2, <3>3, <3>5
  <2>14. \A j \in 0..(l - 1) : text[g + j] \notin ToSet(Redact(known, src, text))
    <3>1. Clear(ToSet(known), src, text, known[h], g)
      BY <2>2, <2>12
    <3>2. \A j \in 0..(Len(known[h]) - 1) : text[g + j] > 0 /\ text[g + j] \in ToSet(paired)
      BY <2>2, <2>5, <2>13
    <3>3. \A j \in 0..(Len(known[h]) - 1) : text[g + j] \notin ToSet(Redact(known, src, text))
      BY <1>1, <3>1, <3>2, RedactHides
    <3> QED
      BY <2>2, <2>5, <3>3
  <2>15. y - f \in 0..(l - 1) /\ f + (y - f) = y
    <3>1. PICK k \in Int : k = y /\ f <= k /\ k <= f + l - 1
      BY <2>7
    <3>2. f \in Int
      BY <2>5
    <3>3. k - f \in 0..(l - 1) /\ f + (k - f) = k
      BY <3>1, <3>2
    <3> QED
      BY <3>1, <3>3
  <2>16. text[g + (y - f)] = y
    BY <2>11, <2>15
  <2> QED
    BY <2>8, <2>14, <2>15, <2>16
<1> HIDE DEF all
<1> QED
  BY <1>1, <1>4, Zenon DEF Hidden, all

\* The values that the tail of a plain file has cut.
LEMMA HidesTail ==
  ASSUME NEW known \in Seq(Value), SingleLine(known), NEW file \in Seq(Symbols), Plain(file),
         NEW shown, Shows(shown, Redact(known, ErrSource(file, TRUE), ErrText(file, TRUE)))
  PROVE  Hidden(known, ErrSource(file, TRUE), Whole(file), ErrText(file, TRUE), shown)
<1>1. PICK src : src = ErrSource(file, TRUE) /\ src = file \o Footer
  BY DEF ErrSource
<1>2. PICK N \in Nat : N = Len(file)
  OBVIOUS
<1>3. Framed(src, file, N)
  BY <1>1, <1>2, FramedIs
<1>4. PICK text \in Seq(Int) : text = ErrText(file, TRUE) /\ Distinct(text)
  <2>1. TRUE \in BOOLEAN
    OBVIOUS
  <2>2. ErrText(file, TRUE) \in Seq(Int) /\ Distinct(ErrText(file, TRUE))
    BY <2>1, ErrTextIs
  <2> QED
    BY <2>2
<1>5. PICK T : T = StderrTail(file, TailCap) /\ TailShape(file, T)
  <2>1. TailCap \in Nat
    BY ExecAssumed DEF ExecAssumption
  <2> QED
    BY <2>1, TailPlain
<1>6. T \in Seq(Int)
  BY <1>5, EmptySeq DEF TailShape, Stretch
<1>7. PICK m : Behind(T, m) /\ text = T \o m
  <2>1. text = WithGuidance(src, T)
    BY <1>1, <1>4, <1>5, Zenon DEF ErrText
  <2>2. Marked(src, T)
    BY <1>6, GuidanceIs
  <2> QED
    BY <2>1, <2>2, Zenon DEF Marked
<1>8. PICK n \in Nat, k \in Nat : n = Len(T) /\ k = Len(m)
  BY <1>6, <1>7 DEF Behind
<1>9. /\ Len(text) = n + k /\ \A i \in 1..n : text[i] = T[i]
      /\ \A i \in (n + 1)..(n + k) : text[i] = m[i - n]
  <2>1. m \in Seq(Int)
    BY <1>7 DEF Behind
  <2>2. /\ Len(T \o m) = Len(T) + Len(m)
        /\ \A i \in 1..Len(T) : (T \o m)[i] = T[i]
        /\ \A i \in (Len(T) + 1)..(Len(T) + Len(m)) : (T \o m)[i] = m[i - Len(T)]
    BY <1>6, <2>1, Joining
  <2> QED
    BY <1>7, <1>8, <2>2, Zenon
<1>10. ASSUME NEW i \in (n + 1)..(n + k) PROVE text[i] <= 0 /\ Sym(src, text[i]) \in {"nl", "mark"}
  <2>1. i - n \in 1..Len(m)
    BY <1>8
  <2>2. m[i - n] \in {NewLine, Guidance}
    BY <1>7, <2>1 DEF Behind
  <2>3. text[i] = m[i - n]
    BY <1>9
  <2>4. m[i - n] = NewLine \/ m[i - n] = Guidance
    BY <2>2
  <2>5. MarkAt(src, text[i])
    BY <2>3, <2>4, MarkBehind, Zenon
  <2> QED
    BY <2>5 DEF MarkAt
<1>11. CASE T = <<>>
  <2>1. n = 0
    BY <1>8, <1>11
  <2>2. ASSUME NEW x \in ToSet(text) PROVE ~(x > 0)
    <3>1. PICK i \in 1..Len(text) : text[i] = x
      BY <1>4, ToSetIs
    <3>2. i \in (n + 1)..(n + k)
      BY <1>9, <2>1
    <3>3. x \in Int /\ x <= 0
      <4>1. text[i] \in Int
        BY ElementOfSeq
      <4>2. text[i] <= 0
        BY <1>10, <3>2, Zenon
      <4> QED
        BY <3>1, <4>1, <4>2, Zenon
    <3> QED
      BY <3>3
  <2>3. ASSUME NEW x \in ToSet(shown), x > 0 PROVE FALSE
    <3>1. x \in ToSet(Redact(known, src, text))
      BY <1>1, <1>4, <2>3 DEF Shows
    <3>2. x \in ToSet(text)
      BY <2>3, <3>1, RedactWithin
    <3> QED
      BY <2>2, <2>3, <3>2
  <2> DEFINE whole == Whole(file)
             all == AllOccurrences(known, src, whole)
             unshaped == ToSet(KeyValues(src, RedactShapes(src, text)))
             places(o) == {whole[i] : i \in o.from..o.to}
             free(o) == /\ \A q \in all : Nested(o, q)
                        /\ \A x \in places(o) : x > 0 /\ (x \in ToSet(text) => x \in unshaped)
  <2>4. ASSUME NEW o \in all, free(o) PROVE places(o) \cap ToSet(shown) = {}
    <3>1. \A x \in places(o) : x > 0
      BY <2>4
    <3> HIDE DEF places, free, all
    <3> QED
      BY <2>3, <3>1
  <2>5. Hidden(known, src, whole, text, shown)
    <3> HIDE DEF whole
    <3> QED
      BY <2>4, Zenon DEF Hidden
  <2> QED
    BY <1>1, <1>4, <2>5
<1>12. CASE T # <<>>
  <2>1. PICK s \in 1..N : Stretch(T, s, N) /\ (s > 1 => file[s - 1] = "nl")
    BY <1>2, <1>5, <1>12, Zenon DEF TailShape
  <2>2. n = N - s + 1 /\ \A i \in 1..n : text[i] = s + i - 1
    BY <1>8, <1>9, <2>1 DEF Stretch
  <2>3. n <= Len(text)
    BY <1>8, <1>9
  <2>4. \A i \in (n + 1)..Len(text) : text[i] <= 0 /\ Sym(src, text[i]) \in {"nl", "mark"}
    BY <1>9, <1>10
  <2>5. Guided(src, file, N, s, text, n)
    BY <1>3, <2>2, <2>4, Zenon DEF Guided
  <2>6. Shows(shown, Redact(known, src, text))
    BY <1>1, <1>4
  <2>7. Hidden(known, src, Whole(file), text, shown)
    BY <1>4, <2>1, <2>3, <2>5, <2>6, HidesCut
  <2> QED
    BY <1>1, <1>4, <2>7
<1> QED
  BY <1>11, <1>12

LEMMA BudgetIs ==
  ASSUME NEW params \in Requests, Translatable(params)
  PROVE  Budgeted(ToBudget(params))
<1>1. params \in ParamsType \cup {NoParams}
  BY ExecAssumed DEF ExecAssumption
<1>2. CASE params = NoParams
  BY <1>2 DEF ToBudget, DefaultBudget, Budgeted, Keeping, KeepAll, NoMax
<1>3. CASE params # NoParams
  <2>1. /\ params.n \in Counts /\ params.head \in Counts /\ params.tail \in Counts
        /\ params.max \in Counts
    BY <1>1, <1>3 DEF ParamsType
  <2>2. params.mode \in Modes
    BY <1>3 DEF Translatable
  <2>3. \A c \in Counts : OrZero(c) \in Nat
    BY DEF Counts, OrZero
  <2>4. Keeping(ToKeep(params))
    BY <2>1, <2>2, <2>3 DEF Modes, ToKeep, Keeping, KeepAll
  <2>5. params.max \in Nat \cup {NoMax}
    BY <2>1 DEF Counts, Absent, NoMax
  <2>6. ToBudget(params).keep = ToKeep(params) /\ ToBudget(params).max = params.max
    BY <1>3 DEF ToBudget
  <2> QED
    BY <2>4, <2>5, <2>6 DEF Budgeted
<1> QED
  BY <1>2, <1>3

LEMMA ShapedShows ==
  ASSUME NEW known \in Seq(Value), NEW src, NEW T \in Seq(Int), NEW budget, Budgeted(budget)
  PROVE  Shows(Shaped(known, src, T, budget).text, Redact(known, src, T))
<1>1. MaxOutput \in Nat
  BY ExecAssumed DEF ExecAssumption
<1>2. Redact(known, src, T) \in Seq(Int)
  BY RedactTyped
<1> QED
  BY <1>1, <1>2, ApplyShows, Zenon DEF Shaped

LEMMA EchoHides ==
  ASSUME NEW known \in Seq(Value), NEW cmd \in Seq(Symbols)
  PROVE  HiddenIn(known, cmd, Whole(cmd), Redact(known, cmd, Whole(cmd)))
<1>1. Whole(cmd) \in Seq(Int) /\ Distinct(Whole(cmd))
  BY WholeIs, OrderedDistinct
<1>2. Shows(Redact(known, cmd, Whole(cmd)), Redact(known, cmd, Whole(cmd)))
  BY DEF Shows
<1> QED
  BY <1>1, <1>2, HidesIn

\* What exec_inner answers hides the values that it has just learned.
LEMMA ResultHides ==
  ASSUME NEW known \in Seq(Value), NEW cmd \in Seq(Symbols), NEW out \in Seq(Symbols), NEW file \in Seq(Symbols),
         NEW timedOut \in BOOLEAN, NEW budget, Budgeted(budget)
  PROVE  /\ HiddenIn(known, cmd, Whole(cmd), Redact(known, cmd, Whole(cmd)))
         /\ HiddenIn(known, out, Clean(out, Whole(out)), Shaped(known, out, Clean(out, Whole(out)), budget).text)
         /\ HiddenIn(known, ErrSource(file, timedOut), ErrText(file, timedOut),
                     Shaped(known, ErrSource(file, timedOut), ErrText(file, timedOut), budget).text)
         /\ timedOut /\ Plain(file) /\ SingleLine(known) =>
              Hidden(known, ErrSource(file, timedOut), Whole(file), ErrText(file, timedOut),
                     Shaped(known, ErrSource(file, timedOut), ErrText(file, timedOut), budget).text)
<1>1. HiddenIn(known, cmd, Whole(cmd), Redact(known, cmd, Whole(cmd)))
  BY EchoHides
<1>2. HiddenIn(known, out, Clean(out, Whole(out)), Shaped(known, out, Clean(out, Whole(out)), budget).text)
  <2>1. PICK T : T = Clean(out, Whole(out)) /\ T \in Seq(Int) /\ Distinct(T)
    <3>1. Ordered(Clean(out, Whole(out)))
      BY WholeIs, CleanOrdered
    <3> QED
      BY <3>1, OrderedDistinct DEF Ordered
  <2>2. HiddenIn(known, out, T, Shaped(known, out, T, budget).text)
    BY <2>1, ShapedShows, HidesIn
  <2> QED
    BY <2>1, <2>2, Zenon
<1>3. PICK src, T : /\ src = ErrSource(file, timedOut) /\ T = ErrText(file, timedOut)
                    /\ T \in Seq(Int) /\ Distinct(T)
  <2>1. ErrText(file, timedOut) \in Seq(Int) /\ Distinct(ErrText(file, timedOut))
    BY ErrTextIs
  <2> QED
    BY <2>1, Zenon
<1>4. PICK shown : shown = Shaped(known, src, T, budget).text
  OBVIOUS
<1>5. Shows(shown, Redact(known, src, T))
  BY <1>3, <1>4, ShapedShows
<1>6. HiddenIn(known, src, T, shown)
  BY <1>3, <1>5, HidesIn
<1>7. ASSUME timedOut, Plain(file), SingleLine(known) PROVE Hidden(known, src, Whole(file), T, shown)
  <2>1. timedOut = TRUE
    BY <1>7
  <2>2. src = ErrSource(file, TRUE) /\ T = ErrText(file, TRUE)
    BY <1>3, <2>1
  <2>3. Shows(shown, Redact(known, ErrSource(file, TRUE), ErrText(file, TRUE)))
    BY <1>5, <2>2
  <2>4. Hidden(known, ErrSource(file, TRUE), Whole(file), ErrText(file, TRUE), shown)
    BY <1>7, <2>3, HidesTail
  <2> QED
    BY <2>2, <2>4
<1> QED
  BY <1>1, <1>2, <1>3, <1>4, <1>6, <1>7, Zenon

\* The session learns no empty value, and what the last call answered hides every
\* value learned by then.
OutputInv == literals \in Seq(Value) /\ LearnedHidden

LEMMA OutputStep ==
  ASSUME OutputInv, [ExecNext]_execVars
  PROVE  OutputInv'
<1>1. literals \in Seq(Value)
  BY DEF OutputInv
<1>2. CASE UNCHANGED execVars
  BY <1>2 DEF OutputInv, LearnedHidden, execVars
<1>3. ASSUME NEW cmd \in Commands, NEW busy \in BOOLEAN, Blocked(cmd, busy) PROVE OutputInv'
  <2>1. cmd \in Seq(Symbols)
    BY ExecAssumed DEF ExecAssumption
  <2>2. PICK known \in Seq(Value) : known = IF busy THEN <<>> ELSE literals
    BY <1>1, EmptySeq
  <2>3. PICK learned \in Seq(Value) : learned = Learn(known, cmd)
    <3>1. Learn(known, cmd) \in Seq(Value)
      BY <2>1, LearnIs
    <3> QED
      BY <3>1
  <2>4. answer' = [kind |-> "blocked", cmd |-> cmd, busy |-> busy, known |-> literals,
                   shown |-> Redact(learned, cmd, Whole(cmd))]
    BY <1>3, <2>2, <2>3, Zenon DEF Blocked, BlockedLiterals, RedactCommand
  <2>5. HiddenIn(learned, cmd, Whole(cmd), Redact(learned, cmd, Whole(cmd)))
    BY <2>1, EchoHides
  <2>6. /\ answer'.kind = "blocked" /\ answer'.cmd = cmd /\ answer'.busy = busy /\ answer'.known = literals
        /\ answer'.shown = Redact(learned, cmd, Whole(cmd))
    BY <2>4
  <2>7. HiddenIn(Learn(IF answer'.busy THEN <<>> ELSE answer'.known, answer'.cmd),
                 answer'.cmd, Whole(answer'.cmd), answer'.shown)
    BY <2>2, <2>3, <2>5, <2>6, Zenon
  <2>8. literals' = literals /\ answer'.kind # "result"
    BY <1>3, <2>6 DEF Blocked
  <2> QED
    BY <1>1, <2>7, <2>8, Zenon DEF OutputInv, LearnedHidden
<1>4. ASSUME NEW kind \in {"unknown mode", "bad grep", "denied"}, Refused(kind), literals' \in Seq(Value)
      PROVE  OutputInv'
  <2>1. answer'.kind \notin {"blocked", "result"}
    BY <1>4 DEF Refused
  <2> QED
    BY <1>4, <2>1 DEF OutputInv, LearnedHidden
<1>5. ASSUME NEW cmd \in Commands, NEW params \in Requests,
             UnknownMode(cmd, params) \/ BadGrep(cmd, params) \/ PolicyDenied(cmd, params)
      PROVE  OutputInv'
  <2>1. Learn(literals, cmd) \in Seq(Value)
    <3>1. cmd \in Seq(Symbols)
      BY ExecAssumed DEF ExecAssumption
    <3> QED
      BY <1>1, <3>1, LearnIs
  <2>2. literals' \in Seq(Value)
    BY <1>1, <1>5, <2>1, Zenon DEF UnknownMode, BadGrep, PolicyDenied
  <2>3. Refused("unknown mode") \/ Refused("bad grep") \/ Refused("denied")
    BY <1>5, Zenon DEF UnknownMode, BadGrep, PolicyDenied
  <2> QED
    BY <1>4, <2>2, <2>3
<1>6. ASSUME NEW cmd \in Commands, NEW params \in Requests, NEW streams \in Streams,
             NEW overflowed \in BOOLEAN, NEW timedOut \in BOOLEAN,
             Exec(cmd, streams[1], streams[2], params, overflowed, timedOut)
      PROVE  OutputInv'
  <2>1. PICK budget, out, file, known : /\ budget = ToBudget(params) /\ out = streams[1] /\ file = streams[2]
                                        /\ known = Learn(literals, cmd)
    OBVIOUS
  <2>2. cmd \in Seq(Symbols) /\ out \in Seq(Symbols) /\ file \in Seq(Symbols)
    BY <2>1, ExecAssumed DEF ExecAssumption
  <2>3. known \in Seq(Value) /\ literals' = known
    <3>1. literals' = Learn(literals, cmd)
      BY <1>6, Zenon DEF Exec
    <3> QED
      BY <1>1, <2>1, <2>2, <3>1, LearnIs
  <2>4. Budgeted(budget)
    <3>1. Translatable(params)
      BY <1>6, Zenon DEF Exec, ReachesSession
    <3> QED
      BY <2>1, <3>1, BudgetIs
  <2> DEFINE stdout == Shaped(known, out, Clean(out, Whole(out)), budget)
             stderr == Shaped(known, ErrSource(file, timedOut), ErrText(file, timedOut), budget)
  <2>5. answer' = Result(cmd, out, file, budget, overflowed, timedOut, known, stdout, stderr)
    <3>1. answer' = Result(cmd, streams[1], streams[2], ToBudget(params), overflowed, timedOut, literals',
            Shaped(literals', streams[1], Clean(streams[1], Whole(streams[1])), ToBudget(params)),
            Shaped(literals', ErrSource(streams[2], timedOut), ErrText(streams[2], timedOut), ToBudget(params)))
      BY <1>6, Zenon DEF Exec
    <3> QED
      BY <2>1, <2>3, <3>1, Zenon
  <2>6. /\ HiddenIn(known, cmd, Whole(cmd), Redact(known, cmd, Whole(cmd)))
        /\ HiddenIn(known, out, Clean(out, Whole(out)), stdout.text)
        /\ HiddenIn(known, ErrSource(file, timedOut), ErrText(file, timedOut), stderr.text)
        /\ timedOut /\ Plain(file) /\ SingleLine(known) =>
             Hidden(known, ErrSource(file, timedOut), Whole(file), ErrText(file, timedOut), stderr.text)
    BY <2>2, <2>3, <2>4, ResultHides
  <2> HIDE DEF stdout, stderr
  <2>7. /\ answer'.kind = "result" /\ answer'.cmd = cmd /\ answer'.out = out /\ answer'.errFile = file
        /\ answer'.timedOut = timedOut /\ answer'.shown = Redact(known, cmd, Whole(cmd))
        /\ answer'.stdout = stdout /\ answer'.stderr = stderr
    BY <2>5 DEF Result
  <2>8. /\ HiddenIn(literals', answer'.cmd, Whole(answer'.cmd), answer'.shown)
        /\ HiddenIn(literals', answer'.out, Clean(answer'.out, Whole(answer'.out)), answer'.stdout.text)
        /\ HiddenIn(literals', ErrSource(answer'.errFile, answer'.timedOut),
                    ErrText(answer'.errFile, answer'.timedOut), answer'.stderr.text)
        /\ answer'.timedOut /\ Plain(answer'.errFile) /\ SingleLine(literals') =>
             Hidden(literals', ErrSource(answer'.errFile, answer'.timedOut), Whole(answer'.errFile),
                    ErrText(answer'.errFile, answer'.timedOut), answer'.stderr.text)
    BY <2>3, <2>6, <2>7, Zenon
  <2>9. answer'.kind # "blocked"
    BY <2>7
  <2> QED
    BY <2>3, <2>8, <2>9, Zenon DEF OutputInv, LearnedHidden
<1> QED
  BY <1>2, <1>3, <1>5, <1>6, ZenonT(30) DEF ExecNext

\* Before the first call nothing is learned and nothing shown.
LEMMA OutputStart == ExecInit => OutputInv
BY EmptySeq DEF ExecInit, OutputInv, LearnedHidden, NoAnswer

\* What a session has learned never reaches a caller: not in the echo of a command,
\* not in a stream, whatever its budget, and not in the tail of an interrupted
\* command's stderr.
THEOREM ResultsHide == ExecSpec => []LearnedHidden
<1>1. ExecInit => OutputInv
  BY OutputStart
<1>2. OutputInv /\ [ExecNext]_execVars => OutputInv'
  BY OutputStep
<1>3. OutputInv => LearnedHidden
  BY DEF OutputInv
<1> QED
  BY <1>1, <1>2, <1>3, PTL DEF ExecSpec
-----------------------------------------------------------------------------
(***************************************************************************)
(* A text in pieces: what one more element does to them.                   *)
(***************************************************************************)

-----------------------------------------------------------------------------
(***************************************************************************)
(* A text is split into lines, and what is joined from lines is split into *)
(* them again.                                                             *)
(***************************************************************************)
LEMMA PiecesEmpty ==
  ASSUME NEW src
  PROVE  Pieces(src, <<>>) = <<(<<>>)>>
<1>1. <<>> \in Seq(Int) /\ Len(<<>>) = 0
  BY EmptySeq
<1>2. PICK f : f[0] = <<(<<>>)>> /\ Pieces(src, <<>>) = f[Len(<<>>)]
  <2>1. PICK f : /\ f[0] = <<(<<>>)>>
                 /\ \A n \in 1..Len(<<>>) : f[n] = Continued(src, f[n - 1], <<>>[n])
                 /\ \A n \in 0..Len(<<>>) : f[n] \in Split(Int)
                 /\ Pieces(src, <<>>) = f[Len(<<>>)]
    BY <1>1, PiecesRuns, Zenon
  <2> QED
    BY <2>1, Zenon
<1> QED
  BY <1>1, <1>2, Zenon

LEMMA Appended ==
  ASSUME NEW X, NEW s \in Seq(X), NEW x \in X, NEW n, n = Len(s)
  PROVE  /\ Append(s, x) \in Seq(X) /\ Len(Append(s, x)) = n + 1 /\ Append(s, x)[n + 1] = x
         /\ \A i \in 1..n : Append(s, x)[i] = s[i]
BY AppendProperties

\* The first elements, one more of them.
LEMMA OneFurther ==
  ASSUME NEW X, NEW q \in Seq(X), NEW n \in 1..Len(q)
  PROVE  /\ SubSeq(q, 1, n - 1) \in Seq(X) /\ q[n] \in X
         /\ SubSeq(q, 1, n) = Append(SubSeq(q, 1, n - 1), q[n])
<1>1. PICK x \in X : x = q[n]
  BY ElementOfSeq
<1>2. PICK a \in Seq(X) : a = SubSeq(q, 1, n - 1)
  <2>1. 1 \in Int /\ n - 1 \in Int /\ 1 >= 1 /\ n - 1 <= Len(q)
    OBVIOUS
  <2>2. SubSeq(q, 1, n - 1) \in Seq(X)
    BY <2>1, PartIn, Zenon
  <2> QED
    BY <2>2
<1>3. SubSeq(q, 1, n) = a \o <<x>>
  <2>1. 1 \in 1..Len(q) /\ n \in 1..Len(q)
    OBVIOUS
  <2>2. SubSeq(q, 1, n) = SubSeq(q, 1, n - 1) \o <<q[n]>>
    BY <2>1, SubSeqRecursiveSecond, Zenon
  <2> QED
    BY <1>1, <1>2, <2>2
<1>4. Append(a, x) = a \o <<x>>
  BY AppendIsConcat
<1> QED
  BY <1>1, <1>2, <1>3, <1>4, Zenon

LEMMA BehindBoth ==
  ASSUME NEW X, NEW s \in Seq(X), NEW a \in Seq(X), NEW x \in X
  PROVE  s \o a \in Seq(X) /\ s \o Append(a, x) = Append(s \o a, x)
<1>1. <<x>> \in Seq(X)
  OBVIOUS
<1>2. s \o a \in Seq(X)
  BY ConcatProperties
<1>3. Append(a, x) = a \o <<x>>
  BY AppendIsConcat
<1>4. Append(s \o a, x) = (s \o a) \o <<x>>
  BY <1>2, AppendIsConcat
<1>5. (s \o a) \o <<x>> = s \o (a \o <<x>>)
  BY <1>1, ConcatAssociative
<1> QED
  BY <1>2, <1>3, <1>4, <1>5, Zenon

LEMMA PiecesMore ==
  ASSUME NEW src, NEW X, NEW T \in Seq(X), NEW x \in X
  PROVE  Pieces(src, Append(T, x)) = Continued(src, Pieces(src, T), x)
<1>1. PICK N \in Nat : N = Len(T)
  OBVIOUS
<1>2. PICK U \in Seq(X) : U = Append(T, x) /\ Len(U) = N + 1 /\ U[N + 1] = x /\ \A i \in 1..N : U[i] = T[i]
  <2>1. PICK U : U = Append(T, x)
    OBVIOUS
  <2>2. U \in Seq(X) /\ Len(U) = N + 1 /\ U[N + 1] = x /\ \A i \in 1..N : U[i] = T[i]
    BY <1>1, <2>1, Appended
  <2> QED
    BY <2>1, <2>2
<1>3. PICK f : /\ f[0] = <<(<<>>)>>
               /\ \A n \in 1..N : f[n] = Continued(src, f[n - 1], T[n])
               /\ Pieces(src, T) = f[N]
  <2>1. PICK f : /\ f[0] = <<(<<>>)>>
                 /\ \A n \in 1..Len(T) : f[n] = Continued(src, f[n - 1], T[n])
                 /\ \A n \in 0..Len(T) : f[n] \in Split(X)
                 /\ Pieces(src, T) = f[Len(T)]
    BY PiecesRuns
  <2> QED
    BY <1>1, <2>1
<1>4. PICK g : /\ g[0] = <<(<<>>)>>
               /\ \A n \in 1..(N + 1) : g[n] = Continued(src, g[n - 1], U[n])
               /\ Pieces(src, U) = g[N + 1]
  <2>1. PICK g : /\ g[0] = <<(<<>>)>>
                 /\ \A n \in 1..Len(U) : g[n] = Continued(src, g[n - 1], U[n])
                 /\ \A n \in 0..Len(U) : g[n] \in Split(X)
                 /\ Pieces(src, U) = g[Len(U)]
    BY PiecesRuns
  <2> QED
    BY <1>2, <2>1
<1> DEFINE A == [n \in 0..N |-> {f[n]}]
<1>5. \A n \in 0..N : g[n] \in A[n]
  <2>1. g[0] \in A[0]
    BY <1>3, <1>4
  <2>2. ASSUME NEW n \in 1..N, g[n - 1] \in A[n - 1] PROVE g[n] \in A[n]
    <3>1. n \in 0..N /\ n - 1 \in 0..N /\ n \in 1..(N + 1)
      OBVIOUS
    <3>2. g[n - 1] = f[n - 1]
      BY <2>2, <3>1
    <3>3. g[n] = f[n]
      BY <1>2, <1>3, <1>4, <3>1, <3>2
    <3> QED
      BY <3>1, <3>3
  <2> HIDE DEF A
  <2> QED
    BY <2>1, <2>2, Throughout
<1>6. g[N] = f[N]
  <2>1. N \in 0..N
    OBVIOUS
  <2> QED
    BY <1>5, <2>1
<1>7. g[N + 1] = Continued(src, g[N], x)
  <2>1. N + 1 \in 1..(N + 1) /\ N + 1 - 1 = N
    OBVIOUS
  <2> QED
    BY <1>2, <1>4, <2>1
<1> QED
  BY <1>2, <1>3, <1>4, <1>6, <1>7

\* What does not end a line.
Solid(src, x) == Sym(src, x) # "nl"

\* More is s, and e behind it.
Adds(more, s, e) == more = Append(s, e)

\* The last piece grows.
LEMMA ContinuedLast ==
  ASSUME NEW src, NEW X, NEW ps \in Seq(Seq(X)), NEW s \in Seq(X), NEW x \in X,
         Solid(src, x)
  PROVE  Adds(Continued(src, Append(ps, s), x), ps, Append(s, x))
<1>1. PICK p \in Seq(Seq(X)) : p = Append(ps, s)
  BY AppendProperties
<1>2. PICK n \in Nat : n = Len(ps)
  OBVIOUS
<1>3. Len(p) = n + 1 /\ p[n + 1] = s /\ \A i \in 1..n : p[i] = ps[i]
  BY <1>1, <1>2, AppendProperties
<1>4. Continued(src, p, x) = Append(ps, Append(s, x))
  <2> DEFINE q == [p EXCEPT ![Len(p)] = Append(p[Len(p)], x)]
  <2>1. Continued(src, p, x) = q
    BY Zenon DEF Continued, Solid
  <2>2. PICK t \in Seq(X) : t = Append(s, x)
    BY AppendProperties
  <2>3. q \in Seq(Seq(X)) /\ Len(q) = n + 1 /\ q[n + 1] = t /\ \A i \in 1..n : q[i] = p[i]
    <3>1. n + 1 \in 1..Len(p)
      BY <1>3
    <3>2. q = [p EXCEPT ![n + 1] = t]
      BY <1>3, <2>2
    <3> QED
      BY <1>3, <3>1, <3>2, ExceptSeq
  <2>4. PICK r \in Seq(Seq(X)) : /\ r = Append(ps, t) /\ Len(r) = n + 1 /\ r[n + 1] = t
                                 /\ \A i \in 1..n : r[i] = ps[i]
    <3>1. PICK r : r = Append(ps, t)
      OBVIOUS
    <3>2. r \in Seq(Seq(X)) /\ Len(r) = n + 1 /\ r[n + 1] = t /\ \A i \in 1..n : r[i] = ps[i]
      BY <1>2, <3>1, Appended
    <3> QED
      BY <3>1, <3>2
  <2> HIDE DEF q
  <2>5. q = r
    <3>1. \A i \in 1..(n + 1) : q[i] = r[i]
      BY <1>3, <2>3, <2>4
    <3> QED
      BY <2>3, <2>4, <3>1, SeqEqual
  <2> QED
    BY <1>1, <2>1, <2>2, <2>4, <2>5
<1> QED
  BY <1>1, <1>4, Zenon DEF Adds

LEMMA PiecesGrow ==
  ASSUME NEW src, NEW X, NEW T \in Seq(X), NEW x \in X, NEW ps \in Seq(Seq(X)), NEW s \in Seq(X),
         Adds(Pieces(src, T), ps, s), Solid(src, x)
  PROVE  Adds(Pieces(src, Append(T, x)), ps, Append(s, x))
<1>1. Pieces(src, Append(T, x)) = Continued(src, Pieces(src, T), x)
  BY PiecesMore
<1>2. Adds(Continued(src, Append(ps, s), x), ps, Append(s, x))
  BY ContinuedLast
<1>3. Pieces(src, T) = Append(ps, s)
  BY Zenon DEF Adds
<1> QED
  BY <1>1, <1>2, <1>3, Zenon

\* What has no line break in it belongs to one piece.
LEMMA PiecesOfMore ==
  ASSUME NEW src, NEW X, NEW T \in Seq(X), NEW ps \in Seq(Seq(X)), NEW s \in Seq(X),
         Adds(Pieces(src, T), ps, s), NEW q \in Seq(X), \A i \in 1..Len(q) : Solid(src, q[i])
  PROVE  Adds(Pieces(src, T \o q), ps, s \o q)
<1>1. PICK N \in Nat : N = Len(q)
  OBVIOUS
<1> DEFINE first(n) == SubSeq(q, 1, n)
           f == [n \in 0..N |-> n]
           A == [n \in 0..N |-> {m \in {n} : Adds(Pieces(src, T \o first(n)), ps, s \o first(n))}]
<1>2. ASSUME NEW n \in 0..N PROVE f[n] \in A[n] <=> Adds(Pieces(src, T \o first(n)), ps, s \o first(n))
  <2> HIDE DEF first
  <2> QED
    OBVIOUS
<1>3. f[0] \in A[0]
  <2>1. T \o <<>> = T /\ s \o <<>> = s
    BY ConcatEmptySeq
  <2>2. first(0) = <<>>
    BY SubSeqEmpty
  <2>3. 0 \in 0..N
    OBVIOUS
  <2> HIDE DEF f, A, first
  <2> QED
    BY <1>2, <2>1, <2>2, <2>3, Zenon
<1>4. ASSUME NEW n \in 1..N, f[n - 1] \in A[n - 1] PROVE f[n] \in A[n]
  <2>1. n \in 0..N /\ n - 1 \in 0..N /\ n \in 1..Len(q)
    BY <1>1
  <2>2. PICK a \in Seq(X) : a = SubSeq(q, 1, n - 1)
    BY <2>1, OneFurther
  <2>3. PICK x \in X : x = q[n]
    BY <2>1, ElementOfSeq
  <2>4. first(n) = Append(a, x)
    BY <2>1, <2>2, <2>3, OneFurther, Zenon
  <2>5. PICK b \in Seq(X), c \in Seq(X) : b = T \o a /\ c = s \o a
    BY ConcatProperties
  <2>6. T \o first(n) = Append(b, x) /\ s \o first(n) = Append(c, x)
    <3>1. T \o Append(a, x) = Append(T \o a, x)
      BY BehindBoth
    <3>2. s \o Append(a, x) = Append(s \o a, x)
      BY BehindBoth
    <3> QED
      BY <2>4, <2>5, <3>1, <3>2, Zenon
  <2>7. Adds(Pieces(src, b), ps, c)
    <3> HIDE DEF f, A
    <3>1. Adds(Pieces(src, T \o first(n - 1)), ps, s \o first(n - 1))
      BY <1>2, <1>4, <2>1, Zenon
    <3> QED
      BY <2>2, <2>5, <3>1, Zenon
  <2> HIDE DEF f, A, first
  <2>8. Solid(src, x)
    BY <2>1, <2>3
  <2>9. Adds(Pieces(src, Append(b, x)), ps, Append(c, x))
    BY <2>7, <2>8, PiecesGrow
  <2> QED
    BY <1>2, <2>1, <2>6, <2>9, Zenon
<1> HIDE DEF f, A
<1>5. \A n \in 0..N : f[n] \in A[n]
  BY <1>3, <1>4, Throughout
<1>6. first(N) = q
  BY <1>1, SubSeqFull
<1>7. N \in 0..N
  OBVIOUS
<1> HIDE DEF first
<1>8. Adds(Pieces(src, T \o first(N)), ps, s \o first(N))
  BY <1>2, <1>5, <1>7, Zenon
<1> QED
  BY <1>6, <1>8, Zenon
-----------------------------------------------------------------------------
(***************************************************************************)
(* Pieces and joining: the pieces of what was joined are the parts.        *)
(***************************************************************************)

\* Induction up to a bound.
LEMMA UpTo ==
  ASSUME NEW N \in Nat, NEW T, 0 \in T, \A n \in 1..N : n - 1 \in T => n \in T
  PROVE  \A n \in 0..N : n \in T
<1> DEFINE f == [n \in 0..N |-> n]
           A == [n \in 0..N |-> T]
<1>1. \A n \in 0..N : f[n] = n /\ A[n] = T
  OBVIOUS
<1> HIDE DEF f, A
<1>2. f[0] \in A[0]
  BY <1>1
<1>3. \A n \in 1..N : f[n - 1] \in A[n - 1] => f[n] \in A[n]
  BY <1>1
<1>4. \A n \in 0..N : f[n] \in A[n]
  BY <1>2, <1>3, Throughout
<1> QED
  BY <1>1, <1>4

LEMMA UpFrom ==
  ASSUME NEW N \in Nat, NEW T, 1 \in T, \A n \in 2..N : n - 1 \in T => n \in T
  PROVE  \A n \in 1..N : n \in T
<1> DEFINE U == {n \in 0..N : n # 0 => n \in T}
<1>1. 0 \in U
  OBVIOUS
<1>2. ASSUME NEW n \in 1..N, n - 1 \in U PROVE n \in U
  BY <1>2
<1> HIDE DEF U
<1>3. \A n \in 0..N : n \in U
  BY <1>1, <1>2, UpTo
<1> QED
  BY <1>3 DEF U

\* A line break begins another piece.
LEMMA PiecesBreak ==
  ASSUME NEW src, NEW X, NEW T \in Seq(X), NEW x \in X, ~Solid(src, x)
  PROVE  Adds(Pieces(src, Append(T, x)), Pieces(src, T), <<>>)
<1>1. Pieces(src, Append(T, x)) = Continued(src, Pieces(src, T), x)
  BY PiecesMore
<1>2. Sym(src, x) = "nl"
  BY DEF Solid
<1>3. Continued(src, Pieces(src, T), x) = Append(Pieces(src, T), <<>>)
  BY <1>2, Zenon DEF Continued
<1> QED
  BY <1>1, <1>3, Zenon DEF Adds

\* No element ends a line.
SolidText(src, X) == {x \in X : Solid(src, x)}

LEMMA PiecesFirst ==
  ASSUME NEW src, NEW X, NEW q \in Seq(X), \A i \in 1..Len(q) : Solid(src, q[i])
  PROVE  Adds(Pieces(src, q), <<>>, q)
<1>1. <<>> \in Seq(X) /\ <<>> \in Seq(Seq(X))
  BY EmptySeq
<1>2. Append(<<>>, <<>>) = <<(<<>>)>>
  OBVIOUS
<1>3. Adds(Pieces(src, <<>>), <<>>, <<>>)
  BY <1>2, PiecesEmpty, Zenon DEF Adds
<1>4. PICK e \in Seq(X), n \in Seq(Seq(X)) : e = <<>> /\ n = <<>>
  BY <1>1
<1>5. Adds(Pieces(src, e), n, e)
  BY <1>3, <1>4, Zenon
<1>6. Adds(Pieces(src, e \o q), n, e \o q)
  BY <1>5, PiecesOfMore
<1>7. e \o q = q
  BY <1>4, ConcatEmptySeq
<1> QED
  BY <1>4, <1>6, <1>7, Zenon

\* The piece behind a line break.
LEMMA PiecesNext ==
  ASSUME NEW src, NEW X, NEW T \in Seq(X), NEW x \in X, ~Solid(src, x), NEW ps \in Seq(Seq(X)), Pieces(src, T) = ps,
         NEW q \in Seq(X), \A i \in 1..Len(q) : Solid(src, q[i])
  PROVE  Adds(Pieces(src, T \o <<x>> \o q), ps, q)
<1>1. <<>> \in Seq(X) /\ <<x>> \in Seq(X)
  BY EmptySeq
<1>2. PICK e \in Seq(X) : e = <<>>
  BY <1>1
<1>3. PICK U \in Seq(X) : U = Append(T, x)
  BY AppendProperties
<1>4. Adds(Pieces(src, U), ps, e)
  BY <1>2, <1>3, PiecesBreak
<1>5. Adds(Pieces(src, U \o q), ps, e \o q)
  BY <1>4, PiecesOfMore
<1>6. e \o q = q
  BY <1>2, ConcatEmptySeq
<1>7. U = T \o <<x>>
  BY <1>3, AppendIsConcat
<1> QED
  BY <1>5, <1>6, <1>7, Zenon

LEMMA BreakIs == \A src : Sym(src, NewLine) = "nl" /\ ~Solid(src, NewLine)
<1>1. ASSUME NEW src PROVE Sym(src, NewLine) = "nl"
  BY DEF Sym, NewLine
<1> QED
  BY <1>1 DEF Solid

\* The lines of what is joined from lines.
LEMMA PiecesJoined ==
  ASSUME NEW src, NEW X, Marks \subseteq X, NEW ps \in Seq(Seq(X)), Len(ps) > 0,
         \A i \in 1..Len(ps) : \A j \in 1..Len(ps[i]) : Solid(src, ps[i][j])
  PROVE  Pieces(src, Joined(ps)) = ps
<1>1. PICK N \in Nat : N = Len(ps) /\ N > 0
  OBVIOUS
<1>2. PICK f : /\ f[1] = ps[1]
               /\ \A n \in 2..N : f[n] = f[n - 1] \o <<NewLine>> \o ps[n]
               /\ \A n \in 1..N : f[n] \in Seq(X)
               /\ Joined(ps) = f[N]
  <2>1. PICK f : /\ f[1] = ps[1]
                 /\ \A n \in 2..Len(ps) : f[n] = f[n - 1] \o <<NewLine>> \o ps[n]
                 /\ \A n \in 1..Len(ps) : f[n] \in Seq(X)
                 /\ Joined(ps) = f[Len(ps)]
    BY JoinedRuns, Zenon
  <2> QED
    BY <1>1, <2>1
<1> DEFINE first(n) == SubSeq(ps, 1, n)
           H == {n \in 1..N : Pieces(src, f[n]) = first(n)}
<1>3. \A n \in 1..N : ps[n] \in Seq(X) /\ \A j \in 1..Len(ps[n]) : Solid(src, ps[n][j])
  BY <1>1, ElementOfSeq
<1>4. \A n \in 1..N : first(n - 1) \in Seq(Seq(X)) /\ Adds(first(n), first(n - 1), ps[n])
  <2> SUFFICES ASSUME NEW n \in 1..N PROVE first(n - 1) \in Seq(Seq(X)) /\ Adds(first(n), first(n - 1), ps[n])
    OBVIOUS
  <2>1. n \in 1..Len(ps)
    BY <1>1
  <2> QED
    BY <2>1, OneFurther DEF Adds
<1>5. 1 \in H
  <2>1. 1 \in 1..N
    BY <1>1
  <2>2. Adds(Pieces(src, ps[1]), <<>>, ps[1])
    BY <1>3, <2>1, PiecesFirst
  <2>3. first(0) = <<>>
    BY SubSeqEmpty
  <2>4. Adds(first(1), <<>>, ps[1])
    <3> HIDE DEF first
    <3>1. Adds(first(1), first(1 - 1), ps[1]) /\ 1 - 1 = 0
      BY <1>4, <2>1
    <3> QED
      BY <2>3, <3>1
  <2> HIDE DEF first
  <2>5. Pieces(src, f[1]) = first(1)
    BY <1>2, <2>2, <2>4, Zenon DEF Adds
  <2> QED
    BY <2>1, <2>5
<1>6. ASSUME NEW n \in 2..N, n - 1 \in H PROVE n \in H
  <2>1. n \in 1..N /\ n - 1 \in 1..N
    OBVIOUS
  <2>2. Pieces(src, f[n - 1]) = first(n - 1)
    BY <1>6
  <2>3. NewLine \in X
    BY DEF Marks
  <2>4. PICK g \in Seq(X) : g = f[n - 1]
    BY <1>2, <2>1
  <2>5. PICK q \in Seq(X) : q = ps[n] /\ \A j \in 1..Len(q) : Solid(src, q[j])
    BY <1>3, <2>1
  <2>6. PICK p \in Seq(Seq(X)) : p = first(n - 1)
    BY <1>4, <2>1
  <2> HIDE DEF first
  <2>7. Adds(Pieces(src, g \o <<NewLine>> \o q), p, q)
    BY <2>2, <2>3, <2>4, <2>5, <2>6, BreakIs, PiecesNext
  <2>8. Adds(first(n), p, q)
    BY <1>4, <2>1, <2>5, <2>6
  <2>9. f[n] = g \o <<NewLine>> \o q
    BY <1>2, <2>4, <2>5
  <2>10. Pieces(src, f[n]) = first(n)
    BY <2>7, <2>8, <2>9, Zenon DEF Adds
  <2> QED
    BY <2>1, <2>10
<1> HIDE DEF H
<1>7. \A n \in 1..N : n \in H
  BY <1>5, <1>6, UpFrom
<1>8. Pieces(src, f[N]) = first(N)
  <2>1. N \in H
    BY <1>1, <1>7
  <2> QED
    BY <2>1 DEF H
<1>9. first(N) = ps
  BY <1>1, SubSeqFull
<1> QED
  BY <1>2, <1>8, <1>9
-----------------------------------------------------------------------------
(***************************************************************************)
(* Joining: what was taken apart at the line breaks is put together again. *)
(***************************************************************************)

\* More has n elements of s, and e behind them.
OneLonger(more, s, e, n) == Len(more) = n + 1 /\ more[n + 1] = e /\ \A i \in 1..n : more[i] = s[i]

LEMMA AddsIs ==
  ASSUME NEW X, NEW s \in Seq(X), NEW e \in X, NEW n, n = Len(s), NEW more, Adds(more, s, e)
  PROVE  more \in Seq(X) /\ OneLonger(more, s, e, n)
<1>1. more = Append(s, e)
  BY Zenon DEF Adds
<1> QED
  BY <1>1, Appended DEF OneLonger

LEMMA JoinedOne ==
  ASSUME NEW X, Marks \subseteq X, NEW q \in Seq(X), NEW p, Adds(p, <<>>, q)
  PROVE  Joined(p) = q
<1>1. <<>> \in Seq(Seq(X)) /\ Len(<<>>) = 0
  BY EmptySeq
<1>2. p \in Seq(Seq(X)) /\ Len(p) = 0 + 1 /\ p[0 + 1] = q
  <2>1. p \in Seq(Seq(X)) /\ OneLonger(p, <<>>, q, 0)
    BY <1>1, AddsIs
  <2> QED
    BY <2>1 DEF OneLonger
<1>3. Len(p) = 1 /\ p[1] = q /\ Len(p) > 0
  BY <1>2
<1>4. PICK f : f[1] = p[1] /\ Joined(p) = f[Len(p)]
  BY <1>2, <1>3, JoinedRuns, Zenon
<1> QED
  BY <1>3, <1>4

LEMMA JoinedMore ==
  ASSUME NEW X, Marks \subseteq X, NEW ps \in Seq(Seq(X)), Len(ps) > 0, NEW q \in Seq(X), NEW p, Adds(p, ps, q)
  PROVE  Joined(p) = Joined(ps) \o <<NewLine>> \o q
<1>1. PICK N \in Nat : N = Len(ps) /\ N > 0
  OBVIOUS
<1>2. p \in Seq(Seq(X)) /\ Len(p) = N + 1 /\ p[N + 1] = q /\ \A i \in 1..N : p[i] = ps[i]
  <2>1. p \in Seq(Seq(X)) /\ OneLonger(p, ps, q, N)
    BY <1>1, AddsIs
  <2> QED
    BY <2>1, Zenon DEF OneLonger
<1>3. PICK f : /\ f[1] = ps[1]
               /\ \A n \in 2..N : f[n] = f[n - 1] \o <<NewLine>> \o ps[n]
               /\ Joined(ps) = f[N]
  <2>1. PICK f : /\ f[1] = ps[1]
                 /\ \A n \in 2..Len(ps) : f[n] = f[n - 1] \o <<NewLine>> \o ps[n]
                 /\ \A n \in 1..Len(ps) : f[n] \in Seq(X)
                 /\ Joined(ps) = f[Len(ps)]
    BY JoinedRuns, Zenon
  <2> QED
    BY <1>1, <2>1
<1>4. PICK g : /\ g[1] = p[1]
               /\ \A n \in 2..(N + 1) : g[n] = g[n - 1] \o <<NewLine>> \o p[n]
               /\ Joined(p) = g[N + 1]
  <2>1. Len(p) > 0
    BY <1>1, <1>2
  <2>2. PICK g : /\ g[1] = p[1]
                 /\ \A n \in 2..Len(p) : g[n] = g[n - 1] \o <<NewLine>> \o p[n]
                 /\ \A n \in 1..Len(p) : g[n] \in Seq(X)
                 /\ Joined(p) = g[Len(p)]
    BY <1>2, <2>1, JoinedRuns, Zenon
  <2> QED
    BY <1>2, <2>2
<1> DEFINE H == {n \in 1..N : g[n] = f[n]}
<1>5. 1 \in H
  BY <1>1, <1>2, <1>3, <1>4
<1>6. ASSUME NEW n \in 2..N, n - 1 \in H PROVE n \in H
  <2>1. n \in 1..N /\ n \in 2..(N + 1)
    OBVIOUS
  <2>2. g[n - 1] = f[n - 1] /\ p[n] = ps[n]
    BY <1>2, <1>6, <2>1
  <2>3. g[n] = f[n]
    BY <1>3, <1>4, <2>1, <2>2, Zenon
  <2> QED
    BY <2>1, <2>3
<1> HIDE DEF H
<1>7. \A n \in 1..N : n \in H
  BY <1>5, <1>6, UpFrom
<1>8. g[N] = f[N]
  <2>1. N \in H
    BY <1>1, <1>7
  <2> QED
    BY <2>1 DEF H
<1>9. g[N + 1] = g[N] \o <<NewLine>> \o p[N + 1]
  <2>1. PICK m \in 2..(N + 1) : m = N + 1 /\ m - 1 = N
    BY <1>1
  <2>2. g[m] = g[m - 1] \o <<NewLine>> \o p[m]
    BY <1>4
  <2> QED
    BY <2>1, <2>2, Zenon
<1> QED
  BY <1>2, <1>3, <1>4, <1>8, <1>9, Zenon

LEMMA JoinedGrows ==
  ASSUME NEW X, Marks \subseteq X, NEW ps \in Seq(Seq(X)), NEW s \in Seq(X), NEW x \in X,
         NEW p, Adds(p, ps, s), NEW r, Adds(r, ps, Append(s, x))
  PROVE  Adds(Joined(r), Joined(p), x)
<1>1. PICK t \in Seq(X) : t = Append(s, x)
  BY AppendProperties
<1>2. CASE ps = <<>>
  <2>1. Joined(p) = s
    BY <1>2, JoinedOne
  <2>2. Joined(r) = t
    BY <1>1, <1>2, JoinedOne
  <2> QED
    BY <1>1, <2>1, <2>2, Zenon DEF Adds
<1>3. CASE ps # <<>>
  <2>1. Len(ps) > 0
    BY <1>3, EmptySeq
  <2>2. PICK j \in Seq(X) : j = Joined(ps)
    BY <2>1, JoinedIs
  <2>3. Joined(p) = j \o <<NewLine>> \o s
    BY <2>1, <2>2, JoinedMore
  <2>4. Joined(r) = j \o <<NewLine>> \o t
    BY <1>1, <2>1, <2>2, JoinedMore
  <2>5. PICK b \in Seq(X) : b = j \o <<NewLine>>
    <3>1. NewLine \in X
      BY DEF Marks
    <3>2. <<NewLine>> \in Seq(X)
      BY <3>1
    <3> QED
      BY <3>2, ConcatProperties
  <2>6. b \o Append(s, x) = Append(b \o s, x)
    BY BehindBoth
  <2> QED
    BY <1>1, <2>3, <2>4, <2>5, <2>6, Zenon DEF Adds
<1> QED
  BY <1>2, <1>3

\* The same text, but for the line breaks that execkit has put in.
Alike(src, U, T) ==
  /\ Len(U) = Len(T)
  /\ \A i \in 1..Len(T) : U[i] = T[i] \/ (U[i] = NewLine /\ ~Solid(src, T[i]))

LEMMA AlikeMore ==
  ASSUME NEW src, NEW X, NEW U \in Seq(X), NEW T \in Seq(X), Alike(src, U, T), NEW x \in X, NEW y \in X,
         y = x \/ (y = NewLine /\ ~Solid(src, x)),
         NEW V, NEW W, Adds(V, U, y), Adds(W, T, x)
  PROVE  Alike(src, V, W)
<1>1. PICK N \in Nat : N = Len(T) /\ N = Len(U)
  BY DEF Alike
<1>2. Len(V) = N + 1 /\ V[N + 1] = y /\ \A i \in 1..N : V[i] = U[i]
  <2>1. OneLonger(V, U, y, N)
    BY <1>1, AddsIs
  <2> QED
    BY <2>1, Zenon DEF OneLonger
<1>3. Len(W) = N + 1 /\ W[N + 1] = x /\ \A i \in 1..N : W[i] = T[i]
  <2>1. OneLonger(W, T, x, N)
    BY <1>1, AddsIs
  <2> QED
    BY <2>1, Zenon DEF OneLonger
<1>4. ASSUME NEW i \in 1..(N + 1) PROVE V[i] = W[i] \/ (V[i] = NewLine /\ ~Solid(src, W[i]))
  <2>1. CASE i = N + 1
    BY <1>2, <1>3, <2>1
  <2>2. CASE i # N + 1
    <3>1. i \in 1..N
      BY <2>2
    <3>2. U[i] = T[i] \/ (U[i] = NewLine /\ ~Solid(src, T[i]))
      BY <1>1, <3>1 DEF Alike
    <3>3. V[i] = U[i] /\ W[i] = T[i]
      BY <1>2, <1>3, <3>1
    <3> QED
      BY <3>2, <3>3
  <2> QED
    BY <2>1, <2>2
<1> QED
  BY <1>2, <1>3, <1>4 DEF Alike

LEMMA PiecesAre ==
  ASSUME NEW src, NEW X, NEW T \in Seq(X)
  PROVE  Pieces(src, T) \in Split(X)
<1>1. PICK n \in Nat : n = Len(T)
  OBVIOUS
<1>2. PICK f : (\A k \in 0..Len(T) : f[k] \in Split(X)) /\ Pieces(src, T) = f[Len(T)]
  BY PiecesRuns
<1>3. n \in 0..n
  BY <1>1
<1> QED
  BY <1>1, <1>2, <1>3

\* The lines with line breaks between them are the text.
LEMMA PiecesWhole ==
  ASSUME NEW src, NEW X, Marks \subseteq X, NEW T \in Seq(X)
  PROVE  Alike(src, Joined(Pieces(src, T)), T)
<1>1. PICK N \in Nat : N = Len(T)
  OBVIOUS
<1> DEFINE first(n) == SubSeq(T, 1, n)
           H == {n \in 0..N : Alike(src, Joined(Pieces(src, first(n))), first(n))}
<1>2. 0 \in H
  <2>1. first(0) = <<>>
    BY SubSeqEmpty
  <2>2. <<>> \in Seq(X) /\ Len(<<>>) = 0
    BY EmptySeq
  <2>3. Adds(Pieces(src, <<>>), <<>>, <<>>)
    <3>1. Append(<<>>, <<>>) = <<(<<>>)>>
      OBVIOUS
    <3> QED
      BY <3>1, PiecesEmpty, Zenon DEF Adds
  <2>4. Joined(Pieces(src, <<>>)) = <<>>
    BY <2>2, <2>3, JoinedOne
  <2>5. Alike(src, <<>>, <<>>)
    BY DEF Alike
  <2> HIDE DEF first
  <2> QED
    BY <2>1, <2>4, <2>5
<1>3. ASSUME NEW n \in 1..N, n - 1 \in H PROVE n \in H
  <2>1. n \in 0..N /\ n - 1 \in 0..N /\ n \in 1..Len(T)
    BY <1>1
  <2>2. PICK a \in Seq(X) : a = first(n - 1)
    BY <2>1, OneFurther
  <2>3. PICK x \in X : x = T[n]
    BY <2>1, ElementOfSeq
  <2>4. first(n) = Append(a, x)
    BY <2>1, <2>2, <2>3, OneFurther, Zenon
  <2>5. PICK b \in Seq(X) : b = Append(a, x)
    BY AppendProperties
  <2> HIDE DEF first
  <2>6. Alike(src, Joined(Pieces(src, a)), a)
    BY <1>3, <2>2
  <2>7. PICK p \in Seq(Seq(X)) : p = Pieces(src, a) /\ Len(p) > 0
    BY PiecesAre DEF Split
  <2>8. PICK j \in Seq(X) : j = Joined(p)
    BY <2>7, JoinedIs
  <2>9. Adds(b, a, x)
    BY <2>5, Zenon DEF Adds
  <2>10. CASE Solid(src, x)
    <3>1. PICK ps \in Seq(Seq(X)), s \in Seq(X) : p = Append(ps, s)
      <4>1. p # <<>>
        BY <2>7, EmptySeq
      <4> QED
        BY <4>1, SequenceEmptyOrAppend
    <3>2. Adds(Pieces(src, a), ps, s)
      BY <2>7, <3>1, Zenon DEF Adds
    <3>3. Adds(Pieces(src, b), ps, Append(s, x))
      BY <2>5, <2>10, <3>2, PiecesGrow
    <3>4. Adds(Joined(Pieces(src, b)), j, x)
      BY <2>7, <2>8, <3>2, <3>3, JoinedGrows
    <3> QED
      BY <2>1, <2>4, <2>5, <2>6, <2>7, <2>8, <2>9, <3>4, AlikeMore
  <2>11. CASE ~Solid(src, x)
    <3>1. <<>> \in Seq(X) /\ NewLine \in X
      BY EmptySeq DEF Marks
    <3>2. Adds(Pieces(src, b), p, <<>>)
      BY <2>5, <2>7, <2>11, PiecesBreak
    <3>3. PICK e \in Seq(X) : e = <<>>
      BY <3>1
    <3>4. Joined(Pieces(src, b)) = j \o <<NewLine>> \o e
      BY <2>7, <2>8, <3>2, <3>3, JoinedMore
    <3>5. PICK k \in Seq(X) : k = j \o <<NewLine>>
      <4>1. <<NewLine>> \in Seq(X)
        BY <3>1
      <4> QED
        BY <4>1, ConcatProperties
    <3>6. k \o e = k
      BY <3>3, ConcatEmptySeq
    <3>7. k = Append(j, NewLine)
      BY <3>1, <3>5, AppendIsConcat
    <3>8. Adds(Joined(Pieces(src, b)), j, NewLine)
      BY <3>4, <3>5, <3>6, <3>7, Zenon DEF Adds
    <3> QED
      BY <2>1, <2>4, <2>5, <2>6, <2>7, <2>8, <2>9, <2>11, <3>1, <3>8, AlikeMore
  <2> QED
    BY <2>10, <2>11
<1> HIDE DEF H
<1>4. \A n \in 0..N : n \in H
  BY <1>2, <1>3, UpTo
<1>5. N \in H
  BY <1>4
<1>6. first(N) = T
  BY <1>1, SubSeqFull
<1> QED
  BY <1>5, <1>6 DEF H
-----------------------------------------------------------------------------
(***************************************************************************)
(* The lines of a text.                                                    *)
(***************************************************************************)

LEMMA SolidPieces ==
  ASSUME NEW src, NEW X, NEW T \in Seq(X)
  PROVE  Pieces(src, T) \in Split(SolidText(src, X))
<1>1. PICK N \in Nat : N = Len(T)
  OBVIOUS
<1>2. PICK f : /\ f[0] = <<(<<>>)>>
               /\ \A n \in 1..N : f[n] = Continued(src, f[n - 1], T[n])
               /\ Pieces(src, T) = f[N]
  <2>1. PICK f : /\ f[0] = <<(<<>>)>>
                 /\ \A n \in 1..Len(T) : f[n] = Continued(src, f[n - 1], T[n])
                 /\ \A n \in 0..Len(T) : f[n] \in Split(X)
                 /\ Pieces(src, T) = f[Len(T)]
    BY PiecesRuns
  <2> QED
    BY <1>1, <2>1
<1> DEFINE Y == SolidText(src, X)
           H == {n \in 0..N : f[n] \in Split(Y)}
<1>3. 0 \in H
  <2>1. <<>> \in Seq(Y)
    BY EmptySeq
  <2> HIDE DEF Y
  <2>2. <<(<<>>)>> \in Split(Y)
    BY <2>1 DEF Split
  <2> QED
    BY <1>2, <2>2
<1>4. ASSUME NEW n \in 1..N, n - 1 \in H PROVE n \in H
  <2>1. n \in 0..N /\ n - 1 \in 0..N /\ n \in 1..Len(T)
    BY <1>1
  <2>2. PICK x \in X : x = T[n]
    BY <2>1, ElementOfSeq
  <2>3. PICK p \in Split(Y) : p = f[n - 1]
    BY <1>4
  <2>4. f[n] = Continued(src, p, x)
    BY <1>2, <2>2, <2>3
  <2>5. CASE Solid(src, x)
    <3>1. x \in Y
      BY <2>5 DEF SolidText
    <3> HIDE DEF Y
    <3>2. Continued(src, p, x) \in Split(Y)
      BY <3>1, ContinuedIs
    <3> QED
      BY <2>1, <2>4, <3>2
  <2>6. CASE ~Solid(src, x)
    <3> HIDE DEF Y
    <3>1. p \in Seq(Seq(Y)) /\ <<>> \in Seq(Y)
      BY EmptySeq DEF Split
    <3>2. Append(p, <<>>) \in Seq(Seq(Y)) /\ Len(Append(p, <<>>)) = Len(p) + 1 /\ Len(p) \in Nat
      BY <3>1, AppendProperties
    <3>3. Append(p, <<>>) \in Split(Y)
      BY <3>2 DEF Split
    <3>4. Continued(src, p, x) = Append(p, <<>>)
      BY <2>6, Zenon DEF Continued, Solid
    <3> QED
      BY <2>1, <2>4, <3>3, <3>4
  <2> QED
    BY <2>5, <2>6
<1> HIDE DEF H
<1>5. \A n \in 0..N : n \in H
  BY <1>3, <1>4, UpTo
<1>6. N \in H
  BY <1>5
<1> QED
  BY <1>2, <1>6 DEF H

\* Every line break is an element.
LEMMA JoinedLong ==
  ASSUME NEW X, Marks \subseteq X, NEW ps \in Seq(Seq(X)), NEW N \in Nat, N = Len(ps), N > 0
  PROVE  Len(Joined(ps)) >= N - 1 + Len(ps[N])
<1>1. PICK f : /\ f[1] = ps[1]
               /\ \A n \in 2..N : f[n] = f[n - 1] \o <<NewLine>> \o ps[n]
               /\ \A n \in 1..N : f[n] \in Seq(X)
               /\ Joined(ps) = f[N]
  <2>1. PICK f : /\ f[1] = ps[1]
                 /\ \A n \in 2..Len(ps) : f[n] = f[n - 1] \o <<NewLine>> \o ps[n]
                 /\ \A n \in 1..Len(ps) : f[n] \in Seq(X)
                 /\ Joined(ps) = f[Len(ps)]
    BY JoinedRuns, Zenon
  <2> QED
    BY <2>1
<1> DEFINE H == {n \in 1..N : Len(f[n]) >= n - 1 + Len(ps[n])}
<1>2. 1 \in H
  <2>1. PICK q \in Seq(X) : q = ps[1]
    BY ElementOfSeq
  <2>2. Len(q) \in Nat
    OBVIOUS
  <2> QED
    BY <1>1, <2>1, <2>2
<1>3. ASSUME NEW n \in 2..N, n - 1 \in H PROVE n \in H
  <2>1. n \in 1..N /\ n - 1 \in 1..N
    OBVIOUS
  <2>2. PICK q \in Seq(X), r \in Seq(X), g \in Seq(X) : q = ps[n] /\ r = ps[n - 1] /\ g = f[n - 1]
    BY <1>1, <2>1, ElementOfSeq
  <2>3. Len(g) >= n - 2 + Len(r) /\ Len(r) \in Nat /\ Len(q) \in Nat /\ Len(g) \in Nat
    <3>1. Len(f[n - 1]) >= n - 1 - 1 + Len(ps[n - 1])
      BY <1>3
    <3> QED
      BY <2>2, <3>1
  <2>4. NewLine \in X
    BY DEF Marks
  <2>5. PICK b \in Seq(X) : b = g \o <<NewLine>> /\ Len(b) = Len(g) + 1
    <3>1. PICK x \in X : x = NewLine
      BY <2>4
    <3>2. PICK b \in Seq(X) : b = Append(g, x) /\ Len(b) = Len(g) + 1
      BY AppendProperties
    <3>3. b = g \o <<x>>
      BY <3>2, AppendIsConcat
    <3> QED
      BY <3>1, <3>2, <3>3
  <2>6. Len(b \o q) = Len(b) + Len(q)
    BY ConcatProperties
  <2>7. f[n] = b \o q
    BY <1>1, <2>2, <2>5
  <2>8. Len(b \o q) >= n - 1 + Len(q)
    BY <2>3, <2>5, <2>6
  <2>9. Len(f[n]) >= n - 1 + Len(ps[n])
    BY <2>2, <2>7, <2>8, Zenon
  <2> QED
    BY <2>1, <2>9
<1> HIDE DEF H
<1>4. \A n \in 1..N : n \in H
  BY <1>2, <1>3, UpFrom
<1>5. N \in H
  BY <1>4
<1> QED
  BY <1>1, <1>5 DEF H

LEMMA AlikeAll ==
  ASSUME NEW src, NEW U, NEW T, Alike(src, U, T)
  PROVE  AllOf(src, T, U)
<1>1. \A i \in 1..Len(T) : ~Solid(src, T[i]) => Sym(src, T[i]) = "nl"
  BY DEF Solid
<1> QED
  BY <1>1, Zenon DEF Alike, AllOf

\* But for the line break at the end.
LEMMA AlikeButOne ==
  ASSUME NEW src, NEW X, NEW U \in Seq(X), NEW T \in Seq(X), NEW V, NEW x \in X, x = NewLine,
         Adds(V, U, x), Alike(src, V, T)
  PROVE  AllOf(src, T, U)
<1>1. PICK N \in Nat : N = Len(U)
  OBVIOUS
<1>2. OneLonger(V, U, x, N)
  BY <1>1, AddsIs
<1>3. Len(V) = N + 1 /\ V[N + 1] = NewLine /\ \A i \in 1..N : V[i] = U[i]
  BY <1>2, Zenon DEF OneLonger
<1>4. Len(T) = N + 1
  BY <1>3 DEF Alike
<1>5. Sym(src, T[N + 1]) = "nl"
  <2>1. N + 1 \in 1..Len(T)
    BY <1>4
  <2>2. NewLine = T[N + 1] \/ ~Solid(src, T[N + 1])
    BY <1>3, <2>1, Zenon DEF Alike
  <2> QED
    BY <2>2, BreakIs DEF Solid
<1>6. Last(T) = T[N + 1]
  BY <1>4 DEF Last
<1>7. ASSUME NEW i \in 1..N PROVE U[i] = T[i] \/ (U[i] = NewLine /\ Sym(src, T[i]) = "nl")
  <2>1. i \in 1..Len(T)
    BY <1>4
  <2>2. V[i] = T[i] \/ (V[i] = NewLine /\ ~Solid(src, T[i]))
    BY <2>1 DEF Alike
  <2>3. V[i] = U[i]
    BY <1>3
  <2> QED
    BY <2>2, <2>3 DEF Solid
<1> QED
  BY <1>1, <1>4, <1>5, <1>6, <1>7 DEF AllOf

\* The lines of a text.
LEMMA LinesAre ==
  ASSUME NEW src, NEW X, Marks \subseteq X, NEW T \in Seq(X)
  PROVE  /\ Lines(src, T) \in Seq(Seq(SolidText(src, X)))
         /\ Len(Lines(src, T)) <= Len(T)
         /\ Lines(src, T) = <<>> => AllOf(src, T, <<>>)
         /\ Lines(src, T) # <<>> => AllOf(src, T, Joined(Lines(src, T)))
<1>1. PICK p : p = Pieces(src, T)
  OBVIOUS
<1>2. p \in Split(SolidText(src, X))
  BY <1>1, SolidPieces
<1>3. p \in Seq(Seq(SolidText(src, X)))
  BY <1>2 DEF Split
<1>4. p \in Seq(Seq(X)) /\ Len(p) > 0
  BY <1>1, PiecesAre DEF Split
<1>5. PICK N \in Nat : N = Len(p) /\ N > 0
  BY <1>4
<1>6. PICK j \in Seq(X) : j = Joined(p)
  BY <1>4, JoinedIs
<1>7. Alike(src, j, T) /\ Len(j) = Len(T)
  BY <1>1, <1>6, PiecesWhole DEF Alike
<1>8. Len(j) >= N - 1 + Len(p[N])
  BY <1>4, <1>5, <1>6, JoinedLong
<1>9. PICK s \in Seq(X) : s = p[N] /\ Last(p) = s
  <2>1. N \in 1..Len(p)
    BY <1>5
  <2> QED
    BY <1>4, <1>5, <2>1, ElementOfSeq DEF Last
<1>10. PICK ps \in Seq(Seq(X)) : ps = Front(p) /\ Adds(p, ps, s) /\ Len(ps) = N - 1
  <2>1. N \in 1..Len(p)
    BY <1>5
  <2>2. PICK ps \in Seq(Seq(X)) : ps = SubSeq(p, 1, N - 1)
    BY <1>4, <2>1, OneFurther
  <2>3. SubSeq(p, 1, N) = Append(ps, s)
    BY <1>4, <1>9, <2>1, <2>2, OneFurther, Zenon
  <2>4. SubSeq(p, 1, N) = p
    BY <1>4, <1>5, SubSeqFull
  <2>5. Adds(p, ps, s)
    BY <2>3, <2>4, Zenon DEF Adds
  <2>6. ps = Front(p)
    BY <1>5, <2>2 DEF Front
  <2>7. Len(ps) = N - 1
    BY <1>4, <1>5, <2>2, PartIs
  <2> QED
    BY <2>5, <2>6, <2>7
<1>11. CASE s = <<>>
  <2>1. Lines(src, T) = ps
    BY <1>1, <1>9, <1>10, <1>11, Zenon DEF Lines
  <2>2. ps \in Seq(Seq(SolidText(src, X)))
    <3>1. 1 \in Int /\ N - 1 \in Int /\ 1 >= 1 /\ N - 1 <= Len(p)
      BY <1>5
    <3>2. SubSeq(p, 1, N - 1) \in Seq(Seq(SolidText(src, X)))
      BY <1>3, <3>1, PartIn, Zenon
    <3> QED
      BY <1>5, <1>10, <3>2 DEF Front
  <2>3. Len(ps) <= Len(T)
    <3>1. Len(s) = 0
      BY <1>11
    <3> QED
      BY <1>7, <1>8, <1>9, <1>10, <3>1
  <2>4. CASE ps = <<>>
    <3>1. j = s
      BY <1>6, <1>10, <2>4, JoinedOne
    <3>2. AllOf(src, T, <<>>)
      BY <1>7, <1>11, <3>1, AlikeAll
    <3> QED
      BY <2>1, <2>2, <2>3, <2>4, <3>2
  <2>5. CASE ps # <<>>
    <3>1. Len(ps) > 0
      BY <2>5, EmptySeq
    <3>2. PICK k \in Seq(X) : k = Joined(ps)
      BY <3>1, JoinedIs
    <3>3. j = k \o <<NewLine>> \o s
      BY <1>6, <1>10, <3>1, <3>2, JoinedMore
    <3>4. PICK x \in X : x = NewLine
      BY DEF Marks
    <3>5. PICK b \in Seq(X) : b = Append(k, x)
      BY AppendProperties
    <3>6. b = k \o <<NewLine>>
      BY <3>4, <3>5, AppendIsConcat
    <3>7. b \o s = b
      BY <1>11, ConcatEmptySeq
    <3>8. j = b
      BY <3>3, <3>6, <3>7, Zenon
    <3>9. Adds(j, k, x)
      BY <3>5, <3>8, Zenon DEF Adds
    <3>10. AllOf(src, T, k)
      BY <1>7, <3>4, <3>9, AlikeButOne
    <3> QED
      BY <2>1, <2>2, <2>3, <2>5, <3>2, <3>10
  <2> QED
    BY <2>4, <2>5
<1>12. CASE s # <<>>
  <2>1. Lines(src, T) = p
    BY <1>1, <1>9, <1>12, Zenon DEF Lines
  <2>2. Len(s) > 0
    BY <1>12, EmptySeq
  <2>3. Len(p) <= Len(T)
    BY <1>5, <1>7, <1>8, <1>9, <2>2
  <2>4. p # <<>>
    BY <1>4
  <2>5. AllOf(src, T, j)
    BY <1>7, AlikeAll
  <2> QED
    BY <1>3, <1>6, <2>1, <2>3, <2>4, <2>5
<1> QED
  BY <1>11, <1>12
-----------------------------------------------------------------------------
(***************************************************************************)
(* Lists of the members of a set, in order.                                *)
(***************************************************************************)

\* The members of a set, in order.
Enumerates(list, set) ==
  /\ list \in Seq(set)
  /\ \A i, j \in 1..Len(list) : i < j => list[i] < list[j]
  /\ \A x \in set : \E k \in 1..Len(list) : list[k] = x

LEMMA FilteredExact ==
  ASSUME NEW k \in Nat, NEW set
  PROVE  Enumerates(Filtered(k, set), set \cap (1..k))
<1>1. PICK f : /\ f[0] = <<>>
               /\ \A n \in 1..k : /\ n \in set => f[n] = Append(f[n - 1], n)
                                  /\ n \notin set => f[n] = f[n - 1]
               /\ \A n \in 0..k : f[n] \in Seq(1..k)
               /\ Filtered(k, set) = f[k]
  BY FilteredRuns
<1> DEFINE H == {n \in 0..k : Enumerates(f[n], set \cap (1..n))}
<1>2. 0 \in H
  <2>1. Enumerates(<<>>, {})
    <3>1. <<>> \in Seq({}) /\ Len(<<>>) = 0
      BY EmptySeq
    <3> QED
      BY <3>1 DEF Enumerates
  <2>2. set \cap (1..0) = {}
    OBVIOUS
  <2> QED
    BY <1>1, <2>1, <2>2
<1>3. ASSUME NEW n \in 1..k, n - 1 \in H PROVE n \in H
  <2>1. n \in 0..k /\ n - 1 \in 0..k
    OBVIOUS
  <2>2. PICK g : g = f[n - 1]
    OBVIOUS
  <2>3. Enumerates(g, set \cap (1..(n - 1)))
    BY <1>3, <2>2
  <2>4. CASE n \notin set
    <3>1. set \cap (1..n) = set \cap (1..(n - 1))
      BY <2>4
    <3>2. f[n] = g
      <4>1. n \notin set => f[n] = f[n - 1]
        BY <1>1
      <4> QED
        BY <2>2, <2>4, <4>1, Zenon
    <3> QED
      BY <2>1, <2>3, <3>1, <3>2
  <2>5. CASE n \in set
    <3>1. PICK S : S = set \cap (1..n)
      OBVIOUS
    <3>2. n \in S /\ set \cap (1..(n - 1)) = S \ {n} /\ \A x \in S : x \in 1..n
      BY <2>5, <3>1
    <3>3. g \in Seq(S)
      <4>1. g \in Seq(S \ {n}) /\ S \ {n} \subseteq S
        BY <2>3, <3>2 DEF Enumerates
      <4> QED
        BY <4>1, SeqMonotonic
    <3>4. PICK m \in Nat : m = Len(g)
      BY <3>3
    <3>5. PICK h \in Seq(S) : h = Append(g, n) /\ Len(h) = m + 1 /\ h[m + 1] = n /\ \A i \in 1..m : h[i] = g[i]
      <4>1. PICK h : h = Append(g, n)
        OBVIOUS
      <4>2. h \in Seq(S) /\ Len(h) = m + 1 /\ h[m + 1] = n /\ \A i \in 1..m : h[i] = g[i]
        BY <3>2, <3>3, <3>4, <4>1, Appended
      <4> QED
        BY <4>1, <4>2
    <3>6. \A i \in 1..m : g[i] \in S \ {n} /\ g[i] < n
      <4> SUFFICES ASSUME NEW i \in 1..m PROVE g[i] \in S \ {n} /\ g[i] < n
        OBVIOUS
      <4>1. g[i] \in S \ {n}
        BY <2>3, <3>2, <3>4, ElementOfSeq DEF Enumerates
      <4> QED
        BY <3>2, <4>1
    <3>7. ASSUME NEW i \in 1..(m + 1), NEW j \in 1..(m + 1), i < j PROVE h[i] < h[j]
      <4>1. i \in 1..m
        BY <3>7
      <4>2. CASE j = m + 1
        BY <3>5, <3>6, <4>1, <4>2
      <4>3. CASE j # m + 1
        <5>1. j \in 1..m
          BY <4>3
        <5>2. g[i] < g[j]
          BY <2>3, <3>4, <3>7, <4>1, <5>1 DEF Enumerates
        <5> QED
          BY <3>5, <4>1, <5>1, <5>2
      <4> QED
        BY <4>2, <4>3
    <3>8. ASSUME NEW x \in S PROVE \E i \in 1..(m + 1) : h[i] = x
      <4>1. CASE x = n
        <5>1. m + 1 \in 1..(m + 1)
          OBVIOUS
        <5> QED
          BY <3>5, <4>1, <5>1
      <4>2. CASE x # n
        <5>1. PICK i \in 1..m : g[i] = x
          BY <2>3, <3>2, <3>4, <4>2 DEF Enumerates
        <5>2. i \in 1..(m + 1) /\ h[i] = x
          BY <3>5, <5>1
        <5> QED
          BY <5>2
      <4> QED
        BY <4>1, <4>2
    <3>9. Enumerates(h, S)
      BY <3>5, <3>7, <3>8 DEF Enumerates
    <3>10. f[n] = h
      <4>1. n \in set => f[n] = Append(f[n - 1], n)
        BY <1>1
      <4> QED
        BY <2>2, <2>5, <3>5, <4>1, Zenon
    <3> QED
      BY <2>1, <3>1, <3>9, <3>10
  <2> QED
    BY <2>4, <2>5
<1> HIDE DEF H
<1>4. \A n \in 0..k : n \in H
  BY <1>2, <1>3, UpTo
<1>5. k \in H
  BY <1>4
<1> QED
  BY <1>1, <1>5 DEF H

LEMMA AllEnumerated ==
  ASSUME NEW n \in Nat
  PROVE  Enumerates([i \in 1..n |-> i], 1..n)
<1>1. PICK f : f = [i \in 1..n |-> i]
  OBVIOUS
<1>2. f \in [1..n -> 1..n] /\ \A i \in 1..n : f[i] = i
  BY <1>1
<1>3. f \in Seq(1..n) /\ Len(f) = n
  BY <1>2, SeqDef
<1> QED
  BY <1>1, <1>2, <1>3 DEF Enumerates

\* The a-th to the b-th member.
Places(list, a, b) == {list[m] : m \in a..b}

OfSize(set, n) == IsFiniteSet(set) /\ Cardinality(set) = n

LEMMA PlacesSize ==
  ASSUME NEW S, S \subseteq Nat, NEW list, Enumerates(list, S), NEW N \in Nat, N = Len(list),
         NEW a \in 1..(N + 1), NEW b \in 0..N, a <= b + 1, NEW n, n = b - a + 1
  PROVE  OfSize(Places(list, a, b), n)
<1> DEFINE T == {list[m] : m \in a..b}
           f == [m \in a..b |-> list[m]]
<1>1. f \in [a..b -> T]
  OBVIOUS
<1>2. ASSUME NEW i \in a..b, NEW j \in a..b, f[i] = f[j] PROVE i = j
  <2>1. i \in 1..N /\ j \in 1..N /\ list[i] = list[j]
    BY <1>2
  <2>2. list[i] \in Nat /\ list[j] \in Nat
    BY <2>1, ElementOfSeq DEF Enumerates
  <2>3. ~(i < j) /\ ~(j < i)
    BY <2>1, <2>2 DEF Enumerates
  <2> QED
    BY <2>3
<1>3. \A t \in T : \E m \in a..b : f[m] = t
  OBVIOUS
<1>4. f \in Bijection(a..b, T)
  <2> HIDE DEF f, T
  <2> QED
    BY <1>1, <1>2, <1>3 DEF Bijection, Injection, Surjection, IsInjective
<1>5. ExistsBijection(a..b, T)
  BY <1>4 DEF ExistsBijection
<1>6. IsFiniteSet(a..b) /\ Cardinality(a..b) = b - a + 1
  <2>1. a \in Int /\ b \in Int
    OBVIOUS
  <2>2. IsFiniteSet(a..b) /\ Cardinality(a..b) = IF a > b THEN 0 ELSE b - a + 1
    BY <2>1, FS_Interval, Zenon
  <2> QED
    BY <2>2
<1> HIDE DEF T, f
<1>7. IsFiniteSet(T) /\ Cardinality(T) = Cardinality(a..b)
  BY <1>5, <1>6, FS_Bijection
<1> QED
  BY <1>6, <1>7 DEF T, Places, OfSize

\* The members up to one, and from one on.
Below(S, x) == {j \in S : j <= x}
Above(S, x) == {j \in S : j >= x}

\* There are b members up to x, and a from x on.
Ranked(S, x, b, a) == Cardinality(Below(S, x)) = b /\ Cardinality(Above(S, x)) = a

LEMMA RankIs ==
  ASSUME NEW S, S \subseteq Nat, NEW list, Enumerates(list, S), NEW N \in Nat, N = Len(list), NEW k \in 1..N,
         NEW x, x = list[k], NEW d, d = N - k + 1
  PROVE  Ranked(S, x, k, d)
<1>1. \A m \in 1..N : list[m] \in S /\ list[m] \in Nat
  BY ElementOfSeq DEF Enumerates
<1>2. \A m \in 1..N : \A l \in 1..N : m < l => list[m] < list[l]
  BY DEF Enumerates
<1>3. \A y \in S : \E m \in 1..N : list[m] = y
  BY DEF Enumerates
<1>4. \A m \in 1..N : /\ list[m] <= list[k] => m <= k
                      /\ m <= k => list[m] <= list[k]
                      /\ list[m] >= list[k] => m >= k
                      /\ m >= k => list[m] >= list[k]
  <2> SUFFICES ASSUME NEW m \in 1..N
               PROVE  /\ list[m] <= list[k] => m <= k
                      /\ m <= k => list[m] <= list[k]
                      /\ list[m] >= list[k] => m >= k
                      /\ m >= k => list[m] >= list[k]
    OBVIOUS
  <2>1. list[m] \in Nat /\ list[k] \in Nat
    BY <1>1
  <2>2. m < k => list[m] < list[k]
    BY <1>2
  <2>3. k < m => list[k] < list[m]
    BY <1>2
  <2>4. m = k => list[m] = list[k]
    OBVIOUS
  <2> QED
    BY <2>1, <2>2, <2>3, <2>4
<1>5. {j \in S : j <= list[k]} = Places(list, 1, k)
  <2>1. ASSUME NEW j \in S, j <= list[k] PROVE j \in {list[m] : m \in 1..k}
    <3>1. PICK m \in 1..N : list[m] = j
      BY <1>3
    <3>2. m \in 1..k
      BY <1>4, <2>1, <3>1
    <3> QED
      BY <3>1, <3>2
  <2>2. ASSUME NEW m \in 1..k PROVE list[m] \in S /\ list[m] <= list[k]
    BY <1>1, <1>4
  <2> QED
    BY <2>1, <2>2 DEF Places
<1>6. {j \in S : j >= list[k]} = Places(list, k, N)
  <2>1. ASSUME NEW j \in S, j >= list[k] PROVE j \in {list[m] : m \in k..N}
    <3>1. PICK m \in 1..N : list[m] = j
      BY <1>3
    <3>2. m \in k..N
      BY <1>4, <2>1, <3>1
    <3> QED
      BY <3>1, <3>2
  <2>2. ASSUME NEW m \in k..N PROVE list[m] \in S /\ list[m] >= list[k]
    BY <1>1, <1>4
  <2> QED
    BY <2>1, <2>2 DEF Places
<1>7. Cardinality(Places(list, 1, k)) = k - 1 + 1
  <2>1. PICK a \in 1..(N + 1), b \in 0..N, n \in Int : a = 1 /\ b = k /\ a <= b + 1 /\ n = b - a + 1
    OBVIOUS
  <2>2. OfSize(Places(list, a, b), n)
    BY <2>1, PlacesSize
  <2> QED
    BY <2>1, <2>2, Zenon DEF OfSize
<1>8. Cardinality(Places(list, k, N)) = N - k + 1
  <2>1. PICK a \in 1..(N + 1), b \in 0..N, n \in Int : a = k /\ b = N /\ a <= b + 1 /\ n = b - a + 1
    OBVIOUS
  <2>2. OfSize(Places(list, a, b), n)
    BY <2>1, PlacesSize
  <2> QED
    BY <2>1, <2>2, Zenon DEF OfSize
<1>9. k - 1 + 1 = k
  OBVIOUS
<1> QED
  BY <1>5, <1>6, <1>7, <1>8, <1>9, Zenon DEF Below, Above, Ranked
-----------------------------------------------------------------------------
(***************************************************************************)
(* Parts of such lists.                                                    *)
(***************************************************************************)

\* W has the members from the a-th to the b-th of N.
Picks(list, N, W, a, b) == W \subseteq Nat /\ \A m \in 1..N : list[m] \in W <=> m \in a..b

\* A part of a list has the members at its places.
LEMMA PartEnumerates ==
  ASSUME NEW S, S \subseteq Nat, NEW list, Enumerates(list, S), NEW N \in Nat, N = Len(list),
         NEW a \in Nat, NEW b \in Nat, 1 <= a, a <= b + 1, b <= N,
         NEW W, W \subseteq S, Picks(list, N, W, a, b)
  PROVE  Enumerates(SubSeq(list, a, b), W)
<1>1. list \in Seq(S)
  BY DEF Enumerates
<1>2. PICK part : part = SubSeq(list, a, b)
  OBVIOUS
<1>3. Len(part) = b - a + 1 /\ \A i \in 1..(b - a + 1) : part[i] = list[a + i - 1]
  BY <1>1, <1>2, PartIs
<1> USE DEF Picks
<1>4. part \in Seq(W)
  <2>1. \A i \in a..b : i \in 1..N
    OBVIOUS
  <2>2. \A i \in a..b : list[i] \in W
    BY <2>1
  <2> QED
    BY <1>2, <2>2, SubSeqProperties
<1>5. ASSUME NEW i \in 1..Len(part), NEW j \in 1..Len(part), i < j PROVE part[i] < part[j]
  <2>1. a + i - 1 \in 1..N /\ a + j - 1 \in 1..N /\ a + i - 1 < a + j - 1
    BY <1>3, <1>5
  <2>2. list[a + i - 1] < list[a + j - 1]
    BY <2>1 DEF Enumerates
  <2> QED
    BY <1>3, <2>2
<1>6. ASSUME NEW x \in W PROVE \E i \in 1..Len(part) : part[i] = x
  <2>1. PICK m \in 1..N : list[m] = x
    BY DEF Enumerates
  <2>2. m \in a..b
    BY <2>1
  <2>3. PICK i \in 1..(b - a + 1) : i = m - a + 1
    BY <2>2
  <2>4. part[i] = list[m]
    <3>1. a + i - 1 = m
      BY <2>3
    <3> QED
      BY <1>3, <3>1
  <2> QED
    BY <1>3, <2>1, <2>4
<1> QED
  BY <1>2, <1>4, <1>5, <1>6 DEF Enumerates

LEMMA BothEnumerate ==
  ASSUME NEW V, V \subseteq Nat, NEW W, W \subseteq Nat, NEW s, Enumerates(s, V), NEW t, Enumerates(t, W),
         \A x \in V : \A y \in W : x < y
  PROVE  Enumerates(s \o t, V \cup W)
<1> DEFINE U == V \cup W
<1>1. s \in Seq(U) /\ t \in Seq(U)
  <2>1. s \in Seq(V) /\ t \in Seq(W) /\ V \subseteq U /\ W \subseteq U
    BY DEF Enumerates
  <2> HIDE DEF U
  <2> QED
    BY <2>1, SeqMonotonic
<1>2. PICK M \in Nat, N \in Nat : M = Len(s) /\ N = Len(t)
  BY <1>1
<1>3. PICK r : r = s \o t
  OBVIOUS
<1>4. /\ r \in Seq(U) /\ Len(r) = M + N
      /\ \A i \in 1..M : r[i] = s[i]
      /\ \A i \in (M + 1)..(M + N) : r[i] = t[i - M]
  <2> HIDE DEF U
  <2> QED
    BY <1>1, <1>2, <1>3, Joining
<1>5. (\A i \in 1..M : s[i] \in V) /\ (\A i \in 1..N : t[i] \in W)
  BY <1>2, ElementOfSeq DEF Enumerates
<1>6. ASSUME NEW i \in 1..(M + N), NEW j \in 1..(M + N), i < j PROVE r[i] < r[j]
  <2>1. CASE j <= M
    <3>1. i \in 1..M /\ j \in 1..M
      BY <1>6, <2>1
    <3>2. s[i] < s[j]
      BY <1>2, <1>6, <3>1 DEF Enumerates
    <3> QED
      BY <1>4, <3>1, <3>2
  <2>2. CASE i > M
    <3>1. i - M \in 1..N /\ j - M \in 1..N /\ i - M < j - M
      BY <1>6, <2>2
    <3>2. t[i - M] < t[j - M]
      BY <1>2, <3>1 DEF Enumerates
    <3>3. i \in (M + 1)..(M + N) /\ j \in (M + 1)..(M + N)
      BY <1>6, <2>2
    <3> QED
      BY <1>4, <3>2, <3>3
  <2>3. CASE i <= M /\ j > M
    <3>1. i \in 1..M /\ j - M \in 1..N /\ j \in (M + 1)..(M + N)
      BY <2>3
    <3>2. r[i] = s[i] /\ r[j] = t[j - M]
      BY <1>4, <3>1
    <3>3. s[i] \in V /\ t[j - M] \in W
      BY <1>5, <3>1
    <3> QED
      BY <3>2, <3>3
  <2> QED
    BY <2>1, <2>2, <2>3
<1>7. ASSUME NEW x \in U PROVE \E i \in 1..(M + N) : r[i] = x
  <2>1. CASE x \in V
    <3>1. PICK i \in 1..M : s[i] = x
      BY <1>2, <2>1 DEF Enumerates
    <3>2. i \in 1..(M + N) /\ r[i] = x
      BY <1>4, <3>1
    <3> QED
      BY <3>2
  <2>2. CASE x \in W
    <3>1. PICK i \in 1..N : t[i] = x
      BY <1>2, <2>2 DEF Enumerates
    <3>2. PICK j \in (M + 1)..(M + N) : j = M + i /\ j - M = i
      OBVIOUS
    <3>3. j \in 1..(M + N) /\ r[j] = x
      BY <1>4, <3>1, <3>2
    <3> QED
      BY <3>3
  <2> QED
    BY <2>1, <2>2
<1> HIDE DEF U
<1>8. Enumerates(r, U)
  BY <1>4, <1>6, <1>7 DEF Enumerates
<1> QED
  BY <1>3, <1>8 DEF U

\* What a keep asks for of a set of lines.
Asked(near, keep, i) ==
  CASE keep.mode = "all" -> TRUE
    [] keep.mode = "head" -> Cardinality(Below(near, i)) <= keep.n
    [] keep.mode = "tail" -> Cardinality(Above(near, i)) <= keep.n
    [] keep.mode = "head_tail" -> \/ Cardinality(Below(near, i)) <= keep.head
                                  \/ Cardinality(Above(near, i)) <= keep.tail

LEMMA AskedIs ==
  ASSUME NEW S, S \subseteq Nat, NEW list, Enumerates(list, S), NEW N \in Nat, N = Len(list),
         NEW keep, Keeping(keep), NEW k \in 1..N
  PROVE  /\ list[k] \in S
         /\ keep.mode = "all" => Asked(S, keep, list[k])
         /\ keep.mode = "head" => (Asked(S, keep, list[k]) <=> k <= keep.n)
         /\ keep.mode = "tail" => (Asked(S, keep, list[k]) <=> N - k + 1 <= keep.n)
         /\ keep.mode = "head_tail" => (Asked(S, keep, list[k]) <=> k <= keep.head \/ N - k + 1 <= keep.tail)
<1>1. list[k] \in S
  BY ElementOfSeq DEF Enumerates
<1>2. PICK rank, fromEnd : /\ rank = Cardinality(Below(S, list[k]))
                           /\ fromEnd = Cardinality(Above(S, list[k]))
  OBVIOUS
<1>3. rank = k /\ fromEnd = N - k + 1
  <2>1. PICK x, d : x = list[k] /\ d = N - k + 1
    OBVIOUS
  <2>2. Ranked(S, x, k, d)
    BY <2>1, RankIs
  <2> QED
    BY <1>2, <2>1, <2>2, Zenon DEF Ranked
<1>4. Asked(S, keep, list[k]) =
        CASE keep.mode = "all" -> TRUE
          [] keep.mode = "head" -> rank <= keep.n
          [] keep.mode = "tail" -> fromEnd <= keep.n
          [] keep.mode = "head_tail" -> rank <= keep.head \/ fromEnd <= keep.tail
  BY <1>2, Zenon DEF Asked
<1>5. CASE keep.mode = "all"
  BY <1>1, <1>4, <1>5
<1>6. CASE keep.mode = "head"
  BY <1>1, <1>3, <1>4, <1>6
<1>7. CASE keep.mode = "tail"
  BY <1>1, <1>3, <1>4, <1>7
<1>8. CASE keep.mode = "head_tail"
  BY <1>1, <1>3, <1>4, <1>8
<1> QED
  BY <1>1, <1>5, <1>6, <1>7, <1>8 DEF Keeping
-----------------------------------------------------------------------------
(***************************************************************************)
(* A window of lines.                                                      *)
(***************************************************************************)

AskedOf(S, keep) == {i \in S : Asked(S, keep, i)}

LEMMA KeepExact ==
  ASSUME NEW S, S \subseteq Nat, NEW list, Enumerates(list, S), NEW N \in Nat, N = Len(list), N <= MaxUsize,
         NEW keep, Keeping(keep)
  PROVE  Enumerates(KeepSubset(list, keep), AskedOf(S, keep))
<1>1. list \in Seq(S)
  BY DEF Enumerates
<1>2. \A k \in 1..N :
         /\ list[k] \in S
         /\ keep.mode = "all" => Asked(S, keep, list[k])
         /\ keep.mode = "head" => (Asked(S, keep, list[k]) <=> k <= keep.n)
         /\ keep.mode = "tail" => (Asked(S, keep, list[k]) <=> N - k + 1 <= keep.n)
         /\ keep.mode = "head_tail" => (Asked(S, keep, list[k]) <=> k <= keep.head \/ N - k + 1 <= keep.tail)
  BY AskedIs
<1>3. PICK W : W = AskedOf(S, keep)
  OBVIOUS
<1>4. W \subseteq S
  BY <1>3 DEF AskedOf
<1>5. \A k \in 1..N : list[k] \in W <=> Asked(S, keep, list[k])
  BY <1>2, <1>3, Zenon DEF AskedOf
<1>6. CASE keep.mode = "all"
  <2>1. KeepSubset(list, keep) = list
    BY <1>6 DEF KeepSubset
  <2>2. W = S
    <3>1. ASSUME NEW x \in S PROVE x \in W
      <4>1. PICK k \in 1..N : list[k] = x
        BY DEF Enumerates
      <4> QED
        BY <1>2, <1>5, <1>6, <4>1
    <3> QED
      BY <1>4, <3>1
  <2> QED
    BY <1>3, <2>1, <2>2
<1>7. CASE keep.mode = "tail"
  <2>1. KeepSubset(list, keep) = SubSeq(list, Monus(N, keep.n) + 1, N)
    BY <1>7 DEF KeepSubset
  <2>2. PICK n \in Nat : n = keep.n
    BY <1>7 DEF Keeping
  <2>3. PICK a \in Nat : a = Monus(N, n) + 1 /\ 1 <= a /\ a <= N + 1 /\ \A k \in 1..N : N - k + 1 <= n <=> k \in a..N
    <3>1. PICK a \in Nat : a = Monus(N, n) + 1 /\ (N > n => a = N - n + 1) /\ (N <= n => a = 1)
      BY DEF Monus
    <3> QED
      BY <3>1
  <2>4. \A k \in 1..N : list[k] \in W <=> k \in a..N
    BY <1>2, <1>5, <1>7, <2>2, <2>3
  <2>5. Enumerates(SubSeq(list, a, N), W)
    <3>1. PICK b \in Nat : b = N
      OBVIOUS
    <3>2. Picks(list, N, W, a, b)
      BY <1>4, <2>4, <3>1 DEF Picks
    <3>3. 1 <= a /\ a <= b + 1 /\ b <= N
      BY <2>3, <3>1
    <3>4. Enumerates(SubSeq(list, a, b), W)
      BY <1>4, <3>2, <3>3, PartEnumerates
    <3> QED
      BY <3>1, <3>4
  <2> QED
    BY <1>3, <2>1, <2>2, <2>3, <2>5, Zenon
<1>8. CASE keep.mode = "head"
  <2>1. KeepSubset(list, keep) = SubSeq(list, 1, Min({keep.n, N}))
    BY <1>8 DEF KeepSubset
  <2>2. PICK n \in Nat : n = keep.n
    BY <1>8 DEF Keeping
  <2>3. PICK b \in Nat : b = Min({n, N}) /\ b <= N /\ (b = n \/ b = N) /\ b <= n
    <3>1. {n, N} \subseteq Nat /\ {n, N} # {}
      OBVIOUS
    <3>2. Min({n, N}) \in {n, N} /\ \A y \in {n, N} : Min({n, N}) <= y
      BY <3>1, MinIs
    <3> QED
      BY <3>2
  <2>4. PICK a \in Nat : a = 1
    OBVIOUS
  <2>5. \A k \in 1..N : list[k] \in W <=> k \in a..b
    BY <1>2, <1>5, <1>8, <2>2, <2>3, <2>4
  <2>6. Enumerates(SubSeq(list, a, b), W)
    <3>1. Picks(list, N, W, a, b)
      BY <1>4, <2>5 DEF Picks
    <3>2. 1 <= a /\ a <= b + 1 /\ b <= N
      BY <2>3, <2>4
    <3> QED
      BY <1>4, <3>1, <3>2, PartEnumerates
  <2> QED
    BY <1>3, <2>1, <2>2, <2>3, <2>4, <2>6, Zenon
<1>9. CASE keep.mode = "head_tail"
  <2>1. PICK h \in Nat, t \in Nat : h = keep.head /\ t = keep.tail
    BY <1>9 DEF Keeping
  <2>2. KeepSubset(list, keep) =
          IF SaturatingAdd(h, t) >= N THEN list
          ELSE SubSeq(list, 1, Min({h, N})) \o SubSeq(list, N - Min({t, N}) + 1, N)
    BY <1>9, <2>1 DEF KeepSubset
  <2>3. PICK sum \in Nat : sum = SaturatingAdd(h, t) /\ (sum = h + t \/ sum = MaxUsize) /\ sum <= h + t
    <3>1. {h + t, MaxUsize} \subseteq Nat /\ {h + t, MaxUsize} # {}
      BY MaxUsizeAssumption
    <3>2. Min({h + t, MaxUsize}) \in {h + t, MaxUsize} /\ \A y \in {h + t, MaxUsize} : Min({h + t, MaxUsize}) <= y
      BY <3>1, MinIs
    <3> QED
      BY <3>1, <3>2 DEF SaturatingAdd
  <2>4. \A k \in 1..N : list[k] \in W <=> k <= h \/ N - k + 1 <= t
    BY <1>2, <1>5, <1>9, <2>1
  <2>5. CASE sum >= N
    <3>1. W = S
      <4>1. ASSUME NEW x \in S PROVE x \in W
        <5>1. PICK k \in 1..N : list[k] = x
          BY DEF Enumerates
        <5>2. k <= h \/ N - k + 1 <= t
          BY <2>3, <2>5
        <5> QED
          BY <2>4, <5>1, <5>2
      <4> QED
        BY <1>4, <4>1
    <3> QED
      BY <1>3, <2>2, <2>3, <2>5, <3>1
  <2>6. CASE ~(sum >= N)
    <3>1. h + t < N
      BY <2>3, <2>6
    <3>2. Min({h, N}) = h /\ Min({t, N}) = t
      <4>1. ASSUME NEW n \in Nat, n < N PROVE Min({n, N}) = n
        <5>1. {n, N} \subseteq Nat /\ {n, N} # {}
          OBVIOUS
        <5>2. Min({n, N}) \in {n, N} /\ \A y \in {n, N} : Min({n, N}) <= y
          BY <5>1, MinIs
        <5> QED
          BY <4>1, <5>2
      <4> QED
        BY <3>1, <4>1
    <3>3. PICK a \in Nat, b \in Nat : a = 1 /\ b = N - t + 1 /\ b <= N + 1 /\ h < b
      <4>1. 1 \in Nat /\ N - t + 1 \in Nat /\ N - t + 1 <= N + 1 /\ h < N - t + 1
        BY <3>1
      <4> QED
        BY <4>1, Zenon
    <3> DEFINE V == {list[k] : k \in 1..h}
               U == {list[k] : k \in b..N}
    <3>4. \A k \in 1..N : list[k] \in V <=> k \in a..h
      <4> SUFFICES ASSUME NEW k \in 1..N PROVE list[k] \in V <=> k \in a..h
        OBVIOUS
      <4>1. ASSUME NEW m \in 1..h, list[k] = list[m] PROVE k = m
        <5>1. m \in 1..N
          BY <3>1
        <5>2. k < m => list[k] < list[m]
          BY <5>1 DEF Enumerates
        <5>3. m < k => list[m] < list[k]
          BY <5>1 DEF Enumerates
        <5>4. list[k] \in Nat
          BY <1>2
        <5> QED
          BY <4>1, <5>2, <5>3, <5>4
      <4> QED
        BY <3>3, <4>1
    <3>5. \A k \in 1..N : list[k] \in U <=> k \in b..N
      <4> SUFFICES ASSUME NEW k \in 1..N PROVE list[k] \in U <=> k \in b..N
        OBVIOUS
      <4>1. ASSUME NEW m \in b..N, list[k] = list[m] PROVE k = m
        <5>1. m \in 1..N
          BY <3>3
        <5>2. k < m => list[k] < list[m]
          BY <5>1 DEF Enumerates
        <5>3. m < k => list[m] < list[k]
          BY <5>1 DEF Enumerates
        <5>4. list[k] \in Nat
          BY <1>2
        <5> QED
          BY <4>1, <5>2, <5>3, <5>4
      <4> QED
        BY <4>1
    <3>6. V \subseteq S /\ U \subseteq S
      <4>1. \A k \in 1..h : k \in 1..N
        BY <3>1
      <4>2. \A k \in b..N : k \in 1..N
        BY <3>3
      <4> QED
        BY <1>2, <4>1, <4>2
    <3>7. \A x \in V : \A y \in U : x < y
      <4> SUFFICES ASSUME NEW k \in 1..h, NEW m \in b..N PROVE list[k] < list[m]
        OBVIOUS
      <4>1. k \in 1..N /\ m \in 1..N /\ k < m
        BY <3>1, <3>3
      <4> QED
        BY <4>1 DEF Enumerates
    <3>8. V \cup U = W
      <4>1. ASSUME NEW x \in W PROVE x \in V \cup U
        <5>1. PICK k \in 1..N : list[k] = x
          BY <1>4 DEF Enumerates
        <5>2. k \in a..h \/ k \in b..N
          BY <2>4, <3>3, <4>1, <5>1
        <5> QED
          BY <3>4, <3>5, <5>1, <5>2
      <4>2. \A k \in 1..h : list[k] \in W
        BY <2>4, <3>1
      <4>3. \A k \in b..N : list[k] \in W
        BY <2>4, <3>3
      <4> QED
        BY <4>1, <4>2, <4>3
    <3> HIDE DEF V, U
    <3>9. Enumerates(SubSeq(list, a, h), V)
      <4>1. Picks(list, N, V, a, h)
        BY <3>4, <3>6 DEF Picks
      <4>2. 1 <= a /\ a <= h + 1 /\ h <= N
        BY <3>1, <3>3
      <4> QED
        BY <3>6, <4>1, <4>2, PartEnumerates
    <3>10. Enumerates(SubSeq(list, b, N), U)
      <4>1. PICK e \in Nat : e = N
        OBVIOUS
      <4>2. Picks(list, N, U, b, e)
        BY <3>5, <3>6, <4>1 DEF Picks
      <4>3. 1 <= b /\ b <= e + 1 /\ e <= N
        BY <3>3, <4>1
      <4>4. Enumerates(SubSeq(list, b, e), U)
        BY <3>6, <4>2, <4>3, PartEnumerates
      <4> QED
        BY <4>1, <4>4
    <3>11. Enumerates(SubSeq(list, a, h) \o SubSeq(list, b, N), V \cup U)
      <4>1. V \subseteq Nat /\ U \subseteq Nat
        BY <3>6
      <4> QED
        BY <3>7, <3>9, <3>10, <4>1, BothEnumerate
    <3>12. KeepSubset(list, keep) = SubSeq(list, a, h) \o SubSeq(list, b, N)
      BY <2>2, <2>3, <2>6, <3>2, <3>3, Zenon
    <3> QED
      BY <1>3, <3>8, <3>11, <3>12, Zenon
  <2> QED
    BY <2>5, <2>6
<1> QED
  BY <1>6, <1>7, <1>8, <1>9 DEF Keeping
-----------------------------------------------------------------------------
(***************************************************************************)
(* What a budget keeps are the lines that it asks for.                     *)
(***************************************************************************)

\* Saturation loses no line.
LEMMA NearBy ==
  ASSUME NEW L \in Nat, L <= MaxUsize, NEW c \in Nat, NEW i \in 1..L, NEW j \in 1..L
  PROVE  i \in Monus(j, c)..Min({SaturatingAdd(j, c), L}) <=> j - i \in (-c)..c
<1>1. PICK sum \in Nat : sum = SaturatingAdd(j, c) /\ (sum = j + c \/ sum = MaxUsize) /\ sum <= j + c
  <2>1. {j + c, MaxUsize} \subseteq Nat /\ {j + c, MaxUsize} # {}
    BY MaxUsizeAssumption
  <2>2. Min({j + c, MaxUsize}) \in {j + c, MaxUsize} /\ \A y \in {j + c, MaxUsize} : Min({j + c, MaxUsize}) <= y
    BY <2>1, MinIs
  <2> QED
    BY <2>1, <2>2 DEF SaturatingAdd
<1>2. PICK last \in Nat : last = Min({sum, L}) /\ (last = sum \/ last = L) /\ last <= sum /\ last <= L
  <2>1. {sum, L} \subseteq Nat /\ {sum, L} # {}
    OBVIOUS
  <2>2. Min({sum, L}) \in {sum, L} /\ \A y \in {sum, L} : Min({sum, L}) <= y
    BY <2>1, MinIs
  <2> QED
    BY <2>1, <2>2
<1>3. PICK first \in Int : first = Monus(j, c) /\ (j > c => first = j - c) /\ (j <= c => first = 0)
  <2>1. j > c => Monus(j, c) = j - c
    BY Zenon DEF Monus
  <2>2. j <= c => ~(j > c)
    OBVIOUS
  <2>3. j <= c => Monus(j, c) = 0
    BY <2>2, Zenon DEF Monus
  <2>4. j > c \/ j <= c
    OBVIOUS
  <2>5. Monus(j, c) \in Int
    BY <2>1, <2>3, <2>4
  <2> QED
    BY <2>1, <2>3, <2>5
<1>4. i \in first..last <=> j - i \in (-c)..c
  BY <1>1, <1>2, <1>3, MaxUsizeAssumption
<1> QED
  BY <1>1, <1>2, <1>3, <1>4, Zenon

LEMMA GrepExact ==
  ASSUME NEW src, NEW lines, NEW L \in Nat, L = Len(lines), L <= MaxUsize,
         NEW budget, budget.context \in Nat, budget.grep # NoGrep
  PROVE  Enumerates(GrepKeepIndices(src, lines, budget.grep, budget.context), Near(src, lines, budget))
<1>1. PICK c \in Nat : c = budget.context
  OBVIOUS
<1>2. PICK pattern : pattern = budget.grep
  OBVIOUS
<1> DEFINE Hits == {j \in 1..L : Matches(src, lines[j], pattern)}
           around(j) == Monus(j, c)..Min({SaturatingAdd(j, c), L})
           set == UNION {around(j) : j \in Hits}
<1>3. GrepKeepIndices(src, lines, budget.grep, budget.context) = Filtered(L, set)
  BY <1>1, <1>2, Zenon DEF GrepKeepIndices
<1>4. Enumerates(Filtered(L, set), set \cap (1..L))
  BY FilteredExact
<1>5. Near(src, lines, budget) = {i \in 1..L : \E j \in 1..L : pattern \in ToSet(Syms(src, lines[j])) /\ j - i \in (-c)..c}
  <2>1. Near(src, lines, budget) =
          {i \in 1..L : budget.grep = NoGrep \/ \E j \in 1..L : pattern \in ToSet(Syms(src, lines[j])) /\ j - i \in (-c)..c}
    BY <1>1, <1>2, Zenon DEF Near
  <2> QED
    BY <2>1
<1>6. ASSUME NEW i \in 1..L
      PROVE  i \in set <=> \E j \in 1..L : pattern \in ToSet(Syms(src, lines[j])) /\ j - i \in (-c)..c
  <2>1. i \in set <=> \E j \in Hits : i \in around(j)
    <3> HIDE DEF Hits, around
    <3> QED
      OBVIOUS
  <2>2. \A j \in 1..L : j \in Hits <=> pattern \in ToSet(Syms(src, lines[j]))
    BY Zenon DEF Matches
  <2>3. \A j \in 1..L : i \in around(j) <=> j - i \in (-c)..c
    BY NearBy
  <2>4. Hits \subseteq 1..L
    OBVIOUS
  <2> HIDE DEF Hits, around, set
  <2> QED
    BY <2>1, <2>2, <2>3, <2>4, Zenon
<1> HIDE DEF set
<1>7. set \cap (1..L) = Near(src, lines, budget)
  <2> DEFINE P(i) == \E j \in 1..L : pattern \in ToSet(Syms(src, lines[j])) /\ j - i \in (-c)..c
  <2>1. Near(src, lines, budget) = {i \in 1..L : P(i)}
    BY <1>5
  <2>2. \A i \in 1..L : i \in set <=> P(i)
    BY <1>6
  <2> HIDE DEF P
  <2> QED
    BY <2>1, <2>2
<1> QED
  BY <1>3, <1>4, <1>7

LEMMA WantedIs ==
  ASSUME NEW src, NEW lines, NEW budget
  PROVE  Wanted(src, lines, budget) = AskedOf(Near(src, lines, budget), budget.keep)
BY Zenon DEF Wanted, AskedOf, Asked, Below, Above

\* What the budget keeps is what the caller asks for.
LEMMA KeptExact ==
  ASSUME NEW src, NEW X, NEW lines \in Seq(X), Len(lines) <= MaxUsize,
         NEW budget, Keeping(budget.keep), budget.context \in Nat
  PROVE  /\ Enumerates(Kept(src, lines, budget), Wanted(src, lines, budget))
         /\ Wanted(src, lines, budget) \subseteq 1..Len(lines)
<1>1. PICK L \in Nat : L = Len(lines) /\ L <= MaxUsize
  OBVIOUS
<1>2. PICK near : near = Near(src, lines, budget)
  OBVIOUS
<1>3. near \subseteq 1..L
  BY <1>1, <1>2 DEF Near
<1> DEFINE idx == IF budget.grep = NoGrep THEN [i \in 1..Len(lines) |-> i]
                  ELSE GrepKeepIndices(src, lines, budget.grep, budget.context)
<1>4. Enumerates(idx, near)
  <2>1. CASE budget.grep = NoGrep
    <3>1. near = 1..L
      BY <1>1, <1>2, <2>1, Zenon DEF Near
    <3>2. idx = [i \in 1..L |-> i]
      BY <1>1, <2>1, Zenon
    <3> QED
      BY <3>1, <3>2, AllEnumerated
  <2>2. CASE budget.grep # NoGrep
    <3>1. idx = GrepKeepIndices(src, lines, budget.grep, budget.context)
      BY <2>2, Zenon
    <3> HIDE DEF idx
    <3> QED
      BY <1>1, <1>2, <2>2, <3>1, GrepExact
  <2> QED
    BY <2>1, <2>2
<1>5. Kept(src, lines, budget) = KeepSubset(idx, budget.keep)
  BY Zenon DEF Kept
<1> HIDE DEF idx
<1>6. PICK N \in Nat : N = Len(idx)
  BY <1>4 DEF Enumerates
<1>7. N <= L
  <2>1. Cardinality(Places(idx, 1, N)) = N - 1 + 1 /\ IsFiniteSet(Places(idx, 1, N))
    <3>1. PICK a \in 1..(N + 1), b \in 0..N, n \in Int : a = 1 /\ b = N /\ a <= b + 1 /\ n = b - a + 1
      OBVIOUS
    <3>2. near \subseteq Nat
      BY <1>3
    <3>3. OfSize(Places(idx, a, b), n)
      BY <1>4, <1>6, <3>1, <3>2, PlacesSize
    <3> QED
      BY <3>1, <3>3, Zenon DEF OfSize
  <2>2. Places(idx, 1, N) \subseteq 1..L
    <3>1. \A m \in 1..N : idx[m] \in near
      BY <1>4, <1>6, ElementOfSeq DEF Enumerates
    <3> QED
      BY <1>3, <3>1 DEF Places
  <2>3. IsFiniteSet(1..L) /\ Cardinality(1..L) = L
    <3>1. IsFiniteSet(1..L) /\ Cardinality(1..L) = IF 1 > L THEN 0 ELSE L - 1 + 1
      <4>1. 1 \in Int /\ L \in Int
        OBVIOUS
      <4> QED
        BY <4>1, FS_Interval, Zenon
    <3> QED
      BY <3>1
  <2>4. Cardinality(Places(idx, 1, N)) <= Cardinality(1..L)
    BY <2>2, <2>3, FS_Subset
  <2> QED
    BY <2>1, <2>3, <2>4
<1>8. Enumerates(KeepSubset(idx, budget.keep), AskedOf(near, budget.keep))
  <2>1. near \subseteq Nat /\ N <= MaxUsize
    BY <1>1, <1>3, <1>7, MaxUsizeAssumption
  <2> QED
    BY <1>4, <1>6, <2>1, KeepExact
<1>9. AskedOf(near, budget.keep) \subseteq near
  BY DEF AskedOf
<1> QED
  BY <1>1, <1>2, <1>3, <1>5, <1>8, <1>9, WantedIs
-----------------------------------------------------------------------------
(***************************************************************************)
(* Reading a shown text back.                                              *)
(***************************************************************************)

\* A line mark tells how many lines it stands for.
LEMMA LineMarkIs ==
  ASSUME NEW n \in Nat
  PROVE  /\ LinesElided(n) \in Int /\ IsLineGap(LinesElided(n)) /\ GapOf(LinesElided(n)) = n
         /\ \A src : Solid(src, LinesElided(n))
<1>1. LinesElided(n) = -(10 + 2 * n)
  BY DEF LinesElided
<1>2. PICK x \in Int : x = -(10 + 2 * n)
  OBVIOUS
<1>3. x <= -10 /\ x % 2 = 0
  <2>1. x = 2 * (-(5 + n))
    BY <1>2
  <2> QED
    BY <1>2, <2>1
<1>4. (-x - 10) \div 2 = n
  <2>1. -x - 10 = 2 * n
    BY <1>2
  <2> QED
    BY <2>1
<1>5. ASSUME NEW src PROVE Solid(src, x)
  <2>1. ~(x > 0) /\ x # NewLine
    BY <1>3 DEF NewLine
  <2>2. Sym(src, x) = "mark"
    BY <2>1 DEF Sym
  <2> QED
    BY <2>2 DEF Solid
<1> QED
  BY <1>1, <1>2, <1>3, <1>4, <1>5 DEF IsLineGap, GapOf

LEMMA ReadOnIs ==
  ASSUME NEW lines, NEW wanted, NEW at \in Int, NEW part \in Seq(Int)
  PROVE  ReadOn(lines, wanted, at, part) \in Int
<1>1. CASE Len(part) = 1
  <2>1. PICK x \in Int : x = part[1]
    BY <1>1, ElementOfSeq
  <2>2. GapOf(x) \in Int
    BY DEF GapOf
  <2> QED
    BY <1>1, <2>1, <2>2 DEF ReadOn
<1>2. CASE Len(part) # 1
  BY <1>2 DEF ReadOn
<1> QED
  BY <1>1, <1>2

LEMMA ReadRuns ==
  ASSUME NEW lines, NEW wanted, NEW parts \in Seq(Seq(Int))
  PROVE  \E f : /\ f[0] = 0
                /\ \A n \in 1..Len(parts) : f[n] = ReadOn(lines, wanted, f[n - 1], parts[n])
                /\ \A n \in 0..Len(parts) : f[n] \in Int
                /\ LinesRead(lines, wanted, parts) = f[Len(parts)]
<1> DEFINE N == Len(parts)
           base == 0
           Step(s, n) == ReadOn(lines, wanted, s, parts[n])
           State == Int
           Rec(f) == f = [n \in 0..N |-> IF n = 0 THEN base ELSE Step(f[n - 1], n)]
<1>1. N \in Nat
  OBVIOUS
<1>2. base \in State
  OBVIOUS
<1>3. ASSUME NEW s \in State, NEW n \in 1..N PROVE Step(s, n) \in State
  <2>1. parts[n] \in Seq(Int)
    BY ElementOfSeq
  <2> QED
    BY <2>1, ReadOnIs
<1> HIDE DEF N, base, Step, State
<1> USE <1>1
<1> DEFINE g == [n \in 1..N |-> [s \in State |-> Step(s, n)]]
<1>4. PICK h : Course(N, State, base, g, h)
  <2>1. g \in [1..N -> [State -> State]]
    BY <1>3
  <2> HIDE DEF g
  <2> QED
    BY <1>2, <2>1, Recursion
<1>5. \A n \in 0..N : h[n] = IF n = 0 THEN base ELSE Step(h[n - 1], n)
  <2>1. ASSUME NEW n \in 0..N, n # 0 PROVE h[n] = Step(h[n - 1], n)
    <3>1. n \in 1..N /\ n - 1 \in 0..N
      BY <2>1
    <3>2. h[n - 1] \in State /\ h[n] = g[n][h[n - 1]]
      BY <1>4, <3>1 DEF Course
    <3> QED
      BY <3>1, <3>2
  <2>2. h[0] = base
    BY <1>4 DEF Course
  <2> QED
    BY <2>1, <2>2
<1>6. h = [n \in 0..N |-> h[n]]
  BY <1>4 DEF Course
<1>7. Rec(h)
  BY <1>5, <1>6
<1> DEFINE f == CHOOSE k : Rec(k)
<1>8. Rec(f)
  <2> HIDE DEF Rec
  <2> QED
    BY <1>7, Zenon
<1>9. LinesRead(lines, wanted, parts) = f[N]
  BY Zenon DEF LinesRead, Step, base, N
<1> HIDE DEF f
<1>10. f[0] = base
  <2>1. 0 \in 0..N
    OBVIOUS
  <2> QED
    BY <1>8, <2>1
<1>11. \A n \in 1..N : f[n] = Step(f[n - 1], n)
  <2>1. ASSUME NEW n \in 1..N PROVE f[n] = Step(f[n - 1], n)
    <3>1. n \in 0..N /\ n # 0
      OBVIOUS
    <3> QED
      BY <1>8, <3>1
  <2> QED
    BY <2>1
<1> DEFINE A == [n \in 0..N |-> State]
<1>12. \A n \in 0..N : f[n] \in A[n]
  <2>1. f[0] \in A[0]
    BY <1>2, <1>10
  <2>2. ASSUME NEW n \in 1..N, f[n - 1] \in A[n - 1] PROVE f[n] \in A[n]
    <3>1. f[n - 1] \in State
      BY <2>2
    <3>2. f[n] = Step(f[n - 1], n)
      BY <1>11
    <3> QED
      BY <1>3, <3>1, <3>2
  <2> HIDE DEF A
  <2> QED
    BY <2>1, <2>2, Throughout
<1>13. \A n \in 0..N : f[n] \in State
  BY <1>12
<1> QED
  BY <1>9, <1>10, <1>11, <1>13, Zenon DEF Step, base, N, State

\* Up to here the parts account for n lines.
Read(lines, wanted, parts, n) == parts \in Seq(Seq(Int)) /\ LinesRead(lines, wanted, parts) = n

LEMMA ReadNone ==
  ASSUME NEW lines, NEW wanted
  PROVE  Read(lines, wanted, <<>>, 0)
<1>1. <<>> \in Seq(Seq(Int)) /\ Len(<<>>) = 0
  BY EmptySeq
<1>2. PICK p \in Seq(Seq(Int)) : p = <<>> /\ Len(p) = 0
  BY <1>1
<1>3. PICK f : /\ f[0] = 0
               /\ \A n \in 1..Len(p) : f[n] = ReadOn(lines, wanted, f[n - 1], p[n])
               /\ \A n \in 0..Len(p) : f[n] \in Int
               /\ LinesRead(lines, wanted, p) = f[Len(p)]
  BY ReadRuns, Zenon
<1> QED
  BY <1>2, <1>3 DEF Read

LEMMA ReadMore ==
  ASSUME NEW lines, NEW wanted, NEW at, NEW parts, Read(lines, wanted, parts, at), NEW q \in Seq(Int),
         NEW p, Adds(p, parts, q)
  PROVE  Read(lines, wanted, p, ReadOn(lines, wanted, at, q))
<1>1. parts \in Seq(Seq(Int)) /\ LinesRead(lines, wanted, parts) = at
  BY DEF Read
<1>2. PICK N \in Nat : N = Len(parts)
  BY <1>1
<1>3. p \in Seq(Seq(Int)) /\ OneLonger(p, parts, q, N)
  BY <1>1, <1>2, AddsIs
<1>4. Len(p) = N + 1 /\ p[N + 1] = q /\ \A i \in 1..N : p[i] = parts[i]
  BY <1>3, Zenon DEF OneLonger
<1>5. PICK f : /\ f[0] = 0
               /\ \A n \in 1..N : f[n] = ReadOn(lines, wanted, f[n - 1], parts[n])
               /\ at = f[N]
  <2>1. PICK f : /\ f[0] = 0
                 /\ \A n \in 1..Len(parts) : f[n] = ReadOn(lines, wanted, f[n - 1], parts[n])
                 /\ \A n \in 0..Len(parts) : f[n] \in Int
                 /\ LinesRead(lines, wanted, parts) = f[Len(parts)]
    BY <1>1, ReadRuns, Zenon
  <2> QED
    BY <1>1, <1>2, <2>1
<1>6. PICK g : /\ g[0] = 0
               /\ \A n \in 1..(N + 1) : g[n] = ReadOn(lines, wanted, g[n - 1], p[n])
               /\ LinesRead(lines, wanted, p) = g[N + 1]
  <2>1. PICK g : /\ g[0] = 0
                 /\ \A n \in 1..Len(p) : g[n] = ReadOn(lines, wanted, g[n - 1], p[n])
                 /\ \A n \in 0..Len(p) : g[n] \in Int
                 /\ LinesRead(lines, wanted, p) = g[Len(p)]
    BY <1>3, ReadRuns, Zenon
  <2> QED
    BY <1>4, <2>1
<1> DEFINE H == {n \in 0..N : g[n] = f[n]}
<1>7. 0 \in H
  BY <1>5, <1>6
<1>8. ASSUME NEW n \in 1..N, n - 1 \in H PROVE n \in H
  <2>1. n \in 0..N /\ n \in 1..(N + 1)
    OBVIOUS
  <2>2. g[n - 1] = f[n - 1] /\ p[n] = parts[n]
    BY <1>4, <1>8
  <2>3. g[n] = f[n]
    BY <1>5, <1>6, <2>1, <2>2, Zenon
  <2> QED
    BY <2>1, <2>3
<1> HIDE DEF H
<1>9. \A n \in 0..N : n \in H
  BY <1>7, <1>8, UpTo
<1>10. g[N] = f[N]
  <2>1. N \in H
    BY <1>9
  <2> QED
    BY <2>1 DEF H
<1>11. PICK m \in 1..(N + 1) : m = N + 1 /\ m - 1 = N
  OBVIOUS
<1>12. g[m] = ReadOn(lines, wanted, g[m - 1], p[m])
  BY <1>6
<1>13. LinesRead(lines, wanted, p) = ReadOn(lines, wanted, at, q)
  BY <1>4, <1>5, <1>6, <1>10, <1>11, <1>12, Zenon
<1> QED
  BY <1>3, <1>13, Zenon DEF Read
-----------------------------------------------------------------------------
(***************************************************************************)
(* A gap, and a line, is read as what it stands for.                       *)
(***************************************************************************)

\* What a stream's lines are made of: no line mark.
Elem == {x \in Int : x >= -2}

\* Nothing wanted stands between two numbers.
NoneBetween(wanted, at, to) == \A i \in Int : at < i /\ i < to => i \notin wanted

\* A gap is read as the lines that are missing there.
LEMMA ReadAcross ==
  ASSUME NEW lines, NEW wanted, NEW at \in Nat, NEW to \in Nat, at < to, NoneBetween(wanted, at, to),
         NEW g, Read(lines, wanted, g, at), NEW last, last = to - 1
  PROVE  Read(lines, wanted, g \o Gap(at, to), last)
<1>1. g \in Seq(Seq(Int))
  BY DEF Read
<1>2. CASE to > at + 1
  <2>1. PICK m \in Nat : m = to - at - 1
    BY <1>2
  <2>2. PICK x \in Int : x = LinesElided(m)
    BY LineMarkIs
  <2>3. IsLineGap(x) /\ GapOf(x) = m
    BY <2>2, LineMarkIs
  <2>4. PICK q \in Seq(Int) : q = <<x>> /\ Len(q) = 1 /\ q[1] = x
    <3>1. <<x>> \in Seq(Int) /\ Len(<<x>>) = 1 /\ <<x>>[1] = x
      OBVIOUS
    <3> QED
      BY <3>1
  <2>5. Gap(at, to) = <<q>>
    BY <1>2, <2>1, <2>2, <2>4, Zenon DEF Gap
  <2>6. Adds(g \o <<q>>, g, q)
    BY <1>1 DEF Adds
  <2>7. Read(lines, wanted, g \o <<q>>, ReadOn(lines, wanted, at, q))
    BY <2>6, ReadMore
  <2>8. \A i \in (at + 1)..(at + m) : i \notin wanted
    BY <2>1 DEF NoneBetween
  <2>9. at # -1
    OBVIOUS
  <2>10. ReadOn(lines, wanted, at, q) = at + m
    BY <2>3, <2>4, <2>8, <2>9, Zenon DEF ReadOn
  <2>11. at + m = last
    BY <2>1
  <2> QED
    BY <2>5, <2>7, <2>10, <2>11, Zenon
<1>3. CASE to = at + 1
  <2>1. Gap(at, to) = <<>>
    BY <1>3 DEF Gap
  <2>2. g \o Gap(at, to) = g
    BY <1>1, <2>1
  <2>3. last = at
    BY <1>3
  <2> QED
    BY <2>2, <2>3
<1> QED
  BY <1>2, <1>3

\* A line is read as one that was asked for.
LEMMA ReadLine ==
  ASSUME NEW lines \in Seq(Seq(Elem)), NEW k \in 1..Len(lines), NEW wanted, k \in wanted,
         NEW at, at = k - 1, NEW g, Read(lines, wanted, g, at)
  PROVE  Read(lines, wanted, g \o <<lines[k]>>, k)
<1>1. g \in Seq(Seq(Int))
  BY DEF Read
<1>2. PICK q \in Seq(Elem) : q = lines[k]
  BY ElementOfSeq
<1>3. q \in Seq(Int)
  BY SeqMonotonic DEF Elem
<1>4. Adds(g \o <<q>>, g, q)
  BY <1>1, <1>3 DEF Adds
<1>5. Read(lines, wanted, g \o <<q>>, ReadOn(lines, wanted, at, q))
  BY <1>3, <1>4, ReadMore
<1>6. ~(Len(q) = 1 /\ IsLineGap(q[1]))
  <2>1. ASSUME Len(q) = 1 PROVE ~IsLineGap(q[1])
    <3>1. PICK x \in Elem : x = q[1]
      <4>1. 1 \in 1..Len(q)
        BY <2>1
      <4>2. q[1] \in Elem
        BY <4>1, ElementOfSeq
      <4> QED
        BY <4>2
    <3>2. ~(x <= -10)
      BY DEF Elem
    <3> QED
      BY <3>1, <3>2 DEF IsLineGap
  <2> QED
    BY <2>1
<1>7. at # -1 /\ at + 1 = k
  OBVIOUS
<1>8. ReadOn(lines, wanted, at, q) = k
  BY <1>2, <1>6, <1>7, Zenon DEF ReadOn
<1> QED
  BY <1>2, <1>5, <1>8

\* The number of the line before which the n-th part stands.
UpToPart(kept, n) == IF n = 0 THEN 0 ELSE kept[n]

\* The members of a list, as numbers in order.
LEMMA KeptAt ==
  ASSUME NEW W, W \subseteq Nat, NEW kept, Enumerates(kept, W)
  PROVE  /\ \A n \in 1..Len(kept) : kept[n] \in W /\ kept[n] \in Nat
         /\ \A i, j \in 1..Len(kept) : i < j => kept[i] < kept[j]
         /\ \A x \in W : x \in Nat /\ \E k \in 1..Len(kept) : kept[k] = x
         /\ Len(kept) \in Nat
<1>1. kept \in Seq(W)
  BY DEF Enumerates
<1>2. \A n \in 1..Len(kept) : kept[n] \in W
  BY <1>1, ElementOfSeq
<1>3. \A n \in 1..Len(kept) : kept[n] \in W /\ kept[n] \in Nat
  BY <1>2
<1>4. \A i, j \in 1..Len(kept) : i < j => kept[i] < kept[j]
  BY Zenon DEF Enumerates
<1>5. \A x \in W : x \in Nat /\ \E k \in 1..Len(kept) : kept[k] = x
  <2>1. \A x \in W : \E k \in 1..Len(kept) : kept[k] = x
    BY Zenon DEF Enumerates
  <2> QED
    BY <2>1
<1>6. Len(kept) \in Nat
  BY <1>1
<1> QED
  BY <1>3, <1>4, <1>5, <1>6

\* Between two kept lines, and behind the last one, nothing is wanted.
LEMMA BetweenKept ==
  ASSUME NEW W, W \subseteq Nat, NEW kept, Enumerates(kept, W), NEW n \in 1..Len(kept), NEW m, m = n - 1, 0 \notin W
  PROVE  /\ kept[n] \in W
         /\ UpToPart(kept, m) \in Nat /\ UpToPart(kept, m) < kept[n]
         /\ NoneBetween(W, UpToPart(kept, m), kept[n])
<1>1. PICK N \in Nat : N = Len(kept)
  BY KeptAt
<1>2. PICK b \in Nat : b = kept[n] /\ b \in W
  BY KeptAt
<1>3. b # 0
  BY <1>2
<1>4. PICK a \in Nat : a = UpToPart(kept, m) /\ a < b /\ \A k \in 1..N : k < n => kept[k] <= a
  <2>1. CASE m = 0
    <3>1. UpToPart(kept, m) = 0
      BY <2>1 DEF UpToPart
    <3>2. \A k \in 1..N : ~(k < n)
      BY <2>1
    <3> QED
      BY <1>3, <3>1, <3>2
  <2>2. CASE m # 0
    <3>1. m \in 1..N /\ m \in 1..Len(kept) /\ m < n
      BY <1>1, <2>2
    <3>2. PICK a \in Nat : a = kept[m]
      BY <3>1, KeptAt
    <3>3. UpToPart(kept, m) = a
      BY <2>2, <3>2, Zenon DEF UpToPart
    <3>4. a < b
      BY <1>2, <3>1, <3>2, KeptAt
    <3>5. ASSUME NEW k \in 1..N, k < n PROVE kept[k] <= a
      <4>1. PICK c \in Nat : c = kept[k]
        BY <1>1, KeptAt
      <4>2. k < m => c < a
        BY <1>1, <3>1, <3>2, <4>1, KeptAt
      <4>3. k < m \/ k = m
        BY <3>5
      <4> QED
        BY <3>2, <4>1, <4>2, <4>3
    <3> QED
      BY <3>3, <3>4, <3>5
  <2> QED
    BY <2>1, <2>2
<1>5. ASSUME NEW i \in Int, a < i, i < b, i \in W PROVE FALSE
  <2>0. \A x \in W : \E k \in 1..Len(kept) : kept[k] = x
    BY KeptAt
  <2>1. PICK k \in 1..N : kept[k] = i
    BY <1>1, <1>5, <2>0
  <2>2. k < n => i <= a
    BY <1>4, <2>1
  <2>3. n < k => b < i
    BY <1>1, <1>2, <2>1, KeptAt
  <2>4. k = n => b = i
    BY <1>2, <2>1
  <2> QED
    BY <1>5, <2>2, <2>3, <2>4
<1>6. NoneBetween(W, a, b)
  BY <1>5 DEF NoneBetween
<1> QED
  BY <1>2, <1>4, <1>6

LEMMA BehindKept ==
  ASSUME NEW L \in Nat, NEW W, W \subseteq 1..L, NEW kept, Enumerates(kept, W),
         NEW n, n = Len(kept), NEW to, to = L + 1
  PROVE  NoneBetween(W, UpToPart(kept, n), to) /\ UpToPart(kept, n) \in 0..L
<1>0. W \subseteq Nat
  OBVIOUS
<1>1. n \in Nat
  BY <1>0, KeptAt
<1>2. PICK a \in 0..L : a = UpToPart(kept, n) /\ \A k \in 1..n : kept[k] <= a
  <2>1. CASE n = 0
    <3>1. UpToPart(kept, n) = 0
      BY <2>1 DEF UpToPart
    <3>2. 0 \in 0..L /\ \A k \in 1..n : FALSE
      BY <2>1
    <3> QED
      BY <3>1, <3>2
  <2>2. CASE n # 0
    <3>1. n \in 1..n
      BY <1>1, <2>2
    <3>2. PICK a \in 0..L : a = kept[n]
      <4>0. \A k \in 1..Len(kept) : kept[k] \in W
        BY <1>0, KeptAt
      <4>1. kept[n] \in W
        BY <3>1, <4>0
      <4>2. W \subseteq 0..L
        OBVIOUS
      <4>3. kept[n] \in 0..L
        BY <4>1, <4>2, Zenon
      <4> QED
        BY <4>3, Zenon
    <3>3. UpToPart(kept, n) = a
      BY <2>2, <3>2, Zenon DEF UpToPart
    <3>5. ASSUME NEW k \in 1..n PROVE kept[k] <= a
      <4>1. PICK c \in Nat : c = kept[k]
        BY <1>0, KeptAt
      <4>2. k < n => c < a
        BY <1>0, <3>1, <3>2, <4>1, KeptAt
      <4>3. k < n \/ k = n
        BY <1>1
      <4> QED
        BY <3>2, <4>1, <4>2, <4>3
    <3> QED
      BY <3>3, <3>5
  <2> QED
    BY <2>1, <2>2
<1>3. ASSUME NEW i \in Int, a < i, i < to, i \in W PROVE FALSE
  <2>0. \A x \in W : \E k \in 1..Len(kept) : kept[k] = x
    BY Zenon DEF Enumerates
  <2>1. PICK k \in 1..n : kept[k] = i
    BY <1>3, <2>0, Zenon
  <2>2. kept[k] <= a
    BY <1>2, <2>1, Zenon
  <2>3. i <= a
    BY <2>1, <2>2, Zenon
  <2> QED
    BY <1>3, <2>3
<1>4. NoneBetween(W, a, to)
  BY <1>3 DEF NoneBetween
<1> QED
  BY <1>2, <1>4
-----------------------------------------------------------------------------
(***************************************************************************)
(* The kept lines with their marks are read to the last line.              *)
(***************************************************************************)

\* The kept lines with their marks, up to the n-th kept line.
LEMMA PartsRead ==
  ASSUME NEW lines \in Seq(Seq(Elem)), NEW W, W \subseteq 1..Len(lines), NEW kept, Enumerates(kept, W)
  PROVE  Read(lines, W, Parts(lines, kept), UpToPart(kept, Len(kept)))
<1>0. W \subseteq Nat /\ 0 \notin W
  OBVIOUS
<1>1. PICK N \in Nat : N = Len(kept)
  BY <1>0, KeptAt
<1>2. lines \in Seq(Seq(Int)) /\ kept \in Seq(1..Len(lines))
  <2>1. Elem \subseteq Int
    BY DEF Elem
  <2>2. Seq(Elem) \subseteq Seq(Int)
    BY <2>1, SeqMonotonic
  <2>3. lines \in Seq(Seq(Int))
    BY <2>2, SeqMonotonic
  <2>4. kept \in Seq(W)
    BY DEF Enumerates
  <2> QED
    BY <2>3, <2>4, SeqMonotonic
<1>3. LineMarks \subseteq Int
  BY DEF LineMarks, LinesElided
<1>4. PICK f : /\ f[0] = <<>>
               /\ \A n \in 1..Len(kept) :
                    f[n] = f[n - 1] \o Gap(IF n = 1 THEN 0 ELSE kept[n - 1], kept[n]) \o <<lines[kept[n]]>>
               /\ \A n \in 0..Len(kept) : f[n] \in Seq(Seq(Int))
               /\ Parts(lines, kept) = f[Len(kept)]
  BY <1>2, <1>3, PartsRuns, Zenon
<1> DEFINE H == {n \in 0..N : Read(lines, W, f[n], UpToPart(kept, n))}
<1>5. 0 \in H
  <2>1. UpToPart(kept, 0) = 0
    BY DEF UpToPart
  <2>2. Read(lines, W, f[0], UpToPart(kept, 0))
    BY <1>4, <2>1, ReadNone, Zenon
  <2> QED
    BY <2>2
<1>6. ASSUME NEW n \in 1..N, n - 1 \in H PROVE n \in H
  <2>1. PICK m \in 0..N : m = n - 1
    OBVIOUS
  <2>2. PICK g : g = f[m] /\ Read(lines, W, g, UpToPart(kept, m))
    BY <1>6, <2>1
  <2>3. PICK at \in Nat : at = UpToPart(kept, m)
    BY <1>0, <1>1, <2>1, BetweenKept
  <2>4. PICK to \in 1..Len(lines) : to = kept[n]
    <3>1. \A k \in 1..Len(kept) : kept[k] \in W
      BY <1>0, KeptAt
    <3>2. kept[n] \in W
      BY <1>1, <3>1
    <3> QED
      BY <3>2
  <2>5. to \in W /\ at < to /\ NoneBetween(W, at, to)
    BY <1>0, <1>1, <2>1, <2>3, <2>4, BetweenKept
  <2>6. PICK last \in Nat : last = to - 1
    BY <2>4
  <2>7. PICK h : h = g \o Gap(at, to)
    OBVIOUS
  <2>8. Read(lines, W, h, last)
    BY <2>2, <2>3, <2>5, <2>6, <2>7, ReadAcross
  <2>9. Read(lines, W, h \o <<lines[to]>>, to)
    BY <2>5, <2>6, <2>8, ReadLine
  <2>10. (IF n = 1 THEN 0 ELSE kept[n - 1]) = at
    <3>1. n = 1 <=> m = 0
      BY <2>1
    <3> QED
      BY <2>1, <2>3, <3>1, Zenon DEF UpToPart
  <2>11. f[n] = h \o <<lines[to]>>
    <3>1. f[n] = f[n - 1] \o Gap(IF n = 1 THEN 0 ELSE kept[n - 1], kept[n]) \o <<lines[kept[n]]>>
      BY <1>1, <1>4
    <3> QED
      BY <2>1, <2>2, <2>4, <2>7, <2>10, <3>1, Zenon
  <2>12. UpToPart(kept, n) = to
    BY <2>4 DEF UpToPart
  <2>13. n \in 0..N
    OBVIOUS
  <2> QED
    BY <2>9, <2>11, <2>12, <2>13, Zenon
<1> HIDE DEF H
<1>7. \A n \in 0..N : n \in H
  BY <1>5, <1>6, UpTo
<1>8. N \in H
  BY <1>7
<1>9. Read(lines, W, f[N], UpToPart(kept, N))
  BY <1>8 DEF H
<1> QED
  BY <1>1, <1>4, <1>9, Zenon

\* What the kept lines are joined from: the lines and their marks.
LEMMA AllPartsRead ==
  ASSUME NEW lines \in Seq(Seq(Elem)), NEW L \in Nat, L = Len(lines), NEW W, W \subseteq 1..L,
         NEW kept, Enumerates(kept, W), NEW to, to = L + 1
  PROVE  Read(lines, W, Parts(lines, kept) \o Gap(UpToPart(kept, Len(kept)), to), L)
<1>1. Read(lines, W, Parts(lines, kept), UpToPart(kept, Len(kept)))
  BY PartsRead
<1>2. PICK at \in 0..L : at = UpToPart(kept, Len(kept)) /\ NoneBetween(W, at, to)
  BY BehindKept
<1>3. PICK g : g = Parts(lines, kept)
  OBVIOUS
<1>4. Read(lines, W, g, at)
  BY <1>1, <1>2, <1>3
<1>5. at \in Nat /\ to \in Nat /\ at < to /\ L = to - 1
  BY <1>2
<1>6. Read(lines, W, g \o Gap(at, to), L)
  BY <1>2, <1>4, <1>5, ReadAcross
<1> QED
  BY <1>2, <1>3, <1>6
-----------------------------------------------------------------------------
(***************************************************************************)
(* What is rendered is read back whole.                                    *)
(***************************************************************************)

\* What a stream with its marks is made of.
Shown == Elem \cup Marks

\* All parts that a rendered text is joined from.
AllParts(lines, kept, to) == Parts(lines, kept) \o Gap(UpToPart(kept, Len(kept)), to)

\* The parts that the kept lines of L are shown by.
RenderedBy(ps, S, lines, kept, L) ==
  ps \in Seq(Seq(S)) /\ Len(ps) > 0 /\ Render(lines, kept, L) = Joined(ps)

LEMMA AllPartsAre ==
  ASSUME NEW S, LineMarks \subseteq S, NEW X, Marks \subseteq X, S \subseteq X,
         NEW lines \in Seq(Seq(S)), NEW L \in Nat, L = Len(lines), L > 0,
         NEW kept \in Seq(1..L), NEW to, to = L + 1
  PROVE  RenderedBy(AllParts(lines, kept, to), S, lines, kept, L)
<1>1. PICK p \in Seq(Seq(S)) : p = Parts(lines, kept) /\ (kept # <<>> => p # <<>>)
  BY PartsIs
<1>2. CASE kept # <<>>
  <2>1. PICK n \in Nat : n = Len(kept) /\ n > 0 /\ n \in 1..n
    BY <1>2, EmptySeq
  <2>2. PICK at \in 1..L : at = kept[n]
    BY <2>1, ElementOfSeq
  <2>3. UpToPart(kept, n) = at /\ Last(kept) = at
    BY <2>1, <2>2 DEF UpToPart, Last
  <2>4. PICK g \in Seq(Seq(S)) : g = Gap(at, to)
    <3>0. at \in Int /\ to \in Int
      OBVIOUS
    <3>1. Gap(at, to) \in Seq(Seq(S))
      BY <3>0, GapIs
    <3> QED
      BY <3>1
  <2>5. AllParts(lines, kept, to) = p \o g
    BY <1>1, <2>1, <2>3, <2>4, Zenon DEF AllParts
  <2>6. p \o g \in Seq(Seq(S)) /\ Len(p \o g) > 0
    BY <1>1, <1>2
  <2>7. Render(lines, kept, L) = Joined(p \o g)
    <3>1. L # 0
      OBVIOUS
    <3>2. Render(lines, kept, L) = Joined(Parts(lines, kept) \o Gap(Last(kept), L + 1))
      BY <1>2, <3>1, Zenon DEF Render
    <3> QED
      BY <1>1, <2>3, <2>4, <3>2, Zenon
  <2> QED
    BY <2>5, <2>6, <2>7, Zenon DEF RenderedBy
<1>3. CASE kept = <<>>
  <2>1. Len(kept) = 0 /\ UpToPart(kept, Len(kept)) = 0
    BY <1>3 DEF UpToPart
  <2>2. p = <<>>
    <3>1. PICK f : /\ f[0] = <<>>
                   /\ \A n \in 1..Len(kept) :
                        f[n] = f[n - 1] \o Gap(IF n = 1 THEN 0 ELSE kept[n - 1], kept[n]) \o <<lines[kept[n]]>>
                   /\ \A n \in 0..Len(kept) : f[n] \in Seq(Seq(S))
                   /\ Parts(lines, kept) = f[Len(kept)]
      BY PartsRuns, Zenon
    <3> QED
      BY <1>1, <2>1, <3>1, Zenon
  <2>3. PICK x \in S : x = LinesElided(L)
    BY DEF LineMarks
  <2>4. PICK q \in Seq(S) : q = <<x>>
    <3>1. <<x>> \in Seq(S)
      OBVIOUS
    <3> QED
      BY <3>1
  <2>5. PICK ps \in Seq(Seq(S)) : ps = <<q>> /\ Len(ps) = 1 /\ ps[1] = q
    <3>1. <<q>> \in Seq(Seq(S)) /\ Len(<<q>>) = 1 /\ <<q>>[1] = q
      OBVIOUS
    <3> QED
      BY <3>1
  <2>6. Gap(0, to) = ps
    <3>1. to > 0 + 1 /\ to - 0 - 1 = L
      OBVIOUS
    <3> QED
      BY <2>3, <2>4, <2>5, <3>1, Zenon DEF Gap
  <2>7. AllParts(lines, kept, to) = ps
    <3>1. <<>> \o ps = ps
      OBVIOUS
    <3> QED
      BY <1>1, <2>1, <2>2, <2>6, <3>1, Zenon DEF AllParts
  <2>8. Joined(ps) = q
    <3>1. Adds(ps, <<>>, q)
      <4>1. Append(<<>>, q) = <<q>>
        OBVIOUS
      <4> QED
        BY <2>5, <4>1 DEF Adds
    <3>2. q \in Seq(X)
      BY SeqMonotonic
    <3> QED
      BY <3>1, <3>2, JoinedOne
  <2>9. Render(lines, kept, L) = q
    <3>1. L # 0
      OBVIOUS
    <3> QED
      BY <1>3, <2>3, <2>4, <3>1, Zenon DEF Render
  <2>10. Render(lines, kept, L) = Joined(ps)
    BY <2>8, <2>9, Zenon
  <2>11. ps \in Seq(Seq(S)) /\ Len(ps) > 0
    BY <2>5
  <2> QED
    BY <2>7, <2>10, <2>11, Zenon DEF RenderedBy
<1> QED
  BY <1>2, <1>3

ReadsAll(src, lines, W, kept, L) == ReadBack(src, lines, W, Render(lines, kept, L)) = L

\* What a rendered text shows is read back to the last line.
LEMMA RenderRead ==
  ASSUME NEW src, NEW lines \in Seq(Seq(Elem)), lines \in Seq(Seq(SolidText(src, Shown))),
         NEW L \in Nat, L = Len(lines), NEW W, W \subseteq 1..L, NEW kept, Enumerates(kept, W)
  PROVE  ReadsAll(src, lines, W, kept, L)
<1> USE DEF ReadsAll
<1>1. CASE L = 0
  <2>1. lines = <<>> /\ Render(lines, kept, L) = <<>> /\ Len(<<>>) = 0
    BY <1>1, EmptySeq DEF Render
  <2> QED
    BY <1>1, <2>1, Zenon DEF ReadBack
<1>2. CASE L # 0
  <2>1. PICK S : S = SolidText(src, Shown)
    OBVIOUS
  <2>2. LineMarks \subseteq S
    <3> SUFFICES ASSUME NEW n \in Nat PROVE LinesElided(n) \in S
      BY DEF LineMarks
    <3>1. LinesElided(n) \in Shown
      BY DEF Shown, Marks, LineMarks
    <3>2. Solid(src, LinesElided(n))
      BY LineMarkIs
    <3> QED
      BY <2>1, <3>1, <3>2 DEF SolidText
  <2>3. PICK to \in Nat : to = L + 1
    OBVIOUS
  <2>4. kept \in Seq(1..L)
    <3>1. kept \in Seq(W)
      BY DEF Enumerates
    <3> QED
      BY <3>1, SeqMonotonic
  <2>5. L > 0 /\ lines \in Seq(Seq(S))
    BY <1>2, <2>1
  <2>6. PICK ps \in Seq(Seq(S)) : ps = AllParts(lines, kept, to) /\ Len(ps) > 0 /\ Render(lines, kept, L) = Joined(ps)
    <3>1. RenderedBy(AllParts(lines, kept, to), S, lines, kept, L)
      <4>1. S \subseteq Shown /\ Marks \subseteq Shown
        BY <2>1 DEF SolidText, Shown
      <4> QED
        BY <2>2, <2>3, <2>4, <2>5, <4>1, AllPartsAre
    <3> QED
      BY <3>1 DEF RenderedBy
  <2>7. Pieces(src, Joined(ps)) = ps
    <3>1. ps \in Seq(Seq(Shown))
      <4>1. S \subseteq Shown
        BY <2>1 DEF SolidText
      <4>2. Seq(S) \subseteq Seq(Shown)
        BY <4>1, SeqMonotonic
      <4> QED
        BY <4>2, SeqMonotonic
    <3>2. \A i \in 1..Len(ps) : \A j \in 1..Len(ps[i]) : Solid(src, ps[i][j])
      <4> SUFFICES ASSUME NEW i \in 1..Len(ps), NEW j \in 1..Len(ps[i]) PROVE Solid(src, ps[i][j])
        OBVIOUS
      <4>1. ps[i] \in Seq(S)
        BY ElementOfSeq
      <4>2. ps[i][j] \in S
        BY <4>1, ElementOfSeq
      <4> QED
        BY <2>1, <4>2 DEF SolidText
    <3>3. Marks \subseteq Shown
      BY DEF Shown
    <3> QED
      BY <2>6, <3>1, <3>2, <3>3, PiecesJoined
  <2>8. Read(lines, W, ps, L)
    BY <2>3, <2>6, AllPartsRead DEF AllParts
  <2>9. LinesRead(lines, W, ps) = L
    BY <2>8 DEF Read
  <2>10. lines # <<>>
    BY <1>2
  <2> QED
    BY <2>6, <2>7, <2>9, <2>10, Zenon DEF ReadBack
<1> QED
  BY <1>1, <1>2
-----------------------------------------------------------------------------
(***************************************************************************)
(* A budget that leaves no line out.                                       *)
(***************************************************************************)

\* A list of all members is as long as their number.
LEMMA CountIs ==
  ASSUME NEW S, S \subseteq Nat, NEW list, Enumerates(list, S)
  PROVE  Cardinality(S) = Len(list) /\ Len(list) \in Nat
<1>1. PICK N \in Nat : N = Len(list)
  BY KeptAt
<1>2. PICK a \in 1..(N + 1), b \in 0..N, n \in Int : a = 1 /\ b = N /\ a <= b + 1 /\ n = b - a + 1 /\ n = N
  OBVIOUS
<1>3. OfSize(Places(list, a, b), n)
  BY <1>1, <1>2, PlacesSize
<1>4. Places(list, a, b) = S
  <2>1. \A m \in 1..Len(list) : list[m] \in S
    BY KeptAt
  <2>2. \A x \in S : \E k \in 1..Len(list) : list[k] = x
    BY Zenon DEF Enumerates
  <2>3. a = 1 /\ b = Len(list)
    BY <1>1, <1>2
  <2> QED
    BY <2>1, <2>2, <2>3, Zenon DEF Places
<1> QED
  BY <1>1, <1>2, <1>3, <1>4, Zenon DEF OfSize

\* A list of L numbers up to L leaves none out.
LEMMA NoneLeftOut ==
  ASSUME NEW L \in Nat, NEW W, W \subseteq 1..L, NEW kept, Enumerates(kept, W), Len(kept) >= L
  PROVE  /\ Len(kept) = L
         /\ \A n \in 1..L : kept[n] = n
<1>0. W \subseteq Nat
  OBVIOUS
<1>1. PICK N \in Nat : N = Len(kept) /\ Cardinality(W) = N
  BY <1>0, CountIs
<1>2. IsFiniteSet(1..L) /\ Cardinality(1..L) = L
  <2>1. 1 \in Int /\ L \in Int
    OBVIOUS
  <2>2. IsFiniteSet(1..L) /\ Cardinality(1..L) = IF 1 > L THEN 0 ELSE L - 1 + 1
    BY <2>1, FS_Interval, Zenon
  <2> QED
    BY <2>2
<1>3. N <= L /\ (N = L => W = 1..L)
  <2>1. W \in SUBSET (1..L)
    OBVIOUS
  <2>2. Cardinality(W) <= Cardinality(1..L) /\ (Cardinality(1..L) = Cardinality(W) => 1..L = W)
    BY <1>2, <2>1, FS_Subset
  <2> QED
    BY <1>1, <1>2, <2>2
<1>4. N = L /\ W = 1..L
  BY <1>1, <1>3
<1>5. ASSUME NEW n \in 1..L PROVE kept[n] = n
  <2>1. PICK x \in Nat : x = kept[n] /\ x \in W
    BY <1>0, <1>1, <1>4, KeptAt
  <2>2. PICK d \in Int : d = N - n + 1
    BY <1>1
  <2>3. n \in 1..N
    BY <1>4
  <2>4. Ranked(W, x, n, d)
    BY <1>0, <1>1, <2>1, <2>2, <2>3, RankIs
  <2>5. Below(W, x) = 1..x
    BY <1>4, <2>1 DEF Below
  <2>6. Cardinality(1..x) = x
    <3>1. 1 \in Int /\ x \in Int
      OBVIOUS
    <3>2. Cardinality(1..x) = IF 1 > x THEN 0 ELSE x - 1 + 1
      BY <3>1, FS_Interval, Zenon
    <3> QED
      BY <3>2
  <2> QED
    BY <2>1, <2>4, <2>5, <2>6, Zenon DEF Ranked
<1>6. Len(kept) = L
  BY <1>1, <1>4
<1>7. \A n \in 1..L : kept[n] = n
  BY <1>5
<1> QED
  BY <1>6, <1>7

\* The numbers up to L.
Everyone(kept, L) == Len(kept) = L /\ \A n \in 1..L : kept[n] = n

\* If no line is left out, the parts are the lines.
LEMMA AllShown ==
  ASSUME NEW S, LineMarks \subseteq S, NEW lines \in Seq(Seq(S)), NEW L \in Nat, L = Len(lines), L > 0,
         NEW kept \in Seq(1..Len(lines)), Everyone(kept, L)
  PROVE  Render(lines, kept, L) = Joined(lines)
<1>1. PICK f : /\ f[0] = <<>>
               /\ \A n \in 1..Len(kept) :
                    f[n] = f[n - 1] \o Gap(IF n = 1 THEN 0 ELSE kept[n - 1], kept[n]) \o <<lines[kept[n]]>>
               /\ \A n \in 0..Len(kept) : f[n] \in Seq(Seq(S))
               /\ Parts(lines, kept) = f[Len(kept)]
  BY PartsRuns, Zenon
<1> USE DEF Everyone
<1> DEFINE H == {n \in 0..L : f[n] = SubSeq(lines, 1, n)}
<1>2. 0 \in H
  <2>1. SubSeq(lines, 1, 0) = <<>>
    BY SubSeqEmpty
  <2> QED
    BY <1>1, <2>1
<1>3. ASSUME NEW n \in 1..L, n - 1 \in H PROVE n \in H
  <2>1. PICK m \in 0..L : m = n - 1
    OBVIOUS
  <2>2. f[m] = SubSeq(lines, 1, m)
    BY <1>3, <2>1
  <2>3. PICK g \in Seq(Seq(S)) : g = SubSeq(lines, 1, m)
    BY <2>1, OneFurther
  <2>4. PICK q \in Seq(S) : q = lines[n]
    BY ElementOfSeq
  <2>5. SubSeq(lines, 1, n) = Append(g, q)
    BY <2>1, <2>3, <2>4, OneFurther
  <2>6. (IF n = 1 THEN 0 ELSE kept[n - 1]) = m
    <3>1. CASE n = 1
      BY <2>1, <3>1
    <3>2. CASE n # 1
      <4>1. m \in 1..L
        BY <2>1, <3>2
      <4>2. kept[m] = m
        BY <4>1
      <4> QED
        BY <2>1, <3>2, <4>2, Zenon
    <3> QED
      BY <3>1, <3>2
  <2>7. Gap(m, n) = <<>>
    BY <2>1 DEF Gap
  <2>8. f[n] = f[n - 1] \o Gap(IF n = 1 THEN 0 ELSE kept[n - 1], kept[n]) \o <<lines[kept[n]]>>
    BY <1>1
  <2>9. kept[n] = n
    OBVIOUS
  <2>10. f[n] = g \o <<>> \o <<q>>
    BY <2>1, <2>2, <2>3, <2>4, <2>6, <2>7, <2>8, <2>9, Zenon
  <2>11. g \o <<>> \o <<q>> = Append(g, q)
    OBVIOUS
  <2>12. n \in 0..L
    OBVIOUS
  <2> QED
    BY <2>5, <2>10, <2>11, <2>12, Zenon
<1> HIDE DEF H
<1>4. \A n \in 0..L : n \in H
  BY <1>2, <1>3, UpTo
<1>5. L \in H
  BY <1>4
<1>6. f[L] = SubSeq(lines, 1, L)
  BY <1>5 DEF H
<1>7. SubSeq(lines, 1, L) = lines
  OBVIOUS
<1>8. Parts(lines, kept) = lines
  BY <1>1, <1>6, <1>7
<1>9. Last(kept) = L /\ kept # <<>> /\ L # 0
  <2>1. L \in 1..L
    OBVIOUS
  <2> QED
    BY <2>1, EmptySeq DEF Last
<1>10. Gap(L, L + 1) = <<>>
  BY DEF Gap
<1>11. lines \o <<>> = lines
  OBVIOUS
<1> QED
  BY <1>8, <1>9, <1>10, <1>11, Zenon DEF Render

\* A text that is not capped is unchanged.
LEMMA BoundWhole ==
  ASSUME NEW T, NEW max, ~Bound(T, max).capped
  PROVE  Bound(T, max).text = T
<1>1. CASE Len(T) <= max
  BY <1>1 DEF Bound
<1>2. CASE ~(Len(T) <= max) /\ max < 2
  BY <1>2 DEF Bound
<1>3. CASE ~(Len(T) <= max) /\ ~(max < 2)
  BY <1>3 DEF Bound
<1> QED
  BY <1>1, <1>2, <1>3
-----------------------------------------------------------------------------
(***************************************************************************)
(* One stream, redacted and shaped.                                        *)
(***************************************************************************)

LEMMA ApplyMakes ==
  ASSUME NEW src, NEW T, NEW budget, NEW fallback,
         NEW lines, lines = Lines(src, T), NEW kept, kept = Kept(src, lines, budget),
         NEW shaped, shaped = Apply(src, T, budget, fallback)
  PROVE  /\ shaped.total = Len(lines) /\ shaped.kept = Len(kept)
         /\ ~shaped.capped => shaped.text = Render(lines, kept, Len(lines))
<1>1. PICK max : max = IF budget.max = NoMax THEN fallback ELSE budget.max
  OBVIOUS
<1>2. PICK text : text = Render(lines, kept, Len(lines))
  OBVIOUS
<1>3. PICK bounded : bounded = Bound(text, max)
  OBVIOUS
<1>4. shaped = [text |-> bounded.text, capped |-> bounded.capped, total |-> Len(lines), kept |-> Len(kept)]
  BY <1>1, <1>2, <1>3, Zenon DEF Apply
<1>5. /\ shaped.text = bounded.text /\ shaped.capped = bounded.capped
      /\ shaped.total = Len(lines) /\ shaped.kept = Len(kept)
  BY <1>4
<1>6. ~bounded.capped => bounded.text = text
  BY <1>3, BoundWhole
<1> QED
  BY <1>2, <1>5, <1>6, Zenon

\* What a stream's lines are, of a text without marks.
LEMMA ElemLines ==
  ASSUME NEW src, NEW T \in Seq(Elem), NEW lines, lines = Lines(src, T)
  PROVE  /\ lines \in Seq(Seq(Elem)) /\ lines \in Seq(Seq(SolidText(src, Shown))) /\ Len(lines) <= Len(T)
         /\ lines = <<>> => AllOf(src, T, <<>>)
         /\ lines # <<>> => AllOf(src, T, Joined(lines))
<1>1. Marks \subseteq Shown /\ T \in Seq(Shown)
  <2>1. Elem \subseteq Shown /\ Marks \subseteq Shown
    BY DEF Shown
  <2> QED
    BY <2>1, SeqMonotonic
<1>2. lines \in Seq(Seq(Elem))
  BY LinesIs
<1>3. /\ Lines(src, T) \in Seq(Seq(SolidText(src, Shown)))
      /\ Len(Lines(src, T)) <= Len(T)
      /\ Lines(src, T) = <<>> => AllOf(src, T, <<>>)
      /\ Lines(src, T) # <<>> => AllOf(src, T, Joined(Lines(src, T)))
  BY <1>1, LinesAre
<1> QED
  BY <1>2, <1>3, Zenon

\* The kept lines are those that the budget asks for.
Asks(budget) == Keeping(budget.keep) /\ budget.context \in Nat

LEMMA StreamKept ==
  ASSUME NEW src, NEW T \in Seq(Elem), Len(T) <= MaxUsize, NEW budget, Asks(budget),
         NEW lines, lines = Lines(src, T), NEW kept, kept = Kept(src, lines, budget),
         NEW W, W = Wanted(src, lines, budget)
  PROVE  W \subseteq 1..Len(lines) /\ Enumerates(kept, W)
<1>1. lines \in Seq(Seq(Elem)) /\ Len(lines) <= Len(T)
  BY ElemLines
<1>2. Len(lines) <= MaxUsize
  BY <1>1, MaxUsizeAssumption
<1>3. /\ Enumerates(Kept(src, lines, budget), Wanted(src, lines, budget))
      /\ Wanted(src, lines, budget) \subseteq 1..Len(lines)
  BY <1>1, <1>2, KeptExact DEF Asks
<1> QED
  BY <1>3, Zenon

\* A shaped stream keeps to the budget.
LEMMA StreamExact ==
  ASSUME NEW src, NEW T \in Seq(Elem), Len(T) <= MaxUsize, NEW budget, Asks(budget), NEW fallback
  PROVE  BudgetKept(src, T, budget, Apply(src, T, budget, fallback))
<1>1. PICK shaped : shaped = Apply(src, T, budget, fallback)
  OBVIOUS
<1>2. PICK lines \in Seq(Seq(Elem)) : lines = Lines(src, T) /\ lines \in Seq(Seq(SolidText(src, Shown)))
  BY ElemLines
<1>3. PICK L \in Nat : L = Len(lines)
  BY <1>2
<1>4. PICK kept, W : kept = Kept(src, lines, budget) /\ W = Wanted(src, lines, budget)
  OBVIOUS
<1>5. W \subseteq 1..L /\ Enumerates(kept, W)
  BY <1>2, <1>3, <1>4, StreamKept
<1>6. Cardinality(W) = Len(kept)
  <2>1. W \subseteq Nat
    BY <1>5
  <2> QED
    BY <1>5, <2>1, CountIs
<1>7. /\ shaped.total = L /\ shaped.kept = Len(kept)
      /\ ~shaped.capped => shaped.text = Render(lines, kept, L)
  <2>1. /\ shaped.total = Len(lines) /\ shaped.kept = Len(kept)
        /\ ~shaped.capped => shaped.text = Render(lines, kept, Len(lines))
    BY <1>1, <1>2, <1>4, ApplyMakes
  <2> QED
    BY <1>3, <2>1
<1>8. ReadBack(src, lines, W, Render(lines, kept, L)) = L
  <2>1. ReadsAll(src, lines, W, kept, L)
    BY <1>2, <1>3, <1>5, RenderRead
  <2> QED
    BY <2>1 DEF ReadsAll
<1>9. /\ shaped.total = Len(lines) /\ shaped.kept = Cardinality(W)
      /\ ~shaped.capped => ReadBack(src, lines, W, shaped.text) = Len(lines)
  <2>1. shaped.total = Len(lines)
    BY <1>3, <1>7
  <2>2. shaped.kept = Cardinality(W)
    BY <1>6, <1>7, Zenon
  <2>3. ~shaped.capped => ReadBack(src, lines, W, shaped.text) = Len(lines)
    BY <1>3, <1>7, <1>8, Zenon
  <2> QED
    BY <2>1, <2>2, <2>3
<1>10. BudgetKept(src, T, budget, shaped)
  BY <1>2, <1>4, <1>9, Zenon DEF BudgetKept
<1> QED
  BY <1>1, <1>10

\* With no line missing and nothing cut off it is all there.
LEMMA StreamWhole ==
  ASSUME NEW src, NEW T \in Seq(Elem), Len(T) <= MaxUsize, NEW budget, Asks(budget), NEW fallback,
         NEW shaped, shaped = Apply(src, T, budget, fallback), ~shaped.capped, ~(shaped.kept < shaped.total)
  PROVE  AllOf(src, T, shaped.text)
<1>1. PICK lines \in Seq(Seq(Elem)) : /\ lines = Lines(src, T)
                                      /\ lines \in Seq(Seq(SolidText(src, Shown)))
                                      /\ lines = <<>> => AllOf(src, T, <<>>)
                                      /\ lines # <<>> => AllOf(src, T, Joined(lines))
  BY ElemLines
<1>2. PICK L \in Nat : L = Len(lines)
  BY <1>1
<1>3. PICK kept, W : kept = Kept(src, lines, budget) /\ W = Wanted(src, lines, budget)
  OBVIOUS
<1>4. W \subseteq 1..L /\ Enumerates(kept, W)
  BY <1>1, <1>2, <1>3, StreamKept
<1>5. shaped.total = L /\ shaped.kept = Len(kept) /\ shaped.text = Render(lines, kept, L)
  <2>1. /\ shaped.total = Len(lines) /\ shaped.kept = Len(kept)
        /\ ~shaped.capped => shaped.text = Render(lines, kept, Len(lines))
    BY <1>1, <1>3, ApplyMakes
  <2> QED
    BY <1>2, <2>1
<1>6. Len(kept) \in Nat
  <2>1. W \subseteq Nat
    BY <1>4
  <2> QED
    BY <1>4, <2>1, CountIs
<1>7. Len(kept) >= L
  BY <1>5, <1>6
<1>8. Len(kept) = L /\ \A n \in 1..L : kept[n] = n
  BY <1>4, <1>7, NoneLeftOut
<1>9. CASE L = 0
  <2>1. lines = <<>>
    BY <1>2, <1>9, EmptySeq
  <2>2. Render(lines, kept, L) = <<>>
    BY <1>9 DEF Render
  <2> QED
    BY <1>1, <1>5, <2>1, <2>2
<1>10. CASE L # 0
  <2>1. lines # <<>> /\ L > 0
    BY <1>2, <1>10
  <2>2. kept \in Seq(1..L)
    <3>1. kept \in Seq(W)
      BY <1>4 DEF Enumerates
    <3> QED
      BY <1>4, <3>1, SeqMonotonic
  <2>3. PICK X : X = Elem \cup LineMarks
    OBVIOUS
  <2>4. LineMarks \subseteq X /\ lines \in Seq(Seq(X))
    <3>1. LineMarks \subseteq X /\ Elem \subseteq X
      BY <2>3
    <3>2. Seq(Elem) \subseteq Seq(X)
      BY <3>1, SeqMonotonic
    <3> QED
      BY <3>1, <3>2, SeqMonotonic
  <2>5. Render(lines, kept, L) = Joined(lines)
    <3>1. Everyone(kept, L) /\ kept \in Seq(1..Len(lines))
      BY <1>2, <1>8, <2>2, Zenon DEF Everyone
    <3> QED
      BY <1>2, <2>1, <2>4, <3>1, AllShown
  <2> QED
    BY <1>1, <1>5, <2>1, <2>5, Zenon
<1> QED
  BY <1>9, <1>10
-----------------------------------------------------------------------------
(***************************************************************************)
(* Streams stay within their sources' length, and bring no line marks.     *)
(***************************************************************************)

\* A text without line marks, of at most n elements.
Short(T, n) == T \in Seq(Elem) /\ Len(T) <= n

LEMMA ElemIs == Elem \subseteq Int /\ Redacted \in Elem /\ NewLine \in Elem /\ Guidance \in Elem /\ Nat \subseteq Elem
BY DEF Elem, Redacted, NewLine, Guidance

LEMMA ShortTyped ==
  ASSUME NEW T, NEW n, Short(T, n)
  PROVE  T \in Seq(Int) /\ Len(T) \in Nat
<1>1. T \in Seq(Elem)
  BY DEF Short
<1>2. T \in Seq(Int)
  BY <1>1, ElemIs, SeqMonotonic
<1> QED
  BY <1>1, <1>2

LEMMA EmptyShort == ASSUME NEW n \in Nat PROVE Short(<<>>, n)
BY EmptySeq DEF Short

LEMMA PartShort ==
  ASSUME NEW n \in Nat, NEW T, Short(T, n), NEW a \in Int, NEW b \in Int, a >= 1, b <= Len(T)
  PROVE  Short(SubSeq(T, a, b), n)
<1>1. T \in Seq(Elem) /\ Len(T) <= n
  BY DEF Short
<1>2. CASE b < a
  <2>1. SubSeq(T, a, b) = <<>>
    BY <1>2, SubSeqEmpty
  <2> QED
    BY <2>1, EmptyShort
<1>3. CASE a <= b
  <2>1. PICK c \in Nat, d \in Nat : c = a /\ d = b /\ 1 <= c /\ c <= d + 1 /\ d <= Len(T)
    BY <1>3
  <2>2. SubSeq(T, c, d) \in Seq(Elem) /\ Len(SubSeq(T, c, d)) = d - c + 1
    BY <1>1, <2>1, PartIs
  <2>3. d - c + 1 <= n
    BY <1>1, <2>1
  <2> QED
    BY <2>1, <2>2, <2>3 DEF Short
<1> QED
  BY <1>2, <1>3

LEMMA ScanShort ==
  ASSUME NEW src, NEW n \in Nat, NEW T, Short(T, n)
  PROVE  Short(ScanText(src, T).out, n)
<1>1. T \in Seq(Int) /\ T \in Seq(Elem) /\ Len(T) <= n
  BY ShortTyped DEF Short
<1>2. PICK N \in Nat : N = Len(T) /\ N <= n
  BY <1>1
<1>3. PICK f : /\ f[0] = [mode |-> "text", out |-> <<>>]
               /\ \A k \in 1..Len(T) : f[k] = Scanned(src, f[k - 1], T[k])
               /\ \A k \in 0..Len(T) : f[k] \in TextState
               /\ ScanText(src, T) = f[Len(T)]
  BY <1>1, ScanRuns
<1> DEFINE H == {k \in 0..N : Short(f[k].out, k)}
<1>4. 0 \in H
  <2>1. f[0].out = <<>>
    BY <1>3
  <2> QED
    BY <2>1, EmptyShort
<1>5. ASSUME NEW k \in 1..N, k - 1 \in H PROVE k \in H
  <2>1. PICK m \in 0..N : m = k - 1 /\ m \in Nat
    OBVIOUS
  <2>2. PICK s \in TextState : s = f[m]
    BY <1>2, <1>3, <2>1
  <2>3. PICK out \in Seq(Elem) : out = s.out /\ Len(out) <= m
    BY <1>5, <2>1, <2>2 DEF Short
  <2>4. PICK x \in Elem : x = T[k] /\ x \in Int
    <3>1. T[k] \in Elem
      BY <1>1, <1>2, ElementOfSeq
    <3> QED
      BY <3>1, ElemIs
  <2>5. Scanned(src, s, x).out = s.out \/ Scanned(src, s, x).out = Append(s.out, x)
    BY <2>4, ScannedIs
  <2>6. f[k] = Scanned(src, s, x)
    BY <1>2, <1>3, <2>1, <2>2, <2>4
  <2>7. out \in Seq(Elem) /\ Len(out) <= k
    BY <2>1, <2>3
  <2>8. Append(out, x) \in Seq(Elem) /\ Len(Append(out, x)) <= k
    BY <2>1, <2>3
  <2>9. k \in 0..N
    OBVIOUS
  <2> QED
    BY <2>3, <2>5, <2>6, <2>7, <2>8, <2>9 DEF Short
<1> HIDE DEF H
<1>6. \A k \in 0..N : k \in H
  BY <1>4, <1>5, UpTo
<1>7. N \in H
  BY <1>6
<1>8. Short(f[N].out, N)
  BY <1>7 DEF H
<1> QED
  BY <1>2, <1>3, <1>8, ShortTyped DEF Short

LEMMA CleanShort ==
  ASSUME NEW src, NEW n \in Nat, NEW T, Short(T, n)
  PROVE  Short(Clean(src, T), n)
<1>1. PICK U : U = ScanText(src, T).out /\ Short(U, n)
  BY ScanShort
<1>2. PICK N \in Nat : N = Len(U)
  BY <1>1, ShortTyped
<1> DEFINE solid == {i \in 1..N : Sym(src, U[i]) # "nl"}
<1>3. Clean(src, T) = IF solid = {} THEN <<>> ELSE SubSeq(U, Min(solid), Max(solid))
  BY <1>1, <1>2, Zenon DEF Clean, Trimmed
<1>4. solid \subseteq 1..N
  OBVIOUS
<1> HIDE DEF solid
<1>5. CASE solid = {}
  BY <1>3, <1>5, EmptyShort
<1>6. CASE solid # {}
  <2>1. solid \subseteq Nat /\ solid \subseteq 0..N
    BY <1>4
  <2>2. Min(solid) \in solid
    BY <1>6, <2>1, MinIs
  <2>3. Max(solid) \in solid
    BY <1>6, <2>1, MaxIs
  <2>4. PICK a \in 1..N, b \in 1..N : a = Min(solid) /\ b = Max(solid)
    BY <1>4, <2>2, <2>3
  <2>5. a \in Int /\ b \in Int /\ a >= 1 /\ b <= Len(U)
    BY <1>2, <2>4
  <2>6. Short(SubSeq(U, a, b), n)
    BY <1>1, <2>5, PartShort
  <2> QED
    BY <1>3, <1>6, <2>4, <2>6, Zenon
<1> QED
  BY <1>5, <1>6

LEMMA WholeShort ==
  ASSUME NEW S, NEW src \in Seq(S), NEW n, n = Len(src)
  PROVE  Short(Whole(src), n) /\ Len(Whole(src)) = n /\ n \in Nat
<1>1. Whole(src) \in Seq(Int) /\ Len(Whole(src)) = n /\ \A i \in 1..n : Whole(src)[i] = i
  BY WholeIs
<1>2. n \in Nat
  OBVIOUS
<1>3. \A i \in 1..n : Whole(src)[i] \in Elem
  BY <1>1, <1>2 DEF Elem
<1>4. Whole(src) \in [1..n -> Elem]
  BY <1>1, <1>2, <1>3
<1>5. Whole(src) \in Seq(Elem)
  BY <1>2, <1>4, SeqDef
<1> QED
  BY <1>1, <1>2, <1>5 DEF Short

LEMMA FramedShort ==
  ASSUME NEW file \in Seq(Symbols), NEW cap \in Nat, NEW n, n = Len(file) + 3
  PROVE  Short(FramedStderr(file, cap), n) /\ n \in Nat
<1> DEFINE S == Symbols \cup {"nl", "size", "#"}
<1>1. PICK src \in Seq(S) : src = file \o Footer /\ Len(src) = n
  <2>2. file \in Seq(S)
    BY SeqMonotonic
  <2>3. Footer \in Seq(S) /\ Len(Footer) = 3
    BY DEF Footer
  <2>4. file \o Footer \in Seq(S) /\ Len(file \o Footer) = Len(file) + Len(Footer)
    BY <2>2, <2>3, ConcatProperties
  <2>5. Len(file \o Footer) = n
    BY <2>3, <2>4
  <2> QED
    BY <2>4, <2>5, Zenon
<1>2. n \in Nat
  OBVIOUS
<1>3. Short(Whole(src), n) /\ Len(Whole(src)) = n
  BY <1>1, WholeShort
<1>4. PICK a \in Int : a = Monus(Len(file), cap) + 1 /\ a >= 1
  <2>1. Monus(Len(file), cap) \in Nat
    BY DEF Monus
  <2> QED
    BY <2>1
<1>5. Short(SubSeq(Whole(src), a, n), n)
  <2>1. n \in Int /\ n <= Len(Whole(src))
    BY <1>2, <1>3
  <2> QED
    BY <1>2, <1>3, <1>4, <2>1, PartShort
<1>6. FramedStderr(file, cap) = Clean(src, SubSeq(Whole(src), a, n))
  BY <1>1, <1>4, Zenon DEF FramedStderr
<1> QED
  BY <1>2, <1>5, <1>6, CleanShort

LEMMA TailShort ==
  ASSUME NEW file \in Seq(Symbols), NEW cap \in Nat, NEW n, n = Len(file) + 3
  PROVE  Short(StderrTail(file, cap), n)
<1>1. PICK src, text : src = file \o Footer /\ text = FramedStderr(file, cap)
  OBVIOUS
<1>2. Short(text, n) /\ n \in Nat /\ text \in Seq(Int)
  BY <1>1, FramedShort, ShortTyped
<1>3. PICK broken \in Int : broken = LastBreak(src, text) /\ broken <= Len(text)
  BY <1>2, LastBreakIs
<1>4. PICK tail : tail = SubSeq(text, 1, broken - 1) /\ Short(tail, n)
  <2>1. PICK b \in Int : b = broken - 1 /\ b <= Len(text)
    BY <1>2, <1>3
  <2>2. Short(SubSeq(text, 1, b), n)
    BY <1>2, <2>1, PartShort
  <2> QED
    BY <2>1, <2>2
<1>5. tail \in Seq(Int)
  BY <1>4, ShortTyped
<1> DEFINE breaks == {i \in 1..Len(tail) : Sym(src, tail[i]) = "nl"}
           readable == SubSeq(Syms(src, text), broken + 1, Len(text)) = <<"size", "#">>
<1>6. StderrTail(file, cap) =
        IF text = <<>> \/ Sym(src, IF text = <<>> THEN 0 ELSE Last(text)) # "#" THEN text
        ELSE IF ~readable \/ Len(file) <= cap THEN tail
        ELSE IF breaks = {} THEN <<>> ELSE SubSeq(tail, Min(breaks) + 1, Len(tail))
  BY <1>1, <1>3, <1>4, Zenon DEF StderrTail
<1>7. breaks = {} \/ Short(SubSeq(tail, Min(breaks) + 1, Len(tail)), n)
  <2>1. breaks \subseteq Nat
    OBVIOUS
  <2> HIDE DEF breaks
  <2>2. ASSUME breaks # {} PROVE Short(SubSeq(tail, Min(breaks) + 1, Len(tail)), n)
    <3>1. Min(breaks) \in breaks
      BY <2>1, <2>2, MinIs
    <3>2. PICK a \in Int, b \in Int : a = Min(breaks) + 1 /\ b = Len(tail) /\ a >= 1 /\ b <= Len(tail)
      <4>1. Min(breaks) \in Nat
        BY <2>1, <3>1
      <4>2. PICK m \in Nat : m = Min(breaks)
        BY <4>1, Zenon
      <4>3. PICK a \in Int : a = m + 1 /\ a >= 1
        OBVIOUS
      <4>4. Len(tail) \in Int /\ Len(tail) <= Len(tail)
        BY <1>5
      <4> QED
        BY <4>2, <4>3, <4>4, Zenon
    <3>3. Short(SubSeq(tail, a, b), n)
      BY <1>2, <1>4, <3>2, PartShort
    <3> QED
      BY <3>2, <3>3, Zenon
  <2> QED
    BY <2>2
<1> HIDE DEF breaks, readable
<1>8. Short(<<>>, n)
  BY <1>2, EmptyShort
<1> QED
  BY <1>2, <1>4, <1>6, <1>7, <1>8, Zenon
-----------------------------------------------------------------------------
(***************************************************************************)
(* Guidance, redaction, and the two streams of a result.                   *)
(***************************************************************************)

LEMMA GuidedShort ==
  ASSUME NEW src, NEW n \in Nat, NEW T, Short(T, n), NEW m, m = n + 2
  PROVE  Short(WithGuidance(src, T), m)
<1> DEFINE gap == IF T = <<>> \/ Sym(src, Last(T)) = "nl" THEN <<>> ELSE <<NewLine>>
<1>1. WithGuidance(src, T) = T \o gap \o <<Guidance>>
  BY Zenon DEF WithGuidance
<1>2. gap = <<>> \/ gap = <<NewLine>>
  OBVIOUS
<1> HIDE DEF gap
<1>3. T \in Seq(Elem) /\ Len(T) <= n /\ Len(T) \in Nat
  BY DEF Short
<1>4. gap \in Seq(Elem) /\ Len(gap) <= 1 /\ Len(gap) \in Nat
  <2>1. PICK x \in Elem : x = NewLine
    BY ElemIs
  <2>2. <<x>> \in Seq(Elem) /\ Len(<<x>>) = 1
    OBVIOUS
  <2>3. <<>> \in Seq(Elem) /\ Len(<<>>) = 0
    BY EmptySeq
  <2>4. CASE gap = <<>>
    BY <2>3, <2>4
  <2>5. CASE gap = <<NewLine>>
    BY <2>1, <2>2, <2>5
  <2> QED
    BY <1>2, <2>4, <2>5
<1>5. PICK g \in Seq(Elem) : g = <<Guidance>> /\ Len(g) = 1
  <2>1. PICK x \in Elem : x = Guidance
    BY ElemIs
  <2>2. <<x>> \in Seq(Elem) /\ Len(<<x>>) = 1
    OBVIOUS
  <2> QED
    BY <2>1, <2>2, Zenon
<1>6. PICK U \in Seq(Elem) : U = T \o gap /\ Len(U) = Len(T) + Len(gap)
  <2>1. T \o gap \in Seq(Elem) /\ Len(T \o gap) = Len(T) + Len(gap)
    BY <1>3, <1>4, ConcatProperties
  <2> QED
    BY <2>1, Zenon
<1>7. U \o g \in Seq(Elem) /\ Len(U \o g) = Len(U) + Len(g)
  BY ConcatProperties
<1>8. Len(U \o g) <= m
  BY <1>3, <1>4, <1>5, <1>6, <1>7
<1>9. WithGuidance(src, T) = U \o g
  BY <1>1, <1>5, <1>6, Zenon
<1> QED
  BY <1>7, <1>8, <1>9, Zenon DEF Short

\* Redaction inserts nothing but its mark, and makes no text longer.
LEMMA RedactShort ==
  ASSUME NEW known \in Seq(Value), NEW src, NEW n \in Nat, NEW T, Short(T, n)
  PROVE  Short(Redact(known, src, T), n)
<1>1. T \in Seq(Elem) /\ T \in Seq(Int) /\ Len(T) <= n
  BY ShortTyped DEF Short
<1>2. PICK p \in Nat : p = Len(T) /\ p <= n
  BY <1>1
<1>3. PICK U \in Seq(Int) : U = Redact(known, src, T) /\ Thinned(T, p, U)
  <2>1. Redact(known, src, T) \in Seq(Int)
    BY <1>1, RedactTyped
  <2>2. Thinned(T, Len(T), Redact(known, src, T))
    BY <1>1, RedactThin
  <2> QED
    BY <1>2, <2>1, <2>2
<1>4. PICK pos : Thinning(T, p, U, pos)
  BY <1>3 DEF Thinned
<1>5. PICK N \in Nat : N = Len(U)
  OBVIOUS
<1>6. /\ \A k \in 1..N : pos[k] \in 1..p
      /\ \A k, l \in 1..N : k < l => pos[k] < pos[l]
      /\ \A k \in 1..N : U[k] = T[pos[k]] \/ U[k] = Redacted
  BY <1>4, <1>5 DEF Thinning
<1>7. \A k \in 1..N : U[k] \in Elem
  <2> SUFFICES ASSUME NEW k \in 1..N PROVE U[k] \in Elem
    OBVIOUS
  <2>1. PICK i \in 1..p : i = pos[k]
    BY <1>6
  <2>2. T[i] \in Elem
    BY <1>1, <1>2, ElementOfSeq
  <2>3. U[k] = T[i] \/ U[k] = Redacted
    BY <1>6, <2>1
  <2> QED
    BY <2>2, <2>3, ElemIs
<1>8. N <= p
  <2> DEFINE H == {k \in 1..N : pos[k] >= k}
  <2>1. CASE N = 0
    BY <2>1
  <2>2. CASE N # 0
    <3>1. 1 \in H
      <4>1. 1 \in 1..N
        BY <2>2
      <4>2. pos[1] \in 1..p
        BY <1>6, <4>1
      <4> QED
        BY <4>1, <4>2
    <3>2. ASSUME NEW k \in 2..N, k - 1 \in H PROVE k \in H
      <4>1. PICK j \in 1..N : j = k - 1 /\ j < k /\ pos[j] >= j
        BY <3>2
      <4>2. k \in 1..N
        OBVIOUS
      <4>3. pos[j] < pos[k] /\ pos[j] \in 1..p /\ pos[k] \in 1..p
        BY <1>6, <4>1, <4>2
      <4> QED
        BY <4>1, <4>2, <4>3
    <3> HIDE DEF H
    <3>3. \A k \in 1..N : k \in H
      BY <3>1, <3>2, UpFrom
    <3>4. N \in 1..N
      BY <2>2
    <3>5. pos[N] >= N /\ pos[N] \in 1..p
      BY <1>6, <3>3, <3>4 DEF H
    <3> QED
      BY <3>5
  <2> QED
    BY <2>1, <2>2
<1>9. U \in Seq(Elem)
  <2>1. U \in [1..N -> Elem]
    BY <1>5, <1>7
  <2> QED
    BY <1>5, <2>1, SeqDef
<1> QED
  BY <1>2, <1>3, <1>5, <1>8, <1>9 DEF Short

\* A stream of a result, before it is redacted.
Fits(T) == Short(T, MaxUsize)

LEMMA OutFits ==
  ASSUME NEW streams \in Streams
  PROVE  Fits(Clean(streams[1], Whole(streams[1])))
<1>1. PICK out \in Seq(Symbols) : out = streams[1] /\ 2 * Len(out) <= MaxUsize
  BY ExecAssumed DEF ExecAssumption
<1>2. PICK n \in Nat : n = Len(out) /\ n <= MaxUsize
  BY <1>1, MaxUsizeAssumption
<1>3. Short(Whole(out), n)
  BY <1>2, WholeShort
<1>4. Short(Clean(out, Whole(out)), n)
  BY <1>3, CleanShort
<1>5. Clean(out, Whole(out)) \in Seq(Elem) /\ Len(Clean(out, Whole(out))) <= MaxUsize
  BY <1>2, <1>4, MaxUsizeAssumption DEF Short
<1> QED
  BY <1>1, <1>5 DEF Fits, Short

LEMMA ErrFits ==
  ASSUME NEW streams \in Streams, NEW timedOut \in BOOLEAN
  PROVE  Fits(ErrText(streams[2], timedOut))
<1>1. PICK file \in Seq(Symbols) : file = streams[2] /\ 2 * Len(file) <= MaxUsize
  BY ExecAssumed DEF ExecAssumption
<1>2. PICK l \in Nat : l = Len(file) /\ l + 5 <= MaxUsize
  <2>1. PICK l \in Nat : l = Len(file)
    OBVIOUS
  <2>2. 2 * l <= MaxUsize /\ MaxUsize \in Nat /\ MaxUsize >= 65535
    BY <1>1, <2>1, MaxUsizeAssumption
  <2> QED
    BY <2>1, <2>2
<1>3. PICK n \in Nat : Short(ErrText(file, timedOut), n) /\ n <= MaxUsize
  <2>1. CASE timedOut
    <3>1. PICK t \in Nat : t = l + 3
      OBVIOUS
    <3>6. PICK m \in Nat : m = t + 2 /\ m <= MaxUsize
      BY <1>2, <3>1
    <3>2. TailCap \in Nat
      BY ExecAssumed DEF ExecAssumption
    <3>3. Short(StderrTail(file, TailCap), t)
      BY <1>2, <3>1, <3>2, TailShort
    <3>4. Short(WithGuidance(ErrSource(file, TRUE), StderrTail(file, TailCap)), m)
      BY <3>3, <3>6, GuidedShort
    <3>5. ErrText(file, timedOut) = WithGuidance(ErrSource(file, TRUE), StderrTail(file, TailCap))
      BY <2>1, Zenon DEF ErrText
    <3> QED
      BY <3>4, <3>5, <3>6, Zenon
  <2>2. CASE ~timedOut
    <3>1. Short(Whole(file), l)
      BY <1>2, WholeShort
    <3>2. Short(Clean(file, Whole(file)), l)
      BY <3>1, CleanShort
    <3>3. ErrText(file, timedOut) = Clean(file, Whole(file))
      BY <2>2, Zenon DEF ErrText
    <3>4. l <= MaxUsize
      BY <1>2, MaxUsizeAssumption
    <3> QED
      BY <3>2, <3>3, <3>4, Zenon
  <2> QED
    BY <2>1, <2>2
<1>4. ErrText(file, timedOut) \in Seq(Elem) /\ Len(ErrText(file, timedOut)) <= MaxUsize
  BY <1>3, MaxUsizeAssumption DEF Short
<1> QED
  BY <1>1, <1>4, Zenon DEF Fits, Short

LEMMA AsksIs ==
  ASSUME NEW params \in Requests, Translatable(params)
  PROVE  Asks(ToBudget(params))
<1>1. Keeping(ToBudget(params).keep)
  BY BudgetIs DEF Budgeted
<1>2. params \in ParamsType \cup {NoParams}
  BY ExecAssumed DEF ExecAssumption
<1>3. CASE params = NoParams
  <2>1. ToBudget(params).context = 0
    BY <1>3 DEF ToBudget, DefaultBudget
  <2> QED
    BY <1>1, <2>1 DEF Asks
<1>4. CASE params # NoParams
  <2>1. params.context \in Nat
    BY <1>2, <1>4 DEF ParamsType
  <2>2. ToBudget(params).context = params.context
    BY <1>4 DEF ToBudget
  <2> QED
    BY <1>1, <2>1, <2>2 DEF Asks
<1> QED
  BY <1>3, <1>4

\* A stream of a result keeps to the budget, and it is whole if nothing was left out.
LEMMA ShapedIs ==
  ASSUME NEW known \in Seq(Value), NEW src, NEW T, Fits(T), NEW budget, Asks(budget),
         NEW shaped, shaped = Shaped(known, src, T, budget)
  PROVE  /\ BudgetKept(src, Redact(known, src, T), budget, shaped)
         /\ ~shaped.capped /\ ~(shaped.kept < shaped.total) => AllOf(src, Redact(known, src, T), shaped.text)
<1>1. MaxUsize \in Nat /\ Short(T, MaxUsize)
  BY MaxUsizeAssumption DEF Fits
<1>2. PICK R \in Seq(Elem) : R = Redact(known, src, T) /\ Len(R) <= MaxUsize
  <2>1. Short(Redact(known, src, T), MaxUsize)
    BY <1>1, RedactShort
  <2> QED
    BY <2>1 DEF Short
<1>3. shaped = Apply(src, R, budget, MaxOutput)
  BY <1>2, Zenon DEF Shaped
<1>4. BudgetKept(src, R, budget, shaped)
  BY <1>2, <1>3, StreamExact, Zenon
<1>5. ~shaped.capped /\ ~(shaped.kept < shaped.total) => AllOf(src, R, shaped.text)
  BY <1>2, <1>3, StreamWhole
<1> QED
  BY <1>2, <1>4, <1>5, Zenon
-----------------------------------------------------------------------------
(***************************************************************************)
(* Results keep to their budget.                                           *)
(***************************************************************************)

\* What the last call answered keeps to its budget and is whole unless it says so.
BudgetInv == literals \in Seq(Value) /\ BudgetExact /\ WholeUnlessTruncated

LEMMA NoResultFits ==
  ASSUME literals' \in Seq(Value), answer'.kind # "result"
  PROVE  BudgetInv'
BY Zenon DEF BudgetInv, BudgetExact, WholeUnlessTruncated

LEMMA ResultFits ==
  ASSUME literals \in Seq(Value), NEW cmd \in Commands, NEW params \in Requests, NEW streams \in Streams,
         NEW overflowed \in BOOLEAN, NEW timedOut \in BOOLEAN,
         Exec(cmd, streams[1], streams[2], params, overflowed, timedOut)
  PROVE  BudgetInv'
<1>1. PICK budget, out, file, known : /\ budget = ToBudget(params) /\ out = streams[1] /\ file = streams[2]
                                      /\ known = Learn(literals, cmd)
  OBVIOUS
<1>2. known \in Seq(Value) /\ literals' = known
  <2>1. literals' = Learn(literals, cmd)
    BY Zenon DEF Exec
  <2>2. cmd \in Seq(Symbols)
    BY ExecAssumed DEF ExecAssumption
  <2> QED
    BY <1>1, <2>1, <2>2, LearnIs
<1>3. Asks(budget)
  <2>1. Translatable(params)
    BY Zenon DEF Exec, ReachesSession
  <2> QED
    BY <1>1, <2>1, AsksIs
<1>4. PICK src : src = ErrSource(file, timedOut)
  OBVIOUS
<1>5. PICK T : T = Clean(out, Whole(out)) /\ Fits(T)
  BY <1>1, OutFits
<1>6. PICK E : E = ErrText(file, timedOut) /\ Fits(E)
  BY <1>1, ErrFits
<1>7. PICK stdout, stderr : stdout = Shaped(known, out, T, budget) /\ stderr = Shaped(known, src, E, budget)
  OBVIOUS
<1>8. answer' = Result(cmd, out, file, budget, overflowed, timedOut, known, stdout, stderr)
  <2>1. answer' = Result(cmd, streams[1], streams[2], ToBudget(params), overflowed, timedOut, literals',
          Shaped(literals', streams[1], Clean(streams[1], Whole(streams[1])), ToBudget(params)),
          Shaped(literals', ErrSource(streams[2], timedOut), ErrText(streams[2], timedOut), ToBudget(params)))
    BY Zenon DEF Exec
  <2> QED
    BY <1>1, <1>2, <1>4, <1>5, <1>6, <1>7, <2>1, Zenon
<1>9. /\ answer'.kind = "result" /\ answer'.out = out /\ answer'.errFile = file /\ answer'.budget = budget
      /\ answer'.overflowed = overflowed /\ answer'.timedOut = timedOut
      /\ answer'.stdout = stdout /\ answer'.stderr = stderr
      /\ answer'.truncated = Truncated(stdout, stderr, overflowed)
  BY <1>8 DEF Result
<1>10. /\ BudgetKept(out, Redact(known, out, T), budget, stdout)
       /\ ~stdout.capped /\ ~(stdout.kept < stdout.total) => AllOf(out, Redact(known, out, T), stdout.text)
  BY <1>2, <1>3, <1>5, <1>7, ShapedIs
<1>11. /\ BudgetKept(src, Redact(known, src, E), budget, stderr)
       /\ ~stderr.capped /\ ~(stderr.kept < stderr.total) => AllOf(src, Redact(known, src, E), stderr.text)
  BY <1>2, <1>3, <1>6, <1>7, ShapedIs
<1>12. BudgetExact'
  BY <1>2, <1>4, <1>5, <1>6, <1>9, <1>10, <1>11, Zenon DEF BudgetExact, AsRedacted
<1>13. WholeUnlessTruncated'
  <2>1. CASE Truncated(stdout, stderr, overflowed)
    BY <1>9, <2>1, Zenon DEF WholeUnlessTruncated
  <2>2. CASE ~Truncated(stdout, stderr, overflowed)
    <3>1. /\ ~overflowed /\ ~stdout.capped /\ ~(stdout.kept < stdout.total)
          /\ ~stderr.capped /\ ~(stderr.kept < stderr.total)
      BY <2>2, Zenon DEF Truncated
    <3>2. AllOf(out, Redact(known, out, T), stdout.text) /\ AllOf(src, Redact(known, src, E), stderr.text)
      BY <1>10, <1>11, <3>1, Zenon
    <3> QED
      BY <1>2, <1>4, <1>5, <1>6, <1>9, <3>1, <3>2, Zenon DEF WholeUnlessTruncated, AsRedacted
  <2> QED
    BY <2>1, <2>2
<1> QED
  BY <1>2, <1>12, <1>13 DEF BudgetInv

LEMMA BudgetStep ==
  ASSUME BudgetInv, [ExecNext]_execVars
  PROVE  BudgetInv'
<1>1. literals \in Seq(Value)
  BY DEF BudgetInv
<1>2. CASE UNCHANGED execVars
  BY <1>2 DEF BudgetInv, BudgetExact, WholeUnlessTruncated, AsRedacted, execVars
<1>3. ASSUME NEW cmd \in Commands, NEW busy \in BOOLEAN, Blocked(cmd, busy) PROVE BudgetInv'
  <2>1. PICK shown : answer' = [kind |-> "blocked", cmd |-> cmd, busy |-> busy, known |-> literals,
                                shown |-> shown]
    BY <1>3, Zenon DEF Blocked
  <2>2. answer'.kind # "result"
    BY <2>1
  <2>3. literals' \in Seq(Value)
    <3>1. literals' = literals
      BY <1>3, Zenon DEF Blocked
    <3> QED
      BY <1>1, <3>1
  <2> QED
    BY <2>2, <2>3, NoResultFits
<1>4. ASSUME NEW cmd \in Commands, NEW params \in Requests,
             UnknownMode(cmd, params) \/ BadGrep(cmd, params) \/ PolicyDenied(cmd, params)
      PROVE  BudgetInv'
  <2>1. Learn(literals, cmd) \in Seq(Value)
    <3>1. cmd \in Seq(Symbols)
      BY ExecAssumed DEF ExecAssumption
    <3> QED
      BY <1>1, <3>1, LearnIs
  <2>2. literals' \in Seq(Value)
    BY <1>1, <1>4, <2>1, Zenon DEF UnknownMode, BadGrep, PolicyDenied
  <2>3. Refused("unknown mode") \/ Refused("bad grep") \/ Refused("denied")
    BY <1>4, Zenon DEF UnknownMode, BadGrep, PolicyDenied
  <2>4. ASSUME NEW kind \in {"unknown mode", "bad grep", "denied"}, Refused(kind) PROVE answer'.kind # "result"
    <3>1. answer'.kind = kind
      BY <2>4 DEF Refused
    <3> QED
      BY <3>1
  <2>5. answer'.kind # "result"
    BY <2>3, <2>4
  <2> QED
    BY <2>2, <2>5, NoResultFits
<1>5. ASSUME NEW cmd \in Commands, NEW params \in Requests, NEW streams \in Streams,
             NEW overflowed \in BOOLEAN, NEW timedOut \in BOOLEAN,
             Exec(cmd, streams[1], streams[2], params, overflowed, timedOut)
      PROVE  BudgetInv'
  BY <1>1, <1>5, ResultFits
<1> QED
  BY <1>2, <1>3, <1>4, <1>5, ZenonT(30) DEF ExecNext

LEMMA BudgetStart == ExecInit => BudgetInv
BY EmptySeq DEF ExecInit, BudgetInv, BudgetExact, WholeUnlessTruncated, NoAnswer

\* A shaped stream shows the lines that the caller's budget asks for, each once and in
\* order, and every gap tells how many are missing: whatever the source, the budget and
\* the values learned, including counts that no usize can hold the sum of.
THEOREM BudgetsKept == ExecSpec => []BudgetExact
<1>1. ExecInit => BudgetInv
  BY BudgetStart
<1>2. BudgetInv /\ [ExecNext]_execVars => BudgetInv'
  BY BudgetStep
<1>3. BudgetInv => BudgetExact
  BY DEF BudgetInv
<1> QED
  BY <1>1, <1>2, <1>3, PTL DEF ExecSpec

\* A result that does not say that it is truncated has both streams to the last
\* redacted character.
THEOREM NothingMissing == ExecSpec => []WholeUnlessTruncated
<1>1. ExecInit => BudgetInv
  BY BudgetStart
<1>2. BudgetInv /\ [ExecNext]_execVars => BudgetInv'
  BY BudgetStep
<1>3. BudgetInv => WholeUnlessTruncated
  BY DEF BudgetInv
<1> QED
  BY <1>1, <1>2, <1>3, PTL DEF ExecSpec
=============================================================================
