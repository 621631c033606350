------------------------- MODULE SbfMessagesProofs -------------------------
(***************************************************************************)
(* Proofs about SbfMessages, for any number of publishers, batches,        *)
(* subscriptions, messages and losses, any sizes, and both handlers.       *)
(*                                                                         *)
(* Types is the type invariant made inductive.  The other invariants are   *)
(* about headers on their way from a sender to the event thread, wherever  *)
(* they are (a job, a batch, the wire, the input): Stream is the sequence  *)
(* of them without packet boundaries, and Steps what an action does to it. *)
(***************************************************************************)
EXTENDS SbfMessages, FiniteSetTheorems, SequenceTheorems, WellFoundedInduction, TLAPS
-----------------------------------------------------------------------------
(* Sequences and packets. *)

\* Induction over the naturals: a set with 0 and all successors has them all.
LEMMA NatSets ==
  ASSUME NEW T \in SUBSET Nat, 0 \in T, \A n \in T : n + 1 \in T
  PROVE  T = Nat
<1> DEFINE S == Nat \ T
<1>1. SUFFICES ASSUME S # {} PROVE FALSE
  OBVIOUS
<1>2. IsWellFoundedOn(OpToRel(<, Nat), Nat)
  BY NatLessThanWellFounded
<1> DEFINE R == OpToRel(<, Nat)
<1>3. \A m, n \in Nat : <<m, n>> \in R <=> m < n
  BY DEF OpToRel
<1> HIDE DEF R
<1>4. PICK x \in S : \A y \in S : <<y, x>> \notin R
  BY <1>1, <1>2, WFMin DEF R
<1>5. x # 0 /\ x \in Nat
  BY <1>4
<1>6. x - 1 \in Nat /\ <<x - 1, x>> \in R
  BY <1>3, <1>5
<1>7. x - 1 \in T
  BY <1>4, <1>6
<1> QED BY <1>4, <1>5, <1>7

\* What matters of a header wherever it is: all but the end of its packet.
Core(h) == [msg |-> h.msg, from |-> h.from, size |-> h.size, fragNum |-> h.fragNum,
            lastFragment |-> h.lastFragment]
CoreSet == [msg : Messages, from : Nat, size : Nat, fragNum : Nat, lastFragment : BOOLEAN]
Cores(s) == [k \in 1..Len(s) |-> Core(s[k])]

\* F has the headers of packets ps one after the other, those of ps[i] after off[i - 1].
FlatBy(F, ps, off) ==
  /\ off \in [0..Len(ps) -> Nat]
  /\ off[0] = 0 /\ off[Len(ps)] = Len(F)
  /\ \A i, j \in 0..Len(ps) : i <= j => off[i] <= off[j]
  /\ \A i \in 1..Len(ps) :
       /\ off[i] = off[i - 1] + Len(ps[i])
       /\ \A k \in 1..Len(ps[i]) : F[off[i - 1] + k] = Core(ps[i][k])

IsFlat(F, ps) == F \in Seq(CoreSet) /\ \E off : FlatBy(F, ps, off)

\* What Core keeps of a header.
LEMMA CoreType ==
  ASSUME NEW h \in Headers
  PROVE  /\ Core(h) \in CoreSet
         /\ Core(h).msg = h.msg /\ Core(h).from = h.from /\ Core(h).size = h.size
         /\ Core(h).fragNum = h.fragNum /\ Core(h).lastFragment = h.lastFragment
BY DEF Core, CoreSet, Headers

\* Cores, header by header.
LEMMA CoresType ==
  ASSUME NEW s \in Seq(Headers)
  PROVE  /\ Cores(s) \in Seq(CoreSet) /\ Len(Cores(s)) = Len(s)
         /\ \A k \in 1..Len(s) : Cores(s)[k] = Core(s[k])
<1>1. Len(s) \in Nat /\ \A k \in 1..Len(s) : s[k] \in Headers
  OBVIOUS
<1>2. \A k \in 1..Len(s) : Core(s[k]) \in CoreSet
  BY <1>1, CoreType
<1> QED BY <1>1, <1>2 DEF Cores

\* Of no headers there are none.
LEMMA CoresEmpty == Cores(<< >>) = << >>
BY DEF Cores

\* One sequence after another, by position.
LEMMA ConcatIs ==
  ASSUME NEW S, NEW a \in Seq(S), NEW b \in Seq(S), NEW c, c = a \o b,
         NEW m \in Nat, m = Len(a), NEW n \in Nat, n = Len(b)
  PROVE  /\ c \in Seq(S) /\ Len(c) = m + n
         /\ \A i \in 1..m : c[i] = a[i]
         /\ \A i \in 1..n : c[m + i] = b[i]
<1>1. /\ c \in Seq(S) /\ Len(c) = m + n
      /\ \A i \in 1..(m + n) : c[i] = IF i <= m THEN a[i] ELSE b[i - m]
  BY ConcatProperties
<1>2. \A i \in 1..m : c[i] = a[i]
  BY <1>1
<1>3. ASSUME NEW i \in 1..n PROVE c[m + i] = b[i]
  <2>1. m + i \in 1..(m + n) /\ ~(m + i <= m) /\ (m + i) - m = i
    OBVIOUS
  <2> QED BY <1>1, <2>1
<1> QED BY <1>1, <1>2, <1>3

\* Cores of one sequence after another.
LEMMA CoresConcat ==
  ASSUME NEW s \in Seq(Headers), NEW t \in Seq(Headers)
  PROVE  Cores(s \o t) = Cores(s) \o Cores(t)
<1>1. PICK u : u = s \o t
  OBVIOUS
<1>2. PICK m \in Nat : m = Len(s)
  OBVIOUS
<1>3. PICK n \in Nat : n = Len(t)
  OBVIOUS
<1>4. /\ u \in Seq(Headers) /\ Len(u) = m + n
      /\ \A k \in 1..m : u[k] = s[k]
      /\ \A k \in 1..n : u[m + k] = t[k]
  BY <1>1, <1>2, <1>3
<1>5. PICK a : a = Cores(s)
  OBVIOUS
<1>6. PICK b : b = Cores(t)
  OBVIOUS
<1>7. PICK c : c = Cores(u)
  OBVIOUS
<1>8. a \in Seq(CoreSet) /\ Len(a) = m /\ \A k \in 1..m : a[k] = Core(s[k])
  BY <1>2, <1>5, CoresType
<1>9. b \in Seq(CoreSet) /\ Len(b) = n /\ \A k \in 1..n : b[k] = Core(t[k])
  BY <1>3, <1>6, CoresType
<1>10. c \in Seq(CoreSet) /\ Len(c) = m + n /\ \A k \in 1..(m + n) : c[k] = Core(u[k])
  BY <1>4, <1>7, CoresType
<1>11. PICK d : d = a \o b
  OBVIOUS
<1>12. /\ d \in Seq(CoreSet) /\ Len(d) = m + n
       /\ \A k \in 1..m : d[k] = a[k]
       /\ \A k \in 1..n : d[m + k] = b[k]
  <2>1. a \in Seq(CoreSet) /\ b \in Seq(CoreSet) /\ m = Len(a) /\ n = Len(b)
    BY <1>8, <1>9
  <2> QED BY <1>11, <2>1, ConcatIs
<1>13. ASSUME NEW k \in 1..(m + n) PROVE c[k] = d[k]
  <2>1. CASE k <= m
    BY <1>4, <1>8, <1>10, <1>12, <2>1
  <2>2. CASE k > m
    <3>1. PICK l \in 1..n : k = m + l
      <4>1. k - m \in 1..n /\ k = m + (k - m)
        BY <2>2
      <4> QED BY <4>1
    <3> QED BY <1>4, <1>9, <1>10, <1>12, <3>1
  <2> QED BY <2>1, <2>2
<1> QED BY <1>1, <1>5, <1>6, <1>7, <1>10, <1>11, <1>12, <1>13, SeqEqual

\* It does not matter which of three sequences are joined first.
LEMMA CoreAssoc ==
  ASSUME NEW a \in Seq(CoreSet), NEW b \in Seq(CoreSet), NEW c \in Seq(CoreSet)
  PROVE  (a \o b) \o c = a \o (b \o c)
BY ConcatAssociative

\* Cores of one header.
LEMMA CoresOne ==
  ASSUME NEW h \in Headers
  PROVE  Cores(<<h>>) = <<Core(h)>>
BY DEF Cores

\* No packets have no headers.
LEMMA FlatEmpty == IsFlat(<< >>, << >>)
<1>1. PICK off : off = [i \in 0..0 |-> 0]
  OBVIOUS
<1>2. FlatBy(<< >>, << >>, off)
  BY <1>1 DEF FlatBy
<1> QED BY <1>2 DEF IsFlat

\* The headers of one packet.
LEMMA FlatOne ==
  ASSUME NEW x \in Seq(Headers)
  PROVE  IsFlat(Cores(x), <<x>>)
<1>1. PICK off : off = [i \in 0..1 |-> IF i = 0 THEN 0 ELSE Len(x)]
  OBVIOUS
<1>2. Cores(x) \in Seq(CoreSet) /\ Len(Cores(x)) = Len(x) /\ Len(x) \in Nat
  BY CoresType
<1>3. Len(<<x>>) = 1 /\ <<x>>[1] = x
  OBVIOUS
<1>4. /\ off \in [0..1 -> Nat] /\ off[0] = 0 /\ off[1] = Len(x)
      /\ \A i, j \in 0..1 : i <= j => off[i] <= off[j]
  BY <1>1, <1>2
<1>5. \A k \in 1..Len(x) : Cores(x)[0 + k] = Core(x[k])
  BY <1>2, CoresType
<1>6. \A i \in 1..1 : /\ off[i] = off[i - 1] + Len(<<x>>[i])
                      /\ \A k \in 1..Len(<<x>>[i]) : Cores(x)[off[i - 1] + k] = Core(<<x>>[i][k])
  <2> SUFFICES ASSUME NEW i \in 1..1
               PROVE  /\ off[i] = off[i - 1] + Len(<<x>>[i])
                      /\ \A k \in 1..Len(<<x>>[i]) : Cores(x)[off[i - 1] + k] = Core(<<x>>[i][k])
    OBVIOUS
  <2>1. i = 1 /\ i - 1 = 0 /\ <<x>>[i] = x
    BY <1>3
  <2> QED BY <1>2, <1>4, <1>5, <2>1
<1>7. FlatBy(Cores(x), <<x>>, off)
  BY <1>2, <1>3, <1>4, <1>6 DEF FlatBy
<1> QED BY <1>2, <1>7 DEF IsFlat

\* The headers of packets after others.
LEMMA FlatConcat ==
  ASSUME NEW A \in Seq(Seq(Headers)), NEW B \in Seq(Seq(Headers)), NEW F, NEW G,
         IsFlat(F, A), IsFlat(G, B)
  PROVE  IsFlat(F \o G, A \o B)
<1>1. F \in Seq(CoreSet) /\ G \in Seq(CoreSet)
  BY DEF IsFlat
<1>2. PICK a \in Nat : a = Len(A)
  OBVIOUS
<1>3. PICK b \in Nat : b = Len(B)
  OBVIOUS
<1>4. PICK p \in Nat : p = Len(F)
  BY <1>1
<1>5. PICK q \in Nat : q = Len(G)
  BY <1>1
<1>6. PICK f : FlatBy(F, A, f)
  BY DEF IsFlat
<1>7. PICK g : FlatBy(G, B, g)
  BY DEF IsFlat
<1>8. PICK C : C = A \o B
  OBVIOUS
<1>9. /\ Len(C) = a + b /\ \A i \in 1..a : C[i] = A[i]
      /\ \A i \in 1..b : C[a + i] = B[i]
  BY <1>2, <1>3, <1>8
<1>10. PICK H : H = F \o G
  OBVIOUS
<1>11. /\ H \in Seq(CoreSet) /\ Len(H) = p + q
       /\ \A i \in 1..p : H[i] = F[i]
       /\ \A i \in 1..q : H[p + i] = G[i]
  BY <1>1, <1>4, <1>5, <1>10
<1>12. /\ f \in [0..a -> Nat] /\ f[0] = 0 /\ f[a] = p
       /\ \A i, j \in 0..a : i <= j => f[i] <= f[j]
       /\ \A i \in 1..a : /\ f[i] = f[i - 1] + Len(A[i])
                          /\ \A k \in 1..Len(A[i]) : F[f[i - 1] + k] = Core(A[i][k])
  BY <1>2, <1>4, <1>6 DEF FlatBy
<1>13. /\ g \in [0..b -> Nat] /\ g[0] = 0 /\ g[b] = q
       /\ \A i, j \in 0..b : i <= j => g[i] <= g[j]
       /\ \A i \in 1..b : /\ g[i] = g[i - 1] + Len(B[i])
                          /\ \A k \in 1..Len(B[i]) : G[g[i - 1] + k] = Core(B[i][k])
  BY <1>3, <1>5, <1>7 DEF FlatBy
<1>14. PICK off : off = [i \in 0..(a + b) |-> IF i <= a THEN f[i] ELSE p + g[i - a]]
  OBVIOUS
<1>15. ASSUME NEW i \in 0..a PROVE off[i] = f[i] /\ f[i] \in Nat /\ f[i] <= p
  <2>1. i \in 0..(a + b) /\ a \in 0..a /\ i <= a
    OBVIOUS
  <2> QED BY <1>12, <1>14, <2>1
<1>16. ASSUME NEW i \in 0..b PROVE off[a + i] = p + g[i] /\ g[i] \in Nat /\ g[i] <= q
  <2>1. g[i] \in Nat /\ g[i] <= q
    <3>1. b \in 0..b /\ i <= b
      OBVIOUS
    <3> QED BY <1>13, <3>1
  <2>2. CASE i = 0
    <3>1. a + i = a /\ a \in 0..a
      BY <2>2
    <3>2. off[a] = f[a]
      BY <1>15, <3>1
    <3> QED BY <1>12, <1>13, <2>1, <2>2, <3>1, <3>2
  <2>3. CASE i # 0
    <3>1. ~(a + i <= a) /\ a + i \in 0..(a + b) /\ (a + i) - a = i
      BY <2>3
    <3> QED BY <1>14, <2>1, <3>1
  <2> QED BY <2>2, <2>3
<1>17. \A i \in 0..(a + b) : i > a => i - a \in 1..b /\ a + (i - a) = i
  OBVIOUS
<1>18. off \in [0..(a + b) -> Nat]
  <2>1. ASSUME NEW i \in 0..(a + b) PROVE off[i] \in Nat
    <3>1. CASE i <= a
      <4>1. i \in 0..a
        BY <3>1
      <4> QED BY <1>15, <4>1
    <3>2. CASE i > a
      <4>1. PICK k \in 0..b : a + k = i
        BY <1>17, <3>2
      <4>2. off[i] = p + g[k] /\ g[k] \in Nat
        BY <1>16, <4>1
      <4> QED BY <4>2
    <3> QED BY <3>1, <3>2
  <2> QED BY <1>14, <2>1
<1>19. off[0] = 0 /\ off[a + b] = p + q
  <2>1. 0 \in 0..a /\ b \in 0..b
    OBVIOUS
  <2> QED BY <1>12, <1>13, <1>15, <1>16, <2>1
<1>20. ASSUME NEW i \in 0..(a + b), NEW j \in 0..(a + b), i <= j PROVE off[i] <= off[j]
  <2>1. CASE j <= a
    <3>1. i \in 0..a /\ j \in 0..a
      BY <1>20, <2>1
    <3> QED BY <1>12, <1>15, <1>20, <3>1
  <2>2. CASE i <= a /\ j > a
    <3>1. PICK k \in 0..b : a + k = j
      BY <1>17, <2>2
    <3>2. i \in 0..a
      BY <2>2
    <3>3. off[i] <= p /\ off[i] \in Nat
      BY <1>15, <3>2
    <3>4. off[j] = p + g[k] /\ g[k] \in Nat
      BY <1>16, <3>1
    <3> QED BY <3>3, <3>4
  <2>3. CASE i > a
    <3>1. PICK k \in 0..b : a + k = i
      BY <1>17, <2>3
    <3>2. j > a
      BY <1>20, <2>3
    <3>3. PICK l \in 0..b : a + l = j
      BY <1>17, <3>2
    <3>4. k <= l
      BY <1>20, <3>1, <3>3
    <3>5. off[i] = p + g[k] /\ off[j] = p + g[l] /\ g[k] \in Nat /\ g[l] \in Nat
      BY <1>16, <3>1, <3>3
    <3>6. g[k] <= g[l]
      BY <1>13, <3>4
    <3> QED BY <3>5, <3>6
  <2> QED BY <2>1, <2>2, <2>3
<1>21. ASSUME NEW i \in 1..(a + b)
       PROVE  /\ off[i] = off[i - 1] + Len(C[i])
              /\ \A k \in 1..Len(C[i]) : H[off[i - 1] + k] = Core(C[i][k])
  <2>1. CASE i <= a
    <3>1. i \in 1..a /\ i - 1 \in 0..a /\ i \in 0..a
      BY <2>1
    <3>2. PICK x : x = A[i]
      OBVIOUS
    <3>3. x \in Seq(Headers) /\ C[i] = x /\ Len(x) \in Nat
      BY <1>2, <1>9, <3>1, <3>2
    <3>4. PICK m \in Nat : m = f[i - 1] /\ off[i - 1] = m
      BY <1>15, <3>1
    <3>5. off[i] = m + Len(x) /\ m + Len(x) <= p
      BY <1>12, <1>15, <3>1, <3>2, <3>4
    <3>6. ASSUME NEW k \in 1..Len(x) PROVE H[m + k] = Core(x[k])
      <4>1. m + k \in 1..p
        BY <3>3, <3>5
      <4>2. F[m + k] = Core(x[k])
        BY <1>12, <3>1, <3>2, <3>4
      <4> QED BY <1>11, <4>1, <4>2
    <3> QED BY <3>3, <3>4, <3>5, <3>6
  <2>2. CASE i > a
    <3>1. PICK l \in 1..b : a + l = i
      BY <1>17, <2>2
    <3>2. l - 1 \in 0..b /\ l \in 0..b /\ a + (l - 1) = i - 1
      BY <3>1
    <3>3. PICK x : x = B[l]
      OBVIOUS
    <3>4. x \in Seq(Headers) /\ C[i] = x /\ Len(x) \in Nat
      BY <1>3, <1>9, <3>1, <3>3
    <3>5. PICK m \in Nat : m = g[l - 1] /\ off[i - 1] = p + m
      BY <1>16, <3>2
    <3>6. g[l] = m + Len(x) /\ off[i] = p + g[l] /\ g[l] <= q
      BY <1>13, <1>16, <3>1, <3>2, <3>3, <3>5
    <3>7. off[i] = (p + m) + Len(x) /\ m + Len(x) <= q
      BY <3>4, <3>6
    <3>8. ASSUME NEW k \in 1..Len(x) PROVE H[(p + m) + k] = Core(x[k])
      <4>1. m + k \in 1..q /\ p + (m + k) = (p + m) + k
        BY <3>4, <3>7
      <4>2. G[m + k] = Core(x[k])
        BY <1>13, <3>1, <3>3, <3>5
      <4> QED BY <1>11, <4>1, <4>2
    <3> QED BY <3>4, <3>5, <3>7, <3>8
  <2> QED BY <2>1, <2>2
<1>22. FlatBy(H, C, off)
  BY <1>9, <1>11, <1>18, <1>19, <1>20, <1>21 DEF FlatBy
<1> QED BY <1>8, <1>10, <1>11, <1>22 DEF IsFlat

\* The headers of the first n packets and of the others.
LEMMA FlatSplit ==
  ASSUME NEW ps \in Seq(Seq(Headers)), NEW F, IsFlat(F, ps), NEW n \in 0..Len(ps)
  PROVE  \E G, H : /\ G \in Seq(CoreSet) /\ H \in Seq(CoreSet) /\ F = G \o H
                   /\ IsFlat(G, SubSeq(ps, 1, n))
                   /\ IsFlat(H, SubSeq(ps, n + 1, Len(ps)))
<1>1. F \in Seq(CoreSet)
  BY DEF IsFlat
<1>2. PICK z \in Nat : z = Len(ps)
  OBVIOUS
<1>3. PICK p \in Nat : p = Len(F)
  BY <1>1
<1>4. n \in Nat /\ n <= z /\ n \in 0..z
  BY <1>2
<1>5. PICK r \in Nat : n + r = z
  <2>1. z - n \in Nat /\ n + (z - n) = z
    BY <1>4
  <2> QED BY <2>1
<1>6. PICK f : FlatBy(F, ps, f)
  BY DEF IsFlat
<1>7. /\ f \in [0..z -> Nat] /\ f[0] = 0 /\ f[z] = p
      /\ \A i, j \in 0..z : i <= j => f[i] <= f[j]
      /\ \A i \in 1..z : /\ f[i] = f[i - 1] + Len(ps[i])
                         /\ \A k \in 1..Len(ps[i]) : F[f[i - 1] + k] = Core(ps[i][k])
  BY <1>2, <1>3, <1>6 DEF FlatBy
<1>8. PICK m \in Nat : m = f[n]
  BY <1>4, <1>7
<1>9. PICK q \in Nat : m + q = p
  <2>1. m <= p
    <3>1. z \in 0..z
      OBVIOUS
    <3> QED BY <1>4, <1>7, <1>8, <3>1
  <2>2. p - m \in Nat /\ m + (p - m) = p
    BY <2>1
  <2> QED BY <2>2
<1>10. PICK G : G = SubSeq(F, 1, m)
  OBVIOUS
<1>11. PICK H : H = SubSeq(F, m + 1, p)
  OBVIOUS
<1>12. G \in Seq(CoreSet) /\ Len(G) = m /\ \A i \in 1..m : G[i] = F[i]
  <2>1. m <= Len(F)
    BY <1>3, <1>9
  <2> QED BY <1>1, <1>10, <2>1
<1>13. H \in Seq(CoreSet) /\ Len(H) = q /\ \A i \in 1..q : H[i] = F[m + i]
  <2>1. \A i \in (m + 1)..p : F[i] \in CoreSet
    BY <1>1, <1>3
  <2>2. Len(H) = q
    BY <1>9, <1>11, <2>1, SubSeqProperties
  <2>3. H \in Seq(CoreSet)
    BY <1>11, <2>1, SubSeqProperties
  <2>4. ASSUME NEW i \in 1..q PROVE H[i] = F[m + i]
    <3>1. i \in 1..(p - (m + 1) + 1) /\ (m + 1) + i - 1 = m + i
      BY <1>9
    <3>2. H[i] = F[(m + 1) + i - 1]
      BY <1>11, <2>1, <3>1, SubSeqProperties
    <3> QED BY <3>1, <3>2
  <2> QED BY <2>2, <2>3, <2>4
<1>14. F = G \o H
  <2>1. PICK E : E = G \o H
    OBVIOUS
  <2>2. /\ E \in Seq(CoreSet) /\ Len(E) = p
        /\ \A i \in 1..m : E[i] = F[i]
        /\ \A i \in 1..q : E[m + i] = H[i]
    <3>1. /\ E \in Seq(CoreSet) /\ Len(E) = m + q
          /\ \A i \in 1..m : E[i] = G[i]
          /\ \A i \in 1..q : E[m + i] = H[i]
      <4>1. G \in Seq(CoreSet) /\ H \in Seq(CoreSet) /\ m = Len(G) /\ q = Len(H)
        BY <1>12, <1>13
      <4> QED BY <2>1, <4>1, ConcatIs
    <3> QED BY <1>9, <1>12, <3>1
  <2>3. ASSUME NEW i \in 1..p PROVE E[i] = F[i]
    <3>1. CASE i <= m
      BY <2>2, <3>1
    <3>2. CASE i > m
      <4>1. i - m \in 1..q /\ m + (i - m) = i
        BY <1>9, <3>2
      <4> QED BY <1>13, <2>2, <4>1
    <3> QED BY <3>1, <3>2
  <2> QED BY <1>1, <1>3, <2>1, <2>2, <2>3, SeqEqual
<1>15. PICK A : A = SubSeq(ps, 1, n)
  OBVIOUS
<1>16. PICK B : B = SubSeq(ps, n + 1, z)
  OBVIOUS
<1>17. Len(A) = n /\ \A i \in 1..n : A[i] = ps[i]
  BY <1>2, <1>4, <1>15
<1>18. Len(B) = r /\ \A i \in 1..r : B[i] = ps[n + i]
  <2>1. \A i \in (n + 1)..z : ps[i] \in Seq(Headers)
    BY <1>2, <1>4
  <2>2. Len(B) = r
    BY <1>4, <1>5, <1>16, <2>1, SubSeqProperties
  <2>3. ASSUME NEW i \in 1..r PROVE B[i] = ps[n + i]
    <3>1. i \in 1..(z - (n + 1) + 1) /\ (n + 1) + i - 1 = n + i
      BY <1>4, <1>5
    <3>2. B[i] = ps[(n + 1) + i - 1]
      BY <1>4, <1>16, <2>1, <3>1, SubSeqProperties
    <3> QED BY <3>1, <3>2
  <2> QED BY <2>2, <2>3
<1>19. IsFlat(G, A)
  <2>1. PICK a : a = [i \in 0..n |-> f[i]]
    OBVIOUS
  <2>2. ASSUME NEW i \in 0..n PROVE a[i] = f[i] /\ f[i] \in Nat /\ f[i] <= m
    <3>1. i \in 0..z /\ n \in 0..z /\ i <= n
      BY <1>4
    <3> QED BY <1>7, <1>8, <2>1, <3>1
  <2>3. a \in [0..n -> Nat] /\ a[0] = 0 /\ a[n] = m
    <3>1. 0 \in 0..n /\ n \in 0..n
      BY <1>4
    <3> QED BY <1>7, <1>8, <2>1, <2>2, <3>1
  <2>4. ASSUME NEW i \in 0..n, NEW j \in 0..n, i <= j PROVE a[i] <= a[j]
    <3>1. i \in 0..z /\ j \in 0..z
      BY <1>4
    <3> QED BY <1>7, <2>2, <2>4, <3>1
  <2>5. ASSUME NEW i \in 1..n
        PROVE  /\ a[i] = a[i - 1] + Len(A[i])
               /\ \A k \in 1..Len(A[i]) : G[a[i - 1] + k] = Core(A[i][k])
    <3>1. i \in 1..z /\ i \in 0..n /\ i - 1 \in 0..n
      BY <1>4
    <3>2. PICK x : x = ps[i]
      OBVIOUS
    <3>3. x \in Seq(Headers) /\ A[i] = x /\ Len(x) \in Nat
      BY <1>2, <1>17, <3>1, <3>2
    <3>4. PICK b \in Nat : b = f[i - 1] /\ a[i - 1] = b
      BY <2>2, <3>1
    <3>5. a[i] = b + Len(x) /\ b + Len(x) <= m
      BY <1>7, <2>2, <3>1, <3>2, <3>4
    <3>6. ASSUME NEW k \in 1..Len(x) PROVE G[b + k] = Core(x[k])
      <4>1. b + k \in 1..m
        BY <3>3, <3>5
      <4>2. F[b + k] = Core(x[k])
        BY <1>7, <3>1, <3>2, <3>4
      <4> QED BY <1>12, <4>1, <4>2
    <3> QED BY <3>3, <3>4, <3>5, <3>6
  <2>6. FlatBy(G, A, a)
    BY <1>12, <1>17, <2>3, <2>4, <2>5 DEF FlatBy
  <2> QED BY <1>12, <2>6 DEF IsFlat
<1>20. IsFlat(H, B)
  <2>1. PICK b : b = [i \in 0..r |-> f[n + i] - m]
    OBVIOUS
  <2>2. ASSUME NEW i \in 0..r
        PROVE  /\ n + i \in 0..z /\ f[n + i] \in Nat /\ m <= f[n + i] /\ f[n + i] <= p
               /\ b[i] = f[n + i] - m
    <3>1. n + i \in 0..z /\ z \in 0..z /\ n <= n + i /\ n + i <= z
      BY <1>4, <1>5
    <3> QED BY <1>4, <1>7, <1>8, <2>1, <3>1
  <2>3. b \in [0..r -> Nat] /\ b[0] = 0 /\ b[r] = q
    <3>1. ASSUME NEW i \in 0..r PROVE b[i] \in Nat
      <4>1. PICK w \in Nat : w = f[n + i] /\ m <= w /\ b[i] = w - m
        BY <2>2
      <4> QED BY <4>1
    <3>2. 0 \in 0..r /\ r \in 0..r /\ n + 0 = n /\ n + r = z
      BY <1>4, <1>5
    <3>3. b[0] = f[n + 0] - m /\ b[r] = f[n + r] - m
      BY <2>2, <3>2
    <3>4. f[n + 0] = m /\ f[n + r] = p
      BY <1>7, <1>8, <3>2
    <3>5. b[0] = m - m /\ b[r] = p - m
      BY <3>3, <3>4
    <3>6. b[0] = 0 /\ b[r] = q
      BY <1>9, <3>5
    <3> QED BY <2>1, <3>1, <3>6
  <2>4. ASSUME NEW i \in 0..r, NEW j \in 0..r, i <= j PROVE b[i] <= b[j]
    <3>1. n + i \in 0..z /\ n + j \in 0..z /\ n + i <= n + j
      BY <1>4, <1>5, <2>4
    <3>2. f[n + i] <= f[n + j]
      BY <1>7, <3>1
    <3>3. PICK v \in Nat : v = f[n + i] /\ b[i] = v - m
      BY <2>2
    <3>4. PICK w \in Nat : w = f[n + j] /\ b[j] = w - m
      BY <2>2
    <3> QED BY <3>2, <3>3, <3>4
  <2>5. ASSUME NEW i \in 1..r
        PROVE  /\ b[i] = b[i - 1] + Len(B[i])
               /\ \A k \in 1..Len(B[i]) : H[b[i - 1] + k] = Core(B[i][k])
    <3>1. i \in 0..r /\ i - 1 \in 0..r /\ n + i \in 1..z /\ (n + i) - 1 = n + (i - 1)
      BY <1>4, <1>5
    <3>2. PICK x : x = ps[n + i]
      OBVIOUS
    <3>3. x \in Seq(Headers) /\ B[i] = x /\ Len(x) \in Nat
      BY <1>2, <1>18, <3>1, <3>2
    <3>4. PICK v \in Nat : v = f[n + (i - 1)] /\ m <= v /\ b[i - 1] = v - m
      BY <2>2, <3>1
    <3>5. PICK w \in Nat : w = f[n + i] /\ w <= p /\ b[i] = w - m
      BY <2>2, <3>1
    <3>6. w = v + Len(x) /\ \A k \in 1..Len(x) : F[v + k] = Core(x[k])
      BY <1>7, <3>1, <3>2, <3>4, <3>5
    <3>7. b[i] = b[i - 1] + Len(x)
      BY <3>3, <3>4, <3>5, <3>6
    <3>8. ASSUME NEW k \in 1..Len(x) PROVE H[b[i - 1] + k] = Core(x[k])
      <4>1. PICK y \in Nat : y = Len(x) /\ k \in 1..y /\ v + y = w
        BY <3>3, <3>6
      <4>2. v + k <= p /\ v + k > m
        <5>1. m <= v /\ w <= p /\ v + y = w
          BY <3>4, <3>5, <4>1
        <5>2. PICK j \in 1..y : j = k
          BY <4>1
        <5>3. v + j <= p /\ v + j > m
          BY <5>1
        <5> QED BY <5>2, <5>3
      <4>3. (v - m) + k \in 1..q /\ m + ((v - m) + k) = v + k
        BY <1>9, <4>1, <4>2
      <4>4. PICK e \in 1..q : e = (v - m) + k
        BY <4>3
      <4>5. H[e] = F[m + e]
        BY <1>13
      <4>6. m + e = v + k /\ b[i - 1] + k = e
        BY <3>4, <4>3, <4>4
      <4>7. F[v + k] = Core(x[k])
        BY <3>6
      <4>8. H[e] = Core(x[k])
        BY <4>5, <4>6, <4>7
      <4> QED BY <4>6, <4>8
    <3> QED BY <3>3, <3>7, <3>8
  <2>6. FlatBy(H, B, b)
    BY <1>13, <1>18, <2>3, <2>4, <2>5 DEF FlatBy
  <2> QED BY <1>13, <2>6 DEF IsFlat
<1> QED BY <1>2, <1>12, <1>13, <1>14, <1>15, <1>16, <1>19, <1>20

-----------------------------------------------------------------------------
(* The bytes in a packet, the fragments of a message. *)

\* h is a solution of the recursion that computes Used of a packet w of n headers.
Adds(h, w, n) ==
  h = [s \in SUBSET (1..n) |-> IF s = {} THEN 0 ELSE h[s \ {Max(s)}] + HeaderSize + w[Max(s)].size]

\* The recursion has a solution.
LEMMA AddsExists ==
  ASSUME NEW n \in Nat, NEW w
  PROVE  \E h : Adds(h, w, n)
<1>1. PICK T : T = {k \in Nat : \E h : Adds(h, w, k)}
  OBVIOUS
<1>2. 0 \in T
  <2>1. PICK h : h = [s \in SUBSET (1..0) |-> 0]
    OBVIOUS
  <2>2. \A s \in SUBSET (1..0) : s = {}
    OBVIOUS
  <2>3. Adds(h, w, 0)
    BY <2>1, <2>2 DEF Adds
  <2> QED BY <1>1, <2>3
<1>3. ASSUME NEW k \in T PROVE k + 1 \in T
  <2>0. k \in Nat
    BY <1>1
  <2>1. PICK g : Adds(g, w, k)
    BY <1>1
  <2>2. PICK h : h = [s \in SUBSET (1..(k + 1)) |->
                        IF k + 1 \in s THEN g[s \ {k + 1}] + HeaderSize + w[k + 1].size ELSE g[s]]
    OBVIOUS
  <2>3. ASSUME NEW s \in SUBSET (1..(k + 1))
        PROVE  h[s] = IF s = {} THEN 0 ELSE h[s \ {Max(s)}] + HeaderSize + w[Max(s)].size
    <3>1. CASE k + 1 \in s
      <4>1. Max(s) = k + 1
        <5>1. k + 1 \in s /\ \A y \in s : k + 1 >= y
          BY <2>0, <3>1
        <5>2. ASSUME NEW x \in s, \A y \in s : x >= y PROVE x = k + 1
          BY <2>0, <3>1, <5>2
        <5> QED BY <5>1, <5>2 DEF Max
      <4>2. PICK r : r = s \ {k + 1}
        OBVIOUS
      <4>3. r \in SUBSET (1..(k + 1)) /\ k + 1 \notin r
        BY <4>2
      <4>4. h[r] = g[r]
        BY <2>2, <4>3
      <4>5. h[s] = g[r] + HeaderSize + w[k + 1].size
        BY <2>2, <3>1, <4>2
      <4> QED BY <3>1, <4>1, <4>2, <4>4, <4>5
    <3>2. CASE k + 1 \notin s
      <4>1. s \in SUBSET (1..k)
        BY <2>0, <3>2
      <4>2. h[s] = g[s]
        BY <2>2, <3>2
      <4>3. g[s] = IF s = {} THEN 0 ELSE g[s \ {Max(s)}] + HeaderSize + w[Max(s)].size
        BY <2>1, <4>1 DEF Adds
      <4>4. PICK r : r = s \ {Max(s)}
        OBVIOUS
      <4>5. r \in SUBSET (1..(k + 1)) /\ k + 1 \notin r
        BY <3>2, <4>4
      <4>6. h[r] = g[r]
        BY <2>2, <4>5
      <4> QED BY <4>2, <4>3, <4>4, <4>6
    <3> QED BY <3>1, <3>2
  <2>4. h = [s \in SUBSET (1..(k + 1)) |-> h[s]]
    BY <2>2
  <2>5. Adds(h, w, k + 1)
    BY <2>3, <2>4 DEF Adds
  <2> QED BY <1>1, <2>0, <2>5
<1>4. T = Nat
  BY <1>1, <1>2, <1>3, NatSets
<1> QED BY <1>1, <1>4

\* It adds naturals to a natural.
LEMMA AddsNat ==
  ASSUME NEW n \in Nat, NEW w, \A i \in 1..n : w[i].size \in Nat, NEW h, Adds(h, w, n)
  PROVE  h[1..n] \in Nat /\ (n = 0 => h[1..n] = 0)
<1>1. PICK T : T = {k \in Nat : k <= n => h[1..k] \in Nat}
  OBVIOUS
<1>2. h[{}] = 0 /\ 1..0 = {}
  BY DEF Adds
<1>3. 0 \in T
  BY <1>1, <1>2
<1>4. ASSUME NEW k \in T PROVE k + 1 \in T
  <2>0. k \in Nat
    BY <1>1
  <2> SUFFICES ASSUME k + 1 <= n PROVE h[1..(k + 1)] \in Nat
    BY <1>1, <2>0
  <2>1. PICK s : s = 1..(k + 1)
    OBVIOUS
  <2>2. s \in SUBSET (1..n) /\ s # {} /\ k + 1 \in s
    BY <2>0, <2>1
  <2>3. Max(s) = k + 1
    <3>1. \A y \in s : k + 1 >= y
      BY <2>0, <2>1
    <3>2. ASSUME NEW x \in s, \A y \in s : x >= y PROVE x = k + 1
      BY <2>0, <2>1, <2>2, <3>2
    <3> QED BY <2>2, <3>1, <3>2 DEF Max
  <2>4. s \ {k + 1} = 1..k
    BY <2>0, <2>1
  <2>5. h[s] = h[1..k] + HeaderSize + w[k + 1].size
    BY <2>2, <2>3, <2>4 DEF Adds
  <2>6. h[1..k] \in Nat
    BY <1>1, <2>0
  <2>7. w[k + 1].size \in Nat /\ HeaderSize \in Nat
    BY <2>0, MessagesAssumption
  <2> QED BY <2>1, <2>5, <2>6, <2>7
<1>5. T = Nat
  BY <1>1, <1>3, <1>4, NatSets
<1> QED BY <1>1, <1>2, <1>5

\* The fields of a header.
LEMMA HeaderType ==
  ASSUME NEW h \in Headers
  PROVE  /\ h.msg \in Messages /\ h.from \in Nat /\ h.size \in Nat /\ h.fragNum \in Nat
         /\ h.lastInPacket \in BOOLEAN /\ h.lastFragment \in BOOLEAN
BY DEF Headers

\* The bytes in a packet are a natural number, none in an empty one.
LEMMA UsedNat ==
  ASSUME NEW x \in Seq(Headers)
  PROVE  Used(x) \in Nat /\ (x = << >> => Used(x) = 0)
<1>1. PICK n \in Nat : n = Len(x) /\ DOMAIN x = 1..n
  OBVIOUS
<1>2. \A i \in 1..n : x[i].size \in Nat
  <2>1. \A i \in 1..n : x[i] \in Headers
    BY <1>1
  <2> QED BY <2>1, HeaderType
<1>3. \E h : Adds(h, x, n)
  BY AddsExists
<1> DEFINE G == CHOOSE h : Adds(h, x, n)
<1>4. Adds(G, x, n)
  BY <1>3
<1>5. Used(x) = G[1..n]
  BY <1>1 DEF Used, FoldLeft, MapThenFoldSet, Adds
<1> HIDE DEF G
<1>6. n = 0 <=> x = << >>
  BY <1>1
<1> QED BY <1>2, <1>4, <1>5, <1>6, AddsNat

\* The smaller of two numbers.
LEMMA MinOf ==
  ASSUME NEW a \in Nat, NEW b \in Nat
  PROVE  /\ a <= b => Min({a, b}) = a
         /\ b <= a => Min({a, b}) = b
<1>1. ASSUME a <= b PROVE Min({a, b}) = a
  <2>1. a \in {a, b} /\ \A y \in {a, b} : a =< y
    BY <1>1
  <2>2. \A x \in {a, b} : (\A y \in {a, b} : x =< y) => x = a
    BY <1>1
  <2> QED BY <2>1, <2>2 DEF Min
<1>2. ASSUME b <= a PROVE Min({a, b}) = b
  <2>1. b \in {a, b} /\ \A y \in {a, b} : b =< y
    BY <1>2
  <2>2. \A x \in {a, b} : (\A y \in {a, b} : x =< y) => x = b
    BY <1>2
  <2> QED BY <2>1, <2>2 DEF Min
<1> QED BY <1>1, <1>2

\* A message is not empty, and a packet has room for a byte of one.
LEMMA SizesOK ==
  /\ Room \in Nat /\ Room > 0
  /\ \A m \in Messages : m.size \in Nat /\ m.size > 0 /\ m.num \in Nat /\ m.pub \in Senders
<1>1. \A m \in Messages : m.size \in Sizes /\ m.num \in Nat /\ m.pub \in Senders
  BY DEF Messages
<1>2. HeaderSize \in Nat /\ PacketSize \in Nat /\ HeaderSize < PacketSize
  BY MessagesAssumption
<1>3. Room \in Nat /\ Room > 0
  BY <1>2 DEF Room
<1>4. \A x \in Sizes : x \in Nat /\ x > 0
  BY MessagesAssumption
<1> QED BY <1>1, <1>3, <1>4

\* The header of a message that is not in fragments.
LEMMA UnfragmentedIs ==
  ASSUME NEW m \in Messages, NEW last \in BOOLEAN
  PROVE  /\ Unfragmented(m, last) \in Headers
         /\ Unfragmented(m, last).msg = m /\ Unfragmented(m, last).from = 0
         /\ Unfragmented(m, last).size = m.size /\ Unfragmented(m, last).fragNum = 0
         /\ Unfragmented(m, last).lastInPacket = last
         /\ Unfragmented(m, last).lastFragment = FALSE
<1>1. m.size \in Nat
  BY SizesOK
<1> QED BY <1>1 DEF Unfragmented, Headers

\* F is message m in fragments.
InFragments(F, m, last) ==
  /\ F \in Seq(Headers) /\ Len(F) > 0
  /\ \A k \in 1..Len(F) : /\ F[k].msg = m /\ F[k].fragNum = k
                          /\ F[k].lastInPacket = last
                          /\ F[k].lastFragment <=> k = Len(F)
  /\ F[1].from = 0
  /\ \A k \in 1..Len(F) - 1 : F[k + 1].from = F[k].from + F[k].size
  /\ F[Len(F)].from + F[Len(F)].size = m.size

\* The fragments that sbfTport_fragment and sbfBatch_add make are all of the message.
LEMMA FragmentsIs ==
  ASSUME NEW m \in Messages, NEW first \in Nat, first > 0, NEW last \in BOOLEAN
  PROVE  InFragments(Fragments(m, first, last), m, last)
<1>1. PICK R \in Nat : R = Room /\ R > 0
  BY SizesOK
<1>2. PICK z \in Nat : z = m.size /\ z > 0
  BY SizesOK
<1>3. PICK one \in Nat : one = Min({first, z}) /\ one <= z /\ one > 0
  BY <1>2, MinOf
<1>4. PICK D \in Nat : one + D = z
  <2>1. z - one \in Nat /\ one + (z - one) = z
    BY <1>3
  <2> QED BY <2>1
<1>5. PICK q \in Nat : q = (D + R - 1) \div R /\ q * R <= D + R - 1 /\ D + R - 1 < q * R + R
  <2>1. PICK x \in Nat : x = D + R - 1
    <3>1. D + R - 1 \in Nat
      BY <1>1
    <3> QED BY <3>1
  <2>2. x \div R \in Nat /\ (x \div R) * R <= x /\ x < (x \div R) * R + R
    BY <1>1
  <2> QED BY <2>1, <2>2
<1> DEFINE From(k) == IF k = 1 THEN 0 ELSE one + (k - 2) * R
<1>6. PICK n \in Nat : n = q + 1
  OBVIOUS
<1>7. PICK F : F = [k \in 1..n |->
        [msg |-> m, from |-> From(k),
         size |-> IF k = 1 THEN one ELSE Min({R, z - From(k)}),
         fragNum |-> k, lastInPacket |-> last, lastFragment |-> k = n]]
  OBVIOUS
<1>8. F = Fragments(m, first, last)
  <2>1. 1 + (z - one + R - 1) \div R = n
    <3>1. z - one = D
      BY <1>4
    <3> QED BY <1>5, <1>6, <3>1
  <2> QED BY <1>1, <1>2, <1>3, <1>7, <2>1 DEF Fragments
<1>9. \A i, j \in Nat : i <= j => i * R <= j * R /\ i * R \in Nat
  BY <1>1
<1>10. D <= q * R /\ \A j \in Nat : j + 1 = q => j * R + R = q * R /\ j * R < D
  <2>1. D <= q * R
    <3>1. q * R \in Nat
      BY <1>9
    <3> QED BY <1>1, <1>5, <3>1
  <2>2. ASSUME NEW j \in Nat, j + 1 = q PROVE j * R + R = q * R /\ j * R < D
    <3>1. j * R + R = q * R
      BY <1>1, <2>2
    <3>2. j * R \in Nat
      BY <1>9
    <3> QED BY <1>1, <1>5, <3>1, <3>2
  <2> QED BY <2>1, <2>2
<1>11. ASSUME NEW k \in 1..n, k # 1
       PROVE  /\ From(k) \in Nat /\ From(k) < z
              /\ Min({R, z - From(k)}) \in Nat
              /\ k < n => Min({R, z - From(k)}) = R
              /\ k = n => From(k) + Min({R, z - From(k)}) = z
  <2>1. PICK i \in Nat : i = k - 2 /\ i + 1 <= q
    <3>1. k - 2 \in Nat /\ (k - 2) + 1 <= q
      BY <1>6, <1>11
    <3> QED BY <3>1
  <2>2. PICK x \in Nat : x = i * R
    BY <1>9
  <2>3. PICK j \in Nat : j + 1 = q
    <3>1. q - 1 \in Nat /\ (q - 1) + 1 = q
      BY <2>1
    <3> QED BY <3>1
  <2>4. x <= j * R /\ j * R \in Nat /\ j * R < D
    BY <1>9, <1>10, <2>1, <2>2, <2>3
  <2>5. x < D
    BY <2>2, <2>4
  <2>6. From(k) = one + x
    BY <1>11, <2>1, <2>2
  <2>7. PICK y \in Nat : y = z - From(k) /\ y = D - x /\ x + y = D
    <3>1. z - (one + x) = D - x /\ D - x \in Nat /\ x + (D - x) = D
      BY <1>4, <2>2, <2>5
    <3> QED BY <2>6, <3>1
  <2>8. CASE k < n
    <3>1. i + 1 <= j
      BY <1>6, <2>1, <2>3, <2>8
    <3>2. (i + 1) * R <= j * R
      BY <1>9, <3>1
    <3>3. (i + 1) * R = x + R
      BY <1>1, <2>2
    <3>4. R <= y
      BY <2>2, <2>4, <2>7, <3>2, <3>3
    <3>5. Min({R, y}) = R
      BY <3>4, MinOf
    <3> QED BY <1>4, <2>2, <2>5, <2>6, <2>7, <2>8, <3>5
  <2>9. CASE k = n
    <3>1. i = j
      BY <1>6, <2>1, <2>3, <2>9
    <3>2. x + R = q * R
      BY <1>10, <2>2, <2>3, <3>1
    <3>3. y <= R
      <4>1. q * R \in Nat
        BY <1>9
      <4> QED BY <1>10, <2>2, <2>7, <3>2, <4>1
    <3>4. Min({R, y}) = y
      BY <3>3, MinOf
    <3>5. From(k) + y = z
      BY <1>4, <2>2, <2>6, <2>7
    <3> QED BY <1>4, <2>2, <2>5, <2>6, <2>7, <2>9, <3>4, <3>5
  <2> QED BY <2>8, <2>9
<1>12. ASSUME NEW k \in 1..n, k + 1 \in 1..n
       PROVE  From(k + 1) = From(k) + (IF k = 1 THEN one ELSE R)
  <2>1. CASE k = 1
    <3>1. k + 1 # 1 /\ (k + 1) - 2 = 0 /\ 0 * R = 0
      BY <1>1, <2>1
    <3>2. From(k + 1) = one + ((k + 1) - 2) * R
      BY <3>1
    <3>3. ((k + 1) - 2) * R = 0
      BY <3>1
    <3>4. From(k + 1) = one
      BY <3>2, <3>3
    <3> QED BY <2>1, <3>4
  <2>2. CASE k # 1
    <3>1. PICK i \in Nat : i = k - 2 /\ i + 1 = (k + 1) - 2
      <4>1. k - 2 \in Nat /\ (k - 2) + 1 = (k + 1) - 2
        BY <2>2
      <4> QED BY <4>1
    <3>2. From(k) = one + i * R /\ From(k + 1) = one + (i + 1) * R
      BY <2>2, <3>1
    <3>3. (i + 1) * R = i * R + R /\ i * R \in Nat
      BY <1>1, <1>9
    <3> QED BY <1>1, <2>2, <3>2, <3>3
  <2> QED BY <2>1, <2>2
<1>13. From(1) = 0
  OBVIOUS
<1> HIDE DEF From
<1>14. ASSUME NEW k \in 1..n
       PROVE  /\ F[k].msg = m /\ F[k].from = From(k)
              /\ F[k].size = (IF k = 1 THEN one ELSE Min({R, z - From(k)}))
              /\ F[k].fragNum = k /\ F[k].lastInPacket = last /\ F[k].lastFragment = (k = n)
              /\ F[k] \in Headers
  <2>1. PICK f : f = From(k)
    OBVIOUS
  <2>2. PICK s : s = IF k = 1 THEN one ELSE Min({R, z - From(k)})
    OBVIOUS
  <2>3. f \in Nat /\ s \in Nat
    BY <1>11, <1>13, <2>1, <2>2
  <2>4. F[k] = [msg |-> m, from |-> f, size |-> s, fragNum |-> k,
                lastInPacket |-> last, lastFragment |-> k = n]
    BY <1>7, <2>1, <2>2
  <2>5. k \in Nat /\ (k = n) \in BOOLEAN
    OBVIOUS
  <2>6. F[k] \in Headers
    BY <2>3, <2>4, <2>5 DEF Headers
  <2> QED BY <2>1, <2>2, <2>4, <2>6
<1>15. F \in Seq(Headers) /\ Len(F) = n /\ n > 0 /\ 1 \in 1..n /\ n \in 1..n
  <2>1. \A k \in 1..n : F[k] \in Headers
    BY <1>14
  <2>2. DOMAIN F = 1..n /\ F \in [1..n -> Headers]
    BY <1>7, <2>1
  <2> QED BY <1>6, <2>2
<1>16. ASSUME NEW k \in 1..n - 1 PROVE F[k + 1].from = F[k].from + F[k].size
  <2>1. k \in 1..n /\ k + 1 \in 1..n /\ k < n
    OBVIOUS
  <2>2. From(k + 1) = From(k) + (IF k = 1 THEN one ELSE R)
    BY <1>12, <2>1
  <2>3. k # 1 => Min({R, z - From(k)}) = R
    BY <1>11, <2>1
  <2>4. F[k + 1].from = From(k + 1) /\ F[k].from = From(k)
    BY <1>14, <2>1
  <2>5. F[k].size = (IF k = 1 THEN one ELSE R)
    BY <1>14, <2>1, <2>3
  <2> QED BY <2>2, <2>4, <2>5
<1>17. F[n].from + F[n].size = z
  <2>1. CASE n = 1
    <3>1. q = 0 /\ q * R = 0 /\ D = 0
      BY <1>1, <1>5, <1>6, <1>10, <2>1
    <3>2. one = z
      BY <1>4, <3>1
    <3>3. F[1].from = 0 /\ F[1].size = one
      BY <1>13, <1>14, <1>15
    <3> QED BY <2>1, <3>2, <3>3
  <2>2. CASE n # 1
    <3>1. F[n].from = From(n) /\ F[n].size = Min({R, z - From(n)})
      BY <1>14, <1>15, <2>2
    <3> QED BY <1>11, <1>15, <2>2, <3>1
  <2> QED BY <2>1, <2>2
<1> QED BY <1>2, <1>8, <1>13, <1>14, <1>15, <1>16, <1>17 DEF InFragments

-----------------------------------------------------------------------------
(* Slices and lists of subscriptions. *)

\* An element appended, by position.
LEMMA AppendIs ==
  ASSUME NEW S, NEW a \in Seq(S), NEW x \in S, NEW m \in Nat, m = Len(a),
         NEW c, c = Append(a, x)
  PROVE  /\ c \in Seq(S) /\ Len(c) = m + 1
         /\ \A i \in 1..m : c[i] = a[i]
         /\ c[m + 1] = x
OBVIOUS

\* A slice, by position.
LEMMA SliceIs ==
  ASSUME NEW S, NEW a \in Seq(S), NEW i \in Nat, NEW n \in Nat, i + n <= Len(a),
         NEW c, c = SubSeq(a, i + 1, i + n)
  PROVE  /\ c \in Seq(S) /\ Len(c) = n
         /\ \A k \in 1..n : c[k] = a[i + k]
<1>1. \A k \in (i + 1)..(i + n) : a[k] \in S
  OBVIOUS
<1>2. Len(c) = IF i + 1 > i + n THEN 0 ELSE (i + n) - (i + 1) + 1
  BY <1>1, SubSeqProperties
<1>3. Len(c) = n
  BY <1>2
<1>4. c \in Seq(S)
  BY <1>1, SubSeqProperties
<1>5. ASSUME NEW k \in 1..n PROVE c[k] = a[i + k]
  <2>1. k \in 1..((i + n) - (i + 1) + 1) /\ (i + 1) + k - 1 = i + k
    OBVIOUS
  <2>2. c[k] = a[(i + 1) + k - 1]
    BY <1>1, <2>1, SubSeqProperties
  <2> QED BY <2>1, <2>2
<1> QED BY <1>3, <1>4, <1>5

\* c is the n elements of a after the first i.
IsSlice(c, a, i, n) == Len(c) = n /\ \A k \in 1..n : c[k] = a[i + k]

\* SliceIs of subscriptions.
LEMMA SubsSlice ==
  ASSUME NEW a \in Seq(Subs), NEW i \in Nat, NEW n \in Nat, i + n <= Len(a),
         NEW c, c = SubSeq(a, i + 1, i + n)
  PROVE  c \in Seq(Subs) /\ IsSlice(c, a, i, n)
<1>1. c \in Seq(Subs) /\ Len(c) = n /\ \A k \in 1..n : c[k] = a[i + k]
  BY SliceIs
<1> QED BY <1>1 DEF IsSlice

\* What follows an index grows with the sequence.
LEMMA SliceAppend ==
  ASSUME NEW S, NEW a \in Seq(S), NEW x \in S, NEW m \in Nat, m = Len(a), NEW i \in Nat, i <= m
  PROVE  SubSeq(Append(a, x), i + 1, m + 1) = Append(SubSeq(a, i + 1, m), x)
<1>1. PICK n \in Nat : i + n = m
  <2>1. m - i \in Nat /\ i + (m - i) = m
    OBVIOUS
  <2> QED BY <2>1
<1>2. PICK b : b = Append(a, x)
  OBVIOUS
<1>3. b \in Seq(S) /\ Len(b) = m + 1 /\ (\A k \in 1..m : b[k] = a[k]) /\ b[m + 1] = x
  BY <1>2, AppendIs
<1>4. PICK c : c = SubSeq(a, i + 1, m)
  OBVIOUS
<1>5. c \in Seq(S) /\ Len(c) = n /\ \A k \in 1..n : c[k] = a[i + k]
  BY <1>1, <1>4, SliceIs
<1>6. PICK d : d = SubSeq(b, i + 1, m + 1)
  OBVIOUS
<1>7. d \in Seq(S) /\ Len(d) = n + 1 /\ \A k \in 1..(n + 1) : d[k] = b[i + k]
  <2>1. i + (n + 1) = m + 1 /\ n + 1 \in Nat /\ i + (n + 1) <= Len(b)
    BY <1>1, <1>3
  <2> QED BY <1>3, <1>6, <2>1, SliceIs
<1>8. PICK e : e = Append(c, x)
  OBVIOUS
<1>9. e \in Seq(S) /\ Len(e) = n + 1 /\ (\A k \in 1..n : e[k] = c[k]) /\ e[n + 1] = x
  BY <1>5, <1>8, AppendIs
<1>10. ASSUME NEW k \in 1..(n + 1) PROVE d[k] = e[k]
  <2>1. CASE k = n + 1
    <3>1. i + k = m + 1
      BY <1>1, <2>1
    <3> QED BY <1>3, <1>7, <1>9, <2>1, <3>1
  <2>2. CASE k # n + 1
    <3>1. k \in 1..n /\ i + k \in 1..m
      BY <1>1, <2>2
    <3> QED BY <1>3, <1>5, <1>7, <1>9, <3>1
  <2> QED BY <2>1, <2>2
<1> QED BY <1>2, <1>4, <1>6, <1>7, <1>8, <1>9, <1>10, SeqEqual

\* A slice of what is there does not change.
LEMMA SliceSame ==
  ASSUME NEW S, NEW a \in Seq(S), NEW x \in S, NEW i \in Nat, NEW j \in Nat,
         i <= j, j <= Len(a)
  PROVE  SubSeq(Append(a, x), i + 1, j) = SubSeq(a, i + 1, j)
<1>1. PICK m \in Nat : m = Len(a)
  OBVIOUS
<1>2. PICK n \in Nat : i + n = j
  <2>1. j - i \in Nat /\ i + (j - i) = j
    OBVIOUS
  <2> QED BY <2>1
<1>3. PICK b : b = Append(a, x)
  OBVIOUS
<1>4. b \in Seq(S) /\ Len(b) = m + 1 /\ \A k \in 1..m : b[k] = a[k]
  BY <1>1, <1>3, AppendIs
<1>5. PICK c : c = SubSeq(a, i + 1, j)
  OBVIOUS
<1>6. c \in Seq(S) /\ Len(c) = n /\ \A k \in 1..n : c[k] = a[i + k]
  <2>1. c = SubSeq(a, i + 1, i + n) /\ i + n <= Len(a)
    BY <1>2, <1>5
  <2> QED BY <2>1, SliceIs
<1>7. PICK d : d = SubSeq(b, i + 1, j)
  OBVIOUS
<1>8. d \in Seq(S) /\ Len(d) = n /\ \A k \in 1..n : d[k] = b[i + k]
  <2>1. d = SubSeq(b, i + 1, i + n) /\ i + n <= Len(b) /\ b \in Seq(S)
    BY <1>1, <1>2, <1>4, <1>7
  <2> QED BY <2>1, SliceIs
<1>9. \A k \in 1..n : i + k \in 1..m
  BY <1>1, <1>2
<1>10. \A k \in 1..n : c[k] = d[k]
  BY <1>4, <1>6, <1>8, <1>9
<1> QED BY <1>3, <1>5, <1>6, <1>7, <1>8, <1>10, SeqEqual

Distinct(list) == \A i, j \in 1..Len(list) : list[i] = list[j] => i = j
Has(list, x) == \E i \in 1..Len(list) : list[i] = x

\* What a list has is in the set of its elements.
LEMMA HasToSet == ASSUME NEW list \in Seq(Subs), NEW x PROVE Has(list, x) <=> x \in ToSet(list)
BY DEF Has, ToSet

\* The least of one.
LEMMA MinOne == ASSUME NEW i \in Nat PROVE Min({i}) = i
BY DEF Min

\* The subscriptions in turn are all of them.
LEMMA TurnIs ==
  ASSUME mSubs \in Seq(Subs), Distinct(mSubs), mNext # NULL => Has(mSubs, mNext)
  PROVE  /\ Turn \in Seq(Subs) /\ Len(Turn) = Len(mSubs)
         /\ \A x : Has(Turn, x) <=> Has(mSubs, x)
<1>1. CASE mNext = NULL
  BY <1>1 DEF Turn
<1>2. CASE mNext # NULL
  <2>1. PICK n \in Nat : n = Len(mSubs)
    OBVIOUS
  <2>2. PICK i \in 1..n : mSubs[i] = mNext
    BY <1>2, <2>1 DEF Has
  <2>3. SelectInSeq(mSubs, LAMBDA v : v = mNext) = i
    <3>1. {k \in 1..Len(mSubs) : mSubs[k] = mNext} = {i}
      BY <2>1, <2>2 DEF Distinct
    <3>2. i \in Nat
      OBVIOUS
    <3> QED BY <3>1, <3>2, MinOne DEF SelectInSeq
  <2>4. Turn = SubSeq(mSubs, i, n) \o SubSeq(mSubs, 1, i - 1)
    BY <1>2, <2>1, <2>3 DEF Turn
  <2>5. PICK j \in Nat : j + 1 = i
    <3>1. i - 1 \in Nat /\ (i - 1) + 1 = i
      OBVIOUS
    <3> QED BY <3>1
  <2>6. PICK k \in Nat : j + k = n
    <3>1. n - j \in Nat /\ j + (n - j) = n
      BY <2>5
    <3> QED BY <3>1
  <2>7. PICK p : p = SubSeq(mSubs, i, n)
    OBVIOUS
  <2>8. PICK q : q = SubSeq(mSubs, 1, i - 1)
    OBVIOUS
  <2>9. p \in Seq(Subs) /\ Len(p) = k /\ \A l \in 1..k : p[l] = mSubs[j + l]
    BY <2>1, <2>5, <2>6, <2>7, SliceIs
  <2>10. q \in Seq(Subs) /\ Len(q) = j /\ \A l \in 1..j : q[l] = mSubs[l]
    <3>1. i - 1 = 0 + j /\ 1 = 0 + 1 /\ 0 + j <= Len(mSubs)
      BY <2>1, <2>5, <2>6
    <3>2. q = SubSeq(mSubs, 0 + 1, 0 + j)
      BY <2>8, <3>1
    <3>3. q \in Seq(Subs) /\ Len(q) = j /\ \A l \in 1..j : q[l] = mSubs[0 + l]
      BY <3>1, <3>2, SliceIs
    <3>4. \A l \in 1..j : 0 + l = l
      OBVIOUS
    <3> QED BY <3>3, <3>4
  <2>11. PICK t : t = p \o q
    OBVIOUS
  <2>12. /\ t \in Seq(Subs) /\ Len(t) = k + j
         /\ \A l \in 1..k : t[l] = p[l]
         /\ \A l \in 1..j : t[k + l] = q[l]
    <3>1. p \in Seq(Subs) /\ q \in Seq(Subs) /\ k = Len(p) /\ j = Len(q)
      BY <2>9, <2>10
    <3> QED BY <2>11, <3>1, ConcatIs
  <2>13. ASSUME NEW x, Has(t, x) PROVE Has(mSubs, x)
    <3>1. PICK l \in 1..(k + j) : t[l] = x
      BY <2>12, <2>13 DEF Has
    <3>2. CASE l <= k
      <4>1. l \in 1..k /\ j + l \in 1..n
        BY <2>6, <3>2
      <4>2. mSubs[j + l] = x
        BY <2>9, <2>12, <3>1, <4>1
      <4> QED BY <2>1, <4>1, <4>2 DEF Has
    <3>3. CASE l > k
      <4>1. PICK e \in 1..j : k + e = l
        <5>1. l - k \in 1..j /\ k + (l - k) = l
          BY <3>3
        <5> QED BY <5>1
      <4>2. t[l] = q[e]
        BY <2>12, <4>1
      <4>3. mSubs[e] = x /\ e \in 1..n
        BY <2>6, <2>10, <3>1, <4>2
      <4> QED BY <2>1, <4>3 DEF Has
    <3> QED BY <3>2, <3>3
  <2>14. ASSUME NEW x, Has(mSubs, x) PROVE Has(t, x)
    <3>1. PICK l \in 1..n : mSubs[l] = x
      BY <2>1, <2>14 DEF Has
    <3>2. CASE l <= j
      <4>1. l \in 1..j /\ k + l \in 1..(k + j)
        BY <3>2
      <4>2. t[k + l] = x
        BY <2>10, <2>12, <3>1, <4>1
      <4> QED BY <2>12, <4>1, <4>2 DEF Has
    <3>3. CASE l > j
      <4>1. PICK e \in 1..k : j + e = l
        <5>1. l - j \in 1..k /\ j + (l - j) = l
          BY <2>6, <3>3
        <5> QED BY <5>1
      <4>2. t[e] = p[e] /\ p[e] = mSubs[l]
        BY <2>9, <2>12, <4>1
      <4>3. t[e] = x /\ e \in 1..(k + j)
        BY <3>1, <4>2
      <4> QED BY <2>12, <4>3 DEF Has
    <3> QED BY <3>2, <3>3
  <2>15. Turn = t /\ k + j = n
    BY <2>4, <2>6, <2>7, <2>8, <2>11
  <2> QED BY <2>1, <2>12, <2>13, <2>14, <2>15
<1> QED BY <1>1, <1>2

\* sbfSubRemoveEventCb takes one subscription off the list.
LEMMA RemoveFirstIs ==
  ASSUME NEW list \in Seq(Subs), Distinct(list), NEW s, Has(list, s)
  PROVE  /\ RemoveFirst(list, s) \in Seq(Subs) /\ Distinct(RemoveFirst(list, s))
         /\ \A x : Has(RemoveFirst(list, s), x) <=> Has(list, x) /\ x # s
<1>1. PICK n \in Nat : n = Len(list)
  OBVIOUS
<1>2. PICK i \in 1..n : list[i] = s
  BY <1>1 DEF Has
<1>3. SelectInSeq(list, LAMBDA v : v = s) = i
  <2>1. {k \in 1..Len(list) : list[k] = s} = {i}
    BY <1>1, <1>2 DEF Distinct
  <2>2. i \in Nat
    OBVIOUS
  <2> QED BY <2>1, <2>2, MinOne DEF SelectInSeq
<1>4. RemoveFirst(list, s) = SubSeq(list, 1, i - 1) \o SubSeq(list, i + 1, n)
  BY <1>1, <1>2, <1>3 DEF RemoveFirst, RemoveAt
<1>5. PICK j \in Nat : j + 1 = i
  <2>1. i - 1 \in Nat /\ (i - 1) + 1 = i
    OBVIOUS
  <2> QED BY <2>1
<1>6. PICK k \in Nat : i + k = n
  <2>1. n - i \in Nat /\ i + (n - i) = n
    OBVIOUS
  <2> QED BY <2>1
<1>7. PICK p : p = SubSeq(list, 1, i - 1)
  OBVIOUS
<1>8. PICK q : q = SubSeq(list, i + 1, n)
  OBVIOUS
<1>9. p \in Seq(Subs) /\ Len(p) = j /\ \A l \in 1..j : p[l] = list[l]
  <2>1. i - 1 = 0 + j /\ 1 = 0 + 1 /\ 0 + j <= Len(list)
    BY <1>1, <1>5
  <2>2. p = SubSeq(list, 0 + 1, 0 + j)
    BY <1>7, <2>1
  <2>3. p \in Seq(Subs) /\ IsSlice(p, list, 0, j)
    BY <2>1, <2>2, SubsSlice
  <2>4. \A l \in 1..j : 0 + l = l
    OBVIOUS
  <2> QED BY <2>3, <2>4 DEF IsSlice
<1>10. q \in Seq(Subs) /\ Len(q) = k /\ \A l \in 1..k : q[l] = list[i + l]
  <2>1. PICK ii \in Nat : ii = i
    OBVIOUS
  <2>2. ii + k <= Len(list) /\ q = SubSeq(list, ii + 1, ii + k)
    BY <1>1, <1>6, <1>8, <2>1
  <2>3. q \in Seq(Subs) /\ IsSlice(q, list, ii, k)
    BY <2>2, SubsSlice
  <2> QED BY <2>1, <2>3 DEF IsSlice
<1>11. PICK t : t = p \o q
  OBVIOUS
<1>12. /\ t \in Seq(Subs) /\ Len(t) = j + k
       /\ \A l \in 1..j : t[l] = p[l]
       /\ \A l \in 1..k : t[j + l] = q[l]
  <2>1. p \in Seq(Subs) /\ q \in Seq(Subs) /\ j = Len(p) /\ k = Len(q)
    BY <1>9, <1>10
  <2> QED BY <1>11, <2>1, ConcatIs
<1>13. ASSUME NEW l \in 1..(j + k)
       PROVE  (IF l <= j THEN l ELSE l + 1) \in 1..n /\ t[l] = list[IF l <= j THEN l ELSE l + 1]
  <2>1. CASE l <= j
    <3>1. l \in 1..j /\ l \in 1..n
      BY <1>5, <1>6, <2>1
    <3> QED BY <1>9, <1>12, <2>1, <3>1
  <2>2. CASE l > j
    <3>1. PICK e \in 1..k : j + e = l /\ i + e = l + 1
      <4>1. l - j \in 1..k /\ j + (l - j) = l /\ i + (l - j) = l + 1
        BY <1>5, <2>2
      <4> QED BY <4>1
    <3>2. t[l] = q[e] /\ q[e] = list[i + e]
      BY <1>10, <1>12, <3>1
    <3>3. t[l] = list[l + 1] /\ l + 1 \in 1..n
      BY <1>5, <1>6, <3>1, <3>2
    <3> QED BY <2>2, <3>3
  <2> QED BY <2>1, <2>2
<1>14. ASSUME NEW a \in 1..(j + k), NEW b \in 1..(j + k), t[a] = t[b] PROVE a = b
  <2>1. PICK c \in 1..n : c = (IF a <= j THEN a ELSE a + 1) /\ t[a] = list[c]
    BY <1>13
  <2>2. PICK d \in 1..n : d = (IF b <= j THEN b ELSE b + 1) /\ t[b] = list[d]
    BY <1>13
  <2>3. c = d
    BY <1>1, <1>14, <2>1, <2>2 DEF Distinct
  <2> QED BY <2>1, <2>2, <2>3
<1>15. ASSUME NEW x, Has(t, x) PROVE Has(list, x) /\ x # s
  <2>1. PICK a \in 1..(j + k) : t[a] = x
    BY <1>12, <1>15 DEF Has
  <2>2. PICK c \in 1..n : c = (IF a <= j THEN a ELSE a + 1) /\ t[a] = list[c]
    BY <1>13
  <2>3. c # i
    BY <1>5, <2>2
  <2>4. list[c] # s
    BY <1>1, <1>2, <2>3 DEF Distinct
  <2> QED BY <1>1, <2>1, <2>2, <2>4 DEF Has
<1>16. ASSUME NEW x, Has(list, x), x # s PROVE Has(t, x)
  <2>1. PICK c \in 1..n : list[c] = x
    BY <1>1, <1>16 DEF Has
  <2>2. c # i
    BY <1>2, <1>16, <2>1
  <2>3. PICK a \in 1..(j + k) : c = (IF a <= j THEN a ELSE a + 1)
    <3>1. CASE c < i
      <4>1. c \in 1..(j + k) /\ c <= j
        BY <1>5, <3>1
      <4> QED BY <4>1
    <3>2. CASE c > i
      <4>1. c - 1 \in 1..(j + k) /\ ~(c - 1 <= j) /\ (c - 1) + 1 = c
        BY <1>5, <1>6, <3>2
      <4> QED BY <4>1
    <3> QED BY <2>2, <3>1, <3>2
  <2>4. t[a] = x
    BY <1>13, <2>1, <2>3
  <2> QED BY <1>12, <2>4 DEF Has
<1>17. RemoveFirst(list, s) = t
  BY <1>4, <1>7, <1>8, <1>11
<1>18. Distinct(t)
  BY <1>12, <1>14 DEF Distinct
<1> QED BY <1>12, <1>15, <1>16, <1>17, <1>18

-----------------------------------------------------------------------------
(* Packets. *)

\* At least one message, and only the last may end the packet.
Packets == {x \in Seq(Headers) : /\ Len(x) > 0
                                 /\ \A i \in 1..Len(x) : x[i].lastInPacket => i = Len(x)}

Ends(x) == x[Len(x)].lastInPacket

\* A packet has a header, and one that says so is its last.
LEMMA PacketIs ==
  ASSUME NEW x \in Packets
  PROVE  /\ x \in Seq(Headers) /\ Len(x) \in Nat /\ Len(x) > 0 /\ x # << >>
         /\ Ends(x) \in BOOLEAN /\ Head(x) = x[1] /\ x[1] \in Headers
         /\ \A i \in 1..Len(x) : x[i] \in Headers /\ (x[i].lastInPacket => i = Len(x))
<1>1. x \in Seq(Headers) /\ Len(x) > 0 /\ \A i \in 1..Len(x) : x[i].lastInPacket => i = Len(x)
  BY DEF Packets
<1>2. Len(x) \in Nat /\ x # << >> /\ Head(x) = x[1]
  BY <1>1
<1>3. \A i \in 1..Len(x) : x[i] \in Headers
  BY <1>1
<1>4. Len(x) \in 1..Len(x) /\ 1 \in 1..Len(x)
  BY <1>1, <1>2
<1>5. Ends(x) \in BOOLEAN
  BY <1>3, <1>4, HeaderType DEF Ends
<1> QED BY <1>1, <1>2, <1>3, <1>4, <1>5

\* A sequence of packets is one of sequences of headers.
LEMMA PacketsAre ==
  ASSUME NEW ps \in Seq(Packets)
  PROVE  /\ ps \in Seq(Seq(Headers)) /\ Len(ps) \in Nat /\ \A i \in 1..Len(ps) : ps[i] \in Packets
<1>1. Len(ps) \in Nat /\ ps \in [1..Len(ps) -> Packets] /\ \A i \in 1..Len(ps) : ps[i] \in Packets
  OBVIOUS
<1>2. \A i \in 1..Len(ps) : ps[i] \in Seq(Headers)
  BY <1>1, PacketIs
<1> QED BY <1>1, <1>2

\* Packets whose headers differ in lastInPacket have the same stream of headers.
LEMMA FlatSame ==
  ASSUME NEW ps \in Seq(Seq(Headers)), NEW qs \in Seq(Seq(Headers)), Len(ps) = Len(qs),
         \A i \in 1..Len(ps) : /\ Len(qs[i]) = Len(ps[i])
                               /\ \A k \in 1..Len(ps[i]) : Core(qs[i][k]) = Core(ps[i][k]),
         NEW F, IsFlat(F, ps)
  PROVE  IsFlat(F, qs)
<1>1. PICK off : FlatBy(F, ps, off)
  BY DEF IsFlat
<1>2. FlatBy(F, qs, off)
  BY <1>1 DEF FlatBy
<1> QED BY <1>2 DEF IsFlat

\* One message to a packet: a stream of bytes has no other boundaries.
Singles(x) == [i \in 1..Len(x) |-> <<x[i]>>]

\* What a connection makes of a packet: a packet of each header.
LEMMA SinglesAre ==
  ASSUME NEW x \in Seq(Headers)
  PROVE  /\ Singles(x) \in Seq(Packets) /\ Len(Singles(x)) = Len(x)
         /\ \A i \in 1..Len(x) : Singles(x)[i] = <<x[i]>> /\ Len(Singles(x)[i]) = 1
         /\ IsFlat(Cores(x), Singles(x))
<1>1. PICK n \in Nat : n = Len(x)
  OBVIOUS
<1>2. ASSUME NEW i \in 1..n PROVE <<x[i]>> \in Packets /\ Len(<<x[i]>>) = 1
  <2>1. x[i] \in Headers
    BY <1>1
  <2> QED BY <2>1 DEF Packets
<1>3. PICK s : s = Singles(x)
  OBVIOUS
<1>4. /\ s \in Seq(Packets) /\ Len(s) = n /\ DOMAIN s = 1..n
      /\ \A i \in 1..n : s[i] = <<x[i]>> /\ Len(s[i]) = 1
  <2>1. s = [i \in 1..n |-> <<x[i]>>]
    BY <1>1, <1>3 DEF Singles
  <2>2. s \in [1..n -> Packets]
    BY <1>2, <2>1
  <2> QED BY <1>2, <2>1, <2>2
<1>5. PICK off : off = [i \in 0..n |-> i]
  OBVIOUS
<1>6. off \in [0..n -> Nat] /\ off[0] = 0 /\ off[n] = n /\ \A i \in 0..n : off[i] = i
  BY <1>5
<1>7. PICK c : c = Cores(x)
  OBVIOUS
<1>8. c \in Seq(CoreSet) /\ Len(c) = n /\ \A i \in 1..n : c[i] = Core(x[i])
  BY <1>1, <1>7, CoresType
<1>9. ASSUME NEW i \in 1..n
      PROVE  /\ off[i] = off[i - 1] + Len(s[i])
             /\ \A k \in 1..Len(s[i]) : c[off[i - 1] + k] = Core(s[i][k])
  <2>1. i \in 0..n /\ i - 1 \in 0..n /\ (i - 1) + 1 = i
    OBVIOUS
  <2>2. off[i] = i /\ off[i - 1] = i - 1 /\ Len(s[i]) = 1
    BY <1>4, <1>6, <2>1
  <2>3. ASSUME NEW k \in 1..Len(s[i]) PROVE c[off[i - 1] + k] = Core(s[i][k])
    <3>1. k = 1
      BY <2>2
    <3>2. s[i][1] = x[i]
      BY <1>4
    <3> QED BY <1>8, <2>1, <2>2, <3>1, <3>2
  <2> QED BY <2>1, <2>2, <2>3
<1>10. \A i, j \in 0..n : i <= j => off[i] <= off[j]
  BY <1>6
<1>11. FlatBy(c, s, off)
  BY <1>4, <1>6, <1>8, <1>9, <1>10 DEF FlatBy
<1> QED BY <1>1, <1>3, <1>4, <1>7, <1>8, <1>11 DEF IsFlat

\* The headers of packets of one message each.
LEMMA FlatHeads ==
  ASSUME NEW ps \in Seq(Packets), \A i \in 1..Len(ps) : Len(ps[i]) = 1, NEW F, IsFlat(F, ps),
         NEW n \in Nat, n = Len(ps), NEW hs, hs = [i \in 1..n |-> Head(ps[i])]
  PROVE  hs \in Seq(Headers) /\ Len(hs) = n /\ F = Cores(hs)
<1>1. ASSUME NEW i \in 1..n PROVE /\ ps[i] \in Packets /\ Len(ps[i]) = 1 /\ Head(ps[i]) = ps[i][1]
                                  /\ ps[i][1] \in Headers
  BY PacketIs
<1>2. hs \in Seq(Headers) /\ Len(hs) = n /\ \A i \in 1..n : hs[i] = ps[i][1]
  <2>1. hs \in [1..n -> Headers]
    BY <1>1
  <2> QED BY <1>1, <2>1
<1>3. PICK off : FlatBy(F, ps, off)
  BY DEF IsFlat
<1>4. /\ off[0] = 0 /\ off[n] = Len(F)
      /\ \A i \in 1..n : /\ off[i] = off[i - 1] + 1
                         /\ F[off[i - 1] + 1] = Core(ps[i][1])
  BY <1>1, <1>3 DEF FlatBy
<1>5. PICK T : T = {i \in Nat : i <= n => off[i] = i}
  OBVIOUS
<1>6. 0 \in T
  BY <1>4, <1>5
<1>7. ASSUME NEW i \in T PROVE i + 1 \in T
  <2>0. i \in Nat
    BY <1>5
  <2> SUFFICES ASSUME i + 1 <= n PROVE off[i + 1] = i + 1
    BY <1>5, <2>0
  <2>1. i + 1 \in 1..n /\ (i + 1) - 1 = i /\ i <= n
    BY <2>0
  <2>2. off[i + 1] = off[i] + 1
    BY <1>4, <2>1
  <2> QED BY <1>5, <2>1, <2>2
<1>8. T = Nat
  BY <1>5, <1>6, <1>7, NatSets
<1>9. Len(F) = n /\ \A i \in 1..n : F[i] = Core(hs[i])
  <2>1. ASSUME NEW i \in 1..n PROVE F[i] = Core(hs[i])
    <3>1. i - 1 \in Nat /\ i - 1 <= n /\ (i - 1) + 1 = i
      OBVIOUS
    <3>2. off[i - 1] = i - 1
      BY <1>5, <1>8, <3>1
    <3> QED BY <1>2, <1>4, <3>1, <3>2
  <2> QED BY <1>4, <1>5, <1>8, <2>1
<1>10. PICK c : c = Cores(hs)
  OBVIOUS
<1>11. c \in Seq(CoreSet) /\ Len(c) = n /\ \A i \in 1..n : c[i] = Core(hs[i])
  BY <1>2, <1>10, CoresType
<1>12. F \in Seq(CoreSet)
  BY DEF IsFlat
<1>13. \A i \in 1..n : F[i] = c[i]
  BY <1>9, <1>11
<1>14. F = c
  BY <1>9, <1>11, <1>12, <1>13, SeqEqual
<1> QED BY <1>2, <1>10, <1>14

\* A packet of its own.
LEMMA FlatHead ==
  ASSUME NEW x \in Packets, NEW F, IsFlat(F, <<x>>)
  PROVE  F = Cores(x)
<1>1. x \in Seq(Headers) /\ Len(x) \in Nat
  BY PacketIs
<1>2. PICK off : FlatBy(F, <<x>>, off)
  BY DEF IsFlat
<1>3. Len(<<x>>) = 1 /\ <<x>>[1] = x /\ 1 - 1 = 0
  OBVIOUS
<1>4. off[0] = 0 /\ off[1] = Len(F) /\ off[1] = off[0] + Len(x)
  BY <1>2, <1>3 DEF FlatBy
<1>5. \A k \in 1..Len(x) : F[0 + k] = Core(x[k])
  <2>1. 1 \in 1..Len(<<x>>)
    BY <1>3
  <2>2. \A k \in 1..Len(<<x>>[1]) : F[off[1 - 1] + k] = Core(<<x>>[1][k])
    BY <1>2, <2>1 DEF FlatBy
  <2> QED BY <1>3, <1>4, <2>2
<1>6. Len(F) = Len(x) /\ \A k \in 1..Len(x) : F[k] = Core(x[k])
  BY <1>1, <1>4, <1>5
<1>7. PICK c : c = Cores(x)
  OBVIOUS
<1>8. c \in Seq(CoreSet) /\ Len(c) = Len(x) /\ \A i \in 1..Len(x) : c[i] = Core(x[i])
  BY <1>1, <1>7, CoresType
<1>9. F \in Seq(CoreSet)
  BY DEF IsFlat
<1> QED BY <1>6, <1>7, <1>8, <1>9, SeqEqual

\* Closed ends a packet and changes nothing else.
LEMMA ClosedIs ==
  ASSUME NEW x \in Packets
  PROVE  /\ Closed(x) \in Packets /\ Ends(Closed(x)) /\ Len(Closed(x)) = Len(x)
         /\ \A k \in 1..Len(x) : Core(Closed(x)[k]) = Core(x[k])
<1>1. PICK n \in Nat : n = Len(x) /\ n > 0
  BY PacketIs
<1>2. x \in Seq(Headers) /\ x \in [1..n -> Headers]
  BY <1>1, PacketIs
<1>3. PICK y : y = Closed(x)
  OBVIOUS
<1>4. /\ DOMAIN y = 1..n
      /\ \A k \in 1..n : y[k] = IF k = n THEN [x[k] EXCEPT !.lastInPacket = TRUE] ELSE x[k]
  BY <1>1, <1>2, <1>3 DEF Closed
<1>5. ASSUME NEW k \in 1..n
      PROVE  /\ y[k] \in Headers /\ Core(y[k]) = Core(x[k])
             /\ k = n => y[k].lastInPacket = TRUE
             /\ k # n => y[k] = x[k]
  <2>1. x[k] \in Headers
    BY <1>2
  <2>2. PICK h \in Headers : h = x[k]
    BY <2>1
  <2>3. PICK g : g = [h EXCEPT !.lastInPacket = TRUE]
    OBVIOUS
  <2>4. g \in Headers /\ Core(g) = Core(h) /\ g.lastInPacket = TRUE
    BY <2>3 DEF Headers, Core
  <2> QED BY <1>4, <2>1, <2>2, <2>3, <2>4
<1>6. y \in Seq(Headers) /\ Len(y) = n
  <2>1. y = [k \in 1..n |-> y[k]]
    BY <1>1, <1>2, <1>3, <1>4 DEF Closed
  <2>2. y \in [1..n -> Headers]
    BY <1>5, <2>1
  <2> QED BY <1>4, <2>2
<1>7. \A k \in 1..n : y[k].lastInPacket => k = n
  <2>1. \A k \in 1..n : x[k].lastInPacket => k = n
    BY <1>1, PacketIs
  <2> QED BY <1>5, <2>1
<1>8. y \in Packets
  BY <1>1, <1>6, <1>7 DEF Packets
<1>9. Ends(y)
  <2>1. n \in 1..n
    BY <1>1
  <2> QED BY <1>5, <1>6, <2>1 DEF Ends
<1> QED BY <1>1, <1>3, <1>5, <1>6, <1>8, <1>9

\* Packets that are ready to be sent, except the last.
Filling(ps) == \A i \in 1..Len(ps) : Ends(ps[i]) <=> i < Len(ps)
AllEnd(ps) == \A i \in 1..Len(ps) : Ends(ps[i])

\* c is the first n elements of a, which has one more.
IsFront(c, a, n) == Len(c) = n /\ (\A i \in 1..n : c[i] = a[i]) /\ Last(a) = a[n + 1]

\* All but the last, by position.
LEMMA FrontIs ==
  ASSUME NEW S, NEW a \in Seq(S), NEW n \in Nat, n + 1 = Len(a), NEW c, c = Front(a)
  PROVE  c \in Seq(S) /\ IsFront(c, a, n)
<1>1. 0 + n <= Len(a) /\ Len(a) - 1 = 0 + n /\ 1 = 0 + 1
  OBVIOUS
<1>2. c = SubSeq(a, 0 + 1, 0 + n)
  BY <1>1 DEF Front
<1>3. c \in Seq(S) /\ Len(c) = n /\ \A k \in 1..n : c[k] = a[0 + k]
  BY <1>1, <1>2, SliceIs
<1>4. \A k \in 1..n : 0 + k = k
  OBVIOUS
<1> QED BY <1>3, <1>4 DEF Last, IsFront

\* ConcatIs of packets.
LEMMA PacketsConcat ==
  ASSUME NEW a \in Seq(Packets), NEW b \in Seq(Packets), NEW c, c = a \o b,
         NEW m \in Nat, m = Len(a), NEW n \in Nat, n = Len(b)
  PROVE  /\ c \in Seq(Packets) /\ Len(c) = m + n
         /\ \A i \in 1..m : c[i] = a[i]
         /\ \A i \in 1..n : c[m + i] = b[i]
<1>1. /\ c \in Seq(Packets) /\ Len(c) = m + n
      /\ \A i \in 1..(m + n) : c[i] = IF i <= m THEN a[i] ELSE b[i - m]
  OBVIOUS
<1>2. \A i \in 1..m : c[i] = a[i]
  BY <1>1
<1>3. ASSUME NEW i \in 1..n PROVE c[m + i] = b[i]
  <2>1. m + i \in 1..(m + n) /\ ~(m + i <= m) /\ (m + i) - m = i
    OBVIOUS
  <2> QED BY <1>1, <2>1
<1> QED BY <1>1, <1>2, <1>3

\* SliceIs of packets.
LEMMA PacketsSlice ==
  ASSUME NEW a \in Seq(Packets), NEW i \in Nat, NEW n \in Nat, i + n <= Len(a),
         NEW c, c = SubSeq(a, i + 1, i + n)
  PROVE  /\ c \in Seq(Packets) /\ Len(c) = n
         /\ \A k \in 1..n : c[k] = a[i + k]
<1>1. \A k \in (i + 1)..(i + n) : a[k] \in Packets
  OBVIOUS
<1>2. c \in Seq(Packets) /\ Len(c) = IF i + 1 <= i + n THEN (i + n) - (i + 1) + 1 ELSE 0
  BY <1>1, SubSeqProperties
<1>3. Len(c) = n
  BY <1>2
<1>4. ASSUME NEW k \in 1..n PROVE c[k] = a[i + k]
  <2>1. k \in 1..((i + n) - (i + 1) + 1) /\ (i + 1) + k - 1 = i + k
    OBVIOUS
  <2>2. c[k] = a[(i + 1) + k - 1]
    BY <1>1, <2>1, SubSeqProperties
  <2> QED BY <2>1, <2>2
<1> QED BY <1>2, <1>3, <1>4

\* FrontIs of packets.
LEMMA PacketsFront ==
  ASSUME NEW a \in Seq(Packets), NEW n \in Nat, n + 1 = Len(a), NEW c, c = Front(a)
  PROVE  /\ c \in Seq(Packets) /\ Len(c) = n
         /\ \A i \in 1..n : c[i] = a[i]
         /\ Last(a) = a[n + 1] /\ a[n + 1] \in Packets
<1>1. 0 + n <= Len(a) /\ Len(a) - 1 = 0 + n /\ 1 = 0 + 1
  OBVIOUS
<1>2. c = SubSeq(a, 0 + 1, 0 + n)
  BY <1>1 DEF Front
<1>3. c \in Seq(Packets) /\ Len(c) = n /\ \A k \in 1..n : c[k] = a[0 + k]
  BY <1>1, <1>2, SliceIs
<1>4. \A k \in 1..n : 0 + k = k
  OBVIOUS
<1>5. a[n + 1] \in Packets
  <2>1. n + 1 \in 1..Len(a)
    OBVIOUS
  <2> QED BY <2>1
<1> QED BY <1>3, <1>4, <1>5 DEF Last

\* Of packets N, the last, L, is being filled; P are those before it.
Shape(P, L, N, n) ==
  /\ P \in Seq(Packets) /\ Len(P) = n
  /\ L \in Seq(Headers) /\ \A i \in 1..Len(L) : ~L[i].lastInPacket
  /\ Front(N) = P /\ Last(N) = L

\* sbfBatchNextBuffer keeps the last packet or adds an empty one.
LEMMA NextBufferIs ==
  ASSUME NEW X \in Seq(Packets), Filling(X)
  PROVE  \E P, L : \E n \in Nat :
           /\ Shape(P, L, NextBuffer(X), n)
           /\ PacketSize - Used(L) \in Int /\ PacketSize - Used(L) > HeaderSize
           /\ \A F : IsFlat(F, X) => \E G : IsFlat(G, P) /\ F = G \o Cores(L)
<1>0. HeaderSize \in Nat /\ PacketSize \in Nat /\ HeaderSize < PacketSize
  BY MessagesAssumption
<1>1. CASE X # << >> /\ PacketSize - Used(Last(X)) > HeaderSize
  <2>1. PICK n \in Nat : n + 1 = Len(X)
    <3>1. Len(X) - 1 \in Nat /\ (Len(X) - 1) + 1 = Len(X)
      BY <1>1
    <3> QED BY <3>1
  <2>2. PICK P : P = Front(X)
    OBVIOUS
  <2>3. PICK L : L = Last(X)
    OBVIOUS
  <2>4. /\ P \in Seq(Packets) /\ Len(P) = n /\ \A i \in 1..n : P[i] = X[i]
        /\ L = X[n + 1] /\ L \in Packets
    <3>1. /\ P \in Seq(Packets) /\ Len(P) = n /\ \A i \in 1..n : P[i] = X[i]
          /\ Last(X) = X[n + 1] /\ X[n + 1] \in Packets
      BY <2>1, <2>2, PacketsFront
    <3> QED BY <2>3, <3>1
  <2>6. ASSUME NEW i \in 1..Len(L) PROVE ~L[i].lastInPacket
    <3>1. ~Ends(L)
      <4>1. n + 1 \in 1..Len(X) /\ ~(n + 1 < Len(X))
        BY <2>1
      <4> QED BY <2>4, <4>1 DEF Filling
    <3> QED BY <2>4, <3>1, PacketIs DEF Ends
  <2>7. L \in Seq(Headers) /\ Used(L) \in Nat
    BY <2>4, PacketIs, UsedNat
  <2>8. NextBuffer(X) = X
    BY <1>1 DEF NextBuffer
  <2>9. ASSUME NEW F, IsFlat(F, X) PROVE \E G : IsFlat(G, P) /\ F = G \o Cores(L)
    <3>1. X \in Seq(Seq(Headers))
      BY PacketsAre
    <3>2. n \in 0..Len(X)
      BY <2>1
    <3>3. PICK G, H : /\ F = G \o H /\ IsFlat(G, SubSeq(X, 1, n))
                      /\ IsFlat(H, SubSeq(X, n + 1, Len(X)))
      BY <2>9, <3>1, <3>2, FlatSplit
    <3>4. SubSeq(X, 1, n) = P
      <4>1. Len(X) - 1 = n
        BY <2>1
      <4> QED BY <2>2, <4>1 DEF Front
    <3>5. SubSeq(X, n + 1, Len(X)) = <<L>>
      <4>1. PICK s : s = SubSeq(X, n + 1, n + 1)
        OBVIOUS
      <4>2. n + 1 <= Len(X) /\ 1 \in Nat
        BY <2>1
      <4>3. s \in Seq(Packets) /\ Len(s) = 1 /\ \A k \in 1..1 : s[k] = X[n + k]
        BY <4>1, <4>2, SliceIs
      <4>4. s[1] = L
        BY <2>4, <4>3
      <4>5. s = <<L>>
        BY <4>3, <4>4
      <4> QED BY <2>1, <4>1, <4>5
    <3>6. H = Cores(L)
      BY <2>4, <3>3, <3>5, FlatHead
    <3> QED BY <3>3, <3>4, <3>6
  <2>10. Shape(P, L, NextBuffer(X), n)
    BY <2>2, <2>3, <2>4, <2>6, <2>7, <2>8 DEF Shape
  <2>11. PacketSize - Used(L) \in Int /\ PacketSize - Used(L) > HeaderSize
    BY <1>0, <1>1, <2>3, <2>7
  <2> QED BY <2>9, <2>10, <2>11
<1>2. CASE ~(X # << >> /\ PacketSize - Used(Last(X)) > HeaderSize)
  <2>1. PICK n \in Nat : n = Len(X)
    OBVIOUS
  <2>2. X \in Seq(Seq(Headers)) /\ << >> \in Seq(Headers)
    BY PacketsAre
  <2>3. PICK N : N = Append(X, << >>)
    OBVIOUS
  <2>4. N \in Seq(Seq(Headers)) /\ Len(N) = n + 1 /\ (\A i \in 1..n : N[i] = X[i]) /\ N[n + 1] = << >>
    BY <2>1, <2>2, <2>3, AppendIs
  <2>5. NextBuffer(X) = N
    BY <1>2, <2>3 DEF NextBuffer
  <2>6. PICK c : c = Front(N)
    OBVIOUS
  <2>7. /\ c \in Seq(Seq(Headers)) /\ Len(c) = n /\ (\A i \in 1..n : c[i] = N[i])
        /\ Last(N) = N[n + 1]
    <3>1. N \in Seq(Seq(Headers)) /\ n + 1 = Len(N)
      BY <2>4
    <3>2. c \in Seq(Seq(Headers)) /\ IsFront(c, N, n)
      BY <2>6, <3>1, FrontIs
    <3> QED BY <3>2 DEF IsFront
  <2>8. c = X
    <3>1. \A i \in 1..n : c[i] = X[i]
      BY <2>4, <2>7
    <3> QED BY <2>1, <2>2, <2>7, <3>1, SeqEqual
  <2>9. X \in Seq(Packets) /\ Len(<< >>) = 0
    OBVIOUS
  <2>10. Shape(X, << >>, NextBuffer(X), n)
    BY <2>1, <2>2, <2>4, <2>5, <2>6, <2>7, <2>8, <2>9 DEF Shape
  <2>11. PacketSize - Used(<< >>) \in Int /\ PacketSize - Used(<< >>) > HeaderSize
    <3>1. Used(<< >>) = 0
      BY <2>2, UsedNat
    <3> QED BY <1>0, <3>1
  <2>12. ASSUME NEW F, IsFlat(F, X) PROVE IsFlat(F, X) /\ F = F \o Cores(<< >>)
    <3>1. F \in Seq(CoreSet)
      BY <2>12 DEF IsFlat
    <3>2. F \o << >> = F
      BY <3>1, ConcatEmptySeq
    <3> QED BY <2>12, <3>2, CoresEmpty
  <2> QED BY <2>10, <2>11, <2>12
<1> QED BY <1>1, <1>2

\* sbfBatchUpdateBuffer for each of the headers: their packets, the flat way.
LEMMA UpdateBuffersIs ==
  ASSUME NEW P, NEW L, NEW N, NEW n \in Nat, Shape(P, L, N, n),
         NEW hs \in Seq(Headers), Len(hs) > 0, \A k \in 1..Len(hs) : ~hs[k].lastInPacket
  PROVE  /\ UpdateBuffers(N, hs) \in Seq(Packets) /\ Len(UpdateBuffers(N, hs)) > 0
         /\ Filling(UpdateBuffers(N, hs))
         /\ \A G : IsFlat(G, P) => IsFlat((G \o Cores(L)) \o Cores(hs), UpdateBuffers(N, hs))
<1>1. PICK r \in Nat : r + 1 = Len(hs)
  <2>1. Len(hs) - 1 \in Nat /\ (Len(hs) - 1) + 1 = Len(hs)
    OBVIOUS
  <2> QED BY <2>1
<1>2. /\ P \in Seq(Packets) /\ Len(P) = n
      /\ L \in Seq(Headers) /\ \A i \in 1..Len(L) : ~L[i].lastInPacket
      /\ Front(N) = P /\ Last(N) = L
  BY DEF Shape
<1>3. PICK h : h = hs[1] /\ h = Head(hs) /\ h \in Headers /\ ~h.lastInPacket
  <2>1. 1 \in 1..Len(hs) /\ Head(hs) = hs[1] /\ hs[1] \in Headers
    BY <1>1
  <2> QED BY <2>1
<1>4. PICK t : t = SubSeq(hs, 2, r + 1)
  OBVIOUS
<1>5. t \in Seq(Headers) /\ Len(t) = r /\ \A k \in 1..r : t[k] = hs[1 + k]
  <2>1. t = SubSeq(hs, 1 + 1, 1 + r) /\ 1 + r <= Len(hs) /\ 1 \in Nat
    BY <1>1, <1>4
  <2> QED BY <2>1, SliceIs
<1>6. hs = <<h>> \o t
  <2>1. hs = SubSeq(hs, 1, r + 1)
    BY <1>1, SubSeqFull
  <2>2. 1 \in 1..Len(hs) /\ r + 1 \in 1..Len(hs)
    BY <1>1
  <2>3. SubSeq(hs, 1, r + 1) = <<hs[1]>> \o SubSeq(hs, 1 + 1, r + 1)
    BY <2>2, SubSeqRecursiveFirst
  <2> QED BY <1>3, <1>4, <2>1, <2>3
<1>7. PICK m : m = Append(L, h)
  OBVIOUS
<1>8. m \in Packets /\ ~Ends(m) /\ m = L \o <<h>>
  <2>1. PICK l \in Nat : l = Len(L)
    BY <1>2
  <2>2. m \in Seq(Headers) /\ Len(m) = l + 1 /\ (\A i \in 1..l : m[i] = L[i]) /\ m[l + 1] = h
    BY <1>2, <1>3, <1>7, <2>1, AppendIs
  <2>3. \A i \in 1..(l + 1) : ~m[i].lastInPacket
    <3>1. \A i \in 1..(l + 1) : i = l + 1 \/ i \in 1..l
      BY <2>1
    <3> QED BY <1>2, <1>3, <2>1, <2>2, <3>1
  <2>4. Len(m) > 0 /\ Len(m) \in 1..(l + 1)
    BY <2>1, <2>2
  <2>5. m = L \o <<h>>
    BY <1>2, <1>3, <1>7
  <2> QED BY <2>2, <2>3, <2>4, <2>5 DEF Packets, Ends
<1>9. PICK S : S = Singles(t)
  OBVIOUS
<1>10. S \in Seq(Packets) /\ Len(S) = r /\ (\A i \in 1..r : S[i] = <<t[i]>>) /\ IsFlat(Cores(t), S)
  BY <1>5, <1>9, SinglesAre
<1>11. ASSUME NEW i \in 1..r PROVE ~Ends(S[i])
  <2>1. S[i] = <<t[i]>> /\ t[i] = hs[1 + i] /\ 1 + i \in 1..Len(hs)
    BY <1>1, <1>5, <1>10
  <2>2. Len(<<t[i]>>) = 1 /\ <<t[i]>>[1] = t[i]
    OBVIOUS
  <2> QED BY <2>1, <2>2 DEF Ends
<1>12. PICK A : A = P \o <<m>>
  OBVIOUS
<1>13. A \in Seq(Packets) /\ Len(A) = n + 1 /\ (\A i \in 1..n : A[i] = P[i]) /\ A[n + 1] = m
  <2>1. A = Append(P, m)
    BY <1>2, <1>8, <1>12, AppendIsConcat
  <2>2. n = Len(P)
    BY <1>2
  <2> QED BY <1>2, <1>8, <2>1, <2>2, AppendIs
<1>14. PICK filled : filled = A \o S
  OBVIOUS
<1>15. PICK z \in Nat : z = n + 1 + r /\ z > 0
  <2>1. n + 1 + r \in Nat /\ n + 1 + r > 0
    OBVIOUS
  <2> QED BY <2>1
<1>16. /\ filled \in Seq(Packets) /\ Len(filled) = z
       /\ \A i \in 1..(n + 1) : filled[i] = A[i]
       /\ \A i \in 1..r : filled[n + 1 + i] = S[i]
  <2>1. PICK m1 \in Nat : m1 = n + 1
    OBVIOUS
  <2>2. m1 = Len(A) /\ r = Len(S) /\ A \in Seq(Packets) /\ S \in Seq(Packets)
    BY <1>10, <1>13, <2>1
  <2>3. /\ filled \in Seq(Packets) /\ Len(filled) = m1 + r
        /\ \A i \in 1..m1 : filled[i] = A[i]
        /\ \A i \in 1..r : filled[m1 + i] = S[i]
    BY <1>14, <2>2, ConcatIs
  <2> QED BY <1>15, <2>1, <2>3
<1>17. ~Ends(filled[z])
  <2>1. CASE r = 0
    <3>1. z = n + 1 /\ n + 1 \in 1..(n + 1)
      BY <1>15, <2>1
    <3>2. filled[n + 1] = A[n + 1]
      BY <1>16, <3>1
    <3> QED BY <1>8, <1>13, <3>1, <3>2
  <2>2. CASE r # 0
    <3>1. r \in 1..r /\ filled[z] = S[r]
      BY <1>15, <1>16, <2>2
    <3> QED BY <1>11, <3>1
  <2> QED BY <2>1, <2>2
<1>18. PICK Y : Y = UpdateBuffers(N, hs)
  OBVIOUS
<1>19. Y = [i \in 1..z |-> IF i < z THEN Closed(filled[i]) ELSE filled[i]]
  <2>1. [k \in 1..Len(hs) - 1 |-> <<hs[k + 1]>>] = S
    <3>1. Len(hs) - 1 = r
      BY <1>1
    <3>2. \A k \in 1..r : <<t[k]>> = <<hs[k + 1]>>
      <4>1. \A k \in 1..r : 1 + k = k + 1
        OBVIOUS
      <4> QED BY <1>5, <4>1
    <3>3. S = [k \in 1..r |-> <<t[k]>>]
      BY <1>5, <1>9 DEF Singles
    <3> QED BY <3>1, <3>2, <3>3
  <2>2. <<Append(Last(N), Head(hs))>> = <<m>>
    BY <1>2, <1>3, <1>7
  <2>3. DOMAIN filled = 1..z
    BY <1>16
  <2> QED BY <1>2, <1>12, <1>14, <1>16, <1>18, <2>1, <2>2, <2>3 DEF UpdateBuffers
<1>20. ASSUME NEW i \in 1..z
       PROVE  /\ Y[i] \in Packets /\ (Ends(Y[i]) <=> i < z)
              /\ Len(Y[i]) = Len(filled[i])
              /\ \A k \in 1..Len(filled[i]) : Core(Y[i][k]) = Core(filled[i][k])
  <2>1. filled[i] \in Packets
    BY <1>16
  <2>2. CASE i < z
    <3>1. Y[i] = Closed(filled[i])
      BY <1>19, <2>2
    <3> QED BY <2>1, <2>2, <3>1, ClosedIs
  <2>3. CASE ~(i < z)
    <3>1. Y[i] = filled[i] /\ i = z
      BY <1>19, <2>3
    <3> QED BY <1>17, <2>1, <2>3, <3>1
  <2> QED BY <2>2, <2>3
<1>21. Y \in Seq(Packets) /\ Len(Y) = z
  <2>1. Y \in [1..z -> Packets]
    BY <1>19, <1>20
  <2> QED BY <1>19, <2>1
<1>22. Filling(Y)
  BY <1>20, <1>21 DEF Filling
<1>23. ASSUME NEW G, IsFlat(G, P) PROVE IsFlat((G \o Cores(L)) \o Cores(hs), Y)
  <2>1. /\ P \in Seq(Seq(Headers)) /\ S \in Seq(Seq(Headers)) /\ A \in Seq(Seq(Headers))
        /\ filled \in Seq(Seq(Headers)) /\ Y \in Seq(Seq(Headers))
    BY <1>2, <1>10, <1>13, <1>16, <1>21, PacketsAre
  <2>2. m \in Seq(Headers)
    BY <1>8, PacketIs
  <2>3. <<m>> \in Seq(Seq(Headers)) /\ IsFlat(Cores(m), <<m>>)
    BY <2>2, FlatOne
  <2>4. IsFlat(G \o Cores(m), A)
    BY <1>12, <1>23, <2>1, <2>3, FlatConcat
  <2>5. IsFlat((G \o Cores(m)) \o Cores(t), filled)
    BY <1>10, <1>14, <2>1, <2>4, FlatConcat
  <2>6. IsFlat((G \o Cores(m)) \o Cores(t), Y)
    <3>1. Len(filled) = Len(Y)
      BY <1>16, <1>21
    <3>2. \A i \in 1..Len(filled) : /\ Len(Y[i]) = Len(filled[i])
                                    /\ \A k \in 1..Len(filled[i]) : Core(Y[i][k]) = Core(filled[i][k])
      BY <1>16, <1>20
    <3> QED BY <2>1, <2>5, <3>1, <3>2, FlatSame
  <2>7. Cores(m) = Cores(L) \o <<Core(h)>> /\ Cores(hs) = <<Core(h)>> \o Cores(t)
    <3>1. <<h>> \in Seq(Headers)
      BY <1>3
    <3>2. Cores(L \o <<h>>) = Cores(L) \o Cores(<<h>>) /\ Cores(<<h>> \o t) = Cores(<<h>>) \o Cores(t)
      BY <1>2, <1>5, <3>1, CoresConcat
    <3> QED BY <1>3, <1>6, <1>8, <3>2, CoresOne
  <2>8. PICK a, b, c : a = Cores(L) /\ b = <<Core(h)>> /\ c = Cores(t)
    OBVIOUS
  <2>9. G \in Seq(CoreSet) /\ a \in Seq(CoreSet) /\ b \in Seq(CoreSet) /\ c \in Seq(CoreSet)
    BY <1>2, <1>3, <1>5, <1>23, <2>8, CoresType, CoreType DEF IsFlat
  <2>10. (G \o (a \o b)) \o c = (G \o a) \o (b \o c)
    <3>1. G \o (a \o b) = (G \o a) \o b
      BY <2>9, CoreAssoc
    <3>2. PICK d : d = G \o a
      OBVIOUS
    <3>3. d \in Seq(CoreSet)
      BY <2>9, <3>2, ConcatProperties
    <3>4. (d \o b) \o c = d \o (b \o c)
      BY <2>9, <3>3, CoreAssoc
    <3> QED BY <3>1, <3>2, <3>4
  <2> QED BY <2>6, <2>7, <2>8, <2>10
<1> QED BY <1>15, <1>18, <1>21, <1>22, <1>23

-----------------------------------------------------------------------------
(* The invariant of the senders, the network and the topic. *)

BufferOK(b) == IF b \in sending THEN mBuffers[b] # << >> /\ AllEnd(mBuffers[b])
               ELSE Filling(mBuffers[b])

SendOK ==
  /\ handler \in Handlers /\ begun \in [Senders -> Nat]
  /\ job \in [Pubs -> Seq(Headers)] /\ mSendLock \in Pubs \cup {NULL}
  /\ \A p \in Pubs : /\ mSendLock = p <=> job[p] # << >>
                     /\ \A i \in 1..Len(job[p]) : job[p][i].lastInPacket
  /\ mBuffers \in [Batches -> Seq(Packets)] /\ sending \subseteq Batches
  /\ \A b \in Batches : BufferOK(b)

WireOK ==
  /\ wire \in Seq(Packets) /\ lost \in Nat /\ input \in Seq(Headers) /\ reading \in BOOLEAN
  /\ reading => input # << >>
  /\ handler = "udp" => AllEnd(wire) /\ (~reading => input = << >>)
  /\ handler = "tcpmesh" => \A i \in 1..Len(wire) : Len(wire[i]) = 1

TopicOK ==
  /\ mSubs \in Seq(Subs) /\ Distinct(mSubs) /\ (mNext # NULL => Has(mSubs, mNext))
  /\ mNext \in Subs \cup {NULL}
  /\ mFragNum \in Nat /\ mFragData \in Seq(Pieces)
  /\ handled \in Seq(Headers) /\ dispatched \in Seq(Seq(Pieces))
  /\ mDestroyed \subseteq Subs /\ got \in [Subs -> Seq(Seq(Pieces))]
  /\ since \in [Subs -> Nat \cup {-1}] /\ until \in [Subs -> Nat \cup {-1}]
  /\ \A s \in Subs : Has(mSubs, s) => since[s] # -1

Types == SendOK /\ WireOK /\ TopicOK

\* W are the headers on the wire and B those of each batch.
StreamOf(W, B, ps, bufs) ==
  /\ IsFlat(W, ps)
  /\ B \in [Batches -> Seq(CoreSet)] /\ \A b \in Batches : IsFlat(B[b], bufs[b])

\* The invariant holds at first, when nothing is on its way.
LEMMA InitTypes ==
  ASSUME Init
  PROVE  /\ Types
         /\ \E B : StreamOf(<< >>, B, wire, mBuffers) /\ \A b \in Batches : B[b] = << >>
<1>1. SendOK
  <2>1. NULL \notin Pubs
    BY MessagesAssumption DEF Senders
  <2>2. \A b \in Batches : BufferOK(b)
    BY DEF Init, BufferOK, Filling
  <2> QED BY <2>1, <2>2 DEF Init, SendOK
<1>2. WireOK
  <2>1. Len(<< >>) = 0 /\ << >> \in Seq(Packets) /\ << >> \in Seq(Headers) /\ 1..0 = {}
    OBVIOUS
  <2> QED BY <2>1 DEF Init, WireOK, AllEnd
<1>3. TopicOK
  BY DEF Init, TopicOK, Distinct, Has
<1>4. PICK B : B = [b \in Batches |-> << >>]
  OBVIOUS
<1>5. StreamOf(<< >>, B, wire, mBuffers)
  <2>1. << >> \in Seq(CoreSet)
    OBVIOUS
  <2> QED BY <1>4, <2>1, FlatEmpty DEF Init, StreamOf
<1> QED BY <1>1, <1>2, <1>3, <1>4, <1>5 DEF Types

\* Send puts the headers of the packet behind those on the wire.
LEMMA SendIs ==
  ASSUME WireOK, handler \in Handlers, NEW x \in Packets, Ends(x), Send(x), NEW w, w = wire'
  PROVE  /\ w \in Seq(Packets)
         /\ handler = "udp" => AllEnd(w)
         /\ handler = "tcpmesh" => \A i \in 1..Len(w) : Len(w[i]) = 1
         /\ \A W : IsFlat(W, wire) => IsFlat(W \o Cores(x), w)
<1>1. PICK n \in Nat : n = Len(wire)
  BY DEF WireOK
<1>2. wire \in Seq(Packets) /\ wire \in Seq(Seq(Headers)) /\ x \in Seq(Headers)
  BY PacketsAre, PacketIs DEF WireOK
<1>3. handler = "udp" \/ handler = "tcpmesh"
  BY MessagesAssumption
<1>4. CASE handler = "tcpmesh"
  <2>1. PICK m \in Nat : m = Len(x) /\ DOMAIN x = 1..m
    BY <1>2
  <2>2. PICK s : s = Singles(x)
    OBVIOUS
  <2>3. /\ s \in Seq(Packets) /\ Len(s) = m /\ (\A i \in 1..m : Len(s[i]) = 1)
        /\ IsFlat(Cores(x), s)
    BY <1>2, <2>1, <2>2, SinglesAre
  <2>4. w = wire \o s
    BY <1>4, <2>1, <2>2 DEF Send, Singles
  <2>5. /\ w \in Seq(Packets) /\ Len(w) = n + m
        /\ (\A i \in 1..n : w[i] = wire[i]) /\ \A i \in 1..m : w[n + i] = s[i]
    <3>1. Len(s) = m /\ s \in Seq(Packets)
      BY <2>3
    <3>2. wire \in Seq(Packets)
      BY <1>2
    <3>3. PICK a : a \in Seq(Packets) /\ a = wire
      BY <3>2
    <3>4. PICK b : b \in Seq(Packets) /\ b = s
      BY <3>1
    <3>5. n = Len(a) /\ m = Len(b)
      BY <1>1, <3>1, <3>3, <3>4
    <3>6. PICK c : c = a \o b
      OBVIOUS
    <3>7. /\ c \in Seq(Packets) /\ Len(c) = n + m
          /\ (\A i \in 1..n : c[i] = a[i]) /\ \A i \in 1..m : c[n + i] = b[i]
      <4>1. a \in Seq(Packets) /\ b \in Seq(Packets)
        BY <3>3, <3>4
      <4> QED BY <3>5, <3>6, <4>1, PacketsConcat
    <3> QED BY <2>4, <3>3, <3>4, <3>6, <3>7
  <2>6. \A i \in 1..n : Len(wire[i]) = 1
    BY <1>1, <1>4 DEF WireOK
  <2>7. ASSUME NEW i \in 1..Len(w) PROVE Len(w[i]) = 1
    <3>1. CASE i <= n
      <4>1. i \in 1..n
        BY <3>1
      <4> QED BY <2>5, <2>6, <4>1
    <3>2. CASE i > n
      <4>1. PICK k \in 1..m : n + k = i
        <5>1. i \in 1..(n + m)
          BY <2>5
        <5>2. i - n \in 1..m /\ n + (i - n) = i
          BY <3>2, <5>1
        <5> QED BY <5>2
      <4>2. w[i] = s[k]
        BY <2>5, <4>1
      <4> QED BY <2>3, <4>2
    <3> QED BY <3>1, <3>2
  <2>8. s \in Seq(Seq(Headers))
    BY <2>3, PacketsAre
  <2>9. \A W : IsFlat(W, wire) => IsFlat(W \o Cores(x), w)
    BY <1>2, <2>3, <2>4, <2>8, FlatConcat
  <2> QED BY <1>4, <2>5, <2>7, <2>9
<1>5. CASE handler = "udp"
  <2>1. w = Append(wire, x)
    BY <1>5 DEF Send
  <2>2. /\ w \in Seq(Packets) /\ Len(w) = n + 1
        /\ (\A i \in 1..n : w[i] = wire[i]) /\ w[n + 1] = x
    BY <1>1, <1>2, <2>1, AppendIs
  <2>3. \A i \in 1..n : Ends(wire[i])
    BY <1>1, <1>5 DEF WireOK, AllEnd
  <2>4. AllEnd(w)
    <3>1. \A i \in 1..(n + 1) : i \in 1..n \/ i = n + 1
      OBVIOUS
    <3> QED BY <2>2, <2>3, <3>1 DEF AllEnd
  <2>5. w = wire \o <<x>>
    BY <1>2, <2>1
  <2>6. <<x>> \in Seq(Seq(Headers)) /\ IsFlat(Cores(x), <<x>>)
    BY <1>2, FlatOne
  <2>7. \A W : IsFlat(W, wire) => IsFlat(W \o Cores(x), w)
    BY <1>2, <2>5, <2>6, FlatConcat
  <2> QED BY <1>5, <2>2, <2>4, <2>7
<1> QED BY <1>3, <1>4, <1>5

\* The next message of a publisher is a message.
LEMMA MessageIs ==
  ASSUME SendOK, NEW p \in Senders, NEW size \in Sizes
  PROVE  /\ Message(p, size) \in Messages /\ Message(p, size).size = size
         /\ Message(p, size).pub = p /\ Message(p, size).num = begun[p] + 1
         /\ begun[p] \in Nat
BY DEF SendOK, Message, Messages

\* Begin counts one message of one sender.
LEMMA BeginIs ==
  ASSUME SendOK, NEW p \in Senders, Begin(p)
  PROVE  /\ begun' \in [Senders -> Nat] /\ begun'[p] = begun[p] + 1
         /\ \A q \in Senders : q # p => begun'[q] = begun[q]
<1>1. begun' = [begun EXCEPT ![p] = @ + 1]
  BY Zenon DEF Begin
<1>2. begun \in [Senders -> Nat]
  BY DEF SendOK
<1> QED BY <1>1, <1>2

\* PubSend keeps the invariant and puts one header on the wire.
LEMMA PubSendTypes ==
  ASSUME Types, NEW p \in Pubs, NEW size \in Sizes, PubSend(p, size)
  PROVE  /\ Types'
         /\ \A W, B : StreamOf(W, B, wire, mBuffers)
              => StreamOf(W \o <<Core(Unfragmented(Message(p, size), TRUE))>>, B, wire', mBuffers')
<1>1. PICK h : h = Unfragmented(Message(p, size), TRUE)
  OBVIOUS
<1>2. p \in Senders
  BY DEF Senders
<1>3. h \in Headers /\ h.lastInPacket = TRUE
  BY <1>1, <1>2, MessageIs, UnfragmentedIs DEF Types
<1>4. PICK x : x = <<h>>
  OBVIOUS
<1>5. x \in Packets /\ Ends(x) /\ Cores(x) = <<Core(h)>>
  BY <1>3, <1>4, CoresOne DEF Packets, Ends
<1>6. PICK w : w = wire'
  OBVIOUS
<1>7. Send(x) /\ Begin(p) /\ UNCHANGED <<handler, job, mSendLock, mBuffers, sending, lost, readVars,
                                         topicVars, subVars, historyVars>>
  BY <1>1, <1>4 DEF PubSend
<1>8. /\ w \in Seq(Packets)
      /\ handler = "udp" => AllEnd(w)
      /\ handler = "tcpmesh" => \A i \in 1..Len(w) : Len(w[i]) = 1
      /\ \A W : IsFlat(W, wire) => IsFlat(W \o Cores(x), w)
  BY <1>5, <1>6, <1>7, SendIs DEF Types, SendOK
<1>9. SendOK'
  <2>1. begun' \in [Senders -> Nat]
    BY <1>2, <1>7, BeginIs DEF Types
  <2> QED BY <1>7, <2>1 DEF Types, SendOK, BufferOK
<1>10. WireOK'
  BY <1>6, <1>7, <1>8 DEF Types, WireOK, readVars
<1>11. TopicOK'
  BY <1>7 DEF Types, TopicOK, topicVars, subVars, historyVars
<1>12. ASSUME NEW W, NEW B, StreamOf(W, B, wire, mBuffers)
       PROVE  StreamOf(W \o <<Core(h)>>, B, wire', mBuffers')
  BY <1>5, <1>6, <1>7, <1>8, <1>12 DEF StreamOf
<1> QED BY <1>1, <1>9, <1>10, <1>11, <1>12 DEF Types

\* The first packet comes off its list.
LEMMA FlatFirst ==
  ASSUME NEW ps \in Seq(Packets), ps # << >>, NEW F, IsFlat(F, ps)
  PROVE  /\ Head(ps) \in Packets /\ Head(ps) = ps[1] /\ Tail(ps) \in Seq(Packets)
         /\ Len(Tail(ps)) = Len(ps) - 1
         /\ \A i \in 1..Len(ps) - 1 : Tail(ps)[i] = ps[i + 1]
         /\ \E H : F = Cores(Head(ps)) \o H /\ H \in Seq(CoreSet) /\ IsFlat(H, Tail(ps))
<1>1. PICK n \in Nat : n + 1 = Len(ps)
  <2>1. Len(ps) - 1 \in Nat /\ (Len(ps) - 1) + 1 = Len(ps)
    OBVIOUS
  <2> QED BY <2>1
<1>2. ps \in Seq(Seq(Headers)) /\ 1 \in 1..Len(ps) /\ 1 \in 0..Len(ps)
  BY <1>1, PacketsAre
<1>3. Head(ps) = ps[1] /\ ps[1] \in Packets
  BY <1>1, <1>2
<1>4. PICK G, H : /\ F = G \o H /\ H \in Seq(CoreSet) /\ IsFlat(G, SubSeq(ps, 1, 1))
                  /\ IsFlat(H, SubSeq(ps, 1 + 1, Len(ps)))
  BY <1>2, FlatSplit
<1>5. PICK x : x = ps[1]
  OBVIOUS
<1>6. SubSeq(ps, 1, 1) = <<x>>
  <2>1. PICK s : s = SubSeq(ps, 1, 1)
    OBVIOUS
  <2>2. \A k \in 1..1 : ps[k] \in Packets
    BY <1>3
  <2>3. s \in Seq(Packets) /\ Len(s) = 1 /\ s[1] = ps[1]
    BY <2>1, <2>2, SubSeqProperties
  <2>4. s = <<x>>
    BY <1>5, <2>3
  <2> QED BY <2>1, <2>4
<1>7. SubSeq(ps, 1 + 1, Len(ps)) = Tail(ps)
  BY <1>1
<1>8. G = Cores(x)
  BY <1>3, <1>4, <1>5, <1>6, FlatHead
<1>9. Tail(ps) \in Seq(Packets) /\ Len(Tail(ps)) = Len(ps) - 1
      /\ \A i \in 1..Len(ps) - 1 : Tail(ps)[i] = ps[i + 1]
  OBVIOUS
<1> QED BY <1>3, <1>4, <1>5, <1>7, <1>8, <1>9

\* FragmentLock keeps the invariant; the job is the fragments of the next message.
LEMMA FragmentLockTypes ==
  ASSUME Types, NEW p \in Pubs, NEW size \in Sizes, FragmentLock(p, size)
  PROVE  /\ Types'
         /\ \E m \in Messages : /\ m.pub = p /\ m.num = begun[p] + 1
                                /\ InFragments(job'[p], m, TRUE)
<1>1. p \in Senders
  BY DEF Senders
<1>2. PICK m \in Messages : m = Message(p, size) /\ m.pub = p /\ m.num = begun[p] + 1
  BY <1>1, MessageIs DEF Types
<1>3. PICK F : F = Fragments(m, Room, TRUE)
  OBVIOUS
<1>4. InFragments(F, m, TRUE)
  BY <1>3, FragmentsIs, SizesOK
<1>5. F \in Seq(Headers) /\ F # << >> /\ \A i \in 1..Len(F) : F[i].lastInPacket
  BY <1>4 DEF InFragments
<1>6. /\ job[p] = << >> /\ mSendLock = NULL /\ Begin(p) /\ mSendLock' = p
      /\ job' = [job EXCEPT ![p] = F]
      /\ UNCHANGED <<handler, mBuffers, sending, wire, lost, readVars, topicVars,
                     subVars, historyVars>>
  BY <1>2, <1>3 DEF FragmentLock
<1>7. SendOK'
  <2>1. begun' \in [Senders -> Nat]
    BY <1>1, <1>6, BeginIs DEF Types
  <2>2. job' \in [Pubs -> Seq(Headers)] /\ job'[p] = F /\ \A q \in Pubs : q # p => job'[q] = job[q]
    BY <1>5, <1>6 DEF Types, SendOK
  <2>3. \A q \in Pubs : job[q] = << >>
    <3>1. NULL \notin Pubs
      BY MessagesAssumption DEF Senders
    <3> QED BY <1>6, <3>1 DEF Types, SendOK
  <2>4. \A q \in Pubs : /\ mSendLock' = q <=> job'[q] # << >>
                        /\ \A i \in 1..Len(job'[q]) : job'[q][i].lastInPacket
    BY <1>5, <1>6, <2>2, <2>3
  <2> QED BY <1>6, <2>1, <2>2, <2>4 DEF Types, SendOK, BufferOK
<1>8. WireOK'
  BY <1>6 DEF Types, WireOK, readVars
<1>9. TopicOK'
  BY <1>6 DEF Types, TopicOK, topicVars, subVars, historyVars
<1>10. job'[p] = F
  BY <1>6 DEF Types, SendOK
<1> QED BY <1>2, <1>4, <1>7, <1>8, <1>9, <1>10 DEF Types

\* FragmentSend keeps the invariant and puts the next fragment on the wire.
LEMMA FragmentSendTypes ==
  ASSUME Types, NEW p \in Pubs, FragmentSend(p)
  PROVE  /\ Types' /\ mSendLock = p /\ Head(job[p]) \in Headers
         /\ job[p] \in Seq(Headers) /\ job[p] # << >>
         /\ job' = [job EXCEPT ![p] = Tail(@)]
         /\ \A W, B : StreamOf(W, B, wire, mBuffers)
              => StreamOf(W \o <<Core(Head(job[p]))>>, B, wire', mBuffers')
<1>1. /\ job[p] # << >> /\ Send(<<Head(job[p])>>)
      /\ job' = [job EXCEPT ![p] = Tail(@)]
      /\ mSendLock' = IF Len(job[p]) = 1 THEN NULL ELSE mSendLock
      /\ UNCHANGED <<handler, begun, mBuffers, sending, lost, readVars, topicVars,
                     subVars, historyVars>>
  BY DEF FragmentSend
<1>2. PICK j : j = job[p]
  OBVIOUS
<1>3. j \in Seq(Headers) /\ j # << >> /\ (\A i \in 1..Len(j) : j[i].lastInPacket) /\ mSendLock = p
  BY <1>1, <1>2 DEF Types, SendOK
<1>4. PICK n \in Nat : n + 1 = Len(j)
  <2>1. Len(j) - 1 \in Nat /\ (Len(j) - 1) + 1 = Len(j)
    BY <1>3
  <2> QED BY <2>1
<1>5. PICK t : t = Tail(j)
  OBVIOUS
<1>6. t \in Seq(Headers) /\ Len(t) = n /\ \A i \in 1..n : t[i] = j[i + 1]
  BY <1>3, <1>4, <1>5
<1>7. PICK h : h = Head(j)
  OBVIOUS
<1>8. h \in Headers /\ h = j[1] /\ h.lastInPacket
  <2>1. 1 \in 1..Len(j)
    BY <1>4
  <2> QED BY <1>3, <1>7, <2>1
<1>9. PICK x : x = <<h>>
  OBVIOUS
<1>10. x \in Packets /\ Ends(x) /\ Cores(x) = <<Core(h)>>
  BY <1>8, <1>9, CoresOne DEF Packets, Ends
<1>11. PICK w : w = wire'
  OBVIOUS
<1>12. Send(x)
  BY <1>1, <1>2, <1>7, <1>9
<1>13. /\ w \in Seq(Packets)
       /\ handler = "udp" => AllEnd(w)
       /\ handler = "tcpmesh" => \A i \in 1..Len(w) : Len(w[i]) = 1
       /\ \A W : IsFlat(W, wire) => IsFlat(W \o Cores(x), w)
  BY <1>10, <1>11, <1>12, SendIs DEF Types, SendOK
<1>14. SendOK'
  <2>1. job' \in [Pubs -> Seq(Headers)] /\ job'[p] = t /\ \A q \in Pubs : q # p => job'[q] = job[q]
    BY <1>1, <1>2, <1>5, <1>6 DEF Types, SendOK
  <2>2. NULL \notin Pubs
    BY MessagesAssumption DEF Senders
  <2>3. \A q \in Pubs : q # p => job[q] = << >>
    BY <1>3 DEF Types, SendOK
  <2>4. mSendLock' = p <=> t # << >>
    BY <1>1, <1>2, <1>3, <1>4, <1>6, <2>2
  <2>5. \A i \in 1..Len(t) : t[i].lastInPacket
    <3>1. \A i \in 1..n : i + 1 \in 1..Len(j)
      BY <1>4
    <3> QED BY <1>3, <1>6, <3>1
  <2>6. \A q \in Pubs : q # p => mSendLock' # q
    BY <1>1, <1>3, <2>2
  <2>7. \A q \in Pubs : /\ mSendLock' = q <=> job'[q] # << >>
                        /\ \A i \in 1..Len(job'[q]) : job'[q][i].lastInPacket
    <3> SUFFICES ASSUME NEW q \in Pubs
                 PROVE  /\ mSendLock' = q <=> job'[q] # << >>
                        /\ \A i \in 1..Len(job'[q]) : job'[q][i].lastInPacket
      OBVIOUS
    <3>1. CASE q = p
      BY <2>1, <2>4, <2>5, <3>1
    <3>2. CASE q # p
      BY <2>1, <2>3, <2>6, <3>2
    <3> QED BY <3>1, <3>2
  <2>8. mSendLock' \in Pubs \cup {NULL}
    BY <1>1, <1>3
  <2> QED BY <1>1, <2>1, <2>7, <2>8 DEF Types, SendOK, BufferOK
<1>15. WireOK'
  BY <1>1, <1>11, <1>13 DEF Types, WireOK, readVars
<1>16. TopicOK'
  BY <1>1 DEF Types, TopicOK, topicVars, subVars, historyVars
<1>17. ASSUME NEW W, NEW B, StreamOf(W, B, wire, mBuffers)
       PROVE  StreamOf(W \o <<Core(h)>>, B, wire', mBuffers')
  BY <1>1, <1>10, <1>11, <1>13, <1>17 DEF StreamOf
<1> QED BY <1>1, <1>2, <1>3, <1>7, <1>8, <1>14, <1>15, <1>16, <1>17 DEF Types

\* The headers of a message that sbfBatch_add takes.
IsMessage(hs, m) == hs = <<Unfragmented(m, FALSE)>> \/ InFragments(hs, m, FALSE)

\* BatchAdd keeps the invariant and adds the next message to the batch.
LEMMA BatchAddTypes ==
  ASSUME Types, NEW b \in Batches, NEW size \in Sizes, BatchAdd(b, size)
  PROVE  /\ Types'
         /\ \E m \in Messages, hs \in Seq(Headers) :
              /\ m.pub = b /\ m.num = begun[b] + 1 /\ IsMessage(hs, m)
              /\ \A W, B : StreamOf(W, B, wire, mBuffers)
                   => StreamOf(W, [B EXCEPT ![b] = @ \o Cores(hs)], wire', mBuffers')
<1>1. b \in Senders
  BY DEF Senders
<1>2. PICK m \in Messages : m = Message(b, size) /\ m.pub = b /\ m.num = begun[b] + 1
  BY <1>1, MessageIs DEF Types
<1>3. PICK X : X = mBuffers[b]
  OBVIOUS
<1>4. PICK N : N = NextBuffer(X)
  OBVIOUS
<1>5. PICK left : left = PacketSize - Used(Last(N))
  OBVIOUS
<1>6. PICK hs : hs = BatchHeaders(m, left)
  OBVIOUS
<1>7. PICK Y : Y = UpdateBuffers(N, hs)
  OBVIOUS
<1>8. /\ b \notin sending /\ Begin(b) /\ mBuffers' = [mBuffers EXCEPT ![b] = Y]
      /\ UNCHANGED <<handler, job, mSendLock, sending, wire, lost, readVars,
                     topicVars, subVars, historyVars>>
  BY <1>2, <1>3, <1>4, <1>5, <1>6, <1>7 DEF BatchAdd
<1>9. X \in Seq(Packets) /\ Filling(X)
  BY <1>3, <1>8 DEF Types, SendOK, BufferOK
<1>10. PICK P, L : \E n \in Nat :
         /\ Shape(P, L, N, n)
         /\ PacketSize - Used(L) \in Int /\ PacketSize - Used(L) > HeaderSize
         /\ \A F : IsFlat(F, X) => \E G : IsFlat(G, P) /\ F = G \o Cores(L)
  BY <1>4, <1>9, NextBufferIs
<1>11. PICK n \in Nat :
         /\ Shape(P, L, N, n)
         /\ PacketSize - Used(L) \in Int /\ PacketSize - Used(L) > HeaderSize
         /\ \A F : IsFlat(F, X) => \E G : IsFlat(G, P) /\ F = G \o Cores(L)
  BY <1>10
<1>12. left \in Int /\ left > HeaderSize
  <2>1. Last(N) = L
    BY <1>11 DEF Shape
  <2> QED BY <1>5, <1>11, <2>1
<1>13. IsMessage(hs, m) /\ hs \in Seq(Headers) /\ Len(hs) > 0 /\ \A k \in 1..Len(hs) : ~hs[k].lastInPacket
  <2>1. HeaderSize \in Nat /\ m.size \in Nat
    BY MessagesAssumption, SizesOK
  <2>2. CASE left > HeaderSize + m.size
    <3>1. hs = <<Unfragmented(m, FALSE)>>
      BY <1>6, <2>2 DEF BatchHeaders
    <3>2. Unfragmented(m, FALSE) \in Headers /\ Unfragmented(m, FALSE).lastInPacket = FALSE
      BY UnfragmentedIs
    <3>3. PICK h \in Headers : h = Unfragmented(m, FALSE)
      BY <3>2
    <3>4. h.lastInPacket = FALSE /\ hs = <<h>>
      BY <3>1, <3>2, <3>3
    <3>5. hs \in Seq(Headers) /\ Len(hs) = 1 /\ hs[1] = h
      BY <3>4
    <3>6. \A k \in 1..Len(hs) : ~hs[k].lastInPacket
      BY <3>4, <3>5
    <3>7. IsMessage(hs, m)
      BY <3>1 DEF IsMessage
    <3>8. Len(hs) > 0
      BY <3>5
    <3> QED BY <3>5, <3>6, <3>7, <3>8
  <2>3. CASE ~(left > HeaderSize + m.size)
    <3>1. PICK first \in Nat : first = left - HeaderSize /\ first > 0
      <4>1. left - HeaderSize \in Nat /\ left - HeaderSize > 0
        BY <1>12, <2>1
      <4> QED BY <4>1
    <3>2. hs = Fragments(m, first, FALSE)
      BY <1>6, <2>3, <3>1 DEF BatchHeaders
    <3>3. InFragments(hs, m, FALSE)
      BY <3>1, <3>2, FragmentsIs
    <3> QED BY <3>3 DEF IsMessage, InFragments
  <2> QED BY <2>2, <2>3
<1>14. /\ Y \in Seq(Packets) /\ Len(Y) > 0 /\ Filling(Y)
       /\ \A G : IsFlat(G, P) => IsFlat((G \o Cores(L)) \o Cores(hs), Y)
  BY <1>7, <1>11, <1>13, UpdateBuffersIs
<1>15. mBuffers' \in [Batches -> Seq(Packets)] /\ mBuffers'[b] = Y
       /\ \A c \in Batches : c # b => mBuffers'[c] = mBuffers[c]
  BY <1>8, <1>14 DEF Types, SendOK
<1>16. SendOK'
  <2>1. begun' \in [Senders -> Nat]
    BY <1>1, <1>8, BeginIs DEF Types
  <2>2. ASSUME NEW c \in Batches PROVE BufferOK(c)'
    <3>1. CASE c = b
      BY <1>8, <1>14, <1>15, <3>1 DEF BufferOK
    <3>2. CASE c # b
      BY <1>8, <1>15, <3>2 DEF Types, SendOK, BufferOK
    <3> QED BY <3>1, <3>2
  <2> QED BY <1>8, <1>15, <2>1, <2>2 DEF Types, SendOK
<1>17. WireOK'
  BY <1>8 DEF Types, WireOK, readVars
<1>18. TopicOK'
  BY <1>8 DEF Types, TopicOK, topicVars, subVars, historyVars
<1>19. ASSUME NEW W, NEW B, StreamOf(W, B, wire, mBuffers)
       PROVE  StreamOf(W, [B EXCEPT ![b] = @ \o Cores(hs)], wire', mBuffers')
  <2>1. B \in [Batches -> Seq(CoreSet)] /\ IsFlat(W, wire) /\ \A c \in Batches : IsFlat(B[c], mBuffers[c])
    BY <1>19 DEF StreamOf
  <2>2. PICK G : IsFlat(G, P) /\ B[b] = G \o Cores(L)
    BY <1>3, <1>11, <2>1
  <2>3. PICK F : F = B[b] \o Cores(hs)
    OBVIOUS
  <2>4. IsFlat(F, Y)
    BY <1>14, <2>2, <2>3
  <2>5. F \in Seq(CoreSet)
    BY <2>4 DEF IsFlat
  <2>6. PICK C : C = [B EXCEPT ![b] = F]
    OBVIOUS
  <2>7. C \in [Batches -> Seq(CoreSet)] /\ \A c \in Batches : C[c] = IF c = b THEN F ELSE B[c]
    BY <2>1, <2>5, <2>6
  <2>8. \A c \in Batches : IsFlat(C[c], mBuffers'[c])
    BY <1>15, <2>1, <2>4, <2>7
  <2>9. StreamOf(W, C, wire', mBuffers')
    BY <1>8, <2>1, <2>7, <2>8 DEF StreamOf
  <2> QED BY <2>3, <2>6, <2>9
<1> QED BY <1>2, <1>13, <1>16, <1>17, <1>18, <1>19 DEF Types

\* BatchSend keeps the invariant and the headers of the batch.
LEMMA BatchSendTypes ==
  ASSUME Types, NEW b \in Batches, BatchSend(b)
  PROVE  /\ Types'
         /\ \A W, B : StreamOf(W, B, wire, mBuffers) => StreamOf(W, B, wire', mBuffers')
<1>1. PICK X : X = mBuffers[b]
  OBVIOUS
<1>2. /\ b \notin sending /\ X # << >> /\ sending' = sending \cup {b}
      /\ mBuffers' = [mBuffers EXCEPT ![b] = Front(X) \o <<Closed(Last(X))>>]
      /\ UNCHANGED <<handler, begun, job, mSendLock, wire, lost, readVars,
                     topicVars, subVars, historyVars>>
  BY <1>1 DEF BatchSend
<1>3. X \in Seq(Packets) /\ Filling(X)
  BY <1>1, <1>2 DEF Types, SendOK, BufferOK
<1>4. PICK n \in Nat : n + 1 = Len(X)
  <2>1. Len(X) - 1 \in Nat /\ (Len(X) - 1) + 1 = Len(X)
    BY <1>2, <1>3
  <2> QED BY <2>1
<1>5. PICK P : P = Front(X)
  OBVIOUS
<1>6. /\ P \in Seq(Packets) /\ Len(P) = n /\ (\A i \in 1..n : P[i] = X[i])
      /\ Last(X) = X[n + 1] /\ X[n + 1] \in Packets
  BY <1>3, <1>4, <1>5, PacketsFront
<1>7. PICK y : y = Closed(X[n + 1])
  OBVIOUS
<1>8. /\ y \in Packets /\ Ends(y) /\ Len(y) = Len(X[n + 1])
      /\ \A k \in 1..Len(X[n + 1]) : Core(y[k]) = Core(X[n + 1][k])
  BY <1>6, <1>7, ClosedIs
<1>9. PICK Y : Y = Append(P, y)
  OBVIOUS
<1>10. Y \in Seq(Packets) /\ Len(Y) = n + 1 /\ (\A i \in 1..n : Y[i] = P[i]) /\ Y[n + 1] = y
  <2>1. n = Len(P)
    BY <1>6
  <2> QED BY <1>6, <1>8, <1>9, <2>1, AppendIs
<1>11. mBuffers' = [mBuffers EXCEPT ![b] = Y]
  <2>1. Front(X) \o <<Closed(Last(X))>> = Y
    <3>1. Y = P \o <<y>>
      BY <1>6, <1>8, <1>9, AppendIsConcat
    <3> QED BY <1>5, <1>6, <1>7, <3>1
  <2> QED BY <1>2, <2>1
<1>12. ASSUME NEW i \in 1..(n + 1)
       PROVE  Ends(Y[i]) /\ Len(Y[i]) = Len(X[i]) /\ \A k \in 1..Len(X[i]) : Core(Y[i][k]) = Core(X[i][k])
  <2>1. CASE i = n + 1
    BY <1>8, <1>10, <2>1
  <2>2. CASE i # n + 1
    <3>1. i \in 1..n /\ i \in 1..Len(X) /\ i < Len(X)
      BY <1>4, <2>2
    <3>2. Y[i] = X[i]
      BY <1>6, <1>10, <3>1
    <3> QED BY <1>3, <3>1, <3>2 DEF Filling
  <2> QED BY <2>1, <2>2
<1>13. /\ mBuffers' \in [Batches -> Seq(Packets)] /\ mBuffers'[b] = Y
       /\ \A c \in Batches : c # b => mBuffers'[c] = mBuffers[c]
  BY <1>10, <1>11 DEF Types, SendOK
<1>14. SendOK'
  <2>1. Y # << >> /\ AllEnd(Y)
    BY <1>10, <1>12 DEF AllEnd
  <2>2. ASSUME NEW c \in Batches PROVE BufferOK(c)'
    <3>1. CASE c = b
      BY <1>2, <1>13, <2>1, <3>1 DEF BufferOK
    <3>2. CASE c # b
      BY <1>2, <1>13, <3>2 DEF Types, SendOK, BufferOK
    <3> QED BY <3>1, <3>2
  <2> QED BY <1>2, <1>13, <2>2 DEF Types, SendOK
<1>15. WireOK'
  BY <1>2 DEF Types, WireOK, readVars
<1>16. TopicOK'
  BY <1>2 DEF Types, TopicOK, topicVars, subVars, historyVars
<1>17. ASSUME NEW F, IsFlat(F, X) PROVE IsFlat(F, Y)
  <2>1. X \in Seq(Seq(Headers)) /\ Y \in Seq(Seq(Headers)) /\ Len(X) = Len(Y)
    BY <1>3, <1>4, <1>10, PacketsAre
  <2>2. \A i \in 1..Len(X) : Len(Y[i]) = Len(X[i]) /\ \A k \in 1..Len(X[i]) : Core(Y[i][k]) = Core(X[i][k])
    BY <1>4, <1>12
  <2> QED BY <1>17, <2>1, <2>2, FlatSame
<1>18. ASSUME NEW W, NEW B, StreamOf(W, B, wire, mBuffers) PROVE StreamOf(W, B, wire', mBuffers')
  <2>1. B \in [Batches -> Seq(CoreSet)] /\ IsFlat(W, wire) /\ \A c \in Batches : IsFlat(B[c], mBuffers[c])
    BY <1>18 DEF StreamOf
  <2>2. ASSUME NEW c \in Batches PROVE IsFlat(B[c], mBuffers'[c])
    <3>1. CASE c = b
      BY <1>1, <1>13, <1>17, <2>1, <3>1
    <3>2. CASE c # b
      BY <1>13, <2>1, <3>2
    <3> QED BY <3>1, <3>2
  <2>3. wire' = wire
    BY <1>2
  <2> QED BY <2>1, <2>2, <2>3 DEF StreamOf
<1> QED BY <1>14, <1>15, <1>16, <1>18 DEF Types

\* BatchSendPacket keeps the invariant and puts the first headers of the batch on
\* the wire, under mSendLock.
LEMMA BatchSendPacketTypes ==
  ASSUME Types, NEW b \in Batches, BatchSendPacket(b)
  PROVE  /\ Types' /\ mSendLock = NULL
         /\ \A W, B : StreamOf(W, B, wire, mBuffers)
              => \E G, H \in Seq(CoreSet) :
                   /\ B[b] = G \o H
                   /\ StreamOf(W \o G, [B EXCEPT ![b] = H], wire', mBuffers')
<1>1. PICK X : X = mBuffers[b]
  OBVIOUS
<1>2. /\ b \in sending /\ mSendLock = NULL /\ Send(Head(X))
      /\ mBuffers' = [mBuffers EXCEPT ![b] = Tail(X)]
      /\ sending' = IF Len(X) > 1 THEN sending ELSE sending \ {b}
      /\ UNCHANGED <<handler, begun, job, mSendLock, lost, readVars, topicVars,
                     subVars, historyVars>>
  BY <1>1 DEF BatchSendPacket
<1>3. X \in Seq(Packets) /\ X # << >> /\ AllEnd(X)
  BY <1>1, <1>2 DEF Types, SendOK, BufferOK
<1>4. PICK n \in Nat : n + 1 = Len(X)
  <2>1. Len(X) - 1 \in Nat /\ (Len(X) - 1) + 1 = Len(X)
    BY <1>3
  <2> QED BY <2>1
<1>5. PICK x : x = Head(X)
  OBVIOUS
<1>6. PICK t : t = Tail(X)
  OBVIOUS
<1>7. /\ x \in Packets /\ x = X[1] /\ t \in Seq(Packets) /\ Len(t) = n
      /\ \A i \in 1..n : t[i] = X[i + 1]
  <2>1. X \in [1..(n + 1) -> Packets] /\ Len(X) = n + 1
    BY <1>3, <1>4
  <2> QED BY <1>3, <1>4, <1>5, <1>6, <2>1
<1>8. Ends(x) /\ AllEnd(t)
  <2>1. 1 \in 1..Len(X) /\ \A i \in 1..n : i + 1 \in 1..Len(X)
    BY <1>4
  <2> QED BY <1>3, <1>7, <2>1 DEF AllEnd
<1>9. PICK w : w = wire'
  OBVIOUS
<1>10. /\ w \in Seq(Packets)
       /\ handler = "udp" => AllEnd(w)
       /\ handler = "tcpmesh" => \A i \in 1..Len(w) : Len(w[i]) = 1
       /\ \A W : IsFlat(W, wire) => IsFlat(W \o Cores(x), w)
  <2>1. Send(x)
    BY <1>2, <1>5
  <2> QED BY <1>7, <1>8, <1>9, <2>1, SendIs DEF Types, SendOK
<1>11. /\ mBuffers' \in [Batches -> Seq(Packets)] /\ mBuffers'[b] = t
       /\ \A c \in Batches : c # b => mBuffers'[c] = mBuffers[c]
  <2>1. mBuffers \in [Batches -> Seq(Packets)] /\ mBuffers' = [mBuffers EXCEPT ![b] = t]
    BY <1>2, <1>6 DEF Types, SendOK
  <2> QED BY <1>7, <2>1
<1>12. SendOK'
  <2>1. ASSUME NEW c \in Batches PROVE BufferOK(c)'
    <3>1. CASE c = b /\ n = 0
      <4>1. b \notin sending' /\ Len(t) = 0
        <5>1. Len(X) = 1
          BY <1>4, <3>1
        <5>2. sending' = sending \ {b}
          BY <1>2, <5>1
        <5>3. Len(t) = 0
          BY <1>7, <3>1
        <5> QED BY <5>2, <5>3
      <4>2. Filling(t)
        BY <4>1 DEF Filling
      <4> QED BY <1>11, <3>1, <4>1, <4>2 DEF BufferOK
    <3>2. CASE c = b /\ n # 0
      <4>1. b \in sending' /\ t # << >>
        BY <1>2, <1>4, <1>7, <3>2
      <4> QED BY <1>8, <1>11, <3>2, <4>1 DEF BufferOK
    <3>3. CASE c # b
      <4>1. c \in sending' <=> c \in sending
        BY <1>2, <3>3
      <4> QED BY <1>11, <3>3, <4>1 DEF Types, SendOK, BufferOK
    <3> QED BY <3>1, <3>2, <3>3
  <2>2. sending' \subseteq Batches
    BY <1>2 DEF Types, SendOK
  <2> QED BY <1>2, <1>11, <2>1, <2>2 DEF Types, SendOK
<1>13. WireOK'
  BY <1>2, <1>9, <1>10 DEF Types, WireOK, readVars
<1>14. TopicOK'
  BY <1>2 DEF Types, TopicOK, topicVars, subVars, historyVars
<1>15. ASSUME NEW W, NEW B, StreamOf(W, B, wire, mBuffers)
       PROVE  \E G, H \in Seq(CoreSet) :
                /\ B[b] = G \o H
                /\ StreamOf(W \o G, [B EXCEPT ![b] = H], wire', mBuffers')
  <2>1. B \in [Batches -> Seq(CoreSet)] /\ IsFlat(W, wire) /\ \A c \in Batches : IsFlat(B[c], mBuffers[c])
    BY <1>15 DEF StreamOf
  <2>2. PICK F : F = B[b]
    OBVIOUS
  <2>3. IsFlat(F, X)
    BY <1>1, <2>1, <2>2
  <2>4. PICK H : F = Cores(x) \o H /\ H \in Seq(CoreSet) /\ IsFlat(H, t)
    BY <1>3, <1>5, <1>6, <2>3, FlatFirst
  <2>5. Cores(x) \in Seq(CoreSet)
    BY <1>7, PacketIs, CoresType
  <2>6. PICK C : C = [B EXCEPT ![b] = H]
    OBVIOUS
  <2>7. C \in [Batches -> Seq(CoreSet)] /\ \A c \in Batches : C[c] = IF c = b THEN H ELSE B[c]
    BY <2>1, <2>4, <2>6
  <2>8. \A c \in Batches : IsFlat(C[c], mBuffers'[c])
    BY <1>11, <2>1, <2>4, <2>7
  <2>9. IsFlat(W \o Cores(x), wire')
    BY <1>9, <1>10, <2>1
  <2>10. StreamOf(W \o Cores(x), C, wire', mBuffers')
    BY <2>7, <2>8, <2>9 DEF StreamOf
  <2> QED BY <2>2, <2>4, <2>5, <2>6, <2>10
<1> QED BY <1>2, <1>12, <1>13, <1>14, <1>15 DEF Types

\* BatchDestroy keeps the invariant and empties the batch.
LEMMA BatchDestroyTypes ==
  ASSUME Types, NEW b \in Batches, BatchDestroy(b)
  PROVE  /\ Types'
         /\ \A W, B : StreamOf(W, B, wire, mBuffers)
              => StreamOf(W, [B EXCEPT ![b] = << >>], wire', mBuffers')
<1>1. /\ b \notin sending /\ mBuffers' = [mBuffers EXCEPT ![b] = << >>]
      /\ UNCHANGED <<handler, begun, job, mSendLock, sending, wire, lost, readVars,
                     topicVars, subVars, historyVars>>
  BY DEF BatchDestroy
<1>2. << >> \in Seq(Packets) /\ << >> \in Seq(CoreSet) /\ Filling(<< >>)
  BY DEF Filling
<1>3. /\ mBuffers' \in [Batches -> Seq(Packets)] /\ mBuffers'[b] = << >>
      /\ \A c \in Batches : c # b => mBuffers'[c] = mBuffers[c]
  BY <1>1, <1>2 DEF Types, SendOK
<1>4. SendOK'
  <2>1. ASSUME NEW c \in Batches PROVE BufferOK(c)'
    <3>1. CASE c = b
      BY <1>1, <1>2, <1>3, <3>1 DEF BufferOK
    <3>2. CASE c # b
      BY <1>1, <1>3, <3>2 DEF Types, SendOK, BufferOK
    <3> QED BY <3>1, <3>2
  <2> QED BY <1>1, <1>3, <2>1 DEF Types, SendOK
<1>5. WireOK'
  BY <1>1 DEF Types, WireOK, readVars
<1>6. TopicOK'
  BY <1>1 DEF Types, TopicOK, topicVars, subVars, historyVars
<1>7. ASSUME NEW W, NEW B, StreamOf(W, B, wire, mBuffers)
      PROVE  StreamOf(W, [B EXCEPT ![b] = << >>], wire', mBuffers')
  <2>1. B \in [Batches -> Seq(CoreSet)] /\ IsFlat(W, wire) /\ \A c \in Batches : IsFlat(B[c], mBuffers[c])
    BY <1>7 DEF StreamOf
  <2>2. PICK C : C = [B EXCEPT ![b] = << >>]
    OBVIOUS
  <2>3. C \in [Batches -> Seq(CoreSet)] /\ \A c \in Batches : C[c] = IF c = b THEN << >> ELSE B[c]
    BY <1>2, <2>1, <2>2
  <2>4. \A c \in Batches : IsFlat(C[c], mBuffers'[c])
    BY <1>3, <2>1, <2>3, FlatEmpty
  <2>5. wire' = wire
    BY <1>1
  <2>6. StreamOf(W, C, wire', mBuffers')
    BY <2>1, <2>3, <2>4, <2>5 DEF StreamOf
  <2> QED BY <2>2, <2>6
<1> QED BY <1>4, <1>5, <1>6, <1>7 DEF Types

\* A packet is lost: what it carried drops out of the middle of the stream.
LEMMA LoseTypes ==
  ASSUME Types, Lose
  PROVE  /\ Types' /\ lost' # 0
         /\ \A W, B : StreamOf(W, B, wire, mBuffers)
              => \E G, D, H \in Seq(CoreSet) : /\ W = G \o (D \o H)
                                               /\ StreamOf(G \o H, B, wire', mBuffers')
<1>1. /\ handler = "udp" /\ lost' = lost + 1
      /\ UNCHANGED <<sendVars, readVars, topicVars, subVars, historyVars>>
  BY DEF Lose
<1>2. PICK n \in Nat : n = Len(wire)
  BY DEF Types, WireOK
<1>3. wire \in Seq(Packets) /\ AllEnd(wire) /\ lost \in Nat
  BY <1>1 DEF Types, WireOK
<1>4. PICK i \in 1..n : wire' = SubSeq(wire, 1, i - 1) \o SubSeq(wire, i + 1, n)
  <2>1. PICK i \in DOMAIN wire : wire' = RemoveAt(wire, i)
    BY DEF Lose
  <2>2. i \in 1..n
    BY <1>2, <1>3, <2>1
  <2> QED BY <1>2, <2>1, <2>2 DEF RemoveAt
<1>5. PICK j \in Nat : j + 1 = i
  <2>1. i - 1 \in Nat /\ (i - 1) + 1 = i
    OBVIOUS
  <2> QED BY <2>1
<1>6. PICK r \in Nat : i + r = n
  <2>1. n - i \in Nat /\ i + (n - i) = n
    OBVIOUS
  <2> QED BY <2>1
<1>7. PICK p : p = SubSeq(wire, 1, i - 1)
  OBVIOUS
<1>8. PICK q : q = SubSeq(wire, i + 1, n)
  OBVIOUS
<1>9. p \in Seq(Packets) /\ Len(p) = j /\ \A k \in 1..j : p[k] = wire[k]
  <2>1. 0 + j <= Len(wire) /\ i - 1 = 0 + j /\ 1 = 0 + 1
    BY <1>2, <1>5
  <2>2. p = SubSeq(wire, 0 + 1, 0 + j)
    BY <1>7, <2>1
  <2>3. p \in Seq(Packets) /\ Len(p) = j /\ \A k \in 1..j : p[k] = wire[0 + k]
    BY <1>3, <2>1, <2>2, PacketsSlice
  <2>4. \A k \in 1..j : 0 + k = k
    OBVIOUS
  <2> QED BY <2>3, <2>4
<1>10. q \in Seq(Packets) /\ Len(q) = r /\ \A k \in 1..r : q[k] = wire[i + k]
  <2>1. PICK ii \in Nat : ii = i
    OBVIOUS
  <2>2. ii + r <= Len(wire) /\ q = SubSeq(wire, ii + 1, ii + r)
    BY <1>2, <1>6, <1>8, <2>1
  <2> QED BY <1>3, <2>1, <2>2, PacketsSlice
<1>11. PICK w : w = wire'
  OBVIOUS
<1>12. /\ w \in Seq(Packets) /\ Len(w) = j + r
       /\ (\A k \in 1..j : w[k] = p[k]) /\ \A k \in 1..r : w[j + k] = q[k]
  <2>1. w = p \o q
    BY <1>4, <1>7, <1>8, <1>11
  <2>2. j = Len(p) /\ r = Len(q) /\ p \in Seq(Packets) /\ q \in Seq(Packets)
    BY <1>9, <1>10
  <2> QED BY <2>1, <2>2, PacketsConcat
<1>13. AllEnd(w)
  <2>1. ASSUME NEW k \in 1..(j + r) PROVE Ends(w[k])
    <3>1. CASE k <= j
      <4>1. k \in 1..j /\ k \in 1..n
        BY <1>5, <1>6, <3>1
      <4> QED BY <1>2, <1>3, <1>9, <1>12, <4>1 DEF AllEnd
    <3>2. CASE k > j
      <4>1. PICK l \in 1..r : j + l = k
        <5>1. k - j \in 1..r /\ j + (k - j) = k
          BY <3>2
        <5> QED BY <5>1
      <4>2. w[k] = wire[i + l]
        BY <1>10, <1>12, <4>1
      <4>3. i + l \in 1..n
        BY <1>6
      <4> QED BY <1>2, <1>3, <4>2, <4>3 DEF AllEnd
    <3> QED BY <3>1, <3>2
  <2> QED BY <1>12, <2>1 DEF AllEnd
<1>14. SendOK'
  BY <1>1 DEF Types, SendOK, BufferOK, sendVars
<1>15. WireOK'
  <2>1. lost' \in Nat
    BY <1>1, <1>3
  <2> QED BY <1>1, <1>11, <1>12, <1>13, <2>1 DEF Types, WireOK, readVars, sendVars
<1>16. TopicOK'
  BY <1>1 DEF Types, TopicOK, topicVars, subVars, historyVars
<1>17. ASSUME NEW W, NEW B, StreamOf(W, B, wire, mBuffers)
       PROVE  \E G, D, H \in Seq(CoreSet) : /\ W = G \o (D \o H)
                                            /\ StreamOf(G \o H, B, wire', mBuffers')
  <2>1. B \in [Batches -> Seq(CoreSet)] /\ IsFlat(W, wire) /\ \A c \in Batches : IsFlat(B[c], mBuffers[c])
    BY <1>17 DEF StreamOf
  <2>2. wire \in Seq(Seq(Headers)) /\ j \in 0..Len(wire)
    BY <1>2, <1>3, <1>5, PacketsAre
  <2>3. PICK G, K : /\ G \in Seq(CoreSet) /\ K \in Seq(CoreSet) /\ W = G \o K
                    /\ IsFlat(G, SubSeq(wire, 1, j))
                    /\ IsFlat(K, SubSeq(wire, j + 1, Len(wire)))
    BY <2>1, <2>2, FlatSplit
  <2>4. PICK s : s = SubSeq(wire, j + 1, Len(wire))
    OBVIOUS
  <2>5. s \in Seq(Packets) /\ Len(s) = r + 1 /\ \A k \in 1..(r + 1) : s[k] = wire[j + k]
    <3>1. PICK r1 \in Nat : r1 = r + 1
      OBVIOUS
    <3>2. j + r1 <= Len(wire) /\ s = SubSeq(wire, j + 1, j + r1)
      BY <1>2, <1>5, <1>6, <2>4, <3>1
    <3> QED BY <1>3, <3>1, <3>2, PacketsSlice
  <2>6. s # << >> /\ IsFlat(K, s)
    <3>1. Len(s) # 0
      BY <2>5
    <3> QED BY <2>3, <2>4, <3>1
  <2>7. PICK D : D = Cores(Head(s))
    OBVIOUS
  <2>8. /\ Head(s) \in Packets /\ Tail(s) \in Seq(Packets) /\ Len(Tail(s)) = Len(s) - 1
        /\ \A k \in 1..Len(s) - 1 : Tail(s)[k] = s[k + 1]
        /\ \E H : K = Cores(Head(s)) \o H /\ H \in Seq(CoreSet) /\ IsFlat(H, Tail(s))
    BY <2>5, <2>6, FlatFirst
  <2>9. PICK H : K = D \o H /\ H \in Seq(CoreSet) /\ IsFlat(H, Tail(s))
    BY <2>7, <2>8
  <2>10. D \in Seq(CoreSet)
    BY <2>7, <2>8, PacketIs, CoresType
  <2>11. PICK t : t = Tail(s)
    OBVIOUS
  <2>12. t \in Seq(Packets) /\ Len(t) = r /\ \A k \in 1..r : t[k] = s[k + 1]
    <3>1. Len(s) - 1 = r
      BY <2>5
    <3> QED BY <2>8, <2>11, <3>1
  <2>13. t = q
    <3>1. ASSUME NEW k \in 1..r PROVE t[k] = q[k]
      <4>1. k + 1 \in 1..(r + 1) /\ j + (k + 1) = i + k
        BY <1>5
      <4>2. s[k + 1] = wire[j + (k + 1)]
        BY <2>5, <4>1
      <4>3. t[k] = wire[i + k]
        BY <2>12, <4>1, <4>2
      <4> QED BY <1>10, <4>3
    <3> QED BY <1>10, <2>12, <3>1, SeqEqual
  <2>14. IsFlat(G, p) /\ IsFlat(H, q)
    <3>1. i - 1 = j
      BY <1>5
    <3> QED BY <1>7, <2>3, <2>9, <2>11, <2>13, <3>1
  <2>15. IsFlat(G \o H, p \o q)
    <3>1. p \in Seq(Seq(Headers)) /\ q \in Seq(Seq(Headers))
      BY <1>9, <1>10, PacketsAre
    <3> QED BY <2>14, <3>1, FlatConcat
  <2>16. StreamOf(G \o H, B, wire', mBuffers')
    <3>1. wire' = p \o q /\ mBuffers' = mBuffers
      BY <1>1, <1>4, <1>7, <1>8 DEF sendVars
    <3> QED BY <2>1, <2>15, <3>1 DEF StreamOf
  <2> QED BY <2>3, <2>9, <2>10, <2>16
<1>18. lost' # 0
  BY <1>1, <1>3
<1> QED BY <1>14, <1>15, <1>16, <1>17, <1>18 DEF Types

\* A datagram is taken whole: it ends with the message that says so.
LEMMA ReadPacketTypes ==
  ASSUME Types, ReadPacket
  PROVE  /\ Types' /\ input = << >>
         /\ \A W, B : StreamOf(W, B, wire, mBuffers)
              => \E H : W = Cores(input') \o H /\ StreamOf(H, B, wire', mBuffers')
<1>1. PICK x : x = Head(wire)
  OBVIOUS
<1>2. PICK t : t = Tail(wire)
  OBVIOUS
<1>3. PICK ends : ends = {i \in DOMAIN x : x[i].lastInPacket}
  OBVIOUS
<1>4. /\ handler = "udp" /\ ~reading /\ wire # << >>
      /\ input' = (IF ends = {} THEN x ELSE SubSeq(x, 1, Min(ends)))
      /\ wire' = t /\ reading' = TRUE
      /\ UNCHANGED <<sendVars, lost, topicVars, subVars, historyVars>>
  BY <1>1, <1>2, <1>3 DEF ReadPacket
<1>5. wire \in Seq(Packets) /\ AllEnd(wire) /\ input = << >>
  BY <1>4 DEF Types, WireOK
<1>6. PICK n \in Nat : n + 1 = Len(wire)
  <2>1. Len(wire) - 1 \in Nat /\ (Len(wire) - 1) + 1 = Len(wire)
    BY <1>4, <1>5
  <2> QED BY <2>1
<1>7. /\ x \in Packets /\ x = wire[1] /\ t \in Seq(Packets) /\ Len(t) = n
      /\ \A i \in 1..n : t[i] = wire[i + 1]
  <2>1. wire \in [1..(n + 1) -> Packets] /\ Len(wire) = n + 1
    BY <1>5, <1>6
  <2> QED BY <1>1, <1>2, <1>5, <1>6, <2>1
<1>8. Ends(x) /\ AllEnd(t)
  <2>1. 1 \in 1..Len(wire) /\ \A i \in 1..n : i + 1 \in 1..Len(wire)
    BY <1>6
  <2> QED BY <1>5, <1>7, <2>1 DEF AllEnd
<1>9. input' = x
  <2>1. PICK m \in Nat : m = Len(x) /\ m > 0
    BY <1>7, PacketIs
  <2>2. x \in Seq(Headers) /\ DOMAIN x = 1..m
    BY <1>7, <2>1, PacketIs
  <2>3. ends = {m}
    <3>1. m \in ends
      BY <1>3, <1>8, <2>1, <2>2 DEF Ends
    <3>2. \A i \in ends : i = m
      BY <1>3, <1>7, <2>1, <2>2, PacketIs
    <3> QED BY <3>1, <3>2
  <2>4. Min(ends) = m /\ ends # {}
    BY <2>3, MinOne
  <2>5. SubSeq(x, 1, m) = x
    BY <2>1, <2>2
  <2> QED BY <1>4, <2>4, <2>5
<1>10. SendOK'
  BY <1>4 DEF Types, SendOK, BufferOK, sendVars
<1>11. WireOK'
  <2>1. x \in Seq(Headers) /\ x # << >>
    BY <1>7, PacketIs
  <2>2. lost' \in Nat /\ handler' = "udp"
    BY <1>4 DEF Types, WireOK, sendVars
  <2> QED BY <1>4, <1>7, <1>8, <1>9, <2>1, <2>2 DEF WireOK
<1>12. TopicOK'
  BY <1>4 DEF Types, TopicOK, topicVars, subVars, historyVars
<1>13. ASSUME NEW W, NEW B, StreamOf(W, B, wire, mBuffers)
       PROVE  \E H : W = Cores(input') \o H /\ StreamOf(H, B, wire', mBuffers')
  <2>1. B \in [Batches -> Seq(CoreSet)] /\ IsFlat(W, wire) /\ \A c \in Batches : IsFlat(B[c], mBuffers[c])
    BY <1>13 DEF StreamOf
  <2>2. PICK H : W = Cores(x) \o H /\ H \in Seq(CoreSet) /\ IsFlat(H, t)
    BY <1>1, <1>2, <1>4, <1>5, <2>1, FlatFirst
  <2>3. StreamOf(H, B, wire', mBuffers')
    BY <1>4, <2>1, <2>2 DEF StreamOf, sendVars
  <2> QED BY <1>9, <2>2, <2>3
<1> QED BY <1>5, <1>10, <1>11, <1>12, <1>13 DEF Types

\* A stream is taken message by message.
LEMMA ReadStreamTypes ==
  ASSUME Types, ReadStream
  PROVE  /\ Types'
         /\ \A W, B : StreamOf(W, B, wire, mBuffers)
              => \E G, H \in Seq(CoreSet) : /\ W = G \o H /\ Cores(input') = Cores(input) \o G
                                            /\ StreamOf(H, B, wire', mBuffers')
<1>1. PICK n \in Nat : n = Len(wire)
  BY DEF Types, WireOK
<1>2. PICK k \in 0..n : /\ input' = input \o [i \in 1..k |-> Head(wire[i])]
                        /\ wire' = SubSeq(wire, k + 1, n)
                        /\ reading' = (input' # << >>)
  BY <1>1 DEF ReadStream
<1>3. /\ handler = "tcpmesh"
      /\ UNCHANGED <<sendVars, lost, topicVars, subVars, historyVars>>
  BY DEF ReadStream
<1>4. /\ wire \in Seq(Packets) /\ (\A i \in 1..Len(wire) : Len(wire[i]) = 1)
      /\ input \in Seq(Headers)
  BY <1>3 DEF Types, WireOK
<1>5. PICK r \in Nat : k + r = n
  <2>1. n - k \in Nat /\ k + (n - k) = n
    OBVIOUS
  <2> QED BY <2>1
<1>6. PICK j \in Nat : j = k /\ j <= n
  OBVIOUS
<1>7. PICK p : p = SubSeq(wire, 1, k)
  OBVIOUS
<1>8. PICK q : q = SubSeq(wire, k + 1, n)
  OBVIOUS
<1>9. p \in Seq(Packets) /\ Len(p) = j /\ \A i \in 1..j : p[i] = wire[i]
  <2>1. 0 + j <= Len(wire) /\ k = 0 + j /\ 1 = 0 + 1
    BY <1>1, <1>6
  <2>2. p = SubSeq(wire, 0 + 1, 0 + j)
    BY <1>7, <2>1
  <2>3. p \in Seq(Packets) /\ Len(p) = j /\ \A i \in 1..j : p[i] = wire[0 + i]
    BY <1>4, <2>1, <2>2, PacketsSlice
  <2>4. \A i \in 1..j : 0 + i = i
    OBVIOUS
  <2> QED BY <2>3, <2>4
<1>10. q \in Seq(Packets) /\ Len(q) = r /\ \A i \in 1..r : q[i] = wire[j + i]
  <2>1. j + r <= Len(wire) /\ q = SubSeq(wire, j + 1, j + r)
    BY <1>1, <1>5, <1>6, <1>8
  <2> QED BY <1>4, <2>1, PacketsSlice
<1>11. PICK hs : hs = [i \in 1..j |-> Head(p[i])]
  OBVIOUS
<1>12. input' = input \o hs
  <2>1. hs = [i \in 1..k |-> Head(wire[i])]
    BY <1>6, <1>9, <1>11
  <2> QED BY <1>2, <2>1
<1>13. \A i \in 1..Len(p) : Len(p[i]) = 1
  <2>1. \A i \in 1..j : i \in 1..Len(wire)
    BY <1>1, <1>6
  <2> QED BY <1>4, <1>9, <2>1
<1>14. hs \in Seq(Headers)
  <2>1. ASSUME NEW i \in 1..j PROVE Head(p[i]) \in Headers
    <3>1. p[i] \in Packets
      BY <1>9
    <3> QED BY <3>1, PacketIs
  <2> QED BY <1>11, <2>1
<1>15. SendOK'
  BY <1>3 DEF Types, SendOK, BufferOK, sendVars
<1>16. WireOK'
  <2>1. input' \in Seq(Headers)
    BY <1>4, <1>12, <1>14
  <2>2. wire' \in Seq(Packets) /\ \A i \in 1..Len(wire') : Len(wire'[i]) = 1
    <3>1. \A i \in 1..r : j + i \in 1..Len(wire)
      BY <1>1, <1>5, <1>6
    <3>2. \A i \in 1..r : Len(q[i]) = 1
      BY <1>4, <1>10, <3>1
    <3>3. wire' = q
      BY <1>2, <1>8
    <3> QED BY <1>10, <3>2, <3>3
  <2>3. lost' \in Nat /\ handler' = "tcpmesh"
    BY <1>3 DEF Types, WireOK, sendVars
  <2>4. reading' \in BOOLEAN /\ (reading' => input' # << >>)
    BY <1>2
  <2> QED BY <2>1, <2>2, <2>3, <2>4 DEF WireOK
<1>17. TopicOK'
  BY <1>3 DEF Types, TopicOK, topicVars, subVars, historyVars
<1>18. ASSUME NEW W, NEW B, StreamOf(W, B, wire, mBuffers)
       PROVE  \E G, H \in Seq(CoreSet) : /\ W = G \o H /\ Cores(input') = Cores(input) \o G
                                         /\ StreamOf(H, B, wire', mBuffers')
  <2>1. B \in [Batches -> Seq(CoreSet)] /\ IsFlat(W, wire) /\ \A c \in Batches : IsFlat(B[c], mBuffers[c])
    BY <1>18 DEF StreamOf
  <2>2. wire \in Seq(Seq(Headers)) /\ k \in 0..Len(wire)
    BY <1>1, <1>4, PacketsAre
  <2>3. PICK G, H : /\ G \in Seq(CoreSet) /\ H \in Seq(CoreSet) /\ W = G \o H
                    /\ IsFlat(G, SubSeq(wire, 1, k))
                    /\ IsFlat(H, SubSeq(wire, k + 1, Len(wire)))
    BY <2>1, <2>2, FlatSplit
  <2>4. IsFlat(G, p) /\ IsFlat(H, q)
    BY <1>1, <1>7, <1>8, <2>3
  <2>5. G = Cores(hs)
    <3>1. p \in Seq(Packets) /\ j = Len(p)
      BY <1>9
    <3> QED BY <1>11, <1>13, <2>4, <3>1, FlatHeads
  <2>6. Cores(input') = Cores(input) \o G
    BY <1>4, <1>12, <1>14, <2>5, CoresConcat
  <2>7. StreamOf(H, B, wire', mBuffers')
    <3>1. wire' = q /\ mBuffers' = mBuffers
      BY <1>2, <1>3, <1>8 DEF sendVars
    <3> QED BY <2>1, <2>3, <2>4, <3>1 DEF StreamOf
  <2> QED BY <2>3, <2>6, <2>7
<1> QED BY <1>15, <1>16, <1>17, <1>18 DEF Types

-----------------------------------------------------------------------------
(* The event thread. *)

\* The fields of a piece.
LEMMA PieceIs ==
  ASSUME NEW h \in Headers
  PROVE  Piece(h) \in Pieces /\ Piece(h).msg = h.msg /\ Piece(h).from = h.from /\ Piece(h).size = h.size
BY DEF Piece, Pieces, Headers

\* A dispatch leaves mNext at a subscription of the list, and gives the message
\* to every subscription of the list that is not destroyed.
LEMMA DispatchIs ==
  ASSUME TopicOK, NEW message \in Seq(Pieces), Dispatch(message)
  PROVE  /\ got' \in [Subs -> Seq(Seq(Pieces))]
         /\ \A s \in Subs : got'[s] = IF Has(mSubs, s) /\ s \notin mDestroyed
                                      THEN Append(got[s], message) ELSE got[s]
         /\ dispatched' = Append(dispatched, message) /\ dispatched' \in Seq(Seq(Pieces))
         /\ mNext' \in Subs \cup {NULL} /\ (mNext' # NULL => Has(mSubs, mNext'))
<1>1. PICK t : t = Turn
  OBVIOUS
<1>2. t \in Seq(Subs) /\ Len(t) = Len(mSubs) /\ \A x : Has(t, x) <=> Has(mSubs, x)
  BY <1>1, TurnIs DEF TopicOK
<1>3. /\ got' = [s \in Subs |-> IF s \in ToSet(t) \ mDestroyed THEN Append(got[s], message) ELSE got[s]]
      /\ mNext' = IF Len(t) > 1 /\ Head(t) # Last(mSubs) THEN t[2] ELSE NULL
      /\ dispatched' = Append(dispatched, message)
  BY <1>1 DEF Dispatch
<1>4. \A s \in Subs : s \in ToSet(t) <=> Has(mSubs, s)
  BY <1>2, HasToSet
<1>5. got \in [Subs -> Seq(Seq(Pieces))] /\ dispatched \in Seq(Seq(Pieces))
  BY DEF TopicOK
<1>6. \A s \in Subs : got'[s] = IF Has(mSubs, s) /\ s \notin mDestroyed
                                THEN Append(got[s], message) ELSE got[s]
  BY <1>3, <1>4
<1>7. \A s \in Subs : got[s] \in Seq(Seq(Pieces)) /\ Append(got[s], message) \in Seq(Seq(Pieces))
  BY <1>5
<1>8. got' \in [Subs -> Seq(Seq(Pieces))]
  BY <1>3, <1>7
<1>9. dispatched' \in Seq(Seq(Pieces))
  BY <1>3, <1>5
<1>10. mNext' \in Subs \cup {NULL} /\ (mNext' # NULL => Has(mSubs, mNext'))
  <2>1. CASE Len(t) > 1 /\ Head(t) # Last(mSubs)
    <3>1. 2 \in 1..Len(t)
      BY <1>2, <2>1
    <3>2. t[2] \in Subs /\ Has(t, t[2])
      BY <1>2, <3>1 DEF Has
    <3> QED BY <1>2, <1>3, <2>1, <3>2
  <2>2. CASE ~(Len(t) > 1 /\ Head(t) # Last(mSubs))
    BY <1>3, <2>2
  <2> QED BY <2>1, <2>2
<1> QED BY <1>3, <1>6, <1>8, <1>9, <1>10

\* HandleMessage keeps the invariant and takes the first header that was received.
LEMMA HandleMessageTypes ==
  ASSUME Types, HandleMessage
  PROVE  /\ Types' /\ input \in Seq(Headers) /\ input # << >> /\ Head(input) \in Headers
         /\ Cores(input) = <<Core(Head(input))>> \o Cores(input')
         /\ wire' = wire /\ mBuffers' = mBuffers /\ begun' = begun /\ job' = job /\ lost' = lost
<1>1. PICK h : h = Head(input)
  OBVIOUS
<1>2. /\ reading /\ input' = Tail(input) /\ reading' = (handler = "udp" /\ Len(input) > 1)
      /\ IF mSubs = << >> THEN UNCHANGED <<topicVars, got, historyVars>>
         ELSE /\ mSubs' = mSubs
              /\ IF h.fragNum # 0 THEN Assemble(h)
                 ELSE Dispatch(<<Piece(h)>>) /\ UNCHANGED <<mFragNum, mFragData, handled>>
      /\ UNCHANGED <<sendVars, wire, lost, mDestroyed, since, until>>
  BY <1>1 DEF HandleMessage
<1>3. input \in Seq(Headers) /\ input # << >>
  BY <1>2 DEF Types, WireOK
<1>4. PICK n \in Nat : n + 1 = Len(input)
  <2>1. Len(input) - 1 \in Nat /\ (Len(input) - 1) + 1 = Len(input)
    BY <1>3
  <2> QED BY <2>1
<1>5. PICK t : t = Tail(input)
  OBVIOUS
<1>6. t \in Seq(Headers) /\ Len(t) = n /\ h \in Headers /\ input = <<h>> \o t
  BY <1>1, <1>3, <1>4, <1>5
<1>7. Cores(input) = <<Core(h)>> \o Cores(t)
  <2>1. <<h>> \in Seq(Headers)
    BY <1>6
  <2>2. Cores(<<h>> \o t) = Cores(<<h>>) \o Cores(t)
    BY <1>6, <2>1, CoresConcat
  <2> QED BY <1>6, <2>2, CoresOne
<1>8. SendOK'
  BY <1>2 DEF Types, SendOK, BufferOK, sendVars
<1>9. WireOK'
  <2>1. reading' = (handler = "udp" /\ Len(input) > 1) /\ handler' = handler /\ handler \in Handlers
    BY <1>2 DEF Types, SendOK, sendVars
  <2>2. reading' => t # << >>
    <3>1. Len(input) > 1 => n > 0
      <4>1. PICK k \in Nat : k = Len(input) /\ n + 1 = k
        BY <1>3, <1>4
      <4>2. k > 1 => n > 0
        BY <4>1
      <4> QED BY <4>1, <4>2
    <3>2. n > 0 => t # << >>
      BY <1>6
    <3>3. reading' => Len(input) > 1
      BY <2>1, Zenon
    <3> QED BY <3>1, <3>2, <3>3
  <2>3. handler = "udp" /\ ~reading' => t = << >>
    <3>1. ~(Len(input) > 1) => n = 0
      <4>1. PICK k \in Nat : k = Len(input) /\ n + 1 = k
        BY <1>3, <1>4
      <4>2. ~(k > 1) => n = 0
        BY <4>1
      <4> QED BY <4>1, <4>2
    <3>2. n = 0 => t = << >>
      BY <1>6
    <3>3. handler = "udp" /\ ~reading' => ~(Len(input) > 1)
      BY <2>1, Zenon
    <3> QED BY <3>1, <3>2, <3>3
  <2>4. /\ wire' \in Seq(Packets) /\ lost' \in Nat
        /\ handler = "udp" => AllEnd(wire')
        /\ handler = "tcpmesh" => \A i \in 1..Len(wire') : Len(wire'[i]) = 1
    BY <1>2 DEF Types, WireOK
  <2>5. input' \in Seq(Headers) /\ reading' \in BOOLEAN
    BY <1>2, <1>5, <1>6, <2>1
  <2> QED BY <1>2, <1>5, <2>1, <2>2, <2>3, <2>4, <2>5 DEF WireOK
<1>10. TopicOK'
  <2>1. TopicOK
    BY DEF Types
  <2>2. CASE mSubs = << >>
    BY <1>2, <2>1, <2>2 DEF TopicOK, topicVars, historyVars
  <2>3. CASE mSubs # << >>
    <3>1. /\ mSubs' = mSubs /\ UNCHANGED <<mDestroyed, since, until>>
          /\ IF h.fragNum # 0 THEN Assemble(h)
             ELSE Dispatch(<<Piece(h)>>) /\ UNCHANGED <<mFragNum, mFragData, handled>>
      BY <1>2, <2>3
    <3>2. Piece(h) \in Pieces /\ h.fragNum \in Nat
      BY <1>6, PieceIs DEF Headers
    <3>3. mFragData \in Seq(Pieces) /\ handled \in Seq(Headers) /\ mFragNum \in Nat
      BY <2>1 DEF TopicOK
    <3>4. Append(mFragData, Piece(h)) \in Seq(Pieces) /\ Append(handled, h) \in Seq(Headers)
          /\ <<Piece(h)>> \in Seq(Pieces)
      BY <1>6, <3>2, <3>3
    <3>5. /\ got' \in [Subs -> Seq(Seq(Pieces))] /\ dispatched' \in Seq(Seq(Pieces))
          /\ mNext' \in Subs \cup {NULL} /\ (mNext' # NULL => Has(mSubs, mNext'))
      <4>1. CASE h.fragNum = 0
        BY <2>1, <3>1, <3>4, <4>1, DispatchIs
      <4>2. CASE h.fragNum # 0 /\ Expected(h) /\ h.lastFragment
        <5>1. Dispatch(Append(mFragData, Piece(h)))
          BY <3>1, <4>2 DEF Assemble
        <5> QED BY <2>1, <3>4, <5>1, DispatchIs
      <4>3. CASE h.fragNum # 0 /\ ~(Expected(h) /\ h.lastFragment)
        <5>1. UNCHANGED <<got, mNext, dispatched>>
          BY <3>1, <4>3 DEF Assemble
        <5> QED BY <2>1, <5>1 DEF TopicOK
      <4> QED BY <4>1, <4>2, <4>3
    <3>6. mFragNum' \in Nat /\ mFragData' \in Seq(Pieces) /\ handled' \in Seq(Headers)
      <4>1. CASE h.fragNum = 0
        BY <3>1, <3>3, <4>1
      <4>2. CASE h.fragNum # 0
        <5>1. /\ handled' = Append(handled, h)
              /\ \/ mFragNum' = h.fragNum /\ mFragData' = Append(mFragData, Piece(h))
                 \/ mFragNum' = 0 /\ mFragData' = << >>
          BY <3>1, <4>2 DEF Assemble
        <5>2. 0 \in Nat /\ << >> \in Seq(Pieces)
          OBVIOUS
        <5> QED BY <3>2, <3>4, <5>1, <5>2, Zenon
      <4> QED BY <4>1, <4>2
    <3> QED BY <2>1, <3>1, <3>5, <3>6 DEF TopicOK
  <2> QED BY <2>2, <2>3
<1> QED BY <1>1, <1>2, <1>3, <1>5, <1>6, <1>7, <1>8, <1>9, <1>10 DEF Types, sendVars

\* SubAdd keeps the invariant.
LEMMA SubAddTypes ==
  ASSUME Types, NEW s \in Subs, SubAdd(s)
  PROVE  Types'
<1>1. /\ since[s] = -1 /\ mSubs' = Append(mSubs, s)
      /\ IF mSubs = << >>
         THEN mNext' = NULL /\ mFragNum' = 0 /\ mFragData' = << >> /\ handled' = << >>
         ELSE UNCHANGED <<mNext, mFragNum, mFragData, handled>>
      /\ since' = [since EXCEPT ![s] = Len(dispatched)]
      /\ UNCHANGED <<sendVars, wire, lost, readVars, mDestroyed, got, until, dispatched>>
  BY DEF SubAdd
<1>2. SendOK'
  BY <1>1 DEF Types, SendOK, BufferOK, sendVars
<1>3. WireOK'
  BY <1>1 DEF Types, WireOK, readVars, sendVars
<1>4. TopicOK
  BY DEF Types
<1>5. PICK m \in Nat : m = Len(mSubs)
  BY <1>4 DEF TopicOK
<1>6. PICK c : c = mSubs'
  OBVIOUS
<1>7. c \in Seq(Subs) /\ Len(c) = m + 1 /\ (\A i \in 1..m : c[i] = mSubs[i]) /\ c[m + 1] = s
  <2>1. mSubs \in Seq(Subs)
    BY <1>4 DEF TopicOK
  <2> QED BY <1>1, <1>5, <1>6, <2>1, AppendIs
<1>8. \A i \in 1..m : mSubs[i] # s
  BY <1>1, <1>4, <1>5 DEF TopicOK, Has
<1>9. Distinct(c)
  <2>1. ASSUME NEW i \in 1..(m + 1), NEW j \in 1..(m + 1), c[i] = c[j] PROVE i = j
    <3>1. CASE i = m + 1 \/ j = m + 1
      <4>1. \A k \in 1..(m + 1) : k = m + 1 \/ k \in 1..m
        OBVIOUS
      <4> QED BY <1>7, <1>8, <2>1, <3>1, <4>1
    <3>2. CASE i # m + 1 /\ j # m + 1
      <4>1. i \in 1..m /\ j \in 1..m
        BY <3>2
      <4>2. mSubs[i] = mSubs[j]
        BY <1>7, <2>1, <4>1
      <4> QED BY <1>4, <1>5, <4>1, <4>2 DEF TopicOK, Distinct
    <3> QED BY <3>1, <3>2
  <2> QED BY <1>7, <2>1 DEF Distinct
<1>10. \A x : Has(c, x) <=> Has(mSubs, x) \/ x = s
  <2>1. ASSUME NEW x, Has(c, x) PROVE Has(mSubs, x) \/ x = s
    <3>1. PICK i \in 1..(m + 1) : c[i] = x
      BY <1>7, <2>1 DEF Has
    <3>2. i \in 1..m \/ i = m + 1
      OBVIOUS
    <3> QED BY <1>5, <1>7, <3>1, <3>2 DEF Has
  <2>2. ASSUME NEW x, Has(mSubs, x) \/ x = s PROVE Has(c, x)
    <3>1. CASE x = s
      <4>1. m + 1 \in 1..(m + 1)
        OBVIOUS
      <4> QED BY <1>7, <3>1, <4>1 DEF Has
    <3>2. CASE Has(mSubs, x)
      <4>1. PICK i \in 1..m : mSubs[i] = x
        BY <1>5, <3>2 DEF Has
      <4>2. i \in 1..(m + 1)
        OBVIOUS
      <4> QED BY <1>7, <4>1, <4>2 DEF Has
    <3> QED BY <2>2, <3>1, <3>2
  <2> QED BY <2>1, <2>2
<1>11. since' \in [Subs -> Nat \cup {-1}] /\ since'[s] # -1 /\ \A x \in Subs : x # s => since'[x] = since[x]
  <2>1. dispatched \in Seq(Seq(Pieces)) /\ Len(dispatched) \in Nat
    BY <1>4 DEF TopicOK
  <2>2. since \in [Subs -> Nat \cup {-1}]
    BY <1>4 DEF TopicOK
  <2> QED BY <1>1, <2>1, <2>2
<1>12. /\ mNext' \in Subs \cup {NULL} /\ (mNext' # NULL => Has(c, mNext'))
       /\ mFragNum' \in Nat /\ mFragData' \in Seq(Pieces) /\ handled' \in Seq(Headers)
  BY <1>1, <1>4, <1>10 DEF TopicOK
<1>13. TopicOK'
  <2>1. \A x \in Subs : Has(c, x) => since'[x] # -1
    BY <1>4, <1>10, <1>11 DEF TopicOK
  <2>2. /\ dispatched' \in Seq(Seq(Pieces)) /\ mDestroyed' \subseteq Subs
        /\ got' \in [Subs -> Seq(Seq(Pieces))] /\ until' \in [Subs -> Nat \cup {-1}]
    BY <1>1, <1>4 DEF TopicOK
  <2> QED BY <1>6, <1>7, <1>9, <1>11, <1>12, <2>1, <2>2 DEF TopicOK
<1> QED BY <1>2, <1>3, <1>13 DEF Types

\* SubDestroy keeps the invariant.
LEMMA SubDestroyTypes ==
  ASSUME Types, NEW s \in Subs, SubDestroy(s)
  PROVE  Types'
<1>1. /\ mDestroyed' = mDestroyed \cup {s} /\ until' = [until EXCEPT ![s] = Len(dispatched)]
      /\ UNCHANGED <<sendVars, wire, lost, readVars, topicVars, got, since, historyVars>>
  BY DEF SubDestroy
<1>2. SendOK'
  BY <1>1 DEF Types, SendOK, BufferOK, sendVars
<1>3. WireOK'
  BY <1>1 DEF Types, WireOK, readVars, sendVars
<1>4. TopicOK'
  <2>1. TopicOK
    BY DEF Types
  <2>2. Len(dispatched) \in Nat
    BY <2>1 DEF TopicOK
  <2>3. until' \in [Subs -> Nat \cup {-1}]
    BY <1>1, <2>1, <2>2 DEF TopicOK
  <2> QED BY <1>1, <2>1, <2>3 DEF TopicOK, topicVars, historyVars
<1> QED BY <1>2, <1>3, <1>4 DEF Types

\* SubRemove keeps the invariant and takes one subscription off the list.
LEMMA SubRemoveTypes ==
  ASSUME Types, NEW s \in Subs, SubRemove(s)
  PROVE  /\ Types' /\ s \in mDestroyed
         /\ \A x : Has(mSubs', x) <=> Has(mSubs, x) /\ x # s
<1>1. /\ s \in mDestroyed /\ s \in ToSet(mSubs)
      /\ mNext' = (IF mNext = s THEN After(s) ELSE mNext)
      /\ mSubs' = RemoveFirst(mSubs, s)
      /\ UNCHANGED <<sendVars, wire, lost, readVars, mFragNum, mFragData, subVars, historyVars>>
  BY DEF SubRemove
<1>2. TopicOK
  BY DEF Types
<1>3. mSubs \in Seq(Subs) /\ Distinct(mSubs) /\ Has(mSubs, s) /\ (mNext # NULL => Has(mSubs, mNext))
  BY <1>1, <1>2, HasToSet DEF TopicOK
<1>4. PICK c : c = mSubs'
  OBVIOUS
<1>5. c \in Seq(Subs) /\ Distinct(c) /\ \A x : Has(c, x) <=> Has(mSubs, x) /\ x # s
  BY <1>1, <1>3, <1>4, RemoveFirstIs
<1>6. SendOK'
  BY <1>1 DEF Types, SendOK, BufferOK, sendVars
<1>7. WireOK'
  BY <1>1 DEF Types, WireOK, readVars, sendVars
<1>8. After(s) \in Subs \cup {NULL} /\ (After(s) # NULL => Has(c, After(s)))
  <2>1. PICK n \in Nat : n = Len(mSubs)
    BY <1>3
  <2>2. PICK i \in 1..n : mSubs[i] = s
    BY <1>3, <2>1 DEF Has
  <2>3. SelectInSeq(mSubs, LAMBDA v : v = s) = i
    <3>1. {k \in 1..Len(mSubs) : mSubs[k] = s} = {i}
      BY <1>3, <2>1, <2>2 DEF Distinct
    <3>2. i \in Nat
      OBVIOUS
    <3> QED BY <3>1, <3>2, MinOne DEF SelectInSeq
  <2>4. After(s) = IF i < n THEN mSubs[i + 1] ELSE NULL
    BY <2>1, <2>3 DEF After
  <2>5. ASSUME i < n PROVE mSubs[i + 1] \in Subs /\ Has(c, mSubs[i + 1])
    <3>1. i + 1 \in 1..n /\ i + 1 # i
      BY <2>5
    <3>2. mSubs[i + 1] # s
      BY <1>3, <2>1, <2>2, <3>1 DEF Distinct
    <3>3. mSubs[i + 1] \in Subs /\ Has(mSubs, mSubs[i + 1])
      BY <1>3, <2>1, <3>1 DEF Has
    <3> QED BY <1>5, <3>2, <3>3
  <2> QED BY <2>4, <2>5
<1>9. mNext' \in Subs \cup {NULL} /\ (mNext' # NULL => Has(c, mNext'))
  BY <1>1, <1>2, <1>3, <1>5, <1>8 DEF TopicOK
<1>10. TopicOK'
  BY <1>1, <1>2, <1>4, <1>5, <1>9 DEF TopicOK, subVars, historyVars
<1> QED BY <1>1, <1>4, <1>5, <1>6, <1>7, <1>10 DEF Types

\* A step that changes nothing keeps everything.
LEMMA StutterTypes ==
  ASSUME Types, UNCHANGED vars
  PROVE  Types'
<1>1. UNCHANGED <<sendVars, wire, lost, readVars, topicVars, subVars, historyVars>>
  BY DEF vars
<1>2. SendOK'
  BY <1>1 DEF Types, SendOK, BufferOK, sendVars
<1>3. WireOK'
  BY <1>1 DEF Types, WireOK, readVars, sendVars
<1>4. TopicOK'
  BY <1>1 DEF Types, TopicOK, topicVars, subVars, historyVars
<1> QED BY <1>2, <1>3, <1>4 DEF Types

\* Every step keeps the invariant.
LEMMA NextTypes ==
  ASSUME Types, [Next]_vars
  PROVE  Types'
BY PubSendTypes, FragmentLockTypes, FragmentSendTypes, BatchAddTypes, BatchSendTypes,
   BatchSendPacketTypes, BatchDestroyTypes, LoseTypes, ReadPacketTypes, ReadStreamTypes,
   HandleMessageTypes, SubAddTypes, SubDestroyTypes, SubRemoveTypes, StutterTypes DEF Next

\* The invariant is stronger than the type invariant.
LEMMA TypesTypeOK == ASSUME Types PROVE TypeOK
<1>1. mBuffers \in [Batches -> Seq(Seq(Headers))]
  <2>1. \A b \in Batches : mBuffers[b] \in Seq(Seq(Headers))
    BY PacketsAre DEF Types, SendOK
  <2> QED BY <2>1 DEF Types, SendOK
<1>2. wire \in Seq(Seq(Headers))
  BY PacketsAre DEF Types, WireOK
<1> QED BY <1>1, <1>2 DEF Types, SendOK, WireOK, TopicOK, TypeOK

\* The type invariant, and with it the shape of what is sent: a job is fragments
\* only while mSendLock is its publisher's, a packet ends where it says
\* (SBF_MESSAGE_FLAG_LAST_IN_PACKET), and a topic's mNext is in its list.
THEOREM TypeCorrect == Spec => []TypeOK
<1>1. Init => Types
  BY InitTypes
<1>2. Types /\ [Next]_vars => Types'
  BY NextTypes
<1>3. Types => TypeOK
  BY TypesTypeOK
<1> QED BY <1>1, <1>2, <1>3, PTL DEF Spec

-----------------------------------------------------------------------------
(* What each subscription is given. *)

\* The steps that touch the topic, its subscriptions or what was dispatched.
LEMMA NextTopic ==
  ASSUME [Next]_vars
  PROVE  \/ UNCHANGED <<topicVars, subVars, historyVars>>
         \/ HandleMessage
         \/ \E s \in Subs : SubAdd(s) \/ SubDestroy(s) \/ SubRemove(s)
<1>1. CASE UNCHANGED vars
  BY <1>1 DEF vars
<1>2. ASSUME NEW p \in Pubs, NEW size \in Sizes, PubSend(p, size) \/ FragmentLock(p, size)
      PROVE  UNCHANGED <<topicVars, subVars, historyVars>>
  BY <1>2 DEF PubSend, FragmentLock
<1>3. ASSUME NEW p \in Pubs, FragmentSend(p) PROVE UNCHANGED <<topicVars, subVars, historyVars>>
  BY <1>3 DEF FragmentSend
<1>4. ASSUME NEW b \in Batches, NEW size \in Sizes, BatchAdd(b, size)
      PROVE  UNCHANGED <<topicVars, subVars, historyVars>>
  BY <1>4 DEF BatchAdd
<1>5. ASSUME NEW b \in Batches, BatchSend(b) \/ BatchSendPacket(b) \/ BatchDestroy(b)
      PROVE  UNCHANGED <<topicVars, subVars, historyVars>>
  BY <1>5 DEF BatchSend, BatchSendPacket, BatchDestroy
<1>6. CASE Lose \/ ReadPacket \/ ReadStream
  BY <1>6 DEF Lose, ReadPacket, ReadStream
<1> QED BY <1>1, <1>2, <1>3, <1>4, <1>5, <1>6 DEF Next

\* A message handled adds at most one to what was dispatched.
LEMMA HandleIs ==
  ASSUME Types, HandleMessage
  PROVE  /\ UNCHANGED <<mSubs, mDestroyed, since, until>>
         /\ \/ UNCHANGED <<got, dispatched>>
            \/ \E message \in Seq(Pieces) :
                 /\ dispatched' = Append(dispatched, message)
                 /\ \A s \in Subs : got'[s] = IF Has(mSubs, s) /\ s \notin mDestroyed
                                              THEN Append(got[s], message) ELSE got[s]
<1>1. PICK h \in Headers : h = Head(input)
  BY HandleMessageTypes
<1>2. /\ UNCHANGED <<mDestroyed, since, until>>
      /\ IF mSubs = << >> THEN UNCHANGED <<topicVars, got, historyVars>>
         ELSE /\ mSubs' = mSubs
              /\ IF h.fragNum # 0 THEN Assemble(h)
                 ELSE Dispatch(<<Piece(h)>>) /\ UNCHANGED <<mFragNum, mFragData, handled>>
  BY <1>1 DEF HandleMessage
<1>3. mSubs' = mSubs
  BY <1>2 DEF topicVars
<1>4. CASE UNCHANGED <<got, dispatched>>
  BY <1>2, <1>3, <1>4
<1>5. CASE \E message \in Seq(Pieces) : Dispatch(message)
  BY <1>2, <1>3, <1>5, DispatchIs DEF Types
<1>6. UNCHANGED <<got, dispatched>> \/ \E message \in Seq(Pieces) : Dispatch(message)
  <2>1. <<Piece(h)>> \in Seq(Pieces) /\ Append(mFragData, Piece(h)) \in Seq(Pieces)
    BY PieceIs DEF Types, TopicOK
  <2>2. CASE mSubs = << >>
    BY <1>2, <2>2 DEF historyVars
  <2>3. CASE mSubs # << >> /\ h.fragNum = 0
    BY <1>2, <2>1, <2>3
  <2>4. CASE mSubs # << >> /\ h.fragNum # 0
    BY <1>2, <2>1, <2>4 DEF Assemble
  <2> QED BY <2>2, <2>3, <2>4
<1> QED BY <1>4, <1>5, <1>6

\* s was given what was dispatched while it was there, and is in the list until
\* it is destroyed.
SubOK(s) ==
  /\ since[s] = -1 => until[s] = -1 /\ got[s] = << >>
  /\ s \in mDestroyed <=> until[s] # -1
  /\ since[s] # -1 => /\ since[s] \in Nat /\ since[s] <= Len(dispatched)
                      /\ s \notin mDestroyed => Has(mSubs, s)
                      /\ until[s] = -1 => got[s] = SubSeq(dispatched, since[s] + 1, Len(dispatched))
                      /\ until[s] # -1 => /\ until[s] \in Nat
                                          /\ since[s] <= until[s] /\ until[s] <= Len(dispatched)
                                          /\ got[s] = SubSeq(dispatched, since[s] + 1, until[s])

SubsOK == \A s \in Subs : SubOK(s)

\* HandleMessage keeps SubsOK.
LEMMA HandleSubs ==
  ASSUME Types, SubsOK, HandleMessage
  PROVE  SubsOK'
<1>1. UNCHANGED <<mSubs, mDestroyed, since, until>>
  BY HandleIs
<1>2. CASE UNCHANGED <<got, dispatched>>
  BY <1>1, <1>2 DEF SubsOK, SubOK
<1>3. CASE ~UNCHANGED <<got, dispatched>>
  <2>1. PICK message \in Seq(Pieces) :
          /\ dispatched' = Append(dispatched, message)
          /\ \A s \in Subs : got'[s] = IF Has(mSubs, s) /\ s \notin mDestroyed
                                       THEN Append(got[s], message) ELSE got[s]
    BY <1>3, HandleIs
  <2>2. PICK S : S = Seq(Pieces)
    OBVIOUS
  <2>3. dispatched \in Seq(S) /\ message \in S
    BY <2>2 DEF Types, TopicOK
  <2>4. PICK m \in Nat : m = Len(dispatched)
    BY <2>3
  <2>5. PICK d : d = dispatched'
    OBVIOUS
  <2>6. Len(d) = m + 1
    BY <2>1, <2>3, <2>4, <2>5, AppendIs
  <2>7. ASSUME NEW s \in Subs PROVE SubOK(s)'
    <3>1. SubOK(s)
      BY DEF SubsOK
    <3>2. CASE since[s] = -1
      <4>1. ~Has(mSubs, s)
        BY <3>2 DEF Types, TopicOK
      <4>2. got'[s] = got[s]
        BY <2>1, <4>1
      <4> QED BY <1>1, <3>1, <3>2, <4>2 DEF SubOK
    <3>3. CASE since[s] # -1 /\ until[s] = -1
      <4>1. PICK i \in Nat : i = since[s] /\ i <= m
        BY <2>4, <3>1, <3>3 DEF SubOK
      <4>2. s \notin mDestroyed /\ Has(mSubs, s)
        BY <3>1, <3>3 DEF SubOK
      <4>3. got'[s] = Append(got[s], message) /\ got[s] = SubSeq(dispatched, i + 1, m)
        BY <2>1, <2>4, <3>1, <3>3, <4>1, <4>2 DEF SubOK
      <4>4. SubSeq(Append(dispatched, message), i + 1, m + 1) = Append(SubSeq(dispatched, i + 1, m), message)
        <5>1. PICK a : a \in Seq(S) /\ a = dispatched
          BY <2>3
        <5>2. m = Len(a) /\ i <= m
          BY <2>4, <4>1, <5>1
        <5>3. SubSeq(Append(a, message), i + 1, m + 1) = Append(SubSeq(a, i + 1, m), message)
          <6>1. a \in Seq(S) /\ message \in S /\ m \in Nat /\ i \in Nat
            BY <2>3, <5>1
          <6> QED BY <5>2, <6>1, SliceAppend, Zenon
        <5> QED BY <5>1, <5>3
      <4>5. got'[s] = SubSeq(d, i + 1, m + 1)
        BY <2>1, <2>5, <4>3, <4>4
      <4>6. i <= m + 1
        BY <4>1
      <4> QED BY <1>1, <2>5, <2>6, <3>1, <3>3, <4>1, <4>2, <4>5, <4>6 DEF SubOK
    <3>4. CASE since[s] # -1 /\ until[s] # -1
      <4>1. PICK i \in Nat : i = since[s]
        BY <3>1, <3>4 DEF SubOK
      <4>2. PICK j \in Nat : j = until[s]
        BY <3>1, <3>4 DEF SubOK
      <4>3. i <= j /\ j <= m /\ s \in mDestroyed /\ got[s] = SubSeq(dispatched, i + 1, j)
        BY <2>4, <3>1, <3>4, <4>1, <4>2 DEF SubOK
      <4>4. SubSeq(Append(dispatched, message), i + 1, j) = SubSeq(dispatched, i + 1, j)
        BY <2>3, <2>4, <4>3, SliceSame
      <4>5. got'[s] = SubSeq(d, i + 1, j)
        BY <2>1, <2>5, <4>3, <4>4
      <4>6. i <= m + 1 /\ j <= m + 1
        BY <4>3
      <4> QED BY <1>1, <2>5, <2>6, <3>1, <3>4, <4>1, <4>2, <4>3, <4>5, <4>6 DEF SubOK
    <3> QED BY <3>2, <3>3, <3>4
  <2> QED BY <2>7 DEF SubsOK
<1> QED BY <1>2, <1>3

\* Every step keeps SubsOK.
LEMMA NextSubs ==
  ASSUME Types, SubsOK, [Next]_vars
  PROVE  SubsOK'
<1>0. /\ dispatched \in Seq(Seq(Pieces)) /\ Len(dispatched) \in Nat
      /\ since \in [Subs -> Nat \cup {-1}] /\ until \in [Subs -> Nat \cup {-1}]
  BY DEF Types, TopicOK
<1>1. CASE UNCHANGED <<topicVars, subVars, historyVars>>
  BY <1>1 DEF SubsOK, SubOK, topicVars, subVars, historyVars
<1>2. CASE HandleMessage
  BY <1>2, HandleSubs
<1>3. ASSUME NEW s \in Subs, SubAdd(s) PROVE SubsOK'
  <2>1. /\ since[s] = -1 /\ mSubs' = Append(mSubs, s)
        /\ since' = [since EXCEPT ![s] = Len(dispatched)]
        /\ UNCHANGED <<mDestroyed, got, until, dispatched>>
    BY <1>3 DEF SubAdd
  <2>2. PICK m \in Nat : m = Len(dispatched)
    BY <1>0
  <2>3. since'[s] = m /\ \A x \in Subs : x # s => since'[x] = since[x]
    BY <1>0, <2>1, <2>2
  <2>4. Has(mSubs', s) /\ \A x : Has(mSubs, x) => Has(mSubs', x)
    <3>1. mSubs \in Seq(Subs)
      BY DEF Types, TopicOK
    <3>2. PICK n \in Nat : n = Len(mSubs)
      BY <3>1
    <3>3. PICK c : c = mSubs'
      OBVIOUS
    <3>4. Len(c) = n + 1 /\ (\A i \in 1..n : c[i] = mSubs[i]) /\ c[n + 1] = s
      BY <2>1, <3>1, <3>2, <3>3, AppendIs
    <3>5. n + 1 \in 1..(n + 1) /\ \A i \in 1..n : i \in 1..(n + 1)
      OBVIOUS
    <3> QED BY <3>2, <3>3, <3>4, <3>5 DEF Has
  <2>5. ASSUME NEW x \in Subs PROVE SubOK(x)'
    <3>1. SubOK(x)
      BY DEF SubsOK
    <3>2. CASE x = s
      <4>1. until[s] = -1 /\ got[s] = << >> /\ s \notin mDestroyed
        BY <2>1, <3>1, <3>2 DEF SubOK
      <4>2. SubSeq(dispatched, m + 1, m) = << >>
        <5>1. PICK c : c = SubSeq(dispatched, m + 1, m + 0)
          OBVIOUS
        <5>2. m + 0 <= Len(dispatched) /\ m + 0 = m
          BY <2>2
        <5>3. c \in Seq(Seq(Pieces)) /\ Len(c) = 0
          BY <1>0, <5>1, <5>2, SliceIs
        <5>4. c = << >>
          BY <5>3
        <5> QED BY <5>1, <5>2, <5>4
      <4> QED BY <2>1, <2>2, <2>3, <2>4, <3>2, <4>1, <4>2 DEF SubOK
    <3>3. CASE x # s
      BY <2>1, <2>3, <2>4, <3>1, <3>3 DEF SubOK
    <3> QED BY <3>2, <3>3
  <2> QED BY <2>5 DEF SubsOK
<1>4. ASSUME NEW s \in Subs, SubDestroy(s) PROVE SubsOK'
  <2>1. /\ since[s] # -1 /\ s \notin mDestroyed /\ mDestroyed' = mDestroyed \cup {s}
        /\ until' = [until EXCEPT ![s] = Len(dispatched)]
        /\ UNCHANGED <<mSubs, got, since, dispatched>>
    BY <1>4 DEF SubDestroy, topicVars, historyVars
  <2>2. PICK m \in Nat : m = Len(dispatched)
    BY <1>0
  <2>3. until'[s] = m /\ m # -1 /\ \A x \in Subs : x # s => until'[x] = until[x]
    BY <1>0, <2>1, <2>2
  <2>4. ASSUME NEW x \in Subs PROVE SubOK(x)'
    <3>1. SubOK(x)
      BY DEF SubsOK
    <3>2. CASE x = s
      <4>1. until[s] = -1 /\ s \in mDestroyed'
        BY <2>1, <3>1, <3>2 DEF SubOK
      <4>2. since[s] \in Nat /\ since[s] <= m /\ got[s] = SubSeq(dispatched, since[s] + 1, m)
        BY <2>1, <2>2, <3>1, <3>2, <4>1 DEF SubOK
      <4>3. /\ since'[s] = since[s] /\ got'[s] = got[s] /\ until'[s] = m
            /\ Len(dispatched') = m /\ dispatched' = dispatched /\ since[s] # -1
        BY <2>1, <2>2, <2>3
      <4>4. SubOK(s)'
        BY <2>2, <2>3, <4>1, <4>2, <4>3 DEF SubOK
      <4> QED BY <3>2, <4>4
    <3>3. CASE x # s
      <4>1. x \in mDestroyed' <=> x \in mDestroyed
        BY <2>1, <3>3
      <4> QED BY <2>1, <2>3, <3>1, <3>3, <4>1 DEF SubOK
    <3> QED BY <3>2, <3>3
  <2> QED BY <2>4 DEF SubsOK
<1>5. ASSUME NEW s \in Subs, SubRemove(s) PROVE SubsOK'
  <2>1. s \in mDestroyed /\ \A x : Has(mSubs', x) <=> Has(mSubs, x) /\ x # s
    BY <1>5, SubRemoveTypes
  <2>2. UNCHANGED <<mDestroyed, got, since, until, dispatched>>
    BY <1>5 DEF SubRemove, subVars, historyVars
  <2>3. \A x \in Subs : x \notin mDestroyed => (Has(mSubs, x) => Has(mSubs', x))
    BY <2>1
  <2> QED BY <2>2, <2>3 DEF SubsOK, SubOK
<1> QED BY <1>1, <1>2, <1>3, <1>4, <1>5, NextTopic

\* From when it was added until it was destroyed a subscription is given each
\* message that is dispatched, once (sbfHandlerDispatchMessage and mNext).
THEOREM GivenOnce == Spec => []EachOnce
<1>1. Init => Types /\ SubsOK
  <2>1. Init => SubsOK
    BY DEF Init, SubsOK, SubOK
  <2> QED BY <2>1, InitTypes
<1>2. Types /\ SubsOK /\ [Next]_vars => Types' /\ SubsOK'
  BY NextTypes, NextSubs
<1>3. Types /\ SubsOK => EachOnce
  BY DEF SubsOK, SubOK, EachOnce
<1> QED BY <1>1, <1>2, <1>3, PTL DEF Spec

-----------------------------------------------------------------------------
(* Fragments are put together again after whatever went wrong. *)

\* The fragments handled after the i-th are the first of one message.
Open(i) ==
  /\ i > 0 => handled[i].lastFragment
  /\ \A k \in (i + 1)..Len(handled) : /\ handled[k].msg = handled[Len(handled)].msg
                                      /\ handled[k].fragNum = k - i
                                      /\ ~handled[k].lastFragment

\* Then sbfTport_assemble has them, and nothing else.
Collected == \A i \in 0..Len(handled) :
               Open(i) => /\ mFragNum = Len(handled) - i
                          /\ mFragData = [k \in 1..Len(handled) - i |-> Piece(handled[i + k])]

\* What was dispatched stays.
LEMMA Grows ==
  ASSUME NEW ds \in Seq(Seq(Pieces)), NEW m \in Seq(Pieces), NEW e, e = ds \/ e = Append(ds, m)
  PROVE  \A d \in DOMAIN ds : d \in DOMAIN e /\ e[d] = ds[d]
<1>1. CASE e = ds
  BY <1>1
<1>2. CASE e = Append(ds, m)
  <2>1. PICK S : S = Seq(Pieces)
    OBVIOUS
  <2>2. PICK n \in Nat : n = Len(ds) /\ DOMAIN ds = 1..n
    OBVIOUS
  <2>3. Len(e) = n + 1 /\ DOMAIN e = 1..(n + 1) /\ \A i \in 1..n : e[i] = ds[i]
    <3>1. ds \in Seq(S) /\ m \in S
      BY <2>1
    <3>2. e \in Seq(S) /\ Len(e) = n + 1 /\ \A i \in 1..n : e[i] = ds[i]
      BY <1>2, <2>2, <3>1, AppendIs
    <3> QED BY <3>2
  <2> QED BY <2>2, <2>3
<1> QED BY <1>1, <1>2

\* The fragments after the i-th of L are the first of the message of h.
Started(i, L, h) ==
  /\ i > 0 => handled[i].lastFragment
  /\ \A k \in (i + 1)..L : /\ handled[k].msg = h.msg /\ handled[k].fragNum = k - i
                           /\ ~handled[k].lastFragment

FromFragments(a, g, i, n) == a = [k \in 1..n |-> Piece(g[i + k])]

\* A fragment that comes next after those of its message since i is expected.
LEMMA AssembleOpen ==
  ASSUME Types, Collected, NEW h \in Headers, Assemble(h), NEW L \in Nat, L = Len(handled),
         NEW i \in 0..L, NEW n \in Nat, i + n = L, NEW a, a = Append(mFragData, Piece(h)),
         NEW g, g = handled', Started(i, L, h), h.fragNum = n + 1
  PROVE  Expected(h) /\ FromFragments(a, g, i, n + 1)
<1>1. L - i = n /\ i + n = L
  OBVIOUS
<1>2. Open(i)
  <2>1. L \in (i + 1)..L \/ (i + 1)..L = {}
    OBVIOUS
  <2>2. \A k \in (i + 1)..L : /\ handled[k].msg = h.msg /\ handled[k].fragNum = k - i
                             /\ ~handled[k].lastFragment
    BY DEF Started
  <2>3. \A k \in (i + 1)..L : handled[k].msg = handled[L].msg
    BY <2>1, <2>2
  <2> QED BY <2>2, <2>3 DEF Open, Started
<1>3. mFragNum = n /\ mFragData = [k \in 1..n |-> Piece(handled[i + k])]
  <2>1. i \in 0..Len(handled) /\ Len(handled) - i = n
    BY <1>1
  <2> QED BY <1>2, <2>1 DEF Collected
<1>4. Expected(h)
  <2>1. h.fragNum = n + 1
    OBVIOUS
  <2>2. ASSUME mFragData = << >> PROVE n = 0
    <3>1. DOMAIN mFragData = 1..n
      BY <1>3
    <3>2. 1 \notin 1..n
      BY <2>2, <3>1
    <3>3. ~(1 <= n)
      BY <3>2
    <3> QED BY <3>3
  <2>3. n = 0 => h.fragNum = 1
    BY <2>1
  <2> QED BY <1>3, <2>1, <2>2, <2>3 DEF Expected
<1>5. mFragData \in Seq(Pieces) /\ handled \in Seq(Headers) /\ Piece(h) \in Pieces
  BY PieceIs DEF Types, TopicOK
<1>7. Len(mFragData) = n
  <2>1. DOMAIN mFragData = 1..n
    BY <1>3
  <2> QED BY <1>5, <2>1
<1>8. a \in Seq(Pieces) /\ Len(a) = n + 1 /\ (\A k \in 1..n : a[k] = mFragData[k]) /\ a[n + 1] = Piece(h)
  BY <1>5, <1>7, AppendIs
<1>10. g \in Seq(Headers) /\ Len(g) = L + 1 /\ (\A k \in 1..L : g[k] = handled[k]) /\ g[L + 1] = h
  <2>1. g = Append(handled, h)
    BY DEF Assemble
  <2> QED BY <1>5, <2>1, AppendIs
<1>11. ASSUME NEW k \in 1..(n + 1) PROVE a[k] = Piece(g[i + k])
  <2>1. CASE k = n + 1
    <3>1. i + k = L + 1
      BY <1>1, <2>1
    <3> QED BY <1>8, <1>10, <2>1, <3>1
  <2>2. CASE k # n + 1
    <3>1. k \in 1..n /\ i + k \in 1..L
      BY <1>1, <2>2
    <3> QED BY <1>3, <1>8, <1>10, <3>1
  <2> QED BY <2>1, <2>2
<1>12. a = [k \in 1..(n + 1) |-> Piece(g[i + k])]
  <2>1. PICK z : z = [k \in 1..(n + 1) |-> Piece(g[i + k])]
    OBVIOUS
  <2>2. a = [k \in 1..(n + 1) |-> a[k]]
    <3>1. a \in Seq(Pieces) /\ Len(a) = n + 1
      BY <1>8
    <3>2. a \in [1..(n + 1) -> Pieces]
      BY <3>1, LenProperties
    <3> QED BY <3>2
  <2>3. z = [k \in 1..(n + 1) |-> z[k]]
    BY <2>1
  <2>4. \A k \in 1..(n + 1) : a[k] = z[k]
    BY <1>11, <2>1
  <2>5. a = z
    BY <2>2, <2>3, <2>4
  <2> QED BY <2>1, <2>5
<1> QED BY <1>4, <1>12 DEF FromFragments

\* sbfTport_assemble keeps both.
LEMMA AssembleRecovers ==
  ASSUME Types, Collected, Recovers, NEW h \in Headers, Assemble(h)
  PROVE  Collected' /\ Recovers'
<1>1. PICK L \in Nat : L = Len(handled)
  BY DEF Types, TopicOK
<1>2. PICK g : g = handled'
  OBVIOUS
<1>3. g \in Seq(Headers) /\ Len(g) = L + 1 /\ (\A k \in 1..L : g[k] = handled[k]) /\ g[L + 1] = h
  <2>1. g = Append(handled, h) /\ handled \in Seq(Headers)
    BY <1>2 DEF Assemble, Types, TopicOK
  <2> QED BY <1>1, <2>1, AppendIs
<1>4. /\ IF Expected(h) /\ ~h.lastFragment
         THEN mFragNum' = h.fragNum /\ mFragData' = Append(mFragData, Piece(h))
         ELSE mFragNum' = 0 /\ mFragData' = << >>
      /\ IF Expected(h) /\ h.lastFragment
         THEN Dispatch(Append(mFragData, Piece(h)))
         ELSE UNCHANGED <<got, mNext, dispatched>>
  BY DEF Assemble
<1>5. ASSUME NEW i \in 0..(L + 1), Open(i)'
      PROVE  mFragNum' = L + 1 - i /\ mFragData' = [k \in 1..(L + 1 - i) |-> Piece(g[i + k])]
  <2>1. /\ i > 0 => g[i].lastFragment
        /\ \A k \in (i + 1)..(L + 1) : g[k].msg = g[L + 1].msg /\ g[k].fragNum = k - i /\ ~g[k].lastFragment
    BY <1>2, <1>3, <1>5 DEF Open
  <2>2. CASE i = L + 1
    <3>1. h.lastFragment
      BY <1>3, <2>1, <2>2
    <3>2. mFragNum' = 0 /\ mFragData' = << >>
      BY <1>4, <3>1
    <3>3. L + 1 - i = 0 /\ 1..(L + 1 - i) = {}
      BY <2>2
    <3>4. [k \in 1..(L + 1 - i) |-> Piece(g[i + k])] = << >>
      BY <3>3
    <3> QED BY <3>2, <3>3, <3>4
  <2>3. CASE i # L + 1
    <3>1. i \in 0..L /\ L + 1 \in (i + 1)..(L + 1) /\ \A k \in (i + 1)..L : k \in (i + 1)..(L + 1) /\ k \in 1..L
      BY <2>3
    <3>2. h.fragNum = L + 1 - i /\ ~h.lastFragment
      BY <1>3, <2>1, <3>1
    <3>3. Started(i, L, h)
      <4>1. i > 0 => i \in 1..L
        BY <3>1
      <4> QED BY <1>3, <2>1, <3>1, <4>1 DEF Started
    <3>4. PICK n \in Nat : i + n = L /\ L + 1 - i = n + 1
      <4>1. L - i \in Nat /\ i + (L - i) = L /\ L + 1 - i = (L - i) + 1
        BY <3>1
      <4> QED BY <4>1
    <3>5. PICK a : a = Append(mFragData, Piece(h))
      OBVIOUS
    <3>6. Expected(h) /\ a = [k \in 1..(n + 1) |-> Piece(g[i + k])]
      <4>1. h.fragNum = n + 1 /\ i \in 0..L /\ i + n = L
        BY <3>1, <3>2, <3>4
      <4>2. Expected(h) /\ FromFragments(a, g, i, n + 1)
        BY <1>1, <1>2, <3>3, <3>5, <4>1, AssembleOpen, Zenon
      <4> QED BY <4>2 DEF FromFragments
    <3>7. mFragNum' = h.fragNum /\ mFragData' = a
      BY <1>4, <3>2, <3>5, <3>6
    <3> QED BY <3>2, <3>4, <3>6, <3>7
  <2> QED BY <2>2, <2>3
<1>6. Collected'
  BY <1>2, <1>3, <1>5 DEF Collected
<1>7. \A d \in DOMAIN dispatched : d \in DOMAIN dispatched' /\ dispatched'[d] = dispatched[d]
  <2>1. dispatched \in Seq(Seq(Pieces)) /\ Append(mFragData, Piece(h)) \in Seq(Pieces)
    BY PieceIs DEF Types, TopicOK
  <2>2. dispatched' = dispatched \/ dispatched' = Append(dispatched, Append(mFragData, Piece(h)))
    BY <1>4 DEF Dispatch
  <2> QED BY <2>1, <2>2, Grows
<1>8. ASSUME NEW i \in 0..(L + 1), NEW j \in 1..(L + 1), i < j, i > 0 => g[i].lastFragment,
             \A k \in (i + 1)..j : /\ g[k].msg = g[j].msg /\ g[k].fragNum = k - i
                                   /\ g[k].lastFragment <=> k = j
      PROVE  \E d \in DOMAIN dispatched' : dispatched'[d] = [k \in 1..(j - i) |-> Piece(g[i + k])]
  <2>1. CASE j = L + 1
    <3>1. i \in 0..L /\ j \in (i + 1)..j /\ \A k \in (i + 1)..L : k \in (i + 1)..j /\ k \in 1..L /\ k # j
      BY <1>8, <2>1
    <3>2. h.fragNum = L + 1 - i /\ h.lastFragment
      BY <1>3, <1>8, <2>1, <3>1
    <3>3. Started(i, L, h)
      <4>1. i > 0 => i \in 1..L
        BY <3>1
      <4> QED BY <1>3, <1>8, <2>1, <3>1, <4>1 DEF Started
    <3>4. PICK a : a = Append(mFragData, Piece(h))
      OBVIOUS
    <3>9. PICK n \in Nat : i + n = L /\ L + 1 - i = n + 1
      <4>1. L - i \in Nat /\ i + (L - i) = L /\ L + 1 - i = (L - i) + 1
        BY <3>1
      <4> QED BY <4>1
    <3>10. Expected(h) /\ a = [k \in 1..(n + 1) |-> Piece(g[i + k])]
      <4>1. h.fragNum = n + 1 /\ i \in 0..L /\ i + n = L
        BY <3>1, <3>2, <3>9
      <4>2. Expected(h) /\ FromFragments(a, g, i, n + 1)
        BY <1>1, <1>2, <3>3, <3>4, <4>1, AssembleOpen, Zenon
      <4> QED BY <4>2 DEF FromFragments
    <3>5. Expected(h) /\ a = [k \in 1..(j - i) |-> Piece(g[i + k])]
      <4>1. j - i = n + 1
        BY <2>1, <3>9
      <4> QED BY <3>10, <4>1
    <3>6. dispatched' = Append(dispatched, a)
      BY <1>4, <3>2, <3>4, <3>5 DEF Dispatch
    <3>7. a \in Seq(Pieces) /\ dispatched \in Seq(Seq(Pieces))
      BY <3>4, PieceIs DEF Types, TopicOK
    <3>8. Len(dispatched) + 1 \in DOMAIN dispatched' /\ dispatched'[Len(dispatched) + 1] = a
      BY <3>6, <3>7
    <3> QED BY <3>5, <3>8
  <2>2. CASE j # L + 1
    <3>1. j \in 1..L /\ i \in 0..L /\ (i > 0 => i \in 1..L) /\ \A k \in (i + 1)..j : k \in 1..L
      BY <1>8, <2>2
    <3>2. Whole(i, j) /\ (i > 0 => handled[i].lastFragment)
      BY <1>3, <1>8, <3>1 DEF Whole
    <3>3. i \in 0..Len(handled) /\ j \in DOMAIN handled
      <4>1. DOMAIN handled = 1..L
        BY <1>1 DEF Types, TopicOK
      <4> QED BY <1>1, <3>1, <4>1
    <3>4. PICK d \in DOMAIN dispatched : dispatched[d] = [k \in 1..(j - i) |-> Piece(handled[i + k])]
      BY <3>2, <3>3 DEF Recovers
    <3>5. \A k \in 1..(j - i) : i + k \in 1..L
      BY <3>1
    <3>6. [k \in 1..(j - i) |-> Piece(handled[i + k])] = [k \in 1..(j - i) |-> Piece(g[i + k])]
      BY <1>3, <3>5
    <3> QED BY <1>7, <3>4, <3>6
  <2> QED BY <2>1, <2>2
<1>9. Recovers'
  <2>1. DOMAIN g = 1..(L + 1) /\ Len(g) = L + 1
    BY <1>3
  <2>2. ASSUME NEW i \in 0..Len(g), NEW j \in DOMAIN g, Whole(i, j)', i > 0 => g[i].lastFragment
        PROVE  \E d \in DOMAIN dispatched' : dispatched'[d] = [k \in 1..(j - i) |-> Piece(g[i + k])]
    <3>1. i < j /\ \A k \in (i + 1)..j : /\ g[k].msg = g[j].msg /\ g[k].fragNum = k - i
                                         /\ g[k].lastFragment <=> k = j
      BY <1>2, <2>2 DEF Whole
    <3>2. i \in 0..(L + 1) /\ j \in 1..(L + 1)
      BY <2>1
    <3> QED BY <1>8, <2>2, <3>1, <3>2
  <2> QED BY <1>2, <2>2 DEF Recovers
<1> QED BY <1>6, <1>9

\* Fragments that nothing is done with do not matter.
LEMMA SameRecovers ==
  ASSUME Types, Collected, Recovers, UNCHANGED <<mFragNum, mFragData, handled>>,
         \/ dispatched' = dispatched
         \/ \E message \in Seq(Pieces) : dispatched' = Append(dispatched, message)
  PROVE  Collected' /\ Recovers'
<1>1. Collected'
  BY DEF Collected, Open
<1>2. \A d \in DOMAIN dispatched : d \in DOMAIN dispatched' /\ dispatched'[d] = dispatched[d]
  <2>1. dispatched \in Seq(Seq(Pieces)) /\ << >> \in Seq(Pieces)
    BY DEF Types, TopicOK
  <2> QED BY <2>1, Grows
<1>3. Recovers'
  <2>1. ASSUME NEW i \in 0..Len(handled), NEW j \in DOMAIN handled, Whole(i, j)',
               i > 0 => handled[i].lastFragment
        PROVE  \E d \in DOMAIN dispatched' :
                 dispatched'[d] = [k \in 1..(j - i) |-> Piece(handled[i + k])]
    <3>1. Whole(i, j)
      BY <2>1 DEF Whole
    <3>2. PICK d \in DOMAIN dispatched : dispatched[d] = [k \in 1..(j - i) |-> Piece(handled[i + k])]
      BY <2>1, <3>1 DEF Recovers
    <3> QED BY <1>2, <3>2
  <2> QED BY <2>1 DEF Recovers
<1> QED BY <1>1, <1>3

\* Every step keeps Collected and Recovers.
LEMMA NextRecovers ==
  ASSUME Types, Collected, Recovers, [Next]_vars
  PROVE  Collected' /\ Recovers'
<1>1. CASE UNCHANGED <<topicVars, subVars, historyVars>>
  BY <1>1, SameRecovers DEF topicVars, historyVars
<1>2. CASE HandleMessage
  <2>1. PICK h \in Headers : h = Head(input)
    BY <1>2, HandleMessageTypes
  <2>2. IF mSubs = << >> THEN UNCHANGED <<topicVars, got, historyVars>>
        ELSE /\ mSubs' = mSubs
             /\ IF h.fragNum # 0 THEN Assemble(h)
                ELSE Dispatch(<<Piece(h)>>) /\ UNCHANGED <<mFragNum, mFragData, handled>>
    BY <1>2, <2>1 DEF HandleMessage
  <2>3. CASE mSubs = << >>
    BY <2>2, <2>3, SameRecovers DEF topicVars, historyVars
  <2>4. CASE mSubs # << >> /\ h.fragNum = 0
    <3>1. <<Piece(h)>> \in Seq(Pieces)
      BY PieceIs
    <3>2. UNCHANGED <<mFragNum, mFragData, handled>> /\ dispatched' = Append(dispatched, <<Piece(h)>>)
      BY <2>2, <2>4 DEF Dispatch
    <3> QED BY <3>1, <3>2, SameRecovers
  <2>5. CASE mSubs # << >> /\ h.fragNum # 0
    BY <2>2, <2>5, AssembleRecovers
  <2> QED BY <2>3, <2>4, <2>5
<1>3. ASSUME NEW s \in Subs, SubAdd(s) PROVE Collected' /\ Recovers'
  <2>1. CASE mSubs = << >>
    <3>1. mFragNum' = 0 /\ mFragData' = << >> /\ handled' = << >>
      BY <1>3, <2>1 DEF SubAdd
    <3>2. Len(handled') = 0 /\ DOMAIN handled' = {} /\ 0..0 = {0} /\ 0 - 0 = 0 /\ 1..0 = {}
      BY <3>1
    <3>3. [k \in 1..0 |-> Piece(handled'[0 + k])] = << >>
      BY <3>2
    <3>4. Collected'
      BY <3>1, <3>2, <3>3 DEF Collected
    <3>5. Recovers'
      BY <3>2 DEF Recovers
    <3> QED BY <3>4, <3>5
  <2>2. CASE mSubs # << >>
    BY <1>3, <2>2, SameRecovers DEF SubAdd
  <2> QED BY <2>1, <2>2
<1>4. ASSUME NEW s \in Subs, SubDestroy(s) \/ SubRemove(s) PROVE Collected' /\ Recovers'
  BY <1>4, SameRecovers DEF SubDestroy, SubRemove, topicVars, historyVars
<1> QED BY <1>1, <1>2, <1>3, <1>4, NextTopic

\* All fragments of a message handled one after the other, after the last one of
\* another, are put together (sbfTport_assemble), whatever came before.
THEOREM FragmentsRecover == Spec => []Recovers
<1>1. Init => Types /\ Collected /\ Recovers
  <2>1. ASSUME Init PROVE Collected /\ Recovers
    <3>1. mFragNum = 0 /\ mFragData = << >> /\ handled = << >>
      BY <2>1 DEF Init
    <3>2. Len(handled) = 0 /\ DOMAIN handled = {} /\ 0..0 = {0} /\ 0 - 0 = 0 /\ 1..0 = {}
      BY <3>1
    <3>3. [k \in 1..0 |-> Piece(handled[0 + k])] = << >>
      BY <3>2
    <3> QED BY <3>1, <3>2, <3>3 DEF Collected, Recovers
  <2> QED BY <2>1, InitTypes
<1>2. Types /\ Collected /\ Recovers /\ [Next]_vars => Types' /\ Collected' /\ Recovers'
  BY NextTypes, NextRecovers
<1> QED BY <1>1, <1>2, PTL DEF Spec

-----------------------------------------------------------------------------
(* The order of the headers of a stream. *)

Els(F) == {F[i] : i \in 1..Len(F)}

\* g may come before h: of a publisher's messages the earlier comes first, and
\* after the header that ends a message there is nothing more of it.
Prior(g, h) ==
  g.msg.pub = h.msg.pub
    => g.msg.num < h.msg.num \/ (g.msg.num = h.msg.num /\ g.fragNum # 0 /\ ~g.lastFragment)

Ordered(F) == \A i, j \in 1..Len(F) : i < j => Prior(F[i], F[j])
Before(A, B) == \A g \in A, h \in B : Prior(g, h)

\* No headers are in order.
LEMMA ElsEmpty == Els(<< >>) = {} /\ Ordered(<< >>)
<1>1. 1..Len(<< >>) = {}
  OBVIOUS
<1> QED BY <1>1 DEF Els, Ordered

\* One header is in order.
LEMMA ElsOne == ASSUME NEW c PROVE Els(<<c>>) = {c} /\ Ordered(<<c>>)
<1>1. 1..Len(<<c>>) = {1} /\ <<c>>[1] = c
  OBVIOUS
<1> QED BY <1>1 DEF Els, Ordered

\* A place in one sequence after another is in the one or the other.
LEMMA Places ==
  ASSUME NEW a \in Seq(CoreSet), NEW b \in Seq(CoreSet), NEW c, c = a \o b,
         NEW m \in Nat, m = Len(a), NEW n \in Nat, n = Len(b), NEW i \in 1..Len(c)
  PROVE  \/ i \in 1..m /\ c[i] = a[i]
         \/ \E k \in 1..n : i = m + k /\ c[i] = b[k]
<1>1. /\ c \in Seq(CoreSet) /\ Len(c) = m + n
      /\ (\A k \in 1..m : c[k] = a[k]) /\ \A k \in 1..n : c[m + k] = b[k]
  BY ConcatIs
<1>2. CASE i <= m
  BY <1>1, <1>2
<1>3. CASE i > m
  <2>1. i - m \in 1..n /\ i = m + (i - m)
    BY <1>1, <1>3
  <2>2. PICK k \in 1..n : i = m + k
    BY <2>1
  <2> QED BY <1>1, <2>2
<1> QED BY <1>2, <1>3

\* When headers after others are in order.
LEMMA ElsConcat ==
  ASSUME NEW a \in Seq(CoreSet), NEW b \in Seq(CoreSet)
  PROVE  /\ a \o b \in Seq(CoreSet)
         /\ Els(a \o b) = Els(a) \cup Els(b)
         /\ Ordered(a \o b) <=> Ordered(a) /\ Ordered(b) /\ Before(Els(a), Els(b))
<1>1. PICK c : c = a \o b
  OBVIOUS
<1>2. PICK m \in Nat : m = Len(a)
  OBVIOUS
<1>3. PICK n \in Nat : n = Len(b)
  OBVIOUS
<1>4. /\ c \in Seq(CoreSet) /\ Len(c) = m + n
      /\ (\A k \in 1..m : c[k] = a[k]) /\ \A k \in 1..n : c[m + k] = b[k]
  BY <1>1, <1>2, <1>3, ConcatIs
<1>5. ASSUME NEW i \in 1..(m + n)
      PROVE  \/ i \in 1..m /\ c[i] = a[i]
             \/ \E k \in 1..n : i = m + k /\ c[i] = b[k]
  <2>1. CASE i <= m
    BY <1>4, <2>1
  <2>2. CASE i > m
    <3>1. i - m \in 1..n /\ i = m + (i - m)
      BY <2>2
    <3>2. PICK k \in 1..n : i = m + k
      BY <3>1
    <3> QED BY <1>4, <3>2
  <2> QED BY <2>1, <2>2
<1>6. (\A k \in 1..m : k \in 1..(m + n)) /\ \A k \in 1..n : m + k \in 1..(m + n)
  OBVIOUS
<1>7. Els(c) = Els(a) \cup Els(b)
  <2>1. ASSUME NEW x \in Els(c) PROVE x \in Els(a) \cup Els(b)
    <3>1. PICK i \in 1..(m + n) : x = c[i]
      BY <1>4 DEF Els
    <3> QED BY <1>2, <1>3, <1>5, <3>1 DEF Els
  <2>2. ASSUME NEW x \in Els(a) PROVE x \in Els(c)
    <3>1. PICK i \in 1..m : x = a[i]
      BY <1>2 DEF Els
    <3> QED BY <1>4, <1>6, <3>1 DEF Els
  <2>3. ASSUME NEW x \in Els(b) PROVE x \in Els(c)
    <3>1. PICK i \in 1..n : x = b[i]
      BY <1>3 DEF Els
    <3> QED BY <1>4, <1>6, <3>1 DEF Els
  <2> QED BY <2>1, <2>2, <2>3
<1>8. ASSUME Ordered(c) PROVE Ordered(a) /\ Ordered(b) /\ Before(Els(a), Els(b))
  <2>1. \A i, j \in 1..(m + n) : i < j => Prior(c[i], c[j])
    BY <1>4, <1>8 DEF Ordered
  <2>2. Ordered(a)
    BY <1>2, <1>4, <1>6, <2>1 DEF Ordered
  <2>3. ASSUME NEW i \in 1..n, NEW j \in 1..n, i < j PROVE Prior(b[i], b[j])
    <3>1. m + i < m + j
      BY <2>3
    <3>2. Prior(c[m + i], c[m + j])
      BY <1>6, <2>1, <3>1
    <3> QED BY <1>4, <3>2
  <2>4. ASSUME NEW i \in 1..m, NEW j \in 1..n PROVE Prior(a[i], b[j])
    <3>1. i < m + j
      OBVIOUS
    <3>2. Prior(c[i], c[m + j])
      BY <1>6, <2>1, <3>1
    <3> QED BY <1>4, <3>2
  <2> QED BY <1>2, <1>3, <2>2, <2>3, <2>4 DEF Ordered, Before, Els
<1>9. ASSUME Ordered(a), Ordered(b), Before(Els(a), Els(b)) PROVE Ordered(c)
  <2>1. ASSUME NEW i \in 1..(m + n), NEW j \in 1..(m + n), i < j PROVE Prior(c[i], c[j])
    <3>1. CASE i \in 1..m /\ c[i] = a[i] /\ j \in 1..m /\ c[j] = a[j]
      BY <1>2, <1>9, <2>1, <3>1 DEF Ordered
    <3>2. CASE i \in 1..m /\ c[i] = a[i] /\ \E k \in 1..n : j = m + k /\ c[j] = b[k]
      BY <1>2, <1>3, <1>9, <3>2 DEF Before, Els
    <3>3. CASE /\ \E k \in 1..n : i = m + k /\ c[i] = b[k]
               /\ \E k \in 1..n : j = m + k /\ c[j] = b[k]
      <4>1. PICK k \in 1..n : i = m + k /\ c[i] = b[k]
        BY <3>3
      <4>2. PICK l \in 1..n : j = m + l /\ c[j] = b[l]
        BY <3>3
      <4>3. k < l
        BY <2>1, <4>1, <4>2
      <4> QED BY <1>3, <1>9, <4>1, <4>2, <4>3 DEF Ordered
    <3>4. CASE j \in 1..m /\ \E k \in 1..n : i = m + k /\ c[i] = b[k]
      BY <2>1, <3>4
    <3> QED BY <1>5, <3>1, <3>2, <3>3, <3>4
  <2> QED BY <1>4, <2>1 DEF Ordered
<1> QED BY <1>1, <1>4, <1>7, <1>8, <1>9

-----------------------------------------------------------------------------
(* The fragments of a stream, each after the one it follows. *)

\* h may be the fragment after a: a starts a message or goes on with that of a.
Allowed(a, h) ==
  \/ h.fragNum = 1
  \/ a.lastFragment
  \/ h.msg = a.msg /\ h.fragNum = a.fragNum + 1 /\ h.from = a.from + a.size

\* st[i] is the last fragment up to F[i].
LinkBy(F, st) ==
  \A i \in 1..Len(F) : IF F[i].fragNum = 0 THEN st[i] = st[i - 1]
                       ELSE Allowed(st[i - 1], F[i]) /\ st[i] = F[i]

\* From fragment a on through F; z is the last one then.
Link(F, a, z) == \E st : LinkBy(F, st) /\ st[0] = a /\ st[Len(F)] = z

\* No fragments: the last one stays the last.
LEMMA LinkEmpty ==
  ASSUME NEW a
  PROVE  Link(<< >>, a, a) /\ \A z : Link(<< >>, a, z) => z = a
<1>1. Len(<< >>) = 0 /\ 1..0 = {}
  OBVIOUS
<1>2. PICK st : st = [i \in {0} |-> a]
  OBVIOUS
<1>3. LinkBy(<< >>, st) /\ st[0] = a /\ st[Len(<< >>)] = a
  BY <1>1, <1>2 DEF LinkBy
<1>4. \A z : Link(<< >>, a, z) => z = a
  BY <1>1 DEF Link
<1> QED BY <1>3, <1>4 DEF Link

\* One header.
LEMMA LinkOne ==
  ASSUME NEW c, NEW a, NEW z
  PROVE  Link(<<c>>, a, z) <=> IF c.fragNum = 0 THEN z = a ELSE Allowed(a, c) /\ z = c
<1>1. PICK s : s = <<c>>
  OBVIOUS
<1>2. Len(s) = 1 /\ 1..1 = {1} /\ s[1] = c /\ 1 - 1 = 0
  BY <1>1
<1>3. ASSUME Link(s, a, z) PROVE IF c.fragNum = 0 THEN z = a ELSE Allowed(a, c) /\ z = c
  <2>1. PICK st : LinkBy(s, st) /\ st[0] = a /\ st[1] = z
    BY <1>2, <1>3 DEF Link
  <2>2. IF s[1].fragNum = 0 THEN st[1] = st[1 - 1] ELSE Allowed(st[1 - 1], s[1]) /\ st[1] = s[1]
    <3>1. 1 \in 1..Len(s)
      BY <1>2
    <3> QED BY <2>1, <3>1 DEF LinkBy
  <2> QED BY <1>2, <2>1, <2>2
<1>4. ASSUME IF c.fragNum = 0 THEN z = a ELSE Allowed(a, c) /\ z = c PROVE Link(s, a, z)
  <2>1. PICK st : st = [i \in 0..1 |-> IF i = 0 THEN a ELSE z]
    OBVIOUS
  <2>2. st[0] = a /\ st[1] = z
    BY <2>1
  <2>3. LinkBy(s, st)
    BY <1>2, <1>4, <2>2 DEF LinkBy
  <2> QED BY <1>2, <2>2, <2>3 DEF Link
<1> QED BY <1>1, <1>3, <1>4

\* Headers linked after others that are.
LEMMA LinkConcat ==
  ASSUME NEW a \in Seq(CoreSet), NEW b \in Seq(CoreSet), NEW x, NEW y, NEW z,
         Link(a, x, y), Link(b, y, z)
  PROVE  Link(a \o b, x, z)
<1>1. PICK c : c = a \o b
  OBVIOUS
<1>2. PICK m \in Nat : m = Len(a)
  OBVIOUS
<1>3. PICK n \in Nat : n = Len(b)
  OBVIOUS
<1>4. /\ c \in Seq(CoreSet) /\ Len(c) = m + n
      /\ (\A k \in 1..m : c[k] = a[k]) /\ \A k \in 1..n : c[m + k] = b[k]
  BY <1>1, <1>2, <1>3, ConcatIs
<1>5. PICK s : LinkBy(a, s) /\ s[0] = x /\ s[m] = y
  BY <1>2 DEF Link
<1>6. PICK t : LinkBy(b, t) /\ t[0] = y /\ t[n] = z
  BY <1>3 DEF Link
<1>7. PICK st : st = [i \in 0..(m + n) |-> IF i <= m THEN s[i] ELSE t[i - m]]
  OBVIOUS
<1>8. ASSUME NEW i \in 0..m PROVE st[i] = s[i]
  BY <1>7
<1>9. ASSUME NEW i \in 0..n PROVE st[m + i] = t[i]
  <2>1. CASE i = 0
    <3>1. m + i = m /\ m \in 0..m
      BY <2>1
    <3>2. st[m] = s[m]
      BY <1>8, <3>1
    <3> QED BY <1>5, <1>6, <2>1, <3>1, <3>2
  <2>2. CASE i # 0
    <3>1. m + i \in 0..(m + n) /\ ~(m + i <= m) /\ (m + i) - m = i
      BY <2>2
    <3> QED BY <1>7, <3>1
  <2> QED BY <2>1, <2>2
<1>10. ASSUME NEW i \in 1..Len(c)
       PROVE  IF c[i].fragNum = 0 THEN st[i] = st[i - 1]
              ELSE Allowed(st[i - 1], c[i]) /\ st[i] = c[i]
  <2>1. CASE i \in 1..m /\ c[i] = a[i]
    <3>1. i \in 0..m /\ i - 1 \in 0..m
      BY <2>1
    <3>2. st[i] = s[i] /\ st[i - 1] = s[i - 1]
      BY <1>8, <3>1
    <3> QED BY <1>2, <1>5, <2>1, <3>2 DEF LinkBy
  <2>2. ASSUME NEW k \in 1..n, i = m + k, c[i] = b[k]
        PROVE  IF c[i].fragNum = 0 THEN st[i] = st[i - 1]
               ELSE Allowed(st[i - 1], c[i]) /\ st[i] = c[i]
    <3>1. k \in 0..n /\ k - 1 \in 0..n /\ i - 1 = m + (k - 1)
      BY <2>2
    <3>2. st[i] = t[k] /\ st[i - 1] = t[k - 1]
      BY <1>9, <2>2, <3>1
    <3> QED BY <1>3, <1>6, <2>2, <3>2 DEF LinkBy
  <2> QED BY <1>1, <1>2, <1>3, <2>1, <2>2, Places
<1>11. st[0] = x /\ st[m + n] = z
  <2>1. 0 \in 0..m /\ n \in 0..n
    OBVIOUS
  <2> QED BY <1>5, <1>6, <1>8, <1>9, <2>1
<1> QED BY <1>1, <1>4, <1>10, <1>11 DEF Link, LinkBy

\* Headers that are linked are so in two parts.
LEMMA LinkSplit ==
  ASSUME NEW a \in Seq(CoreSet), NEW b \in Seq(CoreSet), NEW x, NEW z, Link(a \o b, x, z)
  PROVE  \E y : Link(a, x, y) /\ Link(b, y, z)
<1>1. PICK c : c = a \o b
  OBVIOUS
<1>2. PICK m \in Nat : m = Len(a)
  OBVIOUS
<1>3. PICK n \in Nat : n = Len(b)
  OBVIOUS
<1>4. /\ c \in Seq(CoreSet) /\ Len(c) = m + n
      /\ (\A k \in 1..m : c[k] = a[k]) /\ \A k \in 1..n : c[m + k] = b[k]
  BY <1>1, <1>2, <1>3, ConcatIs
<1>5. PICK st : LinkBy(c, st) /\ st[0] = x /\ st[m + n] = z
  BY <1>1, <1>4 DEF Link
<1>6. \A i \in 1..(m + n) : IF c[i].fragNum = 0 THEN st[i] = st[i - 1]
                            ELSE Allowed(st[i - 1], c[i]) /\ st[i] = c[i]
  BY <1>4, <1>5 DEF LinkBy
<1>7. LinkBy(a, st)
  <2>1. \A i \in 1..m : i \in 1..(m + n)
    OBVIOUS
  <2> QED BY <1>2, <1>4, <1>6, <2>1 DEF LinkBy
<1>8. PICK t : t = [i \in 0..n |-> st[m + i]]
  OBVIOUS
<1>9. LinkBy(b, t)
  <2>1. ASSUME NEW i \in 1..n
        PROVE  IF b[i].fragNum = 0 THEN t[i] = t[i - 1] ELSE Allowed(t[i - 1], b[i]) /\ t[i] = b[i]
    <3>1. m + i \in 1..(m + n) /\ i \in 0..n /\ i - 1 \in 0..n /\ (m + i) - 1 = m + (i - 1)
      OBVIOUS
    <3>2. t[i] = st[m + i] /\ t[i - 1] = st[(m + i) - 1] /\ b[i] = c[m + i]
      BY <1>4, <1>8, <3>1
    <3> QED BY <1>6, <3>1, <3>2
  <2> QED BY <1>3, <2>1 DEF LinkBy
<1>10. t[0] = st[m] /\ t[n] = z
  <2>1. 0 \in 0..n /\ n \in 0..n /\ m + 0 = m
    OBVIOUS
  <2> QED BY <1>5, <1>8, <2>1
<1>11. Link(a, x, st[m])
  BY <1>2, <1>5, <1>7 DEF Link
<1>12. Link(b, st[m], z)
  BY <1>3, <1>9, <1>10 DEF Link
<1> QED BY <1>11, <1>12

\* After the last fragment of a message anything may come.
LEMMA LinkFree ==
  ASSUME NEW F \in Seq(CoreSet), NEW a, NEW z, Link(F, a, z), NEW f, f.lastFragment
  PROVE  Link(F, f, z) \/ Link(F, f, f)
<1>1. PICK n \in Nat : n = Len(F)
  OBVIOUS
<1>2. PICK st : LinkBy(F, st) /\ st[0] = a /\ st[n] = z
  BY <1>1 DEF Link
<1>3. PICK s : s = [i \in 0..n |-> IF \E k \in 1..i : F[k].fragNum # 0 THEN st[i] ELSE f]
  OBVIOUS
<1>4. \A i \in 0..n : s[i] = st[i] \/ s[i] = f
  BY <1>3
<1>5. ASSUME NEW i \in 1..n
      PROVE  IF F[i].fragNum = 0 THEN s[i] = s[i - 1] ELSE Allowed(s[i - 1], F[i]) /\ s[i] = F[i]
  <2>1. i \in 0..n /\ i - 1 \in 0..n
    OBVIOUS
  <2>2. IF F[i].fragNum = 0 THEN st[i] = st[i - 1] ELSE Allowed(st[i - 1], F[i]) /\ st[i] = F[i]
    BY <1>1, <1>2 DEF LinkBy
  <2>3. CASE F[i].fragNum = 0
    <3>1. (\E k \in 1..i : F[k].fragNum # 0) <=> (\E k \in 1..(i - 1) : F[k].fragNum # 0)
      <4>1. \A k \in 1..i : k = i \/ k \in 1..(i - 1)
        OBVIOUS
      <4>2. \A k \in 1..(i - 1) : k \in 1..i
        OBVIOUS
      <4> QED BY <2>3, <4>1, <4>2
    <3> QED BY <1>3, <2>1, <2>2, <2>3, <3>1
  <2>4. CASE F[i].fragNum # 0
    <3>1. i \in 1..i
      OBVIOUS
    <3>2. s[i] = F[i]
      BY <1>3, <2>1, <2>2, <2>4, <3>1
    <3>3. Allowed(s[i - 1], F[i])
      BY <1>4, <2>1, <2>2, <2>4 DEF Allowed
    <3> QED BY <2>4, <3>2, <3>3
  <2> QED BY <2>3, <2>4
<1>6. s[0] = f /\ (s[n] = z \/ s[n] = f)
  <2>1. 0 \in 0..n /\ n \in 0..n /\ 1..0 = {}
    OBVIOUS
  <2> QED BY <1>2, <1>3, <2>1
<1> QED BY <1>1, <1>5, <1>6 DEF Link, LinkBy

-----------------------------------------------------------------------------
(* What a sender adds to the stream. *)

\* The first piece starts at 0 and the last ends with the message.
EndsOK(h) ==
  /\ h.fragNum = 0 \/ h.fragNum = 1 => h.from = 0
  /\ h.fragNum = 0 \/ h.lastFragment => h.from + h.size = h.msg.size

\* C is message m: a fragment that came before does not matter to it, and it is
\* all there, or it is not in fragments.
BlockOK(C, m) ==
  /\ C \in Seq(CoreSet) /\ Ordered(C)
  /\ \A h \in Els(C) : h.msg = m /\ EndsOK(h)
  /\ \/ \A a : Link(C, a, a)
     \/ \E f : f.lastFragment /\ \A a : Link(C, a, f)

\* A message that is not in fragments.
LEMMA OneBlock ==
  ASSUME NEW m \in Messages, NEW last \in BOOLEAN
  PROVE  BlockOK(<<Core(Unfragmented(m, last))>>, m)
<1>1. PICK h \in Headers : h = Unfragmented(m, last)
  BY UnfragmentedIs
<1>2. PICK c : c = Core(h)
  OBVIOUS
<1>3. c \in CoreSet /\ c.msg = m /\ c.from = 0 /\ c.size = m.size /\ c.fragNum = 0 /\ ~c.lastFragment
  BY <1>1, <1>2, CoreType, UnfragmentedIs
<1>4. <<c>> \in Seq(CoreSet) /\ Ordered(<<c>>) /\ Els(<<c>>) = {c}
  BY <1>3, ElsOne
<1>5. \A a : Link(<<c>>, a, a)
  BY <1>3, LinkOne
<1>6. EndsOK(c)
  <2>1. m.size \in Nat
    BY SizesOK
  <2> QED BY <1>3, <2>1 DEF EndsOK
<1> QED BY <1>1, <1>2, <1>3, <1>4, <1>5, <1>6 DEF BlockOK

\* The fragments of a message.
LEMMA FragmentsBlock ==
  ASSUME NEW m \in Messages, NEW last \in BOOLEAN, NEW hs, InFragments(hs, m, last)
  PROVE  BlockOK(Cores(hs), m)
<1>1. PICK n \in Nat : n = Len(hs) /\ n > 0
  BY DEF InFragments
<1>2. /\ hs \in Seq(Headers)
      /\ \A k \in 1..n : hs[k].msg = m /\ hs[k].fragNum = k /\ (hs[k].lastFragment <=> k = n)
      /\ hs[1].from = 0
      /\ \A k \in 1..n - 1 : hs[k + 1].from = hs[k].from + hs[k].size
      /\ hs[n].from + hs[n].size = m.size
  BY <1>1 DEF InFragments
<1>3. PICK C : C = Cores(hs)
  OBVIOUS
<1>4. C \in Seq(CoreSet) /\ Len(C) = n /\ \A k \in 1..n : C[k] = Core(hs[k])
  BY <1>1, <1>2, <1>3, CoresType
<1>5. ASSUME NEW k \in 1..n
      PROVE  /\ C[k].msg = m /\ C[k].fragNum = k /\ (C[k].lastFragment <=> k = n)
             /\ C[k].from = hs[k].from /\ C[k].size = hs[k].size
  <2>1. hs[k] \in Headers
    BY <1>1, <1>2
  <2>2. C[k] = Core(hs[k])
    BY <1>4
  <2>3. /\ C[k].msg = hs[k].msg /\ C[k].from = hs[k].from /\ C[k].size = hs[k].size
        /\ C[k].fragNum = hs[k].fragNum /\ C[k].lastFragment = hs[k].lastFragment
    BY <2>1, <2>2, CoreType
  <2> QED BY <1>2, <2>3
<1>6. Ordered(C)
  <2>1. ASSUME NEW i \in 1..n, NEW j \in 1..n, i < j PROVE Prior(C[i], C[j])
    <3>1. i # n /\ i # 0
      BY <2>1
    <3>2. ~C[i].lastFragment /\ C[i].fragNum # 0 /\ C[i].msg.num = C[j].msg.num
      BY <1>5, <3>1
    <3> QED BY <3>2 DEF Prior
  <2> QED BY <1>4, <2>1 DEF Ordered
<1>7. ASSUME NEW h \in Els(C) PROVE h.msg = m /\ EndsOK(h)
  <2>1. PICK k \in 1..n : h = C[k]
    BY <1>4 DEF Els
  <2>2. h.fragNum = k /\ h.fragNum # 0 /\ h.msg = m
    BY <1>5, <2>1
  <2>3. ASSUME k = 1 PROVE h.from = 0
    BY <1>2, <1>5, <2>1, <2>3
  <2>4. ASSUME k = n PROVE h.from + h.size = m.size
    BY <1>2, <1>5, <2>1, <2>4
  <2> QED BY <1>5, <2>1, <2>2, <2>3, <2>4 DEF EndsOK
<1>8. ASSUME NEW a PROVE Link(C, a, C[n])
  <2>1. PICK st : st = [i \in 0..n |-> IF i = 0 THEN a ELSE C[i]]
    OBVIOUS
  <2>2. ASSUME NEW i \in 1..n
        PROVE  IF C[i].fragNum = 0 THEN st[i] = st[i - 1] ELSE Allowed(st[i - 1], C[i]) /\ st[i] = C[i]
    <3>1. i \in 0..n /\ i - 1 \in 0..n /\ i # 0
      OBVIOUS
    <3>2. st[i] = C[i] /\ C[i].fragNum # 0
      BY <1>5, <2>1, <3>1
    <3>3. Allowed(st[i - 1], C[i])
      <4>1. CASE i = 1
        BY <1>5, <4>1 DEF Allowed
      <4>2. CASE i # 1
        <5>1. PICK j \in 1..n - 1 : j = i - 1 /\ j + 1 = i /\ j \in 1..n /\ j # 0
          <6>1. i - 1 \in 1..n - 1 /\ (i - 1) + 1 = i /\ i - 1 \in 1..n /\ i - 1 # 0
            BY <4>2
          <6> QED BY <6>1
        <5>2. st[i - 1] = C[j]
          BY <2>1, <3>1, <5>1
        <5>3. hs[j + 1].from = hs[j].from + hs[j].size
          BY <1>2
        <5>4. C[i].from = C[j].from + C[j].size
          BY <1>5, <5>1, <5>3
        <5>5. C[i].msg = C[j].msg /\ C[i].fragNum = C[j].fragNum + 1
          BY <1>5, <5>1
        <5> QED BY <5>2, <5>4, <5>5 DEF Allowed
      <4> QED BY <4>1, <4>2
    <3> QED BY <3>2, <3>3
  <2>3. st[0] = a /\ st[n] = C[n]
    BY <1>1, <2>1
  <2> QED BY <1>4, <2>2, <2>3 DEF Link, LinkBy
<1>9. C[n].lastFragment
  <2>1. n \in 1..n
    BY <1>1
  <2> QED BY <1>5, <2>1
<1> QED BY <1>3, <1>4, <1>6, <1>7, <1>8, <1>9 DEF BlockOK
-----------------------------------------------------------------------------
(* What is on its way: S from the senders to the event thread, and U of each *)
(* sender what it has still to send.                                         *)

Joined(S, U, W, B, in, jb) ==
  /\ S = Cores(in) \o W /\ U \in [Senders -> Seq(CoreSet)]
  /\ (\A p \in Pubs : U[p] = Cores(jb[p])) /\ \A b \in Batches : U[b] = B[b]

Stream(S, U) == \E W, B : StreamOf(W, B, wire, mBuffers) /\ Joined(S, U, W, B, input, job)

\* The lock is with the publisher that has fragments to send.
Locked(U) == \A p \in Pubs : mSendLock = p <=> U[p] # << >>

\* Sender x has been given one more message.
Begins(beg, big, x) ==
  /\ big \in [Senders -> Nat] /\ big[x] = beg[x] + 1
  /\ \A y \in Senders : y # x => big[y] = beg[y]

\* Sender x writes message m, C, next to what it has to send.
Writes(U, V, x, C, m) ==
  /\ m \in Messages /\ m.pub = x /\ m.num = begun[x] + 1 /\ BlockOK(C, m)
  /\ V = [U EXCEPT ![x] = @ \o C] /\ Begins(begun, begun', x)

\* Sender x sends G of what it has to send.
Sends(S, U, T, V, x, G) ==
  \E H \in Seq(CoreSet) : U[x] = G \o H /\ T = S \o G /\ V = [U EXCEPT ![x] = H]

\* What a step may do to the stream: S and U before it, T and V after it.
PubAdds(S, U, T, V) ==
  \E x \in Pubs, C \in Seq(CoreSet), m \in Messages, M \in [Senders -> Seq(CoreSet)] :
    /\ U[x] = << >> /\ mSendLock = NULL /\ mSendLock' = NULL
    /\ Writes(U, M, x, C, m) /\ Sends(S, M, T, V, x, C) /\ V = U /\ T = S \o C
JobAdds(S, U, T, V) ==
  \E x \in Pubs, C \in Seq(CoreSet), m \in Messages :
    /\ U[x] = << >> /\ mSendLock = NULL /\ mSendLock' = x
    /\ Writes(U, V, x, C, m) /\ V[x] = C /\ T = S
BatchAdds(S, U, T, V) ==
  \E x \in Batches, C \in Seq(CoreSet), m \in Messages :
    mSendLock' = mSendLock /\ Writes(U, V, x, C, m) /\ T = S
PubMoves(S, U, T, V) ==
  \E x \in Pubs, G \in Seq(CoreSet) :
    /\ mSendLock = x /\ begun' = begun /\ Sends(S, U, T, V, x, G)
    /\ mSendLock' = IF V[x] = << >> THEN NULL ELSE x
BatchMoves(S, U, T, V) ==
  \E x \in Batches, G \in Seq(CoreSet) :
    mSendLock = NULL /\ mSendLock' = NULL /\ begun' = begun /\ Sends(S, U, T, V, x, G)
BatchDrops(S, U, T, V) ==
  \E x \in Batches : /\ mSendLock' = mSendLock /\ begun' = begun
                     /\ T = S /\ V = [U EXCEPT ![x] = << >>]
Loses(S, U, T, V) ==
  \E G, D, H \in Seq(CoreSet) : /\ lost' # 0 /\ mSendLock' = mSendLock /\ begun' = begun
                                /\ S = G \o (D \o H) /\ T = G \o H /\ V = U
Handles(S, U, T, V) ==
  /\ HandleMessage /\ mSendLock' = mSendLock /\ begun' = begun /\ T \in Seq(CoreSet)
  /\ S = <<Core(Head(input))>> \o T /\ V = U
Stays(S, U, T, V) == mSendLock' = mSendLock /\ begun' = begun /\ T = S /\ V = U

Steps(S, U, T, V) ==
  \/ PubAdds(S, U, T, V) \/ JobAdds(S, U, T, V) \/ BatchAdds(S, U, T, V)
  \/ PubMoves(S, U, T, V) \/ BatchMoves(S, U, T, V) \/ BatchDrops(S, U, T, V)
  \/ Loses(S, U, T, V) \/ Handles(S, U, T, V) \/ Stays(S, U, T, V)

\* The headers on their way, and who has some to send.
LEMMA StreamTypes ==
  ASSUME NEW S, NEW U, Types, Stream(S, U)
  PROVE  S \in Seq(CoreSet) /\ U \in [Senders -> Seq(CoreSet)] /\ Locked(U)
<1>1. PICK W, B : StreamOf(W, B, wire, mBuffers) /\ Joined(S, U, W, B, input, job)
  BY DEF Stream
<1>2. W \in Seq(CoreSet) /\ Cores(input) \in Seq(CoreSet)
  BY <1>1, CoresType DEF StreamOf, IsFlat, Types, WireOK
<1>3. S \in Seq(CoreSet)
  BY <1>1, <1>2 DEF Joined
<1>4. ASSUME NEW p \in Pubs PROVE U[p] # << >> <=> job[p] # << >>
  <2>1. job[p] \in Seq(Headers) /\ U[p] = Cores(job[p])
    BY <1>1 DEF Joined, Types, SendOK
  <2>2. Len(U[p]) = Len(job[p]) /\ U[p] \in Seq(CoreSet)
    BY <2>1, CoresType
  <2> QED BY <2>1, <2>2
<1> QED BY <1>1, <1>3, <1>4 DEF Joined, Locked, Types, SendOK

\* PubSend adds to what is on its way.
LEMMA PubSendStream ==
  ASSUME Types, NEW S, NEW U, Stream(S, U), NEW p \in Pubs, NEW size \in Sizes, PubSend(p, size)
  PROVE  \E T, V : Stream(T, V)' /\ PubAdds(S, U, T, V)
<1>1. PICK W, B : StreamOf(W, B, wire, mBuffers) /\ Joined(S, U, W, B, input, job)
  BY DEF Stream
<1>2. SendOK /\ p \in Senders
  BY DEF Types, Senders
<1>3. PICK m \in Messages : m = Message(p, size) /\ m.pub = p /\ m.num = begun[p] + 1
  BY <1>2, MessageIs
<1>4. PICK C : C = <<Core(Unfragmented(m, TRUE))>> /\ BlockOK(C, m)
  BY OneBlock
<1>5. C \in Seq(CoreSet)
  BY <1>4 DEF BlockOK
<1>6. StreamOf(W \o C, B, wire', mBuffers')
  BY <1>1, <1>3, <1>4, PubSendTypes
<1>7. Begins(begun, begun', p)
  BY <1>2, BeginIs DEF Begins, PubSend
<1>8. input' = input /\ job' = job /\ job[p] = << >> /\ mSendLock = NULL /\ mSendLock' = mSendLock
  BY DEF PubSend, readVars
<1>9. S \in Seq(CoreSet) /\ U \in [Senders -> Seq(CoreSet)] /\ W \in Seq(CoreSet)
      /\ Cores(input) \in Seq(CoreSet) /\ U[p] = << >>
  BY <1>1, <1>2, <1>8, StreamTypes, CoresEmpty, CoresType DEF StreamOf, IsFlat, Joined, Types, WireOK
<1>10. Cores(input) \o (W \o C) = S \o C
  BY <1>1, <1>5, <1>9, CoreAssoc DEF Joined
<1>11. Stream(S \o C, U)'
  <2>1. Joined(S \o C, U, W \o C, B, input', job')
    BY <1>1, <1>8, <1>10 DEF Joined
  <2> QED BY <1>6, <2>1 DEF Stream
<1>12. PICK M : M = [U EXCEPT ![p] = @ \o C]
  OBVIOUS
<1>13. M \in [Senders -> Seq(CoreSet)] /\ M[p] = C \o << >>
  BY <1>2, <1>5, <1>9, <1>12
<1>14. Writes(U, M, p, C, m)
  BY <1>3, <1>4, <1>7, <1>12 DEF Writes
<1>15. U = [M EXCEPT ![p] = << >>]
  BY <1>2, <1>9, <1>12
<1>16. Sends(S, M, S \o C, U, p, C)
  <2>1. << >> \in Seq(CoreSet)
    OBVIOUS
  <2> QED BY <1>13, <1>15, <2>1 DEF Sends
<1>17. PubAdds(S, U, S \o C, U)
  BY <1>5, <1>8, <1>9, <1>13, <1>14, <1>16 DEF PubAdds
<1> QED BY <1>11, <1>17

\* FragmentLock gives the publisher a message to send.
LEMMA FragmentLockStream ==
  ASSUME Types, NEW S, NEW U, Stream(S, U), NEW p \in Pubs, NEW size \in Sizes,
         FragmentLock(p, size)
  PROVE  \E T, V : Stream(T, V)' /\ JobAdds(S, U, T, V)
<1>1. PICK W, B : StreamOf(W, B, wire, mBuffers) /\ Joined(S, U, W, B, input, job)
  BY DEF Stream
<1>2. SendOK /\ p \in Senders
  BY DEF Types, Senders
<1>3. PICK hs : hs = job'[p]
  OBVIOUS
<1>4. PICK m \in Messages : m.pub = p /\ m.num = begun[p] + 1 /\ InFragments(hs, m, TRUE)
  BY <1>3, FragmentLockTypes
<1>5. PICK C : C = Cores(hs) /\ BlockOK(C, m)
  BY <1>4, FragmentsBlock
<1>6. C \in Seq(CoreSet)
  BY <1>5 DEF BlockOK
<1>7. Begins(begun, begun', p)
  BY <1>2, BeginIs DEF Begins, FragmentLock
<1>8. /\ input' = input /\ wire' = wire /\ mBuffers' = mBuffers
      /\ job[p] = << >> /\ mSendLock = NULL /\ mSendLock' = p
      /\ \A q \in Pubs : q # p => job'[q] = job[q]
  BY <1>2 DEF FragmentLock, readVars, SendOK
<1>9. U \in [Senders -> Seq(CoreSet)] /\ U[p] = << >>
  BY <1>1, <1>2, <1>8, StreamTypes, CoresEmpty DEF Joined
<1>10. PICK V : V = [U EXCEPT ![p] = @ \o C]
  OBVIOUS
<1>11. V \in [Senders -> Seq(CoreSet)] /\ V[p] = C /\ \A y \in Senders : y # p => V[y] = U[y]
  BY <1>2, <1>6, <1>9, <1>10
<1>12. Stream(S, V)'
  <2>1. \A q \in Pubs : V[q] = Cores(job'[q])
    BY <1>1, <1>3, <1>5, <1>8, <1>11 DEF Joined, Senders
  <2>2. \A b \in Batches : V[b] = B[b]
    BY <1>1, <1>11, MessagesAssumption DEF Joined, Senders
  <2>3. Joined(S, V, W, B, input', job')
    BY <1>1, <1>8, <1>11, <2>1, <2>2 DEF Joined
  <2> QED BY <1>1, <1>8, <2>3 DEF Stream
<1>13. Writes(U, V, p, C, m)
  BY <1>4, <1>5, <1>7, <1>10 DEF Writes
<1> QED BY <1>6, <1>8, <1>9, <1>11, <1>12, <1>13 DEF JobAdds

\* FragmentSend moves one fragment on.
LEMMA FragmentSendStream ==
  ASSUME Types, NEW S, NEW U, Stream(S, U), NEW p \in Pubs, FragmentSend(p)
  PROVE  \E T, V : Stream(T, V)' /\ PubMoves(S, U, T, V)
<1>1. PICK W, B : StreamOf(W, B, wire, mBuffers) /\ Joined(S, U, W, B, input, job)
  BY DEF Stream
<1>2. SendOK /\ p \in Senders
  BY DEF Types, Senders
<1>3. PICK hs \in Seq(Headers) : hs = job[p] /\ hs # << >>
  BY FragmentSendTypes
<1>4. PICK h \in Headers : h = Head(hs)
  BY <1>3, FragmentSendTypes
<1>5. PICK t \in Seq(Headers) : t = Tail(hs) /\ hs = <<h>> \o t /\ Len(hs) = 1 + Len(t)
  <2>1. PICK n \in Nat : n + 1 = Len(hs)
    <3>1. Len(hs) - 1 \in Nat /\ (Len(hs) - 1) + 1 = Len(hs)
      BY <1>3
    <3> QED BY <3>1
  <2>2. PICK t : t = Tail(hs)
    OBVIOUS
  <2>3. t \in Seq(Headers) /\ Len(t) = n /\ hs = <<h>> \o t
    BY <1>3, <1>4, <2>1, <2>2
  <2>4. Len(hs) = 1 + Len(t)
    BY <2>1, <2>3
  <2> QED BY <2>2, <2>3, <2>4
<1>6. PICK G : G = <<Core(h)>>
  OBVIOUS
<1>7. PICK H : H = Cores(t)
  OBVIOUS
<1>8. G \in Seq(CoreSet) /\ H \in Seq(CoreSet) /\ U[p] = G \o H
  <2>1. U[p] = Cores(hs) /\ <<h>> \in Seq(Headers)
    BY <1>1, <1>3, <1>4 DEF Joined
  <2>2. Cores(hs) = Cores(<<h>>) \o Cores(t)
    BY <1>5, <2>1, CoresConcat
  <2>3. Cores(<<h>>) = G /\ Core(h) \in CoreSet
    BY <1>4, <1>6, CoresOne, CoreType
  <2> QED BY <1>5, <1>6, <1>7, <2>1, <2>2, <2>3, CoresType
<1>9. StreamOf(W \o G, B, wire', mBuffers') /\ mSendLock = p
      /\ job' = [job EXCEPT ![p] = t]
  BY <1>1, <1>3, <1>4, <1>5, <1>6, FragmentSendTypes
<1>10. input' = input /\ begun' = begun
       /\ mSendLock' = IF Len(hs) = 1 THEN NULL ELSE mSendLock
  BY <1>3 DEF FragmentSend, readVars
<1>11. S \in Seq(CoreSet) /\ U \in [Senders -> Seq(CoreSet)] /\ W \in Seq(CoreSet)
       /\ Cores(input) \in Seq(CoreSet)
  BY <1>1, StreamTypes, CoresType DEF StreamOf, IsFlat, Types, WireOK
<1>12. Cores(input) \o (W \o G) = S \o G
  BY <1>1, <1>8, <1>11, CoreAssoc DEF Joined
<1>13. PICK V : V = [U EXCEPT ![p] = H]
  OBVIOUS
<1>14. V \in [Senders -> Seq(CoreSet)] /\ V[p] = H /\ \A y \in Senders : y # p => V[y] = U[y]
  BY <1>2, <1>8, <1>11, <1>13
<1>15. Stream(S \o G, V)'
  <2>1. \A q \in Pubs : V[q] = Cores(job'[q])
    BY <1>1, <1>2, <1>7, <1>9, <1>14 DEF Joined, Senders, SendOK
  <2>2. \A b \in Batches : V[b] = B[b]
    BY <1>1, <1>14, MessagesAssumption DEF Joined, Senders
  <2>3. Joined(S \o G, V, W \o G, B, input', job')
    BY <1>10, <1>12, <1>14, <2>1, <2>2 DEF Joined
  <2> QED BY <1>9, <2>3 DEF Stream
<1>16. Sends(S, U, S \o G, V, p, G)
  BY <1>8, <1>13 DEF Sends
<1>17. mSendLock' = IF V[p] = << >> THEN NULL ELSE p
  <2>1. Len(hs) = 1 <=> t = << >>
    <3>1. Len(t) = 0 <=> t = << >>
      BY <1>5
    <3> QED BY <1>5, <3>1
  <2>2. Len(H) = Len(t)
    BY <1>7, CoresType
  <2>3. t = << >> <=> H = << >>
    BY <1>8, <2>2
  <2> QED BY <1>9, <1>10, <1>14, <2>1, <2>3
<1> QED BY <1>8, <1>9, <1>10, <1>15, <1>16, <1>17 DEF PubMoves

\* BatchAdd gives the batch a message to send.
LEMMA BatchAddStream ==
  ASSUME Types, NEW S, NEW U, Stream(S, U), NEW b \in Batches, NEW size \in Sizes,
         BatchAdd(b, size)
  PROVE  \E T, V : Stream(T, V)' /\ BatchAdds(S, U, T, V)
<1>1. PICK W, B : StreamOf(W, B, wire, mBuffers) /\ Joined(S, U, W, B, input, job)
  BY DEF Stream
<1>2. SendOK /\ b \in Senders
  BY DEF Types, Senders
<1>3. PICK m \in Messages, hs \in Seq(Headers) :
        /\ m.pub = b /\ m.num = begun[b] + 1 /\ IsMessage(hs, m)
        /\ \A X, Y : StreamOf(X, Y, wire, mBuffers)
             => StreamOf(X, [Y EXCEPT ![b] = @ \o Cores(hs)], wire', mBuffers')
  BY BatchAddTypes
<1>4. PICK C : C = Cores(hs)
  OBVIOUS
<1>5. BlockOK(C, m)
  <2>1. CASE hs = <<Unfragmented(m, FALSE)>>
    <3>1. Unfragmented(m, FALSE) \in Headers
      BY UnfragmentedIs
    <3>2. C = <<Core(Unfragmented(m, FALSE))>>
      BY <1>4, <2>1, <3>1, CoresOne
    <3> QED BY <3>2, OneBlock
  <2>2. CASE InFragments(hs, m, FALSE)
    BY <1>4, <2>2, FragmentsBlock
  <2> QED BY <1>3, <2>1, <2>2 DEF IsMessage
<1>6. C \in Seq(CoreSet)
  BY <1>5 DEF BlockOK
<1>7. Begins(begun, begun', b)
  BY <1>2, BeginIs DEF Begins, BatchAdd
<1>8. input' = input /\ job' = job /\ mSendLock' = mSendLock
  BY DEF BatchAdd, readVars
<1>9. PICK D : D = [B EXCEPT ![b] = @ \o C]
  OBVIOUS
<1>10. StreamOf(W, D, wire', mBuffers')
  BY <1>1, <1>3, <1>4, <1>9
<1>11. U \in [Senders -> Seq(CoreSet)] /\ B \in [Batches -> Seq(CoreSet)] /\ U[b] = B[b]
  BY <1>1, StreamTypes DEF StreamOf, Joined
<1>12. PICK V : V = [U EXCEPT ![b] = @ \o C]
  OBVIOUS
<1>13. V \in [Senders -> Seq(CoreSet)] /\ V[b] = U[b] \o C /\ \A y \in Senders : y # b => V[y] = U[y]
  BY <1>2, <1>6, <1>11, <1>12
<1>14. D[b] = B[b] \o C /\ \A y \in Batches : y # b => D[y] = B[y]
  BY <1>9, <1>11
<1>15. Stream(S, V)'
  <2>1. \A q \in Pubs : V[q] = Cores(job'[q])
    BY <1>1, <1>8, <1>13, MessagesAssumption DEF Joined, Senders
  <2>2. \A y \in Batches : V[y] = D[y]
    BY <1>1, <1>11, <1>13, <1>14 DEF Joined, Senders
  <2>3. Joined(S, V, W, D, input', job')
    BY <1>1, <1>8, <1>13, <2>1, <2>2 DEF Joined
  <2> QED BY <1>10, <2>3 DEF Stream
<1>16. Writes(U, V, b, C, m)
  BY <1>3, <1>5, <1>7, <1>12 DEF Writes
<1> QED BY <1>6, <1>8, <1>15, <1>16 DEF BatchAdds

\* BatchSendPacket moves the headers of a packet on.
LEMMA BatchSendPacketStream ==
  ASSUME Types, NEW S, NEW U, Stream(S, U), NEW b \in Batches, BatchSendPacket(b)
  PROVE  \E T, V : Stream(T, V)' /\ BatchMoves(S, U, T, V)
<1>1. PICK W, B : StreamOf(W, B, wire, mBuffers) /\ Joined(S, U, W, B, input, job)
  BY DEF Stream
<1>2. b \in Senders
  BY DEF Senders
<1>3. PICK G, H \in Seq(CoreSet) :
        B[b] = G \o H /\ StreamOf(W \o G, [B EXCEPT ![b] = H], wire', mBuffers')
  BY <1>1, BatchSendPacketTypes
<1>4. input' = input /\ job' = job /\ mSendLock' = mSendLock /\ mSendLock = NULL /\ begun' = begun
  BY DEF BatchSendPacket, readVars
<1>5. PICK D : D = [B EXCEPT ![b] = H]
  OBVIOUS
<1>6. S \in Seq(CoreSet) /\ U \in [Senders -> Seq(CoreSet)] /\ B \in [Batches -> Seq(CoreSet)]
      /\ U[b] = B[b] /\ W \in Seq(CoreSet) /\ Cores(input) \in Seq(CoreSet)
  BY <1>1, StreamTypes, CoresType DEF StreamOf, IsFlat, Joined, Types, WireOK
<1>7. Cores(input) \o (W \o G) = S \o G
  BY <1>1, <1>3, <1>6, CoreAssoc DEF Joined
<1>8. PICK V : V = [U EXCEPT ![b] = H]
  OBVIOUS
<1>9. V \in [Senders -> Seq(CoreSet)] /\ V[b] = H /\ \A y \in Senders : y # b => V[y] = U[y]
  BY <1>2, <1>3, <1>6, <1>8
<1>10. D[b] = H /\ \A y \in Batches : y # b => D[y] = B[y]
  BY <1>5, <1>6
<1>11. Stream(S \o G, V)'
  <2>1. \A q \in Pubs : V[q] = Cores(job'[q])
    BY <1>1, <1>4, <1>9, MessagesAssumption DEF Joined, Senders
  <2>2. \A y \in Batches : V[y] = D[y]
    BY <1>1, <1>9, <1>10 DEF Joined, Senders
  <2>3. Joined(S \o G, V, W \o G, D, input', job')
    BY <1>4, <1>7, <1>9, <2>1, <2>2 DEF Joined
  <2> QED BY <1>3, <1>5, <2>3 DEF Stream
<1>12. Sends(S, U, S \o G, V, b, G)
  BY <1>3, <1>6, <1>8 DEF Sends
<1> QED BY <1>3, <1>4, <1>11, <1>12 DEF BatchMoves

\* BatchDestroy drops what the batch had.
LEMMA BatchDestroyStream ==
  ASSUME Types, NEW S, NEW U, Stream(S, U), NEW b \in Batches, BatchDestroy(b)
  PROVE  \E T, V : Stream(T, V)' /\ BatchDrops(S, U, T, V)
<1>1. PICK W, B : StreamOf(W, B, wire, mBuffers) /\ Joined(S, U, W, B, input, job)
  BY DEF Stream
<1>2. b \in Senders
  BY DEF Senders
<1>3. PICK D : D = [B EXCEPT ![b] = << >>]
  OBVIOUS
<1>4. StreamOf(W, D, wire', mBuffers')
  BY <1>1, <1>3, BatchDestroyTypes
<1>5. input' = input /\ job' = job /\ mSendLock' = mSendLock /\ begun' = begun
  BY DEF BatchDestroy, readVars
<1>6. U \in [Senders -> Seq(CoreSet)] /\ B \in [Batches -> Seq(CoreSet)]
  BY <1>1 DEF StreamOf, Joined
<1>7. PICK V : V = [U EXCEPT ![b] = << >>]
  OBVIOUS
<1>8. V \in [Senders -> Seq(CoreSet)] /\ V[b] = << >> /\ \A y \in Senders : y # b => V[y] = U[y]
  <2>1. << >> \in Seq(CoreSet)
    OBVIOUS
  <2> QED BY <1>2, <1>6, <1>7, <2>1
<1>9. D[b] = << >> /\ \A y \in Batches : y # b => D[y] = B[y]
  BY <1>3, <1>6
<1>10. Stream(S, V)'
  <2>1. \A q \in Pubs : V[q] = Cores(job'[q])
    BY <1>1, <1>5, <1>8, MessagesAssumption DEF Joined, Senders
  <2>2. \A y \in Batches : V[y] = D[y]
    BY <1>1, <1>8, <1>9 DEF Joined, Senders
  <2>3. Joined(S, V, W, D, input', job')
    BY <1>1, <1>5, <1>8, <2>1, <2>2 DEF Joined
  <2> QED BY <1>4, <2>3 DEF Stream
<1> QED BY <1>5, <1>7, <1>10 DEF BatchDrops

\* Lose takes out a part.
LEMMA LoseStream ==
  ASSUME Types, NEW S, NEW U, Stream(S, U), Lose
  PROVE  \E T, V : Stream(T, V)' /\ Loses(S, U, T, V)
<1>1. PICK W, B : StreamOf(W, B, wire, mBuffers) /\ Joined(S, U, W, B, input, job)
  BY DEF Stream
<1>2. lost' # 0
  BY LoseTypes
<1>3. PICK G, D, H \in Seq(CoreSet) :
        W = G \o (D \o H) /\ StreamOf(G \o H, B, wire', mBuffers')
  BY <1>1, LoseTypes
<1>4. input' = input /\ job' = job /\ mSendLock' = mSendLock /\ begun' = begun
  BY DEF Lose, readVars, sendVars
<1>5. PICK A \in Seq(CoreSet) : A = Cores(input)
  BY CoresType DEF Types, WireOK
<1>6. S = (A \o G) \o (D \o H) /\ A \o (G \o H) = (A \o G) \o H
  <2>1. D \o H \in Seq(CoreSet)
    BY <1>3
  <2>2. (A \o G) \o (D \o H) = A \o (G \o (D \o H))
    BY <1>5, <2>1, CoreAssoc
  <2>3. (A \o G) \o H = A \o (G \o H)
    BY <1>5, CoreAssoc
  <2>4. S = A \o W
    BY <1>1, <1>5 DEF Joined
  <2> QED BY <1>3, <2>2, <2>3, <2>4
<1>7. Stream((A \o G) \o H, U)'
  <2>1. Joined((A \o G) \o H, U, G \o H, B, input', job')
    BY <1>1, <1>4, <1>5, <1>6 DEF Joined
  <2> QED BY <1>3, <2>1 DEF Stream
<1>8. A \o G \in Seq(CoreSet)
  BY <1>3, <1>5
<1>9. Loses(S, U, (A \o G) \o H, U)
  BY <1>2, <1>3, <1>4, <1>6, <1>8 DEF Loses
<1> QED BY <1>7, <1>9

\* ReadPacket changes nothing of what is on its way.
LEMMA ReadPacketStream ==
  ASSUME Types, NEW S, NEW U, Stream(S, U), ReadPacket
  PROVE  \E T, V : Stream(T, V)' /\ Stays(S, U, T, V)
<1>1. PICK W, B : StreamOf(W, B, wire, mBuffers) /\ Joined(S, U, W, B, input, job)
  BY DEF Stream
<1>2. input = << >>
  BY ReadPacketTypes
<1>3. PICK H : W = Cores(input') \o H /\ StreamOf(H, B, wire', mBuffers')
  BY <1>1, ReadPacketTypes
<1>4. job' = job /\ mSendLock' = mSendLock /\ begun' = begun
  BY DEF ReadPacket, sendVars
<1>5. S = W
  <2>1. W \in Seq(CoreSet)
    BY <1>1 DEF StreamOf, IsFlat
  <2> QED BY <1>1, <1>2, <2>1, CoresEmpty DEF Joined
<1>6. Stream(S, U)'
  <2>1. Joined(S, U, H, B, input', job')
    BY <1>1, <1>3, <1>4, <1>5 DEF Joined
  <2> QED BY <1>3, <2>1 DEF Stream
<1> QED BY <1>4, <1>6 DEF Stays

\* ReadStream changes nothing of what is on its way.
LEMMA ReadStreamStream ==
  ASSUME Types, NEW S, NEW U, Stream(S, U), ReadStream
  PROVE  \E T, V : Stream(T, V)' /\ Stays(S, U, T, V)
<1>1. PICK W, B : StreamOf(W, B, wire, mBuffers) /\ Joined(S, U, W, B, input, job)
  BY DEF Stream
<1>2. PICK G, H \in Seq(CoreSet) :
        /\ W = G \o H /\ Cores(input') = Cores(input) \o G
        /\ StreamOf(H, B, wire', mBuffers')
  BY <1>1, ReadStreamTypes
<1>3. job' = job /\ mSendLock' = mSendLock /\ begun' = begun
  BY DEF ReadStream, sendVars
<1>4. PICK A \in Seq(CoreSet) : A = Cores(input)
  BY CoresType DEF Types, WireOK
<1>5. S = Cores(input') \o H
  BY <1>1, <1>2, <1>4, CoreAssoc DEF Joined
<1>6. Stream(S, U)'
  <2>1. Joined(S, U, H, B, input', job')
    BY <1>1, <1>3, <1>5 DEF Joined
  <2> QED BY <1>2, <2>1 DEF Stream
<1> QED BY <1>3, <1>6 DEF Stays

\* HandleMessage takes the first.
LEMMA HandleStream ==
  ASSUME Types, NEW S, NEW U, Stream(S, U), HandleMessage
  PROVE  \E T, V : Stream(T, V)' /\ Handles(S, U, T, V)
<1>1. PICK W, B : StreamOf(W, B, wire, mBuffers) /\ Joined(S, U, W, B, input, job)
  BY DEF Stream
<1>2. PICK c \in CoreSet : c = Core(Head(input))
  BY HandleMessageTypes, CoreType
<1>3. /\ Types' /\ Cores(input) = <<c>> \o Cores(input')
      /\ wire' = wire /\ mBuffers' = mBuffers /\ begun' = begun /\ job' = job
  BY <1>2, HandleMessageTypes
<1>4. PICK A \in Seq(CoreSet) : A = Cores(input')
  <2>1. PICK i : i = input'
    OBVIOUS
  <2>2. i \in Seq(Headers)
    BY <1>3, <2>1 DEF Types, WireOK
  <2> QED BY <2>1, <2>2, CoresType
<1>5. W \in Seq(CoreSet) /\ <<c>> \in Seq(CoreSet)
  BY <1>1 DEF StreamOf, IsFlat
<1>6. S = <<c>> \o (A \o W)
  BY <1>1, <1>3, <1>4, <1>5, CoreAssoc DEF Joined
<1>9. A \o W \in Seq(CoreSet)
  BY <1>4, <1>5
<1>7. Stream(A \o W, U)'
  <2>1. Joined(A \o W, U, W, B, input', job')
    BY <1>1, <1>3, <1>4 DEF Joined
  <2> QED BY <1>1, <1>3, <2>1 DEF Stream
<1>8. mSendLock' = mSendLock
  BY DEF HandleMessage, sendVars, topicVars, historyVars
<1> QED BY <1>2, <1>3, <1>6, <1>7, <1>8, <1>9 DEF Handles

\* The other steps change nothing of what is on its way.
LEMMA OtherStream ==
  ASSUME Types, NEW S, NEW U, Stream(S, U),
         \/ \E b \in Batches : BatchSend(b)
         \/ \E s \in Subs : SubAdd(s) \/ SubDestroy(s) \/ SubRemove(s)
         \/ UNCHANGED vars
  PROVE  \E T, V : Stream(T, V)' /\ Stays(S, U, T, V)
<1>1. PICK W, B : StreamOf(W, B, wire, mBuffers) /\ Joined(S, U, W, B, input, job)
  BY DEF Stream
<1>2. StreamOf(W, B, wire', mBuffers')
  <2>1. CASE \E b \in Batches : BatchSend(b)
    BY <1>1, <2>1, BatchSendTypes
  <2>2. CASE \E s \in Subs : SubAdd(s) \/ SubDestroy(s) \/ SubRemove(s)
    BY <1>1, <2>2 DEF SubAdd, SubDestroy, SubRemove, sendVars
  <2>3. CASE UNCHANGED vars
    BY <1>1, <2>3 DEF vars, sendVars
  <2> QED BY <2>1, <2>2, <2>3
<1>3. input' = input /\ job' = job /\ mSendLock' = mSendLock /\ begun' = begun
  BY DEF BatchSend, SubAdd, SubDestroy, SubRemove, vars, sendVars, readVars
<1>4. Stream(S, U)'
  BY <1>1, <1>2, <1>3 DEF Stream
<1> QED BY <1>3, <1>4 DEF Stays

\* What any step does to what is on its way.
LEMMA NextStream ==
  ASSUME Types, NEW S, NEW U, Stream(S, U), [Next]_vars
  PROVE  \E T, V : Stream(T, V)' /\ Steps(S, U, T, V)
<1>1. ASSUME NEW p \in Pubs, NEW size \in Sizes, PubSend(p, size) \/ FragmentLock(p, size)
      PROVE  \E T, V : Stream(T, V)' /\ (PubAdds(S, U, T, V) \/ JobAdds(S, U, T, V))
  BY <1>1, PubSendStream, FragmentLockStream
<1>2. ASSUME NEW p \in Pubs, FragmentSend(p)
      PROVE  \E T, V : Stream(T, V)' /\ PubMoves(S, U, T, V)
  BY <1>2, FragmentSendStream
<1>3. ASSUME NEW b \in Batches, NEW size \in Sizes, BatchAdd(b, size)
      PROVE  \E T, V : Stream(T, V)' /\ BatchAdds(S, U, T, V)
  BY <1>3, BatchAddStream
<1>4. ASSUME NEW b \in Batches, BatchSendPacket(b) \/ BatchDestroy(b)
      PROVE  \E T, V : Stream(T, V)' /\ (BatchMoves(S, U, T, V) \/ BatchDrops(S, U, T, V))
  BY <1>4, BatchSendPacketStream, BatchDestroyStream
<1>5. ASSUME Lose PROVE \E T, V : Stream(T, V)' /\ Loses(S, U, T, V)
  BY <1>5, LoseStream
<1>6. ASSUME ReadPacket \/ ReadStream PROVE \E T, V : Stream(T, V)' /\ Stays(S, U, T, V)
  BY <1>6, ReadPacketStream, ReadStreamStream
<1>7. ASSUME HandleMessage PROVE \E T, V : Stream(T, V)' /\ Handles(S, U, T, V)
  BY <1>7, HandleStream
<1>8. ASSUME \/ \E b \in Batches : BatchSend(b)
             \/ \E s \in Subs : SubAdd(s) \/ SubDestroy(s) \/ SubRemove(s)
             \/ UNCHANGED vars
      PROVE  \E T, V : Stream(T, V)' /\ Stays(S, U, T, V)
  BY <1>8, OtherStream
<1> QED BY <1>1, <1>2, <1>3, <1>4, <1>5, <1>6, <1>7, <1>8 DEF Next, Steps
-----------------------------------------------------------------------------
(* The order of messages. *)

\* A message that follows those of D, of those its publisher was given.
Recent(m, beg, D) == m.num <= beg[m.pub] /\ \A n \in D : n.pub = m.pub => n.num < m.num

\* What is on its way is in order; D are the messages that have arrived.
OrderOf(S, U, beg, D) ==
  /\ Ordered(S)
  /\ \A x \in Senders : /\ Ordered(U[x]) /\ Before(Els(S), Els(U[x]))
                        /\ \A h \in Els(U[x]) : h.msg.pub = x /\ Recent(h.msg, beg, D)
  /\ \A h \in Els(S) : Recent(h.msg, beg, D)
  /\ \A n \in D : n.num <= beg[n.pub]

\* The headers of a stream are headers of messages.
LEMMA ElsType ==
  ASSUME NEW F \in Seq(CoreSet)
  PROVE  /\ Els(F) \subseteq CoreSet
         /\ \A h \in Els(F) : /\ h.msg \in Messages /\ h.msg.pub \in Senders
                              /\ h.msg.num \in Nat
<1>1. \A i \in 1..Len(F) : F[i] \in CoreSet
  OBVIOUS
<1>2. Els(F) \subseteq CoreSet
  BY <1>1 DEF Els
<1>3. ASSUME NEW h \in CoreSet PROVE h.msg \in Messages /\ h.msg.pub \in Senders /\ h.msg.num \in Nat
  BY DEF CoreSet, Messages
<1> QED BY <1>2, <1>3

\* A new message comes after all others of its sender.
LEMMA WriteOrder ==
  ASSUME NEW S \in Seq(CoreSet), NEW U \in [Senders -> Seq(CoreSet)], NEW D \in SUBSET Messages,
         NEW beg \in [Senders -> Nat], OrderOf(S, U, beg, D),
         NEW x \in Senders, NEW m \in Messages, m.pub = x, m.num = beg[x] + 1,
         NEW C \in Seq(CoreSet), BlockOK(C, m), NEW V, V = [U EXCEPT ![x] = @ \o C],
         NEW big, Begins(beg, big, x)
  PROVE  OrderOf(S, V, big, D)
<1>0. big \in [Senders -> Nat] /\ big[x] = beg[x] + 1 /\ \A y \in Senders : y # x => big[y] = beg[y]
  BY DEF Begins
<1>1. V[x] = U[x] \o C /\ \A y \in Senders : y # x => V[y] = U[y]
  OBVIOUS
<1>2. PICK A \in Seq(CoreSet) : A = U[x]
  OBVIOUS
<1>3. \A n \in Messages : n.num \in Nat /\ n.pub \in Senders
  BY DEF Messages
<1>4. ASSUME NEW n \in Messages, n.num <= beg[n.pub] PROVE n.num <= big[n.pub]
  <2>1. PICK y \in Senders : y = n.pub
    BY <1>3
  <2>2. beg[y] \in Nat /\ big[y] \in Nat /\ n.num \in Nat /\ n.num <= beg[y]
    BY <1>0, <1>3, <1>4, <2>1
  <2>3. big[y] = beg[y] \/ big[y] = beg[y] + 1
    BY <1>0, <2>1
  <2>4. n.num <= big[y]
    BY <2>2, <2>3
  <2> QED BY <2>1, <2>4
<1>5. ASSUME NEW n \in Messages, Recent(n, beg, D) PROVE Recent(n, big, D)
  BY <1>4, <1>5 DEF Recent
<1>6. Recent(m, big, D)
  <2>1. m.num <= big[m.pub]
    BY <1>0, <1>3
  <2>2. ASSUME NEW n \in D, n.pub = m.pub PROVE n.num < m.num
    <3>1. n \in Messages /\ n.num <= beg[x]
      BY <2>2 DEF OrderOf
    <3> QED BY <1>3, <3>1
  <2> QED BY <2>1, <2>2 DEF Recent
<1>7. ASSUME NEW g \in CoreSet, Recent(g.msg, beg, D), NEW h \in Els(C) PROVE Prior(g, h)
  <2>1. h.msg = m /\ g.msg \in Messages
    BY DEF BlockOK, CoreSet
  <2>2. ASSUME g.msg.pub = x PROVE g.msg.num < m.num
    <3>1. g.msg.num <= beg[x]
      BY <1>7, <2>2 DEF Recent
    <3> QED BY <1>3, <2>1, <3>1
  <2> QED BY <2>1, <2>2 DEF Prior
<1>8. Els(S) \subseteq CoreSet /\ Els(A) \subseteq CoreSet
  BY ElsType
<1>9. Ordered(A) /\ Before(Els(S), Els(A)) /\ \A h \in Els(A) : h.msg.pub = x /\ Recent(h.msg, beg, D)
  BY <1>2 DEF OrderOf
<1>10. \A h \in Els(S) : Recent(h.msg, beg, D)
  BY DEF OrderOf
<1>11. Ordered(C) /\ \A h \in Els(C) : h.msg = m
  BY DEF BlockOK
<1>12. Before(Els(A), Els(C)) /\ Before(Els(S), Els(C))
  BY <1>7, <1>8, <1>9, <1>10 DEF Before
<1>13. Ordered(A \o C) /\ Els(A \o C) = Els(A) \cup Els(C)
  BY <1>9, <1>11, <1>12, ElsConcat
<1>14. /\ Ordered(V[x]) /\ Before(Els(S), Els(V[x]))
       /\ \A h \in Els(V[x]) : h.msg.pub = x /\ Recent(h.msg, big, D)
  <2>1. V[x] = A \o C
    BY <1>1, <1>2
  <2>2. Before(Els(S), Els(A \o C))
    BY <1>9, <1>12, <1>13 DEF Before
  <2>3. ASSUME NEW h \in Els(A \o C) PROVE h.msg.pub = x /\ Recent(h.msg, big, D)
    <3>1. CASE h \in Els(A)
      BY <1>5, <1>8, <1>9, <3>1, ElsType
    <3>2. CASE h \in Els(C)
      BY <1>6, <1>11, <3>2
    <3> QED BY <1>13, <3>1, <3>2
  <2> QED BY <1>13, <2>1, <2>2, <2>3
<1>15. ASSUME NEW y \in Senders, y # x
       PROVE  /\ Ordered(V[y]) /\ Before(Els(S), Els(V[y]))
              /\ \A h \in Els(V[y]) : h.msg.pub = y /\ Recent(h.msg, big, D)
  <2>1. PICK E \in Seq(CoreSet) : E = U[y] /\ V[y] = E
    BY <1>1, <1>15
  <2>2. Ordered(E) /\ Before(Els(S), Els(E)) /\ \A h \in Els(E) : h.msg.pub = y /\ Recent(h.msg, beg, D)
    BY <2>1 DEF OrderOf
  <2>3. \A h \in Els(E) : h.msg \in Messages
    BY ElsType
  <2> QED BY <1>5, <2>1, <2>2, <2>3
<1>16. \A h \in Els(S) : Recent(h.msg, big, D)
  <2>1. \A h \in Els(S) : h.msg \in Messages
    BY ElsType
  <2> QED BY <1>5, <1>10, <2>1
<1>17. \A n \in D : n.num <= big[n.pub]
  BY <1>4 DEF OrderOf
<1> QED BY <1>14, <1>15, <1>16, <1>17 DEF OrderOf

\* What is sent comes after what was sent before.
LEMMA SendOrder ==
  ASSUME NEW S \in Seq(CoreSet), NEW U \in [Senders -> Seq(CoreSet)], NEW D, NEW beg,
         OrderOf(S, U, beg, D), NEW x \in Senders, NEW G \in Seq(CoreSet), NEW H \in Seq(CoreSet),
         U[x] = G \o H, NEW V, V = [U EXCEPT ![x] = H]
  PROVE  OrderOf(S \o G, V, beg, D)
<1>1. V[x] = H /\ \A y \in Senders : y # x => V[y] = U[y]
  OBVIOUS
<1>2. /\ Ordered(G \o H) /\ Before(Els(S), Els(G \o H))
      /\ \A h \in Els(G \o H) : h.msg.pub = x /\ Recent(h.msg, beg, D)
  BY DEF OrderOf
<1>3. /\ Ordered(G) /\ Ordered(H) /\ Before(Els(G), Els(H)) /\ Els(G \o H) = Els(G) \cup Els(H)
  BY <1>2, ElsConcat
<1>4. Before(Els(S), Els(G)) /\ Before(Els(S), Els(H))
  BY <1>2, <1>3 DEF Before
<1>5. Ordered(S) /\ \A h \in Els(S) : Recent(h.msg, beg, D)
  BY DEF OrderOf
<1>6. Ordered(S \o G) /\ Els(S \o G) = Els(S) \cup Els(G)
  BY <1>3, <1>4, <1>5, ElsConcat
<1>7. /\ Ordered(V[x]) /\ Before(Els(S \o G), Els(V[x]))
      /\ \A h \in Els(V[x]) : h.msg.pub = x /\ Recent(h.msg, beg, D)
  <2>1. Before(Els(S \o G), Els(H))
    BY <1>3, <1>4, <1>6 DEF Before
  <2> QED BY <1>1, <1>2, <1>3, <2>1
<1>8. ASSUME NEW y \in Senders, y # x
      PROVE  /\ Ordered(V[y]) /\ Before(Els(S \o G), Els(V[y]))
             /\ \A h \in Els(V[y]) : h.msg.pub = y /\ Recent(h.msg, beg, D)
  <2>1. V[y] = U[y]
    BY <1>1, <1>8
  <2>2. Ordered(U[y]) /\ Before(Els(S), Els(U[y])) /\ \A h \in Els(U[y]) : h.msg.pub = y /\ Recent(h.msg, beg, D)
    BY DEF OrderOf
  <2>3. Before(Els(G), Els(U[y]))
    BY <1>2, <1>3, <1>8, <2>2 DEF Before, Prior
  <2>4. Before(Els(S \o G), Els(U[y]))
    BY <1>6, <2>2, <2>3 DEF Before
  <2> QED BY <2>1, <2>2, <2>4
<1>9. \A h \in Els(S \o G) : Recent(h.msg, beg, D)
  BY <1>2, <1>3, <1>5, <1>6
<1> QED BY <1>6, <1>7, <1>8, <1>9 DEF OrderOf

\* What is dropped leaves the others in order.
LEMMA DropOrder ==
  ASSUME NEW S \in Seq(CoreSet), NEW U \in [Senders -> Seq(CoreSet)], NEW D, NEW beg,
         OrderOf(S, U, beg, D), NEW x \in Senders, NEW V, V = [U EXCEPT ![x] = << >>]
  PROVE  OrderOf(S, V, beg, D)
<1>1. V[x] = << >> /\ \A y \in Senders : y # x => V[y] = U[y]
  OBVIOUS
<1>2. Ordered(V[x]) /\ Els(V[x]) = {}
  BY <1>1, ElsEmpty
<1> QED BY <1>1, <1>2 DEF OrderOf, Before

\* What is lost leaves the others in order.
LEMMA LoseOrder ==
  ASSUME NEW U \in [Senders -> Seq(CoreSet)], NEW D, NEW beg, NEW G \in Seq(CoreSet),
         NEW L \in Seq(CoreSet), NEW H \in Seq(CoreSet), OrderOf(G \o (L \o H), U, beg, D)
  PROVE  OrderOf(G \o H, U, beg, D)
<1>1. L \o H \in Seq(CoreSet)
  OBVIOUS
<1>2. Ordered(G \o (L \o H))
  BY DEF OrderOf
<1>3. /\ Ordered(G) /\ Ordered(L \o H) /\ Before(Els(G), Els(L \o H))
      /\ Els(G \o (L \o H)) = Els(G) \cup Els(L \o H)
  BY <1>1, <1>2, ElsConcat
<1>4. Ordered(H) /\ Els(L \o H) = Els(L) \cup Els(H)
  BY <1>3, ElsConcat
<1>5. Before(Els(G), Els(H))
  BY <1>3, <1>4 DEF Before
<1>6. Ordered(G \o H) /\ Els(G \o H) = Els(G) \cup Els(H)
  BY <1>3, <1>4, <1>5, ElsConcat
<1>7. Els(G \o H) \subseteq Els(G \o (L \o H))
  BY <1>3, <1>4, <1>6
<1> QED BY <1>6, <1>7 DEF OrderOf, Before

\* What is handled arrives, or it is not the end of its message.
LEMMA HandleOrder ==
  ASSUME NEW U \in [Senders -> Seq(CoreSet)], NEW D, NEW beg, NEW c \in CoreSet,
         NEW T \in Seq(CoreSet), OrderOf(<<c>> \o T, U, beg, D), NEW E,
         E = D \/ (E = D \cup {c.msg} /\ (c.fragNum = 0 \/ c.lastFragment))
  PROVE  OrderOf(T, U, beg, E) /\ Recent(c.msg, beg, D)
<1>1. <<c>> \in Seq(CoreSet) /\ Els(<<c>>) = {c}
  BY ElsOne
<1>2. Ordered(<<c>> \o T)
  BY DEF OrderOf
<1>3. Ordered(T) /\ Before({c}, Els(T)) /\ Els(<<c>> \o T) = {c} \cup Els(T)
  BY <1>1, <1>2, ElsConcat
<1>4. Recent(c.msg, beg, D) /\ \A h \in Els(T) : Recent(h.msg, beg, D)
  BY <1>3 DEF OrderOf
<1>5. ASSUME NEW h, Prior(c, h), Recent(h.msg, beg, D) PROVE Recent(h.msg, beg, E)
  BY <1>5 DEF Prior, Recent
<1>6. \A h \in Els(T) : Recent(h.msg, beg, E)
  BY <1>3, <1>4, <1>5 DEF Before
<1>7. ASSUME NEW x \in Senders
      PROVE  /\ Ordered(U[x]) /\ Before(Els(T), Els(U[x]))
             /\ \A h \in Els(U[x]) : h.msg.pub = x /\ Recent(h.msg, beg, E)
  <2>1. Ordered(U[x]) /\ Before({c} \cup Els(T), Els(U[x])) /\ \A h \in Els(U[x]) : h.msg.pub = x /\ Recent(h.msg, beg, D)
    BY <1>3 DEF OrderOf
  <2> QED BY <1>5, <2>1 DEF Before
<1>8. \A n \in E : n.num <= beg[n.pub]
  BY <1>4 DEF OrderOf, Recent
<1> QED BY <1>3, <1>4, <1>6, <1>7, <1>8 DEF OrderOf

\* The messages that were dispatched.
Done == {Last(dispatched[d]).msg : d \in DOMAIN dispatched}

OrderInv ==
  /\ \A d \in DOMAIN dispatched : dispatched[d] # << >>
  /\ InOrder
  /\ \E S, U : Stream(S, U) /\ OrderOf(S, U, begun, Done)

\* The last piece of a message.
LEMMA LastIs ==
  ASSUME NEW s \in Seq(Pieces), s # << >>
  PROVE  Last(s) \in Pieces /\ Last(s).msg \in Messages
<1>1. Len(s) \in 1..Len(s)
  BY EmptySeq
<1>2. Last(s) \in Pieces
  BY <1>1 DEF Last
<1> QED BY <1>2 DEF Pieces

\* What handling a header dispatches ends with it.
LEMMA HandleDispatches ==
  ASSUME Types, HandleMessage, NEW h \in Headers, h = Head(input)
  PROVE  \/ dispatched' = dispatched
         \/ \E message \in Seq(Pieces) :
              /\ dispatched' = Append(dispatched, message)
              /\ message # << >> /\ Last(message) = Piece(h)
              /\ h.fragNum = 0 \/ h.lastFragment
<1>1. CASE mSubs = << >>
  BY <1>1 DEF HandleMessage, historyVars
<1>2. CASE mSubs # << >> /\ h.fragNum = 0
  <2>1. Dispatch(<<Piece(h)>>)
    BY <1>2 DEF HandleMessage
  <2>2. <<Piece(h)>> \in Seq(Pieces) /\ <<Piece(h)>> # << >> /\ Last(<<Piece(h)>>) = Piece(h)
    BY PieceIs DEF Last
  <2> QED BY <1>2, <2>1, <2>2 DEF Dispatch
<1>3. CASE mSubs # << >> /\ h.fragNum # 0
  <2>1. Assemble(h)
    BY <1>3 DEF HandleMessage
  <2>2. CASE Expected(h) /\ h.lastFragment
    <3>1. PICK message : message = Append(mFragData, Piece(h))
      OBVIOUS
    <3>2. Piece(h) \in Pieces /\ mFragData \in Seq(Pieces)
      BY PieceIs DEF Types, TopicOK
    <3>3. message \in Seq(Pieces) /\ Len(message) = Len(mFragData) + 1 /\ message[Len(message)] = Piece(h)
      BY <3>1, <3>2
    <3>4. message # << >> /\ Last(message) = Piece(h)
      BY <3>2, <3>3 DEF Last
    <3>5. dispatched' = Append(dispatched, message)
      BY <2>1, <2>2, <3>1 DEF Assemble, Dispatch
    <3> QED BY <2>2, <3>3, <3>4, <3>5
  <2>3. CASE ~(Expected(h) /\ h.lastFragment)
    BY <2>1, <2>3 DEF Assemble
  <2> QED BY <2>2, <2>3
<1> QED BY <1>1, <1>2, <1>3

\* Only HandleMessage dispatches.
LEMMA OthersDispatch ==
  ASSUME [Next]_vars, ~HandleMessage
  PROVE  dispatched' = dispatched
BY NextTopic DEF historyVars, SubAdd, SubDestroy, SubRemove

\* Every step keeps OrderInv.
LEMMA NextOrder ==
  ASSUME Types, OrderInv, [Next]_vars
  PROVE  OrderInv'
<1>1. PICK S, U : Stream(S, U) /\ OrderOf(S, U, begun, Done)
  BY DEF OrderInv
<1>2. S \in Seq(CoreSet) /\ U \in [Senders -> Seq(CoreSet)]
  BY <1>1, StreamTypes
<1>3. Types' /\ begun \in [Senders -> Nat] /\ dispatched \in Seq(Seq(Pieces))
  BY NextTypes DEF Types, SendOK, TopicOK
<1>4. PICK D \in SUBSET Messages : D = Done
  <2>1. ASSUME NEW d \in DOMAIN dispatched PROVE Last(dispatched[d]).msg \in Messages
    <3>1. dispatched[d] \in Seq(Pieces) /\ dispatched[d] # << >>
      BY <1>3 DEF OrderInv
    <3> QED BY <3>1, LastIs
  <2> QED BY <2>1 DEF Done
<1>5. CASE HandleMessage
  <2>1. PICK T, V : Stream(T, V)' /\ Handles(S, U, T, V)
    BY <1>1, <1>5, HandleStream
  <2>2. PICK h \in Headers : h = Head(input)
    BY <1>5, HandleMessageTypes
  <2>3. PICK c \in CoreSet : c = Core(h)
    BY <2>2, CoreType
  <2>4. c.msg = h.msg /\ c.fragNum = h.fragNum /\ c.lastFragment = h.lastFragment
    BY <2>2, <2>3, CoreType
  <2>5. S = <<c>> \o T /\ V = U /\ T \in Seq(CoreSet) /\ begun' = begun
    BY <2>1, <2>2, <2>3 DEF Handles
  <2>6. CASE dispatched' = dispatched
    <3>1. OrderOf(T, U, begun, D)
      BY <1>1, <1>2, <1>4, <2>5, HandleOrder
    <3>2. Done' = D
      BY <1>4, <2>6 DEF Done
    <3> QED BY <2>1, <2>5, <2>6, <3>1, <3>2 DEF OrderInv, InOrder
  <2>7. CASE \E message \in Seq(Pieces) :
               /\ dispatched' = Append(dispatched, message)
               /\ message # << >> /\ Last(message) = Piece(h)
               /\ h.fragNum = 0 \/ h.lastFragment
    <3>1. PICK message \in Seq(Pieces) :
               /\ dispatched' = Append(dispatched, message)
               /\ message # << >> /\ Last(message) = Piece(h)
               /\ h.fragNum = 0 \/ h.lastFragment
      BY <2>7
    <3>2. Last(message).msg = c.msg
      BY <2>2, <2>4, <3>1, PieceIs
    <3>3. PICK E : E = D \cup {c.msg}
      OBVIOUS
    <3>4. c.fragNum = 0 \/ c.lastFragment
      BY <2>4, <3>1
    <3>5. OrderOf(T, U, begun, E) /\ Recent(c.msg, begun, D)
      BY <1>1, <1>2, <1>4, <2>5, <3>3, <3>4, HandleOrder
    <3>6. PICK N \in Nat : N = Len(dispatched)
      BY <1>3
    <3>7. PICK e : e = dispatched'
      OBVIOUS
    <3>8. e \in Seq(Seq(Pieces)) /\ DOMAIN e = 1..(N + 1) /\ DOMAIN dispatched = 1..N
          /\ e[N + 1] = message /\ \A d \in 1..N : e[d] = dispatched[d]
      BY <1>3, <3>1, <3>6, <3>7
    <3>9. \A d \in 1..(N + 1) : d = N + 1 \/ d \in 1..N
      OBVIOUS
    <3>10. Done' = E
      <4>1. Done' = {Last(e[d]).msg : d \in 1..(N + 1)}
        BY <3>7, <3>8 DEF Done
      <4>2. D = {Last(e[d]).msg : d \in 1..N}
        BY <1>4, <3>8 DEF Done
      <4>3. ASSUME NEW d \in 1..(N + 1) PROVE Last(e[d]).msg \in E
        BY <3>2, <3>3, <3>8, <3>9, <4>2
      <4>4. c.msg \in Done'
        BY <3>2, <3>8, <4>1
      <4>5. \A d \in 1..N : d \in 1..(N + 1)
        OBVIOUS
      <4>6. D \subseteq Done'
        BY <4>1, <4>2, <4>5
      <4> QED BY <3>3, <4>1, <4>3, <4>4, <4>6
    <3>11. \A d \in DOMAIN e : e[d] # << >>
      BY <3>1, <3>8, <3>9 DEF OrderInv
    <3>12. InOrder'
      <4>1. ASSUME NEW d \in 1..(N + 1), NEW k \in 1..(N + 1), d < k,
                   Last(e[d]).msg.pub = Last(e[k]).msg.pub
            PROVE  Last(e[d]).msg.num < Last(e[k]).msg.num
        <5>1. d \in 1..N
          BY <4>1
        <5>2. CASE k \in 1..N
          BY <3>8, <4>1, <5>1, <5>2 DEF OrderInv, InOrder
        <5>3. CASE k = N + 1
          <6>1. Last(e[d]).msg \in D
            BY <1>4, <3>8, <5>1 DEF Done
          <6>2. Last(e[k]).msg = c.msg
            BY <3>2, <3>8, <5>3
          <6> QED BY <3>5, <4>1, <6>1, <6>2 DEF Recent
        <5> QED BY <3>9, <5>2, <5>3
      <4> QED BY <3>7, <3>8, <4>1 DEF InOrder
    <3> QED BY <2>1, <2>5, <3>5, <3>7, <3>10, <3>11, <3>12 DEF OrderInv
  <2> QED BY <1>5, <2>2, <2>6, <2>7, HandleDispatches
<1>6. CASE ~HandleMessage
  <2>1. PICK T, V : Stream(T, V)' /\ Steps(S, U, T, V)
    BY <1>1, NextStream
  <2>2. dispatched' = dispatched
    BY <1>6, OthersDispatch
  <2>3. PICK big : big = begun'
    OBVIOUS
  <2>4. ASSUME NEW P \in [Senders -> Seq(CoreSet)], NEW Q, NEW x \in Senders,
               NEW C \in Seq(CoreSet), NEW m \in Messages, Writes(P, Q, x, C, m),
               NEW A \in Seq(CoreSet), OrderOf(A, P, begun, D)
        PROVE  OrderOf(A, Q, big, D)
    <3>1. /\ m.pub = x /\ m.num = begun[x] + 1 /\ BlockOK(C, m) /\ Q = [P EXCEPT ![x] = @ \o C]
          /\ Begins(begun, big, x)
      BY <2>3, <2>4 DEF Writes
    <3> QED BY <1>3, <1>4, <2>4, <3>1, WriteOrder
  <2>5. ASSUME NEW P \in [Senders -> Seq(CoreSet)], NEW Q, NEW x \in Senders, NEW beg,
               NEW G \in Seq(CoreSet), NEW A \in Seq(CoreSet), NEW Z, Sends(A, P, Z, Q, x, G),
               OrderOf(A, P, beg, D)
        PROVE  OrderOf(Z, Q, beg, D)
    <3>1. PICK H \in Seq(CoreSet) : P[x] = G \o H /\ Z = A \o G /\ Q = [P EXCEPT ![x] = H]
      BY <2>5 DEF Sends
    <3> QED BY <2>5, <3>1, SendOrder
  <2>6. Pubs \subseteq Senders /\ Batches \subseteq Senders
    BY DEF Senders
  <2>7. ASSUME PubAdds(S, U, T, V) PROVE OrderOf(T, V, big, D)
    <3>1. PICK x \in Pubs, C \in Seq(CoreSet), m \in Messages, M \in [Senders -> Seq(CoreSet)] :
            Writes(U, M, x, C, m) /\ Sends(S, M, T, V, x, C)
      BY <2>7 DEF PubAdds
    <3>2. OrderOf(S, M, big, D)
      BY <1>1, <1>2, <1>4, <2>4, <2>6, <3>1
    <3>3. PICK H \in Seq(CoreSet) : M[x] = C \o H /\ T = S \o C /\ V = [M EXCEPT ![x] = H]
      BY <3>1 DEF Sends
    <3>4. x \in Senders
      BY <2>6
    <3> QED BY <1>2, <3>2, <3>3, <3>4, SendOrder
  <2>8. ASSUME JobAdds(S, U, T, V) PROVE OrderOf(T, V, big, D)
    <3>1. PICK x \in Pubs, C \in Seq(CoreSet), m \in Messages : Writes(U, V, x, C, m) /\ T = S
      BY <2>8 DEF JobAdds
    <3> QED BY <1>1, <1>2, <1>4, <2>4, <2>6, <3>1
  <2>9. ASSUME BatchAdds(S, U, T, V) PROVE OrderOf(T, V, big, D)
    <3>1. PICK x \in Batches, C \in Seq(CoreSet), m \in Messages : Writes(U, V, x, C, m) /\ T = S
      BY <2>9 DEF BatchAdds
    <3> QED BY <1>1, <1>2, <1>4, <2>4, <2>6, <3>1
  <2>10. ASSUME PubMoves(S, U, T, V) PROVE OrderOf(T, V, big, D)
    <3>1. PICK x \in Pubs, G \in Seq(CoreSet) : big = begun /\ Sends(S, U, T, V, x, G)
      BY <2>3, <2>10 DEF PubMoves
    <3> QED BY <1>1, <1>2, <1>4, <2>5, <2>6, <3>1
  <2>11. ASSUME BatchMoves(S, U, T, V) PROVE OrderOf(T, V, big, D)
    <3>1. PICK x \in Batches, G \in Seq(CoreSet) : big = begun /\ Sends(S, U, T, V, x, G)
      BY <2>3, <2>11 DEF BatchMoves
    <3> QED BY <1>1, <1>2, <1>4, <2>5, <2>6, <3>1
  <2>12. ASSUME BatchDrops(S, U, T, V) PROVE OrderOf(T, V, big, D)
    <3>1. PICK x \in Batches : big = begun /\ T = S /\ V = [U EXCEPT ![x] = << >>]
      BY <2>3, <2>12 DEF BatchDrops
    <3> QED BY <1>1, <1>2, <1>4, <2>6, <3>1, DropOrder
  <2>13. ASSUME Loses(S, U, T, V) PROVE OrderOf(T, V, big, D)
    <3>1. PICK G, L, H \in Seq(CoreSet) : big = begun /\ S = G \o (L \o H) /\ T = G \o H /\ V = U
      BY <2>3, <2>13 DEF Loses
    <3> QED BY <1>1, <1>2, <1>4, <3>1, LoseOrder
  <2>14. ASSUME Stays(S, U, T, V) PROVE OrderOf(T, V, big, D)
    BY <1>1, <1>4, <2>3, <2>14 DEF Stays
  <2>15. OrderOf(T, V, big, D)
    BY <1>6, <2>1, <2>7, <2>8, <2>9, <2>10, <2>11, <2>12, <2>13, <2>14 DEF Steps, Handles
  <2>16. Done' = D
    BY <1>4, <2>2 DEF Done
  <2> QED BY <2>1, <2>2, <2>3, <2>15, <2>16 DEF OrderInv, InOrder
<1> QED BY <1>5, <1>6

\* sbfHandlerDispatchMessage gives the messages of a publisher in the order it
\* sent them and none twice, whatever is lost and however publishers and batches
\* share the connection (sbfPub_sendBuffer, sbfBatch_send, sbfTport_assemble).
THEOREM MessagesInOrder == Spec => []InOrder
<1>1. Init => Types /\ OrderInv
  <2>1. ASSUME Init PROVE OrderInv
    <3>1. PICK B : StreamOf(<< >>, B, wire, mBuffers) /\ \A b \in Batches : B[b] = << >>
      BY <2>1, InitTypes
    <3>2. PICK U : U = [x \in Senders |-> << >>]
      OBVIOUS
    <3>3. << >> \in Seq(CoreSet) /\ << >> \o << >> = << >>
      OBVIOUS
    <3>4. U \in [Senders -> Seq(CoreSet)] /\ \A x \in Senders : U[x] = << >>
      BY <3>2, <3>3
    <3>5. input = << >> /\ dispatched = << >> /\ \A p \in Pubs : job[p] = << >>
      BY <2>1 DEF Init
    <3>6. Stream(<< >>, U)
      <4>1. Joined(<< >>, U, << >>, B, input, job)
        BY <3>1, <3>3, <3>4, <3>5, CoresEmpty DEF Joined, Senders
      <4> QED BY <3>1, <4>1 DEF Stream
    <3>7. DOMAIN dispatched = {}
      BY <3>5
    <3>8. OrderOf(<< >>, U, begun, Done)
      BY <3>4, <3>7, ElsEmpty DEF OrderOf, Before, Done
    <3> QED BY <3>6, <3>7, <3>8 DEF OrderInv, InOrder
  <2> QED BY <2>1, InitTypes
<1>2. Types /\ OrderInv /\ [Next]_vars => Types' /\ OrderInv'
  BY NextTypes, NextOrder
<1>3. OrderInv => InOrder
  BY DEF OrderInv
<1> QED BY <1>1, <1>2, <1>3, PTL DEF Spec
-----------------------------------------------------------------------------
(* What the event thread has left to put together. *)

\* A stream has one batch at a time.
OneBatch == \A b, c \in Batches : b = c

\* What the batch has to send.
Rest(U) == IF Batches = {} THEN << >> ELSE U[CHOOSE b \in Batches : TRUE]

\* All that is on its way, when publisher lock is sending fragments.
LineOf(S, U, lock) == S \o ((IF lock = NULL THEN << >> ELSE U[lock]) \o Rest(U))

\* With one batch Rest is what it has.
LEMMA RestIs ==
  ASSUME OneBatch, NEW U \in [Senders -> Seq(CoreSet)]
  PROVE  /\ Rest(U) \in Seq(CoreSet)
         /\ \A b \in Batches : Rest(U) = U[b]
         /\ \A V : (\A b \in Batches : V[b] = U[b]) => Rest(V) = Rest(U)
<1>1. CASE Batches = {}
  BY <1>1 DEF Rest
<1>2. CASE Batches # {}
  <2>1. PICK b \in Batches : b = CHOOSE x \in Batches : TRUE
    BY <1>2
  <2>2. \A V : Rest(V) = V[b]
    BY <1>2, <2>1 DEF Rest
  <2>3. \A x \in Batches : x = b
    BY DEF OneBatch
  <2>4. U[b] \in Seq(CoreSet)
    BY DEF Senders
  <2> QED BY <2>2, <2>3, <2>4
<1> QED BY <1>1, <1>2

\* LineOf is a sequence of headers.
LEMMA LineType ==
  ASSUME OneBatch, NEW S \in Seq(CoreSet), NEW U \in [Senders -> Seq(CoreSet)],
         NEW lock \in Pubs \cup {NULL}
  PROVE  /\ (IF lock = NULL THEN << >> ELSE U[lock]) \o Rest(U) \in Seq(CoreSet)
         /\ LineOf(S, U, lock) \in Seq(CoreSet)
<1>1. PICK J \in Seq(CoreSet) : J = IF lock = NULL THEN << >> ELSE U[lock]
  <2>1. CASE lock = NULL
    <3>1. << >> \in Seq(CoreSet)
      OBVIOUS
    <3> QED BY <2>1, <3>1
  <2>2. CASE lock # NULL
    BY <2>2 DEF Senders
  <2> QED BY <2>1, <2>2
<1>2. PICK R \in Seq(CoreSet) : R = Rest(U)
  BY RestIs
<1>3. J \o R \in Seq(CoreSet)
  OBVIOUS
<1>4. S \o (J \o R) \in Seq(CoreSet)
  BY <1>3
<1> QED BY <1>1, <1>2, <1>3, <1>4 DEF LineOf

\* The empty sequence before or after another.
LEMMA EmptyConcat ==
  ASSUME NEW a \in Seq(CoreSet)
  PROVE  a \o << >> = a /\ << >> \o a = a
OBVIOUS

Regrouped(a, b, c, d) ==
  /\ a \o ((b \o c) \o d) = (a \o b) \o (c \o d)
  /\ a \o (b \o (c \o d)) = (a \o (b \o c)) \o d

\* It does not matter which of four sequences are joined first.
LEMMA Regroup ==
  ASSUME NEW a \in Seq(CoreSet), NEW b \in Seq(CoreSet), NEW c \in Seq(CoreSet),
         NEW d \in Seq(CoreSet)
  PROVE  Regrouped(a, b, c, d)
<1>1. PICK k : k = c \o d
  OBVIOUS
<1>2. k \in Seq(CoreSet)
  BY <1>1
<1>3. (b \o c) \o d = b \o k
  BY <1>1, CoreAssoc
<1>4. (a \o b) \o k = a \o (b \o k)
  BY <1>2, CoreAssoc
<1>5. PICK l : l = b \o c
  OBVIOUS
<1>6. l \in Seq(CoreSet)
  BY <1>5
<1>7. (a \o l) \o d = a \o (l \o d)
  BY <1>6, CoreAssoc
<1> QED BY <1>1, <1>3, <1>4, <1>5, <1>7 DEF Regrouped

\* What a step of a sender does to what is on its way: nothing, it adds a
\* message, or it drops the end.
LineSteps(X, Y) ==
  \/ Y = X
  \/ \E A, B, C \in Seq(CoreSet), m \in Messages :
       X = A \o B /\ Y = A \o (C \o B) /\ BlockOK(C, m)
  \/ \E A, B \in Seq(CoreSet) : X = A \o B /\ Y = A

\* Steps does to the line what LineSteps says, when nothing is lost.
LEMMA StepLine ==
  ASSUME OneBatch, Types, NEW S, NEW U, Stream(S, U), NEW T, NEW V, Steps(S, U, T, V),
         ~HandleMessage, lost' = 0, NEW lock, lock = mSendLock'
  PROVE  LineSteps(LineOf(S, U, mSendLock), LineOf(T, V, lock))
<1>1. S \in Seq(CoreSet) /\ U \in [Senders -> Seq(CoreSet)]
  BY StreamTypes
<1>2. PICK R \in Seq(CoreSet) : /\ R = Rest(U) /\ (\A b \in Batches : R = U[b])
                                /\ \A Q : (\A b \in Batches : Q[b] = U[b]) => Rest(Q) = R
  BY <1>1, RestIs
<1>3. NULL \notin Pubs /\ Pubs \cap Batches = {} /\ Pubs \subseteq Senders /\ Batches \subseteq Senders
  BY MessagesAssumption DEF Senders
<1>4. mSendLock \in Pubs \cup {NULL}
  BY DEF Types, SendOK
<1>5. PICK J \in Seq(CoreSet) : J = IF mSendLock = NULL THEN << >> ELSE U[mSendLock]
  <2>1. CASE mSendLock = NULL
    <3>1. << >> \in Seq(CoreSet)
      OBVIOUS
    <3> QED BY <2>1, <3>1
  <2>2. CASE mSendLock # NULL
    BY <1>1, <1>3, <1>4, <2>2
  <2> QED BY <2>1, <2>2
<1>20. S \in Seq(CoreSet) /\ R \in Seq(CoreSet) /\ J \in Seq(CoreSet)
  BY <1>1, <1>2, <1>5
<1>6. PICK X \in Seq(CoreSet) : X = LineOf(S, U, mSendLock)
  BY <1>1, <1>4, LineType
<1>7. X = S \o (J \o R) /\ X = (S \o J) \o R /\ S \o J \in Seq(CoreSet)
  <2>1. S \o J \in Seq(CoreSet)
    BY <1>1, <1>5
  <2>2. X = S \o (J \o R)
    BY <1>2, <1>5, <1>6 DEF LineOf
  <2>3. (S \o J) \o R = S \o (J \o R)
    BY <1>20, CoreAssoc
  <2> QED BY <2>1, <2>2, <2>3
<1>8. ASSUME mSendLock = NULL PROVE J = << >> /\ X = S \o R
  BY <1>2, <1>5, <1>7, <1>8, EmptyConcat
<1>9. ASSUME PubAdds(S, U, T, V) PROVE LineSteps(X, LineOf(T, V, lock))
  <2>1. PICK C \in Seq(CoreSet), m \in Messages :
          mSendLock = NULL /\ lock = NULL /\ BlockOK(C, m) /\ V = U /\ T = S \o C
    BY <1>9 DEF PubAdds, Writes
  <2>2. LineOf(T, V, lock) = (S \o C) \o (<< >> \o R)
    BY <1>2, <2>1 DEF LineOf
  <2>3. LineOf(T, V, lock) = S \o (C \o R)
    <3>1. << >> \o R = R
      BY <1>2, EmptyConcat
    <3>2. (S \o C) \o R = S \o (C \o R)
      BY <1>1, <1>2, <2>1, CoreAssoc
    <3> QED BY <2>2, <3>1, <3>2
  <2> QED BY <1>1, <1>2, <1>8, <2>1, <2>3 DEF LineSteps
<1>10. ASSUME JobAdds(S, U, T, V) PROVE LineSteps(X, LineOf(T, V, lock))
  <2>1. PICK x \in Pubs, C \in Seq(CoreSet), m \in Messages :
          /\ mSendLock = NULL /\ lock = x /\ BlockOK(C, m) /\ V = [U EXCEPT ![x] = @ \o C]
          /\ V[x] = C /\ T = S
    BY <1>10 DEF JobAdds, Writes
  <2>2. Rest(V) = R
    <3>1. \A b \in Batches : V[b] = U[b]
      BY <1>1, <1>3, <2>1
    <3> QED BY <1>2, <3>1
  <2>3. LineOf(T, V, lock) = S \o (C \o R)
    BY <1>3, <2>1, <2>2 DEF LineOf
  <2> QED BY <1>1, <1>2, <1>8, <2>1, <2>3 DEF LineSteps
<1>11. ASSUME BatchAdds(S, U, T, V) PROVE LineSteps(X, LineOf(T, V, lock))
  <2>1. PICK x \in Batches, C \in Seq(CoreSet), m \in Messages :
          lock = mSendLock /\ BlockOK(C, m) /\ V = [U EXCEPT ![x] = @ \o C] /\ T = S
    BY <1>11 DEF BatchAdds, Writes
  <2>2. V \in [Senders -> Seq(CoreSet)] /\ V[x] = R \o C /\ \A p \in Pubs : V[p] = U[p]
    <3>0. C \in Seq(CoreSet)
      BY <2>1
    <3>1. PICK E : E = R \o C
      OBVIOUS
    <3>4. E \in Seq(CoreSet)
      BY <1>20, <3>0, <3>1
    <3>2. V = [U EXCEPT ![x] = E]
      BY <1>2, <2>1, <3>1
    <3> QED BY <1>1, <1>3, <2>1, <3>1, <3>2, <3>4
  <2>3. Rest(V) = R \o C
    BY <2>2, RestIs
  <2>4. LineOf(T, V, lock) = S \o (J \o (R \o C))
    BY <1>4, <1>5, <2>1, <2>2, <2>3 DEF LineOf
  <2>5. S \o (J \o (R \o C)) = X \o C
    <3>0. C \in Seq(CoreSet)
      BY <2>1
    <3>1. Regrouped(S, J, R, C)
      BY <1>20, <3>0, Regroup
    <3> QED BY <1>7, <3>1 DEF Regrouped
  <2>6. LineOf(T, V, lock) = X \o (C \o << >>) /\ X = X \o << >> /\ << >> \in Seq(CoreSet)
    BY <1>6, <2>4, <2>5, EmptyConcat
  <2> QED BY <1>6, <2>1, <2>6 DEF LineSteps
<1>12. ASSUME PubMoves(S, U, T, V) PROVE LineSteps(X, LineOf(T, V, lock))
  <2>1. PICK x \in Pubs, G \in Seq(CoreSet), H \in Seq(CoreSet) :
          /\ mSendLock = x /\ U[x] = G \o H /\ T = S \o G /\ V = [U EXCEPT ![x] = H]
          /\ lock = IF V[x] = << >> THEN NULL ELSE x
    BY <1>12 DEF PubMoves, Sends
  <2>2. Rest(V) = R /\ V[x] = H
    <3>1. \A b \in Batches : V[b] = U[b]
      BY <1>1, <1>3, <2>1
    <3> QED BY <1>1, <1>2, <1>3, <2>1, <3>1
  <2>3. LineOf(T, V, lock) = (S \o G) \o (H \o R)
    BY <1>3, <2>1, <2>2 DEF LineOf
  <2>4. J = G \o H
    BY <1>3, <1>5, <2>1
  <2>5. X = S \o ((G \o H) \o R)
    BY <1>7, <2>4
  <2>6. G \in Seq(CoreSet) /\ H \in Seq(CoreSet)
    BY <2>1
  <2>7. S \o ((G \o H) \o R) = (S \o G) \o (H \o R)
    <3>1. Regrouped(S, G, H, R)
      BY <1>20, <2>6, Regroup
    <3> QED BY <3>1 DEF Regrouped
  <2> QED BY <2>3, <2>5, <2>7 DEF LineSteps
<1>13. ASSUME BatchMoves(S, U, T, V) PROVE LineSteps(X, LineOf(T, V, lock))
  <2>1. PICK x \in Batches, G \in Seq(CoreSet), H \in Seq(CoreSet) :
          /\ mSendLock = NULL /\ U[x] = G \o H /\ T = S \o G /\ V = [U EXCEPT ![x] = H]
          /\ lock = NULL
    BY <1>13 DEF BatchMoves, Sends
  <2>2. V \in [Senders -> Seq(CoreSet)] /\ V[x] = H
    BY <1>1, <1>3, <2>1
  <2>3. Rest(V) = H /\ R = G \o H
    BY <1>2, <2>1, <2>2, RestIs
  <2>4. LineOf(T, V, lock) = (S \o G) \o H
    <3>1. << >> \o H = H
      BY <2>1, EmptyConcat
    <3> QED BY <2>1, <2>3, <3>1 DEF LineOf
  <2>5. X = (S \o G) \o H
    <3>0. G \in Seq(CoreSet) /\ H \in Seq(CoreSet)
      BY <2>1
    <3>1. (S \o G) \o H = S \o (G \o H)
      BY <1>20, <3>0, CoreAssoc
    <3> QED BY <1>8, <2>1, <2>3, <3>1
  <2> QED BY <2>4, <2>5 DEF LineSteps
<1>14. ASSUME BatchDrops(S, U, T, V) PROVE LineSteps(X, LineOf(T, V, lock))
  <2>1. PICK x \in Batches : lock = mSendLock /\ T = S /\ V = [U EXCEPT ![x] = << >>]
    BY <1>14 DEF BatchDrops
  <2>2. V \in [Senders -> Seq(CoreSet)] /\ V[x] = << >> /\ \A p \in Pubs : V[p] = U[p]
    <3>1. << >> \in Seq(CoreSet)
      OBVIOUS
    <3> QED BY <1>1, <1>3, <2>1, <3>1
  <2>3. Rest(V) = << >>
    BY <2>2, RestIs
  <2>4. LineOf(T, V, lock) = S \o (J \o << >>)
    BY <1>4, <1>5, <2>1, <2>2, <2>3 DEF LineOf
  <2>5. LineOf(T, V, lock) = S \o J
    BY <1>5, <2>4, EmptyConcat
  <2> QED BY <1>2, <1>7, <2>5 DEF LineSteps
<1>15. ASSUME Stays(S, U, T, V) PROVE LineSteps(X, LineOf(T, V, lock))
  BY <1>6, <1>15 DEF Stays, LineSteps
<1> QED BY <1>6, <1>9, <1>10, <1>11, <1>12, <1>13, <1>14, <1>15 DEF Steps, Loses, Handles

\* A message written between the others does them no harm.
LEMMA LinkSteps ==
  ASSUME NEW X \in Seq(CoreSet), NEW Y, LineSteps(X, Y), NEW a, NEW z, Link(X, a, z),
         \A h \in Els(X) : EndsOK(h)
  PROVE  /\ Y \in Seq(CoreSet)
         /\ \E y : Link(Y, a, y)
         /\ \A h \in Els(Y) : EndsOK(h)
<1>1. CASE Y = X
  BY <1>1
<1>2. CASE \E A, B, C \in Seq(CoreSet), m \in Messages :
             X = A \o B /\ Y = A \o (C \o B) /\ BlockOK(C, m)
  <2>1. PICK A \in Seq(CoreSet), B \in Seq(CoreSet), C \in Seq(CoreSet), m \in Messages :
          X = A \o B /\ Y = A \o (C \o B) /\ BlockOK(C, m)
    BY <1>2
  <2>2. PICK y : Link(A, a, y) /\ Link(B, y, z)
    BY <2>1, LinkSplit
  <2>3. C \o B \in Seq(CoreSet) /\ Y \in Seq(CoreSet)
    BY <2>1
  <2>4. \E w, v : Link(C, y, w) /\ Link(B, w, v)
    <3>1. CASE \A x : Link(C, x, x)
      BY <2>2, <3>1
    <3>2. CASE \E f : f.lastFragment /\ \A x : Link(C, x, f)
      <4>1. PICK f : f.lastFragment /\ \A x : Link(C, x, f)
        BY <3>2
      <4>2. Link(B, f, z) \/ Link(B, f, f)
        BY <2>1, <2>2, <4>1, LinkFree
      <4> QED BY <4>1, <4>2
    <3> QED BY <2>1, <3>1, <3>2 DEF BlockOK
  <2>5. PICK w, v : Link(C, y, w) /\ Link(B, w, v)
    BY <2>4
  <2>6. Link(C \o B, y, v)
    BY <2>1, <2>5, LinkConcat
  <2>7. Link(Y, a, v)
    BY <2>1, <2>2, <2>3, <2>6, LinkConcat
  <2>8. Els(X) = Els(A) \cup Els(B) /\ Els(C \o B) = Els(C) \cup Els(B)
        /\ Els(Y) = Els(A) \cup Els(C \o B)
    BY <2>1, <2>3, ElsConcat
  <2>9. \A h \in Els(C) : EndsOK(h)
    BY <2>1 DEF BlockOK
  <2> QED BY <2>3, <2>7, <2>8, <2>9
<1>3. CASE \E A, B \in Seq(CoreSet) : X = A \o B /\ Y = A
  <2>1. PICK A \in Seq(CoreSet), B \in Seq(CoreSet) : X = A \o B /\ Y = A
    BY <1>3
  <2>2. \E y : Link(Y, a, y)
    BY <2>1, LinkSplit
  <2>3. Els(X) = Els(A) \cup Els(B)
    BY <2>1, ElsConcat
  <2> QED BY <2>1, <2>2, <2>3
<1> QED BY <1>1, <1>2, <1>3 DEF LineSteps
-----------------------------------------------------------------------------
(* What the event thread has put together. *)

\* The pieces of d are those of one message, from its beginning, without a gap.
Chain(d) ==
  d # << >> => /\ d[1].from = 0
               /\ \A i \in 1..Len(d) : d[i].msg = d[1].msg
               /\ \A i \in 1..Len(d) - 1 : d[i + 1].from = d[i].from + d[i].size

\* q goes on where p ends.
Follows(p, q) == q.msg = p.msg /\ q.from = p.from + p.size

\* A first piece is a chain.
LEMMA ChainOne ==
  ASSUME NEW p \in Pieces, p.from = 0
  PROVE  Chain(<<p>>)
<1>1. Len(<<p>>) = 1 /\ <<p>>[1] = p /\ 1..1 = {1} /\ 1..1 - 1 = {}
  OBVIOUS
<1> QED BY <1>1 DEF Chain

\* A piece that follows the last one makes the chain longer.
LEMMA ChainAppend ==
  ASSUME NEW d \in Seq(Pieces), d # << >>, Chain(d), NEW p \in Pieces, Follows(Last(d), p)
  PROVE  Chain(Append(d, p))
<1>1. PICK n \in Nat : n = Len(d) /\ n > 0
  BY EmptySeq
<1>2. PICK e : e = Append(d, p)
  OBVIOUS
<1>3. /\ Len(e) = n + 1 /\ e[n + 1] = p
      /\ \A i \in 1..n : e[i] = d[i]
  BY <1>1, <1>2
<1>4. /\ d[1].from = 0 /\ \A i \in 1..n : d[i].msg = d[1].msg
      /\ \A i \in 1..n - 1 : d[i + 1].from = d[i].from + d[i].size
  BY <1>1 DEF Chain
<1>5. 1 \in 1..n /\ n \in 1..n /\ Last(d) = d[n]
  BY <1>1 DEF Last
<1>6. e[1].from = 0
  BY <1>3, <1>4, <1>5
<1>7. ASSUME NEW i \in 1..n + 1 PROVE e[i].msg = e[1].msg
  <2>1. CASE i \in 1..n
    BY <1>3, <1>4, <1>5, <2>1
  <2>2. CASE i = n + 1
    BY <1>3, <1>4, <1>5, <2>2 DEF Follows
  <2>3. i \in 1..n \/ i = n + 1
    OBVIOUS
  <2> QED BY <2>1, <2>2, <2>3
<1>8. ASSUME NEW i \in 1..n PROVE e[i + 1].from = e[i].from + e[i].size
  <2>1. CASE i = n
    BY <1>3, <1>5, <2>1 DEF Follows
  <2>2. CASE i # n
    <3>1. i \in 1..n - 1 /\ i + 1 \in 1..n
      BY <2>2
    <3> QED BY <1>3, <1>4, <3>1
  <2> QED BY <2>1, <2>2
<1>9. (n + 1) - 1 = n
  OBVIOUS
<1> QED BY <1>2, <1>3, <1>6, <1>7, <1>8, <1>9 DEF Chain

\* A chain up to the end of its message is intact.
LEMMA ChainIntact ==
  ASSUME NEW d \in Seq(Pieces), d # << >>, Chain(d), Last(d).from + Last(d).size = Last(d).msg.size
  PROVE  Intact(d)
<1>1. Len(d) \in 1..Len(d) /\ DOMAIN d = 1..Len(d)
  BY EmptySeq
<1>2. Last(d).msg = d[1].msg
  BY <1>1 DEF Chain, Last
<1> QED BY <1>1, <1>2 DEF Chain, Intact

\* The fragment the topic has last, a; when it has none anything may come.
Current(a) ==
  IF mSubs = << >> \/ mFragNum = 0 THEN a.lastFragment
  ELSE /\ ~a.lastFragment /\ a.fragNum = mFragNum /\ a.msg = Last(mFragData).msg
       /\ a.from = Last(mFragData).from /\ a.size = Last(mFragData).size

\* What the topic has of a message.
Begun == (mFragNum = 0 <=> mFragData = << >>) /\ Chain(mFragData)

\* The last of a longer sequence.
LEMMA AppendLast ==
  ASSUME NEW d \in Seq(Pieces), NEW p \in Pieces
  PROVE  /\ Append(d, p) \in Seq(Pieces) /\ Append(d, p) # << >>
         /\ Last(Append(d, p)) = p
<1>1. Len(Append(d, p)) = Len(d) + 1 /\ Append(d, p)[Len(d) + 1] = p
  OBVIOUS
<1> QED BY <1>1 DEF Last

\* A fragment that is expected, after fragment a, goes on with the message.
LEMMA ExpectedChain ==
  ASSUME Types, NEW h \in Headers, Begun, Expected(h), mSubs # << >>,
         EndsOK(Core(h)), NEW a, Current(a), Allowed(a, Core(h))
  PROVE  Chain(Append(mFragData, Piece(h)))
<1>1. PICK p \in Pieces : p = Piece(h) /\ p.msg = h.msg /\ p.from = h.from /\ p.size = h.size
  BY PieceIs
<1>2. PICK c \in CoreSet : c = Core(h) /\ c.msg = h.msg /\ c.from = h.from
                           /\ c.fragNum = h.fragNum /\ c.lastFragment = h.lastFragment
  BY CoreType
<1>3. mFragData \in Seq(Pieces) /\ mFragNum \in Nat /\ h.fragNum = mFragNum + 1
  BY DEF Types, TopicOK, Expected
<1>4. CASE mFragData = << >>
  <2>1. c.fragNum = 1
    BY <1>2, <1>4 DEF Expected
  <2>2. p.from = 0
    BY <1>1, <1>2, <2>1 DEF EndsOK
  <2>3. Append(mFragData, p) = <<p>>
    BY <1>4
  <2> QED BY <1>1, <2>2, <2>3, ChainOne
<1>5. CASE mFragData # << >>
  <2>1. mFragNum # 0 /\ Chain(mFragData)
    BY <1>5 DEF Begun
  <2>2. c.fragNum # 1
    BY <1>2, <1>3, <2>1
  <2>3. /\ ~a.lastFragment /\ a.msg = Last(mFragData).msg
        /\ a.from = Last(mFragData).from /\ a.size = Last(mFragData).size
    BY <2>1 DEF Current
  <2>4. c.msg = a.msg /\ c.from = a.from + a.size
    BY <1>2, <2>2, <2>3 DEF Allowed
  <2>5. Follows(Last(mFragData), p)
    BY <1>1, <1>2, <2>3, <2>4 DEF Follows
  <2> QED BY <1>1, <1>3, <1>5, <2>1, <2>5, ChainAppend
<1> QED BY <1>4, <1>5

\* Nothing has been lost: messages are in one piece, and so is what goes on.
IntactInv ==
  lost = 0 =>
    /\ \A d \in DOMAIN dispatched : Intact(dispatched[d])
    /\ Begun
    /\ \E S, U, a, z : LET X == LineOf(S, U, mSendLock) IN
         /\ Stream(S, U) /\ Link(X, a, z) /\ Current(a)
         /\ \A h \in Els(X) : EndsOK(h)

\* What the handling of h, the first of those on their way, does.
LEMMA HandleFragment ==
  ASSUME Types, HandleMessage, NEW h \in Headers, h = Head(input), Begun,
         NEW c, c = Core(h), EndsOK(c), NEW a, Current(a),
         c.fragNum # 0 => Allowed(a, c)
  PROVE  /\ \/ dispatched' = dispatched
            \/ \E message : dispatched' = Append(dispatched, message) /\ Intact(message)
         /\ Begun'
         /\ IF c.fragNum = 0 THEN Current(a)'
            ELSE Current(c)' \/ \A f : f.lastFragment => Current(f)'
<1>1. PICK p \in Pieces : p = Piece(h) /\ p.msg = h.msg /\ p.from = h.from /\ p.size = h.size
  BY PieceIs
<1>2. c \in CoreSet /\ c.msg = h.msg /\ c.from = h.from /\ c.size = h.size
      /\ c.fragNum = h.fragNum /\ c.lastFragment = h.lastFragment
  BY CoreType
<1>3. mFragData \in Seq(Pieces)
  BY DEF Types, TopicOK
<1>4. CASE mSubs = << >>
  <2>1. UNCHANGED <<topicVars, historyVars>>
    BY <1>4 DEF HandleMessage
  <2>2. mSubs' = mSubs /\ mFragNum' = mFragNum /\ mFragData' = mFragData /\ dispatched' = dispatched
    BY <2>1 DEF topicVars, historyVars
  <2>3. Begun' /\ (Current(a)') /\ \A f : f.lastFragment => Current(f)'
    BY <1>4, <2>2 DEF Begun, Current
  <2> QED BY <2>2, <2>3
<1>5. CASE mSubs # << >> /\ h.fragNum = 0
  <2>1. /\ mSubs' = mSubs /\ mFragNum' = mFragNum /\ mFragData' = mFragData
        /\ dispatched' = Append(dispatched, <<p>>)
    BY <1>1, <1>5 DEF HandleMessage, Dispatch
  <2>2. p.from = 0 /\ p.from + p.size = p.msg.size
    BY <1>1, <1>2, <1>5 DEF EndsOK
  <2>3. <<p>> \in Seq(Pieces) /\ <<p>> # << >> /\ Last(<<p>>) = p
    BY DEF Last
  <2>4. Intact(<<p>>)
    BY <2>2, <2>3, ChainOne, ChainIntact
  <2>5. Begun' /\ Current(a)'
    BY <2>1 DEF Begun, Current
  <2> QED BY <1>2, <1>5, <2>1, <2>4, <2>5
<1>6. CASE mSubs # << >> /\ h.fragNum # 0
  <2>1. Assemble(h) /\ mSubs' = mSubs
    BY <1>6 DEF HandleMessage
  <2>2. PICK d : d = Append(mFragData, p)
    OBVIOUS
  <2>3. d \in Seq(Pieces) /\ d # << >> /\ Last(d) = p
    BY <1>3, <2>2, AppendLast
  <2>4. ASSUME Expected(h) PROVE Chain(d)
    BY <1>1, <1>2, <1>6, <2>2, <2>4, ExpectedChain
  <2>5. CASE Expected(h) /\ ~h.lastFragment
    <3>1. mFragNum' = h.fragNum /\ mFragData' = d /\ dispatched' = dispatched
      BY <1>1, <2>1, <2>2, <2>5 DEF Assemble
    <3>2. Begun'
      BY <1>6, <2>3, <2>4, <2>5, <3>1 DEF Begun
    <3>3. Current(c)'
      BY <1>1, <1>2, <1>6, <2>1, <2>3, <2>5, <3>1 DEF Current
    <3> QED BY <1>2, <1>6, <3>1, <3>2, <3>3
  <2>6. CASE Expected(h) /\ h.lastFragment
    <3>1. mFragNum' = 0 /\ mFragData' = << >> /\ dispatched' = Append(dispatched, d)
      BY <1>1, <2>1, <2>2, <2>6 DEF Assemble, Dispatch
    <3>2. Last(d).from + Last(d).size = Last(d).msg.size
      BY <1>1, <1>2, <2>3, <2>6 DEF EndsOK
    <3>3. Intact(d)
      BY <2>3, <2>4, <2>6, <3>2, ChainIntact
    <3>4. Begun' /\ \A f : f.lastFragment => Current(f)'
      BY <3>1 DEF Begun, Chain, Current
    <3> QED BY <1>2, <1>6, <3>1, <3>3, <3>4
  <2>7. CASE ~Expected(h)
    <3>1. mFragNum' = 0 /\ mFragData' = << >> /\ dispatched' = dispatched
      BY <2>1, <2>7 DEF Assemble
    <3>2. Begun' /\ \A f : f.lastFragment => Current(f)'
      BY <3>1 DEF Begun, Chain, Current
    <3> QED BY <1>2, <1>6, <3>1, <3>2
  <2> QED BY <2>5, <2>6, <2>7
<1> QED BY <1>4, <1>5, <1>6
\* Other steps leave what the topic has, or they find or leave it with nothing.
LEMMA OthersCurrent ==
  ASSUME Types, [Next]_vars, ~HandleMessage, Begun, NEW a, Current(a)
  PROVE  Begun' /\ (Current(a)' \/ \A f : f.lastFragment => Current(f)')
<1>1. CASE UNCHANGED <<topicVars, subVars, historyVars>>
  <2>1. mSubs' = mSubs /\ mFragNum' = mFragNum /\ mFragData' = mFragData
    BY <1>1 DEF topicVars
  <2> QED BY <2>1 DEF Begun, Current
<1>2. ASSUME NEW s \in Subs, SubAdd(s) PROVE Begun' /\ Current(a)'
  <2>1. CASE mSubs = << >>
    <3>1. mFragNum' = 0 /\ mFragData' = << >>
      BY <1>2, <2>1 DEF SubAdd
    <3>2. a.lastFragment
      BY <2>1 DEF Current
    <3> QED BY <3>1, <3>2 DEF Begun, Chain, Current
  <2>2. CASE mSubs # << >>
    <3>1. mFragNum' = mFragNum /\ mFragData' = mFragData /\ mSubs' = Append(mSubs, s)
      BY <1>2, <2>2 DEF SubAdd
    <3>2. PICK l : l = Append(mSubs, s)
      OBVIOUS
    <3>3. Len(mSubs) \in Nat /\ Len(l) = Len(mSubs) + 1
      BY <3>2 DEF Types, TopicOK
    <3>4. l # << >>
      BY <3>3
    <3> QED BY <2>2, <3>1, <3>2, <3>4 DEF Begun, Current
  <2> QED BY <2>1, <2>2
<1>3. ASSUME NEW s \in Subs, SubDestroy(s) PROVE Begun' /\ Current(a)'
  <2>1. mSubs' = mSubs /\ mFragNum' = mFragNum /\ mFragData' = mFragData
    BY <1>3 DEF SubDestroy, topicVars
  <2> QED BY <2>1 DEF Begun, Current
<1>4. ASSUME NEW s \in Subs, SubRemove(s)
      PROVE  Begun' /\ (Current(a)' \/ \A f : f.lastFragment => Current(f)')
  <2>1. mFragNum' = mFragNum /\ mFragData' = mFragData
    BY <1>4 DEF SubRemove
  <2>2. Begun'
    BY <2>1 DEF Begun
  <2>3. CASE mSubs' = << >>
    BY <2>2, <2>3 DEF Current
  <2>4. CASE mSubs' # << >>
    <3>1. mSubs # << >>
      <4>1. s \in ToSet(mSubs)
        BY <1>4 DEF SubRemove
      <4>2. mSubs \in Seq(Subs)
        BY DEF Types, TopicOK
      <4>3. Has(mSubs, s)
        BY <4>1, <4>2, HasToSet
      <4> QED BY <4>3 DEF Has
    <3> QED BY <2>1, <2>2, <2>4, <3>1 DEF Current
  <2> QED BY <2>2, <2>3, <2>4
<1> QED BY <1>1, <1>2, <1>3, <1>4, NextTopic

\* When nothing is lost nothing was.
LEMMA LostStays ==
  ASSUME Types, [Next]_vars, lost' = 0
  PROVE  lost = 0
<1>1. CASE Lose
  BY <1>1, LoseTypes
<1>2. CASE ~Lose
  BY <1>2 DEF Next, PubSend, FragmentLock, FragmentSend, BatchAdd, BatchSend, BatchSendPacket,
    BatchDestroy, ReadPacket, ReadStream, HandleMessage, SubAdd, SubDestroy, SubRemove, vars
<1> QED BY <1>1, <1>2

\* Every step keeps IntactInv.
LEMMA NextIntact ==
  ASSUME OneBatch, Types, IntactInv, [Next]_vars
  PROVE  IntactInv'
<1>1. SUFFICES ASSUME lost' = 0
               PROVE  /\ (\A d \in DOMAIN dispatched : Intact(dispatched[d]))'
                      /\ Begun'
                      /\ (\E S, U, a, z : LET X == LineOf(S, U, mSendLock) IN
                            /\ Stream(S, U) /\ Link(X, a, z) /\ Current(a)
                            /\ \A h \in Els(X) : EndsOK(h))'
  BY DEF IntactInv
<1>2. lost = 0
  BY <1>1, LostStays
<1>3. /\ \A d \in DOMAIN dispatched : Intact(dispatched[d])
      /\ Begun
      /\ \E S, U, a, z : LET X == LineOf(S, U, mSendLock) IN
           /\ Stream(S, U) /\ Link(X, a, z) /\ Current(a) /\ \A h \in Els(X) : EndsOK(h)
  BY <1>2 DEF IntactInv
<1>4. PICK S, U, a, z :
        /\ Stream(S, U) /\ Link(LineOf(S, U, mSendLock), a, z) /\ Current(a)
        /\ \A h \in Els(LineOf(S, U, mSendLock)) : EndsOK(h)
  BY <1>3
<1>5. PICK X : X = LineOf(S, U, mSendLock)
  OBVIOUS
<1>6. /\ S \in Seq(CoreSet) /\ U \in [Senders -> Seq(CoreSet)] /\ mSendLock \in Pubs \cup {NULL}
      /\ dispatched \in Seq(Seq(Pieces))
  BY <1>4, StreamTypes DEF Types, SendOK, TopicOK
<1>7. X \in Seq(CoreSet)
  BY <1>5, <1>6, LineType
<1>8. PICK lock : lock = mSendLock'
  OBVIOUS
<1>9. ASSUME NEW T, NEW V, Stream(T, V)', NEW Y \in Seq(CoreSet), Y = LineOf(T, V, lock),
             NEW b, NEW y, Link(Y, b, y), \A h \in Els(Y) : EndsOK(h),
             Current(b)' \/ \A f : f.lastFragment => Current(f)'
      PROVE  (\E S1, U1, a1, z1 : LET X1 == LineOf(S1, U1, mSendLock) IN
                /\ Stream(S1, U1) /\ Link(X1, a1, z1) /\ Current(a1)
                /\ \A h \in Els(X1) : EndsOK(h))'
  <2>1. PICK f : f = [lastFragment |-> TRUE]
    OBVIOUS
  <2>2. f.lastFragment
    BY <2>1
  <2>3. Link(Y, f, y) \/ Link(Y, f, f)
    BY <1>9, <2>2, LinkFree
  <2>4. \E c, w : Link(Y, c, w) /\ Current(c)'
    BY <1>9, <2>2, <2>3
  <2> QED BY <1>8, <1>9, <2>4
<1>10. CASE HandleMessage
  <2>1. PICK T, V : Stream(T, V)' /\ Handles(S, U, T, V)
    BY <1>4, <1>10, HandleStream
  <2>2. PICK h \in Headers : h = Head(input)
    BY <1>10, HandleMessageTypes
  <2>3. PICK c \in CoreSet : c = Core(h)
    BY <2>2, CoreType
  <2>4. S = <<c>> \o T /\ V = U /\ T \in Seq(CoreSet) /\ lock = mSendLock
    BY <1>8, <2>1, <2>2, <2>3 DEF Handles
  <2>5. PICK Y : Y = LineOf(T, V, lock)
    OBVIOUS
  <2>6. Y \in Seq(CoreSet)
    BY <1>6, <2>4, <2>5, LineType
  <2>7. <<c>> \in Seq(CoreSet) /\ Els(<<c>>) = {c}
    BY ElsOne
  <2>8. X = <<c>> \o Y
    <3>1. PICK J : J = (IF lock = NULL THEN << >> ELSE U[lock]) \o Rest(U)
      OBVIOUS
    <3>2. Y = T \o J /\ X = (<<c>> \o T) \o J
      BY <1>5, <2>4, <2>5, <3>1 DEF LineOf
    <3>3. J \in Seq(CoreSet)
      BY <1>6, <2>4, <3>1, LineType
    <3>4. (<<c>> \o T) \o J = <<c>> \o (T \o J)
      BY <2>4, <2>7, <3>3, CoreAssoc
    <3> QED BY <3>2, <3>4
  <2>9. PICK y : Link(<<c>>, a, y) /\ Link(Y, y, z)
    BY <1>4, <1>5, <2>6, <2>7, <2>8, LinkSplit
  <2>10. Els(X) = {c} \cup Els(Y)
    BY <2>6, <2>7, <2>8, ElsConcat
  <2>11. EndsOK(c) /\ \A g \in Els(Y) : EndsOK(g)
    BY <1>4, <1>5, <2>10
  <2>12. IF c.fragNum = 0 THEN y = a ELSE Allowed(a, c) /\ y = c
    BY <2>9, LinkOne
  <2>13. /\ \/ dispatched' = dispatched
            \/ \E message : dispatched' = Append(dispatched, message) /\ Intact(message)
         /\ Begun'
         /\ IF c.fragNum = 0 THEN Current(a)'
            ELSE Current(c)' \/ \A f : f.lastFragment => Current(f)'
    BY <1>3, <1>4, <1>10, <2>2, <2>3, <2>11, <2>12, HandleFragment
  <2>14. (\A d \in DOMAIN dispatched : Intact(dispatched[d]))'
    <3>1. CASE dispatched' = dispatched
      BY <1>3, <3>1
    <3>2. ASSUME NEW message, dispatched' = Append(dispatched, message), Intact(message)
          PROVE  (\A d \in DOMAIN dispatched : Intact(dispatched[d]))'
      <4>1. PICK e : e = Append(dispatched, message)
        OBVIOUS
      <4>2. PICK n \in Nat : n = Len(dispatched)
        BY <1>6
      <4>3. DOMAIN e = 1..(n + 1) /\ e[n + 1] = message /\ DOMAIN dispatched = 1..n
            /\ \A d \in 1..n : e[d] = dispatched[d]
        BY <1>6, <4>1, <4>2
      <4>4. \A d \in 1..(n + 1) : d = n + 1 \/ d \in 1..n
        OBVIOUS
      <4>5. \A d \in DOMAIN e : Intact(e[d])
        BY <1>3, <3>2, <4>3, <4>4
      <4> QED BY <3>2, <4>1, <4>5
    <3> QED BY <2>13, <3>1, <3>2
  <2>15. Current(y)' \/ \A f : f.lastFragment => Current(f)'
    BY <2>12, <2>13
  <2> QED BY <1>9, <2>1, <2>5, <2>6, <2>9, <2>11, <2>13, <2>14, <2>15
<1>11. CASE ~HandleMessage
  <2>1. PICK T, V : Stream(T, V)' /\ Steps(S, U, T, V)
    BY <1>4, NextStream
  <2>2. PICK Y : Y = LineOf(T, V, lock)
    OBVIOUS
  <2>3. LineSteps(X, Y)
    BY <1>1, <1>4, <1>5, <1>8, <1>11, <2>1, <2>2, StepLine
  <2>4. Y \in Seq(CoreSet) /\ (\E y : Link(Y, a, y)) /\ \A h \in Els(Y) : EndsOK(h)
    BY <1>4, <1>5, <1>7, <2>3, LinkSteps
  <2>5. Begun' /\ (Current(a)' \/ \A f : f.lastFragment => Current(f)')
    BY <1>3, <1>4, <1>11, OthersCurrent
  <2>6. dispatched' = dispatched
    BY <1>11, OthersDispatch
  <2> QED BY <1>3, <1>9, <2>1, <2>2, <2>4, <2>5, <2>6
<1> QED BY <1>10, <1>11

\* With one batch on the stream at a time, and no packet lost, what
\* sbfHandlerDispatchMessage is called with is one message from its first byte to
\* its last: mSendLock, the numbers of the fragments and the resetting of
\* mFragNum keep the pieces of two messages apart.
THEOREM MessagesIntact ==
  ASSUME OneBatch
  PROVE  Spec => []IntactUnlessLost
<1>1. Init => Types /\ IntactInv
  <2>1. ASSUME Init PROVE IntactInv
    <3>1. PICK B : StreamOf(<< >>, B, wire, mBuffers) /\ \A b \in Batches : B[b] = << >>
      BY <2>1, InitTypes
    <3>2. PICK U : U = [x \in Senders |-> << >>]
      OBVIOUS
    <3>3. << >> \in Seq(CoreSet) /\ << >> \o << >> = << >>
      OBVIOUS
    <3>4. U \in [Senders -> Seq(CoreSet)] /\ \A x \in Senders : U[x] = << >>
      BY <3>2, <3>3
    <3>5. input = << >> /\ dispatched = << >> /\ \A p \in Pubs : job[p] = << >>
      BY <2>1 DEF Init
    <3>6. Stream(<< >>, U)
      <4>1. Joined(<< >>, U, << >>, B, input, job)
        BY <3>1, <3>3, <3>4, <3>5, CoresEmpty DEF Joined, Senders
      <4> QED BY <3>1, <4>1 DEF Stream
    <3>7. LineOf(<< >>, U, mSendLock) = << >>
      <4>1. Rest(U) = << >>
        BY <3>4 DEF Rest, Senders
      <4>2. mSendLock = NULL
        BY <2>1 DEF Init
      <4> QED BY <3>3, <4>1, <4>2 DEF LineOf
    <3>8. PICK a : a = [lastFragment |-> TRUE]
      OBVIOUS
    <3>9. mFragNum = 0 /\ mFragData = << >>
      BY <2>1 DEF Init
    <3>10. Begun /\ Current(a)
      BY <3>8, <3>9 DEF Begun, Chain, Current
    <3>11. Link(<< >>, a, a) /\ Els(<< >>) = {}
      BY LinkEmpty, ElsEmpty
    <3>12. DOMAIN dispatched = {}
      BY <3>5
    <3> QED BY <3>6, <3>7, <3>10, <3>11, <3>12 DEF IntactInv
  <2> QED BY <2>1, InitTypes
<1>2. Types /\ IntactInv /\ [Next]_vars => Types' /\ IntactInv'
  BY NextTypes, NextIntact
<1>3. IntactInv => IntactUnlessLost
  BY DEF IntactInv, IntactUnlessLost
<1> QED BY <1>1, <1>2, <1>3, PTL DEF Spec
=============================================================================
