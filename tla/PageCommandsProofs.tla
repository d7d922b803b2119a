------------------------- MODULE PageCommandsProofs -------------------------
(***************************************************************************)
(* What module PageCommands promises of a base, for every set of types,    *)
(* templates, type directories and inputs.                                 *)
(***************************************************************************)
EXTENDS PageCommands, SequenceTheorems, WellFoundedInduction, TLAPS

IInv == TypeOK /\ RecordsFollowPages /\ GateHolds /\ StrayEntryHasCause

-----------------------------------------------------------------------------
(* Induction.  A set of naturals that is not empty has a least element; the *)
(* inductions below are over sets, so that the provers can instantiate them. *)

Below == {ss \in Nat \X Nat : ss[1] < ss[2]}

LEMMA LeastNat ==
    ASSUME NEW T, T \subseteq Nat, T # {}
    PROVE  \E n \in T : \A m \in T : n <= m
<1>1. IsWellFoundedOn(Below, Nat)
  BY NatLessThanWellFounded DEF OpToRel, Below
<1>2. PICK n \in T : \A m \in T : ~(<<m, n>> \in Below)
  BY <1>1, WFMin
<1>3. ASSUME NEW m \in T, ~(n <= m) PROVE FALSE
  <2>1. <<m, n>> \in Nat \X Nat /\ <<m, n>>[1] < <<m, n>>[2]
    BY <1>3
  <2>2. <<m, n>> \in Below
    BY <2>1 DEF Below
  <2> QED
    BY <1>2, <2>2
<1> QED
  BY <1>3

LEMMA Induction ==
    ASSUME NEW S, 0 \in S, \A n \in Nat : n \in S => n + 1 \in S
    PROVE  Nat \subseteq S
<1> DEFINE B == {n \in Nat : n \notin S}
<1>1. SUFFICES ASSUME B # {} PROVE FALSE
  OBVIOUS
<1>2. PICK n \in B : \A m \in B : n <= m
  BY <1>1, LeastNat
<1>3. n # 0 /\ n - 1 \in Nat /\ n - 1 \notin B
  BY <1>2
<1> QED
  BY <1>2, <1>3

LEMMA MinOfNats ==
    ASSUME NEW T, T \subseteq Nat, T # {}
    PROVE  Min(T) \in T /\ \A m \in T : Min(T) <= m
<1>1. \E n \in T : \A m \in T : n <= m
  BY LeastNat
<1> QED
  BY <1>1 DEF Min

-----------------------------------------------------------------------------
(* What Picked returns.                                                    *)

\* The steps of a recursion: f[n] from n and f[n - 1], for n up to N.
Obeys(f, N, S, b, G) ==
    /\ f \in [0 .. N -> S]
    /\ f[0] = b
    /\ \A n \in 1 .. N : f[n] = G[<<n, f[n - 1]>>]

\* A recursion over the first N numbers has a solution.
LEMMA Recursion ==
    ASSUME NEW N \in Nat, NEW S, NEW b \in S, NEW G \in [(1 .. N) \X S -> S]
    PROVE  \E f : Obeys(f, N, S, b, G)
<1> DEFINE Good(m, f) == f[0] = b /\ \A n \in 1 .. m : f[n] = G[<<n, f[n - 1]>>]
           Built == {m \in Nat : m <= N => \E f \in [0 .. m -> S] : Good(m, f)}
<1>1. 0 \in Built
  <2>1. [n \in 0 .. 0 |-> b] \in [0 .. 0 -> S] /\ Good(0, [n \in 0 .. 0 |-> b])
    OBVIOUS
  <2> QED
    BY <2>1
<1>2. ASSUME NEW m \in Nat, m \in Built PROVE m + 1 \in Built
  <2> SUFFICES ASSUME m + 1 <= N PROVE \E f \in [0 .. m + 1 -> S] : Good(m + 1, f)
    OBVIOUS
  <2>1. PICK f \in [0 .. m -> S] : Good(m, f)
    BY <1>2
  <2> DEFINE g == [n \in 0 .. m + 1 |-> IF n = m + 1 THEN G[<<m + 1, f[m]>>] ELSE f[n]]
  <2>2. f[m] \in S /\ <<m + 1, f[m]>> \in (1 .. N) \X S
    OBVIOUS
  <2>3. G[<<m + 1, f[m]>>] \in S
    BY <2>2
  <2>4. g \in [0 .. m + 1 -> S]
    BY <2>3
  <2>5. g[0] = b
    BY <2>1
  <2>6. g[m + 1] = G[<<m + 1, g[m]>>] /\ \A n \in 0 .. m : g[n] = f[n]
    <3>1. \A n \in 0 .. m : g[n] = f[n]
      OBVIOUS
    <3>2. g[m + 1] = G[<<m + 1, f[m]>>] /\ m \in 0 .. m
      OBVIOUS
    <3> HIDE DEF g
    <3> QED
      BY <3>1, <3>2
  <2> HIDE DEF g
  <2>7. ASSUME NEW n \in 1 .. m + 1 PROVE g[n] = G[<<n, g[n - 1]>>]
    <3>1. CASE n = m + 1
      BY <2>6, <3>1
    <3>2. CASE n # m + 1
      <4>1. n \in 1 .. m /\ n \in 0 .. m /\ n - 1 \in 0 .. m
        BY <3>2
      <4> QED
        BY <2>1, <2>6, <4>1
    <3> QED
      BY <3>1, <3>2
  <2> QED
    BY <2>4, <2>5, <2>7
<1> HIDE DEF Built
<1>3. Nat \subseteq Built
  BY <1>1, <1>2, Induction
<1>4. PICK f \in [0 .. N -> S] : Good(N, f)
  BY <1>3 DEF Built
<1> QED
  BY <1>4 DEF Obeys

\* One step of Picked, as an operator of the values so far.
UpTo(seq, keep, f) ==
    [n \in 0 .. Len(seq) |->
        IF n = 0 THEN <<>>
        ELSE IF n \in keep THEN Append(f[n - 1], seq[n]) ELSE f[n - 1]]

\* What Picked builds after n elements, for n up to the length.
LEMMA PickedUpTo ==
    ASSUME NEW T, NEW seq \in Seq(T), NEW keep
    PROVE  \E h \in [0 .. Len(seq) -> Seq(T)] :
              /\ Picked(seq, keep) = h[Len(seq)]
              /\ h[0] = <<>>
              /\ \A n \in 1 .. Len(seq) :
                    h[n] = IF n \in keep THEN Append(h[n - 1], seq[n]) ELSE h[n - 1]
<1> DEFINE N == Len(seq)
           G == [x \in (1 .. N) \X Seq(T) |-> IF x[1] \in keep THEN Append(x[2], seq[x[1]]) ELSE x[2]]
           h == CHOOSE f : f = UpTo(seq, keep, f)
<1>1. N \in Nat /\ <<>> \in Seq(T) /\ \A n \in 1 .. N : seq[n] \in T
  OBVIOUS
<1>2. G \in [(1 .. N) \X Seq(T) -> Seq(T)]
  OBVIOUS
<1>3. \A n \in 1 .. N, s \in Seq(T) : G[<<n, s>>] = IF n \in keep THEN Append(s, seq[n]) ELSE s
  OBVIOUS
<1> HIDE DEF G, N
<1>4. PICK f \in [0 .. N -> Seq(T)] : f[0] = <<>> /\ \A n \in 1 .. N : f[n] = G[<<n, f[n - 1]>>]
  <2>1. PICK f : Obeys(f, N, Seq(T), <<>>, G)
    BY <1>1, <1>2, Recursion
  <2> QED
    BY <2>1 DEF Obeys
<1>5. ASSUME NEW n \in 0 .. N
      PROVE  f[n] = IF n = 0 THEN <<>>
                    ELSE IF n \in keep THEN Append(f[n - 1], seq[n]) ELSE f[n - 1]
  <2>1. CASE n = 0
    BY <1>4, <2>1
  <2>2. CASE n # 0
    <3>1. n \in 1 .. N /\ f[n - 1] \in Seq(T)
      BY <1>1, <2>2
    <3> QED
      BY <1>3, <1>4, <2>2, <3>1
  <2> QED
    BY <2>1, <2>2
<1>6. f = UpTo(seq, keep, f)
  BY <1>5 DEF UpTo, N
<1>7. h = UpTo(seq, keep, h)
  BY <1>6
<1>8. Picked(seq, keep) = h[Len(seq)]
  BY DEF Picked, UpTo
<1> HIDE DEF h
<1>9. \A n \in 0 .. N : h[n] = IF n = 0 THEN <<>>
                               ELSE IF n \in keep THEN Append(h[n - 1], seq[n]) ELSE h[n - 1]
  BY <1>7 DEF UpTo, N
<1> DEFINE Typed == {n \in Nat : n <= N => h[n] \in Seq(T)}
<1>10. h[0] = <<>> /\ 0 \in Typed
  <2>1. 0 \in 0 .. N
    BY <1>1
  <2>2. h[0] = <<>>
    BY <1>9, <2>1
  <2> QED
    BY <1>1, <2>2
<1>11. ASSUME NEW n \in Nat, n \in Typed PROVE n + 1 \in Typed
  <2> SUFFICES ASSUME n + 1 <= N PROVE h[n + 1] \in Seq(T)
    OBVIOUS
  <2>1. h[n] \in Seq(T) /\ seq[n + 1] \in T
    BY <1>1, <1>11
  <2>2. h[n + 1] = IF n + 1 \in keep THEN Append(h[n], seq[n + 1]) ELSE h[n]
    BY <1>1, <1>9
  <2> QED
    BY <2>1, <2>2
<1> HIDE DEF Typed
<1>12. Nat \subseteq Typed
  BY <1>10, <1>11, Induction
<1>13. \A n \in 0 .. N : h[n] \in Seq(T)
  BY <1>1, <1>12 DEF Typed
<1>14. h \in [0 .. Len(seq) -> Seq(T)]
  BY <1>7, <1>13 DEF UpTo, N
<1>15. \A n \in 1 .. Len(seq) : h[n] = IF n \in keep THEN Append(h[n - 1], seq[n]) ELSE h[n - 1]
  BY <1>1, <1>9 DEF N
<1> QED
  BY <1>8, <1>10, <1>14, <1>15

\* The elements of what is picked are elements at kept positions, and when the
\* last position is kept, its element ends it.
LEMMA PickedElements ==
    ASSUME NEW T, NEW seq \in Seq(T), NEW keep
    PROVE  /\ Picked(seq, keep) \in Seq(T)
           /\ \A k \in 1 .. Len(Picked(seq, keep)) :
                 \E j \in 1 .. Len(seq) : j \in keep /\ Picked(seq, keep)[k] = seq[j]
           /\ Len(seq) \in keep /\ Len(seq) # 0 =>
                 /\ Picked(seq, keep) # <<>>
                 /\ Picked(seq, keep)[Len(Picked(seq, keep))] = seq[Len(seq)]
<1> DEFINE N == Len(seq)
<1>1. PICK h \in [0 .. N -> Seq(T)] :
         /\ Picked(seq, keep) = h[N]
         /\ h[0] = <<>>
         /\ \A n \in 1 .. N : h[n] = IF n \in keep THEN Append(h[n - 1], seq[n]) ELSE h[n - 1]
  BY PickedUpTo
<1>2. N \in Nat /\ \A n \in 1 .. N : seq[n] \in T
  OBVIOUS
<1> HIDE DEF N
<1> DEFINE FromKept(s) == \A k \in 1 .. Len(s) : \E j \in 1 .. N : j \in keep /\ s[k] = seq[j]
           Good == {n \in Nat : n <= N => FromKept(h[n])}
<1>3. 0 \in Good
  BY <1>1
<1>4. ASSUME NEW n \in Nat, n \in Good PROVE n + 1 \in Good
  <2> SUFFICES ASSUME n + 1 <= N PROVE FromKept(h[n + 1])
    OBVIOUS
  <2>1. n + 1 \in 1 .. N /\ h[n] \in Seq(T) /\ seq[n + 1] \in T /\ FromKept(h[n])
    BY <1>2, <1>4
  <2>2. h[n + 1] = IF n + 1 \in keep THEN Append(h[n], seq[n + 1]) ELSE h[n]
    BY <1>1, <2>1
  <2> QED
    BY <2>1, <2>2, AppendProperties
<1> HIDE DEF Good
<1>5. Nat \subseteq Good
  BY <1>3, <1>4, Induction
<1>6. FromKept(h[N])
  BY <1>2, <1>5 DEF Good
<1>7. N \in keep /\ N # 0 => h[N] # <<>> /\ h[N][Len(h[N])] = seq[N]
  <2> SUFFICES ASSUME N \in keep, N # 0 PROVE h[N] # <<>> /\ h[N][Len(h[N])] = seq[N]
    OBVIOUS
  <2>1. N \in 1 .. N /\ h[N - 1] \in Seq(T) /\ seq[N] \in T
    BY <1>2
  <2>2. h[N] = Append(h[N - 1], seq[N])
    BY <1>1, <2>1
  <2> HIDE DEF FromKept
  <2> QED
    BY <2>1, <2>2, AppendProperties
<1>8. h[N] \in Seq(T)
  BY <1>2
<1> QED
  BY <1>1, <1>6, <1>7, <1>8 DEF N

-----------------------------------------------------------------------------
(* Paths that were cleaned, and what is left of a path below a directory.  *)

\* filepath.Clean of a path: "." goes, and the name of a file stays.
LEMMA CleanPath ==
    ASSUME NEW S, NEW s \in Seq(S)
    PROVE  /\ Clean(s) \in Seq(S)
           /\ "." \notin ToSet(Clean(s)) /\ ToSet(Clean(s)) \subseteq ToSet(s)
           /\ "." \notin ToSet(s) => Clean(s) = s
           /\ s # <<>> /\ Last(s) # "." => Clean(s) # <<>> /\ Last(Clean(s)) = Last(s)
<1>1. Len(s) \in Nat /\ DOMAIN s = 1 .. Len(s) /\ (s # <<>> => Len(s) # 0)
  BY LenProperties, EmptySeq
<1>2. CASE "." \notin ToSet(s)
  BY <1>2 DEF Clean
<1>3. CASE "." \in ToSet(s)
  <2> DEFINE keep == {k \in DOMAIN s : s[k] # "."}
             c == Picked(s, keep)
  <2>1. Clean(s) = c
    BY <1>3 DEF Clean
  <2>2. \A k \in keep : s[k] # "."
    OBVIOUS
  <2>3. s # <<>> /\ Last(s) # "." => Len(s) \in keep
    BY <1>1 DEF Last
  <2> HIDE DEF keep
  <2>4. /\ c \in Seq(S)
        /\ \A k \in 1 .. Len(c) : \E j \in 1 .. Len(s) : j \in keep /\ c[k] = s[j]
        /\ Len(s) \in keep /\ Len(s) # 0 => c # <<>> /\ c[Len(c)] = s[Len(s)]
    BY PickedElements
  <2> HIDE DEF c
  <2>5. DOMAIN c = 1 .. Len(c)
    BY <2>4, LenProperties
  <2>6. "." \notin ToSet(c) /\ ToSet(c) \subseteq ToSet(s)
    <3> SUFFICES ASSUME NEW x \in ToSet(c) PROVE x # "." /\ x \in ToSet(s)
      OBVIOUS
    <3>1. PICK k \in 1 .. Len(c) : x = c[k]
      BY <2>5 DEF ToSet
    <3>2. PICK j \in 1 .. Len(s) : j \in keep /\ x = s[j]
      BY <2>4, <3>1
    <3> QED
      BY <1>1, <2>2, <3>2 DEF ToSet
  <2>7. s # <<>> /\ Last(s) # "." => c # <<>> /\ Last(c) = Last(s)
    BY <1>1, <2>3, <2>4 DEF Last
  <2> QED
    BY <1>3, <2>1, <2>4, <2>6, <2>7
<1> QED
  BY <1>2, <1>3

\* What strings.TrimPrefix leaves of a path ends like the path, and the prefix
\* it took away leads to the path again.
LEMMA TrimmedPath ==
    ASSUME NEW D, NEW d \in Seq(D), NEW S, NEW s \in Seq(S), s # <<>>
    PROVE  /\ TrimPrefix(d, s) \in Seq(S) /\ TrimPrefix(d, s) # <<>>
           /\ Last(TrimPrefix(d, s)) = Last(s)
           /\ ToSet(TrimPrefix(d, s)) \subseteq ToSet(s)
           /\ TrimPrefix(d, s) = s \/ d \o TrimPrefix(d, s) = s
<1>1. /\ Len(d) \in Nat /\ Len(s) \in Nat \ {0} /\ DOMAIN s = 1 .. Len(s)
      /\ \A k \in 1 .. Len(s) : s[k] \in S
  BY LenProperties, EmptySeq, ElementOfSeq
<1>2. CASE ~IsStrictPrefix(d, s)
  BY <1>2 DEF TrimPrefix
<1>3. CASE IsStrictPrefix(d, s)
  <2> DEFINE rest == SubSeq(s, Len(d) + 1, Len(s))
  <2>1. TrimPrefix(d, s) = rest
    BY <1>3 DEF TrimPrefix
  <2>2. Len(d) <= Len(s) /\ SubSeq(d, 1, Len(d)) = SubSeq(s, 1, Len(d)) /\ d # s
    BY <1>3 DEF IsStrictPrefix, IsPrefix
  <2>3. d = SubSeq(s, 1, Len(d))
    BY <2>2, SubSeqFull
  <2>4. Len(d) < Len(s)
    <3>1. Len(d) # Len(s)
      BY <2>2, <2>3, SubSeqFull
    <3> QED
      BY <1>1, <2>2, <3>1
  <2>5. /\ rest \in Seq(S) /\ Len(rest) = Len(s) - Len(d)
        /\ \A k \in 1 .. Len(s) - Len(d) : rest[k] = s[Len(d) + k]
    <3>1. Len(d) + 1 \in Int /\ Len(s) \in Int /\ \A k \in Len(d) + 1 .. Len(s) : s[k] \in S
      BY <1>1
    <3>2. /\ rest \in Seq(S)
          /\ Len(rest) = IF Len(d) + 1 <= Len(s) THEN Len(s) - (Len(d) + 1) + 1 ELSE 0
          /\ \A k \in 1 .. Len(s) - (Len(d) + 1) + 1 : rest[k] = s[(Len(d) + 1) + k - 1]
      BY <3>1, SubSeqProperties
    <3> HIDE DEF rest
    <3>3. Len(rest) = Len(s) - Len(d)
      <4>1. Len(d) + 1 <= Len(s) /\ Len(s) - (Len(d) + 1) + 1 = Len(s) - Len(d)
        BY <1>1, <2>4
      <4> QED
        BY <3>2, <4>1
    <3>4. ASSUME NEW k \in 1 .. Len(s) - Len(d) PROVE rest[k] = s[Len(d) + k]
      <4>1. k \in 1 .. Len(s) - (Len(d) + 1) + 1 /\ (Len(d) + 1) + k - 1 = Len(d) + k
        BY <1>1
      <4>2. rest[k] = s[(Len(d) + 1) + k - 1]
        BY <3>2, <4>1
      <4> QED
        BY <4>1, <4>2
    <3> QED
      BY <3>2, <3>3, <3>4
  <2>6. d \o rest = s
    <3>1. Len(d) \in 1 - 1 .. Len(s) /\ 1 \in 1 .. Len(s) + 1 /\ Len(s) \in Len(d) .. Len(s)
      BY <1>1, <2>4
    <3>2. SubSeq(s, 1, Len(d)) \o rest = SubSeq(s, 1, Len(s))
      BY <3>1, ConcatAdjacentSubSeq
    <3> QED
      BY <2>3, <3>2, SubSeqFull
  <2> HIDE DEF rest
  <2>7. rest # <<>> /\ Last(rest) = Last(s)
    <3>1. Len(rest) \in 1 .. Len(s) - Len(d) /\ Len(d) + Len(rest) = Len(s)
      BY <1>1, <2>4, <2>5
    <3>2. rest[Len(rest)] = s[Len(s)]
      BY <2>5, <3>1
    <3>3. rest # <<>>
      BY <3>1, <2>5, EmptySeq
    <3> QED
      BY <3>2, <3>3 DEF Last
  <2>8. ToSet(rest) \subseteq ToSet(s)
    <3>1. DOMAIN rest = 1 .. Len(s) - Len(d)
      BY <2>5, LenProperties
    <3>2. \A k \in 1 .. Len(s) - Len(d) : Len(d) + k \in 1 .. Len(s)
      BY <1>1
    <3> QED
      BY <1>1, <2>5, <3>1, <3>2 DEF ToSet
  <2> QED
    BY <2>1, <2>5, <2>6, <2>7, <2>8
<1> QED
  BY <1>2, <1>3

LEMMA JoinedPath ==
    ASSUME NEW S, NEW d \in Seq(S), NEW s \in Seq(S), s # <<>>
    PROVE  /\ d \o s \in Seq(S) /\ d \o s # <<>> /\ Last(d \o s) = Last(s)
           /\ ToSet(d \o s) = ToSet(d) \cup ToSet(s)
<1>1. /\ Len(d) \in Nat /\ Len(s) \in Nat \ {0}
      /\ DOMAIN s = 1 .. Len(s) /\ DOMAIN d = 1 .. Len(d)
  BY LenProperties, EmptySeq
<1>2. /\ d \o s \in Seq(S) /\ Len(d \o s) = Len(d) + Len(s)
      /\ \A k \in 1 .. Len(d) + Len(s) :
            (d \o s)[k] = IF k <= Len(d) THEN d[k] ELSE s[k - Len(d)]
  BY ConcatProperties
<1> DEFINE j == d \o s
<1> HIDE DEF j
<1>3. j \in Seq(S) /\ Len(j) = Len(d) + Len(s) /\ DOMAIN j = 1 .. Len(d) + Len(s)
  BY <1>2, LenProperties DEF j
<1>4. \A k \in 1 .. Len(d) + Len(s) : j[k] = IF k <= Len(d) THEN d[k] ELSE s[k - Len(d)]
  BY <1>2 DEF j
<1>5. j # <<>> /\ Last(j) = Last(s)
  <2>1. Len(j) \in 1 .. Len(d) + Len(s) /\ ~(Len(j) <= Len(d)) /\ Len(j) - Len(d) = Len(s)
    BY <1>1, <1>3
  <2>2. j[Len(j)] = s[Len(s)]
    BY <1>4, <2>1
  <2>3. j # <<>>
    BY <1>3, <2>1, EmptySeq
  <2> QED
    BY <2>2, <2>3 DEF Last
<1>6. \A k \in 1 .. Len(d) : k \in 1 .. Len(d) + Len(s) /\ j[k] = d[k]
  BY <1>1, <1>4
<1>7. \A k \in 1 .. Len(s) : Len(d) + k \in 1 .. Len(d) + Len(s) /\ j[Len(d) + k] = s[k]
  BY <1>1, <1>4
<1>8. \A k \in 1 .. Len(d) + Len(s) : j[k] \in ToSet(d) \cup ToSet(s)
  <2> SUFFICES ASSUME NEW k \in 1 .. Len(d) + Len(s) PROVE j[k] \in ToSet(d) \cup ToSet(s)
    OBVIOUS
  <2>1. k \in 1 .. Len(d) \/ k - Len(d) \in 1 .. Len(s)
    BY <1>1
  <2>2. CASE k \in 1 .. Len(d)
    BY <1>1, <1>6, <2>2 DEF ToSet
  <2>3. CASE k - Len(d) \in 1 .. Len(s)
    <3>1. j[k] = s[k - Len(d)]
      BY <1>1, <1>4, <2>3
    <3> QED
      BY <1>1, <2>3, <3>1 DEF ToSet
  <2> QED
    BY <2>1, <2>2, <2>3
<1>9. ToSet(j) = ToSet(d) \cup ToSet(s)
  <2>1. ToSet(j) \subseteq ToSet(d) \cup ToSet(s)
    BY <1>3, <1>8 DEF ToSet
  <2>2. ToSet(d) \subseteq ToSet(j)
    BY <1>1, <1>3, <1>6 DEF ToSet
  <2>3. ToSet(s) \subseteq ToSet(j)
    BY <1>1, <1>3, <1>7 DEF ToSet
  <2> QED
    BY <2>1, <2>2, <2>3
<1> QED
  BY <1>3, <1>5, <1>9 DEF j

-----------------------------------------------------------------------------
(* What an input addresses.                                                *)

\* strings.TrimPrefix returns what it is given, or the rest of it.
LEMMA TrimPrefixType ==
    ASSUME NEW d, Len(d) \in Nat, NEW i \in Seq(STRING)
    PROVE  /\ TrimPrefix(d, i) \in Seq(STRING)
           /\ Len(d) = 0 => TrimPrefix(d, i) = i
<1>1. Len(i) \in Nat /\ \A k \in Len(d) + 1 .. Len(i) : i[k] \in STRING
  BY LenProperties, ElementOfSeq
<1>2. SubSeq(i, Len(d) + 1, Len(i)) \in Seq(STRING)
  BY <1>1, SubSeqProperties
<1>3. Len(d) = 0 => SubSeq(i, Len(d) + 1, Len(i)) = i
  OBVIOUS
<1> QED
  BY <1>2, <1>3 DEF TrimPrefix

\* The file a full write goes to and the key of its rows, which write.go
\* computes apart, are one path.
LEMMA OneKey ==
    ASSUME NEW i \in Inputs, NEW dir \in Seq(STRING)
    PROVE  WriteKey(i, dir) = WriteTarget(i, dir)
<1>1. i \in Seq(STRING)
  BY PageCommandsAssumption
<1>2. BelowKB(i) \in Seq(STRING)
  <2>1. Len(<<"kb">>) \in Nat
    OBVIOUS
  <2> QED
    BY <1>1, <2>1, TrimPrefixType DEF BelowKB
<1>3. dir = <<>> => dir \o TrimPrefix(dir, BelowKB(i)) = BelowKB(i)
  BY <1>2, TrimPrefixType, ConcatEmptySeq
<1> QED
  BY <1>3 DEF WriteKey, WriteTarget, Named

-----------------------------------------------------------------------------
(* The actions, in groups that change the same state.                      *)

LEMMA InitIInv == Init => IInv
<1> SUFFICES ASSUME Init PROVE IInv
  OBVIOUS
<1>1. Pages = {} /\ DOMAIN rows = {}
  BY DEF Init, Pages
<1>2. TypeOK
  BY <1>1 DEF Init, TypeOK
<1>3. RecordsFollowPages
  BY <1>1 DEF Init, RecordsFollowPages, Pages
<1> QED
  BY <1>2, <1>3 DEF Init, IInv, GateHolds, StrayEntryHasCause

\* A page is stored under one key, having passed the gate or with the gate of
\* before: Write, Update, Append_ and Approve.
LEMMA StoreKeeps ==
    ASSUME IInv, NEW p, NEW f \in Page, Store(p, p, f),
           checked' \in {checked, checked \cup {p}},
           p \in checked' => Known(f.type) /\ Complete(f),
           last' # None => last'.input \in Inputs /\ last'.page \in Pages \cup {p}
    PROVE  IInv'
<1> USE DEF IInv
<1>1. /\ page' = [q \in Pages \cup {p} |-> IF q = p THEN f ELSE page[q]]
      /\ rows' = [q \in DOMAIN rows \cup {p} |-> IF q = p THEN f.type ELSE rows[q]]
      /\ UNCHANGED <<template, entries, strays>>
  BY DEF Store, With, Pages
<1>2. Pages' = Pages \cup {p}
  BY <1>1 DEF Pages
<1>3. DOMAIN rows = Pages /\ \A q \in Pages : rows[q] = page[q].type
  BY DEF RecordsFollowPages
<1>4. f.type \in Types /\ \A q \in Pages : page[q] \in Page /\ page[q].type \in Types
  BY DEF TypeOK, Page
<1>5. RecordsFollowPages'
  <2>1. rows' = [q \in Pages \cup {p} |-> page'[q].type]
    BY <1>1, <1>3
  <2> QED
    BY <1>2, <2>1 DEF RecordsFollowPages
<1>6. page' \in [Pages' -> Page]
  BY <1>1, <1>2, <1>4
<1>7. TypeOK'
  BY <1>1, <1>2, <1>3, <1>4, <1>6 DEF TypeOK
<1>8. GateHolds'
  <2>1. \A q \in checked' : q = p \/ (q \in checked /\ q \in Pages /\ page'[q] = page[q])
    <3>1. checked \subseteq Pages
      BY DEF TypeOK
    <3> QED
      BY <1>1, <3>1
  <2>2. \A q \in checked : Known(page[q].type) /\ Complete(page[q])
    BY DEF GateHolds
  <2>3. p \in Pages' /\ page'[p] = f
    BY <1>1, <1>2
  <2> QED
    BY <1>1, <2>1, <2>2, <2>3 DEF GateHolds, Known, Complete
<1>9. StrayEntryHasCause'
  BY <1>1, <1>2 DEF StrayEntryHasCause
<1> QED
  BY <1>5, <1>7, <1>8, <1>9

LEMMA WriteKeeps ==
    ASSUME IInv, NEW i \in Inputs, Write(i)
    PROVE  IInv'
<1>1. PICK f \in Page :
         /\ Gate(f, f)
         /\ LET dir == template[f.type].dir
                p == WriteTarget(i, dir)
            IN  /\ Store(p, WriteKey(i, dir), f)
                /\ checked' = checked \cup {p}
                /\ last' = [input |-> i, page |-> p]
  BY DEF Write
<1> DEFINE dir == template[f.type].dir
           p == WriteTarget(i, dir)
<1>2. f.type \in Types /\ template[f.type] \in Template
  BY <1>1 DEF IInv, TypeOK, Page, Gate, Known
<1>3. dir \in Seq(STRING)
  BY <1>2 DEF Template
<1>4. WriteKey(i, dir) = p
  BY <1>3, OneKey
<1> HIDE DEF p
<1>5. Store(p, p, f) /\ checked' = checked \cup {p} /\ last' = [input |-> i, page |-> p]
  BY <1>1, <1>4 DEF p
<1>6. Known(f.type) /\ Complete(f)
  BY <1>1 DEF Gate
<1> QED
  BY <1>5, <1>6, StoreKeeps

LEMMA UpdateKeeps ==
    ASSUME IInv, NEW i \in Inputs, Update(i)
    PROVE  IInv'
<1>1. PICK p \in Pages, f \in Page :
         Gate(page[p], f) /\ Store(p, p, f) /\ checked' = checked \cup {p}
  BY DEF Update
<1>2. last' = last /\ Known(f.type) /\ Complete(f)
  BY <1>1 DEF Update, Gate
<1>3. last' # None => last'.input \in Inputs /\ last'.page \in Pages \cup {p}
  BY <1>2 DEF IInv, TypeOK
<1> QED
  BY <1>1, <1>2, <1>3, StoreKeeps

LEMMA AppendKeeps ==
    ASSUME IInv, NEW i \in Inputs, Append_(i)
    PROVE  IInv'
<1>1. PICK p \in Pages :
         /\ Store(p, p, page[p]) /\ checked' = checked \cup {p} /\ last' = last
         /\ Known(page[p].type) /\ Complete(page[p])
  BY DEF Append_, Gate
<1>2. page[p] \in Page /\ (last' # None => last'.input \in Inputs /\ last'.page \in Pages \cup {p})
  BY <1>1 DEF IInv, TypeOK
<1> QED
  BY <1>1, <1>2, StoreKeeps

\* An approval changes neither the type nor the fields the gate looks at.
LEMMA ApproveKeeps ==
    ASSUME IInv, NEW i \in Inputs, Approve(i)
    PROVE  IInv'
<1> DEFINE p == Named(i)
           f == [page[p] EXCEPT !.draft = FALSE]
<1>1. p \in Pages /\ Store(p, p, f) /\ checked' = checked /\ last' = last
  BY DEF Approve
<1>2. page[p] \in Page
  BY <1>1 DEF IInv, TypeOK
<1>3. f \in Page /\ f.type = page[p].type /\ f.has = page[p].has
  BY <1>2 DEF Page
<1>4. p \in checked => Known(f.type) /\ Complete(f)
  BY <1>3 DEF IInv, GateHolds, Complete
<1>5. last' # None => last'.input \in Inputs /\ last'.page \in Pages \cup {p}
  BY <1>1 DEF IInv, TypeOK
<1> HIDE DEF p, f
<1> QED
  BY <1>1, <1>3, <1>4, <1>5, StoreKeeps

LEMMA DeleteKeeps ==
    ASSUME IInv, NEW i \in Inputs, Delete(i)
    PROVE  IInv'
<1> USE DEF IInv
<1> DEFINE p == Named(i)
<1>1. /\ page' = [q \in Pages \ {p} |-> page[q]]
      /\ rows' = [q \in DOMAIN rows \ {p} |-> rows[q]]
      /\ entries' = entries \ {p} /\ strays' = strays \ {p} /\ checked' = checked \ {p}
      /\ last' = IF last # None /\ last.page = p THEN None ELSE last
      /\ template' = template
  BY DEF Delete, Without, Pages, EntriesWithout
<1> HIDE DEF p
<1>2. Pages' = Pages \ {p}
  BY <1>1 DEF Pages
<1>3. DOMAIN rows = Pages /\ \A q \in Pages : rows[q] = page[q].type
  BY DEF RecordsFollowPages
<1>4. RecordsFollowPages'
  <2>1. rows' = [q \in Pages \ {p} |-> page'[q].type]
    BY <1>1, <1>3
  <2> QED
    BY <1>2, <2>1 DEF RecordsFollowPages
<1>5. TypeOK'
  <2>1. page' \in [Pages' -> Page] /\ checked' \subseteq Pages'
    BY <1>1, <1>2 DEF TypeOK
  <2>2. \A q \in DOMAIN rows' : rows'[q] \in Types
    BY <1>1 DEF TypeOK
  <2>3. last' # None => last'.input \in Inputs /\ last'.page \in Pages'
    BY <1>1, <1>2 DEF TypeOK
  <2> QED
    BY <1>1, <2>1, <2>2, <2>3 DEF TypeOK
<1>6. GateHolds'
  <2>1. \A q \in checked' : q \in checked /\ page'[q] = page[q]
    BY <1>1 DEF TypeOK
  <2> QED
    BY <1>1, <2>1 DEF GateHolds, Known, Complete
<1>7. StrayEntryHasCause'
  BY <1>1, <1>2 DEF StrayEntryHasCause
<1> QED
  BY <1>4, <1>5, <1>6, <1>7

\* The index commands change entries, and a rebuild the rows.
LEMMA IndexKeeps ==
    ASSUME IInv, (\E i \in Inputs : IndexAdd(i) \/ IndexRemove(i)) \/ IndexRebuild
    PROVE  IInv'
<1> USE DEF IInv
<1>1. UNCHANGED <<template, page, checked, last>> /\ rows' = rows
  BY DEF IndexAdd, IndexRemove, IndexRebuild, RecordsFollowPages
<1>2. Pages' = Pages
  BY <1>1 DEF Pages
<1>3. TypeOK' /\ RecordsFollowPages' /\ GateHolds'
  BY <1>1, <1>2 DEF TypeOK, RecordsFollowPages, GateHolds, Known, Complete
<1>4. StrayEntryHasCause'
  BY <1>2 DEF StrayEntryHasCause, IndexAdd, IndexRemove, IndexRebuild, EntriesWithout
<1> QED
  BY <1>3, <1>4

\* A template that changes takes the pages of its type out of what was checked.
LEMMA TemplateKeeps ==
    ASSUME IInv, NEW t \in Types, TemplateWrite(t) \/ TemplateDelete(t)
    PROVE  IInv'
<1> USE DEF IInv
<1>1. PICK c \in Offered[t] \cup {None} : SetTemplate(t, c)
  BY DEF TemplateWrite, TemplateDelete
<1>2. c \in Template \cup {None}
  BY PageCommandsAssumption
<1>3. /\ template' = [template EXCEPT ![t] = c]
      /\ checked' = {p \in checked : page[p].type # t}
      /\ last' = None
      /\ UNCHANGED <<page, rows, entries, strays>>
  BY <1>1 DEF SetTemplate
<1>4. Pages' = Pages
  BY <1>3 DEF Pages
<1>5. TypeOK'
  BY <1>2, <1>3, <1>4 DEF TypeOK
<1>6. \A u \in Types : u # t => template'[u] = template[u]
  BY <1>3 DEF TypeOK
<1>7. GateHolds'
  <2>1. \A p \in checked' : p \in checked /\ page'[p] = page[p] /\ page[p].type \in Types /\ page[p].type # t
    BY <1>3 DEF TypeOK, Page
  <2> QED
    BY <1>6, <2>1 DEF GateHolds, Known, Complete
<1>8. RecordsFollowPages' /\ StrayEntryHasCause'
  BY <1>3, <1>4 DEF RecordsFollowPages, StrayEntryHasCause
<1> QED
  BY <1>5, <1>7, <1>8

LEMMA NextKeeps == IInv /\ [Next]_vars => IInv'
<1> SUFFICES ASSUME IInv, [Next]_vars PROVE IInv'
  OBVIOUS
<1>1. ASSUME NEW i \in Inputs, Write(i) \/ Update(i) \/ Append_(i) PROVE IInv'
  BY <1>1, WriteKeeps, UpdateKeeps, AppendKeeps
<1>2. ASSUME NEW i \in Inputs, Approve(i) \/ Delete(i) PROVE IInv'
  BY <1>2, ApproveKeeps, DeleteKeeps
<1>3. ASSUME (\E i \in Inputs : IndexAdd(i) \/ IndexRemove(i)) \/ IndexRebuild PROVE IInv'
  BY <1>3, IndexKeeps
<1>4. ASSUME NEW t \in Types, TemplateWrite(t) \/ TemplateDelete(t) PROVE IInv'
  BY <1>4, TemplateKeeps
<1>5. CASE UNCHANGED vars
  BY <1>5 DEF vars, IInv, TypeOK, RecordsFollowPages, GateHolds, StrayEntryHasCause, Pages,
              Known, Complete
<1> QED
  BY <1>1, <1>2, <1>3, <1>4, <1>5 DEF Next

-----------------------------------------------------------------------------
(* What addresses a page.  A page is stored under a cleaned path whose last *)
(* name is that of a file, and the last write stored the page that its      *)
(* input leads to through a directory that is still declared.               *)

PathsAreClean ==
    \A p \in Pages : /\ p \in Seq(STRING) /\ p # <<>>
                     /\ ToSet(p) \cap {".", ".."} = {}
                     /\ Last(p) \notin Managed

LastIsTarget ==
    last # None =>
       /\ Accepted(last.input)
       /\ \E dir \in Declared : last.page = WriteTarget(last.input, dir)

AddressInv == PathsAreClean /\ LastIsTarget

\* The names in a path, and the one that akb prints before every path.
Names == STRING \cup {"kb"}
KB == <<"kb">>

LEMMA KBPath ==
    /\ KB \in Seq(Names) /\ Len(KB) = 1 /\ KB[1] = "kb" /\ ToSet(KB) = {"kb"}
    /\ \A i : BelowKB(i) = TrimPrefix(KB, i)
<1>1. \A x : Len(<<x>>) = 1 /\ <<x>>[1] = x
  OBVIOUS
<1>2. \A N : \A x \in N : <<x>> \in Seq(N)
  OBVIOUS
<1>3. Len(KB) = 1 /\ KB[1] = "kb"
  BY <1>1 DEF KB
<1>4. KB \in Seq(Names)
  BY <1>2 DEF Names, KB
<1>5. DOMAIN KB = {1}
  BY <1>3, <1>4, LenProperties
<1>6. ToSet(KB) = {"kb"}
  BY <1>3, <1>5 DEF ToSet
<1> QED
  BY <1>3, <1>4, <1>6 DEF BelowKB, KB

\* Every path that is tried for an input ends in the name that was typed.
LEMMA BelowInput ==
    ASSUME NEW i \in Inputs
    PROVE  /\ BelowKB(i) \in Seq(STRING) /\ BelowKB(i) # <<>>
           /\ Last(BelowKB(i)) = Last(i) /\ Last(i) # "."
           /\ ToSet(BelowKB(i)) \subseteq ToSet(i)
<1>1. i \in Seq(STRING) /\ i # <<>> /\ Last(i) # "."
  BY PageCommandsAssumption
<1> QED
  BY <1>1, KBPath, TrimmedPath

LEMMA Candidate ==
    ASSUME NEW i \in Inputs, NEW dir \in Seq(STRING)
    PROVE  Last(Named(i)) = Last(i) /\ Last(In(dir, i)) = Last(i)
<1>1. /\ BelowKB(i) \in Seq(STRING) /\ BelowKB(i) # <<>>
      /\ Last(BelowKB(i)) = Last(i) /\ Last(i) # "."
  BY BelowInput
<1>2. dir \o BelowKB(i) \in Seq(STRING) /\ dir \o BelowKB(i) # <<>>
      /\ Last(dir \o BelowKB(i)) = Last(BelowKB(i))
  BY <1>1, JoinedPath
<1> QED
  BY <1>1, <1>2, CleanPath DEF Named, In

\* A full write goes to the named path or to the path in the directory, the two
\* that resolveExistingPage tries for that directory.
LEMMA Target ==
    ASSUME NEW i \in Inputs, NEW dir \in Seq(STRING)
    PROVE  /\ WriteTarget(i, dir) = Named(i) \/ (dir # <<>> /\ WriteTarget(i, dir) = In(dir, i))
           /\ WriteTarget(i, dir) \in Seq(STRING) /\ WriteTarget(i, dir) # <<>>
           /\ Last(WriteTarget(i, dir)) = Last(i)
           /\ "." \notin ToSet(WriteTarget(i, dir))
           /\ ToSet(WriteTarget(i, dir)) \subseteq ToSet(dir) \cup ToSet(i)
<1> DEFINE b == BelowKB(i)
           w == TrimPrefix(dir, b)
<1>1. b \in Seq(STRING) /\ b # <<>> /\ Last(b) = Last(i) /\ Last(i) # "." /\ ToSet(b) \subseteq ToSet(i)
  BY BelowInput
<1>2. /\ w \in Seq(STRING) /\ w # <<>> /\ Last(w) = Last(b) /\ ToSet(w) \subseteq ToSet(b)
      /\ w = b \/ dir \o w = b
  BY <1>1, TrimmedPath
<1>3. WriteTarget(i, dir) = IF dir = <<>> THEN Clean(b) ELSE Clean(dir \o w)
  BY DEF WriteTarget, Named
<1>4. Named(i) = Clean(b) /\ In(dir, i) = Clean(dir \o b)
  BY DEF Named, In
<1> HIDE DEF w, b
<1>5. /\ dir \o w \in Seq(STRING) /\ dir \o w # <<>> /\ Last(dir \o w) = Last(w)
      /\ ToSet(dir \o w) = ToSet(dir) \cup ToSet(w)
  BY <1>2, JoinedPath
<1>6. WriteTarget(i, dir) = Named(i) \/ (dir # <<>> /\ WriteTarget(i, dir) = In(dir, i))
  BY <1>2, <1>3, <1>4
<1>7. PICK s \in {b, dir \o w} : WriteTarget(i, dir) = Clean(s)
  BY <1>3
<1>8. s \in Seq(STRING) /\ s # <<>> /\ Last(s) = Last(i) /\ ToSet(s) \subseteq ToSet(dir) \cup ToSet(i)
  BY <1>1, <1>2, <1>5
<1>9. /\ Clean(s) \in Seq(STRING) /\ Clean(s) # <<>> /\ Last(Clean(s)) = Last(i)
      /\ "." \notin ToSet(Clean(s)) /\ ToSet(Clean(s)) \subseteq ToSet(s)
  BY <1>1, <1>8, CleanPath
<1> QED
  BY <1>6, <1>7, <1>8, <1>9

LEMMA DeclaredDir ==
    ASSUME TypeOK, NEW dir \in Declared
    PROVE  dir \in Seq(STRING) /\ ".." \notin ToSet(dir) /\ dir \in ToSet(DirOrder) \cup {<<>>}
<1>1. PICK t \in Types : template[t] # None /\ dir = template[t].dir
  BY DEF Declared
<1>2. template[t] \in Offered[t] /\ template[t] \in Template
  BY <1>1 DEF TypeOK
<1> QED
  BY <1>1, <1>2, PageCommandsAssumption DEF Template

LEMMA WriteAddresses ==
    ASSUME IInv, AddressInv, NEW i \in Inputs, Write(i)
    PROVE  AddressInv'
<1>1. PICK f \in Page :
         /\ Gate(f, f)
         /\ LET dir == template[f.type].dir
                p == WriteTarget(i, dir)
            IN  /\ Store(p, WriteKey(i, dir), f)
                /\ last' = [input |-> i, page |-> p]
  BY DEF Write
<1> DEFINE dir == template[f.type].dir
           p == WriteTarget(i, dir)
<1>2. f.type \in Types /\ template[f.type] # None
  BY <1>1 DEF Page, Gate, Known
<1>3. dir \in Declared
  BY <1>2 DEF Declared
<1> HIDE DEF dir
<1>4. dir \in Seq(STRING) /\ ".." \notin ToSet(dir)
  BY <1>3, DeclaredDir DEF IInv
<1>5. /\ p \in Seq(STRING) /\ p # <<>> /\ Last(p) = Last(i)
      /\ "." \notin ToSet(p) /\ ToSet(p) \subseteq ToSet(dir) \cup ToSet(i)
  BY <1>4, Target
<1>6. Accepted(i) /\ Last(i) \notin Managed /\ ".." \notin ToSet(i)
  BY DEF Write, Accepted, Refused
<1> HIDE DEF p
<1>7. /\ page' = [q \in Pages \cup {p} |-> IF q = p THEN f ELSE page[q]]
      /\ last' = [input |-> i, page |-> p] /\ template' = template
  BY <1>1 DEF Store, With, Pages, p, dir
<1>8. Pages' = Pages \cup {p}
  BY <1>7 DEF Pages
<1>9. PathsAreClean'
  BY <1>4, <1>5, <1>6, <1>8 DEF AddressInv, PathsAreClean
<1>10. Declared' = Declared
  BY <1>7 DEF Declared
<1>11. LastIsTarget'
  <2>1. last'.input = i /\ last'.page = p
    BY <1>7
  <2>2. p = WriteTarget(i, dir)
    BY DEF p
  <2> QED
    BY <1>3, <1>6, <1>10, <2>1, <2>2 DEF LastIsTarget, Accepted, Refused
<1> QED
  BY <1>9, <1>11 DEF AddressInv

\* No other command adds a page, and none that changes a template keeps the
\* memory of a write.
LEMMA OthersAddress ==
    ASSUME AddressInv, Pages' \subseteq Pages,
           \/ last' = None
           \/ last' = last /\ template' = template
    PROVE  AddressInv'
<1>1. PathsAreClean'
  BY DEF AddressInv, PathsAreClean
<1>2. LastIsTarget'
  BY DEF AddressInv, LastIsTarget, Declared
<1> QED
  BY <1>1, <1>2 DEF AddressInv

LEMMA NextAddresses == IInv /\ AddressInv /\ [Next]_vars => AddressInv'
<1> SUFFICES ASSUME IInv, AddressInv, [Next]_vars PROVE AddressInv'
  OBVIOUS
<1>1. ASSUME NEW i \in Inputs, Write(i) PROVE AddressInv'
  BY <1>1, WriteAddresses
<1>2. ASSUME NEW p, NEW f, p \in Pages, Store(p, p, f), last' = last PROVE AddressInv'
  <2>1. Pages' = Pages /\ template' = template
    BY <1>2 DEF Store, With, Pages
  <2> QED
    BY <1>2, <2>1, OthersAddress
<1>3. ASSUME NEW i \in Inputs, Update(i) PROVE AddressInv'
  <2>1. PICK p \in Pages, f \in Page : Store(p, p, f)
    BY <1>3 DEF Update
  <2>2. last' = last
    BY <1>3 DEF Update
  <2> QED
    BY <1>2, <2>1, <2>2
<1>4. ASSUME NEW i \in Inputs, Append_(i) PROVE AddressInv'
  <2>1. PICK p \in Pages : Store(p, p, page[p]) /\ last' = last
    BY <1>4 DEF Append_
  <2> QED
    BY <1>2, <2>1
<1>5. ASSUME NEW i \in Inputs, Approve(i) PROVE AddressInv'
  BY <1>2, <1>5 DEF Approve
<1>6. ASSUME NEW i \in Inputs, Delete(i) PROVE AddressInv'
  <2>1. Pages' \subseteq Pages
    BY <1>6 DEF Delete, Without, Pages
  <2>2. last' \in {None, last} /\ template' = template
    BY <1>6 DEF Delete
  <2> QED
    BY <2>1, <2>2, OthersAddress
<1>7. ASSUME (\E i \in Inputs : IndexAdd(i) \/ IndexRemove(i)) \/ IndexRebuild PROVE AddressInv'
  <2>1. UNCHANGED <<template, page, last>>
    BY <1>7 DEF IndexAdd, IndexRemove, IndexRebuild
  <2> QED
    BY <2>1, OthersAddress DEF Pages
<1>8. ASSUME NEW t \in Types, TemplateWrite(t) \/ TemplateDelete(t) PROVE AddressInv'
  <2>1. page' = page /\ last' = None
    BY <1>8 DEF TemplateWrite, TemplateDelete, SetTemplate
  <2> QED
    BY <2>1, OthersAddress DEF Pages
<1>9. CASE UNCHANGED vars
  BY <1>9, OthersAddress DEF vars, Pages
<1> QED
  BY <1>1, <1>3, <1>4, <1>5, <1>6, <1>7, <1>8, <1>9 DEF Next

\* A stored path is what "kb" and the path lead to.
LEMMA ReportedAddresses == PathsAreClean => ReportedPathAddresses
<1> SUFFICES ASSUME PathsAreClean, NEW p \in Pages
             PROVE  LET i == KB \o p IN Accepted(i) /\ Named(i) = p /\ Resolved(i) = p
  BY DEF ReportedPathAddresses, KB
<1> DEFINE i == KB \o p
<1>1. p \in Seq(STRING) /\ p # <<>> /\ ToSet(p) \cap {".", ".."} = {} /\ Last(p) \notin Managed
  BY DEF PathsAreClean
<1>2. p \in Seq(Names)
  BY <1>1, SeqMonotonic DEF Names
<1>3. KB \in Seq(Names) /\ Len(KB) = 1 /\ ToSet(KB) = {"kb"}
  BY KBPath
<1>4. i \in Seq(Names) /\ Last(i) = Last(p) /\ ToSet(i) = {"kb"} \cup ToSet(p)
  <2>1. /\ i \in Seq(Names) /\ Last(i) = Last(p)
        /\ ToSet(i) = ToSet(KB) \cup ToSet(p)
    BY <1>1, <1>2, <1>3, JoinedPath
  <2> HIDE DEF i
  <2> QED
    BY <1>3, <2>1
<1>5. Len(p) \in Nat \ {0}
  BY <1>1, <1>2, LenProperties, EmptySeq
<1>6. /\ Len(i) = 1 + Len(p) /\ i[1] = "kb"
      /\ \A k \in 1 .. 1 + Len(p) : i[k] = IF k <= 1 THEN KB[k] ELSE p[k - 1]
  <2>1. /\ Len(i) = Len(KB) + Len(p)
        /\ \A k \in 1 .. Len(KB) + Len(p) :
              i[k] = IF k <= Len(KB) THEN KB[k] ELSE p[k - Len(KB)]
    BY <1>2, <1>3, ConcatProperties, Zenon DEF i
  <2> HIDE DEF i
  <2>2. \A k \in 1 .. 1 + Len(p) : i[k] = IF k <= 1 THEN KB[k] ELSE p[k - 1]
    BY <1>3, <2>1
  <2>3. 1 \in 1 .. 1 + Len(p) /\ KB[1] = "kb"
    BY <1>5, KBPath
  <2>4. i[1] = "kb"
    BY <2>2, <2>3
  <2> QED
    BY <1>3, <2>1, <2>2, <2>4
<1> HIDE DEF i
<1>7. BelowKB(i) = p
  <2>1. SubSeq(i, 1, 1) = SubSeq(KB, 1, 1)
    <3>1. /\ SubSeq(i, 1, 1) \in Seq(Names) /\ Len(SubSeq(i, 1, 1)) = 1
          /\ SubSeq(i, 1, 1)[1] = "kb"
      <4>1. \A k \in 1 .. 1 : i[k] \in Names
        <5>1. \A k \in 1 .. 1 : k = 1
          OBVIOUS
        <5> QED
          BY <1>6, <5>1 DEF Names
      <4>2. /\ SubSeq(i, 1, 1) \in Seq(Names)
            /\ Len(SubSeq(i, 1, 1)) = IF 1 <= 1 THEN 1 - 1 + 1 ELSE 0
            /\ \A k \in 1 .. 1 - 1 + 1 : SubSeq(i, 1, 1)[k] = i[1 + k - 1]
        BY <4>1, SubSeqProperties
      <4> QED
        BY <1>6, <4>2
    <3>2. SubSeq(KB, 1, 1) = KB
      BY <1>3, SubSeqFull
    <3>3. SubSeq(i, 1, 1) = KB
      <4>1. \A k \in 1 .. 1 : k = 1
        OBVIOUS
      <4>2. \A k \in 1 .. 1 : SubSeq(i, 1, 1)[k] = KB[k]
        BY <3>1, <4>1, KBPath
      <4> QED
        BY <1>3, <3>1, <4>2, SeqEqual
    <3> QED
      BY <3>2, <3>3
  <2>2. IsStrictPrefix(KB, i)
    <3>1. Len(KB) <= Len(i) /\ Len(KB) # Len(i)
      BY <1>3, <1>5, <1>6
    <3> QED
      BY <1>3, <2>1, <3>1 DEF IsStrictPrefix, IsPrefix
  <2>3. BelowKB(i) = SubSeq(i, 2, 1 + Len(p))
    BY <1>3, <1>6, <2>2, KBPath DEF TrimPrefix
  <2>4. SubSeq(i, 2, 1 + Len(p)) = p
    <3> DEFINE r == SubSeq(i, 2, 1 + Len(p))
    <3>1. \A k \in 2 .. 1 + Len(p) : i[k] = p[k - 1] /\ p[k - 1] \in Names
      BY <1>1, <1>2, <1>5, <1>6, ElementOfSeq
    <3>2. /\ r \in Seq(Names)
          /\ Len(r) = IF 2 <= 1 + Len(p) THEN (1 + Len(p)) - 2 + 1 ELSE 0
          /\ \A k \in 1 .. (1 + Len(p)) - 2 + 1 : r[k] = i[2 + k - 1]
      BY <1>5, <3>1, SubSeqProperties
    <3> HIDE DEF r
    <3>3. Len(r) = Len(p)
      BY <1>5, <3>2
    <3>4. ASSUME NEW k \in 1 .. Len(p) PROVE r[k] = p[k]
      <4>1. k \in 1 .. (1 + Len(p)) - 2 + 1 /\ 2 + k - 1 = k + 1 /\ k + 1 \in 2 .. 1 + Len(p) /\ k + 1 - 1 = k
        BY <1>5
      <4>2. r[k] = i[k + 1]
        BY <3>2, <4>1
      <4>3. i[k + 1] = p[k + 1 - 1]
        BY <3>1, <4>1
      <4> QED
        BY <4>1, <4>2, <4>3
    <3>5. r = p
      BY <1>1, <1>2, <3>2, <3>3, <3>4, SeqEqual
    <3> QED
      BY <3>5 DEF r
  <2> QED
    BY <2>3, <2>4
<1>8. Accepted(i)
  BY <1>1, <1>2, <1>4, <1>6 DEF Accepted, Refused
<1>9. Named(i) = p
  BY <1>1, <1>7, CleanPath DEF Named
<1>10. Resolved(i) = p
  BY <1>9 DEF Resolved
<1> QED
  BY <1>8, <1>9, <1>10 DEF i

\* Whatever resolveExistingPage tries for the input of a write ends in the same
\* name, so that it finds another page only if that name is taken twice.
LEMMA WrittenAddresses == TypeOK /\ LastIsTarget => WrittenIsAddressed
<1> SUFFICES ASSUME TypeOK, LastIsTarget, last # None,
                    \A q \in Pages \ {last.page} : Last(q) # Last(last.page)
             PROVE  Resolved(last.input) = last.page
  BY DEF WrittenIsAddressed
<1> DEFINE i == last.input
<1>1. i \in Inputs /\ last.page \in Pages
  BY DEF TypeOK
<1>2. PICK dir \in Declared : last.page = WriteTarget(i, dir)
  BY DEF LastIsTarget
<1>3. dir \in Seq(STRING) /\ dir \in ToSet(DirOrder) \cup {<<>>}
  BY DeclaredDir
<1> HIDE DEF i
<1>4. /\ last.page = Named(i) \/ (dir # <<>> /\ last.page = In(dir, i))
      /\ Last(last.page) = Last(i)
  BY <1>1, <1>2, <1>3, Target
<1>5. \A q \in Pages : Last(q) = Last(i) => q = last.page
  BY <1>4
<1>6. CASE Named(i) \in Pages
  <2>1. Last(Named(i)) = Last(i)
    BY <1>1, <1>3, Candidate
  <2> QED
    BY <1>5, <1>6, <2>1 DEF Resolved, i
<1>7. CASE Named(i) \notin Pages
  <2>1. dir # <<>> /\ In(dir, i) \in Pages
    BY <1>1, <1>4, <1>7
  <2>2. DirOrder \in Seq(Seq(STRING))
    BY PageCommandsAssumption
  <2>3. DOMAIN DirOrder \subseteq Nat /\ \A k \in DOMAIN DirOrder : DirOrder[k] \in Seq(STRING)
    BY <2>2, LenProperties, ElementOfSeq
  <2>4. PICK k \in DOMAIN DirOrder : DirOrder[k] = dir
    BY <1>3, <2>1 DEF ToSet
  <2>5. Holding(i) \subseteq Nat /\ k \in Holding(i)
    BY <2>1, <2>3, <2>4 DEF Holding
  <2>6. Min(Holding(i)) \in Holding(i)
    BY <2>5, MinOfNats
  <2>7. PICK m \in DOMAIN DirOrder : m = Min(Holding(i)) /\ In(DirOrder[m], i) \in Pages
    BY <2>6 DEF Holding
  <2>8. Last(In(DirOrder[m], i)) = Last(i)
    BY <1>1, <2>3, Candidate
  <2>9. Resolved(i) = In(DirOrder[m], i)
    BY <1>7, <2>5, <2>7 DEF Resolved
  <2> QED
    BY <1>5, <2>7, <2>8, <2>9 DEF i
<1> QED
  BY <1>6, <1>7

\* The inductive invariant of the page commands.
THEOREM PageCommandsInvariant == Spec => []IInv
<1> QED
  BY InitIInv, NextKeeps, PTL DEF Spec

\* The type invariant.
THEOREM PageCommandsType == Spec => []TypeOK
<1>1. IInv => TypeOK
  BY DEF IInv
<1> QED
  BY <1>1, PageCommandsInvariant, PTL

\* The search rows name exactly the pages, with the types they have, by
\* whatever spelling of its path a page was written, changed or deleted.
THEOREM RecordsAlwaysFollow == Spec => []RecordsFollowPages
<1>1. IInv => RecordsFollowPages
  BY DEF IInv
<1> QED
  BY <1>1, PageCommandsInvariant, PTL

\* A page that passed the gate keeps the fields its template requires, through
\* updates that change its type, appends and approvals.
THEOREM GateAlwaysHolds == Spec => []GateHolds
<1>1. IInv => GateHolds
  BY DEF IInv
<1> QED
  BY <1>1, PageCommandsInvariant, PTL

\* Only `akb index add` of a bare name puts an entry in kb/index.md that names
\* no page, and no later command loses track of it.
THEOREM StrayAlwaysHasCause == Spec => []StrayEntryHasCause
<1>1. IInv => StrayEntryHasCause
  BY DEF IInv
<1> QED
  BY <1>1, PageCommandsInvariant, PTL

\* A page is stored under a cleaned path, and the input of the last write leads
\* to the page it stored: what the addresses rest on.
THEOREM AddressInvariant == Spec => []AddressInv
<1>1. Init => AddressInv
  BY DEF Init, AddressInv, PathsAreClean, LastIsTarget, Pages
<1> QED
  BY <1>1, NextAddresses, PageCommandsInvariant, PTL DEF Spec

\* The path akb prints for a page is taken by every command and addresses that
\* page only, also below directories called kb or raw (ResolveKBPath).
THEOREM ReportedAlwaysAddresses == Spec => []ReportedPathAddresses
<1>1. AddressInv => ReportedPathAddresses
  BY ReportedAddresses DEF AddressInv
<1> QED
  BY <1>1, AddressInvariant, PTL

\* The input a page was written by addresses it in later appends and updates, as
\* long as its file name is the only one of its kind (resolveExistingPage).
THEOREM WrittenAlwaysAddressed == Spec => []WrittenIsAddressed
<1>1. TypeOK /\ AddressInv => WrittenIsAddressed
  BY WrittenAddresses DEF AddressInv
<1> QED
  BY <1>1, PageCommandsType, AddressInvariant, PTL
=============================================================================
