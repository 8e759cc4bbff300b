------------------------ MODULE PathRewritingProofs ------------------------
(***************************************************************************)
(* Theorems about PathRewriting, for every sandbox, every set of links and *)
(* arguments of any length: what reaches the server is the place that was  *)
(* meant, if it lies in the sandbox, and what was written otherwise.       *)
(***************************************************************************)
EXTENDS PathRewriting, SequenceTheorems, WellFoundedInduction, TLAPS

Parts == Names \cup {Up}

(***************************************************************************)
(* Following a path.                                                       *)
(***************************************************************************)

\* Every set of natural numbers has a least one.
LEMMA LeastNatural ==
  ASSUME NEW S, S \subseteq Nat, S # {}
  PROVE  \E m \in S : \A k \in S : m <= k
<1> DEFINE R == OpToRel(<, Nat)
<1>1. IsWellFoundedOn(R, Nat)
  BY NatLessThanWellFounded
<1>2. \A x, y \in Nat : x < y => <<x, y>> \in R
  BY DEF OpToRel
<1> HIDE DEF R
<1>3. PICK m \in S : \A k \in S : <<k, m>> \notin R
  BY <1>1, WFMin
<1>4. ASSUME NEW k \in S PROVE m <= k
  <2>1. k \in Nat /\ m \in Nat
    OBVIOUS
  <2>2. ~(k < m)
    BY <1>2, <1>3, <2>1
  <2>3. QED
    BY <2>1, <2>2
<1>5. QED
  BY <1>4

\* The places on the way along a path.
Walks(reached, parts, n) ==
    reached = [i \in 0..n |-> IF i = 0 THEN <<>> ELSE Enter(reached[i - 1], parts[i])]

\* There are such places, as far as one goes.
LEMMA WalkExists ==
  ASSUME NEW parts, NEW n \in Nat
  PROVE  \E reached : Walks(reached, parts, n)
<1> DEFINE Bad == {k \in Nat : ~\E reached : Walks(reached, parts, k)}
<1> SUFFICES ASSUME Bad # {} PROVE FALSE
  OBVIOUS
<1>1. PICK m \in Bad : \A k \in Bad : m <= k
  <2> HIDE DEF Bad
  <2>1. Bad \subseteq Nat
    BY DEF Bad
  <2>2. QED
    BY <2>1, LeastNatural
<1>2. CASE m = 0
  <2> DEFINE f == [i \in 0..0 |-> <<>>]
  <2>1. f = [i \in 0..0 |-> IF i = 0 THEN <<>> ELSE Enter(f[i - 1], parts[i])]
    OBVIOUS
  <2>2. QED
    BY <1>2, <2>1 DEF Walks
<1>3. CASE m # 0
  <2>1. m - 1 \in Nat /\ ~(m <= m - 1)
    BY <1>3
  <2>2. m - 1 \notin Bad
    BY <1>1, <2>1
  <2>3. PICK g : Walks(g, parts, m - 1)
    BY <2>1, <2>2
  <2> DEFINE f == [i \in 0..m |-> IF i = m THEN Enter(g[m - 1], parts[m]) ELSE g[i]]
  <2>4. ASSUME NEW i \in 0..m
        PROVE  f[i] = IF i = 0 THEN <<>> ELSE Enter(f[i - 1], parts[i])
    <3>1. CASE i = m
      <4>1. f[i] = Enter(g[m - 1], parts[m]) /\ f[m - 1] = g[m - 1]
        BY <2>1, <3>1
      <4>2. QED
        BY <1>3, <3>1, <4>1
    <3>2. CASE i # m
      <4>1. i \in 0..(m - 1) /\ f[i] = g[i]
        BY <3>2
      <4>2. g[i] = IF i = 0 THEN <<>> ELSE Enter(g[i - 1], parts[i])
        BY <2>3, <4>1 DEF Walks
      <4>3. i # 0 => f[i - 1] = g[i - 1]
        BY <4>1
      <4>4. QED
        BY <4>1, <4>2, <4>3
    <3>3. QED
      BY <3>1, <3>2
  <2>5. f = [i \in 0..m |-> IF i = 0 THEN <<>> ELSE Enter(f[i - 1], parts[i])]
    <3>1. f = [i \in 0..m |-> f[i]]
      OBVIOUS
    <3> HIDE DEF f
    <3>2. [i \in 0..m |-> f[i]] = [i \in 0..m |-> IF i = 0 THEN <<>> ELSE Enter(f[i - 1], parts[i])]
      BY <2>4
    <3>3. QED
      BY <3>1, <3>2
  <2>6. \E reached : Walks(reached, parts, m)
    <3> HIDE DEF f
    <3>1. QED
      BY <2>5 DEF Walks
  <2>7. QED
    BY <2>6
<1>4. QED
  BY <1>2, <1>3

\* A path leads from one of these places to the next.
LEMMA RealPathWalks ==
  ASSUME NEW parts \in Seq(Parts)
  PROVE  \E reached :
           /\ RealPath(parts) = reached[Len(parts)]
           /\ \A i \in 0..Len(parts) :
                reached[i] = IF i = 0 THEN <<>> ELSE Enter(reached[i - 1], parts[i])
<1> DEFINE reached == CHOOSE f : Walks(f, parts, Len(parts))
<1>1. Len(parts) \in Nat
  OBVIOUS
<1>2. Walks(reached, parts, Len(parts))
  BY <1>1, WalkExists
<1>3. RealPath(parts) = reached[Len(parts)]
  BY DEF RealPath, Walks
<1> HIDE DEF reached
<1>4. \A i \in 0..Len(parts) :
        reached[i] = IF i = 0 THEN <<>> ELSE Enter(reached[i - 1], parts[i])
  BY <1>2 DEF Walks
<1>5. QED
  BY <1>3, <1>4

\* Going on from a place no link is on the way to leads to such a place.
LEMMA EnterResolves ==
  ASSUME NEW place, Resolved(place), NEW part \in Parts
  PROVE  Resolved(Enter(place, part))
<1> USE PathAssumption
<1>1. place \in Seq(Names) /\ Len(place) \in Nat
  BY DEF Resolved
<1>2. CASE part = Up
  <2> DEFINE up == SubSeq(place, 1, Len(place) - 1)
  <2>1. /\ up \in Seq(Names)
        /\ Len(up) = IF 1 <= Len(place) - 1 THEN Len(place) - 1 ELSE 0
    <3>1. \A i \in 1..(Len(place) - 1) : place[i] \in Names
      BY <1>1, ElementOfSeq
    <3>2. 1 \in Int /\ Len(place) - 1 \in Int
      BY <1>1
    <3>3. QED
      BY <1>1, <3>1, <3>2, SubSeqProperties
  <2>2. ASSUME NEW n \in 1..Len(up) PROVE SubSeq(up, 1, n) \notin DOMAIN Links
    <3>1. /\ Len(place) - 1 \in 1..Len(place) /\ 1 \in 1..Len(place) /\ n \in 1..Len(place)
          /\ 1 \in 1..(Len(place) - 1 - 1 + 1) /\ n \in 1..(Len(place) - 1 - 1 + 1)
      BY <1>1, <2>1
    <3>2. SubSeq(up, 1, n) = SubSeq(place, 1 + 1 - 1, 1 + n - 1)
      BY <1>1, <3>1, SubSeqOfSubSeq
    <3>3. 1 + 1 - 1 = 1 /\ 1 + n - 1 = n
      BY <3>1
    <3>4. SubSeq(up, 1, n) = SubSeq(place, 1, n)
      BY <3>2, <3>3
    <3>5. QED
      BY <3>1, <3>4 DEF Resolved
  <2>3. QED
    BY <1>2, <2>1, <2>2 DEF Enter, Resolved
<1> DEFINE inner == Append(place, part)
<1>3. CASE part # Up /\ inner \in DOMAIN Links
  BY <1>3 DEF Enter
<1>4. CASE part # Up /\ inner \notin DOMAIN Links
  <2>1. part \in Names
    BY <1>4 DEF Parts
  <2>2. inner \in Seq(Names) /\ Len(inner) = Len(place) + 1 /\ inner = place \o <<part>>
    BY <1>1, <2>1, AppendProperties, AppendIsConcat
  <2>3. ASSUME NEW n \in 1..Len(inner) PROVE SubSeq(inner, 1, n) \notin DOMAIN Links
    <3>1. CASE n = Len(inner)
      <4>1. SubSeq(inner, 1, n) = inner
        BY <2>2, <3>1, SubSeqFull
      <4>2. QED
        BY <1>4, <4>1
    <3>2. CASE n # Len(inner)
      <4>1. n \in 1..Len(place) /\ 1 \in 1..Len(place) /\ <<part>> \in Seq(Names)
        BY <1>1, <2>1, <2>2, <3>2
      <4>2. SubSeq(inner, 1, n) = SubSeq(place, 1, n)
        BY <1>1, <2>2, <4>1, SubSeqOfConcat1
      <4>3. QED
        BY <4>1, <4>2 DEF Resolved
    <3>3. QED
      BY <3>1, <3>2
  <2>4. QED
    BY <1>4, <2>2, <2>3 DEF Enter, Resolved
<1>5. QED
  BY <1>2, <1>3, <1>4

\* Wherever a path leads, no link is on the way there.
LEMMA RealPathResolves ==
  ASSUME NEW parts \in Seq(Parts)
  PROVE  Resolved(RealPath(parts))
<1>1. PICK reached :
        /\ RealPath(parts) = reached[Len(parts)]
        /\ \A i \in 0..Len(parts) :
             reached[i] = IF i = 0 THEN <<>> ELSE Enter(reached[i - 1], parts[i])
  BY RealPathWalks
<1>2. Len(parts) \in Nat
  OBVIOUS
<1> DEFINE Bad == {k \in 0..Len(parts) : ~Resolved(reached[k])}
<1> SUFFICES ASSUME Bad # {} PROVE FALSE
  BY <1>1, <1>2
<1>3. PICK m \in Bad : \A k \in Bad : m <= k
  <2>1. Bad \subseteq Nat
    OBVIOUS
  <2> HIDE DEF Bad
  <2>2. QED
    BY <2>1, LeastNatural
<1>4. CASE m = 0
  <2>1. reached[0] = <<>>
    BY <1>1, <1>2
  <2>2. Resolved(<<>>)
    BY DEF Resolved
  <2>3. QED
    BY <1>4, <2>1, <2>2
<1>5. CASE m # 0
  <2>1. m - 1 \in 0..Len(parts) /\ m \in 1..Len(parts) /\ ~(m <= m - 1)
    BY <1>2, <1>5
  <2>2. Resolved(reached[m - 1])
    BY <1>3, <2>1
  <2>3. parts[m] \in Parts
    BY <2>1, ElementOfSeq
  <2>4. reached[m] = Enter(reached[m - 1], parts[m])
    BY <1>1, <1>5
  <2>5. QED
    BY <2>2, <2>3, <2>4, EnterResolves
<1>6. QED
  BY <1>4, <1>5

\* A place no link is on the way to is its own path.
LEMMA ResolvedStays ==
  ASSUME NEW place, Resolved(place)
  PROVE  RealPath(place) = place
<1> USE PathAssumption
<1>1. place \in Seq(Names) /\ Len(place) \in Nat /\ place \in Seq(Parts)
  BY SeqMonotonic DEF Resolved, Parts
<1>2. PICK reached :
        /\ RealPath(place) = reached[Len(place)]
        /\ \A i \in 0..Len(place) :
             reached[i] = IF i = 0 THEN <<>> ELSE Enter(reached[i - 1], place[i])
  BY <1>1, RealPathWalks
<1> DEFINE Bad == {k \in 0..Len(place) : reached[k] # SubSeq(place, 1, k)}
<1>3. ASSUME Bad # {} PROVE FALSE
  <2>1. PICK m \in Bad : \A k \in Bad : m <= k
    <3>1. Bad \subseteq Nat
      OBVIOUS
    <3> HIDE DEF Bad
    <3>2. QED
      BY <1>3, <3>1, LeastNatural
  <2>2. CASE m = 0
    <3>1. SubSeq(place, 1, 0) = <<>> /\ reached[0] = <<>>
      BY <1>1, <1>2, SubSeqEmpty
    <3>2. QED
      BY <2>2, <3>1
  <2>3. CASE m # 0
    <3>1. m - 1 \in 0..Len(place) /\ m \in 1..Len(place) /\ ~(m <= m - 1)
      BY <1>1, <2>3
    <3>2. reached[m - 1] = SubSeq(place, 1, m - 1)
      BY <2>1, <3>1
    <3>3. place[m] \in Names
      BY <1>1, <3>1, ElementOfSeq
    <3>4. Append(SubSeq(place, 1, m - 1), place[m]) = SubSeq(place, 1, m)
      <4>1. SubSeq(place, 1, m - 1) \in Seq(Names)
        <5>1. \A i \in 1..(m - 1) : place[i] \in Names
          BY <1>1, <3>1, ElementOfSeq
        <5>2. 1 \in Int /\ m - 1 \in Int
          BY <3>1
        <5>3. QED
          BY <5>1, <5>2, SubSeqProperties
      <4>2. Append(SubSeq(place, 1, m - 1), place[m]) = SubSeq(place, 1, m - 1) \o <<place[m]>>
        BY <3>3, <4>1, AppendIsConcat
      <4>3. 1 \in 1..Len(place) /\ m \in 1..Len(place)
        BY <1>1, <3>1
      <4>4. SubSeq(place, 1, m) = SubSeq(place, 1, m - 1) \o <<place[m]>>
        BY <1>1, <4>3, SubSeqRecursiveSecond
      <4>5. QED
        BY <4>2, <4>4
    <3>5. reached[m] = Enter(SubSeq(place, 1, m - 1), place[m])
      BY <1>2, <2>3, <3>2
    <3>6. SubSeq(place, 1, m) \notin DOMAIN Links
      BY <3>1 DEF Resolved
    <3>7. reached[m] = SubSeq(place, 1, m)
      BY <3>3, <3>4, <3>5, <3>6 DEF Enter
    <3>8. QED
      BY <3>7
  <2>4. QED
    BY <2>2, <2>3
<1>4. reached[Len(place)] = SubSeq(place, 1, Len(place))
  BY <1>1, <1>3
<1>5. QED
  BY <1>1, <1>2, <1>4, SubSeqFull

-----------------------------------------------------------------------------
(***************************************************************************)
(* Rewriting a path.                                                       *)
(***************************************************************************)

\* A prefix is what the other sequence starts with, element for element.
LEMMA PrefixPoints ==
  ASSUME NEW s \in Seq(Names), NEW t \in Seq(Names)
  PROVE  IsPrefix(s, t) <=> Len(s) <= Len(t) /\ \A i \in 1..Len(s) : s[i] = t[i]
<1>1. Len(s) \in Nat /\ Len(t) \in Nat
  OBVIOUS
<1>2. SUFFICES ASSUME Len(s) <= Len(t)
               PROVE  SubSeq(s, 1, Len(s)) = SubSeq(t, 1, Len(s))
                        <=> \A i \in 1..Len(s) : s[i] = t[i]
  BY DEF IsPrefix
<1> DEFINE start == SubSeq(t, 1, Len(s))
<1>3. /\ start \in Seq(Names) /\ Len(start) = Len(s)
      /\ \A i \in 1..Len(s) : start[i] = t[i]
  <2>1. \A i \in 1..Len(s) : t[i] \in Names
    BY <1>1, <1>2, ElementOfSeq
  <2>2. 1 \in Int /\ Len(s) \in Int
    BY <1>1
  <2>3. /\ start \in Seq(Names)
        /\ Len(start) = IF 1 <= Len(s) THEN Len(s) - 1 + 1 ELSE 0
        /\ \A i \in 1..(Len(s) - 1 + 1) : start[i] = t[1 + i - 1]
    BY <2>1, <2>2, SubSeqProperties
  <2> HIDE DEF start
  <2>4. \A i \in 1..Len(s) : 1 + i - 1 = i /\ i \in 1..(Len(s) - 1 + 1)
    BY <1>1
  <2>5. \A i \in 1..Len(s) : start[i] = t[i]
    BY <2>3, <2>4
  <2>6. QED
    BY <1>1, <2>3, <2>5
<1>4. SubSeq(s, 1, Len(s)) = s
  BY SubSeqFull
<1> HIDE DEF start
<1>5. (\A i \in 1..Len(s) : s[i] = t[i]) => s = start
  BY <1>3, SeqEqual, SMTT(60)
<1>6. s = start => \A i \in 1..Len(s) : s[i] = t[i]
  BY <1>3, SMTT(60)
<1>7. QED
  BY <1>4, <1>5, <1>6 DEF start

\* A place under a root is the root and the rest of its way.
LEMMA RootAndRest ==
  ASSUME NEW root \in Seq(Names), NEW place \in Seq(Names), IsPrefix(root, place)
  PROVE  root \o RelativeTo(place, root) = place
<1>1. Len(root) \in Nat /\ Len(place) \in Nat /\ Len(root) <= Len(place)
  BY DEF IsPrefix
<1>2. root = SubSeq(place, 1, Len(root))
  BY SubSeqFull DEF IsPrefix
<1>3. 1 \in 1..Len(place) + 1 /\ Len(root) \in (1 - 1)..Len(place) /\ Len(place) \in Len(root)..Len(place)
  BY <1>1
<1>4. SubSeq(place, 1, Len(root)) \o SubSeq(place, Len(root) + 1, Len(place))
        = SubSeq(place, 1, Len(place))
  BY <1>3, ConcatAdjacentSubSeq
<1>5. SubSeq(place, 1, Len(place)) = place
  BY SubSeqFull
<1>6. QED
  BY <1>2, <1>4, <1>5 DEF RelativeTo

\* The sandbox is a place no link is on the way to.
LEMMA RootResolved == Resolved(SandboxRoot) /\ SandboxRoot \in Seq(Names)
<1>1. SandboxArgument.parts \in Seq(Parts)
  BY PathAssumption DEF PathArgument, Parts
<1>2. WorkingDirectory \in Seq(Parts)
  BY PathAssumption, SeqMonotonic DEF Parts
<1>3. WorkingDirectory \o SandboxArgument.parts \in Seq(Parts)
  BY <1>1, <1>2, ConcatProperties
<1>4. Resolved(SandboxRoot)
  BY <1>1, <1>3, RealPathResolves DEF SandboxRoot
<1>5. QED
  BY <1>4 DEF Resolved

\* What reaches the server in the place of an argument.
Sent(raw) == IF IsPrefix(SandboxRoot, Meant(raw)) THEN Absolute(Meant(raw)) ELSE raw

\* The project is the sandbox without its last part.
LEMMA ProjectOfSandbox ==
  ASSUME SandboxRoot # <<>>
  PROVE  /\ ProjectRoot \in Seq(Names) /\ Len(ProjectRoot) = Len(SandboxRoot) - 1
         /\ Len(SandboxRoot) \in Nat \ {0}
         /\ \A i \in 1..(Len(SandboxRoot) - 1) : ProjectRoot[i] = SandboxRoot[i]
<1>1. SandboxRoot \in Seq(Names) /\ Len(SandboxRoot) \in Nat \ {0}
  BY RootResolved, EmptySeq
<1> DEFINE n == Len(SandboxRoot) - 1
<1>2. n \in Nat /\ 1 \in Int /\ n \in Int
  BY <1>1
<1>3. \A i \in 1..n : SandboxRoot[i] \in Names
  BY <1>1, ElementOfSeq
<1>4. /\ ProjectRoot \in Seq(Names)
      /\ Len(ProjectRoot) = IF 1 <= n THEN n - 1 + 1 ELSE 0
      /\ \A i \in 1..(n - 1 + 1) : ProjectRoot[i] = SandboxRoot[1 + i - 1]
  <2>1. ProjectRoot = SubSeq(SandboxRoot, 1, n)
    BY DEF ProjectRoot
  <2> HIDE DEF n
  <2>2. QED
    BY <1>2, <1>3, <2>1, SubSeqProperties
<1>5. \A i \in 1..n : 1 + i - 1 = i /\ i \in 1..(n - 1 + 1)
  BY <1>2
<1> HIDE DEF n
<1>6. (\A i \in 1..n : ProjectRoot[i] = SandboxRoot[i]) /\ Len(ProjectRoot) = n
  BY <1>2, <1>4, <1>5
<1>7. QED
  BY <1>1, <1>4, <1>6 DEF n

\* A place beside the sandbox has one part below the project, which is not the
\* sandbox's.
LEMMA BesideSandbox ==
  ASSUME NEW place \in Seq(Names), ~IsPrefix(SandboxRoot, place), IsPrefix(ProjectRoot, place)
  PROVE  LET inProject == RelativeTo(place, ProjectRoot)
         IN  /\ Len(inProject) = 1 <=> Len(place) = Len(SandboxRoot)
             /\ Len(inProject) = 1 => place # <<>> /\ inProject = <<place[Len(place)]>>
             /\ inProject # <<>> => inProject[1] # SandboxRoot[Len(SandboxRoot)]
<1> DEFINE root == SandboxRoot
           inProject == RelativeTo(place, ProjectRoot)
<1>1. root \in Seq(Names) /\ Len(place) \in Nat
  BY RootResolved
<1>2. root # <<>>
  <2>1. SUFFICES ASSUME root = <<>> PROVE IsPrefix(root, place)
    OBVIOUS
  <2>2. Len(root) = 0 /\ Len(root) <= Len(place) /\ \A i \in 1..Len(root) : root[i] = place[i]
    BY <1>1, <2>1
  <2>3. QED
    BY <1>1, <2>2, PrefixPoints
<1>3. /\ ProjectRoot \in Seq(Names) /\ Len(ProjectRoot) = Len(root) - 1
      /\ Len(root) \in Nat \ {0}
      /\ \A i \in 1..(Len(root) - 1) : ProjectRoot[i] = root[i]
  BY <1>2, ProjectOfSandbox
<1>4. /\ Len(root) - 1 <= Len(place)
      /\ \A i \in 1..(Len(root) - 1) : ProjectRoot[i] = place[i]
  BY <1>3, PrefixPoints
<1>5. inProject = SubSeq(place, Len(root), Len(place))
  BY <1>3 DEF RelativeTo
<1> HIDE DEF root
<1>6. /\ inProject \in Seq(Names)
      /\ Len(inProject) = IF Len(root) <= Len(place) THEN Len(place) - Len(root) + 1 ELSE 0
      /\ \A i \in 1..(Len(place) - Len(root) + 1) : inProject[i] = place[Len(root) + i - 1]
  <2>1. \A i \in Len(root)..Len(place) : place[i] \in Names
    BY <1>1, <1>3, ElementOfSeq
  <2>2. Len(root) \in Int /\ Len(place) \in Int
    BY <1>1, <1>3
  <2> HIDE DEF inProject
  <2>3. QED
    BY <1>5, <2>1, <2>2, SubSeqProperties
<1> HIDE DEF inProject
<1>7. Len(inProject) = 1 <=> Len(place) = Len(root)
  BY <1>1, <1>3, <1>6
<1>8. ASSUME Len(inProject) = 1 PROVE place # <<>> /\ inProject = <<place[Len(place)]>>
  <2>1. Len(place) = Len(root) /\ Len(place) > 0
    BY <1>1, <1>3, <1>7, <1>8
  <2>2. inProject[1] = place[Len(place)]
    BY <1>1, <1>6, <2>1
  <2>3. place # <<>>
    BY <2>1
  <2>4. inProject = <<inProject[1]>>
    BY <1>6, <1>8
  <2>5. QED
    BY <2>2, <2>3, <2>4
<1>9. ASSUME inProject # <<>>, inProject[1] = root[Len(root)] PROVE FALSE
  <2>1. Len(root) <= Len(place)
    BY <1>6, <1>9, EmptySeq
  <2>2. 1 \in 1..(Len(place) - Len(root) + 1) /\ Len(root) + 1 - 1 = Len(root)
    BY <1>1, <1>3, <2>1
  <2>3. place[Len(root)] = root[Len(root)]
    BY <1>6, <1>9, <2>2
  <2>4. \A i \in 1..Len(root) : root[i] = place[i]
    <3> SUFFICES ASSUME NEW i \in 1..Len(root) PROVE root[i] = place[i]
      OBVIOUS
    <3>1. i = Len(root) \/ i \in 1..(Len(root) - 1)
      BY <1>3
    <3>2. QED
      BY <1>3, <1>4, <2>3, <3>1
  <2>5. IsPrefix(root, place)
    BY <1>1, <2>1, <2>4, PrefixPoints
  <2>6. QED
    BY <2>5 DEF root
<1>10. QED
  BY <1>7, <1>8, <1>9 DEF root, inProject

\* Rewriting does what it promises, branch by branch.
LEMMA NormalizeSends ==
  ASSUME NEW raw \in PathArgument
  PROVE  Normalize(raw) = Sent(raw)
<1> DEFINE root == SandboxRoot
           place == RealPath(raw.parts)
           inProject == RelativeTo(place, ProjectRoot)
<1>1. raw.parts \in Seq(Parts) /\ raw.absolute \in BOOLEAN
  BY DEF PathArgument, Parts
<1>2. Resolved(place) /\ place \in Seq(Names) /\ RealPath(place) = place
  BY <1>1, RealPathResolves, ResolvedStays DEF Resolved
<1>3. root \in Seq(Names)
  BY RootResolved
<1>4. CASE ~raw.absolute
  BY <1>4 DEF Normalize, UnderSandbox, Sent, Meant
<1>5. CASE raw.absolute /\ IsPrefix(root, place)
  <2>1. RealPath(root \o RelativeTo(place, root)) = place
    BY <1>2, <1>3, <1>5, RootAndRest
  <2>2. Normalize(raw) = UnderSandbox(RelativeTo(place, root), raw)
    BY <1>5 DEF Normalize
  <2>3. UnderSandbox(RelativeTo(place, root), raw) = Absolute(place)
    BY <1>5, <2>1 DEF UnderSandbox
  <2>4. Meant(raw) = place
    BY <1>5 DEF Meant
  <2>5. QED
    BY <1>5, <2>2, <2>3, <2>4 DEF Sent
<1>6. CASE raw.absolute /\ ~IsPrefix(root, place) /\ ~IsPrefix(ProjectRoot, place)
  <2>1. Normalize(raw) = raw
    BY <1>6 DEF Normalize
  <2>2. Meant(raw) = place
    BY <1>6 DEF Meant
  <2>3. QED
    BY <1>6, <2>1, <2>2 DEF Sent
<1>7. CASE raw.absolute /\ ~IsPrefix(root, place) /\ IsPrefix(ProjectRoot, place)
  <2>1. /\ Len(inProject) = 1 <=> Len(place) = Len(root)
        /\ Len(inProject) = 1 => place # <<>> /\ inProject = <<place[Len(place)]>>
        /\ inProject # <<>> => inProject[1] # root[Len(root)]
    BY <1>2, <1>7, BesideSandbox
  <2>2. Normalize(raw) = IF Len(inProject) = 1 THEN UnderSandbox(inProject, raw) ELSE raw
    BY <1>7, <2>1 DEF Normalize
  <2>3. CASE Len(inProject) = 1
    <3> DEFINE name == place[Len(place)]
    <3>1. name \in Names
      <4>1. Len(place) \in 1..Len(place)
        BY <1>2, <2>1, <2>3, EmptySeq
      <4>2. QED
        BY <1>2, <4>1, ElementOfSeq
    <3>2. root \o inProject = Append(root, name)
      BY <1>3, <2>1, <2>3, <3>1, AppendIsConcat
    <3>3. Meant(raw) = RealPath(Append(root, name))
      BY <1>7, <2>1, <2>3 DEF Meant
    <3>4. UnderSandbox(inProject, raw) = Sent(raw)
      BY <3>2, <3>3 DEF UnderSandbox, Sent
    <3>5. QED
      BY <2>2, <2>3, <3>4
  <2>4. CASE Len(inProject) # 1
    <3>1. Meant(raw) = place
      BY <1>7, <2>1, <2>4 DEF Meant
    <3>2. QED
      BY <1>7, <2>2, <2>4, <3>1 DEF Sent
  <2>5. QED
    BY <2>3, <2>4
<1>8. QED
  BY <1>1, <1>4, <1>5, <1>6, <1>7

\* No link is on the way to the place that was meant.
LEMMA MeantResolved ==
  ASSUME NEW raw \in PathArgument
  PROVE  Resolved(Meant(raw))
<1> DEFINE place == RealPath(raw.parts)
<1>1. raw.parts \in Seq(Parts)
  BY DEF PathArgument, Parts
<1>2. Resolved(place) /\ place \in Seq(Names)
  BY <1>1, RealPathResolves DEF Resolved
<1>3. SandboxRoot \in Seq(Parts)
  BY RootResolved, SeqMonotonic DEF Parts
<1>4. Resolved(RealPath(SandboxRoot \o raw.parts))
  BY <1>1, <1>3, ConcatProperties, RealPathResolves
<1>5. ASSUME ~IsPrefix(SandboxRoot, place), Len(place) = Len(SandboxRoot), IsPrefix(ProjectRoot, place)
      PROVE  Resolved(RealPath(Append(SandboxRoot, place[Len(place)])))
  <2>1. place # <<>>
    BY <1>2, <1>5, BesideSandbox
  <2>2. Len(place) \in 1..Len(place)
    BY <1>2, <2>1, EmptySeq
  <2>3. place[Len(place)] \in Parts
    BY <1>2, <2>2, ElementOfSeq DEF Parts
  <2>4. QED
    BY <1>3, <2>3, AppendProperties, RealPathResolves
<1> HIDE DEF place
<1>6. QED
  BY <1>2, <1>4, <1>5 DEF Meant, place

\* Rewriting what was sent changes nothing.
LEMMA SentStays ==
  ASSUME NEW raw \in PathArgument
  PROVE  Sent(raw) \in PathArgument /\ Normalize(Sent(raw)) = Sent(raw)
<1> DEFINE meant == Meant(raw)
<1>1. Resolved(meant) /\ meant \in Seq(Names) /\ RealPath(meant) = meant
  BY MeantResolved, ResolvedStays DEF Resolved
<1> HIDE DEF meant
<1>2. CASE IsPrefix(SandboxRoot, meant)
  <2> DEFINE sent == Absolute(meant)
  <2>1. sent \in PathArgument
    <3>1. meant \in Seq(Names \cup {Up})
      BY <1>1, SeqMonotonic
    <3>2. QED
      BY <3>1 DEF Absolute, PathArgument
  <2>2. sent.absolute = TRUE /\ sent.parts = meant
    BY DEF Absolute
  <2> HIDE DEF sent
  <2>3. Meant(sent) = meant
    BY <1>1, <1>2, <2>2 DEF Meant
  <2>4. Sent(sent) = sent
    BY <1>2, <2>3 DEF Sent, sent
  <2>5. Sent(raw) = sent
    BY <1>2 DEF Sent, sent, meant
  <2>6. QED
    BY <2>1, <2>4, <2>5, NormalizeSends
<1>3. CASE ~IsPrefix(SandboxRoot, meant)
  <2>1. Sent(raw) = raw
    BY <1>3 DEF Sent, meant
  <2>2. QED
    BY <2>1, NormalizeSends
<1>4. QED
  BY <1>2, <1>3

-----------------------------------------------------------------------------
(***************************************************************************)
(* A call.                                                                 *)
(***************************************************************************)

\* The arguments of a call with one path in place of the one that was written.
With(path, raw) == [path |-> path, paths |-> <<path>>, content |-> raw]

\* Paths are rewritten wherever they are, and nothing else.
LEMMA ArgumentsOf ==
  ASSUME NEW path, NEW raw
  PROVE  NormalizeArguments(With(path, raw)) = With(Normalize(path), raw)
<1> DEFINE args == With(path, raw)
<1>1. DOMAIN args = {"path", "paths", "content"}
  BY DEF With
<1>2. args["path"] = path /\ args["paths"] = <<path>> /\ args["content"] = raw
  BY DEF With
<1> DEFINE new == NormalizeArguments(args)
<1> HIDE DEF args
<1>3. new = [key \in {"path", "paths", "content"} |-> new[key]]
  BY <1>1 DEF NormalizeArguments
<1>4. new["path"] = Normalize(path) /\ new["content"] = raw
  BY <1>1, <1>2 DEF NormalizeArguments, PathKeys
<1>5. new["paths"] = <<Normalize(path)>>
  <2>1. new["paths"] = [i \in DOMAIN <<path>> |-> Normalize(<<path>>[i])]
    BY <1>1, <1>2 DEF NormalizeArguments, PathKeys
  <2>2. DOMAIN <<path>> = {1} /\ <<path>>[1] = path
    OBVIOUS
  <2>3. [i \in {1} |-> Normalize(<<path>>[i])] = <<Normalize(path)>>
    BY <2>2
  <2>4. QED
    BY <2>1, <2>2, <2>3
<1> HIDE DEF new
<1>6. new = With(Normalize(path), raw)
  BY <1>3, <1>4, <1>5 DEF With
<1>7. QED
  BY <1>6 DEF new, args

\* The inductive invariant: what has been written, and what it is now.
CallInv ==
    \E raw \in PathArgument :
      /\ written = With(raw, raw)
      /\ layer \in {"tool", "client", "server"}
      /\ argument = With(IF layer = "tool" THEN raw ELSE Sent(raw), raw)

\* At first the call is as the model wrote it.
LEMMA InitCall == CallInit => CallInv
<1> SUFFICES ASSUME CallInit PROVE CallInv
  OBVIOUS
<1>1. PICK raw \in Arguments : written = PathCall(raw)
  BY DEF CallInit
<1>2. raw \in PathArgument
  <2>1. PICK m \in 0..MaxParts : raw.parts \in [1..m -> Names \cup {Up}]
    BY <1>1 DEF Arguments, SeqOf
  <2>2. m \in Nat
    BY <2>1, PathAssumption
  <2>3. raw.parts \in Seq(Names \cup {Up})
    BY <2>1, <2>2
  <2>4. QED
    BY <1>1, <2>3 DEF Arguments, PathArgument
<1>3. QED
  BY <1>1, <1>2 DEF CallInit, CallInv, With, PathCall

\* Each layer leaves what is to be sent, and the second layer finds it.
LEMMA NextCall == CallInv /\ [CallNext]_call => CallInv' /\ [Intercept => UNCHANGED argument]_call
<1> SUFFICES ASSUME CallInv, [CallNext]_call
             PROVE  CallInv' /\ (Intercept => argument' = argument)
  OBVIOUS
<1>1. PICK raw \in PathArgument :
        /\ written = With(raw, raw)
        /\ layer \in {"tool", "client", "server"}
        /\ argument = With(IF layer = "tool" THEN raw ELSE Sent(raw), raw)
  BY DEF CallInv
<1>2. CASE WrappedTool
  <2>1. argument' = With(Sent(raw), raw) /\ layer' = "client" /\ written' = written
    BY <1>1, <1>2, ArgumentsOf, NormalizeSends DEF WrappedTool
  <2>2. QED
    BY <1>1, <1>2, <2>1 DEF CallInv, WrappedTool, Intercept
<1>3. CASE Intercept
  <2>1. argument' = With(Sent(raw), raw) /\ layer' = "server" /\ written' = written /\ argument' = argument
    BY <1>1, <1>3, ArgumentsOf, SentStays DEF Intercept
  <2>2. QED
    BY <1>1, <2>1 DEF CallInv
<1>4. CASE Bypass
  <2>1. argument' = argument /\ layer' = "server" /\ written' = written /\ layer = "client"
    BY <1>4 DEF Bypass
  <2>2. QED
    BY <1>1, <2>1 DEF CallInv
<1>5. CASE UNCHANGED call
  <2>1. argument' = argument /\ layer' = layer /\ written' = written
    BY <1>5 DEF call
  <2>2. QED
    BY <1>1, <2>1 DEF CallInv
<1>6. QED
  BY <1>2, <1>3, <1>4, <1>5 DEF CallNext

\* The invariant holds of every reachable state.
LEMMA CallInvHolds == CallSpec => []CallInv
<1>1. CallInv /\ [CallNext]_call => CallInv'
  BY NextCall
<1>2. QED
  BY <1>1, InitCall, PTL DEF CallSpec

\* However a path is written, and whatever links there are: the server gets the
\* absolute path of the place that was meant if that is in the sandbox, and
\* exactly what was written otherwise.
THEOREM PathsMovedOrLeft == CallSpec => []MovedIntoSandboxOrLeft
<1>1. CallInv => MovedIntoSandboxOrLeft
  <2> SUFFICES ASSUME CallInv, layer = "server"
               PROVE  LET raw == written.path
                          sent == IF IsPrefix(SandboxRoot, Meant(raw)) THEN Absolute(Meant(raw)) ELSE raw
                      IN  argument = [path |-> sent, paths |-> <<sent>>, content |-> raw]
    BY DEF MovedIntoSandboxOrLeft
  <2>1. PICK raw \in PathArgument :
          /\ written = With(raw, raw)
          /\ argument = With(Sent(raw), raw)
    BY DEF CallInv
  <2>2. written.path = raw
    BY <2>1 DEF With
  <2>3. QED
    BY <2>1, <2>2 DEF With, Sent
<1>2. QED
  BY <1>1, CallInvHolds, PTL

\* The second layer never changes what the first has made: a call that bypasses
\* it reaches the server with the same paths.
THEOREM SecondLayerIdle == CallSpec => TwiceIsOnce
<1>1. CallInv /\ [CallNext]_call => [Intercept => UNCHANGED argument]_call
  BY NextCall
<1>2. QED
  BY <1>1, CallInvHolds, PTL DEF CallSpec, TwiceIsOnce
=============================================================================
