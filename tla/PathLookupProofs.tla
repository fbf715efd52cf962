-------------------------- MODULE PathLookupProofs --------------------------
(***************************************************************************)
(* Proofs about opening and closing files, for every tree of directories,  *)
(* any paths, any number of descriptors and any amount of memory: what is  *)
(* opened is what the path names, and every block that is taken has a user.*)
(*                                                                         *)
(* The invariant says what a walk knows of the memory: a path that was cut *)
(* short has taken the last free block, so its walk can go nowhere; and    *)
(* the directory that was freed but is still pointed to is in nobody's     *)
(* hands for as long as the walk lasts.  How blocks change hands is stated *)
(* for three moves, a block that is given, taken back or handed over, of   *)
(* which every action is made.                                             *)
(***************************************************************************)
EXTENDS PathLookup, FiniteSetTheorems, WellFoundedInduction, TLAPS

-----------------------------------------------------------------------------
(* Induction over the naturals for a set.                                    *)

LEMMA LeastOf ==
    ASSUME NEW T \in SUBSET Nat, T # {}
    PROVE  \E x \in T : \A y \in T : x <= y
<1> DEFINE Less == OpToRel(<, Nat)
<1>1. IsWellFoundedOn(Less, Nat)  BY NatLessThanWellFounded
<1>2. \A x, y \in Nat : <<y, x>> \in Less <=> y < x  BY DEF OpToRel
<1> HIDE DEF Less
<1>3. PICK x \in T : \A y \in T : ~(<<y, x>> \in Less)  BY <1>1, WFMin
<1>4. ASSUME NEW y \in T PROVE x <= y
    <2>1. x \in Nat /\ y \in Nat  OBVIOUS
    <2>2. ~(y < x)  BY <1>2, <1>3, <2>1, Zenon
    <2>3. QED  BY <2>1, <2>2
<1>5. QED  BY <1>4

LEMMA SetInduction ==
    ASSUME NEW S, 0 \in S, \A n \in Nat : n \in S => n + 1 \in S
    PROVE  \A n \in Nat : n \in S
<1> DEFINE Out == {n \in Nat : n \notin S}
<1>1. SUFFICES ASSUME Out # {} PROVE FALSE  OBVIOUS
<1>2. PICK x \in Out : \A y \in Out : x <= y
    <2>1. Out \in SUBSET Nat  OBVIOUS
    <2> HIDE DEF Out
    <2>2. QED  BY <1>1, <2>1, LeastOf
<1>3. x \in Nat /\ x # 0 /\ x - 1 \in Nat  OBVIOUS
<1>4. x - 1 \in S  BY <1>2, <1>3
<1>5. (x - 1) + 1 \in S  BY <1>3, <1>4
<1>6. QED  BY <1>3, <1>5

-----------------------------------------------------------------------------
(* The heap: the blocks that several calls in a row return.                  *)

LEMMA NthExists ==
    ASSUME NEW T \in SUBSET Nat, IsFiniteSet(T)
    PROVE  \A k \in Nat : k < Cardinality(T) => \E b \in T : Cardinality({a \in T : a < b}) = k
<1> DEFINE Below(b) == {a \in T : a < b}
           S == {k \in Nat : k < Cardinality(T) => \E b \in T : Cardinality(Below(b)) = k}
<1>1. 0 \in S
    <2>1. ASSUME 0 < Cardinality(T) PROVE \E b \in T : Cardinality(Below(b)) = 0
        <3>1. T # {}  BY <2>1, FS_EmptySet
        <3>2. PICK b \in T : \A a \in T : b <= a  BY <3>1, LeastOf
        <3>3. Below(b) = {}
            <4>1. \A a \in T : a \in Nat /\ b \in Nat  OBVIOUS
            <4>2. \A a \in T : ~(a < b)  BY <3>2, <4>1
            <4>3. QED  BY <4>2
        <3>4. QED  BY <3>3, FS_EmptySet
    <2>2. QED  BY <2>1
<1>2. ASSUME NEW k \in Nat, k \in S PROVE k + 1 \in S
    <2>1. ASSUME k + 1 < Cardinality(T) PROVE \E c \in T : Cardinality(Below(c)) = k + 1
        <3>1. Cardinality(T) \in Nat  BY FS_CardinalityType
        <3>2. PICK b \in T : Cardinality(Below(b)) = k  BY <1>2, <2>1, <3>1
        <3> DEFINE Upto == Below(b) \cup {b}
        <3>3. IsFiniteSet(Below(b))  BY FS_Subset
        <3>4. b \notin Below(b)
            <4>1. b \in Nat  OBVIOUS
            <4>2. ~(b < b)  BY <4>1
            <4>3. QED  BY <4>2
        <3>5. Cardinality(Upto) = k + 1
            <4> HIDE DEF Below
            <4>1. QED  BY <3>2, <3>3, <3>4, FS_AddElement
        <3>6. T \ Upto # {}
            <4>1. Upto \subseteq T  OBVIOUS
            <4> HIDE DEF Upto
            <4>2. T # Upto
                <5>1. SUFFICES ASSUME T = Upto PROVE FALSE  OBVIOUS
                <5>2. Cardinality(T) = Cardinality(Upto)  BY <5>1
                <5>3. QED  BY <2>1, <3>1, <3>5, <5>2
            <4>3. QED  BY <4>1, <4>2
        <3>7. PICK c \in T \ Upto : \A a \in T \ Upto : c <= a
            <4>1. T \ Upto \in SUBSET Nat  OBVIOUS
            <4> HIDE DEF Upto
            <4>2. QED  BY <3>6, <4>1, LeastOf
        <3>8. Below(c) = Upto
            <4>1. b \in Nat /\ c \in Nat /\ \A a \in T : a \in Nat  OBVIOUS
            <4>2. b < c  BY <4>1
            <4>3. \A a \in T : a < b => a < c  BY <4>1, <4>2
            <4>4. \A a \in T : a < c => a \in Upto
                <5> HIDE DEF Upto
                <5>1. QED  BY <3>7, <4>1
            <4>5. QED  BY <4>2, <4>3, <4>4
        <3> HIDE DEF Below, Upto
        <3>9. QED  BY <3>5, <3>8
    <2> HIDE DEF Below
    <2>2. QED  BY <2>1
<1>3. \A k \in Nat : k \in S
    <2> HIDE DEF S
    <2>1. QED  BY <1>1, <1>2, SetInduction
<1>4. QED  BY <1>3

LEMMA BlocksFinite ==
    /\ Blocks \subseteq Nat /\ IsFiniteSet(Blocks)
    /\ Free \subseteq Blocks /\ IsFiniteSet(Free) /\ Cardinality(Free) \in Nat
<1>1. Blocks \subseteq Nat /\ IsFiniteSet(Blocks)
    BY PathLookupAssumption, FS_Interval DEF Blocks
<1>2. Free \subseteq Blocks /\ IsFiniteSet(Free)  BY <1>1, FS_Subset DEF Free
<1>3. QED  BY <1>1, <1>2, FS_CardinalityType

\* Each of the blocks is free, and no two are the same (heap.c:72).
LEMMA NthFreeIs ==
    ASSUME NEW n \in Nat, n # 0, Memory(n)
    PROVE  NthFree(n) \in Free /\ Cardinality({a \in Free : a < NthFree(n)}) = n - 1
<1>1. n - 1 \in Nat /\ n - 1 < Cardinality(Free)  BY BlocksFinite DEF Memory
<1>2. Free \in SUBSET Nat /\ IsFiniteSet(Free)  BY BlocksFinite
<1>3. \E b \in Free : Cardinality({a \in Free : a < b}) = n - 1  BY <1>1, <1>2, NthExists
<1>4. QED  BY <1>3 DEF NthFree

LEMMA AllocFree ==
    ASSUME NEW n \in Nat, Memory(n)
    PROVE  Alloc(n) \subseteq Free /\ Alloc(n) \cap taken = {} /\ Alloc(n) \subseteq Blocks
<1>1. ASSUME NEW i \in 1 .. n PROVE NthFree(i) \in Free
    <2>1. i \in Nat /\ i # 0 /\ Memory(i)  BY BlocksFinite DEF Memory
    <2>2. QED  BY <2>1, NthFreeIs
<1>2. Alloc(n) \subseteq Free  BY <1>1 DEF Alloc
<1>3. QED  BY <1>2 DEF Free

LEMMA SecondIsAnother == ASSUME Memory(2) PROVE NthFree(2) \in Free /\ NthFree(2) \notin Alloc(1)
<1>1. Memory(1)  BY BlocksFinite DEF Memory
<1>2. Cardinality({a \in Free : a < NthFree(1)}) = 0  BY <1>1, NthFreeIs
<1>3. NthFree(2) \in Free /\ Cardinality({a \in Free : a < NthFree(2)}) = 1  BY NthFreeIs
<1>4. NthFree(1) # NthFree(2)  BY <1>2, <1>3
<1>5. \A i \in 1 .. 1 : i = 1  OBVIOUS
<1>6. \A b \in Alloc(1) : b = NthFree(1)  BY <1>5 DEF Alloc
<1>7. QED  BY <1>3, <1>4, <1>6

\* The last block is taken.
LEMMA LastBlock ==
    ASSUME Memory(1), ~Memory(2)
    PROVE  Blocks \ (taken \cup Alloc(1)) = {}
<1>1. Cardinality(Free) = 1  BY BlocksFinite DEF Memory
<1>2. PICK b : Free = {b}  BY <1>1, BlocksFinite, FS_Singleton
<1>3. NthFree(1) \in Free  BY NthFreeIs
<1>4. 1 \in 1 .. 1  OBVIOUS
<1>5. b \in Alloc(1)  BY <1>2, <1>3, <1>4 DEF Alloc
<1>6. QED  BY <1>2, <1>5 DEF Free

LEMMA NoneFree == ASSUME Free = {}, NEW n \in Nat, n # 0 PROVE ~Memory(n)
BY FS_EmptySet DEF Memory

\* At boot the heap gives its blocks in order.
LEMMA FirstBlocks ==
    ASSUME taken = {}, NEW n \in Nat, n # 0, Memory(n)
    PROVE  NthFree(n) = n - 1
<1>1. Free = Blocks  BY DEF Free
<1>2. PICK b : b = NthFree(n)  OBVIOUS
<1>3. b \in Blocks /\ Cardinality({a \in Blocks : a < b}) = n - 1  BY <1>1, <1>2, NthFreeIs
<1>4. b \in 0 .. Total - 1 /\ Total \in Nat  BY <1>3, PathLookupAssumption DEF Blocks
<1>5. {a \in Blocks : a < b} = 0 .. b - 1  BY <1>4 DEF Blocks
<1>6. Cardinality(0 .. b - 1) = b  BY <1>4, FS_Interval
<1>7. QED  BY <1>2, <1>3, <1>4, <1>5, <1>6

-----------------------------------------------------------------------------
(* A path, component by component.                                           *)

LEMMA BeforeIs ==
    ASSUME NEW path \in Paths
    PROVE  /\ Len(path) \in Nat /\ Before(path) \in 0 .. Len(path)
           /\ \A i \in 1 .. Before(path) : path[i] # NoName
           /\ Before(path) = Len(path) \/ path[Before(path) + 1] = NoName
<1>1. Len(path) \in Nat
    <2>1. path \in Seq(STRING)  BY PathLookupAssumption
    <2>2. QED  BY <2>1
<1> DEFINE Ends == {n \in 0 .. Len(path) : n = Len(path) \/ path[n + 1] = NoName}
<1>2. Ends \in SUBSET Nat /\ Len(path) \in Ends  BY <1>1
<1>3. PICK n \in Ends : \A m \in Ends : n <= m
    <2> HIDE DEF Ends
    <2>1. QED  BY <1>2, LeastOf
<1>4. n \in 0 .. Len(path) /\ (n = Len(path) \/ path[n + 1] = NoName)  OBVIOUS
<1>5. ASSUME NEW i \in 1 .. n, path[i] = NoName PROVE FALSE
    <2>1. i - 1 \in 0 .. Len(path) /\ (i - 1) + 1 = i  BY <1>1, <1>4
    <2>2. i - 1 \in Ends  BY <1>5, <2>1
    <2> HIDE DEF Ends
    <2>3. n <= i - 1  BY <1>3, <2>2
    <2>4. QED  BY <1>4, <2>3
<1>6. QED  BY <1>1, <1>4, <1>5 DEF Before

Following(path, k, g) ==
    g = [i \in 0 .. k |-> IF i = 0 THEN Root ELSE Step(g[i - 1], path[i])]

LEMMA FollowingExists == ASSUME NEW path PROVE \A k \in Nat : \E g : Following(path, k, g)
<1> DEFINE S == {k \in Nat : \E g : Following(path, k, g)}
<1>1. 0 \in S
    <2>1. Following(path, 0, [i \in 0 .. 0 |-> Root])
        <3>1. \A i \in 0 .. 0 : i = 0  OBVIOUS
        <3>2. QED  BY <3>1 DEF Following
    <2>2. QED  BY <2>1
<1>2. ASSUME NEW k \in Nat, k \in S PROVE k + 1 \in S
    <2>1. PICK g : Following(path, k, g)  BY <1>2
    <2>2. \A i \in 0 .. k : g[i] = IF i = 0 THEN Root ELSE Step(g[i - 1], path[i])
        BY <2>1 DEF Following
    <2> DEFINE h == [i \in 0 .. k + 1 |-> IF i = k + 1 THEN Step(g[k], path[i]) ELSE g[i]]
    <2>3. ASSUME NEW i \in 0 .. k + 1
          PROVE  h[i] = IF i = 0 THEN Root ELSE Step(h[i - 1], path[i])
        <3>1. CASE i = k + 1
            <4>1. i # 0 /\ i - 1 = k /\ k \in 0 .. k + 1 /\ k # k + 1  BY <3>1
            <4>2. h[i - 1] = g[k]  BY <4>1
            <4>3. h[i] = Step(g[k], path[i])  BY <3>1
            <4>4. QED  BY <4>1, <4>2, <4>3
        <3>2. CASE i # k + 1
            <4>1. i \in 0 .. k  BY <3>2
            <4>2. h[i] = g[i]  BY <3>2
            <4>3. g[i] = IF i = 0 THEN Root ELSE Step(g[i - 1], path[i])  BY <2>2, <4>1
            <4>4. i # 0 => i - 1 \in 0 .. k /\ i - 1 # k + 1 /\ i - 1 \in 0 .. k + 1  BY <4>1
            <4>5. i # 0 => h[i - 1] = g[i - 1]  BY <4>4
            <4>6. QED  BY <4>2, <4>3, <4>5
        <3>3. QED  BY <3>1, <3>2
    <2>4. h = [i \in 0 .. k + 1 |-> IF i = 0 THEN Root ELSE Step(h[i - 1], path[i])]  BY <2>3
    <2> HIDE DEF h
    <2>5. Following(path, k + 1, h)  BY <2>4 DEF Following
    <2>6. QED  BY <2>5
<1>3. \A k \in Nat : k \in S
    <2> HIDE DEF S
    <2>1. QED  BY <1>1, <1>2, SetInduction
<1>4. QED  BY <1>3

LEMMA LeadsToUnfold ==
    ASSUME NEW path \in Paths
    PROVE  /\ LeadsTo(path)[0] = Root
           /\ \A i \in 1 .. Len(path) : LeadsTo(path)[i] = Step(LeadsTo(path)[i - 1], path[i])
<1>1. PICK k \in Nat : k = Len(path)  BY BeforeIs
<1>2. \E g : Following(path, k, g)  BY FollowingExists
<1>3. Following(path, k, CHOOSE g : Following(path, k, g))  BY <1>2
<1>4. LeadsTo(path) = CHOOSE g : Following(path, k, g)  BY <1>1 DEF LeadsTo, Following
<1>5. PICK g : g = LeadsTo(path)  OBVIOUS
<1>6. g = [i \in 0 .. k |-> IF i = 0 THEN Root ELSE Step(g[i - 1], path[i])]
    BY <1>3, <1>4, <1>5 DEF Following
<1>7. g[0] = Root  BY <1>6
<1>8. ASSUME NEW i \in 1 .. k PROVE g[i] = Step(g[i - 1], path[i])
    <2>1. i \in 0 .. k /\ i # 0  OBVIOUS
    <2>2. QED  BY <1>6, <2>1
<1>9. QED  BY <1>1, <1>5, <1>7, <1>8

-----------------------------------------------------------------------------
(* Blocks change hands: a free block is given to a user, a user's blocks are *)
(* taken back, or handed over to another user.                               *)

Covers(U, T) == \A b \in T : \E u \in Users : b \in U[u]
Exactly(U, T) ==
    /\ \A u \in Users : U[u] \subseteq T
    /\ \A u, v \in Users : u # v => U[u] \cap U[v] = {}
Accounted(U, T, robbed) == Covers(U, T) /\ (robbed = {} => Exactly(U, T))

Given(U, u, A) == [w \in Users |-> IF w = u THEN U[w] \cup A ELSE U[w]]
TakenBack(U, u) == [w \in Users |-> IF w = u THEN {} ELSE U[w]]
HandedOver(U, u, v) ==
    [w \in Users |-> IF w = u THEN {} ELSE IF w = v THEN U[v] \cup U[u] ELSE U[w]]

LEMMA GivenAccounts ==
    ASSUME NEW U, NEW T, NEW robbed, Accounted(U, T, robbed), NEW u \in Users, NEW A, A \cap T = {}
    PROVE  Accounted(Given(U, u, A), T \cup A, robbed)
<1> DEFINE V == Given(U, u, A)
<1>1. V[u] = U[u] \cup A /\ \A w \in Users : w # u => V[w] = U[w]  BY DEF Given
<1> HIDE DEF V
<1>2. Covers(V, T \cup A)  BY <1>1 DEF Covers, Accounted
<1>3. ASSUME Exactly(U, T) PROVE Exactly(V, T \cup A)
    <2>1. \A w \in Users : V[w] \subseteq T \cup A  BY <1>1, <1>3 DEF Exactly
    <2>2. ASSUME NEW w \in Users, NEW x \in Users, w # x, NEW b, b \in V[w], b \in V[x]
          PROVE  FALSE
        <3>1. \A y \in Users : b \in V[y] => b \in U[y] \/ (y = u /\ b \in A)  BY <1>1
        <3>2. \A y \in Users : b \in U[y] => b \notin A  BY <1>3 DEF Exactly
        <3>3. QED  BY <1>3, <2>2, <3>1, <3>2 DEF Exactly
    <2>3. QED  BY <2>1, <2>2 DEF Exactly
<1>4. QED  BY <1>2, <1>3 DEF Accounted, V

LEMMA TakenBackAccounts ==
    ASSUME NEW U, NEW T, NEW robbed, Accounted(U, T, robbed), NEW u \in Users
    PROVE  Accounted(TakenBack(U, u), T \ U[u], robbed)
<1> DEFINE V == TakenBack(U, u)
<1>1. V[u] = {} /\ \A w \in Users : w # u => V[w] = U[w]  BY DEF TakenBack
<1> HIDE DEF V
<1>2. Covers(V, T \ U[u])  BY <1>1 DEF Covers, Accounted
<1>3. ASSUME Exactly(U, T) PROVE Exactly(V, T \ U[u])
    <2>1. ASSUME NEW w \in Users, NEW b \in V[w] PROVE b \in T \ U[u]
        <3>1. w # u /\ b \in U[w]  BY <1>1
        <3>2. QED  BY <1>3, <3>1 DEF Exactly
    <2>2. ASSUME NEW w \in Users, NEW x \in Users, w # x PROVE V[w] \cap V[x] = {}
        <3>1. V[w] \subseteq U[w] /\ V[x] \subseteq U[x]  BY <1>1
        <3>2. U[w] \cap U[x] = {}  BY <1>3, <2>2 DEF Exactly
        <3>3. QED  BY <3>1, <3>2
    <2>3. QED  BY <2>1, <2>2 DEF Exactly
<1>4. QED  BY <1>2, <1>3 DEF Accounted, V

LEMMA HandedOverAccounts ==
    ASSUME NEW U, NEW T, NEW robbed, Accounted(U, T, robbed),
           NEW u \in Users, NEW v \in Users, u # v
    PROVE  Accounted(HandedOver(U, u, v), T, robbed)
<1> DEFINE V == HandedOver(U, u, v)
<1>1. /\ V[u] = {} /\ V[v] = U[v] \cup U[u]
      /\ \A w \in Users : w # u /\ w # v => V[w] = U[w]
    BY DEF HandedOver
<1> HIDE DEF V
<1>2. Covers(V, T)
    <2>1. ASSUME NEW b \in T PROVE \E w \in Users : b \in V[w]
        <3>1. PICK w \in Users : b \in U[w]  BY DEF Covers, Accounted
        <3>2. w = u \/ w = v => b \in V[v]  BY <1>1, <3>1
        <3>3. w # u /\ w # v => b \in V[w]  BY <1>1, <3>1
        <3>4. QED  BY <3>2, <3>3
    <2>2. QED  BY <2>1 DEF Covers
<1>3. ASSUME Exactly(U, T) PROVE Exactly(V, T)
    <2>1. \A w \in Users : V[w] \subseteq T
        <3>1. \A w \in Users : U[w] \subseteq T  BY <1>3 DEF Exactly
        <3>2. QED  BY <1>1, <3>1
    <2>2. ASSUME NEW w \in Users, NEW x \in Users, w # x, NEW b, b \in V[w], b \in V[x]
          PROVE  FALSE
        <3>1. \A y \in Users : b \in V[y] => y # u /\ (b \in U[y] \/ (y = v /\ b \in U[u]))  BY <1>1
        <3>2. \A y, z \in Users : y # z => ~(b \in U[y] /\ b \in U[z])  BY <1>3 DEF Exactly
        <3>3. QED  BY <2>2, <3>1, <3>2
    <2>3. QED  BY <2>1, <2>2 DEF Exactly
<1>4. QED  BY <1>2, <1>3 DEF Accounted, V

\* A user's three kinds of blocks are taken back.
LEMMA UserGone ==
    ASSUME NEW U, NEW W, NEW T, NEW robbed, Accounted(U, T, robbed),
           NEW x \in -1 .. MaxFds,
           W = [u \in Users |-> IF u[1] = x THEN {} ELSE U[u]]
    PROVE  Accounted(W, T \ (U[<<x, "own">>] \cup U[<<x, "fat">>] \cup U[<<x, "item">>]), robbed)
<1> DEFINE U1 == TakenBack(U, <<x, "own">>)
           U2 == TakenBack(U1, <<x, "fat">>)
           U3 == TakenBack(U2, <<x, "item">>)
           T1 == T \ U[<<x, "own">>]
           T2 == T1 \ U1[<<x, "fat">>]
           T3 == T2 \ U2[<<x, "item">>]
<1>1. /\ <<x, "own">> \in Users /\ <<x, "fat">> \in Users /\ <<x, "item">> \in Users
      /\ <<x, "own">> # <<x, "fat">> /\ <<x, "own">> # <<x, "item">> /\ <<x, "fat">> # <<x, "item">>
    BY DEF Users
<1>2. U1[<<x, "fat">>] = U[<<x, "fat">>] /\ U2[<<x, "item">>] = U[<<x, "item">>]
    BY <1>1 DEF TakenBack
<1>3. \A u \in Users : u[1] = x <=> u \in {<<x, "own">>, <<x, "fat">>, <<x, "item">>}
    BY DEF Users
<1>4. W = U3  BY <1>1, <1>3 DEF TakenBack
<1>5. T3 = T \ (U[<<x, "own">>] \cup U[<<x, "fat">>] \cup U[<<x, "item">>])  BY <1>2
<1> HIDE DEF T1, T2, T3, U1, U2, U3
<1>6. Accounted(U1, T1, robbed)  BY <1>1, TakenBackAccounts DEF U1, T1
<1>7. Accounted(U2, T2, robbed)  BY <1>1, <1>6, TakenBackAccounts DEF U2, T2
<1>8. Accounted(U3, T3, robbed)  BY <1>1, <1>7, TakenBackAccounts DEF U3, T3
<1>9. QED  BY <1>4, <1>5, <1>8

-----------------------------------------------------------------------------
(* The invariant.                                                            *)

ParseCall == [phase : {"parse"}, path : Paths, parts : Nat, own : SUBSET Blocks]
WalkCall == [phase : {"walk"}, path : Paths, parts : Nat, own : SUBSET Blocks,
             fat : SUBSET Blocks, at : Nat, item : Items]
OpenFile == [node : Directory \cup File, path : Paths, item : Items,
             fat : SUBSET Blocks, desc : SUBSET Blocks]
Typed ==
    /\ taken \subseteq Blocks /\ mounted \in {"no", "yes", "never"} /\ astray \in BOOLEAN
    /\ open \in [Fd -> OpenFile \cup {NoFile}]
    /\ call = Idle \/ call \in ParseCall \/ call \in WalkCall
    /\ lost \in [path : SUBSET Blocks, other : SUBSET Blocks, robbed : SUBSET Blocks]

\* Before the file system is mounted nothing is taken.
NothingYet ==
    mounted = "no" =>
        /\ taken = {} /\ call = Idle
        /\ \A d \in Fd : open[d] = NoFile
        /\ lost.path = {} /\ lost.other = {}

PartsNamed == call.phase \in {"parse", "walk"} => call.parts <= Before(call.path)

\* Where a walk stands; one along a path cut short stands still, with no memory
\* to go on. What an item points to without owning it is free.
WalkStands ==
    call.phase = "walk" =>
        /\ call.parts # 0 /\ call.at <= call.parts
        /\ call.item.node = LeadsTo(call.path)[call.at]
        /\ call.parts # Before(call.path) => call.at = 0 /\ Free = {}
        /\ call.item.stale \cap taken = {}
        /\ call.item.loaded => call.item.stale = {}

Accounts == Accounted(Uses, taken, lost.robbed)

LookupInv == Typed /\ NothingYet /\ PartsNamed /\ WalkStands /\ OpensWhatItNames /\ Accounts

LEMMA Kinds ==
    /\ Idle.phase = "idle"
    /\ \A c \in ParseCall : c.phase = "parse" /\ c # Idle
    /\ \A c \in WalkCall : c.phase = "walk" /\ c # Idle
    /\ \A f \in OpenFile : f # NoFile
<1>1. \A f \in OpenFile : f.node # Nowhere  BY PathLookupAssumption DEF OpenFile
<1>2. NoFile.node = Nowhere  BY DEF NoFile
<1>3. QED  BY <1>1, <1>2 DEF Idle, ParseCall, WalkCall

LEMMA BlocksOfUsers ==
    /\ NoBlocks = [own |-> {}, fat |-> {}, item |-> {}]
    /\ CallBlocks(Idle) = NoBlocks
    /\ \A c \in ParseCall : CallBlocks(c) = [own |-> c.own, fat |-> {}, item |-> {}]
    /\ \A c \in WalkCall : CallBlocks(c) = [own |-> c.own, fat |-> c.fat, item |-> c.item.own]
    /\ FileBlocks(NoFile) = NoBlocks
    /\ \A f \in OpenFile : FileBlocks(f) = [own |-> f.desc, fat |-> f.fat, item |-> f.item.own]
<1>1. NoBlocks = [own |-> {}, fat |-> {}, item |-> {}]  BY DEF NoBlocks
<1>2. CallBlocks(Idle) = NoBlocks  BY DEF CallBlocks
<1>3. \A c \in ParseCall : CallBlocks(c) = [own |-> c.own, fat |-> {}, item |-> {}]
    BY <1>1, Kinds DEF CallBlocks
<1>4. \A c \in WalkCall : CallBlocks(c) = [own |-> c.own, fat |-> c.fat, item |-> c.item.own]
    BY Kinds DEF CallBlocks
<1>5. FileBlocks(NoFile) = NoBlocks  BY DEF FileBlocks
<1>6. \A f \in OpenFile : FileBlocks(f) = [own |-> f.desc, fat |-> f.fat, item |-> f.item.own]
    BY Kinds DEF FileBlocks
<1>7. QED  BY <1>1, <1>2, <1>3, <1>4, <1>5, <1>6

UsersNow ==
    /\ Uses = [u \in Users |-> Uses[u]]
    /\ Uses[<<-1, "own">>] = lost.path /\ Uses[<<-1, "fat">>] = FileSystem
    /\ Uses[<<-1, "item">>] = lost.other
    /\ Uses[<<0, "own">>] = CallBlocks(call).own /\ Uses[<<0, "fat">>] = CallBlocks(call).fat
    /\ Uses[<<0, "item">>] = CallBlocks(call).item
    /\ \A d \in Fd : /\ Uses[<<d, "own">>] = FileBlocks(open[d]).own
                     /\ Uses[<<d, "fat">>] = FileBlocks(open[d]).fat
                     /\ Uses[<<d, "item">>] = FileBlocks(open[d]).item

\* Each user's blocks, before and after a step.
LEMMA UsesAre == UsersNow /\ UsersNow'
<1>1. UsersNow
    <2>1. MaxFds \in Nat /\ -1 \in -1 .. MaxFds /\ 0 \in -1 .. MaxFds
        BY PathLookupAssumption
    <2>2. \A d \in Fd : d \in -1 .. MaxFds /\ d # -1 /\ d # 0  BY <2>1 DEF Fd
    <2>3. \A x \in -1 .. MaxFds : /\ Uses[<<x, "own">>] = Held(x).own
                                 /\ Uses[<<x, "fat">>] = Held(x).fat
                                 /\ Uses[<<x, "item">>] = Held(x).item
        BY DEF Uses, Users
    <2>4. Held(-1) = [own |-> lost.path, fat |-> FileSystem, item |-> lost.other]  BY DEF Held
    <2>5. Held(0) = CallBlocks(call)  BY DEF Held
    <2>6. \A d \in Fd : Held(d) = FileBlocks(open[d])  BY <2>2 DEF Held
    <2>7. Uses = [u \in Users |-> Uses[u]]  BY DEF Uses
    <2>8. QED  BY <2>1, <2>2, <2>3, <2>4, <2>5, <2>6, <2>7 DEF UsersNow
<1>2. QED  BY <1>1, PTL

\* Two sharings of the heap are the same when each user has the same blocks.
LEMMA SameUses ==
    ASSUME NEW U, NEW W, U = [u \in Users |-> U[u]], W = [u \in Users |-> W[u]],
           \A x \in {-1, 0} \cup Fd : /\ U[<<x, "own">>] = W[<<x, "own">>]
                                     /\ U[<<x, "fat">>] = W[<<x, "fat">>]
                                     /\ U[<<x, "item">>] = W[<<x, "item">>]
    PROVE  U = W
<1>1. \A x \in -1 .. MaxFds : x \in {-1, 0} \cup Fd  BY PathLookupAssumption DEF Fd
<1>2. ASSUME NEW u \in Users PROVE U[u] = W[u]
    <2>1. PICK x \in -1 .. MaxFds : u = <<x, "own">> \/ u = <<x, "fat">> \/ u = <<x, "item">>
        BY DEF Users
    <2>2. x \in {-1, 0} \cup Fd  BY <1>1
    <2>3. QED  BY <2>1, <2>2
<1>3. QED  BY <1>2

-----------------------------------------------------------------------------
(* The end of a call.                                                        *)

LEMMA IdleStands == ASSUME call' = Idle PROVE PartsNamed' /\ WalkStands'
BY Kinds DEF PartsNamed, WalkStands

LEMMA SameOpen == ASSUME OpensWhatItNames, open' = open PROVE OpensWhatItNames'
BY DEF OpensWhatItNames

LEMMA MountedBefore ==
    ASSUME LookupInv, UNCHANGED mounted, call # Idle \/ mounted # "no" \/ taken # {}
    PROVE  NothingYet'
BY DEF LookupInv, NothingYet

\* The blocks of the call in progress.
LEMMA CallOver ==
    ASSUME LookupInv, call' = Idle, UNCHANGED <<mounted, open>>,
           lost'.path = lost.path, lost'.other = lost.other
    PROVE  Accounted(Uses', taken \ (CallBlocks(call).own \cup CallBlocks(call).fat
                                        \cup CallBlocks(call).item), lost.robbed)
<1>1. PICK U : U = Uses  OBVIOUS
<1>2. PICK W : W = Uses'  OBVIOUS
<1> DEFINE V == [u \in Users |-> IF u[1] = 0 THEN {} ELSE U[u]]
<1>3. MaxFds \in Nat /\ \A x \in {-1, 0} \cup Fd : x \in -1 .. MaxFds  BY PathLookupAssumption DEF Fd
<1>4. \A d \in Fd : d # 0  BY <1>3 DEF Fd
<1>5. /\ W = [u \in Users |-> W[u]]
      /\ \A x \in {-1, 0} \cup Fd : /\ W[<<x, "own">>] = V[<<x, "own">>]
                                   /\ W[<<x, "fat">>] = V[<<x, "fat">>]
                                   /\ W[<<x, "item">>] = V[<<x, "item">>]
    <2>1. \A x \in {-1, 0} \cup Fd :
            /\ V[<<x, "own">>] = IF x = 0 THEN {} ELSE U[<<x, "own">>]
            /\ V[<<x, "fat">>] = IF x = 0 THEN {} ELSE U[<<x, "fat">>]
            /\ V[<<x, "item">>] = IF x = 0 THEN {} ELSE U[<<x, "item">>]
        BY <1>3 DEF Users
    <2> HIDE DEF V
    <2>2. W = [u \in Users |-> W[u]]  BY <1>2, UsesAre DEF UsersNow
    <2>3. /\ W[<<-1, "own">>] = U[<<-1, "own">>] /\ W[<<-1, "fat">>] = U[<<-1, "fat">>]
          /\ W[<<-1, "item">>] = U[<<-1, "item">>]
        BY <1>1, <1>2, UsesAre DEF UsersNow, FileSystem
    <2>4. W[<<0, "own">>] = {} /\ W[<<0, "fat">>] = {} /\ W[<<0, "item">>] = {}
        BY <1>2, UsesAre, BlocksOfUsers DEF UsersNow
    <2>5. \A d \in Fd : /\ W[<<d, "own">>] = U[<<d, "own">>]
                        /\ W[<<d, "fat">>] = U[<<d, "fat">>]
                        /\ W[<<d, "item">>] = U[<<d, "item">>]
        BY <1>1, <1>2, UsesAre DEF UsersNow
    <2>6. QED  BY <1>4, <2>1, <2>2, <2>3, <2>4, <2>5
<1>6. V = [u \in Users |-> V[u]]  OBVIOUS
<1>7. W = V
    <2> HIDE DEF V
    <2>1. QED  BY <1>5, <1>6, SameUses
<1>8. Accounted(U, taken, lost.robbed)  BY <1>1 DEF LookupInv, Accounts
<1>9. /\ U[<<0, "own">>] = CallBlocks(call).own /\ U[<<0, "fat">>] = CallBlocks(call).fat
      /\ U[<<0, "item">>] = CallBlocks(call).item
    BY <1>1, UsesAre DEF UsersNow
<1>10. 0 \in -1 .. MaxFds  BY <1>3
<1> HIDE DEF V
<1>11. Accounted(W, taken \ (U[<<0, "own">>] \cup U[<<0, "fat">>] \cup U[<<0, "item">>]), lost.robbed)
    BY <1>7, <1>8, <1>10, UserGone DEF V
<1>12. QED  BY <1>2, <1>9, <1>11

LEMMA ParseNothingKeeps == ASSUME LookupInv, ParseNothing PROVE LookupInv'
<1>1. call \in ParseCall  BY Kinds DEF LookupInv, Typed, ParseNothing
<1>2. call # Idle  BY <1>1, Kinds
<1>3. taken' = taken \ (CallBlocks(call).own \cup CallBlocks(call).fat \cup CallBlocks(call).item)
    BY <1>1, BlocksOfUsers DEF ParseNothing
<1>4. Accounts'  BY <1>3, CallOver DEF ParseNothing, Accounts
<1>5. Typed'  BY DEF LookupInv, Typed, ParseNothing
<1>6. QED  BY <1>2, <1>4, <1>5, IdleStands, SameOpen, MountedBefore DEF LookupInv, ParseNothing

LEMMA OpenFailsKeeps ==
    ASSUME LookupInv, NEW blocks, OpenFails(blocks), UNCHANGED lost, call # Idle,
           (blocks \cup call.own) \cap taken =
               (CallBlocks(call).own \cup CallBlocks(call).fat \cup CallBlocks(call).item) \cap taken
    PROVE  LookupInv'
<1>1. taken' = taken \ (CallBlocks(call).own \cup CallBlocks(call).fat \cup CallBlocks(call).item)
    BY DEF OpenFails
<1>2. Accounts'  BY <1>1, CallOver DEF OpenFails, Accounts
<1>3. Typed'  BY DEF LookupInv, Typed, OpenFails
<1>4. QED  BY <1>2, <1>3, IdleStands, SameOpen, MountedBefore DEF LookupInv, OpenFails

LEMMA NoDescriptorKeeps == ASSUME LookupInv, NoDescriptor PROVE LookupInv'
<1>1. call \in ParseCall  BY Kinds DEF LookupInv, Typed, NoDescriptor
<1>2. call # Idle  BY <1>1, Kinds
<1>3. {} \cup call.own = CallBlocks(call).own \cup CallBlocks(call).fat \cup CallBlocks(call).item
    BY <1>1, BlocksOfUsers
<1>4. QED  BY <1>2, <1>3, OpenFailsKeeps DEF NoDescriptor

LEMMA WalkTyped ==
    ASSUME LookupInv, call.phase = "walk"
    PROVE  /\ call \in WalkCall /\ call # Idle /\ call.item \in Items
           /\ CallBlocks(call).own = call.own /\ CallBlocks(call).fat = call.fat
           /\ CallBlocks(call).item = call.item.own
<1>1. call \in WalkCall  BY Kinds DEF LookupInv, Typed
<1>2. call.item \in Items  BY <1>1 DEF WalkCall
<1>3. QED  BY <1>1, <1>2, Kinds, BlocksOfUsers

LEMMA NotFoundKeeps == ASSUME LookupInv, NotFound PROVE LookupInv'
<1>1. call.phase = "walk"  BY DEF NotFound, Walking
<1>2. call.item.stale \cap taken = {}  BY <1>1 DEF LookupInv, WalkStands
<1> DEFINE blocks == ItemBlocks(call.item) \cup call.fat
<1>3. (blocks \cup call.own) \cap taken
        = (CallBlocks(call).own \cup CallBlocks(call).fat \cup CallBlocks(call).item) \cap taken
    BY <1>1, <1>2, WalkTyped DEF ItemBlocks
<1>4. OpenFails(blocks) /\ UNCHANGED lost  BY DEF NotFound
<1>5. call # Idle  BY <1>1, WalkTyped
<1> HIDE DEF blocks
<1>6. QED  BY <1>3, <1>4, <1>5, OpenFailsKeeps

LEMMA FopenFullKeeps == ASSUME LookupInv, FopenFull PROVE LookupInv'
<1>1. call.phase = "walk"  BY DEF FopenFull, Walked
<1>2. call.item.stale \cap taken = {}  BY <1>1 DEF LookupInv, WalkStands
<1>3. taken' = taken \ (CallBlocks(call).own \cup CallBlocks(call).fat \cup CallBlocks(call).item)
    BY <1>1, <1>2, WalkTyped DEF FopenFull, ItemBlocks
<1>4. Accounts'  BY <1>3, CallOver DEF FopenFull, Accounts
<1>5. Typed'  BY DEF LookupInv, Typed, FopenFull, Freed
<1>6. QED  BY <1>1, <1>4, <1>5, WalkTyped, IdleStands, SameOpen, MountedBefore DEF LookupInv, FopenFull

-----------------------------------------------------------------------------
(* The steps of a call.                                                      *)

\* Fewer blocks are taken than are accounted for, after a robbery.
LEMMA AccountsShrink ==
    ASSUME NEW U, NEW T, NEW robbed, Accounted(U, T, robbed),
           NEW T1 \in SUBSET T, NEW more, robbed \subseteq more, more = {} => T1 = T
    PROVE  Accounted(U, T1, more)
<1>1. Covers(U, T1)  BY DEF Accounted, Covers
<1>2. more = {} => Exactly(U, T1)  BY DEF Accounted
<1>3. QED  BY <1>1, <1>2 DEF Accounted

\* The call in progress is given blocks.
LEMMA CallGiven ==
    ASSUME LookupInv, UNCHANGED <<mounted, open, lost>>, NEW A, A \cap taken = {},
           NEW p \in {"own", "fat", "item"},
           LET now == CallBlocks(call)  next == CallBlocks(call') IN
               /\ next.own = IF p = "own" THEN now.own \cup A ELSE now.own
               /\ next.fat = IF p = "fat" THEN now.fat \cup A ELSE now.fat
               /\ next.item = IF p = "item" THEN now.item \cup A ELSE now.item
    PROVE  Accounted(Uses', taken \cup A, lost.robbed)
<1>1. PICK U : U = Uses  OBVIOUS
<1>2. PICK W : W = Uses'  OBVIOUS
<1> DEFINE V == Given(U, <<0, p>>, A)
<1>3. MaxFds \in Nat /\ \A x \in {-1, 0} \cup Fd : x \in -1 .. MaxFds  BY PathLookupAssumption DEF Fd
<1>4. \A d \in Fd : d # 0  BY <1>3 DEF Fd
<1>5. /\ W = [u \in Users |-> W[u]]
      /\ \A x \in {-1, 0} \cup Fd : /\ W[<<x, "own">>] = V[<<x, "own">>]
                                   /\ W[<<x, "fat">>] = V[<<x, "fat">>]
                                   /\ W[<<x, "item">>] = V[<<x, "item">>]
    <2>1. \A x \in {-1, 0} \cup Fd :
            /\ V[<<x, "own">>] = IF x = 0 /\ p = "own" THEN U[<<x, "own">>] \cup A ELSE U[<<x, "own">>]
            /\ V[<<x, "fat">>] = IF x = 0 /\ p = "fat" THEN U[<<x, "fat">>] \cup A ELSE U[<<x, "fat">>]
            /\ V[<<x, "item">>] = IF x = 0 /\ p = "item" THEN U[<<x, "item">>] \cup A ELSE U[<<x, "item">>]
        BY <1>3 DEF Users, Given
    <2> HIDE DEF V
    <2>2. W = [u \in Users |-> W[u]]  BY <1>2, UsesAre DEF UsersNow
    <2>3. /\ W[<<-1, "own">>] = U[<<-1, "own">>] /\ W[<<-1, "fat">>] = U[<<-1, "fat">>]
          /\ W[<<-1, "item">>] = U[<<-1, "item">>]
        BY <1>1, <1>2, UsesAre DEF UsersNow, FileSystem
    <2>4. /\ W[<<0, "own">>] = CallBlocks(call').own /\ W[<<0, "fat">>] = CallBlocks(call').fat
          /\ W[<<0, "item">>] = CallBlocks(call').item
          /\ U[<<0, "own">>] = CallBlocks(call).own /\ U[<<0, "fat">>] = CallBlocks(call).fat
          /\ U[<<0, "item">>] = CallBlocks(call).item
        BY <1>1, <1>2, UsesAre DEF UsersNow
    <2>5. \A d \in Fd : /\ W[<<d, "own">>] = U[<<d, "own">>]
                        /\ W[<<d, "fat">>] = U[<<d, "fat">>]
                        /\ W[<<d, "item">>] = U[<<d, "item">>]
        BY <1>1, <1>2, UsesAre DEF UsersNow
    <2>6. QED  BY <1>4, <2>1, <2>2, <2>3, <2>4, <2>5
<1>6. V = [u \in Users |-> V[u]]  BY DEF Given
<1>7. W = V
    <2> HIDE DEF V
    <2>1. QED  BY <1>5, <1>6, SameUses
<1>8. Accounted(U, taken, lost.robbed)  BY <1>1 DEF LookupInv, Accounts
<1>9. <<0, p>> \in Users  BY <1>3 DEF Users
<1>10. Accounted(V, taken \cup A, lost.robbed)  BY <1>8, <1>9, GivenAccounts
<1>11. QED  BY <1>2, <1>7, <1>10

LEMMA FopenKeeps == ASSUME LookupInv, NEW path \in Paths, Fopen(path) PROVE LookupInv'
<1>1. Memory(1) /\ call = Idle /\ mounted = "yes"  BY DEF Fopen, Ready
<1>2. Alloc(1) \subseteq Blocks /\ Alloc(1) \cap taken = {}  BY <1>1, AllocFree
<1>3. PICK A : A = Alloc(1)  OBVIOUS
<1>4. call' = [phase |-> "parse", path |-> path, parts |-> 0, own |-> A]  BY <1>3 DEF Fopen
<1>5. call' \in ParseCall  BY <1>2, <1>3, <1>4 DEF ParseCall
<1>6. Typed'  BY <1>2, <1>5 DEF LookupInv, Typed, Fopen
<1>7. PartsNamed'  BY <1>4, BeforeIs DEF PartsNamed
<1>8. WalkStands'  BY <1>4 DEF WalkStands
<1>9. Accounts'
    <2>1. CallBlocks(call) = NoBlocks /\ CallBlocks(call') = [own |-> A, fat |-> {}, item |-> {}]
        BY <1>1, <1>4, <1>5, BlocksOfUsers
    <2>2. Accounted(Uses', taken \cup A, lost.robbed)
        BY <1>2, <1>3, <2>1, BlocksOfUsers, CallGiven DEF Fopen
    <2>3. QED  BY <1>3, <2>2 DEF Accounts, Fopen
<1>10. QED
    BY <1>1, <1>6, <1>7, <1>8, <1>9, SameOpen, MountedBefore DEF LookupInv, Fopen

\* The next component of a path that goes on belongs to what comes before an
\* empty one.
LEMMA MoreNamed ==
    ASSUME LookupInv, call \in ParseCall
    PROVE  /\ call.path \in Paths /\ call.parts \in Nat /\ call.parts <= Before(call.path)
           /\ More <=> call.parts < Before(call.path)
<1>1. call.path \in Paths /\ call.parts \in Nat  BY DEF ParseCall
<1>2. call.parts <= Before(call.path)  BY Kinds DEF LookupInv, PartsNamed
<1>3. PICK n : n = Before(call.path)  OBVIOUS
<1>4. PICK k : k = call.parts  OBVIOUS
<1>5. PICK path : path = call.path  OBVIOUS
<1>6. /\ Len(path) \in Nat /\ n \in 0 .. Len(path)
      /\ \A i \in 1 .. n : path[i] # NoName
      /\ n = Len(path) \/ path[n + 1] = NoName
    BY <1>1, <1>3, <1>5, BeforeIs
<1>7. k \in Nat /\ k <= n  BY <1>1, <1>2, <1>3, <1>4
<1>8. (k < Len(path) /\ path[k + 1] # NoName) <=> k < n
    <2>1. k < n => k < Len(path) /\ k + 1 \in 1 .. n  BY <1>6, <1>7
    <2>2. ~(k < n) => k = n  BY <1>6, <1>7
    <2>3. QED  BY <1>6, <2>1, <2>2
<1>9. QED  BY <1>1, <1>2, <1>3, <1>4, <1>5, <1>8 DEF More

LEMMA ParsePartKeeps == ASSUME LookupInv, ParsePart PROVE LookupInv'
<1>1. call \in ParseCall  BY Kinds DEF LookupInv, Typed, ParsePart
<1>2. Alloc(2) \subseteq Blocks /\ Alloc(2) \cap taken = {}  BY AllocFree DEF ParsePart
<1>3. PICK A : A = Alloc(2)  OBVIOUS
<1>4. call' = [call EXCEPT !.parts = @ + 1, !.own = @ \cup A]  BY <1>3 DEF ParsePart
<1>5. /\ call' \in ParseCall /\ call'.parts = call.parts + 1 /\ call'.path = call.path
      /\ call'.own = call.own \cup A
    <2>1. call.parts + 1 \in Nat /\ call.own \cup A \in SUBSET Blocks
        BY <1>1, <1>2, <1>3 DEF ParseCall
    <2>2. PICK parts : parts = call.parts + 1  OBVIOUS
    <2>3. PICK own : own = call.own \cup A  OBVIOUS
    <2>4. parts \in Nat /\ own \in SUBSET Blocks  BY <2>1, <2>2, <2>3
    <2>5. PICK c \in ParseCall : c = call  BY <1>1
    <2>6. PICK d : d = [c EXCEPT !.parts = parts, !.own = own]  OBVIOUS
    <2>7. call' = d  BY <1>4, <2>2, <2>3, <2>5, <2>6
    <2>8. d \in ParseCall /\ d.parts = parts /\ d.path = c.path /\ d.own = own
        BY <2>4, <2>6 DEF ParseCall
    <2>9. QED  BY <2>2, <2>3, <2>5, <2>7, <2>8
<1>6. Typed'  BY <1>2, <1>5 DEF LookupInv, Typed, ParsePart
<1>7. PartsNamed'
    <2>1. call.parts < Before(call.path) /\ call.parts \in Nat  BY <1>1, MoreNamed DEF ParsePart
    <2>2. Before(call.path) \in Nat  BY <1>1, MoreNamed, BeforeIs
    <2>3. call.parts + 1 <= Before(call.path)  BY <2>1, <2>2
    <2>4. QED  BY <1>5, <2>3 DEF PartsNamed
<1>8. WalkStands'  BY <1>5, Kinds DEF WalkStands
<1>9. Accounts'
    <2>1. /\ CallBlocks(call) = [own |-> call.own, fat |-> {}, item |-> {}]
          /\ CallBlocks(call') = [own |-> call.own \cup A, fat |-> {}, item |-> {}]
        BY <1>1, <1>5, BlocksOfUsers
    <2>2. Accounted(Uses', taken \cup A, lost.robbed)
        BY <1>2, <1>3, <2>1, CallGiven DEF ParsePart
    <2>3. QED  BY <1>3, <2>2 DEF Accounts, ParsePart
<1>10. QED
    BY <1>1, <1>6, <1>7, <1>8, <1>9, Kinds, SameOpen, MountedBefore DEF LookupInv, ParsePart

\* A list of parts that ends early ends for lack of memory, and the descriptor
\* then takes the last block (pparser.c:44, fat16.c:634).
LEMMA ParseEndsKeeps == ASSUME LookupInv, ParseEnds PROVE LookupInv'
<1>1. call \in ParseCall  BY Kinds DEF LookupInv, Typed, ParseEnds
<1>2. Memory(1) /\ Alloc(1) \subseteq Blocks /\ Alloc(1) \cap taken = {}  BY AllocFree DEF ParseEnds
<1>3. PICK A : A = Alloc(1)  OBVIOUS
<1>4. call' = [phase |-> "walk", path |-> call.path, parts |-> call.parts, own |-> call.own,
               fat |-> A, at |-> 0, item |-> RootItem]
    BY <1>3 DEF ParseEnds
<1>5. RootItem \in Items /\ RootItem.node = Root /\ RootItem.own = {} /\ RootItem.stale = {}
    BY PathLookupAssumption DEF RootItem, Items
<1>6. call' \in WalkCall  BY <1>1, <1>2, <1>3, <1>4, <1>5 DEF ParseCall, WalkCall
<1>7. Typed'  BY <1>2, <1>6 DEF LookupInv, Typed, ParseEnds
<1>8. PartsNamed'  BY <1>1, <1>4, MoreNamed DEF PartsNamed
<1>9. WalkStands'
    <2>1. call.parts # 0 /\ 0 <= call.parts  BY <1>1, MoreNamed DEF ParseEnds
    <2>2. LeadsTo(call.path)[0] = Root  BY <1>1, MoreNamed, LeadsToUnfold
    <2>3. ASSUME call.parts # Before(call.path) PROVE Blocks \ (taken \cup A) = {}
        <3>1. Before(call.path) \in Nat  BY <1>1, MoreNamed, BeforeIs
        <3>2. More  BY <1>1, <2>3, <3>1, MoreNamed
        <3>3. ~Memory(2)  BY <3>2 DEF ParseEnds
        <3>4. QED  BY <1>2, <1>3, <3>3, LastBlock
    <2>4. Free' = Blocks \ (taken \cup A)  BY <1>3 DEF Free, ParseEnds, Blocks
    <2>5. /\ call'.parts = call.parts /\ call'.at = 0 /\ call'.path = call.path
          /\ call'.item = RootItem
        BY <1>4
    <2>6. QED  BY <1>5, <2>1, <2>2, <2>3, <2>4, <2>5 DEF WalkStands
<1>10. Accounts'
    <2>1. /\ CallBlocks(call) = [own |-> call.own, fat |-> {}, item |-> {}]
          /\ CallBlocks(call') = [own |-> call.own, fat |-> A, item |-> {}]
        BY <1>1, <1>4, <1>5, <1>6, BlocksOfUsers
    <2>2. /\ CallBlocks(call').own = CallBlocks(call).own
          /\ CallBlocks(call').fat = CallBlocks(call).fat \cup A
          /\ CallBlocks(call').item = CallBlocks(call).item
        BY <2>1
    <2>3. UNCHANGED <<mounted, open, lost>> /\ A \cap taken = {}  BY <1>2, <1>3 DEF ParseEnds
    <2>4. Accounted(Uses', taken \cup A, lost.robbed)  BY <2>2, <2>3, CallGiven
    <2>5. QED  BY <1>3, <2>4 DEF Accounts, ParseEnds
<1>11. QED
    BY <1>1, <1>7, <1>8, <1>9, <1>10, Kinds, SameOpen, MountedBefore DEF LookupInv, ParseEnds

\* The item of an entry owns blocks that were free; the directory it may point to
\* without owning it is free (fat16.c:545).
LEMMA NewItemIs ==
    ASSUME NEW node \in Directory \cup File, Memory(1)
    PROVE  LET next == NewItem(node) IN
           /\ next \in Items /\ next.node = node
           /\ next.own \cap taken = {} /\ next.stale \cap taken = {} /\ next.stale \cap next.own = {}
           /\ next.loaded => next.stale = {}
<1>1. Need(node) \in Nat  BY DEF Need
<1>2. PICK next : next = NewItem(node)  OBVIOUS
<1>3. CASE Memory(Need(node))
    <2>1. PICK A : A = Alloc(Need(node))  OBVIOUS
    <2>2. A \in SUBSET Blocks /\ A \cap taken = {}  BY <1>1, <1>3, <2>1, AllocFree
    <2>3. next = [node |-> node, own |-> A, stale |-> {}, loaded |-> TRUE]
        BY <1>2, <1>3, <2>1 DEF NewItem
    <2>4. next \in Items  BY <2>2, <2>3 DEF Items
    <2>5. QED  BY <1>2, <2>2, <2>3, <2>4
<1>4. CASE ~Memory(Need(node))
    <2>1. PICK A : A = Alloc(1)  OBVIOUS
    <2>2. PICK stale : stale = IF Memory(2) THEN {NthFree(2)} ELSE {}  OBVIOUS
    <2>3. A \in SUBSET Blocks /\ A \cap taken = {}  BY <2>1, AllocFree
    <2>4. stale \in SUBSET Blocks /\ stale \cap taken = {} /\ stale \cap A = {}
        <3>1. CASE Memory(2)
            <4>1. NthFree(2) \in Free /\ NthFree(2) \notin A  BY <2>1, <3>1, SecondIsAnother
            <4>2. stale = {NthFree(2)}  BY <2>2, <3>1
            <4>3. QED  BY <4>1, <4>2 DEF Free
        <3>2. CASE ~Memory(2)
            <4>1. stale = {}  BY <2>2, <3>2
            <4>2. QED  BY <4>1
        <3>3. QED  BY <3>1, <3>2
    <2>5. next = [node |-> node, own |-> A, loaded |-> FALSE, stale |-> stale]
        BY <1>2, <1>4, <2>1, <2>2 DEF NewItem
    <2>6. next \in Items  BY <2>3, <2>4, <2>5 DEF Items
    <2>7. QED  BY <1>2, <2>3, <2>4, <2>5, <2>6
<1>5. QED  BY <1>3, <1>4

\* The call gives its item back for another one.
LEMMA ItemChanged ==
    ASSUME LookupInv, UNCHANGED <<mounted, open, lost>>, NEW A, A \cap taken = {},
           CallBlocks(call').own = CallBlocks(call).own,
           CallBlocks(call').fat = CallBlocks(call).fat,
           CallBlocks(call').item = A,
           taken' = (taken \cup A) \ CallBlocks(call).item
    PROVE  Accounts'
<1>1. PICK U : U = Uses  OBVIOUS
<1>2. PICK W : W = Uses'  OBVIOUS
<1>3. MaxFds \in Nat /\ \A x \in {-1, 0} \cup Fd : x \in -1 .. MaxFds  BY PathLookupAssumption DEF Fd
<1>4. \A d \in Fd : d # 0  BY <1>3 DEF Fd
<1>5. <<0, "item">> \in Users  BY <1>3 DEF Users
<1> DEFINE V == TakenBack(U, <<0, "item">>)
           Z == Given(V, <<0, "item">>, A)
           Left == taken \ U[<<0, "item">>]
<1>6. W = Z
    <2>1. \A x \in {-1, 0} \cup Fd :
            /\ Z[<<x, "own">>] = U[<<x, "own">>]
            /\ Z[<<x, "fat">>] = U[<<x, "fat">>]
            /\ Z[<<x, "item">>] = IF x = 0 THEN A ELSE U[<<x, "item">>]
        BY <1>3 DEF Users, Given, TakenBack
    <2>2. Z = [u \in Users |-> Z[u]]  BY DEF Given
    <2> HIDE DEF Z
    <2>3. W = [u \in Users |-> W[u]]  BY <1>2, UsesAre DEF UsersNow
    <2>4. /\ W[<<-1, "own">>] = U[<<-1, "own">>] /\ W[<<-1, "fat">>] = U[<<-1, "fat">>]
          /\ W[<<-1, "item">>] = U[<<-1, "item">>]
        BY <1>1, <1>2, UsesAre DEF UsersNow, FileSystem
    <2>5. W[<<0, "own">>] = U[<<0, "own">>] /\ W[<<0, "fat">>] = U[<<0, "fat">>] /\ W[<<0, "item">>] = A
        BY <1>1, <1>2, UsesAre DEF UsersNow
    <2>6. \A d \in Fd : /\ W[<<d, "own">>] = U[<<d, "own">>]
                        /\ W[<<d, "fat">>] = U[<<d, "fat">>]
                        /\ W[<<d, "item">>] = U[<<d, "item">>]
        BY <1>1, <1>2, UsesAre DEF UsersNow
    <2>7. \A x \in {-1, 0} \cup Fd : /\ W[<<x, "own">>] = Z[<<x, "own">>]
                                     /\ W[<<x, "fat">>] = Z[<<x, "fat">>]
                                     /\ W[<<x, "item">>] = Z[<<x, "item">>]
        BY <1>4, <2>1, <2>4, <2>5, <2>6
    <2>8. PICK z : z = Z  OBVIOUS
    <2>9. /\ z = [u \in Users |-> z[u]]
          /\ \A x \in {-1, 0} \cup Fd : /\ W[<<x, "own">>] = z[<<x, "own">>]
                                       /\ W[<<x, "fat">>] = z[<<x, "fat">>]
                                       /\ W[<<x, "item">>] = z[<<x, "item">>]
        BY <2>2, <2>7, <2>8
    <2>10. W = z  BY <2>3, <2>9, SameUses
    <2>11. QED  BY <2>8, <2>10
<1>7. Accounted(U, taken, lost.robbed)  BY <1>1 DEF LookupInv, Accounts
<1>8. U[<<0, "item">>] = CallBlocks(call).item  BY <1>1, UsesAre DEF UsersNow
<1> HIDE DEF V, Z, Left
<1>9. Accounted(V, Left, lost.robbed)  BY <1>5, <1>7, TakenBackAccounts DEF V, Left
<1>10. A \cap Left = {}  BY DEF Left
<1>11. Accounted(Z, Left \cup A, lost.robbed)  BY <1>5, <1>9, <1>10, GivenAccounts DEF Z
<1>12. taken' \in SUBSET (Left \cup A)  BY <1>8 DEF Left
<1>13. lost.robbed = {} => taken' = Left \cup A
    <2>1. lost.robbed = {} => U[<<0, "item">>] \subseteq taken
        BY <1>5, <1>7 DEF Accounted, Exactly
    <2>2. QED  BY <1>8, <2>1 DEF Left
<1>14. Accounted(Z, taken', lost.robbed)  BY <1>11, <1>12, <1>13, AccountsShrink
<1>15. QED  BY <1>2, <1>6, <1>14 DEF Accounts

LEMMA DescendKeeps == ASSUME LookupInv, Descend PROVE LookupInv'
<1>1. call.phase = "walk" /\ call.at < call.parts  BY DEF Descend, Walking
<1>2. PICK c \in WalkCall : c = call  BY <1>1, WalkTyped
<1>3. PICK node : node = Tree[c.item.node][Name]  OBVIOUS
<1>4. /\ c.item.node \in Directory /\ c.item.loaded /\ Name \in DOMAIN Tree[c.item.node]
      /\ Memory(1)
    BY <1>2 DEF Descend, Found
<1>5. node \in Directory \cup File  BY <1>3, <1>4, PathLookupAssumption
<1>6. PICK next : next = NewItem(node)  OBVIOUS
<1>7. /\ next \in Items /\ next.node = node
      /\ next.own \cap taken = {} /\ next.stale \cap taken = {} /\ next.stale \cap next.own = {}
      /\ next.loaded => next.stale = {}
    BY <1>4, <1>5, <1>6, NewItemIs
<1>8. /\ c.path \in Paths /\ c.parts \in Nat /\ c.at \in Nat /\ c.parts # 0
      /\ c.parts <= Before(c.path) /\ c.item.node = LeadsTo(c.path)[c.at]
      /\ c.parts # Before(c.path) => Free = {}
      /\ c.item.stale = {}
    <2>1. c.path \in Paths /\ c.parts \in Nat /\ c.at \in Nat  BY DEF WalkCall
    <2>2. QED  BY <1>1, <1>2, <1>4, <2>1 DEF LookupInv, PartsNamed, WalkStands
<1>9. taken' = (taken \cup next.own) \ c.item.own
    BY <1>2, <1>3, <1>6, <1>8 DEF Descend, ItemBlocks
<1>10. /\ call' \in WalkCall /\ call'.path = c.path /\ call'.parts = c.parts /\ call'.own = c.own
       /\ call'.fat = c.fat /\ call'.at = c.at + 1 /\ call'.item = next /\ call'.phase = "walk"
    <2>1. PICK at : at = c.at + 1  OBVIOUS
    <2>2. at \in Nat  BY <1>8, <2>1
    <2>3. PICK d : d = [c EXCEPT !.item = next, !.at = at]  OBVIOUS
    <2>4. call' = d  BY <1>2, <1>3, <1>6, <2>1, <2>3 DEF Descend
    <2>5. /\ d \in WalkCall /\ d.path = c.path /\ d.parts = c.parts /\ d.own = c.own
          /\ d.fat = c.fat /\ d.at = at /\ d.item = next /\ d.phase = "walk"
        BY <1>7, <2>2, <2>3 DEF WalkCall
    <2>6. QED  BY <2>1, <2>4, <2>5
<1>11. Typed'
    <2>1. next.own \subseteq Blocks  BY <1>7 DEF Items
    <2>2. QED  BY <1>9, <1>10, <2>1 DEF LookupInv, Typed, Descend
<1>12. PartsNamed'  BY <1>8, <1>10 DEF PartsNamed
<1>13. c.parts = Before(c.path)
    <2>1. Free # {}  BY <1>4, NoneFree
    <2>2. QED  BY <1>8, <2>1
<1>14. LeadsTo(c.path)[c.at + 1] = node
    <2>1. Before(c.path) <= Len(c.path) /\ Len(c.path) \in Nat /\ Before(c.path) \in Nat
        BY <1>8, BeforeIs
    <2>2. c.at + 1 \in 1 .. Len(c.path) /\ (c.at + 1) - 1 = c.at
        BY <1>1, <1>2, <1>8, <1>13, <2>1
    <2>3. LeadsTo(c.path)[c.at + 1] = Step(LeadsTo(c.path)[(c.at + 1) - 1], c.path[c.at + 1])
        BY <1>8, <2>2, LeadsToUnfold
    <2>4. LeadsTo(c.path)[c.at + 1] = Step(c.item.node, Name)  BY <1>2, <1>8, <2>2, <2>3 DEF Name
    <2>5. QED  BY <1>3, <1>4, <2>4 DEF Step
<1>15. WalkStands'
    <2>1. c.at + 1 <= c.parts  BY <1>1, <1>2, <1>8
    <2>2. next.stale \cap taken' = {}  BY <1>7, <1>9
    <2>3. QED  BY <1>7, <1>8, <1>10, <1>13, <1>14, <2>1, <2>2 DEF WalkStands
<1>16. Accounts'
    <2>1. /\ CallBlocks(call') = [own |-> c.own, fat |-> c.fat, item |-> next.own]
          /\ CallBlocks(call) = [own |-> c.own, fat |-> c.fat, item |-> c.item.own]
        BY <1>2, <1>10, BlocksOfUsers
    <2>2. UNCHANGED <<mounted, open, lost>>  BY DEF Descend
    <2>3. /\ CallBlocks(call').own = CallBlocks(call).own
          /\ CallBlocks(call').fat = CallBlocks(call).fat
          /\ CallBlocks(call').item = next.own /\ CallBlocks(call).item = c.item.own
        BY <2>1
    <2>4. taken' = (taken \cup next.own) \ CallBlocks(call).item  BY <1>9, <2>3
    <2>5. QED  BY <1>7, <2>2, <2>3, <2>4, ItemChanged
<1>17. QED
    BY <1>1, <1>11, <1>12, <1>15, <1>16, WalkTyped, SameOpen, MountedBefore DEF LookupInv, Descend

-----------------------------------------------------------------------------
(* Blocks that are lost, and those of a file that is opened and closed.      *)

\* The six kinds of users of the file system, what is lost and the call.
LEMMA UserNames ==
    /\ MaxFds \in Nat /\ \A d \in Fd : d # 0 /\ d # -1
    /\ \A x \in {-1, 0} \cup Fd : x \in -1 .. MaxFds
    /\ \A x \in {-1, 0} \cup Fd :
            <<x, "own">> \in Users /\ <<x, "fat">> \in Users /\ <<x, "item">> \in Users
    /\ \A p, q : <<0, p>> # <<-1, q>> /\ \A d \in Fd : <<d, p>> # <<0, q>> /\ <<d, p>> # <<-1, q>>
<1>1. MaxFds \in Nat /\ MaxFds # 0  BY PathLookupAssumption
<1>2. \A x \in {-1, 0} \cup Fd : x \in -1 .. MaxFds  BY <1>1 DEF Fd
<1>3. \A d \in Fd : d # 0 /\ d # -1  BY <1>1 DEF Fd
<1>4. \A x, y, p, q : <<x, p>> = <<y, q>> => x = y  OBVIOUS
<1>5. 0 # -1  OBVIOUS
<1>6. \A p, q : <<0, p>> # <<-1, q>> /\ \A d \in Fd : <<d, p>> # <<0, q>> /\ <<d, p>> # <<-1, q>>
    BY <1>3, <1>4, <1>5, Zenon
<1>7. \A x \in {-1, 0} \cup Fd :
            <<x, "own">> \in Users /\ <<x, "fat">> \in Users /\ <<x, "item">> \in Users
    BY <1>2 DEF Users
<1>8. QED  BY <1>1, <1>2, <1>3, <1>6, <1>7

LEMMA NotADirectoryKeeps == ASSUME LookupInv, NotADirectory PROVE LookupInv'
<1>1. call.phase = "walk"  BY DEF NotADirectory, Walking
<1>2. PICK c \in WalkCall : c = call  BY <1>1, WalkTyped
<1>3. /\ call' = Idle /\ UNCHANGED <<mounted, open>> /\ astray' \in BOOLEAN
      /\ taken' = taken \ (c.fat \cup c.own)
      /\ lost' = [lost EXCEPT !.other = @ \cup c.item.own]
    BY <1>2 DEF NotADirectory, OpenFails
<1>4. /\ lost' \in [path : SUBSET Blocks, other : SUBSET Blocks, robbed : SUBSET Blocks]
      /\ lost'.path = lost.path /\ lost'.other = lost.other \cup c.item.own
      /\ lost'.robbed = lost.robbed
    <2>1. c.item.own \in SUBSET Blocks  BY DEF WalkCall, Items
    <2>2. QED  BY <1>3, <2>1 DEF LookupInv, Typed
<1>5. Typed'  BY <1>3, <1>4 DEF LookupInv, Typed
<1>6. PICK U : U = Uses  OBVIOUS
<1>7. PICK W : W = Uses'  OBVIOUS
<1>8. PICK V : V = HandedOver(U, <<0, "item">>, <<-1, "item">>)  OBVIOUS
<1>9. PICK Z : Z = [u \in Users |-> IF u[1] = 0 THEN {} ELSE V[u]]  OBVIOUS
<1>10. /\ U[<<0, "own">>] = c.own /\ U[<<0, "fat">>] = c.fat /\ U[<<0, "item">>] = c.item.own
       /\ U[<<-1, "own">>] = lost.path /\ U[<<-1, "fat">>] = FileSystem /\ U[<<-1, "item">>] = lost.other
    BY <1>1, <1>2, <1>6, UsesAre, WalkTyped DEF UsersNow
<1>11. V[<<0, "own">>] = c.own /\ V[<<0, "fat">>] = c.fat /\ V[<<0, "item">>] = {}
    BY <1>8, <1>10, UserNames DEF HandedOver
<1>12. W = Z
    <2>1. \A x \in {-1, 0} \cup Fd :
            /\ Z[<<x, "own">>] = IF x = 0 THEN {} ELSE U[<<x, "own">>]
            /\ Z[<<x, "fat">>] = IF x = 0 THEN {} ELSE U[<<x, "fat">>]
            /\ Z[<<x, "item">>] = IF x = 0 THEN {}
                                  ELSE IF x = -1 THEN lost.other \cup c.item.own ELSE U[<<x, "item">>]
        BY <1>8, <1>9, <1>10, UserNames DEF HandedOver
    <2>2. W[<<0, "own">>] = {} /\ W[<<0, "fat">>] = {} /\ W[<<0, "item">>] = {}
        BY <1>3, <1>7, UsesAre, BlocksOfUsers DEF UsersNow
    <2>3. /\ W[<<-1, "own">>] = U[<<-1, "own">>] /\ W[<<-1, "fat">>] = U[<<-1, "fat">>]
          /\ W[<<-1, "item">>] = lost.other \cup c.item.own
        BY <1>3, <1>4, <1>7, <1>10, UsesAre DEF UsersNow, FileSystem
    <2>4. \A d \in Fd : /\ W[<<d, "own">>] = U[<<d, "own">>]
                        /\ W[<<d, "fat">>] = U[<<d, "fat">>]
                        /\ W[<<d, "item">>] = U[<<d, "item">>]
        BY <1>3, <1>6, <1>7, UsesAre DEF UsersNow
    <2>5. \A x \in {-1, 0} \cup Fd : /\ W[<<x, "own">>] = Z[<<x, "own">>]
                                     /\ W[<<x, "fat">>] = Z[<<x, "fat">>]
                                     /\ W[<<x, "item">>] = Z[<<x, "item">>]
        BY <2>1, <2>2, <2>3, <2>4, UserNames
    <2>6. W = [u \in Users |-> W[u]]  BY <1>7, UsesAre DEF UsersNow
    <2>7. Z = [u \in Users |-> Z[u]]  BY <1>9
    <2>8. QED  BY <2>5, <2>6, <2>7, SameUses
<1>13. Accounted(U, taken, lost.robbed)  BY <1>6 DEF LookupInv, Accounts
<1>14. Accounted(V, taken, lost.robbed)
    <2>1. <<0, "item">> \in Users /\ <<-1, "item">> \in Users /\ <<0, "item">> # <<-1, "item">>
        BY UserNames
    <2>2. QED  BY <1>8, <1>13, <2>1, HandedOverAccounts
<1>15. Accounted(Z, taken \ (V[<<0, "own">>] \cup V[<<0, "fat">>] \cup V[<<0, "item">>]), lost.robbed)
    <2>1. 0 \in -1 .. MaxFds  BY UserNames
    <2>2. QED  BY <1>9, <1>14, <2>1, UserGone
<1>16. taken' = taken \ (V[<<0, "own">>] \cup V[<<0, "fat">>] \cup V[<<0, "item">>])
    BY <1>3, <1>11
<1>17. Accounts'  BY <1>4, <1>7, <1>12, <1>15, <1>16 DEF Accounts
<1>18. QED
    BY <1>1, <1>3, <1>5, <1>17, WalkTyped, IdleStands, SameOpen, MountedBefore DEF LookupInv

LEMMA FopenPhantomKeeps == ASSUME LookupInv, FopenPhantom PROVE LookupInv'
<1>1. call.phase = "walk"  BY DEF FopenPhantom, Walked
<1>2. PICK c \in WalkCall : c = call  BY <1>1, WalkTyped
<1>3. /\ call' = Idle /\ UNCHANGED <<taken, mounted, open, astray>>
      /\ lost' = [lost EXCEPT !.path = @ \cup c.own, !.other = @ \cup c.item.own \cup c.fat]
    BY <1>2 DEF FopenPhantom
<1>4. /\ lost' \in [path : SUBSET Blocks, other : SUBSET Blocks, robbed : SUBSET Blocks]
      /\ lost'.path = lost.path \cup c.own /\ lost'.other = (lost.other \cup c.item.own) \cup c.fat
      /\ lost'.robbed = lost.robbed
    <2>1. c.item.own \in SUBSET Blocks /\ c.own \in SUBSET Blocks /\ c.fat \in SUBSET Blocks
        BY DEF WalkCall, Items
    <2>2. PICK path : path = lost.path \cup c.own  OBVIOUS
    <2>3. PICK other : other = (lost.other \cup c.item.own) \cup c.fat  OBVIOUS
    <2>4. lost \in [path : SUBSET Blocks, other : SUBSET Blocks, robbed : SUBSET Blocks]
        BY DEF LookupInv, Typed
    <2>5. path \in SUBSET Blocks /\ other \in SUBSET Blocks  BY <2>1, <2>2, <2>3, <2>4
    <2>6. PICK l \in [path : SUBSET Blocks, other : SUBSET Blocks, robbed : SUBSET Blocks] : l = lost
        BY <2>4
    <2>7. PICK m : m = [l EXCEPT !.path = path, !.other = other]  OBVIOUS
    <2>8. lost' = m  BY <1>3, <2>2, <2>3, <2>6, <2>7
    <2>9. /\ m \in [path : SUBSET Blocks, other : SUBSET Blocks, robbed : SUBSET Blocks]
          /\ m.path = path /\ m.other = other /\ m.robbed = l.robbed
        BY <2>5, <2>7
    <2>10. QED  BY <2>2, <2>3, <2>6, <2>8, <2>9
<1>5. Typed'  BY <1>3, <1>4 DEF LookupInv, Typed
<1>6. PICK U : U = Uses  OBVIOUS
<1>7. PICK W : W = Uses'  OBVIOUS
<1>8. PICK V1 : V1 = HandedOver(U, <<0, "own">>, <<-1, "own">>)  OBVIOUS
<1>9. PICK V2 : V2 = HandedOver(V1, <<0, "item">>, <<-1, "item">>)  OBVIOUS
<1>10. PICK Z : Z = HandedOver(V2, <<0, "fat">>, <<-1, "item">>)  OBVIOUS
<1>11. /\ U[<<0, "own">>] = c.own /\ U[<<0, "fat">>] = c.fat /\ U[<<0, "item">>] = c.item.own
       /\ U[<<-1, "own">>] = lost.path /\ U[<<-1, "fat">>] = FileSystem /\ U[<<-1, "item">>] = lost.other
    BY <1>1, <1>2, <1>6, UsesAre, WalkTyped DEF UsersNow
<1>12. W = Z
    <2>1. \A x \in {-1, 0} \cup Fd :
            /\ V1[<<x, "own">>] = IF x = 0 THEN {}
                                  ELSE IF x = -1 THEN lost.path \cup c.own ELSE U[<<x, "own">>]
            /\ V1[<<x, "fat">>] = U[<<x, "fat">>] /\ V1[<<x, "item">>] = U[<<x, "item">>]
        BY <1>8, <1>11, UserNames DEF HandedOver
    <2>2. \A x \in {-1, 0} \cup Fd :
            /\ V2[<<x, "own">>] = V1[<<x, "own">>] /\ V2[<<x, "fat">>] = U[<<x, "fat">>]
            /\ V2[<<x, "item">>] = IF x = 0 THEN {}
                                   ELSE IF x = -1 THEN lost.other \cup c.item.own ELSE U[<<x, "item">>]
        BY <1>9, <1>11, <2>1, UserNames DEF HandedOver
    <2>3. \A x \in {-1, 0} \cup Fd :
            /\ Z[<<x, "own">>] = V1[<<x, "own">>]
            /\ Z[<<x, "fat">>] = IF x = 0 THEN {} ELSE U[<<x, "fat">>]
            /\ Z[<<x, "item">>] = IF x = -1 THEN (lost.other \cup c.item.own) \cup c.fat
                                  ELSE V2[<<x, "item">>]
        BY <1>10, <1>11, <2>2, UserNames DEF HandedOver
    <2>4. W[<<0, "own">>] = {} /\ W[<<0, "fat">>] = {} /\ W[<<0, "item">>] = {}
        BY <1>3, <1>7, UsesAre, BlocksOfUsers DEF UsersNow
    <2>5. /\ W[<<-1, "own">>] = lost.path \cup c.own /\ W[<<-1, "fat">>] = U[<<-1, "fat">>]
          /\ W[<<-1, "item">>] = (lost.other \cup c.item.own) \cup c.fat
        BY <1>3, <1>4, <1>7, <1>11, UsesAre DEF UsersNow, FileSystem
    <2>6. \A d \in Fd : /\ W[<<d, "own">>] = U[<<d, "own">>]
                        /\ W[<<d, "fat">>] = U[<<d, "fat">>]
                        /\ W[<<d, "item">>] = U[<<d, "item">>]
        BY <1>3, <1>6, <1>7, UsesAre DEF UsersNow
    <2>7. \A x \in {-1, 0} \cup Fd : /\ W[<<x, "own">>] = Z[<<x, "own">>]
                                     /\ W[<<x, "fat">>] = Z[<<x, "fat">>]
                                     /\ W[<<x, "item">>] = Z[<<x, "item">>]
        BY <2>1, <2>2, <2>3, <2>4, <2>5, <2>6, UserNames
    <2>8. W = [u \in Users |-> W[u]]  BY <1>7, UsesAre DEF UsersNow
    <2>9. Z = [u \in Users |-> Z[u]]  BY <1>10 DEF HandedOver
    <2>10. QED  BY <2>7, <2>8, <2>9, SameUses
<1>13. Accounted(U, taken, lost.robbed)  BY <1>6 DEF LookupInv, Accounts
<1>14. Accounted(Z, taken, lost.robbed)
    <2>1. /\ \A p \in {"own", "fat", "item"} : <<0, p>> \in Users /\ <<-1, p>> \in Users
          /\ \A p, q \in {"own", "fat", "item"} : <<0, p>> # <<-1, q>>
        BY UserNames
    <2>2. Accounted(V1, taken, lost.robbed)  BY <1>8, <1>13, <2>1, HandedOverAccounts
    <2>3. Accounted(V2, taken, lost.robbed)  BY <1>9, <2>1, <2>2, HandedOverAccounts
    <2>4. QED  BY <1>10, <2>1, <2>3, HandedOverAccounts
<1>15. Accounts'  BY <1>3, <1>4, <1>7, <1>12, <1>14 DEF Accounts
<1>16. QED
    BY <1>1, <1>3, <1>5, <1>15, WalkTyped, IdleStands, SameOpen, MountedBefore DEF LookupInv

\* What is opened is what the whole path names: a walk along a path cut short has
\* not moved, and the walk of a path without parts does not begin.
LEMMA WalkedWhole ==
    ASSUME LookupInv, Walked
    PROVE  call.item.node = Leads(call.path)
<1>1. call.phase = "walk" /\ call.at = call.parts  BY DEF Walked
<1>2. call.parts # 0 /\ call.item.node = LeadsTo(call.path)[call.at]
    BY <1>1 DEF LookupInv, WalkStands
<1>3. call.parts = Before(call.path)  BY <1>1, <1>2 DEF LookupInv, WalkStands
<1>4. QED  BY <1>1, <1>2, <1>3 DEF Leads

LEMMA FopenDoneKeeps == ASSUME LookupInv, FopenDone PROVE LookupInv'
<1>1. call.phase = "walk" /\ Memory(1)  BY DEF FopenDone, Walked
<1>2. PICK c \in WalkCall : c = call  BY <1>1, WalkTyped
<1>3. PICK A : A = Alloc(1)  OBVIOUS
<1>4. A \in SUBSET Blocks /\ A \cap taken = {}  BY <1>1, <1>3, AllocFree
<1>5. PICK d \in FreeDescriptors :
        open' = [e \in Fd \cup {d} |->
            IF e # d THEN open[e]
            ELSE [node |-> call.item.node, path |-> call.path, item |-> call.item,
                  fat |-> call.fat, desc |-> Alloc(1)]]
    BY DEF FopenDone
<1>6. PICK file : file = [node |-> c.item.node, path |-> c.path, item |-> c.item,
                         fat |-> c.fat, desc |-> A]
    OBVIOUS
<1>7. d \in Fd /\ open[d] = NoFile /\ Fd \cup {d} = Fd  BY DEF FreeDescriptors
<1>8. open' = [e \in Fd |-> IF e # d THEN open[e] ELSE file]  BY <1>2, <1>3, <1>5, <1>6, <1>7
<1>9. open'[d] = file /\ \A e \in Fd : e # d => open'[e] = open[e]  BY <1>7, <1>8
<1>10. /\ file \in OpenFile /\ file.node = c.item.node /\ file.path = c.path
       /\ file.item = c.item /\ file.fat = c.fat /\ file.desc = A
    <2>1. c.item \in Items /\ c.path \in Paths /\ c.fat \in SUBSET Blocks  BY DEF WalkCall
    <2>2. c.item.node \in Directory \cup File  BY <2>1 DEF Items
    <2>3. QED  BY <1>4, <1>6, <2>1, <2>2 DEF OpenFile
<1>11. /\ call' = Idle /\ taken' = taken \cup A /\ UNCHANGED <<mounted, astray>>
       /\ lost' = [lost EXCEPT !.path = @ \cup c.own]
    BY <1>2, <1>3 DEF FopenDone
<1>12. /\ lost' \in [path : SUBSET Blocks, other : SUBSET Blocks, robbed : SUBSET Blocks]
       /\ lost'.path = lost.path \cup c.own /\ lost'.other = lost.other /\ lost'.robbed = lost.robbed
    <2>1. c.own \in SUBSET Blocks  BY DEF WalkCall
    <2>2. QED  BY <1>11, <2>1 DEF LookupInv, Typed
<1>13. Typed'
    <2>1. open' \in [Fd -> OpenFile \cup {NoFile}]
        BY <1>8, <1>10 DEF LookupInv, Typed
    <2>2. QED  BY <1>4, <1>11, <1>12, <2>1 DEF LookupInv, Typed
<1>14. OpensWhatItNames'
    <2>1. c.item.node = Leads(c.path)  BY <1>2, WalkedWhole DEF FopenDone
    <2>2. ASSUME NEW e \in Fd, open'[e] # NoFile PROVE open'[e].node = Leads(open'[e].path)
        <3>1. CASE e = d  BY <1>9, <1>10, <2>1, <3>1
        <3>2. CASE e # d
            <4>1. open'[e] = open[e]  BY <1>9, <3>2
            <4>2. open[e].node = Leads(open[e].path)
                BY <2>2, <4>1 DEF LookupInv, OpensWhatItNames
            <4>3. QED  BY <4>1, <4>2
        <3>3. QED  BY <3>1, <3>2
    <2>3. QED  BY <2>2 DEF OpensWhatItNames
<1>15. PICK U : U = Uses  OBVIOUS
<1>16. PICK W : W = Uses'  OBVIOUS
<1>17. PICK V1 : V1 = HandedOver(U, <<0, "own">>, <<-1, "own">>)  OBVIOUS
<1>18. PICK V2 : V2 = HandedOver(V1, <<0, "item">>, <<d, "item">>)  OBVIOUS
<1>19. PICK V3 : V3 = HandedOver(V2, <<0, "fat">>, <<d, "fat">>)  OBVIOUS
<1>20. PICK Z : Z = Given(V3, <<d, "own">>, A)  OBVIOUS
<1>21. /\ U[<<0, "own">>] = c.own /\ U[<<0, "fat">>] = c.fat /\ U[<<0, "item">>] = c.item.own
       /\ U[<<-1, "own">>] = lost.path /\ U[<<-1, "fat">>] = FileSystem /\ U[<<-1, "item">>] = lost.other
       /\ U[<<d, "own">>] = {} /\ U[<<d, "fat">>] = {} /\ U[<<d, "item">>] = {}
    <2>1. /\ U[<<0, "own">>] = c.own /\ U[<<0, "fat">>] = c.fat /\ U[<<0, "item">>] = c.item.own
        BY <1>1, <1>2, <1>15, UsesAre, WalkTyped DEF UsersNow
    <2>2. U[<<-1, "own">>] = lost.path /\ U[<<-1, "fat">>] = FileSystem /\ U[<<-1, "item">>] = lost.other
        BY <1>15, UsesAre DEF UsersNow
    <2>3. FileBlocks(open[d]) = [own |-> {}, fat |-> {}, item |-> {}]  BY <1>7, BlocksOfUsers
    <2>4. U[<<d, "own">>] = {} /\ U[<<d, "fat">>] = {} /\ U[<<d, "item">>] = {}
        BY <1>7, <1>15, <2>3, UsesAre DEF UsersNow
    <2>5. QED  BY <2>1, <2>2, <2>4
<1>22. W = Z
    <2>1. \A x \in {-1, 0} \cup Fd :
            /\ V1[<<x, "own">>] = IF x = 0 THEN {}
                                  ELSE IF x = -1 THEN lost.path \cup c.own ELSE U[<<x, "own">>]
            /\ V1[<<x, "fat">>] = U[<<x, "fat">>] /\ V1[<<x, "item">>] = U[<<x, "item">>]
        BY <1>17, <1>21, UserNames DEF HandedOver
    <2>2. \A x \in {-1, 0} \cup Fd :
            /\ V2[<<x, "own">>] = V1[<<x, "own">>] /\ V2[<<x, "fat">>] = U[<<x, "fat">>]
            /\ V2[<<x, "item">>] = IF x = 0 THEN {} ELSE IF x = d THEN c.item.own ELSE U[<<x, "item">>]
        BY <1>7, <1>18, <1>21, <2>1, UserNames DEF HandedOver
    <2>3. \A x \in {-1, 0} \cup Fd :
            /\ V3[<<x, "own">>] = V1[<<x, "own">>] /\ V3[<<x, "item">>] = V2[<<x, "item">>]
            /\ V3[<<x, "fat">>] = IF x = 0 THEN {} ELSE IF x = d THEN c.fat ELSE U[<<x, "fat">>]
        BY <1>7, <1>19, <1>21, <2>2, UserNames DEF HandedOver
    <2>4. V1[<<d, "own">>] = {}  BY <1>7, <1>21, <2>1, UserNames
    <2>5. \A x \in {-1, 0} \cup Fd :
            /\ Z[<<x, "own">>] = IF x = d THEN A ELSE V1[<<x, "own">>]
            /\ Z[<<x, "fat">>] = V3[<<x, "fat">>] /\ Z[<<x, "item">>] = V2[<<x, "item">>]
        BY <1>7, <1>20, <2>3, <2>4, UserNames DEF Given
    <2>6. W[<<0, "own">>] = {} /\ W[<<0, "fat">>] = {} /\ W[<<0, "item">>] = {}
        BY <1>11, <1>16, UsesAre, BlocksOfUsers DEF UsersNow
    <2>7. /\ W[<<-1, "own">>] = lost.path \cup c.own /\ W[<<-1, "fat">>] = U[<<-1, "fat">>]
          /\ W[<<-1, "item">>] = U[<<-1, "item">>]
        BY <1>11, <1>12, <1>16, <1>21, UsesAre DEF UsersNow, FileSystem
    <2>8. W[<<d, "own">>] = A /\ W[<<d, "fat">>] = c.fat /\ W[<<d, "item">>] = c.item.own
        BY <1>7, <1>9, <1>10, <1>16, UsesAre, BlocksOfUsers DEF UsersNow
    <2>9. \A e \in Fd : e # d => /\ W[<<e, "own">>] = U[<<e, "own">>]
                                 /\ W[<<e, "fat">>] = U[<<e, "fat">>]
                                 /\ W[<<e, "item">>] = U[<<e, "item">>]
        BY <1>9, <1>15, <1>16, UsesAre DEF UsersNow
    <2>10. \A x \in {-1, 0} \cup Fd : /\ W[<<x, "own">>] = Z[<<x, "own">>]
                                      /\ W[<<x, "fat">>] = Z[<<x, "fat">>]
                                      /\ W[<<x, "item">>] = Z[<<x, "item">>]
        <3>1. d # 0 /\ d # -1  BY <1>7, UserNames
        <3>2. ASSUME NEW x \in {-1, 0} \cup Fd
              PROVE  /\ W[<<x, "own">>] = Z[<<x, "own">>]
                     /\ W[<<x, "fat">>] = Z[<<x, "fat">>]
                     /\ W[<<x, "item">>] = Z[<<x, "item">>]
            <4>1. CASE x = 0  BY <2>1, <2>2, <2>3, <2>5, <2>6, <3>1, <4>1
            <4>2. CASE x = -1
                <5>1. x # 0 /\ x # d  BY <3>1, <4>2
                <5>2. /\ W[<<x, "own">>] = lost.path \cup c.own /\ W[<<x, "fat">>] = U[<<x, "fat">>]
                      /\ W[<<x, "item">>] = U[<<x, "item">>]
                    BY <2>7, <4>2
                <5>3. QED  BY <2>1, <2>2, <2>3, <2>5, <4>2, <5>1, <5>2
            <4>3. CASE x = d  BY <2>1, <2>2, <2>3, <2>5, <2>8, <3>1, <4>3
            <4>4. CASE x \in Fd /\ x # d
                <5>1. x # 0 /\ x # -1  BY <4>4, UserNames
                <5>2. QED  BY <2>1, <2>2, <2>3, <2>5, <2>9, <4>4, <5>1
            <4>5. QED  BY <4>1, <4>2, <4>3, <4>4
        <3>3. QED  BY <3>2
    <2>11. W = [u \in Users |-> W[u]]  BY <1>16, UsesAre DEF UsersNow
    <2>12. Z = [u \in Users |-> Z[u]]  BY <1>20 DEF Given
    <2>13. QED  BY <2>10, <2>11, <2>12, SameUses
<1>23. Accounted(U, taken, lost.robbed)  BY <1>15 DEF LookupInv, Accounts
<1>24. Accounted(Z, taken \cup A, lost.robbed)
    <2>1. /\ <<0, "own">> \in Users /\ <<0, "item">> \in Users /\ <<0, "fat">> \in Users
          /\ <<-1, "own">> \in Users /\ <<d, "own">> \in Users /\ <<d, "item">> \in Users
          /\ <<d, "fat">> \in Users
          /\ <<0, "own">> # <<-1, "own">> /\ <<0, "item">> # <<d, "item">> /\ <<0, "fat">> # <<d, "fat">>
        BY <1>7, UserNames
    <2>2. Accounted(V1, taken, lost.robbed)  BY <1>17, <1>23, <2>1, HandedOverAccounts
    <2>3. Accounted(V2, taken, lost.robbed)  BY <1>18, <2>1, <2>2, HandedOverAccounts
    <2>4. Accounted(V3, taken, lost.robbed)  BY <1>19, <2>1, <2>3, HandedOverAccounts
    <2>5. QED  BY <1>4, <1>20, <2>1, <2>4, GivenAccounts
<1>25. Accounts'  BY <1>11, <1>12, <1>16, <1>22, <1>24 DEF Accounts
<1>26. QED
    BY <1>1, <1>11, <1>13, <1>14, <1>25, WalkTyped, IdleStands, MountedBefore DEF LookupInv

\* A close takes back what the descriptor has. The block of a directory that could
\* not be loaded is freed too; when it was another's, somebody has been robbed.
LEMMA FcloseKeeps == ASSUME LookupInv, NEW d \in 0 .. MaxFds, Fclose(d) PROVE LookupInv'
<1>1. /\ mounted # "no" /\ call = Idle /\ call' = Idle /\ mounted' = mounted
      /\ Descriptor(d) # NoFile /\ open' = [open EXCEPT ![d] = NoFile]
    BY DEF Fclose, Ready
<1>2. d \in Fd /\ open[d] # NoFile  BY <1>1, PathLookupAssumption DEF Descriptor, Fd
<1>3. PICK file \in OpenFile : file = open[d]  BY <1>2 DEF LookupInv, Typed
<1>4. PICK mine : mine = file.desc \cup file.fat \cup file.item.own  OBVIOUS
<1>5. taken' = taken \ (mine \cup file.item.stale)  BY <1>3, <1>4 DEF Fclose, ItemBlocks
<1>6. lost' = [lost EXCEPT !.robbed = @ \cup ((file.item.stale \cap taken) \ mine)]
    BY <1>3, <1>4 DEF Fclose
<1>7. /\ lost' \in [path : SUBSET Blocks, other : SUBSET Blocks, robbed : SUBSET Blocks]
      /\ lost'.path = lost.path /\ lost'.other = lost.other
      /\ lost'.robbed = lost.robbed \cup ((file.item.stale \cap taken) \ mine)
    BY <1>6 DEF LookupInv, Typed
<1>8. astray' \in BOOLEAN  BY DEF Fclose, Freed
<1>9. open' \in [Fd -> OpenFile \cup {NoFile}] /\ open'[d] = NoFile
      /\ \A e \in Fd : e # d => open'[e] = open[e]
    BY <1>1, <1>2 DEF LookupInv, Typed
<1>10. Typed'  BY <1>1, <1>5, <1>7, <1>8, <1>9 DEF LookupInv, Typed
<1>11. OpensWhatItNames'  BY <1>9 DEF LookupInv, OpensWhatItNames
<1>12. PICK U : U = Uses  OBVIOUS
<1>13. PICK W : W = Uses'  OBVIOUS
<1>14. PICK Z : Z = [u \in Users |-> IF u[1] = d THEN {} ELSE U[u]]  OBVIOUS
<1>15. U[<<d, "own">>] = file.desc /\ U[<<d, "fat">>] = file.fat /\ U[<<d, "item">>] = file.item.own
    <2>1. FileBlocks(open[d]) = [own |-> file.desc, fat |-> file.fat, item |-> file.item.own]
        BY <1>3, BlocksOfUsers
    <2>2. QED  BY <1>2, <1>12, <2>1, UsesAre DEF UsersNow
<1>16. W = Z
    <2>1. \A x \in {-1, 0} \cup Fd :
            /\ Z[<<x, "own">>] = IF x = d THEN {} ELSE U[<<x, "own">>]
            /\ Z[<<x, "fat">>] = IF x = d THEN {} ELSE U[<<x, "fat">>]
            /\ Z[<<x, "item">>] = IF x = d THEN {} ELSE U[<<x, "item">>]
        BY <1>14, UserNames
    <2>2. d # 0 /\ d # -1  BY <1>2, UserNames
    <2>3. /\ W[<<-1, "own">>] = U[<<-1, "own">>] /\ W[<<-1, "fat">>] = U[<<-1, "fat">>]
          /\ W[<<-1, "item">>] = U[<<-1, "item">>]
        BY <1>1, <1>7, <1>12, <1>13, UsesAre DEF UsersNow, FileSystem
    <2>4. /\ W[<<0, "own">>] = U[<<0, "own">>] /\ W[<<0, "fat">>] = U[<<0, "fat">>]
          /\ W[<<0, "item">>] = U[<<0, "item">>]
        BY <1>1, <1>12, <1>13, UsesAre DEF UsersNow
    <2>5. W[<<d, "own">>] = {} /\ W[<<d, "fat">>] = {} /\ W[<<d, "item">>] = {}
        BY <1>2, <1>9, <1>13, UsesAre, BlocksOfUsers DEF UsersNow
    <2>6. \A e \in Fd : e # d => /\ W[<<e, "own">>] = U[<<e, "own">>]
                                 /\ W[<<e, "fat">>] = U[<<e, "fat">>]
                                 /\ W[<<e, "item">>] = U[<<e, "item">>]
        BY <1>9, <1>12, <1>13, UsesAre DEF UsersNow
    <2>7. \A x \in {-1, 0} \cup Fd : /\ W[<<x, "own">>] = Z[<<x, "own">>]
                                     /\ W[<<x, "fat">>] = Z[<<x, "fat">>]
                                     /\ W[<<x, "item">>] = Z[<<x, "item">>]
        BY <2>1, <2>2, <2>3, <2>4, <2>5, <2>6
    <2>8. W = [u \in Users |-> W[u]]  BY <1>13, UsesAre DEF UsersNow
    <2>9. Z = [u \in Users |-> Z[u]]  BY <1>14
    <2>10. QED  BY <2>7, <2>8, <2>9, SameUses
<1>17. Accounted(U, taken, lost.robbed)  BY <1>12 DEF LookupInv, Accounts
<1>18. Accounted(Z, taken \ mine, lost.robbed)
    <2>1. d \in -1 .. MaxFds  BY <1>2, UserNames
    <2>2. Accounted(Z, taken \ (U[<<d, "own">>] \cup U[<<d, "fat">>] \cup U[<<d, "item">>]), lost.robbed)
        BY <1>14, <1>17, <2>1, UserGone
    <2>3. QED  BY <1>4, <1>15, <2>2
<1>19. taken' \in SUBSET (taken \ mine)  BY <1>5
<1>20. lost'.robbed = {} => taken' = taken \ mine  BY <1>5, <1>7
<1>21. lost.robbed \subseteq lost'.robbed  BY <1>7
<1>22. Accounted(Z, taken', lost'.robbed)  BY <1>18, <1>19, <1>20, <1>21, AccountsShrink
<1>23. Accounts'  BY <1>13, <1>16, <1>22 DEF Accounts
<1>24. QED  BY <1>1, <1>10, <1>11, <1>23, IdleStands, MountedBefore DEF LookupInv

-----------------------------------------------------------------------------
(* Boot, and calls that change nothing.                                      *)

LEMMA NobodyHasBlocks ==
    ASSUME FileSystem = {}, lost.path = {}, lost.other = {}, call = Idle,
           \A d \in Fd : open[d] = NoFile
    PROVE  \A x \in {-1, 0} \cup Fd :
                Uses[<<x, "own">>] = {} /\ Uses[<<x, "fat">>] = {} /\ Uses[<<x, "item">>] = {}
<1>1. NoBlocks.own = {} /\ NoBlocks.fat = {} /\ NoBlocks.item = {}  BY DEF NoBlocks
<1>2. CallBlocks(call) = NoBlocks  BY BlocksOfUsers
<1>3. ASSUME NEW d \in Fd
      PROVE  Uses[<<d, "own">>] = {} /\ Uses[<<d, "fat">>] = {} /\ Uses[<<d, "item">>] = {}
    <2>1. FileBlocks(open[d]) = NoBlocks  BY BlocksOfUsers
    <2>2. QED  BY <1>1, <2>1, UsesAre DEF UsersNow
<1>4. Uses[<<0, "own">>] = {} /\ Uses[<<0, "fat">>] = {} /\ Uses[<<0, "item">>] = {}
    BY <1>1, <1>2, UsesAre DEF UsersNow
<1>5. Uses[<<-1, "own">>] = {} /\ Uses[<<-1, "fat">>] = {} /\ Uses[<<-1, "item">>] = {}
    BY UsesAre DEF UsersNow
<1>6. QED  BY <1>3, <1>4, <1>5

LEMMA NothingUsed ==
    ASSUME LookupInv, mounted = "no"
    PROVE  /\ taken = {} /\ call = Idle /\ Accounted(Uses, {}, lost.robbed)
           /\ \A x \in {-1, 0} \cup Fd :
                Uses[<<x, "own">>] = {} /\ Uses[<<x, "fat">>] = {} /\ Uses[<<x, "item">>] = {}
<1>1. /\ taken = {} /\ call = Idle /\ lost.path = {} /\ lost.other = {}
      /\ \A d \in Fd : open[d] = NoFile
    BY DEF LookupInv, NothingYet
<1>2. FileSystem = {}  BY DEF FileSystem
<1>3. Accounted(Uses, {}, lost.robbed)  BY <1>1 DEF LookupInv, Accounts
<1>4. QED  BY <1>1, <1>2, <1>3, NobodyHasBlocks

\* The first blocks go to the file system, or are lost.
LEMMA FirstUser ==
    ASSUME LookupInv, mounted = "no", UNCHANGED <<open, call>>, lost'.path = lost.path,
           lost'.robbed = lost.robbed, NEW A, taken' = A,
           \/ FileSystem' = A /\ lost'.other = lost.other
           \/ FileSystem' = {} /\ lost'.other = A
    PROVE  Accounts'
<1>1. PICK U : U = Uses  OBVIOUS
<1>2. PICK W : W = Uses'  OBVIOUS
<1>3. PICK p \in {"fat", "item"} :
        \/ p = "fat" /\ FileSystem' = A /\ lost'.other = lost.other
        \/ p = "item" /\ FileSystem' = {} /\ lost'.other = A
    OBVIOUS
<1>4. PICK Z : Z = Given(U, <<-1, p>>, A)  OBVIOUS
<1>5. \A x \in {-1, 0} \cup Fd :
        U[<<x, "own">>] = {} /\ U[<<x, "fat">>] = {} /\ U[<<x, "item">>] = {}
    BY <1>1, NothingUsed
<1>6. lost.path = {} /\ lost.other = {}  BY DEF LookupInv, NothingYet
<1>7. W = Z
    <2>1. \A x \in {-1, 0} \cup Fd :
            /\ Z[<<x, "own">>] = {}
            /\ Z[<<x, "fat">>] = IF x = -1 /\ p = "fat" THEN A ELSE {}
            /\ Z[<<x, "item">>] = IF x = -1 /\ p = "item" THEN A ELSE {}
        BY <1>4, <1>5, UserNames DEF Given
    <2>2. /\ W[<<-1, "own">>] = {}
          /\ W[<<-1, "fat">>] = IF p = "fat" THEN A ELSE {}
          /\ W[<<-1, "item">>] = IF p = "item" THEN A ELSE {}
        BY <1>2, <1>3, <1>6, UsesAre DEF UsersNow
    <2>3. /\ W[<<0, "own">>] = U[<<0, "own">>] /\ W[<<0, "fat">>] = U[<<0, "fat">>]
          /\ W[<<0, "item">>] = U[<<0, "item">>]
        BY <1>1, <1>2, UsesAre DEF UsersNow
    <2>4. \A d \in Fd : /\ W[<<d, "own">>] = U[<<d, "own">>]
                        /\ W[<<d, "fat">>] = U[<<d, "fat">>]
                        /\ W[<<d, "item">>] = U[<<d, "item">>]
        BY <1>1, <1>2, UsesAre DEF UsersNow
    <2>5. \A x \in {-1, 0} \cup Fd : /\ W[<<x, "own">>] = Z[<<x, "own">>]
                                     /\ W[<<x, "fat">>] = Z[<<x, "fat">>]
                                     /\ W[<<x, "item">>] = Z[<<x, "item">>]
        BY <1>5, <2>1, <2>2, <2>3, <2>4, UserNames
    <2>6. W = [u \in Users |-> W[u]]  BY <1>2, UsesAre DEF UsersNow
    <2>7. Z = [u \in Users |-> Z[u]]  BY <1>4 DEF Given
    <2>8. QED  BY <2>5, <2>6, <2>7, SameUses
<1>8. Accounted(Z, {} \cup A, lost.robbed)
    <2>1. <<-1, p>> \in Users  BY <1>3, UserNames
    <2>2. Accounted(U, {}, lost.robbed)  BY <1>1, NothingUsed
    <2>3. QED  BY <1>4, <2>1, <2>2, GivenAccounts
<1>9. taken' = {} \cup A  OBVIOUS
<1>10. QED  BY <1>2, <1>7, <1>8, <1>9 DEF Accounts

LEMMA ResolveKeeps == ASSUME LookupInv, Resolve PROVE LookupInv'
<1>1. taken = {} /\ call = Idle /\ Memory(6)  BY NothingUsed DEF Resolve
<1>2. Alloc(6) = 0 .. 5
    <2>1. \A i \in 1 .. 6 : i \in Nat /\ i # 0 /\ Memory(i)  BY <1>1, BlocksFinite DEF Memory
    <2>2. \A i \in 1 .. 6 : NthFree(i) = i - 1  BY <1>1, <2>1, FirstBlocks
    <2>3. Alloc(6) = {i - 1 : i \in 1 .. 6}  BY <2>2 DEF Alloc
    <2>4. \A b \in 0 .. 5 : b + 1 \in 1 .. 6 /\ b = (b + 1) - 1  OBVIOUS
    <2>5. QED  BY <2>3, <2>4
<1>3. NthFree(5) = 4
    <2>1. Memory(5)  BY <1>1, BlocksFinite DEF Memory
    <2>2. QED  BY <1>1, <2>1, FirstBlocks
<1>4. PICK A : A = (0 .. 5) \ {4}  OBVIOUS
<1>5. taken' = A /\ mounted' = "yes" /\ UNCHANGED <<open, call, ret, lost, astray>>
    BY <1>2, <1>3, <1>4 DEF Resolve
<1>6. FileSystem' = A  BY <1>4, <1>5 DEF FileSystem
<1>7. A \subseteq Blocks  BY <1>1, <1>2, <1>4, AllocFree
<1>8. Typed'  BY <1>5, <1>7 DEF LookupInv, Typed
<1>9. Accounts'  BY <1>5, <1>6, FirstUser DEF Resolve
<1>10. call' = Idle  BY <1>1, <1>5
<1>11. QED  BY <1>5, <1>8, <1>9, <1>10, IdleStands, SameOpen DEF LookupInv, NothingYet

LEMMA ResolveNotUsKeeps == ASSUME LookupInv, ResolveNotUs PROVE LookupInv'
<1>1. taken = {} /\ call = Idle /\ Memory(4)
    <2>1. Memory(4)  BY BlocksFinite DEF ResolveNotUs, Memory
    <2>2. QED  BY <2>1, NothingUsed DEF ResolveNotUs
<1>2. PICK A : A = Alloc(4) \ {NthFree(1)}  OBVIOUS
<1>3. A \subseteq Blocks  BY <1>1, <1>2, AllocFree
<1>4. /\ taken' = A /\ mounted' = "never" /\ UNCHANGED <<open, call, ret, astray>>
      /\ lost' = [lost EXCEPT !.other = A]
    BY <1>2 DEF ResolveNotUs
<1>5. /\ lost' \in [path : SUBSET Blocks, other : SUBSET Blocks, robbed : SUBSET Blocks]
      /\ lost'.path = lost.path /\ lost'.other = A /\ lost'.robbed = lost.robbed
    BY <1>3, <1>4 DEF LookupInv, Typed
<1>6. FileSystem' = {}  BY <1>4 DEF FileSystem
<1>7. Typed'  BY <1>3, <1>4, <1>5 DEF LookupInv, Typed
<1>8. Accounts'  BY <1>4, <1>5, <1>6, FirstUser DEF ResolveNotUs
<1>9. call' = Idle  BY <1>1, <1>4
<1>10. QED  BY <1>4, <1>7, <1>8, <1>9, IdleStands, SameOpen DEF LookupInv, NothingYet

LEMMA NothingChanges ==
    ASSUME LookupInv, UNCHANGED <<taken, mounted, open, call, lost, astray>>
    PROVE  LookupInv'
<1>1. Typed' /\ NothingYet'  BY DEF LookupInv, Typed, NothingYet
<1>2. PartsNamed'  BY DEF LookupInv, PartsNamed
<1>3. WalkStands'  BY DEF LookupInv, WalkStands, Free
<1>4. Accounts'
    <2>1. FileSystem' = FileSystem  BY DEF FileSystem
    <2>2. \A d : Held(d)' = Held(d)  BY <2>1 DEF Held
    <2>3. Uses' = Uses  BY <2>2 DEF Uses
    <2>4. QED  BY <2>3 DEF LookupInv, Accounts
<1>5. QED  BY <1>1, <1>2, <1>3, <1>4, SameOpen DEF LookupInv

-----------------------------------------------------------------------------
(* Theorems.                                                                 *)

LEMMA LookupInit == Init => LookupInv
<1> SUFFICES ASSUME Init PROVE LookupInv  OBVIOUS
<1>1. Typed  BY DEF Init, Typed
<1>2. NothingYet /\ OpensWhatItNames  BY DEF Init, NothingYet, OpensWhatItNames
<1>3. PartsNamed /\ WalkStands  BY Kinds DEF Init, PartsNamed, WalkStands
<1>4. Accounts
    <2>1. ASSUME NEW u \in Users PROVE Uses[u] = {}
        <3>1. PICK x \in -1 .. MaxFds : u = <<x, "own">> \/ u = <<x, "fat">> \/ u = <<x, "item">>
            BY DEF Users
        <3>2. x \in {-1, 0} \cup Fd  BY UserNames DEF Fd
        <3>3. FileSystem = {} /\ lost.path = {} /\ lost.other = {}  BY DEF Init, FileSystem
        <3>4. call = Idle /\ \A d \in Fd : open[d] = NoFile  BY DEF Init
        <3>5. Uses[<<x, "own">>] = {} /\ Uses[<<x, "fat">>] = {} /\ Uses[<<x, "item">>] = {}
            BY <3>2, <3>3, <3>4, NobodyHasBlocks
        <3>6. QED  BY <3>1, <3>5
    <2>2. taken = {}  BY DEF Init
    <2>3. QED  BY <2>1, <2>2 DEF Accounts, Accounted, Covers, Exactly
<1>5. QED  BY <1>1, <1>2, <1>3, <1>4 DEF LookupInv

LEMMA LookupNext == LookupInv /\ [Next]_vars => LookupInv'
<1> SUFFICES ASSUME LookupInv, [Next]_vars PROVE LookupInv'  OBVIOUS
<1>1. CASE Resolve  BY <1>1, ResolveKeeps
<1>2. CASE ResolveNotUs  BY <1>2, ResolveNotUsKeeps
<1>3. CASE \E path \in Paths : Fopen(path)  BY <1>3, FopenKeeps
<1>4. CASE FopenRefused  BY <1>4, NothingChanges DEF FopenRefused
<1>5. CASE ParsePart  BY <1>5, ParsePartKeeps
<1>6. CASE ParseNothing  BY <1>6, ParseNothingKeeps
<1>7. CASE ParseEnds  BY <1>7, ParseEndsKeeps
<1>8. CASE NoDescriptor  BY <1>8, NoDescriptorKeeps
<1>9. CASE Descend  BY <1>9, DescendKeeps
<1>10. CASE NotFound  BY <1>10, NotFoundKeeps
<1>11. CASE NotADirectory  BY <1>11, NotADirectoryKeeps
<1>12. CASE FopenDone  BY <1>12, FopenDoneKeeps
<1>13. CASE FopenPhantom  BY <1>13, FopenPhantomKeeps
<1>14. CASE FopenFull  BY <1>14, FopenFullKeeps
<1>15. CASE \E d \in 0 .. MaxFds : Fclose(d)  BY <1>15, FcloseKeeps
<1>16. CASE \E d \in 0 .. MaxFds : FcloseRefused(d)  BY <1>16, NothingChanges DEF FcloseRefused
<1>17. CASE Halted \/ UNCHANGED vars  BY <1>17, NothingChanges DEF Halted, vars
<1>18. QED
    BY <1>1, <1>2, <1>3, <1>4, <1>5, <1>6, <1>7, <1>8, <1>9, <1>10, <1>11, <1>12, <1>13, <1>14,
       <1>15, <1>16, <1>17 DEF Next

LEMMA LookupAlways == Spec => []LookupInv
<1>1. QED  BY LookupInit, LookupNext, PTL DEF Spec

\* The file behind a descriptor is the one its path names up to an empty component,
\* whatever memory was missing while the path was parsed and walked
\* (pparser.c:81, fat16.c:600-627).
THEOREM OpensNamedFile == Spec => []OpensWhatItNames
<1>1. LookupInv => OpensWhatItNames  BY DEF LookupInv
<1>2. QED  BY <1>1, LookupAlways, PTL

LEMMA TypesOfLookup == ASSUME LookupInv PROVE LookupTypeOK
<1>1. taken \subseteq Blocks /\ mounted \in {"no", "yes", "never"} /\ astray \in BOOLEAN
    BY DEF LookupInv, Typed
<1>2. DOMAIN open = Fd /\ \A d \in Fd : open[d] # NoFile => open[d].item \in Items
    <2>1. open \in [Fd -> OpenFile \cup {NoFile}]  BY DEF LookupInv, Typed
    <2>2. \A f \in OpenFile : f.item \in Items  BY DEF OpenFile
    <2>3. QED  BY <2>1, <2>2
<1>3. ASSUME call # Idle
      PROVE  /\ call.path \in Paths /\ call.parts \in 0 .. Len(call.path)
             /\ call.phase = "walk" => call.item \in Items /\ call.at \in 0 .. call.parts
    <2>1. call \in ParseCall \/ call \in WalkCall  BY <1>3 DEF LookupInv, Typed
    <2>2. call.path \in Paths /\ call.parts \in Nat  BY <2>1 DEF ParseCall, WalkCall
    <2>3. call.parts <= Before(call.path)  BY <2>1, Kinds DEF LookupInv, PartsNamed
    <2>4. call.parts \in 0 .. Len(call.path)  BY <2>2, <2>3, BeforeIs
    <2>5. ASSUME call.phase = "walk" PROVE call.item \in Items /\ call.at \in 0 .. call.parts
        <3>1. call \in WalkCall  BY <2>5, WalkTyped
        <3>2. call.at \in Nat /\ call.item \in Items  BY <3>1 DEF WalkCall
        <3>3. call.at <= call.parts  BY <2>5 DEF LookupInv, WalkStands
        <3>4. QED  BY <2>2, <3>2, <3>3
    <2>6. QED  BY <2>2, <2>4, <2>5
<1>4. QED  BY <1>1, <1>2, <1>3 DEF LookupTypeOK

\* Every block that is taken is in the hands of one user or lost in one of the
\* three ways, on every path through open and close, until a block is freed twice
\* (file.c:129, fat16.c:492-582).
THEOREM BlocksAreAccounted == Spec => []BlocksAccounted
<1>1. ASSUME LookupInv PROVE BlocksAccounted
    <2>1. PICK U : U = Uses  OBVIOUS
    <2>2. Accounted(U, taken, lost.robbed)  BY <1>1, <2>1 DEF LookupInv, Accounts
    <2>3. taken \subseteq UNION {U[u] : u \in Users}  BY <2>2 DEF Accounted, Covers
    <2>4. ASSUME lost.robbed = {}
          PROVE  /\ UNION {U[u] : u \in Users} \subseteq taken
                 /\ \A u, v \in Users : u # v => U[u] \cap U[v] = {}
        BY <2>2, <2>4 DEF Accounted, Exactly
    <2>5. LookupTypeOK  BY <1>1, TypesOfLookup
    <2>6. QED  BY <2>1, <2>3, <2>4, <2>5 DEF BlocksAccounted
<1>2. QED  BY <1>1, LookupAlways, PTL
=============================================================================
