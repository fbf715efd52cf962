----------------------------- MODULE FilesProofs -----------------------------
(***************************************************************************)
(* Proofs about open files, for every disk with a table and a root         *)
(* directory, damaged or not, every size of sector and cluster, any number *)
(* of descriptors and any reads and seeks: the calls keep the promise of   *)
(* OpenFiles, a read in progress stores the bytes of its own file, and an  *)
(* open fails only for a reason.                                           *)
(*                                                                         *)
(* The invariant says where a read stands: how many links of the chain it  *)
(* has followed and to which cluster, and how many bytes of the piece it   *)
(* has taken and from where.  Both are compared with the chain as the      *)
(* table tells it, a recursion, whose values at each link are derived by   *)
(* induction from the well-founded order of the naturals.                  *)
(***************************************************************************)
EXTENDS Files, FiniteSetTheorems, SequenceTheorems, WellFoundedInduction, TLAPS

-----------------------------------------------------------------------------
(* Arithmetic, and induction over the naturals for a set.                    *)

LEMMA LeastOf ==
    ASSUME NEW T \in SUBSET Nat, T # {}
    PROVE  \E x \in T : \A y \in T : x <= y
<1> DEFINE Less == OpToRel(<, Nat)
<1>1. IsWellFoundedOn(Less, Nat)  BY NatLessThanWellFounded
<1>2. \A x, y \in Nat : <<y, x>> \in Less <=> y < x  BY DEF OpToRel
<1> HIDE DEF Less
<1>3. PICK x \in T : \A y \in T : ~(<<y, x>> \in Less)  BY <1>1, WFMin
<1>4. ASSUME NEW y \in T PROVE x <= y
    <2>1. x \in Nat /\ y \in Nat  OBVIOUS
    <2>2. ~(y < x)  BY <1>2, <1>3, <2>1, Zenon
    <2>3. QED  BY <2>1, <2>2
<1>5. QED  BY <1>4

LEMMA SetInduction ==
    ASSUME NEW S, 0 \in S, \A n \in Nat : n \in S => n + 1 \in S
    PROVE  \A n \in Nat : n \in S
<1> DEFINE Out == {n \in Nat : n \notin S}
<1>1. SUFFICES ASSUME Out # {} PROVE FALSE  OBVIOUS
<1>2. PICK x \in Out : \A y \in Out : x <= y
    <2>1. Out \in SUBSET Nat  OBVIOUS
    <2> HIDE DEF Out
    <2>2. QED  BY <1>1, <2>1, LeastOf
<1>3. x \in Nat /\ x # 0 /\ x - 1 \in Nat  OBVIOUS
<1>4. x - 1 \in S  BY <1>2, <1>3
<1>5. (x - 1) + 1 \in S  BY <1>3, <1>4
<1>6. QED  BY <1>3, <1>5

LEMMA GreatestOf ==
    ASSUME NEW m \in Nat, NEW T \in SUBSET (1 .. m), T # {}
    PROVE  \E x \in T : \A y \in T : y <= x
<1> DEFINE Gaps == {m - y : y \in T}
<1>1. Gaps \in SUBSET Nat /\ Gaps # {}
    <2>1. \A y \in T : m - y \in Nat  OBVIOUS
    <2>2. QED  BY <2>1
<1>2. PICK g \in Gaps : \A h \in Gaps : g <= h
    <2> HIDE DEF Gaps
    <2>1. QED  BY <1>1, LeastOf
<1>3. PICK x \in T : g = m - x  OBVIOUS
<1>4. ASSUME NEW y \in T PROVE y <= x
    <2>1. m - x <= m - y  BY <1>2, <1>3
    <2>2. QED  BY <2>1
<1>5. QED  BY <1>4

\* Quotient and remainder are unique.
LEMMA Division ==
    ASSUME NEW c \in Nat \ {0}, NEW n \in Nat
    PROVE  /\ n \div c \in Nat /\ n % c \in 0 .. c - 1 /\ n = c * (n \div c) + (n % c)
           /\ \A q \in Nat, r \in 0 .. c - 1 : n = c * q + r => n \div c = q /\ n % c = r
<1>1. n \div c \in Nat /\ n % c \in 0 .. c - 1 /\ n = c * (n \div c) + (n % c)  OBVIOUS
<1>2. PICK k \in Nat, s \in 0 .. c - 1 : k = n \div c /\ s = n % c  BY <1>1
<1>3. ASSUME NEW q \in Nat, NEW r \in 0 .. c - 1, n = c * q + r
      PROVE  q = k /\ r = s
    <2>1. c * q + r = c * k + s  BY <1>1, <1>2, <1>3
    <2>2. \A d \in Nat : d >= 1 => c * d >= c  OBVIOUS
    <2>3. CASE q < k
        <3>1. PICK d \in Nat : d = k - q /\ d >= 1  BY <2>3
        <3>2. k = q + d  BY <3>1
        <3>3. c * k = c * q + c * d  BY <3>2
        <3>4. c * d >= c  BY <2>2, <3>1
        <3>5. c * q \in Nat /\ c * d \in Nat /\ c * k \in Nat  OBVIOUS
        <3>6. QED  BY <2>1, <3>3, <3>4, <3>5
    <2>4. CASE q > k
        <3>1. PICK d \in Nat : d = q - k /\ d >= 1  BY <2>4
        <3>2. q = k + d  BY <3>1
        <3>3. c * q = c * k + c * d  BY <3>2
        <3>4. c * d >= c  BY <2>2, <3>1
        <3>5. c * q \in Nat /\ c * d \in Nat /\ c * k \in Nat  OBVIOUS
        <3>6. QED  BY <2>1, <3>3, <3>4, <3>5
    <2>5. CASE q = k
        <3>1. c * q \in Nat  OBVIOUS
        <3>2. QED  BY <2>1, <2>5, <3>1
    <2>6. QED  BY <2>3, <2>4, <2>5
<1>4. QED  BY <1>1, <1>2, <1>3

\* Places of one cluster.
LEMMA WithinCluster ==
    ASSUME NEW c \in Nat \ {0}, NEW o \in Nat, NEW j \in Nat, (o % c) + j < c
    PROVE  (o + j) \div c = o \div c /\ (o + j) % c = (o % c) + j
<1>1. PICK q \in Nat, r \in 0 .. c - 1 : q = o \div c /\ r = o % c /\ o = c * q + r
    BY Division
<1>2. r + j \in 0 .. c - 1  BY <1>1
<1>3. o + j \in Nat /\ o + j = c * q + (r + j)
    <2>1. c * q \in Nat  OBVIOUS
    <2>2. QED  BY <1>1, <2>1
<1>4. PICK n \in Nat, s \in 0 .. c - 1 : n = o + j /\ s = r + j  BY <1>2, <1>3
<1>5. n = c * q + s  BY <1>3, <1>4
<1>6. n \div c = q /\ n % c = s  BY <1>5, Division
<1>7. QED  BY <1>1, <1>4, <1>6

LEMMA SumOfWholes ==
    ASSUME NEW c \in Nat \ {0}, NEW a \in Nat, NEW b \in Nat, a % c = 0, b % c = 0
    PROVE  (a + b) % c = 0
<1>1. PICK p \in Nat : a = c * p + 0
    <2>1. a \div c \in Nat /\ a = c * (a \div c) + (a % c)  BY Division
    <2>2. QED  BY <2>1
<1>2. PICK q \in Nat : b = c * q + 0
    <2>1. b \div c \in Nat /\ b = c * (b \div c) + (b % c)  BY Division
    <2>2. QED  BY <2>1
<1>3. a + b = c * (p + q) + 0  BY <1>1, <1>2
<1>4. 0 \in 0 .. c - 1 /\ p + q \in Nat /\ a + b \in Nat  OBVIOUS
<1>5. PICK s \in Nat : s = p + q  OBVIOUS
<1>6. PICK n \in Nat : n = a + b  OBVIOUS
<1>7. n = c * s + 0  BY <1>3, <1>5, <1>6
<1>8. n % c = 0  BY <1>4, <1>7, Division
<1>9. QED  BY <1>6, <1>8

\* The records before the last one, and the place of a byte in one of them.
LEMMA RecordsFit ==
    ASSUME NEW size \in Nat, NEW count \in Nat, NEW record \in Nat, record < count
    PROVE  /\ record * size \in Nat /\ size * count \in Nat
           /\ (record + 1) * size = record * size + size
           /\ record * size + size <= size * count
           /\ record + 1 = count => record * size + size = size * count
<1>1. \A a, b \in Nat : a * b \in Nat  OBVIOUS
<1>2. record * size \in Nat /\ size * count \in Nat  BY <1>1
<1>3. (record + 1) * size = record * size + size  OBVIOUS
<1>4. PICK d \in Nat : count = record + 1 + d
    <2>1. count - record - 1 \in Nat  OBVIOUS
    <2>2. QED  BY <2>1
<1>5. size * count = record * size + size + d * size  BY <1>4
<1>6. d * size \in Nat  BY <1>1
<1>7. d = 0 => d * size = 0  OBVIOUS
<1>8. QED  BY <1>2, <1>3, <1>4, <1>5, <1>6, <1>7

-----------------------------------------------------------------------------
(* The disk, as functions of the table and the directory alone: they never   *)
(* change, so neither does what is derived from them.                        *)

Links(table, first) ==
    LET f[i \in 0 .. MaxPos] ==
            IF i = 0 THEN first
            ELSE IF f[i - 1] \in Cluster THEN table[f[i - 1]]
            ELSE IF f[i - 1] = Stop THEN Stop ELSE AnyByte
    IN  f

Named(dir) == {i \in DOMAIN dir : ~(dir[i].name = NoName)}
FoundIn(dir, n) == {i \in 1 .. Cardinality(Named(dir)) : dir[i].name = n}
Entry(dir, n) == dir[CHOOSE i \in FoundIn(dir, n) : \A j \in FoundIn(dir, n) : j <= i]

ByteOf(table, dir, n, k) ==
    IF FoundIn(dir, n) = {} THEN NoByte
    ELSE LET c == Links(table, Entry(dir, n).first)[k \div ClusterSize]
         IN  CASE c = Stop -> NoByte
               [] c = AnyByte -> AnyByte
               [] OTHER -> c * ClusterSize + (k % ClusterSize)

ContentOf(table, dir) ==
    [n \in Name |-> [size |-> IF FoundIn(dir, n) = {} THEN 0 ELSE Entry(dir, n).size,
                     bytes |-> [k \in 0 .. MaxPos |-> ByteOf(table, dir, n, k)]]]

DiskIs == [fat |-> fat, root |-> root] \in Images /\ content = ContentOf(fat, root)

LEMMA DiskOperators ==
    /\ \A n : Found(n) = FoundIn(root, n) /\ Item(n) = Entry(root, n)
    /\ \A n, k : FileByte(n, k) = ByteOf(fat, root, n, k)
<1>1. \A n : Found(n) = FoundIn(root, n)
    BY DEF Found, FoundIn, TotalItems, Named, Deleted
<1>2. \A n : Item(n) = Entry(root, n)
    BY <1>1 DEF Item, Entry
<1>3. \A c : Chain(c) = Links(fat, c)
    BY DEF Chain, Links
<1>4. \A n, k : FileByte(n, k) = ByteOf(fat, root, n, k)
    BY <1>1, <1>2, <1>3 DEF FileByte, ByteOf
<1>5. QED  BY <1>1, <1>2, <1>4

LEMMA SizesOfAll ==
    /\ MaxFds \in Nat \ {0} /\ SectorSize \in Nat \ {0} /\ ClusterSize \in Nat \ {0}
    /\ LastCluster \in Nat \ {0, 1} /\ MaxPos \in Nat /\ NoName \notin Name
    /\ RecordSizes \subseteq Nat \ {0} /\ Counts \subseteq Nat \ {0} /\ Offsets \subseteq Nat
BY FilesAssumption

LEMMA Clusters ==
    /\ Cluster \subseteq Nat /\ Beyond \in Nat /\ Stop \in Nat
    /\ Stop \notin Cluster \cup {Beyond} /\ Beyond \notin Cluster
    /\ AnyByte \notin Cluster \cup {Beyond, Stop} /\ AnyByte \notin Nat /\ NoByte \notin Nat
    /\ AnyByte # NoByte
BY SizesOfAll DEF Cluster, Beyond, Stop, AnyByte, NoByte

-----------------------------------------------------------------------------
(* The chain of a file, link by link.                                        *)

Following(table, first, k, g) ==
    g = [i \in 0 .. k |-> IF i = 0 THEN first
                          ELSE IF g[i - 1] \in Cluster THEN table[g[i - 1]]
                          ELSE IF g[i - 1] = Stop THEN Stop ELSE AnyByte]

LEMMA FollowingExists ==
    ASSUME NEW table, NEW first
    PROVE  \A k \in Nat : \E g : Following(table, first, k, g)
<1> DEFINE S == {k \in Nat : \E g : Following(table, first, k, g)}
           After(c) == IF c \in Cluster THEN table[c] ELSE IF c = Stop THEN Stop ELSE AnyByte
<1>1. 0 \in S
    <2>1. Following(table, first, 0, [i \in 0 .. 0 |-> first])
        <3>1. \A i \in 0 .. 0 : i = 0  OBVIOUS
        <3>2. QED  BY <3>1 DEF Following
    <2>2. QED  BY <2>1
<1>2. ASSUME NEW k \in Nat, k \in S PROVE k + 1 \in S
    <2>1. PICK g : Following(table, first, k, g)  BY <1>2
    <2>2. \A i \in 0 .. k : g[i] = IF i = 0 THEN first ELSE After(g[i - 1])
        BY <2>1 DEF Following
    <2> DEFINE h == [i \in 0 .. k + 1 |-> IF i = k + 1 THEN After(g[k]) ELSE g[i]]
    <2> HIDE DEF After
    <2>3. ASSUME NEW i \in 0 .. k + 1
          PROVE  h[i] = IF i = 0 THEN first ELSE After(h[i - 1])
        <3>1. CASE i = k + 1
            <4>1. i # 0 /\ i - 1 = k /\ k \in 0 .. k + 1 /\ k # k + 1  BY <3>1
            <4>2. h[i - 1] = g[k]  BY <4>1
            <4>3. h[i] = After(g[k])  BY <3>1
            <4>4. QED  BY <4>1, <4>2, <4>3
        <3>2. CASE i # k + 1
            <4>1. i \in 0 .. k  BY <3>2
            <4>2. h[i] = g[i]  BY <3>2
            <4>3. g[i] = IF i = 0 THEN first ELSE After(g[i - 1])  BY <2>2, <4>1
            <4>4. i # 0 => i - 1 \in 0 .. k /\ i - 1 # k + 1 /\ i - 1 \in 0 .. k + 1  BY <4>1
            <4>5. i # 0 => h[i - 1] = g[i - 1]  BY <4>4
            <4>6. QED  BY <4>2, <4>3, <4>5
        <3>3. QED  BY <3>1, <3>2
    <2>4. h = [i \in 0 .. k + 1 |-> IF i = 0 THEN first ELSE After(h[i - 1])]  BY <2>3
    <2> HIDE DEF h
    <2>5. Following(table, first, k + 1, h)  BY <2>4 DEF Following, After
    <2>6. QED  BY <2>5
<1>3. \A k \in Nat : k \in S
    <2> HIDE DEF S
    <2>1. QED  BY <1>1, <1>2, SetInduction
<1>4. QED  BY <1>3

LEMMA LinksUnfold ==
    ASSUME NEW table, NEW first
    PROVE  /\ Links(table, first)[0] = first
           /\ \A i \in 1 .. MaxPos :
                  LET c == Links(table, first)[i - 1]
                  IN  Links(table, first)[i] =
                          IF c \in Cluster THEN table[c] ELSE IF c = Stop THEN Stop ELSE AnyByte
<1>1. \E g : Following(table, first, MaxPos, g)  BY SizesOfAll, FollowingExists
<1>2. Following(table, first, MaxPos, CHOOSE g : Following(table, first, MaxPos, g))  BY <1>1
<1>3. Links(table, first) = CHOOSE g : Following(table, first, MaxPos, g)
    BY DEF Links, Following
<1>4. PICK g : g = Links(table, first)  OBVIOUS
<1>5. g = [i \in 0 .. MaxPos |-> IF i = 0 THEN first
                          ELSE IF g[i - 1] \in Cluster THEN table[g[i - 1]]
                          ELSE IF g[i - 1] = Stop THEN Stop ELSE AnyByte]
    BY <1>2, <1>3, <1>4 DEF Following
<1>6. g[0] = first  BY <1>5, SizesOfAll
<1>7. ASSUME NEW i \in 1 .. MaxPos
      PROVE  g[i] = IF g[i - 1] \in Cluster THEN table[g[i - 1]]
                    ELSE IF g[i - 1] = Stop THEN Stop ELSE AnyByte
    <2>1. i \in 0 .. MaxPos /\ i # 0  BY SizesOfAll
    <2>2. QED  BY <1>5, <2>1
<1>8. QED  BY <1>4, <1>6, <1>7

-----------------------------------------------------------------------------
(* The directory: an entry found is one of the directory's, and a name that  *)
(* is not found is not there or behind a deleted entry.                      *)

LEMMA ImageTyped ==
    ASSUME NEW table, NEW dir, [fat |-> table, root |-> dir] \in Images
    PROVE  /\ table \in [Cluster -> Cluster \cup {Stop, Beyond}]
           /\ dir \in Seq([name : Name \cup {NoName}, first : Nat, size : Nat])
           /\ \A i \in DOMAIN dir : dir[i].name \in Name => dir[i].first \in Cluster \cup {Beyond}
<1>1. PICK image \in Images : image = [fat |-> table, root |-> dir]  OBVIOUS
<1>2. image.fat = table /\ image.root = dir  BY <1>1
<1>3. /\ image.fat \in [Cluster -> Cluster \cup {Stop, Beyond}]
      /\ image.root \in Seq([name : Name \cup {NoName}, first : Nat, size : Nat])
      /\ \A i \in DOMAIN image.root :
            image.root[i].name \in Name => image.root[i].first \in Cluster \cup {Beyond}
    <2>1. \A A, B : \A x \in [fat : A, root : B] : x.fat \in A /\ x.root \in B  OBVIOUS
    <2>2. QED  BY <2>1, FilesAssumption, Zenon
<1>4. QED  BY <1>2, <1>3, Zenon

LEMMA NamedCounted ==
    ASSUME NEW E, NEW dir \in Seq(E)
    PROVE  /\ IsFiniteSet(Named(dir)) /\ Cardinality(Named(dir)) \in Nat
           /\ Cardinality(Named(dir)) <= Len(dir)
<1>1. DOMAIN dir = 1 .. Len(dir) /\ Len(dir) \in Nat  OBVIOUS
<1>2. IsFiniteSet(1 .. Len(dir)) /\ Cardinality(1 .. Len(dir)) = Len(dir)
    BY <1>1, FS_Interval
<1>3. Named(dir) \in SUBSET (1 .. Len(dir))  BY <1>1 DEF Named
<1>4. QED  BY <1>2, <1>3, FS_Subset, FS_CardinalityType

LEMMA EntryFound ==
    ASSUME NEW table, NEW dir, [fat |-> table, root |-> dir] \in Images,
           NEW n \in Name, FoundIn(dir, n) # {}
    PROVE  Entry(dir, n).first \in Cluster \cup {Beyond} /\ Entry(dir, n).size \in Nat
<1>1. /\ dir \in Seq([name : Name \cup {NoName}, first : Nat, size : Nat])
      /\ \A i \in DOMAIN dir : dir[i].name \in Name => dir[i].first \in Cluster \cup {Beyond}
    BY ImageTyped
<1>2. PICK m \in Nat : m = Cardinality(Named(dir)) /\ m <= Len(dir)  BY <1>1, NamedCounted
<1>3. FoundIn(dir, n) \in SUBSET (1 .. m)  BY <1>2 DEF FoundIn
<1>4. \E i \in FoundIn(dir, n) : \A j \in FoundIn(dir, n) : j <= i  BY <1>2, <1>3, GreatestOf
<1>5. PICK i \in FoundIn(dir, n) : Entry(dir, n) = dir[i]  BY <1>4 DEF Entry
<1>6. i \in DOMAIN dir /\ dir[i].name = n  BY <1>1, <1>2, <1>5 DEF FoundIn
<1>7. dir[i] \in [name : Name \cup {NoName}, first : Nat, size : Nat]
    <2>1. i \in 1 .. Len(dir)  BY <1>1, <1>6
    <2>2. \A E : \A s \in Seq(E) : \A j \in 1 .. Len(s) : s[j] \in E  OBVIOUS
    <2>3. QED  BY <1>1, <2>1, <2>2, Zenon
<1>8. dir[i].size \in Nat  BY <1>7
<1>9. dir[i].first \in Cluster \cup {Beyond}  BY <1>1, <1>6
<1>10. QED  BY <1>5, <1>8, <1>9, Zenon

LEMMA NotFoundHasReason ==
    ASSUME NEW table, NEW dir, [fat |-> table, root |-> dir] \in Images,
           NEW n \in Name, FoundIn(dir, n) = {},
           NEW j \in DOMAIN dir, dir[j].name = n
    PROVE  \E i \in 1 .. j - 1 : dir[i].name = NoName
<1>1. SUFFICES ASSUME \A i \in 1 .. j - 1 : dir[i].name # NoName PROVE FALSE  OBVIOUS
<1>2. dir \in Seq([name : Name \cup {NoName}, first : Nat, size : Nat])  BY ImageTyped
<1>3. j \in 1 .. Len(dir) /\ j \in Nat /\ Len(dir) \in Nat  BY <1>2
<1>4. 1 .. j \in SUBSET Named(dir)
    <2>1. \A i \in 1 .. j : i \in 1 .. j - 1 \/ i = j  BY <1>3
    <2>2. \A i \in 1 .. j : dir[i].name # NoName  BY <1>1, <2>1, SizesOfAll
    <2>3. \A i \in 1 .. j : i \in DOMAIN dir  BY <1>2, <1>3
    <2>4. QED  BY <2>2, <2>3 DEF Named
<1>5. j <= Cardinality(Named(dir))
    <2>1. IsFiniteSet(Named(dir)) /\ Cardinality(Named(dir)) \in Nat  BY <1>2, NamedCounted
    <2>2. Cardinality(1 .. j) <= Cardinality(Named(dir))  BY <1>4, <2>1, FS_Subset
    <2>3. Cardinality(1 .. j) = j  BY <1>3, FS_Interval
    <2>4. QED  BY <2>2, <2>3
<1>6. j \in 1 .. Cardinality(Named(dir))  BY <1>2, <1>3, <1>5, NamedCounted
<1>7. QED  BY <1>6 DEF FoundIn

\* A byte of a file is in the cluster its chain has there, or nobody knows.
LEMMA ByteInCluster ==
    ASSUME NEW table, NEW dir, NEW n, FoundIn(dir, n) # {}, NEW k,
           NEW c \in Cluster \cup {Beyond},
           Links(table, Entry(dir, n).first)[k \div ClusterSize] \in {c, AnyByte}
    PROVE  ByteOf(table, dir, n, k) \in {c * ClusterSize + (k % ClusterSize), AnyByte}
<1> DEFINE l == Links(table, Entry(dir, n).first)[k \div ClusterSize]
<1>1. ByteOf(table, dir, n, k) =
          CASE l = Stop -> NoByte
            [] l = AnyByte -> AnyByte
            [] OTHER -> l * ClusterSize + (k % ClusterSize)
    BY DEF ByteOf
<1>2. l \in {c, AnyByte}  OBVIOUS
<1> HIDE DEF l
<1>3. CASE l = AnyByte  BY <1>1, <1>3, Clusters
<1>4. CASE l = c  BY <1>1, <1>4, Clusters
<1>5. QED  BY <1>2, <1>3, <1>4

-----------------------------------------------------------------------------
(* The inductive invariant.                                                  *)

Calls ==
    [phase : {"chain", "data"}, fd : Fd, size : RecordSizes, count : Counts,
     record : Nat, done : Nat, cluster : Nat, ahead : Nat,
     at : Nat, want : Nat, out : Seq(Nat)]

\* Where the read began, and how much of it is behind a call c.
From(c) == file_descriptors[c.fd].pos
Before(c) == c.record * c.size + c.done
FileOf(c) == file_descriptors[c.fd].name

\* The link of the chain that call c needs now.
LinkAt(c) == Links(fat, Entry(root, FileOf(c)).first)[(Offset(c) \div ClusterSize) - c.ahead]

InBounds(c) ==
    /\ c.record < c.count /\ c.done < c.size /\ c.done % ClusterSize = 0
    /\ From(c) + c.size * c.count <= MaxPos

OnChain(c) ==
    /\ c.cluster \in Cluster \cup {Beyond}
    /\ c.ahead <= Offset(c) \div ClusterSize
    /\ LinkAt(c) \in {c.cluster, AnyByte}

Progress(c) ==
    \/ c.phase = "chain" /\ Len(c.out) = Before(c)
    \/ /\ c.phase = "data" /\ c.ahead = 0
       /\ \E k \in Nat :
             /\ Len(c.out) = Before(c) + k /\ k + c.want = Piece(c)
             /\ c.at = c.cluster * ClusterSize + (Offset(c) % ClusterSize) + k

OwnBytes(c) ==
    Promise!Promised(From(c), c.size, c.count) =>
        \A i \in 1 .. Len(c.out) :
            content[FileOf(c)].bytes[From(c) + i - 1] \in {c.out[i], AnyByte}

Reading(c) ==
    /\ c \in Calls /\ Descriptor(c.fd) # Closed
    /\ InBounds(c) /\ OnChain(c) /\ Progress(c) /\ OwnBytes(c)

DescriptorsTyped ==
    /\ file_descriptors \in [Fd -> [name : Name \cup {NoName}, pos : 0 .. MaxPos]]
    /\ \A d \in Fd : file_descriptors[d] # Closed =>
           file_descriptors[d].name \in Name /\ FoundIn(root, file_descriptors[d].name) # {}

FilesInv ==
    /\ DiskIs
    /\ DescriptorsTyped
    /\ call = Idle \/ Reading(call)
    /\ astray \in BOOLEAN
    /\ FailedOpenJustified

\* While neither disk nor descriptors change, a call reads on as the next call.
LEMMA ReadsOn ==
    ASSUME UNCHANGED <<disk, file_descriptors>>, NEW e, e = call', Reading(e)
    PROVE  Reading(call)'
<1>1. fat' = fat /\ root' = root /\ content' = content /\ file_descriptors' = file_descriptors
    BY DEF disk
<1>2. Descriptor(e.fd) = Descriptor(call.fd)'  BY <1>1 DEF Descriptor
<1>3. From(e) = From(call)' /\ Before(e) = Before(call)' /\ FileOf(e) = FileOf(call)'
      /\ Offset(e) = Offset(call)' /\ Piece(e) = Piece(call)'
    BY <1>1 DEF From, Before, FileOf, Offset, Piece
<1>4. LinkAt(e) = LinkAt(call)'  BY <1>1, <1>3 DEF LinkAt
<1>5. e \in Calls /\ Descriptor(call.fd)' # Closed  BY <1>2 DEF Reading
<1>6. InBounds(call)'  BY <1>3 DEF Reading, InBounds
<1>7. OnChain(call)'  BY <1>3, <1>4 DEF Reading, OnChain
<1>8. Progress(call)'  BY <1>3 DEF Reading, Progress
<1>9. OwnBytes(call)'
    <2>1. Promise!Promised(From(e), e.size, e.count)
              => \A i \in 1 .. Len(e.out) :
                    content[FileOf(e)].bytes[From(e) + i - 1] \in {e.out[i], AnyByte}
        BY DEF Reading, OwnBytes
    <2>2. QED  BY <1>1, <1>3, <2>1 DEF OwnBytes, Promise!Promised
<1>10. QED  BY <1>5, <1>6, <1>7, <1>8, <1>9 DEF Reading

\* The piece of a record that is read next.
LEMMA PieceIs ==
    ASSUME NEW c \in Calls, c.done < c.size
    PROVE  /\ Piece(c) \in Nat /\ Piece(c) > 0 /\ Piece(c) <= ClusterSize
           /\ c.done + Piece(c) <= c.size
           /\ c.done + Piece(c) < c.size => Piece(c) = ClusterSize
<1>1. c.done \in Nat /\ c.size \in Nat  BY SizesOfAll DEF Calls
<1>2. QED  BY <1>1, SizesOfAll DEF Piece

\* Where a call is in its file.
LEMMA OffsetIs ==
    ASSUME DescriptorsTyped, NEW c \in Calls, InBounds(c)
    PROVE  /\ From(c) \in Nat /\ Before(c) \in Nat /\ Offset(c) \in Nat
           /\ Offset(c) = From(c) + Before(c)
           /\ Before(c) + (c.size - c.done) <= c.size * c.count
           /\ Offset(c) + (c.size - c.done) <= MaxPos
           /\ c.size \in Nat \ {0} /\ c.count \in Nat \ {0} /\ c.record * c.size \in Nat
<1>1. c.size \in Nat \ {0} /\ c.count \in Nat \ {0} /\ c.record \in Nat /\ c.done \in Nat
      /\ c.fd \in Fd
    BY SizesOfAll DEF Calls
<1>2. From(c) \in Nat  BY <1>1, SizesOfAll DEF DescriptorsTyped, From
<1>3. /\ c.record * c.size \in Nat /\ c.size * c.count \in Nat
      /\ c.record * c.size + c.size <= c.size * c.count
    BY <1>1, RecordsFit DEF InBounds
<1>4. PICK before \in Nat, whole \in Nat : before = c.record * c.size /\ whole = c.size * c.count
    BY <1>3
<1>5. Before(c) = before + c.done  BY <1>4 DEF Before
<1>6. Offset(c) = From(c) + before + c.done  BY <1>4 DEF Offset, From
<1>7. From(c) + whole <= MaxPos /\ before + c.size <= whole  BY <1>3, <1>4 DEF InBounds
<1>8. c.done < c.size  BY DEF InBounds
<1>9. QED  BY <1>1, <1>2, <1>3, <1>4, <1>5, <1>6, <1>7, <1>8, SizesOfAll

\* A read that starts over for its next piece.
LEMMA StartReads ==
    ASSUME DiskIs, DescriptorsTyped, NEW c \in Calls, Descriptor(c.fd) # Closed,
           InBounds(c), Len(c.out) = Before(c), OwnBytes(c)
    PROVE  Reading(ChainStart(c))
<1> DEFINE d == ChainStart(c)
<1>1. c.fd \in Fd /\ file_descriptors[c.fd] # Closed
    <2>1. c.fd \in Fd  BY DEF Calls
    <2>2. QED  BY <2>1 DEF Descriptor
<1>2. PICK q \in Nat : q = Offset(c) \div ClusterSize
    <2>1. Offset(c) \in Nat  BY OffsetIs
    <2>2. QED  BY <2>1, SizesOfAll, Division
<1>3. First(c) = Entry(root, FileOf(c)).first /\ First(c) \in Cluster \cup {Beyond}
    <2>1. FileOf(c) \in Name /\ FoundIn(root, FileOf(c)) # {}
        BY <1>1 DEF DescriptorsTyped, FileOf
    <2>2. First(c) = Entry(root, FileOf(c)).first  BY DiskOperators DEF First, FileOf
    <2>3. QED  BY <2>1, <2>2, EntryFound DEF DiskIs
<1>4. PICK first \in Cluster \cup {Beyond} : first = First(c)  BY <1>3
<1>5. first \in Nat  BY Clusters
<1>6. d = [c EXCEPT !.phase = "chain", !.cluster = first, !.ahead = q]
    BY <1>2, <1>4 DEF ChainStart
<1>7. /\ d \in Calls /\ d.phase = "chain" /\ d.cluster = first /\ d.ahead = q
      /\ d.fd = c.fd /\ d.size = c.size /\ d.count = c.count /\ d.record = c.record
      /\ d.done = c.done /\ d.out = c.out
    BY <1>5, <1>6 DEF Calls
<1> HIDE DEF d
<1>8. From(d) = From(c) /\ Before(d) = Before(c) /\ FileOf(d) = FileOf(c) /\ Offset(d) = Offset(c)
    BY <1>7 DEF From, Before, FileOf, Offset
<1>9. Descriptor(d.fd) # Closed  BY <1>7
<1>10. InBounds(d)  BY <1>7, <1>8 DEF InBounds
<1>11. OnChain(d)
    <2>1. d.ahead = Offset(d) \div ClusterSize  BY <1>2, <1>7, <1>8
    <2>2. (Offset(d) \div ClusterSize) - d.ahead = 0  BY <2>1, <1>7
    <2>3. LinkAt(d) = Links(fat, first)[0]  BY <1>3, <1>4, <1>8, <2>2 DEF LinkAt
    <2>4. LinkAt(d) = first  BY <2>3, LinksUnfold
    <2>5. d.ahead <= Offset(d) \div ClusterSize  BY <2>1, <1>7
    <2>6. QED  BY <1>7, <2>4, <2>5 DEF OnChain
<1>12. Progress(d)  BY <1>7, <1>8 DEF Progress
<1>13. OwnBytes(d)  BY <1>7, <1>8 DEF OwnBytes
<1>14. Reading(d)  BY <1>7, <1>9, <1>10, <1>11, <1>12, <1>13 DEF Reading
<1>15. QED  BY <1>14 DEF d

\* The bytes of a piece: those of the cluster the chain has led to, from the
\* offset on, when the record lies in a cluster or starts one.
LEMMA PieceBytes ==
    ASSUME DiskIs, DescriptorsTyped, NEW c, Reading(c), c.ahead = 0,
           Promise!Promised(From(c), c.size, c.count),
           NEW m \in Nat, m < Piece(c)
    PROVE  content[FileOf(c)].bytes[Offset(c) + m]
               \in {c.cluster * ClusterSize + (Offset(c) % ClusterSize) + m, AnyByte}
<1>1. c \in Calls /\ InBounds(c) /\ OnChain(c) /\ c.done < c.size  BY DEF Reading, InBounds
<1>2. /\ From(c) \in Nat /\ Offset(c) \in Nat /\ c.record * c.size \in Nat
      /\ c.done \in Nat /\ c.size \in Nat /\ c.cluster \in Nat /\ c.record \in Nat
      /\ c.count \in Nat
    BY <1>1, OffsetIs DEF Calls
<1>3. PICK before \in Nat : before = From(c) + c.record * c.size  BY <1>2
<1>4. Offset(c) = before + c.done  BY <1>2, <1>3 DEF Offset, From
<1>5. m + c.done < c.size /\ m < ClusterSize  BY <1>1, <1>2, SizesOfAll DEF Piece
<1>6. before % ClusterSize = 0 \/ (before % ClusterSize) + c.size <= ClusterSize
    <2>1. c.record \in 0 .. c.count - 1  BY <1>1, <1>2 DEF InBounds
    <2>2. QED  BY <1>3, <2>1 DEF Promise!Promised
<1>7. PICK o \in Nat : o = Offset(c)  BY <1>2
<1>8. (o % ClusterSize) + m < ClusterSize
    <2>1. PICK b \in Nat : b = before % ClusterSize  BY SizesOfAll
    <2>2. CASE b = 0
        <3>1. c.done % ClusterSize = 0  BY <1>1 DEF InBounds
        <3>2. o % ClusterSize = 0  BY <1>2, <1>4, <1>7, <2>1, <2>2, <3>1, SumOfWholes, SizesOfAll
        <3>3. QED  BY <1>5, <3>2
    <2>3. CASE b + c.size <= ClusterSize
        <3>1. b + c.done < ClusterSize  BY <1>2, <1>5, <2>1, <2>3, SizesOfAll
        <3>2. (before % ClusterSize) + c.done < ClusterSize  BY <2>1, <3>1
        <3>3. (before + c.done) % ClusterSize = (before % ClusterSize) + c.done
            BY <1>2, <3>2, WithinCluster, SizesOfAll
        <3>4. o % ClusterSize = b + c.done  BY <1>4, <1>7, <2>1, <3>3
        <3>5. QED  BY <1>2, <1>5, <2>1, <2>3, <3>4, SizesOfAll
    <2>4. QED  BY <1>6, <2>1, <2>2, <2>3
<1>9. (o + m) \div ClusterSize = o \div ClusterSize
      /\ (o + m) % ClusterSize = (o % ClusterSize) + m
    BY <1>8, WithinCluster, SizesOfAll
<1>10. o + m \in 0 .. MaxPos
    <2>1. Offset(c) + (c.size - c.done) <= MaxPos  BY <1>1, OffsetIs
    <2>2. QED  BY <2>1, <1>2, <1>5, <1>7, SizesOfAll
<1>11. PICK n \in Name : n = FileOf(c) /\ FoundIn(root, n) # {}
    <2>1. c.fd \in Fd  BY <1>1 DEF Calls
    <2>2. file_descriptors[c.fd] # Closed  BY <2>1 DEF Reading, Descriptor
    <2>3. QED  BY <2>1, <2>2 DEF DescriptorsTyped, FileOf
<1>12. Links(fat, Entry(root, n).first)[(o + m) \div ClusterSize] \in {c.cluster, AnyByte}
    <2>1. PICK q \in Nat : q = o \div ClusterSize  BY SizesOfAll
    <2>2. LinkAt(c) = Links(fat, Entry(root, n).first)[q]
        BY <1>7, <1>11, <2>1 DEF LinkAt
    <2>3. QED  BY <1>1, <1>9, <2>1, <2>2 DEF OnChain
<1>13. PICK k \in 0 .. MaxPos : k = o + m  BY <1>10
<1>14. c.cluster \in Cluster \cup {Beyond}  BY <1>1 DEF OnChain
<1>15. ByteOf(fat, root, n, k) \in {c.cluster * ClusterSize + (k % ClusterSize), AnyByte}
    BY <1>11, <1>12, <1>13, <1>14, ByteInCluster
<1>16. content[n].bytes[k] = ByteOf(fat, root, n, k)  BY DEF DiskIs, ContentOf
<1>17. PICK r \in Nat : r = o % ClusterSize /\ k % ClusterSize = r + m
    BY <1>9, <1>13, SizesOfAll
<1>18. c.cluster * ClusterSize + (k % ClusterSize) = c.cluster * ClusterSize + (Offset(c) % ClusterSize) + m
    <2>1. PICK p \in Nat : p = c.cluster * ClusterSize  BY <1>2, SizesOfAll
    <2>2. QED  BY <1>7, <1>17, <2>1
<1>19. content[FileOf(c)].bytes[Offset(c) + m] = ByteOf(fat, root, n, k)
    BY <1>7, <1>11, <1>13, <1>16
<1>20. QED  BY <1>15, <1>18, <1>19

\* What is taken from a sector: no more than is wanted, and bytes of the file.
LEMMA TakenIs ==
    ASSUME DiskIs, DescriptorsTyped, Reading(call), call.phase = "data"
    PROVE  /\ SectorShare \in Nat /\ SectorShare <= call.want
           /\ ~Overflows => SectorShare = call.want
           /\ Taken \in Seq(Nat) /\ Len(Taken) = Len(call.out) + SectorShare
           /\ Promise!Promised(From(call), call.size, call.count) =>
                  \A i \in 1 .. Len(Taken) :
                      content[FileOf(call)].bytes[From(call) + i - 1] \in {Taken[i], AnyByte}
<1>1. /\ call \in Calls /\ InBounds(call) /\ OnChain(call) /\ call.done < call.size
      /\ call.ahead = 0
    BY DEF Reading, InBounds, Progress
<1>2. call.at \in Nat /\ call.want \in Nat /\ call.out \in Seq(Nat) /\ call.cluster \in Nat
    BY <1>1 DEF Calls
<1>3. PICK k \in Nat :
          /\ Len(call.out) = Before(call) + k /\ k + call.want = Piece(call)
          /\ call.at = call.cluster * ClusterSize + (Offset(call) % ClusterSize) + k
    BY DEF Reading, Progress
<1>4. PICK p \in 0 .. SectorSize - 1 : p = call.at % SectorSize
    BY <1>2, SizesOfAll
<1>5. /\ SectorShare = IF p + call.want >= SectorSize THEN SectorSize - p ELSE call.want
      /\ Overflows <=> p + call.want >= SectorSize
    BY <1>4 DEF SectorShare, Overflows
<1>6. SectorShare \in Nat /\ SectorShare <= call.want /\ (~Overflows => SectorShare = call.want)
    BY <1>2, <1>5, SizesOfAll
<1>7. PICK share \in Nat : share = SectorShare  BY <1>6
<1> DEFINE sector == [i \in 1 .. share |-> call.at + i - 1]
<1>8. sector \in Seq(Nat) /\ Len(sector) = share
    <2>1. \A i \in 1 .. share : call.at + i - 1 \in Nat  BY <1>2
    <2>2. sector \in [1 .. share -> Nat]  BY <2>1
    <2>3. QED  BY <2>2
<1>9. Taken = call.out \o sector  BY <1>7 DEF Taken
<1>10. Taken \in Seq(Nat) /\ Len(Taken) = Len(call.out) + share
    <2> HIDE DEF sector
    <2>1. \A s, t \in Seq(Nat) : s \o t \in Seq(Nat) /\ Len(s \o t) = Len(s) + Len(t)  OBVIOUS
    <2>2. QED  BY <1>2, <1>8, <1>9, <2>1
<1>11. ASSUME Promise!Promised(From(call), call.size, call.count), NEW i \in 1 .. Len(Taken)
       PROVE  content[FileOf(call)].bytes[From(call) + i - 1] \in {Taken[i], AnyByte}
    <2>1. Len(call.out) \in Nat  BY <1>2
    <2>2. CASE i <= Len(call.out)
        <3>1. i \in 1 .. Len(call.out)  BY <1>10, <2>1, <2>2
        <3>2. Taken[i] = call.out[i]
            <4> HIDE DEF sector
            <4>1. QED  BY <1>2, <1>8, <1>9, <3>1
        <3>3. content[FileOf(call)].bytes[From(call) + i - 1] \in {call.out[i], AnyByte}
            BY <1>11, <3>1 DEF Reading, OwnBytes
        <3>4. QED  BY <3>2, <3>3
    <2>3. CASE i > Len(call.out)
        <3>1. PICK j \in 1 .. share : i = Len(call.out) + j
            <4>1. i - Len(call.out) \in 1 .. share  BY <1>10, <2>1, <2>3
            <4>2. i = Len(call.out) + (i - Len(call.out))  BY <2>1, <1>10
            <4>3. QED  BY <4>1, <4>2
        <3>2. Taken[i] = call.at + j - 1
            <4>1. Taken[i] = sector[j]
                <5> HIDE DEF sector
                <5>1. \A s, t \in Seq(Nat) : \A l \in 1 .. Len(t) : (s \o t)[Len(s) + l] = t[l]
                    OBVIOUS
                <5>2. (call.out \o sector)[Len(call.out) + j] = sector[j]
                    BY <1>2, <1>8, <3>1, <5>1
                <5>3. QED  BY <1>9, <3>1, <5>2
            <4>2. QED  BY <4>1
        <3>3. PICK m \in Nat : m = k + j - 1 /\ m < Piece(call)
            <4>1. k + j - 1 \in Nat  OBVIOUS
            <4>2. k + j - 1 < Piece(call)  BY <1>2, <1>3, <1>6, <1>7
            <4>3. QED  BY <4>1, <4>2
        <3>4. content[FileOf(call)].bytes[Offset(call) + m]
                  \in {call.cluster * ClusterSize + (Offset(call) % ClusterSize) + m, AnyByte}
            BY <1>1, <1>11, <3>3, PieceBytes
        <3>5. From(call) + i - 1 = Offset(call) + m
            <4> HIDE DEF sector
            <4>1. PICK f, b \in Nat : f = From(call) /\ b = Before(call) /\ Offset(call) = f + b
                BY <1>1, OffsetIs
            <4>2. PICK len \in Nat : len = Len(call.out) /\ len = b + k  BY <1>3, <2>1, <4>1
            <4>3. i = len + j  BY <3>1, <4>2
            <4>4. m = k + j - 1  BY <3>3
            <4>5. f + i - 1 = (f + b) + m  BY <4>2, <4>3, <4>4
            <4>6. QED  BY <4>1, <4>5
        <3>6. call.cluster * ClusterSize + (Offset(call) % ClusterSize) + m = Taken[i]
            <4>1. PICK base \in Nat : base = call.cluster * ClusterSize  BY <1>2, SizesOfAll
            <4>2. PICK r \in Nat : r = Offset(call) % ClusterSize
                <5>1. Offset(call) \in Nat  BY <1>1, OffsetIs
                <5>2. QED  BY <5>1, SizesOfAll
            <4>3. call.at = base + r + k  BY <1>3, <4>1, <4>2
            <4>4. QED  BY <3>2, <3>3, <4>1, <4>2, <4>3
        <3>7. QED  BY <3>4, <3>5, <3>6
    <2>4. QED  BY <1>10, <2>1, <2>2, <2>3
<1>12. QED  BY <1>6, <1>7, <1>10, <1>11

-----------------------------------------------------------------------------
(* The steps of a read.                                                      *)

LEMMA FollowChainReads ==
    ASSUME DiskIs, DescriptorsTyped, Reading(call), FollowChain
    PROVE  Reading(call)'
<1>1. PICK entry \in FatEntries(call.cluster) \ {Stop} :
          call' = [call EXCEPT !.cluster = entry, !.ahead = @ - 1]
    BY DEF FollowChain
<1>2. /\ call \in Calls /\ InBounds(call) /\ OnChain(call) /\ call.phase = "chain"
      /\ call.ahead > 0 /\ UNCHANGED <<disk, file_descriptors>>
    BY DEF Reading, FollowChain
<1>3. call.ahead \in Nat \ {0} /\ call.cluster \in Cluster \cup {Beyond}
    BY <1>2 DEF Calls, OnChain
<1>4. fat \in [Cluster -> Cluster \cup {Stop, Beyond}]  BY ImageTyped DEF DiskIs
<1>5. entry \in Cluster \cup {Beyond} /\ entry \in Nat
    <2>1. entry \in Cluster \cup {Stop, Beyond}  BY <1>1, <1>4 DEF FatEntries
    <2>2. QED  BY <1>1, <2>1, Clusters
<1>20. PICK less \in Nat : less = call.ahead - 1  BY <1>3
<1> DEFINE d == [call EXCEPT !.cluster = entry, !.ahead = less]
<1>21. call \in Calls /\ call.phase = "chain"  BY <1>2
<1>6. /\ d \in Calls /\ d.phase = "chain" /\ d.cluster = entry /\ d.ahead = less
      /\ d.fd = call.fd /\ d.size = call.size /\ d.count = call.count
      /\ d.record = call.record /\ d.done = call.done /\ d.out = call.out
    BY <1>5, <1>21 DEF Calls
<1>7. d = call'
    <2>1. [call EXCEPT !.cluster = entry, !.ahead = @ - 1]
              = [call EXCEPT !.cluster = entry, !.ahead = call.ahead - 1]
        BY <1>21 DEF Calls
    <2>2. QED  BY <1>1, <1>20, <2>1
<1> HIDE DEF d
<1>8. /\ From(d) = From(call) /\ Before(d) = Before(call) /\ FileOf(d) = FileOf(call)
      /\ Offset(d) = Offset(call)
    BY <1>6 DEF From, Before, FileOf, Offset
<1>9. Descriptor(d.fd) # Closed /\ InBounds(d) /\ OwnBytes(d)
    BY <1>2, <1>6, <1>8 DEF Reading, InBounds, OwnBytes
<1>10. Progress(d)
    <2>1. Len(call.out) = Before(call)
        <3>1. call.phase # "data"  BY <1>2
        <3>2. QED  BY <3>1 DEF Reading, Progress
    <2>2. QED  BY <1>6, <1>8, <2>1 DEF Progress
<1>11. OnChain(d)
    <2>1. PICK q \in Nat : q = Offset(call) \div ClusterSize /\ q <= MaxPos
        <3>1. Offset(call) \in Nat /\ Offset(call) + (call.size - call.done) <= MaxPos
              /\ call.done < call.size /\ call.size \in Nat /\ call.done \in Nat
            BY <1>2, OffsetIs DEF InBounds, Calls
        <3>2. PICK o \in Nat : o = Offset(call) /\ o <= MaxPos  BY <3>1, SizesOfAll
        <3>3. o \div ClusterSize \in Nat /\ o \div ClusterSize <= o
            <4>1. PICK k \in Nat, r \in Nat : k = o \div ClusterSize /\ o = ClusterSize * k + r
                <5>1. /\ o \div ClusterSize \in Nat /\ o % ClusterSize \in Nat
                      /\ o = ClusterSize * (o \div ClusterSize) + (o % ClusterSize)
                    BY Division, SizesOfAll
                <5>2. QED  BY <5>1
            <4>2. ClusterSize * k >= k
                <5>1. PICK l \in Nat : ClusterSize = l + 1
                    <6>1. ClusterSize - 1 \in Nat /\ ClusterSize = (ClusterSize - 1) + 1
                        BY SizesOfAll
                    <6>2. QED  BY <6>1
                <5>2. (l + 1) * k = l * k + k /\ l * k \in Nat  OBVIOUS
                <5>3. QED  BY <5>1, <5>2
            <4>3. ClusterSize * k \in Nat  BY SizesOfAll
            <4>4. QED  BY <4>1, <4>2, <4>3
        <3>4. QED  BY <3>2, <3>3, SizesOfAll
    <2>2. PICK i \in 1 .. MaxPos : i = q - (call.ahead - 1) /\ q - call.ahead = i - 1
        <3>1. call.ahead <= q  BY <1>2, <2>1 DEF OnChain
        <3>2. q - (call.ahead - 1) \in 1 .. MaxPos  BY <1>3, <2>1, <3>1, SizesOfAll
        <3>3. q - call.ahead = (q - (call.ahead - 1)) - 1  BY <1>3, <2>1
        <3>4. QED  BY <3>2, <3>3
    <2>3. PICK first : first = Entry(root, FileOf(call)).first  OBVIOUS
    <2>4. Links(fat, first)[i - 1] \in {call.cluster, AnyByte}
        BY <1>2, <2>1, <2>2, <2>3 DEF OnChain, LinkAt
    <2>5. LinkAt(d) = Links(fat, first)[i]
        BY <1>6, <1>8, <1>20, <2>1, <2>2, <2>3 DEF LinkAt
    <2>6. PICK c : c = Links(fat, first)[i - 1]  OBVIOUS
    <2>7. LinkAt(d) = IF c \in Cluster THEN fat[c] ELSE IF c = Stop THEN Stop ELSE AnyByte
        BY <2>5, <2>6, LinksUnfold
    <2>8. LinkAt(d) \in {entry, AnyByte}
        <3>1. CASE c \in Cluster
            <4>1. c = call.cluster  BY <2>4, <2>6, <3>1, Clusters
            <4>2. entry = fat[c]  BY <1>1, <3>1, <4>1 DEF FatEntries
            <4>3. QED  BY <2>7, <3>1, <4>2
        <3>2. CASE c \notin Cluster
            <4>1. c # Stop  BY <1>3, <2>4, <2>6, Clusters
            <4>2. QED  BY <2>7, <3>2, <4>1
        <3>3. QED  BY <3>1, <3>2
    <2>9. d.ahead <= Offset(d) \div ClusterSize
        BY <1>2, <1>3, <1>6, <1>8, <1>20, <2>1 DEF OnChain
    <2>10. QED  BY <1>5, <1>6, <2>8, <2>9 DEF OnChain
<1>12. Reading(d)  BY <1>6, <1>9, <1>10, <1>11 DEF Reading
<1>13. QED  BY <1>2, <1>7, <1>12, ReadsOn

LEMMA StreamSeekReads ==
    ASSUME DiskIs, DescriptorsTyped, Reading(call), StreamSeek
    PROVE  Reading(call)'
<1>1. /\ call \in Calls /\ InBounds(call) /\ OnChain(call) /\ OwnBytes(call)
      /\ call.phase = "chain" /\ call.ahead = 0 /\ UNCHANGED <<disk, file_descriptors>>
    BY DEF Reading, StreamSeek
<1>2. PICK piece \in Nat : piece = Piece(call)  BY <1>1, PieceIs DEF InBounds
<1>3. PICK at \in Nat : at = call.cluster * ClusterSize + (Offset(call) % ClusterSize)
    <2>1. Offset(call) \in Nat /\ call.cluster \in Nat  BY <1>1, OffsetIs DEF Calls
    <2>2. call.cluster * ClusterSize \in Nat /\ Offset(call) % ClusterSize \in Nat
        BY <2>1, SizesOfAll
    <2>3. QED  BY <2>2
<1> DEFINE d == [call EXCEPT !.phase = "data", !.want = piece, !.at = at]
<1>4. d = call'  BY <1>2, <1>3 DEF StreamSeek
<1>5. /\ d \in Calls /\ d.phase = "data" /\ d.want = piece /\ d.at = at
      /\ d.cluster = call.cluster /\ d.ahead = call.ahead
      /\ d.fd = call.fd /\ d.size = call.size /\ d.count = call.count
      /\ d.record = call.record /\ d.done = call.done /\ d.out = call.out
    BY <1>1 DEF Calls
<1> HIDE DEF d
<1>6. /\ From(d) = From(call) /\ Before(d) = Before(call) /\ FileOf(d) = FileOf(call)
      /\ Offset(d) = Offset(call) /\ Piece(d) = Piece(call)
    BY <1>5 DEF From, Before, FileOf, Offset, Piece
<1>7. Descriptor(d.fd) # Closed /\ InBounds(d) /\ OwnBytes(d)
    BY <1>1, <1>5, <1>6 DEF Reading, InBounds, OwnBytes
<1>8. OnChain(d)  BY <1>1, <1>5, <1>6 DEF OnChain, LinkAt
<1>9. Progress(d)
    <2>1. call.phase # "data"  BY <1>1
    <2>2. Len(call.out) = Before(call)  BY <2>1 DEF Reading, Progress
    <2>3. Len(d.out) = Before(d) + 0
        <3>1. Before(call) \in Nat  BY <1>1, OffsetIs
        <3>2. QED  BY <1>5, <1>6, <2>2, <3>1
    <2>4. 0 + d.want = Piece(d)  BY <1>2, <1>5, <1>6
    <2>5. d.at = d.cluster * ClusterSize + (Offset(d) % ClusterSize) + 0
        BY <1>3, <1>5, <1>6
    <2>6. QED  BY <1>1, <1>5, <2>3, <2>4, <2>5 DEF Progress
<1>10. Reading(d)  BY <1>5, <1>7, <1>8, <1>9 DEF Reading
<1>11. QED  BY <1>1, <1>4, <1>10, ReadsOn

LEMMA ReadSectorReads ==
    ASSUME DiskIs, DescriptorsTyped, Reading(call), ReadSector
    PROVE  Reading(call)'
<1>1. /\ call \in Calls /\ InBounds(call) /\ OnChain(call)
      /\ call.phase = "data" /\ call.ahead = 0 /\ UNCHANGED <<disk, file_descriptors>>
    BY DEF Reading, ReadSector, Progress
<1>2. PICK share \in Nat : share = SectorShare /\ share <= call.want
    BY <1>1, TakenIs
<1>3. PICK out \in Seq(Nat) : out = Taken /\ Len(out) = Len(call.out) + share
    BY <1>1, <1>2, TakenIs
<1>4. call.want \in Nat /\ call.at \in Nat  BY <1>1 DEF Calls
<1>5. PICK at \in Nat, want \in Nat : at = call.at + share /\ want = call.want - share
    BY <1>2, <1>4
<1> DEFINE d == [call EXCEPT !.out = out, !.at = at, !.want = want]
<1>6. d = call'
    <2>1. call' = [call EXCEPT !.out = out, !.at = @ + share, !.want = @ - share]
        BY <1>2, <1>3 DEF ReadSector
    <2>2. [call EXCEPT !.out = out, !.at = @ + share, !.want = @ - share]
              = [call EXCEPT !.out = out, !.at = call.at + share, !.want = call.want - share]
        BY <1>1 DEF Calls
    <2>3. QED  BY <1>5, <2>1, <2>2
<1>7. /\ d \in Calls /\ d.phase = "data" /\ d.want = want /\ d.at = at /\ d.out = out
      /\ d.cluster = call.cluster /\ d.ahead = call.ahead
      /\ d.fd = call.fd /\ d.size = call.size /\ d.count = call.count
      /\ d.record = call.record /\ d.done = call.done
    BY <1>1 DEF Calls
<1> HIDE DEF d
<1>8. /\ From(d) = From(call) /\ Before(d) = Before(call) /\ FileOf(d) = FileOf(call)
      /\ Offset(d) = Offset(call) /\ Piece(d) = Piece(call)
    BY <1>7 DEF From, Before, FileOf, Offset, Piece
<1>9. Descriptor(d.fd) # Closed /\ InBounds(d)
    BY <1>1, <1>7, <1>8 DEF Reading, InBounds
<1>10. OnChain(d)  BY <1>1, <1>7, <1>8 DEF OnChain, LinkAt
<1>11. OwnBytes(d)
    <2>1. Promise!Promised(From(call), call.size, call.count) =>
              \A i \in 1 .. Len(Taken) :
                  content[FileOf(call)].bytes[From(call) + i - 1] \in {Taken[i], AnyByte}
        BY <1>1, TakenIs
    <2>2. QED  BY <1>3, <1>7, <1>8, <2>1 DEF OwnBytes
<1>12. Progress(d)
    <2>1. PICK k \in Nat :
              /\ Len(call.out) = Before(call) + k /\ k + call.want = Piece(call)
              /\ call.at = call.cluster * ClusterSize + (Offset(call) % ClusterSize) + k
        BY <1>1 DEF Reading, Progress
    <2>2. PICK before \in Nat : before = Before(call)  BY <1>1, OffsetIs
    <2>3. PICK base \in Nat : base = call.cluster * ClusterSize + (Offset(call) % ClusterSize)
        <3>1. Offset(call) \in Nat /\ call.cluster \in Nat  BY <1>1, OffsetIs DEF Calls
        <3>2. call.cluster * ClusterSize \in Nat /\ Offset(call) % ClusterSize \in Nat
            BY <3>1, SizesOfAll
        <3>3. QED  BY <3>2
    <2>4. PICK l \in Nat : l = k + share  OBVIOUS
    <2>5. Len(out) = before + l  BY <1>3, <2>1, <2>2, <2>4
    <2>6. l + want = Piece(call)  BY <1>4, <1>5, <2>1, <2>4
    <2>7. at = base + l  BY <1>4, <1>5, <2>1, <2>3, <2>4
    <2>8. /\ Len(d.out) = Before(d) + l /\ l + d.want = Piece(d)
          /\ d.at = d.cluster * ClusterSize + (Offset(d) % ClusterSize) + l
        BY <1>7, <1>8, <2>2, <2>3, <2>5, <2>6, <2>7
    <2>9. QED  BY <1>1, <1>7, <2>8 DEF Progress
<1>13. Reading(d)  BY <1>7, <1>9, <1>10, <1>11, <1>12 DEF Reading
<1>14. QED  BY <1>1, <1>6, <1>13, ReadsOn

\* The end of a piece: all of it is taken.
LEMMA PieceRead ==
    ASSUME DiskIs, DescriptorsTyped, Reading(call), call.phase = "data", ~Overflows
    PROVE  Taken \in Seq(Nat) /\ Len(Taken) = Before(call) + Piece(call)
<1>1. call \in Calls /\ InBounds(call)  BY DEF Reading
<1>2. PICK k \in Nat : Len(call.out) = Before(call) + k /\ k + call.want = Piece(call)
    BY DEF Reading, Progress
<1>3. Taken \in Seq(Nat) /\ Len(Taken) = Len(call.out) + call.want  BY TakenIs
<1>4. Before(call) \in Nat /\ call.want \in Nat  BY <1>1, OffsetIs DEF Calls
<1>5. QED  BY <1>2, <1>3, <1>4

LEMMA ReadSectorLastReads ==
    ASSUME DiskIs, DescriptorsTyped, Reading(call), ReadSectorLast
    PROVE  Reading(call)'
<1>1. /\ call \in Calls /\ InBounds(call) /\ call.done < call.size /\ call.phase = "data"
      /\ ~Overflows /\ Continued.record < call.count /\ call' = Continued
      /\ UNCHANGED <<disk, file_descriptors>>
    BY DEF Reading, InBounds, ReadSectorLast
<1>2. PICK out \in Seq(Nat) : out = Taken /\ Len(out) = Before(call) + Piece(call)
    BY <1>1, PieceRead
<1>3. PICK piece \in Nat :
          /\ piece = Piece(call) /\ piece > 0 /\ call.done + piece <= call.size
          /\ call.done + piece < call.size => piece = ClusterSize
    BY <1>1, PieceIs
<1>4. /\ call.record \in Nat /\ call.done \in Nat /\ call.size \in Nat \ {0}
      /\ call.count \in Nat \ {0} /\ call.record * call.size \in Nat
    BY <1>1, OffsetIs DEF Calls
<1>5. PICK done \in Nat : done = call.done + piece  BY <1>4
<1>6. PICK before \in Nat : before = call.record * call.size  BY <1>4
<1>7. Len(out) = before + done
    <2>1. Before(call) = before + call.done  BY <1>6 DEF Before
    <2>2. QED  BY <1>2, <1>3, <1>4, <1>5, <2>1
<1>8. Continued = IF done < call.size
                  THEN ChainStart([call EXCEPT !.out = out, !.done = done])
                  ELSE ChainStart([call EXCEPT !.out = out, !.done = 0, !.record = call.record + 1])
    <2>1. [call EXCEPT !.out = out, !.done = 0, !.record = @ + 1]
              = [call EXCEPT !.out = out, !.done = 0, !.record = call.record + 1]
        BY <1>1 DEF Calls
    <2>2. QED  BY <1>2, <1>3, <1>5, <2>1 DEF Continued
\* What the next piece starts with, whichever it is.
<1>9. ASSUME NEW d, d \in Calls,
             d.fd = call.fd, d.size = call.size, d.count = call.count, d.out = out,
             d.done < d.size, d.done % ClusterSize = 0, d.record < d.count,
             Len(out) = d.record * d.size + d.done
      PROVE  Reading(ChainStart(d))
    <2>1. From(d) = From(call) /\ FileOf(d) = FileOf(call)  BY <1>9 DEF From, FileOf
    <2>2. InBounds(d)  BY <1>1, <1>9, <2>1 DEF InBounds
    <2>3. Len(d.out) = Before(d)  BY <1>9 DEF Before
    <2>4. OwnBytes(d)
        <3>1. Promise!Promised(From(call), call.size, call.count) =>
                  \A i \in 1 .. Len(Taken) :
                      content[FileOf(call)].bytes[From(call) + i - 1] \in {Taken[i], AnyByte}
            BY <1>1, TakenIs
        <3>2. QED  BY <1>2, <1>9, <2>1, <3>1 DEF OwnBytes
    <2>5. Descriptor(d.fd) # Closed  BY <1>9 DEF Reading
    <2>6. QED  BY <1>9, <2>2, <2>3, <2>4, <2>5, StartReads
<1>10. Reading(Continued)
    <2>1. CASE done < call.size
        <3> DEFINE d == [call EXCEPT !.out = out, !.done = done]
        <3>1. /\ d \in Calls /\ d.fd = call.fd /\ d.size = call.size /\ d.count = call.count
              /\ d.out = out /\ d.done = done /\ d.record = call.record
            BY <1>1 DEF Calls
        <3> HIDE DEF d
        <3>2. done % ClusterSize = 0
            <4>1. call.done % ClusterSize = 0  BY <1>1 DEF InBounds
            <4>2. piece = ClusterSize  BY <1>3, <1>5, <2>1
            <4>3. ClusterSize % ClusterSize = 0  BY SizesOfAll
            <4>4. QED  BY <1>4, <1>5, <4>1, <4>2, <4>3, SumOfWholes, SizesOfAll
        <3>3. d.record < d.count  BY <1>1, <3>1 DEF InBounds
        <3>4. Len(out) = d.record * d.size + d.done  BY <1>6, <1>7, <3>1
        <3>5. Reading(ChainStart(d))  BY <1>9, <2>1, <3>1, <3>2, <3>3, <3>4
        <3>6. QED  BY <1>8, <2>1, <3>5 DEF d
    <2>2. CASE ~(done < call.size)
        <3>1. PICK record \in Nat : record = call.record + 1  BY <1>4
        <3> DEFINE d == [call EXCEPT !.out = out, !.done = 0, !.record = record]
        <3>2. /\ d \in Calls /\ d.fd = call.fd /\ d.size = call.size /\ d.count = call.count
              /\ d.out = out /\ d.done = 0 /\ d.record = record
            BY <1>1 DEF Calls
        <3>3. Continued = ChainStart(d)  BY <1>8, <2>2, <3>1
        <3>4. ChainStart(d).record = d.record  BY <3>2 DEF ChainStart, Calls
        <3> HIDE DEF d
        <3>5. d.record < d.count  BY <1>1, <3>2, <3>3, <3>4
        <3>6. 0 % ClusterSize = 0  BY SizesOfAll
        <3>7. Len(out) = d.record * d.size + d.done
            <4>1. (call.record + 1) * call.size = before + call.size
                <5>1. call.record < call.count  BY <1>1 DEF InBounds
                <5>2. QED  BY <1>4, <1>6, <5>1, RecordsFit
            <4>2. done = call.size  BY <1>3, <1>4, <1>5, <2>2
            <4>3. QED  BY <1>4, <1>7, <3>1, <3>2, <4>1, <4>2
        <3>8. d.done < d.size  BY <1>4, <3>2
        <3>9. Reading(ChainStart(d))  BY <1>9, <3>2, <3>5, <3>6, <3>7, <3>8
        <3>10. QED  BY <3>3, <3>9
    <2>3. QED  BY <2>1, <2>2
<1>11. QED  BY <1>1, <1>10, ReadsOn

-----------------------------------------------------------------------------
(* The other calls.                                                          *)

LEMMA OpenDescriptor ==
    ASSUME NEW d, Descriptor(d) # Closed, d \in 0 .. MaxFds
    PROVE  d \in Fd /\ Descriptor(d) = file_descriptors[d] /\ file_descriptors[d] # Closed
BY SizesOfAll DEF Descriptor, Fd

\* What is behind an open descriptor.
LEMMA BehindDescriptor ==
    ASSUME DescriptorsTyped, NEW d \in Fd, file_descriptors[d] # Closed
    PROVE  /\ file_descriptors[d].name \in Name /\ file_descriptors[d].pos \in 0 .. MaxPos
           /\ FoundIn(root, file_descriptors[d].name) # {}
           /\ file_descriptors[d] \in [name : Name \cup {NoName}, pos : 0 .. MaxPos]
BY DEF DescriptorsTyped

LEMMA ClosedIs == Closed.name = NoName /\ Closed \in [name : Name \cup {NoName}, pos : 0 .. MaxPos]
<1>1. 0 \in 0 .. MaxPos  BY SizesOfAll
<1>2. QED  BY <1>1 DEF Closed

\* One descriptor is opened, moved or closed.
LEMMA DescriptorSet ==
    ASSUME DescriptorsTyped, UNCHANGED root, NEW d \in Fd, NEW entry,
           entry \in [name : Name \cup {NoName}, pos : 0 .. MaxPos],
           entry = Closed \/ (entry.name \in Name /\ FoundIn(root, entry.name) # {}),
           file_descriptors' = [file_descriptors EXCEPT ![d] = entry]
    PROVE  DescriptorsTyped'
<1>1. file_descriptors \in [Fd -> [name : Name \cup {NoName}, pos : 0 .. MaxPos]]
    BY DEF DescriptorsTyped
<1>2. file_descriptors' \in [Fd -> [name : Name \cup {NoName}, pos : 0 .. MaxPos]]
    BY <1>1
<1>3. ASSUME NEW e \in Fd, file_descriptors'[e] # Closed
      PROVE  file_descriptors'[e].name \in Name /\ FoundIn(root', file_descriptors'[e].name) # {}
    <2>1. file_descriptors'[e] = IF e = d THEN entry ELSE file_descriptors[e]  BY <1>1
    <2>2. CASE e = d  BY <1>3, <2>1, <2>2
    <2>3. CASE e # d
        <3>1. file_descriptors'[e] = file_descriptors[e]  BY <2>1, <2>3
        <3>2. QED  BY <1>3, <3>1, BehindDescriptor
    <2>4. QED  BY <2>2, <2>3
<1>4. QED  BY <1>2, <1>3 DEF DescriptorsTyped

LEMMA FopenSets ==
    ASSUME DescriptorsTyped, NEW n \in Name, Fopen(n)
    PROVE  \E d \in Fd : /\ file_descriptors[d] = Closed
                         /\ file_descriptors' =
                                [file_descriptors EXCEPT ![d] = [name |-> n, pos |-> 0]]
                         /\ ret' = Ret("open", d, TRUE, n)
<1>1. PICK d \in FreeDescriptors :
          /\ file_descriptors' = [e \in Fd \cup {d} |->
                IF e = d THEN [name |-> n, pos |-> 0] ELSE file_descriptors[e]]
          /\ ret' = Ret("open", d, TRUE, n)
    BY DEF Fopen
<1>2. d \in Fd /\ file_descriptors[d] = Closed  BY DEF FreeDescriptors
<1>3. Fd \cup {d} = Fd  BY <1>2
<1>4. DOMAIN file_descriptors = Fd  BY DEF DescriptorsTyped
<1>5. file_descriptors' = [file_descriptors EXCEPT ![d] = [name |-> n, pos |-> 0]]
    BY <1>1, <1>3, <1>4
<1>6. QED  BY <1>1, <1>2, <1>5

LEMMA FseekSets ==
    ASSUME DescriptorsTyped, NEW d \in 0 .. MaxFds, NEW whence \in {"SET", "CUR", "END"},
           NEW k \in Offsets, Fseek(d, whence, k)
    PROVE  /\ d \in Fd /\ Descriptor(d) = file_descriptors[d] /\ file_descriptors[d] # Closed
           /\ SeekTarget(d, whence, k) \in 0 .. MaxPos
           /\ SeekTarget(d, whence, k) \in {k, file_descriptors[d].pos + k}
<1>1. d \in Fd /\ Descriptor(d) = file_descriptors[d] /\ file_descriptors[d] # Closed
    BY OpenDescriptor DEF Fseek
<1>2. file_descriptors[d].pos \in 0 .. MaxPos  BY <1>1, BehindDescriptor
<1>3. k \in Nat  BY SizesOfAll
<1>4. file_descriptors[d].pos + k \in Nat  BY <1>2, <1>3, SizesOfAll
<1>5. SeekTarget(d, whence, k) \in {k, file_descriptors[d].pos + k}  BY <1>1 DEF SeekTarget
<1>6. SeekTarget(d, whence, k) \in Nat  BY <1>3, <1>4, <1>5
<1>7. SeekTarget(d, whence, k) <= MaxPos  BY DEF Fseek
<1>8. QED  BY <1>1, <1>5, <1>6, <1>7, SizesOfAll

\* A position of an open file is moved.
LEMMA PositionSet ==
    ASSUME DescriptorsTyped, UNCHANGED root, NEW d \in Fd, file_descriptors[d] # Closed,
           NEW pos \in 0 .. MaxPos,
           file_descriptors' = [file_descriptors EXCEPT ![d].pos = pos]
    PROVE  DescriptorsTyped'
<1>1. /\ file_descriptors[d].name \in Name
      /\ FoundIn(root, file_descriptors[d].name) # {}
      /\ file_descriptors[d] \in [name : Name \cup {NoName}, pos : 0 .. MaxPos]
    BY BehindDescriptor
<1>2. PICK entry : entry = [file_descriptors[d] EXCEPT !.pos = pos]  OBVIOUS
<1>3. entry \in [name : Name \cup {NoName}, pos : 0 .. MaxPos]
      /\ entry.name = file_descriptors[d].name
    BY <1>1, <1>2
<1>4. file_descriptors' = [file_descriptors EXCEPT ![d] = entry]  BY <1>2
<1>5. QED  BY <1>1, <1>3, <1>4, DescriptorSet

LEMMA FreadReads ==
    ASSUME DiskIs, DescriptorsTyped, NEW d \in 0 .. MaxFds, NEW size \in RecordSizes,
           NEW count \in Counts, Fread(d, size, count)
    PROVE  Reading(call)'
<1> DEFINE c == [phase |-> "chain", fd |-> d, size |-> size, count |-> count,
                 record |-> 0, done |-> 0, cluster |-> 0, ahead |-> 0,
                 at |-> 0, want |-> 0, out |-> << >>]
<1>1. /\ d \in Fd /\ Descriptor(d) # Closed /\ Descriptor(d) = file_descriptors[d]
      /\ Descriptor(d).pos + size * count <= MaxPos /\ call' = ChainStart(c)
      /\ UNCHANGED <<disk, file_descriptors>>
    BY OpenDescriptor DEF Fread
<1>2. size \in Nat \ {0} /\ count \in Nat \ {0}  BY SizesOfAll
<1>3. << >> \in Seq(Nat) /\ Len(<< >>) = 0  OBVIOUS
<1>4. /\ c \in Calls /\ c.fd = d /\ c.size = size /\ c.count = count /\ c.record = 0
      /\ c.done = 0 /\ c.out = << >>
    BY <1>1, <1>3 DEF Calls
<1> HIDE DEF c
<1>5. InBounds(c)
    <2>1. 0 % ClusterSize = 0  BY SizesOfAll
    <2>2. From(c) + c.size * c.count <= MaxPos  BY <1>1, <1>4 DEF From
    <2>3. QED  BY <1>2, <1>4, <2>1, <2>2 DEF InBounds
<1>6. Len(c.out) = Before(c)
    <2>1. 0 * size + 0 = 0  BY <1>2
    <2>2. QED  BY <1>3, <1>4, <2>1 DEF Before
<1>7. OwnBytes(c)
    <2>1. \A i : i \notin 1 .. 0  OBVIOUS
    <2>2. QED  BY <1>3, <1>4, <2>1 DEF OwnBytes
<1>8. Reading(ChainStart(c))  BY <1>1, <1>4, <1>5, <1>6, <1>7, StartReads
<1>9. QED  BY <1>1, <1>8, ReadsOn DEF c

\* The last piece of the last record: the position moves behind the records read.
LEMMA FreadDoneIs ==
    ASSUME DiskIs, DescriptorsTyped, Reading(call), FreadDone
    PROVE  /\ call.fd \in Fd /\ file_descriptors[call.fd] # Closed
           /\ From(call) + call.size * call.count \in 0 .. MaxPos
           /\ file_descriptors' = [file_descriptors EXCEPT
                                      ![call.fd].pos = From(call) + call.size * call.count]
           /\ Len(Taken) = call.size * call.count
           /\ call.size \in RecordSizes /\ call.count \in Counts
           /\ call.size * call.count \in Nat /\ From(call) \in Nat
<1>1. /\ call \in Calls /\ InBounds(call) /\ call.done < call.size /\ call.phase = "data"
      /\ ~Overflows /\ Continued.record = call.count
    BY DEF Reading, InBounds, FreadDone
<1>2. /\ call.fd \in Fd /\ call.size \in RecordSizes /\ call.count \in Counts
      /\ call.size \in Nat \ {0} /\ call.count \in Nat \ {0}
      /\ call.record \in Nat /\ call.done \in Nat /\ call.record < call.count
    BY <1>1, SizesOfAll DEF Calls, InBounds
<1>3. file_descriptors[call.fd] # Closed  BY <1>2 DEF Reading, Descriptor
<1>4. PICK whole \in Nat : whole = call.size * call.count  BY <1>2
<1>5. From(call) \in Nat /\ From(call) + whole <= MaxPos
    BY <1>1, <1>4, OffsetIs DEF InBounds
<1>6. file_descriptors' = [file_descriptors EXCEPT ![call.fd].pos = From(call) + whole]
    <2>1. file_descriptors' = [file_descriptors EXCEPT ![call.fd].pos = @ + whole]
        BY <1>4 DEF FreadDone
    <2>2. [file_descriptors EXCEPT ![call.fd].pos = @ + whole]
              = [file_descriptors EXCEPT ![call.fd].pos = From(call) + whole]
        BY <1>2 DEF From, DescriptorsTyped
    <2>3. QED  BY <2>1, <2>2
<1>7. PICK piece \in Nat : piece = Piece(call) /\ call.done + piece <= call.size
    BY <1>1, PieceIs
<1>8. ~(call.done + piece < call.size) /\ call.record + 1 = call.count
    <2>1. CASE call.done + piece < call.size
        <3>1. Continued.record = call.record
            BY <1>1, <1>7, <2>1 DEF Continued, ChainStart, Calls
        <3>2. QED  BY <1>1, <1>2, <3>1
    <2>2. CASE ~(call.done + piece < call.size)
        <3>1. Continued.record = call.record + 1
            BY <1>1, <1>7, <2>2 DEF Continued, ChainStart, Calls
        <3>2. QED  BY <1>1, <2>2, <3>1
    <2>3. QED  BY <2>1, <2>2
<1>9. Len(Taken) = whole
    <2>1. Len(Taken) = Before(call) + piece  BY <1>1, <1>7, PieceRead
    <2>2. PICK before \in Nat : before = call.record * call.size /\ before + call.size = whole
        BY <1>2, <1>4, <1>8, RecordsFit
    <2>3. Before(call) = before + call.done  BY <2>2 DEF Before
    <2>4. QED  BY <1>2, <1>7, <1>8, <2>1, <2>2, <2>3
<1>10. From(call) + whole \in 0 .. MaxPos  BY <1>4, <1>5, SizesOfAll
<1>11. QED  BY <1>2, <1>3, <1>4, <1>5, <1>6, <1>9, <1>10

-----------------------------------------------------------------------------
(* Why an open fails.                                                        *)

\* A call that opens a file, or one that opens none, gives no reason to ask.
LEMMA NoFailedOpen ==
    ASSUME NEW op, NEW d, NEW ok \in BOOLEAN, NEW data, ret' = Ret(op, d, ok, data),
           op # "open" \/ ok
    PROVE  FailedOpenJustified'
BY DEF FailedOpenJustified, Ret

LEMMA FullWhenNoneIsFree ==
    ASSUME FreeDescriptors = {}
    PROVE  \A d \in Fd : file_descriptors[d] # Closed
<1> DEFINE T == {d \in Fd : file_descriptors[d] = Closed}
<1>1. SUFFICES ASSUME T # {} PROVE FALSE  OBVIOUS
<1>2. T \in SUBSET Nat  BY DEF Fd
<1>3. PICK d \in T : \A e \in T : d <= e
    <2> HIDE DEF T
    <2>1. QED  BY <1>1, <1>2, LeastOf
<1>4. d \in Fd /\ d \in Nat /\ file_descriptors[d] = Closed  BY <1>2, <1>3
<1>5. ASSUME NEW e \in 1 .. d - 1 PROVE file_descriptors[e] # Closed
    <2>1. e \in Fd /\ e < d  BY <1>4, SizesOfAll DEF Fd
    <2>2. QED  BY <1>3, <2>1
<1>6. QED  BY <1>4, <1>5 DEF FreeDescriptors

LEMMA NotFoundJustified ==
    ASSUME DiskIs, UNCHANGED root, NEW n \in Name, Found(n) = {},
           ret' = Ret("open", 0, FALSE, n)
    PROVE  FailedOpenJustified'
<1>1. FoundIn(root, n) = {}  BY DiskOperators
<1>2. \A j \in DOMAIN root : root[j].name = n => \E i \in 1 .. j - 1 : root[i].name = NoName
    BY <1>1, NotFoundHasReason DEF DiskIs
<1>3. ret'.data = n  BY DEF Ret
<1>4. QED  BY <1>2, <1>3 DEF FailedOpenJustified, Deleted

-----------------------------------------------------------------------------
(* Every step keeps the invariant.                                           *)

LEMMA FilesInit == Init => FilesInv
<1> SUFFICES ASSUME Init PROVE FilesInv  OBVIOUS
<1>1. DiskIs
    <2>1. PICK image \in Images : fat = image.fat /\ root = image.root  BY DEF Init
    <2>2. image = [fat |-> fat, root |-> root]
        <3>1. \A A, B : \A x \in [fat : A, root : B] : x = [fat |-> x.fat, root |-> x.root]
            OBVIOUS
        <3>2. image = [fat |-> image.fat, root |-> image.root]
            BY <3>1, FilesAssumption, Zenon
        <3>3. QED  BY <2>1, <3>2
    <2>3. content = ContentOf(fat, root)
        BY DiskOperators DEF Init, ContentOf
    <2>4. QED  BY <2>1, <2>2, <2>3 DEF DiskIs
<1>2. DescriptorsTyped
    <2>1. file_descriptors = [d \in Fd |-> Closed]  BY DEF Init
    <2>2. QED  BY <2>1, ClosedIs DEF DescriptorsTyped
<1>3. FailedOpenJustified  BY DEF Init, Ret, FailedOpenJustified
<1>4. QED  BY <1>1, <1>2, <1>3 DEF Init, FilesInv

LEMMA IdleIsNoPhase == Idle.phase = "idle" /\ "idle" # "chain" /\ "idle" # "data"
BY DEF Idle

\* The steps of a read in progress.
LEMMA ReadStepKeeps ==
    ASSUME FilesInv, Fread_step
    PROVE  /\ DescriptorsTyped'
           /\ call' = Idle \/ Reading(call)'
           /\ FailedOpenJustified'
           /\ UNCHANGED <<disk, astray>>
<1>1. DiskIs /\ DescriptorsTyped /\ FailedOpenJustified  BY DEF FilesInv
<1>2. UNCHANGED <<disk, astray>>
    BY DEF Fread_step, FollowChain, ChainEnds, StreamSeek, ReadSector, ReadSectorLast, FreadDone
<1>3. Reading(call)
    <2>1. call.phase = "chain" \/ call.phase = "data"
        BY DEF Fread_step, FollowChain, ChainEnds, StreamSeek, ReadSector, ReadSectorLast, FreadDone
    <2>2. call # Idle  BY <2>1, IdleIsNoPhase
    <2>3. QED  BY <2>2 DEF FilesInv
<1>4. UNCHANGED root  BY <1>2 DEF disk
\* A step that moves no position and returns nothing.
<1>5. ASSUME UNCHANGED <<file_descriptors, ret>>
      PROVE  DescriptorsTyped' /\ FailedOpenJustified'
    <2>1. DescriptorsTyped'  BY <1>1, <1>4, <1>5 DEF DescriptorsTyped
    <2>2. FailedOpenJustified'  BY <1>1, <1>4, <1>5 DEF FailedOpenJustified, Deleted
    <2>3. QED  BY <2>1, <2>2
<1>6. CASE FollowChain
    <2>1. UNCHANGED <<file_descriptors, ret>>  BY <1>6 DEF FollowChain
    <2>2. QED  BY <1>1, <1>2, <1>3, <1>5, <1>6, <2>1, FollowChainReads
<1>7. CASE ChainEnds
    <2>1. UNCHANGED <<file_descriptors, ret>> /\ call' = Idle  BY <1>7 DEF ChainEnds
    <2>2. QED  BY <1>2, <1>5, <2>1
<1>8. CASE StreamSeek
    <2>1. UNCHANGED <<file_descriptors, ret>>  BY <1>8 DEF StreamSeek
    <2>2. QED  BY <1>1, <1>2, <1>3, <1>5, <1>8, <2>1, StreamSeekReads
<1>9. CASE ReadSector
    <2>1. UNCHANGED <<file_descriptors, ret>>  BY <1>9 DEF ReadSector
    <2>2. QED  BY <1>1, <1>2, <1>3, <1>5, <1>9, <2>1, ReadSectorReads
<1>10. CASE ReadSectorLast
    <2>1. UNCHANGED <<file_descriptors, ret>>  BY <1>10 DEF ReadSectorLast
    <2>2. QED  BY <1>1, <1>2, <1>3, <1>5, <1>10, <2>1, ReadSectorLastReads
<1>11. CASE FreadDone
    <2>1. DescriptorsTyped'  BY <1>1, <1>3, <1>4, <1>11, FreadDoneIs, PositionSet
    <2>2. call' = Idle /\ ret' = Ret("read", call.fd, TRUE, Taken)  BY <1>11 DEF FreadDone
    <2>3. FailedOpenJustified'  BY <2>2, NoFailedOpen
    <2>4. QED  BY <1>2, <2>1, <2>2, <2>3
<1>12. QED  BY <1>6, <1>7, <1>8, <1>9, <1>10, <1>11 DEF Fread_step

LEMMA FilesNext == FilesInv /\ [Next]_vars => FilesInv'
<1> SUFFICES ASSUME FilesInv, [Next]_vars PROVE FilesInv'  OBVIOUS
<1>1. DiskIs /\ DescriptorsTyped /\ FailedOpenJustified /\ astray \in BOOLEAN
      /\ (call = Idle \/ Reading(call))
    BY DEF FilesInv
\* What is left to show of a call that leaves the disk alone.
<1>2. ASSUME UNCHANGED disk, DescriptorsTyped', call' = Idle \/ Reading(call)',
             astray' \in BOOLEAN, FailedOpenJustified'
      PROVE  FilesInv'
    <2>1. DiskIs'  BY <1>1, <1>2 DEF DiskIs, disk
    <2>2. QED  BY <1>2, <2>1 DEF FilesInv
\* And of one that leaves the descriptors alone, too, and reads nothing.
<1>3. ASSUME UNCHANGED <<disk, file_descriptors, call>>, call = Idle,
             astray' \in BOOLEAN, FailedOpenJustified'
      PROVE  FilesInv'
    <2>1. DescriptorsTyped'  BY <1>1, <1>3 DEF DescriptorsTyped, disk
    <2>2. QED  BY <1>2, <1>3, <2>1
<1>4. ASSUME NEW n \in Name, Fopen(n) PROVE FilesInv'
    <2>1. UNCHANGED <<disk, call, astray>> /\ call = Idle /\ FoundIn(root, n) # {}
        BY <1>4, DiskOperators DEF Fopen, Ready
    <2>2. PICK d \in Fd :
              /\ file_descriptors' = [file_descriptors EXCEPT ![d] = [name |-> n, pos |-> 0]]
              /\ ret' = Ret("open", d, TRUE, n)
        BY <1>1, <1>4, FopenSets
    <2>3. PICK entry : entry = [name |-> n, pos |-> 0]  OBVIOUS
    <2>4. entry \in [name : Name \cup {NoName}, pos : 0 .. MaxPos] /\ entry.name = n
        <3>1. 0 \in 0 .. MaxPos  BY SizesOfAll
        <3>2. QED  BY <2>3, <3>1
    <2>5. DescriptorsTyped'
        <3>1. UNCHANGED root  BY <2>1 DEF disk
        <3>2. QED  BY <1>1, <2>1, <2>2, <2>3, <2>4, <3>1, DescriptorSet
    <2>6. FailedOpenJustified'  BY <2>2, NoFailedOpen
    <2>7. QED  BY <1>1, <1>2, <2>1, <2>5, <2>6
<1>5. ASSUME NEW n \in Name, FopenFull(n) PROVE FilesInv'
    <2>1. UNCHANGED <<disk, file_descriptors, call, astray>> /\ call = Idle
          /\ FreeDescriptors = {}
        BY <1>5 DEF FopenFull, Ready
    <2>2. FailedOpenJustified'
        BY <2>1, FullWhenNoneIsFree DEF FailedOpenJustified
    <2>3. QED  BY <1>1, <1>3, <2>1, <2>2
<1>6. ASSUME NEW op \in {"open", "write"}, NEW n \in Name, FopenFails(op, n) PROVE FilesInv'
    <2>1. UNCHANGED <<disk, file_descriptors, call>> /\ call = Idle /\ astray' \in BOOLEAN
          /\ ret' = Ret(op, 0, FALSE, n) /\ (op = "open" => Found(n) = {})
        BY <1>6 DEF FopenFails, Ready
    <2>2. FailedOpenJustified'
        <3>1. UNCHANGED root  BY <2>1 DEF disk
        <3>2. CASE op = "open"  BY <1>1, <2>1, <3>1, <3>2, NotFoundJustified
        <3>3. CASE op # "open"  BY <2>1, <3>3, NoFailedOpen
        <3>4. QED  BY <3>2, <3>3
    <2>3. QED  BY <1>3, <2>1, <2>2
<1>7. ASSUME FopenRefused PROVE FilesInv'
    <2>1. UNCHANGED <<disk, file_descriptors, call, astray>> /\ call = Idle
          /\ \E ok \in BOOLEAN : ret' = Ret("refused", 0, ok, NoName)
        BY <1>7 DEF FopenRefused, Ready
    <2>2. FailedOpenJustified'  BY <2>1, NoFailedOpen
    <2>3. QED  BY <1>1, <1>3, <2>1, <2>2
<1>8. ASSUME NEW d \in 0 .. MaxFds, Fstat(d) PROVE FilesInv'
    <2>1. UNCHANGED <<disk, file_descriptors, call, astray>> /\ call = Idle
        BY <1>8 DEF Fstat, Ready
    <2>2. \E ok \in BOOLEAN : \E data : ret' = Ret("stat", d, ok, data)  BY <1>8 DEF Fstat
    <2>3. QED  BY <1>1, <1>3, <2>1, <2>2, NoFailedOpen
<1>9. ASSUME NEW d \in 0 .. MaxFds, Fclose(d) PROVE FilesInv'
    <2>1. UNCHANGED <<disk, call, astray>> /\ call = Idle  BY <1>9 DEF Fclose, Ready
    <2>2. \E ok \in BOOLEAN : ret' = Ret("close", d, ok, 0)  BY <1>9 DEF Fclose
    <2>3. UNCHANGED root  BY <2>1 DEF disk
    <2>4. DescriptorsTyped'
        <3>1. CASE Descriptor(d) = Closed
            <4>1. UNCHANGED file_descriptors  BY <1>9, <3>1 DEF Fclose
            <4>2. QED  BY <1>1, <2>3, <4>1 DEF DescriptorsTyped
        <3>2. CASE Descriptor(d) # Closed
            <4>1. d \in Fd  BY <3>2, OpenDescriptor
            <4>2. file_descriptors' = [file_descriptors EXCEPT ![d] = Closed]
                BY <1>9, <3>2 DEF Fclose
            <4>3. QED  BY <1>1, <2>3, <4>1, <4>2, ClosedIs, DescriptorSet
        <3>3. QED  BY <3>1, <3>2
    <2>5. QED  BY <1>1, <1>2, <2>1, <2>2, <2>4, NoFailedOpen
<1>10. ASSUME NEW d \in 0 .. MaxFds, FreadRefused(d) PROVE FilesInv'
    <2>1. UNCHANGED <<disk, file_descriptors, call, astray>> /\ call = Idle
          /\ \E ok \in BOOLEAN : ret' = Ret("read", d, ok, << >>)
        BY <1>10 DEF FreadRefused, Ready
    <2>2. FailedOpenJustified'  BY <2>1, NoFailedOpen
    <2>3. QED  BY <1>1, <1>3, <2>1, <2>2
<1>11. ASSUME NEW d \in 0 .. MaxFds, NEW whence \in {"SET", "CUR", "END"}, NEW k \in Offsets,
              Fseek(d, whence, k)
       PROVE  FilesInv'
    <2>1. UNCHANGED <<disk, call, astray>> /\ call = Idle /\ ret' = Ret("seek", d, TRUE, 0)
        BY <1>11 DEF Fseek, Ready
    <2>2. PICK pos \in 0 .. MaxPos : pos = SeekTarget(d, whence, k)
        BY <1>1, <1>11, FseekSets
    <2>3. d \in Fd /\ file_descriptors[d] # Closed  BY <1>1, <1>11, FseekSets
    <2>4. file_descriptors' = [file_descriptors EXCEPT ![d].pos = pos]
        BY <1>11, <2>2 DEF Fseek
    <2>5. DescriptorsTyped'
        <3>1. UNCHANGED root  BY <2>1 DEF disk
        <3>2. QED  BY <1>1, <2>3, <2>4, <3>1, PositionSet
    <2>6. QED  BY <1>1, <1>2, <2>1, <2>5, NoFailedOpen
<1>12. ASSUME NEW d \in 0 .. MaxFds, NEW whence \in {"SET", "CUR", "END"}, NEW k \in Offsets,
              FseekFails(d, whence, k)
       PROVE  FilesInv'
    <2>1. UNCHANGED <<disk, file_descriptors, call, astray>> /\ call = Idle
          /\ \E ok \in BOOLEAN : ret' = Ret("seek", d, ok, 0)
        BY <1>12 DEF FseekFails, Ready
    <2>2. FailedOpenJustified'  BY <2>1, NoFailedOpen
    <2>3. QED  BY <1>1, <1>3, <2>1, <2>2
<1>13. ASSUME NEW d \in 0 .. MaxFds, NEW size \in RecordSizes, NEW count \in Counts,
              Fread(d, size, count)
       PROVE  FilesInv'
    <2>1. UNCHANGED <<disk, file_descriptors, astray>>
          /\ \E ok \in BOOLEAN : ret' = Ret("read", d, ok, << >>)
        BY <1>13 DEF Fread
    <2>2. Reading(call)'  BY <1>1, <1>13, FreadReads
    <2>3. DescriptorsTyped'  BY <1>1, <2>1 DEF DescriptorsTyped, disk
    <2>4. FailedOpenJustified'  BY <2>1, NoFailedOpen
    <2>5. QED  BY <1>1, <1>2, <2>1, <2>2, <2>3, <2>4
<1>14. ASSUME Fread_step PROVE FilesInv'
    <2>1. /\ DescriptorsTyped' /\ (call' = Idle \/ Reading(call)') /\ FailedOpenJustified'
          /\ UNCHANGED <<disk, astray>>
        BY <1>14, ReadStepKeeps
    <2>2. astray' \in BOOLEAN /\ UNCHANGED disk  BY <1>1, <2>1
    <2>3. QED  BY <1>2, <2>1, <2>2, Zenon
<1>15. ASSUME UNCHANGED vars PROVE FilesInv'
    <2>1. UNCHANGED <<disk, file_descriptors, call, ret, astray>>  BY <1>15 DEF vars, disk
    <2>2. UNCHANGED <<fat, root, content>>  BY <2>1 DEF disk
    <2>3. FailedOpenJustified'  BY <1>1, <2>1, <2>2 DEF FailedOpenJustified, Deleted
    <2>4. DescriptorsTyped'  BY <1>1, <2>1, <2>2 DEF DescriptorsTyped
    <2>5. Reading(call) => Reading(call)'  BY <2>1, ReadsOn
    <2>6. QED  BY <1>1, <1>2, <2>1, <2>3, <2>4, <2>5
<1>16. CASE Next
    BY <1>16, <1>4, <1>5, <1>6, <1>7, <1>8, <1>9, <1>10, <1>11, <1>12, <1>13, <1>14, <1>15
       DEF Next, Halted
<1>17. QED  BY <1>15, <1>16

LEMMA FilesAlways == Spec => []FilesInv
<1>1. Init => FilesInv  BY FilesInit
<1>2. FilesInv /\ [Next]_vars => FilesInv'  BY FilesNext
<1>3. QED  BY <1>1, <1>2, PTL DEF Spec

-----------------------------------------------------------------------------
(***************************************************************************)
(* What a read has stored.                                                 *)
(***************************************************************************)

LEMMA FilesInvImplies == FilesInv => StoresOwnBytes
<1> SUFFICES ASSUME FilesInv PROVE StoresOwnBytes  OBVIOUS
<1>1. DiskIs /\ DescriptorsTyped /\ astray \in BOOLEAN /\ (call = Idle \/ Reading(call))
    BY DEF FilesInv
<1>2. ASSUME call # Idle
      PROVE  /\ call.phase \in {"chain", "data"} /\ Descriptor(call.fd) # Closed
             /\ call.record < call.count /\ call.done < call.size
             /\ call.cluster \in Cluster \cup {Beyond} /\ call.ahead \in Nat /\ call.want \in Nat
    <2>1. Reading(call)  BY <1>1, <1>2
    <2>2. call \in Calls  BY <2>1 DEF Reading
    <2>3. call.phase \in {"chain", "data"} /\ call.ahead \in Nat /\ call.want \in Nat
        BY <2>2 DEF Calls
    <2>4. QED  BY <2>1, <2>3 DEF Reading, InBounds, OnChain
<1>3. FilesTypeOK  BY <1>1, <1>2 DEF FilesTypeOK, DiskIs, DescriptorsTyped
<1>4. ASSUME call # Idle,
             Promise!Promised(file_descriptors[call.fd].pos, call.size, call.count),
             NEW i \in 1 .. Len(call.out)
      PROVE  content[file_descriptors[call.fd].name].bytes[file_descriptors[call.fd].pos + i - 1]
                 \in {call.out[i], AnyByte}
    <2>1. OwnBytes(call)  BY <1>1, <1>4 DEF Reading
    <2>2. QED  BY <1>4, <2>1 DEF OwnBytes, From, FileOf
<1>5. QED  BY <1>3, <1>4 DEF StoresOwnBytes

\* At every moment of a read, whatever the disk holds, the bytes stored so far
\* are the file's own, in order from the position on, when its records lie in a
\* cluster or start one; the file stays open (file.c:265, fat16.c:700-722).
THEOREM ReadsStoreOwnBytes == Spec => []StoresOwnBytes
BY FilesAlways, FilesInvImplies, PTL

\* Opening for reading fails only when the table is full, when the directory has
\* no such file, or when a deleted entry comes before it (fat16.c:584-663).
THEOREM OpensFailForAReason == Spec => []FailedOpenJustified
<1>1. FilesInv => FailedOpenJustified  BY DEF FilesInv
<1>2. QED  BY <1>1, FilesAlways, PTL

-----------------------------------------------------------------------------
(***************************************************************************)
(* The calls implement OpenFiles.                                          *)
(***************************************************************************)

LEMMA PromiseInit == Init => Promise!Init
BY DEF Init, Promise!Init, Ret, Promise!Ret

\* The size of an open file.
LEMMA SizeOf ==
    ASSUME DiskIs, DescriptorsTyped, NEW d \in Fd, file_descriptors[d] # Closed
    PROVE  content[file_descriptors[d].name].size = Item(file_descriptors[d].name).size
<1>1. file_descriptors[d].name \in Name /\ FoundIn(root, file_descriptors[d].name) # {}
    BY BehindDescriptor
<1>2. PICK n \in Name : n = file_descriptors[d].name  BY <1>1
<1>3. content[n].size = Entry(root, n).size  BY <1>1, <1>2 DEF DiskIs, ContentOf
<1>4. QED  BY <1>2, <1>3, DiskOperators

LEMMA DonePromised ==
    ASSUME FilesInv, Reading(call), FreadDone
    PROVE  \E d \in Fd : \E size \in RecordSizes, count \in Counts : Promise!Read(d, size, count)
<1>1. DiskIs /\ DescriptorsTyped  BY DEF FilesInv
<1>2. /\ call.fd \in Fd /\ file_descriptors[call.fd] # Closed
      /\ file_descriptors' = [file_descriptors EXCEPT
                                 ![call.fd].pos = From(call) + call.size * call.count]
      /\ Len(Taken) = call.size * call.count
      /\ call.size \in RecordSizes /\ call.count \in Counts
      /\ call.size * call.count \in Nat /\ From(call) \in Nat
    BY <1>1, FreadDoneIs
<1>3. /\ ret'.op = "read" /\ ret'.fd = call.fd /\ ret'.ok /\ ret'.data = Taken
    BY DEF FreadDone, Ret
<1>4. ASSUME Promise!Promised(From(call), call.size, call.count),
             NEW i \in 1 .. call.size * call.count
      PROVE  LET b == content[FileOf(call)].bytes[From(call) + i - 1]
             IN  b # NoByte /\ ret'.data[i] \in {b} \cup (IF b = AnyByte THEN {ret'.data[i]} ELSE {})
    <2>1. call.phase = "data"  BY DEF FreadDone
    <2>2. Taken \in Seq(Nat)
          /\ content[FileOf(call)].bytes[From(call) + i - 1] \in {Taken[i], AnyByte}
        BY <1>1, <1>2, <1>4, <2>1, TakenIs
    <2>3. Taken[i] \in Nat  BY <1>2, <2>2
    <2>4. QED  BY <1>3, <2>2, <2>3, Clusters
<1>5. Promise!MoveTo(call.fd, From(call) + call.size * call.count)
    BY <1>2 DEF Promise!MoveTo
<1>6. Promise!Read(call.fd, call.size, call.count)
    BY <1>2, <1>3, <1>4, <1>5 DEF Promise!Read, From, FileOf
<1>7. QED  BY <1>2, <1>6

LEMMA PromiseNext == FilesInv /\ [Next]_vars => [Promise!Next]_(Promise!vars)
<1> SUFFICES ASSUME FilesInv, [Next]_vars PROVE [Promise!Next]_(Promise!vars)  OBVIOUS
<1>1. DiskIs /\ DescriptorsTyped /\ (call = Idle \/ Reading(call))  BY DEF FilesInv
<1>2. UNCHANGED content
    <2>1. ASSUME Fread_step PROVE UNCHANGED content
        BY <2>1, ReadStepKeeps DEF disk
    <2>2. QED
        BY <2>1 DEF Next, vars, disk, Fopen, FopenFull, FopenFails, FopenRefused, Fstat, Fclose,
                    FreadRefused, Fseek, FseekFails, Fread, Halted
\* A failed call, and a step that returns nothing and moves nothing.
<1>3. ASSUME UNCHANGED file_descriptors, ~ret'.ok PROVE [Promise!Next]_(Promise!vars)
    BY <1>2, <1>3 DEF Promise!Next, Promise!Refuse
<1>4. ASSUME UNCHANGED <<file_descriptors, ret>> PROVE [Promise!Next]_(Promise!vars)
    BY <1>2, <1>4 DEF Promise!vars
<1>5. ASSUME NEW n \in Name, Fopen(n) PROVE [Promise!Next]_(Promise!vars)
    <2>1. \E d \in Fd : Promise!Open(d, n)
        BY <1>1, <1>5, FopenSets DEF Promise!Open, Ret, Promise!Ret
    <2>2. QED  BY <1>2, <2>1 DEF Promise!Next
<1>6. ASSUME NEW n \in Name, FopenFull(n) PROVE [Promise!Next]_(Promise!vars)
    BY <1>3, <1>6 DEF FopenFull, Ret
<1>7. ASSUME NEW op \in {"open", "write"}, NEW n \in Name, FopenFails(op, n)
      PROVE  [Promise!Next]_(Promise!vars)
    BY <1>3, <1>7 DEF FopenFails, Ret
<1>8. ASSUME FopenRefused PROVE [Promise!Next]_(Promise!vars)
    BY <1>3, <1>8 DEF FopenRefused, Ret
<1>9. ASSUME NEW d \in 0 .. MaxFds, Fstat(d) PROVE [Promise!Next]_(Promise!vars)
    <2>1. CASE Descriptor(d) = Closed
        <3>1. UNCHANGED file_descriptors /\ ~ret'.ok  BY <1>9, <2>1 DEF Fstat, Ret
        <3>2. QED  BY <1>3, <3>1
    <2>2. CASE Descriptor(d) # Closed
        <3>1. d \in Fd /\ Descriptor(d) = file_descriptors[d] /\ file_descriptors[d] # Closed
            BY <2>2, OpenDescriptor
        <3>2. ret' = Ret("stat", d, TRUE, content[file_descriptors[d].name].size)
              /\ UNCHANGED file_descriptors
            BY <1>1, <1>9, <2>2, <3>1, SizeOf DEF Fstat
        <3>3. Promise!Stat(d)  BY <3>1, <3>2 DEF Promise!Stat, Ret, Promise!Ret
        <3>4. QED  BY <1>2, <3>1, <3>3 DEF Promise!Next
    <2>3. QED  BY <2>1, <2>2
<1>10. ASSUME NEW d \in 0 .. MaxFds, Fclose(d) PROVE [Promise!Next]_(Promise!vars)
    <2>1. CASE Descriptor(d) = Closed
        <3>1. UNCHANGED file_descriptors /\ ~ret'.ok  BY <1>10, <2>1 DEF Fclose, Ret
        <3>2. QED  BY <1>3, <3>1
    <2>2. CASE Descriptor(d) # Closed
        <3>1. d \in Fd /\ file_descriptors[d] # Closed  BY <2>2, OpenDescriptor
        <3>2. Promise!Close(d)  BY <1>10, <2>2, <3>1 DEF Fclose, Promise!Close, Ret, Promise!Ret
        <3>3. QED  BY <1>2, <3>1, <3>2 DEF Promise!Next
    <2>3. QED  BY <2>1, <2>2
<1>11. ASSUME NEW d \in 0 .. MaxFds, FreadRefused(d) PROVE [Promise!Next]_(Promise!vars)
    BY <1>3, <1>11 DEF FreadRefused, Ret
<1>12. ASSUME NEW d \in 0 .. MaxFds, NEW whence \in {"SET", "CUR", "END"}, NEW k \in Offsets,
              Fseek(d, whence, k)
       PROVE  [Promise!Next]_(Promise!vars)
    <2>1. /\ d \in Fd /\ Descriptor(d) = file_descriptors[d] /\ file_descriptors[d] # Closed
          /\ SeekTarget(d, whence, k) \in {k, file_descriptors[d].pos + k}
        BY <1>1, <1>12, FseekSets
    <2>2. k < content[file_descriptors[d].name].size
        BY <1>1, <1>12, <2>1, SizeOf DEF Fseek
    <2>3. /\ ret' = Ret("seek", d, TRUE, 0)
          /\ file_descriptors' = [file_descriptors EXCEPT ![d].pos = SeekTarget(d, whence, k)]
        BY <1>12 DEF Fseek
    <2>4. Promise!SeekTo(d, k)
        BY <2>1, <2>2, <2>3 DEF Promise!SeekTo, Promise!MoveTo, Ret, Promise!Ret
    <2>5. QED  BY <1>2, <2>1, <2>4 DEF Promise!Next
<1>13. ASSUME NEW d \in 0 .. MaxFds, NEW whence \in {"SET", "CUR", "END"}, NEW k \in Offsets,
              FseekFails(d, whence, k)
       PROVE  [Promise!Next]_(Promise!vars)
    BY <1>3, <1>13 DEF FseekFails, Ret
<1>14. ASSUME NEW d \in 0 .. MaxFds, NEW size \in RecordSizes, NEW count \in Counts,
              Fread(d, size, count)
       PROVE  [Promise!Next]_(Promise!vars)
    BY <1>3, <1>14 DEF Fread, Ret
<1>15. ASSUME Fread_step PROVE [Promise!Next]_(Promise!vars)
    <2>1. CASE FreadDone
        <3>1. Reading(call)  BY <1>1, <2>1, IdleIsNoPhase DEF FreadDone
        <3>2. \E d \in Fd : \E size \in RecordSizes, count \in Counts : Promise!Read(d, size, count)
            BY <2>1, <3>1, DonePromised
        <3>3. QED  BY <1>2, <3>2 DEF Promise!Next
    <2>2. CASE ~FreadDone
        <3>1. UNCHANGED <<file_descriptors, ret>>
            BY <1>15, <2>2 DEF Fread_step, FollowChain, ChainEnds, StreamSeek, ReadSector,
                               ReadSectorLast
        <3>2. QED  BY <1>4, <3>1
    <2>3. QED  BY <2>1, <2>2
<1>16. ASSUME UNCHANGED vars PROVE [Promise!Next]_(Promise!vars)
    BY <1>4, <1>16 DEF vars
<1>17. CASE Next
    BY <1>17, <1>5, <1>6, <1>7, <1>8, <1>9, <1>10, <1>11, <1>12, <1>13, <1>14, <1>15, <1>16
       DEF Next, Halted
<1>18. QED  BY <1>16, <1>17

\* The file calls keep the promise of OpenFiles on every disk: descriptors do not
\* disturb each other, a read returns its file's bytes and moves only its own
\* position, a failed call moves nothing (file.c:64-283, fat16.c:370-762).
THEOREM FilesImplementOpenFiles == Spec => OpenFilesSpec
<1>1. Init => Promise!Init  BY PromiseInit
<1>2. FilesInv /\ [Next]_vars => [Promise!Next]_(Promise!vars)  BY PromiseNext
<1>3. QED  BY <1>1, <1>2, FilesAlways, PTL DEF Spec, OpenFilesSpec, Promise!Spec
=============================================================================
